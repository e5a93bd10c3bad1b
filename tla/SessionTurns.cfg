SPECIFICATION FairSpec
CONSTANTS
  Messages = {a, b}
  Streaming = {a, b}
  MaxStops = 0
  MaxClears = 0
  MaxQuestions = 1
  None = None
INVARIANTS TypeOK StreamHasTurn
PROPERTIES StreamsClose
