SPECIFICATION FairSpec
CONSTANTS
  Messages = {a, b}
  Streaming = {}
  MaxStops = 2
  MaxClears = 1
  MaxQuestions = 2
  None = None
INVARIANTS OneLiveTurn AnswerIsFresh IdleIsLast
PROPERTIES StopsTakeEffect
