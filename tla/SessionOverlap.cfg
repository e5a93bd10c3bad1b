SPECIFICATION Spec
CONSTANTS
  Messages = {a, b, c}
  Streaming = {}
  MaxStops = 1
  MaxClears = 0
  MaxQuestions = 0
  None = None
INVARIANTS AttachesToTurn
SYMMETRY Symmetry
