SPECIFICATION Spec
CONSTANTS
  Parts = {"supervisor", "branch", "stream", "turns"}
  N = 2
  OpKinds = {"start", "stop", "remove"}
  MaxOps = 1
  MaxReboots = 1
  Commits = {x, y}
  MaxPushes = 2
  MaxManual = 1
  MaxEnables = 1
  MaxFaults = 1
  None = None
  Clients = {a}
  RingSize = 2
  QueueSize = 2
  MaxEvents = 5
  MaxDisconnects = 1
  MaxTurns = 2
  MaxRounds = 2
  MaxCalls = 2
  HistoryLimit = 4
  MaxErased = 1
INVARIANTS AttemptsBounded NotRepeated NoSilentLoss EveryCallAnswered
PROPERTIES SecondChance Healed HeadIsDeployed CatchesUp TurnsEnd
CHECK_DEADLOCK FALSE
