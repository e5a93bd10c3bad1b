SPECIFICATION LogSpec
CONSTANTS
  LogHalves = 2
  LogCuts = 0
  LogRounds = 3
INVARIANTS TailsUntilDisconnect
