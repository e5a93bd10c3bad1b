SPECIFICATION TurnSpec
CONSTANTS
  MaxTurns = 2
  MaxRounds = 2
  MaxCalls = 2
  HistoryLimit = 4
  MaxErased = 0
INVARIANTS AnswersFollow
