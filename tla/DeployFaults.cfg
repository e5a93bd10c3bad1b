SPECIFICATION Spec
CONSTANTS
  Runs = {r1, r2}
  Initial = initial
  DeployNow = {FALSE}
  Callers = {c1, c2}
  Calls = {}
  CallKinds = {}
  Commits = {a}
  DeployType = "shell"
  MaxFaults <- CutShort
  None = None
  Unstarted = Unstarted
SYMMETRY RaceSymmetry
CONSTRAINT AtMostTwo
INVARIANTS OneAwaitedThread SlotHoldsTask
PROPERTIES TerminalStays ImplementsSlot
