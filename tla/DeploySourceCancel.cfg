SPECIFICATION Spec
CONSTANTS
  Runs = {r1, r2}
  Initial = initial
  DeployNow = {FALSE}
  Callers = {c1}
  Calls = {}
  CallKinds = {}
  Commits = {a, b}
  DeployType = "shell"
  MaxFaults <- OnlyCancel
  None = None
  Unstarted = Unstarted
INVARIANTS SourceAligned
