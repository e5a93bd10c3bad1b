SPECIFICATION FairSpec
CONSTANTS
  Runs = {r1, r2}
  Initial = initial
  DeployNow = {TRUE, FALSE}
  Callers = {c1, c2}
  Calls = {}
  CallKinds = {}
  Commits = {}
  DeployType = "shell"
  MaxFaults <- OnlyRaise
  None = None
  Unstarted = Unstarted
INVARIANTS ProcessesTracked
PROPERTIES RunsSettle
