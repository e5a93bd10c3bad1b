SPECIFICATION Spec
CONSTANTS
  Runs = {r1, r2}
  Initial = initial
  DeployNow = {FALSE}
  Callers = {c1}
  Calls = {o1}
  CallKinds = {"start", "stop", "update", "remove"}
  Commits = {a, b}
  DeployType = "docker"
  MaxFaults <- RaiseExit
  None = None
  Unstarted = Unstarted
SYMMETRY Symmetry
INVARIANTS TypeOK SourceAligned TasksTracked
PROPERTIES ImplementsRunBook
