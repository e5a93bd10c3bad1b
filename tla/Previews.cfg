SPECIFICATION PrevFairSpec
CONSTANTS
  Apps = {p, q}
  Calls = {c1, c2}
  Removals = {c2}
  Kinds = {"start", "stop", "status", "remove"}
  LastPort = 2
  MaxProcs = 2
INVARIANTS PrevTypeOK PreviewsTracked
PROPERTIES PreviewsExpire
