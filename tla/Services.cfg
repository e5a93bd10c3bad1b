SPECIFICATION Spec
CONSTANTS
  Parts = {"releases", "databases", "access", "logs", "backups", "update", "projects", "channels", "proxy"}
  Releases = {1, 2}
  Approvals = {1, 2}
  MaxOthers = 1
  MaxEdits = 1
  None = None
  DbCalls = {1, 2, 3}
  DbKinds = {"create", "start", "stop", "delete", "wipe"}
  Requests = {1, 2, 3}
  Kinds = {"page", "token", "session"}
  Plain = 1
  Elevated = 2
  TokenBudget = 1
  Window = 2
  TTL = 2
  Sessions = {s1}
  LastInstant = 2
  LogHalves = 4
  LogCuts = 1
  LogRounds = 3
  Schedules = {"s1", "s2"}
  Databases = {"d", "e"}
  DatabaseOf <- ScheduledDatabase
  Matching <- OwnFiles
  Frequency <- Minutely
  Retention <- KeepLocally
  SaveLocally = {"s1"}
  Stored = {"s1"}
  LastMinute = 2
  MaxRuns = 2
  Snapshots = {1, 2, 3}
  Version <- Versions
  Older <- Ancestors
  FirstSnapshot = 1
  AllowDowngrade = FALSE
  MaxUpdates = 2
  MaxOutside = 3
  Uuids = {1, 2}
  Creators = {1, 2, 3}
  MaxGone = 1
  HotTypes = {"token", "thought"}
  FlushCount = 2
  HistorySize = 2
  SessionQueue = 2
  MaxPushes = 4
  MaxMirrored = 1
  MaxConnects = 2
  Production = {app, blog}
  Dedicated = {}
  Hosts = {dotted, dashed}
  Apex = {}
  Matcher <- SameMatcher
  Updates = {1, 2}
  MaxFaults = 1
  MaxDrift = 1
  NoHost = NoHost
INVARIANTS SingleUse ContainerMatchesRow AccessSound TailExact NewestDumpKept
  PortsUnique ChannelFaithful ProxyServes
PROPERTIES DecisionStands OncePerMinute UpdateSound
CHECK_DEADLOCK FALSE
