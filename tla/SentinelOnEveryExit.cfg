\* The database cannot be opened.
SPECIFICATION Spec
CONSTANTS
  QueueMax = 2
  Sentinel = Sentinel
  MaxTimestamp = 2
  Rows <- TwoRows
  BatchSize = 2
  EventKinds = {"reading", "malformed"}
  ConnectMayFail = TRUE
  ReadMayFail = FALSE
  MaxRuns = 1
  DedupMax = 4
  ErrorCap = 2
  JoinTimesOut = FALSE
  MaxStarts = 1
  MaxDrains = 0
  External <- NoMessages
  MaxExternal = 0
INVARIANTS
  SentinelOnEveryExit
CHECK_DEADLOCK FALSE
