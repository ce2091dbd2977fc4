\* start_background after a stop() that gave up on the thread.
SPECIFICATION Spec
CONSTANTS
  QueueMax = 2
  Sentinel = Sentinel
  MaxTimestamp = 2
  Rows <- TwoRows
  BatchSize = 2
  EventKinds = {"reading", "malformed"}
  ConnectMayFail = FALSE
  ReadMayFail = FALSE
  MaxRuns = 0
  DedupMax = 4
  ErrorCap = 2
  JoinTimesOut = TRUE
  MaxStarts = 2
  MaxDrains = 0
  External <- NoMessages
  MaxExternal = 0
INVARIANTS
  StartedMeansConsuming
CHECK_DEADLOCK FALSE
