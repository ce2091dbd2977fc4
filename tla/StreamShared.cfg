\* The background loop and a caller of run_until_empty take from a queue that
\* others fill with good, empty, overflowing and malformed messages, repeated
\* ids among them.
SPECIFICATION Spec
CONSTANTS
  QueueMax = 2
  Sentinel = Sentinel
  MaxTimestamp = 2
  Rows <- OneRow
  BatchSize = 2
  EventKinds = {"reading"}
  ConnectMayFail = FALSE
  ReadMayFail = FALSE
  MaxRuns = 0
  DedupMax = 2
  ErrorCap = 1
  JoinTimesOut = FALSE
  MaxStarts = 1
  MaxDrains = 1
  External <- Mixed
  MaxExternal = 3
INVARIANTS
  Accounted
  ErrorsMatchCounters
  WatermarkCoversAggregates
  BucketsAgree
  SuccessMeansAggregated
  AggregatedOnce
  ProcessesAllAlone
PROPERTIES
  KeepsPromise
CHECK_DEADLOCK FALSE
