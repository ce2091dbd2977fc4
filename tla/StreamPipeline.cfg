\* One run of the producer against the application's consumer; either side
\* may be stopped, and the consumer restarted, at any time, joins time out,
\* and threads that can run do run.
SPECIFICATION FairSpec
CONSTANTS
  QueueMax = 2
  Sentinel = Sentinel
  MaxTimestamp = 2
  Rows <- ThreeRows
  BatchSize = 2
  EventKinds = {"reading"}
  ConnectMayFail = TRUE
  ReadMayFail = TRUE
  MaxRuns = 1
  DedupMax = 4
  ErrorCap = 2
  JoinTimesOut = TRUE
  MaxStarts = 2
  MaxDrains = 0
  External <- NoMessages
  MaxExternal = 0
INVARIANTS
  TypeOK
  Conserved
  EndsOnlyAfterSoleRun
  StreamDrained
  RunningMeansAlive
  OneLoopThread
  TruncationExplained
PROPERTIES
  StreamEnds
  ProducerStopsWhileConsumed
  ConsumerStops
CHECK_DEADLOCK FALSE
