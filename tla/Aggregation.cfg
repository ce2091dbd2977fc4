\* A store with room for eight buckets, and devices on different clocks.
SPECIFICATION AggSpec
CONSTANTS
  MaxBuckets = 8
  NoFilter = NoFilter
  Bounds <- QueryBounds
  Events <- Arrivals
  Metrics <- TwoMetrics
  ValidRange <- InRange
  NoValue = NoValue
  HourTicks = 2
  DayTicks = 4
  MaxEvents = 5
INVARIANTS
  AggregatesAreExact
  AlignedQueriesAreExact
  LatestInBucket
PROPERTIES
  OldestLeavesFirst
CHECK_DEADLOCK FALSE
