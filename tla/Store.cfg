\* Two runs side by side over windows that meet, overlap and contain each other,
\* with readings that arrive at any time, one of them worthless and one
\* incomplete, failures and restarts; and every query of what they stored.
SPECIFICATION StoreSpec
CHECK_DEADLOCK FALSE
CONSTANTS
    Runs = {r1, r2}
    Requests <- SomeRequests
    Measurements <- TwoDevices
    Incomplete <- Partial
    Worthless <- Broken
    Metrics = {"active_duration_hours", "average_pressure_bar"}
    OffsetText = TRUE
    None = None
    Bounds = {0, 2, 3, 4, 5}
SYMMETRY RunSymmetry
INVARIANTS
    NewestUnlessConcurrent
    ProcessedIsFound
    DisjointWindowsCountOnce
    LatestIsNewest
PROPERTIES
    KeepsPublication
