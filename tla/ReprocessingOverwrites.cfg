\* The same request made twice while readings arrive.
SPECIFICATION StoreSpec
CHECK_DEADLOCK FALSE
CONSTANTS
    Runs = {r1, r2}
    Requests <- OneRequest
    Measurements <- OneDevice
    Incomplete <- NoneBroken
    Worthless <- NoneBroken
    Metrics = {"active_duration_hours", "average_pressure_bar"}
    OffsetText = TRUE
    None = None
    Bounds = {0, 4}
INVARIANTS
    ReprocessingOverwrites
