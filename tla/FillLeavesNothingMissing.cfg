\* What the documentation says of the fill strategy, against the code.
SPECIFICATION PipelineSpec
CHECK_DEADLOCK FALSE
CONSTANTS
    Columns <- Signals
    Low <- Lows
    High <- Highs
    Null = Null
    Bad = Bad
    Unreadable = Unreadable
    d1 = d1
    d2 = d2
    Absent = Absent
    RawTables <- LongTables
    Frequencies = {1, 2}
    SensorThreshold <- Thresholds
    FlatlineWindow = 3
    RpmThreshold = 500
    FlowThreshold = 1
INVARIANTS
    FillLeavesNothingMissing
