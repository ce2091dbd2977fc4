\* Stretches of equal readings as long as the threshold of the sensor, against
\* a request whose window is longer.
SPECIFICATION PipelineSpec
CHECK_DEADLOCK FALSE
CONSTANTS
    Columns <- Signals
    Low <- Lows
    High <- Highs
    Null = Null
    Bad = Bad
    Unreadable = Unreadable
    d1 = d1
    d2 = d2
    Absent = Absent
    RawTables <- LongTables
    Frequencies = {1, 2}
    SensorThreshold <- Thresholds
    FlatlineWindow = 3
    RpmThreshold = 500
    FlowThreshold = 1
INVARIANTS
    GreaterThresholdUsed
