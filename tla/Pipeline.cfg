\* One device over six minutes, every pattern of readings; and two devices
\* with broken values and unreadable timestamps.
SPECIFICATION PipelineSpec
CHECK_DEADLOCK FALSE
CONSTANTS
    Columns <- Signals
    Low <- Lows
    High <- Highs
    Null = Null
    Bad = Bad
    Unreadable = Unreadable
    d1 = d1
    d2 = d2
    Absent = Absent
    RawTables <- AllTables
    Frequencies = {1, 2}
    SensorThreshold <- Thresholds
    FlatlineWindow = 3
    RpmThreshold = 500
    FlowThreshold = 1
INVARIANTS
    FillIsTimeFaithful
    EmptyRowsChangeNothing
    GapsAccountForMissing
    FlatlinesAreMaximal
    CyclesAreStarts
    GapsDoNotStretchTime
    ReportAddsUp
    DevicesIndependent
    MeasuredWhenUsable
