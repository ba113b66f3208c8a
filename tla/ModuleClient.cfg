\* One input and two outputs, each with any of four seconds: every combination of
\* up to two intervals per stream, long ones and ones too short to filter.
CONSTANTS
    Inputs = {i1}
    Outputs = {o1, o2}
    Seconds = 4
    Bounds <- MCBounds
    MaxSignals = 1
SPECIFICATION FairSpec
INVARIANTS
    MissingExact
    FilteredKept
    
PROPERTIES
    StopEnds
CHECK_DEADLOCK FALSE
