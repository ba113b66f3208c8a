\* Four rows, the third with a NaN, and two breaks: there are rows before and
\* after every failure and every break.
CONSTANTS
    BadRows = {3}
    KeepAll = FALSE
    MergeGap = 0
    MaxRows = 4
    MaxBreaks = 2
    MaxFailures = 2
SPECIFICATION FairSpec
INVARIANTS
    NoRowLost
    CopyFailuresMarked
PROPERTIES
    RowsSettle
CHECK_DEADLOCK FALSE
