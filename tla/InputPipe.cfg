\* Four rows and tokens of three bytes through a buffer of two rows.
CONSTANTS
    RowBytes = 3
    BufferSize = 2
    MaxItems = 4
SPECIFICATION FairSpec
PROPERTIES
    ImplementsChannel
    ReachesEnd
CHECK_DEADLOCK FALSE
