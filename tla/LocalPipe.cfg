\* A queue of two blocks and a cache of two rows: a writer one block
\* ahead of the reader blocks, and a write of three rows flushes in its middle.
CONSTANTS
    WriteLimit = 2
    CacheLines = 2
    MaxBlock = 3
    MaxRows = 4
    MaxBreaks = 2
SPECIFICATION FairSpec
INVARIANTS
    RowsInOrder
    BlockFits
    BreaksFlagged
PROPERTIES
    WriterUnblocked
    ReaderEnds
    IsChannel
CHECK_DEADLOCK FALSE
