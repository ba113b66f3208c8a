\* Five timestamps and three blocks of rows: up to three intervals, one of which
\* fills more than one block of a read; one edit and one read run beside the
\* inserter.
CONSTANTS
    BlockSize = 3
    Factor = 2
    Gap = 1
    RowLimits = {0, 2}
    Ranges <- MCRanges
    Lengths = {1, 4}
    MaxTime = 5
    MaxWrites = 3
    MaxEdits = 1
    MaxReads = 1
    MaxBlocks = 4
SPECIFICATION Spec
INVARIANTS
    ReadsExact
    ReadsInOrder
    DecimationExact
    
CHECK_DEADLOCK FALSE
