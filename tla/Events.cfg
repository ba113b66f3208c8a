\* Three events in the source: two blocks of a read, the first of them two
\* posts.  The second copy can take up what a failed one has left.
CONSTANTS
    Source = source
    Dest = dest
    None = None
    ReadBlock = 2
    WriteBlock = 1
    Setups <- MCSetups
SPECIFICATION Spec
INVARIANTS
    EventsKept
    CopyComplete
    
PROPERTY
    CopyEnds
CHECK_DEADLOCK FALSE
