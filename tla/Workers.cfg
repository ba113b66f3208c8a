\* A source, a filter of two streams and a module with a missing input share
\* the lock; setting up the source may also raise.
CONSTANTS
    source = source
    filter = filter
    orphan = orphan
    Workers = {source, filter, orphan}
    Produced <- MCProduced
    HasOutputs = {source, filter}
    Fragile = {source}
SPECIFICATION FairSpec
INVARIANTS
    FdsNotShared
PROPERTIES
    LockReleased
    StopEnds
CHECK_DEADLOCK FALSE
