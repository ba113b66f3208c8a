\* Three rows in or out, and two failures: a connection breaks,
\* is opened again and delivers, with rows lost in between; a second pipe attaches
\* before or after the first one closes; the queue of the output fills up.
CONSTANTS
    Pipes = {p1, p2}
    None = none
    WriteLimit = 1
    Setups <- MCSetups
    p1 = p1
    p2 = p2
SPECIFICATION FairSpec
INVARIANTS
    LossMarked
PROPERTIES
    
    StopReturns
CHECK_DEADLOCK FALSE
