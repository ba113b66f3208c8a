\* Two consuming modules and one in-process subscriber: one stalls or leaves
\* while the others are being served.
CONSTANTS
    OsPipes = {p1, p2}
    Locals = {l1}
    Disordered = TRUE
    MaxBlocks = 2
    MaxSpawns = 2
SPECIFICATION FairSpec
INVARIANTS
    RunSurvivesBreaks
PROPERTIES
    
    FanOutEnds
CHECK_DEADLOCK FALSE
