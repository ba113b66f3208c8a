\* Two processes, one after the other or at once, each with any of 108
\* configurations, and one of them may be killed at any point.
CONSTANTS
    Daemons = {d1, d2}
    Streams = {a, b}
    Layouts = {float32, int16}
    Modules = {m1, m2}
    None = none
    a = a
    b = b
    m1 = m1
    m2 = m2
    float32 = float32
    int16 = int16
    Configs <- MCConfigs
    MaxCrashes = 1
SPECIFICATION Spec
INVARIANTS
    OneDaemon
    
CHECK_DEADLOCK FALSE
