\* Two folders below the root, so that one may be moved below the other; a data
\* and an event stream with the same id, and the output of a module.  Every
\* request may come while a delete is under way.
CONSTANTS
    root = root
    f1 = f1
    f2 = f2
    d1 = d1
    e1 = e1
    d2 = d2
    n1 = n1
    n2 = n2
    Root = root
    Folders = {root, f1, f2}
    DataStreams = {d1, d2}
    EventStreams = {e1}
    Id <- MCId
    Names = {n1, n2}
    Configured = {}
    Outputs = {d2}
    MaxWriters = 1
    MaxOverlaps = 1
SPECIFICATION Spec
INVARIANTS
    Acyclic
    NamesUnique
    
PROPERTIES
    LockedPathKept
