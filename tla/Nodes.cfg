\* A node is joined to another one and to a Lumen server by up to three additions,
\* two at once, with one failure of the network, restart or change of address.
SPECIFICATION Spec
CONSTANTS
    Nodes = {a, b}
    Joining = {a}
    Lumens = {l}
    Users = {u, v}
    Pending = Pending
    Addresses = {1, 2, 3}
    MaxKeys = 5
    MaxOps = 2
    MaxFaults = 1
    a = a
    b = b
    l = l
    u = u
    v = v
SYMMETRY MCSymmetry
INVARIANTS
    NotLockedOut
    
CHECK_DEADLOCK FALSE
