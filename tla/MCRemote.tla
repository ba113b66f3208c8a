------------------------------- MODULE MCRemote -------------------------------
EXTENDS Remote
CONSTANTS p1, p2

\* A node that reads from another one, one that writes to another one, and a
\* smaller one that does both, whose stop has two tasks to end.
MCSetups == {[pipes |-> {p1, p2}, made |-> 3, wrote |-> 0, fails |-> 2],
             [pipes |-> {}, made |-> 0, wrote |-> 3, fails |-> 2],
             [pipes |-> {p1}, made |-> 1, wrote |-> 1, fails |-> 1]}

=============================================================================
