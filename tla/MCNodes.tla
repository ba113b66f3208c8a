------------------------------- MODULE MCNodes -------------------------------
EXTENDS Nodes, TLC

\* Users are interchangeable.
MCSymmetry == Permutations(Users)
====
