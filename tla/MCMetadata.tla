------------------------------ MODULE MCMetadata ------------------------------
(***************************************************************************)
(* Instances of Metadata: streams are numbered per kind, as the rows of    *)
(* the two tables are.                                                     *)
(***************************************************************************)
EXTENDS Metadata

CONSTANTS root, f1, f2, d1, d2, e1, n1, n2

MCId == [s \in Streams |-> IF s = d2 THEN 2 ELSE 1]
=============================================================================
