------------------------------ MODULE MCWorkers ------------------------------
(***************************************************************************)
(* Instances of Workers: a source without inputs, a filter with two inputs *)
(* and a module whose second input nobody produces; and a source with a    *)
(* single consumer.                                                        *)
(***************************************************************************)
EXTENDS Workers, TLC

CONSTANTS source, filter, orphan

MCProduced ==
    (source :> <<>>) @@ (filter :> <<TRUE, TRUE>>) @@ (orphan :> <<TRUE, FALSE>>)

MCPair == (source :> <<>>) @@ (filter :> <<TRUE>>)
=============================================================================
