------------------------------ MODULE MCSessions ------------------------------
(* Instances of Sessions for TLC.                                            *)
EXTENDS Sessions, TLC

CONSTANTS top, sub   \* a conversation and a sub-agent run it delegates to

Lineage == top :> NoSession @@ sub :> top

Symmetry == Permutations(Caller)
===============================================================================
