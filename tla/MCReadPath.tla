------------------------------ MODULE MCReadPath ------------------------------
(* Instances of ReadPath for TLC.                                            *)
EXTENDS ReadPath, TLC

CONSTANTS p1, p2, c1, c2

(* A call of each process.                                                   *)
TwoCallers == c1 :> p1 @@ c2 :> p2

(* One failure, or one reclaim or repack, beside both calls.  A second of    *)
(* these is followed beside one call at a time, and while the record has not *)
(* been forgotten or dropped early: then RecallsAnswer promises nothing.    *)
Budget ==
  \/ jobs + faults <= 1
  \/ faults = 0 /\ condemned \union early = {} /\ \E c \in Caller : pc[c] = "idle"

Swap == p1 :> p2 @@ p2 :> p1 @@ c1 :> c2 @@ c2 :> c1

Symmetry == Permutations(Slab) \union {Swap}
===============================================================================
