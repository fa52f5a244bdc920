---------------------------- MODULE MCFlushQueue ----------------------------
(* Instances of FlushQueue for TLC: which process each flush call runs in,  *)
(* and the symmetry of records and of slabs.                               *)
EXTENDS FlushQueue, TLC

CONSTANTS p1, p2, f1, f2

\* Two processes, one flush call each.
OneEach == (f1 :> p1) @@ (f2 :> p2)

Symmetry == Permutations(Record) \union Permutations(Slab)
=============================================================================
