------------------------------ MODULE MCPacker ------------------------------
(* Instances of Packer for TLC.                                             *)
EXTENDS Packer, TLC

CONSTANTS p1, p2, f1, f2, f3

\* One process: its timer f1 and a goroutine f2 that adds and flushes.
OneProcess == (f1 :> p1) @@ (f2 :> p1)

\* The first process has a timer and a caller, the second a caller.
TimerAndTwo == (f1 :> p1) @@ (f2 :> p1) @@ (f3 :> p2)

Symmetry == Permutations(Record) \union Permutations(Slab)
=============================================================================
