----------------------------- MODULE MCCatalog -----------------------------
(* Instances of Catalog for TLC.                                            *)
EXTENDS Catalog, TLC

CONSTANTS p1, c1, c2

\* One process, with one goroutine or two.
OneProcess == (c1 :> p1) @@ (c2 :> p1)
Alone == c1 :> p1

Symmetry == Permutations(Record)
=============================================================================
