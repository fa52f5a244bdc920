------------------------------- MODULE Ordering -------------------------------
(***************************************************************************)
(* Sorting, for the lists that are read back (ORDER BY in local/records.go,*)
(* SliceStable in recall/pipeline.go): where an element goes is how many   *)
(* others come before it.                                                  *)
(***************************************************************************)
EXTENDS Naturals, FiniteSets

(* Of pairs of a place, from 0, and what stands there: the nth.             *)
Nth(placed, n) == (CHOOSE p \in placed : p[1] = n - 1)[2]

(* The elements of a finite set, one after the other.                       *)
InOrder(S, Before(_, _)) ==
  LET placed == {<<Cardinality({y \in S : Before(y, x)}), x>> : x \in S}
  IN [n \in 1..Cardinality(S) |-> Nth(placed, n)]
===============================================================================
