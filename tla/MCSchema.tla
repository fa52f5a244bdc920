------------------------------ MODULE MCSchema ------------------------------
(* Three processes, of the builds with one, two and three migrations.       *)
EXTENDS Schema

CONSTANTS p1, p2, p3

OneOfEach == [p \in {p1, p2, p3} |-> CASE p = p1 -> 1 [] p = p2 -> 2 [] p = p3 -> 3]
=============================================================================
