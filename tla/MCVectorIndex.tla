---------------------------- MODULE MCVectorIndex ----------------------------
(* Instances of VectorIndex for TLC.                                         *)
EXTENDS VectorIndex, TLC

Symmetry == Permutations(Record) \union Permutations(Caller)
==============================================================================
