------------------------- MODULE DurabilityPromise -------------------------
(***************************************************************************)
(* What the write path promises whoever calls Remember: a record accepted  *)
(* on the device is owed to the network until it is stored there, a stored *)
(* record stays stored, and a debt is discharged only by storing           *)
(* (store/packer/packer.go, the comments on Packer and Add).               *)
(***************************************************************************)
CONSTANT Record

VARIABLES
  owed,    \* records still to be written to the network
  stored   \* records the network holds and the vault can find

vars == <<owed, stored>>

Init == owed = {} /\ stored = {}

(* The device takes a record and owes it.                                   *)
Accept(r) ==
  /\ r \notin owed \union stored
  /\ owed' = owed \union {r}
  /\ UNCHANGED stored

(* An owed record is stored.  The debt stands until it is discharged.       *)
Store(r) ==
  /\ r \in owed
  /\ stored' = stored \union {r}
  /\ UNCHANGED owed

(* Debts for records that are stored are struck off.                        *)
Discharge(S) ==
  /\ S \subseteq owed \intersect stored
  /\ owed' = owed \ S
  /\ UNCHANGED stored

Next ==
  \/ \E r \in Record : Accept(r) \/ Store(r)
  \/ \E S \in SUBSET Record : Discharge(S)

Spec == Init /\ [][Next]_vars
=============================================================================
