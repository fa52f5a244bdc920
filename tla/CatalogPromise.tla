--------------------------- MODULE CatalogPromise ---------------------------
(***************************************************************************)
(* What the catalog's files promise: a map from records to entries in      *)
(* which the newest entry somebody was told is on disk is never lost to an *)
(* older one.  Compacting, closing, crashing and opening again are         *)
(* invisible, but for entries whose write was reported as failed: those    *)
(* may be there or not (manifest/manifest.go, the comments on Manifest and *)
(* Remove).                                                                *)
(***************************************************************************)
EXTENDS Naturals

CONSTANT Record

VARIABLES
  contents,   \* the entry the files hold for each record
  confirmed   \* the newest entry confirmed for each record

(* An entry is no older than another one.                                   *)
NoOlder(e, f) == e = f \/ e.stamp > f.stamp

(* A newer entry for one record, confirmed or not.                          *)
Put(r) ==
  /\ contents'[r].stamp > contents[r].stamp
  /\ contents' = [contents EXCEPT ![r] = contents'[r]]
  /\ \/ confirmed' = [confirmed EXCEPT ![r] = contents'[r]]
     \/ UNCHANGED confirmed

(* Entries that were never confirmed vanish.                                *)
Settle ==
  /\ UNCHANGED confirmed
  /\ \A r \in Record :
       /\ NoOlder(contents[r], contents'[r])
       /\ NoOlder(contents'[r], confirmed[r])

Next == (\E r \in Record : Put(r)) \/ Settle
=============================================================================
