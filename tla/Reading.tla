------------------------------- MODULE Reading -------------------------------
(***************************************************************************)
(* What is read back from one device: lists of records, transcripts, and   *)
(* the order of a recall's answer.  The three share no state, so a         *)
(* behaviour is a behaviour of one of them, at one desk.                   *)
(***************************************************************************)
EXTENDS Listing, Transcript, Ranking

VARIABLE desk

vars == <<listingVars, transcriptVars, rankingVars, desk>>

TypeOK ==
  /\ desk \in {"listing", "transcript", "ranking"}
  /\ ListingTypeOK
  /\ TranscriptTypeOK
  /\ RankingTypeOK

Init ==
  /\ desk \in {"listing", "transcript", "ranking"}
  /\ ListingInit
  /\ TranscriptInit
  /\ RankingInit

Next ==
  /\ UNCHANGED desk
  /\ \/ desk = "listing" /\ ListingNext /\ UNCHANGED <<transcriptVars, rankingVars>>
     \/ desk = "transcript" /\ TranscriptNext /\ UNCHANGED <<listingVars, rankingVars>>
     \/ desk = "ranking" /\ RankingNext /\ UNCHANGED <<listingVars, transcriptVars>>

Spec == Init /\ [][Next]_vars
===============================================================================
