------------------------------ MODULE Transcript ------------------------------
(***************************************************************************)
(* Reading a conversation back: how a save cuts its turns into chunks      *)
(* (record/chunk.go), how a load finds the turn it is to start from and    *)
(* pages on (vault/session_load.go), and the span of turns a memory names  *)
(* as its source (record/span.go).                                         *)
(*                                                                         *)
(* A save is Sessions' whole save of one caller.  It refuses a turn it     *)
(* sends twice or one at either end of an earlier chunk, and no other, so  *)
(* a turn from the inside of a chunk may be sent again.  A turn is its id, *)
(* a chunk where its first and its last turn stand in the conversation.    *)
(***************************************************************************)
EXTENDS Naturals, Sequences, FiniteSets, SequencesExt

CONSTANTS
  Turn,       \* message ids
  Start,      \* no message id: read from the beginning
  SizeOf,     \* the stored size of each message
  Target,     \* the size a chunk may grow to
  PageSize,   \* limits asked for
  MaxTurns    \* bound on the turns of the conversation

ASSUME TranscriptAssumption ==
  /\ Start \notin Turn
  /\ SizeOf \in [Turn -> Nat \ {0}]
  /\ Target \in Nat \ {0} /\ PageSize \subseteq Nat \ {0} /\ MaxTurns \in Nat

VARIABLES
  said,     \* the turns of all chunks, end to end
  chunks,   \* where each chunk begins and ends among them
  resent,   \* a turn has been saved twice (history)
  from,     \* the turn the reader's next page starts at, or Start
  got,      \* the turns it has been given
  ended,    \* it was told there is no more
  told,     \* how many turns there were when it was told so (history)
  span,     \* the ends a memory gives of its source, or none
  source    \* what they selected when it was remembered (history)

reads == <<from, got, ended, told>>
cites == <<span, source>>
transcriptVars == <<said, chunks, resent, reads, cites>>

TranscriptTypeOK ==
  /\ said \in Seq(Turn) /\ Len(said) <= MaxTurns
  /\ chunks \subseteq (DOMAIN said) \X (DOMAIN said)
  /\ resent \in BOOLEAN
  /\ from \in Turn \union {Start}
  /\ got \in Seq(Turn)
  /\ ended \in BOOLEAN /\ told \in Nat
  /\ span \in Turn \X Turn \union {<<>>}
  /\ source \in Seq(Turn)

TranscriptInit ==
  /\ said = <<>> /\ chunks = {} /\ resent = FALSE
  /\ from = Start /\ got = <<>> /\ ended = FALSE /\ told = 0
  /\ span = <<>> /\ source = <<>>

Bytes(turns) == FoldLeft(LAMBDA sum, m : sum + SizeOf[m], 0, turns)
Fits(turns) == Bytes(turns) <= Target

(* Where groups end in cut, the one turn n is in begins at i.               *)
Begins(cut, i, n) ==
  /\ i <= n
  /\ i = 1 \/ i - 1 \in cut
  /\ cut \intersect (i..(n - 1)) = {}

(* SplitMessages: a group takes turns until the next would pass the target. *)
SplitMessages(turns) ==
  {cut \in SUBSET (DOMAIN turns) :
     \A i, n \in DOMAIN turns : Begins(cut, i, n) =>
       (n \in cut <=> n = Len(turns) \/ ~ Fits(SubSeq(turns, i, n + 1)))}

(* validateAppend.                                                          *)
ValidAppend(turns) ==
  /\ IsInjective(turns)
  /\ \A c \in chunks : {said[c[1]], said[c[2]]} \intersect ToSet(turns) = {}

(* SaveSession.                                                             *)
Save(turns) ==
  /\ Len(said) + Len(turns) <= MaxTurns
  /\ ValidAppend(turns)
  /\ said' = said \o turns
  /\ \E cut \in SplitMessages(turns) :
       chunks' = chunks \union {<<Len(said) + c[1], Len(said) + c[2]>> :
                                  c \in {b \in (DOMAIN turns) \X cut : Begins(cut, b[1], b[2])}}
  /\ resent' = (resent \/ ToSet(turns) \intersect ToSet(said) # {})
  /\ UNCHANGED <<reads, cites>>

-----------------------------------------------------------------------------
FirstOf(turns, m) == SelectInSeq(turns, LAMBDA t : t = m)

(* startChunk: where the first chunk begins that begins or ends with the    *)
(* turn, or else the first of all.                                         *)
StartChunk(m) ==
  LET begins == {i \in DOMAIN said : \E n \in DOMAIN said :
                   <<i, n>> \in chunks /\ m \in {said[i], said[n]}}
  IN IF begins # {} THEN Min(begins) ELSE 1

(* The turns a load walks through: from the first occurrence of the one it  *)
(* is to start at.                                                         *)
Remaining(m) ==
  LET walked == SubSeq(said, StartChunk(m), Len(said))
  IN IF m = Start THEN said ELSE SubSeq(walked, FirstOf(walked, m), Len(walked))

(* transcript: a page, and where the next one starts.  A turn sent again    *)
(* may lead a reader in circles: MaxTurns bounds what it is given.          *)
LoadPage(limit) ==
  LET turns == Remaining(from)
      more == Len(turns) > limit
  IN /\ ~ ended
     /\ Len(got) <= MaxTurns
     /\ got' = got \o SubSeq(turns, 1, IF more THEN limit ELSE Len(turns))
     /\ from' = IF more THEN turns[limit + 1] ELSE Start
     /\ ended' = ~ more
     /\ told' = IF more THEN 0 ELSE Len(said)
     /\ UNCHANGED <<said, chunks, resent, cites>>

(* The reader starts over.                                                  *)
Reopen ==
  /\ ended \/ Len(got) > MaxTurns
  /\ from' = Start /\ got' = <<>> /\ ended' = FALSE /\ told' = 0
  /\ UNCHANGED <<said, chunks, resent, cites>>

-----------------------------------------------------------------------------
(* Mutant: the far end is looked for from the back.                         *)
SelectLast(s, turns) ==
  LET first == FirstOf(turns, s[1])
      last == SelectLastInSeq(turns, LAMBDA t : t = s[2])
  IN IF first = 0 THEN <<>> ELSE SubSeq(turns, first, IF last < first THEN first ELSE last)

(* Select: from the first turn of that name to the first of the other from  *)
(* there on, or that turn alone.                                           *)
Select(s, turns) ==
  LET first == FirstOf(turns, s[1])
      rest == SubSeq(turns, first, Len(turns))
      last == FirstOf(rest, s[2])
  IN IF first = 0 THEN <<>> ELSE SubSeq(rest, 1, IF last = 0 THEN 1 ELSE last)

(* A memory is remembered that names turns it was drawn from.               *)
Cite(i, j) ==
  /\ span = <<>>
  /\ i <= j
  /\ span' = <<said[i], said[j]>>
  /\ source' = Select(span', said)
  /\ UNCHANGED <<said, chunks, resent, reads>>

TranscriptNext ==
  \/ \E n \in 1..MaxTurns : \E turns \in [1..n -> Turn] : Save(turns)
  \/ \E limit \in PageSize : LoadPage(limit)
  \/ Reopen
  \/ \E i, j \in DOMAIN said : Cite(i, j)

-----------------------------------------------------------------------------
(* PagesAlwaysFollow: "use a previous nextFrom to continue"                 *)
(* (mcp/handlers.go): pages joined end to end are the conversation: up to   *)
(* the turn the next page starts at, and all there was when the reader is   *)
(* told there is no more, while it grows.                                   *)
PagesAlwaysFollow ==
  /\ IsPrefix(got, said)
  /\ from # Start => said[Len(got) + 1] = from
  /\ ended => Len(got) = told

(* PagesFollow: they are, unless a turn has been sent twice.                *)
PagesFollow == ~ resent => PagesAlwaysFollow

(* SourceIsStable: what a memory names as its source selects the same turns *)
(* for ever, however the conversation goes on, turns sent again included.   *)
SourceIsStable ==
  span # <<>> => Select(span, said) = source

(* TurnsComeBack: the two together, and chunks no larger than they should   *)
(* be unless a single turn is.                                             *)
TurnsComeBack ==
  /\ PagesFollow
  /\ SourceIsStable
  /\ \A c \in chunks : c[1] = c[2] \/ Fits(SubSeq(said, c[1], c[2]))

(* Why: until one is sent again a turn stands in one place, that of the     *)
(* next page is one of them, and a chunk never begins after it ends.       *)
TranscriptInv ==
  /\ ~ resent => IsInjective(said)
  /\ from = Start /\ ~ ended => got = <<>>
  /\ from # Start => from \in ToSet(said) /\ (~ resent => Len(got) < Len(said))
  /\ \A c \in chunks : c[1] <= c[2]
  /\ span # <<>> => \E i, j \in DOMAIN said : i <= j /\ span = <<said[i], said[j]>>
===============================================================================
