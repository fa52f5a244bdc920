------------------------------- MODULE Ranking -------------------------------
(***************************************************************************)
(* How a recall orders what its two passes found (recall/fuse.go,          *)
(* recall/filter.go, recall/pipeline.go).                                  *)
(*                                                                         *)
(* The vector pass returned the records 1..Depth, in that order; a record  *)
(* above Depth is one only the words found.  Scores are integers: a        *)
(* weight of one is Unit, and a fraction is cut off.                       *)
(***************************************************************************)
EXTENDS Naturals, Sequences, FiniteSets, SequencesExt, Ordering

CONSTANTS
  RRFk,           \* the rank-fusion constant
  Unit,           \* the vector pass's weight, and the scale of the others
  LexicalWeight,  \* the say of the words
  TagWeight,      \* for carrying every tag asked for
  TypeWeight,     \* for being of a type asked for
  Depth,          \* how many records the vector pass returned
  Watched,        \* the records that may be other than plain
  Profile,        \* what a record may be, of the Profiles below
  Sizes,          \* how many answers are asked for
  Reach           \* how far down a record may be and still come first

(* Of two tags asked for, a record carries none, one or both.               *)
Profiles == [tags : 0..2, typed : BOOLEAN, selected : BOOLEAN,
             described : BOOLEAN, superseded : BOOLEAN]

Plain == [tags |-> 0, typed |-> FALSE, selected |-> TRUE,
          described |-> TRUE, superseded |-> FALSE]

ASSUME RankingAssumption ==
  /\ {RRFk, Unit, LexicalWeight, TagWeight, TypeWeight, Depth, Reach} \subseteq Nat \ {0}
  /\ Watched \subseteq Nat \ {0} /\ Sizes \subseteq Nat \ {0}
  /\ Profile \subseteq Profiles

(* The records the words found: at most two, best first.                    *)
Words == {<<>>} \union {<<i>> : i \in Watched} \union {w \in Watched \X Watched : w[1] # w[2]}

(* A question, and what the device says of the records watched.             *)
Question ==
  [profile : [Watched -> Profile], words : Words,
   tags : BOOLEAN, types : BOOLEAN, scope : BOOLEAN, history : BOOLEAN, limit : Sizes]

VARIABLES
  question,  \* the recall being answered, or <<>>
  answer     \* its records, best first

rankingVars == <<question, answer>>

RankingTypeOK ==
  /\ question = <<>> \/ question \in Question
  /\ answer \in Seq(1..Depth \union Watched)
  /\ IsInjective(answer)

RankingInit == question = <<>> /\ answer = <<>>

-----------------------------------------------------------------------------
Is(q, i) == IF i \in Watched THEN q.profile[i] ELSE Plain

(* fuse: what a pass adds for a rank.                                       *)
Pass(weight, position) == weight \div (RRFk + position)

(* What the shipped weights keep to (recall/fuse.go, recall/filter.go): all *)
(* a record's words and filters add is less than what being nearest in     *)
(* meaning is worth over being out of Reach, or over not being near at all. *)
ASSUME WeightsAssumption ==
  /\ Pass(Unit, Reach + 1) + Pass(LexicalWeight, 1) + TagWeight + TypeWeight < Pass(Unit, 1)
  /\ Pass(LexicalWeight, 1) + TagWeight + TypeWeight < Pass(Unit, Depth)

(* A record's place among those the words found, or 0.                      *)
WordRank(q, i) == SelectInSeq(q.words, LAMBDA w : w = i)

Fused(q, i) ==
  (IF i <= Depth THEN Pass(Unit, i) ELSE 0)
    + (IF WordRank(q, i) > 0 THEN Pass(LexicalWeight, WordRank(q, i)) ELSE 0)

(* Mutant: the weights that suited cosine, an order of magnitude larger.    *)
BoostOfCosine(q, i) ==
  (IF q.tags THEN (10 * TagWeight * Is(q, i).tags) \div 2 ELSE 0)
    + (IF q.types /\ Is(q, i).typed THEN 10 * TypeWeight ELSE 0)

Boost(q, i) ==
  (IF q.tags THEN (TagWeight * Is(q, i).tags) \div 2 ELSE 0)
    + (IF q.types /\ Is(q, i).typed THEN TypeWeight ELSE 0)

(* A record the device does not describe is not boosted.                    *)
Score(q, i) == Fused(q, i) + IF Is(q, i).described THEN Boost(q, i) ELSE 0

(* A record that was replaced, unless history is asked for, and one not     *)
(* known to be of the class asked for, are dropped.                         *)
Kept(q, i) ==
  /\ q.history \/ ~ Is(q, i).superseded
  /\ q.scope => Is(q, i).described /\ Is(q, i).selected

(* What the passes returned, one after the other.                           *)
Found(q) == 1..(Depth + Len(q.words))
IdAt(q, n) == IF n <= Depth THEN n ELSE q.words[n - Depth]

(* Mutant: a record both passes found is a candidate twice.                 *)
CandidatesTwice(q) == Found(q)

(* The vector pass's records, then those only the words found.              *)
Candidates(q) == {n \in Found(q) : n <= Depth \/ IdAt(q, n) > Depth}

Ranked(q) == {n \in Candidates(q) : Kept(q, IdAt(q, n))}

(* Of two <<score, id, position>>: best score first, ids breaking ties; the *)
(* sort is stable.                                                         *)
Better(a, b) ==
  \/ a[1] > b[1]
  \/ a[1] = b[1] /\ a[2] < b[2]
  \/ a[1] = b[1] /\ a[2] = b[2] /\ a[3] < b[3]

Scored(q) == {<<Score(q, IdAt(q, n)), IdAt(q, n), n>> : n \in Ranked(q)}

(* rank, cut to the limit.                                                  *)
Rank(q) ==
  LET scored == Scored(q)
      ranked == InOrder(scored, Better)
  IN [k \in 1..Min({q.limit, Cardinality(scored)}) |-> ranked[k][2]]

Ask ==
  /\ question = <<>>
  /\ \E q \in Question : question' = q /\ answer' = Rank(q)

Answered ==
  /\ question # <<>>
  /\ question' = <<>>
  /\ answer' = <<>>

RankingNext == Ask \/ Answered

-----------------------------------------------------------------------------
(* FiltersOnlyPrefer: "Boost is a magnitude, not a verdict"                 *)
(* (recall/filter.go).  With the shipped weights no filter, right or wrong, *)
(* and no word costs the answer: the record nearest in meaning is preceded  *)
(* by none from beyond Reach, a record only the words found comes after all *)
(* the vector pass found, and as many records come back as without.         *)
FiltersOnlyPrefer ==
  question # <<>> =>
    /\ \A n \in 1..Len(answer) :
         /\ answer[n] = 1 => \A m \in 1..n : answer[m] <= Reach
         /\ answer[n] > Depth => \A m \in n..Len(answer) : answer[m] > Depth
    /\ Len(answer) = Min({question.limit, Cardinality(Ranked(question))})
    /\ 1 \notin ToSet(answer) => ~ Kept(question, 1) \/ question.limit < Reach

RankingInv ==
  \/ question = <<>> /\ answer = <<>>
  \/ question \in Question /\ answer = Rank(question)
===============================================================================
