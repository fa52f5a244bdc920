------------------------------- MODULE Listing -------------------------------
(***************************************************************************)
(* Paging through the records a device knows while they change             *)
(* (local/records.go, vault/browse.go, local/ranking.go).                  *)
(*                                                                         *)
(* A row is stamped when it is first written and keeps the stamp when it   *)
(* is written again.  A page is the rows that match the query and come     *)
(* after the row the cursor names, newest first, ids breaking ties.        *)
(* Between two pages anybody may remember, supersede, forget or restore.   *)
(***************************************************************************)
EXTENDS Naturals, Sequences, FiniteSets, SequencesExt, Ordering

CONSTANTS
  Id,       \* record ids, in the order of their text
  Kind,     \* record classes
  KindOf,   \* the class of each record
  Stamp,    \* times a row may be stamped with
  Absent,   \* no row, no record
  Limit     \* page sizes asked for

ASSUME ListingAssumption ==
  /\ Id \subseteq Nat /\ Stamp \subseteq Nat /\ Limit \subseteq Nat \ {0}
  /\ KindOf \in [Id -> Kind]
  /\ Absent \notin Id \union Stamp

VARIABLES
  rows,        \* the stamp of each record's row, or Absent
  remembered,  \* records there ever was a row of
  replaces,    \* the record each record's body supersedes, or Absent
  query,       \* what the reader asks for
  cursor,      \* the row its next page starts after, or <<>>
  listed,      \* the rows it has been given
  reading,     \* whether it has pages to come
  steady       \* rows that have matched since it began (history)

listing == <<rows, remembered, replaces>>
reader == <<query, cursor, listed, reading>>
listingVars == <<listing, reader, steady>>

Row == Stamp \X Id
Query == [kinds : SUBSET Kind, history : BOOLEAN]

ListingTypeOK ==
  /\ rows \in [Id -> Stamp \union {Absent}]
  /\ remembered \subseteq Id
  /\ replaces \in [Id -> Id \union {Absent}]
  /\ query \in Query
  /\ cursor \in Row \union {<<>>}
  /\ listed \in Seq(Row)
  /\ reading \in BOOLEAN
  /\ steady \subseteq {i \in Id : rows[i] # Absent}

ListingInit ==
  /\ rows = [i \in Id |-> Absent]
  /\ remembered = {}
  /\ replaces = [i \in Id |-> Absent]
  /\ query = [kinds |-> {}, history |-> FALSE]
  /\ cursor = <<>>
  /\ listed = <<>>
  /\ reading = FALSE
  /\ steady = {}

(* A record is superseded while some row names it.                          *)
Superseded(i) == \E j \in Id : rows[j] # Absent /\ replaces[j] = i

Matches(q, i) ==
  /\ rows[i] # Absent
  /\ q.kinds = {} \/ KindOf[i] \in q.kinds
  /\ q.history \/ ~ Superseded(i)

(* Newest first.                                                            *)
Before(a, b) == a[1] > b[1] \/ (a[1] = b[1] /\ a[2] < b[2])

-----------------------------------------------------------------------------
StillMatching == {i \in steady : (Matches(query, i))'}

(* Mutant: writing a row again stamps it again.                             *)
PutRestamped(i, t) == rows' = [rows EXCEPT ![i] = t]

(* PutRankingMeta: the stamp stays on conflict.                             *)
Put(i, t) == rows' = [rows EXCEPT ![i] = IF @ = Absent THEN t ELSE @]

(* Remember; a record it supersedes had a row when that was checked.        *)
Remember(i, old, t) ==
  /\ i \notin remembered
  /\ remembered' = remembered \union {i}
  /\ replaces' = [replaces EXCEPT ![i] = old]
  /\ Put(i, t)
  /\ UNCHANGED reader
  /\ steady' = StillMatching

(* A session is indexed again, or a memory restored from the account.       *)
PutAgain(i, t) ==
  /\ i \in remembered
  /\ Put(i, t)
  /\ UNCHANGED <<remembered, replaces, reader>>
  /\ steady' = StillMatching

ForgetRow(i) ==
  /\ rows[i] # Absent
  /\ rows' = [rows EXCEPT ![i] = Absent]
  /\ UNCHANGED <<remembered, replaces, reader>>
  /\ steady' = StillMatching

(* The first page is asked for.                                             *)
Browse(q) ==
  /\ ~ reading
  /\ reading' = TRUE
  /\ query' = q
  /\ listed' = <<>>
  /\ cursor' = <<>>
  /\ steady' = {i \in Id : Matches(q, i)}
  /\ UNCHANGED listing

After(a) == cursor = <<>> \/ Before(cursor, a)

(* The rows of the next page and of those after it, if nothing changes.     *)
Wanted == {a \in {<<rows[i], i>> : i \in {j \in Id : Matches(query, j)}} : After(a)}

(* ListRecords: one row more than the page is looked for, to know whether   *)
(* there is another page.                                                  *)
ListRecords(limit) ==
  LET found == InOrder(Wanted, Before)
      more == Len(found) > limit
      page == SubSeq(found, 1, IF more THEN limit ELSE Len(found))
  IN /\ reading
     /\ listed' = listed \o page
     /\ cursor' = IF more THEN page[limit] ELSE <<>>
     /\ reading' = more
     /\ UNCHANGED <<listing, query, steady>>

ListingNext ==
  \/ \E i \in Id, t \in Stamp :
       \/ \E old \in {Absent} \union remembered : Remember(i, old, t)
       \/ PutAgain(i, t)
  \/ \E i \in Id : ForgetRow(i)
  \/ \E q \in Query : Browse(q)
  \/ \E limit \in Limit : ListRecords(limit)

-----------------------------------------------------------------------------
(* ListingIsExact: "so a page boundary never repeats a row or skips one"    *)
(* (local/records.go), whatever is written between two pages: the rows a    *)
(* reader was given are in the order of the listing, each once, and a row   *)
(* that matched from the first page on is among them or still to come.      *)
ListingIsExact ==
  /\ \A m \in 1..Len(listed) : \A n \in 1..(m - 1) : Before(listed[n], listed[m])
  /\ \A i \in steady :
       \/ <<rows[i], i>> \in ToSet(listed)
       \/ reading /\ After(<<rows[i], i>>)

(* Why: the cursor is the last row given, whatever is written meanwhile,    *)
(* and a row keeps its place.                                               *)
ListingInv ==
  /\ IsFiniteSet(remembered)
  /\ \A i \in Id : rows[i] # Absent => i \in remembered
  /\ \A i \in steady : Matches(query, i)
  /\ reading => cursor = IF listed = <<>> THEN <<>> ELSE Last(listed)
===============================================================================
