------------------------------ MODULE Sessions ------------------------------
(***************************************************************************)
(* Conversations: a head in the device's store that is replaced whole, and *)
(* transcript chunks that never change (vault/session.go,                  *)
(* vault/session_load.go, vault/rebuild.go, local/sessions.go).            *)
(*                                                                         *)
(* A save reads the head, queues its chunks, which may reach the network   *)
(* meanwhile, and writes the head back if nobody else has: PutSessionHead  *)
(* compares versions.  A save that creates a sub-agent run then lists it   *)
(* on its parent.  A forget tombstones the chunks one by one, takes the    *)
(* session off its parent and drops the head last.  A rebuild makes a head *)
(* out of the chunks alone.  Calls of any number of processes interleave   *)
(* at every step, and any of them may stop at any step.                    *)
(*                                                                         *)
(* The queue, the network and the catalog are what FlushQueue and Catalog  *)
(* promise: a flush moves a set of queued chunks to the catalog at once.   *)
(* Chunks are numbered in the order they were written.  The vector and the *)
(* ranking row of a head are written, and removed, in one step.            *)
(***************************************************************************)
EXTENDS Naturals, Sequences, FiniteSets

CONSTANTS
  Session,    \* session ids
  NoSession,  \* the absence of one
  ParentOf,   \* the parent a session is created under, or NoSession
  Memory,     \* memories that may name a session as their source
  Caller,     \* calls that may be in flight, over all processes
  MaxGroups,  \* bound on the chunks one save writes
  MaxChunks,  \* bound on chunks
  MaxCalls,   \* bound on calls
  MaxFaults   \* bound on calls that fail or die

ASSUME ParentAssumption ==
  /\ NoSession \notin Session
  /\ ParentOf \in [Session -> Session \union {NoSession}]
ASSUME BoundAssumption ==
  /\ MaxGroups \in Nat /\ MaxChunks \in Nat /\ MaxCalls \in Nat /\ MaxFaults \in Nat

VARIABLES
  heads,      \* the session_heads table: a head, or NoHead
  indexed,    \* sessions with a vector and a ranking row
  written,    \* the session and the sequence number each chunk carries
  bodies,     \* chunks the device holds a copy of
  queued,     \* chunks in the flush queue
  catalog,    \* chunks with a live catalog entry
  sourced,    \* <<session, memory>>: the memory's body names the session
  pc,         \* where each call is
  sess,       \* the session each call works on
  base,       \* the head each call has read and is changing
  left,       \* chunks a save has yet to write, or a forget to tombstone
  wrote,      \* chunks a save has written
  owed,       \* those of them it has not seen reach the network
  created,    \* sessions whose id has been handed out
  condemned,  \* sessions a forget has begun on (history)
  contended,  \* sessions a forget or a rebuild shared with another call (history)
  dropped,    \* sessions whose head alone was dropped (history)
  rebuilt,    \* sessions a rebuild has stored a head for (history)
  forgotten,  \* sessions a forget reported forgotten (history)
  acked,      \* chunks of saves that returned success (history)
  linked,     \* <<session, memory>> links that returned success (history)
  networked,  \* chunks of saves that reported OnNetwork (history)
  calls,      \* calls begun so far
  faults      \* calls that failed or died so far

storage == <<written, bodies, queued, catalog>>
call    == <<pc, sess, base, left, wrote, owed>>
scenes  == <<condemned, contended, dropped, rebuilt>>
answers == <<forgotten, acked, linked, networked>>
vars    == <<heads, indexed, storage, sourced, call, created, scenes, answers, calls, faults>>

Chunk == 1..MaxChunks

(* A head as far as the properties go.  Version 0 is a head not yet stored. *)
SessionHead == [version : Nat, chunks : Seq(Chunk), children : SUBSET Session,
                memories : SUBSET Memory, parented : BOOLEAN]
NoHead == [version |-> 0, chunks |-> <<>>, children |-> {}, memories |-> {},
           parented |-> FALSE]

Named(head) == {head.chunks[i] : i \in DOMAIN head.chunks}

Stages == {"idle", "write", "index", "adopt", "adoptWrite", "settle",
           "tombstone", "disown", "disownWrite", "unindex", "drop",
           "link", "check", "restore", "rewrite", "reindex"}

TypeOK ==
  /\ heads \in [Session -> SessionHead]
  /\ indexed \subseteq Session
  /\ written \in Seq([session : Session, seq : Nat]) /\ Len(written) <= MaxChunks
  /\ bodies \subseteq Chunk /\ queued \subseteq Chunk /\ catalog \subseteq Chunk
  /\ sourced \subseteq Session \X Memory
  /\ pc \in [Caller -> Stages]
  /\ sess \in [Caller -> Session \union {NoSession}]
  /\ base \in [Caller -> SessionHead]
  /\ left \in [Caller -> Nat]
  /\ wrote \in [Caller -> SUBSET Chunk] /\ owed \in [Caller -> SUBSET Chunk]
  /\ created \subseteq Session
  /\ condemned \subseteq Session /\ contended \subseteq Session
  /\ dropped \subseteq Session /\ rebuilt \subseteq Session
  /\ forgotten \subseteq Session /\ acked \subseteq Chunk
  /\ linked \subseteq Session \X Memory /\ networked \subseteq Chunk
  /\ calls \in 0..MaxCalls /\ faults \in 0..MaxFaults

Held(s) == heads[s] # NoHead

(* What fetchBody can still answer with.  The queue is not one of its tiers.*)
Readable(k) == k \in bodies \union catalog

Init ==
  /\ heads = [s \in Session |-> NoHead]
  /\ indexed = {}
  /\ written = <<>>
  /\ bodies = {} /\ queued = {} /\ catalog = {}
  /\ sourced = {}
  /\ pc = [c \in Caller |-> "idle"]
  /\ sess = [c \in Caller |-> NoSession]
  /\ base = [c \in Caller |-> NoHead]
  /\ left = [c \in Caller |-> 0]
  /\ wrote = [c \in Caller |-> {}] /\ owed = [c \in Caller |-> {}]
  /\ created = {}
  /\ condemned = {} /\ contended = {} /\ dropped = {} /\ rebuilt = {}
  /\ forgotten = {} /\ acked = {} /\ linked = {} /\ networked = {}
  /\ calls = 0 /\ faults = 0

-----------------------------------------------------------------------------
Forgets  == {"tombstone", "disown", "disownWrite", "unindex", "drop"}
Rebuilds == {"check", "restore", "rewrite", "reindex"}

(* The heads a call destroys or makes anew, and all those it may write.     *)
Condemns(c) == IF pc[c] \in Forgets \union Rebuilds THEN {sess[c]} ELSE {}
Touches(c) ==
  (IF pc[c] = "idle" THEN {} ELSE {sess[c]})
    \union
  (IF \/ pc[c] \in Forgets \union {"adopt", "adoptWrite"}
      \/ pc[c] \in {"write", "index"} /\ base[c].version = 0
   THEN {ParentOf[sess[c]]} ELSE {})

(* Begin(c, s, stage, head, n): a call starts on session s with the head it *)
(* read.                                                                   *)
Begin(c, s, stage, head, n) ==
  /\ pc[c] = "idle"
  /\ calls < MaxCalls
  /\ calls' = calls + 1
  /\ pc' = [pc EXCEPT ![c] = stage]
  /\ sess' = [sess EXCEPT ![c] = s]
  /\ base' = [base EXCEPT ![c] = head]
  /\ left' = [left EXCEPT ![c] = n]
  /\ contended' = contended \union
       {t \in Session : \E d, e \in Caller :
          /\ d # e /\ c \in {d, e}
          /\ t \in (Condemns(d))' /\ t \in (Touches(e))'}

Goto(c, stage) == pc' = [pc EXCEPT ![c] = stage]

(* The call is over and holds nothing any more.                             *)
Return(c) ==
  /\ Goto(c, "idle")
  /\ sess' = [sess EXCEPT ![c] = NoSession]
  /\ base' = [base EXCEPT ![c] = NoHead]
  /\ left' = [left EXCEPT ![c] = 0]
  /\ wrote' = [wrote EXCEPT ![c] = {}]
  /\ owed' = [owed EXCEPT ![c] = {}]

(* Mutant: the version of the row is not compared.                          *)
AlwaysMatches(s, head) == TRUE

(* PutSessionHead's condition.  A row that is not there matches whatever    *)
(* version the writer expects.                                             *)
Matches(s, head) == heads[s] = NoHead \/ heads[s].version = head.version

Put(s, head) == heads' = [heads EXCEPT ![s] = [head EXCEPT !.version = @ + 1]]

(* A flush writes a set of queued chunks: all of them, or what other        *)
(* flushes have not claimed.                                               *)
Flushed(batch) ==
  /\ queued' = queued \ batch
  /\ catalog' = catalog \union batch

-----------------------------------------------------------------------------
(* SaveSession, its opening.  The id of a new session is fresh; an append   *)
(* reads the head.                                                         *)
Create(c, s, n) ==
  /\ s \notin created
  /\ created' = created \union {s}
  /\ Begin(c, s, "write", [NoHead EXCEPT !.parented = (ParentOf[s] # NoSession)], n)
  /\ UNCHANGED <<heads, indexed, storage, sourced, wrote, owed, condemned, dropped,
                 rebuilt, answers, faults>>

Extend(c, s, n) ==
  /\ Held(s)
  /\ Begin(c, s, "write", heads[s], n)
  /\ UNCHANGED <<heads, indexed, storage, sourced, wrote, owed, created, condemned,
                 dropped, rebuilt, answers, faults>>

(* Mutant: one chunk too many is cut.                                       *)
NewChunkPastEnd(c) ==
  /\ pc[c] = "write"
  /\ Len(written) < MaxChunks
  /\ written' = Append(written, [session |-> sess[c], seq |-> Len(base[c].chunks)])

(* The next chunk of a save, numbered by its place in the head as read.     *)
NewChunk(c) ==
  /\ pc[c] = "write"
  /\ left[c] > 0
  /\ Len(written) < MaxChunks
  /\ written' = Append(written, [session |-> sess[c], seq |-> Len(base[c].chunks)])

(* writeChunk: the copy on the device, then the queue, which may flush.     *)
WriteChunk(c) ==
  LET k == Len(written) + 1
  IN /\ NewChunk(c)
     /\ bodies' = bodies \union {k}
     /\ \E batch \in SUBSET (queued \union {k}) :
          /\ catalog' = catalog \union batch
          /\ queued' = (queued \union {k}) \ batch
          /\ owed' = [owed EXCEPT ![c] = (@ \union {k}) \ batch]
     /\ wrote' = [wrote EXCEPT ![c] = @ \union {k}]
     /\ base' = [base EXCEPT ![c].chunks = Append(@, k)]
     /\ left' = [left EXCEPT ![c] = @ - 1]
     /\ UNCHANGED <<heads, indexed, sourced, pc, sess, created, scenes, answers, calls,
                    faults>>

(* writeChunk fails: its chunk is on the device, and may be in the queue.   *)
WriteFails(c) ==
  LET k == Len(written) + 1
  IN /\ NewChunk(c)
     /\ faults < MaxFaults
     /\ faults' = faults + 1
     /\ bodies' = bodies \union {k}
     /\ queued' \in {queued, queued \union {k}}
     /\ Return(c)
     /\ UNCHANGED <<heads, indexed, catalog, sourced, created, scenes, answers, calls>>

(* Mutant: the head is stored before the chunks it names are written.       *)
StoreHeadEarly(c) ==
  /\ pc[c] = "write"
  /\ IF Matches(sess[c], base[c])
     THEN /\ Put(sess[c], [base[c] EXCEPT !.chunks =
                             IF left[c] = 0 THEN @ ELSE Append(@, Len(written) + 1)])
          /\ Goto(c, "index")
          /\ UNCHANGED <<sess, base, left, wrote, owed>>
     ELSE Return(c) /\ UNCHANGED heads
  /\ UNCHANGED <<indexed, storage, sourced, created, scenes, answers, calls, faults>>

(* storeHead, its first write: the head, or ErrStaleHead with the chunks    *)
(* left where they are.                                                    *)
StoreHead(c) ==
  /\ pc[c] = "write"
  /\ left[c] = 0
  /\ IF Matches(sess[c], base[c])
     THEN /\ Put(sess[c], base[c])
          /\ Goto(c, "index")
          /\ UNCHANGED <<sess, base, left, wrote, owed>>
     ELSE Return(c) /\ UNCHANGED heads
  /\ UNCHANGED <<indexed, storage, sourced, created, scenes, answers, calls, faults>>

(* storeHead, the rest: the vector and the ranking row.  Only a save that   *)
(* created a session goes on to its parent.                                *)
Index(c) ==
  /\ pc[c] = "index"
  /\ indexed' = indexed \union {sess[c]}
  /\ Goto(c, IF base[c].version = 0 /\ base[c].parented THEN "adopt" ELSE "settle")
  /\ UNCHANGED <<heads, storage, sourced, sess, base, left, wrote, owed, created, scenes,
                 answers, calls, faults>>

(* adoptChild, reading the parent: an error when nobody holds it, nothing   *)
(* to do when it lists the child already.                                  *)
Adopt(c) ==
  LET p == ParentOf[sess[c]]
  IN /\ pc[c] = "adopt"
     /\ IF ~ Held(p)
        THEN Return(c)
        ELSE /\ base' = [base EXCEPT ![c] =
                  [heads[p] EXCEPT !.children = @ \union {sess[c]}]]
             /\ Goto(c, IF sess[c] \in heads[p].children THEN "settle" ELSE "adoptWrite")
             /\ UNCHANGED <<sess, left, wrote, owed>>
     /\ UNCHANGED <<heads, indexed, storage, sourced, created, scenes, answers, calls,
                    faults>>

(* adoptChild, reviseHead.                                                  *)
AdoptWrite(c) ==
  LET p == ParentOf[sess[c]]
  IN /\ pc[c] = "adoptWrite"
     /\ IF Matches(p, base[c])
        THEN /\ Put(p, base[c])
             /\ Goto(c, "settle")
             /\ UNCHANGED <<sess, base, left, wrote, owed>>
        ELSE Return(c) /\ UNCHANGED heads
     /\ UNCHANGED <<indexed, storage, sourced, created, scenes, answers, calls, faults>>

(* Mutant: a durable save reports its chunks written whatever the flush     *)
(* wrote.                                                                  *)
SettleBlindly(c) ==
  /\ pc[c] = "settle"
  /\ \E batch \in SUBSET queued : Flushed(batch)
  /\ acked' = acked \union wrote[c]
  /\ networked' = networked \union wrote[c]
  /\ Return(c)
  /\ UNCHANGED <<heads, indexed, written, bodies, sourced, created, scenes, forgotten,
                 linked, calls, faults>>

(* SaveSession, its end: a durable save flushes, strikes off what the flush *)
(* wrote, and reports OnNetwork when it owes nothing more.                 *)
Settle(c) ==
  /\ pc[c] = "settle"
  /\ \E batch \in SUBSET queued :
       /\ Flushed(batch)
       /\ networked' = networked \union (IF owed[c] \subseteq batch THEN wrote[c] ELSE {})
  /\ acked' = acked \union wrote[c]
  /\ Return(c)
  /\ UNCHANGED <<heads, indexed, written, bodies, sourced, created, scenes, forgotten,
                 linked, calls, faults>>

(* A flush of another call, or the deadline timer's.                        *)
Flush ==
  /\ \E batch \in (SUBSET queued) \ {{}} : Flushed(batch)
  /\ UNCHANGED <<heads, indexed, written, bodies, sourced, call, created, scenes, answers,
                 calls, faults>>

-----------------------------------------------------------------------------
(* ForgetSession, its opening.                                              *)
Forget(c, s) ==
  /\ Held(s)
  /\ Begin(c, s, "tombstone", heads[s], Len(heads[s].chunks))
  /\ condemned' = condemned \union {s}
  /\ UNCHANGED <<heads, indexed, storage, sourced, wrote, owed, created, dropped, rebuilt,
                 answers, faults>>

(* The next chunk in the order of the head: the copy on the device, then    *)
(* the catalog entry, if there is one.  A row still queued stays.           *)
Tombstone(c) ==
  LET k == base[c].chunks[Len(base[c].chunks) - left[c] + 1]
  IN /\ pc[c] = "tombstone"
     /\ left[c] > 0
     /\ bodies' = bodies \ {k}
     /\ catalog' = catalog \ {k}
     /\ left' = [left EXCEPT ![c] = @ - 1]
     /\ UNCHANGED <<heads, indexed, written, queued, sourced, pc, sess, base, wrote, owed,
                    created, scenes, answers, calls, faults>>

(* Mutant: a forget leaves the child listed on its parent.                  *)
DisownSkipped(c) ==
  /\ pc[c] = "tombstone"
  /\ left[c] = 0
  /\ Goto(c, "unindex")
  /\ UNCHANGED <<heads, indexed, storage, sourced, sess, base, left, wrote, owed, created,
                 scenes, answers, calls, faults>>

(* disownChild, reading the parent: a parent nobody holds, or one that does *)
(* not list the child, needs nothing.                                      *)
Disown(c) ==
  LET p == ParentOf[sess[c]]
  IN /\ pc[c] = "tombstone"
     /\ left[c] = 0
     /\ IF base[c].parented /\ Held(p) /\ sess[c] \in heads[p].children
        THEN /\ base' = [base EXCEPT ![c] =
                  [heads[p] EXCEPT !.children = @ \ {sess[c]}]]
             /\ Goto(c, "disownWrite")
        ELSE Goto(c, "unindex") /\ UNCHANGED base
     /\ UNCHANGED <<heads, indexed, storage, sourced, sess, left, wrote, owed, created,
                    scenes, answers, calls, faults>>

(* disownChild, reviseHead: when it fails the forget fails, with the chunks *)
(* gone and the head in place.                                             *)
DisownWrite(c) ==
  LET p == ParentOf[sess[c]]
  IN /\ pc[c] = "disownWrite"
     /\ IF Matches(p, base[c])
        THEN /\ Put(p, base[c])
             /\ Goto(c, "unindex")
             /\ UNCHANGED <<sess, base, left, wrote, owed>>
        ELSE Return(c) /\ UNCHANGED heads
     /\ UNCHANGED <<indexed, storage, sourced, created, scenes, answers, calls, faults>>

(* Mutant: the vector and the row stay.                                     *)
UnindexNothing(c) ==
  /\ pc[c] = "unindex"
  /\ Goto(c, "drop")
  /\ UNCHANGED <<heads, indexed, storage, sourced, sess, base, left, wrote, owed, created,
                 scenes, answers, calls, faults>>

(* The ranking row and the vector go.                                       *)
Unindex(c) ==
  /\ pc[c] = "unindex"
  /\ indexed' = indexed \ {sess[c]}
  /\ Goto(c, "drop")
  /\ UNCHANGED <<heads, storage, sourced, sess, base, left, wrote, owed, created, scenes,
                 answers, calls, faults>>

(* ForgetSessionHead, last, and whatever version the head is at.            *)
Drop(c) ==
  /\ pc[c] = "drop"
  /\ heads' = [heads EXCEPT ![sess[c]] = NoHead]
  /\ forgotten' = forgotten \union {sess[c]}
  /\ Return(c)
  /\ UNCHANGED <<indexed, storage, sourced, created, scenes, acked, linked, networked,
                 calls, faults>>

(* Vault.ForgetSessionHead: the head alone goes, the transcript stays.      *)
DropHead(s) ==
  /\ Held(s)
  /\ calls < MaxCalls
  /\ calls' = calls + 1
  /\ heads' = [heads EXCEPT ![s] = NoHead]
  /\ dropped' = dropped \union {s}
  /\ contended' = contended \union
       (IF \E d \in Caller : s \in Touches(d) THEN {s} ELSE {})
  /\ UNCHANGED <<indexed, storage, sourced, call, created, condemned, rebuilt, answers,
                 faults>>

-----------------------------------------------------------------------------
(* LinkMemory: the memory's body names the session already; the session is  *)
(* to name the memory.                                                     *)
Link(c, s, m) ==
  /\ Held(s)
  /\ m \notin heads[s].memories
  /\ sourced' = sourced \union {<<s, m>>}
  /\ Begin(c, s, "link", [heads[s] EXCEPT !.memories = @ \union {m}], 0)
  /\ UNCHANGED <<heads, indexed, storage, wrote, owed, created, condemned, dropped,
                 rebuilt, answers, faults>>

LinkWrite(c) ==
  /\ pc[c] = "link"
  /\ IF Matches(sess[c], base[c])
     THEN /\ Put(sess[c], base[c])
          /\ linked' = linked \union ({sess[c]} \X base[c].memories)
     ELSE UNCHANGED <<heads, linked>>
  /\ Return(c)
  /\ UNCHANGED <<indexed, storage, sourced, created, scenes, forgotten, acked, networked,
                 calls, faults>>

-----------------------------------------------------------------------------
(* Mutant: a rebuild orders the chunks as the catalog lists them.           *)
OrdersAsListed(s) ==
  LET found == {k \in 1..Len(written) : written[k].session = s /\ Readable(k)}
  IN {order \in [1..Cardinality(found) -> found] :
        \A i, j \in 1..Cardinality(found) : i < j => order[i] # order[j]}

(* The chunks a rebuild files under s, by sequence number; two of the same  *)
(* number stay in the order they were found, which is any.                 *)
Orders(s) ==
  LET found == {k \in 1..Len(written) : written[k].session = s /\ Readable(k)}
  IN {order \in [1..Cardinality(found) -> found] :
        \A i, j \in 1..Cardinality(found) : i < j =>
          order[i] # order[j] /\ written[order[i]].seq <= written[order[j]].seq}

(* RebuildSessions, for one session it finds: what can be known without the *)
(* head.  The kind, the lineage and the children are not.                  *)
Rebuild(c, s) ==
  /\ \E k \in 1..Len(written) : written[k].session = s /\ Readable(k)
  /\ \E order \in Orders(s) :
       Begin(c, s, "check",
             [NoHead EXCEPT !.chunks = order, !.memories = {m \in Memory : <<s, m>> \in sourced}],
             0)
  /\ UNCHANGED <<heads, indexed, storage, sourced, wrote, owed, created, condemned,
                 dropped, rebuilt, answers, faults>>

(* Mutant: a rebuild replaces a head the device holds.                      *)
CheckOverwrites(c) ==
  /\ pc[c] = "check"
  /\ Goto(c, "restore")
  /\ UNCHANGED <<heads, indexed, storage, sourced, sess, base, left, wrote, owed, created,
                 scenes, answers, calls, faults>>

(* rebuildHead: a head that is there already is kept.                       *)
Check(c) ==
  /\ pc[c] = "check"
  /\ IF Held(sess[c])
     THEN Return(c)
     ELSE Goto(c, "restore") /\ UNCHANGED <<sess, base, left, wrote, owed>>
  /\ UNCHANGED <<heads, indexed, storage, sourced, created, scenes, answers, calls, faults>>

(* storeRebuiltHead reads the head again, for the version to expect.        *)
Restore(c) ==
  /\ pc[c] = "restore"
  /\ base' = [base EXCEPT ![c].version = heads[sess[c]].version]
  /\ Goto(c, "rewrite")
  /\ UNCHANGED <<heads, indexed, storage, sourced, sess, left, wrote, owed, created,
                 scenes, answers, calls, faults>>

Rewrite(c) ==
  /\ pc[c] = "rewrite"
  /\ IF Matches(sess[c], base[c])
     THEN /\ Put(sess[c], base[c])
          /\ rebuilt' = rebuilt \union {sess[c]}
          /\ Goto(c, "reindex")
          /\ UNCHANGED <<sess, base, left, wrote, owed>>
     ELSE Return(c) /\ UNCHANGED <<heads, rebuilt>>
  /\ UNCHANGED <<indexed, storage, sourced, created, condemned, contended, dropped,
                 answers, calls, faults>>

Reindex(c) ==
  /\ pc[c] = "reindex"
  /\ indexed' = indexed \union {sess[c]}
  /\ Return(c)
  /\ UNCHANGED <<heads, storage, sourced, created, scenes, answers, calls, faults>>

(* A call fails or its process dies, between any two of its steps.          *)
Fail(c) ==
  /\ pc[c] # "idle"
  /\ faults < MaxFaults
  /\ faults' = faults + 1
  /\ Return(c)
  /\ UNCHANGED <<heads, indexed, storage, sourced, created, scenes, answers, calls>>

Next ==
  \/ \E c \in Caller :
       \/ \E s \in Session :
            \/ \E n \in 0..MaxGroups : Create(c, s, n) \/ Extend(c, s, n)
            \/ Forget(c, s)
            \/ \E m \in Memory : Link(c, s, m)
            \/ Rebuild(c, s)
       \/ WriteChunk(c) \/ WriteFails(c) \/ StoreHead(c) \/ Index(c)
       \/ Adopt(c) \/ AdoptWrite(c) \/ Settle(c)
       \/ Tombstone(c) \/ Disown(c) \/ DisownWrite(c) \/ Unindex(c) \/ Drop(c)
       \/ LinkWrite(c)
       \/ Check(c) \/ Restore(c) \/ Rewrite(c) \/ Reindex(c)
       \/ Fail(c)
  \/ Flush
  \/ \E s \in Session : DropHead(s)

Spec == Init /\ [][Next]_vars

-----------------------------------------------------------------------------
(* No forget, rebuild or dropping of this head was in flight together with  *)
(* another call that may write it: where the versions alone must do.        *)
Apart(s) == s \notin contended

(* AcksAreKept: the turns of every save and the memories of every link that *)
(* returned success are in the head, whatever appends, links, adoptions and *)
(* disownings raced on it, and after a rebuild too; and a session with such *)
(* turns has a head unless it was being forgotten or its head was dropped.  *)
(* It is the lost update ErrStaleHead exists to prevent.                    *)
AcksAreKept ==
  \A s \in Session : (Apart(s) /\ s \notin condemned) =>
    LET turns == {k \in acked : written[k].session = s}
    IN IF Held(s)
       THEN /\ turns \subseteq Named(heads[s])
            /\ \A m \in Memory : <<s, m>> \in linked => m \in heads[s].memories
       ELSE turns # {} => s \in dropped

(* HeadsAreWhole: unless a forget of it has begun, every chunk a head names *)
(* can be read, since a head is never stored before its chunks nor left     *)
(* behind by a forget that dropped it, and its place in the head is the     *)
(* sequence number sealed into it.  A rebuilt head, which may hold chunks   *)
(* of refused saves besides, still has them in that order; so the chunks    *)
(* alone put the transcript back.                                          *)
HeadsAreWhole ==
  \A s \in Session : s \notin condemned =>
    LET chunks == heads[s].chunks
    IN \A i \in DOMAIN chunks :
         /\ Readable(chunks[i])
         /\ written[chunks[i]].session = s
         /\ s \notin rebuilt => written[chunks[i]].seq = i - 1
         /\ \A j \in 1..i : written[chunks[j]].seq <= written[chunks[i]].seq

(* NothingDangles: a parent names only sessions somebody holds, since one   *)
(* that does not cannot be loaded, and search knows no session that nobody  *)
(* holds: a head is stored before anything points at it and dropped after.  *)
(* A parent whose own head was contended may have been stored over by one   *)
(* read before the child was taken off it.                                 *)
NothingDangles ==
  \A s \in Session : (~ Held(s) /\ Apart(s) /\ s \notin dropped) =>
    /\ s \notin indexed
    /\ \A p \in Session : Apart(p) => s \notin heads[p].children

Grows(old, new) ==
  Len(old) <= Len(new) /\ SubSeq(new, 1, Len(old)) = old

(* TranscriptsOnlyGrow: a head is replaced by one of the next version whose *)
(* chunks begin with the old ones, and otherwise only goes away.            *)
TranscriptsOnlyGrow ==
  [][\A s \in Session : (heads'[s] # heads[s] /\ Held(s) /\ heads'[s] # NoHead) =>
       /\ heads'[s].version = heads[s].version + 1
       /\ Apart(s) => Grows(heads[s].chunks, heads'[s].chunks)]_heads

(* NetworkedIsTrue: a save that reported OnNetwork has every chunk in the   *)
(* catalog until its session is being forgotten.                           *)
NetworkedIsTrue ==
  \A k \in networked : k \in catalog \/ written[k].session \in condemned

(* ForgottenStaysForgotten: "ForgetSession removes a session and its        *)
(* transcript from the vault."                                             *)
ForgottenStaysForgotten == \A s \in forgotten : ~ Held(s)

-----------------------------------------------------------------------------
(* Stages at which base is a head to store over the one it was read from,   *)
(* at which it is one made out of chunks, and at which a save's own head is *)
(* stored; and whose head base is.                                         *)
Revising == {"write", "link", "adoptWrite", "disownWrite"}
Remaking == {"check", "restore", "rewrite"}
Saved    == {"index", "adopt", "adoptWrite", "settle"}
Based    == Revising \union Remaking \union {"index", "adopt", "tombstone"}

Owner(c) == IF pc[c] \in {"adoptWrite", "disownWrite"} THEN ParentOf[sess[c]] ELSE sess[c]

(* LineageInv: only a session with a parent says so, in the store or in the *)
(* hands of a call; and every call knows its session.                      *)
LineageOK(c) ==
  /\ pc[c] # "idle" => sess[c] \in Session
  /\ pc[c] \in Based =>
       Owner(c) \in Session /\ (base[c].parented => ParentOf[Owner(c)] \in Session)
  /\ pc[c] = "adopt" => ParentOf[sess[c]] \in Session
  /\ pc[c] = "tombstone" => left[c] <= Len(base[c].chunks)

LineageInv ==
  /\ \A s \in Session : heads[s].parented => ParentOf[s] \in Session
  /\ \A c \in Caller : LineageOK(c)

Turns(s) == {k \in 1..Len(written) : written[k].session = s}

(* A transcript of s: chunks of s, no two the same and, until s is being    *)
(* forgotten, in the order of their numbers and none numbered past its      *)
(* place, ...                                                              *)
Whole(s, chunks) ==
  /\ \A i \in DOMAIN chunks : chunks[i] \in Turns(s)
  /\ \A i, j \in DOMAIN chunks : i # j => chunks[i] # chunks[j]
  /\ s \notin condemned =>
       \A i \in DOMAIN chunks :
         /\ written[chunks[i]].seq < i
         /\ \A j \in 1..i : written[chunks[j]].seq <= written[chunks[i]].seq

(* ... or numbered by it, unless it was made out of chunks.                 *)
ByPlace(s, chunks) ==
  s \notin condemned => \A i \in DOMAIN chunks : written[chunks[i]].seq = i - 1

(* What a call holds is such a transcript, and what it no longer owes the   *)
(* network is there.                                                       *)
TranscriptOK(c) ==
  /\ pc[c] = "idle" => wrote[c] = {}
  /\ pc[c] \in Forgets => sess[c] \in condemned
  /\ wrote[c] \subseteq Turns(sess[c])
  /\ sess[c] \notin condemned => wrote[c] \ owed[c] \subseteq catalog
  /\ pc[c] \in Based => Whole(Owner(c), base[c].chunks)
  /\ (pc[c] \in Based \ Remaking /\ Owner(c) \notin rebuilt) => ByPlace(Owner(c), base[c].chunks)

(* TranscriptInv: the inductive strengthening of HeadsAreWhole and          *)
(* NetworkedIsTrue.  A chunk numbered n has n chunks of smaller numbers     *)
(* before it, so that sorting them leaves it no further up than its place.  *)
Backed(k) ==
  written[k].session \notin condemned =>
    /\ k \in bodies
    /\ written[k].seq <=
         Cardinality({j \in Turns(written[k].session) : written[j].seq < written[k].seq})

TranscriptInv ==
  /\ queued \union catalog \union acked \union networked \subseteq 1..Len(written)
  /\ \A k \in 1..Len(written) : Backed(k)
  /\ \A s \in Session :
       /\ Whole(s, heads[s].chunks)
       /\ s \notin rebuilt => ByPlace(s, heads[s].chunks)
  /\ \A c \in Caller : TranscriptOK(c)
  /\ NetworkedIsTrue

(* A call that revises a head loses nothing of it while the version it read *)
(* is the stored one, ...                                                  *)
Revises(c, head) ==
  IF head = NoHead
  THEN pc[c] = "write" /\ base[c].version = 0 /\ sess[c] \notin dropped
  ELSE /\ base[c].version <= head.version
       /\ head.version = base[c].version =>
            /\ Grows(head.chunks, base[c].chunks)
            /\ head.memories \subseteq base[c].memories
            /\ base[c].children \subseteq head.children \union
                 (IF pc[c] = "adoptWrite" THEN {sess[c]} ELSE {})
            /\ base[c].parented = head.parented

(* ... and one that makes a head anew makes it where there is none.         *)
ApartOK(c) ==
  /\ pc[c] # "idle" => sess[c] \in created
  /\ pc[c] \in Based =>
       /\ Owner(c) \in created
       /\ \A m \in base[c].memories : <<Owner(c), m>> \in sourced
  /\ (pc[c] = "write" /\ base[c].version = 0) => base[c].children = {}
  /\ pc[c] \in Remaking => base[c].children = {}
  /\ (pc[c] \in {"restore", "rewrite"} /\ Apart(sess[c])) => ~ Held(sess[c])
  /\ (pc[c] \in Revising /\ Apart(Owner(c))) => Revises(c, heads[Owner(c)])

(* What is known of a session is known of one that was created.             *)
KnownOK(s) ==
  /\ Held(s) => heads[s].version > 0 /\ s \in created
  /\ s \in dropped \union condemned => s \in created
  /\ Turns(s) # {} => s \in created
  /\ \A m \in Memory :
       /\ m \in heads[s].memories => <<s, m>> \in sourced
       /\ <<s, m>> \in linked => <<s, m>> \in sourced
       /\ <<s, m>> \in sourced => s \in created

(* A call that destroys or remakes a head has it to itself.                 *)
AloneInv ==
  \A d, e \in Caller : d # e =>
    Condemns(d) \intersect Touches(e) \intersect Session \subseteq contended

(* ApartInv: the inductive strengthening of TranscriptsOnlyGrow.            *)
ApartInv ==
  /\ \A s \in Session : KnownOK(s)
  /\ AloneInv
  /\ \A c \in Caller : ApartOK(c)

(* The head of s has a chunk, or a memory, or was dropped with it.          *)
InHead(s, k) == IF Held(s) THEN k \in Named(heads[s]) ELSE s \in dropped
Listed(s, m) == IF Held(s) THEN m \in heads[s].memories ELSE s \in dropped

(* A save's chunks are in the head it holds and then in the stored one, and *)
(* a rebuild misses nothing.                                               *)
AckOK(c) ==
  (Apart(sess[c]) /\ sess[c] \notin condemned) =>
    /\ pc[c] = "write" => wrote[c] \subseteq Named(base[c])
    /\ pc[c] \in Saved => \A k \in wrote[c] : InHead(sess[c], k)
    /\ pc[c] \in Remaking =>
         /\ Turns(sess[c]) \subseteq Named(base[c])
         /\ \A m \in Memory : <<sess[c], m>> \in sourced => m \in base[c].memories

(* AckInv: the inductive strengthening of AcksAreKept.                      *)
AckInv ==
  /\ \A s \in Session : (Apart(s) /\ s \notin condemned) =>
       /\ \A k \in acked : written[k].session = s => InHead(s, k)
       /\ \A m \in Memory : <<s, m>> \in linked => Listed(s, m)
  /\ \A c \in Caller : AckOK(c)

(* Nobody lists s among its children.                                       *)
Unlisted(s) == \A p \in Session : Apart(p) => s \notin heads[p].children

(* A save finds its head stored, a forget takes its session off the parent  *)
(* and out of the indexes before it drops the head.                        *)
DangleOK(c) ==
  /\ pc[c] \in Based => \A s \in base[c].children : Owner(c) = ParentOf[s]
  /\ (pc[c] # "idle" /\ Apart(sess[c]) /\ sess[c] \notin dropped) =>
       /\ pc[c] \in Saved \union {"reindex"} => Held(sess[c])
       /\ pc[c] \in {"adopt", "adoptWrite"} => heads[sess[c]].parented
       /\ (pc[c] = "index" /\ base[c].parented) => heads[sess[c]].parented
       /\ pc[c] = "tombstone" => base[c] = heads[sess[c]]
       /\ pc[c] = "disownWrite" => sess[c] \notin base[c].children
       /\ pc[c] \in {"unindex", "drop"} => Unlisted(sess[c])
       /\ pc[c] = "drop" => sess[c] \notin indexed

(* DangleInv: the inductive strengthening of NothingDangles.  Only the      *)
(* parent a session was created under ever lists it, and none lists one    *)
(* that says it has no parent.                                             *)
DangleInv ==
  /\ \A p, s \in Session : s \in heads[p].children => p = ParentOf[s]
  /\ \A s \in Session :
       (Held(s) /\ ~ heads[s].parented /\ Apart(s) /\ s \notin dropped) => Unlisted(s)
  /\ \A c \in Caller : DangleOK(c)
  /\ NothingDangles
=============================================================================
