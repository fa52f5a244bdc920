--------------------------- MODULE Sessions_proofs ---------------------------
(* Conversations for any sessions, memories and calls: how long transcripts *)
(* and histories get, and how often calls fail, does not matter.           *)
EXTENDS Sessions, FiniteSetTheorems, SequenceTheorems, TLAPS

(* What a head is made of.                                                  *)
LEMMA Fields ==
  ASSUME NEW h \in SessionHead
  PROVE  /\ h.version \in Nat
         /\ h.chunks \in Seq(Chunk)
         /\ h.children \in SUBSET Session
         /\ h.memories \in SUBSET Memory
         /\ h.parented \in BOOLEAN
BY DEF SessionHead

(* What a step makes of a head is a head, with the rest of it as it was.    *)
LEMMA Changed ==
  ASSUME NEW h \in SessionHead
  PROVE  /\ \A v \in Nat : [h EXCEPT !.version = v] \in SessionHead
         /\ [h EXCEPT !.version = h.version + 1] \in SessionHead
         /\ \A q \in Seq(Chunk) : [h EXCEPT !.chunks = q] \in SessionHead
         /\ \A C \in SUBSET Session : [h EXCEPT !.children = C] \in SessionHead
         /\ \A M \in SUBSET Memory : [h EXCEPT !.memories = M] \in SessionHead
         /\ \A b \in BOOLEAN : [h EXCEPT !.parented = b] \in SessionHead
<1>1. \A v \in Nat : [h EXCEPT !.version = v] \in SessionHead
  BY DEF SessionHead
<1>2. [h EXCEPT !.version = h.version + 1] \in SessionHead
  BY DEF SessionHead
<1>3. \A q \in Seq(Chunk) : [h EXCEPT !.chunks = q] \in SessionHead
  BY DEF SessionHead
<1>4. \A C \in SUBSET Session : [h EXCEPT !.children = C] \in SessionHead
  BY DEF SessionHead
<1>5. \A M \in SUBSET Memory : [h EXCEPT !.memories = M] \in SessionHead
  BY DEF SessionHead
<1>6. \A b \in BOOLEAN : [h EXCEPT !.parented = b] \in SessionHead
  BY DEF SessionHead
<1> QED BY <1>1, <1>2, <1>3, <1>4, <1>5, <1>6

(* The head that is not there is a head of the type.                        *)
LEMMA NoHeadIsHead ==
  /\ NoHead \in SessionHead
  /\ NoHead.version = 0 /\ NoHead.chunks = <<>> /\ NoHead.children = {}
  /\ NoHead.memories = {} /\ NoHead.parented = FALSE
<1>1. <<>> \in Seq(Chunk)
  OBVIOUS
<1>2. {} \in SUBSET Session /\ {} \in SUBSET Memory /\ 0 \in Nat /\ FALSE \in BOOLEAN
  OBVIOUS
<1> QED BY <1>1, <1>2 DEF NoHead, SessionHead

(* Begin and Return change the record of one call.                          *)
LEMMA BeginType ==
  ASSUME TypeOK, NEW c \in Caller, NEW s \in Session, NEW stage \in Stages,
         NEW head \in SessionHead, NEW n \in Nat, Begin(c, s, stage, head, n)
  PROVE  /\ pc' \in [Caller -> Stages]
         /\ sess' \in [Caller -> Session \union {NoSession}]
         /\ base' \in [Caller -> SessionHead]
         /\ left' \in [Caller -> Nat]
         /\ contended' \subseteq Session
         /\ calls' \in 0..MaxCalls
BY BoundAssumption DEF TypeOK, Begin

(* A call that returns keeps the types.                                     *)
LEMMA ReturnType ==
  ASSUME TypeOK, NEW c \in Caller, Return(c)
  PROVE  /\ pc' \in [Caller -> Stages]
         /\ sess' \in [Caller -> Session \union {NoSession}]
         /\ base' \in [Caller -> SessionHead]
         /\ left' \in [Caller -> Nat]
         /\ wrote' \in [Caller -> SUBSET Chunk]
         /\ owed' \in [Caller -> SUBSET Chunk]
BY NoHeadIsHead DEF TypeOK, Return, Goto, Stages

(* A chunk written is a chunk.                                              *)
LEMMA NewChunkType ==
  ASSUME TypeOK, NEW c \in Caller, NewChunk(c), sess[c] \in Session
  PROVE  /\ Len(written) + 1 \in Chunk
         /\ written' \in Seq([session : Session, seq : Nat])
         /\ Len(written') = Len(written) + 1
         /\ Len(written') <= MaxChunks
         /\ written'[Len(written) + 1] = [session |-> sess[c], seq |-> Len(base[c].chunks)]
         /\ \A k \in 1..Len(written) : written'[k] = written[k]
<1>1. base[c].chunks \in Seq(Chunk)
  BY Fields DEF TypeOK
<1>2. [session |-> sess[c], seq |-> Len(base[c].chunks)] \in [session : Session, seq : Nat]
  BY <1>1
<1> QED BY <1>2, BoundAssumption DEF TypeOK, NewChunk, Chunk

(* What a rebuild may make of the chunks it found: all of them, each once,  *)
(* none before one with a smaller number.                                  *)
LEMMA OrderOf ==
  ASSUME TypeOK, NEW s \in Session, NEW order \in Orders(s)
  PROVE  LET found == {k \in Turns(s) : Readable(k)}
         IN /\ order \in Seq(Chunk) /\ Len(order) = Cardinality(found)
            /\ DOMAIN order = 1..Cardinality(found)
            /\ IsFiniteSet(found) /\ Cardinality(found) \in Nat
            /\ \A i \in DOMAIN order : order[i] \in found
            /\ \A k \in found : \E i \in DOMAIN order : order[i] = k
            /\ \A i, j \in DOMAIN order : i # j => order[i] # order[j]
            /\ \A i, j \in DOMAIN order : i < j => written[order[i]].seq <= written[order[j]].seq
<1> DEFINE found == {k \in Turns(s) : Readable(k)}
           n == Cardinality(found)
<1>1. found = {k \in 1..Len(written) : written[k].session = s /\ Readable(k)}
  BY DEF Turns
<1>2. found \subseteq 1..Len(written) /\ Len(written) \in Nat /\ Len(written) <= MaxChunks
  BY DEF TypeOK, Turns
<1>3. IsFiniteSet(found)
  <2>1. IsFiniteSet(1..Len(written))
    BY <1>2, FS_Interval
  <2> HIDE DEF found
  <2> QED BY <1>2, <2>1, FS_Subset
<1>4. n \in Nat
  BY <1>3, FS_CardinalityType
<1>5. found \subseteq Chunk
  BY <1>2, BoundAssumption DEF Chunk
<1>6. /\ order \in [1..n -> found]
      /\ \A i, j \in 1..n : i < j =>
           order[i] # order[j] /\ written[order[i]].seq <= written[order[j]].seq
  BY <1>1 DEF Orders
<1> HIDE DEF found, n
<1>7. order \in Seq(found) /\ Len(order) = n /\ DOMAIN order = 1..n
  BY <1>4, <1>6
<1>8. order \in Seq(Chunk)
  BY <1>5, <1>4, <1>6
<1>9. \A i, j \in 1..n : i # j => order[i] # order[j]
  <2> SUFFICES ASSUME NEW i \in 1..n, NEW j \in 1..n, i # j PROVE order[i] # order[j]
    OBVIOUS
  <2>1. i < j \/ j < i
    BY <1>4
  <2> QED BY <1>6, <2>1
<1>10. \A k \in found : \E i \in 1..n : order[i] = k
  <2>1. order \in Injection(1..n, found)
    BY <1>6, <1>9 DEF Injection, IsInjective
  <2>2. Cardinality(1..n) = n
    BY <1>4, FS_Interval
  <2>3. order \in Surjection(1..n, found)
    BY <1>3, <2>1, <2>2, FS_Injection DEF n
  <2> QED BY <2>3 DEF Surjection
<1> QED BY <1>3, <1>4, <1>6, <1>7, <1>8, <1>9, <1>10 DEF found, n

(* The steps of a call, by what they do to heads.                           *)
Starts(c, s) ==
  \/ \E n \in 0..MaxGroups : Create(c, s, n) \/ Extend(c, s, n)
  \/ Forget(c, s)
  \/ \E m \in Memory : Link(c, s, m)
  \/ Rebuild(c, s)

Reads(c) ==
  \/ WriteChunk(c) \/ WriteFails(c) \/ Index(c) \/ Adopt(c) \/ Settle(c)
  \/ Tombstone(c) \/ Disown(c) \/ Unindex(c)
  \/ Check(c) \/ Restore(c) \/ Reindex(c) \/ Fail(c)

Writes(c) ==
  StoreHead(c) \/ AdoptWrite(c) \/ DisownWrite(c) \/ LinkWrite(c) \/ Rewrite(c) \/ Drop(c)

(* Every step is of one of five kinds.                                      *)
LEMMA NextKinds ==
  Next => \/ \E c \in Caller, s \in Session : Starts(c, s)
          \/ \E c \in Caller : Reads(c)
          \/ \E c \in Caller : Writes(c)
          \/ Flush
          \/ \E s \in Session : DropHead(s)
BY ZenonT(30) DEF Next, Starts, Reads, Writes

(* A step of one call leaves what the others know alone.                    *)
LEMMA Others ==
  ASSUME TypeOK, NEW c \in Caller, NEW s \in Session, Starts(c, s) \/ Reads(c) \/ Writes(c),
         NEW e \in Caller \ {c}
  PROVE  /\ pc'[e] = pc[e] /\ sess'[e] = sess[e] /\ base'[e] = base[e]
         /\ left'[e] = left[e] /\ wrote'[e] = wrote[e] /\ owed'[e] = owed[e]
<1>1. CASE Starts(c, s)
  <2>1. (\E stage, head, n : Begin(c, s, stage, head, n)) /\ wrote' = wrote /\ owed' = owed
    BY <1>1 DEF Starts, Create, Extend, Forget, Link, Rebuild
  <2> QED BY <2>1 DEF TypeOK, Begin
<1>2. CASE WriteChunk(c) \/ WriteFails(c) \/ Index(c) \/ Adopt(c) \/ Settle(c)
  <2>1. CASE WriteChunk(c)
    <3>1. /\ pc' = pc /\ sess' = sess /\ left' = [left EXCEPT ![c] = @ - 1]
          /\ \E b : base' = [base EXCEPT ![c] = b]
          /\ \E w : wrote' = [wrote EXCEPT ![c] = w]
          /\ \E o : owed' = [owed EXCEPT ![c] = o]
      BY <2>1 DEF WriteChunk
    <3> QED BY <3>1 DEF TypeOK
  <2>2. CASE WriteFails(c)
    <3>1. Return(c)
      BY <2>2 DEF WriteFails
    <3> QED BY <3>1 DEF TypeOK, Return, Goto
  <2>3. CASE Index(c) \/ Settle(c)
    BY <2>3 DEF TypeOK, Index, Settle, Return, Goto
  <2>4. CASE Adopt(c)
    BY <2>4 DEF TypeOK, Adopt, Return, Goto
  <2> QED BY <1>2, <2>1, <2>2, <2>3, <2>4
<1>3. CASE Tombstone(c) \/ Disown(c) \/ Unindex(c)
  BY <1>3 DEF TypeOK, Tombstone, Disown, Unindex, Goto
<1>4. CASE Check(c) \/ Restore(c) \/ Reindex(c) \/ Fail(c)
  BY <1>4 DEF TypeOK, Check, Restore, Reindex, Fail, Return, Goto
<1>5. CASE Writes(c)
  BY <1>5 DEF TypeOK, Writes, StoreHead, AdoptWrite, DisownWrite, LinkWrite, Rewrite, Drop,
              Return, Goto
<1> QED BY <1>1, <1>2, <1>3, <1>4, <1>5 DEF Reads

(* Beginning a call keeps the types.                                        *)
LEMMA StartType ==
  ASSUME TypeOK, NEW c \in Caller, NEW s \in Session, Starts(c, s)
  PROVE  TypeOK'
<1>0. /\ heads[s] \in SessionHead /\ heads[s].chunks \in Seq(Chunk)
      /\ Len(heads[s].chunks) \in Nat /\ Held(s) => TRUE
  BY Fields DEF TypeOK
<1> DEFINE Frame == /\ UNCHANGED <<heads, indexed, written, bodies, queued, catalog, wrote, owed>>
                    /\ UNCHANGED <<dropped, rebuilt, answers, faults>>
           Goes == /\ pc' \in [Caller -> Stages]
                   /\ sess' \in [Caller -> Session \union {NoSession}]
                   /\ base' \in [Caller -> SessionHead]
                   /\ left' \in [Caller -> Nat]
                   /\ contended' \subseteq Session
                   /\ calls' \in 0..MaxCalls
<1>1. ASSUME NEW n \in 0..MaxGroups, Create(c, s, n) PROVE Goes /\ Frame /\ TypeOK'
  <2>1. [NoHead EXCEPT !.parented = (ParentOf[s] # NoSession)] \in SessionHead
    <3> DEFINE b == ParentOf[s] # NoSession
    <3>1. b \in BOOLEAN
      OBVIOUS
    <3> HIDE DEF b
    <3>2. [NoHead EXCEPT !.parented = b] \in SessionHead
      BY <3>1, NoHeadIsHead DEF SessionHead
    <3> QED BY <3>2 DEF b
  <2>2. n \in Nat /\ "write" \in Stages
    BY BoundAssumption DEF Stages
  <2>3. Goes
    BY <1>1, <2>1, <2>2, BeginType DEF Create
  <2>4. Frame /\ UNCHANGED <<sourced, condemned>> /\ created' = created \union {s}
    BY <1>1 DEF Create, storage
  <2> QED BY <2>3, <2>4 DEF TypeOK, answers
<1>2. ASSUME NEW n \in 0..MaxGroups, Extend(c, s, n) PROVE TypeOK'
  <2>2. n \in Nat /\ "write" \in Stages
    BY BoundAssumption DEF Stages
  <2>3. Goes
    BY <1>2, <1>0, <2>2, BeginType DEF Extend
  <2>4. Frame /\ UNCHANGED <<sourced, condemned, created>>
    BY <1>2 DEF Extend, storage
  <2> QED BY <2>3, <2>4 DEF TypeOK, answers
<1>3. ASSUME Forget(c, s) PROVE TypeOK'
  <2>3. Goes
    BY <1>3, <1>0, BeginType DEF Forget, Stages
  <2>4. Frame /\ UNCHANGED <<sourced, created>> /\ condemned' = condemned \union {s}
    BY <1>3 DEF Forget, storage
  <2> QED BY <2>3, <2>4 DEF TypeOK, answers
<1>4. ASSUME NEW m \in Memory, Link(c, s, m) PROVE TypeOK'
  <2>1. heads[s].memories \union {m} \in SUBSET Memory
    BY <1>0, Fields
  <2>2. [heads[s] EXCEPT !.memories = @ \union {m}] \in SessionHead
    BY <1>0, <2>1, Changed
  <2>3. Goes
    BY <1>4, <2>2, BeginType DEF Link, Stages
  <2>4. Frame /\ UNCHANGED <<condemned, created>> /\ sourced' = sourced \union {<<s, m>>}
    BY <1>4 DEF Link, storage
  <2> QED BY <2>3, <2>4 DEF TypeOK, answers
<1>5. ASSUME Rebuild(c, s) PROVE TypeOK'
  <2>0. PICK order \in Orders(s) :
          Begin(c, s, "check", [NoHead EXCEPT !.chunks = order,
                                  !.memories = {m \in Memory : <<s, m>> \in sourced}], 0)
    BY <1>5 DEF Rebuild
  <2>1. order \in Seq(Chunk)
    BY OrderOf
  <2>2. [[NoHead EXCEPT !.chunks = order] EXCEPT !.memories = {m \in Memory : <<s, m>> \in sourced}]
          \in SessionHead
    BY <2>1, Changed, NoHeadIsHead
  <2>3. Goes
    BY <2>0, <2>2, BeginType DEF Stages
  <2>4. Frame /\ UNCHANGED <<sourced, condemned, created>>
    BY <1>5 DEF Rebuild, storage
  <2> QED BY <2>3, <2>4 DEF TypeOK, answers
<1> QED BY <1>1, <1>2, <1>3, <1>4, <1>5 DEF Starts

(* A step that reads keeps the types.                                       *)
LEMMA ReadType ==
  ASSUME TypeOK, LineageInv, NEW c \in Caller, Reads(c)
  PROVE  TypeOK'
<1> USE BoundAssumption
<1>0. /\ base[c] \in SessionHead /\ base[c].chunks \in Seq(Chunk) /\ left[c] \in Nat
      /\ wrote[c] \subseteq Chunk /\ owed[c] \subseteq Chunk
  BY Fields DEF TypeOK
<1>1. CASE WriteChunk(c)
  <2> DEFINE k == Len(written) + 1
  <2>1. /\ NewChunk(c) /\ pc[c] = "write" /\ sess[c] \in Session /\ left[c] > 0
        /\ UNCHANGED <<heads, indexed, sourced, pc, sess, created, scenes, answers, calls, faults>>
    BY <1>1 DEF WriteChunk, NewChunk, LineageInv, LineageOK
  <2>2. /\ k \in Chunk /\ written' \in Seq([session : Session, seq : Nat])
        /\ Len(written') <= MaxChunks
    BY <2>1, NewChunkType
  <2>3. [base[c] EXCEPT !.chunks = Append(base[c].chunks, k)] \in SessionHead
    <3>1. Append(base[c].chunks, k) \in Seq(Chunk)
      BY <1>0, <2>2
    <3> QED BY <1>0, <3>1, Changed
  <2>4. base' = [base EXCEPT ![c] = [base[c] EXCEPT !.chunks = Append(base[c].chunks, k)]]
    BY <1>1 DEF WriteChunk
  <2>5. base' \in [Caller -> SessionHead]
    BY <2>3, <2>4 DEF TypeOK
  <2>6. left' \in [Caller -> Nat]
    BY <1>0, <1>1, <2>1 DEF WriteChunk, TypeOK
  <2>7. bodies' \subseteq Chunk /\ queued' \subseteq Chunk /\ catalog' \subseteq Chunk
    BY <1>1, <2>2 DEF WriteChunk, TypeOK
  <2>8. wrote' \in [Caller -> SUBSET Chunk]
    BY <1>0, <1>1, <2>2 DEF WriteChunk, TypeOK
  <2>9. owed' \in [Caller -> SUBSET Chunk]
    BY <1>0, <1>1, <2>2 DEF WriteChunk, TypeOK
  <2> QED BY <2>1, <2>2, <2>5, <2>6, <2>7, <2>8, <2>9 DEF TypeOK, scenes, answers
<1>2. CASE WriteFails(c)
  <2> DEFINE k == Len(written) + 1
  <2>1. /\ NewChunk(c) /\ sess[c] \in Session /\ Return(c)
        /\ UNCHANGED <<heads, indexed, catalog, sourced, created, scenes, answers, calls>>
    BY <1>2 DEF WriteFails, NewChunk, LineageInv, LineageOK
  <2>2. /\ k \in Chunk /\ written' \in Seq([session : Session, seq : Nat])
        /\ Len(written') <= MaxChunks
    BY <2>1, NewChunkType
  <2>3. bodies' \subseteq Chunk /\ queued' \subseteq Chunk /\ faults' \in 0..MaxFaults
    BY <1>2, <2>2 DEF WriteFails, TypeOK
  <2> QED BY <2>1, <2>2, <2>3, ReturnType DEF TypeOK, scenes, answers
<1>3. CASE Index(c)
  <2>1. sess[c] \in Session
    BY <1>3 DEF Index, LineageInv, LineageOK
  <2>2. \A x \in {"adopt", "settle"} : x \in Stages
    BY DEF Stages
  <2>3. pc' \in [Caller -> Stages]
    BY <1>3, <2>2 DEF Index, Goto, TypeOK
  <2> QED BY <1>3, <2>1, <2>3 DEF Index, TypeOK, storage, scenes, answers
<1>4. CASE Adopt(c)
  <2> DEFINE p == ParentOf[sess[c]]
             new == [heads[p] EXCEPT !.children = heads[p].children \union {sess[c]}]
  <2>1. p \in Session /\ sess[c] \in Session
    BY <1>4 DEF Adopt, LineageInv, LineageOK
  <2>2. new \in SessionHead
    <3>1. heads[p] \in SessionHead /\ heads[p].children \union {sess[c]} \in SUBSET Session
      BY <2>1, Fields DEF TypeOK
    <3>2. \A C \in SUBSET Session : [heads[p] EXCEPT !.children = C] \in SessionHead
      BY <3>1 DEF SessionHead
    <3> QED BY <3>1, <3>2
  <2>3. UNCHANGED <<heads, indexed, storage, sourced, created, scenes, answers, calls, faults>>
    BY <1>4 DEF Adopt
  <2>4. CASE Return(c)
    BY <2>3, <2>4, ReturnType DEF TypeOK, storage, scenes, answers
  <2>5. CASE Held(p)
    <3>1. /\ base' = [base EXCEPT ![c] = new]
          /\ pc' = [pc EXCEPT ![c] = IF sess[c] \in heads[p].children THEN "settle" ELSE "adoptWrite"]
          /\ UNCHANGED <<sess, left, wrote, owed>>
      BY <1>4, <2>5 DEF Adopt, Goto
    <3> HIDE DEF new
    <3>2. pc' \in [Caller -> Stages]
      BY <3>1 DEF TypeOK, Stages
    <3>3. base' \in [Caller -> SessionHead]
      BY <2>2, <3>1 DEF TypeOK
    <3> QED BY <2>3, <3>1, <3>2, <3>3 DEF TypeOK, storage, scenes, answers
  <2> QED BY <1>4, <2>4, <2>5 DEF Adopt
<1>5. CASE Settle(c)
  <2>1. /\ Return(c) /\ queued' \subseteq queued /\ catalog' \subseteq catalog \union queued
        /\ networked' \subseteq networked \union wrote[c] /\ acked' = acked \union wrote[c]
        /\ UNCHANGED <<heads, indexed, written, bodies, sourced, created, scenes, forgotten,
                 linked, calls, faults>>
    BY <1>5 DEF Settle, Flushed
  <2>2. /\ networked' \subseteq Chunk /\ acked' \subseteq Chunk /\ queued' \subseteq Chunk
        /\ catalog' \subseteq Chunk
    BY <1>0, <2>1 DEF TypeOK
  <2> QED BY <2>1, <2>2, ReturnType DEF TypeOK, scenes
<1>6. CASE Tombstone(c)
  <2>1. left' \in [Caller -> Nat]
    BY <1>0, <1>6 DEF Tombstone, TypeOK
  <2>2. bodies' \subseteq bodies /\ catalog' \subseteq catalog
    BY <1>6 DEF Tombstone
  <2> QED BY <1>6, <2>1, <2>2 DEF Tombstone, TypeOK, scenes, answers
<1>7. CASE Disown(c)
  <2> DEFINE p == ParentOf[sess[c]]
             new == [heads[p] EXCEPT !.children = heads[p].children \ {sess[c]}]
  <2>1. base[c].parented => p \in Session
    BY <1>7 DEF Disown, LineageInv, LineageOK, Based, Owner
  <2>2. base[c].parented => new \in SessionHead
    BY <2>1, Changed, Fields DEF TypeOK
  <2>3. UNCHANGED <<heads, indexed, storage, sourced, sess, left, wrote, owed, created,
                    scenes, answers, calls, faults>>
    BY <1>7 DEF Disown
  <2>4. \/ base[c].parented /\ base' = [base EXCEPT ![c] = new] /\ Goto(c, "disownWrite")
        \/ Goto(c, "unindex") /\ UNCHANGED base
    BY <1>7 DEF Disown
  <2> HIDE DEF new
  <2>5. base' \in [Caller -> SessionHead] /\ pc' \in [Caller -> Stages]
    BY <2>2, <2>4 DEF TypeOK, Stages, Goto
  <2> QED BY <2>3, <2>5 DEF TypeOK, storage, scenes, answers
<1>8. CASE Unindex(c)
  BY <1>8 DEF Unindex, Goto, Stages, TypeOK, storage, scenes, answers
<1>9. CASE Check(c)
  <2>1. CASE Return(c)
    BY <1>9, <2>1, ReturnType DEF Check, TypeOK, storage, scenes, answers
  <2>2. CASE Goto(c, "restore") /\ UNCHANGED <<sess, base, left, wrote, owed>>
    BY <1>9, <2>2 DEF Check, Goto, Stages, TypeOK, storage, scenes, answers
  <2> QED BY <1>9, <2>1, <2>2 DEF Check
<1>10. CASE Restore(c)
  <2>1. sess[c] \in Session
    BY <1>10 DEF Restore, LineageInv, LineageOK
  <2>2. heads[sess[c]].version \in Nat
    BY <2>1, Fields DEF TypeOK
  <2>3. [base[c] EXCEPT !.version = heads[sess[c]].version] \in SessionHead
    BY <1>0, <2>2, Changed
  <2>4. base' \in [Caller -> SessionHead]
    BY <1>10, <2>3 DEF Restore, TypeOK
  <2>5. pc' \in [Caller -> Stages]
    BY <1>10 DEF Restore, Goto, Stages, TypeOK
  <2> QED BY <1>10, <2>4, <2>5 DEF Restore, TypeOK, storage, scenes, answers
<1>11. CASE Reindex(c)
  <2>1. sess[c] \in Session
    BY <1>11 DEF Reindex, LineageInv, LineageOK
  <2> QED BY <1>11, <2>1, ReturnType DEF Reindex, TypeOK, storage, scenes, answers
<1>12. CASE Fail(c)
  <2>1. faults' \in 0..MaxFaults
    BY <1>12 DEF Fail, TypeOK
  <2> QED BY <1>12, <2>1, ReturnType DEF Fail, TypeOK, storage, scenes, answers
<1> QED BY <1>1, <1>2, <1>3, <1>4, <1>5, <1>6, <1>7, <1>8, <1>9, <1>10, <1>11, <1>12 DEF Reads

(* A head put over another is the one put, one version on.                  *)
LEMMA PutHead ==
  ASSUME TypeOK, NEW s \in Session, NEW head \in SessionHead, Put(s, head)
  PROVE  /\ heads' \in [Session -> SessionHead]
         /\ \A t \in Session \ {s} : heads'[t] = heads[t]
         /\ heads'[s].version = head.version + 1
         /\ heads'[s].chunks = head.chunks /\ heads'[s].children = head.children
         /\ heads'[s].memories = head.memories /\ heads'[s].parented = head.parented
         /\ heads'[s] # NoHead
<1> DEFINE new == [head EXCEPT !.version = head.version + 1]
<1>1. new \in SessionHead
  BY Changed
<1>2. /\ new.version = head.version + 1
      /\ new.chunks = head.chunks /\ new.children = head.children
      /\ new.memories = head.memories /\ new.parented = head.parented
  <2>1. new.version = head.version + 1 /\ new.chunks = head.chunks
    BY DEF SessionHead
  <2>2. new.children = head.children /\ new.memories = head.memories
    BY DEF SessionHead
  <2>3. new.parented = head.parented
    BY DEF SessionHead
  <2> QED BY <2>1, <2>2, <2>3
<1>3. heads' = [heads EXCEPT ![s] = new]
  BY DEF Put
<1>4. new.version # NoHead.version
  BY <1>2, Fields, NoHeadIsHead
<1> HIDE DEF new
<1> QED BY <1>1, <1>2, <1>3, <1>4 DEF TypeOK

(* A step that writes a head keeps the types.                               *)
LEMMA WriteType ==
  ASSUME TypeOK, LineageInv, NEW c \in Caller, Writes(c)
  PROVE  TypeOK'
<1>0. base[c] \in SessionHead /\ wrote[c] \subseteq Chunk /\ sess[c] \in Session
  BY DEF TypeOK, LineageInv, LineageOK, Writes, StoreHead, AdoptWrite, DisownWrite, LinkWrite, Rewrite, Drop
<1>1. CASE StoreHead(c)
  <2>1. Put(sess[c], base[c]) => heads' \in [Session -> SessionHead]
    BY <1>0, PutHead
  <2>2. heads' \in [Session -> SessionHead]
    BY <1>1, <2>1 DEF StoreHead, TypeOK
  <2>3. CASE Return(c)
    BY <1>1, <2>2, <2>3, ReturnType DEF StoreHead, TypeOK, storage, scenes, answers
  <2>4. CASE Goto(c, "index") /\ UNCHANGED <<sess, base, left, wrote, owed>>
    BY <1>1, <2>2, <2>4 DEF StoreHead, Goto, Stages, TypeOK, storage, scenes, answers
  <2> QED BY <1>1, <2>3, <2>4 DEF StoreHead
<1>2. CASE AdoptWrite(c)
  <2> DEFINE p == ParentOf[sess[c]]
  <2>0. p \in Session
    BY <1>2 DEF AdoptWrite, LineageInv, LineageOK, Based, Revising, Owner
  <2>1. Put(p, base[c]) => heads' \in [Session -> SessionHead]
    BY <1>0, <2>0, PutHead
  <2>2. heads' \in [Session -> SessionHead]
    BY <1>2, <2>1 DEF AdoptWrite, TypeOK
  <2>3. CASE Return(c)
    BY <1>2, <2>2, <2>3, ReturnType DEF AdoptWrite, TypeOK, storage, scenes, answers
  <2>4. CASE Goto(c, "settle") /\ UNCHANGED <<sess, base, left, wrote, owed>>
    BY <1>2, <2>2, <2>4 DEF AdoptWrite, Goto, Stages, TypeOK, storage, scenes, answers
  <2> QED BY <1>2, <2>3, <2>4 DEF AdoptWrite
<1>3. CASE DisownWrite(c)
  <2> DEFINE p == ParentOf[sess[c]]
  <2>0. p \in Session
    BY <1>3 DEF DisownWrite, LineageInv, LineageOK, Based, Revising, Owner
  <2>1. Put(p, base[c]) => heads' \in [Session -> SessionHead]
    BY <1>0, <2>0, PutHead
  <2>2. heads' \in [Session -> SessionHead]
    BY <1>3, <2>1 DEF DisownWrite, TypeOK
  <2>3. CASE Return(c)
    BY <1>3, <2>2, <2>3, ReturnType DEF DisownWrite, TypeOK, storage, scenes, answers
  <2>4. CASE Goto(c, "unindex") /\ UNCHANGED <<sess, base, left, wrote, owed>>
    BY <1>3, <2>2, <2>4 DEF DisownWrite, Goto, Stages, TypeOK, storage, scenes, answers
  <2> QED BY <1>3, <2>3, <2>4 DEF DisownWrite
<1>4. CASE LinkWrite(c)
  <2>1. Put(sess[c], base[c]) => heads' \in [Session -> SessionHead]
    BY <1>0, PutHead
  <2>2. heads' \in [Session -> SessionHead]
    BY <1>4, <2>1 DEF LinkWrite, TypeOK
  <2>3. base[c].memories \subseteq Memory
    BY <1>0, Fields
  <2>4. linked' \in {linked, linked \union ({sess[c]} \X base[c].memories)}
    BY <1>4 DEF LinkWrite
  <2>5. linked' \subseteq Session \X Memory
    BY <1>0, <2>3, <2>4 DEF TypeOK
  <2> QED BY <1>4, <2>2, <2>5, ReturnType DEF LinkWrite, TypeOK, storage, scenes
<1>5. CASE Rewrite(c)
  <2>1. Put(sess[c], base[c]) => heads' \in [Session -> SessionHead]
    BY <1>0, PutHead
  <2>2. heads' \in [Session -> SessionHead] /\ rebuilt' \subseteq Session
    BY <1>0, <1>5, <2>1 DEF Rewrite, TypeOK
  <2>3. CASE Return(c)
    BY <1>5, <2>2, <2>3, ReturnType DEF Rewrite, TypeOK, storage, answers
  <2>4. CASE Goto(c, "reindex") /\ UNCHANGED <<sess, base, left, wrote, owed>>
    BY <1>5, <2>2, <2>4 DEF Rewrite, Goto, Stages, TypeOK, storage, answers
  <2> QED BY <1>5, <2>3, <2>4 DEF Rewrite
<1>6. CASE Drop(c)
  <2>1. heads' \in [Session -> SessionHead] /\ forgotten' \subseteq Session
    BY <1>0, <1>6, NoHeadIsHead DEF Drop, TypeOK
  <2> QED BY <1>6, <2>1, ReturnType DEF Drop, TypeOK, storage, scenes
<1> QED BY <1>1, <1>2, <1>3, <1>4, <1>5, <1>6 DEF Writes

(* The steps that are left keep the types.                                  *)
LEMMA RestType ==
  ASSUME TypeOK, Flush \/ (\E s \in Session : DropHead(s)) \/ UNCHANGED vars
  PROVE  TypeOK'
<1>1. CASE Flush
  <2>1. queued' \subseteq queued /\ catalog' \subseteq catalog \union queued
    BY <1>1 DEF Flush, Flushed
  <2> QED BY <1>1, <2>1 DEF Flush, TypeOK, call, scenes, answers
<1>2. ASSUME NEW s \in Session, DropHead(s) PROVE TypeOK'
  <2>1. heads' \in [Session -> SessionHead] /\ dropped' \subseteq Session
    BY <1>2, NoHeadIsHead DEF DropHead, TypeOK
  <2>2. contended' \subseteq Session /\ calls' \in 0..MaxCalls
    BY <1>2, BoundAssumption DEF DropHead, TypeOK
  <2> QED BY <1>2, <2>1, <2>2 DEF DropHead, TypeOK, storage, call, answers
<1>3. CASE UNCHANGED vars
  BY <1>3 DEF vars, TypeOK, storage, call, scenes, answers
<1> QED BY <1>1, <1>2, <1>3

-----------------------------------------------------------------------------
(* What Create begins with.                                                 *)
LEMMA CreateStep ==
  ASSUME TypeOK, NEW c \in Caller, NEW s \in Session, NEW n \in Nat, Create(c, s, n)
  PROVE  /\ pc[c] = "idle" /\ pc'[c] = "write" /\ sess'[c] = s /\ s \notin created
         /\ created' = created \union {s}
         /\ base'[c].version = 0 /\ base'[c].chunks = <<>> /\ base'[c].children = {}
         /\ base'[c].memories = {}
         /\ base'[c].parented = (ParentOf[s] # NoSession)
         /\ UNCHANGED <<heads, indexed, storage, sourced, wrote, owed, condemned, dropped,
                        rebuilt, answers>>
BY DEF Create, Begin, TypeOK, NoHead

(* A step that changes no chunk and no parent keeps the lineage.            *)
LEMMA LineageStays ==
  ASSUME NEW e \in Caller, LineageOK(e), pc'[e] = pc[e], sess'[e] = sess[e],
         base'[e] = base[e], left'[e] = left[e]
  PROVE  LineageOK(e)'
BY DEF LineageOK, Owner

(* The lineage is kept: every chunk is of its session, in its order.        *)
LEMMA LineageStep ==
  ASSUME TypeOK, TypeOK', LineageInv, [Next]_vars
  PROVE  LineageInv'
<1> USE ParentAssumption DEF Based, Revising, Remaking
<1> DEFINE Heads == \A s \in Session : heads[s].parented => ParentOf[s] \in Session
<1>0. Heads /\ (\A c \in Caller : LineageOK(c))
  BY DEF LineageInv
<1>1. ASSUME NEW c \in Caller, NEW s \in Session, Starts(c, s) \/ Reads(c) \/ Writes(c),
             LineageOK(c)', Heads'
      PROVE  LineageInv'
  <2>1. \A e \in Caller \ {c} : LineageOK(e)'
    BY <1>0, <1>1, Others, LineageStays
  <2> QED BY <1>1, <2>1 DEF LineageInv
<1>2. ASSUME NEW c \in Caller, NEW s \in Session, Starts(c, s) PROVE LineageInv'
  <2>1. heads' = heads
    BY <1>2 DEF Starts, Create, Extend, Forget, Link, Rebuild
  <2>2. heads[s].parented => ParentOf[s] \in Session
    BY <1>0
  <2>3. heads[s] \in SessionHead
    BY DEF TypeOK
  <2>4. ASSUME NEW n \in 0..MaxGroups, Create(c, s, n) PROVE LineageOK(c)'
    <3>1. /\ pc'[c] = "write" /\ sess'[c] = s
          /\ base'[c].parented = (ParentOf[s] # NoSession)
      BY <2>4, CreateStep, BoundAssumption
    <3> QED BY <3>1 DEF LineageOK, Owner
  <2>5. ASSUME NEW n \in 0..MaxGroups, Extend(c, s, n) PROVE LineageOK(c)'
    BY <2>2, <2>5 DEF Extend, Begin, LineageOK, Owner, TypeOK
  <2>6. ASSUME Forget(c, s) PROVE LineageOK(c)'
    <3>1. Len(heads[s].chunks) \in Nat
      BY <2>3, Fields
    <3> QED BY <2>2, <2>6, <3>1 DEF Forget, Begin, LineageOK, Owner, TypeOK
  <2>7. ASSUME NEW m \in Memory, Link(c, s, m) PROVE LineageOK(c)'
    <3>1. \A M : [heads[s] EXCEPT !.memories = M].parented = heads[s].parented
      BY <2>3 DEF SessionHead
    <3> QED BY <2>2, <2>7, <3>1 DEF Link, Begin, LineageOK, Owner, TypeOK
  <2>8. ASSUME Rebuild(c, s) PROVE LineageOK(c)'
    BY <2>8 DEF Rebuild, Begin, LineageOK, Owner, TypeOK, NoHead
  <2>9. LineageOK(c)'
    BY <1>2, <2>4, <2>5, <2>6, <2>7, <2>8 DEF Starts
  <2> QED BY <1>0, <1>1, <1>2, <2>1, <2>9
<1>3. ASSUME NEW c \in Caller, Reads(c) PROVE LineageInv'
  <2>1. heads' = heads /\ LineageOK(c) /\ base[c] \in SessionHead
    BY <1>0, <1>3 DEF Reads, WriteChunk, WriteFails, Index, Adopt, Settle, Tombstone, Disown,
                 Unindex, Check, Restore, Reindex, Fail, TypeOK
  <2>2. sess[c] \in Session
    BY <1>3, <2>1 DEF LineageOK, Reads, WriteChunk, NewChunk, WriteFails, Index, Adopt, Settle,
                 Tombstone, Disown, Unindex, Check, Restore, Reindex, Fail
  <2> SUFFICES LineageOK(c)'
    BY <1>0, <1>1, <1>3, <2>1, <2>2
  <2>3. CASE pc'[c] = "idle"
    BY <2>3 DEF LineageOK
  <2>4. CASE WriteChunk(c)
    <3>1. /\ base'[c].parented = base[c].parented /\ sess' = sess /\ pc' = pc /\ pc[c] = "write"
      BY <2>1, <2>4 DEF WriteChunk, NewChunk, TypeOK, SessionHead
    <3> QED BY <2>1, <3>1 DEF LineageOK, Owner
  <2>5. CASE Index(c)
    BY <2>1, <2>5 DEF Index, Goto, LineageOK, Owner, TypeOK
  <2>6. CASE Adopt(c)
    <3> DEFINE p == ParentOf[sess[c]]
    <3>1. p \in Session /\ heads[p] \in SessionHead /\ (heads[p].parented => ParentOf[p] \in Session)
      BY <1>0, <2>1, <2>6 DEF Adopt, LineageOK, TypeOK
    <3> DEFINE new == [heads[p] EXCEPT !.children = heads[p].children \union {sess[c]}]
    <3>2. new.parented = heads[p].parented
      BY <3>1 DEF SessionHead
    <3>3. Return(c) => LineageOK(c)'
      BY <2>3 DEF Return, Goto, TypeOK
    <3>4. CASE Held(p)
      <4>0. base' = [base EXCEPT ![c] = new]
        BY <2>6, <3>4 DEF Adopt
      <4> HIDE DEF new
      <4>1. /\ base'[c].parented = heads[p].parented /\ sess' = sess
            /\ pc'[c] \in {"settle", "adoptWrite"}
        BY <2>6, <3>2, <3>4, <4>0 DEF Adopt, Goto, TypeOK
      <4> QED BY <2>2, <3>1, <4>1 DEF LineageOK, Owner
    <3> QED BY <2>6, <3>3, <3>4 DEF Adopt
  <2>7. CASE Tombstone(c)
    <3>1. /\ pc' = pc /\ sess' = sess /\ base' = base /\ left'[c] = left[c] - 1
          /\ pc[c] = "tombstone" /\ left[c] \in Nat
      BY <2>7 DEF Tombstone, TypeOK
    <3>2. Len(base[c].chunks) \in Nat
      BY <2>1, Fields
    <3> QED BY <2>1, <3>1, <3>2 DEF LineageOK, Owner
  <2>8. CASE Disown(c)
    <3> DEFINE p == ParentOf[sess[c]]
    <3>1. pc[c] = "tombstone" /\ (base[c].parented => p \in Session)
      BY <2>1, <2>8 DEF Disown, LineageOK, Owner
    <3>2. base[c].parented => /\ heads[p] \in SessionHead
                              /\ (heads[p].parented => ParentOf[p] \in Session)
      BY <1>0, <3>1 DEF TypeOK
    <3> DEFINE new == [heads[p] EXCEPT !.children = heads[p].children \ {sess[c]}]
    <3>3. base[c].parented => new.parented = heads[p].parented
      BY <3>2 DEF SessionHead
    <3>5. base' \in {base, [base EXCEPT ![c] = new]}
          /\ (pc'[c] = "disownWrite" => base' = [base EXCEPT ![c] = new])
      BY <2>8 DEF Disown, Goto, TypeOK
    <3> HIDE DEF new
    <3>4. /\ sess' = sess
          /\ \/ pc'[c] = "unindex"
             \/ /\ pc'[c] = "disownWrite" /\ base[c].parented
                /\ base'[c].parented = heads[p].parented
      BY <2>8, <3>3, <3>5 DEF Disown, Goto, TypeOK
    <3> QED BY <2>2, <3>1, <3>2, <3>4 DEF LineageOK, Owner
  <2>9. CASE Unindex(c)
    BY <2>2, <2>9 DEF Unindex, Goto, LineageOK, TypeOK
  <2>10. CASE Check(c)
    BY <2>1, <2>3, <2>10 DEF Check, Return, Goto, LineageOK, Owner, TypeOK
  <2>11. CASE Restore(c)
    <3>1. \A v : [base[c] EXCEPT !.version = v].parented = base[c].parented
      BY <2>1 DEF SessionHead
    <3> QED BY <2>1, <2>11, <3>1 DEF Restore, Goto, LineageOK, Owner, TypeOK
  <2>12. CASE WriteFails(c) \/ Settle(c) \/ Reindex(c) \/ Fail(c)
    BY <2>3, <2>12 DEF WriteFails, Settle, Reindex, Fail, Return, Goto, TypeOK
  <2> QED BY <1>3, <2>4, <2>5, <2>6, <2>7, <2>8, <2>9, <2>10, <2>11, <2>12 DEF Reads
<1>4. ASSUME NEW c \in Caller, Writes(c) PROVE LineageInv'
  <2>1. LineageOK(c) /\ base[c] \in SessionHead
    BY <1>0 DEF TypeOK
  <2>2. sess[c] \in Session
    BY <1>4, <2>1 DEF LineageOK, Writes, StoreHead, AdoptWrite, DisownWrite, LinkWrite, Rewrite, Drop
  <2>3. ASSUME NEW t \in Session, Put(t, base[c]), base[c].parented => ParentOf[t] \in Session
        PROVE  Heads'
    BY <1>0, <2>1, <2>3, PutHead
  <2>4. heads' = heads => Heads'
    BY <1>0
  <2>5. Heads'
    <3>1. CASE StoreHead(c) \/ LinkWrite(c) \/ Rewrite(c)
      BY <2>1, <2>2, <2>3, <2>4, <3>1 DEF StoreHead, LinkWrite, Rewrite, LineageOK, Owner
    <3>2. CASE AdoptWrite(c) \/ DisownWrite(c)
      BY <2>1, <2>3, <2>4, <3>2 DEF AdoptWrite, DisownWrite, LineageOK, Owner
    <3>3. CASE Drop(c)
      BY <1>0, <2>2, <3>3, NoHeadIsHead DEF Drop, TypeOK
    <3> QED BY <1>4, <3>1, <3>2, <3>3 DEF Writes
  <2>6. LineageOK(c)'
    <3>1. CASE pc'[c] = "idle"
      BY <3>1 DEF LineageOK
    <3>2. CASE StoreHead(c)
      BY <2>1, <3>1, <3>2 DEF StoreHead, Return, Goto, LineageOK, Owner, TypeOK
    <3>3. CASE AdoptWrite(c) \/ DisownWrite(c) \/ Rewrite(c)
      BY <2>2, <3>1, <3>3 DEF AdoptWrite, DisownWrite, Rewrite, Return, Goto, LineageOK, TypeOK
    <3>4. CASE LinkWrite(c) \/ Drop(c)
      BY <3>1, <3>4 DEF LinkWrite, Drop, Return, Goto, TypeOK
    <3> QED BY <1>4, <3>2, <3>3, <3>4 DEF Writes
  <2> QED BY <1>1, <1>4, <2>2, <2>5, <2>6
<1>5. CASE Flush \/ UNCHANGED vars
  BY <1>0, <1>5, LineageStays DEF Flush, vars, call, LineageInv
<1>6. ASSUME NEW s \in Session, DropHead(s) PROVE LineageInv'
  <2>1. Heads'
    BY <1>0, <1>6, NoHeadIsHead DEF DropHead, TypeOK
  <2>2. \A e \in Caller : LineageOK(e)'
    BY <1>0, <1>6, LineageStays DEF DropHead, call
  <2> QED BY <2>1, <2>2 DEF LineageInv
<1> QED BY <1>2, <1>3, <1>4, <1>5, <1>6, NextKinds

(* Heads, chunks and calls keep their types.                                *)
THEOREM TypeCorrect == Spec => []TypeOK
<1>1. Init => TypeOK /\ LineageInv
  <2> SUFFICES ASSUME Init PROVE TypeOK /\ LineageInv
    OBVIOUS
  <2>1. \A s \in Session : heads[s] = NoHead
    BY DEF Init
  <2>2. \A c \in Caller : pc[c] = "idle"
    BY DEF Init
  <2>3. LineageInv
    BY <2>1, <2>2, NoHeadIsHead DEF LineageInv, LineageOK, Based, Revising, Remaking
  <2>4. TypeOK
    BY NoHeadIsHead, BoundAssumption DEF Init, TypeOK, Stages
  <2> QED BY <2>3, <2>4
<1>2. TypeOK /\ LineageInv /\ [Next]_vars => (TypeOK /\ LineageInv)'
  <2> SUFFICES ASSUME TypeOK, LineageInv, [Next]_vars PROVE TypeOK' /\ LineageInv'
    OBVIOUS
  <2>1. TypeOK'
    BY StartType, ReadType, WriteType, RestType, NextKinds
  <2> QED BY <2>1, LineageStep
<1> QED BY <1>1, <1>2, PTL DEF Spec

-----------------------------------------------------------------------------
(* What the steps that change a base make of it.                            *)
LEMMA Updated ==
  ASSUME NEW h \in SessionHead, NEW x
  PROVE  /\ LET g == [h EXCEPT !.version = x]
            IN g.version = x /\ g.chunks = h.chunks /\ g.children = h.children
               /\ g.memories = h.memories /\ g.parented = h.parented
         /\ LET g == [h EXCEPT !.chunks = x]
            IN g.version = h.version /\ g.chunks = x /\ g.children = h.children
               /\ g.memories = h.memories /\ g.parented = h.parented
         /\ LET g == [h EXCEPT !.children = x]
            IN g.version = h.version /\ g.chunks = h.chunks /\ g.children = x
               /\ g.memories = h.memories /\ g.parented = h.parented
         /\ LET g == [h EXCEPT !.memories = x]
            IN g.version = h.version /\ g.chunks = h.chunks /\ g.children = h.children
               /\ g.memories = x /\ g.parented = h.parented
<1>1. LET g == [h EXCEPT !.version = x]
      IN g.version = x /\ g.chunks = h.chunks /\ g.children = h.children
         /\ g.memories = h.memories /\ g.parented = h.parented
  BY DEF SessionHead
<1>2. LET g == [h EXCEPT !.chunks = x]
      IN g.version = h.version /\ g.chunks = x /\ g.children = h.children
         /\ g.memories = h.memories /\ g.parented = h.parented
  BY DEF SessionHead
<1>3. LET g == [h EXCEPT !.children = x]
      IN g.version = h.version /\ g.chunks = h.chunks /\ g.children = x
         /\ g.memories = h.memories /\ g.parented = h.parented
  BY DEF SessionHead
<1>4. LET g == [h EXCEPT !.memories = x]
      IN g.version = h.version /\ g.chunks = h.chunks /\ g.children = h.children
         /\ g.memories = x /\ g.parented = h.parented
  BY DEF SessionHead
<1> QED BY <1>1, <1>2, <1>3, <1>4

(* What Link begins with.                                                   *)
LEMMA LinkStep ==
  ASSUME TypeOK, NEW c \in Caller, NEW s \in Session, NEW m \in Memory, Link(c, s, m)
  PROVE  /\ pc[c] = "idle" /\ pc'[c] = "link" /\ sess'[c] = s /\ Held(s)
         /\ sourced' = sourced \union {<<s, m>>}
         /\ base'[c].version = heads[s].version /\ base'[c].chunks = heads[s].chunks
         /\ base'[c].children = heads[s].children /\ base'[c].parented = heads[s].parented
         /\ base'[c].memories = heads[s].memories \union {m}
         /\ UNCHANGED <<heads, indexed, storage, wrote, owed, created, condemned, dropped,
                        rebuilt, answers>>
<1> DEFINE new == [heads[s] EXCEPT !.memories = heads[s].memories \union {m}]
<1>1. /\ new.version = heads[s].version /\ new.chunks = heads[s].chunks
      /\ new.children = heads[s].children /\ new.parented = heads[s].parented
      /\ new.memories = heads[s].memories \union {m}
  <2>1. heads[s] \in SessionHead
    BY DEF TypeOK
  <2> QED BY <2>1, Updated
<1>2. base' = [base EXCEPT ![c] = new]
  BY DEF Link, Begin
<1> HIDE DEF new
<1>3. base'[c] = new
  BY <1>2 DEF TypeOK
<1> QED BY <1>1, <1>3 DEF Link, Begin, TypeOK

(* What Rebuild makes of a base.                                            *)
LEMMA RebuildStep ==
  ASSUME TypeOK, NEW c \in Caller, NEW s \in Session, Rebuild(c, s)
  PROVE  /\ pc[c] = "idle" /\ pc'[c] = "check" /\ sess'[c] = s
         /\ base'[c].chunks \in Orders(s)
         /\ base'[c].version = 0 /\ base'[c].children = {} /\ base'[c].parented = FALSE
         /\ base'[c].memories = {m \in Memory : <<s, m>> \in sourced}
         /\ Turns(s) # {}
         /\ UNCHANGED <<heads, indexed, storage, sourced, wrote, owed, created, condemned,
                        dropped, rebuilt, answers>>
<1>1. PICK order \in Orders(s) :
        Begin(c, s, "check", [NoHead EXCEPT !.chunks = order,
                                !.memories = {m \in Memory : <<s, m>> \in sourced}], 0)
  BY DEF Rebuild
<1>2. base'[c] = [[NoHead EXCEPT !.chunks = order] EXCEPT
                    !.memories = {m \in Memory : <<s, m>> \in sourced}]
  BY <1>1 DEF Begin, TypeOK
<1>3. /\ base'[c].version = 0 /\ base'[c].children = {} /\ base'[c].parented = FALSE
      /\ base'[c].chunks = order
      /\ base'[c].memories = {m \in Memory : <<s, m>> \in sourced}
  BY <1>2 DEF NoHead
<1>4. Turns(s) # {}
  BY DEF Rebuild, Turns
<1> QED BY <1>1, <1>3, <1>4 DEF Rebuild, Begin, TypeOK

(* What WriteChunk makes of a base.                                         *)
LEMMA WriteChunkStep ==
  ASSUME TypeOK, LineageInv, NEW c \in Caller, WriteChunk(c)
  PROVE  /\ pc[c] = "write" /\ pc' = pc /\ sess' = sess /\ sess[c] \in Session
         /\ base'[c].version = base[c].version /\ base'[c].children = base[c].children
         /\ base'[c].memories = base[c].memories /\ base'[c].parented = base[c].parented
         /\ base'[c].chunks = Append(base[c].chunks, Len(written) + 1)
         /\ wrote'[c] = wrote[c] \union {Len(written) + 1}
         /\ UNCHANGED <<heads, indexed, sourced, created, scenes, answers>>
<1> DEFINE k == Len(written) + 1
           new == [base[c] EXCEPT !.chunks = Append(base[c].chunks, k)]
<1>1. /\ new.version = base[c].version /\ new.children = base[c].children
      /\ new.memories = base[c].memories /\ new.parented = base[c].parented
      /\ new.chunks = Append(base[c].chunks, k)
  <2>1. base[c] \in SessionHead
    BY DEF TypeOK
  <2> QED BY <2>1, Updated
<1>2. base' = [base EXCEPT ![c] = new]
  BY DEF WriteChunk
<1> HIDE DEF new
<1>3. base'[c] = new
  BY <1>2 DEF TypeOK
<1> QED BY <1>1, <1>3 DEF WriteChunk, NewChunk, TypeOK, LineageInv, LineageOK

(* What Adopt makes of a base.                                              *)
LEMMA AdoptStep ==
  ASSUME TypeOK, LineageInv, NEW c \in Caller, Adopt(c)
  PROVE  LET p == ParentOf[sess[c]]
         IN /\ pc[c] = "adopt" /\ p \in Session /\ sess[c] \in Session
            /\ UNCHANGED <<heads, indexed, storage, sourced, created, scenes, answers>>
            /\ \/ Return(c) /\ ~ Held(p)
               \/ /\ pc'[c] = (IF sess[c] \in heads[p].children THEN "settle" ELSE "adoptWrite")
                  /\ UNCHANGED <<sess, left, wrote, owed>> /\ Held(p)
                  /\ base'[c].version = heads[p].version
                  /\ base'[c].chunks = heads[p].chunks
                  /\ base'[c].children = heads[p].children \union {sess[c]}
                  /\ base'[c].memories = heads[p].memories
                  /\ base'[c].parented = heads[p].parented
<1> DEFINE p == ParentOf[sess[c]]
           new == [heads[p] EXCEPT !.children = heads[p].children \union {sess[c]}]
<1>1. p \in Session /\ sess[c] \in Session
  BY DEF Adopt, LineageInv, LineageOK
<1>2. /\ new.version = heads[p].version /\ new.chunks = heads[p].chunks
      /\ new.children = heads[p].children \union {sess[c]}
      /\ new.memories = heads[p].memories /\ new.parented = heads[p].parented
  <2>1. heads[p] \in SessionHead
    BY <1>1 DEF TypeOK
  <2> QED BY <2>1, Updated
<1>3. Held(p) => base' = [base EXCEPT ![c] = new]
  BY DEF Adopt
<1> HIDE DEF new
<1>4. Held(p) => base'[c] = new
  BY <1>3 DEF TypeOK
<1> QED BY <1>1, <1>2, <1>4 DEF Adopt, Goto, TypeOK

(* What Disown makes of a base.                                             *)
LEMMA DisownStep ==
  ASSUME TypeOK, LineageInv, NEW c \in Caller, Disown(c)
  PROVE  LET p == ParentOf[sess[c]]
         IN /\ pc[c] = "tombstone" /\ sess[c] \in Session
            /\ UNCHANGED <<heads, indexed, storage, sourced, sess, left, wrote, owed, created,
                           scenes, answers>>
            /\ \/ /\ pc'[c] = "unindex" /\ UNCHANGED base
                  /\ (base[c].parented /\ Held(p)) => sess[c] \notin heads[p].children
               \/ /\ pc'[c] = "disownWrite" /\ p \in Session /\ Held(p)
                  /\ base'[c].version = heads[p].version
                  /\ base'[c].chunks = heads[p].chunks
                  /\ base'[c].children = heads[p].children \ {sess[c]}
                  /\ base'[c].memories = heads[p].memories
                  /\ base'[c].parented = heads[p].parented
<1> DEFINE p == ParentOf[sess[c]]
           new == [heads[p] EXCEPT !.children = heads[p].children \ {sess[c]}]
           Goes == base[c].parented /\ Held(p) /\ sess[c] \in heads[p].children
<1>1. sess[c] \in Session /\ (base[c].parented => p \in Session)
  BY DEF Disown, LineageInv, LineageOK, Based, Owner
<1>2. CASE Goes
  <2>1. /\ new.version = heads[p].version /\ new.chunks = heads[p].chunks
        /\ new.children = heads[p].children \ {sess[c]}
        /\ new.memories = heads[p].memories /\ new.parented = heads[p].parented
    <3>1. heads[p] \in SessionHead
      BY <1>1, <1>2 DEF TypeOK
    <3> QED BY <3>1, Updated
  <2>2. base' = [base EXCEPT ![c] = new]
    BY <1>2 DEF Disown
  <2> HIDE DEF new
  <2>3. base'[c] = new
    BY <2>2 DEF TypeOK
  <2> QED BY <1>1, <1>2, <2>1, <2>3 DEF Disown, Goto, TypeOK
<1>3. CASE ~ Goes
  BY <1>1, <1>3 DEF Disown, Goto, TypeOK
<1> QED BY <1>2, <1>3

(* What Restore makes of a base.                                            *)
LEMMA RestoreStep ==
  ASSUME TypeOK, LineageInv, NEW c \in Caller, Restore(c)
  PROVE  /\ pc[c] = "restore" /\ pc'[c] = "rewrite" /\ sess[c] \in Session
         /\ base'[c].version = heads[sess[c]].version
         /\ base'[c].chunks = base[c].chunks /\ base'[c].children = base[c].children
         /\ base'[c].memories = base[c].memories /\ base'[c].parented = base[c].parented
         /\ UNCHANGED <<heads, indexed, storage, sourced, sess, left, wrote, owed, created,
                        scenes, answers>>
<1> DEFINE new == [base[c] EXCEPT !.version = heads[sess[c]].version]
<1>1. /\ new.version = heads[sess[c]].version /\ new.chunks = base[c].chunks
      /\ new.children = base[c].children
      /\ new.memories = base[c].memories /\ new.parented = base[c].parented
  <2>1. base[c] \in SessionHead
    BY DEF TypeOK
  <2> QED BY <2>1, Updated
<1>2. base' = [base EXCEPT ![c] = new]
  BY DEF Restore
<1> HIDE DEF new
<1>3. base'[c] = new
  BY <1>2 DEF TypeOK
<1> QED BY <1>1, <1>3 DEF Restore, Goto, TypeOK, LineageInv, LineageOK

-----------------------------------------------------------------------------
(* Chunks are only ever added, and what is condemned or rebuilt stays so.   *)
Grown ==
  /\ Len(written') \in Nat /\ Len(written) <= Len(written')
  /\ \A k \in 1..Len(written) : written'[k] = written[k]
  /\ condemned \subseteq condemned' /\ rebuilt \subseteq rebuilt'

(* No step takes back a chunk or what happened to its session.              *)
LEMMA StepGrows ==
  ASSUME TypeOK, LineageInv, [Next]_vars
  PROVE  Grown
<1>0. Len(written) \in Nat
  BY DEF TypeOK
<1>1. ASSUME NEW c \in Caller, WriteChunk(c) \/ WriteFails(c) PROVE Grown
  <2>1. sess[c] \in Session /\ NewChunk(c)
    BY <1>1 DEF WriteChunk, WriteFails, NewChunk, LineageInv, LineageOK
  <2>2. condemned' = condemned /\ rebuilt' = rebuilt
    BY <1>1 DEF WriteChunk, WriteFails, scenes
  <2>3. Len(written') = Len(written) + 1 /\ \A k \in 1..Len(written) : written'[k] = written[k]
    BY <2>1, NewChunkType
  <2> QED BY <1>0, <2>2, <2>3 DEF Grown
<1>2. ASSUME UNCHANGED written, condemned \subseteq condemned', rebuilt \subseteq rebuilt'
      PROVE  Grown
  BY <1>0, <1>2 DEF Grown
<1>3. ASSUME NEW c \in Caller, NEW s \in Session, Starts(c, s) PROVE Grown
  BY <1>2, <1>3 DEF Starts, Create, Extend, Forget, Link, Rebuild, storage
<1>4. ASSUME NEW c \in Caller, Reads(c) PROVE Grown
  BY <1>1, <1>2, <1>4 DEF Reads, Index, Adopt, Settle, Tombstone, Disown, Unindex, Check,
                          Restore, Reindex, Fail, storage, scenes
<1>5. ASSUME NEW c \in Caller, Writes(c) PROVE Grown
  BY <1>2, <1>5 DEF Writes, StoreHead, AdoptWrite, DisownWrite, LinkWrite, Rewrite, Drop,
                    storage, scenes
<1>6. CASE Flush \/ (\E s \in Session : DropHead(s)) \/ UNCHANGED vars
  BY <1>2, <1>6 DEF Flush, DropHead, vars, storage, scenes
<1> QED BY <1>3, <1>4, <1>5, <1>6, NextKinds

(* The chunks of a session are among those written.                         *)
LEMMA TurnType ==
  ASSUME TypeOK, NEW s, NEW k \in Turns(s)
  PROVE  k \in 1..Len(written) /\ written[k].session = s /\ written[k].seq \in Nat
<1>1. k \in 1..Len(written) /\ written[k].session = s
  BY DEF Turns
<1>2. written \in Seq([session : Session, seq : Nat])
  BY DEF TypeOK
<1>3. \A R : written \in Seq(R) => written[k] \in R
  BY <1>1
<1>4. written[k] \in [session : Session, seq : Nat]
  BY <1>2, <1>3
<1> QED BY <1>1, <1>4

(* A chunk of a session stays one, as it was written.                       *)
LEMMA TurnsGrow ==
  ASSUME Grown, NEW s, NEW k \in Turns(s)
  PROVE  k \in Turns(s)' /\ written'[k] = written[k]
BY DEF Grown, Turns

(* A transcript stays one as chunks are added.                              *)
LEMMA WholeKeeps ==
  ASSUME Grown, NEW s, NEW q \in Seq(Chunk), Whole(s, q)
  PROVE  Whole(s, q)'
<1>1. \A i \in DOMAIN q : q[i] \in Turns(s)' /\ written'[q[i]] = written[q[i]]
  BY TurnsGrow DEF Whole
<1>2. \A i \in DOMAIN q : \A j \in 1..i : j \in DOMAIN q
  OBVIOUS
<1> QED BY <1>1, <1>2 DEF Whole, Grown

(* A transcript in its places stays so as chunks are added.                 *)
LEMMA ByPlaceKeeps ==
  ASSUME Grown, NEW s, NEW q \in Seq(Chunk), Whole(s, q), ByPlace(s, q)
  PROVE  ByPlace(s, q)'
<1>1. \A i \in DOMAIN q : written'[q[i]] = written[q[i]]
  BY TurnsGrow DEF Whole
<1> QED BY <1>1 DEF ByPlace, Grown

(* A transcript of n chunks has n chunks numbered below n.                  *)
LEMMA CountOf ==
  ASSUME TypeOK, NEW s \in Session \ condemned, NEW q \in Seq(Chunk), Whole(s, q)
  PROVE  Len(q) <= Cardinality({j \in Turns(s) : written[j].seq < Len(q)})
<1> DEFINE n == Len(q)
           D == {j \in Turns(s) : written[j].seq < n}
<1>1. n \in Nat /\ DOMAIN q = 1..n
  OBVIOUS
<1>2. \A i \in 1..n : q[i] \in D
  <2> SUFFICES ASSUME NEW i \in 1..n PROVE q[i] \in Turns(s) /\ written[q[i]].seq < n
    OBVIOUS
  <2>1. q[i] \in Turns(s) /\ written[q[i]].seq < i /\ i <= n
    BY <1>1 DEF Whole
  <2>2. written[q[i]].seq \in Nat
    BY <2>1, TurnType
  <2> QED BY <1>1, <2>1, <2>2
<1>3. IsFiniteSet(D)
  <2>1. D \subseteq 1..Len(written) /\ Len(written) \in Nat
    BY DEF Turns, TypeOK
  <2>2. IsFiniteSet(1..Len(written))
    BY <2>1, FS_Interval
  <2> HIDE DEF D
  <2> QED BY <2>1, <2>2, FS_Subset
<1>4. \A i, j \in 1..n : i # j => q[i] # q[j]
  BY <1>1 DEF Whole
<1> HIDE DEF D, n
<1>5. q \in Injection(1..n, D)
  BY <1>1, <1>2, <1>4 DEF Injection, IsInjective
<1>6. Cardinality(1..n) <= Cardinality(D)
  BY <1>3, <1>5, FS_Injection
<1>7. Cardinality(1..n) = n
  BY <1>1, FS_Interval
<1> QED BY <1>6, <1>7 DEF D, n

(* A rebuild of a session that nobody forgets finds a transcript of it.     *)
LEMMA OrderIsWhole ==
  ASSUME TypeOK, NEW s \in Session, \A k \in 1..Len(written) : Backed(k), NEW q \in Orders(s)
  PROVE  Whole(s, q) /\ (s \notin condemned => Turns(s) \subseteq {q[i] : i \in DOMAIN q})
<1> DEFINE found == {k \in Turns(s) : Readable(k)}
           n == Cardinality(found)
<1>1. /\ q \in Seq(Chunk) /\ DOMAIN q = 1..n /\ n \in Nat
      /\ \A i \in DOMAIN q : q[i] \in found
      /\ \A k \in found : \E i \in DOMAIN q : q[i] = k
      /\ \A i, j \in DOMAIN q : i # j => q[i] # q[j]
      /\ \A i, j \in DOMAIN q : i < j => written[q[i]].seq <= written[q[j]].seq
  BY OrderOf
<1>2. \A i \in DOMAIN q : q[i] \in Turns(s) /\ written[q[i]].seq \in Nat
  BY <1>1, TurnType
<1>3. ASSUME s \notin condemned PROVE \A k \in Turns(s) : k \in found
  BY <1>3 DEF Backed, Turns, Readable
<1> HIDE DEF found, n
<1>4. ASSUME s \notin condemned, NEW i \in DOMAIN q PROVE written[q[i]].seq < i
  <2> DEFINE m == written[q[i]].seq
             D == {j \in Turns(s) : written[j].seq < m}
  <2>1. m <= Cardinality(D)
    <3>1. q[i] \in 1..Len(written) /\ written[q[i]].session = s
      BY <1>2 DEF Turns
    <3> QED BY <1>4, <3>1 DEF Backed
  <2>2. \A k \in D : \E j \in 1..(i - 1) : q[j] = k
    <3> SUFFICES ASSUME NEW k \in D PROVE \E j \in 1..(i - 1) : q[j] = k
      OBVIOUS
    <3>1. PICK j \in DOMAIN q : q[j] = k
      BY <1>1, <1>3, <1>4
    <3>2. ~ (i < j) /\ i # j
      BY <1>1, <1>2, <3>1
    <3> QED BY <1>1, <3>1, <3>2
  <2>3. i - 1 \in Nat /\ i \in Nat
    BY <1>1
  <2>4. Cardinality(D) <= i - 1
    <3> DEFINE P == {j \in 1..(i - 1) : q[j] \in D}
               f == [j \in P |-> q[j]]
    <3>1. f \in Surjection(P, D)
      BY <2>2 DEF Surjection
    <3>2. IsFiniteSet(1..(i - 1)) /\ Cardinality(1..(i - 1)) = i - 1
      BY <2>3, FS_Interval
    <3>3. P \in SUBSET (1..(i - 1))
      OBVIOUS
    <3> HIDE DEF P, f
    <3>4. IsFiniteSet(P) /\ Cardinality(P) <= i - 1
      BY <3>2, <3>3, FS_Subset
    <3> HIDE DEF D
    <3>5. IsFiniteSet(D) /\ Cardinality(D) <= Cardinality(P)
      BY <3>1, <3>4, FS_Surjection
    <3>6. Cardinality(D) \in Nat /\ Cardinality(P) \in Nat
      BY <3>4, <3>5, FS_CardinalityType
    <3> QED BY <2>3, <3>4, <3>5, <3>6
  <2>5. Cardinality(D) \in Nat
    <3>1. D \subseteq 1..Len(written) /\ Len(written) \in Nat
      BY DEF Turns, TypeOK
    <3>2. IsFiniteSet(1..Len(written))
      BY <3>1, FS_Interval
    <3> HIDE DEF D
    <3>3. IsFiniteSet(D)
      BY <3>1, <3>2, FS_Subset
    <3> QED BY <3>3, FS_CardinalityType
  <2>6. m \in Nat
    BY <1>2
  <2> HIDE DEF D, m
  <2>7. m < i
    BY <2>1, <2>3, <2>4, <2>5, <2>6
  <2> QED BY <2>7 DEF m
<1>5. \A i \in DOMAIN q : \A j \in 1..i : written[q[j]].seq <= written[q[i]].seq
  <2> SUFFICES ASSUME NEW i \in DOMAIN q, NEW j \in 1..i
               PROVE  written[q[j]].seq <= written[q[i]].seq
    OBVIOUS
  <2>1. j \in DOMAIN q /\ (j = i \/ j < i)
    BY <1>1
  <2> QED BY <1>1, <1>2, <2>1
<1> QED BY <1>1, <1>2, <1>3, <1>4, <1>5 DEF Whole

(* Only a forget takes chunks away, and only those of its session.          *)
Lasting ==
  \A k \in 1..Len(written) : written[k].session \notin condemned =>
    (k \in bodies => k \in bodies') /\ (k \in catalog => k \in catalog')

(* What can be read stays readable, but of a condemned session.             *)
LEMMA StepLasts ==
  ASSUME TypeOK, LineageInv, TranscriptInv, [Next]_vars
  PROVE  Lasting
<1>1. ASSUME NEW c \in Caller, Tombstone(c) PROVE Lasting
  <2> DEFINE i == Len(base[c].chunks) - left[c] + 1
  <2>1. /\ pc[c] = "tombstone" /\ left[c] > 0 /\ LineageOK(c) /\ TranscriptOK(c)
        /\ bodies' = bodies \ {base[c].chunks[i]} /\ catalog' = catalog \ {base[c].chunks[i]}
    BY <1>1 DEF Tombstone, LineageInv, TranscriptInv
  <2>2. base[c].chunks \in Seq(Chunk) /\ left[c] \in Nat /\ Len(base[c].chunks) \in Nat
    BY Fields DEF TypeOK
  <2>3. left[c] <= Len(base[c].chunks)
    BY <2>1 DEF LineageOK
  <2>4. i \in DOMAIN base[c].chunks
    BY <2>1, <2>2, <2>3
  <2>5. Whole(sess[c], base[c].chunks) /\ sess[c] \in condemned
    BY <2>1 DEF TranscriptOK, Owner, Based, Forgets
  <2>6. base[c].chunks[i] \in Turns(sess[c])
    BY <2>4, <2>5 DEF Whole
  <2> QED BY <2>1, <2>5, <2>6 DEF Lasting, Turns
<1>2. ASSUME bodies \subseteq bodies', catalog \subseteq catalog' PROVE Lasting
  BY <1>2 DEF Lasting
<1>3. ASSUME NEW c \in Caller, NEW s \in Session, Starts(c, s) PROVE Lasting
  BY <1>2, <1>3 DEF Starts, Create, Extend, Forget, Link, Rebuild, storage
<1>4. ASSUME NEW c \in Caller, Reads(c) PROVE Lasting
  <2>1. CASE WriteChunk(c) \/ WriteFails(c) \/ Settle(c)
    BY <1>2, <2>1 DEF WriteChunk, WriteFails, Settle, Flushed
  <2>2. CASE Index(c) \/ Adopt(c) \/ Disown(c) \/ Unindex(c) \/ Check(c) \/ Restore(c)
             \/ Reindex(c) \/ Fail(c)
    BY <1>2, <2>2 DEF Index, Adopt, Disown, Unindex, Check, Restore, Reindex, Fail, storage
  <2> QED BY <1>1, <1>4, <2>1, <2>2 DEF Reads
<1>5. ASSUME NEW c \in Caller, Writes(c) PROVE Lasting
  BY <1>2, <1>5 DEF Writes, StoreHead, AdoptWrite, DisownWrite, LinkWrite, Rewrite, Drop, storage
<1>6. CASE Flush \/ (\E s \in Session : DropHead(s)) \/ UNCHANGED vars
  BY <1>2, <1>6 DEF Flush, Flushed, DropHead, vars, storage
<1> QED BY <1>3, <1>4, <1>5, <1>6, NextKinds

(* A session never has fewer chunks of small numbers.                       *)
LEMMA MoreBefore ==
  ASSUME TypeOK, TypeOK', Grown, NEW s, NEW m
  PROVE  LET D == {j \in Turns(s) : written[j].seq < m}
         IN Cardinality(D) <= Cardinality(D') /\ Cardinality(D) \in Nat /\ Cardinality(D)' \in Nat
<1> DEFINE D == {j \in Turns(s) : written[j].seq < m}
<1>1. D \subseteq D'
  BY TurnsGrow
<1>2. IsFiniteSet(D')
  <2>1. D' \subseteq 1..Len(written') /\ Len(written') \in Nat
    BY DEF Turns, TypeOK
  <2>2. IsFiniteSet(1..Len(written'))
    BY <2>1, FS_Interval
  <2> HIDE DEF D
  <2> QED BY <2>1, <2>2, FS_Subset
<1> HIDE DEF D
<1>3. IsFiniteSet(D) /\ Cardinality(D) <= Cardinality(D')
  BY <1>1, <1>2, FS_Subset
<1>4. Cardinality(D) \in Nat /\ Cardinality(D') \in Nat
  BY <1>2, <1>3, FS_CardinalityType
<1> QED BY <1>3, <1>4 DEF D

(* A chunk stays backed.                                                    *)
LEMMA BackedStays ==
  ASSUME TypeOK, TypeOK', Grown, Lasting, NEW k \in 1..Len(written), Backed(k)
  PROVE  Backed(k)'
<1>1. written'[k] = written[k]
  BY DEF Grown
<1>2. written[k].seq \in Nat
  <2>1. k \in Turns(written[k].session)
    BY DEF Turns
  <2> QED BY <2>1, TurnType
<1>3. CASE written[k].session \in condemned
  BY <1>1, <1>3 DEF Backed, Grown
<1>4. CASE written[k].session \notin condemned
  <2>1. k \in bodies'
    BY <1>4 DEF Backed, Lasting
  <2>2. PICK s, m : s = written[k].session /\ m = written[k].seq
    OBVIOUS
  <2> DEFINE D == {j \in Turns(s) : written[j].seq < m}
  <2>3. m <= Cardinality(D)
    BY <1>4, <2>2 DEF Backed
  <2>4. Cardinality(D) <= Cardinality(D') /\ Cardinality(D) \in Nat /\ Cardinality(D)' \in Nat
    BY MoreBefore
  <2>5. m <= Cardinality(D')
    <3> HIDE DEF D
    <3> QED BY <1>2, <2>2, <2>3, <2>4
  <2> QED BY <1>1, <2>1, <2>2, <2>5 DEF Backed
<1> QED BY <1>3, <1>4

(* A chunk a save writes is backed by those it follows.                     *)
LEMMA NewIsBacked ==
  ASSUME TypeOK, TypeOK', LineageInv, TranscriptInv, Grown, NEW c \in Caller, NewChunk(c),
         bodies' = bodies \union {Len(written) + 1}, NEW new, new = Len(written) + 1
  PROVE  Backed(new)'
<1>1. /\ pc[c] = "write" /\ sess[c] \in Session /\ TranscriptOK(c)
      /\ base[c].chunks \in Seq(Chunk)
  BY Fields DEF NewChunk, LineageInv, LineageOK, TranscriptInv, TypeOK
<1>2. PICK s, m : s = sess[c] /\ m = Len(base[c].chunks)
  OBVIOUS
<1>3. written'[Len(written) + 1] = [session |-> s, seq |-> m] /\ m \in Nat
      /\ Len(written') = Len(written) + 1
  BY <1>1, <1>2, NewChunkType
<1> DEFINE D == {j \in Turns(s) : written[j].seq < m}
<1>5. s \notin condemned => m <= Cardinality(D)
  <2>1. Whole(s, base[c].chunks)
    BY <1>1, <1>2 DEF TranscriptOK, Owner, Based, Revising
  <2> QED BY <1>1, <1>2, <2>1, CountOf
<1>6. Cardinality(D) <= Cardinality(D') /\ Cardinality(D) \in Nat /\ Cardinality(D)' \in Nat
  BY MoreBefore
<1>7. s \notin condemned' => m <= Cardinality(D')
  <2> HIDE DEF D
  <2> QED BY <1>3, <1>5, <1>6 DEF Grown
<1>8. new \in bodies'
  OBVIOUS
<1>9. written'[new].session = s /\ written'[new].seq = m
  BY <1>3
<1> QED BY <1>7, <1>8, <1>9 DEF Backed

HeadWhole(s) ==
  Whole(s, heads[s].chunks) /\ (s \notin rebuilt => ByPlace(s, heads[s].chunks))

(* A head that is not written is as it was.                                 *)
LEMMA HeadStays ==
  ASSUME TypeOK, Grown, NEW s \in Session, HeadWhole(s), heads'[s].chunks = heads[s].chunks
  PROVE  HeadWhole(s)'
<1>1. PICK q : q = heads[s].chunks
  OBVIOUS
<1>2. q \in Seq(Chunk) /\ Whole(s, q) /\ (s \notin rebuilt => ByPlace(s, q))
  BY <1>1, Fields DEF HeadWhole, TypeOK
<1>3. Whole(s, q)' /\ (s \notin rebuilt' => ByPlace(s, q)')
  BY <1>2, WholeKeeps, ByPlaceKeeps DEF Grown
<1> QED BY <1>1, <1>3 DEF HeadWhole

(* The empty transcript is one of every session.                            *)
LEMMA NoTranscript == \A s : Whole(s, <<>>) /\ ByPlace(s, <<>>)
BY DEF Whole, ByPlace

(* A call whose base is a transcript of its session keeps it.               *)
LEMMA BaseStays ==
  ASSUME Grown, NEW c \in Caller, NEW s, NEW q \in Seq(Chunk),
         Whole(s, q), Owner(c)' = s, base'[c].chunks = q,
         (pc'[c] \notin Remaking /\ s \notin rebuilt) => ByPlace(s, q)
  PROVE  /\ Whole(Owner(c), base[c].chunks)'
         /\ (pc'[c] \notin Remaking /\ Owner(c)' \notin rebuilt') =>
              ByPlace(Owner(c), base[c].chunks)'
<1>1. Whole(s, q)'
  BY WholeKeeps
<1>2. (pc'[c] \notin Remaking /\ s \notin rebuilt') => ByPlace(s, q)'
  BY ByPlaceKeeps DEF Grown
<1> QED BY <1>1, <1>2

(* What a call wrote stays what it wrote.                                   *)
LEMMA WroteStays ==
  ASSUME TypeOK, TranscriptInv, Grown, Lasting, NEW c \in Caller,
         sess'[c] = sess[c], wrote'[c] = wrote[c], owed'[c] = owed[c]
  PROVE  /\ wrote'[c] \subseteq Turns(sess[c])'
         /\ sess'[c] \notin condemned' => wrote'[c] \ owed'[c] \subseteq catalog'
<1>1. PICK s : s = sess[c]
  OBVIOUS
<1>2. wrote[c] \subseteq Turns(s) /\ (s \notin condemned => wrote[c] \ owed[c] \subseteq catalog)
  BY <1>1 DEF TranscriptInv, TranscriptOK
<1>3. wrote[c] \subseteq Turns(s)'
  BY <1>2, TurnsGrow
<1>4. s \notin condemned' => wrote[c] \ owed[c] \subseteq catalog'
  BY <1>2, TurnType DEF Grown, Lasting
<1> QED BY <1>1, <1>3, <1>4

(* A call that does not move keeps its part of the invariant.               *)
LEMMA TranscriptStays ==
  ASSUME TypeOK, TranscriptInv, Grown, Lasting, NEW e \in Caller,
         pc'[e] = pc[e], sess'[e] = sess[e], base'[e] = base[e],
         wrote'[e] = wrote[e], owed'[e] = owed[e]
  PROVE  TranscriptOK(e)'
<1>1. base[e].chunks \in Seq(Chunk) /\ TranscriptOK(e)
  BY Fields DEF TypeOK, TranscriptInv
<1>2. Owner(e)' = Owner(e)
  BY DEF Owner
<1>3. PICK s, q : s = Owner(e) /\ q = base[e].chunks
  OBVIOUS
<1>4. pc[e] \in Based =>
        /\ Whole(Owner(e), base[e].chunks)'
        /\ (pc'[e] \notin Remaking /\ Owner(e)' \notin rebuilt') =>
             ByPlace(Owner(e), base[e].chunks)'
  BY <1>1, <1>2, <1>3, BaseStays DEF TranscriptOK
<1> QED BY <1>1, <1>4, WroteStays DEF TranscriptOK, Grown

(* What is written is counted.                                              *)
LEMMA ChunksExist ==
  ASSUME TypeOK, TypeOK', LineageInv, TranscriptInv, Grown, [Next]_vars
  PROVE  queued' \union catalog' \union acked' \union networked' \subseteq 1..Len(written')
<1> DEFINE K == 1..Len(written)
           new == Len(written) + 1
<1>0. /\ K \subseteq 1..Len(written')
      /\ queued \subseteq K /\ catalog \subseteq K /\ acked \subseteq K /\ networked \subseteq K
      /\ \A c \in Caller : wrote[c] \subseteq K
  <2>1. \A c \in Caller : wrote[c] \subseteq K
    BY TurnType DEF TranscriptInv, TranscriptOK
  <2>2. Len(written) \in Nat
    BY DEF TypeOK
  <2>3. K \subseteq 1..Len(written')
    BY <2>2 DEF Grown
  <2> QED BY <2>1, <2>3 DEF TranscriptInv
<1>1. ASSUME queued' \union catalog' \union acked' \union networked' \subseteq
               queued \union catalog \union acked \union networked
      PROVE  queued' \union catalog' \union acked' \union networked' \subseteq 1..Len(written')
  BY <1>0, <1>1
<1>2. ASSUME NEW c \in Caller, WriteChunk(c) \/ WriteFails(c)
      PROVE  queued' \union catalog' \union acked' \union networked' \subseteq 1..Len(written')
  <2>1. NewChunk(c) /\ sess[c] \in Session
    BY <1>2 DEF WriteChunk, WriteFails, NewChunk, LineageInv, LineageOK
  <2>2. new \in 1..Len(written')
    <3>1. Len(written') = Len(written) + 1
      BY <2>1, NewChunkType
    <3>2. Len(written) \in Nat
      BY DEF TypeOK
    <3> QED BY <3>1, <3>2
  <2>3. /\ queued' \subseteq queued \union {new}
        /\ catalog' \subseteq catalog \union queued \union {new}
        /\ acked' = acked /\ networked' = networked
    BY <1>2 DEF WriteChunk, WriteFails, answers
  <2> HIDE DEF K, new
  <2> QED BY <1>0, <2>2, <2>3
<1>3. ASSUME NEW c \in Caller, Settle(c)
      PROVE  queued' \union catalog' \union acked' \union networked' \subseteq 1..Len(written')
  <2>1. /\ queued' \subseteq queued /\ catalog' \subseteq catalog \union queued
        /\ acked' = acked \union wrote[c] /\ networked' \subseteq networked \union wrote[c]
    BY <1>3 DEF Settle, Flushed
  <2> HIDE DEF K
  <2> QED BY <1>0, <2>1
<1> HIDE DEF K, new
<1>4. ASSUME NEW c \in Caller, NEW s \in Session, Starts(c, s)
      PROVE  queued' \union catalog' \union acked' \union networked' \subseteq 1..Len(written')
  BY <1>1, <1>4 DEF Starts, Create, Extend, Forget, Link, Rebuild, storage, answers
<1>5. ASSUME NEW c \in Caller, Reads(c)
      PROVE  queued' \union catalog' \union acked' \union networked' \subseteq 1..Len(written')
  <2>1. CASE Index(c) \/ Adopt(c) \/ Tombstone(c) \/ Disown(c) \/ Unindex(c) \/ Check(c)
             \/ Restore(c) \/ Reindex(c) \/ Fail(c)
    BY <1>1, <2>1 DEF Index, Adopt, Tombstone, Disown, Unindex, Check, Restore, Reindex, Fail,
                      storage, answers
  <2> QED BY <1>2, <1>3, <1>5, <2>1 DEF Reads
<1>6. ASSUME NEW c \in Caller, Writes(c)
      PROVE  queued' \union catalog' \union acked' \union networked' \subseteq 1..Len(written')
  BY <1>1, <1>6 DEF Writes, StoreHead, AdoptWrite, DisownWrite, LinkWrite, Rewrite, Drop,
                    storage, answers
<1>7. CASE Flush \/ (\E s \in Session : DropHead(s)) \/ UNCHANGED vars
  BY <1>1, <1>7 DEF Flush, Flushed, DropHead, vars, storage, answers
<1> QED BY <1>4, <1>5, <1>6, <1>7, NextKinds

(* The chunks' part of the invariant is kept.                               *)
LEMMA ChunksStep ==
  ASSUME TypeOK, TypeOK', LineageInv, TranscriptInv, Grown, Lasting, [Next]_vars
  PROVE  \A k \in 1..Len(written') : Backed(k)'
<1>1. \A k \in 1..Len(written) : Backed(k)'
  BY BackedStays DEF TranscriptInv
<1>2. ASSUME UNCHANGED written PROVE \A k \in 1..Len(written') : Backed(k)'
  BY <1>1, <1>2
<1>3. ASSUME NEW c \in Caller, WriteChunk(c) \/ WriteFails(c)
      PROVE  \A k \in 1..Len(written') : Backed(k)'
  <2>1. NewChunk(c) /\ bodies' = bodies \union {Len(written) + 1} /\ sess[c] \in Session
    BY <1>3 DEF WriteChunk, WriteFails, NewChunk, LineageInv, LineageOK
  <2>2. Len(written') = Len(written) + 1
    BY <2>1, NewChunkType
  <2>3. Len(written) \in Nat
    BY DEF TypeOK
  <2>4. \A k : k = Len(written) + 1 => Backed(k)'
    BY <2>1, NewIsBacked
  <2>5. \A k \in 1..Len(written') : k \in 1..Len(written) \/ k = Len(written) + 1
    BY <2>2, <2>3
  <2> QED BY <1>1, <2>4, <2>5
<1>4. ASSUME NEW c \in Caller, NEW s \in Session, Starts(c, s) PROVE UNCHANGED written
  BY <1>4 DEF Starts, Create, Extend, Forget, Link, Rebuild, storage
<1>5. ASSUME NEW c \in Caller, Reads(c)
      PROVE  UNCHANGED written \/ WriteChunk(c) \/ WriteFails(c)
  BY <1>5 DEF Reads, Index, Adopt, Settle, Tombstone, Disown, Unindex, Check, Restore, Reindex,
              Fail, storage
<1>6. ASSUME NEW c \in Caller, Writes(c) PROVE UNCHANGED written
  BY <1>6 DEF Writes, StoreHead, AdoptWrite, DisownWrite, LinkWrite, Rewrite, Drop, storage
<1>7. CASE Flush \/ (\E s \in Session : DropHead(s)) \/ UNCHANGED vars
  BY <1>2, <1>7 DEF Flush, DropHead, vars, storage
<1> QED BY <1>2, <1>3, <1>4, <1>5, <1>6, <1>7, NextKinds

(* What is put over a head is a transcript of its session.                  *)
LEMMA HeadPut ==
  ASSUME TypeOK, TranscriptInv, Grown, NEW c \in Caller, NEW t \in Session, Put(t, base[c]),
         Whole(t, base[c].chunks), t \notin rebuilt' => ByPlace(t, base[c].chunks)
  PROVE  \A s \in Session : HeadWhole(s)'
<1>1. base[c] \in SessionHead /\ base[c].chunks \in Seq(Chunk)
  BY Fields DEF TypeOK
<1>2. /\ \A s \in Session \ {t} : heads'[s] = heads[s]
      /\ heads'[t].chunks = base[c].chunks
  BY <1>1, PutHead
<1>3. \A s \in Session \ {t} : HeadWhole(s)'
  BY <1>2, HeadStays DEF TranscriptInv, HeadWhole
<1>4. PICK q : q = base[c].chunks
  OBVIOUS
<1>5. Whole(t, q)' /\ (t \notin rebuilt' => ByPlace(t, q)')
  BY <1>1, <1>4, WholeKeeps, ByPlaceKeeps
<1>6. HeadWhole(t)'
  BY <1>2, <1>4, <1>5 DEF HeadWhole
<1> QED BY <1>3, <1>6

(* The heads' part of the invariant is kept.                                *)
LEMMA HeadsStep ==
  ASSUME TypeOK, LineageInv, TranscriptInv, Grown, [Next]_vars
  PROVE  \A s \in Session : HeadWhole(s)'
<1>1. ASSUME heads' = heads PROVE \A s \in Session : HeadWhole(s)'
  BY <1>1, HeadStays DEF TranscriptInv, HeadWhole
<1>2. ASSUME NEW t \in Session, heads' = [heads EXCEPT ![t] = NoHead]
      PROVE  \A s \in Session : HeadWhole(s)'
  <2>1. \A s \in Session \ {t} : HeadWhole(s)'
    BY <1>2, HeadStays DEF TranscriptInv, HeadWhole, TypeOK
  <2>2. heads'[t].chunks = <<>>
    BY <1>2, NoHeadIsHead DEF TypeOK
  <2>3. PICK q : q = <<>>
    OBVIOUS
  <2>4. q \in Seq(Chunk) /\ Whole(t, q) /\ ByPlace(t, q)
    BY <2>3, NoTranscript
  <2>5. Whole(t, q)' /\ ByPlace(t, q)'
    BY <2>4, WholeKeeps, ByPlaceKeeps
  <2>6. HeadWhole(t)'
    BY <2>2, <2>3, <2>5 DEF HeadWhole
  <2> QED BY <2>1, <2>6
<1>3. ASSUME NEW c \in Caller, Writes(c) PROVE \A s \in Session : HeadWhole(s)'
  <2>1. TranscriptOK(c) /\ LineageOK(c)
    BY DEF TranscriptInv, LineageInv
  <2>2. CASE StoreHead(c) \/ LinkWrite(c)
    <3>1. /\ pc[c] \in Based \ Remaking /\ Owner(c) = sess[c] /\ sess[c] \in Session
          /\ rebuilt' = rebuilt
          /\ heads' = heads \/ Put(sess[c], base[c])
      BY <2>1, <2>2 DEF StoreHead, LinkWrite, scenes, Based, Revising, Remaking, Owner, LineageOK
    <3> QED BY <1>1, <2>1, <3>1, HeadPut DEF TranscriptOK
  <2>3. CASE AdoptWrite(c) \/ DisownWrite(c)
    <3>1. /\ pc[c] \in Based \ Remaking /\ Owner(c) = ParentOf[sess[c]] /\ ParentOf[sess[c]] \in Session
          /\ rebuilt' = rebuilt
          /\ heads' = heads \/ Put(ParentOf[sess[c]], base[c])
      BY <2>1, <2>3 DEF AdoptWrite, DisownWrite, scenes, Based, Revising, Remaking, Owner, LineageOK
    <3> QED BY <1>1, <2>1, <3>1, HeadPut DEF TranscriptOK
  <2>4. CASE Rewrite(c)
    <3>1. /\ pc[c] \in Based /\ Owner(c) = sess[c] /\ sess[c] \in Session
          /\ heads' = heads \/ (Put(sess[c], base[c]) /\ sess[c] \in rebuilt')
      BY <2>1, <2>4 DEF Rewrite, Based, Revising, Remaking, Owner, LineageOK
    <3> QED BY <1>1, <2>1, <3>1, HeadPut DEF TranscriptOK
  <2>5. CASE Drop(c)
    BY <1>2, <2>1, <2>5 DEF Drop, LineageOK
  <2> QED BY <1>3, <2>2, <2>3, <2>4, <2>5 DEF Writes
<1>4. ASSUME NEW c \in Caller, NEW s \in Session, Starts(c, s) PROVE heads' = heads
  BY <1>4 DEF Starts, Create, Extend, Forget, Link, Rebuild
<1>5. ASSUME NEW c \in Caller, Reads(c) PROVE heads' = heads
  BY <1>5 DEF Reads, WriteChunk, WriteFails, Index, Adopt, Settle, Tombstone, Disown, Unindex,
              Check, Restore, Reindex, Fail
<1>6. ASSUME NEW s \in Session, DropHead(s) PROVE \A t \in Session : HeadWhole(t)'
  BY <1>2, <1>6 DEF DropHead
<1>7. CASE Flush \/ UNCHANGED vars
  BY <1>1, <1>7 DEF Flush, vars
<1> QED BY <1>1, <1>3, <1>4, <1>5, <1>6, <1>7, NextKinds

(* A call that has returned holds nothing.                                  *)
LEMMA ReturnOK ==
  ASSUME TypeOK, NEW c \in Caller, Return(c)
  PROVE  TranscriptOK(c)'
BY DEF Return, Goto, TypeOK, TranscriptOK, Forgets, Based, Revising, Remaking

(* A call that goes on holds a transcript of the session whose head it has. *)
LEMMA HoldsOK ==
  ASSUME TypeOK, TranscriptInv, Grown, Lasting, NEW c \in Caller, NEW s, NEW q \in Seq(Chunk),
         pc'[c] # "idle", pc'[c] \in Forgets => sess'[c] \in condemned',
         wrote'[c] = {} \/ (sess'[c] = sess[c] /\ wrote'[c] = wrote[c] /\ owed'[c] = owed[c]),
         pc'[c] \in Based =>
           /\ Owner(c)' = s /\ base'[c].chunks = q /\ Whole(s, q)
           /\ (pc'[c] \notin Remaking /\ s \notin rebuilt) => ByPlace(s, q)
  PROVE  TranscriptOK(c)'
<1>1. /\ wrote'[c] \subseteq Turns(sess[c])'
      /\ sess'[c] \notin condemned' => wrote'[c] \ owed'[c] \subseteq catalog'
  BY WroteStays
<1>2. pc'[c] \in Based =>
        /\ Whole(Owner(c), base[c].chunks)'
        /\ (pc'[c] \notin Remaking /\ Owner(c)' \notin rebuilt') =>
             ByPlace(Owner(c), base[c].chunks)'
  BY BaseStays
<1> QED BY <1>1, <1>2 DEF TranscriptOK

(* A call that begins holds its part of the invariant.                      *)
LEMMA StartOK ==
  ASSUME TypeOK, LineageInv, TranscriptInv, Grown, Lasting, NEW c \in Caller, NEW s \in Session,
         Starts(c, s)
  PROVE  TranscriptOK(c)'
<1> USE DEF Based, Revising, Remaking, Forgets
<1>0. /\ heads[s] \in SessionHead /\ heads[s].chunks \in Seq(Chunk)
      /\ HeadWhole(s) /\ TranscriptOK(c)
  BY Fields DEF TypeOK, TranscriptInv, HeadWhole
<1>1. wrote' = wrote /\ pc[c] = "idle" /\ wrote'[c] = {}
  BY <1>0 DEF Starts, Create, Extend, Forget, Link, Rebuild, Begin, TranscriptOK
<1>2. PICK h : h = heads[s].chunks
  OBVIOUS
<1>3. h \in Seq(Chunk) /\ Whole(s, h) /\ (s \notin rebuilt => ByPlace(s, h))
  BY <1>0, <1>2 DEF HeadWhole
<1>4. ASSUME NEW n \in 0..MaxGroups, Create(c, s, n) PROVE TranscriptOK(c)'
  <2>1. PICK q : q = <<>>
    OBVIOUS
  <2>2. q \in Seq(Chunk) /\ Whole(s, q) /\ ByPlace(s, q)
    BY <2>1, NoTranscript
  <2>3. n \in Nat
    BY BoundAssumption
  <2>4. pc'[c] = "write" /\ Owner(c)' = s /\ base'[c].chunks = q
    BY <1>4, <2>1, <2>3, CreateStep DEF Owner
  <2> QED BY <1>1, <2>2, <2>4, HoldsOK
<1>5. ASSUME NEW n \in 0..MaxGroups, Extend(c, s, n) PROVE TranscriptOK(c)'
  <2>1. pc'[c] = "write" /\ Owner(c)' = s /\ base'[c].chunks = h
    BY <1>2, <1>5 DEF Extend, Begin, Owner, TypeOK
  <2> QED BY <1>1, <1>3, <2>1, HoldsOK
<1>6. ASSUME Forget(c, s) PROVE TranscriptOK(c)'
  <2>1. /\ pc'[c] = "tombstone" /\ Owner(c)' = s /\ base'[c].chunks = h
        /\ sess'[c] \in condemned'
    BY <1>2, <1>6 DEF Forget, Begin, Owner, TypeOK
  <2> QED BY <1>1, <1>3, <2>1, HoldsOK
<1>7. ASSUME NEW m \in Memory, Link(c, s, m) PROVE TranscriptOK(c)'
  <2>1. pc'[c] = "link" /\ Owner(c)' = s /\ base'[c].chunks = h
    BY <1>2, <1>7, LinkStep DEF Owner
  <2> QED BY <1>1, <1>3, <2>1, HoldsOK
<1>8. ASSUME Rebuild(c, s) PROVE TranscriptOK(c)'
  <2>1. PICK q : q = base'[c].chunks
    OBVIOUS
  <2>2. pc'[c] = "check" /\ Owner(c)' = s /\ q \in Orders(s)
    BY <1>8, <2>1, RebuildStep DEF Owner
  <2>3. q \in Seq(Chunk)
    BY <2>2, OrderOf
  <2>4. Whole(s, q)
    BY <2>2, OrderIsWhole DEF TranscriptInv
  <2> QED BY <1>1, <2>1, <2>2, <2>3, <2>4, HoldsOK
<1> QED BY <1>4, <1>5, <1>6, <1>7, <1>8 DEF Starts

(* A save that writes a chunk holds its part of the invariant.              *)
LEMMA WriteChunkOK ==
  ASSUME TypeOK, TypeOK', LineageInv, TranscriptInv, Grown, Lasting, NEW c \in Caller,
         WriteChunk(c)
  PROVE  TranscriptOK(c)'
<1> DEFINE new == Len(written) + 1
<1>1. PICK s, q, k, r : s = sess[c] /\ q = base[c].chunks /\ k = new /\ r = Append(q, k)
  OBVIOUS
<1>2. /\ pc[c] = "write" /\ pc'[c] = "write" /\ s \in Session /\ sess'[c] = s
      /\ base'[c].chunks = r /\ wrote'[c] = wrote[c] \union {k}
      /\ condemned' = condemned /\ rebuilt' = rebuilt
  BY <1>1, WriteChunkStep DEF scenes
<1>3. q \in Seq(Chunk) /\ TranscriptOK(c)
  BY <1>1, Fields DEF TypeOK, TranscriptInv
<1>4. Whole(s, q) /\ (s \notin rebuilt => ByPlace(s, q)) /\ wrote[c] \subseteq Turns(s)
      /\ (s \notin condemned => wrote[c] \ owed[c] \subseteq catalog)
  BY <1>1, <1>2, <1>3 DEF TranscriptOK, Owner, Based, Revising, Remaking
<1>5. Whole(s, q)' /\ (s \notin rebuilt => ByPlace(s, q)')
  BY <1>3, <1>4, WholeKeeps, ByPlaceKeeps
<1>6. /\ NewChunk(c) /\ Len(written') = Len(written) + 1 /\ Len(written) \in Nat
      /\ written'[k] = [session |-> s, seq |-> Len(q)] /\ k \in Chunk
  <2>1. NewChunk(c) /\ sess[c] \in Session
    BY <1>1, <1>2 DEF WriteChunk
  <2>2. Len(written) \in Nat
    BY DEF TypeOK
  <2> QED BY <1>1, <2>1, <2>2, NewChunkType
<1>7. k \in Turns(s)'
  BY <1>1, <1>6 DEF Turns
<1>8. /\ r \in Seq(Chunk) /\ DOMAIN r = 1..(Len(q) + 1) /\ DOMAIN q = 1..Len(q)
      /\ Len(q) \in Nat /\ r[Len(q) + 1] = k /\ \A i \in 1..Len(q) : r[i] = q[i]
  BY <1>1, <1>3, <1>6
<1>9. \A i \in DOMAIN r : i \in 1..Len(q) \/ i = Len(q) + 1
  BY <1>8
<1>10. \A i \in 1..Len(q) : q[i] # k
  <2>1. \A i \in 1..Len(q) : q[i] \in 1..Len(written)
    BY <1>4, <1>8 DEF Whole, Turns
  <2> QED BY <1>1, <1>6, <2>1
<1>11. \A i \in 1..Len(q) : q[i] \in Turns(s)' /\ written'[q[i]].seq \in Nat
  <2>1. \A i \in 1..Len(q) : q[i] \in Turns(s)'
    BY <1>5, <1>8 DEF Whole
  <2>2. \A x \in Turns(s)' : written'[x].seq \in Nat
    <3>1. \A x \in Turns(s)' : x \in 1..Len(written')
      BY DEF Turns
    <3>2. written' \in Seq([session : Session, seq : Nat])
      BY DEF TypeOK
    <3>3. \A R : written' \in Seq(R) => \A x \in 1..Len(written') : written'[x] \in R
      OBVIOUS
    <3>4. \A x \in 1..Len(written') : written'[x] \in [session : Session, seq : Nat]
      BY <3>2, <3>3
    <3>5. \A r1 \in [session : Session, seq : Nat] : r1.seq \in Nat
      OBVIOUS
    <3> QED BY <3>1, <3>4, <3>5
  <2> QED BY <2>1, <2>2
<1>12. Whole(s, r)'
  <2>1. \A i \in DOMAIN r : r[i] \in Turns(s)'
    BY <1>7, <1>8, <1>9, <1>11
  <2>2. \A i, j \in DOMAIN r : i # j => r[i] # r[j]
    <3>1. \A i, j \in 1..Len(q) : i # j => q[i] # q[j]
      BY <1>4, <1>8 DEF Whole
    <3> QED BY <1>8, <1>9, <1>10, <3>1
  <2>3. ASSUME s \notin condemned', NEW i \in DOMAIN r
        PROVE  /\ written'[r[i]].seq < i
               /\ \A j \in 1..i : written'[r[j]].seq <= written'[r[i]].seq
    <3>1. \A x \in 1..Len(q) :
            /\ written'[q[x]].seq < x
            /\ \A j \in 1..x : written'[q[j]].seq <= written'[q[x]].seq
      BY <1>5, <1>8, <2>3 DEF Whole
    <3>2. CASE i \in 1..Len(q)
      <4>1. \A j \in 1..i : j \in 1..Len(q)
        BY <1>8, <3>2
      <4> QED BY <1>8, <3>1, <3>2, <4>1
    <3>3. CASE i = Len(q) + 1
      <4>1. written'[r[i]].seq = Len(q)
        BY <1>6, <1>8, <3>3
      <4>2. \A j \in 1..i : j \in 1..Len(q) \/ j = i
        BY <1>8, <3>3
      <4>3. \A j \in 1..Len(q) : written'[r[j]].seq <= Len(q)
        BY <1>8, <1>11, <3>1
      <4> QED BY <1>8, <3>3, <4>1, <4>2, <4>3
    <3> QED BY <1>9, <3>2, <3>3
  <2> QED BY <2>1, <2>2, <2>3 DEF Whole
<1>13. s \notin rebuilt => ByPlace(s, r)'
  <2> SUFFICES ASSUME s \notin rebuilt, s \notin condemned', NEW i \in DOMAIN r
               PROVE  written'[r[i]].seq = i - 1
    BY DEF ByPlace
  <2>1. CASE i \in 1..Len(q)
    BY <1>5, <1>8, <2>1 DEF ByPlace
  <2>2. CASE i = Len(q) + 1
    BY <1>6, <1>8, <2>2
  <2> QED BY <1>9, <2>1, <2>2
<1>14. wrote'[c] \subseteq Turns(s)'
  BY <1>2, <1>4, <1>7, TurnsGrow
<1>15. s \notin condemned => wrote'[c] \ owed'[c] \subseteq catalog'
  <2>1. PICK batch : /\ catalog' = catalog \union batch
                     /\ owed'[c] = (owed[c] \union {k}) \ batch
    BY <1>1 DEF WriteChunk, TypeOK
  <2> QED BY <1>2, <1>4, <2>1
<1>16. Owner(c)' = s
  BY <1>2 DEF Owner
<1> QED BY <1>2, <1>12, <1>13, <1>14, <1>15, <1>16 DEF TranscriptOK, Forgets

(* A call that reads holds its part of the invariant.                       *)
LEMMA ReadOK ==
  ASSUME TypeOK, TypeOK', LineageInv, TranscriptInv, Grown, Lasting, NEW c \in Caller, Reads(c)
  PROVE  TranscriptOK(c)'
<1> USE DEF Based, Revising, Remaking, Forgets
<1>0. /\ TranscriptOK(c) /\ LineageOK(c) /\ base[c].chunks \in Seq(Chunk)
      /\ \A t \in Session : heads[t].chunks \in Seq(Chunk) /\ HeadWhole(t)
  BY Fields DEF TypeOK, LineageInv, TranscriptInv, HeadWhole
<1>1. PICK s, q : s = sess[c] /\ q = base[c].chunks
  OBVIOUS
<1>2. CASE WriteFails(c) \/ Settle(c) \/ Reindex(c) \/ Fail(c)
  BY <1>2, ReturnOK DEF WriteFails, Settle, Reindex, Fail
<1>3. CASE Index(c) \/ Unindex(c) \/ Check(c) \/ Tombstone(c)
  <2>1. CASE Index(c)
    <3>1. /\ pc[c] = "index" /\ pc'[c] \in {"adopt", "settle"} /\ UNCHANGED <<sess, base, wrote, owed>>
      BY <2>1 DEF Index, Goto, TypeOK
    <3> QED BY <1>0, <1>1, <3>1, HoldsOK DEF TranscriptOK, Owner
  <2>2. CASE Unindex(c)
    <3>1. /\ pc[c] = "unindex" /\ pc'[c] = "drop" /\ UNCHANGED <<sess, base, wrote, owed, condemned>>
      BY <2>2 DEF Unindex, Goto, TypeOK, scenes
    <3> QED BY <1>0, <1>1, <3>1, HoldsOK DEF TranscriptOK
  <2>3. CASE Check(c) /\ ~ Return(c)
    <3>1. /\ pc[c] = "check" /\ pc'[c] = "restore" /\ UNCHANGED <<sess, base, wrote, owed>>
      BY <2>3 DEF Check, Goto, TypeOK
    <3> QED BY <1>0, <1>1, <3>1, HoldsOK DEF TranscriptOK, Owner
  <2>4. CASE Tombstone(c)
    <3>1. /\ pc[c] = "tombstone" /\ UNCHANGED <<pc, sess, base, wrote, owed, condemned>>
      BY <2>4 DEF Tombstone, scenes
    <3> QED BY <1>0, <1>1, <3>1, HoldsOK DEF TranscriptOK, Owner
  <2> QED BY <1>3, <2>1, <2>2, <2>3, <2>4, ReturnOK
<1>4. CASE Adopt(c)
  <2>1. PICK p, h : p = ParentOf[sess[c]] /\ h = heads[p].chunks
    OBVIOUS
  <2>2. CASE Return(c)
    BY <2>2, ReturnOK
  <2>3. CASE ~ Return(c)
    <3>1. /\ pc[c] = "adopt" /\ p \in Session /\ UNCHANGED <<sess, wrote, owed>>
          /\ pc'[c] \in {"settle", "adoptWrite"} /\ base'[c].chunks = h
      BY <1>4, <2>1, <2>3, AdoptStep
    <3>2. pc'[c] \in Based => Owner(c)' = p
      BY <2>1, <3>1 DEF Owner
    <3>3. h \in Seq(Chunk) /\ Whole(p, h) /\ (p \notin rebuilt => ByPlace(p, h))
      BY <1>0, <2>1, <3>1 DEF HeadWhole
    <3> QED BY <3>1, <3>2, <3>3, HoldsOK
  <2> QED BY <2>2, <2>3
<1>5. CASE Disown(c)
  <2>1. PICK p, h : p = ParentOf[sess[c]] /\ h = heads[p].chunks
    OBVIOUS
  <2>2. pc[c] = "tombstone" /\ UNCHANGED <<sess, wrote, owed, condemned>> /\ sess[c] \in condemned
    BY <1>0, <1>5, DisownStep DEF TranscriptOK, scenes
  <2>3. CASE pc'[c] = "unindex"
    BY <1>0, <2>2, <2>3, HoldsOK
  <2>4. CASE pc'[c] # "unindex"
    <3>1. pc'[c] = "disownWrite" /\ p \in Session /\ base'[c].chunks = h
      BY <1>5, <2>1, <2>4, DisownStep
    <3>2. Owner(c)' = p
      BY <2>1, <2>2, <3>1 DEF Owner
    <3>3. h \in Seq(Chunk) /\ Whole(p, h) /\ (p \notin rebuilt => ByPlace(p, h))
      BY <1>0, <2>1, <3>1 DEF HeadWhole
    <3> QED BY <2>2, <3>1, <3>2, <3>3, HoldsOK
  <2> QED BY <2>3, <2>4
<1>6. CASE Restore(c)
  <2>1. /\ pc[c] = "restore" /\ pc'[c] = "rewrite" /\ base'[c].chunks = q
        /\ UNCHANGED <<sess, wrote, owed>>
    BY <1>1, <1>6, RestoreStep
  <2> QED BY <1>0, <1>1, <2>1, HoldsOK DEF TranscriptOK, Owner
<1> QED BY <1>2, <1>3, <1>4, <1>5, <1>6, WriteChunkOK DEF Reads

(* A call that writes a head holds its part of the invariant.               *)
LEMMA WriteOK ==
  ASSUME TypeOK, LineageInv, TranscriptInv, Grown, Lasting, NEW c \in Caller, Writes(c)
  PROVE  TranscriptOK(c)'
<1> USE DEF Based, Revising, Remaking, Forgets
<1>0. TranscriptOK(c) /\ base[c].chunks \in Seq(Chunk)
  BY Fields DEF TypeOK, TranscriptInv
<1>1. PICK s, q : s = sess[c] /\ q = base[c].chunks
  OBVIOUS
<1>2. CASE Return(c)
  BY <1>2, ReturnOK
<1>3. CASE ~ Return(c)
  <2>1. /\ UNCHANGED <<sess, base, wrote, owed, condemned>>
        /\ \/ StoreHead(c) /\ pc[c] = "write" /\ pc'[c] = "index"
           \/ pc'[c] \in {"settle", "reindex"}
           \/ pc[c] = "disownWrite" /\ pc'[c] = "unindex"
    BY <1>3 DEF Writes, StoreHead, AdoptWrite, DisownWrite, LinkWrite, Rewrite, Drop, Goto,
                TypeOK, scenes
  <2>2. CASE StoreHead(c) /\ pc[c] = "write" /\ pc'[c] = "index"
    BY <1>0, <1>1, <2>1, <2>2, HoldsOK DEF TranscriptOK, Owner
  <2>3. CASE pc'[c] \in {"settle", "reindex"}
    BY <1>0, <2>1, <2>3, HoldsOK
  <2>4. CASE pc[c] = "disownWrite" /\ pc'[c] = "unindex"
    BY <1>0, <2>1, <2>4, HoldsOK DEF TranscriptOK
  <2> QED BY <2>1, <2>2, <2>3, <2>4
<1> QED BY <1>2, <1>3

(* What a save said of the network stays true.                              *)
LEMMA NetworkedStays ==
  ASSUME TypeOK, TypeOK', LineageInv, TranscriptInv, Grown, Lasting, [Next]_vars
  PROVE  NetworkedIsTrue'
<1>1. networked \subseteq 1..Len(written) /\ NetworkedIsTrue
  BY DEF TranscriptInv
<1>2. \A k \in networked : k \in catalog' \/ written'[k].session \in condemned'
  BY <1>1 DEF NetworkedIsTrue, Grown, Lasting
<1>3. networked' = networked => NetworkedIsTrue'
  BY <1>2 DEF NetworkedIsTrue
<1>4. ASSUME NEW c \in Caller, Settle(c) PROVE NetworkedIsTrue'
  <2>1. PICK batch \in SUBSET queued :
          /\ Flushed(batch)
          /\ networked' = networked \union (IF owed[c] \subseteq batch THEN wrote[c] ELSE {})
    BY <1>4 DEF Settle
  <2>2. /\ wrote[c] \subseteq Turns(sess[c])
        /\ sess[c] \notin condemned => wrote[c] \ owed[c] \subseteq catalog
    BY DEF TranscriptInv, TranscriptOK
  <2>3. ASSUME owed[c] \subseteq batch, NEW k \in wrote[c]
        PROVE  k \in catalog' \/ written'[k].session \in condemned'
    <3>1. written[k].session = sess[c] /\ k \in 1..Len(written)
      BY <2>2, TurnType
    <3> QED BY <2>1, <2>2, <2>3, <3>1 DEF Flushed, Grown
  <2> QED BY <1>2, <2>1, <2>3 DEF NetworkedIsTrue
<1>5. ASSUME NEW c \in Caller, NEW s \in Session, Starts(c, s) PROVE networked' = networked
  BY <1>5 DEF Starts, Create, Extend, Forget, Link, Rebuild, answers
<1>6. ASSUME NEW c \in Caller, Reads(c) PROVE networked' = networked \/ Settle(c)
  BY <1>6 DEF Reads, WriteChunk, WriteFails, Index, Adopt, Tombstone, Disown, Unindex, Check,
              Restore, Reindex, Fail, answers
<1>7. ASSUME NEW c \in Caller, Writes(c) PROVE networked' = networked
  BY <1>7 DEF Writes, StoreHead, AdoptWrite, DisownWrite, LinkWrite, Rewrite, Drop, answers
<1>8. CASE Flush \/ (\E s \in Session : DropHead(s)) \/ UNCHANGED vars
  BY <1>3, <1>8 DEF Flush, DropHead, vars, answers
<1> QED BY <1>3, <1>4, <1>5, <1>6, <1>7, <1>8, NextKinds

(* Every step keeps the invariant.                                          *)
LEMMA TranscriptStep ==
  ASSUME TypeOK, TypeOK', LineageInv, TranscriptInv, [Next]_vars
  PROVE  TranscriptInv'
<1>1. Grown /\ Lasting
  BY StepGrows, StepLasts
<1>2. ASSUME NEW c \in Caller, NEW s \in Session, Starts(c, s) \/ Reads(c) \/ Writes(c)
      PROVE  \A e \in Caller : TranscriptOK(e)'
  <2>1. TranscriptOK(c)'
    BY <1>1, <1>2, StartOK, ReadOK, WriteOK
  <2>2. \A e \in Caller \ {c} : TranscriptOK(e)'
    BY <1>1, <1>2, Others, TranscriptStays
  <2> QED BY <2>1, <2>2
<1>3. ASSUME UNCHANGED call PROVE \A e \in Caller : TranscriptOK(e)'
  BY <1>1, <1>3, TranscriptStays DEF call
<1>4. Flush \/ (\E s \in Session : DropHead(s)) \/ UNCHANGED vars => UNCHANGED call
  BY DEF Flush, DropHead, vars, call
<1>5. ASSUME NEW c \in Caller, Reads(c) \/ Writes(c) PROVE sess[c] \in Session
  BY <1>5 DEF LineageInv, LineageOK, Reads, WriteChunk, NewChunk, WriteFails, Index, Adopt,
         Settle, Tombstone, Disown, Unindex, Check, Restore, Reindex, Fail, Writes, StoreHead,
         AdoptWrite, DisownWrite, LinkWrite, Rewrite, Drop
<1>6. \A e \in Caller : TranscriptOK(e)'
  BY <1>2, <1>3, <1>4, <1>5, NextKinds
<1>7. \A s \in Session : HeadWhole(s)'
  BY <1>1, HeadsStep
<1>8. NetworkedIsTrue' /\ \A k \in 1..Len(written') : Backed(k)'
  BY <1>1, NetworkedStays, ChunksStep
<1>9. queued' \union catalog' \union acked' \union networked' \subseteq 1..Len(written')
  BY <1>1, ChunksExist
<1> QED BY <1>6, <1>7, <1>8, <1>9 DEF TranscriptInv, HeadWhole

(* The invariant holds at the start.                                        *)
LEMMA TranscriptStart ==
  ASSUME Init
  PROVE  TypeOK /\ LineageInv /\ TranscriptInv
<1>1. \A s \in Session : heads[s] = NoHead
  BY DEF Init
<1>2. \A c \in Caller : pc[c] = "idle" /\ wrote[c] = {}
  BY DEF Init
<1>3. LineageInv
  BY <1>1, <1>2, NoHeadIsHead DEF LineageInv, LineageOK, Based, Revising, Remaking
<1>4. TypeOK
  BY NoHeadIsHead, BoundAssumption DEF Init, TypeOK, Stages
<1>5. TranscriptInv
  <2>1. \A c \in Caller : TranscriptOK(c)
    BY <1>2 DEF TranscriptOK, Forgets, Based, Revising, Remaking
  <2>2. \A s \in Session : Whole(s, heads[s].chunks) /\ ByPlace(s, heads[s].chunks)
    BY <1>1, NoHeadIsHead, NoTranscript
  <2>3. /\ queued = {} /\ catalog = {} /\ acked = {} /\ networked = {} /\ Len(written) = 0
    BY DEF Init
  <2> QED BY <2>1, <2>2, <2>3 DEF TranscriptInv, NetworkedIsTrue
<1> QED BY <1>3, <1>4, <1>5

(* What a transcript is made of holds of every head and every call.         *)
THEOREM TranscriptsHold == Spec => [](TypeOK /\ LineageInv /\ TranscriptInv)
<1>1. TypeOK /\ LineageInv /\ TranscriptInv /\ [Next]_vars
        => (TypeOK /\ LineageInv /\ TranscriptInv)'
  <2> SUFFICES ASSUME TypeOK, LineageInv, TranscriptInv, [Next]_vars
               PROVE  TypeOK' /\ LineageInv' /\ TranscriptInv'
    OBVIOUS
  <2>1. TypeOK'
    BY StartType, ReadType, WriteType, RestType, NextKinds
  <2> QED BY <2>1, LineageStep, TranscriptStep
<1> QED BY <1>1, TranscriptStart, PTL DEF Spec

(* Every chunk a head names can be read and stands where its number says.   *)
THEOREM WholeTranscripts == Spec => []HeadsAreWhole
<1>1. TypeOK /\ TranscriptInv => HeadsAreWhole
  <2> SUFFICES ASSUME TypeOK, TranscriptInv, NEW s \in Session, s \notin condemned,
                      NEW q, q = heads[s].chunks, NEW i \in DOMAIN q
               PROVE  /\ Readable(q[i])
                      /\ written[q[i]].session = s
                      /\ s \notin rebuilt => written[q[i]].seq = i - 1
                      /\ \A j \in 1..i : written[q[j]].seq <= written[q[i]].seq
    BY DEF HeadsAreWhole
  <2>1. Whole(s, q) /\ (s \notin rebuilt => ByPlace(s, q))
    BY DEF TranscriptInv
  <2>2. q[i] \in 1..Len(written) /\ written[q[i]].session = s
    BY <2>1 DEF Whole, Turns
  <2>3. q[i] \in bodies
    BY <2>2 DEF TranscriptInv, Backed
  <2> QED BY <2>1, <2>2, <2>3 DEF Whole, ByPlace, Readable
<1> QED BY <1>1, TranscriptsHold, PTL

(* A save told its caller the truth about the network.                      *)
THEOREM NetworkedTruly == Spec => []NetworkedIsTrue
<1>1. TranscriptInv => NetworkedIsTrue
  BY DEF TranscriptInv
<1> QED BY <1>1, TranscriptsHold, PTL

-----------------------------------------------------------------------------
(* A sequence that grows keeps every element in its place.                  *)
LEMMA GrowsByPlace ==
  ASSUME NEW S, NEW old \in Seq(S), NEW new \in Seq(S)
  PROVE  Grows(old, new) <=> /\ Len(old) <= Len(new)
                             /\ \A i \in 1..Len(old) : new[i] = old[i]
<1> DEFINE n == Len(old)
           sub == SubSeq(new, 1, n)
<1>1. n \in Nat /\ Len(new) \in Nat
  OBVIOUS
<1>2. ASSUME n <= Len(new)
      PROVE  sub \in Seq(S) /\ Len(sub) = n /\ \A i \in 1..n : sub[i] = new[i]
  <2>1. \A i \in 1..n : new[i] \in S
    BY <1>1, <1>2
  <2>2. 1 \in Int /\ n \in Int
    BY <1>1
  <2> HIDE DEF n
  <2>3. /\ sub \in Seq(S) /\ Len(sub) = (IF 1 <= n THEN n - 1 + 1 ELSE 0)
        /\ \A i \in 1..(n - 1 + 1) : sub[i] = new[1 + i - 1]
    BY <2>1, <2>2, SubSeqProperties
  <2> HIDE DEF sub
  <2> QED BY <1>1, <2>3
<1>3. ASSUME n <= Len(new), \A i \in 1..n : new[i] = old[i] PROVE sub = old
  <2>1. sub \in Seq(S) /\ Len(sub) = Len(old) /\ \A i \in 1..Len(sub) : sub[i] = old[i]
    BY <1>2, <1>3
  <2> HIDE DEF sub, n
  <2> QED BY <2>1, SeqEqual
<1>4. ASSUME n <= Len(new), sub = old PROVE \A i \in 1..n : new[i] = old[i]
  BY <1>2, <1>4
<1> QED BY <1>3, <1>4 DEF Grows

(* A sequence goes on from itself.                                          *)
LEMMA GrowsItself ==
  ASSUME NEW S, NEW q \in Seq(S)
  PROVE  Grows(q, q)
BY GrowsByPlace

(* What goes on from a sequence that goes on from a third does from it.     *)
LEMMA GrowsOn ==
  ASSUME NEW S, NEW old \in Seq(S), NEW new \in Seq(S), NEW x \in S, Grows(old, new)
  PROVE  Grows(old, Append(new, x))
<1>1. Len(old) <= Len(new) /\ \A i \in 1..Len(old) : new[i] = old[i]
  BY GrowsByPlace
<1>2. PICK next : next = Append(new, x)
  OBVIOUS
<1>3. /\ next \in Seq(S) /\ Len(next) = Len(new) + 1 /\ Len(old) \in Nat /\ Len(new) \in Nat
      /\ \A i \in 1..Len(new) : next[i] = new[i]
  BY <1>2
<1>4. Len(old) <= Len(next) /\ \A i \in 1..Len(old) : next[i] = old[i]
  BY <1>1, <1>3
<1>5. Grows(old, next)
  BY <1>3, <1>4, GrowsByPlace
<1> QED BY <1>2, <1>5

(* A step of a call that writes the head it holds where the versions agree, *)
(* and what any step may do to a head.                                     *)
Puts(c, t) ==
  /\ pc[c] \in Revising \union {"rewrite"} /\ Owner(c) = t /\ t \in Session
  /\ pc'[c] # pc[c]
  /\ Matches(t, base[c]) /\ Put(t, base[c])
  /\ UNCHANGED <<created, contended, condemned, dropped, sourced, written>>

Drops(c, t) ==
  /\ pc[c] = "drop" /\ pc'[c] = "idle" /\ sess[c] = t /\ t \in Session
  /\ heads' = [heads EXCEPT ![t] = NoHead]

(* A step that writes a head puts it over the one stored.                   *)
LEMMA WritesPut ==
  ASSUME TypeOK, LineageInv, NEW c \in Caller, Writes(c)
  PROVE  \/ heads' = heads
         \/ \E t \in Session : Puts(c, t)
         \/ \E t \in Session : Drops(c, t)
<1> USE DEF Revising, Remaking, Based
<1>0. LineageOK(c) /\ sess[c] \in Session
  BY DEF LineageInv, LineageOK, Writes, StoreHead, AdoptWrite, DisownWrite, LinkWrite, Rewrite, Drop
<1>1. CASE StoreHead(c) \/ LinkWrite(c)
  <2>1. heads' = heads \/ Puts(c, sess[c])
    BY <1>0, <1>1 DEF StoreHead, LinkWrite, Puts, Owner, Return, Goto, TypeOK, storage, scenes
  <2> QED BY <1>0, <2>1
<1>2. CASE AdoptWrite(c) \/ DisownWrite(c)
  <2>1. ParentOf[sess[c]] \in Session
    BY <1>0, <1>2 DEF AdoptWrite, DisownWrite, LineageOK, Owner
  <2>2. heads' = heads \/ Puts(c, ParentOf[sess[c]])
    BY <1>2, <2>1 DEF AdoptWrite, DisownWrite, Puts, Owner, Return, Goto, TypeOK, storage, scenes
  <2> QED BY <2>1, <2>2
<1>3. CASE Rewrite(c)
  <2>1. heads' = heads \/ Puts(c, sess[c])
    BY <1>0, <1>3 DEF Rewrite, Puts, Owner, Goto, TypeOK, storage
  <2> QED BY <1>0, <2>1
<1>4. CASE Drop(c)
  <2>1. Drops(c, sess[c])
    BY <1>0, <1>4 DEF Drop, Drops, Return, Goto, TypeOK
  <2> QED BY <1>0, <2>1
<1> QED BY <1>1, <1>2, <1>3, <1>4 DEF Writes

(* A head changes only by a call that writes it.                            *)
LEMMA HeadChanges ==
  ASSUME TypeOK, LineageInv, [Next]_vars
  PROVE  \/ heads' = heads
         \/ \E c \in Caller, t \in Session : Puts(c, t) \/ Drops(c, t)
         \/ \E t \in Session : DropHead(t)
<1>1. ASSUME NEW c \in Caller, NEW s \in Session, Starts(c, s) PROVE heads' = heads
  BY <1>1 DEF Starts, Create, Extend, Forget, Link, Rebuild
<1>2. ASSUME NEW c \in Caller, Reads(c) PROVE heads' = heads
  BY <1>2 DEF Reads, WriteChunk, WriteFails, Index, Adopt, Settle, Tombstone, Disown, Unindex,
              Check, Restore, Reindex, Fail
<1>3. CASE Flush \/ UNCHANGED vars
  BY <1>3 DEF Flush, vars
<1> QED BY <1>1, <1>2, <1>3, WritesPut, NextKinds

(* What has been known stays known, and a head is dropped where there is    *)
(* one.                                                                    *)
Kept ==
  /\ created \subseteq created' /\ contended \subseteq contended' /\ sourced \subseteq sourced'
  /\ dropped \subseteq dropped' /\ condemned \subseteq condemned'
  /\ \A s \in dropped' \union condemned' : s \in dropped \union condemned \/ Held(s)
  /\ \A s \in dropped' : s \in dropped \/ Held(s)

(* What has happened to a session has happened, and only to a held one.     *)
LEMMA StepKeeps ==
  ASSUME TypeOK, [Next]_vars
  PROVE  Kept
<1>1. ASSUME NEW c \in Caller, NEW s \in Session, Starts(c, s) PROVE Kept
  BY <1>1 DEF Starts, Create, Extend, Forget, Link, Rebuild, Begin, Kept
<1>2. ASSUME NEW c \in Caller, Reads(c) PROVE Kept
  BY <1>2 DEF Reads, WriteChunk, WriteFails, Index, Adopt, Settle, Tombstone, Disown, Unindex,
              Check, Restore, Reindex, Fail, scenes, Kept
<1>3. ASSUME NEW c \in Caller, Writes(c) PROVE Kept
  BY <1>3 DEF Writes, StoreHead, AdoptWrite, DisownWrite, LinkWrite, Rewrite, Drop, scenes, Kept
<1>4. CASE Flush \/ UNCHANGED vars
  BY <1>4 DEF Flush, vars, scenes, Kept
<1>5. ASSUME NEW s \in Session, DropHead(s) PROVE Kept
  BY <1>5 DEF DropHead, Kept
<1> QED BY <1>1, <1>2, <1>3, <1>4, <1>5, NextKinds

(* A call that has begun never comes to concern more heads.                 *)
LEMMA ConcernsFewer ==
  ASSUME TypeOK, LineageInv, NEW c \in Caller, Reads(c) \/ Writes(c)
  PROVE  Condemns(c)' \subseteq Condemns(c) /\ Touches(c)' \subseteq Touches(c)
<1> USE DEF Condemns, Touches, Forgets, Rebuilds
<1>1. CASE Return(c)
  BY <1>1 DEF Return, Goto, TypeOK
<1>2. CASE WriteChunk(c)
  <2>1. pc' = pc /\ sess' = sess /\ base'[c].version = base[c].version
    BY <1>2, WriteChunkStep
  <2> QED BY <2>1
<1>3. CASE Index(c) \/ Tombstone(c) \/ Unindex(c) \/ (Check(c) /\ ~ Return(c))
  <2>1. sess' = sess /\ base' = base
        /\ \/ /\ pc[c] = "index" /\ pc'[c] \in {"adopt", "settle"}
              /\ (pc'[c] = "adopt" => base[c].version = 0)
           \/ pc[c] = "tombstone" /\ pc' = pc
           \/ pc[c] = "unindex" /\ pc'[c] = "drop"
           \/ pc[c] = "check" /\ pc'[c] = "restore"
    BY <1>3 DEF Index, Tombstone, Unindex, Check, Goto, TypeOK
  <2> QED BY <2>1
<1>4. CASE (Adopt(c) /\ ~ Return(c)) \/ Disown(c) \/ Restore(c)
  <2>1. sess' = sess
        /\ \/ pc[c] = "adopt" /\ pc'[c] \in {"adoptWrite", "settle"}
           \/ pc[c] = "tombstone" /\ pc'[c] \in {"unindex", "disownWrite"}
           \/ pc[c] = "restore" /\ pc'[c] = "rewrite"
    BY <1>4 DEF Adopt, Disown, Restore, Goto, TypeOK
  <2> QED BY <2>1
<1>5. CASE Writes(c) /\ ~ Return(c)
  <2>1. sess' = sess /\ base' = base
        /\ \/ pc[c] = "write" /\ pc'[c] = "index"
           \/ pc[c] = "adoptWrite" /\ pc'[c] = "settle"
           \/ pc[c] = "disownWrite" /\ pc'[c] = "unindex"
           \/ pc[c] = "rewrite" /\ pc'[c] = "reindex"
    BY <1>5 DEF Writes, StoreHead, AdoptWrite, DisownWrite, LinkWrite, Rewrite, Drop, Goto, TypeOK
  <2> QED BY <2>1
<1>6. WriteFails(c) \/ Settle(c) \/ Reindex(c) \/ Fail(c) => Return(c)
  BY DEF WriteFails, Settle, Reindex, Fail
<1> QED BY <1>1, <1>2, <1>3, <1>4, <1>5, <1>6 DEF Reads

(* A call that has a head to itself keeps it, unless it is contended.       *)
LEMMA AloneStep ==
  ASSUME TypeOK, LineageInv, AloneInv, [Next]_vars
  PROVE  AloneInv'
<1>1. Kept
  BY StepKeeps
<1>2. ASSUME NEW c \in Caller, NEW s \in Session, Starts(c, s) \/ Reads(c) \/ Writes(c),
             NEW e \in Caller \ {c}
      PROVE  Condemns(e)' = Condemns(e) /\ Touches(e)' = Touches(e)
  BY <1>2, Others DEF Condemns, Touches
<1>3. ASSUME NEW c \in Caller, NEW s \in Session, Starts(c, s) PROVE AloneInv'
  <2>1. \E stage, head, n : Begin(c, s, stage, head, n)
    BY <1>3 DEF Starts, Create, Extend, Forget, Link, Rebuild
  <2>2. contended' = contended \union
          {t \in Session : \E d, e \in Caller :
             /\ d # e /\ c \in {d, e}
             /\ t \in (Condemns(d))' /\ t \in (Touches(e))'}
    BY <2>1 DEF Begin
  <2> SUFFICES ASSUME NEW d \in Caller, NEW e \in Caller, d # e, NEW t \in Session,
                      t \in Condemns(d)', t \in Touches(e)'
               PROVE  t \in contended'
    BY DEF AloneInv
  <2>3. CASE c \in {d, e}
    BY <2>2, <2>3
  <2>4. CASE c \notin {d, e}
    <3>1. Condemns(d)' = Condemns(d) /\ Touches(e)' = Touches(e)
      BY <1>2, <1>3, <2>4
    <3> QED BY <1>1, <3>1 DEF AloneInv, Kept
  <2> QED BY <2>3, <2>4
<1>4. ASSUME \A e \in Caller : Condemns(e)' \subseteq Condemns(e) /\ Touches(e)' \subseteq Touches(e)
      PROVE  AloneInv'
  <2> SUFFICES ASSUME NEW d \in Caller, NEW e \in Caller, d # e, NEW t \in Session,
                      t \in Condemns(d)', t \in Touches(e)'
               PROVE  t \in contended'
    BY DEF AloneInv
  <2>1. t \in Condemns(d) /\ t \in Touches(e)
    BY <1>4
  <2> QED BY <1>1, <2>1 DEF AloneInv, Kept
<1>5. ASSUME NEW c \in Caller, Reads(c) \/ Writes(c) PROVE AloneInv'
  <2>1. sess[c] \in Session
    BY <1>5 DEF LineageInv, LineageOK, Reads, WriteChunk, NewChunk, WriteFails, Index, Adopt,
         Settle, Tombstone, Disown, Unindex, Check, Restore, Reindex, Fail, Writes, StoreHead,
         AdoptWrite, DisownWrite, LinkWrite, Rewrite, Drop
  <2>2. \A e \in Caller \ {c} : Condemns(e)' = Condemns(e) /\ Touches(e)' = Touches(e)
    BY <1>2, <1>5, <2>1
  <2> QED BY <1>4, <1>5, <2>2, ConcernsFewer
<1>6. CASE Flush \/ (\E s \in Session : DropHead(s)) \/ UNCHANGED vars
  <2>1. UNCHANGED call
    BY <1>6 DEF Flush, DropHead, vars
  <2>2. \A e \in Caller : Condemns(e)' = Condemns(e) /\ Touches(e)' = Touches(e)
    BY <2>1 DEF call, Condemns, Touches
  <2> QED BY <1>4, <2>2
<1> QED BY <1>3, <1>5, <1>6, NextKinds

(* A head that a call writes is one it touches.                             *)
LEMMA OwnTouches ==
  ASSUME NEW c \in Caller, pc[c] \in Revising \union {"rewrite"}
  PROVE  Owner(c) \in Touches(c)
BY DEF Revising, Owner, Touches, Forgets

(* A call between two of whose steps another takes one still revises a head *)
(* it loses nothing of, ...                                                *)
LEMMA RevisesStays ==
  ASSUME TypeOK, LineageInv, ApartInv, [Next]_vars, NEW e \in Caller,
         pc'[e] = pc[e], sess'[e] = sess[e], base'[e] = base[e],
         pc[e] \in Revising, NEW t, t = Owner(e), t \notin contended'
  PROVE  Revises(e, heads[t])'
<1>1. Kept
  BY StepKeeps
<1>2. /\ t \in Session /\ t \in Touches(e) /\ Apart(t) /\ ApartOK(e) /\ LineageOK(e)
      /\ heads[t] \in SessionHead /\ base[e] \in SessionHead
  BY <1>1, OwnTouches DEF LineageInv, LineageOK, Based, ApartInv, Apart, Kept, TypeOK
<1>3. Revises(e, heads[t])
  BY <1>2 DEF ApartOK
<1>4. /\ heads[t].version \in Nat /\ base[e].version \in Nat
  BY <1>2, Fields
<1>5. (sess[e] \in dropped' /\ pc[e] = "write" /\ heads[t] = NoHead) => sess[e] \in dropped
  <2>1. pc[e] = "write" => t = sess[e]
    BY DEF Owner
  <2> QED BY <1>1, <2>1 DEF Kept, Held
<1>6. CASE heads'[t] = heads[t]
  BY <1>3, <1>5, <1>6 DEF Revises
<1>7. ASSUME NEW c \in Caller, Puts(c, t) PROVE Revises(e, heads[t])'
  <2>1. base[c] \in SessionHead
    BY DEF TypeOK
  <2>2. heads'[t].version = base[c].version + 1 /\ heads'[t] # NoHead /\ base[c].version \in Nat
    BY <1>2, <1>7, <2>1, PutHead, Fields DEF Puts
  <2>3. base[e].version < heads'[t].version
    <3>1. CASE heads[t] = NoHead
      BY <1>3, <2>2, <3>1 DEF Revises
    <3>2. CASE heads[t] # NoHead
      BY <1>3, <1>4, <1>7, <2>2, <3>2 DEF Revises, Puts, Matches
    <3> QED BY <3>1, <3>2
  <2>4. heads'[t].version \in Nat
    BY <2>2
  <2> QED BY <1>4, <2>2, <2>3, <2>4 DEF Revises
<1>8. ASSUME NEW c \in Caller, Drops(c, t) PROVE FALSE
  <2>1. c # e
    BY <1>8 DEF Drops
  <2>2. t \in Condemns(c)
    BY <1>8 DEF Drops, Condemns, Forgets
  <2>3. t \in contended
    BY <1>2, <2>1, <2>2 DEF ApartInv, AloneInv
  <2> QED BY <1>2, <2>3 DEF Apart
<1>9. ASSUME DropHead(t) PROVE FALSE
  BY <1>2, <1>9 DEF DropHead
<1>10. ASSUME NEW c \in Caller, NEW s \in Session, Puts(c, s) \/ Drops(c, s), s # t
       PROVE  heads'[t] = heads[t]
  <2>1. base[c] \in SessionHead
    BY DEF TypeOK
  <2> QED BY <1>2, <1>10, <2>1, PutHead DEF Puts, Drops, TypeOK
<1>11. ASSUME NEW s \in Session, DropHead(s), s # t PROVE heads'[t] = heads[t]
  BY <1>2, <1>11 DEF DropHead, TypeOK
<1> QED BY <1>6, <1>7, <1>8, <1>9, <1>10, <1>11, HeadChanges

(* ... and one that makes a head anew still finds none.                     *)
LEMMA AbsentStays ==
  ASSUME TypeOK, LineageInv, ApartInv, [Next]_vars, NEW e \in Caller, pc'[e] = pc[e],
         NEW t \in Session, t \in Condemns(e), t \notin contended', ~ Held(t)
  PROVE  ~ Held(t)'
<1>1. Kept
  BY StepKeeps
<1>2. ASSUME NEW c \in Caller, NEW s \in Session, Puts(c, s) PROVE s # t
  <2>1. c # e /\ s \in Touches(c)
    BY <1>2, OwnTouches DEF Puts
  <2> QED BY <1>1, <2>1 DEF ApartInv, AloneInv, Kept
<1>3. ASSUME NEW c \in Caller, NEW s \in Session, Puts(c, s) \/ Drops(c, s)
      PROVE  heads'[t] = heads[t] \/ heads'[t] = NoHead
  <2>1. base[c] \in SessionHead
    BY DEF TypeOK
  <2> QED BY <1>2, <1>3, <2>1, PutHead DEF Puts, Drops, TypeOK
<1>4. ASSUME NEW s \in Session, DropHead(s)
      PROVE  heads'[t] = heads[t] \/ heads'[t] = NoHead
  BY <1>4 DEF DropHead, TypeOK
<1> QED BY <1>3, <1>4, HeadChanges DEF Held

(* A call that does not move keeps what it knows of its head.               *)
LEMMA ApartStays ==
  ASSUME TypeOK, LineageInv, ApartInv, [Next]_vars, NEW e \in Caller,
         pc'[e] = pc[e], sess'[e] = sess[e], base'[e] = base[e]
  PROVE  ApartOK(e)'
<1>1. Kept /\ ApartOK(e) /\ LineageOK(e)
  BY StepKeeps DEF ApartInv, LineageInv
<1>2. Owner(e)' = Owner(e)
  BY DEF Owner
<1>3. PICK t : t = Owner(e)
  OBVIOUS
<1>4. (pc'[e] \in Revising /\ Apart(Owner(e))') => Revises(e, heads[Owner(e)])'
  <2> SUFFICES ASSUME pc[e] \in Revising, t \notin contended' PROVE Revises(e, heads[t])'
    BY <1>2, <1>3 DEF Apart
  <2> QED BY <1>3, RevisesStays
<1>5. (pc'[e] \in {"restore", "rewrite"} /\ Apart(sess[e])') => ~ Held(sess[e])'
  <2>1. PICK s : s = sess[e]
    OBVIOUS
  <2> SUFFICES ASSUME pc[e] \in {"restore", "rewrite"}, s \notin contended' PROVE ~ Held(s)'
    BY <2>1 DEF Apart, Held
  <2>2. s \in Session /\ s \in Condemns(e) /\ ~ Held(s)
    BY <1>1, <2>1 DEF LineageOK, Condemns, Rebuilds, ApartOK, Apart, Kept
  <2> QED BY <2>2, AbsentStays
<1> QED BY <1>1, <1>2, <1>4, <1>5 DEF ApartOK, Kept

(* What a call has just read, it may revise.                                *)
LEMMA RevisesRead ==
  ASSUME TypeOK, NEW c \in Caller, NEW t \in Session, NEW h, h = heads[t], h # NoHead, heads' = heads,
         base'[c].version = h.version, base'[c].chunks = h.chunks,
         h.memories \subseteq base'[c].memories,
         base'[c].children \subseteq h.children \union
           (IF pc'[c] = "adoptWrite" THEN {sess'[c]} ELSE {}),
         base'[c].parented = h.parented
  PROVE  Revises(c, heads[t])'
<1>1. h \in SessionHead /\ h.chunks \in Seq(Chunk) /\ h.version \in Nat
  BY Fields DEF TypeOK
<1>2. Grows(h.chunks, h.chunks)
  BY <1>1, GrowsItself
<1> QED BY <1>1, <1>2 DEF Revises

(* A call that begins knows what is needed of its head.                     *)
LEMMA ApartStart ==
  ASSUME TypeOK, ApartInv, NEW c \in Caller, NEW s \in Session, Starts(c, s)
  PROVE  ApartOK(c)'
<1> USE DEF Based, Revising, Remaking
<1>0. KnownOK(s) /\ heads[s] \in SessionHead
  BY DEF ApartInv, TypeOK
<1>1. PICK h : h = heads[s]
  OBVIOUS
<1>2. ASSUME NEW n \in 0..MaxGroups, Create(c, s, n) PROVE ApartOK(c)'
  <2>1. n \in Nat
    BY BoundAssumption
  <2>2. /\ pc'[c] = "write" /\ sess'[c] = s /\ s \notin created /\ s \in created'
        /\ base'[c].version = 0 /\ base'[c].children = {} /\ base'[c].memories = {}
        /\ heads' = heads /\ dropped' = dropped
    BY <1>2, <2>1, CreateStep
  <2>3. heads[s] = NoHead /\ s \notin dropped
    BY <1>0, <2>2 DEF KnownOK, Held
  <2>4. Owner(c)' = s
    BY <2>2 DEF Owner
  <2>5. Revises(c, heads[s])'
    BY <2>2, <2>3 DEF Revises
  <2> QED BY <2>2, <2>4, <2>5 DEF ApartOK
<1>3. ASSUME NEW n \in 0..MaxGroups, Extend(c, s, n) PROVE ApartOK(c)'
  <2>1. /\ pc'[c] = "write" /\ sess'[c] = s /\ base'[c] = h /\ h # NoHead
        /\ UNCHANGED <<heads, created, sourced>>
    BY <1>1, <1>3 DEF Extend, Begin, TypeOK, Held
  <2>2. /\ s \in created /\ h.version # 0 /\ h.memories \subseteq Memory
        /\ \A m \in h.memories : <<s, m>> \in sourced
    BY <1>0, <1>1, <2>1, Fields DEF KnownOK, Held
  <2>4. Owner(c)' = s
    BY <2>1 DEF Owner
  <2>5. Revises(c, heads[s])'
    BY <1>1, <2>1, RevisesRead
  <2> QED BY <2>1, <2>2, <2>4, <2>5 DEF ApartOK
<1>4. ASSUME Forget(c, s) PROVE ApartOK(c)'
  <2>1. /\ pc'[c] = "tombstone" /\ sess'[c] = s /\ base'[c] = h /\ h # NoHead
        /\ UNCHANGED <<heads, created, sourced>>
    BY <1>1, <1>4 DEF Forget, Begin, TypeOK, Held
  <2>2. /\ s \in created /\ \A m \in h.memories : <<s, m>> \in sourced
    BY <1>0, <1>1, <2>1, Fields DEF KnownOK, Held
  <2>4. Owner(c)' = s
    BY <2>1 DEF Owner
  <2> QED BY <2>1, <2>2, <2>4 DEF ApartOK
<1>5. ASSUME NEW m \in Memory, Link(c, s, m) PROVE ApartOK(c)'
  <2>1. /\ pc'[c] = "link" /\ sess'[c] = s /\ h # NoHead
        /\ sourced' = sourced \union {<<s, m>>}
        /\ base'[c].version = h.version /\ base'[c].chunks = h.chunks
        /\ base'[c].children = h.children /\ base'[c].parented = h.parented
        /\ base'[c].memories = h.memories \union {m}
        /\ UNCHANGED <<heads, created>>
    BY <1>1, <1>5, LinkStep DEF Held
  <2>2. /\ s \in created /\ \A x \in h.memories : <<s, x>> \in sourced
    BY <1>0, <1>1, <2>1, Fields DEF KnownOK, Held
  <2>4. Owner(c)' = s
    BY <2>1 DEF Owner
  <2>5. Revises(c, heads[s])'
    BY <1>1, <2>1, RevisesRead
  <2>6. \A x \in base'[c].memories : <<s, x>> \in sourced'
    BY <2>1, <2>2
  <2> QED BY <2>1, <2>2, <2>4, <2>5, <2>6 DEF ApartOK
<1>6. ASSUME Rebuild(c, s) PROVE ApartOK(c)'
  <2>1. /\ pc'[c] = "check" /\ sess'[c] = s /\ base'[c].children = {}
        /\ base'[c].memories = {m \in Memory : <<s, m>> \in sourced}
        /\ Turns(s) # {} /\ UNCHANGED <<heads, created, sourced>>
    BY <1>6, RebuildStep
  <2>2. s \in created
    BY <1>0, <2>1 DEF KnownOK
  <2>4. Owner(c)' = s
    BY <2>1 DEF Owner
  <2> QED BY <2>1, <2>2, <2>4 DEF ApartOK
<1> QED BY <1>2, <1>3, <1>4, <1>5, <1>6 DEF Starts

(* A call that reads knows what is needed of its head.                      *)
LEMMA ApartRead ==
  ASSUME TypeOK, TypeOK', LineageInv, ApartInv, NEW c \in Caller, Reads(c)
  PROVE  ApartOK(c)'
<1> USE DEF Based, Revising, Remaking
<1>0. ApartOK(c) /\ (\A t \in Session : KnownOK(t)) /\ LineageOK(c)
  BY DEF ApartInv, LineageInv
<1>1. CASE Return(c)
  BY <1>1 DEF Return, Goto, TypeOK, ApartOK
<1>2. CASE WriteChunk(c)
  <2>1. PICK s, q, r : s = sess[c] /\ q = base[c].chunks /\ r = Append(q, Len(written) + 1)
    OBVIOUS
  <2>2. /\ pc[c] = "write" /\ pc'[c] = "write" /\ s \in Session /\ sess'[c] = s
        /\ base'[c].version = base[c].version /\ base'[c].children = base[c].children
        /\ base'[c].memories = base[c].memories /\ base'[c].parented = base[c].parented
        /\ base'[c].chunks = r
        /\ UNCHANGED <<heads, created, sourced, contended, dropped>>
    BY <1>2, <2>1, WriteChunkStep DEF scenes
  <2>3. Owner(c) = s /\ Owner(c)' = s
    BY <2>1, <2>2 DEF Owner
  <2>4. Apart(s)' => Revises(c, heads[s])
    BY <1>0, <2>2, <2>3 DEF ApartOK, Apart
  <2>5. /\ q \in Seq(Chunk) /\ heads[s] \in SessionHead /\ heads[s].chunks \in Seq(Chunk)
        /\ Len(written) + 1 \in Chunk
    <3>1. q \in Seq(Chunk) /\ heads[s] \in SessionHead /\ heads[s].chunks \in Seq(Chunk)
      BY <2>1, <2>2, Fields DEF TypeOK
    <3>2. Len(written) + 1 \in Chunk
      BY <1>2, <2>1, <2>2, NewChunkType DEF WriteChunk
    <3> QED BY <3>1, <3>2
  <2>6. Grows(heads[s].chunks, q) => Grows(heads[s].chunks, r)
    BY <2>1, <2>5, GrowsOn
  <2>7. Apart(s)' => Revises(c, heads[s])'
    BY <2>1, <2>2, <2>4, <2>6 DEF Revises
  <2> QED BY <1>0, <2>1, <2>2, <2>3, <2>7 DEF ApartOK
<1>3. CASE Index(c)
  <2>1. /\ pc[c] = "index" /\ pc'[c] \in {"adopt", "settle"}
        /\ UNCHANGED <<sess, base, created, sourced>>
    BY <1>3 DEF Index, Goto, TypeOK
  <2> QED BY <1>0, <2>1 DEF ApartOK, Owner
<1>4. CASE Adopt(c) /\ ~ Return(c)
  <2>1. PICK p, h : p = ParentOf[sess[c]] /\ h = heads[p]
    OBVIOUS
  <2>2. /\ pc[c] = "adopt" /\ p \in Session /\ sess[c] \in Session /\ h # NoHead
        /\ pc'[c] \in {"settle", "adoptWrite"} /\ sess'[c] = sess[c]
        /\ base'[c].version = h.version /\ base'[c].chunks = h.chunks
        /\ base'[c].children = h.children \union {sess[c]}
        /\ base'[c].memories = h.memories /\ base'[c].parented = h.parented
        /\ UNCHANGED <<heads, created, sourced>>
    BY <1>4, <2>1, AdoptStep DEF Held
  <2>3. sess[c] \in created /\ p \in created /\ \A m \in h.memories : <<p, m>> \in sourced
    BY <1>0, <2>1, <2>2, Fields DEF ApartOK, KnownOK, Held, TypeOK
  <2>4. CASE pc'[c] = "settle"
    BY <2>2, <2>3, <2>4 DEF ApartOK
  <2>5. CASE pc'[c] = "adoptWrite"
    <3>1. Owner(c)' = p
      BY <2>1, <2>2, <2>5 DEF Owner
    <3>2. Revises(c, heads[p])'
      BY <2>1, <2>2, <2>5, RevisesRead
    <3> QED BY <2>2, <2>3, <2>5, <3>1, <3>2 DEF ApartOK
  <2> QED BY <2>2, <2>4, <2>5
<1>5. CASE Tombstone(c)
  <2>1. pc[c] = "tombstone" /\ UNCHANGED <<pc, sess, base, created, sourced>>
    BY <1>5 DEF Tombstone
  <2> QED BY <1>0, <2>1 DEF ApartOK, Owner
<1>6. CASE Disown(c)
  <2>1. PICK p, h : p = ParentOf[sess[c]] /\ h = heads[p]
    OBVIOUS
  <2>2. sess[c] \in created /\ UNCHANGED <<heads, sess, created, sourced>>
    BY <1>0, <1>6, DisownStep DEF ApartOK
  <2>3. CASE pc'[c] = "unindex"
    BY <2>2, <2>3 DEF ApartOK
  <2>4. CASE pc'[c] # "unindex"
    <3>1. /\ pc'[c] = "disownWrite" /\ p \in Session /\ h # NoHead
          /\ base'[c].version = h.version /\ base'[c].chunks = h.chunks
          /\ base'[c].children = h.children \ {sess[c]}
          /\ base'[c].memories = h.memories /\ base'[c].parented = h.parented
      BY <1>6, <2>1, <2>4, DisownStep DEF Held
    <3>2. Owner(c)' = p
      BY <2>1, <2>2, <3>1 DEF Owner
    <3>3. p \in created /\ \A m \in h.memories : <<p, m>> \in sourced
      BY <1>0, <2>1, <3>1, Fields DEF KnownOK, Held, TypeOK
    <3>4. Revises(c, heads[p])'
      BY <2>1, <2>2, <3>1, RevisesRead
    <3> QED BY <2>2, <3>1, <3>2, <3>3, <3>4 DEF ApartOK
  <2> QED BY <2>3, <2>4
<1>7. CASE Unindex(c)
  <2>1. pc[c] = "unindex" /\ pc'[c] = "drop" /\ UNCHANGED <<sess, base, created, sourced>>
    BY <1>7 DEF Unindex, Goto, TypeOK
  <2> QED BY <1>0, <2>1 DEF ApartOK
<1>8. CASE Check(c) /\ ~ Return(c)
  <2>1. /\ pc[c] = "check" /\ pc'[c] = "restore" /\ ~ Held(sess[c])
        /\ UNCHANGED <<heads, sess, base, created, sourced>>
    BY <1>8 DEF Check, Goto, TypeOK
  <2> QED BY <1>0, <2>1 DEF ApartOK, Owner, Held
<1>9. CASE Restore(c)
  <2>1. /\ pc[c] = "restore" /\ pc'[c] = "rewrite"
        /\ base'[c].children = base[c].children /\ base'[c].memories = base[c].memories
        /\ UNCHANGED <<heads, sess, created, sourced, contended>>
    BY <1>9, RestoreStep DEF scenes
  <2> QED BY <1>0, <2>1 DEF ApartOK, Owner, Held, Apart
<1>10. WriteFails(c) \/ Settle(c) \/ Reindex(c) \/ Fail(c) => Return(c)
  BY DEF WriteFails, Settle, Reindex, Fail
<1> QED BY <1>1, <1>2, <1>3, <1>4, <1>5, <1>6, <1>7, <1>8, <1>9, <1>10 DEF Reads

(* A call that writes knows what is needed of its head.                     *)
LEMMA ApartWrite ==
  ASSUME TypeOK, LineageInv, ApartInv, NEW c \in Caller, Writes(c)
  PROVE  ApartOK(c)'
<1> USE DEF Based, Revising, Remaking
<1>0. ApartOK(c)
  BY DEF ApartInv
<1>1. CASE Return(c)
  BY <1>1 DEF Return, Goto, TypeOK, ApartOK
<1>2. CASE ~ Return(c)
  <2>1. /\ UNCHANGED <<sess, base, created, sourced>>
        /\ pc[c] # "idle"
        /\ \/ pc[c] = "write" /\ pc'[c] = "index"
           \/ pc'[c] \in {"settle", "reindex", "unindex"}
    BY <1>2 DEF Writes, StoreHead, AdoptWrite, DisownWrite, LinkWrite, Rewrite, Drop, Goto,
                TypeOK
  <2> QED BY <1>0, <2>1 DEF ApartOK, Owner
<1> QED BY <1>1, <1>2

(* Nothing of a session is there before it is created.                      *)
LEMMA KnownStep ==
  ASSUME TypeOK, TypeOK', LineageInv, ApartInv, Grown, [Next]_vars, NEW s \in Session
  PROVE  KnownOK(s)'
<1>0. Kept /\ KnownOK(s)
  BY StepKeeps DEF ApartInv
<1>1. ASSUME NEW c \in Caller, NEW t \in Session, Puts(c, t)
      PROVE  /\ t \in created /\ \A m \in base[c].memories : <<t, m>> \in sourced
             /\ heads'[t].version > 0 /\ heads'[t].memories = base[c].memories
             /\ t # s => heads'[s] = heads[s]
  <2>1. base[c] \in SessionHead /\ base[c].version \in Nat
    BY Fields DEF TypeOK
  <2>2. pc[c] \in Based /\ Owner(c) = t /\ ApartOK(c)
    BY <1>1 DEF Puts, Based, Remaking, ApartInv
  <2>3. heads'[t].version = base[c].version + 1 /\ heads'[t].memories = base[c].memories
        /\ (t # s => heads'[s] = heads[s])
    BY <1>1, <2>1, PutHead DEF Puts
  <2> QED BY <2>1, <2>2, <2>3 DEF ApartOK
<1>2. /\ Held(s)' => heads'[s].version > 0 /\ s \in created'
      /\ \A m \in Memory : m \in heads'[s].memories => <<s, m>> \in sourced'
  <2> DEFINE Good == /\ Held(s)' => heads'[s].version > 0 /\ s \in created'
                     /\ \A m \in Memory : m \in heads'[s].memories => <<s, m>> \in sourced'
  <2>1. heads'[s] = heads[s] => Good
    BY <1>0 DEF KnownOK, Kept, Held
  <2>2. heads'[s] = NoHead => Good
    BY NoHeadIsHead DEF Held
  <2>3. ASSUME NEW c \in Caller, NEW t \in Session, Puts(c, t) PROVE Good
    <3>1. CASE t = s
      BY <1>0, <1>1, <2>3, <3>1 DEF Kept
    <3>2. CASE t # s
      BY <1>1, <2>1, <2>3, <3>2
    <3> QED BY <3>1, <3>2
  <2>4. ASSUME NEW c \in Caller, NEW t \in Session, Drops(c, t)
        PROVE  heads'[s] = heads[s] \/ heads'[s] = NoHead
    BY <2>4 DEF Drops, TypeOK
  <2>5. ASSUME NEW t \in Session, DropHead(t)
        PROVE  heads'[s] = heads[s] \/ heads'[s] = NoHead
    BY <2>5 DEF DropHead, TypeOK
  <2> HIDE DEF Good
  <2>6. Good
    BY <2>1, <2>2, <2>3, <2>4, <2>5, HeadChanges
  <2> QED BY <2>6 DEF Good
<1>3. s \in dropped' \union condemned' => s \in created'
  BY <1>0 DEF KnownOK, Kept
<1>4. Turns(s)' # {} => s \in created'
  <2>1. ASSUME written' = written PROVE Turns(s)' = Turns(s)
    BY <2>1 DEF Turns
  <2>2. ASSUME NEW c \in Caller, WriteChunk(c) \/ WriteFails(c), NEW k \in Turns(s)'
        PROVE  Turns(s) # {} \/ s \in created
    <3>1. NewChunk(c) /\ sess[c] \in Session /\ sess[c] \in created
      BY <2>2 DEF WriteChunk, WriteFails, NewChunk, LineageInv, LineageOK, ApartInv, ApartOK
    <3>2. /\ Len(written') = Len(written) + 1
          /\ written'[Len(written) + 1] = [session |-> sess[c], seq |-> Len(base[c].chunks)]
          /\ \A j \in 1..Len(written) : written'[j] = written[j]
      BY <3>1, NewChunkType
    <3>3. k \in 1..Len(written') /\ written'[k].session = s
      BY DEF Turns
    <3>4. Len(written) \in Nat
      BY DEF TypeOK
    <3>5. CASE k = Len(written) + 1
      BY <3>1, <3>2, <3>3, <3>5
    <3>6. CASE k \in 1..Len(written)
      BY <3>2, <3>3, <3>6 DEF Turns
    <3> QED BY <3>2, <3>3, <3>4, <3>5, <3>6
  <2>3. ASSUME NEW c \in Caller, NEW t \in Session, Starts(c, t) PROVE written' = written
    BY <2>3 DEF Starts, Create, Extend, Forget, Link, Rebuild, storage
  <2>4. ASSUME NEW c \in Caller, Reads(c) PROVE written' = written \/ WriteChunk(c) \/ WriteFails(c)
    BY <2>4 DEF Reads, Index, Adopt, Settle, Tombstone, Disown, Unindex, Check, Restore, Reindex,
                Fail, storage
  <2>5. ASSUME NEW c \in Caller, Writes(c) PROVE written' = written
    BY <2>5 DEF Writes, StoreHead, AdoptWrite, DisownWrite, LinkWrite, Rewrite, Drop, storage
  <2>6. Flush \/ (\E t \in Session : DropHead(t)) \/ UNCHANGED vars => written' = written
    BY DEF Flush, DropHead, vars, storage
  <2>7. Turns(s)' # {} => Turns(s) # {} \/ s \in created
    BY <2>1, <2>2, <2>3, <2>4, <2>5, <2>6, NextKinds
  <2> QED BY <1>0, <2>7 DEF KnownOK, Kept
<1>5. \A m \in Memory : /\ <<s, m>> \in linked' => <<s, m>> \in sourced'
                        /\ <<s, m>> \in sourced' => s \in created'
  <2> SUFFICES ASSUME NEW m \in Memory
               PROVE  /\ <<s, m>> \in linked' => <<s, m>> \in sourced'
                      /\ <<s, m>> \in sourced' => s \in created'
    OBVIOUS
  <2>1. linked' = linked /\ sourced' = sourced
        => /\ <<s, m>> \in linked' => <<s, m>> \in sourced'
           /\ <<s, m>> \in sourced' => s \in created'
    BY <1>0 DEF KnownOK, Kept
  <2>2. ASSUME NEW c \in Caller, LinkWrite(c)
        PROVE  sourced' = sourced /\ (<<s, m>> \in linked' => <<s, m>> \in sourced)
    <3>1. /\ sourced' = sourced /\ pc[c] = "link"
          /\ linked' \subseteq linked \union ({sess[c]} \X base[c].memories)
      BY <2>2 DEF LinkWrite
    <3>2. \A x \in base[c].memories : <<sess[c], x>> \in sourced
      BY <3>1 DEF ApartInv, ApartOK, Based, Revising, Owner
    <3> QED BY <1>0, <3>1, <3>2 DEF KnownOK
  <2>3. ASSUME NEW c \in Caller, NEW t \in Session, NEW x \in Memory, Link(c, t, x)
        PROVE  linked' = linked /\ sourced' = sourced \union {<<t, x>>} /\ Held(t)
    BY <2>3 DEF Link, answers
  <2>4. ASSUME NEW c \in Caller, NEW t \in Session, Starts(c, t)
        PROVE  \/ linked' = linked /\ sourced' = sourced
               \/ \E x \in Memory : Link(c, t, x)
    BY <2>4 DEF Starts, Create, Extend, Forget, Rebuild, answers
  <2>5. ASSUME NEW c \in Caller, Reads(c) PROVE linked' = linked /\ sourced' = sourced
    BY <2>5 DEF Reads, WriteChunk, WriteFails, Index, Adopt, Settle, Tombstone, Disown, Unindex,
              Check, Restore, Reindex, Fail, answers
  <2>6. ASSUME NEW c \in Caller, Writes(c)
        PROVE  (linked' = linked /\ sourced' = sourced) \/ LinkWrite(c)
    BY <2>6 DEF Writes, StoreHead, AdoptWrite, DisownWrite, Rewrite, Drop, answers
  <2>7. Flush \/ (\E t \in Session : DropHead(t)) \/ UNCHANGED vars
        => linked' = linked /\ sourced' = sourced
    BY DEF Flush, DropHead, vars, answers
  <2>8. ASSUME NEW c \in Caller, NEW t \in Session, NEW x \in Memory, Link(c, t, x)
        PROVE  /\ <<s, m>> \in linked' => <<s, m>> \in sourced'
               /\ <<s, m>> \in sourced' => s \in created'
    <3>1. <<s, m>> = <<t, x>> => s = t
      OBVIOUS
    <3> QED BY <1>0, <2>3, <2>8, <3>1 DEF KnownOK, Kept
  <2>9. ASSUME NEW c \in Caller, LinkWrite(c)
        PROVE  /\ <<s, m>> \in linked' => <<s, m>> \in sourced'
               /\ <<s, m>> \in sourced' => s \in created'
    BY <1>0, <2>2, <2>9 DEF KnownOK, Kept
  <2> QED BY <2>1, <2>4, <2>5, <2>6, <2>7, <2>8, <2>9, NextKinds
<1> QED BY <1>2, <1>3, <1>4, <1>5 DEF KnownOK

(* Every step keeps what the calls know.                                    *)
LEMMA ApartStep ==
  ASSUME TypeOK, TypeOK', LineageInv, ApartInv, Grown, [Next]_vars
  PROVE  ApartInv'
<1>1. AloneInv' /\ \A s \in Session : KnownOK(s)'
  BY AloneStep, KnownStep DEF ApartInv
<1>2. ASSUME NEW c \in Caller, NEW s \in Session, Starts(c, s) \/ Reads(c) \/ Writes(c)
      PROVE  \A e \in Caller : ApartOK(e)'
  <2>1. ApartOK(c)'
    BY <1>2, ApartStart, ApartRead, ApartWrite
  <2>2. \A e \in Caller \ {c} : ApartOK(e)'
    BY <1>2, Others, ApartStays
  <2> QED BY <2>1, <2>2
<1>3. Flush \/ (\E s \in Session : DropHead(s)) \/ UNCHANGED vars => \A e \in Caller : ApartOK(e)'
  <2>1. Flush \/ (\E s \in Session : DropHead(s)) \/ UNCHANGED vars => UNCHANGED call
    BY DEF Flush, DropHead, vars, call
  <2> QED BY <2>1, ApartStays DEF call
<1>4. ASSUME NEW c \in Caller, Reads(c) \/ Writes(c) PROVE sess[c] \in Session
  BY <1>4 DEF LineageInv, LineageOK, Reads, WriteChunk, NewChunk, WriteFails, Index, Adopt,
         Settle, Tombstone, Disown, Unindex, Check, Restore, Reindex, Fail, Writes, StoreHead,
         AdoptWrite, DisownWrite, LinkWrite, Rewrite, Drop
<1>5. \A e \in Caller : ApartOK(e)'
  BY <1>2, <1>3, <1>4, NextKinds
<1> QED BY <1>1, <1>5 DEF ApartInv

(* What is put over a head nobody else destroys or makes anew has all of it.*)
LEMMA PutGrows ==
  ASSUME TypeOK, LineageInv, ApartInv, NEW c \in Caller, NEW t \in Session, Puts(c, t), Apart(t),
         Held(t)
  PROVE  /\ pc[c] \in Revising /\ Revises(c, heads[t])
         /\ Grows(heads[t].chunks, base[c].chunks) /\ heads[t].memories \subseteq base[c].memories
         /\ base[c].children \subseteq heads[t].children \union
              (IF pc[c] = "adoptWrite" THEN {sess[c]} ELSE {})
         /\ base[c].parented = heads[t].parented
<1>1. pc[c] # "rewrite"
  BY DEF ApartInv, ApartOK, Puts, Owner
<1>2. pc[c] \in Revising /\ Revises(c, heads[t])
  BY <1>1 DEF Puts, ApartInv, ApartOK
<1>3. heads[t] # NoHead /\ heads[t].version = base[c].version
  BY DEF Puts, Matches, Held
<1> QED BY <1>2, <1>3 DEF Revises

(* All that is known so far is kept by every step.                          *)
LEMMA SessionsStep ==
  ASSUME TypeOK, LineageInv, TranscriptInv, ApartInv, [Next]_vars
  PROVE  TypeOK' /\ LineageInv' /\ TranscriptInv' /\ ApartInv'
<1>1. TypeOK'
  BY StartType, ReadType, WriteType, RestType, NextKinds
<1> QED BY <1>1, LineageStep, TranscriptStep, StepGrows, ApartStep

(* All that is known so far holds at the start.                             *)
LEMMA ApartBegins ==
  ASSUME Init
  PROVE  ApartInv
<1>1. \A s \in Session : heads[s] = NoHead
  BY DEF Init
<1>2. \A c \in Caller : pc[c] = "idle"
  BY DEF Init
<1>3. \A c \in Caller : ApartOK(c)
  BY <1>2 DEF ApartOK, Based, Revising, Remaking
<1>4. AloneInv
  BY <1>2 DEF AloneInv, Condemns, Forgets, Rebuilds
<1>5. \A s \in Session : KnownOK(s)
  <2>1. dropped = {} /\ condemned = {} /\ linked = {} /\ sourced = {} /\ Len(written) = 0
    BY DEF Init
  <2> QED BY <1>1, <2>1, NoHeadIsHead DEF KnownOK, Held, Turns
<1> QED BY <1>3, <1>4, <1>5 DEF ApartInv

(* A transcript is only ever replaced by one that goes on from it.          *)
THEOREM TranscriptsGrow == Spec => TranscriptsOnlyGrow
<1> DEFINE Inv == TypeOK /\ LineageInv /\ TranscriptInv /\ ApartInv
           Goes(s) == /\ heads'[s].version = heads[s].version + 1
                      /\ Apart(s) => Grows(heads[s].chunks, heads'[s].chunks)
           Step == \A s \in Session : (heads'[s] # heads[s] /\ Held(s) /\ heads'[s] # NoHead) => Goes(s)
<1>1. Inv /\ [Next]_vars => [Step]_heads
  <2> SUFFICES ASSUME Inv, [Next]_vars, NEW s \in Session,
                      heads'[s] # heads[s], Held(s), heads'[s] # NoHead
               PROVE  Goes(s)
    OBVIOUS
  <2>1. ASSUME NEW c \in Caller, NEW t \in Session, Puts(c, t) PROVE Goes(s)
    <3>1. base[c] \in SessionHead
      BY DEF TypeOK
    <3>2. t = s
      BY <2>1, <3>1, PutHead DEF Puts
    <3>3. heads'[s].version = base[c].version + 1 /\ heads'[s].chunks = base[c].chunks
      BY <2>1, <3>1, <3>2, PutHead DEF Puts
    <3>4. heads[s].version = base[c].version
      BY <2>1, <3>2 DEF Puts, Matches, Held
    <3> QED BY <2>1, <3>2, <3>3, <3>4, PutGrows
  <2>2. ASSUME NEW c \in Caller, NEW t \in Session, Drops(c, t) PROVE FALSE
    BY <2>2 DEF Drops, TypeOK
  <2>3. ASSUME NEW t \in Session, DropHead(t) PROVE FALSE
    BY <2>3 DEF DropHead, TypeOK
  <2> QED BY <2>1, <2>2, <2>3, HeadChanges
<1>2. Init => Inv
  BY TranscriptStart, ApartBegins
<1>3. Inv /\ [Next]_vars => Inv'
  BY SessionsStep
<1> QED BY <1>1, <1>2, <1>3, PTL DEF Spec, TranscriptsOnlyGrow

-----------------------------------------------------------------------------
(* What a head names it goes on naming as its transcript grows.             *)
LEMMA NamedGrows ==
  ASSUME NEW old \in SessionHead, NEW new \in SessionHead, Grows(old.chunks, new.chunks)
  PROVE  Named(old) \subseteq Named(new)
<1>1. old.chunks \in Seq(Chunk) /\ new.chunks \in Seq(Chunk)
  BY Fields
<1>2. PICK q, r : q = old.chunks /\ r = new.chunks
  OBVIOUS
<1>3. /\ q \in Seq(Chunk) /\ r \in Seq(Chunk) /\ Len(q) <= Len(r)
      /\ \A i \in 1..Len(q) : r[i] = q[i]
  BY <1>1, <1>2, GrowsByPlace
<1>4. \A i \in DOMAIN q : i \in DOMAIN r /\ r[i] = q[i]
  BY <1>3
<1> QED BY <1>2, <1>4 DEF Named

(* What may become of a head that nobody destroys or makes anew.            *)
LEMMA HeadKeeps ==
  ASSUME TypeOK, LineageInv, TranscriptInv, ApartInv, [Next]_vars,
         NEW s \in Session, s \notin contended', s \notin condemned', Held(s)
  PROVE  \/ /\ Held(s)' /\ Named(heads[s]) \subseteq Named(heads'[s])
            /\ heads[s].memories \subseteq heads'[s].memories
         \/ ~ Held(s)' /\ s \in dropped'
<1> DEFINE Keeps == \/ /\ Held(s)' /\ Named(heads[s]) \subseteq Named(heads'[s])
                       /\ heads[s].memories \subseteq heads'[s].memories
                    \/ ~ Held(s)' /\ s \in dropped'
<1>1. Kept /\ Apart(s) /\ s \notin condemned
  BY StepKeeps DEF Kept, Apart
<1>2. heads'[s] = heads[s] => Keeps
  BY DEF Held
<1>3. ASSUME NEW c \in Caller, Puts(c, s) PROVE Keeps
  <2>1. base[c] \in SessionHead /\ heads[s] \in SessionHead
    BY DEF TypeOK
  <2>2. /\ heads'[s] # NoHead /\ heads'[s].chunks = base[c].chunks
        /\ heads'[s].memories = base[c].memories
    BY <1>3, <2>1, PutHead DEF Puts
  <2>3. Grows(heads[s].chunks, base[c].chunks) /\ heads[s].memories \subseteq base[c].memories
    BY <1>1, <1>3, PutGrows
  <2>4. Named(heads[s]) \subseteq Named(base[c])
    BY <2>1, <2>3, NamedGrows
  <2>5. Named(heads'[s]) = Named(base[c])
    BY <2>2 DEF Named
  <2> QED BY <2>2, <2>3, <2>4, <2>5 DEF Held
<1>4. ASSUME NEW c \in Caller, Drops(c, s) PROVE FALSE
  BY <1>1, <1>4 DEF Drops, TranscriptInv, TranscriptOK, Forgets
<1>5. ASSUME DropHead(s) PROVE Keeps
  BY <1>5 DEF DropHead, TypeOK, Held
<1>6. ASSUME NEW c \in Caller, NEW t \in Session, Puts(c, t) \/ Drops(c, t), t # s
      PROVE  heads'[s] = heads[s]
  <2>1. base[c] \in SessionHead
    BY DEF TypeOK
  <2> QED BY <1>6, <2>1, PutHead DEF Puts, Drops, TypeOK
<1>7. ASSUME NEW t \in Session, DropHead(t), t # s PROVE heads'[s] = heads[s]
  BY <1>7 DEF DropHead, TypeOK
<1> HIDE DEF Keeps
<1>8. Keeps
  BY <1>2, <1>3, <1>4, <1>5, <1>6, <1>7, HeadChanges
<1> QED BY <1>8 DEF Keeps

(* Who may make one where there is none.                                    *)
LEMMA HeadMade ==
  ASSUME TypeOK, LineageInv, ApartInv, [Next]_vars,
         NEW s \in Session, s \notin contended', ~ Held(s), Held(s)'
  PROVE  \E c \in Caller :
           /\ Puts(c, s) /\ sess[c] = s
           /\ \/ pc[c] = "write" /\ base[c].version = 0 /\ s \notin dropped
              \/ pc[c] = "rewrite"
<1>1. Kept /\ Apart(s)
  BY StepKeeps DEF Kept, Apart
<1>2. ASSUME NEW c \in Caller, NEW t \in Session, Puts(c, t) \/ Drops(c, t)
      PROVE  Puts(c, s)
  <2>1. base[c] \in SessionHead
    BY DEF TypeOK
  <2> QED BY <1>2, <2>1, PutHead DEF Puts, Drops, TypeOK, Held
<1>3. ASSUME NEW t \in Session, DropHead(t) PROVE FALSE
  BY <1>3 DEF DropHead, TypeOK, Held
<1>4. PICK c \in Caller : Puts(c, s)
  BY <1>2, <1>3, HeadChanges DEF Held
<1>5. CASE pc[c] = "rewrite"
  BY <1>4, <1>5 DEF Puts, Owner
<1>6. CASE pc[c] \in Revising
  <2>1. Revises(c, heads[s])
    BY <1>1, <1>4, <1>6 DEF ApartInv, ApartOK, Puts
  <2> QED BY <1>4, <2>1 DEF Revises, Held, Puts, Owner
<1> QED BY <1>4, <1>5, <1>6 DEF Puts

(* A chunk or a memory in a head stays in it.                               *)
LEMMA InHeadStays ==
  ASSUME TypeOK, LineageInv, TranscriptInv, ApartInv, AckInv, [Next]_vars,
         NEW s \in Session, s \notin contended', s \notin condemned'
  PROVE  /\ \A k \in Turns(s) : InHead(s, k) => InHead(s, k)'
         /\ \A m \in Memory : (<<s, m>> \in sourced /\ Listed(s, m)) => Listed(s, m)'
<1>1. Kept /\ Apart(s) /\ s \notin condemned
  BY StepKeeps DEF Kept, Apart
<1>2. CASE Held(s)
  BY <1>2, HeadKeeps DEF InHead, Listed
<1>3. CASE ~ Held(s) /\ ~ Held(s)'
  BY <1>1, <1>3 DEF InHead, Listed, Kept
<1>4. CASE ~ Held(s) /\ Held(s)'
  <2>1. s \in dropped =>
          \E c \in Caller : Puts(c, s) /\ sess[c] = s /\ pc[c] = "rewrite"
    BY <1>4, HeadMade
  <2>2. ASSUME NEW c \in Caller, Puts(c, s), sess[c] = s, pc[c] = "rewrite"
        PROVE  /\ Turns(s) \subseteq Named(heads'[s])
               /\ \A m \in Memory : <<s, m>> \in sourced => m \in heads'[s].memories
    <3>1. base[c] \in SessionHead
      BY DEF TypeOK
    <3>2. heads'[s].chunks = base[c].chunks /\ heads'[s].memories = base[c].memories
      BY <2>2, <3>1, PutHead DEF Puts
    <3>3. /\ Turns(s) \subseteq Named(base[c])
          /\ \A m \in Memory : <<s, m>> \in sourced => m \in base[c].memories
      BY <1>1, <2>2 DEF AckInv, AckOK, Remaking
    <3> QED BY <3>2, <3>3 DEF Named
  <2> QED BY <1>4, <2>1, <2>2 DEF InHead, Listed
<1> QED BY <1>2, <1>3, <1>4

(* Where new chunks of a session come from, and new memories.               *)
LEMMA NewTurn ==
  ASSUME TypeOK, LineageInv, [Next]_vars, NEW s \in Session, NEW k \in Turns(s)', k \notin Turns(s)
  PROVE  \E c \in Caller : pc[c] = "write" /\ sess[c] = s
<1>1. written' = written => FALSE
  BY DEF Turns
<1>2. ASSUME NEW c \in Caller, WriteChunk(c) \/ WriteFails(c)
      PROVE  pc[c] = "write" /\ sess[c] = s
  <2>1. NewChunk(c) /\ sess[c] \in Session /\ pc[c] = "write"
    BY <1>2 DEF WriteChunk, WriteFails, NewChunk, LineageInv, LineageOK
  <2>2. /\ Len(written') = Len(written) + 1
        /\ written'[Len(written) + 1] = [session |-> sess[c], seq |-> Len(base[c].chunks)]
        /\ \A j \in 1..Len(written) : written'[j] = written[j]
    BY <2>1, NewChunkType
  <2>3. k \in 1..Len(written') /\ written'[k].session = s
    BY DEF Turns
  <2>4. Len(written) \in Nat
    BY DEF TypeOK
  <2>5. k \notin 1..Len(written)
    BY <2>2, <2>3 DEF Turns
  <2>6. k = Len(written) + 1
    BY <2>2, <2>3, <2>4, <2>5
  <2> QED BY <2>1, <2>2, <2>3, <2>6
<1>3. ASSUME NEW c \in Caller, NEW t \in Session, Starts(c, t) PROVE written' = written
  BY <1>3 DEF Starts, Create, Extend, Forget, Link, Rebuild, storage
<1>4. ASSUME NEW c \in Caller, Reads(c) PROVE written' = written \/ WriteChunk(c) \/ WriteFails(c)
  BY <1>4 DEF Reads, Index, Adopt, Settle, Tombstone, Disown, Unindex, Check, Restore, Reindex,
              Fail, storage
<1>5. ASSUME NEW c \in Caller, Writes(c) PROVE written' = written
  BY <1>5 DEF Writes, StoreHead, AdoptWrite, DisownWrite, LinkWrite, Rewrite, Drop, storage
<1>6. Flush \/ (\E t \in Session : DropHead(t)) \/ UNCHANGED vars => written' = written
  BY DEF Flush, DropHead, vars, storage
<1> QED BY <1>1, <1>2, <1>3, <1>4, <1>5, <1>6, NextKinds

(* A memory that is new in a head comes from a call that links it.          *)
LEMMA NewSource ==
  ASSUME TypeOK, [Next]_vars, NEW s \in Session, NEW m \in Memory,
         <<s, m>> \in sourced', <<s, m>> \notin sourced
  PROVE  \E c \in Caller : pc[c] = "idle" /\ pc'[c] = "link" /\ sess'[c] = s
<1>1. ASSUME NEW c \in Caller, NEW t \in Session, NEW x \in Memory, Link(c, t, x)
      PROVE  pc[c] = "idle" /\ pc'[c] = "link" /\ sess'[c] = s
  <2>1. /\ pc[c] = "idle" /\ pc'[c] = "link" /\ sess'[c] = t /\ sourced' = sourced \union {<<t, x>>}
    BY <1>1, LinkStep
  <2> QED BY <2>1
<1>2. ASSUME NEW c \in Caller, NEW t \in Session, Starts(c, t)
      PROVE  sourced' = sourced \/ \E x \in Memory : Link(c, t, x)
  BY <1>2 DEF Starts, Create, Extend, Forget, Rebuild
<1>3. ASSUME NEW c \in Caller, Reads(c) PROVE sourced' = sourced
  BY <1>3 DEF Reads, WriteChunk, WriteFails, Index, Adopt, Settle, Tombstone, Disown, Unindex,
              Check, Restore, Reindex, Fail
<1>4. ASSUME NEW c \in Caller, Writes(c) PROVE sourced' = sourced
  BY <1>4 DEF Writes, StoreHead, AdoptWrite, DisownWrite, LinkWrite, Rewrite, Drop
<1>5. Flush \/ (\E t \in Session : DropHead(t)) \/ UNCHANGED vars => sourced' = sourced
  BY DEF Flush, DropHead, vars
<1> QED BY <1>1, <1>2, <1>3, <1>4, <1>5, NextKinds

(* A call that does not move keeps what it will have stored.                *)
LEMMA AckStays ==
  ASSUME TypeOK, LineageInv, TranscriptInv, ApartInv, ApartInv', AckInv, [Next]_vars, NEW e \in Caller,
         pc'[e] = pc[e], sess'[e] = sess[e], base'[e] = base[e], wrote'[e] = wrote[e]
  PROVE  AckOK(e)'
<1>1. PICK s : s = sess[e]
  OBVIOUS
<1>2. SUFFICES ASSUME s \notin contended', s \notin condemned'
               PROVE  /\ pc[e] = "write" => wrote[e] \subseteq Named(base[e])
                      /\ pc[e] \in Saved => \A k \in wrote[e] : InHead(s, k)'
                      /\ pc[e] \in Remaking =>
                           /\ Turns(s)' \subseteq Named(base[e])
                           /\ \A m \in Memory : <<s, m>> \in sourced' => m \in base[e].memories
  BY <1>1 DEF AckOK, Apart
<1>3. Kept /\ Apart(s) /\ s \notin condemned
  BY StepKeeps, <1>2 DEF Kept, Apart
<1>4. AckOK(e) /\ wrote[e] \subseteq Turns(s) /\ (pc[e] # "idle" => s \in Session)
  BY <1>1 DEF AckInv, TranscriptInv, TranscriptOK, LineageInv, LineageOK
<1>5. pc[e] \in Saved => \A k \in wrote[e] : InHead(s, k)'
  BY <1>1, <1>2, <1>3, <1>4, InHeadStays DEF AckOK, Saved
<1>6. ASSUME pc[e] \in Remaking
      PROVE  /\ Turns(s)' \subseteq Turns(s)
             /\ \A m \in Memory : <<s, m>> \in sourced' => <<s, m>> \in sourced
  <2>1. s \in Session /\ s \in Condemns(e) /\ s \in Condemns(e)'
    BY <1>1, <1>4, <1>6 DEF Remaking, Condemns, Rebuilds
  <2>2. ASSUME NEW k \in Turns(s)', k \notin Turns(s) PROVE FALSE
    <3>1. PICK c \in Caller : pc[c] = "write" /\ sess[c] = s
      BY <2>1, <2>2, NewTurn
    <3>2. c # e /\ s \in Touches(c)
      BY <1>6, <3>1 DEF Remaking, Touches
    <3> QED BY <1>3, <2>1, <3>2 DEF ApartInv, AloneInv, Apart
  <2>3. ASSUME NEW m \in Memory, <<s, m>> \in sourced', <<s, m>> \notin sourced PROVE FALSE
    <3>1. PICK c \in Caller : pc[c] = "idle" /\ pc'[c] = "link" /\ sess'[c] = s
      BY <2>1, <2>3, NewSource
    <3>2. c # e /\ s \in Touches(c)'
      BY <1>6, <3>1 DEF Remaking, Touches
    <3> QED BY <1>2, <2>1, <3>2 DEF ApartInv, AloneInv
  <2> QED BY <2>2, <2>3
<1> QED BY <1>1, <1>3, <1>4, <1>5, <1>6 DEF AckOK

(* A save whose head is stored has its chunks there.                        *)
LEMMA SavedStays ==
  ASSUME TypeOK, LineageInv, TranscriptInv, ApartInv, AckInv, [Next]_vars, NEW c \in Caller,
         pc[c] \in Saved, pc'[c] \in Saved, sess'[c] = sess[c], wrote'[c] = wrote[c]
  PROVE  AckOK(c)'
<1>1. PICK s : s = sess[c]
  OBVIOUS
<1>2. SUFFICES ASSUME s \notin contended', s \notin condemned'
               PROVE  \A k \in wrote[c] : InHead(s, k)'
  BY <1>1 DEF AckOK, Apart, Saved, Remaking
<1>3. Kept /\ Apart(s) /\ s \notin condemned
  BY StepKeeps, <1>2 DEF Kept, Apart
<1>4. AckOK(c) /\ wrote[c] \subseteq Turns(s) /\ s \in Session
  BY <1>1 DEF AckInv, TranscriptInv, TranscriptOK, LineageInv, LineageOK, Saved
<1> QED BY <1>1, <1>2, <1>3, <1>4, InHeadStays DEF AckOK

(* A call that moves keeps what it will have stored.                        *)
LEMMA AckActs ==
  ASSUME TypeOK, TypeOK', LineageInv, TranscriptInv, TranscriptInv', ApartInv, ApartInv', AckInv,
         [Next]_vars, NEW c \in Caller, NEW s \in Session, Starts(c, s) \/ Reads(c) \/ Writes(c)
  PROVE  AckOK(c)'
<1> USE DEF Saved, Remaking
<1>0. AckOK(c) /\ TranscriptOK(c)
  BY DEF AckInv, TranscriptInv
<1>1. ASSUME pc'[c] \notin {"write"} \union Saved \union Remaking PROVE AckOK(c)'
  BY <1>1 DEF AckOK
<1>2. CASE Return(c)
  BY <1>1, <1>2 DEF Return, Goto, TypeOK
<1>3. CASE Starts(c, s)
  <2>1. wrote'[c] = {}
    BY <1>0, <1>3 DEF Starts, Create, Extend, Forget, Link, Rebuild, Begin, TranscriptOK
  <2>2. pc'[c] = "write" => AckOK(c)'
    BY <2>1 DEF AckOK
  <2>3. Rebuild(c, s) \/ pc'[c] \in {"write", "tombstone", "link"}
    BY <1>3 DEF Starts, Create, Extend, Forget, Link, Begin, TypeOK
  <2>4. CASE Rebuild(c, s)
    <3>1. PICK q : q = base'[c].chunks
      OBVIOUS
    <3>2. /\ pc'[c] = "check" /\ sess'[c] = s /\ q \in Orders(s)
          /\ base'[c].memories = {m \in Memory : <<s, m>> \in sourced}
          /\ UNCHANGED <<sourced, condemned>> /\ Turns(s)' = Turns(s)
      BY <2>4, <3>1, RebuildStep DEF storage, Turns
    <3>3. s \notin condemned => Turns(s) \subseteq {q[i] : i \in DOMAIN q}
      BY <3>2, OrderIsWhole DEF TranscriptInv
    <3> QED BY <3>1, <3>2, <3>3 DEF AckOK, Named
  <2> QED BY <1>1, <2>2, <2>3, <2>4
<1>4. CASE WriteChunk(c)
  <2>1. PICK t, q, k, r : t = sess[c] /\ q = base[c].chunks /\ k = Len(written) + 1
                           /\ r = Append(q, k)
    OBVIOUS
  <2>2. /\ pc[c] = "write" /\ pc'[c] = "write" /\ t \in Session /\ sess'[c] = t
        /\ base'[c].chunks = r /\ wrote'[c] = wrote[c] \union {k}
        /\ UNCHANGED <<contended, condemned>>
    BY <1>4, <2>1, WriteChunkStep DEF scenes
  <2>3. q \in Seq(Chunk)
    BY <2>1, Fields DEF TypeOK
  <2>4. /\ DOMAIN r = 1..(Len(q) + 1) /\ DOMAIN q = 1..Len(q) /\ Len(q) \in Nat
        /\ r[Len(q) + 1] = k /\ \A i \in 1..Len(q) : r[i] = q[i]
    BY <2>1, <2>3
  <2>5. k \in Named(base'[c])
    <3>1. Len(q) + 1 \in DOMAIN r
      BY <2>4
    <3> QED BY <2>2, <2>4, <3>1 DEF Named
  <2>6. Named(base[c]) \subseteq Named(base'[c])
    <3>1. \A i \in DOMAIN q : i \in DOMAIN r /\ r[i] = q[i]
      BY <2>4
    <3> QED BY <2>1, <2>2, <3>1 DEF Named
  <2> QED BY <1>0, <2>1, <2>2, <2>5, <2>6 DEF AckOK, Apart
<1>5. CASE (Index(c) \/ Adopt(c) \/ AdoptWrite(c)) /\ ~ Return(c)
  <2>1. /\ pc[c] \in Saved /\ pc'[c] \in Saved /\ sess' = sess /\ wrote' = wrote
    BY <1>5 DEF Index, Adopt, AdoptWrite, Goto, TypeOK
  <2> QED BY <2>1, SavedStays
<1>6. CASE Tombstone(c) \/ Disown(c) \/ Unindex(c) \/ (DisownWrite(c) /\ ~ Return(c))
  <2>1. pc'[c] \in {"tombstone", "unindex", "disownWrite", "drop"}
    BY <1>6 DEF Tombstone, Disown, Unindex, DisownWrite, Goto, TypeOK
  <2> QED BY <1>1, <2>1
<1>7. CASE (Check(c) /\ ~ Return(c)) \/ Restore(c)
  <2>1. /\ pc[c] \in Remaking /\ pc'[c] \in Remaking /\ sess' = sess
        /\ base'[c].chunks = base[c].chunks /\ base'[c].memories = base[c].memories
        /\ UNCHANGED <<written, sourced, contended, condemned>>
    <3>1. CASE Check(c) /\ ~ Return(c)
      BY <3>1 DEF Check, Goto, TypeOK, storage, scenes
    <3>2. CASE Restore(c)
      BY <3>2, RestoreStep DEF storage, scenes
    <3> QED BY <1>7, <3>1, <3>2
  <2>2. Turns(sess[c])' = Turns(sess[c])
    BY <2>1 DEF Turns
  <2>3. pc'[c] # "write" /\ pc'[c] \notin Saved
    BY <2>1
  <2> QED BY <1>0, <2>1, <2>2, <2>3 DEF AckOK, Apart, Named
<1>8. CASE StoreHead(c) /\ ~ Return(c)
  <2>1. PICK t : t = sess[c]
    OBVIOUS
  <2>2. /\ pc[c] = "write" /\ pc'[c] = "index" /\ t \in Session /\ Put(t, base[c])
        /\ UNCHANGED <<sess, base, wrote, contended, condemned>>
    BY <1>8, <2>1 DEF StoreHead, Goto, TypeOK, scenes, LineageInv, LineageOK
  <2>3. heads'[t] # NoHead /\ heads'[t].chunks = base[c].chunks
    <3>1. base[c] \in SessionHead
      BY DEF TypeOK
    <3> QED BY <2>2, <3>1, PutHead
  <2>4. Named(base[c]) = Named(heads'[t]) /\ Held(t)'
    BY <2>3 DEF Named, Held
  <2>5. (t \notin contended' /\ t \notin condemned') => \A k \in wrote[c] : InHead(t, k)'
    BY <1>0, <2>1, <2>2, <2>4 DEF AckOK, Apart, InHead
  <2> QED BY <2>1, <2>2, <2>5 DEF AckOK, Apart
<1>9. CASE Rewrite(c) /\ ~ Return(c)
  <2>1. pc'[c] = "reindex"
    BY <1>9 DEF Rewrite, Goto, TypeOK
  <2> QED BY <1>1, <2>1
<1>10. WriteFails(c) \/ Settle(c) \/ Reindex(c) \/ Fail(c) \/ LinkWrite(c) \/ Drop(c) => Return(c)
  BY DEF WriteFails, Settle, Reindex, Fail, LinkWrite, Drop
<1> QED BY <1>2, <1>3, <1>4, <1>5, <1>6, <1>7, <1>8, <1>9, <1>10 DEF Reads, Writes

(* What has been acknowledged stays in its head.                            *)
LEMMA AckedStep ==
  ASSUME TypeOK, LineageInv, TranscriptInv, ApartInv, AckInv, Grown, [Next]_vars,
         NEW s \in Session, s \notin contended', s \notin condemned'
  PROVE  /\ \A k \in acked' : written'[k].session = s => InHead(s, k)'
         /\ \A m \in Memory : <<s, m>> \in linked' => Listed(s, m)'
<1>1. Kept /\ Apart(s) /\ s \notin condemned
  BY StepKeeps DEF Kept, Apart
<1>2. \A k \in acked : written'[k].session = s => InHead(s, k)'
  <2> SUFFICES ASSUME NEW k \in acked, written'[k].session = s PROVE InHead(s, k)'
    OBVIOUS
  <2>1. k \in Turns(s)
    BY DEF TranscriptInv, Grown, Turns
  <2>2. InHead(s, k)
    BY <1>1, <2>1 DEF AckInv, Turns
  <2> QED BY <2>1, <2>2, InHeadStays
<1>3. \A m \in Memory : <<s, m>> \in linked => Listed(s, m)'
  BY <1>1, InHeadStays DEF AckInv, ApartInv, KnownOK
<1>4. ASSUME NEW c \in Caller, Settle(c)
      PROVE  /\ \A k \in acked' : written'[k].session = s => InHead(s, k)'
             /\ linked' = linked
  <2>1. acked' = acked \union wrote[c] /\ linked' = linked /\ pc[c] = "settle"
    BY <1>4 DEF Settle
  <2>2. ASSUME NEW k \in wrote[c], written'[k].session = s PROVE InHead(s, k)'
    <3>1. k \in Turns(sess[c])
      BY DEF TranscriptInv, TranscriptOK
    <3>2. k \in Turns(s) /\ s = sess[c]
      BY <2>2, <3>1 DEF Grown, Turns
    <3>3. InHead(s, k)
      BY <1>1, <2>1, <3>2 DEF AckInv, AckOK, Saved
    <3> QED BY <3>2, <3>3, InHeadStays
  <2> QED BY <1>2, <2>1, <2>2
<1>5. ASSUME NEW c \in Caller, LinkWrite(c)
      PROVE  /\ \A m \in Memory : <<s, m>> \in linked' => Listed(s, m)'
             /\ acked' = acked
  <2>1. acked' = acked /\ pc[c] = "link" /\ sess[c] \in Session
        /\ \/ linked' = linked
           \/ Put(sess[c], base[c]) /\ linked' = linked \union ({sess[c]} \X base[c].memories)
    BY <1>5 DEF LinkWrite, LineageInv, LineageOK
  <2>2. CASE linked' = linked
    BY <1>3, <2>1, <2>2
  <2>3. CASE Put(sess[c], base[c]) /\ linked' = linked \union ({sess[c]} \X base[c].memories)
    <3>1. base[c] \in SessionHead
      BY DEF TypeOK
    <3>2. heads'[sess[c]] # NoHead /\ heads'[sess[c]].memories = base[c].memories
      BY <2>1, <2>3, <3>1, PutHead
    <3>3. ASSUME NEW m \in Memory, <<s, m>> \in {sess[c]} \X base[c].memories
          PROVE  Listed(s, m)'
      BY <3>2, <3>3 DEF Listed, Held
    <3> QED BY <1>3, <2>1, <2>3, <3>3
  <2> QED BY <2>1, <2>2, <2>3
<1>6. acked' = acked /\ linked' = linked
      => /\ \A k \in acked' : written'[k].session = s => InHead(s, k)'
         /\ \A m \in Memory : <<s, m>> \in linked' => Listed(s, m)'
  BY <1>2, <1>3
<1>7. ASSUME NEW c \in Caller, NEW t \in Session, Starts(c, t)
      PROVE  acked' = acked /\ linked' = linked
  BY <1>7 DEF Starts, Create, Extend, Forget, Link, Rebuild, answers
<1>8. ASSUME NEW c \in Caller, Reads(c) PROVE (acked' = acked /\ linked' = linked) \/ Settle(c)
  BY <1>8 DEF Reads, WriteChunk, WriteFails, Index, Adopt, Tombstone, Disown, Unindex, Check,
              Restore, Reindex, Fail, answers
<1>9. ASSUME NEW c \in Caller, Writes(c) PROVE (acked' = acked /\ linked' = linked) \/ LinkWrite(c)
  BY <1>9 DEF Writes, StoreHead, AdoptWrite, DisownWrite, Rewrite, Drop, answers
<1>10. Flush \/ (\E t \in Session : DropHead(t)) \/ UNCHANGED vars
       => acked' = acked /\ linked' = linked
  BY DEF Flush, DropHead, vars, answers
<1>11. ASSUME NEW c \in Caller, Settle(c)
       PROVE  /\ \A k \in acked' : written'[k].session = s => InHead(s, k)'
              /\ \A m \in Memory : <<s, m>> \in linked' => Listed(s, m)'
  BY <1>3, <1>4, <1>11
<1>12. ASSUME NEW c \in Caller, LinkWrite(c)
       PROVE  /\ \A k \in acked' : written'[k].session = s => InHead(s, k)'
              /\ \A m \in Memory : <<s, m>> \in linked' => Listed(s, m)'
  BY <1>2, <1>5, <1>12
<1> QED BY <1>6, <1>7, <1>8, <1>9, <1>10, <1>11, <1>12, NextKinds

(* Every step keeps what was and will be acknowledged.                      *)
LEMMA AckStep ==
  ASSUME TypeOK, TypeOK', LineageInv, TranscriptInv, TranscriptInv', ApartInv, ApartInv', AckInv,
         [Next]_vars
  PROVE  AckInv'
<1>1. ASSUME NEW c \in Caller, NEW s \in Session, Starts(c, s) \/ Reads(c) \/ Writes(c)
      PROVE  \A e \in Caller : AckOK(e)'
  <2>1. AckOK(c)'
    BY <1>1, AckActs
  <2>2. \A e \in Caller \ {c} : AckOK(e)'
    BY <1>1, Others, AckStays
  <2> QED BY <2>1, <2>2
<1>2. Flush \/ (\E s \in Session : DropHead(s)) \/ UNCHANGED vars => \A e \in Caller : AckOK(e)'
  <2>1. Flush \/ (\E s \in Session : DropHead(s)) \/ UNCHANGED vars => UNCHANGED call
    BY DEF Flush, DropHead, vars, call
  <2> QED BY <2>1, AckStays DEF call
<1>3. ASSUME NEW c \in Caller, Reads(c) \/ Writes(c) PROVE sess[c] \in Session
  BY <1>3 DEF LineageInv, LineageOK, Reads, WriteChunk, NewChunk, WriteFails, Index, Adopt,
         Settle, Tombstone, Disown, Unindex, Check, Restore, Reindex, Fail, Writes, StoreHead,
         AdoptWrite, DisownWrite, LinkWrite, Rewrite, Drop
<1>4. \A e \in Caller : AckOK(e)'
  BY <1>1, <1>2, <1>3, NextKinds
<1>5. Grown
  BY StepGrows
<1>6. ASSUME NEW s \in Session, s \notin contended', s \notin condemned'
      PROVE  /\ \A k \in acked' : written'[k].session = s => InHead(s, k)'
             /\ \A m \in Memory : <<s, m>> \in linked' => Listed(s, m)'
  BY <1>5, <1>6, AckedStep
<1> QED BY <1>4, <1>6 DEF AckInv, Apart

(* What a save or a link said was stored is in the head.                    *)
THEOREM AcknowledgedKept == Spec => []AcksAreKept
<1> DEFINE Inv == TypeOK /\ LineageInv /\ TranscriptInv /\ ApartInv /\ AckInv
<1>1. Init => Inv
  <2> SUFFICES ASSUME Init PROVE Inv
    OBVIOUS
  <2>1. acked = {} /\ linked = {} /\ \A c \in Caller : pc[c] = "idle"
    BY DEF Init
  <2>2. AckInv
    BY <2>1 DEF AckInv, AckOK, Saved, Remaking
  <2> QED BY <2>2, TranscriptStart, ApartBegins
<1>2. Inv /\ [Next]_vars => Inv'
  <2> SUFFICES ASSUME Inv, [Next]_vars PROVE Inv'
    OBVIOUS
  <2>1. TypeOK' /\ LineageInv' /\ TranscriptInv' /\ ApartInv'
    BY SessionsStep
  <2> QED BY <2>1, AckStep
<1>3. Inv => AcksAreKept
  BY DEF AcksAreKept, AckInv, InHead, Listed
<1> QED BY <1>1, <1>2, <1>3, PTL DEF Spec

-----------------------------------------------------------------------------
(* Only the parent a session was created under lists it.                    *)
LEMMA ChildrenStep ==
  ASSUME TypeOK, LineageInv, DangleInv, [Next]_vars
  PROVE  \A p, s \in Session : s \in heads'[p].children => p = ParentOf[s]
<1> SUFFICES ASSUME NEW p \in Session, NEW s \in Session, s \in heads'[p].children
             PROVE  p = ParentOf[s]
  OBVIOUS
<1>1. heads'[p] = heads[p] => p = ParentOf[s]
  BY DEF DangleInv
<1>2. heads'[p] = NoHead => FALSE
  BY NoHeadIsHead
<1>3. ASSUME NEW c \in Caller, NEW t \in Session, Puts(c, t) PROVE p = ParentOf[s]
  <2>1. base[c] \in SessionHead
    BY DEF TypeOK
  <2>2. /\ heads'[t].children = base[c].children
        /\ p # t => heads'[p] = heads[p]
    BY <1>3, <2>1, PutHead DEF Puts
  <2>3. \A x \in base[c].children : t = ParentOf[x]
    BY <1>3 DEF Puts, DangleInv, DangleOK, Based, Remaking
  <2> QED BY <1>1, <2>2, <2>3
<1>4. ASSUME NEW c \in Caller, NEW t \in Session, Drops(c, t)
      PROVE  heads'[p] = heads[p] \/ heads'[p] = NoHead
  BY <1>4 DEF Drops, TypeOK
<1>5. ASSUME NEW t \in Session, DropHead(t)
      PROVE  heads'[p] = heads[p] \/ heads'[p] = NoHead
  BY <1>5 DEF DropHead, TypeOK
<1> QED BY <1>1, <1>2, <1>3, <1>4, <1>5, HeadChanges

(* Only an adoption lists a session.                                        *)
LEMMA UnlistedStays ==
  ASSUME TypeOK, LineageInv, ApartInv, [Next]_vars, NEW s \in Session, Unlisted(s),
         \A c \in Caller, t \in Session : ~ (Puts(c, t) /\ pc[c] = "adoptWrite" /\ sess[c] = s)
  PROVE  Unlisted(s)'
<1> SUFFICES ASSUME NEW p \in Session, p \notin contended' PROVE s \notin heads'[p].children
  BY DEF Unlisted, Apart
<1>1. Apart(p) /\ s \notin heads[p].children
  BY StepKeeps DEF Kept, Apart, Unlisted
<1>2. CASE heads'[p] = heads[p]
  BY <1>1, <1>2
<1>3. CASE heads'[p] = NoHead
  BY <1>3, NoHeadIsHead
<1>4. ASSUME NEW c \in Caller, Puts(c, p) PROVE s \notin base[c].children
  <2>1. CASE Held(p)
    BY <1>1, <1>4, <2>1, PutGrows
  <2>2. CASE ~ Held(p)
    <3>1. pc[c] = "rewrite" \/ (pc[c] = "write" /\ base[c].version = 0)
      <4>1. CASE pc[c] \in Revising
        BY <1>1, <1>4, <2>2, <4>1 DEF ApartInv, ApartOK, Puts, Revises, Held
      <4> QED BY <1>4, <4>1 DEF Puts
    <3> QED BY <3>1 DEF ApartInv, ApartOK, Remaking
  <2> QED BY <2>1, <2>2
<1>5. ASSUME NEW c \in Caller, Puts(c, p) PROVE s \notin heads'[p].children
  <2>1. base[c] \in SessionHead
    BY DEF TypeOK
  <2> QED BY <1>4, <1>5, <2>1, PutHead DEF Puts
<1>6. ASSUME NEW c \in Caller, NEW t \in Session, Puts(c, t) \/ Drops(c, t)
      PROVE  heads'[p] = heads[p] \/ heads'[p] = NoHead \/ Puts(c, p)
  <2>1. base[c] \in SessionHead
    BY DEF TypeOK
  <2> QED BY <1>6, <2>1, PutHead DEF Puts, Drops, TypeOK
<1>7. ASSUME NEW t \in Session, DropHead(t)
      PROVE  heads'[p] = heads[p] \/ heads'[p] = NoHead
  BY <1>7 DEF DropHead, TypeOK
<1> QED BY <1>2, <1>3, <1>5, <1>6, <1>7, HeadChanges

(* A session nobody holds is not being adopted.                             *)
LEMMA AdoptedIsHeld ==
  ASSUME LineageInv, DangleInv, NEW s \in Session, Apart(s), s \notin dropped,
         NEW c \in Caller, pc[c] = "adoptWrite", sess[c] = s
  PROVE  Held(s) /\ heads[s].parented
BY DEF DangleInv, DangleOK, Saved

(* What another call finds of a head it touches, or has to itself.          *)
LEMMA TouchedStays ==
  ASSUME TypeOK, LineageInv, ApartInv, [Next]_vars, NEW e \in Caller, pc'[e] = pc[e],
         NEW s \in Session, s \in Touches(e), s \notin contended', s \notin dropped'
  PROVE  /\ Held(s) => Held(s)' /\ heads'[s].parented = heads[s].parented
         /\ s \in Condemns(e) => heads'[s] = heads[s]
<1>1. Kept /\ Apart(s)
  BY StepKeeps DEF Kept, Apart
<1>2. ASSUME heads'[s] = heads[s]
      PROVE  /\ Held(s) => Held(s)' /\ heads'[s].parented = heads[s].parented
             /\ s \in Condemns(e) => heads'[s] = heads[s]
  BY <1>2 DEF Held
<1>3. ASSUME NEW c \in Caller, Puts(c, s)
      PROVE  /\ Held(s) => Held(s)' /\ heads'[s].parented = heads[s].parented
             /\ s \in Condemns(e) => heads'[s] = heads[s]
  <2>1. c # e /\ s \in Touches(c) /\ base[c] \in SessionHead
    BY <1>3, OwnTouches DEF Puts, TypeOK
  <2>2. s \notin Condemns(e)
    BY <1>1, <2>1 DEF ApartInv, AloneInv, Apart
  <2>3. heads'[s] # NoHead /\ heads'[s].parented = base[c].parented
    BY <1>3, <2>1, PutHead DEF Puts
  <2>4. Held(s) => base[c].parented = heads[s].parented
    BY <1>1, <1>3, PutGrows
  <2> QED BY <2>2, <2>3, <2>4 DEF Held
<1>4. ASSUME NEW c \in Caller, Drops(c, s) PROVE FALSE
  <2>1. c # e /\ s \in Condemns(c)
    BY <1>4 DEF Drops, Condemns, Forgets
  <2> QED BY <1>1, <2>1 DEF ApartInv, AloneInv, Apart
<1>5. ASSUME DropHead(s) PROVE FALSE
  BY <1>5 DEF DropHead
<1>6. ASSUME NEW c \in Caller, NEW t \in Session, Puts(c, t) \/ Drops(c, t), t # s
      PROVE  heads'[s] = heads[s]
  <2>1. base[c] \in SessionHead
    BY DEF TypeOK
  <2> QED BY <1>6, <2>1, PutHead DEF Puts, Drops, TypeOK
<1>7. ASSUME NEW t \in Session, DropHead(t), t # s PROVE heads'[s] = heads[s]
  BY <1>7 DEF DropHead, TypeOK
<1> QED BY <1>2, <1>3, <1>4, <1>5, <1>6, <1>7, HeadChanges

(* Who makes a session known to search.                                     *)
LEMMA NewIndexed ==
  ASSUME TypeOK, [Next]_vars, NEW s \in indexed', s \notin indexed
  PROVE  \E c \in Caller :
           /\ pc[c] \in Saved \union {"reindex"} /\ sess[c] = s /\ pc'[c] # pc[c] /\ heads' = heads
<1>1. ASSUME NEW c \in Caller, Index(c) \/ Reindex(c)
      PROVE  /\ pc[c] \in Saved \union {"reindex"} /\ pc'[c] # pc[c] /\ heads' = heads
             /\ indexed' = indexed \union {sess[c]}
  BY <1>1 DEF Index, Reindex, Return, Goto, TypeOK, Saved
<1>2. ASSUME NEW c \in Caller, NEW t \in Session, Starts(c, t) PROVE indexed' \subseteq indexed
  BY <1>2 DEF Starts, Create, Extend, Forget, Link, Rebuild
<1>3. ASSUME NEW c \in Caller, Reads(c) PROVE indexed' \subseteq indexed \/ Index(c) \/ Reindex(c)
  BY <1>3 DEF Reads, WriteChunk, WriteFails, Adopt, Settle, Tombstone, Disown, Unindex, Check,
              Restore, Fail
<1>4. ASSUME NEW c \in Caller, Writes(c) PROVE indexed' \subseteq indexed
  BY <1>4 DEF Writes, StoreHead, AdoptWrite, DisownWrite, LinkWrite, Rewrite, Drop
<1>5. Flush \/ (\E t \in Session : DropHead(t)) \/ UNCHANGED vars => indexed' \subseteq indexed
  BY DEF Flush, DropHead, vars
<1> QED BY <1>1, <1>2, <1>3, <1>4, <1>5, NextKinds

(* A session whose head names no parent is listed by nobody.                *)
LEMMA ParentlessStep ==
  ASSUME TypeOK, LineageInv, ApartInv, DangleInv, [Next]_vars, NEW s \in Session,
         Held(s)', ~ heads'[s].parented, s \notin contended', s \notin dropped'
  PROVE  Unlisted(s)'
<1>1. Kept /\ Apart(s) /\ s \notin dropped
  BY StepKeeps DEF Kept, Apart
<1>2. Held(s) => ~ heads[s].parented
  <2> SUFFICES ASSUME Held(s) PROVE heads'[s].parented = heads[s].parented
    OBVIOUS
  <2>1. ASSUME NEW c \in Caller, Puts(c, s) PROVE heads'[s].parented = heads[s].parented
    <3>1. base[c] \in SessionHead
      BY DEF TypeOK
    <3>2. heads'[s].parented = base[c].parented
      BY <2>1, <3>1, PutHead DEF Puts
    <3> QED BY <1>1, <2>1, <3>2, PutGrows
  <2>2. ASSUME NEW c \in Caller, NEW t \in Session, Puts(c, t) \/ Drops(c, t)
        PROVE  heads'[s] = heads[s] \/ Puts(c, s)
    <3>1. base[c] \in SessionHead
      BY DEF TypeOK
    <3> QED BY <2>2, <3>1, PutHead DEF Puts, Drops, TypeOK, Held
  <2>3. ASSUME NEW t \in Session, DropHead(t) PROVE heads'[s] = heads[s]
    BY <2>3 DEF DropHead, TypeOK, Held
  <2> QED BY <2>1, <2>2, <2>3, HeadChanges
<1>3. Unlisted(s)
  BY <1>1, <1>2 DEF DangleInv, NothingDangles, Unlisted
<1>4. \A c \in Caller, t \in Session : ~ (Puts(c, t) /\ pc[c] = "adoptWrite" /\ sess[c] = s)
  BY <1>1, <1>2, AdoptedIsHeld
<1> QED BY <1>3, <1>4, UnlistedStays

(* A session that nobody holds is not known to search or listed.            *)
LEMMA DanglingStep ==
  ASSUME TypeOK, LineageInv, ApartInv, DangleInv, [Next]_vars, NEW s \in Session,
         ~ Held(s)', s \notin contended', s \notin dropped'
  PROVE  s \notin indexed' /\ Unlisted(s)'
<1>1. Kept /\ Apart(s) /\ s \notin dropped
  BY StepKeeps DEF Kept, Apart
<1>2. CASE Held(s)
  <2>1. ASSUME NEW c \in Caller, NEW t \in Session, Puts(c, t) PROVE FALSE
    <3>1. base[c] \in SessionHead
      BY DEF TypeOK
    <3> QED BY <1>2, <2>1, <3>1, PutHead DEF Puts, Held
  <2>2. ASSUME NEW t \in Session, DropHead(t) PROVE FALSE
    BY <1>2, <2>2 DEF DropHead, TypeOK, Held
  <2>3. ASSUME NEW c \in Caller, NEW t \in Session, Drops(c, t) PROVE t = s
    BY <1>2, <2>3 DEF Drops, TypeOK, Held
  <2>4. PICK c \in Caller : Drops(c, s)
    BY <1>2, <2>1, <2>2, <2>3, HeadChanges DEF Held
  <2>5. Unlisted(s) /\ s \notin indexed
    BY <1>1, <2>4 DEF Drops, DangleInv, DangleOK
  <2>6. Unlisted(s)'
    BY <2>1, <2>5, UnlistedStays
  <2>7. s \notin indexed'
    BY <1>2, <2>5, NewIndexed DEF Held
  <2> QED BY <2>6, <2>7
<1>3. CASE ~ Held(s)
  <2>1. Unlisted(s) /\ s \notin indexed
    BY <1>1, <1>3 DEF DangleInv, NothingDangles, Unlisted
  <2>2. \A c \in Caller, t \in Session : ~ (Puts(c, t) /\ pc[c] = "adoptWrite" /\ sess[c] = s)
    BY <1>1, <1>3, AdoptedIsHeld
  <2>3. Unlisted(s)'
    BY <2>1, <2>2, UnlistedStays
  <2>4. ASSUME s \in indexed' PROVE FALSE
    <3>1. PICK c \in Caller : pc[c] \in Saved \union {"reindex"} /\ sess[c] = s
      BY <2>1, <2>4, NewIndexed
    <3> QED BY <1>1, <1>3, <3>1 DEF DangleInv, DangleOK, Saved
  <2> QED BY <2>3, <2>4
<1> QED BY <1>2, <1>3

(* A call that does not move keeps what it knows of listing.                *)
LEMMA DangleStays ==
  ASSUME TypeOK, LineageInv, ApartInv, DangleInv, [Next]_vars, NEW e \in Caller,
         pc'[e] = pc[e], sess'[e] = sess[e], base'[e] = base[e]
  PROVE  DangleOK(e)'
<1>1. Kept /\ DangleOK(e) /\ LineageOK(e)
  BY StepKeeps DEF DangleInv, LineageInv
<1>2. Owner(e)' = Owner(e)
  BY DEF Owner
<1>3. PICK s : s = sess[e]
  OBVIOUS
<1>4. ASSUME pc[e] # "idle", s \notin contended', s \notin dropped'
      PROVE  /\ pc[e] \in Saved \union {"reindex"} => Held(s)'
             /\ pc[e] \in {"adopt", "adoptWrite"} => heads'[s].parented
             /\ (pc[e] = "index" /\ base[e].parented) => heads'[s].parented
             /\ pc[e] = "tombstone" => base[e] = heads'[s]
             /\ pc[e] = "disownWrite" => s \notin base[e].children
             /\ pc[e] \in {"unindex", "drop"} => Unlisted(s)'
             /\ pc[e] = "drop" => s \notin indexed'
  <2>1. s \in Session /\ s \in Touches(e) /\ Apart(s) /\ s \notin dropped
    BY <1>1, <1>3, <1>4 DEF LineageOK, Touches, Kept, Apart
  <2>2. pc[e] \in Forgets => s \in Condemns(e)
    BY <1>3 DEF Condemns
  <2>3. /\ pc[e] \in Saved \union {"reindex"} => Held(s)'
        /\ pc[e] \in {"adopt", "adoptWrite"} => heads'[s].parented
        /\ (pc[e] = "index" /\ base[e].parented) => heads'[s].parented
    BY <1>1, <1>3, <1>4, <2>1, TouchedStays DEF DangleOK, Saved
  <2>4. pc[e] = "tombstone" => base[e] = heads'[s]
    BY <1>1, <1>3, <1>4, <2>1, <2>2, TouchedStays DEF DangleOK, Forgets
  <2>5. ASSUME NEW c \in Caller, pc[c] # "idle", sess[c] = s, pc'[c] # pc[c]
        PROVE  pc[e] \notin Forgets
    <3>1. c # e /\ s \in Touches(c)
      BY <2>5 DEF Touches
    <3> QED BY <2>1, <2>2, <3>1 DEF ApartInv, AloneInv, Apart
  <2>6. pc[e] \in {"unindex", "drop"} => Unlisted(s)'
    <3> SUFFICES ASSUME pc[e] \in {"unindex", "drop"} PROVE Unlisted(s)'
      OBVIOUS
    <3>1. Unlisted(s)
      BY <1>1, <1>3, <2>1 DEF DangleOK
    <3>2. \A c \in Caller, t \in Session : ~ (Puts(c, t) /\ pc[c] = "adoptWrite" /\ sess[c] = s)
      BY <2>5 DEF Puts, Forgets
    <3> QED BY <2>1, <3>1, <3>2, UnlistedStays
  <2>7. pc[e] = "drop" => s \notin indexed'
    <3> SUFFICES ASSUME pc[e] = "drop", s \in indexed' PROVE FALSE
      OBVIOUS
    <3>1. s \notin indexed
      BY <1>1, <1>3, <2>1 DEF DangleOK
    <3>2. PICK c \in Caller : pc[c] \in Saved \union {"reindex"} /\ sess[c] = s /\ pc'[c] # pc[c]
      BY <3>1, NewIndexed
    <3>3. pc[c] # "idle"
      BY <3>2 DEF Saved
    <3>4. pc[e] \in Forgets
      BY DEF Forgets
    <3> QED BY <2>5, <3>2, <3>3, <3>4
  <2>8. pc[e] = "disownWrite" => s \notin base[e].children
    BY <1>1, <1>3, <2>1 DEF DangleOK
  <2> QED BY <2>3, <2>4, <2>6, <2>7, <2>8
<1>5. PICK b, g : b = base[e] /\ g = base'[e] /\ b = g
  OBVIOUS
<1>6. pc[e] \in Based => \A x \in b.children : Owner(e) = ParentOf[x]
  BY <1>1, <1>5 DEF DangleOK
<1>7. DangleOK(e)' <=>
        /\ pc[e] \in Based => \A x \in g.children : Owner(e) = ParentOf[x]
        /\ (pc[e] # "idle" /\ s \notin contended' /\ s \notin dropped') =>
             /\ pc[e] \in Saved \union {"reindex"} => Held(s)'
             /\ pc[e] \in {"adopt", "adoptWrite"} => heads'[s].parented
             /\ (pc[e] = "index" /\ g.parented) => heads'[s].parented
             /\ pc[e] = "tombstone" => g = heads'[s]
             /\ pc[e] = "disownWrite" => s \notin g.children
             /\ pc[e] \in {"unindex", "drop"} => Unlisted(s)'
             /\ pc[e] = "drop" => s \notin indexed'
  BY <1>2, <1>3, <1>5 DEF DangleOK, Apart, Held
<1> QED BY <1>4, <1>5, <1>6, <1>7

(* A call that begins knows what is needed of listing.                      *)
LEMMA DangleStart ==
  ASSUME TypeOK, LineageInv, DangleInv, NEW c \in Caller, NEW s \in Session, Starts(c, s)
  PROVE  DangleOK(c)'
<1> USE DEF Based, Revising, Remaking, Saved
<1>1. \A x \in heads[s].children : x \in Session /\ s = ParentOf[x]
  BY Fields DEF DangleInv, TypeOK
<1>2. ASSUME NEW n \in 0..MaxGroups, Create(c, s, n) PROVE DangleOK(c)'
  <2>1. n \in Nat
    BY BoundAssumption
  <2>2. pc'[c] = "write" /\ base'[c].children = {}
    BY <1>2, <2>1, CreateStep
  <2> QED BY <2>2 DEF DangleOK
<1>3. ASSUME NEW n \in 0..MaxGroups, Extend(c, s, n) PROVE DangleOK(c)'
  <2>1. pc'[c] = "write" /\ base'[c] = heads[s] /\ Owner(c)' = s
    BY <1>3 DEF Extend, Begin, TypeOK, Owner
  <2> QED BY <1>1, <2>1 DEF DangleOK
<1>4. ASSUME Forget(c, s) PROVE DangleOK(c)'
  <2>1. pc'[c] = "tombstone" /\ sess'[c] = s /\ base'[c] = heads[s] /\ Owner(c)' = s /\ heads' = heads
    BY <1>4 DEF Forget, Begin, TypeOK, Owner
  <2> QED BY <1>1, <2>1 DEF DangleOK
<1>5. ASSUME NEW m \in Memory, Link(c, s, m) PROVE DangleOK(c)'
  <2>1. pc'[c] = "link" /\ base'[c].children = heads[s].children /\ Owner(c)' = s
    BY <1>5, LinkStep DEF Owner
  <2> QED BY <1>1, <2>1 DEF DangleOK
<1>6. ASSUME Rebuild(c, s) PROVE DangleOK(c)'
  <2>1. pc'[c] = "check" /\ base'[c].children = {}
    BY <1>6, RebuildStep
  <2> QED BY <2>1 DEF DangleOK
<1> QED BY <1>2, <1>3, <1>4, <1>5, <1>6 DEF Starts

(* A call that reads knows what is needed of listing.                       *)
LEMMA DangleRead ==
  ASSUME TypeOK, LineageInv, ApartInv, DangleInv, NEW c \in Caller, Reads(c)
  PROVE  DangleOK(c)'
<1> USE DEF Based, Revising, Remaking, Saved
<1>0. DangleOK(c) /\ LineageOK(c)
  BY DEF DangleInv, LineageInv
<1>1. \A p \in Session : \A x \in heads[p].children : x \in Session /\ p = ParentOf[x]
  BY Fields DEF DangleInv, TypeOK
<1>2. CASE Return(c)
  BY <1>2 DEF Return, Goto, TypeOK, DangleOK
<1>3. CASE WriteChunk(c)
  <2>1. pc[c] = "write" /\ pc' = pc /\ sess' = sess /\ base'[c].children = base[c].children
    BY <1>3, WriteChunkStep
  <2> QED BY <1>0, <2>1 DEF DangleOK, Owner
<1>4. CASE Index(c)
  <2>1. /\ pc[c] = "index" /\ pc'[c] \in {"adopt", "settle"}
        /\ (pc'[c] = "adopt" => base[c].parented)
        /\ UNCHANGED <<heads, sess, base, contended, dropped>>
    BY <1>4 DEF Index, Goto, TypeOK, scenes
  <2> QED BY <1>0, <2>1 DEF DangleOK, Owner, Apart, Held
<1>5. CASE Adopt(c) /\ ~ Return(c)
  <2>1. PICK p, s : p = ParentOf[sess[c]] /\ s = sess[c]
    OBVIOUS
  <2>2. /\ pc[c] = "adopt" /\ p \in Session /\ pc'[c] \in {"settle", "adoptWrite"} /\ sess'[c] = s
        /\ base'[c].children = heads[p].children \union {s}
        /\ UNCHANGED <<heads, contended, dropped>>
    BY <1>5, <2>1, AdoptStep DEF scenes
  <2>3. pc'[c] \in Based => \A x \in base'[c].children : Owner(c)' = ParentOf[x]
    BY <1>1, <2>1, <2>2 DEF Owner
  <2> QED BY <1>0, <2>1, <2>2, <2>3 DEF DangleOK, Apart, Held
<1>6. CASE Tombstone(c)
  <2>1. pc[c] = "tombstone" /\ UNCHANGED <<heads, pc, sess, base, contended, dropped>>
    BY <1>6 DEF Tombstone, scenes
  <2> QED BY <1>0, <2>1 DEF DangleOK, Owner, Apart
<1>7. CASE Disown(c)
  <2>1. PICK p, s : p = ParentOf[sess[c]] /\ s = sess[c]
    OBVIOUS
  <2>2. /\ pc[c] = "tombstone" /\ s \in Session /\ sess'[c] = s
        /\ UNCHANGED <<heads, contended, dropped>>
    BY <1>7, <2>1, DisownStep DEF scenes
  <2>3. CASE pc'[c] = "unindex"
    <3>1. (base[c].parented /\ Held(p)) => s \notin heads[p].children
      BY <1>7, <2>1, <2>3, DisownStep
    <3>2. ASSUME Apart(s), s \notin dropped PROVE Unlisted(s)
      <4>1. base[c] = heads[s]
        BY <1>0, <2>1, <2>2, <3>2 DEF DangleOK
      <4>2. CASE ~ Held(s)
        BY <2>2, <3>2, <4>2 DEF DangleInv, NothingDangles, Unlisted
      <4>3. CASE Held(s) /\ ~ base[c].parented
        BY <2>2, <3>2, <4>1, <4>3 DEF DangleInv
      <4>4. CASE base[c].parented
        <5>1. \A q \in Session : s \in heads[q].children => q = p /\ Held(q)
          BY <1>1, <2>1, NoHeadIsHead DEF Held
        <5> QED BY <3>1, <4>4, <5>1 DEF Unlisted
      <4> QED BY <4>2, <4>3, <4>4
    <3>3. Unlisted(s) => Unlisted(s)'
      BY <2>2 DEF Unlisted, Apart
    <3> QED BY <2>1, <2>2, <2>3, <3>2, <3>3 DEF DangleOK, Apart
  <2>4. CASE pc'[c] # "unindex"
    <3>1. /\ pc'[c] = "disownWrite" /\ p \in Session
          /\ base'[c].children = heads[p].children \ {s}
      BY <1>7, <2>1, <2>4, DisownStep
    <3>2. Owner(c)' = p
      BY <2>1, <2>2, <3>1 DEF Owner
    <3> QED BY <1>1, <2>2, <3>1, <3>2 DEF DangleOK
  <2> QED BY <2>3, <2>4
<1>8. CASE Unindex(c)
  <2>1. PICK s : s = sess[c]
    OBVIOUS
  <2>2. /\ pc[c] = "unindex" /\ pc'[c] = "drop" /\ sess'[c] = s /\ s \notin indexed'
        /\ UNCHANGED <<heads, contended, dropped>>
    BY <1>8, <2>1 DEF Unindex, Goto, TypeOK, scenes
  <2>3. Unlisted(s) => Unlisted(s)'
    BY <2>2 DEF Unlisted, Apart
  <2> QED BY <1>0, <2>1, <2>2, <2>3 DEF DangleOK, Apart
<1>9. CASE (Check(c) /\ ~ Return(c)) \/ Restore(c)
  <2>1. /\ pc[c] \in Remaking /\ pc'[c] \in Remaking /\ sess' = sess
        /\ base'[c].children = base[c].children
    <3>1. CASE Check(c) /\ ~ Return(c)
      BY <3>1 DEF Check, Goto, TypeOK
    <3>2. CASE Restore(c)
      BY <3>2, RestoreStep
    <3> QED BY <1>9, <3>1, <3>2
  <2> QED BY <1>0, <2>1 DEF DangleOK, Owner
<1>10. WriteFails(c) \/ Settle(c) \/ Reindex(c) \/ Fail(c) => Return(c)
  BY DEF WriteFails, Settle, Reindex, Fail
<1> QED BY <1>2, <1>3, <1>4, <1>5, <1>6, <1>7, <1>8, <1>9, <1>10 DEF Reads

(* A call that writes knows what is needed of listing.                      *)
LEMMA DangleWrite ==
  ASSUME TypeOK, LineageInv, DangleInv, NEW c \in Caller, Writes(c)
  PROVE  DangleOK(c)'
<1> USE DEF Based, Revising, Remaking, Saved
<1>0. DangleOK(c) /\ LineageOK(c) /\ base[c] \in SessionHead
  BY DEF DangleInv, LineageInv, TypeOK
<1>1. PICK p, s : p = ParentOf[sess[c]] /\ s = sess[c]
  OBVIOUS
<1>2. CASE Return(c)
  BY <1>2 DEF Return, Goto, TypeOK, DangleOK
<1>3. CASE (StoreHead(c) \/ Rewrite(c)) /\ ~ Return(c)
  <2>1. /\ Put(s, base[c]) /\ s \in Session /\ sess'[c] = s /\ base'[c] = base[c]
        /\ \/ pc[c] = "write" /\ pc'[c] = "index"
           \/ pc'[c] = "reindex"
    BY <1>0, <1>1, <1>3 DEF StoreHead, Rewrite, Goto, TypeOK, LineageOK
  <2>2. Held(s)' /\ heads'[s].parented = base[c].parented
    BY <1>0, <2>1, PutHead DEF Held
  <2>3. pc'[c] = "index" => \A x \in base'[c].children : Owner(c)' = ParentOf[x]
    BY <1>0, <1>1, <2>1 DEF DangleOK, Owner
  <2> QED BY <1>1, <2>1, <2>2, <2>3 DEF DangleOK
<1>4. CASE AdoptWrite(c) /\ ~ Return(c)
  <2>1. /\ Put(p, base[c]) /\ p \in Session /\ s \in Session /\ sess'[c] = s
        /\ pc[c] = "adoptWrite" /\ pc'[c] = "settle" /\ UNCHANGED <<contended, dropped>>
    BY <1>0, <1>1, <1>4 DEF AdoptWrite, Goto, TypeOK, LineageOK, Owner, scenes
  <2>2. Held(s) => Held(s)'
    BY <1>0, <2>1, PutHead DEF Held
  <2> QED BY <1>0, <1>1, <2>1, <2>2 DEF DangleOK, Apart
<1>5. CASE DisownWrite(c) /\ ~ Return(c)
  <2>1. /\ Put(p, base[c]) /\ p \in Session /\ s \in Session /\ sess'[c] = s
        /\ pc[c] = "disownWrite" /\ pc'[c] = "unindex" /\ UNCHANGED <<contended, dropped>>
    BY <1>0, <1>1, <1>5 DEF DisownWrite, Goto, TypeOK, LineageOK, Owner, scenes
  <2>2. /\ heads'[p].children = base[c].children
        /\ \A q \in Session \ {p} : heads'[q] = heads[q]
    BY <1>0, <2>1, PutHead
  <2>3. \A q \in Session : s \in heads[q].children => q = p
    BY <1>1, <2>1 DEF DangleInv
  <2>4. s \notin base[c].children => Unlisted(s)'
    BY <2>2, <2>3 DEF Unlisted
  <2> QED BY <1>0, <1>1, <2>1, <2>4 DEF DangleOK, Apart
<1>6. LinkWrite(c) \/ Drop(c) => Return(c)
  BY DEF LinkWrite, Drop
<1> QED BY <1>2, <1>3, <1>4, <1>5, <1>6 DEF Writes

(* Every step keeps that nothing dangles.                                   *)
LEMMA DangleStep ==
  ASSUME TypeOK, LineageInv, ApartInv, DangleInv, [Next]_vars
  PROVE  DangleInv'
<1>1. ASSUME NEW c \in Caller, NEW s \in Session, Starts(c, s) \/ Reads(c) \/ Writes(c)
      PROVE  \A e \in Caller : DangleOK(e)'
  <2>1. DangleOK(c)'
    BY <1>1, DangleStart, DangleRead, DangleWrite
  <2>2. \A e \in Caller \ {c} : DangleOK(e)'
    BY <1>1, Others, DangleStays
  <2> QED BY <2>1, <2>2
<1>2. Flush \/ (\E s \in Session : DropHead(s)) \/ UNCHANGED vars => \A e \in Caller : DangleOK(e)'
  <2>1. Flush \/ (\E s \in Session : DropHead(s)) \/ UNCHANGED vars => UNCHANGED call
    BY DEF Flush, DropHead, vars, call
  <2> QED BY <2>1, DangleStays DEF call
<1>3. ASSUME NEW c \in Caller, Reads(c) \/ Writes(c) PROVE sess[c] \in Session
  BY <1>3 DEF LineageInv, LineageOK, Reads, WriteChunk, NewChunk, WriteFails, Index, Adopt,
         Settle, Tombstone, Disown, Unindex, Check, Restore, Reindex, Fail, Writes, StoreHead,
         AdoptWrite, DisownWrite, LinkWrite, Rewrite, Drop
<1>4. \A e \in Caller : DangleOK(e)'
  BY <1>1, <1>2, <1>3, NextKinds
<1>5. \A p, s \in Session : s \in heads'[p].children => p = ParentOf[s]
  BY ChildrenStep
<1>6. \A s \in Session :
        (Held(s)' /\ ~ heads'[s].parented /\ s \notin contended' /\ s \notin dropped') => Unlisted(s)'
  BY ParentlessStep
<1>7. \A s \in Session :
        (~ Held(s)' /\ s \notin contended' /\ s \notin dropped') => s \notin indexed' /\ Unlisted(s)'
  BY DanglingStep
<1>8. NothingDangles'
  BY <1>7 DEF NothingDangles, Apart, Unlisted
<1> QED BY <1>4, <1>5, <1>6, <1>8 DEF DangleInv, Apart

(* No parent and no search leads to a session that is not there.            *)
THEOREM NoneDangle == Spec => []NothingDangles
<1> DEFINE Inv == TypeOK /\ LineageInv /\ TranscriptInv /\ ApartInv /\ DangleInv
<1>1. Init => Inv
  <2> SUFFICES ASSUME Init PROVE Inv
    OBVIOUS
  <2>1. /\ indexed = {} /\ \A c \in Caller : pc[c] = "idle"
        /\ \A s \in Session : heads[s].children = {}
    BY NoHeadIsHead DEF Init
  <2>2. DangleInv
    BY <2>1 DEF DangleInv, DangleOK, NothingDangles, Unlisted, Saved, Based, Revising, Remaking
  <2> QED BY <2>2, TranscriptStart, ApartBegins
<1>2. Inv /\ [Next]_vars => Inv'
  <2> SUFFICES ASSUME Inv, [Next]_vars PROVE Inv'
    OBVIOUS
  <2>1. TypeOK' /\ LineageInv' /\ TranscriptInv' /\ ApartInv'
    BY SessionsStep
  <2> QED BY <2>1, DangleStep
<1>3. Inv => NothingDangles
  BY DEF DangleInv
<1> QED BY <1>1, <1>2, <1>3, PTL DEF Spec
=============================================================================
