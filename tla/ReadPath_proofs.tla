--------------------------- MODULE ReadPath_proofs ---------------------------
(* What search and fetch promise of records that others store, move and     *)
(* forget, for any number of processes, calls, records, slabs and faults.   *)
EXTENDS ReadPath, TLAPS

(* What the catalog's two copies become.                                    *)
LEMMA CataloguedTypes ==
  ASSUME TypeOK, NEW p \in Proc, NEW batch \in SUBSET Record, NEW s \in Place,
         Catalogued(p, batch, s)
  PROVE  /\ entry' \in [Record -> Place] /\ seen' \in [Proc -> [Record -> Place]]
         /\ moved' \subseteq Object
<1> DEFINE of == [r \in Record |-> IF r \in batch THEN s ELSE seen[p][r]]
<1>1. of \in [Record -> Place]
  BY DEF TypeOK
<1>2. seen' = [seen EXCEPT ![p] = of]
  BY DEF Catalogued
<1> HIDE DEF of
<1>3. seen' \in [Proc -> [Record -> Place]]
  BY <1>1, <1>2 DEF TypeOK
<1>4. entry' \in [Record -> Place]
  BY DEF Catalogued, TypeOK
<1>5. moved' \subseteq Object
  BY DEF Catalogued, TypeOK
<1> QED BY <1>3, <1>4, <1>5

LEMMA Filed ==
  ASSUME TypeOK, NEW p \in Proc, NEW batch, NEW s, Catalogued(p, batch, s)
  PROVE  /\ \A r \in Record : entry'[r] = IF r \in batch THEN s ELSE entry[r]
         /\ \A q \in Proc, r \in Record :
              seen'[q][r] = IF q = p /\ r \in batch THEN s ELSE seen[q][r]
<1> DEFINE of == [r \in Record |-> IF r \in batch THEN s ELSE seen[p][r]]
<1>1. seen' = [seen EXCEPT ![p] = of]
  BY DEF Catalogued
<1>2. \A r \in Record : of[r] = IF r \in batch THEN s ELSE seen[p][r]
  OBVIOUS
<1> HIDE DEF of
<1>3. seen'[p] = of /\ \A q \in Proc \ {p} : seen'[q] = seen[q]
  BY <1>1 DEF TypeOK
<1>4. \A r \in Record : entry'[r] = IF r \in batch THEN s ELSE entry[r]
  BY DEF Catalogued
<1> QED BY <1>2, <1>3, <1>4

(* A call that returns, and one that goes on to its next hit.               *)
LEMMA Returned ==
  ASSUME TypeOK, NEW c \in Caller, Return(c)
  PROVE  /\ pc' = [pc EXCEPT ![c] = "idle"]
         /\ pc'[c] = "idle" /\ \A d \in Caller \ {c} : pc'[d] = pc[d]
         /\ target' \in [Caller -> Record \union {NoSlab}]
         /\ \A d \in Caller \ {c} : target'[d] = target[d]
         /\ hits' \in [Caller -> SUBSET Record]
         /\ hits'[c] = {} /\ \A d \in Caller \ {c} : hits'[d] = hits[d]
         /\ spot' \in [Caller -> Place]
         /\ \A d \in Caller \ {c} : spot'[d] = spot[d]
         /\ pc' \in [Caller -> Stages]
BY DEF Return, Goto, TypeOK, Place, Stages

LEMMA WentOn ==
  ASSUME TypeOK, NEW c \in Caller, NEW r, Fetched(c, r)
  PROVE  /\ pc' \in [Caller -> Stages]
         /\ pc'[c] \in {"idle", "read"} /\ \A d \in Caller \ {c} : pc'[d] = pc[d]
         /\ target' \in [Caller -> Record \union {NoSlab}]
         /\ \A d \in Caller \ {c} : target'[d] = target[d]
         /\ hits' \in [Caller -> SUBSET Record]
         /\ hits'[c] \subseteq hits[c] /\ \A d \in Caller \ {c} : hits'[d] = hits[d]
         /\ spot' \in [Caller -> Place]
         /\ \A d \in Caller \ {c} : spot'[d] = spot[d]
<1>1. CASE Return(c)
  BY <1>1, Returned
<1>2. CASE ~ Return(c)
  <2>1. /\ hits' = [hits EXCEPT ![c] = @ \ {r}]
        /\ target' = [target EXCEPT ![c] = NoSlab]
        /\ spot' = [spot EXCEPT ![c] = NoSlab]
        /\ pc' = [pc EXCEPT ![c] = "read"]
    BY <1>2 DEF Fetched, Goto
  <2> QED BY <2>1 DEF TypeOK, Place, Stages
<1> QED BY <1>1, <1>2

(* The tables, the files, the memories and the calls keep their types.      *)
THEOREM TypeCorrect == Spec => []TypeOK
<1> USE SlabAssumption, CallerAssumption, BoundAssumption
    DEF TypeOK, tables, files, account, memory, storage, call, history, Place, Stages, Reading
<1>1. Init => TypeOK
  <2> SUFFICES ASSUME Init PROVE TypeOK
    OBVIOUS
  <2>1. pc \in [Caller -> Stages] /\ \A c \in Caller : pc[c] = "idle"
    BY DEF Init
  <2>2. /\ entry \in [Record -> Place] /\ seen \in [Proc -> [Record -> Place]]
        /\ index \in [Proc -> SUBSET Record] /\ flushing \in [Proc -> SUBSET Record]
        /\ target \in [Caller -> Record \union {NoSlab}] /\ hits \in [Caller -> SUBSET Record]
        /\ spot \in [Caller -> Place]
    BY DEF Init, Nowhere
  <2> QED BY <2>1, <2>2 DEF Init
<1>2. TypeOK /\ [Next]_vars => TypeOK'
  <2> SUFFICES ASSUME TypeOK, [Next]_vars PROVE TypeOK'
    OBVIOUS
  <2>1. CASE UNCHANGED vars
    BY <2>1 DEF vars
  <2>2. ASSUME NEW c \in Caller, NEW r \in Record, Remember(c, r) PROVE TypeOK'
    BY <2>2 DEF Remember, Goto, At
  <2>3. ASSUME NEW c \in Caller, PutVector(c) PROVE TypeOK'
    BY <2>3 DEF PutVector, Goto, At
  <2>4. ASSUME NEW c \in Caller, PutRow(c) PROVE TypeOK'
    BY <2>4 DEF PutRow, Goto, At
  <2>5. ASSUME NEW c \in Caller, Add(c) PROVE TypeOK'
    BY <2>5 DEF Add, Return, Goto, At
  <2>6. ASSUME NEW c \in Caller, NEW r \in Record, Forget(c, r) PROVE TypeOK'
    <3>1. Catalogued(ProcOf[c], {r}, NoSlab) /\ {r} \in SUBSET Record /\ NoSlab \in Place
      BY <2>6 DEF Forget
    <3> QED BY <2>6, <3>1, CataloguedTypes DEF Forget, Goto, At
  <2>7. ASSUME NEW c \in Caller, ForgetBody(c) PROVE TypeOK'
    BY <2>7 DEF ForgetBody, Goto, At
  <2>8. ASSUME NEW c \in Caller, RemoveVector(c) PROVE TypeOK'
    BY <2>8 DEF RemoveVector, Goto, At
  <2>9. ASSUME NEW c \in Caller, ForgetRow(c) PROVE TypeOK'
    BY <2>9 DEF ForgetRow, Return, Goto, At
  <2>10. ASSUME NEW c \in Caller, NEW scoped \in BOOLEAN, Recall(c, scoped) PROVE TypeOK'
    <3>1. PICK ranked \in SUBSET Candidates(ProcOf[c]) : hits' = [hits EXCEPT ![c] = ranked]
      BY <2>10 DEF Recall
    <3>2. Candidates(ProcOf[c]) \subseteq Record
      BY DEF Candidates
    <3> QED BY <2>10, <3>1, <3>2 DEF Recall, Goto, At
  <2>11. ASSUME NEW c \in Caller, NEW r \in Record, FetchLocal(c, r) PROVE TypeOK'
    <3>1. CASE r \in bodies
      BY <2>11, <3>1, WentOn DEF FetchLocal
    <3>2. CASE r \notin bodies
      <4>1. /\ target' = [target EXCEPT ![c] = r] /\ pc' = [pc EXCEPT ![c] = "lookup"]
            /\ UNCHANGED <<hits, spot, tables, files, account, memory, storage, history, faults>>
        BY <2>11, <3>2 DEF FetchLocal, Goto
      <4> QED BY <4>1
    <3> QED BY <3>1, <3>2
  <2>12. ASSUME NEW c \in Caller, Lookup(c) PROVE TypeOK'
    <3> DEFINE s == seen[ProcOf[c]][target[c]]
    <3>0. pc[c] = "lookup" /\ ProcOf[c] \in Proc
      BY <2>12 DEF Lookup, At
    <3>1. target[c] \in Record /\ s \in Place
      <4>1. target[c] \in Record
        BY <3>0
      <4>2. seen[ProcOf[c]] \in [Record -> Place]
        BY <3>0
      <4> QED BY <4>1, <4>2
    <3> HIDE DEF s
    <3>2. CASE s = NoSlab
      <4>1. /\ Return(c) /\ failed' = failed \union {<<target[c], NoSlab>>}
            /\ UNCHANGED <<tables, files, account, memory, storage, born, condemned, forgotten,
                           early, revived, overtaken, swept, moved, faults>>
        BY <2>12, <3>2 DEF Lookup, FailOn, s
      <4>2. failed' \subseteq Record \X Place
        BY <3>1, <4>1
      <4>3. \A d \in Caller : pc'[d] = "idle" \/ (pc'[d] = pc[d] /\ target'[d] = target[d]
                                                   /\ spot'[d] = spot[d])
        BY <4>1, Returned
      <4> QED BY <4>1, <4>2, <4>3, Returned
    <3>3. CASE s # NoSlab
      <4>1. /\ spot' = [spot EXCEPT ![c] = s] /\ pc' = [pc EXCEPT ![c] = "cached"]
            /\ UNCHANGED <<target, hits, failed>>
        BY <2>12, <3>3 DEF Lookup, Goto, s
      <4> QED BY <2>12, <3>0, <3>1, <3>3, <4>1 DEF Lookup
    <3> QED BY <3>2, <3>3
  <2>13. ASSUME NEW c \in Caller, FetchCached(c) PROVE TypeOK'
    BY <2>13 DEF FetchCached, Goto, At
  <2>14. ASSUME NEW c \in Caller, FetchRemote(c) PROVE TypeOK'
    <3>1. target[c] \in Record /\ spot[c] \in Slab
      BY <2>14 DEF FetchRemote, At
    <3>2. CASE <<target[c], spot[c]>> \in network
      <4>1. /\ slabbed' \subseteq Slab /\ located' \subseteq Object
            /\ pc' = [pc EXCEPT ![c] = "put"] /\ UNCHANGED <<target, hits, spot, failed>>
        BY <2>14, <3>1, <3>2 DEF FetchRemote, Goto, Object
      <4> QED BY <2>14, <3>1, <4>1 DEF FetchRemote
    <3>3. CASE <<target[c], spot[c]>> \notin network
      <4>1. Return(c) /\ failed' \subseteq Record \X Place /\ UNCHANGED <<located, slabbed>>
        BY <2>14, <3>1, <3>3 DEF FetchRemote, FailOn
      <4> QED BY <2>14, <4>1, Returned DEF FetchRemote
    <3> QED BY <3>2, <3>3
  <2>15. ASSUME NEW c \in Caller, PutBody(c) PROVE TypeOK'
    <3>1. target[c] \in Record /\ Fetched(c, target[c])
      BY <2>15 DEF PutBody, At
    <3> QED BY <2>15, <3>1, WentOn DEF PutBody
  <2>16. ASSUME NEW c \in Caller, Fail(c) PROVE TypeOK'
    BY <2>16 DEF Fail, Return, Goto, At
  <2>17. ASSUME NEW p \in Proc, NEW s \in Slab, Flush(p, s) PROVE TypeOK'
    <3>1. Catalogued(p, queued, s) /\ network' \subseteq Object
      BY <2>17 DEF Flush, Object
    <3> QED BY <2>17, <3>1, CataloguedTypes DEF Flush
  <2>18. ASSUME NEW p \in Proc, NEW o \in Object, Relocate(p, o) PROVE TypeOK'
    <3>1. o[1] \in Record /\ o[2] \in Slab
      BY DEF Object
    <3>2. CASE ~ Known(p, o[1])
      <4>1. /\ Quit(p) /\ UNCHANGED <<tables, files, account, memory, jobs, call, history, faults>>
        BY <2>18, <3>2 DEF Relocate, Known
      <4> QED BY <4>1 DEF Quit, Nowhere
    <3>3. CASE Known(p, o[1])
      <4>1. /\ Catalogued(p, {o[1]}, o[2]) /\ {o[1]} \in SUBSET Record /\ o[2] \in Place
            /\ copies' = [copies EXCEPT ![p] = @ \ {o}]
            /\ job' = [job EXCEPT ![p] = IF copies[p] = {o} THEN "destroy" ELSE @]
            /\ located' \subseteq located /\ revived' \subseteq revived \union {o[1]}
        BY <2>18, <3>1, <3>3 DEF Relocate, Known
      <4>2. copies' \in [Proc -> SUBSET Object] /\ job' \in [Proc -> {"none", "walk", "move", "destroy"}]
        BY <4>1
      <4> QED BY <2>18, <3>1, <3>3, <4>1, <4>2, CataloguedTypes DEF Relocate, Known
    <3> QED BY <3>2, <3>3
  <2>19. ASSUME NEW p \in Proc, Drop(p) PROVE TypeOK'
    BY <2>19 DEF Drop
  <2>20. ASSUME NEW p \in Proc, Stop(p) PROVE TypeOK'
    BY <2>20 DEF Stop, Quit, Nowhere
  <2>21. ASSUME NEW p \in Proc, Open(p) PROVE TypeOK'
    BY <2>21 DEF Open
  <2>22. ASSUME NEW r \in Record, ForgetLocally(r) PROVE TypeOK'
    BY <2>22 DEF ForgetLocally
  <2>23. ASSUME NEW p \in Proc, NEW o \in Object, Delete(p, o) PROVE TypeOK'
    <3>1. /\ network' \subseteq network /\ swept' \subseteq swept \union {o}
          /\ doomed' \in [Proc -> SUBSET Object]
      BY <2>23 DEF Delete
    <3> QED BY <2>23, <3>1 DEF Delete
  <2>24. ASSUME NEW p \in Proc, Reclaim(p) PROVE TypeOK'
    BY <2>24 DEF Reclaim, Begin
  <2>25. ASSUME NEW p \in Proc, PlanSweep(p) PROVE TypeOK'
    BY <2>25 DEF PlanSweep
  <2>26. ASSUME NEW p \in Proc, NEW s \in Slab, Repack(p, s) PROVE TypeOK'
    <3> DEFINE held == {o \in Object : seen[p][o[1]] = o[2]}
               written == {<<o[1], s>> : o \in held}
               falling == {o \in network : \E h \in held : h[2] = o[2]}
    <3>1. written \subseteq Object /\ falling \subseteq Object
      BY DEF Object
    <3>2. /\ Begin(p, "move") /\ spent' = spent \union {s} /\ network' = network \union written
          /\ copies' = [copies EXCEPT ![p] = written]
          /\ doomed' = [doomed EXCEPT ![p] = falling]
          /\ UNCHANGED <<tables, files, memory, call, history, faults>>
      BY <2>26 DEF Repack
    <3> HIDE DEF written, falling
    <3> QED BY <3>1, <3>2 DEF Begin
  <2>27. ASSUME NEW p \in Proc, Release(p) PROVE TypeOK'
    <3>1. slabbed' \subseteq slabbed /\ Quit(p)
      BY <2>27 DEF Release
    <3> QED BY <2>27, <3>1 DEF Release, Quit, Nowhere
  <2>28. ASSUME NEW p \in Proc, Abandon(p) PROVE TypeOK'
    BY <2>28 DEF Abandon, Quit, Nowhere
  <2> QED BY <2>1, <2>2, <2>3, <2>4, <2>5, <2>6, <2>7, <2>8, <2>9, <2>10, <2>11, <2>12,
             <2>13, <2>14, <2>15, <2>16, <2>17, <2>18, <2>19, <2>20, <2>21, <2>22, <2>23,
             <2>24, <2>25, <2>26, <2>27, <2>28
          DEF Next
<1> QED BY <1>1, <1>2, PTL DEF Spec

-----------------------------------------------------------------------------
(* What a reclaim or a repack does that files nothing.                      *)
Commanding(p) ==
  \/ Reclaim(p) \/ PlanSweep(p) \/ Release(p) \/ Abandon(p)
  \/ \E s \in Slab : Repack(p, s)
  \/ \E o \in Object : Delete(p, o) \/ (Relocate(p, o) /\ ~ Known(p, o[1]))

Standing == <<bodies, vectors, rows, queued, entry, memory, call, born, condemned, forgotten,
              early, revived, overtaken, moved, failed>>

LEMMA CommandsKeep ==
  ASSUME NEW p \in Proc, Commanding(p)
  PROVE  UNCHANGED Standing
<1> USE DEF tables, files, memory, call, history, Standing
<1>1. CASE Reclaim(p) \/ PlanSweep(p) \/ Release(p) \/ Abandon(p)
  BY <1>1 DEF Reclaim, PlanSweep, Release, Abandon
<1>2. ASSUME NEW s \in Slab, Repack(p, s) PROVE UNCHANGED Standing
  BY <1>2 DEF Repack
<1>3. ASSUME NEW o \in Object, Delete(p, o) PROVE UNCHANGED Standing
  BY <1>3 DEF Delete
<1>4. ASSUME NEW o \in Object, Relocate(p, o), ~ Known(p, o[1]) PROVE UNCHANGED Standing
  BY <1>4 DEF Relocate, Known
<1> QED BY <1>1, <1>2, <1>3, <1>4 DEF Commanding

(* The one that files, for a record: where its new copy lies.               *)
LEMMA Relocating ==
  ASSUME NEW p \in Proc, NEW o \in Object, Relocate(p, o), Known(p, o[1])
  PROVE  /\ o[1] \in Record /\ o[2] \in Slab /\ o[2] \in Place /\ {o[1]} \in SUBSET Record
         /\ Catalogued(p, {o[1]}, o[2])
         /\ o \in copies[p] /\ job[p] = "move"
         /\ copies' = [copies EXCEPT ![p] = @ \ {o}]
         /\ job' = [job EXCEPT ![p] = IF copies[p] = {o} THEN "destroy" ELSE @]
         /\ revived' = revived \union ({o[1]} \cap condemned)
         /\ UNCHANGED <<bodies, vectors, rows, queued, account, up, index, call, keep, doomed,
                        born, condemned, forgotten, early, overtaken, swept, failed>>
<1>1. o[1] \in Record /\ o[2] \in Slab
  BY DEF Object
<1> QED BY <1>1 DEF Relocate, Known, Place

(* What a recall does to what is stored and to the calls that store: nothing. *)
Recalling(c) ==
  \/ \E scoped \in BOOLEAN : Recall(c, scoped)
  \/ \E r \in Record : FetchLocal(c, r)
  \/ Lookup(c) \/ FetchCached(c) \/ FetchRemote(c) \/ PutBody(c) \/ Fail(c)

LEMMA RecallingKeeps ==
  ASSUME TypeOK, NEW c \in Caller, Recalling(c)
  PROVE  /\ UNCHANGED <<vectors, rows, queued, entry, account, storage, up, index, seen, flushing,
                        swept, moved, born, condemned, forgotten, early, revived, overtaken>>
         /\ \A d \in Caller : pc'[d] \in Storing \union Dropping =>
              pc'[d] = pc[d] /\ target'[d] = target[d]
         /\ \A d \in Caller \ {c} : /\ pc'[d] = pc[d] /\ target'[d] = target[d]
                                    /\ hits'[d] = hits[d] /\ spot'[d] = spot[d]
<1> USE DEF tables, files, account, memory, storage, call, history, Storing, Dropping
<1> DEFINE
      kept == <<vectors, rows, queued, entry, account, storage, up, index, seen, flushing,
                swept, moved, born, condemned, forgotten, early, revived, overtaken>>
      others == \A d \in Caller \ {c} : /\ pc'[d] = pc[d] /\ target'[d] = target[d]
                                        /\ hits'[d] = hits[d] /\ spot'[d] = spot[d]
<1>1. ASSUME NEW scoped \in BOOLEAN, Recall(c, scoped)
      PROVE  UNCHANGED kept /\ pc'[c] = "read" /\ others
  BY <1>1 DEF Recall, Goto, TypeOK
<1>2. ASSUME NEW r \in Record, FetchLocal(c, r)
      PROVE  UNCHANGED kept /\ pc'[c] \in {"idle", "read", "lookup"} /\ others
  <2>1. CASE r \in bodies
    BY <1>2, <2>1, WentOn DEF FetchLocal
  <2>2. CASE r \notin bodies
    BY <1>2, <2>2 DEF FetchLocal, Goto, TypeOK
  <2> QED BY <2>1, <2>2
<1>3. ASSUME Lookup(c) \/ FetchRemote(c) \/ Fail(c)
      PROVE  UNCHANGED kept /\ pc'[c] \in {"idle", "cached", "put"} /\ others
  <2>1. \/ Return(c)
        \/ /\ pc' = [pc EXCEPT ![c] = "cached"] /\ UNCHANGED <<target, hits>>
           /\ spot' = [spot EXCEPT ![c] = seen[ProcOf[c]][target[c]]]
        \/ pc' = [pc EXCEPT ![c] = "put"] /\ UNCHANGED <<target, hits, spot>>
    BY <1>3 DEF Lookup, FetchRemote, Fail, FailOn, Goto
  <2>2. pc'[c] \in {"idle", "cached", "put"} /\ others
    BY <2>1, Returned DEF TypeOK
  <2> QED BY <1>3, <2>2 DEF Lookup, FetchRemote, Fail
<1>4. ASSUME FetchCached(c)
      PROVE  UNCHANGED kept /\ pc'[c] \in {"remote", "put"} /\ others
  BY <1>4 DEF FetchCached, Goto, TypeOK
<1>5. ASSUME PutBody(c)
      PROVE  UNCHANGED kept /\ pc'[c] \in {"idle", "read"} /\ others
  BY <1>5, WentOn DEF PutBody
<1> QED BY <1>1, <1>2, <1>3, <1>4, <1>5 DEF Recalling

-----------------------------------------------------------------------------
(* Filing records that can be found keeps what is owed findable.            *)
LEMMA FilingKeepsOwed ==
  ASSUME TypeOK, OwedInv, NEW p \in Proc, NEW batch \in SUBSET Record, NEW s \in Place,
         Catalogued(p, batch, s), UNCHANGED <<vectors, rows, queued, condemned, pc, target>>,
         \A r \in batch : Searchable(r)
  PROVE  OwedInv'
<1>1. /\ \A q \in Record : entry'[q] = IF q \in batch THEN s ELSE entry[q]
      /\ \A o \in Proc, q \in Record :
           seen'[o][q] = IF o = p /\ q \in batch THEN s ELSE seen[o][q]
  BY Filed
<1>2. \A q : Searchable(q)' = Searchable(q)
  BY DEF Searchable
<1>3. \A o \in Proc, q \in Record : Known(o, q)' => Searchable(q)'
  <2> SUFFICES ASSUME NEW o \in Proc, NEW q \in Record, Known(o, q)' PROVE Searchable(q)
    BY <1>2
  <2>1. CASE q \in batch
    BY <2>1
  <2>2. CASE q \notin batch
    BY <2>2, <1>1 DEF Known, OwedInv
  <2> QED BY <2>1, <2>2
<1>4. OwedIsSearchable'
  <2> SUFFICES ASSUME NEW q \in Record, q \in queued \/ entry'[q] # NoSlab PROVE Searchable(q)
    BY <1>2 DEF OwedIsSearchable, Searchable
  <2>1. CASE q \in batch
    BY <2>1
  <2>2. CASE q \notin batch
    BY <2>2, <1>1 DEF OwedInv, OwedIsSearchable, Searchable
  <2> QED BY <2>1, <2>2
<1> QED BY <1>2, <1>3, <1>4 DEF OwedInv

(* Forget drops the entry of a record it condemns.                          *)
LEMMA Forgetting ==
  ASSUME TypeOK, NEW c \in Caller, NEW r \in Record, Forget(c, r)
  PROVE  /\ \A q \in Record : entry'[q] = IF q = r THEN NoSlab ELSE entry[q]
         /\ \A p \in Proc, q \in Record :
              seen'[p][q] = IF p = ProcOf[c] /\ q = r THEN NoSlab ELSE seen[p][q]
         /\ pc'[c] = "body" /\ target'[c] = r
         /\ \A d \in Caller \ {c} : pc'[d] = pc[d] /\ target'[d] = target[d]
         /\ condemned' = condemned \union {r}
         /\ pc[c] = "idle" /\ ProcOf[c] \in up /\ ProcOf[c] \in Proc /\ Known(ProcOf[c], r)
         /\ UNCHANGED <<bodies, rows, vectors, queued, account, storage, up, index, flushing,
                        hits, spot, swept, born, forgotten, early, overtaken, failed>>
<1>1. /\ Catalogued(ProcOf[c], {r}, NoSlab)
      /\ target' = [target EXCEPT ![c] = r] /\ pc' = [pc EXCEPT ![c] = "body"]
  BY DEF Forget, Goto
<1>2. ASSUME NEW p \in Proc, NEW q \in Record
      PROVE  seen'[p][q] = IF p = ProcOf[c] /\ q = r THEN NoSlab ELSE seen[p][q]
  <2>1. seen' = [seen EXCEPT ![ProcOf[c]] =
                   [x \in Record |-> IF x \in {r} THEN NoSlab ELSE @[x]]]
    BY <1>1 DEF Catalogued
  <2>2. CASE p = ProcOf[c]
    BY <2>1, <2>2 DEF TypeOK
  <2>3. CASE p # ProcOf[c]
    BY <2>1, <2>3 DEF TypeOK
  <2> QED BY <2>2, <2>3
<1>3. \A q \in Record : entry'[q] = IF q = r THEN NoSlab ELSE entry[q]
  BY <1>1 DEF Catalogued
<1>4. /\ pc'[c] = "body" /\ target'[c] = r
      /\ \A d \in Caller \ {c} : pc'[d] = pc[d] /\ target'[d] = target[d]
  BY <1>1 DEF TypeOK
<1>5. /\ pc[c] = "idle" /\ ProcOf[c] \in up /\ ProcOf[c] \in Proc /\ Known(ProcOf[c], r)
      /\ UNCHANGED <<bodies, rows, vectors, queued, account, storage, up, index, flushing,
                     hits, spot, swept, born, forgotten, early, overtaken, failed>>
      /\ condemned' = condemned \union {r}
  BY CallerAssumption DEF Forget, At, Known, tables
<1> QED BY <1>2, <1>3, <1>4, <1>5

LEMMA ForgetKeepsOwed ==
  ASSUME TypeOK, OwedInv, NEW c \in Caller, NEW r \in Record, Forget(c, r)
  PROVE  OwedInv'
<1>1. /\ condemned' = condemned \union {r}
      /\ pc'[c] = "body" /\ target'[c] = r
      /\ \A d \in Caller \ {c} : pc'[d] = pc[d] /\ target'[d] = target[d]
      /\ UNCHANGED <<rows, vectors, queued>>
  BY Forgetting
<1>3. /\ \A q \in Record : entry'[q] = IF q = r THEN NoSlab ELSE entry[q]
      /\ \A p \in Proc, q \in Record :
           seen'[p][q] = IF p = ProcOf[c] /\ q = r THEN NoSlab ELSE seen[p][q]
  BY Forgetting
<1>4. \A q : Searchable(q) => Searchable(q)'
  BY <1>1 DEF Searchable
<1>5. \A p \in Proc, q \in Record : Known(p, q)' => Known(p, q)
  BY <1>3 DEF Known
<1>6. OwedIsSearchable'
  BY <1>1, <1>3, <1>4 DEF OwedInv, OwedIsSearchable, Searchable
<1>7. ASSUME NEW d \in Caller
      PROVE  /\ pc'[d] \in Dropping => target'[d] \in condemned'
             /\ pc'[d] = "row" => target'[d] \in condemned' \union vectors'
             /\ pc'[d] = "add" => Searchable(target[d])'
  <2>1. CASE d = c
    BY <1>1, <2>1
  <2>2. CASE d # c
    BY <1>1, <1>4, <2>2 DEF OwedInv, Searchable
  <2> QED BY <2>1, <2>2
<1> QED
  <2>1. \A p \in Proc, q \in Record : Known(p, q)' => Searchable(q)'
    BY <1>4, <1>5 DEF OwedInv
  <2>2. \A d \in Caller :
          /\ pc'[d] \in Dropping => target'[d] \in condemned'
          /\ pc'[d] = "row" => target'[d] \in condemned' \union vectors'
          /\ pc'[d] = "add" => Searchable(target[d])'
    BY <1>7 DEF Searchable
  <2> QED BY <1>6, <2>1, <2>2 DEF OwedInv, Dropping

LEMMA OwedStep == TypeOK /\ OwedInv /\ [Next]_vars => OwedInv'
<1> SUFFICES ASSUME TypeOK, OwedInv, [Next]_vars PROVE OwedInv'
  OBVIOUS
<1> USE SlabAssumption DEF tables, files, account, memory, storage, call, history, Storing, Dropping,
        OwedInv, OwedIsSearchable, Searchable, Known
<1>1. CASE UNCHANGED vars
  BY <1>1 DEF vars
<1>2. ASSUME NEW c \in Caller, NEW r \in Record, Remember(c, r) PROVE OwedInv'
  BY <1>2 DEF Remember, Goto, TypeOK
<1>3. ASSUME NEW c \in Caller, PutVector(c) PROVE OwedInv'
  BY <1>3 DEF PutVector, Goto, TypeOK
<1>4. ASSUME NEW c \in Caller, PutRow(c) PROVE OwedInv'
  BY <1>4 DEF PutRow, Goto, At, TypeOK
<1>5. ASSUME NEW c \in Caller, Add(c) PROVE OwedInv'
  <2>1. pc[c] = "add" /\ Return(c) /\ queued' = queued \union {target[c]}
        /\ UNCHANGED <<rows, vectors, entry, seen, condemned>>
    BY <1>5 DEF Add, At
  <2>2. pc'[c] = "idle" /\ \A d \in Caller \ {c} : pc'[d] = pc[d] /\ target'[d] = target[d]
    BY <2>1, Returned
  <2> QED BY <2>1, <2>2
<1>6. ASSUME NEW c \in Caller, NEW r \in Record, Forget(c, r) PROVE OwedInv'
  BY <1>6, ForgetKeepsOwed
<1>7. ASSUME NEW c \in Caller, ForgetBody(c) \/ RemoveVector(c) PROVE OwedInv'
  BY <1>7 DEF ForgetBody, RemoveVector, Goto, At, TypeOK
<1>8. ASSUME NEW c \in Caller, ForgetRow(c) PROVE OwedInv'
  <2>1. /\ pc[c] = "unrow" /\ Return(c) /\ rows' = rows \ {target[c]}
        /\ UNCHANGED <<vectors, queued, entry, seen, condemned>>
    BY <1>8 DEF ForgetRow, At
  <2>2. pc'[c] = "idle" /\ \A d \in Caller \ {c} : pc'[d] = pc[d] /\ target'[d] = target[d]
    BY <2>1, Returned
  <2> QED BY <2>1, <2>2
<1>9. ASSUME NEW c \in Caller, Recalling(c) PROVE OwedInv'
  BY <1>9, RecallingKeeps DEF TypeOK
<1>11. ASSUME NEW p \in Proc, NEW s \in Slab, Flush(p, s) PROVE OwedInv'
  <2>1. /\ Catalogued(p, queued, s) /\ queued \in SUBSET Record /\ s \in Place
        /\ UNCHANGED <<vectors, rows, queued, condemned, pc, target>>
    BY <1>11 DEF Flush, TypeOK, Place
  <2>2. \A r \in queued : Searchable(r)
    BY DEF TypeOK
  <2> QED BY <2>1, <2>2, FilingKeepsOwed
<1>12. ASSUME NEW p \in Proc, NEW o \in Object, Relocate(p, o), Known(p, o[1]) PROVE OwedInv'
  <2>1. /\ Catalogued(p, {o[1]}, o[2]) /\ o[2] \in Place /\ {o[1]} \in SUBSET Record
        /\ UNCHANGED <<vectors, rows, queued, condemned, pc, target>>
    BY <1>12, Relocating
  <2>2. \A r \in {o[1]} : Searchable(r)
    BY <1>12, <2>1
  <2> QED BY <2>1, <2>2, FilingKeepsOwed
<1>13. ASSUME NEW p \in Proc, Drop(p) PROVE OwedInv'
  BY <1>13 DEF Drop
<1>14. ASSUME NEW p \in Proc, Stop(p) PROVE OwedInv'
  BY <1>14 DEF Stop, Nowhere, TypeOK
<1>15. ASSUME NEW p \in Proc, Open(p) PROVE OwedInv'
  BY <1>15 DEF Open, TypeOK
<1>16. ASSUME NEW r \in Record, ForgetLocally(r) PROVE OwedInv'
  BY <1>16 DEF ForgetLocally
<1>17. ASSUME NEW p \in Proc, Commanding(p) PROVE OwedInv'
  BY <1>17, CommandsKeep DEF Standing
<1> QED BY <1>1, <1>2, <1>3, <1>4, <1>5, <1>6, <1>7, <1>8, <1>9, <1>11, <1>12, <1>13,
           <1>14, <1>15, <1>16, <1>17 DEF Next, Recalling, Commanding

(* Nothing that is owed to the network, or there, leaves the search index   *)
(* before it is forgotten.                                                 *)
THEOREM OwedCanBeFound == Spec => []OwedIsSearchable
<1>1. Init => OwedInv
  BY DEF Init, OwedInv, OwedIsSearchable, Known, Nowhere, Dropping
<1>2. OwedInv => OwedIsSearchable
  BY DEF OwedInv
<1> QED BY <1>1, <1>2, OwedStep, TypeCorrect, PTL DEF Spec

-----------------------------------------------------------------------------
(* Filing records that are born, and that nobody is storing, is no news.    *)
LEMMA FilingKeepsFresh ==
  ASSUME TypeOK, FreshInv, NEW p \in Proc, NEW batch \in SUBSET Record, NEW s \in Place,
         Catalogued(p, batch, s), UNCHANGED <<queued, condemned, born, pc, target>>,
         \A r \in batch : r \in queued \/ Known(p, r)
  PROVE  FreshInv'
<1>1. /\ \A q \in Record : entry'[q] = IF q \in batch THEN s ELSE entry[q]
      /\ \A o \in Proc, q \in Record :
           seen'[o][q] = IF o = p /\ q \in batch THEN s ELSE seen[o][q]
  BY Filed
<1>2. \A r \in batch : r \in born
  BY DEF FreshInv
<1>3. \A r \in Record : (r \in queued \union condemned \/ entry'[r] # NoSlab) => r \in born
  BY <1>1, <1>2 DEF FreshInv
<1>4. \A o \in Proc, r \in Record : Known(o, r)' => r \in born
  BY <1>1, <1>2 DEF FreshInv, Known
<1>5. ASSUME NEW c \in Caller, pc[c] \in Storing
      PROVE  entry'[target[c]] = NoSlab /\ \A o \in Proc : ~ Known(o, target[c])'
  <2>1. target[c] \notin batch
    BY <1>5 DEF FreshInv
  <2>2. target[c] \in Record
    BY <1>5 DEF TypeOK, Storing
  <2> QED BY <1>1, <1>5, <2>1, <2>2 DEF FreshInv, Known
<1> QED BY <1>3, <1>4, <1>5 DEF FreshInv, Known, Storing

(* A call that stores goes on with what it began.                           *)
LEMMA FreshStep == TypeOK /\ FreshInv /\ [Next]_vars => FreshInv'
<1> SUFFICES ASSUME TypeOK, FreshInv, [Next]_vars PROVE FreshInv'
  OBVIOUS
<1> USE DEF tables, files, account, memory, storage, call, history
<1>1. CASE UNCHANGED vars
  BY <1>1 DEF vars, FreshInv, Known
<1>2. ASSUME NEW c \in Caller, NEW r \in Record, Remember(c, r) PROVE FreshInv'
  <2>1. /\ r \notin born /\ born' = born \union {r}
        /\ target' = [target EXCEPT ![c] = r] /\ pc' = [pc EXCEPT ![c] = "vector"]
        /\ UNCHANGED <<queued, condemned, entry, seen>>
    BY <1>2 DEF Remember, Goto
  <2>2. /\ pc'[c] = "vector" /\ target'[c] = r
        /\ \A d \in Caller \ {c} : pc'[d] = pc[d] /\ target'[d] = target[d]
    BY <2>1 DEF TypeOK
  <2> QED BY <2>1, <2>2 DEF FreshInv, Known, Storing
<1>3. ASSUME NEW c \in Caller, PutVector(c) \/ PutRow(c) PROVE FreshInv'
  <2>1. /\ pc[c] \in Storing /\ UNCHANGED <<queued, condemned, entry, seen, born, target>>
        /\ pc' = [pc EXCEPT ![c] = "row"] \/ pc' = [pc EXCEPT ![c] = "add"]
    BY <1>3 DEF PutVector, PutRow, At, Goto, Storing
  <2>2. pc'[c] \in Storing /\ \A d \in Caller \ {c} : pc'[d] = pc[d]
    BY <2>1 DEF TypeOK, Storing
  <2> QED BY <2>1, <2>2 DEF FreshInv, Known
<1>4. ASSUME NEW c \in Caller, Add(c) PROVE FreshInv'
  <2>1. /\ pc[c] \in Storing /\ Return(c) /\ queued' = queued \union {target[c]}
        /\ UNCHANGED <<entry, seen, born, condemned>>
    BY <1>4 DEF Add, At, Storing
  <2>2. pc'[c] = "idle" /\ \A d \in Caller \ {c} : pc'[d] = pc[d] /\ target'[d] = target[d]
    BY <2>1, Returned
  <2> QED BY <2>1, <2>2 DEF FreshInv, Known, Storing
<1>5. ASSUME NEW c \in Caller, NEW r \in Record, Forget(c, r) PROVE FreshInv'
  <2>1. /\ condemned' = condemned \union {r}
        /\ ProcOf[c] \in Proc /\ Known(ProcOf[c], r)
        /\ UNCHANGED <<queued, born>>
    BY <1>5, Forgetting
  <2>3. /\ \A q \in Record : entry'[q] = IF q = r THEN NoSlab ELSE entry[q]
        /\ \A o \in Proc, q \in Record :
             seen'[o][q] = IF o = ProcOf[c] /\ q = r THEN NoSlab ELSE seen[o][q]
    BY <1>5, Forgetting
  <2>4. pc'[c] = "body" /\ \A d \in Caller \ {c} : pc'[d] = pc[d] /\ target'[d] = target[d]
    BY <1>5, Forgetting
  <2>5. r \in born /\ \A d \in Caller : pc[d] \in Storing => target[d] # r
    BY <2>1 DEF FreshInv
  <2>6. /\ \A q \in Record : entry'[q] # NoSlab => entry[q] # NoSlab
        /\ \A o \in Proc, q \in Record : Known(o, q)' => Known(o, q)
    BY <2>3 DEF Known
  <2>7. \A d \in Caller : pc[d] \in Storing => target[d] \in Record
    BY DEF TypeOK, Storing
  <2> QED BY <2>1, <2>4, <2>5, <2>6, <2>7 DEF FreshInv, Storing
<1>6. ASSUME NEW c \in Caller, ForgetBody(c) \/ RemoveVector(c) PROVE FreshInv'
  <2>1. /\ UNCHANGED <<queued, condemned, entry, seen, born, target>>
        /\ pc' = [pc EXCEPT ![c] = "unvector"] \/ pc' = [pc EXCEPT ![c] = "unrow"]
    BY <1>6 DEF ForgetBody, RemoveVector, Goto
  <2>2. pc'[c] \notin Storing /\ \A d \in Caller \ {c} : pc'[d] = pc[d]
    BY <2>1 DEF TypeOK, Storing
  <2> QED BY <2>1, <2>2 DEF FreshInv, Known
<1>7. ASSUME NEW c \in Caller, ForgetRow(c) PROVE FreshInv'
  <2>1. Return(c) /\ UNCHANGED <<queued, condemned, entry, seen, born>>
    BY <1>7 DEF ForgetRow
  <2> QED BY <2>1, Returned DEF FreshInv, Known, Storing
<1>8. ASSUME NEW c \in Caller, Recalling(c) PROVE FreshInv'
  <2>1. /\ UNCHANGED <<queued, entry, seen, born, condemned>>
        /\ \A d \in Caller : pc'[d] \in Storing => pc'[d] = pc[d] /\ target'[d] = target[d]
    BY <1>8, RecallingKeeps
  <2> QED BY <2>1 DEF FreshInv, Known
<1>9. ASSUME NEW p \in Proc, NEW s \in Slab, Flush(p, s) PROVE FreshInv'
  <2>1. /\ Catalogued(p, queued, s) /\ queued \in SUBSET Record /\ s \in Place
        /\ UNCHANGED <<queued, condemned, born, pc, target>>
    BY <1>9 DEF Flush, TypeOK, Place
  <2> QED BY <2>1, FilingKeepsFresh
<1>10. ASSUME NEW p \in Proc, NEW o \in Object, Relocate(p, o), Known(p, o[1]) PROVE FreshInv'
  <2> DEFINE b == {o[1]}
  <2>1. /\ Catalogued(p, b, o[2]) /\ b \in SUBSET Record /\ o[2] \in Place
        /\ UNCHANGED <<queued, condemned, born, pc, target>>
        /\ \A q \in b : Known(p, q)
    BY <1>10, Relocating
  <2> HIDE DEF b
  <2> QED BY <2>1, FilingKeepsFresh
<1>11. ASSUME NEW p \in Proc, Drop(p) PROVE FreshInv'
  BY <1>11 DEF Drop, FreshInv, Known
<1>12. ASSUME NEW p \in Proc, Stop(p) PROVE FreshInv'
  <2>1. /\ UNCHANGED <<queued, condemned, entry, born>>
        /\ \A c \in Caller : pc'[c] = "idle" \/ (pc'[c] = pc[c] /\ target'[c] = target[c])
    BY <1>12 DEF Stop
  <2>2. \A o \in Proc, r \in Record : Known(o, r)' => Known(o, r)
    BY <1>12 DEF Stop, Known, Nowhere, TypeOK
  <2>3. \A c \in Caller : pc[c] \in Storing => target[c] \in Record
    BY DEF TypeOK, Storing
  <2> QED BY <2>1, <2>2, <2>3 DEF FreshInv, Storing
<1>13. ASSUME NEW p \in Proc, Open(p) PROVE FreshInv'
  <2>1. /\ UNCHANGED <<queued, condemned, entry, born, pc, target>>
        /\ \A o \in Proc, r \in Record : Known(o, r)' => Known(o, r) \/ entry[r] # NoSlab
    BY <1>13 DEF Open, Known, TypeOK
  <2>2. \A c \in Caller : pc[c] \in Storing => target[c] \in Record
    BY DEF TypeOK, Storing
  <2> QED BY <2>1, <2>2 DEF FreshInv
<1>14. ASSUME NEW r \in Record, ForgetLocally(r) PROVE FreshInv'
  BY <1>14 DEF ForgetLocally, FreshInv, Known
<1>15. ASSUME NEW p \in Proc, Commanding(p) PROVE FreshInv'
  BY <1>15, CommandsKeep DEF Standing, FreshInv, Known
<1> QED BY <1>1, <1>2, <1>3, <1>4, <1>5, <1>6, <1>7, <1>8, <1>9, <1>10, <1>11, <1>12, <1>13,
           <1>14, <1>15 DEF Next, Recalling, Commanding

-----------------------------------------------------------------------------
(* Where a recall goes on to, what it puts on the device, and what it fails *)
(* on.                                                                     *)
Onward(c) ==
  \/ pc'[c] \in {"idle", "read"}
  \/ pc'[c] = "lookup" /\ target'[c] \in hits[c] \ bodies
  \/ pc'[c] = "cached" /\ pc[c] = "lookup" /\ target'[c] = target[c]
                       /\ Known(ProcOf[c], target[c])
                       /\ spot'[c] = seen[ProcOf[c]][target[c]]
  \/ pc'[c] = "remote" /\ pc[c] = "cached" /\ target'[c] = target[c] /\ spot'[c] = spot[c]
  \/ pc'[c] = "put" /\ pc[c] \in {"cached", "remote"} /\ target'[c] = target[c]

Restored(c) ==
  \/ bodies' = bodies
  \/ pc[c] = "put" /\ bodies' = bodies \union {target[c]}

FailedRightly(c) ==
  \/ failed' = failed
  \/ /\ pc[c] = "lookup" /\ ~ Known(ProcOf[c], target[c])
     /\ failed' = failed \union {<<target[c], NoSlab>>}
  \/ /\ pc[c] = "remote" /\ <<target[c], spot[c]>> \notin network
     /\ failed' = failed \union {<<target[c], spot[c]>>}

LEMMA RecallingReads ==
  ASSUME TypeOK, NEW c \in Caller, Recalling(c)
  PROVE  /\ Onward(c) /\ Restored(c) /\ FailedRightly(c)
         /\ pc'[c] # "idle" => ProcOf[c] \in up
         /\ hits'[c] \subseteq hits[c] \union Candidates(ProcOf[c])
<1> USE DEF tables, files, account, memory, storage, call, history, Onward, Restored, FailedRightly
<1>1. ASSUME NEW scoped \in BOOLEAN, Recall(c, scoped)
      PROVE  /\ pc'[c] = "read" /\ ProcOf[c] \in up /\ UNCHANGED <<bodies, failed>>
             /\ hits'[c] \subseteq Candidates(ProcOf[c])
  BY <1>1 DEF Recall, Goto, At, TypeOK
<1>2. ASSUME NEW r \in Record, FetchLocal(c, r)
      PROVE  /\ Onward(c) /\ ProcOf[c] \in up /\ UNCHANGED <<bodies, failed>>
             /\ hits'[c] \subseteq hits[c]
  <2>1. ProcOf[c] \in up /\ r \in hits[c] /\ UNCHANGED <<bodies, failed>>
    BY <1>2 DEF FetchLocal, At
  <2>2. CASE r \in bodies
    BY <1>2, <2>1, <2>2, WentOn DEF FetchLocal
  <2>3. CASE r \notin bodies
    BY <1>2, <2>1, <2>3 DEF FetchLocal, Goto, TypeOK
  <2> QED BY <2>1, <2>2, <2>3
<1>3. ASSUME Lookup(c)
      PROVE  /\ Onward(c) /\ FailedRightly(c) /\ ProcOf[c] \in up /\ UNCHANGED bodies
             /\ hits'[c] \subseteq hits[c]
  <2>1. ProcOf[c] \in up /\ UNCHANGED bodies /\ pc[c] = "lookup"
    BY <1>3 DEF Lookup, At
  <2>2. CASE ~ Known(ProcOf[c], target[c])
    <3>1. Return(c) /\ failed' = failed \union {<<target[c], NoSlab>>}
      BY <1>3, <2>2 DEF Lookup, FailOn, Known
    <3> QED BY <2>1, <2>2, <3>1, Returned
  <2>3. CASE Known(ProcOf[c], target[c])
    <3>1. /\ pc' = [pc EXCEPT ![c] = "cached"] /\ UNCHANGED <<target, hits, failed>>
          /\ spot' = [spot EXCEPT ![c] = seen[ProcOf[c]][target[c]]]
      BY <1>3, <2>3 DEF Lookup, Goto, Known
    <3> QED BY <2>1, <2>3, <3>1 DEF TypeOK
  <2> QED BY <2>1, <2>2, <2>3
<1>4. ASSUME FetchCached(c)
      PROVE  /\ Onward(c) /\ ProcOf[c] \in up /\ UNCHANGED <<bodies, failed, hits>>
  BY <1>4 DEF FetchCached, Goto, At, TypeOK
<1>5. ASSUME FetchRemote(c)
      PROVE  /\ Onward(c) /\ FailedRightly(c) /\ ProcOf[c] \in up /\ UNCHANGED bodies
             /\ hits'[c] \subseteq hits[c]
  <2>1. ProcOf[c] \in up /\ UNCHANGED bodies /\ pc[c] = "remote"
    BY <1>5 DEF FetchRemote, At
  <2>2. CASE <<target[c], spot[c]>> \in network
    <3>1. /\ pc' = [pc EXCEPT ![c] = "put"] /\ UNCHANGED <<target, hits, failed>>
      BY <1>5, <2>2 DEF FetchRemote, Goto
    <3> QED BY <2>1, <3>1 DEF TypeOK
  <2>3. CASE <<target[c], spot[c]>> \notin network
    <3>1. Return(c) /\ failed' = failed \union {<<target[c], spot[c]>>}
      BY <1>5, <2>3 DEF FetchRemote, FailOn
    <3>2. FailedRightly(c)
      BY <2>1, <2>3, <3>1
    <3> QED BY <2>1, <3>1, <3>2, Returned
  <2> QED BY <2>1, <2>2, <2>3
<1>6. ASSUME PutBody(c)
      PROVE  /\ Onward(c) /\ Restored(c) /\ ProcOf[c] \in up /\ UNCHANGED failed
             /\ hits'[c] \subseteq hits[c]
  BY <1>6, WentOn DEF PutBody, At
<1>7. ASSUME Fail(c) PROVE pc'[c] = "idle" /\ hits'[c] = {} /\ UNCHANGED <<bodies, failed>>
  BY <1>7, Returned DEF Fail
<1> QED BY <1>1, <1>2, <1>3, <1>4, <1>5, <1>6, <1>7 DEF Recalling

-----------------------------------------------------------------------------
(* Filing condemned records is noted.                                       *)
LEMMA FilingKeepsGone ==
  ASSUME TypeOK, GoneInv, NEW p \in Proc, NEW batch \in SUBSET Record, NEW s \in Place,
         Catalogued(p, batch, s),
         UNCHANGED <<vectors, rows, bodies, condemned, forgotten, overtaken, up, pc, target>>,
         \A r \in revived : r \in revived', \A r \in batch : r \in condemned => r \in revived'
  PROVE  GoneInv'
<1>1. /\ \A q \in Record : entry'[q] = IF q \in batch THEN s ELSE entry[q]
      /\ \A o \in Proc, q \in Record :
           seen'[o][q] = IF o = p /\ q \in batch THEN s ELSE seen[o][q]
  BY Filed
<1>2. condemned \subseteq Record /\ up \subseteq Proc
  BY DEF TypeOK
<1>3. \A r \in condemned : entry'[r] = NoSlab \/ r \in revived'
  BY <1>1, <1>2 DEF GoneInv
<1>4. Dropped' = Dropped /\ Dropped \subseteq condemned
  BY DEF Dropped, GoneInv, Dropping
<1>5. \A r \in Dropped, o \in up : r \notin batch => Known(o, r)' = Known(o, r)
  BY <1>1, <1>2, <1>4 DEF Known
<1>6. \A r \in Dropped :
        \/ r \in overtaken' \union revived'
        \/ /\ r \notin bodies'
           /\ \A o \in up' : ~ Known(o, r)'
           /\ \A c \in Caller : pc'[c] \in {"cached", "remote", "put"} => target'[c] # r
  BY <1>4, <1>5 DEF GoneInv
<1> QED BY <1>3, <1>4, <1>6 DEF GoneInv, Dropping, Known

LEMMA GoneStep == TypeOK /\ FreshInv /\ GoneInv /\ [Next]_vars => GoneInv'
<1> SUFFICES ASSUME TypeOK, FreshInv, GoneInv, [Next]_vars PROVE GoneInv'
  OBVIOUS
<1> USE SlabAssumption DEF tables, files, account, memory, storage, call, history
<1>0. /\ Dropped \subseteq condemned /\ condemned \subseteq Record /\ up \subseteq Proc
      /\ \A c \in Caller : pc[c] \in Storing => target[c] \notin condemned
  BY DEF Dropped, GoneInv, FreshInv, Dropping, TypeOK
<1>1. CASE UNCHANGED vars
  BY <1>1 DEF vars, GoneInv, Dropped, Known
<1>2. ASSUME NEW c \in Caller, NEW r \in Record, Remember(c, r) PROVE GoneInv'
  <2>1. /\ r \notin condemned /\ bodies' = bodies \union {r} /\ pc[c] = "idle"
        /\ pc'[c] = "vector"
        /\ \A d \in Caller \ {c} : pc'[d] = pc[d] /\ target'[d] = target[d]
        /\ UNCHANGED <<vectors, rows, entry, seen, up, condemned, forgotten, overtaken, revived>>
    BY <1>2 DEF Remember, At, Goto, TypeOK, FreshInv
  <2>2. Dropped' = Dropped
    BY <2>1 DEF Dropped
  <2> QED BY <1>0, <2>1, <2>2 DEF GoneInv, Dropping, Known
<1>3. ASSUME NEW c \in Caller, PutVector(c) \/ PutRow(c) PROVE GoneInv'
  <2>1. /\ target[c] \notin condemned
        /\ vectors' \subseteq vectors \union {target[c]} /\ rows' \subseteq rows \union {target[c]}
        /\ pc[c] \in Storing /\ pc'[c] \in {"row", "add"}
        /\ \A d \in Caller \ {c} : pc'[d] = pc[d]
        /\ UNCHANGED <<target, bodies, entry, seen, up, condemned, forgotten, overtaken, revived>>
    BY <1>0, <1>3 DEF PutVector, PutRow, At, Goto, TypeOK, Storing
  <2>2. Dropped' = Dropped
    BY <2>1 DEF Dropped, Storing
  <2> QED BY <2>1, <2>2 DEF GoneInv, Dropping, Known
<1>4. ASSUME NEW c \in Caller, Add(c) PROVE GoneInv'
  <2>1. /\ pc[c] = "add" /\ pc'[c] = "idle"
        /\ \A d \in Caller \ {c} : pc'[d] = pc[d] /\ target'[d] = target[d]
        /\ UNCHANGED <<vectors, rows, bodies, entry, seen, up, condemned, forgotten, overtaken,
                       revived>>
    BY <1>4, Returned DEF Add, At
  <2>2. Dropped' = Dropped
    BY <2>1 DEF Dropped
  <2> QED BY <2>1, <2>2 DEF GoneInv, Dropping, Known
<1>5. ASSUME NEW c \in Caller, NEW r \in Record, Forget(c, r) PROVE GoneInv'
  <2>1. /\ \A q \in Record : entry'[q] = IF q = r THEN NoSlab ELSE entry[q]
        /\ \A p \in Proc, q \in Record : Known(p, q)' => Known(p, q)
    BY <1>5, Forgetting DEF Known
  <2>2. /\ pc[c] = "idle" /\ pc'[c] = "body" /\ target'[c] = r
        /\ \A d \in Caller \ {c} : pc'[d] = pc[d] /\ target'[d] = target[d]
        /\ condemned' = condemned \union {r} /\ revived \subseteq revived'
        /\ UNCHANGED <<vectors, rows, bodies, up, forgotten, overtaken>>
    BY <1>5, Forgetting DEF Forget
  <2>3. Dropped' = Dropped
    BY <2>2 DEF Dropped
  <2>4. \A q \in condemned' : entry'[q] = NoSlab \/ q \in revived'
    BY <1>0, <2>1, <2>2 DEF GoneInv
  <2>5. \A q \in Dropped :
          \/ q \in overtaken' \union revived'
          \/ /\ q \notin bodies'
             /\ \A p \in up' : ~ Known(p, q)'
             /\ \A d \in Caller : pc'[d] \in {"cached", "remote", "put"} => target'[d] # q
    BY <1>0, <2>1, <2>2 DEF GoneInv
  <2>6. \A d \in Caller :
          /\ pc'[d] \in Dropping => target'[d] \in condemned'
          /\ pc'[d] = "unrow" => target'[d] \notin vectors'
    BY <2>2 DEF GoneInv, Dropping
  <2> QED BY <2>2, <2>3, <2>4, <2>5, <2>6 DEF GoneInv, Dropping, Known
<1>6. ASSUME NEW c \in Caller, ForgetBody(c) PROVE GoneInv'
  <2>1. /\ bodies' = bodies \ {target[c]} /\ overtaken \subseteq overtaken'
        /\ pc[c] = "body" /\ pc'[c] = "unvector" /\ \A d \in Caller \ {c} : pc'[d] = pc[d]
        /\ UNCHANGED <<target, vectors, rows, entry, seen, up, condemned, forgotten, revived>>
    BY <1>6 DEF ForgetBody, At, Goto, TypeOK
  <2>2. \/ target[c] \in overtaken'
        \/ /\ \A p \in up : ~ Known(p, target[c])
           /\ \A d \in Caller : pc[d] \in Reading => target[d] # target[c]
    BY <1>6 DEF ForgetBody, Known
  <2>3. Dropped' = Dropped \union {target[c]}
    BY <2>1 DEF Dropped
  <2>4. \A r \in Dropped' :
          \/ r \in overtaken' \union revived'
          \/ /\ r \notin bodies'
             /\ \A p \in up' : ~ Known(p, r)'
             /\ \A d \in Caller : pc'[d] \in {"cached", "remote", "put"} => target'[d] # r
    BY <2>1, <2>2, <2>3 DEF GoneInv, Known, Reading
  <2>5. \A d \in Caller :
          /\ pc'[d] \in Dropping => target'[d] \in condemned'
          /\ pc'[d] = "unrow" => target'[d] \notin vectors'
    BY <2>1 DEF GoneInv, Dropping
  <2> QED BY <2>1, <2>4, <2>5 DEF GoneInv, Dropping, Known
<1>7. ASSUME NEW c \in Caller, RemoveVector(c) PROVE GoneInv'
  <2>1. /\ vectors' = vectors \ {target[c]}
        /\ pc[c] = "unvector" /\ pc'[c] = "unrow" /\ \A d \in Caller \ {c} : pc'[d] = pc[d]
        /\ UNCHANGED <<target, bodies, rows, entry, seen, up, condemned, forgotten, overtaken,
                       revived>>
    BY <1>7 DEF RemoveVector, At, Goto, TypeOK
  <2>2. Dropped' = Dropped
    BY <2>1 DEF Dropped
  <2> QED BY <2>1, <2>2 DEF GoneInv, Dropping, Known
<1>8. ASSUME NEW c \in Caller, ForgetRow(c) PROVE GoneInv'
  <2>1. /\ rows' = rows \ {target[c]} /\ forgotten' = forgotten \union {target[c]}
        /\ pc[c] = "unrow" /\ pc'[c] = "idle"
        /\ \A d \in Caller \ {c} : pc'[d] = pc[d] /\ target'[d] = target[d]
        /\ UNCHANGED <<vectors, bodies, entry, seen, up, condemned, overtaken, revived>>
    BY <1>8, Returned DEF ForgetRow, At
  <2>2. Dropped' = Dropped
    BY <2>1 DEF Dropped
  <2> QED BY <2>1, <2>2 DEF GoneInv, Dropping, Known
<1>9. ASSUME NEW c \in Caller, Recalling(c) PROVE GoneInv'
  <2>1. /\ UNCHANGED <<vectors, rows, entry, seen, up, condemned, forgotten, overtaken, revived>>
        /\ \A d \in Caller : pc'[d] \in Storing \union Dropping =>
             pc'[d] = pc[d] /\ target'[d] = target[d]
        /\ \A d \in Caller \ {c} : pc'[d] = pc[d] /\ target'[d] = target[d]
    BY <1>9, RecallingKeeps
  <2>2. Onward(c) /\ Restored(c) /\ (pc'[c] # "idle" => ProcOf[c] \in up)
    BY <1>9, RecallingReads
  <2>3. Dropped' \subseteq Dropped
    BY <2>1 DEF Dropped, Dropping
  <2>4. ASSUME NEW r \in Dropped, r \notin overtaken \union revived
        PROVE  /\ r \notin bodies'
               /\ \A p \in up : ~ Known(p, r)
               /\ \A d \in Caller : pc'[d] \in {"cached", "remote", "put"} => target'[d] # r
    <3>1. /\ r \notin bodies /\ \A p \in up : ~ Known(p, r)
          /\ \A d \in Caller : pc[d] \in {"cached", "remote", "put"} => target[d] # r
      BY <2>4 DEF GoneInv
    <3>2. r \notin bodies'
      BY <2>2, <3>1 DEF Restored
    <3>3. pc'[c] \in {"cached", "remote", "put"} => target'[c] # r
      BY <2>2, <3>1 DEF Onward
    <3> QED BY <2>1, <3>1, <3>2, <3>3
  <2> QED BY <2>1, <2>3, <2>4 DEF GoneInv, Dropping, Known
<1>10. ASSUME NEW p \in Proc, NEW s \in Slab, Flush(p, s) PROVE GoneInv'
  <2>1. Catalogued(p, queued, s) /\ queued \in SUBSET Record /\ s \in Place
    BY <1>10 DEF Flush, TypeOK, Place
  <2>3. /\ UNCHANGED <<vectors, rows, bodies, condemned, forgotten, overtaken, up, pc, target>>
        /\ revived' = revived \union (queued \cap condemned)
    BY <1>10 DEF Flush
  <2>2. /\ \A q \in Record : entry'[q] = IF q \in queued THEN s ELSE entry[q]
        /\ \A o \in Proc, q \in Record :
             seen'[o][q] = IF o = p /\ q \in queued THEN s ELSE seen[o][q]
    BY <2>1, Filed
  <2> QED BY <2>1, <2>2, <2>3, FilingKeepsGone
<1>11. ASSUME NEW p \in Proc, NEW o \in Object, Relocate(p, o), Known(p, o[1]) PROVE GoneInv'
  <2> DEFINE b == {o[1]}
  <2>1. /\ Catalogued(p, b, o[2]) /\ b \in SUBSET Record /\ o[2] \in Place
        /\ UNCHANGED <<vectors, rows, bodies, condemned, forgotten, overtaken, up, pc, target>>
        /\ revived' = revived \union (b \cap condemned)
    BY <1>11, Relocating
  <2> HIDE DEF b
  <2>2. /\ \A q \in Record : entry'[q] = IF q \in b THEN o[2] ELSE entry[q]
        /\ \A x \in Proc, q \in Record :
             seen'[x][q] = IF x = p /\ q \in b THEN o[2] ELSE seen[x][q]
    BY <2>1, Filed
  <2> QED BY <2>1, <2>2, FilingKeepsGone
<1>12. ASSUME NEW p \in Proc, Drop(p) PROVE GoneInv'
  BY <1>12 DEF Drop, GoneInv, Dropped, Known
<1>13. ASSUME NEW p \in Proc, Stop(p) PROVE GoneInv'
  <2>1. /\ up' = up \ {p} /\ \A o \in up' : seen'[o] = seen[o]
        /\ \A c \in Caller : pc'[c] = "idle" \/ (pc'[c] = pc[c] /\ target'[c] = target[c])
        /\ UNCHANGED <<vectors, rows, bodies, entry, condemned, forgotten, overtaken, revived>>
    BY <1>0, <1>13 DEF Stop, TypeOK
  <2>2. Dropped' \subseteq Dropped
    BY <2>1 DEF Dropped
  <2>3. \A r \in Dropped' :
          \/ r \in overtaken' \union revived'
          \/ /\ r \notin bodies'
             /\ \A o \in up' : ~ Known(o, r)'
             /\ \A c \in Caller : pc'[c] \in {"cached", "remote", "put"} => target'[c] # r
    BY <2>1, <2>2 DEF GoneInv, Known
  <2> QED BY <2>1, <2>3 DEF GoneInv, Dropping, Known
<1>14. ASSUME NEW p \in Proc, Open(p) PROVE GoneInv'
  <2>1. /\ up' = up \union {p} /\ seen'[p] = entry /\ \A o \in up : o # p => seen'[o] = seen[o]
        /\ UNCHANGED <<vectors, rows, bodies, entry, condemned, forgotten, overtaken, revived, pc,
                       target>>
    BY <1>0, <1>14 DEF Open, TypeOK
  <2>2. \A r \in condemned : r \in revived \/ entry[r] = NoSlab
    BY DEF GoneInv
  <2>3. Dropped' = Dropped
    BY <2>1 DEF Dropped
  <2>4. \A r \in Dropped :
          \/ r \in overtaken \union revived
          \/ /\ r \notin bodies
             /\ \A o \in up' : ~ Known(o, r)'
             /\ \A c \in Caller : pc[c] \in {"cached", "remote", "put"} => target[c] # r
    BY <1>0, <2>1, <2>2 DEF GoneInv, Known
  <2> QED BY <2>1, <2>3, <2>4 DEF GoneInv, Dropping, Known
<1>15. ASSUME NEW r \in Record, ForgetLocally(r) PROVE GoneInv'
  BY <1>15 DEF ForgetLocally, GoneInv, Dropped, Known
<1>16. ASSUME NEW p \in Proc, Commanding(p) PROVE GoneInv'
  BY <1>16, CommandsKeep DEF Standing, GoneInv, Dropped, Known
<1> QED BY <1>1, <1>2, <1>3, <1>4, <1>5, <1>6, <1>7, <1>8, <1>9, <1>10, <1>11, <1>12, <1>13,
           <1>14, <1>15, <1>16 DEF Next, Recalling, Commanding

(* What a Forget took, nothing but the races that are noted brings back.    *)
THEOREM ForgottenStaysGone == Spec => []ForgottenIsGone
<1>1. Init => FreshInv /\ GoneInv
  BY DEF Init, FreshInv, GoneInv, Dropped, Known, Nowhere, Storing, Dropping
<1>2. TypeOK /\ GoneInv => ForgottenIsGone
  BY DEF TypeOK, GoneInv, ForgottenIsGone, Dropped
<1> QED BY <1>1, <1>2, FreshStep, GoneStep, TypeCorrect, PTL DEF Spec

-----------------------------------------------------------------------------
(* Filing under a slab takes nothing from what is known.                    *)
LEMMA FilingKeepsPlaced ==
  ASSUME TypeOK, PlacedInv, NEW p \in Proc, NEW batch, NEW s \in Slab, Catalogued(p, batch, s),
         UNCHANGED <<vectors, rows, bodies, born, condemned, early, index, up, call>>
  PROVE  PlacedInv'
<1>1. /\ \A r \in Record : entry'[r] = IF r \in batch THEN s ELSE entry[r]
      /\ \A o \in Proc, r \in Record :
           seen'[o][r] = IF o = p /\ r \in batch THEN s ELSE seen[o][r]
  BY Filed
<1>2. s # NoSlab
  BY SlabAssumption
<1>3. /\ \A r \in Record : entry[r] # NoSlab => entry'[r] # NoSlab
      /\ \A o \in Proc, r \in Record : Known(o, r) => Known(o, r)'
  BY <1>1, <1>2 DEF Known
<1>4. born \subseteq Record /\ up \subseteq Proc /\ Excused' = Excused
  BY DEF TypeOK, Excused
<1>5. \A r \in born \ Excused : Placed(r)'
  BY <1>3, <1>4 DEF PlacedInv, Placed
<1>6. \A c \in Caller : pc[c] = "lookup" => target[c] \in Record /\ ProcOf[c] \in Proc
  BY CallerAssumption DEF TypeOK
<1>7. \A c \in Caller : pc[c] = "lookup" => target[c] \in Excused \/ seen'[ProcOf[c]][target[c]] # NoSlab
  BY <1>3, <1>6 DEF PlacedInv, Known
<1> QED BY <1>4, <1>5, <1>7 DEF PlacedInv, call, Known

(* A step that takes no copy away unless it is excused or placed elsewhere, *)
(* and that only ends calls or lets a Forget go on.                        *)
LEMMA IdlingKeepsPlaced ==
  ASSUME PlacedInv, UNCHANGED <<entry, seen, up, index, born>>,
         vectors' \subseteq vectors, rows' \subseteq rows,
         condemned \subseteq condemned', early \subseteq early',
         \A r \in born : r \in bodies => r \in bodies' \/ r \in Excused' \/ Placed(r)',
         \A c \in Caller : \/ pc'[c] = "idle"
                           \/ pc'[c] = pc[c] /\ target'[c] = target[c]
                           \/ pc[c] # "idle" /\ pc'[c] \in Dropping,
         \A c \in Caller : hits'[c] \subseteq hits[c]
  PROVE  PlacedInv'
<1>1. Excused \subseteq Excused'
  BY DEF Excused
<1>2. \A r \in born' \ Excused' : Placed(r)'
  BY <1>1 DEF PlacedInv, Placed, Known
<1>3. \A c \in Caller :
        /\ pc'[c] \in Storing \union Reading => pc'[c] = pc[c] /\ target'[c] = target[c]
        /\ pc'[c] # "idle" => pc[c] # "idle"
  BY DEF Storing, Reading, Dropping
<1>4. /\ vectors' \union rows' \subseteq born'
      /\ \A p \in Proc : index'[p] \subseteq born'
      /\ \A c \in Caller : hits'[c] \subseteq born'
      /\ \A c \in Caller : pc'[c] \in Storing \union Reading => target'[c] \in born'
  BY <1>3 DEF PlacedInv
<1>5. \A c \in Caller : pc'[c] = "lookup" =>
        target'[c] \in Excused' \/ seen'[ProcOf[c]][target'[c]] # NoSlab
  BY <1>1, <1>3 DEF PlacedInv, Known, Reading
<1>6. \A c \in Caller : pc'[c] # "idle" => ProcOf[c] \in up'
  BY <1>3 DEF PlacedInv
<1> QED BY <1>2, <1>4, <1>5, <1>6 DEF PlacedInv, Known

(* A recall comes up with what was stored, and looks only for what the      *)
(* device has not.                                                         *)
LEMMA RecallingKeepsPlaced ==
  ASSUME TypeOK, PlacedInv, NEW c \in Caller, Recalling(c)
  PROVE  PlacedInv'
<1>1. /\ UNCHANGED <<vectors, rows, entry, up, index, seen, born, condemned, early>>
      /\ \A d \in Caller : pc'[d] \in Storing \union Dropping =>
           pc'[d] = pc[d] /\ target'[d] = target[d]
      /\ \A d \in Caller \ {c} : pc'[d] = pc[d] /\ target'[d] = target[d] /\ hits'[d] = hits[d]
  BY RecallingKeeps
<1>2. /\ Onward(c) /\ Restored(c)
      /\ pc'[c] # "idle" => ProcOf[c] \in up
      /\ hits'[c] \subseteq hits[c] \union Candidates(ProcOf[c])
  BY RecallingReads
<1>3. ProcOf[c] \in Proc
  BY CallerAssumption
<1>4. \A d \in Caller : hits'[d] \subseteq born
  BY <1>1, <1>2, <1>3 DEF PlacedInv, Candidates
<1>5. \A r \in born \ Excused : Placed(r)'
  BY <1>1, <1>2 DEF PlacedInv, Placed, Known, Restored
<1>6. ASSUME pc'[c] \in Reading
      PROVE  /\ target'[c] \in born
             /\ pc'[c] = "lookup" => target'[c] \in Excused \/ seen[ProcOf[c]][target'[c]] # NoSlab
  <2>1. CASE pc'[c] = "lookup"
    <3>1. target'[c] \in born /\ target'[c] \notin bodies /\ ProcOf[c] \in up
      BY <1>2, <2>1 DEF Onward, PlacedInv
    <3> QED BY <2>1, <3>1 DEF PlacedInv, Placed, Known
  <2>2. CASE pc'[c] # "lookup"
    <3>1. target'[c] = target[c] /\ pc[c] \in Reading
      BY <1>2, <1>6, <2>2 DEF Onward, Reading
    <3> QED BY <2>2, <3>1 DEF PlacedInv
  <2> QED BY <2>1, <2>2
<1>7. Excused' = Excused
  BY <1>1 DEF Excused
<1>8. ASSUME NEW d \in Caller
      PROVE  /\ pc'[d] \in Storing \union Reading => target'[d] \in born
             /\ pc'[d] # "idle" => ProcOf[d] \in up
             /\ pc'[d] = "lookup" => target'[d] \in Excused \/ seen[ProcOf[d]][target'[d]] # NoSlab
  <2>1. CASE d # c
    BY <1>1, <2>1 DEF PlacedInv, Known
  <2>2. CASE d = c
    BY <1>1, <1>2, <1>6, <2>2 DEF PlacedInv, Reading
  <2> QED BY <2>1, <2>2
<1> QED BY <1>1, <1>4, <1>5, <1>7, <1>8 DEF PlacedInv, Known

LEMMA PlacedStep == TypeOK /\ GoneInv /\ PlacedInv /\ [Next]_vars => PlacedInv'
<1> SUFFICES ASSUME TypeOK, GoneInv, PlacedInv, [Next]_vars PROVE PlacedInv'
  OBVIOUS
<1> USE SlabAssumption DEF tables, files, account, memory, storage, call, history
<1>1. CASE UNCHANGED vars
  BY <1>1, IdlingKeepsPlaced DEF vars, Excused
<1>2. ASSUME NEW c \in Caller, NEW r \in Record, Remember(c, r) PROVE PlacedInv'
  <2>1. /\ born' = born \union {r} /\ bodies' = bodies \union {r} /\ ProcOf[c] \in up
        /\ pc'[c] = "vector" /\ target'[c] = r
        /\ \A d \in Caller \ {c} : pc'[d] = pc[d] /\ target'[d] = target[d]
        /\ UNCHANGED <<vectors, rows, entry, up, index, seen, hits, condemned, early>>
    BY <1>2 DEF Remember, At, Goto, TypeOK
  <2>2. Excused' = Excused /\ \A q \in born' \ Excused : Placed(q)'
    BY <2>1 DEF PlacedInv, Placed, Known, Excused
  <2>3. \A d \in Caller :
          /\ pc'[d] \in Storing \union Reading => target'[d] \in born'
          /\ pc'[d] = "lookup" => target'[d] \in Excused \/ seen[ProcOf[d]][target'[d]] # NoSlab
          /\ pc'[d] # "idle" => ProcOf[d] \in up
    BY <2>1 DEF PlacedInv, Known
  <2> QED BY <2>1, <2>2, <2>3 DEF PlacedInv, Known
<1>3. ASSUME NEW c \in Caller, PutVector(c) \/ PutRow(c) PROVE PlacedInv'
  <2>1. /\ pc[c] \in Storing /\ ProcOf[c] \in up
        /\ pc'[c] \in Storing /\ pc'[c] \notin Reading /\ \A d \in Caller \ {c} : pc'[d] = pc[d]
        /\ vectors' \subseteq vectors \union {target[c]} /\ rows' \subseteq rows \union {target[c]}
        /\ UNCHANGED <<target, bodies, entry, up, seen, hits, born, condemned, early>>
    BY <1>3 DEF PutVector, PutRow, At, Goto, TypeOK, Storing, Reading
  <2>2. \A p \in Proc : index'[p] \subseteq index[p] \union {target[c]}
    BY <1>3 DEF PutVector, PutRow, TypeOK
  <2>3. target[c] \in born
    BY <2>1 DEF PlacedInv
  <2>4. Excused' = Excused /\ \A q \in born \ Excused : Placed(q)'
    BY <2>1 DEF PlacedInv, Placed, Known, Excused
  <2>5. \A d \in Caller :
          /\ pc'[d] \in Storing \union Reading => target[d] \in born
          /\ pc'[d] = "lookup" => target[d] \in Excused \/ seen[ProcOf[d]][target[d]] # NoSlab
          /\ pc'[d] # "idle" => ProcOf[d] \in up
    BY <2>1, <2>3 DEF PlacedInv, Known, Reading
  <2>6. vectors' \union rows' \subseteq born /\ \A p \in Proc : index'[p] \subseteq born
    BY <2>1, <2>2, <2>3 DEF PlacedInv
  <2> QED BY <2>1, <2>4, <2>5, <2>6 DEF PlacedInv, Known
<1>4. ASSUME NEW c \in Caller, Add(c) PROVE PlacedInv'
  <2>1. /\ pc'[c] = "idle" /\ hits'[c] = {}
        /\ \A d \in Caller \ {c} : pc'[d] = pc[d] /\ target'[d] = target[d] /\ hits'[d] = hits[d]
        /\ UNCHANGED <<vectors, rows, bodies, entry, up, index, seen, born, condemned, early>>
    BY <1>4, Returned DEF Add
  <2> QED BY <2>1, IdlingKeepsPlaced
<1>5. ASSUME NEW c \in Caller, NEW r \in Record, Forget(c, r) PROVE PlacedInv'
  <2>1. /\ \A q \in Record : entry'[q] = IF q = r THEN NoSlab ELSE entry[q]
        /\ \A p \in Proc, q \in Record :
             seen'[p][q] = IF p = ProcOf[c] /\ q = r THEN NoSlab ELSE seen[p][q]
    BY <1>5, Forgetting
  <2>2. /\ ProcOf[c] \in up /\ pc'[c] = "body" /\ condemned' = condemned \union {r}
        /\ \A d \in Caller \ {c} : pc'[d] = pc[d] /\ target'[d] = target[d]
        /\ UNCHANGED <<bodies, vectors, rows, up, index, hits, born, early>>
    BY <1>5, Forgetting
  <2>3. Excused' = Excused \union {r} /\ born \subseteq Record /\ up \subseteq Proc
    BY <2>2 DEF Excused, TypeOK
  <2>4. \A q \in born \ Excused' : Placed(q)'
    BY <2>1, <2>2, <2>3 DEF PlacedInv, Placed, Known
  <2>5. ASSUME NEW d \in Caller, pc'[d] # "idle", d # c
        PROVE  /\ pc[d] \in Storing \union Reading => target[d] \in born
               /\ pc[d] = "lookup" => target[d] \in Excused' \/ seen'[ProcOf[d]][target[d]] # NoSlab
               /\ ProcOf[d] \in up
    <3>1. ProcOf[d] \in Proc /\ (pc[d] = "lookup" => target[d] \in Record)
      BY CallerAssumption DEF TypeOK
    <3> QED BY <2>1, <2>2, <2>3, <2>5, <3>1 DEF PlacedInv, Known
  <2>6. \A d \in Caller :
          /\ pc'[d] \in Storing \union Reading => target'[d] \in born
          /\ pc'[d] = "lookup" => target'[d] \in Excused' \/ seen'[ProcOf[d]][target'[d]] # NoSlab
          /\ pc'[d] # "idle" => ProcOf[d] \in up
    BY <2>2, <2>5 DEF Storing, Reading
  <2> QED BY <2>2, <2>4, <2>6 DEF PlacedInv, Known
<1>6. ASSUME NEW c \in Caller, ForgetBody(c) PROVE PlacedInv'
  <2>1. /\ bodies' = bodies \ {target[c]} /\ target[c] \in condemned
        /\ pc[c] = "body" /\ pc'[c] = "unvector" /\ \A d \in Caller \ {c} : pc'[d] = pc[d]
        /\ UNCHANGED <<target, hits, vectors, rows, entry, up, index, seen, born, condemned, early>>
    BY <1>6 DEF ForgetBody, At, Goto, TypeOK, GoneInv, Dropping
  <2> QED BY <2>1, IdlingKeepsPlaced DEF Dropping, Excused
<1>7. ASSUME NEW c \in Caller, RemoveVector(c) PROVE PlacedInv'
  <2>1. /\ vectors' \subseteq vectors
        /\ pc[c] = "unvector" /\ pc'[c] = "unrow" /\ \A d \in Caller \ {c} : pc'[d] = pc[d]
        /\ UNCHANGED <<target, hits, bodies, rows, entry, up, index, seen, born, condemned, early>>
    BY <1>7 DEF RemoveVector, At, Goto, TypeOK
  <2> QED BY <2>1, IdlingKeepsPlaced DEF Dropping
<1>8. ASSUME NEW c \in Caller, ForgetRow(c) PROVE PlacedInv'
  <2>1. /\ rows' \subseteq rows /\ pc'[c] = "idle" /\ hits'[c] = {}
        /\ \A d \in Caller \ {c} : pc'[d] = pc[d] /\ target'[d] = target[d] /\ hits'[d] = hits[d]
        /\ UNCHANGED <<vectors, bodies, entry, up, index, seen, born, condemned, early>>
    BY <1>8, Returned DEF ForgetRow
  <2> QED BY <2>1, IdlingKeepsPlaced
<1>9. ASSUME NEW c \in Caller, Recalling(c) PROVE PlacedInv'
  BY <1>9, RecallingKeepsPlaced
<1>10. ASSUME NEW p \in Proc, NEW s \in Slab, Flush(p, s) PROVE PlacedInv'
  BY <1>10, FilingKeepsPlaced DEF Flush
<1>11. ASSUME NEW p \in Proc, NEW o \in Object, Relocate(p, o), Known(p, o[1]) PROVE PlacedInv'
  <2>1. /\ Catalogued(p, {o[1]}, o[2]) /\ o[2] \in Slab
        /\ UNCHANGED <<vectors, rows, bodies, born, condemned, early, index, up, call>>
    BY <1>11, Relocating
  <2> QED BY <2>1, FilingKeepsPlaced
<1>12. ASSUME NEW p \in Proc, Drop(p) PROVE PlacedInv'
  BY <1>12, IdlingKeepsPlaced DEF Drop
<1>13. ASSUME NEW p \in Proc, Stop(p) PROVE PlacedInv'
  <2>1. /\ up' = up \ {p}
        /\ \A o \in Proc \ {p} : seen'[o] = seen[o] /\ index'[o] = index[o]
        /\ index'[p] = {} /\ \A r \in Record : seen'[p][r] = NoSlab
        /\ \A c \in Caller : IF ProcOf[c] = p THEN pc'[c] = "idle" /\ hits'[c] = {}
                             ELSE pc'[c] = pc[c] /\ target'[c] = target[c] /\ hits'[c] = hits[c]
        /\ UNCHANGED <<bodies, vectors, rows, entry, born, condemned, early>>
    BY <1>13 DEF Stop, TypeOK, Nowhere
  <2>2. Excused' = Excused /\ born \subseteq Record /\ up \subseteq Proc
    BY <2>1 DEF Excused, TypeOK
  <2>3. \A q \in born \ Excused : Placed(q)'
    BY <2>1, <2>2 DEF PlacedInv, Placed, Known
  <2>4. \A c \in Caller :
          /\ hits'[c] \subseteq born
          /\ pc'[c] \in Storing \union Reading => target'[c] \in born
          /\ pc'[c] = "lookup" => target'[c] \in Excused \/ seen'[ProcOf[c]][target'[c]] # NoSlab
          /\ pc'[c] # "idle" => ProcOf[c] \in up'
    BY <2>1, CallerAssumption DEF PlacedInv, Known, Storing, Reading
  <2> QED BY <2>1, <2>2, <2>3, <2>4 DEF PlacedInv, Known
<1>14. ASSUME NEW p \in Proc, Open(p) PROVE PlacedInv'
  <2>1. /\ p \notin up /\ up' = up \union {p}
        /\ \A o \in Proc \ {p} : seen'[o] = seen[o] /\ index'[o] = index[o]
        /\ index'[p] = vectors /\ seen'[p] = entry
        /\ UNCHANGED <<bodies, vectors, rows, entry, born, condemned, early, pc, target, hits>>
    BY <1>14 DEF Open, TypeOK
  <2>2. Excused' = Excused /\ born \subseteq Record /\ up \subseteq Proc
    BY <2>1 DEF Excused, TypeOK
  <2>3. \A q \in born \ Excused : Placed(q)'
    BY <2>1, <2>2 DEF PlacedInv, Placed, Known
  <2>4. \A c \in Caller :
          /\ pc[c] = "lookup" => target[c] \in Excused \/ seen'[ProcOf[c]][target[c]] # NoSlab
          /\ pc[c] # "idle" => ProcOf[c] \in up'
    BY <2>1, CallerAssumption DEF PlacedInv, Known
  <2>5. \A o \in Proc : index'[o] \subseteq born
    BY <2>1 DEF PlacedInv
  <2> QED BY <2>1, <2>2, <2>3, <2>4, <2>5 DEF PlacedInv, Known
<1>15. ASSUME NEW r \in Record, ForgetLocally(r) PROVE PlacedInv'
  <2>1. /\ bodies' = bodies \ {r} /\ early \subseteq early'
        /\ r \in early' \/ (entry[r] # NoSlab /\ \A p \in up : Known(p, r))
        /\ UNCHANGED <<pc, target, hits, vectors, rows, entry, up, index, seen, born, condemned>>
    BY <1>15 DEF ForgetLocally, Known
  <2>2. r \in Excused' \/ Placed(r)'
    BY <2>1 DEF Excused, Placed, Known
  <2> QED BY <2>1, <2>2, IdlingKeepsPlaced
<1>16. ASSUME NEW p \in Proc, Commanding(p) PROVE PlacedInv'
  BY <1>16, CommandsKeep, IdlingKeepsPlaced DEF Standing
<1> QED BY <1>1, <1>2, <1>3, <1>4, <1>5, <1>6, <1>7, <1>8, <1>9, <1>10, <1>11, <1>12,
           <1>13, <1>14, <1>15, <1>16 DEF Next, Recalling, Commanding

-----------------------------------------------------------------------------
(* Filing under a slab handed out before, where no repack has anything yet   *)
(* to catalogue of these records.                                          *)
LEMMA FilingKeepsSlabs ==
  ASSUME TypeOK, SlabInv, NEW p \in Proc, NEW batch \in SUBSET Record, NEW s \in Place,
         Catalogued(p, batch, s), spent \subseteq spent', s \in spent' \union {NoSlab},
         UNCHANGED <<keep, doomed>>,
         \A q \in Proc : copies'[q] \subseteq copies[q],
         \A q \in Proc : \A o \in copies'[q] : o[1] \in batch => o[2] # s,
         \A q \in Proc : job'[q] = job[q] \/ (job'[q] = "destroy" /\ copies'[q] = {})
  PROVE  SlabInv'
<1>1. /\ \A q \in Record : entry'[q] = IF q \in batch THEN s ELSE entry[q]
      /\ \A x \in Proc, q \in Record :
           seen'[x][q] = IF x = p /\ q \in batch THEN s ELSE seen[x][q]
  BY Filed
<1>2. /\ \A r \in Record : entry'[r] \in spent' \union {NoSlab}
      /\ \A q \in Proc, r \in Record :
           seen'[q][r] \in spent' \union {NoSlab} /\ keep'[q][r] \in spent' \union {NoSlab}
  BY <1>1 DEF SlabInv
<1>3. ASSUME NEW q \in Proc, NEW o \in copies'[q]
      PROVE  /\ o[2] \in spent' /\ entry'[o[1]] # o[2]
             /\ \A x \in Proc : seen'[x][o[1]] # o[2] /\ keep'[x][o[1]] # o[2]
             /\ \A x \in Proc \ {q} : o \notin copies'[x]
  <2>1. o \in copies[q] /\ o[1] \in Record
    BY DEF TypeOK, Object
  <2> QED BY <1>1, <1>3, <2>1 DEF SlabInv
<1>4. \A q \in Proc : /\ job'[q] # "move" => copies'[q] = {}
                      /\ job'[q] \in {"none", "walk"} => doomed'[q] = {}
  BY DEF SlabInv
<1> QED BY <1>2, <1>3, <1>4 DEF SlabInv

(* A command that is over has nothing left to do.                           *)
LEMMA QuittingKeepsSlabs ==
  ASSUME TypeOK, SlabInv, NEW p \in Proc, Quit(p), UNCHANGED <<entry, spent>>,
         \A q \in Proc, r \in Record : seen'[q][r] \in {seen[q][r], NoSlab}
  PROVE  SlabInv'
<1>1. /\ copies'[p] = {} /\ doomed'[p] = {} /\ job'[p] = "none"
      /\ \A r \in Record : keep'[p][r] = NoSlab
      /\ \A q \in Proc \ {p} : /\ copies'[q] = copies[q] /\ doomed'[q] = doomed[q]
                               /\ job'[q] = job[q] /\ keep'[q] = keep[q]
  BY DEF Quit, TypeOK, Nowhere
<1>2. /\ \A r \in Record : entry'[r] \in spent' \union {NoSlab}
      /\ \A q \in Proc, r \in Record :
           seen'[q][r] \in spent' \union {NoSlab} /\ keep'[q][r] \in spent' \union {NoSlab}
  BY <1>1 DEF SlabInv
<1>3. ASSUME NEW q \in Proc, NEW o \in copies'[q]
      PROVE  /\ o[2] \in spent' /\ entry'[o[1]] # o[2]
             /\ \A x \in Proc : seen'[x][o[1]] # o[2] /\ keep'[x][o[1]] # o[2]
             /\ \A x \in Proc \ {q} : o \notin copies'[x]
  <2>1. q # p /\ o \in copies[q]
    BY <1>1, <1>3
  <2>2. o[1] \in Record /\ o[2] \in Slab /\ o[2] # NoSlab
    BY <2>1, SlabAssumption DEF TypeOK, Object
  <2>3. \A x \in Proc \ {q} : o \notin copies'[x]
    BY <1>1, <2>1 DEF SlabInv
  <2> QED BY <1>1, <2>1, <2>2, <2>3 DEF SlabInv
<1>4. \A q \in Proc : /\ job'[q] # "move" => copies'[q] = {}
                      /\ job'[q] \in {"none", "walk"} => doomed'[q] = {}
  BY <1>1 DEF SlabInv
<1> QED BY <1>2, <1>3, <1>4 DEF SlabInv

(* A repack writes where nothing is.                                        *)
LEMMA RepackingKeepsSlabs ==
  ASSUME TypeOK, SlabInv, NEW p \in Proc, NEW s \in Slab, Repack(p, s)
  PROVE  SlabInv'
<1>1. /\ s \notin spent /\ spent' = spent \union {s} /\ job[p] = "none"
      /\ job' = [job EXCEPT ![p] = "move"] /\ keep' = [keep EXCEPT ![p] = seen[p]]
      /\ UNCHANGED <<entry, seen>>
  BY DEF Repack, Begin, files, memory
<1>2. /\ \A o \in copies'[p] : o \in Object /\ o[2] = s
      /\ \A q \in Proc \ {p} : copies'[q] = copies[q] /\ doomed'[q] = doomed[q]
  BY DEF Repack, TypeOK, Object
<1>3. /\ job'[p] = "move" /\ keep'[p] = seen[p]
      /\ \A q \in Proc \ {p} : job'[q] = job[q] /\ keep'[q] = keep[q]
  BY <1>1 DEF TypeOK
<1>4. /\ \A r \in Record : entry'[r] \in spent' \union {NoSlab}
      /\ \A q \in Proc, r \in Record :
           seen'[q][r] \in spent' \union {NoSlab} /\ keep'[q][r] \in spent' \union {NoSlab}
  BY <1>1, <1>3 DEF SlabInv
<1>5. ASSUME NEW q \in Proc, NEW o \in copies'[q]
      PROVE  /\ o[2] \in spent' /\ entry'[o[1]] # o[2]
             /\ \A x \in Proc : seen'[x][o[1]] # o[2] /\ keep'[x][o[1]] # o[2]
             /\ \A x \in Proc \ {q} : o \notin copies'[x]
  <2>1. CASE q = p
    <3>1. o[2] = s /\ o[1] \in Record /\ s # NoSlab
      BY <1>2, <2>1, SlabAssumption DEF Object
    <3>2. /\ entry[o[1]] # s
          /\ \A x \in Proc : seen[x][o[1]] # s /\ keep[x][o[1]] # s /\ o \notin copies[x]
      BY <1>1, <3>1 DEF SlabInv
    <3> QED BY <1>1, <1>2, <1>3, <2>1, <3>1, <3>2
  <2>2. CASE q # p
    <3>1. o \in copies[q] /\ o[2] \in spent /\ o[1] \in Record
      BY <1>2, <2>2 DEF SlabInv, TypeOK, Object
    <3>2. /\ entry[o[1]] # o[2]
          /\ \A x \in Proc : seen[x][o[1]] # o[2] /\ keep[x][o[1]] # o[2]
          /\ \A x \in Proc \ {q} : o \notin copies[x]
      BY <3>1 DEF SlabInv
    <3>3. o \notin copies'[p]
      BY <1>1, <1>2, <3>1
    <3> QED BY <1>1, <1>2, <1>3, <2>2, <3>1, <3>2, <3>3
  <2> QED BY <2>1, <2>2
<1>6. \A q \in Proc : /\ job'[q] # "move" => copies'[q] = {}
                      /\ job'[q] \in {"none", "walk"} => doomed'[q] = {}
  BY <1>2, <1>3 DEF SlabInv
<1> QED BY <1>4, <1>5, <1>6 DEF SlabInv

(* Slabs are written once, and what a repack has written nobody goes by     *)
(* before it files it.                                                     *)
LEMMA SlabStep == TypeOK /\ SlabInv /\ [Next]_vars => SlabInv'
<1> SUFFICES ASSUME TypeOK, SlabInv, [Next]_vars PROVE SlabInv'
  OBVIOUS
<1> USE SlabAssumption DEF tables, files, account, memory, storage, call, history
<1>0. ASSUME UNCHANGED <<entry, seen, spent, storage>> PROVE SlabInv'
  BY <1>0 DEF SlabInv
<1>1. CASE UNCHANGED vars
  BY <1>0, <1>1 DEF vars
<1>2. ASSUME NEW c \in Caller,
             \/ \E r \in Record : Remember(c, r)
             \/ PutVector(c) \/ PutRow(c) \/ Add(c)
             \/ ForgetBody(c) \/ RemoveVector(c) \/ ForgetRow(c)
      PROVE  SlabInv'
  BY <1>0, <1>2 DEF Remember, PutVector, PutRow, Add, ForgetBody, RemoveVector, ForgetRow
<1>3. ASSUME NEW c \in Caller, NEW r \in Record, Forget(c, r) PROVE SlabInv'
  <2>1. /\ Catalogued(ProcOf[c], {r}, NoSlab) /\ ProcOf[c] \in Proc /\ NoSlab \in Place
        /\ {r} \in SUBSET Record /\ UNCHANGED <<spent, storage>>
    BY <1>3, CallerAssumption DEF Forget, Place
  <2>2. \A q \in Proc : \A o \in copies[q] : o[2] # NoSlab
    BY DEF TypeOK, Object
  <2> QED BY <2>1, <2>2, FilingKeepsSlabs
<1>4. ASSUME NEW c \in Caller, Recalling(c) PROVE SlabInv'
  BY <1>0, <1>4, RecallingKeeps
<1>5. ASSUME NEW p \in Proc, NEW s \in Slab, Flush(p, s) PROVE SlabInv'
  <2>1. /\ Catalogued(p, queued, s) /\ queued \in SUBSET Record /\ s \in Place
        /\ s \notin spent /\ spent' = spent \union {s} /\ UNCHANGED storage
    BY <1>5 DEF Flush, Place, TypeOK
  <2>2. \A q \in Proc : \A o \in copies[q] : o[2] # s
    BY <2>1 DEF SlabInv
  <2> QED BY <2>1, <2>2, FilingKeepsSlabs
<1>6. ASSUME NEW p \in Proc, NEW o \in Object, Relocate(p, o), Known(p, o[1]) PROVE SlabInv'
  <2>1. /\ o[1] \in Record /\ o[2] \in Place /\ {o[1]} \in SUBSET Record
        /\ Catalogued(p, {o[1]}, o[2]) /\ o \in copies[p] /\ UNCHANGED <<spent, keep, doomed>>
        /\ copies' = [copies EXCEPT ![p] = @ \ {o}]
        /\ job' = [job EXCEPT ![p] = IF copies[p] = {o} THEN "destroy" ELSE @]
    BY <1>6, Relocating
  <2>2. /\ copies'[p] = copies[p] \ {o} /\ \A q \in Proc \ {p} : copies'[q] = copies[q]
        /\ job'[p] = (IF copies[p] = {o} THEN "destroy" ELSE job[p])
        /\ \A q \in Proc \ {p} : job'[q] = job[q]
    BY <2>1 DEF TypeOK
  <2>3. o[2] \in spent
    BY <2>1 DEF SlabInv
  <2>4. ASSUME NEW q \in Proc, NEW x \in copies'[q], x[1] \in {o[1]} PROVE x[2] # o[2]
    <3>1. x \in copies[q] /\ x \in Object /\ x # o
      BY <2>1, <2>2, <2>4 DEF TypeOK, SlabInv
    <3>2. x = <<x[1], x[2]>> /\ o = <<o[1], o[2]>>
      BY <3>1 DEF Object
    <3> QED BY <2>4, <3>1, <3>2
  <2> HIDE DEF storage
  <2> QED BY <2>1, <2>2, <2>3, <2>4, FilingKeepsSlabs
<1>7. ASSUME NEW p \in Proc, Drop(p) PROVE SlabInv'
  BY <1>0, <1>7 DEF Drop
<1>8. ASSUME NEW p \in Proc, Stop(p) PROVE SlabInv'
  <2>1. Quit(p) /\ UNCHANGED <<entry, spent>>
    BY <1>8 DEF Stop
  <2>2. \A q \in Proc, r \in Record : seen'[q][r] \in {seen[q][r], NoSlab}
    BY <1>8 DEF Stop, TypeOK, Nowhere
  <2> QED BY <2>1, <2>2, QuittingKeepsSlabs
<1>9. ASSUME NEW p \in Proc, Open(p) PROVE SlabInv'
  <2>1. /\ UNCHANGED <<entry, spent, storage>> /\ seen'[p] = entry
        /\ \A q \in Proc \ {p} : seen'[q] = seen[q]
    BY <1>9 DEF Open, TypeOK
  <2> QED BY <2>1 DEF SlabInv
<1>10. ASSUME NEW r \in Record, ForgetLocally(r) PROVE SlabInv'
  BY <1>0, <1>10 DEF ForgetLocally
<1>11. ASSUME NEW p \in Proc,
              \/ Release(p) \/ Abandon(p)
              \/ \E o \in Object : Relocate(p, o) /\ ~ Known(p, o[1])
       PROVE  SlabInv'
  <2>1. Quit(p) /\ UNCHANGED <<entry, seen, spent>>
    BY <1>11 DEF Release, Abandon, Relocate, Known
  <2> QED BY <2>1, QuittingKeepsSlabs
<1>12. ASSUME NEW p \in Proc, Reclaim(p) PROVE SlabInv'
  <2>1. /\ job[p] = "none" /\ UNCHANGED <<entry, seen, spent, copies, doomed>>
        /\ job'[p] = "walk" /\ \A q \in Proc \ {p} : job'[q] = job[q]
        /\ keep'[p] = seen[p] /\ \A q \in Proc \ {p} : keep'[q] = keep[q]
    BY <1>12 DEF Reclaim, Begin, TypeOK
  <2> QED BY <2>1 DEF SlabInv
<1>13. ASSUME NEW p \in Proc, PlanSweep(p) PROVE SlabInv'
  <2>1. /\ job[p] = "walk" /\ UNCHANGED <<entry, seen, spent, copies, keep>>
        /\ job'[p] = "destroy" /\ \A q \in Proc \ {p} : job'[q] = job[q]
        /\ \A q \in Proc \ {p} : doomed'[q] = doomed[q]
    BY <1>13 DEF PlanSweep, TypeOK
  <2> QED BY <2>1 DEF SlabInv
<1>14. ASSUME NEW p \in Proc, NEW s \in Slab, Repack(p, s) PROVE SlabInv'
  BY <1>14, RepackingKeepsSlabs
<1>15. ASSUME NEW p \in Proc, NEW o \in Object, Delete(p, o) PROVE SlabInv'
  <2>1. /\ UNCHANGED <<entry, seen, spent, copies, keep, job>>
        /\ \A q \in Proc : doomed'[q] \subseteq doomed[q]
    BY <1>15 DEF Delete, TypeOK
  <2> QED BY <2>1 DEF SlabInv
<1> QED BY <1>1, <1>2, <1>3, <1>4, <1>5, <1>6, <1>7, <1>8, <1>9, <1>10, <1>11, <1>12,
           <1>13, <1>14, <1>15 DEF Next, Recalling

-----------------------------------------------------------------------------
(* Nothing a process keeps is among what it will destroy, but what it has    *)
(* yet to file under a new slab.                                           *)
LEMMA SparedStep == TypeOK /\ SlabInv /\ Spared /\ [Next]_vars => Spared'
<1> SUFFICES ASSUME TypeOK, SlabInv, Spared, [Next]_vars PROVE Spared'
  OBVIOUS
<1> USE SlabAssumption DEF tables, files, account, memory, storage, call, history
<1>0. ASSUME UNCHANGED <<entry, storage>> PROVE Spared'
  BY <1>0 DEF Spared
<1>a. \A q \in Proc : \A o \in doomed[q] : o[1] \in Record /\ o[2] \in Slab
  BY DEF TypeOK, Object
<1>1. CASE UNCHANGED vars
  BY <1>0, <1>1 DEF vars
<1>2. ASSUME NEW c \in Caller,
             \/ \E r \in Record : Remember(c, r)
             \/ PutVector(c) \/ PutRow(c) \/ Add(c)
             \/ ForgetBody(c) \/ RemoveVector(c) \/ ForgetRow(c)
      PROVE  Spared'
  BY <1>0, <1>2 DEF Remember, PutVector, PutRow, Add, ForgetBody, RemoveVector, ForgetRow
<1>3. ASSUME NEW c \in Caller, NEW r \in Record, Forget(c, r) PROVE Spared'
  <2>1. UNCHANGED storage /\ \A q \in Record : entry'[q] \in {entry[q], NoSlab}
    BY <1>3, Forgetting
  <2> QED BY <1>a, <2>1 DEF Spared
<1>4. ASSUME NEW c \in Caller, Recalling(c) PROVE Spared'
  BY <1>0, <1>4, RecallingKeeps
<1>5. ASSUME NEW p \in Proc, NEW s \in Slab, Flush(p, s) PROVE Spared'
  <2>1. UNCHANGED storage /\ s \notin spent /\ \A r \in Record : entry'[r] \in {entry[r], s}
    BY <1>5 DEF Flush, Catalogued
  <2>2. \A q \in Proc, r \in Record : keep[q][r] # s
    BY <2>1 DEF SlabInv
  <2> QED BY <1>a, <2>1, <2>2 DEF Spared
<1>6. ASSUME NEW p \in Proc, NEW o \in Object, Relocate(p, o), Known(p, o[1]) PROVE Spared'
  <2>1. /\ o[1] \in Record /\ o[2] \in Slab /\ o[2] \in Place /\ {o[1]} \in SUBSET Record
        /\ Catalogued(p, {o[1]}, o[2]) /\ o \in copies[p] /\ UNCHANGED <<keep, doomed>>
        /\ copies' = [copies EXCEPT ![p] = @ \ {o}]
        /\ job' = [job EXCEPT ![p] = IF copies[p] = {o} THEN "destroy" ELSE @]
    BY <1>6, Relocating
  <2>2. /\ copies'[p] = copies[p] \ {o} /\ \A q \in Proc \ {p} : copies'[q] = copies[q]
        /\ job'[p] = (IF copies[p] = {o} THEN "destroy" ELSE job[p])
        /\ \A q \in Proc \ {p} : job'[q] = job[q]
    BY <2>1 DEF TypeOK
  <2>3. \A q \in Record : entry'[q] = IF q = o[1] THEN o[2] ELSE entry[q]
    BY <2>1 DEF Catalogued
  <2>4. \A q \in Proc : keep[q][o[1]] # o[2]
    BY <2>1 DEF SlabInv
  <2>5. ASSUME NEW q \in Proc, NEW x \in doomed[q], keep[q][x[1]] = x[2]
        PROVE  \/ entry'[x[1]] # x[2]
               \/ job'[q] = "move" /\ \E y \in copies'[q] : y[1] = x[1]
    <3>1. CASE x[1] = o[1]
      BY <1>a, <2>1, <2>3, <2>4, <2>5, <3>1
    <3>2. CASE x[1] # o[1] /\ entry[x[1]] # x[2]
      BY <1>a, <2>3, <3>2
    <3>3. CASE x[1] # o[1] /\ job[q] = "move" /\ \E y \in copies[q] : y[1] = x[1]
      <4>1. PICK y \in copies[q] : y[1] = x[1]
        BY <3>3
      <4>2. y # o /\ y \in copies'[q]
        BY <2>2, <3>3, <4>1
      <4>3. job'[q] = "move"
        BY <2>2, <3>3, <4>1, <4>2
      <4> QED BY <4>1, <4>2, <4>3
    <3> QED BY <2>5, <3>1, <3>2, <3>3 DEF Spared
  <2> QED BY <2>1, <2>5 DEF Spared
<1>7. ASSUME NEW p \in Proc, Drop(p) \/ Open(p) PROVE Spared'
  BY <1>0, <1>7 DEF Drop, Open
<1>8. ASSUME NEW p \in Proc, Quit(p), UNCHANGED entry PROVE Spared'
  <2>1. /\ doomed'[p] = {}
        /\ \A q \in Proc \ {p} : /\ copies'[q] = copies[q] /\ doomed'[q] = doomed[q]
                                 /\ job'[q] = job[q] /\ keep'[q] = keep[q]
    BY <1>8 DEF Quit, TypeOK
  <2> QED BY <1>8, <2>1 DEF Spared
<1>9. ASSUME NEW p \in Proc,
             \/ Stop(p) \/ Release(p) \/ Abandon(p)
             \/ \E o \in Object : Relocate(p, o) /\ ~ Known(p, o[1])
      PROVE  Spared'
  BY <1>8, <1>9 DEF Stop, Release, Abandon, Relocate, Known
<1>10. ASSUME NEW r \in Record, ForgetLocally(r) PROVE Spared'
  BY <1>0, <1>10 DEF ForgetLocally
<1>11. ASSUME NEW p \in Proc, Reclaim(p) PROVE Spared'
  <2>1. /\ doomed[p] = {} /\ UNCHANGED <<entry, copies, doomed>>
        /\ \A q \in Proc \ {p} : job'[q] = job[q] /\ keep'[q] = keep[q]
    BY <1>11 DEF Reclaim, Begin, TypeOK, SlabInv
  <2> QED BY <2>1 DEF Spared
<1>12. ASSUME NEW p \in Proc, PlanSweep(p) PROVE Spared'
  <2>1. /\ UNCHANGED <<entry, copies, keep>>
        /\ \A q \in Proc \ {p} : job'[q] = job[q] /\ doomed'[q] = doomed[q]
        /\ \A o \in doomed'[p] : keep[p][o[1]] # o[2]
    BY <1>12 DEF PlanSweep, TypeOK
  <2> QED BY <2>1 DEF Spared
<1>13. ASSUME NEW p \in Proc, NEW s \in Slab, Repack(p, s) PROVE Spared'
  <2>1. /\ UNCHANGED entry /\ job'[p] = "move" /\ keep'[p] = seen[p]
        /\ \A q \in Proc \ {p} : /\ copies'[q] = copies[q] /\ doomed'[q] = doomed[q]
                                 /\ job'[q] = job[q] /\ keep'[q] = keep[q]
    BY <1>13 DEF Repack, Begin, TypeOK
  <2>2. /\ copies'[p] = {<<h[1], s>> : h \in {o \in Object : seen[p][o[1]] = o[2]}}
        /\ doomed'[p] \subseteq Object
    BY <1>13 DEF Repack, TypeOK
  <2>3. ASSUME NEW o \in doomed'[p], keep'[p][o[1]] = o[2]
        PROVE  \E x \in copies'[p] : x[1] = o[1]
    <3>1. <<o[1], s>> \in copies'[p]
      BY <2>1, <2>2, <2>3
    <3> QED BY <3>1
  <2> QED BY <2>1, <2>3 DEF Spared
<1>14. ASSUME NEW p \in Proc, NEW o \in Object, Delete(p, o) PROVE Spared'
  <2>1. /\ UNCHANGED <<entry, copies, keep, job>>
        /\ \A q \in Proc : doomed'[q] \subseteq doomed[q]
    BY <1>14 DEF Delete, TypeOK
  <2> QED BY <2>1 DEF Spared
<1> QED BY <1>1, <1>2, <1>3, <1>4, <1>5, <1>6, <1>7, <1>9, <1>10, <1>11, <1>12, <1>13, <1>14
        DEF Next, Recalling

-----------------------------------------------------------------------------
(* Filing notes whoever still goes by what it files over.                   *)
LEMMA FilingKeepsAnswers ==
  ASSUME TypeOK, AnswerInv, NEW p \in Proc, NEW batch \in SUBSET Record, NEW s \in Place,
         Catalogued(p, batch, s), network \subseteq network',
         s = NoSlab \/ \A r \in batch : <<r, s>> \in network' \union swept,
         s = NoSlab => batch \subseteq condemned',
         \A q \in Proc : copies'[q] \subseteq copies[q],
         condemned \subseteq condemned', UNCHANGED <<up, early, swept, spot, failed>>,
         \A c \in Caller : pc'[c] \in {"cached", "remote"} =>
            pc'[c] = pc[c] /\ target'[c] = target[c]
  PROVE  AnswerInv'
<1>1. /\ \A r \in Record : entry'[r] = IF r \in batch THEN s ELSE entry[r]
      /\ \A q \in Proc, r \in Record :
           seen'[q][r] = IF q = p /\ r \in batch THEN s ELSE seen[q][r]
  BY Filed
<1>2. /\ moved \subseteq moved'
      /\ \A o \in Object : o[1] \in batch /\ entry[o[1]] = o[2] /\ GoneBy(p, o) => o \in moved'
  BY DEF Catalogued
<1>3. \A r \in Record : entry'[r] # NoSlab => <<r, entry'[r]>> \in network' \union swept'
  BY <1>1 DEF AnswerInv, There
<1>4. \A q \in Proc : \A o \in copies'[q] : o \in network' \union swept'
  BY DEF AnswerInv, There
<1>5. ASSUME NEW q \in up, NEW r \in Record, Known(q, r)'
      PROVE  seen'[q][r] = entry'[r] \/ r \in condemned' \/ <<r, seen'[q][r]>> \in moved'
  <2>1. q \in Proc
    BY DEF TypeOK
  <2>2. CASE r \notin batch
    BY <1>1, <1>2, <1>5, <2>1, <2>2 DEF AnswerInv, Known
  <2>3. CASE r \in batch /\ q = p
    BY <1>1, <2>1, <2>3
  <2>4. CASE r \in batch /\ q # p
    <3>1. seen'[q][r] = seen[q][r] /\ Known(q, r)
      BY <1>1, <1>5, <2>1, <2>4 DEF Known
    <3>2. CASE seen[q][r] = entry[r]
      <4>1. <<r, seen[q][r]>> \in Object
        BY <2>1, <3>1 DEF Object, Known, TypeOK, Place
      <4>2. GoneBy(p, <<r, seen[q][r]>>)
        BY <2>4 DEF GoneBy
      <4> QED BY <1>2, <2>4, <3>1, <3>2, <4>1, <4>2
    <3>3. CASE r \in condemned \/ <<r, seen[q][r]>> \in moved
      BY <1>2, <3>1, <3>3
    <3> QED BY <3>1, <3>2, <3>3 DEF AnswerInv
  <2> QED BY <2>2, <2>3, <2>4
<1>6. ASSUME NEW c \in Caller, pc'[c] \in {"cached", "remote"}
      PROVE  \/ spot'[c] = entry'[target'[c]] \/ target'[c] \in condemned'
             \/ <<target'[c], spot'[c]>> \in moved'
  <2>1. pc[c] \in {"cached", "remote"} /\ target'[c] = target[c] /\ spot'[c] = spot[c]
    BY <1>6
  <2>2. target[c] \in Record /\ spot[c] \in Slab
    BY <2>1 DEF TypeOK
  <2>3. CASE spot[c] = entry[target[c]] /\ target[c] \in batch
    <3>1. <<target[c], spot[c]>> \in Object /\ GoneBy(p, <<target[c], spot[c]>>)
      BY <2>1, <2>2 DEF Object, GoneBy
    <3> QED BY <1>2, <2>1, <2>3, <3>1
  <2>4. CASE spot[c] = entry[target[c]] /\ target[c] \notin batch
    BY <1>1, <2>1, <2>2, <2>4
  <2>5. CASE target[c] \in condemned \/ <<target[c], spot[c]>> \in moved
    BY <1>2, <2>1, <2>5
  <2> QED BY <2>1, <2>3, <2>4, <2>5 DEF AnswerInv
<1>7. RecallsAnswer'
  BY <1>2 DEF AnswerInv, RecallsAnswer
<1> QED BY <1>3, <1>4, <1>5, <1>6, <1>7 DEF AnswerInv, Known, There

(* A step that only adds to the account, or notes what it takes from it.    *)
LEMMA IdlingKeepsAnswers ==
  ASSUME AnswerInv, UNCHANGED <<entry, moved, failed>>, condemned \subseteq condemned',
         early \subseteq early', swept \subseteq swept',
         \A r \in Record : entry[r] # NoSlab /\ There(<<r, entry[r]>>) => <<r, entry[r]>> \in network' \union swept',
         \A p \in Proc : \A o \in copies'[p] : o \in network' \union swept',
         \A p \in up' : \A r \in Record : seen'[p][r] = entry[r] \/ (p \in up /\ seen'[p] = seen[p]),
         \A c \in Caller : pc'[c] \in {"cached", "remote"} =>
            pc[c] \in {"cached", "remote"} /\ target'[c] = target[c] /\ spot'[c] = spot[c]
  PROVE  AnswerInv'
<1>1. \A p \in up', r \in Record : Known(p, r)' =>
        seen'[p][r] = entry'[r] \/ r \in condemned' \/ <<r, seen'[p][r]>> \in moved'
  BY DEF AnswerInv, Known
<1>2. \A c \in Caller : pc'[c] \in {"cached", "remote"} =>
        \/ spot'[c] = entry'[target'[c]] \/ target'[c] \in condemned'
        \/ <<target'[c], spot'[c]>> \in moved'
  BY DEF AnswerInv
<1>3. RecallsAnswer'
  BY DEF AnswerInv, RecallsAnswer
<1>4. /\ \A r \in Record : entry'[r] # NoSlab => <<r, entry'[r]>> \in network' \union swept'
      /\ \A p \in Proc : \A o \in copies'[p] : o \in network' \union swept'
  BY DEF AnswerInv
<1> QED BY <1>1, <1>2, <1>3, <1>4 DEF AnswerInv, Known, There

(* A recall looks where the catalog of its process says, and fails only on  *)
(* what is excused.                                                        *)
LEMMA RecallingKeepsAnswers ==
  ASSUME TypeOK, PlacedInv, AnswerInv, NEW c \in Caller, Recalling(c)
  PROVE  AnswerInv'
<1>1. /\ UNCHANGED <<entry, account, storage, up, seen, swept, moved, condemned, early>>
      /\ \A d \in Caller \ {c} : pc'[d] = pc[d] /\ target'[d] = target[d] /\ spot'[d] = spot[d]
  BY RecallingKeeps
<1>2. Onward(c) /\ FailedRightly(c) /\ (pc'[c] # "idle" => ProcOf[c] \in up)
  BY RecallingReads
<1>4. ASSUME NEW d \in Caller, pc'[d] \in {"cached", "remote"}
      PROVE  \/ spot'[d] = entry[target'[d]] \/ target'[d] \in condemned
             \/ <<target'[d], spot'[d]>> \in moved
  <2>1. CASE d # c
    BY <1>1, <1>4, <2>1 DEF AnswerInv
  <2>2. CASE d = c /\ pc'[c] = "cached"
    <3>1. /\ target'[c] = target[c] /\ spot'[c] = seen[ProcOf[c]][target[c]]
          /\ Known(ProcOf[c], target[c]) /\ ProcOf[c] \in up /\ pc[c] = "lookup"
      BY <1>2, <2>2 DEF Onward
    <3>2. target[c] \in Record
      BY <3>1 DEF TypeOK
    <3> QED BY <2>2, <3>1, <3>2 DEF AnswerInv
  <2>3. CASE d = c /\ pc'[c] = "remote"
    <3>1. target'[c] = target[c] /\ spot'[c] = spot[c] /\ pc[c] = "cached"
      BY <1>2, <2>3 DEF Onward
    <3> QED BY <2>3, <3>1 DEF AnswerInv
  <2> QED BY <1>4, <2>1, <2>2, <2>3
<1>5. RecallsAnswer'
  <2>1. CASE failed' = failed
    BY <1>1, <2>1 DEF AnswerInv, RecallsAnswer
  <2>2. CASE /\ pc[c] = "lookup" /\ ~ Known(ProcOf[c], target[c])
             /\ failed' = failed \union {<<target[c], NoSlab>>}
    <3>1. target[c] \in condemned \union early
      BY <2>2 DEF PlacedInv, Excused
    <3> QED BY <1>1, <2>2, <3>1 DEF AnswerInv, RecallsAnswer
  <2>3. CASE /\ pc[c] = "remote" /\ <<target[c], spot[c]>> \notin network
             /\ failed' = failed \union {<<target[c], spot[c]>>}
    <3>1. target[c] \in Record /\ spot[c] \in Slab /\ spot[c] # NoSlab
      BY <2>3, SlabAssumption DEF TypeOK
    <3>2. spot[c] = entry[target[c]] => <<target[c], spot[c]>> \in swept
      BY <2>3, <3>1 DEF AnswerInv, There
    <3>3. target[c] \in condemned \/ <<target[c], spot[c]>> \in swept \union moved
      BY <2>3, <3>2 DEF AnswerInv
    <3> QED BY <1>1, <2>3, <3>3 DEF AnswerInv, RecallsAnswer
  <2> QED BY <1>2, <2>1, <2>2, <2>3 DEF FailedRightly
<1>6. /\ \A r \in Record : entry'[r] # NoSlab => <<r, entry'[r]>> \in network' \union swept'
      /\ \A p \in Proc : \A o \in copies'[p] : o \in network' \union swept'
  BY <1>1 DEF AnswerInv, There, account, storage
<1> QED BY <1>1, <1>4, <1>5, <1>6 DEF AnswerInv, Known, There

(* What is destroyed under a process that goes by it is noted.              *)
LEMMA DeletingKeepsAnswers ==
  ASSUME TypeOK, SlabInv, Spared, AnswerInv, NEW p \in Proc, NEW o \in Object, Delete(p, o)
  PROVE  AnswerInv'
<1>1. /\ job[p] = "destroy" /\ o \in doomed[p] /\ network' = network \ {o}
      /\ swept' = swept \union {x \in {o} : Wanted(x) /\ keep[p][x[1]] # x[2]}
      /\ UNCHANGED <<entry, seen, up, copies, call, condemned, early, moved, failed>>
  BY DEF Delete, files, memory
<1>2. ASSUME Wanted(o) PROVE keep[p][o[1]] # o[2]
  <2>1. CASE entry[o[1]] = o[2]
    BY <1>1, <2>1 DEF Spared
  <2>2. CASE \E q \in Proc : o \in copies[q]
    BY <2>2 DEF SlabInv
  <2> QED BY <1>2, <2>1, <2>2 DEF Wanted
<1>3. \A x : There(x) => x \in network' \union swept' \/ x = o
  BY <1>1 DEF There
<1>4. Wanted(o) => o \in network' \union swept'
  BY <1>1, <1>2 DEF There
<1>5. \A r \in Record : entry[r] # NoSlab /\ There(<<r, entry[r]>>) => <<r, entry[r]>> \in network' \union swept'
  BY <1>1, <1>3, <1>4 DEF Wanted
<1>6. \A q \in Proc : \A x \in copies'[q] : x \in network' \union swept'
  BY <1>1, <1>3, <1>4 DEF Wanted, AnswerInv
<1> QED BY <1>1, <1>5, <1>6, IdlingKeepsAnswers DEF call

LEMMA AnswerStep ==
  TypeOK /\ SlabInv /\ Spared /\ PlacedInv /\ AnswerInv /\ [Next]_vars => AnswerInv'
<1> SUFFICES ASSUME TypeOK, SlabInv, Spared, PlacedInv, AnswerInv, [Next]_vars
             PROVE  AnswerInv'
  OBVIOUS
<1> USE SlabAssumption DEF tables, files, account, memory, storage, call, history
<1>0. ASSUME UNCHANGED <<entry, network, swept, moved, copies, up, seen, failed, condemned>>,
             early \subseteq early',
             \A c \in Caller : pc'[c] \in {"cached", "remote"} =>
                pc'[c] = pc[c] /\ target'[c] = target[c] /\ spot'[c] = spot[c]
      PROVE  AnswerInv'
  BY <1>0, IdlingKeepsAnswers DEF AnswerInv, There
<1>1. CASE UNCHANGED vars
  BY <1>0, <1>1 DEF vars
<1>2. ASSUME NEW c \in Caller, NEW r \in Record, Remember(c, r) PROVE AnswerInv'
  BY <1>0, <1>2 DEF Remember, Goto, TypeOK
<1>3. ASSUME NEW c \in Caller, PutVector(c) \/ PutRow(c) PROVE AnswerInv'
  BY <1>0, <1>3 DEF PutVector, PutRow, Goto, TypeOK
<1>4. ASSUME NEW c \in Caller, Add(c) \/ ForgetRow(c) PROVE AnswerInv'
  BY <1>0, <1>4, Returned DEF Add, ForgetRow
<1>5. ASSUME NEW c \in Caller, NEW r \in Record, Forget(c, r) PROVE AnswerInv'
  <2>1. /\ Catalogued(ProcOf[c], {r}, NoSlab) /\ ProcOf[c] \in Proc /\ NoSlab \in Place
        /\ {r} \in SUBSET Record
    BY <1>5, CallerAssumption DEF Forget, Place
  <2>2. /\ pc'[c] = "body" /\ condemned' = condemned \union {r}
        /\ \A d \in Caller \ {c} : pc'[d] = pc[d] /\ target'[d] = target[d]
        /\ UNCHANGED <<network, copies, up, early, swept, spot, failed>>
    BY <1>5, Forgetting
  <2> QED BY <2>1, <2>2, FilingKeepsAnswers
<1>6. ASSUME NEW c \in Caller, ForgetBody(c) \/ RemoveVector(c) PROVE AnswerInv'
  BY <1>0, <1>6 DEF ForgetBody, RemoveVector, Goto, TypeOK
<1>7. ASSUME NEW c \in Caller, Recalling(c) PROVE AnswerInv'
  BY <1>7, RecallingKeepsAnswers
<1>8. ASSUME NEW p \in Proc, NEW s \in Slab, Flush(p, s) PROVE AnswerInv'
  <2>1. /\ Catalogued(p, queued, s) /\ queued \in SUBSET Record /\ s \in Place /\ s # NoSlab
        /\ network' = network \union (queued \X {s})
        /\ UNCHANGED <<pc, target, spot, copies, up, early, condemned, swept, failed>>
    BY <1>8 DEF Flush, Place, TypeOK
  <2>2. \A r \in queued : <<r, s>> \in network'
    BY <2>1
  <2> QED BY <2>1, <2>2, FilingKeepsAnswers
<1>9. ASSUME NEW p \in Proc, NEW o \in Object, Relocate(p, o), Known(p, o[1]) PROVE AnswerInv'
  <2>1. /\ Catalogued(p, {o[1]}, o[2]) /\ {o[1]} \in SUBSET Record /\ o[2] \in Place
        /\ o[2] # NoSlab /\ o \in copies[p]
        /\ UNCHANGED <<pc, target, spot, network, up, early, condemned, swept, failed>>
    BY <1>9, Relocating
  <2>2. \A q \in Proc : copies'[q] \subseteq copies[q]
    <3>1. copies' = [copies EXCEPT ![p] = @ \ {o}]
      BY <1>9, Relocating
    <3> QED BY <3>1 DEF TypeOK
  <2>3. o = <<o[1], o[2]>> /\ o \in network \union swept
    BY <2>1 DEF Object, AnswerInv, There
  <2>4. \A r \in {o[1]} : <<r, o[2]>> \in network' \union swept
    BY <2>1, <2>3
  <2> QED BY <2>1, <2>2, <2>4, FilingKeepsAnswers
<1>10. ASSUME NEW p \in Proc, Drop(p) PROVE AnswerInv'
  BY <1>0, <1>10 DEF Drop
<1>11. ASSUME NEW p \in Proc, Stop(p) PROVE AnswerInv'
  <2>1. /\ up' = up \ {p} /\ \A q \in up' : seen'[q] = seen[q]
        /\ \A q \in Proc : copies'[q] \subseteq copies[q]
        /\ \A c \in Caller : \/ pc'[c] = "idle"
                             \/ pc'[c] = pc[c] /\ target'[c] = target[c] /\ spot'[c] = spot[c]
        /\ UNCHANGED <<entry, network, condemned, early, swept, moved, failed>>
    BY <1>11 DEF Stop, Quit, TypeOK
  <2> QED BY <2>1, IdlingKeepsAnswers DEF AnswerInv, There
<1>12. ASSUME NEW p \in Proc, Open(p) PROVE AnswerInv'
  <2>1. /\ up' = up \union {p} /\ seen'[p] = entry /\ \A q \in up \ {p} : seen'[q] = seen[q]
        /\ UNCHANGED <<entry, network, copies, pc, target, spot, condemned, early, swept, moved,
                       failed>>
    BY <1>12 DEF Open, TypeOK
  <2> QED BY <2>1, IdlingKeepsAnswers DEF AnswerInv, There
<1>13. ASSUME NEW r \in Record, ForgetLocally(r) PROVE AnswerInv'
  BY <1>0, <1>13 DEF ForgetLocally
<1>14. ASSUME NEW p \in Proc,
              \/ Reclaim(p) \/ PlanSweep(p) \/ Release(p) \/ Abandon(p)
              \/ \E o \in Object : Relocate(p, o) /\ ~ Known(p, o[1])
       PROVE  AnswerInv'
  <2>1. UNCHANGED Standing /\ UNCHANGED <<network, swept>>
    BY <1>14, CommandsKeep DEF Commanding, Reclaim, PlanSweep, Release, Abandon, Relocate, Known
  <2>2. \A q \in Proc : copies'[q] \subseteq copies[q]
    BY <1>14 DEF Reclaim, PlanSweep, Release, Abandon, Relocate, Known, Quit, TypeOK
  <2> QED BY <2>1, <2>2, IdlingKeepsAnswers DEF Standing, AnswerInv, There
<1>15. ASSUME NEW p \in Proc, NEW s \in Slab, Repack(p, s) PROVE AnswerInv'
  <2>1. UNCHANGED Standing /\ UNCHANGED swept
    BY <1>15, CommandsKeep DEF Commanding, Repack
  <2>2. /\ network' = network \union copies'[p]
        /\ \A q \in Proc \ {p} : copies'[q] = copies[q]
    BY <1>15 DEF Repack, TypeOK
  <2>3. \A q \in Proc : \A o \in copies'[q] : o \in network' \union swept'
    BY <2>1, <2>2 DEF AnswerInv, There
  <2> QED BY <2>1, <2>2, <2>3, IdlingKeepsAnswers DEF Standing, There
<1>16. ASSUME NEW p \in Proc, NEW o \in Object, Delete(p, o) PROVE AnswerInv'
  BY <1>16, DeletingKeepsAnswers
<1> QED BY <1>1, <1>2, <1>3, <1>4, <1>5, <1>6, <1>7, <1>8, <1>9, <1>10, <1>11, <1>12,
           <1>13, <1>14, <1>15, <1>16 DEF Next, Recalling

(* Whatever a search comes up with can be fetched, in every order of calls, *)
(* flushes, reclaims, repacks, failures and restarts, unless somebody       *)
(* forgets the record, or its copy was dropped too early, or the read went  *)
(* by a catalog that another process has overtaken, or another process     *)
(* destroyed what its own catalog did not list.                            *)
THEOREM SearchesAnswer == Spec => []RecallsAnswer
<1> DEFINE Inv == GoneInv /\ PlacedInv /\ SlabInv /\ Spared /\ AnswerInv
<1>1. Init => FreshInv /\ Inv
  <2> SUFFICES ASSUME Init PROVE FreshInv /\ Inv
    OBVIOUS
  <2> USE DEF Init, Known, Nowhere, Storing, Dropping, Reading
  <2>1. FreshInv /\ GoneInv
    BY DEF FreshInv, GoneInv, Dropped
  <2>2. PlacedInv
    BY DEF PlacedInv
  <2>3. SlabInv /\ Spared
    BY DEF SlabInv, Spared
  <2>4. AnswerInv
    BY DEF AnswerInv, RecallsAnswer
  <2> QED BY <2>1, <2>2, <2>3, <2>4
<1>2. AnswerInv => RecallsAnswer
  BY DEF AnswerInv
<1>3. TypeOK /\ FreshInv /\ Inv /\ [Next]_vars => Inv'
  BY GoneStep, PlacedStep, SlabStep, SparedStep, AnswerStep
<1> QED BY <1>1, <1>2, <1>3, FreshStep, TypeCorrect, PTL DEF Spec
=============================================================================
