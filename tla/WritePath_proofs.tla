--------------------------- MODULE WritePath_proofs ---------------------------
(***************************************************************************)
(* Machine-checked proofs about the write path: no interleaving of flush   *)
(* calls, failures and process deaths loses an accepted record, and the    *)
(* write path implements DurabilityPromise.  The argument is that every    *)
(* location the catalog names is readable (CatalogInv) and stays readable  *)
(* (FindableIsStable), and that a flush reaches its drop only with every   *)
(* record of its batch findable (BatchOK).                                 *)
(* What is paid for is counted by WasteInv and PaidInv.                    *)
(*                                                                         *)
(* The second part is about the packer around it: putting timers,          *)
(* summaries, closing and reopening around the flushes takes nothing from  *)
(* what FlushQueue promises of them, and the count a process flushes by    *)
(* covers what it has queued, for any processes, calls, records and        *)
(* triggers.                                                               *)
(***************************************************************************)
EXTENDS Packer, FiniteSetTheorems, TLAPS

-----------------------------------------------------------------------------
(* Nothing this path does makes a findable record unfindable: slabs and     *)
(* objects are only ever added, and the catalog is only ever pointed at an  *)
(* object the flush has pinned.                                            *)
LEMMA FindableIsStable ==
  ASSUME DurableInv, [Next]_vars, NEW r \in Record, Findable(r)
  PROVE  Findable(r)'
<1> USE DEF DurableInv, TypeOK
<1>1. slabs \subseteq slabs' /\ objects \subseteq objects'
  BY DEF time, Next, vars, FlushStep, device, network, call, history, Enqueue, Age,
         Claim, Upload, PinSlabs, PinObject, PutBatchFails, Release, Catalogue,
         Track, Drop, BookkeepingFails, Crash
<1>2. CASE \E f \in Flusher, q \in Record : Catalogue(f, q)
  <2>1. PICK f \in Flusher, q \in Record : Catalogue(f, q)
    BY <1>2
  <2>2. CASE q = r
    <3>1. catalog'[r] = slab[f] /\ slab[f] \in slabs /\ <<r, slab[f]>> \in objects
      BY <2>1, <2>2 DEF time, Catalogue, BatchOK
    <3>. QED BY <3>1, <1>1 DEF Findable
  <2>3. CASE q # r
    BY <2>1, <2>3, <1>1 DEF time, Catalogue, Findable
  <2>. QED BY <2>2, <2>3
<1>3. CASE ~ \E f \in Flusher, q \in Record : Catalogue(f, q)
  <2>1. catalog' = catalog
    BY <1>3 DEF time, Next, vars, FlushStep, device, network, call, history, Enqueue,
         Age, Claim, Upload, PinSlabs, PinObject, PutBatchFails, Release, Track,
         Drop, BookkeepingFails, Crash
  <2>. QED BY <2>1, <1>1 DEF Findable
<1>. QED BY <1>2, <1>3

-----------------------------------------------------------------------------
(* Nothing has been accepted or written at first.                           *)
LEMMA DurableInvInit == Init => DurableInv
BY FaultAssumption DEF Init, DurableInv, TypeOK, BatchOK, CatalogInv, NoLoss,
     ReportedIsTrue, Stages, Findable, Free

(* Each step keeps the types; a pin step needs BatchOK, which makes the     *)
(* call's slab a real one.                                                  *)
LEMMA TypeStep ==
  ASSUME DurableInv, [Next]_vars
  PROVE  TypeOK'
<1> USE DEF DurableInv, TypeOK, Stages
<1>1. CASE \E r \in Record : Enqueue(r)
  BY <1>1 DEF time, Enqueue, network, call
<1>2. CASE Age
  BY <1>2 DEF time, Age, network, call, history
<1>3. ASSUME NEW f \in Flusher, Claim(f) PROVE TypeOK'
  <2>1. /\ claimedAt' \in [Record -> Nat]
        /\ clock' \in Nat
        /\ since' \in [Flusher -> Nat]
    BY <1>3 DEF Claim
  <2>2. /\ batch' \in [Flusher -> SUBSET Record]
        /\ pc' \in [Flusher -> Stages]
    BY <1>3 DEF Claim, Claimable, Goto
  <2>. QED BY <1>3, <2>1, <2>2 DEF Claim, network, history
<1>4. ASSUME NEW f \in Flusher, Upload(f) PROVE TypeOK'
  <2>1. slab' \in [Flusher -> Slab \union {NoSlab}] /\ pc' \in [Flusher -> Stages]
    BY <1>4 DEF Upload, Goto
  <2>. QED BY <1>4, <2>1 DEF Upload, device, time, network, history
<1>5. ASSUME NEW f \in Flusher, PinSlabs(f) PROVE TypeOK'
  BY <1>5 DEF time, PinSlabs, Goto, device, history, BatchOK
<1>6. ASSUME NEW f \in Flusher, NEW r \in Record, PinObject(f, r) PROVE TypeOK'
  BY <1>6 DEF time, PinObject, Goto, device, history, BatchOK
<1>7. ASSUME NEW f \in Flusher, Release(f) PROVE TypeOK'
  BY <1>7 DEF time, Release, Return, network, history, Free
<1>8. ASSUME NEW f \in Flusher, NEW r \in Record, Catalogue(f, r) PROVE TypeOK'
  BY <1>8 DEF time, Catalogue, Goto, network, history, BatchOK
<1>9. ASSUME NEW f \in Flusher, Track(f) PROVE TypeOK'
  BY <1>9 DEF time, Track, Goto, network, history, BatchOK
<1>10. ASSUME NEW f \in Flusher, Drop(f) PROVE TypeOK'
  BY <1>10 DEF time, Drop, Return, network, Free
<1>11. ASSUME NEW f \in Flusher, PutBatchFails(f) PROVE TypeOK'
  <2>1. slabs' \subseteq Slab /\ objects' \subseteq Record \X Slab
    BY <1>11 DEF PutBatchFails, BatchOK
  <2>. QED BY <1>11, <2>1, FaultAssumption DEF time, PutBatchFails, Fault, Goto, device
<1>12. ASSUME NEW f \in Flusher, BookkeepingFails(f) PROVE TypeOK'
  BY <1>12, FaultAssumption DEF time, BookkeepingFails, Fault, Return, device, network, Free
<1>13. ASSUME NEW p \in Proc, Crash(p) PROVE TypeOK'
  BY <1>13, FaultAssumption DEF time, Crash, Fault, Return, device, network, Free
<1>14. CASE UNCHANGED vars
  BY <1>14 DEF vars, device, time, network, call, history
<1>. QED
  BY <1>1, <1>2, <1>3, <1>4, <1>5, <1>6, <1>7, <1>8, <1>9, <1>10, <1>11,
     <1>12, <1>13, <1>14 DEF Next, FlushStep

(* History only grows: what is pinned stays pinned, what was accepted stays *)
(* accepted.                                                               *)
LEMMA Growth ==
  ASSUME DurableInv, [Next]_vars
  PROVE  /\ slabs \subseteq slabs'
         /\ objects \subseteq objects'
         /\ accepted \subseteq accepted'
BY DEF time, Next, vars, FlushStep, device, network, call, history, Enqueue, Age,
       Claim, Upload, PinSlabs, PinObject, PutBatchFails, Release, Catalogue,
       Track, Drop, BookkeepingFails, Crash

(* A call that does not move keeps its invariant, whatever the others do.   *)
LEMMA BatchOKIsStable ==
  ASSUME DurableInv, [Next]_vars, NEW f \in Flusher,
         pc'[f] = pc[f], batch'[f] = batch[f], slab'[f] = slab[f], todo'[f] = todo[f]
  PROVE  BatchOK(f)'
<1>1. BatchOK(f) /\ batch[f] \subseteq Record
  BY DEF DurableInv, TypeOK
<1>2. ASSUME NEW r \in batch[f], Findable(r) PROVE Findable(r)'
  BY <1>1, <1>2, FindableIsStable
<1>. QED BY <1>1, <1>2, Growth DEF BatchOK

(* A call that has returned holds no record.                                *)
LEMMA ReturnedOK ==
  ASSUME NEW f \in Flusher, NEW F, f \in F, Return(F)
  PROVE  BatchOK(f)'
BY DEF Return, BatchOK

(* Each call's invariant survives its own step and everyone else's: the     *)
(* step of another call cannot unpin an object or unfind a record.          *)
LEMMA BatchStep ==
  ASSUME DurableInv, [Next]_vars, NEW g \in Flusher
  PROVE  BatchOK(g)'
<1> USE DEF DurableInv, TypeOK
<1>1. BatchOK(g)
  OBVIOUS
<1>2. ASSUME NEW r \in batch[g], Findable(r) PROVE Findable(r)'
  BY <1>2, FindableIsStable
<1>3. CASE \E r \in Record : Enqueue(r)
  BY <1>3, BatchOKIsStable DEF time, Enqueue, call
<1>4. CASE Age
  BY <1>4, BatchOKIsStable DEF time, Age, call
<1>5. ASSUME NEW f \in Flusher, Claim(f) PROVE BatchOK(g)'
  <2>1. CASE f = g
    <3>1. batch'[g] = Claimable /\ pc'[g] = "upload" /\ todo'[g] = todo[g]
      BY <1>5, <2>1 DEF Claim, Goto
    <3>2. Claimable \subseteq accepted'
      BY Growth DEF Claimable, CatalogInv
    <3>3. todo[g] = {}
      BY <1>5, <2>1 DEF Claim, BatchOK
    <3>. QED BY <3>1, <3>2, <3>3 DEF BatchOK
  <2>2. CASE f # g
    BY <1>5, <2>2, BatchOKIsStable DEF Claim, Goto
  <2>. QED BY <2>1, <2>2
<1>6. ASSUME NEW f \in Flusher, Upload(f) PROVE BatchOK(g)'
  <2>1. CASE f = g
    BY <1>1, <1>6, <2>1, Growth DEF Upload, Goto, BatchOK, history
  <2>2. CASE f # g
    BY <1>6, <2>2, BatchOKIsStable DEF Upload, Goto
  <2>. QED BY <2>1, <2>2
<1>7. ASSUME NEW f \in Flusher, PinSlabs(f) PROVE BatchOK(g)'
  <2>1. CASE f = g
    BY <1>1, <1>7, <2>1, Growth DEF PinSlabs, Goto, BatchOK
  <2>2. CASE f # g
    BY <1>7, <2>2, BatchOKIsStable DEF PinSlabs, Goto
  <2>. QED BY <2>1, <2>2
<1>8. ASSUME NEW f \in Flusher, NEW r \in Record, PinObject(f, r) PROVE BatchOK(g)'
  <2>1. CASE f = g
    BY <1>1, <1>8, <2>1, Growth DEF PinObject, Goto, BatchOK
  <2>2. CASE f # g
    BY <1>8, <2>2, BatchOKIsStable DEF PinObject, Goto
  <2>. QED BY <2>1, <2>2
<1>9. ASSUME NEW f \in Flusher, Release(f) PROVE BatchOK(g)'
  <2>1. CASE f = g
    BY <1>9, <2>1, ReturnedOK DEF time, Release
  <2>2. CASE f # g
    BY <1>9, <2>2, BatchOKIsStable DEF time, Release, Return
  <2>. QED BY <2>1, <2>2
<1>10. ASSUME NEW f \in Flusher, NEW r \in Record, Catalogue(f, r) PROVE BatchOK(g)'
  <2>1. CASE f = g
    <3>1. /\ todo'[g] = todo[g] \ {r} /\ slab' = slab /\ batch' = batch
          /\ pc'[g] \in {"catalog", "track"}
          /\ pc'[g] = "track" => todo'[g] = {}
          /\ pc[g] = "catalog"
          /\ catalog'[r] = slab[g]
      BY <1>10, <2>1 DEF time, Catalogue, Goto
    <3>2. r \in batch[g] => Findable(r)'
      BY <1>1, <3>1, Growth DEF BatchOK, Findable
    <3>. QED BY <1>1, <1>2, <3>1, <3>2, Growth DEF BatchOK
  <2>2. CASE f # g
    BY <1>10, <2>2, BatchOKIsStable DEF time, Catalogue, Goto
  <2>. QED BY <2>1, <2>2
<1>11. ASSUME NEW f \in Flusher, Track(f) PROVE BatchOK(g)'
  <2>1. CASE f = g
    BY <1>1, <1>2, <1>11, <2>1, Growth DEF time, Track, Goto, BatchOK
  <2>2. CASE f # g
    BY <1>11, <2>2, BatchOKIsStable DEF time, Track, Goto
  <2>. QED BY <2>1, <2>2
<1>12. ASSUME NEW f \in Flusher, Drop(f) PROVE BatchOK(g)'
  <2>1. CASE f = g
    BY <1>12, <2>1, ReturnedOK DEF time, Drop
  <2>2. CASE f # g
    BY <1>12, <2>2, BatchOKIsStable DEF time, Drop, Return
  <2>. QED BY <2>1, <2>2
<1>13. ASSUME NEW f \in Flusher, PutBatchFails(f) PROVE BatchOK(g)'
  <2>1. CASE f = g
    BY <1>1, <1>13, <2>1, Growth DEF PutBatchFails, Goto, BatchOK
  <2>2. CASE f # g
    BY <1>13, <2>2, BatchOKIsStable DEF PutBatchFails, Goto
  <2>. QED BY <2>1, <2>2
<1>14. ASSUME NEW f \in Flusher, BookkeepingFails(f) PROVE BatchOK(g)'
  <2>1. CASE f = g
    BY <1>14, <2>1, ReturnedOK DEF BookkeepingFails
  <2>2. CASE f # g
    BY <1>14, <2>2, BatchOKIsStable DEF BookkeepingFails, Return
  <2>. QED BY <2>1, <2>2
<1>15. ASSUME NEW p \in Proc, Crash(p) PROVE BatchOK(g)'
  <2>1. CASE ProcOf[g] = p
    BY <1>15, <2>1, ReturnedOK DEF Crash
  <2>2. CASE ProcOf[g] # p
    BY <1>15, <2>2, BatchOKIsStable DEF Crash, Return
  <2>. QED BY <2>1, <2>2
<1>16. CASE UNCHANGED vars
  BY <1>16, BatchOKIsStable DEF vars, call
<1>. QED
  BY <1>3, <1>4, <1>5, <1>6, <1>7, <1>8, <1>9, <1>10, <1>11, <1>12, <1>13,
     <1>14, <1>15, <1>16 DEF Next, FlushStep

(* The catalog stays readable: the only step that repoints an entry points  *)
(* it at an object its own flush has pinned.                                *)
LEMMA CatalogStep ==
  ASSUME DurableInv, [Next]_vars
  PROVE  CatalogInv'
<1> USE DEF DurableInv, TypeOK, CatalogInv
<1>1. queued' \subseteq accepted'
  BY DEF time, Next, vars, FlushStep, device, network, call, history, Enqueue, Age,
         Claim, Upload, PinSlabs, PinObject, PutBatchFails, Release, Catalogue,
         Track, Drop, BookkeepingFails, Crash
<1>2. ASSUME NEW r \in Record, catalog'[r] # NoSlab
      PROVE  r \in accepted' /\ Findable(r)'
  <2>1. CASE \E f \in Flusher : Catalogue(f, r)
    <3>1. PICK f \in Flusher : Catalogue(f, r)
      BY <2>1
    <3>2. /\ catalog'[r] = slab[f]
          /\ slab[f] \in slabs
          /\ r \in accepted
          /\ <<r, slab[f]>> \in objects
      BY <3>1 DEF time, Catalogue, BatchOK
    <3>. QED BY <3>2, Growth DEF Findable
  <2>2. CASE ~ \E f \in Flusher : Catalogue(f, r)
    <3>1. catalog'[r] = catalog[r]
      <4>1. CASE \E f \in Flusher, q \in Record : Catalogue(f, q)
        <5>1. PICK f \in Flusher, q \in Record : Catalogue(f, q)
          BY <4>1
        <5>2. q # r
          BY <2>2, <5>1
        <5>. QED BY <5>1, <5>2 DEF time, Catalogue
      <4>2. CASE ~ \E f \in Flusher, q \in Record : Catalogue(f, q)
        BY <4>2 DEF time, Next, vars, FlushStep, device, network, call, history,
             Enqueue, Age, Claim, Upload, PinSlabs, PinObject, PutBatchFails,
             Release, Track, Drop, BookkeepingFails, Crash
      <4>. QED BY <4>1, <4>2
    <3>2. r \in accepted /\ Findable(r)
      BY <1>2, <3>1
    <3>. QED BY <3>2, FindableIsStable, Growth
  <2>. QED BY <2>1, <2>2
<1>. QED BY <1>1, <1>2

(* The only step that takes a row off the queue is a drop, and every record *)
(* it takes off is findable by then.                                       *)
LEMMA DropsOnlyFindable ==
  ASSUME DurableInv, NEW f \in Flusher, Drop(f), NEW r \in batch[f]
  PROVE  Findable(r)
BY DEF time, DurableInv, TypeOK, Drop, BatchOK

(* No step loses a record, or makes an earlier report of success false.     *)
LEMMA NoLossStep ==
  ASSUME DurableInv, [Next]_vars
  PROVE  NoLoss' /\ ReportedIsTrue'
<1> USE DEF DurableInv, TypeOK, NoLoss, ReportedIsTrue
<1>1. ASSUME NEW r \in Record, Findable(r) PROVE Findable(r)'
  BY <1>1, FindableIsStable
<1>2. ASSUME NEW f \in Flusher, Drop(f) PROVE NoLoss' /\ ReportedIsTrue'
  BY <1>1, <1>2, DropsOnlyFindable DEF time, Drop
<1>3. CASE \E r \in Record : Enqueue(r)
  BY <1>1, <1>3 DEF time, Enqueue
<1>4. CASE accepted' = accepted /\ queued' = queued /\ reported' = reported
  BY <1>1, <1>4
<1>. QED
  BY <1>2, <1>3, <1>4
     DEF time, Next, vars, FlushStep, device, network, call, history, Age, Claim,
         Upload, PinSlabs, PinObject, PutBatchFails, Release, Catalogue, Track,
         BookkeepingFails, Crash

(* The four parts together: DurableInv is inductive.                        *)
LEMMA DurableInvStep == DurableInv /\ [Next]_vars => DurableInv'
<1> SUFFICES ASSUME DurableInv, [Next]_vars PROVE DurableInv'
  OBVIOUS
<1>. QED
  BY TypeStep, BatchStep, CatalogStep, NoLossStep DEF DurableInv

(* So DurableInv holds in every reachable state.                            *)
LEMMA DurableInvHolds == Spec => []DurableInv
BY DurableInvInit, DurableInvStep, PTL DEF Spec

(* Types: the state keeps its shape in every instance.                      *)
THEOREM TypeCorrect == Spec => []TypeOK
BY DurableInvHolds, PTL DEF DurableInv

(* No accepted record is ever lost: for any number of processes, flush      *)
(* calls, records and faults, with or without punctual flushes, an          *)
(* accepted record is queued on the device or findable on the network.     *)
THEOREM NothingIsLost == Spec => []NoLoss
BY DurableInvHolds, PTL DEF DurableInv

(* A record a flush reported as written is readable through the catalog.    *)
THEOREM ReportsAreTrue == Spec => []ReportedIsTrue
BY DurableInvHolds, PTL DEF DurableInv

-----------------------------------------------------------------------------
(* Refinement: each step of the write path is a step of DurabilityPromise   *)
(* or leaves the debt and the store alone.                                 *)
LEMMA PromiseInit == Init => Promise!Init
BY NoSlabAssumption DEF Init, Promise!Init, Findable

(* One case per step that moves the debt or the store: Enqueue accepts,     *)
(* Catalogue stores, Drop discharges; every other step stutters.            *)
LEMMA PromiseStep ==
  ASSUME DurableInv, [Next]_vars
  PROVE  [Promise!Next]_(Promise!vars)
<1> DEFINE Stored == {r \in Record : Findable(r)}
<1> USE DEF DurableInv, TypeOK
<1>1. Stored \subseteq Stored'
  BY FindableIsStable
<1>2. ASSUME NEW r \in Record, Enqueue(r)
      PROVE  Promise!Accept(r)
  <2>1. r \notin queued /\ r \notin Stored
    BY <1>2, NoSlabAssumption DEF time, Enqueue, CatalogInv, Findable
  <2>2. Stored' = Stored
    BY <1>2 DEF time, Enqueue, network, Findable
  <2>. QED BY <1>2, <2>1, <2>2 DEF time, Promise!Accept, Enqueue
<1>3. ASSUME NEW f \in Flusher, NEW r \in Record, Catalogue(f, r)
      PROVE  Promise!Store(r) \/ UNCHANGED Promise!vars
  <2>1. queued' = queued
    BY <1>3 DEF time, Catalogue
  <2>2. Stored' = Stored \union {r}
    <3>1. Findable(r)'
      BY <1>3, CatalogStep, NoSlabAssumption DEF time, Catalogue, CatalogInv, BatchOK
    <3>2. ASSUME NEW q \in Record, q # r PROVE Findable(q)' <=> Findable(q)
      BY <1>3, <3>2 DEF time, Catalogue, network, Findable
    <3>. QED BY <3>1, <3>2
  <2>3. r \in queued \/ r \in Stored
    BY <1>3 DEF time, Catalogue, BatchOK, NoLoss
  <2>. QED BY <2>1, <2>2, <2>3 DEF Promise!Store, Promise!vars
<1>4. ASSUME NEW f \in Flusher, Drop(f)
      PROVE  Promise!Discharge(batch[f] \intersect queued)
  <2>1. batch[f] \subseteq Stored
    BY <1>4, DropsOnlyFindable
  <2>2. Stored' = Stored
    BY <1>4 DEF time, Drop, network, Findable
  <2>. QED BY <1>4, <2>1, <2>2 DEF time, Promise!Discharge, Drop
<1>5. CASE catalog' = catalog /\ queued' = queued
  <2>1. ASSUME NEW r \in Record, Findable(r)' PROVE Findable(r)
    BY <1>5, <2>1, CatalogStep, NoSlabAssumption, TypeStep DEF CatalogInv, Findable
  <2>. QED BY <1>1, <1>5, <2>1 DEF Promise!vars
<1>. QED
  BY <1>2, <1>3, <1>4, <1>5
     DEF time, Promise!Next, Next, vars, FlushStep, device, network, call, history,
         Age, Claim, Upload, PinSlabs, PinObject, PutBatchFails, Release, Track,
         BookkeepingFails, Crash

(* The write path implements the durability promise: accepting is the only  *)
(* way into debt, and storing the only way out of it.                      *)
THEOREM ImplementsPromise == Spec => KeepsPromise
<1>1. DurableInv /\ [Next]_vars => [Promise!Next]_(Promise!vars)
  BY PromiseStep
<1>. QED
  BY <1>1, PromiseInit, DurableInvHolds, PTL DEF Spec, KeepsPromise, Promise!Spec

-----------------------------------------------------------------------------
(* Claims.  The stamps of the calls in flight are distinct because the      *)
(* clock ticks with each claim; while no flush outlives the timeout, a row  *)
(* of a batch keeps its call's stamp, so two batches share no row.         *)
LEMMA ClaimInvInit == Init => ClaimInv
BY DEF Init, ClaimInv, Active, Free

(* A step that leaves the rows, the claims and the calls' batches alone, and *)
(* starts or ends no call, keeps ClaimInv.                                  *)
LEMMA ClaimUndisturbed ==
  ASSUME ClaimInv,
         UNCHANGED <<queued, claimedAt, clock, horizon, late, batch, since>>,
         \A f \in Flusher : Active(f)' <=> Active(f)
  PROVE  ClaimInv'
BY DEF ClaimInv

(* Moving a call in flight on to another stage of its flush keeps it active. *)
LEMMA MovingKeepsActive ==
  ASSUME TypeOK, NEW f \in Flusher, Active(f), NEW stage \in Stages,
         stage # "idle", Goto(f, stage) \/ UNCHANGED pc
  PROVE  \A g \in Flusher : Active(g)' <=> Active(g)
BY DEF TypeOK, Active, Goto

(* Ending the calls of a set, whatever becomes of the claims of their rows   *)
(* in a step that only frees claims of those calls or leaves them, keeps    *)
(* the part of ClaimInv about calls.                                        *)
LEMMA ReturnKeepsCalls ==
  ASSUME TypeOK, ClaimInv, NEW F \in SUBSET Flusher, Return(F)
  PROVE  /\ \A f \in F : ~Active(f)' /\ batch'[f] = {} /\ since'[f] = Free
         /\ \A f \in Flusher \ F : /\ Active(f)' <=> Active(f)
                                   /\ batch'[f] = batch[f]
                                   /\ since'[f] = since[f]
BY DEF TypeOK, Return, Active

(* Each step keeps ClaimInv.  A claim takes only rows no punctual call      *)
(* holds; an Age that catches a call in flight sets `late'.                 *)
LEMMA ClaimInvStep ==
  ASSUME TypeOK, TypeOK', ClaimInv, [Next]_vars
  PROVE  ClaimInv'
<1>1. CASE \E r \in Record : Enqueue(r)
  BY <1>1 DEF time, Enqueue, call, ClaimInv, Active
<1>2. CASE Age
  BY <1>2 DEF time, Age, call, ClaimInv, TypeOK, Active, Free
<1>3. ASSUME NEW f \in Flusher, Claim(f) PROVE ClaimInv'
  BY <1>3 DEF Claim, Claimable, Goto, ClaimInv, TypeOK, Active, Free
<1>4. ASSUME NEW f \in Flusher, Release(f) PROVE ClaimInv'
  BY <1>4 DEF time, Release, Return, ClaimInv, TypeOK, Active, Free
<1>5. ASSUME NEW f \in Flusher, Drop(f) PROVE ClaimInv'
  BY <1>5 DEF time, Drop, Return, ClaimInv, TypeOK, Active, Free
<1>6. ASSUME NEW f \in Flusher, BookkeepingFails(f) PROVE ClaimInv'
  BY <1>6, ReturnKeepsCalls DEF time, BookkeepingFails, device, ClaimInv
<1>7. ASSUME NEW p \in Proc, Crash(p) PROVE ClaimInv'
  <2> DEFINE F == {f \in Flusher : ProcOf[f] = p}
  <2>1. Return(F) /\ UNCHANGED <<queued, claimedAt, clock, horizon, late>>
    BY <1>7 DEF Crash, device, time
  <2>2. F \in SUBSET Flusher
    OBVIOUS
  <2> HIDE DEF F
  <2>. QED BY <2>1, <2>2, ReturnKeepsCalls DEF ClaimInv
<1>8. ASSUME NEW f \in Flusher, Upload(f) PROVE ClaimInv'
  <2>1. \A g \in Flusher : Active(g)' <=> Active(g)
    BY <1>8, MovingKeepsActive DEF Upload, Active, Stages
  <2>. QED BY <1>8, <2>1, ClaimUndisturbed DEF Upload, device, time
<1>9. ASSUME NEW f \in Flusher, PinSlabs(f) PROVE ClaimInv'
  <2>1. \A g \in Flusher : Active(g)' <=> Active(g)
    BY <1>9, MovingKeepsActive DEF PinSlabs, Active, Stages
  <2>. QED BY <1>9, <2>1, ClaimUndisturbed DEF PinSlabs, device, time
<1>10. ASSUME NEW f \in Flusher, NEW r \in Record, PinObject(f, r) PROVE ClaimInv'
  <2>1. Active(f) /\ (Goto(f, "catalog") \/ UNCHANGED pc)
    BY <1>10 DEF PinObject, Active
  <2>2. \A g \in Flusher : Active(g)' <=> Active(g)
    BY <2>1, MovingKeepsActive DEF Stages
  <2>. QED BY <1>10, <2>2, ClaimUndisturbed DEF PinObject, device, time
<1>11. ASSUME NEW f \in Flusher, NEW r \in Record, Catalogue(f, r) PROVE ClaimInv'
  <2>1. Active(f) /\ (Goto(f, "track") \/ UNCHANGED pc)
    BY <1>11 DEF Catalogue, Active
  <2>2. \A g \in Flusher : Active(g)' <=> Active(g)
    BY <2>1, MovingKeepsActive DEF Stages
  <2>. QED BY <1>11, <2>2, ClaimUndisturbed DEF Catalogue, time
<1>12. ASSUME NEW f \in Flusher, Track(f) PROVE ClaimInv'
  <2>1. \A g \in Flusher : Active(g)' <=> Active(g)
    BY <1>12, MovingKeepsActive DEF Track, Active, Stages
  <2>. QED BY <1>12, <2>1, ClaimUndisturbed DEF Track, time
<1>13. ASSUME NEW f \in Flusher, PutBatchFails(f) PROVE ClaimInv'
  <2>1. Active(f) /\ Goto(f, "release")
    BY <1>13 DEF PutBatchFails, Active
  <2>2. \A g \in Flusher : Active(g)' <=> Active(g)
    BY <2>1, MovingKeepsActive DEF Stages
  <2>. QED BY <1>13, <2>2, ClaimUndisturbed DEF PutBatchFails, device, time
<1>14. CASE UNCHANGED vars
  BY <1>14, ClaimUndisturbed DEF time, vars, device, call, Active
<1>. QED
  BY <1>1, <1>2, <1>3, <1>4, <1>5, <1>6, <1>7, <1>8, <1>9, <1>10, <1>11, <1>12,
     <1>13, <1>14 DEF Next, FlushStep

(* Two calls that are in time hold no row in common.                        *)
LEMMA BatchesAreDisjoint ==
  ASSUME TypeOK, ClaimInv, late = {}, NEW f \in Flusher, NEW g \in Flusher, f # g
  PROVE  batch[f] \intersect batch[g] = {}
<1> SUFFICES ASSUME NEW r \in batch[f] \intersect batch[g] PROVE FALSE
  OBVIOUS
<1>1. Active(f) /\ Active(g)
  BY DEF ClaimInv
<1>2. since[f] # since[g]
  BY <1>1 DEF ClaimInv
<1>3. claimedAt[r] = since[f] /\ claimedAt[r] = since[g]
  BY <1>1 DEF ClaimInv, TypeOK
<1> QED BY <1>2, <1>3

(* Until a flush outlives the claim timeout, no two flush calls ever work   *)
(* on the same record, in any number of processes.                         *)
THEOREM ClaimsAreRespected == Spec => []FreshClaimRespected
<1>1. TypeOK /\ ClaimInv => FreshClaimRespected
  BY BatchesAreDisjoint DEF FreshClaimRespected
<1>2. TypeOK /\ TypeOK' /\ ClaimInv /\ [Next]_vars => ClaimInv'
  BY ClaimInvStep
<1>. QED
  BY <1>1, <1>2, ClaimInvInit, TypeCorrect, PTL DEF Spec

-----------------------------------------------------------------------------
(* The ledger.  A call in time is alone with its records, so what it points *)
(* the catalog at stays there until its rows are dropped, and by then the   *)
(* slab is in the ledger, which nothing here ever shortens.                 *)
LEMMA LedgerInvStep ==
  ASSUME DurableInv, ClaimInv, LedgerInv, [Next]_vars
  PROVE  LedgerInv'
<1> SUFFICES ASSUME late' = {} PROVE LedgerInv'
  BY DEF LedgerInv, SettledIsLedgered
<1> DEFINE Done(f) ==
      /\ pc[f] \in {"catalog", "track", "drop"} =>
           \A r \in batch[f] \ todo[f] : catalog[r] = slab[f]
      /\ pc[f] = "drop" => slab[f] \in ledger
<1>0. TypeOK /\ late = {} /\ SettledIsLedgered /\ \A f \in Flusher : Done(f)
  <2>1. late \subseteq late'
    BY DEF Next, FlushStep, Enqueue, Age, Claim, Upload, PinSlabs, PinObject, PutBatchFails,
           Release, Catalogue, Track, Drop, BookkeepingFails, Crash, vars, device, time
  <2> QED BY <2>1 DEF LedgerInv, DurableInv
<1>1. ASSUME \A r \in accepted' \ queued' : catalog'[r] \in ledger',
             \A f \in Flusher : Done(f)'
      PROVE  LedgerInv'
  BY <1>1 DEF LedgerInv, SettledIsLedgered
<1> HIDE DEF Done
<1>2. ASSUME UNCHANGED <<accepted, queued, catalog, ledger>>,
             \A f \in Flusher : Done(f)'
      PROVE  LedgerInv'
  BY <1>0, <1>1, <1>2 DEF SettledIsLedgered
<1>3. ASSUME NEW F \in SUBSET Flusher, Return(F), UNCHANGED <<catalog, ledger>>
      PROVE  \A f \in Flusher : Done(f)'
  BY <1>0, <1>3 DEF Return, Done, TypeOK
<1>4. CASE \E r \in Record : Enqueue(r)
  BY <1>0, <1>1, <1>4 DEF Enqueue, call, Done, SettledIsLedgered
<1>5. CASE Age \/ UNCHANGED vars
  BY <1>0, <1>2, <1>5 DEF Age, vars, device, call, history, Done
<1>6. ASSUME NEW f \in Flusher, Claim(f) PROVE LedgerInv'
  <2>1. \A g \in Flusher : Done(g)'
    BY <1>0, <1>6 DEF Claim, Goto, Done, TypeOK
  <2> QED BY <1>2, <1>6, <2>1 DEF Claim, history
<1>7. ASSUME NEW f \in Flusher, Upload(f) \/ PinSlabs(f) PROVE LedgerInv'
  <2>1. \A g \in Flusher : Done(g)'
    BY <1>0, <1>7 DEF Upload, PinSlabs, Goto, Done, TypeOK, device
  <2> QED BY <1>2, <1>7, <2>1 DEF Upload, PinSlabs, device, history
<1>8. ASSUME NEW f \in Flusher, NEW r \in Record, PinObject(f, r) PROVE LedgerInv'
  <2>1. \A g \in Flusher : Done(g)'
    BY <1>0, <1>8 DEF PinObject, Goto, Done, TypeOK, device
  <2> QED BY <1>2, <1>8, <2>1 DEF PinObject, device, history
<1>9. ASSUME NEW f \in Flusher, PutBatchFails(f) PROVE LedgerInv'
  <2>1. \A g \in Flusher : Done(g)'
    BY <1>0, <1>9 DEF PutBatchFails, Goto, Done, TypeOK, device
  <2> QED BY <1>2, <1>9, <2>1 DEF PutBatchFails, device
<1>10. ASSUME NEW f \in Flusher, Release(f) \/ BookkeepingFails(f) PROVE LedgerInv'
  <2>1. Return({f}) /\ UNCHANGED <<accepted, queued, catalog, ledger>>
    BY <1>10 DEF Release, BookkeepingFails, device, history
  <2> QED BY <1>2, <1>3, <2>1
<1>11. ASSUME NEW p \in Proc, Crash(p) PROVE LedgerInv'
  <2>1. Return({f \in Flusher : ProcOf[f] = p}) /\ UNCHANGED <<accepted, queued, catalog, ledger>>
    BY <1>11 DEF Crash, device
  <2> QED BY <1>2, <1>3, <2>1
<1>12. ASSUME NEW f \in Flusher, NEW r \in Record, Catalogue(f, r) PROVE LedgerInv'
  <2>1. /\ pc[f] = "catalog" /\ r \in todo[f] /\ catalog' = [catalog EXCEPT ![r] = slab[f]]
        /\ todo' = [todo EXCEPT ![f] = todo[f] \ {r}]
        /\ pc' = pc \/ pc' = [pc EXCEPT ![f] = "track"]
        /\ UNCHANGED <<accepted, queued, ledger, batch, slab>>
    BY <1>12 DEF Catalogue, Goto, history
  <2>2. r \in batch[f]
    BY <2>1 DEF DurableInv, BatchOK
  <2>3. r \in queued
    BY <1>0, <2>1, <2>2 DEF ClaimInv, Active
  <2>4. \A q \in accepted' \ queued' : catalog'[q] \in ledger'
    BY <1>0, <2>1, <2>3 DEF SettledIsLedgered, TypeOK
  <2>5. ASSUME NEW g \in Flusher PROVE Done(g)'
    <3>1. CASE g = f
      BY <1>0, <2>1, <3>1 DEF Done, TypeOK
    <3>2. CASE g # f
      <4>1. r \notin batch[g]
        BY <1>0, <2>2, <3>2, BatchesAreDisjoint
      <4> QED BY <1>0, <2>1, <3>2, <4>1 DEF Done, TypeOK
    <3> QED BY <3>1, <3>2
  <2> QED BY <1>1, <2>4, <2>5
<1>13. ASSUME NEW f \in Flusher, Track(f) PROVE LedgerInv'
  <2>1. /\ pc[f] = "track" /\ pc' = [pc EXCEPT ![f] = "drop"]
        /\ ledger' = ledger \union {slab[f]}
        /\ UNCHANGED <<accepted, queued, catalog, batch, slab, todo>>
    BY <1>13 DEF Track, Goto, history
  <2>2. \A g \in Flusher : Done(g)'
    BY <1>0, <2>1 DEF Done, TypeOK
  <2>3. \A q \in accepted' \ queued' : catalog'[q] \in ledger'
    BY <1>0, <2>1 DEF SettledIsLedgered
  <2> QED BY <1>1, <2>2, <2>3
<1>14. ASSUME NEW f \in Flusher, Drop(f) PROVE LedgerInv'
  <2>1. /\ pc[f] = "drop" /\ queued' = queued \ batch[f] /\ Return({f})
        /\ UNCHANGED <<accepted, catalog, ledger>>
    BY <1>14 DEF Drop
  <2>2. \A r \in batch[f] : catalog[r] \in ledger
    BY <1>0, <2>1 DEF Done, DurableInv, BatchOK
  <2>3. \A q \in accepted' \ queued' : catalog'[q] \in ledger'
    BY <1>0, <2>1, <2>2 DEF SettledIsLedgered
  <2> QED BY <1>1, <1>3, <2>1, <2>3
<1> QED
  BY <1>4, <1>5, <1>6, <1>7, <1>8, <1>9, <1>10, <1>11, <1>12, <1>13, <1>14
     DEF Next, FlushStep

(* Until a flush outlives the claim timeout, a record that has left the     *)
(* queue lies on a slab the ledger lists.                                   *)
THEOREM SettledStaysLedgered == Spec => []SettledIsLedgered
<1>1. Init => LedgerInv
  BY DEF Init, LedgerInv, SettledIsLedgered
<1>2. LedgerInv => SettledIsLedgered
  BY DEF LedgerInv
<1>3. Spec => []ClaimInv
  <2>1. TypeOK /\ TypeOK' /\ ClaimInv /\ [Next]_vars => ClaimInv'
    BY ClaimInvStep
  <2> QED BY <2>1, ClaimInvInit, TypeCorrect, PTL DEF Spec
<1>4. DurableInv /\ ClaimInv /\ LedgerInv /\ [Next]_vars => LedgerInv'
  BY LedgerInvStep
<1> QED BY <1>1, <1>2, <1>3, <1>4, DurableInvHolds, PTL DEF Spec

-----------------------------------------------------------------------------
(* Counting.  What a step adds to a set of slabs is at most the slabs of    *)
(* the calls it ends, and each of those is a fault.                        *)
LEMMA FewMore ==
  ASSUME NEW W, IsFiniteSet(W), NEW n \in Nat, Cardinality(W) <= n,
         NEW F \in SUBSET Flusher, IsFiniteSet(F),
         NEW V, V \subseteq W \union {slab[f] : f \in F}
  PROVE  IsFiniteSet(V) /\ Cardinality(V) <= n + Cardinality(F)
<1> DEFINE S == {slab[f] : f \in F}
           of == [f \in F |-> slab[f]]
           U == W \union S
<1>1. of \in Surjection(F, S)
  BY DEF Surjection
<1> HIDE DEF of
<1>2. IsFiniteSet(S) /\ Cardinality(S) <= Cardinality(F)
  BY <1>1, FS_Surjection
<1>3. V \in SUBSET U
  OBVIOUS
<1> HIDE DEF S
<1>4. IsFiniteSet(U) /\ IsFiniteSet(W \cap S)
      /\ Cardinality(U) = Cardinality(W) + Cardinality(S) - Cardinality(W \cap S)
  BY <1>2, FS_Union, FS_Intersection
<1> HIDE DEF U
<1>5. IsFiniteSet(V) /\ Cardinality(V) <= Cardinality(U)
  BY <1>3, <1>4, FS_Subset
<1>6. /\ Cardinality(W) \in Nat /\ Cardinality(S) \in Nat /\ Cardinality(W \cap S) \in Nat
      /\ Cardinality(U) \in Nat /\ Cardinality(V) \in Nat /\ Cardinality(F) \in Nat
  BY <1>2, <1>4, <1>5, FS_CardinalityType
<1> QED BY <1>2, <1>4, <1>5, <1>6

LEMMA NoMore ==
  ASSUME NEW W, IsFiniteSet(W), NEW n \in Nat, Cardinality(W) <= n, NEW V \in SUBSET W
  PROVE  IsFiniteSet(V) /\ Cardinality(V) <= n
<1>1. IsFiniteSet(V) /\ Cardinality(V) <= Cardinality(W)
  BY FS_Subset
<1>2. Cardinality(V) \in Nat /\ Cardinality(W) \in Nat
  BY <1>1, FS_CardinalityType
<1> QED BY <1>1, <1>2

(* The calls that end, and the rest, after a Return.                        *)
LEMMA Returned ==
  ASSUME TypeOK, NEW F \in SUBSET Flusher, Return(F)
  PROVE  /\ \A f \in F : pc'[f] = "idle" /\ batch'[f] = {} /\ slab'[f] = NoSlab
         /\ \A f \in Flusher \ F : pc'[f] = pc[f] /\ batch'[f] = batch[f] /\ slab'[f] = slab[f]
BY DEF TypeOK, Return

(* The calls a fault ends, one or those of a process, and what it costs.    *)
LEMMA Faulted ==
  ASSUME TypeOK, NEW F \in SUBSET Flusher, IsFiniteSet(F), Fault(F)
  PROVE  faults' = faults + Cardinality(F) /\ faults' \in Nat /\ Cardinality(F) \in Nat
BY FS_CardinalityType DEF TypeOK, Fault

LEMMA One ==
  ASSUME NEW f \in Flusher
  PROVE  {f} \in SUBSET Flusher /\ IsFiniteSet({f})
BY FS_Singleton

(* The slabs a step may have put out of reach: none, or those of the calls  *)
(* that a fault has ended.                                                  *)
LEMMA WasteStep ==
  ASSUME IsFiniteSet(Flusher), DurableInv, WasteInv, [Next]_vars
  PROVE  WasteInv'
<1> DEFINE Hands == /\ \A f \in Flusher : pc[f] \in {"idle", "upload"} => slab[f] = NoSlab
                    /\ \A f \in Flusher : pc[f] = "drop" => slab[f] \in ledger
<1>1. TypeOK /\ TypeOK' /\ faults \in Nat
  BY TypeStep DEF DurableInv, TypeOK
<1>2. NoSlab \notin slabs
  BY <1>1, NoSlabAssumption DEF TypeOK
<1>3. ASSUME Hands', Wasted' \subseteq Wasted, UNCHANGED faults PROVE WasteInv'
  BY <1>1, <1>3, NoMore DEF WasteInv
<1>4. ASSUME Hands', NEW F \in SUBSET Flusher, Fault(F),
             Wasted' \subseteq Wasted \union {slab[f] : f \in F}
      PROVE  WasteInv'
  <2>1. IsFiniteSet(F)
    BY FS_Subset
  <2>2. IsFiniteSet(Wasted') /\ Cardinality(Wasted') <= faults + Cardinality(F)
    BY <1>1, <1>4, <2>1, FewMore DEF WasteInv
  <2> QED BY <1>1, <1>4, <2>1, <2>2, Faulted DEF WasteInv
<1>5. CASE UNCHANGED vars
  <2>1. Hands' /\ Wasted' = Wasted
    BY <1>5 DEF vars, device, network, call, WasteInv, Wasted
  <2> QED BY <1>3, <1>5, <2>1 DEF vars, history
<1>6. ASSUME NEW r \in Record, Enqueue(r) PROVE WasteInv'
  <2>1. Hands' /\ Wasted' = Wasted
    BY <1>6 DEF Enqueue, network, call, WasteInv, Wasted
  <2> QED BY <1>3, <1>6, <2>1 DEF Enqueue
<1>7. CASE Age
  <2>1. Hands' /\ Wasted' = Wasted
    BY <1>7 DEF Age, network, call, WasteInv, Wasted
  <2> QED BY <1>3, <1>7, <2>1 DEF Age, history
<1>8. ASSUME NEW f \in Flusher, Claim(f) PROVE WasteInv'
  <2>1. Hands' /\ Wasted' \subseteq Wasted
    BY <1>1, <1>8 DEF Claim, Goto, network, TypeOK, WasteInv, Wasted
  <2> QED BY <1>3, <1>8, <2>1 DEF Claim, history
<1>9. ASSUME NEW f \in Flusher, Upload(f) PROVE WasteInv'
  <2>1. Hands' /\ Wasted' \subseteq Wasted
    BY <1>1, <1>2, <1>9 DEF Upload, Goto, device, network, TypeOK, WasteInv, Wasted
  <2> QED BY <1>3, <1>9, <2>1 DEF Upload, history
<1>10. ASSUME NEW f \in Flusher, PinSlabs(f) PROVE WasteInv'
  <2>1. Hands' /\ Wasted' \subseteq Wasted
    BY <1>1, <1>10 DEF PinSlabs, Goto, device, TypeOK, WasteInv, Wasted
  <2> QED BY <1>3, <1>10, <2>1 DEF PinSlabs, history
<1>11. ASSUME NEW f \in Flusher, NEW r \in Record, PinObject(f, r) PROVE WasteInv'
  <2>1. Hands' /\ Wasted' \subseteq Wasted
    BY <1>1, <1>11 DEF PinObject, Goto, device, TypeOK, WasteInv, Wasted
  <2> QED BY <1>3, <1>11, <2>1 DEF PinObject, history
<1>12. ASSUME NEW f \in Flusher, PutBatchFails(f) PROVE WasteInv'
  <2>1. Hands'
    BY <1>1, <1>12 DEF PutBatchFails, Goto, device, TypeOK, WasteInv
  <2>2. Wasted' \subseteq Wasted \union {slab[g] : g \in {f}}
    <3>1. slabs' \subseteq slabs \union {slab[f]} /\ UNCHANGED <<ledger, slab>>
      BY <1>12 DEF PutBatchFails, device
    <3>2. \A g \in Flusher \ {f} : pc'[g] = pc[g]
      BY <1>1, <1>12 DEF PutBatchFails, Goto, TypeOK
    <3> QED BY <3>1, <3>2 DEF Wasted
  <2> QED BY <1>4, <1>12, <2>1, <2>2, One DEF PutBatchFails
<1>13. ASSUME NEW f \in Flusher, Release(f) PROVE WasteInv'
  <2>1. Return({f}) /\ pc[f] = "release" /\ UNCHANGED <<ledger, slabs, faults>>
    BY <1>13 DEF Release, network, history
  <2>2. Hands' /\ Wasted' \subseteq Wasted
    BY <1>1, <1>2, <2>1, One, Returned DEF WasteInv, Wasted
  <2> QED BY <1>3, <2>1, <2>2
<1>14. ASSUME NEW f \in Flusher, NEW r \in Record, Catalogue(f, r) PROVE WasteInv'
  <2>1. Hands' /\ Wasted' \subseteq Wasted
    BY <1>1, <1>14 DEF Catalogue, Goto, network, TypeOK, WasteInv, Wasted
  <2> QED BY <1>3, <1>14, <2>1 DEF Catalogue, history
<1>15. ASSUME NEW f \in Flusher, Track(f) PROVE WasteInv'
  <2>1. Hands' /\ Wasted' \subseteq Wasted
    BY <1>1, <1>15 DEF Track, Goto, network, TypeOK, WasteInv, Wasted
  <2> QED BY <1>3, <1>15, <2>1 DEF Track, history
<1>16. ASSUME NEW f \in Flusher, Drop(f) PROVE WasteInv'
  <2>1. Return({f}) /\ pc[f] = "drop" /\ UNCHANGED <<ledger, slabs, faults>>
    BY <1>16 DEF Drop, network
  <2>2. slab[f] \in ledger
    BY <2>1 DEF WasteInv
  <2>3. Hands' /\ Wasted' \subseteq Wasted
    BY <1>1, <1>2, <2>1, <2>2, One, Returned DEF WasteInv, Wasted
  <2> QED BY <1>3, <2>1, <2>3
<1>17. ASSUME NEW F \in SUBSET Flusher, NEW G \in SUBSET F, Fault(G), Return(F),
              \A f \in F \ G : ~ Active(f), UNCHANGED <<ledger, slabs>>
       PROVE  WasteInv'
  <2>1. Hands'
    BY <1>1, <1>17, Returned DEF WasteInv
  <2>2. \A f \in F \ G : slab[f] = NoSlab
    BY <1>17 DEF WasteInv, Active
  <2>3. \A f \in Flusher \ F : pc'[f] = pc[f] /\ slab'[f] = slab[f]
    BY <1>1, <1>17, Returned
  <2>4. ASSUME NEW s \in Wasted' PROVE s \in Wasted \union {slab[f] : f \in G}
    <3>1. s \in slabs \ ledger
      BY <1>17 DEF Wasted
    <3>2. ASSUME s \notin {slab[f] : f \in G}, NEW f \in Flusher, pc[f] # "release"
          PROVE  slab[f] # s
      <4>1. CASE f \in G
        BY <3>2, <4>1
      <4>2. CASE f \in F \ G
        BY <1>2, <2>2, <3>1, <4>2
      <4>3. CASE f \in Flusher \ F
        BY <2>3, <3>2, <4>3 DEF Wasted
      <4> QED BY <4>1, <4>2, <4>3
    <3> QED BY <3>1, <3>2 DEF Wasted
  <2> QED BY <1>4, <1>17, <2>1, <2>4
<1>18. ASSUME NEW f \in Flusher, BookkeepingFails(f) PROVE WasteInv'
  BY <1>17, <1>18, One DEF BookkeepingFails, device, network
<1>19. ASSUME NEW p \in Proc, Crash(p) PROVE WasteInv'
  <2> DEFINE F == {f \in Flusher : ProcOf[f] = p}
             G == {f \in Flusher : ProcOf[f] = p /\ Active(f)}
  <2>1. F \in SUBSET Flusher /\ G \in SUBSET F /\ \A f \in F \ G : ~ Active(f)
    OBVIOUS
  <2>2. Fault(G) /\ Return(F) /\ UNCHANGED <<ledger, slabs>>
    BY <1>19 DEF Crash, device, network
  <2> HIDE DEF F, G
  <2> QED BY <1>17, <2>1, <2>2
<1> QED
  BY <1>5, <1>6, <1>7, <1>8, <1>9, <1>10, <1>11, <1>12, <1>13, <1>14, <1>15, <1>16,
     <1>18, <1>19 DEF Next, FlushStep

(* A slab that nobody will ledger costs a failed or interrupted flush each, *)
(* for any number of processes and records, as long as flushes in flight    *)
(* are finitely many.                                                      *)
THEOREM StrandingStaysRare ==
  ASSUME IsFiniteSet(Flusher)
  PROVE  Spec => []StrandingIsRare
<1>1. Init => WasteInv
  <2>1. ASSUME Init PROVE Wasted = {} /\ faults = 0
    BY <2>1 DEF Init, Wasted
  <2>2. IsFiniteSet({}) /\ Cardinality({}) = 0
    BY FS_EmptySet
  <2> QED BY <2>1, <2>2 DEF Init, WasteInv
<1>2. DurableInv /\ WasteInv /\ [Next]_vars => WasteInv'
  BY WasteStep
<1>3. DurableInv /\ WasteInv => StrandingIsRare
  <2> SUFFICES ASSUME DurableInv, WasteInv PROVE StrandingIsRare
    OBVIOUS
  <2>1. Stranded \in SUBSET Wasted /\ faults \in Nat
    BY DEF Stranded, Wasted, DurableInv, TypeOK
  <2> QED BY <2>1, NoMore DEF WasteInv, StrandingIsRare
<1> QED BY <1>1, <1>2, <1>3, DurableInvHolds, PTL DEF Spec

-----------------------------------------------------------------------------
(* A step that pins nothing of the record, or takes it from the queue.      *)
LEMMA PaidUndisturbed ==
  ASSUME TypeOK, NEW r \in Record, PaidOK(r), UNCHANGED faults,
         Places(r)' = Places(r),
         r \in queued' => r \in queued /\ Earlier(r)' \subseteq Earlier(r)
  PROVE  PaidOK(r)'
<1>1. faults \in Nat
  BY DEF TypeOK
<1>2. ASSUME r \in queued' PROVE Cardinality(Earlier(r)') <= faults
  <2>1. Earlier(r) \in SUBSET Places(r) /\ r \in queued /\ Earlier(r)' \in SUBSET Earlier(r)
    BY <1>2 DEF Earlier
  <2>2. IsFiniteSet(Earlier(r))
    BY <2>1, FS_Subset DEF PaidOK
  <2> QED BY <1>1, <2>1, <2>2, NoMore DEF PaidOK
<1> QED BY <1>2 DEF PaidOK

(* A fault leaves at most a slab of each call it ends.                      *)
LEMMA PaidByFaults ==
  ASSUME TypeOK, NEW r \in Record, PaidOK(r), NEW F \in SUBSET Flusher, IsFiniteSet(F), Fault(F),
         UNCHANGED queued,
         Places(r)' \subseteq Places(r) \union {slab[f] : f \in F},
         Earlier(r)' \subseteq Earlier(r) \union {slab[f] : f \in F}
  PROVE  PaidOK(r)'
<1>1. faults \in Nat /\ 1 + faults \in Nat
  BY DEF TypeOK
<1>2. faults' = faults + Cardinality(F) /\ Cardinality(F) \in Nat
  BY Faulted
<1>3. IsFiniteSet(Places(r)') /\ Cardinality(Places(r)') <= 1 + faults + Cardinality(F)
  BY <1>1, FewMore DEF PaidOK
<1>4. ASSUME r \in queued' PROVE Cardinality(Earlier(r)') <= faults'
  <2>1. Earlier(r) \in SUBSET Places(r) /\ r \in queued
    BY <1>4 DEF Earlier
  <2>2. IsFiniteSet(Earlier(r)) /\ Cardinality(Earlier(r)) <= faults
    BY <2>1, FS_Subset DEF PaidOK
  <2>3. Cardinality(Earlier(r)') <= faults + Cardinality(F)
    BY <1>1, <2>2, FewMore
  <2> QED BY <1>2, <2>3
<1> QED BY <1>1, <1>2, <1>3, <1>4 DEF PaidOK

(* Ending calls, some of which have their slab's claim on the record        *)
(* already given up.                                                       *)
LEMMA EndingKeepsPaid ==
  ASSUME TypeOK, NEW r \in Record, NEW F \in SUBSET Flusher, NEW G \in SUBSET F,
         Return(F), UNCHANGED objects,
         \A f \in F \ G : r \in batch[f] => pc[f] = "release"
  PROVE  /\ Places(r)' = Places(r)
         /\ Earlier(r)' \subseteq Earlier(r) \union {slab[f] : f \in G}
<1>1. Places(r)' = Places(r)
  BY DEF Places
<1>2. \A f \in Flusher \ F : pc'[f] = pc[f] /\ batch'[f] = batch[f] /\ slab'[f] = slab[f]
  BY Returned
<1>3. ASSUME NEW s \in Earlier(r)' PROVE s \in Earlier(r) \union {slab[f] : f \in G}
  <2>1. s \in Places(r)
    BY <1>1, <1>3 DEF Earlier
  <2>2. ASSUME s \notin {slab[f] : f \in G}, NEW f \in Flusher, r \in batch[f], pc[f] # "release"
        PROVE  slab[f] # s
    <3>1. CASE f \in G
      BY <2>2, <3>1
    <3>2. CASE f \in F \ G
      BY <2>2, <3>2
    <3>3. CASE f \in Flusher \ F
      BY <1>2, <1>3, <2>2, <3>3 DEF Earlier
    <3> QED BY <3>1, <3>2, <3>3
  <2> QED BY <2>1, <2>2 DEF Earlier
<1> QED BY <1>1, <1>3

(* Until a flush is late, only the call that has a record in its batch pins *)
(* it, and what that call has pinned is no earlier place.                   *)
LEMMA PaidStep ==
  ASSUME IsFiniteSet(Flusher), DurableInv, DurableInv', ClaimInv, WasteInv, late = {},
         [Next]_vars, NEW r \in Record, PaidOK(r), r \notin accepted => Places(r) = {}
  PROVE  PaidOK(r)'
<1>1. TypeOK /\ faults \in Nat /\ \A f \in Flusher : BatchOK(f)
  BY DEF DurableInv, TypeOK
<1>2. CASE UNCHANGED vars
  BY <1>2 DEF vars, device, network, call, history, PaidOK, Places, Earlier
<1>3. ASSUME NEW q \in Record, Enqueue(q) PROVE PaidOK(r)'
  <2>1. /\ Places(r)' = Places(r) /\ Earlier(r)' = Earlier(r) /\ UNCHANGED faults
        /\ r \notin accepted \/ (r \in queued' => r \in queued)
    BY <1>3 DEF Enqueue, network, call, Places, Earlier
  <2>2. CASE r \in accepted
    BY <1>1, <2>1, <2>2, PaidUndisturbed
  <2>3. CASE r \notin accepted
    <3>1. Places(r) = {} /\ Earlier(r) = {}
      BY <2>3 DEF Earlier
    <3>2. IsFiniteSet({}) /\ Cardinality({}) = 0
      BY FS_EmptySet
    <3> QED BY <1>1, <2>1, <3>1, <3>2 DEF PaidOK
  <2> QED BY <2>2, <2>3
<1>4. CASE Age
  <2>1. Places(r)' = Places(r) /\ Earlier(r)' = Earlier(r) /\ UNCHANGED <<queued, faults>>
    BY <1>4 DEF Age, network, call, history, Places, Earlier
  <2> QED BY <1>1, <2>1, PaidUndisturbed
<1>5. ASSUME NEW f \in Flusher, Claim(f) PROVE PaidOK(r)'
  <2>1. batch[f] = {}
    BY <1>5 DEF Claim, ClaimInv, Active
  <2>2. /\ Places(r)' = Places(r) /\ UNCHANGED <<queued, faults, slab>>
        /\ \A g \in Flusher \ {f} : pc'[g] = pc[g] /\ batch'[g] = batch[g]
    BY <1>1, <1>5 DEF Claim, Goto, network, history, TypeOK, Places
  <2>3. Earlier(r)' \subseteq Earlier(r)
    BY <2>1, <2>2 DEF Earlier
  <2> QED BY <1>1, <2>2, <2>3, PaidUndisturbed
<1>6. ASSUME NEW f \in Flusher, Upload(f) PROVE PaidOK(r)'
  <2>1. slab[f] = NoSlab
    BY <1>6 DEF Upload, WasteInv
  <2>2. /\ Places(r)' = Places(r) /\ UNCHANGED <<queued, faults, batch>>
        /\ \A g \in Flusher \ {f} : pc'[g] = pc[g] /\ slab'[g] = slab[g]
    BY <1>1, <1>6 DEF Upload, Goto, device, network, history, TypeOK, Places
  <2>3. NoSlab \notin Places(r)
    BY NoSlabAssumption DEF Places
  <2>4. Earlier(r)' \subseteq Earlier(r)
    BY <2>1, <2>2, <2>3 DEF Earlier
  <2> QED BY <1>1, <2>2, <2>4, PaidUndisturbed
<1>7. ASSUME NEW f \in Flusher,
             PinSlabs(f) \/ Track(f) \/ \E q \in Record : Catalogue(f, q)
      PROVE  PaidOK(r)'
  <2>1. /\ pc[f] # "release"
        /\ Places(r)' = Places(r) /\ UNCHANGED <<queued, faults, batch, slab>>
        /\ \A g \in Flusher \ {f} : pc'[g] = pc[g]
    BY <1>1, <1>7 DEF PinSlabs, Track, Catalogue, Goto, device, network, history, TypeOK, Places
  <2>2. pc'[f] # "release"
    BY <1>1, <1>7 DEF PinSlabs, Track, Catalogue, Goto, TypeOK
  <2>3. Earlier(r)' \subseteq Earlier(r)
    BY <2>1, <2>2 DEF Earlier
  <2> QED BY <1>1, <2>1, <2>3, PaidUndisturbed
<1>8. ASSUME NEW f \in Flusher, NEW q \in Record, PinObject(f, q) PROVE PaidOK(r)'
  <2>1. /\ pc[f] = "pinObjects" /\ q \in batch[f] /\ slab[f] \in Slab
        /\ objects' = objects \union {<<q, slab[f]>>}
        /\ UNCHANGED <<queued, faults, batch, slab>>
        /\ pc'[f] # "release"
        /\ \A g \in Flusher \ {f} : pc'[g] = pc[g]
    BY <1>1, <1>8 DEF PinObject, BatchOK, Goto, device, history, TypeOK
  <2>2. CASE r # q
    <3>1. Places(r)' = Places(r)
      BY <2>1, <2>2 DEF Places
    <3>2. Earlier(r)' \subseteq Earlier(r)
      BY <2>1, <3>1 DEF Earlier
    <3> QED BY <1>1, <2>1, <3>1, <3>2, PaidUndisturbed
  <2>3. CASE r = q
    <3>1. Places(r)' = Places(r) \union {slab[f]}
      BY <2>1, <2>3 DEF Places
    <3>2. \A g \in Flusher \ {f} : r \notin batch[g]
      BY <1>1, <2>1, <2>3, BatchesAreDisjoint
    <3>3. Places(r) \subseteq Earlier(r) \union {slab[f]}
      BY <3>2 DEF Earlier
    <3>4. Earlier(r)' \subseteq Earlier(r)
      BY <2>1, <2>3, <3>1 DEF Earlier
    <3>5. r \in queued
      BY <2>1, <2>3 DEF ClaimInv, Active
    <3>6. Earlier(r) \in SUBSET Places(r)
      BY DEF Earlier
    <3>7. IsFiniteSet(Earlier(r)) /\ Cardinality(Earlier(r)) <= faults
      BY <3>5, <3>6, FS_Subset DEF PaidOK
    <3>8. Places(r)' \subseteq Earlier(r) \union {slab[g] : g \in {f}}
      BY <3>1, <3>3
    <3>9. IsFiniteSet({f}) /\ Cardinality({f}) = 1
      BY FS_Singleton
    <3>10. IsFiniteSet(Places(r)') /\ Cardinality(Places(r)') <= faults + 1
      BY <1>1, <3>7, <3>8, <3>9, FewMore
    <3>11. Cardinality(Earlier(r)') <= faults
      BY <1>1, <3>4, <3>7, NoMore
    <3> QED BY <1>1, <2>1, <3>10, <3>11 DEF PaidOK
  <2> QED BY <2>2, <2>3
<1>9. ASSUME NEW f \in Flusher, PutBatchFails(f) PROVE PaidOK(r)'
  <2>1. /\ Fault({f}) /\ UNCHANGED <<queued, batch, slab>>
        /\ \A g \in Flusher \ {f} : pc'[g] = pc[g]
    BY <1>1, <1>9 DEF PutBatchFails, Goto, device, TypeOK
  <2>2. \E landed \in SUBSET batch[f] : objects' = objects \union (landed \X {slab[f]})
    BY <1>9 DEF PutBatchFails
  <2>3. Places(r)' \subseteq Places(r) \union {slab[g] : g \in {f}}
    BY <2>2 DEF Places
  <2>4. Earlier(r)' \subseteq Earlier(r) \union {slab[g] : g \in {f}}
    BY <2>1, <2>3 DEF Earlier
  <2> QED BY <1>1, <2>1, <2>3, <2>4, One, PaidByFaults
<1>10. ASSUME NEW f \in Flusher, Release(f) \/ Drop(f) PROVE PaidOK(r)'
  <2>1. /\ Return({f}) /\ UNCHANGED <<objects, faults>>
        /\ r \in queued' => r \in queued /\ (r \in batch[f] => pc[f] = "release")
    BY <1>10 DEF Release, Drop, network, history
  <2>2. Places(r)' = Places(r)
    BY <2>1 DEF Places
  <2>3. ASSUME r \in queued' PROVE Earlier(r)' \subseteq Earlier(r)
    BY <1>1, <2>1, <2>3, One, EndingKeepsPaid
  <2> QED BY <1>1, <2>1, <2>2, <2>3, PaidUndisturbed
<1>11. ASSUME NEW F \in SUBSET Flusher, NEW G \in SUBSET F, Fault(G), Return(F),
              \A f \in F \ G : ~ Active(f), UNCHANGED <<queued, objects>>
       PROVE  PaidOK(r)'
  <2>1. \A f \in F \ G : r \notin batch[f]
    BY <1>11 DEF ClaimInv
  <2>2. /\ Places(r)' = Places(r)
        /\ Earlier(r)' \subseteq Earlier(r) \union {slab[f] : f \in G}
    BY <1>1, <1>11, <2>1, EndingKeepsPaid
  <2>3. IsFiniteSet(G)
    BY FS_Subset
  <2> QED BY <1>1, <1>11, <2>2, <2>3, PaidByFaults
<1>12. ASSUME NEW f \in Flusher, BookkeepingFails(f) PROVE PaidOK(r)'
  BY <1>11, <1>12, One DEF BookkeepingFails, device, network
<1>13. ASSUME NEW p \in Proc, Crash(p) PROVE PaidOK(r)'
  <2> DEFINE F == {f \in Flusher : ProcOf[f] = p}
             G == {f \in Flusher : ProcOf[f] = p /\ Active(f)}
  <2>1. F \in SUBSET Flusher /\ G \in SUBSET F /\ \A f \in F \ G : ~ Active(f)
    OBVIOUS
  <2>2. Fault(G) /\ Return(F) /\ UNCHANGED <<queued, objects>>
    BY <1>13 DEF Crash, device, network
  <2> HIDE DEF F, G
  <2> QED BY <1>11, <2>1, <2>2
<1> QED
  BY <1>2, <1>3, <1>4, <1>5, <1>6, <1>7, <1>8, <1>9, <1>10, <1>12, <1>13
     DEF Next, FlushStep

(* Nothing is pinned that was not accepted.                                 *)
LEMMA UnacceptedIsNowhere ==
  ASSUME DurableInv, [Next]_vars, NEW r \in Record, r \notin accepted', Places(r) = {}
  PROVE  Places(r)' = {}
<1>1. accepted \subseteq accepted'
  BY Growth
<1>2. \A f \in Flusher : r \notin batch[f]
  BY <1>1 DEF DurableInv, BatchOK
<1>3. CASE UNCHANGED objects
  BY <1>3 DEF Places
<1>4. ASSUME NEW f \in Flusher, NEW q \in Record, PinObject(f, q) PROVE Places(r)' = {}
  <2>1. objects' = objects \union {<<q, slab[f]>>} /\ q # r
    BY <1>2, <1>4 DEF PinObject
  <2> QED BY <2>1 DEF Places
<1>5. ASSUME NEW f \in Flusher, PutBatchFails(f) PROVE Places(r)' = {}
  <2>1. \E landed \in SUBSET batch[f] : objects' = objects \union (landed \X {slab[f]})
    BY <1>5 DEF PutBatchFails
  <2> QED BY <1>2, <2>1 DEF Places
<1> QED
  BY <1>3, <1>4, <1>5
     DEF time, Next, vars, FlushStep, device, network, call, history, Enqueue, Age, Claim,
         Upload, PinSlabs, Release, Catalogue, Track, Drop, BookkeepingFails, Crash

(* Until a flush outlives the claim timeout, no record is written more      *)
(* often than once and once for each fault, for any number of processes     *)
(* and records, as long as flushes in flight are finitely many.            *)
THEOREM RecordsArePaidOnce ==
  ASSUME IsFiniteSet(Flusher)
  PROVE  Spec => []PaidOnce
<1>1. Init => WasteInv /\ PaidInv
  <2>1. ASSUME Init PROVE /\ Wasted = {} /\ faults = 0 /\ queued = {}
                          /\ \A r \in Record : Places(r) = {}
    BY <2>1 DEF Init, Wasted, Places
  <2>2. IsFiniteSet({}) /\ Cardinality({}) = 0
    BY FS_EmptySet
  <2> QED BY <2>1, <2>2 DEF Init, WasteInv, PaidInv, PaidOK
<1>2. /\ DurableInv /\ WasteInv /\ [Next]_vars => WasteInv'
      /\ DurableInv /\ [Next]_vars => DurableInv'
  BY WasteStep, DurableInvStep
<1>3. DurableInv /\ ClaimInv /\ [Next]_vars => ClaimInv'
  BY ClaimInvStep, TypeStep DEF DurableInv
<1>4. DurableInv /\ ClaimInv /\ WasteInv /\ PaidInv /\ [Next]_vars => PaidInv'
  <2> SUFFICES ASSUME DurableInv, ClaimInv, WasteInv, PaidInv, [Next]_vars PROVE PaidInv'
    OBVIOUS
  <2>1. accepted \subseteq accepted'
    BY Growth
  <2>2. ASSUME NEW r \in Record \ accepted' PROVE Places(r)' = {}
    <3>1. r \in Record /\ r \notin accepted /\ r \notin accepted'
      BY <2>1, <2>2
    <3>2. Places(r) = {}
      BY <3>1 DEF PaidInv
    <3> QED BY <3>1, <3>2, UnacceptedIsNowhere
  <2>3. late \subseteq late'
    BY DEF time, Next, vars, FlushStep, device, network, call, history, Enqueue, Age, Claim,
           Upload, PinSlabs, PinObject, PutBatchFails, Release, Catalogue, Track, Drop,
           BookkeepingFails, Crash
  <2>4. ASSUME late' = {}, NEW r \in Record PROVE PaidOK(r)'
    <3>1. late = {}
      BY <2>3, <2>4
    <3>2. PaidOK(r) /\ (r \notin accepted => Places(r) = {})
      BY <3>1 DEF PaidInv, PaidOK
    <3> QED BY <1>2, <3>1, <3>2, PaidStep
  <2> QED BY <2>2, <2>4 DEF PaidInv, PaidOK
<1>5. PaidInv => PaidOnce
  BY DEF PaidInv, PaidOK, PaidOnce, Places
<1> QED BY <1>1, <1>2, <1>3, <1>4, <1>5, DurableInvInit, ClaimInvInit, PTL DEF Spec


-----------------------------------------------------------------------------
(* Every step of the composition is a step of the write path or leaves it   *)
(* alone.                                                                  *)
LEMMA WriteStep == [PNext]_pvars => [Next]_vars
<1> SUFFICES ASSUME [PNext]_pvars PROVE [Next]_vars
  OBVIOUS
<1>1. CASE UNCHANGED pvars
  BY <1>1 DEF pvars
<1>2. ASSUME NEW f \in Flusher, NEW r \in Record, AddEnqueue(f, r) PROVE [Next]_vars
  BY <1>2 DEF AddEnqueue, Next
<1>3. ASSUME NEW f \in Flusher, Tick(f) \/ ManualFlush(f) \/ AddBump(f) \/ FlushNothing(f)
                                \/ RefreshRead(f) \/ RefreshWrite(f) \/ RefreshFails(f)
      PROVE  [Next]_vars
  BY <1>3 DEF Tick, ManualFlush, AddBump, FlushNothing, RefreshRead, RefreshWrite, RefreshFails
<1>4. ASSUME NEW f \in Flusher, FlushClaim(f) \/ FlushDrop(f) PROVE [Next]_vars
  BY <1>4 DEF FlushClaim, FlushDrop, Next, FlushStep
<1>5. ASSUME NEW f \in Flusher, FlushWorks(f) PROVE [Next]_vars
  BY <1>5 DEF FlushWorks, Next, FlushStep
<1>6. ASSUME NEW f \in Flusher, FlushFails(f) PROVE [Next]_vars
  BY <1>6 DEF FlushFails, Next, FlushStep
<1>7. ASSUME NEW p \in Proc, Close(p) \/ Open(p) PROVE [Next]_vars
  BY <1>7 DEF Close, Open
<1>8. ASSUME NEW p \in Proc, Die(p) PROVE [Next]_vars
  BY <1>8 DEF Die, Next
<1>9. CASE ClaimsAge
  BY <1>9 DEF ClaimsAge, Next
<1> QED BY <1>1, <1>2, <1>3, <1>4, <1>5, <1>6, <1>7, <1>8, <1>9 DEF PNext, Work

(* The packer's actions are made of FlushQueue's, so that what is proved of *)
(* FlushQueue holds here.                                                  *)
LEMMA PackerFlushes == PSpec => Spec
<1>1. PInit => Init
  BY DEF PInit
<1> QED BY <1>1, WriteStep, PTL DEF PSpec, Spec

(* In particular no timer, count, close or restart loses a record.          *)
THEOREM NothingIsLostHere == PSpec => []NoLoss
BY PackerFlushes, NothingIsLost, PTL

-----------------------------------------------------------------------------
(* What the steps of a flush, once it has begun, do to queue and summary.   *)
LEMMA Flushing ==
  ASSUME NEW f \in Flusher, FlushClaim(f) \/ FlushWorks(f) \/ FlushFails(f) \/ FlushDrop(f)
  PROVE  /\ queued' \subseteq queued /\ accepted' = accepted
         /\ Running(f, "flush") \/ Running(f, "flushing")
         /\ task' = task \/ \E t \in {"flushing", "none", "refresh"} : Become(f, t)
         /\ UNCHANGED <<up, count, adding, snapshot, wrote, raced>>
<1>1. CASE FlushClaim(f)
  BY <1>1 DEF FlushClaim, Claim, history
<1>2. CASE FlushWorks(f)
  BY <1>2 DEF FlushWorks, packer, Upload, PinSlabs, PinObject, Catalogue, Track, PutBatchFails,
              device, history
<1>3. CASE FlushFails(f)
  BY <1>3 DEF FlushFails, Release, BookkeepingFails, device, history
<1>4. CASE FlushDrop(f)
  BY <1>4 DEF FlushDrop, Drop
<1> QED BY <1>1, <1>2, <1>3, <1>4

(* A count is enough for fewer records, and for one more when it is raised. *)
LEMMA Enough ==
  ASSUME NEW S, IsFiniteSet(S), NEW n \in Nat, Cardinality(S) <= n, NEW T
  PROVE  /\ T \subseteq S => Cardinality(T) <= n
         /\ \A r : T \subseteq S \union {r} => Cardinality(T) <= n + 1
<1>1. Cardinality(S) \in Nat
  BY FS_CardinalityType
<1>2. ASSUME T \subseteq S PROVE Cardinality(T) <= n
  <2>1. IsFiniteSet(T) /\ Cardinality(T) <= Cardinality(S)
    BY <1>2, FS_Subset
  <2>2. Cardinality(T) \in Nat
    BY <2>1, FS_CardinalityType
  <2> QED BY <1>1, <2>1, <2>2
<1>3. ASSUME NEW r, T \subseteq S \union {r} PROVE Cardinality(T) <= n + 1
  <2> DEFINE U == S \union {r}
  <2>1. IsFiniteSet(U) /\ Cardinality(U) <= Cardinality(S) + 1
    BY <1>1, FS_AddElement
  <2>2. T \in SUBSET U
    BY <1>3
  <2> HIDE DEF U
  <2>3. IsFiniteSet(T) /\ Cardinality(T) <= Cardinality(U)
    BY <2>1, <2>2, FS_Subset
  <2>4. Cardinality(T) \in Nat /\ Cardinality(U) \in Nat
    BY <2>1, <2>3, FS_CardinalityType
  <2> QED BY <1>1, <2>1, <2>3, <2>4
<1> QED BY <1>2, <1>3

LEMMA CountedIsFinite ==
  ASSUME CountInv, NEW p \in Proc
  PROVE  IsFiniteSet(Counted(p))
<1>1. Counted(p) \in SUBSET queued
  BY DEF Counted
<1> QED BY <1>1, FS_Subset DEF CountInv

(* A step that neither raises what is to be counted nor touches a count     *)
(* keeps CountInv, if it starts no refresh but one that read enough.        *)
LEMMA Uncounting ==
  ASSUME PTypeOK, CountInv, queued' \subseteq queued, accepted' = accepted,
         UNCHANGED <<up, count, adding, wrote, raced, snapshot>>,
         NEW f \in Flusher, NEW t \in Tasks \ {"bump", "publish"}, task[f] # "bump",
         ProcOf[f] \in up,
         task' = task \/ Become(f, t)
  PROVE  CountInv'
<1>1. IsFiniteSet(queued')
  BY FS_Subset DEF CountInv
<1>2. \A g \in Flusher : task'[g] = task[g] \/ (g = f /\ task'[g] = t)
  BY DEF Become, PTypeOK
<1>3. \A g \in Flusher :
        /\ IsFiniteSet(snapshot'[g])
        /\ IF task'[g] = "bump" THEN \E r \in Record : adding'[g] = {r} ELSE adding'[g] = {}
        /\ ProcOf[g] \notin up' => task'[g] = "none"
  BY <1>2 DEF CountInv
<1>4. ASSUME NEW p \in up \ raced
      PROVE  /\ Cardinality(Counted(p)') <= count'[p]
             /\ \A g \in Calls(p) : task'[g] = "publish" => Counted(p)' \subseteq snapshot'[g]
  <2>1. p \in Proc
    BY DEF PTypeOK
  <2>2. Counted(p)' \subseteq Counted(p)
    BY DEF Counted, Uncounted, Calls
  <2>3. count[p] \in Nat /\ Cardinality(Counted(p)) <= count[p]
    BY <2>1 DEF PTypeOK, CountInv
  <2>4. Cardinality(Counted(p)') <= count'[p]
    BY <2>1, <2>2, <2>3, CountedIsFinite, Enough
  <2>5. \A g \in Calls(p) : task'[g] = "publish" => Counted(p)' \subseteq snapshot'[g]
    BY <1>2, <2>2 DEF CountInv, Calls
  <2> QED BY <2>4, <2>5
<1>5. \A p \in Proc : wrote'[p] \subseteq accepted'
  BY DEF CountInv
<1> QED BY <1>1, <1>3, <1>4, <1>5 DEF CountInv, Calls

(* The process at rest or dying takes nothing with it that the others count.*)
LEMMA Ending ==
  ASSUME PTypeOK, CountInv, NEW p \in Proc, Ended(p), queued' = queued, accepted' = accepted
  PROVE  CountInv'
<1>1. \A f \in Flusher :
        IF f \in Calls(p)
        THEN task'[f] = "none" /\ adding'[f] = {} /\ snapshot'[f] = {}
        ELSE task'[f] = task[f] /\ adding'[f] = adding[f] /\ snapshot'[f] = snapshot[f]
  BY DEF Ended
<1>2. up' = up \ {p} /\ count' = count /\ wrote' = wrote /\ raced' = raced
  BY DEF Ended
<1>3. \A f \in Flusher :
        /\ IsFiniteSet(snapshot'[f])
        /\ IF task'[f] = "bump" THEN \E r \in Record : adding'[f] = {r} ELSE adding'[f] = {}
        /\ ProcOf[f] \notin up' => task'[f] = "none"
  <2> TAKE f \in Flusher
  <2>1. CASE f \in Calls(p)
    BY <1>1, <2>1, FS_EmptySet
  <2>2. CASE f \notin Calls(p)
    BY <1>1, <1>2, <2>2 DEF CountInv, Calls
  <2> QED BY <2>1, <2>2
<1>4. ASSUME NEW q \in up' \ raced'
      PROVE  /\ Cardinality(Counted(q)') <= count'[q]
             /\ \A g \in Calls(q) : task'[g] = "publish" => Counted(q)' \subseteq snapshot'[g]
  <2>1. q \in up \ raced /\ q # p
    BY <1>2
  <2>2. \A g \in Calls(q) : g \in Flusher /\ g \notin Calls(p)
    BY <2>1 DEF Calls
  <2>3. Uncounted(q)' = Uncounted(q)
    BY <1>1, <2>2 DEF Uncounted, Calls
  <2>4. Counted(q)' = Counted(q)
    BY <1>2, <2>3 DEF Counted
  <2> QED BY <1>1, <1>2, <2>1, <2>2, <2>4 DEF CountInv
<1> QED BY <1>2, <1>3, <1>4 DEF CountInv, Calls

(* The record is being added, hence not yet to be counted.                  *)
LEMMA Enqueuing ==
  ASSUME PTypeOK, CountInv, NEW f \in Flusher, NEW r \in Record, AddEnqueue(f, r)
  PROVE  CountInv'
<1> DEFINE p == ProcOf[f]
<1>1. /\ queued' = queued \union {r}
      /\ accepted' = accepted \union {r}
      /\ r \notin accepted
      /\ task' = [task EXCEPT ![f] = "bump"]
      /\ adding' = [adding EXCEPT ![f] = {r}]
      /\ wrote' = [wrote EXCEPT ![p] = @ \union {r}]
      /\ UNCHANGED <<up, count, snapshot, raced>>
      /\ p \in up
      /\ task[f] = "none"
  BY DEF AddEnqueue, Enqueue, Become, Running
<1>2. p \in Proc
  BY ProcOfAssumption
<1>3. /\ task'[f] = "bump" /\ adding'[f] = {r}
      /\ wrote'[p] = wrote[p] \union {r}
      /\ \A g \in Flusher : g # f => task'[g] = task[g] /\ adding'[g] = adding[g]
      /\ \A q \in Proc : q # p => wrote'[q] = wrote[q]
  BY <1>1, <1>2 DEF PTypeOK
<1> HIDE DEF p
<1>4. IsFiniteSet(queued')
  BY <1>1, FS_AddElement DEF CountInv
<1>5. \A q \in Proc : wrote'[q] \subseteq accepted'
  BY <1>1, <1>3 DEF CountInv
<1>6. \A g \in Flusher :
        /\ IsFiniteSet(snapshot'[g])
        /\ IF task'[g] = "bump" THEN \E s \in Record : adding'[g] = {s} ELSE adding'[g] = {}
        /\ ProcOf[g] \notin up' => task'[g] = "none"
  BY <1>1, <1>3 DEF CountInv, p
<1>7. ASSUME NEW q \in up \ raced
      PROVE  /\ Cardinality(Counted(q)') <= count'[q]
             /\ \A g \in Calls(q) : task'[g] = "publish" => Counted(q)' \subseteq snapshot'[g]
  <2>1. q \in Proc
    BY DEF PTypeOK
  <2>2. Uncounted(q) \subseteq Uncounted(q)'
    BY <1>1, <1>3 DEF Uncounted, Calls, CountInv
  <2>3. q = p => r \in Uncounted(q)'
    BY <1>3 DEF Uncounted, Calls, p
  <2>4. q # p => r \notin wrote'[q]
    BY <1>1, <1>3, <2>1 DEF CountInv
  <2>5. Counted(q)' \subseteq Counted(q)
    BY <1>1, <1>3, <2>1, <2>2, <2>3, <2>4 DEF Counted
  <2>6. count[q] \in Nat /\ Cardinality(Counted(q)) <= count[q]
    BY <2>1 DEF PTypeOK, CountInv
  <2>7. Cardinality(Counted(q)') <= count[q]
    BY <2>1, <2>5, <2>6, CountedIsFinite, Enough
  <2>8. \A g \in Calls(q) : task'[g] = "publish" => Counted(q)' \subseteq snapshot'[g]
    BY <1>1, <1>3, <2>5 DEF CountInv, Calls
  <2> QED BY <1>1, <2>7, <2>8
<1> QED BY <1>1, <1>4, <1>5, <1>6, <1>7 DEF CountInv, Calls

(* The record and the count go up together; a refresh that read too little  *)
(* to know of the record is what raced remembers.                          *)
LEMMA Bumping ==
  ASSUME PTypeOK, CountInv, NEW f \in Flusher, AddBump(f)
  PROVE  CountInv'
<1> DEFINE p == ProcOf[f]
<1>1. /\ task[f] = "bump" /\ p \in up
      /\ count' = [count EXCEPT ![p] = count[p] + 1]
      /\ \E t \in {"flush", "none"} : task' = [task EXCEPT ![f] = t]
      /\ adding' = [adding EXCEPT ![f] = {}]
      /\ UNCHANGED <<up, snapshot, wrote, queued, accepted>>
      /\ p \notin raced' => \A g \in Calls(p) : task[g] = "publish" => adding[f] \subseteq snapshot[g]
      /\ raced \subseteq raced'
  BY DEF AddBump, Running, Become, vars, device, history
<1>2. p \in Proc
  BY ProcOfAssumption
<1>3. /\ task'[f] \in {"flush", "none"} /\ adding'[f] = {}
      /\ count'[p] = count[p] + 1
      /\ \A g \in Flusher : g # f => task'[g] = task[g] /\ adding'[g] = adding[g]
      /\ \A q \in Proc : q # p => count'[q] = count[q]
  BY <1>1, <1>2 DEF PTypeOK
<1> HIDE DEF p
<1>4. PICK r \in Record : adding[f] = {r}
  BY <1>1 DEF CountInv
<1>5. \A g \in Flusher :
        /\ IsFiniteSet(snapshot'[g])
        /\ IF task'[g] = "bump" THEN \E s \in Record : adding'[g] = {s} ELSE adding'[g] = {}
        /\ ProcOf[g] \notin up' => task'[g] = "none"
  BY <1>1, <1>3 DEF CountInv, p
<1>6. ASSUME NEW q \in up' \ raced'
      PROVE  /\ Cardinality(Counted(q)') <= count'[q]
             /\ \A g \in Calls(q) : task'[g] = "publish" => Counted(q)' \subseteq snapshot'[g]
  <2>1. q \in Proc /\ q \in up \ raced
    BY <1>1 DEF PTypeOK
  <2>2. count[q] \in Nat /\ Cardinality(Counted(q)) <= count[q]
    BY <2>1 DEF PTypeOK, CountInv
  <2>3. CASE q = p
    <3>1. Uncounted(q) \subseteq Uncounted(q)' \union {r}
      BY <1>3, <1>4 DEF Uncounted, Calls
    <3>2. Counted(q)' \subseteq Counted(q) \union {r}
      BY <1>1, <3>1 DEF Counted
    <3>3. Cardinality(Counted(q)') <= count[q] + 1
      BY <2>1, <2>2, <3>2, CountedIsFinite, Enough
    <3>4. ASSUME NEW g \in Calls(q), task'[g] = "publish"
          PROVE  Counted(q)' \subseteq snapshot'[g]
      <4>1. g \in Flusher /\ g # f /\ task[g] = "publish"
        BY <1>3, <3>4 DEF Calls
      <4>2. Counted(q) \subseteq snapshot[g]
        BY <2>1, <4>1 DEF CountInv
      <4>3. r \in snapshot[g]
        BY <1>1, <1>4, <2>3, <4>1 DEF Calls
      <4> QED BY <1>1, <3>2, <4>2, <4>3
    <3> QED BY <1>3, <2>3, <3>3, <3>4 DEF Calls
  <2>4. CASE q # p
    <3>1. \A g \in Calls(q) : g \in Flusher /\ g # f
      BY <2>4 DEF Calls, p
    <3>2. Uncounted(q)' = Uncounted(q)
      BY <1>3, <3>1 DEF Uncounted, Calls
    <3>3. Counted(q)' = Counted(q)
      BY <1>1, <3>2 DEF Counted
    <3> QED BY <1>1, <1>3, <2>1, <2>4, <3>1, <3>3 DEF CountInv
  <2> QED BY <2>3, <2>4
<1>7. IsFiniteSet(queued') /\ \A q \in Proc : wrote'[q] \subseteq accepted'
  BY <1>1 DEF CountInv
<1> QED BY <1>1, <1>5, <1>6, <1>7 DEF CountInv, Calls

(* A refresh has read every queued record, and stores how many they were.   *)
LEMMA Refreshing ==
  ASSUME PTypeOK, CountInv, NEW f \in Flusher, RefreshRead(f) \/ RefreshWrite(f)
  PROVE  CountInv'
<1> DEFINE p == ProcOf[f]
<1>1. /\ p \in up /\ p \in Proc
      /\ UNCHANGED <<up, adding, wrote, raced, queued, accepted>>
  BY ProcOfAssumption DEF RefreshRead, RefreshWrite, Running, vars, device, history
<1>2. /\ snapshot'[f] \in {queued, {}}
      /\ task[f] # "bump" /\ task'[f] # "bump"
      /\ task'[f] = "publish" => snapshot'[f] = queued
      /\ \A g \in Flusher : g # f => task'[g] = task[g] /\ snapshot'[g] = snapshot[g]
      /\ \A q \in Proc : q # p => count'[q] = count[q]
      /\ count'[p] = count[p] \/ (task[f] = "publish" /\ count'[p] = Cardinality(snapshot[f]))
  BY <1>1 DEF PTypeOK, RefreshRead, RefreshWrite, Running, Become
<1> HIDE DEF p
<1>3. \A q \in Proc : Counted(q)' = Counted(q)
  BY <1>1 DEF Counted, Uncounted, Calls
<1>4. \A g \in Flusher :
        /\ IsFiniteSet(snapshot'[g])
        /\ IF task'[g] = "bump" THEN \E s \in Record : adding'[g] = {s} ELSE adding'[g] = {}
        /\ ProcOf[g] \notin up' => task'[g] = "none"
  <2> TAKE g \in Flusher
  <2>1. CASE g = f
    BY <1>1, <1>2, <2>1, FS_EmptySet DEF CountInv, p
  <2>2. CASE g # f
    BY <1>1, <1>2, <2>2 DEF CountInv
  <2> QED BY <2>1, <2>2
<1>5. ASSUME NEW q \in up \ raced
      PROVE  /\ Cardinality(Counted(q)') <= count'[q]
             /\ \A g \in Calls(q) : task'[g] = "publish" => Counted(q)' \subseteq snapshot'[g]
  <2>1. q \in Proc
    BY DEF PTypeOK
  <2>2. Cardinality(Counted(q)) <= count[q]
    BY DEF CountInv
  <2>3. ASSUME q = p, task[f] = "publish" PROVE Cardinality(Counted(q)) <= Cardinality(snapshot[f])
    <3>1. Counted(q) \in SUBSET snapshot[f] /\ IsFiniteSet(snapshot[f])
      BY <2>3 DEF CountInv, Calls, p
    <3> QED BY <3>1, FS_Subset
  <2>4. Cardinality(Counted(q)') <= count'[q]
    BY <1>2, <1>3, <2>1, <2>2, <2>3
  <2>5. ASSUME NEW g \in Calls(q), task'[g] = "publish" PROVE Counted(q) \subseteq snapshot'[g]
    <3>1. g \in Flusher
      BY DEF Calls
    <3>2. CASE g = f
      BY <1>2, <2>5, <3>2 DEF Counted
    <3>3. CASE g # f
      BY <1>2, <2>5, <3>1, <3>3 DEF CountInv
    <3> QED BY <3>2, <3>3
  <2>6. Counted(q)' = Counted(q)
    BY <1>3, <2>1
  <2> QED BY <2>4, <2>5, <2>6
<1>6. IsFiniteSet(queued') /\ \A q \in Proc : wrote'[q] \subseteq accepted'
  BY <1>1 DEF CountInv
<1> QED BY <1>1, <1>4, <1>5, <1>6 DEF CountInv, Calls

(* A process that opens counts the table as it is, and nothing of its       *)
(* predecessor is under way.                                               *)
LEMMA Opening ==
  ASSUME PTypeOK, CountInv, NEW p \in Proc, Open(p)
  PROVE  CountInv'
<1>1. /\ p \notin up /\ up' = up \union {p} /\ raced' = raced \ {p}
      /\ UNCHANGED <<task, adding, snapshot, wrote, queued, accepted>>
      /\ count' = [count EXCEPT ![p] = Cardinality(queued)]
  BY DEF Open, vars, device, history
<1>2. count'[p] = Cardinality(queued) /\ \A q \in Proc : q # p => count'[q] = count[q]
  BY <1>1 DEF PTypeOK
<1>3. \A q \in Proc : Counted(q)' = Counted(q)
  BY <1>1 DEF Counted, Uncounted, Calls
<1>4. ASSUME NEW q \in up' \ raced'
      PROVE  /\ Cardinality(Counted(q)') <= count'[q]
             /\ \A g \in Calls(q) : task'[g] = "publish" => Counted(q)' \subseteq snapshot'[g]
  <2>1. q \in Proc
    BY <1>1 DEF PTypeOK
  <2>2. CASE q = p
    <3>1. Counted(q) \in SUBSET queued
      BY DEF Counted
    <3>2. Cardinality(Counted(q)) <= Cardinality(queued)
      BY <3>1, FS_Subset DEF CountInv
    <3>3. \A g \in Calls(q) : task[g] = "none"
      BY <1>1, <2>2 DEF CountInv, Calls
    <3> QED BY <1>1, <1>2, <1>3, <2>1, <2>2, <3>2, <3>3
  <2>3. CASE q # p
    BY <1>1, <1>2, <1>3, <2>1, <2>3 DEF CountInv
  <2> QED BY <2>2, <2>3
<1>5. \A g \in Flusher :
        /\ IsFiniteSet(snapshot'[g])
        /\ IF task'[g] = "bump" THEN \E s \in Record : adding'[g] = {s} ELSE adding'[g] = {}
        /\ ProcOf[g] \notin up' => task'[g] = "none"
  BY <1>1 DEF CountInv
<1>6. IsFiniteSet(queued') /\ \A q \in Proc : wrote'[q] \subseteq accepted'
  BY <1>1 DEF CountInv
<1> QED BY <1>4, <1>5, <1>6 DEF CountInv, Calls

LEMMA CountInvStep == PTypeOK /\ CountInv /\ [PNext]_pvars => CountInv'
<1> SUFFICES ASSUME PTypeOK, CountInv, [PNext]_pvars PROVE CountInv'
  OBVIOUS
<1>1. CASE UNCHANGED <<queued, accepted, packer>>
  BY <1>1 DEF CountInv, Counted, Uncounted, Calls, packer
<1>2. CASE UNCHANGED pvars
  BY <1>1, <1>2 DEF pvars, vars, device, history
<1>3. CASE ClaimsAge
  BY <1>1, <1>3 DEF ClaimsAge, Age, history
<1>4. ASSUME NEW f \in Flusher,
             FlushClaim(f) \/ FlushWorks(f) \/ FlushFails(f) \/ FlushDrop(f)
      PROVE  CountInv'
  BY <1>4, Flushing, Uncounting DEF Running, Tasks, Become
<1>5. ASSUME NEW f \in Flusher, Tick(f) \/ ManualFlush(f) \/ FlushNothing(f) \/ RefreshFails(f)
      PROVE  CountInv'
  <2>1. /\ UNCHANGED <<queued, accepted, up, count, adding, snapshot, wrote, raced>>
        /\ ProcOf[f] \in up /\ task[f] # "bump"
        /\ Become(f, "flush") \/ Become(f, "none")
    BY <1>5 DEF Tick, ManualFlush, FlushNothing, RefreshFails, Running, vars, device, history
  <2> QED BY <2>1, Uncounting DEF Tasks
<1>6. ASSUME NEW p \in Proc, Close(p) \/ Die(p) PROVE CountInv'
  BY <1>6, Ending DEF Close, Die, Crash, vars, device, history
<1> QED BY <1>2, <1>3, <1>4, <1>5, <1>6, Enqueuing, Bumping, Refreshing, Opening DEF PNext, Work

-----------------------------------------------------------------------------
LEMMA PTypeStep == PTypeOK /\ TypeOK /\ CountInv /\ [PNext]_pvars => PTypeOK'
<1> SUFFICES ASSUME PTypeOK, TypeOK, CountInv, [PNext]_pvars PROVE PTypeOK'
  OBVIOUS
<1>1. queued \subseteq Record /\ Cardinality(queued) \in Nat
  BY FS_CardinalityType DEF TypeOK, CountInv
<1>2. \A f \in Flusher : ProcOf[f] \in Proc /\ Cardinality(snapshot[f]) \in Nat
  BY ProcOfAssumption, FS_CardinalityType DEF CountInv
<1>3. CASE UNCHANGED packer
  BY <1>3 DEF PTypeOK, packer
<1>4. ASSUME NEW f \in Flusher, NEW r \in Record, AddEnqueue(f, r) PROVE PTypeOK'
  BY <1>2, <1>4 DEF AddEnqueue, PTypeOK, Become, Tasks
<1>5. ASSUME NEW f \in Flusher, AddBump(f) PROVE PTypeOK'
  BY <1>2, <1>5 DEF AddBump, PTypeOK, Become, Tasks
<1>6. ASSUME NEW f \in Flusher, Tick(f) \/ ManualFlush(f) \/ FlushNothing(f) \/ RefreshFails(f)
      PROVE  PTypeOK'
  BY <1>6 DEF Tick, ManualFlush, FlushNothing, RefreshFails, PTypeOK, Become, Tasks
<1>7. ASSUME NEW f \in Flusher,
             FlushClaim(f) \/ FlushWorks(f) \/ FlushFails(f) \/ FlushDrop(f)
      PROVE  PTypeOK'
  BY <1>7, Flushing DEF PTypeOK, Become, Tasks
<1>8. ASSUME NEW f \in Flusher, RefreshRead(f) \/ RefreshWrite(f) PROVE PTypeOK'
  BY <1>1, <1>2, <1>8 DEF RefreshRead, RefreshWrite, PTypeOK, Become, Tasks
<1>9. ASSUME NEW p \in Proc, Close(p) \/ Die(p) PROVE PTypeOK'
  BY <1>9 DEF Close, Die, Ended, PTypeOK, Tasks
<1>10. ASSUME NEW p \in Proc, Open(p) PROVE PTypeOK'
  BY <1>1, <1>10 DEF Open, PTypeOK
<1> QED BY <1>3, <1>4, <1>5, <1>6, <1>7, <1>8, <1>9, <1>10
        DEF PNext, Work, ClaimsAge, pvars

LEMMA CountInvHolds == PSpec => [](PTypeOK /\ CountInv)
<1>1. PInit => PTypeOK /\ CountInv
  <2> SUFFICES ASSUME PInit PROVE PTypeOK /\ CountInv
    OBVIOUS
  <2>1. PTypeOK
    BY DEF PInit, PTypeOK, Tasks
  <2>2. /\ queued = {}
        /\ \A p \in Proc : Counted(p) = {} /\ count[p] = 0 /\ wrote[p] = {}
        /\ \A f \in Flusher : task[f] = "none" /\ adding[f] = {} /\ snapshot[f] = {}
    BY DEF PInit, Init, Counted
  <2>3. IsFiniteSet({}) /\ Cardinality({}) = 0
    BY FS_EmptySet
  <2>4. \A p \in Proc : wrote[p] \subseteq accepted
    BY <2>2
  <2>5. \A f \in Flusher :
          /\ IsFiniteSet(snapshot[f])
          /\ IF task[f] = "bump" THEN \E r \in Record : adding[f] = {r} ELSE adding[f] = {}
          /\ ProcOf[f] \notin up => task[f] = "none"
    BY <2>2, <2>3
  <2>6. ASSUME NEW p \in up \ raced
        PROVE  /\ Cardinality(Counted(p)) <= count[p]
               /\ \A f \in Calls(p) : task[f] = "publish" => Counted(p) \subseteq snapshot[f]
    <3>1. p \in Proc
      BY <2>1 DEF PTypeOK
    <3>2. Counted(p) = {} /\ count[p] = 0
      BY <2>2, <3>1
    <3> QED BY <2>3, <3>2
  <2>7. CountInv
    BY <2>2, <2>3, <2>4, <2>5, <2>6 DEF CountInv
  <2> QED BY <2>1, <2>7
<1>2. PSpec => []TypeOK
  BY PackerFlushes, TypeCorrect, PTL
<1>3. PTypeOK /\ CountInv /\ TypeOK /\ [PNext]_pvars => (PTypeOK /\ CountInv)'
  BY CountInvStep, PTypeStep
<1> QED BY <1>1, <1>2, <1>3, PTL DEF PSpec

(* Types: the packer's own state keeps its shape in every instance.         *)
THEOREM PackerTypeCorrect == PSpec => []PTypeOK
BY CountInvHolds, PTL

(* A process at rest counts at least what it queued and is still queued:    *)
(* for any number of processes, timers, callers and records, any record     *)
(* trigger, and any order of flushes, failures, closings and deaths, unless *)
(* a refresh of its own overlapped an Add.                                  *)
THEOREM OwnWritesCount == PSpec => []OwnWritesAreCounted
<1>1. PTypeOK /\ CountInv => OwnWritesAreCounted
  <2> SUFFICES ASSUME PTypeOK, CountInv, NEW p \in Proc \ raced, Quiet(p)
               PROVE  Cardinality(queued \intersect wrote[p]) <= count[p]
    BY DEF OwnWritesAreCounted
  <2>1. \A f \in Calls(p) : adding[f] = {}
    BY DEF Quiet, CountInv, Calls
  <2>2. Counted(p) = queued \intersect wrote[p]
    BY <2>1 DEF Counted, Uncounted
  <2> QED BY <2>2 DEF CountInv, Quiet
<1> QED BY <1>1, CountInvHolds, PTL
===============================================================================
