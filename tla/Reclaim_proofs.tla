---------------------------- MODULE Reclaim_proofs ----------------------------
(***************************************************************************)
(* What giving storage back may not do, for any devices, processes,        *)
(* records, slabs, commands and faults.                                    *)
(***************************************************************************)
EXTENDS Reclaim, TLAPS, FiniteSetTheorems

Place == Slab \union {NoSlab}

(* The types of one process's work, and of one device's files.              *)
LEMMA WorkTypes ==
  ASSUME TypeOK, NEW p \in Proc
  PROVE  /\ DeviceOf[p] \in Device
         /\ mem[p] \in [Record -> Place]
         /\ catalog[DeviceOf[p]] \in [Record -> Place]
         /\ ledger[DeviceOf[p]] \in [Slab -> Origins]
         /\ slab[p] \in Place
         /\ keep[p] \subseteq Object /\ held[p] \subseteq Object /\ todo[p] \subseteq Object
         /\ release[p] \subseteq Slab
BY DeviceAssumption DEF TypeOK, Place

(* A process that returns.                                                  *)
LEMMA Returned ==
  ASSUME TypeOK, NEW p \in Proc, Return(p)
  PROVE  /\ stage' \in [Proc -> Stages] /\ slab' \in [Proc -> Place]
         /\ keep' \in [Proc -> SUBSET Object] /\ held' \in [Proc -> SUBSET Object]
         /\ todo' \in [Proc -> SUBSET Object] /\ release' \in [Proc -> SUBSET Slab]
         /\ stage'[p] = "idle" /\ slab'[p] = NoSlab
         /\ keep'[p] = {} /\ held'[p] = {} /\ todo'[p] = {} /\ release'[p] = {}
         /\ \A q \in Proc \ {p} :
              /\ stage'[q] = stage[q] /\ slab'[q] = slab[q] /\ keep'[q] = keep[q]
              /\ held'[q] = held[q] /\ todo'[q] = todo[q] /\ release'[q] = release[q]
BY DEF Return, Goto, TypeOK, Stages, Place

(* An entry goes to the file and to the memory.                             *)
LEMMA Pointed ==
  ASSUME TypeOK, NEW p \in Proc, NEW r \in Record, NEW s \in Place, Point(p, r, s)
  PROVE  /\ catalog' \in [Device -> [Record -> Place]]
         /\ mem' \in [Proc -> [Record -> Place]]
         /\ \A q \in Proc \ {p} : mem'[q] = mem[q]
         /\ \A d \in Device \ {DeviceOf[p]} : catalog'[d] = catalog[d]
         /\ mem'[p] = [mem[p] EXCEPT ![r] = s]
         /\ catalog'[DeviceOf[p]] = [catalog[DeviceOf[p]] EXCEPT ![r] = s]
<1> DEFINE m == [mem[p] EXCEPT ![r] = s]
           d0 == DeviceOf[p]
           c == [catalog[d0] EXCEPT ![r] = s]
<1>1. mem' = [mem EXCEPT ![p] = m] /\ catalog' = [catalog EXCEPT ![d0] = c]
  BY DEF Point
<1>2. m \in [Record -> Place] /\ c \in [Record -> Place] /\ d0 \in Device
  BY WorkTypes
<1> HIDE DEF m, c, d0
<1>3. /\ mem' \in [Proc -> [Record -> Place]] /\ mem'[p] = m
      /\ \A q \in Proc \ {p} : mem'[q] = mem[q]
  BY <1>1, <1>2 DEF TypeOK, Place
<1>4. /\ catalog' \in [Device -> [Record -> Place]] /\ catalog'[d0] = c
      /\ \A d \in Device \ {d0} : catalog'[d] = catalog[d]
  BY <1>1, <1>2 DEF TypeOK, Place
<1> QED BY <1>3, <1>4 DEF m, c, d0

(* A slab is filed.                                                         *)
LEMMA FiledAs ==
  ASSUME TypeOK, NEW p \in Proc, NEW s \in Place, NEW origin \in Origins, File(p, s, origin)
  PROVE  /\ ledger' \in [Device -> [Slab -> Origins]]
         /\ \A d \in Device \ {DeviceOf[p]} : ledger'[d] = ledger[d]
         /\ \A t \in Slab \ {s} : ledger'[DeviceOf[p]][t] = ledger[DeviceOf[p]][t]
         /\ s \in Slab => ledger'[DeviceOf[p]][s] = IF Pinned(p, s) THEN "pinned" ELSE origin
<1> DEFINE d0 == DeviceOf[p]
           l == [ledger[d0] EXCEPT ![s] = IF @ = "pinned" THEN @ ELSE origin]
<1>1. ledger' = [ledger EXCEPT ![d0] = l]
  BY DEF File
<1>2. /\ l \in [Slab -> Origins] /\ d0 \in Device
      /\ \A t \in Slab \ {s} : l[t] = ledger[d0][t]
      /\ s \in Slab => l[s] = IF Pinned(p, s) THEN "pinned" ELSE origin
  BY WorkTypes DEF Pinned, MyLedger, Origins
<1> HIDE DEF l, d0
<1>3. /\ ledger' \in [Device -> [Slab -> Origins]] /\ ledger'[d0] = l
      /\ \A d \in Device \ {d0} : ledger'[d] = ledger[d]
  BY <1>1, <1>2 DEF TypeOK
<1> QED BY <1>2, <1>3 DEF d0

(* A slab leaves a ledger.                                                  *)
LEMMA Unlisted ==
  ASSUME TypeOK, NEW p \in Proc, ForgetSlab(p)
  PROVE  /\ ledger' \in [Device -> [Slab -> Origins]]
         /\ \A d \in Device \ {DeviceOf[p]} : ledger'[d] = ledger[d]
         /\ \A t \in Slab \ {slab[p]} : ledger'[DeviceOf[p]][t] = ledger[DeviceOf[p]][t]
         /\ slab[p] \in Slab => ledger'[DeviceOf[p]][slab[p]] = "none"
<1> DEFINE d0 == DeviceOf[p]
           l == [ledger[d0] EXCEPT ![slab[p]] = "none"]
<1>1. ledger' = [ledger EXCEPT ![d0] = l]
  BY DEF ForgetSlab
<1>2. /\ l \in [Slab -> Origins] /\ d0 \in Device
      /\ \A t \in Slab \ {slab[p]} : l[t] = ledger[d0][t]
      /\ slab[p] \in Slab => l[slab[p]] = "none"
  BY WorkTypes DEF Origins
<1> HIDE DEF l, d0
<1>3. /\ ledger' \in [Device -> [Slab -> Origins]] /\ ledger'[d0] = l
      /\ \A d \in Device \ {d0} : ledger'[d] = ledger[d]
  BY <1>1, <1>2 DEF TypeOK
<1> QED BY <1>2, <1>3 DEF d0

-----------------------------------------------------------------------------
(* What a step of p leaves alone: the work and the memory of the others,    *)
(* and the files of other devices.                                         *)
Frame(p) ==
  /\ \A q \in Proc \ {p} :
       /\ stage'[q] = stage[q] /\ slab'[q] = slab[q] /\ keep'[q] = keep[q]
       /\ held'[q] = held[q] /\ todo'[q] = todo[q] /\ release'[q] = release[q]
       /\ mem'[q] = mem[q]
  /\ \A d \in Device \ {DeviceOf[p]} : catalog'[d] = catalog[d] /\ ledger'[d] = ledger[d]

(* A slab nobody has had is written.                                        *)
LEMMA WroteTyped ==
  ASSUME TypeOK, NEW p \in Proc, NEW R \in SUBSET Record, WriteSlab(p, R)
  PROVE  \E s \in Slab \ spent :
         /\ spent' = spent \union {s} /\ slabs' = slabs \union {s}
         /\ slab' \in [Proc -> Place] /\ keep' \in [Proc -> SUBSET Object]
         /\ todo' \in [Proc -> SUBSET Object] /\ stage' \in [Proc -> Stages]
         /\ slab'[p] = s /\ keep'[p] = R \X {s} /\ todo'[p] = R \X {s} /\ stage'[p] = "pin"
         /\ \A q \in Proc \ {p} : /\ slab'[q] = slab[q] /\ keep'[q] = keep[q]
                                  /\ todo'[q] = todo[q] /\ stage'[q] = stage[q]
<1>1. PICK s \in Slab \ spent :
        /\ spent' = spent \union {s} /\ slabs' = slabs \union {s}
        /\ slab' = [slab EXCEPT ![p] = s]
        /\ keep' = [keep EXCEPT ![p] = R \X {s}]
        /\ todo' = [todo EXCEPT ![p] = R \X {s}]
        /\ stage' = [stage EXCEPT ![p] = "pin"]
  BY DEF WriteSlab, Goto
<1> DEFINE K == R \X {s}
<1>2. K \in SUBSET Object
  BY DEF Object
<1>3. keep' = [keep EXCEPT ![p] = K] /\ todo' = [todo EXCEPT ![p] = K]
  BY <1>1
<1> HIDE DEF K
<1>4. /\ keep' \in [Proc -> SUBSET Object] /\ todo' \in [Proc -> SUBSET Object]
      /\ keep'[p] = K /\ todo'[p] = K
      /\ \A q \in Proc \ {p} : keep'[q] = keep[q] /\ todo'[q] = todo[q]
  BY <1>2, <1>3 DEF TypeOK
<1>5. /\ slab' \in [Proc -> Place] /\ stage' \in [Proc -> Stages]
      /\ slab'[p] = s /\ stage'[p] = "pin"
      /\ \A q \in Proc \ {p} : slab'[q] = slab[q] /\ stage'[q] = stage[q]
  BY <1>1 DEF TypeOK, Place, Stages
<1> QED BY <1>1, <1>4, <1>5 DEF K

-----------------------------------------------------------------------------
(* Every variable keeps its type.                                           *)
LEMMA InitTyped == Init => TypeOK
BY BoundAssumption DEF Init, TypeOK, Origins, Stages

LEMMA StepTyped == TypeOK /\ [Next]_vars => TypeOK'
<1> SUFFICES ASSUME TypeOK, [Next]_vars PROVE TypeOK'
  OBVIOUS
<1> USE DEF Place
<1>0. CASE UNCHANGED vars
  BY <1>0 DEF vars, network, device, work, history, TypeOK
<1> SUFFICES ASSUME NEW p \in Proc, Start(p) \/ Continue(p) \/ Fail(p) PROVE TypeOK'
  BY <1>0 DEF Next
<1>a. ASSUME Flush(p) PROVE TypeOK'
  <2>1. PICK R \in SUBSET Record : WriteSlab(p, R)
    BY <1>a DEF Flush
  <2>2. slabs' \subseteq Slab /\ spent' \subseteq Slab
    BY <2>1, WroteTyped DEF TypeOK
  <2>3. /\ slab' \in [Proc -> Place] /\ keep' \in [Proc -> SUBSET Object]
        /\ todo' \in [Proc -> SUBSET Object] /\ stage' \in [Proc -> Stages]
    BY <2>1, WroteTyped
  <2> QED BY <1>a, <2>2, <2>3 DEF Flush, TypeOK, device, history
<1>b. ASSUME Repack(p) PROVE TypeOK'
  <2>1. PICK known \in Opened(p) : 
          /\ mem' = [mem EXCEPT ![p] = known]
          /\ held' = [held EXCEPT ![p] = Entries(known)]
          /\ WriteSlab(p, {o[1] : o \in Entries(known)})
          /\ UNCHANGED <<objects, device, release, history>>
    BY <1>b DEF Repack
  <2>2. /\ known \in [Record -> Place] /\ Entries(known) \in SUBSET Object
        /\ {o[1] : o \in Entries(known)} \in SUBSET Record
    BY <2>1, WorkTypes DEF Opened, Entries, Object
  <2> HIDE DEF Entries
  <2>3. slabs' \subseteq Slab /\ spent' \subseteq Slab
    BY <2>1, <2>2, WroteTyped DEF TypeOK
  <2>4. /\ slab' \in [Proc -> Place] /\ keep' \in [Proc -> SUBSET Object]
        /\ todo' \in [Proc -> SUBSET Object] /\ stage' \in [Proc -> Stages]
    BY <2>1, <2>2, WroteTyped
  <2>5. mem' \in [Proc -> [Record -> Place]] /\ held' \in [Proc -> SUBSET Object]
    BY <2>1, <2>2 DEF TypeOK
  <2> QED BY <2>1, <2>3, <2>4, <2>5 DEF TypeOK, device, history
<1>c. ASSUME NEW r \in Record, Forget(p, r) PROVE TypeOK'
  <2>1. PICK known \in Opened(p) : mem' = [mem EXCEPT ![p] = [known EXCEPT ![r] = NoSlab]]
    BY <1>c DEF Forget
  <2> DEFINE m == [known EXCEPT ![r] = NoSlab]
             c == [catalog[DeviceOf[p]] EXCEPT ![r] = NoSlab]
  <2>2. m \in [Record -> Place] /\ c \in [Record -> Place] /\ DeviceOf[p] \in Device
    BY <2>1, WorkTypes DEF Opened
  <2>3. mem' = [mem EXCEPT ![p] = m] /\ catalog' = [catalog EXCEPT ![DeviceOf[p]] = c]
    BY <2>1, <1>c DEF Forget
  <2> HIDE DEF m, c
  <2>4. mem' \in [Proc -> [Record -> Place]] /\ catalog' \in [Device -> [Record -> Place]]
    BY <2>2, <2>3 DEF TypeOK
  <2> QED BY <1>c, <2>4 DEF Forget, TypeOK, network, work, history
<1>d. ASSUME NEW all \in BOOLEAN, Reclaim(p, all) PROVE TypeOK'
  <2>1. PICK known \in Opened(p) :
          /\ mem' = [mem EXCEPT ![p] = known]
          /\ keep' = [keep EXCEPT ![p] = Entries(known)]
          /\ release' = [release EXCEPT ![p] = Releasable(p)]
    BY <1>d DEF Reclaim
  <2>2. /\ known \in [Record -> Place] /\ Entries(known) \in SUBSET Object
        /\ Releasable(p) \in SUBSET Slab
    BY <2>1, WorkTypes DEF Opened, Entries, Object, Releasable
  <2>3. /\ mem' \in [Proc -> [Record -> Place]] /\ keep' \in [Proc -> SUBSET Object]
        /\ release' \in [Proc -> SUBSET Slab]
    BY <2>1, <2>2 DEF TypeOK
  <2> QED BY <1>d, <2>3 DEF Reclaim, TypeOK, network, device, history, Goto, Stages
<1>e. ASSUME ListPinned(p) PROVE TypeOK'
  <2>1. slabs \in SUBSET Slab
    BY DEF TypeOK
  <2>2. release' \in [Proc -> SUBSET Slab] /\ stage' \in [Proc -> Stages]
    BY <1>e, <2>1 DEF ListPinned, TypeOK, Goto, Stages
  <2> QED BY <1>e, <2>2 DEF ListPinned, TypeOK, network, device, history
<1>f. ASSUME DropUnreadable(p) PROVE TypeOK'
  <2>1. {o \in objects : ~ Readable(o)} \in SUBSET Object
    BY DEF TypeOK
  <2>2. todo' \in [Proc -> SUBSET Object] /\ stage' \in [Proc -> Stages]
    BY <1>f, <2>1 DEF DropUnreadable, TypeOK, Goto, Stages
  <2> QED BY <1>f, <2>2 DEF DropUnreadable, TypeOK, network, device, history
<1>g. ASSUME TakeOwnership(p) PROVE TypeOK'
  <2> DEFINE d0 == DeviceOf[p]
             l == [s \in Slab |-> IF ledger[d0][s] = "hydrated" THEN "pinned" ELSE ledger[d0][s]]
  <2>1. ledger' = [ledger EXCEPT ![d0] = l]
    BY <1>g DEF TakeOwnership
  <2>2. l \in [Slab -> Origins] /\ d0 \in Device
    BY WorkTypes DEF Origins
  <2> HIDE DEF l
  <2>3. ledger' \in [Device -> [Slab -> Origins]] /\ seized' \subseteq Device
    BY <1>g, <2>1, <2>2 DEF TypeOK, TakeOwnership
  <2> QED BY <1>g, <2>3 DEF TakeOwnership, TypeOK, network, work
<1>h. ASSUME NEW how \in {"hydrate", "recover"}, Restore(p, how) PROVE TypeOK'
  <2>1. {o \in objects : Readable(o)} \in SUBSET Object /\ DeviceOf[p] \in Device
    BY WorkTypes DEF TypeOK
  <2>2. /\ todo' \in [Proc -> SUBSET Object] /\ stage' \in [Proc -> Stages]
        /\ seized' \subseteq Device
    BY <1>h, <2>1 DEF Restore, TypeOK, Goto, Stages
  <2> QED BY <1>h, <2>2 DEF Restore, TypeOK, network, device
<1>i. ASSUME NEW o \in Object, PinObject(p, o) PROVE TypeOK'
  <2>1. keep[p] \in SUBSET Object /\ todo[p] \ {o} \in SUBSET Object
    BY WorkTypes
  <2>2. /\ todo' \in [Proc -> SUBSET Object] /\ stage' \in [Proc -> Stages]
        /\ objects' \subseteq Object
    BY <1>i, <2>1 DEF PinObject, TypeOK, Goto, Stages
  <2> QED BY <1>i, <2>2 DEF PinObject, TypeOK, device, history
<1>j. ASSUME NEW o \in Object, Catalogue(p, o) PROVE TypeOK'
  <2>1. o[1] \in Record /\ o[2] \in Slab /\ o[2] \in Place
    BY DEF Object
  <2>2. Point(p, o[1], o[2]) /\ written' \subseteq Record
    BY <1>j, <2>1 DEF Catalogue, TypeOK
  <2>3. catalog' \in [Device -> [Record -> Place]] /\ mem' \in [Proc -> [Record -> Place]]
    BY <2>1, <2>2, Pointed
  <2> DEFINE S == SlabsOf(held[p]) \ {slab[p]}
  <2>4. S \in SUBSET Slab /\ held[p] \in SUBSET Object /\ todo[p] \ {o} \in SUBSET Object
    BY WorkTypes DEF SlabsOf, Object
  <2>5. /\ release' = [release EXCEPT ![p] = S] /\ moved' = moved \union release'[p]
        \/ UNCHANGED <<release, moved>>
    BY <1>j DEF Catalogue
  <2> HIDE DEF S
  <2>6. release' \in [Proc -> SUBSET Slab] /\ moved' \subseteq Slab
    BY <2>4, <2>5 DEF TypeOK
  <2> DEFINE rest == todo[p] \ {o}
  <2>7. \/ todo' = [todo EXCEPT ![p] = held[p]]
        \/ todo' = [todo EXCEPT ![p] = rest]
    BY <1>j DEF Catalogue
  <2>8. stage' \in [Proc -> Stages]
    BY <1>j DEF Catalogue, TypeOK, Goto, Stages
  <2>9. rest \in SUBSET Object
    BY <2>4
  <2> HIDE DEF rest
  <2>10. todo' \in [Proc -> SUBSET Object]
    BY <2>4, <2>7, <2>9 DEF TypeOK
  <2>11. slabs' = slabs /\ objects' = objects /\ spent' = spent /\ UNCHANGED <<ledger, slab, keep, held, seized, faults>>
    BY <1>j DEF Catalogue, network
  <2> QED BY <2>2, <2>3, <2>6, <2>8, <2>10, <2>11 DEF TypeOK
<1>k. ASSUME NEW o \in Object, DeleteObject(p, o) PROVE TypeOK'
  <2>1. todo[p] \ {o} \in SUBSET Object
    BY WorkTypes
  <2>2. todo' \in [Proc -> SUBSET Object] /\ objects' \subseteq Object
    BY <1>k, <2>1 DEF DeleteObject, TypeOK
  <2> QED BY <1>k, <2>2 DEF DeleteObject, TypeOK, device, history
<1>l. ASSUME NEW o \in Object, RestoreObject(p, o) PROVE TypeOK'
  <2>1. o[1] \in Record /\ o[2] \in Slab /\ o[2] \in Place /\ todo[p] \ {o} \in SUBSET Object
    BY WorkTypes DEF Object
  <2>2. catalog' \in [Device -> [Record -> Place]] /\ mem' \in [Proc -> [Record -> Place]]
    BY <1>l, <2>1, Pointed DEF RestoreObject
  <2> DEFINE how == IF stage[p] = "hydrate" THEN "hydrated" ELSE "pinned"
  <2>3. how \in Origins /\ File(p, o[2], how)
    BY <1>l DEF RestoreObject, Origins
  <2> HIDE DEF how
  <2>4. ledger' \in [Device -> [Slab -> Origins]]
    BY <2>1, <2>3, FiledAs
  <2>5. todo' \in [Proc -> SUBSET Object]
    BY <1>l, <2>1 DEF RestoreObject, TypeOK
  <2> QED BY <1>l, <2>2, <2>4, <2>5 DEF RestoreObject, TypeOK, network, history
<1>m. ASSUME NEW s \in Slab, UnpinSlab(p, s) PROVE TypeOK'
  <2>1. release[p] \ {s} \in SUBSET Slab
    BY WorkTypes
  <2>2. /\ release' \in [Proc -> SUBSET Slab] /\ slab' \in [Proc -> Place]
        /\ slabs' \subseteq Slab /\ stage' \in [Proc -> Stages]
    BY <1>m, <2>1 DEF UnpinSlab, TypeOK, Goto, Stages
  <2> QED BY <1>m, <2>2 DEF UnpinSlab, TypeOK, device, history
<1>n. ASSUME NEW all \in BOOLEAN, ListOccupied(p, all) PROVE TypeOK'
  <2>1. CASE Return(p)
    BY <1>n, <2>1, Returned DEF ListOccupied, TypeOK, network, device, history
  <2>2. CASE ~ Return(p)
    <3> DEFINE S == release[p] \ SlabsOf({o \in objects : Readable(o)})
    <3>1. S \in SUBSET Slab
      BY WorkTypes
    <3>2. release' = [release EXCEPT ![p] = S]
      BY <1>n, <2>2 DEF ListOccupied
    <3> HIDE DEF S
    <3>3. release' \in [Proc -> SUBSET Slab]
      BY <3>1, <3>2 DEF TypeOK
    <3>4. stage' \in [Proc -> Stages] /\ UNCHANGED <<slab, keep, held, todo>>
      BY <1>n, <2>2 DEF ListOccupied, TypeOK, Goto, Stages
    <3> QED BY <1>n, <3>3, <3>4 DEF ListOccupied, TypeOK, network, device, history
  <2> QED BY <2>1, <2>2
<1>o. ASSUME Track(p) PROVE TypeOK'
  <2>1. slab[p] \in Place /\ "pinned" \in Origins
    BY WorkTypes DEF Origins
  <2>2. ledger' \in [Device -> [Slab -> Origins]]
    BY <1>o, <2>1, FiledAs DEF Track
  <2>3. /\ stage' \in [Proc -> Stages] /\ slab' \in [Proc -> Place]
        /\ keep' \in [Proc -> SUBSET Object] /\ held' \in [Proc -> SUBSET Object]
        /\ todo' \in [Proc -> SUBSET Object] /\ release' \in [Proc -> SUBSET Slab]
    <3>1. CASE Return(p)
      BY <3>1, Returned
    <3>2. CASE ~ Return(p)
      BY <1>o, <3>2 DEF Track, TypeOK, Goto, Stages, work
    <3> QED BY <3>1, <3>2
  <2> QED BY <1>o, <2>2, <2>3 DEF Track, TypeOK, network, history
<1>q. ASSUME PlanSweep(p) PROVE TypeOK'
  <2> DEFINE K == {o \in objects : Readable(o) /\ o[2] \in release[p] /\ o \notin keep[p]}
             S == release[p] \ SlabsOf(keep[p])
  <2>1. K \in SUBSET Object /\ S \in SUBSET Slab
    BY WorkTypes DEF TypeOK
  <2>2. todo' = [todo EXCEPT ![p] = K] /\ release' = [release EXCEPT ![p] = S]
    BY <1>q DEF PlanSweep
  <2> HIDE DEF K, S
  <2>3. /\ todo' \in [Proc -> SUBSET Object] /\ release' \in [Proc -> SUBSET Slab]
    BY <2>1, <2>2 DEF TypeOK
  <2>4. stage' \in [Proc -> Stages]
    BY <1>q DEF PlanSweep, TypeOK, Goto, Stages
  <2> QED BY <1>q, <2>3, <2>4 DEF PlanSweep, TypeOK, network, device, history
<1>r. ASSUME ForgetSlab(p) PROVE TypeOK'
  <2>1. ledger' \in [Device -> [Slab -> Origins]]
    BY <1>r, Unlisted
  <2>2. slab' \in [Proc -> Place] /\ stage' \in [Proc -> Stages]
    BY <1>r DEF ForgetSlab, TypeOK, Goto, Stages
  <2> QED BY <1>r, <2>1, <2>2 DEF ForgetSlab, TypeOK, network, history
<1>s. ASSUME Retired(p) PROVE TypeOK'
  BY <1>s, Returned DEF Retired, TypeOK, network, device, history
<1>t. ASSUME Restored(p) PROVE TypeOK'
  BY <1>t, Returned DEF Restored, TypeOK, network, device, history
<1>u. ASSUME Fail(p) PROVE TypeOK'
  <2>1. faults' \in 0..MaxFaults
    BY <1>u, BoundAssumption DEF Fail, TypeOK
  <2>2. catalog' \in [Device -> [Record -> Place]] /\ mem' \in [Proc -> [Record -> Place]]
    <3>1. CASE UNCHANGED <<catalog, mem>>
      BY <3>1 DEF TypeOK
    <3>2. CASE \E o \in todo[p] : Point(p, o[1], o[2])
      <4>1. PICK o \in todo[p] : Point(p, o[1], o[2])
        BY <3>2
      <4>2. o[1] \in Record /\ o[2] \in Place
        BY WorkTypes DEF Object
      <4> QED BY <4>1, <4>2, Pointed
    <3> QED BY <1>u, <3>1, <3>2 DEF Fail
  <2> QED BY <1>u, <2>1, <2>2, Returned DEF Fail, TypeOK, network
<1> QED BY <1>a, <1>b, <1>c, <1>d, <1>e, <1>f, <1>g, <1>h, <1>i, <1>j, <1>k, <1>l, <1>m, <1>n,
           <1>o, <1>q, <1>r, <1>s, <1>t, <1>u DEF Start, Continue

(* Every variable keeps its type.                                           *)
THEOREM TypeCorrect == Spec => []TypeOK
BY InitTyped, StepTyped, PTL DEF Spec

-----------------------------------------------------------------------------
(* What each step does, said of the one process that takes it.              *)
Idle(p) ==
  /\ stage'[p] = "idle" /\ slab'[p] = NoSlab
  /\ keep'[p] = {} /\ held'[p] = {} /\ todo'[p] = {} /\ release'[p] = {}

Wrote(p, R, s) ==
  /\ s \notin spent /\ spent' = spent \union {s} /\ slabs' = slabs \union {s}
  /\ stage'[p] = "pin" /\ slab'[p] = s /\ keep'[p] = R \X {s} /\ todo'[p] = R \X {s}

LEMMA FlushDoes ==
  ASSUME TypeOK, NEW p \in Proc, Flush(p)
  PROVE  \E R \in SUBSET Record, s \in Slab :
         /\ stage[p] = "idle" /\ Wrote(p, R, s) /\ Frame(p)
         /\ \A r \in R : Home[r] = DeviceOf[p] /\ r \notin written
         /\ held'[p] = held[p] /\ release'[p] = release[p] /\ mem'[p] = mem[p]
         /\ UNCHANGED <<objects, catalog, ledger, written, moved, seized, faults>>
<1>1. PICK R \in SUBSET Record :
        /\ WriteSlab(p, R)
        /\ \A r \in R : Home[r] = DeviceOf[p] /\ r \notin written
  BY DEF Flush
<1>2. PICK s \in Slab \ spent :
        /\ Wrote(p, R, s)
        /\ \A q \in Proc \ {p} : /\ slab'[q] = slab[q] /\ keep'[q] = keep[q]
                                 /\ todo'[q] = todo[q] /\ stage'[q] = stage[q]
  BY <1>1, WroteTyped DEF Wrote
<1>3. /\ stage[p] = "idle"
      /\ UNCHANGED <<objects, catalog, ledger, mem, held, release, written, moved, seized, faults>>
  BY DEF Flush, May, device, history
<1> QED BY <1>1, <1>2, <1>3 DEF Frame

LEMMA RepackDoes ==
  ASSUME TypeOK, NEW p \in Proc, Repack(p)
  PROVE  \E known \in {mem[p], catalog[DeviceOf[p]]}, R \in SUBSET Record, s \in Slab :
         /\ stage[p] = "idle" /\ Wrote(p, R, s) /\ Frame(p)
         /\ R = {o[1] : o \in Entries(known)}
         /\ \A o \in Entries(known) : Readable(o) /\ Pinned(p, o[2])
         /\ held'[p] = Entries(known) /\ mem'[p] = known /\ release'[p] = release[p]
         /\ UNCHANGED <<objects, catalog, ledger, written, moved, seized, faults>>
<1>1. PICK known \in Opened(p) :
        /\ mem' = [mem EXCEPT ![p] = known]
        /\ held' = [held EXCEPT ![p] = Entries(known)]
        /\ WriteSlab(p, {o[1] : o \in Entries(known)})
        /\ \A o \in Entries(known) : Readable(o)
        /\ SlabsOf(Entries(known)) \subseteq Releasable(p)
        /\ UNCHANGED <<objects, device, release, history>>
  BY DEF Repack
<1> DEFINE R == {o[1] : o \in Entries(known)}
<1>2. R \in SUBSET Record /\ \A o \in Entries(known) : Readable(o) /\ Pinned(p, o[2])
  BY <1>1 DEF Entries, Object, SlabsOf, Releasable, Pinned
<1>3. WriteSlab(p, R)
  BY <1>1
<1> HIDE DEF R
<1>4. PICK s \in Slab \ spent :
        /\ Wrote(p, R, s)
        /\ \A q \in Proc \ {p} : /\ slab'[q] = slab[q] /\ keep'[q] = keep[q]
                                 /\ todo'[q] = todo[q] /\ stage'[q] = stage[q]
  BY <1>2, <1>3, WroteTyped DEF Wrote
<1>5. /\ mem'[p] = known /\ held'[p] = Entries(known) /\ known \in {mem[p], catalog[DeviceOf[p]]}
      /\ \A q \in Proc \ {p} : mem'[q] = mem[q] /\ held'[q] = held[q]
  BY <1>1 DEF TypeOK, Opened
<1>6. /\ stage[p] = "idle"
      /\ UNCHANGED <<objects, catalog, ledger, release, written, moved, seized, faults>>
  BY <1>1 DEF Repack, Command, May, device, history
<1> QED BY <1>2, <1>4, <1>5, <1>6 DEF Frame, R

LEMMA ForgetDoes ==
  ASSUME TypeOK, NEW p \in Proc, NEW r \in Record, Forget(p, r)
  PROVE  /\ Frame(p) /\ UNCHANGED <<network, ledger, stage, work, history>>
         /\ catalog'[DeviceOf[p]] = [catalog[DeviceOf[p]] EXCEPT ![r] = NoSlab]
         /\ \E known \in {mem[p], catalog[DeviceOf[p]]} : mem'[p] = [known EXCEPT ![r] = NoSlab]
<1>1. PICK known \in Opened(p) : mem' = [mem EXCEPT ![p] = [known EXCEPT ![r] = NoSlab]]
  BY DEF Forget
<1> DEFINE m == [known EXCEPT ![r] = NoSlab]
           c == [catalog[DeviceOf[p]] EXCEPT ![r] = NoSlab]
<1>2. /\ mem' = [mem EXCEPT ![p] = m] /\ catalog' = [catalog EXCEPT ![DeviceOf[p]] = c]
      /\ DeviceOf[p] \in Device /\ known \in {mem[p], catalog[DeviceOf[p]]}
  BY <1>1, WorkTypes DEF Forget, Opened
<1> HIDE DEF m, c
<1>3. /\ mem'[p] = m /\ \A q \in Proc \ {p} : mem'[q] = mem[q]
      /\ catalog'[DeviceOf[p]] = c /\ \A d \in Device \ {DeviceOf[p]} : catalog'[d] = catalog[d]
  BY <1>2 DEF TypeOK
<1>4. UNCHANGED <<network, ledger, stage, work, history>>
  BY DEF Forget
<1> QED BY <1>2, <1>3, <1>4 DEF Frame, work, m, c

LEMMA ReclaimDoes ==
  ASSUME TypeOK, NEW p \in Proc, NEW all \in BOOLEAN, Reclaim(p, all)
  PROVE  \E known \in {mem[p], catalog[DeviceOf[p]]} :
         /\ Frame(p) /\ stage[p] = "idle" /\ stage'[p] = "walk"
         /\ mem'[p] = known /\ keep'[p] = Entries(known) /\ release'[p] = Releasable(p)
         /\ UNCHANGED <<network, device, slab, held, todo, history>>
<1>1. PICK known \in Opened(p) :
        /\ mem' = [mem EXCEPT ![p] = known]
        /\ keep' = [keep EXCEPT ![p] = Entries(known)]
        /\ release' = [release EXCEPT ![p] = Releasable(p)]
  BY DEF Reclaim
<1>2. /\ mem'[p] = known /\ keep'[p] = Entries(known) /\ release'[p] = Releasable(p)
      /\ \A q \in Proc \ {p} : mem'[q] = mem[q] /\ keep'[q] = keep[q] /\ release'[q] = release[q]
  BY <1>1 DEF TypeOK
<1>3. /\ stage[p] = "idle" /\ stage'[p] = "walk" /\ \A q \in Proc \ {p} : stage'[q] = stage[q]
      /\ UNCHANGED <<network, device, slab, held, todo, history>>
  BY DEF Reclaim, Command, May, Goto, TypeOK
<1> QED BY <1>1, <1>2, <1>3 DEF Opened, Frame, device

LEMMA ListPinnedDoes ==
  ASSUME TypeOK, NEW p \in Proc, ListPinned(p)
  PROVE  /\ Frame(p) /\ stage[p] = "idle" /\ stage'[p] = "occupancy" /\ release'[p] = slabs
         /\ "orphans" \in Commands
         /\ UNCHANGED <<network, device, mem, slab, keep, held, todo, history>>
BY DEF ListPinned, Command, May, Goto, TypeOK, Frame, device

LEMMA DropUnreadableDoes ==
  ASSUME TypeOK, NEW p \in Proc, DropUnreadable(p)
  PROVE  /\ Frame(p) /\ stage[p] = "idle" /\ stage'[p] = "retire"
         /\ todo'[p] = {o \in objects : ~ Readable(o)}
         /\ UNCHANGED <<network, device, mem, slab, keep, held, release, history>>
<1> DEFINE K == {o \in objects : ~ Readable(o)}
<1>1. todo' = [todo EXCEPT ![p] = K]
  BY DEF DropUnreadable
<1> HIDE DEF K
<1>2. todo'[p] = K /\ \A q \in Proc \ {p} : todo'[q] = todo[q]
  BY <1>1 DEF TypeOK
<1>3. /\ stage[p] = "idle" /\ stage'[p] = "retire" /\ \A q \in Proc \ {p} : stage'[q] = stage[q]
      /\ UNCHANGED <<network, device, mem, slab, keep, held, release, history>>
  BY DEF DropUnreadable, Command, May, Goto, TypeOK
<1> QED BY <1>2, <1>3 DEF Frame, device, K

LEMMA TakeOwnershipDoes ==
  ASSUME TypeOK, NEW p \in Proc, TakeOwnership(p)
  PROVE  /\ Frame(p) /\ seized' # {}
         /\ \A d \in Device, s \in Slab : (ledger'[d][s] = "none") <=> (ledger[d][s] = "none")
         /\ UNCHANGED <<network, catalog, mem, stage, work, written, moved, faults>>
<1> DEFINE d0 == DeviceOf[p]
           l == [s \in Slab |-> IF ledger[d0][s] = "hydrated" THEN "pinned" ELSE ledger[d0][s]]
<1>1. ledger' = [ledger EXCEPT ![d0] = l] /\ d0 \in Device
  BY WorkTypes DEF TakeOwnership
<1>2. \A s \in Slab : (l[s] = "none") <=> (ledger[d0][s] = "none")
  BY WorkTypes
<1> HIDE DEF l
<1>3. ledger'[d0] = l /\ \A d \in Device \ {d0} : ledger'[d] = ledger[d]
  BY <1>1 DEF TypeOK
<1>4. seized' # {} /\ UNCHANGED <<network, catalog, mem, stage, work, written, moved, faults>>
  BY DEF TakeOwnership
<1> QED BY <1>2, <1>3, <1>4 DEF Frame, work

LEMMA RestoreDoes ==
  ASSUME TypeOK, NEW p \in Proc, NEW how \in {"hydrate", "recover"}, Restore(p, how)
  PROVE  /\ Frame(p) /\ stage[p] = "idle" /\ stage'[p] = how
         /\ todo'[p] = {o \in objects : Readable(o)}
         /\ IF how = "recover" THEN seized' # {} ELSE seized' = seized
         /\ UNCHANGED <<network, device, mem, slab, keep, held, release, written, moved, faults>>
<1> DEFINE K == {o \in objects : Readable(o)}
<1>1. todo' = [todo EXCEPT ![p] = K]
  BY DEF Restore
<1> HIDE DEF K
<1>2. todo'[p] = K /\ \A q \in Proc \ {p} : todo'[q] = todo[q]
  BY <1>1 DEF TypeOK
<1>3. /\ stage[p] = "idle" /\ stage'[p] = how /\ \A q \in Proc \ {p} : stage'[q] = stage[q]
      /\ UNCHANGED <<network, device, mem, slab, keep, held, release, written, moved, faults>>
      /\ IF how = "recover" THEN seized' # {} ELSE seized' = seized
  BY DEF Restore, Command, May, Goto, TypeOK
<1> QED BY <1>2, <1>3 DEF Frame, device, K

LEMMA PinObjectDoes ==
  ASSUME TypeOK, NEW p \in Proc, NEW o \in Object, PinObject(p, o)
  PROVE  /\ Frame(p) /\ stage[p] = "pin" /\ o \in todo[p] /\ o[2] \in slabs
         /\ objects' = objects \union {o}
         /\ IF todo[p] = {o}
            THEN /\ stage'[p] = (IF held[p] = {} THEN "catalogue" ELSE "track")
                 /\ todo'[p] = keep[p]
            ELSE stage'[p] = "pin" /\ todo'[p] = todo[p] \ {o}
         /\ UNCHANGED <<slabs, spent, device, mem, slab, keep, held, release, history>>
<1> DEFINE T == IF todo[p] = {o} THEN keep[p] ELSE todo[p] \ {o}
<1>1. todo' = [todo EXCEPT ![p] = T]
  BY DEF PinObject
<1>2. todo'[p] = T /\ \A q \in Proc \ {p} : todo'[q] = todo[q]
  <2> HIDE DEF T
  <2> QED BY <1>1 DEF TypeOK
<1>3. /\ stage[p] = "pin" /\ o \in todo[p] /\ o[2] \in slabs
      /\ objects' = objects \union {o}
      /\ stage'[p] = (IF todo[p] = {o}
                      THEN (IF held[p] = {} THEN "catalogue" ELSE "track") ELSE "pin")
      /\ \A q \in Proc \ {p} : stage'[q] = stage[q]
      /\ UNCHANGED <<slabs, spent, device, mem, slab, keep, held, release, history>>
  BY DEF PinObject, Goto, TypeOK
<1> QED BY <1>2, <1>3 DEF Frame, device, T

LEMMA CatalogueDoes ==
  ASSUME TypeOK, NEW p \in Proc, NEW o \in Object, Catalogue(p, o)
  PROVE  /\ Frame(p) /\ stage[p] = "catalogue" /\ o \in todo[p]
         /\ catalog'[DeviceOf[p]] = [catalog[DeviceOf[p]] EXCEPT ![o[1]] = o[2]]
         /\ mem'[p] = [mem[p] EXCEPT ![o[1]] = o[2]]
         /\ IF todo[p] = {o} /\ held[p] # {}
            THEN /\ stage'[p] = "retire" /\ todo'[p] = held[p]
                 /\ release'[p] = SlabsOf(held[p]) \ {slab[p]}
                 /\ moved' = moved \union release'[p]
            ELSE /\ stage'[p] = (IF todo[p] = {o} THEN "track" ELSE "catalogue")
                 /\ todo'[p] = todo[p] \ {o}
                 /\ release'[p] = release[p] /\ moved' = moved
         /\ written' = written \union {o[1]}
         /\ UNCHANGED <<network, ledger, slab, keep, held, seized, faults>>
<1> DEFINE last == todo[p] = {o} /\ held[p] # {}
           T == IF last THEN held[p] ELSE todo[p] \ {o}
           L == IF last THEN SlabsOf(held[p]) \ {slab[p]} ELSE release[p]
<1>1. todo' = [todo EXCEPT ![p] = T]
  BY DEF Catalogue
<1>2. todo'[p] = T /\ \A q \in Proc \ {p} : todo'[q] = todo[q]
  <2> HIDE DEF T
  <2> QED BY <1>1 DEF TypeOK
<1>3. release'[p] = L /\ \A q \in Proc \ {p} : release'[q] = release[q]
  <2>1. CASE last
    <3> DEFINE S == SlabsOf(held[p]) \ {slab[p]}
    <3>1. release' = [release EXCEPT ![p] = S]
      BY <2>1 DEF Catalogue
    <3> HIDE DEF S, L
    <3>2. release'[p] = S /\ \A q \in Proc \ {p} : release'[q] = release[q]
      BY <3>1 DEF TypeOK
    <3> QED BY <2>1, <3>2 DEF S, L
  <2>2. CASE ~ last
    BY <2>2 DEF Catalogue
  <2> QED BY <2>1, <2>2
<1>4. o[1] \in Record /\ o[2] \in Place /\ Point(p, o[1], o[2])
  BY DEF Object, Place, Catalogue
<1>5. /\ \A q \in Proc \ {p} : mem'[q] = mem[q]
      /\ \A d \in Device \ {DeviceOf[p]} : catalog'[d] = catalog[d]
      /\ mem'[p] = [mem[p] EXCEPT ![o[1]] = o[2]]
      /\ catalog'[DeviceOf[p]] = [catalog[DeviceOf[p]] EXCEPT ![o[1]] = o[2]]
  BY <1>4, Pointed
<1>6. /\ stage[p] = "catalogue" /\ o \in todo[p] /\ written' = written \union {o[1]}
      /\ moved' = IF last THEN moved \union release'[p] ELSE moved
      /\ stage'[p] = IF last THEN "retire"
                     ELSE IF todo[p] = {o} THEN "track" ELSE "catalogue"
      /\ \A q \in Proc \ {p} : stage'[q] = stage[q]
  BY DEF Catalogue, Goto, TypeOK
<1>7. UNCHANGED <<network, ledger, slab, keep, held, seized, faults>>
  BY DEF Catalogue
<1> QED BY <1>2, <1>3, <1>5, <1>6, <1>7 DEF Frame

LEMMA TrackDoes ==
  ASSUME TypeOK, NEW p \in Proc, slab[p] \in Slab, Track(p)
  PROVE  /\ Frame(p) /\ stage[p] = "track"
         /\ ledger'[DeviceOf[p]][slab[p]] = "pinned"
         /\ \A s \in Slab \ {slab[p]} : ledger'[DeviceOf[p]][s] = ledger[DeviceOf[p]][s]
         /\ IF held[p] = {}
            THEN Idle(p)
            ELSE /\ stage'[p] = "catalogue" /\ slab'[p] = slab[p] /\ keep'[p] = keep[p]
                 /\ held'[p] = held[p] /\ todo'[p] = todo[p] /\ release'[p] = release[p]
         /\ UNCHANGED <<network, catalog, mem, history>>
<1>1. /\ \A d \in Device \ {DeviceOf[p]} : ledger'[d] = ledger[d]
      /\ ledger'[DeviceOf[p]][slab[p]] = "pinned"
      /\ \A s \in Slab \ {slab[p]} : ledger'[DeviceOf[p]][s] = ledger[DeviceOf[p]][s]
  <2>1. File(p, slab[p], "pinned") /\ "pinned" \in Origins /\ slab[p] \in Place
    BY DEF Track, Origins, Place
  <2> QED BY <2>1, FiledAs
<1>2. stage[p] = "track" /\ UNCHANGED <<network, catalog, mem, history>>
  BY DEF Track
<1>3. CASE held[p] = {}
  <2>1. Return(p)
    BY <1>3 DEF Track
  <2>2. Idle(p) /\ \A q \in Proc \ {p} :
              /\ stage'[q] = stage[q] /\ slab'[q] = slab[q] /\ keep'[q] = keep[q]
              /\ held'[q] = held[q] /\ todo'[q] = todo[q] /\ release'[q] = release[q]
    BY <2>1, Returned DEF Idle
  <2> QED BY <1>1, <1>2, <1>3, <2>2 DEF Frame
<1>4. CASE held[p] # {}
  <2>1. /\ stage'[p] = "catalogue" /\ UNCHANGED work
        /\ \A q \in Proc \ {p} : stage'[q] = stage[q]
    BY <1>4 DEF Track, Goto, TypeOK
  <2> QED BY <1>1, <1>2, <1>4, <2>1 DEF Frame, work
<1> QED BY <1>3, <1>4

LEMMA PlanSweepDoes ==
  ASSUME TypeOK, NEW p \in Proc, PlanSweep(p)
  PROVE  /\ Frame(p) /\ stage[p] = "walk" /\ stage'[p] = "retire"
         /\ todo'[p] = {o \in objects : Readable(o) /\ o[2] \in release[p] /\ o \notin keep[p]}
         /\ release'[p] = release[p] \ SlabsOf(keep[p])
         /\ UNCHANGED <<network, device, mem, slab, keep, held, history>>
<1> DEFINE K == {o \in objects : Readable(o) /\ o[2] \in release[p] /\ o \notin keep[p]}
           S == release[p] \ SlabsOf(keep[p])
<1>1. todo' = [todo EXCEPT ![p] = K] /\ release' = [release EXCEPT ![p] = S]
  BY DEF PlanSweep
<1> HIDE DEF K, S
<1>2. /\ todo'[p] = K /\ release'[p] = S
      /\ \A q \in Proc \ {p} : todo'[q] = todo[q] /\ release'[q] = release[q]
  BY <1>1 DEF TypeOK
<1>3. /\ stage[p] = "walk" /\ stage'[p] = "retire" /\ \A q \in Proc \ {p} : stage'[q] = stage[q]
      /\ UNCHANGED <<network, device, mem, slab, keep, held, history>>
  BY DEF PlanSweep, Goto, TypeOK
<1> QED BY <1>2, <1>3 DEF Frame, device, K, S

LEMMA DeleteObjectDoes ==
  ASSUME TypeOK, NEW p \in Proc, NEW o \in Object, DeleteObject(p, o)
  PROVE  /\ Frame(p) /\ stage[p] = "retire" /\ o \in todo[p]
         /\ objects' = objects \ {o} /\ todo'[p] = todo[p] \ {o}
         /\ UNCHANGED <<slabs, spent, device, mem, stage, slab, keep, held, release, history>>
BY DEF DeleteObject, TypeOK, Frame, device

LEMMA UnpinSlabDoes ==
  ASSUME TypeOK, NEW p \in Proc, NEW s \in Slab, UnpinSlab(p, s)
  PROVE  /\ Frame(p) /\ stage[p] = "retire" /\ stage'[p] = "unlist"
         /\ todo[p] = {} /\ s \in release[p]
         /\ slabs' = slabs \ {s} /\ slab'[p] = s /\ release'[p] = release[p] \ {s}
         /\ UNCHANGED <<objects, spent, device, mem, keep, held, todo, history>>
BY DEF UnpinSlab, TypeOK, Goto, Frame, device

LEMMA ForgetSlabDoes ==
  ASSUME TypeOK, NEW p \in Proc, slab[p] \in Slab, ForgetSlab(p)
  PROVE  /\ Frame(p) /\ stage[p] = "unlist" /\ stage'[p] = "retire" /\ slab'[p] = NoSlab
         /\ ledger'[DeviceOf[p]][slab[p]] = "none"
         /\ \A s \in Slab \ {slab[p]} : ledger'[DeviceOf[p]][s] = ledger[DeviceOf[p]][s]
         /\ UNCHANGED <<network, catalog, mem, keep, held, todo, release, history>>
<1>1. /\ stage[p] = "unlist" /\ stage'[p] = "retire" /\ slab'[p] = NoSlab
      /\ \A q \in Proc \ {p} : stage'[q] = stage[q] /\ slab'[q] = slab[q]
      /\ UNCHANGED <<network, catalog, mem, keep, held, todo, release, history>>
  BY DEF ForgetSlab, TypeOK, Goto
<1> QED BY <1>1, Unlisted DEF Frame

LEMMA ListOccupiedDoes ==
  ASSUME TypeOK, NEW p \in Proc, NEW all \in BOOLEAN, ListOccupied(p, all)
  PROVE  /\ Frame(p) /\ stage[p] = "occupancy"
         /\ \/ Idle(p)
            \/ /\ stage'[p] = "retire"
               /\ release'[p] = release[p] \ SlabsOf({o \in objects : Readable(o)})
               /\ UNCHANGED <<slab, keep, held, todo>>
         /\ UNCHANGED <<network, device, mem, history>>
<1>0. stage[p] = "occupancy" /\ UNCHANGED <<network, device, mem, history>>
  BY DEF ListOccupied
<1>1. CASE Return(p)
  <2>1. Idle(p) /\ \A q \in Proc \ {p} :
              /\ stage'[q] = stage[q] /\ slab'[q] = slab[q] /\ keep'[q] = keep[q]
              /\ held'[q] = held[q] /\ todo'[q] = todo[q] /\ release'[q] = release[q]
    BY <1>1, Returned DEF Idle
  <2> QED BY <1>0, <2>1 DEF Frame, device
<1>2. CASE ~ Return(p)
  <2> DEFINE S == release[p] \ SlabsOf({o \in objects : Readable(o)})
  <2>1. release' = [release EXCEPT ![p] = S]
    BY <1>2 DEF ListOccupied
  <2> HIDE DEF S
  <2>2. release'[p] = S /\ \A q \in Proc \ {p} : release'[q] = release[q]
    BY <2>1 DEF TypeOK
  <2>3. /\ stage'[p] = "retire" /\ \A q \in Proc \ {p} : stage'[q] = stage[q]
        /\ UNCHANGED <<slab, keep, held, todo>>
    BY <1>2 DEF ListOccupied, TypeOK, Goto
  <2> QED BY <1>0, <2>2, <2>3 DEF Frame, device, S
<1> QED BY <1>1, <1>2

LEMMA RestoreObjectDoes ==
  ASSUME TypeOK, NEW p \in Proc, NEW o \in Object, RestoreObject(p, o)
  PROVE  /\ Frame(p) /\ stage[p] \in {"hydrate", "recover"} /\ o \in todo[p] /\ Readable(o)
         /\ catalog'[DeviceOf[p]] = [catalog[DeviceOf[p]] EXCEPT ![o[1]] = o[2]]
         /\ mem'[p] = [mem[p] EXCEPT ![o[1]] = o[2]]
         /\ ledger'[DeviceOf[p]][o[2]] =
              IF Pinned(p, o[2]) \/ stage[p] = "recover" THEN "pinned" ELSE "hydrated"
         /\ \A s \in Slab \ {o[2]} : ledger'[DeviceOf[p]][s] = ledger[DeviceOf[p]][s]
         /\ todo'[p] = todo[p] \ {o}
         /\ UNCHANGED <<network, stage, slab, keep, held, release, history>>
<1> DEFINE how == IF stage[p] = "hydrate" THEN "hydrated" ELSE "pinned"
<1>1. /\ o[1] \in Record /\ o[2] \in Slab /\ o[2] \in Place /\ how \in Origins
      /\ Point(p, o[1], o[2]) /\ File(p, o[2], how)
      /\ stage[p] \in {"hydrate", "recover"} /\ o \in todo[p] /\ Readable(o)
      /\ UNCHANGED <<network, stage, slab, keep, held, release, history>>
  BY DEF Object, Place, Origins, RestoreObject
<1>2. todo'[p] = todo[p] \ {o} /\ \A q \in Proc \ {p} : todo'[q] = todo[q]
  BY DEF RestoreObject, TypeOK
<1>3. /\ \A q \in Proc \ {p} : mem'[q] = mem[q]
      /\ \A d \in Device \ {DeviceOf[p]} : catalog'[d] = catalog[d]
      /\ mem'[p] = [mem[p] EXCEPT ![o[1]] = o[2]]
      /\ catalog'[DeviceOf[p]] = [catalog[DeviceOf[p]] EXCEPT ![o[1]] = o[2]]
  BY <1>1, Pointed
<1>4. /\ \A d \in Device \ {DeviceOf[p]} : ledger'[d] = ledger[d]
      /\ \A t \in Slab \ {o[2]} : ledger'[DeviceOf[p]][t] = ledger[DeviceOf[p]][t]
      /\ ledger'[DeviceOf[p]][o[2]] = IF Pinned(p, o[2]) THEN "pinned" ELSE how
  <2> HIDE DEF how
  <2> QED BY <1>1, FiledAs
<1> QED BY <1>1, <1>2, <1>3, <1>4 DEF Frame

LEMMA RetiredDoes ==
  ASSUME TypeOK, NEW p \in Proc, Retired(p)
  PROVE  Frame(p) /\ Idle(p) /\ stage[p] = "retire" /\ UNCHANGED <<network, device, mem, history>>
BY Returned DEF Retired, Idle, Frame, device

LEMMA RestoredDoes ==
  ASSUME TypeOK, NEW p \in Proc, Restored(p)
  PROVE  /\ Frame(p) /\ Idle(p) /\ stage[p] \in {"hydrate", "recover"}
         /\ UNCHANGED <<network, device, mem, history>>
BY Returned DEF Restored, Idle, Frame, device

LEMMA FailDoes ==
  ASSUME TypeOK, NEW p \in Proc, Fail(p)
  PROVE  /\ Frame(p) /\ Idle(p) /\ stage[p] # "idle" /\ faults' = faults + 1
         /\ \/ catalog' = catalog /\ mem' = mem
            \/ \E o \in todo[p] :
                 /\ stage[p] \in {"hydrate", "recover"} /\ Readable(o)
                 /\ catalog'[DeviceOf[p]] = [catalog[DeviceOf[p]] EXCEPT ![o[1]] = o[2]]
                 /\ mem'[p] = [mem[p] EXCEPT ![o[1]] = o[2]]
         /\ UNCHANGED <<network, ledger, written, moved, seized>>
<1>1. /\ stage[p] # "idle" /\ faults' = faults + 1 /\ Return(p)
      /\ UNCHANGED <<network, ledger, written, moved, seized>>
  BY DEF Fail
<1>2. Idle(p) /\ \A q \in Proc \ {p} :
              /\ stage'[q] = stage[q] /\ slab'[q] = slab[q] /\ keep'[q] = keep[q]
              /\ held'[q] = held[q] /\ todo'[q] = todo[q] /\ release'[q] = release[q]
  BY <1>1, Returned DEF Idle
<1>3. CASE UNCHANGED <<catalog, mem>>
  BY <1>1, <1>2, <1>3 DEF Frame
<1>4. CASE ~ UNCHANGED <<catalog, mem>>
  <2>1. PICK o \in todo[p] : /\ stage[p] \in {"hydrate", "recover"} /\ Readable(o)
                             /\ Point(p, o[1], o[2])
    BY <1>4 DEF Fail
  <2>2. o[1] \in Record /\ o[2] \in Place
    BY WorkTypes DEF Object, Place
  <2>3. /\ \A q \in Proc \ {p} : mem'[q] = mem[q]
        /\ \A d \in Device \ {DeviceOf[p]} : catalog'[d] = catalog[d]
        /\ mem'[p] = [mem[p] EXCEPT ![o[1]] = o[2]]
        /\ catalog'[DeviceOf[p]] = [catalog[DeviceOf[p]] EXCEPT ![o[1]] = o[2]]
    BY <2>1, <2>2, Pointed
  <2> QED BY <1>1, <1>2, <2>1, <2>3 DEF Frame
<1> QED BY <1>3, <1>4

-----------------------------------------------------------------------------
(* Slabs are handed out once, and nobody lets go of a billed one unfiled.   *)
Careful(p) ==
  /\ Frame(p) /\ spent \subseteq spent'
  /\ \A s \in slabs' \ slabs : s \in spent' \ spent /\ s = slab'[p]
  /\ \A s \in slabs' : Filed(s) => Filed(s)'
  /\ \A d \in Device, s \in Slab : ledger'[d][s] # "none" => ledger[d][s] # "none" \/ s \in spent
  /\ \A o \in objects' \ objects : o[2] \in spent

LetsGo(p) ==
  \/ slab'[p] = slab[p] \/ slab[p] \notin slabs'
  \/ Filed(slab[p]) \/ \E d \in Device : ledger'[d][slab[p]] # "none"

LEMMA OthersHands ==
  ASSUME TypeOK, TypeOK', PaidInv, NEW p \in Proc, Careful(p), NEW q \in Proc \ {p}
  PROVE  HandOK(q)'
<1>1. HandOK(q) /\ slabs \subseteq spent /\ NoSlab \notin slabs
  BY NoSlabAssumption DEF PaidInv, TypeOK
<1>2. /\ stage'[q] = stage[q] /\ slab'[q] = slab[q] /\ keep'[q] = keep[q]
      /\ held'[q] = held[q] /\ todo'[q] = todo[q] /\ release'[q] = release[q]
  BY DEF Careful, Frame
<1>3. /\ slab'[q] \in spent' \union {NoSlab} /\ release'[q] \subseteq spent'
      /\ \A o \in held'[q] \union todo'[q] : o[2] \in spent'
  BY <1>1, <1>2 DEF Careful, HandOK
<1>4. slab[q] \notin slabs => slab[q] \notin slabs'
  BY <1>1, NoSlabAssumption DEF Careful, HandOK, TypeOK
<1>5. slab[q] \in spent \ slabs => slab'[q] \in spent' \ slabs'
  BY <1>2, <1>4 DEF Careful
<1>6. \A s \in slabs' : Filed(s) => \E d \in Device : ledger'[d][s] # "none"
  BY DEF Careful, Filed
<1>7. stage'[q] = "retire" \/ (stage'[q] = "catalogue" /\ held'[q] # {}) =>
        slab'[q] \notin slabs' \/ \E d \in Device : ledger'[d][slab'[q]] # "none"
  BY <1>1, <1>2, <1>4, <1>6 DEF HandOK
<1>8. stage'[q] \in Writing => slab'[q] # NoSlab /\ \A o \in keep'[q] : o[2] = slab'[q]
  BY <1>1, <1>2 DEF HandOK
<1>9. /\ stage'[q] = "idle" => held'[q] = {} /\ todo'[q] = {} /\ release'[q] = {}
      /\ stage'[q] \notin Writing \union {"retire", "unlist"} => slab'[q] = NoSlab
      /\ stage'[q] = "unlist" => slab'[q] \in spent' \ slabs'
  BY <1>1, <1>2, <1>5 DEF HandOK
<1> QED BY <1>3, <1>7, <1>8, <1>9 DEF HandOK, Filed, Writing

LEMMA UnknownStays ==
  ASSUME TypeOK, PaidInv, NEW p \in Proc, Careful(p)
  PROVE  /\ Unknown' \subseteq Unknown \union {slab[p]}
         /\ LetsGo(p) => Unknown' \subseteq Unknown
<1>1. ASSUME NEW s \in Unknown', s # slab[p] PROVE s \in Unknown
  <2>1. s \in slabs' /\ ~ Filed(s)' /\ \A q \in Proc : slab'[q] # s
    BY <1>1 DEF Unknown
  <2>2. s \in slabs /\ ~ Filed(s)
    BY <2>1 DEF Careful
  <2>3. \A q \in Proc : slab[q] # s
    BY <1>1, <2>1 DEF Careful, Frame
  <2> QED BY <2>2, <2>3 DEF Unknown
<1>2. ASSUME slab[p] \in Unknown', LetsGo(p)
      PROVE  FALSE
  <2> SUFFICES ASSUME NEW s, s \in Unknown', s = slab[p] PROVE FALSE
    BY <1>2
  <2>1. \/ slab'[p] = s \/ s \notin slabs' \/ Filed(s)
        \/ \E d \in Device : ledger'[d][s] # "none"
    BY <1>2 DEF LetsGo
  <2>2. s \in slabs' /\ ~ Filed(s)' /\ slab'[p] # s
    BY DEF Unknown
  <2> QED BY <2>1, <2>2 DEF Careful, Filed
<1> QED BY <1>1, <1>2

(* A subset of a small set is small, and one more element is one more.      *)
LEMMA Enough ==
  ASSUME NEW S, IsFiniteSet(S), NEW n \in Nat, Cardinality(S) <= n, NEW T
  PROVE  /\ T \subseteq S => Cardinality(T) <= n
         /\ \A r : T \subseteq S \union {r} => Cardinality(T) <= n + 1
<1>1. Cardinality(S) \in Nat
  BY FS_CardinalityType
<1>2. ASSUME T \subseteq S PROVE Cardinality(T) <= n
  <2>1. IsFiniteSet(T) /\ Cardinality(T) <= Cardinality(S)
    BY <1>2, FS_Subset
  <2>2. Cardinality(T) \in Nat
    BY <2>1, FS_CardinalityType
  <2> QED BY <1>1, <2>1, <2>2
<1>3. ASSUME NEW r, T \subseteq S \union {r} PROVE Cardinality(T) <= n + 1
  <2> DEFINE U == S \union {r}
  <2>1. IsFiniteSet(U) /\ Cardinality(U) <= Cardinality(S) + 1
    BY <1>1, FS_AddElement
  <2>2. T \in SUBSET U
    BY <1>3
  <2> HIDE DEF U
  <2>3. IsFiniteSet(T) /\ Cardinality(T) <= Cardinality(U)
    BY <2>1, <2>2, FS_Subset
  <2>4. Cardinality(T) \in Nat /\ Cardinality(U) \in Nat
    BY <2>1, <2>3, FS_CardinalityType
  <2> QED BY <1>1, <2>1, <2>3, <2>4
<1> QED BY <1>2, <1>3

LEMMA FewUnknown ==
  ASSUME TypeOK, TypeOK', PaidInv, NEW p \in Proc, Careful(p),
         LetsGo(p) \/ faults' = faults + 1,
         faults' \in {faults, faults + 1}
  PROVE  IsFiniteSet(Unknown') /\ Cardinality(Unknown') <= faults'
<1> DEFINE K == Unknown
           L == Unknown'
<1>1. IsFiniteSet(K) /\ Cardinality(K) <= faults /\ faults \in Nat /\ faults' \in Nat
  BY BoundAssumption DEF PaidInv, TypeOK
<1>2. \E x : L \subseteq K \union {x} /\ (L \subseteq K \/ faults' = faults + 1)
  BY UnknownStays
<1>3. IsFiniteSet(L)
  <2> HIDE DEF K, L
  <2>1. PICK x : L \subseteq K \union {x}
    BY <1>2
  <2>2. IsFiniteSet(K \union {x})
    BY <1>1, FS_AddElement
  <2>3. L \in SUBSET (K \union {x})
    BY <2>1
  <2> QED BY <2>2, <2>3, FS_Subset
<1> HIDE DEF K, L
<1>4. /\ L \subseteq K => Cardinality(L) <= faults
      /\ \A x : L \subseteq K \union {x} => Cardinality(L) <= faults + 1
  BY <1>1, Enough
<1>5. Cardinality(L) \in Nat
  BY <1>3, FS_CardinalityType
<1>6. Cardinality(L) <= faults'
  BY <1>1, <1>2, <1>4, <1>5
<1> QED BY <1>3, <1>6 DEF L

LEMMA PaidKept ==
  ASSUME TypeOK, TypeOK', PaidInv, NEW p \in Proc, Careful(p), HandOK(p)',
         LetsGo(p) \/ faults' = faults + 1,
         faults' \in {faults, faults + 1}
  PROVE  PaidInv'
<1>1. slabs' \subseteq spent'
  BY DEF PaidInv, Careful
<1>2. \A o \in objects' : o[2] \in spent'
  BY DEF PaidInv, Careful
<1>3. \A d \in Device, s \in Slab : ledger'[d][s] # "none" => s \in spent'
  BY DEF PaidInv, Careful
<1>4. \A q \in Proc : HandOK(q)'
  BY OthersHands
<1> QED BY <1>1, <1>2, <1>3, <1>4, FewUnknown DEF PaidInv

LEMMA PaidStep == TypeOK /\ PaidInv /\ [Next]_vars => PaidInv'
<1> SUFFICES ASSUME TypeOK, PaidInv, [Next]_vars PROVE PaidInv'
  OBVIOUS
<1>0. CASE UNCHANGED vars
  BY <1>0 DEF vars, network, device, work, history, PaidInv, HandOK, Unknown, Filed
<1> SUFFICES ASSUME NEW p \in Proc, Start(p) \/ Continue(p) \/ Fail(p) PROVE PaidInv'
  BY <1>0 DEF Next
<1>1. TypeOK'
  BY StepTyped DEF Next
<1>2. /\ HandOK(p) /\ slabs \subseteq spent /\ spent \subseteq Slab /\ NoSlab \notin spent
      /\ faults \in Nat
  BY NoSlabAssumption, BoundAssumption DEF PaidInv, TypeOK
<1>3. \A o \in objects : o[2] \in spent
  BY DEF PaidInv
<1> USE DEF Writing
<1>a. ASSUME Flush(p) PROVE PaidInv'
  <2>1. PICK R \in SUBSET Record, s \in Slab :
          /\ stage[p] = "idle" /\ Wrote(p, R, s) /\ Frame(p)
          /\ held'[p] = held[p] /\ release'[p] = release[p]
          /\ UNCHANGED <<objects, ledger, faults>>
    BY <1>a, FlushDoes
  <2>2. Careful(p)
    BY <2>1 DEF Careful, Wrote, Filed
  <2>5. s # NoSlab /\ \A o \in R \X {s} : o[2] = s
    BY NoSlabAssumption
  <2>3. HandOK(p)'
    BY <1>2, <2>1, <2>5 DEF HandOK, Wrote
  <2>4. slab[p] \notin slabs'
    BY <1>1, <1>2, <2>1, NoSlabAssumption DEF HandOK, TypeOK
  <2> QED BY <1>1, <2>1, <2>2, <2>3, <2>4, PaidKept DEF LetsGo
<1>b. ASSUME Repack(p) PROVE PaidInv'
  <2>1. PICK known \in {mem[p], catalog[DeviceOf[p]]}, R \in SUBSET Record, s \in Slab :
          /\ stage[p] = "idle" /\ Wrote(p, R, s) /\ Frame(p)
          /\ \A o \in Entries(known) : Readable(o)
          /\ held'[p] = Entries(known) /\ release'[p] = release[p]
          /\ UNCHANGED <<objects, ledger, faults>>
    BY <1>b, RepackDoes
  <2>2. Careful(p)
    BY <2>1 DEF Careful, Wrote, Filed
  <2>5. s # NoSlab /\ \A o \in R \X {s} : o[2] = s
    BY NoSlabAssumption
  <2>3. HandOK(p)'
    BY <1>2, <2>1, <2>5 DEF HandOK, Wrote, Readable
  <2>4. slab[p] \notin slabs'
    BY <1>1, <1>2, <2>1, NoSlabAssumption DEF HandOK, TypeOK
  <2> QED BY <1>1, <2>1, <2>2, <2>3, <2>4, PaidKept DEF LetsGo
<1>c. ASSUME NEW r \in Record, Forget(p, r) PROVE PaidInv'
  <2>1. Frame(p) /\ UNCHANGED <<network, ledger, stage, work, history>>
    BY <1>c, ForgetDoes
  <2>2. Careful(p)
    BY <2>1 DEF Careful, network, Filed
  <2>3. HandOK(p)'
    BY <1>2, <2>1 DEF HandOK, network, work, Filed
  <2> QED BY <1>1, <2>1, <2>2, <2>3, PaidKept DEF LetsGo, work, history
<1>d. ASSUME NEW all \in BOOLEAN, Reclaim(p, all) PROVE PaidInv'
  <2>1. /\ Frame(p) /\ stage[p] = "idle" /\ stage'[p] = "walk" /\ release'[p] = Releasable(p)
        /\ UNCHANGED <<network, device, slab, held, todo, history>>
    BY <1>d, ReclaimDoes
  <2>2. Careful(p)
    BY <2>1 DEF Careful, network, device, Filed
  <2>3. Releasable(p) \subseteq spent
    BY WorkTypes DEF Releasable, MyLedger, PaidInv
  <2>4. HandOK(p)'
    BY <1>2, <2>1, <2>3 DEF HandOK, network
  <2> QED BY <1>1, <2>1, <2>2, <2>4, PaidKept DEF LetsGo, history
<1>e. ASSUME ListPinned(p) PROVE PaidInv'
  <2>1. /\ Frame(p) /\ stage[p] = "idle" /\ stage'[p] = "occupancy" /\ release'[p] = slabs
        /\ UNCHANGED <<network, device, slab, held, todo, history>>
    BY <1>e, ListPinnedDoes
  <2>2. Careful(p)
    BY <2>1 DEF Careful, network, device, Filed
  <2>3. HandOK(p)'
    BY <1>2, <2>1 DEF HandOK, network
  <2> QED BY <1>1, <2>1, <2>2, <2>3, PaidKept DEF LetsGo, history
<1>f. ASSUME DropUnreadable(p) PROVE PaidInv'
  <2>1. /\ Frame(p) /\ stage[p] = "idle" /\ stage'[p] = "retire"
        /\ todo'[p] \subseteq objects
        /\ UNCHANGED <<network, device, slab, held, release, history>>
    BY <1>f, DropUnreadableDoes
  <2>2. Careful(p)
    BY <2>1 DEF Careful, network, device, Filed
  <2>3. HandOK(p)'
    BY <1>2, <1>3, <2>1 DEF HandOK, network
  <2> QED BY <1>1, <2>1, <2>2, <2>3, PaidKept DEF LetsGo, history
<1>g. ASSUME TakeOwnership(p) PROVE PaidInv'
  <2>1. /\ Frame(p)
        /\ \A d \in Device, s \in Slab : (ledger'[d][s] = "none") <=> (ledger[d][s] = "none")
        /\ UNCHANGED <<network, stage, work, faults>>
    BY <1>g, TakeOwnershipDoes
  <2>2. \A s \in Slab : Filed(s) => Filed(s)'
    BY <2>1 DEF Filed
  <2>3. Careful(p)
    BY <1>1, <2>1, <2>2 DEF Careful, network, TypeOK
  <2>4. slab[p] \in slabs => (Filed(slab[p]) => Filed(slab[p])')
    BY <1>2, <2>1 DEF Filed, work
  <2>5. HandOK(p)'
    BY <1>2, <2>1, <2>4 DEF HandOK, network, work
  <2> QED BY <1>1, <2>1, <2>3, <2>5, PaidKept DEF LetsGo, work
<1>h. ASSUME NEW how \in {"hydrate", "recover"}, Restore(p, how) PROVE PaidInv'
  <2>1. /\ Frame(p) /\ stage[p] = "idle" /\ stage'[p] = how
        /\ todo'[p] \subseteq objects
        /\ UNCHANGED <<network, device, slab, held, release, faults>>
    BY <1>h, RestoreDoes
  <2>2. Careful(p)
    BY <2>1 DEF Careful, network, device, Filed
  <2>3. HandOK(p)'
    BY <1>2, <1>3, <2>1 DEF HandOK, network
  <2> QED BY <1>1, <2>1, <2>2, <2>3, PaidKept DEF LetsGo
<1>i. ASSUME NEW o \in Object, PinObject(p, o) PROVE PaidInv'
  <2>1. /\ Frame(p) /\ stage[p] = "pin" /\ o \in todo[p] /\ objects' = objects \union {o}
        /\ stage'[p] \in {"pin", "catalogue", "track"}
        /\ stage'[p] = "catalogue" => held[p] = {}
        /\ todo'[p] \in {keep[p], todo[p] \ {o}}
        /\ UNCHANGED <<slabs, spent, device, slab, keep, held, release, history>>
    BY <1>i, PinObjectDoes
  <2>2. o[2] \in spent /\ \A w \in keep[p] : w[2] \in spent
    BY <1>2, <2>1 DEF HandOK
  <2>3. Careful(p)
    BY <2>1, <2>2 DEF Careful, device, Filed
  <2>4. HandOK(p)'
    BY <1>2, <2>1, <2>2 DEF HandOK
  <2> QED BY <1>1, <2>1, <2>3, <2>4, PaidKept DEF LetsGo, history
<1>j. ASSUME NEW o \in Object, Catalogue(p, o) PROVE PaidInv'
  <2>1. /\ Frame(p) /\ stage[p] = "catalogue" /\ o \in todo[p]
        /\ \/ /\ held[p] # {} /\ stage'[p] = "retire" /\ todo'[p] = held[p]
              /\ release'[p] = SlabsOf(held[p]) \ {slab[p]}
           \/ /\ stage'[p] \in {"track", "catalogue"} /\ todo'[p] = todo[p] \ {o}
              /\ release'[p] = release[p]
        /\ UNCHANGED <<network, ledger, slab, keep, held, faults>>
    BY <1>j, CatalogueDoes
  <2>2. Careful(p)
    BY <2>1 DEF Careful, network, Filed
  <2>3. SlabsOf(held[p]) \subseteq spent
    BY <1>2 DEF HandOK, SlabsOf
  <2>4. HandOK(p)'
    BY <1>2, <2>1, <2>3 DEF HandOK, network, Filed
  <2> QED BY <1>1, <2>1, <2>2, <2>4, PaidKept DEF LetsGo
<1>k. ASSUME NEW o \in Object, DeleteObject(p, o) PROVE PaidInv'
  <2>1. /\ Frame(p) /\ objects' \subseteq objects /\ todo'[p] = todo[p] \ {o}
        /\ stage[p] = "retire"
        /\ UNCHANGED <<slabs, spent, device, stage, slab, keep, held, release, history>>
    BY <1>k, DeleteObjectDoes
  <2>2. Careful(p)
    BY <2>1 DEF Careful, device, Filed
  <2>3. HandOK(p)'
    BY <1>2, <2>1 DEF HandOK, device, Filed
  <2> QED BY <1>1, <2>1, <2>2, <2>3, PaidKept DEF LetsGo, history
<1>l. ASSUME NEW o \in Object, RestoreObject(p, o) PROVE PaidInv'
  <2>1. /\ Frame(p) /\ stage[p] \in {"hydrate", "recover"} /\ o \in todo[p]
        /\ ledger'[DeviceOf[p]][o[2]] # "none"
        /\ \A s \in Slab \ {o[2]} : ledger'[DeviceOf[p]][s] = ledger[DeviceOf[p]][s]
        /\ todo'[p] = todo[p] \ {o}
        /\ UNCHANGED <<network, stage, slab, keep, held, release, history>>
    BY <1>l, RestoreObjectDoes
  <2>2. o[2] \in spent
    BY <1>2, <2>1 DEF HandOK
  <2>3. \A d \in Device, s \in Slab :
          /\ ledger[d][s] # "none" => ledger'[d][s] # "none"
          /\ ledger'[d][s] # "none" => ledger[d][s] # "none" \/ s \in spent
    BY <2>1, <2>2 DEF Frame
  <2>4. \A s \in Slab : Filed(s) => Filed(s)'
    BY <2>3 DEF Filed
  <2>5. Careful(p)
    BY <1>1, <2>1, <2>3, <2>4 DEF Careful, network, TypeOK
  <2>6. HandOK(p)'
    BY <1>2, <2>1 DEF HandOK, network
  <2> QED BY <1>1, <2>1, <2>5, <2>6, PaidKept DEF LetsGo, history
<1>m. ASSUME NEW s \in Slab, UnpinSlab(p, s) PROVE PaidInv'
  <2>1. /\ Frame(p) /\ stage[p] = "retire" /\ stage'[p] = "unlist" /\ s \in release[p]
        /\ slabs' = slabs \ {s} /\ slab'[p] = s /\ release'[p] = release[p] \ {s}
        /\ UNCHANGED <<objects, spent, device, keep, held, todo, history>>
    BY <1>m, UnpinSlabDoes
  <2>2. Careful(p)
    BY <2>1 DEF Careful, device, Filed
  <2>3. HandOK(p)'
    BY <1>2, <2>1 DEF HandOK
  <2>4. slab[p] \notin slabs' \/ Filed(slab[p])
    BY <1>2, <2>1 DEF HandOK
  <2> QED BY <1>1, <2>1, <2>2, <2>3, <2>4, PaidKept DEF LetsGo, history
<1>n. ASSUME NEW all \in BOOLEAN, ListOccupied(p, all) PROVE PaidInv'
  <2>1. /\ Frame(p) /\ stage[p] = "occupancy"
        /\ \/ Idle(p)
           \/ /\ stage'[p] = "retire" /\ release'[p] \subseteq release[p]
              /\ UNCHANGED <<slab, keep, held, todo>>
        /\ UNCHANGED <<network, device, history>>
    BY <1>n, ListOccupiedDoes
  <2>2. Careful(p)
    BY <2>1 DEF Careful, network, device, Filed
  <2>3. HandOK(p)'
    BY <1>2, <2>1 DEF HandOK, network, Idle
  <2>4. slab'[p] = slab[p]
    BY <1>2, <2>1 DEF HandOK, Idle
  <2> QED BY <1>1, <2>1, <2>2, <2>3, <2>4, PaidKept DEF LetsGo, history
<1>o. ASSUME Track(p) PROVE PaidInv'
  <2>0. stage[p] = "track" /\ slab[p] \in Slab
    BY <1>2, <1>o DEF Track, HandOK
  <2>1. /\ Frame(p)
        /\ ledger'[DeviceOf[p]][slab[p]] = "pinned"
        /\ \A s \in Slab \ {slab[p]} : ledger'[DeviceOf[p]][s] = ledger[DeviceOf[p]][s]
        /\ IF held[p] = {}
           THEN Idle(p)
           ELSE /\ stage'[p] = "catalogue" /\ slab'[p] = slab[p] /\ keep'[p] = keep[p]
                /\ held'[p] = held[p] /\ todo'[p] = todo[p] /\ release'[p] = release[p]
        /\ UNCHANGED <<network, history>>
    BY <1>o, <2>0, TrackDoes
  <2>2. \A d \in Device, s \in Slab :
          /\ ledger[d][s] # "none" => ledger'[d][s] # "none"
          /\ ledger'[d][s] # "none" => ledger[d][s] # "none" \/ s \in spent
    BY <1>2, <2>0, <2>1, NoSlabAssumption DEF Frame, HandOK
  <2>3. \A s \in Slab : Filed(s) => Filed(s)'
    BY <2>2 DEF Filed
  <2>4. Careful(p)
    BY <1>1, <2>1, <2>2, <2>3 DEF Careful, network, TypeOK
  <2>5. HandOK(p)'
    <3>1. CASE held[p] = {}
      BY <2>1, <3>1 DEF HandOK, Idle
    <3>2. CASE held[p] # {}
      <4>1. /\ stage'[p] = "catalogue" /\ slab'[p] = slab[p] /\ keep'[p] = keep[p]
            /\ held'[p] = held[p] /\ todo'[p] = todo[p] /\ release'[p] = release[p]
        BY <2>1, <3>2
      <4>2. \E d \in Device : ledger'[d][slab'[p]] # "none"
        BY <2>1, <4>1, WorkTypes
      <4> QED BY <1>2, <2>0, <2>1, <4>1, <4>2 DEF HandOK, network, Filed
    <3> QED BY <3>1, <3>2
  <2>6. LetsGo(p)
    BY <2>1, WorkTypes DEF LetsGo
  <2> QED BY <1>1, <2>1, <2>4, <2>5, <2>6, PaidKept DEF history
<1>q. ASSUME PlanSweep(p) PROVE PaidInv'
  <2>1. /\ Frame(p) /\ stage[p] = "walk" /\ stage'[p] = "retire"
        /\ todo'[p] \subseteq objects /\ release'[p] \subseteq release[p]
        /\ UNCHANGED <<network, device, slab, held, history>>
    BY <1>q, PlanSweepDoes
  <2>2. Careful(p)
    BY <2>1 DEF Careful, network, device, Filed
  <2>3. HandOK(p)'
    BY <1>2, <1>3, <2>1, NoSlabAssumption DEF HandOK, network
  <2> QED BY <1>1, <2>1, <2>2, <2>3, PaidKept DEF LetsGo, history
<1>r. ASSUME ForgetSlab(p) PROVE PaidInv'
  <2>0. stage[p] = "unlist" /\ slab[p] \in Slab /\ slab[p] \notin slabs
    BY <1>2, <1>r DEF ForgetSlab, HandOK
  <2>1. /\ Frame(p) /\ stage'[p] = "retire" /\ slab'[p] = NoSlab
        /\ ledger'[DeviceOf[p]][slab[p]] = "none"
        /\ \A s \in Slab \ {slab[p]} : ledger'[DeviceOf[p]][s] = ledger[DeviceOf[p]][s]
        /\ UNCHANGED <<network, keep, held, todo, release, history>>
    BY <1>r, <2>0, ForgetSlabDoes
  <2>2. \A d \in Device, s \in Slab :
          /\ s # slab[p] => (ledger[d][s] # "none" => ledger'[d][s] # "none")
          /\ ledger'[d][s] # "none" => ledger[d][s] # "none"
    BY <2>0, <2>1 DEF Frame
  <2>3. \A s \in Slab : s # slab[p] => (Filed(s) => Filed(s)')
    BY <2>2 DEF Filed
  <2>4. Careful(p)
    BY <1>1, <2>0, <2>1, <2>2, <2>3 DEF Careful, network, TypeOK
  <2>5. HandOK(p)'
    BY <1>2, <2>0, <2>1 DEF HandOK, network
  <2> QED BY <1>1, <2>0, <2>1, <2>4, <2>5, PaidKept DEF LetsGo, network, history
<1>s. ASSUME Retired(p) PROVE PaidInv'
  <2>1. Frame(p) /\ Idle(p) /\ stage[p] = "retire" /\ UNCHANGED <<network, device, mem, history>>
    BY <1>s, RetiredDoes
  <2>2. Careful(p)
    BY <2>1 DEF Careful, network, device, Filed
  <2>3. HandOK(p)'
    BY <2>1 DEF HandOK, Idle
  <2>4. LetsGo(p)
    BY <1>2, <2>1 DEF HandOK, LetsGo, network
  <2> QED BY <1>1, <2>1, <2>2, <2>3, <2>4, PaidKept DEF history
<1>t. ASSUME Restored(p) PROVE PaidInv'
  <2>1. /\ Frame(p) /\ Idle(p) /\ stage[p] \in {"hydrate", "recover"}
        /\ UNCHANGED <<network, device, mem, history>>
    BY <1>t, RestoredDoes
  <2>2. Careful(p)
    BY <2>1 DEF Careful, network, device, Filed
  <2>3. HandOK(p)'
    BY <2>1 DEF HandOK, Idle
  <2>4. LetsGo(p)
    BY <1>2, <2>1 DEF HandOK, LetsGo, Idle
  <2> QED BY <1>1, <2>1, <2>2, <2>3, <2>4, PaidKept DEF history
<1>u. ASSUME Fail(p) PROVE PaidInv'
  <2>1. Frame(p) /\ Idle(p) /\ faults' = faults + 1 /\ UNCHANGED <<network, ledger>>
    BY <1>u, FailDoes
  <2>2. Careful(p)
    BY <2>1 DEF Careful, network, Filed
  <2>3. HandOK(p)'
    BY <2>1 DEF HandOK, Idle
  <2> QED BY <1>1, <2>1, <2>2, <2>3, PaidKept
<1> QED BY <1>a, <1>b, <1>c, <1>d, <1>e, <1>f, <1>g, <1>h, <1>i, <1>j, <1>k, <1>l, <1>m, <1>n,
           <1>o, <1>q, <1>r, <1>s, <1>t, <1>u DEF Start, Continue

LEMMA InitPaid == Init => PaidInv
<1> SUFFICES ASSUME Init PROVE PaidInv
  OBVIOUS
<1>1. slabs = {} /\ Unknown = {} /\ faults = 0
  BY DEF Init, Unknown
<1>2. IsFiniteSet({}) /\ Cardinality({}) = 0
  BY FS_EmptySet
<1>3. IsFiniteSet(Unknown) /\ Cardinality(Unknown) <= faults
  BY <1>1, <1>2
<1>4. \A p \in Proc : HandOK(p)
  BY DEF Init, HandOK, Writing
<1> QED BY <1>3, <1>4, DeviceAssumption DEF Init, PaidInv

(* Every slab billed for is in a ledger or in the hands of an operation,    *)
(* but for one per operation that was interrupted.                         *)
THEOREM StorageIsAccounted == Spec => []PaidIsKnown
<1>1. Init => TypeOK /\ PaidInv
  BY InitTyped, InitPaid
<1>2. TypeOK /\ PaidInv /\ [Next]_vars => (TypeOK /\ PaidInv)'
  BY StepTyped, PaidStep
<1>3. TypeOK /\ PaidInv => PaidIsKnown
  <2> SUFFICES ASSUME TypeOK, PaidInv PROVE PaidIsKnown
    OBVIOUS
  <2>1. slabs \ ({s \in Slab : \E d \in Device : ledger[d][s] # "none"} \union {slab[p] : p \in Proc})
          = Unknown
    BY DEF Unknown, Filed, TypeOK
  <2> QED BY <2>1 DEF PaidIsKnown, PaidInv
<1> QED BY <1>1, <1>2, <1>3, PTL DEF Spec

-----------------------------------------------------------------------------
(* One process to a device: what a step may do to the storage of others.    *)
Gentle(p) ==
  /\ Frame(p) /\ moved \subseteq moved'
  /\ \A s \in slabs \ slabs' : Pinned(p, s)
  /\ \A s \in slabs' \ slabs : s \notin spent
  /\ \A o \in objects \ objects' : o[2] \in slabs => Pinned(p, o[2])
  /\ \A o \in objects' \ objects : stage[p] \in Writing /\ o[2] = slab[p]

LEMMA Elsewhere ==
  ASSUME Beside, NEW p \in Proc, NEW q \in Proc \ {p}, Frame(p)
  PROVE  /\ DeviceOf[q] \in Device \ {DeviceOf[p]}
         /\ catalog'[DeviceOf[q]] = catalog[DeviceOf[q]] /\ ledger'[DeviceOf[q]] = ledger[DeviceOf[q]]
         /\ Listed(q)' = Listed(q)
         /\ \A s : Pinned(q, s)' <=> Pinned(q, s)
<1>1. DeviceOf[q] \in Device \ {DeviceOf[p]}
  BY DeviceAssumption DEF Beside
<1>2. catalog'[DeviceOf[q]] = catalog[DeviceOf[q]] /\ ledger'[DeviceOf[q]] = ledger[DeviceOf[q]]
  BY <1>1 DEF Frame
<1> QED BY <1>1, <1>2 DEF Listed, Entries, Pinned, MyLedger

(* What q is writing, and what it pinned, is not p's.                       *)
LEMMA Apart ==
  ASSUME TypeOK, Beside, ApartInv, NEW p \in Proc, NEW q \in Proc \ {p}
  PROVE  /\ stage[q] \in Writing => slab[q] \in slabs /\ ~ Pinned(p, slab[q])
         /\ stage[p] \in Writing => ~ Pinned(q, slab[p])
         /\ stage[p] \in Writing /\ stage[q] \in Writing => slab[q] # slab[p]
         /\ \A s \in Slab : ~ (Pinned(p, s) /\ Pinned(q, s))
<1>1. DeviceOf[q] \in Device /\ DeviceOf[p] \in Device /\ DeviceOf[q] # DeviceOf[p]
  BY DeviceAssumption DEF Beside
<1> QED BY <1>1 DEF ApartInv, OwnInv, Pinned, MyLedger

LEMMA OthersKeep ==
  ASSUME TypeOK, PaidInv, Beside, ApartInv, NEW p \in Proc, Gentle(p), NEW q \in Proc \ {p}
  PROVE  WriteOK(q)' /\ RepackOK(q)' /\ SweepOK(q)'
<1>1. /\ stage'[q] = stage[q] /\ slab'[q] = slab[q] /\ keep'[q] = keep[q]
      /\ held'[q] = held[q] /\ todo'[q] = todo[q] /\ release'[q] = release[q]
      /\ Listed(q)' = Listed(q) /\ \A s : Pinned(q, s)' <=> Pinned(q, s)
      /\ moved \subseteq moved'
  BY Elsewhere DEF Gentle, Frame
<1>2. HandOK(q) /\ WriteOK(q) /\ RepackOK(q) /\ SweepOK(q)
  BY DEF PaidInv, ApartInv
<1>3. WriteOK(q)'
  <2>1. CASE stage[q] \in Writing
    <3>1. \A o \in keep[q] : o[2] = slab[q] /\ (o \in objects => o \in objects')
      BY <1>2, <2>1, Apart DEF HandOK, Gentle
    <3> QED BY <1>1, <1>2, <2>1, <3>1 DEF WriteOK
  <2>2. CASE stage[q] \notin Writing
    BY <1>1, <2>2 DEF WriteOK, Writing
  <2> QED BY <2>1, <2>2
<1>4. RepackOK(q)'
  BY <1>1, <1>2 DEF RepackOK, Writing
<1>5. SweepOK(q)'
  <2>1. ASSUME stage[q] \in {"retire", "unlist"}, NEW s \in release[q], NEW o \in objects', o[2] = s
        PROVE  o \in todo[q] \/ s \in moved'
    <3>1. Pinned(q, s) /\ (o \in objects => o \in todo[q] \/ s \in moved)
      BY <1>2, <2>1 DEF SweepOK
    <3>2. o \in objects
      BY <2>1, <3>1, Apart DEF Gentle
    <3> QED BY <1>1, <3>1, <3>2
  <2>2. ASSUME stage[q] \in {"retire", "unlist"}, NEW o \in todo[q], o[2] \notin slabs
        PROVE  o[2] \notin slabs'
    BY <1>2, <2>2 DEF HandOK, Gentle
  <2> QED BY <1>1, <1>2, <2>1, <2>2 DEF SweepOK
<1> QED BY <1>3, <1>4, <1>5

(* The slab p writes to is the one it wrote to, or one nobody has had; and  *)
(* it files as pinned what it wrote.                                       *)
Steady(p) ==
  /\ stage'[p] \in Writing =>
       /\ slab'[p] \in slabs'
       /\ slab'[p] \notin spent \/ (stage[p] \in Writing /\ slab'[p] = slab[p])
  /\ \A s \in Slab : ledger'[DeviceOf[p]][s] = "pinned" =>
       Pinned(p, s) \/ (stage[p] \in Writing /\ s = slab[p])

LEMMA OwnKept ==
  ASSUME TypeOK, TypeOK', PaidInv, Beside, ApartInv, NEW p \in Proc, Gentle(p), Steady(p)
  PROVE  OwnInv'
<1>0. DeviceOf[p] \in Device /\ \A q \in Proc \ {p} : DeviceOf[q] # DeviceOf[p]
  BY DeviceAssumption DEF Beside
<1>1. \A d \in Device \ {DeviceOf[p]} : ledger'[d] = ledger[d]
  BY DEF Gentle, Frame
<1>2. ASSUME NEW d \in Device, NEW e \in Device, NEW s \in Slab,
             ledger'[d][s] = "pinned", ledger'[e][s] = "pinned"
      PROVE  d = e
  <2>1. ASSUME NEW g \in Device, g # DeviceOf[p], ledger[g][s] = "pinned",
               ledger'[DeviceOf[p]][s] = "pinned"
        PROVE  FALSE
    <3>1. CASE Pinned(p, s)
      BY <1>0, <2>1, <3>1 DEF ApartInv, OwnInv, Pinned, MyLedger
    <3>2. CASE stage[p] \in Writing /\ s = slab[p]
      BY <1>0, <2>1, <3>2 DEF ApartInv, OwnInv
    <3> QED BY <2>1, <3>1, <3>2 DEF Steady
  <2> QED BY <1>0, <1>1, <1>2, <2>1 DEF ApartInv, OwnInv
<1>3. ASSUME NEW q \in Proc \ {p}, stage'[q] \in Writing
      PROVE  /\ slab'[q] = slab[q] /\ slab[q] \in slabs' /\ slab[q] \in spent
             /\ \A e \in Device \ {DeviceOf[q]} : ledger'[e][slab[q]] # "pinned"
             /\ stage'[p] \in Writing => slab'[p] # slab[q]
  <2>1. stage[q] \in Writing /\ slab'[q] = slab[q]
    BY <1>3 DEF Gentle, Frame
  <2>2. /\ slab[q] \in slabs /\ slab[q] \in Slab /\ slab[q] \in spent /\ ~ Pinned(p, slab[q])
        /\ stage[p] \in Writing => slab[q] # slab[p]
    BY <2>1, Apart DEF TypeOK, PaidInv
  <2>3. slab[q] \in slabs'
    BY <2>2 DEF Gentle
  <2>4. \A e \in Device \ {DeviceOf[q]} : ledger[e][slab[q]] # "pinned"
    BY <2>1 DEF ApartInv, OwnInv
  <2>5. \A e \in Device \ {DeviceOf[q]} : ledger'[e][slab[q]] # "pinned"
    BY <1>0, <1>1, <2>2, <2>4 DEF Steady
  <2> QED BY <2>1, <2>2, <2>3, <2>5 DEF Steady
<1>4. ASSUME stage'[p] \in Writing, NEW e \in Device \ {DeviceOf[p]}
      PROVE  ledger'[e][slab'[p]] # "pinned"
  <2>1. CASE slab'[p] \notin spent
    BY <1>1, <1>4, <2>1 DEF Steady, PaidInv, TypeOK
  <2>2. CASE stage[p] \in Writing /\ slab'[p] = slab[p]
    BY <1>1, <2>2 DEF ApartInv, OwnInv
  <2> QED BY <1>4, <2>1, <2>2 DEF Steady
<1>5. \A q \in Proc : stage'[q] \in Writing =>
        /\ slab'[q] \in slabs'
        /\ \A w \in Proc \ {q} : stage'[w] \in Writing => slab'[w] # slab'[q]
        /\ \A e \in Device \ {DeviceOf[q]} : ledger'[e][slab'[q]] # "pinned"
  <2> TAKE q \in Proc
  <2> HAVE stage'[q] \in Writing
  <2>1. slab'[q] \in slabs'
    BY <1>3 DEF Steady
  <2>2. \A e \in Device \ {DeviceOf[q]} : ledger'[e][slab'[q]] # "pinned"
    BY <1>3, <1>4
  <2>3. ASSUME NEW w \in Proc \ {q}, stage'[w] \in Writing PROVE slab'[w] # slab'[q]
    <3>1. CASE w = p
      BY <1>3, <2>3, <3>1
    <3>2. CASE q = p
      BY <1>3, <2>3, <3>2
    <3>3. CASE w # p /\ q # p
      <4>1. /\ stage[w] \in Writing /\ stage[q] \in Writing
            /\ slab'[w] = slab[w] /\ slab'[q] = slab[q]
        BY <2>3, <3>3 DEF Gentle, Frame
      <4> QED BY <4>1 DEF ApartInv, OwnInv
    <3> QED BY <3>1, <3>2, <3>3
  <2> QED BY <2>1, <2>2, <2>3
<1> QED BY <1>2, <1>5 DEF OwnInv, Writing

MyReads(p) == \A o \in Listed(p) : Pinned(p, o[2]) => Readable(o)
NewUndead == \A o \in objects' : o[2] \in slabs \ slabs' => o[2] \in moved'

LEMMA ReadsKept ==
  ASSUME TypeOK, Beside, ApartInv, NEW p \in Proc, Gentle(p), MyReads(p)'
  PROVE  \A d \in Device : \A o \in Entries(catalog[d])' : ledger'[d][o[2]] = "pinned" => Readable(o)'
<1> TAKE d \in Device
<1> TAKE o \in Entries(catalog[d])'
<1> HAVE ledger'[d][o[2]] = "pinned"
<1>1. CASE d = DeviceOf[p]
  <2>1. o \in Listed(p)' /\ Pinned(p, o[2])'
    BY <1>1 DEF Listed, Entries, Pinned, MyLedger
  <2> QED BY <2>1 DEF MyReads
<1>2. CASE d # DeviceOf[p]
  <2>1. catalog'[d] = catalog[d] /\ ledger'[d] = ledger[d]
    BY <1>2 DEF Gentle, Frame
  <2>2. o \in Entries(catalog[d]) /\ ledger[d][o[2]] = "pinned" /\ o[2] \in Slab
    BY <2>1 DEF Entries, Object
  <2>3. Readable(o)
    BY <2>2 DEF ApartInv
  <2>4. ~ Pinned(p, o[2])
    BY <1>2, <2>2, DeviceAssumption DEF ApartInv, OwnInv, Pinned, MyLedger
  <2>5. o \in objects' /\ o[2] \in slabs'
    BY <2>3, <2>4 DEF Readable, Gentle
  <2> QED BY <2>5 DEF Readable
<1> QED BY <1>1, <1>2

LEMMA FilesKept ==
  ASSUME PaidInv, Beside, \A q \in Proc : FileOK(q), NEW p \in Proc, Frame(p), FileOK(p)',
         spent \subseteq spent', seized \subseteq seized'
  PROVE  \A q \in Proc : FileOK(q)'
<1> SUFFICES ASSUME NEW q \in Proc \ {p} PROVE FileOK(q)'
  OBVIOUS
<1>1. /\ mem'[q] = mem[q] /\ catalog'[DeviceOf[q]] = catalog[DeviceOf[q]]
      /\ Listed(q)' = Listed(q) /\ stage'[q] = stage[q]
  BY Elsewhere DEF Frame
<1>2. FileOK(q)
  OBVIOUS
<1>3. \A o \in Listed(q)' : o[2] \in spent'
  BY <1>1, <1>2 DEF FileOK
<1>4. stage'[q] = "recover" => seized' # {}
  BY <1>1, <1>2 DEF FileOK
<1> QED BY <1>1, <1>2, <1>3, <1>4 DEF FileOK

LEMMA ReclaimKept ==
  ASSUME TypeOK, TypeOK', PaidInv, Beside, ReclaimInv, NEW p \in Proc, Frame(p), FileOK(p)',
         spent \subseteq spent', seized \subseteq seized',
         ApartInv /\ seized' = {} =>
           /\ Gentle(p) /\ Steady(p) /\ MyReads(p)' /\ NewUndead
           /\ WriteOK(p)' /\ RepackOK(p)' /\ SweepOK(p)'
  PROVE  ReclaimInv'
<1>1. \A q \in Proc : FileOK(q)'
  BY FilesKept DEF ReclaimInv
<1>2. ASSUME seized' = {} PROVE ApartInv'
  <2>1. ApartInv
    BY <1>2 DEF ReclaimInv
  <2>2. /\ Gentle(p) /\ Steady(p) /\ MyReads(p)' /\ NewUndead
        /\ WriteOK(p)' /\ RepackOK(p)' /\ SweepOK(p)'
    BY <1>2, <2>1
  <2>3. OwnInv'
    BY <2>1, <2>2, OwnKept
  <2>4. \A q \in Proc : WriteOK(q)' /\ RepackOK(q)' /\ SweepOK(q)'
    BY <2>1, <2>2, OthersKeep
  <2>5. \A d \in Device : \A o \in Entries(catalog[d])' :
          ledger'[d][o[2]] = "pinned" => Readable(o)'
    BY <2>1, <2>2, ReadsKept
  <2>6. UndeadMoved'
    <3> SUFFICES ASSUME NEW o \in objects' PROVE o[2] \in slabs' \union moved'
      BY DEF UndeadMoved
    <3>1. o[2] \in slabs \union moved
      BY <2>1, <2>2 DEF ApartInv, UndeadMoved, OwnInv, Gentle
    <3> QED BY <2>2, <3>1 DEF Gentle, NewUndead
  <2> QED BY <2>3, <2>4, <2>5, <2>6 DEF ApartInv
<1> QED BY <1>1, <1>2 DEF ReclaimInv

(* What one entry does to what the file lists.                              *)
LEMMA PointedAt ==
  ASSUME TypeOK, NEW p \in Proc, NEW o \in Object,
         catalog'[DeviceOf[p]] = [catalog[DeviceOf[p]] EXCEPT ![o[1]] = o[2]]
  PROVE  \A w \in Listed(p)' : w \in Object /\ (w = o \/ (w \in Listed(p) /\ w[1] # o[1]))
<1> TAKE w \in Listed(p)'
<1> DEFINE c == catalog[DeviceOf[p]]
<1>1. w \in Object /\ c \in [Record -> Place] /\ catalog'[DeviceOf[p]][w[1]] = w[2]
  BY WorkTypes DEF Listed, Entries
<1>2. w[1] \in Record /\ o[1] \in Record /\ w = <<w[1], w[2]>> /\ o = <<o[1], o[2]>>
  BY <1>1 DEF Object
<1>3. w[2] = IF w[1] = o[1] THEN o[2] ELSE c[w[1]]
  BY <1>1, <1>2
<1> QED BY <1>1, <1>2, <1>3 DEF Listed, Entries

LEMMA Dropped ==
  ASSUME TypeOK, NEW p \in Proc, NEW r \in Record,
         catalog'[DeviceOf[p]] = [catalog[DeviceOf[p]] EXCEPT ![r] = NoSlab]
  PROVE  Listed(p)' \subseteq Listed(p)
<1> SUFFICES ASSUME NEW w \in Listed(p)' PROVE w \in Listed(p)
  OBVIOUS
<1> DEFINE c == catalog[DeviceOf[p]]
<1>1. w \in Object /\ c \in [Record -> Place] /\ catalog'[DeviceOf[p]][w[1]] = w[2]
  BY WorkTypes DEF Listed, Entries
<1>2. w[1] \in Record /\ w[2] \in Slab
  BY <1>1 DEF Object
<1>3. w[2] = IF w[1] = r THEN NoSlab ELSE c[w[1]]
  BY <1>1, <1>2
<1> QED BY <1>1, <1>2, <1>3, NoSlabAssumption DEF Listed, Entries

(* Files and ledger as they were.                                           *)
LEMMA SameFiles ==
  ASSUME NEW p \in Proc, catalog' = catalog, ledger' = ledger
  PROVE  /\ Listed(p)' = Listed(p)
         /\ \A s : Pinned(p, s)' <=> Pinned(p, s)
         /\ stage'[p] \notin Writing => Steady(p)
BY DEF Listed, Entries, Pinned, MyLedger, Steady

(* A step that touches neither the network nor the files, and is not one of *)
(* writing.                                                                *)
LEMMA QuietStep ==
  ASSUME TypeOK, TypeOK', PaidInv, Beside, ReclaimInv, NEW p \in Proc, Frame(p),
         UNCHANGED <<network, device, moved>>, mem'[p] = mem[p], seized \subseteq seized',
         stage'[p] \notin Writing, stage'[p] # "occupancy", 
         stage'[p] = "recover" => seized' # {},
         ApartInv /\ seized' = {} => SweepOK(p)'
  PROVE  ReclaimInv'
<1>1. /\ catalog' = catalog /\ ledger' = ledger /\ slabs' = slabs /\ objects' = objects
      /\ spent' = spent /\ mem'[p] = mem[p] /\ moved' = moved
  BY DEF network, device
<1>2. Listed(p)' = Listed(p) /\ Steady(p) /\ \A s : Pinned(p, s)' <=> Pinned(p, s)
  BY <1>1, SameFiles
<1>3. FileOK(p)'
  BY <1>1, <1>2 DEF ReclaimInv, FileOK
<1>4. Gentle(p) /\ NewUndead
  BY <1>1 DEF Gentle, NewUndead
<1>5. ApartInv => MyReads(p)'
  <2> SUFFICES ASSUME ApartInv, NEW o \in Listed(p), Pinned(p, o[2]) PROVE Readable(o)'
    BY <1>2 DEF MyReads
  <2>1. Readable(o)
    BY DeviceAssumption DEF ApartInv, Listed, Pinned, MyLedger
  <2> QED BY <1>1, <2>1 DEF Readable
<1>6. WriteOK(p)' /\ RepackOK(p)'
  BY DEF WriteOK, RepackOK, Writing
<1> QED BY <1>1, <1>2, <1>3, <1>4, <1>5, <1>6, ReclaimKept

LEMMA ReclaimStep ==
  ASSUME Beside
  PROVE  TypeOK /\ PaidInv /\ ReclaimInv /\ [Next]_vars => ReclaimInv'
<1> SUFFICES ASSUME TypeOK, PaidInv, ReclaimInv, [Next]_vars PROVE ReclaimInv'
  OBVIOUS
<1>0. CASE UNCHANGED vars
  <2>1. /\ slabs' = slabs /\ objects' = objects /\ spent' = spent /\ catalog' = catalog
        /\ ledger' = ledger /\ mem' = mem /\ stage' = stage /\ slab' = slab /\ keep' = keep
        /\ held' = held /\ todo' = todo /\ release' = release /\ moved' = moved
        /\ seized' = seized
    BY <1>0 DEF vars, network, device, work, history
  <2> QED BY <2>1 DEF ReclaimInv, FileOK, Listed, Entries, ApartInv, OwnInv, WriteOK, RepackOK,
                      SweepOK, UndeadMoved, Readable, Pinned, MyLedger
<1> SUFFICES ASSUME NEW p \in Proc, Start(p) \/ Continue(p) \/ Fail(p) PROVE ReclaimInv'
  BY <1>0 DEF Next
<1>1. TypeOK'
  BY StepTyped DEF Next
<1>2. /\ HandOK(p) /\ slabs \subseteq spent /\ spent \subseteq Slab /\ FileOK(p)
      /\ DeviceOf[p] \in Device
  BY DeviceAssumption DEF PaidInv, TypeOK, ReclaimInv
<1>3. ApartInv => WriteOK(p) /\ RepackOK(p) /\ SweepOK(p) /\ MyReads(p)
  <2> SUFFICES ASSUME ApartInv, NEW o \in Listed(p), Pinned(p, o[2]) PROVE Readable(o)
    BY DEF ApartInv, MyReads
  <2> QED BY <1>2 DEF ApartInv, Listed, Pinned, MyLedger
<1>a. ASSUME Flush(p) PROVE ReclaimInv'
  <2>1. PICK R \in SUBSET Record, s \in Slab :
          /\ stage[p] = "idle" /\ Wrote(p, R, s) /\ Frame(p)
          /\ held'[p] = held[p] /\ release'[p] = release[p] /\ mem'[p] = mem[p]
          /\ UNCHANGED <<objects, catalog, ledger, moved, seized>>
    BY <1>a, FlushDoes
  <2>2. /\ Listed(p)' = Listed(p) /\ \A t : Pinned(p, t)' <=> Pinned(p, t)
    BY <2>1, SameFiles
  <2>3. FileOK(p)'
    BY <1>2, <2>1, <2>2 DEF FileOK, Wrote
  <2>4. Gentle(p) /\ NewUndead /\ Steady(p)
    BY <1>2, <2>1 DEF Gentle, NewUndead, Steady, Wrote, Pinned, MyLedger
  <2>5. ApartInv => MyReads(p)'
    BY <1>3, <2>1, <2>2 DEF MyReads, Readable, Wrote
  <2>6. WriteOK(p)'
    BY <1>2, <2>1, <2>2 DEF WriteOK, Wrote, FileOK
  <2>7. RepackOK(p)' /\ SweepOK(p)'
    BY <1>2, <2>1 DEF RepackOK, SweepOK, HandOK, Wrote
  <2> QED BY <1>1, <2>1, <2>3, <2>4, <2>5, <2>6, <2>7, ReclaimKept DEF Wrote
<1>b. ASSUME Repack(p) PROVE ReclaimInv'
  <2>1. PICK known \in {mem[p], catalog[DeviceOf[p]]}, R \in SUBSET Record, s \in Slab :
          /\ stage[p] = "idle" /\ Wrote(p, R, s) /\ Frame(p)
          /\ R = {o[1] : o \in Entries(known)}
          /\ \A o \in Entries(known) : Readable(o) /\ Pinned(p, o[2])
          /\ held'[p] = Entries(known) /\ mem'[p] = known
          /\ UNCHANGED <<objects, catalog, ledger, moved, seized>>
    BY <1>b, RepackDoes
  <2>2. /\ Listed(p)' = Listed(p) /\ \A t : Pinned(p, t)' <=> Pinned(p, t)
    BY <2>1, SameFiles
  <2>3. mem'[p] = mem[p] /\ Entries(known) = Listed(p) /\ mem[p] = catalog[DeviceOf[p]]
    BY <1>2, <2>1 DEF FileOK, Listed
  <2>4. FileOK(p)'
    BY <1>2, <2>1, <2>2, <2>3 DEF FileOK, Wrote
  <2>5. Gentle(p) /\ NewUndead /\ Steady(p)
    BY <1>2, <2>1 DEF Gentle, NewUndead, Steady, Wrote, Pinned, MyLedger
  <2>6. ApartInv => MyReads(p)'
    BY <1>3, <2>1, <2>2 DEF MyReads, Readable, Wrote
  <2>7. WriteOK(p)'
    BY <1>2, <2>1, <2>2 DEF WriteOK, Wrote, FileOK
  <2>8. \A o \in Entries(known) : <<o[1], s>> \in R \X {s} /\ o[2] # s
    BY <1>2, <2>1 DEF Readable, Wrote
  <2>9. RepackOK(p)'
    BY <2>1, <2>2, <2>3, <2>8 DEF RepackOK, Wrote
  <2>10. SweepOK(p)'
    BY <2>1 DEF SweepOK, Wrote
  <2> QED BY <1>1, <2>1, <2>4, <2>5, <2>6, <2>7, <2>9, <2>10, ReclaimKept DEF Wrote
<1>c. ASSUME NEW r \in Record, Forget(p, r) PROVE ReclaimInv'
  <2>1. /\ Frame(p) /\ UNCHANGED <<network, ledger, stage, work, history>>
        /\ catalog'[DeviceOf[p]] = [catalog[DeviceOf[p]] EXCEPT ![r] = NoSlab]
        /\ \E known \in {mem[p], catalog[DeviceOf[p]]} : mem'[p] = [known EXCEPT ![r] = NoSlab]
        /\ stage[p] = "idle"
    BY <1>c, ForgetDoes DEF Forget, Command, May
  <2>2. mem'[p] = catalog'[DeviceOf[p]] /\ Listed(p)' \subseteq Listed(p)
    BY <1>2, <2>1, Dropped DEF FileOK
  <2>3. FileOK(p)'
    BY <1>2, <2>1, <2>2 DEF FileOK, network, history
  <2>4. \A t : Pinned(p, t)' <=> Pinned(p, t)
    BY <2>1 DEF Pinned, MyLedger
  <2>5. Gentle(p) /\ NewUndead /\ Steady(p)
    BY <2>1 DEF Gentle, NewUndead, Steady, network, history, Pinned, MyLedger, Writing
  <2>6. ApartInv => MyReads(p)'
    BY <1>3, <2>1, <2>2, <2>4 DEF MyReads, Readable, network
  <2>7. WriteOK(p)' /\ RepackOK(p)' /\ SweepOK(p)'
    BY <2>1 DEF WriteOK, RepackOK, SweepOK, Writing
  <2> QED BY <1>1, <2>1, <2>3, <2>5, <2>6, <2>7, ReclaimKept DEF network, history
<1>d. ASSUME NEW all \in BOOLEAN, Reclaim(p, all) PROVE ReclaimInv'
  <2>1. PICK known \in {mem[p], catalog[DeviceOf[p]]} :
          /\ Frame(p) /\ stage'[p] = "walk"
          /\ mem'[p] = known /\ keep'[p] = Entries(known) /\ release'[p] = Releasable(p)
          /\ UNCHANGED <<network, device, history>>
    BY <1>d, ReclaimDoes
  <2>2. Listed(p)' = Listed(p) /\ \A t : Pinned(p, t)' <=> Pinned(p, t)
    BY <2>1, SameFiles DEF device
  <2>3. mem'[p] = mem[p] /\ keep'[p] = Listed(p)
    BY <1>2, <2>1 DEF FileOK, Listed
  <2>4. SweepOK(p)'
    BY <2>1, <2>2, <2>3 DEF SweepOK, Releasable, Pinned, MyLedger
  <2> QED BY <1>1, <2>1, <2>3, <2>4, QuietStep DEF history, Writing
<1>e. ASSUME ListPinned(p) PROVE ReclaimInv'
  BY <1>e, ListPinnedDoes DEF Beside
<1>f. ASSUME DropUnreadable(p) PROVE ReclaimInv'
  <2>1. /\ Frame(p) /\ stage[p] = "idle" /\ stage'[p] = "retire"
        /\ todo'[p] = {o \in objects : ~ Readable(o)}
        /\ UNCHANGED <<network, device, mem, release, history>>
    BY <1>f, DropUnreadableDoes
  <2>2. release'[p] = {} /\ \A o \in todo'[p] : o[2] \notin slabs'
    BY <1>2, <2>1 DEF HandOK, Readable, network
  <2>3. SweepOK(p)'
    BY <2>1, <2>2 DEF SweepOK
  <2> QED BY <1>1, <2>1, <2>3, QuietStep DEF history, Writing
<1>g. ASSUME TakeOwnership(p) PROVE ReclaimInv'
  <2>1. /\ Frame(p) /\ seized' # {} /\ seized \subseteq seized'
        /\ UNCHANGED <<network, catalog, mem, stage>>
    BY <1>g, TakeOwnershipDoes DEF TakeOwnership
  <2>2. FileOK(p)'
    BY <1>2, <2>1 DEF FileOK, Listed, Entries, network
  <2> QED BY <1>1, <2>1, <2>2, ReclaimKept DEF network
<1>h. ASSUME NEW how \in {"hydrate", "recover"}, Restore(p, how) PROVE ReclaimInv'
  <2>1. /\ Frame(p) /\ stage'[p] = how
        /\ IF how = "recover" THEN seized' # {} ELSE seized' = seized
        /\ UNCHANGED <<network, device, mem, moved>> /\ seized \subseteq seized'
    BY <1>h, RestoreDoes DEF Restore
  <2>2. SweepOK(p)'
    BY <2>1 DEF SweepOK
  <2> QED BY <1>1, <2>1, <2>2, QuietStep DEF Writing
<1>q. ASSUME PlanSweep(p) PROVE ReclaimInv'
  <2>1. /\ Frame(p) /\ stage[p] = "walk" /\ stage'[p] = "retire"
        /\ todo'[p] = {o \in objects : Readable(o) /\ o[2] \in release[p] /\ o \notin keep[p]}
        /\ release'[p] = release[p] \ SlabsOf(keep[p])
        /\ UNCHANGED <<network, device, mem, history>>
    BY <1>q, PlanSweepDoes
  <2>2. Listed(p)' = Listed(p) /\ \A t : Pinned(p, t)' <=> Pinned(p, t)
    BY <2>1, SameFiles DEF device
  <2>3. ASSUME ApartInv PROVE SweepOK(p)'
    <3>1. keep[p] = Listed(p) /\ \A s \in release[p] : Pinned(p, s)
      BY <1>3, <2>1, <2>3 DEF SweepOK
    <3>2. \A o \in Listed(p), s \in release'[p] : o[2] # s
      BY <2>1, <3>1 DEF SlabsOf
    <3>3. ASSUME NEW s \in release'[p], NEW o \in objects, o[2] = s
          PROVE  o \in todo'[p] \/ s \in moved
      <4>1. o \notin keep[p] /\ s \in release[p]
        BY <2>1, <3>1, <3>2, <3>3
      <4>2. s \in slabs => Readable(o)
        BY <3>3 DEF Readable
      <4>3. s \in slabs \union moved
        BY <2>3, <3>3 DEF ApartInv, UndeadMoved
      <4> QED BY <2>1, <3>3, <4>1, <4>2, <4>3
    <3>4. \A o \in todo'[p] : Pinned(p, o[2]) /\ o \notin Listed(p)
      BY <2>1, <3>1
    <3> QED BY <2>1, <2>2, <3>1, <3>2, <3>3, <3>4 DEF SweepOK, network, history
  <2> QED BY <1>1, <2>1, <2>3, QuietStep DEF history, Writing
<1>s. ASSUME Retired(p) PROVE ReclaimInv'
  <2>1. Frame(p) /\ Idle(p) /\ UNCHANGED <<network, device, mem, history>>
    BY <1>s, RetiredDoes
  <2>2. SweepOK(p)'
    BY <2>1 DEF SweepOK, Idle
  <2> QED BY <1>1, <2>1, <2>2, QuietStep DEF history, Writing, Idle
<1>t. ASSUME Restored(p) PROVE ReclaimInv'
  <2>1. Frame(p) /\ Idle(p) /\ UNCHANGED <<network, device, mem, history>>
    BY <1>t, RestoredDoes
  <2>2. SweepOK(p)'
    BY <2>1 DEF SweepOK, Idle
  <2> QED BY <1>1, <2>1, <2>2, QuietStep DEF history, Writing, Idle
<1>n. ASSUME NEW all \in BOOLEAN, ListOccupied(p, all) PROVE ReclaimInv'
  BY <1>2, <1>n DEF ListOccupied, FileOK
<1>i. ASSUME NEW o \in Object, PinObject(p, o) PROVE ReclaimInv'
  <2>1. /\ Frame(p) /\ stage[p] = "pin" /\ o \in todo[p] /\ o[2] \in slabs
        /\ objects' = objects \union {o}
        /\ \/ /\ todo[p] = {o} /\ todo'[p] = keep[p]
              /\ stage'[p] = (IF held[p] = {} THEN "catalogue" ELSE "track")
           \/ stage'[p] = "pin" /\ todo'[p] = todo[p] \ {o}
        /\ UNCHANGED <<slabs, spent, device, mem, slab, keep, held, release, history>>
    BY <1>i, PinObjectDoes
  <2>2. Listed(p)' = Listed(p) /\ \A t : Pinned(p, t)' <=> Pinned(p, t)
    BY <2>1, SameFiles DEF device
  <2>3. FileOK(p)'
    BY <1>2, <2>1, <2>2 DEF FileOK, device, history
  <2>4. ASSUME ApartInv
        PROVE  /\ Gentle(p) /\ NewUndead /\ Steady(p) /\ MyReads(p)'
               /\ WriteOK(p)' /\ RepackOK(p)' /\ SweepOK(p)'
    <3>1. /\ todo[p] \subseteq keep[p] /\ keep[p] \ todo[p] \subseteq objects
          /\ \A w \in keep[p] : w[2] = slab[p]
          /\ \A w \in Listed(p) : w[2] # slab[p]
      BY <1>2, <1>3, <2>1, <2>4 DEF WriteOK, HandOK, Writing
    <3>2. o[2] = slab[p] /\ slab[p] \in slabs'
      BY <2>1, <3>1
    <3>3. Gentle(p) /\ NewUndead
      BY <2>1, <3>2 DEF Gentle, NewUndead, history, Writing
    <3>4. Steady(p)
      BY <2>1, <3>2 DEF Steady, device, Pinned, MyLedger, Writing
    <3>5. MyReads(p)'
      BY <1>3, <2>1, <2>2, <2>4 DEF MyReads, Readable
    <3>6. WriteOK(p)'
      BY <2>1, <2>2, <3>1 DEF WriteOK, Writing
    <3>7. RepackOK(p)'
      BY <1>3, <2>1, <2>2, <2>4 DEF RepackOK, Writing
    <3>8. SweepOK(p)'
      BY <2>1 DEF SweepOK
    <3> QED BY <3>3, <3>4, <3>5, <3>6, <3>7, <3>8
  <2> QED BY <1>1, <2>1, <2>3, <2>4, ReclaimKept DEF history
<1>j. ASSUME NEW o \in Object, Catalogue(p, o) PROVE ReclaimInv'
  <2>1. /\ Frame(p) /\ stage[p] = "catalogue" /\ o \in todo[p]
        /\ catalog'[DeviceOf[p]] = [catalog[DeviceOf[p]] EXCEPT ![o[1]] = o[2]]
        /\ mem'[p] = [mem[p] EXCEPT ![o[1]] = o[2]]
        /\ \/ /\ todo[p] = {o} /\ held[p] # {}
              /\ stage'[p] = "retire" /\ todo'[p] = held[p]
              /\ release'[p] = SlabsOf(held[p]) \ {slab[p]}
              /\ moved' = moved \union release'[p]
           \/ /\ ~ (todo[p] = {o} /\ held[p] # {})
              /\ stage'[p] = (IF todo[p] = {o} THEN "track" ELSE "catalogue")
              /\ todo'[p] = todo[p] \ {o}
              /\ release'[p] = release[p] /\ moved' = moved
        /\ UNCHANGED <<network, ledger, slab, keep, held, seized, faults>>
    BY <1>j, CatalogueDoes
  <2>2. \A w \in Listed(p)' : w \in Object /\ (w = o \/ (w \in Listed(p) /\ w[1] # o[1]))
    BY <2>1, PointedAt
  <2>3. \A t : Pinned(p, t)' <=> Pinned(p, t)
    BY <2>1 DEF Pinned, MyLedger
  <2>4. FileOK(p)'
    BY <1>2, <2>1, <2>2 DEF FileOK, HandOK, network
  <2>5. ASSUME ApartInv
        PROVE  /\ Gentle(p) /\ NewUndead /\ Steady(p) /\ MyReads(p)'
               /\ WriteOK(p)' /\ RepackOK(p)' /\ SweepOK(p)'
    <3>1. /\ todo[p] \subseteq keep[p] /\ keep[p] \subseteq objects
          /\ \A w \in keep[p] : w[2] = slab[p]
          /\ \A w \in Listed(p) : w[2] = slab[p] => w \in keep[p]
      BY <1>2, <1>3, <2>1, <2>5 DEF WriteOK, HandOK, Writing
    <3>2. slab[p] \in slabs /\ o[2] = slab[p] /\ o \in keep[p]
      BY <2>1, <2>5, <3>1 DEF ApartInv, OwnInv, Writing
    <3>3. Gentle(p) /\ NewUndead
      BY <2>1 DEF Gentle, NewUndead, network
    <3>4. Steady(p)
      BY <2>1, <3>2 DEF Steady, network, Pinned, MyLedger, Writing
    <3>5. MyReads(p)'
      BY <1>3, <2>1, <2>2, <2>3, <2>5, <3>1, <3>2 DEF MyReads, Readable, network
    <3>6. WriteOK(p)'
      BY <2>1, <2>2, <3>1, <3>2 DEF WriteOK, Writing, network
    <3>7. held[p] # {} =>
            /\ \A w \in held[p] : Pinned(p, w[2]) /\ w[2] # slab[p] /\ <<w[1], slab[p]>> \in keep[p]
            /\ Listed(p) \subseteq held[p] \union keep[p]
            /\ \A w \in Listed(p) \cap held[p] : <<w[1], slab[p]>> \in todo[p]
      BY <1>3, <2>1, <2>5 DEF RepackOK, Writing
    <3>8. held[p] # {} => Listed(p)' \subseteq held[p] \union keep[p]
      BY <2>2, <3>2, <3>7
    <3>9. ASSUME NEW w \in Listed(p)', w \in held[p]
          PROVE  <<w[1], slab[p]>> \in todo[p] \ {o}
      <4>1. w \in Listed(p) /\ w[1] # o[1] /\ <<w[1], slab[p]>> \in todo[p]
        BY <2>2, <3>2, <3>7, <3>9
      <4>2. <<w[1], slab[p]>> # o
        BY <4>1
      <4> QED BY <4>1, <4>2
    <3>10. RepackOK(p)'
      BY <2>1, <2>3, <3>7, <3>8, <3>9 DEF RepackOK, Writing
    <3>11. SweepOK(p)'
      <4>1. CASE stage'[p] = "retire"
        <5>1. /\ todo[p] = {o} /\ held[p] # {} /\ todo'[p] = held[p]
              /\ release'[p] = SlabsOf(held[p]) \ {slab[p]} /\ release'[p] \subseteq moved'
          BY <2>1, <4>1
        <5>2. \A w \in held[p] : w \notin Listed(p)'
          BY <3>9, <5>1
        <5>3. \A s \in release'[p] : Pinned(p, s) /\ s # slab[p]
          BY <3>7, <5>1 DEF SlabsOf
        <5>4. \A w \in Listed(p)' : w[2] = slab[p]
          BY <3>1, <3>8, <5>1, <5>2
        <5>5. \A s \in release'[p] : \A w \in Listed(p)' : w[2] # s
          BY <5>3, <5>4
        <5>6. \A w \in todo'[p] : Pinned(p, w[2]) /\ w \notin Listed(p)'
          BY <3>7, <5>1, <5>2
        <5> QED BY <2>3, <4>1, <5>1, <5>3, <5>5, <5>6 DEF SweepOK
      <4>2. CASE stage'[p] # "retire"
        BY <2>1, <4>2 DEF SweepOK
      <4> QED BY <4>1, <4>2
    <3> QED BY <3>3, <3>4, <3>5, <3>6, <3>10, <3>11
  <2> QED BY <1>1, <2>1, <2>4, <2>5, ReclaimKept DEF network
<1>k. ASSUME NEW o \in Object, DeleteObject(p, o) PROVE ReclaimInv'
  <2>1. /\ Frame(p) /\ stage[p] = "retire" /\ o \in todo[p]
        /\ objects' = objects \ {o} /\ todo'[p] = todo[p] \ {o}
        /\ UNCHANGED <<slabs, spent, device, mem, stage, slab, keep, held, release, history>>
    BY <1>k, DeleteObjectDoes
  <2>2. /\ Listed(p)' = Listed(p) /\ \A t : Pinned(p, t)' <=> Pinned(p, t)
        /\ Steady(p)
    BY <2>1, SameFiles DEF device, Writing
  <2>3. FileOK(p)'
    BY <1>2, <2>1, <2>2 DEF FileOK, device, history
  <2>4. ASSUME ApartInv
        PROVE  /\ Gentle(p) /\ NewUndead /\ MyReads(p)'
               /\ WriteOK(p)' /\ RepackOK(p)' /\ SweepOK(p)'
    <3>1. o[2] \notin slabs \/ (Pinned(p, o[2]) /\ o \notin Listed(p))
      BY <1>3, <2>1, <2>4 DEF SweepOK
    <3>2. Gentle(p) /\ NewUndead
      BY <2>1, <3>1 DEF Gentle, NewUndead, history
    <3>3. MyReads(p)'
      BY <1>3, <2>1, <2>2, <2>4, <3>1 DEF MyReads, Readable
    <3>4. WriteOK(p)' /\ RepackOK(p)'
      BY <2>1 DEF WriteOK, RepackOK, Writing
    <3>5. SweepOK(p)'
      BY <1>3, <2>1, <2>2, <2>4 DEF SweepOK, history
    <3> QED BY <3>2, <3>3, <3>4, <3>5
  <2> QED BY <1>1, <2>1, <2>2, <2>3, <2>4, ReclaimKept DEF history
<1>l. ASSUME NEW o \in Object, RestoreObject(p, o) PROVE ReclaimInv'
  <2>1. /\ Frame(p) /\ stage[p] \in {"hydrate", "recover"} /\ o \in todo[p] /\ Readable(o)
        /\ catalog'[DeviceOf[p]] = [catalog[DeviceOf[p]] EXCEPT ![o[1]] = o[2]]
        /\ mem'[p] = [mem[p] EXCEPT ![o[1]] = o[2]]
        /\ ledger'[DeviceOf[p]][o[2]] =
             IF Pinned(p, o[2]) \/ stage[p] = "recover" THEN "pinned" ELSE "hydrated"
        /\ \A s \in Slab \ {o[2]} : ledger'[DeviceOf[p]][s] = ledger[DeviceOf[p]][s]
        /\ UNCHANGED <<network, stage, slab, keep, held, release, history>>
    BY <1>l, RestoreObjectDoes
  <2>2. \A w \in Listed(p)' : w \in Object /\ (w = o \/ (w \in Listed(p) /\ w[1] # o[1]))
    BY <2>1, PointedAt
  <2>3. FileOK(p)'
    BY <1>2, <2>1, <2>2 DEF FileOK, HandOK, network, history
  <2>4. ASSUME ApartInv, seized' = {}
        PROVE  /\ Gentle(p) /\ NewUndead /\ Steady(p) /\ MyReads(p)'
               /\ WriteOK(p)' /\ RepackOK(p)' /\ SweepOK(p)'
    <3>1. stage[p] = "hydrate"
      BY <1>2, <2>1, <2>4 DEF FileOK, history
    <3>2. \A s \in Slab : Pinned(p, s)' <=> Pinned(p, s)
      BY <2>1, <3>1 DEF Pinned, MyLedger
    <3>3. Gentle(p) /\ NewUndead
      BY <2>1 DEF Gentle, NewUndead, network, history
    <3>4. Steady(p)
      BY <2>1, <3>1, <3>2 DEF Steady, Writing, Pinned, MyLedger
    <3>5. MyReads(p)'
      <4> SUFFICES ASSUME NEW w \in Listed(p)', Pinned(p, w[2])' PROVE Readable(w)'
        BY DEF MyReads
      <4>1. Readable(w)' <=> Readable(w)
        BY <2>1 DEF Readable, network
      <4>2. w = o \/ (w \in Listed(p) /\ Pinned(p, w[2]))
        BY <2>2, <3>2 DEF Object
      <4> QED BY <1>3, <2>1, <2>4, <4>1, <4>2 DEF MyReads
    <3>6. WriteOK(p)' /\ RepackOK(p)' /\ SweepOK(p)'
      BY <2>1, <3>1 DEF WriteOK, RepackOK, SweepOK, Writing
    <3> QED BY <3>3, <3>4, <3>5, <3>6
  <2> QED BY <1>1, <2>1, <2>3, <2>4, ReclaimKept DEF network, history
<1>m. ASSUME NEW s \in Slab, UnpinSlab(p, s) PROVE ReclaimInv'
  <2>1. /\ Frame(p) /\ stage[p] = "retire" /\ stage'[p] = "unlist"
        /\ todo[p] = {} /\ s \in release[p]
        /\ slabs' = slabs \ {s} /\ slab'[p] = s /\ release'[p] = release[p] \ {s}
        /\ UNCHANGED <<objects, spent, device, mem, keep, held, todo, history>>
    BY <1>m, UnpinSlabDoes
  <2>2. /\ Listed(p)' = Listed(p) /\ \A t : Pinned(p, t)' <=> Pinned(p, t)
        /\ Steady(p)
    BY <2>1, SameFiles DEF device, Writing
  <2>3. FileOK(p)'
    BY <1>2, <2>1, <2>2 DEF FileOK, device, history
  <2>4. ASSUME ApartInv
        PROVE  /\ Gentle(p) /\ NewUndead /\ MyReads(p)'
               /\ WriteOK(p)' /\ RepackOK(p)' /\ SweepOK(p)'
    <3>1. \A t \in release[p] :
            /\ Pinned(p, t) /\ \A w \in Listed(p) : w[2] # t
            /\ \A w \in objects : w[2] = t => w \in todo[p] \/ t \in moved
      BY <1>3, <2>1, <2>4 DEF SweepOK
    <3>2. Gentle(p) /\ NewUndead
      BY <2>1, <3>1 DEF Gentle, NewUndead, history
    <3>3. MyReads(p)'
      BY <1>3, <2>1, <2>2, <2>4, <3>1 DEF MyReads, Readable
    <3>4. WriteOK(p)' /\ RepackOK(p)'
      BY <2>1 DEF WriteOK, RepackOK, Writing
    <3>5. SweepOK(p)'
      BY <2>1, <2>2, <3>1 DEF SweepOK, history
    <3> QED BY <3>2, <3>3, <3>4, <3>5
  <2> QED BY <1>1, <2>1, <2>2, <2>3, <2>4, ReclaimKept DEF history
<1>o. ASSUME Track(p) PROVE ReclaimInv'
  <2>0. stage[p] = "track" /\ slab[p] \in Slab
    BY <1>2, <1>o DEF Track, HandOK, Writing
  <2>1. /\ Frame(p)
        /\ ledger'[DeviceOf[p]][slab[p]] = "pinned"
        /\ \A s \in Slab \ {slab[p]} : ledger'[DeviceOf[p]][s] = ledger[DeviceOf[p]][s]
        /\ \/ held[p] = {} /\ Idle(p)
           \/ /\ held[p] # {} /\ stage'[p] = "catalogue" /\ slab'[p] = slab[p] /\ keep'[p] = keep[p]
              /\ held'[p] = held[p] /\ todo'[p] = todo[p]
        /\ UNCHANGED <<network, catalog, mem, history>>
    BY <1>o, <2>0, TrackDoes
  <2>2. /\ Listed(p)' = Listed(p)
        /\ \A s \in Slab : Pinned(p, s)' <=> (Pinned(p, s) \/ s = slab[p])
    BY <2>1 DEF Listed, Entries, Pinned, MyLedger
  <2>3. FileOK(p)'
    BY <1>2, <2>1, <2>2 DEF FileOK, network, history, Idle
  <2>4. ASSUME ApartInv
        PROVE  /\ Gentle(p) /\ NewUndead /\ Steady(p) /\ MyReads(p)'
               /\ WriteOK(p)' /\ RepackOK(p)' /\ SweepOK(p)'
    <3>1. /\ todo[p] \subseteq keep[p] /\ keep[p] \subseteq objects
          /\ \A w \in Listed(p) : w[2] = slab[p] => w \in keep[p]
          /\ slab[p] \in slabs
      BY <1>3, <2>0, <2>4 DEF WriteOK, Writing, ApartInv, OwnInv
    <3>2. Gentle(p) /\ NewUndead
      BY <2>1 DEF Gentle, NewUndead, network, history
    <3>3. Steady(p)
      BY <2>0, <2>1, <2>2, <3>1 DEF Steady, Writing, Idle, Pinned, MyLedger, network
    <3>4. MyReads(p)'
      <4> SUFFICES ASSUME NEW w \in Listed(p), Pinned(p, w[2])' PROVE Readable(w)
        BY <2>1, <2>2 DEF MyReads, Readable, network
      <4>1. Pinned(p, w[2]) \/ w[2] = slab[p]
        BY <2>2 DEF Listed, Entries, Object
      <4> QED BY <1>3, <2>4, <3>1, <4>1 DEF MyReads, Readable
    <3>5. WriteOK(p)'
      BY <2>1, <2>2, <3>1 DEF WriteOK, Writing, Idle, network
    <3>6. RepackOK(p)'
      <4>1. CASE held[p] = {}
        BY <2>1, <4>1 DEF RepackOK, Idle
      <4>2. CASE held[p] # {}
        <5>1. /\ todo[p] = keep[p] /\ Listed(p) \subseteq held[p] \union keep[p]
              /\ \A w \in held[p] : Pinned(p, w[2]) /\ w[2] # slab[p]
                                      /\ <<w[1], slab[p]>> \in keep[p]
          BY <1>3, <2>0, <2>4, <4>2 DEF RepackOK, Writing
        <5>2. \A w \in held[p] : Pinned(p, w[2])'
          BY <2>2, <5>1, WorkTypes DEF Object
        <5> QED BY <2>1, <2>2, <4>2, <5>1, <5>2 DEF RepackOK, Writing
      <4> QED BY <4>1, <4>2
    <3>7. SweepOK(p)'
      BY <2>1 DEF SweepOK, Idle
    <3> QED BY <3>2, <3>3, <3>4, <3>5, <3>6, <3>7
  <2> QED BY <1>1, <2>1, <2>3, <2>4, ReclaimKept DEF network, history
<1>r. ASSUME ForgetSlab(p) PROVE ReclaimInv'
  <2>0. stage[p] = "unlist" /\ slab[p] \in Slab
    BY <1>2, <1>r DEF ForgetSlab, HandOK
  <2>1. /\ Frame(p) /\ stage'[p] = "retire" /\ slab'[p] = NoSlab
        /\ ledger'[DeviceOf[p]][slab[p]] = "none"
        /\ \A s \in Slab \ {slab[p]} : ledger'[DeviceOf[p]][s] = ledger[DeviceOf[p]][s]
        /\ UNCHANGED <<network, catalog, mem, keep, held, todo, release, history>>
    BY <1>r, <2>0, ForgetSlabDoes
  <2>2. /\ Listed(p)' = Listed(p)
        /\ \A s \in Slab : Pinned(p, s)' <=> (Pinned(p, s) /\ s # slab[p])
    BY <2>1 DEF Listed, Entries, Pinned, MyLedger
  <2>3. FileOK(p)'
    BY <1>2, <2>1, <2>2 DEF FileOK, network, history
  <2>4. ASSUME ApartInv
        PROVE  /\ Gentle(p) /\ NewUndead /\ Steady(p) /\ MyReads(p)'
               /\ WriteOK(p)' /\ RepackOK(p)' /\ SweepOK(p)'
    <3>1. /\ slab[p] \notin release[p] /\ todo[p] = {}
          /\ \A t \in release[p] :
               /\ Pinned(p, t) /\ \A w \in Listed(p) : w[2] # t
               /\ \A w \in objects : w[2] = t => w \in todo[p] \/ t \in moved
      BY <1>3, <2>0, <2>4 DEF SweepOK
    <3>2. Gentle(p) /\ NewUndead
      BY <2>1 DEF Gentle, NewUndead, network, history
    <3>3. Steady(p)
      BY <2>1, <2>2 DEF Steady, Writing, Pinned, MyLedger
    <3>4. MyReads(p)'
      <4> SUFFICES ASSUME NEW w \in Listed(p), Pinned(p, w[2])' PROVE Readable(w)
        BY <2>1, <2>2 DEF MyReads, Readable, network
      <4>1. Pinned(p, w[2])
        BY <2>2 DEF Listed, Entries, Object
      <4> QED BY <1>3, <2>4, <4>1 DEF MyReads
    <3>5. WriteOK(p)' /\ RepackOK(p)'
      BY <2>1 DEF WriteOK, RepackOK, Writing
    <3>6. \A t \in release[p] : Pinned(p, t)'
      BY <2>2, <3>1, WorkTypes
    <3>7. SweepOK(p)'
      BY <2>1, <2>2, <3>1, <3>6 DEF SweepOK, network, history
    <3> QED BY <3>2, <3>3, <3>4, <3>5, <3>7
  <2> QED BY <1>1, <2>1, <2>3, <2>4, ReclaimKept DEF network, history
<1>u. ASSUME Fail(p) PROVE ReclaimInv'
  <2>1. /\ Frame(p) /\ Idle(p)
        /\ \/ catalog' = catalog /\ mem' = mem
           \/ \E o \in todo[p] :
                /\ Readable(o)
                /\ catalog'[DeviceOf[p]] = [catalog[DeviceOf[p]] EXCEPT ![o[1]] = o[2]]
                /\ mem'[p] = [mem[p] EXCEPT ![o[1]] = o[2]]
        /\ UNCHANGED <<network, ledger, moved, seized>>
    BY <1>u, FailDoes
  <2>2. /\ mem'[p] = catalog'[DeviceOf[p]]
        /\ \A w \in Listed(p)' : w \in Listed(p) \/ Readable(w)
    <3>1. CASE catalog' = catalog /\ mem' = mem
      BY <1>2, <3>1 DEF FileOK, Listed, Entries
    <3>2. ASSUME NEW o \in todo[p], Readable(o),
                 catalog'[DeviceOf[p]] = [catalog[DeviceOf[p]] EXCEPT ![o[1]] = o[2]],
                 mem'[p] = [mem[p] EXCEPT ![o[1]] = o[2]]
          PROVE  /\ mem'[p] = catalog'[DeviceOf[p]]
                 /\ \A w \in Listed(p)' : w \in Listed(p) \/ Readable(w)
      <4>1. o \in Object
        BY WorkTypes
      <4> QED BY <1>2, <3>2, <4>1, PointedAt DEF FileOK
    <3> QED BY <2>1, <3>1, <3>2
  <2>3. FileOK(p)'
    BY <1>2, <2>1, <2>2 DEF FileOK, network, Idle, Readable
  <2>4. \A t : Pinned(p, t)' <=> Pinned(p, t)
    BY <2>1 DEF Pinned, MyLedger
  <2>5. Gentle(p) /\ NewUndead /\ Steady(p)
    BY <2>1 DEF Gentle, NewUndead, Steady, network, Idle, Writing, Pinned, MyLedger
  <2>6. ApartInv => MyReads(p)'
    BY <1>3, <2>1, <2>2, <2>4 DEF MyReads, Readable, network
  <2>7. WriteOK(p)' /\ RepackOK(p)' /\ SweepOK(p)'
    BY <2>1 DEF WriteOK, RepackOK, SweepOK, Writing, Idle
  <2> QED BY <1>1, <2>1, <2>3, <2>5, <2>6, <2>7, ReclaimKept DEF network
<1> QED BY <1>a, <1>b, <1>c, <1>d, <1>e, <1>f, <1>g, <1>h, <1>i, <1>j, <1>k, <1>l, <1>m, <1>n,
           <1>o, <1>q, <1>r, <1>s, <1>t, <1>u DEF Start, Continue

LEMMA InitReclaim == Init => ReclaimInv
<1> SUFFICES ASSUME Init PROVE ReclaimInv
  OBVIOUS
<1>1. \A d \in Device : Entries(catalog[d]) = {}
  BY NoSlabAssumption DEF Init, Entries, Object
<1>2. \A p \in Proc : Listed(p) = {} /\ mem[p] = catalog[DeviceOf[p]]
  BY <1>1, DeviceAssumption DEF Init, Listed
<1>3. OwnInv /\ UndeadMoved
  BY DEF Init, OwnInv, UndeadMoved, Writing
<1>4. \A p \in Proc : WriteOK(p) /\ RepackOK(p) /\ SweepOK(p)
  BY DEF Init, WriteOK, RepackOK, SweepOK, Writing
<1> QED BY <1>1, <1>2, <1>3, <1>4 DEF Init, ReclaimInv, FileOK, ApartInv

(* With one process to a device and no orphan scan, the device that pinned  *)
(* a slab goes on reading its entries there, whatever the others do.        *)
THEOREM WritersKeepReading ==
  ASSUME Beside
  PROVE  Spec => []WriterKeepsReading
<1>1. Init => TypeOK /\ PaidInv /\ ReclaimInv
  BY InitTyped, InitPaid, InitReclaim
<1>2. TypeOK /\ PaidInv /\ ReclaimInv /\ [Next]_vars => (TypeOK /\ PaidInv /\ ReclaimInv)'
  BY StepTyped, PaidStep, ReclaimStep
<1>3. ReclaimInv => WriterKeepsReading
  BY DEF ReclaimInv, ApartInv, WriterKeepsReading
<1> QED BY <1>1, <1>2, <1>3, PTL DEF Spec

(* And no object outlives its slab, but on a slab a repack retires.         *)
THEOREM ObjectsGoFirst ==
  ASSUME Beside, Overlap
  PROVE  Spec => []ObjectsDieFirst
<1>1. Init => TypeOK /\ PaidInv /\ ReclaimInv
  BY InitTyped, InitPaid, InitReclaim
<1>2. TypeOK /\ PaidInv /\ ReclaimInv /\ [Next]_vars => (TypeOK /\ PaidInv /\ ReclaimInv)'
  BY StepTyped, PaidStep, ReclaimStep
<1>3. ReclaimInv => ObjectsDieFirst
  BY DEF ReclaimInv, ApartInv, UndeadMoved, ObjectsDieFirst
<1> QED BY <1>1, <1>2, <1>3, PTL DEF Spec

-----------------------------------------------------------------------------
(* A single process never destroys what the file lists.                     *)
LEMMA AloneKept ==
  ASSUME OneProcess, AloneInv, NEW p \in Proc, Frame(p),
         SpareOK(p)' /\ WriteOK(p)' /\ RepackOK(p)'
  PROVE  AloneInv'
<1>1. \A q \in Proc : q = p
  BY DEF OneProcess
<1>2. ASSUME NEW d \in Device, Entries(catalog[d])' # {} PROVE \E q \in Proc : DeviceOf[q] = d
  <2>1. CASE d = DeviceOf[p]
    BY <2>1
  <2>2. CASE d # DeviceOf[p]
    BY <1>2, <2>2 DEF Frame, Entries, AloneInv
  <2> QED BY <2>1, <2>2
<1> QED BY <1>1, <1>2 DEF AloneInv

(* A step that touches neither the network nor the files, nor is one of     *)
(* writing.                                                                *)
LEMMA QuietAlone ==
  ASSUME OneProcess, AloneInv, NEW p \in Proc, Frame(p),
         UNCHANGED <<slabs, objects, catalog>>, mem'[p] = mem[p],
         stage'[p] \notin Writing,
         stage'[p] = "walk" => keep'[p] = Listed(p),
         stage'[p] = "occupancy" => todo'[p] = {},
         stage'[p] \in {"retire", "unlist"} =>
           \A o \in Listed(p) : o \notin todo'[p] /\ o[2] \notin release'[p]
  PROVE  AloneInv'
<1>1. Listed(p)' = Listed(p)
  BY DEF Listed, Entries
<1>2. \A o \in Listed(p) : Readable(o) /\ Readable(o)'
  BY DEF AloneInv, SpareOK, Readable
<1>3. SpareOK(p)'
  BY <1>1, <1>2 DEF AloneInv, SpareOK
<1>4. WriteOK(p)' /\ RepackOK(p)'
  BY DEF WriteOK, RepackOK
<1> QED BY <1>3, <1>4, AloneKept

LEMMA AloneStep ==
  ASSUME OneProcess
  PROVE  TypeOK /\ PaidInv /\ AloneInv /\ [Next]_vars => AloneInv'
<1> SUFFICES ASSUME TypeOK, PaidInv, AloneInv, [Next]_vars PROVE AloneInv'
  OBVIOUS
<1>0. CASE UNCHANGED vars
  <2>1. /\ slabs' = slabs /\ objects' = objects /\ catalog' = catalog /\ ledger' = ledger
        /\ mem' = mem /\ stage' = stage /\ slab' = slab /\ keep' = keep /\ held' = held
        /\ todo' = todo /\ release' = release
    BY <1>0 DEF vars, network, device, work
  <2> QED BY <2>1 DEF AloneInv, SpareOK, Listed, Entries, WriteOK, RepackOK, Readable, Pinned,
                      MyLedger
<1> SUFFICES ASSUME NEW p \in Proc, Start(p) \/ Continue(p) \/ Fail(p) PROVE AloneInv'
  BY <1>0 DEF Next
<1>1. /\ HandOK(p) /\ slabs \subseteq spent /\ spent \subseteq Slab /\ DeviceOf[p] \in Device
      /\ SpareOK(p) /\ WriteOK(p) /\ RepackOK(p)
  BY DeviceAssumption DEF PaidInv, TypeOK, AloneInv
<1>2. mem[p] = catalog[DeviceOf[p]] /\ \A o \in Listed(p) : Readable(o)
  BY <1>1 DEF SpareOK
<1>a. ASSUME Flush(p) PROVE AloneInv'
  <2>1. PICK R \in SUBSET Record, s \in Slab :
          /\ stage[p] = "idle" /\ Wrote(p, R, s) /\ Frame(p)
          /\ held'[p] = held[p] /\ mem'[p] = mem[p]
          /\ UNCHANGED <<objects, catalog, ledger>>
    BY <1>a, FlushDoes
  <2>2. Listed(p)' = Listed(p) /\ \A o \in Listed(p) : Readable(o)' /\ o[2] # s
    BY <1>1, <1>2, <2>1, SameFiles DEF Readable, Wrote
  <2>3. SpareOK(p)' /\ WriteOK(p)'
    BY <1>2, <2>1, <2>2 DEF SpareOK, WriteOK, Wrote
  <2>4. RepackOK(p)'
    BY <1>1, <2>1 DEF RepackOK, HandOK
  <2> QED BY <2>1, <2>3, <2>4, AloneKept
<1>b. ASSUME Repack(p) PROVE AloneInv'
  <2>1. PICK known \in {mem[p], catalog[DeviceOf[p]]}, R \in SUBSET Record, s \in Slab :
          /\ stage[p] = "idle" /\ Wrote(p, R, s) /\ Frame(p)
          /\ R = {o[1] : o \in Entries(known)}
          /\ \A o \in Entries(known) : Readable(o) /\ Pinned(p, o[2])
          /\ held'[p] = Entries(known) /\ mem'[p] = known
          /\ UNCHANGED <<objects, catalog, ledger>>
    BY <1>b, RepackDoes
  <2>2. /\ Listed(p)' = Listed(p) /\ \A o \in Listed(p) : Readable(o)' /\ o[2] # s
        /\ \A t : Pinned(p, t)' <=> Pinned(p, t)
    BY <1>1, <1>2, <2>1, SameFiles DEF Readable, Wrote
  <2>3. known = mem[p] /\ Entries(known) = Listed(p)
    BY <1>2, <2>1 DEF Listed
  <2>4. SpareOK(p)' /\ WriteOK(p)'
    BY <1>2, <2>1, <2>2, <2>3 DEF SpareOK, WriteOK, Wrote
  <2>5. \A o \in Entries(known) : <<o[1], s>> \in R \X {s} /\ o[2] # s
    BY <2>1, <2>2, <2>3
  <2>6. RepackOK(p)'
    BY <2>1, <2>2, <2>3, <2>5 DEF RepackOK, Wrote
  <2> QED BY <2>1, <2>4, <2>6, AloneKept
<1>c. ASSUME NEW r \in Record, Forget(p, r) PROVE AloneInv'
  <2>1. /\ Frame(p) /\ UNCHANGED <<network, ledger, stage, work, history>>
        /\ catalog'[DeviceOf[p]] = [catalog[DeviceOf[p]] EXCEPT ![r] = NoSlab]
        /\ \E known \in {mem[p], catalog[DeviceOf[p]]} : mem'[p] = [known EXCEPT ![r] = NoSlab]
        /\ stage[p] = "idle"
    BY <1>c, ForgetDoes DEF Forget, Command, May
  <2>2. mem'[p] = catalog'[DeviceOf[p]] /\ Listed(p)' \subseteq Listed(p)
    BY <1>2, <2>1, Dropped
  <2>3. SpareOK(p)'
    BY <1>2, <2>1, <2>2 DEF SpareOK, Readable, network, Writing
  <2>4. WriteOK(p)' /\ RepackOK(p)'
    BY <2>1 DEF WriteOK, RepackOK, Writing
  <2> QED BY <2>1, <2>3, <2>4, AloneKept
<1>d. ASSUME NEW all \in BOOLEAN, Reclaim(p, all) PROVE AloneInv'
  <2>1. PICK known \in {mem[p], catalog[DeviceOf[p]]} :
          /\ Frame(p) /\ stage'[p] = "walk" /\ mem'[p] = known /\ keep'[p] = Entries(known)
          /\ UNCHANGED <<network, device>>
    BY <1>d, ReclaimDoes
  <2>2. mem'[p] = mem[p] /\ keep'[p] = Listed(p)
    BY <1>2, <2>1 DEF Listed
  <2> QED BY <2>1, <2>2, QuietAlone DEF Writing, network, device
<1>e. ASSUME ListPinned(p) PROVE AloneInv'
  <2>1. /\ Frame(p) /\ stage[p] = "idle" /\ stage'[p] = "occupancy"
        /\ UNCHANGED <<network, device, mem, todo>>
    BY <1>e, ListPinnedDoes DEF ListPinned, Command, May
  <2>2. todo'[p] = {}
    BY <1>1, <2>1 DEF HandOK
  <2> QED BY <2>1, <2>2, QuietAlone DEF Writing, network, device
<1>f. ASSUME DropUnreadable(p) PROVE AloneInv'
  <2>1. /\ Frame(p) /\ stage[p] = "idle" /\ stage'[p] = "retire"
        /\ todo'[p] = {o \in objects : ~ Readable(o)}
        /\ UNCHANGED <<network, device, mem, release>>
    BY <1>f, DropUnreadableDoes
  <2>2. release'[p] = {} /\ \A o \in Listed(p) : o \notin todo'[p]
    BY <1>1, <1>2, <2>1 DEF HandOK
  <2> QED BY <2>1, <2>2, QuietAlone DEF Writing, network, device
<1>g. ASSUME TakeOwnership(p) PROVE AloneInv'
  <2>1. Frame(p) /\ stage[p] = "idle" /\ UNCHANGED <<network, catalog, mem, stage>>
    BY <1>g, TakeOwnershipDoes DEF TakeOwnership, Command, May
  <2> QED BY <2>1, QuietAlone DEF Writing, network
<1>h. ASSUME NEW how \in {"hydrate", "recover"}, Restore(p, how) PROVE AloneInv'
  <2>1. Frame(p) /\ stage'[p] = how /\ UNCHANGED <<network, device, mem>>
    BY <1>h, RestoreDoes DEF Restore
  <2> QED BY <2>1, QuietAlone DEF Writing, network, device
<1>q. ASSUME PlanSweep(p) PROVE AloneInv'
  <2>1. /\ Frame(p) /\ stage[p] = "walk" /\ stage'[p] = "retire"
        /\ todo'[p] = {o \in objects : Readable(o) /\ o[2] \in release[p] /\ o \notin keep[p]}
        /\ release'[p] = release[p] \ SlabsOf(keep[p])
        /\ UNCHANGED <<network, device, mem>>
    BY <1>q, PlanSweepDoes
  <2>2. keep[p] = Listed(p)
    BY <1>1, <2>1 DEF SpareOK
  <2>3. \A o \in Listed(p) : o \notin todo'[p] /\ o[2] \notin release'[p]
    BY <2>1, <2>2 DEF SlabsOf
  <2> QED BY <2>1, <2>3, QuietAlone DEF Writing, network, device
<1>s. ASSUME Retired(p) PROVE AloneInv'
  BY <1>s, RetiredDoes, QuietAlone DEF Idle, Writing, network, device
<1>t. ASSUME Restored(p) PROVE AloneInv'
  BY <1>t, RestoredDoes, QuietAlone DEF Idle, Writing, network, device
<1>n. ASSUME NEW all \in BOOLEAN, ListOccupied(p, all) PROVE AloneInv'
  <2>1. /\ Frame(p) /\ stage[p] = "occupancy" /\ UNCHANGED <<network, device, mem>>
        /\ \/ Idle(p)
           \/ /\ stage'[p] = "retire" /\ todo'[p] = todo[p]
              /\ release'[p] = release[p] \ SlabsOf({o \in objects : Readable(o)})
    BY <1>n, ListOccupiedDoes
  <2>2. todo[p] = {} /\ \A o \in Listed(p) : o[2] \in SlabsOf({w \in objects : Readable(w)})
    BY <1>1, <1>2, <2>1 DEF SpareOK, SlabsOf, Readable
  <2> QED BY <2>1, <2>2, QuietAlone DEF Idle, Writing, network, device
<1>i. ASSUME NEW o \in Object, PinObject(p, o) PROVE AloneInv'
  <2>1. /\ Frame(p) /\ stage[p] = "pin" /\ o \in todo[p]
        /\ objects' = objects \union {o}
        /\ \/ /\ todo[p] = {o} /\ todo'[p] = keep[p]
              /\ stage'[p] = (IF held[p] = {} THEN "catalogue" ELSE "track")
           \/ stage'[p] = "pin" /\ todo'[p] = todo[p] \ {o}
        /\ UNCHANGED <<slabs, catalog, ledger, mem, slab, keep, held>>
    BY <1>i, PinObjectDoes DEF device
  <2>2. Listed(p)' = Listed(p) /\ \A t : Pinned(p, t)' <=> Pinned(p, t)
    BY <2>1, SameFiles
  <2>3. SpareOK(p)'
    BY <1>1, <2>1, <2>2 DEF SpareOK, Readable, Writing
  <2>4. WriteOK(p)'
    BY <1>1, <2>1, <2>2 DEF WriteOK, Writing
  <2>5. RepackOK(p)'
    BY <1>1, <2>1, <2>2 DEF RepackOK, Writing
  <2> QED BY <2>1, <2>3, <2>4, <2>5, AloneKept
<1>j. ASSUME NEW o \in Object, Catalogue(p, o) PROVE AloneInv'
  <2>1. /\ Frame(p) /\ stage[p] = "catalogue" /\ o \in todo[p]
        /\ catalog'[DeviceOf[p]] = [catalog[DeviceOf[p]] EXCEPT ![o[1]] = o[2]]
        /\ mem'[p] = [mem[p] EXCEPT ![o[1]] = o[2]]
        /\ \/ /\ todo[p] = {o} /\ held[p] # {}
              /\ stage'[p] = "retire" /\ todo'[p] = held[p]
              /\ release'[p] = SlabsOf(held[p]) \ {slab[p]}
           \/ /\ ~ (todo[p] = {o} /\ held[p] # {})
              /\ stage'[p] = (IF todo[p] = {o} THEN "track" ELSE "catalogue")
              /\ todo'[p] = todo[p] \ {o}
        /\ UNCHANGED <<slabs, objects, ledger, slab, keep, held>>
    BY <1>j, CatalogueDoes DEF network
  <2>2. \A w \in Listed(p)' : w \in Object /\ (w = o \/ (w \in Listed(p) /\ w[1] # o[1]))
    BY <2>1, PointedAt
  <2>3. \A t : Pinned(p, t)' <=> Pinned(p, t)
    BY <2>1 DEF Pinned, MyLedger
  <2>4. /\ todo[p] \subseteq keep[p] /\ keep[p] \subseteq objects
        /\ \A w \in keep[p] : w[2] = slab[p]
        /\ \A w \in Listed(p) : w[2] = slab[p] => w \in keep[p]
        /\ slab[p] \in slabs
    BY <1>1, <2>1 DEF SpareOK, WriteOK, HandOK, Writing
  <2>5. o \in keep[p] /\ o[2] = slab[p] /\ Readable(o)
    BY <2>1, <2>4 DEF Readable
  <2>6. mem'[p] = catalog'[DeviceOf[p]] /\ \A w \in Listed(p)' : Readable(w)'
    BY <1>2, <2>1, <2>2, <2>5 DEF Readable
  <2>7. WriteOK(p)'
    BY <2>1, <2>2, <2>4, <2>5 DEF WriteOK, Writing
  <2>8. held[p] # {} =>
          /\ \A w \in held[p] : Pinned(p, w[2]) /\ w[2] # slab[p] /\ <<w[1], slab[p]>> \in keep[p]
          /\ Listed(p)' \subseteq held[p] \union keep[p]
          /\ \A w \in Listed(p) \cap held[p] : <<w[1], slab[p]>> \in todo[p]
    BY <1>1, <2>1, <2>2, <2>5 DEF RepackOK, Writing
  <2>9. ASSUME NEW w \in Listed(p)', w \in held[p]
        PROVE  <<w[1], slab[p]>> \in todo[p] \ {o}
    <3>1. w \in Listed(p) /\ w[1] # o[1] /\ <<w[1], slab[p]>> \in todo[p]
      BY <2>2, <2>5, <2>8, <2>9
    <3>2. <<w[1], slab[p]>> # o
      BY <3>1
    <3> QED BY <3>1, <3>2
  <2>10. RepackOK(p)'
    BY <2>1, <2>3, <2>8, <2>9 DEF RepackOK, Writing
  <2>11. SpareOK(p)'
    <3>1. CASE stage'[p] = "retire"
      <4>1. /\ todo[p] = {o} /\ held[p] # {} /\ todo'[p] = held[p]
            /\ release'[p] = SlabsOf(held[p]) \ {slab[p]}
        BY <2>1, <3>1
      <4>2. \A w \in Listed(p)' : w \notin held[p]
        BY <2>9, <4>1
      <4>3. \A w \in Listed(p)' : w[2] = slab[p]
        BY <2>4, <2>8, <4>1, <4>2
      <4> QED BY <2>6, <3>1, <4>1, <4>2, <4>3 DEF SpareOK, Writing
    <3>2. CASE stage'[p] # "retire"
      BY <2>1, <2>4, <2>6, <3>2 DEF SpareOK, Writing
    <3> QED BY <3>1, <3>2
  <2> QED BY <2>1, <2>7, <2>10, <2>11, AloneKept
<1>k. ASSUME NEW o \in Object, DeleteObject(p, o) PROVE AloneInv'
  <2>1. /\ Frame(p) /\ stage[p] = "retire" /\ o \in todo[p]
        /\ objects' = objects \ {o} /\ todo'[p] = todo[p] \ {o}
        /\ UNCHANGED <<slabs, catalog, ledger, mem, stage, release>>
    BY <1>k, DeleteObjectDoes DEF device
  <2>2. Listed(p)' = Listed(p) /\ \A w \in Listed(p) : w \notin todo[p] /\ w[2] \notin release[p]
    BY <1>1, <2>1, SameFiles DEF SpareOK
  <2>3. SpareOK(p)'
    BY <1>2, <2>1, <2>2 DEF SpareOK, Readable, Writing
  <2>4. WriteOK(p)' /\ RepackOK(p)'
    BY <2>1 DEF WriteOK, RepackOK, Writing
  <2> QED BY <2>1, <2>3, <2>4, AloneKept
<1>l. ASSUME NEW o \in Object, RestoreObject(p, o) PROVE AloneInv'
  <2>1. /\ Frame(p) /\ stage[p] \in {"hydrate", "recover"} /\ Readable(o)
        /\ catalog'[DeviceOf[p]] = [catalog[DeviceOf[p]] EXCEPT ![o[1]] = o[2]]
        /\ mem'[p] = [mem[p] EXCEPT ![o[1]] = o[2]]
        /\ UNCHANGED <<network, stage>>
    BY <1>l, RestoreObjectDoes
  <2>2. \A w \in Listed(p)' : w = o \/ w \in Listed(p)
    BY <2>1, PointedAt
  <2>3. SpareOK(p)'
    BY <1>2, <2>1, <2>2 DEF SpareOK, Readable, network, Writing
  <2>4. WriteOK(p)' /\ RepackOK(p)'
    BY <2>1 DEF WriteOK, RepackOK, Writing
  <2> QED BY <2>1, <2>3, <2>4, AloneKept
<1>m. ASSUME NEW s \in Slab, UnpinSlab(p, s) PROVE AloneInv'
  <2>1. /\ Frame(p) /\ stage[p] = "retire" /\ stage'[p] = "unlist" /\ s \in release[p]
        /\ slabs' = slabs \ {s} /\ release'[p] = release[p] \ {s}
        /\ UNCHANGED <<objects, catalog, ledger, mem, todo>>
    BY <1>m, UnpinSlabDoes DEF device
  <2>2. Listed(p)' = Listed(p) /\ \A w \in Listed(p) : w \notin todo[p] /\ w[2] \notin release[p]
    BY <1>1, <2>1, SameFiles DEF SpareOK
  <2>3. SpareOK(p)'
    BY <1>2, <2>1, <2>2 DEF SpareOK, Readable, Writing
  <2>4. WriteOK(p)' /\ RepackOK(p)'
    BY <2>1 DEF WriteOK, RepackOK, Writing
  <2> QED BY <2>1, <2>3, <2>4, AloneKept
<1>o. ASSUME Track(p) PROVE AloneInv'
  <2>0. stage[p] = "track" /\ slab[p] \in Slab
    BY <1>1, <1>o DEF Track, HandOK, Writing
  <2>1. /\ Frame(p)
        /\ ledger'[DeviceOf[p]][slab[p]] = "pinned"
        /\ \A s \in Slab \ {slab[p]} : ledger'[DeviceOf[p]][s] = ledger[DeviceOf[p]][s]
        /\ \/ held[p] = {} /\ Idle(p)
           \/ /\ held[p] # {} /\ stage'[p] = "catalogue" /\ slab'[p] = slab[p] /\ keep'[p] = keep[p]
              /\ held'[p] = held[p] /\ todo'[p] = todo[p]
        /\ UNCHANGED <<slabs, objects, catalog, mem>>
    BY <1>o, <2>0, TrackDoes DEF network
  <2>2. /\ Listed(p)' = Listed(p)
        /\ \A s \in Slab : Pinned(p, s) => Pinned(p, s)'
    BY <2>1 DEF Listed, Entries, Pinned, MyLedger
  <2>3. SpareOK(p)'
    BY <1>1, <2>0, <2>1, <2>2 DEF SpareOK, Readable, Writing, Idle
  <2>4. WriteOK(p)'
    BY <1>1, <2>0, <2>1, <2>2 DEF WriteOK, Writing, Idle
  <2>5. RepackOK(p)'
    <3>1. CASE held[p] = {}
      BY <2>1, <3>1 DEF RepackOK, Idle
    <3>2. CASE held[p] # {}
      <4>1. /\ todo[p] = keep[p] /\ Listed(p) \subseteq held[p] \union keep[p]
            /\ \A w \in held[p] : Pinned(p, w[2]) /\ w[2] # slab[p] /\ <<w[1], slab[p]>> \in keep[p]
        BY <1>1, <2>0, <3>2 DEF RepackOK, Writing
      <4>2. \A w \in held[p] : Pinned(p, w[2])'
        BY <2>2, <4>1, WorkTypes DEF Object
      <4> QED BY <2>1, <2>2, <3>2, <4>1, <4>2 DEF RepackOK, Writing
    <3> QED BY <3>1, <3>2
  <2> QED BY <2>1, <2>3, <2>4, <2>5, AloneKept
<1>r. ASSUME ForgetSlab(p) PROVE AloneInv'
  <2>0. stage[p] = "unlist" /\ slab[p] \in Slab
    BY <1>1, <1>r DEF ForgetSlab, HandOK
  <2>1. /\ Frame(p) /\ stage'[p] = "retire"
        /\ UNCHANGED <<network, catalog, mem, todo, release>>
    BY <1>r, <2>0, ForgetSlabDoes
  <2>2. \A w \in Listed(p) : w \notin todo'[p] /\ w[2] \notin release'[p]
    BY <1>1, <2>0, <2>1 DEF SpareOK
  <2> QED BY <2>1, <2>2, QuietAlone DEF Writing, network
<1>u. ASSUME Fail(p) PROVE AloneInv'
  <2>1. /\ Frame(p) /\ Idle(p) /\ UNCHANGED network
        /\ \/ catalog' = catalog /\ mem' = mem
           \/ \E o \in todo[p] :
                /\ Readable(o)
                /\ catalog'[DeviceOf[p]] = [catalog[DeviceOf[p]] EXCEPT ![o[1]] = o[2]]
                /\ mem'[p] = [mem[p] EXCEPT ![o[1]] = o[2]]
    BY <1>u, FailDoes
  <2>2. mem'[p] = catalog'[DeviceOf[p]] /\ \A w \in Listed(p)' : Readable(w)
    <3>1. CASE catalog' = catalog /\ mem' = mem
      BY <1>2, <3>1 DEF Listed, Entries
    <3>2. ASSUME NEW o \in todo[p], Readable(o),
                 catalog'[DeviceOf[p]] = [catalog[DeviceOf[p]] EXCEPT ![o[1]] = o[2]],
                 mem'[p] = [mem[p] EXCEPT ![o[1]] = o[2]]
          PROVE  mem'[p] = catalog'[DeviceOf[p]] /\ \A w \in Listed(p)' : Readable(w)
      <4>1. o \in Object
        BY WorkTypes
      <4> QED BY <1>2, <3>2, <4>1, PointedAt
    <3> QED BY <2>1, <3>1, <3>2
  <2>3. SpareOK(p)'
    BY <2>1, <2>2 DEF SpareOK, Readable, network, Idle, Writing
  <2>4. WriteOK(p)' /\ RepackOK(p)'
    BY <2>1 DEF WriteOK, RepackOK, Idle, Writing
  <2> QED BY <2>1, <2>3, <2>4, AloneKept
<1> QED BY <1>a, <1>b, <1>c, <1>d, <1>e, <1>f, <1>g, <1>h, <1>i, <1>j, <1>k, <1>l, <1>m, <1>n,
           <1>o, <1>q, <1>r, <1>s, <1>t, <1>u DEF Start, Continue

LEMMA InitAlone == Init => AloneInv
<1> SUFFICES ASSUME Init PROVE AloneInv
  OBVIOUS
<1>1. \A d \in Device : Entries(catalog[d]) = {}
  BY NoSlabAssumption DEF Init, Entries, Object
<1>2. \A p \in Proc : Listed(p) = {} /\ mem[p] = catalog[DeviceOf[p]]
  BY <1>1, DeviceAssumption DEF Init, Listed
<1>3. \A p \in Proc : SpareOK(p) /\ WriteOK(p) /\ RepackOK(p)
  BY <1>2 DEF Init, SpareOK, WriteOK, RepackOK, Writing
<1> QED BY <1>1, <1>3 DEF AloneInv

(* A vault opened by one process at a time never loses what its file lists, *)
(* whichever commands it is given and wherever they are interrupted.        *)
THEOREM LiveStaysReadable ==
  ASSUME OneProcess
  PROVE  Spec => []LiveIsReadable
<1>1. Init => TypeOK /\ PaidInv /\ AloneInv
  BY InitTyped, InitPaid, InitAlone
<1>2. TypeOK /\ PaidInv /\ AloneInv /\ [Next]_vars => (TypeOK /\ PaidInv /\ AloneInv)'
  BY StepTyped, PaidStep, AloneStep
<1>3. AloneInv => LiveIsReadable
  <2> SUFFICES ASSUME AloneInv, NEW d \in Device, NEW o \in Entries(catalog[d]) PROVE Readable(o)
    BY DEF LiveIsReadable
  <2>1. PICK p \in Proc : DeviceOf[p] = d
    BY DEF AloneInv
  <2> QED BY <2>1 DEF AloneInv, SpareOK, Listed
<1> QED BY <1>1, <1>2, <1>3, PTL DEF Spec
=============================================================================
