------------------------------- MODULE Reclaim -------------------------------
(***************************************************************************)
(* Giving storage back.                                                    *)
(*                                                                         *)
(* One account on the network, used by the devices that hold the vault's   *)
(* phrase.  A device keeps a catalog file and a ledger of slabs, with how  *)
(* it came by each; a process keeps the catalog it read when it opened.    *)
(* The module follows every operation that creates or destroys storage,    *)
(* call by call: a flush, Forget, Reclaim's sweep, Repack, ReleaseOrphans, *)
(* DropUnreadable, TakeOwnership, and the walks of Hydrate and Recover     *)
(* that rebuild a catalog (vault/reclaim.go, store/reclaim, vault/hydrate. *)
(* go, vault/recover.go, sia/pin.go, local/slabs.go).                      *)
(*                                                                         *)
(* A process runs one of them at a time: reclaiming is a command of its    *)
(* own, and Reclaim and Repack refuse while their process has anything     *)
(* queued.  Any number of processes run theirs side by side.  The queue    *)
(* and the claims are FlushQueue's, the catalog's files Catalog's.         *)
(***************************************************************************)
EXTENDS Naturals, FiniteSets

CONSTANTS
  Device,     \* installations of the vault on one account
  Proc,       \* processes that have the vault open
  DeviceOf,   \* the device each process runs on
  Record,     \* records that may be remembered
  Home,       \* the device each record is remembered on
  Slab,       \* slabs the network may hand out
  NoSlab,     \* the absence of a slab
  Commands,   \* the commands users run; "releaseAll" is --release-all
  Overlap,    \* TRUE when a command may start while another process is busy
  MaxFaults   \* bound on operations that fail or are interrupted

ASSUME DeviceAssumption == DeviceOf \in [Proc -> Device]
ASSUME HomeAssumption == Home \in [Record -> Device]
ASSUME NoSlabAssumption == NoSlab \notin Slab
ASSUME CommandAssumption ==
  Commands \subseteq {"forget", "reclaim", "repack", "orphans", "unreadable",
                      "hydrate", "recover", "takeOwnership", "releaseAll"}
ASSUME BoundAssumption == MaxFaults \in Nat /\ Overlap \in BOOLEAN

VARIABLES
  slabs,     \* slabs pinned on the account, that is, billed
  objects,   \* <<record, slab>> pairs the account lists an object for
  spent,     \* slabs handed out so far
  catalog,   \* each device's file: the slab of each live entry
  ledger,    \* each device's slabs table: how it came by each slab
  mem,       \* Manifest.entries of each process
  stage,     \* where each process is
  slab,      \* the slab it is writing to or releasing
  keep,      \* the objects it writes, or those a sweep must leave alone
  held,      \* the objects a repack moves
  todo,      \* objects it has yet to pin, catalogue, restore or delete
  release,   \* slabs it has yet to release
  written,   \* records catalogued at least once (history)
  moved,     \* slabs a repack has set out to retire (history)
  seized,    \* devices that claimed slabs they had not written (history)
  faults     \* operations failed or interrupted so far

network == <<slabs, objects, spent>>
device  == <<catalog, ledger>>
work    == <<slab, keep, held, todo, release>>
history == <<written, moved, seized, faults>>
vars    == <<network, device, mem, stage, work, history>>

Object == Record \X Slab
Origins == {"none", "pinned", "hydrated"}
Stages == {"idle", "pin", "catalogue", "track", "walk", "occupancy", "retire",
           "unlist", "hydrate", "recover"}

TypeOK ==
  /\ slabs \subseteq Slab
  /\ objects \subseteq Object
  /\ spent \subseteq Slab
  /\ catalog \in [Device -> [Record -> Slab \union {NoSlab}]]
  /\ ledger \in [Device -> [Slab -> Origins]]
  /\ mem \in [Proc -> [Record -> Slab \union {NoSlab}]]
  /\ stage \in [Proc -> Stages]
  /\ slab \in [Proc -> Slab \union {NoSlab}]
  /\ keep \in [Proc -> SUBSET Object]
  /\ held \in [Proc -> SUBSET Object]
  /\ todo \in [Proc -> SUBSET Object]
  /\ release \in [Proc -> SUBSET Slab]
  /\ written \subseteq Record
  /\ moved \subseteq Slab
  /\ seized \subseteq Device
  /\ faults \in 0..MaxFaults

Readable(o) == o \in objects /\ o[2] \in slabs

(* Manifest.Entries: the live entries, as the objects they point at.        *)
Entries(map) == {o \in Object : map[o[1]] = o[2]}
SlabsOf(objs) == {o[2] : o \in objs}
MyLedger(p) == ledger[DeviceOf[p]]
Releasable(p) == {s \in Slab : MyLedger(p)[s] = "pinned"}

-----------------------------------------------------------------------------
Init ==
  /\ slabs = {}
  /\ objects = {}
  /\ spent = {}
  /\ catalog = [d \in Device |-> [r \in Record |-> NoSlab]]
  /\ ledger = [d \in Device |-> [s \in Slab |-> "none"]]
  /\ mem = [p \in Proc |-> [r \in Record |-> NoSlab]]
  /\ stage = [p \in Proc |-> "idle"]
  /\ slab = [p \in Proc |-> NoSlab]
  /\ keep = [p \in Proc |-> {}]
  /\ held = [p \in Proc |-> {}]
  /\ todo = [p \in Proc |-> {}]
  /\ release = [p \in Proc |-> {}]
  /\ written = {}
  /\ moved = {}
  /\ seized = {}
  /\ faults = 0

Goto(p, s) == stage' = [stage EXCEPT ![p] = s]

May(p) ==
  /\ stage[p] = "idle"
  /\ Overlap \/ \A q \in Proc : stage[q] = "idle"

Command(p, c) == c \in Commands /\ May(p)

(* The catalogs a command may go by: what a process that has the vault open *)
(* read and appended, or what one that opens for the command finds.         *)
Opened(p) == {mem[p], catalog[DeviceOf[p]]}

MaySay(releaseAll) == releaseAll => "releaseAll" \in Commands

(* The operation is over, and so is all it knew.                            *)
Return(p) ==
  /\ Goto(p, "idle")
  /\ slab' = [slab EXCEPT ![p] = NoSlab]
  /\ keep' = [keep EXCEPT ![p] = {}]
  /\ held' = [held EXCEPT ![p] = {}]
  /\ todo' = [todo EXCEPT ![p] = {}]
  /\ release' = [release EXCEPT ![p] = {}]

(* A catalog entry goes to the log and to this process's memory.            *)
Point(p, r, s) ==
  /\ catalog' = [catalog EXCEPT ![DeviceOf[p]][r] = s]
  /\ mem' = [mem EXCEPT ![p][r] = s]

(* Mutant: a slab met while hydrating is filed as this device's own.        *)
FilePinned(p, s, origin) ==
  ledger' = [ledger EXCEPT ![DeviceOf[p]][s] = "pinned"]

(* TrackSlab and AdoptSlab: a pin is the stronger claim and stays.          *)
File(p, s, origin) ==
  ledger' = [ledger EXCEPT ![DeviceOf[p]][s] = IF @ = "pinned" THEN @ ELSE origin]

(* UploadPacked and PinSlabs, for the copies of the records in R.           *)
WriteSlab(p, R) ==
  \E s \in Slab \ spent :
    /\ spent' = spent \union {s}
    /\ slabs' = slabs \union {s}
    /\ slab' = [slab EXCEPT ![p] = s]
    /\ keep' = [keep EXCEPT ![p] = R \X {s}]
    /\ todo' = [todo EXCEPT ![p] = R \X {s}]
    /\ Goto(p, "pin")

(* A flush starts, with records of its device nobody else is writing.       *)
Flush(p) ==
  /\ May(p)
  /\ \E R \in SUBSET ({r \in Record : Home[r] = DeviceOf[p]} \ written) :
       /\ R # {}
       /\ \A q \in Proc : \A o \in keep[q] : o[1] \notin R
       /\ WriteSlab(p, R)
  /\ UNCHANGED <<objects, device, mem, held, release, history>>

(* Repack: the entries this process knows, all of them readable and on      *)
(* slabs this device pinned, written again.                                 *)
Repack(p) ==
  \E known \in Opened(p) :
    LET live == Entries(known)
    IN /\ Command(p, "repack")
       /\ live # {}
       /\ SlabsOf(live) \subseteq Releasable(p)
       /\ \A o \in live : Readable(o)
       /\ mem' = [mem EXCEPT ![p] = known]
       /\ held' = [held EXCEPT ![p] = live]
       /\ WriteSlab(p, {o[1] : o \in live})
       /\ UNCHANGED <<objects, device, release, history>>

(* PinObjects, one object; over a slab that is gone the indexer refuses it, *)
(* and the operation fails.  A flush catalogues next, and tracks the slab   *)
(* last; a repack tracks it first.                                          *)
PinObject(p, o) ==
  /\ stage[p] = "pin"
  /\ o \in todo[p]
  /\ o[2] \in slabs
  /\ objects' = objects \union {o}
  /\ IF todo[p] = {o}
     THEN /\ Goto(p, IF held[p] = {} THEN "catalogue" ELSE "track")
          /\ todo' = [todo EXCEPT ![p] = keep[p]]
     ELSE /\ todo' = [todo EXCEPT ![p] = @ \ {o}]
          /\ UNCHANGED stage
  /\ UNCHANGED <<slabs, spent, device, mem, slab, keep, held, release, history>>

(* recordFlush or relocate, one record.  After its last entry a repack      *)
(* retires the objects it moved and the slabs they were on.                 *)
Catalogue(p, o) ==
  /\ stage[p] = "catalogue"
  /\ o \in todo[p]
  /\ Point(p, o[1], o[2])
  /\ written' = written \union {o[1]}
  /\ IF todo[p] = {o} /\ held[p] # {}
     THEN /\ Goto(p, "retire")
          /\ todo' = [todo EXCEPT ![p] = held[p]]
          /\ release' = [release EXCEPT ![p] = SlabsOf(held[p]) \ {slab[p]}]
          /\ moved' = moved \union release'[p]
     ELSE /\ Goto(p, IF todo[p] = {o} THEN "track" ELSE "catalogue")
          /\ todo' = [todo EXCEPT ![p] = @ \ {o}]
          /\ UNCHANGED <<release, moved>>
  /\ UNCHANGED <<network, ledger, slab, keep, held, seized, faults>>

Track(p) ==
  /\ stage[p] = "track"
  /\ File(p, slab[p], "pinned")
  /\ IF held[p] = {} THEN Return(p) ELSE Goto(p, "catalogue") /\ UNCHANGED work
  /\ UNCHANGED <<network, catalog, mem, history>>

(* Forget: the entry goes, the storage stays.                               *)
Forget(p, r) ==
  /\ Command(p, "forget")
  /\ catalog' = [catalog EXCEPT ![DeviceOf[p]][r] = NoSlab]
  /\ \E known \in Opened(p) :
       /\ known[r] # NoSlab
       /\ mem' = [mem EXCEPT ![p] = [known EXCEPT ![r] = NoSlab]]
  /\ UNCHANGED <<network, ledger, stage, work, history>>

(* Reclaim and Sweep, up to Live.Check: what is live according to this      *)
(* process, and the slabs this device may release.  An empty       *)
(* keep-set over a ledger that is not empty is refused unless it was asked  *)
(* for.                                                                     *)
Reclaim(p, releaseAll) ==
  \E known \in Opened(p) :
    LET live == Entries(known)
    IN /\ Command(p, "reclaim")
       /\ MaySay(releaseAll)
       /\ live = {} => (releaseAll \/ \A s \in Slab : MyLedger(p)[s] = "none")
       /\ mem' = [mem EXCEPT ![p] = known]
       /\ keep' = [keep EXCEPT ![p] = live]
       /\ release' = [release EXCEPT ![p] = Releasable(p)]
       /\ Goto(p, "walk")
       /\ UNCHANGED <<network, device, slab, held, todo, history>>

(* Mutant: the plan takes the ids of slabs for those of objects.            *)
PlanSweepSlabs(p) ==
  /\ stage[p] = "walk"
  /\ todo' = [todo EXCEPT ![p] = release[p] \ SlabsOf(keep[p])]
  /\ release' = [release EXCEPT ![p] = @ \ SlabsOf(keep[p])]
  /\ Goto(p, "retire")
  /\ UNCHANGED <<network, device, mem, slab, keep, held, history>>

(* Mutant: a slab goes as soon as one object on it is dead.                 *)
PlanSweepShared(p) ==
  /\ stage[p] = "walk"
  /\ todo' = [todo EXCEPT ![p] =
       {o \in objects : Readable(o) /\ o[2] \in release[p] /\ o \notin keep[p]}]
  /\ release' = [release EXCEPT ![p] = @ \ (SlabsOf(keep[p]) \ SlabsOf(todo'[p]))]
  /\ Goto(p, "retire")
  /\ UNCHANGED <<network, device, mem, slab, keep, held, history>>

(* Mutant: only slabs with a dead object to delete are released.            *)
PlanSweepDead(p) ==
  /\ stage[p] = "walk"
  /\ todo' = [todo EXCEPT ![p] =
       {o \in objects : Readable(o) /\ o[2] \in release[p] /\ o \notin keep[p]}]
  /\ release' = [release EXCEPT ![p] = SlabsOf(todo'[p]) \ SlabsOf(keep[p])]
  /\ Goto(p, "retire")
  /\ UNCHANGED <<network, device, mem, slab, keep, held, history>>

(* The walk and planSweep: all that will be destroyed is decided here.      *)
PlanSweep(p) ==
  /\ stage[p] = "walk"
  /\ todo' = [todo EXCEPT ![p] =
       {o \in objects : Readable(o) /\ o[2] \in release[p] /\ o \notin keep[p]}]
  /\ release' = [release EXCEPT ![p] = @ \ SlabsOf(keep[p])]
  /\ Goto(p, "retire")
  /\ UNCHANGED <<network, device, mem, slab, keep, held, history>>

(* DeleteObjects, in any order; an object already gone counts as deleted.   *)
DeleteObject(p, o) ==
  /\ stage[p] = "retire"
  /\ o \in todo[p]
  /\ objects' = objects \ {o}
  /\ todo' = [todo EXCEPT ![p] = @ \ {o}]
  /\ UNCHANGED <<slabs, spent, device, mem, stage, slab, keep, held, release, history>>

(* Mutant: a slab is unpinned while objects on it are still to be deleted.  *)
UnpinSlabFirst(p, s) ==
  /\ stage[p] = "retire"
  /\ s \in release[p]
  /\ slabs' = slabs \ {s}
  /\ slab' = [slab EXCEPT ![p] = s]
  /\ release' = [release EXCEPT ![p] = @ \ {s}]
  /\ Goto(p, "unlist")
  /\ UNCHANGED <<objects, spent, device, mem, keep, held, todo, history>>

(* Mutant: an unpin that failed passes for a slab already gone.             *)
UnpinSlabFails(p, s) ==
  /\ stage[p] = "retire"
  /\ todo[p] = {}
  /\ s \in release[p]
  /\ slab' = [slab EXCEPT ![p] = s]
  /\ release' = [release EXCEPT ![p] = @ \ {s}]
  /\ Goto(p, "unlist")
  /\ UNCHANGED <<network, device, mem, keep, held, todo, history>>

(* Unpin, the network half: objects first, then slabs.  A slab already gone *)
(* counts as released.                                                     *)
UnpinSlab(p, s) ==
  /\ stage[p] = "retire"
  /\ todo[p] = {}
  /\ s \in release[p]
  /\ slabs' = slabs \ {s}
  /\ slab' = [slab EXCEPT ![p] = s]
  /\ release' = [release EXCEPT ![p] = @ \ {s}]
  /\ Goto(p, "unlist")
  /\ UNCHANGED <<objects, spent, device, mem, keep, held, todo, history>>

(* Unpin, the ledger half.                                                  *)
ForgetSlab(p) ==
  /\ stage[p] = "unlist"
  /\ ledger' = [ledger EXCEPT ![DeviceOf[p]][slab[p]] = "none"]
  /\ slab' = [slab EXCEPT ![p] = NoSlab]
  /\ Goto(p, "retire")
  /\ UNCHANGED <<network, catalog, mem, keep, held, todo, release, history>>

Retired(p) ==
  /\ stage[p] = "retire"
  /\ todo[p] = {} /\ release[p] = {}
  /\ Return(p)
  /\ UNCHANGED <<network, device, mem, history>>

(* ReleaseOrphans asks first what is billed ...                             *)
ListPinned(p) ==
  /\ Command(p, "orphans")
  /\ release' = [release EXCEPT ![p] = slabs]
  /\ Goto(p, "occupancy")
  /\ UNCHANGED <<network, device, mem, slab, keep, held, todo, history>>

(* ... then what holds an object, and releases the difference.  A walk that *)
(* finds nothing is refused unless it was asked for.                       *)
ListOccupied(p, releaseAll) ==
  LET occupied == SlabsOf({o \in objects : Readable(o)})
  IN /\ stage[p] = "occupancy"
     /\ MaySay(releaseAll)
     /\ IF occupied # {} \/ release[p] = {} \/ releaseAll
        THEN /\ release' = [release EXCEPT ![p] = @ \ occupied]
             /\ Goto(p, "retire")
             /\ UNCHANGED <<slab, keep, held, todo>>
        ELSE Return(p)
     /\ UNCHANGED <<network, device, mem, history>>

(* DropUnreadable deletes what the indexer lists and will not open.         *)
DropUnreadable(p) ==
  /\ Command(p, "unreadable")
  /\ todo' = [todo EXCEPT ![p] = {o \in objects : ~ Readable(o)}]
  /\ Goto(p, "retire")
  /\ UNCHANGED <<network, device, mem, slab, keep, held, release, history>>

TakeOwnership(p) ==
  /\ Command(p, "takeOwnership")
  /\ ledger' = [ledger EXCEPT ![DeviceOf[p]] =
       [s \in Slab |-> IF @[s] = "hydrated" THEN "pinned" ELSE @[s]]]
  /\ seized' = seized \union {DeviceOf[p]}
  /\ UNCHANGED <<network, catalog, mem, stage, work, written, moved, faults>>

(* Hydrate and Recover walk the account, whoever wrote what is in it.       *)
Restore(p, how) ==
  /\ how \in {"hydrate", "recover"}
  /\ Command(p, how)
  /\ todo' = [todo EXCEPT ![p] = {o \in objects : Readable(o)}]
  /\ seized' = IF how = "recover" THEN seized \union {DeviceOf[p]} ELSE seized
  /\ Goto(p, how)
  /\ UNCHANGED <<network, device, mem, slab, keep, held, release, written, moved,
                 faults>>

(* One object: an entry, then the slab, adopted or tracked.                 *)
RestoreObject(p, o) ==
  /\ stage[p] \in {"hydrate", "recover"}
  /\ o \in todo[p]
  /\ Readable(o)
  /\ Point(p, o[1], o[2])
  /\ File(p, o[2], IF stage[p] = "hydrate" THEN "hydrated" ELSE "pinned")
  /\ todo' = [todo EXCEPT ![p] = @ \ {o}]
  /\ UNCHANGED <<network, stage, slab, keep, held, release, history>>

(* The walk is over, or an object can no longer be read, which ends it.     *)
Restored(p) ==
  /\ stage[p] \in {"hydrate", "recover"}
  /\ todo[p] = {} \/ \E o \in todo[p] : ~ Readable(o)
  /\ Return(p)
  /\ UNCHANGED <<network, device, mem, history>>

(* Any operation may fail or be killed between any two of its calls, a      *)
(* restored object's two included.                                         *)
Fail(p) ==
  /\ stage[p] # "idle"
  /\ faults < MaxFaults
  /\ faults' = faults + 1
  /\ Return(p)
  /\ \/ UNCHANGED <<catalog, mem>>
     \/ \E o \in todo[p] :
          /\ stage[p] \in {"hydrate", "recover"}
          /\ Readable(o)
          /\ Point(p, o[1], o[2])
  /\ UNCHANGED <<network, ledger, written, moved, seized>>

(* What a process under way does next.                                      *)
Continue(p) ==
  \/ \E o \in Object :
       PinObject(p, o) \/ Catalogue(p, o) \/ DeleteObject(p, o) \/ RestoreObject(p, o)
  \/ \E s \in Slab : UnpinSlab(p, s)
  \/ \E all \in BOOLEAN : ListOccupied(p, all)
  \/ Track(p)
  \/ PlanSweep(p)
  \/ ForgetSlab(p)
  \/ Retired(p)
  \/ Restored(p)

Start(p) ==
  \/ Flush(p)
  \/ Repack(p)
  \/ \E r \in Record : Forget(p, r)
  \/ \E all \in BOOLEAN : Reclaim(p, all)
  \/ ListPinned(p)
  \/ DropUnreadable(p)
  \/ TakeOwnership(p)
  \/ \E how \in {"hydrate", "recover"} : Restore(p, how)

Next == \E p \in Proc : Start(p) \/ Continue(p) \/ Fail(p)

Spec == Init /\ [][Next]_vars

(* What is under way finishes, and somebody keeps reclaiming.               *)
Fairness ==
  \A p \in Proc :
    /\ WF_vars(Continue(p))
    /\ SF_vars(Reclaim(p, TRUE))

FairSpec == Spec /\ Fairness

-----------------------------------------------------------------------------
(* LiveIsReadable: an entry the catalog file still lists can be read: no    *)
(* sweep, repack, release or restore, however interrupted, destroys an      *)
(* object the vault points at.  "Reclaim releases storage nothing in the    *)
(* catalog points at any more", and of ReleaseOrphans, "nothing readable is *)
(* lost by construction".                                                  *)
LiveIsReadable ==
  \A d \in Device : \A o \in Entries(catalog[d]) : Readable(o)

(* WriterKeepsReading: the device that pinned a slab goes on reading its    *)
(* entries there, whatever another device that hydrated them forgets,       *)
(* sweeps, repacks or releases, as long as no device has claimed storage it *)
(* did not write.  AdoptSlab files a hydrated slab apart for this.          *)
WriterKeepsReading ==
  seized = {} => \A d \in Device : \A o \in Entries(catalog[d]) :
    ledger[d][o[2]] = "pinned" => Readable(o)

(* ObjectsDieFirst: but for the slabs a repack retires, no object outlives  *)
(* its slab, wherever a command fails and whichever runs beside it or next; *)
(* with commands side by side, as long as no device has claimed storage it  *)
(* did not write.  It is what "objects first, then slabs" is for.           *)
ObjectsDieFirst ==
  (seized = {} \/ ~ Overlap) => \A o \in objects : o[2] \in slabs \union moved

(* NoUndeadObject: the same without that exception: an object that outlives *)
(* its slab is "something no key opens", and it goes on being listed and    *)
(* billed.                                                                  *)
NoUndeadObject == \A o \in objects : o[2] \in slabs

(* PaidIsKnown: every slab billed for is in some device's ledger or in the  *)
(* hands of an operation, but for one per operation that was interrupted:   *)
(* a slab can be released only by somebody who knows of it.                 *)
PaidIsKnown ==
  LET known == {s \in Slab : \E d \in Device : ledger[d][s] # "none"}
      inHand == {slab[p] : p \in Proc}
  IN Cardinality(slabs \ (known \union inHand)) <= faults

(* QuotaReturns: a slab of the ledger that nothing live is on is given back *)
(* in the end, however often a sweep fails half-way, unless it is used      *)
(* again.                                                                   *)
QuotaReturns ==
  \A p \in Proc, s \in Slab :
    (s \in Releasable(p) /\ s \notin SlabsOf(Entries(mem[p])))
      ~> (s \notin slabs \/ s \in SlabsOf(Entries(mem[p])))

(* Why they hold.  First, for any devices, processes and commands: a slab   *)
(* is handed out once, and whoever lets go of one that is billed has filed *)
(* it.                                                                     *)
Filed(s) == \E d \in Device : ledger[d][s] # "none"
Writing == {"pin", "catalogue", "track"}
Unknown == {s \in slabs : ~ Filed(s) /\ \A p \in Proc : slab[p] # s}

HandOK(p) ==
  /\ slab[p] \in spent \union {NoSlab}
  /\ release[p] \subseteq spent
  /\ \A o \in held[p] \union todo[p] : o[2] \in spent
  /\ stage[p] = "idle" => held[p] = {} /\ todo[p] = {} /\ release[p] = {}
  /\ stage[p] \notin Writing \union {"retire", "unlist"} => slab[p] = NoSlab
  /\ stage[p] \in Writing => slab[p] # NoSlab /\ \A o \in keep[p] : o[2] = slab[p]
  /\ stage[p] = "unlist" => slab[p] \in spent \ slabs
  /\ stage[p] = "retire" \/ (stage[p] = "catalogue" /\ held[p] # {}) =>
       slab[p] \notin slabs \/ Filed(slab[p])

PaidInv ==
  /\ slabs \subseteq spent
  /\ \A o \in objects : o[2] \in spent
  /\ \A d \in Device, s \in Slab : ledger[d][s] # "none" => s \in spent
  /\ \A p \in Proc : HandOK(p)
  /\ IsFiniteSet(Unknown) /\ Cardinality(Unknown) <= faults

(* Second, with one process to a device and no orphan scan, as long as no   *)
(* device has claimed storage it did not write: a device releases only what *)
(* it pinned itself and its catalog has nothing on.                        *)
Beside ==
  /\ \A p, q \in Proc : DeviceOf[p] = DeviceOf[q] => p = q
  /\ "orphans" \notin Commands

Pinned(p, s) == MyLedger(p)[s] = "pinned"
Listed(p) == Entries(catalog[DeviceOf[p]])

OwnInv ==
  /\ \A d, e \in Device, s \in Slab : ledger[d][s] = "pinned" /\ ledger[e][s] = "pinned" => d = e
  /\ \A p \in Proc : stage[p] \in Writing =>
       /\ slab[p] \in slabs
       /\ \A q \in Proc \ {p} : stage[q] \in Writing => slab[q] # slab[p]
       /\ \A e \in Device \ {DeviceOf[p]} : ledger[e][slab[p]] # "pinned"

WriteOK(p) == stage[p] \in Writing =>
  /\ todo[p] \subseteq keep[p]
  /\ keep[p] \subseteq objects \/ (stage[p] = "pin" /\ keep[p] \ todo[p] \subseteq objects)
  /\ \A o \in Listed(p) : o[2] = slab[p] => o \in keep[p] /\ stage[p] # "pin"

RepackOK(p) == (stage[p] \in Writing /\ held[p] # {}) =>
  /\ \A o \in held[p] : Pinned(p, o[2]) /\ o[2] # slab[p] /\ <<o[1], slab[p]>> \in keep[p]
  /\ Listed(p) \subseteq held[p] \union keep[p]
  /\ stage[p] = "track" => todo[p] = keep[p]
  /\ stage[p] = "catalogue" => \A o \in Listed(p) \cap held[p] : <<o[1], slab[p]>> \in todo[p]

SweepOK(p) ==
  /\ stage[p] = "walk" => keep[p] = Listed(p) /\ \A s \in release[p] : Pinned(p, s)
  /\ stage[p] \in {"retire", "unlist"} =>
       /\ \A s \in release[p] :
            /\ Pinned(p, s)
            /\ \A o \in Listed(p) : o[2] # s
            /\ \A o \in objects : o[2] = s => o \in todo[p] \/ s \in moved
       /\ \A o \in todo[p] :
            o[2] \notin slabs \/ (Pinned(p, o[2]) /\ o \notin Listed(p))
  /\ stage[p] = "unlist" => slab[p] \notin release[p] /\ todo[p] = {}

UndeadMoved == \A o \in objects : o[2] \in slabs \union moved

FileOK(p) ==
  /\ mem[p] = catalog[DeviceOf[p]]
  /\ stage[p] # "occupancy"
  /\ stage[p] = "recover" => seized # {}
  /\ \A o \in Listed(p) : o[2] \in spent

ApartInv ==
  /\ OwnInv
  /\ \A p \in Proc : WriteOK(p) /\ RepackOK(p) /\ SweepOK(p)
  /\ \A d \in Device : \A o \in Entries(catalog[d]) :
       ledger[d][o[2]] = "pinned" => Readable(o)
  /\ UndeadMoved

ReclaimInv ==
  /\ \A p \in Proc : FileOK(p)
  /\ seized = {} => ApartInv

(* Third, with a single process, whatever it is told to do: what it goes by *)
(* is the file, and nothing it is about to destroy is in the file.          *)
OneProcess == \A p, q \in Proc : p = q

SpareOK(p) ==
  /\ mem[p] = catalog[DeviceOf[p]]
  /\ \A o \in Listed(p) : Readable(o)
  /\ stage[p] \in Writing => slab[p] \in slabs
  /\ stage[p] = "walk" => keep[p] = Listed(p)
  /\ stage[p] = "occupancy" => todo[p] = {}
  /\ stage[p] \in {"retire", "unlist"} =>
       \A o \in Listed(p) : o \notin todo[p] /\ o[2] \notin release[p]

AloneInv ==
  /\ \A p \in Proc : SpareOK(p) /\ WriteOK(p) /\ RepackOK(p)
  /\ \A d \in Device : Entries(catalog[d]) # {} => \E p \in Proc : DeviceOf[p] = d
=============================================================================
