----------------------------- MODULE FlushQueue -----------------------------
(***************************************************************************)
(* The write path from the device's flush queue to the network.            *)
(*                                                                         *)
(* A sealed record is put in the `queue` table of the vault's SQLite file  *)
(* (local/queue.go).  A flush claims every row it may, writes the batch    *)
(* to one slab, pins the slab and then each object (store/store.go,        *)
(* sia/pin.go), catalogs every record and ledgers the slab                 *)
(* (vault/remember.go, recordFlush) and only then deletes the rows         *)
(* (store/packer/packer.go, flush).  Several processes may have the same   *)
(* vault open, each with several goroutines in a flush, and any of them    *)
(* may fail or die between any two of those steps.                         *)
(*                                                                         *)
(* Time appears only through claims.  The clock ticks once per claim, so a *)
(* claim's stamp orders it among the others, and `horizon' is the stamp at *)
(* or below which a claim is older than the claim timeout.                 *)
(*                                                                         *)
(* A batch is taken to fit one slab.  The arrival order of the rows is     *)
(* left out: a claim takes every row it may, and the properties do not     *)
(* tell one order of catalog appends from another.                         *)
(***************************************************************************)
EXTENDS Naturals, FiniteSets

CONSTANTS
  Proc,       \* processes that have the vault open
  Flusher,    \* flush calls that may be in flight, over all processes
  ProcOf,     \* the process each flush call runs in
  Record,     \* records that may be remembered
  Slab,       \* slabs the network may hand out, one per upload
  NoSlab,     \* the absence of a slab
  MaxFaults   \* bound on failed or interrupted flush calls

ASSUME ProcOfAssumption == ProcOf \in [Flusher -> Proc]
ASSUME NoSlabAssumption == NoSlab \notin Slab
ASSUME FaultAssumption == MaxFaults \in Nat

VARIABLES
  accepted,   \* records Packer.Add has put on disk (history)
  queued,     \* rows of the queue table
  claimedAt,  \* each row's claimed_at; Free when NULL
  clock,      \* the stamp of the latest claim
  horizon,    \* claims stamped at or below this are stale
  late,       \* calls that have outlived the claim timeout (history)
  slabs,      \* slabs pinned on the network, that is, billed
  objects,    \* <<record, slab>> pairs whose object is pinned
  catalog,    \* the slab of each record's newest catalog entry
  ledger,     \* rows of the slabs table
  pc,         \* where each flush call is
  batch,      \* the records each call claimed
  since,      \* the stamp of each call's claim
  slab,       \* the slab each call wrote to
  todo,       \* records of the batch the call has not yet catalogued
  reported,   \* records a finished flush returned as written (history)
  faults      \* failed or interrupted calls so far

time    == <<clock, horizon, late>>
device  == <<queued, claimedAt, time, catalog, ledger>>
network == <<slabs, objects>>
call    == <<pc, batch, since, slab, todo>>
history == <<accepted, reported, faults>>
vars    == <<device, network, call, history>>

Free == 0

Stages == {"idle", "upload", "pinSlab", "pinObjects", "release",
           "catalog", "track", "drop"}

TypeOK ==
  /\ accepted \subseteq Record
  /\ queued \subseteq Record
  /\ claimedAt \in [Record -> Nat]
  /\ clock \in Nat
  /\ horizon \in Nat
  /\ late \subseteq Flusher
  /\ slabs \subseteq Slab
  /\ objects \subseteq Record \X Slab
  /\ catalog \in [Record -> Slab \union {NoSlab}]
  /\ ledger \subseteq Slab
  /\ pc \in [Flusher -> Stages]
  /\ batch \in [Flusher -> SUBSET Record]
  /\ since \in [Flusher -> Nat]
  /\ slab \in [Flusher -> Slab \union {NoSlab}]
  /\ todo \in [Flusher -> SUBSET Record]
  /\ reported \subseteq Record
  /\ faults \in 0..MaxFaults

Active(f) == pc[f] # "idle"

(* The location the catalog holds for r can be read: its object is pinned,  *)
(* and so is the slab under it.                                            *)
Findable(r) ==
  /\ catalog[r] \in slabs
  /\ <<r, catalog[r]>> \in objects

-----------------------------------------------------------------------------
Init ==
  /\ accepted = {}
  /\ queued = {}
  /\ claimedAt = [r \in Record |-> Free]
  /\ clock = 0
  /\ horizon = 0
  /\ late = {}
  /\ slabs = {}
  /\ objects = {}
  /\ catalog = [r \in Record |-> NoSlab]
  /\ ledger = {}
  /\ pc = [f \in Flusher |-> "idle"]
  /\ batch = [f \in Flusher |-> {}]
  /\ since = [f \in Flusher |-> Free]
  /\ slab = [f \in Flusher |-> NoSlab]
  /\ todo = [f \in Flusher |-> {}]
  /\ reported = {}
  /\ faults = 0

(* Return(F): the flush calls in F are over and hold nothing any more.      *)
Return(F) ==
  /\ pc' = [f \in Flusher |-> IF f \in F THEN "idle" ELSE pc[f]]
  /\ batch' = [f \in Flusher |-> IF f \in F THEN {} ELSE batch[f]]
  /\ since' = [f \in Flusher |-> IF f \in F THEN Free ELSE since[f]]
  /\ slab' = [f \in Flusher |-> IF f \in F THEN NoSlab ELSE slab[f]]
  /\ todo' = [f \in Flusher |-> IF f \in F THEN {} ELSE todo[f]]

Goto(f, stage) == pc' = [pc EXCEPT ![f] = stage]

(* The flush calls in F fail or are interrupted.                            *)
Fault(F) ==
  /\ faults' = faults + Cardinality(F)
  /\ faults' \in 0..MaxFaults

(* Enqueue: the row is on disk before the caller is answered.               *)
Enqueue(r) ==
  /\ r \notin accepted
  /\ accepted' = accepted \union {r}
  /\ queued' = queued \union {r}
  /\ UNCHANGED <<claimedAt, time, catalog, ledger, network, call, reported, faults>>

(* Mutant: the claim's WHERE clause forgets the claimed rows.               *)
ClaimableToAll == queued

(* The rows one claim may take: unclaimed ones and stale ones, whoever      *)
(* holds them, this process included.                                      *)
Claimable == {r \in queued : claimedAt[r] = Free \/ claimedAt[r] <= horizon}

(* Mutant: the claim returns the rows without stamping them.                *)
ClaimUnstamped(f) ==
  /\ pc[f] = "idle"
  /\ Claimable # {}
  /\ clock' = clock + 1
  /\ batch' = [batch EXCEPT ![f] = Claimable]
  /\ since' = [since EXCEPT ![f] = clock + 1]
  /\ Goto(f, "upload")
  /\ UNCHANGED <<queued, claimedAt, horizon, late, catalog, ledger, network, slab,
                 todo, history>>

(* ClaimQueued: one statement stamps every claimable row.  A call that      *)
(* finds none returns at once and changes nothing.                         *)
Claim(f) ==
  /\ pc[f] = "idle"
  /\ Claimable # {}
  /\ clock' = clock + 1
  /\ claimedAt' = [r \in Record |-> IF r \in Claimable THEN clock + 1
                                    ELSE claimedAt[r]]
  /\ batch' = [batch EXCEPT ![f] = Claimable]
  /\ since' = [since EXCEPT ![f] = clock + 1]
  /\ Goto(f, "upload")
  /\ UNCHANGED <<queued, horizon, late, catalog, ledger, network, slab, todo, history>>

(* Mutant: the cutoff of a claim moves backwards.                           *)
AgeBackwards ==
  /\ horizon < clock
  /\ horizon' = horizon - 1
  /\ UNCHANGED <<queued, claimedAt, clock, late, catalog, ledger, network, call,
                 history>>

(* The claims of the next stamp pass the timeout, whether or not the flush  *)
(* that made them is over.                                                 *)
Age ==
  /\ horizon < clock
  /\ horizon' = horizon + 1
  /\ late' = late \union {f \in Flusher : since[f] = horizon'}
  /\ UNCHANGED <<queued, claimedAt, clock, catalog, ledger, network, call, history>>

(* UploadPacked: the bytes reach hosts, unpinned, on a slab of their own.   *)
(* An upload nobody pinned leaves nothing behind, so its name may recur.    *)
Upload(f) ==
  /\ pc[f] = "upload"
  /\ \E s \in Slab \ (slabs \union {slab[g] : g \in Flusher}) :
       slab' = [slab EXCEPT ![f] = s]
  /\ Goto(f, "pinSlab")
  /\ UNCHANGED <<device, network, batch, since, todo, history>>

(* PinSlabs: the slab is billed from here on.                               *)
PinSlabs(f) ==
  /\ pc[f] = "pinSlab"
  /\ slabs' = slabs \union {slab[f]}
  /\ Goto(f, "pinObjects")
  /\ UNCHANGED <<device, objects, batch, since, slab, todo, history>>

(* Mutant: the flush drops its rows without the callback that catalogs them.*)
PinObjectThenDrop(f, r) ==
  /\ pc[f] = "pinObjects"
  /\ r \in batch[f]
  /\ <<r, slab[f]>> \notin objects
  /\ objects' = objects \union {<<r, slab[f]>>}
  /\ IF \A q \in batch[f] : <<q, slab[f]>> \in objects'
     THEN Goto(f, "drop")
     ELSE UNCHANGED pc
  /\ UNCHANGED <<device, slabs, batch, since, slab, todo, history>>

(* PinObjects: sixteen requests in flight, so the objects are pinned in any *)
(* order; the call is over when the last one is.                           *)
PinObject(f, r) ==
  /\ pc[f] = "pinObjects"
  /\ r \in batch[f]
  /\ <<r, slab[f]>> \notin objects
  /\ objects' = objects \union {<<r, slab[f]>>}
  /\ IF \A q \in batch[f] : <<q, slab[f]>> \in objects'
     THEN /\ Goto(f, "catalog")
          /\ todo' = [todo EXCEPT ![f] = batch[f]]
     ELSE UNCHANGED <<pc, todo>>
  /\ UNCHANGED <<device, slabs, batch, since, slab, history>>

(* PutBatch returns an error, from any of its three phases.  A pin request  *)
(* whose reply was lost has taken effect all the same.                     *)
PutBatchFails(f) ==
  /\ pc[f] \in {"upload", "pinSlab", "pinObjects"}
  /\ Fault({f})
  /\ Goto(f, "release")
  /\ slabs' \in {slabs} \union (IF pc[f] = "pinSlab" THEN {slabs \union {slab[f]}} ELSE {})
  /\ \E landed \in SUBSET batch[f] :
       /\ pc[f] # "pinObjects" => landed = {}
       /\ objects' = objects \union (landed \X {slab[f]})
  /\ UNCHANGED <<device, batch, since, slab, todo, accepted, reported>>

(* Mutant: a failed write takes its rows off the queue.                     *)
ReleaseDrops(f) ==
  /\ pc[f] = "release"
  /\ queued' = queued \ batch[f]
  /\ Return({f})
  /\ UNCHANGED <<claimedAt, time, catalog, ledger, network, history>>

(* ReleaseQueued clears the claim of every row of the batch, by record id   *)
(* alone: it does not ask whose claim the row now carries.                 *)
Release(f) ==
  /\ pc[f] = "release"
  /\ claimedAt' = [r \in Record |-> IF r \in batch[f] THEN Free ELSE claimedAt[r]]
  /\ Return({f})
  /\ UNCHANGED <<queued, time, catalog, ledger, network, history>>

(* Mutant: recordFlush stops after its first record.                        *)
CatalogueFirst(f, r) ==
  /\ pc[f] = "catalog"
  /\ r \in todo[f]
  /\ catalog' = [catalog EXCEPT ![r] = slab[f]]
  /\ todo' = [todo EXCEPT ![f] = {}]
  /\ Goto(f, "track")
  /\ UNCHANGED <<queued, claimedAt, time, ledger, network, batch, since, slab, history>>

(* Mutant: recordFlush returns before its second loop.                      *)
CatalogueUntracked(f, r) ==
  /\ pc[f] = "catalog"
  /\ r \in todo[f]
  /\ catalog' = [catalog EXCEPT ![r] = slab[f]]
  /\ todo' = [todo EXCEPT ![f] = @ \ {r}]
  /\ IF todo[f] = {r} THEN Goto(f, "drop") ELSE UNCHANGED pc
  /\ UNCHANGED <<queued, claimedAt, time, ledger, network, batch, since, slab, history>>

(* recordFlush, one record: a catalog entry pointing at the new object.     *)
Catalogue(f, r) ==
  /\ pc[f] = "catalog"
  /\ r \in todo[f]
  /\ catalog' = [catalog EXCEPT ![r] = slab[f]]
  /\ todo' = [todo EXCEPT ![f] = @ \ {r}]
  /\ IF todo[f] = {r} THEN Goto(f, "track") ELSE UNCHANGED pc
  /\ UNCHANGED <<queued, claimedAt, time, ledger, network, batch, since, slab, history>>

(* Mutant: the ledger write is lost.                                        *)
TrackNothing(f) ==
  /\ pc[f] = "track"
  /\ Goto(f, "drop")
  /\ UNCHANGED <<device, network, batch, since, slab, todo, history>>

(* recordFlush, its second loop: the slab enters the ledger.                *)
Track(f) ==
  /\ pc[f] = "track"
  /\ ledger' = ledger \union {slab[f]}
  /\ Goto(f, "drop")
  /\ UNCHANGED <<queued, claimedAt, time, catalog, network, batch, since, slab, todo,
                 history>>

(* DropQueued, in one transaction, and last; the flush then reports what    *)
(* it wrote.                                                               *)
Drop(f) ==
  /\ pc[f] = "drop"
  /\ queued' = queued \ batch[f]
  /\ claimedAt' = [r \in Record |-> IF r \in batch[f] THEN Free ELSE claimedAt[r]]
  /\ reported' = reported \union batch[f]
  /\ Return({f})
  /\ UNCHANGED <<time, catalog, ledger, network, accepted, faults>>

(* The claimed rows cannot be read back, or the release, a catalog append,  *)
(* the ledger write or the drop fails: the call returns its error and       *)
(* leaves the claim in place.                                              *)
BookkeepingFails(f) ==
  /\ pc[f] \in {"upload", "release", "catalog", "track", "drop"}
  /\ Fault({f})
  /\ Return({f})
  /\ UNCHANGED <<device, network, accepted, reported>>

(* A process dies with every flush call it was running.                     *)
Crash(p) ==
  /\ \E f \in Flusher : ProcOf[f] = p /\ Active(f)
  /\ Fault({f \in Flusher : ProcOf[f] = p /\ Active(f)})
  /\ Return({f \in Flusher : ProcOf[f] = p})
  /\ UNCHANGED <<device, network, accepted, reported>>

FlushStep(f) ==
  \/ Claim(f)
  \/ Upload(f)
  \/ PinSlabs(f)
  \/ \E r \in Record : PinObject(f, r)
  \/ Release(f)
  \/ \E r \in Record : Catalogue(f, r)
  \/ Track(f)
  \/ Drop(f)

Next ==
  \/ \E r \in Record : Enqueue(r)
  \/ Age
  \/ \E f \in Flusher :
       \/ FlushStep(f)
       \/ PutBatchFails(f)
       \/ BookkeepingFails(f)
  \/ \E p \in Proc : Crash(p)

Spec == Init /\ [][Next]_vars

-----------------------------------------------------------------------------
(* NoLoss: a record the caller was told is on disk is, from then on, in the *)
(* queue or at a location the catalog holds and the network can read.  It  *)
(* is what the order upload, pin, catalog, drop in PutBatch, recordFlush    *)
(* and flush is for, under every interleaving of flushes, every crash and  *)
(* every take-over of a stale claim.                                       *)
NoLoss == \A r \in accepted : r \in queued \/ Findable(r)

(* ReportedIsTrue: a flush that returned success has left every record of   *)
(* its batch readable through the catalog; RememberResult.OnNetwork is set  *)
(* from that answer.                                                       *)
ReportedIsTrue == \A r \in reported : Findable(r)

(* FreshClaimRespected: until some flush outlives the claim timeout, no two *)
(* flushes in flight work on the same record, in one process or several.    *)
(* It is what Policy.ClaimTimeout promises: another process's flush is      *)
(* respected for that long before its records are taken over.               *)
FreshClaimRespected ==
  late = {} => \A f, g \in Flusher : f # g => batch[f] \intersect batch[g] = {}

(* The slabs billed for that neither the ledger nor a flush in flight knows *)
(* of: Reclaimer.Unledgered's "interrupted write".                         *)
Stranded == slabs \ (ledger \union {slab[f] : f \in Flusher})

(* StrandingIsRare: each failed or interrupted flush strands at most one    *)
(* slab, and nothing else strands any; in particular a take-over does not. *)
StrandingIsRare == Cardinality(Stranded) <= faults

(* PaidOnce: until a flush outlives the timeout, a record is written again  *)
(* only after a fault, so two processes never pay for two slabs holding     *)
(* the same thing.                                                         *)
PaidOnce ==
  late = {} => \A r \in Record :
    Cardinality({s \in Slab : <<r, s>> \in objects}) <= 1 + faults

(* SettledIsLedgered: until a flush outlives the timeout, a record that has *)
(* left the queue lies on a slab the ledger lists, so a later sweep can     *)
(* still give that slab's quota back.  recordFlush appends first and tracks *)
(* second; the row is what covers the window between.                      *)
SettledIsLedgered ==
  late = {} => \A r \in accepted \ queued : catalog[r] \in ledger

(* What holds of a flush call between its steps: it writes only what was    *)
(* accepted, everything past a stage has really been pinned, and every     *)
(* record of its batch is still to be catalogued or already findable.      *)
BatchOK(f) ==
  /\ batch[f] \subseteq accepted
  /\ todo[f] \subseteq batch[f]
  /\ pc[f] \in {"pinSlab", "pinObjects", "catalog", "track", "drop"} =>
       slab[f] \in Slab
  /\ pc[f] \in {"pinObjects", "catalog", "track", "drop"} =>
       slab[f] \in slabs
  /\ pc[f] \in {"catalog", "track", "drop"} =>
       \A r \in batch[f] :
         /\ <<r, slab[f]>> \in objects
         /\ r \in todo[f] \/ Findable(r)
  /\ pc[f] # "catalog" => todo[f] = {}

(* The catalog names only what can be read, and nothing is queued or        *)
(* catalogued that was not accepted.                                       *)
CatalogInv ==
  /\ queued \subseteq accepted
  /\ \A r \in Record : catalog[r] # NoSlab => (r \in accepted /\ Findable(r))

(* DurableInv: the inductive strengthening of NoLoss and ReportedIsTrue.    *)
DurableInv ==
  TypeOK /\ (\A f \in Flusher : BatchOK(f)) /\ CatalogInv /\ NoLoss /\ ReportedIsTrue

(* A claim's stamp names its call.  Until a flush outlives the timeout, a   *)
(* row of a batch still carries the stamp of the call that claimed it, and *)
(* that stamp is not stale.                                                *)
ClaimInv ==
  /\ horizon <= clock
  /\ \A r \in Record : claimedAt[r] <= clock
  /\ \A f \in Flusher :
       /\ ~Active(f) => (batch[f] = {} /\ since[f] = Free)
       /\ Active(f) => since[f] \in 1..clock
  /\ \A f, g \in Flusher : (f # g /\ Active(f) /\ Active(g)) => since[f] # since[g]
  /\ late = {} => \A f \in Flusher : Active(f) =>
       /\ since[f] > horizon
       /\ \A r \in batch[f] : r \in queued /\ claimedAt[r] = since[f]

(* LedgerInv: until a flush outlives the timeout, what a call has           *)
(* catalogued is still catalogued where the call wrote it, since no other   *)
(* call works on it, and the call drops its rows only once that slab is in  *)
(* the ledger.                                                             *)
LedgerInv ==
  /\ SettledIsLedgered
  /\ late = {} => \A f \in Flusher :
       /\ pc[f] \in {"catalog", "track", "drop"} =>
            \A r \in batch[f] \ todo[f] : catalog[r] = slab[f]
       /\ pc[f] = "drop" => slab[f] \in ledger

(* A slab in the hand of a call that may yet ledger it is not lost; one of   *)
(* a call that has failed is, and the fault has been counted.              *)
Wasted == {s \in slabs \ ledger : \A f \in Flusher : pc[f] # "release" => slab[f] # s}

(* WasteInv: the inductive strengthening of StrandingIsRare.                *)
WasteInv ==
  /\ \A f \in Flusher : pc[f] \in {"idle", "upload"} => slab[f] = NoSlab
  /\ \A f \in Flusher : pc[f] = "drop" => slab[f] \in ledger
  /\ IsFiniteSet(Wasted) /\ Cardinality(Wasted) <= faults

(* The slabs a record has been pinned on, and those of them that no flush   *)
(* now writing it is filling.                                              *)
Places(r) == {s \in Slab : <<r, s>> \in objects}
Earlier(r) ==
  {s \in Places(r) : \A f \in Flusher : (r \in batch[f] /\ pc[f] # "release") => slab[f] # s}

PaidOK(r) ==
  /\ IsFiniteSet(Places(r)) /\ Cardinality(Places(r)) <= 1 + faults
  /\ r \in queued => Cardinality(Earlier(r)) <= faults

(* PaidInv: the inductive strengthening of PaidOnce.  Of a record still in  *)
(* the queue each earlier place stands for a fault; at most one call is at  *)
(* it, and when it leaves the queue it is never written again.             *)
PaidInv ==
  /\ \A r \in Record \ accepted : Places(r) = {}
  /\ late = {} => \A r \in Record : PaidOK(r)

(* The abstract promise, with the queue as the debt and the readable        *)
(* catalog entries as what has been stored.                                *)
Promise == INSTANCE DurabilityPromise
             WITH owed <- queued, stored <- {r \in Record : Findable(r)}

(* KeepsPromise: the write path implements the durability promise.          *)
KeepsPromise == Promise!Spec
=============================================================================
