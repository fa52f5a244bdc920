# mnemosia in TLA+

mnemosia keeps a vault of memories and session transcripts: sealed on the device, packed
into slabs on the Sia network, found again through a local catalog. This directory models
where losing, paying twice or answering wrongly is possible: the path from "stored on this
device" to "readable on the network", the catalog that is the only pointer to it, the
commands that give storage back, the conversations kept over it, and the way back from a
question to the records that answer it. The modules are checked with TLC on small instances,
and every safety property the passing runs check is proved with TLAPS for all instances, a few of
them under conditions that are named with the theorem.

## The system

Processes of one device (a long-running MCP server, short command-line runs) share the
files of a vault: a SQLite database (queue, slab ledger, bodies, ranking rows), a catalog
log with its snapshot, and a vector log. Several devices may hold the same phrase and so
share one account on the network. Nothing but SQLite's transactions, the files and the
indexer coordinates them.

| Component | State | Operations | Interacts with |
|---|---|---|---|
| Flush queue (`local/queue.go`) | `queue` rows with `claimed_at` | Enqueue, ClaimQueued, ReleaseQueued, DropQueued | shared by all processes of a device |
| Packer (`store/packer`) | summary of the queue in memory, a timer goroutine | Add, Flush, tick, refresh, New, Stop | calls the queue, the store, and back into the vault through `onFlush` |
| Network write (`store/store.go`, `sia/upload.go`, `sia/pin.go`) | slabs and objects of the account | UploadPacked, PinSlabs, PinObjects | three phases with separate failures |
| Bookkeeping (`vault/remember.go`, `local/slabs.go`) | catalog, `slabs` table | recordFlush | runs between the pins and the drop |
| Catalog (`manifest`) | snapshot, log, map in memory, two sizes | Load, Append, Remove, Compact | files shared by processes, locks by goroutines |
| Reclamation (`vault/reclaim.go`, `store/reclaim`) | none of its own | Reclaim, Repack, ReleaseOrphans, DropUnreadable, TakeOwnership, Forget | reads the memory of its process, the ledger of its device, the account of all |
| Restore (`vault/hydrate.go`, `vault/recover.go`) | none of its own | Hydrate, Recover | walks the account into catalog and ledger |
| Sessions (`vault/session.go`, `local/sessions.go`) | heads, chunks, child links | SaveSession, ForgetSession, load | chunks go through the packer |
| Vectors (`index`) | log and entries in memory | Append, Hydrate, Compact, search | appended by Remember |
| Read path (`vault/fetch.go`, `sia/location.go`) | local bodies, cached locations | fetch, DownloadAt | invalidated by Forget and Unpin |
| Device store (`local/schema.go`, `local/records.go`, `local/ranking.go`) | the database file with its version; rows, supersession | Open, migrate, MigrateDown; Browse page by page | builds of several versions open one file |
| Transcripts (`record/chunk.go`, `vault/session_load.go`, `record/span.go`) | chunks of a conversation | SplitMessages, Load by pages, Span | chunks are Sessions' |
| Ranking (`recall/fuse.go`, `recall/filter.go`) | none | fuse, boosts, Select | orders what ReadPath fetches |
| Recall's text side (`recall`), records (`record`), sealing (`seal`, `keys`), embedding (`embed`), server and commands (`mcp`, `cmd`) | little or none | pure functions and calls outward | |

What makes it hard: goroutines of one process and several processes interleave around
two-step reads (a query then a store, a copy then a truncation); a flush has eight steps
over a network, a file and a database, and dies between any two; a claim is held by a
timeout; storage commands decide first and destroy later; a catalog read at open goes stale.

What correctness means for each: the write path neither loses a record nor reports one
falsely, and pays for a second slab only when something failed; the packer's summary never
hides a record from the deadline; the catalog and the vector files replay to what was
acknowledged after a crash anywhere; reclamation destroys only what nothing points at, on
this device or on another, and gives back the rest; a head names chunks that are there, in
order, and nothing points at a session nobody holds; what a search finds can be fetched,
what is owed can be found and what is forgotten is gone; a listing gives every steady row
once and no stale one twice; a file's version says what is in it.

## Modules

    DurabilityPromise  <--refines--  FlushQueue  <--EXTENDS--  Packer
    CatalogPromise     <--steps of-- Catalog
                                     Reclaim      Sessions     VectorIndex
                                     ReadPath     Schema
    Ordering  <--EXTENDS--  Listing, Ranking
    Listing, Transcript, Ranking  <--EXTENDS--  Reading
    WritePath_proofs (FlushQueue, Packer), Catalog_proofs, VectorIndex_proofs,
    ReadPath_proofs, Reading_proofs, Reclaim_proofs, Schema_proofs,
    Sessions_proofs                                                     theorems
    MCFlushQueue, MCPacker, MCCatalog, MCReclaim, MCSessions, MCVectorIndex,
    MCReadPath, MCReading, MCSchema                       instances for TLC

Every module but Packer and Reading stands on what another one promises: Reclaim, Sessions
and ReadPath use a flush as FlushQueue promises it (a set of queued records becomes readable
and catalogued) and the catalog's file as Catalog promises it; ReadPath uses the vector files
as VectorIndex does; Transcript cuts what one Sessions save writes.

**FlushQueue** is one device's queue and every flush over it. A flush call is a value of
`Flusher`, in the process `ProcOf[f]`; `pc[f]` is where it stands in `Packer.flush`, which
inlines `PutBatch` and `recordFlush`. `Claim`, `Release` and `Drop` are the three SQL
statements; `Upload`, `PinSlabs`, `PinObject` the phases of `PutBatch`; `Catalogue` and
`Track` the two loops of `recordFlush`. `PutBatchFails` is any error of the network half
(a pin whose answer was lost has happened); `BookkeepingFails` any error after it, which
returns with the claim in place; `Crash` the death of a process. Time is kept only as far
as claims need it: `clock` counts claims, `horizon` is the stamp up to which they are
stale, `Age` moves it, over a live flush too.

**DurabilityPromise** is what Remember is told: accepted means owed until stored, stored
stays stored, a debt goes only by storing. FlushQueue implements it with the queue as the
debt and the readable catalog entries as the store.

**Packer** extends FlushQueue by what decides when a flush runs: the count each process
keeps (`Packer.state`), bumped by `AddBump` after the row is on disk, overwritten by a
refresh in two steps (`RefreshRead`, `RefreshWrite`), read by the timer (`Tick`). Of the
summary only the count is kept. A deadline on age, idleness or bytes may be due whenever
the count is positive; the record trigger is exact.

**Catalog** is `manifest`: `snapshot` and `logged` are what the two files hold per record,
`mem` a process's map, `pc` how far a goroutine is through an append and the compaction it
may start. `Copy` runs under the read lock, `Install` and `Truncate` under `Log.mu`
(`Locked`), nothing holds between them: that is the code's locking. `SyncFails`,
`CompactFails`, `ShortWrite` are its error returns, `Crash` may leave part of a line.
**CatalogPromise** is a map whose confirmed entries are never lost to older ones; every step
of Catalog with no torn line and no overlap is one of its steps (CompactionIsInvisible).

**Reclaim** is an account with devices, each with a catalog file, a ledger with origins,
and processes with their memory of the catalog. It follows, request by request, a flush,
Forget, Reclaim, Repack, ReleaseOrphans, DropUnreadable, TakeOwnership, Hydrate and
Recover; `stage[p]` says where a process is and `keep`, `held`, `todo`, `release` are the
sets the code computes before it destroys anything. The queue and the claims are left to
FlushQueue, the catalog's files to Catalog. A command starts only with its process idle,
since Reclaim and Repack refuse while `Pending` is positive, and goes by the catalog the
process has had in memory or, as a run of its own, by the file (`Opened`). `Overlap` says
whether it may start while another process is in the middle of something.

**Sessions** is a conversation's head (`heads`), the chunks that make its transcript
(`written`, `bodies`, `queued`, `catalog`) and its links to child sessions and memories, under
calls of any number of processes. `pc[c]` says where a call is: a save reads the head, writes
its chunks one by one, watches them reach the network, and stores the head by
`PutSessionHead`, which compares versions and refuses the loser; a forget tombstones chunk
by chunk, unlinks and drops the head last; a rebuild makes a head out of chunks. Any call
may stop at any step. The history variables name the scenes the properties except:
`condemned` (a forget has begun), `contended` (a forget or rebuild shared the session with
another call), `dropped` (the head alone was dropped) and `rebuilt`. A parent whose own head
was contended is excepted from NothingDangles: two rebuilds or forgets of it can put a head
back that was read before the child was taken off.

**VectorIndex** is one process's vectors: `base` and `delta` are what the two files say of
each record, `broken` that the delta breaks off, `index` what memory holds for the model the
process was opened with. `PutVector` and `Remove` append under the lock; a put that finds
the delta long goes on to `Hydrate`, `Install` and `Truncate`, with the lock given up after
the first. `exposed` marks the records said anything of behind a break or inside another
goroutine's fold.

**ReadPath** is a query's way to its records beside Remember, Forget, a flush, the deletion
of local copies, and the reclaims and repacks of any process of the device. A recall takes
hits from a process's `index` and the device's `rows`, then fetches each: `FetchLocal` (the
device's copy), `Lookup` (catalog), `FetchCached` (location cache), `FetchRemote` (the
indexer), `PutBody` (keep a copy). `seen[p]` is the catalog a process read at open and wrote
itself since, and it is all a process goes by: a read looks up there, and a reclaim or repack
takes from there what it keeps or moves (`keep`), as `live` and `Vault.Repack` do, whatever
the file says by now. `PlanSweep` then dooms any object on a tracked slab that is not kept,
`Repack` all that is on the slabs it moves from, `Relocate` files each copy, and `Delete`
destroys one doomed object at a time, with no look at the file. Six history variables name
what the properties except, each set by the event itself:

- `early`: a copy was dropped while the file, or some process's memory, had no entry for it;
- `overtaken`: a Forget took the copy while a read was fetching it, or while a process still
  had an entry to read it by;
- `revived`: a flush or a repack catalogued a record, or was about to, after its Forget began;
- `swept`: an object was destroyed that the file listed, or a repack was about to, by a
  process whose own catalog did not have it;
- `moved`: the file left an object that another running process, or a read, still went by;
- `condemned`: a Forget has begun.

That Reclaim and Repack refuse while their process counts records as pending is left out.
The count knows nothing of what other processes queued, and Packer is about it, so this only
adds behaviours.

**Listing**, **Transcript** and **Ranking** are three readers that share no state; **Reading**
puts them side by side so that a behaviour is one of theirs (`desk`). Listing pages by a
cursor while rows are written, superseded, forgotten and restored; `Wanted` is what the
query's WHERE leaves. Transcript keeps the turns end to end (`said`) and each chunk as where
it begins and ends among them; `SplitMessages(turns)` is the set of cuts a greedy split
makes (it has one member), stated as what every group obeys instead of by recursion, so that
it can be reasoned about. A load finds the turn it starts from (`StartChunk`, `Remaining`)
and pages on; a memory's span selects turns by the first occurrences of their ids. Ranking
is arithmetic: rank fusion of a pool of `Depth` with the words' hits, boosts, scope and
supersession, in integers scaled by `Unit`, for every question over a few records that may
be other than plain. A candidate is a position among what the two passes returned
(`IdAt`), as in the code, so that dropping the second of two copies is a step of its own.
`Fused`, `Boost` and `Rank` follow fuse.go, filter.go and pipeline.go; the properties state
what the order must be without them. **Ordering** is what `ORDER BY` and a stable sort do:
an element goes where the number of elements before it says.

**Schema** is the database's version: processes of several builds open one file, take
SQLite's write lock step by step, apply a migration and stamp the number it reaches in one
transaction (`draft` is that transaction, `file` what is committed), pass over steps another
has done, fail or die anywhere, and step down. `ran` counts how often a step has taken
effect, so that running one twice shows.

Operators whose comment starts with "Mutant:" are not part of any specification. Each is a
wrong version of the operator after it. TLC is run with it in place of that operator to
see that a property is violated, so that every property is known to depend on the code.
PROJECT.json pairs them up under "mutants", names the code each definition translates
under "map", and lists "hazards", "findings" and "theorems".

## Runs

| Run | Checks | Instance | Distinct states |
|---|---|---|---|
| FlushQueue_takeover | TypeOK, NoLoss, ReportedIsTrue, FreshClaimRespected, StrandingIsRare, PaidOnce, SettledIsLedgered, KeepsPromise | 2 processes, a flush each, 2 records, 3 slabs, 2 faults | 470 thousand |
| Packer_count | OwnWritesAreCounted | a timer and a caller in one process, a caller in another, 2 records, 3 slabs, 1 fault, record trigger at 2 | 508 thousand |
| Packer_deadline | DeadlineIsKept | 1 process with timer and caller, 2 records, 4 slabs, 1 fault, no record trigger | 253 thousand |
| Catalog_durable | TypeOK, AckedSurvives, MemoryIsCurrent, CompactionIsInvisible | 2 goroutines of a process, 2 records, 5 appends, 2 crashes or failures, 1 torn line | 933 thousand |
| Catalog_overlap | EntriesOutliveCompaction (violated) | 2 goroutines, 1 record, 2 appends | |
| Reclaim_shared | TypeOK, WriterKeepsReading, ObjectsDieFirst, PaidIsKnown | 2 devices side by side, 2 records, 3 slabs, 2 faults; flush, forget, reclaim, repack, unreadable, hydrate | 2.4 million |
| Reclaim_alone | LiveIsReadable, QuotaReturns | 1 device, every command, 2 records, 3 slabs, 1 fault | 159 thousand |
| Sessions_writers | TypeOK, AcksAreKept, HeadsAreWhole, NothingDangles, NetworkedIsTrue, TranscriptsOnlyGrow | a conversation and a sub-agent run, 2 calls at a time, 4 in all, 2 chunks, a memory, 1 fault | 1.45 million |
| VectorIndex_files | TypeOK, VectorsSurvive, SearchMatchesFiles | 2 goroutines, 2 records, 2 models, 1 fault | 338 thousand |
| ReadPath_calls | TypeOK, RecallsAnswer, OwedIsSearchable, ForgottenIsGone | 2 processes with a call each, 1 record, 3 slabs; 1 fault, or 2 reclaims or repacks | 1.68 million |
| Reading_pages | TypeOK, ListingIsExact, TurnsComeBack, FiltersOnlyPrefer | a listing of 3 ids over 2 stamps; 6 turns of 4 in chunks of size 4; questions over 3 watched records of a pool of 17 | 329 thousand |
| Schema_opens | VersionTells, OpenedIsCurrent | 3 processes, of builds with 1, 2 and 3 migrations, 2 tables | 40 thousand |

What they show. Every interleaving of two flushes, with a claim taken over and the loser
releasing it, keeps the promise; within the timeout no two flushes share a record, at most
one slab is stranded per fault, and a record is written again only after a fault. The
summary a process flushes by covers its own waiting records, through other processes'
flushes, failures and reopening, except where a refresh overlaps an Add. The timer alone
then settles every record. The catalog replays to what was acknowledged through a crash in
any step. Beside other devices, a sweep or repack never takes what another device pinned
and lists; alone, the vault never loses a live object, and its quota returns. No
acknowledged turn or link of a conversation is lost to a save, a link or a rebuild beside it,
its head names readable chunks in order, and "on the network" is true when it is said.
Vectors outlive every crash and fold but one begun beside another goroutine's append. With
several processes a record that search finds cannot always be fetched: a recall may fail on
one that is being forgotten, on one whose copy was dropped here before every process had its
catalog entry, on one that a process destroyed because its catalog, read when it opened, did
not have it, and on one that has moved since the reading process read its catalog.
RecallsAnswer says that it fails on no other, through every tier, cache and order of steps.
A listing that is paged while the rows change shows each steady row exactly once; turns come
back as they were said; and a filter that is only a preference never removes an answer. The
version of a database is what is in it, through every race of builds and every death.

### Where the code and its comments part

One is a run; the others are seen by adding the named property to a run's cfg, with the
instance given. All are quoted in PROJECT.json "findings".

- *Catalog_overlap* (EntriesOutliveCompaction): an append acknowledged between Compact's copy
  and its truncation is in neither file, against "the only state a crash can leave"
  (`snapshot.go`).
- NextReadFetchesBack (ReadPath, the instance of ReadPath_calls): a process keeps the catalog
  it opened with. After another one's repack it goes to deleted objects, and each read of a
  record whose copy was dropped fails until it is run again, against "the next read fetches
  it back" (`body.go`).
- ForgottenLeavesNoCopy (ReadPath_calls): a read under way when a record is forgotten stores
  its copy again, of something "the user does not want stored at all" (`tools.go`).
- ForgottenStaysOut (ReadPath_calls): a record still queued is forgotten and flushed again, or
  one is moved by a process with an older catalog, and is in the catalog after its Forget
  returned, which "drops a record from this vault".
- PagesAlwaysFollow (Reading_pages): after a turn is sent again, "use a previous nextFrom to
  continue" (`handlers.go`) may go on from the other of its places, skipping or repeating.
- TimerSettles (Packer, the instance of Packer_deadline with no fault): a refresh reads the
  queue, an Add queues and counts, the refresh stores. The summary says zero and the timer
  never fires for that record, "precisely the case the deadlines exist for" (`timer.go`).
- VaultOpens (Catalog, one goroutine, one crash that tears): a partial last line makes Load
  fail; the comment says it is tolerated (`lines.go`).
- NoUndeadObject (Reclaim, one device; flush, forget, repack): Repack deletes only the objects
  it moved, then unpins their slabs. A forgotten record's object outlives its slab, which
  Sweep's comment warns of.
- LiveIsReadable with two processes of one device (flush, reclaim): a sweep's keep-set is the
  catalog at open, its reach the device's ledger. And with two devices (flush, orphans): a
  slab between PinSlabs and PinObjects looks empty to another process's orphan scan;
  "nothing readable is lost by construction" does not hold.
- DeletedIsNotScored (ReadPath): a forgotten record is still ranked from memory, and its
  failing fetch fails the recall, against "a deleted record stops being scored".
- RemovedStaysRemoved (VectorIndex): a removal inside another goroutine's fold, or behind a
  break, is undone; "there is no path" (`persist.go`).
- ForgottenStaysForgotten (Sessions): a save that read the head before a forget puts it back.
- NewerIsRefused (Schema): the version is compared once, before the steps.
- Two comments the passing properties FiltersOnlyPrefer and VectorsSurvive contradict: the
  word pass cannot bring a record into a full pool's answer (`fuse.go`), and the base *is*
  made by re-reading the files (`vectors.go`), which is what keeps other models' vectors.

The passing properties name their exceptions (`raced`, `late`, `torn`, `moved`, `seized`,
`exposed`, `contended`, `condemned`, `dropped`, `early`, `revived`, `overtaken`, `swept`,
`resent`; `moved` in Reclaim and in ReadPath, each its own):
each history variable is set by exactly the event of one of these findings or by something
the code permits on purpose: a flush outliving its timeout, a device claiming storage it did
not write, a local copy dropped before any other process has the catalog entry.

### Bounds, and why they are enough

Two processes, two goroutines or two devices are what every race here needs: each hazard is
between one actor's pair of steps and another's step. Two records distinguish a batch from
a part of one; three slabs allow a first write, a second after a fault or a take-over, and
a fresh one (Packer_deadline has four, so that the timer never runs out of them).
`MaxFaults` and `MaxCrashes` count failed, killed and crashed operations. Two allow a
failure during the recovery from one. `MaxAppends = 5` with `MinLines = 2` gives an
append, a compaction, and appends and a compaction after it; `MaxTears = 1` since the file
stays unreadable after one. `MaxLate = 0` in the Packer runs keeps claims of live flushes
fresh; FlushQueue_takeover has no such bound. `Overlap` is FALSE where there is one process. Records and slabs are interchangeable and
declared symmetric in the safety runs, slabs only where records have a home; the liveness
runs use no symmetry.

Sessions has four calls of which two run side by side, which is a race and what follows it
(a loser, then a rebuild; a forget, then a late save), and two chunks, so that a transcript
has an order; a session and the run under it are what child links need. VectorIndex needs two models for
memory to be less than the files. ReadPath has one record, since no step of one
record's way depends on another's, except that commands take all a process knows at once,
which the theorems cover. Three slabs are what two moves, or a move and a flush repeated, need.
`Budget` follows a failure, or one reclaim or repack, beside both calls, and a second one (a
sweep beside or after a repack) beside one call at a time, while the record is neither
forgotten nor dropped early, since RecallsAnswer excuses it from then on. The theorems have no such bound.
Ranking's bounds
are scaled, not cut: a full pool holds 100 records with the shipped weights and a plain
record is reached to 15 places down by every boost, so a pool of 17 and watched records at
1, 16 and above the pool are within, at the edge of and beyond what a boost can move; scores
are integers scaled by 10^8. TLC evaluates `WeightsAssumption` on this instance; the shipped
weights keep it at their own depth too (below). Schema has one build more than migrations that differ, so that
a step is passed over by an older build, a newer one and one in between.

Deadlock is checked for VectorIndex_files and ReadPath_calls. In the others, with all records accepted, all slabs or all
appends used up, an instance has nothing left to do, and so may a vault.

### Fairness

`PFairness` (Packer): weak fairness of `Work(f)`, since a goroutine that can go on is
scheduled and requests end; of `Open(p)`, since a vault that is never opened again settles
nothing; of `ClaimsAge`, since time passes. Strong fairness of `Tick(f)`: the ticker fires
again and again while a process is up, but a short run may end before its first tick, and
only strong fairness excludes that all of them do. Nobody is obliged to add or to flush.
`Fairness` (Reclaim): weak fairness of `Continue(p)`, an operation under way finishes or
fails; strong fairness of `Reclaim(p, TRUE)`, somebody keeps asking for the quota back,
between other commands.

## Proofs

Every theorem holds for any sets of processes, calls, devices, records, slabs and models
and any number of faults, from the assumptions named in the modules.

**WritePath_proofs**, on FlushQueue: TypeOK, NoLoss, ReportedIsTrue, SettledIsLedgered, FreshClaimRespected
and KeepsPromise. NoLoss is not inductive: `Drop` keeps it only if everything the call is
about to drop is findable, which depends on how far the call has come. `DurableInv` adds
that: past each stage what the stage did has happened (`BatchOK`), the catalog names only
what is readable, and nothing is queued that was not accepted (`CatalogInv`). Since no
action here unpins, what is findable stays so (lemma `FindableIsStable`), and the proof goes
action by action. The same invariant shows each step to be a step of DurabilityPromise or a
stutter. FreshClaimRespected needs `ClaimInv`: stamps are distinct, none is ahead of the
clock, and while nothing is late the rows of a batch still carry its call's stamp, which is
above the horizon, so no later claim can take them. SettledIsLedgered needs `LedgerInv`: a
slab the catalog names is in the ledger or about to be put there by the call that is at
`Track` with it. The two properties about numbers assume finitely many flush calls:
StrandingIsRare comes from `WasteInv` (`Wasted` is the slabs no ledger has and no call can
still put there; each was left by a fault, since a call reaches `Drop` only with its slab in
the ledger) and PaidOnce from `PaidInv` (of a record still queued, each of the `Earlier`
slabs stands for a fault, and at most one call is writing another).

On Packer, each of whose actions is one of FlushQueue's beside its own bookkeeping or leaves
FlushQueue's variables alone (`PackerFlushes`), NoLoss is restated. OwnWritesAreCounted is
about a cardinality and needs `CountInv`: the count covers `Counted(p)`, the process's own
waiting records less the one an Add is about to count, and what a refresh has read covers
them too until it stores, unless it was overlapped.

**Catalog_proofs**: TypeOK for any instance, and AckedSurvives and MemoryIsCurrent under
`OneProcess` (all goroutines in one process). `CatalogInv` adds that between installing and
emptying, the installed snapshot *is* the memory of the process, which is why emptying the
log loses nothing, that at most one goroutine is there, and that no confirmed stamp is ahead
of the last one. CompactionIsInvisible takes `AheadInv` besides: no stamp anywhere is ahead of
the last one handed out, and the files are never behind a memory, so that folding a memory
into them brings nothing back that was not there. With two processes the code overwrites the
other's lines (hazards).

**VectorIndex_proofs**: TypeOK, VectorsSurvive from `FoldInv` (what a fold copied is what the
files say, for every record not exposed), SearchMatchesFiles from `IndexInv` (a vector in
memory that no append put there came from the files, and is in every copy under way).

**ReadPath_proofs**: TypeOK, OwedIsSearchable, ForgottenIsGone and RecallsAnswer. `OwedInv`
says which writes a Remember has behind it at each step; `FreshInv` that one Remember stores
a record and nobody forgets it meanwhile; `GoneInv` what a Forget has taken at each step and
that no read still carries the copy but one that was overtaken. RecallsAnswer rests on four more.
`PlacedInv`: whatever search comes up with was stored, and is on the device or known, to
every process, to be catalogued. `SlabInv`: the slab a flush or repack writes is new, so
nobody has in a catalog what a repack has yet to file. `Spared`: nobody is about to destroy an
object that he keeps and the file still has, unless he is moving it; it is what the order of
a repack (write, file, delete) and a sweep's keep-set are for, and all the code has in place
of a check against the file. `AnswerInv`: where the file or a repack's copies point there is
an object, but for `swept`; and a process, or a read, points where the file does, but for
`moved`. Destroying keeps it by `Spared` and by the definition of `swept`
(`DeletingKeepsAnswers`), which is why the exceptions are needed and no others.

**Reclaim_proofs**: TypeOK and PaidIsKnown without condition: `PaidInv` says that every slab
in use was spent, that one a process is writing is in its hand, and that the slabs no ledger
knows are at most as many as the faults. WriterKeepsReading and ObjectsDieFirst need
`Beside` (one process to a device, no orphan scan), because without it the code breaks them
(the findings above). Under it `ReclaimInv` has, per process, what its stage still relies on:
what it is writing is pinned by nobody else (`OwnInv`, `WriteOK`), what a repack is moving
stays readable at the old place or the new (`RepackOK`), what a sweep is about to release
holds nothing the catalog lists and its objects are gone before it (`SweepOK`,
`UndeadMoved`), and no device's release meets what another pinned and lists (`FileOK`,
`ApartInv`), as long as no device has claimed storage it did not write. LiveIsReadable is
proved under `OneProcess`, for every command, orphan scans and claims included. It needs
the one process: a sweep's keep-set is the memory of the process that runs it and its reach
is the ledger of the device, so with a second process it releases what the first has just
written (the finding). `AloneInv` says what is left when that cannot happen: the memory is
the file; what the file lists can be read; what a sweep keeps is all of it, and nothing it
is about to retire or release is listed (`SpareOK`); and a repack retires the old place of a
record only after the file names the new one (`RepackOK`). The last two are what each
command's order of steps is for, and what dying between any two of them must not break.

**Schema_proofs**: TypeOK, VersionTells and OpenedIsCurrent. `VersionInv` adds for each process what it stands
on (`ProcessOK`): a transaction is the only one, is about the step after the committed
version and holds exactly what it has done so far (`DraftOK`), a process between steps is
nowhere ahead of that step, and one that steps down is alone. `CurrentInv` adds
that no step but the step down past the baseline touches the rows, in the file or in an open
transaction, and that the version never falls below what a process that has the file open
was built for: a step down needs every other process closed. What has run up to that version
is then VersionTells.

**Sessions_proofs**: TypeOK, HeadsAreWhole, NetworkedIsTrue, TranscriptsOnlyGrow, AcksAreKept
and NothingDangles, everything Sessions_writers checks, for any callers, sessions, memories
and lengths and any number of calls and stops. The argument is layered, each layer using the
ones before it. `LineageInv`: only a session with a parent says so, in the store or in the
hands of a call. `TranscriptInv`: every head, stored or in hand, is a transcript of its
session (`Whole`, `ByPlace`), and a chunk numbered n has n chunks of smaller numbers in the
store (`Backed`), so that a rebuild, which sorts what it finds, puts no chunk further up than
its place; only a forget takes a body away, and then the session is `condemned`. `ApartInv`:
a call that destroys or remakes a head has it to itself unless the head is `contended`
(`AloneInv`), and a call that revises one loses nothing of it while the version it read is
the one stored (`Revises`), which is why comparing versions is enough. `AckInv`: what a call
has stored and will acknowledge is in the head already. `DangleInv`: the only call that lists
a session holds its head, and one that gives a head up has been round its parent and the
search rows before. The strengthenings stand in Sessions.tla, and were model-checked on the
instance of Sessions_writers before they were proved.

**Reading_proofs**: TypeOK, ListingIsExact, TurnsComeBack and FiltersOnlyPrefer, each from an
invariant of its own part. All lists rest on `ListsInOrder`: under a strict total order,
InOrder gives each element of a finite set once and in order, because the places are
0 to one less than the size (`PlacesRise`, a surjection of a finite set onto numbers, by
`HasFirst`).

- `ListingInv`: the cursor is the last row given and a row keeps its stamp. So whatever is
  written between two pages, what is wanted comes after all that was given, and a row that
  matched throughout is either given or after the cursor (`WantedInOrder`,
  `ListRecordsStep`). That a row keeps its stamp on conflict is used: the mutant that stamps
  it again breaks the proof at `PutKeeps` and the run.
- `RankingInv`: the answer is `Rank` of a question. `OnlyNearOvertake` is the arithmetic: what
  filters and words can add to a score (`ScoresAreClose`) is less than the worth of being
  nearest over being out of Reach, and of being in the pool at all. This is
  `WeightsAssumption`, on the constants. The shipped weights (1, 0.03, 0.002, 0.00067, k = 60)
  keep both parts, the second even for the last of a full pool of 100: 1/160 = 0.00625
  against 0.00316. `AnswerIsRanked` then counts: fewer than Reach records precede the nearest, so it is
  left out only of an answer shorter than Reach.
- `TranscriptInv`: until a turn is sent again each stands in one place, the next page's first
  turn among them, and a chunk begins before it ends. `RemainingIs` shows that a load finds
  its place in `said` exactly, whichever chunk it was told to look from; `SelectStays` that a
  span selects the same turns in a longer conversation, turns sent again included; `SaveStep`
  that every group of a greedy cut fits or is a single turn. SavesAreCutOneWay is about the
  operator: `SplitMessages(turns)` has one member for every sequence of turns, so the model
  saves whatever the code saves and cuts it in the one way the code can. It needs no
  induction: the longest stretch of turns that can be cut is all of them, since a shorter one
  can be gone on with (`CutGoesOn`), and below the first turn two cuts differ on they have
  the same groups (`CutsAgree`).

Only model-checked: DeadlineIsKept and QuotaReturns, which say that something happens under
fairness and need ENABLED. What the size of a group, `Bytes`, computes is a fold over its
turns, which the proofs never open.

## Not modelled

A batch is taken to fit one slab, and a vault to be online: a packer without a store queues
and never flushes. Entries are told apart by when they were appended, lines by whether they
decode. Two processes overlapping inside the writing of a temporary snapshot, or inside the
two reads of Load, are left out, as is what two compacting processes do to each other's
lines. In Reclaim, records have fresh identifiers and are flushed once; the figures of
Account, Watermark and Unledgered decide nothing and are left out. In Sessions the
descriptive fields of a head and the outlines of sessions, in VectorIndex a second folding
process, in ReadPath the five minutes a set of hosts is kept and the sectors of a download,
in Ranking the scores of the two passes themselves are left out. Rebuilding the index, by
embedding every body again, and advice call the model and change only vectors, as a Remember
does. The pool of requests in flight (`sia/concurrent.go`) is present through its effect, any
subset of a batch's pins having happened when it fails. Cryptography, embedding, floating
point, parsing and rendering are outside: their results are opaque names here. The MCP
server and the command line parse, resolve and render over the operations modelled; what
they decide, a timer per process and which commands there are, is in the CONSTANTS.
PROJECT.json "components" gives every part and its reason.

## Plan

1. *InFlight*: the pool of sixteen requests, cancellation and its answer, refined by the "any
   subset has landed" of `PutBatchFails`; multi-slab batches in FlushQueue; the listing of an
   object over pages in Reclaim.
2. Composition: Reclaim over FlushQueue's queue, so that `Pending` guards are checked.
3. Proofs: Catalog's theorems for two processes that do not compact at a time; the safety
   halves of the two liveness properties (what a timer that is due sees, what a sweep that
   ends has left), which are all that TLAPS can add to them.
