------------------------------- MODULE ReadPath -------------------------------
(***************************************************************************)
(* From a query to the records it names, beside the calls that store and   *)
(* forget them (recall/pipeline.go, vault/fetch.go, vault/remember.go,     *)
(* vault/reclaim.go, local/body.go, local/ranking.go, local/slabmeta.go).  *)
(*                                                                         *)
(* A recall takes its candidates from the vectors in memory and from the   *)
(* device's term index, and then fetches each: from the device's copy, or  *)
(* through the catalog from where a cache says the object lies, or from    *)
(* where the indexer says.  One that cannot be fetched fails the recall.   *)
(* Remember and Forget write, in an order of their own, the copy, the      *)
(* vector, the ranking row, the queue and the catalog.                     *)
(*                                                                         *)
(* The processes of a device share its tables and files.  Vectors and      *)
(* catalog are read into memory when a process opens and never again, so   *)
(* each knows what it wrote itself and what it found.  The files keep what *)
(* is written to them, which is what VectorIndex and Catalog are about.  A *)
(* flush writes one object per record to a slab of its own.                *)
(*                                                                         *)
(* Reclaim and Repack destroy objects by the catalog in the memory of the  *)
(* process that runs them, as they found it when they began, and not by    *)
(* the file.  Two things follow that the module notes where they happen: a *)
(* process destroys what another has catalogued since (swept), and a       *)
(* process that stays open reads where a record no longer is (moved).      *)
(***************************************************************************)
EXTENDS Naturals, FiniteSets

CONSTANTS
  Record,    \* memories
  Slab,      \* slabs that flushes and repacks may write
  NoSlab,    \* the absence of one
  Proc,      \* processes that have the vault open
  Caller,    \* calls in flight, over all processes
  ProcOf,    \* the process each runs in
  MaxFaults, \* bound on calls and flushes that fail or die
  MaxJobs    \* bound on reclaims and repacks

ASSUME SlabAssumption == NoSlab \notin Slab
ASSUME CallerAssumption == ProcOf \in [Caller -> Proc]
ASSUME BoundAssumption == MaxFaults \in Nat /\ MaxJobs \in Nat

VARIABLES
  bodies,    \* records the device holds a copy of
  vectors,   \* records with a vector in the files
  rows,      \* records with a ranking row and terms
  queued,    \* records in the flush queue
  entry,     \* the slab the catalog's files give each record, or NoSlab
  network,   \* <<record, slab>>: objects the account can open
  spent,     \* slabs handed out so far
  located,   \* objects with a location cached
  slabbed,   \* slabs with a sector list cached
  up,        \* processes that run
  index,     \* records with a vector in each process's memory
  seen,      \* the catalog in each process's memory
  flushing,  \* records each process has catalogued and not yet dequeued
  job,       \* where each process is in a reclaim or a repack
  keep,      \* the catalog it goes by
  copies,    \* objects its repack has written and not yet catalogued
  doomed,    \* objects it is to destroy
  pc,        \* where each call is
  target,    \* the record each call works on
  hits,      \* the records a recall has yet to fetch
  spot,      \* the slab the catalog sent a read to
  born,      \* records that a Remember was begun for
  condemned, \* records a Forget was begun on (history)
  forgotten, \* records a Forget returned success for (history)
  early,     \* records whose copy was dropped before the catalog, or every
             \* process's memory of it, had them (history)
  revived,   \* records a flush or a repack has catalogued, or may, after a
             \* Forget (history)
  overtaken, \* records a Forget took while a read was fetching them, or a
             \* process's catalog still had them (history)
  swept,     \* objects destroyed while the catalog's file had them, or was
             \* about to, by a process whose own catalog had not (history)
  moved,     \* objects the catalog's file has left while a read under way or
             \* the catalog of another process went by them (history)
  failed,    \* <<record, place>>: what a recall failed on, and where it had
             \* looked, faults apart (history)
  jobs,      \* reclaims and repacks so far
  faults     \* calls and flushes that failed or died so far

tables  == <<bodies, rows, queued, located, slabbed>>
files   == <<vectors, entry>>
account == <<network, spent>>
memory  == <<up, index, seen, flushing>>
storage == <<job, keep, copies, doomed, jobs>>
call    == <<pc, target, hits, spot>>
history == <<born, condemned, forgotten, early, revived, overtaken, swept, moved, failed>>
vars    == <<tables, files, account, memory, storage, call, history, faults>>

Object == Record \X Slab
Place == Slab \union {NoSlab}
Nowhere == [r \in Record |-> NoSlab]

Reading == {"lookup", "cached", "remote", "put"}
Stages ==
  {"idle", "vector", "row", "add", "body", "unvector", "unrow", "read"} \union Reading

TypeOK ==
  /\ bodies \subseteq Record /\ vectors \subseteq Record /\ rows \subseteq Record
  /\ queued \subseteq Record
  /\ entry \in [Record -> Place]
  /\ network \subseteq Object /\ spent \subseteq Slab
  /\ located \subseteq Object /\ slabbed \subseteq Slab
  /\ up \subseteq Proc
  /\ index \in [Proc -> SUBSET Record]
  /\ seen \in [Proc -> [Record -> Place]]
  /\ flushing \in [Proc -> SUBSET Record]
  /\ job \in [Proc -> {"none", "walk", "move", "destroy"}]
  /\ keep \in [Proc -> [Record -> Place]]
  /\ copies \in [Proc -> SUBSET Object]
  /\ doomed \in [Proc -> SUBSET Object]
  /\ pc \in [Caller -> Stages]
  /\ target \in [Caller -> Record \union {NoSlab}]
  /\ hits \in [Caller -> SUBSET Record]
  /\ spot \in [Caller -> Place]
  /\ \A c \in Caller : pc[c] \in {"cached", "remote", "put"} => spot[c] \in Slab
  /\ \A c \in Caller : pc[c] \notin {"idle", "read"} => target[c] \in Record
  /\ born \subseteq Record /\ condemned \subseteq Record /\ forgotten \subseteq Record
  /\ early \subseteq Record /\ revived \subseteq Record /\ overtaken \subseteq Record
  /\ swept \subseteq Object /\ moved \subseteq Object
  /\ failed \subseteq Record \X Place
  /\ jobs \in 0..MaxJobs
  /\ faults \in 0..MaxFaults

Init ==
  /\ bodies = {} /\ vectors = {} /\ rows = {} /\ queued = {}
  /\ entry = Nowhere
  /\ network = {} /\ spent = {} /\ located = {} /\ slabbed = {}
  /\ up = Proc
  /\ index = [p \in Proc |-> {}]
  /\ seen = [p \in Proc |-> Nowhere]
  /\ flushing = [p \in Proc |-> {}]
  /\ job = [p \in Proc |-> "none"]
  /\ keep = [p \in Proc |-> Nowhere]
  /\ copies = [p \in Proc |-> {}]
  /\ doomed = [p \in Proc |-> {}]
  /\ pc = [c \in Caller |-> "idle"]
  /\ target = [c \in Caller |-> NoSlab]
  /\ hits = [c \in Caller |-> {}]
  /\ spot = [c \in Caller |-> NoSlab]
  /\ born = {} /\ condemned = {} /\ forgotten = {} /\ early = {}
  /\ revived = {} /\ overtaken = {} /\ swept = {} /\ moved = {} /\ failed = {}
  /\ jobs = 0
  /\ faults = 0

At(c, stage) == ProcOf[c] \in up /\ pc[c] = stage
Goto(c, stage) == pc' = [pc EXCEPT ![c] = stage]

Return(c) ==
  /\ Goto(c, "idle")
  /\ target' = [target EXCEPT ![c] = NoSlab]
  /\ hits' = [hits EXCEPT ![c] = {}]
  /\ spot' = [spot EXCEPT ![c] = NoSlab]

(* Somebody other than p still goes by o.                                   *)
GoneBy(p, o) ==
  \/ \E q \in up \ {p} : seen[q][o[1]] = o[2]
  \/ \E c \in Caller : pc[c] \in {"cached", "remote"} /\ target[c] = o[1] /\ spot[c] = o[2]

(* manifest.Append: the files, and the memory of the process that appends.  *)
Catalogued(p, batch, s) ==
  /\ entry' = [r \in Record |-> IF r \in batch THEN s ELSE entry[r]]
  /\ seen' = [seen EXCEPT ![p] = [r \in Record |-> IF r \in batch THEN s ELSE @[r]]]
  /\ moved' = moved \union {o \in Object : o[1] \in batch /\ entry[o[1]] = o[2] /\ GoneBy(p, o)}

-----------------------------------------------------------------------------
(* Remember: the id is new; the copy on the device is first.                *)
Remember(c, r) ==
  /\ At(c, "idle")
  /\ r \notin born
  /\ born' = born \union {r}
  /\ bodies' = bodies \union {r}
  /\ target' = [target EXCEPT ![c] = r]
  /\ Goto(c, "vector")
  /\ UNCHANGED <<rows, queued, located, slabbed, files, account, memory, storage, hits, spot,
                 condemned, forgotten, early, revived, overtaken, swept, moved, failed, faults>>

(* putVector.                                                               *)
PutVector(c) ==
  /\ At(c, "vector")
  /\ vectors' = vectors \union {target[c]}
  /\ index' = [index EXCEPT ![ProcOf[c]] = @ \union {target[c]}]
  /\ Goto(c, "row")
  /\ UNCHANGED <<tables, entry, account, up, seen, flushing, storage, target, hits, spot, history,
                 faults>>

(* Mutant: the record is queued before it can be found by its words.        *)
PutRowLast(c) ==
  /\ At(c, "row")
  /\ queued' = queued \union {target[c]}
  /\ Goto(c, "add")
  /\ UNCHANGED <<bodies, rows, located, slabbed, files, account, memory, storage, target, hits,
                 spot, history, faults>>

(* PutRankingMeta: the row and the terms in one transaction.                *)
PutRow(c) ==
  /\ At(c, "row")
  /\ rows' = rows \union {target[c]}
  /\ Goto(c, "add")
  /\ UNCHANGED <<bodies, queued, located, slabbed, files, account, memory, storage, target, hits,
                 spot, history, faults>>

(* Packer.Add; a flush it triggers is Flush.                                *)
Add(c) ==
  /\ At(c, "add")
  /\ queued' = queued \union {target[c]}
  /\ Return(c)
  /\ UNCHANGED <<bodies, rows, located, slabbed, files, account, memory, storage, history, faults>>

(* A flush of the whole queue to a slab of its own.                         *)
Flush(p, s) ==
  /\ p \in up
  /\ queued # {}
  /\ \A q \in Proc : flushing[q] = {}
  /\ s \notin spent
  /\ spent' = spent \union {s}
  /\ network' = network \union (queued \X {s})
  /\ Catalogued(p, queued, s)
  /\ flushing' = [flushing EXCEPT ![p] = queued]
  /\ revived' = revived \union (queued \cap condemned)
  /\ UNCHANGED <<tables, vectors, up, index, storage, call, born, condemned, forgotten,
                 early, overtaken, swept, failed, faults>>

(* ... and its rows are dropped.                                            *)
Drop(p) ==
  /\ flushing[p] # {}
  /\ queued' = queued \ flushing[p]
  /\ flushing' = [flushing EXCEPT ![p] = {}]
  /\ UNCHANGED <<bodies, rows, located, slabbed, files, account, up, index, seen, storage, call,
                 history, faults>>

-----------------------------------------------------------------------------
(* Mutant: the copy on the device stays.                                    *)
ForgetBodyKept(c) ==
  /\ At(c, "body")
  /\ Goto(c, "unvector")
  /\ UNCHANGED <<tables, files, account, memory, storage, target, hits, spot, history, faults>>

(* Forget: the removal marker in the catalog, or an error when this process *)
(* sees no entry to remove.                                                *)
Forget(c, r) ==
  /\ At(c, "idle")
  /\ seen[ProcOf[c]][r] # NoSlab
  /\ Catalogued(ProcOf[c], {r}, NoSlab)
  /\ target' = [target EXCEPT ![c] = r]
  /\ Goto(c, "body")
  /\ condemned' = condemned \union {r}
  /\ revived' = revived \union ({r} \cap queued)
  /\ UNCHANGED <<tables, vectors, account, up, index, flushing, storage, hits, spot, born,
                 forgotten, early, overtaken, swept, failed, faults>>

(* ForgetBody.                                                              *)
ForgetBody(c) ==
  /\ At(c, "body")
  /\ bodies' = bodies \ {target[c]}
  /\ overtaken' = overtaken \union
       {r \in {target[c]} : \/ \E d \in Caller : pc[d] \in Reading /\ target[d] = r
                            \/ \E p \in up : seen[p][r] # NoSlab}
  /\ Goto(c, "unvector")
  /\ UNCHANGED <<rows, queued, located, slabbed, files, account, memory, storage, target, hits,
                 spot, born, condemned, forgotten, early, revived, swept, moved, failed, faults>>

(* vectors.Remove: the files only.                                          *)
RemoveVector(c) ==
  /\ At(c, "unvector")
  /\ vectors' = vectors \ {target[c]}
  /\ Goto(c, "unrow")
  /\ UNCHANGED <<tables, entry, account, memory, storage, target, hits, spot, history, faults>>

(* ForgetRankingMeta.                                                       *)
ForgetRow(c) ==
  /\ At(c, "unrow")
  /\ rows' = rows \ {target[c]}
  /\ forgotten' = forgotten \union {target[c]}
  /\ Return(c)
  /\ UNCHANGED <<bodies, queued, located, slabbed, files, account, memory, storage, born,
                 condemned, early, revived, overtaken, swept, moved, failed, faults>>

(* ForgetLocally.                                                           *)
ForgetLocally(r) ==
  /\ r \in bodies
  /\ bodies' = bodies \ {r}
  /\ early' = early \union
       {q \in {r} : entry[q] = NoSlab \/ \E p \in up : seen[p][q] = NoSlab}
  /\ UNCHANGED <<rows, queued, located, slabbed, files, account, memory, storage, call, born,
                 condemned, forgotten, revived, overtaken, swept, moved, failed, faults>>

(* A reclaim or a repack of p is over.                                      *)
Quit(p) ==
  /\ job' = [job EXCEPT ![p] = "none"]
  /\ keep' = [keep EXCEPT ![p] = Nowhere]
  /\ copies' = [copies EXCEPT ![p] = {}]
  /\ doomed' = [doomed EXCEPT ![p] = {}]

(* One begins: a command of its own.  That it refuses while the process has *)
(* records pending is left out: the count, which Packer is about, knows     *)
(* nothing of what others have queued.                                      *)
Begin(p, stage) ==
  /\ p \in up
  /\ job[p] = "none"
  /\ jobs < MaxJobs
  /\ jobs' = jobs + 1
  /\ job' = [job EXCEPT ![p] = stage]
  /\ keep' = [keep EXCEPT ![p] = seen[p]]

(* Reclaim and live: what this process knows is what is kept.  An empty     *)
(* keep-set takes --release-all.                                            *)
Reclaim(p) ==
  /\ Begin(p, "walk")
  /\ UNCHANGED <<tables, files, account, memory, copies, doomed, call, history, faults>>

(* Mutant: the keep-set matches nothing.                                    *)
PlanSweepAll(p) ==
  /\ job[p] = "walk"
  /\ job' = [job EXCEPT ![p] = "destroy"]
  /\ doomed' = [doomed EXCEPT ![p] = network]
  /\ UNCHANGED <<tables, files, account, memory, keep, copies, jobs, call, history, faults>>

(* Sweep up to planSweep: the objects on slabs of the ledger, which may be  *)
(* any here, that are not kept.                                             *)
PlanSweep(p) ==
  /\ job[p] = "walk"
  /\ job' = [job EXCEPT ![p] = "destroy"]
  /\ \E tracked \in SUBSET spent :
       doomed' = [doomed EXCEPT ![p] =
         {o \in network : o[2] \in tracked /\ keep[p][o[1]] # o[2]}]
  /\ UNCHANGED <<tables, files, account, memory, keep, copies, jobs, call, history, faults>>

(* Repack reads every record this process knows and writes them to a new    *)
(* slab; it will destroy the objects it read, and all else that is on their *)
(* slabs.                                                                   *)
Repack(p, s) ==
  LET held == {o \in Object : seen[p][o[1]] = o[2]}
      written == {<<o[1], s>> : o \in held}
  IN /\ Begin(p, "move")
     /\ held # {} /\ held \subseteq network
     /\ s \notin spent
     /\ spent' = spent \union {s}
     /\ network' = network \union written
     /\ copies' = [copies EXCEPT ![p] = written]
     /\ doomed' = [doomed EXCEPT ![p] = {o \in network : \E h \in held : h[2] = o[2]}]
     /\ UNCHANGED <<tables, files, memory, call, history, faults>>

(* Mutant: the old object goes before the catalog points at the new.        *)
RelocateLast(p, o) ==
  /\ job[p] = "move"
  /\ o \in copies[p]
  /\ copies' = [copies EXCEPT ![p] = @ \ {o}]
  /\ job' = [job EXCEPT ![p] = IF copies[p] = {o} THEN "destroy" ELSE @]
  /\ UNCHANGED <<tables, files, account, memory, keep, doomed, jobs, call, history, faults>>

(* relocate, one record: the entry, unless it is gone, and then the cached  *)
(* location of the old object.                                              *)
Relocate(p, o) ==
  LET r == o[1]
  IN /\ job[p] = "move"
     /\ o \in copies[p]
     /\ IF seen[p][r] = NoSlab
        THEN Quit(p) /\ UNCHANGED <<entry, seen, located, revived, moved>>
        ELSE /\ Catalogued(p, {r}, o[2])
             /\ located' = located \ {<<r, keep[p][r]>>}
             /\ revived' = revived \union ({r} \cap condemned)
             /\ copies' = [copies EXCEPT ![p] = @ \ {o}]
             /\ job' = [job EXCEPT ![p] = IF copies[p] = {o} THEN "destroy" ELSE @]
             /\ UNCHANGED <<keep, doomed>>
     /\ UNCHANGED <<bodies, rows, queued, slabbed, vectors, account, up, index, flushing,
                    jobs, call, born, condemned, forgotten, early, overtaken, swept,
                    failed, faults>>

(* The catalog's file points at o, or a repack is about to have it so.      *)
Wanted(o) == entry[o[1]] = o[2] \/ \E q \in Proc : o \in copies[q]

(* DeleteObjects, or Unpin of the slab o is on.                             *)
Delete(p, o) ==
  /\ job[p] = "destroy"
  /\ o \in doomed[p]
  /\ network' = network \ {o}
  /\ doomed' = [doomed EXCEPT ![p] = @ \ {o}]
  /\ swept' = swept \union {x \in {o} : Wanted(x) /\ keep[p][x[1]] # x[2]}
  /\ UNCHANGED <<tables, files, spent, memory, job, keep, copies, jobs, call, born,
                 condemned, forgotten, early, revived, overtaken, moved, failed, faults>>

(* The sector lists of the slabs that were released go, and it ends.        *)
Release(p) ==
  /\ job[p] = "destroy"
  /\ doomed[p] = {}
  /\ \E released \in SUBSET {s \in spent : \A r \in Record : <<r, s>> \notin network} :
       slabbed' = slabbed \ released
  /\ Quit(p)
  /\ UNCHANGED <<bodies, rows, queued, located, files, account, memory, jobs, call, history,
                 faults>>

(* A reclaim or a repack fails between two of its steps.                    *)
Abandon(p) ==
  /\ job[p] # "none"
  /\ Quit(p)
  /\ UNCHANGED <<tables, files, account, memory, jobs, call, history, faults>>

-----------------------------------------------------------------------------
(* What a search of a process may come up with: the records its own memory  *)
(* holds a vector of, and those that share a word with the query.          *)
Candidates(p) == index[p] \union rows

(* Pipeline.Run up to the ranking: what ranks high is any of the            *)
(* candidates, and with a scope any of those that are described.           *)
Recall(c, scoped) ==
  /\ At(c, "idle")
  /\ \E ranked \in SUBSET Candidates(ProcOf[c]) :
       /\ ranked # {}
       /\ scoped => ranked \subseteq rows
       /\ hits' = [hits EXCEPT ![c] = ranked]
  /\ Goto(c, "read")
  /\ UNCHANGED <<tables, files, account, memory, storage, target, spot, history, faults>>

(* The hit c has been fetched, and the recall goes on to the next or ends.  *)
Fetched(c, r) ==
  IF hits[c] = {r} THEN Return(c)
  ELSE /\ hits' = [hits EXCEPT ![c] = @ \ {r}]
       /\ target' = [target EXCEPT ![c] = NoSlab]
       /\ spot' = [spot EXCEPT ![c] = NoSlab]
       /\ Goto(c, "read")

(* The recall fails on r, which it looked for at s.                         *)
FailOn(c, r, s) == failed' = failed \union {<<r, s>>} /\ Return(c)

(* fetchBody: the device's own copy.                                        *)
FetchLocal(c, r) ==
  /\ At(c, "read")
  /\ r \in hits[c]
  /\ IF r \in bodies
     THEN Fetched(c, r)
     ELSE /\ target' = [target EXCEPT ![c] = r]
          /\ Goto(c, "lookup")
          /\ UNCHANGED <<hits, spot>>
  /\ UNCHANGED <<tables, files, account, memory, storage, history, faults>>

(* Mutant: a removal marker is taken for an entry.                          *)
LookupUnchecked(c) ==
  /\ At(c, "lookup")
  /\ spot' = [spot EXCEPT ![c] = seen[ProcOf[c]][target[c]]]
  /\ Goto(c, "cached")
  /\ UNCHANGED <<tables, files, account, memory, storage, target, hits, history, faults>>

(* fetchBody: the catalog.                                                  *)
Lookup(c) ==
  LET s == seen[ProcOf[c]][target[c]]
  IN /\ At(c, "lookup")
     /\ IF s = NoSlab
        THEN FailOn(c, target[c], NoSlab)
        ELSE /\ spot' = [spot EXCEPT ![c] = s]
             /\ Goto(c, "cached")
             /\ UNCHANGED <<target, hits, failed>>
     /\ UNCHANGED <<tables, files, account, memory, storage, born, condemned, forgotten, early,
                    revived, overtaken, swept, moved, faults>>

(* Mutant: the old location stays, and is taken for a failed read.          *)
FetchCachedOnly(c) ==
  LET o == <<target[c], spot[c]>>
  IN /\ At(c, "cached")
     /\ \/ o \in located /\ spot[c] \in slabbed /\ Goto(c, "put")
           /\ UNCHANGED <<target, hits, spot, failed>>
        \/ FailOn(c, target[c], spot[c])
     /\ UNCHANGED <<tables, files, account, memory, storage, born, condemned, forgotten, early,
                    revived, overtaken, swept, moved, faults>>

(* fetchCached: a location and its slab's sector list, neither older than   *)
(* SlabMetaTTL, may answer, even for an object that is gone; one that does *)
(* not is dropped.                                                         *)
FetchCached(c) ==
  LET o == <<target[c], spot[c]>>
  IN /\ At(c, "cached")
     /\ \/ Goto(c, "remote") /\ UNCHANGED <<located, slabbed>>
        \/ /\ o \in located /\ spot[c] \in slabbed
           /\ \/ Goto(c, "put") /\ UNCHANGED <<located, slabbed>>
              \/ /\ Goto(c, "remote")
                 /\ located' = located \ {o}
                 /\ slabbed' = slabbed \ {spot[c]}
     /\ UNCHANGED <<bodies, rows, queued, files, account, memory, storage, target, hits, spot,
                    history, faults>>

(* fetchRemote: the indexer's answer, which is cached.                      *)
FetchRemote(c) ==
  LET r == target[c]
      s == spot[c]
  IN /\ At(c, "remote")
     /\ IF <<r, s>> \in network
        THEN /\ slabbed' = slabbed \union {s}
             /\ located' = located \union {<<r, s>>}
             /\ Goto(c, "put")
             /\ UNCHANGED <<target, hits, spot, failed>>
        ELSE FailOn(c, r, s) /\ UNCHANGED <<located, slabbed>>
     /\ UNCHANGED <<bodies, rows, queued, files, account, memory, storage, born, condemned,
                    forgotten, early, revived, overtaken, swept, moved, faults>>

(* fetchBody, its end: the device holds the record again.                   *)
PutBody(c) ==
  /\ At(c, "put")
  /\ bodies' = bodies \union {target[c]}
  /\ Fetched(c, target[c])
  /\ UNCHANGED <<rows, queued, located, slabbed, files, account, memory, storage, history, faults>>

-----------------------------------------------------------------------------
(* A call fails between two of its steps, the network for one.              *)
Fail(c) ==
  /\ pc[c] # "idle"
  /\ faults < MaxFaults
  /\ faults' = faults + 1
  /\ Return(c)
  /\ UNCHANGED <<tables, files, account, memory, storage, history>>

(* A process ends, with or without calls or a command in flight.            *)
Stop(p) ==
  LET mine == {c \in Caller : ProcOf[c] = p}
      busy == flushing[p] # {} \/ \E c \in mine : pc[c] # "idle"
  IN /\ p \in up
     /\ busy => faults < MaxFaults
     /\ faults' = IF busy THEN faults + 1 ELSE faults
     /\ up' = up \ {p}
     /\ index' = [index EXCEPT ![p] = {}]
     /\ seen' = [seen EXCEPT ![p] = Nowhere]
     /\ flushing' = [flushing EXCEPT ![p] = {}]
     /\ Quit(p)
     /\ pc' = [c \in Caller |-> IF c \in mine THEN "idle" ELSE pc[c]]
     /\ target' = [c \in Caller |-> IF c \in mine THEN NoSlab ELSE target[c]]
     /\ hits' = [c \in Caller |-> IF c \in mine THEN {} ELSE hits[c]]
     /\ spot' = [c \in Caller |-> IF c \in mine THEN NoSlab ELSE spot[c]]
     /\ UNCHANGED <<tables, files, account, jobs, history>>

(* Mutant: the catalog is not read.                                         *)
OpenUnread(p) ==
  /\ p \notin up
  /\ up' = up \union {p}
  /\ index' = [index EXCEPT ![p] = vectors]
  /\ UNCHANGED <<tables, files, account, seen, flushing, storage, call, history, faults>>

Open(p) ==
  /\ p \notin up
  /\ up' = up \union {p}
  /\ index' = [index EXCEPT ![p] = vectors]
  /\ seen' = [seen EXCEPT ![p] = entry]
  /\ UNCHANGED <<tables, files, account, flushing, storage, call, history, faults>>

Next ==
  \/ \E c \in Caller :
       \/ \E r \in Record : Remember(c, r) \/ Forget(c, r) \/ FetchLocal(c, r)
       \/ PutVector(c) \/ PutRow(c) \/ Add(c)
       \/ ForgetBody(c) \/ RemoveVector(c) \/ ForgetRow(c)
       \/ \E scoped \in BOOLEAN : Recall(c, scoped)
       \/ Lookup(c) \/ FetchCached(c) \/ FetchRemote(c) \/ PutBody(c)
       \/ Fail(c)
  \/ \E p \in Proc :
       \/ \E s \in Slab : Flush(p, s) \/ Repack(p, s)
       \/ \E o \in Object : Relocate(p, o) \/ Delete(p, o)
       \/ Reclaim(p) \/ PlanSweep(p) \/ Release(p) \/ Abandon(p)
       \/ Drop(p) \/ Stop(p) \/ Open(p)
  \/ \E r \in Record : ForgetLocally(r)

Spec == Init /\ [][Next]_vars

-----------------------------------------------------------------------------
(* RecallsAnswer: a recall fails on a record only when somebody forgets it; *)
(* when its copy was dropped before every process knew of another; when a  *)
(* process by whose catalog the object was not there destroyed it, which   *)
(* the file then still listed; or when a repack, or a flush repeated, had   *)
(* moved it since the process opened, or moved it under the read.  Else    *)
(* what search finds can be fetched.                                       *)
RecallsAnswer ==
  \A f \in failed : f[1] \in condemned \union early \/ f \in swept \union moved

(* OwedIsSearchable: a record owed to the network, or there, can be found   *)
(* by its meaning and by its words until it is forgotten: nothing leaves a *)
(* record that no recall returns.                                          *)
OwedIsSearchable ==
  \A r \in Record : (r \in queued \/ entry[r] # NoSlab) =>
    r \in condemned \/ (r \in vectors /\ r \in rows)

(* ForgottenIsGone: after a Forget the device holds nothing of the record   *)
(* but the copy that a read under way, or one by a process with an older   *)
(* catalog, puts back, and a catalog entry only when it was still queued   *)
(* or a process with an older catalog moved it.                            *)
ForgottenIsGone ==
  \A r \in forgotten :
    /\ r \notin vectors \union rows
    /\ entry[r] = NoSlab \/ r \in revived
    /\ r \in bodies => r \in overtaken \union revived

(* ForgottenLeavesNoCopy: "Forget is for things the user does not want      *)
(* stored at all" (mcp/tools.go): no copy of a record is on the device      *)
(* once its Forget has returned.                                            *)
ForgottenLeavesNoCopy == bodies \cap forgotten = {}

(* ForgottenStaysOut: "Forget drops a record from this vault"               *)
(* (vault/reclaim.go): a record whose Forget has returned has no entry.     *)
ForgottenStaysOut == \A r \in forgotten : entry[r] = NoSlab

(* Why they hold, for any processes, calls and records.                     *)
Storing == {"vector", "row", "add"}
Dropping == {"body", "unvector", "unrow"}
Known(p, r) == seen[p][r] # NoSlab
Searchable(r) == r \in condemned \/ (r \in vectors /\ r \in rows)

(* What is owed can be found because a Remember makes it so before it is    *)
(* queued, and only a Forget takes it back.                                *)
OwedInv ==
  /\ OwedIsSearchable
  /\ \A p \in Proc, r \in Record : Known(p, r) => Searchable(r)
  /\ \A c \in Caller :
       /\ pc[c] \in Dropping => target[c] \in condemned
       /\ pc[c] = "row" => target[c] \in condemned \union vectors
       /\ pc[c] = "add" => Searchable(target[c])

(* One Remember stores a record, and nobody forgets it before it is done.   *)
FreshInv ==
  /\ \A r \in Record : (r \in queued \union condemned \/ entry[r] # NoSlab) => r \in born
  /\ \A p \in Proc, r \in Record : Known(p, r) => r \in born
  /\ \A c \in Caller : pc[c] \in Storing =>
       LET r == target[c]
       IN /\ r \in born /\ r \notin queued \union condemned
          /\ entry[r] = NoSlab
          /\ \A p \in Proc : ~ Known(p, r)
          /\ \A d \in Caller \ {c} : pc[d] \in Storing => target[d] # r

(* A Forget has taken the copy of these from the device.                    *)
Dropped == forgotten \union {target[c] : c \in {d \in Caller : pc[d] \in {"unvector", "unrow"}}}

(* Nothing can bring back what a Forget has taken, unless it is noted.      *)
GoneInv ==
  /\ \A c \in Caller : pc[c] \in Dropping => target[c] \in condemned
  /\ \A c \in Caller : pc[c] = "unrow" => target[c] \notin vectors
  /\ forgotten \subseteq condemned
  /\ \A r \in forgotten : r \notin vectors \union rows
  /\ \A r \in condemned : entry[r] = NoSlab \/ r \in revived
  /\ \A r \in Dropped :
       \/ r \in overtaken \union revived
       \/ /\ r \notin bodies
          /\ \A p \in up : ~ Known(p, r)
          /\ \A c \in Caller : pc[c] \in {"cached", "remote", "put"} => target[c] # r

(* What search comes up with was stored, and what was stored is on the      *)
(* device or known, to every process, to be on the network.                *)
Placed(r) == r \in bodies \/ (entry[r] # NoSlab /\ \A p \in up : Known(p, r))
Excused == condemned \union early

PlacedInv ==
  /\ vectors \union rows \subseteq born
  /\ \A p \in Proc : index[p] \subseteq born
  /\ \A c \in Caller : hits[c] \subseteq born
  /\ \A c \in Caller : pc[c] \in Storing \union Reading => target[c] \in born
  /\ \A r \in born \ Excused : Placed(r)
  /\ \A c \in Caller : pc[c] = "lookup" =>
       target[c] \in Excused \/ Known(ProcOf[c], target[c])
  /\ \A c \in Caller : pc[c] # "idle" => ProcOf[c] \in up

(* The slabs a flush and a repack write are new, and what a repack has yet  *)
(* to catalogue nobody has in a catalog.                                   *)
SlabInv ==
  /\ \A r \in Record : entry[r] \in spent \union {NoSlab}
  /\ \A p \in Proc, r \in Record :
       seen[p][r] \in spent \union {NoSlab} /\ keep[p][r] \in spent \union {NoSlab}
  /\ \A p \in Proc : \A o \in copies[p] :
       /\ o[2] \in spent /\ entry[o[1]] # o[2]
       /\ \A q \in Proc : seen[q][o[1]] # o[2] /\ keep[q][o[1]] # o[2]
       /\ \A q \in Proc \ {p} : o \notin copies[q]
  /\ \A p \in Proc :
       /\ job[p] # "move" => copies[p] = {}
       /\ job[p] \in {"none", "walk"} => doomed[p] = {}

(* Nobody is about to destroy an object that he keeps, and the file has.     *)
Spared ==
  \A p \in Proc : \A o \in doomed[p] : keep[p][o[1]] = o[2] =>
    \/ entry[o[1]] # o[2]
    \/ job[p] = "move" /\ \E x \in copies[p] : x[1] = o[1]

(* Where the file, a process or a read goes by an object, it can be opened  *)
(* unless that is noted.                                                    *)
There(o) == o \in network \union swept

(* NextReadFetchesBack: "it is on the network, the catalog still points at  *)
(* it, and the next read fetches it back" (local/body.go): a read that      *)
(* turns to the catalog of its process finds there where the record is,    *)
(* with the exceptions of RecallsAnswer but for moved.                      *)
NextReadFetchesBack ==
  \A c \in Caller : pc[c] = "lookup" =>
    LET r == target[c]
    IN r \in condemned \union early \/ There(<<r, seen[ProcOf[c]][r]>>)

AnswerInv ==
  /\ \A r \in Record : entry[r] # NoSlab => There(<<r, entry[r]>>)
  /\ \A p \in Proc : \A o \in copies[p] : There(o)
  /\ \A p \in up, r \in Record : Known(p, r) =>
       seen[p][r] = entry[r] \/ r \in condemned \/ <<r, seen[p][r]>> \in moved
  /\ \A c \in Caller : pc[c] \in {"cached", "remote"} =>
       LET r == target[c]
       IN spot[c] = entry[r] \/ r \in condemned \/ <<r, spot[c]>> \in moved
  /\ RecallsAnswer

(* DeletedIsNotScored: "so a deleted record stops being scored"             *)
(* (local/ranking.go): no search comes up with a record whose Forget has   *)
(* returned.                                                               *)
DeletedIsNotScored == \A p \in up : Candidates(p) \cap forgotten = {}
===============================================================================
