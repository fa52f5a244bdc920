------------------------------- MODULE Packer -------------------------------
(***************************************************************************)
(* When a flush happens.                                                   *)
(*                                                                         *)
(* Each process keeps its own summary of the queue (Packer.state) and      *)
(* consults nothing else: Add bumps it after the row is on disk, the       *)
(* deadline timer and Pending read it, and a flush that wrote something    *)
(* re-reads it from the table in two steps, a query and a store under the  *)
(* lock (store/packer/packer.go, timer.go, policy.go).  This module puts   *)
(* those steps around the flush of FlushQueue.  A flush call is a          *)
(* goroutine: a timer, or a caller of Add or Flush.                        *)
(*                                                                         *)
(* Of the summary only the record count is kept: Oldest and Newest are set *)
(* whenever it is positive, so a deadline of theirs may pass at any moment *)
(* at which it is, and the byte trigger is another such deadline.          *)
(***************************************************************************)
EXTENDS FlushQueue

CONSTANTS
  Timer,       \* the flush calls that are deadline timers
  Adder,       \* the flush calls made on behalf of callers that add records
  MaxRecords,  \* Policy.MaxRecords; 0 turns that trigger off
  MaxLate      \* bound on the flush calls that outlive the claim timeout

ASSUME TimerAssumption == Timer \subseteq Flusher /\ Adder \subseteq Flusher \ Timer
ASSUME MaxRecordsAssumption == MaxRecords \in Nat /\ MaxLate \in Nat

VARIABLES
  up,       \* processes that have the vault open
  count,    \* Packer.state.Records of each process
  task,     \* what each goroutine is doing
  adding,   \* the record each Add has put on disk and not yet counted
  snapshot, \* the rows each refresh read
  wrote,    \* records each process enqueued (history)
  raced     \* processes where a refresh overwrote a concurrent count (history)

packer == <<up, count, task, adding, snapshot, wrote, raced>>
pvars  == <<vars, packer>>

Tasks == {"none", "bump", "flush", "flushing", "refresh", "publish"}

PTypeOK ==
  /\ up \subseteq Proc
  /\ count \in [Proc -> Nat]
  /\ task \in [Flusher -> Tasks]
  /\ adding \in [Flusher -> SUBSET Record]
  /\ snapshot \in [Flusher -> SUBSET Record]
  /\ wrote \in [Proc -> SUBSET Record]
  /\ raced \subseteq Proc

Calls(p) == {f \in Flusher : ProcOf[f] = p}

Running(f, t) ==
  /\ ProcOf[f] \in up
  /\ task[f] = t

Become(f, t) == task' = [task EXCEPT ![f] = t]

PInit ==
  /\ Init
  /\ up = Proc
  /\ count = [p \in Proc |-> 0]
  /\ task = [f \in Flusher |-> "none"]
  /\ adding = [f \in Flusher |-> {}]
  /\ snapshot = [f \in Flusher |-> {}]
  /\ wrote = [p \in Proc |-> {}]
  /\ raced = {}

(* Policy.due on deadlines alone: some queue age may have been reached.     *)
DeadlineMayPass(n) == n > 0
(* Policy.due on the record trigger, which needs no clock.                  *)
BurstDue(n) == MaxRecords > 0 /\ n >= MaxRecords

(* Add, up to the insert.                                                   *)
AddEnqueue(f, r) ==
  /\ f \in Adder
  /\ Running(f, "none")
  /\ Enqueue(r)
  /\ Become(f, "bump")
  /\ adding' = [adding EXCEPT ![f] = {r}]
  /\ wrote' = [wrote EXCEPT ![ProcOf[f]] = @ \union {r}]
  /\ UNCHANGED <<up, count, snapshot, raced>>

(* Add, under the lock: count the record, ask the policy, then go on to     *)
(* flush or return.  A refresh that has read the table without this row    *)
(* and has yet to store its answer will undo the count.                    *)
AddBump(f) ==
  LET p == ProcOf[f]
      n == count[p] + 1
  IN /\ Running(f, "bump")
     /\ count' = [count EXCEPT ![p] = n]
     /\ \/ Become(f, "flush")
        \/ ~ BurstDue(n) /\ Become(f, "none")
     /\ adding' = [adding EXCEPT ![f] = {}]
     /\ raced' = IF \E g \in Calls(p) : task[g] = "publish" /\ ~ adding[f] \subseteq snapshot[g]
                 THEN raced \union {p} ELSE raced
     /\ UNCHANGED <<vars, up, snapshot, wrote>>

(* A tick of the timer: Due, then flush.                                    *)
Tick(f) ==
  /\ f \in Timer
  /\ Running(f, "none")
  /\ BurstDue(count[ProcOf[f]]) \/ DeadlineMayPass(count[ProcOf[f]])
  /\ Become(f, "flush")
  /\ UNCHANGED <<vars, up, count, adding, snapshot, wrote, raced>>

(* Flush, asked for by the user.                                            *)
ManualFlush(f) ==
  /\ f \notin Timer
  /\ Running(f, "none")
  /\ Become(f, "flush")
  /\ UNCHANGED <<vars, up, count, adding, snapshot, wrote, raced>>

(* A claim that returns nothing ends the flush there, before the refresh.   *)
FlushNothing(f) ==
  /\ Running(f, "flush")
  /\ Claimable = {}
  /\ Become(f, "none")
  /\ UNCHANGED <<vars, up, count, adding, snapshot, wrote, raced>>

FlushClaim(f) ==
  /\ Running(f, "flush")
  /\ Claim(f)
  /\ Become(f, "flushing")
  /\ UNCHANGED <<up, count, adding, snapshot, wrote, raced>>

(* The middle of a flush leaves the summary alone.                          *)
FlushWorks(f) ==
  /\ Running(f, "flushing")
  /\ \/ Upload(f)
     \/ PinSlabs(f)
     \/ \E r \in Record : PinObject(f, r) \/ Catalogue(f, r)
     \/ Track(f)
     \/ PutBatchFails(f)
  /\ UNCHANGED packer

(* Mutant: a flush that fails forgets what it was to write.                 *)
FlushFailsForgets(f) ==
  /\ Running(f, "flushing")
  /\ Release(f) \/ BookkeepingFails(f)
  /\ Become(f, "none")
  /\ count' = [count EXCEPT ![ProcOf[f]] = 0]
  /\ UNCHANGED <<up, adding, snapshot, wrote, raced>>

(* A flush that fails returns without refreshing.                           *)
FlushFails(f) ==
  /\ Running(f, "flushing")
  /\ Release(f) \/ BookkeepingFails(f)
  /\ Become(f, "none")
  /\ UNCHANGED <<up, count, adding, snapshot, wrote, raced>>

FlushDrop(f) ==
  /\ Running(f, "flushing")
  /\ Drop(f)
  /\ Become(f, "refresh")
  /\ UNCHANGED <<up, count, adding, snapshot, wrote, raced>>

(* refresh, its query.                                                      *)
RefreshRead(f) ==
  /\ Running(f, "refresh")
  /\ snapshot' = [snapshot EXCEPT ![f] = queued]
  /\ Become(f, "publish")
  /\ UNCHANGED <<vars, up, count, adding, wrote, raced>>

(* refresh, its store: whatever the summary has become meanwhile is lost.   *)
RefreshWrite(f) ==
  /\ Running(f, "publish")
  /\ count' = [count EXCEPT ![ProcOf[f]] = Cardinality(snapshot[f])]
  /\ snapshot' = [snapshot EXCEPT ![f] = {}]
  /\ Become(f, "none")
  /\ UNCHANGED <<vars, up, adding, wrote, raced>>

(* The query of refresh fails: the summary goes on counting what this flush *)
(* has written.                                                            *)
RefreshFails(f) ==
  /\ Running(f, "refresh")
  /\ Become(f, "none")
  /\ UNCHANGED <<vars, up, count, adding, snapshot, wrote, raced>>

(* The process ends: by Close, with nothing in flight, or by dying.         *)
Ended(p) ==
  /\ up' = up \ {p}
  /\ task' = [f \in Flusher |-> IF f \in Calls(p) THEN "none" ELSE task[f]]
  /\ adding' = [f \in Flusher |-> IF f \in Calls(p) THEN {} ELSE adding[f]]
  /\ snapshot' = [f \in Flusher |-> IF f \in Calls(p) THEN {} ELSE snapshot[f]]
  /\ UNCHANGED <<count, wrote, raced>>

Close(p) ==
  /\ p \in up
  /\ \A f \in Calls(p) : task[f] = "none"
  /\ Ended(p)
  /\ UNCHANGED vars

Die(p) ==
  /\ p \in up
  /\ Crash(p)
  /\ Ended(p)

(* Mutant: the summary starts empty.                                        *)
OpenEmpty(p) ==
  /\ p \notin up
  /\ up' = up \union {p}
  /\ count' = [count EXCEPT ![p] = 0]
  /\ raced' = raced \ {p}
  /\ UNCHANGED <<vars, task, adding, snapshot, wrote>>

(* New: the summary starts from the table, so what any earlier process left *)
(* behind is counted.                                                      *)
Open(p) ==
  /\ p \notin up
  /\ up' = up \union {p}
  /\ count' = [count EXCEPT ![p] = Cardinality(queued)]
  /\ raced' = raced \ {p}
  /\ UNCHANGED <<vars, task, adding, snapshot, wrote>>

ClaimsAge ==
  /\ Age
  /\ Cardinality(late') <= MaxLate
  /\ UNCHANGED packer

Work(f) ==
  \/ AddBump(f)
  \/ FlushNothing(f)
  \/ FlushClaim(f)
  \/ FlushWorks(f)
  \/ FlushFails(f)
  \/ FlushDrop(f)
  \/ RefreshRead(f)
  \/ RefreshWrite(f)
  \/ RefreshFails(f)

PNext ==
  \/ \E f \in Flusher :
       \/ \E r \in Record : AddEnqueue(f, r)
       \/ Tick(f)
       \/ ManualFlush(f)
       \/ Work(f)
  \/ \E p \in Proc : Close(p) \/ Die(p) \/ Open(p)
  \/ ClaimsAge

PSpec == PInit /\ [][PNext]_pvars

(* Nobody has to ask for a flush or add a record; what is under way goes    *)
(* on, claims age, and a process that ended is run again.  The timer may    *)
(* miss a process that is closed before its first tick, but not every one   *)
(* for ever: hence strong fairness.                                         *)
PFairness ==
  /\ \A f \in Flusher : WF_pvars(Work(f)) /\ SF_pvars(Tick(f))
  /\ \A p \in Proc : WF_pvars(Open(p))
  /\ WF_pvars(ClaimsAge)

PFairSpec == PSpec /\ PFairness

-----------------------------------------------------------------------------
Quiet(p) == p \in up /\ \A f \in Calls(p) : task[f] = "none"

(* OwnWritesAreCounted: a process at rest counts at least the records it    *)
(* queued and that are still queued, whatever other processes flushed in   *)
(* the meantime and however its own flushes failed, unless a refresh of    *)
(* its own overlapped an Add.  The deadlines and the guards of Reclaim and *)
(* Repack see the queue only through this count.                           *)
OwnWritesAreCounted ==
  \A p \in Proc \ raced :
    Quiet(p) => Cardinality(queued \intersect wrote[p]) <= count[p]

(* Why it holds.  Of what a process queued itself, all that no Add is still *)
(* about to count is within the count, and within what a refresh of its    *)
(* own has read and is about to store.                                     *)
Uncounted(p) == UNION {adding[f] : f \in Calls(p)}
Counted(p) == (queued \intersect wrote[p]) \ Uncounted(p)

CountInv ==
  /\ IsFiniteSet(queued)
  /\ \A p \in Proc : wrote[p] \subseteq accepted
  /\ \A f \in Flusher :
       /\ IsFiniteSet(snapshot[f])
       /\ IF task[f] = "bump" THEN \E r \in Record : adding[f] = {r} ELSE adding[f] = {}
       /\ ProcOf[f] \notin up => task[f] = "none"
  /\ \A p \in up \ raced :
       /\ Cardinality(Counted(p)) <= count[p]
       /\ \A f \in Calls(p) : task[f] = "publish" => Counted(p) \subseteq snapshot[f]

(* DeadlineIsKept: the timer settles every record by itself, with nobody    *)
(* asking for a flush or adding another record, unless a refresh           *)
(* overlapped an Add; no other schedule, failure or restart defeats it.    *)
DeadlineIsKept ==
  \A r \in Record : r \in accepted ~> (r \notin queued \/ raced # {})

(* TimerSettles: the same without the exception, which is what Start says   *)
(* the deadlines are for: a record written and then left alone does not    *)
(* stay on the device until something else happens to write.               *)
TimerSettles == \A r \in Record : r \in accepted ~> r \notin queued
=============================================================================
