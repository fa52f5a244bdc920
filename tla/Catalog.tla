------------------------------- MODULE Catalog -------------------------------
(***************************************************************************)
(* The catalog: a snapshot, an append-only log, and each process's copy of *)
(* the two in memory (manifest/log.go, manifest.go, snapshot.go, lines.go).*)
(*                                                                         *)
(* A process reads the files once, when it opens, and from then on answers *)
(* from memory.  Appends go to the log and to memory under Manifest.mu.    *)
(* An append that finds the log too long folds the catalog into a snapshot *)
(* itself: it copies memory under the read lock, gives the lock up, takes  *)
(* Log.mu, renames a new snapshot into place and empties the log.          *)
(* Goroutines of one process share those locks; processes share only the   *)
(* files.                                                                  *)
(*                                                                         *)
(* The log is kept as the newest entry it holds per record, which is all   *)
(* that replaying it in order yields, with its length in lines; file sizes *)
(* are counted in lines.  Writing the temporary snapshot and renaming it   *)
(* are one step, and so are the two reads of Open: two processes           *)
(* overlapping inside either are left out.                                 *)
(***************************************************************************)
EXTENDS Naturals, FiniteSets

CONSTANTS
  Proc,       \* processes that have the vault open
  Caller,     \* goroutines that append, over all processes
  ProcOf,     \* the process each goroutine runs in
  Record,     \* record ids
  MinLines,   \* MinCompactBytes
  Ratio,      \* the inverse of CompactRatio
  MaxAppends, \* bound on appends
  MaxCrashes, \* bound on crashes and failed calls
  MaxTears    \* bound on writes that leave part of a line

ASSUME CallerAssumption == ProcOf \in [Caller -> Proc]
ASSUME RecordAssumption == IsFiniteSet(Record)
ASSUME SizeAssumption == MinLines \in Nat /\ Ratio \in Nat
ASSUME BoundAssumption == MaxAppends \in Nat /\ MaxCrashes \in Nat /\ MaxTears \in Nat

VARIABLES
  snapshot,  \* the newest entry per record in the snapshot file
  logged,    \* the newest entry per record in the log file
  lines,     \* lines in the log file and in the snapshot file
  torn,      \* the log file holds a line that does not decode
  up,        \* processes that have the catalog open
  mem,       \* Manifest.entries of each process
  size,      \* Log.logBytes and Log.snapshotBytes of each process
  pc,        \* where each goroutine is
  copy,      \* the entries each compaction copied
  stamp,     \* appends so far; stamps entries
  acked,     \* the newest entry of each record that was synced (history)
  raced,     \* a snapshot missing a concurrent append was installed (history)
  crashes,   \* crashes and failed calls so far
  tears      \* torn writes so far

files   == <<snapshot, logged, lines, torn>>
process == <<up, mem, size>>
caller  == <<pc, copy>>
history == <<stamp, acked, raced, crashes, tears>>
vars    == <<files, process, caller, history>>

(* An entry is told from the others by when it was appended.  A record with *)
(* no entry reads like a deleted one: Lookup makes no difference.          *)
Entry == [stamp : Nat, deleted : BOOLEAN]
NoEntry == [stamp |-> 0, deleted |-> TRUE]
Nothing == [r \in Record |-> NoEntry]

TypeOK ==
  /\ snapshot \in [Record -> Entry]
  /\ logged \in [Record -> Entry]
  /\ lines \in [log : Nat, snap : Nat]
  /\ torn \in BOOLEAN
  /\ up \subseteq Proc
  /\ mem \in [Proc -> [Record -> Entry]]
  /\ size \in [Proc -> [log : Nat, snap : Nat]]
  /\ pc \in [Caller -> {"idle", "check", "copy", "install", "truncate"}]
  /\ copy \in [Caller -> [Record -> Entry]]
  /\ stamp \in Nat
  /\ acked \in [Record -> Entry]
  /\ raced \in BOOLEAN
  /\ crashes \in 0..MaxCrashes
  /\ tears \in 0..MaxTears

Callers(p) == {c \in Caller : ProcOf[c] = p}

Running(c, step) ==
  /\ ProcOf[c] \in up
  /\ pc[c] = step

(* Log.mu is held from installing a snapshot to emptying the log.           *)
Locked(p) == \E c \in Callers(p) : pc[c] = "truncate"

(* Replay: the snapshot first and the log over it.                          *)
Replay ==
  [r \in Record |-> IF logged[r] # NoEntry THEN logged[r] ELSE snapshot[r]]

-----------------------------------------------------------------------------
Init ==
  /\ snapshot = Nothing
  /\ logged = Nothing
  /\ lines = [log |-> 0, snap |-> 0]
  /\ torn = FALSE
  /\ up = Proc
  /\ mem = [p \in Proc |-> Nothing]
  /\ size = [p \in Proc |-> [log |-> 0, snap |-> 0]]
  /\ pc = [c \in Caller |-> "idle"]
  /\ copy = [c \in Caller |-> Nothing]
  /\ stamp = 0
  /\ acked = Nothing
  /\ raced = FALSE
  /\ crashes = 0
  /\ tears = 0

Goto(c, step) == pc' = [pc EXCEPT ![c] = step]

(* One line is written and synced, then memory follows, all under           *)
(* Manifest.mu and Log.mu.                                                 *)
Write(c, r, deleted) ==
  LET p == ProcOf[c]
      e == [stamp |-> stamp + 1, deleted |-> deleted]
  IN /\ Running(c, "idle")
     /\ ~ Locked(p)
     /\ stamp < MaxAppends
     /\ stamp' = stamp + 1
     /\ logged' = [logged EXCEPT ![r] = e]
     /\ lines' = [lines EXCEPT !.log = @ + 1]
     /\ size' = [size EXCEPT ![p].log = @ + 1]
     /\ mem' = [mem EXCEPT ![p][r] = e]
     /\ acked' = [acked EXCEPT ![r] = e]
     /\ Goto(c, "check")
     /\ UNCHANGED <<snapshot, torn, up, copy, raced, crashes, tears>>

Append(c, r) == Write(c, r, FALSE)

(* Remove appends a marker, and only for a record this process sees.  A     *)
(* second marker after a look-up gone stale would change nothing.          *)
Remove(c, r) ==
  /\ ~ mem[ProcOf[c]][r].deleted
  /\ Write(c, r, TRUE)

(* The process's own idea of the two sizes, not the files', decides.        *)
DueForCompaction(p) ==
  /\ size[p].log >= MinLines
  /\ Ratio * size[p].log > size[p].snap

Check(c) ==
  /\ Running(c, "check")
  /\ ~ Locked(ProcOf[c])
  /\ Goto(c, IF DueForCompaction(ProcOf[c]) THEN "copy" ELSE "idle")
  /\ UNCHANGED <<files, process, copy, history>>

(* Compact, under the read lock.  From here to Install no lock is held.     *)
Copy(c) ==
  /\ Running(c, "copy")
  /\ copy' = [copy EXCEPT ![c] = mem[ProcOf[c]]]
  /\ Goto(c, "install")
  /\ UNCHANGED <<files, process, history>>

Kept(entries) == Cardinality({r \in Record : entries[r] # NoEntry})

(* Mutant: a snapshot leaves removed records out.                           *)
InstallLive(c) ==
  /\ Running(c, "install")
  /\ ~ Locked(ProcOf[c])
  /\ snapshot' = [r \in Record |-> IF copy[c][r].deleted THEN NoEntry ELSE copy[c][r]]
  /\ lines' = [lines EXCEPT !.snap = Kept(snapshot')]
  /\ raced' = (raced \/ copy[c] # mem[ProcOf[c]])
  /\ Goto(c, "truncate")
  /\ UNCHANGED <<logged, torn, process, copy, stamp, acked, crashes, tears>>

(* Mutant: the log is emptied before the snapshot is in place.              *)
InstallAfterTruncating(c) ==
  /\ Running(c, "install")
  /\ ~ Locked(ProcOf[c])
  /\ logged' = Nothing
  /\ lines' = [lines EXCEPT !.log = 0]
  /\ raced' = (raced \/ copy[c] # mem[ProcOf[c]])
  /\ Goto(c, "truncate")
  /\ UNCHANGED <<snapshot, torn, process, copy, stamp, acked, crashes, tears>>

(* compact, to the rename: markers of removed records are kept.             *)
Install(c) ==
  /\ Running(c, "install")
  /\ ~ Locked(ProcOf[c])
  /\ snapshot' = copy[c]
  /\ lines' = [lines EXCEPT !.snap = Kept(copy[c])]
  /\ raced' = (raced \/ copy[c] # mem[ProcOf[c]])
  /\ Goto(c, "truncate")
  /\ UNCHANGED <<logged, torn, process, copy, stamp, acked, crashes, tears>>

(* Mutant: the counter of log bytes drops by the length of the file.        *)
TruncateByLength(c) ==
  LET p == ProcOf[c]
  IN /\ Running(c, "truncate")
     /\ logged' = Nothing
     /\ torn' = FALSE
     /\ lines' = [lines EXCEPT !.log = 0]
     /\ size' = [size EXCEPT ![p] = [log |-> @.log - lines.log, snap |-> Kept(copy[c])]]
     /\ copy' = [copy EXCEPT ![c] = Nothing]
     /\ Goto(c, "idle")
     /\ UNCHANGED <<snapshot, up, mem, history>>

(* compact, the rest.                                                       *)
Truncate(c) ==
  LET p == ProcOf[c]
  IN /\ Running(c, "truncate")
     /\ logged' = Nothing
     /\ torn' = FALSE
     /\ lines' = [lines EXCEPT !.log = 0]
     /\ size' = [size EXCEPT ![p] = [log |-> 0, snap |-> Kept(copy[c])]]
     /\ copy' = [copy EXCEPT ![c] = Nothing]
     /\ Goto(c, "idle")
     /\ UNCHANGED <<snapshot, up, mem, history>>

(* The line is written and the sync fails: the append returns the error,    *)
(* and memory does not follow what the file may hold.                      *)
SyncFails(c, r, deleted) ==
  /\ Running(c, "idle")
  /\ ~ Locked(ProcOf[c])
  /\ deleted => ~ mem[ProcOf[c]][r].deleted
  /\ stamp < MaxAppends
  /\ crashes < MaxCrashes
  /\ stamp' = stamp + 1
  /\ crashes' = crashes + 1
  /\ logged' = [logged EXCEPT ![r] = [stamp |-> stamp + 1, deleted |-> deleted]]
  /\ lines' = [lines EXCEPT !.log = @ + 1]
  /\ UNCHANGED <<snapshot, torn, process, caller, acked, raced, tears>>

(* A snapshot cannot be written, or the log cannot be emptied after it, or  *)
(* only the sync after that fails: the append that wanted the compaction    *)
(* returns the error, with its entry in the catalog all the same.           *)
CompactFails(c) ==
  /\ Running(c, "install") \/ Running(c, "truncate")
  /\ crashes < MaxCrashes
  /\ crashes' = crashes + 1
  /\ copy' = [copy EXCEPT ![c] = Nothing]
  /\ Goto(c, "idle")
  /\ \/ UNCHANGED <<logged, lines, torn>>
     \/ /\ pc[c] = "truncate"
        /\ logged' = Nothing
        /\ torn' = FALSE
        /\ lines' = [lines EXCEPT !.log = 0]
  /\ UNCHANGED <<snapshot, process, stamp, acked, raced, tears>>

(* Part of a line is written and the append returns the error.  The line    *)
(* written next continues the broken one.                                  *)
ShortWrite(c) ==
  /\ Running(c, "idle")
  /\ ~ Locked(ProcOf[c])
  /\ tears < MaxTears
  /\ tears' = tears + 1
  /\ torn' = TRUE
  /\ UNCHANGED <<snapshot, logged, lines, process, caller, stamp, acked, raced, crashes>>

(* A process dies, or closes, which stops it between the same steps.  An    *)
(* append it was in may have left part of a line.                          *)
Crash(p) ==
  /\ p \in up
  /\ crashes < MaxCrashes
  /\ crashes' = crashes + 1
  /\ up' = up \ {p}
  /\ pc' = [c \in Caller |-> IF c \in Callers(p) THEN "idle" ELSE pc[c]]
  /\ copy' = [c \in Caller |-> IF c \in Callers(p) THEN Nothing ELSE copy[c]]
  /\ \/ UNCHANGED <<torn, tears>>
     \/ /\ \E c \in Callers(p) : pc[c] = "idle"
        /\ ~ Locked(p)
        /\ tears < MaxTears
        /\ tears' = tears + 1
        /\ torn' = TRUE
  /\ UNCHANGED <<snapshot, logged, lines, mem, size, stamp, acked, raced>>

(* Load: any line that does not decode makes it fail, and the vault stays   *)
(* shut.                                                                   *)
Loads == ~ torn

(* Mutant: opening reads the snapshot and not the log over it.              *)
OpenSnapshot(p) ==
  /\ p \notin up
  /\ Loads
  /\ up' = up \union {p}
  /\ mem' = [mem EXCEPT ![p] = snapshot]
  /\ size' = [size EXCEPT ![p] = lines]
  /\ UNCHANGED <<files, caller, history>>

Open(p) ==
  /\ p \notin up
  /\ Loads
  /\ up' = up \union {p}
  /\ mem' = [mem EXCEPT ![p] = Replay]
  /\ size' = [size EXCEPT ![p] = lines]
  /\ UNCHANGED <<files, caller, history>>

Next ==
  \/ \E c \in Caller :
       \/ \E r \in Record :
            \/ Append(c, r)
            \/ Remove(c, r)
            \/ \E deleted \in BOOLEAN : SyncFails(c, r, deleted)
       \/ Check(c)
       \/ Copy(c)
       \/ Install(c)
       \/ Truncate(c)
       \/ CompactFails(c)
       \/ ShortWrite(c)
  \/ \E p \in Proc : Crash(p) \/ Open(p)

Spec == Init /\ [][Next]_vars

-----------------------------------------------------------------------------
(* The files, read as the map they promise to be.                           *)
Promise == INSTANCE CatalogPromise WITH contents <- Replay, confirmed <- acked

HoldsAcked(entries) == \A r \in Record : Promise!NoOlder(entries[r], acked[r])

(* AckedSurvives: what the files replay to holds, for every record, no      *)
(* entry older than the newest one an append synced, at every moment and so *)
(* after a crash between any two steps, compactions included; except while *)
(* a torn line makes the log unreadable, or once a compaction overlapped an *)
(* append.  It is what the order of the rename and the truncation in        *)
(* compact is for.                                                         *)
AckedSurvives == (~ torn /\ ~ raced) => HoldsAcked(Replay)

(* MemoryIsCurrent: a running process sees the newest synced entry of every *)
(* record.  A compaction writes its memory over both files, so this is also *)
(* what lets it do that.                                                   *)
MemoryIsCurrent == ~ raced => \A p \in up : HoldsAcked(mem[p])

(* CatalogInv: what makes the two inductive.  A snapshot being installed    *)
(* under the lock is the memory of the process installing it, and nothing   *)
(* is stamped ahead of the stamps handed out.                              *)
CatalogInv ==
  /\ AckedSurvives
  /\ MemoryIsCurrent
  /\ ~ raced => \A c \in Caller : pc[c] = "truncate" => snapshot = mem[ProcOf[c]]
  /\ \A c \in Caller : pc[c] # "idle" => ProcOf[c] \in up
  /\ \A r \in Record : acked[r].stamp <= stamp
  /\ \A c, d \in Caller :
       (pc[c] = "truncate" /\ pc[d] = "truncate" /\ ProcOf[c] = ProcOf[d]) => c = d

(* AheadInv: what CompactionIsInvisible takes besides.  Nothing anywhere is *)
(* stamped ahead of the stamps handed out, and the files are never behind   *)
(* a memory, so that folding a memory into them brings nothing back that    *)
(* was not there.                                                          *)
AheadInv ==
  /\ \A r \in Record :
       /\ logged[r].stamp <= stamp /\ snapshot[r].stamp <= stamp
       /\ \A p \in Proc : mem[p][r].stamp <= stamp
       /\ \A c \in Caller : copy[c][r].stamp <= stamp
  /\ ~ raced => \A p \in up, r \in Record : Promise!NoOlder(Replay[r], mem[p][r])

(* CompactionIsInvisible: opening, closing, crashing and every step of a    *)
(* compaction leave what the files replay to alone, but for entries whose   *)
(* append had reported failure; only appends change it, one record at a     *)
(* time.                                                                   *)
CompactionIsInvisible ==
  [][raced' \/ torn \/ torn' \/ Promise!Next]_<<Replay, acked>>

(* EntriesOutliveCompaction: AckedSurvives without its exception for        *)
(* overlap.  "The only state a crash can leave is a log holding entries the *)
(* snapshot already has."                                                  *)
EntriesOutliveCompaction == ~ torn => HoldsAcked(Replay)

(* VaultOpens: "a truncated final line is tolerated": a process that died   *)
(* can open the catalog again.                                             *)
VaultOpens == Proc \subseteq up \/ Loads
=============================================================================
