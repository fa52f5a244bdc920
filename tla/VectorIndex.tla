----------------------------- MODULE VectorIndex -----------------------------
(***************************************************************************)
(* The search index of one process: vectors in memory, and the base and    *)
(* delta files they are loaded from (index/persist.go, index/index.go,     *)
(* vault/vectors.go, vault/vault.go).                                      *)
(*                                                                         *)
(* A vector is appended to the delta, synced and then added to memory.  A  *)
(* removal is appended too; memory knows none.  A put that finds the delta *)
(* too long folds the files itself: it reads both under the store's lock,  *)
(* gives the lock up, takes it again, renames a new base into place and    *)
(* empties the delta.  A file that breaks off is read up to the break.     *)
(*                                                                         *)
(* The delta is kept as what its readable part says last of each record;   *)
(* its size decides when to fold, which may thus be after any put.  A      *)
(* vector is the name of the model that made it.                           *)
(***************************************************************************)
EXTENDS Naturals

CONSTANTS
  Record,    \* record ids
  Model,     \* embedding models the vault is opened with
  None,      \* no vector: of a line, a removal
  Silent,    \* nothing said of a record
  Caller,    \* goroutines that put and remove vectors
  MaxFaults  \* bound on failed calls and crashes

ASSUME NoneAssumption == None \notin Model \union Record
ASSUME SilentAssumption == Silent \notin Model \union {None}
ASSUME BoundAssumption == MaxFaults \in Nat

VARIABLES
  base,     \* the base file, per record
  delta,    \* the last readable line of the delta file on each record
  broken,   \* the delta file breaks off: what follows is not read
  up,       \* the process runs
  model,    \* the model it was opened with
  index,    \* records with a vector in memory
  pc,       \* where each goroutine is
  rec,      \* the record it has still to put in memory, or None
  copy,     \* what it read of the files, to make a base of
  latest,   \* what the last append that returned success said (history)
  tried,    \* what appends that failed since may have said (history)
  exposed,  \* records last said anything of behind a break, or while another
            \* goroutine was between reading and emptying (history)
  faults    \* failed calls and crashes so far

files   == <<base, delta, broken>>
memory  == <<up, model, index>>
caller  == <<pc, rec, copy>>
history == <<latest, tried, exposed>>
vars    == <<files, memory, caller, history, faults>>

Vector == Model \union {None}
Empty == [r \in Record |-> None]
Unsaid == [r \in Record |-> Silent]

TypeOK ==
  /\ base \in [Record -> Vector]
  /\ delta \in [Record -> Vector \union {Silent}]
  /\ broken \in BOOLEAN /\ up \in BOOLEAN
  /\ model \in Model
  /\ index \subseteq Record
  /\ pc \in [Caller -> {"idle", "add", "hydrate", "install", "truncate"}]
  /\ rec \in [Caller -> Record \union {None}]
  /\ \A c \in Caller : pc[c] = "add" => rec[c] \in Record
  /\ copy \in [Caller -> [Record -> Vector]]
  /\ latest \in [Record -> Vector \union {Silent}]
  /\ tried \in [Record -> SUBSET Vector]
  /\ exposed \subseteq Record
  /\ faults \in 0..MaxFaults

(* Mutant: a hydration reads the delta alone.                               *)
HydratedDelta == delta

(* Hydrate: the base, and the delta over it.                                *)
Hydrated ==
  [r \in Record |-> IF delta[r] = Silent THEN base[r] ELSE delta[r]]

(* Store.mu is held from the rename to the end of the truncation.           *)
Running(c, stage) ==
  /\ up
  /\ pc[c] = stage
  /\ \A d \in Caller \ {c} : pc[d] # "truncate"

Goto(c, stage) == pc' = [pc EXCEPT ![c] = stage]

Init ==
  /\ base = Empty
  /\ delta = Unsaid
  /\ broken = FALSE
  /\ up = TRUE
  /\ model \in Model
  /\ index = {}
  /\ pc = [c \in Caller |-> "idle"]
  /\ rec = [c \in Caller |-> None]
  /\ copy = [c \in Caller |-> Empty]
  /\ latest = Unsaid
  /\ tried = [r \in Record |-> {}]
  /\ exposed = {}
  /\ faults = 0

-----------------------------------------------------------------------------
(* A line is written at the end of the file, where it is read unless the    *)
(* file breaks off before.                                                 *)
Line(r, m) == delta' = IF broken THEN delta ELSE [delta EXCEPT ![r] = m]

(* Another goroutine has read the files and is to replace them.             *)
Folding(c) == \E d \in Caller \ {c} : pc[d] = "install"

(* Append, up to and including the sync.                                    *)
Append(c, r, m) ==
  /\ Running(c, "idle")
  /\ Line(r, m)
  /\ latest' = [latest EXCEPT ![r] = m]
  /\ tried' = [tried EXCEPT ![r] = {}]
  /\ exposed' = IF broken \/ Folding(c) THEN exposed \union {r} ELSE exposed \ {r}
  /\ UNCHANGED <<base, broken, memory, copy, faults>>

(* putVector, its append.                                                   *)
PutVector(c, r) ==
  /\ Append(c, r, model)
  /\ Goto(c, "add")
  /\ rec' = [rec EXCEPT ![c] = r]

(* Remove: memory keeps the vector.                                         *)
Remove(c, r) ==
  /\ Append(c, r, None)
  /\ UNCHANGED <<pc, rec>>

(* Mutant: memory is served first.                                          *)
AppendFailsIndexed(c, r, m) ==
  /\ Running(c, "idle")
  /\ faults < MaxFaults
  /\ faults' = faults + 1
  /\ broken' = TRUE
  /\ index' = IF m = None THEN index ELSE index \union {r}
  /\ UNCHANGED <<base, delta, tried, up, model, caller, latest, exposed>>

(* Append fails: the sync, with the line in the file, or the write, with a  *)
(* part of it.                                                             *)
AppendFails(c, r, m) ==
  /\ Running(c, "idle")
  /\ faults < MaxFaults
  /\ faults' = faults + 1
  /\ \/ /\ Line(r, m)
        /\ tried' = [tried EXCEPT ![r] = @ \union {m}]
        /\ UNCHANGED broken
     \/ /\ broken' = TRUE
        /\ UNCHANGED <<delta, tried>>
  /\ UNCHANGED <<base, memory, caller, latest, exposed>>

(* putVector, the rest: memory, and then a look at the sizes.               *)
IndexAdd(c) ==
  /\ up
  /\ pc[c] = "add"
  /\ index' = index \union {rec[c]}
  /\ \E stage \in {"idle", "hydrate"} : Goto(c, stage)
  /\ rec' = [rec EXCEPT ![c] = None]
  /\ UNCHANGED <<files, up, model, copy, history, faults>>

(* CompactIndex: the same fold, whatever the sizes.                         *)
CompactIndex(c) ==
  /\ up
  /\ pc[c] = "idle"
  /\ Goto(c, "hydrate")
  /\ UNCHANGED <<files, memory, rec, copy, history, faults>>

(* compactVectorsIfDue, reading the files.                                  *)
Hydrate(c) ==
  /\ Running(c, "hydrate")
  /\ copy' = [copy EXCEPT ![c] = Hydrated]
  /\ Goto(c, "install")
  /\ UNCHANGED <<files, memory, rec, history, faults>>

(* Mutant: the base is made of what memory holds.                           *)
InstallFromMemory(c) ==
  /\ Running(c, "install")
  /\ base' = [r \in Record |-> IF r \in index THEN model ELSE None]
  /\ Goto(c, "truncate")
  /\ UNCHANGED <<delta, broken, memory, rec, copy, history, faults>>

(* Compact: the new base is written, synced and renamed into place.         *)
Install(c) ==
  /\ Running(c, "install")
  /\ base' = copy[c]
  /\ Goto(c, "truncate")
  /\ UNCHANGED <<delta, broken, memory, rec, copy, history, faults>>

(* Compact: the delta is emptied.                                           *)
Truncate(c) ==
  /\ Running(c, "truncate")
  /\ delta' = Unsaid
  /\ broken' = FALSE
  /\ Goto(c, "idle")
  /\ copy' = [copy EXCEPT ![c] = Empty]
  /\ UNCHANGED <<base, memory, rec, history, faults>>

(* A fold fails at any of its steps, and the put with it.                   *)
CompactFails(c) ==
  /\ \E stage \in {"hydrate", "install", "truncate"} : Running(c, stage)
  /\ faults < MaxFaults
  /\ faults' = faults + 1
  /\ Goto(c, "idle")
  /\ copy' = [copy EXCEPT ![c] = Empty]
  /\ UNCHANGED <<files, memory, rec, history>>

(* The process ends: nothing of it is left but the files.                   *)
Stop ==
  /\ up
  /\ up' = FALSE
  /\ index' = {}
  /\ pc' = [c \in Caller |-> "idle"]
  /\ rec' = [c \in Caller |-> None]
  /\ copy' = [c \in Caller |-> Empty]
  /\ UNCHANGED <<files, model, history>>

(* Close waits for the calls in flight.                                     *)
Close ==
  /\ \A c \in Caller : pc[c] = "idle"
  /\ Stop
  /\ UNCHANGED faults

Crash ==
  /\ faults < MaxFaults
  /\ faults' = faults + 1
  /\ Stop

(* openIndex: the vectors of the model this process runs are loaded, the    *)
(* others are counted and left in the files.                               *)
Open(m) ==
  /\ ~ up
  /\ up' = TRUE
  /\ model' = m
  /\ index' = {r \in Record : Hydrated[r] = m}
  /\ UNCHANGED <<files, caller, history, faults>>

Next ==
  \/ \E c \in Caller :
       \/ \E r \in Record :
            \/ PutVector(c, r) \/ Remove(c, r)
            \/ \E m \in {model, None} : AppendFails(c, r, m)
       \/ IndexAdd(c) \/ CompactIndex(c)
       \/ Hydrate(c) \/ Install(c) \/ Truncate(c) \/ CompactFails(c)
  \/ Close \/ Crash
  \/ \E m \in Model : Open(m)

Spec == Init /\ [][Next]_vars

-----------------------------------------------------------------------------
(* What a record's last successful append left to find.                     *)
Promised(r) == IF latest[r] = Silent THEN None ELSE latest[r]

(* VectorsSurvive: whatever is folded, fails, dies or is opened with        *)
(* another model, the files say of a record what its last successful append *)
(* said, or what a failed one since did; unless that append was behind a    *)
(* break of the file or raced another goroutine's fold.                    *)
VectorsSurvive ==
  \A r \in Record \ exposed : Hydrated[r] \in {Promised(r)} \union tried[r]

(* SearchMatchesFiles: a vector this process can find is one a later        *)
(* process can find, until it is removed; and one that was stored under the *)
(* model this process runs is found, once its put has got to memory.       *)
SearchMatchesFiles ==
  up => \A r \in Record \ exposed :
    /\ r \in index => \/ Hydrated[r] # None
                      \/ latest[r] = None
                      \/ None \in tried[r]
    /\ latest[r] = model /\ tried[r] \subseteq {model} =>
         \/ r \in index
         \/ \E c \in Caller : pc[c] = "add" /\ rec[c] = r

(* Why they hold.  What a goroutine has read and is to make a base of is as *)
(* good as the files are, and from the rename to the emptying it is what    *)
(* the base says.                                                          *)
Said(r) == {Promised(r)} \union tried[r]

FoldInv ==
  \A c \in Caller : pc[c] \in {"install", "truncate"} =>
    /\ \A r \in Record \ exposed : copy[c][r] \in Said(r)
    /\ pc[c] = "truncate" => base = copy[c]

(* A vector in memory that no append of this run's history put there came   *)
(* from the files, and nothing takes it from them but a removal.           *)
IndexInv ==
  /\ \A c \in Caller : pc[c] = "add" => latest[rec[c]] # Silent
  /\ up => \A r \in index \ exposed :
       (latest[r] = Silent /\ None \notin tried[r]) =>
         /\ Hydrated[r] # None
         /\ \A c \in Caller : pc[c] \in {"install", "truncate"} => copy[c][r] # None
  /\ ~ up => \A c \in Caller : pc[c] = "idle"

(* RemovedStaysRemoved: "there is no path by which a forgotten vector could *)
(* come back" (index/persist.go).                                          *)
RemovedStaysRemoved ==
  \A r \in Record : latest[r] = None => Hydrated[r] = None
==============================================================================
