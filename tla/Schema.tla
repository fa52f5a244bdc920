------------------------------- MODULE Schema -------------------------------
(***************************************************************************)
(* The version of the device's database.  Processes of several builds open *)
(* one file at the same time, each brings it up to the last migration its  *)
(* build carries, and SQLite's write lock is all that orders them.  A step *)
(* and the number it reaches are committed together; anything that fails   *)
(* or dies before the commit leaves the file as it was.                    *)
(*                                                                         *)
(* A later migration is taken not to bear being run twice, as an ALTER or  *)
(* a copy of rows does not; `ran` counts how often each has taken effect.  *)
(***************************************************************************)
EXTENDS Integers

CONSTANTS
  Proc,        \* the processes that open the vault
  NoProc,      \* nobody holds the write lock
  Latest,      \* the last migration of each process's build
  MaxVersion,  \* bounds the migrations of any build
  Table        \* the tables that had a column added before versions existed

ASSUME LatestAssumption ==
  /\ MaxVersion \in Nat \ {0}
  /\ Latest \in [Proc -> 1..MaxVersion]
ASSUME NoProcAssumption == NoProc \notin Proc

baselineVersion == 1

VARIABLES
  file,    \* what is committed
  draft,   \* what the open transaction has made of it
  lock,    \* who is in a write transaction
  wal,     \* the file's journal mode
  pc,      \* how far a process is through Open
  next,    \* the migration a process is about to look at
  before   \* history: the tables with rows from before versions existed

vars == <<file, draft, lock, wal, pc, next, before>>

Step == 1..MaxVersion

(* A database: its version, the tables of Table it has, those whose late    *)
(* column is there, those that hold rows from before, and how often each    *)
(* migration has taken effect.                                             *)
Database == [version : Nat, tables : SUBSET Table, columns : SUBSET Table,
             rows : SUBSET Table, ran : [Step -> Int]]

Stages == {"closed", "open", "wal", "read", "steps", "up", "columns", "stamp",
           "commit", "down"}
InTransaction == {"up", "columns", "stamp", "commit"}

TypeOK ==
  /\ file \in Database
  /\ draft \in Database
  /\ lock \in Proc \union {NoProc}
  /\ wal \in BOOLEAN
  /\ pc \in [Proc -> Stages]
  /\ next \in [Proc -> Nat]
  /\ before \in SUBSET Table

(* A file that is not there yet has nothing; one from before versions       *)
(* existed has some of the tables, some with their late column already.    *)
Init ==
  /\ \E tables \in SUBSET Table : \E columns, rows \in SUBSET tables :
       file = [version |-> 0, tables |-> tables, columns |-> columns,
               rows |-> rows, ran |-> [v \in Step |-> 0]]
  /\ draft = file
  /\ lock = NoProc
  /\ wal \in BOOLEAN
  /\ pc = [p \in Proc |-> "closed"]
  /\ next = [p \in Proc |-> 0]
  /\ before = file.rows

Goto(p, stage) == pc' = [pc EXCEPT ![p] = stage]

-----------------------------------------------------------------------------
(* Opening.                                                                *)

(* Open: nobody opens a vault while a test steps it down.                   *)
Open(p) ==
  /\ pc[p] = "closed"
  /\ \A q \in Proc : pc[q] # "down"
  /\ Goto(p, IF wal THEN "read" ELSE "wal")
  /\ UNCHANGED <<file, draft, lock, wal, next, before>>

(* ensureWAL: the mode is switched by one of the retries.                   *)
SwitchToWAL(p) ==
  /\ pc[p] = "wal"
  /\ lock = NoProc
  /\ wal' = TRUE
  /\ Goto(p, "read")
  /\ UNCHANGED <<file, draft, lock, next, before>>

(* ensureWAL gives up when others have been in the file at every retry.     *)
WALRefused(p) ==
  /\ pc[p] = "wal"
  /\ \E q \in Proc \ {p} : pc[q] # "closed"
  /\ Goto(p, "closed")
  /\ UNCHANGED <<file, draft, lock, wal, next, before>>

(* migrate: the version is read outside any transaction, and decides        *)
(* whether the file is refused and which step comes first.                 *)
ReadVersion(p) ==
  /\ pc[p] = "read"
  /\ IF file.version > Latest[p]
     THEN Goto(p, "closed") /\ UNCHANGED next
     ELSE Goto(p, "steps") /\ next' = [next EXCEPT ![p] = file.version + 1]
  /\ UNCHANGED <<file, draft, lock, wal, before>>

(* Mutant: the version is not read again under the lock.                    *)
BeginUnread(p) ==
  /\ pc[p] = "steps"
  /\ lock = NoProc
  /\ next[p] <= Latest[p]
  /\ lock' = p
  /\ draft' = file
  /\ Goto(p, "up")
  /\ UNCHANGED <<file, wal, next, before>>

(* applyUp: the lock is taken, the version is read again under it, and a    *)
(* step another process has run meanwhile is passed over.                  *)
Begin(p) ==
  /\ pc[p] = "steps"
  /\ lock = NoProc
  /\ next[p] <= Latest[p]
  /\ IF next[p] <= file.version
     THEN /\ next' = [next EXCEPT ![p] = next[p] + 1]
          /\ UNCHANGED <<draft, lock, pc>>
     ELSE /\ lock' = p
          /\ draft' = file
          /\ Goto(p, "up")
          /\ UNCHANGED next
  /\ UNCHANGED <<file, wal, before>>

(* migrate has nothing left to apply, and Open returns the store.           *)
Opened(p) ==
  /\ pc[p] = "steps"
  /\ next[p] > Latest[p]
  /\ Goto(p, "open")
  /\ UNCHANGED <<file, draft, lock, wal, next, before>>

-----------------------------------------------------------------------------
(* The transaction of one step.                                            *)

(* Mutant: the tables are made anew.                                        *)
UpAnew(p) ==
  /\ pc[p] = "up"
  /\ draft' = [draft EXCEPT !.ran[next[p]] = @ + 1,
                            !.tables = Table, !.columns = Table, !.rows = {}]
  /\ Goto(p, IF next[p] = baselineVersion THEN "columns" ELSE "stamp")
  /\ UNCHANGED <<file, lock, wal, next, before>>

(* The step's script.  The baseline creates the tables that are not there,  *)
(* with every column, and leaves those that are as they are.               *)
Up(p) ==
  /\ pc[p] = "up"
  /\ LET changed == [draft EXCEPT !.ran[next[p]] = @ + 1]
     IN IF next[p] = baselineVersion
        THEN /\ draft' = [changed EXCEPT !.columns = draft.columns \union (Table \ draft.tables),
                                         !.tables = Table]
             /\ Goto(p, "columns")
        ELSE /\ draft' = changed
             /\ Goto(p, "stamp")
  /\ UNCHANGED <<file, lock, wal, next, before>>

(* addPreVersionColumns: a late column is added where it is missing.        *)
AddColumns(p) ==
  /\ pc[p] = "columns"
  /\ draft' = [draft EXCEPT !.columns = Table]
  /\ Goto(p, "stamp")
  /\ UNCHANGED <<file, lock, wal, next, before>>

(* setSchemaVersion, in the same transaction.                               *)
Stamp(p) ==
  /\ pc[p] = "stamp"
  /\ draft' = [draft EXCEPT !.version = next[p]]
  /\ Goto(p, "commit")
  /\ UNCHANGED <<file, lock, wal, next, before>>

(* writing commits, and migrate goes on with the next step.                 *)
Commit(p) ==
  /\ pc[p] = "commit"
  /\ file' = draft
  /\ lock' = NoProc
  /\ next' = [next EXCEPT ![p] = next[p] + 1]
  /\ Goto(p, "steps")
  /\ UNCHANGED <<draft, wal, before>>

(* Mutant: what was done so far stays done.                                 *)
FailsKeeping(p) ==
  /\ pc[p] \in InTransaction
  /\ lock' = NoProc
  /\ file' = draft
  /\ Goto(p, "closed")
  /\ UNCHANGED <<draft, wal, next, before>>

(* An error or a death inside the transaction: it is rolled back, and Open  *)
(* fails.                                                                  *)
Fails(p) ==
  /\ pc[p] \in InTransaction
  /\ lock' = NoProc
  /\ draft' = file
  /\ Goto(p, "closed")
  /\ UNCHANGED <<file, wal, next, before>>

(* Outside it: an error, the lock not given up within busy_timeout, the     *)
(* death of the process, or an orderly Close.                              *)
Close(p) ==
  /\ pc[p] \in {"wal", "read", "steps", "open", "down"}
  /\ Goto(p, "closed")
  /\ UNCHANGED <<file, draft, lock, wal, next, before>>

-----------------------------------------------------------------------------
(* migrateDownTo, which only tests call, with a file of their own build to  *)
(* themselves.                                                             *)

StepDown(p) ==
  /\ pc[p] = "open"
  /\ file.version <= Latest[p]
  /\ \A q \in Proc \ {p} : pc[q] = "closed"
  /\ next' = [next EXCEPT ![p] = Latest[p]]
  /\ Goto(p, "down")
  /\ UNCHANGED <<file, draft, lock, wal, before>>

(* One step back, in a transaction of its own: its script undoes what the   *)
(* step did, and the baseline's drops every table with its rows.           *)
Down(p) ==
  /\ pc[p] = "down"
  /\ next[p] > 0
  /\ next' = [next EXCEPT ![p] = next[p] - 1]
  /\ IF next[p] > file.version
     THEN UNCHANGED <<file, before>>
     ELSE LET undone == [file EXCEPT !.version = next[p] - 1, !.ran[next[p]] = @ - 1]
          IN IF next[p] = baselineVersion
             THEN /\ file' = [undone EXCEPT !.tables = {}, !.columns = {}, !.rows = {}]
                  /\ before' = {}
             ELSE file' = undone /\ UNCHANGED before
  /\ UNCHANGED <<draft, lock, wal, pc>>

(* At the target the test migrates again.                                  *)
Reversed(p) ==
  /\ pc[p] = "down"
  /\ Goto(p, "read")
  /\ UNCHANGED <<file, draft, lock, wal, next, before>>

-----------------------------------------------------------------------------
Next ==
  \E p \in Proc :
    \/ Open(p) \/ SwitchToWAL(p) \/ WALRefused(p) \/ ReadVersion(p)
    \/ Begin(p) \/ Opened(p)
    \/ Up(p) \/ AddColumns(p) \/ Stamp(p) \/ Commit(p) \/ Fails(p) \/ Close(p)
    \/ StepDown(p) \/ Down(p) \/ Reversed(p)

Spec == Init /\ [][Next]_vars

-----------------------------------------------------------------------------
Done(v) == [w \in Step |-> IF w <= v THEN 1 ELSE 0]

(* VersionTells: whatever processes open the file together, fail or die,    *)
(* its number says what it holds: every migration up to it has taken effect *)
(* once, none after it has, and from the baseline on every table and every  *)
(* late column is there.                                                   *)
VersionTells ==
  /\ file.ran = Done(file.version)
  /\ file.version >= baselineVersion => file.tables = Table /\ file.columns = Table

(* OpenedIsCurrent: a store that was opened has every migration its build   *)
(* knows and the rows that were there before versions were.                *)
OpenedIsCurrent ==
  \A p \in Proc : pc[p] = "open" =>
    /\ \A v \in 1..Latest[p] : file.ran[v] = 1
    /\ file.rows = before

(* What an open transaction has made of the file, stage by stage.           *)
DraftOK(p) ==
  /\ next[p] = file.version + 1
  /\ next[p] \in Step
  /\ pc[p] = "up" => draft = file
  /\ pc[p] = "columns" => next[p] = baselineVersion
  /\ pc[p] # "up" => draft.ran = Done(next[p]) /\ draft.tables = Table
  /\ pc[p] \in {"stamp", "commit"} => draft.columns = Table
  /\ pc[p] = "commit" => draft.version = next[p]

(* What a process can rely on, wherever it stands: its transaction is the   *)
(* only one and about the step after the committed version, it is nowhere   *)
(* ahead of that step, and while it steps down it is alone.                *)
ProcessOK(p) ==
  /\ pc[p] \in InTransaction => lock = p /\ DraftOK(p)
  /\ pc[p] = "steps" => next[p] >= 1 /\ next[p] <= file.version + 1
  /\ pc[p] = "down" => /\ next[p] >= file.version
                       /\ next[p] <= MaxVersion
                       /\ \A q \in Proc \ {p} : pc[q] = "closed"

(* The strengthening of VersionTells that every step preserves.             *)
VersionInv == VersionTells /\ \A p \in Proc : ProcessOK(p)

(* The strengthening of OpenedIsCurrent: the rows are those that were there *)
(* from the first, in the file and in a transaction, and no version falls   *)
(* below the one a process has opened.                                     *)
CurrentInv ==
  /\ file.rows = before
  /\ \A p \in Proc :
       /\ pc[p] \in InTransaction => draft.rows = before
       /\ pc[p] = "open" => file.version >= Latest[p]

(* NewerIsRefused: "A database from a newer build is refused rather than    *)
(* opened."  The check is made once, before the steps, so a build that      *)
(* passes it beside a newer one opens what the newer one has made of the   *)
(* file.  With one migration in every build there is nothing newer yet.    *)
NewerIsRefused ==
  \A p \in Proc : (pc[p] = "steps" /\ next[p] > Latest[p]) => file.version <= Latest[p]
=============================================================================
