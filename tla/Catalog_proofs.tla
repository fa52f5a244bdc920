--------------------------- MODULE Catalog_proofs ---------------------------
(***************************************************************************)
(* Proofs about Catalog: type correctness, and, for one process with any   *)
(* number of goroutines, that neither the files nor memory fall behind     *)
(* what was synced.  The argument is CatalogInv: while a snapshot is being *)
(* installed under the lock nobody appends, so the snapshot is memory, and *)
(* memory is never behind.                                                 *)
(***************************************************************************)
EXTENDS Catalog, FiniteSetTheorems, TLAPS

-----------------------------------------------------------------------------
(* The lines of a snapshot can be counted.                                  *)
LEMMA KeptIsNat ==
  ASSUME NEW entries
  PROVE  Kept(entries) \in Nat
<1>1. {r \in Record : entries[r] # NoEntry} \subseteq Record
  OBVIOUS
<1>. QED BY <1>1, RecordAssumption, FS_Subset, FS_CardinalityType DEF Kept

(* No entries at all are entries.                                           *)
LEMMA NothingType == Nothing \in [Record -> Entry]
BY DEF Nothing, NoEntry, Entry

(* An entry with the next stamp is an entry.                                *)
LEMMA EntryType ==
  ASSUME stamp \in Nat, NEW d \in BOOLEAN
  PROVE  [stamp |-> stamp + 1, deleted |-> d] \in Entry
BY DEF Entry

(* The catalog starts well typed.                                           *)
LEMMA TypeInit == Init => TypeOK
<1> SUFFICES ASSUME Init PROVE TypeOK
  OBVIOUS
<1>1. snapshot = Nothing /\ logged = Nothing /\ acked = Nothing
  BY DEF Init
<1>2. copy \in [Caller -> [Record -> Entry]] /\ mem \in [Proc -> [Record -> Entry]]
  BY NothingType DEF Init
<1>3. lines \in [log : Nat, snap : Nat] /\ size \in [Proc -> [log : Nat, snap : Nat]]
  BY DEF Init
<1>4. 0 \in 0..MaxCrashes /\ 0 \in 0..MaxTears
  BY BoundAssumption
<1>. QED BY <1>1, <1>2, <1>3, <1>4, NothingType DEF Init, TypeOK

(* Replaying well-typed files gives well-typed memory.                      *)
LEMMA ReplayType == TypeOK => Replay \in [Record -> Entry]
BY DEF TypeOK, Replay

(* Every step keeps every variable in its type.                             *)
LEMMA TypeStep ==
  ASSUME TypeOK, [Next]_vars
  PROVE  TypeOK'
<1> USE CallerAssumption, BoundAssumption
<1>1. ASSUME NEW c \in Caller, NEW r \in Record, NEW d \in BOOLEAN, Write(c, r, d)
      PROVE  TypeOK'
  <2>1. [stamp |-> stamp + 1, deleted |-> d] \in Entry
    BY EntryType DEF TypeOK
  <2>2. mem' \in [Proc -> [Record -> Entry]]
    BY <1>1, <2>1 DEF TypeOK, Write
  <2>3. size' \in [Proc -> [log : Nat, snap : Nat]]
    <3> DEFINE p == ProcOf[c]
               grown == [size[p] EXCEPT !.log = @ + 1]
    <3>1. p \in Proc /\ size' = [size EXCEPT ![p] = grown]
      BY <1>1 DEF Write
    <3>2. size[p] \in [log : Nat, snap : Nat]
      BY <3>1 DEF TypeOK
    <3>3. grown \in [log : Nat, snap : Nat]
      BY <3>2
    <3>4. size \in [Proc -> [log : Nat, snap : Nat]]
      BY DEF TypeOK
    <3> HIDE DEF p, grown
    <3>. QED BY <3>1, <3>3, <3>4
  <2>4. logged' \in [Record -> Entry] /\ acked' \in [Record -> Entry]
    BY <1>1, <2>1 DEF TypeOK, Write
  <2>5. lines' \in [log : Nat, snap : Nat] /\ stamp' \in Nat
    <3>1. lines' = [lines EXCEPT !.log = @ + 1] /\ stamp' = stamp + 1
      BY <1>1 DEF Write
    <3>. QED BY <3>1 DEF TypeOK
  <2>6. pc' \in [Caller -> {"idle", "check", "copy", "install", "truncate"}]
    BY <1>1 DEF TypeOK, Write, Goto
  <2>7. UNCHANGED <<snapshot, torn, up, copy, raced, crashes, tears>>
    BY <1>1 DEF Write
  <2>. QED BY <2>2, <2>3, <2>4, <2>5, <2>6, <2>7 DEF TypeOK
<1>2. ASSUME NEW c \in Caller, Check(c) PROVE TypeOK'
  BY <1>2 DEF TypeOK, Check, Goto, files, process, history
<1>3. ASSUME NEW c \in Caller, Copy(c) PROVE TypeOK'
  BY <1>3 DEF TypeOK, Copy, Goto, files, process, history
<1>4. ASSUME NEW c \in Caller, Install(c) PROVE TypeOK'
  BY <1>4, KeptIsNat DEF TypeOK, Install, Goto, process
<1>5. ASSUME NEW c \in Caller, Truncate(c) PROVE TypeOK'
  BY <1>5, KeptIsNat, NothingType DEF TypeOK, Truncate, Goto, history
<1>6. ASSUME NEW c \in Caller, CompactFails(c) PROVE TypeOK'
  <2>1. logged' \in [Record -> Entry] /\ torn' \in BOOLEAN
    BY <1>6, NothingType DEF TypeOK, CompactFails
  <2>2. lines' \in [log : Nat, snap : Nat]
    BY <1>6 DEF TypeOK, CompactFails
  <2>3. copy' \in [Caller -> [Record -> Entry]] /\ crashes' \in 0..MaxCrashes
    BY <1>6, NothingType, BoundAssumption DEF TypeOK, CompactFails
  <2>4. pc' \in [Caller -> {"idle", "check", "copy", "install", "truncate"}]
    BY <1>6 DEF TypeOK, CompactFails, Goto
  <2>. QED BY <1>6, <2>1, <2>2, <2>3, <2>4 DEF TypeOK, CompactFails, process
<1>7. ASSUME NEW c \in Caller, ShortWrite(c) PROVE TypeOK'
  BY <1>7 DEF TypeOK, ShortWrite, process, caller
<1>8. ASSUME NEW c \in Caller, NEW r \in Record, NEW d \in BOOLEAN, SyncFails(c, r, d)
      PROVE  TypeOK'
  <2>1. [stamp |-> stamp + 1, deleted |-> d] \in Entry
    BY EntryType DEF TypeOK
  <2>. QED BY <1>8, <2>1 DEF TypeOK, SyncFails, process, caller
<1>9. ASSUME NEW p \in Proc, Crash(p) PROVE TypeOK'
  <2>1. copy' \in [Caller -> [Record -> Entry]]
    BY <1>9, NothingType DEF TypeOK, Crash
  <2>2. crashes' \in 0..MaxCrashes /\ tears' \in 0..MaxTears
    BY <1>9 DEF TypeOK, Crash
  <2>. QED BY <1>9, <2>1, <2>2 DEF TypeOK, Crash
<1>10. ASSUME NEW p \in Proc, Open(p) PROVE TypeOK'
  BY <1>10, ReplayType DEF TypeOK, Open, files, caller, history
<1>11. CASE UNCHANGED vars
  BY <1>11 DEF TypeOK, vars, files, process, caller, history
<1>. QED
  BY <1>1, <1>2, <1>3, <1>4, <1>5, <1>6, <1>7, <1>8, <1>9, <1>10, <1>11
     DEF Next, Append, Remove

(* The catalog's variables keep their types.                                *)
THEOREM TypeCorrect == Spec => []TypeOK
<1>1. Init => TypeOK
  BY TypeInit
<1>2. TypeOK /\ [Next]_vars => TypeOK'
  BY TypeStep
<1>. QED BY <1>1, <1>2, PTL DEF Spec

-----------------------------------------------------------------------------
(* An empty catalog is not behind.                                          *)
LEMMA CatalogInvInit == Init => CatalogInv
BY DEF Init, CatalogInv, AckedSurvives, MemoryIsCurrent, HoldsAcked,
       Promise!NoOlder, Replay, Nothing, NoEntry

(* One process has the vault open.                                          *)
OneProcess == \A p, q \in Proc : p = q

(* An append puts the same entry in the log, in memory and among what was   *)
(* synced, and no snapshot is being installed meanwhile.                    *)
LEMMA WriteKeeps ==
  ASSUME OneProcess, TypeOK, CatalogInv,
         NEW c \in Caller, NEW r \in Record, NEW d \in BOOLEAN, Write(c, r, d)
  PROVE  CatalogInv'
<1> USE CallerAssumption DEF TypeOK, CatalogInv
<1> DEFINE e == [stamp |-> stamp + 1, deleted |-> d]
<1>1. /\ logged' = [logged EXCEPT ![r] = e]
      /\ acked' = [acked EXCEPT ![r] = e]
      /\ mem' = [mem EXCEPT ![ProcOf[c]][r] = e]
      /\ stamp' = stamp + 1
      /\ UNCHANGED <<snapshot, torn, up, raced>>
  BY DEF Write
<1>2. e # NoEntry
  BY DEF NoEntry
<1>3. AckedSurvives'
  <2> SUFFICES ASSUME ~ torn, ~ raced, NEW q \in Record
               PROVE  Replay'[q] = acked'[q] \/ Replay'[q].stamp > acked'[q].stamp
    BY <1>1 DEF AckedSurvives, HoldsAcked, Promise!NoOlder
  <2>1. CASE q = r
    BY <2>1, <1>1, <1>2 DEF Replay
  <2>2. CASE q # r
    <3>1. Replay'[q] = Replay[q] /\ acked'[q] = acked[q]
      BY <2>2, <1>1 DEF Replay
    <3>. QED BY <3>1 DEF AckedSurvives, HoldsAcked, Promise!NoOlder
  <2>. QED BY <2>1, <2>2
<1>4. MemoryIsCurrent'
  <2> SUFFICES ASSUME ~ raced, NEW p \in up, NEW q \in Record
               PROVE  mem'[p][q] = acked'[q] \/ mem'[p][q].stamp > acked'[q].stamp
    BY <1>1 DEF MemoryIsCurrent, HoldsAcked, Promise!NoOlder
  <2>0. p = ProcOf[c]
    BY DEF OneProcess
  <2>1. CASE q = r
    BY <2>0, <2>1, <1>1
  <2>2. CASE q # r
    BY <2>0, <2>2, <1>1 DEF MemoryIsCurrent, HoldsAcked, Promise!NoOlder
  <2>. QED BY <2>1, <2>2
<1>5. \A x \in Caller : pc[x] # "truncate" /\ pc'[x] # "truncate"
  <2>1. \A x \in Caller : ProcOf[x] = ProcOf[c]
    BY DEF OneProcess
  <2>2. \A x \in Caller : pc[x] # "truncate"
    BY <2>1 DEF Write, Locked, Callers
  <2>3. pc' = [pc EXCEPT ![c] = "check"]
    BY DEF Write, Goto
  <2>. QED BY <2>2, <2>3
<1>6. \A x \in Caller : pc'[x] # "idle" => ProcOf[x] \in up'
  BY DEF Write, Goto, Running
<1>7. \A q \in Record : acked'[q].stamp <= stamp'
  BY <1>1 DEF Entry
<1>. QED BY <1>3, <1>4, <1>5, <1>6, <1>7

(* A failed sync adds an entry newer than any synced one, to the log only.  *)
LEMMA SyncFailsKeeps ==
  ASSUME TypeOK, CatalogInv,
         NEW c \in Caller, NEW r \in Record, NEW d \in BOOLEAN, SyncFails(c, r, d)
  PROVE  CatalogInv'
<1> USE DEF TypeOK, CatalogInv
<1> DEFINE e == [stamp |-> stamp + 1, deleted |-> d]
<1>1. /\ logged' = [logged EXCEPT ![r] = e]
      /\ stamp' = stamp + 1
      /\ UNCHANGED <<snapshot, torn, up, mem, pc, acked, raced>>
  BY DEF SyncFails, process, caller
<1>2. e # NoEntry
  BY DEF NoEntry
<1>3. AckedSurvives'
  <2> SUFFICES ASSUME ~ torn, ~ raced, NEW q \in Record
               PROVE  Replay'[q] = acked[q] \/ Replay'[q].stamp > acked[q].stamp
    BY <1>1 DEF AckedSurvives, HoldsAcked, Promise!NoOlder
  <2>1. CASE q = r
    <3>1. Replay'[q].stamp = stamp + 1
      BY <2>1, <1>1, <1>2 DEF Replay
    <3>2. acked[q].stamp \in Nat /\ acked[q].stamp <= stamp
      BY DEF Entry
    <3>. QED BY <3>1, <3>2
  <2>2. CASE q # r
    <3>1. Replay'[q] = Replay[q]
      BY <2>2, <1>1 DEF Replay
    <3>. QED BY <3>1 DEF AckedSurvives, HoldsAcked, Promise!NoOlder
  <2>. QED BY <2>1, <2>2
<1>4. \A q \in Record : acked'[q].stamp <= stamp'
  BY <1>1 DEF Entry
<1>. QED BY <1>1, <1>3, <1>4 DEF MemoryIsCurrent, HoldsAcked, Promise!NoOlder

(* Installing a snapshot equal to memory changes nothing that matters, and  *)
(* installing any other is what raced records.                             *)
LEMMA InstallKeeps ==
  ASSUME OneProcess, TypeOK, CatalogInv, NEW c \in Caller, Install(c)
  PROVE  CatalogInv'
<1> USE CallerAssumption DEF TypeOK, CatalogInv
<1>1. /\ snapshot' = copy[c]
      /\ raced' = (raced \/ copy[c] # mem[ProcOf[c]])
      /\ pc' = [pc EXCEPT ![c] = "truncate"]
      /\ ProcOf[c] \in up
      /\ UNCHANGED <<logged, torn, up, mem, stamp, acked>>
  BY DEF Install, Goto, Running, process
<1>2. \A x \in Caller : pc[x] # "truncate" /\ (pc'[x] = "truncate" => x = c)
  BY <1>1 DEF Install, Locked, Callers, OneProcess
<1>3. AckedSurvives'
  <2> SUFFICES ASSUME ~ torn, ~ raced, copy[c] = mem[ProcOf[c]], NEW q \in Record
               PROVE  Replay'[q] = acked[q] \/ Replay'[q].stamp > acked[q].stamp
    BY <1>1 DEF AckedSurvives, HoldsAcked, Promise!NoOlder
  <2>1. CASE logged[q] # NoEntry
    <3>1. Replay'[q] = Replay[q]
      BY <2>1, <1>1 DEF Replay
    <3>. QED BY <3>1 DEF AckedSurvives, HoldsAcked, Promise!NoOlder
  <2>2. CASE logged[q] = NoEntry
    <3>1. Replay'[q] = mem[ProcOf[c]][q]
      BY <2>2, <1>1 DEF Replay
    <3>. QED BY <3>1, <1>1 DEF MemoryIsCurrent, HoldsAcked, Promise!NoOlder
  <2>. QED BY <2>1, <2>2
<1>4. MemoryIsCurrent'
  BY <1>1 DEF MemoryIsCurrent, HoldsAcked, Promise!NoOlder
<1>5. ~ raced' => \A x \in Caller : pc'[x] = "truncate" => snapshot' = mem'[ProcOf[x]]
  BY <1>1, <1>2
<1>6. \A x \in Caller : pc'[x] # "idle" => ProcOf[x] \in up'
  BY <1>1
<1>. QED BY <1>1, <1>2, <1>3, <1>4, <1>5, <1>6

(* The log is emptied under a snapshot that holds all of memory, and the    *)
(* compaction then returns, with an error or without.                      *)
LEMMA TruncateKeeps ==
  ASSUME OneProcess, TypeOK, CatalogInv, NEW c \in Caller,
         \/ Truncate(c)
         \/ CompactFails(c) /\ pc[c] = "truncate" /\ logged' = Nothing
  PROVE  CatalogInv'
<1> USE CallerAssumption DEF TypeOK, CatalogInv
<1>1. /\ logged' = Nothing
      /\ pc' = [pc EXCEPT ![c] = "idle"]
      /\ ProcOf[c] \in up
      /\ pc[c] = "truncate"
      /\ UNCHANGED <<snapshot, up, mem, stamp, acked, raced>>
  BY DEF Truncate, CompactFails, Goto, Running, process, history
<1>2. AckedSurvives'
  <2> SUFFICES ASSUME ~ raced, NEW q \in Record
               PROVE  Replay'[q] = acked[q] \/ Replay'[q].stamp > acked[q].stamp
    BY <1>1 DEF AckedSurvives, HoldsAcked, Promise!NoOlder
  <2>1. Replay'[q] = mem[ProcOf[c]][q]
    BY <1>1 DEF Replay, Nothing
  <2>. QED BY <2>1, <1>1 DEF MemoryIsCurrent, HoldsAcked, Promise!NoOlder
<1>3. MemoryIsCurrent'
  BY <1>1 DEF MemoryIsCurrent, HoldsAcked, Promise!NoOlder
<1>. QED BY <1>1, <1>2, <1>3

(* A process that opens finds in the files all that was synced.             *)
LEMMA OpenKeeps ==
  ASSUME OneProcess, TypeOK, CatalogInv, NEW p \in Proc, Open(p)
  PROVE  CatalogInv'
<1> USE CallerAssumption DEF TypeOK, CatalogInv
<1>1. /\ p \notin up /\ ~ torn
      /\ up' = up \union {p}
      /\ mem' = [mem EXCEPT ![p] = Replay]
      /\ UNCHANGED <<snapshot, logged, torn, pc, stamp, acked, raced>>
  BY DEF Open, Loads, files, caller, history
<1>2. AckedSurvives'
  BY <1>1 DEF AckedSurvives, HoldsAcked, Promise!NoOlder, Replay
<1>3. MemoryIsCurrent'
  <2> SUFFICES ASSUME ~ raced, NEW q \in up', NEW r \in Record
               PROVE  mem'[q][r] = acked[r] \/ mem'[q][r].stamp > acked[r].stamp
    BY <1>1 DEF MemoryIsCurrent, HoldsAcked, Promise!NoOlder
  <2>1. q = p
    BY <1>1 DEF OneProcess
  <2>2. mem'[q] = Replay
    BY <1>1, <2>1
  <2>. QED BY <2>2, <1>1 DEF AckedSurvives, HoldsAcked, Promise!NoOlder
<1>4. \A x \in Caller : pc[x] = "idle"
  BY <1>1 DEF OneProcess
<1>. QED BY <1>1, <1>2, <1>3, <1>4

(* Every step keeps CatalogInv.                                             *)
LEMMA CatalogInvStep ==
  ASSUME OneProcess, TypeOK, CatalogInv, [Next]_vars
  PROVE  CatalogInv'
<1> USE CallerAssumption
<1>1. ASSUME NEW c \in Caller,
             \/ Check(c) \/ Copy(c) \/ ShortWrite(c)
             \/ CompactFails(c) /\ UNCHANGED <<logged, lines, torn>>
      PROVE  CatalogInv'
  <2>1. UNCHANGED <<snapshot, logged, up, mem, stamp, acked, raced>>
    BY <1>1 DEF Check, Copy, CompactFails, ShortWrite, files, process, history
  <2>2. \A x \in Caller : /\ pc'[x] = "truncate" => pc[x] = "truncate"
                          /\ pc'[x] # "idle" => ProcOf[x] \in up
    BY <1>1 DEF CatalogInv, TypeOK, Check, Copy, CompactFails, ShortWrite, Goto,
                Running, caller
  <2>3. ~ torn' => ~ torn
    BY <1>1 DEF Check, Copy, ShortWrite, files
  <2>4. AckedSurvives' /\ MemoryIsCurrent'
    BY <2>1, <2>3 DEF CatalogInv, AckedSurvives, MemoryIsCurrent, HoldsAcked,
                      Promise!NoOlder, Replay
  <2>. QED BY <2>1, <2>2, <2>4 DEF CatalogInv
<1>2. ASSUME NEW p \in Proc, Crash(p) PROVE CatalogInv'
  <2>1. UNCHANGED <<snapshot, logged, mem, stamp, acked, raced>> /\ up' = up \ {p}
    BY <1>2 DEF Crash
  <2>2. \A x \in Caller : /\ pc'[x] = "truncate" => pc[x] = "truncate"
                          /\ pc'[x] # "idle" => ProcOf[x] \in up'
    BY <1>2 DEF CatalogInv, TypeOK, Crash, Callers
  <2>3. torn => torn'
    BY <1>2 DEF Crash, TypeOK
  <2>4. AckedSurvives' /\ MemoryIsCurrent'
    BY <2>1, <2>3 DEF CatalogInv, AckedSurvives, MemoryIsCurrent, HoldsAcked,
                      Promise!NoOlder, Replay
  <2>. QED BY <2>1, <2>2, <2>4 DEF CatalogInv
<1>3. CASE UNCHANGED vars
  BY <1>3 DEF vars, files, process, caller, history, CatalogInv, AckedSurvives,
              MemoryIsCurrent, HoldsAcked, Promise!NoOlder, Replay
<1>4. ASSUME NEW c \in Caller, CompactFails(c) PROVE CatalogInv'
  <2>1. \/ UNCHANGED <<logged, lines, torn>>
        \/ pc[c] = "truncate" /\ logged' = Nothing
    BY <1>4 DEF CompactFails
  <2>. QED BY <1>1, <1>4, <2>1, TruncateKeeps
<1>. QED
  BY <1>4, <1>1, <1>2, <1>3, WriteKeeps, SyncFailsKeeps, InstallKeeps, TruncateKeeps, OpenKeeps
     DEF Next, Append, Remove

(* With one process, neither the files nor memory ever fall behind what was *)
(* synced, whatever the goroutines do and wherever the process dies, unless *)
(* a line is torn or a compaction overlapped an append.                     *)
LEMMA CatalogInvHolds ==
  ASSUME OneProcess
  PROVE  Spec => [](TypeOK /\ CatalogInv)
<1>1. Init => TypeOK /\ CatalogInv
  BY TypeInit, CatalogInvInit
<1>2. TypeOK /\ CatalogInv /\ [Next]_vars => (TypeOK /\ CatalogInv)'
  BY TypeStep, CatalogInvStep
<1>. QED BY <1>1, <1>2, PTL DEF Spec

(* The files never fall behind: no crash or compaction of a single process  *)
(* loses a catalog entry that was synced.                                   *)
THEOREM EntriesSurvive ==
  ASSUME OneProcess
  PROVE  Spec => []AckedSurvives
<1>1. CatalogInv => AckedSurvives
  BY DEF CatalogInv
<1>. QED BY <1>1, CatalogInvHolds, PTL

(* Memory never falls behind: what a single process compacts from is        *)
(* everything that was synced.                                             *)
THEOREM MemoryStaysCurrent ==
  ASSUME OneProcess
  PROVE  Spec => []MemoryIsCurrent
<1>1. CatalogInv => MemoryIsCurrent
  BY DEF CatalogInv
<1>. QED BY <1>1, CatalogInvHolds, PTL
-----------------------------------------------------------------------------
(* The two kinds of step a goroutine takes.                                 *)
Writes(c, r) ==
  \/ Append(c, r)
  \/ Remove(c, r)
  \/ \E deleted \in BOOLEAN : SyncFails(c, r, deleted)

Works(c) ==
  Check(c) \/ Copy(c) \/ Install(c) \/ Truncate(c) \/ CompactFails(c) \/ ShortWrite(c)

LEMMA NextKinds ==
  Next => \/ \E c \in Caller, r \in Record : Writes(c, r)
          \/ \E c \in Caller : Works(c)
          \/ \E p \in Proc : Crash(p) \/ Open(p)
BY ZenonT(30) DEF Next, Writes, Works

(* A compaction that overlapped an append is never made good.               *)
LEMMA RacedStays == [Next]_vars => (raced => raced')
<1>1. ASSUME NEW c \in Caller, NEW r \in Record, Writes(c, r) PROVE raced => raced'
  BY <1>1 DEF Writes, Append, Remove, Write, SyncFails
<1>2. ASSUME NEW c \in Caller, Works(c) PROVE raced => raced'
  BY <1>2 DEF Works, Check, Copy, Install, Truncate, CompactFails, ShortWrite, history
<1>3. ASSUME NEW p \in Proc, Crash(p) \/ Open(p) PROVE raced => raced'
  BY <1>3 DEF Crash, Open, history
<1>4. CASE UNCHANGED vars
  BY <1>4 DEF vars, history
<1> QED BY <1>1, <1>2, <1>3, <1>4, NextKinds

LEMMA AheadInvInit == Init => AheadInv
BY DEF Init, AheadInv, Promise!NoOlder, Replay, Nothing, NoEntry

(* What a step does to the files and to memory, where it does anything.     *)
LEMMA AheadInvStep ==
  ASSUME OneProcess, TypeOK, TypeOK', CatalogInv, AheadInv, [Next]_vars
  PROVE  AheadInv'
<1> USE CallerAssumption
<1> DEFINE Stamps == \A r \in Record :
                       /\ logged[r].stamp <= stamp /\ snapshot[r].stamp <= stamp
                       /\ \A p \in Proc : mem[p][r].stamp <= stamp
                       /\ \A c \in Caller : copy[c][r].stamp <= stamp
           Covers == ~ raced => \A p \in up, r \in Record : Promise!NoOlder(Replay[r], mem[p][r])
<1>0. \A r \in Record : NoEntry.stamp = 0 /\ Nothing[r] = NoEntry
  BY DEF Nothing, NoEntry
<1>1. ASSUME NEW c \in Caller, NEW r \in Record, NEW d \in BOOLEAN,
             Write(c, r, d) \/ SyncFails(c, r, d)
      PROVE  AheadInv'
  <2> DEFINE e == [stamp |-> stamp + 1, deleted |-> d]
  <2>1. /\ logged' = [logged EXCEPT ![r] = e] /\ stamp' = stamp + 1
        /\ mem' = [mem EXCEPT ![ProcOf[c]][r] = e] \/ UNCHANGED mem
        /\ UNCHANGED <<snapshot, up, copy, raced>>
    BY <1>1 DEF Write, SyncFails, process, caller
  <2>2. e # NoEntry /\ e.stamp = stamp + 1 /\ stamp \in Nat
    BY DEF NoEntry, TypeOK
  <2> HIDE DEF e
  <2>3. \A p \in Proc, q \in Record : mem'[p][q] \in {mem[p][q], e} /\ (q # r => mem'[p][q] = mem[p][q])
    BY <2>1 DEF TypeOK
  <2>4. logged'[r] = e /\ \A q \in Record \ {r} : logged'[q] = logged[q]
    BY <2>1 DEF TypeOK
  <2>5. Stamps'
    <3> SUFFICES ASSUME NEW q \in Record
                 PROVE  /\ logged'[q].stamp <= stamp' /\ snapshot'[q].stamp <= stamp'
                        /\ \A p \in Proc : mem'[p][q].stamp <= stamp'
                        /\ \A x \in Caller : copy'[x][q].stamp <= stamp'
      OBVIOUS
    <3>1. /\ logged[q].stamp \in Nat /\ snapshot[q].stamp \in Nat
          /\ \A p \in Proc : mem[p][q].stamp \in Nat
          /\ \A x \in Caller : copy[x][q].stamp \in Nat
      BY DEF TypeOK, Entry
    <3> QED BY <2>1, <2>2, <2>3, <2>4, <3>1 DEF AheadInv
  <2>6. Covers'
    <3> SUFFICES ASSUME ~ raced, NEW p \in up, NEW q \in Record
                 PROVE  Replay'[q] = mem'[p][q] \/ Replay'[q].stamp > mem'[p][q].stamp
      BY <2>1 DEF Promise!NoOlder
    <3>1. p \in Proc /\ mem[p][q].stamp \in Nat
      BY DEF TypeOK, Entry
    <3>2. CASE q = r
      <4>1. Replay'[q] = e
        BY <2>2, <2>4, <3>2 DEF Replay
      <4> QED BY <2>2, <2>3, <3>1, <4>1 DEF AheadInv
    <3>3. CASE q # r
      <4>1. Replay'[q] = Replay[q]
        BY <2>1, <2>4, <3>3 DEF Replay
      <4> QED BY <2>3, <3>1, <3>3, <4>1 DEF AheadInv, Promise!NoOlder
    <3> QED BY <3>2, <3>3
  <2> QED BY <2>5, <2>6 DEF AheadInv
<1>2. ASSUME NEW c \in Caller, Copy(c) PROVE AheadInv'
  <2>1. copy' = [copy EXCEPT ![c] = mem[ProcOf[c]]]
        /\ UNCHANGED <<snapshot, logged, up, mem, stamp, raced>>
    BY <1>2 DEF Copy, files, process, history
  <2>2. \A x \in Caller : copy'[x] \in {copy[x], mem[ProcOf[c]]}
    BY <2>1 DEF TypeOK
  <2>3. ProcOf[c] \in Proc
    OBVIOUS
  <2> QED BY <2>1, <2>2, <2>3 DEF AheadInv, Promise!NoOlder, Replay
<1>3. ASSUME NEW c \in Caller, Install(c) PROVE AheadInv'
  <2>1. /\ snapshot' = copy[c] /\ raced' = (raced \/ copy[c] # mem[ProcOf[c]])
        /\ ProcOf[c] \in up
        /\ UNCHANGED <<logged, up, mem, copy, stamp>>
    BY <1>3 DEF Install, Running, process
  <2>2. Stamps'
    BY <2>1 DEF AheadInv
  <2>3. Covers'
    <3> SUFFICES ASSUME ~ raced, copy[c] = mem[ProcOf[c]], NEW p \in up, NEW q \in Record
                 PROVE  Replay'[q] = mem[p][q] \/ Replay'[q].stamp > mem[p][q].stamp
      BY <2>1 DEF Promise!NoOlder
    <3>1. p = ProcOf[c]
      BY DEF TypeOK, OneProcess
    <3>2. Replay'[q] = IF logged[q] # NoEntry THEN Replay[q] ELSE mem[p][q]
      BY <2>1, <3>1 DEF Replay
    <3> QED BY <3>2 DEF AheadInv, Promise!NoOlder
  <2> QED BY <2>2, <2>3 DEF AheadInv
<1>4. ASSUME NEW c \in Caller,
             Truncate(c) \/ (CompactFails(c) /\ pc[c] = "truncate" /\ logged' = Nothing)
      PROVE  AheadInv'
  <2>1. /\ logged' = Nothing /\ copy' = [copy EXCEPT ![c] = Nothing]
        /\ pc[c] = "truncate" /\ ProcOf[c] \in up
        /\ UNCHANGED <<snapshot, up, mem, stamp, raced>>
    BY <1>4 DEF Truncate, CompactFails, Running, process, history
  <2>2. \A x \in Caller : copy'[x] \in {copy[x], Nothing}
    BY <2>1 DEF TypeOK
  <2>3. Stamps'
    BY <1>0, <2>1, <2>2 DEF AheadInv, TypeOK
  <2>4. Covers'
    <3> SUFFICES ASSUME ~ raced, NEW p \in up, NEW q \in Record
                 PROVE  Replay'[q] = mem[p][q]
      BY <2>1 DEF Promise!NoOlder
    <3>1. p = ProcOf[c]
      BY DEF TypeOK, OneProcess
    <3> QED BY <1>0, <2>1, <3>1 DEF Replay, CatalogInv
  <2> QED BY <2>3, <2>4 DEF AheadInv
<1>5. ASSUME NEW c \in Caller, Check(c) \/ ShortWrite(c) PROVE AheadInv'
  <2>1. UNCHANGED <<snapshot, logged, up, mem, copy, stamp, raced>>
    BY <1>5 DEF Check, ShortWrite, files, process, caller, history
  <2> QED BY <2>1 DEF AheadInv, Promise!NoOlder, Replay
<1>6. ASSUME NEW c \in Caller, CompactFails(c), UNCHANGED <<logged, lines, torn>> PROVE AheadInv'
  <2>1. copy' = [copy EXCEPT ![c] = Nothing]
        /\ UNCHANGED <<snapshot, logged, up, mem, stamp, raced>>
    BY <1>6 DEF CompactFails, process
  <2>2. \A x \in Caller : copy'[x] \in {copy[x], Nothing}
    BY <2>1 DEF TypeOK
  <2>3. Stamps'
    BY <1>0, <2>1, <2>2 DEF AheadInv, TypeOK
  <2> QED BY <2>1, <2>3 DEF AheadInv, Promise!NoOlder, Replay
<1>7. ASSUME NEW p \in Proc, Crash(p) PROVE AheadInv'
  <2>1. up' \subseteq up /\ UNCHANGED <<snapshot, logged, mem, stamp, raced>>
    BY <1>7 DEF Crash
  <2>2. \A x \in Caller : copy'[x] \in {copy[x], Nothing}
    BY <1>7 DEF Crash
  <2>3. Stamps'
    <3>1. Stamps
      BY DEF AheadInv
    <3>2. \A r \in Record : Nothing[r].stamp <= stamp
      BY <1>0 DEF TypeOK
    <3> QED BY <2>1, <2>2, <3>1, <3>2
  <2>4. Covers'
    <3>1. Replay' = Replay
      BY <2>1 DEF Replay
    <3> QED BY <2>1, <3>1 DEF AheadInv, Promise!NoOlder
  <2> QED BY <2>3, <2>4 DEF AheadInv
<1>8. ASSUME NEW p \in Proc, Open(p) PROVE AheadInv'
  <2>1. /\ up' = up \union {p} /\ mem' = [mem EXCEPT ![p] = Replay] /\ mem'[p] = Replay
        /\ UNCHANGED <<snapshot, logged, copy, stamp, raced>>
    BY <1>8 DEF Open, files, caller, history, TypeOK
  <2>2. \A q \in Proc : mem'[q] \in {mem[q], Replay}
    BY <2>1 DEF TypeOK
  <2>3. \A r \in Record : Replay[r] \in {logged[r], snapshot[r]}
    BY DEF Replay
  <2>4. Stamps'
    BY <2>1, <2>2, <2>3 DEF AheadInv
  <2>5. Covers'
    <3> SUFFICES ASSUME NEW q \in up', NEW r \in Record PROVE Replay'[r] = mem'[q][r]
      BY DEF Promise!NoOlder
    <3>1. q = p
      BY <2>1 DEF OneProcess, TypeOK
    <3> QED BY <2>1, <3>1 DEF Replay
  <2> QED BY <2>4, <2>5 DEF AheadInv
<1>9. CASE UNCHANGED vars
  BY <1>9 DEF vars, files, process, caller, history, AheadInv, Promise!NoOlder, Replay
<1>10. ASSUME NEW c \in Caller, CompactFails(c) PROVE AheadInv'
  <2>1. UNCHANGED <<logged, lines, torn>> \/ (pc[c] = "truncate" /\ logged' = Nothing)
    BY <1>10 DEF CompactFails
  <2> QED BY <1>4, <1>6, <1>10, <2>1
<1>11. ASSUME NEW c \in Caller, NEW r \in Record, Writes(c, r) PROVE AheadInv'
  BY <1>1, <1>11 DEF Writes, Append, Remove
<1> HIDE DEF Stamps, Covers
<1>12. CASE Next
  <2>1. ASSUME NEW c \in Caller, Works(c) PROVE AheadInv'
    BY <1>2, <1>3, <1>4, <1>5, <1>10, <2>1 DEF Works
  <2>2. ASSUME NEW p \in Proc, Crash(p) \/ Open(p) PROVE AheadInv'
    BY <1>7, <1>8, <2>2
  <2> QED BY <1>11, <1>12, <2>1, <2>2, NextKinds
<1> QED BY <1>9, <1>12

(* Each step is one of the promise's or does not show.                      *)
LEMMA InvisibleStep ==
  ASSUME OneProcess, TypeOK, TypeOK', CatalogInv, CatalogInv', AheadInv, [Next]_vars,
         ~ raced', ~ torn, ~ torn'
  PROVE  Promise!Next \/ UNCHANGED <<Replay, acked>>
<1> USE CallerAssumption
<1>0. ~ raced
  BY RacedStays
<1>1. ASSUME NEW c \in Caller, NEW r \in Record, NEW d \in BOOLEAN,
             Write(c, r, d) \/ SyncFails(c, r, d)
      PROVE  Promise!Put(r)
  <2> DEFINE e == [stamp |-> stamp + 1, deleted |-> d]
  <2>1. /\ logged' = [logged EXCEPT ![r] = e] /\ UNCHANGED snapshot
        /\ acked' = [acked EXCEPT ![r] = e] \/ UNCHANGED acked
    BY <1>1 DEF Write, SyncFails, process, caller
  <2>2. e # NoEntry /\ e.stamp = stamp + 1 /\ stamp \in Nat
    BY DEF NoEntry, TypeOK
  <2> HIDE DEF e
  <2>3. Replay' = [Replay EXCEPT ![r] = e]
    BY <2>1, <2>2 DEF Replay, TypeOK
  <2>4. Replay'[r] = e
    BY <2>3 DEF Replay
  <2>5. Replay[r].stamp <= stamp /\ Replay[r].stamp \in Nat
    BY DEF AheadInv, Replay, TypeOK, Entry
  <2>6. Replay'[r].stamp > Replay[r].stamp
    BY <2>2, <2>4, <2>5
  <2>7. Replay' = [Replay EXCEPT ![r] = Replay'[r]]
    BY <2>3, <2>4
  <2>8. acked' = [acked EXCEPT ![r] = Replay'[r]] \/ UNCHANGED acked
    BY <2>1, <2>4
  <2> QED BY <2>6, <2>7, <2>8 DEF Promise!Put
<1>2. ASSUME NEW p \in up, UNCHANGED acked,
             \A r \in Record : Replay'[r] \in {Replay[r], mem[p][r]}
      PROVE  Promise!Settle
  <2>1. \A r \in Record : Promise!NoOlder(Replay[r], Replay'[r])
    BY <1>0, <1>2 DEF AheadInv, Promise!NoOlder
  <2>2. \A r \in Record : Promise!NoOlder(Replay'[r], acked'[r])
    BY DEF CatalogInv, AckedSurvives, HoldsAcked, Promise!NoOlder
  <2> QED BY <1>2, <2>1, <2>2 DEF Promise!Settle, Promise!NoOlder
<1>3. ASSUME NEW c \in Caller, Install(c) PROVE Promise!Settle
  <2>1. /\ snapshot' = copy[c] /\ copy[c] = mem[ProcOf[c]] /\ ProcOf[c] \in up
        /\ UNCHANGED <<logged, acked>>
    BY <1>3 DEF Install, Running, process
  <2>2. \A r \in Record : Replay'[r] \in {Replay[r], mem[ProcOf[c]][r]}
    BY <2>1 DEF Replay
  <2> QED BY <1>2, <2>1, <2>2
<1>4. ASSUME NEW c \in Caller,
             Truncate(c) \/ (CompactFails(c) /\ pc[c] = "truncate" /\ logged' = Nothing)
      PROVE  Promise!Settle
  <2>1. /\ logged' = Nothing /\ pc[c] = "truncate" /\ ProcOf[c] \in up
        /\ UNCHANGED <<snapshot, acked>>
    BY <1>4 DEF Truncate, CompactFails, Running, history
  <2>2. \A r \in Record : Replay'[r] = mem[ProcOf[c]][r]
    BY <1>0, <2>1 DEF Replay, Nothing, CatalogInv
  <2> QED BY <1>2, <2>1, <2>2
<1>5. ASSUME UNCHANGED <<logged, snapshot, acked>> PROVE UNCHANGED <<Replay, acked>>
  BY <1>5 DEF Replay
<1>6. ASSUME NEW c \in Caller, CompactFails(c) PROVE Promise!Settle \/ UNCHANGED <<Replay, acked>>
  <2>1. UNCHANGED <<snapshot, acked>>
    BY <1>6 DEF CompactFails
  <2>2. UNCHANGED logged \/ (pc[c] = "truncate" /\ logged' = Nothing)
    BY <1>6 DEF CompactFails
  <2>3. CASE UNCHANGED logged
    BY <1>5, <2>1, <2>3
  <2>4. CASE pc[c] = "truncate" /\ logged' = Nothing
    BY <1>4, <1>6, <2>4
  <2> QED BY <2>2, <2>3, <2>4
<1>7. ASSUME NEW c \in Caller, NEW r \in Record, Writes(c, r) PROVE Promise!Put(r)
  BY <1>1, <1>7 DEF Writes, Append, Remove
<1>8. ASSUME NEW c \in Caller, Check(c) \/ Copy(c) \/ ShortWrite(c)
      PROVE  UNCHANGED <<Replay, acked>>
  BY <1>5, <1>8 DEF Check, Copy, ShortWrite, files, history
<1>9. ASSUME NEW p \in Proc, Crash(p) \/ Open(p)
      PROVE  UNCHANGED <<Replay, acked>>
  BY <1>5, <1>9 DEF Crash, Open, files, history
<1>10. CASE UNCHANGED vars
  BY <1>5, <1>10 DEF vars, files, history
<1>11. CASE Next
  <2> DEFINE Fine == (\E r \in Record : Promise!Put(r)) \/ Promise!Settle \/ UNCHANGED <<Replay, acked>>
  <2>1. ASSUME NEW c \in Caller, Works(c) PROVE Fine
    BY <1>3, <1>4, <1>6, <1>8, <2>1 DEF Works
  <2>2. ASSUME NEW p \in Proc, Crash(p) \/ Open(p) PROVE Fine
    BY <1>9, <2>2
  <2>3. ASSUME NEW c \in Caller, NEW r \in Record, Writes(c, r) PROVE Fine
    BY <1>7, <2>3
  <2> HIDE DEF Fine
  <2>4. Fine
    BY <1>11, <2>1, <2>2, <2>3, NextKinds
  <2> QED BY <2>4 DEF Fine, Promise!Next
<1> QED BY <1>10, <1>11

(* With one process, only an append changes what the files replay to:       *)
(* every step of the catalog is one of CatalogPromise's or does not show,   *)
(* unless a line is torn or a compaction overlapped an append.              *)
THEOREM CompactionIsUnseen ==
  ASSUME OneProcess
  PROVE  Spec => CompactionIsInvisible
<1>1. Init => AheadInv
  BY AheadInvInit
<1>2. /\ TypeOK /\ CatalogInv /\ (TypeOK /\ CatalogInv)' /\ AheadInv /\ [Next]_vars => AheadInv'
  BY AheadInvStep
<1>3. TypeOK /\ CatalogInv /\ (TypeOK /\ CatalogInv)' /\ AheadInv /\ [Next]_vars
        => [raced' \/ torn \/ torn' \/ Promise!Next]_<<Replay, acked>>
  BY InvisibleStep
<1>4. Spec => [](TypeOK /\ CatalogInv)
  BY CatalogInvHolds
<1> QED BY <1>1, <1>2, <1>3, <1>4, PTL DEF Spec, CompactionIsInvisible
=============================================================================
