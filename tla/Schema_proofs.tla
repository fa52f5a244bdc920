--------------------------- MODULE Schema_proofs ---------------------------
(* The schema's version is right for any number of processes, any builds    *)
(* and any number of migrations.                                           *)
EXTENDS Schema, TLAPS

(* What a database is made of.                                              *)
LEMMA Fields ==
  ASSUME NEW d \in Database
  PROVE  /\ d.version \in Nat
         /\ d.ran \in [Step -> Int]
         /\ d.tables \in SUBSET Table
         /\ d.columns \in SUBSET Table
         /\ d.rows \in SUBSET Table
BY DEF Database

(* What a step makes of a database is a database.                           *)
LEMMA Changed ==
  ASSUME NEW d \in Database, NEW v \in Nat, NEW n \in Nat, NEW T \in SUBSET Table
  PROVE  /\ [d EXCEPT !.version = n] \in Database
         /\ [d EXCEPT !.tables = T] \in Database
         /\ [d EXCEPT !.columns = T] \in Database
         /\ [d EXCEPT !.rows = T] \in Database
         /\ [d EXCEPT !.ran[v] = @ + 1] \in Database
         /\ [d EXCEPT !.ran[v] = @ - 1] \in Database
<1>1. [d EXCEPT !.version = n] \in Database
  BY DEF Database
<1>2. [d EXCEPT !.tables = T] \in Database
  BY DEF Database
<1>3. [d EXCEPT !.columns = T] \in Database
  BY DEF Database
<1>4. [d EXCEPT !.rows = T] \in Database
  BY DEF Database
<1>5. [d EXCEPT !.ran[v] = @ + 1] \in Database
  BY DEF Database
<1>6. [d EXCEPT !.ran[v] = @ - 1] \in Database
  BY DEF Database
<1> QED BY <1>1, <1>2, <1>3, <1>4, <1>5, <1>6

(* The file, the transaction and the processes keep their types.            *)
THEOREM TypeCorrect == Spec => []TypeOK
<1> USE LatestAssumption, NoProcAssumption DEF TypeOK, Stages, InTransaction
<1>1. Init => TypeOK
  BY DEF Init, Database, Step
<1>2. TypeOK /\ [Next]_vars => TypeOK'
  <2> SUFFICES ASSUME TypeOK, [Next]_vars PROVE TypeOK'
    OBVIOUS
  <2>1. CASE UNCHANGED vars
    BY <2>1 DEF vars
  <2>2. ASSUME NEW p \in Proc,
               Open(p) \/ SwitchToWAL(p) \/ WALRefused(p) \/ Opened(p) \/ Close(p)
                 \/ Reversed(p) \/ Fails(p)
        PROVE  TypeOK'
    <3>1. CASE Open(p) \/ SwitchToWAL(p) \/ WALRefused(p) \/ Opened(p)
      BY <3>1 DEF Open, SwitchToWAL, WALRefused, Opened, Goto
    <3>2. CASE Close(p) \/ Reversed(p) \/ Fails(p)
      BY <3>2 DEF Close, Reversed, Fails, Goto
    <3> QED BY <2>2, <3>1, <3>2
  <2>3. ASSUME NEW p \in Proc, ReadVersion(p) PROVE TypeOK'
    <3>1. file.version + 1 \in Nat
      BY Fields
    <3> QED BY <2>3, <3>1 DEF ReadVersion, Goto
  <2>4. ASSUME NEW p \in Proc, Begin(p) PROVE TypeOK'
    <3>1. Latest[p] \in 1..MaxVersion
      OBVIOUS
    <3>2. next[p] + 1 \in Nat
      BY <2>4, <3>1 DEF Begin
    <3> QED BY <2>4, <3>2 DEF Begin, Goto
  <2>5. ASSUME NEW p \in Proc, Up(p) PROVE TypeOK'
    <3> DEFINE changed == [draft EXCEPT !.ran[next[p]] = @ + 1]
               late == draft.columns \union (Table \ draft.tables)
               added == [changed EXCEPT !.columns = late]
    <3>1. changed \in Database /\ late \in SUBSET Table
      BY Changed, Fields
    <3>2. added \in Database
      BY <3>1, Changed
    <3>3. [added EXCEPT !.tables = Table] \in Database
      BY <3>2, Changed
    <3>4. draft' \in {changed, [added EXCEPT !.tables = Table]}
      BY <2>5 DEF Up
    <3> HIDE DEF changed, added
    <3>5. draft' \in Database
      BY <3>1, <3>3, <3>4
    <3> QED BY <2>5, <3>5 DEF Up, Goto
  <2>6. ASSUME NEW p \in Proc, AddColumns(p) PROVE TypeOK'
    <3>1. draft' \in Database
      BY <2>6 DEF AddColumns, Database
    <3> QED BY <2>6, <3>1 DEF AddColumns, Goto
  <2>7. ASSUME NEW p \in Proc, Stamp(p) PROVE TypeOK'
    <3>1. draft' \in Database
      BY <2>7 DEF Stamp, Database
    <3> QED BY <2>7, <3>1 DEF Stamp, Goto
  <2>8. ASSUME NEW p \in Proc, Commit(p) PROVE TypeOK'
    <3>1. next[p] + 1 \in Nat
      BY <2>8 DEF Commit
    <3> QED BY <2>8, <3>1 DEF Commit, Goto
  <2>9. ASSUME NEW p \in Proc, StepDown(p) PROVE TypeOK'
    <3>1. Latest[p] \in Nat
      OBVIOUS
    <3> QED BY <2>9, <3>1 DEF StepDown, Goto
  <2>10. ASSUME NEW p \in Proc, Down(p) PROVE TypeOK'
    <3>1. next[p] - 1 \in Nat
      BY <2>10 DEF Down
    <3> DEFINE back == [file EXCEPT !.version = next[p] - 1]
               undone == [back EXCEPT !.ran[next[p]] = @ - 1]
               noTables == [undone EXCEPT !.tables = {}]
               noColumns == [noTables EXCEPT !.columns = {}]
               empty == [noColumns EXCEPT !.rows = {}]
    <3>2. file' \in {file, undone, empty}
      BY <2>10 DEF Down
    <3>3. back \in Database
      BY <2>10, <3>1, Changed DEF Down
    <3> HIDE DEF back
    <3>4. undone \in Database
      BY <3>3, Changed
    <3> HIDE DEF undone
    <3>5. noTables \in Database
      BY <3>4, Changed
    <3> HIDE DEF noTables
    <3>6. noColumns \in Database
      BY <3>5, Changed
    <3> HIDE DEF noColumns
    <3>7. empty \in Database
      BY <3>6, Changed
    <3> QED BY <2>10, <3>1, <3>2, <3>4, <3>7 DEF Down
  <2> QED BY <2>1, <2>2, <2>3, <2>4, <2>5, <2>6, <2>7, <2>8, <2>9, <2>10 DEF Next
<1> QED BY <1>1, <1>2, PTL DEF Spec

(* What is done after one migration more, or one less.                      *)
LEMMA DoneUp ==
  ASSUME NEW v \in Nat, v + 1 \in Step
  PROVE  [Done(v) EXCEPT ![v + 1] = Done(v)[v + 1] + 1] = Done(v + 1)
<1> DEFINE up == [Done(v) EXCEPT ![v + 1] = Done(v)[v + 1] + 1]
<1>1. up = [w \in Step |-> IF w = v + 1 THEN Done(v)[v + 1] + 1 ELSE Done(v)[w]]
  BY DEF Done
<1>2. Done(v)[v + 1] = 0
  BY LatestAssumption DEF Done, Step
<1>3. ASSUME NEW w \in Step PROVE up[w] = IF w <= v + 1 THEN 1 ELSE 0
  BY <1>1, <1>2, <1>3, LatestAssumption DEF Done, Step
<1> HIDE DEF up
<1> QED BY <1>1, <1>3 DEF Done

LEMMA DoneDown ==
  ASSUME NEW v \in Step
  PROVE  [Done(v) EXCEPT ![v] = Done(v)[v] - 1] = Done(v - 1)
<1> DEFINE down == [Done(v) EXCEPT ![v] = Done(v)[v] - 1]
<1>1. down = [w \in Step |-> IF w = v THEN Done(v)[v] - 1 ELSE Done(v)[w]]
  BY DEF Done
<1>2. Done(v)[v] = 1
  BY LatestAssumption DEF Done, Step
<1>3. ASSUME NEW w \in Step PROVE down[w] = IF w <= v - 1 THEN 1 ELSE 0
  BY <1>1, <1>2, <1>3, LatestAssumption DEF Done, Step
<1> HIDE DEF down
<1> QED BY <1>1, <1>3 DEF Done

(* A change to one field leaves the others.                                 *)
LEMMA Kept ==
  ASSUME NEW d \in Database, NEW v, NEW x
  PROVE  /\ [d EXCEPT !.version = x].version = x
         /\ [d EXCEPT !.version = x].ran = d.ran
         /\ [d EXCEPT !.version = x].tables = d.tables
         /\ [d EXCEPT !.version = x].columns = d.columns
         /\ [d EXCEPT !.tables = x].tables = x
         /\ [d EXCEPT !.tables = x].version = d.version
         /\ [d EXCEPT !.tables = x].columns = d.columns
         /\ [d EXCEPT !.tables = x].ran = d.ran
         /\ [d EXCEPT !.columns = x].columns = x
         /\ [d EXCEPT !.columns = x].version = d.version
         /\ [d EXCEPT !.columns = x].ran = d.ran
         /\ [d EXCEPT !.columns = x].tables = d.tables
         /\ [d EXCEPT !.rows = x].version = d.version
         /\ [d EXCEPT !.rows = x].ran = d.ran
         /\ [d EXCEPT !.ran = x].ran = x
         /\ [d EXCEPT !.ran = x].version = d.version
         /\ [d EXCEPT !.ran = x].tables = d.tables
         /\ [d EXCEPT !.ran = x].columns = d.columns
BY DEF Database

(* Every step preserves the strengthened invariant.                         *)
LEMMA InvStep == TypeOK /\ VersionInv /\ [Next]_vars => VersionInv'
<1> SUFFICES ASSUME TypeOK, VersionInv, [Next]_vars PROVE VersionInv'
  OBVIOUS
<1> USE LatestAssumption, NoProcAssumption DEF TypeOK, InTransaction
<1>0. /\ VersionTells
      /\ \A q \in Proc : ProcessOK(q)
      /\ file.version \in Nat /\ draft.version \in Nat
      /\ file.ran \in [Step -> Int] /\ draft.ran \in [Step -> Int]
  BY Fields DEF VersionInv
<1>1. CASE UNCHANGED vars
  BY <1>0, <1>1 DEF vars, VersionInv, VersionTells, ProcessOK, DraftOK
(* Steps that neither touch the file nor a transaction.                     *)
<1>2. ASSUME NEW p \in Proc, UNCHANGED <<file, draft, lock>>,
             pc[p] \notin InTransaction, pc' = [pc EXCEPT ![p] = pc'[p]],
             next' = [next EXCEPT ![p] = next'[p]],
             \A q \in Proc : pc[q] = "down" => q = p \/ pc'[p] = "closed",
             ProcessOK(p)'
      PROVE  VersionInv'
  <2>1. VersionTells'
    BY <1>0, <1>2 DEF VersionTells
  <2>2. ASSUME NEW q \in Proc, q # p PROVE ProcessOK(q)'
    BY <1>0, <1>2, <2>2 DEF ProcessOK, DraftOK
  <2> QED BY <1>2, <2>1, <2>2 DEF VersionInv
<1>3. ASSUME NEW p \in Proc, Open(p) PROVE VersionInv'
  <2>1. ProcessOK(p)'
    BY <1>3 DEF Open, Goto, ProcessOK
  <2> QED BY <1>2, <1>3, <2>1 DEF Open, Goto
<1>4. ASSUME NEW p \in Proc, SwitchToWAL(p) \/ WALRefused(p) \/ Close(p) PROVE VersionInv'
  <2>1. ProcessOK(p)'
    BY <1>4 DEF SwitchToWAL, WALRefused, Close, Goto, ProcessOK
  <2>2. \A q \in Proc : pc[q] = "down" => q = p
    BY <1>0, <1>4 DEF SwitchToWAL, WALRefused, Close, ProcessOK
  <2> QED BY <1>2, <1>4, <2>1, <2>2 DEF SwitchToWAL, WALRefused, Close, Goto
<1>5. ASSUME NEW p \in Proc, ReadVersion(p) PROVE VersionInv'
  <2>1. ProcessOK(p)'
    BY <1>0, <1>5 DEF ReadVersion, Goto, ProcessOK
  <2>2. \A q \in Proc : pc[q] = "down" => q = p
    BY <1>0, <1>5 DEF ReadVersion, ProcessOK
  <2> QED BY <1>2, <1>5, <2>1, <2>2 DEF ReadVersion, Goto
<1>6. ASSUME NEW p \in Proc, Opened(p) \/ Reversed(p) PROVE VersionInv'
  <2>1. ProcessOK(p)'
    BY <1>6 DEF Opened, Reversed, Goto, ProcessOK
  <2>2. \A q \in Proc : pc[q] = "down" => q = p
    BY <1>0, <1>6 DEF Opened, Reversed, ProcessOK
  <2> QED BY <1>2, <1>6, <2>1, <2>2 DEF Opened, Reversed, Goto
<1>7. ASSUME NEW p \in Proc, StepDown(p) PROVE VersionInv'
  <2>1. ProcessOK(p)'
    <3>1. Latest[p] \in 1..MaxVersion
      OBVIOUS
    <3>2. /\ file.version <= Latest[p] /\ file' = file
          /\ next'[p] = Latest[p] /\ pc'[p] = "down"
          /\ \A q \in Proc \ {p} : pc'[q] = "closed"
      BY <1>7 DEF StepDown, Goto
    <3> QED BY <1>0, <3>1, <3>2 DEF ProcessOK
  <2>2. \A q \in Proc : pc[q] = "down" => q = p
    BY <1>7 DEF StepDown
  <2> QED BY <1>2, <1>7, <2>1, <2>2 DEF StepDown, Goto
<1>8. ASSUME NEW p \in Proc, Begin(p) PROVE VersionInv'
  <2>1. \A q \in Proc : pc[q] # "down" /\ pc[q] \notin InTransaction
    <3>1. pc[p] = "steps" /\ lock = NoProc
      BY <1>8 DEF Begin
    <3>2. ASSUME NEW q \in Proc, pc[q] \in InTransaction PROVE FALSE
      BY <1>0, <3>1, <3>2 DEF ProcessOK
    <3>3. ASSUME NEW q \in Proc, pc[q] = "down" PROVE FALSE
      BY <1>0, <3>1, <3>3 DEF ProcessOK
    <3> QED BY <3>2, <3>3
  <2>2. VersionTells'
    BY <1>0, <1>8 DEF Begin, VersionTells
  <2>3. ProcessOK(p)'
    <3>1. /\ pc[p] = "steps" /\ file' = file
          /\ next[p] >= 1 /\ next[p] <= file.version + 1
          /\ next[p] <= Latest[p] /\ Latest[p] \in 1..MaxVersion
      BY <1>0, <1>8 DEF Begin, ProcessOK
    <3>2. CASE next[p] <= file.version
      <4>1. pc' = pc /\ next'[p] = next[p] + 1
        BY <1>8, <3>2 DEF Begin
      <4> QED BY <1>0, <3>1, <3>2, <4>1 DEF ProcessOK
    <3>3. CASE ~ (next[p] <= file.version)
      <4>1. lock' = p /\ draft' = file /\ pc'[p] = "up" /\ next' = next
        BY <1>8, <3>3 DEF Begin, Goto
      <4>2. next[p] = file.version + 1 /\ next[p] \in Step
        <5>1. next[p] \in Nat /\ file.version \in Nat /\ Latest[p] \in Nat /\ MaxVersion \in Nat
          BY <1>0
        <5>2. next[p] <= MaxVersion /\ next[p] = file.version + 1
          BY <3>1, <3>3, <5>1
        <5> QED BY <3>1, <5>1, <5>2 DEF Step
      <4> QED BY <3>1, <4>1, <4>2 DEF ProcessOK, DraftOK
    <3> QED BY <3>2, <3>3
  <2>4. ASSUME NEW q \in Proc, q # p PROVE ProcessOK(q)'
    BY <1>0, <1>8, <2>1, <2>4 DEF Begin, Goto, ProcessOK
  <2> QED BY <2>2, <2>3, <2>4 DEF VersionInv
(* Steps of an open transaction.                                            *)
<1>9. ASSUME NEW p \in Proc, lock = p,
             UNCHANGED file, pc' = [pc EXCEPT ![p] = pc'[p]], pc[p] # "closed",
             UNCHANGED next, ProcessOK(p)'
      PROVE  VersionInv'
  <2>1. VersionTells'
    BY <1>0, <1>9 DEF VersionTells
  <2>2. ASSUME NEW q \in Proc, q # p PROVE ProcessOK(q)'
    BY <1>0, <1>9, <2>2 DEF ProcessOK
  <2> QED BY <1>9, <2>1, <2>2 DEF VersionInv
<1>10. ASSUME NEW p \in Proc, Up(p) PROVE VersionInv'
  <2>1. lock = p /\ DraftOK(p) /\ draft = file
    BY <1>0, <1>10 DEF Up, ProcessOK, DraftOK
  <2> DEFINE changed == [draft EXCEPT !.ran[next[p]] = @ + 1]
             late == draft.columns \union (Table \ draft.tables)
             added == [changed EXCEPT !.columns = late]
  <2>2. /\ changed \in Database
        /\ changed.ran = [draft.ran EXCEPT ![next[p]] = draft.ran[next[p]] + 1]
        /\ changed.tables = draft.tables /\ changed.columns = draft.columns
    <3> DEFINE once == [draft.ran EXCEPT ![next[p]] = draft.ran[next[p]] + 1]
    <3>1. changed = [draft EXCEPT !.ran = once]
      OBVIOUS
    <3>2. changed \in Database
      BY Changed
    <3> HIDE DEF changed, once
    <3>3. changed.ran = once /\ changed.tables = draft.tables /\ changed.columns = draft.columns
      BY <3>1, Kept
    <3> QED BY <3>2, <3>3 DEF once
  <2> HIDE DEF changed
  <2>3. changed.ran = Done(next[p])
    <3>1. /\ next[p] = file.version + 1
          /\ file.version + 1 \in Step
          /\ draft.ran = Done(file.version)
      BY <1>0, <2>1 DEF DraftOK, VersionTells
    <3>2. changed.ran = [Done(file.version) EXCEPT ![file.version + 1] = Done(file.version)[file.version + 1] + 1]
      BY <2>2, <3>1
    <3> QED BY <1>0, <3>1, <3>2, DoneUp
  <2>4. /\ next[p] # baselineVersion => draft' = changed
        /\ next[p] = baselineVersion => draft' = [added EXCEPT !.tables = Table]
    BY <1>10 DEF Up, changed
  <2>5. added \in Database /\ added.ran = changed.ran
    <3>1. late \in SUBSET Table
      BY Fields
    <3> HIDE DEF late
    <3>2. added \in Database
      BY <2>2, <3>1, Changed
    <3> QED BY <2>2, <3>2, Kept
  <2> HIDE DEF added
  <2>6. [added EXCEPT !.tables = Table].tables = Table /\ [added EXCEPT !.tables = Table].ran = added.ran
    BY <2>5, Kept
  <2>7. next[p] # baselineVersion => file.tables = Table /\ file.columns = Table
    BY <1>0, <2>1 DEF DraftOK, VersionTells, baselineVersion
  <2>8. /\ draft'.ran = Done(next[p])
        /\ draft'.tables = Table
        /\ next[p] # baselineVersion => draft'.columns = Table
    BY <2>1, <2>2, <2>3, <2>4, <2>5, <2>6, <2>7
  <2>9. ProcessOK(p)'
    BY <1>10, <2>1, <2>8 DEF Up, Goto, ProcessOK, DraftOK
  <2> QED BY <1>9, <1>10, <2>1, <2>9 DEF Up, Goto
<1>11. ASSUME NEW p \in Proc, AddColumns(p) \/ Stamp(p) PROVE VersionInv'
  <2>1. lock = p /\ DraftOK(p)
    BY <1>0, <1>11 DEF AddColumns, Stamp, ProcessOK
  <2>2. ProcessOK(p)'
    BY <1>11, <2>1 DEF AddColumns, Stamp, Goto, ProcessOK, DraftOK, Database
  <2> QED BY <1>9, <1>11, <2>1, <2>2 DEF AddColumns, Stamp, Goto
<1>12. ASSUME NEW p \in Proc, Fails(p) PROVE VersionInv'
  <2>1. lock = p /\ VersionTells'
    BY <1>0, <1>12 DEF Fails, ProcessOK, VersionTells
  <2>2. ASSUME NEW q \in Proc PROVE ProcessOK(q)'
    BY <1>0, <1>12, <2>1 DEF Fails, Goto, ProcessOK
  <2> QED BY <2>1, <2>2 DEF VersionInv
<1>13. ASSUME NEW p \in Proc, Commit(p) PROVE VersionInv'
  <2>1. lock = p /\ DraftOK(p)
    BY <1>0, <1>13 DEF Commit, ProcessOK
  <2>2. VersionTells'
    BY <1>13, <2>1 DEF Commit, DraftOK, VersionTells
  <2>3. file'.version = next[p] /\ file.version < next[p]
    BY <1>0, <1>13, <2>1 DEF Commit, DraftOK
  <2>4. ProcessOK(p)'
    BY <1>13, <2>3 DEF Commit, Goto, ProcessOK
  <2>5. ASSUME NEW q \in Proc, q # p PROVE ProcessOK(q)'
    BY <1>0, <1>13, <2>1, <2>3, <2>5 DEF Commit, Goto, ProcessOK
  <2> QED BY <2>2, <2>4, <2>5 DEF VersionInv
<1>14. ASSUME NEW p \in Proc, Down(p) PROVE VersionInv'
  <2>1. /\ pc' = pc
        /\ pc[p] = "down" /\ next[p] \in Nat \ {0} /\ next'[p] = next[p] - 1
        /\ next[p] >= file.version /\ next[p] <= MaxVersion
        /\ \A q \in Proc \ {p} : pc[q] = "closed"
    BY <1>0, <1>14 DEF Down, ProcessOK
  <2>2. CASE next[p] > file.version
    <3>1. UNCHANGED file
      BY <1>14, <2>2 DEF Down
    <3> QED BY <1>0, <2>1, <2>2, <3>1 DEF VersionInv, VersionTells, ProcessOK
  <2>3. CASE next[p] = file.version
    <3> DEFINE back == [file EXCEPT !.version = next[p] - 1]
               undone == [back EXCEPT !.ran[next[p]] = @ - 1]
               noTables == [undone EXCEPT !.tables = {}]
               noColumns == [noTables EXCEPT !.columns = {}]
               empty == [noColumns EXCEPT !.rows = {}]
    <3>1. /\ next[p] = baselineVersion => file' = empty
          /\ next[p] # baselineVersion => file' = undone
      <4>1. ~ (next[p] > file.version)
        BY <1>0, <2>3
      <4> QED BY <1>14, <4>1 DEF Down
    <3>2. /\ back \in Database /\ back.ran = file.ran /\ back.version = next[p] - 1
          /\ back.tables = file.tables /\ back.columns = file.columns
      <4>1. next[p] - 1 \in Nat /\ next[p] \in Nat /\ {} \in SUBSET Table
        BY <2>1
      <4>2. back \in Database
        BY <4>1, Changed
      <4> QED BY <4>2, Kept
    <3> HIDE DEF back
    <3>3. /\ undone \in Database
          /\ undone.ran = [back.ran EXCEPT ![next[p]] = back.ran[next[p]] - 1]
          /\ undone.version = back.version /\ undone.tables = back.tables
          /\ undone.columns = back.columns
      <4> DEFINE less == [back.ran EXCEPT ![next[p]] = back.ran[next[p]] - 1]
      <4>1. undone = [back EXCEPT !.ran = less]
        OBVIOUS
      <4>2. undone \in Database
        BY <2>1, <3>2, Changed
      <4> HIDE DEF undone, less
      <4>3. /\ undone.ran = less /\ undone.version = back.version
            /\ undone.tables = back.tables /\ undone.columns = back.columns
        BY <3>2, <4>1, Kept
      <4> QED BY <4>2, <4>3 DEF less
    <3> HIDE DEF undone
    <3>4. noTables \in Database /\ noTables.ran = undone.ran /\ noTables.version = undone.version
      BY <3>3, Changed, Kept
    <3> HIDE DEF noTables
    <3>5. noColumns \in Database /\ noColumns.ran = noTables.ran /\ noColumns.version = noTables.version
      BY <3>4, Changed, Kept
    <3> HIDE DEF noColumns
    <3>6. empty.ran = noColumns.ran /\ empty.version = noColumns.version
      BY <3>5, Kept
    <3> HIDE DEF empty
    <3>7. /\ file'.version = next[p] - 1
          /\ file'.ran = [file.ran EXCEPT ![next[p]] = file.ran[next[p]] - 1]
          /\ next[p] # baselineVersion => file'.tables = file.tables /\ file'.columns = file.columns
      BY <3>1, <3>2, <3>3, <3>4, <3>5, <3>6
    <3>8. file'.ran = Done(next[p] - 1)
      BY <1>0, <2>1, <2>3, <3>7, DoneDown DEF VersionTells, Step
    <3>9. VersionTells'
      BY <1>0, <2>1, <2>3, <3>7, <3>8 DEF VersionTells, baselineVersion
    <3> QED BY <2>1, <3>7, <3>9 DEF VersionInv, ProcessOK
  <2> QED BY <1>0, <2>1, <2>2, <2>3
<1> QED BY <1>1, <1>3, <1>4, <1>5, <1>6, <1>7, <1>8, <1>10, <1>11, <1>12, <1>13, <1>14 DEF Next

(* The invariant holds of a file from before versions existed.             *)
LEMMA VersionStart == Init => VersionInv
<1> SUFFICES ASSUME Init PROVE VersionInv
  OBVIOUS
<1>1. file.version = 0 /\ file.ran = [v \in Step |-> 0]
  BY DEF Init
<1>2. VersionTells
  BY <1>1, LatestAssumption DEF VersionTells, Done, Step, baselineVersion
<1>3. ASSUME NEW p \in Proc PROVE ProcessOK(p)
  BY DEF Init, ProcessOK, InTransaction
<1> QED BY <1>2, <1>3 DEF VersionInv

(* The number a file carries says which migrations have taken effect on it, *)
(* each of them once, however many processes of whatever builds open it at  *)
(* the same time and wherever they fail.                                   *)
THEOREM VersionIsTrue == Spec => []VersionTells
<1>1. VersionInv => VersionTells
  BY DEF VersionInv
<1> QED BY <1>1, VersionStart, InvStep, TypeCorrect, PTL DEF Spec

-----------------------------------------------------------------------------
(* A change to another field leaves the rows.                               *)
LEMMA RowsKept ==
  ASSUME NEW d \in Database, NEW x
  PROVE  /\ [d EXCEPT !.version = x].rows = d.rows
         /\ [d EXCEPT !.tables = x].rows = d.rows
         /\ [d EXCEPT !.columns = x].rows = d.rows
         /\ [d EXCEPT !.ran = x].rows = d.rows
         /\ [d EXCEPT !.rows = x].rows = x
BY DEF Database

(* The script of a step leaves the rows as they are.                        *)
LEMMA UpRows ==
  ASSUME TypeOK, NEW p \in Proc, Up(p)
  PROVE  draft'.rows = draft.rows
<1> DEFINE once == [draft.ran EXCEPT ![next[p]] = draft.ran[next[p]] + 1]
           changed == [draft EXCEPT !.ran = once]
           late == draft.columns \union (Table \ draft.tables)
           added == [changed EXCEPT !.columns = late]
<1>1. changed \in Database /\ changed.rows = draft.rows
  <2>1. draft \in Database /\ next[p] \in Nat
    BY DEF TypeOK
  <2>2. changed = [draft EXCEPT !.ran[next[p]] = @ + 1]
    OBVIOUS
  <2> QED BY <2>1, <2>2, Changed, RowsKept
<1>2. /\ next[p] # baselineVersion => draft' = changed
      /\ next[p] = baselineVersion => draft' = [added EXCEPT !.tables = Table]
  BY DEF Up
<1>3. late \in SUBSET Table
  BY Fields DEF TypeOK
<1> HIDE DEF changed, late
<1>4. added \in Database /\ added.rows = changed.rows
  BY <1>1, <1>3, Changed, RowsKept
<1> HIDE DEF added
<1>5. [added EXCEPT !.tables = Table].rows = added.rows
  BY <1>4, RowsKept
<1> QED BY <1>1, <1>2, <1>4, <1>5

(* A step back takes the rows only together with the memory of them.        *)
LEMMA DownRows ==
  ASSUME TypeOK, NEW p \in Proc, Down(p), file.rows = before
  PROVE  file'.rows = before'
<1> DEFINE less == [file.ran EXCEPT ![next[p]] = file.ran[next[p]] - 1]
           back == [file EXCEPT !.version = next[p] - 1]
           undone == [back EXCEPT !.ran = less]
           noTables == [undone EXCEPT !.tables = {}]
           noColumns == [noTables EXCEPT !.columns = {}]
           empty == [noColumns EXCEPT !.rows = {}]
<1>1. CASE next[p] > file.version
  BY <1>1 DEF Down
<1>2. CASE ~ (next[p] > file.version)
  <2>1. file \in Database /\ next[p] \in Nat \ {0} /\ next[p] - 1 \in Nat
    BY DEF Down, TypeOK
  <2>2. back \in Database /\ back.rows = before /\ back.ran = file.ran
    BY <2>1, Changed, RowsKept, Kept
  <2>3. undone = [back EXCEPT !.ran[next[p]] = @ - 1]
    BY <2>2
  <2>4. /\ next[p] = baselineVersion => file' = empty /\ before' = {}
        /\ next[p] # baselineVersion => file' = undone /\ before' = before
    BY <1>2, <2>1 DEF Down, Database
  <2> HIDE DEF back, less
  <2>5. undone \in Database /\ undone.rows = before
    BY <2>1, <2>2, <2>3, Changed, RowsKept
  <2> HIDE DEF undone
  <2>6. noTables \in Database
    BY <2>1, <2>5, Changed
  <2> HIDE DEF noTables
  <2>7. noColumns \in Database
    BY <2>1, <2>6, Changed
  <2> HIDE DEF noColumns
  <2>8. empty.rows = {}
    BY <2>7, RowsKept
  <2> QED BY <2>4, <2>5, <2>8
<1> QED BY <1>1, <1>2

(* Only a step back lowers the version, with the file to itself.            *)
LEMMA VersionRises ==
  ASSUME TypeOK, VersionInv, [Next]_vars
  PROVE  \/ file'.version >= file.version
         \/ \E p \in Proc : Down(p) /\ \A q \in Proc : pc'[q] # "open"
<1> USE NoProcAssumption, LatestAssumption DEF InTransaction
<1>0. file.version \in Nat /\ \A q \in Proc : ProcessOK(q)
  BY Fields DEF TypeOK, VersionInv
<1>1. CASE file' = file
  BY <1>0, <1>1
<1>2. ASSUME NEW p \in Proc, Commit(p) PROVE file'.version >= file.version
  BY <1>0, <1>2 DEF Commit, ProcessOK, DraftOK
<1>3. ASSUME NEW p \in Proc, Down(p) PROVE \A q \in Proc : pc'[q] # "open"
  BY <1>0, <1>3 DEF Down, ProcessOK
<1>4. ASSUME NEW p \in Proc,
             Open(p) \/ SwitchToWAL(p) \/ WALRefused(p) \/ ReadVersion(p) \/ Begin(p) \/ Opened(p)
               \/ Up(p) \/ AddColumns(p) \/ Stamp(p) \/ Fails(p) \/ Close(p) \/ StepDown(p)
               \/ Reversed(p)
      PROVE  file' = file
  BY <1>4 DEF Open, SwitchToWAL, WALRefused, ReadVersion, Begin, Opened, Up, AddColumns, Stamp,
              Fails, Close, StepDown, Reversed
<1> QED BY <1>1, <1>2, <1>3, <1>4 DEF Next, vars

(* Every step keeps the rows and what was opened.                           *)
LEMMA CurrentStep ==
  ASSUME TypeOK, TypeOK', VersionInv, CurrentInv, [Next]_vars
  PROVE  CurrentInv'
<1> USE NoProcAssumption, LatestAssumption DEF TypeOK, InTransaction
<1>0. /\ file.version \in Nat /\ file'.version \in Nat /\ draft \in Database
      /\ \A q \in Proc : ProcessOK(q) /\ Latest[q] \in Nat
  BY Fields DEF VersionInv
<1>1. ASSUME NEW q \in Proc, pc'[q] = "open" PROVE file'.version >= Latest[q]
  <2>1. file'.version >= file.version
    BY <1>1, VersionRises
  <2>2. CASE pc[q] = "open"
    BY <1>0, <2>1, <2>2 DEF CurrentInv
  <2>3. CASE pc[q] # "open"
    <3>1. \A p \in Proc : pc'[q] = pc[q] \/ (Opened(q) /\ file' = file) \/ ~ Opened(p)
      BY DEF Opened, Goto
    <3>2. Opened(q)
      <4>1. ASSUME NEW p \in Proc, Open(p) \/ SwitchToWAL(p) \/ WALRefused(p) \/ ReadVersion(p)
              \/ Begin(p) \/ Up(p) \/ AddColumns(p) \/ Stamp(p) \/ Commit(p) \/ Fails(p)
              \/ Close(p) \/ StepDown(p) \/ Down(p) \/ Reversed(p)
            PROVE FALSE
        <5>1. CASE Open(p) \/ SwitchToWAL(p) \/ WALRefused(p) \/ ReadVersion(p) \/ Begin(p)
          BY <1>1, <2>3, <5>1 DEF Open, SwitchToWAL, WALRefused, ReadVersion, Begin, Goto
        <5>2. CASE Up(p) \/ AddColumns(p) \/ Stamp(p) \/ Commit(p) \/ Fails(p)
          BY <1>1, <2>3, <5>2 DEF Up, AddColumns, Stamp, Commit, Fails, Goto
        <5>3. CASE Close(p) \/ StepDown(p) \/ Down(p) \/ Reversed(p)
          BY <1>1, <2>3, <5>3 DEF Close, StepDown, Down, Reversed, Goto
        <5> QED BY <4>1, <5>1, <5>2, <5>3
      <4> QED BY <1>1, <2>3, <3>1, <4>1 DEF Next, vars
    <3>3. file' = file /\ next[q] > Latest[q] /\ next[q] <= file.version + 1 /\ next[q] \in Nat
      BY <1>0, <3>2 DEF Opened, ProcessOK
    <3> QED BY <1>0, <3>3
  <2> QED BY <2>2, <2>3
<1> DEFINE Rows == file.rows = before /\ \A q \in Proc : pc[q] \in InTransaction => draft.rows = before
<1>2. ASSUME UNCHANGED <<file, draft, before>>,
             \A q \in Proc : pc'[q] \in InTransaction => pc[q] \in InTransaction
      PROVE  Rows'
  BY <1>2 DEF CurrentInv
<1>3. ASSUME NEW p \in Proc, Open(p) \/ SwitchToWAL(p) \/ WALRefused(p) \/ ReadVersion(p)
               \/ Opened(p) \/ Close(p) \/ StepDown(p) \/ Reversed(p)
      PROVE  Rows'
  <2>1. CASE Open(p) \/ SwitchToWAL(p) \/ WALRefused(p) \/ ReadVersion(p)
    BY <1>2, <2>1 DEF Open, SwitchToWAL, WALRefused, ReadVersion, Goto
  <2>2. CASE Opened(p) \/ Close(p) \/ StepDown(p) \/ Reversed(p)
    BY <1>2, <2>2 DEF Opened, Close, StepDown, Reversed, Goto
  <2> QED BY <1>3, <2>1, <2>2
<1>4. ASSUME NEW p \in Proc, Begin(p) PROVE Rows'
  <2>1. \A q \in Proc : pc[q] \notin InTransaction
    BY <1>0, <1>4 DEF Begin, ProcessOK
  <2> QED BY <1>4, <2>1 DEF Begin, Goto, CurrentInv
<1>5. ASSUME NEW p \in Proc, Up(p) \/ AddColumns(p) \/ Stamp(p) PROVE Rows'
  <2>1. draft'.rows = draft.rows
    <3>1. CASE Up(p)
      BY <3>1, UpRows
    <3>2. CASE AddColumns(p) \/ Stamp(p)
      <4>1. /\ [draft EXCEPT !.columns = Table].rows = draft.rows
            /\ [draft EXCEPT !.version = next[p]].rows = draft.rows
        BY <1>0, RowsKept
      <4>2. \/ draft' = [draft EXCEPT !.columns = Table]
            \/ draft' = [draft EXCEPT !.version = next[p]]
        BY <3>2 DEF AddColumns, Stamp
      <4> QED BY <4>1, <4>2
    <3> QED BY <1>5, <3>1, <3>2
  <2>2. pc[p] \in InTransaction /\ UNCHANGED <<file, before>> /\ pc' = [pc EXCEPT ![p] = pc'[p]]
    BY <1>5 DEF Up, AddColumns, Stamp, Goto
  <2> QED BY <2>1, <2>2 DEF CurrentInv
<1>6. ASSUME NEW p \in Proc, Commit(p) \/ Fails(p) PROVE Rows'
  <2>1. \A q \in Proc : pc[q] \in InTransaction => q = p
    BY <1>0, <1>6 DEF Commit, Fails, ProcessOK
  <2> QED BY <1>6, <2>1 DEF Commit, Fails, Goto, CurrentInv
<1>7. ASSUME NEW p \in Proc, Down(p) PROVE Rows'
  <2>1. \A q \in Proc : pc'[q] \notin InTransaction
    BY <1>0, <1>7 DEF Down, ProcessOK
  <2>2. file'.rows = before'
    BY <1>7, DownRows DEF CurrentInv
  <2> QED BY <2>1, <2>2
<1>8. ASSUME UNCHANGED vars PROVE Rows'
  <2>1. UNCHANGED <<file, draft, before>> /\ pc' = pc
    BY <1>8 DEF vars
  <2> QED BY <2>1 DEF CurrentInv
<1> HIDE DEF Rows
<1>9. Rows'
  <2>1. CASE Next
    <3>1. PICK p \in Proc :
            \/ Open(p) \/ SwitchToWAL(p) \/ WALRefused(p) \/ ReadVersion(p) \/ Begin(p) \/ Opened(p)
            \/ Up(p) \/ AddColumns(p) \/ Stamp(p) \/ Commit(p) \/ Fails(p) \/ Close(p)
            \/ StepDown(p) \/ Down(p) \/ Reversed(p)
      BY <2>1 DEF Next
    <3> QED BY <3>1, <1>3, <1>4, <1>5, <1>6, <1>7
  <2>2. Next \/ UNCHANGED vars
    OBVIOUS
  <2> QED BY <2>1, <2>2, <1>8
<1> QED BY <1>1, <1>9 DEF CurrentInv, Rows

(* A store that was opened has every migration its build knows, once, and   *)
(* the rows that were there before versions were, whatever others do to the *)
(* file meanwhile.                                                         *)
THEOREM OpenedStaysCurrent == Spec => []OpenedIsCurrent
<1>1. Init => VersionInv /\ CurrentInv
  BY VersionStart DEF Init, CurrentInv, InTransaction
<1>2. TypeOK /\ VersionInv /\ CurrentInv => OpenedIsCurrent
  <2> SUFFICES ASSUME TypeOK, VersionInv, CurrentInv,
                      NEW p \in Proc, pc[p] = "open", NEW v \in 1..Latest[p]
               PROVE  file.ran[v] = 1 /\ file.rows = before
    BY DEF OpenedIsCurrent, CurrentInv
  <2>1. /\ file.version \in Nat /\ file.version >= Latest[p] /\ Latest[p] \in 1..MaxVersion
        /\ file.ran = Done(file.version) /\ MaxVersion \in Nat
    BY Fields, LatestAssumption DEF TypeOK, CurrentInv, VersionInv, VersionTells
  <2> QED BY <2>1 DEF CurrentInv, Done, Step
<1> QED BY <1>1, <1>2, InvStep, CurrentStep, TypeCorrect, PTL DEF Spec
=============================================================================
