------------------------- MODULE VectorIndex_proofs -------------------------
(* What the vector files keep, for any number of records, models, callers   *)
(* and faults.                                                             *)
EXTENDS VectorIndex, TLAPS

(* The files, the memory and the goroutines keep their types.               *)
THEOREM TypeCorrect == Spec => []TypeOK
<1> USE NoneAssumption, SilentAssumption, BoundAssumption
    DEF TypeOK, Vector, files, memory, caller, history
<1>1. Init => TypeOK
  <2> SUFFICES ASSUME Init PROVE TypeOK
    OBVIOUS
  <2>1. /\ base \in [Record -> Vector]
        /\ delta \in [Record -> Vector \union {Silent}]
        /\ latest \in [Record -> Vector \union {Silent}]
        /\ tried \in [Record -> SUBSET Vector]
        /\ copy \in [Caller -> [Record -> Vector]]
    BY DEF Init, Empty, Unsaid
  <2>2. /\ pc \in [Caller -> {"idle", "add", "hydrate", "install", "truncate"}]
        /\ rec \in [Caller -> Record \union {None}]
        /\ \A c \in Caller : pc[c] # "add"
    BY DEF Init
  <2>3. faults \in 0..MaxFaults
    BY DEF Init
  <2> QED BY <2>1, <2>2, <2>3 DEF Init
<1>2. TypeOK /\ [Next]_vars => TypeOK'
  <2> SUFFICES ASSUME TypeOK, [Next]_vars PROVE TypeOK'
    OBVIOUS
  <2>1. CASE UNCHANGED vars
    BY <2>1 DEF vars
  <2>2. ASSUME NEW c \in Caller, NEW r \in Record, NEW m \in Vector, Append(c, r, m)
        PROVE  /\ delta' \in [Record -> Vector \union {Silent}]
               /\ latest' \in [Record -> Vector \union {Silent}]
               /\ tried' \in [Record -> SUBSET Vector]
               /\ exposed' \subseteq Record
               /\ UNCHANGED <<base, broken, up, model, index, copy, faults>>
    BY <2>2 DEF Append, Line
  <2>3. ASSUME NEW c \in Caller, NEW r \in Record, PutVector(c, r) PROVE TypeOK'
    <3>1. Append(c, r, model) /\ model \in Vector
      BY <2>3 DEF PutVector
    <3>2. /\ pc' \in [Caller -> {"idle", "add", "hydrate", "install", "truncate"}]
          /\ rec' \in [Caller -> Record \union {None}]
          /\ \A d \in Caller : pc'[d] = "add" => rec'[d] \in Record
      BY <2>3 DEF PutVector, Goto
    <3> QED BY <2>2, <3>1, <3>2
  <2>4. ASSUME NEW c \in Caller, NEW r \in Record, Remove(c, r) PROVE TypeOK'
    <3>1. Append(c, r, None) /\ None \in Vector /\ UNCHANGED <<pc, rec>>
      BY <2>4 DEF Remove
    <3> QED BY <2>2, <3>1
  <2>5. ASSUME NEW c \in Caller, NEW r \in Record, NEW m \in {model, None}, AppendFails(c, r, m)
        PROVE  TypeOK'
    <3>1. faults' \in 0..MaxFaults /\ UNCHANGED <<base, memory, caller, latest, exposed>>
      BY <2>5 DEF AppendFails
    <3>2. m \in Vector
      OBVIOUS
    <3>3. broken' \in BOOLEAN
      BY <2>5 DEF AppendFails
    <3>4. delta' \in [Record -> Vector \union {Silent}]
      <4>1. delta' = delta \/ delta' = [delta EXCEPT ![r] = m]
        BY <2>5 DEF AppendFails, Line
      <4> QED BY <3>2, <4>1
    <3>5. tried' \in [Record -> SUBSET Vector]
      <4>1. tried' = tried \/ tried' = [tried EXCEPT ![r] = @ \union {m}]
        BY <2>5 DEF AppendFails
      <4> QED BY <3>2, <4>1
    <3> QED BY <3>1, <3>3, <3>4, <3>5
  <2>6. ASSUME NEW c \in Caller, IndexAdd(c) PROVE TypeOK'
    <3>1. index' \subseteq Record /\ rec' = [rec EXCEPT ![c] = None]
      BY <2>6 DEF IndexAdd
    <3>2. PICK stage \in {"idle", "hydrate"} : pc' = [pc EXCEPT ![c] = stage]
      BY <2>6 DEF IndexAdd, Goto
    <3>3. \A d \in Caller : pc'[d] = "add" => rec'[d] \in Record
      BY <3>1, <3>2
    <3> QED BY <2>6, <3>1, <3>2, <3>3 DEF IndexAdd
  <2>7. ASSUME NEW c \in Caller, CompactIndex(c) PROVE TypeOK'
    BY <2>7 DEF CompactIndex, Goto
  <2>8. ASSUME NEW c \in Caller, Hydrate(c) PROVE TypeOK'
    <3>1. Hydrated \in [Record -> Vector]
      BY DEF Hydrated
    <3> QED BY <2>8, <3>1 DEF Hydrate, Goto
  <2>9. ASSUME NEW c \in Caller, Install(c) PROVE TypeOK'
    BY <2>9 DEF Install, Goto
  <2>10. ASSUME NEW c \in Caller, Truncate(c) PROVE TypeOK'
    BY <2>10 DEF Truncate, Goto, Unsaid, Empty
  <2>11. ASSUME NEW c \in Caller, CompactFails(c) PROVE TypeOK'
    <3>1. faults' \in 0..MaxFaults
      BY <2>11 DEF CompactFails
    <3> QED BY <2>11, <3>1 DEF CompactFails, Goto, Empty
  <2>12. ASSUME Close \/ Crash PROVE TypeOK'
    <3>1. Stop /\ faults' \in 0..MaxFaults
      BY <2>12 DEF Close, Crash
    <3> QED BY <3>1 DEF Stop, Empty
  <2>13. ASSUME NEW m \in Model, Open(m) PROVE TypeOK'
    BY <2>13 DEF Open
  <2> QED BY <2>1, <2>3, <2>4, <2>5, <2>6, <2>7, <2>8, <2>9, <2>10, <2>11, <2>12, <2>13 DEF Next
<1> QED BY <1>1, <1>2, PTL DEF Spec

-----------------------------------------------------------------------------
(* The invariant of the folds.                                              *)
KeepInv == VectorsSurvive /\ FoldInv

(* A line that can be read is what a hydration reads; what a fold reads and *)
(* the base it makes follow.                                               *)
LEMMA KeepStep == TypeOK /\ TypeOK' /\ KeepInv /\ [Next]_vars => KeepInv'
<1> SUFFICES ASSUME TypeOK, TypeOK', KeepInv, [Next]_vars PROVE KeepInv'
  OBVIOUS
<1> USE NoneAssumption, SilentAssumption
    DEF KeepInv, VectorsSurvive, FoldInv, Said, Promised, files, memory, caller, history
<1>1. CASE UNCHANGED vars
  BY <1>1 DEF vars, Hydrated
<1>2. ASSUME NEW c \in Caller, NEW r \in Record, NEW m \in Vector, Append(c, r, m),
             \A d \in Caller : pc'[d] \in {"install", "truncate"} => pc'[d] = pc[d]
      PROVE  KeepInv'
  <2>1. \A d \in Caller : pc'[d] # "truncate"
    BY <1>2 DEF Append, Running
  <2>2. ASSUME NEW q \in Record \ exposed', q # r PROVE Hydrated'[q] \in Said(q)'
    <3>1. q \notin exposed /\ Hydrated'[q] = Hydrated[q] /\ Said(q)' = Said(q)
      BY <1>2, <2>2 DEF Append, Line, Hydrated, TypeOK
    <3> QED BY <2>2, <3>1
  <2>3. ASSUME r \notin exposed' PROVE Hydrated'[r] \in Said(r)'
    <3>1. ~ broken
      BY <1>2, <2>3 DEF Append, TypeOK
    <3>2. delta'[r] = m /\ latest'[r] = m
      BY <1>2, <3>1 DEF Append, Line, TypeOK
    <3>3. m # Silent
      BY DEF Vector
    <3> QED BY <3>2, <3>3 DEF Hydrated
  <2>4. ASSUME NEW d \in Caller, pc'[d] = "install", NEW q \in Record \ exposed'
        PROVE  copy'[d][q] \in Said(q)'
    <3>1. pc[d] = "install" /\ d # c
      BY <1>2, <2>4 DEF Append, Running
    <3>2. q # r
      BY <1>2, <2>4, <3>1 DEF Append, Folding, TypeOK
    <3>3. q \notin exposed /\ copy' = copy /\ Said(q)' = Said(q)
      BY <1>2, <2>4, <3>2 DEF Append, TypeOK
    <3> QED BY <2>4, <3>1, <3>3
  <2> QED BY <2>1, <2>2, <2>3, <2>4
<1>3. ASSUME NEW c \in Caller, NEW r \in Record, PutVector(c, r) PROVE KeepInv'
  <2>1. Append(c, r, model) /\ model \in Vector
    BY <1>3 DEF PutVector, TypeOK, Vector
  <2>2. \A d \in Caller : pc'[d] \in {"install", "truncate"} => pc'[d] = pc[d]
    BY <1>3 DEF PutVector, Goto, TypeOK
  <2> QED BY <1>2, <2>1, <2>2
<1>4. ASSUME NEW c \in Caller, NEW r \in Record, Remove(c, r) PROVE KeepInv'
  <2>1. Append(c, r, None) /\ None \in Vector /\ pc' = pc
    BY <1>4 DEF Remove, Vector
  <2> QED BY <1>2, <2>1
<1>5. ASSUME NEW c \in Caller, NEW r \in Record, NEW m \in {model, None}, AppendFails(c, r, m)
      PROVE  KeepInv'
  <2>1. UNCHANGED <<base, copy, pc, latest, exposed>>
    BY <1>5 DEF AppendFails
  <2>2. \A q \in Record : Said(q) \subseteq Said(q)'
    BY <1>5, <2>1 DEF AppendFails, TypeOK
  <2>3. ASSUME NEW q \in Record PROVE Hydrated'[q] \in {Hydrated[q]} \union tried'[q]
    <3>1. CASE delta' = delta
      BY <2>1, <3>1 DEF Hydrated
    <3>2. CASE delta' = [delta EXCEPT ![r] = m] /\ tried' = [tried EXCEPT ![r] = @ \union {m}]
      <4>1. m # Silent
        BY DEF TypeOK
      <4> QED BY <2>1, <3>2, <4>1 DEF Hydrated, TypeOK
    <3> QED BY <1>5, <3>1, <3>2 DEF AppendFails, Line
  <2>4. ASSUME NEW q \in Record \ exposed' PROVE Hydrated'[q] \in Said(q)'
    BY <2>1, <2>2, <2>3, <2>4
  <2>5. \A d \in Caller : pc'[d] \in {"install", "truncate"} =>
          /\ \A q \in Record \ exposed' : copy'[d][q] \in Said(q)'
          /\ pc'[d] = "truncate" => base' = copy'[d]
    BY <2>1, <2>2
  <2> QED BY <2>4, <2>5
<1>6. ASSUME NEW c \in Caller, IndexAdd(c) \/ CompactIndex(c) PROVE KeepInv'
  <2>1. /\ UNCHANGED <<base, delta, copy, latest, tried, exposed>>
        /\ \A d \in Caller : pc'[d] \in {"install", "truncate"} => pc'[d] = pc[d]
    BY <1>6 DEF IndexAdd, CompactIndex, Goto, TypeOK
  <2> QED BY <2>1 DEF Hydrated
<1>7. ASSUME NEW c \in Caller, Hydrate(c) PROVE KeepInv'
  <2>1. /\ UNCHANGED <<base, delta, latest, tried, exposed>>
        /\ copy' = [copy EXCEPT ![c] = Hydrated] /\ pc' = [pc EXCEPT ![c] = "install"]
    BY <1>7 DEF Hydrate, Goto
  <2>2. Hydrated' = Hydrated
    BY <2>1 DEF Hydrated
  <2>3. ASSUME NEW d \in Caller, pc'[d] \in {"install", "truncate"}
        PROVE  /\ \A q \in Record \ exposed' : copy'[d][q] \in Said(q)'
               /\ pc'[d] = "truncate" => base' = copy'[d]
    BY <2>1, <2>3 DEF TypeOK
  <2> QED BY <2>1, <2>2, <2>3
<1>8. ASSUME NEW c \in Caller, Install(c) PROVE KeepInv'
  <2>1. /\ UNCHANGED <<delta, copy, latest, tried, exposed>>
        /\ base' = copy[c] /\ pc' = [pc EXCEPT ![c] = "truncate"] /\ pc[c] = "install"
        /\ \A d \in Caller \ {c} : pc[d] # "truncate"
    BY <1>8 DEF Install, Goto, Running
  <2>2. ASSUME NEW q \in Record \ exposed' PROVE Hydrated'[q] \in Said(q)'
    <3>1. Hydrated'[q] = IF delta[q] = Silent THEN copy[c][q] ELSE Hydrated[q]
      BY <2>1 DEF Hydrated
    <3> QED BY <2>1, <2>2, <3>1
  <2>3. ASSUME NEW d \in Caller, pc'[d] \in {"install", "truncate"}
        PROVE  /\ \A q \in Record \ exposed' : copy'[d][q] \in Said(q)'
               /\ pc'[d] = "truncate" => base' = copy'[d]
    BY <2>1, <2>3 DEF TypeOK
  <2> QED BY <2>2, <2>3
<1>9. ASSUME NEW c \in Caller, Truncate(c) PROVE KeepInv'
  <2>1. /\ UNCHANGED <<base, latest, tried, exposed>>
        /\ delta' = Unsaid /\ pc[c] = "truncate" /\ pc' = [pc EXCEPT ![c] = "idle"]
        /\ copy' = [copy EXCEPT ![c] = Empty]
        /\ \A d \in Caller \ {c} : pc[d] # "truncate"
    BY <1>9 DEF Truncate, Goto, Running
  <2>2. ASSUME NEW q \in Record \ exposed' PROVE Hydrated'[q] \in Said(q)'
    <3>1. Hydrated'[q] = copy[c][q]
      BY <2>1 DEF Hydrated, Unsaid
    <3> QED BY <2>1, <2>2, <3>1
  <2>3. ASSUME NEW d \in Caller, pc'[d] \in {"install", "truncate"}
        PROVE  /\ \A q \in Record \ exposed' : copy'[d][q] \in Said(q)'
               /\ pc'[d] = "truncate" => base' = copy'[d]
    BY <2>1, <2>3 DEF TypeOK
  <2> QED BY <2>2, <2>3
<1>10. ASSUME NEW c \in Caller, CompactFails(c) PROVE KeepInv'
  <2>1. /\ UNCHANGED <<base, delta, latest, tried, exposed>>
        /\ pc' = [pc EXCEPT ![c] = "idle"] /\ copy' = [copy EXCEPT ![c] = Empty]
    BY <1>10 DEF CompactFails, Goto
  <2>2. ASSUME NEW d \in Caller, pc'[d] \in {"install", "truncate"}
        PROVE  d # c /\ pc'[d] = pc[d] /\ copy'[d] = copy[d]
    BY <2>1, <2>2 DEF TypeOK
  <2> QED BY <2>1, <2>2 DEF Hydrated
<1>11. ASSUME Close \/ Crash PROVE KeepInv'
  <2>1. UNCHANGED <<base, delta, latest, tried, exposed>> /\ pc' = [c \in Caller |-> "idle"]
    BY <1>11 DEF Close, Crash, Stop
  <2> QED BY <2>1 DEF Hydrated
<1>12. ASSUME NEW m \in Model, Open(m) PROVE KeepInv'
  BY <1>12 DEF Open, Hydrated
<1> QED BY <1>1, <1>3, <1>4, <1>5, <1>6, <1>7, <1>8, <1>9, <1>10, <1>11, <1>12 DEF Next

(* What the vector files say of a record is what was last appended of it    *)
(* with success, or tried since, through any folds, failures and restarts.  *)
THEOREM VectorsAreKept == Spec => []VectorsSurvive
<1>1. Init => KeepInv
  BY NoneAssumption, SilentAssumption
     DEF Init, KeepInv, VectorsSurvive, FoldInv, Hydrated, Promised, Empty, Unsaid
<1>2. KeepInv => VectorsSurvive
  BY DEF KeepInv
<1> QED BY <1>1, <1>2, KeepStep, TypeCorrect, PTL DEF Spec

-----------------------------------------------------------------------------
(* A vector in memory has come from an append or from the files.            *)
SearchInv == SearchMatchesFiles /\ IndexInv

(* Every step preserves it, by what KeepInv says of the files.              *)
LEMMA SearchStep ==
  TypeOK /\ TypeOK' /\ KeepInv /\ KeepInv' /\ SearchInv /\ [Next]_vars => SearchInv'
<1> SUFFICES ASSUME TypeOK, TypeOK', KeepInv, KeepInv', SearchInv, [Next]_vars PROVE SearchInv'
  OBVIOUS
<1> USE NoneAssumption, SilentAssumption DEF files, memory, caller, history
<1> DEFINE Backed(r) ==
      (latest[r] = Silent /\ None \notin tried[r]) =>
        /\ Hydrated[r] # None
        /\ \A c \in Caller : pc[c] \in {"install", "truncate"} => copy[c][r] # None
    Known(r) == latest[r] = model /\ tried[r] \subseteq {model} =>
                  r \in index \/ \E c \in Caller : pc[c] = "add" /\ rec[c] = r
<1>0. /\ \A c \in Caller : pc[c] = "add" => latest[rec[c]] # Silent
      /\ up => \A r \in index \ exposed : Backed(r)
      /\ up => \A r \in Record \ exposed : Known(r)
      /\ ~ up => \A c \in Caller : pc[c] = "idle"
  BY DEF SearchInv, IndexInv, SearchMatchesFiles
<1>a. ASSUME \A c \in Caller : pc'[c] = "add" => latest'[rec'[c]] # Silent,
             up' => \A r \in index' \ exposed' : Backed(r)',
             up' => \A r \in Record \ exposed' : Known(r)',
             ~ up' => \A c \in Caller : pc'[c] = "idle"
      PROVE  SearchInv'
  <2>1. IndexInv'
    BY <1>a DEF IndexInv
  <2>2. ASSUME up', NEW r \in Record \ exposed', r \in index'
        PROVE  Hydrated'[r] # None \/ latest'[r] = None \/ None \in tried'[r]
    BY <2>1, <2>2 DEF TypeOK, VectorsSurvive, IndexInv, Promised, KeepInv
  <2>3. SearchMatchesFiles'
    BY <1>a, <2>2 DEF SearchMatchesFiles
  <2> QED BY <2>1, <2>3 DEF SearchInv
<1>1. CASE UNCHANGED vars
  <2>1. Hydrated' = Hydrated
    BY <1>1 DEF vars, Hydrated
  <2>2. UNCHANGED <<pc, rec, copy, up, model, index, latest, tried, exposed>>
    BY <1>1 DEF vars
  <2>3. \A r \in Record : Backed(r)' = Backed(r)
    BY <2>1, <2>2
  <2>4. \A r \in Record : Known(r)' = Known(r)
    BY <2>2
  <2> QED BY <1>0, <1>a, <2>2, <2>3, <2>4 DEF TypeOK
(* An append: of a record whose vector it puts, or of one it removes.       *)
<1>2. ASSUME NEW c \in Caller, NEW r \in Record, NEW m \in Vector, Append(c, r, m),
             \A d \in Caller : d # c => pc'[d] = pc[d] /\ rec'[d] = rec[d],
             pc[c] # "add", pc'[c] \in {"idle", "add"}, pc'[c] = "add" => rec'[c] = r,
             m = None \/ pc'[c] = "add"
      PROVE  SearchInv'
  <2>1. /\ up /\ UNCHANGED <<up, model, index, copy>> /\ pc[c] = "idle"
        /\ latest' = [latest EXCEPT ![r] = m] /\ tried' = [tried EXCEPT ![r] = {}]
        /\ m # Silent /\ None \notin Model
    BY <1>2 DEF Append, Running, Vector
  <2>2. \A d \in Caller : pc'[d] = "add" => latest'[rec'[d]] # Silent
    BY <1>0, <1>2, <2>1 DEF TypeOK
  <2>3. ASSUME NEW q \in index' \ exposed' PROVE Backed(q)'
    <3>1. CASE q = r
      BY <2>1, <3>1 DEF TypeOK
    <3>2. CASE q # r
      <4>1. q \notin exposed /\ Hydrated'[q] = Hydrated[q] /\ latest'[q] = latest[q] /\ tried'[q] = tried[q]
        BY <1>2, <2>3, <3>2 DEF Append, Line, Hydrated, TypeOK
      <4>2. q \in index \ exposed /\ Backed(q)
        BY <1>0, <2>1, <2>3, <4>1
      <4>3. \A d \in Caller : pc'[d] \in {"install", "truncate"} => pc[d] = pc'[d]
        BY <1>2
      <4> QED BY <2>1, <4>1, <4>2, <4>3
    <3> QED BY <3>1, <3>2
  <2>4. ASSUME NEW q \in Record \ exposed' PROVE Known(q)'
    <3>1. CASE q = r
      BY <1>2, <2>1, <3>1 DEF TypeOK
    <3>2. CASE q # r
      <4>1. q \notin exposed /\ latest'[q] = latest[q] /\ tried'[q] = tried[q]
        BY <1>2, <2>1, <2>4, <3>2 DEF Append, TypeOK
      <4>2. Known(q)
        BY <1>0, <2>1, <2>4, <4>1
      <4>3. \A d \in Caller : pc[d] = "add" => d # c /\ pc'[d] = "add" /\ rec'[d] = rec[d]
        BY <1>2
      <4> QED BY <2>1, <4>1, <4>2, <4>3
    <3> QED BY <3>1, <3>2
  <2> QED BY <1>a, <2>1, <2>2, <2>3, <2>4
<1>3. ASSUME NEW c \in Caller, NEW r \in Record, PutVector(c, r) PROVE SearchInv'
  <2>1. Append(c, r, model) /\ model \in Vector /\ pc[c] = "idle"
    BY <1>3 DEF PutVector, TypeOK, Vector, Append, Running
  <2>2. /\ \A d \in Caller : d # c => pc'[d] = pc[d] /\ rec'[d] = rec[d]
        /\ pc'[c] = "add" /\ rec'[c] = r
    BY <1>3 DEF PutVector, Goto, TypeOK
  <2> QED BY <1>2, <2>1, <2>2
<1>4. ASSUME NEW c \in Caller, NEW r \in Record, Remove(c, r) PROVE SearchInv'
  <2>1. Append(c, r, None) /\ None \in Vector /\ pc[c] = "idle" /\ pc' = pc /\ rec' = rec
    BY <1>4 DEF Remove, Vector, Append, Running
  <2> QED BY <1>2, <2>1
<1>5. ASSUME NEW c \in Caller, NEW r \in Record, NEW m \in {model, None}, AppendFails(c, r, m)
      PROVE  SearchInv'
  <2>1. up /\ UNCHANGED <<base, up, model, index, pc, rec, copy, latest, exposed>>
    BY <1>5 DEF AppendFails, Running
  <2>2. \/ delta' = delta /\ tried' = tried
        \/ delta' = delta /\ tried' = [tried EXCEPT ![r] = @ \union {m}]
        \/ delta' = [delta EXCEPT ![r] = m] /\ tried' = [tried EXCEPT ![r] = @ \union {m}]
    BY <1>5 DEF AppendFails, Line
  <2>3. ASSUME NEW q \in index' \ exposed' PROVE Backed(q)'
    <3>1. tried[q] \subseteq tried'[q]
      BY <2>2 DEF TypeOK
    <3>2. Hydrated'[q] = Hydrated[q] \/ Hydrated'[q] # None \/ None \in tried'[q]
      BY <2>1, <2>2, <2>3 DEF TypeOK, Hydrated
    <3> QED BY <1>0, <2>1, <2>3, <3>1, <3>2
  <2>4. ASSUME NEW q \in Record \ exposed' PROVE Known(q)'
    <3>1. tried[q] \subseteq tried'[q]
      BY <2>2 DEF TypeOK
    <3> QED BY <1>0, <2>1, <2>4, <3>1
  <2> QED BY <1>0, <1>a, <2>1, <2>3, <2>4
<1>6. ASSUME NEW c \in Caller, IndexAdd(c) PROVE SearchInv'
  <2>1. /\ up /\ pc[c] = "add" /\ UNCHANGED <<base, delta, up, model, copy, latest, tried, exposed>>
        /\ index' = index \union {rec[c]} /\ rec' = [rec EXCEPT ![c] = None]
        /\ pc'[c] \in {"idle", "hydrate"}
        /\ \A d \in Caller : d # c => pc'[d] = pc[d]
    BY <1>6 DEF IndexAdd, Goto, TypeOK
  <2>2. Hydrated' = Hydrated
    BY <2>1 DEF Hydrated
  <2>3. \A d \in Caller : pc'[d] = "add" => latest'[rec'[d]] # Silent
    BY <1>0, <2>1 DEF TypeOK
  <2>4. ASSUME NEW q \in index' \ exposed' PROVE Backed(q)'
    BY <1>0, <2>1, <2>2, <2>4
  <2>5. ASSUME NEW q \in Record \ exposed' PROVE Known(q)'
    BY <1>0, <2>1, <2>5 DEF TypeOK
  <2> QED BY <1>a, <2>1, <2>3, <2>4, <2>5
<1>7. ASSUME NEW c \in Caller, CompactIndex(c) PROVE SearchInv'
  <2>1. /\ up /\ pc[c] = "idle" /\ pc' = [pc EXCEPT ![c] = "hydrate"]
        /\ UNCHANGED <<base, delta, up, model, index, rec, copy, latest, tried, exposed>>
    BY <1>7 DEF CompactIndex, Goto
  <2>2. Hydrated' = Hydrated
    BY <2>1 DEF Hydrated
  <2>3. ASSUME NEW q \in index' \ exposed' PROVE Backed(q)'
    BY <1>0, <2>1, <2>2, <2>3 DEF TypeOK
  <2>4. \A q \in Record \ exposed' : Known(q)'
    BY <1>0, <2>1 DEF TypeOK
  <2> QED BY <1>0, <1>a, <2>1, <2>3, <2>4 DEF TypeOK
<1>8. ASSUME NEW c \in Caller, Hydrate(c) PROVE SearchInv'
  <2>1. /\ up /\ pc[c] = "hydrate" /\ pc' = [pc EXCEPT ![c] = "install"]
        /\ copy' = [copy EXCEPT ![c] = Hydrated]
        /\ UNCHANGED <<base, delta, up, model, index, rec, latest, tried, exposed>>
    BY <1>8 DEF Hydrate, Goto, Running
  <2>2. Hydrated' = Hydrated
    BY <2>1 DEF Hydrated
  <2>3. ASSUME NEW q \in index' \ exposed' PROVE Backed(q)'
    BY <1>0, <2>1, <2>2, <2>3 DEF TypeOK
  <2>4. \A q \in Record \ exposed' : Known(q)'
    BY <1>0, <2>1 DEF TypeOK
  <2> QED BY <1>0, <1>a, <2>1, <2>3, <2>4 DEF TypeOK
<1>9. ASSUME NEW c \in Caller, Install(c) PROVE SearchInv'
  <2>1. /\ up /\ pc[c] = "install" /\ pc' = [pc EXCEPT ![c] = "truncate"]
        /\ base' = copy[c]
        /\ UNCHANGED <<delta, up, model, index, rec, copy, latest, tried, exposed>>
    BY <1>9 DEF Install, Goto, Running
  <2>2. ASSUME NEW q \in index' \ exposed' PROVE Backed(q)'
    <3>1. Hydrated'[q] = IF delta[q] = Silent THEN copy[c][q] ELSE Hydrated[q]
      BY <2>1, <2>2 DEF Hydrated, TypeOK
    <3> QED BY <1>0, <2>1, <2>2, <3>1 DEF TypeOK
  <2>3. \A q \in Record \ exposed' : Known(q)'
    BY <1>0, <2>1 DEF TypeOK
  <2> QED BY <1>0, <1>a, <2>1, <2>2, <2>3 DEF TypeOK
<1>10. ASSUME NEW c \in Caller, Truncate(c) PROVE SearchInv'
  <2>1. /\ up /\ pc[c] = "truncate" /\ pc' = [pc EXCEPT ![c] = "idle"]
        /\ delta' = Unsaid /\ copy' = [copy EXCEPT ![c] = Empty]
        /\ UNCHANGED <<base, up, model, index, rec, latest, tried, exposed>>
    BY <1>10 DEF Truncate, Goto, Running
  <2>2. base = copy[c]
    BY <2>1 DEF KeepInv, FoldInv
  <2>3. ASSUME NEW q \in index' \ exposed' PROVE Backed(q)'
    <3>1. Hydrated'[q] = copy[c][q]
      BY <2>1, <2>2, <2>3 DEF Hydrated, Unsaid, TypeOK
    <3> QED BY <1>0, <2>1, <2>3, <3>1 DEF TypeOK
  <2>4. \A q \in Record \ exposed' : Known(q)'
    BY <1>0, <2>1 DEF TypeOK
  <2> QED BY <1>0, <1>a, <2>1, <2>3, <2>4 DEF TypeOK
<1>11. ASSUME NEW c \in Caller, CompactFails(c) PROVE SearchInv'
  <2>1. /\ up /\ pc[c] # "add" /\ pc' = [pc EXCEPT ![c] = "idle"] /\ copy' = [copy EXCEPT ![c] = Empty]
        /\ UNCHANGED <<base, delta, up, model, index, rec, latest, tried, exposed>>
    BY <1>11 DEF CompactFails, Goto, Running
  <2>2. Hydrated' = Hydrated
    BY <2>1 DEF Hydrated
  <2>3. ASSUME NEW q \in index' \ exposed' PROVE Backed(q)'
    BY <1>0, <2>1, <2>2, <2>3 DEF TypeOK
  <2>4. \A q \in Record \ exposed' : Known(q)'
    BY <1>0, <2>1 DEF TypeOK
  <2> QED BY <1>0, <1>a, <2>1, <2>3, <2>4 DEF TypeOK
<1>12. ASSUME Close \/ Crash PROVE SearchInv'
  <2>1. ~ up' /\ pc' = [c \in Caller |-> "idle"]
    BY <1>12 DEF Close, Crash, Stop
  <2> QED BY <1>a, <2>1
<1>13. ASSUME NEW m \in Model, Open(m) PROVE SearchInv'
  <2>1. /\ ~ up /\ up' = TRUE /\ model' = m /\ index' = {r \in Record : Hydrated[r] = m}
        /\ UNCHANGED <<base, delta, pc, rec, copy, latest, tried, exposed>>
    BY <1>13 DEF Open
  <2>2. Hydrated' = Hydrated /\ m # None /\ m # Silent
    BY <2>1 DEF Hydrated
  <2>3. ASSUME NEW q \in index' \ exposed' PROVE Backed(q)'
    BY <1>0, <2>1, <2>2, <2>3
  <2>4. ASSUME NEW q \in Record \ exposed', latest'[q] = model', tried'[q] \subseteq {model'}
        PROVE  q \in index'
    BY <2>1, <2>2, <2>4 DEF KeepInv, VectorsSurvive, Promised
  <2> QED BY <1>0, <1>a, <2>1, <2>3, <2>4
<1> QED BY <1>1, <1>3, <1>4, <1>5, <1>6, <1>7, <1>8, <1>9, <1>10, <1>11, <1>12, <1>13 DEF Next

(* What search can find is what a later process will find until it is       *)
(* removed, and what was put under the model that runs can be found.        *)
THEOREM SearchIsTrue == Spec => []SearchMatchesFiles
<1>1. Init => KeepInv /\ SearchInv
  BY NoneAssumption, SilentAssumption
     DEF Init, KeepInv, VectorsSurvive, FoldInv, SearchInv, IndexInv, SearchMatchesFiles,
         Hydrated, Promised, Empty, Unsaid
<1>2. SearchInv => SearchMatchesFiles
  BY DEF SearchInv
<1> QED BY <1>1, <1>2, KeepStep, SearchStep, TypeCorrect, PTL DEF Spec
=============================================================================
