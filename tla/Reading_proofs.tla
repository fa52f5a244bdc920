---------------------------- MODULE Reading_proofs ----------------------------
(***************************************************************************)
(* What is read back, for any rows, stamps and page sizes, any turns and   *)
(* sizes, and any passes, filters and weights in the shipped proportions.  *)
(***************************************************************************)
EXTENDS Reading, TLAPS, FiniteSetTheorems, SequenceTheorems

-----------------------------------------------------------------------------
(* Sorting.                                                                 *)
Strict(S, R) ==
  /\ \A x, y \in S : <<x, y>> \in R => <<y, x>> \notin R
  /\ \A x, y \in S : x = y \/ <<x, y>> \in R \/ <<y, x>> \in R
  /\ \A x, y, z \in S : <<x, y>> \in R /\ <<y, z>> \in R => <<x, z>> \in R

Placed(S, R) == {<<Cardinality({y \in S : <<y, x>> \in R}), x>> : x \in S}

(* The places of the elements of a finite set are 0 to one less than its    *)
(* size, each once, and an element before another has the lower one.       *)
LEMMA PlacesRise ==
  ASSUME NEW S, IsFiniteSet(S), NEW R, Strict(S, R),
         NEW place, place = [x \in S |-> Cardinality({y \in S : <<y, x>> \in R})]
  PROVE  /\ place \in [S -> 0..(Cardinality(S) - 1)]
         /\ \A x, y \in S : <<x, y>> \in R => place[x] < place[y]
         /\ \A k \in 0..(Cardinality(S) - 1) : \E x \in S : place[x] = k
<1> DEFINE Pre(x) == {y \in S : <<y, x>> \in R}
           C == Cardinality(S)
<1>1. \A x \in S : IsFiniteSet(Pre(x)) /\ Cardinality(Pre(x)) \in Nat /\ x \notin Pre(x)
  <2> TAKE x \in S
  <2>1. Pre(x) \in SUBSET S
    OBVIOUS
  <2> QED BY <2>1, FS_Subset, FS_CardinalityType DEF Strict
<1>2. ASSUME NEW x \in S, NEW T, x \notin T, T \in SUBSET S, IsFiniteSet(T), Pre(x) \subseteq T
      PROVE  Cardinality(Pre(x)) <= Cardinality(T)
  BY <1>2, FS_Subset
<1>3. ASSUME NEW x \in S PROVE Cardinality(Pre(x)) < C
  <2>1. Pre(x) \in SUBSET S /\ Pre(x) # S
    BY <1>1
  <2> HIDE DEF Pre
  <2>2. /\ Cardinality(Pre(x)) <= Cardinality(S)
        /\ Cardinality(S) = Cardinality(Pre(x)) => S = Pre(x)
    BY <2>1, FS_Subset
  <2> QED BY <1>1, <2>1, <2>2, FS_CardinalityType
<1>4. ASSUME NEW x \in S, NEW y \in S, <<x, y>> \in R PROVE Cardinality(Pre(x)) < Cardinality(Pre(y))
  <2>1. Pre(x) \in SUBSET Pre(y) /\ x \in Pre(y) /\ x \notin Pre(x)
    BY <1>4 DEF Strict
  <2>2. Pre(x) # Pre(y)
    BY <2>1
  <2> HIDE DEF Pre
  <2> QED BY <1>1, <2>1, <2>2, FS_Subset
<1>5. \A x \in S : place[x] = Cardinality(Pre(x))
  OBVIOUS
<1>6. C \in Nat /\ C - 1 \in Int
  BY FS_CardinalityType
<1> HIDE DEF Pre
<1>7. place \in [S -> 0..(C - 1)]
  BY <1>1, <1>3, <1>5, <1>6
<1>8. \A x, y \in S : <<x, y>> \in R => place[x] < place[y]
  BY <1>4, <1>5
<1>9. \A x, y \in S : x # y => place[x] # place[y]
  <2> TAKE x, y \in S
  <2> HAVE x # y
  <2>1. place[x] \in Nat /\ place[y] \in Nat
    BY <1>1, <1>5
  <2>2. <<x, y>> \in R \/ <<y, x>> \in R
    BY DEF Strict
  <2> QED BY <1>8, <2>1, <2>2
<1>10. place \in Injection(S, 0..(C - 1))
  BY <1>7, <1>9 DEF Injection, IsInjective
<1>11. IsFiniteSet(0..(C - 1)) /\ Cardinality(0..(C - 1)) = C
  BY <1>6, FS_Interval
<1>12. place \in Surjection(S, 0..(C - 1))
  BY <1>10, <1>11, FS_Injection
<1> QED BY <1>7, <1>8, <1>12 DEF Surjection

LEMMA HasFirst ==
  ASSUME NEW S, IsFiniteSet(S), S # {}, NEW R, Strict(S, R)
  PROVE  \E x \in S : \A y \in S : <<y, x>> \notin R
<1> DEFINE C == Cardinality(S)
           place == [x \in S |-> Cardinality({y \in S : <<y, x>> \in R})]
<1>1. /\ place \in [S -> 0..(C - 1)]
      /\ \A x, y \in S : <<x, y>> \in R => place[x] < place[y]
      /\ \A k \in 0..(C - 1) : \E x \in S : place[x] = k
  <2>1. place = [x \in S |-> Cardinality({y \in S : <<y, x>> \in R})]
    OBVIOUS
  <2> HIDE DEF place
  <2> QED BY <2>1, PlacesRise
<1>2. C \in Nat /\ C # 0
  BY FS_CardinalityType, FS_EmptySet
<1> HIDE DEF place, C
<1>3. PICK x \in S : place[x] = 0
  <2>1. 0 \in 0..(C - 1)
    BY <1>2
  <2> QED BY <1>1, <2>1
<1>4. \A y \in S : <<y, x>> \notin R
  <2> TAKE y \in S
  <2>1. ~ (place[y] < 0)
    BY <1>1, <1>2
  <2> QED BY <1>1, <1>3, <2>1
<1> QED BY <1>4

(* InOrder lists every element of a finite set once, in order.              *)
LEMMA ListsInOrder ==
  ASSUME NEW S, IsFiniteSet(S), NEW R, Strict(S, R), NEW P, P = Placed(S, R),
         NEW f, \A n \in 1..Cardinality(S) : f[n] = Nth(P, n)
  PROVE  /\ \A n \in 1..Cardinality(S) : f[n] \in S
         /\ \A m, n \in 1..Cardinality(S) : m < n => <<f[m], f[n]>> \in R
         /\ \A x \in S : \E n \in 1..Cardinality(S) : f[n] = x
<1> DEFINE C == Cardinality(S)
           place == [x \in S |-> Cardinality({y \in S : <<y, x>> \in R})]
<1>1. /\ place \in [S -> 0..(C - 1)]
      /\ \A x, y \in S : <<x, y>> \in R => place[x] < place[y]
      /\ \A k \in 0..(C - 1) : \E x \in S : place[x] = k
  <2>1. place = [x \in S |-> Cardinality({y \in S : <<y, x>> \in R})]
    OBVIOUS
  <2> HIDE DEF place
  <2> QED BY <2>1, PlacesRise
<1>2. P = {<<place[x], x>> : x \in S}
  BY DEF Placed
<1>3. C \in Nat
  BY FS_CardinalityType
<1> HIDE DEF place
<1>4. ASSUME NEW n \in 1..C PROVE f[n] \in S /\ place[f[n]] = n - 1
  <2>1. n - 1 \in 0..(C - 1)
    BY <1>3
  <2>2. \E p \in P : p[1] = n - 1
    <3>1. PICK x \in S : place[x] = n - 1
      BY <1>1, <2>1
    <3>2. <<place[x], x>> \in P /\ <<place[x], x>>[1] = n - 1
      BY <1>2, <3>1
    <3> QED BY <3>2
  <2> DEFINE p == CHOOSE w \in P : w[1] = n - 1
  <2>3. p \in P /\ p[1] = n - 1
    BY <2>2
  <2>4. f[n] = p[2]
    BY DEF Nth
  <2> HIDE DEF p
  <2>5. PICK x \in S : p = <<place[x], x>>
    BY <1>2, <2>3
  <2> QED BY <2>3, <2>4, <2>5
<1>5. \A n \in 1..C : f[n] \in S
  BY <1>4
<1>6. ASSUME NEW m \in 1..C, NEW n \in 1..C, m < n PROVE <<f[m], f[n]>> \in R
  <2>1. /\ place[f[m]] = m - 1 /\ place[f[n]] = n - 1 /\ f[m] \in S /\ f[n] \in S
        /\ m \in Nat /\ n \in Nat
    BY <1>3, <1>4
  <2>2. f[m] # f[n] /\ ~ (place[f[n]] < place[f[m]])
    BY <1>6, <2>1
  <2> QED BY <1>1, <2>1, <2>2 DEF Strict
<1>7. ASSUME NEW x \in S PROVE \E n \in 1..C : f[n] = x
  <2>1. place[x] \in 0..(C - 1)
    BY <1>1
  <2>2. PICK n \in 1..C : n - 1 = place[x]
    <3>1. place[x] + 1 \in 1..C /\ (place[x] + 1) - 1 = place[x]
      BY <1>3, <2>1
    <3> QED BY <3>1
  <2>3. f[n] \in S /\ place[f[n]] = place[x]
    BY <1>4, <2>2
  <2>4. f[n] = x
    <3>1. place[x] \in Nat
      BY <1>3, <2>1
    <3>2. CASE <<f[n], x>> \in R
      BY <1>1, <2>3, <3>1, <3>2
    <3>3. CASE <<x, f[n]>> \in R
      BY <1>1, <2>3, <3>1, <3>3
    <3> QED BY <2>3, <3>2, <3>3 DEF Strict
  <2> QED BY <2>2, <2>4
<1> QED BY <1>5, <1>6, <1>7

-----------------------------------------------------------------------------
(* Listing.                                                                 *)
RowBefore == {ab \in Row \X Row : Before(ab[1], ab[2])}

LEMMA RowsAreOrdered ==
  /\ \A a \in Row : a = <<a[1], a[2]>> /\ a[1] \in Nat /\ a[2] \in Nat
  /\ \A a, b \in Row : <<a, b>> \in RowBefore <=> Before(a, b)
  /\ \A a, b \in Row : Before(a, b) => ~ Before(b, a)
  /\ \A a, b \in Row : a = b \/ Before(a, b) \/ Before(b, a)
  /\ \A a, b, c \in Row : Before(a, b) /\ Before(b, c) => Before(a, c)
<1>1. \A a \in Row : a = <<a[1], a[2]>> /\ a[1] \in Nat /\ a[2] \in Nat
  <2>1. Stamp \subseteq Nat /\ Id \subseteq Nat
    BY ListingAssumption
  <2>2. \A a \in Row : a = <<a[1], a[2]>>
    BY DEF Row
  <2>3. \A a \in Row : a[1] \in Nat /\ a[2] \in Nat
    BY <2>1 DEF Row
  <2> QED BY <2>2, <2>3
<1>2. \A a, b \in Row : <<a, b>> \in RowBefore <=> Before(a, b)
  BY DEF RowBefore
<1>3. \A a, b \in Row : Before(a, b) => ~ Before(b, a)
  BY <1>1 DEF Before
<1>4. \A a, b \in Row : a = b \/ Before(a, b) \/ Before(b, a)
  BY <1>1 DEF Before
<1>5. \A a, b, c \in Row : Before(a, b) /\ Before(b, c) => Before(a, c)
  BY <1>1 DEF Before
<1> QED BY <1>1, <1>2, <1>3, <1>4, <1>5

LEMMA RowIsNoEnd == \A a \in Row : a # <<>>
<1> SUFFICES ASSUME NEW s \in Stamp, NEW i \in Id PROVE <<s, i>> # <<>>
  BY DEF Row
<1>1. Len(<<s, i>>) = 2 /\ Len(<<>>) = 0
  OBVIOUS
<1> QED BY <1>1

(* An element of a sequence is one of its elements.                         *)
LEMMA IsListed ==
  ASSUME NEW T, NEW s \in Seq(T), NEW k \in 1..Len(s)
  PROVE  s[k] \in ToSet(s)
BY DEF ToSet

(* The rows still wanted, in order.                                         *)
LEMMA WantedInOrder ==
  ASSUME ListingTypeOK, ListingInv, NEW found, found = InOrder(Wanted, Before)
  PROVE  /\ found \in Seq(Wanted) /\ Wanted \subseteq Row
         /\ \A m, n \in 1..Len(found) : m < n => Before(found[m], found[n])
         /\ \A a \in Wanted : \E n \in 1..Len(found) : found[n] = a
<1>1. Wanted \subseteq Row
  BY DEF Wanted, Matches, ListingTypeOK, Row
<1>2. IsFiniteSet(Wanted)
  <2> DEFINE rowOf == [i \in remembered |-> <<rows[i], i>>]
             All == {<<rows[i], i>> : i \in remembered}
  <2>0. rowOf \in Surjection(remembered, All)
    BY DEF Surjection
  <2>1. IsFiniteSet(All)
    <3> HIDE DEF rowOf, All
    <3> QED BY <2>0, FS_Surjection DEF ListingInv
  <2>2. Wanted \in SUBSET All
    BY DEF Wanted, Matches, ListingInv
  <2> QED BY <2>1, <2>2, FS_Subset
<1>3. Strict(Wanted, RowBefore)
  BY <1>1, RowsAreOrdered DEF Strict
<1>4. \A a, b \in Wanted : Before(b, a) <=> <<b, a>> \in RowBefore
  BY <1>1, RowsAreOrdered
<1> HIDE DEF Wanted
<1> DEFINE P == {<<Cardinality({b \in Wanted : Before(b, a)}), a>> : a \in Wanted}
<1>5. P = Placed(Wanted, RowBefore)
  <2>1. \A a \in Wanted : {b \in Wanted : Before(b, a)} = {b \in Wanted : <<b, a>> \in RowBefore}
    BY <1>4
  <2> QED BY <2>1 DEF Placed
<1>6. found = [n \in 1..Cardinality(Wanted) |-> Nth(P, n)]
  BY DEF InOrder
<1> HIDE DEF P
<1>7. /\ \A n \in 1..Cardinality(Wanted) : found[n] \in Wanted
      /\ \A m, n \in 1..Cardinality(Wanted) : m < n => <<found[m], found[n]>> \in RowBefore
      /\ \A a \in Wanted : \E n \in 1..Cardinality(Wanted) : found[n] = a
  <2>1. \A n \in 1..Cardinality(Wanted) : found[n] = Nth(P, n)
    BY <1>6
  <2> QED BY <1>2, <1>3, <1>5, <2>1, ListsInOrder
<1>8. Cardinality(Wanted) \in Nat
  BY <1>2, FS_CardinalityType
<1>9. found \in Seq(Wanted) /\ Len(found) = Cardinality(Wanted)
  <2>1. found \in [1..Cardinality(Wanted) -> Wanted]
    BY <1>6, <1>7
  <2> QED BY <1>8, <2>1
<1> QED BY <1>1, <1>7, <1>8, <1>9, RowsAreOrdered

ListingAll == ListingTypeOK /\ ListingInv /\ ListingIsExact

(* What is written between two pages leaves the reader where it was.        *)
LEMMA WrittenMeanwhile ==
  ASSUME ListingAll, UNCHANGED reader, steady' = StillMatching,
         rows' \in [Id -> Stamp \union {Absent}], remembered' \subseteq Id,
         replaces' \in [Id -> Id \union {Absent}],
         IsFiniteSet(remembered'), \A i \in Id : rows'[i] # Absent => i \in remembered',
         \A i \in Id : rows[i] # Absent /\ rows'[i] # Absent => rows'[i] = rows[i]
  PROVE  ListingAll'
<1>1. UNCHANGED <<query, cursor, listed, reading>>
  BY DEF reader
<1>2. \A i \in steady' : i \in steady /\ (Matches(query, i))'
  BY DEF StillMatching
<1>3. \A i \in steady' : i \in Id /\ rows'[i] # Absent /\ rows'[i] = rows[i]
  BY <1>2 DEF Matches, ListingAll, ListingTypeOK
<1>4. ListingTypeOK'
  BY <1>1, <1>3 DEF ListingAll, ListingTypeOK
<1>5. ListingInv'
  BY <1>1, <1>2 DEF ListingAll, ListingInv, Last
<1>6. ListingIsExact'
  <2>1. \A m \in 1..Len(listed') : \A n \in 1..(m - 1) : Before(listed'[n], listed'[m])
    BY <1>1 DEF ListingAll, ListingIsExact
  <2>2. ASSUME NEW i \in steady'
        PROVE  <<rows'[i], i>> \in ToSet(listed') \/ (reading' /\ After(<<rows[i], i>>)')
    BY <1>1, <1>2, <1>3 DEF ListingAll, ListingIsExact, After
  <2> QED BY <2>1, <2>2 DEF ListingIsExact
<1> QED BY <1>4, <1>5, <1>6 DEF ListingAll

LEMMA PutKeeps ==
  ASSUME ListingTypeOK, NEW i \in Id, NEW t \in Stamp, Put(i, t)
  PROVE  /\ rows' \in [Id -> Stamp \union {Absent}]
         /\ \A j \in Id : rows[j] # Absent \/ j # i => rows'[j] = rows[j]
BY DEF Put, ListingTypeOK

LEMMA ListRecordsStep ==
  ASSUME ListingAll, NEW limit \in Limit, ListRecords(limit)
  PROVE  ListingAll'
<1> DEFINE found == InOrder(Wanted, Before)
           more == Len(found) > limit
           size == IF more THEN limit ELSE Len(found)
           page == SubSeq(found, 1, size)
<1>1. /\ reading /\ listed' = listed \o page
      /\ cursor' = (IF more THEN page[limit] ELSE <<>>) /\ reading' = more
      /\ UNCHANGED <<rows, remembered, replaces, query, steady>>
  BY DEF ListRecords, listing
<1>2. /\ found \in Seq(Wanted) /\ Wanted \subseteq Row
      /\ \A m, n \in 1..Len(found) : m < n => Before(found[m], found[n])
      /\ \A a \in Wanted : \E n \in 1..Len(found) : found[n] = a
  <2> HIDE DEF found
  <2>1. found = InOrder(Wanted, Before)
    BY DEF found
  <2> QED BY <2>1, WantedInOrder DEF ListingAll
<1> HIDE DEF found
<1>3. limit \in Nat \ {0} /\ Len(found) \in Nat /\ found \in [1..Len(found) -> Wanted]
  BY <1>2, ListingAssumption, LenProperties
<1>4. /\ size \in 0..Len(found) /\ page \in Seq(Row) /\ Len(page) = size
      /\ \A n \in 1..size : page[n] = found[n] /\ page[n] \in Wanted
  BY <1>2, <1>3
<1>5. /\ listed \in Seq(Row) /\ Len(listed) \in Nat /\ cursor \in Row \union {<<>>}
      /\ \A n \in 1..Len(listed) : listed[n] \in Row
      /\ cursor = IF listed = <<>> THEN <<>> ELSE Last(listed)
  BY <1>1 DEF ListingAll, ListingTypeOK, ListingInv
<1>6. /\ listed' \in Seq(Row) /\ Len(listed') = Len(listed) + size
      /\ \A n \in 1..Len(listed) : listed'[n] = listed[n]
      /\ \A n \in 1..size : listed'[Len(listed) + n] = page[n]
  <2> HIDE DEF page, size
  <2> QED BY <1>1, <1>4, <1>5
<1>7. more => /\ size = limit /\ limit \in 1..Len(found) /\ page[limit] = found[limit]
              /\ page[limit] \in Row /\ Last(listed') = page[limit] /\ listed' # <<>>
  <2>1. more => size = limit /\ limit \in 1..Len(found)
    BY <1>3
  <2> HIDE DEF page, size, more
  <2>2. more => limit \in 1..size
    BY <1>3, <2>1
  <2>3. more => page[limit] = found[limit] /\ page[limit] \in Row
    BY <1>2, <1>4, <2>2
  <2>4. more => Len(listed') = Len(listed) + limit /\ listed'[Len(listed) + limit] = page[limit]
    BY <1>6, <2>1, <2>2
  <2> QED BY <1>3, <1>5, <1>6, <2>1, <2>3, <2>4 DEF Last
<1>a. more \in BOOLEAN /\ (~ more => size = Len(found))
  OBVIOUS
<1> HIDE DEF page, size, more
<1>8. ListingTypeOK' /\ ListingInv'
  <2>1. cursor' \in Row \union {<<>>}
    BY <1>1, <1>7
  <2>4. reading' \in BOOLEAN
    BY <1>1, <1>a
  <2>2. reading' => cursor' = IF listed' = <<>> THEN <<>> ELSE Last(listed')
    BY <1>1, <1>7
  <2>3. \A i \in Id : Matches(query, i)' = Matches(query, i)
    BY <1>1 DEF Matches, Superseded
  <2> QED BY <1>1, <1>6, <2>1, <2>2, <2>3, <2>4 DEF ListingAll, ListingTypeOK, ListingInv, Matches,
                                               Superseded
<1>9. ASSUME NEW m \in 1..Len(listed'), NEW n \in 1..(m - 1) PROVE Before(listed'[n], listed'[m])
  <2>1. m \in Nat /\ n \in Nat /\ n < m
    BY <1>3, <1>4, <1>5, <1>6
  <2>2. CASE m <= Len(listed)
    BY <1>5, <1>6, <2>1, <2>2 DEF ListingAll, ListingIsExact
  <2>3. CASE m > Len(listed)
    <3>1. PICK k \in 1..size : m = Len(listed) + k
      <4>1. m - Len(listed) \in 1..size
        BY <1>4, <1>5, <1>6, <2>1, <2>3
      <4> QED BY <1>5, <2>1, <4>1
    <3>2. listed'[m] = found[k] /\ found[k] \in Wanted /\ found[k] \in Row
      BY <1>2, <1>4, <1>6, <3>1
    <3>3. CASE n > Len(listed)
      <4>1. PICK j \in 1..size : n = Len(listed) + j
        <5>1. n - Len(listed) \in 1..size
          BY <1>3, <1>4, <1>5, <2>1, <3>1, <3>3
        <5> QED BY <1>5, <2>1, <5>1
      <4>2. listed'[n] = found[j]
        BY <1>4, <1>6, <4>1
      <4>3. j < k /\ j \in 1..Len(found) /\ k \in 1..Len(found)
        BY <1>3, <1>4, <1>5, <2>1, <3>1, <4>1
      <4> QED BY <1>2, <3>2, <4>2, <4>3
    <3>4. CASE n <= Len(listed)
      <4>0. n \in 1..Len(listed) /\ Len(listed) \in 1..Len(listed)
        BY <1>5, <2>1, <3>4
      <4>1. listed # <<>> /\ cursor = listed[Len(listed)] /\ listed'[n] = listed[n]
        BY <1>5, <1>6, <4>0 DEF Last
      <4>2. cursor \in Row /\ listed[n] \in Row
        BY <1>5, <4>0, <4>1
      <4>5. cursor # <<>>
        BY <4>2, RowIsNoEnd
      <4>3. Before(cursor, found[k])
        BY <3>2, <4>5 DEF Wanted, After
      <4>4. listed[n] = cursor \/ Before(listed[n], cursor)
        BY <1>5, <2>1, <3>4, <4>1 DEF ListingAll, ListingIsExact
      <4> QED BY <3>2, <4>1, <4>2, <4>3, <4>4, RowsAreOrdered
    <3> QED BY <1>5, <2>1, <3>3, <3>4
  <2> QED BY <1>5, <2>1, <2>2, <2>3
<1>10. ASSUME NEW i \in steady'
       PROVE  <<rows[i], i>> \in ToSet(listed') \/ (more /\ After(<<rows[i], i>>)')
  <2>1. i \in steady /\ i \in Id /\ Matches(query, i) /\ rows' = rows
    BY <1>1, <1>10 DEF ListingAll, ListingTypeOK, ListingInv
  <2>2. CASE <<rows[i], i>> \in ToSet(listed)
    <3>1. PICK n \in 1..Len(listed) : listed[n] = <<rows[i], i>>
      BY <1>5, <2>2 DEF ToSet
    <3>2. listed'[n] = <<rows[i], i>> /\ n \in 1..Len(listed')
      BY <1>4, <1>5, <1>6, <3>1
    <3> QED BY <1>6, <3>2 DEF ToSet
  <2>3. CASE After(<<rows[i], i>>)
    <3>1. <<rows[i], i>> \in Wanted
      BY <2>1, <2>3 DEF Wanted
    <3>2. PICK n \in 1..Len(found) : found[n] = <<rows[i], i>>
      BY <1>2, <3>1
    <3>3. CASE n <= size
      <4>0. n \in 1..size /\ Len(listed) + n \in 1..Len(listed')
        BY <1>3, <1>4, <1>5, <1>6, <3>3
      <4>1. listed'[Len(listed) + n] = <<rows[i], i>>
        BY <1>4, <1>6, <3>2, <4>0
      <4>2. listed'[Len(listed) + n] \in ToSet(listed')
        BY <1>6, <4>0, IsListed
      <4> QED BY <4>1, <4>2
    <3>4. CASE n > size
      <4>0. more
        BY <1>3, <1>a, <3>2, <3>4
      <4>1. limit \in 1..Len(found) /\ limit < n /\ page[limit] = found[limit]
        BY <1>7, <3>4, <4>0
      <4>2. cursor' = found[limit] /\ Before(found[limit], <<rows[i], i>>)
        BY <1>1, <1>2, <3>2, <4>0, <4>1
      <4> QED BY <2>1, <4>0, <4>2 DEF After
    <3> QED BY <1>3, <1>4, <3>2, <3>3, <3>4
  <2> QED BY <2>1, <2>2, <2>3 DEF ListingAll, ListingIsExact
<1>11. ListingIsExact'
  BY <1>1, <1>9, <1>10 DEF ListingIsExact
<1> QED BY <1>8, <1>11 DEF ListingAll

LEMMA ListingStep == ListingAll /\ (ListingNext \/ UNCHANGED listingVars) => ListingAll'
<1> SUFFICES ASSUME ListingAll, ListingNext \/ UNCHANGED listingVars PROVE ListingAll'
  OBVIOUS
<1>0. ListingTypeOK /\ ListingInv
  BY DEF ListingAll
<1>1. CASE UNCHANGED listingVars
  <2>1. UNCHANGED <<rows, remembered, replaces, query, cursor, listed, reading, steady>>
    BY <1>1 DEF listingVars, listing, reader
  <2> QED BY <2>1 DEF ListingAll, ListingTypeOK, ListingInv, ListingIsExact, Matches, Superseded,
                      After, Last
<1>2. ASSUME NEW i \in Id, NEW t \in Stamp, NEW old \in {Absent} \union remembered,
             Remember(i, old, t)
      PROVE  ListingAll'
  <2>1. /\ remembered' = remembered \union {i} /\ replaces' = [replaces EXCEPT ![i] = old]
        /\ Put(i, t) /\ UNCHANGED reader /\ steady' = StillMatching
    BY <1>2 DEF Remember
  <2>2. IsFiniteSet(remembered') /\ remembered' \subseteq Id
    BY <1>0, <2>1, FS_AddElement DEF ListingTypeOK, ListingInv
  <2>3. replaces' \in [Id -> Id \union {Absent}]
    BY <1>0, <2>1 DEF ListingTypeOK
  <2>4. /\ rows' \in [Id -> Stamp \union {Absent}]
        /\ \A j \in Id : rows[j] # Absent \/ j # i => rows'[j] = rows[j]
    BY <1>0, <2>1, PutKeeps
  <2>5. \A j \in Id : rows'[j] # Absent => j \in remembered'
    BY <1>0, <2>1, <2>4 DEF ListingInv
  <2> QED BY <2>1, <2>2, <2>3, <2>4, <2>5, WrittenMeanwhile
<1>3. ASSUME NEW i \in Id, NEW t \in Stamp, PutAgain(i, t) PROVE ListingAll'
  <2>1. /\ Put(i, t) /\ i \in remembered /\ UNCHANGED <<remembered, replaces>>
        /\ UNCHANGED reader /\ steady' = StillMatching
    BY <1>3 DEF PutAgain, reader
  <2>2. /\ rows' \in [Id -> Stamp \union {Absent}]
        /\ \A j \in Id : rows[j] # Absent \/ j # i => rows'[j] = rows[j]
    BY <1>0, <2>1, PutKeeps
  <2>3. \A j \in Id : rows'[j] # Absent => j \in remembered'
    BY <1>0, <2>1, <2>2 DEF ListingInv
  <2> QED BY <1>0, <2>1, <2>2, <2>3, WrittenMeanwhile DEF ListingTypeOK, ListingInv
<1>4. ASSUME NEW i \in Id, ForgetRow(i) PROVE ListingAll'
  <2>1. /\ rows' = [rows EXCEPT ![i] = Absent] /\ UNCHANGED <<remembered, replaces>>
        /\ UNCHANGED reader /\ steady' = StillMatching
    BY <1>4 DEF ForgetRow, reader
  <2>2. /\ rows' \in [Id -> Stamp \union {Absent}]
        /\ \A j \in Id : rows'[j] # Absent => rows'[j] = rows[j]
    BY <1>0, <2>1 DEF ListingTypeOK
  <2> QED BY <1>0, <2>1, <2>2, WrittenMeanwhile DEF ListingTypeOK, ListingInv
<1>5. ASSUME NEW q \in Query, Browse(q) PROVE ListingAll'
  <2>1. /\ reading' = TRUE /\ query' = q /\ listed' = <<>> /\ cursor' = <<>>
        /\ steady' = {i \in Id : Matches(q, i)} /\ UNCHANGED <<rows, remembered, replaces>>
    BY <1>5 DEF Browse, listing
  <2>2. \A i \in Id : (Matches(query, i))' = Matches(q, i)
    BY <2>1 DEF Matches, Superseded
  <2>3. ListingTypeOK' /\ ListingInv'
    <3>1. \A i \in steady' : i \in Id /\ rows'[i] # Absent /\ (Matches(query, i))'
      BY <2>1, <2>2 DEF Matches
    <3> QED BY <1>0, <2>1, <3>1 DEF ListingTypeOK, ListingInv
  <2>4. ListingIsExact'
    BY <2>1 DEF ListingIsExact, After
  <2> QED BY <2>3, <2>4 DEF ListingAll
<1>6. ASSUME NEW limit \in Limit, ListRecords(limit) PROVE ListingAll'
  BY <1>6, ListRecordsStep
<1> QED BY <1>1, <1>2, <1>3, <1>4, <1>5, <1>6 DEF ListingNext

LEMMA InitListing == ListingInit => ListingAll
<1> SUFFICES ASSUME ListingInit PROVE ListingAll
  OBVIOUS
<1>1. IsFiniteSet(remembered)
  BY FS_EmptySet DEF ListingInit
<1>2. query \in Query /\ rows \in [Id -> Stamp \union {Absent}]
  BY DEF ListingInit, Query
<1>6. listed \in Seq(Row) /\ replaces \in [Id -> Id \union {Absent}]
  BY DEF ListingInit
<1>7. remembered \subseteq Id /\ cursor \in {<<>>} /\ reading \in BOOLEAN /\ steady = {}
  BY DEF ListingInit
<1>3. ListingTypeOK
  BY <1>2, <1>6, <1>7 DEF ListingTypeOK
<1>4. ListingInv
  BY <1>1 DEF ListingInit, ListingInv
<1>5. ListingIsExact
  BY DEF ListingInit, ListingIsExact
<1> QED BY <1>3, <1>4, <1>5 DEF ListingAll

-----------------------------------------------------------------------------
(* ListingStaysExact: whatever is written between two pages, no row is      *)
(* given twice or out of order, and none that matched throughout is missed *)
(* (the cursor of ListRecords, and the stamp PutRankingMeta keeps).         *)
THEOREM ListingStaysExact == Spec => []ListingIsExact
<1>1. Init => ListingAll
  BY InitListing DEF Init
<1>2. ListingAll /\ [Next]_vars => ListingAll'
  BY ListingStep DEF Next, vars
<1>3. ListingAll => ListingIsExact
  BY DEF ListingAll
<1> QED BY <1>1, <1>2, <1>3, PTL DEF Spec

-----------------------------------------------------------------------------
(* Ranking.                                                                 *)
LEMMA DivisionFalls ==
  ASSUME NEW a \in Nat, NEW b \in Nat \ {0}, NEW c \in Nat \ {0}, b <= c
  PROVE  a \div b \in Nat /\ a \div c <= a \div b
<1> DEFINE q == a \div c
           p == a \div b
<1>1. /\ q \in Nat /\ p \in Nat
      /\ q * c <= a /\ a < b * p + b
  BY SMT
<1> HIDE DEF q, p
<1>2. q * b <= q * c
  BY <1>1, SMT
<1>3. q > p => q * b >= p * b + b
  BY <1>1, SMT
<1>4. q <= p
  BY <1>1, <1>2, <1>3, SMT
<1> QED BY <1>1, <1>4 DEF q, p

(* What a pass adds falls with the rank.                                    *)
LEMMA PassFalls ==
  ASSUME NEW weight \in Nat, NEW m \in Nat, NEW n \in Nat, m <= n
  PROVE  Pass(weight, m) \in Nat /\ Pass(weight, n) <= Pass(weight, m)
<1>1. RRFk \in Nat \ {0}
  BY RankingAssumption
<1>2. RRFk + m \in Nat \ {0} /\ RRFk + n \in Nat \ {0} /\ RRFk + m <= RRFk + n
  BY <1>1
<1> QED BY <1>2, DivisionFalls DEF Pass

LEMMA RankingConstants ==
  /\ RRFk \in Nat /\ Unit \in Nat /\ LexicalWeight \in Nat /\ TagWeight \in Nat
  /\ TypeWeight \in Nat /\ Depth \in Nat \ {0} /\ Reach \in Nat \ {0}
  /\ Watched \subseteq Nat \ {0} /\ Sizes \subseteq Nat \ {0}
BY RankingAssumption

(* The words found at most two records, each once.                          *)
LEMMA WordsAreFew ==
  ASSUME NEW q \in Question
  PROVE  /\ q.words \in Seq(Watched) /\ Len(q.words) \in 0..2
         /\ \A m, n \in 1..Len(q.words) : q.words[m] = q.words[n] => m = n
<1>1. q.words \in Words
  BY DEF Question
<1>2. CASE q.words = <<>>
  BY <1>2
<1>3. CASE \E i \in Watched : q.words = <<i>>
  BY <1>3
<1>4. CASE \E i, j \in Watched : i # j /\ q.words = <<i, j>>
  BY <1>4
<1> QED BY <1>1, <1>2, <1>3, <1>4 DEF Words

(* The place the words gave a record, or 0.                                 *)
LEMMA PlaceInWords ==
  ASSUME NEW q \in Question, NEW i
  PROVE  WordRank(q, i) \in 0..2
<1> DEFINE I == {k \in 1..Len(q.words) : q.words[k] = i}
<1>1. I \in SUBSET (1..2)
  BY WordsAreFew
<1>2. I # {} => Min(I) \in I
  <2> SUFFICES ASSUME I # {} PROVE Min(I) \in I
    OBVIOUS
  <2>1. \E k \in I : \A j \in I : k <= j
    <3>1. CASE 1 \in I
      BY <1>1, <3>1
    <3>2. CASE 1 \notin I
      BY <1>1, <3>2
    <3> QED BY <3>1, <3>2
  <2> QED BY <2>1 DEF Min
<1>3. WordRank(q, i) = IF I # {} THEN Min(I) ELSE 0
  BY DEF WordRank, SelectInSeq
<1> HIDE DEF I
<1>4. CASE I # {}
  <2>1. Min(I) \in 1..2
    BY <1>1, <1>2, <1>4
  <2>2. WordRank(q, i) = Min(I)
    BY <1>3, <1>4
  <2> QED BY <2>1, <2>2
<1>5. CASE I = {}
  BY <1>3, <1>5
<1> QED BY <1>4, <1>5

(* A filter adds at most both of its weights, a word at most that of the    *)
(* first place.                                                            *)
Slack == Pass(LexicalWeight, 1) + TagWeight + TypeWeight

LEMMA BoostIsSmall ==
  ASSUME NEW q \in Question, NEW i
  PROVE  Boost(q, i) \in Nat /\ Boost(q, i) <= TagWeight + TypeWeight
<1>1. TagWeight \in Nat /\ TypeWeight \in Nat
  BY RankingConstants
<1>2. Is(q, i) \in Profiles
  <2>1. Plain \in Profiles
    BY DEF Plain, Profiles
  <2>2. q.profile \in [Watched -> Profile] /\ Profile \subseteq Profiles
    BY RankingAssumption DEF Question
  <2> QED BY <2>1, <2>2 DEF Is
<1>3. Is(q, i).tags \in 0..2 /\ Is(q, i).typed \in BOOLEAN
  BY <1>2 DEF Profiles
<1> DEFINE t == Is(q, i).tags
<1>4. (TagWeight * t) \div 2 \in Nat /\ (TagWeight * t) \div 2 <= TagWeight
  <2>1. CASE t = 0
    BY <1>1, <2>1, SMT
  <2>2. CASE t = 1
    BY <1>1, <2>2, SMT
  <2>3. CASE t = 2
    BY <1>1, <2>3, SMT
  <2> QED BY <1>3, <2>1, <2>2, <2>3
<1>5. q.tags \in BOOLEAN /\ q.types \in BOOLEAN
  BY DEF Question
<1> QED BY <1>1, <1>4, <1>5 DEF Boost

LEMMA ScoresAreClose ==
  ASSUME NEW q \in Question, NEW i \in Nat \ {0}
  PROVE  /\ Slack \in Nat /\ Score(q, i) \in Nat
         /\ i > Depth => Score(q, i) <= Slack
         /\ i <= Depth => /\ Pass(Unit, i) \in Nat
                          /\ Pass(Unit, i) <= Score(q, i)
                          /\ Score(q, i) <= Pass(Unit, i) + Slack
<1> DEFINE position == WordRank(q, i)
           near == IF i <= Depth THEN Pass(Unit, i) ELSE 0
           heard == IF position > 0 THEN Pass(LexicalWeight, position) ELSE 0
           boost == IF Is(q, i).described THEN Boost(q, i) ELSE 0
<1>1. Score(q, i) = near + heard + boost
  BY DEF Score, Fused
<1>2. TagWeight \in Nat /\ TypeWeight \in Nat /\ Unit \in Nat /\ LexicalWeight \in Nat
      /\ Depth \in Nat
  BY RankingConstants
<1>3. Pass(LexicalWeight, 1) \in Nat /\ Pass(Unit, i) \in Nat
  <2>1. 1 <= 1 /\ i <= i /\ i \in Nat
    OBVIOUS
  <2> QED BY <1>2, <2>1, PassFalls
<1>4. heard \in Nat /\ heard <= Pass(LexicalWeight, 1)
  <2>1. position \in 0..2
    BY PlaceInWords
  <2> HIDE DEF position
  <2>2. CASE position = 0
    BY <1>3, <2>2
  <2>3. CASE position > 0
    BY <1>2, <2>1, <2>3, PassFalls
  <2> QED BY <2>1, <2>2, <2>3
<1>5. boost \in Nat /\ boost <= TagWeight + TypeWeight
  BY <1>2, BoostIsSmall
<1>6. near \in Nat /\ (i <= Depth => near = Pass(Unit, i)) /\ (i > Depth => near = 0)
  BY <1>2, <1>3
<1> HIDE DEF near, heard, boost, position
<1> QED BY <1>1, <1>2, <1>3, <1>4, <1>5, <1>6 DEF Slack

(* No filter and no word brings a record from beyond Reach before the one   *)
(* nearest in meaning, nor one only the words found before another.         *)
LEMMA OnlyNearOvertake ==
  ASSUME NEW q \in Question, NEW i \in Nat \ {0}
  PROVE  /\ Score(q, 1) <= Score(q, i) => i <= Reach /\ i <= Depth
         /\ i > Depth => \A j \in 1..Depth : Score(q, j) > Score(q, i)
<1>1. Depth \in Nat \ {0} /\ Reach \in Nat \ {0} /\ Unit \in Nat
  BY RankingConstants
<1>2. ASSUME NEW j \in 1..Depth
      PROVE  /\ Score(q, j) \in Nat /\ Score(q, j) >= Pass(Unit, j)
             /\ Pass(Unit, j) \in Nat /\ Pass(Unit, Depth) \in Nat
             /\ Pass(Unit, Depth) <= Pass(Unit, j)
  <2>1. j \in Nat \ {0} /\ j <= Depth
    BY <1>1
  <2>2. Pass(Unit, j) \in Nat /\ Pass(Unit, Depth) <= Pass(Unit, j)
    BY <1>1, <2>1, PassFalls
  <2>3. Pass(Unit, Depth) \in Nat
    BY <1>1, PassFalls
  <2> QED BY <2>1, <2>2, <2>3, ScoresAreClose
<1>3. /\ Slack \in Nat /\ Score(q, i) \in Nat
      /\ i > Depth => Score(q, i) <= Slack
      /\ i <= Depth => Score(q, i) <= Pass(Unit, i) + Slack /\ Pass(Unit, i) \in Nat
  BY ScoresAreClose
<1>4. Slack < Pass(Unit, Depth) /\ Pass(Unit, Reach + 1) + Slack < Pass(Unit, 1)
  <2>1. /\ Pass(Unit, Reach + 1) \in Nat /\ Pass(LexicalWeight, 1) \in Nat
        /\ TagWeight \in Nat /\ TypeWeight \in Nat
    <3>1. Reach + 1 \in Nat /\ Reach + 1 <= Reach + 1 /\ LexicalWeight \in Nat /\ 1 <= 1
      BY <1>1, RankingConstants
    <3> QED BY <1>1, <3>1, PassFalls, RankingConstants
  <2> QED BY <2>1, WeightsAssumption DEF Slack
<1>5. ASSUME i > Depth, NEW j \in 1..Depth PROVE Score(q, j) > Score(q, i)
  BY <1>2, <1>3, <1>4, <1>5
<1>6. 1 \in 1..Depth
  BY <1>1
<1>7. ASSUME Score(q, 1) <= Score(q, i) PROVE i <= Reach /\ i <= Depth
  <2>1. i <= Depth
    BY <1>1, <1>2, <1>3, <1>5, <1>6, <1>7
  <2>2. ASSUME i > Reach PROVE FALSE
    <3>1. Reach + 1 <= i /\ Reach + 1 \in Nat
      BY <1>1, <2>2
    <3>2. Pass(Unit, i) <= Pass(Unit, Reach + 1) /\ Pass(Unit, Reach + 1) \in Nat
      BY <1>1, <3>1, PassFalls
    <3>3. Pass(Unit, 1) <= Score(q, 1) /\ Score(q, 1) \in Nat /\ Pass(Unit, 1) \in Nat
      BY <1>2, <1>6
    <3> QED BY <1>3, <1>4, <1>7, <2>1, <3>2, <3>3
  <2> QED BY <1>1, <2>1, <2>2
<1> QED BY <1>5, <1>7

(* A record is a candidate once.                                            *)
LEMMA CandidatesAreRecords ==
  ASSUME NEW q \in Question
  PROVE  /\ IsFiniteSet(Ranked(q)) /\ Ranked(q) \subseteq Nat \ {0}
         /\ \A n \in Ranked(q) : IdAt(q, n) \in (1..Depth) \union Watched
         /\ \A m, n \in Ranked(q) : IdAt(q, m) = IdAt(q, n) => m = n
         /\ Kept(q, 1) => 1 \in Ranked(q) /\ IdAt(q, 1) = 1
<1>1. Depth \in Nat \ {0}
  BY RankingConstants
<1>2. /\ q.words \in Seq(Watched) /\ Len(q.words) \in 0..2
      /\ \A m, n \in 1..Len(q.words) : q.words[m] = q.words[n] => m = n
  BY WordsAreFew
<1>3. Ranked(q) \in SUBSET (1..(Depth + Len(q.words)))
  BY DEF Ranked, Candidates, Found
<1>4. IsFiniteSet(Ranked(q)) /\ Ranked(q) \subseteq Nat \ {0}
  <2>1. 1 \in Int /\ Depth + Len(q.words) \in Int
    BY <1>1, <1>2
  <2>2. IsFiniteSet(1..(Depth + Len(q.words)))
    BY <2>1, FS_Interval
  <2>3. IsFiniteSet(Ranked(q))
    BY <1>3, <2>2, FS_Subset
  <2>4. \A n \in Ranked(q) : n \in Nat \ {0}
    BY <1>1, <1>2, <1>3
  <2> QED BY <2>3, <2>4
<1>5. \A n \in Ranked(q) :
        \/ n \in 1..Depth /\ IdAt(q, n) = n
        \/ /\ n - Depth \in 1..Len(q.words) /\ n > Depth
           /\ IdAt(q, n) = q.words[n - Depth] /\ IdAt(q, n) > Depth
  <2> TAKE n \in Ranked(q)
  <2>1. n \in 1..(Depth + Len(q.words)) /\ (n <= Depth \/ IdAt(q, n) > Depth)
    BY DEF Ranked, Candidates, Found
  <2>2. n \in Nat /\ n >= 1 /\ n <= Depth + Len(q.words)
    BY <1>1, <1>2, <2>1
  <2>3. CASE n <= Depth
    BY <1>1, <2>2, <2>3 DEF IdAt
  <2>4. CASE n > Depth
    <3>1. n - Depth \in 1..Len(q.words)
      BY <1>1, <1>2, <2>2, <2>4
    <3>2. IdAt(q, n) = q.words[n - Depth]
      BY <1>1, <2>2, <2>4 DEF IdAt
    <3> QED BY <1>1, <2>1, <2>2, <2>4, <3>1, <3>2
  <2> QED BY <1>1, <2>2, <2>3, <2>4
<1>6. \A n \in Ranked(q) : IdAt(q, n) \in (1..Depth) \union Watched
  BY <1>2, <1>5
<1>7. \A m, n \in Ranked(q) : IdAt(q, m) = IdAt(q, n) => m = n
  <2> TAKE m, n \in Ranked(q)
  <2> HAVE IdAt(q, m) = IdAt(q, n)
  <2>1. m \in Nat /\ n \in Nat
    BY <1>4
  <2>2. CASE m <= Depth
    BY <1>1, <1>5, <2>1, <2>2
  <2>3. CASE m > Depth
    <3>1. n > Depth
      BY <1>1, <1>5, <2>1, <2>3
    <3>2. m - Depth = n - Depth
      <4>1. m - Depth \in 1..Len(q.words) /\ IdAt(q, m) = q.words[m - Depth]
        BY <1>1, <1>5, <2>1, <2>3
      <4>2. n - Depth \in 1..Len(q.words) /\ IdAt(q, n) = q.words[n - Depth]
        BY <1>1, <1>5, <2>1, <3>1
      <4> QED BY <1>2, <4>1, <4>2
    <3> QED BY <1>1, <2>1, <3>2
  <2> QED BY <1>1, <2>1, <2>2, <2>3
<1>8. Kept(q, 1) => 1 \in Ranked(q) /\ IdAt(q, 1) = 1
  BY <1>1, <1>2 DEF Ranked, Candidates, Found, IdAt
<1> QED BY <1>4, <1>6, <1>7, <1>8

Triple == Nat \X Nat \X Nat
TripleBefore == {ab \in Triple \X Triple : Better(ab[1], ab[2])}

LEMMA TriplesAreOrdered ==
  /\ \A a \in Triple : a = <<a[1], a[2], a[3]>>
  /\ \A a \in Triple : a[1] \in Nat /\ a[2] \in Nat /\ a[3] \in Nat
  /\ \A a, b \in Triple : <<a, b>> \in TripleBefore <=> Better(a, b)
  /\ \A a, b \in Triple : Better(a, b) => ~ Better(b, a)
  /\ \A a, b \in Triple : a = b \/ Better(a, b) \/ Better(b, a)
  /\ \A a, b, c \in Triple : Better(a, b) /\ Better(b, c) => Better(a, c)
<1>1. \A a \in Triple : a = <<a[1], a[2], a[3]>>
  BY DEF Triple
<1>2. \A a \in Triple : a[1] \in Nat /\ a[2] \in Nat /\ a[3] \in Nat
  BY DEF Triple
<1>3. \A a, b \in Triple : <<a, b>> \in TripleBefore <=> Better(a, b)
  BY DEF TripleBefore
<1>4. \A a, b \in Triple : Better(a, b) => ~ Better(b, a)
  BY <1>2 DEF Better
<1>5. \A a, b \in Triple : a = b \/ Better(a, b) \/ Better(b, a)
  BY <1>1, <1>2 DEF Better
<1>6. \A a, b, c \in Triple : Better(a, b) /\ Better(b, c) => Better(a, c)
  BY <1>2 DEF Better
<1> QED BY <1>1, <1>2, <1>3, <1>4, <1>5, <1>6

(* What is sorted: a triple for each record that is ranked.                 *)
LEMMA ScoredOnce ==
  ASSUME NEW q \in Question
  PROVE  /\ IsFiniteSet(Scored(q)) /\ Cardinality(Scored(q)) = Cardinality(Ranked(q))
         /\ Scored(q) \subseteq Triple
         /\ \A a \in Scored(q) : a[2] \in (1..Depth) \union Watched /\ a[1] = Score(q, a[2])
         /\ \A a, b \in Scored(q) : a[2] = b[2] => a = b
         /\ Kept(q, 1) => \E a \in Scored(q) : a[2] = 1
<1> DEFINE triple == [n \in Ranked(q) |-> <<Score(q, IdAt(q, n)), IdAt(q, n), n>>]
<1>1. /\ IsFiniteSet(Ranked(q)) /\ Ranked(q) \subseteq Nat \ {0}
      /\ \A n \in Ranked(q) : IdAt(q, n) \in (1..Depth) \union Watched
      /\ \A m, n \in Ranked(q) : IdAt(q, m) = IdAt(q, n) => m = n
      /\ Kept(q, 1) => 1 \in Ranked(q) /\ IdAt(q, 1) = 1
  BY CandidatesAreRecords
<1>2. \A n \in Ranked(q) : IdAt(q, n) \in Nat \ {0} /\ Score(q, IdAt(q, n)) \in Nat
  <2> TAKE n \in Ranked(q)
  <2>2. /\ Depth \in Nat /\ Watched \subseteq Nat \ {0}
    BY RankingConstants
  <2>3. IdAt(q, n) \in 1..Depth \/ IdAt(q, n) \in Watched
    BY <1>1
  <2>4. ASSUME IdAt(q, n) \in 1..Depth PROVE IdAt(q, n) \in Nat \ {0}
    BY <2>2, <2>4
  <2>5. ASSUME IdAt(q, n) \in Watched PROVE IdAt(q, n) \in Nat \ {0}
    BY <2>2, <2>5
  <2>1. IdAt(q, n) \in Nat \ {0}
    BY <2>3, <2>4, <2>5
  <2> QED BY <2>1, ScoresAreClose
<1>3. Scored(q) \subseteq Triple
  BY <1>1, <1>2 DEF Scored, Triple
<1>4. \A a \in Scored(q) : /\ a[3] \in Ranked(q) /\ a[2] = IdAt(q, a[3]) /\ a[1] = Score(q, a[2])
                          /\ a = <<a[1], a[2], a[3]>>
  BY DEF Scored
<1>5. \A a \in Scored(q) : a[2] \in (1..Depth) \union Watched /\ a[1] = Score(q, a[2])
  BY <1>1, <1>4
<1>6. \A a, b \in Scored(q) : a[2] = b[2] => a = b
  <2> TAKE a, b \in Scored(q)
  <2> HAVE a[2] = b[2]
  <2>1. a[3] = b[3]
    BY <1>1, <1>4
  <2>2. a[1] = b[1]
    BY <1>4
  <2> QED BY <1>4, <2>1, <2>2
<1>7. triple \in Bijection(Ranked(q), Scored(q))
  <2>1. triple \in [Ranked(q) -> Scored(q)]
    BY DEF Scored
  <2>2. \A a, b \in Ranked(q) : triple[a] = triple[b] => a = b
    OBVIOUS
  <2>3. \A t \in Scored(q) : \E n \in Ranked(q) : triple[n] = t
    BY DEF Scored
  <2> HIDE DEF triple
  <2> QED BY <2>1, <2>2, <2>3 DEF Bijection, Injection, Surjection, IsInjective
<1>8. IsFiniteSet(Scored(q)) /\ Cardinality(Scored(q)) = Cardinality(Ranked(q))
  <2> HIDE DEF triple
  <2>1. ExistsBijection(Ranked(q), Scored(q))
    BY <1>7 DEF ExistsBijection
  <2> QED BY <1>1, <2>1, FS_Bijection
<1>9. Kept(q, 1) => \E a \in Scored(q) : a[2] = 1
  <2> SUFFICES ASSUME Kept(q, 1) PROVE \E a \in Scored(q) : a[2] = 1
    OBVIOUS
  <2>1. <<Score(q, IdAt(q, 1)), IdAt(q, 1), 1>> \in Scored(q)
    BY <1>1 DEF Scored
  <2> QED BY <1>1, <2>1
<1> QED BY <1>3, <1>5, <1>6, <1>8, <1>9

LEMMA LeastOfTwo ==
  ASSUME NEW a \in Nat, NEW b \in Nat
  PROVE  Min({a, b}) \in Nat /\ Min({a, b}) = IF a <= b THEN a ELSE b
<1>1. CASE a <= b
  <2>1. Min({a, b}) = a
    BY <1>1 DEF Min
  <2> QED BY <1>1, <2>1
<1>2. CASE a > b
  <2>1. Min({a, b}) = b
    BY <1>2 DEF Min
  <2> QED BY <1>2, <2>1
<1> QED BY <1>1, <1>2

(* An answer is as long as it can be, names each record once, best first,   *)
(* and leaves the nearest one out only when it is full of better ones.      *)
LEMMA AnswerIsRanked ==
  ASSUME NEW q \in Question, NEW a, a = Rank(q)
  PROVE  /\ a \in Seq((1..Depth) \union Watched)
         /\ Len(a) = Min({q.limit, Cardinality(Ranked(q))})
         /\ \A m, n \in 1..Len(a) : m < n => a[m] # a[n] /\ Score(q, a[m]) >= Score(q, a[n])
         /\ Kept(q, 1) => \/ \E n \in 1..Len(a) : a[n] = 1
                          \/ /\ Len(a) = q.limit
                             /\ \A n \in 1..Len(a) : Score(q, a[n]) >= Score(q, 1)
<1> DEFINE S == Scored(q)
           C == Cardinality(S)
           P == {<<Cardinality({y \in S : Better(y, x)}), x>> : x \in S}
           f == InOrder(S, Better)
           len == Min({q.limit, C})
<1>1. /\ IsFiniteSet(S) /\ C = Cardinality(Ranked(q)) /\ S \subseteq Triple
      /\ \A x \in S : x[2] \in (1..Depth) \union Watched /\ x[1] = Score(q, x[2])
      /\ \A x, y \in S : x[2] = y[2] => x = y
      /\ Kept(q, 1) => \E x \in S : x[2] = 1
  BY ScoredOnce
<1>2. C \in Nat
  BY <1>1, FS_CardinalityType
<1>3. a = [k \in 1..len |-> f[k][2]]
  BY DEF Rank
<1> HIDE DEF S
<1>4. Strict(S, TripleBefore)
  BY <1>1, TriplesAreOrdered DEF Strict
<1>5. P = Placed(S, TripleBefore)
  <2>1. \A x \in S : {y \in S : Better(y, x)} = {y \in S : <<y, x>> \in TripleBefore}
    BY <1>1, TriplesAreOrdered
  <2> QED BY <2>1 DEF Placed
<1>6. f = [n \in 1..C |-> Nth(P, n)]
  BY DEF InOrder
<1> HIDE DEF P, f
<1>7. /\ \A n \in 1..C : f[n] \in S
      /\ \A m, n \in 1..C : m < n => <<f[m], f[n]>> \in TripleBefore
      /\ \A x \in S : \E n \in 1..C : f[n] = x
  <2>1. \A n \in 1..C : f[n] = Nth(P, n)
    BY <1>6
  <2> HIDE DEF C
  <2>2. C = Cardinality(S)
    BY DEF C
  <2> QED BY <1>1, <1>4, <1>5, <2>1, <2>2, ListsInOrder
<1>8. q.limit \in Nat \ {0}
  BY RankingConstants DEF Question
<1> HIDE DEF C
<1>9. len \in Nat /\ len <= C /\ (len = q.limit \/ len = C)
  BY <1>2, <1>8, LeastOfTwo
<1> HIDE DEF len
<1>10. \A n \in 1..len : n \in 1..C
  BY <1>2, <1>9
<1>11. \A n \in 1..len : /\ f[n] \in S /\ a[n] = f[n][2]
                         /\ a[n] \in (1..Depth) \union Watched /\ f[n][1] = Score(q, a[n])
  BY <1>1, <1>3, <1>7, <1>10
<1>12. a \in Seq((1..Depth) \union Watched) /\ Len(a) = len
  <2>1. a \in [1..len -> (1..Depth) \union Watched]
    BY <1>3, <1>11
  <2> QED BY <1>9, <2>1
<1>13. \A m, n \in 1..C : m < n => Better(f[m], f[n]) /\ f[m] # f[n] /\ f[m][1] >= f[n][1]
  <2> TAKE m, n \in 1..C
  <2> HAVE m < n
  <2>1. f[m] \in Triple /\ f[n] \in Triple
    BY <1>1, <1>7
  <2>2. Better(f[m], f[n])
    BY <1>7, <2>1, TriplesAreOrdered
  <2>3. f[m] # f[n]
    BY <2>1, <2>2, TriplesAreOrdered
  <2>4. f[m][1] \in Nat /\ f[n][1] \in Nat
    BY <2>1, TriplesAreOrdered
  <2> QED BY <2>2, <2>3, <2>4 DEF Better
<1>14. \A m, n \in 1..len : m < n => a[m] # a[n] /\ Score(q, a[m]) >= Score(q, a[n])
  BY <1>1, <1>10, <1>11, <1>13
<1>15. ASSUME Kept(q, 1), \A n \in 1..len : a[n] # 1
       PROVE  len = q.limit /\ \A n \in 1..len : Score(q, a[n]) >= Score(q, 1)
  <2>1. PICK x \in S : x[2] = 1
    BY <1>1, <1>15
  <2>2. PICK k \in 1..C : f[k] = x
    BY <1>7
  <2>3. k > len
    <3>1. k \notin 1..len
      BY <1>11, <1>15, <2>1, <2>2
    <3> QED BY <1>2, <1>9, <3>1
  <2>4. len = q.limit
    BY <1>2, <1>9, <2>3
  <2>5. f[k][1] = Score(q, 1)
    BY <1>1, <2>1, <2>2
  <2>6. ASSUME NEW n \in 1..len PROVE Score(q, a[n]) >= Score(q, 1)
    <3>1. n < k /\ n \in 1..C
      BY <1>9, <1>10, <2>3
    <3>2. f[n][1] >= f[k][1]
      BY <1>13, <3>1
    <3> QED BY <1>11, <2>5, <3>2
  <2> QED BY <2>4, <2>6
<1> QED BY <1>1, <1>12, <1>14, <1>15 DEF len

(* The answer to a question keeps what FiltersOnlyPrefer asks.              *)
LEMMA AnswerPrefers ==
  ASSUME NEW q \in Question, NEW a, a = Rank(q)
  PROVE  /\ \A n \in 1..Len(a) :
              /\ a[n] = 1 => \A m \in 1..n : a[m] <= Reach
              /\ a[n] > Depth => \A m \in n..Len(a) : a[m] > Depth
         /\ 1 \notin ToSet(a) => ~ Kept(q, 1) \/ q.limit < Reach
         /\ \A m, n \in 1..Len(a) : a[m] = a[n] => m = n
<1>1. /\ a \in Seq((1..Depth) \union Watched)
      /\ \A m, n \in 1..Len(a) : m < n => a[m] # a[n] /\ Score(q, a[m]) >= Score(q, a[n])
      /\ Kept(q, 1) => \/ \E n \in 1..Len(a) : a[n] = 1
                       \/ /\ Len(a) = q.limit
                          /\ \A n \in 1..Len(a) : Score(q, a[n]) >= Score(q, 1)
  <2>1. a \in Seq((1..Depth) \union Watched)
    BY AnswerIsRanked
  <2>2. ASSUME NEW m \in 1..Len(a), NEW n \in 1..Len(a), m < n
        PROVE  a[m] # a[n] /\ Score(q, a[m]) >= Score(q, a[n])
    BY <2>2, AnswerIsRanked, Zenon
  <2>3. Kept(q, 1) => \/ \E n \in 1..Len(a) : a[n] = 1
                     \/ /\ Len(a) = q.limit
                        /\ \A n \in 1..Len(a) : Score(q, a[n]) >= Score(q, 1)
    BY AnswerIsRanked
  <2> QED BY <2>1, <2>2, <2>3
<1>2. Depth \in Nat \ {0} /\ Reach \in Nat \ {0} /\ Watched \subseteq Nat \ {0} /\ Len(a) \in Nat
  BY <1>1, RankingConstants
<1>3. \A n \in 1..Len(a) : a[n] \in Nat \ {0}
  <2> TAKE n \in 1..Len(a)
  <2>1. a[n] \in (1..Depth) \union Watched
    BY <1>1
  <2>2. ASSUME a[n] \in 1..Depth PROVE a[n] \in Nat \ {0}
    BY <1>2, <2>2
  <2>3. ASSUME a[n] \in Watched PROVE a[n] \in Nat \ {0}
    BY <1>2, <2>3
  <2> QED BY <2>1, <2>2, <2>3
<1>4. \A n \in 1..Len(a) : Score(q, a[n]) \in Nat
  BY <1>3, ScoresAreClose
<1>5. \A m, n \in 1..Len(a) : m <= n => Score(q, a[m]) >= Score(q, a[n])
  <2> TAKE m, n \in 1..Len(a)
  <2> HAVE m <= n
  <2>1. CASE m = n
    BY <1>4, <2>1
  <2>2. CASE m < n
    BY <1>1, <2>2
  <2> QED BY <1>2, <2>1, <2>2
<1>6. ASSUME NEW n \in 1..Len(a), a[n] = 1, NEW m \in 1..n PROVE a[m] <= Reach
  <2>1. m \in 1..Len(a) /\ m <= n
    BY <1>2
  <2>2. Score(q, 1) <= Score(q, a[m])
    BY <1>4, <1>5, <1>6, <2>1
  <2> QED BY <1>3, <2>1, <2>2, OnlyNearOvertake
<1>7. ASSUME NEW n \in 1..Len(a), a[n] > Depth, NEW m \in n..Len(a) PROVE a[m] > Depth
  <2>1. m \in 1..Len(a) /\ n <= m
    BY <1>2
  <2>2. Score(q, a[n]) >= Score(q, a[m])
    BY <1>5, <2>1
  <2>3. a[m] \in Nat \ {0}
    BY <1>3, <2>1
  <2>4. a[m] \in 1..Depth => Score(q, a[m]) > Score(q, a[n])
    BY <1>3, <1>7, OnlyNearOvertake
  <2> QED BY <1>2, <1>4, <2>1, <2>2, <2>3, <2>4
<1>8. ASSUME 1 \notin ToSet(a), Kept(q, 1) PROVE q.limit < Reach
  <2>1. \A n \in 1..Len(a) : a[n] # 1
    BY <1>1, <1>8, IsListed
  <2>2. Len(a) = q.limit /\ \A n \in 1..Len(a) : Score(q, a[n]) >= Score(q, 1)
    BY <1>1, <1>8, <2>1
  <2>3. \A n \in 1..Len(a) : a[n] \in 2..Reach
    <3> TAKE n \in 1..Len(a)
    <3>1. a[n] \in Nat \ {0} /\ a[n] # 1
      BY <1>3, <2>1
    <3>2. 1 \in Nat \ {0} /\ Score(q, 1) \in Nat /\ Score(q, 1) <= Score(q, a[n])
      BY <1>4, <2>2, ScoresAreClose
    <3>3. a[n] <= Reach
      BY <3>1, <3>2, OnlyNearOvertake
    <3> QED BY <1>2, <3>1, <3>3
  <2>4. a \in Injection(1..Len(a), 2..Reach)
    <3>1. a \in [1..Len(a) -> 2..Reach]
      BY <1>1, <2>3
    <3>2. \A m, n \in 1..Len(a) : a[m] = a[n] => m = n
      BY <1>1, <1>2
    <3> QED BY <3>1, <3>2 DEF Injection, IsInjective
  <2>5. /\ IsFiniteSet(1..Len(a)) /\ Cardinality(1..Len(a)) = Len(a)
        /\ IsFiniteSet(2..Reach) /\ Cardinality(2..Reach) = Reach - 1
    <3>1. 1 \in Int /\ 2 \in Int /\ Len(a) \in Int /\ Reach \in Int
      BY <1>2
    <3>2. /\ IsFiniteSet(1..Len(a))
          /\ Cardinality(1..Len(a)) = IF 1 > Len(a) THEN 0 ELSE Len(a) - 1 + 1
      BY <3>1, FS_Interval
    <3>3. /\ IsFiniteSet(2..Reach)
          /\ Cardinality(2..Reach) = IF 2 > Reach THEN 0 ELSE Reach - 2 + 1
      BY <3>1, FS_Interval
    <3> QED BY <1>2, <3>2, <3>3
  <2>6. Len(a) <= Reach - 1
    BY <2>4, <2>5, FS_Injection
  <2> QED BY <1>2, <2>2, <2>6
<1>9. \A m, n \in 1..Len(a) : a[m] = a[n] => m = n
  BY <1>1, <1>2
<1> QED BY <1>6, <1>7, <1>8, <1>9

LEMMA RankingStep ==
  RankingInv /\ (RankingNext \/ UNCHANGED rankingVars) => RankingInv'
<1> SUFFICES ASSUME RankingInv, RankingNext \/ UNCHANGED rankingVars PROVE RankingInv'
  OBVIOUS
<1>1. CASE UNCHANGED rankingVars
  BY <1>1 DEF rankingVars, RankingInv
<1>2. CASE Ask
  BY <1>2 DEF Ask, RankingInv
<1>3. CASE Answered
  BY <1>3 DEF Answered, RankingInv
<1> QED BY <1>1, <1>2, <1>3 DEF RankingNext

LEMMA RankingHolds == RankingInv => RankingTypeOK /\ FiltersOnlyPrefer
<1> SUFFICES ASSUME RankingInv PROVE RankingTypeOK /\ FiltersOnlyPrefer
  OBVIOUS
<1>1. CASE question = <<>> /\ answer = <<>>
  BY <1>1 DEF RankingTypeOK, FiltersOnlyPrefer, IsInjective
<1>2. CASE question \in Question /\ answer = Rank(question)
  <2>1. answer \in Seq((1..Depth) \union Watched)
        /\ Len(answer) = Min({question.limit, Cardinality(Ranked(question))})
    BY <1>2, AnswerIsRanked
  <2>2. RankingTypeOK
    <3>1. \A m, n \in 1..Len(answer) : answer[m] = answer[n] => m = n
      BY <1>2, AnswerPrefers
    <3>2. DOMAIN answer = 1..Len(answer)
      BY <2>1
    <3>3. IsInjective(answer)
      BY <3>1, <3>2 DEF IsInjective
    <3> QED BY <1>2, <2>1, <3>3 DEF RankingTypeOK
  <2>3. FiltersOnlyPrefer
    BY <1>2, <2>1, AnswerPrefers DEF FiltersOnlyPrefer
  <2> QED BY <2>2, <2>3
<1> QED BY <1>1, <1>2 DEF RankingInv

(* FiltersStayPreferences: with any weights in the proportions the shipped  *)
(* ones keep, no filter and no word costs the answer: rank only ever adds   *)
(* to a score, and adds less than a place in the vector pass is worth.     *)
THEOREM FiltersStayPreferences == Spec => []FiltersOnlyPrefer
<1>1. Init => RankingInv
  BY DEF Init, RankingInit, RankingInv
<1>2. RankingInv /\ [Next]_vars => RankingInv'
  BY RankingStep DEF Next, vars
<1>3. RankingInv => FiltersOnlyPrefer
  BY RankingHolds
<1> QED BY <1>1, <1>2, <1>3, PTL DEF Spec

-----------------------------------------------------------------------------
(* Transcripts.                                                             *)
LEMMA HasLeast ==
  ASSUME NEW S \in SUBSET Nat, NEW n \in Nat, \A x \in S : x <= n, S # {}
  PROVE  Min(S) \in S /\ \A y \in S : Min(S) <= y
<1> DEFINE R == {ab \in S \X S : ab[1] < ab[2]}
<1>1. IsFiniteSet(S)
  BY FS_BoundedSetOfNaturals
<1>2. \A x, y \in S : <<x, y>> \in R <=> x < y
  OBVIOUS
<1>3. \A x \in S : x \in Nat
  OBVIOUS
<1> HIDE DEF R
<1>4. Strict(S, R)
  BY <1>2, <1>3 DEF Strict
<1>5. PICK x \in S : \A y \in S : <<y, x>> \notin R
  BY <1>1, <1>4, HasFirst
<1>6. \A y \in S : x <= y
  <2> TAKE y \in S
  <2>1. ~ (y < x)
    BY <1>2, <1>5
  <2>2. x \in Nat /\ y \in Nat
    BY <1>3
  <2> QED BY <2>1, <2>2
<1>7. \E z \in S : \A y \in S : z <= y
  BY <1>6
<1> QED BY <1>7 DEF Min

LEMMA FirstIs ==
  ASSUME NEW s \in Seq(Turn), NEW m
  PROVE  /\ FirstOf(s, m) \in 0..Len(s)
         /\ FirstOf(s, m) = 0 => \A k \in 1..Len(s) : s[k] # m
         /\ FirstOf(s, m) # 0 => /\ s[FirstOf(s, m)] = m
                                /\ \A k \in 1..Len(s) : s[k] = m => FirstOf(s, m) <= k
<1> DEFINE I == {k \in 1..Len(s) : s[k] = m}
<1>1. FirstOf(s, m) = IF I # {} THEN Min(I) ELSE 0
  BY DEF FirstOf, SelectInSeq
<1>2. Len(s) \in Nat
  OBVIOUS
<1>3. I \in SUBSET Nat /\ \A k \in I : k <= Len(s)
  BY <1>2
<1>4. \A k : k \in I <=> k \in 1..Len(s) /\ s[k] = m
  OBVIOUS
<1> HIDE DEF I
<1>5. CASE I = {}
  BY <1>1, <1>2, <1>4, <1>5
<1>6. CASE I # {}
  <2>1. Min(I) \in I /\ \A k \in I : Min(I) <= k
    BY <1>2, <1>3, <1>6, HasLeast
  <2>2. FirstOf(s, m) = Min(I)
    BY <1>1, <1>6
  <2> QED BY <1>2, <1>4, <2>1, <2>2
<1> QED BY <1>5, <1>6

(* What is said later does not move the first occurrence of a turn.         *)
LEMMA FirstStays ==
  ASSUME NEW s \in Seq(Turn), NEW t \in Seq(Turn), NEW m, NEW k \in 1..Len(s), s[k] = m
  PROVE  FirstOf(s \o t, m) = FirstOf(s, m) /\ FirstOf(s, m) \in 1..k
<1> DEFINE f == FirstOf(s, m)
           g == FirstOf(s \o t, m)
<1>1. /\ s \o t \in Seq(Turn) /\ Len(s \o t) = Len(s) + Len(t) /\ Len(s) \in Nat /\ Len(t) \in Nat
      /\ \A n \in 1..Len(s) : (s \o t)[n] = s[n]
  OBVIOUS
<1>2. f \in 1..Len(s) /\ s[f] = m /\ \A n \in 1..Len(s) : s[n] = m => f <= n
  <2>1. f \in 0..Len(s) /\ f # 0
    BY FirstIs
  <2>2. f \in 1..Len(s)
    BY <1>1, <2>1
  <2> QED BY <2>1, <2>2, FirstIs
<1>3. f \in 1..Len(s \o t) /\ (s \o t)[f] = m
  BY <1>1, <1>2
<1>4. /\ g \in 0..Len(s \o t) /\ g # 0 /\ (s \o t)[g] = m
      /\ \A n \in 1..Len(s \o t) : (s \o t)[n] = m => g <= n
  <2>1. g \in 0..Len(s \o t) /\ g # 0
    <3>1. g \in 0..Len(s \o t)
      BY <1>1, FirstIs
    <3>2. g = 0 => \A n \in 1..Len(s \o t) : (s \o t)[n] # m
      BY <1>1, FirstIs
    <3> QED BY <1>3, <3>1, <3>2
  <2> QED BY <1>1, <2>1, FirstIs
<1> HIDE DEF f, g
<1>5. g <= f
  BY <1>3, <1>4
<1>6. g \in 1..Len(s) /\ s[g] = m
  BY <1>1, <1>2, <1>4, <1>5
<1>7. f <= g /\ f <= k
  BY <1>2, <1>6
<1> QED BY <1>1, <1>2, <1>5, <1>6, <1>7 DEF f, g

LEMMA Joined ==
  ASSUME NEW s \in Seq(Turn), NEW t \in Seq(Turn), NEW u, u = s \o t
  PROVE  /\ u \in Seq(Turn) /\ Len(u) = Len(s) + Len(t) /\ DOMAIN u = 1..Len(u)
         /\ \A k \in 1..Len(s) : u[k] = s[k]
         /\ \A k \in 1..Len(t) : u[Len(s) + k] = t[k]
OBVIOUS

LEMMA Slice ==
  ASSUME NEW s \in Seq(Turn), NEW i \in 1..Len(s), NEW u, u = SubSeq(s, i, Len(s))
  PROVE  /\ u \in Seq(Turn) /\ Len(u) = Len(s) - i + 1
         /\ \A k \in 1..Len(u) : u[k] = s[i + k - 1]
OBVIOUS

LEMMA SliceAndMore ==
  ASSUME NEW s \in Seq(Turn), NEW t \in Seq(Turn), NEW i \in 1..Len(s)
  PROVE  SubSeq(s \o t, i, Len(s \o t)) = SubSeq(s, i, Len(s)) \o t
OBVIOUS

LEMMA SliceOfMore ==
  ASSUME NEW s \in Seq(Turn), NEW t \in Seq(Turn), NEW i \in 1..Len(s), NEW j \in 0..Len(s)
  PROVE  SubSeq(s \o t, i, j) = SubSeq(s, i, j)
OBVIOUS

(* What is said later does not change what a span selects.                  *)
LEMMA SelectStays ==
  ASSUME NEW s \in Seq(Turn), NEW t \in Seq(Turn), NEW i \in 1..Len(s), NEW j \in 1..Len(s),
         i <= j, NEW ends, ends = <<s[i], s[j]>>
  PROVE  Select(ends, s \o t) = Select(ends, s) /\ Select(ends, s) \in Seq(Turn)
<1> DEFINE first == FirstOf(s, ends[1])
           rest == SubSeq(s, first, Len(s))
           all == SubSeq(s \o t, first, Len(s \o t))
           last == FirstOf(rest, ends[2])
<1>1. ends[1] = s[i] /\ ends[2] = s[j]
  OBVIOUS
<1>2. FirstOf(s \o t, ends[1]) = first /\ first \in 1..i
  BY <1>1, FirstStays
<1>3. Len(s) \in Nat /\ Len(t) \in Nat /\ i \in Nat /\ j \in Nat /\ first \in 1..Len(s)
  BY <1>2
<1> HIDE DEF first
<1>4. /\ rest \in Seq(Turn) /\ Len(rest) = Len(s) - first + 1
      /\ \A n \in 1..Len(rest) : rest[n] = s[first + n - 1]
      /\ all = rest \o t
  <2>1. all = rest \o t
    BY <1>3, SliceAndMore
  <2>2. rest = SubSeq(s, first, Len(s))
    OBVIOUS
  <2> HIDE DEF rest, all
  <2> QED BY <1>3, <2>1, <2>2, Slice
<1> HIDE DEF rest, all
<1>5. j - first + 1 \in 1..Len(rest) /\ rest[j - first + 1] = ends[2]
  <2>1. j - first + 1 \in 1..Len(rest)
    BY <1>2, <1>3, <1>4
  <2>3. first + (j - first + 1) - 1 = j
    BY <1>3
  <2>4. rest[j - first + 1] = s[first + (j - first + 1) - 1]
    BY <1>4, <2>1
  <2> QED BY <1>1, <2>1, <2>3, <2>4
<1>6. FirstOf(rest \o t, ends[2]) = last /\ last \in 1..Len(rest)
  <2>1. FirstOf(rest \o t, ends[2]) = last /\ last \in 1..(j - first + 1)
    BY <1>4, <1>5, FirstStays
  <2> QED BY <1>3, <1>4, <1>5, <2>1
<1> HIDE DEF last
<1>7. Select(ends, s) = SubSeq(rest, 1, last)
  <2>1. FirstOf(s, ends[1]) = first /\ first # 0
    BY <1>3 DEF first
  <2>2. SubSeq(s, first, Len(s)) = rest
    BY DEF rest
  <2>3. FirstOf(rest, ends[2]) = last /\ last # 0
    BY <1>4, <1>6 DEF last
  <2> QED BY <2>1, <2>2, <2>3 DEF Select
<1>8. Select(ends, s \o t) = SubSeq(rest \o t, 1, last)
  <2>1. first # 0 /\ last # 0
    BY <1>3, <1>4, <1>6
  <2>2. SubSeq(s \o t, first, Len(s \o t)) = rest \o t
    BY <1>4 DEF all
  <2> QED BY <1>2, <1>6, <2>1, <2>2 DEF Select
<1>9. SubSeq(rest \o t, 1, last) = SubSeq(rest, 1, last) /\ SubSeq(rest, 1, last) \in Seq(Turn)
  BY <1>4, <1>6, SliceOfMore
<1> QED BY <1>7, <1>8, <1>9

TranscriptAll == TranscriptTypeOK /\ TranscriptInv /\ TurnsComeBack

(* A load walks on from where the turn it starts at stands, and if no turn  *)
(* stands twice from there exactly.                                        *)
LEMMA RemainingIs ==
  ASSUME TranscriptTypeOK, TranscriptInv, NEW p \in 1..Len(said), from = said[p], from # Start
  PROVE  /\ Remaining(from) \in Seq(Turn) /\ ToSet(Remaining(from)) \subseteq ToSet(said)
         /\ ~ resent => Remaining(from) = SubSeq(said, p, Len(said))
<1> DEFINE begins == {i \in DOMAIN said : \E n \in DOMAIN said :
                        <<i, n>> \in chunks /\ from \in {said[i], said[n]}}
           b == StartChunk(from)
           walked == SubSeq(said, b, Len(said))
           first == FirstOf(walked, from)
<1>1. said \in Seq(Turn) /\ Len(said) \in Nat /\ DOMAIN said = 1..Len(said) /\ p \in Nat
  BY DEF TranscriptTypeOK
<1>2. b = IF begins # {} THEN Min(begins) ELSE 1
  BY DEF StartChunk
<1>3. \A i \in begins : i \in 1..Len(said) /\ \E n \in 1..Len(said) :
        i <= n /\ (from = said[i] \/ from = said[n])
  <2> TAKE i \in begins
  <2>1. PICK n \in DOMAIN said : <<i, n>> \in chunks /\ from \in {said[i], said[n]}
    OBVIOUS
  <2>2. i <= n
    BY <2>1 DEF TranscriptInv
  <2> QED BY <1>1, <2>1, <2>2
<1> HIDE DEF begins, b
(* The chunk it starts in holds the turn.                                   *)
<1>4. b \in 1..Len(said) /\ \E n \in b..Len(said) : said[n] = from
  <2>2. CASE begins = {}
    <3>1. b = 1 /\ p \in b..Len(said) /\ b \in 1..Len(said)
      BY <1>1, <1>2, <2>2
    <3> QED BY <3>1
  <2>3. CASE begins # {}
    <3>1. begins \in SUBSET Nat /\ \A i \in begins : i <= Len(said)
      BY <1>1, <1>3
    <3>2. Min(begins) \in begins
      BY <1>1, <2>3, <3>1, HasLeast
    <3>3. b \in begins
      BY <1>2, <2>3, <3>2
    <3>4. b \in 1..Len(said)
      BY <1>3, <3>3
    <3>5. PICK n \in 1..Len(said) : b <= n /\ (from = said[b] \/ from = said[n])
      BY <1>3, <3>3
    <3>6. PICK k \in b..Len(said) : said[k] = from
      <4>1. b \in b..Len(said) /\ n \in b..Len(said)
        BY <1>1, <3>4, <3>5
      <4> QED BY <3>5, <4>1
    <3> QED BY <3>4, <3>6
  <2> QED BY <2>2, <2>3
<1>5. PICK n \in b..Len(said) : said[n] = from
  BY <1>4
<1>6. /\ walked \in Seq(Turn) /\ Len(walked) = Len(said) - b + 1
      /\ \A k \in 1..Len(walked) : walked[k] = said[b + k - 1]
  BY <1>1, <1>4
<1>7. n - b + 1 \in 1..Len(walked) /\ walked[n - b + 1] = from
  <2>1. n - b + 1 \in 1..Len(walked) /\ b + (n - b + 1) - 1 = n
    BY <1>1, <1>4, <1>6
  <2> HIDE DEF walked
  <2>2. walked[n - b + 1] = said[b + (n - b + 1) - 1]
    BY <1>6, <2>1
  <2> QED BY <1>5, <2>1, <2>2
<1>8. Remaining(from) = SubSeq(walked, first, Len(walked))
  BY DEF Remaining, b
<1> HIDE DEF walked
<1>9. first \in 1..Len(walked) /\ walked[first] = from /\ first <= n - b + 1
  <2>1. first \in 0..Len(walked) /\ first # 0
    BY <1>6, <1>7, FirstIs
  <2>2. walked[first] = from /\ first <= n - b + 1
    BY <1>6, <1>7, <2>1, FirstIs
  <2> QED BY <1>1, <1>4, <1>6, <2>1, <2>2
<1> HIDE DEF first
<1>10. b + first - 1 \in 1..Len(said) /\ said[b + first - 1] = from
  BY <1>1, <1>4, <1>6, <1>9
<1>11. Remaining(from) = SubSeq(said, b + first - 1, Len(said))
  <2>1. SubSeq(walked, first, Len(walked)) = SubSeq(said, b + first - 1, Len(said))
    BY <1>1, <1>4, <1>9 DEF walked
  <2> QED BY <1>8, <2>1
<1>12. ~ resent => b + first - 1 = p
  BY <1>1, <1>10 DEF TranscriptInv, IsInjective
<1>13. /\ SubSeq(said, b + first - 1, Len(said)) \in Seq(Turn)
       /\ ToSet(SubSeq(said, b + first - 1, Len(said))) \subseteq ToSet(said)
  BY <1>1, <1>10 DEF ToSet
<1> QED BY <1>11, <1>12, <1>13

LEMMA PrefixIs ==
  ASSUME NEW s \in Seq(Turn), NEW t \in Seq(Turn)
  PROVE  IsPrefix(s, t) <=> Len(s) <= Len(t) /\ \A k \in 1..Len(s) : s[k] = t[k]
<1>1. Len(s) \in Nat /\ Len(t) \in Nat
  OBVIOUS
<1>2. ASSUME Len(s) <= Len(t)
      PROVE  SubSeq(s, 1, Len(s)) = SubSeq(t, 1, Len(s)) <=> \A k \in 1..Len(s) : s[k] = t[k]
  <2> DEFINE u == SubSeq(s, 1, Len(s))
             v == SubSeq(t, 1, Len(s))
  <2>1. /\ u \in Seq(Turn) /\ v \in Seq(Turn) /\ Len(u) = Len(s) /\ Len(v) = Len(s)
        /\ \A k \in 1..Len(s) : u[k] = s[k] /\ v[k] = t[k]
    BY <1>1, <1>2
  <2> HIDE DEF u, v
  <2>2. u = v => \A k \in 1..Len(s) : s[k] = t[k]
    BY <2>1
  <2>3. (\A k \in 1..Len(s) : s[k] = t[k]) => u = v
    BY <2>1
  <2> QED BY <2>2, <2>3 DEF u, v
<1> QED BY <1>2 DEF IsPrefix

LEMMA NothingIsPrefix ==
  ASSUME NEW t \in Seq(Turn), NEW s, s = <<>>
  PROVE  IsPrefix(s, t)
<1>1. s \in Seq(Turn) /\ Len(s) = 0 /\ Len(t) \in Nat
  OBVIOUS
<1>2. Len(s) <= Len(t) /\ \A k \in 1..Len(s) : s[k] = t[k]
  BY <1>1
<1>3. IsPrefix(s, t) <=> Len(s) <= Len(t) /\ \A k \in 1..Len(s) : s[k] = t[k]
  BY <1>1, PrefixIs
<1> QED BY <1>2, <1>3

LEMMA LoadPageStep ==
  ASSUME TranscriptAll, NEW limit \in PageSize, LoadPage(limit)
  PROVE  TranscriptAll'
<1> DEFINE turns == Remaining(from)
           more == Len(turns) > limit
           size == IF more THEN limit ELSE Len(turns)
           page == SubSeq(turns, 1, size)
<1>1. /\ ~ ended /\ got' = got \o page /\ from' = (IF more THEN turns[limit + 1] ELSE Start)
      /\ ended' = ~ more /\ told' = (IF more THEN 0 ELSE Len(said))
      /\ UNCHANGED <<said, chunks, resent, span, source>>
  BY DEF LoadPage, cites
<1>2. /\ said \in Seq(Turn) /\ Len(said) \in Nat /\ got \in Seq(Turn) /\ Len(got) \in Nat
      /\ from \in Turn \union {Start} /\ Start \notin Turn /\ limit \in Nat \ {0}
  BY TranscriptAssumption DEF TranscriptAll, TranscriptTypeOK
<1>3. ~ resent => /\ Len(got) <= Len(said) /\ \A k \in 1..Len(got) : got[k] = said[k]
                  /\ from # Start => said[Len(got) + 1] = from /\ Len(got) < Len(said)
  BY <1>2, PrefixIs DEF TranscriptAll, TranscriptInv, TurnsComeBack, PagesFollow, PagesAlwaysFollow
<1>4. /\ turns \in Seq(Turn) /\ ToSet(turns) \subseteq ToSet(said)
      /\ ~ resent => turns = SubSeq(said, Len(got) + 1, Len(said))
  <2>1. CASE from = Start
    <3>1. turns = said /\ got = <<>>
      BY <1>1, <2>1 DEF Remaining, TranscriptAll, TranscriptInv
    <3>2. SubSeq(said, 1, Len(said)) = said
      BY <1>2
    <3>3. Len(got) + 1 = 1
      BY <3>1
    <3> QED BY <1>2, <3>1, <3>2, <3>3
  <2>2. CASE from # Start /\ resent
    <3>1. PICK p \in 1..Len(said) : said[p] = from
      BY <1>2, <2>2 DEF TranscriptAll, TranscriptInv, ToSet
    <3> QED BY <2>2, <3>1, RemainingIs DEF TranscriptAll
  <2>3. CASE from # Start /\ ~ resent
    <3>1. Len(got) + 1 \in 1..Len(said) /\ said[Len(got) + 1] = from
      BY <1>2, <1>3, <2>3
    <3> QED BY <2>3, <3>1, RemainingIs DEF TranscriptAll
  <2> QED BY <2>1, <2>2, <2>3
<1> HIDE DEF turns
<1>5. /\ more \in BOOLEAN /\ size \in 0..Len(turns) /\ Len(turns) \in Nat
      /\ more => size = limit /\ limit + 1 \in 1..Len(turns)
      /\ ~ more => size = Len(turns)
      /\ page \in Seq(Turn) /\ Len(page) = size /\ \A k \in 1..size : page[k] = turns[k]
  BY <1>2, <1>4
<1> HIDE DEF page, size, more
<1>6. /\ got' \in Seq(Turn) /\ Len(got') = Len(got) + size
      /\ \A k \in 1..Len(got) : got'[k] = got[k]
      /\ \A k \in 1..size : got'[Len(got) + k] = page[k]
  <2>1. got \in Seq(Turn) /\ page \in Seq(Turn) /\ got' = got \o page
    BY <1>1, <1>2, <1>5
  <2>2. /\ got' \in Seq(Turn) /\ Len(got') = Len(got) + Len(page)
        /\ \A k \in 1..Len(got) : got'[k] = got[k]
        /\ \A k \in 1..Len(page) : got'[Len(got) + k] = page[k]
    BY <2>1, Joined
  <2> QED BY <1>5, <2>2
<1>7. more => turns[limit + 1] \in Turn /\ turns[limit + 1] \in ToSet(said)
  <2>1. more => turns[limit + 1] \in Turn
    BY <1>4, <1>5
  <2>2. more => turns[limit + 1] \in ToSet(turns)
    BY <1>4, <1>5, IsListed
  <2> QED BY <1>4, <2>1, <2>2
<1>8. ~ resent => /\ Len(turns) = Len(said) - Len(got)
                  /\ \A k \in 1..Len(turns) : turns[k] = said[Len(got) + k]
  <2> SUFFICES ASSUME ~ resent PROVE /\ Len(turns) = Len(said) - Len(got)
                                     /\ \A k \in 1..Len(turns) : turns[k] = said[Len(got) + k]
    OBVIOUS
  <2>1. /\ Len(SubSeq(said, Len(got) + 1, Len(said))) = Len(said) - Len(got)
        /\ \A k \in 1..(Len(said) - Len(got)) :
             SubSeq(said, Len(got) + 1, Len(said))[k] = said[Len(got) + k]
    BY <1>2, <1>3
  <2> QED BY <1>4, <2>1
<1>9. TranscriptTypeOK'
  <2>1. from' \in Turn \union {Start} /\ told' \in Nat
    BY <1>1, <1>2, <1>7
  <2>2. ended' \in BOOLEAN
    BY <1>1, <1>5
  <2> QED BY <1>1, <1>6, <2>1, <2>2 DEF TranscriptAll, TranscriptTypeOK
<1>10. more /\ ~ resent => Len(got') < Len(said) /\ said[Len(got') + 1] = turns[limit + 1]
  <2> SUFFICES ASSUME more, ~ resent
               PROVE  Len(got') < Len(said) /\ said[Len(got') + 1] = turns[limit + 1]
    OBVIOUS
  <2>1. Len(got') = Len(got) + limit /\ limit + 1 <= Len(said) - Len(got)
    BY <1>2, <1>5, <1>6, <1>8
  <2>2. turns[limit + 1] = said[Len(got) + (limit + 1)]
    BY <1>5, <1>8
  <2>3. Len(got) + (limit + 1) = Len(got') + 1 /\ Len(got') < Len(said)
    BY <1>2, <2>1
  <2> QED BY <2>2, <2>3
<1>11. TranscriptInv'
  <2>1. from' = Start /\ ~ ended' => got' = <<>>
    BY <1>1, <1>2, <1>7
  <2>2. from' # Start => from' \in ToSet(said) /\ (~ resent => Len(got') < Len(said))
    BY <1>1, <1>7, <1>10
  <2> QED BY <1>1, <2>1, <2>2 DEF TranscriptAll, TranscriptInv
<1>12. ASSUME ~ resent PROVE \A k \in 1..Len(got') : got'[k] = said[k]
  <2> TAKE k \in 1..Len(got')
  <2>1. CASE k <= Len(got)
    BY <1>2, <1>3, <1>6, <1>12, <2>1
  <2>2. CASE k > Len(got)
    <3>1. k - Len(got) \in 1..size /\ Len(got) + (k - Len(got)) = k
      BY <1>2, <1>5, <1>6, <2>2
    <3>2. got'[Len(got) + (k - Len(got))] = page[k - Len(got)]
      BY <1>6, <3>1
    <3>3. page[k - Len(got)] = turns[k - Len(got)] /\ k - Len(got) \in 1..Len(turns)
      BY <1>5, <3>1
    <3>4. turns[k - Len(got)] = said[Len(got) + (k - Len(got))]
      BY <1>8, <1>12, <3>3
    <3> QED BY <3>1, <3>2, <3>3, <3>4
  <2> QED BY <1>2, <1>5, <1>6, <2>1, <2>2
<1>13. PagesFollow'
  <2> SUFFICES ASSUME ~ resent PROVE /\ IsPrefix(got', said)
                                     /\ from' # Start => said[Len(got') + 1] = from'
                                     /\ ended' => Len(got') = told'
    BY <1>1 DEF PagesFollow, PagesAlwaysFollow
  <2>1. Len(got') <= Len(said)
    BY <1>2, <1>3, <1>5, <1>6, <1>8
  <2>2. IsPrefix(got', said)
    BY <1>2, <1>6, <1>12, <2>1, PrefixIs
  <2>3. from' # Start => said[Len(got') + 1] = from'
    BY <1>1, <1>10
  <2>4. ended' => Len(got') = told'
    <3>1. ended' => size = Len(said) - Len(got) /\ told' = Len(said)
      BY <1>1, <1>5, <1>8
    <3> QED BY <1>2, <1>6, <3>1
  <2> QED BY <2>2, <2>3, <2>4
<1>14. TurnsComeBack'
  BY <1>1, <1>13 DEF TranscriptAll, TurnsComeBack, SourceIsStable
<1> QED BY <1>9, <1>11, <1>14 DEF TranscriptAll

LEMMA LaterSlice ==
  ASSUME NEW s \in Seq(Turn), NEW t \in Seq(Turn), NEW i \in 1..Len(t), NEW j \in 1..Len(t)
  PROVE  SubSeq(s \o t, Len(s) + i, Len(s) + j) = SubSeq(t, i, j)
OBVIOUS

LEMMA SaveStep ==
  ASSUME TranscriptAll, NEW turns \in Seq(Turn), Save(turns)
  PROVE  TranscriptAll'
<1> DEFINE L == Len(said)
<1>1. PICK cut \in SplitMessages(turns) :
        chunks' = chunks \union {<<Len(said) + c[1], Len(said) + c[2]>> :
                                   c \in {b \in (DOMAIN turns) \X cut : Begins(cut, b[1], b[2])}}
  BY DEF Save
<1>2. /\ Len(said) + Len(turns) <= MaxTurns /\ ValidAppend(turns) /\ said' = said \o turns
      /\ resent' = (resent \/ ToSet(turns) \intersect ToSet(said) # {})
      /\ UNCHANGED <<from, got, ended, told, span, source>>
  BY DEF Save, reads, cites
<1>3. said \in Seq(Turn) /\ L \in Nat /\ DOMAIN said = 1..L
  BY DEF TranscriptAll, TranscriptTypeOK
<1>4. Len(turns) \in Nat /\ DOMAIN turns = 1..Len(turns)
  OBVIOUS
<1>5. /\ said' \in Seq(Turn) /\ Len(said') = L + Len(turns) /\ DOMAIN said' = 1..Len(said')
      /\ \A k \in 1..L : said'[k] = said[k]
      /\ \A k \in 1..Len(turns) : said'[L + k] = turns[k]
  BY <1>2, <1>3, Joined
<1>6. \A k \in 1..L : k \in 1..Len(said')
  BY <1>3, <1>4, <1>5
(* A chunk is an old one, or a group of the save.                           *)
<1>7. ASSUME NEW c \in chunks'
      PROVE  \/ c \in chunks /\ c[1] \in 1..L /\ c[2] \in 1..L
             \/ \E i \in 1..Len(turns), n \in cut :
                  /\ n \in 1..Len(turns) /\ Begins(cut, i, n) /\ c = <<L + i, L + n>>
  <2>1. CASE c \in chunks
    BY <1>3, <2>1 DEF TranscriptAll, TranscriptTypeOK
  <2>2. CASE c \notin chunks
    <3>1. PICK b \in (DOMAIN turns) \X cut : Begins(cut, b[1], b[2]) /\ c = <<L + b[1], L + b[2]>>
      BY <1>1, <2>2
    <3>2. b[1] \in 1..Len(turns) /\ b[2] \in cut /\ cut \subseteq 1..Len(turns)
      BY <1>4, <3>1 DEF SplitMessages
    <3> QED BY <3>1, <3>2
  <2> QED BY <2>1, <2>2
<1>8. ASSUME NEW c \in chunks'
      PROVE  /\ c[1] \in 1..Len(said') /\ c[2] \in 1..Len(said') /\ c = <<c[1], c[2]>>
             /\ c[1] <= c[2]
  <2>1. CASE c \in chunks /\ c[1] \in 1..L /\ c[2] \in 1..L
    <3>1. c = <<c[1], c[2]>>
      BY <2>1 DEF TranscriptAll, TranscriptTypeOK
    <3> QED BY <1>6, <2>1, <3>1 DEF TranscriptAll, TranscriptInv
  <2>2. CASE \E i \in 1..Len(turns), n \in cut :
               /\ n \in 1..Len(turns) /\ Begins(cut, i, n) /\ c = <<L + i, L + n>>
    <3>1. PICK i \in 1..Len(turns), n \in 1..Len(turns) :
                 Begins(cut, i, n) /\ c = <<L + i, L + n>>
      BY <2>2
    <3>2. i <= n /\ c[1] = L + i /\ c[2] = L + n
      BY <3>1 DEF Begins
    <3> QED BY <1>3, <1>4, <1>5, <3>1, <3>2
  <2> QED BY <1>7, <2>1, <2>2
<1>9. ASSUME NEW c \in chunks' PROVE c[1] = c[2] \/ Fits(SubSeq(said', c[1], c[2]))
  <2>1. CASE c \in chunks /\ c[1] \in 1..L /\ c[2] \in 1..L
    <3>1. SubSeq(said', c[1], c[2]) = SubSeq(said, c[1], c[2])
      <4>1. c[2] \in 0..Len(said)
        BY <1>3, <2>1
      <4> QED BY <1>2, <1>3, <2>1, <4>1, SliceOfMore
    <3> QED BY <2>1, <3>1 DEF TranscriptAll, TurnsComeBack
  <2>2. CASE \E i \in 1..Len(turns), n \in cut :
               /\ n \in 1..Len(turns) /\ Begins(cut, i, n) /\ c = <<L + i, L + n>>
    <3>1. PICK i \in 1..Len(turns), n \in cut :
                 n \in 1..Len(turns) /\ Begins(cut, i, n) /\ c = <<L + i, L + n>>
      BY <2>2
    <3>2. c[1] = L + i /\ c[2] = L + n
      BY <3>1
    <3>3. CASE i = n
      BY <3>2, <3>3
    <3>4. CASE i # n
      <4>1. i <= n - 1 /\ n - 1 \in 1..Len(turns) /\ (n - 1) + 1 = n /\ n - 1 \in i..(n - 1)
        BY <1>4, <3>1, <3>4 DEF Begins
      <4>2. Begins(cut, i, n - 1)
        <5>1. i..((n - 1) - 1) \subseteq i..(n - 1)
          BY <1>4, <3>1
        <5> QED BY <3>1, <4>1, <5>1 DEF Begins
      <4>3. n - 1 \notin cut
        BY <3>1, <4>1 DEF Begins
      <4>4. Fits(SubSeq(turns, i, (n - 1) + 1))
        BY <1>4, <4>1, <4>2, <4>3 DEF SplitMessages
      <4>5. SubSeq(said', L + i, L + n) = SubSeq(turns, i, n)
        BY <1>2, <1>3, <1>4, <3>1, LaterSlice
      <4> QED BY <3>2, <4>1, <4>4, <4>5
    <3> QED BY <3>3, <3>4
  <2> QED BY <1>7, <2>1, <2>2
<1>10. TranscriptTypeOK'
  <2>1. chunks' \subseteq (DOMAIN said') \X (DOMAIN said')
    BY <1>5, <1>8
  <2>2. resent' \in BOOLEAN /\ Len(said') <= MaxTurns
    BY <1>2, <1>5
  <2> QED BY <1>2, <1>5, <2>1, <2>2 DEF TranscriptAll, TranscriptTypeOK
<1>11. ~ resent' => IsInjective(said')
  <2> SUFFICES ASSUME ~ resent', NEW j \in 1..Len(said'), NEW k \in 1..Len(said'), said'[j] = said'[k]
               PROVE  j = k
    BY <1>5 DEF IsInjective
  <2>1. /\ ~ resent /\ \A m, n \in 1..L : said[m] = said[n] => m = n
        /\ \A m, n \in 1..Len(turns) : turns[m] = turns[n] => m = n
    BY <1>2, <1>3, <1>4 DEF TranscriptAll, TranscriptInv, ValidAppend, IsInjective
  <2>2. ASSUME NEW m \in 1..L, NEW n \in 1..Len(turns) PROVE said[m] # turns[n]
    <3>1. said[m] \in ToSet(said) /\ turns[n] \in ToSet(turns)
      BY <1>3, IsListed
    <3> QED BY <1>2, <3>1
  <2>3. \A m \in 1..Len(said') :
          m \in 1..L \/ (m - L \in 1..Len(turns) /\ said'[m] = turns[m - L])
    <3> TAKE m \in 1..Len(said')
    <3>1. m \in 1..L \/ (m - L \in 1..Len(turns) /\ L + (m - L) = m)
      BY <1>3, <1>4, <1>5
    <3> QED BY <1>5, <3>1
  <2>4. CASE j \in 1..L /\ k \in 1..L
    BY <1>5, <2>1, <2>4
  <2>5. CASE j \in 1..L /\ k \notin 1..L
    BY <1>5, <2>2, <2>3, <2>5
  <2>6. CASE j \notin 1..L /\ k \in 1..L
    BY <1>5, <2>2, <2>3, <2>6
  <2>7. CASE j \notin 1..L /\ k \notin 1..L
    <3>1. j - L = k - L
      BY <2>1, <2>3, <2>7
    <3> QED BY <1>3, <3>1
  <2> QED BY <2>4, <2>5, <2>6, <2>7
<1>12. TranscriptInv'
  <2>1. from' # Start => from' \in ToSet(said') /\ (~ resent' => Len(got') < Len(said'))
    <3> SUFFICES ASSUME from # Start PROVE from \in ToSet(said') /\ (~ resent' => Len(got) < Len(said'))
      BY <1>2
    <3>1. PICK k \in 1..L : said[k] = from
      BY <1>3 DEF TranscriptAll, TranscriptInv, ToSet
    <3>2. said'[k] = from /\ k \in 1..Len(said')
      BY <1>5, <1>6, <3>1
    <3>3. from \in ToSet(said')
      BY <1>5, <3>2, IsListed
    <3>4. ~ resent' => Len(got) < L
      BY <1>2 DEF TranscriptAll, TranscriptInv
    <3>5. Len(got) \in Nat
      BY DEF TranscriptAll, TranscriptTypeOK
    <3> QED BY <1>3, <1>4, <1>5, <3>3, <3>4, <3>5
  <2>2. span' # <<>> => \E i, j \in DOMAIN said' : i <= j /\ span' = <<said'[i], said'[j]>>
    <3> SUFFICES ASSUME span # <<>>
                 PROVE  \E i, j \in DOMAIN said' : i <= j /\ span = <<said'[i], said'[j]>>
      BY <1>2
    <3>1. PICK i, j \in 1..L : i <= j /\ span = <<said[i], said[j]>>
      BY <1>3 DEF TranscriptAll, TranscriptInv
    <3>2. i \in DOMAIN said' /\ j \in DOMAIN said' /\ said'[i] = said[i] /\ said'[j] = said[j]
      BY <1>5, <1>6
    <3> QED BY <3>1, <3>2
  <2>3. from' = Start /\ ~ ended' => got' = <<>>
    BY <1>2 DEF TranscriptAll, TranscriptInv
  <2> QED BY <1>8, <1>11, <2>1, <2>2, <2>3 DEF TranscriptInv
<1>13. PagesFollow'
  <2> SUFFICES ASSUME ~ resent' PROVE /\ IsPrefix(got, said')
                                      /\ from # Start => said'[Len(got) + 1] = from
                                      /\ ended => Len(got) = told
    BY <1>2 DEF PagesFollow, PagesAlwaysFollow
  <2>1. ~ resent /\ IsPrefix(got, said) /\ (from # Start => said[Len(got) + 1] = from)
        /\ (ended => Len(got) = told) /\ (from # Start => Len(got) < L)
    BY <1>2 DEF TranscriptAll, TranscriptInv, TurnsComeBack, PagesFollow, PagesAlwaysFollow
  <2>2. got \in Seq(Turn) /\ Len(got) \in Nat
    BY DEF TranscriptAll, TranscriptTypeOK
  <2>3. Len(got) <= L /\ \A k \in 1..Len(got) : got[k] = said[k]
    BY <1>3, <2>1, <2>2, PrefixIs
  <2>4. Len(got) <= Len(said') /\ \A k \in 1..Len(got) : k \in 1..L /\ got[k] = said'[k]
    BY <1>3, <1>4, <1>5, <2>2, <2>3
  <2>5. IsPrefix(got, said')
    BY <1>5, <2>2, <2>4, PrefixIs
  <2>6. from # Start => Len(got) + 1 \in 1..L
    BY <1>3, <2>1, <2>2
  <2> QED BY <1>5, <2>1, <2>5, <2>6
<1>14. SourceIsStable'
  <2> SUFFICES ASSUME span # <<>> PROVE Select(span, said') = source
    BY <1>2 DEF SourceIsStable
  <2>1. PICK i, j \in 1..L : i <= j /\ span = <<said[i], said[j]>>
    BY <1>3 DEF TranscriptAll, TranscriptInv
  <2>2. Select(span, said \o turns) = Select(span, said)
    BY <1>3, <2>1, SelectStays
  <2>3. Select(span, said) = source
    BY DEF TranscriptAll, TurnsComeBack, SourceIsStable
  <2> QED BY <1>2, <2>2, <2>3
<1> QED BY <1>9, <1>10, <1>12, <1>13, <1>14 DEF TranscriptAll, TurnsComeBack

LEMMA CiteStep ==
  ASSUME TranscriptAll, NEW i \in DOMAIN said, NEW j \in DOMAIN said, Cite(i, j)
  PROVE  TranscriptAll'
<1>1. /\ i <= j /\ span' = <<said[i], said[j]>> /\ source' = Select(span', said)
      /\ UNCHANGED <<said, chunks, resent, from, got, ended, told>>
  BY DEF Cite, reads
<1>2. said \in Seq(Turn) /\ DOMAIN said = 1..Len(said) /\ <<>> \in Seq(Turn)
  BY DEF TranscriptAll, TranscriptTypeOK
<1>3. Select(span', said) \in Seq(Turn)
  BY <1>1, <1>2, SelectStays
<1>4. TranscriptTypeOK'
  BY <1>1, <1>2, <1>3 DEF TranscriptAll, TranscriptTypeOK
<1>5. TranscriptInv'
  BY <1>1 DEF TranscriptAll, TranscriptInv
<1>6. TurnsComeBack'
  BY <1>1 DEF TranscriptAll, TurnsComeBack, PagesFollow, PagesAlwaysFollow, SourceIsStable
<1> QED BY <1>4, <1>5, <1>6 DEF TranscriptAll

LEMMA TranscriptStep ==
  TranscriptAll /\ (TranscriptNext \/ UNCHANGED transcriptVars) => TranscriptAll'
<1> SUFFICES ASSUME TranscriptAll, TranscriptNext \/ UNCHANGED transcriptVars PROVE TranscriptAll'
  OBVIOUS
<1>1. CASE UNCHANGED transcriptVars
  <2>1. UNCHANGED <<said, chunks, resent, from, got, ended, told, span, source>>
    BY <1>1 DEF transcriptVars, reads, cites
  <2> QED BY <2>1 DEF TranscriptAll, TranscriptTypeOK, TranscriptInv, TurnsComeBack, PagesFollow,
                      PagesAlwaysFollow, SourceIsStable
<1>2. ASSUME NEW n \in 1..MaxTurns, NEW turns \in [1..n -> Turn], Save(turns) PROVE TranscriptAll'
  <2>1. turns \in Seq(Turn)
    BY TranscriptAssumption
  <2> QED BY <1>2, <2>1, SaveStep
<1>3. ASSUME NEW limit \in PageSize, LoadPage(limit) PROVE TranscriptAll'
  BY <1>3, LoadPageStep
<1>4. CASE Reopen
  <2>1. /\ from' = Start /\ got' = <<>> /\ ended' = FALSE /\ told' = 0
        /\ UNCHANGED <<said, chunks, resent, span, source>>
    BY <1>4 DEF Reopen, cites
  <2>2. said \in Seq(Turn) /\ Len(said) \in Nat /\ <<>> \in Seq(Turn) /\ Len(<<>>) = 0
    BY DEF TranscriptAll, TranscriptTypeOK
  <2>3. IsPrefix(got', said)
    BY <2>1, <2>2, NothingIsPrefix
  <2>4. TranscriptTypeOK'
    BY <2>1, <2>2 DEF TranscriptAll, TranscriptTypeOK
  <2>5. TranscriptInv'
    <3>1. /\ ~ resent => IsInjective(said)
          /\ \A c \in chunks : c[1] <= c[2]
          /\ span # <<>> => \E i, j \in DOMAIN said : i <= j /\ span = <<said[i], said[j]>>
      BY DEF TranscriptAll, TranscriptInv
    <3> QED BY <2>1, <3>1 DEF TranscriptInv
  <2>6. TurnsComeBack'
    BY <2>1, <2>3 DEF TranscriptAll, TurnsComeBack, PagesFollow, PagesAlwaysFollow, SourceIsStable
  <2> QED BY <2>4, <2>5, <2>6 DEF TranscriptAll
<1>5. ASSUME NEW i \in DOMAIN said, NEW j \in DOMAIN said, Cite(i, j) PROVE TranscriptAll'
  BY <1>5, CiteStep
<1> QED BY <1>1, <1>2, <1>3, <1>4, <1>5 DEF TranscriptNext

LEMMA InitTranscript == TranscriptInit => TranscriptAll
<1> SUFFICES ASSUME TranscriptInit PROVE TranscriptAll
  OBVIOUS
<1>1. <<>> \in Seq(Turn) /\ Len(<<>>) = 0 /\ MaxTurns \in Nat /\ DOMAIN <<>> = {}
  BY TranscriptAssumption
<1>6. /\ said = <<>> /\ chunks = {} /\ resent = FALSE /\ from = Start /\ got = <<>>
      /\ ended = FALSE /\ told = 0 /\ span = <<>> /\ source = <<>>
  BY DEF TranscriptInit
<1>2. IsPrefix(got, said)
  BY <1>1, <1>6, NothingIsPrefix
<1>8. said \in Seq(Turn) /\ got \in Seq(Turn) /\ source \in Seq(Turn) /\ Len(said) <= MaxTurns
  BY <1>1, <1>6
<1>3. TranscriptTypeOK
  BY <1>6, <1>8 DEF TranscriptTypeOK
<1>7. IsInjective(<<>>)
  BY <1>1 DEF IsInjective
<1>4. TranscriptInv
  BY <1>6, <1>7 DEF TranscriptInv
<1>5. TurnsComeBack
  BY <1>2, <1>6 DEF TurnsComeBack, PagesFollow, PagesAlwaysFollow, SourceIsStable
<1> QED BY <1>3, <1>4, <1>5 DEF TranscriptAll

(* TranscriptsComeBack: for any turns, sizes, page sizes and saves between  *)
(* two pages, transcript pages over the conversation without a gap, a span  *)
(* selects the same turns for ever, and no chunk is larger than it must be. *)
THEOREM TranscriptsComeBack == Spec => []TurnsComeBack
<1>1. Init => TranscriptAll
  BY InitTranscript DEF Init
<1>2. TranscriptAll /\ [Next]_vars => TranscriptAll'
  BY TranscriptStep DEF Next, vars
<1>3. TranscriptAll => TurnsComeBack
  BY DEF TranscriptAll
<1> QED BY <1>1, <1>2, <1>3, PTL DEF Spec

(* TypeCorrect: what is read back keeps its types.                          *)
THEOREM TypeCorrect == Spec => []TypeOK
<1> DEFINE IInv == /\ desk \in {"listing", "transcript", "ranking"}
                   /\ ListingAll /\ TranscriptAll /\ RankingInv
<1>1. Init => IInv
  BY InitListing, InitTranscript DEF Init, RankingInit, RankingInv
<1>2. IInv /\ [Next]_vars => IInv'
  BY ListingStep, TranscriptStep, RankingStep DEF Next, vars
<1>3. IInv => TypeOK
  BY RankingHolds DEF ListingAll, TranscriptAll, TypeOK
<1> QED BY <1>1, <1>2, <1>3, PTL DEF Spec

-----------------------------------------------------------------------------
(* The cut of a conversation.                                               *)
LEMMA HasGreatest ==
  ASSUME NEW n \in Nat, NEW S \in SUBSET (0..n), S # {}
  PROVE  \E x \in S : \A y \in S : y <= x
<1> DEFINE T == {n - y : y \in S}
<1>1. T \in SUBSET Nat /\ T # {} /\ \A t \in T : t <= n
  <2>1. \A y \in S : y \in 0..n /\ n - y \in Nat /\ n - y <= n
    OBVIOUS
  <2>2. T # {}
    OBVIOUS
  <2> QED BY <2>1, <2>2
<1>2. \A y \in S : n - y \in T
  OBVIOUS
<1>3. \A t \in T : \E y \in S : t = n - y
  OBVIOUS
<1> HIDE DEF T
<1>4. Min(T) \in T /\ \A t \in T : Min(T) <= t
  BY <1>1, HasLeast
<1>5. PICK x \in S : Min(T) = n - x
  BY <1>3, <1>4
<1>6. \A y \in S : n - x <= n - y
  BY <1>2, <1>4, <1>5
<1>7. \A y \in S : y \in Int /\ x \in Int
  OBVIOUS
<1> QED BY <1>6, <1>7

(* Whether the group from i must end with turn n: SplitMessages' condition. *)
Full(turns, i, n) == n = Len(turns) \/ ~ Fits(SubSeq(turns, i, n + 1))

Greedy(turns, cut, last) ==
  \A i, n \in 1..last : Begins(cut, i, n) => (n \in cut <=> Full(turns, i, n))

(* The cuts of the first turns can be gone on with while there are more.    *)
LEMMA CutGoesOn ==
  ASSUME NEW turns \in Seq(Turn), NEW k \in Nat, k < Len(turns),
         NEW cut \in SUBSET (1..k), k = 0 \/ k \in cut, Greedy(turns, cut, k)
  PROVE  \E m \in (k + 1)..Len(turns) : Greedy(turns, cut \union {m}, m)
<1> DEFINE T == {n \in (k + 1)..Len(turns) : Full(turns, k + 1, n)}
           m == Min(T)
           new == cut \union {m}
<1>1. Len(turns) \in Nat
  OBVIOUS
<1>2. T \in SUBSET Nat /\ Len(turns) \in T /\ \A t \in T : t <= Len(turns)
  BY <1>1 DEF Full
<1>3. m \in T /\ \A t \in T : m <= t
  BY <1>1, <1>2, HasLeast
<1>4. m \in (k + 1)..Len(turns) /\ Full(turns, k + 1, m)
  BY <1>3
<1>5. \A n \in (k + 1)..(m - 1) : ~ Full(turns, k + 1, n)
  BY <1>1, <1>3, <1>4
<1> HIDE DEF T, m
<1>6. ASSUME NEW i \in 1..m, NEW n \in 1..m, Begins(new, i, n)
      PROVE  n \in new <=> Full(turns, i, n)
  <2>1. i <= n /\ (i = 1 \/ i - 1 \in new) /\ new \intersect (i..(n - 1)) = {}
    BY <1>6 DEF Begins
  <2>2. CASE n <= k
    <3>1. i \in 1..k /\ n \in 1..k /\ Begins(cut, i, n)
      BY <1>1, <1>4, <2>1, <2>2 DEF Begins
    <3>2. n \in new <=> n \in cut
      BY <1>1, <1>4, <2>2
    <3> QED BY <3>1, <3>2 DEF Greedy
  <2>3. CASE n > k
    <3>1. i > k
      BY <1>1, <1>4, <2>1, <2>3
    <3>2. i = k + 1
      BY <1>1, <1>4, <2>1, <3>1
    <3>3. n \in new <=> n = m
      BY <1>1, <1>4, <2>3
    <3>4. n = m \/ n \in (k + 1)..(m - 1)
      BY <1>1, <1>4, <2>3
    <3> QED BY <1>4, <1>5, <3>2, <3>3, <3>4
  <2> QED BY <1>1, <1>4, <2>2, <2>3
<1>7. Greedy(turns, new, m)
  BY <1>6 DEF Greedy
<1> QED BY <1>4, <1>7

(* Below the first turn they differ on two cuts have the same groups.       *)
LEMMA CutsAgree ==
  ASSUME NEW turns \in Seq(Turn), NEW n \in 1..Len(turns),
         NEW a \in SUBSET (1..Len(turns)), NEW b \in SUBSET (1..Len(turns)),
         Greedy(turns, a, Len(turns)), Greedy(turns, b, Len(turns)),
         \A k \in 1..(n - 1) : k \in a <=> k \in b
  PROVE  n \in a <=> n \in b
<1> DEFINE S == {0} \union {k \in 1..(n - 1) : k \in a}
<1>1. Len(turns) \in Nat /\ n \in Nat /\ n - 1 \in Nat
  OBVIOUS
<1>2. S \in SUBSET (0..(n - 1)) /\ S # {}
  BY <1>1
<1>3. PICK g \in S : \A k \in S : k <= g
  BY <1>1, <1>2, HasGreatest
<1>4. g \in 0..(n - 1) /\ (g = 0 \/ g \in a) /\ a \intersect ((g + 1)..(n - 1)) = {}
  BY <1>1, <1>3
<1>5. (g = 0 \/ g \in b) /\ b \intersect ((g + 1)..(n - 1)) = {}
  BY <1>1, <1>4
<1>6. g + 1 \in 1..Len(turns) /\ g + 1 <= n /\ g + 1 - 1 = g /\ (g = 0 => g + 1 = 1)
  BY <1>1, <1>4
<1>7. Begins(a, g + 1, n) /\ Begins(b, g + 1, n)
  BY <1>4, <1>5, <1>6 DEF Begins
<1> QED BY <1>6, <1>7 DEF Greedy

(* SavesAreCutOneWay: whatever turns are saved, SplitMessages cuts them, and *)
(* in one way only, so a save never fails for want of a cut and a chunk is  *)
(* decided by the turns it is made of.                                     *)
THEOREM SavesAreCutOneWay ==
  ASSUME NEW turns \in Seq(Turn)
  PROVE  \E cut : SplitMessages(turns) = {cut}
<1> DEFINE L == Len(turns)
           CutTo(k) == {cut \in SUBSET (1..k) : (k = 0 \/ k \in cut) /\ Greedy(turns, cut, k)}
           S == {k \in 0..L : CutTo(k) # {}}
<1>1. L \in Nat /\ DOMAIN turns = 1..L
  OBVIOUS
<1>2. SplitMessages(turns) = {cut \in SUBSET (1..L) : Greedy(turns, cut, L)}
  BY <1>1 DEF SplitMessages, Greedy, Full
<1>3. 0 \in S
  <2>1. Greedy(turns, {}, 0)
    BY DEF Greedy
  <2>2. {} \in CutTo(0)
    BY <2>1
  <2> QED BY <1>1, <2>2
<1>4. PICK g \in S : \A k \in S : k <= g
  <2>1. S \in SUBSET (0..L) /\ S # {}
    BY <1>3
  <2> HIDE DEF S
  <2> QED BY <1>1, <2>1, HasGreatest
<1>5. g \in 0..L /\ CutTo(g) # {}
  BY <1>4
<1>6. g \in Nat /\ Len(turns) \in Nat /\ g <= Len(turns)
  BY <1>1, <1>5
<1>7. g = L
  <2>1. SUFFICES ASSUME g < Len(turns) PROVE FALSE
    BY <1>6
  <2>2. PICK cut \in SUBSET (1..g) : (g = 0 \/ g \in cut) /\ Greedy(turns, cut, g)
    BY <1>5
  <2>3. PICK m \in (g + 1)..L : Greedy(turns, cut \union {m}, m)
    BY <1>6, <2>1, <2>2, CutGoesOn
  <2>4. cut \union {m} \in SUBSET (1..m) /\ m \in cut \union {m} /\ m \in 0..L /\ m > g
    BY <1>1, <1>5, <2>2, <2>3
  <2>5. cut \union {m} \in CutTo(m)
    BY <2>3, <2>4
  <2>6. m \in S
    BY <2>4, <2>5
  <2> QED BY <1>1, <1>4, <1>5, <2>4, <2>6
<1>8. PICK cut : cut \in SplitMessages(turns)
  BY <1>2, <1>5, <1>7
<1>9. ASSUME NEW other \in SplitMessages(turns) PROVE other = cut
  <2> DEFINE D == {k \in 1..L : ~ (k \in other <=> k \in cut)}
  <2>1. SUFFICES ASSUME D # {} PROVE FALSE
    BY <1>2, <1>8
  <2>2. D \in SUBSET Nat /\ \A k \in D : k <= L
    BY <1>1
  <2>3. Min(D) \in D /\ \A k \in D : Min(D) <= k
    BY <1>1, <2>1, <2>2, HasLeast
  <2>4. Min(D) \in 1..L /\ ~ (Min(D) \in other <=> Min(D) \in cut)
    BY <2>3
  <2>5. \A k \in 1..(Min(D) - 1) : k \in other <=> k \in cut
    BY <1>1, <2>3, <2>4
  <2> HIDE DEF D
  <2> QED BY <1>2, <1>8, <2>4, <2>5, CutsAgree
<1> QED BY <1>8, <1>9
===============================================================================
