-------------------------- MODULE TimerQueueProofs --------------------------
(***************************************************************************)
(* Theorems about TimerQueue, for any number of timers, any trigger times  *)
(* and intervals, and any length of the heap: what heap.Push and heap.Pop  *)
(* do to the array, and with it the safety of the queue.                   *)
(***************************************************************************)
EXTENDS TimerQueue, InductionLemmas, SequenceTheorems

-----------------------------------------------------------------------------
(* The positions that an entry visits in the array.                        *)

\* A function on 1..n is a sequence.
LEMMA FunctionSeq ==
    ASSUME NEW n \in Nat, NEW S, NEW f \in [1..n -> S]
    PROVE  f \in Seq(S) /\ Len(f) = n /\ DOMAIN f = 1..n
OBVIOUS

\* From position i an entry moves up while i is in R, the positions of the
\* array where it is less than the parent.
IsClimb(path, R, n) ==
    path = [i \in 1..n |-> IF i \in R THEN {i} \cup path[i \div 2] ELSE {i}]

\* Climbs add one position.
LEMMA ClimbLonger ==
    ASSUME NEW R, NEW n \in Nat, \A i \in R : i \in Nat /\ i > 1, NEW f, IsClimb(f, R, n)
    PROVE  \E g : IsClimb(g, R, n + 1)
<1> DEFINE g == [i \in 1..(n + 1) |-> IF i <= n THEN f[i]
                                      ELSE IF i \in R THEN {i} \cup f[i \div 2] ELSE {i}]
<1>1. ASSUME NEW i \in 1..(n + 1)
      PROVE  g[i] = IF i \in R THEN {i} \cup g[i \div 2] ELSE {i}
  <2>1. ASSUME i \in R
        PROVE  g[i \div 2] = f[i \div 2]
    <3>1. i > 1 /\ i \in Nat /\ i <= n + 1
      BY <2>1
    <3>2. i \div 2 \in 1..n
      BY <3>1
    <3>3. \A q \in 1..n : g[q] = f[q]
      OBVIOUS
    <3> HIDE DEF g
    <3> QED BY <3>2, <3>3
  <2>2. ASSUME i <= n
        PROVE  g[i] = f[i] /\ f[i] = IF i \in R THEN {i} \cup f[i \div 2] ELSE {i}
    <3>1. i \in 1..n
      BY <2>2
    <3>2. g[i] = f[i]
      BY <3>1
    <3> HIDE DEF g
    <3>3. f[i] = IF i \in R THEN {i} \cup f[i \div 2] ELSE {i}
      BY <3>1 DEF IsClimb
    <3> QED BY <3>2, <3>3
  <2>3. ~(i <= n) => g[i] = IF i \in R THEN {i} \cup f[i \div 2] ELSE {i}
    OBVIOUS
  <2> HIDE DEF g
  <2> QED BY <2>1, <2>2, <2>3
<1>2. g = [i \in 1..(n + 1) |-> g[i]]
  OBVIOUS
<1> HIDE DEF g
<1>3. IsClimb(g, R, n + 1)
  BY <1>1, <1>2 DEF IsClimb
<1> QED BY <1>3

LEMMA ClimbExists ==
    ASSUME NEW R, NEW n \in Nat, \A i \in R : i \in Nat /\ i > 1
    PROVE  \E path : IsClimb(path, R, n)
<1> DEFINE P == {m \in Nat : \E f : IsClimb(f, R, m)}
<1>1. 0 \in P
  <2>1. IsClimb([i \in 1..0 |-> {}], R, 0)
    BY DEF IsClimb
  <2> QED BY <2>1
<1>2. ASSUME NEW m \in P
      PROVE  m + 1 \in P
  <2>1. m \in Nat /\ \E f : IsClimb(f, R, m)
    OBVIOUS
  <2>2. \E g : IsClimb(g, R, m + 1)
    BY <2>1, ClimbLonger
  <2> QED BY <2>1, <2>2
<1>3. P \in SUBSET Nat
  OBVIOUS
<1> HIDE DEF P
<1>4. n \in P
  BY <1>1, <1>2, <1>3, SetInduction
<1> QED BY <1>4 DEF P

\* A climb from n: the visited positions are n and, one after the other, the
\* parents of those in R; the last one is not in R.
Climb(path, R, n) ==
    /\ n \in path
    /\ \A i \in path : i \in 1..n
    /\ \A i \in path : i \in R => i \div 2 \in path
    /\ \A i \in path : i # n => \E j \in path : j \in R /\ j \div 2 = i
    /\ \A i, j \in path : i \notin R => i <= j
    /\ \A i, j \in path : i < j => i <= j \div 2

LEMMA ClimbFacts ==
    ASSUME NEW R, NEW n \in Nat, \A i \in R : i \in Nat /\ i > 1,
           NEW path, IsClimb(path, R, n)
    PROVE  \A k \in 1..n : Climb(path[k], R, k)
<1> DEFINE P == {m \in Nat : \A k \in 1..n : k <= m => Climb(path[k], R, k)}
<1>1. 0 \in P
  OBVIOUS
<1>2. ASSUME NEW m \in P
      PROVE  m + 1 \in P
  <2> SUFFICES ASSUME m + 1 \in 1..n
               PROVE  Climb(path[m + 1], R, m + 1)
    OBVIOUS
  <2> DEFINE k == m + 1
  <2>0. k \in 1..n /\ k \in Nat /\ m \in Nat
    OBVIOUS
  <2>1. path[k] = IF k \in R THEN {k} \cup path[k \div 2] ELSE {k}
    BY <2>0 DEF IsClimb
  <2>2. CASE k \notin R
    <3>1. path[k] = {k}
      BY <2>1, <2>2
    <3> QED BY <2>0, <2>2, <3>1 DEF Climb
  <2>3. CASE k \in R
    <3> DEFINE q == k \div 2
    <3>1. q \in 1..m /\ q \in 1..n /\ q < k
      BY <2>0, <2>3
    <3>2. Climb(path[q], R, q)
      BY <3>1
    <3>3. path[k] = {k} \cup path[q]
      BY <2>1, <2>3
    <3>a. k \div 2 = q
      OBVIOUS
    <3> HIDE DEF q, k
    <3>4. \A i \in path[q] : i \in 1..q /\ i < k
      BY <2>0, <3>1, <3>2 DEF Climb
    <3>5. /\ k \in path[k]
          /\ \A i \in path[k] : i \in 1..k
          /\ \A i \in path[k] : i \in R => i \div 2 \in path[k]
      BY <2>0, <3>1, <3>2, <3>3, <3>4, <3>a DEF Climb
    <3>6. ASSUME NEW i \in path[k], i # k
          PROVE  \E j \in path[k] : j \in R /\ j \div 2 = i
      <4>1. i \in path[q]
        BY <3>3, <3>6
      <4>2. CASE i = q
        BY <2>3, <3>3, <3>a, <4>2
      <4>3. CASE i # q
        BY <3>2, <3>3, <4>1, <4>3 DEF Climb
      <4> QED BY <4>2, <4>3
    <3>7. \A i, j \in path[k] : i \notin R => i <= j
      BY <2>0, <2>3, <3>2, <3>3, <3>4 DEF Climb
    <3>8. ASSUME NEW i \in path[k], NEW j \in path[k], i < j
          PROVE  i <= j \div 2
      <4>1. CASE j = k
        <5>1. i \in path[q]
          BY <2>0, <3>3, <3>8, <4>1
        <5> QED BY <3>4, <3>a, <4>1, <5>1
      <4>2. CASE j # k
        <5>1. j \in path[q]
          BY <3>3, <4>2
        <5>2. i \in path[q]
          BY <2>0, <3>3, <3>4, <3>8, <5>1
        <5> QED BY <3>2, <3>8, <5>1, <5>2 DEF Climb
      <4> QED BY <4>1, <4>2
    <3>9. Climb(path[k], R, k)
      BY <3>5, <3>6, <3>7, <3>8 DEF Climb
    <3> QED BY <3>9 DEF k
  <2> QED BY <2>2, <2>3
<1>3. P \in SUBSET Nat
  OBVIOUS
<1> HIDE DEF P
<1>4. n \in P
  BY <1>1, <1>2, <1>3, SetInduction
<1> QED BY <1>4 DEF P

-----------------------------------------------------------------------------
(* heap.Push.                                                              *)

\* Entries are ordered by their stamps and ids.
LEMMA LessOrder ==
    ASSUME NEW a \in Entry, NEW b \in Entry, NEW c \in Entry
    PROVE  /\ Less(a, b) => ~Less(b, a)
           /\ ~Less(b, a) /\ ~Less(c, b) => ~Less(c, a)
           /\ ~Less(b, a) => a.stamp <= b.stamp
BY DEF Less, Entry, Ids

\* Where x, appended to h, is less than its parent.
Rises(h, x) == {i \in 2..(Len(h) + 1) : Less(x, h[i \div 2])}

\* g is what heap.Push makes of h when x visits the positions in path.
Pushed(g, h, x, path) ==
    /\ Climb(path, Rises(h, x), Len(h) + 1)
    /\ g = [i \in 1..(Len(h) + 1) |->
               IF i \notin path THEN h[i]
               ELSE IF i \in Rises(h, x) THEN h[i \div 2] ELSE x]

LEMMA PushShape ==
    ASSUME NEW h \in Seq(Entry), NEW x \in Entry
    PROVE  \E path : Pushed(Push(h, x), h, x, path)
<1> DEFINE n == Len(h) + 1
           R == Rises(h, x)
           Is(p) == p = [i \in 1..n |-> IF i > 1 /\ Less(x, h[i \div 2])
                                        THEN {i} \cup p[i \div 2] ELSE {i}]
           path == CHOOSE p : Is(p)
<1>1. n \in Nat /\ n \in 1..n
  BY LenProperties
<1>2. \A i \in 1..n : i \in R <=> i > 1 /\ Less(x, h[i \div 2])
  BY <1>1 DEF Rises
<1>3. Push(h, x) = [i \in 1..n |-> IF i \notin path[n] THEN h[i]
                                   ELSE IF i > 1 /\ Less(x, h[i \div 2])
                                        THEN h[i \div 2] ELSE x]
  BY Zenon DEF Push
<1>4. \A i \in R : i \in Nat /\ i > 1
  BY <1>1 DEF Rises
<1>5. Is(path)
  <2>1. PICK p : IsClimb(p, R, n)
    <3> HIDE DEF R, n
    <3> QED BY <1>1, <1>4, ClimbExists
  <2>2. Is(p)
    <3> HIDE DEF n, R
    <3> QED BY <1>2, <2>1 DEF IsClimb
  <2> HIDE DEF Is
  <2> QED BY <2>2
<1> HIDE DEF path
<1>6. IsClimb(path, R, n)
  <2> HIDE DEF n, R
  <2> QED BY <1>2, <1>5 DEF IsClimb
<1>7. Climb(path[n], R, n)
  <2> HIDE DEF n, R
  <2> QED BY <1>1, <1>4, <1>6, ClimbFacts
<1>8. Push(h, x) = [i \in 1..n |-> IF i \notin path[n] THEN h[i]
                                   ELSE IF i \in R THEN h[i \div 2] ELSE x]
  <2> HIDE DEF n, R
  <2> QED BY <1>2, <1>3
<1>9. Pushed(Push(h, x), h, x, path[n])
  BY <1>7, <1>8 DEF Pushed
<1> QED BY <1>9

\* The entries of h and x take one place each.
PushFrom(path, R, i) == IF i \notin path THEN i ELSE IF i \in R THEN i \div 2 ELSE 0

LEMMA PushSource ==
    ASSUME NEW h \in Seq(Entry), NEW x \in Entry, NEW path, NEW g, Pushed(g, h, x, path),
           NEW i \in 1..(Len(h) + 1)
    PROVE  LET R == Rises(h, x) IN
           /\ PushFrom(path, R, i) \in 0..Len(h)
           /\ g[i] = IF PushFrom(path, R, i) = 0 THEN x ELSE h[PushFrom(path, R, i)]
           /\ \A j \in 1..(Len(h) + 1) : PushFrom(path, R, i) = PushFrom(path, R, j) => i = j
<1> DEFINE n == Len(h) + 1
           R == Rises(h, x)
<1>1. n \in Nat /\ n = Len(h) + 1 /\ Len(h) \in Nat /\ i \in 1..n
  BY LenProperties
<1>2. \A j \in R : j \in 2..n
  BY DEF Rises
<1>3. /\ Climb(path, R, n)
      /\ g = [j \in 1..n |-> IF j \notin path THEN h[j] ELSE IF j \in R THEN h[j \div 2] ELSE x]
  BY DEF Pushed
<1> HIDE DEF n, R
<1>4. \A j \in 1..n : /\ j \notin path => j \in 1..Len(h)
                      /\ j \in R => j \div 2 \in 1..Len(h)
  BY <1>1, <1>2, <1>3 DEF Climb
<1>5. /\ PushFrom(path, R, i) \in 0..Len(h)
      /\ g[i] = IF PushFrom(path, R, i) = 0 THEN x ELSE h[PushFrom(path, R, i)]
  BY <1>1, <1>3, <1>4 DEF PushFrom
<1>6. ASSUME NEW j \in 1..n, NEW k \in 1..n, PushFrom(path, R, j) = PushFrom(path, R, k), j < k
      PROVE  FALSE
  <2>1. CASE j \notin path
    BY SMTT(40), <1>1, <1>2, <1>3, <1>6, <2>1 DEF PushFrom, Climb
  <2>2. CASE j \in path /\ k \notin path
    BY <1>1, <1>2, <1>3, <1>6, <2>2 DEF PushFrom, Climb
  <2>3. CASE j \in path /\ k \in path /\ j \notin R
    <3>1. k \notin R
      BY <1>4, <1>6, <2>3 DEF PushFrom
    <3> QED BY <1>3, <1>6, <2>3, <3>1 DEF Climb
  <2>4. CASE j \in path /\ k \in path /\ j \in R
    <3>1. j \div 2 = k \div 2
      BY <1>4, <1>6, <2>4 DEF PushFrom
    <3>2. j <= k \div 2
      BY <1>3, <1>6, <2>4 DEF Climb
    <3> QED BY <1>6, <3>1, <3>2
  <2> QED BY <2>1, <2>2, <2>3, <2>4
<1>7. \A j \in 1..n : PushFrom(path, R, i) = PushFrom(path, R, j) => i = j
  <2> SUFFICES ASSUME NEW j \in 1..n, PushFrom(path, R, i) = PushFrom(path, R, j)
               PROVE  i = j
    OBVIOUS
  <2>1. ~(i < j) /\ ~(j < i)
    BY <1>1, <1>6
  <2> QED BY <1>1, <2>1
<1> QED BY <1>1, <1>5, <1>7 DEF R

\* No two entries have the same id.
Distinct(h) == \A i, j \in DOMAIN h : h[i].id = h[j].id => i = j

LEMMA PushEntries ==
    ASSUME NEW h \in Seq(Entry), NEW x \in Entry
    PROVE  /\ Push(h, x) \in Seq(Entry)
           /\ Len(Push(h, x)) = Len(h) + 1
           /\ \A i \in DOMAIN Push(h, x) :
                 Push(h, x)[i] = x \/ \E j \in DOMAIN h : Push(h, x)[i] = h[j]
           /\ Distinct(h) /\ (\A j \in DOMAIN h : h[j].id # x.id) => Distinct(Push(h, x))
<1>1. PICK g, path : g = Push(h, x) /\ Pushed(g, h, x, path)
  BY PushShape
<1> DEFINE n == Len(h) + 1
           from(i) == PushFrom(path, Rises(h, x), i)
<1>2. n = Len(h) + 1 /\ n \in Nat /\ Len(h) \in Nat /\ DOMAIN h = 1..Len(h)
      /\ \A j \in DOMAIN h : h[j] \in Entry
  BY LenProperties, ElementOfSeq
<1>3. ASSUME NEW i \in 1..n
      PROVE  /\ from(i) \in 0..Len(h)
             /\ g[i] = IF from(i) = 0 THEN x ELSE h[from(i)]
             /\ \A j \in 1..n : from(i) = from(j) => i = j
  BY <1>1, PushSource
<1>4. g = [i \in 1..n |-> g[i]]
  BY <1>1 DEF Pushed
<1> HIDE DEF from, n
<1>5. \A i \in 1..n : g[i] \in Entry /\ (g[i] = x \/ \E j \in DOMAIN h : g[i] = h[j])
  BY <1>2, <1>3
<1>6. g \in [1..n -> Entry]
  BY <1>4, <1>5
<1>7. g \in Seq(Entry) /\ Len(g) = n /\ DOMAIN g = 1..n
  BY <1>2, <1>6, FunctionSeq
<1>8. ASSUME Distinct(h), \A j \in DOMAIN h : h[j].id # x.id
      PROVE  Distinct(g)
  <2>1. ASSUME NEW i \in 1..n, NEW j \in 1..n, g[i].id = g[j].id
        PROVE  i = j
    <3>1. from(i) = from(j)
      <4>1. CASE from(i) = 0 /\ from(j) = 0
        BY <4>1
      <4>2. CASE from(i) # 0 /\ from(j) # 0
        <5>1. from(i) \in DOMAIN h /\ from(j) \in DOMAIN h
              /\ g[i] = h[from(i)] /\ g[j] = h[from(j)]
          BY <1>2, <1>3, <4>2
        <5> QED BY <1>8, <2>1, <5>1 DEF Distinct
      <4>3. CASE from(i) = 0 /\ from(j) # 0
        <5>1. from(j) \in DOMAIN h /\ g[i] = x /\ g[j] = h[from(j)]
          BY <1>2, <1>3, <4>3
        <5> QED BY <1>8, <2>1, <5>1
      <4>4. CASE from(i) # 0 /\ from(j) = 0
        <5>1. from(i) \in DOMAIN h /\ g[j] = x /\ g[i] = h[from(i)]
          BY <1>2, <1>3, <4>4
        <5> QED BY <1>8, <2>1, <5>1
      <4> QED BY <4>1, <4>2, <4>3, <4>4
    <3> QED BY <1>3, <3>1
  <2> QED BY <1>7, <2>1 DEF Distinct
<1> QED BY <1>1, <1>2, <1>5, <1>7, <1>8

\* The order of a heap: no entry is less than its parent.
HeapOrder(h) == \A i \in 2..Len(h) : ~Less(h[i], h[i \div 2])

LEMMA PushOrder ==
    ASSUME NEW h \in Seq(Entry), NEW x \in Entry, HeapOrder(h)
    PROVE  HeapOrder(Push(h, x))
<1>1. PICK g, path : g = Push(h, x) /\ Pushed(g, h, x, path)
  BY PushShape
<1> DEFINE n == Len(h) + 1
           R == Rises(h, x)
<1>2. n = Len(h) + 1 /\ n \in Nat /\ Len(h) \in Nat /\ \A j \in 1..Len(h) : h[j] \in Entry
  BY LenProperties, ElementOfSeq
<1>3. Len(g) = n
  BY <1>1, PushEntries
<1>4. \A j \in 2..n : j \in R <=> Less(x, h[j \div 2])
  BY DEF Rises
<1>a. \A j \in R : j \in 2..n
  BY DEF Rises
<1>5. /\ Climb(path, R, n)
      /\ g = [j \in 1..n |-> IF j \notin path THEN h[j] ELSE IF j \in R THEN h[j \div 2] ELSE x]
  BY <1>1 DEF Pushed
<1> HIDE DEF n, R
<1>6. \A j \in 1..n : g[j] = IF j \notin path THEN h[j] ELSE IF j \in R THEN h[j \div 2] ELSE x
  BY <1>5
<1>7. ASSUME NEW i \in 2..n
      PROVE  ~Less(g[i], g[i \div 2])
  <2>1. PICK p \in 1..Len(h) : p = i \div 2 /\ p < i
    BY <1>2
  <2>2. p \in 1..n /\ i \in 1..n /\ h[p] \in Entry /\ (p # 1 => p \in 2..Len(h) /\ p \div 2 \in 1..Len(h))
    BY <1>2, <2>1
  \* A parent on the path gets an entry that is no greater than its old one.
  <2>3. ASSUME p \in path
        PROVE  /\ Less(x, h[p]) /\ ~Less(h[p], g[p])
               /\ g[p] \in Entry
    <3>0. p # n
      BY <1>2, <2>1
    <3>1. PICK j \in path : j \in R /\ j \div 2 = p
      BY <1>5, <2>3, <3>0 DEF Climb
    <3>2. Less(x, h[p])
      <4>1. Less(x, h[j \div 2])
        BY <1>4, <1>a, <3>1
      <4> QED BY <3>1, <4>1
    <3>3. CASE p \in R
      <4>1. g[p] = h[p \div 2] /\ p \in 2..Len(h) /\ h[p \div 2] \in Entry
        BY <1>2, <1>6, <1>a, <2>2, <2>3, <3>3
      <4>2. ~Less(h[p], h[p \div 2])
        BY <4>1 DEF HeapOrder
      <4> QED BY <3>2, <4>1, <4>2
    <3>4. CASE p \notin R
      <4>1. g[p] = x
        BY <1>6, <2>2, <2>3, <3>4
      <4> QED BY <2>2, <3>2, <4>1, LessOrder
    <3> QED BY <3>3, <3>4
  <2>4. CASE i \notin path
    <3>1. i \in 2..Len(h) /\ h[i] \in Entry
      BY <1>2, <1>5, <2>4 DEF Climb
    <3>2. g[i] = h[i] /\ ~Less(h[i], h[p])
      BY <1>6, <2>1, <2>2, <2>4, <3>1 DEF HeapOrder
    <3>3. CASE p \notin path
      BY <1>6, <2>1, <2>2, <3>2, <3>3
    <3>4. CASE p \in path
      BY <2>1, <2>2, <2>3, <3>1, <3>2, <3>4, LessOrder
    <3> QED BY <3>3, <3>4
  <2>5. CASE i \in path /\ i \in R
    <3>1. g[i] = h[p] /\ p \in path
      BY <1>5, <1>6, <2>1, <2>2, <2>5 DEF Climb
    <3> QED BY <2>1, <2>3, <3>1
  <2>6. CASE i \in path /\ i \notin R
    <3>1. p \notin path
      BY <1>5, <2>1, <2>6 DEF Climb
    <3>2. g[i] = x /\ g[p] = h[p]
      BY <1>6, <2>2, <2>6, <3>1
    <3> QED BY <1>4, <2>1, <2>6, <3>2
  <2> QED BY <2>4, <2>5, <2>6
<1> QED BY <1>1, <1>3, <1>7 DEF HeapOrder

-----------------------------------------------------------------------------
(* heap.Pop.                                                               *)

\* From position i an entry moves down to the child C[i] while i is in R.
IsSink(path, C, R, l, m) ==
    path = [i \in l..m |-> IF i \in R THEN {i} \cup path[C[i]] ELSE {i}]
Downward(C, R, m) == \A i \in R : i \in Nat /\ C[i] \in Nat /\ i < C[i] /\ C[i] <= m

LEMMA SinkLonger ==
    ASSUME NEW C, NEW R, NEW m \in Nat, NEW l \in Nat, l <= m, Downward(C, R, m),
           NEW f, IsSink(f, C, R, l + 1, m)
    PROVE  \E g : IsSink(g, C, R, l, m)
<1> DEFINE g == [i \in l..m |-> IF i > l THEN f[i]
                                ELSE IF i \in R THEN {i} \cup f[C[i]] ELSE {i}]
<1>1. ASSUME NEW i \in l..m
      PROVE  g[i] = IF i \in R THEN {i} \cup g[C[i]] ELSE {i}
  <2>1. ASSUME i \in R
        PROVE  g[C[i]] = f[C[i]]
    <3>1. C[i] \in (l + 1)..m
      BY <2>1 DEF Downward
    <3>2. \A q \in (l + 1)..m : g[q] = f[q]
      OBVIOUS
    <3> HIDE DEF g
    <3> QED BY <3>1, <3>2
  <2>2. ASSUME i > l
        PROVE  g[i] = f[i] /\ f[i] = IF i \in R THEN {i} \cup f[C[i]] ELSE {i}
    <3>1. i \in (l + 1)..m
      BY <2>2
    <3>2. g[i] = f[i]
      BY <3>1
    <3> HIDE DEF g
    <3>3. f[i] = IF i \in R THEN {i} \cup f[C[i]] ELSE {i}
      BY <3>1 DEF IsSink
    <3> QED BY <3>2, <3>3
  <2>3. ~(i > l) => g[i] = IF i \in R THEN {i} \cup f[C[i]] ELSE {i}
    OBVIOUS
  <2> HIDE DEF g
  <2> QED BY <2>1, <2>2, <2>3
<1>2. g = [i \in l..m |-> g[i]]
  OBVIOUS
<1> HIDE DEF g
<1>3. IsSink(g, C, R, l, m)
  BY <1>1, <1>2 DEF IsSink
<1> QED BY <1>3

LEMMA SinkExists ==
    ASSUME NEW C, NEW R, NEW m \in Nat, Downward(C, R, m)
    PROVE  \E path : IsSink(path, C, R, 1, m)
<1> DEFINE P == {k \in Nat : k <= m => \E f : IsSink(f, C, R, (m - k) + 1, m)}
<1>1. 0 \in P
  <2>1. (m - 0) + 1 = m + 1 /\ (m + 1)..m = {}
    OBVIOUS
  <2>2. IsSink([i \in {} |-> {}], C, R, m + 1, m)
    BY <2>1 DEF IsSink
  <2> QED BY <2>1, <2>2
<1>2. ASSUME NEW k \in P
      PROVE  k + 1 \in P
  <2> SUFFICES ASSUME k + 1 <= m
               PROVE  \E f : IsSink(f, C, R, (m - (k + 1)) + 1, m)
    OBVIOUS
  <2>1. PICK l \in Nat : l = m - k /\ (m - (k + 1)) + 1 = l /\ l <= m
    OBVIOUS
  <2>2. \E f : IsSink(f, C, R, l + 1, m)
    BY <2>1
  <2>3. \E g : IsSink(g, C, R, l, m)
    <3> HIDE DEF P
    <3> QED BY <2>1, <2>2, SinkLonger
  <2> QED BY <2>1, <2>3
<1>3. P \in SUBSET Nat
  OBVIOUS
<1> HIDE DEF P
<1>4. m \in P
  BY <1>1, <1>2, <1>3, SetInduction
<1>5. (m - m) + 1 = 1
  OBVIOUS
<1> QED BY <1>4, <1>5 DEF P

\* The way down from l: the visited positions are l and, one after the other,
\* the children of those in R; the last one is not in R.
Sink(path, C, R, l, m) ==
    /\ l \in path
    /\ \A i \in path : i \in l..m
    /\ \A i \in path : i \in R => C[i] \in path
    /\ \A i \in path : i # l => \E j \in path : j \in R /\ C[j] = i
    /\ \A i, j \in path : i \notin R => j <= i

LEMMA SinkFacts ==
    ASSUME NEW C, NEW R, NEW m \in Nat, Downward(C, R, m), NEW path, IsSink(path, C, R, 1, m)
    PROVE  \A k \in 1..m : Sink(path[k], C, R, k, m)
<1> DEFINE P == {k \in Nat : \A l \in 1..m : m - k < l => Sink(path[l], C, R, l, m)}
<1>1. 0 \in P
  OBVIOUS
<1>2. ASSUME NEW k \in P
      PROVE  k + 1 \in P
  <2>1. ASSUME NEW l \in 1..m, l = m - k
        PROVE  Sink(path[l], C, R, l, m)
    <3>0. l \in Nat
      OBVIOUS
    <3>1. path[l] = IF l \in R THEN {l} \cup path[C[l]] ELSE {l}
      BY DEF IsSink
    <3>2. CASE l \notin R
      <4>1. path[l] = {l}
        BY <3>1, <3>2
      <4> QED BY <3>2, <4>1 DEF Sink
    <3>3. CASE l \in R
      <4>1. PICK q \in 1..m : q = C[l] /\ l < q
        BY <3>3 DEF Downward
      <4>2. m - k < q
        BY <2>1, <4>1
      <4>3. Sink(path[q], C, R, q, m)
        BY <4>2
      <4>4. path[l] = {l} \cup path[q]
        BY <3>1, <3>3, <4>1
      <4> HIDE DEF P
      <4>5. \A i \in path[q] : i \in l..m /\ l < i
        BY <4>1, <4>3 DEF Sink
      <4>6. /\ l \in path[l]
            /\ \A i \in path[l] : i \in l..m
            /\ \A i \in path[l] : i \in R => C[i] \in path[l]
        BY <4>1, <4>3, <4>4, <4>5 DEF Sink
      <4>7. ASSUME NEW i \in path[l], i # l
            PROVE  \E j \in path[l] : j \in R /\ C[j] = i
        <5>1. i \in path[q]
          BY <4>4, <4>7
        <5>2. CASE i = q
          BY <3>3, <4>1, <4>4, <5>2
        <5>3. CASE i # q
          BY <4>3, <4>4, <5>1, <5>3 DEF Sink
        <5> QED BY <5>2, <5>3
      <4>8. \A i, j \in path[l] : i \notin R => j <= i
        BY <3>0, <3>3, <4>3, <4>4, <4>5 DEF Sink
      <4> QED BY <4>6, <4>7, <4>8 DEF Sink
    <3> QED BY <3>2, <3>3
  <2>2. ASSUME NEW l \in 1..m, m - (k + 1) < l
        PROVE  Sink(path[l], C, R, l, m)
    <3>1. l = m - k \/ m - k < l
      BY <2>2
    <3> QED BY <2>1, <3>1
  <2> QED BY <2>2
<1>3. P \in SUBSET Nat
  OBVIOUS
<1> HIDE DEF P
<1>4. m \in P
  BY <1>1, <1>2, <1>3, SetInduction
<1>5. \A l \in 1..m : m - m < l
  OBVIOUS
<1> QED BY <1>4, <1>5 DEF P

\* The lesser child of each position, but for the last entry of h, and where
\* that is greater than it.
Child(h) ==
    [i \in 1..(Len(h) - 1) |->
        IF 2 * i + 1 <= Len(h) - 1 /\ Less(h[2 * i + 1], h[2 * i]) THEN 2 * i + 1 ELSE 2 * i]
Sinks(h) ==
    {i \in 1..(Len(h) - 1) : Child(h)[i] <= Len(h) - 1 /\ Less(h[Child(h)[i]], h[Len(h)])}

\* g is what heap.Pop leaves of h when the last entry visits the positions in
\* path.
Popped(g, h, path) ==
    /\ Len(h) > 1 => Sink(path, Child(h), Sinks(h), 1, Len(h) - 1)
    /\ g = [i \in 1..(Len(h) - 1) |->
               IF i \notin path THEN h[i]
               ELSE IF i \in Sinks(h) THEN h[Child(h)[i]] ELSE h[Len(h)]]

LEMMA PopShape ==
    ASSUME NEW h \in Seq(Entry), h # << >>
    PROVE  \E path : Popped(Pop(h), h, path)
<1> DEFINE m == Len(h) - 1
           child(i) == IF 2 * i + 1 <= m /\ Less(h[2 * i + 1], h[2 * i]) THEN 2 * i + 1 ELSE 2 * i
           sinks(i) == child(i) <= m /\ Less(h[child(i)], h[m + 1])
           Is(p) == p = [i \in 1..m |-> IF sinks(i) THEN {i} \cup p[child(i)] ELSE {i}]
           path == CHOOSE p : Is(p)
           C == Child(h)
           R == Sinks(h)
<1>1. m \in Nat /\ m + 1 = Len(h) /\ (Len(h) > 1 => 1 \in 1..m)
  BY LenProperties, EmptySeq
<1>2. \A i \in 1..m : C[i] = child(i)
  BY DEF Child
<1>3. \A i \in 1..m : i \in R <=> sinks(i)
  BY <1>1 DEF Child, Sinks
<1>4. Pop(h) = [i \in 1..m |-> IF i \notin path[1] THEN h[i]
                               ELSE IF sinks(i) THEN h[child(i)] ELSE h[m + 1]]
  BY Zenon DEF Pop
<1>5. \A i \in 1..m : child(i) \in Nat /\ i < child(i)
  BY <1>1
<1>6. Downward(C, R, m)
  <2>1. \A i \in R : i \in 1..m /\ C[i] <= m
    BY DEF Sinks
  <2> HIDE DEF C, R, m, child
  <2> QED BY <1>1, <1>2, <1>5, <2>1 DEF Downward
<1>7. Is(path)
  <2>1. PICK p : IsSink(p, C, R, 1, m)
    <3> HIDE DEF C, R, m
    <3> QED BY <1>1, <1>6, SinkExists
  <2>2. Is(p)
    <3> HIDE DEF C, R, m, child, sinks
    <3> QED BY <1>2, <1>3, <2>1 DEF IsSink
  <2> HIDE DEF Is
  <2> QED BY <2>2
<1> HIDE DEF path
<1>8. IsSink(path, C, R, 1, m)
  <2> HIDE DEF C, R, m, child, sinks
  <2> QED BY <1>2, <1>3, <1>7 DEF IsSink
<1>9. Len(h) > 1 => Sink(path[1], C, R, 1, m)
  <2> HIDE DEF C, R, m
  <2> QED BY <1>1, <1>6, <1>8, SinkFacts
<1>10. Pop(h) = [i \in 1..m |-> IF i \notin path[1] THEN h[i]
                                ELSE IF i \in R THEN h[C[i]] ELSE h[Len(h)]]
  <2> HIDE DEF C, R, m, child, sinks
  <2> QED BY <1>1, <1>2, <1>3, <1>4
<1>11. Popped(Pop(h), h, path[1])
  BY <1>9, <1>10 DEF Popped
<1> QED BY <1>11

\* The entries but the root take one place each.
PopFrom(h, path, i) ==
    IF i \notin path THEN i ELSE IF i \in Sinks(h) THEN Child(h)[i] ELSE Len(h)

LEMMA PopSource ==
    ASSUME NEW h \in Seq(Entry), h # << >>, NEW path, NEW g, Popped(g, h, path),
           NEW i \in 1..(Len(h) - 1)
    PROVE  /\ PopFrom(h, path, i) \in 2..Len(h)
           /\ g[i] = h[PopFrom(h, path, i)]
           /\ \A j \in 1..(Len(h) - 1) : PopFrom(h, path, i) = PopFrom(h, path, j) => i = j
<1> DEFINE m == Len(h) - 1
           C == Child(h)
           R == Sinks(h)
<1>1. m \in Nat /\ Len(h) = m + 1 /\ 1 \in 1..m /\ i \in 1..m
  BY LenProperties
<1>2. \A j \in 1..m : C[j] \in {2 * j, 2 * j + 1}
  BY DEF Child
<1>3. \A j \in R : j \in 1..m /\ C[j] <= m
  BY DEF Sinks
<1>4. /\ Sink(path, C, R, 1, m)
      /\ g = [j \in 1..m |-> IF j \notin path THEN h[j] ELSE IF j \in R THEN h[C[j]] ELSE h[Len(h)]]
  BY <1>1 DEF Popped
<1>5. \A j : PopFrom(h, path, j) = IF j \notin path THEN j ELSE IF j \in R THEN C[j] ELSE m + 1
  BY <1>1 DEF PopFrom
<1> HIDE DEF m, C, R
<1>6. PopFrom(h, path, i) \in 2..Len(h)
  <2>1. i \in R => C[i] \in 2..m
    BY <1>1, <1>2, <1>3
  <2>2. i \notin path => i # 1
    BY <1>4 DEF Sink
  <2> QED BY <1>1, <1>5, <2>1, <2>2
<1>7. g[i] = h[PopFrom(h, path, i)]
  BY <1>1, <1>4, <1>5
<1>8. ASSUME NEW j \in 1..m, PopFrom(h, path, i) = PopFrom(h, path, j)
      PROVE  i = j
  <2>1. CASE i \notin path /\ j \notin path
    BY <1>5, <1>8, <2>1
  <2>2. CASE i \notin path /\ j \in path
    BY <1>1, <1>4, <1>5, <1>8, <2>2 DEF Sink
  <2>3. CASE i \in path /\ j \notin path
    BY <1>1, <1>4, <1>5, <1>8, <2>3 DEF Sink
  <2>4. CASE i \in path /\ j \in path /\ i \in R /\ j \in R
    <3>1. C[i] = C[j]
      BY <1>5, <1>8, <2>4
    <3> QED BY <1>1, <1>2, <3>1
  <2>5. CASE i \in path /\ j \in path /\ i \in R /\ j \notin R
    BY <1>1, <1>2, <1>3, <1>5, <1>8, <2>5
  <2>6. CASE i \in path /\ j \in path /\ i \notin R /\ j \in R
    BY <1>1, <1>2, <1>3, <1>5, <1>8, <2>6
  <2>7. CASE i \in path /\ j \in path /\ i \notin R /\ j \notin R
    BY <1>1, <1>4, <2>7 DEF Sink
  <2> QED BY <2>1, <2>2, <2>3, <2>4, <2>5, <2>6, <2>7
<1> QED BY <1>6, <1>7, <1>8 DEF m

LEMMA PopEntries ==
    ASSUME NEW h \in Seq(Entry), h # << >>
    PROVE  /\ Pop(h) \in Seq(Entry)
           /\ Len(Pop(h)) = Len(h) - 1
           /\ \A i \in DOMAIN Pop(h) : \E j \in 2..Len(h) : Pop(h)[i] = h[j]
           /\ Distinct(h) => Distinct(Pop(h)) /\ \A i \in DOMAIN Pop(h) : Pop(h)[i].id # h[1].id
<1>1. PICK g, path : g = Pop(h) /\ Popped(g, h, path)
  BY PopShape
<1> DEFINE m == Len(h) - 1
           from(i) == PopFrom(h, path, i)
<1>2. m \in Nat /\ Len(h) \in Nat /\ m = Len(h) - 1 /\ DOMAIN h = 1..Len(h)
      /\ \A j \in DOMAIN h : h[j] \in Entry
  BY LenProperties, ElementOfSeq, EmptySeq
<1>3. ASSUME NEW i \in 1..m
      PROVE  /\ from(i) \in 2..Len(h)
             /\ g[i] = h[from(i)]
             /\ \A j \in 1..m : from(i) = from(j) => i = j
  BY <1>1, PopSource
<1>4. g = [i \in 1..m |-> g[i]]
  BY <1>1 DEF Popped
<1> HIDE DEF from, m
<1>5. \A i \in 1..m : g[i] \in Entry /\ \E j \in 2..Len(h) : g[i] = h[j]
  BY <1>2, <1>3
<1>6. g \in [1..m -> Entry]
  BY <1>4, <1>5
<1>7. g \in Seq(Entry) /\ Len(g) = m /\ DOMAIN g = 1..m
  BY <1>2, <1>6, FunctionSeq
<1>8. ASSUME Distinct(h)
      PROVE  Distinct(g) /\ \A i \in DOMAIN g : g[i].id # h[1].id
  <2>1. ASSUME NEW i \in 1..m, NEW j \in 1..m, g[i].id = g[j].id
        PROVE  i = j
    <3>1. from(i) \in DOMAIN h /\ from(j) \in DOMAIN h /\ g[i] = h[from(i)] /\ g[j] = h[from(j)]
      BY <1>2, <1>3
    <3>2. from(i) = from(j)
      BY <1>8, <2>1, <3>1 DEF Distinct
    <3> QED BY <1>3, <3>2
  <2>2. ASSUME NEW i \in 1..m, g[i].id = h[1].id
        PROVE  FALSE
    <3>1. from(i) \in DOMAIN h /\ 1 \in DOMAIN h /\ from(i) # 1 /\ g[i] = h[from(i)]
      BY <1>2, <1>3
    <3> QED BY <1>8, <2>2, <3>1 DEF Distinct
  <2> QED BY <1>7, <2>1, <2>2 DEF Distinct
<1> QED BY <1>1, <1>2, <1>5, <1>7, <1>8

LEMMA PopOrder ==
    ASSUME NEW h \in Seq(Entry), h # << >>, HeapOrder(h)
    PROVE  HeapOrder(Pop(h))
<1>1. PICK g, path : g = Pop(h) /\ Popped(g, h, path)
  BY PopShape
<1> DEFINE m == Len(h) - 1
           C == Child(h)
           R == Sinks(h)
           x == h[Len(h)]
<1>2. m \in Nat /\ Len(h) \in Nat /\ Len(h) = m + 1 /\ \A j \in 1..Len(h) : h[j] \in Entry
  BY LenProperties, ElementOfSeq, EmptySeq
<1>3. Len(g) = m
  BY <1>1, PopEntries
<1>4. ASSUME NEW p \in 1..m
      PROVE  C[p] = IF 2 * p + 1 <= m /\ Less(h[2 * p + 1], h[2 * p]) THEN 2 * p + 1 ELSE 2 * p
  BY DEF Child
<1>5. \A p \in 1..m : p \in R <=> C[p] <= m /\ Less(h[C[p]], x)
  BY DEF Sinks
<1>6. m > 0 => Sink(path, C, R, 1, m)
  BY <1>1, <1>2 DEF Popped
<1>7. g = [j \in 1..m |-> IF j \notin path THEN h[j] ELSE IF j \in R THEN h[C[j]] ELSE x]
  BY <1>1 DEF Popped
<1>8. x \in Entry
  BY <1>2
<1> HIDE DEF m, C, R, x
<1>9. \A j \in 1..m : g[j] = IF j \notin path THEN h[j] ELSE IF j \in R THEN h[C[j]] ELSE x
  BY <1>7
<1>10. ASSUME NEW i \in 2..m
       PROVE  ~Less(g[i], g[i \div 2])
  <2>1. PICK p \in 1..m : p = i \div 2 /\ p < i /\ (i = 2 * p \/ i = 2 * p + 1)
    BY <1>2
  <2>2. i \in 1..m /\ i # 1 /\ h[i] \in Entry /\ h[p] \in Entry /\ ~Less(h[i], h[p])
    <3>1. i \in 2..Len(h) /\ i \in 1..m /\ i # 1 /\ i \in 1..Len(h) /\ p \in 1..Len(h)
      BY <1>2, <2>1
    <3> QED BY <1>2, <2>1, <3>1 DEF HeapOrder
  <2>3. Sink(path, C, R, 1, m)
    BY <1>2, <1>6, <2>2
  <2>4. ASSUME i \in path
        PROVE  p \in path /\ p \in R /\ C[p] = i
    <3>1. PICK j \in path : j \in R /\ C[j] = i
      BY <2>2, <2>3, <2>4 DEF Sink
    <3>2. j \in 1..m
      BY <2>3 DEF Sink
    <3>3. i = 2 * j \/ i = 2 * j + 1
      BY <1>4, <3>1, <3>2
    <3>4. j = p
      BY <2>1, <3>2, <3>3
    <3> QED BY <3>1, <3>4
  \* The lesser child of p is in the array, and i is no less than it.
  <2>5. C[p] \in 2..m /\ ~Less(h[i], h[C[p]]) /\ h[C[p]] \in Entry
    <3>1. C[p] \in {2 * p, 2 * p + 1} /\ C[p] \in 2..m
      BY <1>2, <1>4, <2>1
    <3>2. h[C[p]] \in Entry /\ ~Less(h[i], h[i])
      BY <1>2, <2>2, <3>1, LessOrder
    <3>3. CASE C[p] = i
      BY <3>1, <3>2, <3>3
    <3>4. CASE C[p] # i /\ i = 2 * p
      <4>1. C[p] = 2 * p + 1 /\ Less(h[C[p]], h[i])
        BY <1>4, <3>1, <3>4
      <4> QED BY <2>2, <3>1, <3>2, <4>1, LessOrder
    <3>5. CASE C[p] # i /\ i = 2 * p + 1
      <4>1. C[p] = 2 * p /\ ~Less(h[i], h[C[p]])
        BY <1>4, <2>2, <3>1, <3>5
      <4> QED BY <3>1, <3>2, <4>1
    <3> QED BY <2>1, <3>3, <3>4, <3>5
  <2>6. CASE p \notin path
    <3>1. g[i] = h[i] /\ g[p] = h[p]
      BY <1>9, <2>2, <2>4, <2>6
    <3> QED BY <2>1, <2>2, <3>1
  <2>7. CASE p \in path /\ p \notin R
    <3>1. g[i] = h[i] /\ g[p] = x
      BY <1>9, <2>2, <2>4, <2>7
    <3>2. ~Less(h[C[p]], x)
      BY <1>5, <2>5, <2>7
    <3> QED BY <1>8, <2>1, <2>2, <2>5, <3>1, <3>2, LessOrder
  <2>8. CASE p \in path /\ p \in R /\ i \notin path
    <3>1. g[i] = h[i] /\ g[p] = h[C[p]]
      BY <1>9, <2>2, <2>8
    <3> QED BY <2>1, <2>5, <3>1
  <2>9. CASE p \in path /\ p \in R /\ i \in path /\ i \in R
    <3>1. g[i] = h[C[i]] /\ g[p] = h[i] /\ C[i] \in 1..m
      <4>1. C[i] <= m
        BY <1>5, <2>2, <2>9
      <4>2. C[i] \in Nat /\ C[i] > 0
        BY <1>4, <2>2
      <4> QED BY <1>9, <2>2, <2>4, <2>9, <4>1, <4>2
    <3>2. C[i] \in 2..Len(h) /\ C[i] \div 2 = i
      <4>1. C[i] = 2 * i \/ C[i] = 2 * i + 1
        BY <1>4, <2>2
      <4>2. PICK k \in 1..m : k = C[i]
        BY <3>1
      <4>3. k \in 2..Len(h) /\ k \div 2 = i
        BY SMTT(40), <1>2, <4>1, <4>2
      <4> QED BY <4>2, <4>3
    <3>3. ~Less(h[C[i]], h[i])
      BY <3>2 DEF HeapOrder
    <3> QED BY <2>1, <3>1, <3>3
  <2>10. CASE p \in path /\ p \in R /\ i \in path /\ i \notin R
    <3>1. g[i] = x /\ g[p] = h[i] /\ Less(h[C[p]], x) /\ C[p] = i
      BY <1>5, <1>9, <2>2, <2>4, <2>10
    <3>2. Less(h[i], x)
      BY <3>1
    <3> QED BY <1>8, <2>1, <2>2, <3>1, <3>2, LessOrder
  <2> QED BY <2>6, <2>7, <2>8, <2>9, <2>10
<1> QED BY <1>1, <1>3, <1>10 DEF HeapOrder

\* The root of a heap is its least entry.
LEMMA RootLeast ==
    ASSUME NEW h \in Seq(Entry), HeapOrder(h), NEW i \in DOMAIN h
    PROVE  ~Less(h[i], h[1]) /\ h[1].stamp <= h[i].stamp /\ h[1] \in Entry
<1>1. DOMAIN h = 1..Len(h) /\ Len(h) \in Nat /\ 1 \in 1..Len(h) /\ \A j \in 1..Len(h) : h[j] \in Entry
  BY LenProperties, ElementOfSeq
<1> DEFINE P == {k \in Nat : \A j \in 1..Len(h) : j <= k => ~Less(h[j], h[1])}
<1>2. 0 \in P
  OBVIOUS
<1>3. ASSUME NEW k \in P
      PROVE  k + 1 \in P
  <2> SUFFICES ASSUME k + 1 \in 1..Len(h)
               PROVE  ~Less(h[k + 1], h[1])
    OBVIOUS
  <2>1. CASE k = 0
    BY <1>1, <2>1, LessOrder
  <2>2. CASE k > 0
    <3>1. PICK j \in 1..Len(h) : j = k + 1
      OBVIOUS
    <3>2. PICK p \in 1..Len(h) : p = j \div 2 /\ p <= k /\ j \in 2..Len(h)
      BY <2>2, <3>1
    <3>3. ~Less(h[p], h[1])
      BY <3>2
    <3>4. ~Less(h[j], h[p])
      BY <3>2 DEF HeapOrder
    <3> QED BY <1>1, <3>1, <3>3, <3>4, LessOrder
  <2> QED BY <2>1, <2>2
<1>4. P \in SUBSET Nat
  OBVIOUS
<1> HIDE DEF P
<1>5. Len(h) \in P
  BY <1>1, <1>2, <1>3, <1>4, SetInduction
<1>6. ~Less(h[i], h[1])
  BY <1>1, <1>5 DEF P
<1> QED BY <1>1, <1>6, LessOrder

-----------------------------------------------------------------------------
(* CancelTimer's loop.                                                     *)

\* What is kept of the first i entries of h, for i up to n.
IsKept(u, h, id, n) ==
    u = [i \in 0..n |-> IF i = 0 THEN << >>
                        ELSE IF h[i].id = id THEN u[i - 1] ELSE Append(u[i - 1], h[i])]

LEMMA KeptLonger ==
    ASSUME NEW h, NEW id, NEW n \in Nat, NEW f, IsKept(f, h, id, n)
    PROVE  \E g : IsKept(g, h, id, n + 1)
<1> DEFINE g == [i \in 0..(n + 1) |->
                    IF i <= n THEN f[i]
                    ELSE IF h[i].id = id THEN f[i - 1] ELSE Append(f[i - 1], h[i])]
<1>1. ASSUME NEW i \in 0..(n + 1)
      PROVE  g[i] = IF i = 0 THEN << >>
                    ELSE IF h[i].id = id THEN g[i - 1] ELSE Append(g[i - 1], h[i])
  <2>1. \A q \in 0..n : g[q] = f[q]
    OBVIOUS
  <2>2. \A q \in 0..n : f[q] = IF q = 0 THEN << >>
                               ELSE IF h[q].id = id THEN f[q - 1] ELSE Append(f[q - 1], h[q])
    <3> SUFFICES ASSUME NEW q \in 0..n
                 PROVE  f[q] = IF q = 0 THEN << >>
                               ELSE IF h[q].id = id THEN f[q - 1] ELSE Append(f[q - 1], h[q])
      OBVIOUS
    <3> HIDE DEF g
    <3> QED BY DEF IsKept
  <2>3. i = n + 1 => g[i] = IF h[i].id = id THEN f[i - 1] ELSE Append(f[i - 1], h[i])
    OBVIOUS
  <2> HIDE DEF g
  <2>4. CASE i = n + 1
    <3>1. i - 1 \in 0..n /\ i # 0
      BY <2>4
    <3> QED BY <2>1, <2>3, <2>4, <3>1
  <2>5. CASE i = 0
    BY <2>1, <2>2, <2>5
  <2>6. CASE i # 0 /\ i # n + 1
    <3>1. i - 1 \in 0..n /\ i \in 0..n
      BY <2>6
    <3> QED BY <2>1, <2>2, <2>6, <3>1
  <2> QED BY <2>4, <2>5, <2>6
<1>2. g = [i \in 0..(n + 1) |-> g[i]]
  OBVIOUS
<1> HIDE DEF g
<1>3. IsKept(g, h, id, n + 1)
  BY <1>1, <1>2 DEF IsKept
<1> QED BY <1>3

LEMMA KeptExists ==
    ASSUME NEW h, NEW id, NEW n \in Nat
    PROVE  \E u : IsKept(u, h, id, n)
<1> DEFINE P == {m \in Nat : \E f : IsKept(f, h, id, m)}
<1>1. 0 \in P
  <2>1. IsKept([i \in 0..0 |-> << >>], h, id, 0)
    BY DEF IsKept
  <2> QED BY <2>1
<1>2. ASSUME NEW m \in P
      PROVE  m + 1 \in P
  <2>1. m \in Nat /\ \E f : IsKept(f, h, id, m)
    OBVIOUS
  <2>2. \E g : IsKept(g, h, id, m + 1)
    BY <2>1, KeptLonger
  <2> QED BY <2>1, <2>2
<1>3. P \in SUBSET Nat
  OBVIOUS
<1> HIDE DEF P
<1>4. n \in P
  BY <1>1, <1>2, <1>3, SetInduction
<1> QED BY <1>4 DEF P

LEMMA WithoutShape ==
    ASSUME NEW h \in Seq(Entry), NEW id
    PROVE  \E u : IsKept(u, h, id, Len(h)) /\ Without(h, id) = u[Len(h)]
<1> DEFINE u == CHOOSE kept : IsKept(kept, h, id, Len(h))
<1>1. Len(h) \in Nat
  BY LenProperties
<1>2. \E kept : IsKept(kept, h, id, Len(h))
  BY <1>1, KeptExists
<1>3. IsKept(u, h, id, Len(h))
  BY <1>2
<1>4. Without(h, id) = u[Len(h)]
  BY Zenon DEF Without, IsKept
<1> QED BY <1>3, <1>4

\* s keeps what the first k entries of h have with another id than id.
Keeps(s, h, id, k) ==
    /\ s \in Seq(Entry) /\ Len(s) <= k
    /\ \A i \in 1..Len(s) : s[i].id # id /\ \E j \in 1..k : s[i] = h[j]
    /\ Distinct(h) => Distinct(s)
    /\ (\E j \in 1..k : h[j].id = id) => Len(s) < k
    /\ (\A j \in 1..k : h[j].id # id) => Len(s) = k /\ \A j \in 1..k : s[j] = h[j]

LEMMA WithoutEntries ==
    ASSUME NEW h \in Seq(Entry), NEW id
    PROVE  Keeps(Without(h, id), h, id, Len(h))
<1>1. PICK u : IsKept(u, h, id, Len(h)) /\ Without(h, id) = u[Len(h)]
  BY WithoutShape
<1>2. Len(h) \in Nat /\ DOMAIN h = 1..Len(h) /\ \A j \in 1..Len(h) : h[j] \in Entry
  BY LenProperties, ElementOfSeq
<1>3. /\ u[0] = << >>
      /\ \A i \in 1..Len(h) : u[i] = IF h[i].id = id THEN u[i - 1] ELSE Append(u[i - 1], h[i])
  <2>1. ASSUME NEW i \in 0..Len(h)
        PROVE  u[i] = IF i = 0 THEN << >>
                      ELSE IF h[i].id = id THEN u[i - 1] ELSE Append(u[i - 1], h[i])
    BY <1>1 DEF IsKept
  <2> QED BY <1>2, <2>1
<1> DEFINE P == {k \in Nat : k <= Len(h) => Keeps(u[k], h, id, k)}
<1>4. 0 \in P
  <2>1. << >> \in Seq(Entry) /\ Len(<< >>) = 0 /\ Distinct(<< >>)
    BY EmptySeq DEF Distinct
  <2>2. Keeps(u[0], h, id, 0)
    BY <1>3, <2>1 DEF Keeps
  <2> QED BY <2>2
<1>5. ASSUME NEW k \in P
      PROVE  k + 1 \in P
  <2> SUFFICES ASSUME k + 1 <= Len(h)
               PROVE  Keeps(u[k + 1], h, id, k + 1)
    OBVIOUS
  <2>1. PICK m, s, e : m = k + 1 /\ s = u[k] /\ e = h[m]
    OBVIOUS
  <2>2. /\ m \in 1..Len(h) /\ k \in Nat /\ m = k + 1 /\ m - 1 = k /\ e \in Entry
        /\ Keeps(s, h, id, k)
        /\ u[m] = IF e.id = id THEN s ELSE Append(s, e)
    BY <1>2, <1>3, <2>1
  <2> HIDE DEF P
  <2>3. s \in Seq(Entry) /\ Len(s) \in Nat /\ DOMAIN s = 1..Len(s)
    BY <2>2, LenProperties DEF Keeps
  <2>4. CASE e.id = id
    <3>1. u[m] = s
      BY <2>2, <2>4
    <3>2. Keeps(s, h, id, m)
      BY <2>1, <2>2, <2>3, <2>4 DEF Keeps
    <3> QED BY <2>1, <3>1, <3>2
  <2>5. CASE e.id # id
    <3>1. PICK t : t = Append(s, e) /\ u[m] = t
      BY <2>2, <2>5
    <3>2. /\ t \in Seq(Entry) /\ Len(t) = Len(s) + 1 /\ DOMAIN t = 1..(Len(s) + 1)
          /\ \A i \in 1..Len(s) : t[i] = s[i]
          /\ t[Len(s) + 1] = e
      BY <2>2, <2>3, <3>1, AppendProperties, LenProperties
    <3>3. \A i \in 1..Len(t) : t[i].id # id /\ \E j \in 1..m : t[i] = h[j]
      <4> SUFFICES ASSUME NEW i \in 1..Len(t)
                   PROVE  t[i].id # id /\ \E j \in 1..m : t[i] = h[j]
        OBVIOUS
      <4>1. CASE i = Len(s) + 1
        BY <2>1, <2>2, <2>5, <3>2, <4>1
      <4>2. CASE i # Len(s) + 1
        <5>1. i \in 1..Len(s) /\ t[i] = s[i]
          BY <2>3, <3>2, <4>2
        <5>2. s[i].id # id /\ \E j \in 1..k : s[i] = h[j]
          BY <2>2, <5>1 DEF Keeps
        <5> QED BY <2>2, <5>1, <5>2
      <4> QED BY <4>1, <4>2
    <3>4. ASSUME Distinct(h)
          PROVE  Distinct(t)
      <4>1. \A i \in 1..Len(s) : s[i].id # e.id
        <5> SUFFICES ASSUME NEW i \in 1..Len(s), s[i].id = e.id
                     PROVE  FALSE
          OBVIOUS
        <5>1. PICK j \in 1..k : s[i] = h[j]
          BY <2>2 DEF Keeps
        <5>2. j \in DOMAIN h /\ m \in DOMAIN h /\ h[j].id = h[m].id
          BY <1>2, <2>1, <2>2, <5>1
        <5> QED BY <2>2, <3>4, <5>1, <5>2 DEF Distinct
      <4>2. Distinct(s)
        BY <2>2, <3>4 DEF Keeps
      <4> QED BY <2>3, <3>2, <4>1, <4>2 DEF Distinct
    <3>5. (\E j \in 1..m : h[j].id = id) => Len(t) < m
      <4> SUFFICES ASSUME NEW j \in 1..m, h[j].id = id
                   PROVE  Len(t) < m
        OBVIOUS
      <4>1. j # m
        BY <2>1, <2>5
      <4>2. j \in 1..k
        BY <2>2, <4>1
      <4>3. Len(s) < k
        BY <2>2, <4>2 DEF Keeps
      <4> QED BY <2>2, <2>3, <3>2, <4>3
    <3>6. (\A j \in 1..m : h[j].id # id) => Len(t) = m /\ \A j \in 1..m : t[j] = h[j]
      <4> SUFFICES ASSUME \A j \in 1..m : h[j].id # id
                   PROVE  Len(t) = m /\ \A j \in 1..m : t[j] = h[j]
        OBVIOUS
      <4>1. \A j \in 1..k : h[j].id # id
        BY <2>2
      <4>2. Len(s) = k /\ \A j \in 1..k : s[j] = h[j]
        BY <2>2, <4>1 DEF Keeps
      <4>3. t[m] = h[m] /\ \A j \in 1..k : t[j] = h[j]
        BY <2>1, <2>2, <3>2, <4>2
      <4>4. \A j \in 1..m : j = m \/ j \in 1..k
        BY <2>2
      <4> QED BY <2>2, <3>2, <4>2, <4>3, <4>4
    <3>7. Len(t) <= m
      <4>1. Len(s) <= k
        BY <2>2 DEF Keeps
      <4> QED BY <2>2, <2>3, <3>2, <4>1
    <3>8. Keeps(t, h, id, m)
      BY <3>2, <3>3, <3>4, <3>5, <3>6, <3>7 DEF Keeps
    <3> QED BY <2>1, <3>1, <3>8
  <2> QED BY <2>4, <2>5
<1>6. P \in SUBSET Nat
  OBVIOUS
<1> HIDE DEF P
<1>7. Len(h) \in P
  BY <1>2, <1>4, <1>5, <1>6, SetInduction
<1> QED BY <1>1, <1>7 DEF P

-----------------------------------------------------------------------------
(* The invariants.                                                         *)

\* Every timer has an id of its own, which is never given again; a one-shot
\* timer that has expired is in the heap no more.
IdsOK ==
    /\ \A i \in DOMAIN heap : heap[i].id <= counter
    /\ \A i \in DOMAIN expired : expired[i].id <= counter
    /\ \A id \in cancelled : id <= counter
    /\ Distinct(heap)
    /\ \A i \in DOMAIN expired :
          expired[i].interval = 0 => \A j \in DOMAIN heap : heap[j].id # expired[i].id

\* User code cancels timers only while what CancelTimer leaves is a heap.
FewCancelled == CancelUpTo <= 2 \/ CancelAt = {}

\* What is due is due no later than what is left in the heap.
RoundOK ==
    /\ HeapOrder(heap)
    /\ at \in {"idle", "ready"} => expired = << >>
    /\ at = "expire" => \A i \in DOMAIN expired, j \in DOMAIN heap :
                           expired[i].stamp <= heap[j].stamp

\* Wherever the loop is but in getExpired, the timerfd covers the timers,
\* unless getExpired has missed a time.
ClockOK == at # "expire" /\ heap # << >> => Covered \/ missed

-----------------------------------------------------------------------------
(* Type correctness.                                                       *)

\* What AddTimer and one turn of getExpired's loop do to the array.
AddResult(e) == e \in Entry /\ e.id = counter + 1 /\ heap' = Push(heap, e)

LEMMA AddFacts ==
    ASSUME TypeOK, NEW stamp \in Stamps, NEW interval \in Intervals, AddTimer(stamp, interval)
    PROVE  \E e : AddResult(e) /\ e.stamp = stamp
<1> DEFINE e == [id |-> counter + 1, stamp |-> stamp, interval |-> interval]
<1>1. e \in Entry
  BY TimerAssumption DEF TypeOK, AddTimer, Entry, Ids
<1>2. heap' = Push(heap, e) /\ e.id = counter + 1 /\ e.stamp = stamp
  BY DEF AddTimer
<1> HIDE DEF e
<1>3. AddResult(e) /\ e.stamp = stamp
  BY <1>1, <1>2 DEF AddResult
<1> QED BY <1>3

ExpireResult(e, p, r) ==
    /\ heap # << >> /\ e = heap[1] /\ e \in Entry /\ e.stamp < since
    /\ p = Pop(heap) /\ p \in Seq(Entry)
    /\ r \in Entry /\ r.id = e.id /\ r.stamp = e.stamp + e.interval /\ r.interval = e.interval
    /\ expired' = Append(expired, e)
    /\ heap' = IF e.interval = 0 THEN p ELSE Push(p, r)

LEMMA ExpireFacts ==
    ASSUME TypeOK, ExpireOne
    PROVE  \E e, p, r : ExpireResult(e, p, r)
<1> DEFINE e == heap[1]
           p == Pop(heap)
           r == [e EXCEPT !.stamp = @ + e.interval]
<1>1. heap \in Seq(Entry) /\ heap # << >> /\ e.stamp < since
  BY DEF TypeOK, ExpireOne, IsDue
<1>2. e \in Entry
  BY <1>1, EmptySeq, ElementOfSeq
<1>3. p \in Seq(Entry)
  BY <1>1, PopEntries
<1>4. expired' = Append(expired, e) /\ heap' = IF e.interval = 0 THEN p ELSE Push(p, r)
  BY DEF ExpireOne
<1> HIDE DEF e, p
<1>5. r \in Entry /\ r.id = e.id /\ r.stamp = e.stamp + e.interval /\ r.interval = e.interval
  BY <1>2, TimerAssumption DEF Entry
<1> HIDE DEF r
<1>6. ExpireResult(e, p, r)
  BY <1>1, <1>2, <1>3, <1>4, <1>5 DEF ExpireResult, e, p
<1> QED BY <1>6

\* Every step but these leaves the array alone.
LEMMA HeapStep ==
    ASSUME TypeOK, [Next]_vars
    PROVE  /\ heap' \in Seq(Entry)
           /\ \/ UNCHANGED heap
              \/ \E stamp \in Stamps, interval \in Intervals : AddTimer(stamp, interval)
              \/ \E id \in Ids : CancelTimer(id)
              \/ ExpireOne
<1>0. heap \in Seq(Entry)
  BY DEF TypeOK
<1>1. ASSUME NEW stamp \in Stamps, NEW interval \in Intervals, AddTimer(stamp, interval)
      PROVE  heap' \in Seq(Entry)
  <2>1. PICK e : AddResult(e)
    BY <1>1, AddFacts
  <2> QED BY <1>0, <2>1, PushEntries DEF AddResult
<1>2. ASSUME NEW id \in Ids, CancelTimer(id)
      PROVE  heap' \in Seq(Entry)
  <2>1. heap' = Without(heap, id)
    BY <1>2 DEF CancelTimer
  <2> QED BY <1>0, <2>1, WithoutEntries DEF Keeps
<1>3. ASSUME ExpireOne
      PROVE  heap' \in Seq(Entry)
  <2>1. PICK e, p, r : ExpireResult(e, p, r)
    BY <1>3, ExpireFacts
  <2>2. p \in Seq(Entry) /\ r \in Entry /\ (heap' = p \/ heap' = Push(p, r))
    BY <2>1 DEF ExpireResult
  <2> QED BY <2>2, PushEntries
<1>4. ASSUME Tick \/ Poll \/ ReadTimerfd \/ Rearm \/ Fire \/ Return \/ FireDone \/ UNCHANGED vars
      PROVE  UNCHANGED heap
  BY <1>4 DEF Tick, Poll, ReadTimerfd, Rearm, Fire, Return, FireDone, vars
<1> QED BY <1>0, <1>1, <1>2, <1>3, <1>4 DEF Next, LoopStep

\* The timerfd is set to a time that is a number.
LEMMA SetType ==
    ASSUME now \in Nat, NEW nsec \in Nat, SetTime(nsec)
    PROVE  armed' \in Nat \cup {Never} /\ ticks' = FALSE
BY DEF SetTime

LEMMA TypeInductive ==
    ASSUME TypeOK, [Next]_vars
    PROVE  TypeOK'
<1> USE TimerAssumption
<1>0. heap' \in Seq(Entry) /\ now \in Nat /\ heap \in Seq(Entry)
  BY HeapStep DEF TypeOK
<1>1. ASSUME NEW h \in Seq(Entry), h # << >>
      PROVE  Remaining(h) \in Nat /\ RearmTime(h) \in Nat
  <2>1. h[1] \in Entry
    BY <1>1, EmptySeq, ElementOfSeq
  <2>2. h[1].stamp \in Nat
    BY <2>1 DEF Entry
  <2> QED BY <1>0, <2>2 DEF Remaining, RearmTime
<1>2. CASE Tick
  BY <1>0, <1>2 DEF Tick, TypeOK
<1>3. ASSUME NEW stamp \in Stamps, NEW interval \in Intervals, AddTimer(stamp, interval)
      PROVE  TypeOK'
  <2>1. PICK e : AddResult(e)
    BY <1>3, AddFacts
  <2>2. heap' # << >>
    <3>1. Len(heap') = Len(heap) + 1 /\ Len(heap) \in Nat
      BY <1>0, <2>1, PushEntries, LenProperties DEF AddResult
    <3> QED BY <3>1, EmptySeq
  <2>3. armed' \in Nat \cup {Never} /\ ticks' = FALSE
    <3>1. SetTime(Remaining(heap'))
      BY <1>3 DEF AddTimer
    <3>2. Remaining(heap') \in Nat
      BY <1>0, <1>1, <2>2
    <3> QED BY <1>0, <3>1, <3>2, SetType
  <2>4. /\ counter' \in 0..MaxTimers /\ missed' = FALSE
        /\ UNCHANGED <<now, at, since, expired, cancelled, panicked>>
    BY <1>3 DEF AddTimer, TypeOK
  <2> QED BY <1>0, <2>3, <2>4 DEF TypeOK
<1>4. ASSUME NEW id \in Ids, CancelTimer(id)
      PROVE  TypeOK'
  BY <1>0, <1>4 DEF CancelTimer, TypeOK
<1>5. CASE ExpireOne
  <2>1. PICK e, p, r : ExpireResult(e, p, r)
    BY <1>5, ExpireFacts
  <2>2. expired' \in Seq(Entry)
    BY <2>1, AppendProperties DEF ExpireResult, TypeOK
  <2> QED BY <1>0, <1>5, <2>2 DEF ExpireOne, TypeOK
<1>6. CASE Rearm
  <2>1. armed' \in Nat \cup {Never} /\ ticks' \in BOOLEAN
    <3>1. CASE heap = << >>
      BY <1>6, <3>1 DEF Rearm, TypeOK
    <3>2. CASE heap # << >>
      <4>1. SetTime(RearmTime(heap))
        BY <1>6, <3>2 DEF Rearm
      <4>2. RearmTime(heap) \in Nat
        BY <1>0, <1>1, <3>2
      <4> QED BY <1>0, <4>1, <4>2, SetType
    <3> QED BY <3>1, <3>2
  <2> QED BY <1>0, <1>6, <2>1 DEF Rearm, TypeOK
<1>7. CASE Return
  <2>1. expired' \in Seq(Entry)
    BY <1>7, HeadTailProperties DEF Return, TypeOK
  <2> QED BY <1>0, <1>7, <2>1 DEF Return, TypeOK, UserPlaces
<1>8. CASE Poll \/ ReadTimerfd \/ Fire \/ FireDone
  BY <1>0, <1>8 DEF Poll, ReadTimerfd, Fire, FireDone, TypeOK, UserPlaces
<1>9. CASE UNCHANGED vars
  BY <1>0, <1>9 DEF vars, TypeOK
<1> QED BY <1>2, <1>3, <1>4, <1>5, <1>6, <1>7, <1>8, <1>9 DEF Next, LoopStep

\* The clock, the array and the timerfd keep their types, whatever path an
\* entry takes through the heap.
THEOREM TypeCorrect == Spec => []TypeOK
<1>1. Init => TypeOK
  <2> SUFFICES ASSUME Init
               PROVE  TypeOK
    OBVIOUS
  <2>1. 0 \in 0..MaxTime /\ 0 \in 0..MaxTimers
    BY TimerAssumption
  <2>2. heap \in Seq(Entry) /\ expired \in Seq(Entry)
    BY EmptySeq DEF Init
  <2> QED BY <2>1, <2>2 DEF Init, TypeOK, UserPlaces
<1>2. TypeOK /\ [Next]_vars => TypeOK'
  BY TypeInductive
<1> QED BY <1>1, <1>2, PTL DEF Spec

-----------------------------------------------------------------------------
(* Cancelled timers.                                                       *)

\* An id that is not in the heap stays out of it, but for a new timer's.
LEMMA AddIds ==
    ASSUME TypeOK, IdsOK, CancelHolds, NEW e, AddResult(e),
           counter' = counter + 1, UNCHANGED <<expired, cancelled>>
    PROVE  IdsOK' /\ CancelHolds'
<1>0. /\ heap \in Seq(Entry) /\ counter \in Nat /\ DOMAIN heap = 1..Len(heap)
      /\ \A j \in DOMAIN heap : heap[j] \in Entry /\ heap[j].id \in Nat
      /\ \A j \in DOMAIN expired : expired[j] \in Entry /\ expired[j].id \in Nat
  <2>1. heap \in Seq(Entry) /\ expired \in Seq(Entry) /\ counter \in Nat
    BY TimerAssumption DEF TypeOK
  <2>2. DOMAIN heap = 1..Len(heap) /\ DOMAIN expired = 1..Len(expired)
    BY <2>1, LenProperties
  <2>3. /\ \A j \in DOMAIN heap : heap[j] \in Entry
        /\ \A j \in DOMAIN expired : expired[j] \in Entry
    BY <2>1, <2>2, ElementOfSeq
  <2>4. \A f \in Entry : f.id \in Nat
    BY TimerAssumption DEF Entry, Ids
  <2> QED BY <2>1, <2>2, <2>3, <2>4
<1>1. e \in Entry /\ e.id = counter + 1 /\ heap' = Push(heap, e)
  BY DEF AddResult
<1>2. \A j \in DOMAIN heap : heap[j].id # e.id
  BY <1>0, <1>1 DEF IdsOK
<1>3. /\ \A i \in DOMAIN heap' : heap'[i] = e \/ \E j \in DOMAIN heap : heap'[i] = heap[j]
      /\ Distinct(heap')
  BY <1>0, <1>1, <1>2, PushEntries DEF IdsOK
<1>4. \A i \in DOMAIN heap' : heap'[i].id <= counter'
  BY <1>0, <1>1, <1>3 DEF IdsOK
<1>5. /\ \A i \in DOMAIN expired' : expired'[i].id <= counter'
      /\ \A id \in cancelled' : id <= counter'
  BY <1>0, TimerAssumption DEF IdsOK, TypeOK, Ids
<1>6. \A i \in DOMAIN expired' :
         expired'[i].interval = 0 => \A j \in DOMAIN heap' : heap'[j].id # expired'[i].id
  BY <1>0, <1>1, <1>3 DEF IdsOK
<1>7. \A i \in DOMAIN heap' : heap'[i].id \notin cancelled'
  BY <1>0, <1>1, <1>3, TimerAssumption DEF IdsOK, CancelHolds, TypeOK, Ids
<1> QED BY <1>3, <1>4, <1>5, <1>6, <1>7 DEF IdsOK, CancelHolds

LEMMA CancelIds ==
    ASSUME TypeOK, IdsOK, CancelHolds, NEW id \in Ids, CancelTimer(id)
    PROVE  IdsOK' /\ CancelHolds'
<1>0. /\ heap \in Seq(Entry) /\ counter \in Nat /\ DOMAIN heap = 1..Len(heap)
      /\ heap' = Without(heap, id) /\ id <= counter
      /\ cancelled' = IF heap' # heap THEN cancelled \cup {id} ELSE cancelled
      /\ UNCHANGED <<expired, counter>>
  BY LenProperties DEF TypeOK, CancelTimer
<1>1. Keeps(heap', heap, id, Len(heap))
  BY <1>0, WithoutEntries
<1>2. DOMAIN heap' = 1..Len(heap')
  BY SMTT(40), <1>1, LenProperties DEF Keeps
<1>3. \A i \in DOMAIN heap' : heap'[i].id # id /\ \E j \in DOMAIN heap : heap'[i] = heap[j]
  BY ZenonT(40), <1>0, <1>1, <1>2 DEF Keeps
<1>4. ASSUME heap' # heap
      PROVE  \E j \in DOMAIN heap : heap[j].id = id
  <2> SUFFICES ASSUME \A j \in DOMAIN heap : heap[j].id # id
               PROVE  FALSE
    OBVIOUS
  <2>1. Len(heap') = Len(heap) /\ \A j \in 1..Len(heap) : heap'[j] = heap[j]
    BY <1>0, <1>1 DEF Keeps
  <2>2. heap' \in Seq(Entry)
    BY <1>1 DEF Keeps
  <2>3. heap' = heap
    BY <1>0, <2>1, <2>2, SeqEqual
  <2> QED BY <1>4, <2>3
<1>5. IdsOK'
  <2>1. Distinct(heap')
    BY <1>1 DEF Keeps, IdsOK
  <2>2. \A i \in DOMAIN heap' : heap'[i].id <= counter'
    BY <1>0, <1>3 DEF IdsOK
  <2>3. \A d \in cancelled' : d <= counter'
    BY <1>0 DEF IdsOK
  <2>4. \A i \in DOMAIN expired' :
           expired'[i].interval = 0 => \A j \in DOMAIN heap' : heap'[j].id # expired'[i].id
    BY <1>0, <1>3 DEF IdsOK
  <2>5. \A i \in DOMAIN expired' : expired'[i].id <= counter'
    BY <1>0 DEF IdsOK
  <2> QED BY <2>1, <2>2, <2>3, <2>4, <2>5 DEF IdsOK
<1>6. CancelHolds'
  <2>1. \A i \in DOMAIN heap' : heap'[i].id \notin cancelled'
    BY <1>0, <1>3 DEF CancelHolds
  <2>2. ASSUME NEW i \in DOMAIN expired, expired[i].interval = 0
        PROVE  expired[i].id \notin cancelled'
    <3>1. expired[i].id \notin cancelled
      BY <2>2 DEF CancelHolds
    <3>2. heap' # heap => expired[i].id # id
      BY <1>4, <2>2 DEF IdsOK
    <3> QED BY <1>0, <3>1, <3>2
  <2> QED BY <1>0, <2>1, <2>2 DEF CancelHolds
<1> QED BY <1>5, <1>6

LEMMA ExpireIds ==
    ASSUME TypeOK, IdsOK, CancelHolds, ExpireOne
    PROVE  IdsOK' /\ CancelHolds'
<1>0. /\ heap \in Seq(Entry) /\ expired \in Seq(Entry) /\ DOMAIN heap = 1..Len(heap)
      /\ Len(heap) \in Nat /\ UNCHANGED <<counter, cancelled>>
  BY LenProperties DEF TypeOK, ExpireOne
<1>1. PICK e, p, r : ExpireResult(e, p, r)
  BY ExpireFacts
<1>2. /\ heap # << >> /\ e = heap[1] /\ e \in Entry /\ p = Pop(heap) /\ p \in Seq(Entry)
      /\ r \in Entry /\ r.id = e.id /\ r.interval = e.interval
      /\ expired' = Append(expired, e) /\ heap' = IF e.interval = 0 THEN p ELSE Push(p, r)
  BY <1>1 DEF ExpireResult
<1>3. 1 \in DOMAIN heap
  BY <1>0, <1>2, EmptySeq
<1>4. /\ \A i \in DOMAIN p : \E j \in DOMAIN heap : p[i] = heap[j]
      /\ Distinct(p) /\ \A i \in DOMAIN p : p[i].id # e.id
  <2>1. /\ \A i \in DOMAIN p : \E j \in 2..Len(heap) : p[i] = heap[j]
        /\ Distinct(heap) => Distinct(p) /\ \A i \in DOMAIN p : p[i].id # heap[1].id
    BY <1>0, <1>2, PopEntries
  <2>2. \A j \in 2..Len(heap) : j \in DOMAIN heap
    BY <1>0
  <2> QED BY <1>2, <2>1, <2>2 DEF IdsOK
<1>5. /\ Distinct(heap')
      /\ \A i \in DOMAIN heap' : heap'[i] = r \/ \E j \in DOMAIN heap : heap'[i] = heap[j]
      /\ e.interval = 0 => \A i \in DOMAIN heap' : heap'[i].id # e.id
  <2>1. CASE e.interval = 0
    BY <1>2, <1>4, <2>1
  <2>2. CASE e.interval # 0
    <3>1. heap' = Push(p, r)
      BY <1>2, <2>2
    <3>2. /\ Distinct(heap')
          /\ \A i \in DOMAIN heap' : heap'[i] = r \/ \E j \in DOMAIN p : heap'[i] = p[j]
      <4>1. \A j \in DOMAIN p : p[j].id # r.id
        BY <1>2, <1>4
      <4>2. p \in Seq(Entry) /\ r \in Entry
        BY <1>2
      <4>3. /\ \A i \in DOMAIN Push(p, r) :
                   Push(p, r)[i] = r \/ \E j \in DOMAIN p : Push(p, r)[i] = p[j]
            /\ Distinct(p) /\ (\A j \in DOMAIN p : p[j].id # r.id) => Distinct(Push(p, r))
        BY <4>2, PushEntries
      <4> QED BY <1>4, <3>1, <4>1, <4>3
    <3> QED BY <1>4, <2>2, <3>2
  <2> QED BY <2>1, <2>2
<1>6. \A i \in DOMAIN heap' : \E j \in DOMAIN heap : heap'[i].id = heap[j].id
  BY <1>2, <1>3, <1>5
<1>7. \A i \in DOMAIN expired' : expired'[i] = e \/ \E j \in DOMAIN expired : expired'[i] = expired[j]
  <2>1. /\ Len(expired') = Len(expired) + 1 /\ Len(expired) \in Nat
        /\ DOMAIN expired' = 1..(Len(expired) + 1) /\ DOMAIN expired = 1..Len(expired)
        /\ \A i \in 1..Len(expired) : expired'[i] = expired[i]
        /\ expired'[Len(expired) + 1] = e
    BY <1>0, <1>2, AppendProperties, LenProperties
  <2>2. \A i \in DOMAIN expired' : i = Len(expired) + 1 \/ i \in DOMAIN expired
    BY <2>1
  <2> QED BY <2>1, <2>2
<1>8. /\ \A i \in DOMAIN heap' : heap'[i].id <= counter' /\ heap'[i].id \notin cancelled'
      /\ \A i \in DOMAIN expired' : expired'[i].id <= counter'
      /\ \A d \in cancelled' : d <= counter'
  BY <1>0, <1>2, <1>3, <1>6, <1>7 DEF IdsOK, CancelHolds
<1>9. ASSUME NEW i \in DOMAIN expired', expired'[i].interval = 0
      PROVE  expired'[i].id \notin cancelled' /\ \A j \in DOMAIN heap' : heap'[j].id # expired'[i].id
  <2>1. CASE expired'[i] = e
    BY <1>0, <1>2, <1>3, <1>5, <1>9, <2>1 DEF CancelHolds
  <2>2. ASSUME NEW k \in DOMAIN expired, expired'[i] = expired[k]
        PROVE  expired'[i].id \notin cancelled' /\ \A j \in DOMAIN heap' : heap'[j].id # expired'[i].id
    <3>1. /\ expired[k].id \notin cancelled
          /\ \A j \in DOMAIN heap : heap[j].id # expired[k].id
      BY <1>9, <2>2 DEF CancelHolds, IdsOK
    <3> QED BY <1>0, <1>6, <2>2, <3>1
  <2> QED BY <1>7, <2>1, <2>2
<1> QED BY <1>5, <1>8, <1>9 DEF IdsOK, CancelHolds

\* The other steps at most take the first of the expired timers.
LEMMA ExpiredStep ==
    ASSUME TypeOK, [Next]_vars
    PROVE  \/ UNCHANGED <<expired, cancelled, counter>>
           \/ Return
           \/ \E stamp \in Stamps, interval \in Intervals : AddTimer(stamp, interval)
           \/ \E id \in Ids : CancelTimer(id)
           \/ ExpireOne
BY DEF Next, LoopStep, Tick, Poll, ReadTimerfd, Rearm, Fire, FireDone, vars

\* A callback that returns leaves the timers behind it.
LEMMA ReturnFacts ==
    ASSUME TypeOK, Return
    PROVE  /\ UNCHANGED <<heap, cancelled, counter>> /\ at' = "fire"
           /\ \A i \in DOMAIN expired' : i + 1 \in DOMAIN expired /\ expired'[i] = expired[i + 1]
                                         /\ i \in Nat
<1>1. expired \in Seq(Entry) /\ expired # << >> /\ expired' = Tail(expired)
  BY DEF TypeOK, Return
<1>2. /\ Len(expired) \in Nat /\ DOMAIN expired = 1..Len(expired)
      /\ expired' \in Seq(Entry) /\ Len(expired') = Len(expired) - 1
      /\ \A i \in 1..Len(expired') : expired'[i] = expired[i + 1]
  BY <1>1, HeadTailProperties, LenProperties
<1>3. DOMAIN expired' = 1..Len(expired')
  BY <1>2, LenProperties
<1> QED BY <1>2, <1>3 DEF Return

LEMMA IdsInductive ==
    ASSUME TypeOK, IdsOK, CancelHolds, [Next]_vars
    PROVE  IdsOK' /\ CancelHolds'
<1>1. ASSUME NEW stamp \in Stamps, NEW interval \in Intervals, AddTimer(stamp, interval)
      PROVE  IdsOK' /\ CancelHolds'
  <2>1. \E e : AddResult(e)
    BY <1>1, AddFacts
  <2>2. counter' = counter + 1 /\ UNCHANGED <<expired, cancelled>>
    BY <1>1 DEF AddTimer
  <2> QED BY <2>1, <2>2, AddIds
<1>2. ASSUME NEW id \in Ids, CancelTimer(id)
      PROVE  IdsOK' /\ CancelHolds'
  BY <1>2, CancelIds
<1>3. CASE ExpireOne
  BY <1>3, ExpireIds
<1>4. CASE Return
  BY <1>4, ReturnFacts DEF IdsOK, CancelHolds
<1>5. CASE UNCHANGED <<heap, expired, cancelled, counter>>
  BY <1>5 DEF IdsOK, CancelHolds
<1> QED BY <1>1, <1>2, <1>3, <1>4, <1>5, HeapStep, ExpiredStep

\* A timer that CancelTimer has removed does not run, wherever the array's
\* loop finds it and whatever was added since: ids are unique, and a one-shot
\* timer is in the heap or among the expired ones but never in both.
THEOREM TimersStayCancelled == Spec => []CancelHolds
<1>1. Init => IdsOK /\ CancelHolds
  BY DEF Init, IdsOK, CancelHolds, Distinct
<1>2. TypeOK /\ IdsOK /\ CancelHolds /\ [Next]_vars => IdsOK' /\ CancelHolds'
  BY IdsInductive
<1> QED BY <1>1, <1>2, TypeCorrect, PTL DEF Spec

-----------------------------------------------------------------------------
(* The order of the heap and of the timers that are due.                   *)

\* CancelTimer leaves a heap if it removes nothing, or one of two.
LEMMA CancelOrder ==
    ASSUME FewCancelled, TypeOK, HeapOrder(heap), NEW id \in Ids, CancelTimer(id)
    PROVE  HeapOrder(heap')
<1>0. /\ heap \in Seq(Entry) /\ heap' = Without(heap, id) /\ Len(heap) <= CancelUpTo
      /\ CancelUpTo <= 2 /\ Len(heap) \in Nat /\ DOMAIN heap = 1..Len(heap)
  BY LenProperties DEF TypeOK, CancelTimer, FewCancelled
<1>1. Keeps(heap', heap, id, Len(heap))
  BY <1>0, WithoutEntries
<1>2. Len(heap') \in Nat
  BY <1>1, LenProperties DEF Keeps
<1>3. CASE \E j \in 1..Len(heap) : heap[j].id = id
  <2>1. Len(heap') < Len(heap)
    BY <1>1, <1>3 DEF Keeps
  <2>2. 2..Len(heap') = {}
    BY <1>0, <1>2, <2>1, TimerAssumption
  <2> QED BY <2>2 DEF HeapOrder
<1>4. CASE \A j \in 1..Len(heap) : heap[j].id # id
  <2>1. Len(heap') = Len(heap) /\ \A j \in 1..Len(heap) : heap'[j] = heap[j]
    BY <1>1, <1>4 DEF Keeps
  <2>2. heap' \in Seq(Entry)
    BY <1>1 DEF Keeps
  <2>3. heap' = heap
    BY <1>0, <2>1, <2>2, SeqEqual
  <2> QED BY <2>3
<1> QED BY <1>3, <1>4

\* getExpired takes the earliest timer, and puts it back for later.
LEMMA ExpireOrder ==
    ASSUME TypeOK, RoundOK, DueOrder, ExpireOne
    PROVE  RoundOK' /\ DueOrder'
<1>0. /\ heap \in Seq(Entry) /\ expired \in Seq(Entry) /\ HeapOrder(heap)
      /\ DOMAIN heap = 1..Len(heap) /\ Len(heap) \in Nat /\ at = "expire" /\ at' = "expire"
      /\ \A i \in DOMAIN heap : heap[i] \in Entry /\ heap[i].stamp \in Nat
      /\ \A i \in DOMAIN expired : expired[i].stamp \in Nat
  <2>1. \A f \in Entry : f.stamp \in Nat
    BY DEF Entry
  <2> QED BY <2>1, LenProperties, ElementOfSeq DEF TypeOK, RoundOK, ExpireOne
<1>1. PICK e, p, r : ExpireResult(e, p, r)
  BY ExpireFacts
<1>2. /\ heap # << >> /\ e = heap[1] /\ e \in Entry /\ p = Pop(heap) /\ p \in Seq(Entry)
      /\ r \in Entry /\ r.stamp = e.stamp + e.interval
      /\ expired' = Append(expired, e) /\ heap' = IF e.interval = 0 THEN p ELSE Push(p, r)
  BY <1>1 DEF ExpireResult
<1>3. 1 \in DOMAIN heap
  BY <1>0, <1>2, EmptySeq
<1>4. HeapOrder(heap')
  <2>1. HeapOrder(p)
    BY <1>0, <1>2, PopOrder
  <2>2. HeapOrder(Push(p, r))
    BY <1>2, <2>1, PushOrder
  <2> QED BY <1>2, <2>1, <2>2
<1>5. \A i \in DOMAIN heap' : heap'[i] = r \/ \E j \in DOMAIN heap : heap'[i] = heap[j]
  <2>1. \A i \in DOMAIN p : \E j \in DOMAIN heap : p[i] = heap[j]
    <3>1. \A i \in DOMAIN p : \E j \in 2..Len(heap) : p[i] = heap[j]
      BY <1>0, <1>2, PopEntries
    <3>2. \A j \in 2..Len(heap) : j \in DOMAIN heap
      BY <1>0
    <3> QED BY <3>1, <3>2
  <2>2. \A i \in DOMAIN Push(p, r) : Push(p, r)[i] = r \/ \E j \in DOMAIN p : Push(p, r)[i] = p[j]
    BY <1>2, PushEntries
  <2>3. heap' = p \/ heap' = Push(p, r)
    BY <1>2
  <2> QED BY <2>1, <2>2, <2>3
<1>6. e.stamp \in Nat /\ r.stamp \in Nat /\ e.stamp <= r.stamp
  <2>1. e.interval \in Nat /\ e.stamp \in Nat
    BY <1>2, TimerAssumption DEF Entry
  <2> QED BY <1>2, <2>1
<1>7. \A i \in DOMAIN heap' : e.stamp <= heap'[i].stamp /\ heap'[i].stamp \in Nat
  <2>1. \A j \in DOMAIN heap : e.stamp <= heap[j].stamp
    BY <1>0, <1>2, RootLeast
  <2> QED BY <1>0, <1>5, <1>6, <2>1
<1>8. /\ Len(expired') = Len(expired) + 1 /\ Len(expired) \in Nat
      /\ DOMAIN expired' = 1..(Len(expired) + 1) /\ DOMAIN expired = 1..Len(expired)
      /\ \A i \in 1..Len(expired) : expired'[i] = expired[i]
      /\ expired'[Len(expired) + 1] = e
  BY <1>0, <1>2, AppendProperties, LenProperties
<1>9. \A i \in DOMAIN expired' : i = Len(expired) + 1 \/ i \in DOMAIN expired
  BY <1>8
<1>10. \A i \in DOMAIN expired : expired[i].stamp <= e.stamp
  BY <1>0, <1>2, <1>3 DEF RoundOK
<1>11. \A i \in DOMAIN expired' : expired'[i].stamp <= e.stamp /\ expired'[i].stamp \in Nat
  BY <1>0, <1>6, <1>8, <1>9, <1>10
<1>12. \A i \in DOMAIN expired', j \in DOMAIN heap' : expired'[i].stamp <= heap'[j].stamp
  BY <1>6, <1>7, <1>11
<1>13. ASSUME NEW i \in DOMAIN expired', NEW j \in DOMAIN expired', i < j
       PROVE  expired'[i].stamp <= expired'[j].stamp
  <2>1. CASE j = Len(expired) + 1
    BY <1>8, <1>11, <2>1
  <2>2. CASE j # Len(expired) + 1
    <3>1. j \in DOMAIN expired /\ i \in DOMAIN expired
      BY <1>8, <1>13, <2>2
    <3> QED BY <1>8, <1>13, <3>1 DEF DueOrder
  <2> QED BY <2>1, <2>2
<1> QED BY <1>0, <1>4, <1>12, <1>13 DEF RoundOK, DueOrder

LEMMA RoundInductive ==
    ASSUME FewCancelled, TypeOK, RoundOK, DueOrder, [Next]_vars
    PROVE  RoundOK' /\ DueOrder'
<1>0. HeapOrder(heap) /\ heap \in Seq(Entry)
  BY DEF RoundOK, TypeOK
<1>1. ASSUME NEW stamp \in Stamps, NEW interval \in Intervals, AddTimer(stamp, interval)
      PROVE  RoundOK' /\ DueOrder'
  <2>1. PICK e : AddResult(e)
    BY <1>1, AddFacts
  <2>2. HeapOrder(heap')
    BY <1>0, <2>1, PushOrder DEF AddResult
  <2>3. at # "expire" /\ UNCHANGED <<at, expired>>
    BY <1>1, TimerAssumption DEF AddTimer, UserPlaces
  <2> QED BY <2>2, <2>3 DEF RoundOK, DueOrder
<1>2. ASSUME NEW id \in Ids, CancelTimer(id)
      PROVE  RoundOK' /\ DueOrder'
  <2>1. HeapOrder(heap')
    BY <1>0, <1>2, CancelOrder
  <2>2. at # "expire" /\ UNCHANGED <<at, expired>>
    BY <1>2, TimerAssumption DEF CancelTimer, UserPlaces
  <2> QED BY <2>1, <2>2 DEF RoundOK, DueOrder
<1>3. CASE ExpireOne
  BY <1>3, ExpireOrder
<1>4. CASE Return
  <2>1. /\ UNCHANGED heap /\ at' = "fire"
        /\ \A i \in DOMAIN expired' : i + 1 \in DOMAIN expired /\ expired'[i] = expired[i + 1]
                                      /\ i \in Nat
    BY <1>4, ReturnFacts
  <2>2. ASSUME NEW i \in DOMAIN expired', NEW j \in DOMAIN expired', i < j
        PROVE  expired'[i].stamp <= expired'[j].stamp
    <3>1. i + 1 < j + 1
      BY <2>1, <2>2
    <3> QED BY <2>1, <3>1 DEF DueOrder
  <2> QED BY <1>0, <2>1, <2>2 DEF RoundOK, DueOrder
<1>5. CASE Poll \/ ReadTimerfd \/ Rearm \/ Fire \/ FireDone \/ Tick \/ UNCHANGED vars
  <2>1. UNCHANGED <<heap, expired>>
    BY <1>5 DEF Poll, ReadTimerfd, Rearm, Fire, FireDone, Tick, vars
  <2>2. at' \in {"idle", "ready"} => expired = << >>
    BY <1>5 DEF Poll, ReadTimerfd, Rearm, Fire, FireDone, Tick, vars, RoundOK
  <2>3. at' = "expire" => at = "expire" \/ expired = << >>
    BY <1>5 DEF Poll, ReadTimerfd, Rearm, Fire, FireDone, Tick, vars, RoundOK
  <2> QED BY <2>1, <2>2, <2>3 DEF RoundOK, DueOrder
<1> QED BY <1>1, <1>2, <1>3, <1>4, <1>5 DEF Next, LoopStep

LEMMA RoundHolds ==
    ASSUME FewCancelled
    PROVE  Spec => [](TypeOK /\ RoundOK /\ DueOrder)
<1>1. Init => RoundOK /\ DueOrder
  BY EmptySeq DEF Init, RoundOK, DueOrder, HeapOrder
<1>2. TypeOK /\ RoundOK /\ DueOrder /\ [Next]_vars => RoundOK' /\ DueOrder'
  BY RoundInductive
<1> QED BY <1>1, <1>2, TypeCorrect, PTL DEF Spec

\* tq.heap[0] is the earliest timer whenever AddTimer and getExpired look at
\* it: heap.Push and heap.Pop keep the array a heap.  It needs a CancelTimer
\* that filters at most two entries, because filtering does not.
THEOREM RootIsEarliest ==
    ASSUME FewCancelled
    PROVE  Spec => []EarliestFirst
<1>1. TypeOK /\ RoundOK => EarliestFirst
  BY RootLeast DEF TypeOK, RoundOK, EarliestFirst
<1> QED BY <1>1, RoundHolds, PTL

\* getExpired returns the timers in the order of their times, although the
\* periodic ones re-enter the heap while it takes the others out.
THEOREM DueInOrder ==
    ASSUME FewCancelled
    PROVE  Spec => []DueOrder
BY RoundHolds, PTL

-----------------------------------------------------------------------------
(* The timerfd.                                                            *)

\* An array with timers has a first one, with a time.
LEMMA FirstEntry ==
    ASSUME NEW h \in Seq(Entry), h # << >>
    PROVE  1 \in DOMAIN h /\ h[1] \in Entry /\ h[1].stamp \in Nat
<1>1. DOMAIN h = 1..Len(h) /\ 1 \in 1..Len(h)
  BY EmptySeq, LenProperties
<1>2. h[1] \in Entry
  BY <1>1, ElementOfSeq
<1> QED BY <1>1, <1>2 DEF Entry

\* AddTimer sets the timerfd for the root of the heap that it leaves.
LEMMA AddCovers ==
    ASSUME TypeOK, NEW h \in Seq(Entry), HeapOrder(h), heap' = h, h # << >>,
           now' = now, SetTime(Remaining(h))
    PROVE  Covered'
<1>1. h[1] \in Entry /\ h[1].stamp \in Nat
  BY FirstEntry
<1>2. \A i \in DOMAIN h : h[1].stamp <= h[i].stamp
  BY RootLeast
<1>3. now \in Nat /\ Never \notin Nat
  BY TimerAssumption DEF TypeOK
<1>4. armed' = IF now < h[1].stamp THEN h[1].stamp ELSE now + 1
  BY <1>1, <1>3 DEF SetTime, Remaining
<1>5. armed' \in Nat /\ armed' # Never /\ (armed' = h[1].stamp \/ armed' = now' + 1)
  BY <1>1, <1>3, <1>4
<1>6. \A i \in DOMAIN heap' : armed' <= heap'[i].stamp \/ armed' <= now' + 1
  BY <1>2, <1>3, <1>5
<1> QED BY <1>5, <1>6 DEF Covered

\* getExpired sets it for the root of the heap, if its time is still to come.
\* A time that has come was not due at the first reading of the clock.
LEMMA RearmCovers ==
    ASSUME TypeOK, RoundOK, Rearm
    PROVE  heap' # << >> => Covered' \/ missed'
<1>1. CASE heap = << >>
  BY <1>1 DEF Rearm
<1>2. CASE heap # << >>
  <2>1. heap \in Seq(Entry) /\ HeapOrder(heap) /\ now \in Nat /\ Never \notin Nat
    BY TimerAssumption DEF TypeOK, RoundOK
  <2>2. heap[1] \in Entry /\ heap[1].stamp \in Nat /\ 1 \in DOMAIN heap
    BY <1>2, <2>1, FirstEntry
  <2>3. \A i \in DOMAIN heap : heap[1].stamp <= heap[i].stamp
    BY <2>1, RootLeast
  <2>4. since \in Nat /\ since <= heap[1].stamp
    BY <1>2, <2>2, TimerAssumption DEF TypeOK, Rearm, IsDue
  <2>5. CASE heap[1].stamp <= now
    BY <1>2, <2>4, <2>5 DEF Rearm
  <2>6. CASE now < heap[1].stamp
    <3>1. SetTime(RearmTime(heap)) /\ UNCHANGED <<heap, now>>
      BY <1>2 DEF Rearm
    <3>2. armed' = heap[1].stamp
      BY <2>1, <2>2, <2>6, <3>1 DEF SetTime, RearmTime
    <3> QED BY <2>1, <2>2, <2>3, <3>1, <3>2 DEF Covered
  <2> QED BY <2>1, <2>2, <2>5, <2>6
<1> QED BY <1>1, <1>2

\* As time passes the timerfd expires before what it was set for is late.
LEMMA TickCovers ==
    ASSUME TypeOK, Covered, Tick
    PROVE  Covered'
<1>1. /\ now \in Nat /\ now' = now + 1 /\ heap' = heap
      /\ armed' = IF armed # Never /\ armed <= now' THEN Never ELSE armed
      /\ ticks' = (ticks \/ (armed # Never /\ armed <= now'))
  BY TimerAssumption DEF TypeOK, Tick
<1>2. CASE ticks
  BY <1>1, <1>2 DEF Covered
<1>3. CASE armed # Never /\ armed <= now'
  BY <1>1, <1>3 DEF Covered
<1>4. CASE ~ticks /\ ~(armed # Never /\ armed <= now')
  <2>1. armed' = armed
    BY <1>1, <1>4
  <2>2. armed # Never /\ \A i \in DOMAIN heap : armed <= heap[i].stamp
    BY <1>1, <1>4 DEF Covered
  <2> QED BY <1>1, <2>1, <2>2 DEF Covered
<1> QED BY <1>2, <1>3, <1>4

\* CancelTimer leaves the timerfd alone and adds nothing to the array.
LEMMA CancelCovers ==
    ASSUME TypeOK, Covered, NEW id \in Ids, CancelTimer(id)
    PROVE  Covered'
<1>1. heap \in Seq(Entry) /\ heap' = Without(heap, id) /\ UNCHANGED <<armed, ticks, now>>
      /\ DOMAIN heap = 1..Len(heap) /\ Len(heap) \in Nat
  BY LenProperties DEF TypeOK, CancelTimer
<1>2. Keeps(heap', heap, id, Len(heap))
  BY <1>1, WithoutEntries
<1>3. /\ heap' \in Seq(Entry) /\ DOMAIN heap' = 1..Len(heap')
      /\ Len(heap') \in Nat /\ Len(heap') <= Len(heap)
      /\ \A i \in DOMAIN heap' : \E j \in DOMAIN heap : heap'[i] = heap[j]
  BY SMTT(40), <1>1, <1>2, LenProperties DEF Keeps
<1>4. heap' # << >> => heap # << >>
  BY <1>1, <1>3, EmptySeq
<1> QED BY <1>1, <1>3, <1>4 DEF Covered

\* A step with timers pending leaves them to a timerfd that covers them, or is
\* the getExpired that misses one.
LEMMA ClockInductive ==
    ASSUME FewCancelled, TypeOK, RoundOK, RoundOK', ClockOK, [Next]_vars
    PROVE  ClockOK'
<1> SUFFICES ASSUME at' # "expire", heap' # << >>
             PROVE  Covered' \/ missed'
  BY DEF ClockOK
<1>1. ASSUME NEW stamp \in Stamps, NEW interval \in Intervals, AddTimer(stamp, interval)
      PROVE  Covered'
  <2>1. PICK e : AddResult(e)
    BY <1>1, AddFacts
  <2>2. e \in Entry /\ heap' = Push(heap, e) /\ heap \in Seq(Entry)
    BY <2>1 DEF AddResult, TypeOK
  <2>3. heap' \in Seq(Entry)
    BY <2>2, PushEntries
  <2>4. HeapOrder(heap')
    BY DEF RoundOK
  <2>5. PICK h : h = heap'
    OBVIOUS
  <2>6. SetTime(Remaining(h)) /\ now' = now
    BY <1>1, <2>5 DEF AddTimer
  <2>7. h \in Seq(Entry) /\ HeapOrder(h) /\ heap' = h /\ h # << >>
    BY <2>3, <2>4, <2>5
  <2> QED BY <2>6, <2>7, AddCovers
<1>2. ASSUME NEW id \in Ids, CancelTimer(id)
      PROVE  Covered' \/ missed'
  <2>1. at # "expire" /\ missed' = missed /\ heap # << >>
    <3>1. at # "expire" /\ missed' = missed /\ heap' = Without(heap, id) /\ heap \in Seq(Entry)
      BY <1>2, TimerAssumption DEF CancelTimer, UserPlaces, TypeOK
    <3>2. Keeps(heap', heap, id, Len(heap))
      BY <3>1, WithoutEntries
    <3>3. heap' \in Seq(Entry) /\ Len(heap') <= Len(heap)
      BY <3>2 DEF Keeps
    <3>4. Len(heap') \in Nat /\ Len(heap) \in Nat /\ (heap = << >> => Len(heap) = 0)
          /\ Len(heap') # 0
      BY <3>1, <3>3, LenProperties, EmptySeq
    <3> QED BY <3>1, <3>3, <3>4
  <2>2. Covered \/ missed
    BY <2>1 DEF ClockOK
  <2> QED BY <1>2, <2>1, <2>2, CancelCovers
<1>3. CASE Tick
  <2>1. at # "expire" /\ heap # << >> /\ missed' = missed
    BY <1>3 DEF Tick
  <2> QED BY <1>3, <2>1, TickCovers DEF ClockOK
<1>4. CASE Rearm
  BY <1>4, RearmCovers
<1>5. CASE ExpireOne
  BY <1>5 DEF ExpireOne
<1>6. CASE ReadTimerfd
  BY <1>6 DEF ReadTimerfd, ClockOK, Covered
<1>7. CASE Poll \/ Fire \/ Return \/ FireDone \/ UNCHANGED vars
  BY <1>7 DEF Poll, Fire, Return, FireDone, vars, ClockOK, Covered
<1> QED BY <1>1, <1>2, <1>3, <1>4, <1>5, <1>6, <1>7 DEF Next, LoopStep

\* Whenever the loop waits with timers pending, the timerfd is readable or
\* armed for the earliest of them, however time passes and wherever timers are
\* added and cancelled.  The one exception is a time that comes between
\* getExpired's two readings of the clock, or at the second; it lasts until
\* the next AddTimer.
THEOREM NoTimerForgotten ==
    ASSUME FewCancelled
    PROVE  Spec => []NoForgottenTimer
<1>1. Init => ClockOK
  BY DEF Init, ClockOK
<1>2. TypeOK /\ RoundOK /\ RoundOK' /\ ClockOK /\ [Next]_vars => ClockOK'
  BY ClockInductive
<1>3. ClockOK => NoForgottenTimer
  BY DEF ClockOK, NoForgottenTimer
<1> QED BY <1>1, <1>2, <1>3, RoundHolds, PTL DEF Spec

=============================================================================
