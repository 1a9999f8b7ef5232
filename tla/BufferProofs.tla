---------------------------- MODULE BufferProofs ----------------------------
(***************************************************************************)
(* Theorems about Buffer, for every set of bytes and every size of the     *)
(* array, of extrabuf and of what is put in at once.                       *)
(***************************************************************************)
EXTENDS Buffer, SequenceTheorems, TLAPS

Cell == Byte \cup {Zero}

\* Go's copy changes no length, and only the positions it copies to.
LEMMA CopyResult ==
    ASSUME NEW dst \in Seq(Cell), NEW off \in Nat, NEW src \in Seq(Cell)
    PROVE  /\ Copy(dst, off, src) \in Seq(Cell)
           /\ Len(Copy(dst, off, src)) = Len(dst)
           /\ \A i \in 1..Len(dst) :
                Copy(dst, off, src)[i] =
                    IF i > off /\ i <= off + Len(src) THEN src[i - off] ELSE dst[i]
<1>1. DOMAIN dst = 1..Len(dst)
  BY LenProperties
<1>2. \A i \in 1..Len(dst) :
        (IF i > off /\ i <= off + Len(src) THEN src[i - off] ELSE dst[i]) \in Cell
  BY ElementOfSeq
<1>3. QED
  BY <1>1, <1>2 DEF Copy

\* What make([]byte, n) returns.
LEMMA FreshResult ==
    ASSUME NEW n \in Nat
    PROVE  Fresh(n) \in Seq(Cell) /\ Len(Fresh(n)) = n
BY DEF Fresh, Cell

\* A slice of the array holds as many bytes as its bounds say.
LEMMA SliceResult ==
    ASSUME NEW S, NEW s \in Seq(S), NEW m \in Nat, NEW n \in Nat,
           m <= n, n <= Len(s)
    PROVE  /\ SubSeq(s, m + 1, n) \in Seq(S)
           /\ Len(SubSeq(s, m + 1, n)) = n - m
           /\ \A i \in 1..(n - m) : SubSeq(s, m + 1, n)[i] = s[m + i]
<1>1. \A i \in (m + 1)..n : s[i] \in S
  BY ElementOfSeq
<1>2. QED
  BY <1>1, SubSeqProperties

-----------------------------------------------------------------------------
(* What Append does to the array and the indices, in each of its cases.    *)

InOrder(d, r, w) ==
    /\ d \in Seq(Cell)
    /\ r \in Nat
    /\ w \in Nat
    /\ r <= w
    /\ w <= Len(d)

\* Whichever of its cases Append takes (buffer.go:44-75), the indices are in
\* order and inside the array that it leaves behind.
LEMMA AppendInOrder ==
    ASSUME NEW d, NEW r, NEW w, InOrder(d, r, w), NEW bs \in Seq(Cell)
    PROVE  LET b == AppendTo(d, r, w, bs)
           IN  b.ok \in BOOLEAN /\ InOrder(b.data, b.r, b.w)
<1> DEFINE sz == w - r + Len(bs)
           rest == SubSeq(d, r + 1, w)
           grown == Fresh(sz + Chunk)
           b == AppendTo(d, r, w, bs)
<1> USE DEF InOrder
<1>0. Len(d) \in Nat /\ Len(bs) \in Nat /\ sz \in Nat /\ w - r \in Nat
      /\ Chunk \in Nat /\ sz + Chunk \in Nat
  BY LenProperties, BufferAssumption
<1>1. rest \in Seq(Cell)
  BY SliceResult
<1>2. CASE Len(d) - w >= Len(bs)
  <2>1. b = [data |-> Copy(d, w, bs), r |-> r, w |-> w + Len(bs), ok |-> TRUE]
    BY SMTT(40), <1>0, <1>2 DEF AppendTo
  <2>2. QED
    BY <1>0, <1>2, <2>1, CopyResult
<1>3. CASE Len(d) - w < Len(bs) /\ Len(d) >= sz
  <2>1. b = [data |-> Copy(Copy(d, 0, rest), w - r, bs),
             r |-> 0, w |-> sz, ok |-> TRUE]
    BY SMTT(40), <1>0, <1>3 DEF AppendTo
  <2>2. Copy(d, 0, rest) \in Seq(Cell) /\ Len(Copy(d, 0, rest)) = Len(d)
    BY <1>1, CopyResult
  <2>3. /\ Copy(Copy(d, 0, rest), w - r, bs) \in Seq(Cell)
        /\ Len(Copy(Copy(d, 0, rest), w - r, bs)) = Len(d)
    BY <1>0, <2>2, CopyResult
  <2>4. QED
    BY <1>0, <1>3, <2>1, <2>3
<1>4. CASE Len(d) < sz
  <2>1. b = [data |-> Copy(Copy(grown, 0, rest), w, bs),
             r |-> 0, w |-> sz, ok |-> w <= sz + Chunk]
    BY <1>0, <1>4 DEF AppendTo
  <2>2. grown \in Seq(Cell) /\ Len(grown) = sz + Chunk
    BY <1>0, FreshResult
  <2>3. Copy(grown, 0, rest) \in Seq(Cell) /\ Len(Copy(grown, 0, rest)) = sz + Chunk
    BY <1>1, <2>2, CopyResult
  <2>4. /\ Copy(Copy(grown, 0, rest), w, bs) \in Seq(Cell)
        /\ Len(Copy(Copy(grown, 0, rest), w, bs)) = sz + Chunk
    BY <1>0, <2>3, CopyResult
  <2>5. QED
    BY <1>0, <2>1, <2>4
<1>5. QED
  BY <1>0, <1>2, <1>3, <1>4

\* An array that holds s and behind it t, from index k on.
LEMMA SliceIsConcat ==
    ASSUME NEW f \in Seq(Cell), NEW s \in Seq(Cell), NEW t \in Seq(Cell),
           NEW k \in Nat, k + Len(s) + Len(t) <= Len(f),
           \A i \in 1..Len(s) : f[k + i] = s[i],
           \A i \in 1..Len(t) : f[k + Len(s) + i] = t[i]
    PROVE  SubSeq(f, k + 1, k + Len(s) + Len(t)) = s \o t
<1>1. Len(s) \in Nat /\ Len(t) \in Nat /\ Len(f) \in Nat
  BY LenProperties
<1> DEFINE n == k + Len(s) + Len(t)
<1>2. /\ SubSeq(f, k + 1, n) \in Seq(Cell)
      /\ Len(SubSeq(f, k + 1, n)) = n - k
      /\ \A i \in 1..(n - k) : SubSeq(f, k + 1, n)[i] = f[k + i]
  BY SMTT(40), <1>1, SliceResult
<1>3. /\ s \o t \in Seq(Cell)
      /\ Len(s \o t) = n - k
      /\ \A i \in 1..(n - k) :
           (s \o t)[i] = IF i <= Len(s) THEN s[i] ELSE t[i - Len(s)]
  <2>1. Len(s) + Len(t) = n - k
    BY <1>1
  <2>2. QED
    BY <2>1, ConcatProperties
<1>4. ASSUME NEW i \in 1..(n - k)
      PROVE  f[k + i] = IF i <= Len(s) THEN s[i] ELSE t[i - Len(s)]
  <2>1. CASE i <= Len(s)
    BY <1>1, <2>1
  <2>2. CASE i > Len(s)
    <3>1. i - Len(s) \in 1..Len(t) /\ k + Len(s) + (i - Len(s)) = k + i
      BY <1>1, <2>2
    <3>2. f[k + Len(s) + (i - Len(s))] = t[i - Len(s)]
      BY <3>1
    <3>3. QED
      BY <1>1, <2>2, <3>1, <3>2
  <2>3. QED
    BY <1>1, <2>1, <2>2
<1> HIDE DEF n
<1>5. SubSeq(f, k + 1, n) = s \o t
  <2>1. PICK a, b : a = SubSeq(f, k + 1, n) /\ b = s \o t
    OBVIOUS
  <2>2. /\ a \in Seq(Cell) /\ b \in Seq(Cell) /\ Len(a) = Len(b)
        /\ \A i \in 1..Len(a) : a[i] = b[i]
    BY SMTT(40), <1>2, <1>3, <1>4, <2>1
  <2>3. a = b
    BY <2>2, SeqEqual
  <2>4. QED
    BY <2>1, <2>3
<1>6. QED
  BY <1>5 DEF n

\* What a buffer that Append returns holds.
Unread(b) == SubSeq(b.data, b.r + 1, b.w)

\* n more bytes fit into the array, or nothing has been retrieved.
HasRoom(d, r, w, n) == r = 0 \/ w - r + n <= Len(d)

\* Append puts its bytes behind the unread ones and changes none of these,
\* unless a part has been retrieved and the array still has to grow
\* (buffer.go:65-73).
LEMMA AppendContents ==
    ASSUME NEW d, NEW r, NEW w, InOrder(d, r, w), NEW bs \in Seq(Cell),
           HasRoom(d, r, w, Len(bs))
    PROVE  /\ AppendTo(d, r, w, bs).ok = TRUE
           /\ Unread(AppendTo(d, r, w, bs)) = SubSeq(d, r + 1, w) \o bs
<1> DEFINE sz == w - r + Len(bs)
           rest == SubSeq(d, r + 1, w)
           grown == Fresh(sz + Chunk)
           b == AppendTo(d, r, w, bs)
<1> SUFFICES b.ok = TRUE /\ SubSeq(b.data, b.r + 1, b.w) = rest \o bs
  BY DEF Unread
<1>0. /\ Len(d) \in Nat /\ Len(bs) \in Nat /\ sz \in Nat /\ w - r \in Nat
      /\ Chunk \in Nat /\ sz + Chunk \in Nat
      /\ d \in Seq(Cell) /\ r \in Nat /\ w \in Nat /\ r <= w /\ w <= Len(d)
  BY LenProperties, BufferAssumption DEF InOrder
<1>1. /\ rest \in Seq(Cell)
      /\ Len(rest) = w - r
      /\ \A i \in 1..(w - r) : rest[i] = d[r + i]
  BY <1>0, SliceResult
<1>2. CASE Len(d) - w >= Len(bs)
  <2> DEFINE new == Copy(d, w, bs)
  <2>1. b = [data |-> new, r |-> r, w |-> w + Len(bs), ok |-> TRUE]
    BY SMTT(40), <1>0, <1>2 DEF AppendTo
  <2>2. /\ new \in Seq(Cell)
        /\ Len(new) = Len(d)
        /\ \A i \in 1..Len(d) :
             new[i] = IF i > w /\ i <= w + Len(bs) THEN bs[i - w] ELSE d[i]
    BY <1>0, CopyResult
  <2> HIDE DEF new, rest, b, sz
  <2>3. ASSUME NEW i \in 1..Len(rest)
        PROVE  new[r + i] = rest[i]
    <3>1. i \in 1..(w - r) /\ r + i \in 1..Len(d) /\ ~(r + i > w)
      BY <1>0, <1>1
    <3>2. new[r + i] = d[r + i]
      BY <2>2, <3>1
    <3>3. QED
      BY <1>1, <3>1, <3>2
  <2>4. ASSUME NEW i \in 1..Len(bs)
        PROVE  new[r + Len(rest) + i] = bs[i]
    <3>1. i \in Nat /\ 1 <= i /\ i <= Len(bs)
      BY <1>0
    <3>2. r + Len(rest) + i = w + i
      BY <1>0, <1>1, <3>1
    <3>3. w + i \in 1..Len(d) /\ w + i - w = i
      BY <1>0, <1>2, <3>1
    <3>4. QED
      BY <1>0, <2>2, <3>1, <3>2, <3>3
  <2>5. /\ r + Len(rest) + Len(bs) = w + Len(bs)
        /\ r + Len(rest) + Len(bs) <= Len(new)
    BY <1>0, <1>1, <1>2, <2>2
  <2>6. SubSeq(new, r + 1, r + Len(rest) + Len(bs)) = rest \o bs
    <3>1. r \in Nat /\ rest \in Seq(Cell) /\ new \in Seq(Cell)
      BY <1>0, <1>1, <2>2
    <3>2. \A i \in 1..Len(rest) : new[r + i] = rest[i]
      BY <2>3
    <3>3. \A i \in 1..Len(bs) : new[r + Len(rest) + i] = bs[i]
      BY <2>4
    <3>4. QED
      BY <2>5, <3>1, <3>2, <3>3, SliceIsConcat
  <2>7. QED
    BY <2>1, <2>5, <2>6
<1>3. CASE Len(d) - w < Len(bs)
  <2> DEFINE dst == IF Len(d) >= sz THEN d ELSE grown
             moved == Copy(dst, 0, rest)
             new == Copy(moved, w - r, bs)
  <2>1. b = [data |-> new, r |-> 0, w |-> sz, ok |-> TRUE]
    <3>1. CASE Len(d) >= sz
      BY SMTT(40), <1>0, <1>3, <3>1 DEF AppendTo
    <3>2. CASE Len(d) < sz
      <4>1. w - r = w
        BY <1>0, <3>2 DEF HasRoom
      <4>2. (w <= sz + Chunk) = TRUE
        BY <1>0, <3>2
      <4>3. b = [data |-> Copy(Copy(grown, 0, rest), w, bs),
                 r |-> 0, w |-> sz, ok |-> w <= sz + Chunk]
        BY <1>0, <1>3, <3>2 DEF AppendTo
      <4>4. new = Copy(Copy(grown, 0, rest), w, bs)
        BY <1>0, <3>2, <4>1
      <4>5. QED
        BY <4>2, <4>3, <4>4
    <3>3. QED
      BY <1>0, <3>1, <3>2
  <2>2. dst \in Seq(Cell) /\ Len(dst) \in Nat /\ sz <= Len(dst)
    <3>1. grown \in Seq(Cell) /\ Len(grown) = sz + Chunk
      BY <1>0, FreshResult
    <3> HIDE DEF grown, sz
    <3>2. QED
      BY <1>0, <3>1
  <2>10. sz = (w - r) + Len(bs)
    OBVIOUS
  <2> HIDE DEF dst, rest, b, sz
  <2>3. /\ moved \in Seq(Cell)
        /\ Len(moved) = Len(dst)
        /\ \A i \in 1..Len(dst) :
             moved[i] = IF i > 0 /\ i <= 0 + Len(rest) THEN rest[i - 0] ELSE dst[i]
    BY <1>1, <2>2, CopyResult
  <2> HIDE DEF moved
  <2>4. /\ new \in Seq(Cell)
        /\ Len(new) = Len(dst)
        /\ \A i \in 1..Len(dst) :
             new[i] = IF i > w - r /\ i <= (w - r) + Len(bs) THEN bs[i - (w - r)]
                                                             ELSE moved[i]
    BY SMTT(40), <1>0, <2>2, <2>3, CopyResult
  <2> HIDE DEF new
  <2>5. ASSUME NEW i \in 1..Len(rest)
        PROVE  new[0 + i] = rest[i]
    <3>1. i \in 1..Len(dst) /\ 0 + i = i /\ i - 0 = i /\ ~(i > w - r)
      BY <1>0, <1>1, <2>10, <2>2
    <3>2. QED
      BY <1>0, <1>1, <2>3, <2>4, <3>1
  <2>6. ASSUME NEW i \in 1..Len(bs)
        PROVE  new[0 + Len(rest) + i] = bs[i]
    <3>1. i \in Nat /\ 1 <= i /\ i <= Len(bs)
      BY <1>0
    <3>2. PICK k : k = (w - r) + i
      OBVIOUS
    <3>3. k \in Nat /\ k > w - r /\ k <= (w - r) + Len(bs) /\ k - (w - r) = i
      BY <1>0, <3>1, <3>2
    <3>4. k \in 1..Len(dst)
      BY <1>0, <2>10, <2>2, <3>1, <3>2
    <3>5. 0 + Len(rest) + i = k
      BY <1>0, <1>1, <3>1, <3>2
    <3>6. new[k] = bs[i]
      BY <2>4, <3>3, <3>4
    <3>7. QED
      BY <3>5, <3>6
  <2>7. /\ 0 + Len(rest) + Len(bs) = sz
        /\ 0 + Len(rest) + Len(bs) <= Len(new)
    BY <1>0, <1>1, <2>10, <2>2, <2>4
  <2>8. SubSeq(new, 0 + 1, 0 + Len(rest) + Len(bs)) = rest \o bs
    <3>1. 0 \in Nat /\ rest \in Seq(Cell) /\ new \in Seq(Cell)
      BY <1>1, <2>4
    <3>2. \A i \in 1..Len(rest) : new[0 + i] = rest[i]
      BY <2>5
    <3>3. \A i \in 1..Len(bs) : new[0 + Len(rest) + i] = bs[i]
      BY <2>6
    <3>4. QED
      BY <2>7, <3>1, <3>2, <3>3, SliceIsConcat
  <2>9. QED
    BY <2>1, <2>7, <2>8
<1>4. Len(d) - w >= Len(bs) \/ Len(d) - w < Len(bs)
  BY <1>0
<1>5. QED
  BY <1>2, <1>3, <1>4, Zenon

-----------------------------------------------------------------------------
(* The invariant, and the refinement.                                      *)

\* IndicesInOrder in the form of the lemmas.
LEMMA InOrderNow ==
    IndicesInOrder <=> /\ InOrder(data, readIndex, writeIndex) /\ panicked \in BOOLEAN
                       /\ given \in Seq(Byte) /\ taken \in Nat
BY DEF IndicesInOrder, TypeOK, InOrder, Cell

\* The history variables of a call.
LEMMA CallType ==
    ASSUME NEW bs \in Seq(Byte), NEW n \in Nat, Call(bs, n)
    PROVE  given' \in Seq(Byte) /\ taken' \in Nat
BY DEF Call

\* What is put in is one to MaxPut bytes.
LEMMA BytesResult ==
    ASSUME NEW bs \in Bytes(MaxPut)
    PROVE  /\ bs \in Seq(Byte) /\ bs \in Seq(Cell)
           /\ Len(bs) \in 1..MaxPut
<1>1. PICK k \in 1..MaxPut : bs \in [1..k -> Byte]
  BY DEF Bytes
<1>2. k \in Nat
  BY BufferAssumption
<1>3. QED
  BY <1>1, <1>2 DEF Cell

\* Becomes leaves a buffer in order if the new one is.
LEMMA BecomesInOrder ==
    ASSUME IndicesInOrder, NEW b, Becomes(b),
           b.ok \in BOOLEAN, InOrder(b.data, b.r, b.w),
           given' \in Seq(Byte), taken' \in Nat
    PROVE  IndicesInOrder'
BY DEF Becomes, IndicesInOrder, TypeOK, InOrder, Cell

\* ReadFD fills the room that is left, and appends what extrabuf got.
LEMMA FillInOrder ==
    ASSUME IndicesInOrder, NEW bs \in Seq(Cell),
           NEW n \in 0..Len(bs), writeIndex + n <= Len(data)
    PROVE  /\ SubSeq(bs, 1, n) \in Seq(Cell)
           /\ Len(SubSeq(bs, 1, n)) = n
           /\ InOrder(Copy(data, writeIndex, SubSeq(bs, 1, n)), readIndex, writeIndex + n)
           /\ Len(Copy(data, writeIndex, SubSeq(bs, 1, n))) = Len(data)
<1>1. InOrder(data, readIndex, writeIndex)
  BY InOrderNow
<1>2. Len(bs) \in Nat /\ n \in Nat /\ n <= Len(bs) /\ 0 <= n
  BY LenProperties
<1>3. SubSeq(bs, 0 + 1, n) \in Seq(Cell) /\ Len(SubSeq(bs, 0 + 1, n)) = n - 0
  BY <1>2, SliceResult
<1>4. SubSeq(bs, 1, n) \in Seq(Cell) /\ Len(SubSeq(bs, 1, n)) = n
  BY <1>2, <1>3
<1>5. /\ Copy(data, writeIndex, SubSeq(bs, 1, n)) \in Seq(Cell)
      /\ Len(Copy(data, writeIndex, SubSeq(bs, 1, n))) = Len(data)
  BY <1>1, <1>4, CopyResult DEF InOrder
<1>6. QED
  BY <1>1, <1>2, <1>4, <1>5 DEF InOrder

\* Whatever is called in whatever order, also when the array grows after a
\* Retrieve, the slices of Peek, Append and ReadFD (buffer.go:19, 49, 70)
\* are within the array.
THEOREM IndicesStayInOrder == Spec => []IndicesInOrder
<1>1. Init => IndicesInOrder
  <2> SUFFICES ASSUME Init
               PROVE  IndicesInOrder
    OBVIOUS
  <2>1. data \in Seq(Cell) /\ Len(data) = Chunk /\ Chunk \in Nat
    BY FreshResult, BufferAssumption DEF Init
  <2>2. readIndex = 0 /\ writeIndex = 0 /\ panicked \in BOOLEAN
    BY DEF Init
  <2>3. given \in Seq(Byte) /\ taken \in Nat
    BY DEF Init
  <2>4. QED
    BY <2>1, <2>2, <2>3 DEF IndicesInOrder, TypeOK, Cell
<1>2. IndicesInOrder /\ [Next]_vars => IndicesInOrder'
  <2> SUFFICES ASSUME IndicesInOrder, [Next]_vars
               PROVE  IndicesInOrder'
    OBVIOUS
  <2>0. InOrder(data, readIndex, writeIndex)
    BY InOrderNow
  <2>1. ASSUME NEW bs \in Bytes(MaxPut), AppendBytes(bs)
        PROVE  IndicesInOrder'
    <3>1. bs \in Seq(Cell)
      BY BytesResult
    <3>2. given' \in Seq(Byte) /\ taken' \in Nat
      BY <2>1, BytesResult, CallType DEF AppendBytes
    <3>3. QED
      BY <2>0, <2>1, <3>1, <3>2, AppendInOrder, BecomesInOrder DEF AppendBytes
  <2>2. ASSUME NEW bs \in Bytes(MaxPut), ReadFD(bs)
        PROVE  IndicesInOrder'
    <3> DEFINE writable == Len(data) - writeIndex
               size == IF Len(bs) < writable + Extra THEN Len(bs) ELSE writable + Extra
    <3>1. /\ bs \in Seq(Cell) /\ Len(bs) \in Nat /\ writable \in Nat
          /\ size \in 0..Len(bs) /\ Extra \in Nat
      BY <2>0, BytesResult, LenProperties, BufferAssumption DEF InOrder
    <3>6. given' \in Seq(Byte) /\ taken' \in Nat
      <4>1. bs \in Seq(Byte)
        BY BytesResult
      <4> HIDE DEF size
      <4>2. SubSeq(bs, 0 + 1, size) \in Seq(Byte)
        BY <3>1, <4>1, SliceResult
      <4>3. (IF writable = 0 THEN << >> ELSE SubSeq(bs, 1, size)) \in Seq(Byte)
        BY <4>2
      <4>4. Call(IF writable = 0 THEN << >> ELSE SubSeq(bs, 1, size), 0)
        BY <2>2 DEF ReadFD, size
      <4>5. QED
        BY <4>3, <4>4, CallType
    <3>2. CASE writable = 0 /\ UNCHANGED buffer
      BY <3>2, <3>6 DEF buffer, IndicesInOrder, TypeOK
    <3>3. CASE /\ size <= writable
               /\ data' = Copy(data, writeIndex, SubSeq(bs, 1, size))
               /\ writeIndex' = writeIndex + size
               /\ UNCHANGED <<readIndex, panicked>>
      <4>1. writeIndex + size <= Len(data)
        BY <2>0, <3>1, <3>3 DEF InOrder
      <4> HIDE DEF size
      <4>2. InOrder(data', readIndex', writeIndex')
        BY <3>1, <3>3, <4>1, FillInOrder
      <4>3. QED
        BY <3>3, <3>6, <4>2 DEF IndicesInOrder, TypeOK, InOrder, Cell
    <3>4. CASE /\ size > writable
               /\ Becomes(AppendTo(Copy(data, writeIndex, SubSeq(bs, 1, writable)),
                                   readIndex, Len(data),
                                   SubSeq(bs, writable + 1, size)))
      <4> DEFINE d == Copy(data, writeIndex, SubSeq(bs, 1, writable))
                 more == SubSeq(bs, writable + 1, size)
      <4>1. writable \in 0..Len(bs) /\ writeIndex + writable = Len(data)
            /\ writeIndex + writable <= Len(data)
        BY <2>0, <3>1, <3>4 DEF InOrder
      <4>2. size \in Nat /\ writable <= size /\ size <= Len(bs)
        BY <3>1, <3>4
      <4> HIDE DEF size, writable
      <4>3. InOrder(d, readIndex, Len(data))
        BY <3>1, <4>1, FillInOrder
      <4>4. more \in Seq(Cell)
        BY <3>1, <4>2, SliceResult
      <4> HIDE DEF d, more
      <4>5. Becomes(AppendTo(d, readIndex, Len(data), more))
        BY <3>4 DEF d, more
      <4>6. QED
        BY <3>6, <4>3, <4>4, <4>5, AppendInOrder, BecomesInOrder
    <3>5. QED
      BY <2>2, <3>2, <3>3, <3>4 DEF ReadFD
  <2>3. ASSUME NEW i \in 0..MaxLen, Retrieve(i)
        PROVE  IndicesInOrder'
    <3>1. Call(<< >>, i) /\ i \in Nat /\ << >> \in Seq(Byte)
      BY <2>3, BufferAssumption DEF Retrieve
    <3>2. given' \in Seq(Byte) /\ taken' \in Nat
      BY <3>1, CallType
    <3>3. QED
      BY <2>3, <3>1, <3>2 DEF Retrieve, ReadableBytes, IndicesInOrder, TypeOK
  <2>4. CASE RetrieveAll
    <3>1. ReadableBytes \in Nat
      BY <2>0 DEF ReadableBytes, InOrder
    <3>2. given' \in Seq(Byte) /\ taken' \in Nat
      <4>1. << >> \in Seq(Byte) /\ Call(<< >>, ReadableBytes)
        BY <2>4 DEF RetrieveAll
      <4>2. QED
        BY <3>1, <4>1, CallType
    <3>3. QED
      BY <2>4, <3>2 DEF RetrieveAll, IndicesInOrder, TypeOK
  <2>5. CASE ReadFDEnd
    <3>1. << >> \in Seq(Byte) /\ 0 \in Nat /\ Call(<< >>, 0)
      BY <2>5 DEF ReadFDEnd
    <3>2. given' \in Seq(Byte) /\ taken' \in Nat
      BY <3>1, CallType
    <3>3. QED
      BY <2>5, <3>2 DEF ReadFDEnd, buffer, IndicesInOrder, TypeOK
  <2>6. CASE UNCHANGED vars
    BY <2>6 DEF vars, buffer, IndicesInOrder, TypeOK
  <2>7. QED
    BY <2>1, <2>2, <2>3, <2>4, <2>5, <2>6 DEF Next
<1>3. QED
  BY <1>1, <1>2, PTL DEF Spec

\* A successful Append puts its bytes at the end of the queue.
LEMMA AppendIsPut ==
    ASSUME NEW d, NEW bs \in Seq(Cell), NEW w, InOrder(d, readIndex, w),
           HasRoom(d, readIndex, w, Len(bs)),
           Becomes(AppendTo(d, readIndex, w, bs))
    PROVE  Peek' = SubSeq(d, readIndex + 1, w) \o bs /\ panicked' = FALSE
<1> DEFINE b == AppendTo(d, readIndex, w, bs)
<1>0. b.ok = TRUE
  BY AppendContents
<1>1. Unread(b) = SubSeq(d, readIndex + 1, w) \o bs
  BY ZenonT(40), AppendContents
<1> HIDE DEF b
<1>2. Becomes(b)
  BY DEF b
<1>3. data' = b.data /\ readIndex' = b.r /\ writeIndex' = b.w /\ panicked' = FALSE
  BY <1>0, <1>2 DEF Becomes
<1>4. QED
  BY <1>1, <1>3 DEF Peek, Unread

\* ReadFD's readv(2) into the room that is left puts bytes at the end.
LEMMA FillIsPut ==
    ASSUME IndicesInOrder, NEW bs \in Seq(Cell),
           NEW n \in 0..Len(bs), writeIndex + n <= Len(data)
    PROVE  SubSeq(Copy(data, writeIndex, SubSeq(bs, 1, n)),
                  readIndex + 1, writeIndex + n) = Peek \o SubSeq(bs, 1, n)
<1> DEFINE new == Copy(data, writeIndex, SubSeq(bs, 1, n))
           part == SubSeq(bs, 1, n)
<1>0. /\ InOrder(data, readIndex, writeIndex) /\ Len(data) \in Nat
      /\ n \in Nat /\ Len(bs) \in Nat
  BY InOrderNow, LenProperties DEF InOrder
<1>1. part \in Seq(Cell) /\ Len(part) = n /\ new \in Seq(Cell) /\ Len(new) = Len(data)
  BY FillInOrder DEF InOrder
<1>2. /\ Peek \in Seq(Cell)
      /\ Len(Peek) = writeIndex - readIndex
      /\ \A i \in 1..(writeIndex - readIndex) : Peek[i] = data[readIndex + i]
  BY <1>0, SliceResult DEF Peek, InOrder
<1> HIDE DEF part
<1>3. \A i \in 1..Len(data) :
        new[i] = IF i > writeIndex /\ i <= writeIndex + Len(part) THEN part[i - writeIndex]
                                                                  ELSE data[i]
  BY ZenonT(40), <1>0, <1>1, CopyResult DEF InOrder, part
<1> HIDE DEF new
<1>4. \A i \in 1..Len(Peek) : new[readIndex + i] = Peek[i]
  <2> SUFFICES ASSUME NEW i \in 1..Len(Peek)
               PROVE  new[readIndex + i] = Peek[i]
    OBVIOUS
  <2>1. PICK k : k = readIndex + i
    OBVIOUS
  <2>2. k \in 1..Len(data) /\ ~(k > writeIndex)
    BY <1>0, <1>2, <2>1 DEF InOrder
  <2>3. new[k] = data[k]
    BY <1>3, <2>2
  <2>4. Peek[i] = data[k]
    BY <1>2, <2>1
  <2>5. QED
    BY <2>1, <2>3, <2>4
<1>5. \A i \in 1..Len(part) : new[readIndex + Len(Peek) + i] = part[i]
  <2> SUFFICES ASSUME NEW i \in 1..Len(part)
               PROVE  new[readIndex + Len(Peek) + i] = part[i]
    OBVIOUS
  <2>1. readIndex + Len(Peek) + i = writeIndex + i
    BY <1>0, <1>1, <1>2 DEF InOrder
  <2>2. writeIndex + i \in 1..Len(data) /\ writeIndex + i - writeIndex = i
    BY <1>0, <1>1 DEF InOrder
  <2>4. PICK k : k = writeIndex + i
    OBVIOUS
  <2>5. k > writeIndex /\ k <= writeIndex + Len(part) /\ k \in 1..Len(data) /\ k - writeIndex = i
    BY <1>0, <1>1, <2>2, <2>4 DEF InOrder
  <2>6. new[k] = part[i]
    BY <1>3, <2>5
  <2>3. QED
    BY <2>1, <2>4, <2>6
<1>6. /\ readIndex \in Nat
      /\ readIndex + Len(Peek) + Len(part) = writeIndex + n
      /\ readIndex + Len(Peek) + Len(part) <= Len(new)
  BY <1>0, <1>1, <1>2 DEF InOrder
<1>7. SubSeq(new, readIndex + 1, readIndex + Len(Peek) + Len(part)) = Peek \o part
  BY ZenonT(40), <1>1, <1>2, <1>4, <1>5, <1>6, SliceIsConcat
<1>8. QED
  BY <1>6, <1>7 DEF new, part

\* Bytes put at the end of the queue are a Put of ByteQueue.
LEMMA IsPut ==
    ASSUME NEW bs, Call(bs, 0), panicked' = FALSE, Peek' = Peek \o bs
    PROVE  Queue!Put
BY DEF Queue!Put, Call

\* A call that is given nothing, takes nothing and changes nothing.
LEMMA IsIdle ==
    ASSUME NEW n \in Nat, Call(<< >>, n), n = 0 \/ panicked', Peek' = Peek,
           IndicesInOrder
    PROVE  Queue!Take
<1>1. InOrder(data, readIndex, writeIndex)
  BY InOrderNow
<1>2. Peek \in Seq(Cell) /\ Len(Peek) \in Nat
  BY <1>1, SliceResult, LenProperties DEF Peek, InOrder
<1>3. given' = << >> /\ taken' = 0
  BY DEF Call
<1>4. SubSeq(Peek, 0 + 1, Len(Peek)) = Peek
  <2>1. /\ SubSeq(Peek, 0 + 1, Len(Peek)) \in Seq(Cell)
        /\ Len(SubSeq(Peek, 0 + 1, Len(Peek))) = Len(Peek) - 0
        /\ \A i \in 1..(Len(Peek) - 0) : SubSeq(Peek, 0 + 1, Len(Peek))[i] = Peek[0 + i]
    BY <1>2, SliceResult
  <2>2. QED
    BY <1>2, <2>1, SeqEqual
<1>5. QED
  BY <1>2, <1>3, <1>4 DEF Queue!Take

\* As long as the array need not grow after a Retrieve, the buffer is a queue
\* of bytes: Append and ReadFD put them in, in order, Retrieve takes them from
\* the front, and moving or replacing the array (buffer.go:44-75) is not seen.
THEOREM BufferImplementsQueue == ASSUME ~GrowAnyhow PROVE Spec => ImplementsQueue
<1>1. Init => Queue!Init
  <2> SUFFICES ASSUME Init
               PROVE  Peek = << >>
    BY DEF Queue!Init, Init
  <2>1. QED
    BY SubSeqEmpty DEF Init, Peek
<1>2. IndicesInOrder /\ [Next]_vars => [Queue!Put \/ Queue!Take]_<<Peek, given, taken>>
  <2> SUFFICES ASSUME IndicesInOrder, [Next]_vars
               PROVE  Queue!Put \/ Queue!Take \/ UNCHANGED <<Peek, given, taken>>
    OBVIOUS
  <2>0. InOrder(data, readIndex, writeIndex)
    BY InOrderNow
  <2>1. ASSUME NEW bs \in Bytes(MaxPut), AppendBytes(bs)
        PROVE  Queue!Put
    <3>1. bs \in Seq(Byte) /\ bs \in Seq(Cell) /\ Len(bs) \in 1..MaxPut
      BY BytesResult
    <3>2. HasRoom(data, readIndex, writeIndex, Len(bs))
      BY <2>1 DEF HasRoom, AppendBytes, Room, ReadableBytes
    <3>3. Peek' = Peek \o bs /\ panicked' = FALSE
      BY <2>0, <2>1, <3>1, <3>2, AppendIsPut DEF AppendBytes, Peek
    <3>4. QED
      BY <2>1, <3>3, IsPut DEF AppendBytes
  <2>2. ASSUME NEW bs \in Bytes(MaxPut), ReadFD(bs)
        PROVE  Queue!Put \/ Queue!Take
    <3> DEFINE writable == Len(data) - writeIndex
               size == IF Len(bs) < writable + Extra THEN Len(bs) ELSE writable + Extra
               got == SubSeq(bs, 1, size)
    <3>1. /\ bs \in Seq(Byte) /\ bs \in Seq(Cell) /\ Len(bs) \in 1..MaxPut
          /\ Len(bs) \in Nat /\ writable \in Nat /\ Extra \in Nat \ {0}
          /\ MaxPut \in Nat
      BY <2>0, BytesResult, LenProperties, BufferAssumption DEF InOrder
    <3>2. size \in 1..Len(bs) /\ size \in 0..Len(bs) /\ size \in 1..MaxPut /\ size \in Nat
      BY <3>1
    <3>4. Peek' = Peek \o got /\ panicked' = FALSE /\ writable > 0 => Queue!Put
      <4>1. SUFFICES ASSUME Peek' = Peek \o got, panicked' = FALSE, writable > 0
                     PROVE  Queue!Put
        OBVIOUS
      <4>2. Call(IF writable = 0 THEN << >> ELSE got, 0)
        BY <2>2 DEF ReadFD
      <4>3. Call(got, 0)
        BY <3>1, <4>1, <4>2
      <4> HIDE DEF got, size, writable
      <4>4. QED
        BY <4>1, <4>3, IsPut
    <3>5. CASE writable = 0 /\ UNCHANGED buffer
      <4>1. Call(<< >>, 0)
        BY <2>2, <3>5 DEF ReadFD
      <4>2. Peek' = Peek
        BY <3>5 DEF buffer, Peek
      <4>3. QED
        BY <4>1, <4>2, IsIdle
    <3>9. panicked = FALSE
      BY <2>2 DEF ReadFD, IndicesInOrder, TypeOK
    <3>6. CASE /\ writable > 0 /\ size <= writable
               /\ data' = Copy(data, writeIndex, SubSeq(bs, 1, size))
               /\ writeIndex' = writeIndex + size
               /\ UNCHANGED <<readIndex, panicked>>
      <4>1. writeIndex + size <= Len(data)
        BY <2>0, <3>1, <3>2, <3>6 DEF InOrder
      <4> HIDE DEF size
      <4>2. SubSeq(data', readIndex' + 1, writeIndex') = Peek \o got
        BY <3>1, <3>2, <3>6, <4>1, FillIsPut
      <4>3. QED
        BY <3>4, <3>6, <3>9, <4>2 DEF Peek
    <3>7. CASE /\ writable > 0 /\ size > writable
               /\ Becomes(AppendTo(Copy(data, writeIndex, SubSeq(bs, 1, writable)),
                                   readIndex, Len(data),
                                   SubSeq(bs, writable + 1, size)))
      <4> DEFINE first == SubSeq(bs, 1, writable)
                 d == Copy(data, writeIndex, first)
                 more == SubSeq(bs, writable + 1, size)
      <4>1. /\ writable \in 0..Len(bs) /\ writeIndex + writable = Len(data)
            /\ writeIndex + writable <= Len(data)
            /\ writable <= size /\ size <= Len(bs)
        BY <2>0, <3>1, <3>2, <3>7 DEF InOrder
      <4>2. readIndex = 0 \/ writeIndex - readIndex + size <= Len(data)
        BY <2>2 DEF ReadFD, Room, ReadableBytes
      <4>3. writable = Len(data) - writeIndex
        OBVIOUS
      <4> HIDE DEF size, writable
      <4>4. /\ InOrder(d, readIndex, Len(data)) /\ Len(d) = Len(data)
            /\ first \in Seq(Cell)
        BY <3>1, <4>1, FillInOrder
      <4>5. more \in Seq(Cell) /\ Len(more) = size - writable
        BY <3>1, <3>2, <4>1, SliceResult
      <4>6. SubSeq(d, readIndex + 1, Len(data)) = Peek \o first
        BY <3>1, <4>1, FillIsPut
      <4>7. Peek \in Seq(Cell)
        BY <2>0, SliceResult DEF Peek, InOrder
      <4>8. first \o more = got
        <5>1. SubSeq(bs, 1, writable) \o SubSeq(bs, writable + 1, size)
                = SubSeq(bs, 1, size)
          <6>1. /\ 1 \in 1..(Len(bs) + 1) /\ writable \in (1 - 1)..Len(bs)
                /\ size \in writable..Len(bs)
            BY <3>1, <3>2, <4>1
          <6>2. QED
            BY <3>1, <6>1, ConcatAdjacentSubSeq
        <5>2. QED
          BY <5>1
      <4> HIDE DEF d, more, first, got
      <4>9. Becomes(AppendTo(d, readIndex, Len(data), more))
        BY <3>7 DEF d, more, first
      <4>10. HasRoom(d, readIndex, Len(data), Len(more))
        BY <2>0, <3>1, <3>2, <4>2, <4>3, <4>4, <4>5
        DEF InOrder, HasRoom
      <4>11. Peek' = (Peek \o first) \o more /\ panicked' = FALSE
        BY <4>4, <4>5, <4>6, <4>9, <4>10, AppendIsPut
      <4>12. Peek' = Peek \o got
        <5>1. (Peek \o first) \o more = Peek \o (first \o more)
          BY SMTT(40), <4>4, <4>5, <4>7, ConcatAssociative
        <5>2. QED
          BY <4>8, <4>11, <5>1
      <4>13. QED
        BY <3>4, <3>7, <4>11, <4>12
    <3>8. QED
      BY <2>2, <3>5, <3>6, <3>7 DEF ReadFD
  <2>3. ASSUME NEW i \in 0..MaxLen, Retrieve(i)
        PROVE  Queue!Take
    <3>1. CASE ReadableBytes < i
      <4>1. Peek' = Peek /\ Call(<< >>, i)
        BY <2>3, <3>1 DEF Retrieve, Peek
      <4>2. i \in Nat
        BY BufferAssumption
      <4>3. panicked'
        BY <2>3, <3>1 DEF Retrieve
      <4>4. QED
        BY <4>1, <4>2, <4>3, IsIdle
    <3>2. CASE ~(ReadableBytes < i)
      <4>1. /\ Peek \in Seq(Cell) /\ Len(Peek) = writeIndex - readIndex
            /\ i \in 0..Len(Peek) /\ i \in Nat /\ MaxLen \in Nat
        BY <2>0, <3>2, SliceResult, BufferAssumption DEF Peek, InOrder, ReadableBytes
      <4>2. Peek' = SubSeq(data, readIndex + i + 1, writeIndex)
        BY <2>3, <3>2 DEF Retrieve, Peek
      <4>3. Peek' = SubSeq(Peek, i + 1, Len(Peek))
        <5>1. /\ SubSeq(data, (readIndex + i) + 1, writeIndex) \in Seq(Cell)
              /\ Len(SubSeq(data, (readIndex + i) + 1, writeIndex))
                   = writeIndex - (readIndex + i)
              /\ \A k \in 1..(writeIndex - (readIndex + i)) :
                   SubSeq(data, (readIndex + i) + 1, writeIndex)[k] = data[(readIndex + i) + k]
          BY <2>0, <4>1, SliceResult DEF InOrder
        <5>2. /\ SubSeq(Peek, i + 1, Len(Peek)) \in Seq(Cell)
              /\ Len(SubSeq(Peek, i + 1, Len(Peek))) = Len(Peek) - i
              /\ \A k \in 1..(Len(Peek) - i) : SubSeq(Peek, i + 1, Len(Peek))[k] = Peek[i + k]
          BY <2>0, <4>1, SliceResult DEF InOrder
        <5>3. \A k \in 1..(writeIndex - readIndex) : Peek[k] = data[readIndex + k]
          BY <2>0, SliceResult DEF Peek, InOrder
        <5>4. writeIndex - (readIndex + i) = Len(Peek) - i
          BY <2>0, <4>1 DEF InOrder
        <5>5. ASSUME NEW k \in 1..(Len(Peek) - i)
              PROVE  data[(readIndex + i) + k] = Peek[i + k]
          <6>1. i + k \in 1..(writeIndex - readIndex) /\ readIndex + (i + k) = (readIndex + i) + k
            BY <2>0, <4>1 DEF InOrder
          <6>2. QED
            BY <5>3, <6>1
        <5>6. QED
          BY <4>2, <5>1, <5>2, <5>4, <5>5, SeqEqual
      <4>4. given' = << >> /\ taken' = i
        BY <2>3, <3>2 DEF Retrieve, Call
      <4>5. QED
        BY <4>1, <4>3, <4>4 DEF Queue!Take
    <3>3. QED
      BY <3>1, <3>2
  <2>4. CASE RetrieveAll
    <3>1. Peek \in Seq(Cell) /\ Len(Peek) \in Nat
      BY <2>0, SliceResult DEF Peek, InOrder
    <3>2. Peek' = << >>
      BY <2>4, SubSeqEmpty DEF RetrieveAll, Peek
    <3>3. SubSeq(Peek, Len(Peek) + 1, Len(Peek)) = << >>
      BY <3>1, SubSeqEmpty
    <3>4. given' = << >> /\ taken' = Len(Peek)
      <4>1. Len(Peek) = ReadableBytes
        BY <2>0, SliceResult DEF Peek, InOrder, ReadableBytes
      <4>2. QED
        BY <2>4, <4>1 DEF RetrieveAll, Call, IndicesInOrder, TypeOK
    <3>5. QED
      BY <3>1, <3>2, <3>3, <3>4 DEF Queue!Take
  <2>5. CASE ReadFDEnd
    <3>1. Call(<< >>, 0) /\ Peek' = Peek
      BY <2>5 DEF ReadFDEnd, buffer, Peek
    <3>2. QED
      BY <3>1, IsIdle
  <2>6. CASE UNCHANGED vars
    BY <2>6 DEF vars, buffer, Peek
  <2>7. QED
    BY <2>1, <2>2, <2>3, <2>4, <2>5, <2>6 DEF Next
<1>3. QED
  BY <1>1, <1>2, IndicesStayInOrder, PTL
  DEF Spec, ImplementsQueue, Queue!Spec

=============================================================================
