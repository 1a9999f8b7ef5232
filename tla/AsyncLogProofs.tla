--------------------------- MODULE AsyncLogProofs ---------------------------
(***************************************************************************)
(* Theorems about AsyncLog, for any number of producers and lines, any     *)
(* buffer size and any number of backup buffers.                           *)
(***************************************************************************)
EXTENDS AsyncLog, InductionLemmas, SequenceTheorems, TLAPS

-----------------------------------------------------------------------------
(* Lists of buffers.                                                       *)

In(b, s) == \E i \in DOMAIN s : s[i] = b
Once(s) == \A i, j \in DOMAIN s : s[i] = s[j] => i = j
Apart(s, t) == \A b \in Buffers : ~(In(b, s) /\ In(b, t))

LEMMA EmptyList == Once(<< >>) /\ \A b : ~In(b, << >>)
BY DEF Once, In

LEMMA AppendList ==
    ASSUME NEW s \in Seq(Buffers), NEW c \in Buffers
    PROVE  /\ Append(s, c) \in Seq(Buffers)
           /\ \A b : In(b, Append(s, c)) <=> In(b, s) \/ b = c
           /\ Once(s) /\ ~In(c, s) => Once(Append(s, c))
<1>1. /\ DOMAIN s = 1..Len(s) /\ Len(s) \in Nat
      /\ DOMAIN Append(s, c) = 1..(Len(s) + 1)
      /\ \A k \in 1..Len(s) : Append(s, c)[k] = s[k]
      /\ Append(s, c)[Len(s) + 1] = c
      /\ Append(s, c) \in Seq(Buffers)
  BY LenProperties, AppendProperties
<1>2. ASSUME NEW b
      PROVE  In(b, Append(s, c)) <=> In(b, s) \/ b = c
  <2>1. ASSUME In(b, Append(s, c))
        PROVE  In(b, s) \/ b = c
    BY <1>1, <2>1 DEF In
  <2>2. ASSUME In(b, s)
        PROVE  In(b, Append(s, c))
    BY <1>1, <2>2 DEF In
  <2>3. In(c, Append(s, c))
    BY <1>1 DEF In
  <2>4. QED
    BY <2>1, <2>2, <2>3
<1>3. ASSUME Once(s), ~In(c, s)
      PROVE  Once(Append(s, c))
  <2> SUFFICES ASSUME NEW i \in 1..(Len(s) + 1), NEW j \in 1..(Len(s) + 1),
                      Append(s, c)[i] = Append(s, c)[j]
               PROVE  i = j
    BY <1>1 DEF Once
  <2>1. i \in 1..Len(s) \/ i = Len(s) + 1
    BY <1>1
  <2>2. j \in 1..Len(s) \/ j = Len(s) + 1
    BY <1>1
  <2>3. QED
    BY <1>1, <1>3, <2>1, <2>2 DEF Once, In
<1>4. QED
  BY <1>1, <1>2, <1>3

\* The list without its last buffer.
LEMMA FrontList ==
    ASSUME NEW s \in Seq(Buffers), s # << >>, Once(s)
    PROVE  LET t == SubSeq(s, 1, Len(s) - 1) IN
           /\ t \in Seq(Buffers) /\ Once(t)
           /\ s[Len(s)] \in Buffers /\ In(s[Len(s)], s)
           /\ \A b : In(b, t) <=> In(b, s) /\ b # s[Len(s)]
<1> DEFINE n == Len(s)
           t == SubSeq(s, 1, n - 1)
<1>1. DOMAIN s = 1..n /\ n \in Nat \ {0} /\ \A i \in 1..n : s[i] \in Buffers
  BY LenProperties, EmptySeq, ElementOfSeq
<1> HIDE DEF n
<1>2. /\ t \in Seq(Buffers) /\ Len(t) = n - 1
      /\ \A i \in 1..(n - 1) : t[i] = s[i]
  <2>1. n - 1 \in 0..n /\ 1 \in 1..(n + 1) /\ \A i \in 1..(n - 1) : i \in 1..n /\ 1 + i - 1 = i
    BY <1>1
  <2>2. \A i \in 1..(n - 1) : s[i] \in Buffers
    BY <1>1, <2>1
  <2>3. QED
    BY SMTT(40), <1>1, <2>1, <2>2, SubSeqProperties DEF n
<1>3. DOMAIN t = 1..(n - 1)
  BY <1>2, LenProperties
<1> HIDE DEF t
<1>4. Once(t)
  BY <1>1, <1>2, <1>3 DEF Once
<1>5. In(s[n], s) /\ s[n] \in Buffers
  BY <1>1 DEF In
<1>6. ASSUME NEW b
      PROVE  In(b, t) <=> In(b, s) /\ b # s[n]
  <2>1. ASSUME NEW i \in 1..(n - 1), t[i] = b
        PROVE  In(b, s) /\ b # s[n]
    <3>1. i \in 1..n /\ i # n /\ n \in 1..n
      BY <1>1
    <3>2. s[i] = b
      BY <1>2, <2>1
    <3>3. QED
      BY <1>1, <3>1, <3>2 DEF In, Once
  <2>2. ASSUME NEW i \in 1..n, s[i] = b, b # s[n]
        PROVE  In(b, t)
    <3>1. i \in 1..(n - 1)
      BY <1>1, <2>2
    <3>2. QED
      BY <1>2, <1>3, <2>2, <3>1 DEF In
  <2>3. QED
    BY <1>1, <1>3, <2>1, <2>2 DEF In
<1>7. QED
  BY <1>2, <1>4, <1>5, <1>6 DEF n, t

LEMMA ConcatList ==
    ASSUME NEW s \in Seq(Buffers), NEW t \in Seq(Buffers)
    PROVE  /\ s \o t \in Seq(Buffers)
           /\ \A b : In(b, s \o t) <=> In(b, s) \/ In(b, t)
           /\ Once(s) /\ Once(t) /\ Apart(s, t) => Once(s \o t)
<1> DEFINE m == Len(s)
           n == Len(t)
           u == s \o t
<1>1. /\ DOMAIN s = 1..m /\ DOMAIN t = 1..n /\ m \in Nat /\ n \in Nat
      /\ u \in Seq(Buffers) /\ DOMAIN u = 1..(m + n)
      /\ \A i \in 1..(m + n) : u[i] = IF i <= m THEN s[i] ELSE t[i - m]
  BY LenProperties, ConcatProperties
<1> HIDE DEF m, n, u
<1>2. \A i \in 1..m : i \in 1..(m + n) /\ u[i] = s[i]
  BY <1>1
<1>3. \A j \in 1..n : j + m \in 1..(m + n) /\ u[j + m] = t[j]
  BY <1>1
<1>4. ASSUME NEW i \in 1..(m + n)
      PROVE  \/ i \in 1..m /\ u[i] = s[i]
             \/ i - m \in 1..n /\ u[i] = t[i - m]
  BY <1>1
<1>5. ASSUME NEW b
      PROVE  In(b, u) <=> In(b, s) \/ In(b, t)
  <2>1. In(b, u) => In(b, s) \/ In(b, t)
    BY <1>1, <1>4 DEF In
  <2>2. In(b, s) => In(b, u)
    BY <1>1, <1>2 DEF In
  <2>3. In(b, t) => In(b, u)
    BY <1>1, <1>3 DEF In
  <2>4. QED
    BY <2>1, <2>2, <2>3
<1>6. ASSUME Once(s), Once(t), Apart(s, t)
      PROVE  Once(u)
  <2> SUFFICES ASSUME NEW i \in 1..(m + n), NEW j \in 1..(m + n), u[i] = u[j]
               PROVE  i = j
    BY <1>1 DEF Once
  <2>1. \A k \in 1..m, l \in 1..n : s[k] # t[l]
    <3>1. \A k \in 1..m : s[k] \in Buffers
      BY ElementOfSeq DEF m
    <3>2. QED
      BY <1>1, <1>6, <3>1 DEF Apart, In
  <2>2. CASE i \in 1..m /\ u[i] = s[i]
    <3>1. j \in 1..m /\ u[j] = s[j]
      BY <1>4, <2>1, <2>2
    <3>2. QED
      BY <1>1, <1>6, <2>2, <3>1 DEF Once
  <2>3. CASE i - m \in 1..n /\ u[i] = t[i - m]
    <3>1. j - m \in 1..n /\ u[j] = t[j - m]
      BY <1>4, <2>1, <2>3
    <3>2. i - m = j - m
      BY <1>1, <1>6, <2>3, <3>1 DEF Once
    <3>3. QED
      BY <1>1, <3>2
  <2>4. QED
    BY <1>4, <2>2, <2>3
<1>7. QED
  BY <1>1, <1>5, <1>6 DEF u

-----------------------------------------------------------------------------
(* The strengthening of TypeOK, NoSharedBuffer and NoLostBroadcast.  A     *)
(* buffer is in one list; the numbers above `allocated' are new buffers;   *)
(* an empty current buffer means that no full one waits, because a         *)
(* rotation puts a line into the buffer that it takes.  A rotation         *)
(* allocates only in exchange for a buffer that holds a line, and that     *)
(* bounds the allocations by the calls of Logf.                            *)

InUse(b) == b = currentBuffer \/ In(b, backupBuffers) \/ In(b, fullBuffers)
            \/ In(b, tobeWritten)

ListsOK ==
    /\ currentBuffer \in Buffers /\ allocated \in Buffers
    /\ backupBuffers \in Seq(Buffers)
    /\ fullBuffers \in Seq(Buffers)
    /\ tobeWritten \in Seq(Buffers)
    /\ next \in 1..(Len(tobeWritten) + 1)

RestOK ==
    /\ lines \in [Buffers -> Seq(Line)]
    /\ used \in [Buffers -> 0..BufferSize]
    /\ at \in {"lock", "wait", "relock", "write"}
    /\ calls \in [Producers -> 0..MaxCalls]
    /\ logged \in 0..MaxLines
    /\ file \in Seq(Line)
    /\ chan \in 0..logged
    /\ held \in 0..chan

OnePlace ==
    /\ Once(backupBuffers) /\ Once(fullBuffers) /\ Once(tobeWritten)
    /\ Apart(backupBuffers, fullBuffers)
    /\ Apart(backupBuffers, tobeWritten)
    /\ Apart(fullBuffers, tobeWritten)
    /\ ~In(currentBuffer, backupBuffers)
    /\ ~In(currentBuffer, fullBuffers)
    /\ ~In(currentBuffer, tobeWritten)
    /\ \A b \in Buffers : InUse(b) => b <= allocated

Clean ==
    /\ \A b \in Buffers : b > allocated \/ In(b, backupBuffers) => Empty(b)
    /\ \A i \in 1..(next - 1) : Empty(tobeWritten[i])

InExchange ==
    allocated + (IF Empty(currentBuffer) THEN 0 ELSE 1) <= 1 + BackupNums + logged

Waiting ==
    /\ at # "write" => tobeWritten = << >>
    /\ Empty(currentBuffer) => fullBuffers = << >>
    /\ NoLostBroadcast

LogInv == ListsOK /\ RestOK /\ OnePlace /\ Clean /\ InExchange /\ Waiting

LEMMA BuffersAreNumbers == Buffers \subseteq Nat \ {0} /\ BufferSize \in Nat \ {0}
BY LogAssumption DEF Buffers

LEMMA LogInvImplies == LogInv => TypeOK /\ NoSharedBuffer /\ NoLostBroadcast
<1> SUFFICES ASSUME LogInv
             PROVE  TypeOK /\ NoSharedBuffer /\ NoLostBroadcast
  OBVIOUS
<1>1. ListsOK /\ RestOK /\ OnePlace /\ Clean /\ NoLostBroadcast
  BY DEF LogInv, Waiting
<1>2. TypeOK
  <2>1. chan \in 0..MaxLines /\ held \in 0..MaxLines
    BY <1>1, LogAssumption DEF RestOK
  <2>2. QED
    BY <1>1, <2>1 DEF ListsOK, RestOK, TypeOK
<1>3. Once(Places)
  <2> DEFINE c == <<currentBuffer>>
             s == c \o backupBuffers
             t == s \o fullBuffers
  <2>1. c \in Seq(Buffers) /\ Once(c) /\ \A b : In(b, c) <=> b = currentBuffer
    <3>1. c \in Seq(Buffers) /\ Len(c) = 1 /\ c[1] = currentBuffer
      BY <1>1 DEF ListsOK
    <3>2. DOMAIN c = 1..1
      BY <3>1, LenProperties
    <3>3. QED
      BY <3>1, <3>2 DEF Once, In
  <2> HIDE DEF c
  <2>2. /\ s \in Seq(Buffers) /\ Once(s)
        /\ \A b : In(b, s) <=> b = currentBuffer \/ In(b, backupBuffers)
    <3>1. Apart(c, backupBuffers)
      BY <1>1, <2>1 DEF OnePlace, Apart
    <3>2. QED
      BY <1>1, <2>1, <3>1, ConcatList DEF ListsOK, OnePlace
  <2> HIDE DEF s
  <2>3. /\ t \in Seq(Buffers) /\ Once(t)
        /\ \A b : In(b, t) <=> b = currentBuffer \/ In(b, backupBuffers)
                                \/ In(b, fullBuffers)
    <3>1. Apart(s, fullBuffers)
      BY <1>1, <2>2 DEF OnePlace, Apart
    <3>2. QED
      BY <1>1, <2>2, <3>1, ConcatList DEF ListsOK, OnePlace
  <2> HIDE DEF t
  <2>4. Once(t \o tobeWritten)
    <3>1. Apart(t, tobeWritten)
      BY <1>1, <2>3 DEF OnePlace, Apart
    <3>2. QED
      BY <1>1, <2>3, <3>1, ConcatList DEF ListsOK, OnePlace
  <2>5. QED
    BY <2>4 DEF Places, t, s, c
<1>4. \A i \in DOMAIN backupBuffers : Empty(backupBuffers[i])
  <2> SUFFICES ASSUME NEW i \in DOMAIN backupBuffers
               PROVE  Empty(backupBuffers[i])
    OBVIOUS
  <2>1. backupBuffers[i] \in Buffers
    BY <1>1, LenProperties, ElementOfSeq DEF ListsOK
  <2>2. In(backupBuffers[i], backupBuffers)
    BY DEF In
  <2>3. QED
    BY <1>1, <2>1, <2>2 DEF Clean
<1>5. QED
  BY <1>1, <1>2, <1>3, <1>4 DEF NoSharedBuffer, Once

LEMMA LogInvInitially == Init => LogInv
<1> SUFFICES ASSUME Init
             PROVE  LogInv
  OBVIOUS
<1>1. BackupNums \in Nat \ {0} /\ MaxLines \in Nat /\ Buffers = 1..(1 + BackupNums + MaxLines)
      /\ BufferSize \in Nat \ {0} /\ MaxCalls \in Nat
  BY LogAssumption DEF Buffers
<1>2. 1 + BackupNums \in Buffers
  BY <1>1
<1>3. /\ backupBuffers \in Seq(Buffers) /\ DOMAIN backupBuffers = 1..BackupNums
      /\ \A i \in 1..BackupNums : backupBuffers[i] = i
  <2>1. \A i \in 1..BackupNums : i \in Buffers
    BY <1>1
  <2>2. backupBuffers = [i \in 1..BackupNums |-> i]
    BY DEF Init
  <2>3. QED
    BY <1>1, <2>1, <2>2, IsASeq
<1>4. \A b : In(b, backupBuffers) <=> b \in 1..BackupNums
  BY <1>3 DEF In
<1>5. Once(backupBuffers)
  BY <1>3 DEF Once
<1>6. ListsOK
  BY <1>2, <1>3 DEF ListsOK, Init
<1>7. RestOK
  <2>1. lines \in [Buffers -> Seq(Line)] /\ used \in [Buffers -> 0..BufferSize]
    BY <1>1 DEF Init
  <2>2. calls \in [Producers -> 0..MaxCalls] /\ logged \in 0..MaxLines
    BY <1>1 DEF Init
  <2>3. QED
    BY <2>1, <2>2 DEF RestOK, Init
<1>8. \A b \in Buffers : Empty(b)
  BY DEF Init, Empty
<1>9. fullBuffers = << >> /\ tobeWritten = << >> /\ next = 1 /\ logged = 0
      /\ currentBuffer = 1 + BackupNums /\ allocated = 1 + BackupNums
  BY DEF Init
<1>10. OnePlace
  <2>1. /\ Apart(backupBuffers, fullBuffers) /\ Apart(backupBuffers, tobeWritten)
        /\ Apart(fullBuffers, tobeWritten)
        /\ ~In(currentBuffer, fullBuffers) /\ ~In(currentBuffer, tobeWritten)
        /\ Once(fullBuffers) /\ Once(tobeWritten)
    BY <1>9, EmptyList DEF Apart
  <2>2. ~In(currentBuffer, backupBuffers)
    BY <1>1, <1>4, <1>9
  <2>3. ASSUME NEW b \in Buffers, InUse(b)
        PROVE  b <= allocated
    <3>1. b = 1 + BackupNums \/ b \in 1..BackupNums
      BY <1>4, <1>9, <2>3, EmptyList DEF InUse
    <3>2. QED
      BY <1>1, <1>9, <3>1
  <2>4. QED
    BY <1>5, <2>1, <2>2, <2>3 DEF OnePlace
<1>11. Clean
  BY <1>8, <1>9 DEF Clean
<1>12. InExchange
  BY <1>1, <1>2, <1>8, <1>9 DEF InExchange
<1>13. Waiting
  BY <1>9 DEF Waiting, NoLostBroadcast, Init
<1>14. QED
  BY <1>6, <1>7, <1>10, <1>11, <1>12, <1>13 DEF LogInv

\* The buffer that a rotation takes is empty and in no list.
LEMMA TakenResult ==
    ASSUME LogInv, ~Empty(currentBuffer), TakeEmptyBuffer
    PROVE  /\ currentBuffer' \in Buffers /\ allocated' \in Buffers
           /\ backupBuffers' \in Seq(Buffers) /\ Once(backupBuffers')
           /\ Empty(currentBuffer') /\ currentBuffer' # currentBuffer
           /\ ~In(currentBuffer', fullBuffers) /\ ~In(currentBuffer', tobeWritten)
           /\ \A b \in Buffers : In(b, backupBuffers')
                                    => In(b, backupBuffers) /\ b # currentBuffer'
           /\ allocated <= allocated' /\ allocated' <= allocated + 1
           /\ currentBuffer' <= allocated'
<1>0. ListsOK /\ RestOK /\ OnePlace /\ Clean /\ InExchange
  BY DEF LogInv
<1>1. allocated \in Nat /\ currentBuffer \in Buffers /\ Buffers \subseteq Nat
  BY <1>0, BuffersAreNumbers DEF ListsOK
<1>2. CASE backupBuffers # << >>
  <2> DEFINE c == backupBuffers[Len(backupBuffers)]
             t == SubSeq(backupBuffers, 1, Len(backupBuffers) - 1)
  <2>1. currentBuffer' = c /\ backupBuffers' = t /\ allocated' = allocated
    BY <1>2 DEF TakeEmptyBuffer
  <2>2. /\ t \in Seq(Buffers) /\ Once(t) /\ c \in Buffers /\ In(c, backupBuffers)
        /\ \A b : In(b, t) <=> In(b, backupBuffers) /\ b # c
    BY <1>0, <1>2, FrontList DEF ListsOK, OnePlace
  <2> HIDE DEF c, t
  <2>3. /\ c # currentBuffer /\ ~In(c, fullBuffers) /\ ~In(c, tobeWritten) /\ c <= allocated
    BY <1>0, <2>2 DEF OnePlace, Apart, InUse
  <2>4. Empty(c)
    BY <1>0, <2>2 DEF Clean
  <2>5. QED
    BY <1>0, <1>1, <2>1, <2>2, <2>3, <2>4 DEF ListsOK
<1>3. CASE backupBuffers = << >>
  <2> DEFINE c == allocated + 1
  <2>1. currentBuffer' = c /\ backupBuffers' = backupBuffers /\ allocated' = c
    BY <1>3 DEF TakeEmptyBuffer
  <2>2. c \in Buffers
    BY <1>0, <1>1, LogAssumption DEF InExchange, RestOK, Buffers
  <2>3. c > allocated /\ ~(c <= allocated) /\ allocated <= c /\ c <= allocated + 1 /\ c <= c
    BY <1>1
  <2> HIDE DEF c
  <2>4. ~InUse(c)
    BY <1>0, <2>2, <2>3 DEF OnePlace
  <2>5. Empty(c)
    BY <1>0, <2>2, <2>3 DEF Clean
  <2>6. \A b : ~In(b, backupBuffers)
    BY <1>3, EmptyList
  <2>7. QED
    BY <1>0, <2>1, <2>2, <2>3, <2>4, <2>5, <2>6 DEF ListsOK, OnePlace, InUse
<1>4. QED
  BY <1>2, <1>3

\* A line goes into a buffer that has room for it.
LEMMA AppendLineResult ==
    ASSUME RestOK, NEW b \in Buffers, NEW line \in Line, NEW size \in Sizes,
           Fits(b, size), AppendLine(b, line, size)
    PROVE  /\ lines' \in [Buffers -> Seq(Line)] /\ used' \in [Buffers -> 0..BufferSize]
           /\ used'[b] # 0 /\ \A c \in Buffers : c # b => used'[c] = used[c]
<1>1. size \in Nat \ {0} /\ BufferSize \in Nat
  BY LogAssumption
<1>2. /\ lines' = [lines EXCEPT ![b] = Append(@, line)]
      /\ used' = [used EXCEPT ![b] = @ + size] /\ used[b] + size <= BufferSize
  BY DEF AppendLine, Fits
<1>3. lines' \in [Buffers -> Seq(Line)]
  <2>1. Append(lines[b], line) \in Seq(Line)
    BY AppendProperties DEF RestOK
  <2>2. QED
    BY <1>2, <2>1 DEF RestOK
<1>4. used[b] \in Nat /\ used[b] + size \in 0..BufferSize /\ used[b] + size # 0
  BY <1>1, <1>2 DEF RestOK
<1>5. QED
  BY <1>2, <1>3, <1>4 DEF RestOK

\* Logf keeps the invariant.
LEMMA LogfKept ==
    ASSUME LogInv, NEW p \in Producers, NEW size \in Sizes, Logf(p, size)
    PROVE  LogInv'
<1> DEFINE line == [from |-> p, n |-> calls[p] + 1]
<1>0. ListsOK /\ RestOK /\ OnePlace /\ Clean /\ InExchange /\ Waiting
  BY DEF LogInv
<1>1. /\ calls[p] \in 0..MaxCalls /\ calls[p] < MaxCalls /\ logged < MaxLines
      /\ calls' = [calls EXCEPT ![p] = @ + 1] /\ logged' = logged + 1
      /\ UNCHANGED <<held, at, tobeWritten, next, file>>
      /\ logged \in Nat /\ MaxCalls \in Nat /\ MaxLines \in Nat /\ chan \in 0..logged
      /\ held \in 0..chan
  BY <1>0, LogAssumption DEF Logf, RestOK, background
<1>2. line \in Line /\ calls' \in [Producers -> 0..MaxCalls] /\ logged' \in 0..MaxLines
  <2>1. calls[p] + 1 \in 1..MaxCalls /\ calls[p] + 1 \in 0..MaxCalls /\ logged + 1 \in 0..MaxLines
    BY <1>1
  <2>2. QED
    BY <1>0, <1>1, <2>1 DEF Line, RestOK
<1>3. /\ currentBuffer \in Buffers /\ allocated \in Nat /\ Buffers \subseteq Nat
      /\ BackupNums \in Nat
  BY <1>0, BuffersAreNumbers, LogAssumption DEF ListsOK
<1> HIDE DEF line
<1>4. CASE Fits(currentBuffer, size) /\ AppendLine(currentBuffer, line, size)
           /\ UNCHANGED <<shared, chan>>
  <2>1. UNCHANGED <<currentBuffer, backupBuffers, fullBuffers, allocated, chan>>
    BY <1>4 DEF shared
  <2>2. /\ lines' \in [Buffers -> Seq(Line)] /\ used' \in [Buffers -> 0..BufferSize]
        /\ used'[currentBuffer] # 0
        /\ \A c \in Buffers : c # currentBuffer => used'[c] = used[c]
    BY <1>0, <1>2, <1>3, <1>4, AppendLineResult
  <2>3. ListsOK' /\ OnePlace'
    BY <1>0, <1>1, <2>1 DEF ListsOK, OnePlace, Apart, InUse
  <2>4. RestOK'
    <3>1. chan' \in 0..logged' /\ held' \in 0..chan'
      BY <1>1, <2>1
    <3>2. QED
      BY <1>0, <1>1, <1>2, <2>2, <3>1 DEF RestOK
  <2>5. Clean'
    <3>1. ASSUME NEW b \in Buffers, b > allocated \/ In(b, backupBuffers)
          PROVE  used'[b] = 0
      <4>1. Empty(b) /\ b # currentBuffer
        <5>1. currentBuffer <= allocated
          BY <1>0, <1>3 DEF OnePlace, InUse
        <5>2. b # currentBuffer
          BY <1>0, <1>3, <3>1, <5>1 DEF OnePlace
        <5>3. QED
          BY <1>0, <3>1, <5>2 DEF Clean
      <4>2. QED
        BY <2>2, <4>1 DEF Empty
    <3>2. ASSUME NEW i \in 1..(next - 1)
          PROVE  used'[tobeWritten[i]] = 0
      <4>1. i \in DOMAIN tobeWritten /\ tobeWritten[i] \in Buffers
        BY <1>0, LenProperties, ElementOfSeq DEF ListsOK
      <4>2. tobeWritten[i] # currentBuffer
        BY <1>0, <4>1 DEF OnePlace, In
      <4>3. QED
        BY <1>0, <2>2, <4>1, <4>2 DEF Clean, Empty
    <3>3. QED
      BY <1>1, <2>1, <3>1, <3>2 DEF Clean, Empty
  <2>6. InExchange'
    <3>1. allocated <= 1 + BackupNums + logged
      BY <1>0, <1>1, <1>3 DEF InExchange
    <3>2. QED
      BY <1>1, <1>3, <2>1, <2>2, <3>1 DEF InExchange, Empty
  <2>7. Waiting'
    BY <1>0, <1>1, <2>1, <2>2 DEF Waiting, NoLostBroadcast, Empty
  <2>8. QED
    BY <2>3, <2>4, <2>5, <2>6, <2>7 DEF LogInv
<1>5. CASE /\ ~Fits(currentBuffer, size)
           /\ fullBuffers' = Append(fullBuffers, currentBuffer)
           /\ TakeEmptyBuffer
           /\ AppendLine(currentBuffer', line, size)
           /\ Broadcast
  <2>1. ~Empty(currentBuffer) /\ \A b \in Buffers : Empty(b) => Fits(b, size)
    BY <1>3, <1>5, LogAssumption DEF Fits, Empty
  <2>2. PICK c : c = currentBuffer'
    OBVIOUS
  <2>3. /\ c \in Buffers /\ allocated' \in Buffers
        /\ backupBuffers' \in Seq(Buffers) /\ Once(backupBuffers')
        /\ Empty(c) /\ c # currentBuffer
        /\ ~In(c, fullBuffers) /\ ~In(c, tobeWritten)
        /\ \A b \in Buffers : In(b, backupBuffers') => In(b, backupBuffers) /\ b # c
        /\ allocated <= allocated' /\ allocated' <= allocated + 1
        /\ c <= allocated'
    BY <1>5, <2>1, <2>2, TakenResult
  <2>4. /\ lines' \in [Buffers -> Seq(Line)] /\ used' \in [Buffers -> 0..BufferSize]
        /\ used'[c] # 0 /\ \A b \in Buffers : b # c => used'[b] = used[b]
    BY <1>0, <1>2, <1>5, <2>1, <2>2, <2>3, AppendLineResult
  <2>5. /\ fullBuffers' \in Seq(Buffers) /\ Once(fullBuffers')
        /\ \A b : In(b, fullBuffers') <=> In(b, fullBuffers) \/ b = currentBuffer
    BY <1>0, <1>3, <1>5, AppendList DEF ListsOK, OnePlace
  <2>6. ListsOK'
    BY <1>0, <1>1, <2>2, <2>3, <2>5 DEF ListsOK
  <2>7. RestOK'
    <3>1. chan' = chan + 1
      BY <1>5 DEF Broadcast
    <3>2. chan' \in 0..logged' /\ held' \in 0..chan'
      BY <1>1, <3>1
    <3>3. QED
      BY <1>0, <1>1, <1>2, <2>4, <3>2 DEF RestOK
  <2>8. OnePlace'
    <3>1. Apart(backupBuffers', fullBuffers')
      BY <1>0, <2>3, <2>5 DEF OnePlace, Apart
    <3>2. Apart(backupBuffers', tobeWritten)
      BY <1>0, <2>3 DEF OnePlace, Apart
    <3>3. Apart(fullBuffers', tobeWritten)
      BY <1>0, <2>5 DEF OnePlace, Apart
    <3>4. ~In(c, backupBuffers') /\ ~In(c, fullBuffers') /\ ~In(c, tobeWritten)
      BY <2>3, <2>5
    <3>5. ASSUME NEW b \in Buffers,
                 b = c \/ In(b, backupBuffers') \/ In(b, fullBuffers') \/ In(b, tobeWritten)
          PROVE  b <= allocated'
      <4>1. b = c \/ InUse(b)
        BY <2>3, <2>5, <3>5 DEF InUse
      <4>2. b = c \/ b <= allocated
        BY <1>0, <4>1 DEF OnePlace
      <4>3. QED
        BY <1>3, <2>3, <4>2
    <3>6. QED
      BY <1>0, <1>1, <2>2, <2>3, <2>5, <3>1, <3>2, <3>3, <3>4, <3>5
      DEF OnePlace, InUse, Apart
  <2>9. Clean'
    <3>1. ASSUME NEW b \in Buffers, b > allocated' \/ In(b, backupBuffers')
          PROVE  used'[b] = 0
      <4>1. b # c /\ (b > allocated \/ In(b, backupBuffers))
        BY <1>3, <2>3, <3>1
      <4>2. QED
        BY <1>0, <2>4, <4>1 DEF Clean, Empty
    <3>2. ASSUME NEW i \in 1..(next - 1)
          PROVE  used'[tobeWritten[i]] = 0
      <4>1. i \in DOMAIN tobeWritten /\ tobeWritten[i] \in Buffers
        BY <1>0, LenProperties, ElementOfSeq DEF ListsOK
      <4>2. tobeWritten[i] # c
        BY <2>3, <4>1 DEF In
      <4>3. QED
        BY <1>0, <2>4, <4>1, <4>2 DEF Clean, Empty
    <3>3. QED
      BY <1>1, <3>1, <3>2 DEF Clean, Empty
  <2>10. InExchange'
    <3>1. allocated + 1 <= 1 + BackupNums + logged
      BY <1>0, <2>1 DEF InExchange
    <3>2. /\ allocated' \in Nat /\ allocated \in Nat /\ logged \in Nat /\ BackupNums \in Nat
          /\ allocated' <= allocated + 1 /\ logged' = logged + 1
      BY <1>1, <1>3, <2>3
    <3>3. allocated' + 1 <= 1 + BackupNums + logged'
      <4>1. ASSUME NEW i \in Nat, NEW j \in Nat, NEW m \in Nat, NEW n \in Nat,
                   i <= j + 1, j + 1 <= 1 + m + n
            PROVE  i + 1 <= 1 + m + (n + 1)
        BY <4>1
      <4>2. QED
        BY <3>1, <3>2, <4>1
    <3>4. QED
      BY <2>2, <2>4, <3>3 DEF InExchange, Empty
  <2>11. Waiting'
    <3>1. held' < chan'
      BY <1>1, <1>5 DEF Broadcast
    <3>2. QED
      BY <1>0, <1>1, <2>2, <2>4, <3>1 DEF Waiting, NoLostBroadcast, Empty
  <2>12. QED
    BY <2>6, <2>7, <2>8, <2>9, <2>10, <2>11 DEF LogInv
<1>6. QED
  BY <1>4, <1>5 DEF Logf, line

\* TakeBuffers keeps the invariant.
LEMMA TakeBuffersKept ==
    ASSUME LogInv, TakeBuffers
    PROVE  LogInv'
<1>0. ListsOK /\ RestOK /\ OnePlace /\ Clean /\ InExchange /\ Waiting
  BY DEF LogInv
<1>1. /\ fullBuffers' = << >> /\ next' = 1 /\ at' = "write" /\ at # "write"
      /\ UNCHANGED <<lines, used, chan, held, calls, logged, file>>
  BY DEF TakeBuffers, contents
<1>2. tobeWritten = << >>
  BY <1>0, <1>1 DEF Waiting
<1>3. /\ currentBuffer \in Buffers /\ allocated \in Nat /\ Buffers \subseteq Nat
      /\ BackupNums \in Nat /\ logged \in Nat
  BY <1>0, BuffersAreNumbers, LogAssumption DEF ListsOK, RestOK
<1>4. RestOK'
  BY <1>0, <1>1 DEF RestOK
<1>5. CASE Empty(currentBuffer)
  <2>1. tobeWritten' = << >> /\ UNCHANGED <<currentBuffer, backupBuffers, allocated>>
    BY <1>0, <1>5 DEF TakeBuffers, Waiting
  <2>2. fullBuffers = << >> /\ tobeWritten' = tobeWritten /\ fullBuffers' = fullBuffers
    BY <1>0, <1>1, <1>2, <1>5, <2>1 DEF Waiting
  <2>3. ListsOK' /\ OnePlace' /\ InExchange'
    BY <1>0, <1>1, <2>1, <2>2 DEF ListsOK, OnePlace, Apart, InUse, InExchange, Empty
  <2>4. Clean'
    BY <1>0, <1>1, <2>1 DEF Clean, Empty
  <2>5. Waiting'
    BY <1>1, <2>1 DEF Waiting, NoLostBroadcast, Empty
  <2>6. QED
    BY <1>4, <2>3, <2>4, <2>5 DEF LogInv
<1>6. CASE ~Empty(currentBuffer)
  <2>1. tobeWritten' = Append(fullBuffers, currentBuffer) /\ TakeEmptyBuffer
    BY <1>6 DEF TakeBuffers
  <2>2. PICK c : c = currentBuffer'
    OBVIOUS
  <2>3. /\ c \in Buffers /\ allocated' \in Buffers
        /\ backupBuffers' \in Seq(Buffers) /\ Once(backupBuffers')
        /\ Empty(c) /\ c # currentBuffer /\ ~In(c, fullBuffers)
        /\ \A b \in Buffers : In(b, backupBuffers') => In(b, backupBuffers) /\ b # c
        /\ allocated <= allocated' /\ allocated' <= allocated + 1
        /\ c <= allocated'
    BY <1>6, <2>1, <2>2, TakenResult
  <2>4. /\ tobeWritten' \in Seq(Buffers) /\ Once(tobeWritten')
        /\ \A b : In(b, tobeWritten') <=> In(b, fullBuffers) \/ b = currentBuffer
    BY <1>0, <1>3, <2>1, AppendList DEF ListsOK, OnePlace
  <2>5. ListsOK'
    <3>1. next' \in 1..(Len(tobeWritten') + 1)
      BY <1>1, <2>4, LenProperties
    <3>2. QED
      BY <1>1, <2>2, <2>3, <2>4, <3>1 DEF ListsOK
  <2>6. OnePlace'
    <3>1. Apart(backupBuffers', tobeWritten')
      BY <1>0, <2>3, <2>4 DEF OnePlace, Apart
    <3>2. /\ Apart(backupBuffers', fullBuffers') /\ Apart(fullBuffers', tobeWritten')
          /\ Once(fullBuffers') /\ ~In(c, fullBuffers')
      BY <1>1, EmptyList DEF Apart
    <3>3. ~In(c, backupBuffers') /\ ~In(c, tobeWritten')
      BY <2>3, <2>4
    <3>4. ASSUME NEW b \in Buffers,
                 b = c \/ In(b, backupBuffers') \/ In(b, fullBuffers') \/ In(b, tobeWritten')
          PROVE  b <= allocated'
      <4>1. b = c \/ InUse(b)
        BY <1>1, <2>3, <2>4, <3>4, EmptyList DEF InUse
      <4>2. b = c \/ b <= allocated
        BY <1>0, <4>1 DEF OnePlace
      <4>3. QED
        BY <1>3, <2>3, <4>2
    <3>5. QED
      BY <2>2, <2>3, <2>4, <3>1, <3>2, <3>3, <3>4 DEF OnePlace, InUse, Apart
  <2>7. Clean'
    <3>1. ASSUME NEW b \in Buffers, b > allocated' \/ In(b, backupBuffers')
          PROVE  used'[b] = 0
      <4>1. b > allocated \/ In(b, backupBuffers)
        BY <1>3, <2>3, <3>1
      <4>2. QED
        BY <1>0, <1>1, <4>1 DEF Clean, Empty
    <3>2. QED
      BY <1>1, <3>1 DEF Clean, Empty
  <2>8. InExchange'
    <3>1. allocated + 1 <= 1 + BackupNums + logged
      BY <1>0, <1>6 DEF InExchange
    <3>2. /\ allocated' \in Nat /\ allocated \in Nat /\ logged \in Nat /\ BackupNums \in Nat
          /\ allocated' <= allocated + 1 /\ logged' = logged
      BY <1>1, <1>3, <2>3
    <3>3. allocated' + 0 <= 1 + BackupNums + logged'
      <4>1. ASSUME NEW i \in Nat, NEW j \in Nat, NEW m \in Nat, NEW n \in Nat,
                   i <= j + 1, j + 1 <= 1 + m + n
            PROVE  i + 0 <= 1 + m + (n)
        BY <4>1
      <4>2. QED
        BY <3>1, <3>2, <4>1
    <3>4. QED
      BY <1>1, <2>2, <2>3, <3>3 DEF InExchange, Empty
  <2>9. Waiting'
    BY <1>1 DEF Waiting, NoLostBroadcast
  <2>10. QED
    BY <1>4, <2>5, <2>6, <2>7, <2>8, <2>9 DEF LogInv
<1>7. QED
  BY <1>5, <1>6

\* WriteBuffer keeps the invariant.
LEMMA WriteBufferKept ==
    ASSUME LogInv, WriteBuffer
    PROVE  LogInv'
<1>0. ListsOK /\ RestOK /\ OnePlace /\ Clean /\ InExchange /\ Waiting
  BY DEF LogInv
<1> DEFINE b == tobeWritten[next]
<1>1. /\ at = "write" /\ next <= Len(tobeWritten) /\ next' = next + 1
      /\ lines' = [lines EXCEPT ![b] = << >>] /\ used' = [used EXCEPT ![b] = 0]
      /\ \E k \in 0..Len(lines[b]) : file' = file \o SubSeq(lines[b], 1, k)
      /\ UNCHANGED <<currentBuffer, backupBuffers, fullBuffers, allocated, chan, held, at,
                     tobeWritten, calls, logged>>
  <2>1. lines[b] \in Seq(Line) => Len(lines[b]) \in 0..Len(lines[b])
    BY LenProperties
  <2>2. b \in Buffers
    BY <1>0, LenProperties, ElementOfSeq DEF ListsOK, WriteBuffer
  <2>3. QED
    BY <1>0, <2>1, <2>2 DEF WriteBuffer, shared, RestOK
<1>2. /\ b \in Buffers /\ next \in DOMAIN tobeWritten /\ next \in Nat
      /\ DOMAIN tobeWritten = 1..Len(tobeWritten) /\ Len(tobeWritten) \in Nat
  BY <1>0, <1>1, LenProperties, ElementOfSeq DEF ListsOK
<1>3. b # currentBuffer /\ In(b, tobeWritten)
  BY <1>0, <1>2 DEF OnePlace, In
<1>4. file' \in Seq(Line)
  <2>1. PICK k \in 0..Len(lines[b]) : file' = file \o SubSeq(lines[b], 1, k)
    BY <1>1
  <2>2. lines[b] \in Seq(Line) /\ \A i \in 1..Len(lines[b]) : lines[b][i] \in Line
    BY <1>0, <1>2, ElementOfSeq DEF RestOK
  <2>3. Len(lines[b]) \in Nat /\ k \in Nat /\ \A i \in 1..k : i \in 1..Len(lines[b])
    BY <2>2, LenProperties
  <2>4. SubSeq(lines[b], 1, k) \in Seq(Line)
    BY <2>2, <2>3, SubSeqProperties
  <2>5. QED
    BY <1>0, <2>1, <2>4, ConcatProperties DEF RestOK
<1> HIDE DEF b
<1>5. /\ lines' \in [Buffers -> Seq(Line)] /\ used' \in [Buffers -> 0..BufferSize]
      /\ used'[b] = 0 /\ \A c \in Buffers : c # b => used'[c] = used[c]
  <2>1. << >> \in Seq(Line) /\ 0 \in 0..BufferSize
    BY LogAssumption
  <2>2. QED
    BY <1>0, <1>1, <1>2, <2>1 DEF RestOK
<1>6. ListsOK' /\ OnePlace'
  <2>1. next' \in 1..(Len(tobeWritten') + 1)
    BY <1>1, <1>2
  <2>2. QED
    BY <1>0, <1>1, <2>1 DEF ListsOK, OnePlace, Apart, InUse
<1>7. RestOK'
  BY <1>0, <1>1, <1>4, <1>5 DEF RestOK
<1>8. Clean'
  <2>1. ASSUME NEW c \in Buffers, c > allocated \/ In(c, backupBuffers)
        PROVE  used'[c] = 0
    BY <1>0, <1>5, <2>1 DEF Clean, Empty
  <2>2. ASSUME NEW i \in 1..next
        PROVE  used'[tobeWritten[i]] = 0
    <3>1. tobeWritten[i] \in Buffers
      BY <1>0, <1>1, <1>2, ElementOfSeq DEF ListsOK
    <3>2. i = next \/ i \in 1..(next - 1)
      BY <1>2
    <3>3. QED
      BY <1>0, <1>5, <3>1, <3>2 DEF Clean, Empty, b
  <2>3. 1..(next' - 1) = 1..next
    BY <1>1, <1>2
  <2>4. QED
    BY <1>1, <2>1, <2>2, <2>3 DEF Clean, Empty
<1>9. used'[currentBuffer] = used[currentBuffer]
  BY <1>0, <1>3, <1>5 DEF ListsOK
<1>10. InExchange' /\ Waiting'
  BY <1>0, <1>1, <1>9 DEF InExchange, Waiting, NoLostBroadcast, Empty
<1>11. QED
  BY <1>6, <1>7, <1>8, <1>10 DEF LogInv

\* ReturnBuffers keeps the invariant.
LEMMA ReturnBuffersKept ==
    ASSUME LogInv, ReturnBuffers
    PROVE  LogInv'
<1>0. ListsOK /\ RestOK /\ OnePlace /\ Clean /\ InExchange /\ Waiting
  BY DEF LogInv
<1>1. /\ next > Len(tobeWritten) /\ backupBuffers' = backupBuffers \o tobeWritten
      /\ tobeWritten' = << >> /\ next' = 1 /\ at' = "lock" /\ at = "write"
      /\ UNCHANGED <<currentBuffer, fullBuffers, allocated, lines, used, chan, held,
                     calls, logged, file>>
  BY DEF ReturnBuffers, contents
<1>2. /\ DOMAIN tobeWritten = 1..Len(tobeWritten) /\ Len(tobeWritten) \in Nat
      /\ next = Len(tobeWritten) + 1
  BY <1>0, <1>1, LenProperties DEF ListsOK
<1>3. /\ backupBuffers' \in Seq(Buffers) /\ Once(backupBuffers')
      /\ \A b : In(b, backupBuffers') <=> In(b, backupBuffers) \/ In(b, tobeWritten)
  BY <1>0, <1>1, ConcatList DEF ListsOK, OnePlace
<1>4. ListsOK'
  <2>1. Len(<< >>) = 0
    OBVIOUS
  <2>2. QED
    BY <1>0, <1>1, <1>3, <2>1 DEF ListsOK
<1>5. RestOK'
  BY <1>0, <1>1 DEF RestOK
<1>6. OnePlace'
  <2>1. Apart(backupBuffers', fullBuffers)
    BY <1>0, <1>3 DEF OnePlace, Apart
  <2>2. /\ Apart(backupBuffers', tobeWritten') /\ Apart(fullBuffers, tobeWritten')
        /\ Once(tobeWritten') /\ ~In(currentBuffer, tobeWritten')
    BY <1>1, EmptyList DEF Apart
  <2>3. ASSUME NEW b \in Buffers,
               b = currentBuffer \/ In(b, backupBuffers') \/ In(b, fullBuffers)
               \/ In(b, tobeWritten')
        PROVE  b <= allocated
    <3>1. InUse(b)
      BY <1>1, <1>3, <2>3, EmptyList DEF InUse
    <3>2. QED
      BY <1>0, <3>1 DEF OnePlace
  <2>4. QED
    BY <1>0, <1>1, <1>3, <2>1, <2>2, <2>3 DEF OnePlace, InUse, Apart
<1>7. Clean'
  <2>1. ASSUME NEW b \in Buffers, In(b, tobeWritten)
        PROVE  used[b] = 0
    <3>1. PICK i \in 1..Len(tobeWritten) : tobeWritten[i] = b
      BY <1>2, <2>1 DEF In
    <3>2. i \in 1..(next - 1)
      BY <1>2
    <3>3. QED
      BY <1>0, <3>1, <3>2 DEF Clean, Empty
  <2>2. \A i \in 1..(next' - 1) : FALSE
    BY <1>1
  <2>3. QED
    BY <1>0, <1>1, <1>3, <2>1, <2>2 DEF Clean, Empty
<1>8. InExchange' /\ Waiting'
  BY <1>0, <1>1 DEF InExchange, Waiting, NoLostBroadcast, Empty
<1>9. QED
  BY <1>4, <1>5, <1>6, <1>7, <1>8 DEF LogInv

LEMMA LogInvKept == LogInv /\ [Next]_vars => LogInv'
<1> SUFFICES ASSUME LogInv, [Next]_vars
             PROVE  LogInv'
  OBVIOUS
<1>0. ListsOK /\ RestOK /\ OnePlace /\ Clean /\ InExchange /\ Waiting
  BY DEF LogInv
<1>1. ASSUME UNCHANGED <<shared, contents, chan, tobeWritten, next, calls, logged, file>>,
             held' \in 0..chan, at' \in {"lock", "wait", "relock"}, at # "write",
             at' = "wait" => fullBuffers = << >>
      PROVE  LogInv'
  <2>1. UNCHANGED <<currentBuffer, backupBuffers, fullBuffers, allocated, lines, used, chan,
                    tobeWritten, next, calls, logged, file>>
    BY <1>1 DEF shared, contents
  <2>2. ListsOK' /\ OnePlace' /\ Clean' /\ InExchange'
    BY <1>0, <2>1 DEF ListsOK, OnePlace, Apart, InUse, Clean, InExchange, Empty
  <2>3. RestOK'
    BY <1>0, <1>1, <2>1 DEF RestOK
  <2>4. Waiting'
    BY <1>0, <1>1, <2>1 DEF Waiting, NoLostBroadcast, Empty
  <2>5. QED
    BY <2>2, <2>3, <2>4 DEF LogInv
<1>2. CASE WaitWithTimeout
  <2>1. chan \in 0..chan
    BY <1>0 DEF RestOK
  <2>2. QED
    BY <1>0, <1>1, <1>2, <2>1 DEF WaitWithTimeout, Waiting
<1>3. CASE Notified \/ TimedOut
  BY <1>0, <1>1, <1>3 DEF Notified, TimedOut, RestOK
<1>4. CASE UNCHANGED vars
  <2>1. UNCHANGED <<currentBuffer, backupBuffers, fullBuffers, allocated, lines, used, chan,
                    held, at, tobeWritten, next, calls, logged, file>>
    BY <1>4 DEF vars, shared, contents, background
  <2>2. ListsOK' /\ OnePlace' /\ Clean' /\ InExchange'
    BY <1>0, <2>1 DEF ListsOK, OnePlace, Apart, InUse, Clean, InExchange, Empty
  <2>3. RestOK' /\ Waiting'
    BY <1>0, <2>1 DEF RestOK, Waiting, NoLostBroadcast, Empty
  <2>4. QED
    BY <2>2, <2>3 DEF LogInv
<1>5. QED
  BY <1>2, <1>3, <1>4, LogfKept, TakeBuffersKept, WriteBufferKept, ReturnBuffersKept
  DEF Next, BackgroundStep

LEMMA LogInvAlways == Spec => []LogInv
BY LogInvInitially, LogInvKept, PTL DEF Spec

\* Every variable keeps its type: in particular no buffer ever holds more than
\* bufferSize bytes (log_buffer.go), and a rotation allocates a buffer only in
\* exchange for one that holds a line.
THEOREM TypeCorrect == Spec => []TypeOK
BY LogInvAlways, LogInvImplies, PTL

\* A buffer is in one place only, so that nobody fills a buffer that the
\* background goroutine is writing (log.go:81-122), and the backup buffers are
\* empty, so that the second Append of Logf succeeds (log.go:141).
THEOREM BuffersAreNotShared == Spec => []NoSharedBuffer
BY LogInvAlways, LogInvImplies, PTL

\* A Broadcast of Logf (log.go:142) reaches a background goroutine that has
\* decided to wait and not begun to: it never sleeps on full buffers.
THEOREM BroadcastIsNotLost == Spec => []NoLostBroadcast
BY LogInvAlways, LogInvImplies, PTL

-----------------------------------------------------------------------------
(* The lines of a list of buffers.  `m' are the lines of each buffer; the  *)
(* lemmas are by induction over the list.                                  *)

Contents == [Buffers -> Seq(Line)]

IsUpTo(u, bs, m, n) == u = [i \in 0..n |-> IF i = 0 THEN << >> ELSE u[i - 1] \o m[bs[i]]]

\* What makes such a function useful in a proof.
Steps(u, bs, m, n) ==
    /\ u[0] = << >>
    /\ \A i \in 0..(n - 1) : u[i + 1] = u[i] \o m[bs[i + 1]]
SameLines(bs, m, cs, k, n) == \A i \in 1..n : m[bs[i]] = k[cs[i]]
SameAt(u, v, n) == u[n] = v[n]
Shifted(u, v, s, i) == u[i + 1] = s \o v[i]

Cat(bs, m) ==
    LET upTo[i \in 0..Len(bs)] ==
            IF i = 0 THEN << >> ELSE upTo[i - 1] \o m[bs[i]]
    IN  upTo[Len(bs)]

LEMMA LinesOfIsCat == \A bs : LinesOf(bs) = Cat(bs, lines)
BY DEF LinesOf, Cat

LEMMA UpToExists ==
    ASSUME NEW bs, NEW m
    PROVE  \A n \in Nat : \E u : IsUpTo(u, bs, m, n)
<1> DEFINE P == {n \in Nat : \E u : IsUpTo(u, bs, m, n)}
<1>1. 0 \in P
  <2> DEFINE u == [i \in 0..0 |-> << >>]
  <2>1. u = [i \in 0..0 |-> IF i = 0 THEN << >> ELSE u[i - 1] \o m[bs[i]]]
    OBVIOUS
  <2> HIDE DEF u
  <2>2. IsUpTo(u, bs, m, 0)
    BY <2>1 DEF IsUpTo
  <2>3. QED
    BY <2>2
<1>2. ASSUME NEW n \in P
      PROVE  n + 1 \in P
  <2>1. PICK u : IsUpTo(u, bs, m, n)
    BY <1>2
  <2>2. n \in Nat /\ n + 1 \in Nat
    BY <1>2
  <2> DEFINE v == [i \in 0..(n + 1) |-> IF i <= n THEN u[i] ELSE u[n] \o m[bs[n + 1]]]
  <2>3. ASSUME NEW i \in 0..(n + 1)
        PROVE  v[i] = IF i = 0 THEN << >> ELSE v[i - 1] \o m[bs[i]]
    <3>1. CASE i = 0
      <4>1. u[0] = << >>
        BY <2>1, <2>2 DEF IsUpTo
      <4>2. QED
        BY <2>2, <3>1, <4>1
    <3>2. CASE i # 0 /\ i <= n
      <4>1. u[i] = u[i - 1] \o m[bs[i]]
        BY <2>1, <2>2, <3>2 DEF IsUpTo
      <4>2. v[i] = u[i] /\ v[i - 1] = u[i - 1]
        BY <2>2, <3>2
      <4>3. QED
        BY <3>2, <4>1, <4>2
    <3>3. CASE i = n + 1
      <4>1. v[i] = u[n] \o m[bs[n + 1]] /\ v[i - 1] = u[n]
        BY <2>2, <3>3
      <4>2. QED
        BY <2>2, <3>3, <4>1
    <3>4. QED
      BY <2>2, <3>1, <3>2, <3>3
  <2>4. v = [i \in 0..(n + 1) |-> v[i]]
    OBVIOUS
  <2> HIDE DEF v
  <2>5. IsUpTo(v, bs, m, n + 1)
    BY <2>3, <2>4 DEF IsUpTo
  <2>6. QED
    BY <2>2, <2>5
<1> HIDE DEF P
<1>3. P \in SUBSET Nat
  BY DEF P
<1>4. \A n \in Nat : n \in P
  BY <1>1, <1>2, <1>3, SetInduction
<1>5. QED
  BY <1>4 DEF P

LEMMA CatIsUpTo ==
    ASSUME NEW bs \in Seq(Buffers), NEW m
    PROVE  \E u : IsUpTo(u, bs, m, Len(bs)) /\ Cat(bs, m) = u[Len(bs)]
<1>1. Len(bs) \in Nat
  BY LenProperties
<1>2. \E u : IsUpTo(u, bs, m, Len(bs))
  BY ZenonT(40), <1>1, UpToExists
<1> DEFINE w == CHOOSE u : u = [i \in 0..Len(bs) |->
                                  IF i = 0 THEN << >> ELSE u[i - 1] \o m[bs[i]]]
<1>3. IsUpTo(w, bs, m, Len(bs))
  BY ZenonT(40), <1>2 DEF IsUpTo
<1>4. Cat(bs, m) = w[Len(bs)]
  BY DEF Cat
<1>5. QED
  BY <1>3, <1>4

LEMMA UpToSteps ==
    ASSUME NEW bs, NEW m, NEW n \in Nat, NEW u, IsUpTo(u, bs, m, n)
    PROVE  Steps(u, bs, m, n)
<1>1. u[0] = << >>
  BY DEF IsUpTo
<1>2. ASSUME NEW i \in 0..(n - 1)
      PROVE  u[i + 1] = u[i] \o m[bs[i + 1]]
  <2>1. i + 1 \in 0..n /\ i + 1 # 0 /\ (i + 1) - 1 = i
    OBVIOUS
  <2>2. u[i + 1] = u[(i + 1) - 1] \o m[bs[i + 1]]
    BY <2>1 DEF IsUpTo
  <2>3. QED
    BY <2>1, <2>2
<1>3. QED
  BY <1>1, <1>2 DEF Steps

LEMMA UpToType ==
    ASSUME NEW bs \in Seq(Buffers), NEW m \in Contents, NEW n \in 0..Len(bs), NEW u,
           IsUpTo(u, bs, m, n)
    PROVE  \A i \in 0..n : u[i] \in Seq(Line)
<1>0. n \in Nat /\ \A i \in 0..(n - 1) : i + 1 \in 1..Len(bs)
  BY LenProperties
<1>1. Steps(u, bs, m, n)
  BY <1>0, UpToSteps
<1>2. \A i \in 0..(n - 1) : m[bs[i + 1]] \in Seq(Line)
  BY <1>0, ElementOfSeq DEF Contents
<1> DEFINE P == {i \in Nat : i <= n => u[i] \in Seq(Line)}
<1>3. 0 \in P
  <2>1. << >> \in Seq(Line)
    OBVIOUS
  <2>2. QED
    BY <1>1, <2>1 DEF Steps
<1>4. ASSUME NEW i \in P
      PROVE  i + 1 \in P
  <2>1. CASE i + 1 <= n
    <3>1. i \in 0..(n - 1) /\ u[i] \in Seq(Line)
      BY <1>0, <1>4, <2>1
    <3>2. u[i] \o m[bs[i + 1]] \in Seq(Line)
      BY <1>2, <3>1, ConcatProperties
    <3>3. u[i + 1] = u[i] \o m[bs[i + 1]]
      BY <1>1, <3>1 DEF Steps
    <3>4. u[i + 1] \in Seq(Line) /\ i + 1 \in Nat
      BY <3>1, <3>2, <3>3
    <3>5. QED
      BY <3>4
  <2>2. CASE ~(i + 1 <= n)
    BY <1>4, <2>2
  <2>3. QED
    BY <2>1, <2>2
<1>5. P \in SUBSET Nat
  OBVIOUS
<1> HIDE DEF P
<1>6. \A i \in Nat : i \in P
  BY <1>3, <1>4, <1>5, SetInduction
<1>7. QED
  BY <1>0, <1>6 DEF P

\* Where two lists have the same lines, their functions agree.
LEMMA UpToAgree ==
    ASSUME NEW bs, NEW m, NEW cs, NEW k, NEW n \in Nat, NEW o \in Nat, n <= o,
           NEW u, NEW v, IsUpTo(u, bs, m, n), IsUpTo(v, cs, k, o),
           SameLines(bs, m, cs, k, n)
    PROVE  SameAt(u, v, n)
<1>1. Steps(u, bs, m, n) /\ Steps(v, cs, k, o)
  BY UpToSteps
<1> DEFINE P == {i \in Nat : i <= n => u[i] = v[i]}
<1>2. 0 \in P
  BY <1>1 DEF Steps
<1>3. ASSUME NEW i \in P
      PROVE  i + 1 \in P
  <2>1. CASE i + 1 <= n
    <3>1. i \in 0..(n - 1) /\ i \in 0..(o - 1) /\ u[i] = v[i] /\ i + 1 \in 1..n
      BY <1>3, <2>1
    <3>2. u[i + 1] = v[i + 1]
      BY <1>1, <3>1 DEF Steps, SameLines
    <3>3. QED
      BY <3>1, <3>2
  <2>2. CASE ~(i + 1 <= n)
    BY <1>3, <2>2
  <2>3. QED
    BY <2>1, <2>2
<1>4. P \in SUBSET Nat
  OBVIOUS
<1> HIDE DEF P
<1>5. n \in P
  BY <1>2, <1>3, <1>4, SetInduction
<1>6. QED
  BY <1>5 DEF P, SameAt

LEMMA CatType ==
    ASSUME NEW bs \in Seq(Buffers), NEW m \in Contents
    PROVE  Cat(bs, m) \in Seq(Line)
<1>1. PICK u : IsUpTo(u, bs, m, Len(bs)) /\ Cat(bs, m) = u[Len(bs)]
  BY CatIsUpTo
<1>2. Len(bs) \in 0..Len(bs)
  BY LenProperties
<1>3. QED
  BY <1>1, <1>2, UpToType

LEMMA CatEmpty ==
    ASSUME NEW m
    PROVE  Cat(<< >>, m) = << >>
<1>1. << >> \in Seq(Buffers) /\ Len(<< >>) = 0
  OBVIOUS
<1>2. PICK u : IsUpTo(u, << >>, m, 0) /\ Cat(<< >>, m) = u[0]
  BY <1>1, CatIsUpTo
<1>3. Steps(u, << >>, m, 0)
  BY <1>2, UpToSteps
<1>4. QED
  BY <1>2, <1>3 DEF Steps

LEMMA CatAppend ==
    ASSUME NEW bs \in Seq(Buffers), NEW b \in Buffers, NEW m
    PROVE  Cat(Append(bs, b), m) = Cat(bs, m) \o m[b]
<1> DEFINE n == Len(bs)
           cs == Append(bs, b)
<1>1. /\ n \in Nat /\ cs \in Seq(Buffers) /\ Len(cs) = n + 1
      /\ \A i \in 1..n : cs[i] = bs[i]
      /\ cs[n + 1] = b
  BY LenProperties, AppendProperties
<1>2. PICK u : IsUpTo(u, bs, m, n) /\ Cat(bs, m) = u[n]
  BY CatIsUpTo
<1> HIDE DEF n, cs
<1>3. PICK v : IsUpTo(v, cs, m, n + 1) /\ Cat(cs, m) = v[n + 1]
  BY <1>1, CatIsUpTo
<1>4. v[n + 1] = v[n] \o m[b]
  <2>1. Steps(v, cs, m, n + 1)
    BY <1>1, <1>3, UpToSteps
  <2>2. n \in 0..((n + 1) - 1)
    BY <1>1
  <2>3. QED
    BY <1>1, <2>1, <2>2 DEF Steps
<1>5. SameAt(u, v, n)
  <2>1. n + 1 \in Nat /\ n <= n + 1
    BY <1>1
  <2>2. SameLines(bs, m, cs, m, n)
    BY <1>1 DEF SameLines
  <2>3. QED
    BY <1>1, <1>2, <1>3, <2>1, <2>2, UpToAgree
<1>6. QED
  BY <1>2, <1>3, <1>4, <1>5 DEF cs, SameAt

\* Only the lines of the buffers in the list matter.
LEMMA CatSame ==
    ASSUME NEW bs \in Seq(Buffers), NEW m, NEW k,
           SameLines(bs, m, bs, k, Len(bs))
    PROVE  Cat(bs, m) = Cat(bs, k)
<1>1. Len(bs) \in Nat /\ Len(bs) <= Len(bs)
  BY LenProperties
<1>2. PICK u : IsUpTo(u, bs, m, Len(bs)) /\ Cat(bs, m) = u[Len(bs)]
  BY CatIsUpTo
<1>3. PICK v : IsUpTo(v, bs, k, Len(bs)) /\ Cat(bs, k) = v[Len(bs)]
  BY CatIsUpTo
<1>4. SameAt(u, v, Len(bs))
  BY <1>1, <1>2, <1>3, UpToAgree
<1>5. QED
  BY <1>2, <1>3, <1>4 DEF SameAt

LEMMA CatTail ==
    ASSUME NEW bs \in Seq(Buffers), bs # << >>, NEW m \in Contents
    PROVE  Cat(bs, m) = m[Head(bs)] \o Cat(Tail(bs), m)
<1> DEFINE n == Len(bs) - 1
           ts == Tail(bs)
           b == bs[1]
<1>1. Len(bs) = n + 1 /\ n \in Nat /\ Head(bs) = b /\ b \in Buffers
  BY LenProperties, EmptySeq, ElementOfSeq
<1>2. ts \in Seq(Buffers) /\ Len(ts) = n /\ \A i \in 1..n : ts[i] = bs[i + 1]
  BY HeadTailProperties
<1> HIDE DEF n, ts, b
<1>3. PICK u : IsUpTo(u, bs, m, n + 1) /\ Cat(bs, m) = u[n + 1]
  BY <1>1, CatIsUpTo
<1>4. PICK v : IsUpTo(v, ts, m, n) /\ Cat(ts, m) = v[n]
  BY <1>2, CatIsUpTo
<1>5. /\ u[0] = << >> /\ v[0] = << >>
      /\ \A i \in 0..n : u[i + 1] = u[i] \o m[bs[i + 1]]
      /\ \A i \in 0..(n - 1) : v[i + 1] = v[i] \o m[ts[i + 1]]
  <2>1. n + 1 \in Nat /\ 0..((n + 1) - 1) = 0..n
    BY <1>1
  <2>2. Steps(u, bs, m, n + 1)
    BY <1>3, <2>1, UpToSteps
  <2>3. Steps(v, ts, m, n)
    BY <1>1, <1>4, UpToSteps
  <2>4. \A i \in 0..n : u[i + 1] = u[i] \o m[bs[i + 1]]
    BY <2>1, <2>2 DEF Steps
  <2>5. QED
    BY <2>2, <2>3, <2>4 DEF Steps
<1>6. /\ \A i \in 0..n : v[i] \in Seq(Line)
      /\ m[b] \in Seq(Line)
      /\ \A i \in 0..(n - 1) : m[ts[i + 1]] \in Seq(Line)
  <2>1. \A i \in 0..n : v[i] \in Seq(Line)
    BY <1>1, <1>2, <1>4, UpToType
  <2>2. \A i \in 0..(n - 1) : i + 1 \in 1..n
    BY <1>1
  <2>3. \A i \in 0..(n - 1) : ts[i + 1] \in Buffers
    BY <1>2, <2>2, ElementOfSeq
  <2>4. QED
    BY <1>1, <2>1, <2>3 DEF Contents
<1> DEFINE P == {i \in Nat : i <= n => Shifted(u, v, m[b], i)}
<1>7. 0 \in P
  <2>1. 0 \in 0..n
    BY <1>1
  <2>2. u[0 + 1] = u[0] \o m[bs[0 + 1]]
    BY <1>5, <2>1
  <2>3. bs[0 + 1] = b
    BY DEF b
  <2>4. << >> \o m[b] = m[b] /\ m[b] \o << >> = m[b]
    BY <1>6, ConcatEmptySeq
  <2>5. u[0 + 1] = m[b] \o v[0]
    BY <1>5, <2>2, <2>3, <2>4
  <2>6. QED
    BY <2>5 DEF Shifted
<1>8. ASSUME NEW i \in P
      PROVE  i + 1 \in P
  <2>0. i \in Nat /\ i + 1 \in Nat
    BY <1>8
  <2>1. CASE i + 1 <= n
    <3>1. i \in 0..(n - 1) /\ i \in 0..n /\ i + 1 \in 0..n /\ i + 1 \in 1..n
      BY <1>1, <2>0, <2>1
    <3>a. u[i + 1] = m[b] \o v[i]
      <4>1. i <= n
        BY <1>1, <3>1
      <4>2. Shifted(u, v, m[b], i)
        BY <1>8, <4>1
      <4>3. QED
        BY <4>2 DEF Shifted
    <3>b. u[(i + 1) + 1] = u[i + 1] \o m[bs[(i + 1) + 1]]
      BY <1>5, <3>1
    <3>2. u[(i + 1) + 1] = (m[b] \o v[i]) \o m[bs[(i + 1) + 1]]
      BY <3>a, <3>b
    <3>3. bs[(i + 1) + 1] = ts[i + 1]
      BY <1>2, <3>1
    <3>4. (m[b] \o v[i]) \o m[ts[i + 1]] = m[b] \o (v[i] \o m[ts[i + 1]])
      <4>1. v[i] \in Seq(Line) /\ m[b] \in Seq(Line) /\ m[ts[i + 1]] \in Seq(Line)
        BY <1>6, <3>1
      <4>2. \A x, y, z \in Seq(Line) : (x \o y) \o z = x \o (y \o z)
        BY SMTT(40), ConcatAssociative
      <4>3. QED
        BY <4>1, <4>2, Zenon
    <3>5. v[i + 1] = v[i] \o m[ts[i + 1]]
      BY <1>5, <3>1
    <3>6. u[(i + 1) + 1] = m[b] \o v[i + 1]
      BY <3>2, <3>3, <3>4, <3>5
    <3>7. QED
      BY <2>0, <3>6 DEF Shifted
  <2>2. CASE ~(i + 1 <= n)
    BY <2>0, <2>2
  <2>3. QED
    BY <2>1, <2>2
<1>9. P \in SUBSET Nat
  OBVIOUS
<1> HIDE DEF P
<1>10. n \in P
  BY <1>1, <1>7, <1>8, <1>9, SetInduction
<1>11. u[n + 1] = m[b] \o v[n]
  <2>1. n <= n
    BY <1>1
  <2>2. Shifted(u, v, m[b], n)
    BY <1>10, <2>1 DEF P
  <2>3. QED
    BY <2>2 DEF Shifted
<1>12. QED
  BY <1>1, <1>3, <1>4, <1>11 DEF ts

-----------------------------------------------------------------------------
(* AsyncLog implements LogStream.  The lines that wait are those of the    *)
(* buffers that wait, oldest first, and then those of the current buffer.  *)

Queued == Unwritten \o fullBuffers

EmptyHasNoLines == \A b \in Buffers : Empty(b) => lines[b] = << >>

\* What lies in front of the write position has been written.
LEMMA UnwrittenResult ==
    ASSUME ListsOK
    PROVE  /\ Unwritten \in Seq(Buffers)
           /\ Len(Unwritten) = Len(tobeWritten) - next + 1
           /\ \A i \in 1..Len(Unwritten) : /\ next + i - 1 \in DOMAIN tobeWritten
                                           /\ Unwritten[i] = tobeWritten[next + i - 1]
<1> DEFINE n == Len(tobeWritten)
<1>1. /\ n \in Nat /\ next \in 1..(n + 1) /\ DOMAIN tobeWritten = 1..n
      /\ tobeWritten \in Seq(Buffers)
  BY LenProperties DEF ListsOK
<1>2. \A i \in next..n : tobeWritten[i] \in Buffers
  BY <1>1, ElementOfSeq
<1>3. /\ Unwritten \in Seq(Buffers)
      /\ Len(Unwritten) = IF next <= n THEN n - next + 1 ELSE 0
      /\ \A i \in 1..(n - next + 1) : Unwritten[i] = tobeWritten[next + i - 1]
  BY <1>1, <1>2, SubSeqProperties DEF Unwritten
<1> HIDE DEF n
<1>4. Len(Unwritten) = n - next + 1
  BY <1>1, <1>3
<1>5. \A i \in 1..(n - next + 1) : next + i - 1 \in 1..n
  BY <1>1
<1>6. QED
  BY <1>1, <1>3, <1>4, <1>5 DEF n

LEMMA QueuedResult ==
    ASSUME ListsOK
    PROVE  /\ Queued \in Seq(Buffers)
           /\ \A i \in 1..Len(Queued) : /\ Queued[i] \in Buffers
                                        /\ \/ In(Queued[i], tobeWritten)
                                           \/ In(Queued[i], fullBuffers)
<1>1. Unwritten \in Seq(Buffers) /\ fullBuffers \in Seq(Buffers)
  BY UnwrittenResult DEF ListsOK
<1>2. /\ Queued \in Seq(Buffers)
      /\ \A b : In(b, Queued) <=> In(b, Unwritten) \/ In(b, fullBuffers)
  BY <1>1, ConcatList DEF Queued
<1>3. \A b : In(b, Unwritten) => In(b, tobeWritten)
  <2>1. DOMAIN Unwritten = 1..Len(Unwritten)
    BY <1>1, LenProperties
  <2>2. QED
    BY <2>1, UnwrittenResult DEF In
<1>4. ASSUME NEW i \in 1..Len(Queued)
      PROVE  Queued[i] \in Buffers /\ In(Queued[i], Queued)
  BY <1>2, LenProperties, ElementOfSeq DEF In
<1>5. QED
  BY <1>2, <1>3, <1>4

LEMMA PendingResult ==
    ASSUME ListsOK, RestOK
    PROVE  /\ Pending = Cat(Queued, lines) \o lines[currentBuffer]
           /\ Pending \in Seq(Line) /\ Cat(Queued, lines) \in Seq(Line)
           /\ lines[currentBuffer] \in Seq(Line)
<1>1. Queued \in Seq(Buffers) /\ currentBuffer \in Buffers /\ lines \in Contents
  BY QueuedResult DEF ListsOK, RestOK, Contents
<1>2. Queued \o <<currentBuffer>> = Append(Queued, currentBuffer)
  BY <1>1, AppendIsConcat
<1>3. Pending = Cat(Append(Queued, currentBuffer), lines)
  <2>1. Pending = LinesOf(Queued \o <<currentBuffer>>)
    BY DEF Pending, Queued
  <2>2. QED
    BY <1>2, <2>1, LinesOfIsCat
<1>4. Pending = Cat(Queued, lines) \o lines[currentBuffer]
  BY <1>1, <1>3, CatAppend
<1>5. Cat(Queued, lines) \in Seq(Line) /\ lines[currentBuffer] \in Seq(Line)
  BY <1>1, CatType DEF Contents
<1>6. QED
  BY <1>4, <1>5, ConcatProperties

\* The same in the next state.
LEMMA PendingThen ==
    ASSUME ListsOK', RestOK'
    PROVE  Pending' = Cat(Queued', lines') \o lines'[currentBuffer']
<1>1. (ListsOK /\ RestOK)' => (Pending = Cat(Queued, lines) \o lines[currentBuffer])'
  BY PendingResult, PTL
<1>2. QED
  BY <1>1

LEMMA ConcatAppend ==
    ASSUME NEW s \in Seq(Line), NEW t \in Seq(Line), NEW x \in Line
    PROVE  s \o Append(t, x) = Append(s \o t, x)
<1>1. <<x>> \in Seq(Line) /\ s \o t \in Seq(Line)
  BY ConcatProperties
<1>2. Append(t, x) = t \o <<x>> /\ Append(s \o t, x) = (s \o t) \o <<x>>
  BY <1>1, AppendIsConcat
<1>3. \A a, b, c \in Seq(Line) : (a \o b) \o c = a \o (b \o c)
  BY SMTT(40), ConcatAssociative
<1>4. (s \o t) \o <<x>> = s \o (t \o <<x>>)
  BY <1>1, <1>3, Zenon
<1>5. s \o Append(t, x) = s \o (t \o <<x>>)
  BY <1>2
<1>6. QED
  BY <1>2, <1>4, <1>5, Zenon

LEMMA AppendedLines ==
    ASSUME RestOK, NEW b \in Buffers, NEW line \in Line, NEW size \in Sizes,
           Fits(b, size), AppendLine(b, line, size)
    PROVE  /\ lines'[b] = Append(lines[b], line)
           /\ \A c \in Buffers : c # b => lines'[c] = lines[c]
BY DEF RestOK, AppendLine

\* A call of Logf adds one line at the end of those that wait.
LEMMA LogfIsLog ==
    ASSUME LogInv, LogInv', EmptyHasNoLines, NEW p \in Producers, NEW size \in Sizes,
           Logf(p, size)
    PROVE  Stream!Next /\ EmptyHasNoLines'
<1> DEFINE line == [from |-> p, n |-> calls[p] + 1]
<1>0. ListsOK /\ RestOK /\ OnePlace /\ ListsOK' /\ RestOK'
  BY DEF LogInv
<1>1. line \in Line /\ file' = file /\ tobeWritten' = tobeWritten /\ next' = next
  <2>1. calls[p] + 1 \in 1..MaxCalls
    BY <1>0, LogAssumption DEF Logf, RestOK
  <2>2. QED
    BY <2>1 DEF Line, Logf, background
<1> HIDE DEF line
<1>2. /\ Queued \in Seq(Buffers) /\ lines \in Contents /\ currentBuffer \in Buffers
      /\ Len(Queued) \in Nat
      /\ \A i \in 1..Len(Queued) : /\ Queued[i] \in Buffers
                                   /\ \/ In(Queued[i], tobeWritten)
                                      \/ In(Queued[i], fullBuffers)
  BY <1>0, QueuedResult, LenProperties DEF ListsOK, RestOK, Contents
<1>3. /\ Pending = Cat(Queued, lines) \o lines[currentBuffer]
      /\ Pending \in Seq(Line) /\ Cat(Queued, lines) \in Seq(Line)
      /\ lines[currentBuffer] \in Seq(Line)
  BY <1>0, PendingResult
<1>4. Pending' = Cat(Queued', lines') \o lines'[currentBuffer']
  BY <1>0, PendingThen
<1>5. Unwritten' = Unwritten
  BY <1>1 DEF Unwritten
<1>6. CASE Fits(currentBuffer, size) /\ AppendLine(currentBuffer, line, size)
           /\ UNCHANGED <<shared, chan>>
  <2>1. Queued' = Queued /\ currentBuffer' = currentBuffer
    BY <1>5, <1>6 DEF Queued, shared
  <2>2. /\ lines'[currentBuffer] = Append(lines[currentBuffer], line)
        /\ \A c \in Buffers : c # currentBuffer => lines'[c] = lines[c]
    BY <1>0, <1>1, <1>2, <1>6, AppendedLines
  <2>3. SameLines(Queued, lines, Queued, lines', Len(Queued))
    <3>1. \A i \in 1..Len(Queued) : Queued[i] # currentBuffer
      BY <1>0, <1>2 DEF OnePlace
    <3>2. QED
      BY <1>2, <2>2, <3>1 DEF SameLines
  <2>4. Cat(Queued, lines') = Cat(Queued, lines)
    BY <1>2, <2>3, CatSame
  <2>5. Pending' = Append(Pending, line)
    BY SMTT(40), <1>1, <1>3, <1>4, <2>1, <2>2, <2>4, ConcatAppend
  <2>6. Stream!Next
    BY <1>1, <2>5 DEF Stream!Next, Stream!Log
  <2>7. EmptyHasNoLines'
    <3>1. /\ used'[currentBuffer] # 0
          /\ \A c \in Buffers : c # currentBuffer => used'[c] = used[c]
      BY <1>0, <1>1, <1>2, <1>6, AppendLineResult
    <3>2. QED
      BY <2>2, <3>1 DEF EmptyHasNoLines, Empty
  <2>8. QED
    BY <2>6, <2>7
<1>7. CASE /\ ~Fits(currentBuffer, size)
           /\ fullBuffers' = Append(fullBuffers, currentBuffer)
           /\ TakeEmptyBuffer
           /\ AppendLine(currentBuffer', line, size)
           /\ Broadcast
  <2>1. ~Empty(currentBuffer) /\ \A b \in Buffers : Empty(b) => Fits(b, size)
    BY <1>0, <1>2, <1>7, LogAssumption DEF Fits, Empty
  <2>2. PICK c : c = currentBuffer'
    OBVIOUS
  <2>3. /\ c \in Buffers /\ Empty(c) /\ c # currentBuffer
        /\ ~In(c, fullBuffers) /\ ~In(c, tobeWritten)
    BY <1>7, <2>1, <2>2, TakenResult
  <2>4. /\ lines'[c] = Append(lines[c], line)
        /\ \A b \in Buffers : b # c => lines'[b] = lines[b]
    BY <1>0, <1>1, <1>7, <2>1, <2>2, <2>3, AppendedLines
  <2>5. lines[c] = << >>
    BY <2>3 DEF EmptyHasNoLines
  <2>6. Queued' = Append(Queued, currentBuffer)
    <3>1. Unwritten \in Seq(Buffers) /\ fullBuffers \in Seq(Buffers)
      BY <1>0, UnwrittenResult DEF ListsOK
    <3>2. <<currentBuffer>> \in Seq(Buffers)
      BY <1>2
    <3>3. /\ Append(fullBuffers, currentBuffer) = fullBuffers \o <<currentBuffer>>
          /\ Append(Queued, currentBuffer) = Queued \o <<currentBuffer>>
      BY <1>2, <3>1, AppendIsConcat
    <3>4. \A x, y, z \in Seq(Buffers) : (x \o y) \o z = x \o (y \o z)
      BY ConcatAssociative
    <3>5. Queued \o <<currentBuffer>> = Unwritten \o (fullBuffers \o <<currentBuffer>>)
      BY <3>1, <3>2, <3>4, Zenon DEF Queued
    <3>6. Queued' = Unwritten \o Append(fullBuffers, currentBuffer)
      BY <1>5, <1>7 DEF Queued
    <3>7. QED
      BY <3>3, <3>5, <3>6
  <2>7. SameLines(Queued, lines, Queued, lines', Len(Queued))
    <3>1. \A i \in 1..Len(Queued) : Queued[i] # c
      BY <1>2, <2>3
    <3>2. QED
      BY <1>2, <2>4, <3>1 DEF SameLines
  <2>8. Cat(Queued, lines') = Cat(Queued, lines)
    BY <1>2, <2>7, CatSame
  <2>9. Cat(Queued', lines') = Pending
    <3>1. Cat(Append(Queued, currentBuffer), lines')
            = Cat(Queued, lines') \o lines'[currentBuffer]
      BY <1>2, CatAppend
    <3>2. lines'[currentBuffer] = lines[currentBuffer]
      BY <1>2, <2>3, <2>4
    <3>3. QED
      BY <1>3, <2>6, <2>8, <3>1, <3>2
  <2>10. Pending' = Append(Pending, line)
    <3>1. lines'[currentBuffer'] = <<line>>
      BY <2>2, <2>4, <2>5
    <3>2. Append(Pending, line) = Pending \o <<line>>
      BY <1>1, <1>3, AppendIsConcat
    <3>3. QED
      BY <1>4, <2>9, <3>1, <3>2
  <2>11. Stream!Next
    BY <1>1, <2>10 DEF Stream!Next, Stream!Log
  <2>12. EmptyHasNoLines'
    <3>1. /\ used'[c] # 0
          /\ \A b \in Buffers : b # c => used'[b] = used[b]
      BY <1>0, <1>1, <1>7, <2>1, <2>2, <2>3, AppendLineResult
    <3>2. QED
      BY <2>4, <3>1 DEF EmptyHasNoLines, Empty
  <2>13. QED
    BY <2>11, <2>12
<1>8. QED
  BY <1>6, <1>7 DEF Logf, line

\* TakeBuffers moves the buffers that wait and leaves their lines in order.
LEMMA TakeBuffersIsStutter ==
    ASSUME LogInv, LogInv', EmptyHasNoLines, TakeBuffers
    PROVE  Pending' = Pending /\ file' = file /\ EmptyHasNoLines'
<1>0. ListsOK /\ RestOK /\ Waiting /\ ListsOK' /\ RestOK'
  BY DEF LogInv
<1>1. /\ fullBuffers' = << >> /\ next' = 1 /\ at # "write"
      /\ UNCHANGED <<lines, used, file>>
  BY DEF TakeBuffers, contents
<1>2. tobeWritten = << >> /\ fullBuffers \in Seq(Buffers) /\ currentBuffer \in Buffers
      /\ tobeWritten' \in Seq(Buffers) /\ lines \in Contents
  BY <1>0, <1>1 DEF Waiting, ListsOK, RestOK, Contents
<1>3. Queued = fullBuffers
  <2>1. Unwritten \in Seq(Buffers) /\ Len(Unwritten) = 0
    <3>1. Len(tobeWritten) = 0 /\ next \in 1..(0 + 1)
      BY <1>0, <1>2 DEF ListsOK
    <3>2. QED
      BY <1>0, <3>1, UnwrittenResult
  <2>2. Unwritten = << >>
    BY <2>1, EmptySeq
  <2>3. QED
    BY <1>2, <2>2, ConcatEmptySeq DEF Queued
<1>4. Queued' = tobeWritten'
  <2>1. Unwritten' = SubSeq(tobeWritten', 1, Len(tobeWritten'))
    BY <1>1 DEF Unwritten
  <2>2. Unwritten' = tobeWritten'
    BY <1>2, <2>1, SubSeqFull
  <2>3. Queued' = tobeWritten' \o << >>
    BY <1>1, <2>2 DEF Queued
  <2>4. QED
    BY <1>2, <2>3, ConcatEmptySeq
<1>5. /\ Pending = Cat(fullBuffers, lines) \o lines[currentBuffer]
      /\ Pending' = Cat(tobeWritten', lines) \o lines[currentBuffer']
      /\ Pending \in Seq(Line)
  BY <1>0, <1>1, <1>3, <1>4, PendingResult, PendingThen
<1>6. EmptyHasNoLines'
  BY <1>1 DEF EmptyHasNoLines, Empty
<1>7. CASE Empty(currentBuffer)
  <2>1. tobeWritten' = fullBuffers /\ currentBuffer' = currentBuffer
    BY <1>7 DEF TakeBuffers
  <2>2. QED
    BY <1>1, <1>5, <1>6, <2>1
<1>8. CASE ~Empty(currentBuffer)
  <2>1. tobeWritten' = Append(fullBuffers, currentBuffer) /\ TakeEmptyBuffer
    BY <1>8 DEF TakeBuffers
  <2>2. PICK c : c = currentBuffer'
    OBVIOUS
  <2>3. c \in Buffers /\ Empty(c)
    BY <1>8, <2>1, <2>2, TakenResult
  <2>4. lines[c] = << >>
    BY <2>3 DEF EmptyHasNoLines
  <2>5. Cat(tobeWritten', lines) = Pending
    BY <1>2, <1>5, <2>1, CatAppend
  <2>6. Pending' = Pending \o << >>
    BY <1>5, <2>2, <2>4, <2>5
  <2>7. QED
    BY <1>1, <1>5, <1>6, <2>6, ConcatEmptySeq
<1>9. QED
  BY <1>7, <1>8

\* ReturnBuffers moves only buffers that have been written.
LEMMA ReturnBuffersIsStutter ==
    ASSUME LogInv, LogInv', EmptyHasNoLines, ReturnBuffers
    PROVE  Pending' = Pending /\ file' = file /\ EmptyHasNoLines'
<1>0. ListsOK /\ RestOK /\ ListsOK' /\ RestOK'
  BY DEF LogInv
<1>1. /\ next > Len(tobeWritten) /\ tobeWritten' = << >> /\ next' = 1
      /\ UNCHANGED <<currentBuffer, fullBuffers, lines, used, file>>
  BY DEF ReturnBuffers, contents
<1>2. Unwritten = << >>
  <2>1. Len(tobeWritten) \in Nat /\ next \in Nat
    BY <1>0, LenProperties DEF ListsOK
  <2>2. QED
    BY <1>1, <2>1, SubSeqEmpty DEF Unwritten
<1>3. Unwritten' = << >>
  <2>1. Unwritten' = SubSeq(<< >>, 1, Len(<< >>))
    BY <1>1 DEF Unwritten
  <2>2. Len(<< >>) = 0 /\ 0 \in Int /\ 1 \in Int /\ 0 < 1
    OBVIOUS
  <2>3. QED
    BY <2>1, <2>2, SubSeqEmpty
<1>4. Queued' = Queued
  BY <1>1, <1>2, <1>3 DEF Queued
<1>5. Pending' = Pending
  BY <1>0, <1>1, <1>4, PendingResult, PendingThen
<1>6. QED
  BY <1>1, <1>5 DEF EmptyHasNoLines, Empty

\* WriteBuffer hands the lines of the oldest buffer to the file.
LEMMA WriteBufferIsFlush ==
    ASSUME LogInv, LogInv', EmptyHasNoLines, WriteBuffer
    PROVE  (Stream!Next \/ UNCHANGED <<Pending, file>>) /\ EmptyHasNoLines'
<1> DEFINE b == tobeWritten[next]
           n == Len(lines[b])
<1>0. ListsOK /\ RestOK /\ OnePlace /\ ListsOK' /\ RestOK'
  BY DEF LogInv
<1>1. /\ next <= Len(tobeWritten) /\ next' = next + 1
      /\ lines' = [lines EXCEPT ![b] = << >>] /\ used' = [used EXCEPT ![b] = 0]
      /\ \E k \in IF DiskFails THEN 0..n ELSE {n} : file' = file \o SubSeq(lines[b], 1, k)
      /\ UNCHANGED <<currentBuffer, fullBuffers, tobeWritten>>
  BY DEF WriteBuffer, shared
<1>2. /\ b \in Buffers /\ next \in 1..Len(tobeWritten) /\ Len(tobeWritten) \in Nat
      /\ DOMAIN tobeWritten = 1..Len(tobeWritten) /\ tobeWritten \in Seq(Buffers)
      /\ lines[b] \in Seq(Line) /\ currentBuffer \in Buffers /\ lines \in Contents
      /\ fullBuffers \in Seq(Buffers) /\ n \in Nat /\ file \in Seq(Line)
  <2>1. next \in 1..Len(tobeWritten) /\ tobeWritten \in Seq(Buffers)
    BY <1>0, <1>1, LenProperties DEF ListsOK
  <2>2. b \in Buffers
    BY <2>1, ElementOfSeq
  <2>3. QED
    BY <1>0, <2>1, <2>2, LenProperties DEF ListsOK, RestOK, Contents
<1>3. In(b, tobeWritten) /\ b # currentBuffer /\ ~In(b, fullBuffers)
  BY <1>0, <1>2 DEF OnePlace, In, Apart
<1> HIDE DEF b, n
<1>4. EmptyHasNoLines'
  BY <1>0, <1>1, <1>2 DEF EmptyHasNoLines, Empty, RestOK
<1>5. Queued # << >> /\ Head(Queued) = b /\ Tail(Queued) = Queued' /\ Queued \in Seq(Buffers)
  <2>1. Unwritten = <<b>> \o Unwritten' /\ Unwritten' \in Seq(Buffers)
    <3>1. Len(tobeWritten) \in next..Len(tobeWritten)
      BY <1>2
    <3>2. SubSeq(tobeWritten, next, Len(tobeWritten))
            = <<tobeWritten[next]>> \o SubSeq(tobeWritten, next + 1, Len(tobeWritten))
      BY <1>2, <3>1, SubSeqRecursiveFirst
    <3>3. Unwritten' = SubSeq(tobeWritten, next + 1, Len(tobeWritten))
      BY <1>1 DEF Unwritten
    <3>4. \A i \in (next + 1)..Len(tobeWritten) : tobeWritten[i] \in Buffers
      BY <1>2, ElementOfSeq
    <3>5. Unwritten' \in Seq(Buffers)
      BY <1>2, <3>3, <3>4, SubSeqProperties
    <3>6. QED
      BY <3>2, <3>3, <3>5 DEF Unwritten, b
  <2>2. <<b>> \in Seq(Buffers)
    BY <1>2
  <2>3. Queued = <<b>> \o Queued' /\ Queued' \in Seq(Buffers)
    <3>1. \A x, y, z \in Seq(Buffers) : (x \o y) \o z = x \o (y \o z)
      BY ConcatAssociative
    <3>2. (<<b>> \o Unwritten') \o fullBuffers = <<b>> \o (Unwritten' \o fullBuffers)
      BY <1>2, <2>1, <2>2, <3>1, Zenon
    <3>3. Queued' = Unwritten' \o fullBuffers
      BY <1>1 DEF Queued
    <3>4. Queued' \in Seq(Buffers)
      BY <1>2, <2>1, <3>3, ConcatProperties
    <3>5. Queued = (<<b>> \o Unwritten') \o fullBuffers
      BY <2>1 DEF Queued
    <3>6. QED
      BY <3>2, <3>3, <3>4, <3>5, Zenon
  <2>4. PICK q \in Seq(Buffers) : q = Queued'
    BY <2>3
  <2>5. /\ <<b>> \o q \in Seq(Buffers) /\ <<b>> \o q # << >>
        /\ Head(<<b>> \o q) = b /\ Tail(<<b>> \o q) = q
    BY <1>2
  <2>6. QED
    BY <2>3, <2>4, <2>5
<1>6. Pending = lines[b] \o Pending' /\ Pending' \in Seq(Line)
  <2>1. /\ Pending = Cat(Queued, lines) \o lines[currentBuffer]
        /\ Pending' = Cat(Queued', lines') \o lines'[currentBuffer']
        /\ lines[currentBuffer] \in Seq(Line)
    BY <1>0, PendingResult, PendingThen
  <2>2. Cat(Queued, lines) = lines[b] \o Cat(Queued', lines)
    BY <1>2, <1>5, CatTail
  <2>3. lines'[currentBuffer'] = lines[currentBuffer]
    BY <1>1, <1>2, <1>3 DEF Contents
  <2>4. Queued' \in Seq(Buffers)
    BY <1>5, HeadTailProperties
  <2>5. SameLines(Queued', lines, Queued', lines', Len(Queued'))
    <3>1. ASSUME NEW i \in 1..Len(Queued')
          PROVE  Queued'[i] \in Buffers /\ Queued'[i] # b
      <4>1. /\ Queued'[i] \in Buffers /\ In(Queued'[i], Queued')
        BY <2>4, LenProperties, ElementOfSeq DEF In
      <4>2. Unwritten' \in Seq(Buffers) /\ fullBuffers' \in Seq(Buffers)
        <5>1. ListsOK' => (Unwritten \in Seq(Buffers))'
          BY UnwrittenResult, PTL
        <5>2. QED
          BY <1>0, <1>1, <1>2, <5>1
      <4>3. In(Queued'[i], Unwritten') \/ In(Queued'[i], fullBuffers)
        BY <1>1, <4>1, <4>2, ConcatList DEF Queued
      <4>4. ~In(b, Unwritten')
        <5>1. ASSUME NEW j \in DOMAIN Unwritten', Unwritten'[j] = b
              PROVE  FALSE
          <6>1. Unwritten' = SubSeq(tobeWritten, next + 1, Len(tobeWritten))
            BY <1>1 DEF Unwritten
          <6>2. \A k \in (next + 1)..Len(tobeWritten) : tobeWritten[k] \in Buffers
            BY <1>2, ElementOfSeq
          <6>3. /\ Len(Unwritten') = IF next + 1 <= Len(tobeWritten)
                                     THEN Len(tobeWritten) - (next + 1) + 1 ELSE 0
                /\ \A k \in 1..(Len(tobeWritten) - (next + 1) + 1) :
                      Unwritten'[k] = tobeWritten[(next + 1) + k - 1]
            BY <1>2, <6>1, <6>2, SubSeqProperties
          <6>4. j \in 1..Len(Unwritten')
            BY SMTT(40), <4>2, <5>1, LenProperties
          <6>5. j \in 1..(Len(tobeWritten) - (next + 1) + 1)
            <7>1. ASSUME NEW o \in Nat, NEW x \in Nat,
                         NEW y \in 1..(IF x + 1 <= o THEN o - (x + 1) + 1 ELSE 0)
                  PROVE  y \in 1..(o - (x + 1) + 1)
              BY <7>1
            <7>2. next \in Nat
              BY <1>2
            <7>3. QED
              BY <1>2, <6>3, <6>4, <7>1, <7>2
          <6>6. /\ (next + 1) + j - 1 \in 1..Len(tobeWritten)
                /\ (next + 1) + j - 1 # next
            BY SMTT(40), <1>2, <6>5
          <6>7. tobeWritten[(next + 1) + j - 1] = tobeWritten[next]
            BY <5>1, <6>3, <6>5 DEF b
          <6>8. QED
            BY <1>0, <1>2, <6>6, <6>7 DEF OnePlace, Once
        <5>2. QED
          BY <5>1 DEF In
      <4>5. QED
        BY <1>3, <4>1, <4>3, <4>4
    <3>2. \A c \in Buffers : c # b => lines'[c] = lines[c]
      BY <1>1, <1>2 DEF Contents
    <3>3. QED
      BY <3>1, <3>2 DEF SameLines
  <2>6. Cat(Queued', lines') = Cat(Queued', lines)
    BY <2>4, <2>5, CatSame
  <2>7. Cat(Queued', lines) \in Seq(Line)
    BY <1>2, <2>4, CatType
  <2>8. \A x, y, z \in Seq(Line) : (x \o y) \o z = x \o (y \o z)
    BY ConcatAssociative
  <2>9. (lines[b] \o Cat(Queued', lines)) \o lines[currentBuffer]
          = lines[b] \o (Cat(Queued', lines) \o lines[currentBuffer])
    BY <1>2, <2>1, <2>7, <2>8, ZenonT(40)
  <2>10. Pending' = Cat(Queued', lines) \o lines[currentBuffer]
    BY <2>1, <2>3, <2>6
  <2>11. QED
    BY <2>1, <2>2, <2>7, <2>9, <2>10, ConcatProperties
<1>7. PICK k \in 0..n : /\ k = n \/ DiskFails
                        /\ file' = file \o SubSeq(lines[b], 1, k)
  <2>1. PICK k \in IF DiskFails THEN 0..n ELSE {n} : file' = file \o SubSeq(lines[b], 1, k)
    BY <1>1
  <2>2. k \in 0..n /\ (k = n \/ DiskFails)
    BY <1>2
  <2>3. QED
    BY <2>1, <2>2
<1>8. CASE n = 0
  <2>1. lines[b] = << >>
    BY <1>2, <1>8, EmptySeq DEF n
  <2>2. SubSeq(lines[b], 1, k) = << >>
    BY <1>8, SubSeqEmpty
  <2>3. Pending' = Pending
    BY <1>6, <2>1, ConcatEmptySeq
  <2>4. file' = file
    BY <1>2, <1>7, <2>2, ConcatEmptySeq
  <2>5. QED
    BY <1>4, <2>3, <2>4
<1>9. CASE n # 0
  <2>1. PICK r \in Seq(Line) : r = Pending'
    BY <1>6
  <2>2. PICK s \in Seq(Line) : s = lines[b] /\ Len(s) = n
    BY <1>2 DEF n
  <2>3. Pending = s \o r /\ Len(r) \in Nat
    BY <1>6, <2>1, <2>2, LenProperties
  <2>4. Len(s \o r) = n + Len(r) /\ s \o r \in Seq(Line)
    BY <2>2, ConcatProperties
  <2>5. SubSeq(s \o r, n + 1, Len(s \o r)) = r
    BY SMTT(40), <1>2, <2>2, <2>3, <2>4
  <2>6. SubSeq(s \o r, 1, k) = SubSeq(s, 1, k)
    BY <1>2, <2>2, <2>3, <2>4
  <2>7. n \in 1..Len(Pending)
    BY <1>2, <1>9, <2>3, <2>4
  <2>8. Stream!Flush(n, k)
    BY <1>7, <2>1, <2>2, <2>3, <2>5, <2>6 DEF Stream!Flush
  <2>9. QED
    BY <1>4, <1>7, <2>7, <2>8 DEF Stream!Next
<1>10. QED
  BY <1>8, <1>9

\* The logger writes the lines in the order of the Logf calls, each at most
\* once, and loses none but by a write that fails (log.go:81-122, :127-144),
\* whatever the producers and the background goroutine do meanwhile.
THEOREM LogImplementsStream == Spec => ImplementsStream
<1>1. ASSUME Init
      PROVE  Stream!Init /\ EmptyHasNoLines
  <2>1. LogInv
    BY <1>1, LogInvInitially
  <2>2. lines[currentBuffer] = << >> /\ EmptyHasNoLines
    BY <1>1, <2>1 DEF Init, EmptyHasNoLines, LogInv, ListsOK
  <2>3. Queued = << >>
    <3>1. Unwritten = SubSeq(<< >>, 1, 0) /\ fullBuffers = << >>
      BY <1>1 DEF Init, Unwritten
    <3>2. Unwritten = << >>
      BY <3>1, SubSeqEmpty
    <3>3. QED
      BY <3>1, <3>2 DEF Queued
  <2>4. Pending = << >>
    BY <2>1, <2>2, <2>3, PendingResult, CatEmpty DEF LogInv
  <2>5. QED
    BY <1>1, <2>2, <2>4 DEF Init, Stream!Init
<1>2. ASSUME LogInv, LogInv', EmptyHasNoLines, [Next]_vars
      PROVE  [Stream!Next]_<<Pending, file>> /\ EmptyHasNoLines'
  <2>1. ASSUME UNCHANGED <<shared, contents, tobeWritten, next, file>>
        PROVE  [Stream!Next]_<<Pending, file>> /\ EmptyHasNoLines'
    <3>1. UNCHANGED <<currentBuffer, fullBuffers, lines, used, tobeWritten, next, file>>
      BY <2>1 DEF shared, contents
    <3>2. Queued' = Queued
      BY <3>1 DEF Queued, Unwritten
    <3>3. Pending' = Pending
      BY <1>2, <3>1, <3>2, PendingResult, PendingThen DEF LogInv
    <3>4. QED
      BY <1>2, <3>1, <3>3 DEF EmptyHasNoLines, Empty
  <2>2. CASE WaitWithTimeout \/ Notified \/ TimedOut \/ UNCHANGED vars
    BY <2>1, <2>2 DEF WaitWithTimeout, Notified, TimedOut, vars, background
  <2>3. CASE \E p \in Producers, size \in Sizes : Logf(p, size)
    BY <1>2, <2>3, LogfIsLog
  <2>4. CASE TakeBuffers
    BY <1>2, <2>4, TakeBuffersIsStutter
  <2>5. CASE WriteBuffer
    BY <1>2, <2>5, WriteBufferIsFlush
  <2>6. CASE ReturnBuffers
    BY <1>2, <2>6, ReturnBuffersIsStutter
  <2>7. QED
    BY <1>2, <2>2, <2>3, <2>4, <2>5, <2>6 DEF Next, BackgroundStep
<1>3. QED
  BY <1>1, <1>2, LogInvAlways, PTL DEF Spec, ImplementsStream, Stream!Spec

=============================================================================
