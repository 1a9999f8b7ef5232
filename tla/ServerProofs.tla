---------------------------- MODULE ServerProofs ----------------------------
(***************************************************************************)
(* Theorems about Server, for a pool of any size, any number of            *)
(* connections and every way of starting the server.                       *)
(***************************************************************************)
EXTENDS Server, SequenceTheorems, FiniteSetTheorems, TLAPS

-----------------------------------------------------------------------------
(* The strengthening of GetNextSafe.  LeastConnection's indices stay in    *)
(* the pool while it scans; Start() ends with poll.started = 1, and a base *)
(* loop whose own goroutine calls Start() does not run before that.        *)

Answer == 0..Cardinality(Conns) \cup {NoAnswer}

Scans == [conn : SUBSET Conns, i : Nat, best : Nat, count : Answer, answer : Answer]

InPool(s) ==
    /\ s \in Scans
    /\ Cardinality(s.conn) <= 1
    /\ s.i \in 1..(Len(loops) + 1) /\ s.best \in 1..(Len(loops) + 1)
    /\ s.conn # {} => s.i \in 2..Len(loops) /\ s.best \in 1..Len(loops)

StartInOrder ==
    /\ toStart # << >> => toStart[Len(toStart)] = "started"
    /\ toStart = << >> => started
    /\ starter = "base" /\ Base \in running => toStart = << >>

\* The pool is a sequence of worker loops, each in one place.
LEMMA PoolResult ==
    ASSUME NEW ls \in Pools
    PROVE  /\ ls \in Seq(WorkerSet) /\ ls \in Seq(Loops)
           /\ Len(ls) \in Nat
           /\ \A i \in 1..Len(ls) : ls[i] \in WorkerSet /\ ls[i] \in Loops /\ ls[i] # Base
           /\ \A i, j \in 1..Len(ls) : ls[i] = ls[j] => i = j
<1>1. PICK n \in Sizes : ls = SubSeq(Workers, 1, n)
  BY DEF Pools
<1>2. n \in 0..Len(Workers) /\ Workers \in Seq(WorkerSet) /\ Len(Workers) \in Nat
      /\ DOMAIN Workers = 1..Len(Workers)
  BY ServerAssumption, LenProperties
<1>3. \A i \in 1..n : Workers[i] \in WorkerSet
  BY <1>2, ElementOfSeq
<1>4. /\ ls \in Seq(WorkerSet) /\ Len(ls) = n
      /\ \A i \in 1..n : ls[i] = Workers[i]
  BY <1>1, <1>2, <1>3, SubSeqProperties
<1>5. WorkerSet \subseteq Loops
  BY DEF Loops
<1>6. ls \in Seq(Loops)
  BY <1>4, <1>5, SeqMonotonic
<1>7. QED
  BY <1>2, <1>3, <1>4, <1>5, <1>6, ServerAssumption

\* A count of channels is an answer.
LEMMA CountResult ==
    ASSUME NEW l
    PROVE  ChannelCount(l) \in 0..Cardinality(Conns)
<1>1. IsFiniteSet(Conns)
  BY FS_Interval, ServerAssumption DEF Conns
<1>2. {c \in Conns : conn[c] = "up" /\ loopOf[c] = l} \in SUBSET Conns
  OBVIOUS
<1>3. QED
  BY <1>1, <1>2, FS_Subset, FS_CardinalityType DEF ChannelCount

LEMMA ConnsFinite == IsFiniteSet(Conns) /\ Cardinality(Conns) \in Nat /\ Conns \subseteq Nat
<1>1. IsFiniteSet(Conns)
  BY FS_Interval, ServerAssumption DEF Conns
<1>2. QED
  BY <1>1, FS_CardinalityType DEF Conns

\* TypeOK without what the scan adds to it, so that it can be proved apart.
OthersOK ==
    /\ loops \in Pools
    /\ strategy \in Strategies
    /\ starter \in Starters
    /\ nextLoopIndex \in 1..(IF loops = << >> THEN 1 ELSE Len(loops))
    /\ toStart \in Seq(Loops \cup {"Listen", "started"})
    /\ started \in BOOLEAN
    /\ running \subseteq Loops
    /\ queue \in [Loops -> Seq(Functor)]
    /\ conn \in [Conns -> {"none", "pending", "accepted", "queued", "up", "closed"}]
    /\ loopOf \in [Conns -> Loops \cup {NoAnswer}]
    /\ asks \in 0..MaxAsks
    /\ panicked \in BOOLEAN

LEMMA TypeOKParts == InPool(scan) /\ OthersOK => TypeOK
BY DEF InPool, Scans, Answer, OthersOK, TypeOK

LEMMA IdleInPool ==
    ASSUME loops \in Pools
    PROVE  InPool(Idle)
<1>1. Cardinality({}) = 0
  BY FS_EmptySet
<1>2. Len(loops) \in Nat
  BY PoolResult
<1>3. Idle \in Scans
  BY DEF Idle, Scans, Answer
<1>4. QED
  BY <1>1, <1>2, <1>3 DEF InPool, Idle

\* A new value of the scan is as good in the next state if the pool stays.
LEMMA InPoolLater ==
    ASSUME NEW s, InPool(s), loops' = loops, scan' = s
    PROVE  InPool(scan)'
BY DEF InPool

\* What LeastConnection goes on with after it has compared two loops.
LEMMA ComparedResult ==
    ASSUME InPool(scan), scan.conn # {}, loops \in Pools
    PROVE  LET fewer == scan.count < scan.answer
               s == [scan EXCEPT !.best = IF fewer THEN scan.i ELSE @,
                                 !.i = @ + 1, !.count = NoAnswer]
           IN  /\ s \in Scans /\ s.conn = scan.conn /\ s.i = scan.i + 1
               /\ s.best = (IF fewer THEN scan.i ELSE scan.best)
               /\ s.best \in 1..Len(loops)
<1> DEFINE fewer == scan.count < scan.answer
           s == [scan EXCEPT !.best = IF fewer THEN scan.i ELSE @,
                             !.i = @ + 1, !.count = NoAnswer]
<1>a. Len(loops) \in Nat
  BY PoolResult
<1>b. /\ scan.i \in 2..Len(loops) /\ scan.best \in 1..Len(loops) /\ scan.i \in Nat
  BY <1>a DEF InPool, Scans
<1> HIDE DEF fewer
<1>1. scan \in Scans /\ NoAnswer \in Answer
  BY DEF InPool, Answer
<1>2. (IF fewer THEN scan.i ELSE scan.best) \in Nat
      /\ (IF fewer THEN scan.i ELSE scan.best) \in 1..Len(loops)
  BY <1>a, <1>b
<1>3. s \in Scans /\ s.conn = scan.conn /\ s.i = scan.i + 1
      /\ s.best = (IF fewer THEN scan.i ELSE scan.best)
  <2> DEFINE b == IF fewer THEN scan.i ELSE scan.best
  <2>1. s = [scan EXCEPT !.best = b, !.i = scan.i + 1, !.count = NoAnswer]
    BY <1>1 DEF Scans
  <2>2. b \in Nat
    BY <1>2
  <2> HIDE DEF b, s
  <2>3. s \in Scans /\ s.conn = scan.conn /\ s.i = scan.i + 1 /\ s.best = b
    <3> DEFINE s1 == [scan EXCEPT !.best = b]
               s2 == [s1 EXCEPT !.i = scan.i + 1]
    <3>1. s1 \in Scans /\ s1.conn = scan.conn /\ s1.best = b
      BY <1>1, <2>2 DEF Scans
    <3>2. s = [s2 EXCEPT !.count = NoAnswer]
      BY <2>1
    <3> HIDE DEF s1
    <3>3. /\ s2 \in Scans /\ s2.conn = s1.conn /\ s2.best = s1.best
          /\ s2.i = scan.i + 1
      BY SMTT(40), <1>b, <3>1 DEF Scans
    <3> HIDE DEF s2
    <3>4. s \in Scans /\ s.conn = s2.conn /\ s.best = s2.best /\ s.i = s2.i
      BY <1>1, <3>2, <3>3 DEF Scans
    <3>5. QED
      BY <3>1, <3>3, <3>4
  <2>4. QED
    BY <2>3 DEF b
<1>4. QED
  BY <1>2, <1>3, Zenon DEF fewer

\* The question keeps the types and puts a functor of Base into a queue.
LEMMA AskResult ==
    ASSUME OthersOK, NEW l \in Loops, NEW s, InPool(s), Ask(l, s), loops' = loops
    PROVE  queue' \in [Loops -> Seq(Functor)] /\ InPool(scan)'
<1> DEFINE f == [op |-> "count", from |-> Base, conn |-> NoAnswer]
<1>1. f \in Functor
  BY DEF Functor, Count, Loops
<1> HIDE DEF f
<1>2. queue' = [queue EXCEPT ![l] = Append(@, f)]
  BY DEF Ask, f
<1>3. queue' \in [Loops -> Seq(Functor)]
  <2>1. queue \in [Loops -> Seq(Functor)]
    BY DEF OthersOK
  <2>2. Append(queue[l], f) \in Seq(Functor)
    BY <1>1, <2>1, AppendProperties
  <2>3. QED
    BY <1>2, <2>1, <2>2
<1>4. InPool([s EXCEPT !.answer = NoAnswer])
  BY DEF InPool, Scans, Answer
<1>5. QED
  BY <1>3, <1>4, InPoolLater DEF Ask

\* Handing over a connection keeps the types and ends the scan.
LEMMA HandToResult ==
    ASSUME OthersOK, NEW l \in Loops, NEW c \in Conns, HandTo(l, c), loops' = loops
    PROVE  /\ queue' \in [Loops -> Seq(Functor)]
           /\ conn' \in [Conns -> {"none", "pending", "accepted", "queued", "up", "closed"}]
           /\ loopOf' \in [Conns -> Loops \cup {NoAnswer}]
           /\ InPool(scan)'
<1> DEFINE f == [op |-> "establish", from |-> Base, conn |-> c]
<1>1. f \in Functor
  BY DEF Functor
<1> HIDE DEF f
<1>2. queue' = queue \/ queue' = [queue EXCEPT ![l] = Append(@, f)]
  BY DEF HandTo, f
<1>3. queue' \in [Loops -> Seq(Functor)]
  <2>1. queue \in [Loops -> Seq(Functor)]
    BY DEF OthersOK
  <2>2. Append(queue[l], f) \in Seq(Functor)
    BY <1>1, <2>1, AppendProperties
  <2>3. QED
    BY <1>2, <2>1, <2>2
<1>4. InPool(scan)'
  BY IdleInPool, InPoolLater DEF HandTo, OthersOK
<1>5. QED
  BY <1>3, <1>4 DEF HandTo, OthersOK

SafeInv ==
    /\ InPool(scan)
    /\ OthersOK
    /\ StartInOrder
    /\ panicked => starter = "other"

\* A step that leaves alone what StartInOrder is about.
LEMMA StartKept ==
    ASSUME StartInOrder, UNCHANGED <<starter, toStart, started, running>>
    PROVE  StartInOrder'
BY DEF StartInOrder

LEMMA SafeInvInitially == Init => SafeInv
<1> SUFFICES ASSUME Init
             PROVE  SafeInv
  OBVIOUS
<1> DEFINE T == Loops \cup {"Listen", "started"}
<1>1. loops \in Pools /\ Len(loops) \in Nat /\ loops \in Seq(Loops)
  BY PoolResult DEF Init
<1>2. InPool(scan)
  BY <1>1, IdleInPool DEF Init
<1>3. loops \in Seq(T)
  BY <1>1, SeqMonotonic
<1>4. toStart = <<"Listen">> \o loops \o <<"started">>
  BY DEF Init, StartSteps
<1>5. <<"Listen">> \in Seq(T) /\ <<"started">> \in Seq(T) /\ Len(<<"started">>) = 1
      /\ <<"started">>[1] = "started"
  OBVIOUS
<1> HIDE DEF T
<1>6. <<"Listen">> \o loops \in Seq(T) /\ Len(<<"Listen">> \o loops) \in Nat
  BY <1>3, <1>5, ConcatProperties, LenProperties
<1>7. /\ toStart \in Seq(T)
      /\ Len(toStart) = Len(<<"Listen">> \o loops) + 1
      /\ toStart[Len(toStart)] = "started"
  <2> DEFINE front == <<"Listen">> \o loops
             last == <<"started">>
  <2>1. front \in Seq(T) /\ Len(front) \in Nat /\ last \in Seq(T) /\ Len(last) = 1
        /\ last[1] = "started" /\ toStart = front \o last
    BY <1>4, <1>5, <1>6
  <2> HIDE DEF front, last
  <2>2. /\ toStart \in Seq(T)
        /\ Len(toStart) = Len(front) + 1
        /\ \A i \in 1..(Len(front) + 1) :
             toStart[i] = IF i <= Len(front) THEN front[i] ELSE last[i - Len(front)]
    <3>1. /\ front \o last \in Seq(T)
          /\ Len(front \o last) = Len(front) + Len(last)
          /\ \A i \in 1..(Len(front) + Len(last)) :
               (front \o last)[i] = IF i <= Len(front) THEN front[i] ELSE last[i - Len(front)]
      BY <2>1, ConcatProperties
    <3>2. QED
      BY <2>1, <3>1
  <2>3. toStart[Len(front) + 1] = last[1]
    <3>1. /\ Len(front) + 1 \in 1..(Len(front) + 1)
          /\ ~(Len(front) + 1 <= Len(front)) /\ Len(front) + 1 - Len(front) = 1
      BY <2>1
    <3>2. QED
      BY <2>2, <3>1
  <2>4. QED
    BY <2>1, <2>2, <2>3 DEF front
<1>8. toStart # << >>
  BY <1>6, <1>7
<1>9. OthersOK
  <2>1. nextLoopIndex \in 1..(IF loops = << >> THEN 1 ELSE Len(loops))
    BY <1>1, EmptySeq DEF Init
  <2>2. queue \in [Loops -> Seq(Functor)] /\ loopOf \in [Conns -> Loops \cup {NoAnswer}]
    BY DEF Init
  <2>3. asks \in 0..MaxAsks
    BY ServerAssumption DEF Init
  <2>4. QED
    BY <1>1, <1>7, <2>1, <2>2, <2>3 DEF Init, OthersOK, T
<1>10. StartInOrder
  BY <1>7, <1>8 DEF Init, StartInOrder
<1>11. QED
  BY <1>2, <1>9, <1>10 DEF Init, SafeInv

LEMMA SafeInvKept == SafeInv /\ [Next]_vars => SafeInv'
<1> SUFFICES ASSUME SafeInv, [Next]_vars
             PROVE  SafeInv'
  OBVIOUS
<1>0. InPool(scan) /\ OthersOK /\ StartInOrder /\ (panicked => starter = "other")
  BY DEF SafeInv
<1>a. loops \in Pools /\ Len(loops) \in Nat
  BY <1>0, PoolResult DEF OthersOK
<1>b. ASSUME UNCHANGED <<loops, scan>>
      PROVE  InPool(scan)'
  BY <1>0, <1>b, InPoolLater
<1>1. CASE Start
  <2> DEFINE T == Loops \cup {"Listen", "started"}
  <2>1. toStart \in Seq(T) /\ toStart # << >> /\ Len(toStart) \in Nat
    BY <1>0, <1>1, LenProperties DEF OthersOK, Start
  <2>2. /\ toStart' \in Seq(T) /\ Len(toStart') = Len(toStart) - 1
        /\ \A i \in 1..Len(toStart') : toStart'[i] = toStart[i + 1]
    BY <1>1, <2>1, HeadTailProperties DEF Start
  <2>3. OthersOK'
    <3>1. running' \subseteq Loops
      BY <1>0, <1>1 DEF Start, OthersOK, Loops
    <3>2. started' \in BOOLEAN
      BY <1>1 DEF Start
    <3>3. QED
      BY <1>0, <1>1, <2>2, <3>1, <3>2 DEF OthersOK, Start, config
  <2>4. toStart' # << >> => toStart'[Len(toStart')] = "started"
    <3> SUFFICES ASSUME toStart' # << >>
                 PROVE  toStart'[Len(toStart')] = "started"
      OBVIOUS
    <3>1. Len(toStart') \in 1..Len(toStart') /\ Len(toStart') + 1 = Len(toStart)
      BY <2>1, <2>2, EmptySeq
    <3>2. toStart'[Len(toStart')] = toStart[Len(toStart)]
      BY <2>2, <3>1
    <3>3. QED
      BY <1>0, <2>1, <3>2 DEF StartInOrder
  <2>5. toStart' = << >> => started'
    <3> SUFFICES ASSUME toStart' = << >>
                 PROVE  started'
      OBVIOUS
    <3>1. Len(toStart) = 1
      BY <2>1, <2>2
    <3>2. Head(toStart) = toStart[Len(toStart)]
      BY <2>1, <3>1
    <3>3. QED
      BY <1>0, <1>1, <2>1, <3>2 DEF StartInOrder, Start
  <2>6. ~(starter = "base" /\ Base \in running')
    <3>1. Base \notin WorkerSet
      BY ServerAssumption
    <3>2. QED
      BY <1>0, <1>1, <2>1, <3>1 DEF StartInOrder, Start
  <2>7. UNCHANGED <<loops, scan, starter, panicked>>
    BY <1>1 DEF Start, config
  <2>8. StartInOrder'
    BY <2>4, <2>5, <2>6, <2>7 DEF StartInOrder
  <2>9. QED
    BY <1>0, <1>b, <2>3, <2>7, <2>8 DEF SafeInv
<1>2. CASE Loop
  <2>1. OthersOK'
    BY <1>0, <1>2 DEF OthersOK, Loop, config, Loops
  <2>2. StartInOrder'
    BY <1>0, <1>2 DEF StartInOrder, Loop, config
  <2>3. QED
    BY <1>0, <1>2, <1>b, <2>1, <2>2 DEF SafeInv, Loop, config
<1>3. CASE Compare
  <2>1. UNCHANGED <<loops, strategy, starter, nextLoopIndex, toStart, started, running,
                    asks, panicked>>
    BY <1>3 DEF Compare, config
  <2>2. /\ scan.conn # {} /\ scan.i \in 2..Len(loops) /\ scan.best \in 1..Len(loops)
        /\ scan.i \in Nat /\ scan.conn \subseteq Conns
    BY <1>0, <1>3, <1>a DEF Compare, InPool, Scans
  <2> DEFINE fewer == scan.count < scan.answer
             s == [scan EXCEPT !.best = IF fewer THEN scan.i ELSE @,
                               !.i = @ + 1, !.count = NoAnswer]
  <2>3. /\ s \in Scans /\ s.conn = scan.conn /\ s.i = scan.i + 1
        /\ s.best = (IF fewer THEN scan.i ELSE scan.best)
        /\ s.best \in 1..Len(loops)
    BY <1>0, <2>2, ComparedResult DEF OthersOK
  <2>4. queue' \in [Loops -> Seq(Functor)] /\ InPool(scan)'
        /\ conn' \in [Conns -> {"none", "pending", "accepted", "queued", "up", "closed"}]
        /\ loopOf' \in [Conns -> Loops \cup {NoAnswer}]
    <3>1. CASE scan.count = NoAnswer
      <4>1. InPool([scan EXCEPT !.count = scan.answer])
        BY <1>0 DEF InPool, Scans
      <4>2. /\ Ask(loops[scan.best], [scan EXCEPT !.count = scan.answer])
            /\ UNCHANGED <<conn, loopOf>>
        BY <1>3, <3>1 DEF Compare
      <4>3. loops[scan.best] \in Loops
        BY <1>a, <2>2, PoolResult
      <4>4. QED
        BY <1>0, <2>1, <4>1, <4>2, <4>3, AskResult DEF OthersOK
    <3>2. CASE scan.count # NoAnswer /\ s.i <= Len(loops)
      <4>1. Ask(loops[s.i], s) /\ UNCHANGED <<conn, loopOf>>
        BY <1>3, <3>2 DEF Compare
      <4>2. InPool(s)
        BY <1>0, <1>a, <2>2, <2>3, <3>2 DEF InPool
      <4>3. loops[s.i] \in Loops
        BY <1>a, <2>2, <2>3, <3>2, PoolResult
      <4> HIDE DEF s
      <4>4. QED
        BY <1>0, <2>1, <4>1, <4>2, <4>3, AskResult DEF OthersOK
    <3>3. CASE scan.count # NoAnswer /\ ~(s.i <= Len(loops))
      <4>1. PICK c \in scan.conn : HandTo(loops[s.best], c)
        BY <1>3, <3>3 DEF Compare
      <4>2. loops[s.best] \in Loops /\ c \in Conns
        BY <1>a, <2>2, <2>3, PoolResult
      <4> HIDE DEF s
      <4>3. QED
        BY <1>0, <2>1, <4>1, <4>2, HandToResult
    <3>4. QED
      BY <3>1, <3>2, <3>3
  <2>5. OthersOK'
    BY <1>0, <2>1, <2>4 DEF OthersOK
  <2>6. QED
    BY <1>0, <2>1, <2>4, <2>5, StartKept DEF SafeInv
<1>4. ASSUME NEW c \in Conns, Connects(c)
      PROVE  SafeInv'
  <2>1. UNCHANGED <<loops, starter, scan, toStart, started, running, panicked>>
    BY <1>4 DEF Connects, config
  <2>2. OthersOK'
    BY <1>0, <1>4 DEF OthersOK, Connects, config
  <2>3. QED
    BY <1>0, <1>b, <2>1, <2>2, StartKept DEF SafeInv
<1>5. ASSUME NEW c \in Conns, AcceptTooEarly(c)
      PROVE  SafeInv'
  <2>1. UNCHANGED <<loops, starter, scan, toStart, started, running>>
    BY <1>5 DEF AcceptTooEarly, config
  <2>2. OthersOK'
    BY <1>0, <1>5 DEF OthersOK, AcceptTooEarly, config
  <2>3. Base \in running /\ ~started
    BY <1>5 DEF AcceptTooEarly, Readable, Free
  <2>4. starter = "other"
    <3>1. starter # "base"
      BY <1>0, <2>3 DEF StartInOrder
    <3>2. starter \in {"base", "other"}
      BY <1>0, ServerAssumption DEF OthersOK
    <3>3. QED
      BY <3>1, <3>2
  <2>5. QED
    BY <1>0, <1>b, <2>1, <2>2, <2>4, StartKept DEF SafeInv
<1>6. ASSUME NEW c \in Conns, Accept(c),
             UNCHANGED nextLoopIndex \/ nextLoopIndex' \in 1..Len(loops),
             queue' \in [Loops -> Seq(Functor)], InPool(scan)',
             conn' \in [Conns -> {"none", "pending", "accepted", "queued", "up", "closed"}],
             loopOf' \in [Conns -> Loops \cup {NoAnswer}]
      PROVE  SafeInv'
  <2>1. UNCHANGED <<loops, strategy, starter, toStart, started, running, asks, panicked>>
    BY <1>6 DEF Accept, config
  <2>2. nextLoopIndex' \in 1..(IF loops = << >> THEN 1 ELSE Len(loops))
    BY <1>0, <1>6 DEF OthersOK
  <2>3. OthersOK'
    BY <1>0, <1>6, <2>1, <2>2 DEF OthersOK
  <2>4. QED
    BY <1>0, <1>6, <2>1, <2>3, StartKept DEF SafeInv
<1>7. ASSUME NEW c \in Conns, AcceptAlone(c)
      PROVE  SafeInv'
  <2>1. Accept(c) /\ HandTo(Base, c) /\ UNCHANGED nextLoopIndex /\ loops' = loops
    BY <1>7 DEF AcceptAlone, Accept, config
  <2>2. Base \in Loops
    BY DEF Loops
  <2>3. QED
    BY <1>0, <1>6, <2>1, <2>2, HandToResult
<1>8. ASSUME NEW c \in Conns, AcceptRoundRobin(c)
      PROVE  SafeInv'
  <2>1. /\ Accept(c) /\ HandTo(loops[nextLoopIndex], c) /\ loops' = loops
        /\ nextLoopIndex' = After(nextLoopIndex) /\ loops # << >>
    BY <1>8 DEF AcceptRoundRobin, Accept, config
  <2>2. nextLoopIndex \in 1..Len(loops) /\ Len(loops) \in Nat \ {0}
    BY <1>0, <1>a, <2>1 DEF OthersOK
  <2>3. After(nextLoopIndex) \in 1..Len(loops)
    BY <2>2 DEF After
  <2>4. loops[nextLoopIndex] \in Loops
    BY <1>a, <2>2, PoolResult
  <2>5. QED
    BY <1>0, <1>6, <2>1, <2>3, <2>4, HandToResult
<1>9. ASSUME NEW c \in Conns, AcceptLeast(c)
      PROVE  SafeInv'
  <2>1. Accept(c) /\ loops' = loops /\ loops # << >> /\ UNCHANGED nextLoopIndex
    BY <1>9 DEF AcceptLeast, Accept, config
  <2>2. Len(loops) \in Nat \ {0}
    BY <1>a, <2>1, PoolResult, EmptySeq
  <2>3. CASE Len(loops) = 1
    <3>1. HandTo(loops[1], c)
      BY <1>9, <2>3 DEF AcceptLeast
    <3>2. loops[1] \in Loops
      BY <1>a, <2>2, PoolResult
    <3>3. QED
      BY <1>0, <1>6, <2>1, <3>1, <3>2, HandToResult
  <2>4. CASE Len(loops) # 1
    <3> DEFINE s == [Idle EXCEPT !.conn = {c}, !.i = 2]
    <3>0. 2 \in 1..Len(loops) /\ 2 \in 2..Len(loops) /\ 1 \in 1..Len(loops)
          /\ 2 \in 1..(Len(loops) + 1) /\ 1 \in 1..(Len(loops) + 1)
      <4>1. ASSUME NEW n \in Nat \ {0}, n # 1
            PROVE  /\ 2 \in 1..n /\ 2 \in 2..n /\ 1 \in 1..n
                   /\ 2 \in 1..(n + 1) /\ 1 \in 1..(n + 1)
        BY <4>1
      <4>2. QED
        BY <2>2, <2>4, <4>1
    <3>1. /\ conn' = [conn EXCEPT ![c] = "accepted"]
          /\ Ask(loops[2], s) /\ UNCHANGED loopOf
      BY <1>9, <2>4 DEF AcceptLeast
    <3>2. loops[2] \in Loops
      BY <1>a, <3>0, PoolResult
    <3>3. /\ s.conn = {c} /\ s.i = 2 /\ s.best = 1 /\ s.count = NoAnswer
          /\ s.answer = NoAnswer /\ s \in Scans
      BY DEF Idle, Scans, Answer
    <3>4. Cardinality({c}) = 1
      BY FS_Singleton
    <3> HIDE DEF s
    <3>5. InPool(s)
      BY <3>0, <3>3, <3>4 DEF InPool
    <3>6. queue' \in [Loops -> Seq(Functor)] /\ InPool(scan)'
      BY <1>0, <2>1, <3>1, <3>2, <3>5, AskResult
    <3>7. /\ conn' \in [Conns -> {"none", "pending", "accepted", "queued", "up", "closed"}]
          /\ loopOf' \in [Conns -> Loops \cup {NoAnswer}]
      BY <1>0, <3>1 DEF OthersOK
    <3>8. QED
      BY <1>6, <2>1, <3>6, <3>7
  <2>5. QED
    BY <2>3, <2>4
<1>10. ASSUME NEW c \in Conns, Close(c)
       PROVE  SafeInv'
  <2>1. UNCHANGED <<loops, starter, scan, toStart, started, running, panicked>>
    BY <1>10 DEF Close, config
  <2>2. OthersOK'
    BY <1>0, <1>10 DEF OthersOK, Close, config
  <2>3. QED
    BY <1>0, <1>b, <2>1, <2>2, StartKept DEF SafeInv
<1>11. ASSUME NEW l \in Loops, RunFunctor(l)
       PROVE  SafeInv'
  <2>1. UNCHANGED <<loops, strategy, starter, nextLoopIndex, toStart, started, running,
                    loopOf, asks, panicked>>
    BY <1>11 DEF RunFunctor, config
  <2>2. queue[l] \in Seq(Functor) /\ queue[l] # << >> /\ queue \in [Loops -> Seq(Functor)]
    BY <1>0, <1>11 DEF OthersOK, RunFunctor
  <2>3. queue' = [queue EXCEPT ![l] = Tail(queue[l])]
    BY <1>11, <2>2 DEF RunFunctor, Next1
  <2>4. queue' \in [Loops -> Seq(Functor)]
    BY <2>2, <2>3, HeadTailProperties
  <2>5. conn' \in [Conns -> {"none", "pending", "accepted", "queued", "up", "closed"}]
    BY <1>0, <1>11 DEF OthersOK, RunFunctor
  <2>6. scan' = scan \/ scan' = [scan EXCEPT !.answer = ChannelCount(l)]
    BY <1>11 DEF RunFunctor
  <2>7. ChannelCount(l) \in Answer
    BY CountResult DEF Answer
  <2>8. InPool(scan)'
    <3>1. InPool([scan EXCEPT !.answer = ChannelCount(l)])
      BY <1>0, <2>7 DEF InPool, Scans
    <3>2. QED
      BY <1>b, <2>1, <2>6, <3>1, InPoolLater
  <2>9. OthersOK'
    BY <1>0, <2>1, <2>4, <2>5 DEF OthersOK
  <2>10. QED
    BY <1>0, <2>1, <2>8, <2>9, StartKept DEF SafeInv
<1>12. ASSUME NEW w \in WorkerSet, AskBase(w)
       PROVE  SafeInv'
  <2> DEFINE f == [op |-> "count", from |-> w, conn |-> NoAnswer]
  <2>1. f \in Functor /\ Base \in Loops
    BY DEF Functor, Count, Loops
  <2>2. /\ UNCHANGED <<loops, strategy, starter, nextLoopIndex, scan, toStart, started,
                       running, conn, loopOf, panicked>>
        /\ queue' = [queue EXCEPT ![Base] = Append(@, f)]
        /\ asks < MaxAsks /\ asks' = asks + 1
    BY <1>12 DEF AskBase, AskBase_Anyhow, config
  <2> HIDE DEF f
  <2>3. queue \in [Loops -> Seq(Functor)]
    BY <1>0 DEF OthersOK
  <2>4. queue' \in [Loops -> Seq(Functor)]
    <3>1. Append(queue[Base], f) \in Seq(Functor)
      BY <2>1, <2>3, AppendProperties
    <3>2. QED
      BY <2>1, <2>2, <2>3, <3>1
  <2>5. asks' \in 0..MaxAsks
    BY <1>0, <2>2, ServerAssumption DEF OthersOK
  <2>6. OthersOK'
    BY <1>0, <2>2, <2>4, <2>5 DEF OthersOK
  <2>7. QED
    BY <1>0, <1>b, <2>2, <2>6, StartKept DEF SafeInv
<1>13. CASE UNCHANGED vars
  <2>1. OthersOK' /\ UNCHANGED <<loops, scan, starter, toStart, started, running, panicked>>
    BY <1>0, <1>13 DEF OthersOK, vars, config
  <2>2. QED
    BY <1>0, <1>b, <2>1, StartKept DEF SafeInv
<1>14. QED
  BY <1>1, <1>2, <1>3, <1>4, <1>5, <1>7, <1>8, <1>9, <1>10, <1>11, <1>12, <1>13
  DEF Next, HandleRead

\* getNext() finds a loop of the pool for every connection, with its index in
\* range (load_balance.go), and its panic (eventloop_goroutine_poll.go) is
\* reached only if Start() is called from outside the running base loop.
THEOREM GetNextIsSafe == Spec => []GetNextSafe
<1>1. SafeInv => GetNextSafe
  BY TypeOKParts DEF SafeInv, GetNextSafe
<1>2. QED
  BY <1>1, SafeInvInitially, SafeInvKept, PTL DEF Spec

-----------------------------------------------------------------------------
(* What LoopsAreExecutors rests on: a goroutine has at most one question   *)
(* in all the queues, and while the base loop has one, its scan is waiting *)
(* for the answer.  So nobody submits while blocked, and a functor that    *)
(* answers releases the goroutine that asked.                              *)

Question(q, i, g) == i \in DOMAIN q /\ q[i].op = "count" /\ q[i].from = g

OneQuestion ==
    \A l, m \in Loops : \A i, j : \A g :
        Question(queue[l], i, g) /\ Question(queue[m], j, g) => l = m /\ i = j

BaseWaits == Blocked(Base) => scan.conn # {} /\ scan.answer = NoAnswer

LEMMA BlockedResult ==
    ASSUME NEW g
    PROVE  Blocked(g) <=> \E l \in Loops : \E i : Question(queue[l], i, g)
BY DEF Blocked, Question

\* The questions in a queue with one more functor.
LEMMA QuestionAppend ==
    ASSUME NEW q \in Seq(Functor), NEW f \in Functor, NEW i, NEW g
    PROVE  Question(Append(q, f), i, g) <=>
              \/ Question(q, i, g)
              \/ i = Len(q) + 1 /\ f.op = "count" /\ f.from = g
<1>1. /\ DOMAIN q = 1..Len(q) /\ Len(q) \in Nat
      /\ DOMAIN Append(q, f) = 1..(Len(q) + 1)
      /\ \A k \in 1..Len(q) : Append(q, f)[k] = q[k]
      /\ Append(q, f)[Len(q) + 1] = f
  BY LenProperties, AppendProperties
<1>2. QED
  BY <1>1 DEF Question

\* The questions in a queue whose oldest functor is gone.
LEMMA QuestionTail ==
    ASSUME NEW q \in Seq(Functor), q # << >>, NEW i, NEW g
    PROVE  Question(Tail(q), i, g) => i \in Nat \ {0} /\ Question(q, i + 1, g)
<1>1. /\ DOMAIN q = 1..Len(q) /\ Len(q) \in Nat
      /\ DOMAIN Tail(q) = 1..(Len(q) - 1)
      /\ \A k \in 1..(Len(q) - 1) : Tail(q)[k] = q[k + 1]
  BY LenProperties, HeadTailProperties
<1>2. QED
  BY <1>1 DEF Question

Waiters(q) == {q[i].from : i \in {k \in DOMAIN q : q[k].op = "count"}}

LEMMA WaitersResult ==
    ASSUME NEW q, NEW g
    PROVE  g \in Waiters(q) <=> \E i : Question(q, i, g)
BY DEF Waiters, Question

\* A functor of a goroutine that is not blocked is submitted to loop l.
LEMMA SubmitIsStep ==
    ASSUME OthersOK, NEW l \in Loops, NEW f \in Functor, ~Blocked(f.from),
           queue' = [queue EXCEPT ![l] = Append(@, f)]
    PROVE  \A m \in Loops : Executor(m)!Next \/ UNCHANGED queue[m]
<1> SUFFICES ASSUME NEW m \in Loops
             PROVE  Executor(m)!Next \/ UNCHANGED queue[m]
  OBVIOUS
<1>1. queue \in [Loops -> Seq(Functor)]
  BY DEF OthersOK
<1>2. CASE m # l
  BY <1>1, <1>2
<1>3. CASE m = l
  <2>1. queue[m]' = Append(queue[m], f) /\ queue[m] \in Seq(Functor)
    BY <1>1, <1>3
  <2>2. f.from \notin Waiters(queue[m])
    BY BlockedResult, WaitersResult
  <2>3. f \in Count <=> f.op = "count"
    BY DEF Functor, Count
  <2>4. Waiters(queue[m])' = IF f \in Count THEN Waiters(queue[m]) \cup {f.from}
                                           ELSE Waiters(queue[m])
    <3>1. \A g : g \in Waiters(Append(queue[m], f)) <=>
                    g \in Waiters(queue[m]) \/ (f.op = "count" /\ f.from = g)
      <4> SUFFICES ASSUME NEW g
                   PROVE  g \in Waiters(Append(queue[m], f)) <=>
                            g \in Waiters(queue[m]) \/ (f.op = "count" /\ f.from = g)
        OBVIOUS
      <4>1. \A i : Question(Append(queue[m], f), i, g) <=>
                      \/ Question(queue[m], i, g)
                      \/ i = Len(queue[m]) + 1 /\ f.op = "count" /\ f.from = g
        BY <2>1, QuestionAppend
      <4>2. /\ g \in Waiters(Append(queue[m], f))
                  <=> \E i : Question(Append(queue[m], f), i, g)
            /\ g \in Waiters(queue[m]) <=> \E i : Question(queue[m], i, g)
        BY WaitersResult
      <4>3. QED
        BY <4>1, <4>2
    <3>2. Waiters(queue[m])' = Waiters(Append(queue[m], f))
      BY <2>1 DEF Waiters
    <3>3. CASE f.op = "count"
      <4>1. Waiters(Append(queue[m], f)) = Waiters(queue[m]) \cup {f.from}
        BY <3>1, <3>3
      <4>2. QED
        BY <2>3, <3>2, <3>3, <4>1
    <3>4. CASE f.op # "count"
      <4>1. Waiters(Append(queue[m], f)) = Waiters(queue[m])
        BY <3>1, <3>4
      <4>2. QED
        BY <2>3, <3>2, <3>4, <4>1
    <3>5. QED
      BY <3>3, <3>4
  <2>5. Executor(m)!Submit(f)
    BY <2>1, <2>2, <2>4 DEF Executor!Submit, Waiters
  <2>6. QED
    BY <2>5 DEF Executor!Next
<1>4. QED
  BY <1>2, <1>3

\* Loop l runs its oldest functor.
LEMMA RunIsStep ==
    ASSUME OthersOK, OneQuestion, NEW l \in Loops, queue[l] # << >>,
           queue' = [queue EXCEPT ![l] = Tail(queue[l])]
    PROVE  \A m \in Loops : Executor(m)!Next \/ UNCHANGED queue[m]
<1> SUFFICES ASSUME NEW m \in Loops
             PROVE  Executor(m)!Next \/ UNCHANGED queue[m]
  OBVIOUS
<1>1. queue \in [Loops -> Seq(Functor)]
  BY DEF OthersOK
<1>2. CASE m # l
  BY <1>1, <1>2
<1>3. CASE m = l
  <2> DEFINE q == queue[m]
             f == Head(q)
  <2>1. queue[m]' = Tail(q) /\ q \in Seq(Functor) /\ q # << >>
    BY <1>1, <1>3
  <2>2. \A i, j : \A g : Question(q, i, g) /\ Question(q, j, g) => i = j
    BY DEF OneQuestion
  <2> HIDE DEF q
  <2>3. f \in Functor
    BY <2>1, HeadTailProperties
  <2>4. f \in Count <=> f.op = "count"
    BY <2>3 DEF Functor, Count
  <2>5. /\ DOMAIN q = 1..Len(q) /\ Len(q) \in Nat \ {0} /\ f = q[1]
        /\ DOMAIN Tail(q) = 1..(Len(q) - 1)
        /\ \A k \in 1..(Len(q) - 1) : Tail(q)[k] = q[k + 1]
    BY <2>1, LenProperties, EmptySeq, HeadTailProperties
  <2>6. ASSUME NEW g
        PROVE  g \in Waiters(Tail(q)) <=>
                 g \in Waiters(q) /\ ~(f.op = "count" /\ f.from = g)
    <3>1. ASSUME NEW i, Question(Tail(q), i, g)
          PROVE  i \in Nat \ {0} /\ Question(q, i + 1, g)
      BY <2>1, <3>1, QuestionTail
    <3>2. Question(q, 1, g) <=> f.op = "count" /\ f.from = g
      BY <2>5 DEF Question
    <3>3. ASSUME NEW i, Question(q, i, g), i # 1
          PROVE  Question(Tail(q), i - 1, g)
      BY <2>5, <3>3 DEF Question
    <3>4. ASSUME NEW i, Question(Tail(q), i, g), Question(q, 1, g)
          PROVE  FALSE
      <4>1. i \in Nat \ {0} /\ Question(q, i + 1, g)
        BY <3>1, <3>4
      <4>2. i + 1 = 1
        BY <2>2, <3>4, <4>1
      <4>3. QED
        BY <4>1, <4>2
    <3>5. /\ g \in Waiters(Tail(q)) <=> \E i : Question(Tail(q), i, g)
          /\ g \in Waiters(q) <=> \E i : Question(q, i, g)
      BY WaitersResult
    <3>6. QED
      BY <3>1, <3>2, <3>3, <3>4, <3>5
  <2>7. Waiters(queue[m])' = IF f \in Count THEN Waiters(q) \ {f.from} ELSE Waiters(q)
    <3>1. Waiters(queue[m])' = Waiters(Tail(q))
      BY <2>1 DEF Waiters
    <3>2. CASE f.op = "count"
      <4>1. Waiters(Tail(q)) = Waiters(q) \ {f.from}
        BY <2>6, <3>2
      <4>2. QED
        BY <2>4, <3>1, <3>2, <4>1
    <3>3. CASE f.op # "count"
      <4>1. Waiters(Tail(q)) = Waiters(q)
        BY <2>6, <3>3
      <4>2. QED
        BY <2>4, <3>1, <3>3, <4>1
    <3>4. QED
      BY <3>2, <3>3
  <2>8. Executor(m)!RunOldest
    BY <2>1, <2>7 DEF Executor!RunOldest, Waiters, q
  <2>9. QED
    BY <2>8 DEF Executor!Next
<1>4. QED
  BY <1>2, <1>3

\* A question of somebody who has none keeps OneQuestion, and so does
\* anything that is not a question.
LEMMA OneQuestionSubmit ==
    ASSUME OthersOK, OneQuestion, NEW l \in Loops, NEW f \in Functor,
           ~Blocked(f.from), queue' = [queue EXCEPT ![l] = Append(@, f)]
    PROVE  /\ OneQuestion'
           /\ \A g : Blocked(g)' <=> Blocked(g) \/ (f.op = "count" /\ g = f.from)
<1>1. queue \in [Loops -> Seq(Functor)]
  BY DEF OthersOK
<1>2. \A m \in Loops : queue'[m] = IF m = l THEN Append(queue[l], f) ELSE queue[m]
  BY <1>1
<1>3. ASSUME NEW m \in Loops, NEW i, NEW g
      PROVE  Question(queue'[m], i, g) <=>
                \/ Question(queue[m], i, g)
                \/ m = l /\ i = Len(queue[l]) + 1 /\ f.op = "count" /\ f.from = g
  BY <1>1, <1>2, QuestionAppend
<1>4. \A m \in Loops : \A i : ~Question(queue[m], i, f.from)
  BY BlockedResult
<1>5. OneQuestion'
  <2> SUFFICES ASSUME NEW m \in Loops, NEW n \in Loops, NEW i, NEW j, NEW g,
                      Question(queue'[m], i, g), Question(queue'[n], j, g)
               PROVE  m = n /\ i = j
    BY DEF OneQuestion
  <2>1. CASE g = f.from
    <3>1. ~Question(queue[m], i, g) /\ ~Question(queue[n], j, g)
      BY <1>4, <2>1
    <3>2. m = l /\ i = Len(queue[l]) + 1
      BY <1>3, <3>1
    <3>3. n = l /\ j = Len(queue[l]) + 1
      BY <1>3, <3>1
    <3>4. QED
      BY <3>2, <3>3
  <2>2. CASE g # f.from
    <3>1. Question(queue[m], i, g) /\ Question(queue[n], j, g)
      BY <1>3, <2>2
    <3>2. QED
      BY <3>1 DEF OneQuestion
  <2>3. QED
    BY <2>1, <2>2
<1>6. ASSUME NEW g
      PROVE  Blocked(g)' <=> Blocked(g) \/ (f.op = "count" /\ g = f.from)
  <2>1. Blocked(g)' <=> \E m \in Loops : \E i : Question(queue'[m], i, g)
    BY DEF Blocked, Question
  <2>2. QED
    BY <1>3, <2>1, BlockedResult
<1>7. QED
  BY <1>5, <1>6

\* Running the oldest functor keeps OneQuestion and releases who asked.
LEMMA OneQuestionRun ==
    ASSUME OthersOK, OneQuestion, NEW l \in Loops, queue[l] # << >>,
           queue' = [queue EXCEPT ![l] = Tail(queue[l])],
           NEW f, f = Head(queue[l])
    PROVE  /\ OneQuestion'
           /\ \A g : Blocked(g)' => Blocked(g)
           /\ f.op = "count" => ~Blocked(f.from)'
<1>1. queue \in [Loops -> Seq(Functor)]
  BY DEF OthersOK
<1>2. \A m \in Loops : queue'[m] = IF m = l THEN Tail(queue[l]) ELSE queue[m]
  BY <1>1
<1>3. ASSUME NEW m \in Loops, NEW i, NEW g, Question(queue'[m], i, g)
      PROVE  IF m = l THEN i \in Nat \ {0} /\ Question(queue[l], i + 1, g)
                      ELSE Question(queue[m], i, g)
  BY <1>1, <1>2, <1>3, QuestionTail
<1>4. OneQuestion'
  <2> SUFFICES ASSUME NEW m \in Loops, NEW n \in Loops, NEW i, NEW j, NEW g,
                      Question(queue'[m], i, g), Question(queue'[n], j, g)
               PROVE  m = n /\ i = j
    BY DEF OneQuestion
  <2>1. m = n
    <3>1. \E k : Question(queue[m], k, g)
      BY <1>3
    <3>2. \E k : Question(queue[n], k, g)
      BY <1>3
    <3>3. QED
      BY <3>1, <3>2 DEF OneQuestion
  <2>2. CASE m = l
    <3>1. /\ i \in Nat \ {0} /\ Question(queue[l], i + 1, g)
          /\ j \in Nat \ {0} /\ Question(queue[l], j + 1, g)
      BY <1>3, <2>1, <2>2
    <3>2. i + 1 = j + 1
      BY <3>1 DEF OneQuestion
    <3>3. QED
      BY <2>1, <3>1, <3>2
  <2>3. CASE m # l
    BY <1>3, <2>1, <2>3 DEF OneQuestion
  <2>4. QED
    BY <2>2, <2>3
<1>5. ASSUME NEW g, Blocked(g)'
      PROVE  Blocked(g)
  <2>0. PICK m \in Loops : \E i \in DOMAIN queue'[m] : Question(queue'[m], i, g)
    BY <1>5 DEF Blocked, Question
  <2>1. PICK i : Question(queue'[m], i, g)
    BY <2>0
  <2>2. QED
    BY <1>3, <2>1, BlockedResult
<1>6. ASSUME f.op = "count", Blocked(f.from)'
      PROVE  FALSE
  <2> DEFINE g == f.from
  <2>0. PICK m \in Loops : \E i \in DOMAIN queue'[m] : Question(queue'[m], i, g)
    BY <1>6 DEF Blocked, Question
  <2>1. PICK i : Question(queue'[m], i, g)
    BY <2>0
  <2>2. Question(queue[l], 1, g)
    <3>1. /\ DOMAIN queue[l] = 1..Len(queue[l]) /\ Len(queue[l]) \in Nat \ {0}
          /\ Head(queue[l]) = queue[l][1]
      BY <1>1, LenProperties, EmptySeq
    <3>2. QED
      BY <1>6, <3>1 DEF Question
  <2> HIDE DEF g
  <2>3. IF m = l THEN i \in Nat \ {0} /\ Question(queue[l], i + 1, g)
                 ELSE Question(queue[m], i, g)
    BY <1>3, <2>1
  <2>4. m = l
    BY <2>2, <2>3 DEF OneQuestion
  <2>5. i + 1 = 1 /\ i \in Nat \ {0}
    BY <2>2, <2>3, <2>4 DEF OneQuestion
  <2>6. QED
    BY <2>5
<1>7. QED
  BY <1>4, <1>5, <1>6

LoopSteps == \A l \in Loops : Executor(l)!Next \/ UNCHANGED queue[l]

LEMMA QueueSame ==
    ASSUME OneQuestion, queue' = queue
    PROVE  /\ OneQuestion' /\ LoopSteps
           /\ \A g : Blocked(g)' <=> Blocked(g)
<1>1. OneQuestion'
  BY DEF OneQuestion
<1>2. LoopSteps
  BY DEF LoopSteps
<1>3. \A g : Blocked(g)' <=> Blocked(g)
  BY DEF Blocked
<1>4. QED
  BY <1>1, <1>2, <1>3

\* The base loop, when it is not blocked, asks a loop for a count.
LEMMA AskStep ==
    ASSUME OthersOK, OneQuestion, ~Blocked(Base), NEW l \in Loops, NEW s \in Scans,
           s.conn # {}, Ask(l, s)
    PROVE  OneQuestion' /\ BaseWaits' /\ LoopSteps
<1> DEFINE f == [op |-> "count", from |-> Base, conn |-> NoAnswer]
<1>1. f \in Functor /\ f.from = Base
  BY DEF Functor, Count, Loops
<1>2. queue' = [queue EXCEPT ![l] = Append(@, f)] /\ scan' = [s EXCEPT !.answer = NoAnswer]
  BY DEF Ask
<1> HIDE DEF f
<1>3. scan'.conn = s.conn /\ scan'.answer = NoAnswer
  BY <1>2 DEF Scans
<1>4. BaseWaits'
  BY <1>3 DEF BaseWaits
<1>5. OneQuestion'
  BY <1>1, <1>2, OneQuestionSubmit
<1>6. LoopSteps
  BY <1>1, <1>2, SubmitIsStep DEF LoopSteps
<1>7. QED
  BY <1>4, <1>5, <1>6

\* The base loop, when it is not blocked, hands over a connection.
LEMMA HandToStep ==
    ASSUME OthersOK, OneQuestion, ~Blocked(Base), NEW l \in Loops, NEW c \in Conns,
           HandTo(l, c)
    PROVE  OneQuestion' /\ BaseWaits' /\ LoopSteps
<1>1. CASE l = Base
  <2>1. queue' = queue
    BY <1>1 DEF HandTo
  <2>2. QED
    BY <2>1, QueueSame DEF BaseWaits
<1>2. CASE l # Base
  <2> DEFINE f == [op |-> "establish", from |-> Base, conn |-> c]
  <2>1. f \in Functor /\ f.from = Base /\ f.op # "count"
    BY DEF Functor
  <2>2. queue' = [queue EXCEPT ![l] = Append(@, f)]
    BY <1>2 DEF HandTo
  <2> HIDE DEF f
  <2>3. OneQuestion' /\ ~Blocked(Base)'
    BY <2>1, <2>2, OneQuestionSubmit
  <2>4. LoopSteps
    BY <2>1, <2>2, SubmitIsStep DEF LoopSteps
  <2>5. QED
    BY <2>3, <2>4 DEF BaseWaits
<1>3. QED
  BY <1>1, <1>2

LEMMA LoopStepsKept ==
    ASSUME SafeInv, OneQuestion, BaseWaits, [Next]_vars
    PROVE  OneQuestion' /\ BaseWaits' /\ LoopSteps
<1>0. OthersOK /\ InPool(scan) /\ scan \in Scans /\ loops \in Pools
  BY DEF SafeInv, InPool, OthersOK
<1>a. ASSUME UNCHANGED <<queue, scan>>
      PROVE  OneQuestion' /\ BaseWaits' /\ LoopSteps
  BY <1>a, QueueSame DEF BaseWaits
<1>1. CASE Start \/ Loop
  BY <1>1, <1>a DEF Start, Loop
<1>2. ASSUME NEW c \in Conns, Connects(c) \/ AcceptTooEarly(c) \/ Close(c)
      PROVE  OneQuestion' /\ BaseWaits' /\ LoopSteps
  BY <1>2, <1>a DEF Connects, AcceptTooEarly, Close
<1>3. ASSUME NEW c \in Conns, Accept(c)
      PROVE  ~Blocked(Base)
  BY <1>3 DEF Accept, Readable, Free
<1>4. ASSUME NEW c \in Conns, AcceptAlone(c)
      PROVE  OneQuestion' /\ BaseWaits' /\ LoopSteps
  <2>1. Accept(c) /\ HandTo(Base, c) /\ Base \in Loops
    BY <1>4 DEF AcceptAlone, Loops
  <2>2. QED
    BY <1>0, <1>3, <2>1, HandToStep
<1>5. ASSUME NEW c \in Conns, AcceptRoundRobin(c)
      PROVE  OneQuestion' /\ BaseWaits' /\ LoopSteps
  <2>1. Accept(c) /\ HandTo(loops[nextLoopIndex], c) /\ loops # << >>
    BY <1>5 DEF AcceptRoundRobin
  <2>2. nextLoopIndex \in 1..Len(loops)
    BY <1>0, <2>1 DEF OthersOK
  <2>3. loops[nextLoopIndex] \in Loops
    BY <1>0, <2>2, PoolResult
  <2>4. QED
    BY <1>0, <1>3, <2>1, <2>3, HandToStep
<1>6. ASSUME NEW c \in Conns, AcceptLeast(c)
      PROVE  OneQuestion' /\ BaseWaits' /\ LoopSteps
  <2>1. Accept(c) /\ loops # << >>
    BY <1>6 DEF AcceptLeast
  <2>2. Len(loops) \in Nat \ {0}
    BY <1>0, <2>1, PoolResult, EmptySeq
  <2>3. CASE Len(loops) = 1
    <3>1. HandTo(loops[1], c)
      BY <1>6, <2>3 DEF AcceptLeast
    <3>2. loops[1] \in Loops
      BY <1>0, <2>2, PoolResult
    <3>3. QED
      BY <1>0, <1>3, <2>1, <3>1, <3>2, HandToStep
  <2>4. CASE Len(loops) # 1
    <3> DEFINE s == [Idle EXCEPT !.conn = {c}, !.i = 2]
    <3>1. Ask(loops[2], s)
      BY <1>6, <2>4 DEF AcceptLeast
    <3>2. 2 \in 1..Len(loops)
      <4>1. ASSUME NEW n \in Nat \ {0}, n # 1
            PROVE  2 \in 1..n
        BY <4>1
      <4>2. QED
        BY <2>2, <2>4, <4>1
    <3>3. loops[2] \in Loops
      BY <1>0, <3>2, PoolResult
    <3>4. s \in Scans /\ s.conn # {}
      BY DEF Idle, Scans, Answer
    <3> HIDE DEF s
    <3>5. QED
      BY <1>0, <1>3, <2>1, <3>1, <3>3, <3>4, AskStep
  <2>5. QED
    BY <2>3, <2>4
<1>7. CASE Compare
  <2> DEFINE fewer == scan.count < scan.answer
             s == [scan EXCEPT !.best = IF fewer THEN scan.i ELSE @,
                               !.i = @ + 1, !.count = NoAnswer]
             t == [scan EXCEPT !.count = scan.answer]
  <2>1. ~Blocked(Base) /\ scan.conn # {}
    BY <1>7 DEF Compare, BaseWaits
  <2>2. scan.i \in 2..Len(loops) /\ scan.best \in 1..Len(loops) /\ Len(loops) \in Nat
    BY <1>0, <2>1, PoolResult DEF InPool
  <2>3. CASE scan.count = NoAnswer
    <3>1. Ask(loops[scan.best], t)
      BY <1>7, <2>3 DEF Compare
    <3>2. t \in Scans /\ t.conn # {}
      BY <1>0, <2>1 DEF Scans
    <3>3. loops[scan.best] \in Loops
      BY <1>0, <2>2, PoolResult
    <3> HIDE DEF t
    <3>4. QED
      BY <1>0, <2>1, <3>1, <3>2, <3>3, AskStep
  <2>4. CASE scan.count # NoAnswer
    <3>1. IF s.i <= Len(loops) THEN Ask(loops[s.i], s)
                               ELSE \E c \in scan.conn : HandTo(loops[s.best], c)
      BY <1>7, <2>4 DEF Compare
    <3>2. /\ s \in Scans /\ s.conn = scan.conn /\ s.i = scan.i + 1
          /\ s.best \in 1..Len(loops)
      BY <1>0, <2>1, ComparedResult
    <3>4. s.best \in 1..Len(loops) /\ s.i \in Nat \ {0}
      BY <2>2, <3>2
    <3>5. loops[s.best] \in Loops
      BY <1>0, <3>4, PoolResult
    <3>6. s.i <= Len(loops) => loops[s.i] \in Loops
      BY <1>0, <2>2, <3>4, PoolResult
    <3>7. scan.conn \subseteq Conns
      BY <1>0 DEF Scans
    <3> HIDE DEF s
    <3>8. CASE s.i <= Len(loops)
      BY <1>0, <2>1, <3>1, <3>2, <3>6, <3>8, AskStep
    <3>9. CASE ~(s.i <= Len(loops))
      <4>1. PICK c \in Conns : HandTo(loops[s.best], c)
        BY <3>1, <3>7, <3>9
      <4>2. QED
        BY <1>0, <2>1, <3>5, <4>1, HandToStep
    <3>10. QED
      BY <3>8, <3>9
  <2>5. QED
    BY <2>3, <2>4
<1>8. ASSUME NEW l \in Loops, RunFunctor(l)
      PROVE  OneQuestion' /\ BaseWaits' /\ LoopSteps
  <2>1. PICK f : f = Head(queue[l])
    OBVIOUS
  <2>2. queue[l] \in Seq(Functor) /\ queue[l] # << >> /\ queue \in [Loops -> Seq(Functor)]
    BY <1>0, <1>8 DEF OthersOK, RunFunctor
  <2>3. queue' = [queue EXCEPT ![l] = Tail(queue[l])]
    BY <1>8, <2>2 DEF RunFunctor, Next1
  <2>4. /\ OneQuestion' /\ (Blocked(Base)' => Blocked(Base))
        /\ f.op = "count" => ~Blocked(f.from)'
    BY <1>0, <2>1, <2>2, <2>3, OneQuestionRun
  <2>5. LoopSteps
    BY <1>0, <2>2, <2>3, RunIsStep DEF LoopSteps
  <2>6. f \in Functor
    BY <2>1, <2>2, HeadTailProperties
  <2>7. CASE f.op = "count" /\ f.from = Base
    BY <2>4, <2>5, <2>7 DEF BaseWaits
  <2>8. CASE ~(f.op = "count" /\ f.from = Base)
    <3>1. f.op = "establish" \/ f.op = "count"
      BY <2>6 DEF Functor, Count
    <3>2. scan' = scan
      BY <1>8, <2>1, <2>8, <3>1 DEF RunFunctor, Next1
    <3>3. QED
      BY <2>4, <2>5, <3>2 DEF BaseWaits
  <2>9. QED
    BY <2>7, <2>8
<1>9. ASSUME NEW w \in WorkerSet, AskBase(w)
      PROVE  OneQuestion' /\ BaseWaits' /\ LoopSteps
  <2> DEFINE f == [op |-> "count", from |-> w, conn |-> NoAnswer]
  <2>1. f \in Functor /\ f.from = w /\ Base \in Loops /\ w # Base
    BY ServerAssumption DEF Functor, Count, Loops
  <2>2. queue' = [queue EXCEPT ![Base] = Append(@, f)] /\ scan' = scan /\ ~Blocked(w)
    BY <1>9 DEF AskBase, AskBase_Anyhow, Free
  <2> HIDE DEF f
  <2>3. OneQuestion' /\ (Blocked(Base)' <=> Blocked(Base))
    BY <1>0, <2>1, <2>2, OneQuestionSubmit
  <2>4. LoopSteps
    BY <1>0, <2>1, <2>2, SubmitIsStep DEF LoopSteps
  <2>5. QED
    BY <2>2, <2>3, <2>4 DEF BaseWaits
<1>10. CASE UNCHANGED vars
  BY <1>10, <1>a DEF vars
<1>11. QED
  BY <1>1, <1>2, <1>4, <1>5, <1>6, <1>7, <1>8, <1>9, <1>10 DEF Next, HandleRead

LEMMA QuestionsInitially == Init => OneQuestion /\ BaseWaits
<1> SUFFICES ASSUME Init
             PROVE  OneQuestion /\ BaseWaits
  OBVIOUS
<1>1. \A l \in Loops : \A i, g : ~Question(queue[l], i, g)
  BY DEF Init, Question
<1>2. OneQuestion
  BY <1>1 DEF OneQuestion
<1>3. BaseWaits
  BY <1>1, BlockedResult DEF BaseWaits
<1>4. QED
  BY <1>2, <1>3

\* Every loop, the base loop included, is used in the way that an event loop
\* supports (LoopExecutor): its functors run in the order of the RunInLoop()
\* calls, each once, and whoever waits for an answer submits nothing more.
THEOREM ServerUsesLoops == Spec => LoopsAreExecutors
<1>1. Init => \A l \in Loops : Executor(l)!Init
  BY DEF Init, Executor!Init
<1>2. SafeInv /\ OneQuestion /\ BaseWaits /\ [Next]_vars
        => OneQuestion' /\ BaseWaits' /\ [LoopSteps]_vars
  BY LoopStepsKept
<1>3. QED
  BY <1>1, <1>2, QuestionsInitially, SafeInvInitially, SafeInvKept, PTL
  DEF Spec, LoopsAreExecutors, LoopSteps

-----------------------------------------------------------------------------
(* The strengthening of Balanced.  A connection is handed to a loop once,  *)
(* and its establishConn waits there until the connection is up.  The base *)
(* loop's question is behind all of these in its queue, so that the answer *)
(* counts what the loop was handed, not only what it has established.      *)

Establish(q, i, c) == i \in DOMAIN q /\ q[i].op = "establish" /\ q[i].conn = c

HandedOK ==
    /\ \A c \in Conns : loopOf[c] # NoAnswer <=> conn[c] \in {"queued", "up", "closed"}
    /\ \A l \in Loops : \A c \in Conns : \A i :
          Establish(queue[l], i, c) => conn[c] = "queued" /\ loopOf[c] = l
    /\ \A l \in Loops : \A c \in Conns : \A i, j :
          Establish(queue[l], i, c) /\ Establish(queue[l], j, c) => i = j
    /\ \A c \in Conns : conn[c] = "queued" => \E i : Establish(queue[loopOf[c]], i, c)
    /\ \A c \in scan.conn : conn[c] = "accepted"

\* The loop that was asked last, and a question behind all connections.
Asked == IF scan.count = NoAnswer THEN loops[scan.i] ELSE loops[scan.best]
Behind(q, i) == /\ Question(q, i, Base)
                /\ \A j : \A c \in Conns : Establish(q, j, c) => j < i

ScanOK ==
    scan.conn # {} =>
        /\ strategy = "LeastConnection"
        /\ scan.answer = NoAnswer => \E i : Behind(queue[Asked], i)

NoneClosed == \A c \in Conns : conn[c] # "closed"

\* The answers so far, and the best loop among those compared.
CountsOK ==
    scan.conn # {} /\ NoneClosed =>
        /\ scan.answer # NoAnswer => scan.answer = Handed(Asked)
        /\ scan.count # NoAnswer => scan.count = Handed(loops[scan.i])
        /\ \A j \in 1..(scan.i - 1) : Handed(loops[scan.best]) <= Handed(loops[j])

\* The loops before nextLoopIndex are one connection ahead.
InTurn ==
    \E k \in Nat : \A i \in 1..Len(loops) :
        Handed(loops[i]) = IF i < nextLoopIndex THEN k + 1 ELSE k
Level == \A i, j \in 1..Len(loops) : Handed(loops[i]) <= Handed(loops[j]) + 1

EvenOK ==
    /\ strategy = "RoundRobin" => InTurn
    /\ strategy = "LeastConnection" /\ NoneClosed => Level

BalanceInv == HandedOK /\ ScanOK /\ CountsOK /\ EvenOK

LEMMA HandedType ==
    ASSUME NEW l
    PROVE  Handed(l) \in Nat
<1>1. {c \in Conns : loopOf[c] = l} \in SUBSET Conns
  OBVIOUS
<1>2. IsFiniteSet({c \in Conns : loopOf[c] = l})
  BY <1>1, ConnsFinite, FS_Subset
<1>3. QED
  BY <1>2, FS_CardinalityType DEF Handed

LEMMA EstablishAppend ==
    ASSUME NEW q \in Seq(Functor), NEW f \in Functor, NEW i, NEW c
    PROVE  Establish(Append(q, f), i, c) <=>
              \/ Establish(q, i, c)
              \/ i = Len(q) + 1 /\ f.op = "establish" /\ f.conn = c
<1>1. /\ DOMAIN q = 1..Len(q) /\ Len(q) \in Nat
      /\ DOMAIN Append(q, f) = 1..(Len(q) + 1)
      /\ \A k \in 1..Len(q) : Append(q, f)[k] = q[k]
      /\ Append(q, f)[Len(q) + 1] = f
  BY LenProperties, AppendProperties
<1>2. QED
  BY <1>1 DEF Establish

LEMMA EstablishTail ==
    ASSUME NEW q \in Seq(Functor), q # << >>, NEW c
    PROVE  /\ \A i : Establish(Tail(q), i, c) => i \in Nat \ {0} /\ Establish(q, i + 1, c)
           /\ \A i : Establish(q, i, c) => \/ i = 1 /\ Head(q).op = "establish" /\ Head(q).conn = c
                                           \/ i \in Nat /\ i > 1 /\ Establish(Tail(q), i - 1, c)
           /\ Head(q).op = "establish" /\ Head(q).conn = c => Establish(q, 1, c)
<1>1. /\ DOMAIN q = 1..Len(q) /\ Len(q) \in Nat /\ Len(q) # 0 /\ Head(q) = q[1]
      /\ DOMAIN Tail(q) = 1..(Len(q) - 1)
      /\ \A k \in 1..(Len(q) - 1) : Tail(q)[k] = q[k + 1]
  BY LenProperties, HeadTailProperties, EmptySeq
<1>2. ASSUME NEW i, Establish(Tail(q), i, c)
      PROVE  i \in Nat \ {0} /\ Establish(q, i + 1, c)
  BY <1>1, <1>2 DEF Establish
<1>3. ASSUME NEW i, Establish(q, i, c)
      PROVE  \/ i = 1 /\ Head(q).op = "establish" /\ Head(q).conn = c
             \/ i \in Nat /\ i > 1 /\ Establish(Tail(q), i - 1, c)
  <2>1. i \in 1..Len(q) /\ q[i].op = "establish" /\ q[i].conn = c
    BY <1>1, <1>3 DEF Establish
  <2>2. CASE i = 1
    BY <1>1, <2>1, <2>2
  <2>3. CASE i # 1
    <3>1. i - 1 \in 1..(Len(q) - 1) /\ (i - 1) + 1 = i /\ i > 1 /\ i \in Nat
      BY <1>1, <2>1, <2>3
    <3>2. QED
      BY <1>1, <2>1, <3>1 DEF Establish
  <2>4. QED
    BY <2>2, <2>3
<1>4. Head(q).op = "establish" /\ Head(q).conn = c => Establish(q, 1, c)
  BY <1>1 DEF Establish
<1>5. QED
  BY <1>2, <1>3, <1>4

\* A step that hands nothing over.
LEMMA EvenSame ==
    ASSUME EvenOK, UNCHANGED <<config, nextLoopIndex, loopOf>>, NoneClosed' => NoneClosed
    PROVE  EvenOK'
<1>1. \A l : Handed(l)' = Handed(l)
  BY DEF Handed
<1>2. loops' = loops /\ strategy' = strategy /\ nextLoopIndex' = nextLoopIndex
  BY DEF config
<1>3. (InTurn => InTurn') /\ (Level => Level')
  BY <1>1, <1>2 DEF InTurn, Level
<1>4. QED
  BY <1>2, <1>3 DEF EvenOK

\* Nor does it end the scan.
LEMMA CountsSame ==
    ASSUME CountsOK, UNCHANGED <<config, loopOf, scan>>, NoneClosed' => NoneClosed
    PROVE  CountsOK'
<1>1. \A l : Handed(l)' = Handed(l)
  BY DEF Handed
<1>2. loops' = loops /\ scan' = scan /\ Asked' = Asked
  BY DEF config, Asked
<1>3. QED
  BY <1>1, <1>2 DEF CountsOK

\* The connections are where they were, up to the steps before "queued" and
\* after "up", and so are the establishConns.
LEMMA HandedSame ==
    ASSUME OthersOK, HandedOK, loopOf' = loopOf,
           \A l \in Loops : \A i : \A c \in Conns :
              Establish(queue'[l], i, c) <=> Establish(queue[l], i, c),
           \A c \in Conns :
              /\ conn'[c] \in {"queued", "up", "closed"} <=> conn[c] \in {"queued", "up", "closed"}
              /\ conn'[c] = "queued" <=> conn[c] = "queued",
           \A c \in scan'.conn : conn'[c] = "accepted"
    PROVE  HandedOK'
<1>1. \A c \in Conns : loopOf[c] # NoAnswer => loopOf[c] \in Loops
  BY DEF OthersOK
<1>2. \A c \in Conns : loopOf'[c] # NoAnswer <=> conn'[c] \in {"queued", "up", "closed"}
  BY DEF HandedOK
<1>3. \A l \in Loops : \A c \in Conns : \A i :
         Establish(queue'[l], i, c) => conn'[c] = "queued" /\ loopOf'[c] = l
  BY DEF HandedOK
<1>4. \A l \in Loops : \A c \in Conns : \A i, j :
         Establish(queue'[l], i, c) /\ Establish(queue'[l], j, c) => i = j
  BY DEF HandedOK
<1>5. ASSUME NEW c \in Conns, conn'[c] = "queued"
      PROVE  \E i : Establish(queue'[loopOf'[c]], i, c)
  <2>1. conn[c] = "queued"
    BY <1>5
  <2>2. loopOf[c] \in Loops /\ \E i : Establish(queue[loopOf[c]], i, c)
    BY <1>1, <2>1 DEF HandedOK
  <2>3. QED
    BY <2>2
<1>6. QED
  BY <1>2, <1>3, <1>4, <1>5 DEF HandedOK

\* The queues stay as they are: a step of Start(), of Loop(), or of the kernel,
\* or a connection closes.
LEMMA BalanceKept ==
    ASSUME OthersOK, BalanceInv, scan.conn \subseteq Conns,
           UNCHANGED <<config, nextLoopIndex, scan, queue, loopOf>>,
           \/ conn' = conn
           \/ \E c \in Conns, v \in {"pending", "accepted"} :
                 conn[c] \in {"none", "pending"} /\ conn' = [conn EXCEPT ![c] = v]
           \/ \E c \in Conns : conn[c] = "up" /\ conn' = [conn EXCEPT ![c] = "closed"]
    PROVE  BalanceInv'
<1> DEFINE Moved(d) ==
             /\ conn'[d] \in {"queued", "up", "closed"} <=> conn[d] \in {"queued", "up", "closed"}
             /\ conn'[d] = "queued" <=> conn[d] = "queued"
             /\ conn[d] = "accepted" => conn'[d] = "accepted"
             /\ conn[d] = "closed" => conn'[d] = "closed"
<1>0. conn \in [Conns -> {"none", "pending", "accepted", "queued", "up", "closed"}]
  BY DEF OthersOK
<1>1. /\ scan' = scan /\ queue' = queue /\ loopOf' = loopOf
      /\ HandedOK /\ ScanOK /\ CountsOK /\ EvenOK
      /\ config' = config /\ nextLoopIndex' = nextLoopIndex
  BY DEF BalanceInv
<1>2. \A d \in Conns : Moved(d)
  <2>1. CASE conn' = conn
    BY <2>1
  <2>2. ASSUME NEW c \in Conns, NEW v \in {"pending", "accepted"},
               conn[c] \in {"none", "pending"}, conn' = [conn EXCEPT ![c] = v]
        PROVE  \A d \in Conns : Moved(d)
    BY <1>0, <2>2
  <2>3. ASSUME NEW c \in Conns, conn[c] = "up", conn' = [conn EXCEPT ![c] = "closed"]
        PROVE  \A d \in Conns : Moved(d)
    BY <1>0, <2>3
  <2>4. QED
    BY <2>1, <2>2, <2>3
<1>3. HandedOK'
  <2>1. \A c \in scan'.conn : conn'[c] = "accepted"
    BY <1>1, <1>2 DEF HandedOK
  <2>2. \A l \in Loops : \A i : \A c \in Conns :
           Establish(queue'[l], i, c) <=> Establish(queue[l], i, c)
    BY <1>1
  <2>3. QED
    BY <1>1, <1>2, <2>1, <2>2, HandedSame
<1>4. NoneClosed' => NoneClosed
  BY <1>2 DEF NoneClosed
<1>5. ScanOK'
  <2>1. Asked' = Asked /\ strategy' = strategy
    BY <1>1 DEF Asked, config
  <2>2. QED
    BY <1>1, <2>1 DEF ScanOK, Behind
<1>6. CountsOK' /\ EvenOK'
  BY <1>1, <1>4, CountsSame, EvenSame
<1>7. QED
  BY <1>3, <1>5, <1>6 DEF BalanceInv

\* The base loop hands connection c to loop l.
LEMMA HandToBalance ==
    ASSUME OthersOK, HandedOK, NEW l \in Loops, NEW c \in Conns, HandTo(l, c),
           conn[c] \in {"pending", "accepted"}
    PROVE  /\ HandedOK' /\ ScanOK' /\ CountsOK'
           /\ \A m \in Loops : Handed(m)' = IF m = l THEN Handed(m) + 1 ELSE Handed(m)
           /\ NoneClosed' => NoneClosed
<1>0. /\ conn \in [Conns -> {"none", "pending", "accepted", "queued", "up", "closed"}]
      /\ queue \in [Loops -> Seq(Functor)] /\ loopOf \in [Conns -> Loops \cup {NoAnswer}]
  BY DEF OthersOK
<1>1. /\ loopOf' = [loopOf EXCEPT ![c] = l] /\ scan'.conn = {}
      /\ conn' = [conn EXCEPT ![c] = IF l = Base THEN "up" ELSE "queued"]
  BY DEF HandTo, Idle
<1>2. (\A m \in Loops : m # NoAnswer) /\ loopOf[c] = NoAnswer
  <2>1. \A m \in Loops : m # NoAnswer
    BY ServerAssumption DEF Loops
  <2>2. QED
    BY <2>1 DEF HandedOK
<1>3. ASSUME NEW m \in Loops, NEW i, NEW d \in Conns
      PROVE  Establish(queue'[m], i, d) <=>
                \/ Establish(queue[m], i, d)
                \/ l # Base /\ m = l /\ i = Len(queue[l]) + 1 /\ d = c
  <2>1. CASE l = Base
    BY <2>1 DEF HandTo
  <2>2. CASE l # Base
    <3> DEFINE f == [op |-> "establish", from |-> Base, conn |-> c]
    <3>1. f \in Functor /\ f.op = "establish" /\ f.conn = c
      BY DEF Functor
    <3>2. queue' = [queue EXCEPT ![l] = Append(@, f)]
      BY <2>2 DEF HandTo
    <3> HIDE DEF f
    <3>3. queue'[m] = IF m = l THEN Append(queue[l], f) ELSE queue[m]
      BY <1>0, <3>2
    <3>4. QED
      BY <1>0, <2>2, <3>1, <3>3, EstablishAppend
  <2>3. QED
    BY <2>1, <2>2
<1>4. \A m \in Loops : \A i : ~Establish(queue[m], i, c)
  BY DEF HandedOK
<1>5. HandedOK'
  <2>1. \A d \in Conns : loopOf'[d] # NoAnswer <=> conn'[d] \in {"queued", "up", "closed"}
    BY <1>0, <1>1, <1>2 DEF HandedOK
  <2>2. \A m \in Loops : \A d \in Conns : \A i :
           Establish(queue'[m], i, d) => conn'[d] = "queued" /\ loopOf'[d] = m
    <3> SUFFICES ASSUME NEW m \in Loops, NEW d \in Conns, NEW i, Establish(queue'[m], i, d)
                 PROVE  conn'[d] = "queued" /\ loopOf'[d] = m
      OBVIOUS
    <3>1. CASE d = c
      <4>1. l # Base /\ m = l
        BY <1>3, <1>4, <3>1
      <4>2. QED
        BY <1>0, <1>1, <3>1, <4>1
    <3>2. CASE d # c
      <4>1. Establish(queue[m], i, d)
        BY <1>3, <3>2
      <4>2. conn[d] = "queued" /\ loopOf[d] = m
        BY <4>1 DEF HandedOK
      <4>3. QED
        BY <1>0, <1>1, <3>2, <4>2
    <3>3. QED
      BY <3>1, <3>2
  <2>3. \A m \in Loops : \A d \in Conns : \A i, j :
           Establish(queue'[m], i, d) /\ Establish(queue'[m], j, d) => i = j
    <3> SUFFICES ASSUME NEW m \in Loops, NEW d \in Conns, NEW i, NEW j,
                        Establish(queue'[m], i, d), Establish(queue'[m], j, d)
                 PROVE  i = j
      OBVIOUS
    <3>1. CASE d = c
      <4>1. ~Establish(queue[m], i, d) /\ ~Establish(queue[m], j, d)
        BY <1>4, <3>1
      <4>2. i = Len(queue[l]) + 1
        BY <1>3, <4>1
      <4>3. j = Len(queue[l]) + 1
        BY <1>3, <4>1
      <4>4. QED
        BY <4>2, <4>3
    <3>2. CASE d # c
      <4>1. Establish(queue[m], i, d) /\ Establish(queue[m], j, d)
        BY <1>3, <3>2
      <4>2. QED
        BY <4>1 DEF HandedOK
    <3>3. QED
      BY <3>1, <3>2
  <2>4. ASSUME NEW d \in Conns, conn'[d] = "queued"
        PROVE  \E i : Establish(queue'[loopOf'[d]], i, d)
    <3>1. CASE d = c
      <4>1. l # Base /\ loopOf'[d] = l
        BY <1>0, <1>1, <2>4, <3>1
      <4>2. Establish(queue'[l], Len(queue[l]) + 1, d)
        BY <1>3, <3>1, <4>1
      <4>3. QED
        BY <4>1, <4>2
    <3>2. CASE d # c
      <4>1. conn[d] = "queued" /\ loopOf'[d] = loopOf[d]
        BY <1>0, <1>1, <2>4, <3>2
      <4>2. loopOf[d] \in Loops /\ \E i : Establish(queue[loopOf[d]], i, d)
        BY <1>0, <4>1 DEF HandedOK
      <4>3. QED
        BY <1>3, <4>1, <4>2
    <3>3. QED
      BY <3>1, <3>2
  <2>5. QED
    BY <1>1, <2>1, <2>2, <2>3, <2>4 DEF HandedOK
<1>6. ASSUME NEW m \in Loops
      PROVE  Handed(m)' = IF m = l THEN Handed(m) + 1 ELSE Handed(m)
  <2> DEFINE before == {d \in Conns : loopOf[d] = m}
             after == {d \in Conns : loopOf'[d] = m}
  <2>1. Handed(m) = Cardinality(before) /\ Handed(m)' = Cardinality(after)
    BY DEF Handed
  <2>2. IsFiniteSet(before)
    <3>1. before \in SUBSET Conns
      OBVIOUS
    <3>2. QED
      BY <3>1, ConnsFinite, FS_Subset
  <2>3. CASE m = l
    <3>1. after = before \cup {c} /\ c \notin before
      BY <1>0, <1>1, <1>2, <2>3
    <3> HIDE DEF before, after
    <3>2. QED
      BY <2>1, <2>2, <2>3, <3>1, FS_AddElement
  <2>4. CASE m # l
    <3>1. after = before
      BY <1>0, <1>1, <1>2, <2>4
    <3>2. QED
      BY <2>1, <2>4, <3>1
  <2>5. QED
    BY <2>3, <2>4
<1>7. QED
  BY <1>0, <1>1, <1>5, <1>6 DEF ScanOK, CountsOK, NoneClosed

\* A question is submitted to loop l.
LEMMA CountSubmitted ==
    ASSUME OthersOK, NEW l \in Loops, NEW f \in Functor, f.op = "count",
           queue' = [queue EXCEPT ![l] = Append(@, f)]
    PROVE  /\ \A m \in Loops : \A i : \A c \in Conns :
                 Establish(queue'[m], i, c) <=> Establish(queue[m], i, c)
           /\ \A m \in Loops : \A i : Behind(queue[m], i) => Behind(queue'[m], i)
           /\ f.from = Base => Behind(queue'[l], Len(queue[l]) + 1)
<1>0. queue \in [Loops -> Seq(Functor)]
  BY DEF OthersOK
<1>1. \A m \in Loops : queue'[m] = IF m = l THEN Append(queue[l], f) ELSE queue[m]
  BY <1>0
<1>2. ASSUME NEW m \in Loops, NEW i, NEW c \in Conns
      PROVE  Establish(queue'[m], i, c) <=> Establish(queue[m], i, c)
  BY <1>0, <1>1, EstablishAppend
<1>3. ASSUME NEW m \in Loops, NEW i, NEW g
      PROVE  Question(queue'[m], i, g) <=>
                \/ Question(queue[m], i, g)
                \/ m = l /\ i = Len(queue[l]) + 1 /\ f.op = "count" /\ f.from = g
  BY <1>0, <1>1, QuestionAppend
<1>4. ASSUME NEW m \in Loops, NEW i, Behind(queue[m], i)
      PROVE  Behind(queue'[m], i)
  BY <1>2, <1>3, <1>4 DEF Behind
<1>5. ASSUME f.from = Base
      PROVE  Behind(queue'[l], Len(queue[l]) + 1)
  <2>1. Question(queue'[l], Len(queue[l]) + 1, Base)
    BY <1>3, <1>5
  <2>2. DOMAIN queue[l] = 1..Len(queue[l]) /\ Len(queue[l]) \in Nat
    BY <1>0, LenProperties
  <2>3. \A j : \A c \in Conns : Establish(queue[l], j, c) => j < Len(queue[l]) + 1
    BY <2>2 DEF Establish
  <2>4. QED
    BY <1>2, <2>1, <2>3 DEF Behind
<1>6. QED
  BY <1>2, <1>4, <1>5

\* What is known of a scan whose answer is still to come.
Answers(s) ==
    /\ s.count # NoAnswer => s.count = Handed(loops[s.i])
    /\ \A j \in 1..(s.i - 1) : Handed(loops[s.best]) <= Handed(loops[j])

\* The base loop asks loop l, which it is the turn of.
LEMMA AskBalance ==
    ASSUME OthersOK, HandedOK, NEW l \in Loops, NEW s \in Scans, Ask(l, s),
           UNCHANGED <<config, loopOf>>, strategy = "LeastConnection",
           l = IF s.count = NoAnswer THEN loops[s.i] ELSE loops[s.best],
           \A c \in Conns :
              /\ conn'[c] \in {"queued", "up", "closed"} <=> conn[c] \in {"queued", "up", "closed"}
              /\ conn'[c] = "queued" <=> conn[c] = "queued",
           \A c \in s.conn : conn'[c] = "accepted",
           NoneClosed' => Answers(s)
    PROVE  HandedOK' /\ ScanOK' /\ CountsOK'
<1> DEFINE f == [op |-> "count", from |-> Base, conn |-> NoAnswer]
<1>1. f \in Functor /\ f.from = Base /\ f.op = "count"
  BY DEF Functor, Count, Loops
<1>2. queue' = [queue EXCEPT ![l] = Append(@, f)] /\ scan' = [s EXCEPT !.answer = NoAnswer]
  BY DEF Ask
<1> HIDE DEF f
<1>3. /\ scan'.conn = s.conn /\ scan'.answer = NoAnswer /\ scan'.count = s.count
      /\ scan'.i = s.i /\ scan'.best = s.best
  BY <1>2 DEF Scans
<1>4. /\ \A m \in Loops : \A i : \A c \in Conns :
            Establish(queue'[m], i, c) <=> Establish(queue[m], i, c)
      /\ Behind(queue'[l], Len(queue[l]) + 1)
  BY <1>1, <1>2, CountSubmitted
<1>5. HandedOK'
  BY <1>3, <1>4, HandedSame
<1>6. loops' = loops /\ strategy' = strategy /\ \A m : Handed(m)' = Handed(m)
  BY DEF config, Handed
<1>7. Asked' = l
  BY <1>3, <1>6 DEF Asked
<1>8. ScanOK'
  <2>1. \E i : Behind(queue'[l], i)
    BY <1>4
  <2>2. \E i : Behind(queue'[Asked'], i)
    BY <1>7, <2>1
  <2>3. QED
    BY <1>6, <2>2 DEF ScanOK, Behind
<1>9. CountsOK'
  BY <1>3, <1>6 DEF CountsOK, Answers
<1>10. QED
  BY <1>5, <1>8, <1>9

\* A loop that has established all that it was handed.
LEMMA FullCount ==
    ASSUME OthersOK, HandedOK, NoneClosed, NEW l \in Loops,
           \A i : \A c \in Conns : ~Establish(queue[l], i, c)
    PROVE  ChannelCount(l) = Handed(l)
<1>1. ASSUME NEW c \in Conns, loopOf[c] = l
      PROVE  conn[c] = "up"
  <2>1. loopOf[c] # NoAnswer
    BY <1>1, ServerAssumption DEF Loops
  <2>2. conn[c] \in {"queued", "up", "closed"}
    BY <2>1 DEF HandedOK
  <2>3. conn[c] # "queued"
    <3>1. conn[c] = "queued" => \E i : Establish(queue[l], i, c)
      BY <1>1 DEF HandedOK
    <3>2. QED
      BY <3>1
  <2>4. QED
    BY <2>2, <2>3 DEF NoneClosed
<1>2. {c \in Conns : conn[c] = "up" /\ loopOf[c] = l} = {c \in Conns : loopOf[c] = l}
  BY <1>1
<1>3. QED
  BY <1>2 DEF ChannelCount, Handed

\* The question moves up when another functor has run.
LEMMA BehindTail ==
    ASSUME NEW q \in Seq(Functor), q # << >>, NEW i, Behind(q, i), ~Question(q, 1, Base)
    PROVE  Behind(Tail(q), i - 1)
<1>1. /\ DOMAIN q = 1..Len(q) /\ Len(q) \in Nat
      /\ DOMAIN Tail(q) = 1..(Len(q) - 1)
      /\ \A k \in 1..(Len(q) - 1) : Tail(q)[k] = q[k + 1]
  BY LenProperties, HeadTailProperties
<1>2. i \in 1..Len(q) /\ q[i].op = "count" /\ q[i].from = Base /\ i # 1
  BY <1>1 DEF Behind, Question
<1>3. i - 1 \in 1..(Len(q) - 1) /\ (i - 1) + 1 = i
  BY <1>1, <1>2
<1>4. Question(Tail(q), i - 1, Base)
  BY <1>1, <1>2, <1>3 DEF Question
<1>5. ASSUME NEW j, NEW c \in Conns, Establish(Tail(q), j, c)
      PROVE  j < i - 1
  <2>1. j \in Nat \ {0} /\ Establish(q, j + 1, c)
    BY <1>5, EstablishTail
  <2>2. j + 1 < i
    BY <2>1 DEF Behind
  <2>3. QED
    BY <1>2, <2>1, <2>2
<1>6. QED
  BY <1>4, <1>5 DEF Behind

\* A loop runs its oldest functor: the connection of an establishConn is up.
LEMMA HandedRun ==
    ASSUME OthersOK, HandedOK, NEW l \in Loops, queue[l] # << >>,
           queue' = [queue EXCEPT ![l] = Tail(queue[l])], loopOf' = loopOf,
           scan'.conn = scan.conn, scan.conn \subseteq Conns,
           NEW f, f = Head(queue[l]),
           conn' = IF f.op = "establish" THEN [conn EXCEPT ![f.conn] = "up"] ELSE conn
    PROVE  HandedOK' /\ (NoneClosed' => NoneClosed)
<1>0. /\ conn \in [Conns -> {"none", "pending", "accepted", "queued", "up", "closed"}]
      /\ queue \in [Loops -> Seq(Functor)] /\ loopOf \in [Conns -> Loops \cup {NoAnswer}]
  BY DEF OthersOK
<1>1. \A m \in Loops : queue'[m] = IF m = l THEN Tail(queue[l]) ELSE queue[m]
  BY <1>0
<1>2. \A c \in Conns : conn'[c] = IF f.op = "establish" /\ f.conn = c THEN "up" ELSE conn[c]
  BY <1>0
<1>3. ASSUME NEW m \in Loops, NEW i, NEW c \in Conns, Establish(queue'[m], i, c)
      PROVE  IF m = l THEN i \in Nat \ {0} /\ Establish(queue[l], i + 1, c)
                      ELSE Establish(queue[m], i, c)
  BY <1>0, <1>1, <1>3, EstablishTail
<1>4. ASSUME NEW c \in Conns, f.op = "establish", f.conn = c
      PROVE  Establish(queue[l], 1, c) /\ conn[c] = "queued" /\ loopOf[c] = l
  <2>1. Establish(queue[l], 1, c)
    BY <1>0, <1>4, EstablishTail
  <2>2. QED
    BY <2>1 DEF HandedOK
<1>5. \A c \in Conns : loopOf'[c] # NoAnswer <=> conn'[c] \in {"queued", "up", "closed"}
  BY <1>2, <1>4 DEF HandedOK
<1>6. ASSUME NEW m \in Loops, NEW c \in Conns, NEW i, Establish(queue'[m], i, c)
      PROVE  conn'[c] = "queued" /\ loopOf'[c] = m
  <2>1. conn[c] = "queued" /\ loopOf[c] = m
    <3>1. \E k : Establish(queue[m], k, c)
      BY <1>3, <1>6
    <3>2. QED
      BY <3>1 DEF HandedOK
  <2>2. ~(f.op = "establish" /\ f.conn = c)
    <3> SUFFICES ASSUME f.op = "establish", f.conn = c
                 PROVE  FALSE
      OBVIOUS
    <3>1. Establish(queue[l], 1, c) /\ m = l
      BY <1>4, <2>1
    <3>2. i \in Nat \ {0} /\ Establish(queue[l], i + 1, c)
      BY <1>3, <1>6, <3>1
    <3>3. i + 1 = 1
      BY <3>1, <3>2 DEF HandedOK
    <3>4. QED
      BY <3>2, <3>3
  <2>3. QED
    BY <1>2, <2>1, <2>2
<1>7. ASSUME NEW m \in Loops, NEW c \in Conns, NEW i, NEW j,
             Establish(queue'[m], i, c), Establish(queue'[m], j, c)
      PROVE  i = j
  <2>1. CASE m = l
    <3>1. /\ i \in Nat /\ Establish(queue[l], i + 1, c)
          /\ j \in Nat /\ Establish(queue[l], j + 1, c)
      BY <1>3, <1>7, <2>1
    <3>2. i + 1 = j + 1
      BY <3>1 DEF HandedOK
    <3>3. QED
      BY <3>1, <3>2
  <2>2. CASE m # l
    <3>1. Establish(queue[m], i, c) /\ Establish(queue[m], j, c)
      BY <1>3, <1>7, <2>2
    <3>2. QED
      BY <3>1 DEF HandedOK
  <2>3. QED
    BY <2>1, <2>2
<1>8. ASSUME NEW c \in Conns, conn'[c] = "queued"
      PROVE  \E i : Establish(queue'[loopOf'[c]], i, c)
  <2>1. conn[c] = "queued" /\ ~(f.op = "establish" /\ f.conn = c)
    BY <1>2, <1>8
  <2>2. loopOf[c] \in Loops
    BY <1>0, <2>1 DEF HandedOK
  <2>3. PICK i : Establish(queue[loopOf[c]], i, c)
    BY <2>1 DEF HandedOK
  <2>4. CASE loopOf[c] = l
    <3>1. Establish(Tail(queue[l]), i - 1, c)
      BY <1>0, <2>1, <2>3, <2>4, EstablishTail
    <3>2. QED
      BY <1>1, <2>4, <3>1
  <2>5. CASE loopOf[c] # l
    BY <1>1, <2>2, <2>3, <2>5
  <2>6. QED
    BY <2>4, <2>5
<1>9. ASSUME NEW c \in scan'.conn
      PROVE  conn'[c] = "accepted"
  <2>1. c \in Conns /\ conn[c] = "accepted"
    BY <1>9 DEF HandedOK
  <2>2. QED
    BY <1>2, <1>4, <2>1
<1>10. HandedOK'
  BY <1>5, <1>6, <1>7, <1>8, <1>9 DEF HandedOK
<1>11. NoneClosed' => NoneClosed
  BY <1>2, <1>4 DEF NoneClosed
<1>12. QED
  BY <1>10, <1>11

LEMMA RunBalance ==
    ASSUME SafeInv, OneQuestion, BaseWaits, BalanceInv, NEW l \in Loops, RunFunctor(l)
    PROVE  BalanceInv'
<1>0. OthersOK /\ scan \in Scans /\ HandedOK /\ ScanOK /\ CountsOK /\ EvenOK
  BY DEF SafeInv, InPool, BalanceInv
<1>1. PICK f : f = Head(queue[l])
  OBVIOUS
<1>2. queue[l] \in Seq(Functor) /\ queue[l] # << >> /\ queue \in [Loops -> Seq(Functor)]
  BY <1>0 DEF OthersOK, RunFunctor
<1>3. queue' = [queue EXCEPT ![l] = Tail(queue[l])]
  BY <1>2 DEF RunFunctor, Next1
<1>4. UNCHANGED <<config, loops, strategy, nextLoopIndex, loopOf>>
  BY DEF RunFunctor, config
<1>5. /\ f \in Functor /\ f.op \in {"establish", "count"}
      /\ \A g : Question(queue[l], 1, g) <=> f.op = "count" /\ f.from = g
  <2>1. f \in Functor
    BY <1>1, <1>2, HeadTailProperties
  <2>2. DOMAIN queue[l] = 1..Len(queue[l]) /\ Len(queue[l]) \in Nat \ {0} /\ f = queue[l][1]
    BY <1>1, <1>2, LenProperties, EmptySeq, HeadTailProperties
  <2>3. QED
    BY <2>1, <2>2 DEF Question, Functor, Count
<1>6. /\ conn' = IF f.op = "establish" THEN [conn EXCEPT ![f.conn] = "up"] ELSE conn
      /\ scan' = IF f.op = "count" /\ f.from = Base
                 THEN [scan EXCEPT !.answer = ChannelCount(l)] ELSE scan
  BY <1>1, <1>5 DEF RunFunctor, Next1
<1>7. /\ scan'.conn = scan.conn /\ scan'.i = scan.i /\ scan'.best = scan.best
      /\ scan'.count = scan.count
  BY <1>0, <1>6 DEF Scans
<1>8. HandedOK' /\ (NoneClosed' => NoneClosed)
  <2>1. scan.conn \subseteq Conns
    BY <1>0 DEF Scans
  <2>2. QED
    BY <1>0, <1>1, <1>2, <1>3, <1>4, <1>6, <1>7, <2>1, HandedRun
<1>9. EvenOK'
  BY <1>0, <1>4, <1>8, EvenSame
<1>10. Asked' = Asked /\ \A m : Handed(m)' = Handed(m)
  BY <1>4, <1>7 DEF Asked, Handed
<1>11. ScanOK' /\ CountsOK'
  <2>1. CASE scan.conn = {}
    BY <1>7, <2>1 DEF ScanOK, CountsOK
  <2>2. CASE scan.conn # {} /\ f.op = "count" /\ f.from = Base
    <3>1. scan.answer = NoAnswer
      BY <1>5, <2>2, BlockedResult DEF BaseWaits
    <3>2. PICK i : Behind(queue[Asked], i)
      BY <1>0, <2>2, <3>1 DEF ScanOK
    <3>3. Asked \in Loops
      <4>1. scan.i \in 1..Len(loops) /\ scan.best \in 1..Len(loops) /\ loops \in Pools
        <5>1. loops \in Pools /\ Len(loops) \in Nat
          BY <1>0, PoolResult DEF OthersOK
        <5>2. QED
          BY <2>2, <5>1 DEF SafeInv, InPool
      <4>2. QED
        BY <4>1, PoolResult DEF Asked
    <3>4. l = Asked /\ i = 1
      BY <1>5, <2>2, <3>2, <3>3 DEF OneQuestion, Behind
    <3>5. \A j : \A c \in Conns : ~Establish(queue[l], j, c)
      <4>1. ASSUME NEW j, NEW c \in Conns, Establish(queue[l], j, c)
            PROVE  FALSE
        <5>1. j \in Nat \ {0}
          BY <1>2, <4>1, LenProperties DEF Establish
        <5>2. j < 1
          BY <3>2, <3>4, <4>1 DEF Behind
        <5>3. QED
          BY <5>1, <5>2
      <4>2. QED
        BY <4>1
    <3>6. scan'.answer = ChannelCount(l) /\ scan'.answer # NoAnswer
      <4>1. scan'.answer = ChannelCount(l)
        BY <1>0, <1>6, <2>2 DEF Scans
      <4>2. ChannelCount(l) \in Nat
        BY CountResult, ConnsFinite
      <4>3. QED
        BY <4>1, <4>2, ServerAssumption
    <3>7. NoneClosed => scan'.answer = Handed(Asked)
      BY <1>0, <3>4, <3>5, <3>6, FullCount
    <3>8. ScanOK'
      BY <1>0, <1>4, <2>2, <3>6 DEF ScanOK
    <3>9. CountsOK'
      BY <1>0, <1>4, <1>7, <1>8, <1>10, <2>2, <3>7 DEF CountsOK
    <3>10. QED
      BY <3>8, <3>9
  <2>3. CASE scan.conn # {} /\ ~(f.op = "count" /\ f.from = Base)
    <3>1. scan' = scan
      BY <1>6, <2>3
    <3>2. CountsOK'
      BY <1>0, <1>4, <1>8, <3>1, CountsSame
    <3>3. ASSUME scan.answer = NoAnswer
          PROVE  \E i : Behind(queue'[Asked], i)
      <4>1. PICK i : Behind(queue[Asked], i)
        BY <1>0, <2>3, <3>3 DEF ScanOK
      <4>2. CASE Asked = l
        <5>1. Behind(Tail(queue[l]), i - 1)
          BY <1>2, <1>5, <2>3, <4>1, <4>2, BehindTail
        <5>2. queue'[l] = Tail(queue[l])
          BY <1>2, <1>3
        <5>3. QED
          BY <4>2, <5>1, <5>2
      <4>3. CASE Asked # l
        <5>1. queue'[Asked] = queue[Asked]
          BY <1>2, <1>3, <4>3
        <5>2. QED
          BY <4>1, <5>1
      <4>4. QED
        BY <4>2, <4>3
    <3>4. ScanOK'
      <4>1. scan'.answer = NoAnswer => \E i : Behind(queue'[Asked'], i)
        BY <1>10, <3>1, <3>3
      <4>2. QED
        BY <1>0, <1>4, <2>3, <4>1 DEF ScanOK, Behind
    <3>5. QED
      BY <3>2, <3>4
  <2>4. QED
    BY <2>1, <2>2, <2>3
<1>12. QED
  BY <1>8, <1>9, <1>11 DEF BalanceInv

\* RoundRobin hands a connection to the loop whose turn it is.
LEMMA EvenInTurn ==
    ASSUME OthersOK, EvenOK, loops # << >>, strategy = "RoundRobin", UNCHANGED config,
           nextLoopIndex' = After(nextLoopIndex),
           \A m \in Loops :
              Handed(m)' = IF m = loops[nextLoopIndex] THEN Handed(m) + 1 ELSE Handed(m)
    PROVE  EvenOK'
<1> DEFINE n == nextLoopIndex
           L == Len(loops)
<1>1. /\ L \in Nat \ {0} /\ n \in 1..L
      /\ \A i \in 1..L : loops[i] \in Loops
      /\ \A i, j \in 1..L : loops[i] = loops[j] => i = j
  BY PoolResult, EmptySeq DEF OthersOK
<1>2. loops' = loops /\ strategy' = strategy
  BY DEF config
<1>3. PICK k \in Nat : \A i \in 1..L : Handed(loops[i]) = IF i < n THEN k + 1 ELSE k
  BY DEF EvenOK, InTurn
<1>4. \A i \in 1..L : Handed(loops[i])' = IF i <= n THEN k + 1 ELSE k
  <2> SUFFICES ASSUME NEW i \in 1..L
               PROVE  Handed(loops[i])' = IF i <= n THEN k + 1 ELSE k
    OBVIOUS
  <2>1. Handed(loops[i])' = IF i = n THEN Handed(loops[i]) + 1 ELSE Handed(loops[i])
    BY <1>1, <1>2
  <2>2. Handed(loops[i]) = IF i < n THEN k + 1 ELSE k
    BY <1>3
  <2> HIDE DEF n, L
  <2>3. i \in Nat /\ n \in Nat
    BY <1>1
  <2>4. QED
    BY <2>1, <2>2, <2>3
<1>5. nextLoopIndex' = IF n = L THEN 1 ELSE n + 1
  <2>1. ASSUME NEW N \in Nat \ {0}, NEW i \in 1..N
        PROVE  (i % N) + 1 = IF i = N THEN 1 ELSE i + 1
    BY <2>1
  <2>2. QED
    BY <1>1, <2>1 DEF After
<1>6. \E h \in Nat : \A i \in 1..L : Handed(loops[i])' = IF i < nextLoopIndex' THEN h + 1 ELSE h
  <2> HIDE DEF n, L
  <2>1. CASE n = L
    <3>1. \A i \in 1..L : Handed(loops[i])' = IF i < 1 THEN (k + 1) + 1 ELSE k + 1
      BY <1>1, <1>4, <2>1
    <3>2. k + 1 \in Nat /\ nextLoopIndex' = 1
      BY <1>5, <2>1
    <3>3. QED
      BY <3>1, <3>2
  <2>2. CASE n # L
    <3>1. \A i \in 1..L : Handed(loops[i])' = IF i < n + 1 THEN k + 1 ELSE k
      BY <1>1, <1>4
    <3>2. nextLoopIndex' = n + 1
      BY <1>5, <2>2
    <3>3. QED
      BY <3>1, <3>2
  <2>3. QED
    BY <2>1, <2>2
<1>7. InTurn'
  BY <1>2, <1>6 DEF InTurn
<1>8. QED
  BY <1>2, <1>7 DEF EvenOK

\* LeastConnection hands a connection to a loop that has no more than another.
LEMMA EvenLeast ==
    ASSUME OthersOK, EvenOK, strategy = "LeastConnection", UNCHANGED config,
           NoneClosed' => NoneClosed, NEW b \in 1..Len(loops),
           NoneClosed => \A j \in 1..Len(loops) : Handed(loops[b]) <= Handed(loops[j]),
           \A m \in Loops : Handed(m)' = IF m = loops[b] THEN Handed(m) + 1 ELSE Handed(m)
    PROVE  EvenOK'
<1>1. /\ \A i \in 1..Len(loops) : loops[i] \in Loops
      /\ \A i, j \in 1..Len(loops) : loops[i] = loops[j] => i = j
  BY PoolResult DEF OthersOK
<1>2. loops' = loops /\ strategy' = strategy
  BY DEF config
<1>3. ASSUME NoneClosed', NEW i \in 1..Len(loops), NEW j \in 1..Len(loops)
      PROVE  Handed(loops[i])' <= Handed(loops[j])' + 1
  <2>1. Handed(loops[i]) <= Handed(loops[j]) + 1 /\ Handed(loops[b]) <= Handed(loops[j])
    BY <1>3 DEF EvenOK, Level
  <2>2. Handed(loops[i]) \in Nat /\ Handed(loops[j]) \in Nat /\ Handed(loops[b]) \in Nat
    BY HandedType
  <2>3. /\ Handed(loops[i])' = IF i = b THEN Handed(loops[i]) + 1 ELSE Handed(loops[i])
        /\ Handed(loops[j])' = IF j = b THEN Handed(loops[j]) + 1 ELSE Handed(loops[j])
    BY <1>1, <1>2
  <2>4. CASE i = b
    BY <2>1, <2>2, <2>3, <2>4
  <2>5. CASE i # b
    BY <2>1, <2>2, <2>3, <2>5
  <2>6. QED
    BY <2>4, <2>5
<1>4. NoneClosed' => Level'
  BY <1>2, <1>3 DEF Level
<1>5. QED
  BY <1>2, <1>4 DEF EvenOK

\* onNewConnection() with a new connection: it is handed to a loop at once, or
\* LeastConnection asks its first question.
LEMMA AcceptBalance ==
    ASSUME SafeInv, BalanceInv, NEW c \in Conns,
           AcceptAlone(c) \/ AcceptRoundRobin(c) \/ AcceptLeast(c)
    PROVE  BalanceInv'
<1>0. OthersOK /\ HandedOK /\ EvenOK /\ loops \in Pools
  BY DEF SafeInv, OthersOK, BalanceInv
<1>1. /\ conn[c] = "pending" /\ scan.conn = {}
      /\ UNCHANGED config /\ loops' = loops /\ strategy' = strategy
  BY DEF AcceptAlone, AcceptRoundRobin, AcceptLeast, Accept, Readable, Free, config
<1>2. Len(loops) \in Nat /\ \A i \in 1..Len(loops) : loops[i] \in Loops
  BY <1>0, PoolResult
<1>3. ASSUME AcceptAlone(c)
      PROVE  BalanceInv'
  <2>1. HandTo(Base, c) /\ Base \in Loops /\ Len(loops) = 0
    BY <1>3 DEF AcceptAlone, Loops
  <2>2. HandedOK' /\ ScanOK' /\ CountsOK'
    BY <1>0, <1>1, <2>1, HandToBalance
  <2>3. InTurn' /\ Level'
    <3>1. 1..Len(loops') = {}
      BY <1>1, <2>1
    <3>2. InTurn'
      <4>1. \A i \in 1..Len(loops') :
               Handed(loops[i])' = IF i < nextLoopIndex' THEN 0 + 1 ELSE 0
        BY <3>1
      <4>2. QED
        BY <4>1 DEF InTurn
    <3>3. QED
      BY <3>1, <3>2 DEF Level
  <2>4. QED
    BY <2>2, <2>3 DEF BalanceInv, EvenOK
<1>4. ASSUME AcceptRoundRobin(c)
      PROVE  BalanceInv'
  <2>1. /\ HandTo(loops[nextLoopIndex], c) /\ loops # << >> /\ strategy = "RoundRobin"
        /\ nextLoopIndex' = After(nextLoopIndex)
    BY <1>4 DEF AcceptRoundRobin
  <2>2. loops[nextLoopIndex] \in Loops
    BY <1>0, <1>2, <2>1 DEF OthersOK
  <2>3. /\ HandedOK' /\ ScanOK' /\ CountsOK'
        /\ \A m \in Loops :
              Handed(m)' = IF m = loops[nextLoopIndex] THEN Handed(m) + 1 ELSE Handed(m)
    BY <1>0, <1>1, <2>1, <2>2, HandToBalance
  <2>4. EvenOK'
    BY <1>0, <1>1, <2>1, <2>3, EvenInTurn
  <2>5. QED
    BY <2>3, <2>4 DEF BalanceInv
<1>5. ASSUME AcceptLeast(c)
      PROVE  BalanceInv'
  <2>1. loops # << >> /\ strategy = "LeastConnection" /\ UNCHANGED nextLoopIndex
    BY <1>5 DEF AcceptLeast
  <2>2. Len(loops) # 0
    BY <1>0, <2>1, PoolResult, EmptySeq
  <2>3. CASE Len(loops) = 1
    <3>1. HandTo(loops[1], c) /\ 1 \in 1..Len(loops) /\ loops[1] \in Loops
      BY <1>2, <1>5, <2>3 DEF AcceptLeast
    <3>2. /\ HandedOK' /\ ScanOK' /\ CountsOK' /\ (NoneClosed' => NoneClosed)
          /\ \A m \in Loops : Handed(m)' = IF m = loops[1] THEN Handed(m) + 1 ELSE Handed(m)
      BY <1>0, <1>1, <3>1, HandToBalance
    <3>3. \A j \in 1..Len(loops) : Handed(loops[1]) <= Handed(loops[j])
      BY <2>3, HandedType
    <3>4. EvenOK'
      BY <1>0, <1>1, <2>1, <3>1, <3>2, <3>3, EvenLeast
    <3>5. QED
      BY <3>2, <3>4 DEF BalanceInv
  <2>4. CASE Len(loops) # 1
    <3> DEFINE s == [Idle EXCEPT !.conn = {c}, !.i = 2]
    <3>1. /\ conn' = [conn EXCEPT ![c] = "accepted"]
          /\ Ask(loops[2], s) /\ UNCHANGED loopOf
      BY <1>5, <2>4 DEF AcceptLeast
    <3>2. loops[2] \in Loops
      <4>1. 2 \in 1..Len(loops)
        BY <1>2, <2>2, <2>4
      <4>2. QED
        BY <1>2, <4>1
    <3>3. /\ s \in Scans /\ s.conn = {c} /\ s.i = 2 /\ s.best = 1 /\ s.count = NoAnswer
      BY DEF Idle, Scans, Answer
    <3> HIDE DEF s
    <3>4. /\ \A d \in Conns :
                /\ conn'[d] \in {"queued", "up", "closed"} <=> conn[d] \in {"queued", "up", "closed"}
                /\ conn'[d] = "queued" <=> conn[d] = "queued"
                /\ conn[d] = "closed" => conn'[d] = "closed"
          /\ conn'[c] = "accepted"
      BY <1>0, <1>1, <3>1 DEF OthersOK
    <3>5. Answers(s)
      <4>1. \A j \in 1..(2 - 1) : j = 1
        OBVIOUS
      <4>2. QED
        BY <3>3, <4>1, HandedType DEF Answers
    <3>6. HandedOK' /\ ScanOK' /\ CountsOK'
      BY <1>0, <1>1, <2>1, <3>1, <3>2, <3>3, <3>4, <3>5, AskBalance
    <3>7. NoneClosed' => NoneClosed
      BY <3>4 DEF NoneClosed
    <3>8. EvenOK'
      BY <1>0, <1>1, <2>1, <3>1, <3>7, EvenSame
    <3>9. QED
      BY <3>6, <3>8 DEF BalanceInv
  <2>5. QED
    BY <2>3, <2>4
<1>6. QED
  BY <1>3, <1>4, <1>5

\* LeastConnection goes on: the best loop is the best of those it has compared.
LEMMA CompareBalance ==
    ASSUME SafeInv, BalanceInv, Compare
    PROVE  BalanceInv'
<1> DEFINE fewer == scan.count < scan.answer
           s == [scan EXCEPT !.best = IF fewer THEN scan.i ELSE @,
                             !.i = @ + 1, !.count = NoAnswer]
           t == [scan EXCEPT !.count = scan.answer]
<1>0. /\ OthersOK /\ InPool(scan) /\ scan \in Scans /\ loops \in Pools
      /\ HandedOK /\ ScanOK /\ CountsOK /\ EvenOK
  BY DEF SafeInv, InPool, OthersOK, BalanceInv
<1>1. /\ scan.conn # {} /\ scan.answer # NoAnswer
      /\ UNCHANGED <<config, nextLoopIndex>> /\ loops' = loops /\ strategy' = strategy
  BY DEF Compare, config
<1>2. /\ Len(loops) \in Nat /\ \A i \in 1..Len(loops) : loops[i] \in Loops
      /\ scan.i \in 2..Len(loops) /\ scan.best \in 1..Len(loops)
  BY <1>0, <1>1, PoolResult DEF InPool
<1>3. strategy = "LeastConnection"
  BY <1>0, <1>1 DEF ScanOK
<1>4. NoneClosed => /\ scan.answer = Handed(Asked)
                    /\ scan.count # NoAnswer => scan.count = Handed(loops[scan.i])
                    /\ \A j \in 1..(scan.i - 1) : Handed(loops[scan.best]) <= Handed(loops[j])
  BY <1>0, <1>1 DEF CountsOK
<1>5. scan.conn \subseteq Conns /\ \A c \in scan.conn : conn[c] = "accepted"
  BY <1>0 DEF Scans, HandedOK
<1>6. ASSUME UNCHANGED <<conn, loopOf>>, HandedOK', ScanOK', CountsOK'
      PROVE  BalanceInv'
  <2>1. NoneClosed' => NoneClosed
    BY <1>6 DEF NoneClosed
  <2>2. EvenOK'
    BY <1>0, <1>1, <1>6, <2>1, EvenSame
  <2>3. QED
    BY <1>6, <2>2 DEF BalanceInv
<1>7. CASE scan.count = NoAnswer
  <2>1. Ask(loops[scan.best], t) /\ UNCHANGED <<conn, loopOf>>
    BY <1>7 DEF Compare
  <2>2. /\ t \in Scans /\ t.conn = scan.conn /\ t.i = scan.i /\ t.best = scan.best
        /\ t.count = scan.answer
    BY <1>0 DEF Scans
  <2> HIDE DEF t
  <2>3. NoneClosed' => Answers(t)
    <3>1. Asked = loops[scan.i]
      BY <1>7 DEF Asked
    <3>2. NoneClosed' => NoneClosed
      BY <2>1 DEF NoneClosed
    <3>3. QED
      BY <1>4, <2>2, <3>1, <3>2 DEF Answers
  <2>4. HandedOK' /\ ScanOK' /\ CountsOK'
    BY <1>0, <1>1, <1>2, <1>3, <1>5, <2>1, <2>2, <2>3, AskBalance
  <2>5. QED
    BY <1>6, <2>1, <2>4
<1>8. CASE scan.count # NoAnswer
  <2>1. /\ s \in Scans /\ s.conn = scan.conn /\ s.i = scan.i + 1
        /\ s.best = (IF fewer THEN scan.i ELSE scan.best)
        /\ s.best \in 1..Len(loops)
    BY <1>0, <1>1, ComparedResult
  <2>2. s.count = NoAnswer
    BY <1>0 DEF Scans
  <2>3. /\ s.i <= Len(loops) => Ask(loops[s.i], s) /\ UNCHANGED <<conn, loopOf>>
        /\ ~(s.i <= Len(loops)) => \E c \in scan.conn : HandTo(loops[s.best], c)
    BY <1>8, <2>1 DEF Compare
  <2>4. NoneClosed => \A j \in 1..scan.i : Handed(loops[s.best]) <= Handed(loops[j])
    <3> SUFFICES ASSUME NoneClosed, NEW j \in 1..scan.i
                 PROVE  Handed(loops[s.best]) <= Handed(loops[j])
      OBVIOUS
    <3>1. /\ scan.count = Handed(loops[scan.i]) /\ scan.answer = Handed(loops[scan.best])
          /\ j # scan.i => Handed(loops[scan.best]) <= Handed(loops[j])
      <4>1. Asked = loops[scan.best]
        BY <1>8 DEF Asked
      <4>2. j # scan.i => j \in 1..(scan.i - 1)
        BY <1>2
      <4>3. QED
        BY <1>4, <1>8, <4>1, <4>2
    <3>2. /\ Handed(loops[scan.i]) \in Nat /\ Handed(loops[scan.best]) \in Nat
          /\ Handed(loops[j]) \in Nat
      BY HandedType
    <3> HIDE DEF s
    <3>3. CASE fewer
      <4>1. s.best = scan.i /\ Handed(loops[scan.i]) < Handed(loops[scan.best])
        BY <2>1, <3>1, <3>3
      <4>2. QED
        BY <3>1, <3>2, <4>1
    <3>4. CASE ~fewer
      <4>1. s.best = scan.best /\ ~(Handed(loops[scan.i]) < Handed(loops[scan.best]))
        BY <2>1, <3>1, <3>4
      <4>2. QED
        BY <3>1, <3>2, <4>1
    <3>5. QED
      BY <3>3, <3>4
  <2> HIDE DEF s
  <2>5. CASE s.i <= Len(loops)
    <3>1. Ask(loops[s.i], s) /\ UNCHANGED <<conn, loopOf>>
      BY <2>3, <2>5
    <3>2. loops[s.i] \in Loops /\ s.i - 1 = scan.i
      <4>1. s.i \in 1..Len(loops) /\ s.i - 1 = scan.i
        BY <1>2, <2>1, <2>5
      <4>2. QED
        BY <1>2, <4>1
    <3>3. NoneClosed' => Answers(s)
      BY <2>2, <2>4, <3>1, <3>2 DEF Answers, NoneClosed
    <3>4. HandedOK' /\ ScanOK' /\ CountsOK'
      BY <1>0, <1>1, <1>3, <1>5, <2>1, <2>2, <3>1, <3>2, <3>3, AskBalance
    <3>5. QED
      BY <1>6, <3>1, <3>4
  <2>6. CASE ~(s.i <= Len(loops))
    <3>1. PICK c \in scan.conn : HandTo(loops[s.best], c)
      BY <2>3, <2>6
    <3>2. loops[s.best] \in Loops /\ c \in Conns /\ conn[c] = "accepted"
      BY <1>2, <1>5, <2>1
    <3>3. /\ HandedOK' /\ ScanOK' /\ CountsOK' /\ (NoneClosed' => NoneClosed)
          /\ \A m \in Loops : Handed(m)' = IF m = loops[s.best] THEN Handed(m) + 1 ELSE Handed(m)
      BY <1>0, <3>1, <3>2, HandToBalance
    <3>4. scan.i = Len(loops)
      BY <1>2, <2>1, <2>6
    <3>5. EvenOK'
      BY <1>0, <1>1, <1>3, <2>1, <2>4, <3>3, <3>4, EvenLeast
    <3>6. QED
      BY <3>3, <3>5 DEF BalanceInv
  <2>7. QED
    BY <2>5, <2>6
<1>9. QED
  BY <1>7, <1>8

LEMMA BalanceInitially == Init => BalanceInv
<1> SUFFICES ASSUME Init
             PROVE  BalanceInv
  OBVIOUS
<1>1. /\ scan.conn = {} /\ nextLoopIndex = 1 /\ loops \in Pools
      /\ \A l \in Loops : queue[l] = << >>
      /\ \A c \in Conns : conn[c] = "none" /\ loopOf[c] = NoAnswer
  BY DEF Init, Idle
<1>2. HandedOK
  <2>1. \A l \in Loops : \A i, c : ~Establish(queue[l], i, c)
    BY <1>1 DEF Establish
  <2>2. QED
    BY <1>1, <2>1 DEF HandedOK
<1>3. \A l \in Loops : Handed(l) = 0
  <2> SUFFICES ASSUME NEW l \in Loops
               PROVE  Handed(l) = 0
    OBVIOUS
  <2>1. l # NoAnswer
    BY ServerAssumption DEF Loops
  <2>2. {c \in Conns : loopOf[c] = l} = {}
    BY <1>1, <2>1
  <2>3. QED
    BY <2>2, FS_EmptySet DEF Handed
<1>4. \A i \in 1..Len(loops) : Handed(loops[i]) = 0
  BY <1>1, <1>3, PoolResult
<1>5. InTurn /\ Level
  <2>1. \A i \in 1..Len(loops) : ~(i < 1)
    BY <1>1, PoolResult
  <2>2. \A i \in 1..Len(loops) : Handed(loops[i]) = IF i < nextLoopIndex THEN 0 + 1 ELSE 0
    BY <1>1, <1>4, <2>1
  <2>3. InTurn
    BY <2>2 DEF InTurn
  <2>4. Level
    BY <1>4 DEF Level
  <2>5. QED
    BY <2>3, <2>4
<1>6. QED
  BY <1>1, <1>2, <1>5 DEF BalanceInv, ScanOK, CountsOK, EvenOK

LEMMA BalanceInvKept ==
    SafeInv /\ OneQuestion /\ BaseWaits /\ BalanceInv /\ [Next]_vars => BalanceInv'
<1> SUFFICES ASSUME SafeInv, OneQuestion, BaseWaits, BalanceInv, [Next]_vars
             PROVE  BalanceInv'
  OBVIOUS
<1>0. OthersOK /\ HandedOK /\ ScanOK /\ CountsOK /\ EvenOK /\ scan.conn \subseteq Conns
  BY DEF SafeInv, InPool, Scans, BalanceInv
<1>1. CASE Start \/ Loop \/ UNCHANGED vars
  <2>1. UNCHANGED <<config, nextLoopIndex, scan, queue, loopOf, conn>>
    BY <1>1 DEF Start, Loop, vars
  <2>2. QED
    BY <1>0, <2>1, BalanceKept
<1>2. ASSUME NEW c \in Conns, Connects(c) \/ AcceptTooEarly(c)
      PROVE  BalanceInv'
  <2>1. /\ UNCHANGED <<config, nextLoopIndex, scan, queue, loopOf>>
        /\ conn[c] \in {"none", "pending"}
        /\ \E v \in {"pending", "accepted"} : conn' = [conn EXCEPT ![c] = v]
    BY <1>2 DEF Connects, AcceptTooEarly, Readable
  <2>2. QED
    BY <1>0, <2>1, BalanceKept
<1>3. ASSUME NEW c \in Conns, Close(c)
      PROVE  BalanceInv'
  <2>1. /\ UNCHANGED <<config, nextLoopIndex, scan, queue, loopOf>>
        /\ conn[c] = "up" /\ conn' = [conn EXCEPT ![c] = "closed"]
    BY <1>3 DEF Close
  <2>2. QED
    BY <1>0, <2>1, BalanceKept
<1>4. ASSUME NEW w \in WorkerSet, AskBase(w)
      PROVE  BalanceInv'
  <2> DEFINE f == [op |-> "count", from |-> w, conn |-> NoAnswer]
  <2>1. f \in Functor /\ f.op = "count" /\ Base \in Loops
    BY DEF Functor, Count, Loops
  <2>2. /\ queue' = [queue EXCEPT ![Base] = Append(@, f)]
        /\ UNCHANGED <<config, nextLoopIndex, scan, loopOf, conn>>
    BY <1>4 DEF AskBase, AskBase_Anyhow
  <2> HIDE DEF f
  <2>3. /\ \A m \in Loops : \A i : \A c \in Conns :
              Establish(queue'[m], i, c) <=> Establish(queue[m], i, c)
        /\ \A m \in Loops : \A i : Behind(queue[m], i) => Behind(queue'[m], i)
    BY <1>0, <2>1, <2>2, CountSubmitted
  <2>4. \A c \in scan'.conn : conn'[c] = "accepted"
    BY <1>0, <2>2 DEF HandedOK
  <2>5. HandedOK'
    BY <1>0, <2>2, <2>3, <2>4, HandedSame
  <2>6. ScanOK'
    <3> SUFFICES ASSUME scan.conn # {}
                 PROVE  ScanOK'
      BY <2>2 DEF ScanOK
    <3>1. Asked \in Loops
      <4>1. loops \in Pools /\ Len(loops) \in Nat
        BY <1>0, PoolResult DEF OthersOK
      <4>2. scan.i \in 1..Len(loops) /\ scan.best \in 1..Len(loops)
        BY <4>1 DEF SafeInv, InPool
      <4>3. QED
        BY <4>1, <4>2, PoolResult DEF Asked
    <3>2. Asked' = Asked /\ strategy' = strategy
      BY <2>2 DEF Asked, config
    <3>3. scan.answer = NoAnswer => \E i : Behind(queue'[Asked'], i)
      BY <1>0, <2>3, <3>1, <3>2 DEF ScanOK
    <3>4. QED
      BY <1>0, <2>2, <3>2, <3>3 DEF ScanOK, Behind
  <2>7. CountsOK' /\ EvenOK'
    <3>1. NoneClosed' => NoneClosed
      BY <2>2 DEF NoneClosed
    <3>2. QED
      BY <1>0, <2>2, <3>1, CountsSame, EvenSame
  <2>8. QED
    BY <2>5, <2>6, <2>7 DEF BalanceInv
<1>5. QED
  BY <1>1, <1>2, <1>3, <1>4, AcceptBalance, CompareBalance, RunBalance DEF Next, HandleRead

\* RoundRobin spreads all connections evenly over the pool, whatever happens to
\* them later, and LeastConnection does so as long as none has closed, although
\* every loop establishes its connections at its own pace (load_balance.go).
THEOREM PoolIsBalanced == Spec => []Balanced
<1>1. SafeInv /\ BalanceInv => Balanced
  <2> SUFFICES ASSUME SafeInv, BalanceInv,
                      strategy = "RoundRobin" \/ NoneClosed
               PROVE  Level
    <3>1. loops \in Seq(WorkerSet) => DOMAIN loops = 1..Len(loops)
      BY LenProperties
    <3>2. SafeInv => loops \in Seq(WorkerSet)
      BY PoolResult DEF SafeInv, OthersOK
    <3>3. QED
      BY <3>1, <3>2 DEF Balanced, NoneClosed, Level
  <2>1. EvenOK
    BY DEF BalanceInv
  <2>2. strategy \in {"RoundRobin", "LeastConnection"}
    BY ServerAssumption DEF SafeInv, OthersOK
  <2>3. CASE strategy = "RoundRobin"
    <3>1. PICK k \in Nat : \A i \in 1..Len(loops) :
             Handed(loops[i]) = IF i < nextLoopIndex THEN k + 1 ELSE k
      BY <2>1, <2>3 DEF EvenOK, InTurn
    <3>2. \A i \in 1..Len(loops) : Handed(loops[i]) \in {k, k + 1}
      BY <3>1
    <3>3. QED
      BY <3>2 DEF Level
  <2>4. CASE strategy # "RoundRobin"
    BY <2>1, <2>2, <2>4 DEF EvenOK
  <2>5. QED
    BY <2>3, <2>4
<1>2. OneQuestion /\ BaseWaits /\ BalanceInv /\ SafeInv /\ [Next]_vars
        => OneQuestion' /\ BaseWaits'
  BY LoopStepsKept
<1>3. Init => OneQuestion /\ BaseWaits
  BY QuestionsInitially
<1>4. QED
  BY <1>1, <1>2, <1>3, SafeInvInitially, SafeInvKept, BalanceInitially, BalanceInvKept,
     PTL DEF Spec

=============================================================================
