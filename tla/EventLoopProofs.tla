-------------------------- MODULE EventLoopProofs --------------------------
(***************************************************************************)
(* Theorems about EventLoop, for any number of goroutines, any bound on    *)
(* their calls and any capacity of the eventfd.                            *)
(***************************************************************************)
EXTENDS EventLoop, SequenceTheorems, TLAPS

\* Every variable keeps its type: in particular the eventfd counter never
\* exceeds its capacity, and Loop() handles only channels it registered.
THEOREM TypeCorrect == Spec => []TypeOK
<1>1. Init => TypeOK
  <2> SUFFICES ASSUME Init
               PROVE  TypeOK
    OBVIOUS
  <2>1. functors \in Seq(Functor) /\ batch \in Seq(Functor)
    BY DEF Init
  <2>2. eventfd \in 0..EventfdCap /\ loops \in 0..MaxLoops
    BY LoopAssumption DEF Init
  <2>3. calls \in [Goroutines -> 0..MaxCalls]
    BY LoopAssumption DEF Init
  <2>4. QED
    BY <2>1, <2>2, <2>3 DEF Init, TypeOK, Places, UserCode
<1>2. TypeOK /\ [Next]_vars => TypeOK'
  <2> SUFFICES ASSUME TypeOK, [Next]_vars
               PROVE  TypeOK'
    OBVIOUS
  <2> USE LoopAssumption DEF TypeOK
  <2>1. ASSUME NEW g \in Goroutines, NEW op \in Ops, RunDirect(g, op)
        PROVE  TypeOK'
    BY <2>1 DEF RunDirect, CanCall
  <2>2. ASSUME NEW g \in Goroutines, NEW op \in Ops, Enqueue(g, op)
        PROVE  TypeOK'
    <3>1. [op |-> op, from |-> g, n |-> calls[g] + 1] \in Functor
      BY <2>2 DEF Enqueue, CanCall, Functor
    <3>2. functors' \in Seq(Functor)
      BY <2>2, <3>1 DEF Enqueue
    <3>3. QED
      BY <2>2, <3>2 DEF Enqueue, CanCall
  <2>3. ASSUME NEW g \in Goroutines, Wakeup(g)
        PROVE  TypeOK'
    BY <2>3 DEF Wakeup, EventfdWrite
  <2>4. CASE LoopEnter
    BY <2>4 DEF LoopEnter, Places, UserCode
  <2>5. CASE UserReturn
    BY <2>5 DEF UserReturn, Places, UserCode, LoopTest
  <2>6. CASE IOEvent
    BY <2>6 DEF IOEvent
  <2>7. CASE Poll
    BY <2>7 DEF Poll, Places
  <2>8. CASE HandleWakeup
    BY <2>8 DEF HandleWakeup
  <2>9. CASE HandleIO
    BY <2>9 DEF HandleIO, Places, UserCode
  <2>10. CASE TakeFunctors
    BY <2>10 DEF TakeFunctors, Places
  <2>11. CASE ExecFunctor
    <3>1. batch' \in Seq(Functor)
      BY <2>11 DEF ExecFunctor, RestOfBatch
    <3>2. QED
      BY <2>11, <3>1 DEF ExecFunctor, Places, UserCode
  <2>12. CASE ExecDone
    BY <2>12 DEF ExecDone, LoopTest, Places
  <2>13. CASE LoopExit
    BY <2>13 DEF LoopExit, Places, UserCode
  <2>14. CASE UNCHANGED vars
    BY <2>14 DEF vars
  <2>15. QED
    BY <2>1, <2>2, <2>3, <2>4, <2>5, <2>6, <2>7, <2>8, <2>9, <2>10, <2>11,
       <2>12, <2>13, <2>14
    DEF Next, LoopStep, Call
<1>3. QED
  BY <1>1, <1>2, PTL DEF Spec

-----------------------------------------------------------------------------
(* NoLostWakeup is inductive relative to TypeOK.  Appending to ev.functors *)
(* puts the caller into `waking', its write makes the eventfd readable     *)
(* whatever the counter was, and the counter is cleared only between Poll  *)
(* and TakeFunctors, which empties ev.functors.                            *)

\* The write leaves the eventfd readable, also when it gets EAGAIN.
LEMMA EventfdReadable ==
    ASSUME NEW n \in 0..EventfdCap
    PROVE  EventfdWrite(n) > 0
BY LoopAssumption DEF EventfdWrite

\* Functors handed to RunInLoop (evloop.go:231-244) never wait for an
\* epoll_wait that nothing will interrupt.
THEOREM WakeupNeverLost == Spec => []NoLostWakeup
<1>1. Init => NoLostWakeup
  BY DEF Init, NoLostWakeup
<1>2. TypeOK /\ NoLostWakeup /\ [Next]_vars => NoLostWakeup'
  <2> SUFFICES ASSUME TypeOK, NoLostWakeup, [Next]_vars
               PROVE  NoLostWakeup'
    OBVIOUS
  <2> USE DEF NoLostWakeup
  <2>1. ASSUME NEW g \in Goroutines, NEW op \in Ops, RunDirect(g, op)
        PROVE  NoLostWakeup'
    BY <2>1 DEF RunDirect
  <2>2. ASSUME NEW g \in Goroutines, NEW op \in Ops, Enqueue(g, op)
        PROVE  NoLostWakeup'
    BY <2>2 DEF Enqueue
  <2>3. ASSUME NEW g \in Goroutines, Wakeup(g)
        PROVE  NoLostWakeup'
    BY <2>3, EventfdReadable DEF Wakeup, TypeOK
  <2>4. CASE LoopEnter
    BY <2>4 DEF LoopEnter
  <2>5. CASE UserReturn
    BY <2>5 DEF UserReturn, UserCode
  <2>6. CASE IOEvent
    BY <2>6 DEF IOEvent
  <2>7. CASE Poll
    BY <2>7 DEF Poll
  <2>8. CASE HandleWakeup
    BY <2>8 DEF HandleWakeup
  <2>9. CASE HandleIO
    BY <2>9 DEF HandleIO
  <2>10. CASE TakeFunctors
    BY <2>10 DEF TakeFunctors
  <2>11. CASE ExecFunctor
    BY <2>11 DEF ExecFunctor
  <2>12. CASE ExecDone
    BY <2>12 DEF ExecDone
  <2>13. CASE LoopExit
    BY <2>13 DEF LoopExit
  <2>14. CASE UNCHANGED vars
    BY <2>14 DEF vars
  <2>15. QED
    BY <2>1, <2>2, <2>3, <2>4, <2>5, <2>6, <2>7, <2>8, <2>9, <2>10, <2>11,
       <2>12, <2>13, <2>14
    DEF Next, LoopStep, Call
<1>3. QED
  BY <1>1, <1>2, TypeCorrect, PTL DEF Spec

-----------------------------------------------------------------------------
(* The strengthening of NoPanic: while the eventfd's channel is among      *)
(* those Poll() returned, the counter is not 0.  It holds because only     *)
(* that channel's callback reads the eventfd.                              *)

PanicInv ==
    /\ ~panicked
    /\ "wakeup" \in active => eventfd > 0

\* If DoOnStop has been called (evloop.go:188), no step of the loop or of its
\* callers panics: the read of evloop.go:76 finds a counter above 0 and the
\* call of evloop.go:227 finds a function.
THEOREM NeverPanics == ASSUME HasOnStop PROVE Spec => []NoPanic
<1>1. Init => PanicInv
  BY DEF Init, PanicInv
<1>2. TypeOK /\ PanicInv /\ [Next]_vars => PanicInv'
  <2> SUFFICES ASSUME TypeOK, PanicInv, [Next]_vars
               PROVE  PanicInv'
    OBVIOUS
  <2> USE DEF PanicInv
  <2>1. ASSUME NEW g \in Goroutines, NEW op \in Ops, RunDirect(g, op)
        PROVE  PanicInv'
    BY <2>1 DEF RunDirect
  <2>2. ASSUME NEW g \in Goroutines, NEW op \in Ops, Enqueue(g, op)
        PROVE  PanicInv'
    BY <2>2 DEF Enqueue
  <2>3. ASSUME NEW g \in Goroutines, Wakeup(g)
        PROVE  PanicInv'
    BY <2>3, EventfdReadable DEF Wakeup, TypeOK
  <2>4. CASE LoopEnter
    BY <2>4 DEF LoopEnter
  <2>5. CASE UserReturn
    BY <2>5 DEF UserReturn
  <2>6. CASE IOEvent
    BY <2>6 DEF IOEvent
  <2>7. CASE Poll
    BY <2>7 DEF Poll
  <2>8. CASE HandleWakeup
    <3>1. eventfd # 0
      BY <2>8 DEF HandleWakeup, TypeOK
    <3>2. ~panicked'
      BY <2>8, <3>1, Zenon DEF HandleWakeup
    <3>3. QED
      BY <2>8, <3>2 DEF HandleWakeup
  <2>9. CASE HandleIO
    BY <2>9 DEF HandleIO
  <2>10. CASE TakeFunctors
    BY <2>10 DEF TakeFunctors
  <2>11. CASE ExecFunctor
    BY <2>11 DEF ExecFunctor
  <2>12. CASE ExecDone
    BY <2>12 DEF ExecDone
  <2>13. CASE LoopExit
    <3>1. ~panicked'
      BY <2>13, HasOnStop, Zenon DEF LoopExit
    <3>2. QED
      BY <2>13, <3>1 DEF LoopExit
  <2>14. CASE UNCHANGED vars
    BY <2>14 DEF vars
  <2>15. QED
    BY <2>1, <2>2, <2>3, <2>4, <2>5, <2>6, <2>7, <2>8, <2>9, <2>10, <2>11,
       <2>12, <2>13, <2>14
    DEF Next, LoopStep, Call
<1>3. PanicInv => NoPanic
  BY DEF PanicInv, NoPanic
<1>4. QED
  BY <1>1, <1>2, <1>3, TypeCorrect, PTL DEF Spec

-----------------------------------------------------------------------------
(* The refinement.  The executor's queue is batch \o functors, so taking   *)
(* the functors must be invisible: that needs the batch to be used up      *)
(* whenever Loop() is not executing it.                                    *)

BatchInv == batch # << >> => at \in {"exec", "functor"}

\* Loop() takes a new slice only when it has used up the one before
\* (evloop.go:222-224), so that no functor is overwritten.
LEMMA BatchUsedUp == Spec => []BatchInv
<1>1. Init => BatchInv
  BY DEF Init, BatchInv
<1>2. BatchInv /\ [Next]_vars => BatchInv'
  BY DEF BatchInv, vars, Next, LoopStep, Call, RunDirect, Enqueue, Wakeup,
         LoopEnter, UserReturn, IOEvent, Poll, HandleWakeup, HandleIO,
         TakeFunctors, ExecFunctor, ExecDone, LoopExit, UserCode
<1>3. QED
  BY <1>1, <1>2, PTL DEF Spec

\* Taking the head of s \o t from a nonempty s.
LEMMA PopConcat ==
    ASSUME NEW S, NEW s \in Seq(S), NEW t \in Seq(S), s # << >>
    PROVE  /\ s \o t # << >>
           /\ Head(s \o t) = Head(s)
           /\ Tail(s \o t) = Tail(s) \o t
OBVIOUS

\* Appending to t appends to s \o t.
LEMMA PushConcat ==
    ASSUME NEW S, NEW s \in Seq(S), NEW t \in Seq(S), NEW e \in S
    PROVE  s \o Append(t, e) = Append(s \o t, e)
OBVIOUS

\* Loop() and RunInLoop implement the executor of LoopExecutor: functors run
\* once each, in the order in which they were queued, and a call that waits
\* is released by its own functor (evloop.go:215-224 and :231-244).
THEOREM LoopImplementsExecutor == Spec => ImplementsExecutor
<1>1. Init => Executor!Init
  BY DEF Init, Executor!Init, Pending
<1>2. TypeOK /\ BatchInv /\ [Next]_vars
        => [Executor!Next]_<<Pending, waits>>
  <2> SUFFICES ASSUME TypeOK, BatchInv, [Next]_vars
               PROVE  Executor!Next \/ UNCHANGED <<Pending, waits>>
    OBVIOUS
  <2>1. ASSUME NEW g \in Goroutines, NEW op \in Ops, Enqueue(g, op)
        PROVE  Executor!Next
    <3> DEFINE f == [op |-> op, from |-> g, n |-> calls[g] + 1]
    <3>1. f \in Functor
      BY <2>1, LoopAssumption DEF Enqueue, CanCall, Functor, TypeOK
    <3>2. Pending' = Append(Pending, f)
      BY SMTT(40), <2>1, <3>1, PushConcat DEF Enqueue, Pending, TypeOK
    <3>3. f.from \notin waits
      BY <2>1 DEF Enqueue, CanCall
    <3>4. waits' = IF f \in {h \in Functor : h.op \in SyncOps}
                   THEN waits \cup {f.from} ELSE waits
      BY <2>1, <3>1 DEF Enqueue
    <3>5. Executor!Submit(f)
      BY <3>2, <3>3, <3>4 DEF Executor!Submit
    <3>6. QED
      BY <3>1, <3>5 DEF Executor!Next
  <2>2. CASE ExecFunctor
    <3>1. /\ Pending # << >>
          /\ Head(Pending) = Head(batch)
          /\ Tail(Pending) = Tail(batch) \o functors
      BY <2>2, PopConcat DEF ExecFunctor, Pending, TypeOK
    <3>2. Pending' = Tail(Pending)
      BY <2>2, <3>1 DEF ExecFunctor, RestOfBatch, Pending
    <3>3. Head(batch) \in Functor
      BY <2>2 DEF ExecFunctor, TypeOK
    <3>4. waits' = IF Head(Pending) \in {h \in Functor : h.op \in SyncOps}
                   THEN waits \ {Head(Pending).from} ELSE waits
      BY <2>2, <3>1, <3>3 DEF ExecFunctor
    <3>5. QED
      BY <3>1, <3>2, <3>4 DEF Executor!Next, Executor!RunOldest
  <2>3. CASE TakeFunctors
    <3>1. batch = << >>
      BY <2>3 DEF TakeFunctors, BatchInv
    <3>2. Pending' = Pending
      BY <2>3, <3>1 DEF TakeFunctors, Pending, TypeOK
    <3>3. QED
      BY <2>3, <3>2 DEF TakeFunctors
  <2>4. ASSUME NEW g \in Goroutines, NEW op \in Ops, RunDirect(g, op)
        PROVE  UNCHANGED <<Pending, waits>>
    BY <2>4 DEF RunDirect, Pending
  <2>5. ASSUME NEW g \in Goroutines, Wakeup(g)
        PROVE  UNCHANGED <<Pending, waits>>
    BY <2>5 DEF Wakeup, Pending
  <2>6. CASE LoopEnter \/ UserReturn \/ IOEvent \/ Poll
    BY <2>6 DEF LoopEnter, UserReturn, IOEvent, Poll, Pending
  <2>7. CASE HandleWakeup \/ HandleIO \/ ExecDone \/ LoopExit
    BY <2>7 DEF HandleWakeup, HandleIO, ExecDone, LoopExit, Pending
  <2>8. CASE UNCHANGED vars
    BY <2>8 DEF vars, Pending
  <2>9. QED
    BY <2>1, <2>2, <2>3, <2>4, <2>5, <2>6, <2>7, <2>8
    DEF Next, LoopStep, Call
<1>3. QED
  BY <1>1, <1>2, TypeCorrect, BatchUsedUp, PTL
  DEF Spec, ImplementsExecutor, Executor!Spec

=============================================================================
