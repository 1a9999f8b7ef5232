------------------------------ MODULE EventLoop ------------------------------
(***************************************************************************)
(* pkg/event_loop/evloop.go: one eventloop, the goroutine that calls its   *)
(* Loop(), and the goroutines that call RunInLoop, Stop, RunAt (which      *)
(* stands for the three calls that wait for an answer behind a goroutine   *)
(* id test: RunAt, CancelTimer, GetChannelCount) and, on a connection of   *)
(* the loop, IsConnected (which waits without that test).                  *)
(*                                                                         *)
(* The loop goroutine's place in Loop() is the variable `at'.  User code   *)
(* runs on it at the places in UserCode, and may call the API from there.  *)
(***************************************************************************)
EXTENDS Integers, Sequences, FiniteSets

CONSTANTS
    LoopG,        \* the goroutine that calls Loop()
    Others,       \* the other goroutines
    NoGid,        \* ev.gid before the first Loop(): 0, no goroutine's id
    OpsOf,        \* which API calls each goroutine makes
    HasOnStop,    \* whether DoOnStop has been called
    EventfdCap,   \* how many wakeup writes the eventfd counter holds
    MaxCalls,     \* bound: API calls per goroutine
    MaxLoops      \* bound: calls of Loop()

Goroutines == Others \cup {LoopG}
Ops == {"RunInLoop", "Stop", "RunAt", "IsConnected"}
SyncOps == {"RunAt", "IsConnected"}

ASSUME LoopAssumption ==
    /\ LoopG \notin Others
    /\ NoGid \notin Goroutines
    /\ OpsOf \in [Goroutines -> SUBSET Ops]
    /\ HasOnStop \in BOOLEAN
    /\ EventfdCap \in Nat \ {0}
    /\ MaxCalls \in Nat
    /\ MaxLoops \in Nat

\* A closure in ev.functors: which call queued it, and that call's number.
Functor == [op : Ops, from : Goroutines, n : 1..MaxCalls]

VARIABLES
    running,      \* ev.running
    gid,          \* ev.gid
    functors,     \* ev.functors
    batch,        \* the local slice f that Loop() is executing
    eventfd,      \* counter of the eventfd, in units of one wakeup() write
    ioReady,      \* a channel other than the eventfd's is ready in epoll
    active,       \* channels returned by Poll() and not yet handled
    at,           \* where the loop goroutine is
    waking,       \* goroutines between the append and wakeup() in RunInLoop
    waits,        \* goroutines waiting on their answer channel c
    calls,        \* API calls made so far
    loops,        \* calls of Loop() made so far
    panicked      \* the process died of a panic

vars == <<running, gid, functors, batch, eventfd, ioReady, active, at,
          waking, waits, calls, loops, panicked>>

UserCode == {"outside", "onLoop", "io", "functor", "onStop"}
Places == UserCode \cup {"poll", "handle", "exec", "exit"}

TypeOK ==
    /\ running \in {0, 1}
    /\ gid \in {NoGid, LoopG}
    /\ functors \in Seq(Functor)
    /\ batch \in Seq(Functor)
    /\ eventfd \in 0..EventfdCap
    /\ ioReady \in BOOLEAN
    /\ active \in SUBSET {"wakeup", "io"}
    /\ at \in Places
    /\ waking \in SUBSET Goroutines
    /\ waits \in SUBSET Goroutines
    /\ calls \in [Goroutines -> 0..MaxCalls]
    /\ loops \in 0..MaxLoops
    /\ panicked \in BOOLEAN

Init ==
    /\ running = 0
    /\ gid = NoGid
    /\ functors = << >>
    /\ batch = << >>
    /\ eventfd = 0
    /\ ioReady = FALSE
    /\ active = {}
    /\ at = "outside"
    /\ waking = {}
    /\ waits = {}
    /\ calls = [g \in Goroutines |-> 0]
    /\ loops = 0
    /\ panicked = FALSE

-----------------------------------------------------------------------------
(* The API calls.                                                          *)

\* g executes user code: it is not inside a call, and if it is the loop
\* goroutine, Loop() has called back into user code.
CanCall(g, op) ==
    /\ ~panicked
    /\ g \notin waking \cup waits
    /\ op \in OpsOf[g]
    /\ calls[g] < MaxCalls
    /\ g = LoopG => at \in UserCode

\* RunInLoop and RunAt test which goroutine they are on; RunAt does not look
\* at ev.running.
IsDirect(g, op) == gid = g /\ (op = "RunAt" \/ running = 1)

\* The closure runs at once, on the calling goroutine.  Stop's stores 0.
\* The plain closure's own API calls are the caller's further calls.
RunDirect(g, op) ==
    /\ CanCall(g, op)
    /\ IsDirect(g, op)
    /\ calls' = [calls EXCEPT ![g] = @ + 1]
    /\ running' = IF op = "Stop" THEN 0 ELSE running
    /\ UNCHANGED <<gid, functors, batch, eventfd, ioReady, active, at,
                   waking, waits, loops, panicked>>

\* Under ev.mu the closure is appended to ev.functors.
Enqueue(g, op) ==
    /\ CanCall(g, op)
    /\ ~IsDirect(g, op)
    /\ calls' = [calls EXCEPT ![g] = @ + 1]
    /\ functors' = Append(functors, [op |-> op, from |-> g, n |-> calls[g] + 1])
    /\ waking' = waking \cup {g}
    /\ waits' = IF op \in SyncOps THEN waits \cup {g} ELSE waits
    /\ UNCHANGED <<running, gid, batch, eventfd, ioReady, active, at,
                   loops, panicked>>

\* write(2) adds the 8 bytes 0,..,0,1 to the counter: 2^56 on a little-endian
\* machine, so that 255 writes fit below 2^64 - 1 and the next gets EAGAIN.
EventfdWrite_Lost(n) == n
EventfdWrite_NoLimit(n) == n + 1
EventfdWrite(n) == IF n < EventfdCap THEN n + 1 ELSE n

\* ev.wakeup(), after ev.mu has been released.  EAGAIN is ignored.
Wakeup(g) ==
    /\ ~panicked
    /\ g \in waking
    /\ eventfd' = EventfdWrite(eventfd)
    /\ waking' = waking \ {g}
    /\ UNCHANGED <<running, gid, functors, batch, ioReady, active, at,
                   waits, calls, loops, panicked>>

Call(g) == \E op \in Ops : RunDirect(g, op) \/ Enqueue(g, op)

-----------------------------------------------------------------------------
(* Loop().                                                                 *)

\* The loop goroutine is not inside an API call.
LoopReady == ~panicked /\ LoopG \notin waking \cup waits

\* A loop that does not test its condition.
LoopTest_Forever == "poll"

\* The loop condition.  Only the loop goroutine ever stores to ev.running.
LoopTest == IF running = 1 THEN "poll" ELSE "exit"

\* Loop() is called: running goes from 0 to 1, gid is set, and doOnLoop runs.
\* Goroutines that read gid meanwhile see 0 or LoopG, neither their own.
LoopEnter ==
    /\ LoopReady
    /\ at = "outside"
    /\ loops < MaxLoops
    /\ running = 0
    /\ loops' = loops + 1
    /\ running' = 1
    /\ gid' = LoopG
    /\ at' = "onLoop"
    /\ UNCHANGED <<functors, batch, eventfd, ioReady, active, waking, waits,
                   calls, panicked>>

\* doOnLoop, a channel callback, a functor or doOnStop returns to Loop().
UserReturn ==
    /\ LoopReady
    /\ at \in UserCode \ {"outside"}
    /\ at' = CASE at = "onLoop"  -> LoopTest
               [] at = "io"      -> "handle"
               [] at = "functor" -> "exec"
               [] at = "onStop"  -> "outside"
    /\ UNCHANGED <<running, gid, functors, batch, eventfd, ioReady, active,
                   waking, waits, calls, loops, panicked>>

\* Another channel of the loop becomes ready (a socket, the timerfd).
IOEvent ==
    /\ ~panicked
    /\ ~ioReady
    /\ ioReady' = TRUE
    /\ UNCHANGED <<running, gid, functors, batch, eventfd, active, at,
                   waking, waits, calls, loops, panicked>>

\* epoll_wait returns the ready channels; with none it blocks.
Poll ==
    /\ LoopReady
    /\ at = "poll"
    /\ eventfd > 0 \/ ioReady
    /\ active' = (IF eventfd > 0 THEN {"wakeup"} ELSE {})
                 \cup (IF ioReady THEN {"io"} ELSE {})
    /\ at' = "handle"
    /\ UNCHANGED <<running, gid, functors, batch, eventfd, ioReady, waking,
                   waits, calls, loops, panicked>>

\* The eventfd's read callback: read(2) clears the counter, and an error
\* (EAGAIN, when the counter is 0 already) is a panic.
HandleWakeup ==
    /\ LoopReady
    /\ at = "handle"
    /\ "wakeup" \in active
    /\ active' = active \ {"wakeup"}
    /\ eventfd' = 0
    /\ panicked' = (eventfd = 0)
    /\ UNCHANGED <<running, gid, functors, batch, ioReady, at, waking, waits,
                   calls, loops>>

\* The callback of another channel consumes what made it ready.
HandleIO_Misread ==
    /\ LoopReady
    /\ at = "handle"
    /\ "io" \in active
    /\ active' = active \ {"io"}
    /\ ioReady' = FALSE
    /\ eventfd' = 0
    /\ at' = "io"
    /\ UNCHANGED <<running, gid, functors, batch, waking, waits,
                   calls, loops, panicked>>
HandleIO ==
    /\ LoopReady
    /\ at = "handle"
    /\ "io" \in active
    /\ active' = active \ {"io"}
    /\ ioReady' = FALSE
    /\ at' = "io"
    /\ UNCHANGED <<running, gid, functors, batch, eventfd, waking, waits,
                   calls, loops, panicked>>

\* Under ev.mu Loop() takes ev.functors and leaves an empty slice.
TakeFunctors_NoReset ==
    /\ LoopReady
    /\ at = "handle"
    /\ active = {}
    /\ batch' = functors
    /\ at' = "exec"
    /\ UNCHANGED <<running, gid, functors, eventfd, ioReady, active, waking,
                   waits, calls, loops, panicked>>
TakeFunctors ==
    /\ LoopReady
    /\ at = "handle"
    /\ active = {}
    /\ batch' = functors
    /\ functors' = << >>
    /\ at' = "exec"
    /\ UNCHANGED <<running, gid, eventfd, ioReady, active, waking, waits,
                   calls, loops, panicked>>

\* What is left of the batch once its first functor has run.
RestOfBatch_BreakOnStop(b) == IF Head(b).op = "Stop" THEN << >> ELSE Tail(b)
RestOfBatch(b) == Tail(b)

\* The next functor of the batch runs: Stop's stores 0 in ev.running, a
\* synchronous call's sends the answer, a plain one is user code.
ExecFunctor ==
    /\ LoopReady
    /\ at = "exec"
    /\ batch # << >>
    /\ LET f == Head(batch) IN
         /\ batch' = RestOfBatch(batch)
         /\ running' = IF f.op = "Stop" THEN 0 ELSE running
         /\ waits' = IF f.op \in SyncOps THEN waits \ {f.from} ELSE waits
         /\ at' = IF f.op = "RunInLoop" THEN "functor" ELSE "exec"
    /\ UNCHANGED <<gid, functors, eventfd, ioReady, active, waking, calls,
                   loops, panicked>>

\* The batch is done: Loop() tests ev.running again.
ExecDone ==
    /\ LoopReady
    /\ at = "exec"
    /\ batch = << >>
    /\ at' = LoopTest
    /\ UNCHANGED <<running, gid, functors, batch, eventfd, ioReady, active,
                   waking, waits, calls, loops, panicked>>

\* ev.doOnStop is called whether or not it has been set.
LoopExit ==
    /\ LoopReady
    /\ at = "exit"
    /\ at' = "onStop"
    /\ panicked' = ~HasOnStop
    /\ UNCHANGED <<running, gid, functors, batch, eventfd, ioReady, active,
                   waking, waits, calls, loops>>

LoopStep ==
    \/ LoopEnter \/ UserReturn
    \/ Poll \/ HandleWakeup \/ HandleIO \/ TakeFunctors
    \/ ExecFunctor \/ ExecDone \/ LoopExit

Next ==
    \/ LoopStep
    \/ IOEvent
    \/ \E g \in Goroutines : Call(g) \/ Wakeup(g)

Spec == Init /\ [][Next]_vars

\* The Go scheduler runs every goroutine that is not blocked, user callbacks
\* return, and the program does call Loop().  Nobody has to call the API, and
\* no other channel has to become ready.
Fairness == WF_vars(LoopStep) /\ \A g \in Goroutines : WF_vars(Wakeup(g))

FairSpec == Spec /\ Fairness

-----------------------------------------------------------------------------
(* Properties.                                                             *)

\* RunInLoop's promise that "epoll_wait returns" (evloop.go:241): whenever
\* functors wait and Loop() will call epoll_wait before it takes them, either
\* the eventfd is readable or a goroutine is about to write to it.
NoLostWakeup ==
    \/ functors = << >>
    \/ at \in {"handle", "io"}
    \/ eventfd > 0
    \/ waking # {}

\* The eventfd's callback never reads an empty counter (evloop.go:76-79), and
\* Stop() ends Loop() without a panic (evloop.go:227).
NoPanic == ~panicked

\* Everything handed to RunInLoop and not yet run, oldest first.
Pending == batch \o functors

\* The loop implements the executor: functors run in the order in which
\* RunInLoop queued them, each once, none is dropped, not even by Stop, and
\* a caller is released by its own functor.
Executor == INSTANCE LoopExecutor WITH
    Task <- Functor,
    SyncTask <- {f \in Functor : f.op \in SyncOps},
    pending <- Pending,
    blocked <- waits
ImplementsExecutor == Executor!Spec

\* A call that waits for an answer (evloop.go:267, 282, 295) gets it, as long
\* as the loop runs and until it has been stopped.
AnsweredUnlessStopped ==
    \A g \in Goroutines :
        (g \in waits /\ running = 1) ~> (g \notin waits \/ running = 0)

\* "it will be triggered at specified timepoint" (evloop.go:112) supposes that
\* RunAt returns, whoever calls it and whenever.
SyncCallsReturn == \A g \in Goroutines : (g \in waits) ~> (g \notin waits)

\* Stop() makes Loop() return (evloop.go:109-110): once a Stop functor is
\* queued or has run, the loop goroutine leaves Loop().
StopQueued == \E i \in DOMAIN Pending : Pending[i].op = "Stop"
StopReturns ==
    (at # "outside" /\ (StopQueued \/ running = 0)) ~> (at = "outside")

=============================================================================
