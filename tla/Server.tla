------------------------------- MODULE Server -------------------------------
(***************************************************************************)
(* tcp_server.go, tcp_acceptor.go, eventloop_goroutine.go,                 *)
(* eventloop_goroutine_poll.go and load_balance.go: a server that accepts  *)
(* connections in the base loop and hands each one to a loop of its pool.  *)
(*                                                                         *)
(* A loop is what LoopExecutor promises: a queue of functors that its      *)
(* goroutine runs, oldest first.  A goroutine that has asked a loop for    *)
(* its GetChannelCount() waits until its functor has run.  What happens on *)
(* a connection is TCPConnection's: here it is established and closed, and *)
(* its callbacks may ask the base loop.                                    *)
(***************************************************************************)
EXTENDS Integers, Sequences, FiniteSets

CONSTANTS
    Base,         \* the base loop, and its goroutine
    Workers,      \* the loops of the largest pool, in order
    Sizes,        \* the values of numWorkingThread
    Strategies,   \* the strategies that are passed to NewTCPServer
    Starters,     \* who calls Start(): "base" before Loop(), "other" at any time
    AskUnder,     \* strategies under which worker callbacks ask the base loop
    NoAnswer,     \* no count, and no loop
    MaxConns,     \* bound: connections
    MaxAsks       \* bound: questions of worker callbacks

WorkerSet == {Workers[i] : i \in DOMAIN Workers}

\* newEventloopGoroutinePoll makes every loop of the pool anew.
ASSUME ServerAssumption ==
    /\ Workers \in Seq(WorkerSet)
    /\ \A i, j \in DOMAIN Workers : Workers[i] = Workers[j] => i = j
    /\ Base \notin WorkerSet
    /\ Sizes \subseteq 0..Len(Workers)
    /\ Strategies \subseteq {"RoundRobin", "LeastConnection"}
    /\ Starters \subseteq {"base", "other"}
    /\ AskUnder \subseteq Strategies
    /\ NoAnswer \notin Nat \cup WorkerSet \cup {Base}
    /\ MaxConns \in Nat
    /\ MaxAsks \in Nat

\* The connections, in the order in which they are made.
Conns == 1..MaxConns

VARIABLES
    loops,           \* poll.loops
    strategy,        \* poll.strategy
    nextLoopIndex,   \* of RoundRobin, from 1
    scan,            \* the locals of LeastConnection; idle when conn = {}
    starter,         \* who calls Start()
    toStart,         \* what Start() has still to do
    started,         \* poll.started
    running,         \* the loops whose goroutine is in Loop()
    queue,           \* functors of each loop
    conn,            \* how far each connection is
    loopOf,          \* the loop that each connection was handed to
    asks,            \* questions of worker callbacks so far
    panicked         \* getNext() has panicked

config == <<loops, strategy, starter>>
vars == <<config, nextLoopIndex, scan, toStart, started, running, queue, conn,
          loopOf, asks, panicked>>

\* newEventloopGoroutinePoll: the pools that NewTCPServer may make.
Pools == {SubSeq(Workers, 1, n) : n \in Sizes}

Loops == WorkerSet \cup {Base}
Count == [op : {"count"}, from : Loops, conn : {NoAnswer}]
Functor == Count \cup [op : {"establish"}, from : {Base}, conn : Conns]
Idle == [conn |-> {}, i |-> 1, best |-> 1, count |-> NoAnswer, answer |-> NoAnswer]

TypeOK ==
    /\ loops \in Pools
    /\ strategy \in Strategies
    /\ starter \in Starters
    /\ nextLoopIndex \in 1..(IF loops = << >> THEN 1 ELSE Len(loops))
    /\ scan.conn \in SUBSET Conns /\ Cardinality(scan.conn) <= 1
    /\ scan.i \in 1..(Len(loops) + 1) /\ scan.best \in 1..(Len(loops) + 1)
    /\ {scan.count, scan.answer} \subseteq 0..Cardinality(Conns) \cup {NoAnswer}
    /\ toStart \in Seq(Loops \cup {"Listen", "started"})
    /\ started \in BOOLEAN
    /\ running \subseteq Loops
    /\ queue \in [Loops -> Seq(Functor)]
    /\ conn \in [Conns -> {"none", "pending", "accepted", "queued", "up", "closed"}]
    /\ loopOf \in [Conns -> Loops \cup {NoAnswer}]
    /\ asks \in 0..MaxAsks
    /\ panicked \in BOOLEAN

\* The steps of Start(): a bug that does not set poll.started, and one that
\* does not start the last loop.
StartSteps_NotMarked(ls) == <<"Listen">> \o ls
StartSteps_AllButLast(ls) ==
    <<"Listen">> \o SubSeq(ls, 1, Len(ls) - 1) \o <<"started">>
StartSteps(ls) == <<"Listen">> \o ls \o <<"started">>

\* NewTCPServer.
Init ==
    /\ loops \in Pools
    /\ strategy \in Strategies
    /\ starter \in Starters
    /\ nextLoopIndex = 1
    /\ scan = Idle
    /\ toStart = StartSteps(loops)
    /\ started = FALSE
    /\ running = {}
    /\ queue = [l \in Loops |-> << >>]
    /\ conn = [c \in Conns |-> "none"]
    /\ loopOf = [c \in Conns |-> NoAnswer]
    /\ asks = 0
    /\ panicked = FALSE

\* Goroutine g waits for the answer to a functor of its own.
Blocked(g) ==
    \E l \in Loops : \E i \in DOMAIN queue[l] :
        queue[l][i].op = "count" /\ queue[l][i].from = g

\* The goroutine of loop l is in Loop() and not in the middle of a handler.
Free(l) ==
    /\ ~panicked
    /\ l \in running
    /\ ~Blocked(l)
    /\ l = Base => scan.conn = {}

\* poller.GetChannelCount(), less the channels that every loop has.
ChannelCount(l) == Cardinality({c \in Conns : conn[c] = "up" /\ loopOf[c] = l})

-----------------------------------------------------------------------------
(* Start() and Loop().                                                     *)

\* Whoever calls Start() takes its next step: Listen, after which clients can
\* connect, startLoop of each loop of the pool, and poll.started = 1.  When
\* "base" calls it Loop() comes afterwards.
Start ==
    LET step == Head(toStart) IN
    /\ ~panicked
    /\ toStart # << >>
    /\ toStart' = Tail(toStart)
    /\ running' = IF step \in WorkerSet THEN running \cup {step} ELSE running
    /\ started' = (step = "started")
    /\ UNCHANGED <<config, nextLoopIndex, scan, queue, conn, loopOf, asks, panicked>>

Loop ==
    /\ ~panicked
    /\ Base \notin running
    /\ starter = "base" => toStart = << >>
    /\ running' = running \cup {Base}
    /\ UNCHANGED <<config, nextLoopIndex, scan, toStart, started, queue, conn,
                   loopOf, asks, panicked>>

Listening == \A i \in DOMAIN toStart : toStart[i] # "Listen"

\* The next client connects: the kernel queues the connection.
Connects(c) ==
    /\ Listening
    /\ conn[c] = "none" /\ \A d \in 1..(c - 1) : conn[d] # "none"
    /\ conn' = [conn EXCEPT ![c] = "pending"]
    /\ UNCHANGED <<config, nextLoopIndex, scan, toStart, started, running, queue,
                   loopOf, asks, panicked>>

-----------------------------------------------------------------------------
(* HandleRead() and onNewConnection(), in the base loop.                   *)

\* A question to loop l: RunInLoop of a functor that answers.  A bug that
\* reads the poller of the other loop at once.
Ask_AtOnce(l, s) ==
    /\ scan' = [s EXCEPT !.answer = ChannelCount(l)]
    /\ UNCHANGED queue
Ask(l, s) ==
    /\ queue' = [queue EXCEPT ![l] = Append(@, [op |-> "count", from |-> Base, conn |-> NoAnswer])]
    /\ scan' = [s EXCEPT !.answer = NoAnswer]

\* The end of onNewConnection: loop.RunInLoop(establishConn), which in the
\* base loop itself is a call.
HandTo(l, c) ==
    /\ loopOf' = [loopOf EXCEPT ![c] = l]
    /\ scan' = Idle
    /\ IF l = Base
       THEN /\ conn' = [conn EXCEPT ![c] = "up"]
            /\ UNCHANGED queue
       ELSE /\ conn' = [conn EXCEPT ![c] = "queued"]
            /\ queue' = [queue EXCEPT ![l] =
                            Append(@, [op |-> "establish", from |-> Base, conn |-> c])]

\* The listening socket is readable: c is the connection that has waited most.
Readable(c) ==
    /\ Free(Base)
    /\ conn[c] = "pending" /\ \A d \in 1..(c - 1) : conn[d] # "pending"

\* A base loop that accepts before poll.started = 1 panics in getNext().
AcceptTooEarly(c) ==
    /\ Readable(c)
    /\ ~started
    /\ panicked' = TRUE
    /\ conn' = [conn EXCEPT ![c] = "accepted"]
    /\ UNCHANGED <<config, nextLoopIndex, scan, toStart, started, running, queue,
                   loopOf, asks>>

Accept(c) ==
    /\ Readable(c)
    /\ started
    /\ UNCHANGED <<config, toStart, started, running, asks, panicked>>

\* No pool: the base loop keeps the connection.
AcceptAlone(c) ==
    /\ Accept(c)
    /\ loops = << >>
    /\ HandTo(Base, c)
    /\ UNCHANGED nextLoopIndex

\* The index after i.
After(i) == (i % Len(loops)) + 1

AcceptRoundRobin(c) ==
    /\ Accept(c)
    /\ loops # << >> /\ strategy = "RoundRobin"
    /\ HandTo(loops[nextLoopIndex], c)
    /\ nextLoopIndex' = After(nextLoopIndex)

\* LeastConnection begins with the first loop as the best and compares it with
\* each of the others, if there are any.
AcceptLeast(c) ==
    /\ Accept(c)
    /\ loops # << >> /\ strategy = "LeastConnection"
    /\ IF Len(loops) = 1
       THEN HandTo(loops[1], c)
       ELSE /\ conn' = [conn EXCEPT ![c] = "accepted"]
            /\ Ask(loops[2], [Idle EXCEPT !.conn = {c}, !.i = 2])
            /\ UNCHANGED loopOf
    /\ UNCHANGED nextLoopIndex

\* The base loop has its answer: after the one of loops[i] it asks the best
\* loop so far, again for every i, and after both it compares.
Compare ==
    LET fewer == scan.count < scan.answer
        s == [scan EXCEPT !.best = IF fewer THEN scan.i ELSE @,
                          !.i = @ + 1, !.count = NoAnswer]
    IN /\ ~panicked
       /\ scan.conn # {} /\ scan.answer # NoAnswer
       /\ IF scan.count = NoAnswer
          THEN /\ Ask(loops[scan.best], [scan EXCEPT !.count = scan.answer])
               /\ UNCHANGED <<conn, loopOf>>
          ELSE IF s.i <= Len(loops)
          THEN Ask(loops[s.i], s) /\ UNCHANGED <<conn, loopOf>>
          ELSE \E c \in scan.conn : HandTo(loops[s.best], c)
       /\ UNCHANGED <<config, nextLoopIndex, toStart, started, running, asks, panicked>>

-----------------------------------------------------------------------------
(* What happens in the loops.                                              *)

\* Which functor runs next, and those that stay: a bug that takes the newest.
Next1_Newest(q) == [functor |-> q[Len(q)], others |-> SubSeq(q, 1, Len(q) - 1)]
Next1(q) == [functor |-> Head(q), others |-> Tail(q)]

\* A loop runs a functor: establishConn, or a count for whoever waits for it.
RunFunctor(l) ==
    LET f == Next1(queue[l]).functor IN
    /\ Free(l)
    /\ queue[l] # << >>
    /\ queue' = [queue EXCEPT ![l] = Next1(@).others]
    /\ IF f.op = "establish"
       THEN conn' = [conn EXCEPT ![f.conn] = "up"] /\ UNCHANGED scan
       ELSE /\ scan' = IF f.from = Base THEN [scan EXCEPT !.answer = ChannelCount(l)] ELSE scan
            /\ UNCHANGED conn
    /\ UNCHANGED <<config, nextLoopIndex, toStart, started, running, loopOf, asks, panicked>>

\* A connection closes, in its loop: its channel is removed.
Close(c) ==
    /\ conn[c] = "up"
    /\ Free(loopOf[c])
    /\ conn' = [conn EXCEPT ![c] = "closed"]
    /\ UNCHANGED <<config, nextLoopIndex, scan, toStart, started, running, queue,
                   loopOf, asks, panicked>>

\* A callback of a connection asks the base loop for its count and waits: a
\* program that does so under every strategy.
AskBase_Anyhow(w) ==
    /\ Free(w)
    /\ \E c \in Conns : conn[c] = "up" /\ loopOf[c] = w
    /\ asks < MaxAsks
    /\ asks' = asks + 1
    /\ queue' = [queue EXCEPT ![Base] = Append(@, [op |-> "count", from |-> w, conn |-> NoAnswer])]
    /\ UNCHANGED <<config, nextLoopIndex, scan, toStart, started, running, conn, loopOf, panicked>>
AskBase(w) == strategy \in AskUnder /\ AskBase_Anyhow(w)

-----------------------------------------------------------------------------
HandleRead(c) ==
    AcceptTooEarly(c) \/ AcceptAlone(c) \/ AcceptRoundRobin(c) \/ AcceptLeast(c)

Next ==
    \/ Start \/ Loop \/ Compare
    \/ \E c \in Conns : Connects(c) \/ HandleRead(c) \/ Close(c)
    \/ \E l \in Loops : RunFunctor(l)
    \/ \E w \in WorkerSet : AskBase(w)

Spec == Init /\ [][Next]_vars

\* Goroutines are scheduled; every turn of Loop() serves the ready channels
\* and then the functors.
Fairness ==
    /\ WF_vars(Start) /\ WF_vars(Loop) /\ WF_vars(Compare)
    /\ \A c \in Conns : WF_vars(HandleRead(c))
    /\ \A l \in Loops : WF_vars(RunFunctor(l))

FairSpec == Spec /\ Fairness

-----------------------------------------------------------------------------
(* Properties.                                                             *)

\* getNext() finds a loop of the pool for every connection, with its index in
\* range.  Start() listens before poll.started = 1 (tcp_server.go:45-50), but
\* the accept that getNext() panics on comes only if Start() is called from
\* outside the base loop's goroutine while that loop runs.
GetNextSafe == TypeOK /\ (panicked => starter = "other")

Handed(l) == Cardinality({c \in Conns : loopOf[c] = l})

\* Both strategies spread the connections evenly over the pool: RoundRobin all
\* that were ever handed out, LeastConnection as long as none has closed.  The
\* latter holds although loops establish connections at their own pace, since
\* the count is asked for behind the connections (load_balance.go:23).
Balanced ==
    strategy = "RoundRobin" \/ (\A c \in Conns : conn[c] # "closed") =>
        \A i, j \in DOMAIN loops : Handed(loops[i]) <= Handed(loops[j]) + 1

\* The server uses every loop, the base loop included, in the way that an
\* event loop supports: what is proved of EventLoop holds for each of them.
Executor(l) == INSTANCE LoopExecutor WITH
    Task <- Functor,
    SyncTask <- Count,
    pending <- queue[l],
    blocked <- {queue[l][i].from : i \in {k \in DOMAIN queue[l] : queue[l][k].op = "count"}}
LoopsAreExecutors ==
    /\ \A l \in Loops : Executor(l)!Init
    /\ [][\A l \in Loops : Executor(l)!Next \/ UNCHANGED queue[l]]_vars

\* Every connection that the kernel has queued is established in the end, in
\* its loop, whatever the loops do meanwhile.
EveryConnServed ==
    \A c \in Conns : (conn[c] = "pending") ~> (conn[c] \in {"up", "closed"} \/ panicked)

\* Nobody waits for ever for another loop's answer: the base loop in
\* LeastConnection (load_balance.go:23), the callbacks that ask the base loop.
EveryWaitEnds == \A l \in Loops : Blocked(l) ~> (~Blocked(l) \/ panicked)

=============================================================================
