---------------------------- MODULE TCPConnection ----------------------------
(***************************************************************************)
(* tcp_conn.go with the poller and the channels under it: the connections  *)
(* of one event loop, the epoll set and channelMap of that loop's poller,  *)
(* and the kernel's sockets behind the file descriptors.                   *)
(*                                                                         *)
(* The loop goroutine's call stack is the variable `stack', its top frame  *)
(* last.  A frame is either a user callback or the rest of a library       *)
(* function that has called one.  User code calls Send, ShutdownWrite and  *)
(* ForceClose from any callback, and the calls run at once, on top of it   *)
(* (RunInLoop on the loop goroutine).  Calls of other goroutines arrive as *)
(* functors, which run between two batches of epoll events.                *)
(***************************************************************************)
EXTENDS Integers, Sequences, FiniteSets

CONSTANTS
    Conns,        \* connections, each accepted at most once
    NoConn,       \* a nil Channel; in a batch, the timerfd's channel
    Fds,          \* file descriptors, positive integers
    OpsIn,        \* the API calls that user code makes in each callback
    CrossClose,   \* whether a callback of one channel closes another's conn
    OneLoop,      \* numWorkingThread = 0: accept runs on this loop too
    PeerResets,   \* whether peers send RST, or only close their side
    InputFills,   \* whether input that is left unread can fill its array
    HighWater,    \* hignWaterLevel, 0 means infinite
    MaxOut        \* bound: readable bytes of an outputBuffer

Ops == {"Send", "ShutdownWrite", "ForceClose", "SetOption"}
Callbacks == {"connected", "message", "writeComplete", "highWater",
              "disconnected", "functor", "timer"}
Events == {"in", "out"}

ASSUME ConnAssumption ==
    /\ NoConn \notin Conns
    /\ Fds \subseteq Nat \ {0}
    /\ OpsIn \in [Callbacks -> SUBSET Ops]
    /\ CrossClose \in BOOLEAN
    /\ OneLoop \in BOOLEAN
    /\ PeerResets \in BOOLEAN
    /\ InputFills \in BOOLEAN
    /\ HighWater \in Nat
    /\ MaxOut \in Nat \ {0}

VARIABLES
    state,        \* tcpConnection.state, "none" before accept(2)
    fd,           \* the descriptor in socketChannel
    events,       \* socketChannel.events
    revents,      \* socketChannel.revents
    out,          \* outputBuffer.ReadableBytes()
    readIndex,    \* sign of outputBuffer.readIndex: -1, 0 or 1
    inputFull,    \* connections whose inputBuffer has no room at its end
    channelMap,   \* poller.channelMap; its fds are those in the epoll set
    interest,     \* the event mask of each fd in the epoll set
    batch,        \* channels returned by Poll() and not yet handled
    stack,        \* the loop goroutine's call stack, top frame last
    open,         \* connections whose socket is open
    shut,         \* connections whose socket had shutdown(SHUT_WR)
    rx,           \* sockets with unread bytes
    full,         \* sockets with a full send buffer
    peer,         \* what the peer did last: "up", "eof" or "rst"
    stray,        \* the calls made on a socket of another connection
    panicked      \* the panic that killed the process, "no" for none

library == <<state, fd, events, revents, out, readIndex, inputFull>>
poller == <<channelMap, interest, batch>>
kernel == <<open, shut, rx, full, peer>>
vars == <<library, poller, stack, kernel, stray, panicked>>

Frame == [at : Callbacks \cup {"establish", "read", "write", "enable", "shut"},
          conn : Conns \cup {NoConn}]
F(at, c) == [at |-> at, conn |-> c]

States == {"none", "Connecting", "Connected", "Disconnecting", "Disconnected"}

\* A system call, and the state of the connection that made it.
Stray == [call : {"read", "write", "shutdown", "setsockopt"}, state : States]

TypeOK ==
    /\ state \in [Conns -> States]
    /\ fd \in [Conns -> Fds \cup {0}]
    /\ events \in [Conns -> SUBSET Events]
    /\ revents \in [Conns -> SUBSET Events]
    /\ out \in [Conns -> 0..MaxOut]
    /\ readIndex \in [Conns -> {-1, 0, 1}]
    /\ inputFull \in SUBSET Conns
    /\ channelMap \in [Fds -> Conns \cup {NoConn}]
    /\ interest \in [Fds -> SUBSET Events]
    /\ batch \in SUBSET (Conns \cup {NoConn})
    /\ stack \in Seq(Frame)
    /\ open \in SUBSET Conns
    /\ shut \in SUBSET Conns
    /\ rx \in SUBSET Conns
    /\ full \in SUBSET Conns
    /\ peer \in [Conns -> {"up", "eof", "rst"}]
    /\ stray \in SUBSET Stray
    /\ panicked \in {"no", "checkme", "epoll_ctl", "slice bounds"}

Init ==
    /\ state = [c \in Conns |-> "none"]
    /\ fd = [c \in Conns |-> 0]
    /\ events = [c \in Conns |-> {}]
    /\ revents = [c \in Conns |-> {}]
    /\ out = [c \in Conns |-> 0]
    /\ readIndex = [c \in Conns |-> 0]
    /\ inputFull = {}
    /\ channelMap = [f \in Fds |-> NoConn]
    /\ interest = [f \in Fds |-> {}]
    /\ batch = {}
    /\ stack = << >>
    /\ open = {}
    /\ shut = {}
    /\ rx = {}
    /\ full = {}
    /\ peer = [c \in Conns |-> "up"]
    /\ stray = {}
    /\ panicked = "no"

Alive == panicked = "no"
Top == stack[Len(stack)]
Below == SubSeq(stack, 1, Len(stack) - 1)
OnTop(at, c) == stack # << >> /\ Top = F(at, c)
Idle == stack = << >> /\ batch = {}

-----------------------------------------------------------------------------
(* The kernel: sockets and the epoll set.                                  *)

\* The connections whose socket descriptor f is: one, or none (EBADF).
SocketAt(f) == {o \in open : fd[o] = f}

\* Connection c makes a system call on its descriptor.
Uses(c, call) ==
    stray' = stray \cup {[call |-> call, state |-> state[c]] :
                            o \in SocketAt(fd[c]) \ {c}}

\* write(2) fails: EBADF, ECONNRESET, or EPIPE after shutdown or a reset.
WriteFails(c) == \A o \in SocketAt(fd[c]) : peer[o] = "rst" \/ o \in shut

\* readv(2) has an answer: an error, the end of the stream, or bytes.
ReadReady(c) == \A o \in SocketAt(fd[c]) : o \in rx \/ peer[o] # "up"

\* EPOLL_CTL_MOD with c's new events, and the panic on ENOENT or EBADF.
UpdateChannel(c, mask) ==
    /\ events' = [events EXCEPT ![c] = mask]
    /\ interest' = IF channelMap[fd[c]] # NoConn
                   THEN [interest EXCEPT ![fd[c]] = mask] ELSE interest
    /\ panicked' = IF channelMap[fd[c]] # NoConn THEN "no" ELSE "epoll_ctl"

\* EPOLL_CTL_DEL; only handleClose calls it, on a channel in the set.
RemoveChannel(c) ==
    /\ channelMap' = [channelMap EXCEPT ![fd[c]] = NoConn]
    /\ interest' = [interest EXCEPT ![fd[c]] = {}]

\* close(2): the socket is gone, with what it had not delivered.
CloseSocket(c) ==
    /\ open' = open \ {c}
    /\ shut' = shut \ {c}
    /\ rx' = rx \ {c}
    /\ full' = full \ {c}

\* The peer's side of an open socket.
PeerSend(c) ==
    /\ Alive /\ c \in open /\ peer[c] = "up" /\ c \notin rx
    /\ rx' = rx \cup {c}
    /\ UNCHANGED <<library, poller, stack, open, shut, full, peer, stray, panicked>>
PeerClose(c) ==
    /\ Alive /\ c \in open /\ peer[c] = "up"
    /\ peer' = [peer EXCEPT ![c] = "eof"]
    /\ UNCHANGED <<library, poller, stack, open, shut, rx, full, stray, panicked>>
PeerReset(c) ==
    /\ Alive /\ c \in open /\ peer[c] # "rst" /\ PeerResets
    /\ peer' = [peer EXCEPT ![c] = "rst"]
    /\ rx' = rx \ {c}
    /\ full' = full \ {c}
    /\ UNCHANGED <<library, poller, stack, open, shut, stray, panicked>>
PeerReads(c) ==
    /\ Alive /\ c \in full
    /\ full' = full \ {c}
    /\ UNCHANGED <<library, poller, stack, open, shut, rx, peer, stray, panicked>>

-----------------------------------------------------------------------------
(* Accepting and establishing.                                             *)

\* accept(2) returns the lowest free descriptor.
NewFd(f) == SocketAt(f) = {} /\ \A g \in Fds : g < f => SocketAt(g) # {}

\* The server makes the new descriptor a connection, which wants to read and
\* to write, and hands establishConn to RunInLoop, which runs it at once when
\* accept ran on this loop.
Accept(c) ==
    /\ Alive
    /\ state[c] = "none"
    /\ OneLoop => stack = << >>
    /\ \E f \in Fds : NewFd(f) /\ fd' = [fd EXCEPT ![c] = f]
    /\ state' = [state EXCEPT ![c] = "Connecting"]
    /\ events' = [events EXCEPT ![c] = Events]
    /\ open' = open \cup {c}
    /\ stack' = IF OneLoop THEN <<F("establish", c)>> ELSE stack
    /\ UNCHANGED <<revents, out, readIndex, inputFull, poller, shut, rx, full, peer,
                   stray, panicked>>

\* establishConn: the channel is new (index -1), so the poller adds it.
EstablishConn(c) ==
    /\ Alive
    /\ state[c] = "Connecting"
    /\ IF OneLoop THEN OnTop("establish", c) ELSE Idle
    /\ state' = [state EXCEPT ![c] = "Connected"]
    /\ channelMap' = [channelMap EXCEPT ![fd[c]] = c]
    /\ interest' = [interest EXCEPT ![fd[c]] = events[c]]
    /\ stack' = <<F("connected", c)>>
    /\ UNCHANGED <<fd, events, revents, out, readIndex, inputFull, batch, kernel, stray,
                   panicked>>

-----------------------------------------------------------------------------
(* One round of Loop(): Poll, the events, the functors.                    *)

\* What epoll_wait reports for a descriptor in the set (level-triggered).
Ready(f) ==
    LET c == channelMap[f] IN
    IF c = NoConn THEN {}
    ELSE {e \in interest[f] : \/ e = "in" /\ (c \in rx \/ peer[c] # "up")
                              \/ e = "out" /\ (c \notin full \/ c \in shut)}

\* epoll_wait returns every ready connection, and the timerfd or not.
Poll ==
    /\ Alive
    /\ Idle
    /\ \E timer \in IF OpsIn["timer"] = {} THEN {{}} ELSE {{}, {NoConn}} :
         batch' = timer \cup {channelMap[f] : f \in {g \in Fds : Ready(g) # {}}}
    /\ batch' # {}
    /\ revents' = [c \in Conns |-> IF c \in batch' THEN Ready(fd[c])
                                                   ELSE revents[c]]
    /\ UNCHANGED <<state, fd, events, out, readIndex, inputFull, channelMap,
                   interest, stack, kernel, stray, panicked>>

\* Channel.HandleEvent: the read callback, and after it the write callback.
HandleEvent(c) ==
    /\ Alive
    /\ stack = << >>
    /\ c \in batch
    /\ batch' = batch \ {c}
    /\ stack' = (IF "out" \in revents[c] THEN <<F("write", c)>> ELSE << >>)
                \o (IF "in" \in revents[c] THEN <<F("read", c)>> ELSE << >>)
    /\ UNCHANGED <<library, channelMap, interest, kernel, stray, panicked>>

\* A functor runs after the batch; a timer's callback runs within one.
RunFunctor ==
    /\ Alive
    /\ Idle
    /\ OpsIn["functor"] # {}
    /\ stack' = <<F("functor", NoConn)>>
    /\ UNCHANGED <<library, poller, kernel, stray, panicked>>
RunTimer ==
    /\ Alive
    /\ stack = << >>
    /\ NoConn \in batch
    /\ batch' = batch \ {NoConn}
    /\ stack' = <<F("timer", NoConn)>>
    /\ UNCHANGED <<library, channelMap, interest, kernel, stray, panicked>>

\* A handleClose that forgets RemoveChannelInLoopGoroutine.
HandleClose_NoRemove(c, rest) ==
    IF state[c] \in {"Connected", "Disconnecting"}
    THEN /\ state' = [state EXCEPT ![c] = "Disconnected"]
         /\ CloseSocket(c)
         /\ stack' = Append(rest, F("disconnected", c))
         /\ panicked' = "no"
         /\ UNCHANGED <<channelMap, interest>>
    ELSE /\ panicked' = "checkme"
         /\ UNCHANGED <<state, channelMap, interest, open, shut, rx, full, stack>>

\* handleClose, called with the frames `rest' below it.
HandleClose(c, rest) ==
    IF state[c] \in {"Connected", "Disconnecting"}
    THEN /\ state' = [state EXCEPT ![c] = "Disconnected"]
         /\ RemoveChannel(c)
         /\ CloseSocket(c)
         /\ stack' = Append(rest, F("disconnected", c))
         /\ panicked' = "no"
    ELSE /\ panicked' = "checkme"
         /\ UNCHANGED <<state, channelMap, interest, open, shut, rx, full, stack>>

\* handleRead when readv(2) returns bytes: all that there are.  They may fill
\* the array to its last byte, for as long as messageCallback takes none out.
HandleReadData(c) ==
    /\ Alive
    /\ OnTop("read", c)
    /\ c \notin inputFull
    /\ \E o \in SocketAt(fd[c]) : o \in rx /\ rx' = rx \ {o}
    /\ Uses(c, "read")
    /\ inputFull' \in {inputFull} \cup IF InputFills THEN {inputFull \cup {c}} ELSE {}
    /\ stack' = Append(Below, F("message", c))
    /\ UNCHANGED <<state, fd, events, revents, out, readIndex, poller, open, shut,
                   full, peer, panicked>>

\* A handleRead that takes 0 for "nothing to read yet".
HandleReadEnd_Ignored(c) ==
    /\ Alive
    /\ OnTop("read", c)
    /\ c \in inputFull \/ ReadReady(c)
    /\ c \in inputFull \/ \A o \in SocketAt(fd[c]) : o \notin rx
    /\ stack' = Below
    /\ UNCHANGED <<library, poller, kernel, stray, panicked>>

\* handleRead when ReadFD returns 0: there is no room in the array, and no
\* system call, or readv(2) returns 0 or an error.
HandleReadEnd(c) ==
    /\ Alive
    /\ OnTop("read", c)
    /\ \/ c \in inputFull /\ UNCHANGED stray
       \/ /\ c \notin inputFull
          /\ ReadReady(c)
          /\ \A o \in SocketAt(fd[c]) : o \notin rx
          /\ Uses(c, "read")
    /\ HandleClose(c, Below)
    /\ UNCHANGED <<fd, events, revents, out, readIndex, inputFull, batch, peer>>

\* handleWrite when write(2) fails: Retrieve(-1) moves readIndex back.
HandleWriteError(c) ==
    /\ Alive
    /\ OnTop("write", c)
    /\ readIndex[c] # -1
    /\ WriteFails(c)
    /\ Uses(c, "write")
    /\ out' = [out EXCEPT ![c] = IF @ < MaxOut THEN @ + 1 ELSE @]
    /\ \E r \in IF readIndex[c] = 1 THEN {0, 1} ELSE {-1} :
         readIndex' = [readIndex EXCEPT ![c] = r]
    /\ stack' = Below
    /\ UNCHANGED <<state, fd, events, revents, inputFull, poller, kernel, panicked>>

\* outputBuffer.Peek() slices from a negative readIndex.
HandleWritePanic(c) ==
    /\ Alive
    /\ OnTop("write", c)
    /\ readIndex[c] = -1
    /\ panicked' = "slice bounds"
    /\ UNCHANGED <<library, poller, stack, kernel, stray>>

\* How many bytes a successful write(2) takes.
Written_Over(c) == 1..(out[c] + 1)
Written(c) == IF out[c] = 0 THEN {0} ELSE 1..out[c]

\* handleWrite when write(2) takes n bytes.  When none are left it disables
\* writing and calls writeCompleteCallback.
HandleWriteSome(c) ==
    /\ Alive
    /\ OnTop("write", c)
    /\ ~WriteFails(c)
    /\ readIndex[c] # -1
    /\ Uses(c, "write")
    /\ \E n \in Written(c) :
         /\ out' = [out EXCEPT ![c] = @ - n]
         /\ readIndex' = [readIndex EXCEPT ![c] = IF n > 0 THEN 1 ELSE @]
    /\ full' \in {full, full \cup SocketAt(fd[c])}
    /\ IF out'[c] = 0
       THEN /\ UpdateChannel(c, events[c] \ {"out"})
            /\ stack' = Below \o <<F("shut", c), F("writeComplete", c)>>
       ELSE /\ stack' = Below
            /\ UNCHANGED <<events, interest, panicked>>
    /\ UNCHANGED <<state, fd, revents, inputFull, channelMap, batch, open, shut,
                   rx, peer>>

\* shutdown(2) on c's descriptor; its error is ignored.
ShutdownFD(c) ==
    /\ shut' = shut \cup SocketAt(fd[c])
    /\ Uses(c, "shutdown")

\* A handleWrite that does not look at the state after the callback.
FinishHandleWrite_Forgotten(c) ==
    /\ Alive
    /\ OnTop("shut", c)
    /\ stack' = Below
    /\ UNCHANGED <<library, poller, kernel, stray, panicked>>

\* The end of handleWrite, once writeCompleteCallback has returned.
FinishHandleWrite(c) ==
    /\ Alive
    /\ OnTop("shut", c)
    /\ stack' = Below
    /\ IF state[c] = "Disconnecting"
       THEN ShutdownFD(c)
       ELSE UNCHANGED <<shut, stray>>
    /\ UNCHANGED <<library, poller, open, rx, full, peer, panicked>>

-----------------------------------------------------------------------------
(* User code.                                                              *)

InUserCode(op) == stack # << >> /\ Top.at \in Callbacks /\ op \in OpsIn[Top.at]

\* An EnableWrite that is not followed by UpdateChannelInLoopGoroutine.
EnableWriting_NoUpdate(c) ==
    /\ events' = [events EXCEPT ![c] = @ \cup {"out"}]
    /\ UNCHANGED <<interest, panicked>>

\* The last part of Send: have the loop write.
EnableWriting(c) ==
    IF "out" \in events[c]
    THEN UNCHANGED <<events, interest, panicked>>
    ELSE UpdateChannel(c, events[c] \cup {"out"})

\* Send of one unit of bytes.  Append may move the bytes to the front of the
\* buffer.  Above the mark highWaterCallback runs before writing is enabled.
Send(c) ==
    /\ Alive
    /\ InUserCode("Send")
    /\ state[c] = "Connected"
    /\ out[c] < MaxOut
    /\ out' = [out EXCEPT ![c] = @ + 1]
    /\ \E r \in {readIndex[c], 0} : readIndex' = [readIndex EXCEPT ![c] = r]
    /\ IF HighWater # 0 /\ out'[c] > HighWater
       THEN /\ stack' = stack \o <<F("enable", c), F("highWater", c)>>
            /\ UNCHANGED <<events, interest, panicked>>
       ELSE /\ EnableWriting(c)
            /\ UNCHANGED stack
    /\ UNCHANGED <<state, fd, revents, inputFull, channelMap, batch, kernel, stray>>

\* The end of Send, once highWaterCallback has returned.
FinishSend(c) ==
    /\ Alive
    /\ OnTop("enable", c)
    /\ stack' = Below
    /\ EnableWriting(c)
    /\ UNCHANGED <<state, fd, revents, out, readIndex, inputFull, channelMap, batch,
                   kernel, stray>>

\* A ShutdownWrite that does not wait for pending output.
ShutdownWrite_AtOnce(c) ==
    /\ Alive
    /\ InUserCode("ShutdownWrite")
    /\ state[c] = "Connected"
    /\ state' = [state EXCEPT ![c] = "Disconnecting"]
    /\ ShutdownFD(c)
    /\ UNCHANGED <<fd, events, revents, out, readIndex, inputFull, poller, stack, open,
                   rx, full, peer, panicked>>

\* A ShutdownWrite that works on a closed connection too.
ShutdownWrite_Closed(c) ==
    /\ Alive
    /\ InUserCode("ShutdownWrite")
    /\ state[c] \in {"Connected", "Disconnected"}
    /\ state' = [state EXCEPT ![c] = IF @ = "Connected" THEN "Disconnecting" ELSE @]
    /\ IF "out" \in events[c]
       THEN UNCHANGED <<shut, stray>>
       ELSE ShutdownFD(c)
    /\ UNCHANGED <<fd, events, revents, out, readIndex, inputFull, poller, stack, open,
                   rx, full, peer, panicked>>

\* While output is pending the end of handleWrite shuts the socket down.
ShutdownWrite(c) ==
    /\ Alive
    /\ InUserCode("ShutdownWrite")
    /\ state[c] = "Connected"
    /\ state' = [state EXCEPT ![c] = "Disconnecting"]
    /\ IF "out" \in events[c]
       THEN UNCHANGED <<shut, stray>>
       ELSE ShutdownFD(c)
    /\ UNCHANGED <<fd, events, revents, out, readIndex, inputFull, poller, stack, open,
                   rx, full, peer, panicked>>

\* A ForceClose that does not look at the state, nor does handleClose.
ForceClose_Twice(c) ==
    /\ Alive
    /\ InUserCode("ForceClose")
    /\ CrossClose \/ Top.conn = c \/ Top.at = "functor"
    /\ state[c] \notin {"none", "Connecting"}
    /\ Len(stack) < 4
    /\ state' = [state EXCEPT ![c] = "Disconnected"]
    /\ RemoveChannel(c)
    /\ CloseSocket(c)
    /\ stack' = Append(stack, F("disconnected", c))
    /\ UNCHANGED <<fd, events, revents, out, readIndex, inputFull, batch, peer, stray,
                   panicked>>

ForceClose(c) ==
    /\ Alive
    /\ InUserCode("ForceClose")
    /\ CrossClose \/ Top.conn = c \/ Top.at = "functor"
    /\ state[c] \in {"Connected", "Disconnecting"}
    /\ HandleClose(c, stack)
    /\ UNCHANGED <<fd, events, revents, out, readIndex, inputFull, batch, peer, stray>>

\* SetKeepAlive and SetNoDelay of a connection that user code has been given:
\* whatever its state, setsockopt(2) on the descriptor; an error is ignored.
SetOption(c) ==
    /\ Alive
    /\ InUserCode("SetOption")
    /\ state[c] \notin {"none", "Connecting"}
    /\ Uses(c, "setsockopt")
    /\ UNCHANGED <<library, poller, stack, kernel, panicked>>

\* A user callback returns.
Return ==
    /\ Alive
    /\ stack # << >>
    /\ Top.at \in Callbacks
    /\ stack' = Below
    /\ UNCHANGED <<library, poller, kernel, stray, panicked>>

-----------------------------------------------------------------------------
UserStep(c) == Send(c) \/ ShutdownWrite(c) \/ ForceClose(c) \/ SetOption(c)
LoopStep(c) ==
    \/ HandleEvent(c) \/ HandleReadData(c) \/ HandleReadEnd(c)
    \/ HandleWriteError(c) \/ HandleWritePanic(c) \/ HandleWriteSome(c)
    \/ FinishHandleWrite(c) \/ FinishSend(c)
PeerStep(c) == PeerSend(c) \/ PeerClose(c) \/ PeerReset(c) \/ PeerReads(c)

Next ==
    \/ \E c \in Conns :
         \/ Accept(c) \/ EstablishConn(c) \/ UserStep(c)
         \/ LoopStep(c) \/ PeerStep(c)
    \/ Poll \/ RunFunctor \/ RunTimer \/ Return

Spec == Init /\ [][Next]_vars

\* Callbacks return and the loop goroutine goes on; Loop() takes a finite
\* slice of functors per round, so it comes back to Poll and gets to every
\* establishConn; peers read what they are sent.
Fairness ==
    /\ WF_vars(Return \/ RunTimer \/ \E c \in Conns : LoopStep(c))
    /\ SF_vars(Poll)
    /\ \A c \in Conns : SF_vars(EstablishConn(c)) /\ WF_vars(PeerReads(c))

FairSpec == Spec /\ Fairness

-----------------------------------------------------------------------------
(* Properties.                                                             *)

IsOpen(c) == state[c] \in {"Connected", "Disconnecting"}
Frames == {stack[i] : i \in DOMAIN stack}

\* No panic of tcp_conn.go, poller.go or buffer.go is reached.
NoPanic == panicked = "no"

\* Every system call that a connection makes is on its own socket, although
\* the descriptor number is used again as soon as it is closed
\* (tcp_conn.go:202).  The one exception is that SetKeepAlive and SetNoDelay
\* of a closed connection, which do not look at the state (:150-168), may set
\* the option of the socket that has the number by then.
OwnSocket == stray \subseteq {[call |-> "setsockopt", state |-> "Disconnected"]}

\* Bytes accepted by Send are never left behind (tcp_conn.go:119-122, 183-185):
\* while a connection has output the epoll set asks for EPOLLOUT, or Send is
\* about to, whatever the callbacks in between have called.
NoStrandedOutput ==
    \A c \in Conns :
        Alive /\ IsOpen(c) /\ out[c] > 0 /\ F("enable", c) \notin Frames
        => "out" \in interest[fd[c]]

\* The graceful close (tcp_conn.go:131, 183-189) sends the FIN only after the
\* last byte accepted by Send.
ShutdownAfterFlush == \A c \in open : c \in shut => out[c] = 0

\* ShutdownWrite is carried out in the end, unless the connection closes.
ShutdownHappens ==
    \A c \in Conns :
        (state[c] = "Disconnecting")
        ~> (c \in shut \/ state[c] = "Disconnected" \/ ~Alive)

\* A peer that has closed its side is noticed (tcp_conn.go:175): the
\* connection is closed and its descriptor with it.
PeerCloseNoticed ==
    \A c \in Conns : (c \in open /\ peer[c] # "up") ~> (c \notin open \/ ~Alive)

\* disconnectedCallback comes exactly when a connection closes and only once
\* (tcp_conn.go:203), and no callback of the connection begins after it: the
\* write half of an event that was reported before the close (channel.go:138)
\* does not come to writeCompleteCallback.
NoCallbackAfterClose ==
    [][\A c \in Conns :
         state[c] = "Disconnected" =>
            \A at \in {"connected", "message", "highWater", "writeComplete",
                      "disconnected"} :
                F(at, c) \in {stack'[i] : i \in DOMAIN stack'}
                => F(at, c) \in Frames]_stack

=============================================================================
