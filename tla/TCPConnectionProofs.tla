------------------------ MODULE TCPConnectionProofs ------------------------
(***************************************************************************)
(* Theorems about TCPConnection, for any number of connections and         *)
(* descriptors, any nesting of callbacks and any calls in them, as far as  *)
(* a theorem does not say otherwise.                                       *)
(***************************************************************************)
EXTENDS TCPConnection, SequenceTheorems, TLAPS

-----------------------------------------------------------------------------
(* The invariants, from the bottom up.                                     *)

\* establishConn has run.
Started(c) == state[c] \in {"Connected", "Disconnecting", "Disconnected"}

\* Open sockets have different descriptors, and the poller's channelMap holds
\* the connections that are open.
SocketsOK ==
    /\ \A c \in Conns :
          c \in open <=> state[c] \in {"Connecting", "Connected", "Disconnecting"}
    /\ \A c \in open : fd[c] \in Fds
    /\ \A c, d \in open : fd[c] = fd[d] => c = d
    /\ shut \subseteq open /\ rx \subseteq open /\ full \subseteq open
    /\ \A f \in Fds : channelMap[f] # NoConn => /\ IsOpen(channelMap[f])
                                                /\ fd[channelMap[f]] = f
    /\ \A c \in Conns : IsOpen(c) => channelMap[fd[c]] = c

\* Whose frame may be where on the stack.  A write callback is at the bottom,
\* for a channel that is in the batch no more; a read callback is on top.
FrameOK(s, i) ==
    LET c == s[i].conn
        at == s[i].at
    IN  /\ at \in {"functor", "timer"} \/ c \in Conns
        /\ at = "establish" => Len(s) = 1 /\ state[c] = "Connecting"
        /\ at # "establish" /\ c \in Conns => Started(c)
        /\ at = "write" => i = 1 /\ c \notin batch
        /\ at = "read" => i = Len(s)
        /\ HighWater = 0 => at \notin {"enable", "highWater"}

StackOK ==
    /\ \A i \in 1..Len(stack) : FrameOK(stack, i)
    /\ \A c \in batch : c = NoConn \/ Started(c)
    /\ \A c \in Conns : state[c] = "Connecting" => events[c] = Events

\* The library may still come back to c.
Mentioned(c) == c \in batch \/ \E f \in Frames : f.conn = c

\* As long as it may, the descriptor of a closed connection is not registered
\* again, so that nothing that is left to do for c disturbs another channel.
Settled ==
    \A c \in Conns : state[c] = "Disconnected" /\ Mentioned(c)
                     => fd[c] \in Fds /\ channelMap[fd[c]] = NoConn

\* The epoll set has the events of every channel, and these include EPOLLOUT
\* while handleWrite is to run and while there is output.
Agree == \A c \in Conns : IsOpen(c) => interest[fd[c]] = events[c]
Wanted ==
    \A c \in Conns : IsOpen(c) =>
        /\ F("write", c) \in Frames => "out" \in events[c]
        /\ c \in batch /\ "out" \in revents[c] => "out" \in events[c]
        /\ out[c] > 0 => "out" \in events[c] \/ F("enable", c) \in Frames

\* Callbacks close only the connection that they are called for.
Isolated ==
    ~CrossClose /\ (HighWater = 0 \/ "ForceClose" \notin OpsIn["highWater"])

\* Then a batch holds open connections only, none of which is being handled.
BatchApart ==
    /\ \A f \in Frames :
          /\ f.at \notin {"enable", "highWater"} => f.conn \notin batch
          /\ f.at = "functor" => batch = {}
          /\ f.at = "read" => IsOpen(f.conn)
    /\ \A c \in batch : c = NoConn \/ IsOpen(c)

\* With one loop, nobody else has the descriptor of a connection that the
\* library is working on, even if that connection is closed.
Alone ==
    \A f \in Frames : f.conn \in Conns =>
        \A o \in open : fd[o] = fd[f.conn] => o = f.conn

\* Callbacks close no other connection, no high-water mark is set, and
\* writeCompleteCallback does not both send and shut down.
Graceful ==
    /\ ~CrossClose /\ HighWater = 0
    /\ "Send" \notin OpsIn["writeComplete"] \/ "ShutdownWrite" \notin OpsIn["writeComplete"]

\* Then a socket that is shut down has nothing left to write.  The end of
\* handleWrite, which shuts down too, runs right after writeCompleteCallback.
ShutOK ==
    /\ \A c \in shut : out[c] = 0 /\ "out" \notin events[c] /\ state[c] = "Disconnecting"
    /\ \A c \in Conns : Alive /\ IsOpen(c) /\ F("shut", c) \in Frames =>
          /\ Frames \subseteq {F("shut", c), F("writeComplete", c)}
          /\ state[c] = "Disconnecting" \/ "Send" \notin OpsIn["writeComplete"]
             => "out" \notin events[c]

\* Besides, one loop, and peers that do not reset.
Calm == Graceful /\ OneLoop /\ ~PeerResets

\* A negative readIndex is left behind by the last write of a connection that
\* is closed.
IndexOK ==
    \A c \in Conns : readIndex[c] = -1 => state[c] = "Disconnected" /\ F("write", c) \notin Frames

CalmOK ==
    /\ Alive
    /\ \A c \in Conns : peer[c] # "rst"
    /\ ShutOK
    /\ IndexOK

-----------------------------------------------------------------------------
(* The call stack as a sequence.                                           *)

\* Frames are records of a callback and a connection.
LEMMA FrameType ==
    ASSUME NEW at \in Callbacks \cup {"establish", "read", "write", "enable", "shut"},
           NEW c \in Conns \cup {NoConn}
    PROVE  F(at, c) \in Frame /\ F(at, c).at = at /\ F(at, c).conn = c
BY DEF F, Frame

\* What is left when the top frame returns.
LEMMA BelowFacts ==
    ASSUME stack \in Seq(Frame), stack # << >>
    PROVE  /\ Below \in Seq(Frame)
           /\ Len(stack) \in Nat \ {0}
           /\ Len(Below) = Len(stack) - 1
           /\ \A i \in 1..Len(Below) : Below[i] = stack[i]
           /\ Top \in Frame
<1>1. Len(stack) \in Nat /\ Len(stack) # 0
  BY EmptySeq, LenProperties
<1>0. \A i \in 1..(Len(stack) - 1) : stack[i] \in Frame
  BY <1>1, ElementOfSeq
<1>2. Below \in Seq(Frame) /\ Len(Below) = Len(stack) - 1
  <2> DEFINE n == Len(stack) - 1
  <2>1. n \in Int /\ 1 \in Int /\ n >= 0 /\ n = Len(stack) - 1
    BY <1>1
  <2>2. \A i \in 1..n : stack[i] \in Frame
    BY <1>0
  <2>3. Below = SubSeq(stack, 1, n)
    BY DEF Below
  <2> HIDE DEF n
  <2>4. /\ SubSeq(stack, 1, n) \in Seq(Frame)
        /\ Len(SubSeq(stack, 1, n)) = IF 1 <= n THEN n - 1 + 1 ELSE 0
    BY <2>1, <2>2, SubSeqProperties
  <2>5. Len(SubSeq(stack, 1, n)) = n
    BY <2>1, <2>4
  <2> QED BY <2>1, <2>3, <2>4, <2>5
<1>3. \A i \in 1..Len(Below) : Below[i] = stack[i]
  BY <1>0, <1>1, <1>2, SubSeqProperties DEF Below
<1>4. Top \in Frame
  BY <1>1, ElementOfSeq DEF Top
<1> QED BY <1>1, <1>2, <1>3, <1>4

\* One frame.
LEMMA OneFrame ==
    ASSUME NEW f \in Frame
    PROVE  <<f>> \in Seq(Frame) /\ Len(<<f>>) = 1 /\ <<f>>[1] = f
OBVIOUS

\* A frame on top of others.
LEMMA PushFacts ==
    ASSUME NEW s \in Seq(Frame), NEW f \in Frame
    PROVE  /\ Append(s, f) \in Seq(Frame)
           /\ Len(Append(s, f)) = Len(s) + 1
           /\ \A i \in 1..Len(s) : Append(s, f)[i] = s[i]
           /\ Append(s, f)[Len(s) + 1] = f
OBVIOUS

\* Two frames on top of others.
LEMMA PushTwoFacts ==
    ASSUME NEW s \in Seq(Frame), NEW f \in Frame, NEW g \in Frame
    PROVE  /\ s \o <<f, g>> \in Seq(Frame)
           /\ Len(s \o <<f, g>>) = Len(s) + 2
           /\ \A i \in 1..Len(s) : (s \o <<f, g>>)[i] = s[i]
           /\ (s \o <<f, g>>)[Len(s) + 1] = f
           /\ (s \o <<f, g>>)[Len(s) + 2] = g
OBVIOUS

-----------------------------------------------------------------------------
(* Types.                                                                  *)

\* EPOLL_CTL_MOD keeps the types of what it changes.
LEMMA UpdateType ==
    ASSUME TypeOK, NEW c \in Conns, NEW mask \in SUBSET Events, UpdateChannel(c, mask)
    PROVE  /\ events' \in [Conns -> SUBSET Events]
           /\ interest' \in [Fds -> SUBSET Events]
           /\ panicked' \in {"no", "epoll_ctl"}
<1>1. events \in [Conns -> SUBSET Events] /\ interest \in [Fds -> SUBSET Events]
  BY DEF TypeOK
<1>2. events' \in [Conns -> SUBSET Events]
  BY <1>1 DEF UpdateChannel
<1>3. interest' \in [Fds -> SUBSET Events]
  <2>1. CASE channelMap[fd[c]] # NoConn
    BY <1>1, <2>1 DEF UpdateChannel
  <2>2. CASE channelMap[fd[c]] = NoConn
    BY <1>1, <2>2 DEF UpdateChannel
  <2> QED BY <2>1, <2>2
<1> QED BY <1>2, <1>3 DEF UpdateChannel

\* So does EnableWriting.
LEMMA EnableType ==
    ASSUME TypeOK, Alive, NEW c \in Conns, EnableWriting(c)
    PROVE  /\ events' \in [Conns -> SUBSET Events]
           /\ interest' \in [Fds -> SUBSET Events]
           /\ panicked' \in {"no", "epoll_ctl"}
<1>1. CASE "out" \in events[c]
  BY <1>1 DEF EnableWriting, TypeOK, Alive
<1>2. CASE "out" \notin events[c]
  <2>1. events[c] \cup {"out"} \in SUBSET Events
    BY DEF TypeOK, Events
  <2>2. UpdateChannel(c, events[c] \cup {"out"})
    BY <1>2 DEF EnableWriting
  <2> QED BY <2>1, <2>2, UpdateType
<1> QED BY <1>1, <1>2

\* A system call keeps the type of what is noted of it.
LEMMA UsesType ==
    ASSUME TypeOK, NEW c \in Conns,
           NEW call \in {"read", "write", "shutdown", "setsockopt"}, Uses(c, call)
    PROVE  stray' \in SUBSET Stray
<1>1. state[c] \in States /\ stray \in SUBSET Stray
  BY DEF TypeOK
<1>2. [call |-> call, state |-> state[c]] \in Stray
  BY <1>1 DEF Stray
<1> QED BY <1>1, <1>2 DEF Uses

\* A step keeps the types of the variables.
LEMMA TypeInductive ==
    ASSUME TypeOK, SocketsOK, [Next]_vars
    PROVE  TypeOK'
<1> USE ConnAssumption
<1>0. stack \in Seq(Frame)
  BY DEF TypeOK
<1>1. ASSUME NEW c \in Conns, Accept(c)
      PROVE  TypeOK'
  <2>1. F("establish", c) \in Frame
    BY FrameType
  <2>2. stack' \in Seq(Frame)
    BY <1>0, <1>1, <2>1, OneFrame DEF Accept
  <2>3. fd' \in [Conns -> Fds \cup {0}]
    <3>1. PICK f \in Fds : fd' = [fd EXCEPT ![c] = f]
      BY <1>1 DEF Accept
    <3> QED BY <3>1 DEF TypeOK
  <2>4. events' \in [Conns -> SUBSET Events] /\ open' \in SUBSET Conns
    BY <1>1 DEF TypeOK, Accept
  <2>5. state' \in [Conns -> States]
    BY <1>1 DEF TypeOK, Accept, States
  <2> QED BY <1>1, <2>2, <2>3, <2>4, <2>5 DEF TypeOK, Accept, poller
<1>2. ASSUME NEW c \in Conns, EstablishConn(c)
      PROVE  TypeOK'
  <2>1. F("connected", c) \in Frame
    BY FrameType DEF Callbacks
  <2>2. stack' \in Seq(Frame)
    BY <1>2, <2>1, OneFrame DEF EstablishConn
  <2> QED BY <1>2, <2>2 DEF TypeOK, EstablishConn, kernel, States
<1>3. ASSUME NEW c \in Conns, Send(c)
      PROVE  TypeOK'
  <2>1. F("enable", c) \in Frame /\ F("highWater", c) \in Frame
    BY FrameType DEF Callbacks
  <2>2. stack' \in Seq(Frame)
    <3>1. stack' = stack \/ stack' = stack \o <<F("enable", c), F("highWater", c)>>
      BY <1>3 DEF Send
    <3>2. stack \o <<F("enable", c), F("highWater", c)>> \in Seq(Frame)
      BY <1>0, <2>1, PushTwoFacts
    <3> QED BY <1>0, <3>1, <3>2
  <2>3. /\ events' \in [Conns -> SUBSET Events] /\ interest' \in [Fds -> SUBSET Events]
        /\ panicked' \in {"no", "epoll_ctl"}
    <3>1. Alive /\ (EnableWriting(c) \/ UNCHANGED <<events, interest, panicked>>)
      BY <1>3 DEF Send
    <3>2. CASE EnableWriting(c)
      BY <3>1, <3>2, EnableType
    <3>3. CASE UNCHANGED <<events, interest, panicked>>
      BY <3>1, <3>3 DEF TypeOK, Alive
    <3> QED BY <3>1, <3>2, <3>3
  <2>4. out' \in [Conns -> 0..MaxOut]
    <3>1. out' = [out EXCEPT ![c] = @ + 1] /\ out[c] < MaxOut
      BY <1>3 DEF Send
    <3>2. out \in [Conns -> 0..MaxOut] /\ out[c] \in 0..MaxOut
      BY DEF TypeOK
    <3>3. out[c] + 1 \in 0..MaxOut
      BY <3>1, <3>2
    <3> QED BY <3>1, <3>2, <3>3
  <2>5. readIndex' \in [Conns -> {-1, 0, 1}]
    BY <1>3 DEF TypeOK, Send
  <2> QED BY <1>3, <2>2, <2>3, <2>4, <2>5 DEF TypeOK, Send, kernel
<1>4. ASSUME NEW c \in Conns, ShutdownWrite(c)
      PROVE  TypeOK'
  <2>1. shut' \in SUBSET Conns /\ stray' \in SUBSET Stray
    <3>1. \/ UNCHANGED <<shut, stray>>
          \/ shut' = shut \cup SocketAt(fd[c]) /\ Uses(c, "shutdown")
      BY <1>4 DEF ShutdownWrite, ShutdownFD
    <3> QED BY <3>1, UsesType DEF TypeOK, SocketAt
  <2> QED BY <1>4, <2>1 DEF TypeOK, ShutdownWrite, poller, States
<1>5. ASSUME NEW c \in Conns, ForceClose(c)
      PROVE  TypeOK'
  <2>1. F("disconnected", c) \in Frame
    BY FrameType DEF Callbacks
  <2>2. stack' \in Seq(Frame)
    BY SMTT(40), <1>0, <1>5, <2>1, PushFacts DEF ForceClose, HandleClose
  <2> QED BY ZenonT(40), <1>5, <2>2 DEF TypeOK, ForceClose, HandleClose, RemoveChannel, CloseSocket, States
<1>6. ASSUME NEW c \in Conns, SetOption(c)
      PROVE  TypeOK'
  <2>1. stray' \in SUBSET Stray
    BY <1>6, UsesType DEF SetOption
  <2> QED BY <1>6, <2>1 DEF TypeOK, SetOption, library, poller, kernel
<1>7. ASSUME NEW c \in Conns, HandleEvent(c)
      PROVE  TypeOK'
  <2>1. F("write", c) \in Frame /\ F("read", c) \in Frame
    BY FrameType
  <2>2. stack' \in Seq(Frame)
    BY <1>7, <2>1 DEF HandleEvent
  <2> QED BY <1>7, <2>2 DEF TypeOK, HandleEvent, library, kernel
<1>8. ASSUME NEW c \in Conns, HandleReadData(c)
      PROVE  TypeOK'
  <2>1. F("message", c) \in Frame
    BY FrameType DEF Callbacks
  <2>2. stack' \in Seq(Frame)
    BY <1>0, <1>8, <2>1, BelowFacts, PushFacts DEF HandleReadData, OnTop
  <2>3. stray' \in SUBSET Stray
    BY <1>8, UsesType DEF HandleReadData
  <2>4. inputFull' \in SUBSET Conns
    BY <1>8 DEF TypeOK, HandleReadData
  <2>5. rx' \in SUBSET Conns
    BY <1>8 DEF TypeOK, HandleReadData
  <2> QED BY <1>8, <2>2, <2>3, <2>4, <2>5 DEF TypeOK, HandleReadData, poller
<1>9. ASSUME NEW c \in Conns, HandleReadEnd(c)
      PROVE  TypeOK'
  <2>1. F("disconnected", c) \in Frame
    BY FrameType DEF Callbacks
  <2>2. stack' \in Seq(Frame)
    <3>1. stack # << >> /\ (stack' = stack \/ stack' = Append(Below, F("disconnected", c)))
      BY <1>9 DEF HandleReadEnd, HandleClose, OnTop
    <3>2. Below \in Seq(Frame)
      BY <1>0, <3>1, BelowFacts
    <3> QED BY <1>0, <2>1, <3>1, <3>2, PushFacts
  <2>3. stray' \in SUBSET Stray
    <3>1. Uses(c, "read") \/ UNCHANGED stray
      BY <1>9 DEF HandleReadEnd
    <3> QED BY <3>1, UsesType DEF TypeOK
  <2>4. HandleClose(c, Below) /\ UNCHANGED <<fd, events, revents, out, readIndex, inputFull, batch, peer>>
    BY <1>9 DEF HandleReadEnd
  <2> QED BY ZenonT(40), <2>2, <2>3, <2>4 DEF TypeOK, HandleClose, RemoveChannel, CloseSocket, States
<1>10. ASSUME NEW c \in Conns, HandleWriteError(c)
       PROVE  TypeOK'
  <2>1. stack' \in Seq(Frame)
    BY <1>0, <1>10, BelowFacts DEF HandleWriteError, OnTop
  <2>2. out' \in [Conns -> 0..MaxOut]
    <3>1. out' = [out EXCEPT ![c] = IF @ < MaxOut THEN @ + 1 ELSE @]
      BY <1>10 DEF HandleWriteError
    <3>2. /\ out \in [Conns -> 0..MaxOut]
          /\ (IF out[c] < MaxOut THEN out[c] + 1 ELSE out[c]) \in 0..MaxOut
      <4>1. out \in [Conns -> 0..MaxOut] /\ out[c] \in 0..MaxOut
        BY DEF TypeOK
      <4> QED BY <4>1
    <3> QED BY <3>1, <3>2
  <2>3. readIndex' \in [Conns -> {-1, 0, 1}]
    BY ZenonT(40), <1>10 DEF TypeOK, HandleWriteError
  <2>4. stray' \in SUBSET Stray
    BY <1>10, UsesType DEF HandleWriteError
  <2> QED BY <1>10, <2>1, <2>2, <2>3, <2>4 DEF TypeOK, HandleWriteError, poller, kernel
<1>11. ASSUME NEW c \in Conns, HandleWritePanic(c)
       PROVE  TypeOK'
  BY <1>11 DEF TypeOK, HandleWritePanic, library, poller, kernel
<1>12. ASSUME NEW c \in Conns, HandleWriteSome(c)
       PROVE  TypeOK'
  <2>1. F("shut", c) \in Frame /\ F("writeComplete", c) \in Frame
    BY FrameType DEF Callbacks
  <2>2. stack' \in Seq(Frame)
    <3>1. stack # << >> /\ \/ stack' = Below
                            \/ stack' = Below \o <<F("shut", c), F("writeComplete", c)>>
      BY <1>12 DEF HandleWriteSome, OnTop
    <3>2. Below \in Seq(Frame)
      BY <1>0, <3>1, BelowFacts
    <3> QED BY SMTT(40), <2>1, <3>1, <3>2, PushTwoFacts
  <2>3. /\ events' \in [Conns -> SUBSET Events] /\ interest' \in [Fds -> SUBSET Events]
        /\ panicked' \in {"no", "epoll_ctl"}
    <3>1. \/ UpdateChannel(c, events[c] \ {"out"})
          \/ Alive /\ UNCHANGED <<events, interest, panicked>>
      BY <1>12 DEF HandleWriteSome
    <3>2. CASE UpdateChannel(c, events[c] \ {"out"})
      <4>1. events[c] \ {"out"} \in SUBSET Events
        BY DEF TypeOK
      <4> QED BY <3>2, <4>1, UpdateType
    <3>3. CASE Alive /\ UNCHANGED <<events, interest, panicked>>
      BY <3>3 DEF TypeOK, Alive
    <3> QED BY <3>1, <3>2, <3>3
  <2>4. /\ out' \in [Conns -> 0..MaxOut]
        /\ readIndex' \in [Conns -> {-1, 0, 1}]
    <3>1. PICK n \in Written(c) :
             /\ out' = [out EXCEPT ![c] = @ - n]
             /\ readIndex' = [readIndex EXCEPT ![c] = IF n > 0 THEN 1 ELSE @]
      BY <1>12 DEF HandleWriteSome
    <3>2. out \in [Conns -> 0..MaxOut] /\ out[c] - n \in 0..MaxOut
      <4>1. out \in [Conns -> 0..MaxOut] /\ out[c] \in 0..MaxOut
        BY DEF TypeOK
      <4>2. n \in Int /\ 0 <= n /\ n <= out[c]
        BY <4>1 DEF Written
      <4> QED BY <4>1, <4>2
    <3>3. out' \in [Conns -> 0..MaxOut]
      BY <3>1, <3>2
    <3>4. readIndex' \in [Conns -> {-1, 0, 1}]
      BY <3>1 DEF TypeOK
    <3> QED BY <3>3, <3>4
  <2>5. full' \in SUBSET Conns
    BY <1>12 DEF TypeOK, HandleWriteSome, SocketAt
  <2>6. stray' \in SUBSET Stray
    BY <1>12, UsesType DEF HandleWriteSome
  <2> QED BY <1>12, <2>2, <2>3, <2>4, <2>5, <2>6 DEF TypeOK, HandleWriteSome
<1>13. ASSUME NEW c \in Conns, FinishHandleWrite(c)
       PROVE  TypeOK'
  <2>1. stack' \in Seq(Frame)
    BY <1>0, <1>13, BelowFacts DEF FinishHandleWrite, OnTop
  <2>2. shut' \in SUBSET Conns /\ stray' \in SUBSET Stray
    <3>1. \/ UNCHANGED <<shut, stray>>
          \/ shut' = shut \cup SocketAt(fd[c]) /\ Uses(c, "shutdown")
      BY <1>13 DEF FinishHandleWrite, ShutdownFD
    <3> QED BY <3>1, UsesType DEF TypeOK, SocketAt
  <2> QED BY <1>13, <2>1, <2>2 DEF TypeOK, FinishHandleWrite, library, poller
<1>14. ASSUME NEW c \in Conns, FinishSend(c)
       PROVE  TypeOK'
  <2>1. stack' \in Seq(Frame)
    BY <1>0, <1>14, BelowFacts DEF FinishSend, OnTop
  <2>2. /\ events' \in [Conns -> SUBSET Events] /\ interest' \in [Fds -> SUBSET Events]
        /\ panicked' \in {"no", "epoll_ctl"}
    BY <1>14, EnableType DEF FinishSend
  <2> QED BY <1>14, <2>1, <2>2 DEF TypeOK, FinishSend, kernel
<1>15. ASSUME NEW c \in Conns, PeerStep(c)
       PROVE  TypeOK'
  BY ZenonT(40), <1>15 DEF TypeOK, PeerStep, PeerSend, PeerClose, PeerReset, PeerReads, library, poller
<1>16. CASE Poll
  <2>0. PICK timer \in {{}, {NoConn}} :
           batch' = timer \cup {channelMap[f] : f \in {g \in Fds : Ready(g) # {}}}
    BY <1>16 DEF Poll
  <2>1. batch' \in SUBSET (Conns \cup {NoConn})
    <3>1. channelMap \in [Fds -> Conns \cup {NoConn}]
      BY DEF TypeOK
    <3> QED BY <2>0, <3>1
  <2>2. \A c \in Conns : c \in batch' => \E f \in Fds : channelMap[f] = c
    BY <2>0
  <2>3. \A c \in Conns : c \in batch' => fd[c] \in Fds
    BY <2>2 DEF SocketsOK
  <2>4. \A f \in Fds : Ready(f) \in SUBSET Events
    BY DEF TypeOK, Ready
  <2>5. revents' \in [Conns -> SUBSET Events]
    BY <1>16, <2>3, <2>4 DEF TypeOK, Poll
  <2> QED BY <1>16, <2>1, <2>5 DEF TypeOK, Poll, kernel
<1>17. CASE RunFunctor
  <2>1. F("functor", NoConn) \in Frame
    BY FrameType DEF Callbacks
  <2>2. stack' \in Seq(Frame)
    BY <1>17, <2>1, OneFrame DEF RunFunctor
  <2> QED BY <1>17, <2>2 DEF TypeOK, RunFunctor, library, poller, kernel
<1>18. CASE RunTimer
  <2>1. F("timer", NoConn) \in Frame
    BY FrameType DEF Callbacks
  <2>2. stack' \in Seq(Frame)
    BY <1>18, <2>1, OneFrame DEF RunTimer
  <2> QED BY <1>18, <2>2 DEF TypeOK, RunTimer, library, kernel
<1>19. CASE Return
  <2>1. stack' \in Seq(Frame)
    BY <1>0, <1>19, BelowFacts DEF Return
  <2> QED BY <1>19, <2>1 DEF TypeOK, Return, library, poller, kernel
<1>20. CASE UNCHANGED vars
  BY <1>20 DEF TypeOK, vars, library, poller, kernel
<1> QED BY <1>1, <1>2, <1>3, <1>4, <1>5, <1>6, <1>7, <1>8, <1>9, <1>10, <1>11, <1>12,
           <1>13, <1>14, <1>15, <1>16, <1>17, <1>18, <1>19, <1>20
        DEF Next, UserStep, LoopStep

\* handleClose of an open connection takes its socket and its entry away.
LEMMA CloseSockets ==
    ASSUME TypeOK, SocketsOK, NEW c \in Conns, IsOpen(c), UNCHANGED fd,
           state' = [state EXCEPT ![c] = "Disconnected"], RemoveChannel(c), CloseSocket(c)
    PROVE  SocketsOK'
<1> USE ConnAssumption
<1>1. /\ state \in [Conns -> States]
      /\ channelMap \in [Fds -> Conns \cup {NoConn}]
      /\ open \subseteq Conns /\ shut \subseteq Conns /\ rx \subseteq Conns /\ full \subseteq Conns
  BY DEF TypeOK
<1>2. c \in open /\ fd[c] \in Fds /\ channelMap[fd[c]] = c
  BY DEF SocketsOK, IsOpen
<1>3. /\ open' = open \ {c}
      /\ shut' \subseteq open' /\ rx' \subseteq open' /\ full' \subseteq open'
  BY DEF CloseSocket, SocketsOK
<1>4. state'[c] = "Disconnected" /\ \A d \in Conns : d # c => state'[d] = state[d]
  BY <1>1
<1>5. channelMap'[fd[c]] = NoConn /\ \A f \in Fds : f # fd[c] => channelMap'[f] = channelMap[f]
  BY <1>1, <1>2 DEF RemoveChannel
<1>6. \A d \in Conns : d \in open'
                       <=> state'[d] \in {"Connecting", "Connected", "Disconnecting"}
  BY <1>3, <1>4 DEF SocketsOK
<1>7. /\ \A d \in open' : fd'[d] \in Fds
      /\ \A d, e \in open' : fd'[d] = fd'[e] => d = e
  BY <1>3 DEF SocketsOK
<1>8. ASSUME NEW f \in Fds, channelMap'[f] # NoConn
      PROVE  IsOpen(channelMap[f])' /\ fd'[channelMap'[f]] = f
  <2>1. f # fd[c] /\ channelMap'[f] = channelMap[f]
    BY <1>5, <1>8
  <2>2. /\ channelMap[f] \in Conns /\ IsOpen(channelMap[f]) /\ fd[channelMap[f]] = f
    BY <1>1, <1>8, <2>1 DEF SocketsOK
  <2>3. channelMap[f] # c
    BY <2>1, <2>2
  <2> QED BY <1>4, <2>1, <2>2, <2>3 DEF IsOpen
<1>9. ASSUME NEW d \in Conns, IsOpen(d)'
      PROVE  channelMap'[fd'[d]] = d
  <2>1. d # c /\ IsOpen(d)
    BY <1>4, <1>9 DEF IsOpen
  <2>2. d \in open /\ fd[d] \in Fds /\ channelMap[fd[d]] = d
    BY <2>1 DEF SocketsOK, IsOpen
  <2>3. fd[d] # fd[c]
    BY <1>2, <2>1, <2>2 DEF SocketsOK
  <2> QED BY <1>5, <2>2, <2>3
<1> QED BY <1>3, <1>6, <1>7, <1>8, <1>9 DEF SocketsOK

\* A step that opens and closes nothing keeps them together.
LEMMA SocketsKept ==
    ASSUME SocketsOK, UNCHANGED <<state, fd, channelMap, open>>,
           shut' \subseteq open, rx' \subseteq open, full' \subseteq open
    PROVE  SocketsOK'
<1>1. \A c \in Conns :
         c \in open' <=> state'[c] \in {"Connecting", "Connected", "Disconnecting"}
  BY DEF SocketsOK
<1>2. /\ \A c \in open' : fd'[c] \in Fds
      /\ \A c, d \in open' : fd'[c] = fd'[d] => c = d
  BY DEF SocketsOK
<1>3. shut' \subseteq open' /\ rx' \subseteq open' /\ full' \subseteq open'
  OBVIOUS
<1>4. ASSUME NEW f \in Fds, channelMap'[f] # NoConn
      PROVE  IsOpen(channelMap[f])' /\ fd'[channelMap'[f]] = f
  <2>1. IsOpen(channelMap[f]) /\ fd[channelMap[f]] = f
    BY <1>4 DEF SocketsOK
  <2>2. IsOpen(channelMap[f])'
    BY <2>1 DEF IsOpen
  <2> QED BY <2>1, <2>2
<1>5. ASSUME NEW c \in Conns, IsOpen(c)'
      PROVE  channelMap'[fd'[c]] = c
  <2>1. IsOpen(c)
    BY <1>5 DEF IsOpen
  <2> QED BY <2>1 DEF SocketsOK
<1> QED BY <1>1, <1>2, <1>3, <1>4, <1>5 DEF SocketsOK

\* Sockets, descriptors and the epoll set stay together.
LEMMA SocketsInductive ==
    ASSUME TypeOK, SocketsOK, [Next]_vars
    PROVE  SocketsOK'
<1> USE ConnAssumption
<1>0. /\ state \in [Conns -> States]
      /\ fd \in [Conns -> Fds \cup {0}]
      /\ channelMap \in [Fds -> Conns \cup {NoConn}]
      /\ open \subseteq Conns /\ shut \subseteq Conns /\ rx \subseteq Conns /\ full \subseteq Conns
  BY DEF TypeOK
<1>1. ASSUME NEW c \in Conns, Accept(c)
      PROVE  SocketsOK'
  <2>1. PICK f \in Fds : NewFd(f) /\ fd' = [fd EXCEPT ![c] = f]
    BY <1>1 DEF Accept
  <2>2. /\ state[c] = "none" /\ state' = [state EXCEPT ![c] = "Connecting"]
        /\ open' = open \cup {c} /\ UNCHANGED <<channelMap, shut, rx, full>>
    BY <1>1 DEF Accept, poller
  <2>3. /\ state'[c] = "Connecting" /\ fd'[c] = f /\ c \notin open
        /\ \A d \in Conns : d # c => state'[d] = state[d] /\ fd'[d] = fd[d]
    BY <1>0, <2>1, <2>2 DEF SocketsOK
  <2>4. \A d \in open : fd[d] # f
    BY <2>1 DEF NewFd, SocketAt
  <2>5. \A d \in Conns : d \in open'
                         <=> state'[d] \in {"Connecting", "Connected", "Disconnecting"}
    BY <2>2, <2>3 DEF SocketsOK
  <2>6. \A d \in open' : fd'[d] \in Fds
    BY <1>0, <2>2, <2>3 DEF SocketsOK
  <2>7. \A d, e \in open' : fd'[d] = fd'[e] => d = e
    BY <1>0, <2>2, <2>3, <2>4 DEF SocketsOK
  <2>8. \A g \in Fds : channelMap[g] # NoConn =>
           channelMap[g] \in Conns /\ channelMap[g] # c
    BY <1>0, <2>2 DEF SocketsOK, IsOpen
  <2>9. \A g \in Fds : channelMap'[g] # NoConn => /\ IsOpen(channelMap[g])'
                                                  /\ fd'[channelMap'[g]] = g
    <3>1. ASSUME NEW g \in Fds, channelMap'[g] # NoConn
          PROVE  IsOpen(channelMap[g])' /\ fd'[channelMap'[g]] = g
      <4>1. PICK d \in Conns : d = channelMap[g]
        BY <2>2, <2>8, <3>1
      <4>2. d # c /\ channelMap'[g] = d /\ IsOpen(d) /\ fd[d] = g
        BY <2>2, <2>8, <3>1, <4>1 DEF SocketsOK
      <4>3. IsOpen(d)' /\ fd'[d] = g
        BY <2>3, <4>2 DEF IsOpen
      <4> QED BY <4>2, <4>3
    <3> QED BY <3>1
  <2>10. \A d \in Conns : IsOpen(d)' => channelMap'[fd'[d]] = d
    BY <2>2, <2>3 DEF SocketsOK, IsOpen
  <2>11. shut' \subseteq open' /\ rx' \subseteq open' /\ full' \subseteq open'
    BY <2>2 DEF SocketsOK
  <2> QED BY <2>5, <2>6, <2>7, <2>9, <2>10, <2>11 DEF SocketsOK
<1>2. ASSUME NEW c \in Conns, EstablishConn(c)
      PROVE  SocketsOK'
  <2>1. /\ state[c] = "Connecting" /\ state' = [state EXCEPT ![c] = "Connected"]
        /\ channelMap' = [channelMap EXCEPT ![fd[c]] = c]
        /\ UNCHANGED <<fd, open, shut, rx, full>>
    BY <1>2 DEF EstablishConn, kernel
  <2>2. c \in open /\ fd[c] \in Fds
    BY <2>1 DEF SocketsOK
  <2>3. /\ state'[c] = "Connected" /\ channelMap'[fd[c]] = c
        /\ \A d \in Conns : d # c => state'[d] = state[d]
        /\ \A g \in Fds : g # fd[c] => channelMap'[g] = channelMap[g]
    BY <1>0, <2>1, <2>2
  <2>4. \A d \in Conns : d \in open'
                         <=> state'[d] \in {"Connecting", "Connected", "Disconnecting"}
    BY <2>1, <2>2, <2>3 DEF SocketsOK
  <2>5. /\ \A d \in open' : fd'[d] \in Fds
        /\ \A d, e \in open' : fd'[d] = fd'[e] => d = e
        /\ shut' \subseteq open' /\ rx' \subseteq open' /\ full' \subseteq open'
    BY <2>1 DEF SocketsOK
  <2>6. ASSUME NEW g \in Fds, channelMap'[g] # NoConn
        PROVE  IsOpen(channelMap[g])' /\ fd'[channelMap'[g]] = g
    <3>1. CASE g = fd[c]
      BY <2>1, <2>3, <3>1 DEF IsOpen
    <3>2. CASE g # fd[c]
      <4>1. channelMap'[g] = channelMap[g] /\ channelMap[g] \in Conns
        BY <1>0, <2>3, <2>6, <3>2
      <4>2. IsOpen(channelMap[g]) /\ fd[channelMap[g]] = g
        BY <2>6, <4>1 DEF SocketsOK
      <4> QED BY <2>1, <2>3, <4>1, <4>2 DEF IsOpen
    <3> QED BY <3>1, <3>2
  <2>7. ASSUME NEW d \in Conns, IsOpen(d)'
        PROVE  channelMap'[fd'[d]] = d
    <3>1. CASE d = c
      BY <2>1, <2>3, <3>1
    <3>2. CASE d # c
      <4>1. IsOpen(d)
        BY <2>3, <2>7, <3>2 DEF IsOpen
      <4>2. d \in open /\ fd[d] \in Fds /\ channelMap[fd[d]] = d
        BY <4>1 DEF SocketsOK, IsOpen
      <4>3. fd[d] # fd[c]
        BY <2>2, <3>2, <4>2 DEF SocketsOK
      <4> QED BY <2>1, <2>3, <4>2, <4>3
    <3> QED BY <3>1, <3>2
  <2> QED BY <2>4, <2>5, <2>6, <2>7 DEF SocketsOK
<1>3. ASSUME NEW c \in Conns, ShutdownWrite(c)
      PROVE  SocketsOK'
  <2>1. /\ state[c] = "Connected" /\ state' = [state EXCEPT ![c] = "Disconnecting"]
        /\ UNCHANGED <<fd, channelMap, open, rx, full>>
    BY <1>3 DEF ShutdownWrite, poller
  <2>2. shut' \subseteq open
    BY <1>3 DEF ShutdownWrite, ShutdownFD, SocketAt, SocketsOK
  <2>3. \A d \in Conns : /\ IsOpen(d)' <=> IsOpen(d)
                         /\ state'[d] = "Connecting" <=> state[d] = "Connecting"
    BY <1>0, <2>1 DEF IsOpen
  <2>4. \A d \in Conns : d \in open'
                         <=> state'[d] \in {"Connecting", "Connected", "Disconnecting"}
    BY <2>1, <2>3 DEF SocketsOK, IsOpen
  <2>5. \A g \in Fds : channelMap'[g] # NoConn => IsOpen(channelMap[g])'
    BY <1>0, <2>1, <2>3 DEF SocketsOK
  <2> QED BY <2>1, <2>2, <2>3, <2>4, <2>5 DEF SocketsOK
<1>4. ASSUME NEW c \in Conns, ForceClose(c)
      PROVE  SocketsOK'
  <2>1. /\ IsOpen(c) /\ UNCHANGED fd /\ RemoveChannel(c) /\ CloseSocket(c)
        /\ state' = [state EXCEPT ![c] = "Disconnected"]
    BY <1>4 DEF ForceClose, HandleClose, IsOpen
  <2> QED BY <2>1, CloseSockets
<1>5. ASSUME NEW c \in Conns, HandleReadEnd(c)
      PROVE  SocketsOK'
  <2>1. CASE IsOpen(c)
    <3>1. /\ IsOpen(c) /\ UNCHANGED fd /\ RemoveChannel(c) /\ CloseSocket(c)
          /\ state' = [state EXCEPT ![c] = "Disconnected"]
      BY <1>5, <2>1 DEF HandleReadEnd, HandleClose, IsOpen
    <3> QED BY <3>1, CloseSockets
  <2>2. CASE ~IsOpen(c)
    <3>1. UNCHANGED <<state, fd, channelMap, open, shut, rx, full>>
      BY <1>5, <2>2 DEF HandleReadEnd, HandleClose, IsOpen
    <3>2. shut' \subseteq open /\ rx' \subseteq open /\ full' \subseteq open
      BY <3>1 DEF SocketsOK
    <3> QED BY <3>1, <3>2, SocketsKept
  <2> QED BY <2>1, <2>2
<1>6. ASSUME UNCHANGED <<state, fd, channelMap, open>>,
             shut' \subseteq open, rx' \subseteq open, full' \subseteq open
      PROVE  SocketsOK'
  BY <1>6, SocketsKept
<1>7. ASSUME NEW c \in Conns, HandleReadData(c) \/ HandleWriteSome(c) \/ FinishHandleWrite(c)
      PROVE  SocketsOK'
  <2>1. SocketAt(fd[c]) \subseteq open
    BY DEF SocketAt
  <2>2. UNCHANGED <<state, fd, channelMap, open>>
    BY <1>7 DEF HandleReadData, HandleWriteSome, FinishHandleWrite, library, poller
  <2>3. shut' \subseteq open /\ rx' \subseteq open /\ full' \subseteq open
    BY <1>7, <2>1 DEF HandleReadData, HandleWriteSome, FinishHandleWrite, ShutdownFD, SocketsOK
  <2> QED BY <1>6, <2>2, <2>3
<1>8. ASSUME NEW c \in Conns, PeerStep(c)
      PROVE  SocketsOK'
  <2>1. UNCHANGED <<state, fd, channelMap, open>>
    BY <1>8 DEF PeerStep, PeerSend, PeerClose, PeerReset, PeerReads, library, poller
  <2>2. shut' \subseteq open /\ rx' \subseteq open /\ full' \subseteq open
    BY <1>8 DEF PeerStep, PeerSend, PeerClose, PeerReset, PeerReads, SocketsOK
  <2> QED BY <1>6, <2>1, <2>2
<1>9. ASSUME UNCHANGED <<state, fd, channelMap, open, shut, rx, full>>
      PROVE  SocketsOK'
  <2>1. shut' \subseteq open /\ rx' \subseteq open /\ full' \subseteq open
    BY <1>9 DEF SocketsOK
  <2> QED BY <1>9, <2>1, SocketsKept
<1>10. ASSUME NEW c \in Conns,
              \/ Send(c) \/ SetOption(c) \/ HandleEvent(c) \/ HandleWriteError(c)
              \/ HandleWritePanic(c) \/ FinishSend(c)
       PROVE  SocketsOK'
  <2>1. UNCHANGED <<state, fd, channelMap, open, shut, rx, full>>
    BY <1>10 DEF Send, SetOption, HandleEvent, HandleWriteError, HandleWritePanic, FinishSend,
                 library, poller, kernel
  <2> QED BY <1>9, <2>1
<1>11. CASE Poll \/ RunFunctor \/ RunTimer \/ Return \/ UNCHANGED vars
  <2>1. UNCHANGED <<state, fd, channelMap, open, shut, rx, full>>
    BY <1>11 DEF Poll, RunFunctor, RunTimer, Return, vars, library, poller, kernel
  <2> QED BY <1>9, <2>1
<1> QED BY <1>1, <1>2, <1>3, <1>4, <1>5, <1>7, <1>8, <1>10, <1>11 DEF Next, UserStep, LoopStep

\* The start.
LEMMA InitBase == Init => TypeOK /\ SocketsOK
<1>1. Init => TypeOK
  <2>1. << >> \in Seq(Frame)
    BY EmptySeq
  <2>2. 0 \in 0..MaxOut
    BY ConnAssumption
  <2>3. Init => /\ stack \in Seq(Frame)
                /\ out \in [Conns -> 0..MaxOut]
                /\ readIndex \in [Conns -> {-1, 0, 1}]
                /\ fd \in [Conns -> Fds \cup {0}]
    BY <2>1, <2>2 DEF Init
  <2>4. Init => /\ channelMap \in [Fds -> Conns \cup {NoConn}]
                /\ interest \in [Fds -> SUBSET Events]
                /\ events \in [Conns -> SUBSET Events]
                /\ revents \in [Conns -> SUBSET Events]
                /\ batch \in SUBSET (Conns \cup {NoConn})
    BY DEF Init
  <2>5. Init => /\ state \in [Conns -> States]
                /\ open \in SUBSET Conns
                /\ shut \in SUBSET Conns
                /\ rx \in SUBSET Conns
                /\ full \in SUBSET Conns
                /\ peer \in [Conns -> {"up", "eof", "rst"}]
                /\ inputFull \in SUBSET Conns
                /\ stray \in SUBSET Stray
                /\ panicked \in {"no", "checkme", "epoll_ctl", "slice bounds"}
    BY DEF Init, States
  <2> QED BY <2>3, <2>4, <2>5 DEF TypeOK
<1>2. Init => SocketsOK
  BY ConnAssumption DEF Init, SocketsOK, IsOpen
<1> QED BY <1>1, <1>2

\* The state variables of tcp_conn.go, poller.go and the kernel keep their
\* types: the output buffer never has fewer than 0 readable bytes, and the
\* stack of nested callbacks holds frames of known connections.
THEOREM TypeCorrect == Spec => []TypeOK
<1>1. TypeOK /\ SocketsOK /\ [Next]_vars => (TypeOK /\ SocketsOK)'
  BY TypeInductive, SocketsInductive
<1> QED BY <1>1, InitBase, PTL DEF Spec

-----------------------------------------------------------------------------
(* Which frames may be on the stack.                                       *)

\* A connection that is established stays so, or is closed.
LEMMA StartedKept ==
    ASSUME TypeOK, [Next]_vars, NEW c \in Conns, Started(c)
    PROVE  Started(c)'
<1> USE ConnAssumption
<1>0. state \in [Conns -> States]
  BY DEF TypeOK
<1>1. ASSUME NEW d \in Conns, Accept(d)
      PROVE  Started(c)'
  <2>1. state[d] = "none" /\ state' = [state EXCEPT ![d] = "Connecting"]
    BY <1>1 DEF Accept
  <2> QED BY <1>0, <2>1 DEF Started
<1>2. ASSUME NEW d \in Conns, EstablishConn(d) \/ ShutdownWrite(d) \/ ForceClose(d) \/ HandleReadEnd(d)
      PROVE  Started(c)'
  <2>1. \/ state' = [state EXCEPT ![d] = "Connected"]
        \/ state' = [state EXCEPT ![d] = "Disconnecting"]
        \/ state' = [state EXCEPT ![d] = "Disconnected"]
        \/ state' = state
    BY <1>2 DEF EstablishConn, ShutdownWrite, ForceClose, HandleReadEnd, HandleClose
  <2> QED BY <1>0, <2>1 DEF Started
<1>3. ASSUME NEW d \in Conns,
             \/ Send(d) \/ SetOption(d) \/ HandleEvent(d) \/ HandleReadData(d)
             \/ HandleWriteError(d) \/ HandleWritePanic(d) \/ HandleWriteSome(d)
             \/ FinishHandleWrite(d) \/ FinishSend(d) \/ PeerStep(d)
      PROVE  Started(c)'
  <2>1. UNCHANGED state
    BY <1>3 DEF Send, SetOption, HandleEvent, HandleReadData, HandleWriteError,
                HandleWritePanic, HandleWriteSome, FinishHandleWrite, FinishSend,
                PeerStep, PeerSend, PeerClose, PeerReset, PeerReads, library
  <2> QED BY <2>1 DEF Started
<1>4. CASE Poll \/ RunFunctor \/ RunTimer \/ Return \/ UNCHANGED vars
  <2>1. UNCHANGED state
    BY <1>4 DEF Poll, RunFunctor, RunTimer, Return, vars, library
  <2> QED BY <2>1 DEF Started
<1> QED BY <1>1, <1>2, <1>3, <1>4 DEF Next, UserStep, LoopStep

\* The frame on top.
LEMMA OnTopFacts ==
    ASSUME TypeOK, StackOK, NEW at, NEW c, OnTop(at, c)
    PROVE  /\ stack # << >> /\ Len(stack) \in Nat \ {0}
           /\ Top = F(at, c) /\ stack[Len(stack)] = F(at, c)
           /\ stack[Len(stack)].at = at /\ stack[Len(stack)].conn = c
           /\ FrameOK(stack, Len(stack))
<1>1. stack \in Seq(Frame) /\ stack # << >> /\ Top = F(at, c)
  BY DEF TypeOK, OnTop
<1>2. Len(stack) \in Nat \ {0}
  BY <1>1, BelowFacts
<1> QED BY <1>1, <1>2 DEF StackOK, Top, F

\* The library returns only to a connection that has been established.
LEMMA OnTopStarted ==
    ASSUME TypeOK, StackOK, NEW at, NEW c \in Conns, OnTop(at, c), at # "establish"
    PROVE  Started(c)
BY OnTopFacts DEF FrameOK

\* A frame that stays where it is, and is not the last stage of a callback
\* that is about to be replaced, is still right after the step.
LEMMA FrameKept ==
    ASSUME TypeOK, StackOK, [Next]_vars, NEW i \in 1..Len(stack),
           stack[i].at \notin {"establish", "read"},
           stack'[i] = stack[i], batch' \subseteq batch
    PROVE  FrameOK(stack, i)'
<1>1. FrameOK(stack, i)
  BY DEF StackOK
<1>2. stack[i].conn \in Conns => Started(stack[i].conn)
  BY <1>1 DEF FrameOK
<1>3. ASSUME stack[i].conn \in Conns
      PROVE  Started(stack[i].conn)'
  <2>1. PICK c \in Conns : c = stack[i].conn
    BY <1>3
  <2>2. Started(c)'
    BY <1>2, <2>1, StartedKept
  <2>3. c = stack'[i].conn
    BY <2>1
  <2> QED BY <2>2, <2>3 DEF Started
<1> QED BY <1>1, <1>3 DEF FrameOK, Started

\* Frames below the top are neither reads nor establishConn.
LEMMA LowerFrame ==
    ASSUME TypeOK, StackOK, NEW i \in 1..Len(stack), i # Len(stack)
    PROVE  stack[i].at \notin {"establish", "read"}
<1>1. Len(stack) \in Nat
  BY LenProperties DEF TypeOK
<1>2. FrameOK(stack, i)
  BY DEF StackOK
<1>3. stack[i].at # "read"
  BY <1>1, <1>2 DEF FrameOK
<1>4. stack[i].at # "establish"
  BY <1>1, <1>2 DEF FrameOK
<1> QED BY <1>3, <1>4

\* The frames of s are those at the bottom of the stack, and they stay.
Lower(s) ==
    /\ s \in Seq(Frame)
    /\ Len(s) <= Len(stack)
    /\ \A i \in 1..Len(s) : s[i] = stack[i] /\ s[i].at \notin {"establish", "read"}

\* The frames below the top are such frames,
LEMMA BelowLower ==
    ASSUME TypeOK, StackOK, stack # << >>
    PROVE  Lower(Below)
<1>1. stack \in Seq(Frame)
  BY DEF TypeOK
<1>2. /\ Below \in Seq(Frame) /\ Len(stack) \in Nat \ {0} /\ Len(Below) = Len(stack) - 1
      /\ \A i \in 1..Len(Below) : Below[i] = stack[i]
  BY <1>1, BelowFacts
<1>3. \A i \in 1..Len(Below) : i \in 1..Len(stack) /\ i # Len(stack)
  BY <1>2
<1>4. \A i \in 1..Len(Below) : stack[i].at \notin {"establish", "read"}
  BY <1>3, LowerFrame
<1> QED BY <1>2, <1>4 DEF Lower

\* and so is the whole stack when a callback is on top.
LEMMA StackLower ==
    ASSUME TypeOK, StackOK, stack # << >>, Top.at \in Callbacks
    PROVE  Lower(stack)
<1>1. stack \in Seq(Frame) /\ Len(stack) \in Nat
  BY LenProperties DEF TypeOK
<1>2. stack[Len(stack)].at \notin {"establish", "read"}
  BY DEF Top, Callbacks
<1>3. \A i \in 1..Len(stack) : stack[i].at \notin {"establish", "read"}
  BY <1>2, LowerFrame
<1> QED BY <1>1, <1>3 DEF Lower

\* A step that leaves them where they are leaves them right.
LEMMA LowerKept ==
    ASSUME TypeOK, StackOK, [Next]_vars, NEW s, Lower(s), batch' \subseteq batch,
           \A i \in 1..Len(s) : stack'[i] = s[i]
    PROVE  \A i \in 1..Len(s) : FrameOK(stack, i)'
<1>1. Len(s) \in Nat /\ Len(stack) \in Nat /\ Len(s) <= Len(stack)
  BY LenProperties DEF TypeOK, Lower
<1>2. ASSUME NEW i \in 1..Len(s)
      PROVE  FrameOK(stack, i)'
  <2>1. i \in 1..Len(stack)
    BY <1>1
  <2>2. stack'[i] = stack[i] /\ stack[i].at \notin {"establish", "read"}
    BY DEF Lower
  <2> QED BY <2>1, <2>2, FrameKept
<1> QED BY <1>2

\* A new frame of an established connection is right.
LEMMA NewFrame ==
    ASSUME NEW i, NEW c \in Conns, NEW at, stack'[i] = F(at, c), Started(c)',
           at \notin {"establish", "read", "write"}, at \in {"enable", "highWater"} => HighWater # 0
    PROVE  FrameOK(stack, i)'
<1>1. stack'[i].at = at /\ stack'[i].conn = c
  BY DEF F
<1> QED BY <1>1 DEF FrameOK, Started

\* The three ways in which a step leaves the stack: the frames below, one new
\* frame on them, or two.
LEMMA PopOK ==
    ASSUME TypeOK, StackOK, [Next]_vars, NEW s, Lower(s), batch' \subseteq batch, stack' = s
    PROVE  \A i \in 1..Len(stack') : FrameOK(stack, i)'
BY LowerKept

LEMMA PushOK ==
    ASSUME TypeOK, StackOK, [Next]_vars, NEW s, Lower(s), batch' \subseteq batch,
           NEW c \in Conns, Started(c)', NEW at \in {"message", "disconnected"},
           stack' = Append(s, F(at, c))
    PROVE  \A i \in 1..Len(stack') : FrameOK(stack, i)'
<1>1. s \in Seq(Frame) /\ F(at, c) \in Frame /\ Len(s) \in Nat
  BY FrameType, LenProperties DEF Lower, Callbacks
<1>2. /\ Len(stack') = Len(s) + 1
      /\ \A i \in 1..Len(s) : stack'[i] = s[i]
      /\ stack'[Len(s) + 1] = F(at, c)
  BY <1>1, PushFacts
<1>3. \A i \in 1..Len(s) : FrameOK(stack, i)'
  BY <1>2, LowerKept
<1>4. FrameOK(stack, Len(s) + 1)'
  <2>1. PICK n : n = Len(s) + 1
    OBVIOUS
  <2>2. FrameOK(stack, n)'
    BY <1>2, <2>1, NewFrame
  <2> QED BY <2>1, <2>2 DEF FrameOK, Started
<1>5. \A i \in 1..Len(stack') : i \in 1..Len(s) \/ i = Len(s) + 1
  BY <1>1, <1>2
<1> QED BY <1>3, <1>4, <1>5

LEMMA PushTwoOK ==
    ASSUME TypeOK, StackOK, [Next]_vars, NEW s, Lower(s), batch' \subseteq batch,
           NEW c \in Conns, Started(c)',
           \/ stack' = s \o <<F("shut", c), F("writeComplete", c)>>
           \/ HighWater # 0 /\ stack' = s \o <<F("enable", c), F("highWater", c)>>
    PROVE  \A i \in 1..Len(stack') : FrameOK(stack, i)'
<1>1. PICK at \in {"shut", "enable"}, cb \in {"writeComplete", "highWater"} :
         /\ stack' = s \o <<F(at, c), F(cb, c)>>
         /\ HighWater = 0 => at = "shut" /\ cb = "writeComplete"
  OBVIOUS
<1>2. s \in Seq(Frame) /\ F(at, c) \in Frame /\ F(cb, c) \in Frame /\ Len(s) \in Nat
  BY FrameType, LenProperties DEF Lower, Callbacks
<1>3. /\ Len(stack') = Len(s) + 2
      /\ \A i \in 1..Len(s) : stack'[i] = s[i]
      /\ stack'[Len(s) + 1] = F(at, c)
      /\ stack'[Len(s) + 2] = F(cb, c)
  BY <1>1, <1>2, PushTwoFacts
<1>4. \A i \in 1..Len(s) : FrameOK(stack, i)'
  BY <1>3, LowerKept
<1>5. ASSUME NEW n, n = Len(s) + 1
      PROVE  FrameOK(stack, n)'
  BY <1>1, <1>3, <1>5, NewFrame
<1>6. ASSUME NEW n, n = Len(s) + 2
      PROVE  FrameOK(stack, n)'
  BY <1>1, <1>3, <1>6, NewFrame
<1>7. \A i \in 1..Len(stack') : i \in 1..Len(s) \/ i = Len(s) + 1 \/ i = Len(s) + 2
  BY <1>2, <1>3
<1> QED BY <1>4, <1>5, <1>6, <1>7

\* A stack of one frame, of an established connection or of no connection.
LEMMA OneFrameOK ==
    ASSUME NEW at \in Callbacks, NEW c, stack' = <<F(at, c)>>,
           c \in Conns => Started(c)', c \in Conns \/ at \in {"functor", "timer"},
           at # "highWater"
    PROVE  \A i \in 1..Len(stack') : FrameOK(stack, i)'
<1>1. Len(stack') = 1 /\ stack'[1].at = at /\ stack'[1].conn = c
  BY DEF F
<1>2. FrameOK(stack, 1)'
  BY <1>1, ConnAssumption DEF FrameOK, Started, Callbacks
<1> QED BY <1>1, <1>2

\* A step that does not touch the stack, the batch and the states.
LEMMA SameFrames ==
    ASSUME StackOK, UNCHANGED <<stack, batch, state>>
    PROVE  \A i \in 1..Len(stack') : FrameOK(stack, i)'
BY DEF StackOK, FrameOK, Started

\* handleClose, on the frames s.
LEMMA CloseOK ==
    ASSUME TypeOK, StackOK, [Next]_vars, NEW s, Lower(s), UNCHANGED batch,
           NEW c \in Conns, HandleClose(c, s)
    PROVE  \A i \in 1..Len(stack') : FrameOK(stack, i)'
<1>1. CASE IsOpen(c)
  <2>1. stack' = Append(s, F("disconnected", c)) /\ Started(c)
    BY <1>1 DEF HandleClose, IsOpen, Started
  <2>2. Started(c)'
    BY <2>1, StartedKept
  <2> QED BY <2>1, <2>2, PushOK
<1>2. CASE ~IsOpen(c)
  BY <1>2, SameFrames DEF HandleClose, IsOpen
<1> QED BY <1>1, <1>2

\* HandleEvent leaves a read frame on a write frame, or fewer.
LEMMA EventFrames ==
    ASSUME NEW c \in Conns, HandleEvent(c)
    PROVE  \A i \in 1..Len(stack') :
              \/ i = 1 /\ stack'[i] = F("write", c) /\ "out" \in revents[c]
              \/ i = Len(stack') /\ stack'[i] = F("read", c)
<1> DEFINE w == F("write", c)
           r == F("read", c)
<1>1. stack' = (IF "out" \in revents[c] THEN <<w>> ELSE << >>)
               \o (IF "in" \in revents[c] THEN <<r>> ELSE << >>)
  BY DEF HandleEvent
<1>2. w \in Frame /\ r \in Frame
  BY FrameType
<1> HIDE DEF w, r
<1>3. << >> \o << >> = << >> /\ <<w>> \o << >> = <<w>> /\ << >> \o <<r>> = <<r>>
  BY <1>2, ConcatEmptySeq, OneFrame, EmptySeq
<1>4. <<w>> \o <<r>> = <<w, r>>
  <2>1. <<w>> \o <<r>> \in Seq(Frame) /\ <<w, r>> \in Seq(Frame)
    BY <1>2
  <2>2. Len(<<w>> \o <<r>>) = 2 /\ Len(<<w, r>>) = 2
    BY <1>2
  <2>3. \A i \in 1..2 : (<<w>> \o <<r>>)[i] = <<w, r>>[i]
    BY <1>2
  <2> QED BY <2>1, <2>2, <2>3, SeqEqual
<1>5. \/ stack' = << >>
      \/ stack' = <<w>> /\ "out" \in revents[c]
      \/ stack' = <<r>>
      \/ stack' = <<w, r>> /\ "out" \in revents[c]
  <2>1. CASE "out" \in revents[c]
    BY <1>1, <1>3, <1>4, <2>1
  <2>2. CASE "out" \notin revents[c]
    BY <1>1, <1>3, <2>2
  <2> QED BY <2>1, <2>2
<1>6. CASE stack' = << >> \/ (stack' = <<w>> /\ "out" \in revents[c])
  BY <1>6 DEF w
<1>7. CASE stack' = <<r>>
  BY <1>7 DEF r
<1>8. CASE stack' = <<w, r>> /\ "out" \in revents[c]
  BY <1>8 DEF w, r
<1> QED BY <1>5, <1>6, <1>7, <1>8

\* The stack keeps its shape.
LEMMA StackInductive ==
    ASSUME TypeOK, SocketsOK, StackOK, [Next]_vars
    PROVE  \A i \in 1..Len(stack') : FrameOK(stack, i)'
<1> USE ConnAssumption
<1>0. /\ state \in [Conns -> States]
      /\ stack \in Seq(Frame)
  BY DEF TypeOK
<1>1. ASSUME NEW c \in Conns, Accept(c)
      PROVE  \A i \in 1..Len(stack') : FrameOK(stack, i)'
  <2>1. /\ state[c] = "none" /\ state' = [state EXCEPT ![c] = "Connecting"]
        /\ UNCHANGED batch
    BY <1>1 DEF Accept, poller
  <2>2. CASE OneLoop
    <3>1. stack' = <<F("establish", c)>>
      BY <1>1, <2>2 DEF Accept
    <3>2. Len(stack') = 1 /\ stack'[1].at = "establish" /\ stack'[1].conn = c
      BY <3>1 DEF F
    <3>3. FrameOK(stack, 1)'
      BY <1>0, <2>1, <3>2 DEF FrameOK
    <3> QED BY <3>2, <3>3
  <2>3. CASE ~OneLoop
    <3>1. stack' = stack
      BY <1>1, <2>3 DEF Accept
    <3>2. \A d \in Conns : /\ Started(d) => Started(d)'
                           /\ state[d] = "Connecting" => state'[d] = "Connecting"
      BY <1>0, <2>1 DEF Started
    <3>3. ASSUME NEW i \in 1..Len(stack)
          PROVE  FrameOK(stack, i)'
      <4>1. FrameOK(stack, i)
        BY DEF StackOK
      <4>2. stack[i].conn \in Conns \cup {NoConn}
        <5>1. stack[i] \in Frame
          BY <1>0, ElementOfSeq
        <5> QED BY <5>1 DEF Frame
      <4> QED BY <2>1, <3>1, <3>2, <4>1, <4>2 DEF FrameOK, Started
    <3> QED BY <3>1, <3>3
  <2> QED BY <2>2, <2>3
<1>2. ASSUME NEW c \in Conns, EstablishConn(c)
      PROVE  \A i \in 1..Len(stack') : FrameOK(stack, i)'
  <2>1. stack' = <<F("connected", c)>> /\ state' = [state EXCEPT ![c] = "Connected"]
    BY <1>2 DEF EstablishConn
  <2>2. Started(c)'
    BY <1>0, <2>1 DEF Started
  <2>3. "connected" \in Callbacks /\ "connected" # "highWater"
    BY DEF Callbacks
  <2> QED BY <2>1, <2>2, <2>3, OneFrameOK
<1>3. ASSUME NEW c \in Conns, Send(c)
      PROVE  \A i \in 1..Len(stack') : FrameOK(stack, i)'
  <2>1. /\ stack # << >> /\ Top.at \in Callbacks /\ UNCHANGED <<batch, state>> /\ Started(c)
        /\ \/ UNCHANGED stack
           \/ HighWater # 0 /\ stack' = stack \o <<F("enable", c), F("highWater", c)>>
    BY <1>3 DEF Send, InUserCode, Started
  <2>2. Lower(stack) /\ Started(c)'
    BY <2>1, StackLower, StartedKept
  <2> QED BY <2>1, <2>2, PushTwoOK, SameFrames
<1>4. ASSUME NEW c \in Conns, ShutdownWrite(c)
      PROVE  \A i \in 1..Len(stack') : FrameOK(stack, i)'
  <2>1. stack # << >> /\ Top.at \in Callbacks /\ UNCHANGED <<batch, stack>>
    BY <1>4 DEF ShutdownWrite, InUserCode, poller
  <2>2. Lower(stack)
    BY <2>1, StackLower
  <2> QED BY <2>1, <2>2, PopOK
<1>5. ASSUME NEW c \in Conns, ForceClose(c)
      PROVE  \A i \in 1..Len(stack') : FrameOK(stack, i)'
  <2>1. stack # << >> /\ Top.at \in Callbacks /\ UNCHANGED batch /\ HandleClose(c, stack)
    BY <1>5 DEF ForceClose, InUserCode
  <2>2. Lower(stack)
    BY <2>1, StackLower
  <2> QED BY <2>1, <2>2, CloseOK
<1>6. ASSUME NEW c \in Conns, HandleEvent(c)
      PROVE  \A i \in 1..Len(stack') : FrameOK(stack, i)'
  <2>1. c \in batch /\ batch' = batch \ {c} /\ UNCHANGED state
    BY <1>6 DEF HandleEvent, library
  <2>2. Started(c)'
    BY <2>1 DEF StackOK, Started
  <2>4. \A i \in 1..Len(stack') :
           \/ i = 1 /\ stack'[i] = F("write", c)
           \/ i = Len(stack') /\ stack'[i] = F("read", c)
    BY <1>6, EventFrames
  <2>5. ASSUME NEW i \in 1..Len(stack')
        PROVE  FrameOK(stack, i)'
    <3>1. stack'[i].conn = c /\ \/ i = 1 /\ stack'[i].at = "write"
                                \/ i = Len(stack') /\ stack'[i].at = "read"
      BY <2>4 DEF F
    <3> QED BY <2>1, <2>2, <3>1 DEF FrameOK, Started
  <2> QED BY <2>5
<1>7. ASSUME NEW c \in Conns, HandleReadData(c)
      PROVE  \A i \in 1..Len(stack') : FrameOK(stack, i)'
  <2>1. OnTop("read", c) /\ stack' = Append(Below, F("message", c)) /\ UNCHANGED batch
    BY <1>7 DEF HandleReadData, poller
  <2>2. stack # << >> /\ Started(c)
    BY <2>1, OnTopStarted DEF OnTop
  <2>3. Lower(Below) /\ Started(c)'
    BY <2>2, BelowLower, StartedKept
  <2> QED BY <2>1, <2>3, PushOK
<1>8. ASSUME NEW c \in Conns, HandleReadEnd(c)
      PROVE  \A i \in 1..Len(stack') : FrameOK(stack, i)'
  <2>1. stack # << >> /\ HandleClose(c, Below) /\ UNCHANGED batch
    BY <1>8 DEF HandleReadEnd, OnTop
  <2>2. Lower(Below)
    BY <2>1, BelowLower
  <2> QED BY <2>1, <2>2, CloseOK
<1>9. ASSUME NEW c \in Conns, HandleWriteSome(c)
      PROVE  \A i \in 1..Len(stack') : FrameOK(stack, i)'
  <2>1. /\ OnTop("write", c) /\ UNCHANGED batch
        /\ \/ stack' = Below
           \/ stack' = Below \o <<F("shut", c), F("writeComplete", c)>>
    BY <1>9 DEF HandleWriteSome
  <2>2. stack # << >> /\ Started(c)
    BY <2>1, OnTopStarted DEF OnTop
  <2>3. Lower(Below) /\ Started(c)'
    BY <2>2, BelowLower, StartedKept
  <2> QED BY <2>1, <2>3, PopOK, PushTwoOK
<1>10. ASSUME NEW c \in Conns, HandleWriteError(c) \/ FinishHandleWrite(c) \/ FinishSend(c)
       PROVE  \A i \in 1..Len(stack') : FrameOK(stack, i)'
  <2>1. stack # << >> /\ stack' = Below /\ UNCHANGED batch
    BY <1>10 DEF HandleWriteError, FinishHandleWrite, FinishSend, OnTop, poller
  <2>2. Lower(Below)
    BY <2>1, BelowLower
  <2> QED BY <2>1, <2>2, PopOK
<1>11. ASSUME NEW c \in Conns, SetOption(c) \/ HandleWritePanic(c) \/ PeerStep(c)
       PROVE  \A i \in 1..Len(stack') : FrameOK(stack, i)'
  <2>1. UNCHANGED <<stack, batch, state>>
    BY <1>11 DEF SetOption, HandleWritePanic, PeerStep, PeerSend, PeerClose, PeerReset,
                 PeerReads, library, poller
  <2> QED BY <2>1, SameFrames
<1>12. CASE Poll
  <2>1. stack' = << >>
    BY <1>12 DEF Poll, Idle
  <2> QED BY <2>1
<1>13. CASE RunFunctor
  <2>1. stack' = <<F("functor", NoConn)>> /\ "functor" \in Callbacks
    BY <1>13 DEF RunFunctor, Callbacks
  <2> QED BY <2>1, OneFrameOK
<1>14. CASE RunTimer
  <2>1. stack' = <<F("timer", NoConn)>> /\ "timer" \in Callbacks
    BY <1>14 DEF RunTimer, Callbacks
  <2> QED BY <2>1, OneFrameOK
<1>15. CASE Return
  <2>1. stack # << >> /\ stack' = Below /\ UNCHANGED batch
    BY <1>15 DEF Return, poller
  <2>2. Lower(Below)
    BY <2>1, BelowLower
  <2> QED BY <2>1, <2>2, PopOK
<1>16. CASE UNCHANGED vars
  BY <1>16, SameFrames DEF vars, library, poller
<1> QED BY <1>1, <1>2, <1>3, <1>4, <1>5, <1>6, <1>7, <1>8, <1>9, <1>10, <1>11, <1>12,
           <1>13, <1>14, <1>15, <1>16
        DEF Next, UserStep, LoopStep

\* epoll_wait returns open connections, with events that they asked for.
LEMMA PollBatch ==
    ASSUME TypeOK, SocketsOK, Poll, NEW c \in batch', c # NoConn
    PROVE  /\ c \in Conns /\ IsOpen(c) /\ fd[c] \in Fds
           /\ revents'[c] \subseteq interest[fd[c]]
<1>1. PICK f \in Fds : channelMap[f] = c
  BY DEF Poll
<1>2. c \in Conns
  BY <1>1 DEF TypeOK
<1>3. IsOpen(c) /\ fd[c] = f
  BY <1>1 DEF SocketsOK
<1>4. revents'[c] = Ready(f)
  BY <1>2, <1>3 DEF Poll
<1> QED BY <1>1, <1>2, <1>3, <1>4 DEF Ready

\* What is in a batch has been established, and so has what is not Connecting.
LEMMA StackOKInductive ==
    ASSUME TypeOK, SocketsOK, StackOK, [Next]_vars
    PROVE  StackOK'
<1> USE ConnAssumption
<1>0. /\ state \in [Conns -> States]
      /\ events \in [Conns -> SUBSET Events]
      /\ channelMap \in [Fds -> Conns \cup {NoConn}]
      /\ batch \subseteq Conns \cup {NoConn}
  BY DEF TypeOK
<1>1. \A i \in 1..Len(stack') : FrameOK(stack, i)'
  BY StackInductive
<1>2. ASSUME batch' \subseteq batch
      PROVE  \A c \in batch' : c = NoConn \/ Started(c)'
  BY <1>0, <1>2, StartedKept DEF StackOK
<1>3. \A c \in batch' : c = NoConn \/ Started(c)'
  <2>1. CASE Poll
    <3>1. UNCHANGED state
      BY <2>1 DEF Poll
    <3>2. ASSUME NEW c \in batch', c # NoConn
          PROVE  Started(c)'
      <4>1. IsOpen(c)
        BY <2>1, <3>2, PollBatch
      <4> QED BY <3>1, <4>1 DEF IsOpen, Started
    <3> QED BY <3>2
  <2>2. ASSUME NEW c \in Conns, Accept(c) \/ EstablishConn(c) \/ UserStep(c) \/ PeerStep(c)
        PROVE  batch' \subseteq batch
    BY <2>2 DEF Accept, EstablishConn, UserStep, Send, ShutdownWrite, ForceClose, SetOption,
                PeerStep, PeerSend, PeerClose, PeerReset, PeerReads, poller
  <2>3. ASSUME NEW c \in Conns, LoopStep(c)
        PROVE  batch' \subseteq batch
    BY <2>3 DEF LoopStep, HandleEvent, HandleReadData, HandleReadEnd, HandleWriteError,
                HandleWritePanic, HandleWriteSome, FinishHandleWrite, FinishSend, poller
  <2>4. CASE RunFunctor \/ RunTimer \/ Return \/ UNCHANGED vars
    <3>1. batch' \subseteq batch
      BY <2>4 DEF RunFunctor, RunTimer, Return, vars, poller
    <3> QED BY <1>2, <3>1
  <2> QED BY <1>2, <2>1, <2>2, <2>3, <2>4 DEF Next
<1>4. ASSUME NEW d \in Conns, state'[d] = "Connecting"
      PROVE  events'[d] = Events
  <2>1. ASSUME NEW c \in Conns, Accept(c)
        PROVE  events'[d] = Events
    <3>1. state' = [state EXCEPT ![c] = "Connecting"] /\ events' = [events EXCEPT ![c] = Events]
      BY <2>1 DEF Accept
    <3> QED BY <1>0, <1>4, <3>1 DEF StackOK
  <2>2. ASSUME NEW c \in Conns, EstablishConn(c) \/ ShutdownWrite(c) \/ ForceClose(c) \/ HandleReadEnd(c)
        PROVE  events'[d] = Events
    <3>1. UNCHANGED events
      BY <2>2 DEF EstablishConn, ShutdownWrite, ForceClose, HandleReadEnd
    <3>2. \/ state' = [state EXCEPT ![c] = "Connected"]
          \/ state' = [state EXCEPT ![c] = "Disconnecting"]
          \/ state' = [state EXCEPT ![c] = "Disconnected"]
          \/ state' = state
      BY <2>2 DEF EstablishConn, ShutdownWrite, ForceClose, HandleReadEnd, HandleClose
    <3>3. state[d] = "Connecting"
      BY <1>0, <1>4, <3>2
    <3> QED BY <3>1, <3>3 DEF StackOK
  <2>3. ASSUME NEW c \in Conns, Send(c) \/ HandleWriteSome(c) \/ FinishSend(c)
        PROVE  events'[d] = Events
    <3>1. UNCHANGED state
      BY <2>3 DEF Send, HandleWriteSome, FinishSend
    <3>2. Started(c)
      <4>1. Send(c) => Started(c)
        BY DEF Send, Started
      <4>2. HandleWriteSome(c) \/ FinishSend(c) => Started(c)
        BY OnTopStarted DEF HandleWriteSome, FinishSend
      <4> QED BY <2>3, <4>1, <4>2
    <3>3. events' = events \/ \E m : events' = [events EXCEPT ![c] = m]
      BY <2>3 DEF Send, HandleWriteSome, FinishSend, EnableWriting, UpdateChannel
    <3>4. d # c
      BY <1>4, <3>1, <3>2 DEF Started
    <3>5. events'[d] = events[d]
      BY <1>0, <3>3, <3>4
    <3> QED BY <1>4, <3>1, <3>5 DEF StackOK
  <2>4. ASSUME UNCHANGED <<state, events>>
        PROVE  events'[d] = Events
    BY <1>4, <2>4 DEF StackOK
  <2>5. ASSUME NEW c \in Conns,
               \/ SetOption(c) \/ HandleEvent(c) \/ HandleReadData(c) \/ HandleWriteError(c)
               \/ HandleWritePanic(c) \/ FinishHandleWrite(c) \/ PeerStep(c)
        PROVE  events'[d] = Events
    BY <2>4, <2>5 DEF SetOption, HandleEvent, HandleReadData, HandleWriteError,
                HandleWritePanic, FinishHandleWrite,
                PeerStep, PeerSend, PeerClose, PeerReset, PeerReads, library
  <2>6. CASE Poll \/ RunFunctor \/ RunTimer \/ Return \/ UNCHANGED vars
    BY <2>4, <2>6 DEF Poll, RunFunctor, RunTimer, Return, vars, library
  <2> QED BY <2>1, <2>2, <2>3, <2>5, <2>6 DEF Next, UserStep, LoopStep
<1> QED BY <1>1, <1>3, <1>4 DEF StackOK

\* The invariant so far.
BaseOK == TypeOK /\ SocketsOK /\ StackOK

LEMMA BaseInductive ==
    ASSUME BaseOK, [Next]_vars
    PROVE  BaseOK'
BY TypeInductive, SocketsInductive, StackOKInductive DEF BaseOK

LEMMA BaseHolds == Spec => []BaseOK
<1>1. Init => StackOK
  BY ConnAssumption DEF Init, StackOK
<1>2. BaseOK /\ [Next]_vars => BaseOK'
  BY BaseInductive
<1> QED BY <1>1, <1>2, InitBase, PTL DEF Spec, BaseOK

-----------------------------------------------------------------------------
(* Which steps push which frames, and which step takes an "enable" away.   *)

FramesOf(s) == {s[i] : i \in DOMAIN s}

LEMMA FramesAppend ==
    ASSUME NEW s \in Seq(Frame), NEW f \in Frame
    PROVE  FramesOf(Append(s, f)) = FramesOf(s) \cup {f}
<1>1. /\ DOMAIN s = 1..Len(s) /\ Len(s) \in Nat
      /\ DOMAIN Append(s, f) = 1..(Len(s) + 1)
      /\ \A i \in 1..Len(s) : Append(s, f)[i] = s[i]
      /\ Append(s, f)[Len(s) + 1] = f
  BY LenProperties, PushFacts
<1>2. 1..(Len(s) + 1) = 1..Len(s) \cup {Len(s) + 1}
  BY <1>1
<1>3. FramesOf(Append(s, f)) \subseteq FramesOf(s) \cup {f}
  BY <1>1, <1>2 DEF FramesOf
<1>4. FramesOf(s) \cup {f} \subseteq FramesOf(Append(s, f))
  BY <1>1, <1>2 DEF FramesOf
<1> QED BY <1>3, <1>4

LEMMA FramesTwo ==
    ASSUME NEW s \in Seq(Frame), NEW f \in Frame, NEW g \in Frame
    PROVE  FramesOf(s \o <<f, g>>) = FramesOf(s) \cup {f, g}
<1>1. /\ DOMAIN s = 1..Len(s) /\ Len(s) \in Nat
      /\ DOMAIN (s \o <<f, g>>) = 1..(Len(s) + 2)
      /\ \A i \in 1..Len(s) : (s \o <<f, g>>)[i] = s[i]
      /\ (s \o <<f, g>>)[Len(s) + 1] = f
      /\ (s \o <<f, g>>)[Len(s) + 2] = g
  BY LenProperties, PushTwoFacts
<1>2. 1..(Len(s) + 2) = 1..Len(s) \cup {Len(s) + 1, Len(s) + 2}
  BY <1>1
<1>3. FramesOf(s \o <<f, g>>) \subseteq FramesOf(s) \cup {f, g}
  BY <1>1, <1>2 DEF FramesOf
<1>4. FramesOf(s) \cup {f, g} \subseteq FramesOf(s \o <<f, g>>)
  BY <1>1, <1>2 DEF FramesOf
<1> QED BY <1>3, <1>4

LEMMA FramesBelow ==
    ASSUME stack \in Seq(Frame), stack # << >>
    PROVE  FramesOf(Below) \subseteq Frames /\ Frames \subseteq FramesOf(Below) \cup {Top}
<1>1. /\ DOMAIN stack = 1..Len(stack) /\ Len(stack) \in Nat \ {0}
      /\ Below \in Seq(Frame) /\ Len(Below) = Len(stack) - 1
      /\ \A i \in 1..Len(Below) : Below[i] = stack[i]
  BY LenProperties, BelowFacts
<1>2. DOMAIN Below = 1..Len(Below)
  BY <1>1, LenProperties
<1>3. 1..Len(stack) = 1..Len(Below) \cup {Len(stack)}
  BY <1>1
<1>4. FramesOf(Below) \subseteq Frames
  BY <1>1, <1>2, <1>3 DEF FramesOf, Frames
<1>5. Frames \subseteq FramesOf(Below) \cup {Top}
  BY <1>1, <1>2, <1>3 DEF FramesOf, Frames, Top
<1> QED BY <1>4, <1>5

LEMMA FramesOne ==
    ASSUME NEW f \in Frame
    PROVE  FramesOf(<<f>>) = {f} /\ FramesOf(<< >>) = {}
BY DEF FramesOf

\* The step that pushes the frame f.
Pushes(f) ==
    \/ f.conn \in Conns /\ \/ f.at = "establish" /\ Accept(f.conn)
                           \/ f.at = "connected" /\ EstablishConn(f.conn)
                           \/ f.at \in {"enable", "highWater"} /\ Send(f.conn)
                           \/ f.at = "disconnected" /\ IsOpen(f.conn) /\ ForceClose(f.conn)
                           \/ f.at = "disconnected" /\ IsOpen(f.conn) /\ HandleReadEnd(f.conn)
                           \/ f.at = "write" /\ HandleEvent(f.conn) /\ "out" \in revents[f.conn]
                           \/ f.at = "read" /\ HandleEvent(f.conn)
                           \/ f.at = "message" /\ HandleReadData(f.conn)
                           \/ f.at \in {"shut", "writeComplete"} /\ HandleWriteSome(f.conn)
    \/ f.conn = NoConn /\ f.at = "functor" /\ RunFunctor
    \/ f.conn = NoConn /\ f.at = "timer" /\ RunTimer

\* All that a step may do to the stack.
StackStep ==
    /\ \A f \in Frames' : f \in Frames \/ Pushes(f)
    /\ \A f \in Frames : f.at = "enable" => f \in Frames' \/ FinishSend(f.conn)

\* A step that leaves or pops the stack, if not at an "enable" frame.
LEMMA PopStep ==
    ASSUME TypeOK, \/ UNCHANGED stack
                   \/ stack # << >> /\ stack' = Below /\ Top.at # "enable"
    PROVE  StackStep
<1>0. stack \in Seq(Frame) /\ Frames = FramesOf(stack) /\ Frames' = FramesOf(stack')
  BY DEF TypeOK, Frames, FramesOf
<1>1. CASE UNCHANGED stack
  BY <1>0, <1>1 DEF StackStep
<1>2. CASE stack # << >> /\ stack' = Below /\ Top.at # "enable"
  <2>1. FramesOf(Below) \subseteq Frames /\ Frames \subseteq FramesOf(Below) \cup {Top}
    BY <1>0, <1>2, FramesBelow
  <2> QED BY <1>0, <1>2, <2>1 DEF StackStep
<1> QED BY <1>1, <1>2

\* A step pushes on s: the stack or, but for an "enable", what is below its top.
PushesOn(s) == s = stack \/ (stack # << >> /\ s = Below /\ Top.at # "enable")

LEMMA PushStep ==
    ASSUME TypeOK, NEW s, NEW new, PushesOn(s),
           FramesOf(stack') = FramesOf(s) \cup new, \A f \in new : Pushes(f)
    PROVE  StackStep
<1>0. stack \in Seq(Frame) /\ Frames = FramesOf(stack) /\ Frames' = FramesOf(stack')
  BY DEF TypeOK, Frames, FramesOf
<1>1. CASE s = stack
  BY <1>0, <1>1 DEF StackStep
<1>2. CASE stack # << >> /\ s = Below /\ Top.at # "enable"
  <2>1. FramesOf(Below) \subseteq Frames /\ Frames \subseteq FramesOf(Below) \cup {Top}
    BY <1>0, <1>2, FramesBelow
  <2> QED BY <1>0, <1>2, <2>1 DEF StackStep
<1> QED BY <1>1, <1>2 DEF PushesOn

\* Every step does this to the stack.
LEMMA EveryStackStep ==
    ASSUME BaseOK, [Next]_vars
    PROVE  StackStep
<1> USE ConnAssumption
<1>0. TypeOK /\ SocketsOK /\ StackOK /\ stack \in Seq(Frame)
  BY DEF BaseOK, TypeOK
<1>1. ASSUME NEW at, NEW c \in Conns, OnTop(at, c)
      PROVE  stack # << >> /\ Top.at = at /\ Top.conn = c /\ Below \in Seq(Frame)
  BY <1>0, <1>1, BelowFacts DEF OnTop, F
<1>2. FramesOf(<< >>) = {}
  BY DEF FramesOf
<1>a. PushesOn(stack) /\ (stack # << >> /\ Top.at # "enable" => PushesOn(Below))
  BY DEF PushesOn
<1>3. ASSUME NEW c \in Conns, Accept(c)
      PROVE  StackStep
  <2>1. CASE OneLoop
    <3>1. stack = << >> /\ stack' = <<F("establish", c)>> /\ F("establish", c) \in Frame
      BY <1>3, <2>1, FrameType DEF Accept
    <3>2. FramesOf(stack') = FramesOf(stack) \cup {F("establish", c)}
      BY <1>2, <3>1, FramesOne
    <3>3. \A f \in {F("establish", c)} : Pushes(f)
      BY <1>3 DEF Pushes, F
    <3> QED BY <1>0, <1>a, <3>2, <3>3, PushStep
  <2>2. CASE ~OneLoop
    <3>1. UNCHANGED stack
      BY <1>3, <2>2 DEF Accept
    <3> QED BY <1>0, <3>1, PopStep
  <2> QED BY <2>1, <2>2
<1>4. ASSUME NEW c \in Conns, EstablishConn(c)
      PROVE  StackStep
  <2>1. stack' = <<F("connected", c)>> /\ F("connected", c) \in Frame
    BY <1>4, FrameType DEF EstablishConn, Callbacks
  <2>2. FramesOf(stack') = {F("connected", c)}
    BY <2>1, FramesOne
  <2>3. Pushes(F("connected", c))
    BY <1>4 DEF Pushes, F
  <2>4. \A f \in Frames : f.at # "enable"
    <3>1. CASE OneLoop
      <4>1. OnTop("establish", c)
        BY <1>4, <3>1 DEF EstablishConn
      <4>2. FrameOK(stack, Len(stack)) /\ stack[Len(stack)].at = "establish"
        BY <1>0, <4>1, OnTopFacts
      <4>3. Len(stack) = 1
        BY <4>2 DEF FrameOK
      <4>4. DOMAIN stack = {1}
        BY <1>0, <4>3, LenProperties
      <4> QED BY <4>2, <4>3, <4>4 DEF Frames
    <3>2. CASE ~OneLoop
      BY <1>4, <3>2 DEF EstablishConn, Idle, Frames
    <3> QED BY <3>1, <3>2
  <2> QED BY <2>2, <2>3, <2>4 DEF StackStep, Frames, FramesOf
<1>5. ASSUME NEW c \in Conns, Send(c)
      PROVE  StackStep
  <2>1. CASE UNCHANGED stack
    BY <1>0, <2>1, PopStep
  <2>2. CASE stack' = stack \o <<F("enable", c), F("highWater", c)>>
    <3>1. F("enable", c) \in Frame /\ F("highWater", c) \in Frame
      BY FrameType DEF Callbacks
    <3>2. FramesOf(stack') = FramesOf(stack) \cup {F("enable", c), F("highWater", c)}
      BY <1>0, <2>2, <3>1, FramesTwo
    <3>3. \A f \in {F("enable", c), F("highWater", c)} : Pushes(f)
      BY <1>5 DEF Pushes, F
    <3> QED BY <1>0, <1>a, <3>2, <3>3, PushStep
  <2> QED BY <1>5, <2>1, <2>2 DEF Send
<1>6. ASSUME NEW c \in Conns, NEW s, HandleClose(c, s), ForceClose(c) \/ HandleReadEnd(c),
             PushesOn(s)
      PROVE  StackStep
  <2>1. CASE IsOpen(c)
    <3>1. stack' = Append(s, F("disconnected", c)) /\ F("disconnected", c) \in Frame
      BY <1>6, <2>1, FrameType DEF HandleClose, IsOpen, Callbacks
    <3>2. s \in Seq(Frame)
      BY <1>0, <1>6, BelowFacts DEF PushesOn
    <3>3. FramesOf(stack') = FramesOf(s) \cup {F("disconnected", c)}
      BY <3>1, <3>2, FramesAppend
    <3>4. \A f \in {F("disconnected", c)} : Pushes(f)
      BY <1>6, <2>1 DEF Pushes, F
    <3> QED BY <1>0, <1>a, <1>6, <3>3, <3>4, PushStep
  <2>2. CASE ~IsOpen(c)
    <3>1. UNCHANGED stack
      BY <1>6, <2>2 DEF HandleClose, IsOpen
    <3> QED BY <1>0, <3>1, PopStep
  <2> QED BY <2>1, <2>2
<1>7. ASSUME NEW c \in Conns, ForceClose(c)
      PROVE  StackStep
  <2>1. HandleClose(c, stack)
    BY <1>7 DEF ForceClose
  <2> QED BY <1>6, <1>7, <1>a, <2>1
<1>8. ASSUME NEW c \in Conns, HandleReadEnd(c)
      PROVE  StackStep
  <2>1. HandleClose(c, Below) /\ OnTop("read", c)
    BY <1>8 DEF HandleReadEnd
  <2>2. stack # << >> /\ Top.at # "enable"
    BY <1>1, <2>1
  <2> QED BY <1>6, <1>8, <1>a, <2>1, <2>2
<1>9. ASSUME NEW c \in Conns, HandleEvent(c)
      PROVE  StackStep
  <2>1. stack = << >>
    BY <1>9 DEF HandleEvent
  <2>2. ASSUME NEW f \in Frames'
        PROVE  Pushes(f)
    <3>1. stack' \in Seq(Frame)
      BY <1>0, TypeInductive DEF TypeOK
    <3>2. PICK i \in 1..Len(stack') : f = stack'[i]
      BY <3>1, LenProperties DEF Frames
    <3>3. (f = F("write", c) /\ "out" \in revents[c]) \/ f = F("read", c)
      BY <1>9, <3>2, EventFrames
    <3> QED BY <1>9, <3>3 DEF Pushes, F
  <2> QED BY <2>1, <2>2 DEF StackStep, Frames
<1>10. ASSUME NEW c \in Conns, HandleReadData(c)
       PROVE  StackStep
  <2>1. OnTop("read", c) /\ stack' = Append(Below, F("message", c)) /\ F("message", c) \in Frame
    BY <1>10, FrameType DEF HandleReadData, Callbacks
  <2>2. stack # << >> /\ Top.at # "enable" /\ Below \in Seq(Frame)
    BY <1>1, <2>1
  <2>3. FramesOf(stack') = FramesOf(Below) \cup {F("message", c)}
    BY <2>1, <2>2, FramesAppend
  <2>4. \A f \in {F("message", c)} : Pushes(f)
    BY <1>10 DEF Pushes, F
  <2> QED BY <1>0, <1>a, <2>2, <2>3, <2>4, PushStep
<1>11. ASSUME NEW c \in Conns, HandleWriteSome(c)
       PROVE  StackStep
  <2>1. /\ OnTop("write", c)
        /\ \/ stack' = Below
           \/ stack' = Below \o <<F("shut", c), F("writeComplete", c)>>
    BY <1>11 DEF HandleWriteSome
  <2>2. stack # << >> /\ Top.at # "enable" /\ Below \in Seq(Frame)
    BY <1>1, <2>1
  <2>3. CASE stack' = Below
    BY <1>0, <2>2, <2>3, PopStep
  <2>4. CASE stack' = Below \o <<F("shut", c), F("writeComplete", c)>>
    <3>1. F("shut", c) \in Frame /\ F("writeComplete", c) \in Frame
      BY FrameType DEF Callbacks
    <3>2. FramesOf(stack') = FramesOf(Below) \cup {F("shut", c), F("writeComplete", c)}
      BY <2>2, <2>4, <3>1, FramesTwo
    <3>3. \A f \in {F("shut", c), F("writeComplete", c)} : Pushes(f)
      BY <1>11 DEF Pushes, F
    <3> QED BY <1>0, <1>a, <2>2, <3>2, <3>3, PushStep
  <2> QED BY <2>1, <2>3, <2>4
<1>12. ASSUME NEW c \in Conns, HandleWriteError(c) \/ FinishHandleWrite(c)
       PROVE  StackStep
  <2>1. stack' = Below /\ (OnTop("write", c) \/ OnTop("shut", c))
    BY <1>12 DEF HandleWriteError, FinishHandleWrite
  <2>2. stack # << >> /\ Top.at # "enable"
    BY <1>1, <2>1
  <2> QED BY <1>0, <2>1, <2>2, PopStep
<1>13. ASSUME NEW c \in Conns, FinishSend(c)
       PROVE  StackStep
  <2>1. stack' = Below /\ OnTop("enable", c)
    BY <1>13 DEF FinishSend
  <2>2. stack # << >> /\ Top.at = "enable" /\ Top.conn = c
    BY <1>1, <2>1
  <2>3. FramesOf(Below) \subseteq Frames /\ Frames \subseteq FramesOf(Below) \cup {Top}
    BY <1>0, <2>2, FramesBelow
  <2>4. Frames' = FramesOf(Below)
    BY <2>1 DEF Frames, FramesOf
  <2> QED BY <1>13, <2>2, <2>3, <2>4 DEF StackStep
<1>14. ASSUME NEW c \in Conns,
              ShutdownWrite(c) \/ SetOption(c) \/ HandleWritePanic(c) \/ PeerStep(c)
       PROVE  StackStep
  <2>1. UNCHANGED stack
    BY <1>14 DEF ShutdownWrite, SetOption, HandleWritePanic, PeerStep, PeerSend, PeerClose,
                 PeerReset, PeerReads
  <2> QED BY <1>0, <2>1, PopStep
<1>15. ASSUME NEW at \in {"functor", "timer"}, stack = << >>, stack' = <<F(at, NoConn)>>,
              \A f \in {F(at, NoConn)} : Pushes(f)
       PROVE  StackStep
  <2>1. F(at, NoConn) \in Frame
    BY FrameType DEF Callbacks
  <2>2. FramesOf(stack') = FramesOf(stack) \cup {F(at, NoConn)}
    BY <1>2, <1>15, <2>1, FramesOne
  <2> QED BY <1>0, <1>a, <1>15, <2>2, PushStep
<1>16. CASE RunFunctor
  <2>1. /\ stack = << >> /\ stack' = <<F("functor", NoConn)>>
        /\ \A f \in {F("functor", NoConn)} : Pushes(f)
    BY <1>16 DEF RunFunctor, Idle, Pushes, F
  <2> QED BY <1>15, <2>1
<1>17. CASE RunTimer
  <2>1. /\ stack = << >> /\ stack' = <<F("timer", NoConn)>>
        /\ \A f \in {F("timer", NoConn)} : Pushes(f)
    BY <1>17 DEF RunTimer, Pushes, F
  <2> QED BY <1>15, <2>1
<1>18. CASE Return
  <2>1. stack # << >> /\ stack' = Below /\ Top.at # "enable"
    BY <1>18 DEF Return, Callbacks
  <2> QED BY <1>0, <2>1, PopStep
<1>19. CASE Poll \/ UNCHANGED vars
  <2>1. UNCHANGED stack
    BY <1>19 DEF Poll, vars
  <2> QED BY <1>0, <2>1, PopStep
<1> QED BY <1>3, <1>4, <1>5, <1>7, <1>8, <1>9, <1>10, <1>11, <1>12, <1>13, <1>14,
           <1>16, <1>17, <1>18, <1>19
        DEF Next, UserStep, LoopStep

\* How the state of a connection changes.
LEMMA StateStep ==
    ASSUME TypeOK, [Next]_vars, NEW c \in Conns
    PROVE  \/ state'[c] = state[c]
           \/ state[c] = "none" /\ state'[c] = "Connecting" /\ Accept(c)
           \/ state[c] = "Connecting" /\ state'[c] = "Connected" /\ EstablishConn(c)
           \/ state[c] = "Connected" /\ state'[c] = "Disconnecting" /\ ShutdownWrite(c)
           \/ IsOpen(c) /\ state'[c] = "Disconnected" /\ ForceClose(c)
           \/ IsOpen(c) /\ state'[c] = "Disconnected" /\ HandleReadEnd(c)
<1>0. state \in [Conns -> States]
  BY DEF TypeOK
<1>1. ASSUME NEW d \in Conns, Accept(d)
      PROVE  state'[c] = state[c]
             \/ (d = c /\ state[c] = "none" /\ state'[c] = "Connecting" /\ Accept(d))
  BY <1>0, <1>1 DEF Accept
<1>2. ASSUME NEW d \in Conns, EstablishConn(d)
      PROVE  state'[c] = state[c]
             \/ (d = c /\ state[c] = "Connecting" /\ state'[c] = "Connected" /\ EstablishConn(d))
  BY <1>0, <1>2 DEF EstablishConn
<1>3. ASSUME NEW d \in Conns, ShutdownWrite(d)
      PROVE  state'[c] = state[c]
             \/ (d = c /\ state[c] = "Connected" /\ state'[c] = "Disconnecting" /\ ShutdownWrite(d))
  BY <1>0, <1>3 DEF ShutdownWrite
<1>4. ASSUME NEW d \in Conns, ForceClose(d)
      PROVE  state'[c] = state[c]
             \/ (d = c /\ IsOpen(c) /\ state'[c] = "Disconnected" /\ ForceClose(d))
  BY <1>0, <1>4 DEF ForceClose, HandleClose, IsOpen
<1>5. ASSUME NEW d \in Conns, HandleReadEnd(d)
      PROVE  state'[c] = state[c]
             \/ (d = c /\ IsOpen(c) /\ state'[c] = "Disconnected" /\ HandleReadEnd(d))
  BY <1>0, <1>5 DEF HandleReadEnd, HandleClose, IsOpen
<1>6. ASSUME NEW d \in Conns,
             \/ Send(d) \/ SetOption(d) \/ HandleEvent(d) \/ HandleReadData(d)
             \/ HandleWriteError(d) \/ HandleWritePanic(d) \/ HandleWriteSome(d)
             \/ FinishHandleWrite(d) \/ FinishSend(d) \/ PeerStep(d)
      PROVE  state'[c] = state[c]
  BY <1>6 DEF Send, SetOption, HandleEvent, HandleReadData, HandleWriteError,
              HandleWritePanic, HandleWriteSome, FinishHandleWrite, FinishSend,
              PeerStep, PeerSend, PeerClose, PeerReset, PeerReads, library
<1>7. CASE Poll \/ RunFunctor \/ RunTimer \/ Return \/ UNCHANGED vars
  BY <1>7 DEF Poll, RunFunctor, RunTimer, Return, vars, library
<1> QED BY <1>1, <1>2, <1>3, <1>4, <1>5, <1>6, <1>7 DEF Next, UserStep, LoopStep

\* The batch only shrinks, until the next Poll.
LEMMA BatchStep ==
    ASSUME [Next]_vars
    PROVE  batch' \subseteq batch \/ Poll
<1>1. ASSUME NEW c \in Conns, Accept(c) \/ EstablishConn(c) \/ UserStep(c) \/ PeerStep(c)
      PROVE  batch' \subseteq batch
  BY <1>1 DEF Accept, EstablishConn, UserStep, Send, ShutdownWrite, ForceClose, SetOption,
              PeerStep, PeerSend, PeerClose, PeerReset, PeerReads, poller
<1>2. ASSUME NEW c \in Conns, LoopStep(c)
      PROVE  batch' \subseteq batch
  BY <1>2 DEF LoopStep, HandleEvent, HandleReadData, HandleReadEnd, HandleWriteError,
              HandleWritePanic, HandleWriteSome, FinishHandleWrite, FinishSend, poller
<1>3. CASE RunFunctor \/ RunTimer \/ Return \/ UNCHANGED vars
  BY <1>3 DEF RunFunctor, RunTimer, Return, vars, poller
<1> QED BY <1>1, <1>2, <1>3 DEF Next

\* The top frame is on the stack, and a read frame is nowhere else.
LEMMA TopInFrames ==
    ASSUME TypeOK, stack # << >>
    PROVE  Top \in Frames
<1>1. Len(stack) \in Nat \ {0} /\ DOMAIN stack = 1..Len(stack)
  BY BelowFacts, LenProperties DEF TypeOK
<1>2. Len(stack) \in DOMAIN stack
  BY <1>1
<1> QED BY <1>2 DEF Frames, Top

LEMMA OnTopInFrames ==
    ASSUME TypeOK, NEW at, NEW c, OnTop(at, c)
    PROVE  F(at, c) \in Frames /\ F(at, c).at = at /\ F(at, c).conn = c
BY TopInFrames DEF OnTop, F

LEMMA ReadOnTop ==
    ASSUME TypeOK, StackOK, NEW f \in Frames, f.at = "read"
    PROVE  stack # << >> /\ f = Top
<1>1. DOMAIN stack = 1..Len(stack)
  BY LenProperties DEF TypeOK
<1>2. PICK i \in 1..Len(stack) : f = stack[i]
  BY <1>1 DEF Frames
<1>3. FrameOK(stack, i)
  BY DEF StackOK
<1>4. i = Len(stack)
  BY <1>2, <1>3 DEF FrameOK
<1> QED BY <1>2, <1>4 DEF Top

ReadsAreTop == \A f \in Frames : f.at = "read" => f = Top

LEMMA ReadsOnTop == TypeOK /\ StackOK => ReadsAreTop
BY ReadOnTop DEF ReadsAreTop

\* After a connection has closed, no read frame is left.
LEMMA NoReadAfterClose ==
    ASSUME BaseOK, [Next]_vars, NEW c \in Conns, IsOpen(c), ForceClose(c) \/ HandleReadEnd(c),
           NEW f \in Frames'
    PROVE  f.at # "read"
<1>1. TypeOK /\ StackOK /\ TypeOK' /\ StackOK'
  BY BaseInductive DEF BaseOK
<1>2. PICK s \in Seq(Frame) : HandleClose(c, s)
  <2>1. ForceClose(c) => HandleClose(c, stack)
    BY DEF ForceClose
  <2>2. HandleReadEnd(c) => HandleClose(c, Below) /\ stack # << >>
    BY DEF HandleReadEnd, OnTop
  <2>3. stack \in Seq(Frame) /\ (stack # << >> => Below \in Seq(Frame))
    BY <1>1, BelowFacts DEF TypeOK
  <2> QED BY <2>1, <2>2, <2>3
<1>3. stack' = Append(s, F("disconnected", c)) /\ F("disconnected", c) \in Frame
  BY <1>2, FrameType DEF HandleClose, IsOpen, Callbacks
<1>4. stack'[Len(stack')] = F("disconnected", c)
  BY <1>2, <1>3, PushFacts
<1>5. Top'.at # "read"
  BY <1>4 DEF Top, F
<1>6. (f \in Frames' /\ f.at = "read" => f = Top')
  <2>1. (TypeOK /\ StackOK)' => ReadsAreTop'
    BY ReadsOnTop, PTL
  <2> QED BY <1>1, <2>1 DEF ReadsAreTop
<1> QED BY <1>5, <1>6

-----------------------------------------------------------------------------
(* Callbacks that close only their own connection.                         *)

\* What ForceClose and handleRead close is not in the batch.
LEMMA ClosedApart ==
    ASSUME Isolated, BaseOK, BatchApart, NEW c \in Conns, ForceClose(c) \/ HandleReadEnd(c)
    PROVE  c \notin batch
<1> USE ConnAssumption
<1>0. TypeOK /\ StackOK
  BY DEF BaseOK
<1>1. CASE HandleReadEnd(c)
  <2>1. OnTop("read", c)
    BY <1>1 DEF HandleReadEnd
  <2> QED BY <1>0, <2>1, OnTopInFrames DEF BatchApart
<1>2. CASE ForceClose(c)
  <2>1. /\ stack # << >> /\ Top.at \in Callbacks /\ "ForceClose" \in OpsIn[Top.at]
        /\ Top.conn = c \/ Top.at = "functor"
    BY <1>2 DEF ForceClose, InUserCode, Isolated
  <2>2. Top \in Frames
    BY <1>0, <2>1, TopInFrames
  <2>3. Len(stack) \in Nat \ {0} /\ stack \in Seq(Frame)
    BY <1>0, <2>1, BelowFacts DEF TypeOK
  <2>4. FrameOK(stack, Len(stack)) /\ Top = stack[Len(stack)]
    BY <1>0, <2>3 DEF StackOK, Top
  <2>5. HighWater = 0 => Top.at # "highWater"
    BY <2>4 DEF FrameOK
  <2>6. Top.at \notin {"enable", "highWater"}
    BY <2>1, <2>5 DEF Isolated, Callbacks
  <2>7. CASE Top.conn = c
    BY <2>2, <2>6, <2>7 DEF BatchApart
  <2>8. CASE Top.at = "functor"
    BY <2>2, <2>8 DEF BatchApart
  <2> QED BY <2>1, <2>7, <2>8
<1> QED BY <1>1, <1>2

\* A batch holds open connections, none of which is being handled.
LEMMA BatchApartInductive ==
    ASSUME Isolated, BaseOK, BatchApart, [Next]_vars
    PROVE  BatchApart'
<1> USE ConnAssumption
<1>0. /\ TypeOK /\ SocketsOK /\ StackOK /\ batch \subseteq Conns \cup {NoConn}
      /\ state \in [Conns -> States]
  BY DEF BaseOK, TypeOK
<1>1. CASE Poll
  <2>1. Frames' = {} /\ UNCHANGED state
    BY <1>1 DEF Poll, Idle, Frames
  <2>2. ASSUME NEW c \in batch', c # NoConn
        PROVE  IsOpen(c)'
    <3>1. IsOpen(c)
      BY <1>0, <1>1, <2>2, PollBatch
    <3> QED BY <2>1, <3>1 DEF IsOpen
  <2> QED BY <2>1, <2>2 DEF BatchApart
<1>2. CASE batch' \subseteq batch
  <2>1. StackStep
    BY EveryStackStep
  <2>2. ASSUME NEW c \in Conns, IsOpen(c)
        PROVE  IsOpen(c)' \/ ((ForceClose(c) \/ HandleReadEnd(c)) /\ IsOpen(c))
    <3>1. \/ state'[c] = state[c]
          \/ state'[c] = "Disconnecting"
          \/ ForceClose(c)
          \/ HandleReadEnd(c)
      BY <1>0, <2>2, StateStep DEF IsOpen
    <3> QED BY <2>2, <3>1 DEF IsOpen
  <2>3. ASSUME NEW c \in batch', c # NoConn
        PROVE  IsOpen(c)'
    <3>1. c \in batch /\ c \in Conns /\ IsOpen(c)
      BY <1>0, <1>2, <2>3 DEF BatchApart
    <3> QED BY <2>2, <3>1, ClosedApart
  <2>4. ASSUME NEW f \in Frames', f \in Frames
        PROVE  /\ f.at \notin {"enable", "highWater"} => f.conn \notin batch'
               /\ f.at = "functor" => batch' = {}
               /\ f.at = "read" => IsOpen(f.conn)'
    <3>1. /\ f.at \notin {"enable", "highWater"} => f.conn \notin batch'
          /\ f.at = "functor" => batch' = {}
      BY <1>2, <2>4 DEF BatchApart
    <3>2. ASSUME f.at = "read"
          PROVE  IsOpen(f.conn)'
      <4>1. IsOpen(f.conn)
        BY <2>4, <3>2 DEF BatchApart
      <4>2. PICK c \in Conns : c = f.conn
        <5>1. stack # << >> /\ f = Top
          BY <1>0, <2>4, <3>2, ReadOnTop
        <5>2. Len(stack) \in Nat \ {0}
          BY <1>0, <5>1, BelowFacts DEF TypeOK
        <5>3. FrameOK(stack, Len(stack)) /\ f = stack[Len(stack)]
          BY <1>0, <5>1, <5>2 DEF StackOK, Top
        <5> QED BY <3>2, <5>3 DEF FrameOK
      <4>3. IsOpen(c)'
        BY <2>2, <2>4, <3>2, <4>1, <4>2, NoReadAfterClose
      <4> QED BY <4>2, <4>3
    <3> QED BY <3>1, <3>2
  <2>5. ASSUME NEW f \in Frames', Pushes(f)
        PROVE  /\ f.at \notin {"enable", "highWater"} => f.conn \notin batch'
               /\ f.at = "functor" => batch' = {}
               /\ f.at = "read" => IsOpen(f.conn)'
    <3> DEFINE c == f.conn
    <3>1. CASE f.conn \in Conns /\ f.at = "establish" /\ Accept(c)
      <4>1. state[c] = "none"
        BY <3>1 DEF Accept
      <4>2. c \notin batch
        BY <3>1, <4>1 DEF BatchApart, IsOpen
      <4> QED BY <1>2, <3>1, <4>2
    <3>2. CASE f.conn \in Conns /\ f.at = "connected" /\ EstablishConn(c)
      <4>1. OnTop("establish", c) \/ batch = {}
        BY <3>2 DEF EstablishConn, Idle
      <4>2. c \notin batch
        BY <1>0, <4>1, OnTopInFrames DEF BatchApart
      <4> QED BY <1>2, <3>2, <4>2
    <3>3. CASE f.conn \in Conns /\ f.at \in {"enable", "highWater"} /\ Send(c)
      BY <3>3
    <3>4. CASE /\ f.conn \in Conns /\ f.at = "disconnected"
               /\ ForceClose(c) \/ HandleReadEnd(c)
      BY <1>2, <3>4, ClosedApart
    <3>5. CASE f.conn \in Conns /\ f.at \in {"write", "read"} /\ HandleEvent(c)
      <4>1. batch' = batch \ {c} /\ c \in batch /\ UNCHANGED state
        BY <3>5 DEF HandleEvent, library
      <4>2. IsOpen(c)'
        BY <3>5, <4>1 DEF BatchApart, IsOpen
      <4> QED BY <3>5, <4>1, <4>2
    <3>6. CASE f.conn \in Conns /\ f.at = "message" /\ HandleReadData(c)
      <4>1. OnTop("read", c)
        BY <3>6 DEF HandleReadData
      <4>2. c \notin batch
        BY <1>0, <4>1, OnTopInFrames DEF BatchApart
      <4> QED BY <1>2, <3>6, <4>2
    <3>7. CASE f.conn \in Conns /\ f.at \in {"shut", "writeComplete"} /\ HandleWriteSome(c)
      <4>1. OnTop("write", c)
        BY <3>7 DEF HandleWriteSome
      <4>2. c \notin batch
        BY <1>0, <4>1, OnTopInFrames DEF BatchApart
      <4> QED BY <1>2, <3>7, <4>2
    <3>8. CASE f.conn = NoConn /\ f.at = "functor" /\ RunFunctor
      BY <1>2, <3>8 DEF RunFunctor, Idle
    <3>9. CASE f.conn = NoConn /\ f.at = "timer" /\ RunTimer
      BY <3>9 DEF RunTimer
    <3> QED BY <2>5, <3>1, <3>2, <3>3, <3>4, <3>5, <3>6, <3>7, <3>8, <3>9 DEF Pushes
  <2> QED BY <2>1, <2>3, <2>4, <2>5 DEF BatchApart, StackStep
<1> QED BY <1>1, <1>2, BatchStep

LEMMA ApartHolds ==
    ASSUME Isolated
    PROVE  Spec => [](BaseOK /\ BatchApart)
<1>1. Init => BaseOK /\ BatchApart
  BY InitBase DEF BaseOK, Init, StackOK, BatchApart, Frames
<1>2. BaseOK /\ BatchApart /\ [Next]_vars => (BaseOK /\ BatchApart)'
  BY BaseInductive, BatchApartInductive
<1> QED BY <1>1, <1>2, PTL DEF Spec

-----------------------------------------------------------------------------
(* Descriptors that are used again.                                        *)

\* accept(2) alone gives a connection its descriptor.
LEMMA FdStep ==
    ASSUME TypeOK, [Next]_vars, NEW c \in Conns
    PROVE  fd'[c] = fd[c] \/ Accept(c)
<1>0. fd \in [Conns -> Fds \cup {0}]
  BY DEF TypeOK
<1>1. ASSUME NEW d \in Conns, Accept(d)
      PROVE  fd'[c] = fd[c] \/ d = c
  <2>1. PICK f \in Fds : fd' = [fd EXCEPT ![d] = f]
    BY <1>1 DEF Accept
  <2> QED BY <1>0, <2>1
<1>2. ASSUME NEW d \in Conns, EstablishConn(d) \/ UserStep(d) \/ PeerStep(d)
      PROVE  fd' = fd
  BY <1>2 DEF EstablishConn, UserStep, Send, ShutdownWrite, ForceClose, SetOption,
              PeerStep, PeerSend, PeerClose, PeerReset, PeerReads, library
<1>3. ASSUME NEW d \in Conns, LoopStep(d)
      PROVE  fd' = fd
  BY <1>3 DEF LoopStep, HandleEvent, HandleReadData, HandleReadEnd, HandleWriteError,
              HandleWritePanic, HandleWriteSome, FinishHandleWrite, FinishSend, library
<1>4. CASE Poll \/ RunFunctor \/ RunTimer \/ Return \/ UNCHANGED vars
  BY <1>4 DEF Poll, RunFunctor, RunTimer, Return, vars, library
<1> QED BY <1>1, <1>2, <1>3, <1>4 DEF Next

\* establishConn alone puts a channel into the map.
LEMMA MapStep ==
    ASSUME TypeOK, SocketsOK, [Next]_vars, NEW f \in Fds
    PROVE  \/ channelMap'[f] = channelMap[f]
           \/ channelMap'[f] = NoConn
           \/ \E d \in Conns : EstablishConn(d)
<1>0. channelMap \in [Fds -> Conns \cup {NoConn}]
  BY DEF TypeOK
<1>1. ASSUME NEW d \in Conns, Accept(d) \/ Send(d) \/ ShutdownWrite(d) \/ SetOption(d) \/ PeerStep(d)
      PROVE  channelMap' = channelMap
  BY <1>1 DEF Accept, Send, ShutdownWrite, SetOption,
              PeerStep, PeerSend, PeerClose, PeerReset, PeerReads, poller
<1>2. ASSUME NEW d \in Conns,
             \/ HandleEvent(d) \/ HandleReadData(d) \/ HandleWriteError(d) \/ HandleWritePanic(d)
             \/ HandleWriteSome(d) \/ FinishHandleWrite(d) \/ FinishSend(d)
      PROVE  channelMap' = channelMap
  BY <1>2 DEF HandleEvent, HandleReadData, HandleWriteError,
              HandleWritePanic, HandleWriteSome, FinishHandleWrite, FinishSend, poller
<1>3. ASSUME NEW d \in Conns, ForceClose(d) \/ HandleReadEnd(d)
      PROVE  channelMap'[f] = channelMap[f] \/ channelMap'[f] = NoConn
  <2>1. channelMap' = channelMap \/ channelMap' = [channelMap EXCEPT ![fd[d]] = NoConn]
    BY <1>3 DEF ForceClose, HandleReadEnd, HandleClose, RemoveChannel
  <2> QED BY <1>0, <2>1
<1>4. CASE Poll \/ RunFunctor \/ RunTimer \/ Return \/ UNCHANGED vars
  BY <1>4 DEF Poll, RunFunctor, RunTimer, Return, vars, poller
<1> QED BY <1>1, <1>2, <1>3, <1>4 DEF Next, UserStep, LoopStep

\* A step mentions no closed connection that was not mentioned before it.
LEMMA MentionedStep ==
    ASSUME BaseOK, [Next]_vars, NEW c \in Conns, state[c] = "Disconnected", Mentioned(c)'
    PROVE  Mentioned(c)
<1> USE ConnAssumption
<1>0. TypeOK /\ SocketsOK /\ StackOK
  BY DEF BaseOK
<1>1. ASSUME NEW at, OnTop(at, c)
      PROVE  Mentioned(c)
  BY <1>0, <1>1, OnTopInFrames DEF Mentioned
<1>2. CASE c \in batch'
  <2>1. CASE Poll
    <3>1. IsOpen(c)
      BY <1>0, <1>2, <2>1, PollBatch
    <3> QED BY <3>1 DEF IsOpen
  <2>2. CASE batch' \subseteq batch
    BY <1>2, <2>2 DEF Mentioned
  <2> QED BY <2>1, <2>2, BatchStep
<1>3. ASSUME NEW f \in Frames', f.conn = c
      PROVE  Mentioned(c)
  <2>1. f \in Frames \/ Pushes(f)
    BY <1>3, EveryStackStep DEF StackStep
  <2>2. CASE f \in Frames
    BY <1>3, <2>2 DEF Mentioned
  <2>3. CASE Pushes(f)
    <3>1. \/ Accept(c) \/ EstablishConn(c) \/ Send(c) \/ IsOpen(c)
          \/ HandleEvent(c) \/ HandleReadData(c) \/ HandleWriteSome(c)
      BY <1>3, <2>3 DEF Pushes
    <3>2. HandleEvent(c) \/ HandleReadData(c) \/ HandleWriteSome(c)
      BY <3>1 DEF Accept, EstablishConn, Send, IsOpen
    <3>3. c \in batch \/ OnTop("read", c) \/ OnTop("write", c)
      BY <3>2 DEF HandleEvent, HandleReadData, HandleWriteSome
    <3> QED BY <1>1, <3>3 DEF Mentioned
  <2> QED BY <2>1, <2>2, <2>3
<1> QED BY <1>2, <1>3 DEF Mentioned

\* While the library may come back to a closed connection, its descriptor is
\* not registered for another one.
LEMMA SettledInductive ==
    ASSUME OneLoop => Isolated, BaseOK, Isolated => BatchApart, Settled, [Next]_vars
    PROVE  Settled'
<1> USE ConnAssumption
<1>0. /\ TypeOK /\ SocketsOK /\ StackOK
      /\ channelMap \in [Fds -> Conns \cup {NoConn}]
  BY DEF BaseOK, TypeOK
<1> SUFFICES ASSUME NEW c \in Conns, state'[c] = "Disconnected", Mentioned(c)'
             PROVE  fd'[c] \in Fds /\ channelMap'[fd'[c]] = NoConn
  BY DEF Settled
<1>1. CASE state[c] = "Disconnected"
  <2>1. Mentioned(c)
    BY <1>1, MentionedStep
  <2>2. fd[c] \in Fds /\ channelMap[fd[c]] = NoConn
    BY <1>1, <2>1 DEF Settled
  <2>3. fd'[c] = fd[c]
    BY <1>0, <1>1, FdStep DEF Accept
  <2>4. ASSUME NEW d \in Conns, EstablishConn(d)
        PROVE  FALSE
    <3>1. Frames' = {F("connected", d)} /\ state[d] = "Connecting"
      BY <2>4 DEF EstablishConn, Frames
    <3>2. c # d /\ c \in batch'
      BY <1>1, <3>1 DEF Mentioned, F
    <3>3. c \in batch /\ OneLoop
      BY <2>4, <3>2 DEF EstablishConn, Idle
    <3>4. IsOpen(c)
      BY <3>3 DEF BatchApart
    <3> QED BY <1>1, <3>4 DEF IsOpen
  <2>5. channelMap'[fd[c]] = NoConn
    BY <1>0, <2>2, <2>4, MapStep
  <2> QED BY <2>2, <2>3, <2>5
<1>2. CASE state[c] # "Disconnected"
  <2>1. IsOpen(c) /\ (ForceClose(c) \/ HandleReadEnd(c))
    BY <1>0, <1>2, StateStep
  <2>2. UNCHANGED fd /\ channelMap' = [channelMap EXCEPT ![fd[c]] = NoConn]
    BY <2>1 DEF ForceClose, HandleReadEnd, HandleClose, RemoveChannel, IsOpen
  <2>3. fd[c] \in Fds
    BY <1>0, <2>1 DEF SocketsOK, IsOpen
  <2> QED BY <1>0, <2>2, <2>3
<1> QED BY <1>1, <1>2

-----------------------------------------------------------------------------
(* Output and EPOLLOUT.                                                    *)

\* EPOLL_CTL_MOD on a connection that the library works on panics, or the
\* connection is open and the mask of no other descriptor changes.
LEMMA UpdateResult ==
    ASSUME BaseOK, Settled, NEW c \in Conns, Started(c), IsOpen(c) \/ Mentioned(c),
           NEW mask, UpdateChannel(c, mask), Alive'
    PROVE  /\ IsOpen(c) /\ fd[c] \in Fds
           /\ events' = [events EXCEPT ![c] = mask]
           /\ interest' = [interest EXCEPT ![fd[c]] = mask]
<1>1. channelMap[fd[c]] # NoConn
  BY DEF UpdateChannel, Alive
<1>2. IsOpen(c)
  <2>1. CASE state[c] = "Disconnected" /\ Mentioned(c)
    BY <1>1, <2>1 DEF Settled
  <2> QED BY <2>1 DEF Started, IsOpen
<1>3. fd[c] \in Fds
  BY <1>2 DEF BaseOK, SocketsOK, IsOpen
<1> QED BY <1>1, <1>2, <1>3 DEF UpdateChannel

LEMMA UpdateAgrees ==
    ASSUME BaseOK, Agree, NEW c \in Conns, IsOpen(c), NEW mask, UNCHANGED <<state, fd>>,
           events' = [events EXCEPT ![c] = mask], interest' = [interest EXCEPT ![fd[c]] = mask]
    PROVE  Agree'
<1>0. events \in [Conns -> SUBSET Events] /\ interest \in [Fds -> SUBSET Events]
  BY DEF BaseOK, TypeOK
<1>1. c \in open /\ fd[c] \in Fds
  BY DEF BaseOK, SocketsOK, IsOpen
<1>2. ASSUME NEW d \in Conns, IsOpen(d)'
      PROVE  interest'[fd'[d]] = events'[d]
  <2>1. IsOpen(d) /\ d \in open /\ fd[d] \in Fds
    BY <1>2 DEF BaseOK, SocketsOK, IsOpen
  <2>2. CASE d = c
    BY <1>0, <1>1, <2>2
  <2>3. CASE d # c
    <3>1. fd[d] # fd[c]
      BY <1>1, <2>1, <2>3 DEF BaseOK, SocketsOK
    <3>2. interest[fd[d]] = events[d]
      BY <2>1 DEF Agree
    <3> QED BY <1>0, <1>1, <2>1, <2>3, <3>1, <3>2
  <2> QED BY <2>2, <2>3
<1> QED BY <1>2 DEF Agree

\* The part of Send that enables writing, on a connection that it works on.
LEMMA EnableResult ==
    ASSUME BaseOK, Settled, Agree, NEW c \in Conns, Started(c), IsOpen(c) \/ Mentioned(c),
           EnableWriting(c), Alive', UNCHANGED <<state, fd>>
    PROVE  /\ Agree'
           /\ events' = [events EXCEPT ![c] = @ \cup {"out"}] \/ UNCHANGED events
           /\ "out" \in events'[c]
<1>0. events \in [Conns -> SUBSET Events]
  BY DEF BaseOK, TypeOK
<1>1. CASE "out" \in events[c]
  <2>1. UNCHANGED <<events, interest, state, fd>>
    BY <1>1 DEF EnableWriting
  <2> QED BY <1>1, <2>1 DEF Agree, IsOpen
<1>2. CASE "out" \notin events[c]
  <2> DEFINE mask == events[c] \cup {"out"}
  <2>1. UpdateChannel(c, mask)
    BY <1>2 DEF EnableWriting
  <2> HIDE DEF mask
  <2>2. /\ IsOpen(c) /\ events' = [events EXCEPT ![c] = mask]
        /\ interest' = [interest EXCEPT ![fd[c]] = mask]
    BY <2>1, UpdateResult
  <2>3. Agree'
    BY <2>2, UpdateAgrees
  <2> QED BY <1>0, <2>2, <2>3 DEF mask
<1> QED BY <1>1, <1>2

\* handleWrite that has emptied the buffer, on a connection that is open.
LEMMA DisableResult ==
    ASSUME BaseOK, Settled, Agree, NEW c \in Conns, Started(c), Mentioned(c),
           UpdateChannel(c, events[c] \ {"out"}), Alive', UNCHANGED <<state, fd>>
    PROVE  Agree' /\ events' = [events EXCEPT ![c] = @ \ {"out"}]
<1> DEFINE mask == events[c] \ {"out"}
<1>1. UpdateChannel(c, mask)
  OBVIOUS
<1> HIDE DEF mask
<1>2. /\ IsOpen(c) /\ events' = [events EXCEPT ![c] = mask]
      /\ interest' = [interest EXCEPT ![fd[c]] = mask]
  BY <1>1, UpdateResult
<1>3. Agree'
  BY <1>2, UpdateAgrees
<1> QED BY <1>2, <1>3 DEF mask

\* The epoll set has the events of every channel.
LEMMA AgreeInductive ==
    ASSUME BaseOK, Settled, Alive => Agree, [Next]_vars, Alive'
    PROVE  Agree'
<1> USE ConnAssumption
<1>0. /\ TypeOK /\ SocketsOK /\ StackOK
      /\ state \in [Conns -> States]
      /\ events \in [Conns -> SUBSET Events] /\ interest \in [Fds -> SUBSET Events]
      /\ fd \in [Conns -> Fds \cup {0}]
  BY DEF BaseOK, TypeOK
<1>1. ASSUME NEW c \in Conns, Accept(c)
      PROVE  Agree'
  <2>1. PICK f \in Fds : fd' = [fd EXCEPT ![c] = f]
    BY <1>1 DEF Accept
  <2>2. /\ state' = [state EXCEPT ![c] = "Connecting"] /\ events' = [events EXCEPT ![c] = Events]
        /\ UNCHANGED interest /\ Alive
    BY <1>1 DEF Accept, poller
  <2>3. ASSUME NEW d \in Conns, IsOpen(d)'
        PROVE  interest'[fd'[d]] = events'[d]
    <3>1. d # c /\ IsOpen(d)
      BY <1>0, <2>2, <2>3 DEF IsOpen
    <3> QED BY <1>0, <2>1, <2>2, <3>1 DEF Agree
  <2> QED BY <2>3 DEF Agree
<1>2. ASSUME NEW c \in Conns, EstablishConn(c)
      PROVE  Agree'
  <2>1. /\ state[c] = "Connecting" /\ state' = [state EXCEPT ![c] = "Connected"]
        /\ interest' = [interest EXCEPT ![fd[c]] = events[c]]
        /\ UNCHANGED <<fd, events>> /\ Alive
    BY <1>2 DEF EstablishConn
  <2>2. c \in open /\ fd[c] \in Fds
    BY <1>0, <2>1 DEF SocketsOK
  <2>3. ASSUME NEW d \in Conns, IsOpen(d)', d # c
        PROVE  interest'[fd'[d]] = events'[d]
    <3>1. IsOpen(d)
      BY <1>0, <2>1, <2>3 DEF IsOpen
    <3>2. d \in open /\ fd[d] \in Fds /\ fd[d] # fd[c]
      BY <1>0, <2>2, <2>3, <3>1 DEF SocketsOK, IsOpen
    <3> QED BY <1>0, <2>1, <2>2, <3>1, <3>2 DEF Agree
  <2>4. interest'[fd'[c]] = events'[c]
    BY <1>0, <2>1, <2>2
  <2> QED BY <2>3, <2>4 DEF Agree
<1>3. ASSUME NEW c \in Conns, Send(c)
      PROVE  Agree'
  <2>1. /\ Alive /\ UNCHANGED <<state, fd>> /\ state[c] = "Connected"
        /\ EnableWriting(c) \/ UNCHANGED <<events, interest>>
    BY <1>3 DEF Send
  <2>2. Started(c) /\ IsOpen(c)
    BY <2>1 DEF Started, IsOpen
  <2>3. CASE EnableWriting(c)
    BY <2>1, <2>2, <2>3, EnableResult
  <2>4. CASE UNCHANGED <<events, interest>>
    BY <2>1, <2>4 DEF Agree, IsOpen
  <2> QED BY <2>1, <2>3, <2>4
<1>4. ASSUME NEW c \in Conns, ShutdownWrite(c)
      PROVE  Agree'
  <2>1. /\ state[c] = "Connected" /\ state' = [state EXCEPT ![c] = "Disconnecting"]
        /\ UNCHANGED <<fd, events, interest>> /\ Alive
    BY <1>4 DEF ShutdownWrite, poller
  <2>2. \A d \in Conns : IsOpen(d)' => IsOpen(d)
    BY <1>0, <2>1 DEF IsOpen
  <2> QED BY <2>1, <2>2 DEF Agree
<1>5. ASSUME NEW c \in Conns, ForceClose(c) \/ HandleReadEnd(c)
      PROVE  Agree'
  <2>1. Alive /\ IsOpen(c) /\ UNCHANGED <<fd, events>>
    BY <1>5 DEF ForceClose, HandleReadEnd, HandleClose, IsOpen, Alive
  <2>2. /\ state' = [state EXCEPT ![c] = "Disconnected"]
        /\ interest' = [interest EXCEPT ![fd[c]] = {}]
    BY <1>5, <2>1 DEF ForceClose, HandleReadEnd, HandleClose, RemoveChannel, IsOpen
  <2>3. c \in open /\ fd[c] \in Fds
    BY <1>0, <2>1 DEF SocketsOK, IsOpen
  <2>4. ASSUME NEW d \in Conns, IsOpen(d)'
        PROVE  interest'[fd'[d]] = events'[d]
    <3>1. d # c /\ IsOpen(d)
      BY <1>0, <2>2, <2>4 DEF IsOpen
    <3>2. d \in open /\ fd[d] \in Fds /\ fd[d] # fd[c]
      BY <1>0, <2>3, <3>1 DEF SocketsOK, IsOpen
    <3> QED BY <1>0, <2>1, <2>2, <2>3, <3>1, <3>2 DEF Agree
  <2> QED BY <2>4 DEF Agree
<1>6. ASSUME NEW c \in Conns, HandleWriteSome(c)
      PROVE  Agree'
  <2>1. /\ Alive /\ UNCHANGED <<state, fd>> /\ OnTop("write", c)
        /\ UpdateChannel(c, events[c] \ {"out"}) \/ UNCHANGED <<events, interest>>
    BY <1>6 DEF HandleWriteSome
  <2>2. Started(c) /\ Mentioned(c)
    BY <1>0, <2>1, OnTopStarted, OnTopInFrames DEF Mentioned
  <2>3. CASE UpdateChannel(c, events[c] \ {"out"})
    BY <2>1, <2>2, <2>3, DisableResult
  <2>4. CASE UNCHANGED <<events, interest>>
    BY <2>1, <2>4 DEF Agree, IsOpen
  <2> QED BY <2>1, <2>3, <2>4
<1>7. ASSUME NEW c \in Conns, FinishSend(c)
      PROVE  Agree'
  <2>1. Alive /\ UNCHANGED <<state, fd>> /\ OnTop("enable", c) /\ EnableWriting(c)
    BY <1>7 DEF FinishSend
  <2>2. Started(c) /\ Mentioned(c)
    BY <1>0, <2>1, OnTopStarted, OnTopInFrames DEF Mentioned
  <2> QED BY <2>1, <2>2, EnableResult
<1>8. ASSUME UNCHANGED <<state, fd, events, interest>>, Alive
      PROVE  Agree'
  BY <1>8 DEF Agree, IsOpen
<1>9. ASSUME NEW c \in Conns,
             \/ SetOption(c) \/ HandleEvent(c) \/ HandleReadData(c) \/ HandleWriteError(c)
             \/ HandleWritePanic(c) \/ FinishHandleWrite(c) \/ PeerStep(c)
      PROVE  Agree'
  <2>1. Alive /\ UNCHANGED <<state, fd, events, interest>>
    BY <1>9 DEF SetOption, HandleEvent, HandleReadData, HandleWriteError, HandleWritePanic,
                FinishHandleWrite, PeerStep, PeerSend, PeerClose, PeerReset, PeerReads,
                library, poller
  <2> QED BY <1>8, <2>1
<1>10. CASE Poll \/ RunFunctor \/ RunTimer \/ Return \/ UNCHANGED vars
  <2>1. Alive /\ UNCHANGED <<state, fd, events, interest>>
    BY <1>10 DEF Poll, RunFunctor, RunTimer, Return, vars, library, poller, Alive
  <2> QED BY <1>8, <2>1
<1> QED BY <1>1, <1>2, <1>3, <1>4, <1>5, <1>6, <1>7, <1>9, <1>10 DEF Next, UserStep, LoopStep

\* EPOLLOUT is disabled only by handleWrite, when it has emptied the buffer.
LEMMA OutKept ==
    ASSUME BaseOK, Settled, Alive => Agree, [Next]_vars, Alive', NEW c \in Conns,
           "out" \in events[c]
    PROVE  "out" \in events'[c] \/ (HandleWriteSome(c) /\ out'[c] = 0)
<1>0. TypeOK /\ StackOK /\ events \in [Conns -> SUBSET Events]
  BY DEF BaseOK, TypeOK
<1>1. ASSUME NEW d \in Conns, Accept(d)
      PROVE  "out" \in events'[c]
  <2>1. events' = [events EXCEPT ![d] = Events]
    BY <1>1 DEF Accept
  <2> QED BY <1>0, <2>1 DEF Events
<1>2. ASSUME NEW d \in Conns, Started(d), IsOpen(d) \/ Mentioned(d), EnableWriting(d),
             UNCHANGED <<state, fd>>, Alive
      PROVE  "out" \in events'[c]
  <2>1. events' = [events EXCEPT ![d] = @ \cup {"out"}] \/ UNCHANGED events
    BY <1>2, EnableResult
  <2> QED BY <1>0, <2>1
<1>3. ASSUME NEW d \in Conns, Send(d)
      PROVE  "out" \in events'[c]
  <2>1. /\ Alive /\ UNCHANGED <<state, fd>> /\ state[d] = "Connected"
        /\ EnableWriting(d) \/ UNCHANGED events
    BY <1>3 DEF Send
  <2>2. Started(d) /\ IsOpen(d)
    BY <2>1 DEF Started, IsOpen
  <2> QED BY <1>2, <2>1, <2>2
<1>4. ASSUME NEW d \in Conns, FinishSend(d)
      PROVE  "out" \in events'[c]
  <2>1. Alive /\ UNCHANGED <<state, fd>> /\ OnTop("enable", d) /\ EnableWriting(d)
    BY <1>4 DEF FinishSend
  <2>2. Started(d) /\ Mentioned(d)
    BY <1>0, <2>1, OnTopStarted, OnTopInFrames DEF Mentioned
  <2> QED BY <1>2, <2>1, <2>2
<1>5. ASSUME NEW d \in Conns, HandleWriteSome(d)
      PROVE  "out" \in events'[c] \/ (d = c /\ HandleWriteSome(d) /\ out'[d] = 0)
  <2>1. events' = events \/ (events' = [events EXCEPT ![d] = events[d] \ {"out"}] /\ out'[d] = 0)
    BY <1>5 DEF HandleWriteSome, UpdateChannel
  <2> QED BY <1>0, <1>5, <2>1
<1>6. ASSUME NEW d \in Conns,
             \/ EstablishConn(d) \/ ShutdownWrite(d) \/ ForceClose(d) \/ SetOption(d) \/ PeerStep(d)
      PROVE  UNCHANGED events
  BY <1>6 DEF EstablishConn, ShutdownWrite, ForceClose, SetOption,
              PeerStep, PeerSend, PeerClose, PeerReset, PeerReads, library
<1>7. ASSUME NEW d \in Conns,
             \/ HandleEvent(d) \/ HandleReadData(d) \/ HandleReadEnd(d) \/ HandleWriteError(d)
             \/ HandleWritePanic(d) \/ FinishHandleWrite(d)
      PROVE  UNCHANGED events
  BY <1>7 DEF HandleEvent, HandleReadData, HandleReadEnd, HandleWriteError,
              HandleWritePanic, FinishHandleWrite, library
<1>8. CASE Poll \/ RunFunctor \/ RunTimer \/ Return \/ UNCHANGED vars
  BY <1>8 DEF Poll, RunFunctor, RunTimer, Return, vars, library
<1> QED BY <1>1, <1>3, <1>4, <1>5, <1>6, <1>7, <1>8 DEF Next, UserStep, LoopStep

\* The steps that change the output buffer, and those that set revents.
LEMMA OutStep ==
    ASSUME TypeOK, [Next]_vars, NEW c \in Conns
    PROVE  /\ out'[c] = out[c] \/ Send(c) \/ HandleWriteError(c) \/ HandleWriteSome(c)
           /\ revents' = revents \/ Poll
<1>0. out \in [Conns -> 0..MaxOut]
  BY DEF TypeOK
<1>1. ASSUME NEW d \in Conns, Send(d) \/ HandleWriteError(d) \/ HandleWriteSome(d)
      PROVE  (d = c \/ out'[c] = out[c]) /\ revents' = revents
  <2>1. (\E n : out' = [out EXCEPT ![d] = n]) /\ revents' = revents
    BY <1>1 DEF Send, HandleWriteError, HandleWriteSome
  <2> QED BY <1>0, <2>1
<1>2. ASSUME NEW d \in Conns,
             \/ Accept(d) \/ EstablishConn(d) \/ ShutdownWrite(d) \/ ForceClose(d) \/ SetOption(d)
             \/ PeerStep(d)
      PROVE  UNCHANGED <<out, revents>>
  BY <1>2 DEF Accept, EstablishConn, ShutdownWrite, ForceClose, SetOption,
              PeerStep, PeerSend, PeerClose, PeerReset, PeerReads, library
<1>3. ASSUME NEW d \in Conns,
             \/ HandleEvent(d) \/ HandleReadData(d) \/ HandleReadEnd(d)
             \/ HandleWritePanic(d) \/ FinishHandleWrite(d) \/ FinishSend(d)
      PROVE  UNCHANGED <<out, revents>>
  BY <1>3 DEF HandleEvent, HandleReadData, HandleReadEnd,
              HandleWritePanic, FinishHandleWrite, FinishSend, library
<1>4. CASE RunFunctor \/ RunTimer \/ Return \/ UNCHANGED vars
  BY <1>4 DEF RunFunctor, RunTimer, Return, vars, library
<1>5. CASE Poll
  BY <1>5 DEF Poll
<1> QED BY <1>1, <1>2, <1>3, <1>4, <1>5 DEF Next, UserStep, LoopStep

\* handleWrite is called with no frame below it, for a channel that is not in
\* the batch.
LEMMA WriteBottom ==
    ASSUME BaseOK, NEW c \in Conns, OnTop("write", c)
    PROVE  FramesOf(Below) = {} /\ Below \in Seq(Frame) /\ c \notin batch
<1>0. TypeOK /\ StackOK /\ stack \in Seq(Frame)
  BY DEF BaseOK, TypeOK
<1>1. /\ stack # << >> /\ Len(stack) \in Nat \ {0}
      /\ stack[Len(stack)].at = "write" /\ stack[Len(stack)].conn = c
      /\ FrameOK(stack, Len(stack))
  BY <1>0, OnTopFacts
<1>2. Len(stack) = 1 /\ c \notin batch
  BY <1>1 DEF FrameOK
<1>3. Below \in Seq(Frame) /\ Len(Below) = 0
  BY <1>0, <1>1, <1>2, BelowFacts
<1>4. DOMAIN Below = {}
  BY <1>3, LenProperties
<1>5. FramesOf(Below) = {}
  BY <1>4 DEF FramesOf
<1> QED BY <1>2, <1>3, <1>5

\* When it has emptied the buffer it leaves two frames.
LEMMA Emptied ==
    ASSUME BaseOK, NEW c \in Conns, HandleWriteSome(c), out'[c] = 0
    PROVE  /\ Frames' = {F("shut", c), F("writeComplete", c)}
           /\ F("write", c) \notin Frames' /\ c \notin batch'
<1>1. OnTop("write", c) /\ batch' = batch
  BY DEF HandleWriteSome
<1>2. FramesOf(Below) = {} /\ Below \in Seq(Frame) /\ c \notin batch
  BY <1>1, WriteBottom
<1>3. stack' = Below \o <<F("shut", c), F("writeComplete", c)>>
  BY DEF HandleWriteSome
<1>4. F("shut", c) \in Frame /\ F("writeComplete", c) \in Frame
  BY FrameType DEF Callbacks
<1>5. FramesOf(stack') = {F("shut", c), F("writeComplete", c)}
  BY <1>2, <1>3, <1>4, FramesTwo
<1>6. Frames' = FramesOf(stack')
  BY DEF Frames, FramesOf
<1>7. F("write", c) # F("shut", c) /\ F("write", c) # F("writeComplete", c)
  <2>1. /\ F("write", c).at = "write" /\ F("shut", c).at = "shut"
        /\ F("writeComplete", c).at = "writeComplete"
    BY DEF F
  <2> QED BY <2>1
<1> QED BY <1>1, <1>2, <1>5, <1>6, <1>7

\* Output and events that are to be handled keep EPOLLOUT enabled.
LEMMA WantedInductive ==
    ASSUME BaseOK, Settled, Alive => Agree /\ Wanted, [Next]_vars, Alive'
    PROVE  Wanted'
<1> USE ConnAssumption
<1>0. /\ TypeOK /\ SocketsOK /\ StackOK /\ StackStep /\ Alive
      /\ events \in [Conns -> SUBSET Events]
  <2>1. Alive
    BY ZenonT(40) DEF Next, UserStep, LoopStep, PeerStep, Accept, EstablishConn, Send, ShutdownWrite, ForceClose,
           SetOption, HandleEvent, HandleReadData, HandleReadEnd, HandleWriteError,
           HandleWritePanic, HandleWriteSome, FinishHandleWrite, FinishSend, PeerSend, PeerClose,
           PeerReset, PeerReads, Poll, RunFunctor, RunTimer, Return, vars, Alive
  <2> QED BY ZenonT(40), <2>1, EveryStackStep DEF BaseOK, TypeOK
<1> SUFFICES ASSUME NEW c \in Conns, IsOpen(c)'
             PROVE  /\ F("write", c) \in Frames' => "out" \in events'[c]
                    /\ c \in batch' /\ "out" \in revents'[c] => "out" \in events'[c]
                    /\ out'[c] > 0 => "out" \in events'[c] \/ F("enable", c) \in Frames'
  BY DEF Wanted
<1>1. CASE EstablishConn(c)
  <2>1. events'[c] = Events
    BY <1>0, <1>1 DEF EstablishConn, StackOK
  <2> QED BY <2>1 DEF Events
<1>2. CASE ~EstablishConn(c)
  <2>1. IsOpen(c)
    BY <1>0, <1>2, StateStep DEF IsOpen
  <2>2. ASSUME F("write", c) \in Frames'
        PROVE  "out" \in events'[c]
    <3>1. F("write", c) \in Frames \/ (c \in batch /\ "out" \in revents[c])
      <4>1. F("write", c) \in Frames \/ Pushes(F("write", c))
        BY <1>0, <2>2 DEF StackStep
      <4>2. Pushes(F("write", c)) => HandleEvent(c) /\ "out" \in revents[c]
        BY DEF Pushes, F
      <4> QED BY <4>1, <4>2 DEF HandleEvent
    <3>2. "out" \in events[c]
      BY <1>0, <2>1, <3>1 DEF Wanted
    <3> QED BY <1>0, <2>2, <3>2, OutKept, Emptied
  <2>3. ASSUME c \in batch', "out" \in revents'[c]
        PROVE  "out" \in events'[c]
    <3>1. CASE Poll
      <4>1. revents'[c] \subseteq interest[fd[c]]
        BY <1>0, <2>3, <3>1, PollBatch
      <4>2. interest[fd[c]] = events[c]
        BY <1>0, <2>1 DEF Agree
      <4>3. UNCHANGED events
        BY <3>1 DEF Poll
      <4> QED BY <2>3, <4>1, <4>2, <4>3
    <3>2. CASE ~Poll
      <4>1. c \in batch /\ "out" \in revents[c]
        BY <1>0, <2>3, <3>2, BatchStep, OutStep
      <4>2. "out" \in events[c]
        BY <1>0, <2>1, <4>1 DEF Wanted
      <4> QED BY <1>0, <2>3, <4>2, OutKept, Emptied
    <3> QED BY <3>1, <3>2
  <2>4. ASSUME out'[c] > 0
        PROVE  "out" \in events'[c] \/ F("enable", c) \in Frames'
    <3>1. ASSUME "out" \in events[c]
          PROVE  "out" \in events'[c]
      BY <1>0, <2>4, <3>1, OutKept
    <3>2. CASE Send(c)
      <4>1. /\ UNCHANGED <<state, fd>> /\ state[c] = "Connected"
            /\ \/ EnableWriting(c)
               \/ stack' = stack \o <<F("enable", c), F("highWater", c)>>
        BY <3>2 DEF Send
      <4>2. CASE EnableWriting(c)
        <5>1. Started(c)
          BY <4>1 DEF Started
        <5> QED BY <1>0, <2>1, <4>1, <4>2, <5>1, EnableResult
      <4>3. CASE stack' = stack \o <<F("enable", c), F("highWater", c)>>
        <5>1. F("enable", c) \in Frame /\ F("highWater", c) \in Frame /\ stack \in Seq(Frame)
          BY <1>0, FrameType DEF Callbacks, TypeOK
        <5>2. FramesOf(stack') = FramesOf(stack) \cup {F("enable", c), F("highWater", c)}
          BY <4>3, <5>1, FramesTwo
        <5> QED BY <5>2 DEF Frames, FramesOf
      <4> QED BY <4>1, <4>2, <4>3
    <3>3. CASE HandleWriteError(c) \/ HandleWriteSome(c)
      <4>1. OnTop("write", c)
        BY <3>3 DEF HandleWriteError, HandleWriteSome
      <4>2. "out" \in events[c]
        BY <1>0, <2>1, <4>1, OnTopInFrames DEF Wanted
      <4> QED BY <3>1, <4>2
    <3>4. CASE out'[c] = out[c]
      <4>1. "out" \in events[c] \/ F("enable", c) \in Frames
        BY <1>0, <2>1, <2>4, <3>4 DEF Wanted
      <4>2. CASE F("enable", c) \in Frames
        <5>1. F("enable", c) \in Frames' \/ FinishSend(c)
          BY <1>0, <4>2 DEF StackStep, F
        <5>2. CASE FinishSend(c)
          <6>1. UNCHANGED <<state, fd>> /\ OnTop("enable", c) /\ EnableWriting(c)
            BY <5>2 DEF FinishSend
          <6>2. Started(c)
            BY <2>1 DEF Started, IsOpen
          <6> QED BY <1>0, <2>1, <6>1, <6>2, EnableResult
        <5> QED BY <5>1, <5>2
      <4> QED BY <3>1, <4>1, <4>2
    <3> QED BY <1>0, <3>2, <3>3, <3>4, OutStep
  <2> QED BY <2>2, <2>3, <2>4
<1> QED BY <1>1, <1>2

\* The whole argument for output.
OutputOK ==
    /\ BaseOK
    /\ Isolated => BatchApart
    /\ Settled
    /\ Alive => Agree /\ Wanted

LEMMA OutputHolds ==
    ASSUME OneLoop => Isolated
    PROVE  Spec => []OutputOK
<1>1. Init => OutputOK
  <2>1. Init => BaseOK
    BY InitBase DEF BaseOK, Init, StackOK
  <2>2. Init => BatchApart /\ Settled /\ Agree /\ Wanted
    BY DEF Init, BatchApart, Settled, Agree, Wanted, IsOpen, Frames
  <2> QED BY <2>1, <2>2 DEF OutputOK
<1>2. OutputOK /\ [Next]_vars => OutputOK'
  <2> SUFFICES ASSUME OutputOK, [Next]_vars
               PROVE  OutputOK'
    OBVIOUS
  <2>1. BaseOK /\ Settled /\ (Isolated => BatchApart) /\ (Alive => Agree /\ Wanted)
    BY DEF OutputOK
  <2>2. BaseOK' /\ Settled'
    BY <2>1, BaseInductive, SettledInductive
  <2>3. Isolated => BatchApart'
    BY <2>1, BatchApartInductive
  <2>4. Alive' => Agree' /\ Wanted'
    BY <2>1, AgreeInductive, WantedInductive
  <2>5. Isolated' <=> Isolated
    BY DEF Isolated
  <2> QED BY <2>2, <2>3, <2>4, <2>5 DEF OutputOK
<1> QED BY <1>1, <1>2, PTL DEF Spec

\* Bytes that Send has accepted are not left behind: EPOLLOUT stays in the
\* epoll set until handleWrite has emptied the output buffer, whatever calls
\* callbacks nest, however often descriptors are used again and whatever
\* write(2) answers.  With several loops this needs no more; when accept runs
\* on the connections' own loop it needs callbacks that leave other channels'
\* connections alone, because a descriptor may be used again in the batch in
\* which it was closed.
THEOREM OutputIsNotStranded ==
    ASSUME OneLoop => Isolated
    PROVE  Spec => []NoStrandedOutput
<1>1. OutputOK => NoStrandedOutput
  <2> SUFFICES ASSUME OutputOK, NEW c \in Conns, Alive, IsOpen(c), out[c] > 0,
                      F("enable", c) \notin Frames
               PROVE  "out" \in interest[fd[c]]
    BY DEF NoStrandedOutput
  <2> QED BY DEF OutputOK, Agree, Wanted
<1> QED BY <1>1, OutputHolds, PTL

-----------------------------------------------------------------------------
(* Whose sockets the system calls meet.                                    *)

\* Sockets are opened by accept(2).
LEMMA OpenStep ==
    ASSUME TypeOK, [Next]_vars, NEW o \in open'
    PROVE  o \in open \/ (o \in Conns /\ Accept(o))
<1>1. ASSUME NEW c \in Conns, Accept(c)
      PROVE  o \in open \/ (o \in Conns /\ Accept(o))
  <2>1. open' = open \cup {c}
    BY <1>1 DEF Accept
  <2> QED BY <1>1, <2>1
<1>2. ASSUME NEW c \in Conns, EstablishConn(c) \/ UserStep(c) \/ PeerStep(c)
      PROVE  o \in open
  BY <1>2 DEF EstablishConn, UserStep, Send, ShutdownWrite, ForceClose, HandleClose, CloseSocket,
              SetOption, PeerStep, PeerSend, PeerClose, PeerReset, PeerReads, kernel
<1>3. ASSUME NEW c \in Conns, LoopStep(c)
      PROVE  o \in open
  BY <1>3 DEF LoopStep, HandleEvent, HandleReadData, HandleReadEnd, HandleClose, CloseSocket,
              HandleWriteError, HandleWritePanic, HandleWriteSome, FinishHandleWrite, FinishSend,
              kernel
<1>4. CASE Poll \/ RunFunctor \/ RunTimer \/ Return \/ UNCHANGED vars
  BY <1>4 DEF Poll, RunFunctor, RunTimer, Return, vars, kernel
<1> QED BY <1>1, <1>2, <1>3, <1>4 DEF Next

\* No other open socket has the descriptor of c.
AloneAt(c) == \A o \in open : fd[o] = fd[c] => o = c

\* That goes for what is open, and for what has a frame.
LEMMA AloneOpen ==
    ASSUME BaseOK, NEW c \in Conns, IsOpen(c)
    PROVE  AloneAt(c)
BY DEF BaseOK, SocketsOK, IsOpen, AloneAt

LEMMA AloneOnTop ==
    ASSUME BaseOK, Alone, NEW c \in Conns, NEW at, OnTop(at, c)
    PROVE  AloneAt(c)
BY OnTopInFrames DEF BaseOK, Alone, AloneAt

\* No step takes it away from a connection that keeps its descriptor.
LEMMA AloneKept ==
    ASSUME BaseOK, [Next]_vars, NEW c \in Conns, AloneAt(c),
           \A o \in Conns : ~Accept(o)
    PROVE  AloneAt(c)'
<1>1. TypeOK /\ open \subseteq Conns
  BY DEF BaseOK, TypeOK
<1>2. ASSUME NEW o \in open', fd'[o] = fd'[c]
      PROVE  o = c
  <2>1. o \in open /\ o \in Conns
    BY <1>1, OpenStep
  <2>2. fd'[o] = fd[o] /\ fd'[c] = fd[c]
    BY <1>1, <2>1, FdStep
  <2> QED BY <1>2, <2>1, <2>2 DEF AloneAt
<1> QED BY <1>2 DEF AloneAt

\* With one loop, accept(2) does not hand out the descriptor of a connection
\* that the library is working on.
LEMMA AloneInductive ==
    ASSUME OneLoop, Isolated, BaseOK, BatchApart, Alone, [Next]_vars
    PROVE  Alone'
<1>0. TypeOK /\ SocketsOK /\ StackOK /\ StackStep /\ BaseOK'
  BY BaseInductive, EveryStackStep DEF BaseOK
<1>1. CASE \E c \in Conns : Accept(c)
  <2>1. PICK c \in Conns : Accept(c)
    BY <1>1
  <2>2. Frames' = {F("establish", c)} /\ state' = [state EXCEPT ![c] = "Connecting"]
    BY <2>1 DEF Accept, Frames
  <2>3. c \in open'
    BY <2>1 DEF Accept
  <2>4. \A d, e \in open' : fd'[d] = fd'[e] => d = e
    BY <1>0 DEF BaseOK, SocketsOK
  <2> QED BY <2>2, <2>3, <2>4 DEF Alone, F
<1>2. CASE \A c \in Conns : ~Accept(c)
  <2>1. ASSUME NEW f \in Frames', f.conn \in Conns
        PROVE  \A o \in open' : fd'[o] = fd'[f.conn] => o = f.conn
    <3> DEFINE c == f.conn
    <3>1. AloneAt(c)
      <4>1. CASE f \in Frames
        BY <2>1, <4>1 DEF Alone, AloneAt
      <4>2. CASE Pushes(f)
        <5>1. \/ EstablishConn(c) \/ Send(c) \/ IsOpen(c) \/ HandleEvent(c)
              \/ HandleReadData(c) \/ HandleWriteSome(c)
          BY <1>2, <2>1, <4>2, ConnAssumption DEF Pushes
        <5>2. CASE EstablishConn(c)
          BY <1>0, <2>1, <5>2 DEF EstablishConn, SocketsOK, AloneAt
        <5>3. CASE Send(c) \/ IsOpen(c)
          BY <2>1, <5>3, AloneOpen DEF Send, IsOpen
        <5>4. CASE HandleEvent(c)
          <6>1. IsOpen(c)
            BY <2>1, <5>4, ConnAssumption DEF HandleEvent, BatchApart
          <6> QED BY <2>1, <6>1, AloneOpen
        <5>5. CASE HandleReadData(c) \/ HandleWriteSome(c)
          <6>1. \E at : OnTop(at, c)
            BY <5>5 DEF HandleReadData, HandleWriteSome
          <6> QED BY <2>1, <6>1, AloneOnTop
        <5> QED BY <5>1, <5>2, <5>3, <5>4, <5>5
      <4> QED BY <1>0, <2>1, <4>1, <4>2 DEF StackStep
    <3>2. AloneAt(c)'
      <4>1. PICK d \in Conns : d = c
        BY <2>1
      <4>2. AloneAt(d)'
        BY <1>2, <3>1, <4>1, AloneKept
      <4> QED BY <4>1, <4>2
    <3> QED BY <3>2 DEF AloneAt
  <2> QED BY <2>1 DEF Alone
<1> QED BY <1>1, <1>2

\* A system call on such a descriptor meets no socket but its own.
LEMMA OwnAt ==
    ASSUME NEW c \in Conns, AloneAt(c)
    PROVE  SocketAt(fd[c]) \subseteq {c}
BY DEF AloneAt, SocketAt

LEMMA OwnUse ==
    ASSUME NEW c \in Conns, AloneAt(c), NEW call, Uses(c, call)
    PROVE  UNCHANGED stray
<1>1. SocketAt(fd[c]) \ {c} = {}
  BY OwnAt
<1> QED BY <1>1 DEF Uses

LEMMA OwnInductive ==
    ASSUME BaseOK, Alone, OwnSocket, [Next]_vars
    PROVE  OwnSocket'
<1>1. ASSUME NEW c \in Conns, ShutdownWrite(c)
      PROVE  UNCHANGED stray
  <2>1. IsOpen(c) /\ (Uses(c, "shutdown") \/ UNCHANGED stray)
    BY <1>1 DEF ShutdownWrite, ShutdownFD, IsOpen
  <2> QED BY <2>1, AloneOpen, OwnUse
<1>2. ASSUME NEW c \in Conns, SetOption(c)
      PROVE  OwnSocket'
  <2>1. Uses(c, "setsockopt") /\ state[c] \notin {"none", "Connecting"}
    BY <1>2 DEF SetOption
  <2>2. CASE IsOpen(c)
    <3>1. UNCHANGED stray
      BY <2>1, <2>2, AloneOpen, OwnUse
    <3> QED BY <3>1 DEF OwnSocket
  <2>3. CASE ~IsOpen(c)
    <3>1. state[c] = "Disconnected"
      BY <2>1, <2>3 DEF BaseOK, TypeOK, States, IsOpen
    <3> QED BY <2>1, <3>1 DEF OwnSocket, Uses
  <2> QED BY <2>2, <2>3
<1>3. ASSUME NEW c \in Conns, NEW at, OnTop(at, c), NEW call, Uses(c, call) \/ UNCHANGED stray
      PROVE  UNCHANGED stray
  BY <1>3, AloneOnTop, OwnUse
<1>4. ASSUME NEW c \in Conns, HandleReadData(c) \/ HandleReadEnd(c)
      PROVE  UNCHANGED stray
  <2>1. OnTop("read", c) /\ (Uses(c, "read") \/ UNCHANGED stray)
    BY <1>4 DEF HandleReadData, HandleReadEnd
  <2> QED BY <1>3, <2>1
<1>5. ASSUME NEW c \in Conns, HandleWriteError(c) \/ HandleWriteSome(c)
      PROVE  UNCHANGED stray
  <2>1. OnTop("write", c) /\ Uses(c, "write")
    BY <1>5 DEF HandleWriteError, HandleWriteSome
  <2> QED BY <1>3, <2>1
<1>6. ASSUME NEW c \in Conns, FinishHandleWrite(c)
      PROVE  UNCHANGED stray
  <2>1. OnTop("shut", c) /\ (Uses(c, "shutdown") \/ UNCHANGED stray)
    BY <1>6 DEF FinishHandleWrite, ShutdownFD
  <2> QED BY <1>3, <2>1
<1>7. ASSUME NEW c \in Conns,
             \/ Accept(c) \/ EstablishConn(c) \/ Send(c) \/ ForceClose(c) \/ PeerStep(c)
             \/ HandleEvent(c) \/ HandleWritePanic(c) \/ FinishSend(c)
      PROVE  UNCHANGED stray
  BY <1>7 DEF Accept, EstablishConn, Send, ForceClose,
              PeerStep, PeerSend, PeerClose, PeerReset, PeerReads,
              HandleEvent, HandleWritePanic, FinishSend
<1>8. ASSUME Poll \/ RunFunctor \/ RunTimer \/ Return \/ UNCHANGED vars
      PROVE  UNCHANGED stray
  BY <1>8 DEF Poll, RunFunctor, RunTimer, Return, vars
<1>9. UNCHANGED stray \/ OwnSocket'
  BY <1>1, <1>2, <1>4, <1>5, <1>6, <1>7, <1>8 DEF Next, UserStep, LoopStep
<1> QED BY <1>9 DEF OwnSocket

LEMMA AloneHolds ==
    ASSUME OneLoop, Isolated
    PROVE  Spec => [](BaseOK /\ BatchApart /\ Alone /\ OwnSocket)
<1>1. Init => Alone
  BY DEF Init, Alone, Frames
<1>2. Init => OwnSocket
  BY DEF Init, OwnSocket
<1>3. BaseOK /\ BatchApart /\ Alone /\ [Next]_vars => Alone'
  BY AloneInductive
<1>4. BaseOK /\ Alone /\ OwnSocket /\ [Next]_vars => OwnSocket'
  BY OwnInductive
<1> QED BY <1>1, <1>2, <1>3, <1>4, ApartHolds, PTL DEF Spec

\* With one loop, and callbacks that close no connection but their own, every
\* readv, write and shutdown is on the connection's own socket, although a
\* descriptor is used again as soon as it is closed and the library keeps
\* frames and events of closed connections: accept(2) waits until the stack is
\* unwound.  So is every setsockopt but those of user code that still holds a
\* closed connection.
THEOREM SocketsAreOwn ==
    ASSUME OneLoop, Isolated
    PROVE  Spec => []OwnSocket
BY AloneHolds, PTL

\* The write half of an event whose read half has closed the connection finds
\* a descriptor that nobody has, and fails.
LEMMA NoWriteAfterClose ==
    ASSUME BaseOK, Alone, NEW c \in Conns, state[c] = "Disconnected"
    PROVE  ~HandleWriteSome(c)
<1>1. SUFFICES ASSUME HandleWriteSome(c)
               PROVE  FALSE
  OBVIOUS
<1>2. OnTop("write", c) /\ ~WriteFails(c)
  BY <1>1 DEF HandleWriteSome
<1>3. AloneAt(c)
  BY <1>2, AloneOnTop
<1>4. c \notin open
  BY DEF BaseOK, SocketsOK, IsOpen
<1> QED BY <1>2, <1>3, <1>4 DEF WriteFails, SocketAt, AloneAt

\* With one loop, and when no callback closes another channel's connection, nor
\* its own from inside Send, a connection's callbacks end with
\* disconnectedCallback, which handleClose calls once: an event that epoll
\* reported before the close leads to no messageCallback and no
\* writeCompleteCallback after it.
THEOREM CallbacksEndWithClose ==
    ASSUME OneLoop, Isolated
    PROVE  Spec => NoCallbackAfterClose
<1>1. BaseOK /\ BatchApart /\ Alone /\ [Next]_vars =>
        [\A c \in Conns :
           state[c] = "Disconnected" =>
              \A at \in {"connected", "message", "highWater", "writeComplete",
                        "disconnected"} :
                  F(at, c) \in {stack'[i] : i \in DOMAIN stack'}
                  => F(at, c) \in Frames]_stack
  <2> SUFFICES ASSUME BaseOK, BatchApart, Alone, [Next]_vars,
                      NEW c \in Conns, state[c] = "Disconnected",
                      NEW at \in {"connected", "message", "highWater", "writeComplete",
                                 "disconnected"},
                      F(at, c) \in Frames', F(at, c) \notin Frames
               PROVE  FALSE
    BY DEF Frames
  <2>0. TypeOK
    BY DEF BaseOK
  <2>1. Pushes(F(at, c))
    BY EveryStackStep DEF StackStep
  <2>2. F(at, c).at = at /\ F(at, c).conn = c
    BY DEF F
  <2>3. \/ EstablishConn(c) \/ Send(c) \/ IsOpen(c) \/ HandleReadData(c)
        \/ HandleWriteSome(c)
    BY <2>1, <2>2, ConnAssumption DEF Pushes
  <2>4. HandleReadData(c)
    BY <2>3, NoWriteAfterClose DEF EstablishConn, Send, IsOpen
  <2>5. OnTop("read", c)
    BY <2>4 DEF HandleReadData
  <2>6. IsOpen(c)
    BY <2>0, <2>5, OnTopInFrames DEF BatchApart
  <2> QED BY <2>6 DEF IsOpen
<1> QED BY <1>1, AloneHolds, PTL DEF Spec, NoCallbackAfterClose

-----------------------------------------------------------------------------
(* The graceful close.                                                     *)

GracefulInv == OutputOK /\ ShutOK

\* A process that has panicked takes no step.
LEMMA NextAlive == Next => Alive
BY ZenonT(40) DEF Next, UserStep, LoopStep, PeerStep, Accept, EstablishConn, Send, ShutdownWrite, ForceClose,
       SetOption, HandleEvent, HandleReadData, HandleReadEnd, HandleWriteError,
       HandleWritePanic, HandleWriteSome, FinishHandleWrite, FinishSend, PeerSend, PeerClose,
       PeerReset, PeerReads, Poll, RunFunctor, RunTimer, Return

\* Without a high-water mark no Send is interrupted.
LEMMA NoEnable ==
    ASSUME Graceful, BaseOK, NEW f \in Frames
    PROVE  f.at \notin {"enable", "highWater"} /\ (f.conn \in Conns /\ f.at # "establish" => Started(f.conn))
<1>1. DOMAIN stack = 1..Len(stack)
  BY LenProperties DEF BaseOK, TypeOK
<1>2. PICK i \in 1..Len(stack) : f = stack[i]
  BY <1>1 DEF Frames
<1>3. FrameOK(stack, i)
  BY DEF BaseOK, StackOK
<1> QED BY <1>2, <1>3 DEF FrameOK, Graceful

\* The steps that ask for EPOLLOUT.
LEMMA OutAdded ==
    ASSUME TypeOK, [Next]_vars, NEW c \in Conns, "out" \in events'[c]
    PROVE  "out" \in events[c] \/ Accept(c) \/ Send(c) \/ FinishSend(c)
<1>0. events \in [Conns -> SUBSET Events]
  BY DEF TypeOK
<1>1. ASSUME NEW d \in Conns, Accept(d) \/ Send(d) \/ FinishSend(d)
      PROVE  d = c \/ "out" \in events[c]
  <2>1. events' = events \/ \E m : events' = [events EXCEPT ![d] = m]
    BY <1>1 DEF Accept, Send, FinishSend, EnableWriting, UpdateChannel
  <2> QED BY <1>0, <2>1
<1>2. ASSUME NEW d \in Conns, HandleWriteSome(d)
      PROVE  "out" \in events[c]
  <2>1. events' = events \/ events' = [events EXCEPT ![d] = events[d] \ {"out"}]
    BY <1>2 DEF HandleWriteSome, UpdateChannel
  <2> QED BY <1>0, <2>1
<1>3. ASSUME NEW d \in Conns,
             \/ EstablishConn(d) \/ ShutdownWrite(d) \/ ForceClose(d) \/ SetOption(d) \/ PeerStep(d)
      PROVE  events' = events
  BY <1>3 DEF EstablishConn, ShutdownWrite, ForceClose, SetOption,
              PeerStep, PeerSend, PeerClose, PeerReset, PeerReads, library
<1>4. ASSUME NEW d \in Conns,
             \/ HandleEvent(d) \/ HandleReadData(d) \/ HandleReadEnd(d) \/ HandleWriteError(d)
             \/ HandleWritePanic(d) \/ FinishHandleWrite(d)
      PROVE  events' = events
  BY <1>4 DEF HandleEvent, HandleReadData, HandleReadEnd, HandleWriteError,
              HandleWritePanic, FinishHandleWrite, library
<1>5. ASSUME Poll \/ RunFunctor \/ RunTimer \/ Return \/ UNCHANGED vars
      PROVE  events' = events
  BY <1>5 DEF Poll, RunFunctor, RunTimer, Return, vars, library
<1> QED BY <1>1, <1>2, <1>3, <1>4, <1>5 DEF Next, UserStep, LoopStep

\* The steps that shut a socket down: its own connection's.
LEMMA ShutStep ==
    ASSUME BaseOK, [Next]_vars, NEW c \in shut'
    PROVE  \/ c \in shut
           \/ /\ c \in Conns /\ IsOpen(c)
              /\ \/ ShutdownWrite(c) /\ "out" \notin events[c]
                 \/ FinishHandleWrite(c) /\ state[c] = "Disconnecting" /\ OnTop("shut", c)
<1>1. ASSUME NEW d \in Conns, ShutdownWrite(d), c \notin shut
      PROVE  c = d /\ IsOpen(c) /\ "out" \notin events[c]
  <2>1. IsOpen(d) /\ "out" \notin events[d] /\ c \in SocketAt(fd[d])
    BY <1>1 DEF ShutdownWrite, ShutdownFD, IsOpen
  <2>2. SocketAt(fd[d]) \subseteq {d}
    BY <2>1, AloneOpen, OwnAt
  <2> QED BY <2>1, <2>2
<1>2. ASSUME NEW d \in Conns, FinishHandleWrite(d), c \notin shut
      PROVE  c = d /\ IsOpen(c) /\ state[c] = "Disconnecting" /\ OnTop("shut", c)
  <2>1. OnTop("shut", d) /\ state[d] = "Disconnecting" /\ c \in SocketAt(fd[d])
    BY <1>2 DEF FinishHandleWrite, ShutdownFD
  <2>2. SocketAt(fd[d]) \subseteq {d}
    BY <2>1, AloneOpen, OwnAt DEF IsOpen
  <2> QED BY <2>1, <2>2 DEF IsOpen
<1>3. ASSUME NEW d \in Conns,
             \/ Accept(d) \/ EstablishConn(d) \/ Send(d) \/ ForceClose(d) \/ SetOption(d) \/ PeerStep(d)
      PROVE  c \in shut
  BY <1>3 DEF Accept, EstablishConn, Send, ForceClose, HandleClose, CloseSocket, SetOption,
              PeerStep, PeerSend, PeerClose, PeerReset, PeerReads, kernel
<1>4. ASSUME NEW d \in Conns,
             \/ HandleEvent(d) \/ HandleReadData(d) \/ HandleReadEnd(d) \/ HandleWriteError(d)
             \/ HandleWritePanic(d) \/ HandleWriteSome(d) \/ FinishSend(d)
      PROVE  c \in shut
  BY <1>4 DEF HandleEvent, HandleReadData, HandleReadEnd, HandleClose, CloseSocket,
              HandleWriteError, HandleWritePanic, HandleWriteSome, FinishSend, kernel
<1>5. ASSUME Poll \/ RunFunctor \/ RunTimer \/ Return \/ UNCHANGED vars
      PROVE  c \in shut
  BY <1>5 DEF Poll, RunFunctor, RunTimer, Return, vars, kernel
<1> QED BY <1>1, <1>2, <1>3, <1>4, <1>5 DEF Next, UserStep, LoopStep

\* What the graceful close needs of a socket that is shut down.
LEMMA ShutKept ==
    ASSUME Graceful, GracefulInv, Alive, [Next]_vars, NEW c \in shut'
    PROVE  out'[c] = 0 /\ "out" \notin events'[c] /\ state'[c] = "Disconnecting"
<1>0. /\ BaseOK /\ TypeOK /\ SocketsOK /\ Wanted /\ ShutOK
      /\ out \in [Conns -> 0..MaxOut] /\ state \in [Conns -> States]
  BY DEF GracefulInv, OutputOK, BaseOK, TypeOK
<1>1. CASE c \in shut
  <2>1. c \in Conns /\ out[c] = 0 /\ "out" \notin events[c] /\ state[c] = "Disconnecting"
    BY <1>0, <1>1 DEF ShutOK, TypeOK
  <2>2. state'[c] # "Disconnected"
    <3>1. SocketsOK'
      BY <1>0, BaseInductive DEF BaseOK
    <3> QED BY <2>1, <3>1 DEF SocketsOK
  <2>3. state'[c] = "Disconnecting"
    BY <1>0, <2>1, <2>2, StateStep
  <2>4. IsOpen(c)
    BY <2>1 DEF IsOpen
  <2>5. ~OnTop("write", c)
    BY <1>0, <2>1, <2>4, OnTopInFrames DEF Wanted
  <2>6. ~Send(c) /\ ~HandleWriteError(c) /\ ~HandleWriteSome(c) /\ ~Accept(c)
    BY <2>1, <2>5 DEF Send, HandleWriteError, HandleWriteSome, Accept
  <2>7. ~OnTop("enable", c)
    BY <1>0, OnTopInFrames, NoEnable
  <2>8. ~FinishSend(c)
    BY <2>7 DEF FinishSend
  <2>9. out'[c] = 0
    BY <1>0, <2>1, <2>6, OutStep
  <2>10. "out" \notin events'[c]
    BY <1>0, <2>1, <2>6, <2>8, OutAdded
  <2> QED BY <2>3, <2>9, <2>10
<1>2. CASE c \in Conns /\ IsOpen(c) /\ ShutdownWrite(c) /\ "out" \notin events[c]
  <2>1. UNCHANGED <<out, events>> /\ state'[c] = "Disconnecting"
    BY <1>0, <1>2 DEF ShutdownWrite
  <2>2. F("enable", c) \notin Frames
    <3>1. F("enable", c).at = "enable"
      BY DEF F
    <3> QED BY <1>0, <3>1, NoEnable
  <2>3. ~(out[c] > 0)
    BY <1>0, <1>2, <2>2 DEF Wanted
  <2>4. out[c] \in Nat
    BY <1>0, <1>2, ConnAssumption
  <2> QED BY <1>2, <2>1, <2>3, <2>4
<1>3. CASE /\ c \in Conns /\ IsOpen(c) /\ FinishHandleWrite(c)
           /\ state[c] = "Disconnecting" /\ OnTop("shut", c)
  <2>1. UNCHANGED <<out, events, state>>
    BY <1>3 DEF FinishHandleWrite, library
  <2>2. F("shut", c) \in Frames
    BY <1>0, <1>3, OnTopInFrames
  <2>3. "out" \notin events[c]
    BY <1>0, <1>3, <2>2 DEF ShutOK
  <2>4. F("enable", c) \notin Frames
    <3>1. F("enable", c).at = "enable"
      BY DEF F
    <3> QED BY <1>0, <3>1, NoEnable
  <2>5. ~(out[c] > 0)
    BY <1>0, <1>3, <2>3, <2>4 DEF Wanted
  <2>6. out[c] \in Nat
    BY <1>0, <1>3, ConnAssumption
  <2> QED BY <1>3, <2>1, <2>3, <2>5, <2>6
<1> QED BY <1>0, <1>1, <1>2, <1>3, ShutStep

\* While the end of handleWrite is to run, only writeCompleteCallback runs,
\* and a ShutdownWrite in it finds writing disabled, or sees that a Send in an
\* earlier one has enabled it.
LEMMA ShutFrames ==
    ASSUME Graceful, GracefulInv, Alive, Alive', [Next]_vars, NEW c \in Conns,
           IsOpen(c)', F("shut", c) \in Frames'
    PROVE  /\ Frames' \subseteq {F("shut", c), F("writeComplete", c)}
           /\ state'[c] = "Disconnecting" \/ "Send" \notin OpsIn["writeComplete"]
              => "out" \notin events'[c]
<1>0. /\ BaseOK /\ TypeOK /\ SocketsOK /\ StackOK /\ Settled /\ Agree /\ ShutOK
      /\ events \in [Conns -> SUBSET Events] /\ state \in [Conns -> States]
  BY DEF GracefulInv, OutputOK, BaseOK, TypeOK
<1>a. \A d : F("shut", d).at = "shut" /\ F("shut", d).conn = d
             /\ F("writeComplete", d).at = "writeComplete" /\ F("writeComplete", d).conn = d
  BY DEF F
<1>1. CASE HandleWriteSome(c) /\ out'[c] = 0
  <2>1. Frames' = {F("shut", c), F("writeComplete", c)}
    BY <1>0, <1>1, Emptied
  <2>2. OnTop("write", c) /\ UpdateChannel(c, events[c] \ {"out"}) /\ UNCHANGED <<state, fd>>
    BY <1>1 DEF HandleWriteSome
  <2>3. Started(c) /\ Mentioned(c)
    BY <1>0, <2>2, OnTopStarted, OnTopInFrames DEF Mentioned
  <2>4. events' = [events EXCEPT ![c] = @ \ {"out"}]
    BY <1>0, <2>2, <2>3, DisableResult
  <2> QED BY <1>0, <2>1, <2>4
<1>2. CASE HandleWriteSome(c) /\ out'[c] # 0
  <2>1. OnTop("write", c) /\ stack' = Below
    BY <1>2 DEF HandleWriteSome
  <2>2. Frames' = {}
    BY <1>0, <2>1, WriteBottom DEF Frames, FramesOf
  <2> QED BY <2>2
<1>3. CASE ~HandleWriteSome(c)
  <2>1. F("shut", c) \in Frames
    <3>1. ~Pushes(F("shut", c))
      BY <1>3, <1>a, ConnAssumption DEF Pushes
    <3> QED BY <1>0, <3>1, EveryStackStep DEF StackStep
  <2>2. IsOpen(c)
    <3>1. Started(c)
      BY <1>0, <1>a, <2>1, NoEnable
    <3>2. state'[c] # "Disconnected"
      BY DEF IsOpen
    <3> QED BY <1>0, <3>1, <3>2, StateStep DEF Started, IsOpen
  <2>3. /\ Frames \subseteq {F("shut", c), F("writeComplete", c)}
        /\ state[c] = "Disconnecting" \/ "Send" \notin OpsIn["writeComplete"]
           => "out" \notin events[c]
    BY <1>0, <2>1, <2>2 DEF ShutOK
  <2>4. stack # << >>
    BY <2>1 DEF Frames
  <2>5. Top.conn = c /\ Top.at \in {"shut", "writeComplete"}
    BY <1>0, <1>a, <2>3, <2>4, TopInFrames
  <2>6. ASSUME NEW at, NEW d, OnTop(at, d)
        PROVE  at \in {"shut", "writeComplete"}
    BY <2>5, <2>6 DEF OnTop, F
  <2>7. ASSUME NEW op, InUserCode(op)
        PROVE  op \in OpsIn["writeComplete"]
    <3>1. Top.at = "writeComplete"
      BY <2>5, <2>7 DEF InUserCode, Callbacks
    <3> QED BY <2>7, <3>1 DEF InUserCode
  <2>8. ASSUME NEW f \in Frames', Pushes(f)
        PROVE  f \in Frames
    <3>1. ~HandleEvent(f.conn) /\ ~RunFunctor /\ ~RunTimer
      BY <2>4 DEF HandleEvent, RunFunctor, RunTimer, Idle
    <3>2. ~EstablishConn(f.conn) /\ ~HandleReadEnd(f.conn) /\ ~HandleReadData(f.conn)
          /\ ~HandleWriteSome(f.conn)
      BY <2>4, <2>6 DEF EstablishConn, Idle, HandleReadEnd, HandleReadData, HandleWriteSome
    <3>3. ASSUME Send(f.conn) \/ Accept(f.conn)
          PROVE  f \in Frames
      <4>1. stack' = stack
        BY <2>4, <3>3 DEF Send, Accept, Graceful
      <4> QED BY <4>1 DEF Frames
    <3>4. ASSUME IsOpen(f.conn), ForceClose(f.conn)
          PROVE  FALSE
      <4>1. f.conn = c
        BY <2>5, <3>4 DEF ForceClose, Graceful
      <4>2. state'[c] = "Disconnected"
        BY <1>0, <3>4, <4>1 DEF ForceClose, HandleClose, IsOpen
      <4> QED BY <4>2 DEF IsOpen
    <3> QED BY <2>8, <3>1, <3>2, <3>3, <3>4 DEF Pushes
  <2>9. Frames' \subseteq Frames
    BY <1>0, <2>8, EveryStackStep DEF StackStep
  <2>10. ASSUME state'[c] = "Disconnecting" \/ "Send" \notin OpsIn["writeComplete"],
                "out" \in events'[c]
         PROVE  FALSE
    <3>1. ~Accept(c) /\ ~FinishSend(c)
      BY <2>2, <2>6 DEF Accept, IsOpen, FinishSend
    <3>2. ~Send(c)
      <4>1. ASSUME Send(c)
            PROVE  FALSE
        <5>1. "Send" \in OpsIn["writeComplete"] /\ state'[c] = "Connected"
          BY <2>7, <4>1 DEF Send
        <5> QED BY <2>10, <5>1
      <4> QED BY <4>1
    <3>3. "out" \in events[c]
      BY <1>0, <2>10, <3>1, <3>2, OutAdded
    <3>4. state[c] # "Disconnecting" /\ "Send" \in OpsIn["writeComplete"]
      BY <2>3, <3>3
    <3>5. ShutdownWrite(c)
      BY <1>0, <2>2, <2>10, <3>4, StateStep DEF IsOpen
    <3>6. "ShutdownWrite" \in OpsIn["writeComplete"]
      BY <2>7, <3>5 DEF ShutdownWrite
    <3> QED BY <3>4, <3>6 DEF Graceful
  <2> QED BY <2>3, <2>9, <2>10
<1> QED BY <1>1, <1>2, <1>3

LEMMA ShutInductive ==
    ASSUME Graceful, GracefulInv, [Next]_vars
    PROVE  ShutOK'
<1>1. CASE Alive
  <2>1. \A c \in shut' : out'[c] = 0 /\ "out" \notin events'[c] /\ state'[c] = "Disconnecting"
    BY <1>1, ShutKept
  <2>2. ASSUME NEW c \in Conns, Alive', IsOpen(c)', F("shut", c) \in Frames'
        PROVE  /\ Frames' \subseteq {F("shut", c), F("writeComplete", c)}
               /\ state'[c] = "Disconnecting" \/ "Send" \notin OpsIn["writeComplete"]
                  => "out" \notin events'[c]
    BY <1>1, <2>2, ShutFrames
  <2> QED BY <2>1, <2>2, Zenon DEF ShutOK
<1>2. CASE ~Alive
  <2>1. UNCHANGED vars
    BY <1>2, NextAlive
  <2>2. ShutOK /\ ~Alive' /\ UNCHANGED <<shut, out, events, state>>
    BY <1>2, <2>1 DEF vars, library, kernel, Alive, GracefulInv
  <2> QED BY <2>2 DEF ShutOK
<1> QED BY <1>1, <1>2

LEMMA GracefulHolds ==
    ASSUME Graceful
    PROVE  Spec => []GracefulInv
<1>1. Init => ShutOK
  BY DEF Init, ShutOK, Frames
<1>2. GracefulInv /\ [Next]_vars => ShutOK'
  BY ShutInductive
<1>3. Spec => []OutputOK
  BY OutputHolds DEF Graceful, Isolated
<1> QED BY <1>1, <1>2, <1>3, PTL DEF Spec, GracefulInv

\* ShutdownWrite sends the FIN after the last byte that Send has accepted,
\* whether it finds the buffer empty or leaves shutdown(2) to the end of
\* handleWrite, whatever peers do and with any number of loops.  It needs all
\* three conditions: a highWaterCallback, a write-complete callback that has
\* called Send, and a disconnectedCallback of another connection inside it,
\* run between a Send and the look at the buffer.
THEOREM CloseIsGraceful ==
    ASSUME Graceful
    PROVE  Spec => []ShutdownAfterFlush
<1>1. GracefulInv => ShutdownAfterFlush
  BY DEF GracefulInv, ShutOK, ShutdownAfterFlush
<1> QED BY <1>1, GracefulHolds, PTL

-----------------------------------------------------------------------------
(* Calm connections: no panic.                                             *)

\* All that holds of them.
CalmInv ==
    /\ BaseOK /\ BatchApart /\ Settled /\ Alone
    /\ Agree /\ Wanted
    /\ CalmOK

\* handleWrite writes to an open socket that is not shut down, or fails for a
\* connection that is closed.
LEMMA CalmWrite ==
    ASSUME Calm, CalmInv, NEW c \in Conns, OnTop("write", c)
    PROVE  /\ IsOpen(c) => "out" \in events[c] /\ c \notin shut /\ ~WriteFails(c)
           /\ ~WriteFails(c) => IsOpen(c)
<1>0. TypeOK /\ SocketsOK /\ StackOK /\ BaseOK /\ Alone /\ Wanted /\ ShutOK
  BY DEF CalmInv, BaseOK, CalmOK
<1>1. Started(c) /\ F("write", c) \in Frames
  BY <1>0, OnTopStarted, OnTopInFrames
<1>2. SocketAt(fd[c]) \subseteq {c}
  BY <1>0, AloneOnTop, OwnAt
<1>3. ASSUME IsOpen(c)
      PROVE  "out" \in events[c] /\ c \notin shut /\ ~WriteFails(c)
  <2>1. "out" \in events[c] /\ c \notin shut
    BY <1>0, <1>1, <1>3 DEF Wanted, ShutOK
  <2>2. c \in SocketAt(fd[c]) /\ peer[c] # "rst"
    BY <1>0, <1>3 DEF SocketsOK, IsOpen, SocketAt, CalmInv, CalmOK
  <2> QED BY <2>1, <2>2 DEF WriteFails
<1>4. ASSUME ~WriteFails(c)
      PROVE  IsOpen(c)
  <2>1. c \in open
    BY <1>2, <1>4 DEF WriteFails, SocketAt
  <2> QED BY <1>0, <1>1, <2>1 DEF SocketsOK, Started, IsOpen
<1> QED BY <1>3, <1>4

\* EPOLL_CTL_MOD on an open connection does not fail.
LEMMA UpdateAlive ==
    ASSUME BaseOK, NEW c \in Conns, IsOpen(c)
    PROVE  /\ \A mask : UpdateChannel(c, mask) => Alive'
           /\ EnableWriting(c) /\ Alive => Alive'
<1>1. channelMap[fd[c]] # NoConn
  BY ConnAssumption DEF BaseOK, SocketsOK
<1> QED BY <1>1 DEF UpdateChannel, EnableWriting, Alive

\* No step panics.
LEMMA AliveInductive ==
    ASSUME Calm, CalmInv, [Next]_vars
    PROVE  Alive'
<1>0. TypeOK /\ StackOK /\ BaseOK /\ BatchApart /\ Alive /\ IndexOK
  BY DEF CalmInv, CalmOK, BaseOK
<1>1. ASSUME NEW c \in Conns, Send(c)
      PROVE  Alive'
  <2>1. IsOpen(c) /\ (EnableWriting(c) \/ UNCHANGED panicked)
    BY <1>1 DEF Send, IsOpen
  <2> QED BY <1>0, <2>1, UpdateAlive DEF Alive
<1>2. ASSUME NEW c \in Conns, ForceClose(c)
      PROVE  Alive'
  BY <1>2 DEF ForceClose, HandleClose, Alive
<1>3. ASSUME NEW c \in Conns, HandleReadEnd(c)
      PROVE  Alive'
  <2>1. OnTop("read", c)
    BY <1>3 DEF HandleReadEnd
  <2>2. IsOpen(c)
    BY <1>0, <2>1, OnTopInFrames DEF BatchApart
  <2> QED BY <1>3, <2>2 DEF HandleReadEnd, HandleClose, IsOpen, Alive
<1>4. ASSUME NEW c \in Conns, HandleWritePanic(c)
      PROVE  FALSE
  <2>1. OnTop("write", c) /\ readIndex[c] = -1
    BY <1>4 DEF HandleWritePanic
  <2> QED BY <1>0, <2>1, OnTopInFrames DEF IndexOK
<1>5. ASSUME NEW c \in Conns, HandleWriteSome(c)
      PROVE  Alive'
  <2>1. /\ OnTop("write", c) /\ ~WriteFails(c)
        /\ UpdateChannel(c, events[c] \ {"out"}) \/ UNCHANGED panicked
    BY <1>5 DEF HandleWriteSome
  <2>2. IsOpen(c)
    BY <2>1, CalmWrite
  <2> QED BY <1>0, <2>1, <2>2, UpdateAlive DEF Alive
<1>6. ASSUME NEW c \in Conns, FinishSend(c)
      PROVE  FALSE
  <2>1. OnTop("enable", c)
    BY <1>6 DEF FinishSend
  <2> QED BY <1>0, <2>1, OnTopInFrames, NoEnable DEF Calm
<1>7. ASSUME NEW c \in Conns,
             \/ Accept(c) \/ EstablishConn(c) \/ ShutdownWrite(c) \/ SetOption(c) \/ PeerStep(c)
             \/ HandleEvent(c) \/ HandleReadData(c) \/ HandleWriteError(c) \/ FinishHandleWrite(c)
      PROVE  UNCHANGED panicked
  BY <1>7 DEF Accept, EstablishConn, ShutdownWrite, SetOption,
              PeerStep, PeerSend, PeerClose, PeerReset, PeerReads,
              HandleEvent, HandleReadData, HandleWriteError, FinishHandleWrite
<1>8. ASSUME Poll \/ RunFunctor \/ RunTimer \/ Return \/ UNCHANGED vars
      PROVE  UNCHANGED panicked
  BY <1>8 DEF Poll, RunFunctor, RunTimer, Return, vars
<1>9. ASSUME UNCHANGED panicked
      PROVE  Alive'
  BY <1>0, <1>9 DEF Alive
<1> QED BY <1>1, <1>2, <1>3, <1>4, <1>5, <1>6, <1>7, <1>8, <1>9 DEF Next, UserStep, LoopStep

\* Peers do not reset.
LEMMA PeerInductive ==
    ASSUME Calm, CalmInv, [Next]_vars, NEW c \in Conns
    PROVE  peer'[c] # "rst"
<1>0. peer \in [Conns -> {"up", "eof", "rst"}] /\ peer[c] # "rst"
  BY DEF CalmInv, CalmOK, BaseOK, TypeOK
<1>1. ASSUME NEW d \in Conns, PeerStep(d)
      PROVE  peer' = peer \/ peer' = [peer EXCEPT ![d] = "eof"]
  BY <1>1 DEF PeerStep, PeerSend, PeerClose, PeerReset, PeerReads, Calm
<1>2. ASSUME NEW d \in Conns, Accept(d) \/ EstablishConn(d) \/ UserStep(d)
      PROVE  peer' = peer
  BY <1>2 DEF Accept, EstablishConn, UserStep, Send, ShutdownWrite, ForceClose, SetOption, kernel
<1>3. ASSUME NEW d \in Conns, LoopStep(d)
      PROVE  peer' = peer
  BY <1>3 DEF LoopStep, HandleEvent, HandleReadData, HandleReadEnd, HandleWriteError,
              HandleWritePanic, HandleWriteSome, FinishHandleWrite, FinishSend, kernel
<1>4. ASSUME Poll \/ RunFunctor \/ RunTimer \/ Return \/ UNCHANGED vars
      PROVE  peer' = peer
  BY <1>4 DEF Poll, RunFunctor, RunTimer, Return, vars, kernel
<1> QED BY <1>0, <1>1, <1>2, <1>3, <1>4 DEF Next

\* readIndex becomes negative only when write(2) fails.
LEMMA IndexStep ==
    ASSUME TypeOK, [Next]_vars, NEW c \in Conns, readIndex'[c] = -1
    PROVE  readIndex[c] = -1 \/ HandleWriteError(c)
<1>0. readIndex \in [Conns -> {-1, 0, 1}]
  BY DEF TypeOK
<1>1. ASSUME NEW d \in Conns, Send(d)
      PROVE  readIndex[c] = -1
  <2>1. PICK r \in {readIndex[d], 0} : readIndex' = [readIndex EXCEPT ![d] = r]
    BY <1>1 DEF Send
  <2> QED BY <1>0, <2>1
<1>2. ASSUME NEW d \in Conns, HandleWriteError(d)
      PROVE  d = c \/ readIndex[c] = -1
  <2>1. \E r : readIndex' = [readIndex EXCEPT ![d] = r]
    BY <1>2 DEF HandleWriteError
  <2> QED BY <1>0, <2>1
<1>3. ASSUME NEW d \in Conns, HandleWriteSome(d)
      PROVE  readIndex[c] = -1
  <2>1. PICK r \in {1, readIndex[d]} : readIndex' = [readIndex EXCEPT ![d] = r]
    BY <1>3 DEF HandleWriteSome
  <2> QED BY <1>0, <2>1
<1>4. ASSUME NEW d \in Conns,
             \/ Accept(d) \/ EstablishConn(d) \/ ShutdownWrite(d) \/ ForceClose(d) \/ SetOption(d)
             \/ PeerStep(d)
      PROVE  readIndex' = readIndex
  BY <1>4 DEF Accept, EstablishConn, ShutdownWrite, ForceClose, SetOption,
              PeerStep, PeerSend, PeerClose, PeerReset, PeerReads, library
<1>5. ASSUME NEW d \in Conns,
             \/ HandleEvent(d) \/ HandleReadData(d) \/ HandleReadEnd(d)
             \/ HandleWritePanic(d) \/ FinishHandleWrite(d) \/ FinishSend(d)
      PROVE  readIndex' = readIndex
  BY <1>5 DEF HandleEvent, HandleReadData, HandleReadEnd,
              HandleWritePanic, FinishHandleWrite, FinishSend, library
<1>6. ASSUME Poll \/ RunFunctor \/ RunTimer \/ Return \/ UNCHANGED vars
      PROVE  readIndex' = readIndex
  BY <1>6 DEF Poll, RunFunctor, RunTimer, Return, vars, library
<1> QED BY <1>1, <1>2, <1>3, <1>4, <1>5, <1>6 DEF Next, UserStep, LoopStep

\* handleWrite fails at most once for a connection.
LEMMA IndexInductive ==
    ASSUME Calm, CalmInv, [Next]_vars
    PROVE  IndexOK'
<1>0. TypeOK /\ StackOK /\ BaseOK /\ BatchApart /\ IndexOK
  BY DEF CalmInv, CalmOK, BaseOK
<1> SUFFICES ASSUME NEW c \in Conns, readIndex'[c] = -1
             PROVE  state'[c] = "Disconnected" /\ F("write", c) \notin Frames'
  BY DEF IndexOK
<1>1. CASE readIndex[c] = -1
  <2>1. state[c] = "Disconnected" /\ F("write", c) \notin Frames
    BY <1>0, <1>1 DEF IndexOK
  <2>2. state'[c] = "Disconnected"
    BY <1>0, <2>1, StateStep DEF IsOpen
  <2>3. ASSUME Pushes(F("write", c))
        PROVE  FALSE
    <3>1. HandleEvent(c)
      BY <2>3 DEF Pushes, F
    <3>2. c \in batch
      BY <3>1 DEF HandleEvent
    <3> QED BY <1>0, <2>1, <3>2, ConnAssumption DEF BatchApart, IsOpen
  <2> QED BY <2>1, <2>2, <2>3, EveryStackStep, <1>0 DEF StackStep
<1>2. CASE HandleWriteError(c)
  <2>1. OnTop("write", c) /\ WriteFails(c) /\ UNCHANGED state /\ stack' = Below
    BY <1>2 DEF HandleWriteError
  <2>2. Started(c) /\ ~IsOpen(c)
    BY <1>0, <2>1, OnTopStarted, CalmWrite
  <2>3. FramesOf(Below) = {}
    BY <1>0, <2>1, WriteBottom
  <2>4. Frames' = {}
    BY <2>1, <2>3 DEF Frames, FramesOf
  <2> QED BY <2>1, <2>2, <2>4 DEF Started, IsOpen
<1> QED BY <1>0, <1>1, <1>2, IndexStep

LEMMA CalmHolds ==
    ASSUME Calm
    PROVE  Spec => []CalmInv
<1>0. OneLoop /\ Isolated
  BY DEF Calm, Graceful, Isolated
<1>1. Init => CalmInv
  <2>1. Init => BaseOK
    BY InitBase, ConnAssumption DEF BaseOK, Init, StackOK
  <2>2. Init => BatchApart /\ Settled /\ Alone /\ Agree /\ Wanted
    BY DEF Init, BatchApart, Settled, Alone, Agree, Wanted, IsOpen, Frames
  <2>3. Init => CalmOK
    BY DEF Init, CalmOK, Alive, ShutOK, IndexOK, IsOpen
  <2> QED BY <2>1, <2>2, <2>3 DEF CalmInv
<1>2. CalmInv /\ [Next]_vars => CalmInv'
  <2> SUFFICES ASSUME CalmInv, [Next]_vars
               PROVE  CalmInv'
    OBVIOUS
  <2>1. BaseOK /\ BatchApart /\ Settled /\ Alone /\ Agree /\ Wanted
    BY DEF CalmInv
  <2>2. BaseOK' /\ BatchApart' /\ Settled' /\ Alone'
    BY <1>0, <2>1, BaseInductive, BatchApartInductive, SettledInductive, AloneInductive
  <2>3. Alive' /\ ShutOK' /\ IndexOK'
    <3>1. Graceful /\ GracefulInv
      BY <1>0 DEF Calm, CalmInv, CalmOK, GracefulInv, OutputOK
    <3> QED BY <3>1, AliveInductive, ShutInductive, IndexInductive
  <2>4. Agree' /\ Wanted'
    BY <2>1, <2>3, AgreeInductive, WantedInductive
  <2>5. (\A c \in Conns : peer[c] # "rst")'
    BY PeerInductive
  <2> QED BY <2>2, <2>3, <2>4, <2>5 DEF CalmInv, CalmOK
<1> QED BY <1>1, <1>2, PTL DEF Spec

\* Neither handleClose, nor epoll_ctl, nor Peek panics while the loop serves
\* calm connections.  Each condition is needed: without it handleClose meets a
\* closed connection, EPOLL_CTL_MOD a descriptor that is closed or another
\* channel's, or handleWrite an error of write(2) that moves readIndex back.
THEOREM NothingPanics ==
    ASSUME Calm
    PROVE  Spec => []NoPanic
<1>1. CalmInv => NoPanic
  BY DEF CalmInv, CalmOK, Alive, NoPanic
<1> QED BY <1>1, CalmHolds, PTL

=============================================================================
