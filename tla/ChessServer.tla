----------------------------- MODULE ChessServer -----------------------------
(***************************************************************************)
(* The Chinese chess example: the handlers of its server                   *)
(* (backend/game_handler/handler.go) and its clients (frontend/main.go),   *)
(* with the byte streams of every connection between them.                 *)
(*                                                                         *)
(* The server has one loop, so every handler is one step.  A connection is *)
(* named after its client: AtomicIDIncrease never gives an id twice, and a *)
(* frontend dials once.  What a client sends is modelled at the time when  *)
(* it arrives: until then nobody can tell that it has been sent.  A packet *)
(* is atomic: a part of one is not complete (tools/packet.go) and waits,   *)
(* like bytes that have not arrived.  What the user's Move says is chosen  *)
(* when it is handled, for the same reason.  The server's own heartbeats   *)
(* are left out, and with them why a client leaves: it may at any time.    *)
(***************************************************************************)
EXTENDS ChessRules, Sequences, FiniteSets

CONSTANTS
    Clients,            \* the clients
    NoGame,             \* a nil Gcontext
    Moves,              \* the moves that users type
    Extra,              \* packets that programs other than the frontend send
    MaxLoseHeartbeat,   \* commsettings.MaxLoseHeartbeat
    MaxSends,           \* bound: moves and extra packets, of all clients together
    MaxBuffer           \* bound: packets that a burst leaves in the buffer

ASSUME ChessAssumption ==
    /\ NoGame \notin Clients
    /\ Extra \subseteq {"StartMatch", "Unknown", "TooLong"}
    /\ MaxLoseHeartbeat \in Nat \ {0}
    /\ MaxSends \in Nat
    /\ MaxBuffer \in Nat

ToServer == {"Heartbeat", "StartMatch", "Move", "Unknown", "TooLong"}
ToClient == {"Matching", "MatchedRed", "MatchedBlack", "MoveOK", "MoveFailed",
             "RemoteMove", "GameOver", "RemoteLost"}

VARIABLES
    state,       \* ConnContext.ConnState; "new" and "closed" are not in ConnMap
    lose,        \* ConnContext.LoseHertbeatCount
    game,        \* ConnContext.Gcontext, as the player who is red in it
    context,     \* GameContext of each red player
    buffer,      \* inputBuffer of each connection, in packets
    out,         \* packets to the client that it has not read
    client,      \* `state' of main(); "off" before StartMatch, "left" at the end
    myTurn,      \* `myTurn' of main()
    sends,       \* moves and extra packets so far
    panicked     \* the panic that killed the server, "no" for none

players == <<state, game, context>>
clients == <<client, myTurn>>
vars == <<players, lose, buffer, out, clients, sends, panicked>>

NoContext == [black |-> NoGame, turn |-> "red", table |-> << >>]

TypeOK ==
    /\ state \in [Clients -> {"new", "None", "Matching", "Gaming", "closed"}]
    /\ lose \in [Clients -> 0..(MaxLoseHeartbeat - 1)]
    /\ game \in [Clients -> Clients \cup {NoGame}]
    /\ \A c \in Clients : /\ context[c].black \in Clients \cup {NoGame}
                          /\ context[c].turn \in Sides
                          /\ DOMAIN context[c].table \subseteq Points
    /\ buffer \in [Clients -> Seq(ToServer)]
    /\ out \in [Clients -> Seq(ToClient)]
    /\ client \in [Clients -> {"off", "None", "Matching", "Gaming", "Over", "left"}]
    /\ myTurn \in [Clients -> BOOLEAN]
    /\ sends \in 0..MaxSends

Init ==
    /\ state = [c \in Clients |-> "new"]
    /\ lose = [c \in Clients |-> 0]
    /\ game = [c \in Clients |-> NoGame]
    /\ context = [c \in Clients |-> NoContext]
    /\ buffer = [c \in Clients |-> << >>]
    /\ out = [c \in Clients |-> << >>]
    /\ client = [c \in Clients |-> "off"]
    /\ myTurn = [c \in Clients |-> FALSE]
    /\ sends = 0
    /\ panicked = "no"

Alive == panicked = "no"
InConnMap(c) == state[c] \in {"None", "Matching", "Gaming"}
SideOf(c) == IF context[game[c]].black = c THEN "black" ELSE "red"
Remote(c) == IF SideOf(c) = "black" THEN game[c] ELSE context[game[c]].black

\* Conn.Send; what is sent to a client that has left is lost.
Sent(q, c, packets) ==
    [q EXCEPT ![c] = IF client[c] = "left" THEN @ ELSE @ \o packets]

-----------------------------------------------------------------------------
(* What the clients send.                                                  *)

\* At every tick of its ticker a frontend sends a Heartbeat, until the game is
\* over and it only sleeps.
Beats(c) == IF client[c] \in {"None", "Matching", "Gaming"} THEN {<<"Heartbeat">>} ELSE {}

\* The user types a move: it is sent if a game is on, whether or not it is the
\* user's turn.  It may arrive alone, or together with a Heartbeat.
Typed(c) ==
    IF client[c] # "Gaming" \/ sends = MaxSends THEN {}
    ELSE {<<"Move">>} \cup
         IF Len(buffer[c]) = MaxBuffer THEN {}
         ELSE {<<"Heartbeat", "Move">>, <<"Move", "Heartbeat">>}

\* What another program may send.
Odd(c) ==
    IF sends < MaxSends /\ buffer[c] = << >> /\ Beats(c) # {} THEN {<<e>> : e \in Extra}
                                                              ELSE {}

\* What may arrive at once.  A frontend begins with its only StartMatch.
Bursts(c) ==
    IF client[c] = "off" THEN {<<"StartMatch">>}
                         ELSE Beats(c) \cup Typed(c) \cup Odd(c)

-----------------------------------------------------------------------------
(* The server: connections.                                                *)

OnConnect(c) ==
    /\ Alive
    /\ state[c] = "new"
    /\ state' = [state EXCEPT ![c] = "None"]
    /\ UNCHANGED <<lose, game, context, buffer, out, clients, sends, panicked>>

\* The players whom OnClose of the connections S takes out of their game.  A
\* bug that forgets them.
Remotes_None(S) == {}
Remotes(S) == {Remote(c) : c \in {d \in S : state[d] = "Gaming"}} \ S

\* handleClose and OnClose of the connections S, one after the other: whoever
\* played with one of them is out of the game and told so.  The clients of S
\* get an error and leave.  A context that nobody refers to is garbage.
Close(S) ==
    /\ state' = [c \in Clients |-> CASE c \in S -> "closed"
                                     [] c \in Remotes(S) -> "None"
                                     [] OTHER -> state[c]]
    /\ game' = [c \in Clients |-> IF c \in S \cup Remotes(S) THEN NoGame ELSE game[c]]
    /\ context' = [c \in Clients |-> IF \E d \in Clients : game'[d] = c
                                     THEN context[c] ELSE NoContext]
    /\ out' = [c \in Clients |-> CASE c \in S -> << >>
                                   [] c \in Remotes(S) -> Sent(out, c, <<"RemoteLost">>)[c]
                                   [] OTHER -> out[c]]
    /\ client' = [c \in Clients |-> IF c \in S THEN "left" ELSE client[c]]
    /\ myTurn' = [c \in Clients |-> c \notin S /\ myTurn[c]]
    /\ buffer' = [c \in Clients |-> IF c \in S THEN << >> ELSE buffer[c]]
    /\ panicked' = IF \E c \in S : state[c] = "Gaming" /\ ~InConnMap(Remote(c))
                   THEN "nil remote" ELSE "no"
    /\ UNCHANGED sends

\* One connection closes; its count goes with its ConnContext.
CloseOne(c) == Close({c}) /\ lose' = [lose EXCEPT ![c] = 0]

\* The connections that have lost too many heartbeats.
Late == {c \in Clients : InConnMap(c) /\ lose[c] + 1 >= MaxLoseHeartbeat}

\* Every connection loses a heartbeat, and the late ones are closed.  Go's
\* range loop allows the deletions.  A bug that does not count.
OnTimeout_NoCount ==
    /\ Alive
    /\ \E c \in Clients : InConnMap(c)
    /\ UNCHANGED vars
OnTimeout ==
    /\ Alive
    /\ \E c \in Clients : InConnMap(c)
    /\ lose' = [c \in Clients |-> IF InConnMap(c) /\ c \notin Late
                                  THEN lose[c] + 1 ELSE 0]
    /\ Close(Late)

\* A batch of epoll events from before OnTimeout holds an event of a late
\* connection too.  ForceClose has closed the connection when the loop gets to
\* it, and handleRead runs into the assertion of handleClose.
OnTimeoutThenEvent(c) ==
    /\ Alive
    /\ c \in Late
    /\ client[c] = "left" \/ Bursts(c) # {}
    /\ panicked' = "checkme"
    /\ UNCHANGED <<players, lose, buffer, out, clients, sends>>

\* The server sees that the client has closed the connection.  A client whose
\* FIN is lost is never seen to leave: no fairness.
OnClose(c) ==
    /\ Alive
    /\ InConnMap(c)
    /\ client[c] = "left"
    /\ CloseOne(c)

-----------------------------------------------------------------------------
(* The server: packets.                                                    *)

\* IsBytesCompleteWith4BytesHeader and Retrieve: the first packet, and what is
\* left (a TooLong one is never taken, see OnTooLong).  A bug that takes the newest.
Take_Last(bytes) == [packet |-> bytes[Len(bytes)], rest |-> SubSeq(bytes, 1, Len(bytes) - 1)]
Take(bytes) == [packet |-> Head(bytes), rest |-> Tail(bytes)]

\* The socket is readable: handleRead appends all that has arrived to the
\* buffer and calls OnMessage, which takes one packet and leaves the others
\* for the next time that something arrives.
Arrived(c, burst, packet) ==
    /\ Alive
    /\ InConnMap(c)
    /\ Take(buffer[c] \o burst).packet = packet
OnMessage(c, burst, packet) ==
    /\ Arrived(c, burst, packet)
    /\ buffer' = [buffer EXCEPT ![c] = Take(buffer[c] \o burst).rest]
    /\ client' = [client EXCEPT ![c] = IF @ = "off" THEN "None" ELSE @]
    /\ sends' = IF client[c] = "off" \/ burst = <<"Heartbeat">> THEN sends ELSE sends + 1
    /\ UNCHANGED myTurn

OnHeartbeat(c, burst) ==
    /\ OnMessage(c, burst, "Heartbeat")
    /\ lose' = [lose EXCEPT ![c] = 0]
    /\ UNCHANGED <<players, out, panicked>>

\* The other connections that are Matching; the range loop takes any.
Waiting(c) == {v \in Clients : state[v] = "Matching" /\ v # c}

\* Nobody waits: the connection is the one that waits.
OnStartMatch(c, burst) ==
    /\ OnMessage(c, burst, "StartMatch")
    /\ state[c] = "None" /\ Waiting(c) = {}
    /\ state' = [state EXCEPT ![c] = "Matching"]
    /\ out' = Sent(out, c, <<"Matching">>)
    /\ UNCHANGED <<lose, game, context, panicked>>

\* The connection that asks becomes red, the one that waits black.
OnMatched(c, v, burst) ==
    /\ OnMessage(c, burst, "StartMatch")
    /\ state[c] = "None" /\ v \in Waiting(c)
    /\ state' = [state EXCEPT ![c] = "Gaming", ![v] = "Gaming"]
    /\ game' = [game EXCEPT ![c] = c, ![v] = c]
    /\ context' = [context EXCEPT ![c] =
          [black |-> v, turn |-> "red", table |-> NewDefaultChessTable]]
    /\ out' = Sent(Sent(out, v, <<"Matching", "MatchedBlack">>),
                   c, <<"Matching", "MatchedRed">>)
    /\ UNCHANGED <<lose, panicked>>

\* The state is not None: the connection is closed, OnClose deletes its entry,
\* and the handler, which does not return, dereferences the entry.
OnSecondStartMatch(c, burst) ==
    /\ OnMessage(c, burst, "StartMatch")
    /\ state[c] # "None"
    /\ panicked' = "second StartMatch"
    /\ UNCHANGED <<players, lose, out>>

\* The handler reads Gcontext before it looks at the state: a Move without a
\* game is a nil dereference and never the ForceClose that is meant for it
\* (Gcontext is nil in every state but Gaming).
OnLateMove(c, burst) ==
    /\ OnMessage(c, burst, "Move")
    /\ game[c] = NoGame
    /\ panicked' = "late move"
    /\ UNCHANGED <<players, lose, out>>

\* A Move in a game g of c.
MoveArrives(c, burst) == game[c] # NoGame /\ OnMessage(c, burst, "Move")

\* The move is not this player's to make, or not one that DoMove allows.
OnMoveRefused(c, burst, m) ==
    LET g == context[game[c]]
    IN /\ MoveArrives(c, burst)
       /\ \/ g.turn # SideOf(c)
          \/ /\ ~MoveOK(g.turn, g.table, m.from, m.to)
             /\ ~DoMovePanics(g.turn, g.table, m.from, m.to)
       /\ out' = Sent(out, c, <<"MoveFailed">>)
       /\ UNCHANGED <<players, lose, panicked>>

OnMovePanics(c, burst, m) ==
    LET g == context[game[c]]
    IN /\ MoveArrives(c, burst)
       /\ g.turn = SideOf(c)
       /\ DoMovePanics(g.turn, g.table, m.from, m.to)
       /\ panicked' = "nil piece"
       /\ UNCHANGED <<players, lose, out>>

\* The game after a move that does not end it: a bug that leaves the turn.
AfterMove_SameTurn(g, m) == [g EXCEPT !.table = Moved(g.table, m.from, m.to)]
AfterMove(g, m) ==
    [g EXCEPT !.table = Moved(g.table, m.from, m.to), !.turn = Other(g.turn)]

\* Whether a move ends the game: a bug that forgets to look.
Ends_Never(g, m) == FALSE
Ends(g, m) == GameOver(g.table, m.to)

\* The states once a game is over: a bug that leaves the other player's.
BothNone_MoverOnly(c) == [state EXCEPT ![c] = "None"]
BothNone(c) == [state EXCEPT ![c] = "None", ![Remote(c)] = "None"]

\* A move is made.  When it takes a Shuai the game is over: the contexts are
\* cleared and the remote player, not the one who moved, is sent GameOver.
OnMove(c, burst, m) ==
    LET g == context[game[c]]
        r == Remote(c)
    IN /\ MoveArrives(c, burst)
       /\ g.turn = SideOf(c)
       /\ MoveOK(g.turn, g.table, m.from, m.to)
       /\ ~DoMovePanics(g.turn, g.table, m.from, m.to)
       /\ \/ /\ ~Ends(g, m)
             /\ context' = [context EXCEPT ![game[c]] = AfterMove(g, m)]
             /\ out' = Sent(Sent(out, r, <<"RemoteMove">>), c, <<"MoveOK">>)
             /\ UNCHANGED <<state, game>>
          \/ /\ Ends(g, m)
             /\ context' = [context EXCEPT ![game[c]] = NoContext]
             /\ state' = BothNone(c)
             /\ game' = [game EXCEPT ![c] = NoGame, ![r] = NoGame]
             /\ out' = Sent(out, r, <<"GameOver">>)
       /\ UNCHANGED <<lose, panicked>>

\* ServerParse returns nil: ForceClose.
OnUnknown(c, burst) ==
    /\ Arrived(c, burst, "Unknown")
    /\ CloseOne(c)

\* A header that says 2^32 - 4 or more: 4 + bytesLength wraps to less than 4,
\* the packet passes for complete and its slice ends before it begins.
OnTooLong(c, burst) ==
    /\ Arrived(c, burst, "TooLong")
    /\ panicked' = "packet length"
    /\ UNCHANGED <<players, lose, buffer, out, clients, sends>>

-----------------------------------------------------------------------------
(* The clients.  What one does once the server has closed its connection,  *)
(* or is dead, concerns nobody.                                            *)

\* main() takes the next packet from its reader.  After GameOver it sleeps
\* and returns.
ClientReceives(c) ==
    LET p == Head(out[c]) IN
    /\ Alive
    /\ client[c] \notin {"off", "Over", "left"} /\ out[c] # << >>
    /\ out' = [out EXCEPT ![c] = IF p = "RemoteLost" THEN << >> ELSE Tail(@)]
    /\ client' = [client EXCEPT ![c] =
         CASE p = "Matching" -> "Matching"
           [] p \in {"MatchedRed", "MatchedBlack"} ->
                IF client[c] = "Matching" THEN "Gaming" ELSE "left"
           [] p = "GameOver" -> "Over"
           [] p = "RemoteLost" -> "left"
           [] OTHER -> client[c]]
    /\ myTurn' = [myTurn EXCEPT ![c] =
         CASE p \in {"MatchedRed", "RemoteMove"} -> TRUE
           [] p \in {"MatchedBlack", "MoveOK"} -> FALSE
           [] OTHER -> @]
    /\ UNCHANGED <<players, lose, buffer, sends, panicked>>

\* main() returns: "quit", a network error, no heartbeat, or after the sleep.
ClientLeaves(c) ==
    /\ Alive
    /\ client[c] \notin {"off", "left"}
    /\ client' = [client EXCEPT ![c] = "left"]
    /\ myTurn' = [myTurn EXCEPT ![c] = FALSE]
    /\ out' = [out EXCEPT ![c] = << >>]
    /\ UNCHANGED <<players, lose, buffer, sends, panicked>>

-----------------------------------------------------------------------------
OnPacket(c, burst) ==
    \/ OnHeartbeat(c, burst) \/ OnUnknown(c, burst) \/ OnTooLong(c, burst)
    \/ OnLateMove(c, burst)
    \/ OnStartMatch(c, burst) \/ OnSecondStartMatch(c, burst)
    \/ \E v \in Clients : OnMatched(c, v, burst)
    \/ \E m \in Moves : OnMoveRefused(c, burst, m) \/ OnMovePanics(c, burst, m)
                        \/ OnMove(c, burst, m)

Next ==
    \/ OnTimeout
    \/ \E c \in Clients :
         \/ OnConnect(c) \/ OnClose(c) \/ OnTimeoutThenEvent(c)
         \/ ClientReceives(c) \/ ClientLeaves(c)
         \/ \E burst \in Bursts(c) : OnPacket(c, burst)

Spec == Init /\ [][Next]_vars

\* The loop gets to its timer, the ticker of a client that is up goes on, and
\* the loop gets to the socket where its heartbeat arrives.
Fairness ==
    /\ WF_vars(OnTimeout)
    /\ \A c \in Clients :
         WF_vars(\E burst \in Beats(c) : OnPacket(c, burst))

FairSpec == Spec /\ Fairness

-----------------------------------------------------------------------------
(* Properties.                                                             *)

\* Games come in pairs: who is Gaming shares one context, as red or as black,
\* with another connection of ConnMap, and nobody else refers to a context.
\* OnClose and the end of a game (handler.go:80-88, 215-218) rely on it.  Nor
\* do two connections wait at once: they would play (handler.go:119-153).
PairedGames ==
    /\ TypeOK
    /\ Cardinality({c \in Clients : state[c] = "Matching"}) <= 1
    /\ \A c \in Clients :
         /\ (state[c] = "Gaming") <=> (game[c] # NoGame)
         /\ state[c] = "Gaming" =>
              /\ c \in {game[c], context[game[c]].black}
              /\ Remote(c) # c
              /\ state[Remote(c)] = "Gaming"
              /\ game[Remote(c)] = game[c]

\* While a game is on each side has one Shuai, in its palace, no Xiang has
\* crossed the river and every Shi stands where a Shi may (chess.go:69-329).
TableSane ==
    \A c \in Clients : state[c] = "Gaming" =>
        LET table == context[game[c]].table IN
        /\ \A s \in Sides :
             Cardinality({p \in DOMAIN table : table[p] = [side |-> s, type |-> "Shuai"]}) = 1
        /\ \A p \in DOMAIN table :
             CASE table[p].type = "Shuai" -> InPalace(table[p].side, p)
               [] table[p].type = "Shi" -> p \in ShiPoints(table[p].side)
               [] table[p].type = "Xiang" -> ~IsCrossedRiver(table[p].side, p)
               [] OTHER -> TRUE

\* A client that plays and has read everything the server sent it knows that
\* it plays, and whether it is its turn (handler.go:198-208, main.go:95-139).
ViewsAgree ==
    \A c \in Clients :
        Alive /\ state[c] = "Gaming" /\ out[c] = << >> /\ client[c] # "left" =>
            /\ client[c] = "Gaming"
            /\ myTurn[c] = (context[game[c]].turn = SideOf(c))

\* The handlers dereference the opponent's entry of ConnMap without looking
\* whether it is there (handler.go:87, 201, 216).  It always is: whoever closes,
\* and several may at once, takes the opponent out of the game first.
OpponentPresent == panicked # "nil remote"

\* Heartbeats detect a lost connection (settings.go:3): a client that has gone
\* silent, with packets of its own in the buffer or without, is removed in the
\* end.
SilentRemoved ==
    \A c \in Clients : (client[c] = "left") ~> (state[c] = "closed" \/ ~Alive)

\* OnMessage takes one packet per call, however many have arrived; the moves
\* behind it are still handled in the end, unless the connection closes.
MovesHandled ==
    \A c \in Clients :
        (\E i \in DOMAIN buffer[c] : buffer[c][i] = "Move")
        ~> (\/ ~\E i \in DOMAIN buffer[c] : buffer[c][i] = "Move"
            \/ client[c] \in {"Over", "left"} \/ ~Alive)

\* A StartMatch of a connection that plays or waits is a protocol error, for
\* which the connection is to be closed (handler.go:115-117).  The server does
\* not die of it while only frontends connect.
SecondStartCloses == panicked # "second StartMatch"

=============================================================================
