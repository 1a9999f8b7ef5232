-------------------------- MODULE ChessServerProofs --------------------------
(***************************************************************************)
(* Theorems about the Chinese chess example: who plays with whom, what the *)
(* table looks like, what the players know, and what kills the server.     *)
(***************************************************************************)
EXTENDS ChessServer, FiniteSetTheorems, SequenceTheorems, TLAPS

-----------------------------------------------------------------------------
(* Types.                                                                  *)

Tables == UNION {[D -> Piece] : D \in SUBSET Points}
Games == [black : Clients \cup {NoGame}, turn : Sides, table : Tables]

\* A context is a record, and a table has pieces on its points.
TypesOK ==
    /\ TypeOK
    /\ context \in [Clients -> Games]

LEMMA TableFacts ==
    ASSUME NEW t \in Tables
    PROVE  /\ DOMAIN t \subseteq Points
           /\ \A p \in DOMAIN t : t[p] \in Piece
BY DEF Tables

LEMMA TableMade ==
    ASSUME NEW D \in SUBSET Points, NEW t \in [D -> Piece]
    PROVE  t \in Tables
BY DEF Tables

LEMMA MovedTable ==
    ASSUME NEW t \in Tables, NEW from \in DOMAIN t, NEW to \in Points
    PROVE  /\ Moved(t, from, to) \in Tables
           /\ DOMAIN Moved(t, from, to) = (DOMAIN t \ {from}) \cup {to}
           /\ Moved(t, from, to)[to] = t[from]
           /\ \A p \in DOMAIN t \ {from, to} : Moved(t, from, to)[p] = t[p]
<1> DEFINE D == (DOMAIN t \ {from}) \cup {to}
<1>1. DOMAIN t \subseteq Points /\ \A p \in DOMAIN t : t[p] \in Piece
  BY TableFacts
<1>2. Moved(t, from, to) = [p \in D |-> IF p = to THEN t[from] ELSE t[p]]
  BY DEF Moved
<1>3. D \in SUBSET Points
  BY <1>1
<1>4. Moved(t, from, to) \in [D -> Piece]
  BY <1>1, <1>2
<1>5. Moved(t, from, to) \in Tables
  BY <1>3, <1>4, TableMade
<1> QED BY <1>2, <1>5

-----------------------------------------------------------------------------
(* The opening.                                                            *)

\* The points where a side begins with pieces of a type.
Opening(side, type) == UNION {Start(side, row, type) : row \in {0, 2, 3}}
Occupied == UNION {Opening(s, t) : s \in Sides, t \in Types}

LEMMA OpeningPoints ==
    ASSUME NEW s \in Sides, NEW t \in Types, NEW p \in Opening(s, t)
    PROVE  /\ p \in Points
           /\ \E row \in {0, 2, 3}, x \in 0..8 :
                 /\ p = <<x, IF s = "red" THEN row ELSE 9 - row>>
                 /\ row = 0 => FirstRow[x + 1] = t
                 /\ row = 2 => t = "Pao"
                 /\ row = 3 => t = "Bing"
<1>1. PICK row \in {0, 2, 3} : p \in Start(s, row, t)
  BY DEF Opening
<1>2. PICK x \in 0..8 :
          /\ p = <<x, IF s = "red" THEN row ELSE 9 - row>>
          /\ x \in CASE row = 0 -> {i \in 0..8 : FirstRow[i + 1] = t}
                     [] row = 2 -> IF t = "Pao" THEN {1, 7} ELSE {}
                     [] row = 3 -> IF t = "Bing" THEN {0, 2, 4, 6, 8} ELSE {}
  BY <1>1 DEF Start
<1>3. row = 0 => FirstRow[x + 1] = t
  BY <1>2
<1>4. row = 2 => t = "Pao"
  BY <1>2
<1>5. row = 3 => t = "Bing"
  BY <1>2
<1>6. p \in Points
  BY <1>1, <1>2 DEF Points
<1> QED BY <1>2, <1>3, <1>4, <1>5, <1>6

LEMMA OpeningTable ==
    /\ NewDefaultChessTable \in Tables
    /\ DOMAIN NewDefaultChessTable = Occupied
    /\ \A p \in Occupied :
          LET piece == NewDefaultChessTable[p]
          IN piece \in Piece /\ p \in Opening(piece.side, piece.type)
<1> DEFINE table == [p \in Occupied |->
              CHOOSE piece \in Piece : p \in Opening(piece.side, piece.type)]
<1>1. NewDefaultChessTable = table
  BY DEF NewDefaultChessTable, Occupied, Opening
<1>2. ASSUME NEW p \in Occupied
      PROVE  table[p] \in Piece /\ p \in Opening(table[p].side, table[p].type) /\ p \in Points
  <2>1. PICK s \in Sides, t \in Types : p \in Opening(s, t)
    BY DEF Occupied
  <2>2. [side |-> s, type |-> t] \in Piece
    BY DEF Piece
  <2>3. \E piece \in Piece : p \in Opening(piece.side, piece.type)
    BY <2>1, <2>2
  <2>4. p \in Points
    BY <2>1, OpeningPoints
  <2> QED BY <2>3, <2>4
<1>3. Occupied \in SUBSET Points
  BY <1>2
<1>4. table \in [Occupied -> Piece]
  BY <1>2
<1>5. table \in Tables
  BY <1>3, <1>4, TableMade
<1> QED BY <1>1, <1>2, <1>5

-----------------------------------------------------------------------------
(* The table.                                                              *)

Shuai(s) == [side |-> s, type |-> "Shuai"]

\* Where a piece may be.
PlaceOK(piece, p) ==
    /\ piece.type = "Shuai" => InPalace(piece.side, p)
    /\ piece.type = "Shi" => p \in ShiPoints(piece.side)
    /\ piece.type = "Xiang" => ~IsCrossedRiver(piece.side, p)

\* One Shuai on each side, and every piece where it may be.
OnlyAt(t, piece, p) ==
    /\ p \in DOMAIN t /\ t[p] = piece
    /\ \A q \in DOMAIN t : t[q] = piece => q = p
SaneTable(t) ==
    /\ \A s \in Sides : \E p : OnlyAt(t, Shuai(s), p)
    /\ \A p \in DOMAIN t : PlaceOK(t[p], p)

LEMMA PieceFacts ==
    ASSUME NEW piece \in Piece
    PROVE  /\ piece.side \in Sides /\ piece.type \in Types
           /\ piece = [side |-> piece.side, type |-> piece.type]
BY DEF Piece

LEMMA OpeningIsSane == SaneTable(NewDefaultChessTable)
<1> DEFINE t == NewDefaultChessTable
<1>1. /\ DOMAIN t = Occupied
      /\ \A p \in Occupied : t[p] \in Piece /\ p \in Opening(t[p].side, t[p].type)
  BY OpeningTable
<1> HIDE DEF t
<1>2. ASSUME NEW p \in DOMAIN t
      PROVE  /\ t[p].side \in Sides /\ t[p].type \in Types
             /\ \E row \in {0, 2, 3}, x \in 0..8 :
                   /\ p = <<x, IF t[p].side = "red" THEN row ELSE 9 - row>>
                   /\ row = 0 => FirstRow[x + 1] = t[p].type
                   /\ row = 2 => t[p].type = "Pao"
                   /\ row = 3 => t[p].type = "Bing"
  BY <1>1, OpeningPoints, PieceFacts
<1>3. \A x \in 0..8 :
         /\ FirstRow[x + 1] = "Shuai" => x = 4
         /\ FirstRow[x + 1] = "Shi" => x \in {3, 5}
  BY DEF FirstRow
<1>4. ASSUME NEW s \in Sides
      PROVE  \E p : OnlyAt(t, Shuai(s), p)
  <2> DEFINE p == <<4, IF s = "red" THEN 0 ELSE 9>>
  <2>1. p \in DOMAIN t
    <3>1. p \in Start(s, 0, "Shuai")
      BY DEF Start, FirstRow
    <3>2. p \in Opening(s, "Shuai")
      BY <3>1 DEF Opening
    <3> QED BY <1>1, <3>2 DEF Occupied, Types
  <2>2. t[p] = Shuai(s)
    <3>1. PICK row \in {0, 2, 3}, x \in 0..8 :
             /\ p = <<x, IF t[p].side = "red" THEN row ELSE 9 - row>>
             /\ row = 0 => FirstRow[x + 1] = t[p].type
      BY <1>2, <2>1
    <3>2. x = 4 /\ (IF s = "red" THEN 0 ELSE 9) = (IF t[p].side = "red" THEN row ELSE 9 - row)
      BY <3>1
    <3>3. row = 0 /\ t[p].side = s
      BY <1>2, <2>1, <3>2 DEF Sides
    <3>4. t[p].type = "Shuai"
      BY <3>1, <3>2, <3>3 DEF FirstRow
    <3>5. t[p] \in Piece
      BY <1>1, <2>1
    <3> QED BY <3>3, <3>4, <3>5, PieceFacts DEF Shuai
  <2>3. ASSUME NEW q \in DOMAIN t, t[q] = Shuai(s)
        PROVE  q = p
    <3>1. t[q].side = s /\ t[q].type = "Shuai"
      BY <2>3 DEF Shuai
    <3>2. PICK row \in {0, 2, 3}, x \in 0..8 :
             /\ q = <<x, IF t[q].side = "red" THEN row ELSE 9 - row>>
             /\ row = 0 => FirstRow[x + 1] = t[q].type
             /\ row = 2 => t[q].type = "Pao"
             /\ row = 3 => t[q].type = "Bing"
      BY <1>2
    <3>3. row = 0 /\ x = 4
      BY <1>3, <3>1, <3>2
    <3> QED BY <3>1, <3>2, <3>3
  <2> HIDE DEF p
  <2> QED BY <2>1, <2>2, <2>3 DEF OnlyAt
<1>5. ASSUME NEW p \in DOMAIN t
      PROVE  PlaceOK(t[p], p)
  <2>1. PICK row \in {0, 2, 3}, x \in 0..8 :
           /\ p = <<x, IF t[p].side = "red" THEN row ELSE 9 - row>>
           /\ row = 0 => FirstRow[x + 1] = t[p].type
           /\ row = 2 => t[p].type = "Pao"
           /\ row = 3 => t[p].type = "Bing"
    BY <1>2
  <2>2. /\ p[1] = x /\ p[2] = IF t[p].side = "red" THEN row ELSE 9 - row
        /\ p = <<p[1], p[2]>>
    BY <2>1
  <2>3. t[p].type \in {"Shuai", "Shi"} => row = 0
    BY <2>1
  <2>4. t[p].type = "Shuai" => InPalace(t[p].side, p)
    <3> SUFFICES ASSUME t[p].type = "Shuai"
                 PROVE  InPalace(t[p].side, p)
      OBVIOUS
    <3>1. x = 4 /\ row = 0
      BY <1>3, <2>1, <2>3
    <3> QED BY <2>2, <3>1 DEF InPalace
  <2>5. t[p].type = "Shi" => p \in ShiPoints(t[p].side)
    <3> SUFFICES ASSUME t[p].type = "Shi"
                 PROVE  p \in ShiPoints(t[p].side)
      OBVIOUS
    <3>1. x \in {3, 5} /\ row = 0
      BY <1>3, <2>1, <2>3
    <3> QED BY <2>1, <3>1 DEF ShiPoints
  <2>6. ~IsCrossedRiver(t[p].side, p)
    BY <2>2 DEF IsCrossedRiver
  <2> QED BY <2>4, <2>5, <2>6 DEF PlaceOK
<1> QED BY <1>4, <1>5 DEF SaneTable, t

\* A move that takes no Shuai leaves both of them, and the piece that moves
\* goes where it may be.
LEMMA MoveIsSane ==
    ASSUME NEW t \in Tables, SaneTable(t), NEW side \in Sides, NEW from, NEW to,
           MoveOK(side, t, from, to), ~GameOver(t, to)
    PROVE  /\ Moved(t, from, to) \in Tables
           /\ SaneTable(Moved(t, from, to))
<1>1. from \in DOMAIN t /\ t[from].side = side /\ to \in Points /\ from # to
  BY DEF MoveOK, Movable, OwnAt, IsPointCrossRange
<1>2. PICK u : u = Moved(t, from, to)
  OBVIOUS
<1>3. /\ u \in Tables /\ DOMAIN u = (DOMAIN t \ {from}) \cup {to} /\ u[to] = t[from]
      /\ \A p \in DOMAIN t \ {from, to} : u[p] = t[p]
  BY SMTT(40), <1>1, <1>2, MovedTable
<1>4. \A p \in DOMAIN t : t[p] \in Piece
  BY TableFacts
<1>5. ASSUME NEW s \in Sides
      PROVE  \E p : OnlyAt(u, Shuai(s), p)
  <2>1. PICK p : OnlyAt(t, Shuai(s), p)
    BY DEF SaneTable
  <2>2. p # to
    BY <2>1 DEF OnlyAt, GameOver, Shuai
  <2>3. CASE p = from
    <3>1. OnlyAt(u, Shuai(s), to)
      BY <1>3, <2>1, <2>3 DEF OnlyAt
    <3> QED BY <3>1
  <2>4. CASE p # from
    <3>1. OnlyAt(u, Shuai(s), p)
      BY <1>1, <1>3, <2>1, <2>2, <2>4 DEF OnlyAt
    <3> QED BY <3>1
  <2> QED BY <2>3, <2>4
<1>6. PlaceOK(t[from], to)
  <2>1. t[from].type = "Shuai" => InPalace(side, to)
    BY DEF MoveOK, ShuaiMoves, GameOver
  <2>2. t[from].type = "Shi" => to \in ShiPoints(side)
    BY DEF MoveOK, ShiMoves
  <2>3. t[from].type = "Xiang" => ~IsCrossedRiver(side, to)
    BY DEF MoveOK, XiangMoves
  <2> QED BY <1>1, <2>1, <2>2, <2>3 DEF PlaceOK
<1>7. ASSUME NEW p \in DOMAIN u
      PROVE  PlaceOK(u[p], p)
  <2>1. CASE p = to
    BY <1>3, <1>6, <2>1
  <2>2. CASE p # to
    <3>1. p \in DOMAIN t /\ u[p] = t[p]
      BY <1>3, <2>2
    <3> QED BY <3>1 DEF SaneTable
  <2> QED BY <2>1, <2>2
<1> QED BY <1>2, <1>3, <1>5, <1>7 DEF SaneTable

-----------------------------------------------------------------------------
(* Who plays with whom.                                                    *)

\* c and r play in one game, one of them red and the other black.
Pair(c, r) ==
    /\ c \in Clients /\ r \in Clients /\ c # r
    /\ state[c] = "Gaming" /\ state[r] = "Gaming"
    /\ game[r] = game[c]
    /\ \/ game[c] = c /\ context[c].black = r
       \/ game[c] = r /\ context[r].black = c

PairsOK ==
    /\ \A c, d \in Clients : state[c] = "Matching" /\ state[d] = "Matching" => c = d
    /\ \A c \in Clients : game[c] # NoGame => state[c] = "Gaming"
    /\ \A c \in Clients : state[c] = "Gaming" => \E r \in Clients : Pair(c, r)

\* The other one is Remote, on the other side.
LEMMA PairFacts ==
    ASSUME NEW c, NEW r, Pair(c, r)
    PROVE  /\ Pair(r, c) /\ Remote(c) = r /\ Remote(r) = c
           /\ game[c] \in {c, r} /\ game[c] \in Clients /\ game[c] # NoGame
           /\ {SideOf(c), SideOf(r)} = Sides /\ SideOf(c) # SideOf(r)
           /\ SideOf(c) \in Sides
<1>1. game[c] # NoGame
  BY ChessAssumption DEF Pair
<1>2. CASE game[c] = c /\ context[c].black = r
  <2>1. SideOf(c) = "red" /\ SideOf(r) = "black"
    BY <1>2 DEF Pair, SideOf
  <2> QED BY <1>1, <1>2, <2>1 DEF Pair, Remote, Sides
<1>3. CASE game[c] = r /\ context[r].black = c
  <2>1. SideOf(c) = "black" /\ SideOf(r) = "red"
    BY <1>3 DEF Pair, SideOf
  <2> QED BY <1>1, <1>3, <2>1 DEF Pair, Remote, Sides
<1> QED BY <1>2, <1>3 DEF Pair

\* Nobody plays in two games, nor do three in one.
LEMMA PairUnique ==
    ASSUME NEW c, NEW r, NEW d, NEW e, Pair(c, r), Pair(d, e),
           game[c] = game[d] \/ c \in {d, e}
    PROVE  {c, r} = {d, e}
<1>1. game[c] = game[d]
  BY DEF Pair
<1> QED BY <1>1 DEF Pair

LEMMA PairsImplyPairedGames == TypesOK /\ PairsOK => PairedGames
<1> SUFFICES ASSUME TypesOK, PairsOK
             PROVE  PairedGames
  OBVIOUS
<1> DEFINE M == {c \in Clients : state[c] = "Matching"}
<1>1. Cardinality(M) <= 1
  <2>1. CASE M = {}
    BY <2>1, FS_EmptySet
  <2>2. ASSUME NEW c \in M
        PROVE  Cardinality(M) <= 1
    <3>1. M = {c}
      BY <2>2 DEF PairsOK
    <3> HIDE DEF M
    <3>2. Cardinality({c}) = 1
      BY FS_Singleton
    <3> QED BY <3>1, <3>2
  <2> QED BY <2>1, <2>2
<1>2. ASSUME NEW c \in Clients
      PROVE  /\ (state[c] = "Gaming") <=> (game[c] # NoGame)
             /\ state[c] = "Gaming" =>
                  /\ c \in {game[c], context[game[c]].black}
                  /\ Remote(c) # c
                  /\ state[Remote(c)] = "Gaming"
                  /\ game[Remote(c)] = game[c]
  <2>1. CASE state[c] = "Gaming"
    <3>1. PICK r \in Clients : Pair(c, r)
      BY <2>1 DEF PairsOK
    <3>2. Remote(c) = r /\ game[c] # NoGame
      BY <3>1, PairFacts
    <3> QED BY <2>1, <3>1, <3>2 DEF Pair
  <2>2. CASE state[c] # "Gaming"
    BY <2>2 DEF PairsOK
  <2> QED BY <2>1, <2>2
<1> QED BY <1>1, <1>2 DEF PairedGames, TypesOK

\* Close, connection by connection.
LEMMA CloseFacts ==
    ASSUME TypesOK, NEW S \in SUBSET Clients, Close(S), NEW c \in Clients
    PROVE  /\ c \in S => state'[c] = "closed" /\ game'[c] = NoGame /\ client'[c] = "left"
           /\ c \in Remotes(S) => c \notin S /\ state'[c] = "None" /\ game'[c] = NoGame
           /\ c \notin S /\ c \notin Remotes(S) =>
                 state'[c] = state[c] /\ game'[c] = game[c] /\ out'[c] = out[c]
           /\ c \notin S => client'[c] = client[c] /\ myTurn'[c] = myTurn[c]
           /\ context'[c] = IF \E d \in Clients : game'[d] = c THEN context[c] ELSE NoContext
<1>1. /\ c \in Remotes(S) => c \notin S
      /\ game' = [d \in Clients |-> IF d \in S \cup Remotes(S) THEN NoGame ELSE game[d]]
      /\ client' = [d \in Clients |-> IF d \in S THEN "left" ELSE client[d]]
      /\ context' = [d \in Clients |-> IF \E e \in Clients : game'[e] = d
                                       THEN context[d] ELSE NoContext]
  BY DEF Close, Remotes
<1>2. /\ c \in S => state'[c] = "closed"
      /\ c \in Remotes(S) => state'[c] = "None"
      /\ c \notin S /\ c \notin Remotes(S) => state'[c] = state[c]
  BY <1>1 DEF Close
<1>3. c \notin S /\ c \notin Remotes(S) => out'[c] = out[c]
  BY DEF Close
<1>4. c \notin S => myTurn'[c] = myTurn[c]
  <2>1. myTurn[c] \in BOOLEAN
    BY DEF TypesOK, TypeOK
  <2>2. myTurn' = [d \in Clients |-> d \notin S /\ myTurn[d]]
    BY DEF Close
  <2>3. myTurn'[c] = (c \notin S /\ myTurn[c])
    BY <2>2
  <2> QED BY <2>1, <2>3
<1> QED BY <1>1, <1>2, <1>3, <1>4

\* Connections close: who played with them is out of the game, and the other
\* games go on.
LEMMA ClosePairs ==
    ASSUME TypesOK, PairsOK, NEW S \in SUBSET Clients, Close(S)
    PROVE  PairsOK'
<1>1. /\ \A c \in Clients : state'[c] = IF c \in S THEN "closed"
                                        ELSE IF c \in Remotes(S) THEN "None" ELSE state[c]
      /\ \A c \in Clients : game'[c] = IF c \in S \cup Remotes(S) THEN NoGame ELSE game[c]
      /\ \A c \in Clients : context'[c] = IF \E d \in Clients : game'[d] = c
                                          THEN context[c] ELSE NoContext
  BY CloseFacts
<1>2. ASSUME NEW c \in Clients, state'[c] = "Gaming"
      PROVE  \E r \in Clients : Pair(c, r)'
  <2>1. c \notin S /\ c \notin Remotes(S) /\ state[c] = "Gaming" /\ game'[c] = game[c]
    BY <1>1, <1>2
  <2>2. PICK r \in Clients : Pair(c, r)
    BY <2>1 DEF PairsOK
  <2>3. /\ Pair(r, c) /\ Remote(c) = r /\ Remote(r) = c
        /\ state[r] = "Gaming" /\ game[r] = game[c] /\ game[c] \in Clients
    BY <2>2, PairFacts DEF Pair
  <2>4. r \notin S
    BY <2>1, <2>3 DEF Remotes
  <2>5. r \notin Remotes(S)
    <3> SUFFICES ASSUME NEW d \in S, state[d] = "Gaming", r = Remote(d)
                 PROVE  FALSE
      BY DEF Remotes
    <3>1. PICK e \in Clients : Pair(d, e)
      BY DEF PairsOK
    <3>2. e = r
      BY <3>1, PairFacts
    <3>3. {c, r} = {d, e}
      BY <2>2, <3>1, <3>2, PairUnique, PairFacts
    <3> QED BY <2>1, <2>2, <3>2, <3>3 DEF Pair
  <2>6. state'[r] = "Gaming" /\ game'[r] = game[c]
    BY <1>1, <2>3, <2>4, <2>5
  <2>7. context'[game[c]] = context[game[c]]
    BY <1>1, <2>1, <2>3
  <2> QED BY <1>2, <2>1, <2>2, <2>6, <2>7 DEF Pair
<1>3. \A c \in Clients : game'[c] # NoGame => state'[c] = "Gaming"
  BY <1>1 DEF PairsOK
<1>4. \A c, d \in Clients : state'[c] = "Matching" /\ state'[d] = "Matching" => c = d
  BY <1>1 DEF PairsOK
<1> QED BY <1>2, <1>3, <1>4 DEF PairsOK

\* Two connections that do not play yet begin a game.
LEMMA MatchPairs ==
    ASSUME TypesOK, PairsOK, NEW c \in Clients, NEW v \in Clients, NEW burst, OnMatched(c, v, burst)
    PROVE  /\ PairsOK' /\ Pair(c, v)'
           /\ \A d \in Clients \ {c, v} : state'[d] = state[d] /\ game'[d] = game[d]
           /\ \A d \in Clients \ {c} : context'[d] = context[d]
           /\ context'[c] = [black |-> v, turn |-> "red", table |-> NewDefaultChessTable]
           /\ \A d \in Clients \ {c, v} : state[d] = "Gaming" => game[d] # c
<1>1. /\ state \in [Clients -> {"new", "None", "Matching", "Gaming", "closed"}]
      /\ game \in [Clients -> Clients \cup {NoGame}] /\ context \in [Clients -> Games]
  BY DEF TypesOK, TypeOK
<1>2. /\ state[c] = "None" /\ state[v] = "Matching" /\ v # c
      /\ state' = [state EXCEPT ![c] = "Gaming", ![v] = "Gaming"]
      /\ game' = [game EXCEPT ![c] = c, ![v] = c]
      /\ context' = [context EXCEPT ![c] =
            [black |-> v, turn |-> "red", table |-> NewDefaultChessTable]]
  BY DEF OnMatched, Waiting
<1>3. /\ state'[c] = "Gaming" /\ state'[v] = "Gaming" /\ game'[c] = c /\ game'[v] = c
      /\ context'[c] = [black |-> v, turn |-> "red", table |-> NewDefaultChessTable]
      /\ \A d \in Clients \ {c, v} : state'[d] = state[d] /\ game'[d] = game[d]
      /\ \A d \in Clients \ {c} : context'[d] = context[d]
  BY <1>1, <1>2
<1>4. Pair(c, v)' /\ Pair(v, c)'
  BY <1>2, <1>3 DEF Pair
<1>5. ASSUME NEW d \in Clients \ {c, v}, state[d] = "Gaming"
      PROVE  game[d] # c /\ \E r \in Clients : Pair(d, r)'
  <2>1. PICK r \in Clients : Pair(d, r)
    BY <1>5 DEF PairsOK
  <2>2. r \notin {c, v} /\ game[d] \notin {c, v} /\ game[d] \in Clients
    BY <1>2, <1>5, <2>1, PairFacts DEF Pair
  <2>3. Pair(d, r)'
    BY <1>3, <2>1, <2>2 DEF Pair
  <2> QED BY <2>2, <2>3
<1>6. \A d \in Clients : state'[d] = "Gaming" => \E r \in Clients : Pair(d, r)'
  BY <1>3, <1>4, <1>5
<1>7. \A d, e \in Clients : state'[d] = "Matching" /\ state'[e] = "Matching" => d = e
  BY <1>2, <1>3 DEF PairsOK
<1>8. \A d \in Clients : game'[d] # NoGame => state'[d] = "Gaming"
  BY <1>3 DEF PairsOK
<1> QED BY <1>3, <1>4, <1>5, <1>6, <1>7, <1>8 DEF PairsOK

-----------------------------------------------------------------------------
(* Packets.                                                                *)

LEMMA Packets ==
    /\ \A a \in ToClient : <<a>> \in Seq(ToClient)
    /\ \A a, b \in ToClient : <<a, b>> \in Seq(ToClient)
    /\ \A a \in ToServer : <<a>> \in Seq(ToServer)
    /\ \A a, b \in ToServer : <<a, b>> \in Seq(ToServer)
OBVIOUS

LEMMA SentFacts ==
    ASSUME NEW q \in [Clients -> Seq(ToClient)], NEW c \in Clients, NEW ps \in Seq(ToClient)
    PROVE  /\ Sent(q, c, ps) \in [Clients -> Seq(ToClient)]
           /\ Sent(q, c, ps)[c] = IF client[c] = "left" THEN q[c] ELSE q[c] \o ps
           /\ \A d \in Clients \ {c} : Sent(q, c, ps)[d] = q[d]
<1>1. Sent(q, c, ps) = [q EXCEPT ![c] = IF client[c] = "left" THEN q[c] ELSE q[c] \o ps]
  BY DEF Sent
<1>2. q[c] \in Seq(ToClient) /\ q[c] \o ps \in Seq(ToClient)
  BY ConcatProperties
<1> QED BY <1>1, <1>2

\* What arrives: a frontend's only StartMatch comes first.
LEMMA BurstFacts ==
    ASSUME TypesOK, NEW c \in Clients, NEW burst \in Bursts(c)
    PROVE  /\ burst \in Seq(ToServer) /\ burst # << >>
           /\ client[c] = "off" => burst = <<"StartMatch">>
           /\ client[c] # "off" =>
                 /\ client[c] \in {"None", "Matching", "Gaming"}
                 /\ burst = <<"Heartbeat">> \/ sends < MaxSends
                 /\ \/ burst \in {<<"Heartbeat">>, <<"Move">>, <<"Heartbeat", "Move">>,
                                  <<"Move", "Heartbeat">>, <<"Unknown">>, <<"TooLong">>}
                    \/ burst = <<"StartMatch">> /\ "StartMatch" \in Extra /\ buffer[c] = << >>
<1>1. CASE client[c] = "off"
  <2>1. burst = <<"StartMatch">>
    BY <1>1 DEF Bursts
  <2> QED BY <1>1, <2>1, Packets DEF ToServer
<1>2. CASE client[c] # "off"
  <2>1. burst \in Beats(c) \/ burst \in Typed(c) \/ burst \in Odd(c)
    BY <1>2 DEF Bursts
  <2>2. sends \in 0..MaxSends /\ MaxSends \in Nat
    BY ChessAssumption DEF TypesOK, TypeOK
  <2>3. /\ client[c] \in {"None", "Matching", "Gaming"}
        /\ burst = <<"Heartbeat">> \/ sends < MaxSends
        /\ \/ burst \in {<<"Heartbeat">>, <<"Move">>, <<"Heartbeat", "Move">>,
                         <<"Move", "Heartbeat">>, <<"Unknown">>, <<"TooLong">>}
           \/ burst = <<"StartMatch">> /\ "StartMatch" \in Extra /\ buffer[c] = << >>
    <3>1. CASE burst \in Beats(c)
      BY <3>1 DEF Beats
    <3>2. CASE burst \in Typed(c)
      BY <2>2, <3>2 DEF Typed
    <3>3. CASE burst \in Odd(c)
      <4>1. sends < MaxSends /\ buffer[c] = << >> /\ Beats(c) # {}
        BY <3>3 DEF Odd
      <4>2. PICK e \in Extra : burst = <<e>>
        BY <3>3 DEF Odd
      <4>3. e \in {"StartMatch", "Unknown", "TooLong"}
        BY ChessAssumption
      <4>4. client[c] \in {"None", "Matching", "Gaming"}
        BY <4>1 DEF Beats
      <4> QED BY <4>1, <4>2, <4>3, <4>4
    <3> QED BY <2>1, <3>1, <3>2, <3>3
  <2>4. burst \in Seq(ToServer) /\ burst # << >>
    <3>1. /\ {<<"Heartbeat">>, <<"Move">>, <<"Unknown">>, <<"TooLong">>, <<"StartMatch">>}
                \subseteq Seq(ToServer)
          /\ {<<"Heartbeat", "Move">>, <<"Move", "Heartbeat">>} \subseteq Seq(ToServer)
      BY Packets DEF ToServer
    <3>2. /\ \A a : <<a>> # << >>
          /\ \A a, b : <<a, b>> # << >>
      OBVIOUS
    <3> QED BY <2>3, <3>1, <3>2
  <2> QED BY <1>2, <2>3, <2>4
<1> QED BY <1>1, <1>2

LEMMA TakeFacts ==
    ASSUME NEW b \in Seq(ToServer), NEW burst \in Seq(ToServer), burst # << >>
    PROVE  /\ Take(b \o burst).packet \in ToServer
           /\ Take(b \o burst).rest \in Seq(ToServer)
           /\ b = << >> => Take(b \o burst).packet = Head(burst)
                           /\ Take(b \o burst).rest = Tail(burst)
<1>1. PICK s : s = b \o burst
  OBVIOUS
<1>2. s \in Seq(ToServer) /\ s # << >>
  <2>1. Len(s) = Len(b) + Len(burst) /\ s \in Seq(ToServer)
    BY <1>1, ConcatProperties
  <2>2. Len(b) \in Nat /\ Len(burst) \in Nat /\ Len(burst) # 0
    BY LenProperties, EmptySeq
  <2> QED BY <2>1, <2>2, EmptySeq
<1>3. Head(s) \in ToServer /\ Tail(s) \in Seq(ToServer)
  BY <1>2, HeadTailProperties
<1>4. b = << >> => s = burst
  BY <1>1, ConcatEmptySeq
<1> QED BY <1>1, <1>3, <1>4 DEF Take

\* What every handler of a packet does.
LEMMA MessageFacts ==
    ASSUME TypesOK, NEW c \in Clients, NEW burst \in Bursts(c), NEW packet,
           OnMessage(c, burst, packet)
    PROVE  /\ buffer' \in [Clients -> Seq(ToServer)]
           /\ client' \in [Clients -> {"off", "None", "Matching", "Gaming", "Over", "left"}]
           /\ client'[c] = IF client[c] = "off" THEN "None" ELSE client[c]
           /\ \A d \in Clients \ {c} : client'[d] = client[d] /\ buffer'[d] = buffer[d]
           /\ buffer'[c] = Take(buffer[c] \o burst).rest
           /\ packet = Take(buffer[c] \o burst).packet
           /\ sends' \in 0..MaxSends
           /\ myTurn' = myTurn
           /\ Alive /\ InConnMap(c)
<1>1. /\ buffer \in [Clients -> Seq(ToServer)]
      /\ client \in [Clients -> {"off", "None", "Matching", "Gaming", "Over", "left"}]
      /\ sends \in 0..MaxSends /\ MaxSends \in Nat
  BY ChessAssumption DEF TypesOK, TypeOK
<1>2. /\ buffer' = [buffer EXCEPT ![c] = Take(buffer[c] \o burst).rest]
      /\ client' = [client EXCEPT ![c] = IF client[c] = "off" THEN "None" ELSE client[c]]
      /\ sends' = IF client[c] = "off" \/ burst = <<"Heartbeat">> THEN sends ELSE sends + 1
      /\ packet = Take(buffer[c] \o burst).packet
      /\ myTurn' = myTurn /\ Alive /\ InConnMap(c)
  BY DEF OnMessage, Arrived
<1>3. /\ burst \in Seq(ToServer) /\ burst # << >>
      /\ client[c] # "off" => burst = <<"Heartbeat">> \/ sends < MaxSends
  BY BurstFacts
<1>4. Take(buffer[c] \o burst).rest \in Seq(ToServer)
  BY <1>1, <1>3, TakeFacts
<1>5. sends' \in 0..MaxSends
  BY <1>1, <1>2, <1>3
<1> QED BY <1>1, <1>2, <1>4, <1>5

-----------------------------------------------------------------------------
(* Moves.                                                                  *)

LEMMA GameFacts ==
    ASSUME NEW g \in Games
    PROVE  g.black \in Clients \cup {NoGame} /\ g.turn \in Sides /\ g.table \in Tables
BY DEF Games

\* c's move m is made in its game with r.
Played(c, r, m) ==
    LET g == context[game[c]] IN
    /\ Pair(c, r) /\ Remote(c) = r
    /\ g \in Games /\ g.turn = SideOf(c)
    /\ MoveOK(g.turn, g.table, m.from, m.to)
GoesOn(c, r, m) ==
    /\ ~GameOver(context[game[c]].table, m.to)
    /\ state' = state /\ game' = game
    /\ context' = [context EXCEPT ![game[c]] = AfterMove(context[game[c]], m)]
    /\ out' = Sent(Sent(out, r, <<"RemoteMove">>), c, <<"MoveOK">>)
IsOver(c, r) ==
    /\ state' = [state EXCEPT ![c] = "None", ![r] = "None"]
    /\ game' = [game EXCEPT ![c] = NoGame, ![r] = NoGame]
    /\ context' = [context EXCEPT ![game[c]] = NoContext]
    /\ out' = Sent(out, r, <<"GameOver">>)

LEMMA MoveFacts ==
    ASSUME TypesOK, PairsOK, NEW c \in Clients, NEW burst, NEW m, OnMove(c, burst, m)
    PROVE  \E r \in Clients : Played(c, r, m) /\ (GoesOn(c, r, m) \/ IsOver(c, r))
<1>1. game[c] # NoGame
  BY DEF OnMove, MoveArrives
<1>2. PICK r \in Clients : Pair(c, r)
  BY <1>1 DEF PairsOK
<1>3. Remote(c) = r /\ game[c] \in Clients
  BY <1>2, PairFacts
<1>4. context[game[c]] \in Games
  BY <1>3 DEF TypesOK
<1>5. /\ context[game[c]].turn = SideOf(c)
      /\ MoveOK(context[game[c]].turn, context[game[c]].table, m.from, m.to)
  BY DEF OnMove
<1>6. Played(c, r, m)
  BY <1>2, <1>3, <1>4, <1>5 DEF Played
<1>7. GoesOn(c, r, m) \/ IsOver(c, r)
  BY <1>3 DEF OnMove, GoesOn, IsOver, Ends, BothNone
<1> QED BY <1>6, <1>7

LEMMA NoContextType == NoContext \in Games
<1>1. << >> \in [{} -> Piece]
  OBVIOUS
<1>2. << >> \in Tables
  BY <1>1, TableMade
<1> QED BY <1>2 DEF NoContext, Games, Sides

-----------------------------------------------------------------------------
(* Types and pairs are kept.                                               *)

\* Nothing changes, unless the server dies.
Same == UNCHANGED <<players, lose, buffer, out, clients, sends>>

LEMMA SameSteps ==
    /\ UNCHANGED vars => Same
    /\ \A c \in Clients : OnTimeoutThenEvent(c) => Same
    /\ \A c \in Clients : \A burst \in Bursts(c) : OnTooLong(c, burst) => Same
BY DEF Same, vars, OnTimeoutThenEvent, OnTooLong

\* What a step may do to the players.
LEMMA PlayersStep ==
    ASSUME [Next]_vars
    PROVE  \/ UNCHANGED players
           \/ \E c \in Clients : OnConnect(c)
           \/ \E S \in SUBSET Clients : Close(S)
           \/ \E c \in Clients : \E burst \in Bursts(c) : OnStartMatch(c, burst)
           \/ \E c, v \in Clients : \E burst \in Bursts(c) : OnMatched(c, v, burst)
           \/ \E c \in Clients, m \in Moves : \E burst \in Bursts(c) : OnMove(c, burst, m)
<1>1. CASE OnTimeout
  <2>1. Close(Late) /\ Late \in SUBSET Clients
    BY <1>1 DEF OnTimeout, Late
  <2> QED BY <2>1
<1>2. ASSUME NEW c \in Clients, OnClose(c)
      PROVE  \E S \in SUBSET Clients : Close(S)
  <2>1. Close({c}) /\ {c} \in SUBSET Clients
    BY <1>2 DEF OnClose, CloseOne
  <2> QED BY <2>1
<1>3. ASSUME NEW c \in Clients, NEW burst \in Bursts(c), OnUnknown(c, burst)
      PROVE  \E S \in SUBSET Clients : Close(S)
  <2>1. Close({c}) /\ {c} \in SUBSET Clients
    BY <1>3 DEF OnUnknown, CloseOne
  <2> QED BY <2>1
<1>4. ASSUME NEW c \in Clients, ClientReceives(c) \/ ClientLeaves(c)
      PROVE  UNCHANGED players
  BY <1>4 DEF ClientReceives, ClientLeaves
<1>5. ASSUME NEW c \in Clients, NEW burst \in Bursts(c),
             OnHeartbeat(c, burst) \/ OnLateMove(c, burst) \/ OnSecondStartMatch(c, burst)
      PROVE  UNCHANGED players
  BY <1>5 DEF OnHeartbeat, OnLateMove, OnSecondStartMatch
<1>6. ASSUME NEW c \in Clients, NEW burst \in Bursts(c), NEW m \in Moves,
             OnMoveRefused(c, burst, m) \/ OnMovePanics(c, burst, m)
      PROVE  UNCHANGED players
  BY <1>6 DEF OnMoveRefused, OnMovePanics
<1>7. Same => UNCHANGED players
  BY DEF Same
<1> QED BY SameSteps, <1>1, <1>2, <1>3, <1>4, <1>5, <1>6, <1>7 DEF Next, OnPacket

LEMMA PlayersType ==
    ASSUME TypesOK, PairsOK, [Next]_vars
    PROVE  /\ state' \in [Clients -> {"new", "None", "Matching", "Gaming", "closed"}]
           /\ game' \in [Clients -> Clients \cup {NoGame}]
           /\ context' \in [Clients -> Games]
<1>0. /\ state \in [Clients -> {"new", "None", "Matching", "Gaming", "closed"}]
      /\ game \in [Clients -> Clients \cup {NoGame}]
      /\ context \in [Clients -> Games]
  BY DEF TypesOK, TypeOK
<1>1. CASE UNCHANGED players
  BY <1>0, <1>1 DEF players
<1>2. ASSUME NEW c \in Clients, OnConnect(c)
      PROVE  /\ state' \in [Clients -> {"new", "None", "Matching", "Gaming", "closed"}]
             /\ UNCHANGED <<game, context>>
  BY <1>0, <1>2 DEF OnConnect
<1>3. ASSUME NEW S \in SUBSET Clients, Close(S)
      PROVE  /\ state' \in [Clients -> {"new", "None", "Matching", "Gaming", "closed"}]
             /\ game' \in [Clients -> Clients \cup {NoGame}]
             /\ context' \in [Clients -> Games]
  <2>1. /\ state' = [c \in Clients |-> state'[c]] /\ game' = [c \in Clients |-> game'[c]]
        /\ context' = [c \in Clients |-> context'[c]]
    <3>1. state' = [c \in Clients |-> state'[c]]
      <4>1. state' = [c \in Clients |-> CASE c \in S -> "closed"
                                          [] c \in Remotes(S) -> "None"
                                          [] OTHER -> state[c]]
        BY <1>3 DEF Close
      <4> QED BY <4>1
    <3>2. game' = [c \in Clients |-> game'[c]]
      BY <1>3, Zenon DEF Close
    <3>3. context' = [c \in Clients |-> context'[c]]
      BY <1>3, Zenon DEF Close
    <3> QED BY <3>1, <3>2, <3>3
  <2>2. ASSUME NEW c \in Clients
        PROVE  /\ state'[c] \in {"new", "None", "Matching", "Gaming", "closed"}
               /\ game'[c] \in Clients \cup {NoGame} /\ context'[c] \in Games
    <3>1. /\ c \in S => state'[c] = "closed" /\ game'[c] = NoGame
          /\ c \in Remotes(S) => state'[c] = "None" /\ game'[c] = NoGame
          /\ c \notin S /\ c \notin Remotes(S) => state'[c] = state[c] /\ game'[c] = game[c]
          /\ context'[c] = context[c] \/ context'[c] = NoContext
      BY <1>3, CloseFacts
    <3> QED BY <1>0, <3>1, NoContextType
  <2> QED BY <2>1, <2>2
<1>4. ASSUME NEW c \in Clients, NEW burst \in Bursts(c), OnStartMatch(c, burst)
      PROVE  /\ state' \in [Clients -> {"new", "None", "Matching", "Gaming", "closed"}]
             /\ UNCHANGED <<game, context>>
  BY <1>0, <1>4 DEF OnStartMatch
<1>5. ASSUME NEW c \in Clients, NEW v \in Clients, NEW burst \in Bursts(c), OnMatched(c, v, burst)
      PROVE  /\ state' \in [Clients -> {"new", "None", "Matching", "Gaming", "closed"}]
             /\ game' \in [Clients -> Clients \cup {NoGame}]
             /\ context' \in [Clients -> Games]
  <2>1. [black |-> v, turn |-> "red", table |-> NewDefaultChessTable] \in Games
    BY OpeningTable DEF Games, Sides
  <2>2. /\ state' = [state EXCEPT ![c] = "Gaming", ![v] = "Gaming"]
        /\ game' = [game EXCEPT ![c] = c, ![v] = c]
        /\ context' = [context EXCEPT ![c] =
              [black |-> v, turn |-> "red", table |-> NewDefaultChessTable]]
    BY <1>5 DEF OnMatched
  <2> QED BY <1>0, <2>1, <2>2
<1>6. ASSUME NEW c \in Clients, NEW m \in Moves, NEW burst \in Bursts(c), OnMove(c, burst, m)
      PROVE  /\ state' \in [Clients -> {"new", "None", "Matching", "Gaming", "closed"}]
             /\ game' \in [Clients -> Clients \cup {NoGame}]
             /\ context' \in [Clients -> Games]
  <2>1. PICK r \in Clients : Played(c, r, m) /\ (GoesOn(c, r, m) \/ IsOver(c, r))
    BY <1>6, MoveFacts
  <2>2. game[c] \in Clients
    BY <2>1, PairFacts DEF Played
  <2>3. CASE GoesOn(c, r, m)
    <3>1. PICK g : g = context[game[c]]
      OBVIOUS
    <3>2. g \in Games /\ MoveOK(g.turn, g.table, m.from, m.to)
      BY <2>1, <3>1 DEF Played
    <3>3. m.from \in DOMAIN g.table /\ m.to \in Points /\ g.table \in Tables
      BY <3>2, GameFacts DEF MoveOK, Movable, OwnAt, IsPointCrossRange
    <3>4. Moved(g.table, m.from, m.to) \in Tables
      BY <3>3, MovedTable
    <3>5. AfterMove(g, m) \in Games
      BY <3>2, <3>4 DEF AfterMove, Games, Other, Sides
    <3> QED BY <1>0, <2>2, <2>3, <3>1, <3>5 DEF GoesOn
  <2>4. CASE IsOver(c, r)
    BY <1>0, <2>2, <2>4, NoContextType DEF IsOver
  <2> QED BY <2>1, <2>3, <2>4
<1> QED BY <1>0, <1>1, <1>2, <1>3, <1>4, <1>5, <1>6, PlayersStep

\* A move changes at most the game it is made in.
LEMMA MovePairs ==
    ASSUME TypesOK, PairsOK, NEW c \in Clients, NEW m, NEW r \in Clients, Played(c, r, m),
           GoesOn(c, r, m) \/ IsOver(c, r)
    PROVE  PairsOK'
<1>0. /\ state \in [Clients -> {"new", "None", "Matching", "Gaming", "closed"}]
      /\ game \in [Clients -> Clients \cup {NoGame}]
      /\ context \in [Clients -> Games]
  BY DEF TypesOK, TypeOK
<1>1. Pair(c, r) /\ game[c] \in Clients /\ game[c] \in {c, r} /\ Pair(r, c)
  BY PairFacts DEF Played
<1>2. CASE GoesOn(c, r, m)
  <2>1. \A d \in Clients : context'[d].black = context[d].black
    <3>1. AfterMove(context[game[c]], m).black = context[game[c]].black
      BY <1>0, <1>1 DEF AfterMove, Games
    <3> QED BY <1>0, <1>1, <1>2, <3>1 DEF GoesOn
  <2>2. state' = state /\ game' = game
    BY <1>2 DEF GoesOn
  <2>3. \A d, e \in Clients : Pair(d, e) => Pair(d, e)'
    BY <2>1, <2>2 DEF Pair
  <2> QED BY <2>2, <2>3 DEF PairsOK
<1>3. CASE IsOver(c, r)
  <2>1. /\ \A d \in {c, r} : state'[d] = "None" /\ game'[d] = NoGame
        /\ \A d \in Clients \ {c, r} : state'[d] = state[d] /\ game'[d] = game[d]
        /\ \A d \in Clients \ {c, r} : context'[d] = context[d]
    BY <1>0, <1>1, <1>3 DEF IsOver, Pair
  <2>2. ASSUME NEW d \in Clients, state'[d] = "Gaming"
        PROVE  \E e \in Clients : Pair(d, e)'
    <3>1. d \notin {c, r} /\ state[d] = "Gaming"
      BY <2>1, <2>2
    <3>2. PICK e \in Clients : Pair(d, e)
      BY <3>1 DEF PairsOK
    <3>3. e \notin {c, r}
      <4>1. Pair(e, d)
        BY <3>2, PairFacts
      <4>2. e \in {c, r} => {e, d} = {c, r}
        BY <1>1, <4>1, PairUnique
      <4> QED BY <3>1, <4>2
    <3>4. Pair(d, e)'
      BY <2>1, <3>1, <3>2, <3>3 DEF Pair
    <3> QED BY <3>4
  <2>3. \A d \in Clients : game'[d] # NoGame => state'[d] = "Gaming"
    BY <2>1 DEF PairsOK
  <2>4. \A d, e \in Clients : state'[d] = "Matching" /\ state'[e] = "Matching" => d = e
    BY <2>1 DEF PairsOK
  <2> QED BY <2>2, <2>3, <2>4 DEF PairsOK
<1> QED BY <1>2, <1>3

LEMMA PairsInductive ==
    ASSUME TypesOK, PairsOK, [Next]_vars
    PROVE  PairsOK'
<1>0. state \in [Clients -> {"new", "None", "Matching", "Gaming", "closed"}]
  BY DEF TypesOK, TypeOK
<1>1. CASE UNCHANGED players
  BY <1>1 DEF players, PairsOK, Pair
<1>2. ASSUME NEW c \in Clients, OnConnect(c)
      PROVE  PairsOK'
  <2>1. /\ state[c] = "new" /\ state'[c] = "None" /\ UNCHANGED <<game, context>>
        /\ \A d \in Clients \ {c} : state'[d] = state[d]
    BY <1>0, <1>2 DEF OnConnect
  <2>2. \A d, e \in Clients : Pair(d, e) => Pair(d, e)'
    BY <2>1 DEF Pair
  <2> QED BY <2>1, <2>2 DEF PairsOK
<1>3. ASSUME NEW S \in SUBSET Clients, Close(S)
      PROVE  PairsOK'
  BY <1>3, ClosePairs
<1>4. ASSUME NEW c \in Clients, NEW burst \in Bursts(c), OnStartMatch(c, burst)
      PROVE  PairsOK'
  <2>1. /\ state[c] = "None" /\ state'[c] = "Matching" /\ UNCHANGED <<game, context>>
        /\ \A d \in Clients \ {c} : state'[d] = state[d] /\ state[d] # "Matching"
    BY <1>0, <1>4 DEF OnStartMatch, Waiting
  <2>2. \A d, e \in Clients : Pair(d, e) => Pair(d, e)'
    BY <2>1 DEF Pair
  <2> QED BY <2>1, <2>2 DEF PairsOK
<1>5. ASSUME NEW c \in Clients, NEW v \in Clients, NEW burst \in Bursts(c), OnMatched(c, v, burst)
      PROVE  PairsOK'
  BY <1>5, MatchPairs
<1>6. ASSUME NEW c \in Clients, NEW m \in Moves, NEW burst \in Bursts(c), OnMove(c, burst, m)
      PROVE  PairsOK'
  <2>1. PICK r \in Clients : Played(c, r, m) /\ (GoesOn(c, r, m) \/ IsOver(c, r))
    BY <1>6, MoveFacts
  <2> QED BY <2>1, MovePairs
<1> QED BY <1>1, <1>2, <1>3, <1>4, <1>5, <1>6, PlayersStep

\* What the step does to everything else.
RestType ==
    /\ lose \in [Clients -> 0..(MaxLoseHeartbeat - 1)]
    /\ buffer \in [Clients -> Seq(ToServer)]
    /\ out \in [Clients -> Seq(ToClient)]
    /\ client \in [Clients -> {"off", "None", "Matching", "Gaming", "Over", "left"}]
    /\ myTurn \in [Clients -> BOOLEAN]
    /\ sends \in 0..MaxSends

LEMMA CloseType ==
    ASSUME TypesOK, NEW S \in SUBSET Clients, Close(S),
           lose' \in [Clients -> 0..(MaxLoseHeartbeat - 1)]
    PROVE  RestType'
<1>0. RestType
  BY DEF TypesOK, TypeOK, RestType
<1>1. buffer' \in [Clients -> Seq(ToServer)]
  <2>1. buffer' = [c \in Clients |-> IF c \in S THEN << >> ELSE buffer[c]]
    BY DEF Close
  <2>2. << >> \in Seq(ToServer)
    BY EmptySeq
  <2> QED BY <1>0, <2>1, <2>2 DEF RestType
<1>2. out' \in [Clients -> Seq(ToClient)]
  <2>1. out' = [c \in Clients |-> CASE c \in S -> << >>
                                     [] c \in Remotes(S) -> Sent(out, c, <<"RemoteLost">>)[c]
                                     [] OTHER -> out[c]]
    BY DEF Close
  <2>2. << >> \in Seq(ToClient) /\ <<"RemoteLost">> \in Seq(ToClient)
    BY EmptySeq, Packets DEF ToClient
  <2>3. ASSUME NEW c \in Clients
        PROVE  out[c] \in Seq(ToClient) /\ Sent(out, c, <<"RemoteLost">>)[c] \in Seq(ToClient)
    <3>1. out \in [Clients -> Seq(ToClient)]
      BY <1>0 DEF RestType
    <3>2. Sent(out, c, <<"RemoteLost">>) \in [Clients -> Seq(ToClient)]
      BY <2>2, <3>1, SentFacts
    <3> QED BY <3>1, <3>2
  <2> QED BY <2>1, <2>2, <2>3
<1>3. client' \in [Clients -> {"off", "None", "Matching", "Gaming", "Over", "left"}]
  <2>1. client' = [c \in Clients |-> IF c \in S THEN "left" ELSE client[c]]
    BY DEF Close
  <2> QED BY <1>0, <2>1 DEF RestType
<1>4. myTurn' \in [Clients -> BOOLEAN]
  <2>1. myTurn' = [c \in Clients |-> c \notin S /\ myTurn[c]]
    BY DEF Close
  <2> QED BY <2>1
<1>5. sends' \in 0..MaxSends
  BY <1>0 DEF Close, RestType
<1> QED BY <1>1, <1>2, <1>3, <1>4, <1>5 DEF RestType

LEMMA ReceiveType ==
    ASSUME TypesOK, NEW c \in Clients, ClientReceives(c)
    PROVE  /\ out' \in [Clients -> Seq(ToClient)]
           /\ client' \in [Clients -> {"off", "None", "Matching", "Gaming", "Over", "left"}]
           /\ myTurn' \in [Clients -> BOOLEAN]
<1>0. /\ out \in [Clients -> Seq(ToClient)] /\ myTurn \in [Clients -> BOOLEAN]
      /\ client \in [Clients -> {"off", "None", "Matching", "Gaming", "Over", "left"}]
  BY DEF TypesOK, TypeOK
<1>1. out[c] \in Seq(ToClient) /\ out[c] # << >>
  BY <1>0 DEF ClientReceives
<1>2. << >> \in Seq(ToClient) /\ Tail(out[c]) \in Seq(ToClient)
  BY <1>1, EmptySeq, HeadTailProperties
<1>3. out' = [out EXCEPT ![c] = IF Head(out[c]) = "RemoteLost" THEN << >> ELSE Tail(out[c])]
  BY DEF ClientReceives
<1>4. client' \in [Clients -> {"off", "None", "Matching", "Gaming", "Over", "left"}]
  BY <1>0 DEF ClientReceives
<1>5. myTurn' \in [Clients -> BOOLEAN]
  BY <1>0 DEF ClientReceives
<1> QED BY <1>0, <1>2, <1>3, <1>4, <1>5

LEMMA RestStep ==
    ASSUME TypesOK, PairsOK, [Next]_vars
    PROVE  RestType'
<1>0. RestType /\ MaxLoseHeartbeat \in Nat \ {0}
  BY ChessAssumption DEF TypesOK, TypeOK, RestType
<1>1. \A c \in Clients : [lose EXCEPT ![c] = 0] \in [Clients -> 0..(MaxLoseHeartbeat - 1)]
  BY <1>0 DEF RestType
<1>12. Same => RestType'
  BY <1>0 DEF Same, clients, RestType
<1>2. CASE OnTimeout
  <2>1. Close(Late) /\ Late \in SUBSET Clients
    BY <1>2 DEF OnTimeout, Late
  <2>2. lose' \in [Clients -> 0..(MaxLoseHeartbeat - 1)]
    <3>1. lose' = [c \in Clients |-> IF InConnMap(c) /\ c \notin Late THEN lose[c] + 1 ELSE 0]
      BY <1>2 DEF OnTimeout
    <3>2. ASSUME NEW c \in Clients, InConnMap(c), c \notin Late
          PROVE  lose[c] + 1 \in 0..(MaxLoseHeartbeat - 1)
      BY <1>0, <3>2 DEF Late, RestType
    <3> QED BY <1>0, <3>1, <3>2
  <2> QED BY <2>1, <2>2, CloseType
<1>3. ASSUME NEW c \in Clients, CloseOne(c)
      PROVE  RestType'
  <2>1. Close({c}) /\ {c} \in SUBSET Clients /\ lose' = [lose EXCEPT ![c] = 0]
    BY <1>3 DEF CloseOne
  <2> QED BY <1>1, <2>1, CloseType
<1>4. ASSUME NEW c \in Clients, OnConnect(c)
      PROVE  RestType'
  BY <1>0, <1>4 DEF OnConnect, clients, RestType
<1>5. ASSUME NEW c \in Clients, ClientReceives(c)
      PROVE  RestType'
  <2>1. UNCHANGED <<lose, buffer, sends>>
    BY <1>5 DEF ClientReceives
  <2> QED BY <1>0, <1>5, <2>1, ReceiveType DEF RestType
<1>6. ASSUME NEW c \in Clients, ClientLeaves(c)
      PROVE  RestType'
  <2>1. << >> \in Seq(ToClient)
    BY EmptySeq
  <2> QED BY <1>0, <1>6, <2>1 DEF ClientLeaves, RestType
<1>7. ASSUME NEW c \in Clients, NEW burst \in Bursts(c), NEW packet, OnMessage(c, burst, packet),
             lose' \in [Clients -> 0..(MaxLoseHeartbeat - 1)],
             out' \in [Clients -> Seq(ToClient)]
      PROVE  RestType'
  <2>1. /\ buffer' \in [Clients -> Seq(ToServer)] /\ sends' \in 0..MaxSends /\ myTurn' = myTurn
        /\ client' \in [Clients -> {"off", "None", "Matching", "Gaming", "Over", "left"}]
    BY <1>7, MessageFacts
  <2> QED BY <1>0, <1>7, <2>1 DEF RestType
<1>8. /\ <<"Matching">> \in Seq(ToClient) /\ <<"MoveFailed">> \in Seq(ToClient)
      /\ <<"MoveOK">> \in Seq(ToClient) /\ <<"RemoteMove">> \in Seq(ToClient)
      /\ <<"GameOver">> \in Seq(ToClient)
      /\ <<"Matching", "MatchedRed">> \in Seq(ToClient)
      /\ <<"Matching", "MatchedBlack">> \in Seq(ToClient)
  BY Packets DEF ToClient
<1>9. out \in [Clients -> Seq(ToClient)] /\ lose \in [Clients -> 0..(MaxLoseHeartbeat - 1)]
  BY <1>0 DEF RestType
<1>10. ASSUME NEW c \in Clients, NEW burst \in Bursts(c), OnPacket(c, burst)
       PROVE  RestType'
  <2>1. CASE OnHeartbeat(c, burst)
    <3>1. OnMessage(c, burst, "Heartbeat") /\ lose' = [lose EXCEPT ![c] = 0] /\ UNCHANGED out
      BY <2>1 DEF OnHeartbeat
    <3> QED BY <1>1, <1>7, <1>9, <3>1
  <2>2. CASE OnUnknown(c, burst)
    BY <1>3, <2>2 DEF OnUnknown
  <2>3. CASE OnLateMove(c, burst)
    <3>1. OnMessage(c, burst, "Move") /\ UNCHANGED <<lose, out>>
      BY <2>3 DEF OnLateMove
    <3> QED BY <1>7, <1>9, <3>1
  <2>4. CASE OnStartMatch(c, burst)
    <3>1. OnMessage(c, burst, "StartMatch") /\ UNCHANGED lose /\ out' = Sent(out, c, <<"Matching">>)
      BY <2>4 DEF OnStartMatch
    <3>2. out' \in [Clients -> Seq(ToClient)]
      BY <1>8, <1>9, <3>1, SentFacts
    <3> QED BY <1>7, <1>9, <3>1, <3>2
  <2>5. CASE OnSecondStartMatch(c, burst)
    <3>1. OnMessage(c, burst, "StartMatch") /\ UNCHANGED <<lose, out>>
      BY <2>5 DEF OnSecondStartMatch
    <3> QED BY <1>7, <1>9, <3>1
  <2>6. ASSUME NEW v \in Clients, OnMatched(c, v, burst)
        PROVE  RestType'
    <3>1. /\ OnMessage(c, burst, "StartMatch") /\ UNCHANGED lose
          /\ out' = Sent(Sent(out, v, <<"Matching", "MatchedBlack">>), c, <<"Matching", "MatchedRed">>)
      BY <2>6 DEF OnMatched
    <3>2. Sent(out, v, <<"Matching", "MatchedBlack">>) \in [Clients -> Seq(ToClient)]
      BY <1>8, <1>9, SentFacts
    <3>3. out' \in [Clients -> Seq(ToClient)]
      BY <1>8, <3>1, <3>2, SentFacts
    <3> QED BY <1>7, <1>9, <3>1, <3>3
  <2>7. ASSUME NEW m \in Moves, OnMoveRefused(c, burst, m)
        PROVE  RestType'
    <3>1. OnMessage(c, burst, "Move") /\ UNCHANGED lose /\ out' = Sent(out, c, <<"MoveFailed">>)
      BY <2>7 DEF OnMoveRefused, MoveArrives
    <3>2. out' \in [Clients -> Seq(ToClient)]
      BY <1>8, <1>9, <3>1, SentFacts
    <3> QED BY <1>7, <1>9, <3>1, <3>2
  <2>8. ASSUME NEW m \in Moves, OnMovePanics(c, burst, m)
        PROVE  RestType'
    <3>1. OnMessage(c, burst, "Move") /\ UNCHANGED <<lose, out>>
      BY <2>8 DEF OnMovePanics, MoveArrives
    <3> QED BY <1>7, <1>9, <3>1
  <2>9. ASSUME NEW m \in Moves, OnMove(c, burst, m)
        PROVE  RestType'
    <3>1. OnMessage(c, burst, "Move") /\ UNCHANGED lose
      BY <2>9 DEF OnMove, MoveArrives
    <3>2. PICK r \in Clients : GoesOn(c, r, m) \/ IsOver(c, r)
      BY <2>9, MoveFacts
    <3>3. \/ out' = Sent(Sent(out, r, <<"RemoteMove">>), c, <<"MoveOK">>)
          \/ out' = Sent(out, r, <<"GameOver">>)
      BY <3>2 DEF GoesOn, IsOver
    <3>4. /\ Sent(out, r, <<"RemoteMove">>) \in [Clients -> Seq(ToClient)]
          /\ Sent(out, r, <<"GameOver">>) \in [Clients -> Seq(ToClient)]
      BY <1>8, <1>9, SentFacts
    <3>5. Sent(Sent(out, r, <<"RemoteMove">>), c, <<"MoveOK">>) \in [Clients -> Seq(ToClient)]
      BY <1>8, <3>4, SentFacts
    <3>6. out' \in [Clients -> Seq(ToClient)]
      BY <3>3, <3>4, <3>5
    <3> QED BY <1>7, <1>9, <3>1, <3>6
  <2>10. CASE OnTooLong(c, burst)
    BY <1>12, <2>10, SameSteps
  <2> QED BY <1>10, <2>1, <2>2, <2>3, <2>4, <2>5, <2>6, <2>7, <2>8, <2>9, <2>10 DEF OnPacket
<1>11. ASSUME NEW c \in Clients, OnClose(c)
       PROVE  RestType'
  BY <1>3, <1>11 DEF OnClose
<1> QED BY SameSteps, <1>2, <1>4, <1>5, <1>6, <1>10, <1>11, <1>12 DEF Next

LEMMA TypesInductive ==
    ASSUME TypesOK, PairsOK, [Next]_vars
    PROVE  TypesOK'
<1>1. RestType'
  BY RestStep
<1>2. /\ state' \in [Clients -> {"new", "None", "Matching", "Gaming", "closed"}]
      /\ game' \in [Clients -> Clients \cup {NoGame}]
      /\ context' \in [Clients -> Games]
  BY PlayersType
<1>3. ASSUME NEW c \in Clients
      PROVE  /\ context'[c].black \in Clients \cup {NoGame} /\ context'[c].turn \in Sides
             /\ DOMAIN context'[c].table \subseteq Points
  <2>1. context'[c] \in Games
    BY <1>2
  <2> QED BY <2>1, GameFacts, TableFacts
<1> QED BY <1>1, <1>2, <1>3 DEF TypesOK, TypeOK, RestType

LEMMA InitTypes == Init => TypesOK /\ PairsOK
<1> SUFFICES ASSUME Init
             PROVE  TypesOK /\ PairsOK
  OBVIOUS
<1>1. context \in [Clients -> Games] /\ \A c \in Clients : context[c] = NoContext
  BY NoContextType DEF Init
<1>2. ASSUME NEW c \in Clients
      PROVE  /\ context[c].black \in Clients \cup {NoGame} /\ context[c].turn \in Sides
             /\ DOMAIN context[c].table \subseteq Points
  <2>1. context[c] \in Games
    BY <1>1
  <2> QED BY <2>1, GameFacts, TableFacts
<1>3. << >> \in Seq(ToServer) /\ << >> \in Seq(ToClient)
  BY EmptySeq
<1>4. 0 \in 0..(MaxLoseHeartbeat - 1) /\ 0 \in 0..MaxSends
  BY ChessAssumption
<1>5. TypesOK
  BY <1>1, <1>2, <1>3, <1>4 DEF Init, TypesOK, TypeOK
<1>6. PairsOK
  BY DEF Init, PairsOK
<1> QED BY <1>5, <1>6

LEMMA PairsHold == Spec => [](TypesOK /\ PairsOK)
<1>1. TypesOK /\ PairsOK /\ [Next]_vars => TypesOK' /\ PairsOK'
  BY TypesInductive, PairsInductive
<1> QED BY <1>1, InitTypes, PTL DEF Spec

\* However many clients there are and in whatever order they match, move, lose
\* heartbeats and leave, who plays shares one context with exactly one other
\* connection of ConnMap, and at most one connection waits (handler.go:70-220).
THEOREM GamesArePaired == Spec => []PairedGames
BY PairsHold, PairsImplyPairedGames, PTL

-----------------------------------------------------------------------------
(* The tables of the games that are on.                                    *)

TablesOK == \A c \in Clients : state[c] = "Gaming" => SaneTable(context[game[c]].table)

LEMMA TablesInductive ==
    ASSUME TypesOK, PairsOK, PairsOK', TablesOK, [Next]_vars
    PROVE  TablesOK'
<1>0. /\ state \in [Clients -> {"new", "None", "Matching", "Gaming", "closed"}]
      /\ game \in [Clients -> Clients \cup {NoGame}] /\ context \in [Clients -> Games]
  BY DEF TypesOK, TypeOK
<1>1. CASE UNCHANGED players
  BY <1>1 DEF players, TablesOK
<1>2. ASSUME NEW c \in Clients, OnConnect(c)
      PROVE  TablesOK'
  <2>1. \A d \in Clients : state'[d] = "Gaming" => state[d] = "Gaming"
    BY <1>0, <1>2 DEF OnConnect
  <2>2. UNCHANGED <<game, context>>
    BY <1>2 DEF OnConnect
  <2> QED BY <2>1, <2>2 DEF TablesOK
<1>3. ASSUME NEW S \in SUBSET Clients, Close(S)
      PROVE  TablesOK'
  <2> SUFFICES ASSUME NEW c \in Clients, state'[c] = "Gaming"
               PROVE  SaneTable(context'[game'[c]].table)
    BY DEF TablesOK
  <2>1. state[c] = "Gaming" /\ game'[c] = game[c]
    BY <1>3, CloseFacts
  <2>2. game[c] \in Clients
    BY <2>1, PairFacts DEF PairsOK
  <2>3. \E d \in Clients : game'[d] = game[c]
    BY <2>1
  <2>4. context'[game[c]] = context[game[c]]
    BY <1>3, <2>2, <2>3, CloseFacts
  <2> QED BY <2>1, <2>4 DEF TablesOK
<1>4. ASSUME NEW c \in Clients, NEW burst \in Bursts(c), OnStartMatch(c, burst)
      PROVE  TablesOK'
  <2>1. \A d \in Clients : state'[d] = "Gaming" => state[d] = "Gaming"
    BY <1>0, <1>4 DEF OnStartMatch
  <2>2. UNCHANGED <<game, context>>
    BY <1>4 DEF OnStartMatch
  <2> QED BY <2>1, <2>2 DEF TablesOK
<1>5. ASSUME NEW c \in Clients, NEW v \in Clients, NEW burst \in Bursts(c), OnMatched(c, v, burst)
      PROVE  TablesOK'
  <2>1. /\ Pair(c, v)'
        /\ \A d \in Clients \ {c, v} : state'[d] = state[d] /\ game'[d] = game[d]
        /\ \A d \in Clients \ {c} : context'[d] = context[d]
        /\ context'[c] = [black |-> v, turn |-> "red", table |-> NewDefaultChessTable]
        /\ \A d \in Clients \ {c, v} : state[d] = "Gaming" => game[d] # c
    BY <1>5, MatchPairs
  <2>2. context'[c].table = NewDefaultChessTable /\ context'[c].black = v
    BY <2>1
  <2>3. game'[c] = c /\ game'[v] = c
    BY <1>0, <1>5 DEF OnMatched
  <2>4. ASSUME NEW d \in Clients \ {c, v}, state'[d] = "Gaming"
        PROVE  SaneTable(context'[game'[d]].table)
    <3>1. state[d] = "Gaming" /\ game'[d] = game[d] /\ game[d] # c
      BY <2>1, <2>4
    <3>2. game[d] \in Clients
      BY <3>1, PairFacts DEF PairsOK
    <3>3. context'[game[d]] = context[game[d]]
      BY <2>1, <3>1, <3>2
    <3> QED BY <3>1, <3>3 DEF TablesOK
  <2> QED BY <2>2, <2>3, <2>4, OpeningIsSane DEF TablesOK
<1>6. ASSUME NEW c \in Clients, NEW m \in Moves, NEW burst \in Bursts(c), OnMove(c, burst, m)
      PROVE  TablesOK'
  <2>1. PICK r \in Clients : Played(c, r, m) /\ (GoesOn(c, r, m) \/ IsOver(c, r))
    BY <1>6, MoveFacts
  <2>2. Pair(c, r) /\ game[c] \in Clients /\ state[c] = "Gaming" /\ game[c] \in {c, r}
    BY <2>1, PairFacts DEF Played, Pair
  <2>3. CASE GoesOn(c, r, m)
    <3>1. PICK g : g = context[game[c]]
      OBVIOUS
    <3>2. /\ g \in Games /\ MoveOK(g.turn, g.table, m.from, m.to) /\ ~GameOver(g.table, m.to)
          /\ SaneTable(g.table) /\ g.table \in Tables /\ g.turn \in Sides
      BY <2>1, <2>2, <2>3, <3>1, GameFacts DEF Played, GoesOn, TablesOK
    <3>3. SaneTable(Moved(g.table, m.from, m.to))
      BY <3>2, MoveIsSane
    <3>4. AfterMove(g, m).table = Moved(g.table, m.from, m.to)
      BY <3>2 DEF AfterMove, Games
    <3>5. /\ context'[game[c]].table = Moved(g.table, m.from, m.to)
          /\ \A d \in Clients \ {game[c]} : context'[d] = context[d]
          /\ state' = state /\ game' = game
      BY <1>0, <2>2, <2>3, <3>1, <3>4 DEF GoesOn
    <3>6. ASSUME NEW d \in Clients, state[d] = "Gaming"
          PROVE  SaneTable(context'[game[d]].table)
      <4>1. game[d] \in Clients
        BY <3>6, PairFacts DEF PairsOK
      <4> QED BY <3>3, <3>5, <3>6, <4>1 DEF TablesOK
    <3> QED BY <3>5, <3>6 DEF TablesOK
  <2>4. CASE IsOver(c, r)
    <3>1. ASSUME NEW d \in Clients, state'[d] = "Gaming"
          PROVE  SaneTable(context'[game'[d]].table)
      <4>1. d \notin {c, r} /\ state[d] = "Gaming" /\ game'[d] = game[d]
        BY <1>0, <2>2, <2>4, <3>1 DEF IsOver, Pair
      <4>2. PICK e \in Clients : Pair(d, e)
        BY <4>1 DEF PairsOK
      <4>3. game[d] \in Clients /\ game[d] # game[c]
        BY <2>2, <4>1, <4>2, PairFacts, PairUnique
      <4>4. context'[game[d]] = context[game[d]]
        BY <1>0, <2>2, <2>4, <4>3 DEF IsOver
      <4> QED BY <4>1, <4>4 DEF TablesOK
    <3> QED BY <3>1 DEF TablesOK
  <2> QED BY <2>1, <2>3, <2>4
<1> QED BY <1>1, <1>2, <1>3, <1>4, <1>5, <1>6, PlayersStep

\* In every game, after any moves that DoMove allows, both Shuai are on the
\* table and in their palaces, each Shi stands where a Shi may and no Xiang has
\* crossed the river (chess.go:69-329).  No bound on the moves or their number.
THEOREM TablesStaySane == Spec => []TableSane
<1>1. TypesOK /\ PairsOK /\ TablesOK => TableSane
  <2> SUFFICES ASSUME TypesOK, PairsOK, TablesOK, NEW c \in Clients, state[c] = "Gaming",
                      NEW t, t = context[game[c]].table
               PROVE  /\ \A s \in Sides :
                           Cardinality({p \in DOMAIN t : t[p] = [side |-> s, type |-> "Shuai"]}) = 1
                      /\ \A p \in DOMAIN t :
                           CASE t[p].type = "Shuai" -> InPalace(t[p].side, p)
                             [] t[p].type = "Shi" -> p \in ShiPoints(t[p].side)
                             [] t[p].type = "Xiang" -> ~IsCrossedRiver(t[p].side, p)
                             [] OTHER -> TRUE
    BY DEF TableSane
  <2>1. SaneTable(t)
    BY DEF TablesOK
  <2>2. ASSUME NEW s \in Sides
        PROVE  Cardinality({p \in DOMAIN t : t[p] = [side |-> s, type |-> "Shuai"]}) = 1
    <3>1. PICK p : OnlyAt(t, Shuai(s), p)
      BY <2>1 DEF SaneTable
    <3>2. {q \in DOMAIN t : t[q] = [side |-> s, type |-> "Shuai"]} = {p}
      BY <3>1 DEF OnlyAt, Shuai
    <3>3. Cardinality({p}) = 1
      BY FS_Singleton
    <3> QED BY <3>2, <3>3
  <2>3. ASSUME NEW p \in DOMAIN t
        PROVE  CASE t[p].type = "Shuai" -> InPalace(t[p].side, p)
                 [] t[p].type = "Shi" -> p \in ShiPoints(t[p].side)
                 [] t[p].type = "Xiang" -> ~IsCrossedRiver(t[p].side, p)
                 [] OTHER -> TRUE
    BY <2>1 DEF SaneTable, PlaceOK
  <2> QED BY <2>2, <2>3
<1>2. Init => TablesOK
  BY DEF Init, TablesOK
<1>3. TypesOK /\ PairsOK /\ PairsOK' /\ TablesOK /\ [Next]_vars => TablesOK'
  BY TablesInductive
<1> QED BY <1>1, <1>2, <1>3, PairsHold, PTL DEF Spec

-----------------------------------------------------------------------------
(* What kills the server.                                                  *)

NoStart(s) == \A i \in DOMAIN s : s[i] # "StartMatch"

\* A connection begins with the frontend's StartMatch, which never waits in
\* the buffer.
StartsOK ==
    \A c \in Clients :
        /\ client[c] = "off" => state[c] \in {"new", "None"} /\ buffer[c] = << >>
        /\ "StartMatch" \notin Extra => NoStart(buffer[c])

LEMMA NoStartTaken ==
    ASSUME NEW b \in Seq(ToServer), NEW burst \in Seq(ToServer), burst # << >>,
           NoStart(b), NoStart(burst)
    PROVE  /\ Take(b \o burst).packet # "StartMatch"
           /\ NoStart(Take(b \o burst).rest)
<1>1. PICK s : s = b \o burst
  OBVIOUS
<1>2. /\ Len(b) \in Nat /\ Len(burst) \in Nat /\ Len(burst) # 0
      /\ DOMAIN b = 1..Len(b) /\ DOMAIN burst = 1..Len(burst)
  BY LenProperties, EmptySeq
<1>3. /\ s \in Seq(ToServer) /\ Len(s) = Len(b) + Len(burst)
      /\ \A i \in 1..Len(s) : s[i] = IF i <= Len(b) THEN b[i] ELSE burst[i - Len(b)]
  BY <1>1, <1>2, ConcatProperties
<1>4. \A i \in 1..Len(s) : s[i] # "StartMatch"
  <2> SUFFICES ASSUME NEW i \in 1..Len(s)
               PROVE  s[i] # "StartMatch"
    OBVIOUS
  <2>1. CASE i <= Len(b)
    BY SMTT(40), <1>2, <1>3, <2>1 DEF NoStart
  <2>2. CASE ~(i <= Len(b))
    <3>1. i - Len(b) \in DOMAIN burst
      BY <1>2, <1>3, <2>2
    <3> QED BY <1>3, <2>2, <3>1 DEF NoStart
  <2> QED BY <2>1, <2>2
<1>5. s # << >>
  BY <1>2, <1>3, EmptySeq
<1>6. /\ Head(s) = s[1] /\ Tail(s) \in Seq(ToServer) /\ Len(Tail(s)) = Len(s) - 1
      /\ \A i \in 1..Len(Tail(s)) : Tail(s)[i] = s[i + 1]
  BY <1>3, <1>5, HeadTailProperties
<1>7. DOMAIN Tail(s) = 1..Len(Tail(s))
  BY <1>6, LenProperties
<1>8. NoStart(Tail(s)) /\ Head(s) # "StartMatch"
  BY <1>2, <1>3, <1>4, <1>6, <1>7 DEF NoStart
<1> QED BY <1>1, <1>8 DEF Take

\* What is left in the buffer, and what was taken from it.
LEMMA StartTaken ==
    ASSUME TypesOK, StartsOK, NEW c \in Clients, NEW burst \in Bursts(c), NEW packet,
           OnMessage(c, burst, packet)
    PROVE  /\ "StartMatch" \notin Extra =>
                 /\ NoStart(buffer'[c])
                 /\ packet = "StartMatch" => client[c] = "off"
           /\ client'[c] # "off"
<1>0. buffer[c] \in Seq(ToServer) /\ burst \in Seq(ToServer) /\ burst # << >>
  BY BurstFacts DEF TypesOK, TypeOK
<1>1. /\ buffer'[c] = Take(buffer[c] \o burst).rest /\ packet = Take(buffer[c] \o burst).packet
      /\ client'[c] # "off"
  BY MessageFacts
<1>2. CASE client[c] = "off"
  <2>1. buffer[c] = << >> /\ burst = <<"StartMatch">>
    BY <1>2, BurstFacts DEF StartsOK
  <2>2. buffer'[c] = Tail(burst)
    BY <1>0, <1>1, <2>1, TakeFacts
  <2>3. Tail(<<"StartMatch">>) = << >>
    OBVIOUS
  <2>4. NoStart(<< >>)
    BY DEF NoStart
  <2> QED BY <1>1, <1>2, <2>1, <2>2, <2>3, <2>4
<1>3. CASE client[c] # "off" /\ "StartMatch" \notin Extra
  <2>1. burst \in {<<"Heartbeat">>, <<"Move">>, <<"Heartbeat", "Move">>,
                   <<"Move", "Heartbeat">>, <<"Unknown">>, <<"TooLong">>}
    BY <1>3, BurstFacts
  <2>2. NoStart(burst)
    BY <2>1 DEF NoStart
  <2>3. NoStart(buffer[c])
    BY <1>3 DEF StartsOK
  <2> QED BY <1>0, <1>1, <2>2, <2>3, NoStartTaken
<1> QED BY <1>1, <1>2, <1>3

LEMMA StartsInductive ==
    ASSUME TypesOK, PairsOK, StartsOK, [Next]_vars
    PROVE  StartsOK'
<1>0. /\ state \in [Clients -> {"new", "None", "Matching", "Gaming", "closed"}]
      /\ client \in [Clients -> {"off", "None", "Matching", "Gaming", "Over", "left"}]
  BY DEF TypesOK, TypeOK
<1>9. Same => StartsOK'
  BY DEF Same, players, clients, StartsOK
<1>1. ASSUME NEW S \in SUBSET Clients, Close(S)
      PROVE  StartsOK'
  <2>1. buffer' = [c \in Clients |-> IF c \in S THEN << >> ELSE buffer[c]]
    BY <1>1 DEF Close
  <2>2. NoStart(<< >>)
    BY DEF NoStart
  <2>3. ASSUME NEW c \in Clients
        PROVE  /\ client'[c] = "off" => state'[c] \in {"new", "None"} /\ buffer'[c] = << >>
               /\ "StartMatch" \notin Extra => NoStart(buffer'[c])
    <3>1. CASE c \in S
      <4>1. client'[c] = "left" /\ buffer'[c] = << >>
        BY <1>1, <2>1, <3>1, CloseFacts
      <4> QED BY <2>2, <4>1
    <3>2. CASE c \notin S
      <4>1. /\ client'[c] = client[c] /\ buffer'[c] = buffer[c]
            /\ state'[c] = "None" \/ state'[c] = state[c]
        BY <1>1, <2>1, <3>2, CloseFacts
      <4> QED BY <4>1 DEF StartsOK
    <3> QED BY <3>1, <3>2
  <2> QED BY <2>3 DEF StartsOK
<1>2. ASSUME NEW c \in Clients, OnConnect(c)
      PROVE  StartsOK'
  <2>1. /\ UNCHANGED <<client, buffer>> /\ state'[c] = "None"
        /\ \A d \in Clients \ {c} : state'[d] = state[d]
    BY <1>0, <1>2 DEF OnConnect, clients
  <2> QED BY <2>1 DEF StartsOK
<1>3. ASSUME NEW c \in Clients, ClientReceives(c) \/ ClientLeaves(c)
      PROVE  StartsOK'
  <2>1. UNCHANGED <<state, buffer>> /\ client'[c] # "off"
    BY <1>0, <1>3 DEF ClientReceives, ClientLeaves, players
  <2>2. \A d \in Clients \ {c} : client'[d] = client[d]
    BY <1>0, <1>3 DEF ClientReceives, ClientLeaves
  <2> QED BY <2>1, <2>2 DEF StartsOK
<1>4. ASSUME NEW c \in Clients, NEW burst \in Bursts(c), NEW packet, OnMessage(c, burst, packet),
             \A d \in Clients \ {c} : client[d] = "off" => state'[d] \in {"new", "None"}
      PROVE  StartsOK'
  <2>1. /\ "StartMatch" \notin Extra => NoStart(buffer'[c])
        /\ client'[c] # "off"
    BY <1>4, StartTaken
  <2>2. \A d \in Clients \ {c} : client'[d] = client[d] /\ buffer'[d] = buffer[d]
    BY <1>4, MessageFacts
  <2> QED BY <1>4, <2>1, <2>2 DEF StartsOK
<1>5. \A d \in Clients : client[d] = "off" => state[d] \in {"new", "None"}
  BY DEF StartsOK
<1>6. ASSUME NEW c \in Clients, NEW burst \in Bursts(c), OnPacket(c, burst)
      PROVE  StartsOK'
  <2>1. CASE OnHeartbeat(c, burst) \/ OnLateMove(c, burst) \/ OnSecondStartMatch(c, burst)
    <3>1. state' = state /\ \E packet : OnMessage(c, burst, packet)
      BY <2>1 DEF OnHeartbeat, OnLateMove, OnSecondStartMatch, players
    <3> QED BY <1>4, <1>5, <3>1
  <2>2. CASE OnUnknown(c, burst)
    <3>1. Close({c}) /\ {c} \in SUBSET Clients
      BY <2>2 DEF OnUnknown, CloseOne
    <3> QED BY <1>1, <3>1
  <2>3. CASE OnStartMatch(c, burst)
    <3>1. OnMessage(c, burst, "StartMatch") /\ \A d \in Clients \ {c} : state'[d] = state[d]
      BY <1>0, <2>3 DEF OnStartMatch
    <3> QED BY <1>4, <1>5, <3>1
  <2>4. ASSUME NEW v \in Clients, OnMatched(c, v, burst)
        PROVE  StartsOK'
    <3>1. /\ OnMessage(c, burst, "StartMatch") /\ state[v] = "Matching"
          /\ \A d \in Clients \ {c, v} : state'[d] = state[d]
      BY <1>0, <2>4 DEF OnMatched, Waiting
    <3> QED BY <1>4, <1>5, <3>1
  <2>5. ASSUME NEW m \in Moves, OnMoveRefused(c, burst, m) \/ OnMovePanics(c, burst, m)
        PROVE  StartsOK'
    <3>1. OnMessage(c, burst, "Move") /\ state' = state
      BY <2>5 DEF OnMoveRefused, OnMovePanics, MoveArrives, players
    <3> QED BY <1>4, <1>5, <3>1
  <2>6. ASSUME NEW m \in Moves, OnMove(c, burst, m)
        PROVE  StartsOK'
    <3>1. OnMessage(c, burst, "Move")
      BY <2>6 DEF OnMove, MoveArrives
    <3>2. PICK r \in Clients : GoesOn(c, r, m) \/ IsOver(c, r)
      BY <2>6, MoveFacts
    <3>3. \A d \in Clients : state'[d] = state[d] \/ state'[d] = "None"
      BY <1>0, <3>2 DEF GoesOn, IsOver
    <3> QED BY <1>4, <1>5, <3>1, <3>3
  <2>7. CASE OnTooLong(c, burst)
    BY <1>9, <2>7, SameSteps
  <2> QED BY <1>6, <2>1, <2>2, <2>3, <2>4, <2>5, <2>6, <2>7 DEF OnPacket
<1>7. CASE OnTimeout
  <2>1. Close(Late) /\ Late \in SUBSET Clients
    BY <1>7 DEF OnTimeout, Late
  <2> QED BY <1>1, <2>1
<1>8. ASSUME NEW c \in Clients, OnClose(c)
      PROVE  StartsOK'
  <2>1. Close({c}) /\ {c} \in SUBSET Clients
    BY <1>8 DEF OnClose, CloseOne
  <2> QED BY <1>1, <2>1
<1> QED BY SameSteps, <1>2, <1>3, <1>6, <1>7, <1>8, <1>9 DEF Next

\* The steps of handlers in which the server dies.
LEMMA PanicStep ==
    ASSUME [Next]_vars
    PROVE  \/ UNCHANGED panicked
           \/ panicked' \in {"late move", "nil piece", "packet length", "checkme"}
           \/ \E S \in SUBSET Clients : Close(S)
           \/ \E c \in Clients : \E burst \in Bursts(c) : OnSecondStartMatch(c, burst)
<1>1. CASE OnTimeout
  <2>1. Close(Late) /\ Late \in SUBSET Clients
    BY <1>1 DEF OnTimeout, Late
  <2> QED BY <2>1
<1>2. ASSUME NEW c \in Clients, OnClose(c)
      PROVE  \E S \in SUBSET Clients : Close(S)
  <2>1. Close({c}) /\ {c} \in SUBSET Clients
    BY <1>2 DEF OnClose, CloseOne
  <2> QED BY <2>1
<1>3. ASSUME NEW c \in Clients, NEW burst \in Bursts(c), OnUnknown(c, burst)
      PROVE  \E S \in SUBSET Clients : Close(S)
  <2>1. Close({c}) /\ {c} \in SUBSET Clients
    BY <1>3 DEF OnUnknown, CloseOne
  <2> QED BY <2>1
<1>4. ASSUME NEW c \in Clients,
             OnConnect(c) \/ ClientReceives(c) \/ ClientLeaves(c) \/ OnTimeoutThenEvent(c)
      PROVE  UNCHANGED panicked \/ panicked' = "checkme"
  BY <1>4 DEF OnConnect, ClientReceives, ClientLeaves, OnTimeoutThenEvent
<1>5. ASSUME NEW c \in Clients, NEW burst \in Bursts(c),
             \/ OnHeartbeat(c, burst) \/ OnStartMatch(c, burst) \/ OnLateMove(c, burst)
             \/ OnTooLong(c, burst) \/ \E v \in Clients : OnMatched(c, v, burst)
      PROVE  UNCHANGED panicked \/ panicked' \in {"late move", "packet length"}
  BY <1>5 DEF OnHeartbeat, OnStartMatch, OnLateMove, OnTooLong, OnMatched
<1>6. ASSUME NEW c \in Clients, NEW burst \in Bursts(c), NEW m \in Moves,
             OnMoveRefused(c, burst, m) \/ OnMovePanics(c, burst, m) \/ OnMove(c, burst, m)
      PROVE  UNCHANGED panicked \/ panicked' = "nil piece"
  BY <1>6 DEF OnMoveRefused, OnMovePanics, OnMove
<1>7. CASE UNCHANGED vars
  BY <1>7 DEF vars
<1> QED BY <1>1, <1>2, <1>3, <1>4, <1>5, <1>6, <1>7 DEF Next, OnPacket

\* Whoever closes has an opponent to tell, or does not play.
LEMMA CloseIsSafe ==
    ASSUME TypesOK, PairsOK, NEW S \in SUBSET Clients, Close(S)
    PROVE  panicked' = "no"
<1>1. ASSUME NEW c \in S, state[c] = "Gaming"
      PROVE  InConnMap(Remote(c))
  <2>1. PICK r \in Clients : Pair(c, r)
    BY <1>1 DEF PairsOK
  <2>2. Remote(c) = r /\ state[r] = "Gaming"
    BY <2>1, PairFacts DEF Pair
  <2> QED BY <2>2 DEF InConnMap
<1> QED BY <1>1 DEF Close

\* The opponent whom handlers dereference (handler.go:87, 201, 216) is always
\* there, for any number of clients that close, are closed by OnTimeout, several
\* at a time, or send what the server does not expect.
THEOREM OpponentIsPresent == Spec => []OpponentPresent
<1>1. Init => OpponentPresent
  BY DEF Init, OpponentPresent
<1>2. ASSUME TypesOK, PairsOK, OpponentPresent, [Next]_vars
      PROVE  OpponentPresent'
  BY <1>2, PanicStep, CloseIsSafe DEF OpponentPresent, OnSecondStartMatch
<1>3. TypesOK /\ PairsOK /\ OpponentPresent /\ [Next]_vars => OpponentPresent'
  BY <1>2
<1> QED BY <1>1, <1>3, PairsHold, PTL DEF Spec

\* The StartMatch with which a frontend begins (main.go) never waits in the
\* buffer, so it is never the second one, and the handler that goes on after
\* ForceClose (handler.go:114-118) is not reached unless another program sends
\* one.
THEOREM FrontendsStartOnce ==
    ASSUME "StartMatch" \notin Extra
    PROVE  Spec => []SecondStartCloses
<1>1. Init => StartsOK /\ SecondStartCloses
  BY DEF Init, StartsOK, NoStart, SecondStartCloses
<1>2. ASSUME TypesOK, StartsOK, NEW c \in Clients, NEW burst \in Bursts(c)
      PROVE  ~OnSecondStartMatch(c, burst)
  <2> SUFFICES ASSUME OnSecondStartMatch(c, burst)
               PROVE  FALSE
    OBVIOUS
  <2>1. OnMessage(c, burst, "StartMatch") /\ state[c] # "None" /\ InConnMap(c)
    BY DEF OnSecondStartMatch, OnMessage, Arrived
  <2>2. client[c] # "off"
    BY <1>2, <2>1 DEF StartsOK, InConnMap
  <2> QED BY <1>2, <2>1, <2>2, StartTaken
<1>3. ASSUME TypesOK, PairsOK, StartsOK, SecondStartCloses, [Next]_vars
      PROVE  SecondStartCloses'
  BY <1>2, <1>3, PanicStep, CloseIsSafe DEF SecondStartCloses
<1>4. TypesOK /\ PairsOK /\ StartsOK /\ SecondStartCloses /\ [Next]_vars
        => StartsOK' /\ SecondStartCloses'
  BY <1>3, StartsInductive
<1> QED BY <1>1, <1>4, PairsHold, PTL DEF Spec

-----------------------------------------------------------------------------
(* What the players know.                                                  *)

Matched == {"MatchedRed", "MatchedBlack"}
Yours == {"MatchedRed", "RemoteMove"}
Turns == {"MatchedRed", "RemoteMove", "MatchedBlack", "MoveOK"}

\* A client that is in state k and has not read q yet: Matching comes right
\* before every Matched,
Introduced(q, k) ==
    \A i \in 1..Len(q) : q[i] \in Matched => IF i = 1 THEN k = "Matching"
                                                      ELSE q[i - 1] = "Matching"
\* it will know that it plays,
Begun(q, k) ==
    /\ \A i \in 1..Len(q) : q[i] \in {"Matching", "GameOver", "RemoteLost"} =>
                               \E j \in 1..Len(q) : i < j /\ q[j] \in Matched
    /\ (\A i \in 1..Len(q) : q[i] \notin Matched) => k = "Gaming"
\* and whether it is its turn, t, although it believes b now.
Tells(q, b, t) ==
    /\ (\A i \in 1..Len(q) : q[i] \notin Turns) => (b <=> t)
    /\ \A i \in 1..Len(q) :
          q[i] \in Turns /\ (\A j \in 1..Len(q) : i < j => q[j] \notin Turns) =>
              ((q[i] \in Yours) <=> t)

View(q, k, b, plays, t) ==
    /\ Introduced(q, k)
    /\ plays => Begun(q, k) /\ Tells(q, b, t)

MyMove(c) == context[game[c]].turn = SideOf(c)
ViewOf(c) ==
    client[c] # "left" => View(out[c], client[c], myTurn[c], state[c] = "Gaming", MyMove(c))
ViewsOK == \A c \in Clients : ViewOf(c)

LEMMA ConcatFacts ==
    ASSUME NEW q \in Seq(ToClient), NEW a \in ToClient, NEW b \in ToClient
    PROVE  /\ Len(q) \in Nat
           /\ Len(q \o <<a>>) = Len(q) + 1
           /\ \A i \in 1..Len(q) : (q \o <<a>>)[i] = q[i]
           /\ (q \o <<a>>)[Len(q) + 1] = a
           /\ Len(q \o <<a, b>>) = Len(q) + 2
           /\ \A i \in 1..Len(q) : (q \o <<a, b>>)[i] = q[i]
           /\ (q \o <<a, b>>)[Len(q) + 1] = a
           /\ (q \o <<a, b>>)[Len(q) + 2] = b
OBVIOUS

\* A packet at the end that begins no game.
LEMMA IntroducedAppend ==
    ASSUME NEW q \in Seq(ToClient), NEW k, NEW p \in ToClient \ Matched, Introduced(q, k)
    PROVE  Introduced(q \o <<p>>, k)
<1>1. PICK s : s = q \o <<p>>
  OBVIOUS
<1>2. /\ Len(q) \in Nat /\ Len(s) = Len(q) + 1 /\ s[Len(q) + 1] = p
      /\ \A i \in 1..Len(q) : s[i] = q[i]
  BY <1>1, ConcatFacts
<1>3. ASSUME NEW i \in 1..Len(s), s[i] \in Matched
      PROVE  IF i = 1 THEN k = "Matching" ELSE s[i - 1] = "Matching"
  <2>1. i # Len(q) + 1
    BY <1>2, <1>3
  <2>2. i \in 1..Len(q) /\ (i # 1 => i - 1 \in 1..Len(q))
    BY <1>2, <2>1
  <2>3. q[i] \in Matched
    BY <1>2, <1>3, <2>2
  <2>4. IF i = 1 THEN k = "Matching" ELSE q[i - 1] = "Matching"
    BY <2>2, <2>3 DEF Introduced
  <2> QED BY <1>2, <2>2, <2>4
<1> QED BY <1>1, <1>3 DEF Introduced

LEMMA ViewEnds ==
    ASSUME NEW q \in Seq(ToClient), NEW k, NEW b, NEW plays, NEW t, NEW u,
           NEW p \in ToClient \ Matched, View(q, k, b, plays, t)
    PROVE  View(q \o <<p>>, k, b, FALSE, u)
BY IntroducedAppend DEF View

\* A packet about a move.
LEMMA ViewMoves ==
    ASSUME NEW q \in Seq(ToClient), NEW k, NEW b, NEW plays, NEW t, NEW u,
           NEW p \in {"MoveOK", "MoveFailed", "RemoteMove"},
           IF p \in Turns THEN (p \in Yours) <=> u ELSE t <=> u,
           View(q, k, b, plays, t)
    PROVE  View(q \o <<p>>, k, b, plays, u)
<1>1. PICK s : s = q \o <<p>>
  OBVIOUS
<1>2. p \in ToClient /\ p \notin Matched /\ p \notin {"Matching", "GameOver", "RemoteLost"}
  BY DEF ToClient, Matched
<1>3. /\ Len(q) \in Nat /\ Len(s) = Len(q) + 1 /\ s[Len(q) + 1] = p
      /\ \A i \in 1..Len(q) : s[i] = q[i]
  BY <1>1, <1>2, ConcatFacts
<1>4. /\ \A i \in 1..Len(s) : i = Len(q) + 1 \/ i \in 1..Len(q)
      /\ \A i \in 1..Len(q) : i \in 1..Len(s) /\ i < Len(q) + 1
      /\ Len(q) + 1 \in 1..Len(s)
  BY <1>3
<1>5. Introduced(s, k)
  BY <1>1, <1>2, IntroducedAppend DEF View
<1>6. ASSUME Begun(q, k)
      PROVE  Begun(s, k)
  <2>1. ASSUME NEW i \in 1..Len(s), s[i] \in {"Matching", "GameOver", "RemoteLost"}
        PROVE  \E j \in 1..Len(s) : i < j /\ s[j] \in Matched
    <3>1. i \in 1..Len(q) /\ q[i] \in {"Matching", "GameOver", "RemoteLost"}
      BY <1>2, <1>3, <1>4, <2>1
    <3>2. PICK j \in 1..Len(q) : i < j /\ q[j] \in Matched
      BY <1>6, <3>1 DEF Begun
    <3> QED BY <1>3, <1>4, <3>2
  <2>2. (\A i \in 1..Len(s) : s[i] \notin Matched) => k = "Gaming"
    <3>1. (\A i \in 1..Len(s) : s[i] \notin Matched) => \A i \in 1..Len(q) : q[i] \notin Matched
      BY <1>3, <1>4
    <3> QED BY <1>6, <3>1 DEF Begun
  <2> QED BY <2>1, <2>2 DEF Begun
<1>7. ASSUME Tells(q, b, t)
      PROVE  Tells(s, b, u)
  <2>1. CASE p \in Turns
    <3>1. \E i \in 1..Len(s) : s[i] \in Turns
      BY <1>3, <1>4, <2>1
    <3>2. ASSUME NEW i \in 1..Len(s), \A j \in 1..Len(s) : i < j => s[j] \notin Turns
          PROVE  i = Len(q) + 1
      BY <1>3, <1>4, <2>1, <3>2
    <3>3. (s[Len(q) + 1] \in Yours) <=> u
      BY <1>3, <2>1
    <3> QED BY <3>1, <3>2, <3>3 DEF Tells
  <2>2. CASE p \notin Turns
    <3>1. (\A i \in 1..Len(s) : s[i] \notin Turns) => (b <=> u)
      <4>1. (\A i \in 1..Len(s) : s[i] \notin Turns) => \A i \in 1..Len(q) : q[i] \notin Turns
        BY <1>3, <1>4
      <4> QED BY <1>7, <2>2, <4>1 DEF Tells
    <3>2. ASSUME NEW i \in 1..Len(s), s[i] \in Turns,
                 \A j \in 1..Len(s) : i < j => s[j] \notin Turns
          PROVE  (s[i] \in Yours) <=> u
      <4>1. i \in 1..Len(q) /\ s[i] = q[i]
        BY <1>3, <1>4, <2>2, <3>2
      <4>2. \A j \in 1..Len(q) : i < j => q[j] \notin Turns
        BY <1>3, <1>4, <3>2
      <4> QED BY <1>7, <2>2, <3>2, <4>1, <4>2 DEF Tells
    <3> QED BY <3>1, <3>2 DEF Tells
  <2> QED BY <2>1, <2>2
<1> QED BY <1>1, <1>5, <1>6, <1>7 DEF View

\* A game begins.
LEMMA ViewBegins ==
    ASSUME NEW q \in Seq(ToClient), NEW k, NEW b, NEW plays, NEW t, NEW u, NEW p \in Matched,
           (p \in Yours) <=> u, View(q, k, b, plays, t)
    PROVE  View(q \o <<"Matching", p>>, k, b, TRUE, u)
<1>1. PICK s : s = q \o <<"Matching", p>>
  OBVIOUS
<1>2. p \in ToClient /\ "Matching" \in ToClient /\ "Matching" \notin Matched /\ p \in Turns
  BY DEF ToClient, Matched, Turns
<1>3. PICK n : n = Len(q) + 2
  OBVIOUS
<1>4. /\ Len(q) \in Nat /\ Len(s) = n /\ n = Len(q) + 2 /\ s[n - 1] = "Matching" /\ s[n] = p
      /\ \A i \in 1..Len(q) : s[i] = q[i]
  <2>1. n - 1 = Len(q) + 1 /\ Len(q) \in Nat
    BY <1>2, <1>3, ConcatFacts
  <2> QED BY <1>1, <1>2, <1>3, <2>1, ConcatFacts
<1>5. /\ \A i \in 1..n : i = n \/ i = n - 1 \/ i \in 1..Len(q)
      /\ \A i \in 1..Len(q) : i \in 1..n /\ i < n
      /\ n \in 1..n /\ n - 1 \in 1..n /\ n - 1 < n /\ n # 1
  BY <1>4
<1>6. Introduced(s, k)
  <2>1. ASSUME NEW i \in 1..Len(s), s[i] \in Matched
        PROVE  IF i = 1 THEN k = "Matching" ELSE s[i - 1] = "Matching"
    <3>1. CASE i = n
      BY <1>4, <1>5, <3>1
    <3>2. CASE i # n
      <4>1. i \in 1..Len(q) /\ (i # 1 => i - 1 \in 1..Len(q))
        BY <1>2, <1>4, <1>5, <2>1, <3>2
      <4>2. q[i] \in Matched
        BY <1>4, <2>1, <4>1
      <4>3. IF i = 1 THEN k = "Matching" ELSE q[i - 1] = "Matching"
        BY <4>1, <4>2 DEF View, Introduced
      <4> QED BY <1>4, <4>1, <4>3
    <3> QED BY <3>1, <3>2
  <2> QED BY <2>1 DEF Introduced
<1>7. Begun(s, k)
  <2>1. ASSUME NEW i \in 1..Len(s), s[i] \in {"Matching", "GameOver", "RemoteLost"}
        PROVE  \E j \in 1..Len(s) : i < j /\ s[j] \in Matched
    <3>1. i # n
      BY <1>4, <2>1 DEF Matched
    <3>2. i < n
      BY <1>4, <1>5, <2>1, <3>1
    <3> QED BY <1>4, <1>5, <3>2
  <2>2. \E i \in 1..Len(s) : s[i] \in Matched
    BY <1>4, <1>5
  <2> QED BY <2>1, <2>2 DEF Begun
<1>8. Tells(s, b, u)
  <2>1. \E i \in 1..Len(s) : s[i] \in Turns
    BY <1>2, <1>4, <1>5
  <2>2. ASSUME NEW i \in 1..Len(s), \A j \in 1..Len(s) : i < j => s[j] \notin Turns
        PROVE  i = n
    BY <1>2, <1>4, <1>5, <2>2
  <2>3. (s[n] \in Yours) <=> u
    BY <1>4
  <2> QED BY <2>1, <2>2, <2>3 DEF Tells
<1> QED BY <1>1, <1>6, <1>7, <1>8 DEF View

\* The client reads a packet.
Knows(p, k) ==
    CASE p = "Matching" -> "Matching"
      [] p \in {"MatchedRed", "MatchedBlack"} -> IF k = "Matching" THEN "Gaming" ELSE "left"
      [] p = "GameOver" -> "Over"
      [] p = "RemoteLost" -> "left"
      [] OTHER -> k
Believes(p, b) ==
    CASE p \in {"MatchedRed", "RemoteMove"} -> TRUE
      [] p \in {"MatchedBlack", "MoveOK"} -> FALSE
      [] OTHER -> b

LEMMA ViewReads ==
    ASSUME NEW q \in Seq(ToClient), q # << >>, NEW k, NEW b, NEW plays, NEW t,
           Head(q) # "RemoteLost", View(q, k, b, plays, t)
    PROVE  View(Tail(q), Knows(Head(q), k), Believes(Head(q), b), plays, t)
<1>1. PICK s, p, kk, bb : s = Tail(q) /\ p = Head(q) /\ kk = Knows(p, k) /\ bb = Believes(p, b)
  OBVIOUS
<1>2. /\ Len(q) \in Nat /\ Len(q) # 0 /\ p = q[1] /\ p \in ToClient /\ p # "RemoteLost"
      /\ Len(s) = Len(q) - 1 /\ \A i \in 1..Len(s) : s[i] = q[i + 1]
  BY <1>1, LenProperties, EmptySeq, HeadTailProperties
<1>3. /\ \A i \in 1..Len(s) : i + 1 \in 1..Len(q) /\ i + 1 # 1 /\ (i + 1) - 1 = i
      /\ \A i \in 1..Len(q) : i = 1 \/ (i - 1 \in 1..Len(s) /\ s[i - 1] = q[i])
      /\ 1 \in 1..Len(q)
  <2>1. ASSUME NEW i \in 1..Len(q), i # 1
        PROVE  i - 1 \in 1..Len(s) /\ s[i - 1] = q[i]
    <3>1. i - 1 \in 1..Len(s) /\ (i - 1) + 1 = i
      BY <1>2, <2>1
    <3> QED BY <1>2, <3>1
  <2> QED BY <1>2, <2>1
<1>4. p \in Matched => k = "Matching"
  BY <1>2, <1>3 DEF View, Introduced
<1>5. kk = IF p = "Matching" THEN "Matching" ELSE IF p \in Matched THEN "Gaming"
           ELSE IF p = "GameOver" THEN "Over" ELSE k
  BY <1>1, <1>2, <1>4 DEF Knows, Matched
<1>6. Introduced(s, kk)
  <2>1. ASSUME NEW i \in 1..Len(s), s[i] \in Matched
        PROVE  IF i = 1 THEN kk = "Matching" ELSE s[i - 1] = "Matching"
    <3>1. q[i] = "Matching"
      <4>1. i + 1 \in 1..Len(q) /\ i + 1 # 1 /\ (i + 1) - 1 = i /\ q[i + 1] \in Matched
        BY <1>2, <1>3, <2>1
      <4> QED BY <4>1 DEF View, Introduced
    <3>2. CASE i = 1
      BY <1>2, <1>5, <3>1, <3>2
    <3>3. CASE i # 1
      <4>1. i \in 1..Len(q)
        BY <1>2
      <4> QED BY <1>3, <3>1, <3>3, <4>1
    <3> QED BY <3>2, <3>3
  <2> QED BY <2>1 DEF Introduced
<1>7. ASSUME Begun(q, k)
      PROVE  Begun(s, kk)
  <2>1. ASSUME NEW i \in 1..Len(q), q[i] \in {"Matching", "GameOver", "RemoteLost"}
        PROVE  \E j \in 1..Len(s) : i - 1 < j /\ s[j] \in Matched
    <3>1. PICK j \in 1..Len(q) : i < j /\ q[j] \in Matched
      BY <1>7, <2>1 DEF Begun
    <3>2. j - 1 \in 1..Len(s) /\ s[j - 1] = q[j] /\ i - 1 < j - 1
      BY <1>2, <1>3, <3>1
    <3> QED BY <3>1, <3>2
  <2>2. ASSUME NEW i \in 1..Len(s), s[i] \in {"Matching", "GameOver", "RemoteLost"}
        PROVE  \E j \in 1..Len(s) : i < j /\ s[j] \in Matched
    <3>1. i + 1 \in 1..Len(q) /\ q[i + 1] = s[i] /\ (i + 1) - 1 = i
      BY <1>2, <1>3
    <3>2. \E j \in 1..Len(s) : (i + 1) - 1 < j /\ s[j] \in Matched
      BY <2>1, <2>2, <3>1
    <3> QED BY <3>1, <3>2
  <2>3. ASSUME \A i \in 1..Len(s) : s[i] \notin Matched
        PROVE  kk = "Gaming"
    <3>1. p \notin {"Matching", "GameOver"}
      BY <1>2, <1>3, <2>1, <2>3
    <3>2. CASE p \in Matched
      BY <1>5, <3>1, <3>2
    <3>3. CASE p \notin Matched
      <4>1. \A i \in 1..Len(q) : q[i] \notin Matched
        BY <1>2, <1>3, <2>3, <3>3
      <4>2. k = "Gaming"
        BY <1>7, <4>1 DEF Begun
      <4> QED BY <1>5, <3>1, <3>3, <4>2
    <3> QED BY <3>2, <3>3
  <2> QED BY <2>2, <2>3 DEF Begun
<1>8. ASSUME Tells(q, b, t)
      PROVE  Tells(s, bb, t)
  <2>1. ASSUME \A i \in 1..Len(s) : s[i] \notin Turns
        PROVE  bb <=> t
    <3>1. \A i \in 1..Len(q) : i = 1 \/ q[i] \notin Turns
      BY <1>3, <2>1
    <3>2. CASE p \in Turns
      <4>1. \A j \in 1..Len(q) : 1 < j => q[j] \notin Turns
        BY <3>1
      <4>2. (p \in Yours) <=> t
        BY <1>2, <1>3, <1>8, <3>2, <4>1 DEF Tells
      <4>3. CASE p \in Yours
        <5>1. bb = TRUE
          BY <1>1, <4>3 DEF Believes, Yours
        <5> QED BY <4>2, <4>3, <5>1
      <4>4. CASE p \notin Yours
        <5>1. p \in {"MatchedBlack", "MoveOK"}
          BY <3>2, <4>4 DEF Turns, Yours
        <5>2. bb = FALSE
          BY <1>1, <5>1 DEF Believes
        <5> QED BY <4>2, <4>4, <5>2
      <4> QED BY <4>3, <4>4
    <3>3. CASE p \notin Turns
      <4>1. \A i \in 1..Len(q) : q[i] \notin Turns
        BY <1>2, <3>1, <3>3
      <4>2. b <=> t
        BY <1>8, <4>1 DEF Tells
      <4>3. bb = b
        BY <1>1, <3>3 DEF Believes, Turns
      <4> QED BY <4>2, <4>3
    <3> QED BY <3>2, <3>3
  <2>2. ASSUME NEW i \in 1..Len(s), s[i] \in Turns,
               \A j \in 1..Len(s) : i < j => s[j] \notin Turns
        PROVE  (s[i] \in Yours) <=> t
    <3>1. i + 1 \in 1..Len(q) /\ q[i + 1] = s[i]
      BY <1>2, <1>3
    <3>2. ASSUME NEW j \in 1..Len(q), i + 1 < j
          PROVE  q[j] \notin Turns
      <4>1. j # 1 /\ i < j - 1
        BY <3>2
      <4> QED BY <1>3, <2>2, <4>1
    <3> QED BY <1>8, <2>2, <3>1, <3>2 DEF Tells
  <2> QED BY <2>1, <2>2 DEF Tells
<1> QED BY <1>1, <1>6, <1>7, <1>8 DEF View

\* Whoever leaves no game and gets no packet knows what it knew.
LEMMA ViewUnlessPlays ==
    ASSUME NEW q, NEW k, NEW b, NEW plays, NEW t, NEW u, View(q, k, b, plays, t)
    PROVE  View(q, k, b, FALSE, u)
BY DEF View

\* A frontend that sends its StartMatch is up.
LEMMA ViewWakes ==
    ASSUME NEW q, NEW k, NEW b, NEW plays, NEW t, View(q, k, b, plays, t)
    PROVE  View(q, IF k = "off" THEN "None" ELSE k, b, plays, t)
<1>1. PICK kk : kk = IF k = "off" THEN "None" ELSE k
  OBVIOUS
<1>2. (k = "Matching" => kk = "Matching") /\ (k = "Gaming" => kk = "Gaming")
  BY <1>1
<1>3. Introduced(q, kk)
  <2>1. Introduced(q, k)
    BY DEF View
  <2> QED BY <1>2, <2>1 DEF Introduced
<1>4. Begun(q, k) => Begun(q, kk)
  BY <1>2 DEF Begun
<1> QED BY <1>1, <1>3, <1>4 DEF View

\* What the server has done to c and told it agree, as far as c knew before.
Informed(c) ==
    client[c] # "left" =>
        View(out'[c], client[c], myTurn[c], state'[c] = "Gaming", MyMove(c)')

LEMMA Untouched ==
    ASSUME NEW c \in Clients, ViewOf(c), out'[c] = out[c], state'[c] = state[c],
           state[c] = "Gaming" => game'[c] = game[c] /\ context'[game[c]] = context[game[c]]
    PROVE  Informed(c)
<1> SUFFICES ASSUME client[c] # "left"
             PROVE  View(out'[c], client[c], myTurn[c], state'[c] = "Gaming", MyMove(c)')
  BY DEF Informed
<1>1. View(out[c], client[c], myTurn[c], state[c] = "Gaming", MyMove(c))
  BY DEF ViewOf
<1>2. CASE state[c] = "Gaming"
  <2>1. MyMove(c)' = MyMove(c)
    BY <1>2 DEF MyMove, SideOf
  <2> QED BY <1>1, <2>1
<1>3. CASE state[c] # "Gaming"
  <2>1. View(out[c], client[c], myTurn[c], FALSE, MyMove(c)')
    BY <1>1, ViewUnlessPlays
  <2>2. (state'[c] = "Gaming") = FALSE
    BY <1>3
  <2> QED BY <2>1, <2>2
<1> QED BY <1>2, <1>3

\* c is out of the game, and told so by p.
LEMMA ToldTheEnd ==
    ASSUME TypesOK, NEW c \in Clients, ViewOf(c), NEW p \in ToClient \ Matched, state'[c] # "Gaming",
           client[c] # "left" => out'[c] = out[c] \o <<p>>
    PROVE  Informed(c)
<1> SUFFICES ASSUME client[c] # "left"
             PROVE  View(out'[c], client[c], myTurn[c], state'[c] = "Gaming", MyMove(c)')
  BY DEF Informed
<1>1. View(out[c], client[c], myTurn[c], state[c] = "Gaming", MyMove(c))
  BY DEF ViewOf
<1>2. out[c] \in Seq(ToClient)
  BY DEF TypesOK, TypeOK
<1>3. View(out[c] \o <<p>>, client[c], myTurn[c], FALSE, MyMove(c)')
  BY <1>1, <1>2, ViewEnds
<1>4. (state'[c] = "Gaming") = FALSE
  OBVIOUS
<1> QED BY <1>3, <1>4

\* c goes on and is told about a move by p.
LEMMA ToldTheMove ==
    ASSUME TypesOK, NEW c \in Clients, ViewOf(c), NEW p \in {"MoveOK", "MoveFailed", "RemoteMove"},
           state'[c] = state[c],
           IF p \in Turns THEN (p \in Yours) <=> MyMove(c)' ELSE MyMove(c) <=> MyMove(c)',
           client[c] # "left" => out'[c] = out[c] \o <<p>>
    PROVE  Informed(c)
<1> SUFFICES ASSUME client[c] # "left"
             PROVE  View(out'[c], client[c], myTurn[c], state'[c] = "Gaming", MyMove(c)')
  BY DEF Informed
<1>1. View(out[c], client[c], myTurn[c], state[c] = "Gaming", MyMove(c))
  BY DEF ViewOf
<1>2. out[c] \in Seq(ToClient)
  BY DEF TypesOK, TypeOK
<1>3. PICK t, u : t = MyMove(c) /\ u = MyMove(c)'
  OBVIOUS
<1>4. IF p \in Turns THEN (p \in Yours) <=> u ELSE t <=> u
  BY <1>3
<1>5. View(out[c], client[c], myTurn[c], state[c] = "Gaming", t)
  BY <1>1, <1>3
<1>6. View(out[c] \o <<p>>, client[c], myTurn[c], state[c] = "Gaming", u)
  BY ZenonT(40), <1>2, <1>4, <1>5, ViewMoves
<1> QED BY <1>3, <1>6

\* c begins a game and is told so by p.
LEMMA ToldTheBeginning ==
    ASSUME TypesOK, NEW c \in Clients, ViewOf(c), NEW p \in Matched, state'[c] = "Gaming",
           (p \in Yours) <=> MyMove(c)',
           client[c] # "left" => out'[c] = out[c] \o <<"Matching", p>>
    PROVE  Informed(c)
<1> SUFFICES ASSUME client[c] # "left"
             PROVE  View(out'[c], client[c], myTurn[c], state'[c] = "Gaming", MyMove(c)')
  BY DEF Informed
<1>1. View(out[c], client[c], myTurn[c], state[c] = "Gaming", MyMove(c))
  BY DEF ViewOf
<1>2. out[c] \in Seq(ToClient)
  BY DEF TypesOK, TypeOK
<1>3. View(out[c] \o <<"Matching", p>>, client[c], myTurn[c], TRUE, MyMove(c)')
  BY <1>1, <1>2, ViewBegins
<1>4. (state'[c] = "Gaming") = TRUE
  OBVIOUS
<1> QED BY <1>3, <1>4

\* A handler of a packet need only inform the clients.
LEMMA MessageViews ==
    ASSUME TypesOK, NEW c \in Clients, NEW burst \in Bursts(c), NEW packet,
           OnMessage(c, burst, packet), \A d \in Clients : Informed(d)
    PROVE  ViewsOK'
<1>1. ASSUME NEW d \in Clients
      PROVE  ViewOf(d)'
  <2> SUFFICES ASSUME client'[d] # "left"
               PROVE  View(out'[d], client'[d], myTurn'[d], state'[d] = "Gaming", MyMove(d)')
    BY DEF ViewOf
  <2>1. /\ client'[d] = client[d] \/ client'[d] = IF client[d] = "off" THEN "None" ELSE client[d]
        /\ myTurn' = myTurn
    BY MessageFacts
  <2>2. client[d] # "left"
    BY <2>1
  <2>3. View(out'[d], client[d], myTurn[d], state'[d] = "Gaming", MyMove(d)')
    BY <2>2 DEF Informed
  <2>4. View(out'[d], IF client[d] = "off" THEN "None" ELSE client[d], myTurn[d],
             state'[d] = "Gaming", MyMove(d)')
    BY <2>3, ViewWakes
  <2> QED BY <2>1, <2>3, <2>4
<1> QED BY <1>1 DEF ViewsOK

\* Connections close.
LEMMA CloseViews ==
    ASSUME TypesOK, PairsOK, ViewsOK, NEW S \in SUBSET Clients, Close(S)
    PROVE  ViewsOK'
<1>1. ASSUME NEW c \in Clients \ S
      PROVE  Informed(c)
  <2>0. ViewOf(c)
    BY DEF ViewsOK
  <2>1. CASE c \in Remotes(S)
    <3>1. state'[c] # "Gaming"
      BY <2>1, CloseFacts
    <3>2. client[c] # "left" => out'[c] = out[c] \o <<"RemoteLost">>
      <4>1. out'[c] = Sent(out, c, <<"RemoteLost">>)[c]
        BY <2>1 DEF Close
      <4>2. out \in [Clients -> Seq(ToClient)] /\ <<"RemoteLost">> \in Seq(ToClient)
        BY Packets DEF TypesOK, TypeOK, ToClient
      <4>3. Sent(out, c, <<"RemoteLost">>)[c] =
               IF client[c] = "left" THEN out[c] ELSE out[c] \o <<"RemoteLost">>
        BY ZenonT(40), <4>2, SentFacts
      <4> QED BY <4>1, <4>3
    <3>3. "RemoteLost" \in ToClient \ Matched
      BY DEF ToClient, Matched
    <3> QED BY <2>0, <3>1, <3>2, <3>3, ToldTheEnd
  <2>2. CASE c \notin Remotes(S)
    <3>1. out'[c] = out[c] /\ state'[c] = state[c] /\ game'[c] = game[c]
      BY <2>2, CloseFacts
    <3>2. ASSUME state[c] = "Gaming"
          PROVE  context'[game[c]] = context[game[c]]
      <4>1. PICK r \in Clients : Pair(c, r)
        BY <3>2 DEF PairsOK
      <4>2. game[c] \in Clients
        BY <4>1, PairFacts
      <4>3. context'[game[c]] = IF \E d \in Clients : game'[d] = game[c]
                                THEN context[game[c]] ELSE NoContext
        BY <4>2, CloseFacts
      <4> QED BY <3>1, <4>3
    <3> QED BY <2>0, <3>1, <3>2, Untouched
  <2> QED BY <2>1, <2>2
<1>2. ASSUME NEW c \in Clients
      PROVE  ViewOf(c)'
  <2>1. CASE c \in S
    BY <2>1, CloseFacts DEF ViewOf
  <2>2. CASE c \notin S
    <3>1. client'[c] = client[c] /\ myTurn'[c] = myTurn[c]
      BY <2>2, CloseFacts
    <3> QED BY <1>1, <2>2, <3>1 DEF Informed, ViewOf
  <2> QED BY <2>1, <2>2
<1> QED BY <1>2 DEF ViewsOK

\* c asks for a game and waits.
LEMMA WaitViews ==
    ASSUME TypesOK, PairsOK, ViewsOK, NEW c \in Clients, NEW burst \in Bursts(c),
           OnStartMatch(c, burst)
    PROVE  ViewsOK'
<1>1. /\ OnMessage(c, burst, "StartMatch") /\ state' = [state EXCEPT ![c] = "Matching"]
      /\ out' = Sent(out, c, <<"Matching">>) /\ game' = game /\ context' = context
  BY DEF OnStartMatch
<1>2. /\ out \in [Clients -> Seq(ToClient)] /\ <<"Matching">> \in Seq(ToClient)
      /\ state \in [Clients -> {"new", "None", "Matching", "Gaming", "closed"}]
  BY Packets DEF TypesOK, TypeOK, ToClient
<1>3. ASSUME NEW d \in Clients
      PROVE  Informed(d)
  <2>0. ViewOf(d)
    BY DEF ViewsOK
  <2>1. CASE d = c
    <3>1. state'[d] # "Gaming"
      BY <1>1, <1>2, <2>1
    <3>2. client[d] # "left" => out'[d] = out[d] \o <<"Matching">>
      BY <1>1, <1>2, <2>1, SentFacts
    <3>3. "Matching" \in ToClient \ Matched
      BY DEF ToClient, Matched
    <3> QED BY <2>0, <3>1, <3>2, <3>3, ToldTheEnd
  <2>2. CASE d # c
    <3>1. state'[d] = state[d]
      BY <1>1, <1>2, <2>2
    <3>2. out'[d] = out[d]
      <4>1. \A e \in Clients \ {c} : Sent(out, c, <<"Matching">>)[e] = out[e]
        BY <1>2, SentFacts
      <4> QED BY <1>1, <2>2, <4>1
    <3> QED BY <1>1, <2>0, <3>1, <3>2, Untouched
  <2> QED BY <2>1, <2>2
<1> QED BY <1>1, <1>3, MessageViews

\* Two packets are sent, to two clients.
LEMMA SentTwice ==
    ASSUME TypesOK, NEW c \in Clients, NEW r \in Clients \ {c},
           NEW ps \in Seq(ToClient), NEW qs \in Seq(ToClient),
           out' = Sent(Sent(out, r, qs), c, ps)
    PROVE  /\ client[c] # "left" => out'[c] = out[c] \o ps
           /\ client[r] # "left" => out'[r] = out[r] \o qs
           /\ \A d \in Clients \ {c, r} : out'[d] = out[d]
<1>1. PICK o : o = Sent(out, r, qs)
  OBVIOUS
<1>2. out \in [Clients -> Seq(ToClient)]
  BY DEF TypesOK, TypeOK
<1>3. /\ o \in [Clients -> Seq(ToClient)]
      /\ o[r] = IF client[r] = "left" THEN out[r] ELSE out[r] \o qs
      /\ \A d \in Clients \ {r} : o[d] = out[d]
  <2>1. /\ Sent(out, r, qs) \in [Clients -> Seq(ToClient)]
        /\ Sent(out, r, qs)[r] = IF client[r] = "left" THEN out[r] ELSE out[r] \o qs
        /\ \A d \in Clients \ {r} : Sent(out, r, qs)[d] = out[d]
    BY ZenonT(40), <1>2, SentFacts
  <2> QED BY <1>1, <2>1
<1>4. /\ Sent(o, c, ps)[c] = IF client[c] = "left" THEN o[c] ELSE o[c] \o ps
      /\ \A d \in Clients \ {c} : Sent(o, c, ps)[d] = o[d]
  BY ZenonT(40), <1>3, SentFacts
<1>5. out' = Sent(o, c, ps)
  BY <1>1
<1> QED BY <1>3, <1>4, <1>5

\* c and v begin a game.
LEMMA MatchViews ==
    ASSUME TypesOK, PairsOK, ViewsOK, NEW c \in Clients, NEW v \in Clients,
           NEW burst \in Bursts(c), OnMatched(c, v, burst)
    PROVE  ViewsOK'
<1>1. /\ OnMessage(c, burst, "StartMatch") /\ v # c
      /\ out' = Sent(Sent(out, v, <<"Matching", "MatchedBlack">>), c, <<"Matching", "MatchedRed">>)
  BY DEF OnMatched, Waiting
<1>2. <<"Matching", "MatchedBlack">> \in Seq(ToClient) /\ <<"Matching", "MatchedRed">> \in Seq(ToClient)
  BY Packets DEF ToClient
<1>3. /\ client[c] # "left" => out'[c] = out[c] \o <<"Matching", "MatchedRed">>
      /\ client[v] # "left" => out'[v] = out[v] \o <<"Matching", "MatchedBlack">>
      /\ \A d \in Clients \ {c, v} : out'[d] = out[d]
  BY <1>1, <1>2, SentTwice
<1>4. /\ Pair(c, v)'
      /\ \A d \in Clients \ {c, v} : state'[d] = state[d] /\ game'[d] = game[d]
      /\ \A d \in Clients \ {c} : context'[d] = context[d]
      /\ context'[c] = [black |-> v, turn |-> "red", table |-> NewDefaultChessTable]
      /\ \A d \in Clients \ {c, v} : state[d] = "Gaming" => game[d] # c
  BY MatchPairs
<1>5. game'[c] = c /\ game'[v] = c
  BY <1>1 DEF OnMatched, TypesOK, TypeOK
<1>6. MyMove(c)' /\ ~MyMove(v)' /\ state'[c] = "Gaming" /\ state'[v] = "Gaming"
  BY <1>1, <1>4, <1>5 DEF MyMove, SideOf, Pair
<1>7. ASSUME NEW d \in Clients
      PROVE  Informed(d)
  <2>0. ViewOf(d)
    BY DEF ViewsOK
  <2>1. CASE d = c
    <3>1. "MatchedRed" \in Matched /\ (("MatchedRed" \in Yours) <=> MyMove(c)')
      BY <1>6 DEF Matched, Yours
    <3> QED BY <1>3, <1>6, <2>0, <2>1, <3>1, ToldTheBeginning
  <2>2. CASE d = v
    <3>1. "MatchedBlack" \in Matched /\ (("MatchedBlack" \in Yours) <=> MyMove(v)')
      BY <1>6 DEF Matched, Yours
    <3> QED BY <1>3, <1>6, <2>0, <2>2, <3>1, ToldTheBeginning
  <2>3. CASE d \notin {c, v}
    <3>1. out'[d] = out[d] /\ state'[d] = state[d] /\ game'[d] = game[d]
      BY <1>3, <1>4, <2>3
    <3>2. state[d] = "Gaming" => context'[game[d]] = context[game[d]]
      <4>1. ASSUME state[d] = "Gaming"
            PROVE  game[d] \in Clients \ {c}
        <5>1. PICK r \in Clients : Pair(d, r)
          BY <4>1 DEF PairsOK
        <5> QED BY <1>4, <2>3, <4>1, <5>1, PairFacts
      <4> QED BY <1>4, <4>1
    <3> QED BY <2>0, <3>1, <3>2, Untouched
  <2> QED BY <2>1, <2>2, <2>3
<1> QED BY <1>1, <1>7, MessageViews

\* c's move is made and the game goes on: it is the other's turn now.
LEMMA TurnPasses ==
    ASSUME TypesOK, NEW c \in Clients, NEW r \in Clients, NEW m, Played(c, r, m), GoesOn(c, r, m)
    PROVE  /\ ~MyMove(c)' /\ MyMove(r)'
           /\ state' = state /\ game' = game
           /\ \A d \in Clients \ {game[c]} : context'[d] = context[d]
<1>1. PICK k, g, h : k = game[c] /\ g = context[game[c]] /\ h = AfterMove(context[game[c]], m)
  OBVIOUS
<1>2. /\ Pair(c, r) /\ g \in Games /\ g.turn = SideOf(c)
      /\ state' = state /\ game' = game /\ context' = [context EXCEPT ![k] = h]
  BY <1>1 DEF Played, GoesOn
<1>3. /\ game[c] = k /\ game[r] = k /\ k \in Clients /\ c # r
      /\ SideOf(c) \in Sides /\ SideOf(r) \in Sides /\ SideOf(c) # SideOf(r)
  <2>1. Pair(r, c)
    BY <1>2, PairFacts
  <2> QED BY <1>1, <1>2, <2>1, PairFacts DEF Pair
<1>4. h.black = g.black /\ h.turn = Other(g.turn)
  BY <1>1, <1>2 DEF AfterMove, Games
<1>5. context \in [Clients -> Games]
  BY DEF TypesOK
<1>6. context'[k] = h /\ \A d \in Clients \ {k} : context'[d] = context[d]
  BY <1>2, <1>3, <1>5
<1>7. SideOf(c)' = SideOf(c) /\ SideOf(r)' = SideOf(r)
  BY <1>1, <1>2, <1>3, <1>4, <1>6 DEF SideOf
<1>8. Other(g.turn) # SideOf(c) /\ Other(g.turn) = SideOf(r)
  BY <1>2, <1>3 DEF Other, Sides
<1>9. MyMove(c)' = (h.turn = SideOf(c)') /\ MyMove(r)' = (h.turn = SideOf(r)')
  BY <1>2, <1>3, <1>6 DEF MyMove
<1> QED BY <1>1, <1>2, <1>4, <1>6, <1>7, <1>8, <1>9

LEMMA MoveViews ==
    ASSUME TypesOK, PairsOK, ViewsOK, NEW c \in Clients, NEW burst \in Bursts(c), NEW m,
           OnMove(c, burst, m)
    PROVE  ViewsOK'
<1>1. PICK r \in Clients : Played(c, r, m) /\ (GoesOn(c, r, m) \/ IsOver(c, r))
  BY MoveFacts
<1>2. /\ Pair(c, r) /\ r # c /\ Pair(r, c) /\ game[r] = game[c] /\ game[c] \in {c, r}
      /\ state[c] = "Gaming" /\ state[r] = "Gaming"
  BY <1>1, PairFacts DEF Played, Pair
<1>3. ASSUME NEW d \in Clients \ {c, r}, state[d] = "Gaming"
      PROVE  game[d] # game[c] /\ game[d] \in Clients
  <2>1. PICK e \in Clients : Pair(d, e)
    BY <1>3 DEF PairsOK
  <2>2. game[d] # game[c]
    <3>1. ASSUME game[d] = game[c]
          PROVE  FALSE
      <4>1. {d, e} = {c, r}
        BY <1>2, <2>1, <3>1, PairUnique
      <4> QED BY <4>1
    <3> QED BY <3>1
  <2> QED BY <2>1, <2>2, PairFacts
<1>4. OnMessage(c, burst, "Move")
  BY DEF OnMove, MoveArrives
<1>5. /\ "RemoteMove" \in ToClient /\ "MoveOK" \in ToClient /\ "GameOver" \in ToClient \ Matched
      /\ "RemoteMove" \in {"MoveOK", "MoveFailed", "RemoteMove"}
      /\ "MoveOK" \in {"MoveOK", "MoveFailed", "RemoteMove"}
      /\ "RemoteMove" \in Turns /\ "MoveOK" \in Turns /\ "RemoteMove" \in Yours /\ "MoveOK" \notin Yours
  BY DEF ToClient, Matched, Turns, Yours
<1>6. CASE GoesOn(c, r, m)
  <2>1. /\ ~MyMove(c)' /\ MyMove(r)' /\ state' = state /\ game' = game
        /\ \A d \in Clients \ {game[c]} : context'[d] = context[d]
    BY <1>1, <1>6, TurnPasses
  <2>2. /\ client[c] # "left" => out'[c] = out[c] \o <<"MoveOK">>
        /\ client[r] # "left" => out'[r] = out[r] \o <<"RemoteMove">>
        /\ \A d \in Clients \ {c, r} : out'[d] = out[d]
    <3>1. out' = Sent(Sent(out, r, <<"RemoteMove">>), c, <<"MoveOK">>)
      BY <1>6 DEF GoesOn
    <3>2. <<"RemoteMove">> \in Seq(ToClient) /\ <<"MoveOK">> \in Seq(ToClient)
      BY <1>5, Packets
    <3> QED BY <1>2, <3>1, <3>2, SentTwice
  <2>3. ASSUME NEW d \in Clients
        PROVE  Informed(d)
    <3>0. ViewOf(d)
      BY DEF ViewsOK
    <3>1. CASE d = c
      <4>1. IF "MoveOK" \in Turns THEN ("MoveOK" \in Yours) <=> MyMove(c)'
                                  ELSE MyMove(c) <=> MyMove(c)'
        BY <1>5, <2>1
      <4> QED BY <1>5, <2>1, <2>2, <3>0, <3>1, <4>1, ToldTheMove
    <3>2. CASE d = r
      <4>1. IF "RemoteMove" \in Turns THEN ("RemoteMove" \in Yours) <=> MyMove(r)'
                                      ELSE MyMove(r) <=> MyMove(r)'
        BY <1>5, <2>1
      <4> QED BY <1>5, <2>1, <2>2, <3>0, <3>2, <4>1, ToldTheMove
    <3>3. CASE d \notin {c, r}
      <4>1. state[d] = "Gaming" => context'[game[d]] = context[game[d]]
        BY <1>3, <2>1, <3>3
      <4>2. out'[d] = out[d] /\ state'[d] = state[d] /\ game'[d] = game[d]
        BY <2>1, <2>2, <3>3
      <4> QED BY <3>0, <4>1, <4>2, Untouched
    <3> QED BY <3>1, <3>2, <3>3
  <2> QED BY <1>4, <2>3, MessageViews
<1>7. CASE IsOver(c, r)
  <2>1. /\ state' = [state EXCEPT ![c] = "None", ![r] = "None"]
        /\ game' = [game EXCEPT ![c] = NoGame, ![r] = NoGame]
        /\ context' = [context EXCEPT ![game[c]] = NoContext]
        /\ out' = Sent(out, r, <<"GameOver">>)
    BY <1>7 DEF IsOver
  <2>2. /\ state \in [Clients -> {"new", "None", "Matching", "Gaming", "closed"}]
        /\ game \in [Clients -> Clients \cup {NoGame}] /\ context \in [Clients -> Games]
        /\ out \in [Clients -> Seq(ToClient)]
    BY DEF TypesOK, TypeOK
  <2>3. /\ Sent(out, r, <<"GameOver">>)[r] =
              IF client[r] = "left" THEN out[r] ELSE out[r] \o <<"GameOver">>
        /\ \A d \in Clients \ {r} : Sent(out, r, <<"GameOver">>)[d] = out[d]
    <3>1. <<"GameOver">> \in Seq(ToClient)
      BY <1>5, Packets
    <3> QED BY ZenonT(40), <2>2, <3>1, SentFacts
  <2>4. /\ state'[c] = "None" /\ state'[r] = "None"
        /\ client[r] # "left" => out'[r] = out[r] \o <<"GameOver">>
        /\ out'[c] = out[c]
        /\ \A d \in Clients \ {c, r} :
              out'[d] = out[d] /\ state'[d] = state[d] /\ game'[d] = game[d]
        /\ \A d \in Clients \ {game[c]} : context'[d] = context[d]
    BY <1>2, <2>1, <2>2, <2>3
  <2>5. ASSUME NEW d \in Clients
        PROVE  Informed(d)
    <3>0. ViewOf(d)
      BY DEF ViewsOK
    <3>1. CASE d = c
      <4> SUFFICES ASSUME client[d] # "left"
                   PROVE  View(out'[d], client[d], myTurn[d], state'[d] = "Gaming", MyMove(d)')
        BY DEF Informed
      <4>1. View(out[d], client[d], myTurn[d], state[d] = "Gaming", MyMove(d))
        BY <3>0 DEF ViewOf
      <4>2. View(out[d], client[d], myTurn[d], FALSE, MyMove(d)')
        BY <4>1, ViewUnlessPlays
      <4>3. (state'[d] = "Gaming") = FALSE
        BY <2>4, <3>1
      <4> QED BY <2>4, <3>1, <4>2, <4>3
    <3>2. CASE d = r
      <4>1. state'[r] # "Gaming"
        BY <2>4
      <4> QED BY <1>5, <2>4, <3>0, <3>2, <4>1, ToldTheEnd
    <3>3. CASE d \notin {c, r}
      <4>1. state[d] = "Gaming" => context'[game[d]] = context[game[d]]
        BY <1>3, <2>4, <3>3
      <4>2. out'[d] = out[d] /\ state'[d] = state[d] /\ game'[d] = game[d]
        BY <2>4, <3>3
      <4> QED BY <3>0, <4>1, <4>2, Untouched
    <3> QED BY <3>1, <3>2, <3>3
  <2> QED BY <1>4, <2>5, MessageViews
<1> QED BY <1>1, <1>6, <1>7

\* A packet that changes nothing for the players: at most a refusal is sent.
LEMMA QuietViews ==
    ASSUME TypesOK, ViewsOK, NEW c \in Clients, NEW burst \in Bursts(c), NEW packet,
           OnMessage(c, burst, packet), UNCHANGED players,
           out' = out \/ out' = Sent(out, c, <<"MoveFailed">>)
    PROVE  ViewsOK'
<1>1. out \in [Clients -> Seq(ToClient)] /\ <<"MoveFailed">> \in Seq(ToClient)
  BY Packets DEF TypesOK, TypeOK, ToClient
<1>2. /\ Sent(out, c, <<"MoveFailed">>)[c] =
            IF client[c] = "left" THEN out[c] ELSE out[c] \o <<"MoveFailed">>
      /\ \A d \in Clients \ {c} : Sent(out, c, <<"MoveFailed">>)[d] = out[d]
  BY ZenonT(40), <1>1, SentFacts
<1>3. state' = state /\ game' = game /\ context' = context
  BY DEF players
<1>4. ASSUME NEW d \in Clients
      PROVE  Informed(d)
  <2>0. ViewOf(d)
    BY DEF ViewsOK
  <2>1. CASE out'[d] = out[d]
    BY <1>3, <2>0, <2>1, Untouched
  <2>2. CASE out'[d] # out[d]
    <3>1. d = c /\ (client[d] # "left" => out'[d] = out[d] \o <<"MoveFailed">>)
      BY <1>2, <2>2
    <3>2. "MoveFailed" \in {"MoveOK", "MoveFailed", "RemoteMove"} /\ "MoveFailed" \notin Turns
      BY DEF Turns
    <3>3. MyMove(d)' = MyMove(d)
      BY <1>3 DEF MyMove, SideOf
    <3>4. IF "MoveFailed" \in Turns THEN ("MoveFailed" \in Yours) <=> MyMove(d)'
                                    ELSE MyMove(d) <=> MyMove(d)'
      BY <3>2, <3>3
    <3> QED BY <1>3, <2>0, <3>1, <3>2, <3>4, ToldTheMove
  <2> QED BY <2>1, <2>2
<1> QED BY <1>4, MessageViews

\* Whoever is not at a step keeps its view of a game that does not change.
LEMMA ViewKept ==
    ASSUME NEW c \in Clients, ViewOf(c), out'[c] = out[c], client'[c] = client[c],
           myTurn'[c] = myTurn[c], UNCHANGED players
    PROVE  ViewOf(c)'
<1>1. state' = state /\ MyMove(c)' = MyMove(c)
  BY DEF players, MyMove, SideOf
<1> QED BY <1>1 DEF ViewOf

LEMMA ReceiveViews ==
    ASSUME TypesOK, ViewsOK, NEW c \in Clients, ClientReceives(c)
    PROVE  ViewsOK'
<1>1. PICK p : p = Head(out[c])
  OBVIOUS
<1>2. /\ client[c] \notin {"off", "Over", "left"} /\ out[c] # << >> /\ UNCHANGED players
      /\ out' = [out EXCEPT ![c] = IF p = "RemoteLost" THEN << >> ELSE Tail(out[c])]
      /\ client' = [client EXCEPT ![c] = Knows(p, client[c])]
  BY <1>1 DEF ClientReceives, Knows
<1>3. myTurn' = [myTurn EXCEPT ![c] = Believes(p, myTurn[c])]
  BY <1>1 DEF ClientReceives, Believes
<1>4. /\ out \in [Clients -> Seq(ToClient)] /\ myTurn \in [Clients -> BOOLEAN]
      /\ client \in [Clients -> {"off", "None", "Matching", "Gaming", "Over", "left"}]
  BY DEF TypesOK, TypeOK
<1>5. /\ client'[c] = Knows(p, client[c]) /\ myTurn'[c] = Believes(p, myTurn[c])
      /\ p # "RemoteLost" => out'[c] = Tail(out[c])
      /\ \A d \in Clients \ {c} :
            out'[d] = out[d] /\ client'[d] = client[d] /\ myTurn'[d] = myTurn[d]
  BY <1>2, <1>3, <1>4
<1>6. ViewOf(c)'
  <2>1. CASE p = "RemoteLost"
    <3>1. client'[c] = "left"
      BY <1>5, <2>1 DEF Knows
    <3> QED BY <3>1 DEF ViewOf
  <2>2. CASE p # "RemoteLost"
    <3>1. View(out[c], client[c], myTurn[c], state[c] = "Gaming", MyMove(c))
      BY <1>2 DEF ViewsOK, ViewOf
    <3>2. View(Tail(out[c]), Knows(p, client[c]), Believes(p, myTurn[c]),
               state[c] = "Gaming", MyMove(c))
      <4>1. out[c] \in Seq(ToClient) /\ Head(out[c]) # "RemoteLost"
        BY <1>1, <1>4, <2>2
      <4> QED BY <1>1, <1>2, <3>1, <4>1, ViewReads
    <3>3. state' = state /\ MyMove(c)' = MyMove(c)
      BY <1>2 DEF players, MyMove, SideOf
    <3> QED BY <1>5, <2>2, <3>2, <3>3 DEF ViewOf
  <2> QED BY <2>1, <2>2
<1>7. ASSUME NEW d \in Clients \ {c}
      PROVE  ViewOf(d)'
  BY <1>2, <1>5, <1>7, ViewKept DEF ViewsOK
<1> QED BY <1>6, <1>7 DEF ViewsOK

LEMMA ViewsInductive ==
    ASSUME TypesOK, PairsOK, ViewsOK, [Next]_vars
    PROVE  ViewsOK'
<1>7. ASSUME Same
      PROVE  ViewsOK'
  <2>1. out' = out /\ client' = client /\ myTurn' = myTurn /\ UNCHANGED players
    BY <1>7 DEF Same, clients
  <2> QED BY <2>1, ViewKept DEF ViewsOK
<1>1. ASSUME NEW c \in Clients, NEW burst \in Bursts(c), OnPacket(c, burst)
      PROVE  ViewsOK'
  <2>1. CASE OnHeartbeat(c, burst)
    BY <2>1, QuietViews DEF OnHeartbeat
  <2>2. CASE OnUnknown(c, burst)
    <3>1. Close({c}) /\ {c} \in SUBSET Clients
      BY <2>2 DEF OnUnknown, CloseOne
    <3> QED BY <3>1, CloseViews
  <2>3. CASE OnLateMove(c, burst)
    BY <2>3, QuietViews DEF OnLateMove
  <2>4. CASE OnSecondStartMatch(c, burst)
    BY <2>4, QuietViews DEF OnSecondStartMatch
  <2>5. CASE OnStartMatch(c, burst)
    BY <2>5, WaitViews
  <2>6. ASSUME NEW v \in Clients, OnMatched(c, v, burst)
        PROVE  ViewsOK'
    BY <2>6, MatchViews
  <2>7. ASSUME NEW m \in Moves, OnMoveRefused(c, burst, m)
        PROVE  ViewsOK'
    <3>1. /\ OnMessage(c, burst, "Move") /\ UNCHANGED players
          /\ out' = Sent(out, c, <<"MoveFailed">>)
      BY <2>7 DEF OnMoveRefused, MoveArrives
    <3> QED BY <3>1, QuietViews
  <2>8. ASSUME NEW m \in Moves, OnMovePanics(c, burst, m)
        PROVE  ViewsOK'
    <3>1. OnMessage(c, burst, "Move") /\ UNCHANGED players /\ out' = out
      BY <2>8 DEF OnMovePanics, MoveArrives
    <3> QED BY <3>1, QuietViews
  <2>9. ASSUME NEW m \in Moves, OnMove(c, burst, m)
        PROVE  ViewsOK'
    BY <2>9, MoveViews
  <2>10. CASE OnTooLong(c, burst)
    BY <1>7, <2>10, SameSteps
  <2> QED BY <1>1, <2>1, <2>2, <2>3, <2>4, <2>5, <2>6, <2>7, <2>8, <2>9, <2>10 DEF OnPacket
<1>2. CASE OnTimeout
  <2>1. Close(Late) /\ Late \in SUBSET Clients
    BY <1>2 DEF OnTimeout, Late
  <2> QED BY <2>1, CloseViews
<1>3. ASSUME NEW c \in Clients, OnClose(c)
      PROVE  ViewsOK'
  <2>1. Close({c}) /\ {c} \in SUBSET Clients
    BY <1>3 DEF OnClose, CloseOne
  <2> QED BY <2>1, CloseViews
<1>4. ASSUME NEW c \in Clients, OnConnect(c)
      PROVE  ViewsOK'
  <2>1. /\ out' = out /\ client' = client /\ myTurn' = myTurn
        /\ game' = game /\ context' = context
        /\ \A d \in Clients : (state'[d] = "Gaming") = (state[d] = "Gaming")
    BY <1>4 DEF OnConnect, clients, TypesOK, TypeOK
  <2>2. \A d \in Clients : MyMove(d)' = MyMove(d)
    BY <2>1 DEF MyMove, SideOf
  <2>3. ASSUME NEW d \in Clients
        PROVE  ViewOf(d)'
    <3>1. ViewOf(d)
      BY DEF ViewsOK
    <3> QED BY <2>1, <2>2, <3>1 DEF ViewOf
  <2> QED BY <2>3 DEF ViewsOK
<1>5. ASSUME NEW c \in Clients, ClientReceives(c)
      PROVE  ViewsOK'
  BY <1>5, ReceiveViews
<1>6. ASSUME NEW c \in Clients, ClientLeaves(c)
      PROVE  ViewsOK'
  <2>1. /\ client'[c] = "left" /\ UNCHANGED players
        /\ \A d \in Clients \ {c} :
              out'[d] = out[d] /\ client'[d] = client[d] /\ myTurn'[d] = myTurn[d]
    BY <1>6 DEF ClientLeaves, TypesOK, TypeOK
  <2>2. ASSUME NEW d \in Clients
        PROVE  ViewOf(d)'
    <3>1. CASE d = c
      BY <2>1, <3>1 DEF ViewOf
    <3>2. CASE d # c
      BY <2>1, <3>2, ViewKept DEF ViewsOK
    <3> QED BY <3>1, <3>2
  <2> QED BY <2>2 DEF ViewsOK
<1> QED BY SameSteps, <1>1, <1>2, <1>3, <1>4, <1>5, <1>6, <1>7 DEF Next

\* Nobody has been told anything yet, and nobody plays.
LEMMA InitViews == Init => ViewsOK
<1> SUFFICES ASSUME Init, NEW c \in Clients
             PROVE  ViewOf(c)
  BY DEF ViewsOK
<1>1. out[c] = << >> /\ state[c] # "Gaming"
  BY DEF Init
<1>2. Introduced(<< >>, client[c])
  BY DEF Introduced
<1> QED BY <1>1, <1>2 DEF ViewOf, View

\* Who has read all that it was told knows that it plays and whose turn it is.
LEMMA ViewsImplyViewsAgree == TypesOK /\ ViewsOK => ViewsAgree
<1> SUFFICES ASSUME TypesOK, ViewsOK, NEW c \in Clients,
                    state[c] = "Gaming", out[c] = << >>, client[c] # "left"
             PROVE  client[c] = "Gaming" /\ myTurn[c] = MyMove(c)
  BY DEF ViewsAgree, MyMove
<1>1. View(<< >>, client[c], myTurn[c], TRUE, MyMove(c))
  <2>1. View(out[c], client[c], myTurn[c], state[c] = "Gaming", MyMove(c))
    BY DEF ViewsOK, ViewOf
  <2> QED BY <2>1
<1>2. Begun(<< >>, client[c]) /\ Tells(<< >>, myTurn[c], MyMove(c))
  BY <1>1 DEF View
<1>3. Len(<< >>) = 0 /\ 1..0 = {}
  OBVIOUS
<1>4. client[c] = "Gaming"
  BY <1>2, <1>3 DEF Begun
<1>5. myTurn[c] <=> MyMove(c)
  BY <1>2, <1>3 DEF Tells
<1>6. myTurn[c] \in BOOLEAN /\ MyMove(c) \in BOOLEAN
  BY DEF TypesOK, TypeOK, MyMove
<1> QED BY <1>4, <1>5, <1>6

\* A client that plays and has read everything the server sent it knows that
\* it plays, and whether it is its turn (handler.go:198-208, main.go:95-139),
\* however many packets are on their way and whoever leaves meanwhile.
THEOREM PlayersViewsAgree == Spec => []ViewsAgree
<1>1. Init => ViewsOK
  BY InitViews
<1>2. TypesOK /\ PairsOK /\ ViewsOK /\ [Next]_vars => ViewsOK'
  BY ViewsInductive
<1>3. TypesOK /\ ViewsOK => ViewsAgree
  BY ViewsImplyViewsAgree
<1> QED BY <1>1, <1>2, <1>3, PairsHold, PTL DEF Spec

=============================================================================
