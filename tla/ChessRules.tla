----------------------------- MODULE ChessRules -----------------------------
(***************************************************************************)
(* The table of the Chinese chess example and the rules its server applies *)
(* (backend/common_packets/chess.go, backend/tools/chess.go).              *)
(*                                                                         *)
(* A point is <<x, y>>, the lower left corner <<0, 0>>, red at the bottom. *)
(* A table is a function from the points that hold a piece to the piece:   *)
(* a nil entry of ChessTable is a point outside its domain.                *)
(***************************************************************************)
EXTENDS Integers

Sides == {"red", "black"}
Types == {"Che", "Ma", "Xiang", "Shi", "Shuai", "Pao", "Bing"}
Piece == [side : Sides, type : Types]
Points == (0..8) \X (0..9)

Other(side) == IF side = "red" THEN "black" ELSE "red"

\* SetPoint at `to' after ClearPoint at `from'.
Moved(table, from, to) ==
    [p \in (DOMAIN table \ {from}) \cup {to} |->
        IF p = to THEN table[from] ELSE table[p]]

\* The first row of each side, and the columns of its Pao and its Bing.
FirstRow == <<"Che", "Ma", "Xiang", "Shi", "Shuai", "Shi", "Xiang", "Ma", "Che">>
Start(side, row, type) ==
    LET y == IF side = "red" THEN row ELSE 9 - row
        xs == CASE row = 0 -> {x \in 0..8 : FirstRow[x + 1] = type}
                [] row = 2 -> IF type = "Pao" THEN {1, 7} ELSE {}
                [] row = 3 -> IF type = "Bing" THEN {0, 2, 4, 6, 8} ELSE {}
    IN {<<x, y>> : x \in xs}

NewDefaultChessTable ==
    LET At(side, type) == UNION {Start(side, row, type) : row \in {0, 2, 3}}
        Occupied == UNION {At(s, t) : s \in Sides, t \in Types}
    IN [p \in Occupied |->
          CHOOSE piece \in Piece : p \in At(piece.side, piece.type)]

-----------------------------------------------------------------------------
Abs(n) == IF n < 0 THEN -n ELSE n
Dx(from, to) == to[1] - from[1]
Dy(from, to) == to[2] - from[2]

IsPointCrossRange(p) == p \notin Points
IsCrossedRiver(side, p) == IF side = "red" THEN p[2] >= 5 ELSE p[2] <= 4
IsSameLine(from, to) == from[1] = to[1] \/ from[2] = to[2]
OwnAt(table, side, p) == p \in DOMAIN table /\ table[p].side = side

\* The points strictly between two points of one line.
Strictly(a, b) == {n \in 0..9 : (a < n /\ n < b) \/ (b < n /\ n < a)}
Between(from, to) ==
    IF from[1] = to[1] THEN {from[1]} \X Strictly(from[2], to[2])
                       ELSE Strictly(from[1], to[1]) \X {from[2]}
HasChessBetweenTwoPoints(table, from, to) ==
    Between(from, to) \cap DOMAIN table # {}

\* The points where a Shi may stand, and the palace of a Shuai.
ShiPoints(side) ==
    IF side = "red" THEN {<<3, 0>>, <<5, 0>>, <<4, 1>>, <<3, 2>>, <<5, 2>>}
                    ELSE {<<3, 9>>, <<5, 9>>, <<4, 8>>, <<3, 7>>, <<5, 7>>}
InPalace(side, p) ==
    p[1] \in 3..5 /\ IF side = "red" THEN p[2] <= 2 ELSE p[2] >= 7

\* One step, sideways only across the river, and never backwards.
BingMoves(side, from, to) ==
    /\ Abs(Dx(from, to)) + Abs(Dy(from, to)) = 1
    /\ IsCrossedRiver(side, from) \/ Dx(from, to) = 0
    /\ IF side = "red" THEN Dy(from, to) >= 0 ELSE Dy(from, to) <= 0

\* Along a line to an empty point, or over any number of pieces to an enemy.
PaoMoves(table, side, from, to) ==
    /\ IsSameLine(from, to)
    /\ IF HasChessBetweenTwoPoints(table, from, to)
       THEN ~OwnAt(table, side, to)
       ELSE to \notin DOMAIN table

\* Over a piece to an empty point the code reads the side of a nil piece.
PaoPanics(table, from, to) ==
    /\ IsSameLine(from, to)
    /\ HasChessBetweenTwoPoints(table, from, to)
    /\ to \notin DOMAIN table

CheMoves(table, side, from, to) ==
    /\ IsSameLine(from, to)
    /\ ~HasChessBetweenTwoPoints(table, from, to)
    /\ ~OwnAt(table, side, to)

\* The point in the middle of a step of two: a Ma's leg, a Xiang's eye.
Middle(from, to) == <<from[1] + (IF Abs(Dx(from, to)) = 2 THEN Dx(from, to) \div 2 ELSE 0),
                      from[2] + (IF Abs(Dy(from, to)) = 2 THEN Dy(from, to) \div 2 ELSE 0)>>

MaMoves(table, from, to) ==
    /\ {Abs(Dx(from, to)), Abs(Dy(from, to))} = {1, 2}
    /\ Middle(from, to) \notin DOMAIN table

XiangMoves(table, side, from, to) ==
    /\ Abs(Dx(from, to)) = 2 /\ Abs(Dy(from, to)) = 2
    /\ ~IsCrossedRiver(side, to)
    /\ Middle(from, to) \notin DOMAIN table

ShiMoves(side, from, to) ==
    /\ to \in ShiPoints(side)
    /\ Abs(Dx(from, to)) <= 1 /\ Abs(Dy(from, to)) <= 1

\* A Shuai takes the one it faces, or goes one step in its palace.
ShuaiMoves(table, side, from, to) ==
    \/ /\ to \in DOMAIN table /\ table[to].type = "Shuai"
       /\ IsSameLine(from, to)
       /\ ~HasChessBetweenTwoPoints(table, from, to)
    \/ /\ InPalace(side, to)
       /\ Abs(Dx(from, to)) + Abs(Dy(from, to)) = 1
       /\ ~OwnAt(table, side, to)

-----------------------------------------------------------------------------
(* DoMove(side, table, from, to).                                          *)

\* What is tested whatever the piece.
Movable(side, table, from, to) ==
    /\ ~IsPointCrossRange(from) /\ ~IsPointCrossRange(to)
    /\ OwnAt(table, side, from)
    /\ from # to

DoMovePanics(side, table, from, to) ==
    /\ Movable(side, table, from, to)
    /\ table[from].type = "Pao"
    /\ PaoPanics(table, from, to)

\* moveok.  Che and Shuai alone look for an own piece at `to' in every case.
MoveOK(side, table, from, to) ==
    /\ Movable(side, table, from, to)
    /\ CASE table[from].type = "Bing"  -> BingMoves(side, from, to)
         [] table[from].type = "Pao"   -> PaoMoves(table, side, from, to)
         [] table[from].type = "Che"   -> CheMoves(table, side, from, to)
         [] table[from].type = "Ma"    -> MaMoves(table, from, to)
         [] table[from].type = "Xiang" -> XiangMoves(table, side, from, to)
         [] table[from].type = "Shi"   -> ShiMoves(side, from, to)
         [] table[from].type = "Shuai" -> ShuaiMoves(table, side, from, to)

\* gameover: SetPoint returned a Shuai.  For a Shuai that moves, the answer is
\* true exactly when it takes the other one: that point is always on its line.
GameOver(table, to) == to \in DOMAIN table /\ table[to].type = "Shuai"

=============================================================================
