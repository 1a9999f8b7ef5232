---------------------------- MODULE MCChessServer ----------------------------
(* Instances of ChessServer, and the rules against what is known of them.  *)
EXTENDS ChessServer

M(x1, y1, x2, y2) == [from |-> <<x1, y1>>, to |-> <<x2, y2>>]

\* Red's Pao goes to the middle and then takes the Shuai over two Bing; a black
\* Bing steps forward; red's other Pao jumps to an empty point.
ShortGame == {M(7, 2, 4, 2), M(4, 2, 4, 9), M(0, 6, 0, 5), M(1, 2, 1, 8)}

\* The moves that DoMove makes on a table, for one side.
MovesOn(table, side) ==
    {m \in [from : DOMAIN table, to : Points] :
        /\ MoveOK(side, table, m.from, m.to)
        /\ ~DoMovePanics(side, table, m.from, m.to)}

\* The moves of a red piece that is alone on the table, from the points P.
Lone(type, P) ==
    UNION {MovesOn([p \in {from} |-> [side |-> "red", type |-> type]], "red") : from \in P}
OwnHalf == {p \in Points : ~IsCrossedRiver("red", p)}
Turned(p) == <<8 - p[1], 9 - p[2]>>

\* Either side has 44 moves in the opening, and they are the same ones seen
\* from the other end of the table.
ASSUME OpeningMoves ==
    /\ Cardinality(MovesOn(NewDefaultChessTable, "red")) = 44
    /\ MovesOn(NewDefaultChessTable, "black") =
         {[from |-> Turned(m.from), to |-> Turned(m.to)] :
             m \in MovesOn(NewDefaultChessTable, "red")}

\* How many moves each piece has, from every point where it may stand: a Ma as
\* a knight on 9 x 10 points, Che and Pao 8 + 9 from everywhere, a Xiang as the
\* diagonals of 9 x 5 points, a Shi between the middle and four corners, a Shuai
\* between neighbours of 3 x 3 points, a Bing forwards and, across the river,
\* sideways.
ASSUME LoneMoves ==
    /\ Cardinality(Lone("Ma", Points)) = 508
    /\ Cardinality(Lone("Che", Points)) = 90 * 17
    /\ Cardinality(Lone("Pao", Points)) = 90 * 17
    /\ Cardinality(Lone("Xiang", OwnHalf)) = 84
    /\ Cardinality(Lone("Shi", ShiPoints("red"))) = 8
    /\ Cardinality(Lone("Shuai", {p \in Points : InPalace("red", p)})) = 24
    /\ Cardinality(Lone("Bing", Points)) = 9 * 9 + 5 * 16
=============================================================================
