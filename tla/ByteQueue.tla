------------------------------ MODULE ByteQueue ------------------------------
(***************************************************************************)
(* What pkg/buffer promises to the connections that read from it and write *)
(* to it: a queue of bytes.  Every step is a call, which is given bytes or *)
(* takes some; both are seen by the caller, so the queue has no choice.    *)
(***************************************************************************)
EXTENDS Integers, Sequences

VARIABLES
    queue,        \* the bytes put in and not yet taken out
    given,        \* the bytes that the last call put in
    taken         \* how many bytes the last call took out

Init == queue = << >> /\ given = << >> /\ taken = 0

\* The bytes given go in at the end, as they are.
Put ==
    /\ taken' = 0
    /\ queue' = queue \o given'

\* The bytes taken leave at the front.
Take ==
    /\ given' = << >>
    /\ taken' \in 0..Len(queue)
    /\ queue' = SubSeq(queue, taken' + 1, Len(queue))

Spec == Init /\ [][Put \/ Take]_<<queue, given, taken>>
=============================================================================
