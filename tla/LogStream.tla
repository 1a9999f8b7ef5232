------------------------------ MODULE LogStream ------------------------------
(***************************************************************************)
(* What pkg/async_log promises, without buffers, lock or background        *)
(* goroutine: lines reach the file in the order of the Logf calls, each at *)
(* most once, and none is skipped unless a write to the file fails.        *)
(* AsyncLog implements it.                                                 *)
(***************************************************************************)
EXTENDS Integers, Sequences

CONSTANTS
    Line,          \* the lines that may be logged
    DiskFails      \* whether a write may fail

VARIABLES
    pending,       \* logged and not yet written, oldest first
    written        \* what is in the file

Init ==
    /\ pending = << >>
    /\ written = << >>

Log(line) ==
    /\ pending' = Append(pending, line)
    /\ UNCHANGED written

\* The n oldest lines are written, or the first k of them if the write fails.
Flush(n, k) ==
    /\ n = k \/ DiskFails
    /\ pending' = SubSeq(pending, n + 1, Len(pending))
    /\ written' = written \o SubSeq(pending, 1, k)

Next ==
    \/ \E line \in Line : Log(line)
    \/ \E n \in 1..Len(pending) : \E k \in 0..n : Flush(n, k)

Spec == Init /\ [][Next]_<<pending, written>>

=============================================================================
