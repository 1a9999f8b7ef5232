---------------------------- MODULE LoopExecutor ----------------------------
(***************************************************************************)
(* What an event loop promises to the goroutines that hand work to it,     *)
(* without eventfd, epoll, the two functor slices or the Loop() iteration: *)
(* one queue of tasks, run from its head, and the set of goroutines that   *)
(* are blocked until their task has run.  EventLoop implements it.         *)
(***************************************************************************)
EXTENDS Sequences

CONSTANTS
    Task,          \* the tasks that may be submitted: records, whose field
                   \* `from' is the goroutine that submits the task
    SyncTask       \* those whose submitter waits for the answer

VARIABLES
    pending,       \* submitted and not yet run, oldest first
    blocked        \* goroutines waiting for an answer

Init ==
    /\ pending = << >>
    /\ blocked = {}

\* A goroutine that is not itself blocked hands over a task.
Submit(f) ==
    /\ f.from \notin blocked
    /\ pending' = Append(pending, f)
    /\ blocked' = IF f \in SyncTask THEN blocked \cup {f.from} ELSE blocked

\* The oldest task runs; if its submitter waits for the answer, it is released.
RunOldest ==
    /\ pending # << >>
    /\ pending' = Tail(pending)
    /\ blocked' = IF Head(pending) \in SyncTask
                  THEN blocked \ {Head(pending).from}
                  ELSE blocked

Next == RunOldest \/ \E f \in Task : Submit(f)

Spec == Init /\ [][Next]_<<pending, blocked>>

=============================================================================
