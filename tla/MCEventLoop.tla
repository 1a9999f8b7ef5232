---------------------------- MODULE MCEventLoop ----------------------------
(***************************************************************************)
(* Instances of EventLoop for TLC: a loop goroutine L and two others, and  *)
(* which of the API calls each of them makes.                              *)
(***************************************************************************)
EXTENDS EventLoop, TLC

CONSTANTS L, g1, g2

MCOthers == {g1, g2}

\* A loop that is stopped, from another goroutine or from a callback, while
\* others ask it something.  The loop goroutine makes no call that waits on
\* itself.
StoppingOps == (L :> {"RunInLoop", "Stop"})
               @@ (g1 :> {"Stop"}) @@ (g2 :> {"RunAt"})

\* examples/timer/main.go: the goroutine that will call Loop() calls RunAt.
TimerExampleOps == (L :> {"RunAt"}) @@ (g1 :> {}) @@ (g2 :> {})
=============================================================================
