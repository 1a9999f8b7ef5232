-------------------------- MODULE MCTCPConnection --------------------------
(***************************************************************************)
(* Instances of TCPConnection for TLC: which API calls the user code makes *)
(* in which callback.                                                      *)
(***************************************************************************)
EXTENDS TCPConnection, TLC

Symmetry == Permutations(Conns)

NoOps == [cb \in Callbacks |-> {}]

\* Most calls from most callbacks, but the write-complete callback does not
\* both send and shut down.
CalmOps == [NoOps EXCEPT !["connected"] = {"Send", "ShutdownWrite", "SetOption"},
                         !["message"] = Ops,
                         !["writeComplete"] = {"Send", "ForceClose", "SetOption"},
                         !["disconnected"] = {"Send", "SetOption"},
                         !["functor"] = Ops]

\* Calls in every callback, those where the code does not expect them too.
HostileOps == [cb \in Callbacks |->
    IF cb = "disconnected" THEN {"Send"} ELSE Ops \ {"SetOption"}]

\* An echo server without further callbacks.
EchoOps == [NoOps EXCEPT !["message"] = {"Send"}]
=============================================================================
