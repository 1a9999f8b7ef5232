---------------------------- MODULE MCTimerQueue ----------------------------
(***************************************************************************)
(* Instances of TimerQueue for TLC: where user code adds and cancels.      *)
(***************************************************************************)
EXTENDS TimerQueue

Nowhere == {}
OutsideOrCallback == {"idle", "callback"}
=============================================================================
