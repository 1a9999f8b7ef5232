----------------------------- MODULE MCAsyncLog -----------------------------
(***************************************************************************)
(* The instance of AsyncLog for TLC.                                       *)
(***************************************************************************)
EXTENDS AsyncLog
=============================================================================
