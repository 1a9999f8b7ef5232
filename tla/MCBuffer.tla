------------------------------ MODULE MCBuffer ------------------------------
(***************************************************************************)
(* Instances of Buffer for TLC.  The buffer never looks at a byte, so the  *)
(* bytes are interchangeable.                                              *)
(***************************************************************************)
EXTENDS Buffer, TLC

Symmetry == Permutations(Byte)
=============================================================================
