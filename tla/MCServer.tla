------------------------------ MODULE MCServer ------------------------------
(* Instances of Server.                                                    *)
EXTENDS Server

CONSTANTS w1, w2, w3
ThreeWorkers == <<w1, w2, w3>>
=============================================================================
