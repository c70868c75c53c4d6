------------------------------ MODULE MCX2Client ------------------------------
(* Instances of X2Client for TLC. *)
EXTENDS X2Client

CONSTANTS o1, o2
=============================================================================
