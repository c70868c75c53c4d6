------------------------------ MODULE MCBridge ------------------------------
(* A small instance of Bridge. *)
EXTENDS Bridge
=============================================================================
