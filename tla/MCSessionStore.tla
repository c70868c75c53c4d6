---------------------------- MODULE MCSessionStore ----------------------------
(* Instances of SessionStore for TLC. *)
EXTENDS SessionStore, TLC

CONSTANTS s1, s2, d1, d2, u1, u2

(* One user registers with a device, another without: a validation may name *)
(* the device and the user of the session, others, or none.                 *)
MCOwner == {<<d1, u1>>, <<Unknown, u2>>}

(* The ids of sessions are only compared. *)
MCSymmetry == Permutations({s1, s2})
=============================================================================
