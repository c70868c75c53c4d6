--------------------------- MODULE MCSnapshotStream ---------------------------
(* Instances of SnapshotStream for TLC. *)
EXTENDS SnapshotStream

CONSTANTS p1, p2, u1, u2
=============================================================================
