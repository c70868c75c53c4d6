-------------------------- MODULE MCSectorAutoClear --------------------------
(* Instances of SectorAutoClear for TLC. *)
EXTENDS SectorAutoClear


CONSTANTS o1, o2

MCTrack1 == <<1>>

(* Track orders that differ from the order of the ids. *)
MCTrack2 == <<2, 1>>
MCTrack3 == <<1, 3, 2>>
=============================================================================
