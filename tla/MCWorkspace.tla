----------------------------- MODULE MCWorkspace -----------------------------
(* A small instance of Workspace: an operator of X2, and a user who sets   *)
(* flags and supervises the desktops.                                      *)
EXTENDS Workspace, TLC

Person(permissions) == [authenticated |-> TRUE, user |-> TRUE, permissions |-> permissions]

MCProfiles == { Person({permission}) : permission \in {"x2_connection", "control_flags", "manage_users"} }

(* A pit lane with a broken coordinate, and a lap of five points; three    *)
(* sectors wherever they may lie, one of them not in the order of the lap  *)
(* or without a place or an id.                                            *)
Lap   == << <<0, 0>>, <<0, 30>>, <<20, 30>>, <<20, 10>>, <<10, 0>> >>
Pits  == << <<0, 0>>, <<>>, <<-5, 10>>, <<-5, 20>>, <<0, 30>>, <<5, 35>>, <<6, 35>>, <<6, 36>> >>
Spots == { <<>>, <<0, 1>>, <<1, 29>>, <<19, 28>>, <<21, 9>>, <<10, -1>> }

MCTracks ==
  { [track |-> [paths   |-> << [main |-> FALSE, points |-> Pits], [main |-> TRUE, points |-> Lap] >>,
                lines   |-> << [start |-> <<0, 15>>, end |-> <<-1, 15>>] >>,
                sectors |-> << [id |-> 1, at |-> a], [id |-> 2, at |-> b], [id |-> last, at |-> c] >>],
     flags |-> (1 :> 2) @@ (3 :> 5)] :
    a \in Spots, b \in Spots, c \in Spots, last \in {0, 3} }

(* The hypothesis of the theorem MapSafety. *)
ASSUME MCEdgesApart == EdgesApart
=============================================================================
