---- MODULE MCGymSim ----
(***************************************************************************)
(* The simulator at 2x: a 1x tick has two wall units, the timer fires every *)
(* one.  The executor may be one unit late, so the timer can be a whole     *)
(* period behind.                                                           *)
(***************************************************************************)
EXTENDS GymSim
====
