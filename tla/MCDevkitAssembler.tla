------------------------- MODULE MCDevkitAssembler -------------------------
(***************************************************************************)
(* Four of the thirteen topics: the first, the two that carry the position, *)
(* and the lidar, whose sequence is behind the others' since the first      *)
(* burst of a headless simulator has none.                                  *)
(***************************************************************************)
EXTENDS DevkitAssembler

MCTopics == <<"throttle", "ips", "odom", "lidar">>
MCLocated == {"ips", "odom"}
MCShift == [topic \in {"throttle", "ips", "odom", "lidar"} |-> IF topic = "lidar" THEN 0 ELSE 1]
MCRestarts == {0, 4}
NoRestart == {0}
MCStalls == {{3}}
NoStall == {{}}
=============================================================================
