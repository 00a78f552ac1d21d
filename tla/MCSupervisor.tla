---- MODULE MCSupervisor ----
(***************************************************************************)
(* A supervisor of two limited fields, speed and steering.  The controller  *)
(* sends a command within the limits, one beyond them, and one that is not  *)
(* a number.  Timeout is longer than Period, as in the code (100 and 10     *)
(* ms), and MaxTime leaves room for a command to go stale, be cleared and   *)
(* go stale again.                                                          *)
(***************************************************************************)
EXTENDS Supervisor

MCFields == {"SPEED", "STEERING"}
MCLimit == [f \in MCFields |-> 1]
MCCommands ==
    {[f \in MCFields |-> IF f = "SPEED" THEN 1 ELSE 0],
     [f \in MCFields |-> IF f = "SPEED" THEN 2 ELSE -1],
     [f \in MCFields |-> IF f = "SPEED" THEN 0 ELSE NaN]}
====
