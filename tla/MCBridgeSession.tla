---- MODULE MCBridgeSession ----
(***************************************************************************)
(* Both front ends.  Two resets may be asked for and one frame lost; the    *)
(* sim shows a reset at most one frame late, well within the wait.          *)
(***************************************************************************)
EXTENDS BridgeSession

MCFrontEnds == {TRUE, FALSE}
====
