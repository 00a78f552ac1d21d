---- MODULE SafetyGate ----
(***************************************************************************)
(* What racing_safety_supervisor promises the vehicle, without its queues, *)
(* its timer or the fields of a command.  The gate stands between whoever  *)
(* commands the vehicle and the vehicle.  It publishes either a standstill *)
(* or a moving command, and a moving one only while it is not halted and   *)
(* has heard its commander, or been released, within Timeout.              *)
(***************************************************************************)
EXTENDS Integers

CONSTANT Timeout      \* how long the commander may stay silent

VARIABLES
    now,              \* time
    heard,            \* when the commander was last heard, or the gate released
    halted,           \* an emergency stop is latched
    moving            \* the standing command makes the vehicle move

gateVars == <<now, heard, halted, moving>>

GateInit ==
    /\ now \in Int
    /\ heard = now
    /\ halted = FALSE
    /\ moving = FALSE

Advance ==
    /\ now' \in Int
    /\ now' > now
    /\ UNCHANGED <<heard, halted, moving>>

\* Hearing the commander rearms the gate's patience and nothing else: in
\* particular it never releases a halt.
Hear ==
    /\ heard' = now
    /\ UNCHANGED <<now, halted, moving>>

Halt ==
    /\ halted' = TRUE
    /\ UNCHANGED <<now, heard, moving>>

\* The only way out of a halt.
Release ==
    /\ halted' = FALSE
    /\ heard' = now
    /\ UNCHANGED <<now, moving>>

PublishMoving ==
    /\ ~halted
    /\ now - heard <= Timeout
    /\ moving' = TRUE
    /\ UNCHANGED <<now, heard, halted>>

\* A standstill may be published at any time, and may latch a halt.
PublishStandstill ==
    /\ moving' = FALSE
    /\ halted' \in {halted, TRUE}
    /\ UNCHANGED <<now, heard>>

GateNext ==
    \/ Advance
    \/ Hear
    \/ Halt
    \/ Release
    \/ PublishMoving
    \/ PublishStandstill

GateSpec == GateInit /\ [][GateNext]_gateVars
====
