---- MODULE Supervisor ----
(***************************************************************************)
(* racing_safety_supervisor: the node between the controller and the       *)
(* vehicle.  src/supervisor.cpp decides, src/node.cpp holds the last        *)
(* command and the last pose and asks for a decision on a timer of the ROS  *)
(* clock.  One single-threaded executor runs every callback, so a callback  *)
(* is one action; the order of callbacks that are ready together, and how   *)
(* late each one runs, is free up to MaxLag.                                *)
(*                                                                          *)
(* Abstractions: a command is a function from fields to integers (or NaN);  *)
(* a pose is the one bit the policy reads of it, whether the vehicle is     *)
(* inside the track; the clamp bit mask is the set of its bits.             *)
(***************************************************************************)
EXTENDS Integers, Sequences

CONSTANTS
    Fields,           \* the fields of a drive command that are limited
    Limit,            \* Limit[f]: the largest magnitude of field f
    NaN,              \* a floating-point value that is not a number
    Commands,         \* the commands a controller may send
    Timeout,          \* stale_input_timeout_ms
    Period,           \* control_period_ms
    Depth,            \* history depth of /controller/drive
    HeartbeatModulus, \* the heartbeat is an unsigned counter of this size
    MaxLag,           \* how late the executor may run a callback that is due
    MaxTime           \* bound of the model: time stops here

Value == Int \cup {NaN}
Command == [Fields -> Value]

ASSUME SupervisorAssumption ==
    /\ NaN \notin Int
    /\ Limit \in [Fields -> Nat]
    /\ Commands \subseteq Command
    /\ Timeout \in Nat
    /\ Period \in Nat \ {0}
    /\ Depth \in Nat \ {0}
    /\ HeartbeatModulus \in Nat \ {0, 1}
    /\ MaxLag \in Nat
    /\ MaxTime \in Nat

ASSUME BitsAreDistinct == Fields \cap {"TRACK_LIMIT", "STALE_INPUT", "ESTOP"} = {}

VARIABLES
    now,              \* the node's ROS clock
    nextCall,         \* when the control timer is due
    inbox,            \* /controller/drive messages not yet handled
    command,          \* command_: the fields of the last command handled
    receivedAt,       \* command_.received_at
    hasCommand,       \* command_.has_command
    inside,           \* the last pose handled is inside the track
    latched,          \* emergency_stop_latched_
    drive,            \* the last /drive, the vehicle's standing command
    status,           \* the last /safety/status
    heartbeat,        \* heartbeat_
    lastSent,         \* history: when the controller last sent a command
    lastClear,        \* history: when the stop was last cleared
    stoppedAt         \* history: when the standing stop was first demanded

vars == <<now, nextCall, inbox, command, receivedAt, hasCommand, inside,
          latched, drive, status, heartbeat, lastSent, lastClear, stoppedAt>>

inputVars == <<inbox, command, receivedAt, hasCommand, inside>>
outputVars == <<drive, status, heartbeat, nextCall>>
historyVars == <<lastSent, lastClear, stoppedAt>>

----------------------------------------------------------------------------
(* The decision: supervisor.cpp *)

Stopped == [f \in Fields |-> 0]

\* std::clamp compares, and every comparison with NaN is false.
ClampField(v, limit) ==
    IF v = NaN THEN v
    ELSE IF v < -limit THEN -limit
    ELSE IF v > limit THEN limit
    ELSE v

\* Mutant of ClampedFields: reports only a field that compares out of range.
MutantClampedFields(c) ==
    {f \in Fields : c[f] # NaN /\ ClampField(c[f], Limit[f]) # c[f]}

\* `clamped != field`: true of a field that was moved, and of NaN.
ClampedFields(c) == {f \in Fields : c[f] = NaN \/ ClampField(c[f], Limit[f]) # c[f]}

Clamped(c) == [f \in Fields |-> ClampField(c[f], Limit[f])]

Stale == hasCommand /\ now - receivedAt > Timeout

----------------------------------------------------------------------------
(* The node's callbacks: node.cpp *)

Init ==
    /\ now = 0
    /\ nextCall = Period
    /\ inbox = <<>>
    /\ command = Stopped
    /\ receivedAt = 0
    /\ hasCommand = FALSE
    /\ inside = TRUE
    /\ latched = FALSE
    /\ drive = [stamp |-> 0, fields |-> Stopped]
    /\ status = [stamp |-> 0, validUntil |-> 0, clamps |-> {}, reason |-> "NONE"]
    /\ heartbeat = 0
    /\ lastSent = 0
    /\ lastClear = 0
    /\ stoppedAt = 0

\* The controller publishes.  The subscription keeps the last Depth messages;
\* sentAt is history, the supervisor never reads a command's stamp.
SendCommand(c) ==
    /\ inbox' = Append(IF Len(inbox) = Depth THEN Tail(inbox) ELSE inbox,
                       [fields |-> c, sentAt |-> now])
    /\ lastSent' = now
    /\ UNCHANGED <<now, command, receivedAt, hasCommand, inside, latched,
                   lastClear, stoppedAt>>
    /\ UNCHANGED outputVars

\* The /controller/drive callback: freshness is the time of receipt.
HandleCommand ==
    /\ inbox # <<>>
    /\ command' = Head(inbox).fields
    /\ receivedAt' = now
    /\ hasCommand' = TRUE
    /\ inbox' = Tail(inbox)
    /\ UNCHANGED <<now, inside, latched>>
    /\ UNCHANGED outputVars
    /\ UNCHANGED historyVars

\* Mutant of HandleOdometry: any input counts as a fresh one.
MutantHandleOdometry ==
    /\ inside' = ~inside
    /\ receivedAt' = now
    /\ UNCHANGED <<now, inbox, command, hasCommand, latched>>
    /\ UNCHANGED outputVars
    /\ UNCHANGED historyVars

\* Second mutant of HandleOdometry: the stop ends once the vehicle is back.
MutantHandleReturn ==
    /\ inside' = ~inside
    /\ latched' = (latched /\ ~inside')
    /\ UNCHANGED <<now, inbox, command, receivedAt, hasCommand>>
    /\ UNCHANGED outputVars
    /\ UNCHANGED historyVars

\* The /ground_truth/odom callback.
HandleOdometry ==
    /\ inside' = ~inside
    /\ UNCHANGED <<now, inbox, command, receivedAt, hasCommand, latched>>
    /\ UNCHANGED outputVars
    /\ UNCHANGED historyVars

\* ~/emergency_stop
EmergencyStop ==
    /\ latched' = TRUE
    /\ stoppedAt' = IF latched THEN stoppedAt ELSE now
    /\ UNCHANGED <<now, lastSent, lastClear>>
    /\ UNCHANGED inputVars
    /\ UNCHANGED outputVars

\* Mutant of ClearEmergencyStop: the stop is cleared, the staleness is not.
MutantClearEmergencyStop ==
    /\ latched' = FALSE
    /\ lastClear' = now
    /\ UNCHANGED <<now, lastSent, stoppedAt>>
    /\ UNCHANGED inputVars
    /\ UNCHANGED outputVars

\* ~/clear_emergency_stop: the last command, however old, is fresh again.
ClearEmergencyStop ==
    /\ latched' = FALSE
    /\ receivedAt' = now
    /\ lastClear' = now
    /\ UNCHANGED <<now, inbox, command, hasCommand, inside, lastSent, stoppedAt>>
    /\ UNCHANGED outputVars

NextHeartbeat(h) == (h + 1) % HeartbeatModulus

\* rcl moves a timer to the first multiple of its period after the call it
\* serves that is not already past.
Reschedule ==
    \E t \in now .. now + Period :
        /\ t > nextCall
        /\ (t - nextCall) % Period = 0
        /\ t - Period = nextCall \/ t - Period < now
        /\ nextCall' = t

Publish(fields, clamps, reason) ==
    /\ drive' = [stamp |-> now, fields |-> fields]
    /\ status' = [stamp |-> now, validUntil |-> now + Period,
                  clamps |-> clamps, reason |-> reason]
    /\ heartbeat' = NextHeartbeat(heartbeat)
    /\ Reschedule
    /\ UNCHANGED inputVars
    /\ UNCHANGED <<now, lastSent, lastClear>>

TimerDue == now >= nextCall

EvaluateStale ==
    /\ TimerDue
    /\ Stale
    /\ latched' = TRUE
    /\ stoppedAt' = IF latched THEN stoppedAt ELSE now
    /\ Publish(Stopped, {"STALE_INPUT", "ESTOP"}, "STALE_INPUT")

EvaluateLatched ==
    /\ TimerDue
    /\ ~Stale
    /\ latched
    /\ Publish(Stopped, {"ESTOP"}, "ESTOP_LATCHED")
    /\ UNCHANGED <<latched, stoppedAt>>

EvaluateOffTrack ==
    /\ TimerDue
    /\ ~Stale
    /\ ~latched
    /\ ~inside
    /\ Publish(Stopped, {"TRACK_LIMIT"}, "TRACK_LIMIT")
    /\ UNCHANGED <<latched, stoppedAt>>

\* Mutant of EvaluatePass: the latch is not looked at.
MutantEvaluatePass ==
    /\ TimerDue
    /\ ~Stale
    /\ inside
    /\ Publish(Clamped(command), ClampedFields(command),
               IF ClampedFields(command) = {} THEN "NONE" ELSE "COMMAND_LIMIT")
    /\ UNCHANGED <<latched, stoppedAt>>

EvaluatePass ==
    /\ TimerDue
    /\ ~Stale
    /\ ~latched
    /\ inside
    /\ Publish(Clamped(command), ClampedFields(command),
               IF ClampedFields(command) = {} THEN "NONE" ELSE "COMMAND_LIMIT")
    /\ UNCHANGED <<latched, stoppedAt>>

\* Time passes, by any amount a /clock message or the wall may bring, but no
\* callback waits longer than MaxLag once it is due.
Tick ==
    \E t \in now + 1 .. MaxTime :
        /\ t <= nextCall + MaxLag
        /\ \A i \in 1 .. Len(inbox) : t <= inbox[i].sentAt + MaxLag
        /\ now' = t
        /\ UNCHANGED latched
        /\ UNCHANGED inputVars
        /\ UNCHANGED outputVars
        /\ UNCHANGED historyVars

Evaluate ==
    \/ EvaluateStale
    \/ EvaluateLatched
    \/ EvaluateOffTrack
    \/ EvaluatePass

Next ==
    \/ \E c \in Commands : SendCommand(c)
    \/ HandleCommand
    \/ HandleOdometry
    \/ EmergencyStop
    \/ ClearEmergencyStop
    \/ Evaluate
    \/ Tick

Spec == Init /\ [][Next]_vars

----------------------------------------------------------------------------
(* Properties *)

Bits == Fields \cup {"TRACK_LIMIT", "STALE_INPUT", "ESTOP"}
Reasons == {"NONE", "TRACK_LIMIT", "COMMAND_LIMIT", "STALE_INPUT", "ESTOP_LATCHED"}

\* Every variable keeps its type; the heartbeat keeps its width.
TypeOK ==
    /\ now \in Nat
    /\ nextCall \in Nat
    /\ inbox \in Seq([fields : Command, sentAt : Nat])
    /\ command \in Command
    /\ receivedAt \in Nat
    /\ hasCommand \in BOOLEAN
    /\ inside \in BOOLEAN
    /\ latched \in BOOLEAN
    /\ drive \in [stamp : Nat, fields : Command]
    /\ status \in [stamp : Nat, validUntil : Nat, clamps : SUBSET Bits, reason : Reasons]
    /\ heartbeat \in 0 .. HeartbeatModulus - 1
    /\ lastSent \in Nat
    /\ lastClear \in Nat
    /\ stoppedAt \in Nat

Moving == drive.fields # Stopped

\* A vehicle whose controller has gone silent is not driven for long: the
\* standing /drive moves it only while the controller has sent something, or
\* an operator has cleared a stop, within the staleness timeout, one control
\* period and twice the executor's lag.  The policy's timeout, the moment a
\* command counts as received, the re-arming by a clear and the timer's
\* schedule all enter.
OrphanHorizon ==
    Moving => \/ now - lastSent <= Timeout + Period + 2 * MaxLag
              \/ now - lastClear <= Timeout + Period + 2 * MaxLag

\* A stop that has been demanded reaches the vehicle within a control period
\* and the executor's lag, whatever commands, poses and clears came before.
StopTakesEffect ==
    latched /\ Moving => now - stoppedAt <= Period + MaxLag

\* A STALE_INPUT stop is earned.  Either the controller had sent nothing for
\* longer than the timeout, or the supervisor was behind and had commands it
\* had not read; never before a first command, and never within a timeout of
\* a clear.  scenario_runner.py's verdicts (controller-silent,
\* supervisor-lag) rest on this.
EarnedStaleStop ==
    [][/\ heartbeat' # heartbeat
       /\ status'.reason = "STALE_INPUT"
       => /\ hasCommand
          /\ now - lastClear > Timeout
          /\ now - lastSent > Timeout \/ inbox # <<>>]_vars

\* What reaches the vehicle differs from what the controller asked for only
\* under a reported reason and clamp, and every published field is within
\* its limit unless it is NaN, which std::clamp lets through, and then the
\* field's clamp bit is set.
OutputExplained ==
    [][heartbeat' # heartbeat =>
       /\ drive'.fields # command => status'.clamps # {} /\ status'.reason # "NONE"
       /\ \A f \in Fields :
             IF drive'.fields[f] = NaN
             THEN f \in status'.clamps
             ELSE drive'.fields[f] \in -Limit[f] .. Limit[f]]_vars

Gate == INSTANCE SafetyGate WITH heard <- receivedAt, halted <- latched, moving <- Moving

\* The supervisor is a safety gate: only a clear releases a halt, and a
\* moving command passes only unhalted and within the timeout.
ImplementsGate == Gate!GateSpec
====
