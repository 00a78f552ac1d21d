---- MODULE DriveLoop ----
(***************************************************************************)
(* The closed loop of a simulated run: the simulator publishes /clock and   *)
(* /odom, the controller answers /odom with /controller/drive, the safety   *)
(* supervisor passes its last command on as /drive at every tick of its own *)
(* clock, and the simulator applies the last /drive when it steps.  The     *)
(* test harness starts the simulator held and releases it once the          *)
(* supervisor has heard /clock (scenario_runner.py).                        *)
(*                                                                          *)
(* GymSim and Supervisor model the two nodes in full; here each is reduced  *)
(* to what it exchanges.  A command is its basis: the tick of the state it  *)
(* was computed from.  The wall clock is abstracted to whether the sim may  *)
(* step on it: at 1x whenever its timer fires, above 1x when a tick has     *)
(* gone unanswered for one 1x tick.  If the graph is Responsive, whatever   *)
(* is in flight arrives within that time.                                   *)
(***************************************************************************)
EXTENDS Integers, Sequences

CONSTANTS
    Faster,           \* time_scale > 1
    Responsive,       \* the graph's latency is below one 1x tick
    Timeout,          \* stale_input_timeout_ms, in ticks
    Depth,            \* history depth of the three reliable topics
    MaxTick           \* bound of the model: the sim stops here

ASSUME DriveLoopAssumption ==
    /\ Faster \in BOOLEAN
    /\ Responsive \in BOOLEAN
    /\ Timeout \in Nat
    /\ Depth \in Nat \ {0}
    /\ MaxTick \in Nat \ {0}

None == -1            \* no tick: no message, no state, or the standstill

VARIABLES
    held,             \* sim: waiting for the first reset
    tick,             \* sim: the last tick published
    next,             \* sim: the next one
    answered,         \* sim: a /drive stamped at or after tick has come
    applied,          \* sim: basis of the backend's standing command
    clock,            \* /clock in flight to the supervisor: best effort, depth 1
    odom,             \* /odom in flight to the controller
    asked,            \* /controller/drive in flight to the supervisor
    drive,            \* /drive in flight to the sim
    state,            \* controller: tick of its last /odom
    hasTrajectory,    \* controller: /trajectory has arrived
    matched,          \* supervisor: its /clock reader is matched
    heard,            \* supervisor: ~/clock_received is published
    now,              \* supervisor: its ROS clock
    nextCall,         \* supervisor: when its control timer is due
    basis,            \* supervisor: basis of its last command
    receivedAt,       \* supervisor: when that came
    latched,          \* supervisor: the emergency stop
    passed,           \* supervisor: basis of its last /drive
    ages,             \* history: ticks between a state and its command's step
    late              \* history: the latest steps in a row without an answer

vars == <<held, tick, next, answered, applied, clock, odom, asked, drive,
          state, hasTrajectory, matched, heard, now, nextCall, basis,
          receivedAt, latched, passed, ages, late>>

simVars == <<held, tick, next, answered, applied>>
controllerVars == <<state, hasTrajectory>>
clockVars == <<matched, heard, now>>
policyVars == <<nextCall, basis, receivedAt, latched, passed>>
historyVars == <<ages, late>>

----------------------------------------------------------------------------

Init ==
    /\ held = TRUE
    /\ tick = 0
    /\ next = 0
    /\ answered = FALSE
    /\ applied = None
    /\ clock = None
    /\ odom = <<>>
    /\ asked = <<>>
    /\ drive = <<>>
    /\ state = None
    /\ hasTrajectory = FALSE
    /\ matched = FALSE
    /\ heard = FALSE
    /\ now = 0
    /\ nextCall = 1
    /\ basis = None
    /\ receivedAt = 0
    /\ latched = FALSE
    /\ passed = None
    /\ ages = {}
    /\ late = 0

\* A reliable topic keeps the last Depth messages for a slow reader.
KeepLast(queue, message) ==
    Append(IF Len(queue) = Depth THEN Tail(queue) ELSE queue, message)

\* The sim's _publish.  An unmatched reader misses the clock.
Publish(isHeld) ==
    /\ tick' = next
    /\ next' = IF isHeld THEN next ELSE next + 1
    /\ answered' = FALSE
    /\ clock' = IF matched THEN next ELSE None
    /\ odom' = KeepLast(odom, next)

\* A held sim repeats its snapshot.
HeldTimer ==
    /\ held
    /\ Publish(held)
    /\ UNCHANGED <<held, applied, asked, drive>>
    /\ UNCHANGED controllerVars
    /\ UNCHANGED clockVars
    /\ UNCHANGED policyVars
    /\ UNCHANGED historyVars

\* Mutant of Release: discovery is enough, no delivery is waited for.
MutantRelease ==
    /\ held
    /\ held' = FALSE
    /\ Publish(FALSE)
    /\ UNCHANGED <<applied, asked, drive>>
    /\ UNCHANGED controllerVars
    /\ UNCHANGED clockVars
    /\ UNCHANGED policyVars
    /\ UNCHANGED historyVars

\* The harness: every participant is there, the supervisor has heard /clock,
\* and ~/reset defines t = 0.
Release ==
    /\ held
    /\ heard
    /\ held' = FALSE
    /\ Publish(FALSE)
    /\ UNCHANGED <<applied, asked, drive>>
    /\ UNCHANGED controllerVars
    /\ UNCHANGED clockVars
    /\ UNCHANGED policyVars
    /\ UNCHANGED historyVars

Step ==
    /\ ~held
    /\ tick < MaxTick
    /\ Publish(FALSE)
    /\ ages' = IF applied = None THEN ages ELSE ages \cup {tick - applied}
    /\ UNCHANGED <<held, applied, asked, drive>>
    /\ UNCHANGED controllerVars
    /\ UNCHANGED clockVars
    /\ UNCHANGED policyVars

\* Above 1x: the tick is answered, and the sim steps as fast as it can.
StepAnswered ==
    /\ Faster
    /\ answered
    /\ Step
    /\ late' = 0

EvaluationDue == now >= nextCall

Quiet ==
    /\ clock = None
    /\ odom = <<>>
    /\ asked = <<>>
    /\ drive = <<>>
    /\ ~EvaluationDue

\* Mutant of StepOnWallClock: above 1x only an answer lets the sim step.
MutantStepOnWallClock ==
    /\ ~Faster
    /\ Responsive => Quiet
    /\ Step
    /\ late' = IF answered THEN 0 ELSE late + 1

\* A 1x tick of wall time has passed since the last publication.
StepOnWallClock ==
    /\ Responsive => Quiet
    /\ Step
    /\ late' = IF answered THEN 0 ELSE late + 1

\* Mutant of HandleDrive: any /drive is an answer.
MutantHandleDrive ==
    /\ drive # <<>>
    /\ drive' = Tail(drive)
    /\ applied' = Head(drive).basis
    /\ answered' = TRUE
    /\ UNCHANGED <<held, tick, next, clock, odom, asked>>
    /\ UNCHANGED controllerVars
    /\ UNCHANGED clockVars
    /\ UNCHANGED policyVars
    /\ UNCHANGED historyVars

\* The sim's _on_drive.
HandleDrive ==
    /\ drive # <<>>
    /\ drive' = Tail(drive)
    /\ applied' = Head(drive).basis
    /\ answered' = (answered \/ Head(drive).stamp >= tick)
    /\ UNCHANGED <<held, tick, next, clock, odom, asked>>
    /\ UNCHANGED controllerVars
    /\ UNCHANGED clockVars
    /\ UNCHANGED policyVars
    /\ UNCHANGED historyVars

----------------------------------------------------------------------------
(* The controller: one command for every state, once it has a trajectory *)

HandleOdom ==
    /\ odom # <<>>
    /\ odom' = Tail(odom)
    /\ state' = Head(odom)
    /\ asked' = IF hasTrajectory THEN KeepLast(asked, Head(odom)) ELSE asked
    /\ UNCHANGED <<hasTrajectory, clock, drive>>
    /\ UNCHANGED simVars
    /\ UNCHANGED clockVars
    /\ UNCHANGED policyVars
    /\ UNCHANGED historyVars

HandleTrajectory ==
    /\ ~hasTrajectory
    /\ hasTrajectory' = TRUE
    /\ asked' = IF state = None THEN asked ELSE KeepLast(asked, state)
    /\ UNCHANGED <<state, clock, odom, drive>>
    /\ UNCHANGED simVars
    /\ UNCHANGED clockVars
    /\ UNCHANGED policyVars
    /\ UNCHANGED historyVars

----------------------------------------------------------------------------
(* The supervisor *)

\* Discovery matches its /clock reader, whenever that is.
MatchClock ==
    /\ ~matched
    /\ matched' = TRUE
    /\ UNCHANGED <<clock, odom, asked, drive, heard, now>>
    /\ UNCHANGED simVars
    /\ UNCHANGED controllerVars
    /\ UNCHANGED policyVars
    /\ UNCHANGED historyVars

HandleClock ==
    /\ clock # None
    /\ clock' = None
    /\ now' = clock
    /\ heard' = TRUE
    /\ UNCHANGED <<odom, asked, drive, matched>>
    /\ UNCHANGED simVars
    /\ UNCHANGED controllerVars
    /\ UNCHANGED policyVars
    /\ UNCHANGED historyVars

\* Best effort: the transport may lose it.
LoseClock ==
    /\ ~Responsive
    /\ clock # None
    /\ clock' = None
    /\ UNCHANGED <<odom, asked, drive>>
    /\ UNCHANGED simVars
    /\ UNCHANGED controllerVars
    /\ UNCHANGED clockVars
    /\ UNCHANGED policyVars
    /\ UNCHANGED historyVars

\* Mutant of HandleCommand: the last command stands until it is stale.
MutantHandleCommand ==
    /\ asked # <<>>
    /\ asked' = Tail(asked)
    /\ basis' = IF basis = None THEN Head(asked) ELSE basis
    /\ receivedAt' = now
    /\ UNCHANGED <<clock, odom, drive, nextCall, latched, passed>>
    /\ UNCHANGED simVars
    /\ UNCHANGED controllerVars
    /\ UNCHANGED clockVars
    /\ UNCHANGED historyVars

HandleCommand ==
    /\ asked # <<>>
    /\ asked' = Tail(asked)
    /\ basis' = Head(asked)
    /\ receivedAt' = now
    /\ UNCHANGED <<clock, odom, drive, nextCall, latched, passed>>
    /\ UNCHANGED simVars
    /\ UNCHANGED controllerVars
    /\ UNCHANGED clockVars
    /\ UNCHANGED historyVars

Stale == basis # None /\ now - receivedAt > Timeout

\* Mutant of Evaluate: a command is passed on without a look at its age.
MutantEvaluate ==
    /\ EvaluationDue
    /\ latched' = latched
    /\ passed' = IF latched' THEN None ELSE basis
    /\ drive' = KeepLast(drive, [stamp |-> now, basis |-> passed'])
    /\ nextCall' = IF nextCall + 1 < now THEN now ELSE nextCall + 1
    /\ UNCHANGED <<clock, odom, asked, basis, receivedAt>>
    /\ UNCHANGED simVars
    /\ UNCHANGED controllerVars
    /\ UNCHANGED clockVars
    /\ UNCHANGED historyVars

\* The control timer, of a period of one tick: whatever goes out is stamped
\* with the supervisor's own clock, not with the state it answers.
Evaluate ==
    /\ EvaluationDue
    /\ latched' = (latched \/ Stale)
    /\ passed' = IF latched' THEN None ELSE basis
    /\ drive' = KeepLast(drive, [stamp |-> now, basis |-> passed'])
    /\ nextCall' = IF nextCall + 1 < now THEN now ELSE nextCall + 1
    /\ UNCHANGED <<clock, odom, asked, basis, receivedAt>>
    /\ UNCHANGED simVars
    /\ UNCHANGED controllerVars
    /\ UNCHANGED clockVars
    /\ UNCHANGED historyVars

Next ==
    \/ HeldTimer
    \/ Release
    \/ StepAnswered
    \/ StepOnWallClock
    \/ HandleDrive
    \/ HandleOdom
    \/ HandleTrajectory
    \/ MatchClock
    \/ HandleClock
    \/ LoseClock
    \/ HandleCommand
    \/ Evaluate

Spec == Init /\ [][Next]_vars

\* Every executor keeps running its callbacks, discovery completes, and the
\* transport does not lose every /clock for ever.
Fairness ==
    /\ WF_vars(HeldTimer)
    /\ WF_vars(Release)
    /\ WF_vars(StepAnswered)
    /\ WF_vars(StepOnWallClock)
    /\ WF_vars(MatchClock)
    /\ WF_vars(HandleOdom)
    /\ WF_vars(HandleCommand)
    /\ WF_vars(HandleDrive)
    /\ WF_vars(Evaluate)
    /\ SF_vars(HandleClock)

FairSpec == Spec /\ Fairness

----------------------------------------------------------------------------
(* Properties *)

Tick == 0 .. MaxTick + 1
TickOrNone == Tick \cup {None}

\* Every variable keeps its type, and no queue outgrows its depth.
TypeOK ==
    /\ held \in BOOLEAN
    /\ tick \in Tick
    /\ next \in Tick
    /\ answered \in BOOLEAN
    /\ applied \in TickOrNone
    /\ clock \in TickOrNone
    /\ odom \in Seq(Tick) /\ Len(odom) <= Depth
    /\ asked \in Seq(Tick) /\ Len(asked) <= Depth
    /\ drive \in Seq([stamp : Tick, basis : TickOrNone]) /\ Len(drive) <= Depth
    /\ state \in TickOrNone
    /\ hasTrajectory \in BOOLEAN
    /\ matched \in BOOLEAN
    /\ heard \in BOOLEAN
    /\ now \in Tick
    /\ nextCall \in Nat
    /\ basis \in TickOrNone
    /\ receivedAt \in Tick
    /\ latched \in BOOLEAN
    /\ passed \in TickOrNone
    /\ ages \subseteq Tick
    /\ late \in Nat

\* Repo gotcha 19: in a responsive graph at 1x, a run released once the
\* supervisor has heard /clock never latches a stop: its clock does not
\* stand at 0 while commands arrive and then jump past the timeout.
NoSpuriousLatch == ~latched

\* In a responsive graph at 1x the vehicle is commanded from the state of
\* this tick or of the one before: the supervisor's own timer costs at most
\* one tick, whichever of its callbacks runs first.
AgeAtMostOne == ages \subseteq {0, 1}

\* At 1x in a responsive graph nothing is stale: neither the loop's commands
\* nor the supervisor's idea of when it last heard one.
RealTimeLoopFresh == NoSpuriousLatch /\ AgeAtMostOne

\* The sim leaves the supervisor's clock behind only by the steps it has taken
\* on the wall clock since the last answered one, and by the tick just
\* published: however often /clock is lost or an old /drive comes late, an
\* answer means that the supervisor has caught up, so the staleness timeout,
\* which its clock measures, keeps its meaning at every time_scale.
InStep == tick <= now + late + 1

Gate == INSTANCE SafetyGate WITH heard <- receivedAt, halted <- latched,
                                 moving <- (passed # None)

\* The supervisor of the loop is the safety gate, too.
LoopImplementsGate == Gate!GateSpec

\* A run always ends: the held sim, the harness and the supervisor do not
\* wait for each other, and a lost /clock or answer does not stop the sim.
RunCompletes == <>(tick = MaxTick)

====
