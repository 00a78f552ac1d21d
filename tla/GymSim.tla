---- MODULE GymSim ----
(***************************************************************************)
(* racing_sim_gym_jax: the simulator node, which owns /clock.  A wall timer *)
(* of control_period / time_scale advances simulated time one tick per      *)
(* step; above 1x a step waits for the /drive that answers the last tick    *)
(* published (clock.py, step_due).  The node starts held or not, is reset   *)
(* at any time, and can be switched to STEPPED, which freezes it.  One      *)
(* single-threaded executor runs every callback.                            *)
(*                                                                          *)
(* Abstractions: a /drive message is its stamp, in ticks; the physics is    *)
(* the number of steps taken; sensors, noise and the map are left out.      *)
(* Simulated time counts ticks, wall time counts units of which a 1x tick   *)
(* has ControlPeriod.                                                       *)
(***************************************************************************)
EXTENDS Integers, Sequences

CONSTANTS
    ControlPeriod,    \* control_period, in wall units
    TimerPeriod,      \* wall_timer_period: control_period / time_scale
    StartHeld,        \* the start_held parameter
    Depth,            \* history depth of /drive
    MaxLag,           \* how late the executor may run the timer
    MaxTime,          \* bound of the model: simulated ticks
    MaxFires          \* bound of the model: firings of the running timer

ASSUME GymSimAssumption ==
    /\ ControlPeriod \in Nat \ {0}
    /\ TimerPeriod \in Nat \ {0}
    /\ StartHeld \in BOOLEAN
    /\ Depth \in Nat \ {0}
    /\ MaxLag \in Nat
    /\ MaxTime \in Nat
    /\ MaxFires \in Nat

VARIABLES
    stepMode,         \* _step_mode: STEPPED
    held,             \* _held
    simTime,          \* _simulation_time_ns: the next tick's stamp
    published,        \* _published_ns: the last /clock
    answered,         \* _answered
    deferred,         \* _step_deferred
    command,          \* stamp of the backend's standing command
    waited,           \* monotonic() - _published_at
    sinceTimer,       \* wall time since the timer was last due
    commander,        \* the one publisher of /drive, as discovery sees it
    lastStamp,        \* stamp of its last command
    inbox,            \* /drive commands not yet handled
    fired,            \* history: timer callbacks that found the sim running
    steps             \* history: physics steps

vars == <<stepMode, held, simTime, published, answered, deferred, command,
          waited, sinceTimer, commander, lastStamp, inbox, fired, steps>>

modeVars == <<stepMode, held>>
tickVars == <<simTime, published, answered, waited>>
driveVars == <<commander, lastStamp, inbox>>
historyVars == <<fired, steps>>

----------------------------------------------------------------------------

Faster == TimerPeriod < ControlPeriod      \* time_scale > 1

Frozen == stepMode \/ held

Init ==
    /\ stepMode = FALSE
    /\ held = StartHeld
    /\ simTime = 0
    /\ published = 0
    /\ answered = FALSE
    /\ deferred = FALSE
    /\ command = 0
    /\ waited = 0
    /\ sinceTimer = 0
    /\ commander = "absent"
    /\ lastStamp = 0
    /\ inbox = <<>>
    /\ fired = 0
    /\ steps = 0

\* Mutant of StepDue: waits for an answer however long it takes.
MutantStepDue(isAnswered) ==
    ~Faster \/ commander # "present" \/ isAnswered

\* clock.py, step_due
StepDue(isAnswered) ==
    \/ ~Faster
    \/ commander # "present"
    \/ isAnswered
    \/ waited >= ControlPeriod

\* Mutant of Publish: an answer to an earlier tick answers this one.
MutantPublish(stamp, isFrozen) ==
    /\ published' = stamp
    /\ waited' = 0
    /\ simTime' = IF isFrozen THEN stamp ELSE stamp + 1
    /\ UNCHANGED answered

\* _publish: the tick's stamp goes out, and only a running sim moves on.
Publish(stamp, isFrozen) ==
    /\ published' = stamp
    /\ waited' = 0
    /\ answered' = FALSE
    /\ simTime' = IF isFrozen THEN stamp ELSE stamp + 1

\* Mutant of Step: the deferral outlives the step it was waiting for.
MutantStep ==
    /\ UNCHANGED deferred
    /\ steps' = steps + 1
    /\ Publish(simTime, Frozen)

\* _step
Step ==
    /\ deferred' = FALSE
    /\ steps' = steps + 1
    /\ Publish(simTime, Frozen)

\* rcl moves the timer on by whole periods, past what is already late.
Rearm ==
    /\ sinceTimer' \in 0 .. TimerPeriod
    /\ sinceTimer' < sinceTimer
    /\ (sinceTimer - sinceTimer') % TimerPeriod = 0
    /\ sinceTimer' = 0 => sinceTimer = TimerPeriod

TimerDue == sinceTimer >= TimerPeriod

\* _on_timer of a frozen sim: the snapshot again, no step.
TimerFrozen ==
    /\ TimerDue
    /\ Frozen
    /\ Rearm
    /\ Publish(simTime, Frozen)
    /\ UNCHANGED <<deferred, command>>
    /\ UNCHANGED modeVars
    /\ UNCHANGED driveVars
    /\ UNCHANGED historyVars

\* _on_timer of a running sim whose step is due.
TimerSteps ==
    /\ TimerDue
    /\ ~Frozen
    /\ fired < MaxFires
    /\ StepDue(answered)
    /\ Rearm
    /\ Step
    /\ fired' = fired + 1
    /\ UNCHANGED command
    /\ UNCHANGED modeVars
    /\ UNCHANGED driveVars

\* _on_timer of a running sim that waits for its commander.
TimerDefers ==
    /\ TimerDue
    /\ ~Frozen
    /\ fired < MaxFires
    /\ ~StepDue(answered)
    /\ Rearm
    /\ deferred' = TRUE
    /\ fired' = fired + 1
    /\ UNCHANGED <<command, steps>>
    /\ UNCHANGED modeVars
    /\ UNCHANGED tickVars
    /\ UNCHANGED driveVars

Answers(stamp) == answered \/ stamp >= published

\* _on_drive: the command stands, and a step that only waited for it is
\* taken at once, whatever mode the sim is in by now.
HandleDrive ==
    /\ inbox # <<>>
    /\ inbox' = Tail(inbox)
    /\ command' = Head(inbox)
    /\ IF deferred /\ StepDue(Answers(Head(inbox)))
       THEN Step
       ELSE /\ answered' = Answers(Head(inbox))
            /\ UNCHANGED <<deferred, simTime, published, waited, steps>>
    /\ UNCHANGED <<sinceTimer, commander, lastStamp, fired>>
    /\ UNCHANGED modeVars

\* Mutant of HandleReset: every reset defines t = 0.
MutantHandleReset ==
    /\ simTime < MaxTime
    /\ held' = FALSE
    /\ deferred' = FALSE
    /\ Publish(0, stepMode)
    /\ UNCHANGED <<stepMode, command, sinceTimer>>
    /\ UNCHANGED driveVars
    /\ UNCHANGED historyVars

\* _on_reset of a known scenario: only a held sim's counter returns to 0.
\* The backend's standing command survives.
HandleReset ==
    /\ simTime < MaxTime
    /\ held' = FALSE
    /\ deferred' = FALSE
    /\ Publish(IF held THEN 0 ELSE simTime, stepMode)
    /\ UNCHANGED <<stepMode, command, sinceTimer>>
    /\ UNCHANGED driveVars
    /\ UNCHANGED historyVars

\* _on_step_mode
HandleStepMode ==
    /\ stepMode' = ~stepMode
    /\ UNCHANGED <<held, deferred, command, sinceTimer>>
    /\ UNCHANGED tickVars
    /\ UNCHANGED driveVars
    /\ UNCHANGED historyVars

\* Discovery: the commander's endpoint appears, and is gone for good when
\* its process ends.
DiscoverCommander ==
    /\ \/ commander = "absent" /\ commander' = "present"
       \/ commander = "present" /\ commander' = "gone"
    /\ UNCHANGED <<deferred, command, sinceTimer, lastStamp, inbox>>
    /\ UNCHANGED modeVars
    /\ UNCHANGED tickVars
    /\ UNCHANGED historyVars

\* The commander publishes under its own clock, the last /clock it has seen:
\* never behind its own last stamp, never ahead of the sim.
SendDrive ==
    /\ commander = "present"
    /\ \E stamp \in lastStamp .. published :
          /\ lastStamp' = stamp
          /\ inbox' = Append(IF Len(inbox) = Depth THEN Tail(inbox) ELSE inbox, stamp)
    /\ UNCHANGED <<deferred, command, sinceTimer, commander>>
    /\ UNCHANGED modeVars
    /\ UNCHANGED tickVars
    /\ UNCHANGED historyVars

\* Wall time passes, but a due timer waits for the executor at most MaxLag.
Wall ==
    /\ sinceTimer < TimerPeriod + MaxLag
    /\ sinceTimer' = sinceTimer + 1
    /\ waited' = waited + 1
    /\ UNCHANGED <<simTime, published, answered, deferred, command>>
    /\ UNCHANGED modeVars
    /\ UNCHANGED driveVars
    /\ UNCHANGED historyVars

Next ==
    \/ TimerFrozen
    \/ TimerSteps
    \/ TimerDefers
    \/ HandleDrive
    \/ HandleReset
    \/ HandleStepMode
    \/ DiscoverCommander
    \/ SendDrive
    \/ Wall

Spec == Init /\ [][Next]_vars

----------------------------------------------------------------------------
(* Properties *)

\* Every variable keeps its type, and no queue outgrows its depth.
TypeOK ==
    /\ stepMode \in BOOLEAN
    /\ held \in BOOLEAN
    /\ simTime \in Nat
    /\ published \in Nat
    /\ answered \in BOOLEAN
    /\ deferred \in BOOLEAN
    /\ command \in Nat
    /\ waited \in Nat
    /\ sinceTimer \in 0 .. TimerPeriod + MaxLag
    /\ commander \in {"absent", "present", "gone"}
    /\ lastStamp \in Nat
    /\ inbox \in Seq(Nat)
    /\ Len(inbox) <= Depth
    /\ fired \in Nat
    /\ steps \in Nat

\* ADAPT-2085: /clock never goes back, whatever resets and mode switches come
\* between two ticks; racing_metrics aborts a run on a stamp that does.
ClockMonotone == [][published' >= published]_vars

\* ADAPT-2080: a held sim stays at its first state and at stamp 0 however
\* often it publishes, is commanded or changes mode.
HeldAtZero == held => simTime = 0 /\ published = 0 /\ steps = 0 /\ ~deferred

\* SIMJAX-1070: above 1x with a commander, the command a step applies is
\* stamped at or after the tick it steps past, or the sim has waited one 1x
\* tick for it.  The flag _answered is set by one message and used by a later
\* callback, when another message may be the standing command.
AnsweredRun ==
    [][Faster /\ commander = "present" /\ steps' # steps
       => command' >= published \/ waited >= ControlPeriod]_vars

\* "A silent commander slows the run to real time, never stalls it"
\* (clock.py:48): the wall time between two publications is bounded,
\* commander, resets and modes notwithstanding.
NeverStalls == waited <= ControlPeriod + TimerPeriod + MaxLag

\* ADR 0006: time_scale is the wall rate.  A step taken by a /drive callback
\* uses up a timer firing: the sim never steps more often than its timer.
NeverFasterThanScale == steps + (IF deferred THEN 1 ELSE 0) <= fired

\* The two bounds on the sim's rate, whatever becomes of its commander.
RateBounded == NeverStalls /\ NeverFasterThanScale

\* ADAPT-2160, "in STEPPED mode the backend does not advance on its own": a
\* node that stays STEPPED takes no physics step once it has published the
\* clock it holds (once time has moved, a running sim's last stamp is behind
\* its counter and a frozen one's is not).
SteppedHolds ==
    [][stepMode /\ stepMode' /\ simTime > 0 /\ published = simTime
       => steps' = steps]_vars
====
