---- MODULE BridgeSession ----
(***************************************************************************)
(* racing_sim_autodrive: a reset of the AutoDRIVE simulator, through either *)
(* front end.  The simulator sends frames and is steered by the replies; it *)
(* knows no reset but a True level in a reply, and shows one only by its    *)
(* lap clock and its encoders falling back.  BridgeSession (bridge.py) asks *)
(* for the reset, waits to see it, and meanwhile anchors odometry to the    *)
(* truth and keeps the throttle integral at zero.                           *)
(*                                                                          *)
(* Front end A (server_node.py) is in lock-step: each frame is answered.    *)
(* Front end B (devkit_node.py) is not: the official devkit answers at once *)
(* with the level it was last told (external), B tells it a new one over a  *)
(* topic, and what B sees may be several frames old.                        *)
(*                                                                          *)
(* Abstractions: a frame is its lap clock, whether the encoders are past 0, *)
(* and whether a reset has moved the car since the frame before; odometry   *)
(* and integral are whether anything in them is of before such a move.      *)
(***************************************************************************)
EXTENDS Integers, Sequences

CONSTANTS
    FrontEnds,        \* the front ends a run may have: is it the official one?
    ResetWait,        \* RESET_WAIT_FRAMES
    MaxReact,         \* frames the sim may run on before it resets
    LapLine,          \* does the lap clock restart at the lap line?
    Hasty,            \* B: may a reset be asked for as the last one dies away?
    CommandLag,       \* B: frames the devkit may answer before it hears B
    Depth,            \* B: frames in flight
    Late,             \* bound: the lap clock counts no further
    MaxRequests,      \* bound: resets asked for
    MaxLost           \* bound: frames malformed, or dropped by the assembler

ASSUME BridgeAssumption ==
    /\ FrontEnds \subseteq BOOLEAN
    /\ ResetWait \in Nat \ {0}
    /\ MaxReact \in Nat
    /\ LapLine \in BOOLEAN
    /\ Hasty \in BOOLEAN
    /\ CommandLag \in Nat
    /\ Depth \in Nat \ {0}
    /\ Late \in Nat \ {0, 1}
    /\ MaxRequests \in Nat
    /\ MaxLost \in Nat

VARIABLES
    official,         \* front end B
    lap,              \* sim: the lap clock
    moved,            \* sim: the encoders are past 0
    resetting,        \* sim: its last frame was a reset
    due,              \* sim: frames within which it resets, 0 for no reset
    frames,           \* frames in flight to the session
    replies,          \* A: the reply in flight to the sim
    latch,            \* B: the level the devkit answers with
    commands,         \* B: the level in flight to the devkit, depth 1
    commandAge,       \* B: frames answered while it was in flight
    level,            \* session: a reset has been asked for
    awaiting,         \* session: replied True, sim not yet reset
    effectSeen,       \* session: the lap clock or the encoders have fallen
    waited,           \* session: frames since the reset reply
    started,          \* session: there is a previous frame
    prev,             \* session: the previous frame
    integral,         \* session: the throttle integral is not 0
    pending,          \* B: a reset True is held
    off,              \* B: has shut down
    anchored,         \* history: odometry is of after the last move
    fresh,            \* history: so is the integral
    unseen,           \* history: a frame that showed a move was lost
    requests,         \* history: resets asked for
    fires,            \* history: True levels asked of the sim
    owed,             \* history: since the last request no frame got a True
    lost              \* history: frames lost

simVars == <<lap, moved, resetting, due>>
wireVars == <<frames, replies, latch, commands, commandAge>>
handshakeVars == <<awaiting, effectSeen, waited, started, prev>>
estimateVars == <<integral, anchored, fresh, unseen>>
askedVars == <<level, requests, fires, owed>>
vars == <<official, simVars, wireVars, handshakeVars, estimateVars, askedVars,
          pending, off, lost>>

Frame == [lap : 0 .. Late, moved : BOOLEAN, jumped : BOOLEAN]

Init ==
    /\ official \in FrontEnds
    /\ lap = 0
    /\ moved = FALSE
    /\ resetting = FALSE
    /\ due = 0
    /\ frames = <<>>
    /\ replies = IF official THEN <<>> ELSE <<FALSE>>
    /\ latch = FALSE
    /\ commands = <<>>
    /\ commandAge = 0
    /\ level = FALSE
    /\ awaiting = FALSE
    /\ effectSeen = FALSE
    /\ waited = 0
    /\ started = FALSE
    /\ prev = [lap |-> 0, moved |-> FALSE, jumped |-> FALSE]
    /\ integral = FALSE
    /\ pending = FALSE
    /\ off = FALSE
    /\ anchored = TRUE
    /\ fresh = TRUE
    /\ unseen = FALSE
    /\ requests = 0
    /\ fires = 0
    /\ owed = FALSE
    /\ lost = 0

----------------------------------------------------------------------------
(* The simulator, and the devkit in front of it *)

Demand == IF official THEN latch ELSE replies # <<>> /\ Head(replies)

\* In lock-step a frame follows a reply.  The devkit answers at once, and a
\* command is no more than CommandLag frames under way.
MaySend ==
    IF official
    THEN /\ Len(frames) < Depth
         /\ commands # <<>> => commandAge < CommandLag
    ELSE frames = <<>> /\ replies # <<>>

Send(l, isMoved, isJump) ==
    /\ MaySend
    /\ frames' = Append(frames, [lap |-> l, moved |-> isMoved, jumped |-> isJump])
    /\ lap' = l
    /\ moved' = isMoved
    /\ replies' = <<>>
    /\ commandAge' = IF commands = <<>> THEN 0 ELSE commandAge + 1
    /\ owed' = (owed /\ ~Demand)
    /\ UNCHANGED <<official, latch, commands, level, requests, fires, pending, off, lost>>
    /\ UNCHANGED handshakeVars
    /\ UNCHANGED estimateVars

\* The lap clock of a frame under reset is that frame's own duration.
SimResets(l) ==
    /\ Demand \/ due > 0
    /\ Send(l, FALSE, moved)
    /\ due' = 0
    /\ resetting' = TRUE

\* A single True may be ignored; a level that is held is not.
NotYet ==
    IF due > 0
    THEN {due - 1} \ {0}
    ELSE IF Demand
         THEN ({MaxReact} \ {0}) \cup (IF official THEN {} ELSE {0})
         ELSE {0}

\* The lap clock runs, or starts again as the car crosses the lap line.
NextLap == {IF lap = Late THEN Late ELSE lap + 1} \cup (IF LapLine THEN {0} ELSE {})

SimRuns ==
    /\ ~(Demand /\ resetting)
    /\ due' \in NotYet
    /\ resetting' = FALSE
    /\ \E l \in NextLap, isMoved \in {moved, TRUE} : Send(l, isMoved, FALSE)

\* The devkit hears a level and holds it.
DevkitHears ==
    /\ commands # <<>>
    /\ latch' = Head(commands)
    /\ commands' = <<>>
    /\ commandAge' = 0
    /\ UNCHANGED <<official, frames, replies, pending, off, lost>>
    /\ UNCHANGED simVars
    /\ UNCHANGED handshakeVars
    /\ UNCHANGED estimateVars
    /\ UNCHANGED askedVars

----------------------------------------------------------------------------
(* The session *)

\* B holds no reset, but the last one is still on its way through the devkit.
DyingAway ==
    /\ official /\ requests > 0 /\ ~pending
    /\ (latch \/ commands # <<>> \/ frames # <<>>)

\* ~/reset, on the executor's thread, at any time.
RequestReset ==
    /\ requests < MaxRequests
    /\ ~off
    /\ DyingAway => Hasty
    /\ requests' = requests + 1
    /\ level' = TRUE
    /\ owed' = TRUE
    /\ UNCHANGED <<official, pending, off, lost, fires>>
    /\ UNCHANGED simVars
    /\ UNCHANGED wireVars
    /\ UNCHANGED handshakeVars
    /\ UNCHANGED estimateVars

\* core.sim_dt: the lap clock has risen (two late frames are apart).
Rises(frame) ==
    started /\ (frame.lap > prev.lap \/ (frame.lap = Late /\ prev.lap = Late))

EncodersFell(frame) == started /\ prev.moved /\ ~frame.moved

\* Mutant of Reanchor: once, with the frame that sends the reset.
MutantReanchor == ~started \/ level

\* on_sim_frame anchors odometry to the first frame and while it waits.
Reanchor == ~started \/ awaiting

\* The wait goes on until the lap clock runs again after the reset has been
\* seen, or for ResetWait frames if it has not.
StillAwaiting(frame) ==
    awaiting /\ \/ ~Rises(frame) \/ EncodersFell(frame)
                \/ ~effectSeen /\ waited + 1 < ResetWait

\* The reset handshake of on_sim_frame, up to the reply.
Fired(frame) ==
    IF level
    THEN /\ awaiting' = TRUE
         /\ effectSeen' = FALSE
         /\ waited' = 0
    ELSE /\ awaiting' = StillAwaiting(frame)
         /\ effectSeen' = (effectSeen \/ (awaiting /\ (~Rises(frame) \/ EncodersFell(frame))))
         /\ waited' = IF awaiting /\ waited < ResetWait THEN waited + 1 ELSE waited

\* What the throttle loop may leave in its integral.
Wound(frame) ==
    IF Reanchor \/ level
    THEN {FALSE}
    ELSE IF (official \/ Rises(frame)) /\ ~EncodersFell(frame)
         THEN BOOLEAN
         ELSE {FALSE, integral}

\* Odometry is anchored to the truth, or goes on from where it was.
Estimated(frame) ==
    LET jumped == unseen \/ frame.jumped IN
    /\ integral' \in Wound(frame)
    /\ anchored' = (Reanchor \/ (anchored /\ ~jumped))
    /\ fresh' = (~integral' \/ ~integral \/ (fresh /\ ~jumped))
    /\ unseen' = FALSE

\* COMMAND_QOS: a level that is still in flight is replaced.
Tell(isReset) ==
    /\ commands' = <<isReset>>
    /\ commandAge' = 0

\* Mutant of HoldReset: the end of the wait is forgotten, not told.
MutantHoldReset ==
    /\ pending' = ((pending /\ awaiting') \/ level)
    /\ IF pending' /\ ~pending
       THEN Tell(TRUE)
       ELSE UNCHANGED <<commands, commandAge>>
    /\ UNCHANGED replies

\* DevkitCommands.from_step: a reset is held until the wait is over.
HoldReset ==
    /\ pending' = ((pending /\ awaiting') \/ level)
    /\ IF pending' = pending
       THEN UNCHANGED <<commands, commandAge>>
       ELSE Tell(pending')
    /\ UNCHANGED replies

\* Mutant of TakeLevel: the level is read and left.
MutantTakeLevel ==
    /\ level' = level
    /\ fires' = IF level THEN fires + 1 ELSE fires

\* The level is read and cleared under its lock, and fires one True.
TakeLevel ==
    /\ level' = FALSE
    /\ fires' = IF level THEN fires + 1 ELSE fires

\* A frame is handled: the level is read and cleared, the reply or the
\* commands go out.
HandleFrame ==
    /\ frames # <<>>
    /\ ~off
    /\ frames' = Tail(frames)
    /\ started' = TRUE
    /\ prev' = Head(frames)
    /\ Fired(Head(frames))
    /\ Estimated(Head(frames))
    /\ TakeLevel
    /\ IF official
       THEN HoldReset
       ELSE /\ replies' = <<level>>
            /\ UNCHANGED <<commands, commandAge, pending>>
    /\ UNCHANGED <<official, latch, requests, owed, off, lost>>
    /\ UNCHANGED simVars

\* Mutant of LoseFrame: the level is cleared before the frame is decoded.
MutantLoseFrame ==
    /\ frames # <<>>
    /\ ~off
    /\ lost < MaxLost
    /\ frames' = Tail(frames)
    /\ unseen' = (unseen \/ Head(frames).jumped)
    /\ replies' = IF official THEN <<>> ELSE <<FALSE>>
    /\ lost' = lost + 1
    /\ level' = FALSE
    /\ UNCHANGED <<official, latch, commands, commandAge, pending, off>>
    /\ UNCHANGED <<integral, anchored, fresh, requests, fires, owed>>
    /\ UNCHANGED simVars
    /\ UNCHANGED handshakeVars

\* A malformed frame is answered with the fallback; B drops it, or its
\* assembler has.  The level stays for the next frame.
LoseFrame ==
    /\ frames # <<>>
    /\ ~off
    /\ lost < MaxLost
    /\ frames' = Tail(frames)
    /\ unseen' = (unseen \/ Head(frames).jumped)
    /\ replies' = IF official THEN <<>> ELSE <<FALSE>>
    /\ lost' = lost + 1
    /\ UNCHANGED <<official, latch, commands, commandAge, pending, off>>
    /\ UNCHANGED <<integral, anchored, fresh>>
    /\ UNCHANGED simVars
    /\ UNCHANGED handshakeVars
    /\ UNCHANGED askedVars

\* Mutant of ShutDown: the reset it holds stays held.
MutantShutDown ==
    /\ official
    /\ ~off
    /\ off' = TRUE
    /\ UNCHANGED <<official, pending, lost>>
    /\ UNCHANGED simVars
    /\ UNCHANGED wireVars
    /\ UNCHANGED handshakeVars
    /\ UNCHANGED estimateVars
    /\ UNCHANGED askedVars

\* B lets go of a reset it holds before it ends.
ShutDown ==
    /\ official
    /\ ~off
    /\ off' = TRUE
    /\ IF pending THEN Tell(FALSE) ELSE UNCHANGED <<commands, commandAge>>
    /\ UNCHANGED <<official, frames, replies, latch, pending, lost>>
    /\ UNCHANGED simVars
    /\ UNCHANGED handshakeVars
    /\ UNCHANGED estimateVars
    /\ UNCHANGED askedVars

Next ==
    \/ \E l \in 0 .. 1 : SimResets(l)
    \/ SimRuns
    \/ DevkitHears
    \/ RequestReset
    \/ HandleFrame
    \/ LoseFrame
    \/ ShutDown

Spec == Init /\ [][Next]_vars

\* Frames keep coming and are handled, the devkit hears what it is told, and
\* the duration of a frame under reset keeps varying.
Fairness ==
    /\ WF_vars(SimRuns)
    /\ SF_vars(SimResets(0))
    /\ SF_vars(SimResets(1))
    /\ WF_vars(DevkitHears)
    /\ WF_vars(HandleFrame)

FairSpec == Spec /\ Fairness

----------------------------------------------------------------------------
(* Properties *)

\* What each variable holds; one level at most is in flight to the devkit.
TypeOK ==
    /\ official \in FrontEnds
    /\ lap \in 0 .. Late
    /\ moved \in BOOLEAN
    /\ resetting \in BOOLEAN
    /\ due \in 0 .. MaxReact
    /\ frames \in Seq(Frame)
    /\ replies \in Seq(BOOLEAN)
    /\ latch \in BOOLEAN
    /\ commands \in Seq(BOOLEAN) /\ Len(commands) <= 1
    /\ commandAge \in 0 .. CommandLag
    /\ level \in BOOLEAN
    /\ awaiting \in BOOLEAN
    /\ effectSeen \in BOOLEAN
    /\ waited \in 0 .. ResetWait
    /\ started \in BOOLEAN
    /\ prev \in Frame
    /\ integral \in BOOLEAN
    /\ pending \in BOOLEAN
    /\ off \in BOOLEAN
    /\ anchored \in BOOLEAN
    /\ fresh \in BOOLEAN
    /\ unseen \in BOOLEAN
    /\ requests \in Nat
    /\ fires \in Nat
    /\ owed \in BOOLEAN
    /\ lost \in Nat

\* bridge.py: "a sent reset re-anchors odometry and the loop until the sim has
\* actually reset".  Once the wait for a reset is over, nothing of before it is
\* left: odometry goes on from where the reset has put the car, and the throttle
\* loop holds no integral of the run before, whichever frames are lost and
\* whatever is asked meanwhile.
FreshAfterReset == ~awaiting => anchored /\ fresh

\* A reset that is asked for fires one True, never two: requests that come
\* between two frames are one level, and a level fires once.
OneTruePerRequest == fires + (IF level THEN 1 ELSE 0) <= requests

\* Nobody leaves the official devkit holding a reset: while it does, or is
\* about to, DevkitCommands still owes it the False, or the False is under
\* way, shutdown included.
HoldCovered ==
    latch \/ commands = <<TRUE>> => (pending /\ ~off) \/ commands = <<FALSE>>

\* The levels that are told are those that were asked for: each once, and each
\* taken back.
LevelsCovered == HoldCovered /\ OneTruePerRequest

\* bridge.py: "read and clear together: no request lost".  After a reset has been
\* asked for, a frame of the sim is answered with True, unless the bridge is
\* shut down first: neither a malformed frame nor a hold that is under way
\* loses the request.
RequestReachesSim == owed ~> (~owed \/ off)

\* The sim is let go: a held reset ends, so that the car can drive again.
HoldEnds == latch ~> ~latch
====
