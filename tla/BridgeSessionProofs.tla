---- MODULE BridgeSessionProofs ----
(***************************************************************************)
(* Theorems about the reset of the AutoDRIVE bridge, for both front ends    *)
(* and every depth, lag and number of requests.  All but the last are of    *)
(* any wait, and whether or not the lap clock restarts at the line and      *)
(* however hastily resets are asked for; the last needs a wait that covers  *)
(* what is in flight, and neither of the two.                               *)
(***************************************************************************)
EXTENDS BridgeSession, TLAPS

USE BridgeAssumption DEF simVars, wireVars, handshakeVars, estimateVars, askedVars

\* One frame more in flight, or one less.
LEMMA FrameQueue ==
    ASSUME NEW q \in Seq(Frame)
    PROVE  /\ \A f \in Frame : Append(q, f) \in Seq(Frame)
           /\ q # <<>> => Head(q) \in Frame /\ Tail(q) \in Seq(Frame)
  OBVIOUS

\* A level in flight to the devkit.
LEMMA LevelQueue ==
    ASSUME NEW b \in BOOLEAN
    PROVE  <<b>> \in Seq(BOOLEAN) /\ Len(<<b>>) <= 1 /\ Head(<<b>>) = b
  OBVIOUS

\* The counters start within their bounds.
LEMMA Zeros ==
    0 \in 0 .. MaxReact /\ 0 \in 0 .. CommandLag /\ 0 \in 0 .. ResetWait /\ 0 \in 0 .. Late
  OBVIOUS

\* No level in flight, or one.
LEMMA LevelInFlight ==
    ASSUME NEW q \in Seq(BOOLEAN), Len(q) <= 1, q # <<>>
    PROVE  \E b \in BOOLEAN : q = <<b>>
  <1>1. Len(q) = 1 /\ q[1] \in BOOLEAN
    OBVIOUS
  <1>2. q = <<q[1]>>
    BY <1>1
  <1> QED BY <1>1, <1>2

LEMMA NoReplies == <<>> \in Seq(BOOLEAN)
  OBVIOUS

LEMMA NoneTold == <<>> # <<TRUE>> /\ <<FALSE>> # <<TRUE>>
  <1>1. Len(<<>>) = 0 /\ Len(<<TRUE>>) = 1
    OBVIOUS
  <1>2. <<FALSE>>[1] # <<TRUE>>[1]
    OBVIOUS
  <1> QED BY <1>1, <1>2

\* Front end A has no devkit: nothing is told, latched or held.
LockStep == ~official => commands = <<>> /\ ~latch /\ ~pending

SessionInv == TypeOK /\ LockStep /\ HoldCovered /\ OneTruePerRequest

\* A frame of the sim keeps the types.
LEMMA SendTypes ==
    ASSUME TypeOK, LockStep, NEW l \in 0 .. Late, NEW isMoved \in BOOLEAN, NEW isJump \in BOOLEAN,
           Send(l, isMoved, isJump), due' \in 0 .. MaxReact, resetting' \in BOOLEAN
    PROVE  TypeOK'
  <1>1. frames' \in Seq(Frame)
    <2>1. [lap |-> l, moved |-> isMoved, jumped |-> isJump] \in Frame
      BY DEF Frame
    <2> QED BY <2>1, FrameQueue DEF Send, TypeOK
  <1>2. replies' \in Seq(BOOLEAN)
    BY DEF Send
  <1>3. commandAge' \in 0 .. CommandLag
    <2>1. CASE commands = <<>>
      BY <2>1 DEF Send
    <2>2. CASE commands # <<>>
      <3>1. CASE official
        BY <2>2, <3>1 DEF Send, MaySend, TypeOK
      <3>2. CASE ~official
        BY <2>2, <3>2 DEF LockStep
      <3> QED BY <3>1, <3>2
    <2> QED BY <2>1, <2>2
  <1>4. lap' \in 0 .. Late /\ moved' \in BOOLEAN /\ owed' \in BOOLEAN
    BY DEF Send, TypeOK
  <1> QED BY <1>1, <1>2, <1>3, <1>4 DEF Send, TypeOK

\* Neither what is told and held nor the number of Trues depends on a frame of
\* the sim.
LEMMA SendInv ==
    ASSUME SessionInv, NEW l \in 0 .. Late, NEW isMoved \in BOOLEAN, NEW isJump \in BOOLEAN,
           Send(l, isMoved, isJump), due' \in 0 .. MaxReact, resetting' \in BOOLEAN
    PROVE  SessionInv'
  <1>1. TypeOK'
    BY SendTypes DEF SessionInv
  <1>2. LockStep'
    BY DEF Send, SessionInv, LockStep
  <1>3. HoldCovered'
    BY DEF Send, SessionInv, HoldCovered
  <1>4. OneTruePerRequest'
    BY DEF Send, SessionInv, OneTruePerRequest
  <1> QED BY <1>1, <1>2, <1>3, <1>4 DEF SessionInv

LEMMA SimResetsStep == ASSUME SessionInv, NEW l \in 0 .. 1, SimResets(l) PROVE SessionInv'
  <1>1. l \in 0 .. Late /\ moved \in BOOLEAN
    BY DEF SessionInv, TypeOK
  <1>2. due' \in 0 .. MaxReact /\ resetting' \in BOOLEAN /\ Send(l, FALSE, moved)
    BY Zeros DEF SimResets
  <1> QED BY <1>1, <1>2, SendInv

LEMMA SimRunsStep == ASSUME SessionInv, SimRuns PROVE SessionInv'
  <1>1. due' \in 0 .. MaxReact /\ resetting' \in BOOLEAN
    <2>1. NotYet \subseteq 0 .. MaxReact
      BY DEF NotYet, SessionInv, TypeOK
    <2> QED BY <2>1 DEF SimRuns
  <1>2. PICK l \in NextLap, isMoved \in {moved, TRUE} : Send(l, isMoved, FALSE)
    BY DEF SimRuns
  <1>3. l \in 0 .. Late
    BY DEF NextLap, SessionInv, TypeOK
  <1>4. isMoved \in BOOLEAN
    BY DEF SessionInv, TypeOK
  <1> QED BY <1>1, <1>2, <1>3, <1>4, SendInv

LEMMA DevkitHearsStep == ASSUME SessionInv, DevkitHears PROVE SessionInv'
  <1>1. PICK b \in BOOLEAN : commands = <<b>> /\ latch' = b
    <2>1. PICK b \in BOOLEAN : commands = <<b>>
      BY LevelInFlight DEF DevkitHears, SessionInv, TypeOK
    <2> QED BY <2>1, LevelQueue DEF DevkitHears
  <1>2. TypeOK'
    <2>1. commands' \in Seq(BOOLEAN) /\ Len(commands') <= 1 /\ commandAge' \in 0 .. CommandLag
      BY NoReplies, Zeros DEF DevkitHears
    <2> QED BY <1>1, <2>1 DEF DevkitHears, SessionInv, TypeOK
  <1>3. LockStep'
    BY <1>1 DEF DevkitHears, SessionInv, LockStep
  <1>4. HoldCovered'
    BY <1>1 DEF DevkitHears, SessionInv, HoldCovered
  <1>5. OneTruePerRequest'
    BY DEF DevkitHears, SessionInv, OneTruePerRequest
  <1> QED BY <1>2, <1>3, <1>4, <1>5 DEF SessionInv

LEMMA RequestResetStep == ASSUME SessionInv, RequestReset PROVE SessionInv'
  <1>1. TypeOK'
    BY DEF RequestReset, SessionInv, TypeOK
  <1>2. LockStep'
    BY DEF RequestReset, SessionInv, LockStep
  <1>3. HoldCovered'
    BY DEF RequestReset, SessionInv, HoldCovered
  <1>4. OneTruePerRequest'
    <2>1. fires' = fires /\ requests' = requests + 1 /\ level' = TRUE
          /\ fires \in Nat /\ requests \in Nat /\ fires <= requests
      BY DEF RequestReset, SessionInv, TypeOK, OneTruePerRequest
    <2> QED BY <2>1 DEF OneTruePerRequest
  <1> QED BY <1>1, <1>2, <1>3, <1>4 DEF SessionInv

\* What a hold does to what is told.
LEMMA HoldResetTells ==
    ASSUME SessionInv, HoldReset, UNCHANGED <<latch, off>>, ~off
    PROVE  /\ pending' \in BOOLEAN /\ commandAge' \in 0 .. CommandLag
           /\ commands' \in Seq(BOOLEAN) /\ Len(commands') <= 1
           /\ HoldCovered'
           /\ replies' = replies
  <1>1. pending' \in BOOLEAN
    BY DEF HoldReset
  <1>2. CASE pending' = pending
    <2>1. UNCHANGED <<commands, commandAge, replies>>
      BY <1>2 DEF HoldReset
    <2>2. HoldCovered'
      BY <1>2, <2>1 DEF SessionInv, HoldCovered
    <2> QED BY <1>1, <2>1, <2>2 DEF SessionInv, TypeOK
  <1>3. CASE pending' # pending
    <2>1. PICK b \in BOOLEAN : b = pending'
      BY <1>1
    <2>2. commands' = <<b>> /\ commandAge' = 0 /\ replies' = replies
      BY <1>3, <2>1 DEF HoldReset, Tell
    <2>3. HoldCovered'
      <3>1. CASE b
        BY <2>1, <3>1 DEF HoldCovered
      <3>2. CASE ~b
        BY <2>2, <3>2 DEF HoldCovered
      <3> QED BY <3>1, <3>2
    <2> QED BY <1>1, <2>2, <2>3, LevelQueue, Zeros
  <1> QED BY <1>2, <1>3

LEMMA HandleFrameStep == ASSUME SessionInv, HandleFrame PROVE SessionInv'
  <1>1. frames' \in Seq(Frame) /\ prev' \in Frame
    BY FrameQueue DEF HandleFrame, SessionInv, TypeOK
  <1>2. awaiting' \in BOOLEAN /\ effectSeen' \in BOOLEAN /\ waited' \in 0 .. ResetWait
    <2>1. CASE level
      BY <2>1, Zeros DEF HandleFrame, Fired
    <2>2. CASE ~level
      <3>1. awaiting' = StillAwaiting(Head(frames)) /\ awaiting' \in BOOLEAN
        BY <2>2 DEF HandleFrame, Fired, StillAwaiting
      <3>2. effectSeen' \in BOOLEAN
        BY <2>2 DEF HandleFrame, Fired, SessionInv, TypeOK
      <3>3. waited' \in 0 .. ResetWait
        BY <2>2 DEF HandleFrame, Fired, SessionInv, TypeOK
      <3> QED BY <3>1, <3>2, <3>3
    <2> QED BY <2>1, <2>2
  <1>3. integral' \in BOOLEAN
    BY DEF HandleFrame, Estimated, Wound, SessionInv, TypeOK
  <1>4. anchored' \in BOOLEAN /\ fresh' \in BOOLEAN /\ unseen' \in BOOLEAN
    BY DEF HandleFrame, Estimated
  <1>5. level' = FALSE /\ fires' = (IF level THEN fires + 1 ELSE fires) /\ started' = TRUE
        /\ UNCHANGED <<official, latch, requests, owed, off, lost>> /\ UNCHANGED simVars /\ ~off
    BY DEF HandleFrame, TakeLevel
  <1>6. /\ pending' \in BOOLEAN /\ commandAge' \in 0 .. CommandLag
        /\ commands' \in Seq(BOOLEAN) /\ Len(commands') <= 1
        /\ replies' \in Seq(BOOLEAN)
        /\ HoldCovered' /\ LockStep'
    <2>1. CASE official
      <3>1. HoldReset
        BY <2>1 DEF HandleFrame
      <3> QED BY <2>1, <3>1, <1>5, HoldResetTells DEF SessionInv, TypeOK, LockStep
    <2>2. CASE ~official
      <3>1. replies' = <<level>> /\ UNCHANGED <<commands, commandAge, pending>>
        BY <2>2 DEF HandleFrame
      <3>2. replies' \in Seq(BOOLEAN)
        BY <3>1, LevelQueue DEF SessionInv, TypeOK
      <3> QED BY <2>2, <3>1, <3>2, <1>5 DEF SessionInv, TypeOK, LockStep, HoldCovered
    <2> QED BY <2>1, <2>2
  <1>7. TypeOK'
    <2>1. fires' \in Nat
      BY <1>5 DEF SessionInv, TypeOK
    <2>2. /\ official' \in FrontEnds /\ lap' \in 0 .. Late /\ moved' \in BOOLEAN
          /\ resetting' \in BOOLEAN /\ due' \in 0 .. MaxReact
          /\ latch' \in BOOLEAN /\ off' \in BOOLEAN /\ owed' \in BOOLEAN
          /\ requests' \in Nat /\ lost' \in Nat
          /\ level' \in BOOLEAN /\ started' \in BOOLEAN
      BY <1>5 DEF SessionInv, TypeOK
    <2> QED BY <1>1, <1>2, <1>3, <1>4, <1>6, <2>1, <2>2 DEF TypeOK
  <1>8. OneTruePerRequest'
    BY <1>5 DEF SessionInv, TypeOK, OneTruePerRequest
  <1> QED BY <1>6, <1>7, <1>8 DEF SessionInv

LEMMA LoseFrameStep == ASSUME SessionInv, LoseFrame PROVE SessionInv'
  <1>1. frames' \in Seq(Frame) /\ Head(frames) \in Frame
    BY FrameQueue DEF LoseFrame, SessionInv, TypeOK
  <1>2. unseen' \in BOOLEAN /\ lost' \in Nat
    BY <1>1 DEF LoseFrame, SessionInv, TypeOK
  <1>3. replies' \in Seq(BOOLEAN)
    <2>1. CASE official
      BY <2>1, NoReplies DEF LoseFrame
    <2>2. CASE ~official
      BY <2>2, LevelQueue DEF LoseFrame
    <2> QED BY <2>1, <2>2
  <1>4. TypeOK'
    BY <1>1, <1>2, <1>3 DEF LoseFrame, SessionInv, TypeOK
  <1>5. LockStep'
    BY DEF LoseFrame, SessionInv, LockStep
  <1>6. HoldCovered'
    BY DEF LoseFrame, SessionInv, HoldCovered
  <1>7. OneTruePerRequest'
    BY DEF LoseFrame, SessionInv, OneTruePerRequest
  <1> QED BY <1>4, <1>5, <1>6, <1>7 DEF SessionInv

LEMMA ShutDownStep == ASSUME SessionInv, ShutDown PROVE SessionInv'
  <1>1. CASE pending
    <2>1. commands' = <<FALSE>> /\ commandAge' = 0
      BY <1>1 DEF ShutDown, Tell
    <2>2. TypeOK'
      <3>1. commands' \in Seq(BOOLEAN) /\ Len(commands') <= 1 /\ commandAge' \in 0 .. CommandLag
        BY <2>1, LevelQueue, Zeros
      <3>2. off' = TRUE /\ UNCHANGED <<official, frames, replies, latch, pending, lost>>
            /\ UNCHANGED <<simVars, handshakeVars, estimateVars, askedVars>>
        BY DEF ShutDown
      <3> QED BY <3>1, <3>2 DEF SessionInv, TypeOK
    <2>3. LockStep' /\ HoldCovered'
      BY <2>1 DEF ShutDown, LockStep, HoldCovered
    <2>4. OneTruePerRequest'
      BY DEF ShutDown, SessionInv, OneTruePerRequest
    <2> QED BY <2>2, <2>3, <2>4 DEF SessionInv
  <1>2. CASE ~pending
    <2>1. off' = TRUE /\ UNCHANGED <<commands, commandAge>>
          /\ UNCHANGED <<official, frames, replies, latch, pending, lost>>
          /\ UNCHANGED <<simVars, handshakeVars, estimateVars, askedVars>>
      BY <1>2 DEF ShutDown
    <2>2. TypeOK'
      BY <2>1 DEF SessionInv, TypeOK
    <2>3. LockStep' /\ HoldCovered'
      BY <1>2, <2>1 DEF SessionInv, LockStep, HoldCovered
    <2>4. OneTruePerRequest'
      BY <2>1 DEF SessionInv, OneTruePerRequest
    <2> QED BY <2>2, <2>3, <2>4 DEF SessionInv
  <1> QED BY <1>1, <1>2

\* SessionInv holds in every reachable state.
THEOREM SessionInvariant == Spec => []SessionInv
  <1>1. Init => SessionInv
    <2> SUFFICES ASSUME Init PROVE SessionInv
      OBVIOUS
    <2>1. prev \in Frame
      BY DEF Init, Frame
    <2>2. replies \in Seq(BOOLEAN)
      <3>1. CASE official
        BY <3>1, NoReplies DEF Init
      <3>2. CASE ~official
        BY <3>2, LevelQueue DEF Init
      <3> QED BY <3>1, <3>2
    <2>3. TypeOK
      <3>1. frames \in Seq(Frame) /\ commands \in Seq(BOOLEAN) /\ Len(commands) <= 1
        BY DEF Init
      <3> QED BY <2>1, <2>2, <3>1, Zeros DEF Init, TypeOK
    <2> QED BY <2>3 DEF Init, SessionInv, LockStep, HoldCovered, OneTruePerRequest
  <1>2. SessionInv /\ [Next]_vars => SessionInv'
    <2> SUFFICES ASSUME SessionInv, [Next]_vars PROVE SessionInv'
      OBVIOUS
    <2>1. ASSUME NEW l \in 0 .. 1, SimResets(l) PROVE SessionInv'
      BY <2>1, SimResetsStep
    <2>2. CASE SimRuns
      BY <2>2, SimRunsStep
    <2>3. CASE DevkitHears
      BY <2>3, DevkitHearsStep
    <2>4. CASE RequestReset
      BY <2>4, RequestResetStep
    <2>5. CASE HandleFrame
      BY <2>5, HandleFrameStep
    <2>6. CASE LoseFrame
      BY <2>6, LoseFrameStep
    <2>7. CASE ShutDown
      BY <2>7, ShutDownStep
    <2>8. CASE UNCHANGED vars
      <3>1. TypeOK'
        BY <2>8 DEF vars, SessionInv, TypeOK
      <3>2. LockStep' /\ HoldCovered' /\ OneTruePerRequest'
        BY <2>8 DEF vars, SessionInv, LockStep, HoldCovered, OneTruePerRequest
      <3> QED BY <3>1, <3>2 DEF SessionInv
    <2> QED BY <2>1, <2>2, <2>3, <2>4, <2>5, <2>6, <2>7, <2>8 DEF Next
  <1> QED BY <1>1, <1>2, PTL DEF Spec

\* Every variable keeps its type: in particular one level at most is in flight
\* to the devkit, and the wait for a reset does not outgrow its bound.
THEOREM TypeCorrect == Spec => []TypeOK
  <1>1. SessionInv => TypeOK
    BY DEF SessionInv
  <1> QED BY <1>1, SessionInvariant, PTL

\* Nobody leaves the devkit holding a reset.
THEOREM HoldCoveredHolds == Spec => []HoldCovered
  <1>1. SessionInv => HoldCovered
    BY DEF SessionInv
  <1> QED BY <1>1, SessionInvariant, PTL

\* No request fires twice.
THEOREM OneTruePerRequestHolds == Spec => []OneTruePerRequest
  <1>1. SessionInv => OneTruePerRequest
    BY DEF SessionInv
  <1> QED BY <1>1, SessionInvariant, PTL

\* Each level that is told was asked for once, and is taken back (bridge.py,
\* on_sim_frame; devkit.py, DevkitCommands).
THEOREM LevelsCoveredHolds == Spec => []LevelsCovered
  <1>1. HoldCovered /\ OneTruePerRequest => LevelsCovered
    BY DEF LevelsCovered
  <1> QED BY <1>1, HoldCoveredHolds, OneTruePerRequestHolds, PTL

----------------------------------------------------------------------------
(* What is left of a run once the wait for a reset is over *)

\* The second frame shows no reset after the first: its lap clock is later (two
\* late ones are apart) and its encoders have not fallen.
NoFall(first, second) ==
    /\ second.lap > first.lap \/ (second.lap = Late /\ first.lap = Late)
    /\ first.moved => second.moved

\* No frame in flight shows a reset after another one, and the sim has not reset
\* since.
FramesRise ==
    /\ \A i, j \in 1 .. Len(frames) : i < j => NoFall(frames[i], frames[j])
    /\ \A i \in 1 .. Len(frames) :
          frames[i].lap <= lap /\ (frames[i].moved => moved)

\* Nor after the last one handled.
PrevRises ==
    /\ prev.lap <= lap
    /\ prev.moved => moved
    /\ \A i \in 1 .. Len(frames) : NoFall(prev, frames[i])

NoneJumped == \A i \in 1 .. Len(frames) : ~frames[i].jumped

\* The sim will not move the car again: it has been told of no reset, or keeps
\* it where the last one has put it.
AtRest ==
    /\ due = 0
    /\ commands # <<TRUE>>
    /\ latch => resetting
    /\ ~official => replies # <<TRUE>>

\* The frames the sim may still send, up to the one that shows its reset.
Budget ==
    IF due > 0 THEN due
    ELSE IF commands # <<>> THEN (CommandLag - commandAge) + MaxReact + 1
    ELSE MaxReact + 1

\* A reset is on its way to the sim, and comes before the wait runs out.
Coming ==
    /\ ~effectSeen
    /\ NoneJumped /\ FramesRise /\ PrevRises
    /\ waited + Len(frames) + Budget <= ResetWait
    /\ official => /\ ~resetting
                   /\ \/ commands = <<TRUE>> /\ ~latch /\ due = 0
                      \/ commands = <<>> /\ latch
    /\ ~official => due > 0 \/ replies = <<TRUE>>

\* A frame that shows a move comes before the wait runs out, and no frame
\* before it ends the wait.
JumpInTime ==
    \A i \in 1 .. Len(frames) :
        frames[i].jumped =>
            /\ waited + i <= ResetWait
            /\ \A j \in 1 .. Len(frames) : j < i => NoFall(prev, frames[j])
            /\ \A j, k \in 1 .. Len(frames) : j < k /\ k < i => NoFall(frames[j], frames[k])
            /\ \A j \in 1 .. Len(frames) : i < j => ~frames[j].jumped

\* What is under way on each front end.
Wires ==
    /\ resetting => ~moved
    /\ awaiting => started
    /\ official => /\ pending = awaiting
                   /\ Len(frames) <= Depth
    /\ ~official => /\ ~off
                    /\ Len(replies) <= 1
                    /\ frames # <<>> => /\ Len(frames) = 1 /\ replies = <<>>
                                        /\ frames[1].lap = lap /\ frames[1].moved = moved

\* A reset is asked for when nothing of the last one is under way.
AskedAtRest ==
    official /\ ~awaiting /\ ~off /\ (level \/ requests = 0) =>
        /\ ~latch /\ commands = <<>>
        /\ FramesRise
        /\ frames # <<>> => ~resetting

\* Nothing of a move of the car is left to be seen.
Calm == AtRest /\ NoneJumped /\ ~unseen

Phases ==
    IF awaiting /\ ~effectSeen
    THEN Coming \/ (AtRest /\ JumpInTime)
    ELSE Calm

WaitInv ==
    /\ Wires
    /\ AskedAtRest
    /\ requests = 0 => ~awaiting
    /\ ~off => Phases
    /\ FreshAfterReset

\* What a frame holds.
LEMMA FrameTypes ==
    ASSUME TypeOK
    PROVE  /\ \A i \in 1 .. Len(frames) :
                 /\ frames[i].lap \in 0 .. Late
                 /\ frames[i].moved \in BOOLEAN /\ frames[i].jumped \in BOOLEAN
           /\ prev.lap \in 0 .. Late /\ prev.moved \in BOOLEAN
           /\ lap \in 0 .. Late /\ moved \in BOOLEAN
           /\ Len(frames) \in Nat
  <1>1. \A i \in 1 .. Len(frames) : frames[i] \in Frame
    BY DEF TypeOK
  <1> QED BY <1>1 DEF TypeOK, Frame

\* A sent frame is the last of those in flight.
LEMMA SendShape ==
    ASSUME TypeOK, NEW l \in 0 .. Late, NEW isMoved \in BOOLEAN, NEW isJump \in BOOLEAN,
           Send(l, isMoved, isJump)
    PROVE  /\ Len(frames) \in Nat /\ Len(frames') = Len(frames) + 1
           /\ \A i \in 1 .. Len(frames) : frames'[i] = frames[i]
           /\ frames'[Len(frames) + 1].lap = l
           /\ frames'[Len(frames) + 1].moved = isMoved
           /\ frames'[Len(frames) + 1].jumped = isJump
           /\ lap' = l /\ moved' = isMoved
  <1> DEFINE f == [lap |-> l, moved |-> isMoved, jumped |-> isJump]
  <1>1. f \in Frame /\ f.lap = l /\ f.moved = isMoved /\ f.jumped = isJump
    BY DEF Frame
  <1>2. frames' = Append(frames, f) /\ frames \in Seq(Frame) /\ lap' = l /\ moved' = isMoved
    BY DEF Send, TypeOK
  <1> HIDE DEF f
  <1>3. /\ Len(frames) \in Nat /\ Len(frames') = Len(frames) + 1
        /\ \A i \in 1 .. Len(frames) : frames'[i] = frames[i]
        /\ frames'[Len(frames) + 1] = f
    BY <1>1, <1>2
  <1> QED BY <1>1, <1>2, <1>3

\* The oldest frame leaves the others.
LEMMA TailShape ==
    ASSUME TypeOK, frames # <<>>, frames' = Tail(frames)
    PROVE  /\ Len(frames) \in Nat /\ Len(frames') = Len(frames) - 1 /\ 1 \in 1 .. Len(frames)
           /\ Head(frames) = frames[1]
           /\ \A i \in 1 .. Len(frames') :
                 i + 1 \in 1 .. Len(frames) /\ frames'[i] = frames[i + 1]
  <1>1. frames \in Seq(Frame) /\ Len(frames) \in Nat /\ Len(frames) # 0
    BY DEF TypeOK
  <1> QED BY <1>1

----------------------------------------------------------------------------

\* A frame of a sim that runs on.
LEMMA SendRises ==
    ASSUME TypeOK, NEW l \in 0 .. Late, NEW isMoved \in BOOLEAN, NEW isJump \in BOOLEAN,
           Send(l, isMoved, isJump), l > lap \/ (l = Late /\ lap = Late), moved => isMoved
    PROVE  /\ FramesRise => FramesRise'
           /\ FramesRise /\ PrevRises => PrevRises'
  <1> DEFINE n == Len(frames)
  <1>1. /\ n \in Nat /\ Len(frames') = n + 1
        /\ \A i \in 1 .. n : frames'[i] = frames[i]
        /\ frames'[n + 1].lap = l /\ frames'[n + 1].moved = isMoved
        /\ lap' = l /\ moved' = isMoved
    BY SendShape
  <1>2. /\ \A i \in 1 .. n : frames[i].lap \in 0 .. Late /\ frames[i].moved \in BOOLEAN
        /\ prev.lap \in 0 .. Late /\ prev.moved \in BOOLEAN
        /\ lap \in 0 .. Late /\ moved \in BOOLEAN
    BY FrameTypes
  <1>3. prev' = prev
    BY DEF Send
  <1> HIDE DEF n
  <1>4. \A i \in 1 .. n + 1 : i \in 1 .. n \/ i = n + 1
    BY <1>1
  <1>5. ASSUME FramesRise PROVE FramesRise'
    <2>1. \A i \in 1 .. n : frames[i].lap <= lap /\ (frames[i].moved => moved)
      BY <1>5 DEF FramesRise, n
    <2>2. \A i \in 1 .. n : frames[i].lap <= l
      BY <1>2, <2>1
    <2>3. \A i \in 1 .. n : l > frames[i].lap \/ (l = Late /\ frames[i].lap = Late)
      BY <1>2, <2>1
    <2>4. \A i \in 1 .. n : frames[i].moved => isMoved
      BY <2>1, Zenon
    <2>5. \A i, j \in 1 .. n : i < j => NoFall(frames[i], frames[j])
      BY <1>5 DEF FramesRise, n
    <2>6. \A i \in 1 .. n : NoFall(frames'[i], frames'[n + 1])
      BY <1>1, <2>3, <2>4 DEF NoFall
    <2>7. \A i, j \in 1 .. n : i < j => NoFall(frames'[i], frames'[j])
      <3> SUFFICES ASSUME NEW i \in 1 .. n, NEW j \in 1 .. n, i < j
                   PROVE  NoFall(frames'[i], frames'[j])
        OBVIOUS
      <3>1. frames'[i] = frames[i] /\ frames'[j] = frames[j]
        BY <1>1
      <3> QED BY <2>5, <3>1
    <2>8. \A i, j \in 1 .. n + 1 : i < j => i \in 1 .. n /\ (j \in 1 .. n \/ j = n + 1)
      BY <1>1
    <2>9. \A i, j \in 1 .. n + 1 : i < j => NoFall(frames'[i], frames'[j])
      BY <2>6, <2>7, <2>8, Zenon
    <2>10. l <= l
      OBVIOUS
    <2>11. \A i \in 1 .. n + 1 : frames'[i].lap <= l /\ (frames'[i].moved => isMoved)
      BY <1>1, <1>4, <2>2, <2>4, <2>10, Zenon
    <2> QED BY <1>1, <2>9, <2>11 DEF FramesRise
  <1>6. ASSUME FramesRise, PrevRises PROVE PrevRises'
    <2>1. prev.lap <= lap /\ (prev.moved => moved) /\ \A i \in 1 .. n : NoFall(prev, frames[i])
      BY <1>6 DEF PrevRises, n
    <2>2. prev.lap <= l /\ (l > prev.lap \/ (l = Late /\ prev.lap = Late))
      BY <1>2, <2>1
    <2>3. prev.moved => isMoved
      BY <2>1, Zenon
    <2>4. NoFall(prev, frames'[n + 1])
      BY <1>1, <2>2, <2>3 DEF NoFall
    <2>5. \A i \in 1 .. n : NoFall(prev, frames'[i])
      BY <1>1, <2>1
    <2>6. \A i \in 1 .. n + 1 : NoFall(prev, frames'[i])
      BY <1>4, <2>4, <2>5, Zenon
    <2> QED BY <1>1, <1>3, <2>2, <2>3, <2>6 DEF PrevRises
  <1> QED BY <1>5, <1>6

\* A frame that shows no move.
LEMMA SendNoJump ==
    ASSUME TypeOK, NEW l \in 0 .. Late, NEW isMoved \in BOOLEAN, Send(l, isMoved, FALSE)
    PROVE  /\ NoneJumped => NoneJumped'
           /\ JumpInTime => JumpInTime'
  <1> DEFINE n == Len(frames)
  <1>1. /\ n \in Nat /\ Len(frames') = n + 1
        /\ \A i \in 1 .. n : frames'[i] = frames[i]
        /\ ~frames'[n + 1].jumped
    BY SendShape
  <1>2. prev' = prev /\ waited' = waited
    BY DEF Send
  <1> HIDE DEF n
  <1>3. \A i \in 1 .. n + 1 : i \in 1 .. n \/ i = n + 1
    BY <1>1
  <1>4. ASSUME NoneJumped PROVE NoneJumped'
    <2>1. \A i \in 1 .. n : ~frames'[i].jumped
      BY <1>1, <1>4 DEF NoneJumped, n
    <2> QED BY <1>1, <1>3, <2>1 DEF NoneJumped
  <1>5. ASSUME JumpInTime PROVE JumpInTime'
    <2> SUFFICES ASSUME NEW i \in 1 .. n + 1, frames'[i].jumped
                 PROVE  /\ waited + i <= ResetWait
                        /\ \A j \in 1 .. n + 1 : j < i => NoFall(prev, frames'[j])
                        /\ \A j, k \in 1 .. n + 1 :
                              j < k /\ k < i => NoFall(frames'[j], frames'[k])
                        /\ \A j \in 1 .. n + 1 : i < j => ~frames'[j].jumped
      BY <1>1, <1>2 DEF JumpInTime
    <2>1. i \in 1 .. n /\ frames[i].jumped
      BY <1>1, <1>3
    <2>2. /\ waited + i <= ResetWait
          /\ \A j \in 1 .. n : j < i => NoFall(prev, frames[j])
          /\ \A j, k \in 1 .. n : j < k /\ k < i => NoFall(frames[j], frames[k])
          /\ \A j \in 1 .. n : i < j => ~frames[j].jumped
      BY <1>5, <2>1 DEF JumpInTime, n
    <2>3. \A j \in 1 .. n + 1 : j < i => j \in 1 .. n
      BY <1>1, <2>1
    <2>4. \A j \in 1 .. n + 1 : j < i => NoFall(prev, frames'[j])
      BY <1>1, <2>2, <2>3
    <2>5. \A j, k \in 1 .. n + 1 : j < k /\ k < i => j \in 1 .. n /\ k \in 1 .. n
      BY <1>1, <2>1
    <2>6. \A j, k \in 1 .. n + 1 : j < k /\ k < i => NoFall(frames'[j], frames'[k])
      <3> SUFFICES ASSUME NEW j \in 1 .. n + 1, NEW k \in 1 .. n + 1, j < k, k < i
                   PROVE  NoFall(frames'[j], frames'[k])
        OBVIOUS
      <3>1. j \in 1 .. n /\ k \in 1 .. n
        BY <2>5
      <3>2. frames'[j] = frames[j] /\ frames'[k] = frames[k]
        BY <1>1, <3>1
      <3> QED BY <2>2, <3>1, <3>2
    <2>7. \A j \in 1 .. n + 1 : i < j => ~frames'[j].jumped
      BY <1>1, <1>3, <2>2
    <2> QED BY <2>2, <2>4, <2>6, <2>7
  <1> QED BY <1>4, <1>5

\* The frame that shows the awaited reset.
LEMMA SendJump ==
    ASSUME TypeOK, NEW l \in 0 .. Late, NEW isMoved \in BOOLEAN, NEW isJump \in BOOLEAN,
           Send(l, isMoved, isJump), NoneJumped, FramesRise, PrevRises,
           waited + Len(frames) + 1 <= ResetWait
    PROVE  JumpInTime'
  <1> DEFINE n == Len(frames)
  <1>1. /\ n \in Nat /\ Len(frames') = n + 1
        /\ \A i \in 1 .. n : frames'[i] = frames[i]
    BY SendShape
  <1>2. prev' = prev /\ waited' = waited /\ waited \in Nat
    BY DEF Send, TypeOK
  <1>3. \A i \in 1 .. n : ~frames'[i].jumped /\ NoFall(prev, frames'[i])
    BY <1>1 DEF NoneJumped, PrevRises
  <1>4. \A i, j \in 1 .. n : i < j => NoFall(frames[i], frames[j])
    BY DEF FramesRise
  <1>5. waited + (n + 1) <= ResetWait
    BY <1>1, <1>2
  <1> HIDE DEF n
  <1> SUFFICES ASSUME NEW i \in 1 .. n + 1, frames'[i].jumped
               PROVE  /\ waited + i <= ResetWait
                      /\ \A j \in 1 .. n + 1 : j < i => NoFall(prev, frames'[j])
                      /\ \A j, k \in 1 .. n + 1 :
                            j < k /\ k < i => NoFall(frames'[j], frames'[k])
                      /\ \A j \in 1 .. n + 1 : i < j => ~frames'[j].jumped
    BY <1>1, <1>2 DEF JumpInTime
  <1>6. i = n + 1
    BY <1>1, <1>3
  <1>7. \A j \in 1 .. n + 1 : j < i => j \in 1 .. n
    BY <1>1, <1>6
  <1>8. \A j, k \in 1 .. n + 1 : j < k /\ k < i => NoFall(frames'[j], frames'[k])
    <2> SUFFICES ASSUME NEW j \in 1 .. n + 1, NEW k \in 1 .. n + 1, j < k, k < i
                 PROVE  NoFall(frames'[j], frames'[k])
      OBVIOUS
    <2>1. j \in 1 .. n /\ k \in 1 .. n
      BY <1>1, <1>6
    <2>2. frames'[j] = frames[j] /\ frames'[k] = frames[k]
      BY <1>1, <2>1
    <2> QED BY <1>4, <2>1, <2>2
  <1>9. \A j \in 1 .. n + 1 : ~(i < j)
    BY <1>1, <1>6
  <1> QED BY <1>3, <1>5, <1>6, <1>7, <1>8, <1>9

\* What is left in flight of frames of a sim that ran on.
LEMMA TailRises ==
    ASSUME TypeOK, frames # <<>>, frames' = Tail(frames), lap' = lap, moved' = moved
    PROVE  /\ FramesRise => FramesRise'
           /\ FramesRise /\ prev' = Head(frames) => PrevRises'
           /\ PrevRises /\ prev' = prev => PrevRises'
           /\ NoneJumped => NoneJumped'
  <1> DEFINE n == Len(frames)
  <1>1. /\ n \in Nat /\ Len(frames') = n - 1 /\ 1 \in 1 .. n
        /\ Head(frames) = frames[1]
        /\ \A i \in 1 .. n - 1 : i + 1 \in 1 .. n /\ frames'[i] = frames[i + 1]
    BY TailShape
  <1> HIDE DEF n
  <1>2. ASSUME FramesRise PROVE FramesRise'
    <2>1. \A i, j \in 1 .. n : i < j => NoFall(frames[i], frames[j])
      BY <1>2 DEF FramesRise, n
    <2>2. \A i \in 1 .. n : frames[i].lap <= lap /\ (frames[i].moved => moved)
      BY <1>2 DEF FramesRise, n
    <2>3. \A i, j \in 1 .. n - 1 : i < j => i + 1 < j + 1
      BY <1>1
    <2>4. \A i, j \in 1 .. n - 1 : i < j => NoFall(frames'[i], frames'[j])
      BY <1>1, <2>1, <2>3, Zenon
    <2>5. \A i \in 1 .. n - 1 : frames'[i].lap <= lap /\ (frames'[i].moved => moved)
      BY <1>1, <2>2, Zenon
    <2> QED BY <1>1, <2>4, <2>5 DEF FramesRise
  <1>3. ASSUME FramesRise, prev' = Head(frames) PROVE PrevRises'
    <2>1. prev'.lap <= lap /\ (prev'.moved => moved)
      BY <1>1, <1>3 DEF FramesRise, n
    <2>2. \A i \in 1 .. n - 1 : 1 < i + 1 /\ i + 1 \in 1 .. n
      BY <1>1
    <2>3. \A i, j \in 1 .. n : i < j => NoFall(frames[i], frames[j])
      BY <1>3 DEF FramesRise, n
    <2>4. \A i \in 1 .. n - 1 : NoFall(frames[1], frames[i + 1])
      BY <1>1, <2>2, <2>3, Zenon
    <2>5. \A i \in 1 .. n - 1 : NoFall(prev', frames'[i])
      BY <1>1, <1>3, <2>4
    <2> QED BY <1>1, <2>1, <2>5 DEF PrevRises
  <1>4. ASSUME PrevRises, prev' = prev PROVE PrevRises'
    <2>1. \A i \in 1 .. n - 1 : NoFall(prev, frames'[i])
      BY <1>1, <1>4 DEF PrevRises, n
    <2> QED BY <1>1, <1>4, <2>1 DEF PrevRises
  <1>5. ASSUME NoneJumped PROVE NoneJumped'
    BY <1>1, <1>5 DEF NoneJumped, n
  <1> QED BY <1>2, <1>3, <1>4, <1>5

LEMMA WaitShift ==
    ASSUME NEW v \in Nat, NEW w \in Nat, NEW k \in Int, v <= w + 1, w + (k + 1) <= ResetWait
    PROVE  v + k <= ResetWait
  OBVIOUS

\* The frame that shows the reset comes nearer as fast as the wait goes on.
LEMMA TailInTime ==
    ASSUME TypeOK, TypeOK', frames # <<>>, frames' = Tail(frames), JumpInTime,
           \/ prev' = Head(frames) /\ waited' <= waited + 1
           \/ prev' = prev /\ waited' = waited
    PROVE  JumpInTime'
  <1> DEFINE n == Len(frames)
  <1>1. /\ n \in Nat /\ Len(frames') = n - 1 /\ 1 \in 1 .. n
        /\ Head(frames) = frames[1]
        /\ \A i \in 1 .. n - 1 : i + 1 \in 1 .. n /\ frames'[i] = frames[i + 1]
    BY TailShape
  <1>2. waited \in Nat /\ waited' \in Nat /\ waited' <= waited + 1
    BY DEF TypeOK
  <1> HIDE DEF n
  <1> SUFFICES ASSUME NEW i \in 1 .. n - 1, frames'[i].jumped
               PROVE  /\ waited' + i <= ResetWait
                      /\ \A j \in 1 .. n - 1 : j < i => NoFall(prev', frames'[j])
                      /\ \A j, k \in 1 .. n - 1 :
                            j < k /\ k < i => NoFall(frames'[j], frames'[k])
                      /\ \A j \in 1 .. n - 1 : i < j => ~frames'[j].jumped
    BY <1>1 DEF JumpInTime
  <1>3. i + 1 \in 1 .. n /\ frames[i + 1].jumped
    BY <1>1
  <1>4. PICK m \in 1 .. n : m = i + 1 /\ frames[m].jumped
    BY <1>3
  <1>5. /\ waited + m <= ResetWait
        /\ \A j \in 1 .. n : j < m => NoFall(prev, frames[j])
        /\ \A j, k \in 1 .. n : j < k /\ k < m => NoFall(frames[j], frames[k])
        /\ \A j \in 1 .. n : m < j => ~frames[j].jumped
    BY <1>4 DEF JumpInTime, n
  <1>6. waited' + i <= ResetWait
    <2>1. PICK v, w \in Nat : v = waited' /\ w = waited /\ v <= w + 1
      BY <1>2
    <2>2. PICK k \in Int : k = i
      BY <1>1
    <2>3. w + (k + 1) <= ResetWait
      BY <1>4, <1>5, <2>1, <2>2
    <2>4. v + k <= ResetWait
      BY <2>1, <2>3, WaitShift
    <2> QED BY <2>1, <2>2, <2>4
  <1>7. \A j, k \in 1 .. n - 1 : j < k /\ k < i => j + 1 < k + 1 /\ k + 1 < m
    BY <1>1, <1>4
  <1>8. \A j, k \in 1 .. n - 1 : j < k /\ k < i => NoFall(frames'[j], frames'[k])
    BY <1>1, <1>5, <1>7, Zenon
  <1>9. \A j \in 1 .. n - 1 : i < j => m < j + 1
    BY <1>1, <1>4
  <1>10. \A j \in 1 .. n - 1 : i < j => ~frames'[j].jumped
    BY <1>1, <1>5, <1>9, Zenon
  <1>11. \A j \in 1 .. n - 1 : j < i => 1 < j + 1 /\ j + 1 < m
    BY <1>1, <1>4
  <1>12. \A j \in 1 .. n - 1 : j < i => NoFall(prev, frames'[j]) /\ NoFall(frames[1], frames'[j])
    BY <1>1, <1>5, <1>11, Zenon
  <1>13. prev' = prev \/ prev' = frames[1]
    BY <1>1
  <1>14. \A j \in 1 .. n - 1 : j < i => NoFall(prev', frames'[j])
    BY <1>12, <1>13
  <1> QED BY <1>6, <1>8, <1>10, <1>14

----------------------------------------------------------------------------

\* What the sim is asked to do while it is at rest: nothing, or what it did
\* last.
LEMMA AtRestDemand ==
    ASSUME SessionInv, Wires, AtRest
    PROVE  Demand => official /\ latch /\ resetting /\ ~moved
  <1>1. CASE official
    BY <1>1 DEF AtRest, Wires, Demand
  <1>2. CASE ~official
    <2>1. ASSUME replies # <<>> PROVE ~Head(replies)
      <3>1. replies \in Seq(BOOLEAN) /\ Len(replies) <= 1 /\ replies # <<TRUE>>
        BY <1>2 DEF SessionInv, TypeOK, Wires, AtRest
      <3>2. PICK b \in BOOLEAN : replies = <<b>>
        BY <2>1, <3>1, LevelInFlight
      <3> QED BY <3>1, <3>2, LevelQueue
    <2> QED BY <1>2, <2>1 DEF Demand
  <1> QED BY <1>1, <1>2

LEMMA AtRestSends ==
    ASSUME SessionInv, Wires, AtRest, SimRuns \/ \E l \in 0 .. 1 : SimResets(l)
    PROVE  /\ AtRest'
           /\ NoneJumped => NoneJumped'
           /\ JumpInTime => JumpInTime'
  <1>1. due = 0 /\ ~(due > 0)
    BY DEF AtRest
  <1>2. CASE SimRuns
    <2>1. ~Demand
      BY <1>2, AtRestDemand DEF SimRuns
    <2>2. due' = 0 /\ resetting' = FALSE
      BY <1>1, <1>2, <2>1 DEF SimRuns, NotYet
    <2>3. PICK l \in NextLap, isMoved \in {moved, TRUE} : Send(l, isMoved, FALSE)
      BY <1>2 DEF SimRuns
    <2>4. l \in 0 .. Late /\ isMoved \in BOOLEAN /\ TypeOK
      <3>1. l \in 0 .. Late
        BY DEF NextLap, SessionInv, TypeOK
      <3>2. isMoved \in BOOLEAN /\ TypeOK
        BY DEF SessionInv, TypeOK
      <3> QED BY <3>1, <3>2
    <2>5. (NoneJumped => NoneJumped') /\ (JumpInTime => JumpInTime')
      BY <2>3, <2>4, SendNoJump
    <2>6. commands' = commands /\ latch' = latch /\ replies' = <<>> /\ official' = official
      BY <2>3 DEF Send
    <2>7. latch' => resetting'
      <3>1. CASE official
        BY <2>1, <2>6, <3>1 DEF Demand
      <3>2. CASE ~official
        BY <2>6, <3>2 DEF SessionInv, LockStep
      <3> QED BY <3>1, <3>2
    <2>8. commands' # <<TRUE>>
      BY <2>6 DEF AtRest
    <2>9. replies' # <<TRUE>>
      BY <2>6
    <2> QED BY <2>2, <2>5, <2>7, <2>8, <2>9 DEF AtRest
  <1>3. ASSUME NEW l \in 0 .. 1, SimResets(l)
        PROVE  AtRest' /\ (NoneJumped => NoneJumped') /\ (JumpInTime => JumpInTime')
    <2>1. Demand
      BY <1>1, <1>3 DEF SimResets
    <2>2. moved = FALSE
      BY <2>1, AtRestDemand DEF SessionInv, TypeOK
    <2>3. Send(l, FALSE, FALSE) /\ due' = 0 /\ resetting' = TRUE
      <3>1. Send(l, FALSE, moved) /\ due' = 0 /\ resetting' = TRUE
        BY <1>3 DEF SimResets
      <3> QED BY <2>2, <3>1
    <2>4. l \in 0 .. Late /\ TypeOK
      BY DEF SessionInv
    <2>5. (NoneJumped => NoneJumped') /\ (JumpInTime => JumpInTime')
      BY <2>3, <2>4, SendNoJump
    <2>6. commands' = commands /\ replies' = <<>>
      BY <2>3 DEF Send
    <2>7. commands' # <<TRUE>> /\ replies' # <<TRUE>>
      BY <2>6 DEF AtRest
    <2> QED BY <2>3, <2>5, <2>7 DEF AtRest
  <1> QED BY <1>2, <1>3

\* The sim may always send one frame more, before it resets.
LEMMA BudgetLeft ==
    ASSUME SessionInv
    PROVE  /\ Budget \in Nat /\ Budget >= 1
           /\ due = 0 => Budget <= (CommandLag + MaxReact) + 1
           /\ due > 0 => Budget = due /\ due <= MaxReact
           /\ due = 0 /\ commands = <<>> => Budget = MaxReact + 1
  <1>1. due \in 0 .. MaxReact /\ commandAge \in 0 .. CommandLag
    BY DEF SessionInv, TypeOK
  <1> QED BY <1>1 DEF Budget

\* What a sim that has been asked, and runs on, has left.
LEMMA BudgetSpent ==
    ASSUME SessionInv, Wires, Coming, SimRuns
    PROVE  /\ due' \in 0 .. MaxReact
           /\ (~official /\ due' = 0) \/ Budget' = Budget - 1
           /\ official /\ commands = <<TRUE>> => due' = 0
           /\ ~official => due' > 0 \/ due' = 0
  <1>1. due \in 0 .. MaxReact /\ commandAge \in 0 .. CommandLag /\ due' \in NotYet
    BY DEF SessionInv, TypeOK, SimRuns
  <1>2. PICK l \in NextLap, isMoved \in {moved, TRUE} : Send(l, isMoved, FALSE)
    BY DEF SimRuns
  <1>3. /\ commands' = commands
        /\ commandAge' = IF commands = <<>> THEN 0 ELSE commandAge + 1
        /\ official /\ commands # <<>> => commandAge < CommandLag
    BY <1>2 DEF Send, MaySend
  <1>4. CASE due > 0
    <2>1. due' = due - 1 /\ due' > 0 /\ due' \in 0 .. MaxReact
      BY <1>1, <1>4 DEF NotYet
    <2>2. Budget = due /\ Budget' = due'
      BY <1>4, <2>1 DEF Budget
    <2>3. ~(commands = <<TRUE>> /\ official)
      <3>1. due # 0
        BY <1>4
      <3>2. official => (commands = <<TRUE>> /\ due = 0) \/ commands = <<>>
        BY DEF Coming
      <3> QED BY <3>1, <3>2, NoneTold, Zenon
    <2>4. Budget' = Budget - 1
      BY <2>1, <2>2
    <2> QED BY <2>1, <2>3, <2>4, Zenon
  <1>5. CASE due = 0 /\ ~Demand
    <2>1. due' = 0
      BY <1>1, <1>5 DEF NotYet
    <2>2. CASE official
      <3>1. commands = <<TRUE>>
        BY <1>5, <2>2 DEF Coming, Demand
      <3>2. commands # <<>> /\ commands' # <<>>
        BY <1>3, <3>1
      <3>3. Budget = (CommandLag - commandAge) + MaxReact + 1
        BY <1>5, <3>2 DEF Budget
      <3>4. Budget' = (CommandLag - (commandAge + 1)) + MaxReact + 1
        BY <1>3, <2>1, <3>2 DEF Budget
      <3>5. (CommandLag - (commandAge + 1)) + MaxReact + 1
              = ((CommandLag - commandAge) + MaxReact + 1) - 1
        BY <1>1
      <3>6. Budget' = Budget - 1
        BY <3>3, <3>4, <3>5
      <3> QED BY <2>1, <3>6
    <2>3. CASE ~official
      BY <2>1, <2>3
    <2> QED BY <2>2, <2>3
  <1>6. CASE due = 0 /\ Demand
    <2>1. (due' = MaxReact /\ MaxReact > 0) \/ (due' = 0 /\ ~official)
      BY <1>1, <1>6 DEF NotYet
    <2>2. commands = <<>>
      <3>1. CASE official
        BY <1>6, <3>1, NoneTold DEF Coming, Demand
      <3>2. CASE ~official
        BY <3>2 DEF SessionInv, LockStep
      <3> QED BY <3>1, <3>2
    <2>3. Budget = MaxReact + 1
      BY <1>6, <2>2, BudgetLeft
    <2>4. CASE due' = MaxReact /\ MaxReact > 0
      <3>1. Budget' = MaxReact
        BY <2>4 DEF Budget
      <3>2. commands # <<TRUE>>
        BY <2>2, NoneTold
      <3>3. Budget' = Budget - 1 /\ due' \in 0 .. MaxReact /\ due' > 0
        BY <2>3, <2>4, <3>1
      <3> QED BY <3>2, <3>3, Zenon
    <2>5. CASE due' = 0 /\ ~official
      <3>1. due' \in 0 .. MaxReact
        BY <2>5
      <3> QED BY <2>5, <3>1, Zenon
    <2> QED BY <2>1, <2>4, <2>5, Zenon
  <1>7. due > 0 \/ due = 0
    BY <1>1
  <1> QED BY <1>4, <1>5, <1>6, <1>7, Zenon

\* Once asked, the sim runs on for less than the budget, or has not heard
\* (front end A).
LEMMA ComingRuns ==
    ASSUME ~LapLine, SessionInv, Wires, Coming, SimRuns
    PROVE  Coming' \/ (AtRest' /\ JumpInTime')
  <1>1. PICK l \in NextLap, isMoved \in {moved, TRUE} : Send(l, isMoved, FALSE)
    BY DEF SimRuns
  <1>2. TypeOK /\ waited \in Nat /\ moved \in BOOLEAN /\ lap \in 0 .. Late /\ Len(frames) \in Nat
    BY FrameTypes DEF SessionInv, TypeOK
  <1>3. l \in 0 .. Late /\ (l > lap \/ (l = Late /\ lap = Late))
    BY <1>2 DEF NextLap
  <1>4. isMoved \in BOOLEAN /\ (moved => isMoved)
    BY <1>2
  <1>5. FramesRise' /\ PrevRises'
    BY <1>1, <1>2, <1>3, <1>4, SendRises DEF Coming
  <1>6. NoneJumped'
    BY <1>1, <1>2, <1>3, <1>4, SendNoJump DEF Coming
  <1>7. Len(frames') = Len(frames) + 1
    BY <1>1, <1>2, <1>3, <1>4, SendShape
  <1>8. /\ commands' = commands /\ latch' = latch /\ official' = official
        /\ replies' = <<>> /\ waited' = waited /\ effectSeen' = effectSeen
        /\ resetting' = FALSE
    BY <1>1 DEF Send, SimRuns
  <1>9. CASE ~official /\ due' = 0
    <2>1. commands' # <<TRUE>> /\ ~latch' /\ replies' # <<TRUE>>
      BY <1>8, <1>9, NoneTold DEF SessionInv, LockStep
    <2>2. JumpInTime'
      BY <1>6 DEF NoneJumped, JumpInTime
    <2> QED BY <1>9, <2>1, <2>2 DEF AtRest
  <1>10. CASE ~(~official /\ due' = 0)
    <2>1. Budget' = Budget - 1 /\ Budget \in Nat
      BY <1>10, BudgetSpent, BudgetLeft
    <2>2. waited + Len(frames) + Budget <= ResetWait
      BY DEF Coming
    <2>3. waited' + Len(frames') + Budget' <= ResetWait
      <3>1. waited + (Len(frames) + 1) + (Budget - 1) <= ResetWait
        BY <1>2, <2>1, <2>2
      <3> QED BY <1>7, <1>8, <2>1, <3>1
    <2>4. official' => /\ ~resetting'
                       /\ \/ commands' = <<TRUE>> /\ ~latch' /\ due' = 0
                          \/ commands' = <<>> /\ latch'
      <3>1. official => /\ commands = <<TRUE>> => due' = 0
                        /\ \/ commands = <<TRUE>> /\ ~latch
                           \/ commands = <<>> /\ latch
        BY BudgetSpent DEF Coming
      <3> QED BY <1>8, <3>1
    <2>5. ~official' => due' > 0 \/ replies' = <<TRUE>>
      <3>1. ~official => due' > 0
        BY <1>10, BudgetSpent
      <3> QED BY <1>8, <3>1
    <2>6. ~effectSeen'
      BY <1>8 DEF Coming
    <2> QED BY <1>5, <1>6, <2>3, <2>4, <2>5, <2>6, Zenon DEF Coming
  <1> QED BY <1>9, <1>10

\* The reset it was asked for comes in time, and leaves it at rest.
LEMMA ComingResets ==
    ASSUME SessionInv, Wires, Coming, NEW l \in 0 .. 1, SimResets(l)
    PROVE  AtRest' /\ JumpInTime'
  <1>1. Send(l, FALSE, moved) /\ due' = 0 /\ resetting' = TRUE /\ (Demand \/ due > 0)
    BY DEF SimResets
  <1>2. TypeOK /\ waited \in Nat /\ moved \in BOOLEAN /\ l \in 0 .. Late /\ Len(frames) \in Nat
    BY FrameTypes DEF SessionInv, TypeOK
  <1>3. waited + Len(frames) + 1 <= ResetWait
    <2>1. Budget \in Nat /\ Budget >= 1
      BY BudgetLeft
    <2>2. waited + Len(frames) + Budget <= ResetWait
      BY DEF Coming
    <2> QED BY <1>2, <2>1, <2>2
  <1>4. JumpInTime'
    BY <1>1, <1>2, <1>3, SendJump DEF Coming
  <1>5. commands' = commands /\ replies' = <<>>
    BY <1>1 DEF Send
  <1>6. commands # <<TRUE>>
    <2>1. CASE official
      <3>1. ASSUME commands = <<TRUE>> PROVE FALSE
        <4>1. ~latch /\ due = 0
          BY <2>1, <3>1, NoneTold DEF Coming
        <4>2. ~Demand
          BY <2>1, <4>1 DEF Demand
        <4>3. ~(due > 0)
          BY <4>1
        <4> QED BY <1>1, <4>2, <4>3, Zenon
      <3> QED BY <3>1
    <2>2. CASE ~official
      BY <2>2, NoneTold DEF SessionInv, LockStep
    <2> QED BY <2>1, <2>2
  <1>7. replies' # <<TRUE>>
    BY <1>5, NoneTold
  <1> QED BY <1>1, <1>4, <1>5, <1>6, <1>7 DEF AtRest

----------------------------------------------------------------------------

\* A frame of a sim that runs on, or resets, as one that is sent.
LEMMA SimSends ==
    ASSUME SessionInv, SimRuns \/ \E l \in 0 .. 1 : SimResets(l)
    PROVE  \E l \in 0 .. Late, isMoved \in BOOLEAN, isJump \in BOOLEAN :
              Send(l, isMoved, isJump) /\ (resetting' => ~isMoved)
  <1>1. moved \in BOOLEAN /\ lap \in 0 .. Late
    BY DEF SessionInv, TypeOK
  <1>2. CASE SimRuns
    <2>1. PICK l \in NextLap, isMoved \in {moved, TRUE} : Send(l, isMoved, FALSE)
      BY <1>2 DEF SimRuns
    <2>2. l \in 0 .. Late
      BY <1>1 DEF NextLap
    <2>3. isMoved \in BOOLEAN
      BY <1>1
    <2>4. resetting' = FALSE
      BY <1>2 DEF SimRuns
    <2> QED BY <2>1, <2>2, <2>3, <2>4
  <1>3. ASSUME NEW l \in 0 .. 1, SimResets(l)
        PROVE  l \in 0 .. Late /\ Send(l, FALSE, moved)
    <2>1. l \in 0 .. Late
      OBVIOUS
    <2>2. Send(l, FALSE, moved)
      BY <1>3 DEF SimResets
    <2> QED BY <2>1, <2>2
  <1> QED BY <1>1, <1>2, <1>3

\* A frame of the sim, while a reset is asked for or none is.
LEMMA SentWait ==
    ASSUME ~LapLine, SessionInv, WaitInv, SimRuns \/ \E l \in 0 .. 1 : SimResets(l)
    PROVE  WaitInv'
  <1>1. PICK l \in 0 .. Late, isMoved \in BOOLEAN, isJump \in BOOLEAN :
           Send(l, isMoved, isJump) /\ (resetting' => ~isMoved)
    BY SimSends
  <1>2. /\ UNCHANGED <<official, latch, commands, level, requests, off, pending>>
        /\ UNCHANGED <<awaiting, effectSeen, waited, started, prev>>
        /\ UNCHANGED <<integral, anchored, fresh, unseen>>
    BY <1>1 DEF Send
  <1>3. /\ TypeOK /\ Len(frames) \in Nat /\ Len(frames') = Len(frames) + 1
        /\ frames'[Len(frames) + 1].lap = l /\ frames'[Len(frames) + 1].moved = isMoved
        /\ lap' = l /\ moved' = isMoved
    BY <1>1, SendShape DEF SessionInv
  <1>4. Wires'
    <2>1. resetting' => ~moved'
      BY <1>1, <1>3
    <2>2. official => pending' = awaiting' /\ Len(frames') <= Depth
      <3>1. official => pending = awaiting
        BY DEF WaitInv, Wires
      <3>2. official => Len(frames) < Depth
        BY <1>1 DEF Send, MaySend
      <3>3. official => Len(frames') <= Depth
        BY <1>3, <3>2
      <3> QED BY <1>2, <3>1, <3>3
    <2>3. ~official => ~off /\ Len(frames) = 0
      BY <1>1 DEF WaitInv, Wires, Send, MaySend
    <2>4. replies' = <<>> /\ Len(replies') <= 1
      BY <1>1 DEF Send
    <2>5. ~official => Len(frames') = 1 /\ frames'[1].lap = lap' /\ frames'[1].moved = moved'
      BY <1>3, <2>3
    <2> QED BY <1>2, <2>1, <2>2, <2>3, <2>4, <2>5 DEF WaitInv, Wires
  <1>5. AskedAtRest'
    <2> SUFFICES ASSUME official, ~awaiting, ~off, level \/ requests = 0
                 PROVE  /\ ~latch /\ commands = <<>>
                        /\ FramesRise' /\ ~resetting'
      BY <1>2 DEF AskedAtRest
    <2>1. ~latch /\ commands = <<>> /\ FramesRise /\ ~Demand /\ ~(due > 0)
      <3>1. ~latch /\ commands = <<>> /\ FramesRise
        BY DEF WaitInv, AskedAtRest
      <3>2. ~Demand
        BY <3>1 DEF Demand
      <3>3. due = 0
        BY DEF WaitInv, Phases, Calm, AtRest
      <3>4. ~(due > 0)
        BY <3>3
      <3> QED BY <3>1, <3>2, <3>4
    <2>2. SimRuns
      BY <2>1 DEF SimResets
    <2>3. PICK k \in NextLap, hasMoved \in {moved, TRUE} : Send(k, hasMoved, FALSE)
      BY <2>2 DEF SimRuns
    <2>4. moved \in BOOLEAN /\ lap \in 0 .. Late
      BY DEF SessionInv, TypeOK
    <2>5. k \in 0 .. Late /\ (k > lap \/ (k = Late /\ lap = Late))
      BY <2>4 DEF NextLap
    <2>6. hasMoved \in BOOLEAN /\ (moved => hasMoved)
      BY <2>4
    <2>7. FramesRise'
      BY <1>3, <2>1, <2>3, <2>5, <2>6, SendRises
    <2>8. resetting' = FALSE
      BY <2>2 DEF SimRuns
    <2> QED BY <2>1, <2>7, <2>8
  <1>6. ~off => Phases'
    <2> SUFFICES ASSUME ~off PROVE Phases'
      OBVIOUS
    <2>1. Phases /\ Wires
      BY DEF WaitInv
    <2>2. CASE awaiting /\ ~effectSeen
      <3>1. Coming' \/ (AtRest' /\ JumpInTime')
        <4>1. CASE Coming
          BY <2>1, <4>1, ComingRuns, ComingResets
        <4>2. CASE AtRest /\ JumpInTime
          BY <2>1, <4>2, AtRestSends
        <4> QED BY <2>1, <2>2, <4>1, <4>2 DEF Phases
      <3> QED BY <1>2, <2>2, <3>1 DEF Phases
    <2>3. CASE ~(awaiting /\ ~effectSeen)
      <3>1. AtRest /\ NoneJumped /\ ~unseen
        BY <2>1, <2>3, Zenon DEF Phases, Calm
      <3>2. AtRest' /\ NoneJumped'
        BY <2>1, <3>1, AtRestSends
      <3> QED BY <1>2, <2>3, <3>1, <3>2 DEF Phases, Calm
    <2> QED BY <2>2, <2>3
  <1>7. FreshAfterReset' /\ (requests' = 0 => ~awaiting')
    BY <1>2 DEF WaitInv, FreshAfterReset
  <1> QED BY <1>2, <1>4, <1>5, <1>6, <1>7 DEF WaitInv

\* The devkit hears of the reset, or of its end.
LEMMA HeardWait ==
    ASSUME SessionInv, WaitInv, DevkitHears
    PROVE  WaitInv'
  <1>1. PICK b \in BOOLEAN : commands = <<b>> /\ latch' = b
    <2>1. PICK b \in BOOLEAN : commands = <<b>>
      BY LevelInFlight DEF DevkitHears, SessionInv, TypeOK
    <2> QED BY <2>1, LevelQueue DEF DevkitHears
  <1>2. /\ commands' = <<>> /\ commandAge' = 0 /\ commands # <<>>
        /\ UNCHANGED <<official, frames, replies, pending, off>>
        /\ UNCHANGED <<lap, moved, resetting, due, level, requests>>
        /\ UNCHANGED <<awaiting, effectSeen, waited, started, prev>>
        /\ UNCHANGED <<integral, anchored, fresh, unseen>>
    BY DEF DevkitHears
  <1>3. official
    BY <1>2 DEF SessionInv, LockStep
  <1>4. Wires' /\ FreshAfterReset' /\ (requests' = 0 => ~awaiting')
    BY <1>2 DEF WaitInv, Wires, FreshAfterReset
  <1>5. AskedAtRest'
    BY <1>2 DEF WaitInv, AskedAtRest
  <1>6. NoneJumped' = NoneJumped /\ JumpInTime' = JumpInTime /\ PrevRises' = PrevRises
        /\ FramesRise' = FramesRise
    BY <1>2 DEF NoneJumped, JumpInTime, PrevRises, FramesRise
  <1>7. ASSUME AtRest PROVE AtRest'
    <2>1. b = FALSE
      BY <1>1, <1>7 DEF AtRest
    <2> QED BY <1>1, <1>2, <1>3, <1>7, <2>1, NoneTold DEF AtRest
  <1>8. ASSUME Coming PROVE Coming'
    <2>1. commands = <<TRUE>> /\ due = 0 /\ ~resetting
      BY <1>2, <1>3, <1>8 DEF Coming
    <2>2. b = TRUE
      BY <1>1, <2>1, LevelQueue
    <2>3. Budget' = MaxReact + 1 /\ Budget = (CommandLag - commandAge) + MaxReact + 1
      BY <1>2, <2>1 DEF Budget
    <2>4. waited' + Len(frames') + Budget' <= ResetWait
      <3>1. waited + Len(frames) + Budget <= ResetWait
        BY <1>8 DEF Coming
      <3>2. commandAge \in 0 .. CommandLag /\ waited \in Nat /\ Len(frames) \in Nat
        BY FrameTypes DEF SessionInv, TypeOK
      <3>3. waited + Len(frames) + (MaxReact + 1) <= ResetWait
        BY <2>3, <3>1, <3>2
      <3> QED BY <1>2, <2>3, <3>3
    <2>5. ~effectSeen' /\ NoneJumped' /\ FramesRise' /\ PrevRises'
      BY <1>2, <1>6, <1>8 DEF Coming
    <2>6. official' /\ commands' = <<>> /\ latch' /\ ~resetting'
      BY <1>1, <1>2, <1>3, <2>1, <2>2
    <2> QED BY <2>4, <2>5, <2>6, Zenon DEF Coming
  <1>9. ~off => Phases'
    <2> SUFFICES ASSUME ~off PROVE Phases'
      OBVIOUS
    <2>1. Phases
      BY DEF WaitInv
    <2>2. awaiting' = awaiting /\ effectSeen' = effectSeen /\ unseen' = unseen
      BY <1>2
    <2> QED BY <1>6, <1>7, <1>8, <2>1, <2>2 DEF Phases, Calm
  <1> QED BY <1>2, <1>4, <1>5, <1>9 DEF WaitInv

\* Nothing of the last reset is under way when another is asked for.
LEMMA RequestedWait ==
    ASSUME ~Hasty, SessionInv, WaitInv, RequestReset
    PROVE  WaitInv'
  <1>1. /\ requests' = requests + 1 /\ level' = TRUE /\ ~DyingAway /\ requests \in Nat
        /\ UNCHANGED <<official, frames, replies, pending, off, latch, commands, commandAge>>
        /\ UNCHANGED <<lap, moved, resetting, due>>
        /\ UNCHANGED <<awaiting, effectSeen, waited, started, prev>>
        /\ UNCHANGED <<integral, anchored, fresh, unseen>>
    BY DEF RequestReset, SessionInv, TypeOK
  <1>2. Wires' /\ FreshAfterReset'
    BY <1>1 DEF WaitInv, Wires, FreshAfterReset
  <1>3. requests' # 0
    BY <1>1
  <1>4. AskedAtRest'
    <2> SUFFICES ASSUME official, ~awaiting, ~off
                 PROVE  /\ ~latch /\ commands = <<>> /\ FramesRise' /\ (frames # <<>> => ~resetting)
      BY <1>1 DEF AskedAtRest
    <2>1. ~pending
      BY DEF WaitInv, Wires, SessionInv, TypeOK
    <2>2. CASE requests = 0 \/ level
      <3>1. ~latch /\ commands = <<>> /\ FramesRise /\ (frames # <<>> => ~resetting)
        BY <2>2 DEF WaitInv, AskedAtRest
      <3>2. FramesRise'
        BY <1>1, <3>1 DEF FramesRise
      <3> QED BY <3>1, <3>2
    <2>3. CASE requests # 0 /\ ~level
      <3>1. requests > 0
        BY <1>1, <2>3
      <3>2. ~latch /\ commands = <<>> /\ frames = <<>>
        BY <1>1, <2>1, <3>1 DEF DyingAway
      <3>3. Len(frames') = 0
        BY <1>1, <3>2
      <3>4. FramesRise'
        BY <3>3 DEF FramesRise
      <3> QED BY <3>2, <3>4
    <2> QED BY <2>2, <2>3
  <1>5. ~off => Phases'
    BY <1>1 DEF WaitInv, Phases, Calm, Coming, AtRest, JumpInTime, NoneJumped, FramesRise,
                PrevRises, Budget
  <1> QED BY <1>1, <1>2, <1>3, <1>4, <1>5 DEF WaitInv

\* Front end B ends: what it holds of the run no longer matters.
LEMMA ShutWait ==
    ASSUME SessionInv, WaitInv, ShutDown
    PROVE  WaitInv'
  <1>1. /\ off' = TRUE /\ official
        /\ UNCHANGED <<official, frames, replies, pending, level, requests>>
        /\ UNCHANGED <<lap, moved, resetting>>
        /\ UNCHANGED <<awaiting, started, anchored, fresh>>
    BY DEF ShutDown
  <1>2. Wires' /\ FreshAfterReset' /\ (requests' = 0 => ~awaiting')
    BY <1>1 DEF WaitInv, Wires, FreshAfterReset
  <1> QED BY <1>1, <1>2 DEF WaitInv, AskedAtRest

\* A lost frame leaves the wait as it is.
LEMMA LostWait ==
    ASSUME SessionInv, WaitInv, LoseFrame
    PROVE  WaitInv'
  <1>1. /\ frames # <<>> /\ ~off /\ frames' = Tail(frames)
        /\ unseen' = (unseen \/ Head(frames).jumped)
        /\ replies' = IF official THEN <<>> ELSE <<FALSE>>
        /\ UNCHANGED <<official, latch, commands, commandAge, pending, off, level, requests>>
        /\ UNCHANGED <<lap, moved, resetting, due>>
        /\ UNCHANGED <<awaiting, effectSeen, waited, started, prev, anchored, fresh>>
    BY DEF LoseFrame
  <1>2. /\ Len(frames) \in Nat /\ Len(frames') = Len(frames) - 1 /\ 1 \in 1 .. Len(frames)
        /\ Head(frames) = frames[1] /\ TypeOK
    BY <1>1, TailShape DEF SessionInv
  <1>3. /\ FramesRise => FramesRise'
        /\ PrevRises => PrevRises'
        /\ NoneJumped => NoneJumped'
    BY <1>1, <1>2, TailRises
  <1>4. replies' # <<TRUE>> /\ Len(replies') <= 1
    <2>1. CASE official
      <3>1. replies' = <<>>
        BY <1>1, <2>1
      <3> QED BY <3>1, NoneTold
    <2>2. CASE ~official
      <3>1. replies' = <<FALSE>>
        BY <1>1, <2>2
      <3> QED BY <3>1, NoneTold
    <2> QED BY <2>1, <2>2
  <1>5. Wires'
    <2>1. official => pending' = awaiting' /\ Len(frames') <= Depth
      BY <1>1, <1>2 DEF WaitInv, Wires
    <2>2. ~official => frames' = <<>>
      <3>1. ASSUME ~official PROVE frames' = <<>>
        <4>1. Len(frames) = 1 /\ frames \in Seq(Frame)
          BY <1>1, <1>2, <3>1 DEF WaitInv, Wires, TypeOK
        <4> QED BY <1>1, <4>1
      <3> QED BY <3>1
    <2> QED BY <1>1, <1>4, <2>1, <2>2 DEF WaitInv, Wires
  <1>6. AskedAtRest'
    BY <1>1, <1>3 DEF WaitInv, AskedAtRest
  <1>7. ASSUME AtRest PROVE AtRest'
    BY <1>1, <1>4, <1>7 DEF AtRest
  <1>8. ASSUME JumpInTime PROVE JumpInTime'
    <2>1. TypeOK'
      BY LoseFrameStep DEF SessionInv
    <2> QED BY <1>1, <1>2, <1>8, <2>1, TailInTime
  <1>9. ASSUME Coming PROVE Coming'
    <2>1. ~effectSeen' /\ NoneJumped' /\ FramesRise' /\ PrevRises'
      BY <1>1, <1>3, <1>9 DEF Coming
    <2>2. waited' + Len(frames') + Budget' <= ResetWait
      <3>1. waited + Len(frames) + Budget <= ResetWait /\ waited \in Nat /\ Budget \in Nat
        BY <1>2, <1>9, BudgetLeft DEF Coming, TypeOK
      <3>2. Budget' = Budget
        BY <1>1 DEF Budget
      <3>3. waited + (Len(frames) - 1) + Budget <= ResetWait
        BY <1>2, <3>1
      <3> QED BY <1>1, <1>2, <3>2, <3>3
    <2>3. ~official => due > 0
      <3>1. ~official => replies = <<>>
        BY <1>1 DEF WaitInv, Wires
      <3> QED BY <1>9, <3>1, NoneTold DEF Coming
    <2>4. official' => /\ ~resetting'
                       /\ \/ commands' = <<TRUE>> /\ ~latch' /\ due' = 0
                          \/ commands' = <<>> /\ latch'
      BY <1>1, <1>9 DEF Coming
    <2>5. ~official' => due' > 0 \/ replies' = <<TRUE>>
      BY <1>1, <2>3
    <2> QED BY <2>1, <2>2, <2>4, <2>5, Zenon DEF Coming
  <1>10. Phases'
    <2>1. Phases
      BY <1>1 DEF WaitInv
    <2>2. CASE awaiting /\ ~effectSeen
      BY <1>1, <1>7, <1>8, <1>9, <2>1, <2>2 DEF Phases
    <2>3. CASE ~(awaiting /\ ~effectSeen)
      <3>1. AtRest /\ NoneJumped /\ ~unseen
        BY <2>1, <2>3, Zenon DEF Phases, Calm
      <3>2. ~unseen'
        <4>1. ~Head(frames).jumped
          BY <1>2, <3>1 DEF NoneJumped
        <4> QED BY <1>1, <3>1, <4>1
      <3> QED BY <1>1, <1>3, <1>7, <2>3, <3>1, <3>2 DEF Phases, Calm
    <2> QED BY <2>2, <2>3
  <1>11. FreshAfterReset' /\ (requests' = 0 => ~awaiting')
    BY <1>1 DEF WaitInv, FreshAfterReset
  <1> QED BY <1>5, <1>6, <1>10, <1>11 DEF WaitInv

----------------------------------------------------------------------------

LEMMA NoFallMeans ==
    ASSUME started, NEW f, NoFall(prev, f)
    PROVE  Rises(f) /\ ~EncodersFell(f)
  BY DEF NoFall, Rises, EncodersFell

\* What a handled frame does to the wait, whichever way it is told.
LEMMA HandledShape ==
    ASSUME SessionInv, WaitInv, HandleFrame
    PROVE  /\ frames # <<>> /\ ~off /\ frames' = Tail(frames)
           /\ Len(frames) \in Nat /\ Len(frames') = Len(frames) - 1 /\ 1 \in 1 .. Len(frames)
           /\ Head(frames) = frames[1] /\ prev' = Head(frames)
           /\ started' = TRUE /\ unseen' = FALSE /\ level' = FALSE
           /\ UNCHANGED <<official, latch, requests, off, lap, moved, resetting, due>>
           /\ level => awaiting' = TRUE /\ effectSeen' = FALSE /\ waited' = 0
           /\ ~level => /\ awaiting' => awaiting
                        /\ effectSeen => effectSeen'
                        /\ waited' <= waited + 1
           /\ waited' <= waited + 1
  <1>1. /\ frames # <<>> /\ ~off /\ frames' = Tail(frames) /\ prev' = Head(frames)
        /\ started' = TRUE /\ unseen' = FALSE /\ level' = FALSE
        /\ UNCHANGED <<official, latch, requests, off, lap, moved, resetting, due>>
    BY DEF HandleFrame, TakeLevel, Estimated
  <1>2. /\ Len(frames) \in Nat /\ Len(frames') = Len(frames) - 1 /\ 1 \in 1 .. Len(frames)
        /\ Head(frames) = frames[1]
    BY <1>1, TailShape DEF SessionInv
  <1>3. waited \in Nat /\ effectSeen \in BOOLEAN /\ awaiting \in BOOLEAN
    BY DEF SessionInv, TypeOK
  <1>4. CASE level
    <2>1. awaiting' = TRUE /\ effectSeen' = FALSE /\ waited' = 0
      BY <1>4 DEF HandleFrame, Fired
    <2>2. 0 <= waited + 1
      BY <1>3
    <2> QED BY <1>1, <1>2, <1>4, <2>1, <2>2
  <1>5. CASE ~level
    <2>1. awaiting' => awaiting
      BY <1>5 DEF HandleFrame, Fired, StillAwaiting
    <2>2. effectSeen => effectSeen'
      BY <1>5 DEF HandleFrame, Fired
    <2>3. waited' <= waited + 1
      <3>1. waited' = waited + 1 \/ waited' = waited
        BY <1>5 DEF HandleFrame, Fired
      <3> QED BY <1>3, <3>1
    <2> QED BY <1>1, <1>2, <1>5, <2>1, <2>2, <2>3
  <1> QED BY <1>4, <1>5

\* What it tells: a reset that begins, or one that ends.
LEMMA HandledTells ==
    ASSUME SessionInv, WaitInv, HandleFrame
    PROVE  /\ official => /\ pending' = awaiting'
                          /\ awaiting' = awaiting => UNCHANGED <<commands, commandAge>>
                          /\ awaiting' # awaiting => commands' = <<awaiting'>> /\ commandAge' = 0
                          /\ replies' = replies
           /\ ~official => /\ replies' = <<level>>
                           /\ commands' = <<>> /\ ~latch' /\ frames' = <<>>
  <1>1. awaiting \in BOOLEAN /\ awaiting' \in BOOLEAN /\ level \in BOOLEAN
    BY HandleFrameStep DEF SessionInv, TypeOK
  <1>2. ASSUME official
        PROVE  /\ pending' = awaiting'
               /\ awaiting' = awaiting => UNCHANGED <<commands, commandAge>>
               /\ awaiting' # awaiting => commands' = <<awaiting'>> /\ commandAge' = 0
               /\ replies' = replies
    <2>1. pending = awaiting
      BY <1>2 DEF WaitInv, Wires
    <2>2. HoldReset
      BY <1>2 DEF HandleFrame
    <2>3. pending' = ((awaiting /\ awaiting') \/ level) /\ replies' = replies
      BY <2>1, <2>2 DEF HoldReset
    <2>4. level => awaiting'
      BY HandledShape
    <2>5. ~level => (awaiting' => awaiting)
      BY HandledShape
    <2>6. pending' = awaiting'
      BY <1>1, <2>3, <2>4, <2>5
    <2>7. pending' = pending => UNCHANGED <<commands, commandAge>>
      BY <2>2 DEF HoldReset
    <2>8. pending' # pending => commands' = <<pending'>> /\ commandAge' = 0
      BY <2>2 DEF HoldReset, Tell
    <2> QED BY <2>1, <2>3, <2>6, <2>7, <2>8
  <1>3. ASSUME ~official
        PROVE  replies' = <<level>> /\ commands' = <<>> /\ ~latch' /\ frames' = <<>>
    <2>1. replies' = <<level>> /\ commands' = <<>> /\ ~latch'
      BY <1>3 DEF HandleFrame, SessionInv, LockStep
    <2>2. Len(frames) = 1 /\ frames \in Seq(Frame) /\ frames' = Tail(frames)
      BY <1>3, HandledShape DEF WaitInv, Wires, SessionInv, TypeOK
    <2>3. frames' = <<>>
      BY <2>2
    <2> QED BY <2>1, <2>3
  <1> QED BY <1>2, <1>3

\* Odometry and the integral, once a frame has been handled without a wait
\* after it.
LEMMA HandledFresh ==
    ASSUME SessionInv, WaitInv, HandleFrame
    PROVE  FreshAfterReset'
  <1>1. Estimated(Head(frames)) /\ Head(frames) = frames[1] /\ 1 \in 1 .. Len(frames) /\ ~off
    BY HandledShape DEF HandleFrame
  <1>2. CASE Reanchor
    <2>1. integral' = FALSE
      BY <1>1, <1>2 DEF Estimated, Wound
    <2>2. anchored' /\ fresh'
      BY <1>1, <1>2, <2>1 DEF Estimated
    <2> QED BY <2>2 DEF FreshAfterReset
  <1>3. CASE ~Reanchor
    <2>1. ~awaiting /\ anchored /\ fresh /\ ~unseen /\ ~frames[1].jumped
      BY <1>1, <1>3 DEF Reanchor, WaitInv, FreshAfterReset, Phases, Calm, NoneJumped
    <2>2. anchored' /\ fresh'
      BY <1>1, <2>1 DEF Estimated
    <2> QED BY <2>2 DEF FreshAfterReset
  <1> QED BY <1>2, <1>3

LEMMA HandledWires ==
    ASSUME SessionInv, WaitInv, HandleFrame
    PROVE  Wires' /\ AskedAtRest' /\ (requests' = 0 => ~awaiting')
  <1>1. /\ frames # <<>> /\ ~off /\ frames' = Tail(frames)
        /\ Len(frames) \in Nat /\ Len(frames') = Len(frames) - 1
        /\ started' = TRUE /\ level' = FALSE
        /\ UNCHANGED <<official, latch, requests, off, lap, moved, resetting, due>>
        /\ ~level => (awaiting' => awaiting)
    BY HandledShape
  <1>2. requests = 0 => ~level /\ ~awaiting /\ ~awaiting'
    <2>1. requests = 0 => ~level
      BY DEF SessionInv, OneTruePerRequest, TypeOK
    <2> QED BY <1>1, <2>1 DEF WaitInv
  <1>3. Wires'
    <2>1. official => pending' = awaiting' /\ Len(frames') <= Depth
      BY <1>1, HandledTells DEF WaitInv, Wires
    <2>2. ~official => frames' = <<>> /\ Len(replies') <= 1
      <3>1. ~official => replies' = <<level>> /\ frames' = <<>>
        BY HandledTells
      <3>2. level \in BOOLEAN
        BY DEF SessionInv, TypeOK
      <3> QED BY <3>1, <3>2, LevelQueue
    <2> QED BY <1>1, <2>1, <2>2 DEF WaitInv, Wires
  <1>4. AskedAtRest'
    <2> SUFFICES ASSUME official, requests = 0
                 PROVE  ~latch /\ commands' = <<>> /\ FramesRise' /\ (frames' # <<>> => ~resetting)
      BY <1>1 DEF AskedAtRest
    <2>1. ~latch /\ commands = <<>> /\ FramesRise /\ ~resetting
      BY <1>1, <1>2 DEF WaitInv, AskedAtRest
    <2>2. awaiting' = awaiting
      BY <1>2, HandleFrameStep DEF SessionInv, TypeOK
    <2>3. FramesRise'
      BY <1>1, <2>1, TailRises DEF SessionInv
    <2> QED BY <2>1, <2>2, <2>3, HandledTells
  <1> QED BY <1>1, <1>2, <1>3, <1>4

\* A frame that takes a level to the sim, or to the devkit.
LEMMA HandledAsked ==
    ASSUME (Depth + CommandLag) + MaxReact <= ResetWait,
           SessionInv, WaitInv, HandleFrame, level
    PROVE  Phases'
  <1>1. /\ frames # <<>> /\ ~off /\ frames' = Tail(frames)
        /\ Len(frames) \in Nat /\ Len(frames') = Len(frames) - 1 /\ 1 \in 1 .. Len(frames)
        /\ Head(frames) = frames[1] /\ prev' = Head(frames)
        /\ UNCHANGED <<official, latch, off, lap, moved, resetting, due>>
        /\ awaiting' = TRUE /\ effectSeen' = FALSE /\ waited' = 0
    BY HandledShape
  <1>2. SessionInv' /\ TypeOK /\ TypeOK'
    BY HandleFrameStep DEF SessionInv
  <1>3. Budget' \in Nat /\ (due' > 0 => Budget' <= MaxReact)
        /\ (due' = 0 => Budget' <= (CommandLag + MaxReact) + 1)
        /\ due' \in 0 .. MaxReact
    <2>1. PICK d \in 0 .. MaxReact, a \in 0 .. CommandLag : d = due' /\ a = commandAge'
      BY <1>2 DEF TypeOK
    <2>2. CASE d > 0
      <3>1. Budget' = d
        BY <2>1, <2>2 DEF Budget
      <3> QED BY <2>1, <2>2, <3>1
    <2>3. CASE d = 0
      <3>1. Budget' = (CommandLag - a) + MaxReact + 1 \/ Budget' = MaxReact + 1
        <4>1. ~(due' > 0)
          BY <2>1, <2>3
        <4>2. Budget' = IF commands' # <<>> THEN (CommandLag - a) + MaxReact + 1 ELSE MaxReact + 1
          BY <2>1, <4>1, Zenon DEF Budget
        <4> QED BY <4>2
      <3>2. /\ (CommandLag - a) + MaxReact + 1 \in Nat /\ MaxReact + 1 \in Nat
            /\ (CommandLag - a) + MaxReact + 1 <= (CommandLag + MaxReact) + 1
            /\ MaxReact + 1 <= (CommandLag + MaxReact) + 1
        OBVIOUS
      <3>3. Budget' \in Nat /\ Budget' <= (CommandLag + MaxReact) + 1
        BY <3>1, <3>2
      <3> QED BY <2>1, <2>3, <3>3
    <2> QED BY <2>1, <2>2, <2>3
  <1>4. Phases
    BY <1>1 DEF WaitInv
  <1>5. CASE ~official
    <2>1. frames' = <<>> /\ Len(frames') = 0 /\ commands' = <<>> /\ replies' = <<TRUE>>
      <3>1. frames' = <<>> /\ commands' = <<>> /\ replies' = <<level>> /\ level = TRUE
        BY <1>2, <1>5, HandledTells DEF TypeOK
      <3> QED BY <3>1
    <2>2. FramesRise' /\ NoneJumped'
      BY <2>1 DEF FramesRise, NoneJumped
    <2>3. PrevRises'
      <3>1. frames[1].lap = lap /\ frames[1].moved = moved /\ lap \in 0 .. Late
        BY <1>1, <1>2, <1>5 DEF WaitInv, Wires, TypeOK
      <3>2. prev'.lap <= lap /\ (prev'.moved => moved)
        BY <1>1, <3>1
      <3>3. \A i \in 1 .. Len(frames') : NoFall(prev', frames'[i])
        BY <2>1
      <3> QED BY <1>1, <3>2, <3>3 DEF PrevRises
    <2>4. waited' + Len(frames') + Budget' <= ResetWait
      <3>1. Budget' <= MaxReact + 1
        <4>1. CASE due' > 0
          BY <1>3, <4>1
        <4>2. CASE due' = 0
          BY <2>1, <4>2 DEF Budget
        <4> QED BY <1>3, <4>1, <4>2
      <3>2. MaxReact + 1 <= ResetWait
        OBVIOUS
      <3>3. PICK b \in Nat : b = Budget'
        BY <1>3
      <3>4. b <= MaxReact + 1
        BY <3>1, <3>3
      <3>5. 0 + 0 + b <= ResetWait
        BY <3>2, <3>4
      <3> QED BY <1>1, <2>1, <3>3, <3>5
    <2>5. Coming'
      BY <1>1, <1>5, <2>1, <2>2, <2>3, <2>4 DEF Coming
    <2> QED BY <1>1, <2>5 DEF Phases
  <1>6. CASE official /\ ~awaiting
    <2>1. ~latch /\ FramesRise /\ ~resetting /\ AtRest /\ NoneJumped
      BY <1>1, <1>4, <1>6 DEF WaitInv, AskedAtRest, Phases, Calm
    <2>2. commands' = <<TRUE>>
      BY <1>1, <1>6, HandledTells
    <2>3. FramesRise' /\ PrevRises' /\ NoneJumped'
      BY <1>1, <1>2, <2>1, TailRises
    <2>4. waited' + Len(frames') + Budget' <= ResetWait
      <3>1. Len(frames') <= Depth - 1
        BY <1>1, <1>6 DEF WaitInv, Wires
      <3>2. due' = 0
        BY <1>1, <2>1 DEF AtRest
      <3>3. 0 + (Len(frames) - 1) + Budget' <= ResetWait
        BY <1>1, <1>3, <3>1, <3>2
      <3> QED BY <1>1, <3>3
    <2>5. Coming'
      BY <1>1, <1>6, <2>1, <2>2, <2>3, <2>4 DEF Coming, AtRest
    <2> QED BY <1>1, <2>5 DEF Phases
  <1>7. CASE official /\ awaiting
    <2>1. commands' = commands /\ commandAge' = commandAge
      <3>1. awaiting' = awaiting
        BY <1>1, <1>2, <1>7 DEF TypeOK
      <3> QED BY <1>7, <3>1, HandledTells
    <2>2. AtRest => AtRest'
      BY <1>1, <1>7, <2>1 DEF AtRest
    <2>3. JumpInTime => JumpInTime'
      <3>1. waited' <= waited + 1
        BY HandledShape
      <3> QED BY <1>1, <1>2, <3>1, TailInTime
    <2>4. ASSUME Coming PROVE Coming'
      <3>1. FramesRise' /\ PrevRises' /\ NoneJumped'
        BY <1>1, <1>2, <2>4, TailRises DEF Coming
      <3>2. waited' + Len(frames') + Budget' <= ResetWait
        <4>1. waited + Len(frames) + Budget <= ResetWait /\ waited \in Nat
          BY <1>2, <2>4 DEF Coming, TypeOK
        <4>2. Budget' = Budget
          BY <1>1, <2>1 DEF Budget
        <4>3. 0 + (Len(frames) - 1) + Budget <= ResetWait
          BY <1>1, <1>3, <4>1, <4>2
        <4> QED BY <1>1, <4>2, <4>3
      <3> QED BY <1>1, <1>7, <2>1, <2>4, <3>1, <3>2 DEF Coming
    <2>5. NoneJumped => JumpInTime
      BY DEF NoneJumped, JumpInTime
    <2>6. Coming' \/ (AtRest' /\ JumpInTime')
      BY <1>4, <1>7, <2>2, <2>3, <2>4, <2>5 DEF Phases, Calm
    <2> QED BY <1>1, <2>6 DEF Phases
  <1> QED BY <1>5, <1>6, <1>7

\* A frame that takes none.
LEMMA HandledGoesOn ==
    ASSUME SessionInv, WaitInv, HandleFrame, ~level
    PROVE  Phases'
  <1>1. /\ frames # <<>> /\ ~off /\ frames' = Tail(frames)
        /\ Len(frames) \in Nat /\ Len(frames') = Len(frames) - 1 /\ 1 \in 1 .. Len(frames)
        /\ Head(frames) = frames[1] /\ prev' = Head(frames) /\ unseen' = FALSE
        /\ UNCHANGED <<official, latch, off, lap, moved, resetting, due>>
        /\ awaiting' => awaiting
        /\ effectSeen => effectSeen'
        /\ waited' <= waited + 1
    BY HandledShape
  <1>2. TypeOK /\ TypeOK'
    BY HandleFrameStep DEF SessionInv
  <1>3. Phases
    BY <1>1 DEF WaitInv
  <1>4. AtRest => AtRest'
    <2>1. ~official => replies' # <<TRUE>>
      <3>1. ~official => replies' = <<FALSE>>
        <4>1. level = FALSE
          BY <1>2 DEF TypeOK
        <4> QED BY <4>1, HandledTells
      <3> QED BY <3>1, NoneTold
    <2>2. AtRest => commands' # <<TRUE>>
      <3>1. CASE ~official
        BY <3>1, NoneTold, HandledTells
      <3>2. CASE official /\ awaiting' = awaiting
        BY <3>2, HandledTells DEF AtRest
      <3>3. CASE official /\ awaiting' # awaiting
        <4>1. awaiting' = FALSE
          BY <1>1, <1>2, <3>3 DEF TypeOK
        <4>2. commands' = <<FALSE>>
          BY <3>3, <4>1, HandledTells
        <4> QED BY <4>2, NoneTold
      <3> QED BY <3>1, <3>2, <3>3
    <2> QED BY <1>1, <2>1, <2>2 DEF AtRest
  <1>5. NoneJumped => NoneJumped'
    BY <1>1, <1>2, TailRises
  <1>6. JumpInTime => JumpInTime'
    BY <1>1, <1>2, TailInTime
  <1>7. \* Nothing of this frame ends the wait.
        ASSUME awaiting, ~effectSeen, waited + 1 < ResetWait, NoFall(prev, frames[1])
        PROVE  awaiting' /\ ~effectSeen' /\ waited' = waited + 1
    <2>1. Rises(frames[1]) /\ ~EncodersFell(frames[1])
      BY <1>7, NoFallMeans DEF WaitInv, Wires
    <2>2. waited < ResetWait
      BY <1>2, <1>7 DEF TypeOK
    <2> QED BY <1>1, <1>7, <2>1, <2>2 DEF HandleFrame, Fired, StillAwaiting
  <1>8. CASE ~(awaiting /\ ~effectSeen)
    <2>1. ~(awaiting' /\ ~effectSeen')
      BY <1>1, <1>8
    <2> QED BY <1>1, <1>3, <1>4, <1>5, <1>8, <2>1 DEF Phases, Calm
  <1>9. CASE awaiting /\ ~effectSeen /\ Coming
    <2>1. /\ waited + Len(frames) + Budget <= ResetWait /\ waited \in Nat
          /\ Budget \in Nat /\ Budget >= 1
      BY <1>2, <1>9, BudgetLeft DEF Coming, TypeOK
    <2>2. waited + 1 < ResetWait
      BY <1>1, <2>1
    <2>3. NoFall(prev, frames[1])
      BY <1>1, <1>9 DEF Coming, PrevRises
    <2>4. awaiting' /\ ~effectSeen' /\ waited' = waited + 1
      BY <1>7, <1>9, <2>2, <2>3
    <2>5. FramesRise' /\ PrevRises' /\ NoneJumped'
      BY <1>1, <1>2, <1>9, TailRises DEF Coming
    <2>6. official => commands' = commands /\ commandAge' = commandAge
      <3>1. awaiting' = awaiting
        BY <1>2, <1>9, <2>4 DEF TypeOK
      <3> QED BY <3>1, HandledTells
    <2>7. ~official => commands = <<>> /\ commands' = <<>>
      BY HandledTells DEF SessionInv, LockStep
    <2>8. waited' + Len(frames') + Budget' <= ResetWait
      <3>1. Budget' = Budget
        BY <1>1, <2>6, <2>7 DEF Budget
      <3>2. (waited + 1) + (Len(frames) - 1) + Budget <= ResetWait
        BY <1>1, <2>1
      <3> QED BY <1>1, <2>4, <3>1, <3>2
    <2>9. ~official => due > 0
      <3>1. ~official => replies = <<>>
        BY <1>1 DEF WaitInv, Wires
      <3> QED BY <1>9, <3>1, NoneTold DEF Coming
    <2>10. official' => /\ ~resetting'
                        /\ \/ commands' = <<TRUE>> /\ ~latch' /\ due' = 0
                           \/ commands' = <<>> /\ latch'
      BY <1>1, <1>9, <2>6 DEF Coming
    <2>11. ~official' => due' > 0 \/ replies' = <<TRUE>>
      BY <1>1, <2>9
    <2>12. Coming'
      BY <2>4, <2>5, <2>8, <2>10, <2>11, Zenon DEF Coming
    <2> QED BY <2>4, <2>12 DEF Phases
  <1>10. CASE awaiting /\ ~effectSeen /\ AtRest /\ JumpInTime
    <2>1. AtRest' /\ JumpInTime'
      BY <1>4, <1>6, <1>10
    <2>2. ASSUME ~NoneJumped' PROVE awaiting' /\ ~effectSeen'
      <3>1. PICK i \in 1 .. Len(frames') : frames'[i].jumped
        BY <2>2 DEF NoneJumped
      <3>2. PICK m \in 1 .. Len(frames) : m = i + 1 /\ frames[m].jumped
        BY <1>1, <1>2, <3>1, TailShape
      <3>3. waited + m <= ResetWait /\ \A j \in 1 .. Len(frames) : j < m => NoFall(prev, frames[j])
        BY <1>10, <3>2 DEF JumpInTime
      <3>4. 1 < m /\ waited \in Nat
        BY <1>1, <1>2, <3>1, <3>2 DEF TypeOK
      <3>5. waited + 1 < ResetWait
        BY <1>1, <3>3, <3>4
      <3>6. NoFall(prev, frames[1])
        BY <1>1, <3>3, <3>4
      <3> QED BY <1>7, <1>10, <3>5, <3>6
    <2> QED BY <1>1, <2>1, <2>2 DEF Phases, Calm
  <1> QED BY <1>3, <1>8, <1>9, <1>10 DEF Phases

----------------------------------------------------------------------------

LEMMA WaitInvStep ==
    ASSUME ~LapLine, ~Hasty, (Depth + CommandLag) + MaxReact <= ResetWait,
           SessionInv, WaitInv, [Next]_vars
    PROVE  WaitInv'
  <1>1. CASE SimRuns \/ \E l \in 0 .. 1 : SimResets(l)
    BY <1>1, SentWait
  <1>2. CASE HandleFrame
    <2>1. Phases'
      BY <1>2, HandledAsked, HandledGoesOn
    <2> QED BY <1>2, <2>1, HandledWires, HandledFresh DEF WaitInv
  <1>3. CASE UNCHANGED vars
    BY <1>3 DEF vars, WaitInv, Wires, AskedAtRest, FreshAfterReset, Phases, Calm, Coming, AtRest,
                JumpInTime, NoneJumped, FramesRise, PrevRises, Budget
  <1> QED BY <1>1, <1>2, <1>3, HeardWait, RequestedWait, LostWait, ShutWait DEF Next

\* Once the wait for a reset is over, odometry and the throttle integral are of
\* after it, for both front ends, however many resets are asked for and frames
\* lost: if the lap clock falls at a reset only, no reset is asked for while the
\* devkit still holds the last one, and the wait (RESET_WAIT_FRAMES, 120) covers
\* the frames in flight, the devkit's lag and the sim's.
THEOREM FreshAfterResetHolds ==
    ASSUME ~LapLine, ~Hasty, (Depth + CommandLag) + MaxReact <= ResetWait
    PROVE  Spec => []FreshAfterReset
  <1>1. Init => WaitInv
    <2> SUFFICES ASSUME Init PROVE WaitInv
      OBVIOUS
    <2>1. Len(frames) = 0 /\ commands = <<>> /\ ~awaiting /\ ~latch /\ ~resetting
      BY DEF Init
    <2>2. replies # <<TRUE>> /\ Len(replies) <= 1
      <3>1. CASE official
        <4>1. replies = <<>>
          BY <3>1 DEF Init
        <4> QED BY <4>1, NoneTold
      <3>2. CASE ~official
        <4>1. replies = <<FALSE>>
          BY <3>2 DEF Init
        <4> QED BY <4>1, NoneTold
      <3> QED BY <3>1, <3>2
    <2>3. Wires
      <3>1. Len(frames) <= Depth
        BY <2>1
      <3>2. frames = <<>> /\ ~pending /\ ~off
        BY DEF Init
      <3> QED BY <2>1, <2>2, <3>1, <3>2 DEF Wires, Init
    <2>4. FramesRise /\ NoneJumped
      BY <2>1 DEF FramesRise, NoneJumped
    <2>5. AtRest
      BY <2>1, <2>2, NoneTold DEF Init, AtRest
    <2> QED BY <2>1, <2>3, <2>4, <2>5 DEF Init, WaitInv, AskedAtRest, Phases, Calm, FreshAfterReset
  <1>2. SessionInv /\ WaitInv /\ [Next]_vars => WaitInv'
    BY WaitInvStep
  <1>3. WaitInv => FreshAfterReset
    BY DEF WaitInv
  <1> QED BY <1>1, <1>2, <1>3, SessionInvariant, PTL DEF Spec
====
