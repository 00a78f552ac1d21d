---------------------------- MODULE ToolsProofs ----------------------------
(***************************************************************************)
(* Theorems about the programs that end and leave a result that others go  *)
(* by, each for every value of its constants and, but for the bounds, for  *)
(* runs of any length.                                                      *)
(***************************************************************************)
EXTENDS CheckRun, RacelineRun, Recorder, Nightly, GymBackend, NodeExit,
        FiniteSetTheorems, WellFoundedInduction, TLAPS

----------------------------------------------------------------------------

(***************************************************************************)
(* NodeExit                                                                *)
(***************************************************************************)

\* No KeyboardInterrupt is ever due: Python's handler is gone before rclpy's
\* is there to pass a signal on to it.
NoInterrupt ==
    /\ ~due
    /\ at \in {"main", "init"} => context = "none" /\ ~waking
    /\ at \notin {"main", "ended"} => handler = "noop"

\* Until somebody stops the node, its context is not shut down.
StopIsAskedFor ==
    signalled = "never" /\ at \in {"construct", "spin", "call", "except"}
    => context = "ok" /\ ~waking

\* A fault is told from what a stop makes of a callback by the context alone.
FaultIsKnown ==
    /\ at \in {"main", "init", "construct"} => signalled \notin {"spin", "call"}
    /\ at \in {"main", "init", "construct", "spin", "call"} => ~faulted
    /\ at = "except" => IF faulted THEN raised = "error"
                        ELSE raised = "error" => context # "ok"

\* What the exit code is once spin has ended.
CodeIsRight ==
    at \in {"finally", "ended"} =>
        /\ signalled \in {"spin", "call"} /\ ~faulted => code = 0
        /\ faulted /\ signalled = "never" => code = 1

ExitInv == NoInterrupt /\ StopIsAskedFor /\ FaultIsKnown /\ CodeIsRight

USE DEF NoInterrupt, StopIsAskedFor, FaultIsKnown, CodeIsRight

LEMMA ExitStarts == ASSUME ExitInit PROVE ExitInv
  BY DEF ExitInit, ExitInv

LEMMA ExitStep == ASSUME ExitInv, [ExitNext]_exitVars PROVE ExitInv'
  <1>1. CASE Sigint
    BY <1>1 DEF Sigint, ExitInv
  <1>2. CASE ShutDown
    BY <1>2 DEF ShutDown, ExitInv
  <1>3. CASE OwnSigint
    BY <1>3 DEF OwnSigint, ExitInv
  <1>4. CASE InitContext
    BY <1>4 DEF InitContext, ExitInv
  <1>5. CASE Construct
    BY <1>5 DEF Construct, ExitInv
  <1>6. CASE EnterCall
    BY <1>6 DEF EnterCall, ExitInv
  <1>7. CASE LeaveCall
    BY <1>7 DEF LeaveCall, ExitInv
  <1>8. ASSUME NEW what \in {"interrupt", "error", "stop"}, SpinRaises(what) PROVE ExitInv'
    BY <1>8 DEF SpinRaises, ExitInv
  <1>9. CASE SpinUntilShutdown
    BY <1>9 DEF SpinUntilShutdown, ExitInv
  <1>10. CASE CleanUp
    BY <1>10 DEF CleanUp, ExitInv
  <1>11. CASE UNCHANGED exitVars
    BY <1>11 DEF exitVars, ExitInv
  <1> QED BY <1>1, <1>2, <1>3, <1>4, <1>5, <1>6, <1>7, <1>8, <1>9, <1>10, <1>11 DEF ExitNext

\* A node that is stopped while it spins exits with 0 and one that fails by itself
\* with 1, in whatever order the signal, the shutdown and the fault come.
THEOREM CleanExitHolds == ExitSpec => []CleanExit
  <1>1. ExitInv => CleanExit
    BY DEF ExitInv, CleanExit
  <1> QED BY <1>1, ExitStarts, ExitStep, PTL DEF ExitSpec

HIDE DEF NoInterrupt, StopIsAskedFor, FaultIsKnown, CodeIsRight

----------------------------------------------------------------------------

(***************************************************************************)
(* GymBackend                                                              *)
(***************************************************************************)

\* Everything a run calls was compiled before it.
AllCompiled ==
    phase = "running" =>
        /\ ResetCalls \subseteq compiled
        /\ {<<"step", "reset">>, <<"step", "stepped">>, <<"cast", "stepped">>} \subseteq compiled

\* What _warm leaves compiled, of every seed and action.
LEMMA WarmsAll ==
    ASSUME NEW gymSeed, NEW action
    PROVE  Warm(gymSeed, action) = ResetCalls \cup
               {<<"step", "reset">>, <<"step", "stepped">>, <<"cast", "stepped">>}
  <1> DEFINE first == EnvReset(Key(gymSeed))
             second == EnvStep(first, Key(gymSeed), action)
  <1>1. Len(first) = 1 /\ Len(second) = 2
    <2>1. first \in Seq({Key(gymSeed)}) /\ Len(first) = 1
      BY DEF EnvReset
    <2>2. Len(second) = Len(first) + 1
      BY DEF EnvReset, EnvStep
    <2> QED BY <2>1, <2>2
  <1>2. StateKind(first) = "reset" /\ StateKind(second) = "stepped"
    BY <1>1 DEF StateKind
  <1>3. Warm(gymSeed, action) = ResetCalls \cup StepCalls(first) \cup StepCalls(second)
    BY DEF Warm
  <1>4. /\ StepCalls(first) = {<<"step", "reset">>, <<"cast", "stepped">>}
        /\ StepCalls(second) = {<<"step", "stepped">>, <<"cast", "stepped">>}
    BY <1>2 DEF StepCalls
  <1> QED BY <1>3, <1>4

\* A step calls nothing else.
LEMMA StepsAreWarm ==
    ASSUME NEW state
    PROVE  StepCalls(state) \subseteq
               {<<"step", "reset">>, <<"step", "stepped">>, <<"cast", "stepped">>}
  BY DEF StepCalls, StateKind

LEMMA CompiledStep ==
    ASSUME AllCompiled, [BackendNext]_backendVars
    PROVE  AllCompiled' /\ (phase = "running" => compiled' = compiled)
  <1>1. CASE StartFails
    BY <1>1 DEF StartFails, AllCompiled
  <1>2. ASSUME NEW gymSeed \in GymSeeds, StartRuns(gymSeed)
        PROVE  AllCompiled' /\ (phase = "running" => compiled' = compiled)
    <2>1. phase # "running" /\ compiled' = compiled \cup Warm(gymSeed, Action(Standstill))
      BY <1>2 DEF StartRuns
    <2> QED BY <2>1, WarmsAll DEF AllCompiled
  <1>3. ASSUME NEW gymSeed \in GymSeeds, ResetRun(gymSeed)
        PROVE  AllCompiled' /\ (phase = "running" => compiled' = compiled)
    BY <1>3 DEF ResetRun, AllCompiled
  <1>4. ASSUME NEW command \in Drives, Command(command)
        PROVE  AllCompiled' /\ (phase = "running" => compiled' = compiled)
    BY <1>4 DEF Command, Both, AllCompiled
  <1>5. CASE StepBackend
    <2>1. phase = "running" /\ phase' = phase /\ compiled' = compiled \cup StepCalls(sim.state)
      BY <1>5 DEF StepBackend, Both
    <2> QED BY <2>1, StepsAreWarm DEF AllCompiled
  <1>6. CASE Republish
    BY <1>6 DEF Republish, Both, AllCompiled
  <1>7. CASE UNCHANGED backendVars
    BY <1>7 DEF backendVars, AllCompiled
  <1> QED BY <1>1, <1>2, <1>3, <1>4, <1>5, <1>6, <1>7 DEF BackendNext

\* Once the node runs nothing is compiled, whatever its seed, its commands and the
\* order of its steps and resets.
THEOREM RunNeverCompilesHolds == BackendSpec => RunNeverCompiles
  <1>1. BackendInit => AllCompiled
    BY DEF BackendInit, AllCompiled
  <1>2. AllCompiled /\ [BackendNext]_backendVars => AllCompiled'
    BY CompiledStep
  <1>3. AllCompiled /\ [BackendNext]_backendVars
        => [phase = "running" => compiled' = compiled]_backendVars
    BY CompiledStep
  <1> QED BY <1>1, <1>2, <1>3, PTL DEF BackendSpec, RunNeverCompiles

\* What a node and its backend hold, whatever happened to them.
Fields == {"built", "command", "key", "state", "laser", "noise", "previousSpeed",
           "truth", "odometry", "sent"}

IsNode(s) == s = [f \in Fields |-> s[f]] /\ s.built

LEMMA SameNode ==
    ASSUME NEW s, IsNode(s), NEW t, IsNode(t), \A f \in Fields : s[f] = t[f]
    PROVE  s = t
  BY DEF IsNode

LEMMA BuiltNode == ASSUME NEW command PROVE IsNode(Built(command))
  BY DEF IsNode, Built, Fields

LEMMA CommandedNode ==
    ASSUME NEW s, IsNode(s), NEW command
    PROVE  IsNode([s EXCEPT !.command = command])
  BY DEF IsNode, Fields

\* What a reset of the environment leaves, field by field.
LEMMA BackendResetNode ==
    ASSUME NEW s, IsNode(s), NEW gymSeed
    PROVE  /\ IsNode(BackendReset(s, gymSeed))
           /\ \A f \in Fields : BackendReset(s, gymSeed)[f] =
                 IF f = "key" THEN Key(gymSeed)
                 ELSE IF f \in {"state", "laser"} THEN EnvReset(Key(gymSeed)) ELSE s[f]
  BY DEF IsNode, BackendReset, Fields

LEMMA BackendStepNode == ASSUME NEW s, IsNode(s) PROVE IsNode(BackendStep(s))
  BY DEF IsNode, BackendStep, Fields

LEMMA ResetNoiseNode ==
    ASSUME NEW s, IsNode(s), NEW gymSeed
    PROVE  /\ IsNode(ResetNoise(s, gymSeed))
           /\ \A f \in Fields : ResetNoise(s, gymSeed)[f] =
                 CASE f = "noise" -> FromSeed(gymSeed)
                   [] f = "previousSpeed" -> None
                   [] f = "truth" -> s.state
                   [] f = "odometry" -> <<s.state>>
                   [] OTHER -> s[f]
  BY DEF IsNode, ResetNoise, Snapshot, Fields

\* Nothing a publication does depends on what was sent before.
LEMMA PublishNode ==
    ASSUME NEW s, IsNode(s)
    PROVE  /\ IsNode(PublishSnapshot(s))
           /\ \A t : /\ IsNode(t)
                     /\ \A f \in Fields \ {"sent"} : s[f] = t[f]
                     => PublishSnapshot(s) = PublishSnapshot(t)
  <1>1. ASSUME NEW t, IsNode(t), NEW pose
        PROVE  /\ IsNode(Reckoned(t, pose))
               /\ \A f \in Fields : Reckoned(t, pose)[f] =
                     CASE f = "odometry" -> Integrated(t.odometry, t.truth, pose,
                                                t.noise.odometry, t.noise.calibration)
                       [] f = "noise" -> [t.noise EXCEPT !.odometry =
                                              Drawn(@, OdometryDraws(t.truth, pose))]
                       [] f = "truth" -> pose
                       [] OTHER -> t[f]
    BY <1>1 DEF IsNode, Reckoned, Fields
  <1>2. ASSUME NEW t, IsNode(t)
        PROVE  /\ IsNode(PublishSnapshot(t))
               /\ \A f \in Fields : PublishSnapshot(t)[f] =
                     LET shot == Snapshot(t)
                         r == Reckoned(t, shot.pose)
                     IN CASE f = "sent" ->
                               [truth |-> shot.pose, scan |-> <<shot.laser, t.noise.scan>>,
                                odometry |-> <<r.odometry, shot.speed>>,
                                imu |-> <<BodyAcceleration(t.previousSpeed, shot.speed),
                                          t.noise.imu, t.noise.bias>>]
                          [] f = "noise" -> [r.noise EXCEPT !.scan = Drawn(@, ScanDraws),
                                                            !.imu = Drawn(@, ImuDraws)]
                          [] f = "previousSpeed" -> shot.speed
                          [] OTHER -> r[f]
    <2> DEFINE shot == Snapshot(t)
               r == Reckoned(t, shot.pose)
    <2>1. IsNode(r)
      BY <1>1, <1>2
    <2> HIDE DEF shot, r
    <2>2. PublishSnapshot(t) =
             [r EXCEPT !.sent = [truth |-> shot.pose, scan |-> <<shot.laser, t.noise.scan>>,
                                 odometry |-> <<r.odometry, shot.speed>>,
                                 imu |-> <<BodyAcceleration(t.previousSpeed, shot.speed),
                                           t.noise.imu, t.noise.bias>>],
                       !.noise.scan = Drawn(@, ScanDraws),
                       !.noise.imu = Drawn(@, ImuDraws),
                       !.previousSpeed = shot.speed]
      BY DEF PublishSnapshot, shot, r
    <2> SUFFICES
          /\ IsNode(PublishSnapshot(t))
          /\ \A f \in Fields : PublishSnapshot(t)[f] =
                CASE f = "sent" ->
                       [truth |-> shot.pose, scan |-> <<shot.laser, t.noise.scan>>,
                        odometry |-> <<r.odometry, shot.speed>>,
                        imu |-> <<BodyAcceleration(t.previousSpeed, shot.speed),
                                  t.noise.imu, t.noise.bias>>]
                  [] f = "noise" -> [r.noise EXCEPT !.scan = Drawn(@, ScanDraws),
                                                    !.imu = Drawn(@, ImuDraws)]
                  [] f = "previousSpeed" -> shot.speed
                  [] OTHER -> r[f]
      BY DEF shot, r
    <2> QED BY <2>1, <2>2 DEF IsNode, Fields
  <1>3. ASSUME NEW t, IsNode(t), \A f \in Fields \ {"sent"} : s[f] = t[f]
        PROVE  PublishSnapshot(s) = PublishSnapshot(t)
    <2>1. Snapshot(s) = Snapshot(t) /\ s.noise = t.noise /\ s.previousSpeed = t.previousSpeed
          /\ s.odometry = t.odometry /\ s.truth = t.truth
      BY <1>3 DEF Snapshot, Fields
    <2> DEFINE pose == Snapshot(s).pose
    <2>2. \A f \in Fields \ {"sent"} : Reckoned(s, pose)[f] = Reckoned(t, pose)[f]
      <3> DEFINE rs == Reckoned(s, pose)
                 rt == Reckoned(t, pose)
      <3>1. /\ rs.odometry = Integrated(s.odometry, s.truth, pose, s.noise.odometry,
                                        s.noise.calibration)
            /\ rs.noise = [s.noise EXCEPT !.odometry = Drawn(@, OdometryDraws(s.truth, pose))]
            /\ rs.truth = pose
            /\ \A f \in Fields \ {"odometry", "noise", "truth"} : rs[f] = s[f]
        BY <1>1 DEF Fields
      <3>2. /\ rt.odometry = Integrated(t.odometry, t.truth, pose, t.noise.odometry,
                                        t.noise.calibration)
            /\ rt.noise = [t.noise EXCEPT !.odometry = Drawn(@, OdometryDraws(t.truth, pose))]
            /\ rt.truth = pose
            /\ \A f \in Fields \ {"odometry", "noise", "truth"} : rt[f] = t[f]
        BY <1>1, <1>3 DEF Fields
      <3> HIDE DEF rs, rt, pose
      <3>3. rs.odometry = rt.odometry /\ rs.noise = rt.noise /\ rs.truth = rt.truth
        BY <2>1, <3>1, <3>2
      <3>4. \A f \in Fields \ {"sent"} : rs[f] = rt[f]
        BY <1>3, <3>1, <3>2, <3>3
      <3> QED BY <3>4 DEF rs, rt
    <2>3. \A f \in Fields : PublishSnapshot(s)[f] = PublishSnapshot(t)[f]
      <3> DEFINE shot == Snapshot(s)
                 rs == Reckoned(s, shot.pose)
                 rt == Reckoned(t, shot.pose)
                 ps == PublishSnapshot(s)
                 pt == PublishSnapshot(t)
      <3>1. \A f \in Fields \ {"sent"} : rs[f] = rt[f]
        BY <2>2
      <3>2. /\ ps.sent = [truth |-> shot.pose, scan |-> <<shot.laser, s.noise.scan>>,
                          odometry |-> <<rs.odometry, shot.speed>>,
                          imu |-> <<BodyAcceleration(s.previousSpeed, shot.speed),
                                    s.noise.imu, s.noise.bias>>]
            /\ ps.noise = [rs.noise EXCEPT !.scan = Drawn(@, ScanDraws),
                                           !.imu = Drawn(@, ImuDraws)]
            /\ ps.previousSpeed = shot.speed
            /\ \A f \in Fields \ {"sent", "noise", "previousSpeed"} : ps[f] = rs[f]
        BY <1>2 DEF Fields
      <3>3. /\ pt.sent = [truth |-> shot.pose, scan |-> <<shot.laser, t.noise.scan>>,
                          odometry |-> <<rt.odometry, shot.speed>>,
                          imu |-> <<BodyAcceleration(t.previousSpeed, shot.speed),
                                    t.noise.imu, t.noise.bias>>]
            /\ pt.noise = [rt.noise EXCEPT !.scan = Drawn(@, ScanDraws),
                                           !.imu = Drawn(@, ImuDraws)]
            /\ pt.previousSpeed = shot.speed
            /\ \A f \in Fields \ {"sent", "noise", "previousSpeed"} : pt[f] = rt[f]
        <4> DEFINE own == Snapshot(t)
                   r == Reckoned(t, own.pose)
        <4>1. /\ pt.sent = [truth |-> own.pose, scan |-> <<own.laser, t.noise.scan>>,
                            odometry |-> <<r.odometry, own.speed>>,
                            imu |-> <<BodyAcceleration(t.previousSpeed, own.speed),
                                      t.noise.imu, t.noise.bias>>]
              /\ pt.noise = [r.noise EXCEPT !.scan = Drawn(@, ScanDraws),
                                            !.imu = Drawn(@, ImuDraws)]
              /\ pt.previousSpeed = own.speed
              /\ \A f \in Fields \ {"sent", "noise", "previousSpeed"} : pt[f] = r[f]
          BY <1>2, <1>3 DEF Fields
        <4>2. own = shot
          BY <2>1
        <4> HIDE DEF own, shot, pt
        <4>3. r = rt
          BY <4>2
        <4> HIDE DEF r, rt
        <4> QED BY <4>1, <4>2, <4>3
      <3>4. rs.odometry = rt.odometry /\ rs.noise = rt.noise
        BY <3>1 DEF Fields
      <3> HIDE DEF shot, rs, rt, ps, pt
      <3>5. ps.sent = pt.sent /\ ps.noise = pt.noise /\ ps.previousSpeed = pt.previousSpeed
        BY <2>1, <3>2, <3>3, <3>4
      <3>6. \A f \in Fields : ps[f] = pt[f]
        BY <3>1, <3>2, <3>3, <3>5
      <3> QED BY <3>6 DEF ps, pt
    <2> QED BY <1>2, <1>3, <2>3, SameNode
  <1> QED BY <1>2, <1>3

\* A reset makes of any node the one that is launched anew.
LEMMA ResetIsLaunch ==
    ASSUME NEW s, IsNode(s), NEW gymSeed
    PROVE  LET reset == PublishSnapshot(ResetNoise(BackendReset(s, gymSeed), gymSeed))
           IN IsNode(reset) /\ reset = PublishSnapshot(Launched(s.command, gymSeed))
  <1> DEFINE old == BackendReset(s, gymSeed)
             new == BackendReset(Built(s.command), gymSeed)
             a == ResetNoise(old, gymSeed)
             b == ResetNoise(new, gymSeed)
  <1>1. IsNode(old) /\ IsNode(new)
    BY BackendResetNode, BuiltNode
  <1>2. old.built = new.built /\ old.command = new.command /\ old.key = new.key
        /\ old.state = new.state /\ old.laser = new.laser
    <2>1. /\ \A f \in Fields : old[f] =
                 IF f = "key" THEN Key(gymSeed)
                 ELSE IF f \in {"state", "laser"} THEN EnvReset(Key(gymSeed)) ELSE s[f]
          /\ \A f \in Fields : new[f] =
                 IF f = "key" THEN Key(gymSeed)
                 ELSE IF f \in {"state", "laser"} THEN EnvReset(Key(gymSeed))
                 ELSE Built(s.command)[f]
      BY BackendResetNode, BuiltNode
    <2>2. Built(s.command).built = s.built /\ Built(s.command).command = s.command
      BY DEF Built, IsNode
    <2> HIDE DEF old, new
    <2> QED BY <2>1, <2>2 DEF Fields
  <1> HIDE DEF old, new
  <1>3. IsNode(a) /\ IsNode(b)
    BY <1>1, ResetNoiseNode
  <1>4. \A f \in Fields \ {"sent"} : a[f] = b[f]
    <2>1. /\ \A f \in Fields : a[f] =
                 CASE f = "noise" -> FromSeed(gymSeed) [] f = "previousSpeed" -> None
                   [] f = "truth" -> old.state [] f = "odometry" -> <<old.state>>
                   [] OTHER -> old[f]
          /\ \A f \in Fields : b[f] =
                 CASE f = "noise" -> FromSeed(gymSeed) [] f = "previousSpeed" -> None
                   [] f = "truth" -> new.state [] f = "odometry" -> <<new.state>>
                   [] OTHER -> new[f]
      BY <1>1, ResetNoiseNode
    <2> HIDE DEF a, b
    <2> QED BY <1>2, <2>1 DEF Fields
  <1> HIDE DEF a, b
  <1>5. IsNode(PublishSnapshot(a)) /\ PublishSnapshot(a) = PublishSnapshot(b)
    BY <1>3, <1>4, PublishNode
  <1> QED BY <1>5 DEF a, b, old, new, Launched

ReplayInvariant ==
    /\ phase \in {"starting", "failed"} => ~twin.built
    /\ phase = "running" => IsNode(sim)
    /\ twin.built => sim = twin
    /\ phase \in {"starting", "running", "failed"}

\* What is asked of both nodes leaves them alike.
LEMMA BothAlike ==
    ASSUME ReplayInvariant, phase = "running", phase' = phase, IsNode(sim'),
           twin.built => twin' = sim', ~twin.built => twin' = twin
    PROVE  ReplayInvariant'
  BY DEF ReplayInvariant

LEMMA ReplayInvariantStep ==
    ASSUME ReplayInvariant, [BackendNext]_backendVars
    PROVE  ReplayInvariant'
  <1>1. CASE StartFails
    BY <1>1 DEF StartFails, ReplayInvariant
  <1>2. ASSUME NEW gymSeed \in GymSeeds, StartRuns(gymSeed) PROVE ReplayInvariant'
    <2>1. IsNode(Launched(Standstill, gymSeed))
      BY BuiltNode, BackendResetNode, ResetNoiseNode DEF Launched
    <2> QED BY <1>2, <2>1 DEF StartRuns, ReplayInvariant
  <1>3. ASSUME NEW gymSeed \in GymSeeds, ResetRun(gymSeed) PROVE ReplayInvariant'
    <2>1. phase = "running" /\ phase' = phase /\ IsNode(sim)
      BY <1>3 DEF ResetRun, ReplayInvariant
    <2>2. IsNode(sim') /\ sim' = twin'
      BY <1>3, <2>1, ResetIsLaunch DEF ResetRun
    <2> QED BY <2>1, <2>2 DEF ReplayInvariant
  <1>4. ASSUME NEW command \in Drives, Command(command) PROVE ReplayInvariant'
    <2>1. /\ phase = "running" /\ phase' = phase
          /\ sim' = [sim EXCEPT !.command = command]
          /\ twin' = IF twin.built THEN [twin EXCEPT !.command = command] ELSE twin
      BY <1>4 DEF Command, Both
    <2>2. IsNode(sim) /\ (twin.built => sim = twin)
      BY <2>1 DEF ReplayInvariant
    <2>3. IsNode(sim')
      BY <2>1, <2>2, CommandedNode
    <2> QED BY <2>1, <2>2, <2>3, BothAlike
  <1>5. CASE StepBackend
    <2>1. /\ phase = "running" /\ phase' = phase
          /\ sim' = PublishSnapshot(BackendStep(sim))
          /\ twin' = IF twin.built THEN PublishSnapshot(BackendStep(twin)) ELSE twin
      BY <1>5 DEF StepBackend, Both
    <2>2. IsNode(sim) /\ (twin.built => sim = twin)
      BY <2>1 DEF ReplayInvariant
    <2>3. IsNode(sim')
      BY <2>1, <2>2, BackendStepNode, PublishNode
    <2> QED BY <2>1, <2>2, <2>3, BothAlike
  <1>6. CASE Republish
    <2>1. /\ phase = "running" /\ phase' = phase
          /\ sim' = PublishSnapshot(sim)
          /\ twin' = IF twin.built THEN PublishSnapshot(twin) ELSE twin
      BY <1>6 DEF Republish, Both
    <2>2. IsNode(sim) /\ (twin.built => sim = twin)
      BY <2>1 DEF ReplayInvariant
    <2>3. IsNode(sim')
      BY <2>1, <2>2, PublishNode
    <2> QED BY <2>1, <2>2, <2>3, BothAlike
  <1>7. CASE UNCHANGED backendVars
    BY <1>7 DEF backendVars, ReplayInvariant
  <1> QED BY <1>1, <1>2, <1>3, <1>4, <1>5, <1>6, <1>7 DEF BackendNext

\* The scenario a node runs loads, and its optional fields have their places.
ScenarioHolds ==
    phase = "running" => document \in Documents /\ ScenarioLoads(document) /\ HasEnvId(document)

LEMMA ScenarioStep ==
    ASSUME ScenarioHolds, document \in Documents, [BackendNext]_backendVars
    PROVE  ScenarioHolds' /\ document' \in Documents
  BY DEF ScenarioHolds, BackendNext, StartFails, StartRuns, ResetRun, Command, StepBackend,
         Republish, Both, backendVars

\* One more field of the id, or none.
LEMMA FieldAdded ==
    ASSUME NEW S, NEW q \in Seq(S), NEW e \in S, NEW n \in Nat, Len(q) = n
    PROVE  /\ q \o <<e>> \in Seq(S) /\ Len(q \o <<e>>) = n + 1
           /\ (q \o <<e>>)[n + 1] = e
           /\ \A i \in 1 .. n : (q \o <<e>>)[i] = q[i]
  <1>1. Append(q, e) = q \o <<e>>
    OBVIOUS
  <1> QED BY <1>1

LEMMA NoFieldAdded == ASSUME NEW S, NEW q \in Seq(S) PROVE q \o <<>> = q
  OBVIOUS

\* The id's positions, whichever of the optional fields it has.
LEMMA MadeAsWritten ==
    ASSUME NEW d, HasEnvId(d)
    PROVE  LET env == Made(EnvId(d))
           IN /\ env.ratio = TimestepRatio(d)
              /\ env.maxSteps = d.maxSteps
              /\ env.longitudinal = d.longitudinal
  <1> DEFINE action == <<d.longitudinal, d.steering>>
             base == <<"map", d.numAgents, "scan", "collision", d.rewards, action>>
             S == {"map", d.numAgents, "scan", "collision", d.rewards, action,
                   d.ratio, d.maxSteps, d.version}
  <1>1. PICK n \in Nat : n = 6
    OBVIOUS
  <1>2. base \in Seq(S) /\ Len(base) = n /\ base[6] = action
    BY <1>1
  <1>3. d.ratio \in S /\ d.maxSteps \in S /\ d.version \in S
    OBVIOUS
  <1>4. EnvId(d) = base \o (IF d.ratio = None THEN <<>> ELSE <<d.ratio>>)
                        \o (IF d.maxSteps = None THEN <<>> ELSE <<d.maxSteps>>)
                        \o <<d.version>>
    BY DEF EnvId
  <1>5. action[1] = d.longitudinal
    OBVIOUS
  <1>6. 6 \in 1 .. n /\ n + 1 = 7 /\ 6 \in 1 .. n + 1 /\ 7 \in 1 .. n + 1 /\ n + 1 + 1 = 8
        /\ 6 \in 1 .. n + 1 + 1 /\ 7 \in 1 .. n + 1 + 1 /\ 8 \in 1 .. n + 1 + 1
        /\ n + 1 + 1 + 1 = 9 /\ n + 1 \in Nat /\ n + 1 + 1 \in Nat
    BY <1>1
  <1> HIDE DEF base, S, action
  <1>7. CASE d.ratio = None
    <2>1. d.maxSteps = None
      BY <1>7 DEF HasEnvId
    <2>2. EnvId(d) = base \o <<d.version>>
      BY <1>2, <1>4, <1>7, <2>1, NoFieldAdded
    <2>3. Len(EnvId(d)) = n + 1 /\ EnvId(d)[6] = action
      BY <1>2, <1>3, <1>6, <2>2, FieldAdded
    <2> QED BY <1>5, <1>6, <1>7, <2>1, <2>3 DEF Made, TimestepRatio
  <1>8. CASE d.ratio # None
    <2> DEFINE q == base \o <<d.ratio>>
    <2>1. q \in Seq(S) /\ Len(q) = n + 1 /\ q[n + 1] = d.ratio /\ q[6] = action
      BY <1>2, <1>3, <1>6, FieldAdded
    <2>2. EnvId(d) = q \o (IF d.maxSteps = None THEN <<>> ELSE <<d.maxSteps>>) \o <<d.version>>
      BY <1>4, <1>8
    <2>3. q[7] = d.ratio
      BY <1>6, <2>1
    <2> HIDE DEF q
    <2>4. CASE d.maxSteps = None
      <3>1. EnvId(d) = q \o <<d.version>>
        BY <2>1, <2>2, <2>4, NoFieldAdded
      <3>2. Len(EnvId(d)) = n + 1 + 1 /\ EnvId(d)[6] = action /\ EnvId(d)[7] = d.ratio
        BY <1>3, <1>6, <2>1, <2>3, <3>1, FieldAdded
      <3> QED BY <1>5, <1>6, <1>8, <2>4, <3>2 DEF Made, TimestepRatio
    <2>5. CASE d.maxSteps # None
      <3> DEFINE r == q \o <<d.maxSteps>>
      <3>1. r \in Seq(S) /\ Len(r) = n + 1 + 1 /\ r[n + 1 + 1] = d.maxSteps
            /\ r[6] = action /\ r[7] = d.ratio
        BY <1>3, <1>6, <2>1, <2>3, FieldAdded
      <3>2. EnvId(d) = r \o <<d.version>>
        BY <2>2, <2>5
      <3>3. r[8] = d.maxSteps
        BY <1>6, <3>1
      <3> HIDE DEF r
      <3>4. Len(EnvId(d)) = n + 1 + 1 + 1 /\ EnvId(d)[6] = action /\ EnvId(d)[7] = d.ratio
            /\ EnvId(d)[8] = d.maxSteps
        BY <1>3, <1>6, <3>1, <3>2, <3>3, FieldAdded
      <3> QED BY <1>5, <1>6, <1>8, <3>4 DEF Made, TimestepRatio
    <2> QED BY <2>4, <2>5
  <1> QED BY <1>7, <1>8

\* The node is one launched with its last seed and the command that stood, however
\* long it ran before and whatever was asked of it, and the environment is the one
\* of its scenario.
THEOREM NodeIsItsScenarioHolds == BackendSpec => []NodeIsItsScenario
  <1> DEFINE Inv == ReplayInvariant /\ ScenarioHolds /\ document \in Documents
  <1>1. BackendInit => Inv
    BY DEF BackendInit, ReplayInvariant, ScenarioHolds, Unbuilt
  <1>2. Inv /\ [BackendNext]_backendVars => Inv'
    BY ReplayInvariantStep, ScenarioStep
  <1>3. Inv => NodeIsItsScenario
    <2> SUFFICES ASSUME Inv PROVE NodeIsItsScenario
      OBVIOUS
    <2>1. ResetReplays
      BY DEF ReplayInvariant, ResetReplays
    <2>2. EnvIsScenario
      BY MadeAsWritten DEF ScenarioHolds, EnvIsScenario
    <2> QED BY <2>1, <2>2 DEF NodeIsItsScenario
  <1> HIDE DEF Inv
  <1> QED BY <1>1, <1>2, <1>3, PTL DEF BackendSpec

----------------------------------------------------------------------------

(***************************************************************************)
(* Recorder                                                                *)
(***************************************************************************)

Lines == [event : Nat, readable : BOOLEAN]

RecorderTypes ==
    /\ handled \in Seq(Messages) /\ buffer \in Seq(Lines) /\ disk \in Seq(Lines)
    /\ bad \in BOOLEAN /\ promised \in Nat

\* The stream, as long as it is good, holds the manifest and then the line of every
\* message that was handled, in order.
StreamWhole ==
    node = "up" /\ ~bad =>
        /\ Len(disk) + Len(buffer) = Len(handled) + 1
        /\ \A n \in 1 .. Len(handled) : (disk \o buffer)[n + 1] = Line(n, handled[n])

\* What was promised was handled, and is on disk.
PromiseKept ==
    /\ promised <= Len(handled) /\ promised < Len(disk)
    /\ disk[1] = Manifest
    /\ \A n \in 1 .. promised : disk[n + 1] = Line(n, handled[n])

RecorderInv ==
    /\ RecorderTypes /\ StreamWhole /\ PromiseKept
    /\ bad \/ node # "up" => buffer = <<>>

\* A sequence after another.
LEMMA Concatenated ==
    ASSUME NEW S, NEW s \in Seq(S), NEW t \in Seq(S)
    PROVE  /\ s \o t \in Seq(S) /\ Len(s \o t) = Len(s) + Len(t)
           /\ Len(s) \in Nat /\ Len(t) \in Nat
           /\ \A i \in 1 .. Len(s) : (s \o t)[i] = s[i]
  OBVIOUS

\* Whatever else reaches the file, it comes after what was promised.
LEMMA AppendsOnly ==
    ASSUME RecorderInv, NEW more \in Seq(Lines), disk' = disk \o more,
           UNCHANGED promised, handled' = handled
    PROVE  PromiseKept'
  <1>1. Len(disk') = Len(disk) + Len(more) /\ Len(disk) \in Nat /\ Len(more) \in Nat
        /\ \A i \in 1 .. Len(disk) : disk'[i] = disk[i]
    BY Concatenated DEF RecorderInv, RecorderTypes
  <1>2. promised \in Nat /\ promised < Len(disk)
    BY DEF RecorderInv, RecorderTypes, PromiseKept
  <1>3. 1 \in 1 .. Len(disk) /\ \A n \in 1 .. promised : n + 1 \in 1 .. Len(disk)
    BY <1>1, <1>2
  <1> QED BY <1>1, <1>2, <1>3 DEF RecorderInv, PromiseKept

LEMMA RecorderStarts == ASSUME RecorderInit PROVE RecorderInv
  <1>1. Manifest \in Lines
    BY DEF Manifest, Lines
  <1>2. RecorderTypes
    <2>1. <<Manifest>> \in Seq(Lines)
      BY <1>1
    <2>2. handled \in Seq(Messages) /\ buffer \in Seq(Lines) /\ disk \in Seq(Lines)
      BY <2>1 DEF RecorderInit
    <2>3. bad \in BOOLEAN /\ promised \in Nat
      BY DEF RecorderInit
    <2> QED BY <2>2, <2>3 DEF RecorderTypes
  <1>3. Len(disk) = 1 /\ disk[1] = Manifest /\ Len(handled) = 0 /\ Len(buffer) = 0
    BY DEF RecorderInit
  <1>4. StreamWhole
    BY <1>3 DEF StreamWhole
  <1>5. PromiseKept
    BY <1>3 DEF RecorderInit, PromiseKept
  <1> QED BY <1>2, <1>4, <1>5 DEF RecorderInit, RecorderInv

\* A node that is started again begins as the first did.
LEMMA RecorderRestarts == Restart => RecorderInv'
  <1>1. RecorderInit => RecorderInv
    BY RecorderStarts
  <1>2. Restart => RecorderInit'
    BY DEF Restart, RecorderInit
  <1> QED BY <1>1, <1>2, PTL

LEMMA LineType ==
    ASSUME NEW n \in Nat, NEW message \in Messages
    PROVE  Line(n, message) \in Lines
  BY DEF Line, Lines, Messages

\* A message and its line, at the end of what was handled and of the stream.
LEMMA HandledNext ==
    ASSUME RecorderInv, node = "up", ~bad, NEW message \in Messages,
           handled' = Append(handled, message)
    PROVE  LET lines == Append(buffer, Line(Len(handled) + 1, message))
           IN /\ lines \in Seq(Lines) /\ handled' \in Seq(Messages)
              /\ Len(handled') = Len(handled) + 1
              /\ \A n \in 1 .. Len(handled) : handled'[n] = handled[n]
              /\ disk \o lines \in Seq(Lines)
              /\ Len(disk \o lines) = Len(handled') + 1
              /\ Len(disk) + Len(lines) = Len(handled') + 1
              /\ \A n \in 1 .. Len(handled') : (disk \o lines)[n + 1] = Line(n, handled'[n])
  <1> DEFINE last == Line(Len(handled) + 1, message)
             lines == Append(buffer, last)
  <1>1. handled \in Seq(Messages) /\ buffer \in Seq(Lines) /\ disk \in Seq(Lines)
        /\ Len(handled) \in Nat /\ Len(buffer) \in Nat /\ Len(disk) \in Nat
    BY DEF RecorderInv, RecorderTypes
  <1>2. /\ handled' \in Seq(Messages) /\ Len(handled') = Len(handled) + 1
        /\ \A n \in 1 .. Len(handled) : handled'[n] = handled[n]
        /\ handled'[Len(handled) + 1] = message
    BY <1>1
  <1>3. last \in Lines
    BY <1>1, LineType
  <1> HIDE DEF last
  <1>4. lines \in Seq(Lines) /\ Len(lines) = Len(buffer) + 1
    BY <1>1, <1>3
  <1>5. disk \o lines = Append(disk \o buffer, last)
    BY <1>1, <1>3
  <1> DEFINE stream == disk \o buffer
  <1>6. stream \in Seq(Lines) /\ Len(stream) = Len(handled) + 1
        /\ \A n \in 1 .. Len(handled) : stream[n + 1] = Line(n, handled[n])
    BY <1>1 DEF RecorderInv, StreamWhole
  <1> HIDE DEF stream, lines
  <1>7. disk \o lines = Append(stream, last)
    BY <1>5 DEF stream
  <1>8. /\ Append(stream, last) \in Seq(Lines) /\ Len(Append(stream, last)) = Len(handled) + 2
        /\ \A i \in 1 .. Len(handled) + 1 : Append(stream, last)[i] = stream[i]
        /\ Append(stream, last)[Len(handled) + 2] = last
    BY <1>1, <1>3, <1>6
  <1>9. \A n \in 1 .. Len(handled') : Append(stream, last)[n + 1] = Line(n, handled'[n])
    <2> SUFFICES ASSUME NEW n \in 1 .. Len(handled')
                 PROVE  Append(stream, last)[n + 1] = Line(n, handled'[n])
      OBVIOUS
    <2>1. CASE n \in 1 .. Len(handled)
      <3>1. n + 1 \in 1 .. Len(handled) + 1
        BY <1>1, <2>1
      <3> QED BY <1>2, <1>6, <1>8, <2>1, <3>1
    <2>2. CASE n = Len(handled) + 1
      <3>1. n + 1 = Len(handled) + 2
        BY <1>1, <2>2
      <3>2. Append(stream, last)[n + 1] = last
        BY <1>8, <3>1
      <3>3. handled'[n] = message
        BY <1>2, <2>2
      <3> QED BY <2>2, <3>2, <3>3 DEF last
    <2>3. n \in 1 .. Len(handled) \/ n = Len(handled) + 1
      BY <1>1, <1>2
    <2> QED BY <2>1, <2>2, <2>3
  <1>10. Len(handled) + 2 = Len(handled') + 1 /\ Len(disk) + Len(lines) = Len(handled') + 1
    <2>1. Len(disk) + Len(buffer) = Len(handled) + 1
      BY DEF RecorderInv, StreamWhole
    <2> QED BY <1>1, <1>2, <1>4, <2>1
  <1>11. /\ lines \in Seq(Lines) /\ handled' \in Seq(Messages)
         /\ Len(handled') = Len(handled) + 1
         /\ \A n \in 1 .. Len(handled) : handled'[n] = handled[n]
         /\ disk \o lines \in Seq(Lines)
         /\ Len(disk \o lines) = Len(handled') + 1
         /\ Len(disk) + Len(lines) = Len(handled') + 1
         /\ \A n \in 1 .. Len(handled') : (disk \o lines)[n + 1] = Line(n, handled'[n])
    BY <1>2, <1>4, <1>7, <1>8, <1>9, <1>10, Zenon
  <1> QED BY <1>11 DEF last, lines

\* What a callback has done before it fails.
LEMMA DiesInv ==
    ASSUME RecorderInv, Dies, NEW more \in Seq(Lines), disk' = disk \o more,
           UNCHANGED <<handled, promised>>, bad' \in BOOLEAN
    PROVE  RecorderInv'
  <1>1. RecorderTypes'
    <2>1. handled' \in Seq(Messages) /\ promised' \in Nat
      BY DEF RecorderInv, RecorderTypes
    <2>2. buffer' \in Seq(Lines) /\ disk' \in Seq(Lines)
      BY DEF Dies, RecorderInv, RecorderTypes
    <2> QED BY <2>1, <2>2 DEF RecorderTypes
  <1>2. PromiseKept'
    BY AppendsOnly
  <1>3. node' = "down" /\ buffer' = <<>>
    BY DEF Dies
  <1> QED BY <1>1, <1>2, <1>3 DEF RecorderInv, StreamWhole

\* Nothing more reached the file.
LEMMA NoMore ==
    ASSUME RecorderInv
    PROVE  <<>> \in Seq(Lines) /\ disk \o <<>> = disk
  BY DEF RecorderInv, RecorderTypes

\* Some of what was to be written, the last of it cut short.
LEMMA CutShort ==
    ASSUME RecorderInv, NEW q \in Seq(Lines), NEW n \in 0 .. Len(q)
    PROVE  /\ Append(SubSeq(q, 1, n), Cut) \in Seq(Lines)
           /\ Append(disk \o SubSeq(q, 1, n), Cut) = disk \o Append(SubSeq(q, 1, n), Cut)
  <1>1. Cut \in Lines /\ disk \in Seq(Lines)
    BY DEF Cut, Lines, RecorderInv, RecorderTypes
  <1>2. SubSeq(q, 1, n) \in Seq(Lines)
    OBVIOUS
  <1> QED BY <1>1, <1>2

LEMMA HandleStep ==
    ASSUME RecorderInv, NEW message \in Messages, Handle(message)
    PROVE  RecorderInv'
  <1> DEFINE lines == Append(buffer, Line(Len(handled) + 1, message))
             flushes == message.topic = "/scenario/metrics"
  <1>1. CASE /\ ~message.negative /\ ~bad
             /\ handled' = Append(handled, message)
             /\ buffer' = IF flushes THEN <<>> ELSE lines
             /\ disk' = IF flushes THEN disk \o lines ELSE disk
             /\ promised' = IF flushes THEN Len(handled') ELSE promised
             /\ UNCHANGED <<node, bad>>
    <2>1. node = "up" /\ node' = node /\ ~bad /\ ~bad'
      BY <1>1 DEF Handle
    <2>2. /\ lines \in Seq(Lines) /\ handled' \in Seq(Messages)
          /\ Len(handled') = Len(handled) + 1
          /\ \A n \in 1 .. Len(handled) : handled'[n] = handled[n]
          /\ disk \o lines \in Seq(Lines)
          /\ Len(disk \o lines) = Len(handled') + 1
          /\ Len(disk) + Len(lines) = Len(handled') + 1
          /\ \A n \in 1 .. Len(handled') : (disk \o lines)[n + 1] = Line(n, handled'[n])
      BY <1>1, <2>1, HandledNext
    <2>3. /\ Len(handled) \in Nat /\ disk \in Seq(Lines) /\ Len(disk) \in Nat
          /\ promised \in Nat /\ promised <= Len(handled) /\ promised < Len(disk)
          /\ disk[1] = Manifest /\ \A n \in 1 .. promised : disk[n + 1] = Line(n, handled[n])
      BY DEF RecorderInv, RecorderTypes, PromiseKept
    <2>0. bad' \in BOOLEAN
      BY <1>1 DEF RecorderInv, RecorderTypes
    <2> HIDE DEF lines
    <2>4. CASE flushes
      <3>1. disk' = disk \o lines /\ buffer' = <<>> /\ promised' = Len(handled')
        BY <1>1, <2>4
      <3>2. disk' \o buffer' = disk' /\ Len(buffer') = 0
        BY <2>2, <3>1
      <3>3. disk'[1] = Manifest
        <4>1. 1 \in 1 .. Len(disk)
          BY <2>3
        <4> QED BY <2>2, <2>3, <3>1, <4>1, Concatenated
      <3>4. RecorderTypes'
        <4>1. buffer' \in Seq(Lines) /\ disk' \in Seq(Lines) /\ promised' \in Nat
          BY <2>2, <2>3, <3>1
        <4> QED BY <2>0, <2>2, <4>1 DEF RecorderTypes
      <3>5. StreamWhole'
        BY <2>2, <2>3, <3>1, <3>2 DEF StreamWhole
      <3>6. PromiseKept'
        BY <2>2, <2>3, <3>1, <3>3 DEF PromiseKept
      <3> QED BY <2>1, <3>1, <3>4, <3>5, <3>6 DEF RecorderInv
    <2>5. CASE ~flushes
      <3>1. disk' = disk /\ buffer' = lines /\ promised' = promised
        BY <1>1, <2>5
      <3>2. RecorderTypes'
        <4>1. buffer' \in Seq(Lines) /\ disk' \in Seq(Lines) /\ promised' \in Nat
          BY <2>2, <2>3, <3>1
        <4> QED BY <2>0, <2>2, <4>1 DEF RecorderTypes
      <3>3. StreamWhole'
        BY <2>2, <3>1 DEF StreamWhole
      <3>4. PromiseKept'
        <4>1. \A n \in 1 .. promised : handled'[n] = handled[n]
          BY <2>2, <2>3
        <4> QED BY <2>2, <2>3, <3>1, <4>1 DEF PromiseKept
      <3> QED BY <2>1, <3>2, <3>3, <3>4 DEF RecorderInv
    <2> QED BY <2>4, <2>5
  <1>2. ASSUME flushes, ~message.negative, ~bad, NEW n \in 0 .. Len(buffer),
               disk' = Append(disk \o SubSeq(lines, 1, n), Cut), Dies,
               UNCHANGED <<handled, bad, promised>>
        PROVE  RecorderInv'
    <2>1. buffer \in Seq(Lines) /\ handled \in Seq(Messages) /\ bad' \in BOOLEAN
      BY <1>2 DEF RecorderInv, RecorderTypes
    <2>2. Line(Len(handled) + 1, message) \in Lines
      BY <2>1, LineType
    <2>3. lines \in Seq(Lines) /\ n \in 0 .. Len(lines)
      BY <2>1, <2>2
    <2> HIDE DEF lines
    <2> QED BY <1>2, <2>1, <2>3, CutShort, DiesInv
  <1>3. CASE (message.negative \/ bad) /\ Dies /\ UNCHANGED <<handled, disk, bad, promised>>
    <2>1. bad' \in BOOLEAN
      BY <1>3 DEF RecorderInv, RecorderTypes
    <2> QED BY <1>3, <2>1, NoMore, DiesInv
  <1> QED BY <1>1, <1>2, <1>3 DEF Handle

\* What the buffer held reaches the file.
LEMMA BufferWritten ==
    ASSUME RecorderInv, ~bad, disk' = disk \o buffer, buffer' = <<>>,
           UNCHANGED <<handled, bad>>, node = "up",
           promised' = promised \/ promised' = Len(handled)
    PROVE  RecorderInv'
  <1>1. /\ handled \in Seq(Messages) /\ buffer \in Seq(Lines) /\ disk \in Seq(Lines)
        /\ Len(handled) \in Nat /\ Len(disk) \in Nat /\ promised \in Nat
    BY DEF RecorderInv, RecorderTypes
  <1>2. /\ disk' \in Seq(Lines) /\ Len(disk') = Len(handled) + 1
        /\ \A n \in 1 .. Len(handled) : disk'[n + 1] = Line(n, handled[n])
    BY <1>1, Concatenated DEF RecorderInv, StreamWhole
  <1>3. disk'[1] = Manifest
    <2>1. 1 \in 1 .. Len(disk) /\ disk[1] = Manifest
      BY <1>1 DEF RecorderInv, PromiseKept
    <2> QED BY <1>1, <2>1, Concatenated
  <1>4. RecorderTypes'
    BY <1>1, <1>2 DEF RecorderInv, RecorderTypes
  <1>5. StreamWhole'
    <2>1. disk' \o buffer' = disk' /\ Len(buffer') = 0
      BY <1>2
    <2>2. Len(disk') + Len(buffer') = Len(handled') + 1
      BY <1>1, <1>2, <2>1
    <2>3. \A n \in 1 .. Len(handled') : (disk' \o buffer')[n + 1] = Line(n, handled'[n])
      BY <1>2, <2>1, Zenon
    <2> QED BY <2>2, <2>3 DEF StreamWhole
  <1>6. PromiseKept'
    <2>1. promised' \in Nat /\ promised' <= Len(handled)
      BY <1>1 DEF RecorderInv, PromiseKept
    <2>2. promised' <= Len(handled') /\ promised' < Len(disk')
      BY <1>1, <1>2, <2>1
    <2>3. \A n \in 1 .. promised' : n \in 1 .. Len(handled)
      BY <1>1, <2>1
    <2>4. \A n \in 1 .. promised' : disk'[n + 1] = Line(n, handled'[n])
      BY <1>2, <2>3, Zenon
    <2> QED BY <1>3, <2>2, <2>4 DEF PromiseKept
  <1> QED BY <1>4, <1>5, <1>6 DEF RecorderInv

\* Of a bad stream nothing reaches it, and nothing more is promised.
LEMMA NothingWritten ==
    ASSUME RecorderInv, UNCHANGED <<disk, handled, bad, promised>>, bad, buffer' = <<>>
    PROVE  RecorderInv'
  <1>1. RecorderTypes'
    BY DEF RecorderInv, RecorderTypes
  <1>2. PromiseKept'
    BY DEF RecorderInv, PromiseKept
  <1> QED BY <1>1, <1>2 DEF RecorderInv, StreamWhole

LEMMA RecorderStep ==
    ASSUME RecorderInv, [RecorderNext]_recorderVars
    PROVE  RecorderInv'
  <1>1. CASE Spill
    BY <1>1, BufferWritten DEF Spill
  <1>2. CASE WriteError
    <2>1. PICK n \in 0 .. Len(buffer) - 1 : disk' = Append(disk \o SubSeq(buffer, 1, n), Cut)
      BY <1>2 DEF WriteError
    <2>2. buffer \in Seq(Lines) /\ n \in 0 .. Len(buffer)
      BY DEF RecorderInv, RecorderTypes
    <2> DEFINE more == Append(SubSeq(buffer, 1, n), Cut)
    <2>3. more \in Seq(Lines) /\ disk' = disk \o more
      BY <2>1, <2>2, CutShort
    <2> HIDE DEF more
    <2>4. buffer' = <<>> /\ bad' /\ UNCHANGED <<node, handled, promised>>
      BY <1>2 DEF WriteError
    <2>5. PromiseKept'
      BY <2>3, <2>4, AppendsOnly
    <2>6. disk' \in Seq(Lines)
      BY <2>3 DEF RecorderInv, RecorderTypes
    <2>7. RecorderTypes'
      <3>1. bad' \in BOOLEAN
        BY <1>2 DEF WriteError
      <3> QED BY <2>4, <2>6, <3>1 DEF RecorderInv, RecorderTypes
    <2> QED BY <2>4, <2>5, <2>7 DEF RecorderInv, StreamWhole
  <1>3. CASE FlushService
    <2>1. CASE bad
      BY <1>3, <2>1, NothingWritten DEF FlushService, Flushed, RecorderInv
    <2>2. CASE ~bad
      BY <1>3, <2>2, BufferWritten DEF FlushService, Flushed
    <2> QED BY <2>1, <2>2
  <1>4. CASE Shutdown
    <2>1. CASE bad
      BY <1>4, <2>1, NothingWritten DEF Shutdown
    <2>2. CASE ~bad
      BY <1>4, <2>2, BufferWritten DEF Shutdown
    <2> QED BY <2>1, <2>2
  <1>5. CASE Kill
    <2>1. bad' \in BOOLEAN
      BY <1>5 DEF Kill, RecorderInv, RecorderTypes
    <2> QED BY <1>5, <2>1, NoMore, DiesInv DEF Kill
  <1>6. CASE Restart
    BY <1>6, RecorderRestarts
  <1>7. CASE UNCHANGED recorderVars
    BY <1>7 DEF recorderVars, RecorderInv, RecorderTypes, StreamWhole, PromiseKept
  <1> QED BY <1>1, <1>2, <1>3, <1>4, <1>5, <1>6, <1>7, HandleStep DEF RecorderNext

\* A flush that was answered with success, and every metrics message, leave on disk
\* whatever was handled before, in order and uncut, however the node then ends.
THEOREM FlushedIsOnDiskHolds == RecorderSpec => []FlushedIsOnDisk
  <1>1. RecorderInv => FlushedIsOnDisk
    <2> SUFFICES ASSUME RecorderInv PROVE FlushedIsOnDisk
      OBVIOUS
    <2>1. Len(disk) > promised /\ disk[1] = Manifest
      BY DEF RecorderInv, RecorderTypes, PromiseKept
    <2>2. ASSUME NEW n \in 1 .. promised
          PROVE  /\ disk[n + 1].event = n
                 /\ disk[n + 1].readable \/ ~handled[n].finite
                 /\ handled[n].topic = "/evaluation/localization_error"
                       => disk[n + 1].readable
      <3>1. disk[n + 1] = Line(n, handled[n])
        BY DEF RecorderInv, PromiseKept
      <3> DEFINE m == handled[n]
      <3>2. /\ Line(n, m).event = n
            /\ Line(n, m).readable <=> m.finite \/ m.topic = "/evaluation/localization_error"
        BY DEF Line
      <3> QED BY <3>1, <3>2
    <2> QED BY <2>1, <2>2 DEF FlushedIsOnDisk
  <1> QED BY <1>1, RecorderStarts, RecorderStep, PTL DEF RecorderSpec

----------------------------------------------------------------------------

(***************************************************************************)
(* Nightly                                                                 *)
(***************************************************************************)

\* What a job has run by each of its steps.
RanBy(j, at_) ==
    CASE at_ \in {"select", "system"} -> {}
      [] at_ = "acceptance" -> Select(j[1], "system")
      [] at_ = "nightly" -> Select(j[1], "system") \cup Select(j[1], "acceptance")
      [] at_ = "passed" ->
             Select(j[1], "system") \cup Select(j[1], "acceptance")
             \cup (IF j[2] = Tier5Seed THEN Select(j[1], "nightly") ELSE {})

\* No job of a region has gone on with a map that does not load, and a job that has
\* not failed has run the tiers before its step, and no others.
JobInv(j) ==
    /\ step[j] \in {"select", "system", "acceptance", "nightly", "passed", "failed"}
    /\ j[1] # Static /\ step[j] \notin {"select", "failed"} => LoadRegions
    /\ step[j] # "failed" => ran[j] = RanBy(j, step[j])
    /\ step[j] = "nightly" => j[2] = Tier5Seed

NightlyInv ==
    /\ step = [j \in Jobs |-> step[j]] /\ ran = [j \in Jobs |-> ran[j]]
    /\ \A j \in Jobs : JobInv(j)

LEMMA NightlyStarts == ASSUME NightlyInit PROVE NightlyInv
  BY DEF NightlyInit, NightlyInv, JobInv, RanBy

\* A step of one job leaves the others where they are.
LEMMA OneJob ==
    ASSUME NightlyInv, NEW j \in Jobs, NEW next, NEW more, UNCHANGED suite,
           step' = [step EXCEPT ![j] = next], ran' = [ran EXCEPT ![j] = @ \cup more],
           next \in {"select", "system", "acceptance", "nightly", "passed", "failed"},
           j[1] # Static /\ next \notin {"select", "failed"} => LoadRegions,
           next # "failed" => ran[j] \cup more = RanBy(j, next),
           next = "nightly" => j[2] = Tier5Seed
    PROVE  NightlyInv'
  <1>1. /\ step'[j] = next /\ ran'[j] = ran[j] \cup more
        /\ \A k \in Jobs \ {j} : step'[k] = step[k] /\ ran'[k] = ran[k]
        /\ step' = [k \in Jobs |-> step'[k]] /\ ran' = [k \in Jobs |-> ran'[k]]
    BY DEF NightlyInv
  <1>2. LoadRegions' <=> LoadRegions
    BY DEF LoadRegions, Listed, ListedOnce, Known
  <1>3. \A k, at_ : RanBy(k, at_)' = RanBy(k, at_)
    BY DEF RanBy, Select, Listed
  <1>4. JobInv(j)'
    BY <1>1, <1>2, <1>3 DEF JobInv
  <1>5. ASSUME NEW k \in Jobs \ {j} PROVE JobInv(k)'
    BY <1>1, <1>2, <1>3 DEF NightlyInv, JobInv
  <1> QED BY <1>1, <1>4, <1>5 DEF NightlyInv

LEMMA RanNothing ==
    ASSUME NightlyInv, NEW j \in Jobs
    PROVE  ran = [ran EXCEPT ![j] = @ \cup {}] /\ ran[j] \cup {} = ran[j]
  BY DEF NightlyInv

LEMMA NightlyStep == ASSUME NightlyInv, [NightlyNext]_nightlyVars PROVE NightlyInv'
  <1>1. ASSUME NEW j \in Jobs, SelectTests(j) PROVE NightlyInv'
    <2> DEFINE next == IF j[1] = Static \/ LoadRegions THEN "system" ELSE "failed"
    <2>1. /\ step[j] = "select" /\ UNCHANGED suite /\ step' = [step EXCEPT ![j] = next]
          /\ ran' = [ran EXCEPT ![j] = @ \cup {}]
      BY <1>1, RanNothing DEF SelectTests
    <2>2. ran[j] = {}
      BY <2>1 DEF NightlyInv, JobInv, RanBy
    <2>3. next # "failed" => ran[j] \cup {} = RanBy(j, next)
      BY <2>2 DEF RanBy
    <2>4. /\ next \in {"system", "failed"}
          /\ j[1] # Static /\ next # "failed" => LoadRegions
      OBVIOUS
    <2> HIDE DEF next
    <2> QED BY <2>1, <2>3, <2>4, OneJob
  <1>2. ASSUME NEW j \in Jobs, NEW tier \in {"system", "acceptance", "nightly"}, RunTier(j, tier)
        PROVE  NightlyInv'
    <2>1. /\ step[j] = tier /\ UNCHANGED suite
          /\ step' = [step EXCEPT ![j] = AfterTier(j, tier)]
          /\ ran' = [ran EXCEPT ![j] = @ \cup Select(j[1], tier)]
      BY <1>2 DEF RunTier
    <2>2. /\ j[1] # Static => LoadRegions
          /\ ran[j] = RanBy(j, tier)
          /\ tier = "nightly" => j[2] = Tier5Seed
      BY <2>1 DEF NightlyInv, JobInv
    <2>3. /\ AfterTier(j, tier) \in {"acceptance", "nightly", "passed"}
          /\ AfterTier(j, tier) = "nightly" => j[2] = Tier5Seed
      BY DEF AfterTier
    <2>4. ran[j] \cup Select(j[1], tier) = RanBy(j, AfterTier(j, tier))
      BY <2>2 DEF RanBy, AfterTier
    <2> QED BY <2>1, <2>2, <2>3, <2>4, OneJob
  <1>3. ASSUME NEW j \in Jobs, JobFails(j) PROVE NightlyInv'
    <2>1. /\ UNCHANGED suite /\ step' = [step EXCEPT ![j] = "failed"]
          /\ ran' = [ran EXCEPT ![j] = @ \cup {}]
      BY <1>3, RanNothing DEF JobFails
    <2> QED BY <2>1, OneJob
  <1>4. CASE UNCHANGED nightlyVars
    <2>1. UNCHANGED <<suite, step, ran>>
      BY <1>4 DEF nightlyVars
    <2>2. LoadRegions' <=> LoadRegions
      BY <2>1 DEF LoadRegions, Listed, ListedOnce, Known
    <2>3. \A k, at_ : RanBy(k, at_)' = RanBy(k, at_)
      BY <2>1 DEF RanBy, Select, Listed
    <2>4. \A k \in Jobs : JobInv(k)'
      BY <2>1, <2>2, <2>3 DEF NightlyInv, JobInv
    <2> QED BY <2>1, <2>4 DEF NightlyInv
  <1>5. CASE NightlyNext
    <2>1. PICK j \in Jobs :
             \/ SelectTests(j) \/ JobFails(j)
             \/ \E tier \in {"system", "acceptance", "nightly"} : RunTier(j, tier)
      BY <1>5 DEF NightlyNext
    <2> QED BY <2>1, <1>1, <1>2, <1>3
  <1> QED BY <1>4, <1>5

\* What a region selects, case by case.
LEMMA Selected34 ==
    ASSUME NEW r, r # Static
    PROVE  /\ \A x : x \in Select(r, "system") <=>
                        \E i \in Listed(r) \cap suite.system : x = <<"system", i, i>>
           /\ \A x : x \in Select(r, "nightly") <=>
                        \E i \in Listed(r) \cap suite.nightly : x = <<"nightly", i, i>>
           /\ \A x : x \in Select(r, "acceptance") <=>
                        \E i \in DOMAIN suite.robot : \E n \in suite.robot[i] :
                           /\ x = <<"acceptance", i, n>>
                           /\ \E k \in Listed(r) \cap DOMAIN suite.robot : n \in suite.robot[k]
  <1>1. ASSUME NEW x
        PROVE  x \in Select(r, "acceptance") <=>
                  \E i \in DOMAIN suite.robot : \E n \in suite.robot[i] :
                     /\ x = <<"acceptance", i, n>>
                     /\ \E k \in Listed(r) \cap DOMAIN suite.robot : n \in suite.robot[k]
    <2> DEFINE names == UNION {suite.robot[i] : i \in Listed(r) \cap DOMAIN suite.robot}
               Of(i) == {<<"acceptance", i, n>> : n \in suite.robot[i] \cap names}
    <2>1. Select(r, "acceptance") = UNION {Of(i) : i \in DOMAIN suite.robot}
      BY DEF Select
    <2>2. \A n : n \in names <=>
                    \E k \in Listed(r) \cap DOMAIN suite.robot : n \in suite.robot[k]
      OBVIOUS
    <2>3. x \in Select(r, "acceptance") <=> \E i \in DOMAIN suite.robot : x \in Of(i)
      BY <2>1
    <2>4. \A i : x \in Of(i) <=> \E n \in suite.robot[i] : x = <<"acceptance", i, n>> /\ n \in names
      OBVIOUS
    <2> HIDE DEF names, Of
    <2> QED BY <2>2, <2>3, <2>4
  <1>2. Select(r, "system") = {<<"system", i, i>> : i \in Listed(r) \cap suite.system}
    BY DEF Select
  <1>3. Select(r, "nightly") = {<<"nightly", i, i>> : i \in Listed(r) \cap suite.nightly}
    BY DEF Select
  <1> QED BY <1>1, <1>2, <1>3

\* All regions' selections of one tier are all of its cases.
LEMMA WholeTier ==
    ASSUME LoadRegions
    PROVE  /\ UNION {Select(r, "system") : r \in Regions} = TestsOf("system", suite.system)
           /\ UNION {Select(r, "nightly") : r \in Regions} = TestsOf("nightly", suite.nightly)
           /\ UNION {Select(r, "acceptance") : r \in Regions} =
                 UNION {{<<"acceptance", i, n>> : n \in suite.robot[i]} : i \in DOMAIN suite.robot}
  <1>1. \A r \in Regions : r # Static
    BY NightlyAssumption
  <1>2. \A i \in Known : \E r \in Regions : i \in Listed(r)
    BY DEF LoadRegions
  <1>3. UNION {Select(r, "system") : r \in Regions} = TestsOf("system", suite.system)
    <2>1. \A i \in suite.system : \E r \in Regions : i \in Listed(r)
      BY <1>2 DEF Known
    <2> QED BY <1>1, <2>1, Selected34 DEF TestsOf
  <1>4. UNION {Select(r, "nightly") : r \in Regions} = TestsOf("nightly", suite.nightly)
    <2>1. \A i \in suite.nightly : \E r \in Regions : i \in Listed(r)
      BY <1>2 DEF Known
    <2> QED BY <1>1, <2>1, Selected34 DEF TestsOf
  <1>5. UNION {Select(r, "acceptance") : r \in Regions} =
           UNION {{<<"acceptance", i, n>> : n \in suite.robot[i]} : i \in DOMAIN suite.robot}
    <2> DEFINE All == UNION {{<<"acceptance", i, n>> : n \in suite.robot[i]} :
                                i \in DOMAIN suite.robot}
    <2>1. \A x : x \in All <=> \E i \in DOMAIN suite.robot : \E n \in suite.robot[i] :
                                  x = <<"acceptance", i, n>>
      OBVIOUS
    <2>2. ASSUME NEW x \in All PROVE \E r \in Regions : x \in Select(r, "acceptance")
      <3>1. PICK i \in DOMAIN suite.robot : \E n \in suite.robot[i] : x = <<"acceptance", i, n>>
        BY <2>1
      <3>2. PICK r \in Regions : i \in Listed(r)
        BY <1>2 DEF Known
      <3> QED BY <1>1, <3>1, <3>2, Selected34
    <2>3. ASSUME NEW r \in Regions, NEW x \in Select(r, "acceptance") PROVE x \in All
      BY <1>1, <2>1, Selected34
    <2> HIDE DEF All
    <2>4. UNION {Select(r, "acceptance") : r \in Regions} = All
      BY <2>2, <2>3
    <2> QED BY <2>4 DEF All
  <1> QED BY <1>3, <1>4, <1>5

\* An ID is listed in one region only.
LEMMA OneRegion ==
    ASSUME LoadRegions, NEW r \in Regions, NEW q \in Regions, NEW i,
           i \in Listed(r), i \in Listed(q)
    PROVE  r = q
  BY DEF LoadRegions, ListedOnce, Listed

\* A case is of one region only, unless its name is that of another ID's case too.
LEMMA ApartByRegion ==
    ASSUME LoadRegions, NamesDiffer, NEW r \in Regions, NEW q \in Regions, r # q,
           NEW x, NEW tier \in {"system", "acceptance", "nightly"},
           NEW as \in {"system", "acceptance", "nightly"},
           x \in Select(r, tier), x \in Select(q, as)
    PROVE  FALSE
  <1>1. r # Static /\ q # Static
    BY NightlyAssumption
  <1>2. tier = as
    <2>1. ASSUME NEW s, s # Static, NEW t \in {"system", "acceptance", "nightly"},
                 x \in Select(s, t)
          PROVE  x[1] = t
      <3>1. CASE t = "system"
        BY <2>1, <3>1, Selected34
      <3>2. CASE t = "acceptance"
        BY <2>1, <3>2, Selected34
      <3>3. CASE t = "nightly"
        BY <2>1, <3>3, Selected34
      <3> QED BY <3>1, <3>2, <3>3
    <2> QED BY <1>1, <2>1
  <1>3. CASE tier = "system"
    BY <1>1, <1>2, <1>3, Selected34, OneRegion
  <1>4. CASE tier = "nightly"
    BY <1>1, <1>2, <1>4, Selected34, OneRegion
  <1>5. CASE tier = "acceptance"
    <2>1. PICK i \in DOMAIN suite.robot : \E n \in suite.robot[i] :
             /\ x = <<"acceptance", i, n>>
             /\ \E k \in Listed(r) \cap DOMAIN suite.robot : n \in suite.robot[k]
      BY <1>1, <1>5, Selected34
    <2>2. PICK j \in DOMAIN suite.robot : \E m \in suite.robot[j] :
             /\ x = <<"acceptance", j, m>>
             /\ \E k \in Listed(q) \cap DOMAIN suite.robot : m \in suite.robot[k]
      BY <1>1, <1>2, <1>5, Selected34
    <2>3. PICK n \in suite.robot[i] :
             /\ x = <<"acceptance", i, n>>
             /\ \E k \in Listed(r) \cap DOMAIN suite.robot : n \in suite.robot[k]
      BY <2>1
    <2>4. PICK m \in suite.robot[j] :
             /\ x = <<"acceptance", j, m>>
             /\ \E k \in Listed(q) \cap DOMAIN suite.robot : m \in suite.robot[k]
      BY <2>2
    <2>5. i = j /\ n = m
      BY <2>3, <2>4
    <2>6. \A k \in DOMAIN suite.robot : n \in suite.robot[k] => k = i
      BY <2>3 DEF NamesDiffer
    <2>7. i \in Listed(r) /\ i \in Listed(q)
      BY <2>3, <2>4, <2>5, <2>6
    <2> QED BY <2>7, OneRegion
  <1> QED BY <1>3, <1>4, <1>5

\* A nightly all of whose jobs have passed ran every case on every seed, each in one
\* region, for whatever regions, seeds, tests and map.
THEOREM NightlyIsWholeHolds == NightlySpec => []NightlyIsWhole
  <1>1. NightlyInv => NightlyIsWhole
    <2> SUFFICES ASSUME NightlyInv, \A j \in Jobs : step[j] = "passed"
                 PROVE  /\ \A s \in Seeds :
                              UNION {ran[<<r, s>>] : r \in Regions} =
                                 CasesOf34 \cup IF s = Tier5Seed
                                                THEN TestsOf("nightly", suite.nightly) ELSE {}
                        /\ NamesDiffer =>
                              \A s \in Seeds, r, q \in Regions :
                                 r # q => ran[<<r, s>>] \cap ran[<<q, s>>] = {}
      BY DEF NightlyIsWhole
    <2>1. ASSUME NEW s \in Seeds, NEW r \in Regions
          PROVE  /\ LoadRegions
                 /\ ran[<<r, s>>] = Select(r, "system") \cup Select(r, "acceptance")
                        \cup (IF s = Tier5Seed THEN Select(r, "nightly") ELSE {})
      <3>1. <<r, s>> \in Jobs /\ <<r, s>>[1] = r /\ <<r, s>>[2] = s /\ r # Static
        BY NightlyAssumption DEF Jobs
      <3>2. JobInv(<<r, s>>) /\ step[<<r, s>>] = "passed"
        BY <3>1 DEF NightlyInv
      <3> QED BY <3>1, <3>2 DEF JobInv, RanBy
    <2>2. ASSUME NEW s \in Seeds
          PROVE  UNION {ran[<<r, s>>] : r \in Regions} =
                    CasesOf34 \cup IF s = Tier5Seed
                                   THEN TestsOf("nightly", suite.nightly) ELSE {}
      <3>1. LoadRegions
        BY <2>1, NightlyAssumption
      <3> DEFINE All(tier) == UNION {Select(r, tier) : r \in Regions}
                 Ran == UNION {ran[<<r, s>>] : r \in Regions}
      <3>2. \A x : x \in Ran <=> \E r \in Regions : x \in ran[<<r, s>>]
        OBVIOUS
      <3>3. \A tier, x : x \in All(tier) <=> \E r \in Regions : x \in Select(r, tier)
        OBVIOUS
      <3>4. Ran = All("system") \cup All("acceptance")
                  \cup (IF s = Tier5Seed THEN All("nightly") ELSE {})
        <4> HIDE DEF All, Ran
        <4>1. CASE s = Tier5Seed
          <5>1. \A r \in Regions : \A x : x \in ran[<<r, s>>] <=>
                   \/ x \in Select(r, "system") \/ x \in Select(r, "acceptance")
                   \/ x \in Select(r, "nightly")
            BY <2>1, <4>1
          <5> QED BY <5>1, <3>2, <3>3, <4>1
        <4>2. CASE s # Tier5Seed
          <5>1. \A r \in Regions : \A x : x \in ran[<<r, s>>] <=>
                   x \in Select(r, "system") \/ x \in Select(r, "acceptance")
            BY <2>1, <4>2
          <5> QED BY <5>1, <3>2, <3>3, <4>2
        <4> QED BY <4>1, <4>2
      <3> QED BY <3>1, <3>4, WholeTier DEF CasesOf34
    <2>3. ASSUME NamesDiffer, NEW s \in Seeds, NEW r \in Regions, NEW q \in Regions, r # q,
                 NEW x, x \in ran[<<r, s>>], x \in ran[<<q, s>>]
          PROVE  FALSE
      <3>1. \E tier \in {"system", "acceptance", "nightly"} : x \in Select(r, tier)
        BY <2>1, <2>3
      <3>2. \E tier \in {"system", "acceptance", "nightly"} : x \in Select(q, tier)
        BY <2>1, <2>3
      <3> QED BY <2>1, <2>3, <3>1, <3>2, ApartByRegion
    <2> QED BY <2>2, <2>3
  <1> QED BY <1>1, NightlyStarts, NightlyStep, PTL DEF NightlySpec

----------------------------------------------------------------------------

(***************************************************************************)
(* CheckRun                                                                *)
(***************************************************************************)

\* What the questions asked so far have made of a path that is in no answer, as
\* it is now: the index was asked about before the untracked files were.
AskedAbout(p) ==
    \/ p \in answers[asking]
    \/ /\ question \in {"cached", "others", "select"} =>
             tree[p].disk = tree[p].base \/ tree[p].base = 0
       /\ question \in {"others", "select"} => tree[p].index = tree[p].base
       /\ question = "select" => tree[p].disk = tree[p].base

CheckInv ==
    /\ asking \in {"ready", "scope", "no one"}
    /\ question \in {"base", "diff", "cached", "others", "select"}
    /\ DOMAIN answers = {"ready", "scope"}
    /\ \A p \in Paths : tree[p] \in Files
    /\ asking # "no one" => \A p \in Paths \ disturbed : AskedAbout(p)

\* The directory search never leaves git with the index of another work tree.
LEMMA SeenAsItIs == \A file : Seen(file) = file
  BY DEF Seen, GitOf, Located

LEMMA FileHas == ASSUME NEW f \in Files PROVE f.base \in 0 .. 2 /\ f.disk \in 0 .. 2
  BY DEF Files

LEMMA FileWith ==
    ASSUME NEW f \in Files, NEW content \in 0 .. 2
    PROVE  /\ [f EXCEPT !.disk = content] \in Files
           /\ [f EXCEPT !.index = content] \in Files
           /\ [f EXCEPT !.index = content].base = f.base
           /\ [f EXCEPT !.index = content].disk = f.disk
           /\ [f EXCEPT !.index = content].index = content
  BY DEF Files

LEMMA CheckStarts == ASSUME CheckInit PROVE CheckInv
  <1>1. \A p \in Paths : tree[p] \in Files
    BY CheckRunAssumption DEF CheckInit, Paths
  <1> QED BY <1>1 DEF CheckInit, CheckInv, AskedAbout

\* A use of one path: the others are as they were.
LEMMA OneUse ==
    ASSUME CheckInv, NEW p, NEW file, Use(p, file), p \in Paths => file \in Files,
           disturbed \subseteq disturbed',
           p \in Paths \ disturbed' =>
              \/ p \in answers[asking]
              \/ /\ question # "others"
                 /\ file.base = tree[p].base /\ file.disk = tree[p].disk
                 /\ question = "select" => file.index = file.disk
    PROVE  CheckInv'
  <1>1. /\ Paths' = Paths /\ (p \in Paths => tree'[p] = file)
        /\ \A q \in Paths : q # p => tree'[q] = tree[q]
        /\ UNCHANGED <<asking, question, answers>> /\ asking # "no one"
    BY DEF Use, Paths
  <1>2. \A q \in Paths : tree'[q] \in Files
    BY <1>1 DEF CheckInv
  <1>3. ASSUME NEW q \in Paths \ disturbed' PROVE AskedAbout(q)'
    <2>1. AskedAbout(q)
      BY <1>1, <1>3 DEF CheckInv
    <2>2. CASE q # p
      BY <1>1, <2>1, <2>2 DEF AskedAbout
    <2>3. CASE q = p
      BY <1>1, <1>3, <2>1, <2>3 DEF AskedAbout
    <2> QED BY <2>2, <2>3
  <1> QED BY <1>1, <1>2, <1>3 DEF CheckInv

LEMMA CheckStep == ASSUME CheckInv, [CheckNext]_checkVars PROVE CheckInv'
  <1>1. ASSUME NEW p \in Busy, EditFile(p) PROVE CheckInv'
    <2>1. PICK content \in {0, 2} : Use(p, [tree[p] EXCEPT !.disk = content])
      BY <1>1 DEF EditFile
    <2>2. content \in 0 .. 2
      BY <2>1
    <2>4. p \in Paths => [tree[p] EXCEPT !.disk = content] \in Files
      BY <2>2, FileWith DEF CheckInv
    <2>3. disturbed' = disturbed \cup {p}
      BY <1>1 DEF EditFile
    <2> QED BY <2>1, <2>3, <2>4, OneUse
  <1>2. ASSUME NEW p \in Busy, Unstage(p) PROVE CheckInv'
    <2>1. Use(p, [tree[p] EXCEPT !.index = tree[p].base]) /\ disturbed' = disturbed \cup {p}
      BY <1>2 DEF Unstage
    <2>2. p \in Paths => [tree[p] EXCEPT !.index = tree[p].base] \in Files
      <3> SUFFICES ASSUME p \in Paths PROVE [tree[p] EXCEPT !.index = tree[p].base] \in Files
        OBVIOUS
      <3>1. tree[p] \in Files
        BY DEF CheckInv
      <3>2. tree[p].base \in 0 .. 2 /\ tree[p].disk \in 0 .. 2
        BY <3>1, FileHas
      <3> QED BY <3>1, <3>2, FileWith
    <2> QED BY <2>1, <2>2, OneUse
  <1>3. ASSUME NEW p \in Busy, Stage(p) PROVE CheckInv'
    <2> DEFINE file == [tree[p] EXCEPT !.index = tree[p].disk]
    <2>1. /\ Use(p, file)
          /\ disturbed' = IF question = "others" THEN disturbed \cup {p} ELSE disturbed
      BY <1>3 DEF Stage
    <2>2. p \in Paths => /\ file \in Files /\ file.base = tree[p].base
                         /\ file.disk = tree[p].disk /\ file.index = tree[p].disk
      <3> SUFFICES ASSUME p \in Paths
                   PROVE  /\ file \in Files /\ file.base = tree[p].base
                          /\ file.disk = tree[p].disk /\ file.index = tree[p].disk
        OBVIOUS
      <3>1. tree[p] \in Files
        BY DEF CheckInv
      <3>2. tree[p].base \in 0 .. 2 /\ tree[p].disk \in 0 .. 2
        BY <3>1, FileHas
      <3> QED BY <3>1, <3>2, FileWith
    <2> HIDE DEF file
    <2> QED BY <2>1, <2>2, OneUse
  <1>4. CASE GiveUp
    BY <1>4 DEF GiveUp, Printed, CheckInv, AskedAbout, Paths
  <1>5. CASE FindBase
    BY <1>5 DEF FindBase, CheckInv, AskedAbout, Paths
  <1>6. CASE Ask
    <2>1. /\ asking \in {"ready", "scope"} /\ question \in {"diff", "cached", "others"}
          /\ answers' = [answers EXCEPT ![asking] = @ \cup Answer(question)]
          /\ question' = NextQuestion(question)
          /\ UNCHANGED <<mode, tree, stack, deps, where, asking, disturbed>>
      BY <1>6 DEF Ask, CheckInv
    <2>2. answers'[asking] = answers[asking] \cup Answer(question)
      BY <2>1 DEF CheckInv
    <2>3. \A p \in Paths : p \in Answer(question) <=>
             \/ question = "diff" /\ Differs(tree[p])
             \/ question = "cached" /\ DiffersInIndex(tree[p])
             \/ question = "others" /\ Untracked(tree[p])
      BY <2>1, SeenAsItIs DEF Answer
    <2>4. ASSUME NEW p \in Paths \ disturbed PROVE AskedAbout(p)'
      <3>1. AskedAbout(p) /\ tree[p] \in Files
        BY <2>1, <2>4 DEF CheckInv
      <3>2. CASE p \in answers'[asking]
        BY <2>1, <3>2 DEF AskedAbout
      <3>3. CASE p \notin answers'[asking]
        <4>1. p \notin answers[asking] /\ p \notin Answer(question)
          BY <2>2, <3>3
        <4>2. CASE question = "diff"
          <5>1. ~Differs(tree[p]) /\ question' = "cached"
            BY <2>1, <2>3, <2>4, <4>1, <4>2 DEF NextQuestion
          <5> QED BY <2>1, <5>1 DEF Differs, AskedAbout
        <4>3. CASE question = "cached"
          <5>1. ~DiffersInIndex(tree[p]) /\ question' = "others"
            BY <2>1, <2>3, <2>4, <4>1, <4>3 DEF NextQuestion
          <5> QED BY <2>1, <3>1, <4>1, <4>3, <5>1 DEF DiffersInIndex, AskedAbout
        <4>4. CASE question = "others"
          <5>1. ~Untracked(tree[p]) /\ question' = "select"
            BY <2>1, <2>3, <2>4, <4>1, <4>4 DEF NextQuestion
          <5> QED BY <2>1, <3>1, <4>1, <4>4, <5>1 DEF Untracked, AskedAbout
        <4> QED BY <2>1, <4>2, <4>3, <4>4
      <3> QED BY <3>2, <3>3
    <2>5. question' \in {"base", "diff", "cached", "others", "select"}
      BY <2>1 DEF NextQuestion
    <2> QED BY <2>1, <2>4, <2>5 DEF CheckInv, Paths
  <1>7. CASE SelectForReady
    BY <1>7 DEF SelectForReady, Printed, CheckInv, AskedAbout, Paths
  <1>8. CASE SelectScope
    BY <1>8 DEF SelectScope, Printed, CheckInv, AskedAbout, Paths
  <1>9. CASE UNCHANGED checkVars
    BY <1>9 DEF checkVars, CheckInv, AskedAbout, Paths
  <1> QED BY <1>1, <1>2, <1>3, <1>4, <1>5, <1>6, <1>7, <1>8, <1>9 DEF CheckNext

\* Once its three questions are answered, changed_scope.py has every path that
\* differs from the base but those used at the wrong moment, in a tree that is used
\* meanwhile any number of times and in whatever directory check.sh is run.
THEOREM ChangeSeenHolds == CheckSpec => []ChangeSeen
  <1>1. CheckInv => ChangeSeen
    BY DEF CheckInv, ChangeSeen, AskedAbout, Changed
  <1> QED BY <1>1, CheckStarts, CheckStep, PTL DEF CheckSpec

\* Of some subsets of a finite set one has none of the others within it.
LEMMA LeastSubset ==
    ASSUME NEW S, IsFiniteSet(S), NEW T \in SUBSET (SUBSET S), T # {}
    PROVE  \E m \in T : \A u \in T : u \subseteq m => u = m
  <1>1. IsWellFoundedOn(StrictSubsetOrdering(S), SUBSET S)
    BY FS_StrictSubsetOrderingWellFounded, FS_FiniteSubsetsOfFinite
  <1>2. PICK m \in T : \A u \in T : ~ (<<u, m>> \in StrictSubsetOrdering(S))
    BY <1>1, WFMin
  <1>3. ASSUME NEW u \in T, u \subseteq m, u # m PROVE FALSE
    <2>1. <<u, m>> \in StrictSubsetOrdering(S)
      BY <1>3 DEF StrictSubsetOrdering
    <2> QED BY <1>2, <2>1
  <1> QED BY <1>3

Direct(map) == [name \in Packages |-> {q \in Packages : name \in map[q]}]

\* What a walk is to find: the least set with what it has seen and what is pending
\* that has the direct dependents of whatever it found.
Closed(map, seen, pending, R) ==
    /\ seen \cup pending \subseteq R
    /\ \A x \in R \ seen : Direct(map)[x] \subseteq R

Reached(map, seen, pending) ==
    {q \in Packages : \A R \in SUBSET Packages : Closed(map, seen, pending, R) => q \in R}

\* What a walk has seen and what is pending.
Walked == (SUBSET Packages) \X (SUBSET Packages)

\* One turn of the walk.
Turn(map, walk, w) ==
    LET seen == w[1]
        pending == w[2]
        current == CHOOSE q \in pending : TRUE
    IN IF pending = {} THEN seen
       ELSE IF current \in seen THEN walk[<<seen, pending \ {current}>>]
       ELSE walk[<<seen \cup {current}, (pending \ {current}) \cup Direct(map)[current]>>]

IsWalk(map, walk) == walk = [w \in Walked |-> Turn(map, walk, w)]

\* The three ways a turn goes.
LEMMA Turns ==
    ASSUME NEW map, NEW walk, NEW s, NEW p
    PROVE  /\ p = {} => Turn(map, walk, <<s, p>>) = s
           /\ p # {} => \E c \in p :
                 Turn(map, walk, <<s, p>>) =
                     IF c \in s THEN walk[<<s, p \ {c}>>]
                     ELSE walk[<<s \cup {c}, (p \ {c}) \cup Direct(map)[c]>>]
  <1>1. p # {} => (CHOOSE q \in p : TRUE) \in p
    OBVIOUS
  <1> QED BY <1>1 DEF Turn

\* What is reached is reached in a turn.
LEMMA ReachedTurn ==
    ASSUME NEW map, NEW seen \in SUBSET Packages, NEW pending \in SUBSET Packages
    PROVE  /\ pending = {} => Reached(map, seen, pending) = seen
           /\ \A c \in pending : c \in seen =>
                 Reached(map, seen, pending) = Reached(map, seen, pending \ {c})
           /\ \A c \in pending : c \notin seen =>
                 Reached(map, seen, pending)
                     = Reached(map, seen \cup {c}, (pending \ {c}) \cup Direct(map)[c])
  <1>1. ASSUME pending = {} PROVE Reached(map, seen, pending) = seen
    BY <1>1 DEF Reached, Closed
  <1>2. ASSUME NEW c \in pending, c \in seen
        PROVE  \A R : Closed(map, seen, pending, R) <=> Closed(map, seen, pending \ {c}, R)
    BY <1>2 DEF Closed
  <1>3. ASSUME NEW c \in pending, c \notin seen
        PROVE  \A R : Closed(map, seen, pending, R)
                  <=> Closed(map, seen \cup {c}, (pending \ {c}) \cup Direct(map)[c], R)
    <2> DEFINE D == Direct(map)
    <2> HIDE DEF D
    <2> SUFFICES ASSUME NEW R
                 PROVE  /\ seen \cup pending \subseteq R
                        /\ \A x \in R \ seen : D[x] \subseteq R
                        <=> /\ (seen \cup {c}) \cup ((pending \ {c}) \cup D[c]) \subseteq R
                            /\ \A x \in R \ (seen \cup {c}) : D[x] \subseteq R
      BY DEF Closed, D
    <2> QED BY <1>3
  <1> QED BY <1>1, <1>2, <1>3 DEF Reached

LEMMA DirectType == \A map : \A c \in Packages : Direct(map)[c] \in SUBSET Packages
  BY DEF Direct

\* So it is a walk, ...
LEMMA ReachedWalks ==
    ASSUME NEW map
    PROVE  IsWalk(map, [w \in Walked |-> Reached(map, w[1], w[2])])
  <1> DEFINE reached == [w \in Walked |-> Reached(map, w[1], w[2])]
  <1>1. ASSUME NEW s \in SUBSET Packages, NEW p \in SUBSET Packages
        PROVE  reached[<<s, p>>] = Reached(map, s, p)
    BY DEF Walked
  <1>2. ASSUME NEW w \in Walked PROVE Reached(map, w[1], w[2]) = Turn(map, reached, w)
    <2> HIDE DEF reached
    <2>1. PICK s \in SUBSET Packages, p \in SUBSET Packages : w = <<s, p>>
      BY DEF Walked
    <2>2. CASE p = {}
      BY <2>1, <2>2, Turns, ReachedTurn
    <2>3. CASE p # {}
      <3>1. PICK c \in p :
               Turn(map, reached, <<s, p>>) =
                   IF c \in s THEN reached[<<s, p \ {c}>>]
                   ELSE reached[<<s \cup {c}, (p \ {c}) \cup Direct(map)[c]>>]
        BY <2>3, Turns
      <3>2. p \ {c} \in SUBSET Packages /\ s \cup {c} \in SUBSET Packages
            /\ (p \ {c}) \cup Direct(map)[c] \in SUBSET Packages
        BY <3>1, DirectType
      <3>3. CASE c \in s
        <4>1. Turn(map, reached, <<s, p>>) = Reached(map, s, p \ {c})
          BY <1>1, <3>1, <3>2, <3>3
        <4>2. Reached(map, s, p) = Reached(map, s, p \ {c})
          BY <3>3, ReachedTurn
        <4> QED BY <2>1, <4>1, <4>2
      <3>4. CASE c \notin s
        <4>1. Turn(map, reached, <<s, p>>)
                  = Reached(map, s \cup {c}, (p \ {c}) \cup Direct(map)[c])
          BY <1>1, <3>1, <3>2, <3>4
        <4>2. Reached(map, s, p) = Reached(map, s \cup {c}, (p \ {c}) \cup Direct(map)[c])
          BY <3>4, ReachedTurn
        <4> QED BY <2>1, <4>1, <4>2
      <3> QED BY <3>3, <3>4
    <2> QED BY <2>2, <2>3
  <1>3. reached = [w \in Walked |-> Turn(map, reached, w)]
    <2> DEFINE other == [w \in Walked |-> Turn(map, reached, w)]
    <2>1. \A w \in Walked : reached[w] = Reached(map, w[1], w[2])
      OBVIOUS
    <2>2. \A w \in Walked : other[w] = Turn(map, reached, w)
      <3> HIDE DEF reached
      <3> QED OBVIOUS
    <2>3. \A w \in Walked : reached[w] = other[w]
      <3> HIDE DEF reached, other
      <3> QED BY <1>2, <2>1, <2>2
    <2>4. reached = [w \in Walked |-> reached[w]]
      BY <2>1
    <2>5. other = [w \in Walked |-> other[w]]
      <3> HIDE DEF reached
      <3> QED BY <2>2
    <2> HIDE DEF reached, other
    <2>6. [w \in Walked |-> reached[w]] = [w \in Walked |-> other[w]]
      BY <2>3
    <2>7. reached = other
      BY <2>4, <2>5, <2>6
    <2> QED BY <2>7 DEF other
  <1> QED BY <1>3 DEF IsWalk

\* ... and every walk finds it.
LEMMA WalkReaches ==
    ASSUME NEW map, NEW walk, IsWalk(map, walk),
           NEW s0 \in SUBSET Packages, NEW p0 \in SUBSET Packages
    PROVE  walk[<<s0, p0>>] = Reached(map, s0, p0)
  <1>1. ASSUME NEW seen \in SUBSET Packages, NEW pending \in SUBSET Packages
        PROVE  walk[<<seen, pending>>] = Turn(map, walk, <<seen, pending>>)
    <2>1. <<seen, pending>> \in Walked
      BY DEF Walked
    <2> QED BY <2>1 DEF IsWalk
  <1> DEFINE Wrong(s, p) == walk[<<s, p>>] # Reached(map, s, p)
             left == {Packages \ s : s \in {t \in SUBSET Packages :
                                                \E p \in SUBSET Packages : Wrong(t, p)}}
  <1> SUFFICES ASSUME Wrong(s0, p0) PROVE FALSE
    OBVIOUS
  <1>2. left \in SUBSET (SUBSET Packages) /\ left # {}
    OBVIOUS
  <1>3. PICK m \in left : \A u \in left : u \subseteq m => u = m
    <2> HIDE DEF left
    <2> QED BY <1>2, LeastSubset, ScopeAssumption
  <1>4. PICK s \in SUBSET Packages : m = Packages \ s /\ \E p \in SUBSET Packages : Wrong(s, p)
    BY <1>3
  <1>5. \A t \in SUBSET Packages, p \in SUBSET Packages :
           s \subseteq t /\ s # t => ~Wrong(t, p)
    <2> SUFFICES ASSUME NEW t \in SUBSET Packages, NEW p \in SUBSET Packages,
                        s \subseteq t, s # t, Wrong(t, p)
                 PROVE  FALSE
      OBVIOUS
    <2>1. Packages \ t \in left
      OBVIOUS
    <2> HIDE DEF left, Wrong
    <2> QED BY <1>3, <1>4, <2>1
  <1> DEFINE rest == {p \in SUBSET Packages : Wrong(s, p)}
  <1>6. rest \in SUBSET (SUBSET Packages) /\ rest # {}
    BY <1>4
  <1>7. PICK p \in rest : \A u \in rest : u \subseteq p => u = p
    <2> HIDE DEF rest
    <2> QED BY <1>6, LeastSubset, ScopeAssumption
  <1>8. /\ p \in SUBSET Packages /\ Wrong(s, p)
        /\ \A q \in SUBSET Packages : q \subseteq p /\ q # p => ~Wrong(s, q)
    BY <1>7
  <1> HIDE DEF left, rest
  <1>9. CASE p = {}
    BY <1>1, <1>8, <1>9, Turns, ReachedTurn
  <1>10. CASE p # {}
    <2>1. PICK c \in p :
             Turn(map, walk, <<s, p>>) =
                 IF c \in s THEN walk[<<s, p \ {c}>>]
                 ELSE walk[<<s \cup {c}, (p \ {c}) \cup Direct(map)[c]>>]
      BY <1>10, Turns
    <2>2. p \ {c} \in SUBSET Packages /\ s \cup {c} \in SUBSET Packages
          /\ (p \ {c}) \cup Direct(map)[c] \in SUBSET Packages
      BY <1>8, <2>1, DirectType
    <2>3. CASE c \in s
      <3>1. ~Wrong(s, p \ {c})
        <4> HIDE DEF Wrong
        <4> QED BY <1>8, <2>1, <2>2
      <3>2. walk[<<s, p>>] = walk[<<s, p \ {c}>>]
        BY <1>1, <1>8, <2>1, <2>3
      <3>3. Reached(map, s, p) = Reached(map, s, p \ {c})
        BY <1>8, <2>1, <2>3, ReachedTurn
      <3> QED BY <1>8, <3>1, <3>2, <3>3
    <2>4. CASE c \notin s
      <3> DEFINE q == (p \ {c}) \cup Direct(map)[c]
      <3>1. ~Wrong(s \cup {c}, q)
        <4> HIDE DEF Wrong, q
        <4>1. s \subseteq s \cup {c} /\ s # s \cup {c} /\ q \in SUBSET Packages
          BY <2>2, <2>4 DEF q
        <4> QED BY <1>5, <2>2, <4>1
      <3>2. walk[<<s, p>>] = walk[<<s \cup {c}, q>>]
        BY <1>1, <1>8, <2>1, <2>4
      <3>3. Reached(map, s, p) = Reached(map, s \cup {c}, q)
        BY <1>8, <2>1, <2>4, ReachedTurn
      <3> QED BY <1>8, <3>1, <3>2, <3>3
    <2> QED BY <2>3, <2>4
  <1> QED BY <1>9, <1>10

\* reverse_dependents: every package that depends on this one, directly or not, and
\* no other, whatever the manifests say, a loop included.
LEMMA DependentsFound ==
    ASSUME NEW map, NEW name \in Packages
    PROVE  ReverseDependents(map)[name] = Reached(map, {}, Direct(map)[name]) \ {name}
  <1> DEFINE walk == CHOOSE f : IsWalk(map, f)
  <1>1. ReverseDependents(map)[name] = walk[<<{}, Direct(map)[name]>>] \ {name}
    BY DEF ReverseDependents, Direct, Walked, Turn, IsWalk
  <1>2. \E f : IsWalk(map, f)
    BY ReachedWalks
  <1>3. IsWalk(map, walk)
    BY <1>2
  <1> HIDE DEF walk
  <1>4. walk[<<{}, Direct(map)[name]>>] = Reached(map, {}, Direct(map)[name])
    BY <1>3, WalkReaches, DirectType
  <1> QED BY <1>1, <1>4

\* What is found is what depends by the definition.
LEMMA DependentsDepend ==
    ASSUME NEW name \in Packages
    PROVE  \A q : DependsOn(q, name) /\ q # name <=> q \in ReverseDependents(deps)[name]
  <1>1. ASSUME NEW R \in SUBSET Packages
        PROVE  Closed(deps, {}, Direct(deps)[name], R)
               <=> \A r \in Packages : (name \in deps[r] \/ deps[r] \cap R # {}) => r \in R
    <2>1. Direct(deps)[name] \subseteq R
          <=> \A r \in Packages : name \in deps[r] => r \in R
      BY DEF Direct
    <2>2. \A x \in R : Direct(deps)[x] = {r \in Packages : x \in deps[r]}
      BY DEF Direct
    <2>3. (\A x \in R : Direct(deps)[x] \subseteq R)
          <=> \A r \in Packages : deps[r] \cap R # {} => r \in R
      <3>1. ASSUME \A x \in R : Direct(deps)[x] \subseteq R,
                   NEW r \in Packages, deps[r] \cap R # {}
            PROVE  r \in R
        <4>1. PICK x \in R : x \in deps[r]
          BY <3>1
        <4>2. r \in Direct(deps)[x]
          BY <2>2, <4>1
        <4> QED BY <3>1, <4>1, <4>2
      <3>2. ASSUME \A r \in Packages : deps[r] \cap R # {} => r \in R,
                   NEW x \in R, NEW r \in Direct(deps)[x]
            PROVE  r \in R
        <4>1. r \in Packages /\ x \in deps[r]
          BY <2>2
        <4> QED BY <3>2, <4>1
      <3> QED BY <3>1, <3>2
    <2> QED BY <2>1, <2>3 DEF Closed
  <1>2. \A q : DependsOn(q, name) => q \in Packages
    BY DEF DependsOn
  <1>3. \A q : DependsOn(q, name) <=> q \in Reached(deps, {}, Direct(deps)[name])
    BY <1>1, <1>2 DEF DependsOn, Reached
  <1> QED BY <1>3, DependentsFound

----------------------------------------------------------------------------

\* What --ready runs of a selection.
LEMMA WholeRunsAll == RunCases(WholeReady, stack) = Cases(stack)
  BY DEF RunCases, WholeReady

\* What a selection that is not whole has been through.
LEMMA SelectedWell ==
    ASSUME NEW changed, NEW r, r = SelectReady(changed, stack, deps), r # WholeReady
    PROVE  LET mapped == {p \in changed : Mapped(p, stack)}
               chosen == {stack.lap}
                         \cup ({Place[p].test : p \in {q \in changed : q \notin stack.neutral}}
                                   \ {NoTest})
                         \cup UNION {i.claims : i \in UNION {Selected(p, stack, deps) :
                                                                p \in mapped}}
           IN /\ ~r.whole
              /\ r.implementations = UNION {Selected(p, stack, deps) : p \in mapped}
              /\ r.tests = chosen
              /\ changed # {} /\ stack.lap # NoTest
              /\ \A p \in changed : ~Unplaced(p, stack)
              /\ Discovered(stack) \subseteq Claimed(stack) \cup {stack.lap}
              /\ chosen \subseteq Discovered(stack)
  BY DEF SelectReady

LEMMA LapIsSelected ==
    ASSUME NEW changed, NEW r, r = SelectReady(changed, stack, deps), r # WholeReady
    PROVE  ~r.whole /\ stack.lap \in r.tests
  BY SelectedWell

\* Nothing is owed that a selection leaves out: it has every owner of a path and
\* every dependent, and takes all that they claim.
LEMMA OwedIsSelected ==
    ASSUME TiersApart(stack), NEW changed \in SUBSET DOMAIN Place,
           NEW r, r = SelectReady(changed, stack, deps), r # WholeReady,
           NEW p \in changed, p \notin stack.neutral,
           Place[p].test # NoTest => Place[p].test \in stack.systemTests,
           NEW c \in Owed(p)
    PROVE  c \in RunCases(r, stack)
  <1> DEFINE mapped == {q \in changed : Mapped(q, stack)}
             selected == UNION {Selected(q, stack, deps) : q \in mapped}
             explicit == {Place[q].test : q \in {q \in changed : q \notin stack.neutral}}
                             \ {NoTest}
  <1>1. /\ ~r.whole
        /\ r.implementations = selected
        /\ r.tests = {stack.lap} \cup explicit \cup UNION {i.claims : i \in selected}
    BY SelectedWell
  <1> HIDE DEF selected
  <1>2. CASE Place[p].test # NoTest
    <2>1. c = <<Place[p].test, NoTest>>
      BY <1>2 DEF Owed
    <2>2. Place[p].test \in r.tests
      BY <1>1, <1>2
    <2>3. c \in Cases(stack) /\ c[1] \in stack.systemTests /\ c[1] \in r.tests
      BY <1>2, <2>1, <2>2 DEF Cases
    <2> QED BY <1>1, <2>3 DEF RunCases
  <1>3. CASE Place[p].test = NoTest
    <2>1. PICK i \in stack.implementations :
             AnswersFor(i, p) /\ c[1] \in i.claims /\ c[2] \in {NoTest, i.key}
      BY <1>3 DEF Owed
    <2>2. c \in Cases(stack)
      BY <1>3 DEF Owed
    <2>3. i \in Selected(p, stack, deps)
      <3>1. CASE p \in i.paths
        BY <2>1, <3>1 DEF Selected, Owners
      <3>2. CASE p \notin i.paths
        <4>1. /\ Place[p].package # NoPackage /\ i.package # Place[p].package
              /\ DependsOn(i.package, Place[p].package)
          BY <2>1, <3>2 DEF AnswersFor
        <4>2. Place[p].package \in Packages
          BY <4>1, ScopeAssumption
        <4>3. i.package \in ReverseDependents(deps)[Place[p].package]
          BY <4>1, <4>2, DependentsDepend
        <4> QED BY <2>1, <4>1, <4>3 DEF Selected
      <3> QED BY <3>1, <3>2
    <2>4. p \in mapped
      BY <1>3 DEF Mapped
    <2>5. i \in selected
      BY <2>3, <2>4 DEF selected
    <2>6. c[1] \in r.tests
      BY <1>1, <2>1, <2>5
    <2>7. CASE c[1] \in stack.systemTests
      BY <1>1, <2>2, <2>6, <2>7 DEF RunCases
    <2>8. CASE c[1] \notin stack.systemTests
      <3>1. PICK t \in DOMAIN stack.acceptanceTags :
               \E tag \in stack.acceptanceTags[t] : c = <<t, tag>>
        BY <2>2, <2>8 DEF Cases
      <3>2. c[1] = t /\ c[2] = i.key
        BY <2>1, <3>1 DEF TiersApart
      <3>3. i \in r.implementations /\ i.claims \cap DOMAIN stack.acceptanceTags # {}
        BY <1>1, <2>1, <2>5, <3>1, <3>2
      <3>4. c[2] \in ReadyRobotTags(r, stack)
        BY <3>2, <3>3 DEF ReadyRobotTags
      <3> QED BY <1>1, <2>2, <2>8, <3>4 DEF RunCases
    <2> QED BY <2>7, <2>8
  <1> QED BY <1>2, <1>3

\* A selection that is not whole was made of what is known.
LEMMA SelectedIsKnown ==
    ASSUME TiersApart(stack), Loads(stack), answers.ready \subseteq DOMAIN Place, NEW r,
           r = SelectReady(answers.ready, stack, deps), r # WholeReady
    PROVE  ~Unknown({p \in answers.ready : p \notin stack.neutral})
  <1> DEFINE changed == answers.ready
  <1>1. /\ changed # {} /\ stack.lap \in Discovered(stack)
        /\ Discovered(stack) \subseteq Claimed(stack) \cup {stack.lap}
    BY SelectedWell
  <1>2. ASSUME NEW p \in changed, p \notin stack.neutral, Place[p].test # NoTest,
               p \in DOMAIN Place
        PROVE  Place[p].test \in stack.systemTests
    <2>1. Place[p].test \in Discovered(stack)
      BY <1>2, SelectedWell
    <2> QED BY <1>2, <2>1 DEF TiersApart, Discovered
  <1>3. ASSUME NEW p \in changed, p \notin stack.neutral, Place[p].test = NoTest
        PROVE  \E i \in stack.implementations : p \in i.paths
    <2>1. ~Unplaced(p, stack)
      BY <1>3, SelectedWell
    <2> QED BY <1>3, <2>1 DEF Unplaced, Mapped, Owners
  <1> QED BY <1>1, <1>2, <1>3 DEF Unknown

\* What has been printed is a selection of all that was answered, or everything.
ReadySelected ==
    \/ ready = WholeReady
    \/ /\ asking # "ready" /\ Loads(stack)
       /\ ready = SelectReady(answers.ready, stack, deps)

ScopeSelected ==
    \/ scope = WholeScope
    \/ /\ asking = "no one"
       /\ scope.whole = ScopeFor(answers.scope).whole
       /\ scope.packages = ScopeFor(answers.scope).packages

SelectInv ==
    /\ asking \in {"ready", "scope", "no one"}
    /\ DOMAIN answers = {"ready", "scope"}
    /\ TiersApart(stack)
    /\ Paths \subseteq DOMAIN Place
    /\ answers.ready \subseteq Paths /\ answers.scope \subseteq Paths
    /\ ReadySelected /\ ScopeSelected

LEMMA SelectStarts == ASSUME CheckInit PROVE SelectInv
  <1>1. TiersApart(stack) /\ Paths \subseteq DOMAIN Place
    BY CheckRunAssumption DEF CheckInit, Paths
  <1> QED BY <1>1 DEF CheckInit, SelectInv, ReadySelected, ScopeSelected

LEMMA SelectStep == ASSUME SelectInv, [CheckNext]_checkVars PROVE SelectInv'
  <1>1. ASSUME NEW p, NEW file, Use(p, file) PROVE SelectInv'
    <2>1. DOMAIN tree' = DOMAIN tree
      BY <1>1 DEF Use
    <2> QED BY <1>1, <2>1 DEF Use, SelectInv, Paths, ReadySelected, ScopeSelected, TiersApart
  <1>2. CASE \E p \in Busy : EditFile(p) \/ Unstage(p) \/ Stage(p)
    BY <1>1, <1>2 DEF EditFile, Unstage, Stage
  <1>3. CASE GiveUp
    BY <1>3 DEF GiveUp, Printed, SelectInv, Paths, ReadySelected, ScopeSelected, TiersApart
  <1>4. CASE FindBase
    BY <1>4 DEF FindBase, SelectInv, Paths, ReadySelected, ScopeSelected, TiersApart
  <1>5. CASE Ask
    <2>1. /\ asking \in {"ready", "scope"}
          /\ answers' = [answers EXCEPT ![asking] = @ \cup Answer(question)]
          /\ UNCHANGED <<tree, stack, deps, asking, ready, scope>>
      BY <1>5 DEF Ask, SelectInv
    <2>2. Answer(question) \subseteq Paths /\ Paths' = Paths
      BY <2>1 DEF Answer, Paths
    <2>3. /\ DOMAIN answers' = {"ready", "scope"}
          /\ answers'.ready \subseteq Paths /\ answers'.scope \subseteq Paths
      BY <2>1, <2>2 DEF SelectInv
    <2>4. ReadySelected'
      BY <2>1 DEF SelectInv, ReadySelected
    <2>5. ScopeSelected'
      BY <2>1 DEF SelectInv, ScopeSelected
    <2> QED BY <2>1, <2>2, <2>3, <2>4, <2>5 DEF SelectInv, TiersApart
  <1>6. CASE SelectForReady
    <2>1. /\ asking = "ready" /\ asking' = "scope"
          /\ UNCHANGED <<tree, stack, deps, answers, scope>>
          /\ ready' = IF Loads(stack) THEN SelectReady(answers.ready, stack, deps)
                      ELSE WholeReady
      BY <1>6 DEF SelectForReady, Printed
    <2>2. ReadySelected'
      BY <2>1 DEF ReadySelected
    <2>3. ScopeSelected'
      BY <2>1 DEF SelectInv, ScopeSelected
    <2> QED BY <2>1, <2>2, <2>3 DEF SelectInv, Paths, TiersApart
  <1>7. CASE SelectScope
    <2> DEFINE found == ScopeFor(answers.scope)
               there == {p \in Paths : tree[p].disk # 0}
    <2>1. /\ asking = "scope" /\ asking' = "no one"
          /\ UNCHANGED <<tree, stack, deps, answers, ready>>
          /\ scope' = [found EXCEPT !.cpp = @ \cap there, !.py = @ \cap there]
      BY <1>7 DEF SelectScope, Printed
    <2>2. scope'.whole = found.whole /\ scope'.packages = found.packages
      <3>1. DOMAIN found = {"whole", "packages", "cpp", "py"}
        BY DEF ScopeFor, WholeScope
      <3> HIDE DEF found, there
      <3> QED BY <2>1, <3>1
    <2>3. ScopeSelected'
      BY <2>1, <2>2 DEF ScopeSelected
    <2>4. ReadySelected'
      BY <2>1 DEF SelectInv, ReadySelected
    <2> QED BY <2>1, <2>3, <2>4 DEF SelectInv, Paths, TiersApart
  <1>8. CASE UNCHANGED checkVars
    BY <1>8 DEF checkVars, SelectInv, Paths, ReadySelected, ScopeSelected, TiersApart
  <1> QED BY <1>2, <1>3, <1>4, <1>5, <1>6, <1>7, <1>8 DEF CheckNext

\* The packages that are tested are those that changed with all that depend on them.
LEMMA ScopeLeavesNothingOut ==
    ASSUME SelectInv, asking = "no one", NEW p \in answers.scope,
           Place[p].package # NoPackage,
           NEW q \in Packages, q = Place[p].package \/ DependsOn(q, Place[p].package)
    PROVE  q \in RunPackages(scope, deps)
  <1>1. CASE scope.whole
    BY <1>1 DEF RunPackages
  <1>2. CASE ~scope.whole
    <2>1. /\ ~ScopeFor(answers.scope).whole
          /\ scope.packages = ScopeFor(answers.scope).packages
      <3>1. scope # WholeScope
        <4>1. WholeScope.whole
          BY DEF WholeScope
        <4> QED BY Zenon, <1>2, <4>1
      <3> QED BY <1>2, <3>1 DEF SelectInv, ScopeSelected
    <2>2. Place[p].package \in scope.packages
      BY <2>1 DEF ScopeFor, WholeScope
    <2>3. Place[p].package \in Packages
      BY ScopeAssumption DEF SelectInv
    <2>4. q = Place[p].package \/ q \in ReverseDependents(deps)[Place[p].package]
      BY <2>3, DependentsDepend
    <2> QED BY <1>2, <2>2, <2>4 DEF RunPackages
  <1> QED BY <1>1, <1>2

\* What --ready runs has all that is owed, and the reference lap.
LEMMA ReadyLeavesNothingOut ==
    ASSUME SelectInv, asking = "no one", mode = "ready"
    PROVE  LET told == {p \in answers.ready : p \notin stack.neutral}
               run == RunCases(ready, stack)
           IN IF Unknown(told) THEN run = Cases(stack)
              ELSE /\ <<stack.lap, NoTest>> \in run
                   /\ UNION {Owed(p) : p \in told} \subseteq run
  <1> DEFINE told == {p \in answers.ready : p \notin stack.neutral}
             run == RunCases(ready, stack)
  <1>1. answers.ready \subseteq DOMAIN Place
    BY DEF SelectInv
  <1>2. ASSUME ~Unknown(told) PROVE <<stack.lap, NoTest>> \in Cases(stack)
    <2>1. stack.lap \in stack.systemTests
      BY <1>2 DEF Unknown, SelectInv, TiersApart, Discovered
    <2> QED BY <2>1 DEF Cases
  <1>3. ASSUME ~Unknown(told), NEW p \in told
        PROVE  Place[p].test # NoTest => Place[p].test \in stack.systemTests
    BY <1>3 DEF Unknown
  <1>4. CASE ready = WholeReady
    <2>1. run = Cases(stack)
      BY <1>4, WholeRunsAll
    <2>2. ASSUME ~Unknown(told), NEW p \in told PROVE Owed(p) \subseteq Cases(stack)
      BY <1>3, <2>2 DEF Owed, Cases
    <2> QED BY <1>2, <2>1, <2>2
  <1>5. CASE ready # WholeReady
    <2>1. Loads(stack) /\ ready = SelectReady(answers.ready, stack, deps)
      BY <1>5 DEF SelectInv, ReadySelected
    <2>2. ~Unknown(told)
      BY <1>1, <1>5, <2>1, SelectedIsKnown DEF SelectInv
    <2>3. \A p \in told : Owed(p) \subseteq run
      <3> SUFFICES ASSUME NEW p \in told, NEW c \in Owed(p) PROVE c \in run
        OBVIOUS
      <3> HIDE DEF run
      <3>1. p \in answers.ready /\ p \notin stack.neutral
        OBVIOUS
      <3>2. Place[p].test # NoTest => Place[p].test \in stack.systemTests
        BY <1>3, <2>2
      <3> QED BY <1>1, <1>5, <2>1, <3>1, <3>2, OwedIsSelected DEF SelectInv, run
    <2>4. <<stack.lap, NoTest>> \in run
      <3>1. ~ready.whole /\ stack.lap \in ready.tests
        BY <1>5, <2>1, LapIsSelected
      <3>2. <<stack.lap, NoTest>> \in Cases(stack) /\ stack.lap \in stack.systemTests
        BY <1>2, <2>2 DEF Unknown, SelectInv, TiersApart, Discovered
      <3> QED BY <3>1, <3>2 DEF RunCases
    <2> QED BY <2>2, <2>3, <2>4
  <1> QED BY <1>4, <1>5

\* A check misses nothing: what has changed is seen, and the tests and packages that
\* are owed to what was seen are run, for any packages, manifests and map.
THEOREM CheckMissesNothingHolds == CheckSpec => []CheckMissesNothing
  <1>1. SelectInv => NothingLeftOut
    <2> SUFFICES ASSUME SelectInv, asking = "no one" PROVE NothingLeftOut
      BY DEF NothingLeftOut
    <2> QED BY ReadyLeavesNothingOut, ScopeLeavesNothingOut DEF NothingLeftOut
  <1>2. NothingLeftOut /\ ChangeSeen => CheckMissesNothing
    BY DEF CheckMissesNothing
  <1> QED BY <1>1, <1>2, SelectStarts, SelectStep, ChangeSeenHolds, PTL DEF CheckSpec

----------------------------------------------------------------------------

(***************************************************************************)
(* RacelineRun                                                             *)
(***************************************************************************)

Names == [run : Nat, stage : Optimizers \cup {"none"}, digits : {"all", "nine"}]
RaceLines == [name : Names, faults : SUBSET Checks, nan : SUBSET Columns, seed : Names,
          given : [Inputs -> Nat], solved : Nat, truth : BOOLEAN]
CsvFiles == [state : {"none", "torn", "whole"}, line : RaceLines]
Sidecars == [state : {"none", "torn", "whole"}, line : Names, reference : Names,
             inputs : [Inputs -> Nat], edited : SUBSET Inputs]
Folders == [csv : [Optimizers -> CsvFiles], sidecar : [Optimizers -> Sidecars],
            reference : CsvFiles]

RacelineTypes ==
    /\ args \in Arguments
    /\ runs \in Nat /\ tables \in Nat
    /\ edition \in [Inputs -> Nat] /\ read \in [Inputs -> Nat]
    /\ edited \subseteq Inputs
    /\ stage \in Optimizers \cup {"none"}
    /\ line \in RaceLines /\ seed \in RaceLines /\ scratch \in CsvFiles
    /\ files \in Folders

\* Where a run is that has read its inputs, has chosen what to begin from, and has
\* handed the tables over.
Solving == {"solve", "solving", "seed", "verify"} \cup Writing
Chosen == {"inputs"} \cup Solving
HasRead == {"reference in"} \cup Chosen

\* An input that was not edited during the run is as the run read it.
ReadAsItIs ==
    /\ pc = "track" => \A i \in {"vehicle", "tables"} \ edited : read[i] = edition[i]
    /\ pc \in HasRead => \A i \in Inputs \ edited : read[i] = edition[i]
    /\ pc \in Solving /\ "tables" \notin edited => tables = edition["tables"]

\* What the solve begins from is the line in the file that will be recorded.
SeedIsKept ==
    /\ pc \in {"track"} \cup HasRead /\ args.optimizer = "tum_mincurv_iqp" =>
          args.reference = NoReference
    /\ pc \in Chosen =>
          /\ args.optimizer = "tum_mincurv_iqp" =>
                stage = "tum_mincurv_iqp" /\ seed = NoLine
          /\ args.optimizer = "tum_mintime" /\ args.reference = "reference" =>
                stage = "tum_mintime" /\ seed = files.reference.line
          /\ args.optimizer = "tum_mintime" /\ args.reference = "tum_mincurv_iqp" =>
                stage = "tum_mintime" /\ seed = files.csv["tum_mincurv_iqp"].line
          /\ CopiesReference /\ stage = "tum_mintime" => seed = scratch.line
    /\ pc = "seed" => stage # args.optimizer

\* The line that is judged and written is of this run's last solve.
LineIsOfTheRun ==
    /\ pc \in {"verify"} \cup Writing =>
          /\ stage = args.optimizer
          /\ line.seed = seed.name /\ line.given = read /\ line.solved = tables
          /\ line.truth = args.truth
    /\ pc \in Writing => Verified(line, args.truth)

\* What a sidecar says of a line.
Describes(doc, l) ==
    /\ doc.line = l.name
    /\ \A i \in Inputs \ doc.edited : doc.inputs[i] = l.given[i]
    /\ "tables" \notin doc.edited => doc.inputs["tables"] = l.solved
    /\ doc.reference = l.seed

\* How far the writes have come.
WrittenSoFar ==
    /\ pc \in {"reference", "reference rows"} => CopiesReference
    /\ pc \in {"reference", "reference rows", "sidecar", "sidecar text"} =>
          files.csv[args.optimizer] = Csv(line)
    /\ pc \in {"sidecar", "sidecar text"} /\ CopiesReference => files.reference = scratch
    /\ pc = "sidecar text" => Describes(files.sidecar[args.optimizer], Rounded(line))

\* A solver is at work only while the run waits for it, but for those of runs that
\* were interrupted.
SolversAreWaitedFor ==
    interrupted \/ solvers = (IF pc = "solving" THEN 1 ELSE 0)

RacelineInv ==
    /\ RacelineTypes /\ ReadAsItIs /\ SeedIsKept /\ LineIsOfTheRun /\ WrittenSoFar
    /\ SolversAreWaitedFor /\ PublishedLineIsSound /\ SidecarIsOfItsLine

LEMMA RoundedLine ==
    ASSUME NEW l \in RaceLines
    PROVE  /\ Rounded(l) \in RaceLines
           /\ Rounded(l).faults = l.faults /\ Rounded(l).nan = l.nan
           /\ Rounded(l).seed = l.seed /\ Rounded(l).given = l.given
           /\ Rounded(l).solved = l.solved /\ Rounded(l).truth = l.truth
           /\ Csv(l) \in CsvFiles /\ Csv(l).state = "whole" /\ Csv(l).line = Rounded(l)
  <1>1. Rounded(l) \in RaceLines
    BY DEF Rounded, RaceLines, Names
  <1>2. /\ Rounded(l).faults = l.faults /\ Rounded(l).nan = l.nan
        /\ Rounded(l).seed = l.seed /\ Rounded(l).given = l.given
        /\ Rounded(l).solved = l.solved /\ Rounded(l).truth = l.truth
    BY DEF Rounded, RaceLines
  <1> QED BY <1>1, <1>2 DEF Csv, CsvFiles

LEMMA NoNameType == NoName \in Names
  BY DEF NoName, Name, Names

LEMMA NoLineType == NoLine \in RaceLines /\ NoLine.seed = NoName /\ NoLine.name = NoName
  <1>1. [i \in Inputs |-> 0] \in [Inputs -> Nat]
    OBVIOUS
  <1>2. {} \in SUBSET Checks /\ {} \in SUBSET Columns /\ FALSE \in BOOLEAN /\ 0 \in Nat
    OBVIOUS
  <1> QED BY <1>1, <1>2, NoNameType DEF NoLine, RaceLines

LEMMA NoFileType == NoFile \in CsvFiles /\ Torn \in CsvFiles /\ Torn.state = "torn"
  BY NoLineType DEF NoFile, Torn, CsvFiles

LEMMA NoSidecarType == NoSidecar \in Sidecars
  <1>1. [i \in Inputs |-> 0] \in [Inputs -> Nat] /\ {} \in SUBSET Inputs
    OBVIOUS
  <1> QED BY <1>1, NoNameType DEF NoSidecar, Sidecars

\* One file of the folder is written, and the others are as they were.
LEMMA CsvWritten ==
    ASSUME files \in Folders, NEW o \in Optimizers, NEW c \in CsvFiles,
           files' = [files EXCEPT !.csv[o] = c]
    PROVE  /\ files' \in Folders /\ files'.csv[o] = c
           /\ \A p \in Optimizers : p # o => files'.csv[p] = files.csv[p]
           /\ files'.sidecar = files.sidecar /\ files'.reference = files.reference
  BY DEF Folders

LEMMA ReferenceWritten ==
    ASSUME files \in Folders, NEW c \in CsvFiles, files' = [files EXCEPT !.reference = c]
    PROVE  /\ files' \in Folders /\ files'.reference = c
           /\ files'.csv = files.csv /\ files'.sidecar = files.sidecar
  BY DEF Folders

LEMMA SidecarWritten ==
    ASSUME files \in Folders, NEW o \in Optimizers, NEW doc \in Sidecars,
           files' = [files EXCEPT !.sidecar[o] = doc]
    PROVE  /\ files' \in Folders /\ files'.sidecar[o] = doc
           /\ \A p \in Optimizers : p # o => files'.sidecar[p] = files.sidecar[p]
           /\ files'.csv = files.csv /\ files'.reference = files.reference
  BY DEF Folders

LEMMA RacelineArgument ==
    ASSUME NEW a \in Arguments
    PROVE  /\ a.optimizer \in Optimizers /\ a.truth \in BOOLEAN
           /\ a.reference \in {NoReference, "reference", "tum_mincurv_iqp"}
  BY RacelineAssumption

\* What the folder may hold.
LEMMA FolderHas ==
    ASSUME files \in Folders
    PROVE  /\ \A o \in Optimizers : files.csv[o] \in CsvFiles /\ files.sidecar[o] \in Sidecars
           /\ files.reference \in CsvFiles
           /\ \A o \in Optimizers : files.csv[o].line \in RaceLines
           /\ files.reference.line \in RaceLines
  BY DEF Folders, CsvFiles

LEMMA RacelineStarts == ASSUME RacelineInit PROVE RacelineInv
  <1>1. Empty \in Folders /\ \A o \in Optimizers : /\ Empty.csv[o] = NoFile
                                                   /\ Empty.sidecar[o] = NoSidecar
    BY NoFileType, NoSidecarType DEF Empty, Folders
  <1>2. NoFile.state = "none" /\ NoSidecar.state = "none"
    BY DEF NoFile, NoSidecar
  <1>3. [i \in Inputs |-> 0] \in [Inputs -> Nat] /\ {} \subseteq Inputs /\ 0 \in Nat
    OBVIOUS
  <1>4. RacelineTypes
    BY <1>1, <1>3, NoLineType, NoFileType DEF RacelineInit, RacelineTypes
  <1>5. /\ ReadAsItIs /\ SeedIsKept /\ LineIsOfTheRun /\ WrittenSoFar
    BY DEF RacelineInit, ReadAsItIs, SeedIsKept, LineIsOfTheRun, WrittenSoFar, HasRead,
           Chosen, Solving, Writing
  <1>6. SolversAreWaitedFor
    BY DEF RacelineInit, SolversAreWaitedFor
  <1>7. PublishedLineIsSound /\ SidecarIsOfItsLine
    BY <1>1, <1>2 DEF RacelineInit, PublishedLineIsSound, SidecarIsOfItsLine
  <1> QED BY <1>4, <1>5, <1>6, <1>7 DEF RacelineInv

\* While nothing is written, what is in the folder stays in order.
LEMMA FolderKept ==
    ASSUME RacelineInv, UNCHANGED <<files, halfway>>,
           pc \notin Writing \ {"csv"}, pc' \notin Writing \ {"csv"}
    PROVE  PublishedLineIsSound' /\ SidecarIsOfItsLine'
  <1>1. PublishedLineIsSound'
    BY DEF RacelineInv, PublishedLineIsSound
  <1>2. \A o : ~AmongWrites(o) /\ ~AmongWrites(o)'
    BY DEF AmongWrites
  <1>3. SidecarIsOfItsLine'
    BY <1>2 DEF RacelineInv, SidecarIsOfItsLine
  <1> QED BY <1>1, <1>3

\* However a run ends that has not finished its writes.
LEMMA RunEnds ==
    ASSUME RacelineInv, End, UNCHANGED <<inputVars, files, argVars>>,
           halfway \subseteq halfway',
           pc \in Writing \ {"csv"} => args.optimizer \in halfway',
           interrupted' \/ solvers' = 0
    PROVE  RacelineInv'
  <1>1. /\ pc' = "ended" /\ UNCHANGED <<edition, edited, files, args, runs>>
        /\ read' = [i \in Inputs |-> 0] /\ tables' = 0 /\ stage' = "none"
        /\ line' = NoLine /\ seed' = NoLine /\ scratch' = NoFile
    BY DEF End, inputVars, argVars
  <1>2. [i \in Inputs |-> 0] \in [Inputs -> Nat] /\ 0 \in Nat
    OBVIOUS
  <1>3. RacelineTypes'
    BY <1>1, <1>2, NoLineType, NoFileType DEF RacelineInv, RacelineTypes
  <1>4. ReadAsItIs' /\ SeedIsKept' /\ LineIsOfTheRun' /\ WrittenSoFar'
    BY <1>1 DEF ReadAsItIs, SeedIsKept, LineIsOfTheRun, WrittenSoFar, HasRead, Chosen,
           Solving, Writing
  <1>5. SolversAreWaitedFor'
    BY <1>1 DEF SolversAreWaitedFor
  <1>6. PublishedLineIsSound'
    BY <1>1 DEF RacelineInv, PublishedLineIsSound
  <1>7. \A o \in Optimizers \ halfway' : ~AmongWrites(o)
    BY DEF AmongWrites
  <1>8. SidecarIsOfItsLine'
    BY <1>1, <1>7 DEF RacelineInv, SidecarIsOfItsLine
  <1> QED BY <1>3, <1>4, <1>5, <1>6, <1>8 DEF RacelineInv

LEMMA RunFails == ASSUME RacelineInv, Fail, pc # "solving", pc \notin Writing PROVE RacelineInv'
  <1>1. interrupted' \/ solvers' = 0
    BY DEF Fail, RacelineInv, SolversAreWaitedFor
  <1>2. /\ End /\ UNCHANGED <<inputVars, files, argVars>> /\ halfway' = halfway
    BY DEF Fail
  <1> QED BY <1>1, <1>2, RunEnds

LEMMA RunStarts == ASSUME RacelineInv, NEW a \in Arguments, Start(a) PROVE RacelineInv'
  <1>1. /\ pc = "ended" /\ pc' = "vehicle" /\ args' = a /\ runs' = runs + 1 /\ edited' = {}
        /\ UNCHANGED <<edition, files, read, tables, stage, pass, line, seed, scratch,
                       solvers, halfway, interrupted>>
    BY DEF Start, Live, solveVars
  <1>2. runs + 1 \in Nat
    BY DEF RacelineInv, RacelineTypes
  <1>3. RacelineTypes'
    BY <1>1, <1>2 DEF RacelineInv, RacelineTypes
  <1>4. ReadAsItIs' /\ SeedIsKept' /\ LineIsOfTheRun' /\ WrittenSoFar'
    BY <1>1 DEF ReadAsItIs, SeedIsKept, LineIsOfTheRun, WrittenSoFar, HasRead, Chosen,
           Solving, Writing
  <1>5. SolversAreWaitedFor'
    BY <1>1 DEF RacelineInv, SolversAreWaitedFor
  <1>6. PublishedLineIsSound' /\ SidecarIsOfItsLine'
    BY <1>1, FolderKept DEF Writing
  <1> QED BY <1>3, <1>4, <1>5, <1>6 DEF RacelineInv

LEMMA InputsAreRead == ASSUME RacelineInv, LoadVehicle \/ LoadTrack PROVE RacelineInv'
  <1>1. ASSUME NEW next, NEW what \in SUBSET Inputs, Read(next, what),
               \/ /\ pc = "vehicle" /\ next = "track" /\ what = {"vehicle", "tables"}
                  /\ args.reference # NoReference => args.optimizer = "tum_mintime"
               \/ pc = "track" /\ next = "reference in" /\ what = {"source"}
        PROVE  RacelineInv'
    <2>1. /\ pc' = next
          /\ read' = [i \in Inputs |-> IF i \in what THEN edition[i] ELSE read[i]]
          /\ UNCHANGED <<edition, edited, files, args, runs, tables, stage, line, seed,
                         scratch, solvers, halfway, interrupted>>
      BY <1>1 DEF Read, inputVars, argVars, solveVars
    <2>2. RacelineTypes'
      BY <2>1 DEF RacelineInv, RacelineTypes
    <2>3. ReadAsItIs'
      BY <1>1, <2>1 DEF RacelineInv, ReadAsItIs, Inputs, HasRead, Chosen, Solving, Writing
    <2>4. SeedIsKept'
      BY <1>1, <2>1 DEF RacelineInv, SeedIsKept, HasRead, Chosen, Solving, Writing
    <2>7. LineIsOfTheRun' /\ WrittenSoFar'
      BY <1>1, <2>1 DEF LineIsOfTheRun, WrittenSoFar, Writing
    <2>5. SolversAreWaitedFor'
      BY <1>1, <2>1 DEF RacelineInv, SolversAreWaitedFor
    <2>6. PublishedLineIsSound' /\ SidecarIsOfItsLine'
      BY <1>1, <2>1, FolderKept DEF Writing
    <2> QED BY <2>2, <2>3, <2>4, <2>5, <2>6, <2>7 DEF RacelineInv
  <1>2. CASE LoadVehicle
    BY <1>1, <1>2 DEF LoadVehicle, Inputs
  <1>3. CASE LoadTrack
    <2>1. pc = "track" /\ (Read("reference in", {"source"}) \/ Fail)
      BY <1>3 DEF LoadTrack
    <2>2. CASE Fail
      BY <2>1, <2>2, RunFails DEF Writing
    <2> QED BY <1>1, <2>1, <2>2 DEF Inputs
  <1> QED BY <1>2, <1>3

\* Optimizers are two, and what a --reference run begins from is in the folder.
LEMMA StageIsChosen == ASSUME RacelineInv, ChooseStage PROVE RacelineInv'
  <1> DEFINE first == args.optimizer = "tum_mincurv_iqp" \/ args.reference = NoReference
             handed == IF args.reference = "reference" THEN files.reference
                       ELSE files.csv["tum_mincurv_iqp"]
  <1>1. pc = "reference in"
    BY DEF ChooseStage
  <1>2. CASE Fail
    BY <1>1, <1>2, RunFails DEF Writing
  <1>3. CASE /\ stage' = IF first THEN "tum_mincurv_iqp" ELSE "tum_mintime"
             /\ seed' = IF first THEN NoLine ELSE handed.line
             /\ pc' = "inputs"
             /\ UNCHANGED <<edition, edited, files, args, runs, read, tables, line, scratch,
                            solvers, halfway, interrupted>>
    <2>1. /\ handed.line \in RaceLines /\ args \in Arguments
          /\ args.optimizer \in Optimizers
          /\ args.reference \in {NoReference, "reference", "tum_mincurv_iqp"}
      BY FolderHas, RacelineArgument DEF RacelineInv, RacelineTypes, Optimizers
    <2>2. RacelineTypes'
      BY <1>3, <2>1, NoLineType DEF RacelineInv, RacelineTypes, Optimizers
    <2>3. ReadAsItIs'
      BY <1>1, <1>3 DEF RacelineInv, ReadAsItIs, HasRead, Chosen, Solving, Writing
    <2>4. SeedIsKept'
      <3>1. args.optimizer = "tum_mincurv_iqp" => args.reference = NoReference
        BY <1>1 DEF RacelineInv, SeedIsKept, HasRead
      <3> QED BY <1>3, <2>1, <3>1, RacelineAssumption
              DEF SeedIsKept, CopiesReference, Optimizers
    <2>5. LineIsOfTheRun' /\ WrittenSoFar'
      BY <1>3 DEF LineIsOfTheRun, WrittenSoFar, Writing
    <2>6. SolversAreWaitedFor'
      BY <1>1, <1>3 DEF RacelineInv, SolversAreWaitedFor
    <2>7. PublishedLineIsSound' /\ SidecarIsOfItsLine'
      BY <1>1, <1>3, FolderKept DEF Writing
    <2> QED BY <2>2, <2>3, <2>4, <2>5, <2>6, <2>7 DEF RacelineInv
  <1> QED BY <1>2, <1>3 DEF ChooseStage, SeedFrom, inputVars, argVars

LEMMA TablesAreCopied == ASSUME RacelineInv, WriteInputs PROVE RacelineInv'
  <1>1. pc = "inputs"
    BY DEF WriteInputs
  <1>2. CASE Fail
    BY <1>1, <1>2, RunFails DEF Writing
  <1>3. CASE /\ tables' = edition["tables"] /\ pc' = "solve"
             /\ UNCHANGED <<edition, edited, files, args, runs, read, stage, line, seed, scratch,
                            solvers, halfway, interrupted>>
    <2>1. edition["tables"] \in Nat
      BY DEF RacelineInv, RacelineTypes, Inputs
    <2>2. RacelineTypes'
      BY <1>3, <2>1 DEF RacelineInv, RacelineTypes
    <2>3. ReadAsItIs'
      BY <1>1, <1>3 DEF RacelineInv, ReadAsItIs, HasRead, Chosen, Solving, Writing
    <2>4. SeedIsKept'
      BY <1>1, <1>3 DEF RacelineInv, SeedIsKept, CopiesReference, HasRead, Chosen, Solving
    <2>5. LineIsOfTheRun' /\ WrittenSoFar'
      BY <1>3 DEF LineIsOfTheRun, WrittenSoFar, Writing
    <2>6. SolversAreWaitedFor'
      BY <1>1, <1>3 DEF RacelineInv, SolversAreWaitedFor
    <2>7. PublishedLineIsSound' /\ SidecarIsOfItsLine'
      BY <1>1, <1>3, FolderKept DEF Writing
    <2> QED BY <2>2, <2>3, <2>4, <2>5, <2>6, <2>7 DEF RacelineInv
  <1> QED BY <1>2, <1>3 DEF WriteInputs, inputVars, argVars

LEMMA SolverIsCalled == ASSUME RacelineInv, CallSolver PROVE RacelineInv'
  <1>1. /\ pc = "solve" /\ pc' = "solving" /\ solvers' = solvers + 1
        /\ UNCHANGED <<edition, edited, files, args, runs, read, tables, stage, line, seed,
                       scratch, halfway, interrupted>>
    BY DEF CallSolver, inputVars, argVars, solveVars
  <1>2. RacelineTypes'
    BY <1>1 DEF RacelineInv, RacelineTypes
  <1>3. ReadAsItIs' /\ SeedIsKept'
    BY <1>1 DEF RacelineInv, ReadAsItIs, SeedIsKept, CopiesReference, HasRead, Chosen, Solving,
           Writing
  <1>4. LineIsOfTheRun' /\ WrittenSoFar'
    BY <1>1 DEF LineIsOfTheRun, WrittenSoFar, Writing
  <1>5. SolversAreWaitedFor'
    BY <1>1 DEF RacelineInv, SolversAreWaitedFor
  <1>6. PublishedLineIsSound' /\ SidecarIsOfItsLine'
    BY <1>1, FolderKept DEF Writing
  <1> QED BY <1>2, <1>3, <1>4, <1>5, <1>6 DEF RacelineInv

\* A run of several passes, or of two stages, goes on where its line is not the last.
LEMMA LineIsFound == ASSUME RacelineInv, NEW shape \in Shapes, Solved(shape) PROVE RacelineInv'
  <1>1. /\ pc = "solving" /\ solvers' = solvers - 1
        /\ line' = [name |-> Name(runs, stage, "all"), faults |-> shape.faults,
                    nan |-> shape.nan, seed |-> seed.name, given |-> read,
                    solved |-> tables, truth |-> args.truth]
        /\ pc' \in {"solve", "verify", "seed"}
        /\ pc' = "verify" => stage = args.optimizer
        /\ pc' = "seed" => stage # args.optimizer
        /\ UNCHANGED <<edition, edited, files, args, runs, read, tables, stage, seed, scratch,
                       halfway, interrupted>>
    BY DEF Solved, inputVars, argVars
  <1>2. /\ Name(runs, stage, "all") \in Names
        /\ shape.faults \in SUBSET Checks /\ shape.nan \in SUBSET Columns
        /\ seed.name \in Names /\ args.truth \in BOOLEAN
        /\ read \in [Inputs -> Nat] /\ tables \in Nat
    <2>1. args \in Arguments
      BY DEF RacelineInv, RacelineTypes
    <2>2. stage \in Optimizers \cup {"none"}
      BY DEF RacelineInv, RacelineTypes
    <2>3. runs \in Nat /\ seed \in RaceLines /\ read \in [Inputs -> Nat] /\ tables \in Nat
      BY DEF RacelineInv, RacelineTypes
    <2>4. Name(runs, stage, "all") \in Names
      BY <2>2, <2>3 DEF Name, Names
    <2>5. shape.faults \in SUBSET Checks /\ shape.nan \in SUBSET Columns
      BY RacelineAssumption
    <2> QED BY <2>1, <2>2, <2>3, <2>4, <2>5, RacelineArgument DEF RaceLines
  <1>3. line' \in RaceLines
    BY <1>1, <1>2 DEF RaceLines
  <1>4. RacelineTypes'
    BY <1>1, <1>3 DEF RacelineInv, RacelineTypes
  <1>5. ReadAsItIs' /\ SeedIsKept'
    BY <1>1 DEF RacelineInv, ReadAsItIs, SeedIsKept, CopiesReference, HasRead, Chosen, Solving,
           Writing
  <1>6. LineIsOfTheRun'
    BY <1>1 DEF LineIsOfTheRun, Writing
  <1>7. WrittenSoFar'
    BY <1>1 DEF WrittenSoFar
  <1>8. SolversAreWaitedFor'
    BY <1>1 DEF RacelineInv, SolversAreWaitedFor
  <1>9. PublishedLineIsSound' /\ SidecarIsOfItsLine'
    BY <1>1, FolderKept DEF Writing
  <1> QED BY <1>4, <1>5, <1>6, <1>7, <1>8, <1>9 DEF RacelineInv

LEMMA ReferenceIsReadBack == ASSUME RacelineInv, ReadBack PROVE RacelineInv'
  <1>1. /\ pc = "seed" /\ pc' = "inputs" /\ stage' = "tum_mintime"
        /\ scratch' = Csv(line) /\ seed' = Csv(line).line
        /\ UNCHANGED <<edition, edited, files, args, runs, read, tables, line, solvers, halfway,
                       interrupted>>
    BY DEF ReadBack, SeedFrom, inputVars, argVars
  <1>2. /\ stage # args.optimizer /\ args \in Arguments /\ line \in RaceLines
        /\ args.optimizer = "tum_mincurv_iqp" => stage = "tum_mincurv_iqp"
        /\ args.optimizer = "tum_mintime" /\ args.reference \in {"reference", "tum_mincurv_iqp"}
              => stage = "tum_mintime"
    BY <1>1 DEF RacelineInv, RacelineTypes, SeedIsKept, Chosen, Solving
  <1>3. CopiesReference
    BY <1>2, RacelineArgument DEF CopiesReference, Optimizers
  <1>4. RacelineTypes'
    BY <1>1, <1>2, RoundedLine DEF RacelineInv, RacelineTypes, Optimizers
  <1>5. ReadAsItIs'
    BY <1>1 DEF RacelineInv, ReadAsItIs, HasRead, Chosen, Solving, Writing
  <1>6. SeedIsKept'
    BY <1>1, <1>3, RacelineAssumption DEF SeedIsKept, CopiesReference
  <1>7. LineIsOfTheRun' /\ WrittenSoFar'
    BY <1>1 DEF LineIsOfTheRun, WrittenSoFar, Writing
  <1>8. SolversAreWaitedFor'
    BY <1>1 DEF RacelineInv, SolversAreWaitedFor
  <1>9. PublishedLineIsSound' /\ SidecarIsOfItsLine'
    BY <1>1, FolderKept DEF Writing
  <1> QED BY <1>4, <1>5, <1>6, <1>7, <1>8, <1>9 DEF RacelineInv

\* `--timeout` and a failure leave no solver behind.
LEMMA SolverEnds == ASSUME RacelineInv, SolverFails \/ Timeout PROVE RacelineInv'
  <1>1. /\ pc = "solving" /\ solvers' = solvers - 1 /\ End
        /\ UNCHANGED <<inputVars, files, argVars, halfway, interrupted>>
    BY DEF SolverFails, Timeout, AfterKill
  <1>2. interrupted' \/ solvers' = 0
    BY <1>1 DEF RacelineInv, SolversAreWaitedFor
  <1> QED BY <1>1, <1>2, RunEnds DEF Writing

\* Only a line without a failure goes on to be written.
LEMMA LineIsJudged == ASSUME RacelineInv, Verify PROVE RacelineInv'
  <1>1. pc = "verify"
    BY DEF Verify
  <1>2. CASE Fail
    BY <1>1, <1>2, RunFails DEF Writing
  <1>3. CASE /\ Verified(line, args.truth) /\ pc' = "csv"
             /\ UNCHANGED <<edition, edited, files, args, runs, read, tables, stage, line, seed,
                            scratch, solvers, halfway, interrupted>>
    <2>1. RacelineTypes'
      BY <1>3 DEF RacelineInv, RacelineTypes
    <2>2. ReadAsItIs' /\ SeedIsKept'
      BY <1>1, <1>3 DEF RacelineInv, ReadAsItIs, SeedIsKept, CopiesReference, HasRead, Chosen,
             Solving, Writing
    <2>3. LineIsOfTheRun'
      BY <1>1, <1>3 DEF RacelineInv, LineIsOfTheRun
    <2>4. WrittenSoFar'
      BY <1>3 DEF WrittenSoFar
    <2>5. SolversAreWaitedFor'
      BY <1>1, <1>3 DEF RacelineInv, SolversAreWaitedFor
    <2>6. PublishedLineIsSound' /\ SidecarIsOfItsLine'
      BY <1>1, <1>3, FolderKept DEF Writing
    <2> QED BY <2>1, <2>2, <2>3, <2>4, <2>5, <2>6 DEF RacelineInv
  <1> QED BY <1>2, <1>3 DEF Verify, inputVars, argVars, solveVars

LEMMA AnInputIsEdited == ASSUME RacelineInv, NEW i \in Inputs, EditInput(i) PROVE RacelineInv'
  <1>1. /\ edition' = [edition EXCEPT ![i] = @ + 1] /\ edited' = edited \cup {i}
        /\ UNCHANGED <<files, args, runs, pc, read, tables, stage, line, seed, scratch, solvers,
                       halfway, interrupted>>
    BY DEF EditInput, argVars, solveVars
  <1>2. /\ edition' \in [Inputs -> Nat]
        /\ \A k \in Inputs \ edited' : edition'[k] = edition[k]
    BY <1>1 DEF RacelineInv, RacelineTypes
  <1>3. RacelineTypes'
    BY <1>1, <1>2 DEF RacelineInv, RacelineTypes
  <1>4. ReadAsItIs'
    BY <1>1, <1>2 DEF RacelineInv, ReadAsItIs, Inputs
  <1>5. SeedIsKept' /\ LineIsOfTheRun' /\ WrittenSoFar' /\ SolversAreWaitedFor'
    BY <1>1 DEF RacelineInv, SeedIsKept, CopiesReference, LineIsOfTheRun, WrittenSoFar,
           SolversAreWaitedFor
  <1>6. PublishedLineIsSound' /\ SidecarIsOfItsLine'
    BY <1>1 DEF RacelineInv, PublishedLineIsSound, SidecarIsOfItsLine, AmongWrites
  <1> QED BY <1>3, <1>4, <1>5, <1>6 DEF RacelineInv

LEMMA AnOrphanEnds == ASSUME RacelineInv, OrphanEnds PROVE RacelineInv'
  <1>1. /\ solvers > (IF pc = "solving" THEN 1 ELSE 0)
        /\ UNCHANGED <<edition, edited, files, args, runs, pc, read, tables, stage, line, seed,
                       scratch, halfway, interrupted>>
    BY DEF OrphanEnds, inputVars, argVars, solveVars
  <1>2. interrupted
    BY <1>1 DEF RacelineInv, SolversAreWaitedFor
  <1>3. RacelineTypes'
    BY <1>1 DEF RacelineInv, RacelineTypes
  <1>4. ReadAsItIs' /\ SeedIsKept' /\ LineIsOfTheRun' /\ WrittenSoFar'
    <2>1. ReadAsItIs'
      BY <1>1 DEF RacelineInv, ReadAsItIs
    <2>2. SeedIsKept'
      BY <1>1 DEF RacelineInv, SeedIsKept, CopiesReference
    <2>3. LineIsOfTheRun'
      BY <1>1 DEF RacelineInv, LineIsOfTheRun
    <2>4. WrittenSoFar'
      BY <1>1 DEF RacelineInv, WrittenSoFar, CopiesReference
    <2> QED BY <2>1, <2>2, <2>3, <2>4
  <1>5. SolversAreWaitedFor'
    BY <1>1, <1>2 DEF SolversAreWaitedFor
  <1>6. PublishedLineIsSound' /\ SidecarIsOfItsLine'
    BY <1>1 DEF RacelineInv, PublishedLineIsSound, SidecarIsOfItsLine, AmongWrites
  <1> QED BY <1>3, <1>4, <1>5, <1>6 DEF RacelineInv

LEMMA RunIsInterrupted == ASSUME RacelineInv, Interrupt \/ WriteFails PROVE RacelineInv'
  <1>1. CASE Interrupt
    <2>1. interrupted' \/ solvers' = 0
      BY <1>1 DEF Interrupt, RacelineInv, SolversAreWaitedFor
    <2>2. /\ End /\ UNCHANGED <<inputVars, files, argVars>> /\ halfway \subseteq halfway'
          /\ pc \in Writing \ {"csv"} => args.optimizer \in halfway'
      BY <1>1 DEF Interrupt
    <2> QED BY <2>1, <2>2, RunEnds
  <1>2. CASE WriteFails
    <2>1. interrupted' \/ solvers' = 0
      BY <1>2 DEF WriteFails, RacelineInv, SolversAreWaitedFor, Writing
    <2>2. /\ End /\ UNCHANGED <<inputVars, files, argVars>> /\ halfway \subseteq halfway'
          /\ pc \in Writing \ {"csv"} => args.optimizer \in halfway'
      BY <1>2 DEF WriteFails
    <2> QED BY <2>1, <2>2, RunEnds
  <1> QED BY <1>1, <1>2

\* A line without a failure is at fault with nothing that can be seen.
LEMMA VerifiedIsSound ==
    ASSUME NEW l \in RaceLines, NEW truth \in BOOLEAN, Verified(l, truth)
    PROVE  /\ "xy" \notin l.nan
           /\ l.nan = {} => l.faults \subseteq (IF truth THEN {} ELSE {"ground_truth"})
  <1>1. "direction" \in Checks /\ "direction" # "ground_truth"
    BY DEF Checks, Reads
  <1>2. \A check \in IF truth THEN Checks ELSE Checks \ {"ground_truth"} :
           /\ check \in l.faults => Reads[check] \cap l.nan # {}
           /\ ~(check = "direction" /\ "xy" \in l.nan)
    BY DEF Verified, Failures, WindsAnotherWay
  <1>3. "xy" \notin l.nan
    <2>1. "direction" \in IF truth THEN Checks ELSE Checks \ {"ground_truth"}
      BY <1>1
    <2> QED BY <1>2, <2>1
  <1>4. ASSUME l.nan = {}
        PROVE  l.faults \subseteq IF truth THEN {} ELSE {"ground_truth"}
    <2>1. l.faults \subseteq Checks
      BY DEF RaceLines
    <2>2. \A check \in Checks : (check = "ground_truth" /\ ~truth) \/ check \notin l.faults
      BY <1>2, <1>4
    <2> QED BY <2>1, <2>2
  <1> QED BY <1>3, <1>4

\* What a write leaves as it was.
LEMMA WriteKeeps ==
    ASSUME RacelineInv, pc \in Writing, pc' \in Writing, files' \in Folders,
           UNCHANGED <<inputVars, argVars, read, solveVars, solvers, halfway, interrupted>>,
           args.optimizer = "tum_mintime" =>
              files'.csv["tum_mincurv_iqp"] = files.csv["tum_mincurv_iqp"],
           args.reference = "reference" => files'.reference = files.reference
    PROVE  /\ RacelineTypes' /\ ReadAsItIs' /\ SeedIsKept' /\ LineIsOfTheRun'
           /\ SolversAreWaitedFor'
  <1>1. /\ UNCHANGED <<edition, edited, args, runs, read, tables, stage, line, seed, scratch,
                       solvers, interrupted>>
        /\ pc # "solving" /\ pc' # "solving" /\ pc' # "track" /\ pc' # "seed"
        /\ pc \in Chosen /\ pc \in HasRead /\ pc \in Solving
    BY DEF inputVars, argVars, solveVars, Writing, Chosen, HasRead, Solving
  <1>2. RacelineTypes'
    BY <1>1 DEF RacelineInv, RacelineTypes
  <1>3. ReadAsItIs'
    BY <1>1 DEF RacelineInv, ReadAsItIs
  <1>4. SeedIsKept'
    BY <1>1 DEF RacelineInv, SeedIsKept, CopiesReference
  <1>5. LineIsOfTheRun'
    BY <1>1 DEF RacelineInv, LineIsOfTheRun
  <1>6. SolversAreWaitedFor'
    BY <1>1 DEF RacelineInv, SolversAreWaitedFor
  <1> QED BY <1>2, <1>3, <1>4, <1>5, <1>6

\* The other optimizer's files, and this one's until its first write, are in order;
\* this one's are not looked at again before its last.
LEMMA OthersKept ==
    ASSUME RacelineInv, UNCHANGED <<args, halfway>>, pc' \in Writing \ {"csv"},
           pc \in Writing,
           \A p \in Optimizers : p # args.optimizer =>
              files'.csv[p] = files.csv[p] /\ files'.sidecar[p] = files.sidecar[p]
    PROVE  SidecarIsOfItsLine'
  <1>1. \A p \in Optimizers : ~AmongWrites(p)' => p # args.optimizer /\ ~AmongWrites(p)
    BY DEF AmongWrites
  <1>2. SidecarIsOfItsLine
    BY DEF RacelineInv
  <1>3. ASSUME NEW p \in Optimizers \ halfway', ~AmongWrites(p)'
        PROVE  /\ files'.csv[p].state = files'.sidecar[p].state
               /\ files'.sidecar[p].state = "whole" =>
                     Describes(files'.sidecar[p], files'.csv[p].line)
    <2>1. /\ p # args.optimizer /\ ~AmongWrites(p) /\ p \in Optimizers \ halfway
          /\ files'.csv[p] = files.csv[p] /\ files'.sidecar[p] = files.sidecar[p]
      BY <1>1, <1>3
    <2> QED BY <1>2, <2>1 DEF SidecarIsOfItsLine, Describes
  <1> QED BY <1>3 DEF SidecarIsOfItsLine, Describes

LEMMA CsvIsWritten == ASSUME RacelineInv, OpenCsv \/ WriteCsv PROVE RacelineInv'
  <1> DEFINE o == args.optimizer
  <1>1. args \in Arguments /\ o \in Optimizers /\ files \in Folders /\ line \in RaceLines
    BY RacelineArgument DEF RacelineInv, RacelineTypes
  <1>2. ASSUME NEW c \in CsvFiles, files' = [files EXCEPT !.csv[o] = c],
               pc \in Writing, pc' \in Writing \ {"csv"},
               UNCHANGED <<inputVars, argVars, read, solveVars, solvers, halfway, interrupted>>,
               WrittenSoFar',
               c.state = "whole" => c = Csv(line) /\ pc \in Writing
        PROVE  RacelineInv'
    <2>1. /\ files' \in Folders /\ files'.csv[o] = c
          /\ \A p \in Optimizers : p # o => files'.csv[p] = files.csv[p]
          /\ files'.sidecar = files.sidecar /\ files'.reference = files.reference
      BY <1>1, <1>2, CsvWritten
    <2>2. /\ RacelineTypes' /\ ReadAsItIs' /\ SeedIsKept' /\ LineIsOfTheRun'
          /\ SolversAreWaitedFor'
      BY <1>2, <2>1, WriteKeeps DEF Optimizers
    <2>3. SidecarIsOfItsLine'
      BY <1>2, <2>1, OthersKept DEF argVars
    <2>4. ASSUME c.state = "whole"
          PROVE  /\ "xy" \notin c.line.nan
                 /\ c.line.nan = {} =>
                       c.line.faults \subseteq (IF c.line.truth THEN {} ELSE {"ground_truth"})
      <3>1. /\ c.line.nan = line.nan /\ c.line.faults = line.faults
            /\ c.line.truth = args.truth
        BY <1>1, <1>2, <2>4, RoundedLine DEF RacelineInv, LineIsOfTheRun
      <3>2. Verified(line, args.truth) /\ args.truth \in BOOLEAN
        BY <1>1, <1>2, RacelineArgument DEF RacelineInv, LineIsOfTheRun
      <3> QED BY <1>1, <3>1, <3>2, VerifiedIsSound
    <2>5. PublishedLineIsSound'
      BY <2>1, <2>4 DEF RacelineInv, PublishedLineIsSound
    <2> QED BY <1>2, <2>2, <2>3, <2>5 DEF RacelineInv
  <1>3. CASE OpenCsv
    <2>1. /\ pc = "csv" /\ pc' = "csv rows" /\ files' = [files EXCEPT !.csv[o] = Torn]
          /\ UNCHANGED <<inputVars, argVars, read, solveVars, solvers, halfway, interrupted>>
      BY <1>3 DEF OpenCsv, Write
    <2>2. WrittenSoFar'
      BY <2>1 DEF WrittenSoFar
    <2> HIDE DEF o
    <2> QED BY <1>2, <2>1, <2>2, NoFileType DEF Writing
  <1>4. CASE WriteCsv
    <2>1. /\ pc = "csv rows"
          /\ pc' = IF CopiesReference THEN "reference" ELSE "sidecar"
          /\ files' = [files EXCEPT !.csv[o] = Csv(line)]
          /\ UNCHANGED <<inputVars, argVars, read, solveVars, solvers, halfway, interrupted>>
      BY <1>4 DEF WriteCsv, Write
    <2>2. /\ files'.csv[o] = Csv(line) /\ Csv(line) \in CsvFiles
          /\ UNCHANGED <<args, line, scratch>>
      BY <1>1, <2>1, RoundedLine, CsvWritten DEF argVars, solveVars
    <2>3. WrittenSoFar'
      BY <2>1, <2>2 DEF WrittenSoFar, CopiesReference, Csv, Rounded
    <2> HIDE DEF o
    <2> QED BY <1>2, <2>1, <2>2, <2>3 DEF Writing
  <1> QED BY <1>3, <1>4

LEMMA ReferenceIsCopied ==
    ASSUME RacelineInv, OpenReference \/ CopyReference PROVE RacelineInv'
  <1> DEFINE o == args.optimizer
  <1>1. args \in Arguments /\ files \in Folders /\ scratch \in CsvFiles
    BY DEF RacelineInv, RacelineTypes
  <1>2. CopiesReference /\ args.reference # "reference"
    BY RacelineAssumption
       DEF OpenReference, CopyReference, Write, RacelineInv, WrittenSoFar, CopiesReference
  <1>3. ASSUME NEW c \in CsvFiles, files' = [files EXCEPT !.reference = c],
               pc \in Writing, pc' \in Writing \ {"csv"},
               UNCHANGED <<inputVars, argVars, read, solveVars, solvers, halfway, interrupted>>,
               WrittenSoFar'
        PROVE  RacelineInv'
    <2>1. /\ files' \in Folders /\ files'.reference = c
          /\ files'.csv = files.csv /\ files'.sidecar = files.sidecar
      BY <1>1, <1>3, ReferenceWritten
    <2>2. /\ RacelineTypes' /\ ReadAsItIs' /\ SeedIsKept' /\ LineIsOfTheRun'
          /\ SolversAreWaitedFor'
      BY <1>2, <1>3, <2>1, WriteKeeps
    <2>3. SidecarIsOfItsLine'
      BY <1>3, <2>1, OthersKept DEF argVars
    <2>4. PublishedLineIsSound'
      BY <2>1 DEF RacelineInv, PublishedLineIsSound
    <2> QED BY <1>3, <2>2, <2>3, <2>4 DEF RacelineInv
  <1>4. CASE OpenReference
    <2>1. /\ pc = "reference" /\ pc' = "reference rows"
          /\ files' = [files EXCEPT !.reference = Torn]
          /\ UNCHANGED <<inputVars, argVars, read, solveVars, solvers, halfway, interrupted>>
      BY <1>4 DEF OpenReference, Write
    <2>2. files'.csv = files.csv /\ UNCHANGED <<args, line, scratch>>
      BY <1>1, <2>1, ReferenceWritten, NoFileType DEF argVars, solveVars
    <2>3. WrittenSoFar'
      BY <2>1, <2>2 DEF RacelineInv, WrittenSoFar, CopiesReference, Csv, Rounded
    <2> QED BY <1>3, <2>1, <2>3, NoFileType DEF Writing
  <1>5. CASE CopyReference
    <2>1. /\ pc = "reference rows" /\ pc' = "sidecar"
          /\ files' = [files EXCEPT !.reference = scratch]
          /\ UNCHANGED <<inputVars, argVars, read, solveVars, solvers, halfway, interrupted>>
      BY <1>5 DEF CopyReference, Write
    <2>2. /\ files'.csv = files.csv /\ files'.reference = scratch
          /\ UNCHANGED <<args, line, scratch>>
      BY <1>1, <2>1, ReferenceWritten DEF argVars, solveVars
    <2>3. WrittenSoFar'
      BY <2>1, <2>2 DEF RacelineInv, WrittenSoFar, CopiesReference, Csv, Rounded
    <2> QED BY <1>1, <1>3, <2>1, <2>3 DEF Writing
  <1> QED BY <1>4, <1>5

\* The sidecar is written of what the run knows and finds in the folder.
LEMMA ProvenanceDescribes ==
    ASSUME RacelineInv, pc = "sidecar"
    PROVE  LET doc == [SidecarText(files.sidecar[args.optimizer]) EXCEPT !.state = "torn"]
           IN doc \in Sidecars /\ Describes(doc, Rounded(line))
  <1> DEFINE doc == [Provenance EXCEPT !.state = "torn"]
  <1>1. /\ args \in Arguments /\ line \in RaceLines /\ seed \in RaceLines /\ files \in Folders
        /\ edition \in [Inputs -> Nat] /\ edited \in SUBSET Inputs
    BY DEF RacelineInv, RacelineTypes
  <1>2. RecordedReference = line.seed
    <2>1. line.seed = seed.name /\ stage = args.optimizer
      BY DEF RacelineInv, LineIsOfTheRun, Writing
    <2>2. CASE args.optimizer = "tum_mincurv_iqp"
      <3>1. seed = NoLine
        BY <2>2 DEF RacelineInv, SeedIsKept, Chosen, Solving, Writing
      <3>2. args.reference # "tum_mincurv_iqp"
        BY <2>2, RacelineAssumption
           DEF RacelineInv, SeedIsKept, HasRead, Chosen, Solving, Writing
      <3>3. RecordedReference = NoName
        BY <2>2, <3>2 DEF RecordedReference
      <3> QED BY <2>1, <3>1, <3>3, NoLineType
    <2>3. CASE args.optimizer = "tum_mintime" /\ args.reference = "tum_mincurv_iqp"
      <3>1. seed = files.csv["tum_mincurv_iqp"].line
        BY <2>3 DEF RacelineInv, SeedIsKept, Chosen, Solving, Writing
      <3>2. RecordedReference = files.csv["tum_mincurv_iqp"].line.name
        BY <2>3 DEF RecordedReference
      <3> QED BY <2>1, <3>1, <3>2
    <2>4. CASE args.optimizer = "tum_mintime" /\ args.reference = "reference"
      <3>1. seed = files.reference.line
        BY <2>4 DEF RacelineInv, SeedIsKept, Chosen, Solving, Writing
      <3>2. RecordedReference = files.reference.line.name
        BY <2>4 DEF RecordedReference
      <3> QED BY <2>1, <3>1, <3>2
    <2>5. CASE args.optimizer = "tum_mintime" /\ args.reference = NoReference
      <3>1. CopiesReference /\ args.reference # "tum_mincurv_iqp"
        BY <2>5, RacelineAssumption DEF CopiesReference
      <3>2. files.reference = scratch /\ seed = scratch.line
        BY <2>1, <2>5, <3>1
           DEF RacelineInv, SeedIsKept, WrittenSoFar, Chosen, Solving, Writing
      <3> QED BY <2>1, <2>5, <3>1, <3>2 DEF RecordedReference
    <2> QED BY <1>1, <2>2, <2>3, <2>4, <2>5, RacelineArgument DEF Optimizers
  <1>3. /\ Rounded(line) \in RaceLines /\ Rounded(line).seed = line.seed
        /\ Rounded(line).given = line.given /\ Rounded(line).solved = line.solved
        /\ Rounded(line).name \in Names /\ line.seed \in Names
    BY <1>1, RoundedLine DEF RaceLines
  <1>4. doc = [state |-> "torn", line |-> Rounded(line).name, reference |-> line.seed,
               inputs |-> edition, edited |-> edited]
    BY <1>2 DEF Provenance
  <1>5. doc \in Sidecars
    BY <1>1, <1>3, <1>4 DEF Sidecars
  <1>6. /\ \A i \in Inputs \ edited : edition[i] = line.given[i]
        /\ "tables" \notin edited => edition["tables"] = line.solved
    BY DEF RacelineInv, ReadAsItIs, LineIsOfTheRun, HasRead, Chosen, Solving, Writing
  <1>7. Describes(doc, Rounded(line))
    <2>1. /\ doc.line = Rounded(line).name /\ doc.reference = line.seed
          /\ doc.inputs = edition /\ doc.edited = edited
      BY <1>4
    <2> HIDE DEF doc
    <2> QED BY <1>3, <1>6, <2>1 DEF Describes
  <1> QED BY <1>5, <1>7 DEF SidecarText

LEMMA SidecarIsOpened == ASSUME RacelineInv, OpenSidecar PROVE RacelineInv'
  <1> DEFINE o == args.optimizer
             doc == [SidecarText(files.sidecar[o]) EXCEPT !.state = "torn"]
  <1>1. /\ pc = "sidecar" /\ pc' = "sidecar text"
        /\ UNCHANGED <<inputVars, argVars, read, solveVars, solvers, halfway, interrupted>>
        /\ files' = [files EXCEPT !.sidecar[o] = [SidecarText(@) EXCEPT !.state = "torn"]]
    BY DEF OpenSidecar, Write
  <1>2. args \in Arguments /\ o \in Optimizers /\ files \in Folders
    BY RacelineArgument DEF RacelineInv, RacelineTypes
  <1>3. doc \in Sidecars /\ Describes(doc, Rounded(line))
    BY <1>1, ProvenanceDescribes
  <1>4. files' = [files EXCEPT !.sidecar[o] = doc]
    BY <1>1, <1>2 DEF Folders
  <1> HIDE DEF doc
  <1>5. /\ files' \in Folders /\ files'.sidecar[o] = doc
        /\ \A p \in Optimizers : p # o => files'.sidecar[p] = files.sidecar[p]
        /\ files'.csv = files.csv /\ files'.reference = files.reference
    BY <1>2, <1>3, <1>4, SidecarWritten
  <1>6. /\ RacelineTypes' /\ ReadAsItIs' /\ SeedIsKept' /\ LineIsOfTheRun'
        /\ SolversAreWaitedFor'
    BY <1>1, <1>5, WriteKeeps DEF Writing
  <1>7. UNCHANGED <<args, line, scratch, halfway>>
    BY <1>1 DEF argVars, solveVars
  <1>8. WrittenSoFar'
    <2>1. Rounded(line)' = Rounded(line) /\ Csv(line)' = Csv(line)
      BY <1>7 DEF Rounded, Csv
    <2>2. files'.csv[o] = Csv(line) /\ (CopiesReference => files.reference = scratch)
      BY <1>1, <1>5 DEF RacelineInv, WrittenSoFar
    <2>3. Describes(files'.sidecar[args'.optimizer], Rounded(line)')
      BY <1>3, <1>5, <1>7, <2>1
    <2> QED BY <1>1, <1>5, <1>7, <2>1, <2>2, <2>3 DEF WrittenSoFar, CopiesReference, Describes
  <1>9. SidecarIsOfItsLine'
    BY <1>1, <1>5, <1>7, OthersKept DEF Writing
  <1>10. PublishedLineIsSound'
    BY <1>5 DEF RacelineInv, PublishedLineIsSound
  <1> QED BY <1>6, <1>8, <1>9, <1>10 DEF RacelineInv

\* The last write makes the two files whole that describe each other.
LEMMA SidecarIsWritten == ASSUME RacelineInv, WriteSidecar PROVE RacelineInv'
  <1> DEFINE o == args.optimizer
             doc == [files.sidecar[o] EXCEPT !.state = "whole"]
  <1>1. /\ pc = "sidecar text" /\ pc' = "ended" /\ halfway' = halfway \ {o}
        /\ UNCHANGED <<edition, edited, args, runs, solvers, interrupted>>
        /\ files' = [files EXCEPT !.sidecar[o].state = "whole"]
        /\ read' = [i \in Inputs |-> 0] /\ tables' = 0 /\ stage' = "none"
        /\ line' = NoLine /\ seed' = NoLine /\ scratch' = NoFile
    BY DEF WriteSidecar, End, inputVars, argVars
  <1>2. args \in Arguments /\ o \in Optimizers /\ files \in Folders /\ line \in RaceLines
    BY RacelineArgument DEF RacelineInv, RacelineTypes
  <1>3. /\ doc \in Sidecars /\ doc.state = "whole"
        /\ doc.line = files.sidecar[o].line /\ doc.reference = files.sidecar[o].reference
        /\ doc.inputs = files.sidecar[o].inputs /\ doc.edited = files.sidecar[o].edited
    <2>1. files.sidecar[o] \in Sidecars
      BY <1>2, FolderHas
    <2> QED BY <2>1 DEF Sidecars
  <1>4. files' = [files EXCEPT !.sidecar[o] = doc]
    BY <1>1, <1>2 DEF Folders
  <1> HIDE DEF doc
  <1>5. /\ files' \in Folders /\ files'.sidecar[o] = doc
        /\ \A p \in Optimizers : p # o => files'.sidecar[p] = files.sidecar[p]
        /\ files'.csv = files.csv /\ files'.reference = files.reference
    BY <1>2, <1>3, <1>4, SidecarWritten
  <1>6. [i \in Inputs |-> 0] \in [Inputs -> Nat] /\ 0 \in Nat
    OBVIOUS
  <1>7. RacelineTypes'
    BY <1>1, <1>5, <1>6, NoLineType, NoFileType DEF RacelineInv, RacelineTypes
  <1>8. ReadAsItIs' /\ SeedIsKept' /\ LineIsOfTheRun' /\ WrittenSoFar'
    BY <1>1 DEF ReadAsItIs, SeedIsKept, LineIsOfTheRun, WrittenSoFar, HasRead, Chosen,
           Solving, Writing
  <1>9. SolversAreWaitedFor'
    BY <1>1 DEF RacelineInv, SolversAreWaitedFor
  <1>10. PublishedLineIsSound'
    BY <1>5 DEF RacelineInv, PublishedLineIsSound
  <1>11. /\ files'.csv[o].state = "whole" /\ files'.csv[o].line = Rounded(line)
         /\ Describes(files.sidecar[o], Rounded(line))
    <2>1. files.csv[o] = Csv(line) /\ Describes(files.sidecar[o], Rounded(line))
      BY <1>1 DEF RacelineInv, WrittenSoFar
    <2> QED BY <1>2, <1>5, <2>1, RoundedLine
  <1>12. SidecarIsOfItsLine
    BY DEF RacelineInv
  <1>13. ASSUME NEW p \in Optimizers \ halfway'
         PROVE  /\ files'.csv[p].state = files'.sidecar[p].state
                /\ files'.sidecar[p].state = "whole" =>
                      Describes(files'.sidecar[p], files'.csv[p].line)
    <2>1. CASE p = o
      BY <1>3, <1>5, <1>11, <2>1 DEF Describes
    <2>2. CASE p # o
      <3>1. p \in Optimizers \ halfway /\ ~AmongWrites(p)
        BY <1>1, <1>13, <2>2 DEF AmongWrites
      <3>2. files'.csv[p] = files.csv[p] /\ files'.sidecar[p] = files.sidecar[p]
        BY <1>5, <2>2
      <3> QED BY <1>12, <3>1, <3>2 DEF SidecarIsOfItsLine, Describes
    <2> QED BY <2>1, <2>2
  <1>14. SidecarIsOfItsLine'
    BY <1>13 DEF SidecarIsOfItsLine, Describes
  <1> QED BY <1>7, <1>8, <1>9, <1>10, <1>14 DEF RacelineInv

LEMMA RacelineStep == ASSUME RacelineInv, [RacelineNext]_racelineVars PROVE RacelineInv'
  <1>1. CASE Step
    <2>1. CASE Usage
      BY <2>1, RunFails DEF Usage, Writing
    <2> QED BY <1>1, <2>1, InputsAreRead, StageIsChosen, TablesAreCopied, SolverIsCalled,
               ReferenceIsReadBack, LineIsJudged, CsvIsWritten, ReferenceIsCopied,
               SidecarIsOpened, SidecarIsWritten, RunIsInterrupted DEF Step
  <1>2. CASE UNCHANGED racelineVars
    <2>1. UNCHANGED <<edition, files, runs, pc, args, read, tables, stage, pass, line, seed,
                      scratch, solvers, edited, halfway, interrupted>>
      BY <1>2 DEF racelineVars
    <2>2. RacelineTypes' /\ ReadAsItIs' /\ SolversAreWaitedFor'
      BY <2>1 DEF RacelineInv, RacelineTypes, ReadAsItIs, SolversAreWaitedFor
    <2>3. SeedIsKept' /\ LineIsOfTheRun'
      BY <2>1 DEF RacelineInv, SeedIsKept, LineIsOfTheRun, CopiesReference
    <2>4. WrittenSoFar'
      BY <2>1 DEF RacelineInv, WrittenSoFar, CopiesReference
    <2>5. PublishedLineIsSound' /\ SidecarIsOfItsLine'
      BY <2>1 DEF RacelineInv, PublishedLineIsSound, SidecarIsOfItsLine, AmongWrites
    <2> QED BY <2>2, <2>3, <2>4, <2>5 DEF RacelineInv
  <1> QED BY <1>1, <1>2, RunStarts, SolverEnds, LineIsFound, RunIsInterrupted, AnOrphanEnds,
             AnInputIsEdited DEF RacelineNext

\* Whatever is killed, edited or fails to be written, and however often the runner is
\* run: no line that is at fault is published, a sidecar is of the line beside it, and
\* two solvers are at work only after an interrupt.
THEOREM LeftInOrderHolds == RacelineSpec => []LeftInOrder
  <1>1. RacelineInv => LeftInOrder
    <2>1. SolversAreWaitedFor => OneSolver
      BY DEF SolversAreWaitedFor, OneSolver
    <2> QED BY <2>1 DEF RacelineInv, LeftInOrder
  <1> QED BY <1>1, RacelineStarts, RacelineStep, PTL DEF RacelineSpec

=============================================================================
