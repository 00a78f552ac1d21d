---- MODULE GymBackend ----
(***************************************************************************)
(* racing_sim_gym_jax below its clock (GymSim): the scenario file that      *)
(* becomes an environment, the environment that is compiled before the run  *)
(* and reset within it, and the seeded noise of what the node publishes.    *)
(*                                                                          *)
(* Abstractions: a random stream is its seed and how much was drawn from    *)
(* it; a physics state is all that it came from, and so is a dead-reckoned  *)
(* pose; steering goes the way of speed and is left out.  A step and a      *)
(* publication without one come in any order: GymSim says when.             *)
(***************************************************************************)
EXTENDS Integers, Sequences

CONSTANTS
    Documents,    \* scenario files
    GymSeeds,     \* the seed parameter and ~/reset's
    Drives,       \* commands: [speed, acceleration]
    MaxRun        \* bound: publications, and commands, of a run

None == -1

VARIABLES
    document,     \* what is found at scenario_path
    phase,        \* "starting", "running" or "failed"
    compiled,     \* the signatures JAX has compiled: <<function, argument>>
    sim,          \* the node and its backend, as far as a run depends on it
    twin,         \* history: a node launched anew, in place of the last reset
    published,    \* publications and commands so far, for the bound
    commanded

backendVars ==
    <<document, phase, compiled, sim, twin, published, commanded>>

----------------------------------------------------------------------------

(***************************************************************************)
(* scenario.py                                                             *)
(***************************************************************************)

Rewards == {"alive", "progress", "time"}

\* _noise
NoiseLoads(d) ==
    /\ \A magnitude \in DOMAIN d.noise : d.noise[magnitude] >= 0
    /\ d.noise.dropout <= 1

\* load_scenario
ScenarioLoads(d) ==
    /\ d.wellFormed
    /\ d.rewards # {} /\ d.rewards \subseteq Rewards
    /\ d.longitudinal \in {"acceleration", "velocity"}
    /\ d.steering \in {"steeringangle", "steeringvelocity"}
    /\ d.version = "v0"
    /\ d.numAgents >= 1
    /\ d.ratio # None => d.ratio >= 1
    /\ d.maxSteps # None => d.maxSteps >= 1
    /\ NoiseLoads(d)

TimestepRatio(d) == IF d.ratio = None THEN 1 ELSE d.ratio

\* Mutant of HasEnvId: max_steps takes the place of the ratio.
MutantHasEnvId(d) == TRUE

HasEnvId(d) == d.maxSteps # None => d.ratio # None

\* env_id: the fields, of which upstream's registry tells the optional ones by
\* their position.
EnvId(d) ==
    <<"map", d.numAgents, "scan", "collision", d.rewards,
      <<d.longitudinal, d.steering>>>>
    \o (IF d.ratio = None THEN <<>> ELSE <<d.ratio>>)
    \o (IF d.maxSteps = None THEN <<>> ELSE <<d.maxSteps>>)
    \o <<d.version>>

\* f1tenth_gym_jax.make of an id
Made(id) ==
    [longitudinal |-> id[6][1],
     ratio |-> IF Len(id) >= 8 THEN id[7] ELSE 1,
     maxSteps |-> IF Len(id) = 9 THEN id[8] ELSE None]

----------------------------------------------------------------------------

(***************************************************************************)
(* The environment                                                         *)
(***************************************************************************)

\* f1tenth_gym_jax: reset of a key, and step_env of a state.
EnvReset(key) == <<key>>

EnvStep(state, key, action) == Append(state, <<key, action>>)

StateKind(state) == IF Len(state) = 1 THEN "reset" ELSE "stepped"

Speed(state) == IF Len(state) = 1 THEN 0 ELSE state[Len(state)][2]

\* JAX keys: PRNGKey, and split.
Key(seed) == <<seed, 0>>
Split(key) == <<key[1], key[2] + 1>>

\* _action, by the EnvActionSpec of the scenario
Action(command) ==
    IF document.longitudinal = "velocity" THEN command.speed
    ELSE command.acceleration

----------------------------------------------------------------------------

(***************************************************************************)
(* noise.py and imu.py                                                     *)
(***************************************************************************)

\* A child of SeedSequence(seed).
Rng(seed, child) == [seed |-> seed, child |-> child, drawn |-> 0]

Drawn(rng, n) == [rng EXCEPT !.drawn = @ + n]

\* draw_calibration: once per run
CalibrationDraws == 2

\* draw_bias: of zero magnitudes nothing is drawn.
BiasDraws == IF document.noise.bias = 0 THEN 0 ELSE 4

\* from_seed: the streams, and the run's calibration and bias from them.
FromSeed(seed) ==
    [scan |-> Rng(seed, "scan"),
     odometry |-> Drawn(Rng(seed, "odometry"), CalibrationDraws),
     imu |-> Drawn(Rng(seed, "imu"), BiasDraws),
     calibration |-> Rng(seed, "odometry"),
     bias |-> Rng(seed, "imu")]

\* body_frame_delta of two states, as integrate_noisy_odometry uses it
Moved(from, to) == from # to /\ Speed(to) # 0

\* integrate_noisy_odometry: a distance is only drawn for if there is one, a
\* yaw always.
Integrated(pose, from, to, rng, calibration) ==
    IF Moved(from, to) THEN Append(pose, <<from, to, rng, calibration>>)
    ELSE pose

OdometryDraws(from, to) == IF Moved(from, to) THEN 2 ELSE 1

\* apply_scan_noise: the range errors and the dropouts, whatever their size
ScanDraws == 2

\* apply_imu_noise: of a zero sigma nothing is drawn.
ImuDraws ==
    (IF document.noise.gyro > 0 THEN 1 ELSE 0)
    + (IF document.noise.accel > 0 THEN 3 ELSE 0)

\* body_acceleration, along the car
BodyAcceleration(previous, speed) ==
    IF previous = None THEN 0 ELSE speed - previous

----------------------------------------------------------------------------

(***************************************************************************)
(* The backend and the node, of which `s` is what they hold                *)
(***************************************************************************)

\* A node that has not built its backend.
Unbuilt == [built |-> FALSE]

\* GymBackend.__init__, before _warm
Built(command) ==
    [built |-> TRUE, command |-> command, key |-> <<>>, state |-> <<>>,
     laser |-> <<>>, noise |-> <<>>, previousSpeed |-> None, truth |-> <<>>,
     odometry |-> <<>>, sent |-> <<>>]

\* GymBackend.reset
BackendReset(s, seed) ==
    LET state == EnvReset(Key(seed))
    IN [s EXCEPT !.key = Key(seed), !.state = state, !.laser = state]

\* GymBackend.step
BackendStep(s) ==
    LET state == EnvStep(s.state, s.key, Action(s.command))
    IN [s EXCEPT !.key = Split(s.key), !.state = state, !.laser = state]

\* GymBackend.snapshot
Snapshot(s) ==
    [pose |-> s.state, speed |-> Speed(s.state), laser |-> s.laser]

\* Mutant of ResetNoise: the streams are seeded once.
MutantResetNoise(s, seed) ==
    [s EXCEPT !.noise = IF s.noise = <<>> THEN FromSeed(seed) ELSE @,
              !.previousSpeed = None,
              !.truth = Snapshot(s).pose,
              !.odometry = <<Snapshot(s).pose>>]

\* _reset_noise
ResetNoise(s, seed) ==
    [s EXCEPT !.noise = FromSeed(seed),
              !.previousSpeed = None,
              !.truth = Snapshot(s).pose,
              !.odometry = <<Snapshot(s).pose>>]

\* _advance_dead_reckoning
Reckoned(s, pose) ==
    [s EXCEPT !.odometry = Integrated(s.odometry, s.truth, pose,
                                      s.noise.odometry, s.noise.calibration),
              !.noise.odometry = Drawn(@, OdometryDraws(s.truth, pose)),
              !.truth = pose]

\* _publish, but for the clock
PublishSnapshot(s) ==
    LET snapshot == Snapshot(s)
        r == Reckoned(s, snapshot.pose)
        acceleration == BodyAcceleration(s.previousSpeed, snapshot.speed)
    IN [r EXCEPT !.sent =
                    [truth |-> snapshot.pose,
                     scan |-> <<snapshot.laser, s.noise.scan>>,
                     odometry |-> <<r.odometry, snapshot.speed>>,
                     imu |-> <<acceleration, s.noise.imu, s.noise.bias>>],
                 !.noise.scan = Drawn(@, ScanDraws),
                 !.noise.imu = Drawn(@, ImuDraws),
                 !.previousSpeed = snapshot.speed]

\* A node launched with a seed.
Launched(command, seed) ==
    ResetNoise(BackendReset(Built(command), seed), seed)

----------------------------------------------------------------------------

(***************************************************************************)
(* The run                                                                 *)
(***************************************************************************)

BackendInit ==
    /\ document \in Documents
    /\ phase = "starting"
    /\ compiled = {}
    /\ sim = Unbuilt
    /\ twin = Unbuilt
    /\ published = 0
    /\ commanded = 0

ResetCalls == {<<"reset", "key">>, <<"cast", "reset">>}

StepCalls(state) == {<<"step", StateKind(state)>>, <<"cast", "stepped">>}

\* Mutant of Warm: one step.
MutantWarm(seed, action) ==
    ResetCalls \cup StepCalls(EnvReset(Key(seed)))

\* _warm: a reset, a step of what it left, a step of what that left, a reset.
Warm(seed, action) ==
    LET first == EnvReset(Key(seed))
        second == EnvStep(first, Key(seed), action)
    IN ResetCalls \cup StepCalls(first) \cup StepCalls(second)

\* RacingSimNode.__init__ of a scenario that does not load or has no env_id.
StartFails ==
    /\ phase = "starting"
    /\ ~(ScenarioLoads(document) /\ HasEnvId(document))
    /\ phase' = "failed"
    /\ UNCHANGED <<document, compiled, sim, twin, published, commanded>>

\* DriveCommand's defaults
Standstill == [speed |-> 0, acceleration |-> 0]

\* RacingSimNode.__init__
StartRuns(seed) ==
    /\ phase = "starting"
    /\ ScenarioLoads(document) /\ HasEnvId(document)
    /\ phase' = "running"
    /\ compiled' = compiled \cup Warm(seed, Action(Standstill))
    /\ sim' = Launched(Standstill, seed)
    /\ UNCHANGED <<document, twin, published, commanded>>

\* Both nodes do what is asked of one.
Both(Do(_)) ==
    /\ phase = "running"
    /\ sim' = Do(sim)
    /\ twin' = IF twin.built THEN Do(twin) ELSE twin
    /\ UNCHANGED <<document, phase>>

\* set_command, by _on_drive
Command(command) ==
    /\ commanded < MaxRun
    /\ commanded' = commanded + 1
    /\ LET Given(s) == [s EXCEPT !.command = command] IN Both(Given)
    /\ UNCHANGED <<compiled, published>>

\* _step
StepBackend ==
    /\ published < MaxRun
    /\ published' = published + 1
    /\ LET Do(s) == PublishSnapshot(BackendStep(s)) IN Both(Do)
    /\ compiled' = compiled \cup StepCalls(sim.state)
    /\ UNCHANGED commanded

\* _on_timer of a frozen node
Republish ==
    /\ published < MaxRun
    /\ published' = published + 1
    /\ Both(PublishSnapshot)
    /\ UNCHANGED <<compiled, commanded>>

\* _on_reset, and in its place the launch of another node, given the standing
\* command.
ResetRun(seed) ==
    /\ phase = "running"
    /\ published < MaxRun
    /\ published' = published + 1
    /\ sim' = PublishSnapshot(ResetNoise(BackendReset(sim, seed), seed))
    /\ twin' = PublishSnapshot(Launched(sim.command, seed))
    /\ compiled' = compiled \cup ResetCalls
    /\ UNCHANGED <<document, phase, commanded>>

BackendNext ==
    \/ StartFails
    \/ \E seed \in GymSeeds : StartRuns(seed) \/ ResetRun(seed)
    \/ \E command \in Drives : Command(command)
    \/ StepBackend
    \/ Republish

BackendSpec == BackendInit /\ [][BackendNext]_backendVars

----------------------------------------------------------------------------

(***************************************************************************)
(* Properties                                                              *)
(***************************************************************************)

\* No call of a run that has started is the first with its signature: one
\* stalls the loop past the supervisor's timeout and latches a stop
\* (backend.py, _warm).
RunNeverCompiles == [][phase = "running" => compiled' = compiled]_backendVars

\* After ~/reset the node is one launched with that seed and given the command
\* that stood, in everything it holds and sends but the clock, however long it
\* ran before and whatever follows: no stream, bias, pose or speed of the run
\* before is left (noise.py, "a seeded run stays reproducible"; _reset_noise).
ResetReplays == twin.built => sim = twin

\* The environment that was made steps as far as the node's clock does, and is
\* driven by the action the node sends (env_id, control_period).
EnvIsScenario ==
    phase = "running" =>
        LET env == Made(EnvId(document))
        IN /\ env.ratio = TimestepRatio(document)
           /\ env.maxSteps = document.maxSteps
           /\ env.longitudinal = document.longitudinal

\* The node is what its scenario and its seed make it, from its launch on and
\* from every reset on.
NodeIsItsScenario == ResetReplays /\ EnvIsScenario

====
