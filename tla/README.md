# A TLA+ model of GR-roboracer

GR-roboracer is an autonomous racing stack on ROS 2: a simulator (or a bridge to
one), a controller, a safety supervisor between the controller and the vehicle,
and nodes that watch a run and judge it. The nodes are separate processes; they
exchange messages over topics of bounded depth, some reliable and some best
effort, and they do not share a clock. What can go wrong is rarely inside one
callback: it is in the order of callbacks, in how late one runs, in which of two
clocks a timeout is measured on, and in which message a decision was made from.
That is what these modules model, what TLC checks on small instances, and what
TLAPS proves for every value of the constants.

Paths below are relative to `src/ros_ws/src/` unless they begin with `src/`.

## The system

| Component | State | Operations | Talks to |
|---|---|---|---|
| `racing_sim_gym_jax` (node.py, clock.py, backend.py) | simulated time, last stamp published, held, stepped, answered, deferred, standing command | timer, `/drive`, `~/reset`, `~/step_mode` | publishes `/clock`, `/odom`, `/scan`, ground truth; hears `/drive` |
| `racing_safety_supervisor` (supervisor.cpp, node.cpp) | last command and when it came, last pose, the latched stop, heartbeat | command and odometry callbacks, two services, a control timer on the ROS clock | hears `/controller/drive`; publishes `/drive` and `~/safety_status`; `~/clock_received` |
| `racing_controller_baseline` (node.cpp, pure_pursuit.cpp) | last state, trajectory | answers every `/odom` once it has a trajectory | `/odom` to `/controller/drive` |
| `racing_metrics` (metrics_accumulator.cpp, node.cpp) | distance, laps, samples, the report | state, scan and status callbacks, `~/finalize`, one report to a topic and a file | hears ground truth and the scan; called by the harness |
| test harness (`src/tests/lib/racing_test_keywords/scenario_runner.py`) | verdict of a run | waits for participants, releases the held sim, watches for hangs, finalizes | every node |
| `racing_sim_autodrive` (bridge.py, control.py, core.py, devkit.py and the two nodes) | reset handshake, odometry, throttle integral; frame assembler; stall watch; the process, its threads and its peer | one frame in, one reply out; `~/reset` from another thread; signals | the AutoDRIVE simulator, directly or through its devkit; replay.py and devkit_standin.py in their place |
| `racing_bringup` launch (sim_pure_pursuit.launch.py, scenario_parameters.py, estimators.py) | none | refuses a request or makes a graph of nodes and parameters | every node |
| `racing_bringup` support node (support_node.py) | latest truth and dead reckoning, the initial pose and whether the estimator has taken it | corrects map to odom, composes an estimator's pose, holds it back | tf, `/odom`, ground truth, `/initialpose` |
| `racing_evaluation` (localization.py, node.py) | aligner of estimates and truth, running error | estimates and truth in either order, live and offline | ground truth, the estimate |
| `racing_sim_gym_jax` below the clock (scenario.py, backend.py, noise.py, imu.py) | environment, compiled signatures, seeded noise streams | load, make, warm, reset, step, draw | the node above |
| `racing_recording` | an open file | one line per message, `~/flush` | every topic |
| `src/raceline` | files in `config/racelines`, a solver process | a run: solve, verify, write csv, reference, sidecar | the launch, which takes an optimized line by its sidecar |
| `src/scripts` (check.sh, changed_scope.py, nightly_regions.py, compare_localization.py) | a work tree, git, a recording | what has changed, what must run, is a run within its bounds | git, tests, CI |
| `racing_common`, `racing_sim_adapter`, `racing_interfaces` | none | Frenet geometry, constants, message types | linked by the others |
| `src/sim`, `src/tools`, the other scripts, the mesh scripts | none at run time | offline batch programs over files | files |

What is hard, and for which component, is the list of hazards in PROJECT.json,
each at the line where it bites. In short:

- *Which clock.* The supervisor measures staleness on the ROS clock and from the
  moment a command is handled; the simulator waits for answers on the wall clock;
  above real time the two part.
- *Which message.* `/drive` is stamped with the supervisor's clock, not with the
  state its command came from; a flag set by one `/drive` is used when another is
  the standing command.
- *Which order.* A timer and a subscription ready together run in either order; a
  reset or a mode switch runs between a step that was deferred and the callback
  that takes it.
- *Loss.* `/clock` is best effort and its reader is matched at any time; a
  scan, a frame or a message of one of thirteen topics may be missing.
- *Wrapping and repeating.* Track positions wrap, a held simulator repeats its
  instant, a car is put back.
- *Partial failure.* The report reaches the topic and not the disk; one of three files
  of a raceline is written and the process dies.
- *Waiting on each other.* The held simulator waits for the harness, which waits for
  the supervisor, which waits for the held simulator's clock. A pose is held back until
  an estimator has been told where it starts.
- *A world that moves on.* Three git commands describe a tree that is being worked in;
  an input is edited while a solver reads it; an estimator answers before it is told.
- *Ending.* A signal arrives inside a C call, in the middle of a frame, or before there
  is anything to stop.

What makes each component correct:

- Supervisor: a vehicle whose commander is silent, or which has been stopped, is
  not driven for longer than a known time; a stop blamed on the controller was
  the controller's; what is published is explained by its status.
- Simulator: time never goes back, a held sim does not move, the sim is never
  faster than its scale and never stalls, and above real time a step follows the
  answer to the last tick.
- Loop: a released run does not latch by itself, commands are fresh, the sim does
  not run away from the supervisor's clock, and a run ends.
- Metrics: distance, laps, samples and collisions agree with what the car did; one
  report, on disk.
- Bridge: after a reset nothing of the run before it is left; a reset asked for is
  sent once, and its level is let go.
- Assembler, aligner, correction: what is paired belongs together, and what is lost is
  counted.
- Front ends, nodes: a signal ends the process, the car is left at rest, a thread that
  is stuck is reported, and the exit code says what happened.
- Launch and support node: one source of map to odom, a clock somebody owns, and a pose
  of an untold start driven on only where the hold's distance test cannot tell it from
  a right one.
- Check, nightly, raceline, scoring: what changed is seen and run, every test has a
  job, a published line passed its checks and its sidecar is of it, and a run within
  its bounds was scored.

## Modules

| Module | Models | EXTENDS / INSTANCE |
|---|---|---|
| `SafetyGate` | what the supervisor promises: the abstract specification | |
| `Supervisor` | `racing_safety_supervisor`, every callback | `SafetyGate` by refinement |
| `GymSim` | the node and clock of `racing_sim_gym_jax`, every callback | |
| `DriveLoop` | simulator, controller, supervisor and harness, joined by queues | `SafetyGate` by refinement |
| `Metrics` | `racing_metrics`, every callback, and the accumulator | |
| `BridgeSession` | the reset of `racing_sim_autodrive`, through both front ends | |
| `FrameChannel` | a lossy channel of whole frames: the abstract specification | |
| `DevkitAssembler` | devkit.py's assembler, with the devkit and thirteen lossy topics | `FrameChannel` by refinement |
| `FrontEnd` | the two front-end processes, from start to exit, with their peers | |
| `Launch` | the checks of the launch and the graph it makes | |
| `Planar` | poses of the plane on a grid: compose, correct | |
| `Aligner` | the aligner, and the definition of what it should say | |
| `PoseGraph` | launch, simulator, support node, estimator and evaluator, joined | `Launch`, `Planar`, `Aligner` |
| `Rescore` | compare_localization.py and the offline half of localization.py | `Aligner` |
| `ChangedScope` | what a set of changed paths makes the check run | |
| `GitDir` | where git's directory is found | |
| `CheckRun` | a run of check.sh in a tree that is being worked in | `ChangedScope`, `GitDir` |
| `LineVerifier` | the checks an optimized line must pass | |
| `RacelineRun` | runs of `python -m raceline`, their solver and their files | `LineVerifier` |
| `Recorder` | `racing_recording`, every callback | |
| `Nightly` | the jobs of the nightly and the map of regions | |
| `GymBackend` | the simulator's scenario, environment and noise | |
| `NodeExit` | how a Python node ends | |
| `SupervisorProofs`, `GymSimProofs`, `DriveLoopProofs`, `MetricsProofs`, `BridgeSessionProofs` | the theorems about one module | the module, TLAPS |
| `FrontEndProofs` | the theorems about the front ends and about front end B's assembler | `FrontEnd`, `DevkitAssembler`, TLAPS |
| `PoseGraphProofs` | the theorems about the launch, the pose graph, the aligner and the offline score | `PoseGraph`, `Rescore`, TLAPS |
| `ToolsProofs` | the theorems about the other modules of `MCTools` | those modules, TLAPS |
| `MCSupervisor`, `MCGymSim`, `MCDriveLoop`, `MCMetrics`, `MCBridgeSession`, `MCDevkitAssembler`, `MCFrontEnd`, `MCPoseGraph`, `MCTools` | the instances TLC checks | the module; `MCTools` the last nine, from `Rescore` to `NodeExit` |

Each callback of a single-threaded executor is one action, since nothing runs
between its lines. Variables keep the names of the members they stand for
(`received_at_` is `receivedAt`, `_answered` is `answered`); variables marked
"history" in a module record the past for a property, and no guard reads them
except to bound the run. `Mutant...` operators are faulty variants of the definition that follows them: with
one of them in its place, TLC finds the property it is listed with violated.

**Supervisor.** The command queue, the last command, the last pose's one relevant
bit, the latch, the timer's next call and the standing `/drive`. `Evaluate` is
`Supervisor::evaluate` followed by the node's publication, in the source's order of
tests: stale, latched, off the track, pass. `Tick` advances time by one, no further
than `MaxLag` past a due timer or an unhandled message: that is the executor being
late. A clear re-arms the time of the last command, as the code does. NaN is a
value of its own: `std::clamp` returns it, so it passes, with its clamp bit set.

**GymSim.** Simulated time in ticks, wall time in units of which a tick at real time
has `ControlPeriod`, the timer's own period below that when the scale is above one.
The timer either steps, or is frozen (held or STEPPED) and repeats its snapshot, or
defers the step to the `/drive` that answers. A commander may not be there yet, be
there, or have gone; while it is unknown to discovery the sim does not wait for it.

**DriveLoop.** A command is the tick of the state it was computed from: its basis.
`drive` carries the supervisor's stamp and the basis, and the difference between
the two is what the properties are about. `Responsive` says that what is in flight
arrives within a tick of wall time; without it messages take any time and `/clock`
is lost at will. `Release` is the harness's: it needs `heard`, which is
`~/clock_received`. In `Publish`, an unmatched reader misses the clock.

**Metrics.** The accumulator over integer positions and times, and the node's guards
around it; the car is part of the model (`Drive`, `PutBack`), since what the
accumulator must be right about is what the car did (`sampledAt`, `highest`). A report is
published whole (`Summary`) and written without its lap figures (`ToJson`). A
stamp that goes back ends the process (`RejectState`), as the exception in the
callback does.

**BridgeSession.** The AutoDRIVE simulator knows no reset but a True level in a reply, and
shows one only by its lap clock and encoders falling back, some frames later.
`HandleFrame` is `on_sim_frame` with its caller: the wait for a reset (`Fired`),
odometry and the throttle integral (`Estimated`), the level read and cleared
(`TakeLevel`), and then the reply of front end A or the hold of front end B
(`HoldReset`). A is in lock-step; between B and the simulator stands the official devkit,
which answers at once with the level it was last told, so frames and levels are in
flight (`frames`, `commands`). `RequestReset` is the service, on a thread of its own.
The simulator (`SimResets`, `SimRuns`) is external and modelled from the recorded
fixture as bridge.py describes it: it resets some frames after a True, stays in
reset while the level is held, and its lap clock under reset is one frame's duration,
so it rises or not from frame to frame. Odometry and integral are two bits: whether
anything in them is of before the car was last put back.

**DevkitAssembler.** The devkit publishes a burst of one message to each topic; a topic
keeps its order and may lose any message, and two topics are not ordered with each
other, though one is at most `Ahead` messages in front. `Offer` is `_offer` with all it
calls: a sequence that goes back starts again (`_resync`), before the sync the queue
heads are aligned to a burst by their source stamps (`_learn`), after it a gap is a loss
(`_lose`) and complete frames leave in order (`_drain`). The refinement to `FrameChannel`
says that what comes out is whole frames, each once, in order.

**FrontEnd.** Front end A answers from one gevent hub, which also runs the watch and the
signals; front end B hears the devkit on a thread of its own, watches on the main one,
and on a signal waits for the thread, tells the devkit zeros and exits. A frame is how
its decoding ends: `whole`, `bare` (nothing the session needs), `malformed` (a
`FrameError`), `garbled` (an exception that is none) or `beam` (a scan of one beam).
Time is in periods of the watch.

**Launch, PoseGraph.** A request is what the launch arguments and the files they name hold;
`Checks` is the list of refusals in the source's order, `Graph` the nodes and parameters.
In the graph the simulator publishes truth and dead reckoning for one instant on two
topics, a reset moves the car and starts both again, and the support node pairs them by
stamp (`PublishCorrection`) or composes what an estimator says (`PublishComposed`), held until
what is composed is within a radius of the start pose. That test is the code's, a distance
and nothing else (`AtStartPose`): an untold MOLA takes the car to start `untold` steps from
where it does, and what is composed of that (`SaidAt`) may be inside the radius. Poses are
composed on a grid (`Planar`) for the correction: an error of pairing or of order shows,
rounding does not. The estimator is external: it says nothing, then a pose in the frame of
an untold start, then the right one. The worlds are those of the scenario files: the gym has
no map of some (`GymMaps`), and of some no occupancy grid was surveyed (`Grids`). The launch
looks at neither; in the graph the gym then has no world to run, or AMCL joins no frames.

**CheckRun.** The tree is, for each path, the content in the base, the index and on the
disk; the three git questions are three steps, and between any two of them another
process may write, remove, stage or unstage a path (`EditFile`, `Stage`, `Unstage`). `Located` is the search for a git
directory and its trust gate. What the answers select is computed as changed_scope.py
does, and what is owed is defined apart, by the closure of dependencies and by who
claims a case.

**RacelineRun.** One run after another into one folder; a run is solve, verify, write the
csv, the reference and the sidecar, and may be refused, killed, interrupted or fail at
each step, while its inputs are edited. The solver is a process of its own that outlives
its caller unless it is killed. A line is what it was computed from and which checks it
fails.

**GymBackend.** A random stream is its seed and how much was drawn from it; a physics
state is all that it came from. `twin` is a node launched with the seed of the last
reset, which is given everything the node is given from then on.

**Rescore, Recorder, Nightly, NodeExit.** The car drives along a line; a recording is two
lists of lines, each a stamp and a place, in the order they were written: a held
or STEPPED simulator repeats its stamp, and `poses` and `align` keep every repeat. They are sorted as
Python does, stably (`Ahead`), and of several estimates at a stamp an interpolation begins at
the last and ends at the first, as `bisect_left` finds them (`Interpolated`). The score is compared
with the definition of an error, over the lines of truth and not over its instants; a truth of one
stamp, however often, is refused. The recorder's
callbacks in any order, come with messages that end the node; the matrix of jobs is held against
every map of regions that is right or wrong in one way; and main of a Python node, with
one SIGINT at any moment of it.

## Runs

| Run | Question | Properties |
|---|---|---|
| `supervisor` | When may the vehicle be moving, how soon does a stop act, what does each output mean, is the node a safety gate? | `OrphanHorizon`, `StopTakesEffect`, `EarnedStaleStop`, `OutputExplained`, `ImplementsGate` |
| `gym_sim` | The simulator's clock, rate and answers at twice real time, under resets, mode switches and a commander that comes and goes | `RateBounded`, `ClockMonotone`, `AnsweredRun` |
| `gym_sim_stepped` | Does a STEPPED simulator hold? It does not | `SteppedHolds`, violated |
| `drive_loop` | At real time and in a responsive graph, does a released run latch by itself, and how old are its commands? | `RealTimeLoopFresh` |
| `drive_loop_fast` | Above real time, over a slow graph that loses messages: does the sim stay with the supervisor's clock, and does the run end? | `InStep`, `LoopImplementsGate`, `RunCompletes` |
| `metrics` | Distance, laps, samples and the report, with repeats, put-backs, failing writes and finalize calls at any time | `DistanceTrue`, `CountedOnce`, `ReportReliable` |
| `bridge_session` | The AutoDRIVE reset through both front ends, with a lost frame, a request on top of a request, a simulator that ignores one, and a shutdown | `FreshAfterReset`, `LevelsCovered`, `RequestReachesSim`, `HoldEnds` |
| `devkit_assembler` | Frames out of lossy topics, with a preempted publisher and a restarted devkit: whole, accounted for, and coming again | `FramesAccounted`, `StreamRecovers`, `ImplementsFrameChannel` |
| `devkit_lost` | Is a frame that lost a message always dropped and counted? It is not | `LostFrameIsDropped`, violated |
| `front_end` | A front end stopped at any moment of any kind of frame: is the car at rest, is a stuck thread reported, does a signal end it, and does the replay pass only what was answered? | `DevkitLeftAtRest`, `StuckIsReported`, `ReplayVerdict`, `SignalStops` |
| `pose_graph` | Which requests does the launch refuse, and in the graphs it makes, is an untold start driven on only if it was plausible, is the correction exact, and does the live score agree with an offline one? | `LaunchFailsClosed`, `CorrectionExact`, `NoPoseInWrongFrame`, `HoldEnds`, `ScoresAgree` |
| `tools` | Programs that leave a result others go by, each alone: may the result mislead? | `CheckMissesNothing`, `LeftInOrder`, `TimedRunEnds`, `FlushedIsOnDisk`, `NightlyIsWhole`, `RunNeverCompiles`, `NodeIsItsScenario`, `ScoringSound`, `CleanExit` |

Several of these are conjunctions of named parts, each with its own comment in the
module: `RateBounded`, `RealTimeLoopFresh`, `CountedOnce`, `ReportReliable`,
`LevelsCovered`, `CheckMissesNothing`, `LeftInOrder`, `NodeIsItsScenario`, `ScoringSound`.
The parts of `tools` share no state; they are explored in one run, each from its own
initial states.

**What the two violated properties say.**

- A step deferred before the switch to STEPPED is taken after it, by the next
  `/drive`: `_on_drive` does not look at `_frozen`, and `_on_step_mode` leaves
  `_step_deferred` set. The contract (ADAPT-2160) says a STEPPED backend does not
  advance on its own.
- What is queued when the assembler syncs goes into frames without a look at its
  sequence, and the last sequence heard is already past any gap in it. The frame of a
  message lost there is neither dropped nor counted: it waits until the backlog fills.

**What the code does not promise**, met while modelling. Each is left out of the runs
above by a named assumption or an exception in the property, and without it TLC shows
the behaviour.

- *Drive loop.* Above real time a command need not be the same age in every step, which
  test_clock.py:45-47 claims: a `/drive` answers a tick by its stamp, the supervisor's
  clock, though the command in it may be from the state before (`ages`).
- *Metrics.* A put-back of more than half the track is read as the rest of the lap, driven
  forward, and can complete it (`MaxJump`). The file is not the message: `to_json` writes no lap
  count and no lap times (metrics_accumulator.cpp:170-200), the topic has both (node.cpp:201-202),
  so that they are lost with it. The properties relate each of the two to what was counted.
- *Bridge.* A lap line crossed between Reset True and the reset is taken for the reset,
  since any frame whose lap clock has not risen is (`LapLine`; that the clock restarts at
  the line is presumed in the repository, not recorded). Through B, a reset asked for
  when the last one has been let go but its frames have not all arrived is taken as done
  by one of those (`Hasty`).
- *Assembler.* Three losses in the right places while learning (the next burst's first
  message and one other topic's in each of two bursts) make two bursts agree on wrong
  offsets (`MaxLosses` is 2).
- *Front ends.* bridge.py:237-239 says the simulator is never left waiting, but a
  `zlib.error`, the `int` of a NaN and a scan of one beam are no `FrameError`: the frame
  gets no reply from A, and ends B's thread.
- *Pose graph.* A held simulator that is reset with another seed puts the car elsewhere at
  the same stamp, and a correction may pair truth of one with dead reckoning of the other
  (`Reseeds`; the harness resets with the seed of the launch). The hold is "a plausibility
  gate, not proof" (support_node.py:62-66): an untold estimate passes it if the car is set
  down within `START_POSE_RADIUS` of where the estimate starts, or, open loop, once it has
  driven there, and from then on is driven on. `NoPoseInWrongFrame` says that this is the only way, not that there is
  none (`Plausible`; `UntoldStarts` has a start of each kind). An open-loop run whose estimator
  takes the start more than the radius of travel later stays held until the car is back.
- *Launch.* `simulator:=gym` with the Porto scenario is accepted, though the gym has no Porto map
  (porto.yaml:2-4, docs/configuration.md:206), and `pose_source:=amcl` with a scenario that has no
  occupancy grid is too: scenario_parameters.py:155-163 makes the grid's path and does not
  look there, as it does for MOLA's map. Such a graph is started and then lacks its world, or a
  source of map to odom. `LaunchFailsClosed` says that it lacks them in these cases (`Unchecked`) and in
  no other, and `HoldEnds` is of the graphs that lack neither.
- *Check.* A file that is staged after the index is compared and before the untracked
  files are listed is in no answer (`disturbed`). `--ready` and `--fast` ask git apart, and
  may see two trees.
- *Raceline.* A run that dies between the csv and the sidecar leaves a new csv, or a torn
  one, with the old sidecar, and the launch takes it (`halfway`). A NaN in a column other
  than the path's passes every comparison of that column's checks (verify.py). Ctrl-C
  leaves the solver running, in its own session, and the next run starts another
  (`interrupted`). Exit code 2 is the verifier's and argparse's.
- *Simulator backend.* Publications of a frozen simulator draw from the noise streams too,
  so that the noise of a seeded run depends on how long it was held; a reset keeps the
  standing command. `twin` is given the same publications and that command.
- *Recorder.* A message with a negative stamp, or a stream gone bad, throws out of the
  callback and ends the node; only a localization error has its non-finite numbers
  written as null, any other leaves a line JSON cannot read.
- *Nightly.* A job runs the cases of its IDs by name, so an equal name of two IDs would
  run twice; load_regions checks IDs only.

**Bounds, and why they are enough.**

- *supervisor*: timeout 3, period 2, lag 1, a queue of one, time up to 9. The
  timeout is longer than the period, as in the code (100 and 10 ms); the time is
  enough to go stale, be stopped, be cleared and go stale again. Three commands:
  within the limits, beyond them, not a number. The heartbeat wraps at 2.
- *gym_sim*: two wall units to a tick, one to a timer firing, lag 1, so that the
  timer can be a whole period behind; three ticks and four firings let a step be
  deferred, a reset or a switch come between, and two ticks follow. Queue of two.
- *drive_loop*: queues of two, timeout of two ticks (with one, the loop's own
  latency is stale and the property fails, as it should: the code's 100 ms are four
  ticks of 25), eight ticks. *drive_loop_fast*: the same with five ticks, since losses
  multiply the states.
- *metrics*: three positions, two laps, one position between samples, six instants,
  one failing write: the line is crossed in both directions, a lap is given back
  and driven again, and the second lap has just time to finish.
- *bridge_session*: two frames and one level in flight, a level heard after two frames
  at most (the repository measures a command lag of up to three frames, SIM-3710), a
  simulator that runs on for up to two frames before it resets, a wait of eight
  frames, which is longer than any of these together, as 120 are in the code; two
  requests and one lost frame. `LapLine` and `Hasty` are not sizes but assumptions (see
  above), and both are FALSE.
- *devkit_assembler*: four topics of the thirteen (the first, the two with a position, the
  lidar whose sequence is one behind), six bursts, a backlog of four, topics at most two
  messages apart, two losses, one burst with a preempted publisher, a restart at the
  fourth burst: learning takes two bursts, so that a loss falls before, during and after
  it, and a recovery follows. *devkit_lost* lets a topic be three apart.
- *front_end*: two frames, lockstep or paced by one period, a reply waited for two
  periods, a stall after one, a frame that takes up to five, a join of six: a frame is
  still in hand when a stall is due, when the peer has given up and when the front end is
  told to stop.
- *pose_graph*: requests that vary what one part of the launch looks at, with the rest at
  its defaults (924 of them, with a world the gym has no map of and two that have no grid); four instants,
  one reset, a window of two, a radius of one step, and an untold start three steps behind the true one,
  out of the radius until an open-loop car has come two steps, or one step ahead, within it.
- *tools*: nine files of every kind and every way two of them can be changed, one use of
  the tree meanwhile, each map and each set of manifests that is right or wrong in one
  way; two raceline runs and one edit; two messages in the recorder; seven maps of
  regions; every scenario file wrong in one way, and three draws; every recording with
  truth and estimates at any of five instants, the first sample of truth repeated up to five times
  more and one estimate said twice, differently, or with one stamp of truth only. What a second run, edit or message does
  to the first is what the properties relate.

Time, ticks, firings, bursts and runs are bounded, a bridge that is shut down handles no
frames and a program ends, so a run stops when they are used up: the configurations
say `CHECK_DEADLOCK FALSE`.

**Fairness** is assumed in `drive_loop_fast`, `bridge_session`, `front_end`, `pose_graph` and
`tools`.

*drive_loop_fast.* Weak fairness of every callback: an
executor keeps running what is ready. Weak fairness of `MatchClock`: discovery
completes. Strong fairness of `HandleClock`: the transport does not lose *every*
`/clock`, though it may lose any; the code assumes as much by waiting for
`~/clock_received` with the simulator held and publishing. `LoseClock` and
`HandleTrajectory` have none: a run ends even if no trajectory ever comes, since
above real time an unanswered tick is stepped past after a tick of wall time.

*bridge_session.* Weak fairness of `SimRuns`, `HandleFrame` and `DevkitHears`: frames
come and are handled, and a reliable topic delivers. Strong fairness of `SimResets(0)` and
`SimResets(1)`: the duration of a frame under reset keeps varying, as in the recording.
The code depends on it: B lets go of a level only when the lap clock rises, and while
the level is held nothing but that variation makes it rise. A request, a lost frame
and a shutdown need not happen.

*front_end.* Weak fairness of the main thread, the devkit thread, the watch, the peer and
time: none of them is suspended for ever. A frame takes at most `MaxHandling`, and no
signal has to come.

*pose_graph.* Weak fairness of the launch, of the simulator's timer, of the support
node's callbacks (one executor, reliable or repeated topics) and of the estimator: one
that is never told anything, or never converges, is not covered, as the code's hold has no
timeout either.

*tools.* Weak fairness of the raceline run's own steps and of its `--timeout`. The solver has
none: `TimedRunEnds` holds of a solver that hangs.

## Proofs

Every theorem is for all values of the constants that satisfy the module's named
assumption, and every step of every proof is checked. A hypothesis beyond that stands in
the theorem's own ASSUME and is named here. Of the safety properties of the runs that are
expected to hold, all but one are theorems too.

*Supervisor.* `TypeCorrect` first. `SafetyInvariant` is the inductive invariant behind
the timing properties. They speak of the standing `/drive`, which every callback but
the timer leaves alone, so none of them is inductive: the invariant ties the stamp of
that `/drive` to the timer (`TimerInv`), the time a command was received to the time
it was sent through its stay in the queue (`InboxInv`, `ReceiptInv`), a moving `/drive`
to what licensed it when it was published (`LicenceInv`) and a stop to the timer that
will carry it out (`StopInv`). `OrphanHorizonHolds`, `StopTakesEffectHolds` and
`EarnedStaleStopHolds` follow by arithmetic. `OutputExplainedHolds` rests on lemmas about
`ClampField`; `GateRefined` shows that every step is a step of `SafetyGate` or leaves it
alone.

*GymSim.* `RateBoundedHolds` is `NeverStallsHolds` and `NeverFasterThanScaleHolds` together.
`HeldAtZeroHolds` and `ClockMonotoneHolds` share the invariant that the stamp
published is never ahead of the counter; `NeverStallsHolds` needs that what has been
waited beyond a tick of wall time has been waited by a timer that is due;
`AnsweredRunHolds` needs the order of stamps in the queue, without which a later
command could be an older one.

*DriveLoop.* `LoopInvariant` orders the loop's clocks: what is in flight on `/clock` is the
sim's own tick, the supervisor's clock is never ahead of the sim, no `/drive` is
stamped ahead of the supervisor, an answered tick is one the supervisor has reached,
and no command is from a state not yet published. `InStepHolds` follows for any graph,
responsive or not: an answered step finds the supervisor's clock at the tick it
leaves, and every other step is counted. `LoopGateRefined` shows that the supervisor of
the loop is the safety gate whatever the transport loses. `RealTimeLoopFreshHolds` is of
real time (`~Faster`), a responsive graph and a staleness timeout of two ticks or more.
Freshness is a fact about moments in which nothing is in flight, and the steps that break
it are those before such a moment; its invariant `FreshInv` therefore says of each hop
how old what it holds may be while the hop before it still has a message
(`ClockInStep`, `StateInStep`, `CommandInStep`, `HeardInStep`, `AppliedInStep`). With a
timeout of one tick it is false, and TLC shows it.

*Metrics.* `ReportsAccountedHolds`, `PublishedIsOnDiskHolds` and `CompletionReportedHolds`
are one inductive invariant about the report, and `ReportReliableHolds` is the three
together: once the report counts, the topic holds one message that says what is counted,
the file one record that is `ToJson` of the same, and nothing is counted after it. `OneSamplePerInstantHolds` needs that a living node's stamps only grow.
`DistanceTrueHolds` assumes that the car comes less than half the track between two
samples, in either direction, which is exactly what a longer put-back breaks.
`CollisionsInClearanceHolds` relates an edge count to a minimum. `CountedOnceHolds` has
`LapInv`: the laps are those of the greatest distance, no lap is empty, and the lap times
add up to the last crossing. That last part is about a recursive sum, whose existence the
provers do not see; `TimesAddUp` carries it as "there is such a sum, and every such
function ends at the last crossing", which one more lap time extends.

*BridgeSession.* `SessionInvariant` adds to the types that front end A has nothing to hold,
without which a level would age for ever in lock-step. `HoldCoveredHolds` is the safety half
of "the devkit is let go", and holds with `LapLine` and `Hasty` too; so does
`OneTruePerRequestHolds`; `LevelsCoveredHolds` is the two together. `FreshAfterResetHolds`
assumes neither a lap line crossed in the wrong moment (`~LapLine`) nor a request while the
last one's frames arrive (`~Hasty`), both described above, and that the wait covers what is
in flight: `Depth + CommandLag + MaxReact <= ResetWait`. The code's RESET_WAIT_FRAMES is
120 for a measured lag of three frames; with a wait one frame shorter than the bound TLC finds
the property violated. The invariant, `WaitInv`, follows the reset on its way: it is still
coming, with frames to spare (`Coming`), or it has happened and the frame that shows it is in
the queue before the wait ends (`JumpInTime`), or nothing of it is left to be seen (`Calm`).

*FrontEnd.* `TypeOKHolds`. `ReplayVerdictHolds` counts: a frame sent is in one place, on its way,
in hand, or answered (`Accounted`). `DevkitLeftAtRestHolds` assumes that no frame takes longer
to handle than B waits for its thread (`MaxHandling < JoinTimeout`; the code joins with a
timeout and goes on), and says where the thread is in every phase of the ending
(`ThreadWaited`), that zeros are the last thing told (`ZerosLast`), and that before there is a devkit
nothing has been told it (`NothingYet`). `StuckIsReportedHolds` needs no such hypothesis: it
relates how long a frame has been in hand to the silence the watch has counted, one period at
most apart (`HandCounted`).

*DevkitAssembler.* One offer is a chain of operators on the assembler's record, so the
inductive invariant is a predicate of such a record, `Sound`, and each operator has a lemma
that says it keeps it: a queued message, a trimmed queue, a turn of the learner, a sync, a gap,
a drain, a start from nothing. `AssemblerSound` is `Sound` of the state. It says that learning holds
queues and sync holds frames; that queues are in order and that the first topic's has no gap; that all
that is held is later than what was given, and of one devkit; that each topic's last sequence
is the one it has come to; and, above all, that the offsets learned are those of a whole burst
(`OffsetsSound`), which is what makes a frame by numbers a frame of one burst. That
they are is an argument about stamps: a burst spread wider than its next one's beginning is
preempted, and one that is closed has its own message at the head of every queue. The learner's
loop is a recursive function over turns; what each turn keeps, all of them keep
(`Repeated`). `ChannelImplemented` is the refinement, under one hypothesis on the transport
(`LosesWell`): a topic that has heard the old devkit hears the first message of a restarted one,
and no message of the first topic is lost while the learner has others of it queued. Apart from
that any number of messages may be lost, topics be any number of messages apart, and bursts be
preempted. `FramesAreAccounted` adds `AssemblerWhole`: queues end at their topic's last message and
have no gap, a frame that a topic has not come to waits or is given up, and the frames from the
sync on that no longer wait are, as a set, as many as were given and counted (`FramesWhole`). Its
hypothesis, `LosesUnqueued`, is that no message is lost while its topic has others queued: in sync
no topic has, so there any loss is allowed. What the two hypotheses exclude is not
hypothetical. A queue with a hole can make two bursts agree on wrong offsets, and a restart nobody hears
of leaves old offsets on new numbers; TLC shows both when losses are unbounded. The runs, which
assume neither, bound the losses instead.

*Launch, PoseGraph.* `AcceptedIsSound` is about the launch alone: every request that passes all
fifteen checks becomes a graph with one source of map to odom, a clock somebody owns, nothing
asked for and dropped, and a line that can be driven; and that has a world and, from every frame, a way
to map, exactly if it is neither of the two the launch does not check. `LaunchFailsClosedHolds`
follows, since a request is answered once. `NoPoseInWrongFrameHolds` is an argument about the distance that is tested:
what was said at the moment the hold ended was the untold start and how far the car had come, the start
pose how far it had come at a sample before (`StartsArePublished`), by the node or by hand; a car driven on what is
composed had come nowhere yet (`StillThere`). So the untold start is `Plausible`, and stays it
(`HeldUntilPlausible`). `CorrectionExactHolds` assumes that a reset
does not move a held car (`~Reseeds`) and needs that one stamp is one sample
(`OneSampleAStamp`); with it, what is broadcast is the correction of one sample
(`CorrectionOfASample`), and a correction composed with the dead reckoning it was made of is the truth
(`CorrectionComposes`, for all poses of the grid).

*Aligner.* `ScoresAgreeHolds` has no hypothesis: the evaluator, which hears estimates and truth in
either order, loses estimates and throws away those it no longer needs, says of every sample
what is said offline of all that it heard. `AlignerHolds` is why throwing away is sound: a stamp
that was heard is kept, or is at or before one that is kept and is itself before every sample
that may still be asked about (`Horizon`). `SaysAsOffline` turns that into equality with the
definition, `OfflineStays` says that a later estimate does not change what was said of a stamp one
has reached already, and `ScoresHold` carries both through the steps of the aligner (`TruthAdded`,
`EstimateAdded`, `RemainingHolds`, `ScoresStay`). In the graph it rests on the order of each topic's
stamps (`PublishedInOrder`, `ComposedInOrder`) and on the evaluator's place in them (`HeardInOrder`,
`TruthInOrder`), whatever is lost and however the two topics interleave.

*Rescore.* `ScoringSoundHolds` is of every recording, two lists of lines with whole stamps and places, in
any order and with any stamp repeated, and every bound; there is no other hypothesis (`RescoreAssumption`). A score is computed in one step, so
what is proved is about loops. Each of them is a fold over a sequence, and the value of a fold
is pinned down by its values so far: there is a function that gives them (`FoldExists`,
`AlongExists`), and then what the loop keeps is proved like the invariant of a program, step by
step (`Onwards`). Lines are totally ordered by stamp and then by place in the file (`AheadIsOrder`); a line's
rank is how many are not after it (`RankIs`, `RankGrows`), so that `Ascending` gives every line once and its stamps in
order (`AscendingIs`, `StampsAscend`). The
aligner that has heard every estimate holds them all (`AllKnown`), and after each sample of truth those
with a pair have the one of the definition and the rest wait in order (`HalfwayStep`, from
`TruthAdded` and `RemainingHolds` of the live aligner), so that with the flush each sample has the pair of
the definition (`AlignAllIs`, `PairsSay`): the same score live and offline rests on the same lemmas. A running
error over the lines of truth is their number, the number of those with an error, the sum
and the greatest (`SummaryIs`). `PartnerIs` shows that the search for the first pair a delta later
finds the first such line of truth, the first of its repeats (`ThenIs`), and that the lines without one are a tail. The
stretches between the boundaries part the span, and of each what availability counts is as many
instants as no estimate is fresh in (`CoverageIs`).

*The tools.* Each has an invariant of its own.
`CleanExitHolds` follows the program counter of main. `RunNeverCompilesHolds` says that all a run calls
was compiled before it; `NodeIsItsScenarioHolds` compares two nodes step by step, each
operation on equal nodes giving equal nodes. `FlushedIsOnDiskHolds` needs that the stream is
whole up to its buffer, and that a buffer is not left by a node that is down. `NightlyIsWholeHolds`
says what each job has run by its step (`JobInv`) and that a sound map puts an ID into one
region. `LeftInOrderHolds` says, for each stage of a run, what has been read, solved and
written, and that a sidecar is of the line beside it. `CheckMissesNothingHolds` has two halves.
`ChangeSeenHolds` follows a path through the three questions: until the question that would
show it is asked, it differs in a way that question shows, or it was used at the wrong moment
(`AskedAbout`). For the other half, what `reverse_dependents` returns is the least set of packages
that is closed under dependence (`ReachedWalks`, `WalkReaches`), hence what a package depends on by
any path is selected with it. It assumes what the repository's map satisfies
(`TiersApart`: a tier-3 test, the reference lap included, is not an acceptance test as well), and a
finite set of packages (`ScopeAssumption`).

Some of what the recursive definitions compute is proved by induction after all: not by the
library's induction theorems, which take an operator, but by picking a least or a greatest
element where the finite subsets of a set are well-founded (`LeastSubset`, `GreatestNumber`,
`LeastNumber`, `SmallestSubset`). The folds of `Rescore`, the walk of `reverse_dependents`,
`bisect_left` (`BeforeSplits`), the number of resolved samples (`RipeIsSome`) and the turns of
the learner are done that way.

Type correctness is proved for `Supervisor`, `GymSim`, `DriveLoop`, `Metrics`, `BridgeSession`,
`FrontEnd` and `PoseGraph` (`TypeCorrect`, `TypeOKHolds`); of the other modules what the
invariants need of it is a part of them. It is a part of no run, since nothing that is promised
depends on it.

**Only model-checked.**

- `StreamRecovers` of `DevkitAssembler`. It counts bursts from the last loss to the next frame
  given, and holds for a bounded number of losses (see "What the code does not promise"): a
  theorem would have to say which losses of queued messages the learner survives, and how soon.
  TLC takes every history of six bursts.
- `RunCompletes`, `RequestReachesSim`, `HoldEnds` of the bridge and of the pose graph,
  `SignalStops` and `TimedRunEnds`: liveness under fairness is beyond the prover.

## Not modelled

- Numeric parts: physics, ray marching and the numbers of noise, pure-pursuit geometry,
  Frenet projection, percentiles, frame fitting, map accuracy, the throttle's arithmetic,
  the solver and the extraction of a track from a map (`src/raceline/raceline/extract.py`,
  geometry.py, track.py beyond what `RacelineRun` reads). They are functions of real
  numbers with no interleaving. So is how the verifier judges the clearance at a sharp
  tip (verify.py, `_judge`).
- `racing_interfaces` and `racing_sim_adapter`: message types and constants.
- The harness's verdicts over silences and its frozen-pose wait (scenario_runner.py): they
  are wall-clock thresholds over a loop that `DriveLoop` has in ticks.
- Reports and conversions: raceline_report.py, pose_source_report.py, compare_metrics.py,
  `src/sim`, `src/tools`, the mesh scripts of `racing_vehicle_description`, containers. Each
  reads files, computes and prints, and nothing acts on the files meanwhile.
- In what is modelled: the clearance the metrics node pairs with a state is that of the
  last scan handled, with no relation to the state's stamp in the code either; how long a
  compilation takes (`GymBackend` says that none happens in a run); steering and speed
  limits in `GymBackend`; two raceline runs at once, which `raceline/README.md` forbids;
  tables of the vehicle that are edited between the two reads of one run are recorded as
  they were at the second.

## Plan

What is left, the most important first.

1. `DevkitAssembler`: which losses of queued messages the learner survives, to weaken `LosesWell`
   and `LosesUnqueued`, and how soon a frame is given after the last loss (`StreamRecovers`).
2. `RunCompletes` and the other liveness properties as far as safety goes: the measures that
   fairness makes fall.
3. The verdicts of the hang observer, composed with the loop's abstraction.
