---- MODULE Launch ----
(***************************************************************************)
(* racing_bringup: sim_pure_pursuit.launch.py with scenario_parameters.py,  *)
(* estimators.py and the simulators' capability tables.  A request (the     *)
(* launch arguments, and what the files they lead to hold) is refused, with *)
(* the first check that fails, or becomes a graph: which nodes start and    *)
(* the parameters that decide how they work together.                       *)
(*                                                                          *)
(* Abstractions: a path is what is found there, a node is its presence, and *)
(* parameters that only name the run are left out.                          *)
(***************************************************************************)
EXTENDS Integers, Sequences

\* POSE_SOURCE_CONFIGS, SLAM_TOOLBOX_CONFIGS
Estimators == {"slam_toolbox", "amcl", "mola"}
SlamBeams == {64, 1080}

\* CAPABILITIES of the two simulators
OwnsClock(simulator) == simulator = "gym"
CanHold(simulator) == simulator = "gym"
CanScaleTime(simulator) == simulator = "gym"

\* The worlds of the scenario files: those the gym has a map of, and those an
\* occupancy grid was surveyed of (config/scenarios/maps).
GymMaps == {"spielberg", "contract_test"}
Grids == {"spielberg"}

\* What the launch arguments, and the files they name, may be.  `stem` is
\* the vehicle file's; "undrawn" has no URDF; beams 0: the scenario does not
\* say.  `committed` is the optimized raceline's csv and sidecar.
Requests ==
    [stem : {"f1tenth_default", "autodrive_roboracer", "undrawn", "missing"},
     simulator : {"gym", "autodrive"},
     bridge : {"ours", "official"},
     scenario : {"spielberg", "contract_test", "porto"},
     startHeld : BOOLEAN,
     timeScale : {1, 2},
     devkitDomain : {"own", "other", "invalid"},
     poseSource : {"ground_truth", "unknown"} \cup Estimators,
     slamConfig : {"unset", "present", "missing"},
     driveOnEstimate : BOOLEAN,
     estimateTopic : {"truth", "other"},
     planner : {"track_centerline", "optimized_raceline"},
     speedSource : {"unset", "curvature_schedule", "trajectory"},
     ownRaceline : BOOLEAN,
     versionsAgree : BOOLEAN,
     committed : {"none", "no_sidecar", "of_another", "not_ok", "ok"},
     beams : {0, 64, 270, 1080},
     molaMap : BOOLEAN]

----------------------------------------------------------------------------

\* _devkit_domain
DomainUsable(r) == r.devkitDomain = "other"

\* _vehicle_version and _optimized_raceline: the first that is wrong
RacelineCommitted(r) == r.versionsAgree /\ r.committed = "ok"

\* track_parameters, the raceline the support node loads
Raceline(r) ==
    IF r.planner = "optimized_raceline" THEN "committed"
    ELSE IF r.ownRaceline THEN "own" ELSE "centerline"

Estimating(r) == r.poseSource # "ground_truth"

\* _check_autodrive
AutodriveChecks(r) ==
    << <<"devkit domain", r.bridge = "official" => DomainUsable(r)>>,
       <<"autodrive vehicle", r.stem = "autodrive_roboracer">>,
       <<"autodrive scenario", r.scenario = "porto">>,
       <<"start_held", ~r.startHeld>>,
       <<"time_scale", r.timeScale = 1>> >>

\* The checks of _launch_described and _launch_nodes up to the simulator's.
SimulatorChecks(r) ==
    << <<"vehicle file", r.stem # "missing">>,
       <<"description", r.stem # "undrawn">>,
       <<"gym vehicle",
         r.simulator = "gym" => r.stem # "autodrive_roboracer">> >>
    \o (IF r.simulator = "autodrive" THEN AutodriveChecks(r) ELSE <<>>)

\* The rest of _launch_nodes, down to _pose_source_nodes.
GraphChecks(r) ==
    << <<"pose_source", r.poseSource # "unknown">>,
       <<"slam_toolbox_config of another",
         r.slamConfig # "unset" => r.poseSource = "slam_toolbox">>,
       <<"slam_toolbox_config", r.slamConfig # "missing">>,
       <<"raceline",
         r.planner = "optimized_raceline" => RacelineCommitted(r)>>,
       <<"speedless trajectory",
         r.speedSource = "trajectory" => Raceline(r) # "centerline">>,
       <<"mola map", r.poseSource = "mola" => r.molaMap>>,
       <<"beams",
         r.poseSource = "slam_toolbox" /\ r.slamConfig = "unset"
             => r.beams \in SlamBeams>> >>

\* Mutant of Checks: what the AutoDRIVE build lacks is not looked at.
MutantChecks(r) ==
    SubSeq(SimulatorChecks(r), 1, 3) \o GraphChecks(r)

Checks(r) == SimulatorChecks(r) \o GraphChecks(r)

Accepted(r) == \A i \in DOMAIN Checks(r) : Checks(r)[i][2]

----------------------------------------------------------------------------

\* Ground truth is the only pose source that does not own map -> odom itself.
PublishMapToOdom(r) == ~Estimating(r)

\* Mutant of SendsInitialPose: MOLA is not told where it starts.
MutantSendsInitialPose(r) == r.poseSource = "amcl"

SendsInitialPose(r) == r.poseSource \in {"amcl", "mola"}

\* The node that owns the simulator's name.
SimulatorOf(r) ==
    IF r.simulator = "gym" THEN "gym"
    ELSE IF r.bridge = "official" THEN "devkit" ELSE "server"

\* _pose_source_nodes: the beam count slam_toolbox's file is for, 1 the caller's
\* own, 0 none.
SlamFile(r) ==
    IF r.poseSource # "slam_toolbox" THEN 0
    ELSE IF r.slamConfig = "present" THEN 1 ELSE r.beams

\* estimators.py: a node of an estimator, the frames it joins, who activates
\* it, and which clock it keeps.
Started(name, joins, activatedBy, r) ==
    [name |-> name, joins |-> joins, activatedBy |-> activatedBy,
     useSimTime |-> OwnsClock(r.simulator)]

SlamToolbox(r) == {Started("slam_toolbox", {<<"map", "odom">>}, "launch", r)}

\* Nobody looks whether the scenario has the grid; without it map_server has
\* nothing to serve and amcl joins nothing.
Amcl(r) ==
    {Started("map_server", {}, "lifecycle_manager", r),
     Started("amcl", IF r.scenario \in Grids THEN {<<"map", "odom">>} ELSE {},
             "lifecycle_manager", r),
     Started("lifecycle_manager", {}, "none", r)}

Mola(r) ==
    {Started("mola_map_alignment", {<<"map", "mola_map">>}, "none", r),
     Started("mola", {<<"mola_map", "odom">>}, "none", r)}

EstimatorNodes(r) ==
    CASE r.poseSource = "slam_toolbox" -> SlamToolbox(r)
      [] r.poseSource = "amcl" -> Amcl(r)
      [] r.poseSource = "mola" -> Mola(r)
      [] OTHER -> {}

\* The nodes _launch_nodes returns.
Graph(r) ==
    [simulator |-> SimulatorOf(r),
     world |-> r.simulator = "gym" => r.scenario \in GymMaps,
     held |-> r.startHeld,
     timeScale |-> r.timeScale,
     useSimTime |-> OwnsClock(r.simulator),
     publishMapToOdom |-> PublishMapToOdom(r),
     composes |-> Estimating(r),
     sendsInitialPose |-> SendsInitialPose(r),
     holds |-> r.poseSource = "mola",
     controllerOn |-> IF Estimating(r) /\ r.driveOnEstimate
                      THEN "composed" ELSE "truth",
     estimateTopic |-> IF Estimating(r) /\ r.estimateTopic = "truth"
                       THEN "composed" ELSE r.estimateTopic,
     estimator |-> IF Estimating(r) THEN r.poseSource ELSE "none",
     estimatorNodes |-> EstimatorNodes(r),
     slamFile |-> SlamFile(r),
     raceline |-> Raceline(r)]

----------------------------------------------------------------------------

(***************************************************************************)
(* What a request that is accepted must come to, whatever else it holds.   *)
(***************************************************************************)

\* Who joins which frames, but for the simulator's odom -> base_link.
Joins(g) ==
    (UNION {{n.name} \X n.joins : n \in g.estimatorNodes})
    \cup (IF g.publishMapToOdom THEN {<<"support", <<"map", "odom">>>>} ELSE {})

\* No frame has two parents; every node that has to be activated is, by one
\* that runs; and a pose that is read has a publisher.
OneSource(g) ==
    /\ \A i, j \in Joins(g) : i[2][2] = j[2][2] => i = j
    /\ \A n \in g.estimatorNodes :
          n.activatedBy \in {"none", "launch"}
              \cup {m.name : m \in g.estimatorNodes}
    /\ "composed" \in {g.controllerOn, g.estimateTopic} => g.composes
    /\ g.composes => g.estimator # "none"

\* No node waits for a /clock that nothing publishes.
ClockHasOwner(g) ==
    /\ g.useSimTime <=> g.simulator = "gym"
    /\ \A n \in g.estimatorNodes : n.useSimTime = g.useSimTime

\* Nothing that was asked for is dropped without a word.
NothingDropped(r, g) ==
    /\ r.startHeld => g.held /\ g.simulator = "gym"
    /\ r.timeScale # 1 => g.simulator = "gym"
    /\ r.planner = "optimized_raceline"
           => g.raceline = "committed" /\ r.committed = "ok"
    /\ r.slamConfig # "unset" => g.slamFile = 1
    /\ r.estimateTopic = "other" => g.estimateTopic = "other"

\* The run can be driven: the line has speeds, and the car is the world's.
Drivable(r, g) ==
    /\ r.speedSource = "trajectory" => g.raceline # "centerline"
    /\ (g.simulator = "gym") <=> r.stem = "f1tenth_default"
    /\ g.simulator # "gym" => r.scenario = "porto"
    /\ g.simulator = "devkit" => r.devkitDomain = "other"
    /\ g.slamFile \notin {0, 1} => g.slamFile = r.beams /\ r.beams \in SlamBeams

\* Every frame from odom on has a parent, up to map.
Rooted(g) ==
    \A frame \in ({"odom"} \cup {i[2][1] : i \in Joins(g)}) \ {"map"} :
        \E i \in Joins(g) : i[2][2] = frame

\* The simulator has a world to run, and the poses in it are poses on the map.
Complete(g) == g.world /\ Rooted(g)

\* What the launch takes at its word: that the gym has the scenario's map (it
\* has none of Porto: porto.yaml, docs/configuration.md), and that the grid AMCL
\* localizes on is there (scenario_parameters only makes its path).
Unchecked(r) ==
    \/ r.simulator = "gym" /\ r.scenario \notin GymMaps
    \/ r.poseSource = "amcl" /\ r.scenario \notin Grids

Sound(r, g) ==
    /\ OneSource(g)
    /\ ClockHasOwner(g)
    /\ NothingDropped(r, g)
    /\ Drivable(r, g)
    /\ Complete(g) <=> ~Unchecked(r)

====
