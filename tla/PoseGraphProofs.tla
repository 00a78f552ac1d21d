--------------------------- MODULE PoseGraphProofs ---------------------------
(***************************************************************************)
(* Theorems about the launch and about who says where the car is, for every *)
(* request, any number of samples and any order in which the nodes handle   *)
(* them; and about a recording that is scored again, for every recording.   *)
(***************************************************************************)
EXTENDS PoseGraph, Rescore, FiniteSetTheorems, WellFoundedInduction, TLAPS

----------------------------------------------------------------------------

(***************************************************************************)
(* The launch fails closed                                                 *)
(***************************************************************************)

\* Every one of a sequence of named checks holds.
Holds(checks) == \A i \in DOMAIN checks : checks[i][2]

LEMMA HoldsBoth ==
    ASSUME NEW S, NEW s \in Seq(S), NEW t \in Seq(S), Holds(s \o t)
    PROVE  Holds(s) /\ Holds(t)
  <1> DEFINE both == s \o t
  <1>1. /\ \A i \in DOMAIN s : i \in DOMAIN both /\ both[i] = s[i]
        /\ \A i \in DOMAIN t : Len(s) + i \in DOMAIN both /\ both[Len(s) + i] = t[i]
    OBVIOUS
  <1>2. Holds(both)
    OBVIOUS
  <1> HIDE DEF both
  <1> QED BY Zenon, <1>1, <1>2 DEF Holds

LEMMA HoldsThree ==
    ASSUME NEW a, NEW b, NEW c, Holds(<<a, b, c>>)
    PROVE  a[2] /\ b[2] /\ c[2]
  <1> DEFINE s == <<a, b, c>>
  <1>1. \A i \in 1 .. 3 : i \in DOMAIN s
    OBVIOUS
  <1>2. s[1] = a /\ s[2] = b /\ s[3] = c
    OBVIOUS
  <1>3. Holds(s)
    OBVIOUS
  <1>4. 1 \in 1 .. 3 /\ 2 \in 1 .. 3 /\ 3 \in 1 .. 3
    OBVIOUS
  <1> HIDE DEF s
  <1> QED BY Zenon, <1>1, <1>2, <1>3, <1>4 DEF Holds

LEMMA HoldsFive ==
    ASSUME NEW a, NEW b, NEW c, NEW d, NEW e, Holds(<<a, b, c, d, e>>)
    PROVE  a[2] /\ b[2] /\ c[2] /\ d[2] /\ e[2]
  <1> DEFINE s == <<a, b, c, d, e>>
  <1>1. 1 \in DOMAIN s /\ 2 \in DOMAIN s /\ 3 \in DOMAIN s /\ 4 \in DOMAIN s /\ 5 \in DOMAIN s
    OBVIOUS
  <1>2. s[1] = a /\ s[2] = b /\ s[3] = c /\ s[4] = d /\ s[5] = e
    OBVIOUS
  <1>3. Holds(s)
    OBVIOUS
  <1> HIDE DEF s
  <1> QED BY Zenon, <1>1, <1>2, <1>3 DEF Holds

LEMMA HoldsSeven ==
    ASSUME NEW a, NEW b, NEW c, NEW d, NEW e, NEW f, NEW g, Holds(<<a, b, c, d, e, f, g>>)
    PROVE  a[2] /\ b[2] /\ c[2] /\ d[2] /\ e[2] /\ f[2] /\ g[2]
  <1> DEFINE s == <<a, b, c, d, e, f, g>>
  <1>1. /\ 1 \in DOMAIN s /\ 2 \in DOMAIN s /\ 3 \in DOMAIN s /\ 4 \in DOMAIN s /\ 5 \in DOMAIN s
        /\ 6 \in DOMAIN s /\ 7 \in DOMAIN s
    OBVIOUS
  <1>2. /\ s[1] = a /\ s[2] = b /\ s[3] = c /\ s[4] = d /\ s[5] = e
        /\ s[6] = f /\ s[7] = g
    OBVIOUS
  <1>3. Holds(s)
    OBVIOUS
  <1> HIDE DEF s
  <1> QED BY Zenon, <1>1, <1>2, <1>3 DEF Holds

LEMMA HoldsFifteen ==
    ASSUME NEW a1, NEW a2, NEW a3, NEW b1, NEW b2, NEW b3, NEW b4, NEW b5,
           NEW c1, NEW c2, NEW c3, NEW c4, NEW c5, NEW c6, NEW c7, NEW long \in BOOLEAN,
           Holds((<<a1, a2, a3>> \o (IF long THEN <<b1, b2, b3, b4, b5>> ELSE <<>>))
                 \o <<c1, c2, c3, c4, c5, c6, c7>>)
    PROVE  /\ a1[2] /\ a2[2] /\ a3[2]
           /\ long => b1[2] /\ b2[2] /\ b3[2] /\ b4[2] /\ b5[2]
           /\ c1[2] /\ c2[2] /\ c3[2] /\ c4[2] /\ c5[2] /\ c6[2] /\ c7[2]
  <1> DEFINE S == {a1, a2, a3, b1, b2, b3, b4, b5, c1, c2, c3, c4, c5, c6, c7}
             a == <<a1, a2, a3>>
             b == IF long THEN <<b1, b2, b3, b4, b5>> ELSE <<>>
             c == <<c1, c2, c3, c4, c5, c6, c7>>
  <1>1. a \in Seq(S)
    OBVIOUS
  <1>2. b \in Seq(S)
    <2>1. <<b1, b2, b3, b4, b5>> \in Seq(S) /\ <<>> \in Seq(S)
      OBVIOUS
    <2> HIDE DEF S
    <2> QED BY <2>1
  <1>3. c \in Seq(S)
    OBVIOUS
  <1>4. Holds((a \o b) \o c)
    OBVIOUS
  <1> HIDE DEF S, a, b, c
  <1>5. a \o b \in Seq(S)
    BY <1>1, <1>2
  <1>6. Holds(a \o b) /\ Holds(c)
    BY <1>3, <1>4, <1>5, HoldsBoth
  <1>7. Holds(a) /\ Holds(b)
    BY <1>1, <1>2, <1>6, HoldsBoth
  <1>8. a1[2] /\ a2[2] /\ a3[2]
    BY <1>7, HoldsThree DEF a
  <1>9. long => b1[2] /\ b2[2] /\ b3[2] /\ b4[2] /\ b5[2]
    BY <1>7, HoldsFive DEF b
  <1>10. c1[2] /\ c2[2] /\ c3[2] /\ c4[2] /\ c5[2] /\ c6[2] /\ c7[2]
    BY <1>6, HoldsSeven DEF c
  <1> QED BY <1>8, <1>9, <1>10

\* What each check of an accepted request says.
LEMMA ChecksOf ==
    ASSUME NEW r, Accepted(r)
    PROVE  /\ r.stem # "missing" /\ r.stem # "undrawn"
           /\ r.simulator = "gym" => r.stem # "autodrive_roboracer"
           /\ r.simulator = "autodrive" =>
                 /\ r.bridge = "official" => DomainUsable(r)
                 /\ r.stem = "autodrive_roboracer" /\ r.scenario = "porto"
                 /\ ~r.startHeld /\ r.timeScale = 1
           /\ r.poseSource # "unknown"
           /\ r.slamConfig # "unset" => r.poseSource = "slam_toolbox"
           /\ r.slamConfig # "missing"
           /\ r.planner = "optimized_raceline" => RacelineCommitted(r)
           /\ r.speedSource = "trajectory" => Raceline(r) # "centerline"
           /\ r.poseSource = "slam_toolbox" /\ r.slamConfig = "unset" => r.beams \in SlamBeams
  <1> DEFINE a1 == <<"vehicle file", r.stem # "missing">>
             a2 == <<"description", r.stem # "undrawn">>
             a3 == <<"gym vehicle", r.simulator = "gym" => r.stem # "autodrive_roboracer">>
             b1 == <<"devkit domain", r.bridge = "official" => DomainUsable(r)>>
             b2 == <<"autodrive vehicle", r.stem = "autodrive_roboracer">>
             b3 == <<"autodrive scenario", r.scenario = "porto">>
             b4 == <<"start_held", ~r.startHeld>>
             b5 == <<"time_scale", r.timeScale = 1>>
             c1 == <<"pose_source", r.poseSource # "unknown">>
             c2 == <<"slam_toolbox_config of another",
                     r.slamConfig # "unset" => r.poseSource = "slam_toolbox">>
             c3 == <<"slam_toolbox_config", r.slamConfig # "missing">>
             c4 == <<"raceline",
                     r.planner = "optimized_raceline" => RacelineCommitted(r)>>
             c5 == <<"speedless trajectory",
                     r.speedSource = "trajectory" => Raceline(r) # "centerline">>
             c6 == <<"mola map", r.poseSource = "mola" => r.molaMap>>
             c7 == <<"beams", r.poseSource = "slam_toolbox" /\ r.slamConfig = "unset"
                                 => r.beams \in SlamBeams>>
             long == r.simulator = "autodrive"
  <1>1. Checks(r) = (<<a1, a2, a3>> \o (IF long THEN <<b1, b2, b3, b4, b5>> ELSE <<>>))
                        \o <<c1, c2, c3, c4, c5, c6, c7>>
    BY DEF Checks, SimulatorChecks, AutodriveChecks, GraphChecks
  <1>2. Holds(Checks(r)) /\ long \in BOOLEAN
    BY DEF Accepted, Holds
  <1> HIDE DEF a1, a2, a3, b1, b2, b3, b4, b5, c1, c2, c3, c4, c5, c6, c7, long
  <1>3. /\ a1[2] /\ a2[2] /\ a3[2]
        /\ long => b1[2] /\ b2[2] /\ b3[2] /\ b4[2] /\ b5[2]
        /\ c1[2] /\ c2[2] /\ c3[2] /\ c4[2] /\ c5[2] /\ c6[2] /\ c7[2]
    BY <1>1, <1>2, HoldsFifteen
  <1>4. /\ r.stem # "missing" /\ r.stem # "undrawn"
        /\ r.simulator = "gym" => r.stem # "autodrive_roboracer"
    BY <1>3 DEF a1, a2, a3
  <1>5. r.simulator = "autodrive" =>
           /\ r.bridge = "official" => DomainUsable(r)
           /\ r.stem = "autodrive_roboracer" /\ r.scenario = "porto"
           /\ ~r.startHeld /\ r.timeScale = 1
    BY <1>3 DEF b1, b2, b3, b4, b5, long
  <1>6. /\ r.poseSource # "unknown"
        /\ r.slamConfig # "unset" => r.poseSource = "slam_toolbox"
        /\ r.slamConfig # "missing"
        /\ r.planner = "optimized_raceline" => RacelineCommitted(r)
    BY <1>3 DEF c1, c2, c3, c4
  <1>7. /\ r.speedSource = "trajectory" => Raceline(r) # "centerline"
        /\ r.poseSource = "slam_toolbox" /\ r.slamConfig = "unset" => r.beams \in SlamBeams
    BY <1>3 DEF c5, c7
  <1> QED BY <1>4, <1>5, <1>6, <1>7

\* Which nodes an estimator is.
LEMMA EstimatorsAre ==
    ASSUME NEW r
    PROVE  /\ r.poseSource = "slam_toolbox" => EstimatorNodes(r) =
                 {Started("slam_toolbox", {<<"map", "odom">>}, "launch", r)}
           /\ r.poseSource = "amcl" => EstimatorNodes(r) =
                 {Started("map_server", {}, "lifecycle_manager", r),
                  Started("amcl", IF r.scenario \in Grids THEN {<<"map", "odom">>} ELSE {},
                          "lifecycle_manager", r),
                  Started("lifecycle_manager", {}, "none", r)}
           /\ r.poseSource = "mola" => EstimatorNodes(r) =
                 {Started("mola_map_alignment", {<<"map", "mola_map">>}, "none", r),
                  Started("mola", {<<"mola_map", "odom">>}, "none", r)}
           /\ r.poseSource = "ground_truth" => EstimatorNodes(r) = {}
  BY DEF EstimatorNodes, SlamToolbox, Amcl, Mola

LEMMA StartedHas ==
    ASSUME NEW name, NEW joins, NEW by, NEW r
    PROVE  /\ Started(name, joins, by, r).name = name
           /\ Started(name, joins, by, r).joins = joins
           /\ Started(name, joins, by, r).activatedBy = by
           /\ Started(name, joins, by, r).useSimTime = OwnsClock(r.simulator)
  BY DEF Started

\* The parameters of the nodes of a graph.
LEMMA GraphHas ==
    ASSUME NEW r
    PROVE  LET g == Graph(r)
           IN /\ g.simulator = SimulatorOf(r) /\ g.held = r.startHeld
              /\ g.world = (r.simulator = "gym" => r.scenario \in GymMaps)
              /\ g.timeScale = r.timeScale
              /\ g.useSimTime = OwnsClock(r.simulator)
              /\ g.publishMapToOdom = PublishMapToOdom(r)
              /\ g.composes = Estimating(r)
              /\ g.sendsInitialPose = SendsInitialPose(r)
              /\ g.holds = (r.poseSource = "mola")
              /\ g.controllerOn = IF Estimating(r) /\ r.driveOnEstimate
                                  THEN "composed" ELSE "truth"
              /\ g.estimateTopic = IF Estimating(r) /\ r.estimateTopic = "truth"
                                   THEN "composed" ELSE r.estimateTopic
              /\ g.estimator = IF Estimating(r) THEN r.poseSource ELSE "none"
              /\ g.estimatorNodes = EstimatorNodes(r)
              /\ g.slamFile = SlamFile(r)
              /\ g.raceline = Raceline(r)
  BY DEF Graph

\* The pairs a node joins, and those of up to three nodes.
JoinsOf(n) == {n.name} \X n.joins

LEMMA UnionOfJoins ==
    /\ UNION {JoinsOf(n) : n \in {}} = {}
    /\ \A a : UNION {JoinsOf(n) : n \in {a}} = JoinsOf(a)
    /\ \A a, b : UNION {JoinsOf(n) : n \in {a, b}} = JoinsOf(a) \cup JoinsOf(b)
    /\ \A a, b, c : UNION {JoinsOf(n) : n \in {a, b, c}} =
                       JoinsOf(a) \cup JoinsOf(b) \cup JoinsOf(c)
  OBVIOUS

\* Who joins which frames in a graph.
LEMMA JoinsAre ==
    ASSUME NEW r
    PROVE  /\ r.poseSource = "ground_truth" =>
                 Joins(Graph(r)) = {<<"support", <<"map", "odom">>>>}
           /\ r.poseSource = "slam_toolbox" =>
                 Joins(Graph(r)) = {<<"slam_toolbox", <<"map", "odom">>>>}
           /\ r.poseSource = "amcl" /\ r.scenario \in Grids =>
                 Joins(Graph(r)) = {<<"amcl", <<"map", "odom">>>>}
           /\ r.poseSource = "amcl" /\ r.scenario \notin Grids => Joins(Graph(r)) = {}
           /\ r.poseSource = "mola" =>
                 Joins(Graph(r)) = {<<"mola_map_alignment", <<"map", "mola_map">>>>,
                                    <<"mola", <<"mola_map", "odom">>>>}
  <1> DEFINE nodes == EstimatorNodes(r)
             joined == UNION {JoinsOf(n) : n \in nodes}
  <1>1. Joins(Graph(r)) = joined
                          \cup (IF PublishMapToOdom(r) THEN {<<"support", <<"map", "odom">>>>}
                                ELSE {})
    <2> DEFINE g == Graph(r)
    <2>1. g.estimatorNodes = nodes /\ g.publishMapToOdom = PublishMapToOdom(r)
      BY DEF Graph
    <2> HIDE DEF g
    <2> DEFINE own == {<<"support", <<"map", "odom">>>>}
               told == UNION {JoinsOf(n) : n \in g.estimatorNodes}
    <2>2. Joins(g) = told \cup (IF g.publishMapToOdom THEN own ELSE {})
      BY Zenon DEF Joins, JoinsOf
    <2>3. \A F : nodes = F => joined = UNION {JoinsOf(n) : n \in F}
      OBVIOUS
    <2> HIDE DEF joined, nodes
    <2>4. joined = told
      BY Zenon, <2>1, <2>3
    <2> HIDE DEF own, told
    <2>5. Joins(g) = joined \cup (IF PublishMapToOdom(r) THEN own ELSE {})
      <3>1. CASE PublishMapToOdom(r)
        <4>1. g.publishMapToOdom
          BY Zenon, <2>1, <3>1
        <4>2. (IF PublishMapToOdom(r) THEN own ELSE {}) = own
          BY <3>1
        <4>3. (IF g.publishMapToOdom THEN own ELSE {}) = own
          BY <4>1
        <4>4. Joins(g) = joined \cup own
          BY Zenon, <2>2, <2>4, <4>3
        <4> QED BY Zenon, <4>2, <4>4
      <3>2. CASE ~PublishMapToOdom(r)
        <4>1. ~g.publishMapToOdom
          BY Zenon, <2>1, <3>2
        <4>2. (IF PublishMapToOdom(r) THEN own ELSE {}) = {}
          BY <3>2
        <4>3. (IF g.publishMapToOdom THEN own ELSE {}) = {}
          BY <4>1
        <4>4. Joins(g) = joined \cup {}
          BY Zenon, <2>2, <2>4, <4>3
        <4> QED BY Zenon, <4>2, <4>4
      <3> QED BY Zenon, <3>1, <3>2
    <2> QED BY Zenon, <2>5 DEF g, own
  <1>2. \A F : nodes = F => joined = UNION {JoinsOf(n) : n \in F}
    OBVIOUS
  <1>3. PublishMapToOdom(r) <=> r.poseSource = "ground_truth"
    BY DEF PublishMapToOdom, Estimating
  <1> HIDE DEF joined, nodes
  <1>4. ASSUME r.poseSource = "ground_truth" PROVE joined = {}
    BY <1>2, <1>4, EstimatorsAre, UnionOfJoins DEF nodes
  <1>5. ASSUME r.poseSource = "slam_toolbox"
        PROVE  joined = {<<"slam_toolbox", <<"map", "odom">>>>}
    <2> DEFINE a == Started("slam_toolbox", {<<"map", "odom">>}, "launch", r)
    <2>1. nodes = {a}
      BY <1>5, EstimatorsAre DEF nodes
    <2>2. a.name = "slam_toolbox" /\ a.joins = {<<"map", "odom">>}
      BY StartedHas
    <2> HIDE DEF a
    <2>3. JoinsOf(a) = {<<"slam_toolbox", <<"map", "odom">>>>}
      BY <2>2 DEF JoinsOf
    <2> QED BY <1>2, <2>1, <2>3, UnionOfJoins
  <1>6. ASSUME r.poseSource = "amcl"
        PROVE  /\ r.scenario \in Grids => joined = {<<"amcl", <<"map", "odom">>>>}
               /\ r.scenario \notin Grids => joined = {}
    <2> DEFINE own == IF r.scenario \in Grids THEN {<<"map", "odom">>} ELSE {}
               a == Started("map_server", {}, "lifecycle_manager", r)
               b == Started("amcl", own, "lifecycle_manager", r)
               c == Started("lifecycle_manager", {}, "none", r)
    <2>5. /\ r.scenario \in Grids => own = {<<"map", "odom">>}
          /\ r.scenario \notin Grids => own = {}
      OBVIOUS
    <2>1. nodes = {a, b, c}
      BY <1>6, EstimatorsAre DEF nodes
    <2>2. /\ a.name = "map_server" /\ a.joins = {}
          /\ b.name = "amcl" /\ b.joins = own
          /\ c.name = "lifecycle_manager" /\ c.joins = {}
      BY StartedHas
    <2> HIDE DEF a, b, c, own
    <2>3. /\ JoinsOf(a) = {} /\ JoinsOf(c) = {}
          /\ own = {<<"map", "odom">>} => JoinsOf(b) = {<<"amcl", <<"map", "odom">>>>}
          /\ own = {} => JoinsOf(b) = {}
      BY <2>2 DEF JoinsOf
    <2>4. joined = JoinsOf(a) \cup JoinsOf(b) \cup JoinsOf(c)
      BY <1>2, <2>1, UnionOfJoins
    <2> QED BY <2>3, <2>4, <2>5
  <1>7. ASSUME r.poseSource = "mola"
        PROVE  joined = {<<"mola_map_alignment", <<"map", "mola_map">>>>,
                         <<"mola", <<"mola_map", "odom">>>>}
    <2> DEFINE a == Started("mola_map_alignment", {<<"map", "mola_map">>}, "none", r)
               b == Started("mola", {<<"mola_map", "odom">>}, "none", r)
    <2>1. nodes = {a, b}
      BY <1>7, EstimatorsAre DEF nodes
    <2>2. /\ a.name = "mola_map_alignment" /\ a.joins = {<<"map", "mola_map">>}
          /\ b.name = "mola" /\ b.joins = {<<"mola_map", "odom">>}
      BY StartedHas
    <2> HIDE DEF a, b
    <2>3. /\ JoinsOf(a) = {<<"mola_map_alignment", <<"map", "mola_map">>>>}
          /\ JoinsOf(b) = {<<"mola", <<"mola_map", "odom">>>>}
      BY <2>2 DEF JoinsOf
    <2>4. joined = JoinsOf(a) \cup JoinsOf(b)
      BY <1>2, <2>1, UnionOfJoins
    <2> QED BY <2>3, <2>4
  <1> QED BY <1>1, <1>3, <1>4, <1>5, <1>6, <1>7

\* No frame has two parents, whoever estimates.
LEMMA AcceptedOneSource ==
    ASSUME NEW r \in Requests, Accepted(r)
    PROVE  OneSource(Graph(r))
  <1> DEFINE g == Graph(r)
             nodes == EstimatorNodes(r)
  <1>1. r.poseSource \in {"ground_truth"} \cup Estimators
    BY ChecksOf DEF Requests
  <1>2. \A i, j \in Joins(g) : i[2][2] = j[2][2] => i = j
    <2>1. CASE r.poseSource = "mola"
      BY <2>1, JoinsAre
    <2>2. CASE r.poseSource # "mola"
      <3>1. Joins(g) = {} \/ \E i : Joins(g) = {i}
        BY <1>1, <2>2, JoinsAre DEF Estimators
      <3> HIDE DEF g
      <3> QED BY <3>1
    <2> QED BY <2>1, <2>2
  <1>4. \A n \in nodes : n.activatedBy \in {"none", "launch"} \cup {m.name : m \in nodes}
    <2>1. CASE r.poseSource = "slam_toolbox"
      BY <2>1, EstimatorsAre, StartedHas
    <2>2. CASE r.poseSource = "amcl"
      <3> DEFINE a == Started("map_server", {}, "lifecycle_manager", r)
                 b == Started("amcl", IF r.scenario \in Grids THEN {<<"map", "odom">>} ELSE {},
                              "lifecycle_manager", r)
                 c == Started("lifecycle_manager", {}, "none", r)
      <3>1. nodes = {a, b, c}
        BY <2>2, EstimatorsAre
      <3>2. /\ a.activatedBy = "lifecycle_manager" /\ b.activatedBy = "lifecycle_manager"
            /\ c.activatedBy = "none" /\ c.name = "lifecycle_manager"
        BY StartedHas
      <3> HIDE DEF a, b, c, nodes
      <3> QED BY <3>1, <3>2
    <2>3. CASE r.poseSource = "mola"
      BY <2>3, EstimatorsAre, StartedHas
    <2>4. CASE r.poseSource = "ground_truth"
      BY <2>4, EstimatorsAre
    <2> QED BY <1>1, <2>1, <2>2, <2>3, <2>4 DEF Estimators
  <1>5. /\ g.composes = Estimating(r) /\ g.estimatorNodes = nodes
        /\ g.controllerOn = IF Estimating(r) /\ r.driveOnEstimate THEN "composed" ELSE "truth"
        /\ g.estimateTopic = IF Estimating(r) /\ r.estimateTopic = "truth"
                             THEN "composed" ELSE r.estimateTopic
        /\ g.estimator = IF Estimating(r) THEN r.poseSource ELSE "none"
    BY DEF Graph
  <1>6. r.estimateTopic # "composed" /\ r.poseSource # "none"
    BY <1>1 DEF Requests, Estimators
  <1> HIDE DEF g, nodes
  <1>7. "composed" \in {g.controllerOn, g.estimateTopic} => g.composes
    BY <1>5, <1>6
  <1>8. g.composes => g.estimator # "none"
    BY <1>5, <1>6
  <1> QED BY <1>2, <1>4, <1>5, <1>7, <1>8 DEF OneSource, g

\* The graph lacks a world, or its frames do not reach map, in the two cases
\* that are not checked and in no other.
LEMMA AcceptedComplete ==
    ASSUME NEW r \in Requests, Accepted(r)
    PROVE  Complete(Graph(r)) <=> ~Unchecked(r)
  <1> DEFINE g == Graph(r)
  <1>1. r.poseSource \in {"ground_truth"} \cup Estimators
    BY ChecksOf DEF Requests
  <1>2. g.world <=> ~(r.simulator = "gym" /\ r.scenario \notin GymMaps)
    BY GraphHas
  <1>3. Rooted(g) <=> ~(r.poseSource = "amcl" /\ r.scenario \notin Grids)
    <2>1. CASE r.poseSource = "mola"
      <3> DEFINE a == <<"mola_map_alignment", <<"map", "mola_map">>>>
                 b == <<"mola", <<"mola_map", "odom">>>>
      <3>1. Joins(g) = {a, b}
        BY <2>1, JoinsAre
      <3>2. a[2][1] = "map" /\ a[2][2] = "mola_map" /\ b[2][1] = "mola_map" /\ b[2][2] = "odom"
        OBVIOUS
      <3> HIDE DEF a, b, g
      <3> QED BY <2>1, <3>1, <3>2 DEF Rooted
    <2>2. CASE r.poseSource # "mola" /\ ~(r.poseSource = "amcl" /\ r.scenario \notin Grids)
      <3>1. \E name : Joins(g) = {<<name, <<"map", "odom">>>>}
        BY <1>1, <2>2, JoinsAre DEF Estimators
      <3> HIDE DEF g
      <3> QED BY <2>2, <3>1 DEF Rooted
    <2>3. CASE r.poseSource = "amcl" /\ r.scenario \notin Grids
      <3>1. Joins(g) = {}
        BY <2>3, JoinsAre
      <3> HIDE DEF g
      <3> QED BY <2>3, <3>1 DEF Rooted
    <2> QED BY <2>1, <2>2, <2>3
  <1> HIDE DEF g
  <1>4. Complete(g) <=> ~Unchecked(r)
    BY <1>2, <1>3 DEF Complete, Unchecked
  <1> QED BY <1>4 DEF g

LEMMA AcceptedClock ==
    ASSUME NEW r \in Requests
    PROVE  ClockHasOwner(Graph(r))
  <1> DEFINE g == Graph(r)
  <1>1. \A n \in EstimatorNodes(r) : n.useSimTime = OwnsClock(r.simulator)
    BY StartedHas DEF EstimatorNodes, SlamToolbox, Amcl, Mola
  <1>2. /\ g.useSimTime = OwnsClock(r.simulator) /\ g.simulator = SimulatorOf(r)
        /\ g.estimatorNodes = EstimatorNodes(r)
    BY DEF Graph
  <1>3. SimulatorOf(r) = "gym" <=> r.simulator = "gym"
    BY DEF SimulatorOf
  <1> HIDE DEF g
  <1> QED BY <1>1, <1>2, <1>3 DEF ClockHasOwner, OwnsClock, g

LEMMA AcceptedNothingDropped ==
    ASSUME NEW r \in Requests, Accepted(r)
    PROVE  NothingDropped(r, Graph(r))
  <1>1. /\ r.simulator \in {"gym", "autodrive"} /\ r.startHeld \in BOOLEAN
        /\ r.slamConfig \in {"unset", "present", "missing"}
    BY DEF Requests
  <1>2. (r.simulator = "autodrive" => ~r.startHeld /\ r.timeScale = 1)
    BY ChecksOf
  <1>3. r.slamConfig # "unset" => r.poseSource = "slam_toolbox" /\ r.slamConfig = "present"
    BY <1>1, ChecksOf
  <1>4. r.planner = "optimized_raceline" => r.committed = "ok"
    BY ChecksOf DEF RacelineCommitted
  <1> QED BY <1>1, <1>2, <1>3, <1>4
          DEF NothingDropped, Graph, SimulatorOf, SlamFile, Raceline

LEMMA AcceptedDrivable ==
    ASSUME NEW r \in Requests, Accepted(r)
    PROVE  Drivable(r, Graph(r))
  <1>1. /\ r.simulator \in {"gym", "autodrive"} /\ r.bridge \in {"ours", "official"}
        /\ r.stem \in {"f1tenth_default", "autodrive_roboracer", "undrawn", "missing"}
        /\ r.slamConfig \in {"unset", "present", "missing"}
    BY DEF Requests
  <1>2. /\ r.stem # "missing" /\ r.stem # "undrawn"
        /\ r.simulator = "gym" => r.stem # "autodrive_roboracer"
        /\ r.simulator = "autodrive" =>
              /\ r.bridge = "official" => r.devkitDomain = "other"
              /\ r.stem = "autodrive_roboracer" /\ r.scenario = "porto"
    BY ChecksOf DEF DomainUsable
  <1>3. /\ r.speedSource = "trajectory" => Raceline(r) # "centerline"
        /\ r.slamConfig # "missing"
        /\ r.poseSource = "slam_toolbox" /\ r.slamConfig = "unset" => r.beams \in SlamBeams
    BY ChecksOf
  <1>4. SlamFile(r) \notin {0, 1} => SlamFile(r) = r.beams /\ r.beams \in SlamBeams
    BY <1>1, <1>3 DEF SlamFile
  <1> DEFINE g == Graph(r)
  <1>5. g.slamFile = SlamFile(r) /\ g.simulator = SimulatorOf(r) /\ g.raceline = Raceline(r)
    BY DEF Graph
  <1> HIDE DEF g
  <1>6. g.slamFile \notin {0, 1} => g.slamFile = r.beams /\ r.beams \in SlamBeams
    BY <1>4, <1>5
  <1>7. /\ r.speedSource = "trajectory" => g.raceline # "centerline"
        /\ (g.simulator = "gym") <=> r.stem = "f1tenth_default"
        /\ g.simulator # "gym" => r.scenario = "porto"
        /\ g.simulator = "devkit" => r.devkitDomain = "other"
    BY <1>1, <1>2, <1>3, <1>5 DEF SimulatorOf
  <1> QED BY <1>6, <1>7 DEF Drivable, g

\* Whatever is asked for is refused or becomes a sound graph, with a world to run
\* and every pose on the map exactly unless it is one of the two cases that
\* _launch_nodes does not look at.
THEOREM AcceptedIsSound ==
    \A r \in Requests : Accepted(r) => Sound(r, Graph(r))
  BY AcceptedOneSource, AcceptedClock, AcceptedNothingDropped, AcceptedDrivable,
     AcceptedComplete DEF Sound

----------------------------------------------------------------------------

(***************************************************************************)
(* The inductive invariant                                                 *)
(***************************************************************************)

\* The launch answers once, and nothing runs, is published or is estimated
\* before it has.
AnsweredOnce ==
    /\ request # NoRequest => graph = NoGraph
    /\ graph = NoGraph => published = <<>> /\ estimate = "none"

\* A topic's stamps never go back; the last is the greatest.
StampsInOrder ==
    \A i \in DOMAIN published :
        /\ published[i].stamp < i /\ published[i].run <= resets
        /\ published[i].moved < i
        /\ published[i].stamp <= Newest.stamp

\* What can say a pose of the wrong frame is held until it does not, or until
\* that pose is plausible.
HeldUntilPlausible ==
    /\ estimate = "far" => graph.holds
    /\ graph = NoGraph => ~applied /\ composed = <<>>
    /\ applied => estimate # "none"
    /\ graph.holds /\ ~applied => composed = <<>>
    /\ applied /\ estimate = "far" => Plausible
    /\ NoPoseInWrongFrame

\* A car that is driven on what is composed stands where it was set down until
\* there is some.
StillThere ==
    graph.controllerOn = "composed" /\ composed = <<>> =>
        \A i \in DOMAIN published : published[i].moved = 0

\* A start pose is that of a sample.
StartsArePublished ==
    /\ initial # NoPose => \E j \in DOMAIN published : initial = published[j].moved
    /\ startPose # NoPose => \E j \in DOMAIN published : startPose = published[j].moved

HoldInv == HeldUntilPlausible /\ StillThere /\ StartsArePublished

PoseInv == TypeOK /\ AnsweredOnce /\ StampsInOrder /\ HoldInv

\* A reset that does not move a held car publishes its sample again.
OneSampleAStamp ==
    \A i, j \in DOMAIN published :
        published[i].stamp = published[j].stamp => published[i] = published[j]

\* What is broadcast is the correction of one sample that was published.
CorrectionOfASample ==
    correction # NoCorrection =>
        \E i \in DOMAIN published :
            /\ published[i].stamp = correction.stamp
            /\ correction.pose = PlanarCorrection(TruthOf(published[i]),
                                                  DeadReckoningOf(published[i]))

LEMMA InitInv == Init => PoseInv /\ OneSampleAStamp /\ CorrectionOfASample
  <1> SUFFICES ASSUME Init PROVE PoseInv /\ OneSampleAStamp /\ CorrectionOfASample
    OBVIOUS
  <1> USE PoseGraphAssumption DEF Init
  <1>1. LaunchTypes
    BY DEF LaunchTypes
  <1>2. \A S : <<>> \in Seq(S)
    OBVIOUS
  <1>3. Len(<<>>) = 0 /\ 0 <= MaxPublished /\ 0 \in 0 .. MaxResets /\ 0 \in 0 .. 0
    OBVIOUS
  <1>4. SimTypes
    BY <1>2, <1>3 DEF SimTypes
  <1>5. correction.stamp \in -1 .. MaxPublished
    BY DEF NoCorrection
  <1>6. SupportTypes
    BY <1>2, <1>3, <1>5 DEF SupportTypes
  <1>7. EvaluationTypes
    BY DEF EvaluationTypes
  <1>8. AnsweredOnce /\ StampsInOrder /\ OneSampleAStamp /\ CorrectionOfASample
    BY DEF AnsweredOnce, StampsInOrder, OneSampleAStamp, CorrectionOfASample
  <1>9. HoldInv
    BY DEF HoldInv, HeldUntilPlausible, StillThere, StartsArePublished, NoPoseInWrongFrame
  <1>10. EstimatorTypes
    BY DEF EstimatorTypes
  <1> QED BY <1>1, <1>4, <1>6, <1>7, <1>8, <1>9, <1>10 DEF PoseInv, TypeOK

\* The samples there were are still there.
StillPublished ==
    \A i \in DOMAIN published : i \in DOMAIN published' /\ published'[i] = published[i]

\* What was plausible stays so, and a start pose stays that of a sample.
LEMMA PlausibleStays ==
    ASSUME StillPublished, UNCHANGED <<graph, untold>>, Plausible
    PROVE  Plausible'
  <1>1. PICK m \in Wander : Apart(untold, 0) <= StartPoseRadius + m
    BY DEF Plausible
  <1>2. Apart(untold', 0) <= StartPoseRadius + m
    BY <1>1
  <1>3. m \in Wander'
    <2>1. CASE graph.controllerOn = "composed"
      BY <1>1, <2>1 DEF Wander
    <2>2. CASE graph.controllerOn # "composed"
      BY <1>1, <2>2 DEF Wander, StillPublished
    <2> QED BY <2>1, <2>2
  <1> QED BY <1>2, <1>3 DEF Plausible

LEMMA StartsStay ==
    ASSUME StillPublished, UNCHANGED <<initial, startPose>>, StartsArePublished
    PROVE  StartsArePublished'
  BY DEF StillPublished, StartsArePublished

\* The hold is of what is composed, of the estimator and of the samples.
LEMMA HoldStays ==
    ASSUME HoldInv, StillPublished, UNCHANGED <<graph, untold, estimate, applied, composed>>,
           StillThere', StartsArePublished'
    PROVE  HoldInv'
  <1>1. HeldUntilPlausible
    BY DEF HoldInv
  <1>2. Plausible => Plausible'
    BY PlausibleStays
  <1>3. NoPoseInWrongFrame'
    BY <1>1, <1>2 DEF HeldUntilPlausible, NoPoseInWrongFrame
  <1>4. applied' /\ estimate' = "far" => Plausible'
    BY <1>1, <1>2 DEF HeldUntilPlausible
  <1>5. HeldUntilPlausible'
    BY Zenon, <1>1, <1>3, <1>4 DEF HeldUntilPlausible
  <1> QED BY <1>5 DEF HoldInv

LEMMA HoldUnchanged ==
    ASSUME HoldInv, UNCHANGED <<graph, published, untold, estimate, applied, composed>>,
           StartsArePublished'
    PROVE  HoldInv'
  <1>1. StillPublished
    BY DEF StillPublished
  <1>2. StillThere'
    BY DEF HoldInv, StillThere
  <1> QED BY <1>1, <1>2, HoldStays

LEMMA HoldSame ==
    ASSUME HoldInv,
           UNCHANGED <<graph, published, untold, estimate, applied, composed, initial, startPose>>
    PROVE  HoldInv'
  <1>1. StartsArePublished'
    BY DEF HoldInv, StartsArePublished
  <1> QED BY <1>1, HoldUnchanged

\* In a graph, what may say a pose of the wrong frame is held.
LEMMA MolaIsHeld ==
    ASSUME NEW g \in Graphs
    PROVE  /\ g.holds \in BOOLEAN
           /\ g.estimator = "mola" => g.holds
  <1>1. PICK r \in Asked : g = Roles(Graph(r))
    BY DEF Graphs
  <1>2. g.holds = Graph(r).holds /\ g.estimator = Graph(r).estimator
    BY <1>1 DEF Roles
  <1>3. /\ Graph(r).holds = (r.poseSource = "mola")
        /\ Graph(r).estimator = IF Estimating(r) THEN r.poseSource ELSE "none"
    BY GraphHas
  <1>4. g.estimator = "mola" => r.poseSource = "mola"
    BY <1>2, <1>3
  <1> QED BY Zenon, <1>2, <1>3, <1>4

\* A sample after the last: the simulator's next, or that of a reset.
LEMMA OneMore ==
    ASSUME SimTypes, StampsInOrder, Len(published) < MaxPublished,
           NEW s \in Samples, published' = Append(published, s),
           s.stamp <= Len(published), s.moved <= Len(published), s.run <= resets',
           published # <<>> => Newest.stamp <= s.stamp,
           resets' \in 0 .. MaxResets, resets <= resets', frozen' \in BOOLEAN
    PROVE  SimTypes' /\ StampsInOrder' /\ Len(published') = Len(published) + 1
  <1> USE PoseGraphAssumption
  <1>1. /\ published \in Seq(Samples) /\ Len(published) \in Nat
        /\ published' \in Seq(Samples) /\ Len(published') = Len(published) + 1
    BY DEF SimTypes
  <1>2. SimTypes'
    BY <1>1 DEF SimTypes
  <1>3. /\ \A i \in DOMAIN published : published'[i] = published[i] /\ i <= Len(published)
        /\ published'[Len(published')] = s
        /\ \A i \in DOMAIN published' : i \in DOMAIN published \/ i = Len(published')
    BY <1>1
  <1>4. Newest' = s
    BY <1>3 DEF Newest
  <1>5. \A i \in DOMAIN published :
           published'[i].stamp <= s.stamp /\ published'[i].run <= resets'
    <2> SUFFICES ASSUME NEW i \in DOMAIN published
                 PROVE  published'[i].stamp <= s.stamp /\ published'[i].run <= resets'
      OBVIOUS
    <2>1. published # <<>> /\ Len(published) \in DOMAIN published
      BY <1>1
    <2>2. Newest \in Samples /\ published[i] \in Samples
      BY <1>1, <2>1 DEF Newest
    <2>3. published[i].stamp <= Newest.stamp /\ published[i].run <= resets
      BY DEF StampsInOrder
    <2>4. /\ resets \in Nat /\ resets' \in Nat
          /\ published[i].stamp \in Nat /\ published[i].run \in Nat
          /\ Newest.stamp \in Nat /\ s.stamp \in Nat
      BY <2>2 DEF SimTypes, Samples
    <2>5. published'[i] = published[i] /\ Newest.stamp <= s.stamp
      BY <1>3, <2>1
    <2> HIDE DEF Newest
    <2> QED BY <2>3, <2>4, <2>5
  <1>6. s.stamp \in Nat /\ s.run \in Nat /\ s.moved \in Nat
    BY DEF Samples
  <1>7. StampsInOrder'
    BY <1>1, <1>3, <1>4, <1>5, <1>6 DEF StampsInOrder
  <1> QED BY <1>1, <1>2, <1>7

\* The same sample again, or one of a later stamp.
LEMMA OneMoreOfAStamp ==
    ASSUME SimTypes, StampsInOrder, OneSampleAStamp,
           NEW s \in Samples, published' = Append(published, s),
           \/ published = <<>>
           \/ s = Newest
           \/ Newest.stamp < s.stamp
    PROVE  OneSampleAStamp'
  <1>1. published \in Seq(Samples) /\ Len(published) \in Nat
    BY DEF SimTypes
  <1>2. /\ \A i \in DOMAIN published : published'[i] = published[i] /\ i <= Len(published)
        /\ published'[Len(published')] = s
        /\ \A i \in DOMAIN published' : i \in DOMAIN published \/ i = Len(published')
    BY <1>1
  <1>3. \A i \in DOMAIN published : published[i].stamp = s.stamp => published[i] = s
    <2> SUFFICES ASSUME NEW i \in DOMAIN published, published[i].stamp = s.stamp
                 PROVE  published[i] = s
      OBVIOUS
    <2>1. published # <<>> /\ Len(published) \in DOMAIN published
      BY <1>1
    <2>2. Newest \in Samples
      BY <1>1, <2>1 DEF Newest
    <2>3. published[i].stamp <= Newest.stamp
      BY DEF StampsInOrder
    <2>4. s = Newest
      BY <2>1, <2>2, <2>3, PoseGraphAssumption DEF Samples
    <2> QED BY <2>1, <2>4 DEF OneSampleAStamp, Newest
  <1> QED BY <1>2, <1>3 DEF OneSampleAStamp

LEMMA LaunchStep == PoseInv /\ LaunchRun => PoseInv'
  <1> SUFFICES ASSUME PoseInv, LaunchRun PROVE PoseInv'
    OBVIOUS
  <1> USE PoseGraphAssumption
  <1>1. /\ request \in Asked /\ graph = NoGraph /\ request' = NoRequest
        /\ UNCHANGED <<resets, published, supportVars, estimatorVars, evaluationVars>>
    BY DEF PoseInv, TypeOK, LaunchTypes, LaunchRun, AnsweredOnce
  <1>2. published = <<>> /\ estimate = "none"
    BY <1>1 DEF PoseInv, AnsweredOnce
  <1>3. graph' \in Graphs \cup {NoGraph}
    BY <1>1 DEF LaunchRun, Graphs
  <1>4. frozen' \in BOOLEAN
    <2>1. Graph(request).held = request.startHeld /\ request.startHeld \in BOOLEAN
      BY <1>1, GraphHas DEF Requests
    <2>2. frozen' = Graph(request).held \/ frozen' = frozen
      BY DEF LaunchRun
    <2>3. frozen \in BOOLEAN
      BY DEF PoseInv, TypeOK, SimTypes
    <2> QED BY Zenon, <2>1, <2>2, <2>3
  <1>5. LaunchTypes'
    BY <1>1, <1>3 DEF LaunchTypes
  <1>6. SimTypes'
    BY <1>1, <1>4 DEF PoseInv, TypeOK, SimTypes
  <1>7. SupportTypes' /\ EvaluationTypes'
    BY <1>1 DEF PoseInv, TypeOK, SupportTypes, EvaluationTypes, supportVars, estimatorVars,
                evaluationVars
  <1>11. EstimatorTypes'
    BY <1>1 DEF PoseInv, TypeOK, EstimatorTypes, estimatorVars
  <1>8. AnsweredOnce'
    BY <1>1, <1>2 DEF AnsweredOnce, estimatorVars
  <1>9. StampsInOrder'
    BY <1>1, <1>2 DEF StampsInOrder
  <1>10. HoldInv'
    <2>1. ~applied /\ composed = <<>> /\ initial = NoPose /\ startPose = NoPose
      BY <1>1, <1>2 DEF PoseInv, HoldInv, HeldUntilPlausible, StartsArePublished
    <2>2. /\ ~applied' /\ composed' = <<>> /\ estimate' = "none" /\ published' = <<>>
          /\ initial' = NoPose /\ startPose' = NoPose
      BY <1>1, <1>2, <2>1 DEF supportVars, estimatorVars
    <2> QED BY <2>2 DEF HoldInv, HeldUntilPlausible, StillThere, StartsArePublished,
                        NoPoseInWrongFrame
  <1> QED BY <1>5, <1>6, <1>7, <1>8, <1>9, <1>10, <1>11 DEF PoseInv, TypeOK

\* The sample that the simulator publishes next.
LEMMA PublishedNext ==
    ASSUME PoseInv, Publish
    PROVE  \E s \in Samples :
              /\ published' = Append(published, s)
              /\ s.stamp <= Len(published) /\ s.moved <= Len(published) /\ s.run <= resets
              /\ published # <<>> => Newest.stamp < s.stamp
              /\ s.moved = 0 \/ Driven \/ (published # <<>> /\ s.moved = Newest.moved)
  <1> USE PoseGraphAssumption
  <1>1. /\ published \in Seq(Samples) /\ Len(published) \in Nat /\ Len(published) < MaxPublished
        /\ resets \in 0 .. MaxResets
    BY DEF PoseInv, TypeOK, SimTypes, Publish
  <1>2. CASE published = <<>>
    <2> DEFINE s == [stamp |-> 0, run |-> 0, moved |-> 0]
    <2>1. s \in Samples /\ s.stamp = 0 /\ s.moved = 0 /\ s.run = 0
      BY DEF Samples
    <2>2. published' = Append(published, s)
      BY <1>2 DEF Publish
    <2> HIDE DEF s
    <2> QED BY <1>1, <1>2, <2>1, <2>2
  <1>3. CASE published # <<>>
    <2> DEFINE stamp == Newest.stamp + 1
               moved == IF Driven THEN Newest.moved + 1 ELSE Newest.moved
               s == [Newest EXCEPT !.stamp = stamp, !.moved = moved]
    <2>1. Newest \in Samples /\ Len(published) \in DOMAIN published
      BY <1>1, <1>3 DEF Newest
    <2>2. /\ Newest.stamp < Len(published) /\ Newest.moved < Len(published)
          /\ Newest.run <= resets
      BY <2>1 DEF PoseInv, StampsInOrder, Newest
    <2>3. published' = Append(published, s)
      BY <1>3 DEF Publish
    <2>4. Newest.stamp \in Nat /\ Newest.run \in Nat /\ Newest.moved \in Nat
      BY <2>1 DEF Samples
    <2>5. moved \in 0 .. MaxPublished /\ moved <= Len(published)
      <3>1. CASE Driven
        BY <1>1, <2>2, <2>4, <3>1
      <3>2. CASE ~Driven
        BY <1>1, <2>2, <2>4, <3>2
      <3> QED BY <3>1, <3>2
    <2>8. Driven \/ moved = Newest.moved
      OBVIOUS
    <2>6. stamp \in 0 .. MaxPublished /\ stamp <= Len(published) /\ Newest.stamp < stamp
      BY <1>1, <2>2, <2>4
    <2> HIDE DEF stamp, moved
    <2>7. s \in Samples /\ s.stamp = stamp /\ s.run = Newest.run /\ s.moved = moved
      <3>1. s = [Newest EXCEPT !.stamp = stamp, !.moved = moved]
        OBVIOUS
      <3> HIDE DEF s
      <3> QED BY <2>1, <2>5, <2>6, <3>1 DEF Samples
    <2> HIDE DEF s
    <2> QED BY Zenon, <1>3, <2>2, <2>3, <2>5, <2>6, <2>7, <2>8
  <1> QED BY <1>2, <1>3

\* The sample of a reset.
LEMMA PublishedOnReset ==
    ASSUME PoseInv, Reset
    PROVE  \E s \in Samples :
              /\ published' = Append(published, s)
              /\ s.stamp <= Len(published) /\ s.moved <= Len(published) /\ s.run <= resets'
              /\ Newest.stamp <= s.stamp
              /\ ~Reseeds => s = Newest \/ Newest.stamp < s.stamp
              /\ s.moved = 0 \/ s.moved = Newest.moved
  <1> USE PoseGraphAssumption
  <1>1. /\ published \in Seq(Samples) /\ Len(published) \in Nat /\ Len(published) < MaxPublished
        /\ published # <<>> /\ resets \in 0 .. MaxResets /\ resets' = resets + 1
        /\ resets < MaxResets
    BY DEF PoseInv, TypeOK, SimTypes, Reset
  <1>2. Newest \in Samples /\ Len(published) \in DOMAIN published
    BY <1>1 DEF Newest
  <1>3. /\ Newest.stamp < Len(published) /\ Newest.moved < Len(published)
        /\ Newest.run <= resets
    BY <1>2 DEF PoseInv, StampsInOrder, Newest
  <1>4. Newest.stamp \in Nat /\ Newest.run \in Nat /\ Newest.moved \in 0 .. MaxPublished
    BY <1>2 DEF Samples
  <1>5. CASE frozen
    <2> DEFINE s == [Newest EXCEPT !.run = IF Reseeds THEN @ + 1 ELSE @]
    <2>1. published' = Append(published, s)
      BY <1>5 DEF Reset
    <2>2. /\ s.stamp = Newest.stamp /\ s.moved = Newest.moved
          /\ s.run = IF Reseeds THEN Newest.run + 1 ELSE Newest.run
          /\ s = [stamp |-> s.stamp, run |-> s.run, moved |-> s.moved]
          /\ Newest = [stamp |-> Newest.stamp, run |-> Newest.run, moved |-> Newest.moved]
      BY <1>2 DEF Samples
    <2> HIDE DEF s
    <2>3. s.run \in 0 .. MaxResets /\ s.run <= resets'
      <3>1. CASE Reseeds
        BY <1>1, <1>3, <1>4, <2>2, <3>1
      <3>2. CASE ~Reseeds
        BY <1>1, <1>3, <1>4, <2>2, <3>2
      <3> QED BY <3>1, <3>2
    <2>4. s.stamp \in 0 .. MaxPublished /\ s.moved \in 0 .. MaxPublished
      BY <1>1, <1>3, <1>4, <2>2
    <2>5. s \in Samples
      BY <2>2, <2>3, <2>4 DEF Samples
    <2>6. ~Reseeds => s = Newest
      BY <2>2
    <2>7. s.stamp <= Len(published) /\ s.moved <= Len(published) /\ Newest.stamp <= s.stamp
      BY <1>1, <1>3, <1>4, <2>2
    <2> QED BY <2>1, <2>2, <2>3, <2>5, <2>6, <2>7
  <1>6. CASE ~frozen
    <2> DEFINE s == [stamp |-> Newest.stamp + 1, run |-> Newest.run + 1, moved |-> 0]
    <2>1. published' = Append(published, s)
      BY <1>6 DEF Reset
    <2>2. s.stamp = Newest.stamp + 1 /\ s.run = Newest.run + 1 /\ s.moved = 0
      OBVIOUS
    <2>3. /\ Newest.stamp + 1 \in 0 .. MaxPublished /\ Newest.run + 1 \in 0 .. MaxResets
          /\ 0 \in 0 .. MaxPublished
      BY <1>1, <1>3, <1>4
    <2>4. s \in Samples
      BY <2>3 DEF Samples
    <2> HIDE DEF s
    <2>5. /\ s.stamp <= Len(published) /\ s.moved <= Len(published) /\ s.run <= resets'
          /\ Newest.stamp <= s.stamp /\ Newest.stamp < s.stamp
      BY <1>1, <1>3, <1>4, <2>2
    <2> QED BY Zenon, <2>1, <2>2, <2>4, <2>5
  <1> QED BY <1>5, <1>6

\* A sample more of the simulator: nothing else changes.
LEMMA SampleStep == PoseInv /\ (Publish \/ Reset) => PoseInv'
  <1> SUFFICES ASSUME PoseInv, Publish \/ Reset PROVE PoseInv'
    OBVIOUS
  <1> USE PoseGraphAssumption
  <1>1. UNCHANGED <<launchVars, supportVars, estimatorVars, evaluationVars>>
    BY DEF Publish, Reset
  <1>2. graph # NoGraph
    BY DEF Publish, Reset, Running, PoseInv, AnsweredOnce
  <1>3. /\ resets' \in 0 .. MaxResets /\ resets <= resets' /\ frozen' \in BOOLEAN
        /\ Len(published) < MaxPublished
    <2>1. resets \in 0 .. MaxResets /\ frozen \in BOOLEAN
      BY DEF PoseInv, TypeOK, SimTypes
    <2>2. /\ Len(published) < MaxPublished
          /\ resets' = resets \/ (resets < MaxResets /\ resets' = resets + 1)
      <3>1. CASE Publish
        <4>1. Len(published) < MaxPublished
          BY <3>1 DEF Publish
        <4>2. resets' = resets
          BY <3>1 DEF Publish
        <4> QED BY Zenon, <4>1, <4>2
      <3>2. CASE Reset
        <4>1. Len(published) < MaxPublished
          BY <3>2 DEF Reset
        <4>2. resets < MaxResets /\ resets' = resets + 1
          BY <3>2 DEF Reset
        <4> QED BY Zenon, <4>1, <4>2
      <3> QED BY Zenon, <3>1, <3>2
    <2>3. frozen' = frozen \/ frozen' = FALSE
      BY DEF Publish, Reset
    <2>4. resets' \in 0 .. MaxResets /\ resets <= resets'
      BY <2>1, <2>2
    <2>5. frozen' \in BOOLEAN
      BY Zenon, <2>1, <2>3
    <2> QED BY <2>2, <2>4, <2>5
  <1>4. \E s \in Samples :
           /\ published' = Append(published, s)
           /\ s.stamp <= Len(published) /\ s.moved <= Len(published) /\ s.run <= resets'
           /\ published # <<>> => Newest.stamp <= s.stamp
           /\ s.moved = 0 \/ Driven \/ (published # <<>> /\ s.moved = Newest.moved)
    <2>1. CASE Publish
      <3>1. PICK s \in Samples :
               /\ published' = Append(published, s)
               /\ s.stamp <= Len(published) /\ s.moved <= Len(published) /\ s.run <= resets
               /\ published # <<>> => Newest.stamp < s.stamp
               /\ s.moved = 0 \/ Driven \/ (published # <<>> /\ s.moved = Newest.moved)
        BY <2>1, PublishedNext
      <3>2. resets' = resets
        BY <2>1 DEF Publish
      <3>3. published # <<>> => Newest \in Samples
        BY DEF PoseInv, TypeOK, SimTypes, Newest
      <3>4. published # <<>> => Newest.stamp <= s.stamp
        BY <3>1, <3>3 DEF Samples
      <3> QED BY <3>1, <3>2, <3>4
    <2>2. CASE Reset
      <3>1. published # <<>>
        BY <2>2 DEF Reset
      <3> QED BY <2>2, <3>1, PublishedOnReset
    <2> QED BY <2>1, <2>2
  <1>5. SimTypes' /\ StampsInOrder' /\ Len(published') = Len(published) + 1
    BY <1>3, <1>4, OneMore DEF PoseInv, TypeOK
  <1>6. LaunchTypes' /\ AnsweredOnce'
    BY <1>1, <1>2 DEF PoseInv, TypeOK, LaunchTypes, AnsweredOnce, launchVars, estimatorVars
  <1>8. HoldInv'
    <2>1. PICK s \in Samples :
             /\ published' = Append(published, s)
             /\ s.moved = 0 \/ Driven \/ (published # <<>> /\ s.moved = Newest.moved)
      BY Zenon, <1>4
    <2>2. published \in Seq(Samples) /\ HoldInv
      BY DEF PoseInv, TypeOK, SimTypes
    <2>3. /\ StillPublished
          /\ \A i \in DOMAIN published' : i \in DOMAIN published \/ published'[i] = s
      BY <2>1, <2>2 DEF StillPublished
    <2>4. UNCHANGED <<graph, untold, estimate, applied, composed, initial, startPose>>
      BY <1>1 DEF launchVars, supportVars, estimatorVars
    <2>5. StillThere'
      <3> SUFFICES ASSUME graph.controllerOn = "composed", composed = <<>>,
                          NEW i \in DOMAIN published'
                   PROVE  published'[i].moved = 0
        BY <2>4 DEF StillThere
      <3>1. \A j \in DOMAIN published : published[j].moved = 0
        BY <2>2 DEF HoldInv, StillThere
      <3>2. published # <<>> => Newest.moved = 0
        BY <2>2, <3>1 DEF Newest
      <3>3. ~Driven
        BY DEF Driven
      <3>4. s.moved = 0
        BY Zenon, <2>1, <3>2, <3>3
      <3> QED BY <2>3, <3>1, <3>4 DEF StillPublished
    <2>6. StartsArePublished'
      BY <2>2, <2>3, <2>4, StartsStay DEF HoldInv
    <2> QED BY <2>2, <2>3, <2>4, <2>5, <2>6, HoldStays
  <1>7. SupportTypes' /\ EvaluationTypes'
    <2>1. Len(published) \in Nat /\ Len(published') = Len(published) + 1
      BY <1>5 DEF PoseInv, TypeOK, SimTypes
    <2> QED BY <1>1, <2>1 DEF PoseInv, TypeOK, SupportTypes, EvaluationTypes, supportVars,
                              estimatorVars, evaluationVars
  <1>9. EstimatorTypes'
    BY <1>1 DEF PoseInv, TypeOK, EstimatorTypes, estimatorVars
  <1> QED BY <1>5, <1>6, <1>7, <1>8, <1>9 DEF PoseInv, TypeOK

\* What the support node may hear is a sample that was published.
LEMMA HeardIsPublished ==
    ASSUME PoseInv, NEW last, NEW j \in Handleable(last)
    PROVE  /\ j \in 1 .. Len(published) /\ published[j] \in Samples
           /\ graph \in Graphs
  BY DEF PoseInv, TypeOK, LaunchTypes, SimTypes, AnsweredOnce, Handleable

LEMMA HandleTruthStep == PoseInv /\ HandleTruth => PoseInv'
  <1> SUFFICES ASSUME PoseInv, HandleTruth PROVE PoseInv'
    OBVIOUS
  <1> USE PoseGraphAssumption
  <1>1. PICK t \in Handleable(truth) :
           /\ truth' = t
           /\ PublishInitialPose(t)
           /\ PublishCorrection(t, deadReckoning)
    BY DEF HandleTruth
  <1>2. UNCHANGED <<deadReckoning, applied, composed, estimate, untold, launchVars, simVars,
                    evaluationVars>>
    BY DEF HandleTruth, estimatorVars
  <1>3. t \in 1 .. Len(published) /\ published[t] \in Samples
    BY HeardIsPublished
  <1>4. published[t].stamp \in 0 .. MaxPublished /\ published[t].moved \in 0 .. MaxPublished
    BY <1>3 DEF Samples
  <1>5. correction'.stamp \in -1 .. MaxPublished
    BY <1>1, <1>4 DEF PublishCorrection, PoseInv, TypeOK, SupportTypes
  <1>6. /\ initial' \in {NoPose} \cup 0 .. MaxPublished
        /\ startPose' \in {NoPose} \cup 0 .. MaxPublished
    BY <1>1, <1>4 DEF PublishInitialPose, PoseInv, TypeOK, SupportTypes
  <1>7. sent' \in BOOLEAN
    BY <1>1 DEF PublishInitialPose, PoseInv, TypeOK, SupportTypes
  <1>8. SupportTypes'
    <2>1. truth' \in 0 .. Len(published')
      BY <1>1, <1>2, <1>3 DEF simVars
    <2> QED BY <1>2, <1>5, <1>6, <1>7, <2>1 DEF PoseInv, TypeOK, SupportTypes, simVars
  <1>9. LaunchTypes' /\ SimTypes' /\ EvaluationTypes'
    BY <1>2 DEF PoseInv, TypeOK, LaunchTypes, SimTypes, EvaluationTypes, launchVars, simVars,
                evaluationVars
  <1>10. AnsweredOnce' /\ StampsInOrder'
    BY <1>2 DEF PoseInv, AnsweredOnce, StampsInOrder, Newest, launchVars, simVars
  <1>11. HoldInv'
    <2>1. UNCHANGED <<graph, published, untold, estimate, applied, composed>> /\ HoldInv
      BY <1>2 DEF PoseInv, launchVars, simVars
    <2>2. /\ initial' \in {initial, published[t].moved}
          /\ startPose' \in {startPose, published[t].moved}
      BY <1>1 DEF PublishInitialPose
    <2>3. t \in DOMAIN published
      BY <1>3 DEF PoseInv, TypeOK, SimTypes
    <2>4. StartsArePublished'
      BY <2>1, <2>2, <2>3 DEF HoldInv, StartsArePublished
    <2> QED BY <2>1, <2>4, HoldUnchanged
  <1>12. EstimatorTypes'
    BY <1>2 DEF PoseInv, TypeOK, EstimatorTypes
  <1> QED BY <1>8, <1>9, <1>10, <1>11, <1>12 DEF PoseInv, TypeOK

\* A hold that a pose of the untold start ends is ended near the start pose.
LEMMA FarIsPlausible ==
    ASSUME PoseInv, estimate = "far", composed = <<>>, NEW d \in DOMAIN published, AtStartPose(d)
    PROVE  Plausible
  <1>1. /\ published \in Seq(Samples) /\ StartPoseRadius \in Nat
        /\ untold \in Int
    BY PoseGraphAssumption DEF PoseInv, TypeOK, SimTypes, EstimatorTypes
  <1>2. PICK j \in DOMAIN published : startPose = published[j].moved
    BY DEF AtStartPose, PoseInv, HoldInv, StartsArePublished
  <1> DEFINE here == published[d].moved
             start == published[j].moved
  <1>3. here \in Nat /\ start \in Nat
    <2>1. published[d] \in Samples /\ published[j] \in Samples
      BY <1>1
    <2> QED BY <2>1, PoseGraphAssumption DEF Samples
  <1>4. Apart(here + untold, start) <= StartPoseRadius
    BY <1>2 DEF AtStartPose, SaidAt
  <1>5. CASE graph.controllerOn = "composed"
    <2>1. here = 0 /\ start = 0
      BY <1>5 DEF PoseInv, HoldInv, StillThere
    <2> HIDE DEF here, start
    <2>2. Apart(untold, 0) <= StartPoseRadius + 0
      BY <1>1, <1>4, <2>1 DEF Apart
    <2>3. 0 \in Wander
      BY <1>5 DEF Wander
    <2> QED BY <2>2, <2>3 DEF Plausible
  <1>6. CASE graph.controllerOn # "composed"
    <2>1. here \in Wander /\ start \in Wander
      BY <1>6 DEF Wander
    <2> HIDE DEF here, start
    <2>2. \/ Apart(untold, 0) <= StartPoseRadius + here
          \/ Apart(untold, 0) <= StartPoseRadius + start
      BY <1>1, <1>3, <1>4 DEF Apart
    <2> QED BY <2>1, <2>2 DEF Plausible
  <1> QED BY <1>5, <1>6

\* What is composed is right, or of a plausible start.
LEMMA ComposedIsPlausible ==
    ASSUME PoseInv, graph \in Graphs, NEW d \in DOMAIN published, PublishComposed(d),
           UNCHANGED <<graph, published, estimate, untold>>
    PROVE  /\ applied' \in BOOLEAN
           /\ composed' \in Seq([stamp : 0 .. MaxPublished, frame : {"far", "near"}])
           /\ HeldUntilPlausible' /\ StillThere'
  <1> DEFINE Poses == [stamp : 0 .. MaxPublished, frame : {"far", "near"}]
             pose == [stamp |-> published[d].stamp, frame |-> estimate]
  <1>1. /\ graph.holds \in BOOLEAN /\ applied \in BOOLEAN /\ composed \in Seq(Poses)
        /\ estimate \in {"none", "far", "near"}
    BY MolaIsHeld DEF PoseInv, TypeOK, SupportTypes, EstimatorTypes
  <1>2. HeldUntilPlausible /\ StillThere
    BY DEF PoseInv, HoldInv
  <1>3. published[d].stamp \in 0 .. MaxPublished
    <2>1. published[d] \in Samples
      BY DEF PoseInv, TypeOK, SimTypes
    <2> QED BY <2>1 DEF Samples
  <1>4. Plausible' <=> Plausible
    BY DEF Plausible, Wander
  <1>5. CASE ~(graph.composes /\ estimate # "none" /\ Passes(d))
    <2>1. applied' = applied /\ composed' = composed
      BY <1>5 DEF PublishComposed
    <2>2. NoPoseInWrongFrame'
      BY <1>2, <1>4, <2>1 DEF HeldUntilPlausible, NoPoseInWrongFrame
    <2>3. StillThere'
      BY <1>2, <2>1 DEF StillThere
    <2>4. HeldUntilPlausible'
      BY Zenon, <1>2, <1>4, <2>1, <2>2 DEF HeldUntilPlausible
    <2> QED BY Zenon, <1>1, <2>1, <2>3, <2>4
  <1>6. CASE graph.composes /\ estimate # "none" /\ Passes(d)
    <2>1. estimate = "far" => Plausible
      <3> SUFFICES ASSUME estimate = "far" PROVE Plausible
        OBVIOUS
      <3>1. graph.holds
        BY <1>2 DEF HeldUntilPlausible
      <3>2. CASE applied
        BY <1>2, <3>2 DEF HeldUntilPlausible
      <3>3. CASE ~applied
        <4>1. composed = <<>>
          BY Zenon, <1>2, <3>1, <3>3 DEF HeldUntilPlausible
        <4>2. AtStartPose(d)
          BY Zenon, <1>6, <3>1, <3>3 DEF Passes
        <4> QED BY <4>1, <4>2, FarIsPlausible
      <3> QED BY <3>2, <3>3
    <2>2. applied' = graph.holds /\ (composed' = composed \/ composed' = Append(composed, pose))
      BY <1>6 DEF PublishComposed
    <2>3. composed' = composed => composed # <<>>
      <3>1. pose \notin {} /\ Len(composed) \in Nat
        BY <1>1
      <3>2. composed = <<>> => composed' = Append(composed, pose)
        BY <1>6 DEF PublishComposed
      <3>3. Append(composed, pose) # <<>>
        <4> HIDE DEF Poses, pose
        <4> QED BY <1>1
      <3> QED BY <3>2, <3>3
    <2>4. pose \in Poses /\ pose.frame = estimate
      BY <1>1, <1>3, <1>6
    <2> HIDE DEF pose
    <2>5. /\ composed' \in Seq(Poses) /\ composed' # <<>>
          /\ \A i \in DOMAIN composed' : i \in DOMAIN composed \/ composed'[i] = pose
          /\ \A i \in DOMAIN composed : composed'[i] = composed[i]
      <3>1. CASE composed' = composed
        BY <1>1, <2>3, <3>1
      <3>2. CASE composed' = Append(composed, pose)
        <4> HIDE DEF Poses
        <4> QED BY <1>1, <2>4, <3>2
      <3> QED BY <2>2, <3>1, <3>2
    <2> HIDE DEF Poses
    <2>6. NoPoseInWrongFrame'
      BY <1>2, <1>4, <2>1, <2>4, <2>5 DEF HeldUntilPlausible, NoPoseInWrongFrame
    <2>7. StillThere'
      BY <2>5 DEF StillThere
    <2>8. /\ estimate' = "far" => graph'.holds
          /\ applied' => estimate' # "none"
          /\ applied' /\ estimate' = "far" => Plausible'
          /\ graph'.holds => applied'
      BY Zenon, <1>2, <1>4, <1>6, <2>1, <2>2 DEF HeldUntilPlausible
    <2>9. graph' # NoGraph
      BY <1>2, <1>6, <2>1, <2>2, <2>5 DEF HeldUntilPlausible, PoseInv, AnsweredOnce
    <2>10. HeldUntilPlausible'
      BY Zenon, <2>6, <2>8, <2>9 DEF HeldUntilPlausible
    <2> QED BY Zenon, <1>1, <2>2, <2>5, <2>7, <2>10 DEF Poses
  <1> QED BY <1>5, <1>6

LEMMA HandleDeadReckoningStep == PoseInv /\ HandleDeadReckoning => PoseInv'
  <1> SUFFICES ASSUME PoseInv, HandleDeadReckoning PROVE PoseInv'
    OBVIOUS
  <1> USE PoseGraphAssumption
  <1>1. PICK d \in Handleable(deadReckoning) :
           /\ deadReckoning' = d
           /\ PublishCorrection(truth, d)
           /\ PublishComposed(d)
    BY DEF HandleDeadReckoning
  <1>2. UNCHANGED <<truth, initial, sent, startPose, estimate, untold, launchVars, simVars,
                    evaluationVars>>
    BY DEF HandleDeadReckoning, estimatorVars
  <1>3. d \in 1 .. Len(published) /\ published[d] \in Samples /\ graph \in Graphs
    BY HeardIsPublished
  <1>4. correction'.stamp \in -1 .. MaxPublished
    <2>1. truth # 0 => published[truth].stamp \in 0 .. MaxPublished
      <3>1. published \in Seq(Samples) /\ truth \in 0 .. Len(published)
        BY DEF PoseInv, TypeOK, SimTypes, SupportTypes
      <3>2. truth # 0 => published[truth] \in Samples
        BY <3>1
      <3> QED BY <3>2 DEF Samples
    <2> QED BY <1>1, <2>1 DEF PublishCorrection, PoseInv, TypeOK, SupportTypes
  <1>5. /\ applied' \in BOOLEAN
        /\ composed' \in Seq([stamp : 0 .. MaxPublished, frame : {"far", "near"}])
        /\ HeldUntilPlausible' /\ StillThere'
    <2>1. d \in DOMAIN published
      BY <1>3 DEF PoseInv, TypeOK, SimTypes
    <2>2. UNCHANGED <<graph, published, estimate, untold>>
      BY <1>2 DEF launchVars, simVars
    <2> QED BY <1>1, <1>3, <2>1, <2>2, ComposedIsPlausible
  <1>6. SupportTypes'
    <2>1. deadReckoning' \in 0 .. Len(published')
      BY <1>1, <1>2, <1>3 DEF simVars
    <2> QED BY <1>2, <1>4, <1>5, <2>1 DEF PoseInv, TypeOK, SupportTypes, simVars
  <1>7. LaunchTypes' /\ SimTypes' /\ EvaluationTypes'
    BY <1>2 DEF PoseInv, TypeOK, LaunchTypes, SimTypes, EvaluationTypes, launchVars, simVars,
                evaluationVars
  <1>8. AnsweredOnce' /\ StampsInOrder'
    BY <1>2 DEF PoseInv, AnsweredOnce, StampsInOrder, Newest, launchVars, simVars
  <1>9. HoldInv'
    <2>1. StartsArePublished'
      BY <1>2 DEF PoseInv, HoldInv, StartsArePublished, simVars
    <2> QED BY <1>5, <2>1 DEF HoldInv
  <1>10. EstimatorTypes'
    BY <1>2 DEF PoseInv, TypeOK, EstimatorTypes
  <1> QED BY <1>6, <1>7, <1>8, <1>9, <1>10 DEF PoseInv, TypeOK

\* A start pose that is told to the nodes.
LEMMA StartPoseStep == PoseInv /\ (HandleInitialPose \/ PlaceByHand) => PoseInv'
  <1> SUFFICES ASSUME PoseInv, HandleInitialPose \/ PlaceByHand PROVE PoseInv'
    OBVIOUS
  <1>1. UNCHANGED <<truth, deadReckoning, sent, applied, correction, composed, launchVars, simVars,
                    estimatorVars, evaluationVars>>
    BY DEF HandleInitialPose, PlaceByHand
  <1>2. /\ initial' \in {NoPose} \cup 0 .. MaxPublished
        /\ startPose' \in {NoPose} \cup 0 .. MaxPublished
    <2>1. /\ initial \in {NoPose} \cup 0 .. MaxPublished
          /\ startPose \in {NoPose} \cup 0 .. MaxPublished
      BY DEF PoseInv, TypeOK, SupportTypes
    <2>2. CASE HandleInitialPose
      BY <2>1, <2>2 DEF HandleInitialPose
    <2>3. CASE PlaceByHand
      <3>1. published # <<>> /\ initial' = Newest.moved /\ startPose' = startPose
        BY <2>3 DEF PlaceByHand
      <3>2. Newest \in Samples
        BY <3>1 DEF PoseInv, TypeOK, SimTypes, Newest
      <3> QED BY <2>1, <3>1, <3>2 DEF Samples
    <2> QED BY <2>2, <2>3
  <1>3. LaunchTypes' /\ SimTypes' /\ SupportTypes' /\ EvaluationTypes'
    BY <1>1, <1>2 DEF PoseInv, TypeOK, LaunchTypes, SimTypes, SupportTypes, EvaluationTypes,
                      launchVars, simVars, estimatorVars, evaluationVars
  <1>4. AnsweredOnce' /\ StampsInOrder'
    BY <1>1 DEF PoseInv, AnsweredOnce, StampsInOrder, Newest, launchVars, simVars,
                estimatorVars
  <1>5. HoldInv'
    <2>1. UNCHANGED <<graph, published, untold, estimate, applied, composed>> /\ HoldInv
      BY <1>1 DEF PoseInv, launchVars, simVars, estimatorVars
    <2>2. StartsArePublished'
      <3>1. CASE HandleInitialPose
        BY <2>1, <3>1 DEF HandleInitialPose, HoldInv, StartsArePublished
      <3>2. CASE PlaceByHand
        <4>1. published # <<>> /\ initial' = Newest.moved /\ startPose' = startPose
          BY <3>2 DEF PlaceByHand
        <4>2. Len(published) \in DOMAIN published
          BY <4>1 DEF PoseInv, TypeOK, SimTypes
        <4> QED BY <2>1, <4>1, <4>2 DEF HoldInv, StartsArePublished, Newest
      <3> QED BY <3>1, <3>2
    <2> QED BY <2>1, <2>2, HoldUnchanged
  <1>6. EstimatorTypes'
    BY <1>1 DEF PoseInv, TypeOK, EstimatorTypes, estimatorVars
  <1> QED BY <1>3, <1>4, <1>5, <1>6 DEF PoseInv, TypeOK

LEMMA EstimateStep == PoseInv /\ Estimate => PoseInv'
  <1> SUFFICES ASSUME PoseInv, Estimate PROVE PoseInv'
    OBVIOUS
  <1>1. UNCHANGED <<launchVars, simVars, supportVars, evaluationVars>>
    BY DEF Estimate
  <1>2. graph # NoGraph /\ graph \in Graphs
    BY DEF Estimate, Running, PoseInv, TypeOK, LaunchTypes
  <1>3. /\ estimate' \in {"far", "near"}
        /\ estimate' = "far" => graph.estimator = "mola"
        /\ estimate' = "far" => estimate \in {"none", "far"}
        /\ untold' = untold
    BY DEF Estimate, PoseInv, TypeOK, EstimatorTypes
  <1>4. LaunchTypes' /\ SimTypes' /\ EvaluationTypes' /\ AnsweredOnce' /\ StampsInOrder'
    BY <1>1, <1>2 DEF PoseInv, TypeOK, LaunchTypes, SimTypes, EvaluationTypes, AnsweredOnce,
                      StampsInOrder, Newest, launchVars, simVars, evaluationVars
  <1>5. SupportTypes' /\ EstimatorTypes'
    BY <1>1, <1>3 DEF PoseInv, TypeOK, SupportTypes, EstimatorTypes, simVars, supportVars
  <1>6. HoldInv'
    <2>1. estimate' = "far" => graph.holds
      BY Zenon, <1>2, <1>3, MolaIsHeld
    <2>2. UNCHANGED <<graph, published, untold, applied, composed, initial, startPose>> /\ HoldInv
      BY <1>1, <1>3 DEF PoseInv, launchVars, simVars, supportVars
    <2>3. Plausible' <=> Plausible
      BY <2>2 DEF Plausible, Wander
    <2>4. NoPoseInWrongFrame' /\ StillThere' /\ StartsArePublished'
      BY <2>2, <2>3 DEF HoldInv, HeldUntilPlausible, NoPoseInWrongFrame, StillThere,
                        StartsArePublished
    <2>5. applied' /\ estimate' = "far" => Plausible'
      BY <1>3, <2>2, <2>3 DEF HoldInv, HeldUntilPlausible
    <2>6. HeldUntilPlausible'
      BY <1>3, <2>1, <2>2, <2>4, <2>5 DEF HoldInv, HeldUntilPlausible
    <2> QED BY <2>4, <2>6 DEF HoldInv
  <1> QED BY <1>4, <1>5, <1>6 DEF PoseInv, TypeOK

\* What is scored is the stamps of a topic.
LEMMA EstimatesAre ==
    ASSUME PoseInv
    PROVE  \A e \in DOMAIN Estimates : e \in Nat /\ Estimates[e] \in 0 .. MaxPublished
  <1> SUFFICES ASSUME NEW e \in DOMAIN Estimates
               PROVE  e \in Nat /\ Estimates[e] \in 0 .. MaxPublished
    OBVIOUS
  <1>1. /\ published \in Seq(Samples)
        /\ composed \in Seq([stamp : 0 .. MaxPublished, frame : {"far", "near"}])
    BY DEF PoseInv, TypeOK, SimTypes, SupportTypes
  <1>2. CASE graph.scoresComposed
    <2>1. Estimates = [i \in DOMAIN composed |-> composed[i].stamp]
      BY <1>2 DEF Estimates
    <2>2. e \in DOMAIN composed /\ Estimates[e] = composed[e].stamp
      BY <2>1
    <2> DEFINE Poses == [stamp : 0 .. MaxPublished, frame : {"far", "near"}]
    <2>3. composed \in Seq(Poses)
      BY <1>1
    <2>4. composed[e] \in Poses => composed[e].stamp \in 0 .. MaxPublished
      OBVIOUS
    <2> HIDE DEF Poses
    <2>5. e \in Nat /\ composed[e] \in Poses
      BY <2>2, <2>3
    <2> QED BY <2>2, <2>4, <2>5
  <1>3. CASE ~graph.scoresComposed
    <2>1. Estimates = [i \in DOMAIN published |-> published[i].stamp]
      BY <1>3 DEF Estimates
    <2>2. e \in DOMAIN published /\ Estimates[e] = published[e].stamp
      BY <2>1
    <2>3. e \in Nat /\ published[e] \in Samples
      BY <1>1, <2>2
    <2> QED BY <2>2, <2>3 DEF Samples
  <1> QED BY <1>2, <1>3

LEMMA EvaluationStep == PoseInv /\ (EvaluateTruth \/ EvaluateEstimate) => PoseInv'
  <1> SUFFICES ASSUME PoseInv, EvaluateTruth \/ EvaluateEstimate PROVE PoseInv'
    OBVIOUS
  <1>1. UNCHANGED <<launchVars, simVars, supportVars, estimatorVars>>
    BY DEF EvaluateTruth, EvaluateEstimate
  <1>2. EvaluationTypes'
    <2>1. CASE EvaluateTruth
      BY <1>1, <2>1 DEF EvaluateTruth, PoseInv, TypeOK, SimTypes, EvaluationTypes, simVars
    <2>2. CASE EvaluateEstimate
      <3>1. PICK e \in DOMAIN Estimates :
               /\ e > scoredEstimate /\ scoredEstimate' = e
               /\ heard' = heard \cup {Estimates[e]}
        BY <2>2 DEF EvaluateEstimate
      <3>2. e \in Nat /\ Estimates[e] \in 0 .. MaxPublished
        BY EstimatesAre
      <3>3. UNCHANGED scoredTruth
        BY <2>2 DEF EvaluateEstimate
      <3> QED BY <1>1, <3>1, <3>2, <3>3 DEF PoseInv, TypeOK, EvaluationTypes, simVars
    <2> QED BY <2>1, <2>2
  <1>3. LaunchTypes' /\ SimTypes' /\ SupportTypes'
    BY <1>1 DEF PoseInv, TypeOK, LaunchTypes, SimTypes, SupportTypes, launchVars, simVars,
                supportVars, estimatorVars
  <1>4. AnsweredOnce' /\ StampsInOrder'
    BY <1>1 DEF PoseInv, AnsweredOnce, StampsInOrder, Newest, launchVars, simVars, estimatorVars
  <1>5. HoldInv'
    BY <1>1, HoldSame DEF PoseInv, launchVars, simVars, supportVars, estimatorVars
  <1>6. EstimatorTypes'
    BY <1>1 DEF PoseInv, TypeOK, EstimatorTypes, estimatorVars
  <1> QED BY <1>2, <1>3, <1>4, <1>5, <1>6 DEF PoseInv, TypeOK

LEMMA NextInv == PoseInv /\ [Next]_vars => PoseInv'
  <1> SUFFICES ASSUME PoseInv, [Next]_vars PROVE PoseInv'
    OBVIOUS
  <1>1. CASE UNCHANGED vars
    <2>1. UNCHANGED <<launchVars, simVars, supportVars, estimatorVars, evaluationVars>>
      BY <1>1 DEF vars
    <2>2. LaunchTypes' /\ SimTypes' /\ SupportTypes' /\ EvaluationTypes'
      BY <2>1 DEF PoseInv, TypeOK, LaunchTypes, SimTypes, SupportTypes, EvaluationTypes,
                  launchVars, simVars, supportVars, estimatorVars, evaluationVars
    <2>3. AnsweredOnce' /\ StampsInOrder'
      BY <2>1 DEF PoseInv, AnsweredOnce, StampsInOrder, Newest, launchVars, simVars,
                  estimatorVars
    <2>4. HoldInv'
      BY <2>1, HoldSame DEF PoseInv, launchVars, simVars, supportVars, estimatorVars
    <2>5. EstimatorTypes'
      BY <2>1 DEF PoseInv, TypeOK, EstimatorTypes, estimatorVars
    <2> QED BY <2>2, <2>3, <2>4, <2>5 DEF PoseInv, TypeOK
  <1> QED BY <1>1, LaunchStep, SampleStep, HandleTruthStep, HandleDeadReckoningStep,
             StartPoseStep, EstimateStep, EvaluationStep DEF Next

----------------------------------------------------------------------------

\* Every variable keeps to its type.
THEOREM TypeOKHolds == Spec => []TypeOK
  <1>1. PoseInv => TypeOK
    BY DEF PoseInv
  <1> QED BY <1>1, InitInv, NextInv, PTL DEF Spec

\* The launch fails closed: whatever is asked for, what starts is sound, and lacks
\* a map or a grid in the unchecked cases alone (sim_pure_pursuit.launch.py).
THEOREM LaunchFailsClosedHolds == Spec => LaunchFailsClosed
  <1>1. PoseInv /\ [Next]_vars =>
            [request # NoRequest /\ graph' # NoGraph => Sound(request, Graph(request))]_vars
    <2> SUFFICES ASSUME PoseInv, Next, request # NoRequest, graph' # NoGraph
                 PROVE  Sound(request, Graph(request))
      OBVIOUS
    <2>1. request \in Requests /\ graph = NoGraph
      BY PoseGraphAssumption DEF PoseInv, TypeOK, LaunchTypes, AnsweredOnce
    <2>2. LaunchRun
      <3>1. \/ LaunchRun
            \/ UNCHANGED launchVars
        BY DEF Next, Publish, Reset, HandleTruth, HandleDeadReckoning, HandleInitialPose,
               PlaceByHand, Estimate, EvaluateTruth, EvaluateEstimate
      <3> QED BY <2>1, <3>1 DEF launchVars
    <2>3. Accepted(request)
      BY <2>1, <2>2 DEF LaunchRun
    <2> QED BY <2>1, <2>3, AcceptedIsSound
  <1> QED BY <1>1, InitInv, NextInv, PTL DEF Spec, LaunchFailsClosed

\* A pose in the frame of an untold start is composed only if that start was
\* plausible: within the radius of the true one, or the car has come the rest of
\* the way (support_node.py, START_POSE_RADIUS).
THEOREM NoPoseInWrongFrameHolds == Spec => []NoPoseInWrongFrame
  <1>1. PoseInv => NoPoseInWrongFrame
    BY DEF PoseInv, HoldInv, HeldUntilPlausible
  <1> QED BY <1>1, InitInv, NextInv, PTL DEF Spec

----------------------------------------------------------------------------

(***************************************************************************)
(* The correction is exact                                                 *)
(***************************************************************************)

LEMMA CosSin ==
    ASSUME NEW yaw \in Int
    PROVE  /\ Cos(yaw) \in {-1, 0, 1} /\ Sin(yaw) \in {-1, 0, 1}
           /\ Cos(yaw % 4) = Cos(yaw) /\ Sin(yaw % 4) = Sin(yaw)
  <1>1. yaw % 4 \in 0 .. 3 /\ (yaw % 4) % 4 = yaw % 4
    OBVIOUS
  <1> QED BY <1>1 DEF Cos, Sin

\* Composed with the dead reckoning it was made of, a correction is the truth.
LEMMA CorrectionComposes ==
    ASSUME NEW x \in Int, NEW y \in Int, NEW a \in Int, NEW u \in Int, NEW v \in Int, NEW b \in Int
    PROVE  PlanarCompose(PlanarCorrection(Planar(x, y, a), Planar(u, v, b)), Planar(u, v, b))
               = Planar(x, y, a)
  <1> DEFINE T == Planar(x, y, a)
             D == Planar(u, v, b)
             yaw == T.yaw - D.yaw
             K == PlanarCorrection(T, D)
             C == PlanarCompose(K, D)
  <1>1. /\ T.x = x /\ T.y = y /\ T.yaw = a % 4 /\ D.x = u /\ D.y = v /\ D.yaw = b % 4
        /\ T = [x |-> x, y |-> y, yaw |-> a % 4]
    BY DEF Planar
  <1>2. /\ K.x = T.x - (Cos(yaw) * D.x - Sin(yaw) * D.y)
        /\ K.y = T.y - (Sin(yaw) * D.x + Cos(yaw) * D.y)
        /\ K.yaw = yaw % 4
    <2> HIDE DEF T, D
    <2> QED BY DEF PlanarCorrection, Planar
  <1>3. C = [x |-> K.x + Cos(K.yaw) * D.x - Sin(K.yaw) * D.y,
             y |-> K.y + Sin(K.yaw) * D.x + Cos(K.yaw) * D.y,
             yaw |-> (K.yaw + D.yaw) % 4]
    <2> HIDE DEF T, D, K
    <2> QED BY DEF PlanarCompose, Planar
  <1>4. yaw \in Int /\ a % 4 \in 0 .. 3 /\ b % 4 \in 0 .. 3
    BY <1>1
  <1>5. ((((a % 4) - (b % 4)) % 4) + (b % 4)) % 4 = a % 4
    <2> DEFINE p == a % 4
               q == b % 4
    <2>1. p \in 0 .. 3 /\ q \in 0 .. 3
      OBVIOUS
    <2> HIDE DEF p, q
    <2>2. (((p - q) % 4) + q) % 4 = p
      BY <2>1
    <2> QED BY <2>2 DEF p, q
  <1>6. /\ Cos(yaw) \in Int /\ Sin(yaw) \in Int
        /\ Cos(yaw % 4) = Cos(yaw) /\ Sin(yaw % 4) = Sin(yaw)
    BY <1>4, CosSin
  <1> HIDE DEF T, D, K
  <1>7. (K.yaw + D.yaw) % 4 = a % 4
    BY <1>1, <1>2, <1>5
  <1> HIDE DEF yaw, C
  <1>8. /\ Cos(yaw) * u \in Int /\ Sin(yaw) * v \in Int
        /\ Sin(yaw) * u \in Int /\ Cos(yaw) * v \in Int
    BY <1>6
  <1>9. /\ K.x = x - (Cos(yaw) * u - Sin(yaw) * v)
        /\ K.y = y - (Sin(yaw) * u + Cos(yaw) * v)
        /\ Cos(K.yaw) = Cos(yaw) /\ Sin(K.yaw) = Sin(yaw)
    BY <1>1, <1>2, <1>6
  <1>10. K.x + Cos(yaw) * u - Sin(yaw) * v = x
    BY <1>8, <1>9
  <1>11. K.y + Sin(yaw) * u + Cos(yaw) * v = y
    BY <1>8, <1>9
  <1>12. C = [x |-> x, y |-> y, yaw |-> a % 4]
    BY <1>1, <1>3, <1>7, <1>9, <1>10, <1>11
  <1> QED BY <1>1, <1>12 DEF T, D, K, C

CorrectionInv == OneSampleAStamp /\ CorrectionOfASample

\* A correction is made of two messages of one sample.
LEMMA CorrectionMade ==
    ASSUME PoseInv, CorrectionInv, NEW t \in 0 .. Len(published), NEW d \in 0 .. Len(published),
           PublishCorrection(t, d), UNCHANGED published
    PROVE  CorrectionOfASample'
  <1>1. CASE correction' = correction
    BY <1>1 DEF CorrectionInv, CorrectionOfASample
  <1>2. CASE correction' # correction
    <2>1. /\ t # 0 /\ d # 0 /\ published[t].stamp = published[d].stamp
          /\ correction' = [stamp |-> published[t].stamp,
                            pose |-> PlanarCorrection(TruthOf(published[t]),
                                                      DeadReckoningOf(published[d]))]
      BY <1>2 DEF PublishCorrection
    <2>2. t \in DOMAIN published /\ d \in DOMAIN published
      BY <2>1 DEF PoseInv, TypeOK, SimTypes
    <2>3. published[t] = published[d]
      BY <2>1, <2>2 DEF CorrectionInv, OneSampleAStamp
    <2>4. /\ correction'.stamp = published[t].stamp
          /\ correction'.pose = PlanarCorrection(TruthOf(published[t]),
                                                 DeadReckoningOf(published[t]))
      BY <2>1, <2>3
    <2> QED BY <2>2, <2>4 DEF CorrectionOfASample
  <1> QED BY <1>1, <1>2

LEMMA CorrectionStep ==
    ASSUME ~Reseeds, PoseInv, CorrectionInv, [Next]_vars
    PROVE  CorrectionInv'
  <1> USE PoseGraphAssumption
  <1>1. CASE Publish \/ Reset
    <2>1. correction' = correction
      BY <1>1 DEF Publish, Reset, supportVars
    <2>2. \E s \in Samples :
             /\ published' = Append(published, s)
             /\ published = <<>> \/ s = Newest \/ Newest.stamp < s.stamp
      BY <1>1, PublishedNext, PublishedOnReset
    <2>3. OneSampleAStamp'
      BY <2>2, OneMoreOfAStamp DEF PoseInv, TypeOK, CorrectionInv
    <2>4. \A i \in DOMAIN published : i \in DOMAIN published' /\ published'[i] = published[i]
      BY <2>2 DEF PoseInv, TypeOK, SimTypes
    <2>5. CorrectionOfASample'
      <3> SUFFICES ASSUME correction' # NoCorrection
                   PROVE  \E i \in DOMAIN published' :
                             /\ published'[i].stamp = correction'.stamp
                             /\ correction'.pose = PlanarCorrection(TruthOf(published'[i]),
                                                       DeadReckoningOf(published'[i]))
        BY DEF CorrectionOfASample
      <3>1. PICK i \in DOMAIN published :
               /\ published[i].stamp = correction.stamp
               /\ correction.pose = PlanarCorrection(TruthOf(published[i]),
                                                     DeadReckoningOf(published[i]))
        BY <2>1 DEF CorrectionInv, CorrectionOfASample
      <3> QED BY Zenon, <2>1, <2>4, <3>1
    <2> QED BY <2>3, <2>5 DEF CorrectionInv
  <1>2. ASSUME published' = published, CorrectionOfASample'
        PROVE  CorrectionInv'
    BY <1>2 DEF CorrectionInv, OneSampleAStamp
  <1>3. CASE HandleTruth
    <2>1. PICK t \in Handleable(truth) : PublishCorrection(t, deadReckoning)
      BY <1>3 DEF HandleTruth
    <2>2. /\ t \in 0 .. Len(published) /\ deadReckoning \in 0 .. Len(published)
      BY HeardIsPublished DEF PoseInv, TypeOK, SimTypes, SupportTypes
    <2>3. published' = published
      BY <1>3 DEF HandleTruth, simVars
    <2> QED BY <1>2, <2>1, <2>2, <2>3, CorrectionMade
  <1>4. CASE HandleDeadReckoning
    <2>1. PICK d \in Handleable(deadReckoning) : PublishCorrection(truth, d)
      BY <1>4 DEF HandleDeadReckoning
    <2>2. /\ d \in 0 .. Len(published) /\ truth \in 0 .. Len(published)
      BY HeardIsPublished DEF PoseInv, TypeOK, SimTypes, SupportTypes
    <2>3. published' = published
      BY <1>4 DEF HandleDeadReckoning, simVars
    <2> QED BY <1>2, <2>1, <2>2, <2>3, CorrectionMade
  <1>5. ASSUME published' = published, correction' = correction
        PROVE  CorrectionInv'
    BY <1>5 DEF CorrectionInv, OneSampleAStamp, CorrectionOfASample
  <1>6. CASE LaunchRun
    BY <1>5, <1>6 DEF LaunchRun, supportVars
  <1>7. CASE HandleInitialPose \/ PlaceByHand
    BY <1>5, <1>7 DEF HandleInitialPose, PlaceByHand, simVars
  <1>8. CASE Estimate
    BY <1>5, <1>8 DEF Estimate, simVars, supportVars
  <1>9. CASE EvaluateTruth \/ EvaluateEstimate
    BY <1>5, <1>9 DEF EvaluateTruth, EvaluateEstimate, simVars, supportVars
  <1>10. CASE UNCHANGED vars
    BY <1>5, <1>10 DEF vars, simVars, supportVars
  <1> QED BY <1>1, <1>3, <1>4, <1>6, <1>7, <1>8, <1>9, <1>10 DEF Next

LEMMA CorrectionIsExact == PoseInv /\ CorrectionInv => CorrectionExact
  <1> SUFFICES ASSUME PoseInv, CorrectionInv, NEW i \in DOMAIN published,
                      correction # NoCorrection, published[i].stamp = correction.stamp
               PROVE  PlanarCompose(correction.pose, DeadReckoningOf(published[i]))
                          = TruthOf(published[i])
    BY DEF CorrectionExact
  <1>1. PICK j \in DOMAIN published :
           /\ published[j].stamp = correction.stamp
           /\ correction.pose = PlanarCorrection(TruthOf(published[j]),
                                                 DeadReckoningOf(published[j]))
    BY DEF CorrectionInv, CorrectionOfASample
  <1>2. published[i] = published[j]
    BY <1>1 DEF CorrectionInv, OneSampleAStamp
  <1>3. published[i] \in Samples
    BY DEF PoseInv, TypeOK, SimTypes
  <1>4. published[i].moved \in Int /\ published[i].run \in Int
    BY <1>3 DEF Samples
  <1>5. /\ 2 * published[i].moved \in Int /\ published[i].run + published[i].moved \in Int
    BY <1>4
  <1>6. PlanarCompose(PlanarCorrection(TruthOf(published[i]), DeadReckoningOf(published[i])),
                      DeadReckoningOf(published[i])) = TruthOf(published[i])
    BY <1>4, <1>5, CorrectionComposes DEF TruthOf, DeadReckoningOf
  <1> QED BY Zenon, <1>1, <1>2, <1>6

\* Where a reset does not put a held car somewhere else, what is broadcast for
\* an instant is the exact correction of that instant.
THEOREM CorrectionExactHolds ==
    ASSUME ~Reseeds
    PROVE  Spec => []CorrectionExact
  <1>1. Init => PoseInv /\ CorrectionInv
    BY InitInv DEF CorrectionInv
  <1>2. PoseInv /\ CorrectionInv /\ [Next]_vars => PoseInv' /\ CorrectionInv'
    BY NextInv, CorrectionStep
  <1> QED BY <1>1, <1>2, CorrectionIsExact, PTL DEF Spec

----------------------------------------------------------------------------

(***************************************************************************)
(* The live scores agree with those made offline                           *)
(***************************************************************************)

\* Of some subsets of a finite set one has none of the others within it.
LEMMA LeastSubset ==
    ASSUME NEW S, IsFiniteSet(S), NEW T \in SUBSET (SUBSET S), T # {}
    PROVE  \E m \in T : \A u \in T : u \subseteq m => u = m
  <1>1. IsWellFoundedOn(StrictSubsetOrdering(S), SUBSET S)
    BY FS_StrictSubsetOrderingWellFounded, FS_FiniteSubsetsOfFinite
  <1>2. PICK m \in T : \A u \in T : ~ (<<u, m>> \in StrictSubsetOrdering(S))
    BY <1>1, WFMin
  <1>3. ASSUME NEW u \in T, u \subseteq m, u # m PROVE FALSE
    <2>1. <<u, m>> \in StrictSubsetOrdering(S)
      BY <1>3 DEF StrictSubsetOrdering
    <2> QED BY <1>2, <2>1
  <1> QED BY <1>3

\* A number that is bounded is at its greatest somewhere.
LEMMA GreatestNumber ==
    ASSUME NEW n \in Nat, NEW S \in SUBSET (0 .. n), S # {}
    PROVE  \E x \in S : \A y \in S : y <= x
  <1> DEFINE all == 0 .. n
             above == {x + 1 .. n : x \in S}
  <1>1. above \in SUBSET (SUBSET all) /\ above # {}
    <2>1. \A x \in S : x + 1 .. n \in SUBSET all
      OBVIOUS
    <2> HIDE DEF all
    <2> QED BY <2>1
  <1>2. IsFiniteSet(all)
    BY FS_Interval
  <1>3. PICK m \in above : \A u \in above : u \subseteq m => u = m
    <2> HIDE DEF above, all
    <2> QED BY <1>1, <1>2, LeastSubset
  <1>4. PICK x \in S : m = x + 1 .. n
    BY <1>3
  <1>5. ASSUME NEW y \in S, x < y PROVE FALSE
    <2>1. y + 1 .. n \in above /\ y + 1 .. n \subseteq m
      BY <1>4, <1>5
    <2>2. y \in m /\ y \notin y + 1 .. n
      BY <1>4, <1>5
    <2> HIDE DEF above
    <2> QED BY <1>3, <2>1, <2>2
  <1> QED BY <1>5

\* Of some numbers one is the least.
LEMMA LeastNumber ==
    ASSUME NEW S \in SUBSET Nat, S # {}
    PROVE  \E x \in S : \A y \in S : x <= y
  <1>1. PICK n \in S : TRUE
    OBVIOUS
  <1> DEFINE below == {n - x : x \in {y \in S : y <= n}}
  <1>2. n \in Nat /\ below \in SUBSET (0 .. n) /\ below # {}
    <2>1. n \in Nat /\ n \in {y \in S : y <= n}
      OBVIOUS
    <2>2. \A x \in {y \in S : y <= n} : n - x \in 0 .. n
      OBVIOUS
    <2> DEFINE all == 0 .. n
               least == {y \in S : y <= n}
    <2> HIDE DEF all, least
    <2>3. below \in SUBSET all /\ below # {}
      BY <2>1, <2>2 DEF all, least
    <2> QED BY <2>1, <2>3 DEF all
  <1>3. PICK d \in below : \A e \in below : e <= d
    <2> HIDE DEF below
    <2> QED BY <1>2, GreatestNumber
  <1>4. PICK x \in S : x <= n /\ d = n - x
    BY <1>3
  <1>5. ASSUME NEW y \in S, y < x PROVE FALSE
    <2>1. n - y \in below /\ n - y > d
      BY <1>4, <1>5
    <2> HIDE DEF below
    <2> QED BY <1>2, <1>3, <2>1
  <1> QED BY <1>5

LEMMA MaxIsGreatest ==
    ASSUME NEW n \in Nat, NEW S \in SUBSET (0 .. n), S # {}
    PROVE  Max(S) \in S /\ \A y \in S : y <= Max(S)
  BY GreatestNumber DEF Max

Sorted(s) == \A i, j \in DOMAIN s : i <= j => s[i] <= s[j]

\* bisect_left splits a sorted sequence.
LEMMA BeforeSplits ==
    ASSUME NEW s \in Seq(Nat), Sorted(s), NEW stamp \in Int
    PROVE  /\ Before(s, stamp) \in 0 .. Len(s)
           /\ \A i \in DOMAIN s : i <= Before(s, stamp) <=> s[i] < stamp
  <1> DEFINE B == {i \in DOMAIN s : s[i] < stamp}
  <1>1. CASE B = {}
    <2>1. Before(s, stamp) = 0
      BY <1>1, FS_EmptySet DEF Before
    <2> QED BY <1>1, <2>1
  <1>2. CASE B # {}
    <2>1. B \in SUBSET (0 .. Len(s)) /\ Len(s) \in Nat
      OBVIOUS
    <2>2. PICK k \in B : \A i \in B : i <= k
      <3> HIDE DEF B
      <3> QED BY <1>2, <2>1, GreatestNumber
    <2>3. k \in 1 .. Len(s) /\ s[k] < stamp
      OBVIOUS
    <2>4. B = 1 .. k
      <3>1. ASSUME NEW i \in 1 .. k PROVE i \in B
        <4>1. i \in DOMAIN s /\ s[i] <= s[k] /\ s[i] \in Nat /\ s[k] \in Nat
          BY <2>3, <3>1 DEF Sorted
        <4> QED BY <2>3, <4>1
      <3> QED BY <2>2, <3>1
    <2>5. Cardinality(1 .. k) = k
      BY <2>3, FS_Interval
    <2>6. Before(s, stamp) = k
      BY <2>4, <2>5 DEF Before
    <2> QED BY <2>3, <2>4, <2>6
  <1> QED BY <1>1, <1>2

LEMMA MaxIs ==
    ASSUME NEW S, NEW x \in S, \A y \in S : y \in Int /\ y <= x
    PROVE  Max(S) = x
  <1>1. \E m \in S : \A y \in S : m >= y
    OBVIOUS
  <1>2. Max(S) \in S /\ \A y \in S : Max(S) >= y
    BY <1>1, Zenon DEF Max
  <1>3. Max(S) \in Int /\ x \in Int /\ Max(S) >= x /\ Max(S) <= x
    BY <1>2
  <1> QED BY <1>3

LEMMA MinIs ==
    ASSUME NEW S, NEW x \in S, \A y \in S : y \in Int /\ x <= y
    PROVE  Min(S) = x
  <1>1. \E m \in S : \A y \in S : m <= y
    OBVIOUS
  <1>2. Min(S) \in S /\ \A y \in S : Min(S) <= y
    BY <1>1, Zenon DEF Min
  <1>3. Min(S) \in Int /\ x \in Int /\ Min(S) >= x /\ Min(S) <= x
    BY <1>2
  <1> QED BY <1>3

\* The oldest stamp that may still be asked about.
Horizon(a) == IF a.pending = <<>> THEN a.latest ELSE Head(a.pending)

\* The aligner holds what it has heard, but for estimates older than one that is
\* itself before the horizon.
AlignerHolds(a, known) ==
    /\ a \in [estimates : Seq(Nat), pending : Seq(Nat), latest : Int]
    /\ Sorted(a.estimates) /\ Sorted(a.pending)
    /\ \A i \in DOMAIN a.pending : a.pending[i] <= a.latest
    /\ \A i \in DOMAIN a.estimates : a.estimates[i] \in known
    /\ \A h \in known :
          \/ \E i \in DOMAIN a.estimates : a.estimates[i] = h
          \/ /\ a.estimates # <<>>
             /\ h <= a.estimates[1] /\ a.estimates[1] < Horizon(a)

\* So what it says of a stamp that an estimate has reached is what is said offline
\* of everything it heard.
LEMMA SaysAsOffline ==
    ASSUME NEW a, NEW known \in SUBSET Nat, AlignerHolds(a, known),
           NEW stamp \in Nat, Horizon(a) <= stamp,
           \E i \in DOMAIN a.estimates : a.estimates[i] >= stamp
    PROVE  EstimateAt(a.estimates, stamp) = Offline(known, stamp)
  <1> DEFINE E == a.estimates
             k == Before(E, stamp)
             earlier == {e \in known : e < stamp}
             later == {e \in known : e > stamp}
  <1>0. \A h \in known : h \in Int
    <2> \A h \in Nat : h \in Int
      OBVIOUS
    <2> QED BY Zenon
  <1>1. E \in Seq(Nat) /\ Len(E) \in Nat /\ Horizon(a) \in Int
    BY DEF AlignerHolds, Horizon
  <1>2. /\ k \in 0 .. Len(E)
        /\ \A i \in DOMAIN E : i <= k <=> E[i] < stamp
    BY <1>1, BeforeSplits DEF AlignerHolds
  <1>3. /\ \A i, j \in DOMAIN E : i <= j => E[i] <= E[j]
        /\ \A i \in DOMAIN E : E[i] \in known /\ E[i] \in Nat
    BY <1>1 DEF AlignerHolds, Sorted
  <1>4. \A h \in known : \/ \E i \in DOMAIN E : E[i] = h
                         \/ E # <<>> /\ h <= E[1] /\ E[1] < stamp
    BY <1>1, <1>3 DEF AlignerHolds
  <1>5. PICK r \in DOMAIN E : E[r] >= stamp
    OBVIOUS
  <1> HIDE DEF E, k
  <1>6. k + 1 \in DOMAIN E /\ E[k + 1] >= stamp /\ E[k + 1] \in known /\ E[k + 1] \in Nat
    <2>1. ~(r <= k)
      BY <1>2, <1>3, <1>5
    <2>2. k + 1 \in DOMAIN E
      BY <1>1, <1>2, <1>5, <2>1
    <2>3. ~(k + 1 <= k)
      BY <1>2
    <2> QED BY <1>2, <1>3, <2>2, <2>3
  <1>7. CASE E[k + 1] = stamp
    <2>1. Offline(known, stamp) = {stamp}
      BY <1>6, <1>7 DEF Offline
    <2>2. EstimateAt(E, stamp) = {stamp}
      BY <1>1, <1>2, <1>6, <1>7 DEF EstimateAt, k
    <2> QED BY <2>1, <2>2 DEF E
  <1>8. CASE E[k + 1] # stamp
    <2>1. E[k + 1] > stamp
      BY <1>6, <1>8
    <2>2. ASSUME NEW i \in DOMAIN E 
          PROVE  \/ E[i] < stamp /\ i <= k
                 \/ E[i] >= E[k + 1]
      <3>1. i \in Nat /\ k \in Nat
        BY <1>1, <1>2
      <3>2. i <= k \/ k + 1 <= i
        BY <3>1
      <3> QED BY <1>2, <1>3, <1>6, <3>2
    <2>3. stamp \notin known
      <3> SUFFICES ASSUME stamp \in known PROVE FALSE
        OBVIOUS
      <3>1. CASE \E i \in DOMAIN E : E[i] = stamp
        <4>1. PICK i \in DOMAIN E : E[i] = stamp
          BY <3>1
        <4>2. E[i] >= E[k + 1]
          BY <2>2, <4>1
        <4> QED BY <1>6, <2>1, <4>1, <4>2
      <3>2. CASE stamp <= E[1] /\ E[1] < stamp /\ E # <<>>
        <4>1. 1 \in DOMAIN E
          BY <1>1, <3>2
        <4> QED BY <1>3, <3>2, <4>1
      <3> QED BY <1>4, <3>1, <3>2
    <2>4. E[k + 1] \in later /\ \A h \in later : h \in Int /\ E[k + 1] <= h
      <3>1. ASSUME NEW h \in later PROVE E[k + 1] <= h
        <4>1. CASE \E i \in DOMAIN E : E[i] = h
          <5>1. PICK i \in DOMAIN E : E[i] = h
            BY <4>1
          <5>2. h \in Nat /\ stamp < h
            OBVIOUS
          <5>3. ~(E[i] < stamp) /\ E[i] \in Nat
            BY <5>1, <5>2
          <5>4. E[i] >= E[k + 1]
            BY <2>2, <5>3
          <5> QED BY <1>6, <5>1, <5>3, <5>4
        <4>2. CASE h <= E[1] /\ E[1] < stamp /\ E # <<>>
          <5>1. 1 \in DOMAIN E
            BY <1>1, <4>2
          <5>2. E[1] \in Nat /\ h \in Int
            BY <1>0, <1>3, <5>1
          <5>3. h > stamp
            OBVIOUS
          <5> QED BY <4>2, <5>2, <5>3
        <4> QED BY <1>4, <3>1, <4>1, <4>2
      <3>2. E[k + 1] \in later /\ \A h \in later : h \in Int
        BY <1>6, <2>1
      <3> QED BY <3>1, <3>2
    <2>5. Min(later) = E[k + 1] /\ later # {}
      <3> HIDE DEF later
      <3> QED BY <2>4, MinIs
    <2>6. CASE k = 0
      <3>1. earlier = {}
        <4> SUFFICES ASSUME NEW h \in known, h < stamp PROVE FALSE
          OBVIOUS
        <4>1. \A i \in DOMAIN E : E[i] > stamp
          BY <1>1, <1>3, <1>6, <2>1, <2>2, <2>6
        <4>2. 1 \in DOMAIN E
          BY <1>6, <2>6
        <4> QED BY <1>3, <1>4, <4>1, <4>2
      <3>2. Offline(known, stamp) = {}
        BY <2>3, <3>1 DEF Offline
      <3>3. EstimateAt(E, stamp) = {}
        BY <1>1, <1>6, <1>8, <2>6 DEF EstimateAt, k
      <3> QED BY <3>2, <3>3 DEF E
    <2>7. CASE k # 0
      <3>1. k \in DOMAIN E /\ 1 \in DOMAIN E /\ 1 <= k /\ E[k] < stamp
        BY <1>1, <1>2, <2>7
      <3>2. E[k] \in earlier /\ \A h \in earlier : h \in Int /\ h <= E[k]
        <4>1. ASSUME NEW h \in earlier PROVE h <= E[k]
          <5>1. CASE \E i \in DOMAIN E : E[i] = h
            <6>1. PICK i \in DOMAIN E : E[i] = h
              BY <5>1
            <6>2. i <= k
              BY <1>2, <6>1
            <6> QED BY <1>3, <3>1, <6>1, <6>2
          <5>2. CASE h <= E[1]
            <6>1. E[1] <= E[k] /\ h \in Nat /\ E[1] \in Nat /\ E[k] \in Nat
              BY <1>3, <3>1, <4>1
            <6> QED BY <5>2, <6>1
          <5> QED BY <1>4, <4>1, <5>1, <5>2
        <4>2. E[k] \in earlier
          BY <1>3, <3>1
        <4>3. \A h \in earlier : h \in Int
          BY Zenon, <1>0
        <4> QED BY <4>1, <4>2, <4>3
      <3>3. Max(earlier) = E[k] /\ earlier # {}
        <4> HIDE DEF earlier
        <4> QED BY <3>2, MaxIs
      <3>4. Offline(known, stamp)
                = IF E[k + 1] - E[k] > Window THEN {} ELSE {E[k], E[k + 1]}
        BY <2>3, <2>5, <3>3 DEF Offline
      <3>5. EstimateAt(E, stamp)
                = IF E[k + 1] - E[k] > Window THEN {} ELSE {E[k], E[k + 1]}
        <4>1. ~(k + 1 > Len(E))
          BY <1>1, <1>6
        <4> QED BY <1>8, <2>7, <4>1 DEF EstimateAt, k
      <3> QED BY <3>4, <3>5 DEF E
    <2> QED BY <2>6, <2>7
  <1> QED BY <1>7, <1>8

\* Where no estimate has reached it, the aligner says nothing.
LEMMA SaysNothing ==
    ASSUME NEW E \in Seq(Nat), Sorted(E), NEW stamp \in Nat,
           \A i \in DOMAIN E : E[i] < stamp
    PROVE  EstimateAt(E, stamp) = {}
  <1>1. Before(E, stamp) \in 0 .. Len(E) /\ \A i \in DOMAIN E : i <= Before(E, stamp)
    BY BeforeSplits
  <1>2. Before(E, stamp) = Len(E)
    <2>1. Len(E) \in Nat /\ (Len(E) = 0 \/ Len(E) \in DOMAIN E)
      OBVIOUS
    <2> QED BY <1>1, <2>1
  <1> QED BY <1>2 DEF EstimateAt

\* What is said offline of a stamp an estimate has reached is not changed by later
\* estimates.
LEMMA OfflineStays ==
    ASSUME NEW known \in SUBSET Nat, NEW stamp \in Nat, NEW h \in known, stamp <= h,
           NEW new \in Nat, \A e \in known : e <= new
    PROVE  Offline(known \cup {new}, stamp) = Offline(known, stamp)
  <1> DEFINE all == known \cup {new}
  <1>1. CASE stamp \in known
    BY <1>1 DEF Offline
  <1>2. CASE stamp \notin known
    <2>1. h > stamp /\ new > stamp
      BY <1>2
    <2>2. stamp \notin all /\ {e \in all : e < stamp} = {e \in known : e < stamp}
      BY <1>2, <2>1
    <2> DEFINE later == {e \in known : e > stamp}
               laterAll == {e \in all : e > stamp}
    <2>3. later # {} /\ laterAll # {}
      BY <2>1
    <2>4. PICK x \in later : \A y \in later : x <= y
      <3>1. later \in SUBSET Nat
        OBVIOUS
      <3> HIDE DEF later
      <3> QED BY <2>3, <3>1, LeastNumber
    <2>5. x \in laterAll /\ \A y \in laterAll : x <= y
      BY <2>4
    <2>6. Min(later) = x /\ Min(laterAll) = x
      <3>1. all \in SUBSET Nat
        OBVIOUS
      <3>2. /\ \A y \in later : y \in Int
            /\ \A y \in laterAll : y \in Int
        BY <3>1
      <3> HIDE DEF later, laterAll
      <3> QED BY <2>4, <2>5, <3>2, MinIs
    <2> QED BY <1>2, <2>2, <2>3, <2>6 DEF Offline
  <1> QED BY <1>1, <1>2
\* How many of the waiting samples are resolved.
LEMMA RipeIsSome ==
    ASSUME NEW a, a.pending \in Seq(Nat)
    PROVE  Ripe(a) \in 0 .. Len(a.pending)
  <1> DEFINE n == Len(a.pending)
             S == {m \in 0 .. n : \A i \in 1 .. m : Decided(a, a.pending[i])}
  <1>1. n \in Nat /\ S \in SUBSET (0 .. n)
    OBVIOUS
  <1>2. 0 \in S
    BY <1>1
  <1>3. Ripe(a) = Max(S)
    BY DEF Ripe
  <1> HIDE DEF S, n
  <1>4. Ripe(a) \in S
    BY <1>1, <1>2, <1>3, MaxIsGreatest
  <1> QED BY <1>1, <1>4 DEF n

\* What has been scored: for every sample, what is said offline of all that was
\* heard, which reaches it; or nothing, once it was given up.
Scores == [stamp : Nat, from : SUBSET Nat, timedOut : BOOLEAN]

ScoredAs(known, score) ==
    \/ /\ score.from = Offline(known, score.stamp)
       /\ \E h \in known : score.stamp <= h
    \/ score.from = {} /\ score.timedOut

ScoresHold(a, known, said) ==
    /\ said \in Seq(Scores)
    /\ \A i \in DOMAIN said : said[i].stamp <= Horizon(a) /\ ScoredAs(known, said[i])
    /\ \A i, j \in DOMAIN said : i <= j => said[i].stamp <= said[j].stamp

\* The next samples are scored as offline.
LEMMA ResolvedAsOffline ==
    ASSUME NEW a, NEW known \in SUBSET Nat, AlignerHolds(a, known),
           NEW i \in 1 .. Len(a.pending)
    PROVE  LET score == [stamp |-> a.pending[i],
                         from |-> EstimateAt(a.estimates, a.pending[i]),
                         timedOut |-> ~\E j \in DOMAIN a.estimates :
                                           a.estimates[j] >= a.pending[i]]
           IN score \in Scores /\ ScoredAs(known, score)
  <1> DEFINE E == a.estimates
             stamp == a.pending[i]
             reached == \E j \in DOMAIN E : E[j] >= stamp
             score == [stamp |-> stamp, from |-> EstimateAt(E, stamp), timedOut |-> ~reached]
  <1>1. /\ E \in Seq(Nat) /\ a.pending \in Seq(Nat) /\ Sorted(E) /\ Sorted(a.pending)
        /\ \A j \in DOMAIN E : E[j] \in known /\ E[j] \in Nat
    BY DEF AlignerHolds
  <1>2. stamp \in Nat /\ Horizon(a) <= stamp
    <2>1. a.pending # <<>> /\ 1 \in DOMAIN a.pending /\ i \in DOMAIN a.pending /\ 1 <= i
      BY <1>1
    <2>2. Horizon(a) = a.pending[1]
      BY <1>1, <2>1 DEF Horizon
    <2> QED BY <1>1, <2>1, <2>2 DEF Sorted
  <1>3. /\ score.stamp = stamp /\ score.from = EstimateAt(E, stamp)
        /\ score.timedOut = ~reached
    OBVIOUS
  <1>4. reached \in BOOLEAN
    OBVIOUS
  <1>5. EstimateAt(E, stamp) \in SUBSET Nat
    <2> HIDE DEF E, stamp
    <2>1. Before(E, stamp) \in 0 .. Len(E) /\ Len(E) \in Nat
      <3>1. stamp \in Int /\ Len(E) \in Nat
        BY <1>1, <1>2
      <3> QED BY <1>1, <3>1, BeforeSplits
    <2> DEFINE k == Before(E, stamp)
    <2>2. CASE k + 1 > Len(E)
      BY <2>2 DEF EstimateAt
    <2>3. CASE ~(k + 1 > Len(E))
      <3>1. E[k + 1] \in Nat
        BY <1>1, <2>1, <2>3
      <3>2. k # 0 => E[k] \in Nat
        BY <1>1, <2>1, <2>3
      <3> HIDE DEF k
      <3>3. EstimateAt(E, stamp) = {} \/ EstimateAt(E, stamp) = {stamp}
               \/ (k # 0 /\ EstimateAt(E, stamp) = {E[k], E[k + 1]})
        BY <2>3 DEF EstimateAt, k
      <3> QED BY <1>2, <3>1, <3>2, <3>3
    <2> QED BY <2>2, <2>3
  <1>6. score \in Scores
    <2> HIDE DEF reached, stamp
    <2>1. \A from \in SUBSET Nat, out \in BOOLEAN :
             [stamp |-> stamp, from |-> from, timedOut |-> ~out] \in Scores
      BY <1>2 DEF Scores
    <2> QED BY <1>4, <1>5, <2>1
  <1>7. ScoredAs(known, score)
    <2>1. CASE reached
      <3>1. EstimateAt(E, stamp) = Offline(known, stamp)
        BY <1>2, <2>1, SaysAsOffline
      <3>2. PICK j \in DOMAIN E : E[j] >= stamp
        BY <2>1
      <3>3. E[j] \in known /\ stamp <= E[j]
        BY <1>1, <1>2, <3>2
      <3> HIDE DEF score, reached, E, stamp
      <3> QED BY Zenon, <1>3, <3>1, <3>3 DEF ScoredAs
    <2>2. CASE ~reached
      <3>1. \A j \in DOMAIN E : E[j] < stamp
        BY <1>1, <1>2, <2>2
      <3>2. EstimateAt(E, stamp) = {}
        BY <1>1, <1>2, <3>1, SaysNothing
      <3> HIDE DEF score, reached, E, stamp
      <3>3. score.from = {} /\ score.timedOut
        BY Zenon, <1>3, <2>2, <3>2
      <3> QED BY Zenon, <3>3 DEF ScoredAs
    <2> QED BY <2>1, <2>2
  <1> QED BY <1>6, <1>7

\* What is left to align keeps what may still be asked about.
LEMMA RemainingHolds ==
    ASSUME NEW a, NEW known \in SUBSET Nat, AlignerHolds(a, known)
    PROVE  /\ AlignerHolds(Remaining(a), known)
           /\ Horizon(a) <= Horizon(Remaining(a)) /\ Horizon(Remaining(a)) \in Int
           /\ Horizon(a) \in Int
           /\ \A i \in 1 .. Ripe(a) : a.pending[i] <= Horizon(Remaining(a))
  <1> DEFINE E == a.estimates
             P == a.pending
             n == Ripe(a)
             left == SubSeq(P, n + 1, Len(P))
             horizon == IF left = <<>> THEN a.latest ELSE Head(left)
             from == KeepFrom(E, horizon)
             kept == SubSeq(E, from + 1, Len(E))
             b == Remaining(a)
  <1>1. /\ E \in Seq(Nat) /\ P \in Seq(Nat) /\ a.latest \in Int /\ Sorted(E) /\ Sorted(P)
        /\ \A i \in DOMAIN P : P[i] <= a.latest
        /\ \A i \in DOMAIN E : E[i] \in known
    BY DEF AlignerHolds
  <1>2. n \in 0 .. Len(P) /\ Len(P) \in Nat /\ Len(E) \in Nat
    BY <1>1, RipeIsSome
  <1>3. /\ b \in [estimates : {kept}, pending : {left}, latest : {a.latest}]
        /\ b.estimates = kept /\ b.pending = left /\ b.latest = a.latest
    <2>1. a \in [estimates : Seq(Nat), pending : Seq(Nat), latest : Int]
      BY DEF AlignerHolds
    <2>2. b = [a EXCEPT !.pending = left, !.estimates = kept]
      BY DEF Remaining
    <2> HIDE DEF b, left, kept
    <2> QED BY <2>1, <2>2
  <1>4. Horizon(b) = horizon
    <2> HIDE DEF b
    <2> QED BY <1>3 DEF Horizon
  <1> HIDE DEF b, n
  <1>5. /\ left \in Seq(Nat) /\ Len(left) = Len(P) - n
        /\ \A i \in DOMAIN left : left[i] = P[n + i] /\ n + i \in DOMAIN P
    BY <1>1, <1>2
  <1>6. /\ Sorted(left)
        /\ \A i \in DOMAIN left : left[i] <= a.latest
    <2> HIDE DEF left
    <2>1. ASSUME NEW i \in DOMAIN left, NEW j \in DOMAIN left, i <= j PROVE left[i] <= left[j]
      <3>1. i \in Nat /\ j \in Nat /\ n \in Nat
        <4>1. DOMAIN left = 1 .. Len(left)
          BY <1>5
        <4>2. n \in Nat
          BY <1>2
        <4> QED BY <4>1, <4>2
      <3>2. n + i <= n + j
        BY <2>1, <3>1
      <3> QED BY <1>1, <1>5, <3>2 DEF Sorted
    <2> QED BY <1>1, <1>5, <2>1 DEF Sorted
  <1>7. left # <<>> => /\ horizon = P[n + 1] /\ n + 1 \in DOMAIN P /\ P[n + 1] \in Nat
                       /\ P # <<>>
    <2> HIDE DEF left
    <2>1. left # <<>> => 1 \in DOMAIN left /\ Head(left) = left[1]
      BY <1>5
    <2> QED BY <1>1, <1>5, <2>1
  <1>8. left = <<>> => horizon = a.latest
    OBVIOUS
  <1>9. horizon \in Int
    BY <1>1, <1>7, <1>8
  <1> HIDE DEF left, horizon
  <1>10. Horizon(a) \in Int /\ Horizon(a) <= horizon
    <2>1. CASE P = <<>>
      <3>1. left = <<>>
        BY <1>7, <2>1
      <3>2. Horizon(a) = a.latest
        BY <2>1 DEF Horizon
      <3> QED BY <1>1, <1>8, <3>1, <3>2
    <2>2. CASE P # <<>>
      <3>1. Horizon(a) = P[1] /\ 1 \in DOMAIN P /\ P[1] \in Nat
        BY <1>1, <2>2 DEF Horizon
      <3>2. CASE left = <<>>
        BY <1>1, <1>8, <3>1, <3>2
      <3>3. CASE left # <<>>
        <4>1. 1 <= n + 1
          BY <1>2
        <4> QED BY <1>1, <1>7, <3>1, <3>3, <4>1 DEF Sorted
      <3> QED BY <3>2, <3>3
    <2> QED BY <2>1, <2>2
  <1>11. ASSUME NEW i \in 1 .. n PROVE P[i] <= horizon
    <2>1. i \in DOMAIN P /\ i <= n + 1
      BY <1>1, <1>2
    <2>2. CASE left = <<>>
      BY <1>1, <1>8, <2>1, <2>2
    <2>3. CASE left # <<>>
      BY <1>1, <1>7, <2>1, <2>3 DEF Sorted
    <2> QED BY <2>2, <2>3
  <1>12. /\ Before(E, horizon) \in 0 .. Len(E)
         /\ \A i \in DOMAIN E : i <= Before(E, horizon) <=> E[i] < horizon
    BY <1>1, <1>9, BeforeSplits
  <1>13. PICK k \in 0 .. Len(E) : k = Before(E, horizon)
    BY <1>12
  <1>14. from = IF k = 0 THEN 0 ELSE k - 1
    BY <1>13 DEF KeepFrom
  <1>15. from \in 0 .. Len(E) /\ from <= k /\ (k # 0 => from + 1 = k)
    BY <1>2, <1>13, <1>14
  <1> HIDE DEF from
  <1>16. /\ kept \in Seq(Nat) /\ Len(kept) = Len(E) - from
         /\ \A i \in DOMAIN kept : kept[i] = E[from + i] /\ from + i \in DOMAIN E
         /\ DOMAIN kept = 1 .. Len(E) - from
    <2>1. from \in Nat /\ from + 1 \in 1 .. Len(E) + 1 /\ Len(E) - (from + 1) + 1 = Len(E) - from
      BY <1>2, <1>15
    <2>2. kept \in Seq(Nat)
      BY <1>1, <1>2, <2>1
    <2>3. Len(kept) = Len(E) - from
      BY <1>1, <1>2, <1>15
    <2>4. DOMAIN kept = 1 .. Len(E) - from
      BY <2>2, <2>3
    <2>5. ASSUME NEW i \in 1 .. Len(E) - from
          PROVE  kept[i] = E[from + i] /\ from + i \in DOMAIN E
      BY <1>1, <1>2, <1>15, <2>1
    <2> HIDE DEF kept
    <2> QED BY <2>2, <2>3, <2>4, <2>5
  <1> HIDE DEF kept
  <1>17. Sorted(kept)
    <2> SUFFICES ASSUME NEW i \in DOMAIN kept, NEW j \in DOMAIN kept, i <= j
                 PROVE  kept[i] <= kept[j]
      BY DEF Sorted
    <2>1. i \in Nat /\ j \in Nat /\ from + i <= from + j
      BY <1>15, <1>16
    <2> QED BY <1>1, <1>16, <2>1 DEF Sorted
  <1>18. \A i \in DOMAIN kept : kept[i] \in known
    BY <1>1, <1>16
  <1>19. k # 0 => /\ 1 \in DOMAIN kept /\ kept[1] = E[k] /\ k \in DOMAIN E /\ E[k] < horizon
                  /\ kept # <<>>
    <2> SUFFICES ASSUME k # 0
                 PROVE  /\ 1 \in DOMAIN kept /\ kept[1] = E[k] /\ k \in DOMAIN E
                        /\ E[k] < horizon /\ kept # <<>>
      OBVIOUS
    <2>1. k \in DOMAIN E /\ from + 1 = k
      BY <1>1, <1>13, <1>15
    <2>2. 1 \in DOMAIN kept
      BY <1>2, <1>13, <1>15, <1>16, <2>1
    <2>3. kept # <<>>
      BY <1>16, <2>2
    <2> QED BY <1>12, <1>13, <1>16, <2>1, <2>2, <2>3
  <1>20. ASSUME NEW h \in known
         PROVE  \/ \E i \in DOMAIN kept : kept[i] = h
                \/ kept # <<>> /\ h <= kept[1] /\ kept[1] < horizon
    <2>1. CASE \E i \in DOMAIN E : E[i] = h
      <3>1. PICK i \in DOMAIN E : E[i] = h
        BY <2>1
      <3>2. i \in 1 .. Len(E)
        BY <1>1
      <3>3. CASE i > from
        <4>1. i - from \in 1 .. Len(E) - from /\ from + (i - from) = i
          BY <1>2, <1>15, <3>2, <3>3
        <4> QED BY <1>16, <3>1, <4>1
      <3>4. CASE ~(i > from)
        <4>1. k # 0 /\ i <= k
          BY <1>13, <1>14, <1>15, <3>2, <3>4
        <4>2. E[i] <= E[k]
          BY <1>1, <1>19, <4>1 DEF Sorted
        <4> QED BY <1>19, <3>1, <4>1, <4>2
      <3> QED BY <3>3, <3>4
    <2>2. CASE E # <<>> /\ h <= E[1] /\ E[1] < Horizon(a)
      <3>1. 1 \in DOMAIN E /\ E[1] \in Nat
        BY <1>1, <2>2
      <3>2. E[1] < horizon
        BY <1>9, <1>10, <2>2, <3>1
      <3>3. 1 <= k
        BY <1>12, <1>13, <3>1, <3>2
      <3>4. E[1] <= E[k] /\ E[k] \in Nat /\ k # 0
        BY <1>1, <1>13, <1>19, <3>1, <3>3 DEF Sorted
      <3>5. h <= E[k]
        <4>1. h \in Nat /\ h <= E[1]
          BY <2>2
        <4> HIDE DEF E
        <4> QED BY <3>1, <3>4, <4>1
      <3> QED BY <1>19, <3>4, <3>5
    <2> QED BY <2>1, <2>2 DEF AlignerHolds
  <1>21. AlignerHolds(b, known)
    <2>1. b \in [estimates : Seq(Nat), pending : Seq(Nat), latest : Int]
      BY <1>1, <1>3, <1>5, <1>16
    <2> QED BY <1>3, <1>4, <1>6, <1>17, <1>18, <1>20, <2>1 DEF AlignerHolds
  <1> QED BY <1>4, <1>9, <1>10, <1>11, <1>21 DEF b, n

\* What _publish sends for an aligner that resolves.
Sent(a) ==
    [i \in DOMAIN Resolved(a) |->
        [stamp |-> Resolved(a)[i].stamp,
         from |-> Resolved(a)[i].from,
         timedOut |-> ~\E j \in DOMAIN a.estimates :
                           a.estimates[j] >= Resolved(a)[i].stamp]]

LEMMA SentIs ==
    ASSUME NEW a, NEW known \in SUBSET Nat, AlignerHolds(a, known)
    PROVE  /\ Sent(a) \in Seq(Scores) /\ Len(Sent(a)) = Ripe(a)
           /\ \A i \in 1 .. Ripe(a) : /\ Sent(a)[i].stamp = a.pending[i]
                                      /\ i \in DOMAIN a.pending
                                      /\ ScoredAs(known, Sent(a)[i])
  <1>1. /\ a.pending \in Seq(Nat) /\ Len(a.pending) \in Nat
        /\ Ripe(a) \in 0 .. Len(a.pending)
    BY RipeIsSome DEF AlignerHolds
  <1> DEFINE ScoreOf(i) == [stamp |-> a.pending[i],
                            from |-> EstimateAt(a.estimates, a.pending[i]),
                            timedOut |-> ~\E j \in DOMAIN a.estimates :
                                              a.estimates[j] >= a.pending[i]]
  <1>2. /\ DOMAIN Resolved(a) = 1 .. Ripe(a)
        /\ \A i \in 1 .. Ripe(a) :
              /\ Resolved(a)[i].stamp = a.pending[i]
              /\ Resolved(a)[i].from = EstimateAt(a.estimates, a.pending[i])
    <2> HIDE DEF Ripe
    <2> QED BY DEF Resolved
  <1>3. /\ DOMAIN Sent(a) = 1 .. Ripe(a)
        /\ \A i \in 1 .. Ripe(a) : Sent(a)[i] = ScoreOf(i)
    <2>1. ASSUME NEW i \in 1 .. Ripe(a) PROVE Sent(a)[i] = ScoreOf(i)
      <3>1. Sent(a)[i] = [stamp |-> Resolved(a)[i].stamp,
                          from |-> Resolved(a)[i].from,
                          timedOut |-> ~\E j \in DOMAIN a.estimates :
                                            a.estimates[j] >= Resolved(a)[i].stamp]
        BY <1>2 DEF Sent
      <3>2. /\ Resolved(a)[i].stamp = a.pending[i]
            /\ Resolved(a)[i].from = EstimateAt(a.estimates, a.pending[i])
        BY <1>2
      <3> QED BY <3>1, <3>2
    <2>2. DOMAIN Sent(a) = 1 .. Ripe(a)
      BY <1>2 DEF Sent
    <2> QED BY <2>1, <2>2
  <1>4. \A i \in 1 .. Ripe(a) : i \in 1 .. Len(a.pending) /\ i \in DOMAIN a.pending
    BY <1>1
  <1>5. \A i \in 1 .. Ripe(a) : ScoreOf(i) \in Scores /\ ScoredAs(known, ScoreOf(i))
    BY <1>4, ResolvedAsOffline
  <1>6. \A i : ScoreOf(i).stamp = a.pending[i]
    OBVIOUS
  <1> HIDE DEF ScoreOf
  <1>7. Sent(a) = [i \in 1 .. Ripe(a) |-> Sent(a)[i]]
    BY <1>2 DEF Sent
  <1>8. Sent(a) \in [1 .. Ripe(a) -> Scores]
    BY <1>3, <1>5, <1>7
  <1>9. Sent(a) \in Seq(Scores) /\ Len(Sent(a)) = Ripe(a)
    BY <1>1, <1>8
  <1> QED BY <1>3, <1>4, <1>5, <1>6, <1>9

\* Once it has resolved, everything is scored as offline.
LEMMA ScoresStay ==
    ASSUME NEW a, NEW known \in SUBSET Nat, AlignerHolds(a, known),
           NEW said, ScoresHold(a, known, said)
    PROVE  ScoresHold(Remaining(a), known, said \o Sent(a))
  <1> DEFINE new == Sent(a)
             all == said \o new
             b == Remaining(a)
  <1>1. /\ said \in Seq(Scores)
        /\ \A i \in DOMAIN said : said[i].stamp <= Horizon(a) /\ ScoredAs(known, said[i])
        /\ \A i, j \in DOMAIN said : i <= j => said[i].stamp <= said[j].stamp
    BY DEF ScoresHold
  <1>2. /\ new \in Seq(Scores) /\ Len(new) = Ripe(a)
        /\ \A i \in 1 .. Ripe(a) : /\ new[i].stamp = a.pending[i]
                                   /\ i \in DOMAIN a.pending
                                   /\ ScoredAs(known, new[i])
    BY SentIs
  <1>3. /\ Horizon(a) <= Horizon(b) /\ Horizon(b) \in Int /\ Horizon(a) \in Int
        /\ \A i \in 1 .. Ripe(a) : a.pending[i] <= Horizon(b)
    BY RemainingHolds
  <1>4. a.pending \in Seq(Nat) /\ Sorted(a.pending)
    BY DEF AlignerHolds
  <1>5. \A s \in Scores : s.stamp \in Nat
    BY DEF Scores
  <1> HIDE DEF new, b
  <1>6. Len(said) \in Nat /\ Len(new) \in Nat /\ DOMAIN said = 1 .. Len(said)
        /\ DOMAIN new = 1 .. Len(new)
    BY <1>1, <1>2
  <1>7. /\ all \in Seq(Scores)
        /\ \A i \in DOMAIN said : all[i] = said[i]
        /\ \A i \in DOMAIN new : all[Len(said) + i] = new[i]
        /\ \A i \in DOMAIN all : \/ i \in DOMAIN said
                                 \/ i - Len(said) \in DOMAIN new /\ i > Len(said)
    BY <1>1, <1>2
  <1>8. \A i \in DOMAIN new : Horizon(a) <= new[i].stamp
    <2> SUFFICES ASSUME NEW i \in DOMAIN new PROVE Horizon(a) <= new[i].stamp
      OBVIOUS
    <2>1. i \in DOMAIN a.pending /\ new[i].stamp = a.pending[i]
      BY <1>2, <1>6
    <2>2. 1 \in DOMAIN a.pending /\ 1 <= i /\ a.pending # <<>>
      BY <1>4, <2>1
    <2>3. Horizon(a) = a.pending[1]
      BY <1>4, <2>2 DEF Horizon
    <2> QED BY <1>4, <2>1, <2>2, <2>3 DEF Sorted
  <1>9. \A i, j \in DOMAIN new : i <= j => new[i].stamp <= new[j].stamp
    BY <1>2, <1>4, <1>6 DEF Sorted
  <1> HIDE DEF all
  <1>10. ASSUME NEW i \in DOMAIN all
         PROVE  all[i].stamp <= Horizon(b) /\ ScoredAs(known, all[i])
    <2>1. CASE i \in DOMAIN said
      <3>1. all[i] = said[i] /\ said[i].stamp \in Nat /\ said[i].stamp <= Horizon(a)
        BY <1>1, <1>5, <1>7, <2>1
      <3> QED BY <1>1, <1>3, <2>1, <3>1
    <2>2. CASE i - Len(said) \in DOMAIN new /\ i > Len(said)
      <3>1. PICK k \in DOMAIN new : k = i - Len(said)
        BY <2>2
      <3>2. all[i] = new[k]
        <4>1. i \in Nat /\ Len(said) + k = i
          BY <1>6, <1>7, <3>1
        <4> QED BY <1>7, <4>1
      <3> QED BY <1>2, <1>3, <1>6, <3>2
    <2> QED BY <1>7, <2>1, <2>2
  <1>11. ASSUME NEW i \in DOMAIN all, NEW j \in DOMAIN all, i <= j
         PROVE  all[i].stamp <= all[j].stamp
    <2>1. i \in Nat /\ j \in Nat
      BY <1>7
    <2>2. CASE j \in DOMAIN said
      <3>1. i \in DOMAIN said
        BY <1>6, <1>7, <1>11, <2>1, <2>2
      <3> QED BY <1>1, <1>7, <1>11, <2>2, <3>1
    <2>3. CASE j - Len(said) \in DOMAIN new /\ j > Len(said)
      <3>1. PICK k \in DOMAIN new : k = j - Len(said)
        BY <2>3
      <3>2. all[j] = new[k]
        <4>1. Len(said) + k = j
          BY <1>6, <2>1, <3>1
        <4> QED BY <1>7, <4>1
      <3>3. CASE i \in DOMAIN said
        <4>1. all[i] = said[i] /\ said[i].stamp \in Nat /\ new[k].stamp \in Nat
          BY <1>1, <1>2, <1>5, <1>7, <3>3
        <4> QED BY <1>1, <1>3, <1>8, <3>2, <3>3, <4>1
      <3>4. CASE i - Len(said) \in DOMAIN new /\ i > Len(said)
        <4>1. PICK l \in DOMAIN new : l = i - Len(said)
          BY <3>4
        <4>2. all[i] = new[l]
          <5>1. Len(said) + l = i
            BY <1>6, <2>1, <4>1
          <5> QED BY <1>7, <5>1
        <4>3. l <= k
          BY <1>6, <1>11, <2>1, <3>1, <4>1
        <4> QED BY <1>9, <3>2, <4>2, <4>3
      <3> QED BY <1>7, <3>3, <3>4
    <2> QED BY <1>7, <2>2, <2>3
  <1>12. ScoresHold(b, known, all)
    BY <1>7, <1>10, <1>11 DEF ScoresHold
  <1> QED BY <1>12 DEF all, new, b

LEMMA ScoredStamps ==
    ASSUME NEW a, NEW known, NEW said, ScoresHold(a, known, said)
    PROVE  \A i \in DOMAIN said : said[i].stamp \in Nat
  <1>1. said \in Seq(Scores)
    BY DEF ScoresHold
  <1>2. \A s \in Scores : s.stamp \in Nat
    BY DEF Scores
  <1> HIDE DEF Scores
  <1> QED BY <1>1, <1>2

LEMMA InsertAtIs ==
    ASSUME NEW s, NEW i, NEW e
    PROVE  InsertAt(s, i, e) = (SubSeq(s, 1, i - 1) \o <<e>>) \o SubSeq(s, i, Len(s))
  BY DEF InsertAt

\* One number more.
LEMMA OneAppended ==
    ASSUME NEW s \in Seq(Nat), NEW x \in Nat
    PROVE  LET t == Append(s, x)
           IN /\ t \in Seq(Nat) /\ t # <<>>
              /\ \A i \in DOMAIN t : \/ i \in DOMAIN s /\ t[i] = s[i]
                                     \/ i = Len(s) + 1 /\ t[i] = x
              /\ \A i \in DOMAIN s : i \in DOMAIN t /\ t[i] = s[i] /\ i # Len(s) + 1
              /\ Len(s) + 1 \in DOMAIN t /\ t[Len(s) + 1] = x
              /\ s # <<>> => t[1] = s[1] /\ Head(t) = Head(s)
              /\ s = <<>> => Head(t) = x
  <1> DEFINE t == Append(s, x)
  <1>1. /\ t \in Seq(Nat) /\ Len(t) = Len(s) + 1 /\ Len(s) \in Nat
        /\ DOMAIN s = 1 .. Len(s) /\ DOMAIN t = 1 .. Len(s) + 1
    OBVIOUS
  <1>2. \A i \in DOMAIN s : t[i] = s[i]
    OBVIOUS
  <1>3. t[Len(s) + 1] = x
    OBVIOUS
  <1> HIDE DEF t
  <1>4. t # <<>> /\ Len(s) + 1 \in DOMAIN t
    BY <1>1
  <1>5. \A i \in DOMAIN s : i \in DOMAIN t /\ i # Len(s) + 1
    BY <1>1
  <1>6. \A i \in DOMAIN t : i \in DOMAIN s \/ i = Len(s) + 1
    BY <1>1
  <1>7. Head(t) = t[1]
    BY <1>1, <1>4
  <1>8. s # <<>> => 1 \in DOMAIN s /\ Head(s) = s[1]
    BY <1>1
  <1>9. s = <<>> => Len(s) + 1 = 1
    OBVIOUS
  <1>10. \A i \in DOMAIN t : \/ i \in DOMAIN s /\ t[i] = s[i]
                             \/ i = Len(s) + 1 /\ t[i] = x
    BY <1>2, <1>3, <1>6
  <1>11. /\ s # <<>> => t[1] = s[1] /\ Head(t) = Head(s)
         /\ s = <<>> => Head(t) = x
    BY <1>2, <1>3, <1>7, <1>8, <1>9
  <1> QED BY Zenon, <1>1, <1>2, <1>3, <1>4, <1>5, <1>10, <1>11 DEF t

\* A truth sample that is not before the last one.
LEMMA TruthAdded ==
    ASSUME NEW a, NEW known \in SUBSET Nat, AlignerHolds(a, known),
           NEW said, ScoresHold(a, known, said),
           NEW stamp \in Nat, a.latest <= stamp
    PROVE  /\ AlignerHolds(AddTruth(a, stamp), known)
           /\ ScoresHold(AddTruth(a, stamp), known, said)
           /\ AddTruth(a, stamp).latest = stamp
  <1> DEFINE b == AddTruth(a, stamp)
             P == a.pending
             waiting == Append(P, stamp)
  <1>1. /\ a \in [estimates : Seq(Nat), pending : Seq(Nat), latest : Int]
        /\ P \in Seq(Nat) /\ a.latest \in Int /\ Sorted(P)
        /\ \A i \in DOMAIN P : P[i] <= a.latest
    BY DEF AlignerHolds
  <1>2. /\ b.estimates = a.estimates /\ b.pending = waiting /\ b.latest = stamp
        /\ b \in [estimates : Seq(Nat), pending : {waiting}, latest : Int]
    <2> DEFINE latest == IF stamp > a.latest THEN stamp ELSE a.latest
    <2>1. latest = stamp
      BY <1>1
    <2>2. b = [a EXCEPT !.pending = waiting, !.latest = latest]
      BY DEF AddTruth
    <2> HIDE DEF b, waiting, latest
    <2>3. b = [a EXCEPT !.pending = waiting, !.latest = stamp]
      BY <2>1, <2>2
    <2>4. /\ b.estimates = a.estimates /\ b.pending = waiting /\ b.latest = stamp
      BY <1>1, <2>3
    <2>5. b = [estimates |-> a.estimates, pending |-> waiting, latest |-> stamp]
      BY <1>1, <2>3
    <2>6. a.estimates \in Seq(Nat) /\ stamp \in Int
      BY <1>1
    <2> QED BY <2>4, <2>5, <2>6
  <1> HIDE DEF b
  <1>3. /\ waiting \in Seq(Nat)
        /\ \A i \in DOMAIN waiting : \/ i \in DOMAIN P /\ waiting[i] = P[i]
                                     \/ i = Len(P) + 1 /\ waiting[i] = stamp
        /\ waiting # <<>>
        /\ P # <<>> => Head(waiting) = Head(P)
        /\ P = <<>> => Head(waiting) = stamp
    BY <1>1, OneAppended
  <1> HIDE DEF waiting
  <1>4. \A i \in DOMAIN waiting : waiting[i] <= stamp
    <2>1. \A i \in DOMAIN P : P[i] \in Nat /\ P[i] <= stamp
      BY <1>1
    <2> QED BY <1>3, <2>1
  <1>5. Sorted(waiting)
    <2> SUFFICES ASSUME NEW i \in DOMAIN waiting, NEW j \in DOMAIN waiting, i <= j
                 PROVE  waiting[i] <= waiting[j]
      BY DEF Sorted
    <2>1. CASE j = Len(P) + 1 /\ waiting[j] = stamp
      BY <1>4, <2>1
    <2>2. CASE j \in DOMAIN P /\ waiting[j] = P[j]
      <3>1. i \in DOMAIN P /\ waiting[i] = P[i]
        <4>1. i # Len(P) + 1
          BY <1>1, <2>2
        <4> QED BY <1>3, <4>1
      <3> QED BY <1>1, <2>2, <3>1 DEF Sorted
    <2> QED BY <1>3, <2>1, <2>2
  <1>6. Horizon(a) <= Horizon(b) /\ Horizon(a) \in Int /\ Horizon(b) \in Int
    <2>1. CASE P = <<>>
      BY <1>1, <1>2, <1>3, <2>1 DEF Horizon
    <2>2. CASE P # <<>>
      <3>1. Head(P) \in Nat
        BY <1>1, <2>2
      <3> QED BY <1>2, <1>3, <2>2, <3>1 DEF Horizon
    <2> QED BY <2>1, <2>2
  <1>7. AlignerHolds(b, known)
    <2>1. \A i \in DOMAIN a.estimates : a.estimates[i] \in known
      BY DEF AlignerHolds
    <2>2. \A h \in known : \/ \E i \in DOMAIN a.estimates : a.estimates[i] = h
                           \/ /\ a.estimates # <<>>
                              /\ h <= a.estimates[1] /\ a.estimates[1] < Horizon(b)
      <3> SUFFICES ASSUME NEW h \in known, a.estimates # <<>>,
                          h <= a.estimates[1], a.estimates[1] < Horizon(a)
                   PROVE  a.estimates[1] < Horizon(b)
        BY DEF AlignerHolds
      <3>1. a.estimates[1] \in Nat
        BY <1>1
      <3> QED BY <1>6, <3>1
    <2>3. b \in [estimates : Seq(Nat), pending : Seq(Nat), latest : Int]
      BY <1>2, <1>3
    <2> QED BY <1>2, <1>4, <1>5, <2>1, <2>2, <2>3 DEF AlignerHolds
  <1>8. ScoresHold(b, known, said)
    <2>1. \A i \in DOMAIN said : said[i].stamp \in Nat /\ said[i].stamp <= Horizon(a)
      BY ScoredStamps DEF ScoresHold
    <2>2. \A i \in DOMAIN said : said[i].stamp <= Horizon(b)
      BY <1>6, <2>1
    <2> QED BY <2>2 DEF ScoresHold
  <1> QED BY <1>2, <1>7, <1>8 DEF b

\* An estimate that is not before the last one.
LEMMA EstimateAdded ==
    ASSUME NEW a, NEW known \in SUBSET Nat, AlignerHolds(a, known),
           NEW said, ScoresHold(a, known, said),
           NEW stamp \in Nat, \A h \in known : h <= stamp
    PROVE  /\ AlignerHolds(AddEstimate(a, stamp), known \cup {stamp})
           /\ ScoresHold(AddEstimate(a, stamp), known \cup {stamp}, said)
           /\ AddEstimate(a, stamp).latest = a.latest
  <1> DEFINE b == AddEstimate(a, stamp)
             E == a.estimates
             F == Append(E, stamp)
             all == known \cup {stamp}
  <1>1. /\ a \in [estimates : Seq(Nat), pending : Seq(Nat), latest : Int]
        /\ E \in Seq(Nat) /\ Sorted(E)
        /\ \A i \in DOMAIN E : E[i] \in known
    BY DEF AlignerHolds
  <1>2. Inserted(E, stamp) = F
    <2>1. {i \in DOMAIN E : E[i] <= stamp} = 1 .. Len(E)
      BY <1>1
    <2>2. Cardinality(1 .. Len(E)) = Len(E) /\ Len(E) \in Nat
      BY <1>1, FS_Interval
    <2>3. Inserted(E, stamp) = InsertAt(E, Len(E) + 1, stamp)
      BY <2>1, <2>2 DEF Inserted
    <2>4. InsertAt(E, Len(E) + 1, stamp)
             = SubSeq(E, 1, Len(E)) \o <<stamp>> \o SubSeq(E, Len(E) + 1, Len(E))
      <3>1. PICK n \in Nat : n = Len(E) + 1 /\ n - 1 = Len(E)
        BY <2>2
      <3> HIDE DEF E
      <3>2. InsertAt(E, n, stamp)
               = SubSeq(E, 1, n - 1) \o <<stamp>> \o SubSeq(E, n, Len(E))
        BY Zenon, InsertAtIs
      <3> QED BY Zenon, <3>1, <3>2
    <2>5. SubSeq(E, 1, Len(E)) = E /\ SubSeq(E, Len(E) + 1, Len(E)) = <<>>
      BY <1>1, <2>2
    <2>6. (E \o <<stamp>>) \o <<>> = F
      BY <1>1
    <2> QED BY <2>3, <2>4, <2>5, <2>6
  <1>3. /\ b.estimates = F /\ b.pending = a.pending /\ b.latest = a.latest
        /\ b \in [estimates : {F}, pending : Seq(Nat), latest : Int]
    <2>1. b = [a EXCEPT !.estimates = F]
      BY <1>2 DEF AddEstimate
    <2> HIDE DEF b, F
    <2> QED BY <1>1, <2>1
  <1>4. Horizon(b) = Horizon(a)
    BY <1>3 DEF Horizon
  <1> HIDE DEF b
  <1>5. /\ F \in Seq(Nat) /\ F # <<>>
        /\ \A i \in DOMAIN F : \/ i \in DOMAIN E /\ F[i] = E[i]
                               \/ i = Len(E) + 1 /\ F[i] = stamp
        /\ \A i \in DOMAIN E : i \in DOMAIN F /\ F[i] = E[i]
        /\ Len(E) + 1 \in DOMAIN F /\ F[Len(E) + 1] = stamp
        /\ E # <<>> => F[1] = E[1]
    BY <1>1, OneAppended
  <1> HIDE DEF F
  <1>6. \A i \in DOMAIN F : F[i] <= stamp /\ F[i] \in all
    BY <1>1, <1>5
  <1>7. Sorted(F)
    <2> SUFFICES ASSUME NEW i \in DOMAIN F, NEW j \in DOMAIN F, i <= j
                 PROVE  F[i] <= F[j]
      BY DEF Sorted
    <2>1. CASE j = Len(E) + 1 /\ F[j] = stamp
      BY <1>6, <2>1
    <2>2. CASE j \in DOMAIN E /\ F[j] = E[j]
      <3>1. i \in DOMAIN E /\ F[i] = E[i]
        <4>1. i # Len(E) + 1
          BY <1>1, <2>2
        <4> QED BY <1>5, <4>1
      <3> QED BY <1>1, <2>2, <3>1 DEF Sorted
    <2> QED BY <1>5, <2>1, <2>2
  <1>8. ASSUME NEW h \in all
        PROVE  \/ \E i \in DOMAIN F : F[i] = h
               \/ F # <<>> /\ h <= F[1] /\ F[1] < Horizon(b)
    <2>1. CASE h = stamp
      BY <1>5, <2>1
    <2>2. CASE h \in known /\ \E i \in DOMAIN E : E[i] = h
      BY <1>5, <2>2
    <2>3. CASE h \in known /\ E # <<>> /\ h <= E[1] /\ E[1] < Horizon(a)
      BY <1>4, <1>5, <2>3
    <2> QED BY <1>8, <2>1, <2>2, <2>3 DEF AlignerHolds
  <1>9. AlignerHolds(b, all)
    <2>1. b \in [estimates : Seq(Nat), pending : Seq(Nat), latest : Int]
      BY <1>3, <1>5
    <2>2. Sorted(a.pending) /\ \A i \in DOMAIN a.pending : a.pending[i] <= a.latest
      BY DEF AlignerHolds
    <2> HIDE DEF all
    <2> QED BY <1>3, <1>5, <1>6, <1>7, <1>8, <2>1, <2>2 DEF AlignerHolds
  <1>10. ScoresHold(b, all, said)
    <2>1. \A i \in DOMAIN said : said[i].stamp \in Nat
      BY ScoredStamps
    <2>2. ASSUME NEW i \in DOMAIN said PROVE ScoredAs(all, said[i])
      <3>1. ScoredAs(known, said[i])
        BY DEF ScoresHold
      <3>2. CASE said[i].from = {} /\ said[i].timedOut
        BY Zenon, <3>2 DEF ScoredAs
      <3>3. CASE /\ said[i].from = Offline(known, said[i].stamp)
                 /\ \E h \in known : said[i].stamp <= h
        <4>1. PICK h \in known : said[i].stamp <= h
          BY <3>3
        <4>2. Offline(all, said[i].stamp) = Offline(known, said[i].stamp)
          BY <2>1, <4>1, OfflineStays
        <4>3. h \in all
          OBVIOUS
        <4> HIDE DEF all
        <4> QED BY Zenon, <3>3, <4>1, <4>2, <4>3 DEF ScoredAs
      <3> QED BY Zenon, <3>1, <3>2, <3>3 DEF ScoredAs
    <2> HIDE DEF all
    <2> QED BY <1>4, <2>2 DEF ScoresHold
  <1> QED BY <1>3, <1>9, <1>10 DEF b, all

----------------------------------------------------------------------------

\* The stamps of a topic never go back ...
PublishedInOrder ==
    \A i, j \in DOMAIN published : i <= j => published[i].stamp <= published[j].stamp

\* ... nor do those of the poses composed of it.
ComposedInOrder ==
    /\ \A i, j \in DOMAIN composed : i <= j => composed[i].stamp <= composed[j].stamp
    /\ \A i \in DOMAIN composed :
          deadReckoning # 0 /\ composed[i].stamp <= published[deadReckoning].stamp

\* The evaluator has heard only what is before the message it hears next ...
HeardInOrder ==
    \A h \in heard : \E i \in DOMAIN Estimates : i <= scoredEstimate /\ Estimates[i] = h

\* ... and its truth goes up to the sample it handled last.
TruthInOrder ==
    aligner.latest = IF scoredTruth = 0 THEN -1 ELSE published[scoredTruth].stamp

EvaluatorInv ==
    /\ PublishedInOrder
    /\ ComposedInOrder
    /\ HeardInOrder
    /\ TruthInOrder
    /\ AlignerHolds(aligner, heard)
    /\ ScoresHold(aligner, heard, scores)

LEMMA InitEvaluator == Init => EvaluatorInv
  <1> SUFFICES ASSUME Init PROVE EvaluatorInv
    OBVIOUS
  <1>1. published = <<>> /\ composed = <<>> /\ heard = {} /\ scores = <<>> /\ scoredTruth = 0
    BY DEF Init
  <1>2. /\ aligner = [estimates |-> <<>>, pending |-> <<>>, latest |-> -1]
        /\ aligner.estimates = <<>> /\ aligner.pending = <<>> /\ aligner.latest = -1
    BY DEF Init, NewAligner
  <1>3. PublishedInOrder /\ ComposedInOrder /\ HeardInOrder /\ TruthInOrder
    BY <1>1, <1>2 DEF PublishedInOrder, ComposedInOrder, HeardInOrder, TruthInOrder
  <1>4. AlignerHolds(aligner, heard)
    <2>1. aligner \in [estimates : Seq(Nat), pending : Seq(Nat), latest : Int]
      BY <1>2
    <2> QED BY <1>1, <1>2, <2>1 DEF AlignerHolds, Sorted
  <1>5. ScoresHold(aligner, heard, scores)
    BY <1>1 DEF ScoresHold
  <1> QED BY <1>3, <1>4, <1>5 DEF EvaluatorInv

\* What is scored comes in the order of its stamps.
LEMMA EstimatesInOrder ==
    ASSUME PublishedInOrder, ComposedInOrder
    PROVE  \A i, j \in DOMAIN Estimates : i <= j => Estimates[i] <= Estimates[j]
  <1>1. CASE graph.scoresComposed
    <2>1. Estimates = [i \in DOMAIN composed |-> composed[i].stamp]
      BY <1>1 DEF Estimates
    <2> QED BY <2>1 DEF ComposedInOrder
  <1>2. CASE ~graph.scoresComposed
    <2>1. Estimates = [i \in DOMAIN published |-> published[i].stamp]
      BY <1>2 DEF Estimates
    <2> QED BY <2>1 DEF PublishedInOrder
  <1> QED BY <1>1, <1>2

\* What was said on a topic stays said.
Kept(s, t) == \A i \in DOMAIN s : i \in DOMAIN t /\ t[i] = s[i]

LEMMA EstimatesKept ==
    ASSUME Kept(published, published'), Kept(composed, composed'),
           graph' = graph \/ (published = <<>> /\ composed = <<>>)
    PROVE  Kept(Estimates, Estimates')
  <1>1. CASE published = <<>> /\ composed = <<>>
    <2>1. DOMAIN Estimates = {}
      BY <1>1 DEF Estimates
    <2> QED BY <2>1 DEF Kept
  <1>2. CASE graph' = graph
    <2>1. CASE graph.scoresComposed
      <3>1. /\ Estimates = [i \in DOMAIN composed |-> composed[i].stamp]
            /\ Estimates' = [i \in DOMAIN composed' |-> composed'[i].stamp]
        BY <1>2, <2>1 DEF Estimates
      <3> QED BY <3>1 DEF Kept
    <2>2. CASE ~graph.scoresComposed
      <3>1. /\ Estimates = [i \in DOMAIN published |-> published[i].stamp]
            /\ Estimates' = [i \in DOMAIN published' |-> published'[i].stamp]
        BY <1>2, <2>2 DEF Estimates
      <3> QED BY <3>1 DEF Kept
    <2> QED BY <2>1, <2>2
  <1> QED BY <1>1, <1>2

\* A step that the evaluator takes no part in.
LEMMA EvaluatorStays ==
    ASSUME PoseInv, EvaluatorInv, UNCHANGED evaluationVars,
           Kept(published, published'), Kept(composed, composed'),
           graph' = graph \/ (published = <<>> /\ composed = <<>>),
           PublishedInOrder', ComposedInOrder'
    PROVE  EvaluatorInv'
  <1>1. UNCHANGED <<aligner, scoredTruth, scoredEstimate, heard, scores>>
    BY DEF evaluationVars
  <1>2. Kept(Estimates, Estimates')
    BY EstimatesKept
  <1>3. HeardInOrder'
    <2> SUFFICES ASSUME NEW h \in heard
                 PROVE  \E i \in DOMAIN Estimates' : i <= scoredEstimate /\ Estimates'[i] = h
      BY <1>1 DEF HeardInOrder
    <2>1. PICK i \in DOMAIN Estimates : i <= scoredEstimate /\ Estimates[i] = h
      BY DEF EvaluatorInv, HeardInOrder
    <2> QED BY Zenon, <1>2, <2>1 DEF Kept
  <1>4. TruthInOrder'
    <2>1. scoredTruth # 0 => scoredTruth \in DOMAIN published
      BY DEF PoseInv, TypeOK, SimTypes, EvaluationTypes
    <2>2. scoredTruth # 0 => published'[scoredTruth] = published[scoredTruth]
      BY <2>1 DEF Kept
    <2> QED BY <1>1, <2>2 DEF EvaluatorInv, TruthInOrder
  <1>5. AlignerHolds(aligner, heard)' /\ ScoresHold(aligner, heard, scores)'
    BY Zenon, <1>1 DEF EvaluatorInv
  <1> QED BY <1>3, <1>4, <1>5 DEF EvaluatorInv

LEMMA NothingYet ==
    ASSUME PoseInv, ComposedInOrder, graph = NoGraph
    PROVE  published = <<>> /\ composed = <<>>
  <1>1. published = <<>>
    BY DEF PoseInv, AnsweredOnce
  <1>2. deadReckoning = 0
    BY <1>1 DEF PoseInv, TypeOK, SupportTypes
  <1>3. DOMAIN composed = {}
    BY <1>2 DEF ComposedInOrder
  <1>4. composed \in Seq([stamp : 0 .. MaxPublished, frame : {"far", "near"}])
    BY DEF PoseInv, TypeOK, SupportTypes
  <1> QED BY <1>1, <1>3, <1>4

LEMMA SampleAdded ==
    ASSUME PoseInv, Publish \/ Reset
    PROVE  \E s \in Samples :
              /\ published' = Append(published, s)
              /\ published # <<>> => Newest.stamp <= s.stamp
  <1>1. CASE Publish
    <2>1. PICK s \in Samples :
             /\ published' = Append(published, s)
             /\ published # <<>> => Newest.stamp < s.stamp
      BY <1>1, PublishedNext
    <2>2. published # <<>> => Newest \in Samples
      BY DEF PoseInv, TypeOK, SimTypes, Newest
    <2> QED BY <2>1, <2>2 DEF Samples
  <1>2. CASE Reset
    BY <1>2, PublishedOnReset
  <1> QED BY <1>1, <1>2

LEMMA EvaluatorSampleStep ==
    ASSUME PoseInv, EvaluatorInv, Publish \/ Reset
    PROVE  EvaluatorInv'
  <1>1. UNCHANGED <<launchVars, supportVars, evaluationVars>>
    BY DEF Publish, Reset
  <1>2. UNCHANGED <<graph, composed, deadReckoning>>
    BY <1>1 DEF launchVars, supportVars
  <1>3. PICK s \in Samples : /\ published' = Append(published, s)
                             /\ published # <<>> => Newest.stamp <= s.stamp
    BY SampleAdded
  <1>4. published \in Seq(Samples) /\ Len(published) \in Nat
    BY DEF PoseInv, TypeOK, SimTypes
  <1>5. /\ \A i \in DOMAIN published : i \in DOMAIN published' /\ published'[i] = published[i]
                                       /\ i # Len(published) + 1
        /\ \A i \in DOMAIN published' : \/ i \in DOMAIN published
                                        \/ i = Len(published) + 1 /\ published'[i] = s
    BY <1>3, <1>4
  <1>6. \A i \in DOMAIN published : published[i].stamp \in Nat /\ published[i].stamp <= s.stamp
    <2> SUFFICES ASSUME NEW i \in DOMAIN published
                 PROVE  published[i].stamp \in Nat /\ published[i].stamp <= s.stamp
      OBVIOUS
    <2>1. published # <<>> /\ Len(published) \in DOMAIN published
      BY <1>4
    <2>2. Newest \in Samples /\ published[i] \in Samples
      BY <1>4, <2>1 DEF Newest
    <2>3. published[i].stamp <= Newest.stamp
      BY DEF PoseInv, StampsInOrder
    <2>4. published[i].stamp \in Nat /\ Newest.stamp \in Nat /\ s.stamp \in Nat
      BY <2>2 DEF Samples
    <2> QED BY <1>3, <2>1, <2>3, <2>4
  <1>7. s.stamp \in Nat
    BY DEF Samples
  <1>8. PublishedInOrder'
    <2> SUFFICES ASSUME NEW i \in DOMAIN published', NEW j \in DOMAIN published', i <= j
                 PROVE  published'[i].stamp <= published'[j].stamp
      BY DEF PublishedInOrder
    <2>1. CASE j = Len(published) + 1 /\ published'[j] = s
      BY <1>5, <1>6, <1>7, <2>1
    <2>2. CASE j \in DOMAIN published
      <3>1. i \in DOMAIN published
        <4>1. j \in 1 .. Len(published)
          BY <1>4, <2>2
        <4>2. i # Len(published) + 1
          BY <1>4, <4>1
        <4> QED BY <1>5, <4>2
      <3> QED BY <1>5, <2>2, <3>1 DEF EvaluatorInv, PublishedInOrder
    <2> QED BY <1>5, <2>1, <2>2
  <1>9. ComposedInOrder'
    <2>1. deadReckoning # 0 => deadReckoning \in DOMAIN published
      BY DEF PoseInv, TypeOK, SimTypes, SupportTypes
    <2>2. deadReckoning # 0 => published'[deadReckoning] = published[deadReckoning]
      BY <1>5, <2>1
    <2> QED BY <1>2, <2>2 DEF EvaluatorInv, ComposedInOrder
  <1>10. Kept(published, published') /\ Kept(composed, composed')
    BY <1>2, <1>5 DEF Kept
  <1> QED BY <1>1, <1>2, <1>8, <1>9, <1>10, EvaluatorStays

LEMMA EvaluatorComposedStep ==
    ASSUME PoseInv, EvaluatorInv, HandleDeadReckoning
    PROVE  EvaluatorInv'
  <1> DEFINE Poses == [stamp : 0 .. MaxPublished, frame : {"far", "near"}]
  <1>1. PICK d \in Handleable(deadReckoning) : deadReckoning' = d /\ PublishComposed(d)
    BY DEF HandleDeadReckoning
  <1>2. UNCHANGED <<graph, published, evaluationVars>>
    BY DEF HandleDeadReckoning, launchVars, simVars
  <1>3. d \in 1 .. Len(published) /\ published[d] \in Samples
    BY HeardIsPublished
  <1>4. /\ published \in Seq(Samples) /\ deadReckoning \in 0 .. Len(published)
        /\ composed \in Seq(Poses)
    BY DEF PoseInv, TypeOK, SimTypes, SupportTypes
  <1>5. published[d].stamp \in Nat /\ d # 0
    BY <1>3 DEF Samples
  <1>6. \A i \in DOMAIN composed : composed[i].stamp \in Nat
    <2>1. \A p \in Poses : p.stamp \in Nat
      OBVIOUS
    <2> HIDE DEF Poses
    <2> QED BY <1>4, <2>1
  <1>7. \A i \in DOMAIN composed : composed[i].stamp <= published[d].stamp
    <2> SUFFICES ASSUME NEW i \in DOMAIN composed
                 PROVE  composed[i].stamp <= published[d].stamp
      OBVIOUS
    <2>1. deadReckoning # 0 /\ composed[i].stamp <= published[deadReckoning].stamp
      BY DEF EvaluatorInv, ComposedInOrder
    <2>2. deadReckoning \in DOMAIN published /\ d \in DOMAIN published /\ deadReckoning <= d
      BY <1>3, <1>4, <2>1 DEF Handleable
    <2>3. published[deadReckoning].stamp <= published[d].stamp
      BY <2>2 DEF EvaluatorInv, PublishedInOrder
    <2>4. published[deadReckoning] \in Samples
      BY <1>4, <2>2
    <2>5. published[deadReckoning].stamp \in Nat
      BY <2>4 DEF Samples
    <2> QED BY <1>5, <1>6, <2>1, <2>3, <2>5
  <1>8. \/ composed' = composed
        \/ \E p : composed' = Append(composed, p) /\ p.stamp = published[d].stamp
    <2>1. composed' = composed \/ composed' = Append(composed, [stamp |-> published[d].stamp,
                                                                frame |-> estimate])
      BY <1>1 DEF PublishComposed
    <2>2. [stamp |-> published[d].stamp, frame |-> estimate].stamp = published[d].stamp
      OBVIOUS
    <2> QED BY <2>1, <2>2
  <1> HIDE DEF Poses
  <1>9. /\ Kept(composed, composed')
        /\ \A i, j \in DOMAIN composed' : i <= j => composed'[i].stamp <= composed'[j].stamp
        /\ \A i \in DOMAIN composed' : composed'[i].stamp <= published[d].stamp
    <2>1. CASE composed' = composed
      BY <1>7, <2>1 DEF Kept, EvaluatorInv, ComposedInOrder
    <2>2. CASE \E p : composed' = Append(composed, p) /\ p.stamp = published[d].stamp
      <3>1. PICK p : composed' = Append(composed, p) /\ p.stamp = published[d].stamp
        BY <2>2
      <3>2. Len(composed) \in Nat /\ DOMAIN composed = 1 .. Len(composed)
        BY <1>4
      <3>3. /\ \A i \in DOMAIN composed : i \in DOMAIN composed' /\ composed'[i] = composed[i]
            /\ \A i \in DOMAIN composed' : \/ i \in DOMAIN composed
                                           \/ i = Len(composed) + 1 /\ composed'[i] = p
        BY <1>4, <3>1
      <3>4. ASSUME NEW i \in DOMAIN composed', NEW j \in DOMAIN composed', i <= j
            PROVE  composed'[i].stamp <= composed'[j].stamp
        <4>1. CASE j = Len(composed) + 1 /\ composed'[j] = p
          BY <1>5, <1>7, <3>1, <3>3, <4>1
        <4>2. CASE j \in DOMAIN composed
          <5>1. i # Len(composed) + 1
            BY <3>2, <3>4, <4>2
          <5>2. i \in DOMAIN composed
            BY <3>3, <5>1
          <5> QED BY <3>3, <3>4, <4>2, <5>2 DEF EvaluatorInv, ComposedInOrder
        <4> QED BY <3>3, <4>1, <4>2
      <3>5. \A i \in DOMAIN composed' : composed'[i].stamp <= published[d].stamp
        BY <1>5, <1>7, <3>1, <3>3
      <3> QED BY <3>3, <3>4, <3>5 DEF Kept
    <2> QED BY <1>8, <2>1, <2>2
  <1>10. PublishedInOrder' /\ ComposedInOrder' /\ Kept(published, published')
    BY <1>1, <1>2, <1>5, <1>9 DEF EvaluatorInv, PublishedInOrder, ComposedInOrder, Kept
  <1> QED BY <1>2, <1>9, <1>10, EvaluatorStays

LEMMA LatestStays ==
    ASSUME NEW a, NEW known, AlignerHolds(a, known)
    PROVE  Remaining(a).latest = a.latest
  <1> DEFINE pending == SubSeq(a.pending, Ripe(a) + 1, Len(a.pending))
             horizon == IF pending = <<>> THEN a.latest ELSE Head(pending)
             kept == SubSeq(a.estimates, KeepFrom(a.estimates, horizon) + 1, Len(a.estimates))
             b == Remaining(a)
  <1>1. b = [a EXCEPT !.pending = pending, !.estimates = kept]
    BY DEF Remaining
  <1>2. a \in [estimates : Seq(Nat), pending : Seq(Nat), latest : Int]
    BY DEF AlignerHolds
  <1> HIDE DEF b, pending, kept
  <1>3. b.latest = a.latest
    BY <1>1, <1>2
  <1> QED BY <1>3 DEF b

\* EvaluationNode hears a sample ...
LEMMA EvaluateTruthStep ==
    ASSUME PoseInv, EvaluatorInv, EvaluateTruth
    PROVE  EvaluatorInv'
  <1> DEFINE stamp == published[scoredTruth'].stamp
             a == AddTruth(aligner, stamp)
  <1>1. /\ scoredTruth' = scoredTruth + 1 /\ scoredTruth < Len(published)
        /\ Score(a)
        /\ UNCHANGED <<scoredEstimate, heard, launchVars, simVars, supportVars>>
    BY DEF EvaluateTruth
  <1>2. UNCHANGED <<graph, published, composed, deadReckoning>>
    BY <1>1 DEF launchVars, simVars, supportVars
  <1>3. /\ published \in Seq(Samples) /\ Len(published) \in Nat
        /\ scoredTruth \in 0 .. Len(published) /\ heard \in SUBSET Nat
    BY DEF PoseInv, TypeOK, SimTypes, EvaluationTypes
  <1>4. scoredTruth' \in DOMAIN published /\ scoredTruth' # 0
    BY <1>1, <1>3
  <1>5. stamp \in Nat
    <2>1. \A i \in DOMAIN published : published[i] \in Samples
      BY <1>3
    <2>2. \A s \in Samples : s.stamp \in Nat
      BY DEF Samples
    <2> QED BY Zenon, <1>4, <2>1, <2>2
  <1>6. aligner.latest <= stamp
    <2>1. CASE scoredTruth = 0
      BY <1>5, <2>1 DEF EvaluatorInv, TruthInOrder
    <2>2. CASE scoredTruth # 0
      <3>1. scoredTruth \in DOMAIN published /\ scoredTruth <= scoredTruth'
        BY <1>1, <1>3, <2>2
      <3> QED BY <1>4, <2>2, <3>1 DEF EvaluatorInv, TruthInOrder, PublishedInOrder
    <2> QED BY <2>1, <2>2
  <1> HIDE DEF stamp
  <1>7. /\ AlignerHolds(a, heard) /\ ScoresHold(a, heard, scores) /\ a.latest = stamp
    BY <1>3, <1>5, <1>6, TruthAdded DEF EvaluatorInv
  <1> HIDE DEF a
  <1>8. /\ AlignerHolds(Remaining(a), heard)
        /\ ScoresHold(Remaining(a), heard, scores \o Sent(a))
    BY <1>3, <1>7, RemainingHolds, ScoresStay
  <1>9. aligner' = Remaining(a) /\ scores' = scores \o Sent(a)
    BY <1>1 DEF Score, Sent
  <1>10. aligner'.latest = stamp
    BY <1>7, <1>9, LatestStays
  <1>11. PublishedInOrder' /\ ComposedInOrder' /\ HeardInOrder'
    BY <1>1, <1>2 DEF EvaluatorInv, PublishedInOrder, ComposedInOrder, HeardInOrder, Estimates
  <1>12. TruthInOrder'
    BY <1>2, <1>4, <1>10 DEF TruthInOrder, stamp
  <1>13. AlignerHolds(aligner, heard)' /\ ScoresHold(aligner, heard, scores)'
    BY <1>1, <1>8, <1>9
  <1> QED BY <1>11, <1>12, <1>13 DEF EvaluatorInv

\* ... or an estimate.
LEMMA EvaluateEstimateStep ==
    ASSUME PoseInv, EvaluatorInv, EvaluateEstimate
    PROVE  EvaluatorInv'
  <1>1. PICK e \in DOMAIN Estimates :
           /\ e > scoredEstimate
           /\ scoredEstimate' = e
           /\ heard' = heard \cup {Estimates[e]}
           /\ Score(AddEstimate(aligner, Estimates[e]))
    BY DEF EvaluateEstimate
  <1> DEFINE stamp == Estimates[e]
             a == AddEstimate(aligner, stamp)
             known == heard \cup {stamp}
  <1>2. UNCHANGED <<graph, published, composed, deadReckoning, scoredTruth>>
    BY DEF EvaluateEstimate, launchVars, simVars, supportVars
  <1>3. /\ scoredEstimate \in Nat /\ heard \in SUBSET Nat
        /\ e \in Nat /\ stamp \in Nat
    BY EstimatesAre DEF PoseInv, TypeOK, EvaluationTypes
  <1>4. \A h \in heard : h <= stamp
    <2> SUFFICES ASSUME NEW h \in heard PROVE h <= stamp
      OBVIOUS
    <2>1. PICK i \in DOMAIN Estimates : i <= scoredEstimate /\ Estimates[i] = h
      BY DEF EvaluatorInv, HeardInOrder
    <2>2. i \in Nat /\ i <= e
      BY <1>1, <1>3, <2>1, EstimatesAre
    <2> QED BY <2>1, <2>2, EstimatesInOrder DEF EvaluatorInv
  <1>5. HeardInOrder'
    <2>1. Estimates' = Estimates
      BY <1>2 DEF Estimates
    <2> SUFFICES ASSUME NEW h \in heard'
                 PROVE  \E i \in DOMAIN Estimates : i <= e /\ Estimates[i] = h
      BY <1>1, <2>1 DEF HeardInOrder
    <2>2. CASE h = stamp
      BY <1>3, <2>2
    <2>3. CASE h \in heard
      <3>1. PICK i \in DOMAIN Estimates : i <= scoredEstimate /\ Estimates[i] = h
        BY <2>3 DEF EvaluatorInv, HeardInOrder
      <3>2. i \in Nat /\ i <= e
        BY <1>1, <1>3, <3>1, EstimatesAre
      <3> QED BY <3>1, <3>2
    <2> QED BY <1>1, <2>2, <2>3
  <1>6. heard' = known /\ Score(a)
    BY <1>1
  <1> HIDE DEF stamp
  <1>7. /\ AlignerHolds(a, known) /\ ScoresHold(a, known, scores)
        /\ a.latest = aligner.latest
    BY <1>3, <1>4, EstimateAdded DEF EvaluatorInv
  <1>8. known \in SUBSET Nat
    BY <1>3
  <1> HIDE DEF a, known
  <1>9. /\ AlignerHolds(Remaining(a), known)
        /\ ScoresHold(Remaining(a), known, scores \o Sent(a))
    BY <1>7, <1>8, RemainingHolds, ScoresStay
  <1>10. aligner' = Remaining(a) /\ scores' = scores \o Sent(a)
    BY <1>6 DEF Score, Sent
  <1>11. aligner'.latest = aligner.latest
    BY <1>7, <1>10, LatestStays
  <1>12. PublishedInOrder' /\ ComposedInOrder' /\ TruthInOrder'
    BY <1>2, <1>11 DEF EvaluatorInv, PublishedInOrder, ComposedInOrder, TruthInOrder
  <1>13. AlignerHolds(aligner, heard)' /\ ScoresHold(aligner, heard, scores)'
    BY <1>6, <1>9, <1>10
  <1> QED BY <1>5, <1>12, <1>13 DEF EvaluatorInv

LEMMA EvaluatorNext ==
    ASSUME PoseInv, EvaluatorInv, [Next]_vars
    PROVE  EvaluatorInv'
  <1>1. ASSUME UNCHANGED <<published, composed, deadReckoning, evaluationVars>>,
               graph' = graph \/ (published = <<>> /\ composed = <<>>)
        PROVE  EvaluatorInv'
    <2>1. /\ PublishedInOrder' /\ ComposedInOrder'
          /\ Kept(published, published') /\ Kept(composed, composed')
      BY <1>1 DEF EvaluatorInv, PublishedInOrder, ComposedInOrder, Kept
    <2> QED BY <1>1, <2>1, EvaluatorStays
  <1>2. CASE LaunchRun
    <2>1. request # NoRequest
      BY <1>2 DEF LaunchRun
    <2>2. graph = NoGraph
      BY <2>1 DEF PoseInv, AnsweredOnce
    <2>3. published = <<>> /\ composed = <<>>
      BY <2>2, NothingYet DEF EvaluatorInv
    <2> QED BY <1>1, <1>2, <2>3 DEF LaunchRun, supportVars
  <1>3. CASE HandleTruth
    BY <1>1, <1>3 DEF HandleTruth, launchVars, simVars
  <1>4. CASE HandleInitialPose
    BY <1>1, <1>4 DEF HandleInitialPose, launchVars, simVars
  <1>5. CASE PlaceByHand
    BY <1>1, <1>5 DEF PlaceByHand, launchVars, simVars
  <1>6. CASE Estimate
    BY <1>1, <1>6 DEF Estimate, launchVars, simVars, supportVars
  <1>7. CASE UNCHANGED vars
    BY <1>1, <1>7 DEF vars, launchVars, simVars, supportVars
  <1> QED BY <1>2, <1>3, <1>4, <1>5, <1>6, <1>7, EvaluatorSampleStep, EvaluatorComposedStep,
             EvaluateTruthStep, EvaluateEstimateStep DEF Next

\* What the live evaluator says of a sample is what a rescoring offline of
\* everything it heard says, unless it gave it up: whatever the messages lost,
\* their order between the two topics, and the order of the samples.
THEOREM ScoresAgreeHolds == Spec => []ScoresAgree
  <1>1. Init => PoseInv /\ EvaluatorInv
    BY InitInv, InitEvaluator
  <1>2. PoseInv /\ EvaluatorInv /\ [Next]_vars => PoseInv' /\ EvaluatorInv'
    BY NextInv, EvaluatorNext
  <1>3. EvaluatorInv => ScoresAgree
    <2> SUFFICES ASSUME EvaluatorInv PROVE ScoresAgree
      OBVIOUS
    <2>1. \A i \in DOMAIN scores : \/ scores[i].from = Offline(heard, scores[i].stamp)
                                   \/ scores[i].from = {} /\ scores[i].timedOut
      BY Zenon DEF EvaluatorInv, ScoresHold, ScoredAs
    <2>2. \A i, j \in DOMAIN scores : i < j => scores[i].stamp <= scores[j].stamp
      <3>1. DOMAIN scores \subseteq Nat
        BY DEF EvaluatorInv, ScoresHold
      <3>2. \A i, j \in DOMAIN scores : i < j => i <= j
        BY <3>1
      <3> QED BY Zenon, <3>2 DEF EvaluatorInv, ScoresHold
    <2> QED BY Zenon, <2>1, <2>2 DEF ScoresAgree
  <1> QED BY <1>1, <1>2, <1>3, PTL DEF Spec

----------------------------------------------------------------------------

(***************************************************************************)
(* Folds, along a set and along a sequence                                 *)
(***************************************************************************)

\* What a fold over the subsets of D goes by: the value of a set is a step from the
\* value of the set without the element picked.
Folds(f, D, base, pick, step) ==
    \A s \in SUBSET D :
        f[s] = IF s = {} THEN base ELSE step[<<pick[s], f[s \ {pick[s]}]>>]

\* There is such a fold.
LEMMA FoldExists ==
    ASSUME NEW D, IsFiniteSet(D), NEW S, NEW base \in S,
           NEW pick, \A s \in SUBSET D : s # {} => pick[s] \in s,
           NEW step \in [D \X S -> S]
    PROVE  \E f \in [SUBSET D -> S] : Folds(f, D, base, pick, step)
  <1> DEFINE all == (SUBSET D) \X S
             IsClosed(T) ==
                /\ <<{}, base>> \in T
                /\ \A s \in SUBSET D, x \in S :
                      s # {} /\ <<s \ {pick[s]}, x>> \in T => <<s, step[<<pick[s], x>>]>> \in T
             G == {z \in all : \A T \in SUBSET all : IsClosed(T) => z \in T}
  <1>1. \A s \in SUBSET D, x \in S : s # {} =>
           step[<<pick[s], x>>] \in S /\ s \ {pick[s]} \in SUBSET D
    OBVIOUS
  <1>2. IsClosed(all)
    BY <1>1
  <1>3. G \in SUBSET all /\ IsClosed(G)
    <2>1. <<{}, base>> \in G
      OBVIOUS
    <2>2. ASSUME NEW s \in SUBSET D, NEW x \in S, s # {}, <<s \ {pick[s]}, x>> \in G
          PROVE  <<s, step[<<pick[s], x>>]>> \in G
      <3>1. <<s, step[<<pick[s], x>>]>> \in all
        BY <1>1, <2>2
      <3>2. \A T \in SUBSET all : IsClosed(T) => <<s \ {pick[s]}, x>> \in T
        BY <2>2
      <3>3. \A T \in SUBSET all : IsClosed(T) => <<s, step[<<pick[s], x>>]>> \in T
        BY <2>2, <3>2
      <3> QED BY <3>1, <3>3
    <2> QED BY <2>1, <2>2
  <1>4. ASSUME NEW z \in G, IsClosed(G \ {z}) PROVE FALSE
    <2>1. G \ {z} \in SUBSET all
      OBVIOUS
    <2> QED BY <1>4, <2>1
  <1> HIDE DEF G, all
  <1>5. ASSUME NEW x \in S, <<{}, x>> \in G, x # base PROVE FALSE
    <2>1. IsClosed(G \ {<<{}, x>>})
      BY <1>3, <1>5
    <2> QED BY <1>4, <1>5, <2>1
  <1>6. ASSUME NEW s \in SUBSET D, s # {}, NEW w \in S, <<s \ {pick[s]}, w>> \in G,
               \A y \in S : <<s \ {pick[s]}, y>> \in G => y = w,
               NEW x \in S, <<s, x>> \in G, x # step[<<pick[s], w>>]
        PROVE  FALSE
    <2>1. \A t \in SUBSET D, y \in S :
             t # {} /\ <<t \ {pick[t]}, y>> \in G => <<t, step[<<pick[t], y>>]>> # <<s, x>>
      BY <1>6
    <2>2. IsClosed(G \ {<<s, x>>})
      BY <1>3, <1>6, <2>1
    <2> QED BY <1>4, <1>6, <2>2
  <1>7. \A s \in SUBSET D : \E x \in S : <<s, x>> \in G /\ \A y \in S : <<s, y>> \in G => y = x
    <2> DEFINE bad == {s \in SUBSET D :
                          ~ \E x \in S : <<s, x>> \in G /\ \A y \in S : <<s, y>> \in G => y = x}
    <2>1. SUFFICES ASSUME bad # {} PROVE FALSE
      OBVIOUS
    <2>2. PICK m \in bad : \A u \in bad : u \subseteq m => u = m
      <3>1. bad \in SUBSET (SUBSET D)
        OBVIOUS
      <3> HIDE DEF bad
      <3> QED BY <2>1, <3>1, LeastSubset
    <2>3. m # {}
      BY <1>3, <1>5
    <2>4. m \ {pick[m]} \in SUBSET D /\ m \ {pick[m]} \notin bad
      <3>1. m \ {pick[m]} \subseteq m /\ m \ {pick[m]} # m
        BY <2>3
      <3> QED BY <2>2, <3>1
    <2>5. PICK w \in S : <<m \ {pick[m]}, w>> \in G
                      /\ \A y \in S : <<m \ {pick[m]}, y>> \in G => y = w
      BY <2>4
    <2>6. step[<<pick[m], w>>] \in S /\ <<m, step[<<pick[m], w>>]>> \in G
      BY <1>1, <1>3, <2>3, <2>5
    <2>7. \A y \in S : <<m, y>> \in G => y = step[<<pick[m], w>>]
      BY <1>6, <2>3, <2>5
    <2> QED BY <2>6, <2>7
  <1> DEFINE f == [s \in SUBSET D |-> CHOOSE x \in S : <<s, x>> \in G]
  <1>8. \A s \in SUBSET D : f[s] \in S /\ <<s, f[s]>> \in G
                             /\ \A y \in S : <<s, y>> \in G => y = f[s]
    BY <1>7
  <1>9. f \in [SUBSET D -> S]
    BY <1>8
  <1> HIDE DEF f
  <1>10. ASSUME NEW s \in SUBSET D
         PROVE  f[s] = IF s = {} THEN base ELSE step[<<pick[s], f[s \ {pick[s]}]>>]
    <2>1. CASE s = {}
      BY <1>3, <1>8, <2>1
    <2>2. CASE s # {}
      <3>1. s \ {pick[s]} \in SUBSET D /\ f[s \ {pick[s]}] \in S
            /\ <<s \ {pick[s]}, f[s \ {pick[s]}]>> \in G
        BY <1>8
      <3>2. <<s, step[<<pick[s], f[s \ {pick[s]}]>>]>> \in G
        BY <1>3, <2>2, <3>1
      <3>3. step[<<pick[s], f[s \ {pick[s]}]>>] \in S
        BY <1>1, <2>2, <3>1
      <3> QED BY <1>8, <2>2, <3>2, <3>3
    <2> QED BY <2>1, <2>2
  <1> QED BY <1>9, <1>10 DEF Folds

\* The same along a sequence: the value of its first i elements is a step from
\* that of the first i - 1.
Along(f, g, n, base, step) ==
    /\ \A s \in SUBSET (1 .. n) :
          f[s] = IF s = {} THEN base ELSE step[<<Max(s), f[s \ {Max(s)}]>>]
    /\ \A s \in SUBSET (1 .. n) : s # {} => Max(s) \in s
    /\ g[0] = base /\ g[n] = f[1 .. n]
    /\ \A i \in 1 .. n : g[i] = step[<<i, g[i - 1]>>]

\* There is one.
LEMMA AlongExists ==
    ASSUME NEW n \in Nat, NEW S, NEW base \in S, NEW step \in [(1 .. n) \X S -> S]
    PROVE  \E f \in [SUBSET (1 .. n) -> S], g \in [0 .. n -> S] : Along(f, g, n, base, step)
  <1> DEFINE D == 1 .. n
             pick == [s \in SUBSET D |-> Max(s)]
  <1>1. IsFiniteSet(D)
    BY FS_Interval
  <1>2. \A s \in SUBSET D : s # {} => Max(s) \in s /\ pick[s] = Max(s)
    <2> SUFFICES ASSUME NEW s \in SUBSET D, s # {} PROVE Max(s) \in s
      OBVIOUS
    <2>1. s \in SUBSET (0 .. n)
      OBVIOUS
    <2> QED BY <2>1, MaxIsGreatest
  <1> HIDE DEF pick
  <1>3. PICK f \in [SUBSET D -> S] : Folds(f, D, base, pick, step)
    <2>1. step \in [D \X S -> S] /\ \A s \in SUBSET D : s # {} => pick[s] \in s
      BY <1>2
    <2> HIDE DEF D
    <2> QED BY <1>1, <2>1, FoldExists
  <1>4. \A s \in SUBSET D :
           f[s] = IF s = {} THEN base ELSE step[<<Max(s), f[s \ {Max(s)}]>>]
    BY <1>2, <1>3 DEF Folds
  <1> DEFINE g == [i \in 0 .. n |-> f[1 .. i]]
  <1>5. \A i \in 0 .. n : 1 .. i \in SUBSET D /\ f[1 .. i] \in S
    OBVIOUS
  <1>6. g \in [0 .. n -> S] /\ g[0] = base /\ g[n] = f[D]
    <2>1. g \in [0 .. n -> S]
      BY <1>5
    <2>2. 0 \in 0 .. n /\ n \in 0 .. n /\ 1 .. 0 = {} /\ {} \in SUBSET D
      OBVIOUS
    <2>3. f[{}] = base
      BY <1>4, <2>2
    <2> QED BY <2>1, <2>2, <2>3
  <1>7. ASSUME NEW i \in 1 .. n PROVE g[i] = step[<<i, g[i - 1]>>]
    <2>1. i \in 0 .. n /\ i - 1 \in 0 .. n /\ 1 .. i \in SUBSET D /\ 1 .. i # {}
      OBVIOUS
    <2>2. Max(1 .. i) = i
      <3>1. i \in 1 .. i /\ \A y \in 1 .. i : y \in Int /\ y <= i
        OBVIOUS
      <3> QED BY <3>1, MaxIs
    <2>3. (1 .. i) \ {i} = 1 .. (i - 1)
      OBVIOUS
    <2>4. f[1 .. i] = step[<<i, f[1 .. (i - 1)]>>]
      BY <1>4, <2>1, <2>2, <2>3
    <2> QED BY <2>1, <2>4
  <1> HIDE DEF g
  <1> QED BY <1>2, <1>4, <1>6, <1>7 DEF Along

\* The running totals of errors, and what they are after i of them.
Runnings == [samples : Nat, errors : Nat, squares : Nat, sum : Nat, maximum : Int]
NoErrors == [samples |-> 0, errors |-> 0, squares |-> 0, sum |-> 0, maximum |-> NoScore]

\* An error more, and it is still a running error.
LEMMA AddedIs ==
    ASSUME NEW r \in Runnings, NEW e \in Nat \cup {NoScore}
    PROVE  Added(r, e) \in Runnings
  <1>1. NoScore \in Int /\ (e # NoScore => e \in Nat /\ e * e \in Nat)
    BY DEF NoScore
  <1>2. r.samples + 1 \in Nat /\ r.errors + 1 \in Nat
    BY DEF Runnings
  <1>3. CASE e = NoScore
    BY <1>2, <1>3 DEF Added, Runnings
  <1>4. CASE e # NoScore
    <2>1. r.squares + e * e \in Nat /\ r.sum + e \in Nat /\ r.maximum \in Int /\ e \in Int
      BY <1>1, <1>4 DEF Runnings
    <2> QED BY <1>2, <1>4, <2>1 DEF Added, Runnings
  <1> QED BY <1>3, <1>4

\* The running error after each of them.
LEMMA SummarizedIs ==
    ASSUME NEW m \in Nat, NEW errors \in [1 .. m -> Nat \cup {NoScore}]
    PROVE  \E g \in [0 .. m -> Runnings] :
              /\ g[0] = NoErrors /\ Summarized(errors) = g[m]
              /\ \A i \in 1 .. m : g[i] = Added(g[i - 1], errors[i])
  <1> DEFINE D == 1 .. m
             S == Runnings
             step == [p \in D \X S |-> Added(p[2], errors[p[1]])]
             iter[s \in SUBSET D] ==
                IF s = {} THEN NoErrors ELSE Added(iter[s \ {Max(s)}], errors[Max(s)])
  <1>1. NoErrors \in S
    BY DEF NoErrors, Runnings, NoScore
  <1>2. step \in [D \X S -> S] /\ \A x \in D, r \in S : step[<<x, r>>] = Added(r, errors[x])
    BY AddedIs
  <1> HIDE DEF step
  <1>3. PICK f \in [SUBSET D -> S], g \in [0 .. m -> S] :
              /\ \A s \in SUBSET D :
                    f[s] = IF s = {} THEN NoErrors ELSE step[<<Max(s), f[s \ {Max(s)}]>>]
              /\ \A s \in SUBSET D : s # {} => Max(s) \in s
              /\ g[0] = NoErrors /\ g[m] = f[D]
              /\ \A i \in 1 .. m : g[i] = step[<<i, g[i - 1]>>]
    <2>1. step \in [(1 .. m) \X S -> S]
      BY <1>2
    <2> HIDE DEF S, iter
    <2>2. PICK f \in [SUBSET (1 .. m) -> S], g \in [0 .. m -> S] : Along(f, g, m, NoErrors, step)
      BY <1>1, <2>1, AlongExists
    <2> QED BY <2>2 DEF Along
  <1>4. \A s \in SUBSET D : s # {} => Max(s) \in D /\ f[s \ {Max(s)}] \in S
    BY <1>3
  <1>5. f = [s \in SUBSET D |->
                IF s = {} THEN NoErrors ELSE Added(f[s \ {Max(s)}], errors[Max(s)])]
    <2>1. \A s \in SUBSET D :
             f[s] = IF s = {} THEN NoErrors ELSE Added(f[s \ {Max(s)}], errors[Max(s)])
      BY <1>2, <1>3, <1>4
    <2> HIDE DEF D, S
    <2> QED BY <2>1
  <1>6. iter = [s \in SUBSET D |->
                IF s = {} THEN NoErrors ELSE Added(iter[s \ {Max(s)}], errors[Max(s)])]
    <2>1. iter = CHOOSE h : h = [s \in SUBSET D |->
                IF s = {} THEN NoErrors ELSE Added(h[s \ {Max(s)}], errors[Max(s)])]
      OBVIOUS
    <2> HIDE DEF iter
    <2> QED BY <1>5, <2>1
  <1>7. Summarized(errors) = iter[D]
    <2>1. DOMAIN errors = D
      OBVIOUS
    <2> HIDE DEF D
    <2> QED BY <2>1 DEF Summarized, FoldLeft, MapThenFoldSet, NoErrors
  <1> HIDE DEF iter
  <1>8. iter[D] = f[D]
    <2> DEFINE bad == {s \in SUBSET D : iter[s] # f[s]}
    <2>1. SUFFICES ASSUME bad # {} PROVE FALSE
      BY <2>1
    <2>2. PICK b \in bad : \A u \in bad : u \subseteq b => u = b
      <3>1. bad \in SUBSET (SUBSET D) /\ IsFiniteSet(D)
        BY FS_Interval
      <3> HIDE DEF bad, D
      <3> QED BY <2>1, <3>1, LeastSubset
    <2>3. b # {}
      BY <1>5, <1>6
    <2>4. b \ {Max(b)} \in SUBSET D /\ b \ {Max(b)} \notin bad
      BY <1>3, <2>2, <2>3
    <2>5. iter[b \ {Max(b)}] = f[b \ {Max(b)}]
      BY <2>4
    <2>6. /\ iter[b] = Added(iter[b \ {Max(b)}], errors[Max(b)])
          /\ f[b] = Added(f[b \ {Max(b)}], errors[Max(b)])
      BY <1>5, <1>6, <2>3
    <2> QED BY <2>5, <2>6
  <1>9. \A i \in 1 .. m : g[i] = Added(g[i - 1], errors[i])
    <2> SUFFICES ASSUME NEW i \in 1 .. m PROVE g[i] = Added(g[i - 1], errors[i])
      OBVIOUS
    <2>1. i - 1 \in 0 .. m
      OBVIOUS
    <2>2. g[i - 1] \in S
      BY <2>1
    <2> QED BY <1>2, <1>3, <2>2
  <1> QED BY <1>3, <1>7, <1>8, <1>9

\* A sum over a set, in whatever order: any element is a summand of its own.
Sums(f, D, w) ==
    /\ f[{}] = 0
    /\ \A s \in SUBSET D : \A x \in s : f[s] = w[x] + f[s \ {x}]

\* The element a fold over a set takes.
AnyOf(s) == CHOOSE x \in s : TRUE

\* FoldFunction adds up.
LEMMA TotalIs ==
    ASSUME NEW D, IsFiniteSet(D), NEW w \in [D -> Nat]
    PROVE  \E f \in [SUBSET D -> Nat] : Sums(f, D, w) /\ FoldFunction(+, 0, w) = f[D]
  <1> DEFINE pick == [s \in SUBSET D |-> AnyOf(s)]
             step == [p \in D \X Nat |-> w[p[1]] + p[2]]
             iter[s \in SUBSET D] ==
                IF s = {} THEN 0
                ELSE w[AnyOf(s)] + iter[s \ {AnyOf(s)}]
  <1>1. \A s \in SUBSET D : s # {} => pick[s] \in s /\ pick[s] = AnyOf(s)
    BY DEF AnyOf
  <1>2. step \in [D \X Nat -> Nat] /\ \A x \in D, y \in Nat : step[<<x, y>>] = w[x] + y
    OBVIOUS
  <1> HIDE DEF step
  <1>3. PICK f \in [SUBSET D -> Nat] : Folds(f, D, 0, pick, step)
    <2> HIDE DEF pick, iter
    <2> QED BY <1>1, <1>2, FoldExists
  <1>4. \A s \in SUBSET D :
           /\ f[s] \in Nat
           /\ s = {} => f[s] = 0
           /\ s # {} => f[s] = w[pick[s]] + f[s \ {pick[s]}]
    <2> SUFFICES ASSUME NEW s \in SUBSET D
                 PROVE  /\ s = {} => f[s] = 0
                        /\ s # {} => f[s] = w[pick[s]] + f[s \ {pick[s]}]
      OBVIOUS
    <2>1. f[s] = IF s = {} THEN 0 ELSE step[<<pick[s], f[s \ {pick[s]}]>>]
      BY <1>3 DEF Folds
    <2>2. s # {} => pick[s] \in D /\ f[s \ {pick[s]}] \in Nat
      BY <1>1
    <2> HIDE DEF pick
    <2> QED BY <1>2, <2>1, <2>2
  <1>5. f = [s \in SUBSET D |->
                IF s = {} THEN 0
                ELSE w[AnyOf(s)] + f[s \ {AnyOf(s)}]]
    BY <1>1, <1>4
  <1>6. iter = [s \in SUBSET D |->
                IF s = {} THEN 0
                ELSE w[AnyOf(s)] + iter[s \ {AnyOf(s)}]]
    <2>1. iter = CHOOSE h : h = [s \in SUBSET D |->
                IF s = {} THEN 0
                ELSE w[AnyOf(s)] + h[s \ {AnyOf(s)}]]
      OBVIOUS
    <2> HIDE DEF iter
    <2> QED BY <1>5, <2>1
  <1>7. FoldFunction(+, 0, w) = iter[D]
    <2>1. DOMAIN w = D
      OBVIOUS
    <2> QED BY <2>1 DEF FoldFunction, FoldFunctionOnSet, MapThenFoldSet, AnyOf
  <1>8. \A s \in SUBSET D :
           /\ s = {} => iter[s] = 0
           /\ s # {} => iter[s] = w[pick[s]] + iter[s \ {pick[s]}]
    BY <1>1, <1>6
  <1> HIDE DEF iter, pick
  <1>9. iter[D] = f[D]
    <2> DEFINE bad == {s \in SUBSET D : iter[s] # f[s]}
    <2>1. SUFFICES ASSUME bad # {} PROVE FALSE
      BY <2>1
    <2>2. PICK b \in bad : \A u \in bad : u \subseteq b => u = b
      <3>1. bad \in SUBSET (SUBSET D)
        OBVIOUS
      <3> HIDE DEF bad
      <3> QED BY <2>1, <3>1, LeastSubset
    <2>3. b # {}
      BY <1>4, <1>8
    <2>4. b \ {pick[b]} \in SUBSET D /\ b \ {pick[b]} \notin bad
      BY <1>1, <2>2, <2>3
    <2> QED BY <1>4, <1>8, <2>3, <2>4
  <1>10. Sums(f, D, w)
    <2> DEFINE bad == {s \in SUBSET D : \E x \in s : f[s] # w[x] + f[s \ {x}]}
    <2>1. SUFFICES ASSUME bad # {} PROVE FALSE
      BY <1>4, <2>1 DEF Sums
    <2>2. PICK b \in bad : \A u \in bad : u \subseteq b => u = b
      <3>1. bad \in SUBSET (SUBSET D)
        OBVIOUS
      <3> HIDE DEF bad
      <3> QED BY <2>1, <3>1, LeastSubset
    <2>3. PICK x \in b : f[b] # w[x] + f[b \ {x}]
      OBVIOUS
    <2> DEFINE p == pick[b]
               least == (b \ {p}) \ {x}
    <2>4. p \in b /\ p # x /\ f[b] = w[p] + f[b \ {p}]
      BY <1>1, <1>4, <2>3
    <2>5. /\ b \ {p} \in SUBSET D /\ b \ {p} \notin bad /\ x \in b \ {p}
          /\ b \ {x} \in SUBSET D /\ b \ {x} \notin bad /\ p \in b \ {x}
          /\ (b \ {x}) \ {p} = least
      BY <2>2, <2>3, <2>4
    <2>6. f[b \ {p}] = w[x] + f[least] /\ f[b \ {x}] = w[p] + f[least]
      BY <2>5
    <2>7. w[x] \in Nat /\ w[p] \in Nat /\ f[least] \in Nat
      BY <2>3, <2>4
    <2> HIDE DEF p, least, bad
    <2> QED BY <2>3, <2>4, <2>6, <2>7
  <1> QED BY <1>7, <1>9, <1>10

----------------------------------------------------------------------------

(***************************************************************************)
(* The lines of a recording in their order                                 *)
(***************************************************************************)

\* A finite set of numbers has a greatest.
LEMMA FiniteGreatest ==
    ASSUME NEW S, IsFiniteSet(S), S # {}, \A y \in S : y \in Nat
    PROVE  \E x \in S : \A y \in S : y <= x
  <1> DEFINE bad == {s \in SUBSET S : s # {} /\ ~ \E x \in s : \A y \in s : y <= x}
  <1>1. SUFFICES ASSUME bad # {} PROVE FALSE
    OBVIOUS
  <1>2. PICK b \in bad : \A u \in bad : u \subseteq b => u = b
    <2> DEFINE T == bad
    <2>1. T \in SUBSET (SUBSET S) /\ T # {} /\ IsFiniteSet(S)
      BY <1>1
    <2> HIDE DEF T
    <2>2. \E m \in T : \A u \in T : u \subseteq m => u = m
      BY <2>1, LeastSubset
    <2> QED BY <2>2 DEF T
  <1>3. PICK x \in b : x \in Nat
    OBVIOUS
  <1>4. b \ {x} \notin bad
    BY <1>2, <1>3
  <1>5. b \ {x} # {}
    <2>1. CASE b \ {x} = {}
      <3>1. \A y \in b : y <= x
        BY <1>3, <2>1
      <3> QED BY <1>3, <3>1
    <2> QED BY <2>1
  <1>6. PICK z \in b \ {x} : \A y \in b \ {x} : y <= z
    BY <1>4, <1>5
  <1>7. \A y \in b : y \in Nat
    OBVIOUS
  <1>8. z \in b /\ ~ \A y \in b : y <= z
    BY <1>6
  <1>9. z <= x
    BY <1>3, <1>6, <1>7, <1>8
  <1>10. \A y \in b : y <= x
    BY <1>3, <1>6, <1>7, <1>9
  <1> QED BY <1>3, <1>10

\* The lines of a recording are finitely many, and a stamp and a place each.
LEMMA LinesTyped ==
    ASSUME NEW stream \in Streams
    PROVE  /\ Len(stream) \in Nat /\ DOMAIN stream = 1 .. Len(stream)
           /\ \A k \in DOMAIN stream :
                 k \in Nat /\ stream[k].stamp \in Nat /\ stream[k].at \in Int
           /\ IsFiniteSet(DOMAIN stream) /\ Cardinality(DOMAIN stream) = Len(stream)
           /\ \A S \in SUBSET (DOMAIN stream) :
                 /\ IsFiniteSet(S) /\ Cardinality(S) \in Nat
                 /\ Cardinality(S) <= Len(stream)
  <1> DEFINE n == Len(stream)
  <1>1. /\ n \in Nat /\ DOMAIN stream = 1 .. n
        /\ \A k \in 1 .. n : stream[k] \in [stamp : Nat, at : Int]
    <2> DEFINE Line == [stamp : Nat, at : Int]
    <2>1. stream \in Seq(Line)
      BY DEF Streams
    <2> HIDE DEF Line
    <2>2. n \in Nat /\ DOMAIN stream = 1 .. n /\ \A k \in 1 .. n : stream[k] \in Line
      BY <2>1
    <2> QED BY <2>2 DEF Line
  <1>2. \A k \in DOMAIN stream :
           k \in Nat /\ stream[k].stamp \in Nat /\ stream[k].at \in Int
    BY <1>1
  <1> HIDE DEF n
  <1>3. IsFiniteSet(1 .. n) /\ Cardinality(1 .. n) = n
    BY <1>1, FS_Interval
  <1>4. \A S \in SUBSET (1 .. n) :
           IsFiniteSet(S) /\ Cardinality(S) \in Nat /\ Cardinality(S) <= n
    BY <1>3, FS_Subset, FS_CardinalityType
  <1> QED BY <1>1, <1>2, <1>3, <1>4 DEF n

\* By the stamp and then by the line, they have an order.
LEMMA AheadIsOrder ==
    ASSUME NEW stream \in Streams
    PROVE  \A k, l, m \in DOMAIN stream :
              /\ Ahead(stream, k, k)
              /\ Ahead(stream, k, l) \/ Ahead(stream, l, k)
              /\ Ahead(stream, k, l) /\ Ahead(stream, l, k) => k = l
              /\ Ahead(stream, k, l) /\ Ahead(stream, l, m) => Ahead(stream, k, m)
              /\ Ahead(stream, k, l) => stream[k].stamp <= stream[l].stamp
              /\ stream[k].stamp < stream[l].stamp =>
                    Ahead(stream, k, l) /\ ~Ahead(stream, l, k)
  <1> SUFFICES ASSUME NEW k \in DOMAIN stream, NEW l \in DOMAIN stream,
                      NEW m \in DOMAIN stream
               PROVE
              /\ Ahead(stream, k, k)
              /\ Ahead(stream, k, l) \/ Ahead(stream, l, k)
              /\ Ahead(stream, k, l) /\ Ahead(stream, l, k) => k = l
              /\ Ahead(stream, k, l) /\ Ahead(stream, l, m) => Ahead(stream, k, m)
              /\ Ahead(stream, k, l) => stream[k].stamp <= stream[l].stamp
              /\ stream[k].stamp < stream[l].stamp =>
                    Ahead(stream, k, l) /\ ~Ahead(stream, l, k)
    OBVIOUS
  <1>1. /\ k \in Nat /\ l \in Nat /\ m \in Nat
        /\ stream[k].stamp \in Nat /\ stream[l].stamp \in Nat /\ stream[m].stamp \in Nat
    BY LinesTyped
  <1> QED BY <1>1 DEF Ahead

\* Of some lines one is the last and one the first.
LEMMA LastLine ==
    ASSUME NEW stream \in Streams, NEW S \in SUBSET (DOMAIN stream), S # {}
    PROVE  \E x \in S : \A y \in S : Ahead(stream, y, x)
  <1> DEFINE bad == {s \in SUBSET S : s # {} /\ ~ \E x \in s : \A y \in s : Ahead(stream, y, x)}
  <1>1. SUFFICES ASSUME bad # {} PROVE FALSE
    OBVIOUS
  <1>2. PICK b \in bad : \A u \in bad : u \subseteq b => u = b
    <2> DEFINE T == bad
    <2>1. T \in SUBSET (SUBSET S) /\ T # {} /\ IsFiniteSet(S)
      BY <1>1, LinesTyped
    <2> HIDE DEF T
    <2>2. \E m \in T : \A u \in T : u \subseteq m => u = m
      BY <2>1, LeastSubset
    <2> QED BY <2>2 DEF T
  <1>3. PICK x \in b : x \in DOMAIN stream
    OBVIOUS
  <1>4. /\ b \subseteq DOMAIN stream /\ b \ {x} \in SUBSET S
        /\ ~ \E z \in b : \A y \in b : Ahead(stream, y, z)
    OBVIOUS
  <1>5. b \ {x} \notin bad
    BY <1>2, <1>3
  <1>6. Ahead(stream, x, x)
    BY <1>3, AheadIsOrder
  <1>7. b \ {x} # {}
    BY <1>3, <1>4, <1>6
  <1>8. PICK z \in b \ {x} : \A y \in b \ {x} : Ahead(stream, y, z)
    BY <1>4, <1>5, <1>7
  <1> HIDE DEF bad
  <1>9. ~Ahead(stream, x, z)
    BY <1>3, <1>4, <1>8
  <1>10. Ahead(stream, z, x)
    BY <1>3, <1>4, <1>8, <1>9, AheadIsOrder
  <1>11. \A y \in b : Ahead(stream, y, x)
    BY <1>3, <1>4, <1>6, <1>8, <1>10, AheadIsOrder
  <1> QED BY <1>3, <1>4, <1>11

LEMMA FirstLine ==
    ASSUME NEW stream \in Streams, NEW S \in SUBSET (DOMAIN stream), S # {}
    PROVE  \E x \in S : \A y \in S : Ahead(stream, x, y)
  <1> DEFINE bad == {s \in SUBSET S : s # {} /\ ~ \E x \in s : \A y \in s : Ahead(stream, x, y)}
  <1>1. SUFFICES ASSUME bad # {} PROVE FALSE
    OBVIOUS
  <1>2. PICK b \in bad : \A u \in bad : u \subseteq b => u = b
    <2> DEFINE T == bad
    <2>1. T \in SUBSET (SUBSET S) /\ T # {} /\ IsFiniteSet(S)
      BY <1>1, LinesTyped
    <2> HIDE DEF T
    <2>2. \E m \in T : \A u \in T : u \subseteq m => u = m
      BY <2>1, LeastSubset
    <2> QED BY <2>2 DEF T
  <1>3. PICK x \in b : x \in DOMAIN stream
    OBVIOUS
  <1>4. /\ b \subseteq DOMAIN stream /\ b \ {x} \in SUBSET S
        /\ ~ \E z \in b : \A y \in b : Ahead(stream, z, y)
    OBVIOUS
  <1>5. b \ {x} \notin bad
    BY <1>2, <1>3
  <1>6. Ahead(stream, x, x)
    BY <1>3, AheadIsOrder
  <1>7. b \ {x} # {}
    BY <1>3, <1>4, <1>6
  <1>8. PICK z \in b \ {x} : \A y \in b \ {x} : Ahead(stream, z, y)
    BY <1>4, <1>5, <1>7
  <1> HIDE DEF bad
  <1>9. ~Ahead(stream, z, x)
    BY <1>3, <1>4, <1>8
  <1>10. Ahead(stream, x, z)
    BY <1>3, <1>4, <1>8, <1>9, AheadIsOrder
  <1>11. \A y \in b : Ahead(stream, x, y)
    BY <1>3, <1>4, <1>6, <1>8, <1>10, AheadIsOrder
  <1> QED BY <1>3, <1>4, <1>11

\* How many of some lines come no later than this one.
Rank(stream, S, k) == Cardinality({l \in S : Ahead(stream, l, k)})

\* There is a line of every rank.
LEMMA RankIs ==
    ASSUME NEW stream \in Streams, NEW S \in SUBSET (DOMAIN stream),
           NEW i \in 1 .. Cardinality(S)
    PROVE  \E f \in S : Rank(stream, S, f) = i
  <1> DEFINE T == {f \in S : Rank(stream, S, f) >= i}
  <1>0. /\ Cardinality(S) \in Nat
        /\ \A U \in SUBSET S : IsFiniteSet(U) /\ Cardinality(U) \in Nat
    BY LinesTyped
  <1>1. \A f \in S : Rank(stream, S, f) \in Nat
    <2>1. \A f \in S : {g \in S : Ahead(stream, g, f)} \in SUBSET S
      OBVIOUS
    <2> QED BY <1>0, <2>1 DEF Rank
  <1>2. T # {}
    <2>1. S # {}
      BY <1>0, FS_EmptySet
    <2>2. PICK x \in S : \A y \in S : Ahead(stream, y, x)
      BY <2>1, LastLine
    <2>3. {g \in S : Ahead(stream, g, x)} = S
      BY <2>2
    <2> QED BY <1>0, <2>2, <2>3 DEF Rank
  <1>3. T \in SUBSET (DOMAIN stream)
    OBVIOUS
  <1> HIDE DEF T
  <1>4. PICK f \in T : \A y \in T : Ahead(stream, f, y)
    BY <1>2, <1>3, FirstLine
  <1>5. f \in S /\ f \in DOMAIN stream /\ Rank(stream, S, f) >= i
    BY DEF T
  <1> DEFINE less == {g \in S : Ahead(stream, g, f) /\ g # f}
  <1>6. less \in SUBSET S /\ f \notin less
        /\ {g \in S : Ahead(stream, g, f)} = less \cup {f}
    <2>1. Ahead(stream, f, f)
      BY <1>5, AheadIsOrder
    <2> QED BY <1>5, <2>1
  <1>7. IsFiniteSet(less) /\ Cardinality(less) \in Nat
    BY <1>0, <1>6
  <1>8. Rank(stream, S, f) = Cardinality(less) + 1
    BY <1>6, <1>7, FS_AddElement DEF Rank
  <1>9. Cardinality(less) < i
    <2>1. CASE less = {}
      BY <2>1, FS_EmptySet
    <2>2. CASE less # {}
      <3>0. less \in SUBSET (DOMAIN stream)
        OBVIOUS
      <3>1. PICK x \in less : \A y \in less : Ahead(stream, y, x)
        <4> HIDE DEF less
        <4> QED BY <2>2, <3>0, LastLine
      <3>2. x \in S /\ x \in DOMAIN stream /\ x # f /\ Ahead(stream, x, f)
        OBVIOUS
      <3>3. x \notin T
        <4>1. ~Ahead(stream, f, x)
          BY <1>5, <3>2, AheadIsOrder
        <4> QED BY <1>4, <4>1
      <3>4. {g \in S : Ahead(stream, g, x)} = less
        <4>1. \A g \in S : Ahead(stream, g, x) => Ahead(stream, g, f) /\ g # f
          BY <1>5, <3>2, AheadIsOrder
        <4> QED BY <3>1, <4>1
      <3> QED BY <1>7, <3>2, <3>3, <3>4 DEF T, Rank
    <2> QED BY <2>1, <2>2
  <1> HIDE DEF less
  <1> QED BY <1>5, <1>7, <1>8, <1>9

\* A later one has a higher rank.
LEMMA RankGrows ==
    ASSUME NEW stream \in Streams, NEW S \in SUBSET (DOMAIN stream),
           NEW f \in S, NEW g \in S, Ahead(stream, f, g), f # g
    PROVE  Rank(stream, S, f) < Rank(stream, S, g)
  <1> DEFINE low == {h \in S : Ahead(stream, h, f)}
             high == {h \in S : Ahead(stream, h, g)}
  <1>0. f \in DOMAIN stream /\ g \in DOMAIN stream
    OBVIOUS
  <1>1. \A y \in S : Ahead(stream, y, f) => Ahead(stream, y, g)
    BY <1>0, AheadIsOrder
  <1>2. low \cup {g} \subseteq high /\ high \subseteq S /\ low \subseteq S /\ g \notin low
    <2>1. Ahead(stream, g, g) /\ ~Ahead(stream, g, f)
      BY <1>0, AheadIsOrder
    <2> QED BY <1>1, <2>1
  <1>3. high \in SUBSET (DOMAIN stream) /\ low \in SUBSET (DOMAIN stream)
    OBVIOUS
  <1> HIDE DEF low, high
  <1>4. IsFiniteSet(high) /\ IsFiniteSet(low)
        /\ Cardinality(low) \in Nat /\ Cardinality(high) \in Nat
    BY <1>3, LinesTyped
  <1>5. Cardinality(low \cup {g}) = Cardinality(low) + 1 /\ IsFiniteSet(low \cup {g})
    BY <1>2, <1>4, FS_AddElement
  <1>6. Cardinality(low \cup {g}) <= Cardinality(high)
    BY <1>2, <1>4, FS_Subset
  <1> QED BY <1>4, <1>5, <1>6 DEF Rank, low, high

\* sorted() gives every line once, in order.
Listed(s, stream, S) ==
    /\ Cardinality(S) \in Nat
    /\ s \in [1 .. Cardinality(S) -> S] /\ s \in Seq(Nat) /\ Len(s) = Cardinality(S)
    /\ \A i, j \in 1 .. Cardinality(S) : i < j => Ahead(stream, s[i], s[j]) /\ s[i] # s[j]
    /\ \A x \in S : \E i \in 1 .. Cardinality(S) : s[i] = x

\* Ascending lists some lines.
LEMMA AscendingIs ==
    ASSUME NEW stream \in Streams, NEW S \in SUBSET (DOMAIN stream)
    PROVE  Listed(Ascending(stream, S), stream, S)
  <1> DEFINE n == Cardinality(S)
             s == Ascending(stream, S)
  <1>1. n \in Nat /\ \A x \in S : x \in DOMAIN stream /\ x \in Nat
    BY LinesTyped
  <1>2. \A i \in 1 .. n : s[i] \in S /\ Rank(stream, S, s[i]) = i
    <2> SUFFICES ASSUME NEW i \in 1 .. n PROVE s[i] \in S /\ Rank(stream, S, s[i]) = i
      OBVIOUS
    <2>1. s[i] = CHOOSE f \in S : Rank(stream, S, f) = i
      BY DEF Ascending, Rank
    <2>2. \E f \in S : Rank(stream, S, f) = i
      BY RankIs
    <2> HIDE DEF s
    <2> QED BY <2>1, <2>2
  <1>3. s = [i \in 1 .. n |-> s[i]]
    BY DEF Ascending
  <1> HIDE DEF s
  <1>4. s \in [1 .. n -> S] /\ s \in Seq(Nat) /\ Len(s) = n
    <2>1. s \in [1 .. n -> S] /\ s \in [1 .. n -> Nat]
      BY <1>1, <1>2, <1>3
    <2>2. s \in Seq(Nat)
      BY <1>1, <2>1
    <2> QED BY <1>1, <2>1, <2>2
  <1>5. ASSUME NEW i \in 1 .. n, NEW j \in 1 .. n, i < j
        PROVE  Ahead(stream, s[i], s[j]) /\ s[i] # s[j]
    <2>1. s[i] \in S /\ s[j] \in S /\ s[i] \in DOMAIN stream /\ s[j] \in DOMAIN stream
          /\ Rank(stream, S, s[i]) = i /\ Rank(stream, S, s[j]) = j
      BY <1>1, <1>2
    <2>2. s[i] # s[j]
      BY <1>5, <2>1
    <2>3. CASE Ahead(stream, s[j], s[i])
      <3>1. j < i
        BY <2>1, <2>2, <2>3, RankGrows
      <3> QED BY <1>5, <3>1
    <2> QED BY <2>1, <2>2, <2>3, AheadIsOrder
  <1>6. ASSUME NEW x \in S PROVE \E i \in 1 .. n : s[i] = x
    <2> DEFINE U == {g \in S : Ahead(stream, g, x)}
    <2>1. U \in SUBSET S /\ x \in U /\ x \in DOMAIN stream /\ IsFiniteSet(S)
      <3>1. x \in DOMAIN stream /\ Ahead(stream, x, x)
        BY <1>1, AheadIsOrder
      <3> QED BY <3>1, LinesTyped
    <2>2. IsFiniteSet(U) /\ Cardinality(U) \in Nat /\ Cardinality(U) <= n /\ Cardinality(U) # 0
      <3> HIDE DEF U
      <3> QED BY <2>1, FS_Subset, FS_CardinalityType, FS_EmptySet
    <2>3. Rank(stream, S, x) \in 1 .. n
      BY <1>1, <2>2 DEF Rank
    <2> DEFINE y == s[Rank(stream, S, x)]
    <2>4. y \in S /\ y \in DOMAIN stream /\ Rank(stream, S, y) = Rank(stream, S, x)
      BY <1>1, <1>2, <2>3
    <2> HIDE DEF y
    <2>5. y = x
      <3>1. Rank(stream, S, x) \in Nat
        BY <2>3
      <3>2. CASE y # x /\ Ahead(stream, x, y)
        BY <2>4, <3>1, <3>2, RankGrows
      <3>3. CASE y # x /\ Ahead(stream, y, x)
        BY <2>4, <3>1, <3>3, RankGrows
      <3> QED BY <2>1, <2>4, <3>2, <3>3, AheadIsOrder
    <2> QED BY <2>3, <2>5 DEF y
  <1> QED BY <1>1, <1>4, <1>5, <1>6 DEF Listed, s

\* The stamps of a list of lines do not go back, and are those of its lines.
InOrder(s, stream, S) ==
    /\ StampsOf(stream, s) \in [1 .. Cardinality(S) -> Nat]
    /\ \A i \in 1 .. Cardinality(S) : StampsOf(stream, s)[i] = stream[s[i]].stamp
    /\ \A i, j \in 1 .. Cardinality(S) :
          i < j => StampsOf(stream, s)[i] <= StampsOf(stream, s)[j]

LEMMA StampsAscend ==
    ASSUME NEW stream \in Streams, NEW S \in SUBSET (DOMAIN stream),
           NEW s, Listed(s, stream, S)
    PROVE  InOrder(s, stream, S)
  <1> DEFINE n == Cardinality(S)
             T == StampsOf(stream, s)
  <1>1. /\ n \in Nat /\ s \in [1 .. n -> S]
        /\ \A i, j \in 1 .. n : i < j => Ahead(stream, s[i], s[j])
    BY DEF Listed
  <1>2. DOMAIN s = 1 .. n /\ \A i \in 1 .. n : s[i] \in DOMAIN stream /\ stream[s[i]].stamp \in Nat
    BY <1>1, LinesTyped
  <1>3. T = [i \in 1 .. n |-> stream[s[i]].stamp]
    BY <1>2 DEF StampsOf
  <1>4. ASSUME NEW i \in 1 .. n, NEW j \in 1 .. n, i < j
        PROVE  stream[s[i]].stamp <= stream[s[j]].stamp
    BY <1>1, <1>2, <1>4, AheadIsOrder
  <1> HIDE DEF T, n
  <1>5. T \in [1 .. n -> Nat] /\ \A i \in 1 .. n : T[i] = stream[s[i]].stamp
    BY <1>2, <1>3
  <1>6. \A i, j \in 1 .. n : i < j => T[i] <= T[j]
    BY <1>4, <1>5
  <1> QED BY <1>5, <1>6 DEF T, n, InOrder

----------------------------------------------------------------------------

(***************************************************************************)
(* A recording is aligned                                                  *)
(***************************************************************************)

\* Whether an estimate has reached it or not, the aligner says of a stamp not before
\* its horizon what is said offline.
LEMMA SaysOffline ==
    ASSUME NEW a, NEW known \in SUBSET Nat, AlignerHolds(a, known),
           NEW stamp \in Nat, Horizon(a) <= stamp
    PROVE  EstimateAt(a.estimates, stamp) = Offline(known, stamp)
  <1> DEFINE E == a.estimates
  <1>1. /\ E \in Seq(Nat) /\ Sorted(E) /\ DOMAIN E = 1 .. Len(E) /\ Len(E) \in Nat
        /\ \A i \in DOMAIN E : E[i] \in Nat /\ E[i] \in known
        /\ \A h \in known : \/ \E i \in DOMAIN E : E[i] = h
                            \/ E # <<>> /\ h <= E[1]
    BY DEF AlignerHolds
  <1>2. CASE \E i \in DOMAIN E : E[i] >= stamp
    BY <1>2, SaysAsOffline
  <1>3. CASE \A i \in DOMAIN E : E[i] < stamp
    <2>1. EstimateAt(E, stamp) = {}
      BY <1>1, <1>3, SaysNothing
    <2>2. \A h \in known : h < stamp
      <3> SUFFICES ASSUME NEW h \in known PROVE h < stamp
        OBVIOUS
      <3>1. CASE \E i \in DOMAIN E : E[i] = h
        BY <1>3, <3>1
      <3>2. CASE E # <<>> /\ h <= E[1]
        <4>1. 1 \in DOMAIN E
          BY <1>1, <3>2
        <4>2. E[1] < stamp /\ E[1] \in Nat /\ h \in Nat
          BY <1>1, <1>3, <4>1
        <4> QED BY <3>2, <4>2
      <3> QED BY <1>1, <3>1, <3>2
    <2>3. stamp \notin known /\ {e \in known : e > stamp} = {}
      <3>1. \A h \in known : h \in Nat /\ h < stamp
        BY <2>2
      <3>2. \A h \in known : h # stamp /\ ~(h > stamp)
        BY <3>1
      <3> QED BY <3>2
    <2> QED BY <2>1, <2>3 DEF Offline
  <1>4. \A i \in DOMAIN E : E[i] >= stamp \/ E[i] < stamp
    BY <1>1
  <1> QED BY <1>2, <1>3, <1>4

\* What an aligner holds.
Aligners == [estimates : Seq(Nat), pending : Seq(Nat), latest : Int]

\* An estimate is inserted into a list of stamps.
LEMMA InsertedIs ==
    ASSUME NEW s \in Seq(Nat), NEW stamp \in Nat
    PROVE  Inserted(s, stamp) \in Seq(Nat)
  <1> DEFINE U == {i \in DOMAIN s : s[i] <= stamp}
             at == Cardinality(U)
  <1>1. U \in SUBSET (1 .. Len(s)) /\ Len(s) \in Nat
    OBVIOUS
  <1> HIDE DEF U
  <1>2. IsFiniteSet(U) /\ at \in Nat /\ at <= Len(s)
    <2> DEFINE n == Len(s)
    <2>1. n \in Nat /\ U \in SUBSET (1 .. n)
      BY <1>1
    <2> HIDE DEF n
    <2>2. IsFiniteSet(1 .. n) /\ Cardinality(1 .. n) = n
      BY <2>1, FS_Interval
    <2> QED BY <2>1, <2>2, FS_Subset, FS_CardinalityType DEF n
  <1>3. Inserted(s, stamp) = (SubSeq(s, 1, at) \o <<stamp>>) \o SubSeq(s, at + 1, Len(s))
    <2>1. Inserted(s, stamp) = InsertAt(s, at + 1, stamp)
      BY DEF Inserted, U
    <2>2. (at + 1) - 1 = at
      BY <1>2
    <2> HIDE DEF at
    <2> QED BY <2>1, <2>2, InsertAtIs
  <1> HIDE DEF at
  <1>5. SubSeq(s, 1, at) \in Seq(Nat) /\ SubSeq(s, at + 1, Len(s)) \in Seq(Nat)
    <2>1. \A i \in 1 .. at : s[i] \in Nat
      BY <1>1, <1>2
    <2>2. \A i \in at + 1 .. Len(s) : s[i] \in Nat
      BY <1>1, <1>2
    <2> QED BY <1>1, <1>2, <2>1, <2>2
  <1> QED BY <1>3, <1>5

\* An aligner that hears an estimate.
LEMMA EstimateTyped ==
    ASSUME NEW a \in Aligners, NEW stamp \in Nat
    PROVE  /\ AddEstimate(a, stamp) \in Aligners
           /\ AddEstimate(a, stamp).pending = a.pending
  <1>1. Inserted(a.estimates, stamp) \in Seq(Nat)
    BY InsertedIs DEF Aligners
  <1>2. AddEstimate(a, stamp) = [a EXCEPT !.estimates = Inserted(a.estimates, stamp)]
    BY DEF AddEstimate
  <1> QED BY <1>1, <1>2 DEF Aligners

\* The aligner after each estimate.
LEMMA KnownIs ==
    ASSUME NEW m \in Nat, NEW E \in [1 .. m -> Nat]
    PROVE  \E g \in [0 .. m -> Aligners] :
              /\ g[0] = NewAligner /\ FoldLeft(AddEstimate, NewAligner, E) = g[m]
              /\ \A i \in 1 .. m : g[i] = AddEstimate(g[i - 1], E[i])
  <1> DEFINE D == 1 .. m
             S == Aligners
             base == NewAligner
             step == [p \in D \X S |-> AddEstimate(p[2], E[p[1]])]
             iter[s \in SUBSET D] ==
                IF s = {} THEN base ELSE AddEstimate(iter[s \ {Max(s)}], E[Max(s)])
  <1>1. base \in S
    BY DEF NewAligner, Aligners
  <1>2. step \in [D \X S -> S] /\ \A x \in D, r \in S : step[<<x, r>>] = AddEstimate(r, E[x])
    <2>1. \A x \in D, r \in S : AddEstimate(r, E[x]) \in S
      BY EstimateTyped
    <2> HIDE DEF D, S
    <2> QED BY <2>1
  <1>7. FoldLeft(AddEstimate, NewAligner, E) = iter[D]
    <2>1. DOMAIN E = D
      OBVIOUS
    <2> HIDE DEF D
    <2> QED BY <2>1 DEF FoldLeft, MapThenFoldSet
  <1> HIDE DEF step, base
  <1>3. PICK f \in [SUBSET D -> S], g \in [0 .. m -> S] :
              /\ \A s \in SUBSET D :
                    f[s] = IF s = {} THEN base ELSE step[<<Max(s), f[s \ {Max(s)}]>>]
              /\ \A s \in SUBSET D : s # {} => Max(s) \in s
              /\ g[0] = base /\ g[m] = f[D]
              /\ \A i \in 1 .. m : g[i] = step[<<i, g[i - 1]>>]
    <2>1. step \in [(1 .. m) \X S -> S]
      BY <1>2
    <2> HIDE DEF S, iter
    <2>2. PICK f \in [SUBSET (1 .. m) -> S], g \in [0 .. m -> S] : Along(f, g, m, base, step)
      BY <1>1, <2>1, AlongExists
    <2> QED BY <2>2 DEF Along
  <1>4. \A s \in SUBSET D : s # {} => Max(s) \in D /\ f[s \ {Max(s)}] \in S
    BY <1>3
  <1>5. f = [s \in SUBSET D |->
                IF s = {} THEN base ELSE AddEstimate(f[s \ {Max(s)}], E[Max(s)])]
    <2>1. \A s \in SUBSET D :
             f[s] = IF s = {} THEN base ELSE AddEstimate(f[s \ {Max(s)}], E[Max(s)])
      BY <1>2, <1>3, <1>4
    <2> HIDE DEF D, S
    <2> QED BY <2>1
  <1>6. iter = [s \in SUBSET D |->
                IF s = {} THEN base ELSE AddEstimate(iter[s \ {Max(s)}], E[Max(s)])]
    <2>1. iter = CHOOSE h : h = [s \in SUBSET D |->
                IF s = {} THEN base ELSE AddEstimate(h[s \ {Max(s)}], E[Max(s)])]
      OBVIOUS
    <2> HIDE DEF iter
    <2> QED BY <1>5, <2>1
  <1> HIDE DEF iter
  <1>8. iter[D] = f[D]
    <2> DEFINE bad == {s \in SUBSET D : iter[s] # f[s]}
    <2>1. SUFFICES ASSUME bad # {} PROVE FALSE
      BY <2>1
    <2>2. PICK b \in bad : \A u \in bad : u \subseteq b => u = b
      <3>1. bad \in SUBSET (SUBSET D) /\ IsFiniteSet(D)
        BY FS_Interval
      <3> HIDE DEF bad, D
      <3> QED BY <2>1, <3>1, LeastSubset
    <2>3. b # {}
      BY <1>5, <1>6
    <2>4. b \ {Max(b)} \in SUBSET D /\ b \ {Max(b)} \notin bad
      BY <1>3, <2>2, <2>3
    <2>5. iter[b \ {Max(b)}] = f[b \ {Max(b)}]
      BY <2>4
    <2>6. /\ iter[b] = AddEstimate(iter[b \ {Max(b)}], E[Max(b)])
          /\ f[b] = AddEstimate(f[b \ {Max(b)}], E[Max(b)])
      BY <1>5, <1>6, <2>3
    <2> QED BY <2>5, <2>6
  <1>9. \A i \in 1 .. m : g[i] = AddEstimate(g[i - 1], E[i])
    <2> SUFFICES ASSUME NEW i \in 1 .. m PROVE g[i] = AddEstimate(g[i - 1], E[i])
      OBVIOUS
    <2>1. i - 1 \in 0 .. m
      OBVIOUS
    <2>2. g[i - 1] \in S
      BY <2>1
    <2> QED BY <1>2, <1>3, <2>2
  <1> QED BY <1>3, <1>7, <1>8, <1>9 DEF base

\* What alignment makes.
Pairs == [stamp : Nat, from : SUBSET Nat]
Alignments == [aligner : Aligners, pairs : Seq(Pairs)]

\* How many estimates are before a stamp.
LEMMA BeforeTyped ==
    ASSUME NEW s \in Seq(Nat), NEW stamp
    PROVE  Before(s, stamp) \in Nat
  <1> DEFINE U == {i \in DOMAIN s : s[i] < stamp}
             n == Len(s)
  <1>1. U \in SUBSET (1 .. n) /\ n \in Nat
    OBVIOUS
  <1> HIDE DEF U, n
  <1>2. IsFiniteSet(U)
    <2>1. IsFiniteSet(1 .. n)
      BY <1>1, FS_Interval
    <2> QED BY <1>1, <2>1, FS_Subset
  <1>3. Cardinality(U) \in Nat
    BY <1>2, FS_CardinalityType
  <1> QED BY <1>3 DEF Before, U

\* An estimate is made from stamps.
LEMMA EstimateAtTyped ==
    ASSUME NEW s \in Seq(Nat), NEW stamp \in Nat
    PROVE  EstimateAt(s, stamp) \in SUBSET Nat
  <1> DEFINE before == Before(s, stamp)
  <1>1. before \in Nat
    BY BeforeTyped
  <1>2. \A i \in 1 .. Len(s) : s[i] \in Nat
    OBVIOUS
  <1>3. Len(s) \in Nat
    OBVIOUS
  <1>4. EstimateAt(s, stamp) =
           IF before + 1 > Len(s) THEN {}
           ELSE IF s[before + 1] = stamp THEN {stamp}
           ELSE IF before = 0 \/ s[before + 1] - s[before] > Window THEN {}
           ELSE {s[before], s[before + 1]}
    BY DEF EstimateAt
  <1> HIDE DEF before
  <1>5. ~(before + 1 > Len(s)) => before + 1 \in 1 .. Len(s) /\ (before # 0 => before \in 1 .. Len(s))
    BY <1>1, <1>3
  <1> QED BY <1>2, <1>4, <1>5

\* What is resolved, and what is left.
LEMMA ResolvedTyped ==
    ASSUME NEW a \in Aligners
    PROVE  /\ Ripe(a) \in 0 .. Len(a.pending) /\ Len(a.pending) \in Nat
           /\ Resolved(a) \in Seq(Pairs) /\ Len(Resolved(a)) = Ripe(a)
           /\ \A i \in 1 .. Ripe(a) :
                 Resolved(a)[i] = [stamp |-> a.pending[i],
                                   from |-> EstimateAt(a.estimates, a.pending[i])]
           /\ Remaining(a) \in Aligners /\ Remaining(a).latest = a.latest
           /\ Remaining(a).pending = SubSeq(a.pending, Ripe(a) + 1, Len(a.pending))
  <1> DEFINE n == Ripe(a)
             P == a.pending
             E == a.estimates
  <1>1. P \in Seq(Nat) /\ E \in Seq(Nat) /\ a.latest \in Int
    BY DEF Aligners
  <1>2. n \in 0 .. Len(P) /\ Len(P) \in Nat
    BY <1>1, RipeIsSome
  <1>3. /\ DOMAIN Resolved(a) = 1 .. n
        /\ \A i \in 1 .. n : Resolved(a)[i] = [stamp |-> P[i], from |-> EstimateAt(E, P[i])]
        /\ Resolved(a) = [i \in 1 .. n |-> Resolved(a)[i]]
    BY DEF Resolved
  <1> HIDE DEF n
  <1>4. \A i \in 1 .. n : P[i] \in Nat /\ EstimateAt(E, P[i]) \in SUBSET Nat
    <2>1. \A i \in 1 .. n : P[i] \in Nat
      BY <1>1, <1>2
    <2> QED BY <1>1, <2>1, EstimateAtTyped
  <1>5. \A i \in 1 .. n : Resolved(a)[i] \in Pairs
    BY <1>3, <1>4 DEF Pairs
  <1>6. Resolved(a) \in [1 .. n -> Pairs]
    BY <1>3, <1>5
  <1>7. Resolved(a) \in Seq(Pairs) /\ Len(Resolved(a)) = n
    BY <1>2, <1>6
  <1> DEFINE left == SubSeq(P, n + 1, Len(P))
             horizon == IF left = <<>> THEN a.latest ELSE Head(left)
             from == KeepFrom(E, horizon)
             kept == SubSeq(E, from + 1, Len(E))
  <1>8. left \in Seq(Nat)
    <2>1. \A i \in n + 1 .. Len(P) : P[i] \in Nat
      BY <1>1, <1>2
    <2> QED BY <1>1, <1>2, <2>1
  <1>9. from \in Nat
    <2>1. Before(E, horizon) \in Nat
      BY <1>1, BeforeTyped
    <2> HIDE DEF horizon
    <2> QED BY <2>1 DEF KeepFrom
  <1>10. Remaining(a) = [a EXCEPT !.pending = left, !.estimates = kept]
    BY DEF Remaining, n
  <1> HIDE DEF left, from
  <1>11. kept \in Seq(Nat)
    <2>1. \A i \in from + 1 .. Len(E) : E[i] \in Nat
      BY <1>1, <1>9
    <2> QED BY <1>1, <1>9, <2>1
  <1> HIDE DEF kept
  <1>12. /\ Remaining(a) \in Aligners /\ Remaining(a).latest = a.latest
         /\ Remaining(a).pending = left
    BY <1>8, <1>10, <1>11 DEF Aligners
  <1> QED BY <1>2, <1>3, <1>7, <1>12 DEF n, left

\* An aligner that hears a sample of truth.
LEMMA TruthTyped ==
    ASSUME NEW a \in Aligners, NEW stamp \in Nat
    PROVE  /\ AddTruth(a, stamp) \in Aligners
           /\ AddTruth(a, stamp).pending = Append(a.pending, stamp)
           /\ AddTruth(a, stamp).latest = IF stamp > a.latest THEN stamp ELSE a.latest
           /\ AddTruth(a, stamp).estimates = a.estimates
  <1> DEFINE latest == IF stamp > a.latest THEN stamp ELSE a.latest
             waiting == Append(a.pending, stamp)
  <1>1. latest \in Int /\ waiting \in Seq(Nat)
    BY DEF Aligners
  <1>2. AddTruth(a, stamp) = [a EXCEPT !.pending = waiting, !.latest = latest]
    BY DEF AddTruth
  <1> HIDE DEF latest, waiting
  <1>3. /\ AddTruth(a, stamp) \in Aligners
        /\ AddTruth(a, stamp).pending = waiting
        /\ AddTruth(a, stamp).latest = latest
        /\ AddTruth(a, stamp).estimates = a.estimates
    BY <1>1, <1>2 DEF Aligners
  <1> QED BY <1>3 DEF latest, waiting

\* The pairs that a sample resolves are pairs.
LEMMA PairedTyped ==
    ASSUME NEW p \in Alignments, NEW stamp \in Nat
    PROVE  /\ Paired(p, stamp) \in Alignments
           /\ LET a == AddTruth(p.aligner, stamp)
              IN  /\ Paired(p, stamp).aligner = Remaining(a)
                  /\ Paired(p, stamp).pairs = p.pairs \o Resolved(a)
  <1> DEFINE a == AddTruth(p.aligner, stamp)
  <1>1. a \in Aligners
    BY TruthTyped DEF Alignments
  <1>2. Paired(p, stamp) = [aligner |-> Remaining(a), pairs |-> p.pairs \o Resolved(a)]
    BY DEF Paired
  <1> HIDE DEF a
  <1>3. Remaining(a) \in Aligners /\ Resolved(a) \in Seq(Pairs)
    BY <1>1, ResolvedTyped
  <1>4. p.pairs \o Resolved(a) \in Seq(Pairs)
    BY <1>3 DEF Alignments
  <1>5. /\ Paired(p, stamp) \in Alignments
        /\ Paired(p, stamp).aligner = Remaining(a)
        /\ Paired(p, stamp).pairs = p.pairs \o Resolved(a)
    BY <1>2, <1>3, <1>4 DEF Alignments
  <1> QED BY <1>5 DEF a

\* The pairs after each sample.
LEMMA PairedIs ==
    ASSUME NEW m \in Nat, NEW T \in [1 .. m -> Nat], NEW known \in Aligners
    PROVE  \E g \in [0 .. m -> Alignments] :
              /\ g[0] = [aligner |-> known, pairs |-> <<>>]
              /\ FoldLeft(Paired, [aligner |-> known, pairs |-> <<>>], T) = g[m]
              /\ \A i \in 1 .. m : g[i] = Paired(g[i - 1], T[i])
  <1> DEFINE D == 1 .. m
             S == Alignments
             base == [aligner |-> known, pairs |-> <<>>]
             step == [p \in D \X S |-> Paired(p[2], T[p[1]])]
             iter[s \in SUBSET D] ==
                IF s = {} THEN base ELSE Paired(iter[s \ {Max(s)}], T[Max(s)])
  <1>1. base \in S
    BY DEF Alignments
  <1>2. step \in [D \X S -> S] /\ \A x \in D, r \in S : step[<<x, r>>] = Paired(r, T[x])
    <2>1. \A x \in D, r \in S : Paired(r, T[x]) \in S
      BY PairedTyped
    <2> HIDE DEF D, S
    <2> QED BY <2>1
  <1>7. FoldLeft(Paired, [aligner |-> known, pairs |-> <<>>], T) = iter[D]
    <2>1. DOMAIN T = D
      OBVIOUS
    <2> HIDE DEF D
    <2> QED BY <2>1 DEF FoldLeft, MapThenFoldSet
  <1> HIDE DEF step, base
  <1>3. PICK f \in [SUBSET D -> S], g \in [0 .. m -> S] :
              /\ \A s \in SUBSET D :
                    f[s] = IF s = {} THEN base ELSE step[<<Max(s), f[s \ {Max(s)}]>>]
              /\ \A s \in SUBSET D : s # {} => Max(s) \in s
              /\ g[0] = base /\ g[m] = f[D]
              /\ \A i \in 1 .. m : g[i] = step[<<i, g[i - 1]>>]
    <2>1. step \in [(1 .. m) \X S -> S]
      BY <1>2
    <2> HIDE DEF S, iter
    <2>2. \E f \in [SUBSET (1 .. m) -> S], g \in [0 .. m -> S] : Along(f, g, m, base, step)
      BY <1>1, <2>1, AlongExists
    <2> QED BY <2>2, Zenon DEF Along
  <1>4. \A s \in SUBSET D : s # {} => Max(s) \in D /\ f[s \ {Max(s)}] \in S
    BY <1>3
  <1>5. f = [s \in SUBSET D |->
                IF s = {} THEN base ELSE Paired(f[s \ {Max(s)}], T[Max(s)])]
    <2>1. \A s \in SUBSET D :
             f[s] = IF s = {} THEN base ELSE Paired(f[s \ {Max(s)}], T[Max(s)])
      BY <1>2, <1>3, <1>4
    <2> HIDE DEF D, S
    <2> QED BY <2>1
  <1>6. iter = [s \in SUBSET D |->
                IF s = {} THEN base ELSE Paired(iter[s \ {Max(s)}], T[Max(s)])]
    <2>1. iter = CHOOSE h : h = [s \in SUBSET D |->
                IF s = {} THEN base ELSE Paired(h[s \ {Max(s)}], T[Max(s)])]
      OBVIOUS
    <2> HIDE DEF iter
    <2> QED BY <1>5, <2>1
  <1> HIDE DEF iter
  <1>8. iter[D] = f[D]
    <2> DEFINE bad == {s \in SUBSET D : iter[s] # f[s]}
    <2>1. SUFFICES ASSUME bad # {} PROVE FALSE
      BY <2>1
    <2>2. PICK b \in bad : \A u \in bad : u \subseteq b => u = b
      <3>1. bad \in SUBSET (SUBSET D) /\ IsFiniteSet(D)
        BY FS_Interval
      <3> HIDE DEF bad, D
      <3> QED BY <2>1, <3>1, LeastSubset
    <2>3. b # {}
      BY <1>5, <1>6
    <2>4. b \ {Max(b)} \in SUBSET D /\ b \ {Max(b)} \notin bad
      BY <1>3, <2>2, <2>3
    <2>5. iter[b \ {Max(b)}] = f[b \ {Max(b)}]
      BY <2>4
    <2>6. /\ iter[b] = Paired(iter[b \ {Max(b)}], T[Max(b)])
          /\ f[b] = Paired(f[b \ {Max(b)}], T[Max(b)])
      BY <1>5, <1>6, <2>3
    <2> QED BY <2>5, <2>6
  <1>9. \A i \in 1 .. m : g[i] = Paired(g[i - 1], T[i])
    <2> SUFFICES ASSUME NEW i \in 1 .. m PROVE g[i] = Paired(g[i - 1], T[i])
      OBVIOUS
    <2>1. i - 1 \in 0 .. m
      OBVIOUS
    <2>2. g[i - 1] \in S
      BY <2>1
    <2> QED BY <1>2, <1>3, <2>2
  <1> QED BY <1>3, <1>7, <1>8, <1>9 DEF base

\* Every estimate is known to the aligner.
LEMMA AllKnown ==
    ASSUME NEW E \in SUBSET Nat, NEW m \in Nat, NEW s \in [1 .. m -> E],
           \A i, j \in 1 .. m : i < j => s[i] <= s[j],
           \A x \in E : \E i \in 1 .. m : s[i] = x
    PROVE  LET a == FoldLeft(AddEstimate, NewAligner, s)
           IN  a \in Aligners /\ AlignerHolds(a, E) /\ a.pending = <<>> /\ a.latest = -1
  <1> DEFINE Known(i) == {s[j] : j \in 1 .. i}
  <1>1. /\ m \in Nat /\ s \in [1 .. m -> E] /\ \A x \in E : \E i \in 1 .. m : s[i] = x
        /\ \A i, j \in 1 .. m : i < j => s[i] <= s[j]
    OBVIOUS
  <1>2. s \in [1 .. m -> Nat] /\ \A i \in 1 .. m : s[i] \in E /\ s[i] \in Nat
    BY <1>1
  <1>3. PICK g \in [0 .. m -> Aligners] :
              /\ g[0] = NewAligner /\ FoldLeft(AddEstimate, NewAligner, s) = g[m]
              /\ \A i \in 1 .. m : g[i] = AddEstimate(g[i - 1], s[i])
    BY <1>1, <1>2, KnownIs
  <1> DEFINE Inv(i) == AlignerHolds(g[i], Known(i)) /\ g[i].pending = <<>> /\ g[i].latest = -1
  <1>4. Inv(0)
    <2>1. Known(0) = {}
      OBVIOUS
    <2>2. /\ NewAligner \in [estimates : Seq(Nat), pending : Seq(Nat), latest : Int]
          /\ NewAligner.estimates = <<>> /\ NewAligner.pending = <<>> /\ NewAligner.latest = -1
      BY DEF NewAligner
    <2>3. Sorted(<<>>) /\ \A i \in DOMAIN <<>> : FALSE
      BY DEF Sorted
    <2> HIDE DEF Known
    <2> QED BY <1>3, <2>1, <2>2, <2>3 DEF AlignerHolds
  <1>5. ASSUME NEW i \in 1 .. m, Inv(i - 1) PROVE Inv(i)
    <2> DEFINE a == g[i - 1]
               known == Known(i - 1)
    <2>1. known \in SUBSET Nat /\ AlignerHolds(a, known) /\ a.pending = <<>> /\ a.latest = -1
          /\ a \in Aligners
      <3>1. known \in SUBSET Nat
        <4>1. \A j \in 1 .. i - 1 : j \in 1 .. m
          BY <1>1
        <4> QED BY <1>2, <4>1
      <3>2. i - 1 \in 0 .. m
        BY <1>1
      <3>3. g[i - 1] \in Aligners
        <4> HIDE DEF Aligners
        <4> QED BY <1>3, <3>2
      <3>4. AlignerHolds(a, known) /\ a.pending = <<>> /\ a.latest = -1
        <4> HIDE DEF Known
        <4> QED BY <1>5
      <3> HIDE DEF known, a
      <3> QED BY <3>1, <3>3, <3>4 DEF a
    <2>2. s[i] \in Nat /\ \A h \in known : h <= s[i]
      <3> SUFFICES ASSUME NEW j \in 1 .. i - 1 PROVE s[j] <= s[i]
        BY <1>2
      <3>1. j \in 1 .. m /\ j < i
        BY <1>1
      <3> QED BY <1>1, <1>2, <3>1
    <2>3. Known(i) = known \cup {s[i]}
      <3>1. 1 .. i = (1 .. i - 1) \cup {i}
        BY <1>1
      <3> QED BY <3>1
    <2> HIDE DEF a, known, Known
    <2>4. ScoresHold(a, known, <<>>)
      <3>1. <<>> \in Seq(Scores) /\ \A j \in DOMAIN <<>> : FALSE
        <4> HIDE DEF Scores
        <4> QED OBVIOUS
      <3> QED BY <3>1 DEF ScoresHold
    <2>5. /\ AlignerHolds(AddEstimate(a, s[i]), known \cup {s[i]})
          /\ AddEstimate(a, s[i]).latest = a.latest
      BY <2>1, <2>2, <2>4, EstimateAdded
    <2>6. AddEstimate(a, s[i]).pending = a.pending
      BY <2>1, <2>2, EstimateTyped
    <2>7. g[i] = AddEstimate(a, s[i])
      BY <1>3 DEF a
    <2> QED BY <2>1, <2>3, <2>5, <2>6, <2>7
  <1> HIDE DEF Inv
  <1>6. Inv(m)
    <2> DEFINE bad == {i \in 0 .. m : ~Inv(i)}
    <2>1. SUFFICES ASSUME bad # {} PROVE FALSE
      BY <1>1, <2>1
    <2>2. PICK i \in bad : \A j \in bad : i <= j
      <3>1. bad \in SUBSET Nat
        OBVIOUS
      <3> HIDE DEF bad
      <3> QED BY <2>1, <3>1, LeastNumber
    <2>3. i # 0 /\ i \in 1 .. m /\ i - 1 \in 0 .. m /\ ~(i <= i - 1)
      BY <1>1, <1>4
    <2>4. i - 1 \notin bad
      BY <2>2, <2>3
    <2> QED BY <1>5, <2>3, <2>4
  <1>7. Known(m) = E
    BY <1>1, <1>2
  <1>8. g[m] \in Aligners
    BY <1>1
  <1> QED BY <1>3, <1>6, <1>7, <1>8 DEF Inv

\* After i samples: those with a pair have the one of the definition, the rest wait.
Halfway(p, E, T, i) ==
    /\ p \in Alignments /\ AlignerHolds(p.aligner, E)
    /\ Len(p.pairs) + Len(p.aligner.pending) = i
    /\ \A j \in 1 .. Len(p.pairs) : p.pairs[j] = [stamp |-> T[j], from |-> Offline(E, T[j])]
    /\ \A j \in 1 .. Len(p.aligner.pending) : p.aligner.pending[j] = T[Len(p.pairs) + j]
    /\ p.aligner.latest = IF i = 0 THEN -1 ELSE T[i]

\* What waits is not before the horizon.
LEMMA WaitingIsLater ==
    ASSUME NEW a, NEW known, AlignerHolds(a, known), NEW j \in 1 .. Len(a.pending)
    PROVE  Horizon(a) <= a.pending[j] /\ a.pending[j] \in Nat
  <1> DEFINE P == a.pending
  <1>1. P \in Seq(Nat) /\ Sorted(P) /\ DOMAIN P = 1 .. Len(P) /\ Len(P) \in Nat
    BY DEF AlignerHolds
  <1>2. 1 \in DOMAIN P /\ j \in DOMAIN P /\ 1 <= j /\ P # <<>> /\ Head(P) = P[1] /\ P[j] \in Nat
    BY <1>1
  <1>3. P[1] <= P[j]
    BY <1>1, <1>2 DEF Sorted
  <1> QED BY <1>2, <1>3 DEF Horizon

\* A sample more, and it is still so.
LEMMA HalfwayStep ==
    ASSUME NEW E \in SUBSET Nat, NEW m \in Nat, NEW T \in [1 .. m -> Nat],
           \A i, j \in 1 .. m : i < j => T[i] <= T[j],
           NEW i \in 1 .. m, NEW p, Halfway(p, E, T, i - 1)
    PROVE  Halfway(Paired(p, T[i]), E, T, i)
  <1> DEFINE a == p.aligner
             t == T[i]
             b == AddTruth(a, t)
             r == Remaining(b)
             k == Len(p.pairs)
             w == Len(a.pending)
             n == Ripe(b)
             q == Paired(p, t)
             all == p.pairs \o Resolved(b)
  <1>1. /\ p \in Alignments /\ AlignerHolds(a, E) /\ k + w = i - 1
        /\ \A j \in 1 .. k : p.pairs[j] = [stamp |-> T[j], from |-> Offline(E, T[j])]
        /\ \A j \in 1 .. w : a.pending[j] = T[k + j]
        /\ a.latest = IF i - 1 = 0 THEN -1 ELSE T[i - 1]
    BY DEF Halfway
  <1>2. /\ a \in Aligners /\ p.pairs \in Seq(Pairs) /\ a.pending \in Seq(Nat)
        /\ k \in Nat /\ w \in Nat /\ t \in Nat
    <2>1. a \in Aligners /\ p.pairs \in Seq(Pairs)
      BY <1>1 DEF Alignments
    <2>2. a.pending \in Seq(Nat)
      BY <2>1 DEF Aligners
    <2> HIDE DEF Pairs
    <2> QED BY <2>1, <2>2
  <1>3. a.latest <= t
    <2>1. CASE i = 1
      BY <1>1, <1>2, <2>1
    <2>2. CASE i # 1
      <3>1. i - 1 \in 1 .. m /\ i - 1 < i /\ i - 1 # 0
        BY <2>2
      <3>2. T[i - 1] <= T[i] /\ T[i - 1] \in Nat
        BY <3>1
      <3> QED BY <1>1, <1>2, <3>1, <3>2
    <2> QED BY <2>1, <2>2
  <1> HIDE DEF k, w, n, q, r, b, t, a
  <1>4. AlignerHolds(b, E) /\ b.latest = t
    <2>1. ScoresHold(a, E, <<>>)
      <3>1. <<>> \in Seq(Scores) /\ \A j \in DOMAIN <<>> : FALSE
        <4> HIDE DEF Scores
        <4> QED OBVIOUS
      <3> QED BY <3>1 DEF ScoresHold
    <2> QED BY <1>1, <1>2, <1>3, <2>1, TruthAdded DEF b
  <1>5. b \in Aligners /\ b.pending = Append(a.pending, t)
    BY <1>2, TruthTyped DEF b
  <1>6. /\ Len(b.pending) = w + 1
        /\ \A j \in 1 .. w + 1 : b.pending[j] = T[k + j]
    <2>1. Len(b.pending) = w + 1
      BY <1>2, <1>5 DEF w
    <2>2. \A j \in 1 .. w : b.pending[j] = a.pending[j]
      BY <1>2, <1>5 DEF w
    <2>3. b.pending[w + 1] = t
      BY <1>2, <1>5 DEF w
    <2>4. k + (w + 1) = i
      BY <1>1, <1>2
    <2>5. \A j \in 1 .. w + 1 : j \in 1 .. w \/ j = w + 1
      BY <1>2
    <2> QED BY <1>1, <2>1, <2>2, <2>3, <2>4, <2>5 DEF t
  <1>7. /\ n \in 0 .. w + 1 /\ Resolved(b) \in Seq(Pairs) /\ Len(Resolved(b)) = n
        /\ \A j \in 1 .. n : Resolved(b)[j] = [stamp |-> b.pending[j],
                                               from |-> EstimateAt(b.estimates, b.pending[j])]
        /\ r \in Aligners /\ r.latest = b.latest
        /\ r.pending = SubSeq(b.pending, n + 1, w + 1)
    BY <1>5, <1>6, ResolvedTyped DEF n, r
  <1>8. AlignerHolds(r, E)
    BY <1>4, RemainingHolds DEF r
  <1>9. q \in Alignments /\ q.aligner = r /\ q.pairs = all
    <2>1. q \in Alignments /\ q.aligner = r /\ q.pairs = p.pairs \o Resolved(b)
      BY <1>1, <1>2, PairedTyped DEF q, r, b, a
    <2> QED BY <2>1
  <1>10. \A j \in 1 .. n : Resolved(b)[j] = [stamp |-> T[k + j], from |-> Offline(E, T[k + j])]
    <2> SUFFICES ASSUME NEW j \in 1 .. n
                 PROVE  Resolved(b)[j] = [stamp |-> T[k + j], from |-> Offline(E, T[k + j])]
      OBVIOUS
    <2>1. j \in 1 .. w + 1 /\ j \in 1 .. Len(b.pending) /\ b.pending[j] = T[k + j]
      BY <1>2, <1>6, <1>7
    <2>2. Horizon(b) <= b.pending[j] /\ b.pending[j] \in Nat
      BY <1>4, <2>1, WaitingIsLater
    <2>3. EstimateAt(b.estimates, b.pending[j]) = Offline(E, b.pending[j])
      BY <1>4, <2>2, SaysOffline
    <2> QED BY <1>7, <2>1, <2>3
  <1>11. /\ Len(all) = k + n
         /\ \A j \in 1 .. k : all[j] = p.pairs[j]
         /\ \A j \in 1 .. n : all[k + j] = Resolved(b)[j]
    <2>1. \A u, v \in Seq(Pairs) :
             /\ u \o v \in Seq(Pairs) /\ Len(u \o v) = Len(u) + Len(v)
             /\ \A j \in 1 .. Len(u) : (u \o v)[j] = u[j]
             /\ \A j \in 1 .. Len(v) : (u \o v)[Len(u) + j] = v[j]
      <3> HIDE DEF Pairs
      <3> QED OBVIOUS
    <2>2. p.pairs \in Seq(Pairs) /\ Resolved(b) \in Seq(Pairs) /\ Len(Resolved(b)) = n
      BY <1>2, <1>7
    <2> HIDE DEF Pairs
    <2> QED BY <2>1, <2>2 DEF k
  <1> HIDE DEF all
  <1>12. \A j \in 1 .. k + n : all[j] = [stamp |-> T[j], from |-> Offline(E, T[j])]
    <2> SUFFICES ASSUME NEW j \in 1 .. k + n
                 PROVE  all[j] = [stamp |-> T[j], from |-> Offline(E, T[j])]
      OBVIOUS
    <2>1. CASE j <= k
      <3>1. j \in 1 .. k
        BY <1>2, <2>1
      <3> QED BY <1>1, <1>11, <3>1
    <2>2. CASE ~(j <= k)
      <3>1. j - k \in 1 .. n /\ k + (j - k) = j
        BY <1>2, <1>7, <2>2
      <3> QED BY <1>10, <1>11, <3>1
    <2> QED BY <2>1, <2>2
  <1>13. /\ Len(r.pending) = w + 1 - n
         /\ \A j \in 1 .. w + 1 - n : r.pending[j] = T[k + n + j]
    <2>1. b.pending \in Seq(Nat)
      BY <1>5 DEF Aligners
    <2>2. /\ Len(r.pending) = w + 1 - n
          /\ \A j \in 1 .. w + 1 - n : r.pending[j] = b.pending[n + j]
      <3>1. \A u \in Seq(Nat) : \A x \in 0 .. Len(u) :
               /\ Len(SubSeq(u, x + 1, Len(u))) = Len(u) - x
               /\ \A j \in 1 .. Len(u) - x : SubSeq(u, x + 1, Len(u))[j] = u[x + j]
        OBVIOUS
      <3>2. n \in 0 .. Len(b.pending) /\ Len(b.pending) = w + 1
            /\ r.pending = SubSeq(b.pending, n + 1, Len(b.pending))
        BY <1>6, <1>7
      <3>3. /\ Len(r.pending) = Len(b.pending) - n
            /\ \A j \in 1 .. Len(b.pending) - n : r.pending[j] = b.pending[n + j]
        BY <2>1, <3>1, <3>2, Zenon
      <3>4. Len(b.pending) - n = w + 1 - n
        <4>1. w \in Nat /\ n \in Nat
          BY <1>2, <1>7
        <4> QED BY <3>2, <4>1
      <3> QED BY <3>3, <3>4, Zenon
    <2>3. ASSUME NEW j \in 1 .. w + 1 - n PROVE b.pending[n + j] = T[k + n + j]
      <3>1. n + j \in 1 .. w + 1 /\ k + (n + j) = k + n + j
        BY <1>2, <1>7
      <3> QED BY <1>6, <3>1
    <2> QED BY <2>2, <2>3
  <1>14. (k + n) + (w + 1 - n) = i /\ i # 0
    <2>1. k \in Nat /\ w \in Nat /\ n \in Nat /\ k + w = i - 1 /\ i \in Nat /\ i # 0
      BY <1>1, <1>2, <1>7
    <2> QED BY <2>1
  <1>15. Halfway(q, E, T, i)
    BY <1>4, <1>7, <1>8, <1>9, <1>11, <1>12, <1>13, <1>14 DEF Halfway, t
  <1> QED BY <1>15 DEF q, t

\* What holds at the start, and of each number what holds of the one before.
LEMMA Onwards ==
    ASSUME NEW m \in Nat, NEW G, 0 \in G, \A i \in 1 .. m : i - 1 \in G => i \in G
    PROVE  \A i \in 0 .. m : i \in G
  <1> DEFINE bad == {i \in 0 .. m : i \notin G}
  <1>1. SUFFICES ASSUME bad # {} PROVE FALSE
    BY <1>1
  <1>2. PICK i \in bad : \A j \in bad : i <= j
    <2>1. bad \in SUBSET Nat
      OBVIOUS
    <2> HIDE DEF bad
    <2> QED BY <1>1, <2>1, LeastNumber
  <1>3. i # 0 /\ i \in 1 .. m /\ i - 1 \in 0 .. m /\ ~(i <= i - 1)
    OBVIOUS
  <1>4. i - 1 \notin bad
    BY <1>2, <1>3
  <1> QED BY <1>2, <1>3, <1>4

\* What align returns: the samples of truth in order, each with what is said of it.
Aligned(E, m, T) == [j \in 1 .. m |-> [stamp |-> T[j], from |-> Offline(E, T[j])]]

\* What the truth makes of an aligner that has the estimates.
AlignedBy(known, T) ==
    LET last == FoldLeft(Paired, [aligner |-> known, pairs |-> <<>>], T)
    IN last.pairs \o Flush(last.aligner)

\* In particular of those that wait until the end, which flush resolves.
LEMMA AlignedByIs ==
    ASSUME NEW E \in SUBSET Nat, NEW known \in Aligners, AlignerHolds(known, E),
           known.pending = <<>>, known.latest = -1,
           NEW m \in Nat, NEW T \in [1 .. m -> Nat],
           \A i, j \in 1 .. m : i < j => T[i] <= T[j]
    PROVE  AlignedBy(known, T) = Aligned(E, m, T)
  <1> DEFINE start == [aligner |-> known, pairs |-> <<>>]
  <1>1. known \in Aligners /\ AlignerHolds(known, E) /\ known.pending = <<>> /\ known.latest = -1
    OBVIOUS
  <1>2. PICK g \in [0 .. m -> Alignments] :
              /\ g[0] = start /\ FoldLeft(Paired, start, T) = g[m]
              /\ \A i \in 1 .. m : g[i] = Paired(g[i - 1], T[i])
    BY <1>1, PairedIs
  <1> DEFINE G == {i \in 0 .. m : Halfway(g[i], E, T, i)}
             p == g[m]
             k == Len(p.pairs)
             w == Len(p.aligner.pending)
             flushed == Flush(p.aligner)
  <1>3. 0 \in G
    <2>1. 0 \in 0 .. m /\ start \in Alignments
      BY <1>2
    <2>2. start.aligner = known /\ start.pairs = <<>> /\ Len(<<>>) = 0 /\ 1 .. 0 = {}
      OBVIOUS
    <2> HIDE DEF start
    <2>3. /\ AlignerHolds(start.aligner, E) /\ start.aligner.latest = -1
          /\ Len(start.pairs) = 0 /\ Len(start.aligner.pending) = 0
      BY <1>1, <2>2
    <2>4. Halfway(start, E, T, 0)
      BY <2>1, <2>2, <2>3 DEF Halfway
    <2> QED BY <1>2, <2>1, <2>4
  <1>4. \A i \in 1 .. m : i - 1 \in G => i \in G
    <2> SUFFICES ASSUME NEW i \in 1 .. m, i - 1 \in G PROVE i \in G
      OBVIOUS
    <2>1. Halfway(Paired(g[i - 1], T[i]), E, T, i)
      BY HalfwayStep
    <2> QED BY <1>2, <2>1
  <1>5. Halfway(p, E, T, m)
    <2>1. m \in 0 .. m
      OBVIOUS
    <2> HIDE DEF G
    <2>2. m \in G
      BY <1>3, <1>4, <2>1, Onwards
    <2> QED BY <2>2 DEF G
  <1>6. AlignedBy(known, T) = p.pairs \o flushed
    BY <1>2 DEF AlignedBy
  <1> HIDE DEF p, G, start
  <1>7. /\ p \in Alignments /\ AlignerHolds(p.aligner, E) /\ k + w = m
        /\ \A j \in 1 .. k : p.pairs[j] = [stamp |-> T[j], from |-> Offline(E, T[j])]
        /\ \A j \in 1 .. w : p.aligner.pending[j] = T[k + j]
    BY <1>5 DEF Halfway
  <1>8. /\ p.aligner \in Aligners /\ p.pairs \in Seq(Pairs) /\ p.aligner.pending \in Seq(Nat)
        /\ p.aligner.estimates \in Seq(Nat)
    <2>1. p.aligner \in Aligners /\ p.pairs \in Seq(Pairs)
      BY <1>7 DEF Alignments
    <2> QED BY <2>1 DEF Aligners
  <1>9. k \in Nat /\ w \in Nat /\ DOMAIN p.aligner.pending = 1 .. w
    <2> HIDE DEF Pairs
    <2> QED BY <1>8
  <1>10. \A j \in 1 .. w :
            /\ p.aligner.pending[j] \in Nat
            /\ EstimateAt(p.aligner.estimates, p.aligner.pending[j]) = Offline(E, T[k + j])
            /\ EstimateAt(p.aligner.estimates, p.aligner.pending[j]) \in SUBSET Nat
    <2> SUFFICES ASSUME NEW j \in 1 .. w
                 PROVE  /\ p.aligner.pending[j] \in Nat
                        /\ EstimateAt(p.aligner.estimates, p.aligner.pending[j]) = Offline(E, T[k + j])
                        /\ EstimateAt(p.aligner.estimates, p.aligner.pending[j]) \in SUBSET Nat
      OBVIOUS
    <2>1. Horizon(p.aligner) <= p.aligner.pending[j] /\ p.aligner.pending[j] \in Nat
      BY <1>7, WaitingIsLater
    <2>2. EstimateAt(p.aligner.estimates, p.aligner.pending[j]) = Offline(E, p.aligner.pending[j])
      BY <1>7, <2>1, SaysOffline
    <2>3. EstimateAt(p.aligner.estimates, p.aligner.pending[j]) \in SUBSET Nat
      BY <1>8, <2>1, EstimateAtTyped
    <2> QED BY <1>7, <2>1, <2>2, <2>3
  <1>11. /\ flushed \in Seq(Pairs) /\ Len(flushed) = w
         /\ \A j \in 1 .. w : flushed[j] = [stamp |-> T[k + j], from |-> Offline(E, T[k + j])]
    <2>1. flushed = [j \in 1 .. w |-> [stamp |-> p.aligner.pending[j],
                         from |-> EstimateAt(p.aligner.estimates, p.aligner.pending[j])]]
      BY <1>9 DEF Flush
    <2>2. \A j \in 1 .. w : [stamp |-> p.aligner.pending[j],
                         from |-> EstimateAt(p.aligner.estimates, p.aligner.pending[j])] \in Pairs
      BY <1>10 DEF Pairs
    <2>3. \A j \in 1 .. w : flushed[j] = [stamp |-> T[k + j], from |-> Offline(E, T[k + j])]
      <3> HIDE DEF w, k, flushed
      <3> QED BY <1>7, <1>10, <2>1
    <2>4. flushed \in [1 .. w -> Pairs]
      <3> HIDE DEF w, k, flushed, Pairs
      <3> QED BY <2>1, <2>2
    <2>5. flushed \in Seq(Pairs) /\ Len(flushed) = w
      <3> HIDE DEF w, k, flushed, Pairs
      <3> QED BY <1>9, <2>4
    <2> QED BY <2>3, <2>5
  <1> DEFINE all == p.pairs \o flushed
  <1>12. /\ all \in Seq(Pairs) /\ Len(all) = k + w
         /\ \A j \in 1 .. k : all[j] = p.pairs[j]
         /\ \A j \in 1 .. w : all[k + j] = flushed[j]
    <2>1. \A u, v \in Seq(Pairs) :
             /\ u \o v \in Seq(Pairs) /\ Len(u \o v) = Len(u) + Len(v)
             /\ \A j \in 1 .. Len(u) : (u \o v)[j] = u[j]
             /\ \A j \in 1 .. Len(v) : (u \o v)[Len(u) + j] = v[j]
      <3> HIDE DEF Pairs
      <3> QED OBVIOUS
    <2>2. /\ p.pairs \in Seq(Pairs) /\ flushed \in Seq(Pairs)
          /\ Len(p.pairs) = k /\ Len(flushed) = w
      BY <1>8, <1>11
    <2> HIDE DEF Pairs, flushed, k, w
    <2> QED BY <2>1, <2>2
  <1>13. DOMAIN all = 1 .. m /\ all = [j \in 1 .. m |-> all[j]]
    <2> HIDE DEF Pairs, all, k, w
    <2> QED BY <1>7, <1>12
  <1>14. ASSUME NEW j \in 1 .. m
         PROVE  all[j] = [stamp |-> T[j], from |-> Offline(E, T[j])]
    <2> HIDE DEF all, k, w, flushed
    <2>1. CASE j <= k
      <3>1. j \in 1 .. k
        BY <1>9, <2>1
      <3> QED BY <1>7, <1>12, <3>1
    <2>2. CASE ~(j <= k)
      <3>1. j - k \in 1 .. w /\ k + (j - k) = j
        BY <1>7, <1>9, <2>2
      <3> QED BY <1>11, <1>12, <3>1
    <2> QED BY <2>1, <2>2
  <1> HIDE DEF all
  <1> QED BY <1>6, <1>13, <1>14 DEF Aligned, all

LEMMA AlignAllIs ==
    ASSUME NEW E \in SUBSET Nat, NEW n \in Nat, NEW K \in [1 .. n -> E],
           \A i, j \in 1 .. n : i < j => K[i] <= K[j],
           \A x \in E : \E i \in 1 .. n : K[i] = x,
           NEW m \in Nat, NEW T \in [1 .. m -> Nat],
           \A i, j \in 1 .. m : i < j => T[i] <= T[j]
    PROVE  AlignAll(K, T) = Aligned(E, m, T)
  <1> DEFINE known == FoldLeft(AddEstimate, NewAligner, K)
  <1>1. known \in Aligners /\ AlignerHolds(known, E) /\ known.pending = <<>> /\ known.latest = -1
    BY AllKnown
  <1>2. AlignAll(K, T) = AlignedBy(known, T)
    BY DEF AlignAll, AlignedBy
  <1> HIDE DEF known
  <1>3. AlignedBy(known, T) = Aligned(E, m, T)
    BY <1>1, AlignedByIs
  <1> QED BY <1>2, <1>3

----------------------------------------------------------------------------

(***************************************************************************)
(* The errors                                                              *)
(***************************************************************************)

\* A summary of m instants, of which those of D have the errors w and the others none.
SummaryOf(a, m, D, w) ==
    /\ a.samples = m /\ a.errors = Cardinality(D) /\ Cardinality(D) \in Nat
    /\ a.sum = FoldFunction(+, 0, w)
    /\ D = {} => a.maximum = NoScore
    /\ D # {} => /\ \E x \in D : a.maximum = w[x]
                 /\ \A x \in D : w[x] <= a.maximum

\* What summarize makes of them.
LEMMA SummaryIs ==
    ASSUME NEW m \in Nat, NEW T, \A i, j \in 1 .. m : i # j => T[i] # T[j],
           NEW errors \in [1 .. m -> Nat \cup {NoScore}],
           NEW D, IsFiniteSet(D),
           \A x \in D : \E i \in 1 .. m : errors[i] # NoScore /\ T[i] = x,
           \A i \in 1 .. m : errors[i] # NoScore => T[i] \in D,
           NEW w \in [D -> Nat], \A i \in 1 .. m : errors[i] # NoScore => errors[i] = w[T[i]]
    PROVE  SummaryOf(Summarized(errors), m, D, w)
  <1> DEFINE Of(i) == {T[j] : j \in {j \in 1 .. i : errors[j] # NoScore}}
  <1>1. D = Of(m) /\ Of(0) = {}
    <2>1. D \subseteq Of(m) /\ Of(m) \subseteq D
      OBVIOUS
    <2> QED BY <2>1
  <1>2. \A i \in 0 .. m : Of(i) \subseteq D
    <2> SUFFICES ASSUME NEW i \in 0 .. m PROVE Of(i) \subseteq Of(m)
      BY <1>1
    <2>1. \A j \in 1 .. i : j \in 1 .. m
      OBVIOUS
    <2> QED BY <2>1
  <1>3. IsFiniteSet(D)
    OBVIOUS
  <1>4. \A i \in 1 .. m : /\ errors[i] = NoScore => Of(i) = Of(i - 1)
                          /\ errors[i] # NoScore => /\ Of(i) = Of(i - 1) \cup {T[i]}
                                                    /\ T[i] \notin Of(i - 1)
                                                    /\ T[i] \in Of(i)
    <2> SUFFICES ASSUME NEW i \in 1 .. m
                 PROVE  /\ errors[i] = NoScore => Of(i) = Of(i - 1)
                        /\ errors[i] # NoScore => /\ Of(i) = Of(i - 1) \cup {T[i]}
                                                  /\ T[i] \notin Of(i - 1)
                                                  /\ T[i] \in Of(i)
      OBVIOUS
    <2>1. 1 .. i = (1 .. i - 1) \cup {i} /\ i \notin 1 .. i - 1
      OBVIOUS
    <2>2. \A j \in 1 .. i - 1 : j \in 1 .. m /\ j # i
      OBVIOUS
    <2>3. \A j \in 1 .. i - 1 : T[j] # T[i]
      BY <2>2
    <2> QED BY <2>1, <2>3
  <1> HIDE DEF Of
  <1>5. PICK f \in [SUBSET D -> Nat] : Sums(f, D, w) /\ FoldFunction(+, 0, w) = f[D]
    BY <1>3, TotalIs
  <1>6. PICK g \in [0 .. m -> Runnings] :
              /\ g[0] = NoErrors /\ Summarized(errors) = g[m]
              /\ \A i \in 1 .. m : g[i] = Added(g[i - 1], errors[i])
    BY SummarizedIs
  <1> DEFINE Right(r, i) ==
                /\ r.samples = i /\ r.errors = Cardinality(Of(i)) /\ r.sum = f[Of(i)]
                /\ Of(i) = {} => r.maximum = NoScore
                /\ Of(i) # {} => /\ \E x \in Of(i) : r.maximum = w[x]
                                 /\ \A x \in Of(i) : w[x] <= r.maximum
             G == {i \in 0 .. m : Right(g[i], i)}
  <1>7. 0 \in G
    <2>1. f[{}] = 0
      BY <1>5, Zenon DEF Sums
    <2>2. Cardinality({}) = 0
      BY FS_EmptySet
    <2>3. 0 \in 0 .. m /\ g[0] = NoErrors
      BY <1>6
    <2>4. Right(g[0], 0)
      <3>1. /\ g[0].samples = 0 /\ g[0].errors = 0 /\ g[0].sum = 0
            /\ g[0].maximum = NoScore
        BY <2>3 DEF NoErrors
      <3>2. Of(0) = {}
        BY <1>1
      <3> QED BY <2>1, <2>2, <3>1, <3>2, Zenon
    <2> HIDE DEF Right
    <2> QED BY <2>3, <2>4
  <1>8. ASSUME NEW i \in 1 .. m, i - 1 \in G PROVE i \in G
    <2> DEFINE r == g[i - 1]
               old == Of(i - 1)
               new == Of(i)
               e == errors[i]
               x == T[i]
    <2>1. r \in Runnings /\ Right(r, i - 1) /\ i \in 0 .. m /\ i - 1 \in 0 .. m /\ g[i] = Added(r, e)
      <3>1. i \in 0 .. m /\ i - 1 \in 0 .. m
        OBVIOUS
      <3>2. Right(r, i - 1)
        <4> HIDE DEF Right
        <4> QED BY <1>8
      <3>3. r \in Runnings
        BY <1>6, <3>1
      <3>4. g[i] = Added(r, e)
        BY <1>6
      <3> QED BY <3>1, <3>2, <3>3, <3>4
    <2>2. old \subseteq D /\ new \subseteq D /\ IsFiniteSet(old) /\ Cardinality(old) \in Nat
      BY <1>2, <1>3, <2>1, FS_Subset, FS_CardinalityType
    <2>3. /\ r.samples = i - 1 /\ r.errors = Cardinality(old) /\ r.sum = f[old]
          /\ old = {} => r.maximum = NoScore
          /\ old # {} => /\ \E y \in old : r.maximum = w[y]
                         /\ \A y \in old : w[y] <= r.maximum
          /\ r.maximum \in Int
      BY <2>1 DEF Runnings
    <2>4. CASE e = NoScore
      <3>1. g[i] = [r EXCEPT !.samples = @ + 1] /\ new = old
        BY <1>4, <2>1, <2>4 DEF Added
      <3>2. /\ g[i].samples = i /\ g[i].errors = r.errors /\ g[i].sum = r.sum
            /\ g[i].maximum = r.maximum
        BY <2>1, <2>3, <3>1 DEF Runnings
      <3> HIDE DEF old, new, r
      <3>3. Right(g[i], i)
        BY <2>3, <3>1, <3>2 DEF new
      <3> QED BY <2>1, <3>3
    <2>5. CASE e # NoScore
      <3>1. new = old \cup {x} /\ x \notin old /\ x \in new /\ x \in D
        BY <1>4, <2>2, <2>5
      <3>2. e = w[x] /\ e \in Nat
        BY <2>5, <3>1
      <3>3. /\ g[i].samples = r.samples + 1 /\ g[i].errors = r.errors + 1
            /\ g[i].sum = r.sum + e
            /\ g[i].maximum = IF r.errors = 0 \/ e > r.maximum THEN e ELSE r.maximum
        BY <2>1, <2>5 DEF Added
      <3> HIDE DEF old, new, r, e, x, Of
      <3>4. Cardinality(new) = Cardinality(old) + 1
        BY <2>2, <3>1, FS_AddElement
      <3>5. f[new] = e + f[old] /\ f[old] \in Nat
        <4>1. new \ {x} = old /\ new \in SUBSET D /\ old \in SUBSET D
          BY <2>2, <3>1
        <4>2. f[new] = w[x] + f[new \ {x}]
          <5>1. \A s \in SUBSET D : \A y \in s : f[s] = w[y] + f[s \ {y}]
            BY <1>5, Zenon DEF Sums
          <5>2. new \in SUBSET D /\ x \in new
            BY <3>1, <4>1
          <5> QED BY <5>1, <5>2, Zenon
        <4>3. f[old] \in Nat
          BY <4>1
        <4> QED BY <3>2, <4>1, <4>2, <4>3
      <3>6. g[i].samples = i /\ g[i].errors = Cardinality(new) /\ g[i].sum = f[new]
        <4>1. i \in Int
          OBVIOUS
        <4> QED BY <2>2, <2>3, <3>2, <3>3, <3>4, <3>5, <4>1
      <3>7. r.errors = 0 <=> old = {}
        BY <2>2, <2>3, FS_EmptySet
      <3>8. /\ \E y \in new : g[i].maximum = w[y]
            /\ \A y \in new : w[y] <= g[i].maximum
        <4>1. \A y \in old : w[y] \in Nat
          BY <2>2
        <4>2. CASE old = {}
          BY <3>1, <3>2, <3>3, <3>7, <4>2
        <4>3. CASE old # {} /\ e > r.maximum
          <5>1. g[i].maximum = w[x]
            BY <3>2, <3>3, <4>3
          <5>2. \A y \in old : w[y] <= w[x]
            BY <2>3, <3>2, <4>1, <4>3
          <5>3. w[x] <= w[x]
            BY <3>2
          <5> QED BY <3>1, <5>1, <5>2, <5>3, Zenon
        <4>4. CASE old # {} /\ ~(e > r.maximum)
          <5>1. g[i].maximum = r.maximum
            BY <3>3, <3>7, <4>4
          <5>2. w[x] <= r.maximum
            BY <2>3, <3>2, <4>4
          <5>3. /\ \E y \in old : r.maximum = w[y]
                /\ \A y \in old : w[y] <= r.maximum
            BY <2>3, <4>4, Zenon
          <5> QED BY <3>1, <5>1, <5>2, <5>3, Zenon
        <4> QED BY <4>2, <4>3, <4>4, Zenon
      <3>9. Right(g[i], i)
        <4>1. new # {}
          BY <3>1
        <4> QED BY <3>6, <3>8, <4>1 DEF new
      <3> QED BY <2>1, <3>9
    <2> QED BY <2>4, <2>5
  <1>9. Right(g[m], m)
    <2>1. m \in 0 .. m
      OBVIOUS
    <2> HIDE DEF G
    <2>2. m \in G
      BY <1>7, <1>8, <2>1, Onwards
    <2> QED BY <2>2 DEF G
  <1>10. Cardinality(D) \in Nat
    BY <1>3, FS_CardinalityType
  <1> QED BY <1>1, <1>5, <1>6, <1>9, <1>10 DEF SummaryOf

\* The first and the last of some stamps.
LEMMA EndsAre ==
    ASSUME NEW S, IsFiniteSet(S), S # {}, \A y \in S : y \in Nat
    PROVE  Min(S) \in S /\ Max(S) \in S /\ \A y \in S : Min(S) <= y /\ y <= Max(S)
  <1>1. PICK x \in S : \A y \in S : y <= x
    BY FiniteGreatest
  <1>2. PICK z \in S : \A y \in S : z <= y
    <2>1. S \in SUBSET Nat
      OBVIOUS
    <2> QED BY <2>1, LeastNumber
  <1>3. \A y \in S : y \in Int
    OBVIOUS
  <1>4. Max(S) = x
    BY <1>1, <1>3, MaxIs
  <1>5. Min(S) = z
    BY <1>2, <1>3, MinIs
  <1> QED BY <1>1, <1>2, <1>4, <1>5

\* The stamps of a topic are finitely many, and every one has lines.
LEMMA HeardTyped ==
    ASSUME NEW stream \in Streams
    PROVE  /\ Heard(stream) \in SUBSET Nat /\ IsFiniteSet(Heard(stream))
           /\ \A k \in DOMAIN stream : stream[k].stamp \in Heard(stream)
           /\ \A h \in Heard(stream) : \E k \in DOMAIN stream : stream[k].stamp = h
  <1>1. /\ Heard(stream) \in SUBSET Nat
        /\ \A k \in DOMAIN stream : stream[k].stamp \in Heard(stream)
        /\ \A h \in Heard(stream) : \E k \in DOMAIN stream : stream[k].stamp = h
    BY LinesTyped DEF Heard
  <1>2. CASE DOMAIN stream = {}
    <2>1. Heard(stream) = {}
      BY <1>1, <1>2
    <2> QED BY <1>1, <2>1, FS_EmptySet
  <1>3. CASE DOMAIN stream # {}
    <2> DEFINE S == DOMAIN stream
    <2>1. S \in SUBSET (DOMAIN stream) /\ S # {}
      BY <1>3
    <2> HIDE DEF S
    <2>2. PICK x \in S : \A y \in S : Ahead(stream, y, x)
      BY <2>1, LastLine
    <2> DEFINE top == stream[x].stamp
    <2>3. x \in DOMAIN stream /\ top \in Nat
      BY <2>1, LinesTyped
    <2>4. \A k \in DOMAIN stream : stream[k].stamp \in 0 .. top
      BY <2>2, <2>3, LinesTyped, AheadIsOrder DEF S
    <2> HIDE DEF top
    <2>5. Heard(stream) \in SUBSET (0 .. top)
      BY <1>1, <2>4
    <2>6. IsFiniteSet(0 .. top)
      BY <2>3, FS_Interval
    <2> QED BY <1>1, <2>5, <2>6, FS_Subset
  <1> QED BY <1>2, <1>3

\* A place that is read of a topic at a stamp of it.
LEMMA LinesAtTyped ==
    ASSUME NEW stream \in Streams, NEW h \in Heard(stream)
    PROVE  /\ Min(LinesAt(stream, h)) \in LinesAt(stream, h)
           /\ Max(LinesAt(stream, h)) \in LinesAt(stream, h)
           /\ \A k \in LinesAt(stream, h) :
                 stream[k].stamp = h /\ stream[k].at \in Int
  <1> DEFINE S == LinesAt(stream, h)
  <1>1. S \in SUBSET (DOMAIN stream) /\ \A k \in S : stream[k].stamp = h
    BY DEF LinesAt
  <1>2. S # {}
    <2>1. PICK k \in DOMAIN stream : stream[k].stamp = h
      BY HeardTyped
    <2> QED BY <2>1 DEF LinesAt
  <1> HIDE DEF S
  <1>3. IsFiniteSet(S) /\ \A k \in S : k \in Nat /\ stream[k].at \in Int
    BY <1>1, LinesTyped
  <1>4. Min(S) \in S /\ Max(S) \in S
    BY <1>2, <1>3, EndsAre
  <1> QED BY <1>1, <1>3, <1>4 DEF S

\* A recorded topic in its order: its lines L, each once, and their stamps K.
Sorts(stream, L, K) ==
    /\ L \in [1 .. Len(stream) -> DOMAIN stream]
    /\ K \in [1 .. Len(stream) -> Heard(stream)] /\ K \in [1 .. Len(stream) -> Nat]
    /\ \A i \in 1 .. Len(stream) : K[i] = stream[L[i]].stamp
    /\ \A i, j \in 1 .. Len(stream) : i < j => K[i] <= K[j]
    /\ \A i, j \in 1 .. Len(stream) : i < j => Ahead(stream, L[i], L[j]) /\ L[i] # L[j]
    /\ \A k \in DOMAIN stream : \E i \in 1 .. Len(stream) : L[i] = k
    /\ \A h \in Heard(stream) : \E i \in 1 .. Len(stream) : K[i] = h

\* What is scored is sorted so.
SortedLines(stream) == Ascending(stream, DOMAIN stream)
SortedStamps(stream) == StampsOf(stream, SortedLines(stream))

LEMMA SortedIs ==
    ASSUME NEW stream \in Streams
    PROVE  Sorts(stream, SortedLines(stream), SortedStamps(stream))
  <1> DEFINE S == DOMAIN stream
             n == Len(stream)
             L == SortedLines(stream)
             K == SortedStamps(stream)
  <1>1. S \in SUBSET (DOMAIN stream) /\ Cardinality(S) = n
    BY LinesTyped
  <1>2. Listed(L, stream, S)
    BY <1>1, AscendingIs DEF SortedLines
  <1> HIDE DEF S, L
  <1>3. InOrder(L, stream, S)
    BY <1>1, <1>2, StampsAscend
  <1>4. /\ L \in [1 .. n -> S]
        /\ \A i, j \in 1 .. n : i < j => Ahead(stream, L[i], L[j]) /\ L[i] # L[j]
        /\ \A k \in S : \E i \in 1 .. n : L[i] = k
    BY <1>1, <1>2 DEF Listed
  <1>5. /\ K \in [1 .. n -> Nat]
        /\ \A i \in 1 .. n : K[i] = stream[L[i]].stamp
        /\ \A i, j \in 1 .. n : i < j => K[i] <= K[j]
    BY <1>1, <1>3 DEF InOrder, SortedStamps, L
  <1> HIDE DEF K, n
  <1>6. \A i \in 1 .. n : K[i] \in Heard(stream)
    BY <1>4, <1>5, HeardTyped DEF S
  <1>7. K \in [1 .. n -> Heard(stream)]
    BY <1>5, <1>6
  <1>8. \A h \in Heard(stream) : \E i \in 1 .. n : K[i] = h
    <2> SUFFICES ASSUME NEW h \in Heard(stream) PROVE \E i \in 1 .. n : K[i] = h
      OBVIOUS
    <2>1. PICK k \in S : stream[k].stamp = h
      BY HeardTyped DEF S
    <2>2. PICK i \in 1 .. n : L[i] = k
      BY <1>4
    <2> QED BY <1>5, <2>1, <2>2
  <1> QED BY <1>4, <1>5, <1>7, <1>8 DEF Sorts, S, n, L, K

\* What is said of an instant is made from estimates.
LEMMA OfflineIn ==
    ASSUME NEW E, IsFiniteSet(E), \A e \in E : e \in Nat, NEW t \in Nat
    PROVE  Offline(E, t) \subseteq E
  <1> DEFINE earlier == {e \in E : e < t}
             later == {e \in E : e > t}
  <1>1. IsFiniteSet(earlier) /\ IsFiniteSet(later)
    BY FS_Subset
  <1>2. earlier # {} => Max(earlier) \in E
    <2>1. \A e \in earlier : e \in Nat
      OBVIOUS
    <2>2. earlier # {} => Max(earlier) \in earlier
      <3> HIDE DEF earlier
      <3> QED BY <1>1, <2>1, EndsAre
    <2> QED BY <2>2
  <1>3. later # {} => Min(later) \in E
    <2>1. \A e \in later : e \in Nat
      OBVIOUS
    <2>2. later # {} => Min(later) \in later
      <3> HIDE DEF later
      <3> QED BY <1>1, <2>1, EndsAre
    <2> QED BY <2>2
  <1> QED BY <1>2, <1>3 DEF Offline

\* What is said of the instant of a sample is a place, and off by a distance.
LEMMA OffTyped ==
    ASSUME NEW r, r.truth \in Streams, r.estimates \in Streams,
           NEW k \in DOMAIN r.truth, Spoken(r, k)
    PROVE  /\ Interpolated(r.estimates, SaidOf(r, k)) \in Int /\ r.truth[k].at \in Int
           /\ Off(r, k) = Interpolated(r.estimates, SaidOf(r, k)) - r.truth[k].at
           /\ Off(r, k) \in Int /\ Distance(Off(r, k), 0) \in Nat
  <1> DEFINE E == Heard(r.estimates)
             said == r.estimates
             t == r.truth[k].stamp
             pair == SaidOf(r, k)
             from == Offline(E, t)
             a == Min(from)
             b == Max(from)
             before == said[Max(LinesAt(said, a))]
             after == said[Min(LinesAt(said, b))]
  <1>1. /\ IsFiniteSet(E) /\ (\A e \in E : e \in Nat)
        /\ t \in Nat /\ r.truth[k].at \in Int
    BY HeardTyped, LinesTyped
  <1>2. pair.from = from /\ pair.stamp = t /\ from # {}
    BY DEF SaidOf, Spoken
  <1> HIDE DEF E, t
  <1>3. from \subseteq E
    BY <1>1, OfflineIn
  <1>4. IsFiniteSet(from) /\ \A y \in from : y \in Nat
    BY <1>1, <1>3, FS_Subset
  <1> HIDE DEF from
  <1>5. a \in from /\ b \in from /\ a <= b
    BY <1>2, <1>4, EndsAre
  <1>6. Interpolated(said, pair) =
           IF before.stamp = after.stamp THEN after.at
           ELSE before.at + ((t - before.stamp) * (after.at - before.at))
                                \div (after.stamp - before.stamp)
    BY <1>2 DEF Interpolated
  <1> HIDE DEF a, b
  <1>7. a \in Nat /\ b \in Nat /\ a \in Heard(said) /\ b \in Heard(said)
    BY <1>3, <1>4, <1>5 DEF E
  <1>8. /\ before.stamp = a /\ after.stamp = b
        /\ before.at \in Int /\ after.at \in Int
    BY <1>7, LinesAtTyped
  <1> HIDE DEF before, after, pair
  <1>9. Interpolated(said, pair) \in Int
    <2>1. CASE a = b
      BY <1>6, <1>8, <2>1
    <2>2. CASE a # b
      <3>1. b - a \in Nat \ {0}
        BY <1>5, <1>7, <2>2
      <3>2. (t - a) \in Int /\ (after.at - before.at) \in Int
        BY <1>1, <1>7, <1>8
      <3>3. (t - a) * (after.at - before.at) \in Int
        BY <3>2
      <3>4. \A x \in Int, y \in Nat \ {0} : x \div y \in Int
        OBVIOUS
      <3>5. ((t - a) * (after.at - before.at)) \div (b - a) \in Int
        BY <3>1, <3>3, <3>4
      <3> QED BY <1>6, <1>8, <2>2, <3>5
    <2> QED BY <2>1, <2>2
  <1>10. Off(r, k) = Interpolated(said, pair) - r.truth[k].at
    BY DEF Off, pair
  <1>11. Off(r, k) \in Int
    BY <1>1, <1>9, <1>10
  <1>12. Distance(Off(r, k), 0) \in Nat
    BY <1>11 DEF Distance
  <1> QED BY <1>1, <1>9, <1>10, <1>11, <1>12 DEF pair

\* The pairs that a recording is scored from.
PairsOf(r) ==
    Aligned(Heard(r.estimates), Len(r.truth), SortedStamps(r.truth))

\* Each says of a sample what is said of it by the definition.
LEMMA PairsSay ==
    ASSUME NEW r, r.truth \in Streams
    PROVE  LET n == Len(r.truth)
               L == SortedLines(r.truth)
           IN  /\ n \in Nat /\ DOMAIN PairsOf(r) = 1 .. n /\ Len(PairsOf(r)) = n
               /\ \A i \in 1 .. n : L[i] \in DOMAIN r.truth
                                    /\ PairsOf(r)[i] = SaidOf(r, L[i])
               /\ \A i, j \in 1 .. n : i # j => L[i] # L[j]
               /\ \A k \in DOMAIN r.truth : \E i \in 1 .. n : L[i] = k
               /\ \A i, j \in 1 .. n :
                     i < j => r.truth[L[i]].stamp <= r.truth[L[j]].stamp
               /\ \A i, j \in 1 .. n : i < j => Ahead(r.truth, L[i], L[j])
  <1> DEFINE n == Len(r.truth)
             L == SortedLines(r.truth)
             T == SortedStamps(r.truth)
             E == Heard(r.estimates)
  <1>1. n \in Nat
    BY LinesTyped
  <1>2. Sorts(r.truth, L, T)
    BY SortedIs
  <1> HIDE DEF L, T
  <1>3. /\ L \in [1 .. n -> DOMAIN r.truth]
        /\ \A i \in 1 .. n : T[i] = r.truth[L[i]].stamp
        /\ \A i, j \in 1 .. n : i < j => T[i] <= T[j]
        /\ \A i, j \in 1 .. n : i < j => Ahead(r.truth, L[i], L[j]) /\ L[i] # L[j]
        /\ \A k \in DOMAIN r.truth : \E i \in 1 .. n : L[i] = k
    BY <1>2 DEF Sorts
  <1>4. PairsOf(r) = [i \in 1 .. n |-> [stamp |-> T[i], from |-> Offline(E, T[i])]]
    BY DEF PairsOf, Aligned, T
  <1>5. \A i \in 1 .. n : PairsOf(r)[i] = SaidOf(r, L[i])
    BY <1>3, <1>4 DEF SaidOf
  <1>6. DOMAIN PairsOf(r) = 1 .. n /\ Len(PairsOf(r)) = n
    BY <1>1, <1>4
  <1>7. \A i, j \in 1 .. n : i # j => L[i] # L[j]
    <2> SUFFICES ASSUME NEW i \in 1 .. n, NEW j \in 1 .. n, i # j PROVE L[i] # L[j]
      OBVIOUS
    <2>1. i < j \/ j < i
      BY <1>1
    <2> QED BY <1>3, <2>1
  <1>8. \A i, j \in 1 .. n : i < j => r.truth[L[i]].stamp <= r.truth[L[j]].stamp
    BY <1>3
  <1> QED BY <1>1, <1>3, <1>5, <1>6, <1>7, <1>8 DEF L

\* Each truth sample's absolute error, as it is scored and by the definition.
AbsoluteRight(r, a) ==
    LET D == {k \in DOMAIN r.truth : Spoken(r, k)}
        w == [k \in D |-> Distance(Off(r, k), 0)]
    IN SummaryOf(a, Len(r.truth), D, w)

\* absolute_trajectory_error and its summary.
LEMMA AbsoluteIs ==
    ASSUME NEW r, r.truth \in Streams, r.estimates \in Streams
    PROVE  AbsoluteRight(r, Summarized(AbsoluteErrors(r, SortedLines(r.truth), PairsOf(r))))
  <1> DEFINE S == DOMAIN r.truth
             m == Len(r.truth)
             L == SortedLines(r.truth)
             pairs == PairsOf(r)
             errors == AbsoluteErrors(r, L, pairs)
             D == {k \in S : Spoken(r, k)}
             w == [k \in D |-> Distance(Off(r, k), 0)]
  <1>1. IsFiniteSet(S)
    BY LinesTyped
  <1>2. /\ m \in Nat /\ DOMAIN pairs = 1 .. m
        /\ \A i \in 1 .. m : L[i] \in S /\ pairs[i] = SaidOf(r, L[i])
        /\ \A i, j \in 1 .. m : i # j => L[i] # L[j]
        /\ \A k \in S : \E i \in 1 .. m : L[i] = k
    BY PairsSay
  <1> HIDE DEF S, m, L, pairs
  <1>3. \A k \in D :
           /\ Interpolated(r.estimates, SaidOf(r, k)) \in Int /\ r.truth[k].at \in Int
           /\ Off(r, k) = Interpolated(r.estimates, SaidOf(r, k)) - r.truth[k].at
           /\ Off(r, k) \in Int
           /\ w[k] = Distance(Off(r, k), 0) /\ w[k] \in Nat
    BY OffTyped DEF S
  <1>4. /\ errors = [i \in 1 .. m |-> errors[i]]
        /\ \A i \in 1 .. m : /\ L[i] \notin D => errors[i] = NoScore
                             /\ L[i] \in D => errors[i] = w[L[i]]
    <2>1. errors = [i \in 1 .. m |-> IF pairs[i].from = {} THEN NoScore
                                     ELSE Distance(Interpolated(r.estimates, pairs[i]),
                                                   r.truth[L[i]].at)]
      BY <1>2 DEF AbsoluteErrors
    <2>2. \A i \in 1 .. m : L[i] \in D <=> pairs[i].from # {}
      BY <1>2 DEF Spoken
    <2> HIDE DEF errors, D, w
    <2>3. ASSUME NEW i \in 1 .. m
          PROVE  /\ L[i] \notin D => errors[i] = NoScore
                 /\ L[i] \in D => errors[i] = w[L[i]]
      <3> DEFINE k == L[i]
                 said == Interpolated(r.estimates, SaidOf(r, k))
      <3>1. k \notin D => errors[i] = NoScore
        BY <2>1, <2>2
      <3>2. ASSUME k \in D PROVE errors[i] = w[k]
        <4>1. errors[i] = Distance(said, r.truth[k].at)
          BY <1>2, <2>1, <2>2, <3>2
        <4>2. /\ said \in Int /\ r.truth[k].at \in Int /\ Off(r, k) = said - r.truth[k].at
              /\ w[k] = Distance(Off(r, k), 0)
          BY <1>3, <3>2
        <4> HIDE DEF k, said
        <4>3. Distance(said, r.truth[k].at) = Distance(Off(r, k), 0)
          BY <4>2 DEF Distance
        <4> QED BY <4>1, <4>2, <4>3
      <3> QED BY <3>1, <3>2
    <2> QED BY <2>1, <2>3
  <1> HIDE DEF errors, w
  <1>5. \A i \in 1 .. m : L[i] \in D <=> errors[i] # NoScore
    <2>1. \A k \in D : w[k] # NoScore
      BY <1>3 DEF NoScore
    <2> HIDE DEF D
    <2> QED BY <1>4, <2>1
  <1>6. errors \in [1 .. m -> Nat \cup {NoScore}]
    <2>1. \A i \in 1 .. m : errors[i] \in Nat \cup {NoScore}
      <3> HIDE DEF D
      <3> QED BY <1>3, <1>4
    <2> QED BY <1>4, <2>1
  <1>7. /\ IsFiniteSet(D)
        /\ \A x \in D : \E i \in 1 .. m : errors[i] # NoScore /\ L[i] = x
        /\ \A i \in 1 .. m : errors[i] # NoScore => L[i] \in D
    <2>1. IsFiniteSet(D)
      BY <1>1, FS_Subset
    <2>2. D \subseteq S
      OBVIOUS
    <2> HIDE DEF D
    <2> QED BY <1>2, <1>5, <2>1, <2>2
  <1>8. w \in [D -> Nat] /\ \A i \in 1 .. m : errors[i] # NoScore => errors[i] = w[L[i]]
    <2>1. w = [k \in D |-> w[k]]
      BY DEF w
    <2> HIDE DEF D
    <2> QED BY <1>3, <1>4, <1>5, <2>1
  <1> HIDE DEF D
  <1>9. SummaryOf(Summarized(errors), m, D, w)
    BY <1>2, <1>6, <1>7, <1>8, SummaryIs
  <1> QED BY <1>9, Zenon DEF AbsoluteRight, errors, pairs, S, m, L, D, w

\* The first of the samples at least a delta later is the one before which none is.
LEMMA ThenIs ==
    ASSUME NEW r, r.truth \in Streams, NEW k, NEW x \in Later(r, k),
           \A l \in Later(r, k) : Ahead(r.truth, x, l)
    PROVE  Then(r, k) = x
  <1> DEFINE F == Later(r, k)
             y == CHOOSE z \in F : \A l \in F : Ahead(r.truth, z, l)
  <1>1. F \subseteq DOMAIN r.truth
    BY DEF Later
  <1> HIDE DEF F
  <1>2. y \in F /\ \A l \in F : Ahead(r.truth, y, l)
    BY DEF F
  <1>3. Then(r, k) = y
    BY DEF Then, F
  <1> HIDE DEF y
  <1>4. x \in F /\ Ahead(r.truth, x, y) /\ Ahead(r.truth, y, x)
    BY <1>2 DEF F
  <1>5. x = y
    BY <1>1, <1>2, <1>4, AheadIsOrder
  <1> QED BY <1>3, <1>5

\* The partner of a sample is the first sample of truth at least a delta later.
PartnerRight(r, i) ==
    LET p == Partner(PairsOf(r), i)
        L == SortedLines(r.truth)
    IN  /\ p <= Len(r.truth) <=> Later(r, L[i]) # {}
        /\ p <= Len(r.truth) => /\ p \in 1 .. Len(r.truth)
                                /\ L[p] \in Later(r, L[i]) /\ L[p] = Then(r, L[i])

\* It is that for every sample.
LEMMA PartnerIs ==
    ASSUME NEW r, r.truth \in Streams, NEW i \in 1 .. Len(r.truth)
    PROVE  PartnerRight(r, i)
  <1> DEFINE S == DOMAIN r.truth
             m == Len(r.truth)
             L == SortedLines(r.truth)
             T(j) == r.truth[L[j]].stamp
             pairs == PairsOf(r)
             J == {j \in i + 1 .. m + 1 : j > m \/ T(j) >= T(i) + Delta}
             p == Min(J)
             F == Later(r, L[i])
  <1>1. /\ m \in Nat /\ Len(pairs) = m
        /\ \A j \in 1 .. m : L[j] \in S /\ pairs[j] = SaidOf(r, L[j])
        /\ \A k \in S : \E j \in 1 .. m : L[j] = k
        /\ \A j, k \in 1 .. m : j < k => T(j) <= T(k)
        /\ \A j, k \in 1 .. m : j < k => Ahead(r.truth, L[j], L[k])
    BY PairsSay
  <1>2. Delta \in Nat \ {0}
    BY RescoreAssumption
  <1>3. \A k \in S : r.truth[k].stamp \in Nat /\ Ahead(r.truth, k, k)
    BY LinesTyped, AheadIsOrder
  <1>4. F = {k \in S : r.truth[k].stamp >= T(i) + Delta}
    BY DEF Later
  <1>5. i \in 1 .. m
    OBVIOUS
  <1> HIDE DEF m, L, S, pairs
  <1>6. \A j \in 1 .. m : T(j) \in Nat
    BY <1>1, <1>3
  <1>7. Partner(pairs, i) = p
    <2>1. \A j \in 1 .. m : pairs[j].stamp = T(j)
      BY <1>1 DEF SaidOf
    <2>2. \A j \in i + 1 .. m + 1 : j > m \/ j \in 1 .. m
      BY <1>1, <1>5
    <2>3. {j \in i + 1 .. Len(pairs) + 1 :
              j > Len(pairs) \/ pairs[j].stamp >= pairs[i].stamp + Delta} = J
      BY <1>1, <1>5, <2>1, <2>2
    <2> QED BY <2>3 DEF Partner
  <1>8. p \in J /\ \A j \in J : p <= j
    <2>1. J \in SUBSET Nat /\ m + 1 \in J
      <3>1. m + 1 \in i + 1 .. m + 1 /\ m + 1 > m
        BY <1>1, <1>5
      <3>2. m + 1 \in J
        BY <3>1 DEF J
      <3>3. \A j \in i + 1 .. m + 1 : j \in Nat
        BY <1>1, <1>5
      <3> QED BY <3>2, <3>3 DEF J
    <2> HIDE DEF J
    <2>2. PICK x \in J : \A y \in J : x <= y
      BY <2>1, LeastNumber
    <2>3. \A y \in J : y \in Int
      BY <2>1
    <2>4. Min(J) = x
      BY <2>2, <2>3, MinIs
    <2> QED BY <2>2, <2>4
  <1>9. p \in Nat /\ p \in i + 1 .. m + 1 /\ (p > m \/ T(p) >= T(i) + Delta)
    <2> HIDE DEF p
    <2>1. p \in i + 1 .. m + 1 /\ (p > m \/ T(p) >= T(i) + Delta)
      BY <1>8 DEF J
    <2> HIDE DEF J, T
    <2> QED BY <1>1, <1>5, <2>1
  <1>10. ASSUME NEW j \in 1 .. m, T(j) >= T(i) + Delta PROVE p <= j
    <2>1. i < j
      <3> SUFFICES ASSUME ~(i < j) PROVE FALSE
        OBVIOUS
      <3>1. j < i \/ j = i
        BY <1>1, <1>5
      <3>2. T(j) <= T(i) /\ T(i) \in Nat /\ T(j) \in Nat
        BY <1>1, <1>5, <1>6, <3>1
      <3> QED BY <1>2, <1>10, <3>2
    <2>2. j \in J
      BY <1>1, <1>5, <1>10, <2>1
    <2> QED BY <1>8, <2>2
  <1> HIDE DEF p, F, J, T
  <1>11. ASSUME NEW u \in F
         PROVE  p \in 1 .. m /\ Ahead(r.truth, L[p], u)
    <2>1. u \in S /\ r.truth[u].stamp >= T(i) + Delta
      BY <1>4
    <2>2. PICK j \in 1 .. m : L[j] = u
      BY <1>1, <2>1
    <2>3. p <= j
      BY <1>10, <2>1, <2>2 DEF T
    <2>4. p \in 1 .. m
      BY <1>1, <1>5, <1>9, <2>3
    <2>5. Ahead(r.truth, L[p], L[j])
      <3>1. p < j \/ p = j
        BY <1>9, <2>3
      <3> QED BY <1>1, <1>3, <2>4, <3>1
    <2> QED BY <2>2, <2>4, <2>5
  <1>12. ASSUME p <= m PROVE p \in 1 .. m /\ L[p] \in F
    <2>1. p \in 1 .. m
      BY <1>1, <1>5, <1>9, <1>12
    <2>2. T(p) >= T(i) + Delta
      BY <1>1, <1>9, <1>12
    <2> QED BY <1>1, <1>4, <2>1, <2>2 DEF T
  <1>13. p <= m <=> F # {}
    <2>1. p \in 1 .. m => p <= m
      BY <1>1
    <2> QED BY <1>11, <1>12, <2>1
  <1>14. p <= m => L[p] = Then(r, L[i])
    <2> SUFFICES ASSUME p <= m PROVE L[p] = Then(r, L[i])
      OBVIOUS
    <2>1. L[p] \in F /\ \A u \in F : Ahead(r.truth, L[p], u)
      BY <1>11, <1>12
    <2> QED BY <2>1, ThenIs DEF F
  <1> QED BY <1>7, <1>12, <1>13, <1>14 DEF F, m, L, pairs, PartnerRight

\* The motion from each truth sample on, as it is scored and by the definition.
Moved(r) ==
    {k \in DOMAIN r.truth :
        /\ Spoken(r, k) /\ Later(r, k) # {}
        /\ Then(r, k) \in DOMAIN r.truth /\ Spoken(r, Then(r, k))}

RelativeRight(r, a) ==
    \E n \in Nat :
        SummaryOf(a, n, Moved(r),
                  [k \in Moved(r) |-> Distance(Off(r, Then(r, k)), Off(r, k))])

\* relative_pose_error and its summary.
LEMMA RelativeIs ==
    ASSUME NEW r, r.truth \in Streams, r.estimates \in Streams
    PROVE  RelativeRight(r, Summarized(RelativeErrors(r, SortedLines(r.truth), PairsOf(r))))
  <1> DEFINE S == DOMAIN r.truth
             m == Len(r.truth)
             L == SortedLines(r.truth)
             T(i) == r.truth[L[i]].stamp
             pairs == PairsOf(r)
             K == {k \in 0 .. m : \A i \in 1 .. k : Partner(pairs, i) <= m}
             n == Max(K)
             errors == RelativeErrors(r, L, pairs)
             D == Moved(r)
             w == [k \in D |-> Distance(Off(r, Then(r, k)), Off(r, k))]
  <1>1. IsFiniteSet(S) /\ \A k \in S : r.truth[k].stamp \in Nat
    BY LinesTyped
  <1>2. /\ m \in Nat /\ Len(pairs) = m
        /\ \A i \in 1 .. m : L[i] \in S /\ pairs[i] = SaidOf(r, L[i])
        /\ \A i, j \in 1 .. m : i # j => L[i] # L[j]
        /\ \A k \in S : \E i \in 1 .. m : L[i] = k
        /\ \A i, j \in 1 .. m : i < j => T(i) <= T(j)
    BY PairsSay
  <1>3. \A i \in 1 .. m : /\ Partner(pairs, i) <= m <=> Later(r, L[i]) # {}
                          /\ Partner(pairs, i) <= m =>
                                /\ Partner(pairs, i) \in 1 .. m
                                /\ L[Partner(pairs, i)] = Then(r, L[i])
    <2> SUFFICES ASSUME NEW i \in 1 .. m
                 PROVE  /\ Partner(pairs, i) <= m <=> Later(r, L[i]) # {}
                        /\ Partner(pairs, i) <= m =>
                              /\ Partner(pairs, i) \in 1 .. m
                              /\ L[Partner(pairs, i)] = Then(r, L[i])
      OBVIOUS
    <2>1. PartnerRight(r, i)
      BY PartnerIs
    <2> QED BY <2>1, Zenon DEF PartnerRight
  <1> HIDE DEF m, L, pairs, S
  <1>4. \A i \in 1 .. m : T(i) \in Nat
    BY <1>1, <1>2
  <1>5. n \in 0 .. m /\ \A i \in 1 .. m : i <= n <=> Later(r, L[i]) # {}
    <2>1. K \in SUBSET (0 .. m) /\ 0 \in K
      BY <1>2
    <2>2. n \in K /\ \A k \in K : k <= n
      <3> HIDE DEF K
      <3> QED BY <1>2, <2>1, MaxIsGreatest
    <2> HIDE DEF n
    <2>3. ASSUME NEW i \in 1 .. m, i <= n PROVE Later(r, L[i]) # {}
      <3>1. i \in 1 .. n
        BY <2>2, <2>3
      <3> QED BY <1>3, <2>2, <3>1
    <2>4. ASSUME NEW i \in 1 .. m, Later(r, L[i]) # {} PROVE i <= n
      <3>1. ASSUME NEW j \in 1 .. i PROVE Later(r, L[j]) # {}
        <4>1. j \in 1 .. m /\ (j < i \/ j = i)
          BY <1>2
        <4>2. T(j) <= T(i) /\ T(j) \in Nat /\ T(i) \in Nat
          BY <1>2, <1>4, <4>1
        <4>3. PICK u \in S : r.truth[u].stamp >= T(i) + Delta
          BY <2>4 DEF Later, S
        <4>4. r.truth[u].stamp >= T(j) + Delta
          BY <1>1, <4>2, <4>3, RescoreAssumption
        <4> QED BY <4>3, <4>4 DEF Later, S
      <3>2. \A j \in 1 .. i : Partner(pairs, j) <= m
        <4>1. \A j \in 1 .. i : j \in 1 .. m
          BY <1>2
        <4> QED BY <1>3, <3>1, <4>1
      <3>3. i \in K
        BY <1>2, <3>2
      <3> QED BY <2>2, <3>3
    <2> QED BY <2>2, <2>3, <2>4
  <1>6. errors = [i \in 1 .. n |->
                    IF pairs[i].from = {} \/ pairs[Partner(pairs, i)].from = {} THEN NoScore
                    ELSE Distance(Interpolated(r.estimates, pairs[Partner(pairs, i)])
                                      - Interpolated(r.estimates, pairs[i]),
                                  r.truth[L[Partner(pairs, i)]].at
                                      - r.truth[L[i]].at)]
    BY <1>2 DEF RelativeErrors
  <1> HIDE DEF n, errors, K, T
  <1>7. \A i \in 1 .. n : i \in 1 .. m
    BY <1>2, <1>5
  <1>8. ASSUME NEW k \in D
        PROVE  /\ k \in S /\ Then(r, k) \in S
               /\ Interpolated(r.estimates, SaidOf(r, k)) \in Int /\ r.truth[k].at \in Int
               /\ Off(r, k) = Interpolated(r.estimates, SaidOf(r, k)) - r.truth[k].at
               /\ LET u == Then(r, k)
                  IN  /\ Interpolated(r.estimates, SaidOf(r, u)) \in Int
                      /\ r.truth[u].at \in Int
                      /\ Off(r, u) = Interpolated(r.estimates, SaidOf(r, u)) - r.truth[u].at
               /\ w[k] = Distance(Off(r, Then(r, k)), Off(r, k)) /\ w[k] \in Nat
    <2>1. k \in S /\ Spoken(r, k)
      BY <1>8 DEF Moved, S
    <2> DEFINE u == Then(r, k)
    <2>2. u \in S /\ Spoken(r, u)
      BY <1>8 DEF Moved, S
    <2>3. w[k] = Distance(Off(r, u), Off(r, k))
      BY <1>8
    <2> HIDE DEF u, w, D
    <2>4. /\ Interpolated(r.estimates, SaidOf(r, k)) \in Int /\ r.truth[k].at \in Int
          /\ Off(r, k) = Interpolated(r.estimates, SaidOf(r, k)) - r.truth[k].at
          /\ Off(r, k) \in Int
      BY <2>1, OffTyped DEF S
    <2>5. /\ Interpolated(r.estimates, SaidOf(r, u)) \in Int /\ r.truth[u].at \in Int
          /\ Off(r, u) = Interpolated(r.estimates, SaidOf(r, u)) - r.truth[u].at
          /\ Off(r, u) \in Int
      BY <2>2, OffTyped DEF S
    <2>6. w[k] \in Nat
      BY <2>3, <2>4, <2>5 DEF Distance
    <2> QED BY <2>1, <2>2, <2>3, <2>4, <2>5, <2>6 DEF u
  <1> HIDE DEF w
  <1>9. ASSUME NEW i \in 1 .. n
        PROVE  /\ L[i] \notin D => errors[i] = NoScore
               /\ L[i] \in D => errors[i] = w[L[i]]
    <2> DEFINE k == L[i]
               p == Partner(pairs, i)
               u == Then(r, k)
    <2>1. i \in 1 .. m /\ k \in S /\ Later(r, k) # {}
      <3>1. i <= n
        BY <1>2, <1>5
      <3> QED BY <1>2, <1>5, <1>7, <3>1
    <2>2. p \in 1 .. m /\ L[p] = u
      BY <1>3, <2>1
    <2>3. u \in S
      BY <1>2, <2>2
    <2>4. pairs[i] = SaidOf(r, k) /\ pairs[p] = SaidOf(r, u)
      BY <1>2, <2>1, <2>2
    <2>5. k \in D <=> Spoken(r, k) /\ Spoken(r, u)
      BY <2>1, <2>3 DEF Moved, S
    <2> HIDE DEF k, p, u, D
    <2>6. errors[i] = IF pairs[i].from = {} \/ pairs[p].from = {} THEN NoScore
                      ELSE Distance(Interpolated(r.estimates, pairs[p])
                                        - Interpolated(r.estimates, pairs[i]),
                                    r.truth[u].at - r.truth[k].at)
      BY <1>6, <2>2 DEF p, k
    <2>7. /\ Spoken(r, k) <=> pairs[i].from # {}
          /\ Spoken(r, u) <=> pairs[p].from # {}
      BY <2>4 DEF Spoken
    <2>8. CASE k \notin D
      BY <2>5, <2>6, <2>7, <2>8 DEF k
    <2>9. CASE k \in D
      <3> DEFINE x == Interpolated(r.estimates, SaidOf(r, k))
                 y == Interpolated(r.estimates, SaidOf(r, u))
      <3>1. errors[i] = Distance(y - x, r.truth[u].at - r.truth[k].at)
        BY <2>4, <2>5, <2>6, <2>7, <2>9
      <3>2. /\ x \in Int /\ y \in Int /\ r.truth[u].at \in Int /\ r.truth[k].at \in Int
            /\ Off(r, k) = x - r.truth[k].at /\ Off(r, u) = y - r.truth[u].at
            /\ w[k] = Distance(Off(r, u), Off(r, k))
        BY <1>8, <2>9 DEF u
      <3> HIDE DEF x, y
      <3>3. Distance(y - x, r.truth[u].at - r.truth[k].at)
              = Distance(Off(r, u), Off(r, k))
        BY <3>2 DEF Distance
      <3> QED BY <2>9, <3>1, <3>2, <3>3 DEF k
    <2> QED BY <2>8, <2>9 DEF k
  <1>10. \A i \in 1 .. n : L[i] \in D <=> errors[i] # NoScore
    <2>1. \A k \in D : w[k] # NoScore
      BY <1>8 DEF NoScore
    <2> HIDE DEF D
    <2> QED BY <1>9, <2>1
  <1>11. errors \in [1 .. n -> Nat \cup {NoScore}]
    <2>1. \A i \in 1 .. n : errors[i] \in Nat \cup {NoScore}
      <3>1. \A k \in D : w[k] \in Nat
        BY <1>8
      <3> HIDE DEF D
      <3> QED BY <1>9, <3>1
    <2>2. errors = [i \in 1 .. n |-> errors[i]]
      BY <1>6
    <2> QED BY <2>1, <2>2
  <1>12. /\ IsFiniteSet(D)
         /\ \A x \in D : \E i \in 1 .. n : errors[i] # NoScore /\ L[i] = x
         /\ \A i \in 1 .. n : errors[i] # NoScore => L[i] \in D
    <2>1. D \subseteq S /\ \A x \in D : Later(r, x) # {}
      BY DEF Moved, S
    <2> HIDE DEF D
    <2>2. IsFiniteSet(D)
      BY <1>1, <2>1, FS_Subset
    <2>3. ASSUME NEW x \in D PROVE \E i \in 1 .. n : errors[i] # NoScore /\ L[i] = x
      <3>1. PICK i \in 1 .. m : L[i] = x
        BY <1>2, <2>1
      <3>2. i <= n
        BY <1>5, <2>1, <3>1
      <3>3. i \in 1 .. n
        BY <1>5, <3>2
      <3> QED BY <1>10, <3>1, <3>3
    <2> QED BY <1>10, <2>2, <2>3
  <1>13. w \in [D -> Nat] /\ \A i \in 1 .. n : errors[i] # NoScore => errors[i] = w[L[i]]
    <2>1. w = [k \in D |-> w[k]]
      BY DEF w
    <2>2. \A k \in D : w[k] \in Nat
      BY <1>8
    <2> HIDE DEF D
    <2> QED BY <1>9, <1>10, <2>1, <2>2
  <1> HIDE DEF D
  <1>14. n \in Nat /\ \A i, j \in 1 .. n : i # j => L[i] # L[j]
    BY <1>2, <1>5, <1>7
  <1>15. SummaryOf(Summarized(errors), n, D, w)
    BY <1>11, <1>12, <1>13, <1>14, SummaryIs
  <1> QED BY <1>14, <1>15 DEF RelativeRight, errors, pairs, m, L, D, w

----------------------------------------------------------------------------

(***************************************************************************)
(* Availability                                                            *)
(***************************************************************************)

\* The stretches between estimates, and what they come to.
Stretches == [length : Int, first : BOOLEAN]
Coverages == [uncovered : Int, maximumGap : Int, staleGaps : Int]
NothingCounted == [uncovered |-> 0, maximumGap |-> 0, staleGaps |-> 0]

\* A stretch more.
LEMMA CountedTyped ==
    ASSUME NEW so \in Coverages, NEW gap \in Stretches
    PROVE  Counted(so, gap) \in Coverages
  <1>1. /\ so.uncovered \in Int /\ so.maximumGap \in Int /\ so.staleGaps \in Int
        /\ gap.length \in Int /\ gap.first \in BOOLEAN /\ Window \in Int
    BY AlignerAssumption DEF Coverages, Stretches
  <1>2. /\ (IF gap.first THEN gap.length
            ELSE IF gap.length > Window THEN gap.length - Window ELSE 0) \in Int
        /\ (IF gap.length > so.maximumGap THEN gap.length ELSE so.maximumGap) \in Int
        /\ (IF gap.length > Window THEN 1 ELSE 0) \in Int
    BY <1>1
  <1> QED BY <1>1, <1>2 DEF Counted, Coverages

\* What the stretches so far come to.
LEMMA CountedIs ==
    ASSUME NEW m \in Nat, NEW gaps \in [1 .. m -> Stretches]
    PROVE  \E g \in [0 .. m -> Coverages] :
              /\ g[0] = NothingCounted /\ FoldLeft(Counted, NothingCounted, gaps) = g[m]
              /\ \A i \in 1 .. m : g[i] = Counted(g[i - 1], gaps[i])
  <1> DEFINE D == 1 .. m
             S == Coverages
             base == NothingCounted
             step == [p \in D \X S |-> Counted(p[2], gaps[p[1]])]
             iter[s \in SUBSET D] ==
                IF s = {} THEN base ELSE Counted(iter[s \ {Max(s)}], gaps[Max(s)])
  <1>1. base \in S
    BY DEF Coverages, NothingCounted
  <1>2. step \in [D \X S -> S] /\ \A x \in D, r \in S : step[<<x, r>>] = Counted(r, gaps[x])
    <2>1. \A x \in D, r \in S : Counted(r, gaps[x]) \in S
      BY CountedTyped
    <2> HIDE DEF D, S
    <2> QED BY <2>1
  <1>7. FoldLeft(Counted, NothingCounted, gaps) = iter[D]
    <2>1. DOMAIN gaps = D
      OBVIOUS
    <2> HIDE DEF D
    <2> QED BY <2>1 DEF FoldLeft, MapThenFoldSet
  <1> HIDE DEF step, base
  <1>3. PICK f \in [SUBSET D -> S], g \in [0 .. m -> S] :
              /\ \A s \in SUBSET D :
                    f[s] = IF s = {} THEN base ELSE step[<<Max(s), f[s \ {Max(s)}]>>]
              /\ \A s \in SUBSET D : s # {} => Max(s) \in s
              /\ g[0] = base /\ g[m] = f[D]
              /\ \A i \in 1 .. m : g[i] = step[<<i, g[i - 1]>>]
    <2>1. step \in [(1 .. m) \X S -> S]
      BY <1>2
    <2> HIDE DEF S, iter
    <2>2. \E f \in [SUBSET (1 .. m) -> S], g \in [0 .. m -> S] : Along(f, g, m, base, step)
      BY <1>1, <2>1, AlongExists
    <2> QED BY <2>2, Zenon DEF Along
  <1>4. \A s \in SUBSET D : s # {} => Max(s) \in D /\ f[s \ {Max(s)}] \in S
    BY <1>3
  <1>5. f = [s \in SUBSET D |->
                IF s = {} THEN base ELSE Counted(f[s \ {Max(s)}], gaps[Max(s)])]
    <2>1. \A s \in SUBSET D :
             f[s] = IF s = {} THEN base ELSE Counted(f[s \ {Max(s)}], gaps[Max(s)])
      BY <1>2, <1>3, <1>4
    <2> HIDE DEF D, S
    <2> QED BY <2>1
  <1>6. iter = [s \in SUBSET D |->
                IF s = {} THEN base ELSE Counted(iter[s \ {Max(s)}], gaps[Max(s)])]
    <2>1. iter = CHOOSE h : h = [s \in SUBSET D |->
                IF s = {} THEN base ELSE Counted(h[s \ {Max(s)}], gaps[Max(s)])]
      OBVIOUS
    <2> HIDE DEF iter
    <2> QED BY <1>5, <2>1
  <1> HIDE DEF iter
  <1>8. iter[D] = f[D]
    <2> DEFINE bad == {s \in SUBSET D : iter[s] # f[s]}
    <2>1. SUFFICES ASSUME bad # {} PROVE FALSE
      BY <2>1
    <2>2. PICK b \in bad : \A u \in bad : u \subseteq b => u = b
      <3>1. bad \in SUBSET (SUBSET D) /\ IsFiniteSet(D)
        BY FS_Interval
      <3> HIDE DEF bad, D
      <3> QED BY <2>1, <3>1, LeastSubset
    <2>3. b # {}
      BY <1>5, <1>6
    <2>4. b \ {Max(b)} \in SUBSET D /\ b \ {Max(b)} \notin bad
      BY <1>3, <2>2, <2>3
    <2>5. iter[b \ {Max(b)}] = f[b \ {Max(b)}]
      BY <2>4
    <2>6. /\ iter[b] = Counted(iter[b \ {Max(b)}], gaps[Max(b)])
          /\ f[b] = Counted(f[b \ {Max(b)}], gaps[Max(b)])
      BY <1>5, <1>6, <2>3
    <2> QED BY <2>5, <2>6
  <1>9. \A i \in 1 .. m : g[i] = Counted(g[i - 1], gaps[i])
    <2> SUFFICES ASSUME NEW i \in 1 .. m PROVE g[i] = Counted(g[i - 1], gaps[i])
      OBVIOUS
    <2>1. i - 1 \in 0 .. m
      OBVIOUS
    <2>2. g[i - 1] \in S
      BY <2>1
    <2> QED BY <1>2, <1>3, <2>2
  <1> QED BY <1>3, <1>7, <1>8, <1>9 DEF base

\* An estimate of the span is fresh at the end of the unit of time after t.
Covers(E, start, t) == \E e \in E : start <= e /\ e <= t /\ t + 1 - e <= Window

\* The time that availability counts is that in which no estimate is fresh.
LEMMA CoverageIs ==
    ASSUME NEW stream \in Streams, NEW start \in Nat, NEW end \in Nat, start <= end
    PROVE  Availability(stream, start, end).uncovered
             = Cardinality({t \in start .. end - 1 : ~Covers(Heard(stream), start, t)})
  <1> DEFINE E == Heard(stream)
             I == {e \in E : start <= e /\ e <= end}
             lines == {l \in DOMAIN stream :
                          start <= stream[l].stamp /\ stream[l].stamp <= end}
             s == StampsOf(stream, Ascending(stream, lines))
             k == Cardinality(lines)
             b == <<start>> \o s \o <<end>>
             gaps == Gaps(stream, start, end)
             Stale(t) == ~Covers(E, start, t)
             U(i) == {t \in start .. b[i + 1] - 1 : Stale(t)}
             New(i) == {t \in b[i] .. b[i + 1] - 1 : Stale(t)}
  <1>1. I \in SUBSET Nat
    BY HeardTyped
  <1>2. /\ k \in Nat /\ s \in [1 .. k -> I] /\ s \in Seq(Nat) /\ Len(s) = k
        /\ \A i, j \in 1 .. k : i < j => s[i] <= s[j]
        /\ \A x \in I : \E i \in 1 .. k : s[i] = x
    <2> DEFINE L == Ascending(stream, lines)
    <2>1. lines \in SUBSET (DOMAIN stream)
      OBVIOUS
    <2>2. /\ \A l \in lines : stream[l].stamp \in I
          /\ \A x \in I : \E l \in lines : stream[l].stamp = x
      BY HeardTyped
    <2> HIDE DEF lines, I
    <2>3. Listed(L, stream, lines)
      BY <2>1, AscendingIs
    <2> HIDE DEF L
    <2>4. InOrder(L, stream, lines)
      BY <2>1, <2>3, StampsAscend
    <2>5. /\ k \in Nat /\ L \in [1 .. k -> lines]
          /\ \A l \in lines : \E i \in 1 .. k : L[i] = l
      BY <2>3 DEF Listed
    <2>6. /\ s \in [1 .. k -> Nat] /\ \A i \in 1 .. k : s[i] = stream[L[i]].stamp
          /\ \A i, j \in 1 .. k : i < j => s[i] <= s[j]
      BY <2>4 DEF InOrder, L
    <2> HIDE DEF s, k
    <2>7. s \in [1 .. k -> I]
      BY <2>2, <2>5, <2>6
    <2>8. s \in Seq(Nat) /\ Len(s) = k
      BY <2>5, <2>6
    <2>9. ASSUME NEW x \in I PROVE \E i \in 1 .. k : s[i] = x
      <3>1. PICK l \in lines : stream[l].stamp = x
        BY <2>2
      <3>2. PICK i \in 1 .. k : L[i] = l
        BY <2>5
      <3> QED BY <2>6, <3>1, <3>2
    <2> QED BY <2>5, <2>6, <2>7, <2>8, <2>9
  <1> HIDE DEF s, k
  <1>3. \A i \in 1 .. k : s[i] \in I /\ s[i] \in Nat /\ start <= s[i] /\ s[i] <= end
    BY <1>2
  <1>4. /\ b \in Seq(Nat) /\ Len(b) = k + 2
        /\ b[1] = start /\ b[k + 2] = end /\ \A i \in 1 .. k : b[i + 1] = s[i]
    <2>1. \A u, v \in Seq(Nat) :
             /\ u \o v \in Seq(Nat) /\ Len(u \o v) = Len(u) + Len(v)
             /\ \A j \in 1 .. Len(u) : (u \o v)[j] = u[j]
             /\ \A j \in 1 .. Len(v) : (u \o v)[Len(u) + j] = v[j]
      OBVIOUS
    <2>2. /\ <<start>> \in Seq(Nat) /\ <<end>> \in Seq(Nat)
          /\ Len(<<start>>) = 1 /\ Len(<<end>>) = 1
          /\ <<start>>[1] = start /\ <<end>>[1] = end
      OBVIOUS
    <2> DEFINE one == <<start>>
               two == <<end>>
               half == one \o s
    <2> HIDE DEF one, two
    <2>3. /\ half \in Seq(Nat) /\ Len(half) = 1 + k /\ half[1] = start
          /\ \A j \in 1 .. k : half[1 + j] = s[j]
      BY <1>2, <2>1, <2>2 DEF one
    <2> HIDE DEF half
    <2>4. /\ half \o two \in Seq(Nat) /\ Len(half \o two) = k + 2
          /\ \A j \in 1 .. 1 + k : (half \o two)[j] = half[j]
          /\ (half \o two)[(1 + k) + 1] = end
      BY <1>2, <2>1, <2>2, <2>3 DEF two
    <2>5. b = half \o two
      BY DEF half, one, two
    <2> HIDE DEF b
    <2>6. \A i \in 1 .. k : i + 1 \in 1 .. 1 + k /\ i + 1 = 1 + i
      BY <1>2
    <2>7. (1 + k) + 1 = k + 2 /\ 1 \in 1 .. 1 + k
      BY <1>2
    <2> QED BY <2>3, <2>4, <2>5, <2>6, <2>7
  <1>5. gaps = [i \in 1 .. k + 1 |-> [length |-> b[i + 1] - b[i], first |-> i = 1]]
    <2>1. gaps = [i \in 1 .. Len(b) - 1 |-> [length |-> b[i + 1] - b[i], first |-> i = 1]]
      BY DEF Gaps, s
    <2>2. Len(b) - 1 = k + 1
      BY <1>2, <1>4
    <2> QED BY <2>1, <2>2
  <1> HIDE DEF b, gaps
  <1>6. \A i \in 1 .. k + 2 : /\ b[i] \in Nat /\ start <= b[i] /\ b[i] <= end
                              /\ i = 1 \/ i = k + 2 \/ (i - 1 \in 1 .. k /\ b[i] = s[i - 1])
    <2> SUFFICES ASSUME NEW i \in 1 .. k + 2
                 PROVE  /\ b[i] \in Nat /\ start <= b[i] /\ b[i] <= end
                        /\ i = 1 \/ i = k + 2 \/ (i - 1 \in 1 .. k /\ b[i] = s[i - 1])
      OBVIOUS
    <2>1. i = 1 \/ i = k + 2 \/ (i - 1 \in 1 .. k /\ (i - 1) + 1 = i)
      BY <1>2
    <2>2. CASE i = 1 \/ i = k + 2
      BY <1>4, <2>2
    <2>3. CASE i - 1 \in 1 .. k /\ (i - 1) + 1 = i
      <3>1. b[(i - 1) + 1] = s[i - 1]
        BY <1>4, <2>3
      <3>2. b[i] = s[i - 1]
        BY <2>3, <3>1
      <3> QED BY <1>3, <2>3, <3>2
    <2> QED BY <2>1, <2>2, <2>3
  <1>7. \A i, j \in 1 .. k + 2 : i <= j => b[i] <= b[j]
    <2> SUFFICES ASSUME NEW i \in 1 .. k + 2, NEW j \in 1 .. k + 2, i < j PROVE b[i] <= b[j]
      BY <1>6
    <2>1. CASE i = 1 \/ j = k + 2
      BY <1>4, <1>6, <2>1
    <2>2. CASE ~(i = 1 \/ j = k + 2)
      <3>1. i - 1 \in 1 .. k /\ j - 1 \in 1 .. k /\ i - 1 < j - 1
        BY <1>2, <2>2
      <3>2. b[i] = s[i - 1] /\ b[j] = s[j - 1]
        BY <1>6, <2>2, <3>1
      <3> QED BY <1>2, <1>3, <3>1, <3>2
    <2> QED BY <2>1, <2>2
  <1>8. \A e \in I : \E j \in 2 .. k + 1 : b[j] = e
    <2> SUFFICES ASSUME NEW e \in I PROVE \E j \in 2 .. k + 1 : b[j] = e
      OBVIOUS
    <2>1. PICK i \in 1 .. k : s[i] = e
      BY <1>2
    <2>2. i + 1 \in 2 .. k + 1
      BY <1>2
    <2> QED BY <1>4, <2>1, <2>2
  <1>9. \A t \in start .. end - 1 :
           Covers(E, start, t) <=> \E e \in I : e <= t /\ t + 1 - e <= Window
    <2> SUFFICES ASSUME NEW t \in start .. end - 1
                 PROVE  Covers(E, start, t) <=> \E e \in I : e <= t /\ t + 1 - e <= Window
      OBVIOUS
    <2>1. \A e \in E : e \in Nat
      BY HeardTyped
    <2> HIDE DEF E
    <2>2. \A e \in E : e <= t => e <= end
      BY <2>1
    <2> QED BY <2>2 DEF Covers
  <1> DEFINE Amount(i) == IF i = 1 THEN b[i + 1] - b[i]
                          ELSE IF b[i + 1] - b[i] > Window THEN b[i + 1] - b[i] - Window ELSE 0
  <1>10. ASSUME NEW i \in 1 .. k + 1 PROVE Cardinality(New(i)) = Amount(i)
    <2>1. /\ i \in 1 .. k + 2 /\ i + 1 \in 1 .. k + 2 /\ i <= i + 1
      BY <1>2
    <2>2. /\ b[i] \in Nat /\ b[i + 1] \in Nat /\ b[i] <= b[i + 1] /\ start <= b[i] /\ b[i + 1] <= end
      BY <1>6, <1>7, <2>1
    <2>3. Window \in Nat \ {0}
      BY AlignerAssumption
    <2>4. \A t \in b[i] .. b[i + 1] - 1 : t \in start .. end - 1
      BY <2>2
    <2>5. CASE i = 1
      <3>1. ASSUME NEW t \in b[i] .. b[i + 1] - 1 PROVE Stale(t)
        <4>1. t \in start .. end - 1 /\ t < b[i + 1]
          BY <2>2, <2>4
        <4>2. ASSUME NEW e \in I PROVE ~(e <= t)
          <5>1. PICK j \in 2 .. k + 1 : b[j] = e
            BY <1>8
          <5>2. j \in 1 .. k + 2 /\ i + 1 <= j
            BY <1>2, <2>5
          <5>3. b[i + 1] <= e
            BY <1>7, <2>1, <5>1, <5>2
          <5>4. e \in Nat
            BY <1>1
          <5> QED BY <2>2, <4>1, <5>3, <5>4
        <4> HIDE DEF I
        <4> QED BY <1>9, <4>1, <4>2
      <3>2. New(i) = b[i] .. b[i + 1] - 1
        <4> HIDE DEF Stale
        <4> QED BY <3>1
      <3>3. b[i] \in Int /\ b[i + 1] - 1 \in Int
        BY <2>2
      <3>4. Cardinality(b[i] .. b[i + 1] - 1)
              = IF b[i] > b[i + 1] - 1 THEN 0 ELSE (b[i + 1] - 1) - b[i] + 1
        BY <3>3, FS_Interval
      <3>5. Amount(i) = b[i + 1] - b[i]
        BY <2>5
      <3>6. Cardinality(b[i] .. b[i + 1] - 1) = b[i + 1] - b[i]
        BY <2>2, <3>4
      <3> HIDE DEF New, Amount
      <3> QED BY <3>2, <3>5, <3>6
    <2>6. CASE i # 1
      <3>0. b[i] \in I
        <4>1. i - 1 \in 1 .. k /\ i # k + 2
          BY <1>2, <2>6
        <4>2. b[i] = s[i - 1]
          BY <1>6, <2>1, <2>6, <4>1
        <4> QED BY <1>3, <4>1, <4>2
      <3>1. ASSUME NEW t \in b[i] .. b[i + 1] - 1 PROVE Stale(t) <=> t + 1 - b[i] > Window
        <4>1. t \in start .. end - 1 /\ t < b[i + 1] /\ t \in Nat /\ b[i] <= t
          BY <2>2, <2>4
        <4>2. ASSUME NEW e \in I, e <= t PROVE e <= b[i] /\ e \in Nat
          <5>1. PICK j \in 2 .. k + 1 : b[j] = e
            BY <1>8
          <5>2. e \in Nat
            BY <1>1
          <5>3. j \in 1 .. k + 2
            BY <1>2
          <5>4. ~(i + 1 <= j)
            <6> SUFFICES ASSUME i + 1 <= j PROVE FALSE
              OBVIOUS
            <6>1. b[i + 1] <= e
              BY <1>7, <2>1, <5>1, <5>3
            <6> QED BY <2>2, <4>1, <4>2, <5>2, <6>1
          <5>5. j <= i
            BY <1>2, <5>4
          <5> QED BY <1>7, <2>1, <5>1, <5>2, <5>3, <5>5
        <4>3. ASSUME t + 1 - b[i] > Window, NEW e \in I, e <= t PROVE ~(t + 1 - e <= Window)
          BY <2>2, <2>3, <4>1, <4>2, <4>3
        <4>4. ASSUME ~(t + 1 - b[i] > Window) PROVE b[i] <= t /\ t + 1 - b[i] <= Window
          BY <2>2, <2>3, <4>1, <4>4
        <4> HIDE DEF I
        <4> QED BY <1>9, <3>0, <4>1, <4>3, <4>4
      <3>2. New(i) = b[i] + Window .. b[i + 1] - 1
        <4>1. ASSUME NEW t \in Int
              PROVE  (t \in b[i] .. b[i + 1] - 1 /\ t + 1 - b[i] > Window)
                       <=> t \in b[i] + Window .. b[i + 1] - 1
          BY <2>2, <2>3
        <4>2. New(i) = {t \in b[i] .. b[i + 1] - 1 : t + 1 - b[i] > Window}
          <5> HIDE DEF Stale
          <5> QED BY <3>1
        <4> QED BY <4>1, <4>2
      <3>3. b[i] + Window \in Int /\ b[i + 1] - 1 \in Int
        BY <2>2, <2>3
      <3>4. Cardinality(b[i] + Window .. b[i + 1] - 1)
              = IF b[i] + Window > b[i + 1] - 1 THEN 0
                ELSE (b[i + 1] - 1) - (b[i] + Window) + 1
        BY <3>3, FS_Interval
      <3> HIDE DEF New
      <3> QED BY <2>2, <2>3, <2>6, <3>2, <3>4
    <2> QED BY <2>5, <2>6
  <1>11. ASSUME NEW i \in 1 .. k + 1
         PROVE  /\ IsFiniteSet(U(i - 1)) /\ Cardinality(U(i - 1)) \in Nat
                /\ Cardinality(U(i)) = Cardinality(U(i - 1)) + Amount(i)
    <2>1. /\ i \in 1 .. k + 2 /\ i + 1 \in 1 .. k + 2 /\ i <= i + 1 /\ (i - 1) + 1 = i
      BY <1>2
    <2>2. /\ b[i] \in Nat /\ b[i + 1] \in Nat /\ b[i] <= b[i + 1] /\ start <= b[i] /\ b[i + 1] <= end
      BY <1>6, <1>7, <2>1
    <2> DEFINE old == {t \in start .. b[i] - 1 : Stale(t)}
    <2>3. U(i - 1) = old
      BY <2>1
    <2> HIDE DEF Stale
    <2>4. U(i) = old \cup New(i) /\ old \cap New(i) = {}
      <3>1. \A t \in Int : /\ t \in start .. b[i + 1] - 1
                                <=> t \in start .. b[i] - 1 \/ t \in b[i] .. b[i + 1] - 1
                           /\ ~(t \in start .. b[i] - 1 /\ t \in b[i] .. b[i + 1] - 1)
        BY <2>2
      <3> QED BY <3>1
    <2>5. IsFiniteSet(old) /\ IsFiniteSet(New(i))
      <3>1. IsFiniteSet(start .. b[i] - 1) /\ IsFiniteSet(b[i] .. b[i + 1] - 1)
        <4>1. b[i] - 1 \in Int /\ b[i + 1] - 1 \in Int /\ b[i] \in Int /\ start \in Int
          BY <2>2
        <4> QED BY <4>1, FS_Interval
      <3> QED BY <3>1, FS_Subset
    <2> HIDE DEF old, New, U, Amount
    <2>6. Cardinality(old) \in Nat /\ Cardinality(New(i)) \in Nat
      BY <2>5, FS_CardinalityType
    <2>7. Cardinality(old \cup New(i))
            = Cardinality(old) + Cardinality(New(i)) - Cardinality(old \cap New(i))
      BY <2>5, FS_Union
    <2>8. Cardinality(old \cap New(i)) = 0
      BY <2>4, FS_EmptySet
    <2>9. Cardinality(U(i)) = Cardinality(old) + Cardinality(New(i))
      BY <2>4, <2>6, <2>7, <2>8
    <2> QED BY <1>10, <2>3, <2>5, <2>6, <2>9
  <1>12. gaps \in [1 .. k + 1 -> Stretches]
    <2>1. \A i \in 1 .. k + 1 : i \in 1 .. k + 2 /\ i + 1 \in 1 .. k + 2
      BY <1>2
    <2>2. \A i \in 1 .. k + 1 : b[i + 1] - b[i] \in Int
      BY <1>6, <2>1
    <2> QED BY <1>5, <2>2 DEF Stretches
  <1>13. PICK g \in [0 .. k + 1 -> Coverages] :
              /\ g[0] = NothingCounted /\ FoldLeft(Counted, NothingCounted, gaps) = g[k + 1]
              /\ \A i \in 1 .. k + 1 : g[i] = Counted(g[i - 1], gaps[i])
    <2>1. k + 1 \in Nat
      BY <1>2
    <2> QED BY <1>12, <2>1, CountedIs
  <1> DEFINE G == {i \in 0 .. k + 1 : g[i].uncovered = Cardinality(U(i))}
  <1>14. 0 \in G
    <2>1. 0 \in 0 .. k + 1 /\ g[0].uncovered = 0
      BY <1>2, <1>13 DEF NothingCounted
    <2>2. U(0) = {}
      <3>1. b[0 + 1] = start /\ start .. start - 1 = {}
        BY <1>4
      <3> QED BY <3>1
    <2> QED BY <2>1, <2>2, FS_EmptySet
  <1> HIDE DEF U, New
  <1>15. ASSUME NEW i \in 1 .. k + 1, i - 1 \in G PROVE i \in G
    <2>1. i - 1 \in 0 .. k + 1 /\ i \in 0 .. k + 1
      BY <1>2
    <2>2. g[i].uncovered = g[i - 1].uncovered + Amount(i)
      <3>1. gaps[i].length = b[i + 1] - b[i] /\ (gaps[i].first <=> i = 1)
        BY <1>5
      <3>2. g[i] = Counted(g[i - 1], gaps[i])
        BY <1>13
      <3>3. g[i].uncovered = g[i - 1].uncovered +
               (IF gaps[i].first THEN gaps[i].length
                ELSE IF gaps[i].length > Window THEN gaps[i].length - Window ELSE 0)
        BY <3>2 DEF Counted
      <3>4. CASE i = 1
        BY <3>1, <3>3, <3>4
      <3>5. CASE i # 1
        BY <3>1, <3>3, <3>5
      <3> QED BY <3>4, <3>5
    <2>3. g[i - 1].uncovered = Cardinality(U(i - 1))
      BY <1>15
    <2> HIDE DEF Amount
    <2> QED BY <1>11, <2>1, <2>2, <2>3
  <1>16. k + 1 \in G
    <2> HIDE DEF G
    <2>1. k + 1 \in Nat /\ k + 1 \in 0 .. k + 1
      BY <1>2
    <2> QED BY <1>14, <1>15, <2>1, Onwards
  <1>17. U(k + 1) = {t \in start .. end - 1 : ~Covers(E, start, t)}
    <2>1. b[(k + 1) + 1] = end
      <3>1. (k + 1) + 1 = k + 2
        BY <1>2
      <3> QED BY <1>4, <3>1
    <2> QED BY <2>1 DEF U
  <1>18. Availability(stream, start, end) = g[k + 1]
    BY <1>13 DEF Availability, NothingCounted, gaps
  <1> QED BY <1>16, <1>17, <1>18

----------------------------------------------------------------------------

(***************************************************************************)
(* The score                                                               *)
(***************************************************************************)

\* What a score is of.
ScoreRight(r, s) ==
    /\ \E a : /\ AbsoluteRight(r, a)
              /\ s.sample_count = a.samples /\ s.scored_count = a.errors
              /\ s.ate_sum = a.sum /\ s.ate_maximum = a.maximum
    /\ \E a : /\ RelativeRight(r, a)
              /\ s.rpe_count = a.errors /\ s.rpe_sum = a.sum
              /\ s.rpe_maximum = a.maximum
    /\ s.uncovered =
          Cardinality({t \in Min(Heard(r.truth)) .. Max(Heard(r.truth)) - 1 : ~Fresh(r, t)})

\* score_recording returns that.
LEMMA ScoredIs ==
    ASSUME NEW r, r.truth \in Streams, r.estimates \in Streams,
           ~(Cardinality(Heard(r.truth)) < 2)
    PROVE  ScoreRight(r, Scored(r))
  <1> DEFINE E == Heard(r.estimates)
             H == Heard(r.truth)
             L == SortedLines(r.truth)
             T == SortedStamps(r.truth)
             K == SortedStamps(r.estimates)
             pairs == AlignAll(K, T)
             ate == Summarized(AbsoluteErrors(r, L, pairs))
             rpe == Summarized(RelativeErrors(r, L, pairs))
             coverage == Availability(r.estimates, Min(H), Max(H))
  <1>1. pairs = PairsOf(r)
    <2> DEFINE m == Len(r.truth)
               n == Len(r.estimates)
    <2>1. Sorts(r.truth, L, T) /\ Sorts(r.estimates, SortedLines(r.estimates), K)
      BY SortedIs
    <2>2. m \in Nat /\ n \in Nat /\ E \in SUBSET Nat
      BY LinesTyped, HeardTyped
    <2> HIDE DEF L, T, K
    <2>3. T \in [1 .. m -> Nat] /\ \A i, j \in 1 .. m : i < j => T[i] <= T[j]
      BY <2>1 DEF Sorts
    <2>4. /\ K \in [1 .. n -> E] /\ \A i, j \in 1 .. n : i < j => K[i] <= K[j]
          /\ \A h \in E : \E i \in 1 .. n : K[i] = h
      BY <2>1 DEF Sorts
    <2> HIDE DEF m, n, E
    <2>5. AlignAll(K, T) = Aligned(E, m, T)
      BY <2>2, <2>3, <2>4, AlignAllIs
    <2> QED BY <2>5 DEF PairsOf, m, E, T
  <1>2. AbsoluteRight(r, ate) /\ RelativeRight(r, rpe)
    <2> HIDE DEF pairs
    <2> QED BY <1>1, AbsoluteIs, RelativeIs
  <1>3. coverage.uncovered = Cardinality({t \in Min(H) .. Max(H) - 1 : ~Fresh(r, t)})
    <2>1. H \in SUBSET Nat /\ IsFiniteSet(H) /\ ~(Cardinality(H) < 2)
      BY HeardTyped
    <2>2. H # {}
      BY <2>1, FS_EmptySet
    <2>3. Min(H) \in Nat /\ Max(H) \in Nat /\ Min(H) <= Max(H)
      <3> HIDE DEF H
      <3>1. \A y \in H : y \in Nat
        BY <2>1
      <3> QED BY <2>1, <2>2, <3>1, EndsAre
    <2> DEFINE lo == Min(H)
               hi == Max(H)
    <2>4. \A t : Fresh(r, t) <=> Covers(E, lo, t)
      BY DEF Fresh, Covers
    <2> HIDE DEF lo, hi, E
    <2>5. Availability(r.estimates, lo, hi).uncovered
            = Cardinality({t \in lo .. hi - 1 : ~Covers(E, lo, t)})
      BY <2>3, CoverageIs DEF lo, hi, E
    <2>6. {t \in lo .. hi - 1 : ~Covers(E, lo, t)} = {t \in lo .. hi - 1 : ~Fresh(r, t)}
      BY <2>4
    <2> QED BY <2>5, <2>6 DEF lo, hi
  <1>4. /\ Scored(r).sample_count = ate.samples /\ Scored(r).scored_count = ate.errors
        /\ Scored(r).ate_sum = ate.sum /\ Scored(r).ate_maximum = ate.maximum
        /\ Scored(r).rpe_count = rpe.errors /\ Scored(r).rpe_sum = rpe.sum
        /\ Scored(r).rpe_maximum = rpe.maximum
        /\ Scored(r).uncovered = coverage.uncovered
    BY DEF Scored, SortedLines, SortedStamps
  <1> HIDE DEF ate, rpe, coverage
  <1> QED BY <1>2, <1>3, <1>4 DEF ScoreRight, H

----------------------------------------------------------------------------

(***************************************************************************)
(* The property                                                            *)
(***************************************************************************)

\* What is scored is right, and what is within is inside every bound.
RescoreInv ==
    /\ recording \in Recordings /\ bounds \in BoundsFiles
    /\ verdict \in {"scored", "within"} =>
          /\ ScoreRight(recording, result)
          /\ verdict = "within" =>
                \A field \in DOMAIN bounds : Inside(result[field], bounds[field])

\* Nothing is scored at first.
LEMMA RescoreInvInit == RescoreInit => RescoreInv
  BY DEF RescoreInit, RescoreInv

\* Scoring gets it right, and comparing keeps it.
LEMMA RescoreInvStep == RescoreInv /\ [RescoreNext]_rescoreVars => RescoreInv'
  <1> SUFFICES ASSUME RescoreInv, [RescoreNext]_rescoreVars PROVE RescoreInv'
    OBVIOUS
  <1>1. CASE ScoreRecording
    <2>1. recording' = recording /\ bounds' = bounds /\ recording \in Recordings
          /\ bounds \in BoundsFiles
      BY <1>1 DEF ScoreRecording, RescoreInv
    <2>2. CASE Cardinality(Heard(recording.truth)) < 2
      <3>1. verdict' = "error"
        BY <1>1, <2>2 DEF ScoreRecording
      <3> QED BY <2>1, <3>1 DEF RescoreInv
    <2>3. CASE ~(Cardinality(Heard(recording.truth)) < 2)
      <3>1. verdict' = "scored" /\ result' = Scored(recording)
        BY <1>1, <2>3 DEF ScoreRecording
      <3>2. recording.truth \in Streams /\ recording.estimates \in Streams
        BY <2>1, RescoreAssumption
      <3>3. ScoreRight(recording, Scored(recording))
        BY <2>3, <3>2, ScoredIs
      <3> QED BY <2>1, <3>1, <3>3 DEF RescoreInv
    <2> QED BY <2>2, <2>3
  <1>2. CASE Compare
    <2>1. /\ recording' = recording /\ bounds' = bounds /\ result' = result
          /\ verdict = "scored"
      BY <1>2 DEF Compare
    <2>2. ScoreRight(recording, result) /\ recording \in Recordings /\ bounds \in BoundsFiles
      BY <2>1 DEF RescoreInv
    <2>3. verdict' = "within" =>
             \A field \in DOMAIN bounds : Inside(result[field], bounds[field])
      BY <1>2 DEF Compare
    <2> QED BY <2>1, <2>2, <2>3 DEF RescoreInv
  <1>3. CASE UNCHANGED rescoreVars
    BY <1>3 DEF rescoreVars, RescoreInv
  <1> QED BY <1>1, <1>2, <1>3 DEF RescoreNext

\* Of a right score the property says what it is.
LEMMA RightIsOfTheRun ==
    ASSUME RescoreInv
    PROVE  ScoreIsOfTheRun
  <1> SUFFICES ASSUME verdict = "scored" PROVE ScoreIsOfTheRun
    BY DEF ScoreIsOfTheRun
  <1> DEFINE r == recording
             samples == DOMAIN r.truth
             spoken == {t \in samples : Spoken(r, t)}
             moved == {t \in spoken : Later(r, t) # {} /\ Then(r, t) \in spoken}
             off == [t \in spoken |-> Distance(Off(r, t), 0)]
             drift == [t \in moved |-> Distance(Off(r, Then(r, t)), Off(r, t))]
             far == {Distance(Off(r, t), 0) : t \in spoken}
  <1>1. ScoreRight(r, result) /\ r.truth \in Streams /\ r.estimates \in Streams
    BY RescoreAssumption DEF RescoreInv
  <1>2. \A t \in spoken : Off(r, t) \in Int /\ Distance(Off(r, t), 0) \in Nat
    BY <1>1, OffTyped
  <1>3. PICK a : /\ AbsoluteRight(r, a)
                 /\ result.sample_count = a.samples /\ result.scored_count = a.errors
                 /\ result.ate_sum = a.sum /\ result.ate_maximum = a.maximum
    BY <1>1 DEF ScoreRight
  <1>4. PICK b : /\ RelativeRight(r, b)
                 /\ result.rpe_count = b.errors /\ result.rpe_sum = b.sum
                 /\ result.rpe_maximum = b.maximum
    BY <1>1 DEF ScoreRight
  <1>5. SummaryOf(a, Len(r.truth), spoken, off)
    BY <1>3 DEF AbsoluteRight
  <1>6. Moved(r) = moved
    <2>1. \A t : t \in Moved(r) <=> t \in moved
      BY DEF Moved
    <2> QED BY <2>1
  <1>7. PICK n \in Nat : SummaryOf(b, n, moved, drift)
    <2>1. PICK n \in Nat : SummaryOf(b, n, Moved(r),
              [t \in Moved(r) |-> Distance(Off(r, Then(r, t)), Off(r, t))])
      BY <1>4 DEF RelativeRight
    <2>2. SummaryOf(b, n, moved, drift)
      BY <1>6, <2>1, Zenon
    <2> QED BY <2>2
  <1> HIDE DEF r
  <1>8. /\ result.sample_count = Len(r.truth)
        /\ result.scored_count = Cardinality(spoken)
        /\ result.ate_sum = FoldFunction(+, 0, off)
        /\ result.rpe_count = Cardinality(moved)
        /\ result.rpe_sum = FoldFunction(+, 0, drift)
    <2> HIDE DEF spoken, moved, off, drift
    <2> QED BY <1>3, <1>4, <1>5, <1>7 DEF SummaryOf
  <1>9. ASSUME result.ate_maximum # NoScore PROVE result.ate_maximum = Max(far)
    <2>1. /\ \E x \in spoken : a.maximum = off[x]
          /\ \A x \in spoken : off[x] <= a.maximum
      <3> HIDE DEF spoken, off
      <3> QED BY <1>3, <1>5, <1>9 DEF SummaryOf
    <2>2. PICK x \in spoken : a.maximum = off[x]
      BY <2>1
    <2>3. a.maximum \in far
      BY <2>2
    <2>4. \A y \in far : y \in Int /\ y <= a.maximum
      BY <1>2, <2>1
    <2> HIDE DEF far
    <2>5. Max(far) = a.maximum
      BY <2>3, <2>4, MaxIs
    <2> QED BY <1>3, <2>5
  <1>10. ASSUME \A t, u \in spoken : Off(r, t) = Off(r, u)
         PROVE  result.rpe_maximum \in {0, NoScore}
    <2>1. moved = {} => b.maximum = NoScore
      <3> HIDE DEF moved, drift
      <3> QED BY <1>7 DEF SummaryOf
    <2>2. ASSUME moved # {} PROVE b.maximum = 0
      <3>1. PICK x \in moved : b.maximum = drift[x]
        <4> HIDE DEF moved, drift
        <4> QED BY <1>7, <2>2 DEF SummaryOf
      <3>2. x \in spoken /\ Then(r, x) \in spoken
        OBVIOUS
      <3>3. Off(r, Then(r, x)) = Off(r, x) /\ Off(r, x) \in Int
        BY <1>2, <1>10, <3>2
      <3>4. drift[x] = Distance(Off(r, Then(r, x)), Off(r, x))
        OBVIOUS
      <3>5. Distance(Off(r, x), Off(r, x)) = 0
        BY <3>3 DEF Distance
      <3> QED BY <3>1, <3>3, <3>4, <3>5
    <2> QED BY <1>4, <2>1, <2>2
  <1>11. result.uncovered = Cardinality({t \in Min(Heard(r.truth)) .. Max(Heard(r.truth)) - 1 : ~Fresh(r, t)})
    BY <1>1 DEF ScoreRight
  <1> QED BY <1>8, <1>9, <1>10, <1>11 DEF ScoreIsOfTheRun, r

\* A bound that the maximum passes bounds every error there is, and there is one.
LEMMA InsideIsScored ==
    ASSUME RescoreInv
    PROVE  WithinMeansScored
  <1> DEFINE r == recording
             samples == DOMAIN r.truth
             spoken == {t \in samples : Spoken(r, t)}
             off == [t \in spoken |-> Distance(Off(r, t), 0)]
             limit == bounds.ate_maximum.limit
  <1> SUFFICES ASSUME verdict = "within", "ate_maximum" \in DOMAIN bounds,
                      bounds.ate_maximum.kind = "maximum"
               PROVE  /\ result.scored_count > 0
                      /\ \A t \in samples : Spoken(r, t) => Distance(Off(r, t), 0) <= limit
    BY DEF WithinMeansScored
  <1>1. /\ ScoreRight(r, result) /\ r.truth \in Streams /\ r.estimates \in Streams
        /\ limit \in Int /\ Inside(result.ate_maximum, bounds.ate_maximum)
    BY RescoreAssumption DEF RescoreInv
  <1>2. \A t \in spoken : Distance(Off(r, t), 0) \in Nat
    BY <1>1, OffTyped
  <1>3. result.ate_maximum # NoScore /\ result.ate_maximum <= limit
    BY <1>1 DEF Inside
  <1>4. PICK a : /\ AbsoluteRight(r, a)
                 /\ result.scored_count = a.errors /\ result.ate_maximum = a.maximum
    BY <1>1 DEF ScoreRight
  <1>5. SummaryOf(a, Len(r.truth), spoken, off)
    BY <1>4 DEF AbsoluteRight
  <1>6. /\ spoken # {} /\ a.errors = Cardinality(spoken) /\ Cardinality(spoken) \in Nat
        /\ \E x \in spoken : a.maximum = off[x]
        /\ \A x \in spoken : off[x] <= a.maximum
    <2> HIDE DEF spoken, off
    <2> QED BY <1>3, <1>4, <1>5 DEF SummaryOf
  <1>7. Cardinality(spoken) # 0
    <2>1. IsFiniteSet(spoken)
      BY <1>1, LinesTyped, FS_Subset
    <2> HIDE DEF spoken
    <2> QED BY <1>6, <2>1, FS_EmptySet
  <1>8. result.scored_count > 0
    <2> HIDE DEF spoken
    <2> QED BY <1>4, <1>6, <1>7
  <1>9. ASSUME NEW t \in spoken PROVE Distance(Off(r, t), 0) <= limit
    <2>1. off[t] \in Nat /\ off[t] <= a.maximum /\ a.maximum \in Nat
      BY <1>2, <1>6
    <2> QED BY <1>1, <1>3, <1>4, <2>1
  <1> QED BY <1>8, <1>9

\* Whatever is recorded and however it is bound: the score is that of the run by the
\* definitions, and what passes its bounds was scored.
THEOREM ScoringSoundHolds == RescoreSpec => []ScoringSound
  <1>1. RescoreInv => ScoringSound
    BY RightIsOfTheRun, InsideIsScored DEF ScoringSound
  <1> QED BY <1>1, RescoreInvInit, RescoreInvStep, PTL DEF RescoreSpec

=============================================================================
