---- MODULE PoseGraph ----
(***************************************************************************)
(* Who says where the car is.  A launch request is refused or becomes a     *)
(* graph (module Launch); in the graph the simulator publishes the truth    *)
(* and its drifting dead reckoning on two topics, racing_bringup's support  *)
(* node corrects the one by the other or composes what an estimator says,   *)
(* and racing_evaluation scores the pose that is driven on (module          *)
(* Aligner).  One single-threaded executor runs each node's callbacks.      *)
(*                                                                          *)
(* Abstractions: a sample is its stamp, the run it is of (a reset starts    *)
(* another) and how far the car has come in it; an estimator is external,   *)
(* and its map -> odom is not there yet, that of an untold start ("far") or *)
(* right ("near").  A topic is what was published on it: a reader of depth  *)
(* one, or best effort, may handle any message after the last it handled.   *)
(***************************************************************************)
EXTENDS Launch, Aligner, Planar

CONSTANTS
    Asked,            \* the requests made of the launch, among Requests
    NoRequest,        \* the request once it is answered
    NoGraph,          \* no node runs
    StartPoseRadius,  \* START_POSE_RADIUS, in steps of the car
    UntoldStarts,     \* how far from where the car starts an untold estimator
                      \* may take it to be
    Reseeds,          \* a reset may put a held car somewhere else
    MaxResets,        \* bound of the model
    MaxPublished      \* bound of the model: samples; the last one repeats

ASSUME PoseGraphAssumption ==
    /\ Asked \subseteq Requests
    /\ NoRequest \notin Requests
    /\ StartPoseRadius \in Nat
    /\ UntoldStarts \subseteq Int
    /\ Reseeds \in BOOLEAN
    /\ MaxResets \in Nat
    /\ MaxPublished \in Nat \ {0}

VARIABLES
    request,          \* the launch arguments; NoRequest once answered
    graph,            \* the parameters of the nodes that run; NoGraph
    frozen,           \* the simulator is held
    resets,           \* resets so far
    published,        \* /ground_truth/odom and /odom: the samples
    truth,            \* _latest_truth: an index of published, 0 none
    deadReckoning,    \* _latest_dead_reckoning
    initial,          \* the latched message on /initialpose
    sent,             \* _initial_pose_sent
    startPose,        \* _initial_pose_xy
    applied,          \* _start_pose_applied
    estimate,         \* the estimator's map -> odom in the TF buffer
    untold,           \* how far off that of an untold estimator is
    correction,       \* the support node's map -> odom, and its stamp
    composed,         \* history: the composed poses
    aligner,          \* _aligner
    scoredTruth,      \* samples the evaluator has handled
    scoredEstimate,   \* the last message of the estimate it has handled
    heard,            \* history: the stamps of those it did handle
    scores            \* history: /evaluation/localization_error

supportVars == <<truth, deadReckoning, initial, sent, startPose, applied,
                 correction, composed>>
simVars == <<frozen, resets, published>>
estimatorVars == <<estimate, untold>>
evaluationVars == <<aligner, scoredTruth, scoredEstimate, heard, scores>>
launchVars == <<request, graph>>
vars == <<launchVars, simVars, supportVars, estimatorVars, evaluationVars>>

NoPose == -1

NoCorrection == [stamp |-> -1]

Running == graph # NoGraph
Newest == published[Len(published)]

Init ==
    /\ request \in Asked
    /\ graph = NoGraph
    /\ frozen = FALSE
    /\ resets = 0
    /\ published = <<>>
    /\ truth = 0
    /\ deadReckoning = 0
    /\ initial = NoPose
    /\ sent = FALSE
    /\ startPose = NoPose
    /\ applied = FALSE
    /\ estimate = "none"
    /\ untold \in IF request.poseSource = "mola" THEN UntoldStarts ELSE {0}
    /\ correction = NoCorrection
    /\ composed = <<>>
    /\ aligner = NewAligner
    /\ scoredTruth = 0
    /\ scoredEstimate = 0
    /\ heard = {}
    /\ scores = <<>>

----------------------------------------------------------------------------

\* What of a graph the nodes of this module read while they run.
Roles(g) ==
    [world |-> g.world,
     rooted |-> Rooted(g),
     publishMapToOdom |-> g.publishMapToOdom,
     composes |-> g.composes,
     sendsInitialPose |-> g.sendsInitialPose,
     holds |-> g.holds,
     controllerOn |-> g.controllerOn,
     scoresComposed |-> g.estimateTopic = "composed",
     estimator |-> g.estimator]

\* The launch's answer: an error, or the nodes.
LaunchRun ==
    /\ request # NoRequest
    /\ request' = NoRequest
    /\ IF Accepted(request)
       THEN /\ graph' = Roles(Graph(request))
            /\ frozen' = Graph(request).held
       ELSE UNCHANGED <<graph, frozen>>
    /\ UNCHANGED <<resets, published>>
    /\ UNCHANGED supportVars
    /\ UNCHANGED estimatorVars
    /\ UNCHANGED evaluationVars

\* The car moves once its controller has a pose to drive on.
Driven == graph.controllerOn = "composed" => composed # <<>>

\* The simulator's _publish of a new sample: the first, or the next step.
Publish ==
    /\ Running
    /\ graph.world
    /\ Len(published) < MaxPublished
    /\ IF published = <<>>
       THEN published' = <<[stamp |-> 0, run |-> 0, moved |-> 0]>>
       ELSE /\ ~frozen
            /\ published' = Append(published,
                   [Newest EXCEPT !.stamp = @ + 1,
                                  !.moved = IF Driven THEN @ + 1 ELSE @])
    /\ UNCHANGED <<frozen, resets>>
    /\ UNCHANGED launchVars
    /\ UNCHANGED supportVars
    /\ UNCHANGED estimatorVars
    /\ UNCHANGED evaluationVars

\* ~/reset: a held simulator defines t = 0 again and is released; of the
\* same seed, it is the same sample.  A running one goes on counting.
Reset ==
    /\ published # <<>>
    /\ Len(published) < MaxPublished
    /\ resets < MaxResets
    /\ resets' = resets + 1
    /\ frozen' = FALSE
    /\ published' = Append(published,
           IF frozen
           THEN [Newest EXCEPT !.run = IF Reseeds THEN @ + 1 ELSE @]
           ELSE [stamp |-> Newest.stamp + 1, run |-> Newest.run + 1,
                 moved |-> 0])
    /\ UNCHANGED launchVars
    /\ UNCHANGED supportVars
    /\ UNCHANGED estimatorVars
    /\ UNCHANGED evaluationVars

----------------------------------------------------------------------------

\* The messages a reader of depth one may handle next.  A held simulator,
\* and one at the bound of the model, repeats its last.
Handleable(last) ==
    {j \in DOMAIN published :
        \/ j > last
        \/ j = Len(published) /\ (frozen \/ Len(published) = MaxPublished)}

\* _planar_pose of the two messages of a sample: the car turns as it goes, and
\* the dead reckoning drifts with how far it has come.
TruthOf(sample) == Planar(sample.moved, sample.run, sample.moved)

DeadReckoningOf(sample) ==
    Planar(2 * sample.moved, sample.run + sample.moved, 2 * sample.moved)

\* Mutant of PublishCorrection: the latest of each, whatever their stamps.
MutantPublishCorrection(t, d) ==
    IF graph.publishMapToOdom /\ t # 0 /\ d # 0
    THEN correction' = [stamp |-> published[t].stamp,
                        pose |-> PlanarCorrection(TruthOf(published[t]),
                                     DeadReckoningOf(published[d]))]
    ELSE UNCHANGED correction

\* _publish_correction
PublishCorrection(t, d) ==
    IF /\ graph.publishMapToOdom
       /\ t # 0 /\ d # 0
       /\ published[t].stamp = published[d].stamp
    THEN correction' = [stamp |-> published[t].stamp,
                        pose |-> PlanarCorrection(TruthOf(published[t]),
                                     DeadReckoningOf(published[d]))]
    ELSE UNCHANGED correction

\* _publish_initial_pose: the first true pose, once.
PublishInitialPose(t) ==
    IF graph.sendsInitialPose /\ ~sent
    THEN /\ sent' = TRUE
         /\ initial' = published[t].moved
         /\ startPose' = published[t].moved
    ELSE UNCHANGED <<sent, initial, startPose>>

\* _on_ground_truth
HandleTruth ==
    /\ \E t \in Handleable(truth) :
          /\ truth' = t
          /\ PublishInitialPose(t)
          /\ PublishCorrection(t, deadReckoning)
    /\ UNCHANGED <<deadReckoning, applied, composed>>
    /\ UNCHANGED estimatorVars
    /\ UNCHANGED launchVars
    /\ UNCHANGED simVars
    /\ UNCHANGED evaluationVars

Apart(a, b) == IF a > b THEN a - b ELSE b - a

\* Where the composed pose is: off by the untold start as long as the
\* estimator has not been told.
SaidAt(d) == published[d].moved + (IF estimate = "far" THEN untold ELSE 0)

\* The composed pose is within START_POSE_RADIUS of the start pose: a distance
\* alone, "a plausibility gate, not proof MOLA applied anything".
AtStartPose(d) ==
    /\ startPose # NoPose
    /\ Apart(SaidAt(d), startPose) <= StartPoseRadius

\* Mutant of Passes: with no start pose yet there is nothing to wait for.
MutantPasses(d) ==
    \/ ~graph.holds
    \/ applied
    \/ startPose = NoPose
    \/ AtStartPose(d)

\* The hold of _publish_composed: over once the start pose is applied.
Passes(d) ==
    \/ ~graph.holds
    \/ applied
    \/ AtStartPose(d)

\* _publish_composed; a message equal to the last is left out.
PublishComposed(d) ==
    IF graph.composes /\ estimate # "none" /\ Passes(d)
    THEN LET pose == [stamp |-> published[d].stamp, frame |-> estimate]
         IN /\ applied' = graph.holds
            /\ composed' = IF composed # <<>> /\ Last(composed) = pose
                           THEN composed ELSE Append(composed, pose)
    ELSE UNCHANGED <<applied, composed>>

\* _on_dead_reckoning
HandleDeadReckoning ==
    /\ \E d \in Handleable(deadReckoning) :
          /\ deadReckoning' = d
          /\ PublishCorrection(truth, d)
          /\ PublishComposed(d)
    /\ UNCHANGED <<truth, initial, sent, startPose>>
    /\ UNCHANGED estimatorVars
    /\ UNCHANGED launchVars
    /\ UNCHANGED simVars
    /\ UNCHANGED evaluationVars

\* _on_initial_pose: what is latched on the topic, by this node or by hand.
HandleInitialPose ==
    /\ initial # NoPose
    /\ startPose # initial
    /\ startPose' = initial
    /\ UNCHANGED <<truth, deadReckoning, initial, sent, applied, correction,
                   composed>>
    /\ UNCHANGED launchVars
    /\ UNCHANGED simVars
    /\ UNCHANGED estimatorVars
    /\ UNCHANGED evaluationVars

\* RViz's 2D Pose Estimate: the car is where the operator says.  Bound of
\* the model: before the support node's own start pose.
PlaceByHand ==
    /\ Running
    /\ graph.sendsInitialPose
    /\ ~sent
    /\ published # <<>>
    /\ initial' = Newest.moved
    /\ UNCHANGED <<truth, deadReckoning, sent, startPose, applied, correction,
                   composed>>
    /\ UNCHANGED launchVars
    /\ UNCHANGED simVars
    /\ UNCHANGED estimatorVars
    /\ UNCHANGED evaluationVars

\* The estimator: slam_toolbox defines map as where it starts, amcl says
\* nothing until it is told, and MOLA says where it would be untold until the
\* scan after it is.
Estimate ==
    /\ Running
    /\ published # <<>>
    /\ \/ graph.estimator = "slam_toolbox" /\ estimate' = "near"
       \/ /\ graph.estimator = "amcl" /\ graph.rooted
          /\ initial # NoPose
          /\ estimate' = "near"
       \/ /\ graph.estimator = "mola"
          /\ estimate' = IF estimate = "none" THEN "far"
                         ELSE IF initial # NoPose THEN "near" ELSE estimate
    /\ UNCHANGED untold
    /\ UNCHANGED launchVars
    /\ UNCHANGED simVars
    /\ UNCHANGED supportVars
    /\ UNCHANGED evaluationVars

----------------------------------------------------------------------------

\* The stamps of the topic that is scored.
Estimates ==
    IF graph.scoresComposed
    THEN [i \in DOMAIN composed |-> composed[i].stamp]
    ELSE [i \in DOMAIN published |-> published[i].stamp]

\* The messages _publish sends for what the aligner resolves.
Score(a) ==
    /\ aligner' = Remaining(a)
    /\ scores' = scores \o
          [i \in DOMAIN Resolved(a) |->
              [stamp |-> Resolved(a)[i].stamp,
               from |-> Resolved(a)[i].from,
               timedOut |-> ~\E j \in DOMAIN a.estimates :
                                 a.estimates[j] >= Resolved(a)[i].stamp]]

\* EvaluationNode._on_truth; the topic is reliable and its queue deep.
EvaluateTruth ==
    /\ Running
    /\ scoredTruth < Len(published)
    /\ scoredTruth' = scoredTruth + 1
    /\ Score(AddTruth(aligner, published[scoredTruth'].stamp))
    /\ UNCHANGED <<scoredEstimate, heard>>
    /\ UNCHANGED launchVars
    /\ UNCHANGED simVars
    /\ UNCHANGED supportVars
    /\ UNCHANGED estimatorVars

\* EvaluationNode._on_estimate; best effort
EvaluateEstimate ==
    /\ Running
    /\ \E e \in DOMAIN Estimates :
          /\ e > scoredEstimate
          /\ scoredEstimate' = e
          /\ heard' = heard \cup {Estimates[e]}
          /\ Score(AddEstimate(aligner, Estimates[e]))
    /\ UNCHANGED scoredTruth
    /\ UNCHANGED launchVars
    /\ UNCHANGED simVars
    /\ UNCHANGED supportVars
    /\ UNCHANGED estimatorVars

----------------------------------------------------------------------------

Next ==
    \/ LaunchRun
    \/ Publish
    \/ Reset
    \/ HandleTruth
    \/ HandleDeadReckoning
    \/ HandleInitialPose
    \/ PlaceByHand
    \/ Estimate
    \/ EvaluateTruth
    \/ EvaluateEstimate

Fairness ==
    /\ WF_vars(LaunchRun)
    /\ WF_vars(Publish)
    /\ WF_vars(HandleTruth)
    /\ WF_vars(HandleDeadReckoning)
    /\ WF_vars(HandleInitialPose)
    /\ WF_vars(Estimate)

Spec == Init /\ [][Next]_vars

FairSpec == Spec /\ Fairness

----------------------------------------------------------------------------

Samples ==
    [stamp : 0 .. MaxPublished, run : 0 .. MaxResets, moved : 0 .. MaxPublished]

Graphs == {Roles(Graph(r)) : r \in Asked}

LaunchTypes ==
    /\ request \in Asked \cup {NoRequest}
    /\ graph \in Graphs \cup {NoGraph}

SimTypes ==
    /\ frozen \in BOOLEAN
    /\ resets \in 0 .. MaxResets
    /\ published \in Seq(Samples) /\ Len(published) <= MaxPublished

SupportTypes ==
    /\ truth \in 0 .. Len(published)
    /\ deadReckoning \in 0 .. Len(published)
    /\ initial \in {NoPose} \cup 0 .. MaxPublished
    /\ sent \in BOOLEAN
    /\ startPose \in {NoPose} \cup 0 .. MaxPublished
    /\ applied \in BOOLEAN
    /\ correction.stamp \in -1 .. MaxPublished
    /\ composed \in Seq([stamp : 0 .. MaxPublished, frame : {"far", "near"}])

EstimatorTypes ==
    /\ estimate \in {"none", "far", "near"}
    /\ untold \in UntoldStarts \cup {0}

EvaluationTypes ==
    /\ scoredTruth \in 0 .. Len(published)
    /\ scoredEstimate \in Nat
    /\ heard \subseteq 0 .. MaxPublished

TypeOK ==
    LaunchTypes /\ SimTypes /\ SupportTypes /\ EstimatorTypes /\ EvaluationTypes

\* A request is refused unless the graph it becomes is sound: one source of
\* map -> odom, a clock somebody publishes, nothing asked for that is dropped,
\* a line that can be driven, and no pose or world missing but in the two cases
\* nobody checks (sim_pure_pursuit.launch.py fails closed).
LaunchFailsClosed ==
    [][request # NoRequest /\ graph' # NoGraph
           => Sound(request, Graph(request))]_vars

\* What the support node broadcasts for an instant, with the dead reckoning of
\* that instant, is the true pose of that instant, in whatever order the two
\* streams arrive and whatever a reset does to either (_publish_correction,
\* "the composed map -> base_link is exactly the ground-truth pose").
CorrectionExact ==
    \A i \in DOMAIN published :
        correction # NoCorrection /\ published[i].stamp = correction.stamp =>
            PlanarCompose(correction.pose, DeadReckoningOf(published[i]))
                = TruthOf(published[i])

\* How far the car may have come before it is driven on what is composed: a
\* controller that waits for that keeps it where it was set down.
Wander ==
    IF graph.controllerOn = "composed" THEN {0}
    ELSE {published[j].moved : j \in DOMAIN published}

\* The untold start lay within START_POSE_RADIUS of the true one, or the car has
\* come the rest of the way.
Plausible == \E m \in Wander : Apart(untold, 0) <= StartPoseRadius + m

\* A pose in the frame of an untold start is composed only when that start is
\* plausible: no order of the start pose, by the node or by hand, the resets
\* and the estimator's own messages ends the hold on any other (support_node.py,
\* _publish_composed: "no pose is better than one in the wrong frame").
NoPoseInWrongFrame ==
    \A i \in DOMAIN composed : composed[i].frame = "far" => Plausible

\* What the live evaluator says of a sample is what a rescoring offline of
\* everything it heard says, but for a sample that it gave up after the window
\* because nothing later had come; and samples are scored in order.
ScoresAgree ==
    /\ \A i \in DOMAIN scores :
          \/ scores[i].from = Offline(heard, scores[i].stamp)
          \/ scores[i].from = {} /\ scores[i].timedOut
    /\ \A i, j \in DOMAIN scores : i < j => scores[i].stamp <= scores[j].stamp

\* A run that drives on an estimate gets one, whatever order the scans, the
\* start pose and the poses come in: the hold ends.  The graphs that lack the
\* gym's map or AMCL's grid never get one.
HoldEnds ==
    (Running /\ graph.controllerOn = "composed" /\ graph.world /\ graph.rooted)
        ~> composed # <<>>

====
