---- MODULE MCPoseGraph ----
(***************************************************************************)
(* The instance of PoseGraph for TLC: requests that vary what one part of   *)
(* the launch looks at, with the rest at its defaults.                      *)
(***************************************************************************)
EXTENDS PoseGraph

Defaults ==
    [stem |-> "f1tenth_default", simulator |-> "gym", bridge |-> "ours",
     scenario |-> "spielberg", startHeld |-> FALSE, timeScale |-> 1,
     devkitDomain |-> "invalid", poseSource |-> "ground_truth",
     slamConfig |-> "unset", driveOnEstimate |-> TRUE,
     estimateTopic |-> "truth", planner |-> "track_centerline",
     speedSource |-> "unset", ownRaceline |-> TRUE, versionsAgree |-> TRUE,
     committed |-> "ok", beams |-> 64, molaMap |-> TRUE]

SimulatorRequests ==
    {[Defaults EXCEPT !.stem = v, !.simulator = s, !.bridge = b,
                      !.scenario = c, !.startHeld = h, !.timeScale = t,
                      !.devkitDomain = d, !.poseSource = p] :
        v \in {"f1tenth_default", "autodrive_roboracer", "undrawn", "missing"},
        s \in {"gym", "autodrive"}, b \in {"ours", "official"},
        c \in {"spielberg", "porto"}, h \in BOOLEAN, t \in {1, 2},
        d \in {"own", "other"}, p \in {"ground_truth", "mola"}}

\* How the controller drives and what is scored: as asked by default, open
\* loop, and with another topic scored.
Uses(p) ==
    {<<TRUE, "truth">>}
    \cup (IF p = "slam_toolbox" THEN {} ELSE {<<FALSE, "truth">>})
    \cup (IF p \in {"amcl", "mola"} THEN {} ELSE {<<TRUE, "other">>})

SourceRequests ==
    UNION {{[Defaults EXCEPT !.poseSource = p, !.slamConfig = f,
                      !.driveOnEstimate = u[1], !.estimateTopic = u[2],
                      !.beams = n, !.molaMap = m] :
        f \in {"unset", "present", "missing"}, u \in Uses(p),
        n \in {0, 64, 270, 1080}, m \in BOOLEAN} :
        p \in {"ground_truth", "unknown"} \cup Estimators}

LineRequests ==
    {[Defaults EXCEPT !.planner = p, !.speedSource = v, !.ownRaceline = o,
                      !.versionsAgree = a, !.committed = c] :
        p \in {"track_centerline", "optimized_raceline"},
        v \in {"unset", "curvature_schedule", "trajectory"}, o \in BOOLEAN,
        a \in BOOLEAN,
        c \in {"none", "no_sidecar", "of_another", "not_ok", "ok"}}

\* Worlds without a surveyed grid, one of them the gym's own.
WorldRequests ==
    {[Defaults EXCEPT !.scenario = "contract_test", !.poseSource = p] :
        p \in {"ground_truth"} \cup Estimators}
    \cup {[Defaults EXCEPT !.scenario = "porto", !.stem = "autodrive_roboracer",
                           !.simulator = "autodrive", !.poseSource = "amcl"]}

MCAsked ==
    SimulatorRequests \cup SourceRequests \cup LineRequests \cup WorldRequests

\* An untold start out of the radius, that the car may drive into, and one
\* within it.
MCUntoldStarts == {-3, 1}

====
