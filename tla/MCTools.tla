---- MODULE MCTools ----
(***************************************************************************)
(* The programs that end and leave a result that others go by: the check,  *)
(* the raceline runner, the recorder, the nightly's split, the backend of   *)
(* one run, the score of a recording and the exit of a node.  They share no *)
(* state, so each is explored alone: `part` says which, and the others stay *)
(* as they begin.                                                          *)
(***************************************************************************)
EXTENDS CheckRun, RacelineRun, Recorder, Nightly, GymBackend, Rescore, NodeExit

VARIABLE part

allVars ==
    <<part, checkVars, racelineVars, recorderVars, nightlyVars, backendVars,
      rescoreVars, exitVars>>

----------------------------------------------------------------------------
\* CheckRun

P(package, trigger, cpp, test) ==
    [package |-> package, trigger |-> trigger, config |-> FALSE,
     composition |-> FALSE, cpp |-> cpp, py |-> ~cpp, test |-> test]

\* A library, what is built on it, and a file of each other kind.
MCPlace ==
    [lib |-> P("common", FALSE, TRUE, "none"),
     ctl |-> P("control", FALSE, TRUE, "none"),
     sim |-> P("sim", FALSE, FALSE, "none"),
     manifest |-> P("sim", TRUE, FALSE, "none"),
     map |-> [P("none", TRUE, FALSE, "none") EXCEPT !.config = TRUE],
     launch |-> [P("sim", FALSE, FALSE, "none") EXCEPT !.composition = TRUE],
     lap |-> P("none", FALSE, FALSE, "S1"),
     doc |-> P("none", FALSE, FALSE, "none"),
     stray |-> P("common", FALSE, FALSE, "none")]

File(b, i, d) == [base |-> b, index |-> i, disk |-> d]

Dirty == {File(1, 1, 2), File(1, 2, 2), File(1, 2, 1), File(0, 0, 2),
          File(0, 2, 2), File(0, 2, 0), File(1, 1, 0), File(1, 0, 0),
          File(1, 0, 1)}

Clean == File(1, 1, 1)

Tree(q, f, r, g) ==
    [p \in DOMAIN MCPlace |-> IF p = q THEN f ELSE IF p = r THEN g ELSE Clean]

Impl(key, package, paths, claims) ==
    [key |-> key, package |-> package, paths |-> paths, claims |-> claims]

Map ==
    [implementations |->
        {Impl("simulator", "sim", {"sim", "manifest", "launch", "map"},
              {"S2", "A1"}),
         Impl("controller", "control", {"ctl"}, {"S3", "A1"}),
         Impl("planner", "plan", {"lib"}, {"A2"})},
     lap |-> "S1", neutral |-> {"doc"}, readable |-> TRUE,
     systemTests |-> {"S1", "S2", "S3"},
     acceptanceTags |-> [A1 |-> {"simulator", "controller"},
                         A2 |-> {"planner"}]]

\* The map as it should be, and with one thing wrong.
Maps ==
    {Map,
     [Map EXCEPT !.readable = FALSE],
     [Map EXCEPT !.lap = "none"],
     [Map EXCEPT !.systemTests = @ \cup {"S4"}],
     [Map EXCEPT !.systemTests = {"S1", "S2"}],
     [Map EXCEPT !.implementations =
         @ \cup {Impl("safety", "safety", {"stray"}, {})}],
     [Map EXCEPT !.implementations =
         @ \cup {Impl("safety", "safety", {"stray"}, {"S2"})}]}

MCPackages == {"common", "control", "sim", "plan"}

\* A chain, and a loop colcon would refuse.
Manifests ==
    {[common |-> {}, control |-> {"common"}, sim |-> {}, plan |-> {"control"}],
     [common |-> {"sim"}, control |-> {"common"}, sim |-> {"control"},
      plan |-> {}]}

Checkout(t, s, d, w) == [tree |-> t, stack |-> s, deps |-> d, where |-> w]

Candidate(back, opens, common, owners) ==
    [admin |-> TRUE, back |-> back, opens |-> opens, common |-> common,
     owners |-> owners]

Above == Candidate(TRUE, TRUE, TRUE, TRUE)

Directory(opens, target, candidates) ==
    [opens |-> opens, chosen |-> FALSE, dotGit |-> "file", named |-> TRUE,
     target |-> target, candidates |-> candidates]

Home == [Directory(TRUE, "nowhere", <<>>) EXCEPT !.dotGit = "dir"]

\* A work tree git does not open: found, of another one, and each way the
\* search or the trust gate ends.
Hosted == Directory(FALSE, "nowhere", <<Above>>)

Astray ==
    {Hosted, Directory(FALSE, "candidate", <<Above>>),
     Directory(FALSE, "elsewhere", <<Above>>),
     Directory(FALSE, "nowhere", <<Candidate(FALSE, TRUE, TRUE, TRUE), Above>>),
     Directory(FALSE, "nowhere", <<>>),
     [Hosted EXCEPT !.chosen = TRUE], [Hosted EXCEPT !.named = FALSE],
     [Hosted EXCEPT !.dotGit = "dir"], [Hosted EXCEPT !.dotGit = "absent"]}
    \cup {Directory(FALSE, "nowhere", <<Candidate(TRUE, o, c, w)>>) :
              o \in BOOLEAN, c \in BOOLEAN, w \in BOOLEAN}

\* Every way a file can be dirty, of two files; and every two files changed,
\* with each map and each set of manifests.
MCCheckouts ==
    {Checkout(Tree("ctl", f, "stray", g), Map, CHOOSE d \in Manifests : TRUE,
              Home) :
        f \in Dirty \cup {Clean}, g \in Dirty \cup {Clean}}
    \cup {Checkout(Tree(q, File(1, 1, 2), r, File(0, 0, 2)), s, d, Home) :
              q \in DOMAIN MCPlace, r \in DOMAIN MCPlace, s \in Maps,
              d \in Manifests}
    \cup {Checkout(Tree("ctl", f, "stray", Clean), Map,
                   CHOOSE d \in Manifests : TRUE, w) :
              f \in {File(1, 2, 1), File(0, 2, 0)}, w \in Astray}

MCBusy == {"ctl"}

----------------------------------------------------------------------------
\* RacelineRun

Shape(f, n) == [faults |-> f, nan |-> n]

\* Good; at fault, with the truth only, where a NaN hides it, in the path.
MCShapes ==
    {Shape({}, {}), Shape({"a_x"}, {}), Shape({"ground_truth"}, {}),
     Shape({"a_x"}, {"v"}), Shape({"psi"}, {"xy"})}

Argument(o, p, r, t, d) ==
    [optimizer |-> o, passes |-> p, reference |-> r, truth |-> t, timed |-> d]

MCArguments ==
    {Argument("tum_mincurv_iqp", 2, "none", TRUE, TRUE),
     Argument("tum_mintime", 1, "none", FALSE, TRUE),
     Argument("tum_mintime", 1, "reference", TRUE, FALSE),
     Argument("tum_mintime", 1, "tum_mincurv_iqp", TRUE, FALSE)}

----------------------------------------------------------------------------
\* Nightly

Suite(robot, map) ==
    [system |-> {"S1", "S2"}, robot |-> robot, nightly |-> {"N1"}, map |-> map]

Robot == [A1 |-> {"lap", "stop"}, A2 |-> {"start"}]

\* A partition; a name twice; and an ID left out, listed twice, unknown, and a
\* region that is empty, missing, or none of ours.
MCSuites ==
    {Suite(r, [slam |-> <<"S1", "A1">>, control |-> <<"S2", "N1", "A2">>]) :
        r \in {Robot, [Robot EXCEPT !.A2 = {"lap"}]}}
    \cup {Suite(Robot, m) : m \in
            {[slam |-> <<"S1", "A1">>, control |-> <<"S2", "A2">>],
             [slam |-> <<"S1", "A1", "S2">>, control |-> <<"S2", "N1", "A2">>],
             [slam |-> <<"S1", "A1", "A1">>, control |-> <<"S2", "N1", "A2">>],
             [slam |-> <<"S1", "A1", "A3">>, control |-> <<"S2", "N1", "A2">>],
             [slam |-> <<>>, control |-> <<"S1", "A1", "S2", "N1", "A2">>],
             [control |-> <<"S1", "A1", "S2", "N1", "A2">>],
             [slam |-> <<"S1", "A1">>, control |-> <<"S2", "N1">>,
              shared |-> <<"A2">>]}}

----------------------------------------------------------------------------
\* GymBackend

Document(r, m, l, noise) ==
    [wellFormed |-> TRUE, rewards |-> {"alive"}, longitudinal |-> l,
     steering |-> "steeringangle", version |-> "v0", numAgents |-> 1,
     ratio |-> r, maxSteps |-> m, noise |-> noise]

Noise(d, b, g, a) ==
    [sigma |-> 1, dropout |-> d, bias |-> b, gyro |-> g, accel |-> a]

Good == Document(2, 5, "velocity", Noise(1, 1, 1, 1))

\* Every ratio, step limit and action, with IMU noise and without its bias and
\* gyro; and each other thing load_scenario refuses.
MCDocuments ==
    {Document(r, m, l, noise) : r \in {None, 0, 2}, m \in {None, 0, 5},
        l \in {"velocity", "acceleration"},
        noise \in {Noise(1, 1, 1, 1), Noise(0, 0, 0, 1)}}
    \cup {[Good EXCEPT !.wellFormed = FALSE], [Good EXCEPT !.rewards = {}],
          [Good EXCEPT !.rewards = {"speed"}], [Good EXCEPT !.version = "v1"],
          [Good EXCEPT !.numAgents = 0], [Good EXCEPT !.noise.bias = -1],
          [Good EXCEPT !.noise.dropout = 2],
          [Good EXCEPT !.longitudinal = "torque"],
          [Good EXCEPT !.steering = "torque"]}

MCDrives == [speed : {0, 1}, acceleration : {0, 1}]

----------------------------------------------------------------------------
\* Rescore

Times == 0 .. 4

\* The car keeps one speed, and the estimate of it is off by the same
\* everywhere or drifts; truth and estimates may be of any of the times, in the
\* file in order or against it.
Come == [t \in Times |-> 60 * t]
Offset == [t \in Times |-> 12]
Drift == [t \in Times |-> (t * 12) % 30]

Posed(stamp, place) == [stamp |-> stamp, at |-> place]

True(times) ==
    [i \in 1 .. Cardinality(times) |->
        LET t == SetToSortSeq(times, <)[i] IN Posed(t, Come[t])]

\* What is said at a time, and once more with another place at the first or at
\* the last of them.
Saying(times, off) ==
    LET said == [i \in 1 .. Cardinality(times) |->
                    LET t == SetToSortSeq(times, >)[i]
                    IN Posed(t, Come[t] + off[t])]
    IN {said} \cup
       {Append(said, Posed(said[i].stamp, said[i].at + 30)) :
           i \in {1, Len(said)} \cap DOMAIN said}

\* A simulator that is held repeats its first sample until it is released; one
\* that is never, or is reset to another place, has one stamp.
Held(times) == {True(times)} \cup
    {<<True(times)[1]>> \o True(times) : i \in DOMAIN True(times)}

NeverReleased == {<<Posed(0, 0), Posed(0, 60)>>}

MCRecordings ==
    {[truth |-> t, estimates |-> e] :
        t \in UNION {Held(s) : s \in SUBSET Times} \cup NeverReleased,
        e \in UNION {Saying(s, off) : s \in SUBSET Times, off \in {Offset, Drift}}}

Bound(kind, limit, measured) ==
    [kind |-> kind, limit |-> limit, measured |-> measured]

MCBounds ==
    {[ate_maximum |-> Bound("maximum", 12, TRUE)],
     [ate_maximum |-> Bound("maximum", 12, FALSE),
      scored_count |-> Bound("minimum", 2, TRUE)]}

----------------------------------------------------------------------------

\* What a program that is not run holds.
CheckIdle ==
    /\ CheckInit /\ mode = "fast" /\ stack = Map /\ where = Home
    /\ tree = Tree("ctl", Clean, "ctl", Clean)

RacelineIdle ==
    RacelineInit /\ args = Argument("tum_mincurv_iqp", 2, "none", TRUE, TRUE)

NightlyIdle ==
    /\ NightlyInit
    /\ suite = Suite(Robot, [slam |-> <<"S1", "A1">>, control |-> <<"S2", "A2">>])

BackendIdle == BackendInit /\ document = Good

RescoreIdle ==
    /\ RescoreInit
    /\ recording = [truth |-> <<>>, estimates |-> <<>>]
    /\ bounds = [ate_maximum |-> Bound("maximum", 12, TRUE)]

Init ==
    /\ part \in {"check", "raceline", "recorder", "nightly", "backend",
                 "rescore", "exit"}
    /\ part # "check" => CheckIdle
    /\ part # "raceline" => RacelineIdle
    /\ part # "nightly" => NightlyIdle
    /\ part # "backend" => BackendIdle
    /\ part # "rescore" => RescoreIdle
    /\ part = "check" => CheckInit
    /\ part = "raceline" => RacelineInit
    /\ part = "nightly" => NightlyInit
    /\ part = "backend" => BackendInit
    /\ part = "rescore" => RescoreInit
    /\ RecorderInit
    /\ ExitInit

Next ==
    /\ UNCHANGED part
    /\ \/ /\ part = "check" /\ CheckNext
          /\ UNCHANGED <<racelineVars, recorderVars, nightlyVars, backendVars,
                         rescoreVars, exitVars>>
       \/ /\ part = "raceline" /\ RacelineNext
          /\ UNCHANGED <<checkVars, recorderVars, nightlyVars, backendVars,
                         rescoreVars, exitVars>>
       \/ /\ part = "recorder" /\ RecorderNext
          /\ UNCHANGED <<checkVars, racelineVars, nightlyVars, backendVars,
                         rescoreVars, exitVars>>
       \/ /\ part = "nightly" /\ NightlyNext
          /\ UNCHANGED <<checkVars, racelineVars, recorderVars, backendVars,
                         rescoreVars, exitVars>>
       \/ /\ part = "backend" /\ BackendNext
          /\ UNCHANGED <<checkVars, racelineVars, recorderVars, nightlyVars,
                         rescoreVars, exitVars>>
       \/ /\ part = "rescore" /\ RescoreNext
          /\ UNCHANGED <<checkVars, racelineVars, recorderVars, nightlyVars,
                         backendVars, exitVars>>
       \/ /\ part = "exit" /\ ExitNext
          /\ UNCHANGED <<checkVars, racelineVars, recorderVars, nightlyVars,
                         backendVars, rescoreVars>>

Spec == Init /\ [][Next]_allVars /\ RacelineFairness

====
