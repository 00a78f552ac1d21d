---- MODULE Nightly ----
(***************************************************************************)
(* The nightly of .github/workflows/ci.yaml: a job for each region and      *)
(* seed, each of which asks scripts/nightly_regions.py what its region      *)
(* runs and runs it (scripts/check.sh --nightly-region).                    *)
(*                                                                          *)
(* Abstractions: the checkout, tests/nightly_regions.yaml among it, is the  *)
(* same for every job; tiers 0-2 are one thing that passes or fails.        *)
(***************************************************************************)
EXTENDS Integers, Sequences, FiniteSets

CONSTANTS
    Regions,      \* REGIONS
    Seeds, Tier5Seed,
    Suites        \* what the checkout may hold: [system, robot, nightly, map],
                  \* IDs, the names of each ID's cases, IDs, and the yaml as a
                  \* function from region names to sequences of IDs

Static == "static"

\* The static job is of no region.
ASSUME NightlyAssumption == Regions # {} /\ Static \notin Regions

\* The matrix, less its exclusions.
Jobs == (Regions \X Seeds) \cup {<<Static, Tier5Seed>>}

VARIABLES
    suite,
    step,         \* per job, what it does next
    ran           \* per job, the cases it ran, as <<tier, ID, name>>

nightlyVars == <<suite, step, ran>>

NightlyInit ==
    /\ suite \in Suites
    /\ step = [j \in Jobs |-> "select"]
    /\ ran = [j \in Jobs |-> {}]

Known == suite.system \cup DOMAIN suite.robot \cup suite.nightly

Listed(region) == {suite.map[region][n] : n \in DOMAIN suite.map[region]}

\* An ID is in the map as often as once.
ListedOnce ==
    \A r, q \in DOMAIN suite.map :
        \A m \in DOMAIN suite.map[r], n \in DOMAIN suite.map[q] :
            suite.map[r][m] = suite.map[q][n] => r = q /\ m = n

\* Mutant of LoadRegions: an ID that the map does not list is not missed.
MutantLoadRegions ==
    /\ DOMAIN suite.map = Regions
    /\ \A r \in Regions : suite.map[r] # <<>> /\ Listed(r) \subseteq Known
    /\ ListedOnce

\* load_regions: the map is refused unless it partitions what is known.
LoadRegions ==
    /\ DOMAIN suite.map = Regions
    /\ \A r \in Regions : suite.map[r] # <<>> /\ Listed(r) \subseteq Known
    /\ ListedOnce
    /\ Known \subseteq UNION {Listed(r) : r \in Regions}

\* select: the robot tests are told by their names alone, so a case of another
\* ID with the same name runs as well.
Select(region, tier) ==
    CASE region = Static -> {}
      [] tier = "system" ->
             {<<tier, i, i>> : i \in Listed(region) \cap suite.system}
      [] tier = "acceptance" ->
             LET names == UNION {suite.robot[i] :
                              i \in Listed(region) \cap DOMAIN suite.robot}
             IN UNION {{<<tier, i, n>> : n \in suite.robot[i] \cap names} :
                           i \in DOMAIN suite.robot}
      [] tier = "nightly" ->
             {<<tier, i, i>> : i \in Listed(region) \cap suite.nightly}

\* A selector that fails ends the job; only static runs tiers 0-2.
SelectTests(j) ==
    /\ step[j] = "select"
    /\ step' = [step EXCEPT ![j] =
                   IF j[1] = Static \/ LoadRegions THEN "system" ELSE "failed"]
    /\ UNCHANGED <<suite, ran>>

\* Tier 5 runs on one seed only (NIGHTLY_TIER5).
AfterTier(j, tier) ==
    CASE tier = "system" -> "acceptance"
      [] tier = "acceptance" ->
             IF j[2] = Tier5Seed THEN "nightly" ELSE "passed"
      [] tier = "nightly" -> "passed"

\* A tier runs; `set -e` ends the job with the first that fails.
RunTier(j, tier) ==
    /\ step[j] = tier
    /\ ran' = [ran EXCEPT ![j] = @ \cup Select(j[1], tier)]
    /\ step' = [step EXCEPT ![j] = AfterTier(j, tier)]
    /\ UNCHANGED suite

\* A test, the build, or the job's timeout.
JobFails(j) ==
    /\ step[j] \notin {"passed", "failed"}
    /\ step' = [step EXCEPT ![j] = "failed"]
    /\ UNCHANGED <<suite, ran>>

NightlyNext ==
    \E j \in Jobs :
        \/ SelectTests(j) \/ JobFails(j)
        \/ \E tier \in {"system", "acceptance", "nightly"} : RunTier(j, tier)

NightlySpec == NightlyInit /\ [][NightlyNext]_nightlyVars

----------------------------------------------------------------------------

TestsOf(tier, ids) == {<<tier, i, i>> : i \in ids}

\* The cases of tiers 3 and 4.
CasesOf34 ==
    TestsOf("system", suite.system)
    \cup UNION {{<<"acceptance", i, n>> : n \in suite.robot[i]} :
                    i \in DOMAIN suite.robot}

\* No name is that of two IDs' cases.
NamesDiffer ==
    \A i, k \in DOMAIN suite.robot :
        i # k => suite.robot[i] \cap suite.robot[k] = {}

\* A nightly whose jobs have all passed ran, on each seed, every case of tiers
\* 3 and 4, and on the one seed every tier-5 test; each in one region only, so
\* long as no two cases have a name in common (tests/nightly_regions.yaml;
\* ci.yaml, "the union is the whole nightly"; tests CHECK-1510, CHECK-1520).
NightlyIsWhole ==
    (\A j \in Jobs : step[j] = "passed") =>
        /\ \A s \in Seeds :
              UNION {ran[<<r, s>>] : r \in Regions} =
                  CasesOf34 \cup IF s = Tier5Seed
                                 THEN TestsOf("nightly", suite.nightly) ELSE {}
        /\ NamesDiffer =>
              \A s \in Seeds, r, q \in Regions :
                  r # q => ran[<<r, s>>] \cap ran[<<q, s>>] = {}

====
