---- MODULE ChangedScope ----
(***************************************************************************)
(* scripts/changed_scope.py: what a set of changed paths makes check.sh     *)
(* run.  scope_for places a change for tiers 0-2, select_ready for tiers 3  *)
(* and 4 by the map of the reference stack.                                 *)
(*                                                                          *)
(* Abstractions: a path is what its name says of it (Place), a glob is the  *)
(* set of paths it matches, a Robot tag is the key of its implementation.   *)
(***************************************************************************)
EXTENDS FiniteSets

CONSTANTS
    Packages,     \* directories of ros_ws/src
    NoPackage,    \* _package_for of a path that is in none
    NoTest,       \* a path that is no tier-3 test; a map with no reference_lap
    Place         \* what each path's name says

\* A path that is in a package is in one of those there are (_package_for).
ASSUME ScopeAssumption ==
    /\ IsFiniteSet(Packages)
    /\ \A p \in DOMAIN Place : Place[p].package \in Packages \cup {NoPackage}

\* _is_whole_tree_trigger: CMakeLists.txt, package.xml, config/, docker/, ...
Trigger(p) == Place[p].trigger

WholeScope == [whole |-> TRUE, packages |-> {}, cpp |-> {}, py |-> {}]

\* scope_for
ScopeFor(changed) ==
    IF changed = {} \/ \E p \in changed : Trigger(p) THEN WholeScope
    ELSE [whole |-> FALSE,
          packages |-> {Place[p].package : p \in changed} \ {NoPackage},
          cpp |-> {p \in changed :
                      Place[p].cpp /\ Place[p].package # NoPackage},
          py |-> {p \in changed : Place[p].py}]

\* reverse_dependents: the worklist, from the packages that depend directly.
\* `deps` is what read_manifests returns.
ReverseDependents(deps) ==
    LET direct == [name \in Packages |->
                      {q \in Packages : name \in deps[q]}]
        walk[w \in (SUBSET Packages) \X (SUBSET Packages)] ==
            LET seen == w[1]
                pending == w[2]
                current == CHOOSE q \in pending : TRUE
            IN IF pending = {} THEN seen
               ELSE IF current \in seen THEN walk[<<seen, pending \ {current}>>]
               ELSE walk[<<seen \cup {current},
                           (pending \ {current}) \cup direct[current]>>]
    IN [name \in Packages |-> walk[<<{}, direct[name]>>] \ {name}]

----------------------------------------------------------------------------

\* A StackMap: its implementations, each [key, package, default, paths,
\* claims] (`claims` is verified_by), reference_lap, neutral_paths, the tests
\* found on disk and the tags of the tier-4 ones; `readable` is FALSE when the
\* yaml or the discovery of tests raises.
Discovered(stack) == stack.systemTests \cup DOMAIN stack.acceptanceTags

Claimed(stack) == UNION {i.claims : i \in stack.implementations}

\* load_stack: it raises on an implementation that claims no test.
Loads(stack) ==
    stack.readable /\ \A i \in stack.implementations : i.claims # {}

Owners(p, stack) == {i \in stack.implementations : p \in i.paths}

WholeReady == [whole |-> TRUE, implementations |-> {}, tests |-> {}]

\* The paths of select_ready's loop that reach its last rule.
Mapped(p, stack) == p \notin stack.neutral /\ Place[p].test = NoTest

\* The paths that return from the loop: composition files, triggers outside
\* config/, and what no rule places.
Unplaced(p, stack) ==
    \/ Place[p].composition
    \/ Trigger(p) /\ ~Place[p].config
    \/ Mapped(p, stack) /\ Owners(p, stack) = {}

\* What a path selects: its owners, and what its package's dependents are.
Selected(p, stack, deps) ==
    LET package == Place[p].package
        dependents == IF package = NoPackage THEN {}
                      ELSE ReverseDependents(deps)[package]
    IN Owners(p, stack)
       \cup {i \in stack.implementations : i.package \in dependents}

\* Mutant of SelectReady: a path that no rule places is skipped.
MutantSelectReady(changed, stack, deps) ==
    LET mapped == {p \in changed : Mapped(p, stack)}
        selected == UNION {Selected(p, stack, deps) : p \in mapped}
        explicit == {Place[p].test : p \in changed \ mapped} \ {NoTest}
        chosen == {stack.lap} \cup explicit
                  \cup UNION {i.claims : i \in selected}
    IN IF \/ changed = {} \/ stack.lap = NoTest
          \/ ~ chosen \subseteq Discovered(stack)
       THEN WholeReady
       ELSE [whole |-> FALSE, implementations |-> selected, tests |-> chosen]

\* select_ready
SelectReady(changed, stack, deps) ==
    LET mapped == {p \in changed : Mapped(p, stack)}
        selected == UNION {Selected(p, stack, deps) : p \in mapped}
        explicit == {Place[p].test : p \in
                        {q \in changed : q \notin stack.neutral}} \ {NoTest}
        chosen == {stack.lap} \cup explicit
                  \cup UNION {i.claims : i \in selected}
    IN IF \/ changed = {} \/ stack.lap = NoTest
          \/ \E p \in changed : Unplaced(p, stack)
          \/ ~ Discovered(stack) \subseteq Claimed(stack) \cup {stack.lap}
          \/ ~ chosen \subseteq Discovered(stack)
       THEN WholeReady
       ELSE [whole |-> FALSE, implementations |-> selected, tests |-> chosen]

\* render_ready_shell: the tags --ready includes.
ReadyRobotTags(ready, stack) ==
    {i.key : i \in {j \in ready.implementations :
                       j.claims \cap DOMAIN stack.acceptanceTags # {}}}

----------------------------------------------------------------------------

\* check.sh: the tier-3 and tier-4 cases that run, as <<test, tag>>; a tier-3
\* test is one case.
Cases(stack) ==
    {<<t, NoTest>> : t \in stack.systemTests}
    \cup UNION {{<<t, tag>> : tag \in stack.acceptanceTags[t]} :
                   t \in DOMAIN stack.acceptanceTags}

RunCases(ready, stack) ==
    IF ready.whole THEN Cases(stack)
    ELSE {c \in Cases(stack) :
             IF c[1] \in stack.systemTests THEN c[1] \in ready.tests
             ELSE c[2] \in ReadyRobotTags(ready, stack)}

\* check.sh: the packages colcon tests (--packages-above).
RunPackages(scope, deps) ==
    IF scope.whole THEN Packages
    ELSE scope.packages \cup
         UNION {ReverseDependents(deps)[p] : p \in scope.packages}

====
