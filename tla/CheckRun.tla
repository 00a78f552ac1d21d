---- MODULE CheckRun ----
(***************************************************************************)
(* A run of scripts/check.sh --fast or --ready in a work tree that goes on  *)
(* being used: changed_scope.py asks git three questions, one after the     *)
(* other, for the --ready selection and again for the --fast scope, and     *)
(* check.sh runs what it printed.                                           *)
(*                                                                          *)
(* Abstractions: a file's content is 0 (absent), 1 (the base's) or 2; a git *)
(* question that fails stands for every CalledProcessError; ignored files   *)
(* do not exist.                                                            *)
(***************************************************************************)
EXTENDS ChangedScope, GitDir

CONSTANTS
    Checkouts,    \* what a run may start in: [tree, stack, deps, where], the
                  \* files, reference_stack.yaml with tests/, the package.xml's
                  \* and the directory (GitDir)
    Busy,         \* bound: the paths that are used during the run, ...
    MaxUses       \* ... and how often

VARIABLES
    mode,         \* "fast" or "ready"
    tree,         \* per path, its content in the base, the index and the disk
    stack, deps, where,
    asking,       \* whose questions are asked: "ready", "scope", or "no one"
    question,     \* the one to be asked next
    answers,      \* the paths named so far, for each
    ready, scope, \* what changed_scope.py printed
    uses,         \* how often the tree was used
    disturbed     \* paths used while the answers were collected

checkVars ==
    <<mode, tree, stack, deps, where, asking, question, answers, ready, scope,
      uses, disturbed>>

Paths == DOMAIN tree

\* A file in the base, the index and on the disk.
Files == [base : {0, 1}, index : 0 .. 2, disk : 0 .. 2]

\* The IDs of tier 3 (SIM-NNNN) and of tier 4 (ACC-4NNN) are not each other's, a
\* tier-4 case has a tag, and the reference lap, if there is one, is of tier 3
\* (config/reference_stack.yaml).
TiersApart(map) ==
    /\ map.systemTests \cap DOMAIN map.acceptanceTags = {}
    /\ \A p \in DOMAIN Place : Place[p].test \notin DOMAIN map.acceptanceTags
    /\ map.lap \notin DOMAIN map.acceptanceTags
    /\ \A t \in DOMAIN map.acceptanceTags : NoTest \notin map.acceptanceTags[t]

ASSUME CheckRunAssumption ==
    \A checkout \in Checkouts :
        /\ DOMAIN checkout.tree \subseteq DOMAIN Place
        /\ \A p \in DOMAIN checkout.tree : checkout.tree[p] \in Files
        /\ TiersApart(checkout.stack)

\* Until changed_scope.py says otherwise, the whole tree (check.sh).
CheckInit ==
    /\ mode \in {"fast", "ready"}
    /\ \E checkout \in Checkouts :
          /\ tree = checkout.tree
          /\ stack = checkout.stack
          /\ deps = checkout.deps
          /\ where = checkout.where
    /\ asking = IF mode = "ready" THEN "ready" ELSE "scope"
    /\ question = "base"
    /\ answers = [who \in {"ready", "scope"} |-> {}]
    /\ ready = WholeReady
    /\ scope = WholeScope
    /\ uses = 0
    /\ disturbed = {}

----------------------------------------------------------------------------

(***************************************************************************)
(* The tree is used by whoever works in it.                                *)
(***************************************************************************)

Use(p, file) ==
    /\ uses < MaxUses
    /\ asking # "no one"
    /\ file # tree[p]
    /\ tree' = [tree EXCEPT ![p] = file]
    /\ uses' = uses + 1
    /\ UNCHANGED <<mode, stack, deps, where, asking, question, answers, ready,
                   scope>>

\* A file is written or removed, or taken out of the index.
EditFile(p) ==
    /\ \E content \in {0, 2} : Use(p, [tree[p] EXCEPT !.disk = content])
    /\ disturbed' = disturbed \cup {p}

Unstage(p) ==
    /\ Use(p, [tree[p] EXCEPT !.index = tree[p].base])
    /\ disturbed' = disturbed \cup {p}

\* git add.  Of a file that was untracked when the index was compared, before
\* the untracked files are listed, it is the one use no question sees.
Stage(p) ==
    /\ Use(p, [tree[p] EXCEPT !.index = tree[p].disk])
    /\ disturbed' = IF question = "others" THEN disturbed \cup {p}
                    ELSE disturbed

----------------------------------------------------------------------------

\* _changed_since: `git diff <base>` of what is tracked or was, ...
Differs(file) ==
    IF file.index = 0 THEN file.base # 0
    ELSE file.disk # file.base

\* ... `git diff --cached <base>`, and `git ls-files --others`.
DiffersInIndex(file) == file.index # file.base

Untracked(file) == file.index = 0 /\ file.disk # 0

\* A file as git sees it: the index is that of the git dir that answers, and
\* one that the .git file does not lead to is of another work tree.
Seen(file) ==
    IF GitOf(where) = "located" /\ where.target = "elsewhere"
    THEN [file EXCEPT !.index = file.base] ELSE file

\* The paths a question names.
Answer(q) ==
    {p \in Paths :
        CASE q = "diff" -> Differs(Seen(tree[p]))
          [] q = "cached" -> DiffersInIndex(Seen(tree[p]))
          [] q = "others" -> Untracked(Seen(tree[p]))}

\* The next set of questions, or none: --ready asks for its selection first.
Printed ==
    /\ asking' = IF asking = "ready" THEN "scope" ELSE "no one"
    /\ question' = "base"
    /\ disturbed' = {}
    /\ UNCHANGED <<mode, tree, stack, deps, where, answers, uses>>

\* CHECK_SCOPE=all, or git fails at one of its questions (an origin/main that
\* is absent is not a failure; a directory git does not open is): the whole
\* tree.
GiveUp ==
    /\ asking # "no one"
    /\ question # "select"
    /\ Printed
    /\ UNCHANGED <<ready, scope>>

\* merge_base, in a directory that git opens
FindBase ==
    /\ asking # "no one"
    /\ question = "base"
    /\ GitOf(where) # "none"
    /\ question' = "diff"
    /\ disturbed' = {}
    /\ UNCHANGED <<mode, tree, stack, deps, where, asking, answers, ready, scope,
                   uses>>

\* Mutant of NextQuestion: the index is not asked about.
MutantNextQuestion(q) == IF q = "others" THEN "select" ELSE "others"

NextQuestion(q) ==
    CASE q = "diff" -> "cached"
      [] q = "cached" -> "others"
      [] q = "others" -> "select"

Ask ==
    /\ asking # "no one"
    /\ question \in {"diff", "cached", "others"}
    /\ answers' = [answers EXCEPT ![asking] = @ \cup Answer(question)]
    /\ question' = NextQuestion(question)
    /\ UNCHANGED <<mode, tree, stack, deps, where, asking, ready, scope, uses,
                   disturbed>>

\* resolve_ready, after _changed_since: the map is read and the tests chosen;
\* a map that cannot be read is the whole tree.
SelectForReady ==
    /\ asking = "ready"
    /\ question = "select"
    /\ Printed
    /\ ready' = IF Loads(stack) THEN SelectReady(answers.ready, stack, deps)
                ELSE WholeReady
    /\ UNCHANGED scope

\* resolve, after _changed_since: C++ and Python files that are gone are not
\* handed to the linters.
SelectScope ==
    /\ asking = "scope"
    /\ question = "select"
    /\ Printed
    /\ LET found == ScopeFor(answers.scope)
           there == {p \in Paths : tree[p].disk # 0}
       IN scope' = [found EXCEPT !.cpp = @ \cap there, !.py = @ \cap there]
    /\ UNCHANGED ready

CheckNext ==
    \/ \E p \in Busy : EditFile(p) \/ Unstage(p) \/ Stage(p)
    \/ GiveUp \/ FindBase \/ Ask \/ SelectForReady \/ SelectScope

CheckSpec == CheckInit /\ [][CheckNext]_checkVars

----------------------------------------------------------------------------

(***************************************************************************)
(* Properties                                                              *)
(***************************************************************************)

\* A path that differs from the base, on disk or in the index.
Changed(p) ==
    tree[p].disk # tree[p].base \/ tree[p].index # tree[p].base

\* The three answers together name every path that differs from the base,
\* wherever git's directory was found, whatever was done meanwhile to other
\* paths and whenever the path itself was staged, but for one moment: a file
\* staged after the index was compared and before the untracked files are
\* listed is in no answer (changed_scope.py, _changed_since, locate_git_dir;
\* test CHECK-1080).
ChangeSeen ==
    asking # "no one" /\ question = "select" =>
        \A p \in Paths \ disturbed : Changed(p) => p \in answers[asking]

\* A package depends on another, directly or not, by the definition.
DependsOn(q, package) ==
    \A closed \in SUBSET Packages :
        (\A r \in Packages :
            (package \in deps[r] \/ deps[r] \cap closed # {}) => r \in closed)
        => q \in closed

\* Whether an implementation answers for a change of this path.
AnswersFor(i, p) ==
    \/ p \in i.paths
    \/ /\ Place[p].package # NoPackage
       /\ i.package # Place[p].package
       /\ DependsOn(i.package, Place[p].package)

\* BRINGUP-1080: the tags of the tier-4 cases are those of the claims.
TagsAgree ==
    \A i \in stack.implementations, t \in DOMAIN stack.acceptanceTags :
        t \in i.claims <=> i.key \in stack.acceptanceTags[t]

\* Something about the changed paths or the map is not known.
Unknown(told) ==
    \/ ~Loads(stack)
    \/ answers.ready = {}
    \/ stack.lap \notin Discovered(stack)
    \/ ~ Discovered(stack) \subseteq Claimed(stack) \cup {stack.lap}
    \/ \E p \in told :
           IF Place[p].test # NoTest
           THEN Place[p].test \notin stack.systemTests
           ELSE \A i \in stack.implementations : p \notin i.paths

\* The cases that must run for a changed path.
Owed(p) ==
    IF Place[p].test # NoTest THEN {<<Place[p].test, NoTest>>}
    ELSE LET answering == {i \in stack.implementations : AnswersFor(i, p)}
         IN {c \in Cases(stack) :
                \E i \in answering : c[1] \in i.claims /\ c[2] \in {NoTest, i.key}}

\* What --ready runs leaves nothing out of what it was told of: it runs the
\* reference lap, each changed tier-3 test and the cases claimed by whatever
\* answers for a changed path; every case there is when a path is placed by no
\* rule, a changed test is gone, a test is claimed by none, or the map does not load; and the tests of
\* each changed package and of all that depend on it (ADR 0007, "it fails
\* closed"; tests CHECK-1140 to CHECK-1260, BRINGUP-1080).
NothingLeftOut ==
    LET told == {p \in answers.ready : p \notin stack.neutral}
        run == RunCases(ready, stack)
    IN asking = "no one" =>
        /\ mode = "ready" /\ TagsAgree =>
              IF Unknown(told) THEN run = Cases(stack)
              ELSE /\ <<stack.lap, NoTest>> \in run
                   /\ UNION {Owed(p) : p \in told} \subseteq run
        /\ \A p \in answers.scope : Place[p].package # NoPackage =>
              {q \in Packages : q = Place[p].package
                                   \/ DependsOn(q, Place[p].package)}
              \subseteq RunPackages(scope, deps)

\* What has changed is seen, and what is owed to what was seen is run: the two
\* halves of a check that misses nothing.
CheckMissesNothing == ChangeSeen /\ NothingLeftOut

====
