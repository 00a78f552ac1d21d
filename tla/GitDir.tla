---- MODULE GitDir ----
(***************************************************************************)
(* scripts/changed_scope.py: which git dir answers for the directory        *)
(* check.sh is run in.  Plain git where it opens one; in a work tree whose  *)
(* .git file cannot be followed (it names a path of the host, or git does   *)
(* not trust its owner), the admin directory found above it.                *)
(*                                                                          *)
(* A directory is what the search reads of it:                              *)
(*   opens       plain git opens it                                         *)
(*   chosen      GIT_DIR or its like is set                                 *)
(*   dotGit      the .git found here or above: "absent", "dir" or "file"    *)
(*   named       the file's first line names a directory                    *)
(*   target      where that leads: "nowhere" that is visible, to the        *)
(*               "candidate", or "elsewhere"                                *)
(*   candidates  nearest first, <above>/.git/worktrees/<name>: whether it   *)
(*               is an admin directory, points back to this position, git   *)
(*               opens the repository it is in, commondir points there, and *)
(*               all have one owner                                         *)
(* A step that raises is a search that finds nothing.                       *)
(***************************************************************************)
EXTENDS Integers, Sequences, FiniteSetsExt

\* The loop over work.parents.
PointingBack(d) ==
    {i \in DOMAIN d.candidates : d.candidates[i].admin /\ d.candidates[i].back}

\* The trust gate.
Trusted(candidate) ==
    candidate.opens /\ candidate.common /\ candidate.owners

\* Mutant of Located: where the .git file leads is not compared.
MutantLocated(d) ==
    /\ ~d.chosen /\ d.dotGit = "file" /\ d.named
    /\ PointingBack(d) # {}
    /\ Trusted(d.candidates[Min(PointingBack(d))])

\* locate_git_dir
Located(d) ==
    /\ ~d.chosen /\ d.dotGit = "file" /\ d.named
    /\ PointingBack(d) # {}
    /\ d.target # "elsewhere"
    /\ Trusted(d.candidates[Min(PointingBack(d))])

\* make_run_git
GitOf(d) ==
    IF d.opens THEN "plain" ELSE IF Located(d) THEN "located" ELSE "none"

====
