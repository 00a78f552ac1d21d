---- MODULE LineVerifier ----
(***************************************************************************)
(* raceline/verify.py: the checks an optimized line must pass before it is  *)
(* written.                                                                 *)
(*                                                                          *)
(* Abstractions: a line is the checks it is at fault with, at some point    *)
(* that is a number, and the columns that hold a NaN somewhere.  A check    *)
(* that compares an array's maximum or minimum sees NaN when there is one   *)
(* in a column it reads, and every comparison with NaN is false.  How the   *)
(* clearance at a sharp tip is judged (_judge) is left out.                 *)
(***************************************************************************)

Columns == {"s", "xy", "psi", "kappa", "v", "a"}

\* The columns each check reads.
Reads ==
    [start |-> {"s"}, increasing |-> {"s"}, spacing |-> {"s", "xy"},
     closing |-> {"xy"}, direction |-> {"xy", "psi"}, psi |-> {"psi", "xy"},
     kappa |-> {"kappa"}, kappa_column |-> {"kappa", "xy"}, speed |-> {"v"},
     a_y |-> {"v", "kappa"}, a_x |-> {"v", "a"}, input |-> {"xy"},
     ground_truth |-> {"xy"}]

Checks == DOMAIN Reads

\* The checks that look at one point at a time: s[0], np.any(ds <= 0), and
\* the first point's place and heading.
PointWise == {"start", "increasing", "direction"}

\* Mutant of WindsAnotherWay: an area that is NaN is compared as a number.
MutantWindsAnotherWay(line) == FALSE

\* _direction: the sign of an area that is NaN differs from every sign.
WindsAnotherWay(line) == "xy" \in line.nan

\* verify's failures; without a ground truth its walls are not judged.
Failures(line, truth) ==
    {check \in IF truth THEN Checks ELSE Checks \ {"ground_truth"} :
        \/ /\ check \in line.faults
           /\ check \in PointWise \/ Reads[check] \cap line.nan = {}
        \/ check = "direction" /\ WindsAnotherWay(line)}

\* Verdict.ok
Verified(line, truth) == Failures(line, truth) = {}

====
