---- MODULE Aligner ----
(***************************************************************************)
(* racing_evaluation: localization.py's Aligner, which pairs each truth     *)
(* sample with the estimate interpolated to its stamp, and the offline      *)
(* definition of what it should say.                                        *)
(*                                                                          *)
(* Abstractions: a sample is its stamp; an interpolated estimate is the set *)
(* of the one or two stamps it was made from, {} is "unavailable".          *)
(***************************************************************************)
EXTENDS Integers, Sequences, FiniteSetsExt, SequencesExt

CONSTANT Window       \* DEFAULT_WINDOW, in stamps

ASSUME AlignerAssumption == Window \in Nat \ {0}

\* _estimates (by stamp), _pending, _latest_truth; -1 is minus infinity.
NewAligner == [estimates |-> <<>>, pending |-> <<>>, latest |-> -1]

\* bisect_left: how many stamps lie before this one.
Before(stamps, stamp) == Cardinality({i \in DOMAIN stamps : stamps[i] < stamp})

\* bisect_right and insert
Inserted(stamps, stamp) ==
    LET at == Cardinality({i \in DOMAIN stamps : stamps[i] <= stamp})
    IN InsertAt(stamps, at + 1, stamp)

\* _estimate_at, the estimate: exact, between two that are close, or none.
EstimateAt(stamps, stamp) ==
    LET before == Before(stamps, stamp)
        after == before + 1
    IN IF after > Len(stamps) THEN {}
       ELSE IF stamps[after] = stamp THEN {stamp}
       ELSE IF before = 0 \/ stamps[after] - stamps[before] > Window THEN {}
       ELSE {stamps[before], stamps[after]}

\* _estimate_at, decided: an estimate at or after the stamp is there, or truth
\* has gone on for longer than the window.
Decided(a, stamp) ==
    \/ \E i \in DOMAIN a.estimates : a.estimates[i] >= stamp
    \/ a.latest - stamp > Window

\* Mutant of KeepFrom: the "before" end is thrown away with what precedes it.
MutantKeepFrom(stamps, horizon) == Before(stamps, horizon)

\* _discard_unneeded_estimates: the last estimate before the oldest waiting
\* sample stays.
KeepFrom(stamps, horizon) ==
    IF Before(stamps, horizon) = 0 THEN 0 ELSE Before(stamps, horizon) - 1

\* The waiting samples that are decided, from the front and without a gap.
Ripe(a) ==
    Max({n \in 0 .. Len(a.pending) :
            \A i \in 1 .. n : Decided(a, a.pending[i])})

\* _resolve: what comes out, in truth order ...
Resolved(a) ==
    [i \in 1 .. Ripe(a) |->
        [stamp |-> a.pending[i],
         from |-> EstimateAt(a.estimates, a.pending[i])]]

\* ... and what is left.
Remaining(a) ==
    LET pending == SubSeq(a.pending, Ripe(a) + 1, Len(a.pending))
        horizon == IF pending = <<>> THEN a.latest ELSE Head(pending)
        from == KeepFrom(a.estimates, horizon)
    IN [a EXCEPT !.pending = pending,
                 !.estimates = SubSeq(@, from + 1, Len(@))]

\* add_estimate and add_truth, before they resolve
AddEstimate(a, stamp) == [a EXCEPT !.estimates = Inserted(@, stamp)]

AddTruth(a, stamp) ==
    [a EXCEPT !.pending = Append(@, stamp),
              !.latest = IF stamp > @ THEN stamp ELSE @]

----------------------------------------------------------------------------

\* align, offline: every estimate heard is known before truth is scored.
Offline(heard, stamp) ==
    LET earlier == {e \in heard : e < stamp}
        later == {e \in heard : e > stamp}
    IN IF stamp \in heard THEN {stamp}
       ELSE IF earlier = {} \/ later = {} THEN {}
       ELSE IF Min(later) - Max(earlier) > Window THEN {}
       ELSE {Max(earlier), Min(later)}

====
