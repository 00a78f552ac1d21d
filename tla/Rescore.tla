---- MODULE Rescore ----
(***************************************************************************)
(* scripts/compare_localization.py: a recorded run is scored again, offline *)
(* (localization.py), and held to its bounds.                               *)
(*                                                                          *)
(* Abstractions: the car drives along a line, so that a pose is how far it  *)
(* has come and an error is along it, in units that interpolate between two *)
(* estimates without a remainder; a mean is its sum, a square root and a    *)
(* ratio are not taken.                                                     *)
(***************************************************************************)
EXTENDS Aligner

CONSTANTS
    Recordings,   \* [estimates, truth], each line a stamp and where the car
                  \* is (said to be) then; a held simulator repeats its stamp
    Delta,        \* --rpe-delta, in stamps
    BoundsFiles   \* per field: [kind, limit, measured]

\* poses: the lines of a topic, in the order they were recorded in
Streams == Seq([stamp : Nat, at : Int])

ASSUME RescoreAssumption ==
    /\ Delta \in Nat \ {0}
    /\ \A r \in Recordings : r.truth \in Streams /\ r.estimates \in Streams
    /\ \A b \in BoundsFiles : \A field \in DOMAIN b : b[field].limit \in Int

NoScore == -1     \* NaN; an error is never negative

VARIABLES
    recording,
    bounds,
    result,       \* what score returns, once it has
    verdict       \* "unscored", "scored", "error", "within" or "outside"

rescoreVars == <<recording, bounds, result, verdict>>

----------------------------------------------------------------------------

(***************************************************************************)
(* localization.py                                                         *)
(***************************************************************************)

\* By the stamp, and of one stamp in the order of the file: sorted is stable.
Ahead(stream, k, l) ==
    \/ stream[k].stamp < stream[l].stamp
    \/ stream[k].stamp = stream[l].stamp /\ k <= l

\* sorted, of some lines of a stream
Ascending(stream, lines) ==
    [i \in 1 .. Cardinality(lines) |->
        CHOOSE k \in lines :
            Cardinality({l \in lines : Ahead(stream, l, k)}) = i]

\* The stamps of lines in some order, of those of a topic, and the lines of one.
StampsOf(stream, lines) == [i \in DOMAIN lines |-> stream[lines[i]].stamp]
Heard(stream) == {stream[k].stamp : k \in DOMAIN stream}
LinesAt(stream, stamp) == {k \in DOMAIN stream : stream[k].stamp = stamp}

\* One truth sample more, and the pairs that it resolves.
Paired(p, stamp) ==
    LET a == AddTruth(p.aligner, stamp)
    IN [aligner |-> Remaining(a), pairs |-> p.pairs \o Resolved(a)]

\* flush: every sample that still waits
Flush(a) ==
    [i \in DOMAIN a.pending |->
        [stamp |-> a.pending[i], from |-> EstimateAt(a.estimates, a.pending[i])]]

\* align: the aligner is given every estimate, then truth, then flushed.
AlignAll(estimates, truths) ==
    LET known == FoldLeft(AddEstimate, NewAligner, estimates)
        last == FoldLeft(Paired, [aligner |-> known, pairs |-> <<>>], truths)
    IN last.pairs \o Flush(last.aligner)

\* _interpolate, between the one or two estimates a pair was made from.  Of
\* several at a stamp bisect_left finds the first, before it is the last of its.
Interpolated(stream, pair) ==
    LET before == stream[Max(LinesAt(stream, Min(pair.from)))]
        after == stream[Min(LinesAt(stream, Max(pair.from)))]
    IN IF before.stamp = after.stamp THEN after.at
       ELSE before.at + ((pair.stamp - before.stamp) * (after.at - before.at))
                            \div (after.stamp - before.stamp)

\* position_error
Distance(a, b) == IF a > b THEN a - b ELSE b - a

\* Mutant of Added: a sample without an estimate is not counted.
MutantAdded(running, error) ==
    IF error = NoScore THEN running
    ELSE [samples |-> running.samples + 1, errors |-> running.errors + 1,
          squares |-> running.squares + error * error,
          sum |-> running.sum + error,
          maximum |-> IF running.errors = 0 \/ error > running.maximum
                      THEN error ELSE running.maximum]

\* RunningError.add
Added(running, error) ==
    IF error = NoScore THEN [running EXCEPT !.samples = @ + 1]
    ELSE [samples |-> running.samples + 1, errors |-> running.errors + 1,
          squares |-> running.squares + error * error,
          sum |-> running.sum + error,
          maximum |-> IF running.errors = 0 \/ error > running.maximum
                      THEN error ELSE running.maximum]

\* summarize
Summarized(errors) ==
    FoldLeft(Added,
             [samples |-> 0, errors |-> 0, squares |-> 0, sum |-> 0,
              maximum |-> NoScore],
             errors)

\* absolute_trajectory_error: a pair for every sample of truth, in its order
AbsoluteErrors(r, lines, pairs) ==
    [i \in DOMAIN pairs |->
        IF pairs[i].from = {} THEN NoScore
        ELSE Distance(Interpolated(r.estimates, pairs[i]),
                      r.truth[lines[i]].at)]

\* relative_pose_error: the partner of a pair is the first at least Delta
\* later, and the pairs from the first without one on are left out.
Partner(pairs, i) ==
    Min({j \in i + 1 .. Len(pairs) + 1 :
            j > Len(pairs) \/ pairs[j].stamp >= pairs[i].stamp + Delta})

RelativeErrors(r, lines, pairs) ==
    LET n == Max({k \in 0 .. Len(pairs) :
                     \A i \in 1 .. k : Partner(pairs, i) <= Len(pairs)})
        Error(i) ==
            LET end == Partner(pairs, i)
            IN IF pairs[i].from = {} \/ pairs[end].from = {} THEN NoScore
               ELSE Distance(Interpolated(r.estimates, pairs[end])
                                 - Interpolated(r.estimates, pairs[i]),
                             r.truth[lines[end]].at - r.truth[lines[i]].at)
    IN [i \in 1 .. n |-> Error(i)]

\* availability: the gaps between the estimates in truth's span and its ends.
Gaps(stream, start, end) ==
    LET inside == {k \in DOMAIN stream :
                      start <= stream[k].stamp /\ stream[k].stamp <= end}
        boundaries == <<start>> \o StampsOf(stream, Ascending(stream, inside))
                          \o <<end>>
    IN [i \in 1 .. Len(boundaries) - 1 |->
            [length |-> boundaries[i + 1] - boundaries[i], first |-> i = 1]]

\* The first is uncovered as a whole, of the others what the window leaves.
Counted(so, gap) ==
    [uncovered |-> so.uncovered +
        (IF gap.first THEN gap.length
         ELSE IF gap.length > Window THEN gap.length - Window ELSE 0),
     maximumGap |-> IF gap.length > so.maximumGap THEN gap.length
                    ELSE so.maximumGap,
     staleGaps |-> so.staleGaps + (IF gap.length > Window THEN 1 ELSE 0)]

Availability(stream, start, end) ==
    FoldLeft(Counted, [uncovered |-> 0, maximumGap |-> 0, staleGaps |-> 0],
             Gaps(stream, start, end))

----------------------------------------------------------------------------

(***************************************************************************)
(* compare_localization.py                                                 *)
(***************************************************************************)

Scored(r) ==
    LET lines == Ascending(r.truth, DOMAIN r.truth)
        estimates == Ascending(r.estimates, DOMAIN r.estimates)
        pairs == AlignAll(StampsOf(r.estimates, estimates),
                          StampsOf(r.truth, lines))
        ate == Summarized(AbsoluteErrors(r, lines, pairs))
        rpe == Summarized(RelativeErrors(r, lines, pairs))
        coverage == Availability(r.estimates, Min(Heard(r.truth)),
                                 Max(Heard(r.truth)))
    IN [ate_maximum |-> ate.maximum, ate_sum |-> ate.sum,
        ate_squares |-> ate.squares, rpe_maximum |-> rpe.maximum,
        rpe_sum |-> rpe.sum, rpe_count |-> rpe.errors,
        uncovered |-> coverage.uncovered,
        maximum_gap |-> coverage.maximumGap,
        stale_gap_count |-> coverage.staleGaps,
        sample_count |-> ate.samples, scored_count |-> ate.errors]

\* Mutant of Inside: NaN compares false, so nothing is above a maximum.
MutantInside(value, bound) ==
    \/ value = NoScore
    \/ IF bound.kind = "maximum" THEN value <= bound.limit
       ELSE value >= bound.limit

\* compare_localization: nothing scored is never in bounds.
Inside(value, bound) ==
    /\ value # NoScore
    /\ IF bound.kind = "maximum" THEN value <= bound.limit
       ELSE value >= bound.limit

RescoreInit ==
    /\ recording \in Recordings
    /\ bounds \in BoundsFiles
    /\ result = <<>>
    /\ verdict = "unscored"

\* score raises of fewer than two true samples, and availability of a span of
\* no length: one stamp, however often.
ScoreRecording ==
    /\ verdict = "unscored"
    /\ IF Cardinality(Heard(recording.truth)) < 2
       THEN verdict' = "error" /\ UNCHANGED result
       ELSE verdict' = "scored" /\ result' = Scored(recording)
    /\ UNCHANGED <<recording, bounds>>

\* compare_localization, main: a bound without its measurement is an error.
Compare ==
    /\ verdict = "scored"
    /\ verdict' =
          IF \E field \in DOMAIN bounds : ~bounds[field].measured THEN "error"
          ELSE IF \A field \in DOMAIN bounds :
                      Inside(result[field], bounds[field])
               THEN "within" ELSE "outside"
    /\ UNCHANGED <<recording, bounds, result>>

RescoreNext == ScoreRecording \/ Compare

RescoreSpec == RescoreInit /\ [][RescoreNext]_rescoreVars

----------------------------------------------------------------------------

(***************************************************************************)
(* Properties                                                              *)
(***************************************************************************)

\* What is said of the instant of a sample of truth, a line of the recording, by
\* the definition: at an estimate, or between the two nearest around it that are
\* no further apart than the window.
SaidOf(r, i) ==
    [stamp |-> r.truth[i].stamp,
     from |-> Offline(Heard(r.estimates), r.truth[i].stamp)]

Spoken(r, i) == SaidOf(r, i).from # {}

\* How far off what is said is.
Off(r, i) == Interpolated(r.estimates, SaidOf(r, i)) - r.truth[i].at

\* The samples of truth at least a delta later, and the first of them
Later(r, i) ==
    {k \in DOMAIN r.truth : r.truth[k].stamp >= r.truth[i].stamp + Delta}

Then(r, i) ==
    CHOOSE k \in Later(r, i) : \A l \in Later(r, i) : Ahead(r.truth, k, l)

\* The unit of time after t is fresh: an estimate of truth's span is no further
\* back than the window at its end.
Fresh(r, t) ==
    \E e \in Heard(r.estimates) :
        Min(Heard(r.truth)) <= e /\ e <= t /\ t + 1 - e <= Window

\* The score is that of the run, by the definitions: each sample of truth, every
\* repeat of one too, against what was said of that instant, the motion from it
\* to the first sample a delta later, and the time of truth's span that no
\* estimate is fresh in; and an estimate that is off by the same everywhere has
\* no relative error (localization.py, EVAL-1030; "blind to a constant offset").
ScoreIsOfTheRun ==
    verdict = "scored" =>
        LET r == recording
            spoken == {i \in DOMAIN r.truth : Spoken(r, i)}
            moved == {i \in spoken : Later(r, i) # {} /\ Then(r, i) \in spoken}
            span == Min(Heard(r.truth)) .. Max(Heard(r.truth)) - 1
        IN /\ result.sample_count = Len(r.truth)
           /\ result.scored_count = Cardinality(spoken)
           /\ result.ate_sum =
                 FoldFunction(+, 0, [i \in spoken |-> Distance(Off(r, i), 0)])
           /\ result.ate_maximum # NoScore =>
                 result.ate_maximum = Max({Distance(Off(r, i), 0) : i \in spoken})
           /\ result.rpe_count = Cardinality(moved)
           /\ result.rpe_sum =
                 FoldFunction(+, 0,
                     [i \in moved |-> Distance(Off(r, Then(r, i)), Off(r, i))])
           /\ result.uncovered = Cardinality({t \in span : ~Fresh(r, t)})
           /\ (\A i, k \in spoken : Off(r, i) = Off(r, k)) =>
                 result.rpe_maximum \in {0, NoScore}

\* A run that is within its bounds was scored: an estimate that says nothing
\* does not pass for one without error (compare_localization, "nothing scored
\* is never in bounds").
WithinMeansScored ==
    (/\ verdict = "within" /\ "ate_maximum" \in DOMAIN bounds
     /\ bounds.ate_maximum.kind = "maximum") =>
        /\ result.scored_count > 0
        /\ \A i \in DOMAIN recording.truth :
              Spoken(recording, i) =>
                  Distance(Off(recording, i), 0) <= bounds.ate_maximum.limit

\* A score that is of the run, and bounds that only a score passes.
ScoringSound == ScoreIsOfTheRun /\ WithinMeansScored

====
