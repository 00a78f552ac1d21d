---- MODULE Metrics ----
(***************************************************************************)
(* racing_metrics: the node that watches a run and reports it.  The         *)
(* accumulator (src/metrics_accumulator.cpp) turns track positions into     *)
(* distance and laps; the node (src/node.cpp) feeds it the latest clearance *)
(* and saturation with every state message, and publishes and writes one    *)
(* report when the run completes or the harness gives up (~/finalize).      *)
(*                                                                          *)
(* Abstractions: positions, times and clearances are integers; tracking     *)
(* errors are counted, not kept; a report carries the laps, the collisions  *)
(* and the clearance of its figures, without provenance and stamp.  The car *)
(* is part of the model: it drives forward, is put back (a reset, or a      *)
(* simulator's teleport to a checkpoint), and its stamp may repeat (a held  *)
(* or STEPPED simulator) or go back.                                        *)
(***************************************************************************)
EXTENDS Integers, Sequences, FiniteSets

CONSTANTS
    Length,           \* track_length, in position units
    Laps,             \* the laps parameter
    Clearances,       \* the clearances a scan may show
    Threshold,        \* collision_threshold
    MaxDrive,         \* how far the car drives between two samples
    MaxJump,          \* how far it is put back between two samples
    MaxTime,          \* bound of the model: stamps
    MaxFailures       \* bound of the model: failed finalize calls

ASSUME MetricsAssumption ==
    /\ Length \in Nat \ {0}
    /\ Laps \in Nat \ {0}
    /\ Clearances \subseteq Nat
    /\ Threshold \in Nat
    /\ MaxDrive \in Nat
    /\ MaxJump \in Nat
    /\ MaxTime \in Nat
    /\ MaxFailures \in Nat

None == -1

VARIABLES
    (* the accumulator *)
    started,          \* started_
    startTime,        \* start_time_
    lastTime,         \* last_time_
    lastS,            \* last_s_
    distance,         \* distance_travelled_
    lapTime,          \* lap_time_
    minClearance,     \* minimum_wall_clearance_
    collisions,       \* collision_count_
    saturations,      \* control_saturation_events_
    wasColliding,     \* was_colliding_
    wasSaturated,     \* was_saturated_
    samples,          \* the length of tracking_errors_
    lapTimes,         \* lap_times_
    lastLapEnd,       \* last_lap_end_
    completed,        \* lap_completed_
    (* the node *)
    clearance,        \* latest_clearance_, None without has_clearance_
    saturated,        \* latest_saturated_
    published,        \* published_
    topic,            \* what /scenario/metrics latches: at most one message
    file,             \* the JSON on disk, at most one
    dead,             \* an exception left a callback and ended the process
    (* history *)
    stamp,            \* the stamp of the car's last message
    position,         \* the car's position along the track, laps included
    sampledFrom,      \* position at the first accepted sample
    sampledAt,        \* position at the last accepted sample
    highest,          \* the greatest distance ever reached
    seen,             \* the stamps of accepted samples
    sent,             \* reports published
    failed            \* reports not written

accumulatorVars == <<started, startTime, lastTime, lastS, distance, lapTime,
                     minClearance, collisions, saturations, wasColliding,
                     wasSaturated, samples, lapTimes, lastLapEnd, completed>>
reportVars == <<published, topic, file, sent, failed>>
carVars == <<stamp, position>>
sampleVars == <<sampledFrom, sampledAt, highest, seen>>
vars == <<accumulatorVars, clearance, saturated, reportVars, dead, carVars, sampleVars>>

----------------------------------------------------------------------------

Init ==
    /\ started = FALSE
    /\ startTime = 0
    /\ lastTime = 0
    /\ lastS = 0
    /\ distance = 0
    /\ lapTime = 0
    /\ minClearance = 0
    /\ collisions = 0
    /\ saturations = 0
    /\ wasColliding = FALSE
    /\ wasSaturated = FALSE
    /\ samples = 0
    /\ lapTimes = <<>>
    /\ lastLapEnd = 0
    /\ completed = FALSE
    /\ clearance = None
    /\ saturated = FALSE
    /\ published = FALSE
    /\ topic = <<>>
    /\ file = <<>>
    /\ dead = FALSE
    /\ stamp = 0
    /\ position = 0
    /\ sampledFrom = 0
    /\ sampledAt = 0
    /\ highest = 0
    /\ seen = {}
    /\ sent = 0
    /\ failed = 0

\* Mutant of Wrapped: a step back across the line is a lap forward.
MutantWrapped(delta) ==
    IF delta < 0 THEN delta + Length ELSE delta

\* A step of more than half the track is one the other way round.
Wrapped(delta) ==
    IF 2 * delta < -Length THEN delta + Length
    ELSE IF 2 * delta > Length THEN delta - Length
    ELSE delta

\* normalized_s: fmod, brought back onto the track.
Normalised(s) == s % Length

\* What observe() adds to distance_travelled_ for a sample at position s.
Moved(s) == IF started THEN Wrapped(Normalised(s) - lastS) ELSE 0

\* A copy of an instant is no sample.
Repeated(t) == started /\ t = lastTime

\* "elapsed_time must be monotonic"
Backward(t) == started /\ t < startTime + lapTime

\* Mutant of Reached: the distance of a lap is not yet a lap.
MutantReached(d) == IF d <= 0 THEN 0 ELSE (d - 1) \div Length

\* The laps in a distance.
Reached(d) == IF d < 0 THEN 0 ELSE d \div Length

\* The laps the while loop of observe() leaves counted at distance d.
LapsAfter(d) ==
    IF Reached(d) <= Len(lapTimes) THEN Len(lapTimes)
    ELSE IF Reached(d) > Laps THEN Laps
    ELSE Reached(d)

\* minimum_wall_clearance_ after a sample of clearance c.
LeastClearance(c) == IF started /\ minClearance < c THEN minClearance ELSE c

\* observe() of an accepted sample.  The first lap it closes takes the time
\* since the last one, any further one nothing.
Accept(t, s) ==
    LET d == distance + Moved(s)
        elapsed == IF started THEN t - startTime ELSE 0
        more == LapsAfter(d) - Len(lapTimes)
        colliding == clearance <= Threshold
    IN  /\ started' = TRUE
        /\ startTime' = IF started THEN startTime ELSE t
        /\ lastTime' = t
        /\ lastS' = Normalised(s)
        /\ distance' = d
        /\ lapTime' = elapsed
        /\ minClearance' = LeastClearance(clearance)
        /\ lapTimes' = lapTimes \o
               [i \in 1 .. more |-> IF i = 1 THEN elapsed - lastLapEnd ELSE 0]
        /\ lastLapEnd' = IF more > 0 THEN elapsed ELSE lastLapEnd
        /\ completed' = (LapsAfter(d) = Laps)
        /\ collisions' = IF colliding /\ ~wasColliding THEN collisions + 1 ELSE collisions
        /\ saturations' = IF saturated /\ ~wasSaturated THEN saturations + 1 ELSE saturations
        /\ wasColliding' = colliding
        /\ wasSaturated' = saturated
        /\ samples' = samples + 1
        /\ sampledFrom' = IF started THEN sampledFrom ELSE position'
        /\ sampledAt' = position'
        /\ highest' = IF d > highest THEN d ELSE highest
        /\ seen' = seen \cup {t}

\* summary(), all of which make_message sends
Summary ==
    [completed |-> completed,
     lapTime |-> IF completed THEN lapTimes[1] ELSE 0,
     collisions |-> collisions,
     clearance |-> IF started THEN minClearance ELSE 0,
     laps |-> Len(lapTimes),
     lapTimes |-> lapTimes]

\* to_json: laps_completed and lap_times are not written.
ToJson(report) ==
    [completed |-> report.completed, lapTime |-> report.lapTime,
     collisions |-> report.collisions, clearance |-> report.clearance]

\* Mutant of PublishAndWrite: the report counts as published once it is sent.
MutantPublishAndWrite(report, ok) ==
    /\ topic' = <<report>>
    /\ sent' = sent + 1
    /\ published' = TRUE
    /\ IF ok
       THEN file' = <<ToJson(report)>> /\ UNCHANGED failed
       ELSE failed' = failed + 1 /\ UNCHANGED file

\* publish_and_write: the topic first, then the file, whose rename is the
\* last thing that can fail.
PublishAndWrite(report, ok) ==
    /\ topic' = <<report>>
    /\ sent' = sent + 1
    /\ IF ok
       THEN file' = <<ToJson(report)>> /\ published' = TRUE /\ UNCHANGED failed
       ELSE failed' = failed + 1 /\ UNCHANGED <<file, published>>

\* Where the car is at its next message, from where it was last sampled.
Drive == position' \in sampledAt .. sampledAt + MaxDrive
PutBack == position' \in sampledAt - MaxJump .. sampledAt
Stamped == stamp' \in stamp - 1 .. stamp + 1 /\ stamp' \in 0 .. MaxTime

\* A state message the node drops: no clearance yet, or the run is reported.
IgnoreState ==
    /\ ~dead
    /\ clearance = None \/ published
    /\ Stamped
    /\ Drive \/ PutBack
    /\ UNCHANGED <<clearance, saturated, dead>>
    /\ UNCHANGED accumulatorVars
    /\ UNCHANGED reportVars
    /\ UNCHANGED sampleVars

\* Mutant of Observing: the run goes on being counted once it is reported.
MutantObserving == ~dead /\ clearance # None

Observing == ~dead /\ clearance # None /\ ~published

\* A state message of an instant already sampled.
RepeatState ==
    /\ Observing
    /\ Stamped
    /\ Drive \/ PutBack
    /\ Repeated(stamp')
    /\ UNCHANGED <<clearance, saturated, dead>>
    /\ UNCHANGED accumulatorVars
    /\ UNCHANGED reportVars
    /\ UNCHANGED sampleVars

\* A stamp that goes back ends the process: observe() throws.
RejectState ==
    /\ Observing
    /\ Stamped
    /\ ~Repeated(stamp')
    /\ Backward(stamp')
    /\ lastTime' = stamp'
    /\ dead' = TRUE
    /\ UNCHANGED <<started, startTime, lastS, distance, lapTime, minClearance,
                   collisions, saturations, wasColliding, wasSaturated, samples,
                   lapTimes, lastLapEnd, completed, clearance, saturated, position>>
    /\ UNCHANGED reportVars
    /\ UNCHANGED sampleVars

\* Mutant of AcceptState: every message is a sample.
MutantAcceptState ==
    /\ Observing
    /\ Stamped
    /\ Drive \/ PutBack
    /\ ~Backward(stamp')
    /\ Accept(stamp', position')
    /\ \/ ~completed' /\ UNCHANGED reportVars /\ UNCHANGED dead
       \/ /\ completed'
          /\ \E ok \in BOOLEAN :
                PublishAndWrite(Summary', ok) /\ dead' = ~ok
    /\ UNCHANGED <<clearance, saturated>>

\* Second mutant of AcceptState: a report that cannot be written is given up.
MutantAcceptUnwritten ==
    /\ Observing
    /\ Stamped
    /\ Drive \/ PutBack
    /\ ~Repeated(stamp')
    /\ ~Backward(stamp')
    /\ Accept(stamp', position')
    /\ \/ ~completed' /\ UNCHANGED reportVars
       \/ completed' /\ \E ok \in BOOLEAN : PublishAndWrite(Summary', ok)
    /\ UNCHANGED <<clearance, saturated, dead>>

\* A sample; the one that completes the run reports it, and a report that
\* cannot be written ends the process.
AcceptState ==
    /\ Observing
    /\ Stamped
    /\ Drive \/ PutBack
    /\ ~Repeated(stamp')
    /\ ~Backward(stamp')
    /\ Accept(stamp', position')
    /\ \/ ~completed' /\ UNCHANGED reportVars /\ UNCHANGED dead
       \/ /\ completed'
          /\ \E ok \in BOOLEAN :
                PublishAndWrite(Summary', ok) /\ dead' = ~ok
    /\ UNCHANGED <<clearance, saturated>>

\* The /ground_truth/scan and /safety/status callbacks.
HandleScan ==
    /\ ~dead
    /\ clearance' \in Clearances
    /\ UNCHANGED <<saturated, dead>>
    /\ UNCHANGED accumulatorVars
    /\ UNCHANGED reportVars
    /\ UNCHANGED carVars
    /\ UNCHANGED sampleVars

HandleStatus ==
    /\ ~dead
    /\ saturated' = ~saturated
    /\ UNCHANGED <<clearance, dead>>
    /\ UNCHANGED accumulatorVars
    /\ UNCHANGED reportVars
    /\ UNCHANGED carVars
    /\ UNCHANGED sampleVars

\* Mutant of Finalize: the report is made again at every call.
MutantFinalize ==
    /\ ~dead
    /\ failed < MaxFailures
    /\ \E ok \in BOOLEAN : PublishAndWrite(Summary, ok)
    /\ UNCHANGED <<clearance, saturated, dead>>
    /\ UNCHANGED accumulatorVars
    /\ UNCHANGED carVars
    /\ UNCHANGED sampleVars

\* ~/finalize: an unreported run is reported as it is; a failure is only
\* answered.
Finalize ==
    /\ ~dead
    /\ ~published
    /\ failed < MaxFailures
    /\ \E ok \in BOOLEAN : PublishAndWrite(Summary, ok)
    /\ UNCHANGED <<clearance, saturated, dead>>
    /\ UNCHANGED accumulatorVars
    /\ UNCHANGED carVars
    /\ UNCHANGED sampleVars

Next ==
    \/ IgnoreState
    \/ RepeatState
    \/ RejectState
    \/ AcceptState
    \/ HandleScan
    \/ HandleStatus
    \/ Finalize

Spec == Init /\ [][Next]_vars

----------------------------------------------------------------------------
(* Properties *)

Figures == [completed : BOOLEAN, lapTime : Int, collisions : Nat,
            clearance : Nat]

Messages == [completed : BOOLEAN, lapTime : Int, collisions : Nat,
             clearance : Nat, laps : Nat, lapTimes : Seq(Int)]

\* Every variable keeps its type; a normalised position is on the track.
TypeOK ==
    /\ started \in BOOLEAN /\ startTime \in Nat /\ lastTime \in Nat
    /\ lastS \in 0 .. Length - 1
    /\ distance \in Int
    /\ lapTime \in Int /\ minClearance \in Nat
    /\ collisions \in Nat /\ saturations \in Nat
    /\ wasColliding \in BOOLEAN /\ wasSaturated \in BOOLEAN
    /\ samples \in Nat
    /\ lapTimes \in Seq(Int) /\ lastLapEnd \in Int
    /\ completed \in BOOLEAN
    /\ clearance \in Nat \cup {None} /\ saturated \in BOOLEAN
    /\ published \in BOOLEAN /\ dead \in BOOLEAN
    /\ topic \in Seq(Messages) /\ file \in Seq(Figures)
    /\ stamp \in Nat /\ position \in Int
    /\ sampledFrom \in Int /\ sampledAt \in Int /\ highest \in Nat
    /\ seen \subseteq Nat
    /\ sent \in Nat /\ failed \in Nat

\* The distance the accumulator has added up from wrapped positions is the
\* distance the car has come, in either direction across the line, as long
\* as it never moves more than half the track between two samples.
DistanceTrue == distance = sampledAt - sampledFrom

LapTimesTotal ==
    LET total[n \in 0 .. Len(lapTimes)] ==
            IF n = 0 THEN 0 ELSE total[n - 1] + lapTimes[n]
    IN  total[Len(lapTimes)]

\* METRICS-1060, METRICS-1070: the laps counted are those of the greatest
\* distance ever reached, whatever was given back and driven again; their
\* times add up to the time of the last crossing and none is empty; and the
\* run is complete exactly when all are counted.
LapAccounting ==
    /\ Len(lapTimes) = IF highest \div Length > Laps THEN Laps ELSE highest \div Length
    /\ LapTimesTotal = lastLapEnd
    /\ \A i \in 1 .. Len(lapTimes) : lapTimes[i] > 0
    /\ completed <=> Len(lapTimes) = Laps

\* METRICS-1020: however long a simulator repeats an instant, it is one
\* sample, so the wall time of a hold cannot weight the percentile.
OneSamplePerInstant == samples = Cardinality(seen)

\* Every lap and every instant counts once, whatever is repeated or undone.
CountedOnce == LapAccounting /\ OneSamplePerInstant

\* The two figures the scan gives agree: a run reports a collision exactly
\* when its least clearance is within the threshold, though one is an edge
\* count over every sample and the other a minimum.
CollisionsInClearance ==
    started => (collisions > 0 <=> minClearance <= Threshold)

\* A completed run is on the topic as completed, with all of its laps, and on
\* disk as completed, or the process has ended; a report finalized before does
\* not stand in its place.
CompletionReported ==
    completed /\ ~dead => /\ published
                          /\ topic[1].completed /\ topic[1].laps = Laps
                          /\ file[1].completed

\* A report is made once: what was sent beyond the one that counts was sent
\* by a call that failed to write it.
ReportsAccounted == sent = failed + (IF published THEN 1 ELSE 0)

\* The report that counts is latched on the topic and on disk, the latter
\* without the lap figures that to_json leaves out; and both still say of the
\* run what the node has counted: it counts nothing that they miss, also when
\* the run was reported before its last sample.
PublishedIsOnDisk ==
    published => topic = <<Summary>> /\ file = <<ToJson(Summary)>>

\* The report can be relied on: it is made, made once, and what the topic and
\* the file both carry is the same, whichever of the two writes fails and
\* whoever asks for it.
ReportReliable == CompletionReported /\ ReportsAccounted /\ PublishedIsOnDisk

====
