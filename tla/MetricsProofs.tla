---- MODULE MetricsProofs ----
(***************************************************************************)
(* Theorems about racing_metrics, for every track, number of laps and run,  *)
(* and without the bounds TLC needs.                                        *)
(***************************************************************************)
EXTENDS Metrics, FiniteSetTheorems, TLAPS

USE MetricsAssumption

\* Division by the track length.
LEMMA Divide ==
    ASSUME NEW d \in Int
    PROVE  /\ d \div Length \in Int
           /\ d >= 0 => d \div Length \in Nat
           /\ d % Length \in 0 .. Length - 1
           /\ d % Length = d - Length * (d \div Length)
  <1>1. d \div Length \in Int /\ d % Length \in 0 .. Length - 1
    OBVIOUS
  <1>2. d >= 0 => d \div Length \in Nat
    OBVIOUS
  <1>3. d % Length = d - Length * (d \div Length)
    BY Z3
  <1> QED BY <1>1, <1>2, <1>3

\* A whole number of tracks that is short of one and a half is at most one.
LEMMA OneTrack ==
    ASSUME NEW k \in Int, -3 * Length < 2 * (Length * k), 2 * (Length * k) < 3 * Length
    PROVE  k \in {-1, 0, 1}
  OBVIOUS

\* Wrapping recovers a step of less than half the track from the two
\* normalised positions, wherever the line lies between them.
LEMMA WrapRecovers ==
    ASSUME NEW p \in Int, NEW q \in Int,
           2 * (q - p) < Length, -Length < 2 * (q - p)
    PROVE  Wrapped(Normalised(q) - Normalised(p)) = q - p
  <1>1. PICK i \in Int, r \in 0 .. Length - 1 : r = p % Length /\ r = p - Length * i
    BY Divide
  <1>2. PICK j \in Int, t \in 0 .. Length - 1 : t = q % Length /\ t = q - Length * j
    BY Divide
  <1>3. PICK k \in Int : k = j - i
    OBVIOUS
  <1>4. Length * k = Length * j - Length * i /\ Length * k \in Int
    BY <1>3
  <1>5. PICK d \in Int : d = t - r
    OBVIOUS
  <1>6. d = (q - p) - Length * k /\ -Length < d /\ d < Length
    <2>1. r = p - Length * i /\ t = q - Length * j /\ Length * i \in Int /\ Length * j \in Int
      BY <1>1, <1>2
    <2> QED BY <1>4, <1>5, <2>1
  <1>7. k \in {-1, 0, 1}
    <2>1. -3 * Length < 2 * (Length * k) /\ 2 * (Length * k) < 3 * Length
      BY <1>4, <1>6
    <2> QED BY <2>1, OneTrack
  <1>8. (IF 2 * d < -Length THEN d + Length
         ELSE IF 2 * d > Length THEN d - Length ELSE d) = q - p
    <2>1. CASE k = 0
      BY <1>4, <1>6, <2>1
    <2>2. CASE k = 1
      BY <1>4, <1>6, <2>2
    <2>3. CASE k = -1
      BY <1>4, <1>6, <2>3
    <2> QED BY <1>7, <2>1, <2>2, <2>3
  <1>9. Normalised(q) - Normalised(p) = d
    BY <1>1, <1>2, <1>5 DEF Normalised
  <1> QED BY <1>8, <1>9 DEF Wrapped

----------------------------------------------------------------------------

\* The laps counted never fall, and never exceed the laps asked for.
LEMMA LapsGrow ==
    ASSUME NEW d \in Int, Len(lapTimes) \in Nat, Len(lapTimes) <= Laps
    PROVE  /\ LapsAfter(d) \in Nat
           /\ Len(lapTimes) <= LapsAfter(d)
           /\ LapsAfter(d) <= Laps
  <1>1. Reached(d) \in Nat
    <2>1. CASE d < 0
      BY <2>1 DEF Reached
    <2>2. CASE d >= 0
      <3>1. d \div Length \in Nat
        BY <2>2, Divide
      <3> QED BY <2>2, <3>1 DEF Reached
    <2> QED BY <2>1, <2>2
  <1> QED BY <1>1 DEF LapsAfter

\* The inductive form of the type invariant.
TypeInv ==
    /\ TypeOK
    /\ Len(lapTimes) <= Laps
    /\ completed <=> Len(lapTimes) = Laps

\* What observe() adds to the lap times.
LEMMA LapTimesGrow ==
    ASSUME TypeInv, NEW d \in Int, NEW e \in Int
    PROVE  LET more == LapsAfter(d) - Len(lapTimes)
               grown == lapTimes \o [i \in 1 .. more |-> IF i = 1 THEN e - lastLapEnd ELSE 0]
           IN  grown \in Seq(Int) /\ Len(grown) = LapsAfter(d) /\ more \in Nat
  <1>1. lapTimes \in Seq(Int) /\ Len(lapTimes) \in Nat /\ lastLapEnd \in Int
    BY DEF TypeInv, TypeOK
  <1>2. PICK more \in Nat : more = LapsAfter(d) - Len(lapTimes)
    BY <1>1, LapsGrow DEF TypeInv
  <1> DEFINE added == [i \in 1 .. more |-> IF i = 1 THEN e - lastLapEnd ELSE 0]
  <1>3. added \in Seq(Int) /\ Len(added) = more
    <2>1. \A i \in 1 .. more : (IF i = 1 THEN e - lastLapEnd ELSE 0) \in Int
      BY <1>1
    <2>2. added \in [1 .. more -> Int]
      BY <2>1
    <2> QED BY <2>2
  <1> HIDE DEF added
  <1>4. lapTimes \o added \in Seq(Int) /\ Len(lapTimes \o added) = Len(lapTimes) + more
    BY <1>1, <1>3
  <1>5. Len(lapTimes) + more = LapsAfter(d) /\ LapsAfter(d) \in Nat
    BY <1>1, <1>2, LapsGrow DEF TypeInv
  <1> QED BY <1>2, <1>4, <1>5 DEF added

LEMMA MovedType ==
    ASSUME TypeOK, NEW s \in Int
    PROVE  Normalised(s) \in 0 .. Length - 1 /\ Moved(s) \in Int
  <1>1. PICK r \in 0 .. Length - 1 : r = Normalised(s)
    BY Divide DEF Normalised
  <1>2. PICK d \in Int : d = r - lastS
    BY DEF TypeOK
  <1>3. Wrapped(d) \in Int
    BY DEF Wrapped
  <1>4. Normalised(s) - lastS = d
    BY <1>1, <1>2
  <1> QED BY <1>1, <1>3, <1>4 DEF Moved

\* A sample leaves the accumulator and the history of samples well typed.
LEMMA AcceptTypes ==
    ASSUME TypeInv, NEW t \in Nat, NEW s \in Int, NEW p \in Int,
           clearance # None, position' = p, Accept(t, s)
    PROVE  /\ started' \in BOOLEAN /\ startTime' \in Nat /\ lastTime' \in Nat
           /\ lastS' \in 0 .. Length - 1
           /\ distance' \in Int
           /\ lapTime' \in Int /\ minClearance' \in Nat
           /\ collisions' \in Nat /\ saturations' \in Nat
           /\ wasColliding' \in BOOLEAN /\ wasSaturated' \in BOOLEAN
           /\ samples' \in Nat
           /\ lapTimes' \in Seq(Int) /\ lastLapEnd' \in Int
           /\ completed' \in BOOLEAN
           /\ sampledFrom' \in Int /\ sampledAt' \in Int /\ highest' \in Nat
           /\ seen' \subseteq Nat
           /\ Len(lapTimes') <= Laps
           /\ completed' <=> Len(lapTimes') = Laps
  <1>a. TypeOK /\ distance \in Int /\ startTime \in Int
    BY DEF TypeInv, TypeOK
  <1>b. PICK moved \in Int : moved = Moved(s)
    BY <1>a, MovedType
  <1>1. PICK d \in Int : d = distance + Moved(s)
    BY <1>a, <1>b
  <1>2. PICK e \in Int : e = IF started THEN t - startTime ELSE 0
    <2>1. CASE started
      BY <1>a, <2>1
    <2>2. CASE ~started
      BY <2>2
    <2> QED BY <2>1, <2>2
  <1>c. Normalised(s) \in 0 .. Length - 1
    BY <1>a, MovedType
  <1> USE DEF TypeInv, TypeOK
  <1>3. started' \in BOOLEAN /\ startTime' \in Nat /\ lastTime' \in Nat
    BY DEF Accept
  <1>4. lastS' \in 0 .. Length - 1 /\ distance' \in Int /\ lapTime' \in Int
    BY <1>1, <1>2, <1>c DEF Accept
  <1>5. minClearance' \in Nat
    BY DEF Accept, LeastClearance
  <1>6. collisions' \in Nat /\ saturations' \in Nat /\ wasSaturated' \in BOOLEAN
    BY DEF Accept
  <1>7. wasColliding' \in BOOLEAN /\ completed' \in BOOLEAN
    BY DEF Accept
  <1>8. samples' \in Nat /\ sampledFrom' \in Int /\ sampledAt' \in Int /\ seen' \subseteq Nat
    BY DEF Accept
  <1>9. highest' \in Nat
    <2>1. highest' = IF d > highest THEN d ELSE highest
      BY <1>1 DEF Accept
    <2> QED BY <2>1
  <1>10. lapTimes' \in Seq(Int) /\ Len(lapTimes') = LapsAfter(d)
    BY <1>1, <1>2, LapTimesGrow DEF Accept
  <1>11. LapsAfter(d) <= Laps
    BY LapsGrow
  <1>12. lastLapEnd' \in Int
    BY <1>1, <1>2 DEF Accept
  <1>13. completed' <=> LapsAfter(d) = Laps
    BY <1>1 DEF Accept
  <1> QED BY <1>3, <1>4, <1>5, <1>6, <1>7, <1>8, <1>9, <1>10, <1>11, <1>12, <1>13

----------------------------------------------------------------------------

\* What is summarised is well formed, before a step or after it: a completed
\* run has a first lap to time.
LEMMA SummaryForm ==
    ASSUME NEW c \in BOOLEAN, NEW k \in Nat, NEW b \in BOOLEAN, NEW m \in Nat,
           NEW times \in Seq(Int), c => Len(times) = Laps
    PROVE  [completed |-> c, lapTime |-> IF c THEN times[1] ELSE 0,
            collisions |-> k, clearance |-> IF b THEN m ELSE 0,
            laps |-> Len(times), lapTimes |-> times] \in Messages
  <1>1. PICK n \in Nat : n = Len(times)
    OBVIOUS
  <1>2. PICK first \in Int : first = IF c THEN times[1] ELSE 0
    <2>1. CASE c
      BY <2>1
    <2>2. CASE ~c
      BY <2>2
    <2> QED BY <2>1, <2>2
  <1>3. PICK least \in Nat : least = IF b THEN m ELSE 0
    OBVIOUS
  <1>4. [completed |-> c, lapTime |-> first, collisions |-> k,
         clearance |-> least, laps |-> n, lapTimes |-> times] \in Messages
    BY DEF Messages
  <1> QED BY <1>1, <1>2, <1>3, <1>4

LEMMA SummaryType == TypeInv => Summary \in Messages
  <1> SUFFICES ASSUME TypeInv PROVE Summary \in Messages
    OBVIOUS
  <1>1. /\ completed \in BOOLEAN /\ collisions \in Nat /\ started \in BOOLEAN
        /\ minClearance \in Nat /\ lapTimes \in Seq(Int)
        /\ completed => Len(lapTimes) = Laps
    BY DEF TypeInv, TypeOK
  <1> QED BY <1>1, SummaryForm DEF Summary

\* The file's figures are some of the message's.
LEMMA JsonType ==
    ASSUME NEW r \in Messages
    PROVE  ToJson(r) \in Figures /\ ToJson(r).completed = r.completed
  BY DEF ToJson, Messages, Figures

\* Publishing leaves what is reported well typed.
LEMMA PublishTypes ==
    ASSUME TypeOK, NEW r \in Messages, NEW ok \in BOOLEAN, PublishAndWrite(r, ok)
    PROVE  /\ topic' \in Seq(Messages) /\ file' \in Seq(Figures)
           /\ sent' \in Nat /\ failed' \in Nat /\ published' \in BOOLEAN
  <1>1. <<r>> \in Seq(Messages) /\ <<ToJson(r)>> \in Seq(Figures)
    BY JsonType
  <1>2. topic' = <<r>> /\ sent' = sent + 1 /\ sent \in Nat /\ failed \in Nat
    BY DEF PublishAndWrite, TypeOK
  <1>3. CASE ok
    <2>1. file' = <<ToJson(r)>> /\ published' = TRUE /\ failed' = failed
      BY <1>3 DEF PublishAndWrite
    <2> QED BY <1>1, <1>2, <2>1
  <1>4. CASE ~ok
    <2>1. file' = file /\ published' = published /\ failed' = failed + 1
      BY <1>4 DEF PublishAndWrite
    <2>2. file \in Seq(Figures) /\ published \in BOOLEAN
      BY DEF TypeOK
    <2> QED BY <1>1, <1>2, <2>1, <2>2
  <1> QED BY <1>3, <1>4

LEMMA TypeStep == TypeInv /\ [Next]_vars => TypeInv'
  <1> SUFFICES ASSUME TypeInv, [Next]_vars PROVE TypeInv'
    OBVIOUS
  <1>0. TypeOK
    BY DEF TypeInv
  <1> USE DEF accumulatorVars, reportVars, carVars, sampleVars
  <1>1. CASE IgnoreState
    <2>1. stamp' \in Nat /\ position' \in Int
      BY <1>0, <1>1 DEF IgnoreState, Stamped, Drive, PutBack, TypeOK
    <2> QED BY <1>1, <2>1 DEF IgnoreState, TypeInv, TypeOK
  <1>2. CASE RepeatState
    <2>1. stamp' \in Nat /\ position' \in Int
      BY <1>0, <1>2 DEF RepeatState, Stamped, Drive, PutBack, TypeOK
    <2> QED BY <1>2, <2>1 DEF RepeatState, TypeInv, TypeOK
  <1>3. CASE RejectState
    <2>1. stamp' \in Nat
      BY <1>0, <1>3 DEF RejectState, Stamped, TypeOK
    <2> QED BY <1>3, <2>1 DEF RejectState, TypeInv, TypeOK
  <1>4. CASE AcceptState
    <2>1. PICK t \in Nat, p \in Int : stamp' = t /\ position' = p
      <3>1. Stamped /\ (Drive \/ PutBack)
        BY <1>4 DEF AcceptState
      <3>2. stamp' \in Nat
        BY <3>1 DEF Stamped
      <3>3. position' \in Int
        BY <1>0, <3>1 DEF Drive, PutBack, TypeOK
      <3> QED BY <3>2, <3>3
    <2>2. Accept(t, p) /\ clearance # None
      BY <1>4, <2>1 DEF AcceptState, Observing
    <2>3. /\ started' \in BOOLEAN /\ startTime' \in Nat /\ lastTime' \in Nat
          /\ lastS' \in 0 .. Length - 1
          /\ distance' \in Int
          /\ lapTime' \in Int /\ minClearance' \in Nat
          /\ collisions' \in Nat /\ saturations' \in Nat
          /\ wasColliding' \in BOOLEAN /\ wasSaturated' \in BOOLEAN
          /\ samples' \in Nat
          /\ lapTimes' \in Seq(Int) /\ lastLapEnd' \in Int
          /\ completed' \in BOOLEAN
          /\ sampledFrom' \in Int /\ sampledAt' \in Int /\ highest' \in Nat
          /\ seen' \subseteq Nat
          /\ Len(lapTimes') <= Laps
          /\ completed' <=> Len(lapTimes') = Laps
      BY <2>1, <2>2, AcceptTypes
    <2>4. /\ topic' \in Seq(Messages) /\ file' \in Seq(Figures)
          /\ sent' \in Nat /\ failed' \in Nat
          /\ published' \in BOOLEAN /\ dead' \in BOOLEAN
      <3>1. CASE ~completed'
        BY <1>0, <1>4, <3>1 DEF AcceptState, TypeOK
      <3>2. CASE completed'
        <4>1. PICK ok \in BOOLEAN : PublishAndWrite(Summary', ok) /\ dead' = ~ok
          BY <1>4, <3>2 DEF AcceptState
        <4>2. Summary' \in Messages
          BY <2>3, SummaryForm DEF Summary
        <4> QED BY <1>0, <4>1, <4>2, PublishTypes
      <3> QED BY <3>1, <3>2
    <2>5. clearance' \in Nat \cup {None} /\ saturated' \in BOOLEAN
      BY <1>0, <1>4 DEF AcceptState, TypeOK
    <2> QED BY <2>1, <2>3, <2>4, <2>5 DEF TypeInv, TypeOK
  <1>5. CASE HandleScan
    <2>1. clearance' \in Nat
      BY <1>5 DEF HandleScan
    <2> QED BY <1>5, <2>1 DEF HandleScan, TypeInv, TypeOK
  <1>6. CASE HandleStatus
    BY <1>6 DEF HandleStatus, TypeInv, TypeOK
  <1>7. CASE Finalize
    <2>1. PICK ok \in BOOLEAN : PublishAndWrite(Summary, ok)
      BY <1>7 DEF Finalize
    <2>2. Summary \in Messages
      BY SummaryType
    <2>3. /\ topic' \in Seq(Messages) /\ file' \in Seq(Figures)
          /\ sent' \in Nat /\ failed' \in Nat /\ published' \in BOOLEAN
      BY <1>0, <2>1, <2>2, PublishTypes
    <2> QED BY <1>7, <2>3 DEF Finalize, TypeInv, TypeOK
  <1>8. CASE UNCHANGED vars
    BY <1>8 DEF vars, TypeInv, TypeOK
  <1> QED BY <1>1, <1>2, <1>3, <1>4, <1>5, <1>6, <1>7, <1>8 DEF Next

LEMMA TypeInvariant == Spec => []TypeInv
  <1>1. Init => TypeInv
    <2> SUFFICES ASSUME Init PROVE TypeInv
      OBVIOUS
    <2>1. lapTimes = <<>> /\ completed = FALSE
      BY DEF Init
    <2>2. TypeOK
      <3>1. lapTimes \in Seq(Int) /\ topic \in Seq(Messages) /\ file \in Seq(Figures)
        BY DEF Init
      <3>2. 0 \in 0 .. Length - 1 /\ 0 \in Nat /\ 0 \in Int
        OBVIOUS
      <3>3. lastS \in 0 .. Length - 1 /\ clearance \in Nat \cup {None}
        BY <3>2 DEF Init
      <3> QED BY <3>1, <3>2, <3>3 DEF Init, TypeOK
    <2> QED BY <2>1, <2>2 DEF TypeInv
  <1> QED BY <1>1, TypeStep, PTL DEF Spec

\* Every variable of the node keeps its type, and a normalised position is on
\* the track, whatever the car does (metrics_accumulator.cpp, node.cpp).
THEOREM TypeCorrect == Spec => []TypeOK
  <1>1. TypeInv => TypeOK
    BY DEF TypeInv
  <1> QED BY <1>1, TypeInvariant, PTL

----------------------------------------------------------------------------
(* The report *)

ReportInv == ReportsAccounted /\ PublishedIsOnDisk /\ CompletionReported

\* A report sent while none counts: what counts afterwards is what was written.
LEMMA PublishCounts ==
    ASSUME TypeOK, ~published, sent = failed,
           NEW ok \in BOOLEAN, PublishAndWrite(Summary', ok)
    PROVE  /\ ReportsAccounted'
           /\ PublishedIsOnDisk'
           /\ topic' = <<Summary'>>
           /\ ok => published' /\ file' = <<ToJson(Summary')>>
  <1>1. PICK n \in Nat : n = sent /\ n = failed
    BY DEF TypeOK
  <1>2. sent' = n + 1 /\ topic' = <<Summary'>>
    BY <1>1 DEF PublishAndWrite
  <1>3. CASE ok
    <2>1. failed' = n /\ published' = TRUE /\ file' = <<ToJson(Summary')>>
      BY <1>1, <1>3 DEF PublishAndWrite
    <2>2. n + 1 = n + (IF TRUE THEN 1 ELSE 0)
      OBVIOUS
    <2>3. ReportsAccounted'
      BY <1>2, <2>1, <2>2 DEF ReportsAccounted
    <2>4. PublishedIsOnDisk'
      BY <1>2, <2>1 DEF PublishedIsOnDisk
    <2> QED BY <1>2, <2>1, <2>3, <2>4
  <1>4. CASE ~ok
    <2>1. failed' = n + 1 /\ published' = FALSE
      BY <1>1, <1>4 DEF PublishAndWrite, TypeOK
    <2>2. n + 1 = n + 1 + (IF FALSE THEN 1 ELSE 0)
      OBVIOUS
    <2>3. ReportsAccounted'
      BY <1>2, <2>1, <2>2 DEF ReportsAccounted
    <2> QED BY <1>2, <1>4, <2>1, <2>3 DEF PublishedIsOnDisk
  <1> QED BY <1>3, <1>4

LEMMA ReportStep == TypeInv /\ ReportInv /\ [Next]_vars => ReportInv'
  <1> SUFFICES ASSUME TypeInv, ReportInv, [Next]_vars PROVE ReportInv'
    OBVIOUS
  <1>0. TypeOK
    BY DEF TypeInv
  <1>a. ~published => sent = failed
    BY <1>0 DEF ReportInv, ReportsAccounted, TypeOK
  <1> USE DEF accumulatorVars, reportVars
  <1> DEFINE Figured == <<started, completed, lapTimes, collisions, minClearance>>
             Untouched == UNCHANGED <<reportVars, Figured>>
  <1>1. CASE Untouched /\ (dead' = dead \/ dead')
    <2>1. Summary' = Summary
      BY <1>1 DEF Summary
    <2> QED BY <1>1, <2>1
            DEF ReportInv, ReportsAccounted, PublishedIsOnDisk, CompletionReported
  <1>2. CASE IgnoreState \/ RepeatState \/ RejectState \/ HandleScan \/ HandleStatus \/ UNCHANGED vars
    <2>1. Untouched /\ (dead' = dead \/ dead')
      BY <1>2 DEF IgnoreState, RepeatState, RejectState, HandleScan, HandleStatus, vars
    <2> QED BY <1>1, <2>1
  <1>3. CASE AcceptState
    <2>1. ~published
      BY <1>3 DEF AcceptState, Observing
    <2>2. CASE ~completed'
      <3>1. UNCHANGED reportVars
        BY <1>3, <2>2 DEF AcceptState
      <3> QED BY <2>1, <2>2, <3>1
              DEF ReportInv, ReportsAccounted, PublishedIsOnDisk, CompletionReported
    <2>3. CASE completed'
      <3>1. PICK ok \in BOOLEAN : PublishAndWrite(Summary', ok) /\ dead' = ~ok
        BY <1>3, <2>3 DEF AcceptState
      <3>2. /\ ReportsAccounted'
            /\ PublishedIsOnDisk'
            /\ topic' = <<Summary'>>
            /\ ok => published' /\ file' = <<ToJson(Summary')>>
        BY <1>0, <1>a, <2>1, <3>1, PublishCounts
      <3>3. Len(lapTimes') = Laps
        <4>1. TypeInv'
          BY TypeStep
        <4> QED BY <2>3, <4>1 DEF TypeInv
      <3>4. topic'[1].completed = completed' /\ topic'[1].laps = Laps
        BY <3>2, <3>3 DEF Summary
      <3>5. ok => file'[1].completed = completed'
        BY <3>2 DEF Summary, ToJson
      <3>6. CompletionReported'
        BY <2>3, <3>1, <3>2, <3>4, <3>5 DEF CompletionReported
      <3> QED BY <3>2, <3>6 DEF ReportInv
    <2> QED BY <2>2, <2>3
  <1>4. CASE Finalize
    <2>1. ~published /\ ~dead /\ UNCHANGED <<dead, Figured>>
      BY <1>4 DEF Finalize
    <2>2. ~completed
      BY <2>1 DEF ReportInv, CompletionReported
    <2>3. PICK ok \in BOOLEAN : PublishAndWrite(Summary, ok)
      BY <1>4 DEF Finalize
    <2>4. Summary' = Summary
      BY <2>1 DEF Summary
    <2>5. ReportsAccounted' /\ PublishedIsOnDisk'
      BY <1>0, <1>a, <2>1, <2>3, <2>4, PublishCounts
    <2>6. CompletionReported'
      BY <2>1, <2>2 DEF CompletionReported
    <2> QED BY <2>5, <2>6 DEF ReportInv
  <1> QED BY <1>2, <1>3, <1>4 DEF Next

LEMMA ReportInvariant == Spec => []ReportInv
  <1>1. Init => ReportInv
    BY DEF Init, ReportInv, ReportsAccounted, PublishedIsOnDisk, CompletionReported
  <1> QED BY <1>1, ReportStep, TypeInvariant, PTL DEF Spec

\* One report counts, and whatever else was sent was sent by a call that
\* could not write it (publish_and_write, finalize).
THEOREM ReportsAccountedHolds == Spec => []ReportsAccounted
  <1>1. ReportInv => ReportsAccounted
    BY DEF ReportInv
  <1> QED BY <1>1, ReportInvariant, PTL

\* The report that counts is on the topic and, less the lap figures, on disk,
\* and the node has counted nothing since (publish_and_write, to_json, observe).
THEOREM PublishedIsOnDiskHolds == Spec => []PublishedIsOnDisk
  <1>1. ReportInv => PublishedIsOnDisk
    BY DEF ReportInv
  <1> QED BY <1>1, ReportInvariant, PTL

\* A run that completes is reported as complete, or its process has ended
\* (MetricsNode::observe).
THEOREM CompletionReportedHolds == Spec => []CompletionReported
  <1>1. ReportInv => CompletionReported
    BY DEF ReportInv
  <1> QED BY <1>1, ReportInvariant, PTL

----------------------------------------------------------------------------
(* The samples *)

\* While the node lives its stamps only grow, so a stamp it accepts is new.
SampleInv ==
    /\ IsFiniteSet(seen)
    /\ samples = Cardinality(seen)
    /\ ~started => seen = {}
    /\ started /\ ~dead => /\ lastTime = startTime + lapTime
                           /\ \A u \in seen : u <= lastTime

\* Between two samples the car comes less than half the track, either way.
DistanceInv ==
    /\ DistanceTrue
    /\ started => lastS = Normalised(sampledAt)
    /\ ~started => distance = 0 /\ sampledAt = sampledFrom

\* The first sample of a collision is counted.
CollisionInv ==
    /\ CollisionsInClearance
    /\ ~started => collisions = 0 /\ ~wasColliding
    /\ wasColliding => collisions > 0

\* Only an accepted sample, or the end of the process, touches any of it.
LEMMA OnlySamples ==
    ASSUME [Next]_vars, ~AcceptState
    PROVE  /\ UNCHANGED <<started, startTime, lastS, distance, lapTime, minClearance,
                          collisions, wasColliding, samples, sampledFrom, sampledAt, seen,
                          lapTimes, lastLapEnd, highest>>
           /\ dead' \/ UNCHANGED <<lastTime, dead>>
  BY DEF Next, IgnoreState, RepeatState, RejectState, HandleScan, HandleStatus, Finalize,
         vars, accumulatorVars, reportVars, carVars, sampleVars

\* What a sample is: a new stamp, of a car near where it was last sampled.
LEMMA SampleTaken ==
    ASSUME TypeInv, AcceptState
    PROVE  \E t \in Nat, p \in Int :
              /\ position' = p
              /\ p \in sampledAt .. sampledAt + MaxDrive \/ p \in sampledAt - MaxJump .. sampledAt
              /\ Accept(t, p)
              /\ started => t # lastTime /\ t >= startTime + lapTime
              /\ clearance # None /\ ~dead
  <1>1. Stamped /\ (Drive \/ PutBack) /\ sampledAt \in Int /\ startTime \in Int /\ lapTime \in Int
    BY DEF AcceptState, TypeInv, TypeOK
  <1>2. PICK t \in Nat : t = stamp'
    BY <1>1 DEF Stamped
  <1>3. PICK p \in Int : p = position'
    BY <1>1 DEF Drive, PutBack
  <1>4. p \in sampledAt .. sampledAt + MaxDrive \/ p \in sampledAt - MaxJump .. sampledAt
    BY <1>1, <1>3 DEF Drive, PutBack
  <1>5. Accept(t, p) /\ ~Repeated(t) /\ ~Backward(t) /\ clearance # None /\ ~dead
    BY <1>2, <1>3 DEF AcceptState, Observing
  <1>6. started => t # lastTime /\ t >= startTime + lapTime
    BY <1>1, <1>5 DEF Repeated, Backward
  <1> QED BY <1>3, <1>4, <1>5, <1>6

LEMMA SampleStep == TypeInv /\ SampleInv /\ [Next]_vars => SampleInv'
  <1> SUFFICES ASSUME TypeInv, SampleInv, [Next]_vars PROVE SampleInv'
    OBVIOUS
  <1>1. CASE ~AcceptState
    BY <1>1, OnlySamples DEF SampleInv
  <1>2. CASE AcceptState
    <2>1. PICK t \in Nat, p \in Int :
             /\ Accept(t, p) /\ ~dead
             /\ started => t # lastTime /\ t >= startTime + lapTime
      BY <1>2, SampleTaken
    <2>2. PICK n \in Nat : n = samples /\ n = Cardinality(seen)
      BY DEF TypeInv, TypeOK, SampleInv
    <2>3. started' = TRUE /\ seen' = seen \cup {t} /\ lastTime' = t /\ samples' = n + 1
      BY <2>1, <2>2 DEF Accept
    <2>4. \A u \in seen : u \in Nat /\ u < t
      <3>1. CASE started
        <4>1. lastTime \in Nat /\ lastTime = startTime + lapTime /\ seen \subseteq Nat
              /\ \A u \in seen : u <= lastTime
          BY <2>1, <3>1 DEF SampleInv, TypeInv, TypeOK
        <4> QED BY <2>1, <3>1, <4>1
      <3>2. CASE ~started
        BY <3>2 DEF SampleInv
      <3> QED BY <3>1, <3>2
    <2>5. t \notin seen
      BY <2>4
    <2>6. IsFiniteSet(seen \cup {t}) /\ Cardinality(seen \cup {t}) = n + 1
      BY <2>2, <2>5, FS_AddElement DEF SampleInv
    <2>7. lastTime' = startTime' + lapTime'
      <3>1. CASE started
        <4>1. PICK a \in Nat : a = startTime
          BY DEF TypeInv, TypeOK
        <4>2. startTime' = a /\ lapTime' = t - a
          BY <2>1, <3>1, <4>1 DEF Accept
        <4>3. t = a + (t - a)
          OBVIOUS
        <4> QED BY <2>3, <4>2, <4>3
      <3>2. CASE ~started
        <4>1. startTime' = t /\ lapTime' = 0
          BY <2>1, <3>2 DEF Accept
        <4>2. t = t + 0
          OBVIOUS
        <4> QED BY <2>3, <4>1, <4>2
      <3> QED BY <3>1, <3>2
    <2>8. \A u \in seen' : u <= lastTime'
      <3>1. \A u \in seen \cup {t} : u <= t
        BY <2>4
      <3> QED BY <2>3, <3>1
    <2> QED BY <2>3, <2>6, <2>7, <2>8 DEF SampleInv
  <1> QED BY <1>1, <1>2

\* METRICS-1020: however often an instant is republished, it is one sample
\* (MetricsAccumulator::observe).
THEOREM OneSamplePerInstantHolds == Spec => []OneSamplePerInstant
  <1>1. Init => SampleInv
    BY FS_EmptySet DEF Init, SampleInv
  <1>2. SampleInv => OneSamplePerInstant
    BY DEF SampleInv, OneSamplePerInstant
  <1> QED BY <1>1, <1>2, SampleStep, TypeInvariant, PTL DEF Spec

LEMMA DistanceStep ==
    ASSUME 2 * MaxDrive < Length, 2 * MaxJump < Length
    PROVE  TypeInv /\ DistanceInv /\ [Next]_vars => DistanceInv'
  <1> SUFFICES ASSUME TypeInv, DistanceInv, [Next]_vars PROVE DistanceInv'
    OBVIOUS
  <1>1. CASE ~AcceptState
    BY <1>1, OnlySamples DEF DistanceInv, DistanceTrue, Normalised
  <1>2. CASE AcceptState
    <2>1. PICK t \in Nat, p \in Int :
             /\ position' = p
             /\ p \in sampledAt .. sampledAt + MaxDrive \/ p \in sampledAt - MaxJump .. sampledAt
             /\ Accept(t, p)
      BY <1>2, SampleTaken
    <2>2. PICK a \in Int, f \in Int, d \in Int :
             a = sampledAt /\ f = sampledFrom /\ d = distance /\ d = a - f
      BY DEF TypeInv, TypeOK, DistanceInv, DistanceTrue
    <2>3. started' = TRUE /\ lastS' = Normalised(p) /\ sampledAt' = p
          /\ distance' = d + Moved(p)
          /\ sampledFrom' = IF started THEN f ELSE p
      BY <2>1, <2>2 DEF Accept
    <2>4. distance' = sampledAt' - sampledFrom'
      <3>1. CASE started
        <4>1. 2 * (p - a) < Length /\ -Length < 2 * (p - a)
          BY <2>1, <2>2
        <4>2. Moved(p) = p - a
          BY <2>2, <3>1, <4>1, WrapRecovers DEF Moved, DistanceInv
        <4>3. d + (p - a) = p - f
          BY <2>2
        <4> QED BY <2>3, <3>1, <4>2, <4>3
      <3>2. CASE ~started
        <4>1. Moved(p) = 0 /\ d = 0
          BY <2>2, <3>2 DEF Moved, DistanceInv
        <4>2. 0 + 0 = p - p
          OBVIOUS
        <4> QED BY <2>3, <3>2, <4>1, <4>2
      <3> QED BY <3>1, <3>2
    <2>5. lastS' = Normalised(sampledAt)'
      BY <2>3 DEF Normalised
    <2> QED BY <2>3, <2>4, <2>5 DEF DistanceInv, DistanceTrue
  <1> QED BY <1>1, <1>2

\* The distance added up from wrapped positions is the distance come, for a
\* car that comes less than half the track between two samples, whatever the
\* track and wherever the line (MetricsAccumulator::observe, delta).
THEOREM DistanceTrueHolds ==
    ASSUME 2 * MaxDrive < Length, 2 * MaxJump < Length
    PROVE  Spec => []DistanceTrue
  <1>1. Init => DistanceInv
    BY DEF Init, DistanceInv, DistanceTrue
  <1>2. DistanceInv => DistanceTrue
    BY DEF DistanceInv
  <1> QED BY <1>1, <1>2, DistanceStep, TypeInvariant, PTL DEF Spec

LEMMA CollisionStep == TypeInv /\ CollisionInv /\ [Next]_vars => CollisionInv'
  <1> SUFFICES ASSUME TypeInv, CollisionInv, [Next]_vars PROVE CollisionInv'
    OBVIOUS
  <1>1. CASE ~AcceptState
    BY <1>1, OnlySamples DEF CollisionInv, CollisionsInClearance
  <1>2. CASE AcceptState
    <2>1. PICK t \in Nat, p \in Int : Accept(t, p) /\ clearance # None
      BY <1>2, SampleTaken
    <2>2. PICK c \in Nat, n \in Nat, least \in Nat :
             c = clearance /\ n = collisions /\ least = LeastClearance(c)
      BY <2>1 DEF TypeInv, TypeOK, LeastClearance
    <2>3. PICK count \in Nat : count = IF c <= Threshold /\ ~wasColliding THEN n + 1 ELSE n
      OBVIOUS
    <2>4. /\ started' = TRUE /\ minClearance' = least
          /\ collisions' = count
          /\ wasColliding' = (c <= Threshold)
      BY <2>1, <2>2, <2>3 DEF Accept
    <2>5. count > 0 <=> least <= Threshold
      <3>1. CASE started
        <4>1. minClearance \in Nat /\ (n > 0 <=> minClearance <= Threshold)
              /\ (wasColliding => n > 0)
          BY <2>2, <3>1 DEF CollisionInv, CollisionsInClearance, TypeInv, TypeOK
        <4>2. least = IF minClearance < c THEN minClearance ELSE c
          BY <2>2, <3>1 DEF LeastClearance
        <4> QED BY <2>3, <4>1, <4>2
      <3>2. CASE ~started
        <4>1. least = c /\ n = 0 /\ ~wasColliding
          BY <2>2, <3>2 DEF LeastClearance, CollisionInv
        <4> QED BY <2>3, <4>1
      <3> QED BY <3>1, <3>2
    <2>6. c <= Threshold => count > 0
      <3>1. wasColliding => n > 0
        BY <2>2 DEF CollisionInv
      <3> QED BY <2>3, <3>1
    <2> QED BY <2>4, <2>5, <2>6 DEF CollisionInv, CollisionsInClearance
  <1> QED BY <1>1, <1>2

\* A run's two figures from the scan agree: it reports a collision exactly
\* when its least clearance is within the threshold
\* (MetricsAccumulator::observe).
THEOREM CollisionsInClearanceHolds == Spec => []CollisionsInClearance
  <1>1. Init => CollisionInv
    BY DEF Init, CollisionInv, CollisionsInClearance
  <1>2. CollisionInv => CollisionsInClearance
    BY DEF CollisionInv
  <1> QED BY <1>1, <1>2, CollisionStep, TypeInvariant, PTL DEF Spec

\* The report can be relied on, whichever write fails and whoever finalizes it
\* (racing_metrics node.cpp, publish_and_write).
THEOREM ReportReliableHolds == Spec => []ReportReliable
  <1>1. CompletionReported /\ ReportsAccounted /\ PublishedIsOnDisk => ReportReliable
    BY DEF ReportReliable
  <1> QED BY <1>1, CompletionReportedHolds, ReportsAccountedHolds, PublishedIsOnDiskHolds, PTL

----------------------------------------------------------------------------
(* The laps *)

\* The sums of a sequence of times, from none of them to all.
AreSums(f, times) ==
    f = [n \in 0 .. Len(times) |-> IF n = 0 THEN 0 ELSE f[n - 1] + times[n]]

\* They are there, and whatever they are they end at the time of the last
\* crossing.
TimesAddUp ==
    /\ \E f : AreSums(f, lapTimes)
    /\ \A f : AreSums(f, lapTimes) => f[Len(lapTimes)] = lastLapEnd

\* The laps are those of the greatest distance, and the last crossing is no
\* later than the last sample.
LapInv ==
    /\ distance <= highest
    /\ ~started => distance = 0 /\ lastLapEnd = 0
    /\ Len(lapTimes) = IF highest \div Length > Laps THEN Laps ELSE highest \div Length
    /\ lastLapEnd <= lapTime
    /\ \A i \in 1 .. Len(lapTimes) : lapTimes[i] > 0
    /\ TimesAddUp

LEMMA SumsAre ==
    ASSUME NEW times \in Seq(Int), NEW f
    PROVE  AreSums(f, times) <=>
               /\ f = [n \in 0 .. Len(times) |-> f[n]]
               /\ f[0] = 0
               /\ \A n \in 1 .. Len(times) : f[n] = f[n - 1] + times[n]
  <1> DEFINE N == Len(times)
             g == [n \in 0 .. N |-> IF n = 0 THEN 0 ELSE f[n - 1] + times[n]]
  <1>1. N \in Nat
    OBVIOUS
  <1>2. /\ DOMAIN g = 0 .. N /\ g[0] = 0
        /\ \A n \in 1 .. N : g[n] = f[n - 1] + times[n]
        /\ g = [n \in 0 .. N |-> g[n]]
    BY <1>1
  <1>3. \A n \in 0 .. N : n = 0 \/ n \in 1 .. N
    BY <1>1
  <1>4. 0 \in 0 .. N /\ \A n \in 1 .. N : n \in 0 .. N
    BY <1>1
  <1>5. AreSums(f, times) <=> f = g
    BY DEF AreSums
  <1> HIDE DEF g, N
  <1>6. ASSUME f = [n \in 0 .. N |-> f[n]], f[0] = 0,
               \A n \in 1 .. N : f[n] = f[n - 1] + times[n]
        PROVE  f = g
    <2>1. \A n \in 0 .. N : f[n] = g[n]
      BY Zenon, <1>2, <1>3, <1>6
    <2>2. [n \in 0 .. N |-> f[n]] = [n \in 0 .. N |-> g[n]]
      BY Zenon, <2>1
    <2> QED BY Zenon, <1>2, <1>6, <2>2
  <1>7. ASSUME f = g
        PROVE  /\ f = [n \in 0 .. N |-> f[n]] /\ f[0] = 0
               /\ \A n \in 1 .. N : f[n] = f[n - 1] + times[n]
    BY Zenon, <1>2, <1>7
  <1> QED BY Zenon, <1>5, <1>6, <1>7 DEF N

\* One more time adds to the sums.
LEMMA SumsGrow ==
    ASSUME NEW times \in Seq(Int), NEW x \in Int, NEW total \in Int,
           \E f : AreSums(f, times),
           \A f : AreSums(f, times) => f[Len(times)] = total
    PROVE  /\ \E f : AreSums(f, Append(times, x))
           /\ \A f : AreSums(f, Append(times, x)) => f[Len(times) + 1] = total + x
  <1> DEFINE N == Len(times)
             more == Append(times, x)
  <1>1. /\ N \in Nat /\ more \in Seq(Int) /\ Len(more) = N + 1 /\ more[N + 1] = x
        /\ \A n \in 1 .. N : more[n] = times[n]
    OBVIOUS
  <1> HIDE DEF more, N
  <1>2. /\ \A n \in 1 .. N : n - 1 \in 0 .. N /\ n \in 0 .. N /\ n \in 1 .. N + 1
        /\ \A n \in 1 .. N + 1 : n = N + 1 \/ n \in 1 .. N
        /\ \A n \in 0 .. N : n # N + 1 /\ n \in 0 .. N + 1
        /\ N + 1 \in 1 .. N + 1 /\ N + 1 \in 0 .. N + 1 /\ (N + 1) - 1 = N /\ 0 \in 0 .. N
        /\ N \in 0 .. N
    BY <1>1
  <1>3. \E f : AreSums(f, more)
    <2>1. PICK f : AreSums(f, times)
      OBVIOUS
    <2>2. /\ f[0] = 0 /\ \A n \in 1 .. N : f[n] = f[n - 1] + times[n]
      BY Zenon, <2>1, SumsAre DEF N
    <2> DEFINE g == [n \in 0 .. N + 1 |-> IF n = N + 1 THEN f[N] + x ELSE f[n]]
    <2>3. /\ g = [n \in 0 .. N + 1 |-> g[n]]
          /\ g[N + 1] = f[N] + x
          /\ \A n \in 0 .. N : g[n] = f[n]
      BY <1>2
    <2> HIDE DEF g
    <2>4. g[0] = 0
      BY <1>2, <2>2, <2>3
    <2>5. \A n \in 1 .. N + 1 : g[n] = g[n - 1] + more[n]
      <3> SUFFICES ASSUME NEW n \in 1 .. N + 1 PROVE g[n] = g[n - 1] + more[n]
        OBVIOUS
      <3>1. CASE n = N + 1
        BY Zenon, <1>1, <1>2, <2>3, <3>1
      <3>2. CASE n \in 1 .. N
        BY Zenon, <1>1, <1>2, <2>2, <2>3, <3>2
      <3> QED BY <1>2, <3>1, <3>2
    <2>6. AreSums(g, more)
      BY Zenon, <1>1, <2>3, <2>4, <2>5, SumsAre
    <2> QED BY <2>6
  <1>4. ASSUME NEW f, AreSums(f, more)
        PROVE  f[N + 1] = total + x
    <2>1. /\ f[0] = 0 /\ \A n \in 1 .. N + 1 : f[n] = f[n - 1] + more[n]
      <3>1. f[0] = 0 /\ \A n \in 1 .. Len(more) : f[n] = f[n - 1] + more[n]
        BY Zenon, <1>1, <1>4, SumsAre
      <3> QED BY <1>1, <3>1
    <2> DEFINE g == [n \in 0 .. N |-> f[n]]
    <2>2. /\ g = [n \in 0 .. N |-> g[n]]
          /\ \A n \in 0 .. N : g[n] = f[n]
      BY <1>2
    <2> HIDE DEF g
    <2>3. g[0] = 0 /\ \A n \in 1 .. N : g[n] = g[n - 1] + times[n]
      BY Zenon, <1>1, <1>2, <2>1, <2>2
    <2>4. AreSums(g, times)
      BY Zenon, <2>2, <2>3, SumsAre DEF N
    <2>5. g[N] = total
      BY Zenon, <2>4 DEF N
    <2>6. f[N + 1] = f[N] + x
      BY Zenon, <1>1, <1>2, <2>1
    <2> QED BY Zenon, <1>2, <2>2, <2>5, <2>6
  <1> QED BY <1>3, <1>4 DEF more, N

\* A greater distance is no fewer laps, and half a track more at most one.
LEMMA LapsOfDistance ==
    ASSUME NEW a \in Int, NEW b \in Int, a <= b
    PROVE  /\ a \div Length <= b \div Length
           /\ 2 * (b - a) <= Length => b \div Length <= a \div Length + 1
  <1>1. PICK i \in Int : i = a \div Length
    BY Divide
  <1>2. PICK j \in Int : j = b \div Length
    BY Divide
  <1>3. PICK k \in Int : k = i - j
    OBVIOUS
  <1>4. PICK x \in Int, y \in Int : x = Length * i /\ y = Length * j
    OBVIOUS
  <1>5. 0 <= a - x /\ a - x < Length /\ 0 <= b - y /\ b - y < Length
    BY <1>1, <1>2, <1>4, Divide
  <1>6. Length * k = x - y
    BY <1>3, <1>4
  <1>7. k <= 0
    <2>1. Length * k < Length
      BY <1>5, <1>6
    <2> QED BY <2>1
  <1>8. 2 * (b - a) <= Length => k >= -1
    <2> SUFFICES ASSUME 2 * (b - a) <= Length PROVE k >= -1
      OBVIOUS
    <2>1. 2 * (Length * k) > -4 * Length
      BY <1>5, <1>6
    <2> QED BY <2>1
  <1> QED BY <1>1, <1>2, <1>3, <1>7, <1>8

\* A step between two normalised positions is at most half the track.
LEMMA HalfATrack ==
    ASSUME TypeOK, NEW s \in Int
    PROVE  Moved(s) \in Int /\ 2 * Moved(s) <= Length
  <1>1. Moved(s) \in Int /\ Normalised(s) \in 0 .. Length - 1 /\ lastS \in 0 .. Length - 1
    BY MovedType DEF TypeOK
  <1>2. PICK d \in Int : d = Normalised(s) - lastS /\ -Length < d /\ d < Length
    BY <1>1
  <1>3. 2 * Wrapped(d) <= Length
    BY <1>2 DEF Wrapped
  <1> QED BY <1>1, <1>2, <1>3 DEF Moved

\* The laps after a sample are those of the greatest distance then, and at
\* most one more than before.
LEMMA LapsAfterSample ==
    ASSUME TypeInv, LapInv, NEW d \in Int, NEW h \in Nat,
           h = IF d > highest THEN d ELSE highest, 2 * (d - distance) <= Length
    PROVE  /\ LapsAfter(d) = IF h \div Length > Laps THEN Laps ELSE h \div Length
           /\ \/ LapsAfter(d) = Len(lapTimes)
              \/ LapsAfter(d) = Len(lapTimes) + 1 /\ d > highest
  <1>1. PICK was \in Nat, far \in Int : was = highest /\ far = distance /\ far <= was
    BY DEF TypeInv, TypeOK, LapInv
  <1>a. \A k \in Nat : k \in Int /\ k >= 0 /\ k \div Length \in Nat
    <2>1. \A k \in Nat : k \in Int /\ k >= 0
      OBVIOUS
    <2> QED BY Zenon, <2>1, Divide
  <1>2. PICK q \in Nat : q = was \div Length
    BY Zenon, <1>a
  <1>3. PICK r \in Nat : r = h \div Length
    BY Zenon, <1>a
  <1>4. PICK n \in Nat : n = Len(lapTimes) /\ n = IF q > Laps THEN Laps ELSE q
    BY <1>1, <1>2 DEF LapInv, TypeInv, TypeOK
  <1>5. was <= h /\ 2 * (h - was) <= Length
    BY <1>1
  <1>6. q <= r /\ r <= q + 1
    BY Zenon, <1>2, <1>3, <1>5, <1>a, LapsOfDistance
  <1>7. CASE d > was
    <2>1. Reached(d) = r
      BY <1>1, <1>3, <1>7 DEF Reached
    <2>2. LapsAfter(d) = IF r <= n THEN n ELSE IF r > Laps THEN Laps ELSE r
      BY <1>4, <2>1 DEF LapsAfter
    <2> QED BY <1>1, <1>3, <1>4, <1>6, <1>7, <2>2
  <1>8. CASE d <= was
    <2>1. r = q
      BY <1>1, <1>2, <1>3, <1>8
    <2>2. PICK k \in Nat : k = Reached(d) /\ k <= q
      <3>1. CASE d < 0
        BY <3>1 DEF Reached
      <3>2. CASE d >= 0
        <4>1. d \div Length \in Nat /\ d \div Length <= q
          BY Zenon, <1>2, <1>8, <1>a, <3>2, Divide, LapsOfDistance
        <4> QED BY <3>2, <4>1 DEF Reached
      <3> QED BY <3>1, <3>2
    <2>3. LapsAfter(d) = IF k <= n THEN n ELSE IF k > Laps THEN Laps ELSE k
      BY <1>4, <2>2 DEF LapsAfter
    <2>4. LapsAfter(d) = n
      BY <1>4, <2>2, <2>3
    <2> QED BY <1>3, <1>4, <2>1, <2>4
  <1> QED BY <1>1, <1>7, <1>8

LEMMA LapStep == TypeInv /\ SampleInv /\ LapInv /\ [Next]_vars => LapInv'
  <1> SUFFICES ASSUME TypeInv, SampleInv, LapInv, [Next]_vars PROVE LapInv'
    OBVIOUS
  <1>1. CASE ~AcceptState
    BY <1>1, OnlySamples DEF LapInv, TimesAddUp
  <1>2. CASE AcceptState
    <2>1. PICK t \in Nat, p \in Int :
             /\ Accept(t, p) /\ ~dead
             /\ started => t # lastTime /\ t >= startTime + lapTime
      BY <1>2, SampleTaken
    <2>2. PICK d \in Int : d = distance + Moved(p) /\ 2 * (d - distance) <= Length
      <3>1. Moved(p) \in Int /\ 2 * Moved(p) <= Length /\ distance \in Int
        BY HalfATrack DEF TypeInv, TypeOK
      <3>2. 2 * ((distance + Moved(p)) - distance) = 2 * Moved(p)
        BY <3>1
      <3> QED BY <3>1, <3>2
    <2>3. PICK h \in Nat : h = IF d > highest THEN d ELSE highest
      BY DEF TypeInv, TypeOK
    <2>4. PICK end \in Int, last \in Int : end = lastLapEnd /\ last = lapTime /\ end <= last
      BY DEF TypeInv, TypeOK, LapInv
    <2>5. PICK e \in Int : /\ e = IF started THEN t - startTime ELSE 0
                           /\ started => last < e
                           /\ ~started => end = 0 /\ e = 0
      <3>1. CASE started
        <4>1. PICK a \in Nat, z \in Nat : a = startTime /\ z = lastTime /\ z = a + last
          BY <2>1, <2>4, <3>1 DEF TypeInv, TypeOK, SampleInv
        <4>2. t # z /\ t >= z
          BY <2>1, <2>4, <3>1, <4>1
        <4>3. last < t - a
          BY <4>1, <4>2
        <4> QED BY <3>1, <4>1, <4>3
      <3>2. CASE ~started
        BY <2>4, <3>2 DEF LapInv
      <3> QED BY <3>1, <3>2
    <2>6. /\ LapsAfter(d) = IF h \div Length > Laps THEN Laps ELSE h \div Length
          /\ \/ LapsAfter(d) = Len(lapTimes)
             \/ LapsAfter(d) = Len(lapTimes) + 1 /\ d > highest
      BY <2>2, <2>3, LapsAfterSample
    <2>7. PICK n \in Nat : n = Len(lapTimes) /\ lapTimes \in Seq(Int)
      BY DEF TypeInv, TypeOK
    <2> DEFINE more == LapsAfter(d) - Len(lapTimes)
               added == [i \in 1 .. more |-> IF i = 1 THEN e - end ELSE 0]
    <2>8. /\ started' = TRUE /\ distance' = d /\ lapTime' = e /\ highest' = h
          /\ lapTimes' = lapTimes \o added
          /\ lastLapEnd' = IF more > 0 THEN e ELSE end
      BY <2>1, <2>2, <2>3, <2>4, <2>5 DEF Accept
    <2>9. distance' <= highest'
      BY <2>2, <2>3, <2>8 DEF TypeInv, TypeOK
    <2>10. Len(lapTimes') = LapsAfter(d)
      BY <2>2, <2>4, <2>5, <2>8, LapTimesGrow
    <2>11. CASE LapsAfter(d) = Len(lapTimes)
      <3>1. more = 0
        BY <2>7, <2>11
      <3> HIDE DEF more
      <3>2. added = <<>>
        BY <3>1
      <3>3. lapTimes' = lapTimes /\ lastLapEnd' = end
        BY <2>7, <2>8, <3>1, <3>2
      <3>4. lastLapEnd' <= lapTime'
        BY <2>4, <2>5, <2>8, <3>3
      <3>5. \A i \in 1 .. Len(lapTimes') : lapTimes'[i] > 0
        BY <3>3 DEF LapInv
      <3>6. TimesAddUp'
        BY Zenon, <2>4, <3>3 DEF LapInv, TimesAddUp
      <3> QED BY Zenon, <2>6, <2>8, <2>9, <2>10, <3>4, <3>5, <3>6 DEF LapInv
    <2>12. CASE LapsAfter(d) = Len(lapTimes) + 1 /\ d > highest
      <3>1. more = 1
        BY <2>7, <2>12
      <3>2. started
        <4>1. d > 0 /\ distance \in Int
          BY <2>12 DEF TypeInv, TypeOK
        <4>2. ~started => d = 0
          <5>1. ~started => Moved(p) = 0 /\ distance = 0
            BY DEF Moved, LapInv
          <5> QED BY <2>2, <5>1
        <4> QED BY <4>1, <4>2
      <3>3. e - end \in Int /\ e - end > 0
        BY <2>4, <2>5, <3>2
      <3> HIDE DEF more
      <3>4. added = <<e - end>>
        BY <3>1
      <3>5. lapTimes' = Append(lapTimes, e - end) /\ lastLapEnd' = e
        BY <2>7, <2>8, <3>1, <3>3, <3>4
      <3>6. lastLapEnd' <= lapTime'
        BY <2>8, <3>5
      <3>7. \A i \in 1 .. Len(lapTimes') : lapTimes'[i] > 0
        <4>1. \A i \in 1 .. n : lapTimes[i] > 0
          BY <2>7 DEF LapInv
        <4>2. /\ Len(lapTimes') = n + 1 /\ lapTimes'[n + 1] = e - end
              /\ \A i \in 1 .. n : lapTimes'[i] = lapTimes[i]
          BY <2>7, <3>5
        <4> QED BY <3>3, <4>1, <4>2
      <3>8. TimesAddUp'
        <4>1. /\ \E f : AreSums(f, Append(lapTimes, e - end))
              /\ \A f : AreSums(f, Append(lapTimes, e - end)) => f[n + 1] = end + (e - end)
          <5>1. /\ \E f : AreSums(f, lapTimes)
                /\ \A f : AreSums(f, lapTimes) => f[Len(lapTimes)] = end
            BY <2>4 DEF LapInv, TimesAddUp
          <5> QED BY Zenon, <2>7, <3>3, <5>1, SumsGrow
        <4>2. end + (e - end) = e
          BY <2>4, <2>5
        <4>3. Len(lapTimes') = n + 1
          BY <2>7, <3>5
        <4> QED BY Zenon, <3>5, <4>1, <4>2, <4>3 DEF TimesAddUp
      <3> QED BY Zenon, <2>6, <2>8, <2>9, <2>10, <3>6, <3>7, <3>8 DEF LapInv
    <2> QED BY <2>6, <2>11, <2>12
  <1> QED BY <1>1, <1>2

\* METRICS-1060, METRICS-1070: whatever the car gives back and drives again,
\* and however often an instant is repeated, every lap and every instant is
\* counted once, no lap is empty, and the lap times add up
\* (MetricsAccumulator::observe).
THEOREM CountedOnceHolds == Spec => []CountedOnce
  <1>1. Init => LapInv
    <2> SUFFICES ASSUME Init PROVE LapInv
      OBVIOUS
    <2>1. lapTimes = <<>> /\ Len(lapTimes) = 0 /\ lapTimes \in Seq(Int)
      BY DEF Init
    <2>2. 0 \div Length = 0
      OBVIOUS
    <2>3. TimesAddUp
      <3> DEFINE g == [n \in 0 .. 0 |-> 0]
      <3>1. g = [n \in 0 .. 0 |-> g[n]] /\ g[0] = 0
        OBVIOUS
      <3> HIDE DEF g
      <3>2. \A n \in 1 .. Len(lapTimes) : FALSE
        BY <2>1
      <3>3. AreSums(g, lapTimes)
        BY <2>1, <3>1, <3>2, SumsAre
      <3>4. \A f : AreSums(f, lapTimes) => f[Len(lapTimes)] = 0
        BY <2>1, SumsAre
      <3> QED BY <3>3, <3>4 DEF Init, TimesAddUp
    <2> QED BY <2>1, <2>2, <2>3 DEF Init, LapInv
  <1>2. Init => SampleInv
    BY FS_EmptySet DEF Init, SampleInv
  <1>3. TypeInv /\ SampleInv /\ LapInv => CountedOnce
    <2> SUFFICES ASSUME TypeInv, SampleInv, LapInv PROVE CountedOnce
      OBVIOUS
    <2>1. LapTimesTotal = lastLapEnd
      <3> DEFINE total == CHOOSE f : AreSums(f, lapTimes)
      <3>1. AreSums(total, lapTimes)
        BY DEF LapInv, TimesAddUp
      <3>2. LapTimesTotal = total[Len(lapTimes)]
        BY DEF LapTimesTotal, AreSums
      <3> QED BY <3>1, <3>2 DEF LapInv, TimesAddUp
    <2>2. LapAccounting
      BY <2>1 DEF LapAccounting, LapInv, TypeInv
    <2> QED BY <2>2 DEF CountedOnce, OneSamplePerInstant, SampleInv
  <1> QED BY <1>1, <1>2, <1>3, LapStep, SampleStep, TypeInvariant, PTL DEF Spec

====
