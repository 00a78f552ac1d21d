---- MODULE DriveLoopProofs ----
(***************************************************************************)
(* Theorems about the closed loop, for every rate, timeout, queue depth and *)
(* length of run.  All but the last are of any graph; the last is of one    *)
(* that is responsive, at real time.                                        *)
(***************************************************************************)
EXTENDS DriveLoop, TLAPS

USE DriveLoopAssumption

\* A bounded queue after one more message: its messages are old ones and the
\* new one.
LEMMA KeepLastQueue ==
    ASSUME NEW S, NEW q \in Seq(S), Len(q) <= Depth, NEW m \in S
    PROVE  /\ KeepLast(q, m) \in Seq(S)
           /\ Len(KeepLast(q, m)) <= Depth
           /\ \A i \in 1 .. Len(KeepLast(q, m)) :
                 KeepLast(q, m)[i] = m \/ \E j \in 1 .. Len(q) : KeepLast(q, m)[i] = q[j]
  <1> DEFINE t == IF Len(q) = Depth THEN Tail(q) ELSE q
  <1>1. /\ t \in Seq(S) /\ Len(t) + 1 <= Depth
        /\ \A i \in 1 .. Len(t) : \E j \in 1 .. Len(q) : t[i] = q[j]
    <2>1. CASE Len(q) = Depth
      <3>1. q # <<>>
        BY <2>1
      <3>2. Tail(q) \in Seq(S) /\ Len(Tail(q)) = Len(q) - 1 /\ Len(q) \in Nat
            /\ \A i \in 1 .. Len(q) - 1 : Tail(q)[i] = q[i + 1] /\ i + 1 \in 1 .. Len(q)
        BY <3>1
      <3>3. t = Tail(q)
        BY <2>1
      <3> HIDE DEF t
      <3> QED BY <2>1, <3>2, <3>3
    <2>2. CASE Len(q) # Depth
      <3>1. t = q /\ Len(q) \in Nat
        BY <2>2
      <3> HIDE DEF t
      <3> QED BY <2>2, <3>1
    <2> QED BY <2>1, <2>2
  <1>2. KeepLast(q, m) = Append(t, m)
    BY DEF KeepLast
  <1> HIDE DEF t
  <1>3. /\ Append(t, m) \in Seq(S) /\ Len(Append(t, m)) = Len(t) + 1 /\ Len(t) \in Nat
        /\ Append(t, m)[Len(t) + 1] = m
        /\ \A i \in 1 .. Len(t) : Append(t, m)[i] = t[i]
    BY <1>1
  <1>4. \A i \in 1 .. Len(t) + 1 :
           Append(t, m)[i] = m \/ \E j \in 1 .. Len(q) : Append(t, m)[i] = q[j]
    BY <1>1, <1>3
  <1>5. PICK k : k = KeepLast(q, m) /\ k = Append(t, m)
    BY <1>2
  <1>6. k \in Seq(S) /\ Len(k) <= Depth
    BY <1>1, <1>3, <1>5
  <1>7. \A i \in 1 .. Len(k) : k[i] = m \/ \E j \in 1 .. Len(q) : k[i] = q[j]
    BY <1>3, <1>4, <1>5
  <1> QED BY <1>5, <1>6, <1>7

\* The same queue under a name of its own.
LEMMA KeepLastNamed ==
    ASSUME NEW q \in Seq(Tick), Len(q) <= Depth, NEW m \in Tick
    PROVE  \E k : /\ k = KeepLast(q, m) /\ k \in Seq(Tick) /\ Len(k) <= Depth
                  /\ \A i \in 1 .. Len(k) : k[i] = m \/ \E j \in 1 .. Len(q) : k[i] = q[j]
  <1>1. /\ KeepLast(q, m) \in Seq(Tick)
        /\ Len(KeepLast(q, m)) <= Depth
        /\ \A i \in 1 .. Len(KeepLast(q, m)) :
              KeepLast(q, m)[i] = m \/ \E j \in 1 .. Len(q) : KeepLast(q, m)[i] = q[j]
    BY KeepLastQueue
  <1> WITNESS KeepLast(q, m)
  <1> QED BY <1>1

\* What a message on /drive holds.
Stamped == [stamp : Tick, basis : TickOrNone]

\* The queue of commands, the same.
LEMMA KeepLastStamped ==
    ASSUME NEW q \in Seq(Stamped), Len(q) <= Depth, NEW m \in Stamped
    PROVE  \E k : /\ k = KeepLast(q, m) /\ k \in Seq(Stamped) /\ Len(k) <= Depth
                  /\ \A i \in 1 .. Len(k) : k[i] = m \/ \E j \in 1 .. Len(q) : k[i] = q[j]
  <1>1. /\ KeepLast(q, m) \in Seq(Stamped)
        /\ Len(KeepLast(q, m)) <= Depth
        /\ \A i \in 1 .. Len(KeepLast(q, m)) :
              KeepLast(q, m)[i] = m \/ \E j \in 1 .. Len(q) : KeepLast(q, m)[i] = q[j]
    BY KeepLastQueue
  <1> WITNESS KeepLast(q, m)
  <1> QED BY <1>1

\* Taking the oldest message leaves the others.
LEMMA TakeQueue ==
    ASSUME NEW S, NEW q \in Seq(S), Len(q) <= Depth, q # <<>>
    PROVE  /\ Head(q) = q[1] /\ q[1] \in S /\ 1 \in 1 .. Len(q)
           /\ Tail(q) \in Seq(S) /\ Len(Tail(q)) <= Depth
           /\ \A i \in 1 .. Len(Tail(q)) : i + 1 \in 1 .. Len(q) /\ Tail(q)[i] = q[i + 1]
  <1>1. Len(q) \in Nat \ {0} /\ Len(Tail(q)) = Len(q) - 1
    OBVIOUS
  <1> QED BY <1>1

----------------------------------------------------------------------------

\* How far the loop's four clocks may be apart.
ClocksInv ==
    /\ held => tick = 0 /\ next = 0
    /\ ~held => next = tick + 1
    /\ tick <= MaxTick
    /\ clock # None => clock = tick
    /\ now <= tick
    /\ \A i \in 1 .. Len(drive) : drive[i].stamp <= now
    /\ answered => tick <= now
    /\ receivedAt <= now

\* No command comes from a state the sim has not published.
BasisInv ==
    /\ state <= tick /\ basis <= tick /\ passed <= tick /\ applied <= tick
    /\ \A i \in 1 .. Len(odom) : odom[i] <= tick
    /\ \A i \in 1 .. Len(asked) : asked[i] <= tick
    /\ \A i \in 1 .. Len(drive) : drive[i].basis <= tick

LoopInv == TypeOK /\ ClocksInv /\ BasisInv

\* What is queued is of the queue's type.
LEMMA QueueElement ==
    ASSUME NEW S, NEW q \in Seq(S)
    PROVE  \A i \in 1 .. Len(q) : q[i] \in S
  OBVIOUS

\* The next tick is the published one, held, or the one after it.
LEMMA ClockOrder ==
    ASSUME LoopInv
    PROVE  /\ next \in Nat /\ tick \in Nat /\ tick <= next
           /\ held => next = 0
           /\ \A i \in 1 .. Len(drive) :
                 drive[i].basis \in TickOrNone /\ drive[i].basis <= tick
  <1>1. next \in Nat /\ tick \in Nat /\ held \in BOOLEAN
    BY DEF LoopInv, TypeOK, Tick
  <1>2. tick <= next /\ (held => next = 0)
    <2>1. CASE held
      BY <1>1, <2>1 DEF LoopInv, ClocksInv
    <2>2. CASE ~held
      BY <1>1, <2>2 DEF LoopInv, ClocksInv
    <2> QED BY <2>1, <2>2
  <1>3. \A i \in 1 .. Len(drive) : drive[i].basis \in TickOrNone
    <2>1. drive \in Seq([stamp : Tick, basis : TickOrNone])
      BY DEF LoopInv, TypeOK
    <2>2. \A i \in 1 .. Len(drive) : drive[i] \in [stamp : Tick, basis : TickOrNone]
      BY <2>1, QueueElement
    <2> QED BY <2>2
  <1>4. \A i \in 1 .. Len(drive) : drive[i].basis <= tick
    BY DEF LoopInv, BasisInv
  <1> QED BY <1>1, <1>2, <1>3, <1>4

\* What a publication does to the clocks.
LEMMA PublishTypes ==
    ASSUME LoopInv, NEW h \in BOOLEAN, Publish(h), h => held,
           next <= MaxTick
    PROVE  /\ tick' = next /\ tick' \in Tick
           /\ next' \in Tick /\ next' = IF h THEN next ELSE next + 1
           /\ answered' = FALSE
           /\ clock' \in TickOrNone /\ (clock' # None => clock' = next)
           /\ odom' \in Seq(Tick) /\ Len(odom') <= Depth
           /\ \A i \in 1 .. Len(odom') : odom'[i] <= next \/ odom'[i] <= tick
  <1>1. PICK n \in Tick : n = next /\ n \in Nat /\ n <= MaxTick
    BY DEF LoopInv, TypeOK, Tick
  <1>2. n + 1 \in Tick
    BY <1>1 DEF Tick
  <1>3. odom' = KeepLast(odom, n) /\ odom \in Seq(Tick) /\ Len(odom) <= Depth
    BY <1>1 DEF Publish, LoopInv, TypeOK
  <1>4. PICK k : k = KeepLast(odom, n) /\ k \in Seq(Tick) /\ Len(k) <= Depth
                 /\ \A i \in 1 .. Len(k) : k[i] = n \/ \E j \in 1 .. Len(odom) : k[i] = odom[j]
    <2>1. n \in Tick /\ odom \in Seq(Tick) /\ Len(odom) <= Depth
      BY <1>1, <1>3
    <2> QED BY <2>1, KeepLastNamed
  <1>8. \A i \in 1 .. Len(k) : k[i] <= n \/ k[i] <= tick
    BY <1>1, <1>4 DEF LoopInv, BasisInv
  <1>5. tick' = n /\ answered' = FALSE
    BY <1>1 DEF Publish
  <1>6. next' \in Tick /\ next' = IF h THEN n ELSE n + 1
    BY <1>1, <1>2 DEF Publish
  <1>7. clock' \in TickOrNone /\ (clock' # None => clock' = n)
    BY <1>1 DEF Publish, TickOrNone
  <1> QED BY <1>1, <1>3, <1>4, <1>5, <1>6, <1>7, <1>8

\* Any publication, held or not, keeps the invariant.
LEMMA PublishStep ==
    ASSUME LoopInv, NEW h \in BOOLEAN, Publish(h), h => held, next <= MaxTick,
           held' = h, ages' \subseteq Tick, late' \in Nat,
           UNCHANGED <<applied, asked, drive, controllerVars, clockVars, policyVars>>
    PROVE  LoopInv'
  <1>1. /\ tick' = next /\ tick' \in Tick
        /\ next' \in Tick /\ next' = IF h THEN next ELSE next + 1
        /\ answered' = FALSE
        /\ clock' \in TickOrNone /\ (clock' # None => clock' = next)
        /\ odom' \in Seq(Tick) /\ Len(odom') <= Depth
        /\ \A i \in 1 .. Len(odom') : odom'[i] <= next \/ odom'[i] <= tick
    BY PublishTypes
  <1>2. PICK n \in Nat, t \in Nat :
           n = next /\ t = tick /\ t <= n /\ n <= MaxTick /\ (held => n = 0)
    BY ClockOrder
  <1> USE DEF controllerVars, clockVars, policyVars
  <1>3. TypeOK'
    BY <1>1 DEF LoopInv, TypeOK, Tick
  <1>4. ClocksInv'
    <2>1. (held' => tick' = 0 /\ next' = 0) /\ (~held' => next' = tick' + 1)
      BY <1>1, <1>2
    <2>2. tick' <= MaxTick /\ (clock' # None => clock' = tick')
      BY <1>1, <1>2
    <2>3. now' <= tick' /\ receivedAt' <= now' /\ \A i \in 1 .. Len(drive') : drive'[i].stamp <= now'
      <3>1. now \in Int /\ now <= t /\ receivedAt <= now /\ \A i \in 1 .. Len(drive) : drive[i].stamp <= now
        BY <1>2 DEF LoopInv, TypeOK, Tick, ClocksInv
      <3>2. now <= n
        BY <1>2, <3>1
      <3> QED BY <1>1, <1>2, <3>1, <3>2
    <2> QED BY <1>1, <2>1, <2>2, <2>3 DEF ClocksInv
  <1>5. BasisInv'
    <2>1. state <= n /\ basis <= n /\ passed <= n /\ applied <= n
      BY <1>2 DEF LoopInv, BasisInv, TypeOK, Tick, TickOrNone, None
    <2>2. \A i \in 1 .. Len(asked) : asked[i] <= n
      BY <1>2 DEF LoopInv, BasisInv, TypeOK, Tick
    <2>3. \A i \in 1 .. Len(drive) : drive[i].basis <= n
      <3>1. \A i \in 1 .. Len(drive) : drive[i].basis \in TickOrNone /\ drive[i].basis <= t
        BY <1>2, ClockOrder
      <3> QED BY <1>2, <3>1 DEF Tick, TickOrNone, None
    <2>4. \A i \in 1 .. Len(odom') : odom'[i] <= n
      <3>1. PICK k : k = odom' /\ k \in Seq(Tick)
        BY <1>1
      <3>2. \A i \in 1 .. Len(k) : k[i] \in Tick /\ (k[i] <= n \/ k[i] <= t)
        BY <1>1, <1>2, <3>1
      <3>3. \A i \in 1 .. Len(k) : k[i] <= n
        BY <1>2, <3>2 DEF Tick
      <3> QED BY <3>1, <3>3
    <2>5. tick' = n
      BY <1>1, <1>2
    <2> QED BY <2>1, <2>2, <2>3, <2>4, <2>5 DEF BasisInv
  <1> QED BY <1>3, <1>4, <1>5 DEF LoopInv

----------------------------------------------------------------------------

\* Each kind of publication.
LEMMA HeldTimerStep == LoopInv /\ HeldTimer => LoopInv'
  <1> SUFFICES ASSUME LoopInv, HeldTimer PROVE LoopInv'
    OBVIOUS
  <1>1. held = TRUE /\ held' = TRUE /\ Publish(TRUE) /\ next <= MaxTick
    <2>1. held = TRUE /\ next <= MaxTick
      BY DEF HeldTimer, LoopInv, TypeOK, ClocksInv
    <2>2. held' = TRUE /\ Publish(held)
      BY <2>1 DEF HeldTimer
    <2> QED BY <2>1, <2>2, Zenon
  <1>2. ages' \subseteq Tick /\ late' \in Nat
    BY DEF HeldTimer, historyVars, LoopInv, TypeOK
  <1>3. UNCHANGED <<applied, asked, drive, controllerVars, clockVars, policyVars>>
    BY DEF HeldTimer
  <1> QED BY <1>1, <1>2, <1>3, PublishStep

LEMMA ReleaseStep == LoopInv /\ Release => LoopInv'
  <1> SUFFICES ASSUME LoopInv, Release PROVE LoopInv'
    OBVIOUS
  <1>1. held' = FALSE /\ Publish(FALSE) /\ next <= MaxTick
    <2>1. next <= MaxTick
      BY DEF Release, LoopInv, TypeOK, ClocksInv
    <2>2. held' = FALSE /\ Publish(FALSE)
      BY DEF Release
    <2> QED BY <2>1, <2>2, Zenon
  <1>2. ages' \subseteq Tick /\ late' \in Nat
    BY DEF Release, historyVars, LoopInv, TypeOK
  <1>3. UNCHANGED <<applied, asked, drive, controllerVars, clockVars, policyVars>>
    BY DEF Release
  <1> QED BY <1>1, <1>2, <1>3, PublishStep

LEMMA StepStep ==
    ASSUME LoopInv, Step, late' \in Nat
    PROVE  LoopInv'
  <1>1. held' = FALSE /\ Publish(FALSE) /\ next <= MaxTick
    <2>1. ~held /\ next = tick + 1 /\ tick < MaxTick /\ tick \in Nat
      BY DEF Step, LoopInv, TypeOK, Tick, ClocksInv
    <2>2. held' = FALSE /\ Publish(FALSE)
      BY DEF Step, LoopInv, TypeOK
    <2>3. next <= MaxTick
      BY <2>1
    <2> QED BY <2>2, <2>3, Zenon
  <1>2. ages' \subseteq Tick
    <2>1. ages \subseteq Tick /\ applied \in TickOrNone /\ tick \in Tick
      BY DEF LoopInv, TypeOK
    <2>2. applied # None => tick - applied \in Tick
      BY <2>1 DEF LoopInv, BasisInv, Tick, TickOrNone, None
    <2>3. CASE applied = None
      BY <2>1, <2>3 DEF Step
    <2>4. CASE applied # None
      <3>1. ages' = ages \cup {tick - applied}
        BY <2>4 DEF Step
      <3> QED BY <2>1, <2>2, <2>4, <3>1
    <2> QED BY <2>3, <2>4
  <1>3. UNCHANGED <<applied, asked, drive, controllerVars, clockVars, policyVars>>
    BY DEF Step
  <1> QED BY <1>1, <1>2, <1>3, PublishStep

LEMMA StepAnsweredStep == LoopInv /\ StepAnswered => LoopInv'
  BY StepStep DEF StepAnswered, LoopInv, TypeOK

LEMMA StepOnWallClockStep == LoopInv /\ StepOnWallClock => LoopInv'
  <1> SUFFICES ASSUME LoopInv, StepOnWallClock PROVE LoopInv'
    OBVIOUS
  <1>1. late' \in Nat /\ Step
    <2>1. late \in Nat
      BY DEF LoopInv, TypeOK
    <2> QED BY <2>1 DEF StepOnWallClock
  <1> QED BY <1>1, StepStep

\* The sim takes the oldest /drive; it answers the tick only if it is stamped
\* at or after it, which needs a supervisor whose clock has got there.
LEMMA HandleDriveStep == LoopInv /\ HandleDrive => LoopInv'
  <1> SUFFICES ASSUME LoopInv, HandleDrive PROVE LoopInv'
    OBVIOUS
  <1> USE DEF controllerVars, clockVars, policyVars, historyVars
  <1>1. /\ drive \in Seq([stamp : Tick, basis : TickOrNone]) /\ Len(drive) <= Depth
        /\ drive # <<>> /\ drive' = Tail(drive)
    BY DEF LoopInv, TypeOK, HandleDrive
  <1>2. /\ Head(drive) = drive[1] /\ 1 \in 1 .. Len(drive)
        /\ drive[1] \in [stamp : Tick, basis : TickOrNone]
        /\ drive' \in Seq([stamp : Tick, basis : TickOrNone]) /\ Len(drive') <= Depth
        /\ \A i \in 1 .. Len(drive') : i + 1 \in 1 .. Len(drive) /\ drive'[i] = drive[i + 1]
    BY <1>1, TakeQueue
  <1>3. PICK m \in [stamp : Tick, basis : TickOrNone] : m = Head(drive) /\ m = drive[1]
    BY <1>2
  <1>4. m.stamp \in Tick /\ m.basis \in TickOrNone /\ m.stamp <= now /\ m.basis <= tick
    BY <1>2, <1>3 DEF LoopInv, ClocksInv, BasisInv
  <1>5. applied' = m.basis /\ answered' = (answered \/ m.stamp >= tick)
    BY <1>3 DEF HandleDrive
  <1>6. TypeOK'
    BY <1>2, <1>4, <1>5 DEF LoopInv, TypeOK, HandleDrive
  <1>7. ClocksInv'
    <2>1. \A i \in 1 .. Len(drive') : drive'[i].stamp <= now
      BY <1>2 DEF LoopInv, ClocksInv
    <2>2. m.stamp >= tick => tick <= now
      BY <1>4 DEF LoopInv, TypeOK, Tick
    <2>3. answered' => tick <= now
      BY <1>5, <2>2 DEF LoopInv, ClocksInv
    <2> QED BY <2>1, <2>3 DEF HandleDrive, LoopInv, ClocksInv
  <1>8. BasisInv'
    <2>1. \A i \in 1 .. Len(drive') : drive'[i].basis <= tick
      BY <1>2 DEF LoopInv, BasisInv
    <2> QED BY <1>4, <1>5, <2>1 DEF HandleDrive, LoopInv, BasisInv
  <1> QED BY <1>6, <1>7, <1>8 DEF LoopInv

\* The controller's callbacks.
LEMMA HandleOdomStep == LoopInv /\ HandleOdom => LoopInv'
  <1> SUFFICES ASSUME LoopInv, HandleOdom PROVE LoopInv'
    OBVIOUS
  <1> USE DEF simVars, clockVars, policyVars, historyVars
  <1>1. /\ odom \in Seq(Tick) /\ Len(odom) <= Depth /\ odom # <<>> /\ odom' = Tail(odom)
        /\ asked \in Seq(Tick) /\ Len(asked) <= Depth /\ tick \in Tick
    BY DEF LoopInv, TypeOK, HandleOdom
  <1>2. /\ Head(odom) = odom[1] /\ 1 \in 1 .. Len(odom) /\ odom[1] \in Tick
        /\ odom' \in Seq(Tick) /\ Len(odom') <= Depth
        /\ \A i \in 1 .. Len(odom') : i + 1 \in 1 .. Len(odom) /\ odom'[i] = odom[i + 1]
    BY <1>1, TakeQueue
  <1>3. PICK m \in Tick : m = Head(odom) /\ m <= tick
    BY <1>2 DEF LoopInv, BasisInv
  <1>4. asked' \in Seq(Tick) /\ Len(asked') <= Depth
        /\ \A i \in 1 .. Len(asked') : asked'[i] <= tick
    <2>1. CASE hasTrajectory
      <3>1. asked' = KeepLast(asked, m)
        BY <1>3, <2>1 DEF HandleOdom
      <3>2. PICK k : k = KeepLast(asked, m) /\ k \in Seq(Tick) /\ Len(k) <= Depth
                     /\ \A i \in 1 .. Len(k) : k[i] = m \/ \E j \in 1 .. Len(asked) : k[i] = asked[j]
        <4>1. m \in Tick /\ asked \in Seq(Tick) /\ Len(asked) <= Depth
          BY <1>1
        <4> QED BY <4>1, KeepLastNamed
      <3>3. \A i \in 1 .. Len(k) : k[i] <= tick
        BY <1>3, <3>2 DEF LoopInv, BasisInv
      <3> QED BY <3>1, <3>2, <3>3
    <2>2. CASE ~hasTrajectory
      BY <1>1, <2>2 DEF HandleOdom, LoopInv, BasisInv
    <2> QED BY <2>1, <2>2
  <1>5. TypeOK'
    BY <1>2, <1>3, <1>4 DEF LoopInv, TypeOK, HandleOdom, TickOrNone
  <1>6. ClocksInv'
    BY DEF HandleOdom, LoopInv, ClocksInv
  <1>7. BasisInv'
    <2>1. \A i \in 1 .. Len(odom') : odom'[i] <= tick
      BY <1>2 DEF LoopInv, BasisInv
    <2> QED BY <1>3, <1>4, <2>1 DEF HandleOdom, LoopInv, BasisInv
  <1> QED BY <1>5, <1>6, <1>7 DEF LoopInv

LEMMA HandleTrajectoryStep == LoopInv /\ HandleTrajectory => LoopInv'
  <1> SUFFICES ASSUME LoopInv, HandleTrajectory PROVE LoopInv'
    OBVIOUS
  <1> USE DEF simVars, clockVars, policyVars, historyVars
  <1>1. asked \in Seq(Tick) /\ Len(asked) <= Depth
    BY DEF LoopInv, TypeOK
  <1>2. asked' \in Seq(Tick) /\ Len(asked') <= Depth
        /\ \A i \in 1 .. Len(asked') : asked'[i] <= tick
    <2>1. CASE state = None
      BY <1>1, <2>1 DEF HandleTrajectory, LoopInv, BasisInv
    <2>2. CASE state # None
      <3>1. PICK m \in Tick : m = state
        BY <2>2 DEF LoopInv, TypeOK, TickOrNone
      <3>2. asked' = KeepLast(asked, m)
        BY <2>2, <3>1 DEF HandleTrajectory
      <3>3. PICK k : k = KeepLast(asked, m) /\ k \in Seq(Tick) /\ Len(k) <= Depth
                     /\ \A i \in 1 .. Len(k) : k[i] = m \/ \E j \in 1 .. Len(asked) : k[i] = asked[j]
        <4>1. m \in Tick /\ asked \in Seq(Tick) /\ Len(asked) <= Depth
          BY <1>1
        <4> QED BY <4>1, KeepLastNamed
      <3>4. \A i \in 1 .. Len(k) : k[i] <= tick
        BY <3>1, <3>3 DEF LoopInv, BasisInv
      <3> QED BY <3>2, <3>3, <3>4
    <2> QED BY <2>1, <2>2
  <1>3. TypeOK'
    BY <1>2 DEF LoopInv, TypeOK, HandleTrajectory
  <1>4. ClocksInv'
    BY DEF HandleTrajectory, LoopInv, ClocksInv
  <1>5. BasisInv'
    BY <1>2 DEF HandleTrajectory, LoopInv, BasisInv
  <1> QED BY <1>3, <1>4, <1>5 DEF LoopInv

----------------------------------------------------------------------------

\* The supervisor's callbacks.
LEMMA MatchClockStep == LoopInv /\ MatchClock => LoopInv'
  BY DEF MatchClock, LoopInv, TypeOK, ClocksInv, BasisInv,
         simVars, controllerVars, policyVars, historyVars

LEMMA LoseClockStep == LoopInv /\ LoseClock => LoopInv'
  BY DEF LoseClock, LoopInv, TypeOK, ClocksInv, BasisInv, TickOrNone,
         simVars, controllerVars, clockVars, policyVars, historyVars

\* A clock message in flight is the sim's last tick: the supervisor's clock
\* gets there, and never runs backwards.
LEMMA HandleClockNow ==
    ASSUME LoopInv, HandleClock
    PROVE  now' = tick /\ now' \in Tick /\ now <= now' /\ now \in Tick
  <1>1. clock = tick /\ now' = clock /\ now <= tick /\ tick \in Tick /\ now \in Tick
    BY DEF LoopInv, TypeOK, ClocksInv, HandleClock
  <1> QED BY <1>1

LEMMA HandleClockStep == LoopInv /\ HandleClock => LoopInv'
  <1> SUFFICES ASSUME LoopInv, HandleClock PROVE LoopInv'
    OBVIOUS
  <1> USE DEF simVars, controllerVars, policyVars, historyVars
  <1>1. PICK n \in Tick : n = now' /\ n = tick /\ now <= n /\ now \in Tick
    BY HandleClockNow
  <1>2. TypeOK'
    BY <1>1 DEF LoopInv, TypeOK, HandleClock, TickOrNone
  <1>3. ClocksInv'
    <2>1. \A i \in 1 .. Len(drive) : drive[i].stamp \in Tick /\ drive[i].stamp <= now
      <3>1. drive \in Seq([stamp : Tick, basis : TickOrNone])
        BY DEF LoopInv, TypeOK
      <3>2. \A i \in 1 .. Len(drive) : drive[i] \in [stamp : Tick, basis : TickOrNone]
        BY <3>1, QueueElement
      <3> QED BY <3>2 DEF LoopInv, ClocksInv
    <2>2. \A i \in 1 .. Len(drive) : drive[i].stamp <= n
      BY <1>1, <2>1 DEF Tick
    <2>3. receivedAt <= n /\ n <= tick
      <3>1. receivedAt \in Tick /\ receivedAt <= now
        BY DEF LoopInv, TypeOK, ClocksInv
      <3> QED BY <1>1, <3>1 DEF Tick
    <2>4. answered' => tick' <= n
      BY <1>1 DEF HandleClock, Tick
    <2>5. /\ held' => tick' = 0 /\ next' = 0
          /\ ~held' => next' = tick' + 1
          /\ tick' <= MaxTick
          /\ clock' # None => clock' = tick'
      BY DEF HandleClock, LoopInv, ClocksInv
    <2>6. drive' = drive /\ receivedAt' = receivedAt /\ tick' = tick
      BY DEF HandleClock
    <2> QED BY <1>1, <2>2, <2>3, <2>4, <2>5, <2>6 DEF ClocksInv
  <1>4. BasisInv'
    BY DEF HandleClock, LoopInv, BasisInv
  <1> QED BY <1>2, <1>3, <1>4 DEF LoopInv

LEMMA HandleCommandStep == LoopInv /\ HandleCommand => LoopInv'
  <1> SUFFICES ASSUME LoopInv, HandleCommand PROVE LoopInv'
    OBVIOUS
  <1> USE DEF simVars, controllerVars, clockVars, historyVars
  <1>1. /\ asked \in Seq(Tick) /\ Len(asked) <= Depth /\ asked # <<>> /\ asked' = Tail(asked)
    BY DEF LoopInv, TypeOK, HandleCommand
  <1>2. /\ Head(asked) = asked[1] /\ 1 \in 1 .. Len(asked) /\ asked[1] \in Tick
        /\ asked' \in Seq(Tick) /\ Len(asked') <= Depth
        /\ \A i \in 1 .. Len(asked') : i + 1 \in 1 .. Len(asked) /\ asked'[i] = asked[i + 1]
    BY <1>1, TakeQueue
  <1>3. PICK m \in Tick : m = Head(asked) /\ m <= tick
    BY <1>2 DEF LoopInv, BasisInv
  <1>4. TypeOK'
    BY <1>2, <1>3 DEF LoopInv, TypeOK, HandleCommand, TickOrNone
  <1>5. ClocksInv'
    <2>1. now <= now
      BY DEF LoopInv, TypeOK, Tick
    <2> QED BY <2>1 DEF HandleCommand, LoopInv, ClocksInv
  <1>6. BasisInv'
    <2>1. \A i \in 1 .. Len(asked') : asked'[i] <= tick
      BY <1>2 DEF LoopInv, BasisInv
    <2> QED BY <1>3, <2>1 DEF HandleCommand, LoopInv, BasisInv
  <1> QED BY <1>4, <1>5, <1>6 DEF LoopInv

\* What the control timer lets through is the standstill or the last command.
LEMMA EvaluatePassed ==
    ASSUME LoopInv, Evaluate
    PROVE  /\ latched' \in BOOLEAN
           /\ passed' \in TickOrNone /\ passed' <= tick
           /\ latched' => passed' = None
           /\ ~latched' => passed' = basis /\ ~latched /\ ~Stale
  <1>1. latched' = (latched \/ Stale) /\ latched \in BOOLEAN
        /\ basis \in TickOrNone /\ basis <= tick /\ tick \in Tick
    BY DEF LoopInv, TypeOK, BasisInv, Evaluate
  <1>2. latched' \in BOOLEAN
    BY <1>1 DEF Stale
  <1>3. CASE latched'
    <2>1. passed' = None
      BY <1>3 DEF Evaluate
    <2> QED BY <1>1, <1>2, <1>3, <2>1 DEF TickOrNone, Tick, None
  <1>4. CASE ~latched'
    <2>1. passed' = basis
      BY <1>4 DEF Evaluate
    <2> QED BY <1>1, <1>2, <1>4, <2>1
  <1> QED BY <1>3, <1>4

LEMMA EvaluateStep == LoopInv /\ Evaluate => LoopInv'
  <1> SUFFICES ASSUME LoopInv, Evaluate PROVE LoopInv'
    OBVIOUS
  <1> USE DEF simVars, controllerVars, clockVars, historyVars
  <1>1. PICK p \in TickOrNone : p = passed' /\ p <= tick
    BY EvaluatePassed
  <1>3. drive \in Seq([stamp : Tick, basis : TickOrNone]) /\ Len(drive) <= Depth
        /\ now \in Tick /\ nextCall \in Nat
    BY DEF LoopInv, TypeOK
  <1> DEFINE sent == [stamp |-> now, basis |-> p]
  <1>2. PICK m \in [stamp : Tick, basis : TickOrNone] : m = sent /\ m.stamp = now /\ m.basis = p
    <2>1. sent \in [stamp : Tick, basis : TickOrNone]
      BY <1>3
    <2>2. sent.stamp = now /\ sent.basis = p
      OBVIOUS
    <2> HIDE DEF sent
    <2> QED BY <2>1, <2>2
  <1>4. PICK k : k = KeepLast(drive, m)
                 /\ k \in Seq([stamp : Tick, basis : TickOrNone]) /\ Len(k) <= Depth
                 /\ \A i \in 1 .. Len(k) : k[i] = m \/ \E j \in 1 .. Len(drive) : k[i] = drive[j]
    <2>1. m \in Stamped /\ drive \in Seq(Stamped) /\ Len(drive) <= Depth
      BY <1>3 DEF Stamped
    <2>2. \E k : /\ k = KeepLast(drive, m) /\ k \in Seq(Stamped) /\ Len(k) <= Depth
                 /\ \A i \in 1 .. Len(k) : k[i] = m \/ \E j \in 1 .. Len(drive) : k[i] = drive[j]
      BY <2>1, KeepLastStamped
    <2> QED BY <2>2 DEF Stamped
  <1>5. drive' = k
    BY <1>1, <1>2, <1>4 DEF Evaluate
  <1>6. nextCall' \in Nat
    BY <1>3 DEF Evaluate, Tick
  <1>7. TypeOK'
    BY <1>1, <1>4, <1>5, <1>6, EvaluatePassed DEF LoopInv, TypeOK, Evaluate
  <1>8. ClocksInv'
    <2>1. \A i \in 1 .. Len(k) : k[i].stamp <= now
      <3>1. m.stamp <= now
        BY <1>2, <1>3 DEF Tick
      <3>2. \A j \in 1 .. Len(drive) : drive[j].stamp <= now
        BY DEF LoopInv, ClocksInv
      <3> QED BY <1>4, <3>1, <3>2
    <2> QED BY <1>5, <2>1 DEF Evaluate, LoopInv, ClocksInv
  <1>9. BasisInv'
    <2>1. \A i \in 1 .. Len(k) : k[i].basis <= tick
      BY <1>1, <1>2, <1>4 DEF LoopInv, BasisInv
    <2> QED BY <1>1, <1>5, <2>1 DEF Evaluate, LoopInv, BasisInv
  <1> QED BY <1>7, <1>8, <1>9 DEF LoopInv

----------------------------------------------------------------------------

LEMMA LoopInvStep == LoopInv /\ [Next]_vars => LoopInv'
  <1> SUFFICES ASSUME LoopInv, [Next]_vars PROVE LoopInv'
    OBVIOUS
  <1>1. CASE UNCHANGED vars
    BY <1>1 DEF vars, LoopInv, TypeOK, ClocksInv, BasisInv
  <1>2. CASE Next
    BY <1>2, HeldTimerStep, ReleaseStep, StepAnsweredStep, StepOnWallClockStep,
       HandleDriveStep, HandleOdomStep, HandleTrajectoryStep, MatchClockStep,
       HandleClockStep, LoseClockStep, HandleCommandStep, EvaluateStep DEF Next
  <1> QED BY <1>1, <1>2

\* The loop's inductive invariant: the order of the clocks of the sim, of
\* the supervisor, of its last command and of every /drive in flight.
THEOREM LoopInvariant == Spec => []LoopInv
  <1>1. Init => LoopInv
    <2> SUFFICES ASSUME Init PROVE LoopInv
      OBVIOUS
    <2>1. /\ odom \in Seq(Tick) /\ asked \in Seq(Tick)
          /\ drive \in Seq([stamp : Tick, basis : TickOrNone])
          /\ Len(odom) = 0 /\ Len(asked) = 0 /\ Len(drive) = 0
      BY DEF Init
    <2>2. TypeOK
      <3>1. 0 \in Tick /\ None \in TickOrNone
        BY DEF Tick, TickOrNone
      <3>2. Len(odom) <= Depth /\ Len(asked) <= Depth /\ Len(drive) <= Depth
        BY <2>1
      <3> QED BY <2>1, <3>1, <3>2 DEF Init, TypeOK
    <2>3. ClocksInv
      BY <2>1 DEF Init, ClocksInv
    <2>4. BasisInv
      BY <2>1 DEF Init, BasisInv, None
    <2> QED BY <2>2, <2>3, <2>4 DEF LoopInv
  <1> QED BY <1>1, LoopInvStep, PTL DEF Spec

\* Every variable of the loop keeps its type and no queue outgrows its depth.
THEOREM TypeCorrect == Spec => []TypeOK
  <1>1. LoopInv => TypeOK
    BY DEF LoopInv
  <1> QED BY <1>1, LoopInvariant, PTL

----------------------------------------------------------------------------

\* InStep itself is inductive: an answer was stamped with the supervisor's
\* clock, at or after the tick it answers.

\* A step on an answer leaves the sim one tick ahead at most.
LEMMA StepAfterAnswer ==
    ASSUME LoopInv, Step, answered
    PROVE  tick' <= now' + 1
  <1>1. tick' = next /\ next = tick + 1 /\ now' = now
    BY DEF Step, Publish, clockVars, LoopInv, TypeOK, ClocksInv
  <1>2. tick <= now /\ tick \in Nat /\ now \in Nat
    BY DEF LoopInv, TypeOK, Tick, ClocksInv
  <1>3. PICK t : t = tick' /\ t = tick + 1
    BY <1>1
  <1>4. t <= now + 1
    BY <1>2, <1>3
  <1> QED BY <1>1, <1>3, <1>4

\* A step without an answer counts itself.
LEMMA StepWithoutAnswer ==
    ASSUME LoopInv, InStep, Step, late' = late + 1
    PROVE  InStep'
  <1>1. tick' = next /\ next = tick + 1 /\ now' = now
    BY DEF Step, Publish, clockVars, LoopInv, TypeOK, ClocksInv
  <1>2. tick \in Nat /\ now \in Nat /\ late \in Nat /\ tick <= now + late + 1
    BY DEF LoopInv, TypeOK, Tick, InStep
  <1>3. PICK t, l : t = tick' /\ t = tick + 1 /\ l = late' /\ l = late + 1
    BY <1>1
  <1>4. t <= now + l + 1
    BY <1>2, <1>3
  <1> QED BY <1>1, <1>3, <1>4 DEF InStep

\* A step on an answer counts nothing, and needs to.
LEMMA StepWithAnswer ==
    ASSUME LoopInv, Step, answered, late' = 0
    PROVE  InStep'
  <1>1. now' \in Nat /\ tick' <= now' + 1
    <2>1. now' = now /\ now \in Nat
      BY DEF Step, clockVars, LoopInv, TypeOK, Tick
    <2> QED BY <2>1, StepAfterAnswer
  <1>2. PICK t, n : t = tick' /\ n = now' /\ n \in Nat /\ t <= n + 1
    BY <1>1
  <1>3. t <= n + 0 + 1
    BY <1>2
  <1> QED BY <1>2, <1>3 DEF InStep

LEMMA InStepStep == LoopInv /\ InStep /\ [Next]_vars => InStep'
  <1> SUFFICES ASSUME LoopInv, InStep, [Next]_vars PROVE InStep'
    OBVIOUS
  <1> USE DEF simVars, controllerVars, clockVars, policyVars, historyVars
  <1>1. CASE HeldTimer \/ Release
    <2>1. tick' = 0 /\ now' = now /\ late' = late /\ now \in Nat /\ late \in Nat
      BY <1>1 DEF HeldTimer, Release, Publish, LoopInv, TypeOK, ClocksInv, Tick
    <2>2. 0 <= now + late + 1
      BY <2>1
    <2> QED BY <2>1, <2>2 DEF InStep
  <1>2. CASE StepAnswered
    BY <1>2, StepWithAnswer DEF StepAnswered
  <1>3. CASE StepOnWallClock
    <2>1. CASE answered
      BY <1>3, <2>1, StepWithAnswer DEF StepOnWallClock
    <2>2. CASE ~answered
      BY <1>3, <2>2, StepWithoutAnswer DEF StepOnWallClock
    <2> QED BY <2>1, <2>2
  <1>4. CASE HandleClock
    <2>1. PICK n : n = now' /\ n = tick /\ n \in Nat
      BY <1>4, HandleClockNow DEF Tick
    <2>2. late \in Nat /\ tick <= n + late + 1
      BY <2>1 DEF LoopInv, TypeOK
    <2>3. tick' = tick /\ late' = late
      BY <1>4 DEF HandleClock
    <2> QED BY <2>1, <2>2, <2>3 DEF InStep
  <1>5. CASE \/ HandleDrive \/ HandleOdom \/ HandleTrajectory \/ MatchClock
             \/ LoseClock \/ HandleCommand \/ Evaluate \/ UNCHANGED vars
    <2>1. UNCHANGED <<late, tick, now>>
      BY <1>5 DEF HandleDrive, HandleOdom, HandleTrajectory, MatchClock, LoseClock,
                  HandleCommand, Evaluate, vars
    <2> QED BY <2>1 DEF InStep
  <1> QED BY <1>1, <1>2, <1>3, <1>4, <1>5 DEF Next

\* The sim outruns the supervisor's clock by its unanswered steps and one tick,
\* at any time_scale and for any graph.
THEOREM InStepHolds == Spec => []InStep
  <1>1. Init => InStep
    BY DEF Init, InStep
  <1> QED BY <1>1, InStepStep, LoopInvariant, PTL DEF Spec

----------------------------------------------------------------------------

\* Each step of the loop is a step of the gate or leaves it alone.
LEMMA GateStep ==
    ASSUME LoopInv, LoopInv', [Next]_vars
    PROVE  [Gate!GateNext]_Gate!gateVars
  <1> USE DEF simVars, controllerVars, clockVars, policyVars, historyVars
  <1>1. CASE HandleClock
    <2>1. now' = clock /\ now \in Int /\ now' \in Int /\ now <= now'
      BY <1>1, HandleClockNow DEF Tick, HandleClock
    <2>2. UNCHANGED <<receivedAt, latched, passed>>
      BY <1>1 DEF HandleClock
    <2>3. CASE now' = now
      BY <2>2, <2>3 DEF Gate!gateVars
    <2>4. CASE now' # now
      <3>1. now' > now
        BY <2>1, <2>4
      <3> QED BY <2>1, <2>2, <3>1 DEF Gate!GateNext, Gate!Advance
    <2> QED BY <2>3, <2>4
  <1>2. CASE HandleCommand
    <2>1. receivedAt' = now /\ UNCHANGED <<now, latched, passed>>
      BY <1>2 DEF HandleCommand
    <2> QED BY <2>1 DEF Gate!GateNext, Gate!Hear
  <1>3. CASE Evaluate
    <2>1. UNCHANGED <<now, receivedAt>> /\ latched' = (latched \/ Stale) /\ latched \in BOOLEAN
      BY <1>3 DEF Evaluate, LoopInv, TypeOK
    <2>2. /\ latched' \in BOOLEAN
          /\ latched' => passed' = None
          /\ ~latched' => passed' = basis /\ ~latched /\ ~Stale
      BY <1>3, EvaluatePassed
    <2>3. CASE passed' = None
      <3>1. latched' \in {latched, TRUE}
        BY <2>1, <2>2
      <3> QED BY <2>1, <2>3, <3>1 DEF Gate!GateNext, Gate!PublishStandstill
    <2>4. CASE passed' # None
      <3>1. ~latched' /\ basis # None /\ ~latched /\ ~Stale
        BY <2>2, <2>4
      <3>2. now - receivedAt <= Timeout
        BY <3>1 DEF Stale, LoopInv, TypeOK, Tick
      <3>3. latched' = latched
        BY <2>1, <2>2, <3>1
      <3> QED BY <2>1, <2>4, <3>1, <3>2, <3>3 DEF Gate!GateNext, Gate!PublishMoving
    <2> QED BY <2>3, <2>4
  <1>4. CASE \/ HeldTimer \/ Release \/ StepAnswered \/ StepOnWallClock
             \/ HandleDrive \/ HandleOdom \/ HandleTrajectory \/ MatchClock
             \/ LoseClock \/ UNCHANGED vars
    <2>1. UNCHANGED <<now, receivedAt, latched, passed>>
      BY <1>4 DEF HeldTimer, Release, StepAnswered, StepOnWallClock, Step, HandleDrive,
                  HandleOdom, HandleTrajectory, MatchClock, LoseClock, vars
    <2> QED BY <2>1 DEF Gate!gateVars
  <1> QED BY <1>1, <1>2, <1>3, <1>4 DEF Next

\* The supervisor of the loop, whatever the sim and the controller do and
\* whatever the transport loses, implements the abstract safety gate.
THEOREM LoopGateRefined == Spec => LoopImplementsGate
  <1>1. Init => Gate!GateInit
    BY DEF Init, Gate!GateInit, None
  <1>2. LoopInv /\ LoopInv' /\ [Next]_vars => [Gate!GateNext]_Gate!gateVars
    BY GateStep
  <1> QED BY <1>1, <1>2, LoopInvariant, PTL DEF Spec, LoopImplementsGate, Gate!GateSpec

----------------------------------------------------------------------------

\* At 1x in a responsive graph the supervisor's clock is at the published tick
\* or, with the /clock of it still under way, one before, and its timer has
\* fired at every tick it has seen.
ClockInStep ==
    /\ clock # None \/ heard => matched
    /\ held => now = 0 /\ nextCall = 1
    /\ ~held => matched /\ (clock = None => now = tick)
    /\ now >= tick - 1
    /\ nextCall \in {now, now + 1}
    /\ now < tick => nextCall = now + 1

\* The controller has the state of this tick, or it is under way.
StateInStep ==
    /\ \A i \in 1 .. Len(odom) : odom[i] = tick
    /\ state # None => state >= tick - 1
    /\ ~held /\ odom = <<>> => state = tick

\* The supervisor has the command for that state, or it is under way.
CommandInStep ==
    /\ \A i \in 1 .. Len(asked) : asked[i] >= tick - 1
    /\ basis # None => basis >= tick - 1
    /\ ~hasTrajectory => asked = <<>> /\ basis = None
    /\ hasTrajectory /\ asked = <<>> => basis = state
    /\ hasTrajectory /\ asked # <<>> => asked[Len(asked)] = state

\* When it last heard one.
HeardInStep ==
    basis # None =>
        /\ receivedAt >= tick - 2
        /\ odom = <<>> /\ asked = <<>> => receivedAt >= tick - 1

\* What the sim applies is of this tick or of the one before, once the timer
\* has fired in it.
AppliedInStep ==
    /\ \A i \in 1 .. Len(drive) : drive[i].basis # None => drive[i].basis >= tick - 1
    /\ \/ applied = None
       \/ applied >= tick - 1
       \/ drive # <<>>
       \/ now < tick
       \/ nextCall = now

FreshInv ==
    /\ ClockInStep /\ StateInStep /\ CommandInStep /\ HeardInStep /\ AppliedInStep
    /\ RealTimeLoopFresh

\* A message put into a bounded queue is its last.
LEMMA KeepLastEnds ==
    ASSUME NEW S, NEW q \in Seq(S), NEW m \in S
    PROVE  KeepLast(q, m) # <<>> /\ KeepLast(q, m)[Len(KeepLast(q, m))] = m
  <1> DEFINE t == IF Len(q) = Depth THEN Tail(q) ELSE q
  <1>1. t \in Seq(S)
    <2>1. CASE Len(q) = Depth
      <3>1. q # <<>>
        BY <2>1
      <3> QED BY <2>1, <3>1
    <2>2. CASE Len(q) # Depth
      BY <2>2
    <2> QED BY <2>1, <2>2
  <1>2. KeepLast(q, m) = Append(t, m)
    BY DEF KeepLast
  <1> HIDE DEF t
  <1>3. /\ Len(Append(t, m)) = Len(t) + 1 /\ Append(t, m)[Len(t) + 1] = m
        /\ Append(t, m) # <<>>
    BY <1>1
  <1> QED BY <1>2, <1>3

\* What the queue of a topic of ticks holds after one more message.
LEMMA KeepLastOfTicks ==
    ASSUME NEW q \in Seq(Tick), Len(q) <= Depth, NEW m \in Tick
    PROVE  \E k : /\ k = KeepLast(q, m) /\ k \in Seq(Tick) /\ k # <<>> /\ k[Len(k)] = m
                  /\ \A i \in 1 .. Len(k) : k[i] = m \/ \E j \in 1 .. Len(q) : k[i] = q[j]
  <1>1. PICK k : /\ k = KeepLast(q, m) /\ k \in Seq(Tick)
                 /\ \A i \in 1 .. Len(k) : k[i] = m \/ \E j \in 1 .. Len(q) : k[i] = q[j]
    BY KeepLastNamed
  <1>2. k # <<>> /\ k[Len(k)] = m
    BY <1>1, KeepLastEnds
  <1> WITNESS k
  <1> QED BY <1>1, <1>2

\* The numbers of the loop.
LEMMA FreshTypes ==
    ASSUME LoopInv
    PROVE  /\ tick \in Nat /\ now \in Nat /\ nextCall \in Nat /\ receivedAt \in Nat
           /\ state \in Nat \cup {None} /\ basis \in Nat \cup {None}
           /\ applied \in Nat \cup {None} /\ clock \in Nat \cup {None}
           /\ now <= tick /\ receivedAt <= now
           /\ state <= tick /\ basis <= tick /\ applied <= tick
           /\ clock # None => clock = tick
           /\ held => tick = 0 /\ next = 0
           /\ ~held => next = tick + 1
  BY DEF LoopInv, TypeOK, ClocksInv, BasisInv, Tick, TickOrNone

\* A publication puts its tick at the end of the queue to the controller.
LEMMA PublishedOdom ==
    ASSUME LoopInv, NEW h, Publish(h), next <= MaxTick,
           \A i \in 1 .. Len(odom) : odom[i] = next
    PROVE  odom' # <<>> /\ \A i \in 1 .. Len(odom') : odom'[i] = next
  <1>1. PICK n \in Tick : n = next
    BY DEF LoopInv, TypeOK
  <1>2. odom \in Seq(Tick) /\ Len(odom) <= Depth
    BY DEF LoopInv, TypeOK
  <1>3. PICK k : /\ k = KeepLast(odom, n) /\ k \in Seq(Tick) /\ k # <<>> /\ k[Len(k)] = n
                 /\ \A i \in 1 .. Len(k) : k[i] = n \/ \E j \in 1 .. Len(odom) : k[i] = odom[j]
    BY <1>2, KeepLastOfTicks
  <1>4. odom' = k
    BY <1>1, <1>3 DEF Publish
  <1>5. \A i \in 1 .. Len(k) : k[i] = n
    BY <1>1, <1>3
  <1> QED BY <1>1, <1>3, <1>4, <1>5

\* Held, the sim repeats tick 0.
LEMMA HeldPublication ==
    ASSUME LoopInv, FreshInv, held, NEW h \in BOOLEAN, Publish(h), held' = h, h \/ heard,
           UNCHANGED <<applied, asked, drive, controllerVars, clockVars, policyVars, historyVars>>
    PROVE  FreshInv'
  <1> USE DEF controllerVars, clockVars, policyVars, historyVars
  <1>1. tick = 0 /\ next = 0 /\ next <= MaxTick
    BY FreshTypes
  <1>2. tick' = 0 /\ (clock' = IF matched THEN 0 ELSE None)
    BY <1>1 DEF Publish
  <1>3. odom' # <<>> /\ \A i \in 1 .. Len(odom') : odom'[i] = 0
    BY <1>1, PublishedOdom DEF FreshInv, StateInStep
  <1>4. ClockInStep'
    <2>1. now = 0 /\ nextCall = 1 /\ (heard => matched)
      BY DEF FreshInv, ClockInStep
    <2>2. ~h => matched /\ clock' # None
      BY <1>2, <2>1 DEF None
    <2>3. clock' # None \/ heard' => matched'
      BY <1>2, <2>1
    <2> QED BY <1>2, <2>1, <2>2, <2>3 DEF ClockInStep
  <1>5. StateInStep'
    BY <1>1, <1>2, <1>3 DEF FreshInv, StateInStep
  <1>6. CommandInStep'
    BY <1>1, <1>2 DEF FreshInv, CommandInStep
  <1>7. HeardInStep'
    BY <1>1, <1>2, FreshTypes DEF HeardInStep
  <1>8. AppliedInStep'
    BY <1>1, <1>2 DEF FreshInv, AppliedInStep
  <1>9. RealTimeLoopFresh'
    BY DEF FreshInv, RealTimeLoopFresh, NoSpuriousLatch, AgeAtMostOne
  <1> QED BY <1>4, <1>5, <1>6, <1>7, <1>8, <1>9 DEF FreshInv

\* The sim steps once nothing of the last tick is under way: each of the
\* others has then done all it can for that tick.
LEMMA QuietStep ==
    ASSUME LoopInv, FreshInv, Step, Quiet
    PROVE  FreshInv'
  <1> USE DEF controllerVars, clockVars, policyVars
  <1>1. ~held /\ tick < MaxTick /\ next = tick + 1 /\ next <= MaxTick /\ tick \in Nat
    BY FreshTypes DEF Step
  <1>2. /\ tick' = tick + 1 /\ held' = FALSE
        /\ clock' = IF matched THEN tick + 1 ELSE None
    BY <1>1 DEF Step, Publish, LoopInv, TypeOK
  <1>3. odom' # <<>> /\ \A i \in 1 .. Len(odom') : odom'[i] = tick + 1
    <2>1. \A i \in 1 .. Len(odom) : odom[i] = next
      <3>1. Len(odom) = 0
        BY DEF Quiet
      <3> QED BY <3>1
    <2> QED BY <1>1, <2>1, PublishedOdom DEF Step
  <1>4. matched /\ now = tick /\ nextCall = now + 1 /\ now \in Nat
    BY <1>1, FreshTypes DEF Quiet, EvaluationDue, FreshInv, ClockInStep
  <1>5. state = tick /\ (basis # None => basis = tick /\ receivedAt >= tick - 1)
    <2>1. state = tick
      BY <1>1 DEF Quiet, FreshInv, StateInStep
    <2>2. basis # None => basis = state
      BY DEF Quiet, FreshInv, CommandInStep
    <2>3. basis # None => receivedAt >= tick - 1
      BY DEF Quiet, FreshInv, HeardInStep
    <2> QED BY <2>1, <2>2, <2>3
  <1>6. applied = None \/ applied >= tick - 1
    BY <1>4 DEF Quiet, FreshInv, AppliedInStep
  <1>7. ClockInStep'
    <2>1. clock' # None
      BY <1>1, <1>2, <1>4 DEF None
    <2>2. UNCHANGED <<matched, heard, now, nextCall>>
      BY DEF Step
    <2>3. now >= tick + 1 - 1 /\ now < tick + 1
      BY <1>1, <1>4
    <2> QED BY <1>2, <1>4, <2>1, <2>2, <2>3 DEF ClockInStep
  <1>8. StateInStep'
    <2>1. state >= (tick + 1) - 1
      BY <1>1, <1>5
    <2>2. state' = state
      BY DEF Step
    <2>3. state' >= tick' - 1
      BY <1>2, <2>1, <2>2
    <2>4. \A i \in 1 .. Len(odom') : odom'[i] = tick'
      BY <1>2, <1>3
    <2> QED BY <1>3, <2>3, <2>4, Zenon DEF StateInStep
  <1>9. CommandInStep'
    <2>1. asked = <<>> /\ Len(asked) = 0
      BY DEF Quiet
    <2>2. basis # None => basis >= (tick + 1) - 1
      BY <1>1, <1>5
    <2>3. asked' = asked /\ basis' = basis /\ state' = state /\ hasTrajectory' = hasTrajectory
      BY DEF Step
    <2>4. (~hasTrajectory => basis = None) /\ (hasTrajectory => basis = state)
      BY <2>1 DEF FreshInv, CommandInStep
    <2>5. basis' # None => basis' >= tick' - 1
      BY <1>2, <2>2, <2>3
    <2>6. \A i \in 1 .. Len(asked') : asked'[i] >= tick' - 1
      BY <2>1, <2>3
    <2> QED BY <2>1, <2>3, <2>4, <2>5, <2>6, Zenon DEF CommandInStep
  <1>10. HeardInStep'
    <2>1. basis # None => receivedAt >= (tick + 1) - 2
      BY <1>1, <1>5, FreshTypes
    <2>2. basis' = basis /\ receivedAt' = receivedAt
      BY DEF Step
    <2>3. basis' # None => receivedAt' >= tick' - 2
      BY <1>2, <2>1, <2>2
    <2> QED BY <1>3, <2>3, Zenon DEF HeardInStep
  <1>11. AppliedInStep'
    <2>1. Len(drive) = 0 /\ UNCHANGED <<drive, now>>
      BY DEF Quiet, Step
    <2>2. now < tick + 1
      BY <1>1, <1>4
    <2> QED BY <1>2, <2>1, <2>2 DEF AppliedInStep
  <1>12. RealTimeLoopFresh'
    <2>1. ~latched' /\ ages \subseteq {0, 1}
      BY DEF Step, FreshInv, RealTimeLoopFresh, NoSpuriousLatch, AgeAtMostOne
    <2>2. applied # None => tick - applied \in {0, 1}
      BY <1>1, <1>6, FreshTypes DEF None
    <2>3. ages' \subseteq {0, 1}
      <3>1. CASE applied = None
        BY <2>1, <3>1 DEF Step
      <3>2. CASE applied # None
        BY <2>1, <2>2, <3>2 DEF Step
      <3> QED BY <3>1, <3>2
    <2> QED BY <2>1, <2>3 DEF RealTimeLoopFresh, NoSpuriousLatch, AgeAtMostOne
  <1> QED BY <1>7, <1>8, <1>9, <1>10, <1>11, <1>12 DEF FreshInv

\* The sim takes the oldest /drive, which is no older than the others.
LEMMA FreshDrive ==
    ASSUME LoopInv, FreshInv, HandleDrive
    PROVE  FreshInv'
  <1> USE DEF controllerVars, clockVars, policyVars, historyVars
  <1>1. drive \in Seq(Stamped) /\ Len(drive) <= Depth /\ drive # <<>>
    BY DEF LoopInv, TypeOK, HandleDrive, Stamped
  <1>2. /\ Head(drive) = drive[1] /\ 1 \in 1 .. Len(drive)
        /\ \A i \in 1 .. Len(Tail(drive)) : i + 1 \in 1 .. Len(drive) /\ Tail(drive)[i] = drive[i + 1]
    BY <1>1, TakeQueue
  <1>3. \A i \in 1 .. Len(drive) : drive[i].basis # None => drive[i].basis >= tick - 1
    BY DEF FreshInv, AppliedInStep
  <1>4. AppliedInStep'
    <2>1. drive' = Tail(drive) /\ applied' = drive[1].basis /\ tick' = tick
      BY <1>2 DEF HandleDrive
    <2>2. applied' = None \/ applied' >= tick - 1
      BY <1>2, <1>3, <2>1
    <2>3. \A i \in 1 .. Len(drive') : drive'[i].basis # None => drive'[i].basis >= tick - 1
      BY <1>2, <1>3, <2>1
    <2> QED BY <2>1, <2>2, <2>3 DEF AppliedInStep
  <1> QED BY <1>4 DEF HandleDrive, FreshInv, ClockInStep, StateInStep, CommandInStep,
                      HeardInStep, RealTimeLoopFresh, NoSpuriousLatch, AgeAtMostOne

\* The controller has the state of this tick, and asks for its command if it
\* may.
LEMMA FreshOdom ==
    ASSUME LoopInv, FreshInv, HandleOdom
    PROVE  FreshInv'
  <1> USE DEF simVars, clockVars, policyVars, historyVars
  <1>1. /\ odom \in Seq(Tick) /\ Len(odom) <= Depth /\ odom # <<>> /\ odom' = Tail(odom)
        /\ asked \in Seq(Tick) /\ Len(asked) <= Depth /\ tick \in Tick
        /\ tick \in Nat
    BY DEF LoopInv, TypeOK, HandleOdom, Tick
  <1>2. /\ Head(odom) = odom[1] /\ 1 \in 1 .. Len(odom)
        /\ \A i \in 1 .. Len(odom') : i + 1 \in 1 .. Len(odom) /\ odom'[i] = odom[i + 1]
    BY <1>1, TakeQueue
  <1>3. Head(odom) = tick /\ state' = tick /\ tick' = tick
    BY <1>2 DEF FreshInv, StateInStep, HandleOdom
  <1>4. PICK k : /\ k = KeepLast(asked, tick) /\ k # <<>> /\ k[Len(k)] = tick
                 /\ \A i \in 1 .. Len(k) : k[i] = tick \/ \E j \in 1 .. Len(asked) : k[i] = asked[j]
    BY <1>1, KeepLastOfTicks
  <1>5. asked' = IF hasTrajectory THEN k ELSE asked
    BY <1>3, <1>4 DEF HandleOdom
  <1>6. basis' = basis /\ hasTrajectory' = hasTrajectory /\ receivedAt' = receivedAt
    BY DEF HandleOdom
  <1>7. \A i \in 1 .. Len(asked) : asked[i] >= tick - 1
    BY DEF FreshInv, CommandInStep
  <1>8. ~hasTrajectory => asked = <<>> /\ basis = None
    BY DEF FreshInv, CommandInStep
  <1>9. StateInStep'
    <2>1. \A i \in 1 .. Len(odom') : odom'[i] = tick
      BY <1>2 DEF FreshInv, StateInStep
    <2>2. state' >= tick - 1
      BY <1>1, <1>3
    <2> QED BY <1>3, <2>1, <2>2 DEF StateInStep
  <1>10. CommandInStep'
    <2>1. basis' # None => basis' >= tick' - 1
      BY <1>3, <1>6 DEF FreshInv, CommandInStep
    <2>2. CASE hasTrajectory
      <3>1. tick >= tick - 1
        BY <1>1
      <3>2. \A i \in 1 .. Len(k) : k[i] >= tick - 1
        BY <1>4, <1>7, <3>1
      <3>3. asked' = k /\ hasTrajectory'
        BY <1>5, <1>6, <2>2
      <3>4. \A i \in 1 .. Len(asked') : asked'[i] >= tick' - 1
        BY <1>3, <3>2, <3>3
      <3>5. asked' # <<>> /\ asked'[Len(asked')] = state'
        BY <1>3, <1>4, <3>3
      <3> QED BY <2>1, <3>3, <3>4, <3>5, Zenon DEF CommandInStep
    <2>3. CASE ~hasTrajectory
      <3>1. asked' = asked /\ ~hasTrajectory' /\ asked' = <<>> /\ basis' = None
        BY <1>5, <1>6, <1>8, <2>3
      <3>2. \A i \in 1 .. Len(asked') : asked'[i] >= tick' - 1
        BY <1>3, <1>7, <3>1
      <3> QED BY <2>1, <3>1, <3>2, Zenon DEF CommandInStep
    <2> QED BY <2>2, <2>3
  <1>11. HeardInStep'
    <2>1. basis' # None => asked' # <<>> /\ receivedAt' >= tick' - 2
      BY <1>3, <1>4, <1>5, <1>6, <1>8 DEF FreshInv, HeardInStep
    <2> QED BY <2>1, Zenon DEF HeardInStep
  <1>12. ClockInStep' /\ AppliedInStep' /\ RealTimeLoopFresh'
    BY DEF HandleOdom, FreshInv, ClockInStep, AppliedInStep, RealTimeLoopFresh,
           NoSpuriousLatch, AgeAtMostOne
  <1> QED BY <1>9, <1>10, <1>11, <1>12 DEF FreshInv

\* The first command, for the state the controller has.
LEMMA FreshTrajectory ==
    ASSUME LoopInv, FreshInv, HandleTrajectory
    PROVE  FreshInv'
  <1> USE DEF simVars, clockVars, policyVars, historyVars
  <1>1. /\ asked = <<>> /\ basis = None /\ hasTrajectory' = TRUE
        /\ state' = state /\ basis' = basis /\ tick' = tick
    BY DEF HandleTrajectory, FreshInv, CommandInStep
  <1>2. CommandInStep'
    <2>1. basis' = None /\ hasTrajectory'
      BY <1>1
    <2>2. CASE state = None
      <3>1. asked' = <<>> /\ basis' = state' /\ Len(asked') = 0
        BY <1>1, <2>2 DEF HandleTrajectory
      <3>2. \A i \in 1 .. Len(asked') : asked'[i] >= tick' - 1
        BY <3>1
      <3> QED BY <2>1, <3>1, <3>2, Zenon DEF CommandInStep
    <2>3. CASE state # None
      <3>1. state \in Tick /\ state >= tick - 1 /\ asked \in Seq(Tick) /\ Len(asked) = 0
        BY <1>1, <2>3 DEF LoopInv, TypeOK, TickOrNone, FreshInv, StateInStep
      <3>2. Len(asked) <= Depth
        BY <3>1
      <3>3. PICK k : /\ k = KeepLast(asked, state) /\ k # <<>> /\ k[Len(k)] = state
                     /\ \A i \in 1 .. Len(k) :
                           k[i] = state \/ \E j \in 1 .. Len(asked) : k[i] = asked[j]
        <4>1. PICK m \in Tick : m = state
          BY <3>1
        <4>3. asked \in Seq(Tick) /\ Len(asked) <= Depth
          BY <3>1, <3>2
        <4>2. \E k : /\ k = KeepLast(asked, m) /\ k \in Seq(Tick) /\ k # <<>> /\ k[Len(k)] = m
                     /\ \A i \in 1 .. Len(k) : k[i] = m \/ \E j \in 1 .. Len(asked) : k[i] = asked[j]
          BY <4>3, KeepLastOfTicks, Zenon
        <4> QED BY <4>1, <4>2
      <3>4. asked' = k
        BY <2>3, <3>3 DEF HandleTrajectory
      <3>5. \A i \in 1 .. Len(k) : k[i] = state
        BY <3>1, <3>3
      <3>6. \A i \in 1 .. Len(asked') : asked'[i] >= tick' - 1
        BY <1>1, <3>1, <3>4, <3>5
      <3>7. asked' # <<>> /\ asked'[Len(asked')] = state'
        BY <1>1, <3>3, <3>4
      <3> QED BY <2>1, <3>6, <3>7, Zenon DEF CommandInStep
    <2> QED BY <2>2, <2>3
  <1>3. HeardInStep'
    BY <1>1 DEF HeardInStep
  <1>4. ClockInStep' /\ StateInStep' /\ AppliedInStep' /\ RealTimeLoopFresh'
    BY DEF HandleTrajectory, FreshInv, ClockInStep, StateInStep, AppliedInStep,
           RealTimeLoopFresh, NoSpuriousLatch, AgeAtMostOne
  <1> QED BY <1>2, <1>3, <1>4 DEF FreshInv

LEMMA FreshMatch ==
    ASSUME LoopInv, FreshInv, MatchClock
    PROVE  FreshInv'
  BY DEF simVars, controllerVars, policyVars, historyVars, MatchClock, FreshInv, ClockInStep,
         StateInStep, CommandInStep, HeardInStep, AppliedInStep, RealTimeLoopFresh,
         NoSpuriousLatch, AgeAtMostOne

\* The supervisor's clock gets to the published tick, in which its timer is due.
LEMMA FreshClock ==
    ASSUME LoopInv, FreshInv, HandleClock
    PROVE  FreshInv'
  <1> USE DEF simVars, controllerVars, policyVars, historyVars
  <1>1. /\ now' = tick /\ clock' = None /\ heard' = TRUE /\ matched' = matched
        /\ held' = held /\ nextCall' = nextCall /\ tick' = tick
    BY FreshTypes DEF HandleClock
  <1>2. /\ matched
        /\ held => now = 0 /\ nextCall = 1 /\ tick = 0
        /\ now >= tick - 1
        /\ nextCall \in {now, now + 1}
        /\ now < tick => nextCall = now + 1
        /\ now <= tick /\ now \in Nat /\ tick \in Nat /\ nextCall \in Nat
    <2>1. matched
      BY DEF HandleClock, FreshInv, ClockInStep
    <2> QED BY <2>1, FreshTypes DEF FreshInv, ClockInStep
  <1>3. nextCall \in {tick, tick + 1} /\ (now < tick => nextCall = tick)
    BY <1>2
  <1>4. tick >= tick - 1 /\ ~(tick < tick)
    BY <1>2
  <1>5. ClockInStep'
    BY <1>1, <1>2, <1>3, <1>4, Zenon DEF ClockInStep
  <1>6. AppliedInStep'
    <2>1. drive' = drive /\ applied' = applied
      BY DEF HandleClock
    <2>2. applied = None \/ applied >= tick - 1 \/ drive # <<>> \/ nextCall = tick
      BY <1>2, <1>3 DEF FreshInv, AppliedInStep
    <2>3. \A i \in 1 .. Len(drive') : drive'[i].basis # None => drive'[i].basis >= tick' - 1
      BY <1>1, <2>1 DEF FreshInv, AppliedInStep
    <2> QED BY <1>1, <2>1, <2>2, <2>3, Zenon DEF AppliedInStep
  <1>7. StateInStep' /\ CommandInStep' /\ HeardInStep' /\ RealTimeLoopFresh'
    BY DEF HandleClock, FreshInv, StateInStep, CommandInStep, HeardInStep,
           RealTimeLoopFresh, NoSpuriousLatch, AgeAtMostOne
  <1> QED BY <1>5, <1>6, <1>7 DEF FreshInv

LEMMA FreshCommand ==
    ASSUME LoopInv, FreshInv, HandleCommand
    PROVE  FreshInv'
  <1> USE DEF simVars, controllerVars, clockVars, historyVars
  <1>1. asked \in Seq(Tick) /\ Len(asked) <= Depth /\ asked # <<>> /\ asked' = Tail(asked)
    BY DEF LoopInv, TypeOK, HandleCommand
  <1>2. /\ Head(asked) = asked[1] /\ 1 \in 1 .. Len(asked) /\ asked[1] \in Tick
        /\ \A i \in 1 .. Len(asked') : i + 1 \in 1 .. Len(asked) /\ asked'[i] = asked[i + 1]
    BY <1>1, TakeQueue
  <1>3. Len(asked) \in Nat /\ Len(asked') = Len(asked) - 1 /\ (asked' = <<>> <=> Len(asked) = 1)
    <2>1. Len(asked) \in Nat /\ Len(Tail(asked)) = Len(asked) - 1 /\ Tail(asked) \in Seq(Tick)
      BY <1>1
    <2>2. PICK k \in Seq(Tick) : k = Tail(asked)
      BY <2>1
    <2>3. k = <<>> <=> Len(k) = 0
      OBVIOUS
    <2> QED BY <1>1, <2>1, <2>2, <2>3
  <1>4. /\ basis' = asked[1] /\ receivedAt' = now /\ tick' = tick /\ state' = state
        /\ hasTrajectory' = hasTrajectory
    BY <1>2 DEF HandleCommand
  <1>5. hasTrajectory /\ asked[Len(asked)] = state
    BY <1>1 DEF FreshInv, CommandInStep, LoopInv, TypeOK
  <1>6. \A i \in 1 .. Len(asked) : asked[i] >= tick - 1
    BY DEF FreshInv, CommandInStep
  <1>7. CommandInStep'
    <2>1. basis' >= tick' - 1
      BY <1>2, <1>4, <1>6
    <2>2. \A i \in 1 .. Len(asked') : asked'[i] >= tick' - 1
      BY <1>2, <1>4, <1>6
    <2>3. asked' = <<>> => basis' = state'
      BY <1>3, <1>4, <1>5
    <2>4. asked' # <<>> => asked'[Len(asked')] = state'
      <3> SUFFICES ASSUME asked' # <<>> PROVE asked'[Len(asked')] = state'
        OBVIOUS
      <3>1. PICK n \in Nat : n = Len(asked) /\ n = Len(asked') + 1
        BY <1>3
      <3>2. Len(asked') \in 1 .. Len(asked')
        BY <1>1, <1>3, <3>1
      <3>3. asked'[Len(asked')] = asked[Len(asked') + 1]
        BY <1>2, <3>2
      <3> QED BY <1>4, <1>5, <3>1, <3>3
    <2>5. hasTrajectory'
      BY <1>4, <1>5
    <2> QED BY <2>1, <2>2, <2>3, <2>4, <2>5, Zenon DEF CommandInStep
  <1>8. HeardInStep'
    <2>1. now \in Nat /\ tick \in Nat /\ now >= tick - 1
      BY FreshTypes DEF FreshInv, ClockInStep
    <2>2. receivedAt' >= tick' - 1 /\ receivedAt' >= tick' - 2
      BY <1>4, <2>1
    <2> QED BY <2>2, Zenon DEF HeardInStep
  <1>9. ClockInStep' /\ StateInStep' /\ AppliedInStep' /\ RealTimeLoopFresh'
    BY DEF HandleCommand, FreshInv, ClockInStep, StateInStep, AppliedInStep,
           RealTimeLoopFresh, NoSpuriousLatch, AgeAtMostOne
  <1> QED BY <1>7, <1>8, <1>9 DEF FreshInv

\* The timer fires in the published tick, at a command heard two ticks ago at
\* the earliest.
LEMMA FreshEvaluate ==
    ASSUME LoopInv, FreshInv, Evaluate, Timeout >= 2
    PROVE  FreshInv'
  <1> USE DEF simVars, controllerVars, clockVars, historyVars
  <1>1. ~held /\ nextCall = now /\ now = tick /\ now \in Nat /\ tick \in Nat
    <2>1. nextCall <= now /\ now \in Nat /\ tick \in Nat /\ nextCall \in Nat /\ now <= tick
      BY FreshTypes DEF Evaluate, EvaluationDue
    <2>2. held \in BOOLEAN
      BY DEF LoopInv, TypeOK
    <2> QED BY <2>1, <2>2 DEF FreshInv, ClockInStep
  <1>2. ~Stale
    <2>1. basis # None => receivedAt >= tick - 2
      BY DEF FreshInv, HeardInStep
    <2> QED BY <1>1, <2>1, FreshTypes DEF Stale
  <1>3. ~latched' /\ passed' = basis
    <2>1. ~latched
      BY DEF FreshInv, RealTimeLoopFresh, NoSpuriousLatch
    <2>2. latched' = (latched \/ Stale)
      BY DEF Evaluate
    <2>3. ~latched'
      BY <1>2, <2>1, <2>2, Zenon
    <2> QED BY <2>3 DEF Evaluate
  <1>4. nextCall' = now + 1 /\ now' = now /\ held' = held /\ tick' = tick
    <2>1. ~(nextCall + 1 < now) /\ nextCall + 1 = now + 1
      BY <1>1
    <2> QED BY <2>1 DEF Evaluate
  <1>5. ClockInStep'
    <2>1. nextCall' \in {now', now' + 1} /\ now' >= tick' - 1 /\ ~(now' < tick') /\ ~held'
      BY <1>1, <1>4
    <2>2. matched' /\ (clock' = None => now' = tick')
      BY <1>1, <1>4 DEF Evaluate, FreshInv, ClockInStep
    <2> QED BY <2>1, <2>2, Zenon DEF ClockInStep
  <1>6. AppliedInStep'
    <2>1. PICK m \in Stamped : m = [stamp |-> now, basis |-> passed'] /\ m.basis = basis
      <3> DEFINE sent == [stamp |-> now, basis |-> passed']
      <3>1. sent \in Stamped
        BY <1>3 DEF LoopInv, TypeOK, Stamped
      <3>2. sent.basis = basis
        BY <1>3
      <3> HIDE DEF sent
      <3>3. \E m \in Stamped : m = sent /\ m.basis = basis
        BY <3>1, <3>2
      <3> QED BY <3>3 DEF sent
    <2>2. drive \in Seq(Stamped) /\ Len(drive) <= Depth
      BY DEF LoopInv, TypeOK, Stamped
    <2>3. PICK k : /\ k = KeepLast(drive, m)
                   /\ \A i \in 1 .. Len(k) : k[i] = m \/ \E j \in 1 .. Len(drive) : k[i] = drive[j]
      BY <2>2, KeepLastStamped
    <2>4. drive' = k /\ k # <<>>
      <3>1. KeepLast(drive, m) # <<>>
        BY <2>2, KeepLastEnds
      <3>2. drive' = KeepLast(drive, m)
        BY <2>1 DEF Evaluate
      <3> QED BY <2>3, <3>1, <3>2
    <2>5. basis # None => basis >= tick - 1
      BY DEF FreshInv, CommandInStep
    <2>6. \A i \in 1 .. Len(drive) : drive[i].basis # None => drive[i].basis >= tick - 1
      BY DEF FreshInv, AppliedInStep
    <2>7. \A i \in 1 .. Len(k) : k[i].basis # None => k[i].basis >= tick - 1
      BY <2>1, <2>3, <2>5, <2>6
    <2> QED BY <1>4, <2>4, <2>7 DEF AppliedInStep
  <1>7. RealTimeLoopFresh'
    BY <1>3 DEF Evaluate, FreshInv, RealTimeLoopFresh, NoSpuriousLatch, AgeAtMostOne
  <1>8. StateInStep' /\ CommandInStep' /\ HeardInStep'
    BY DEF Evaluate, FreshInv, StateInStep, CommandInStep, HeardInStep
  <1> QED BY <1>5, <1>6, <1>7, <1>8 DEF FreshInv

----------------------------------------------------------------------------

LEMMA FreshInvStep ==
    ASSUME ~Faster, Responsive, Timeout >= 2, LoopInv, FreshInv, [Next]_vars
    PROVE  FreshInv'
  <1>1. CASE HeldTimer
    <2>1. held = TRUE /\ held' = TRUE /\ Publish(TRUE)
      <3>1. held = TRUE /\ held' = TRUE
        BY <1>1 DEF HeldTimer, LoopInv, TypeOK
      <3>2. Publish(held)
        BY <1>1 DEF HeldTimer
      <3> QED BY <3>1, <3>2, Zenon
    <2>2. UNCHANGED <<applied, asked, drive, controllerVars, clockVars, policyVars, historyVars>>
      BY <1>1 DEF HeldTimer
    <2> QED BY <2>1, <2>2, HeldPublication
  <1>2. CASE Release
    <2>1. held /\ held' = FALSE /\ Publish(FALSE) /\ heard
      BY <1>2, Zenon DEF Release
    <2>2. UNCHANGED <<applied, asked, drive, controllerVars, clockVars, policyVars, historyVars>>
      BY <1>2 DEF Release
    <2> QED BY <2>1, <2>2, HeldPublication
  <1>3. CASE StepOnWallClock
    BY <1>3, QuietStep DEF StepOnWallClock
  <1>4. CASE StepAnswered \/ LoseClock
    BY <1>4 DEF StepAnswered, LoseClock
  <1>5. CASE UNCHANGED vars
    BY <1>5 DEF vars, FreshInv, ClockInStep, StateInStep, CommandInStep, HeardInStep,
                AppliedInStep, RealTimeLoopFresh, NoSpuriousLatch, AgeAtMostOne
  <1> QED BY <1>1, <1>2, <1>3, <1>4, <1>5, FreshDrive, FreshOdom, FreshTrajectory,
             FreshMatch, FreshClock, FreshCommand, FreshEvaluate DEF Next

\* At 1x, in a graph whose latency is below a tick, and with a staleness
\* timeout of two ticks or more (the configured 100 ms are ten): the supervisor
\* never latches a stop and the sim never applies a command older than the
\* tick before, for every queue depth and length of run.
THEOREM RealTimeLoopFreshHolds ==
    ASSUME ~Faster, Responsive, Timeout >= 2
    PROVE  Spec => []RealTimeLoopFresh
  <1>1. Init => FreshInv
    <2> SUFFICES ASSUME Init PROVE FreshInv
      OBVIOUS
    <2>1. Len(odom) = 0 /\ Len(asked) = 0 /\ Len(drive) = 0
      BY DEF Init
    <2>2. ClockInStep /\ HeardInStep /\ RealTimeLoopFresh
      BY DEF Init, ClockInStep, HeardInStep, RealTimeLoopFresh, NoSpuriousLatch, AgeAtMostOne
    <2>3. StateInStep /\ CommandInStep /\ AppliedInStep
      BY <2>1 DEF Init, StateInStep, CommandInStep, AppliedInStep
    <2> QED BY <2>2, <2>3 DEF FreshInv
  <1>2. LoopInv /\ FreshInv /\ [Next]_vars => FreshInv'
    BY FreshInvStep
  <1>3. FreshInv => RealTimeLoopFresh
    BY DEF FreshInv
  <1> QED BY <1>1, <1>2, <1>3, LoopInvariant, PTL DEF Spec
====
