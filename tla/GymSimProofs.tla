---- MODULE GymSimProofs ----
(***************************************************************************)
(* Theorems about racing_sim_gym_jax, for every rate, timer lag and queue   *)
(* depth, and without the bounds TLC needs.                                 *)
(***************************************************************************)
EXTENDS GymSim, TLAPS

USE GymSimAssumption

\* A message put at the end of a queue.
LEMMA AppendLast ==
    ASSUME NEW t \in Seq(Nat), NEW s \in Nat
    PROVE  /\ Append(t, s) \in Seq(Nat)
           /\ Len(Append(t, s)) = Len(t) + 1
           /\ Append(t, s)[Len(t) + 1] = s
           /\ \A i \in 1 .. Len(t) : Append(t, s)[i] = t[i]
  OBVIOUS

\* The subscription's queue after one more message: its elements are old
\* ones, in their order, and the new one last.
LEMMA KeepLast ==
    ASSUME NEW q \in Seq(Nat), Len(q) <= Depth, NEW s \in Nat,
           NEW t, t = IF Len(q) = Depth THEN Tail(q) ELSE q
    PROVE  /\ Append(t, s) \in Seq(Nat)
           /\ Len(Append(t, s)) = Len(t) + 1 /\ Len(t) \in Nat
           /\ Len(t) + 1 <= Depth
           /\ Append(t, s)[Len(t) + 1] = s
           /\ \A i \in 1 .. Len(t) :
                 /\ Append(t, s)[i] = t[i]
                 /\ \/ i \in 1 .. Len(q) /\ t[i] = q[i] /\ t = q
                    \/ i + 1 \in 1 .. Len(q) /\ t[i] = q[i + 1] /\ t = Tail(q)
  <1>1. /\ t \in Seq(Nat) /\ Len(t) + 1 <= Depth /\ Len(t) \in Nat
        /\ \A i \in 1 .. Len(t) :
              \/ i \in 1 .. Len(q) /\ t[i] = q[i] /\ t = q
              \/ i + 1 \in 1 .. Len(q) /\ t[i] = q[i + 1] /\ t = Tail(q)
    <2>1. CASE Len(q) = Depth
      <3>1. q # <<>>
        BY <2>1
      <3>2. /\ Tail(q) \in Seq(Nat) /\ Len(Tail(q)) = Len(q) - 1 /\ Len(q) \in Nat
            /\ \A i \in 1 .. Len(q) - 1 : Tail(q)[i] = q[i + 1]
        BY <3>1
      <3>3. t = Tail(q)
        BY <2>1
      <3> QED BY <2>1, <3>2, <3>3
    <2>2. CASE Len(q) # Depth
      BY <2>2
    <2> QED BY <2>1, <2>2
  <1> QED BY <1>1, AppendLast

\* Taking the oldest message leaves the others in their order.
LEMMA TakeHead ==
    ASSUME NEW q \in Seq(Nat), q # <<>>
    PROVE  /\ Head(q) = q[1] /\ q[1] \in Nat /\ Len(q) \in Nat \ {0}
           /\ Tail(q) \in Seq(Nat) /\ Len(Tail(q)) = Len(q) - 1
           /\ \A i \in 1 .. Len(q) - 1 : Tail(q)[i] = q[i + 1]
  OBVIOUS

\* Rearming leaves the timer within a period of its last due time.
LEMMA RearmRange ==
    ASSUME Rearm PROVE sinceTimer' \in 0 .. TimerPeriod + MaxLag /\ sinceTimer' \in Nat
  <1>1. PICK t \in 0 .. TimerPeriod : sinceTimer' = t
    BY DEF Rearm
  <1> QED BY <1>1

\* What a step of the sim leaves behind.
LEMMA StepEffect ==
    ASSUME TypeOK, Step
    PROVE  /\ deferred' = FALSE /\ answered' = FALSE
           /\ steps' = steps + 1 /\ steps' \in Nat
           /\ waited' = 0 /\ waited' \in Nat
           /\ published' = simTime /\ published' \in Nat
           /\ simTime' \in Nat
  <1>1. simTime \in Nat /\ steps \in Nat
    BY DEF TypeOK
  <1>2. deferred' = FALSE /\ steps' = steps + 1 /\ answered' = FALSE
    BY DEF Step, Publish
  <1>3. waited' = 0 /\ published' = simTime
    BY DEF Step, Publish
  <1>4. simTime' = IF Frozen THEN simTime ELSE simTime + 1
    BY DEF Step, Publish
  <1> QED BY <1>1, <1>2, <1>3, <1>4

\* Every step keeps every variable's type.
LEMMA TypeStep ==
    ASSUME TypeOK, [Next]_vars
    PROVE  TypeOK'
  <1> USE DEF TypeOK
  <1>1. CASE TimerFrozen
    BY <1>1, RearmRange DEF TimerFrozen, Publish, Frozen, modeVars, driveVars, historyVars
  <1>2. CASE TimerSteps
    <2>1. /\ Step /\ Rearm /\ fired' = fired + 1
          /\ UNCHANGED <<command, stepMode, held, commander, lastStamp, inbox>>
      BY <1>2 DEF TimerSteps, modeVars, driveVars
    <2>2. fired' \in Nat
      BY <2>1
    <2>3. sinceTimer' \in 0 .. TimerPeriod + MaxLag
      BY <2>1, RearmRange
    <2>4. /\ deferred' = FALSE /\ answered' = FALSE /\ steps' \in Nat
          /\ waited' \in Nat /\ published' \in Nat /\ simTime' \in Nat
      BY <2>1, StepEffect
    <2> QED BY <2>1, <2>2, <2>3, <2>4
  <1>3. CASE TimerDefers
    BY <1>3, RearmRange DEF TimerDefers, modeVars, tickVars, driveVars
  <1>4. CASE HandleDrive
    <2>1. /\ Head(inbox) \in Nat /\ Tail(inbox) \in Seq(Nat)
          /\ Len(Tail(inbox)) <= Depth
      BY <1>4, TakeHead DEF HandleDrive
    <2>2. Answers(Head(inbox)) \in BOOLEAN
      BY DEF Answers
    <2>3. CASE deferred /\ StepDue(Answers(Head(inbox)))
      BY <1>4, <2>1, <2>3, StepEffect DEF HandleDrive, modeVars
    <2>4. CASE ~(deferred /\ StepDue(Answers(Head(inbox))))
      BY <1>4, <2>1, <2>2, <2>4 DEF HandleDrive, modeVars
    <2> QED BY <2>3, <2>4
  <1>5. CASE HandleReset
    <2>1. PICK s \in Nat : s = IF held THEN 0 ELSE simTime
      OBVIOUS
    <2>2. /\ published' = s /\ waited' = 0 /\ answered' = FALSE
          /\ simTime' = s \/ simTime' = s + 1
      BY <1>5, <2>1 DEF HandleReset, Publish
    <2>3. /\ held' = FALSE /\ deferred' = FALSE
          /\ UNCHANGED <<stepMode, command, sinceTimer, commander, lastStamp, inbox,
                          fired, steps>>
      BY <1>5 DEF HandleReset, driveVars, historyVars
    <2>4. published' \in Nat /\ waited' \in Nat /\ simTime' \in Nat
      BY <2>1, <2>2
    <2> QED BY <2>2, <2>3, <2>4
  <1>6. CASE HandleStepMode
    BY <1>6 DEF HandleStepMode, tickVars, driveVars, historyVars
  <1>7. CASE DiscoverCommander
    BY <1>7 DEF DiscoverCommander, modeVars, tickVars, historyVars
  <1>8. CASE SendDrive
    <2>1. PICK s \in Nat :
             /\ lastStamp' = s
             /\ inbox' = Append(IF Len(inbox) = Depth THEN Tail(inbox) ELSE inbox, s)
      BY <1>8 DEF SendDrive
    <2> DEFINE kept == IF Len(inbox) = Depth THEN Tail(inbox) ELSE inbox
    <2>2. /\ Append(kept, lastStamp') \in Seq(Nat)
          /\ Len(Append(kept, lastStamp')) <= Depth
      BY <2>1, KeepLast
    <2>3. inbox' = Append(kept, lastStamp')
      BY <2>1
    <2> HIDE DEF kept
    <2> QED BY <1>8, <2>1, <2>2, <2>3 DEF SendDrive, modeVars, tickVars, historyVars
  <1>9. CASE Wall
    BY <1>9 DEF Wall, modeVars, driveVars, historyVars
  <1>10. CASE UNCHANGED vars
    BY <1>10 DEF vars
  <1> QED
    BY <1>1, <1>2, <1>3, <1>4, <1>5, <1>6, <1>7, <1>8, <1>9, <1>10 DEF Next

\* Every variable keeps its type in every reachable state.
THEOREM TypeCorrect == Spec => []TypeOK
  <1>1. Init => TypeOK
    <2> SUFFICES ASSUME Init PROVE TypeOK
      OBVIOUS
    <2>1. 0 \in 0 .. TimerPeriod + MaxLag /\ 0 <= Depth /\ Len(<<>>) = 0
      OBVIOUS
    <2>2. <<>> \in Seq(Nat)
      OBVIOUS
    <2> QED BY <2>1, <2>2 DEF Init, TypeOK
  <1>2. TypeOK /\ [Next]_vars => TypeOK'
    BY TypeStep
  <1> QED BY <1>1, <1>2, PTL DEF Spec

----------------------------------------------------------------------------
(* /clock *)

\* The stamp published is never ahead of the counter, and a held sim is still
\* where it started.
ClockInv == published <= simTime /\ HeldAtZero

\* A publication at the counter keeps the clock's order.
LEMMA ClockStep ==
    ASSUME TypeOK, ClockInv, [Next]_vars
    PROVE  ClockInv' /\ published' >= published
  <1> USE DEF ClockInv
  <1>0. simTime \in Nat /\ published \in Nat
    BY DEF TypeOK
  <1>1. CASE TimerFrozen
    <2>1. /\ published' = simTime /\ UNCHANGED <<held, steps, deferred>>
          /\ simTime' = IF Frozen THEN simTime ELSE simTime + 1
          /\ Frozen
      BY <1>1 DEF TimerFrozen, Publish, modeVars, historyVars
    <2> QED BY <1>0, <2>1 DEF HeldAtZero
  <1>2. CASE Step /\ ~held /\ held' = held
    <2>1. /\ published' = simTime
          /\ simTime' = IF Frozen THEN simTime ELSE simTime + 1
      BY <1>2 DEF Step, Publish
    <2>2. simTime' = simTime \/ simTime' = simTime + 1
      BY <2>1
    <2> QED BY <1>0, <1>2, <2>1, <2>2 DEF HeldAtZero
  <1>3. CASE TimerSteps
    <2>1. Step /\ ~held /\ held' = held
      BY <1>3 DEF TimerSteps, Frozen, modeVars
    <2> QED BY <1>2, <2>1
  <1>4. CASE TimerDefers
    BY <1>0, <1>4 DEF TimerDefers, Frozen, modeVars, tickVars, HeldAtZero
  <1>5. CASE HandleDrive
    <2>1. CASE deferred /\ StepDue(Answers(Head(inbox)))
      <3>1. Step /\ held' = held
        BY <1>5, <2>1 DEF HandleDrive, modeVars
      <3>2. ~held
        BY <2>1 DEF HeldAtZero
      <3> QED BY <1>2, <3>1, <3>2
    <2>2. CASE ~(deferred /\ StepDue(Answers(Head(inbox))))
      BY <1>0, <1>5, <2>2 DEF HandleDrive, modeVars, HeldAtZero
    <2> QED BY <2>1, <2>2
  <1>6. CASE HandleReset
    <2>1. PICK s \in Nat : s = IF held THEN 0 ELSE simTime
      BY <1>0
    <2>2. /\ published' = s /\ held' = FALSE
          /\ simTime' = s \/ simTime' = s + 1
      BY <1>6, <2>1 DEF HandleReset, Publish
    <2>3. published <= s
      BY <1>0, <2>1 DEF HeldAtZero
    <2> QED BY <1>0, <2>2, <2>3 DEF HeldAtZero
  <1>7. CASE HandleStepMode
    BY <1>0, <1>7 DEF HandleStepMode, tickVars, historyVars, HeldAtZero
  <1>8. CASE DiscoverCommander
    BY <1>0, <1>8 DEF DiscoverCommander, modeVars, tickVars, historyVars, HeldAtZero
  <1>9. CASE SendDrive
    BY <1>0, <1>9 DEF SendDrive, modeVars, tickVars, historyVars, HeldAtZero
  <1>10. CASE Wall
    BY <1>0, <1>10 DEF Wall, modeVars, historyVars, HeldAtZero
  <1>11. CASE UNCHANGED vars
    BY <1>0, <1>11 DEF vars, HeldAtZero
  <1> QED
    BY <1>1, <1>3, <1>4, <1>5, <1>6, <1>7, <1>8, <1>9, <1>10, <1>11 DEF Next

\* The clock's invariant in every reachable state.
LEMMA ClockInvariant == Spec => []ClockInv
  <1>1. Init => ClockInv
    BY DEF Init, ClockInv, HeldAtZero
  <1>2. TypeOK /\ ClockInv /\ [Next]_vars => ClockInv'
    BY ClockStep
  <1> QED BY <1>1, <1>2, TypeCorrect, PTL DEF Spec

\* A held sim stays at its first state.
THEOREM HeldAtZeroHolds == Spec => []HeldAtZero
  <1>1. ClockInv => HeldAtZero
    BY DEF ClockInv
  <1> QED BY <1>1, ClockInvariant, PTL

\* /clock never goes back.
THEOREM ClockMonotoneHolds == Spec => ClockMonotone
  <1>1. TypeOK /\ ClockInv /\ [Next]_vars => [published' >= published]_vars
    BY ClockStep
  <1> QED BY <1>1, TypeCorrect, ClockInvariant, PTL DEF Spec, ClockMonotone

----------------------------------------------------------------------------
(* The rate *)

\* A timer callback that finds the tick a 1x period old steps; so whatever
\* the sim has waited beyond that, the timer has been due for as long.
GapInv == waited <= ControlPeriod + sinceTimer

\* The wall time between two publications is bounded.
THEOREM NeverStallsHolds == Spec => []NeverStalls
  <1>1. Init => GapInv
    BY DEF Init, GapInv
  <1>2. TypeOK /\ GapInv /\ [Next]_vars => GapInv'
    <2> SUFFICES ASSUME TypeOK, GapInv, [Next]_vars PROVE GapInv'
      OBVIOUS
    <2>0. /\ waited \in Nat /\ sinceTimer \in Nat
          /\ TypeOK' /\ waited' \in Nat /\ sinceTimer' \in Nat
      <3>1. TypeOK'
        BY TypeStep
      <3> QED BY <3>1 DEF TypeOK
    <2>1. CASE waited' = 0
      <3>1. PICK t \in Nat : t = sinceTimer'
        BY <2>0
      <3>2. 0 <= ControlPeriod + t
        OBVIOUS
      <3> QED BY <2>1, <3>1, <3>2 DEF GapInv
    <2>2. CASE UNCHANGED <<waited, sinceTimer>>
      BY <2>2 DEF GapInv
    <2>3. CASE TimerDefers
      <3>1. waited < ControlPeriod /\ waited' = waited
        BY <2>3, <2>0 DEF TimerDefers, StepDue, tickVars
      <3>2. PICK t \in Nat : t = sinceTimer'
        BY <2>0
      <3>3. waited <= ControlPeriod + t
        BY <2>0, <3>1
      <3> QED BY <3>1, <3>2, <3>3 DEF GapInv
    <2>4. CASE Wall
      BY <2>0, <2>4 DEF Wall, GapInv
    <2>5. TimerFrozen \/ TimerSteps \/ HandleReset => waited' = 0
      BY DEF TimerFrozen, TimerSteps, HandleReset, Step, Publish
    <2>6. HandleDrive => waited' = 0 \/ UNCHANGED <<waited, sinceTimer>>
      BY DEF HandleDrive, Step, Publish
    <2>7. HandleStepMode \/ DiscoverCommander \/ SendDrive
          => UNCHANGED <<waited, sinceTimer>>
      BY DEF HandleStepMode, DiscoverCommander, SendDrive, tickVars
    <2>8. UNCHANGED vars => UNCHANGED <<waited, sinceTimer>>
      BY DEF vars
    <2> QED BY <2>1, <2>2, <2>3, <2>4, <2>5, <2>6, <2>7, <2>8 DEF Next
  <1>3. TypeOK /\ GapInv => NeverStalls
    BY DEF TypeOK, GapInv, NeverStalls
  <1> QED BY <1>1, <1>2, <1>3, TypeCorrect, PTL DEF Spec

\* The sim never steps more often than its timer fires.
THEOREM NeverFasterThanScaleHolds == Spec => []NeverFasterThanScale
  <1>1. Init => NeverFasterThanScale
    BY DEF Init, NeverFasterThanScale
  <1>2. TypeOK /\ NeverFasterThanScale /\ [Next]_vars => NeverFasterThanScale'
    <2> SUFFICES ASSUME TypeOK, NeverFasterThanScale, [Next]_vars
                 PROVE  NeverFasterThanScale'
      OBVIOUS
    <2> USE DEF NeverFasterThanScale
    <2>0. steps \in Nat /\ fired \in Nat /\ deferred \in BOOLEAN /\ steps <= fired
      BY DEF TypeOK
    <2>1. CASE UNCHANGED <<steps, fired, deferred>>
      BY <2>1
    <2>2. CASE TimerSteps
      BY <2>0, <2>2 DEF TimerSteps, Step
    <2>3. CASE TimerDefers
      BY <2>0, <2>3 DEF TimerDefers
    <2>4. CASE HandleDrive
      <3>1. CASE deferred /\ StepDue(Answers(Head(inbox)))
        <4>1. steps + 1 <= fired
          BY <3>1
        <4>2. steps' = steps + 1 /\ fired' = fired /\ deferred' = FALSE
          BY <2>4, <3>1 DEF HandleDrive, Step
        <4> QED BY <2>0, <4>1, <4>2
      <3>2. CASE ~(deferred /\ StepDue(Answers(Head(inbox))))
        BY <2>1, <2>4, <3>2 DEF HandleDrive
      <3> QED BY <3>1, <3>2
    <2>5. CASE HandleReset
      BY <2>0, <2>5 DEF HandleReset, historyVars
    <2>6. TimerFrozen \/ HandleStepMode \/ DiscoverCommander \/ SendDrive \/ Wall
          => UNCHANGED <<steps, fired, deferred>>
      BY DEF TimerFrozen, HandleStepMode, DiscoverCommander, SendDrive, Wall, historyVars
    <2>7. UNCHANGED vars => UNCHANGED <<steps, fired, deferred>>
      BY DEF vars
    <2> QED BY <2>1, <2>2, <2>3, <2>4, <2>5, <2>6, <2>7 DEF Next
  <1> QED BY <1>1, <1>2, TypeCorrect, PTL DEF Spec

----------------------------------------------------------------------------
(* The answer a step waits for *)

\* Commands arrive in the order of their stamps, so an answer is never
\* replaced by an older command.
OrderInv ==
    /\ command <= lastStamp
    /\ \A i \in 1 .. Len(inbox) : command <= inbox[i] /\ inbox[i] <= lastStamp
    /\ \A i, j \in 1 .. Len(inbox) : i <= j => inbox[i] <= inbox[j]
    /\ answered => command >= published

\* A handled command keeps the order of those behind it.
LEMMA HandleOrder ==
    ASSUME TypeOK, OrderInv, HandleDrive
    PROVE  /\ command' <= lastStamp'
           /\ \A i \in 1 .. Len(inbox') : command' <= inbox'[i] /\ inbox'[i] <= lastStamp'
           /\ \A i, j \in 1 .. Len(inbox') : i <= j => inbox'[i] <= inbox'[j]
           /\ command' = Head(inbox) /\ Head(inbox) \in Nat /\ command <= Head(inbox)
  <1>1. /\ inbox # <<>> /\ inbox \in Seq(Nat)
        /\ inbox' = Tail(inbox) /\ command' = Head(inbox) /\ lastStamp' = lastStamp
    BY DEF HandleDrive, TypeOK
  <1>2. /\ Head(inbox) = inbox[1] /\ inbox[1] \in Nat /\ Len(inbox) \in Nat \ {0}
        /\ Tail(inbox) \in Seq(Nat) /\ Len(Tail(inbox)) = Len(inbox) - 1
        /\ \A i \in 1 .. Len(inbox) - 1 : Tail(inbox)[i] = inbox[i + 1]
    BY <1>1, TakeHead
  <1>3. \A i \in 1 .. Len(Tail(inbox)) :
           i + 1 \in 1 .. Len(inbox) /\ Tail(inbox)[i] = inbox[i + 1]
    BY <1>2
  <1>4. 1 \in 1 .. Len(inbox) /\ \A i \in 1 .. Len(inbox) : 1 <= i
    BY <1>2
  <1>5. \A i \in 1 .. Len(inbox) : inbox[1] <= inbox[i] /\ inbox[i] <= lastStamp
    BY <1>4 DEF OrderInv
  <1>6. \A i, j \in 1 .. Len(Tail(inbox)) : i <= j => i + 1 <= j + 1
    OBVIOUS
  <1>7. \A i, j \in 1 .. Len(Tail(inbox)) : i <= j => Tail(inbox)[i] <= Tail(inbox)[j]
    BY <1>3, <1>6 DEF OrderInv
  <1>8. \A i \in 1 .. Len(Tail(inbox)) :
           inbox[1] <= Tail(inbox)[i] /\ Tail(inbox)[i] <= lastStamp
    BY <1>3, <1>5
  <1>9. inbox[1] <= lastStamp /\ command <= inbox[1]
    BY <1>4, <1>5 DEF OrderInv
  <1> QED BY <1>1, <1>2, <1>7, <1>8, <1>9

\* A sent command keeps the order of those before it.
LEMMA SendOrder ==
    ASSUME TypeOK, OrderInv, SendDrive
    PROVE  OrderInv'
  <1> DEFINE kept == IF Len(inbox) = Depth THEN Tail(inbox) ELSE inbox
  <1>1. PICK s \in Nat : /\ lastStamp <= s /\ lastStamp' = s
                         /\ inbox' = Append(kept, s)
    BY DEF SendDrive, TypeOK
  <1>2. UNCHANGED <<command, answered, published>>
    BY DEF SendDrive, tickVars
  <1>3. /\ command \in Nat /\ lastStamp \in Nat /\ inbox \in Seq(Nat) /\ Len(inbox) <= Depth
        /\ \A i \in 1 .. Len(inbox) : inbox[i] \in Nat
    BY DEF TypeOK
  <1>4. /\ Len(Append(kept, s)) = Len(kept) + 1 /\ Len(kept) \in Nat
        /\ Append(kept, s)[Len(kept) + 1] = s
        /\ \A i \in 1 .. Len(kept) :
              /\ Append(kept, s)[i] = kept[i]
              /\ \/ i \in 1 .. Len(inbox) /\ kept[i] = inbox[i] /\ kept = inbox
                 \/ i + 1 \in 1 .. Len(inbox) /\ kept[i] = inbox[i + 1] /\ kept = Tail(inbox)
    BY <1>3, KeepLast
  <1> HIDE DEF kept
  <1>5. \A i \in 1 .. Len(kept) :
           kept[i] \in Nat /\ command <= kept[i] /\ kept[i] <= lastStamp
    BY <1>3, <1>4 DEF OrderInv
  <1>6. \A i, j \in 1 .. Len(kept) : i <= j => kept[i] <= kept[j]
    <2> SUFFICES ASSUME NEW i \in 1 .. Len(kept), NEW j \in 1 .. Len(kept), i <= j
                 PROVE  kept[i] <= kept[j]
      OBVIOUS
    <2>1. CASE kept = inbox
      BY <2>1 DEF OrderInv
    <2>2. CASE kept # inbox
      <3>1. /\ i + 1 \in 1 .. Len(inbox) /\ kept[i] = inbox[i + 1]
            /\ j + 1 \in 1 .. Len(inbox) /\ kept[j] = inbox[j + 1]
        BY <1>4, <2>2
      <3>2. i + 1 <= j + 1
        OBVIOUS
      <3> QED BY <3>1, <3>2 DEF OrderInv
    <2> QED BY <2>1, <2>2
  <1>7. \A i \in 1 .. Len(kept) + 1 :
           command <= Append(kept, s)[i] /\ Append(kept, s)[i] <= s
    <2> SUFFICES ASSUME NEW i \in 1 .. Len(kept) + 1
                 PROVE  command <= Append(kept, s)[i] /\ Append(kept, s)[i] <= s
      OBVIOUS
    <2>1. lastStamp <= s /\ command <= lastStamp
      BY <1>1 DEF OrderInv
    <2>2. CASE i \in 1 .. Len(kept)
      <3>1. Append(kept, s)[i] = kept[i]
        BY <1>4, <2>2
      <3>2. kept[i] \in Nat /\ command <= kept[i] /\ kept[i] <= lastStamp
        BY <1>5, <2>2
      <3> QED BY <1>3, <2>1, <3>1, <3>2
    <2>3. CASE i = Len(kept) + 1
      BY <1>3, <1>4, <2>1, <2>3
    <2> QED BY <1>4, <2>2, <2>3
  <1>8. \A i, j \in 1 .. Len(kept) + 1 : i <= j => Append(kept, s)[i] <= Append(kept, s)[j]
    <2> SUFFICES ASSUME NEW i \in 1 .. Len(kept) + 1, NEW j \in 1 .. Len(kept) + 1, i <= j
                 PROVE  Append(kept, s)[i] <= Append(kept, s)[j]
      OBVIOUS
    <2>1. CASE j = Len(kept) + 1
      BY <1>4, <1>7, <2>1
    <2>2. CASE j \in 1 .. Len(kept)
      <3>1. i \in 1 .. Len(kept)
        BY <1>4, <2>2
      <3> QED BY <1>4, <1>6, <2>2, <3>1
    <2> QED BY <1>4, <2>1, <2>2
  <1>9. command <= s
    BY <1>1, <1>3 DEF OrderInv
  <1> QED BY <1>1, <1>2, <1>4, <1>7, <1>8, <1>9 DEF OrderInv

\* The order of commands in every reachable state.
LEMMA OrderInvariant == Spec => []OrderInv
  <1>1. Init => OrderInv
    BY DEF Init, OrderInv
  <1>2. TypeOK /\ OrderInv /\ [Next]_vars => OrderInv'
    <2> SUFFICES ASSUME TypeOK, OrderInv, [Next]_vars PROVE OrderInv'
      OBVIOUS
    <2>1. CASE UNCHANGED <<command, lastStamp, inbox>> /\ answered' = FALSE
      BY <2>1 DEF OrderInv
    <2>2. CASE UNCHANGED <<command, lastStamp, inbox, answered, published>>
      BY <2>2 DEF OrderInv
    <2>3. CASE HandleDrive
      <3>1. CASE deferred /\ StepDue(Answers(Head(inbox)))
        <4>1. answered' = FALSE
          BY <2>3, <3>1 DEF HandleDrive, Step, Publish
        <4> QED BY <2>3, <4>1, HandleOrder DEF OrderInv
      <3>2. CASE ~(deferred /\ StepDue(Answers(Head(inbox))))
        <4>1. (answered' <=> answered \/ Head(inbox) >= published) /\ published' = published
          BY <2>3, <3>2 DEF HandleDrive, Answers
        <4>2. command \in Nat /\ published \in Nat
          BY DEF TypeOK
        <4>3. Head(inbox) \in Nat /\ command <= Head(inbox) /\ command' = Head(inbox)
          BY <2>3, HandleOrder
        <4>4. answered => Head(inbox) >= published
          BY <4>2, <4>3 DEF OrderInv
        <4>5. answered' => command' >= published'
          BY <4>1, <4>3, <4>4
        <4> QED BY <2>3, <4>5, HandleOrder DEF OrderInv
      <3> QED BY <3>1, <3>2
    <2>4. CASE SendDrive
      BY <2>4, SendOrder
    <2>5. TimerFrozen \/ TimerSteps \/ HandleReset
          => UNCHANGED <<command, lastStamp, inbox>> /\ answered' = FALSE
      BY DEF TimerFrozen, TimerSteps, HandleReset, Step, Publish, driveVars
    <2>6. TimerDefers \/ HandleStepMode \/ DiscoverCommander \/ Wall
          => UNCHANGED <<command, lastStamp, inbox, answered, published>>
      BY DEF TimerDefers, HandleStepMode, DiscoverCommander, Wall, tickVars, driveVars
    <2>7. UNCHANGED vars => UNCHANGED <<command, lastStamp, inbox, answered, published>>
      BY DEF vars
    <2> QED BY <2>1, <2>2, <2>3, <2>4, <2>5, <2>6, <2>7 DEF Next
  <1> QED BY <1>1, <1>2, TypeCorrect, PTL DEF Spec

\* Above 1x a step applies the command that answers the tick it steps past,
\* or has waited a 1x tick for it.
THEOREM AnsweredRunHolds == Spec => AnsweredRun
  <1> DEFINE Answered == Faster /\ commander = "present" /\ steps' # steps
                         => command' >= published \/ waited >= ControlPeriod
  <1>1. TypeOK /\ OrderInv /\ [Next]_vars => Answered
    <2> SUFFICES ASSUME TypeOK, OrderInv, [Next]_vars,
                        Faster, commander = "present", steps' # steps
                 PROVE  command' >= published \/ waited >= ControlPeriod
      OBVIOUS
    <2>1. CASE TimerSteps
      <3>1. StepDue(answered) /\ command' = command
        BY <2>1 DEF TimerSteps
      <3>2. answered \/ waited >= ControlPeriod
        BY <3>1 DEF StepDue
      <3> QED BY <3>1, <3>2 DEF OrderInv
    <2>2. CASE HandleDrive
      <3>1. StepDue(Answers(Head(inbox))) /\ command' = Head(inbox)
        BY <2>2 DEF HandleDrive
      <3>2. answered \/ Head(inbox) >= published \/ waited >= ControlPeriod
        BY <3>1 DEF StepDue, Answers
      <3>3. Head(inbox) \in Nat /\ command <= Head(inbox)
        BY <2>2, HandleOrder
      <3>4. answered => Head(inbox) >= published
        BY <3>3 DEF OrderInv, TypeOK
      <3> QED BY <3>1, <3>2, <3>4
    <2>3. ~(TimerFrozen \/ TimerDefers \/ HandleReset \/ HandleStepMode
            \/ DiscoverCommander \/ SendDrive \/ Wall)
      BY DEF TimerFrozen, TimerDefers, HandleReset, HandleStepMode, DiscoverCommander,
             SendDrive, Wall, historyVars
    <2>4. ~UNCHANGED vars
      BY DEF vars
    <2> QED BY <2>1, <2>2, <2>3, <2>4 DEF Next
  <1>2. TypeOK /\ OrderInv /\ [Next]_vars => [Answered]_vars
    BY <1>1
  <1> QED BY <1>2, TypeCorrect, OrderInvariant, PTL DEF Spec, AnsweredRun

\* The sim's rate is bounded on both sides (PhysicsClock, RacingSimNode._on_timer).
THEOREM RateBoundedHolds == Spec => []RateBounded
  <1>1. NeverStalls /\ NeverFasterThanScale => RateBounded
    BY DEF RateBounded
  <1> QED BY <1>1, NeverStallsHolds, NeverFasterThanScaleHolds, PTL
====
