---- MODULE SupervisorProofs ----
(***************************************************************************)
(* Theorems about racing_safety_supervisor, for every set of fields, every  *)
(* limit, timeout, period, queue depth and lag.                             *)
(***************************************************************************)
EXTENDS Supervisor, TLAPS

USE SupervisorAssumption

\* What the policy publishes of a command is a command.
LEMMA ClampedIsCommand ==
    ASSUME NEW c \in Command
    PROVE  Clamped(c) \in Command /\ ClampedFields(c) \in SUBSET Fields
  BY DEF Clamped, ClampedFields, ClampField, Command, Value

\* The standstill is a command.
LEMMA StoppedIsCommand == Stopped \in Command
  BY DEF Stopped, Command, Value

\* The heartbeat keeps its width.
LEMMA HeartbeatRange ==
    ASSUME NEW h \in 0 .. HeartbeatModulus - 1
    PROVE  NextHeartbeat(h) \in 0 .. HeartbeatModulus - 1
  BY DEF NextHeartbeat

\* A publication keeps the types of everything it touches.
LEMMA PublishTypes ==
    ASSUME TypeOK, NEW f \in Command, NEW k \in SUBSET Bits, NEW r \in Reasons,
           Publish(f, k, r)
    PROVE  /\ drive' \in [stamp : Nat, fields : Command]
           /\ status' \in [stamp : Nat, validUntil : Nat,
                           clamps : SUBSET Bits, reason : Reasons]
           /\ heartbeat' \in 0 .. HeartbeatModulus - 1
           /\ nextCall' \in Nat
           /\ nextCall' <= now + Period
           /\ nextCall' >= now
           /\ drive'.stamp = now
           /\ drive'.fields = f
  <1>1. heartbeat' \in 0 .. HeartbeatModulus - 1
    BY HeartbeatRange DEF Publish, TypeOK
  <1>2. nextCall' \in now .. now + Period
    BY DEF Publish, Reschedule
  <1> QED BY <1>1, <1>2 DEF Publish, TypeOK

\* Every variable keeps its type in every reachable state.
THEOREM TypeCorrect == Spec => []TypeOK
  <1>1. Init => TypeOK
    <2> SUFFICES ASSUME Init PROVE TypeOK
      OBVIOUS
    <2>1. drive \in [stamp : Nat, fields : Command]
      BY StoppedIsCommand DEF Init
    <2>2. status \in [stamp : Nat, validUntil : Nat, clamps : SUBSET Bits, reason : Reasons]
      BY DEF Init, Reasons
    <2>3. 0 \in 0 .. HeartbeatModulus - 1
      OBVIOUS
    <2>4. inbox \in Seq([fields : Command, sentAt : Nat])
      BY DEF Init
    <2>5. command \in Command
      BY StoppedIsCommand DEF Init
    <2>6. heartbeat \in 0 .. HeartbeatModulus - 1
      BY <2>3 DEF Init
    <2>7. /\ now \in Nat /\ nextCall \in Nat /\ receivedAt \in Nat
          /\ lastSent \in Nat /\ lastClear \in Nat /\ stoppedAt \in Nat
          /\ hasCommand \in BOOLEAN /\ inside \in BOOLEAN /\ latched \in BOOLEAN
      BY DEF Init
    <2> QED BY <2>1, <2>2, <2>4, <2>5, <2>6, <2>7 DEF TypeOK
  <1>2. TypeOK /\ [Next]_vars => TypeOK'
    <2> SUFFICES ASSUME TypeOK, [Next]_vars PROVE TypeOK'
      OBVIOUS
    <2>1. ASSUME NEW c \in Commands, SendCommand(c) PROVE TypeOK'
      <3> DEFINE kept == IF Len(inbox) = Depth THEN Tail(inbox) ELSE inbox
                 msg == [fields |-> c, sentAt |-> now]
      <3>1. kept \in Seq([fields : Command, sentAt : Nat])
        BY DEF TypeOK
      <3>2. msg \in [fields : Command, sentAt : Nat]
        BY DEF TypeOK
      <3>3. inbox' = Append(kept, msg)
        BY <2>1 DEF SendCommand
      <3> HIDE DEF kept, msg
      <3>4. inbox' \in Seq([fields : Command, sentAt : Nat])
        BY <3>1, <3>2, <3>3
      <3> QED BY <2>1, <3>4 DEF SendCommand, TypeOK, outputVars
    <2>2. CASE HandleCommand
      <3>1. /\ Head(inbox) \in [fields : Command, sentAt : Nat]
            /\ Tail(inbox) \in Seq([fields : Command, sentAt : Nat])
        <4> DEFINE Msg == [fields : Command, sentAt : Nat]
        <4>1. inbox \in Seq(Msg) /\ inbox # <<>>
          BY <2>2 DEF HandleCommand, TypeOK
        <4> HIDE DEF Msg
        <4>2. Head(inbox) \in Msg /\ Tail(inbox) \in Seq(Msg)
          BY <4>1
        <4> QED BY <4>2 DEF Msg
      <3> QED BY <2>2, <3>1 DEF HandleCommand, TypeOK, outputVars, historyVars
    <2>3. CASE HandleOdometry
      BY <2>3 DEF HandleOdometry, TypeOK, outputVars, historyVars
    <2>4. CASE EmergencyStop
      BY <2>4 DEF EmergencyStop, TypeOK, inputVars, outputVars
    <2>5. CASE ClearEmergencyStop
      BY <2>5 DEF ClearEmergencyStop, TypeOK, outputVars
    <2>6. CASE EvaluateStale
      <3>1. Publish(Stopped, {"STALE_INPUT", "ESTOP"}, "STALE_INPUT")
        BY <2>6 DEF EvaluateStale
      <3>2. {"STALE_INPUT", "ESTOP"} \in SUBSET Bits /\ "STALE_INPUT" \in Reasons
        BY DEF Bits, Reasons
      <3> QED
        BY <2>6, <3>1, <3>2, PublishTypes, StoppedIsCommand
        DEF EvaluateStale, Publish, TypeOK, inputVars
    <2>7. CASE EvaluateLatched
      <3>1. Publish(Stopped, {"ESTOP"}, "ESTOP_LATCHED")
        BY <2>7 DEF EvaluateLatched
      <3>2. {"ESTOP"} \in SUBSET Bits /\ "ESTOP_LATCHED" \in Reasons
        BY DEF Bits, Reasons
      <3> QED
        BY <2>7, <3>1, <3>2, PublishTypes, StoppedIsCommand
        DEF EvaluateLatched, Publish, TypeOK, inputVars
    <2>8. CASE EvaluateOffTrack
      <3>1. Publish(Stopped, {"TRACK_LIMIT"}, "TRACK_LIMIT")
        BY <2>8 DEF EvaluateOffTrack
      <3>2. {"TRACK_LIMIT"} \in SUBSET Bits /\ "TRACK_LIMIT" \in Reasons
        BY DEF Bits, Reasons
      <3> QED
        BY <2>8, <3>1, <3>2, PublishTypes, StoppedIsCommand
        DEF EvaluateOffTrack, Publish, TypeOK, inputVars
    <2>9. CASE EvaluatePass
      <3> DEFINE why == IF ClampedFields(command) = {} THEN "NONE" ELSE "COMMAND_LIMIT"
      <3>1. Publish(Clamped(command), ClampedFields(command), why)
        BY <2>9 DEF EvaluatePass
      <3>2. Clamped(command) \in Command /\ ClampedFields(command) \in SUBSET Bits
        BY ClampedIsCommand DEF TypeOK, Bits
      <3>3. why \in Reasons
        BY DEF Reasons
      <3> HIDE DEF why
      <3>4. /\ drive' \in [stamp : Nat, fields : Command]
            /\ status' \in [stamp : Nat, validUntil : Nat,
                            clamps : SUBSET Bits, reason : Reasons]
            /\ heartbeat' \in 0 .. HeartbeatModulus - 1
            /\ nextCall' \in Nat
        BY <3>1, <3>2, <3>3, PublishTypes
      <3> QED
        BY <2>9, <3>1, <3>4 DEF EvaluatePass, Publish, TypeOK, inputVars
    <2>10. CASE Tick
      BY <2>10 DEF Tick, TypeOK, inputVars, outputVars, historyVars
    <2>11. CASE UNCHANGED vars
      BY <2>11 DEF vars, TypeOK
    <2> QED
      BY <2>1, <2>2, <2>3, <2>4, <2>5, <2>6, <2>7, <2>8, <2>9, <2>10, <2>11
      DEF Next, Evaluate
  <1> QED BY <1>1, <1>2, PTL DEF Spec

----------------------------------------------------------------------------
(***************************************************************************)
(* The inductive invariant behind the safety properties.  The properties    *)
(* speak of the standing /drive, which callbacks leave alone for a while:   *)
(* the invariant ties its stamp to the timer (the next decision is at most  *)
(* a period after it), the timer to the clock (no decision is later than    *)
(* the lag), and a moving /drive to what licensed it when it was published. *)
(***************************************************************************)
TimerInv ==
    /\ now <= nextCall + MaxLag
    /\ nextCall <= drive.stamp + Period
    /\ drive.stamp <= now

InboxInv ==
    \A i \in 1 .. Len(inbox) :
        /\ inbox[i].sentAt <= lastSent
        /\ now <= inbox[i].sentAt + MaxLag

ReceiptInv ==
    /\ receivedAt <= now
    /\ lastSent <= now
    /\ lastClear <= receivedAt
    /\ hasCommand => receivedAt <= lastSent + MaxLag \/ receivedAt <= lastClear
    /\ ~hasCommand => command = Stopped
    /\ hasCommand /\ inbox = <<>> => lastSent <= receivedAt

LicenceInv ==
    Moving => \/ drive.stamp <= lastSent + MaxLag + Timeout
              \/ drive.stamp <= lastClear + Timeout

StopInv == latched /\ Moving => nextCall <= stoppedAt + Period

SafetyInv == TimerInv /\ InboxInv /\ ReceiptInv /\ LicenceInv /\ StopInv

\* The standstill passes the policy's limits unchanged.
LEMMA StoppedPasses == Clamped(Stopped) = Stopped
  BY DEF Clamped, ClampField, Stopped

\* The head of a queue and its other elements are elements of it.
LEMMA QueueElements ==
    ASSUME NEW Msg, NEW q \in Seq(Msg), q # <<>>
    PROVE  /\ Head(q) = q[1]
           /\ 1 \in 1 .. Len(q)
           /\ Len(Tail(q)) = Len(q) - 1
           /\ \A i \in 1 .. Len(Tail(q)) : Tail(q)[i] = q[i + 1] /\ i + 1 \in 1 .. Len(q)
  OBVIOUS

\* What a publication of fields f leaves behind.
LEMMA PublishInv ==
    ASSUME TypeOK, SafetyInv, NEW f \in Command, NEW k \in SUBSET Bits, NEW r \in Reasons,
           Publish(f, k, r),
           f # Stopped => /\ ~latched'
                          /\ \/ now <= lastSent + MaxLag + Timeout
                             \/ now <= lastClear + Timeout
    PROVE  SafetyInv'
  <1>1. /\ now \in Nat /\ nextCall' \in Nat
        /\ now <= nextCall' /\ nextCall' <= now + Period
        /\ drive'.stamp = now
        /\ drive'.fields = f
    <2>1. /\ nextCall' \in Nat /\ nextCall' <= now + Period /\ nextCall' >= now
          /\ drive'.stamp = now /\ drive'.fields = f
      BY PublishTypes
    <2>2. now \in Nat
      BY DEF TypeOK
    <2> QED BY <2>1, <2>2
  <1>2. UNCHANGED <<now, lastSent, lastClear, inbox, command, receivedAt, hasCommand>>
    BY DEF Publish, inputVars
  <1>3. TimerInv'
    <2>1. now' = now
      BY <1>2
    <2>2. now' <= nextCall' + MaxLag
      <3>1. PICK t \in Nat : nextCall' = t /\ now <= t
        BY <1>1
      <3>2. now \in Nat /\ MaxLag \in Nat
        BY <1>1, SupervisorAssumption
      <3>3. now <= t + MaxLag
        BY <3>1, <3>2
      <3> QED BY <2>1, <3>1, <3>3
    <2>3. nextCall' <= drive'.stamp + Period
      BY <1>1
    <2>4. drive'.stamp <= now'
      BY <1>1, <2>1
    <2> QED BY <2>2, <2>3, <2>4 DEF TimerInv
  <1>4. InboxInv' /\ ReceiptInv'
    <2>1. InboxInv'
      BY <1>2 DEF SafetyInv, InboxInv
    <2>2. ReceiptInv'
      BY <1>2 DEF SafetyInv, ReceiptInv, Stopped
    <2> QED BY <2>1, <2>2
  <1>5. LicenceInv' /\ StopInv'
    BY <1>1, <1>2 DEF LicenceInv, StopInv, Moving, Stopped
  <1> QED BY <1>3, <1>4, <1>5 DEF SafetyInv

\* SafetyInv holds in every reachable state.
THEOREM SafetyInvariant == Spec => []SafetyInv
  <1>1. Init => SafetyInv
    BY DEF Init, SafetyInv, TimerInv, InboxInv, ReceiptInv, LicenceInv, StopInv, Moving
  <1>2. TypeOK /\ SafetyInv /\ [Next]_vars => SafetyInv'
    <2> SUFFICES ASSUME TypeOK, SafetyInv, [Next]_vars PROVE SafetyInv'
      OBVIOUS
    <2> USE DEF SafetyInv
    <2>1. ASSUME NEW c \in Commands, SendCommand(c) PROVE SafetyInv'
      <3> DEFINE kept == IF Len(inbox) = Depth THEN Tail(inbox) ELSE inbox
                 msg == [fields |-> c, sentAt |-> now]
                 Msg == [fields : Command, sentAt : Nat]
      <3>1. inbox \in Seq(Msg) /\ msg \in Msg
        BY DEF TypeOK
      <3>2. /\ inbox' = Append(kept, msg)
            /\ lastSent' = now
            /\ UNCHANGED <<now, command, receivedAt, hasCommand, latched, lastClear,
                           stoppedAt, drive, nextCall>>
        BY <2>1 DEF SendCommand, outputVars
      <3>3. kept \in Seq(Msg) /\ \A i \in 1 .. Len(kept) :
               \E j \in 1 .. Len(inbox) : kept[i] = inbox[j]
        <4> HIDE DEF msg, Msg
        <4>1. CASE Len(inbox) = Depth
          <5>1. inbox # <<>>
            BY <4>1, <3>1
          <5> QED BY <5>1, <4>1, <3>1, QueueElements
        <4>2. CASE Len(inbox) # Depth
          BY <4>2, <3>1
        <4> QED BY <4>1, <4>2
      <3>4. msg.sentAt = now
        OBVIOUS
      <3>5. InboxInv'
        <4> SUFFICES ASSUME NEW i \in 1 .. Len(inbox')
                     PROVE  /\ inbox'[i].sentAt <= lastSent'
                            /\ now' <= inbox'[i].sentAt + MaxLag
          BY DEF InboxInv
        <4> HIDE DEF kept, msg, Msg
        <4>1. CASE i \in 1 .. Len(kept)
          <5>1. inbox'[i] = kept[i]
            BY <4>1, <3>1, <3>2, <3>3
          <5>2. PICK j \in 1 .. Len(inbox) : kept[i] = inbox[j]
            BY <4>1, <3>3
          <5>3. inbox[j] \in Msg
            BY <3>1
          <5>4. inbox[j].sentAt \in Nat
            BY <5>3 DEF Msg
          <5>5. inbox[j].sentAt <= lastSent /\ now <= inbox[j].sentAt + MaxLag
            BY DEF InboxInv
          <5>6. lastSent <= now /\ lastSent \in Nat /\ now \in Nat
            BY DEF ReceiptInv, TypeOK
          <5> QED BY <5>1, <5>2, <5>4, <5>5, <5>6, <3>2
        <4>2. CASE i = Len(kept) + 1
          <5>1. inbox'[i] = msg
            BY <4>2, <3>1, <3>2, <3>3
          <5> QED BY <5>1, <3>2, <3>4 DEF TypeOK
        <4> QED BY <4>1, <4>2, <3>1, <3>2, <3>3
      <3>6. inbox' # <<>>
        <4> HIDE DEF kept, msg, Msg
        <4> QED BY <3>1, <3>2, <3>3
      <3> HIDE DEF kept, msg, Msg
      <3>7. TimerInv'
        BY <3>2 DEF TimerInv, TypeOK
      <3>8. ReceiptInv'
        BY <3>2, <3>6 DEF ReceiptInv, TypeOK
      <3>9. LicenceInv'
        BY <3>2 DEF LicenceInv, ReceiptInv, Moving, TypeOK, Stopped
      <3>10. StopInv'
        BY <3>2 DEF StopInv, Moving, TypeOK, Stopped
      <3> QED BY <3>5, <3>7, <3>8, <3>9, <3>10
    <2>2. CASE HandleCommand
      <3> DEFINE Msg == [fields : Command, sentAt : Nat]
      <3>1. inbox \in Seq(Msg) /\ inbox # <<>>
        BY <2>2 DEF HandleCommand, TypeOK
      <3>2. /\ inbox' = Tail(inbox)
            /\ receivedAt' = now
            /\ hasCommand' = TRUE
            /\ UNCHANGED <<now, latched, drive, nextCall, lastSent, lastClear, stoppedAt>>
        BY <2>2 DEF HandleCommand, outputVars, historyVars
      <3>3. inbox[1].sentAt \in Nat
        <4> HIDE DEF Msg
        <4>1. inbox[1] \in Msg
          BY <3>1
        <4> QED BY <4>1 DEF Msg
      <3> HIDE DEF Msg
      <3>4. now <= lastSent + MaxLag
        BY <3>1, <3>3, QueueElements DEF InboxInv, TypeOK
      <3>5. InboxInv'
        BY <3>1, <3>2, QueueElements DEF InboxInv
      <3>6. ReceiptInv'
        BY <3>2, <3>4 DEF ReceiptInv, TypeOK
      <3>7. TimerInv' /\ LicenceInv' /\ StopInv'
        BY <3>2 DEF TimerInv, LicenceInv, StopInv, Moving, Stopped
      <3> QED BY <3>5, <3>6, <3>7
    <2>3. CASE HandleOdometry
      BY <2>3 DEF HandleOdometry, outputVars, historyVars, TimerInv, InboxInv,
                  ReceiptInv, LicenceInv, StopInv, Moving, Stopped
    <2>4. CASE EmergencyStop
      BY <2>4 DEF EmergencyStop, inputVars, outputVars, TypeOK, TimerInv, InboxInv,
                  ReceiptInv, LicenceInv, StopInv, Moving, Stopped
    <2>5. CASE ClearEmergencyStop
      BY <2>5 DEF ClearEmergencyStop, outputVars, TypeOK, TimerInv, InboxInv,
                  ReceiptInv, LicenceInv, StopInv, Moving, Stopped
    <2>6. CASE Evaluate /\ ~EvaluatePass
      <3>1. PICK k \in SUBSET Bits, r \in Reasons : Publish(Stopped, k, r)
        BY <2>6 DEF Evaluate, EvaluateStale, EvaluateLatched, EvaluateOffTrack,
                    Bits, Reasons
      <3> QED BY <3>1, PublishInv, StoppedIsCommand
    <2>7. CASE EvaluatePass
      <3> DEFINE why == IF ClampedFields(command) = {} THEN "NONE" ELSE "COMMAND_LIMIT"
      <3>1. Publish(Clamped(command), ClampedFields(command), why)
        BY <2>7 DEF EvaluatePass
      <3>2. Clamped(command) \in Command /\ ClampedFields(command) \in SUBSET Bits
        BY ClampedIsCommand DEF TypeOK, Bits
      <3>3. why \in Reasons
        BY DEF Reasons
      <3>4. ~latched /\ latched' = latched /\ ~Stale
        BY <2>7 DEF EvaluatePass
      <3>5. Clamped(command) # Stopped => hasCommand
        BY StoppedPasses DEF ReceiptInv
      <3>6. hasCommand => \/ now <= lastSent + MaxLag + Timeout
                          \/ now <= lastClear + Timeout
        BY <3>4 DEF Stale, ReceiptInv, TypeOK
      <3> HIDE DEF why
      <3> QED BY <3>1, <3>2, <3>3, <3>4, <3>5, <3>6, PublishInv
    <2>8. CASE Tick
      <3>1. PICK t \in now + 1 .. MaxTime :
               /\ t <= nextCall + MaxLag
               /\ \A i \in 1 .. Len(inbox) : t <= inbox[i].sentAt + MaxLag
               /\ now' = t
        BY <2>8 DEF Tick
      <3>2. UNCHANGED <<inbox, command, receivedAt, hasCommand, latched, drive, nextCall,
                        lastSent, lastClear, stoppedAt>>
        BY <2>8 DEF Tick, inputVars, outputVars, historyVars
      <3> QED BY <3>1, <3>2 DEF TypeOK, TimerInv, InboxInv, ReceiptInv, LicenceInv,
                                StopInv, Moving, Stopped
    <2>9. CASE UNCHANGED vars
      BY <2>9 DEF vars, TimerInv, InboxInv, ReceiptInv, LicenceInv, StopInv, Moving, Stopped
    <2> QED
      BY <2>1, <2>2, <2>3, <2>4, <2>5, <2>6, <2>7, <2>8, <2>9 DEF Next, Evaluate
  <1> QED BY <1>1, <1>2, TypeCorrect, PTL DEF Spec

\* A silent controller drives the vehicle no longer than the horizon.
THEOREM OrphanHorizonHolds == Spec => []OrphanHorizon
  <1>1. TypeOK /\ SafetyInv => OrphanHorizon
    BY DEF TypeOK, SafetyInv, TimerInv, LicenceInv, ReceiptInv, OrphanHorizon
  <1> QED BY <1>1, TypeCorrect, SafetyInvariant, PTL

\* A demanded stop reaches the vehicle within a period and the lag.
THEOREM StopTakesEffectHolds == Spec => []StopTakesEffect
  <1>1. TypeOK /\ SafetyInv => StopTakesEffect
    BY DEF TypeOK, SafetyInv, TimerInv, StopInv, StopTakesEffect
  <1> QED BY <1>1, TypeCorrect, SafetyInvariant, PTL

----------------------------------------------------------------------------
(* Action properties and the refinement *)

\* Only a decision of the policy moves the heartbeat.
LEMMA HeartbeatSteps ==
    ASSUME [Next]_vars, heartbeat' # heartbeat
    PROVE  Evaluate
  <1>1. ASSUME NEW c \in Commands, SendCommand(c) PROVE FALSE
    BY <1>1 DEF SendCommand, outputVars
  <1>2. ~HandleCommand /\ ~HandleOdometry /\ ~EmergencyStop /\ ~ClearEmergencyStop
    BY DEF HandleCommand, HandleOdometry, EmergencyStop, ClearEmergencyStop, outputVars
  <1>3. ~Tick
    BY DEF Tick, outputVars
  <1>4. ~UNCHANGED vars
    BY DEF vars
  <1> QED BY <1>1, <1>2, <1>3, <1>4 DEF Next

\* A stale stop is never issued against a controller that has been heard.
THEOREM EarnedStaleStopHolds == Spec => EarnedStaleStop
  <1> DEFINE Earned == heartbeat' # heartbeat /\ status'.reason = "STALE_INPUT"
                       => /\ hasCommand
                          /\ now - lastClear > Timeout
                          /\ now - lastSent > Timeout \/ inbox # <<>>
  <1>1. TypeOK /\ SafetyInv /\ [Next]_vars => Earned
    <2> SUFFICES ASSUME TypeOK, SafetyInv, [Next]_vars,
                        heartbeat' # heartbeat, status'.reason = "STALE_INPUT"
                 PROVE  /\ hasCommand
                        /\ now - lastClear > Timeout
                        /\ now - lastSent > Timeout \/ inbox # <<>>
      OBVIOUS
    <2>1. Evaluate
      BY HeartbeatSteps
    <2>2. ~EvaluateLatched /\ ~EvaluateOffTrack
      BY DEF EvaluateLatched, EvaluateOffTrack, Publish
    <2>3. ~EvaluatePass
      BY DEF EvaluatePass, Publish
    <2>4. Stale
      BY <2>1, <2>2, <2>3 DEF Evaluate, EvaluateStale
    <2> QED BY <2>4 DEF Stale, SafetyInv, ReceiptInv, TypeOK
  <1>2. TypeOK /\ SafetyInv /\ [Next]_vars => [Earned]_vars
    BY <1>1
  <1> QED BY <1>2, TypeCorrect, SafetyInvariant, PTL DEF Spec, EarnedStaleStop

\* Clamping bounds every field but NaN, and reports every field it moves.
LEMMA ClampBounds ==
    ASSUME NEW c \in Command, NEW f \in Fields
    PROVE  /\ c[f] = NaN => Clamped(c)[f] = NaN /\ f \in ClampedFields(c)
           /\ c[f] # NaN => Clamped(c)[f] # NaN /\ Clamped(c)[f] \in -Limit[f] .. Limit[f]
           /\ f \notin ClampedFields(c) => Clamped(c)[f] = c[f]
  <1>1. c[f] \in Int \cup {NaN} /\ Limit[f] \in Nat
    BY DEF Command, Value
  <1>2. Clamped(c)[f] = ClampField(c[f], Limit[f])
    BY DEF Clamped
  <1>3. f \in ClampedFields(c) <=> c[f] = NaN \/ ClampField(c[f], Limit[f]) # c[f]
    BY DEF ClampedFields
  <1>4. CASE c[f] = NaN
    BY <1>2, <1>3, <1>4 DEF ClampField
  <1>5. CASE c[f] # NaN
    <2>1. c[f] \in Int
      BY <1>1, <1>5
    <2>2. ClampField(c[f], Limit[f]) \in -Limit[f] .. Limit[f]
      BY <2>1, <1>1, <1>5 DEF ClampField
    <2>3. NaN \notin -Limit[f] .. Limit[f]
      BY <1>1
    <2> QED BY <1>2, <1>3, <1>5, <2>2, <2>3
  <1> QED BY <1>4, <1>5

\* A command no field of which is reported clamped passes unchanged.
LEMMA UnclampedPasses ==
    ASSUME NEW c \in Command, ClampedFields(c) = {}
    PROVE  Clamped(c) = c
  <1>1. \A f \in Fields : Clamped(c)[f] = c[f]
    BY ClampBounds
  <1> QED BY <1>1 DEF Clamped, Command

\* Whatever is published differs from the command only with a reason and a
\* clamp, and is within the limits or reported as not a number.
THEOREM OutputExplainedHolds == Spec => OutputExplained
  <1> DEFINE Explained == drive'.fields # command => status'.clamps # {} /\ status'.reason # "NONE"
             Bounded == \A f \in Fields :
                            IF drive'.fields[f] = NaN
                            THEN f \in status'.clamps
                            ELSE drive'.fields[f] \in -Limit[f] .. Limit[f]
  <1>1. ASSUME TypeOK, NEW k \in SUBSET Bits, NEW r \in Reasons, k # {}, r # "NONE",
               Publish(Stopped, k, r)
        PROVE  Explained /\ Bounded
    <2>1. drive'.fields = Stopped /\ status'.clamps = k /\ status'.reason = r
      BY <1>1 DEF Publish
    <2>2. \A f \in Fields : Stopped[f] = 0 /\ 0 # NaN /\ 0 \in -Limit[f] .. Limit[f]
      BY DEF Stopped
    <2> QED BY <1>1, <2>1, <2>2
  <1>2. ASSUME TypeOK, EvaluatePass PROVE Explained /\ Bounded
    <2>1. command \in Command
      BY <1>2 DEF TypeOK
    <2>2. /\ drive'.fields = Clamped(command)
          /\ status'.clamps = ClampedFields(command)
          /\ status'.reason = IF ClampedFields(command) = {} THEN "NONE" ELSE "COMMAND_LIMIT"
      BY <1>2 DEF EvaluatePass, Publish
    <2>3. Explained
      BY <2>1, <2>2, UnclampedPasses
    <2>4. Bounded
      BY <2>1, <2>2, ClampBounds
    <2> QED BY <2>3, <2>4
  <1>3. TypeOK /\ [Next]_vars => (heartbeat' # heartbeat => Explained /\ Bounded)
    <2> SUFFICES ASSUME TypeOK, [Next]_vars, heartbeat' # heartbeat
                 PROVE  Explained /\ Bounded
      OBVIOUS
    <2>1. Evaluate
      BY HeartbeatSteps
    <2>2. CASE ~EvaluatePass
      <3>1. PICK k \in SUBSET Bits, r \in Reasons :
               k # {} /\ r # "NONE" /\ Publish(Stopped, k, r)
        BY <2>1, <2>2 DEF Evaluate, EvaluateStale, EvaluateLatched, EvaluateOffTrack,
                          Bits, Reasons
      <3> QED BY <3>1, <1>1
    <2> QED BY <2>2, <1>2
  <1>4. TypeOK /\ [Next]_vars => [heartbeat' # heartbeat => Explained /\ Bounded]_vars
    BY <1>3
  <1> QED BY <1>4, TypeCorrect, PTL DEF Spec, OutputExplained

\* Every step of the supervisor is a step of the gate or leaves it alone.
THEOREM GateRefined == Spec => ImplementsGate
  <1>1. Init => Gate!GateInit
    BY DEF Init, Gate!GateInit, Moving
  <1>2. TypeOK /\ SafetyInv /\ [Next]_vars => [Gate!GateNext]_Gate!gateVars
    <2> SUFFICES ASSUME TypeOK, SafetyInv, [Next]_vars PROVE [Gate!GateNext]_Gate!gateVars
      OBVIOUS
    <2> USE DEF Gate!gateVars, Moving
    <2>0. Stopped' = Stopped
      BY DEF Stopped
    <2>1. ASSUME NEW c \in Commands, SendCommand(c) PROVE UNCHANGED Gate!gateVars
      BY <2>1, <2>0 DEF SendCommand, outputVars
    <2>2. CASE HandleCommand
      BY <2>2, <2>0 DEF HandleCommand, outputVars, Gate!GateNext, Gate!Hear
    <2>3. CASE HandleOdometry
      BY <2>3, <2>0 DEF HandleOdometry, outputVars
    <2>4. CASE EmergencyStop
      BY <2>4, <2>0 DEF EmergencyStop, inputVars, outputVars, Gate!GateNext, Gate!Halt
    <2>5. CASE ClearEmergencyStop
      BY <2>5, <2>0 DEF ClearEmergencyStop, outputVars, Gate!GateNext, Gate!Release
    <2>6. CASE Evaluate /\ ~EvaluatePass
      <3>1. PICK k, r : Publish(Stopped, k, r)
        BY <2>6 DEF Evaluate, EvaluateStale, EvaluateLatched, EvaluateOffTrack
      <3>2. Moving' = FALSE /\ UNCHANGED <<now, receivedAt>>
        BY <3>1, <2>0 DEF Publish, inputVars
      <3>3. latched' \in {latched, TRUE}
        BY <2>6 DEF Evaluate, EvaluateStale, EvaluateLatched, EvaluateOffTrack
      <3> QED BY <3>2, <3>3 DEF Gate!GateNext, Gate!PublishStandstill
    <2>7. CASE EvaluatePass
      <3>1. ~latched /\ latched' = latched /\ UNCHANGED <<now, receivedAt>>
        BY <2>7 DEF EvaluatePass, Publish, inputVars
      <3>2. ~Stale /\ drive'.fields = Clamped(command)
        BY <2>7 DEF EvaluatePass, Publish
      <3>3. CASE Clamped(command) = Stopped
        BY <3>1, <3>2, <3>3, <2>0 DEF Gate!GateNext, Gate!PublishStandstill
      <3>4. CASE Clamped(command) # Stopped
        <4>1. hasCommand
          BY <3>4, StoppedPasses DEF SafetyInv, ReceiptInv
        <4>2. now - receivedAt <= Timeout
          BY <4>1, <3>2 DEF Stale, TypeOK
        <4> QED BY <3>1, <3>2, <3>4, <4>2, <2>0 DEF Gate!GateNext, Gate!PublishMoving
      <3> QED BY <3>3, <3>4
    <2>8. CASE Tick
      BY <2>8, <2>0 DEF Tick, TypeOK, inputVars, outputVars, historyVars,
                        Gate!GateNext, Gate!Advance
    <2>9. CASE UNCHANGED vars
      BY <2>9, <2>0 DEF vars
    <2> QED
      BY <2>1, <2>2, <2>3, <2>4, <2>5, <2>6, <2>7, <2>8, <2>9 DEF Next, Evaluate
  <1> QED BY <1>1, <1>2, TypeCorrect, SafetyInvariant, PTL DEF Spec, ImplementsGate, Gate!GateSpec
====
