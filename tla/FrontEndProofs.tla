--------------------------- MODULE FrontEndProofs ---------------------------
(***************************************************************************)
(* Theorems about the two front ends of racing_sim_autodrive, for every     *)
(* number of frames, pace, timeout and kind of frame; and, in the second    *)
(* part, about the assembler of the devkit's topics, for every set of       *)
(* topics, number of bursts, backlog, preemption and restart.               *)
(***************************************************************************)
EXTENDS FrontEnd, DevkitAssembler, FiniteSetTheorems, SequenceTheorems,
        WellFoundedInduction, TLAPS

USE DEF config, process, handler, stall, peerVars, wires

----------------------------------------------------------------------------
(* Types *)

\* The numbers among the constants.
LEMMA Numbers ==
    /\ Count \in Nat \ {0} /\ ReplyWait \in Nat /\ Gaps \subseteq Nat
    /\ StallTimeout \in Nat \ {0} /\ JoinTimeout \in Nat \ {0} /\ MaxHandling \in Nat
  BY FrontEndAssumption

\* The bounds hold at their ends.
LEMMA Ends ==
    /\ 0 \in 0 .. MaxHandling /\ 0 \in 0 .. StallTimeout + 3 /\ 0 \in 0 .. Count /\ 0 \in Nat
    /\ 0 \in 0 .. JoinTimeout /\ 1 \in 0 .. JoinTimeout /\ JoinTimeout \in 0 .. JoinTimeout
  BY Numbers

\* The cap of the counters of time.
LEMMA CapType ==
    ASSUME NEW n \in 0 .. StallTimeout + 3
    PROVE  Capped(n + 1) \in 0 .. StallTimeout + 3
  BY Numbers DEF Capped

\* One period less.
LEMMA LessType ==
    /\ \A n \in Nat : Less(n) \in Nat /\ Less(n) <= n
    /\ \A n \in 0 .. MaxHandling : Less(n) \in 0 .. MaxHandling
    /\ \A n \in 0 .. JoinTimeout : Less(n) \in 0 .. JoinTimeout
  BY Numbers DEF Less

\* Replies and frames in flight.
LEMMA Wire ==
    ASSUME NEW S, NEW q \in Seq(S)
    PROVE  /\ \A e \in S : Append(q, e) \in Seq(S) /\ Len(Append(q, e)) = Len(q) + 1
           /\ q # <<>> => /\ Head(q) \in S /\ Tail(q) \in Seq(S)
                          /\ Len(Tail(q)) = Len(q) - 1 /\ Len(q) > 0
           /\ \A e \in S : <<e>> \in Seq(S) /\ Len(<<e>>) = 1
           /\ Len(q) \in Nat
  OBVIOUS

\* Nothing in flight.
LEMMA Quiet == \A S : <<>> \in Seq(S) /\ Len(<<>>) = 0
  OBVIOUS

LEMMA InitTypes == ASSUME Init PROVE TypeOK
  <1>1. ProcessTypes
    BY Ends DEF Init, ProcessTypes, Phases
  <1>2. HandlerTypes
    BY Ends DEF Init, HandlerTypes
  <1>3. StallTypes
    BY Ends DEF Init, StallTypes
  <1>4. PeerTypes
    BY Ends, Quiet DEF Init, PeerTypes
  <1> QED BY <1>1, <1>2, <1>3, <1>4 DEF TypeOK

LEMMA StartTypes == ASSUME TypeOK, Start PROVE TypeOK'
  <1>1. phase' \in Phases
    BY DEF Start, Built, Serve, Phases
  <1>2. joinLeft' \in 0 .. JoinTimeout
    BY Ends DEF Start, TypeOK, ProcessTypes
  <1>3. ProcessTypes'
    BY <1>1, <1>2 DEF Start, TypeOK, ProcessTypes
  <1>4. HandlerTypes' /\ StallTypes' /\ PeerTypes'
    BY DEF Start, TypeOK, HandlerTypes, StallTypes, PeerTypes
  <1> QED BY <1>3, <1>4 DEF TypeOK

LEMMA StopTypes == ASSUME TypeOK, Stop PROVE TypeOK'
  <1>1. ProcessTypes'
    BY Ends DEF Stop, TypeOK, ProcessTypes, Phases
  <1>2. HandlerTypes' /\ StallTypes' /\ PeerTypes'
    BY DEF Stop, TypeOK, HandlerTypes, StallTypes, PeerTypes
  <1> QED BY <1>1, <1>2 DEF TypeOK

LEMMA JoinTypes == ASSUME TypeOK, Join PROVE TypeOK'
  <1>1. ProcessTypes'
    BY Ends DEF Join, TypeOK, ProcessTypes, Phases
  <1>2. HandlerTypes' /\ StallTypes'
    BY DEF Join, TypeOK, HandlerTypes, StallTypes
  <1>3. down' \in Seq(BOOLEAN)
    BY Wire DEF Join, Tell, TypeOK, PeerTypes
  <1>4. PeerTypes'
    BY <1>3 DEF Join, TypeOK, PeerTypes
  <1> QED BY <1>1, <1>2, <1>4 DEF TypeOK

LEMMA ShutdownTypes == ASSUME TypeOK, Shutdown PROVE TypeOK'
  <1>1. phase' \in Phases /\ contextUp' \in BOOLEAN
    BY DEF Shutdown, Phases, TypeOK, ProcessTypes
  <1>2. ProcessTypes'
    BY <1>1 DEF Shutdown, TypeOK, ProcessTypes
  <1>3. HandlerTypes' /\ StallTypes' /\ PeerTypes'
    BY DEF Shutdown, TypeOK, HandlerTypes, StallTypes, PeerTypes
  <1> QED BY <1>2, <1>3 DEF TypeOK

LEMMA SignalTypes == ASSUME TypeOK, Signal PROVE TypeOK'
  <1>1. phase' \in Phases
    BY DEF Signal, TypeOK, ProcessTypes, Phases
  <1>2. contextUp' \in BOOLEAN /\ asked' \in BOOLEAN /\ signalled' \in BOOLEAN
    BY DEF Signal
  <1>3. ProcessTypes'
    BY <1>1, <1>2 DEF Signal, TypeOK, ProcessTypes
  <1>4. HandlerTypes' /\ StallTypes' /\ PeerTypes'
    BY DEF Signal, TypeOK, HandlerTypes, StallTypes, PeerTypes
  <1> QED BY <1>3, <1>4 DEF TypeOK

LEMMA OnDriveTypes == ASSUME TypeOK, OnDrive PROVE TypeOK'
  <1>1. ProcessTypes'
    BY DEF OnDrive, TypeOK, ProcessTypes
  <1>2. HandlerTypes' /\ StallTypes' /\ PeerTypes'
    BY DEF OnDrive, TypeOK, HandlerTypes, StallTypes, PeerTypes
  <1> QED BY <1>1, <1>2 DEF TypeOK

LEMMA WatchTypes == ASSUME TypeOK, Watch PROVE TypeOK'
  <1>1. StallTypes'
    <2>1. connected' \in BOOLEAN /\ reported' \in BOOLEAN /\ silence' \in 0 .. StallTimeout + 3
      BY Ends DEF Watch, Joined, TypeOK, StallTypes
    <2> QED BY <2>1 DEF Watch, TypeOK, StallTypes
  <1>2. ProcessTypes' /\ HandlerTypes' /\ PeerTypes'
    BY DEF Watch, TypeOK, ProcessTypes, HandlerTypes, PeerTypes
  <1> QED BY <1>1, <1>2 DEF TypeOK

LEMMA ThreadEndsTypes == ASSUME TypeOK, ThreadEnds PROVE TypeOK'
  <1>1. HandlerTypes'
    BY DEF ThreadEnds, TypeOK, HandlerTypes
  <1>2. UNCHANGED <<config, process, stall, peerVars, wires>>
    BY DEF ThreadEnds
  <1>3. ProcessTypes' /\ StallTypes' /\ PeerTypes'
    BY <1>2 DEF TypeOK, ProcessTypes, StallTypes, PeerTypes
  <1> QED BY <1>1, <1>3 DEF TypeOK

LEMMA EnterTypes == ASSUME TypeOK, Enter PROVE TypeOK'
  <1>1. handling' \in Kinds /\ up' \in Seq(Kinds)
    BY Wire DEF Enter, TypeOK, PeerTypes
  <1>2. HandlerTypes'
    BY <1>1, Ends DEF Enter, TypeOK, ProcessTypes, HandlerTypes
  <1>3. StallTypes'
    BY DEF Enter, TypeOK, StallTypes
  <1>4. PeerTypes'
    BY <1>1 DEF Enter, TypeOK, PeerTypes
  <1>5. ProcessTypes'
    BY DEF Enter, TypeOK, ProcessTypes
  <1> QED BY <1>2, <1>3, <1>4, <1>5 DEF TypeOK

LEMMA ExitTypes == ASSUME TypeOK, Exit PROVE TypeOK'
  <1>1. down' \in Seq(BOOLEAN) /\ asked' \in BOOLEAN /\ ended' \in BOOLEAN
    <2>1. Reply(handling) \in BOOLEAN /\ taken \in BOOLEAN
      BY DEF Reply, TypeOK, HandlerTypes
    <2>2. down \in Seq(BOOLEAN)
      BY DEF TypeOK, PeerTypes
    <2>3. Append(down, Reply(handling)) \in Seq(BOOLEAN) /\ <<taken>> \in Seq(BOOLEAN)
      BY <2>1, <2>2, Wire
    <2>4. asked \in BOOLEAN /\ ended \in BOOLEAN
      BY DEF TypeOK, ProcessTypes, HandlerTypes
    <2> QED BY <2>2, <2>3, <2>4 DEF Exit, Command, Answer, Tell
  <1>2. ProcessTypes'
    BY <1>1 DEF Exit, TypeOK, ProcessTypes
  <1>3. HandlerTypes'
    BY <1>1 DEF Exit, TypeOK, HandlerTypes
  <1>4. StallTypes'
    BY Ends DEF Exit, Rearmed, TypeOK, StallTypes
  <1>5. PeerTypes'
    BY <1>1 DEF Exit, TypeOK, PeerTypes
  <1> QED BY <1>2, <1>3, <1>4, <1>5 DEF TypeOK

LEMMA ConnectTypes == ASSUME TypeOK, Connect PROVE TypeOK'
  <1>1. StallTypes'
    BY Ends DEF Connect, Joined, TypeOK, StallTypes
  <1>2. PeerTypes'
    BY DEF Connect, TypeOK, PeerTypes
  <1>3. ProcessTypes' /\ HandlerTypes'
    BY DEF Connect, TypeOK, ProcessTypes, HandlerTypes
  <1> QED BY <1>1, <1>2, <1>3 DEF TypeOK

\* What a frame of the peer adds to the wire.
LEMMA SendWire ==
    ASSUME TypeOK, Send
    PROVE  /\ up' \in Seq(Kinds) /\ Len(up') <= Len(up) + 1
           /\ sent' = sent + 1 /\ sent < Count /\ sent' \in 0 .. Count
           /\ wait' \in Nat /\ peer' \in {"off", "sending", "waiting", "gone"}
           /\ ~official => peer' \in {"waiting", "sending"}
  <1>1. sent' = sent + 1 /\ sent < Count /\ sent' \in 0 .. Count
    BY Numbers DEF Send, TypeOK, PeerTypes
  <1>2. PICK kind \in Kinds : IF official THEN DevkitSend(kind) ELSE ReplaySend(kind)
    BY DEF Send
  <1>3. up \in Seq(Kinds)
    BY DEF TypeOK, PeerTypes
  <1>4. /\ Append(up, kind) \in Seq(Kinds) /\ Len(Append(up, kind)) <= Len(up) + 1
        /\ up \o DevkitValues(kind) \in Seq(Kinds)
        /\ Len(up \o DevkitValues(kind)) <= Len(up) + 1
    BY <1>3 DEF DevkitValues
  <1>5. up' \in Seq(Kinds) /\ Len(up') <= Len(up) + 1
    <2>1. up' = Append(up, kind) \/ up' = up \o DevkitValues(kind)
      BY <1>2 DEF DevkitSend, ReplaySend
    <2> QED BY <2>1, <1>4, Zenon
  <1>6. Delay(sent') \in Nat
    BY Numbers DEF Delay, TypeOK, ProcessTypes
  <1>7. wait' \in Nat
    BY <1>2, <1>6, Numbers DEF DevkitSend, ReplaySend
  <1>8. peer = "sending"
    BY DEF Send
  <1>9. /\ peer' \in {"off", "sending", "waiting", "gone"}
        /\ ~official => peer' \in {"waiting", "sending"}
    BY <1>2, <1>8 DEF DevkitSend, ReplaySend
  <1> QED BY <1>1, <1>5, <1>7, <1>9

LEMMA SendTypes == ASSUME TypeOK, Send PROVE TypeOK'
  <1>1. PeerTypes'
    BY SendWire DEF Send, TypeOK, PeerTypes
  <1>2. ProcessTypes' /\ HandlerTypes' /\ StallTypes'
    BY DEF Send, TypeOK, ProcessTypes, HandlerTypes, StallTypes
  <1> QED BY <1>1, <1>2 DEF TypeOK

LEMMA GiveUpTypes == ASSUME TypeOK, GiveUp PROVE TypeOK'
  <1>1. PeerTypes'
    BY DEF GiveUp, Late, TypeOK, PeerTypes
  <1>2. ProcessTypes' /\ HandlerTypes' /\ StallTypes'
    BY DEF GiveUp, TypeOK, ProcessTypes, HandlerTypes, StallTypes
  <1> QED BY <1>1, <1>2 DEF TypeOK

LEMMA DisconnectTypes == ASSUME TypeOK, Disconnect PROVE TypeOK'
  <1>1. StallTypes'
    BY DEF Disconnect, TypeOK, StallTypes
  <1>2. ProcessTypes' /\ HandlerTypes' /\ PeerTypes'
    BY DEF Disconnect, TypeOK, ProcessTypes, HandlerTypes, PeerTypes
  <1> QED BY <1>1, <1>2 DEF TypeOK

LEMMA TickTypes == ASSUME TypeOK, Tick PROVE TypeOK'
  <1>1. silence' \in 0 .. StallTimeout + 3 /\ handledFor' \in 0 .. StallTimeout + 3
    BY CapType DEF Tick, TypeOK, StallTypes, HandlerTypes
  <1>2. busy' \in 0 .. MaxHandling /\ wait' \in Nat /\ joinLeft' \in 0 .. JoinTimeout
    BY LessType DEF Tick, TypeOK, HandlerTypes, PeerTypes, ProcessTypes
  <1>3. ProcessTypes'
    BY <1>2 DEF Tick, TypeOK, ProcessTypes
  <1>4. HandlerTypes'
    BY <1>1, <1>2 DEF Tick, TypeOK, HandlerTypes
  <1>5. StallTypes'
    BY <1>1 DEF Tick, TypeOK, StallTypes
  <1>6. PeerTypes'
    BY <1>2 DEF Tick, TypeOK, PeerTypes
  <1> QED BY <1>3, <1>4, <1>5, <1>6 DEF TypeOK

----------------------------------------------------------------------------
(* What the replay has been answered *)

\* Every reply is of a frame that was sent, and of one only.
Accounted ==
    ~official => replies + Len(up) + Len(down) + (IF handling = "none" THEN 0 ELSE 1) <= sent

ReplayInv == TypeOK /\ Accounted /\ ReplayVerdict

LEMMA ReplayInit == ASSUME Init PROVE ReplayInv
  <1>1. TypeOK
    BY InitTypes
  <1>2. Accounted
    BY Quiet DEF Init, Accounted
  <1>3. ReplayVerdict
    BY DEF Init, ReplayVerdict
  <1> QED BY <1>1, <1>2, <1>3 DEF ReplayInv

\* What neither sends, handles nor hears a frame leaves the count as it is.
LEMMA ReplayElsewhere ==
    ASSUME ReplayInv, TypeOK', UNCHANGED <<official, handling, sent, replies, up, status>>,
           ~official => down' = down /\ (peer' = "gone" /\ status = 0 => peer = "gone")
    PROVE  ReplayInv'
  <1>1. Accounted'
    BY DEF ReplayInv, Accounted
  <1>2. ReplayVerdict'
    BY DEF ReplayInv, ReplayVerdict
  <1> QED BY <1>1, <1>2 DEF ReplayInv

\* A frame that is taken in hand is one less on the wire.
LEMMA ReplayEnter == ASSUME ReplayInv, Enter PROVE ReplayInv'
  <1>1. TypeOK /\ TypeOK'
    BY EnterTypes DEF ReplayInv
  <1>2. Accounted'
    <2>1. Len(up') = Len(up) - 1
      BY <1>1, Wire DEF Enter, TypeOK, PeerTypes
    <2>2. handling = "none" /\ UNCHANGED <<official, replies, sent, down>>
      BY DEF Enter
    <2>3. Len(up) \in Nat /\ Len(down) \in Nat /\ replies \in Nat /\ sent \in Nat
      BY <1>1, Wire DEF TypeOK, PeerTypes
    <2> QED BY <2>1, <2>2, <2>3 DEF ReplayInv, Accounted
  <1>3. ReplayVerdict'
    BY DEF Enter, ReplayInv, ReplayVerdict
  <1> QED BY <1>1, <1>2, <1>3 DEF ReplayInv

\* The frame in hand becomes a reply at most.
LEMMA ReplayExit == ASSUME ReplayInv, Exit PROVE ReplayInv'
  <1>1. TypeOK /\ TypeOK'
    BY ExitTypes DEF ReplayInv
  <1>2. ASSUME ~official PROVE Len(down') <= Len(down) + 1
    <2>1. down \in Seq(BOOLEAN) /\ Len(down) \in Nat
      BY <1>1, Wire DEF TypeOK, PeerTypes
    <2>2. Reply(handling) \in BOOLEAN
      BY <1>1 DEF Reply, TypeOK, HandlerTypes
    <2>3. Len(Append(down, Reply(handling))) = Len(down) + 1
      BY <2>1, <2>2, Wire
    <2>4. down' = down \/ down' = Append(down, Reply(handling))
      BY <1>2 DEF Exit, Answer
    <2>5. CASE down' = down
      BY <2>1, <2>5
    <2>6. CASE down' = Append(down, Reply(handling))
      BY <2>1, <2>3, <2>6
    <2> QED BY <2>4, <2>5, <2>6
  <1>3. Accounted'
    <2>1. handling # "none" /\ handling' = "none" /\ UNCHANGED <<official, replies, sent, up>>
      BY DEF Exit
    <2>2. Len(up) \in Nat /\ Len(down) \in Nat /\ Len(down') \in Nat
          /\ replies \in Nat /\ sent \in Nat
      BY <1>1, Wire DEF TypeOK, PeerTypes
    <2> QED BY <1>2, <2>1, <2>2 DEF ReplayInv, Accounted
  <1>4. ReplayVerdict'
    BY DEF Exit, ReplayInv, ReplayVerdict
  <1> QED BY <1>1, <1>3, <1>4 DEF ReplayInv

LEMMA ReplaySends == ASSUME ReplayInv, Send PROVE ReplayInv'
  <1>1. TypeOK /\ TypeOK'
    BY SendTypes DEF ReplayInv
  <1>2. Accounted'
    <2>1. UNCHANGED <<official, handling, replies, down>>
      BY DEF Send
    <2>2. Len(up) \in Nat /\ Len(up') \in Nat /\ Len(down) \in Nat /\ replies \in Nat /\ sent \in Nat
      BY <1>1, Wire DEF TypeOK, PeerTypes
    <2>3. Len(up') <= Len(up) + 1 /\ sent' = sent + 1
      BY <1>1, SendWire
    <2> QED BY <2>1, <2>2, <2>3 DEF ReplayInv, Accounted
  <1>3. ReplayVerdict'
    BY <1>1, SendWire DEF Send, ReplayVerdict
  <1> QED BY <1>1, <1>2, <1>3 DEF ReplayInv

\* A reply that is heard was on the wire: there are no more replies than frames, and
\* the one that ends the run is that of the last frame.
LEMMA ReplayHears == ASSUME ReplayInv, Hear PROVE ReplayInv'
  <1>1. TypeOK
    BY DEF ReplayInv
  <1>2. /\ down' = Tail(down) /\ down' \in Seq(BOOLEAN) /\ latch' \in BOOLEAN
        /\ Len(down) \in Nat /\ Len(down') = Len(down) - 1 /\ Len(down) > 0
        /\ Len(up) \in Nat /\ replies \in Nat /\ sent \in Nat /\ sent <= Count
    BY <1>1, Wire, Numbers DEF Hear, TypeOK, PeerTypes
  <1>3. replies' = IF official THEN replies ELSE replies + 1
    BY DEF Hear
  <1>4. ~official => replies' <= sent
    BY <1>2, <1>3 DEF ReplayInv, Accounted
  <1>5. TypeOK'
    <2>1. replies' \in 0 .. Count
      <3>1. CASE official
        BY <1>1, <1>3, <3>1 DEF TypeOK, PeerTypes
      <3>2. CASE ~official
        BY <1>2, <1>3, <1>4, <3>2, Numbers
      <3> QED BY <3>1, <3>2
    <2>2. peer' \in {"off", "sending", "waiting", "gone"} /\ wait' \in Nat
      BY <1>1, Ends DEF Hear, TypeOK, PeerTypes
    <2>3. PeerTypes'
      BY <1>1, <1>2, <2>1, <2>2 DEF Hear, TypeOK, PeerTypes
    <2>4. ProcessTypes' /\ HandlerTypes' /\ StallTypes'
      BY <1>1 DEF Hear, TypeOK, ProcessTypes, HandlerTypes, StallTypes
    <2> QED BY <2>3, <2>4 DEF TypeOK
  <1>6. Accounted'
    <2>1. UNCHANGED <<official, handling, sent, up>>
      BY DEF Hear
    <2> QED BY <1>2, <1>3, <2>1 DEF ReplayInv, Accounted
  <1>7. ReplayVerdict'
    <2> SUFFICES ASSUME ~official, peer' = "gone", status = 0
                 PROVE  replies' = Count
      BY DEF Hear, ReplayVerdict
    <2>1. CASE peer = "gone"
      <3>1. replies = Count
        BY <2>1 DEF ReplayInv, ReplayVerdict
      <3>2. replies + 1 <= sent
        BY <1>3, <1>4
      <3> QED BY <1>2, <3>1, <3>2, Numbers
    <2>2. CASE peer # "gone"
      <3>1. replies' >= sent /\ sent = Count
        BY <2>2 DEF Hear
      <3> QED BY <1>2, <1>3, <1>4, <3>1, Numbers
    <2> QED BY <2>1, <2>2
  <1> QED BY <1>5, <1>6, <1>7 DEF ReplayInv

LEMMA ReplayStep == ASSUME ReplayInv, [Next]_vars PROVE ReplayInv'
  <1>0. TypeOK
    BY DEF ReplayInv
  <1>1. CASE Main
    <2>1. TypeOK'
      BY <1>0, <1>1, StartTypes, StopTypes, JoinTypes, ShutdownTypes DEF Main
    <2>2. /\ UNCHANGED <<official, handling, sent, replies, up, status, peer>>
          /\ ~official => down' = down
      BY <1>1 DEF Main, Start, Stop, Join, Shutdown
    <2> QED BY <2>1, <2>2, ReplayElsewhere
  <1>2. CASE Signal
    BY <1>0, <1>2, SignalTypes, ReplayElsewhere DEF Signal
  <1>3. CASE OnDrive
    BY <1>0, <1>3, OnDriveTypes, ReplayElsewhere DEF OnDrive
  <1>4. CASE Watch
    BY <1>0, <1>4, WatchTypes, ReplayElsewhere DEF Watch
  <1>5. CASE ThreadEnds
    BY <1>0, <1>5, ThreadEndsTypes, ReplayElsewhere DEF ThreadEnds
  <1>6. CASE Connect
    BY <1>0, <1>6, ConnectTypes, ReplayElsewhere DEF Connect
  <1>7. CASE GiveUp
    <2>1. TypeOK'
      BY <1>0, <1>7, GiveUpTypes
    <2>2. Accounted'
      BY <1>7 DEF GiveUp, ReplayInv, Accounted
    <2>3. ReplayVerdict'
      BY <1>7 DEF GiveUp, Late, ReplayVerdict
    <2> QED BY <2>1, <2>2, <2>3 DEF ReplayInv
  <1>8. CASE Disconnect
    BY <1>0, <1>8, DisconnectTypes, ReplayElsewhere DEF Disconnect
  <1>9. CASE Tick
    BY <1>0, <1>9, TickTypes, ReplayElsewhere DEF Tick
  <1>10. CASE UNCHANGED vars
    <2>1. TypeOK'
      BY <1>0, <1>10 DEF vars, TypeOK, ProcessTypes, HandlerTypes, StallTypes, PeerTypes
    <2> QED BY <1>10, <2>1, ReplayElsewhere DEF vars
  <1> QED BY <1>1, <1>2, <1>3, <1>4, <1>5, <1>6, <1>7, <1>8, <1>9, <1>10,
             ReplayEnter, ReplayExit, ReplaySends, ReplayHears DEF Next

\* Every state of a front end and of its peer has its type.
THEOREM TypeOKHolds == Spec => []TypeOK
  <1>1. ReplayInv => TypeOK
    BY DEF ReplayInv
  <1> QED BY <1>1, ReplayInit, ReplayStep, PTL DEF Spec

\* replay.py that has given no late reply has had one for every frame, however its
\* frames and the replies to them overlap.
THEOREM ReplayVerdictHolds == Spec => []ReplayVerdict
  <1>1. ReplayInv => ReplayVerdict
    BY DEF ReplayInv
  <1> QED BY <1>1, ReplayInit, ReplayStep, PTL DEF Spec

----------------------------------------------------------------------------
(* B's stop *)

\* B's thread, from the stop to its end: the one frame it may still take fits in the
\* wait for it.
ThreadWaited ==
    /\ phase \in {"init", "serving", "stopping", "ending", "exited"}
    /\ ended => handling = "none"
    /\ phase = "stopping" => asked
    /\ phase = "stopping" /\ ~ended
       => IF handling = "none" THEN joinLeft = JoinTimeout ELSE busy < joinLeft
    /\ phase \in {"ending", "exited"} => ended \/ peer = "off"

\* Before there is a devkit, nothing is heard of it or told it but zeros.
NothingYet ==
    /\ phase = "init" => peer = "off"
    /\ peer = "off" => /\ up = <<>> /\ handling = "none"
                       /\ ~latch /\ down \in {<<>>, <<FALSE>>}

\* The zeros are the last that the devkit is told, and it hears them in time.
ZerosLast ==
    /\ phase = "ending" /\ peer # "off"
       => (down = <<FALSE>> /\ joinLeft = 1) \/ (down = <<>> /\ ~latch)
    /\ phase = "exited" /\ peer # "off" => down = <<>> /\ ~latch

RestInv == official => ThreadWaited /\ NothingYet /\ ZerosLast

\* One command on the wire.
LEMMA OneCommand == \A b : <<b>> # <<>> /\ Head(<<b>>) = b /\ Tail(<<b>>) = <<>>
  OBVIOUS

LEMMA RestInit == ASSUME Init PROVE RestInv
  BY DEF Init, RestInv, ThreadWaited, NothingYet, ZerosLast

\* The thread and the devkit's wires as they were, and the phase.
LEMMA RestElsewhere ==
    ASSUME RestInv,
           UNCHANGED <<official, phase, joinLeft, handling, busy, ended, peer, up, down, latch>>,
           asked => asked'
    PROVE  RestInv'
  BY DEF RestInv, ThreadWaited, NothingYet, ZerosLast

LEMMA RestMain == ASSUME RestInv, MaxHandling < JoinTimeout, TypeOK, Main PROVE RestInv'
  <1> SUFFICES ASSUME official PROVE (ThreadWaited /\ NothingYet /\ ZerosLast)'
    BY DEF RestInv, Main, Start, Stop, Join, Shutdown
  <1>0. ThreadWaited /\ NothingYet /\ ZerosLast
    BY DEF RestInv, Main, Start, Stop, Join, Shutdown
  <1>1. CASE Start
    <2>1. phase = "init" /\ phase' \in {"serving", "ending"}
      BY <1>0, <1>1 DEF Start, Built, ThreadWaited
    <2>2. UNCHANGED <<handling, busy, ended, peer, up, down, latch>>
      BY <1>1 DEF Start
    <2> QED BY <1>0, <2>1, <2>2 DEF ThreadWaited, NothingYet, ZerosLast
  <1>2. CASE Stop
    <2>1. phase' = "stopping" /\ asked' /\ joinLeft' = JoinTimeout
          /\ phase = "serving" /\ UNCHANGED <<handling, busy, ended, peer, up, down, latch>>
      BY <1>2 DEF Stop
    <2>2. busy' < joinLeft'
      BY <2>1, Numbers DEF TypeOK, HandlerTypes
    <2> QED BY <1>0, <2>1, <2>2 DEF ThreadWaited, NothingYet, ZerosLast
  <1>3. CASE Join
    <2>1. phase = "stopping" /\ phase' = "ending" /\ joinLeft' = 1 /\ down' = <<FALSE>>
          /\ UNCHANGED <<asked, handling, busy, ended, peer, up, latch>>
      BY <1>3 DEF Join, Tell
    <2>2. ended
      <3>1. ended \/ joinLeft = 0
        BY <1>3 DEF Join, HandlerEnded
      <3>2. joinLeft = 0 /\ ~ended => JoinTimeout = 0 \/ busy < 0
        BY <1>0, <2>1 DEF ThreadWaited
      <3>3. JoinTimeout # 0 /\ ~(busy < 0)
        BY Numbers DEF TypeOK, HandlerTypes
      <3> QED BY <3>1, <3>2, <3>3
    <2> QED BY <1>0, <2>1, <2>2 DEF ThreadWaited, NothingYet, ZerosLast
  <1>4. CASE Shutdown
    <2>1. phase = "ending" /\ phase' = "exited" /\ (down = <<>> \/ joinLeft = 0)
          /\ UNCHANGED <<asked, joinLeft, handling, busy, ended, peer, up, down, latch>>
      BY <1>0, <1>4 DEF Shutdown, ThreadWaited
    <2>2. peer # "off" => down = <<>> /\ ~latch
      <3>1. ~(down = <<FALSE>> /\ joinLeft = 1)
        <4>1. down = <<FALSE>> => down # <<>>
          BY OneCommand, Zenon
        <4>2. joinLeft = 1 => joinLeft # 0
          OBVIOUS
        <4> QED BY <2>1, <4>1, <4>2
      <3> QED BY <1>0, <2>1, <3>1 DEF ZerosLast
    <2> QED BY <1>0, <2>1, <2>2 DEF ThreadWaited, NothingYet, ZerosLast
  <1> QED BY <1>1, <1>2, <1>3, <1>4 DEF Main

LEMMA RestEnter == ASSUME RestInv, MaxHandling < JoinTimeout, TypeOK, Enter PROVE RestInv'
  <1> SUFFICES ASSUME official PROVE (ThreadWaited /\ NothingYet /\ ZerosLast)'
    BY DEF RestInv, Enter
  <1>0. ThreadWaited /\ NothingYet /\ ZerosLast
    BY DEF RestInv, Enter
  <1>1. handling = "none" /\ ~ended /\ up # <<>> /\ phase # "init" /\ ~Over
        /\ UNCHANGED <<official, phase, asked, joinLeft, ended, peer, down, latch>>
    BY DEF Enter
  <1>2. peer # "off" /\ phase \in {"serving", "stopping"}
    BY <1>0, <1>1 DEF NothingYet, ThreadWaited, Over
  <1>3. phase = "stopping" => joinLeft = JoinTimeout
    BY <1>0, <1>1 DEF ThreadWaited
  <1>4. busy' < JoinTimeout
    BY Numbers DEF Enter
  <1>5. ThreadWaited'
    BY <1>0, <1>1, <1>2, <1>3, <1>4 DEF ThreadWaited
  <1> QED BY <1>0, <1>1, <1>2, <1>5 DEF NothingYet, ZerosLast

\* The thread that is asked to stop ends with the frame it has in hand.
LEMMA RestExit == ASSUME RestInv, Exit PROVE RestInv'
  <1> SUFFICES ASSUME official PROVE (ThreadWaited /\ NothingYet /\ ZerosLast)'
    BY DEF RestInv, Exit
  <1>0. ThreadWaited /\ NothingYet /\ ZerosLast
    BY DEF RestInv, Exit
  <1>1. handling # "none" /\ handling' = "none" /\ ~Over
        /\ UNCHANGED <<official, phase, joinLeft, busy, peer, up, latch>>
    BY DEF Exit
  <1>2. (asked => asked' /\ ended')
    BY DEF Exit, Command
  <1>3. peer # "off" /\ ~ended /\ phase \in {"serving", "stopping"}
    BY <1>0, <1>1 DEF NothingYet, ThreadWaited, Over
  <1> QED BY <1>0, <1>1, <1>2, <1>3 DEF ThreadWaited, NothingYet, ZerosLast

\* The devkit that hears the zeros stands, and hears no more.
LEMMA RestHear == ASSUME RestInv, TypeOK, Hear PROVE RestInv'
  <1> SUFFICES ASSUME official PROVE (ThreadWaited /\ NothingYet /\ ZerosLast)'
    BY DEF RestInv, Hear
  <1>0. ThreadWaited /\ NothingYet /\ ZerosLast
    BY DEF RestInv, Hear
  <1>1. peer # "off" /\ peer' # "off" /\ down # <<>> /\ latch' = Head(down) /\ down' = Tail(down)
        /\ UNCHANGED <<official, phase, asked, joinLeft, handling, busy, ended, up>>
    BY DEF Hear
  <1>2. phase # "exited"
    BY <1>0, <1>1 DEF ZerosLast
  <1>3. phase = "ending" => down' = <<>> /\ ~latch'
    <2>1. phase = "ending" => down = <<FALSE>>
      BY <1>0, <1>1 DEF ZerosLast
    <2>2. Head(<<FALSE>>) = FALSE /\ Tail(<<FALSE>>) = <<>>
      BY OneCommand, Zenon
    <2> QED BY <1>1, <2>1, <2>2
  <1> QED BY <1>0, <1>1, <1>2, <1>3 DEF ThreadWaited, NothingYet, ZerosLast

\* Time does not pass while the zeros are on their way, nor while the thread may
\* still look for the stop.
LEMMA RestTick == ASSUME RestInv, TypeOK, Tick PROVE RestInv'
  <1> SUFFICES ASSUME official PROVE (ThreadWaited /\ NothingYet /\ ZerosLast)'
    BY DEF RestInv, Tick
  <1>0. ThreadWaited /\ NothingYet /\ ZerosLast
    BY DEF RestInv, Tick
  <1>1. UNCHANGED <<official, phase, asked, handling, ended, peer, up, down, latch>>
    BY DEF Tick
  <1>2. busy' = Less(busy) /\ (phase \in {"stopping", "ending"} => joinLeft' = Less(joinLeft))
    BY DEF Tick
  <1>3. ASSUME phase = "stopping", ~ended PROVE handling # "none" /\ busy' < joinLeft'
    <2>1. asked
      BY <1>0, <1>3 DEF ThreadWaited
    <2>2. handling # "none" /\ busy # 0
      BY <1>3, <2>1 DEF Tick, Due
    <2>3. busy < joinLeft /\ busy \in Nat /\ joinLeft \in Nat
      BY <1>0, <1>3, <2>2 DEF ThreadWaited, TypeOK, ProcessTypes, HandlerTypes
    <2> QED BY <1>2, <1>3, <2>2, <2>3 DEF Less
  <1>4. ThreadWaited'
    BY <1>0, <1>1, <1>3 DEF ThreadWaited
  <1>5. phase = "ending" /\ peer # "off" => down = <<>>
    BY DEF Tick, Due
  <1>6. ZerosLast'
    <2>1. phase = "ending" /\ peer # "off" => ~latch
      BY <1>0, <1>5, OneCommand DEF ZerosLast
    <2> QED BY <1>0, <1>1, <1>5, <2>1 DEF ZerosLast
  <1> QED BY <1>0, <1>1, <1>4, <1>6 DEF NothingYet

LEMMA RestStep ==
    ASSUME RestInv, MaxHandling < JoinTimeout, TypeOK, [Next]_vars
    PROVE  RestInv'
  <1>1. CASE Signal
    <2>1. official /\ RestInv => phase' = phase
      BY <1>1 DEF Signal, RestInv, ThreadWaited
    <2>2. CASE official
      BY <1>1, <2>1, <2>2, RestElsewhere DEF Signal
    <2>3. CASE ~official
      BY <1>1, <2>3 DEF Signal, RestInv
    <2> QED BY <2>2, <2>3
  <1>2. CASE OnDrive
    BY <1>2, RestElsewhere DEF OnDrive
  <1>3. CASE Watch
    BY <1>3, RestElsewhere DEF Watch
  <1>4. CASE ThreadEnds
    BY <1>4 DEF ThreadEnds, RestInv, ThreadWaited, NothingYet, ZerosLast
  <1>5. CASE Connect
    BY <1>5 DEF Connect, RestInv, ThreadWaited, NothingYet, ZerosLast
  <1>6. CASE Send
    <2>1. peer = "sending"
          /\ UNCHANGED <<official, phase, joinLeft, asked, handling, busy, ended, down, latch>>
      BY <1>6 DEF Send
    <2>2. official => peer' # "off"
      BY <1>6 DEF Send, DevkitSend
    <2>3. CASE official
      BY <2>1, <2>2, <2>3 DEF RestInv, ThreadWaited, NothingYet, ZerosLast
    <2>4. CASE ~official
      BY <2>1, <2>4 DEF RestInv
    <2> QED BY <2>3, <2>4
  <1>7. CASE GiveUp
    BY <1>7 DEF GiveUp, RestInv, ThreadWaited, NothingYet, ZerosLast
  <1>8. CASE Disconnect
    BY <1>8, RestElsewhere DEF Disconnect
  <1>9. CASE UNCHANGED vars
    BY <1>9, RestElsewhere DEF vars
  <1> QED BY <1>1, <1>2, <1>3, <1>4, <1>5, <1>6, <1>7, <1>8, <1>9,
             RestMain, RestEnter, RestExit, RestHear, RestTick DEF Next

\* B leaves the car standing, whenever it is told to stop and whatever ends it, if
\* no frame takes longer to handle than B waits for its thread.
THEOREM DevkitLeftAtRestHolds ==
    ASSUME MaxHandling < JoinTimeout
    PROVE  Spec => []DevkitLeftAtRest
  <1>1. RestInv => DevkitLeftAtRest
    BY DEF RestInv, NothingYet, ZerosLast, DevkitLeftAtRest
  <1>2. TypeOK /\ RestInv /\ [Next]_vars => RestInv'
    BY RestStep
  <1> QED BY <1>1, <1>2, RestInit, TypeOKHolds, PTL DEF Spec

----------------------------------------------------------------------------
(* B's watch *)

\* The watch looks once in every period.
LooksEveryPeriod ==
    connected => /\ silence > StallTimeout + 1 => reported
                 /\ silence > StallTimeout /\ checked => reported

\* A frame cannot be in hand for much longer than the watch counts silence.
HandCounted ==
    handling # "none" =>
        /\ anySeen
        /\ IF connected THEN handledFor <= silence + 1
           ELSE handledFor <= 1 /\ (checked => handledFor = 0)

WatchInv ==
    official => /\ phase = "serving" => LooksEveryPeriod /\ HandCounted
                /\ phase = "init" => ~connected /\ handling = "none"
                /\ phase \notin {"bound", "listening"}

LEMMA WatchInit == ASSUME Init PROVE WatchInv
  BY DEF Init, WatchInv

\* What the watch counts and the hand, as they were.
LEMMA WatchElsewhere ==
    ASSUME WatchInv,
           UNCHANGED <<official, handling, handledFor, connected, silence, reported, checked, anySeen>>,
           phase' = phase \/ phase' \in {"stopping", "ending", "exited", "failed", "killed"}
    PROVE  WatchInv'
  BY DEF WatchInv, LooksEveryPeriod, HandCounted

LEMMA WatchStarts == ASSUME WatchInv, Start PROVE WatchInv'
  <1> SUFFICES ASSUME official PROVE WatchInv'
    BY DEF Start, WatchInv
  <1>1. phase = "init" /\ phase' \in {"serving", "ending"}
        /\ UNCHANGED <<official, handling, connected>>
    BY DEF Start, Built, WatchInv
  <1>2. ~connected /\ handling = "none"
    BY <1>1 DEF WatchInv
  <1> QED BY <1>1, <1>2 DEF WatchInv, LooksEveryPeriod, HandCounted

LEMMA WatchLooks == ASSUME WatchInv, TypeOK, Watch PROVE WatchInv'
  <1> SUFFICES ASSUME official PROVE WatchInv'
    BY DEF Watch, WatchInv
  <1>1. phase = "serving" /\ phase' = phase /\ checked' /\ ~checked
        /\ UNCHANGED <<official, handling, handledFor, anySeen>>
    BY DEF Watch, MayWatch
  <1>2. HandCounted /\ LooksEveryPeriod
    BY <1>1 DEF WatchInv
  <1>3. silence \in Nat /\ handledFor \in Nat
    BY DEF TypeOK, StallTypes, HandlerTypes
  <1>4. CASE anySeen /\ ~connected
    <2>1. connected' /\ silence' = 0
      BY <1>4 DEF Watch, Joined
    <2>2. ~(silence' > StallTimeout) /\ ~(silence' > StallTimeout + 1)
      BY <2>1, Numbers
    <2>3. handling # "none" => handledFor' <= silence' + 1
      BY <1>1, <1>2, <1>4, <2>1, <1>3 DEF HandCounted
    <2> QED BY <1>1, <1>2, <2>1, <2>2, <2>3 DEF WatchInv, LooksEveryPeriod, HandCounted
  <1>5. CASE ~(anySeen /\ ~connected)
    <2>1. reported' = (reported \/ Stalled) /\ UNCHANGED <<connected, silence>>
      BY <1>5 DEF Watch
    <2>2. connected /\ silence > StallTimeout => reported'
      BY <2>1 DEF Stalled
    <2>3. silence > StallTimeout + 1 => silence > StallTimeout
      BY <1>3, Numbers
    <2>4. handling # "none" => connected
      BY <1>2, <1>5 DEF HandCounted
    <2> QED BY <1>1, <1>2, <2>1, <2>2, <2>3, <2>4 DEF WatchInv, LooksEveryPeriod, HandCounted
  <1> QED BY <1>4, <1>5

LEMMA WatchEnter == ASSUME WatchInv, TypeOK, Enter PROVE WatchInv'
  <1>1. /\ UNCHANGED <<official, phase, connected, silence, reported, checked>>
        /\ anySeen' /\ handledFor' = 0 /\ (official => phase # "init")
    BY DEF Enter
  <1>2. handledFor' <= silence' + 1 /\ handledFor' <= 1
    BY <1>1 DEF TypeOK, StallTypes
  <1>3. HandCounted'
    BY <1>1, <1>2 DEF HandCounted
  <1>4. LooksEveryPeriod => LooksEveryPeriod'
    BY <1>1 DEF LooksEveryPeriod
  <1> QED BY <1>1, <1>3, <1>4 DEF WatchInv

LEMMA WatchExit == ASSUME WatchInv, Exit PROVE WatchInv'
  <1>1. handling' = "none" /\ silence' = 0 /\ UNCHANGED <<official, phase, connected>>
    BY DEF Exit, Rearmed
  <1>2. ~(silence' > StallTimeout) /\ ~(silence' > StallTimeout + 1)
    BY <1>1, Numbers
  <1> QED BY <1>1, <1>2 DEF WatchInv, LooksEveryPeriod, HandCounted

\* No period passes without a look.
LEMMA WatchTick == ASSUME WatchInv, TypeOK, Tick PROVE WatchInv'
  <1>1. /\ UNCHANGED <<official, phase, connected, reported, anySeen, handling>> /\ ~checked'
        /\ silence' = Capped(silence + 1)
        /\ handledFor' = IF handling = "none" THEN handledFor ELSE Capped(handledFor + 1)
    BY DEF Tick
  <1> SUFFICES ASSUME official, phase = "serving" PROVE (LooksEveryPeriod /\ HandCounted)'
    BY <1>1 DEF WatchInv
  <1>2. checked
    BY DEF Tick, Due, MayWatch
  <1>3. LooksEveryPeriod /\ HandCounted
    BY DEF WatchInv
  <1>4. silence \in 0 .. StallTimeout + 3 /\ handledFor \in 0 .. StallTimeout + 3
    BY DEF TypeOK, StallTypes, HandlerTypes
  <1>5. silence' > StallTimeout + 1 => silence > StallTimeout
    BY <1>1, <1>4, Numbers DEF Capped
  <1>6. LooksEveryPeriod'
    BY <1>1, <1>2, <1>3, <1>5 DEF LooksEveryPeriod
  <1>7. handledFor <= silence + 1 => Capped(handledFor + 1) <= Capped(silence + 1) + 1
    BY <1>4, Numbers DEF Capped
  <1>8. handledFor = 0 => Capped(handledFor + 1) <= 1
    BY Numbers DEF Capped
  <1>9. HandCounted'
    <2> SUFFICES ASSUME handling # "none"
                 PROVE  anySeen' /\ IF connected THEN handledFor' <= silence' + 1
                                    ELSE handledFor' <= 1
      BY <1>1 DEF HandCounted
    <2> QED BY <1>1, <1>2, <1>3, <1>7, <1>8 DEF HandCounted
  <1> QED BY <1>6, <1>9

LEMMA WatchStep == ASSUME WatchInv, TypeOK, [Next]_vars PROVE WatchInv'
  <1>1. CASE Stop
    BY <1>1, WatchElsewhere DEF Stop
  <1>2. CASE Join
    BY <1>2, WatchElsewhere DEF Join
  <1>3. CASE Shutdown
    <2>1. official => phase' = "exited" \/ phase' = "restored"
      BY <1>3 DEF Shutdown
    <2> QED BY <1>3, <2>1 DEF Shutdown, WatchInv
  <1>4. CASE Signal
    BY <1>4, WatchElsewhere DEF Signal
  <1>5. CASE OnDrive
    BY <1>5, WatchElsewhere DEF OnDrive
  <1>6. CASE ThreadEnds
    BY <1>6, WatchElsewhere DEF ThreadEnds
  <1>7. CASE Connect
    <2>1. CASE official
      BY <1>7, <2>1, WatchElsewhere DEF Connect
    <2>2. CASE ~official
      BY <1>7, <2>2 DEF Connect, WatchInv
    <2> QED BY <2>1, <2>2
  <1>8. CASE Send
    BY <1>8, WatchElsewhere DEF Send
  <1>9. CASE Hear
    BY <1>9, WatchElsewhere DEF Hear
  <1>10. CASE GiveUp
    BY <1>10, WatchElsewhere DEF GiveUp
  <1>11. CASE Disconnect
    BY <1>11 DEF Disconnect, WatchInv
  <1>12. CASE UNCHANGED vars
    BY <1>12, WatchElsewhere DEF vars
  <1> QED BY <1>1, <1>2, <1>3, <1>4, <1>5, <1>6, <1>7, <1>8, <1>9, <1>10, <1>11, <1>12,
             WatchStarts, WatchLooks, WatchEnter, WatchExit, WatchTick DEF Next, Main

\* B says of a frame that it has had in hand for longer than the timeout that the
\* thread is stuck, for every timeout, and however long the frame takes.
THEOREM StuckIsReportedHolds == Spec => []StuckIsReported
  <1>1. WatchInv /\ TypeOK => StuckIsReported
    <2> SUFFICES ASSUME WatchInv, TypeOK, official, phase = "serving", connected,
                        handledFor > StallTimeout + 2, handling # "none"
                 PROVE  reported
      BY DEF StuckIsReported
    <2>1. LooksEveryPeriod /\ HandCounted
      BY DEF WatchInv
    <2>2. handledFor <= silence + 1
      BY <2>1 DEF HandCounted
    <2>3. silence > StallTimeout + 1
      BY <2>2, Numbers DEF TypeOK, StallTypes, HandlerTypes
    <2> QED BY <2>1, <2>3 DEF LooksEveryPeriod
  <1>2. TypeOK /\ WatchInv /\ [Next]_vars => WatchInv'
    BY WatchStep
  <1> QED BY <1>1, <1>2, WatchInit, TypeOKHolds, PTL DEF Spec

(***************************************************************************)
(* The devkit's assembler: what it gives are the frames of a channel that   *)
(* pairs nothing across frames, and every frame from the sync on is given,  *)
(* dropped and counted once, or still waits.                                *)
(***************************************************************************)

----------------------------------------------------------------------------
(* Numbers *)

LEMMA SmallestSubset ==
    ASSUME NEW S, IsFiniteSet(S), NEW T \in SUBSET (SUBSET S), T # {}
    PROVE  \E m \in T : \A u \in T : u \subseteq m => u = m
  <1>1. IsWellFoundedOn(StrictSubsetOrdering(S), SUBSET S)
    BY FS_StrictSubsetOrderingWellFounded, FS_FiniteSubsetsOfFinite
  <1>2. PICK m \in T : \A u \in T : ~ (<<u, m>> \in StrictSubsetOrdering(S))
    BY <1>1, WFMin
  <1>3. ASSUME NEW u \in T, u \subseteq m, u # m PROVE FALSE
    <2>1. <<u, m>> \in StrictSubsetOrdering(S)
      BY <1>3 DEF StrictSubsetOrdering
    <2> QED BY <1>2, <2>1
  <1> QED BY <1>3

\* A number that is bounded is at its greatest somewhere.
LEMMA LargestNumber ==
    ASSUME NEW n \in Nat, NEW S \in SUBSET (0 .. n), S # {}
    PROVE  \E x \in S : \A y \in S : y <= x
  <1> DEFINE all == 0 .. n
             above == {x + 1 .. n : x \in S}
  <1>1. above \in SUBSET (SUBSET all) /\ above # {}
    <2>1. \A x \in S : x + 1 .. n \in SUBSET all
      OBVIOUS
    <2> HIDE DEF all
    <2> QED BY <2>1
  <1>2. IsFiniteSet(all)
    BY FS_Interval
  <1>3. PICK m \in above : \A u \in above : u \subseteq m => u = m
    <2> HIDE DEF above, all
    <2> QED BY <1>1, <1>2, SmallestSubset
  <1>4. PICK x \in S : m = x + 1 .. n
    BY <1>3
  <1>5. ASSUME NEW y \in S, x < y PROVE FALSE
    <2>1. y + 1 .. n \in above /\ y + 1 .. n \subseteq m
      BY <1>4, <1>5
    <2>2. y \in m /\ y \notin y + 1 .. n
      BY <1>4, <1>5
    <2> HIDE DEF above
    <2> QED BY <1>3, <2>1, <2>2
  <1> QED BY <1>5

\* Of some numbers one is the least.
LEMMA SmallestNumber ==
    ASSUME NEW S \in SUBSET Nat, S # {}
    PROVE  \E x \in S : \A y \in S : x <= y
  <1>1. PICK n \in S : TRUE
    OBVIOUS
  <1> DEFINE below == {n - x : x \in {y \in S : y <= n}}
  <1>2. n \in Nat /\ below \in SUBSET (0 .. n) /\ below # {}
    <2>1. n \in Nat /\ n \in {y \in S : y <= n}
      OBVIOUS
    <2>2. \A x \in {y \in S : y <= n} : n - x \in 0 .. n
      OBVIOUS
    <2> DEFINE all == 0 .. n
               least == {y \in S : y <= n}
    <2> HIDE DEF all, least
    <2>3. below \in SUBSET all /\ below # {}
      BY <2>1, <2>2 DEF all, least
    <2> QED BY <2>1, <2>3 DEF all
  <1>3. PICK d \in below : \A e \in below : e <= d
    <2> HIDE DEF below
    <2> QED BY <1>2, LargestNumber
  <1>4. PICK x \in S : x <= n /\ d = n - x
    BY <1>3
  <1>5. ASSUME NEW y \in S, y < x PROVE FALSE
    <2>1. n - y \in below /\ n - y > d
      BY <1>4, <1>5
    <2> HIDE DEF below
    <2> QED BY <1>2, <1>3, <2>1
  <1> QED BY <1>5

LEMMA LeastIs ==
    ASSUME NEW S \in SUBSET Nat, S # {}
    PROVE  Least(S) \in S /\ \A y \in S : Least(S) <= y
  BY SmallestNumber DEF Least

LEMMA GreatestIs ==
    ASSUME NEW S \in SUBSET Int, S # {}, NEW n \in Int, \A y \in S : y <= n
    PROVE  Greatest(S) \in S /\ \A y \in S : y <= Greatest(S)
  <1> DEFINE below == {n - y : y \in S}
  <1>1. below \in SUBSET Nat /\ below # {}
    <2>1. \A y \in S : n - y \in Nat
      OBVIOUS
    <2>2. below # {}
      OBVIOUS
    <2> QED BY <2>1, <2>2
  <1> HIDE DEF below
  <1>2. PICK d \in below : \A e \in below : d <= e
    BY <1>1, SmallestNumber
  <1>3. PICK x \in S : d = n - x
    BY <1>2 DEF below
  <1>4. ASSUME NEW y \in S PROVE y <= x
    <2>1. n - y \in below
      BY DEF below
    <2>2. d <= n - y
      BY <1>2, <2>1
    <2> QED BY <1>3, <2>2
  <1> QED BY <1>3, <1>4 DEF Greatest

LEMMA LeastInt ==
    ASSUME NEW S \in SUBSET Int, S # {}, NEW n \in Int, \A y \in S : n <= y
    PROVE  \E x \in S : \A y \in S : x <= y
  <1> DEFINE above == {y - n : y \in S}
  <1>1. above \in SUBSET Nat /\ above # {}
    <2>1. \A y \in S : y - n \in Nat
      OBVIOUS
    <2>2. above # {}
      OBVIOUS
    <2> QED BY <2>1, <2>2
  <1> HIDE DEF above
  <1>2. PICK d \in above : \A e \in above : d <= e
    BY <1>1, SmallestNumber
  <1>3. PICK x \in S : d = x - n
    BY <1>2 DEF above
  <1>4. ASSUME NEW y \in S PROVE x <= y
    <2>1. y - n \in above
      BY DEF above
    <2>2. d <= y - n
      BY <1>2, <2>1
    <2> QED BY <1>3, <2>2
  <1> QED BY <1>4

\* How many of a set come no later than this one.
Rank(S, f) == Cardinality({g \in S : g <= f})

LEMMA RankIs ==
    ASSUME NEW lo \in Int, NEW hi \in Int, NEW S \in SUBSET Int, IsFiniteSet(S),
           \A y \in S : lo <= y /\ y <= hi, NEW i \in 1 .. Cardinality(S)
    PROVE  \E f \in S : Rank(S, f) = i
  <1> DEFINE T == {f \in S : Rank(S, f) >= i}
  <1>0. /\ S \in SUBSET Int /\ IsFiniteSet(S) /\ Cardinality(S) \in Nat
        /\ \A U \in SUBSET S : IsFiniteSet(U) /\ Cardinality(U) \in Nat
    BY FS_Subset, FS_CardinalityType
  <1>a. \A y \in S : y \in Int /\ lo <= y /\ y <= hi
    OBVIOUS
  <1>1. \A f \in S : Rank(S, f) \in Nat
    <2>1. \A f \in S : {g \in S : g <= f} \in SUBSET S
      OBVIOUS
    <2> QED BY <1>0, <2>1 DEF Rank
  <1>2. T # {}
    <2>1. S # {}
      BY <1>0, FS_EmptySet
    <2>2. Greatest(S) \in S /\ \A y \in S : y <= Greatest(S)
      <3>1. \A y \in S : y <= hi
        OBVIOUS
      <3> QED BY <1>0, <2>1, <3>1, GreatestIs
    <2>3. {g \in S : g <= Greatest(S)} = S
      BY <2>2
    <2> QED BY <2>2, <2>3 DEF Rank
  <1>3. T \in SUBSET Int /\ \A y \in T : lo <= y
    BY <1>0, <1>a
  <1> HIDE DEF T
  <1>4. PICK f \in T : \A y \in T : f <= y
    BY <1>2, <1>3, LeastInt
  <1>5. f \in S /\ f \in Int /\ Rank(S, f) >= i
    BY <1>0 DEF T
  <1> DEFINE less == {g \in S : g < f}
  <1>6. less \in SUBSET S /\ f \notin less /\ {g \in S : g <= f} = less \cup {f}
    <2>1. f \in S /\ f \in Int
      BY <1>5
    <2>2. \A g \in S : g \in Int
      OBVIOUS
    <2>3. \A g \in S : (g <= f <=> g < f \/ g = f) /\ ~(f < f)
      BY <2>1, <2>2
    <2> QED BY <2>1, <2>3
  <1>7. IsFiniteSet(less) /\ Cardinality(less) \in Nat
    BY <1>0, <1>6
  <1>8. Rank(S, f) = Cardinality(less) + 1
    BY <1>6, <1>7, FS_AddElement DEF Rank
  <1>9. Cardinality(less) < i
    <2>1. CASE less = {}
      BY <2>1, FS_EmptySet
    <2>2. CASE less # {}
      <3>1. Greatest(less) \in less /\ \A y \in less : y <= Greatest(less)
        <4>0. f \in Int /\ \A g \in S : g < f => g <= f
          BY <1>5
        <4>1. less \in SUBSET Int /\ \A y \in less : y <= f
          BY <4>0
        <4> HIDE DEF less
        <4> QED BY <4>1, <1>5, <2>2, GreatestIs
      <3>0. Greatest(less) \in S /\ Greatest(less) < f
        BY <3>1
      <3>2. Greatest(less) \notin T
        <4> DEFINE x == Greatest(less)
        <4> HIDE DEF x, less
        <4>1. x \in Int /\ f \in Int /\ x < f
          BY <3>0, <1>5 DEF x
        <4>2. ~(f <= x)
          BY <4>1
        <4> QED BY <4>2, <1>4 DEF x
      <3>3. {g \in S : g <= Greatest(less)} = less
        <4>1. \A g \in S : g <= Greatest(less) => g < f
          <5> DEFINE x == Greatest(less)
          <5>1. x < f /\ x \in Int /\ f \in Int
            BY <3>0, <1>5
          <5> HIDE DEF x
          <5> QED BY <5>1 DEF x
        <4>2. \A g \in S : g < f => g <= Greatest(less)
          BY <3>1
        <4> QED BY <4>1, <4>2
      <3>4. Rank(S, Greatest(less)) = Cardinality(less)
        BY <3>3 DEF Rank
      <3>5. Greatest(less) \in S
        BY <3>1
      <3> HIDE DEF less
      <3> QED BY <3>2, <3>4, <3>5, <1>7 DEF T
    <2> QED BY <2>1, <2>2
  <1> HIDE DEF less
  <1> QED BY <1>5, <1>7, <1>8, <1>9

\* A later one has a higher rank.
LEMMA RankGrows ==
    ASSUME NEW S \in SUBSET Int, IsFiniteSet(S),
           NEW f \in S, NEW g \in S, f <= g
    PROVE  Rank(S, f) <= Rank(S, g)
  <1> DEFINE low == {h \in S : h <= f}
             high == {h \in S : h <= g}
  <1>1. \A y \in S : y <= f => y <= g
    OBVIOUS
  <1>2. low \subseteq high /\ high \subseteq S
    BY <1>1
  <1> HIDE DEF low, high
  <1>3. Cardinality(low) <= Cardinality(high)
    BY <1>2, FS_Subset
  <1> QED BY <1>3 DEF Rank, low, high

LEMMA Spread ==
    ASSUME NEW p \in Nat, NEW m \in Nat, NEW n \in Nat, m < n
    PROVE  m * p + p <= n * p /\ m * p \in Nat /\ n * p \in Nat
  OBVIOUS

----------------------------------------------------------------------------
(* Topics, sequences and stamps *)

LEMMA TopicFacts ==
    /\ Topics \in Seq(Topic) /\ Topic # {} /\ First \in Topic /\ Lidar \in Topic
    /\ Len(Topics) \in Nat \ {0} /\ DOMAIN Topics = 1 .. Len(Topics)
    /\ \A topic \in Topic :
          /\ Position(topic) \in 1 .. Len(Topics)
          /\ Position(topic) = 1 => topic = First
    /\ Position(First) = 1
    /\ IsFiniteSet(Topic)
  <1>1. Topics \in Seq(Topic) /\ Topics # <<>> /\ Lidar \in Topic
        /\ \A i, j \in DOMAIN Topics : Topics[i] = Topics[j] => i = j
    BY AssemblerAssumption
  <1>2. Len(Topics) \in Nat \ {0} /\ DOMAIN Topics = 1 .. Len(Topics)
    BY <1>1
  <1>3. First \in Topic
    BY <1>2 DEF First, Topic
  <1>4. \A topic \in Topic : Position(topic) \in DOMAIN Topics /\ Topics[Position(topic)] = topic
    BY DEF Topic, Position
  <1>5. Position(First) = 1
    BY <1>1, <1>2, <1>3, <1>4 DEF First
  <1>6. IsFiniteSet(Topic)
    <2>1. IsFiniteSet(1 .. Len(Topics))
      BY <1>2, FS_Interval
    <2>2. Topics \in Surjection(1 .. Len(Topics), Topic)
      BY <1>1, <1>2 DEF Surjection, Topic
    <2> QED BY <2>1, <2>2, FS_Surjection
  <1> QED BY <1>1, <1>2, <1>3, <1>4, <1>5, <1>6 DEF First

\* The burst is of a devkit that started again.
Anew(burst) == restart > 0 /\ burst >= restart

LEMMA SequenceIs ==
    ASSUME restart \in Nat, NEW topic \in Topic, NEW burst \in Nat \ {0}
    PROVE  /\ Sequence(topic, burst) \in Nat \ {0}
           /\ Anew(burst) => Sequence(topic, burst) = burst - restart + 1
           /\ ~Anew(burst) => Sequence(topic, burst) = burst + Shift[topic]
  BY AssemblerAssumption DEF Sequence, Anew

LEMMA SequenceSteps ==
    ASSUME restart \in Nat, NEW topic \in Topic,
           NEW b \in Nat \ {0}, NEW c \in Nat \ {0}, Anew(b) <=> Anew(c)
    PROVE  Sequence(topic, c) - Sequence(topic, b) = c - b
  BY AssemblerAssumption DEF Sequence, Anew

LEMMA AtIs ==
    ASSUME stalled \in SUBSET (1 .. Bursts), NEW topic \in Topic, NEW burst \in Nat
    PROVE  At(topic, burst) \in Nat
  <1> DEFINE before == {s \in stalled : s < burst \/ (s = burst /\ topic = Topics[Len(Topics)])}
  <1>1. IsFiniteSet(before) /\ Cardinality(before) \in Nat
    <2>1. IsFiniteSet(1 .. Bursts)
      BY AssemblerAssumption, FS_Interval
    <2>2. before \subseteq 1 .. Bursts
      OBVIOUS
    <2> HIDE DEF before
    <2> QED BY <2>1, <2>2, FS_Subset, FS_CardinalityType
  <1>2. Skew \in Nat /\ Period \in Nat
    BY TopicFacts DEF Skew, Period
  <1>3. At(topic, burst) = burst * Period + Position(topic) + Cardinality(before) * (Skew + 1)
    BY DEF At
  <1> HIDE DEF before
  <1>4. burst * Period \in Nat /\ Cardinality(before) * (Skew + 1) \in Nat
    BY <1>1, <1>2
  <1> DEFINE u == burst * Period v == Cardinality(before) * (Skew + 1) w == Position(topic)
  <1>5. u \in Nat /\ v \in Nat /\ w \in Nat /\ At(topic, burst) = u + w + v
    BY <1>3, <1>4, TopicFacts
  <1> HIDE DEF u, v, w
  <1> QED BY <1>5

\* The stamps of a burst are all before those of the next.
LEMMA AtOrder ==
    ASSUME stalled \in SUBSET (1 .. Bursts), NEW topic \in Topic, NEW other \in Topic,
           NEW b \in Nat, NEW c \in Nat, b < c
    PROVE  At(topic, b) < At(other, c)
  <1> DEFINE early == {s \in stalled : s < b \/ (s = b /\ topic = Topics[Len(Topics)])}
             late == {s \in stalled : s < c \/ (s = c /\ other = Topics[Len(Topics)])}
  <1>1. IsFiniteSet(late) /\ early \subseteq late
    <2>1. IsFiniteSet(1 .. Bursts)
      BY AssemblerAssumption, FS_Interval
    <2>2. late \subseteq 1 .. Bursts
      OBVIOUS
    <2>3. ASSUME NEW s \in stalled, s < b \/ s = b PROVE s < c
      BY <2>3, AssemblerAssumption
    <2>4. early \subseteq late
      BY <2>3
    <2> HIDE DEF early, late
    <2> QED BY <2>1, <2>2, <2>4, FS_Subset
  <1>2. At(topic, b) = b * Period + Position(topic) + Cardinality(early) * (Skew + 1)
        /\ At(other, c) = c * Period + Position(other) + Cardinality(late) * (Skew + 1)
    BY DEF At
  <1> HIDE DEF early, late
  <1>3. Cardinality(early) \in Nat /\ Cardinality(late) \in Nat
        /\ Cardinality(early) <= Cardinality(late)
    BY <1>1, FS_Subset, FS_CardinalityType
  <1>4. Skew + 1 \in Nat /\ Period \in Nat /\ Period = Len(Topics) + 1
    BY TopicFacts DEF Skew, Period
  <1>5. Cardinality(early) * (Skew + 1) <= Cardinality(late) * (Skew + 1)
        /\ Cardinality(early) * (Skew + 1) \in Nat /\ Cardinality(late) * (Skew + 1) \in Nat
    <2> DEFINE k == Skew + 1 m == Cardinality(early) n == Cardinality(late)
    <2> HIDE DEF k, m, n
    <2>1. k \in Nat /\ m \in Nat /\ n \in Nat /\ m <= n
      BY <1>3, <1>4 DEF k, m, n
    <2>2. m * k <= n * k /\ m * k \in Nat /\ n * k \in Nat
      BY <2>1, Spread
    <2> QED BY <2>2 DEF k, m, n
  <1>6. b * Period + Period <= c * Period /\ b * Period \in Nat /\ c * Period \in Nat
    BY <1>4, Spread
  <1>7. Position(topic) \in 1 .. Len(Topics) /\ Position(other) \in 1 .. Len(Topics)
        /\ Len(Topics) \in Nat
    BY TopicFacts
  <1> QED BY <1>2, <1>4, <1>5, <1>6, <1>7

\* The first topic's stamp is the least of its burst.
LEMMA AtFirst ==
    ASSUME stalled \in SUBSET (1 .. Bursts), NEW topic \in Topic, NEW b \in Nat
    PROVE  At(First, b) <= At(topic, b)
  <1> DEFINE early == {s \in stalled : s < b \/ (s = b /\ First = Topics[Len(Topics)])}
             late == {s \in stalled : s < b \/ (s = b /\ topic = Topics[Len(Topics)])}
  <1>1. CASE topic = First
    BY <1>1, AtIs
  <1>2. CASE topic # First
    <2>0. First # Topics[Len(Topics)]
      <3>1. Len(Topics) # 1
        BY <1>2, TopicFacts
      <3>2. Len(Topics) \in DOMAIN Topics /\ 1 \in DOMAIN Topics
        BY TopicFacts
      <3> QED BY <3>1, <3>2, AssemblerAssumption DEF First
    <2>1. IsFiniteSet(late) /\ early \subseteq late
      <3>1. IsFiniteSet(1 .. Bursts)
        BY AssemblerAssumption, FS_Interval
      <3>2. late \subseteq 1 .. Bursts
        OBVIOUS
      <3>3. early \subseteq late
        BY <2>0
      <3> HIDE DEF early, late
      <3> QED BY <3>1, <3>2, <3>3, FS_Subset
    <2>2. At(First, b) = b * Period + Position(First) + Cardinality(early) * (Skew + 1)
          /\ At(topic, b) = b * Period + Position(topic) + Cardinality(late) * (Skew + 1)
      BY DEF At
    <2> HIDE DEF early, late
    <2>3. Cardinality(early) \in Nat /\ Cardinality(late) \in Nat
          /\ Cardinality(early) <= Cardinality(late)
      BY <2>1, FS_Subset, FS_CardinalityType
    <2>4. Skew + 1 \in Nat /\ Period \in Nat
      BY TopicFacts DEF Skew, Period
    <2>5. Cardinality(early) * (Skew + 1) <= Cardinality(late) * (Skew + 1)
          /\ Cardinality(early) * (Skew + 1) \in Nat /\ Cardinality(late) * (Skew + 1) \in Nat
      <3> DEFINE k == Skew + 1 m == Cardinality(early) n == Cardinality(late)
      <3> HIDE DEF k, m, n
      <3>1. k \in Nat /\ m \in Nat /\ n \in Nat /\ m <= n
        BY <2>3, <2>4 DEF k, m, n
      <3>2. m * k <= n * k /\ m * k \in Nat /\ n * k \in Nat
        BY <3>1, Spread
      <3> QED BY <3>2 DEF k, m, n
    <2>6. b * Period \in Nat
      BY <2>4
    <2> QED BY <2>2, <2>5, <2>6, TopicFacts
  <1> QED BY <1>1, <1>2

\* So a stamp tells whether a message is of an earlier burst.
LEMMA AtTells ==
    ASSUME stalled \in SUBSET (1 .. Bursts), NEW topic \in Topic, NEW b \in Nat, NEW c \in Nat
    PROVE  At(topic, b) >= At(First, c) <=> b >= c
  <1>1. First \in Topic /\ At(topic, b) \in Nat /\ At(First, c) \in Nat /\ At(First, b) \in Nat
    BY AtIs, TopicFacts
  <1>2. CASE b = c
    BY <1>1, <1>2, AtFirst
  <1>3. CASE b < c
    BY <1>1, <1>3, AtOrder
  <1>4. CASE c < b
    BY <1>1, <1>4, AtOrder
  <1> QED BY <1>2, <1>3, <1>4

----------------------------------------------------------------------------
(* What is sound in the assembler's state, where n is the burst of each topic's *)
(* next message and low is one that was given before.                        *)

AssemblerRecords ==
    [synced : BOOLEAN, offsets : [Topic -> Int] \cup {NoOffsets},
     candidate : [Topic -> Int] \cup {NoOffsets}, pending : [Topic -> Seq(1 .. Bursts)],
     frames : SUBSET (Topic \X (1 .. Bursts)), dead : SUBSET Int, last : [Topic -> Nat],
     dropped : Nat, base : Int, out : Seq([Topic -> 1 .. Bursts])]

Devkit(n, low) ==
    /\ restart \in 0 .. Bursts /\ stalled \in SUBSET (1 .. Bursts)
    /\ n \in [Topic -> 1 .. Bursts + 1]
    /\ low \in 0 .. Bursts /\ \A topic \in Topic : low < n[topic]

\* A topic has come to the devkit that started again.
Renewed(topic, n) == restart > 0 /\ n[topic] > restart

Holds(a, topic, burst) ==
    \/ <<topic, burst>> \in a.frames
    \/ \E i \in 1 .. Len(a.pending[topic]) : a.pending[topic][i] = burst

\* It learns or it is in sync.
PhaseSound(a) ==
    /\ a.synced => a.offsets # NoOffsets /\ a.candidate = NoOffsets
                    /\ \A topic \in Topic : a.pending[topic] = <<>>
    /\ ~a.synced => a.offsets = NoOffsets /\ a.frames = {} /\ a.dead = {}

\* A queue is in order, and that of the first topic has no gap.
QueuesSound(a, n) ==
    /\ \A topic \in Topic : \A i, j \in 1 .. Len(a.pending[topic]) :
          i < j => a.pending[topic][i] < a.pending[topic][j]
    /\ \A i \in 1 .. Len(a.pending[First]) :
          a.pending[First][i] = n[First] - 1 - Len(a.pending[First]) + i

\* What it holds has come, is later than what it gave, and is of one devkit.
HeldSound(a, n, low) ==
    \A topic \in Topic, burst \in 1 .. Bursts :
        Holds(a, topic, burst) =>
            /\ low < burst /\ burst < n[topic]
            /\ Renewed(topic, n) => Anew(burst)
            /\ a.last[topic] > 0
            /\ \A i \in 1 .. Len(a.out) : a.out[i][First] < burst

\* The last sequence is that of a message of the devkit that a topic has come to.
NumbersSound(a, n) ==
    \A topic \in Topic :
        \/ a.last[topic] = 0
        \/ \E burst \in 1 .. Bursts :
              /\ burst < n[topic] /\ a.last[topic] = Sequence(topic, burst)
              /\ Renewed(topic, n) => Anew(burst)

\* The offsets are those of a whole burst of the devkit all topics have come to.
TrueOffsets(o, n) ==
    \E x \in 1 .. Bursts :
        /\ o = OffsetsOf(Whole(x))
        /\ \A topic \in Topic : Renewed(topic, n) <=> Anew(x)

OffsetsSound(a, n) ==
    \A o \in {a.offsets, a.candidate} :
        o # NoOffsets => TrueOffsets(o, n) /\ \A topic \in Topic : a.last[topic] > 0

\* What it gives are whole frames in their order.
OutSound(a, n, low) ==
    /\ \A i \in 1 .. Len(a.out) :
          /\ a.out[i] = Whole(a.out[i][First])
          /\ low < a.out[i][First]
          /\ \A topic \in Topic : a.out[i][First] < n[topic]
    /\ \A i, j \in 1 .. Len(a.out) : i < j => a.out[i][First] < a.out[j][First]

Sound(a, n, low) ==
    /\ a \in AssemblerRecords /\ Devkit(n, low) /\ PhaseSound(a) /\ QueuesSound(a, n)
    /\ HeldSound(a, n, low) /\ NumbersSound(a, n) /\ OffsetsSound(a, n) /\ OutSound(a, n, low)

\* A message that is held is of the devkit its topic has come to.
LEMMA HeldIsOf ==
    ASSUME NEW a, NEW n, NEW low, Sound(a, n, low), NEW topic \in Topic,
           NEW burst \in 1 .. Bursts, Holds(a, topic, burst)
    PROVE  Renewed(topic, n) <=> Anew(burst)
  <1>1. burst < n[topic] /\ n[topic] \in Nat /\ restart \in Nat /\ (Renewed(topic, n) => Anew(burst))
    BY DEF Sound, HeldSound, Devkit
  <1> QED BY <1>1 DEF Renewed, Anew

LEMMA ResyncSound ==
    ASSUME NEW a, NEW n, NEW low, Sound(a, n, low)
    PROVE  Sound(Resync(a), n, low) /\ ~Resync(a).synced
           /\ Resync(a).pending = [topic \in Topic |-> <<>>] /\ Resync(a).out = a.out
  <1> DEFINE b == Resync(a)
  <1>0. a \in AssemblerRecords
    BY DEF Sound
  <1>1. /\ b.synced = FALSE /\ b.offsets = NoOffsets /\ b.candidate = NoOffsets
        /\ b.pending = [topic \in Topic |-> <<>>] /\ b.frames = {} /\ b.dead = {}
        /\ b.last = [topic \in Topic |-> 0] /\ b.out = a.out
        /\ b.dropped = a.dropped /\ b.base = a.base
    BY <1>0 DEF Resync, AssemblerRecords
  <1>d. b \in AssemblerRecords
    <2> DEFINE p == [topic \in Topic |-> <<>>]
               l == [topic \in Topic |-> 0]
    <2>1. p \in [Topic -> Seq(1 .. Bursts)] /\ l \in [Topic -> Nat]
      OBVIOUS
    <2>2. b = [a EXCEPT !.synced = FALSE, !.offsets = NoOffsets, !.candidate = NoOffsets,
                        !.pending = p, !.frames = {}, !.dead = {}, !.last = l]
      BY DEF Resync
    <2> HIDE DEF p, l, b
    <2> QED BY <1>0, <2>1, <2>2 DEF AssemblerRecords
  <1> HIDE DEF b
  <1>2. \A topic \in Topic : b.pending[topic] = <<>> /\ Len(b.pending[topic]) = 0 /\ b.last[topic] = 0
    BY <1>1
  <1>3. PhaseSound(b)
    BY <1>1 DEF PhaseSound
  <1>4. QueuesSound(b, n)
    <2>1. \A i \in 1 .. 0 : FALSE
      OBVIOUS
    <2> QED BY <1>2, <2>1, TopicFacts DEF QueuesSound
  <1>5. HeldSound(b, n, low)
    BY <1>1, <1>2 DEF HeldSound, Holds
  <1>6. NumbersSound(b, n) /\ OffsetsSound(b, n)
    BY <1>1, <1>2 DEF NumbersSound, OffsetsSound
  <1>7. OutSound(b, n, low)
    BY <1>1 DEF Sound, OutSound
  <1>8. Devkit(n, low)
    BY DEF Sound
  <1>9. Sound(b, n, low)
    BY <1>d, <1>3, <1>4, <1>5, <1>6, <1>7, <1>8 DEF Sound
  <1> QED BY <1>9, <1>1 DEF b

----------------------------------------------------------------------------
(* Complete frames leave *)

LEMMA WholeIs ==
    ASSUME NEW b \in 1 .. Bursts
    PROVE  Whole(b) \in [Topic -> 1 .. Bursts] /\ \A topic \in Topic : Whole(b)[topic] = b
  BY DEF Whole

LEMMA InOrderIs ==
    ASSUME NEW a, NEW S \in SUBSET Int, IsFiniteSet(S), NEW lo \in Int, NEW hi \in Int,
           \A f \in S : lo <= f /\ f <= hi, NEW k \in Int,
           \A f \in S : Parts(a, f) = Whole(f - k) /\ f - k \in 1 .. Bursts
    PROVE  /\ InOrder(a, S) \in Seq([Topic -> 1 .. Bursts])
           /\ \A i \in 1 .. Len(InOrder(a, S)) : \E f \in S : InOrder(a, S)[i] = Whole(f - k)
           /\ \A i, j \in 1 .. Len(InOrder(a, S)) :
                 i < j => InOrder(a, S)[i][First] < InOrder(a, S)[j][First]
           /\ Len(InOrder(a, S)) = Cardinality(S)
  <1> DEFINE n == Cardinality(S)
             At2(i) == CHOOSE f \in S : Rank(S, f) = i
  <1>1. n \in Nat
    BY FS_CardinalityType
  <1>2. \A i \in 1 .. n : At2(i) \in S /\ Rank(S, At2(i)) = i
    BY RankIs
  <1>3. InOrder(a, S) = [i \in 1 .. n |-> Parts(a, At2(i))]
    BY DEF InOrder, Rank
  <1> HIDE DEF n, At2
  <1>4. \A i \in 1 .. n : Parts(a, At2(i)) = Whole(At2(i) - k) /\ At2(i) - k \in 1 .. Bursts
    BY <1>2
  <1>5. \A i \in 1 .. n : Parts(a, At2(i)) \in [Topic -> 1 .. Bursts]
    BY <1>4, WholeIs
  <1>6. /\ InOrder(a, S) \in Seq([Topic -> 1 .. Bursts]) /\ Len(InOrder(a, S)) = n
        /\ \A i \in 1 .. n : InOrder(a, S)[i] = Parts(a, At2(i))
    BY <1>1, <1>3, <1>5
  <1>7. ASSUME NEW i \in 1 .. n, NEW j \in 1 .. n, i < j
        PROVE  InOrder(a, S)[i][First] < InOrder(a, S)[j][First]
    <2>1. At2(i) \in S /\ At2(j) \in S /\ At2(i) \in Int /\ At2(j) \in Int
      BY <1>2
    <2>2. ~(At2(j) <= At2(i))
      <3>1. SUFFICES ASSUME At2(j) <= At2(i) PROVE FALSE
        OBVIOUS
      <3>2. Rank(S, At2(j)) <= Rank(S, At2(i))
        BY <2>1, <3>1, RankGrows
      <3> QED BY <3>2, <1>2, <1>7
    <2>3. InOrder(a, S)[i][First] = At2(i) - k /\ InOrder(a, S)[j][First] = At2(j) - k
      BY <1>4, <1>6, WholeIs, TopicFacts
    <2> QED BY <2>1, <2>2, <2>3
  <1> QED BY <1>2, <1>4, <1>6, <1>7 DEF n

\* In sync, the frame of a message is its burst, but for a number that is the same
\* for all.
LEMMA FramesAreBursts ==
    ASSUME NEW a, NEW n, NEW low, Sound(a, n, low), a.synced
    PROVE  \E k \in Int : \A message \in a.frames :
              /\ message[1] \in Topic /\ message[2] \in 1 .. Bursts
              /\ message = <<message[1], message[2]>>
              /\ FrameOf(a, message) = message[2] + k
              /\ Holds(a, message[1], message[2])
  <1>1. PICK x \in 1 .. Bursts :
            /\ a.offsets = OffsetsOf(Whole(x))
            /\ \A topic \in Topic : Renewed(topic, n) <=> Anew(x)
    BY DEF Sound, PhaseSound, OffsetsSound, TrueOffsets
  <1>2. restart \in Nat /\ Lidar \in Topic /\ Bursts \in Nat
    BY TopicFacts, AssemblerAssumption DEF Sound, Devkit
  <1>3. \A topic \in Topic : /\ a.offsets[topic] = Sequence(topic, x) - Sequence(Lidar, x)
                              /\ Sequence(topic, x) \in Nat
    BY <1>1, <1>2, SequenceIs DEF OffsetsOf, Whole
  <1> DEFINE k == Sequence(Lidar, x) - x
  <1>4. k \in Int
    BY <1>2, <1>3
  <1>5. ASSUME NEW message \in a.frames
        PROVE  /\ message[1] \in Topic /\ message[2] \in 1 .. Bursts
               /\ message = <<message[1], message[2]>>
               /\ FrameOf(a, message) = message[2] + k
               /\ Holds(a, message[1], message[2])
    <2>1. message \in Topic \X (1 .. Bursts)
      BY DEF Sound, AssemblerRecords
    <2> DEFINE topic == message[1] burst == message[2]
    <2>2. topic \in Topic /\ burst \in 1 .. Bursts /\ message = <<topic, burst>>
      BY <2>1
    <2>3. Holds(a, topic, burst)
      BY <2>2 DEF Holds
    <2> HIDE DEF topic, burst
    <2>4. Anew(burst) <=> Anew(x)
      BY <1>1, <2>2, <2>3, HeldIsOf
    <2>5. Sequence(topic, burst) - Sequence(topic, x) = burst - x
      BY <1>2, <2>2, <2>4, SequenceSteps
    <2>6. Sequence(topic, burst) \in Nat
      BY <1>2, <2>2, SequenceIs
    <2>7. FrameOf(a, message) = Sequence(topic, burst) - a.offsets[topic]
      BY DEF FrameOf, topic, burst
    <2>8. FrameOf(a, message) = burst + k
      BY <1>2, <1>3, <2>2, <2>5, <2>6, <2>7
    <2> QED BY <2>2, <2>3, <2>8 DEF topic, burst
  <1> HIDE DEF k
  <1> QED BY <1>4, <1>5

LEMMA MessagesFinite ==
    ASSUME NEW F \in SUBSET (Topic \X (1 .. Bursts))
    PROVE  IsFiniteSet(F)
  <1>1. IsFiniteSet(Topic) /\ IsFiniteSet(1 .. Bursts)
    BY TopicFacts, AssemblerAssumption, FS_Interval
  <1>2. IsFiniteSet(Topic \X (1 .. Bursts))
    BY <1>1, FS_Product
  <1> QED BY <1>2, FS_Subset

\* The frames that leave when complete ones do, and those of them that are dropped.
Leaving(a) ==
    LET incomplete == {f \in Waiting(a) : ~Complete(a, f)}
        ready == {f \in Waiting(a) : \A g \in incomplete : f < g}
        broken == {f \in ready : Verdict(Parts(a, f)) = "data"}
    IN  {f \in ready : \A g \in broken : f < g}

Dropped(a) == {f \in Leaving(a) : Verdict(Parts(a, f)) = "stamps"}

Passed(a) ==
    [a EXCEPT !.frames = {message \in @ : FrameOf(a, message) \notin Leaving(a)},
              !.dead = {d \in @ : \A f \in Leaving(a) : f < d},
              !.dropped = @ + Cardinality(Dropped(a)),
              !.out = @ \o InOrder(a, Leaving(a) \ Dropped(a))]

LEMMA DrainIs ==
    ASSUME NEW a
    PROVE  \/ Drain(a) = Passed(a)
           \/ Drain(a) = Resync([Passed(a) EXCEPT !.dropped = @ + 1])
  BY DEF Drain, Passed, Leaving, Dropped

\* What leaves is complete, and no later than what stays.
LEMMA LeavingIs ==
    ASSUME NEW a, NEW k \in Int, NEW n, NEW low, Sound(a, n, low), a.synced,
           \A message \in a.frames : FrameOf(a, message) = message[2] + k
    PROVE  /\ Waiting(a) \in SUBSET Int /\ IsFiniteSet(Waiting(a))
           /\ \A f \in Waiting(a) : 1 + k <= f /\ f <= Bursts + k
           /\ Leaving(a) \subseteq Waiting(a)
           /\ \A f \in Leaving(a), g \in Waiting(a) : g \notin Leaving(a) => f < g
           /\ \A f \in Leaving(a) : /\ Parts(a, f) = Whole(f - k) /\ f - k \in 1 .. Bursts
                                    /\ \A topic \in Topic : Holds(a, topic, f - k)
  <1> DEFINE W == Waiting(a)
  <1>1. \A message \in a.frames :
           /\ message[1] \in Topic /\ message[2] \in 1 .. Bursts
           /\ message = <<message[1], message[2]>>
    <2>1. \A message \in a.frames : message \in Topic \X (1 .. Bursts)
      BY DEF Sound, AssemblerRecords
    <2> QED BY <2>1
  <1>2. Bursts \in Nat
    BY AssemblerAssumption
  <1>3. \A f \in W : f \in Int /\ 1 + k <= f /\ f <= Bursts + k
    BY <1>1, <1>2 DEF Waiting
  <1>4. W \in SUBSET Int /\ IsFiniteSet(W)
    <2>1. IsFiniteSet((1 + k) .. (Bursts + k))
      BY <1>2, FS_Interval
    <2>2. W \subseteq (1 + k) .. (Bursts + k)
      BY <1>2, <1>3
    <2>3. W \in SUBSET Int
      BY <1>3
    <2> HIDE DEF W
    <2> QED BY <2>1, <2>2, <2>3, FS_Subset
  <1> DEFINE incomplete == {f \in W : ~Complete(a, f)}
             ready == {f \in W : \A g \in incomplete : f < g}
             broken == {f \in ready : Verdict(Parts(a, f)) = "data"}
  <1>5. Leaving(a) = {f \in ready : \A g \in broken : f < g}
    BY DEF Leaving
  <1>6. ASSUME NEW f \in Leaving(a), NEW g \in W, g \notin Leaving(a) PROVE f < g
    <2>1. f \in Int /\ g \in Int /\ f \in ready /\ f \in W
      BY <1>3, <1>5
    <2>2. CASE g \in ready
      <3>1. PICK h \in broken : ~(g < h)
        BY <1>5, <1>6, <2>2
      <3>2. f < h /\ h \in Int
        BY <1>3, <1>5, <3>1
      <3> QED BY <2>1, <3>1, <3>2
    <2>3. CASE g \notin ready
      <3>1. PICK h \in incomplete : ~(g < h)
        BY <2>3
      <3>2. f < h /\ h \in Int
        BY <1>3, <2>1, <3>1
      <3> QED BY <2>1, <3>1, <3>2
    <2> QED BY <2>2, <2>3
  <1>7. ASSUME NEW f \in Leaving(a)
        PROVE  /\ Parts(a, f) = Whole(f - k) /\ f - k \in 1 .. Bursts
               /\ \A topic \in Topic : Holds(a, topic, f - k)
    <2>1. f \in W /\ f \in Int /\ Complete(a, f)
      <3>1. f \in ready /\ f \in W /\ f \in Int
        BY <1>3, <1>5
      <3>2. ~(f < f)
        BY <3>1
      <3> QED BY <3>1, <3>2
    <2>2. \A topic \in Topic : <<topic, f - k>> \in a.frames /\ f - k \in 1 .. Bursts
      <3> SUFFICES ASSUME NEW topic \in Topic
                   PROVE <<topic, f - k>> \in a.frames /\ f - k \in 1 .. Bursts
        OBVIOUS
      <3>1. PICK message \in a.frames : message[1] = topic /\ FrameOf(a, message) = f
        BY <2>1 DEF Complete
      <3>2. message[2] \in 1 .. Bursts /\ f = message[2] + k
        BY <1>1, <3>1
      <3>3. message[2] = f - k
        BY <3>2
      <3> QED BY <1>1, <3>1, <3>2, <3>3
    <2>3. f - k \in 1 .. Bursts
      BY <2>2, TopicFacts
    <2>4. ASSUME NEW topic \in Topic
          PROVE f - k = CHOOSE burst \in 1 .. Bursts :
                    <<topic, burst>> \in a.frames /\ FrameOf(a, <<topic, burst>>) = f
      <3>1. <<topic, f - k>> \in a.frames /\ FrameOf(a, <<topic, f - k>>) = f
        <4>1. <<topic, f - k>>[2] = f - k
          OBVIOUS
        <4>2. FrameOf(a, <<topic, f - k>>) = (f - k) + k
          BY <2>2, <4>1
        <4> QED BY <2>1, <2>2, <4>2
      <3>2. ASSUME NEW burst \in 1 .. Bursts, <<topic, burst>> \in a.frames,
                   FrameOf(a, <<topic, burst>>) = f
            PROVE  burst = f - k
        <4>1. <<topic, burst>>[2] = burst
          OBVIOUS
        <4>2. burst + k = f
          BY <3>2, <4>1
        <4> QED BY <4>2
      <3> QED BY <2>3, <3>1, <3>2
    <2>5. Parts(a, f) = Whole(f - k)
      BY <2>4 DEF Parts, Whole
    <2> QED BY <2>2, <2>3, <2>5 DEF Holds
  <1>8. Leaving(a) \subseteq W
    BY <1>5
  <1> QED BY <1>3, <1>4, <1>6, <1>7, <1>8

\* Fewer messages held and more whole frames given, all earlier than those held.
LEMMA StillSound ==
    ASSUME NEW a, NEW n, NEW low, Sound(a, n, low), NEW b \in AssemblerRecords,
           a.synced, b.synced, b.offsets = a.offsets, b.candidate = a.candidate,
           b.pending = a.pending, b.frames \subseteq a.frames, b.last = a.last,
           OutSound(b, n, low),
           \A message \in b.frames : \A i \in 1 .. Len(b.out) : b.out[i][First] < message[2]
    PROVE  Sound(b, n, low)
  <1>1. PhaseSound(b) /\ QueuesSound(b, n) /\ NumbersSound(b, n) /\ OffsetsSound(b, n)
        /\ Devkit(n, low)
    BY DEF Sound, PhaseSound, QueuesSound, NumbersSound, OffsetsSound
  <1>2. HeldSound(b, n, low)
    <2> SUFFICES ASSUME NEW topic \in Topic, NEW burst \in 1 .. Bursts, Holds(b, topic, burst)
                 PROVE  /\ low < burst /\ burst < n[topic]
                        /\ Renewed(topic, n) => Anew(burst)
                        /\ b.last[topic] > 0
                        /\ \A i \in 1 .. Len(b.out) : b.out[i][First] < burst
      BY DEF HeldSound
    <2>1. b.pending[topic] = <<>> /\ Len(b.pending[topic]) = 0
      BY DEF Sound, PhaseSound
    <2>2. <<topic, burst>> \in b.frames
      BY <2>1 DEF Holds
    <2>3. Holds(a, topic, burst)
      BY <2>2 DEF Holds
    <2>4. \A i \in 1 .. Len(b.out) : b.out[i][First] < <<topic, burst>>[2]
      BY <2>2
    <2>5. <<topic, burst>>[2] = burst
      OBVIOUS
    <2> QED BY <2>3, <2>4, <2>5 DEF Sound, HeldSound
  <1> QED BY <1>1, <1>2 DEF Sound

LEMMA PassedSound ==
    ASSUME NEW a, NEW n, NEW low, Sound(a, n, low), a.synced
    PROVE  Sound(Passed(a), n, low) /\ Passed(a).synced
  <1>1. PICK k \in Int : \A message \in a.frames :
              /\ message[1] \in Topic /\ message[2] \in 1 .. Bursts
              /\ message = <<message[1], message[2]>>
              /\ FrameOf(a, message) = message[2] + k
              /\ Holds(a, message[1], message[2])
    BY FramesAreBursts
  <1> DEFINE L == Leaving(a)
             D == Dropped(a)
             G == L \ D
             F == {message \in a.frames : FrameOf(a, message) \notin L}
             E == {d \in a.dead : \A f \in L : f < d}
             O == InOrder(a, G)
  <1>2. /\ Waiting(a) \in SUBSET Int /\ IsFiniteSet(Waiting(a))
        /\ \A f \in Waiting(a) : 1 + k <= f /\ f <= Bursts + k
        /\ L \subseteq Waiting(a)
        /\ \A f \in L, g \in Waiting(a) : g \notin L => f < g
        /\ \A f \in L : /\ Parts(a, f) = Whole(f - k) /\ f - k \in 1 .. Bursts
                        /\ \A topic \in Topic : Holds(a, topic, f - k)
    BY <1>1, LeavingIs
  <1>3. D \subseteq L /\ G \subseteq L
    BY DEF Dropped
  <1>4. a \in AssemblerRecords /\ Devkit(n, low) /\ Bursts \in Nat
    BY AssemblerAssumption DEF Sound
  <1>5. /\ Passed(a).synced = a.synced /\ Passed(a).offsets = a.offsets
        /\ Passed(a).candidate = a.candidate /\ Passed(a).pending = a.pending
        /\ Passed(a).last = a.last /\ Passed(a).frames = F /\ Passed(a).dead = E
        /\ Passed(a).out = a.out \o O /\ Passed(a).dropped = a.dropped + Cardinality(D)
    BY <1>4 DEF Passed, AssemblerRecords
  <1> HIDE DEF L, D, G, F, E, O
  <1>6. IsFiniteSet(D) /\ Cardinality(D) \in Nat /\ IsFiniteSet(G) /\ G \in SUBSET Int
    BY <1>2, <1>3, FS_Subset, FS_CardinalityType
  <1>7. /\ O \in Seq([Topic -> 1 .. Bursts])
        /\ \A i \in 1 .. Len(O) : \E f \in G : O[i] = Whole(f - k)
        /\ \A i, j \in 1 .. Len(O) : i < j => O[i][First] < O[j][First]
    <2>1. \A f \in G : 1 + k <= f /\ f <= Bursts + k /\ Parts(a, f) = Whole(f - k)
                       /\ f - k \in 1 .. Bursts
      BY <1>2, <1>3
    <2>2. 1 + k \in Int /\ Bursts + k \in Int
      BY <1>4
    <2> QED BY <1>6, <2>1, <2>2, InOrderIs DEF O
  <1>8. Passed(a) \in AssemblerRecords
    <2>1. F \in SUBSET (Topic \X (1 .. Bursts)) /\ E \in SUBSET Int
          /\ a.dropped + Cardinality(D) \in Nat /\ a.out \o O \in Seq([Topic -> 1 .. Bursts])
      BY <1>4, <1>6, <1>7 DEF AssemblerRecords, F, E
    <2>2. Passed(a) = [a EXCEPT !.frames = F, !.dead = E, !.dropped = a.dropped + Cardinality(D),
                                !.out = a.out \o O]
      BY <1>4 DEF Passed, AssemblerRecords, F, E, O, G, L, D
    <2> QED BY <1>4, <2>1, <2>2 DEF AssemblerRecords
  <1> DEFINE out == Passed(a).out
  <1>9. a.out \in Seq([Topic -> 1 .. Bursts])
    BY <1>4 DEF AssemblerRecords
  <1>10. /\ Len(a.out) \in Nat /\ Len(O) \in Nat /\ Len(out) = Len(a.out) + Len(O)
         /\ \A i \in 1 .. Len(out) : \/ i \in 1 .. Len(a.out) /\ out[i] = a.out[i]
                                     \/ /\ i - Len(a.out) \in 1 .. Len(O) /\ i > Len(a.out)
                                        /\ out[i] = O[i - Len(a.out)]
    BY <1>5, <1>7, <1>9
  <1>11. \A i \in 1 .. Len(O) : \E f \in G : O[i] = Whole(f - k) /\ O[i][First] = f - k
    <2> SUFFICES ASSUME NEW i \in 1 .. Len(O)
                 PROVE \E f \in G : O[i] = Whole(f - k) /\ O[i][First] = f - k
      OBVIOUS
    <2>1. PICK f \in G : O[i] = Whole(f - k)
      BY <1>7
    <2>2. f - k \in 1 .. Bursts
      BY <1>2, <1>3
    <2>3. Whole(f - k)[First] = f - k
      BY <2>2, WholeIs, TopicFacts
    <2> QED BY <2>1, <2>3
  <1>12. \A f \in G : /\ low < f - k /\ \A topic \in Topic : f - k < n[topic]
                      /\ \A i \in 1 .. Len(a.out) : a.out[i][First] < f - k
    BY <1>2, <1>3, TopicFacts DEF Sound, HeldSound
  <1>13. OutSound(a, n, low)
    BY DEF Sound
  <1> HIDE DEF out
  <1>14. OutSound(Passed(a), n, low)
    <2>1. ASSUME NEW i \in 1 .. Len(out)
          PROVE  /\ out[i] = Whole(out[i][First]) /\ low < out[i][First]
                 /\ \A topic \in Topic : out[i][First] < n[topic]
      <3>1. CASE i \in 1 .. Len(a.out) /\ out[i] = a.out[i]
        BY <1>13, <3>1 DEF OutSound
      <3>2. CASE i - Len(a.out) \in 1 .. Len(O) /\ out[i] = O[i - Len(a.out)]
        BY <1>11, <1>12, <3>2
      <3> QED BY <1>10, <3>1, <3>2
    <2>2. ASSUME NEW i \in 1 .. Len(out), NEW j \in 1 .. Len(out), i < j
          PROVE  out[i][First] < out[j][First]
      <3>1. CASE j \in 1 .. Len(a.out) /\ out[j] = a.out[j]
        <4>1. i \in 1 .. Len(a.out) /\ out[i] = a.out[i]
          BY <1>10, <2>2, <3>1
        <4> QED BY <1>13, <2>2, <3>1, <4>1 DEF OutSound
      <3>2. CASE j - Len(a.out) \in 1 .. Len(O) /\ out[j] = O[j - Len(a.out)]
        <4>1. CASE i \in 1 .. Len(a.out) /\ out[i] = a.out[i]
          BY <1>11, <1>12, <3>2, <4>1
        <4>2. CASE i - Len(a.out) \in 1 .. Len(O) /\ out[i] = O[i - Len(a.out)]
          <5>1. i - Len(a.out) < j - Len(a.out)
            BY <1>10, <2>2
          <5> QED BY <1>7, <3>2, <4>2, <5>1
        <4> QED BY <1>10, <4>1, <4>2
      <3> QED BY <1>10, <3>1, <3>2
    <2> QED BY <2>1, <2>2 DEF OutSound, out
  <1>15. ASSUME NEW message \in F, NEW i \in 1 .. Len(out) PROVE out[i][First] < message[2]
    <2>1. message \in a.frames /\ FrameOf(a, message) \notin L
      BY DEF F
    <2>2. FrameOf(a, message) \in Waiting(a) /\ message[2] \in 1 .. Bursts
          /\ FrameOf(a, message) = message[2] + k /\ Holds(a, message[1], message[2])
          /\ message[1] \in Topic
      BY <1>1, <2>1 DEF Waiting
    <2>3. CASE i \in 1 .. Len(a.out) /\ out[i] = a.out[i]
      BY <2>2, <2>3 DEF Sound, HeldSound
    <2>4. CASE i - Len(a.out) \in 1 .. Len(O) /\ out[i] = O[i - Len(a.out)]
      <3>1. PICK f \in G : out[i][First] = f - k
        BY <1>11, <2>4
      <3>2. f \in Int /\ f < message[2] + k
        BY <1>2, <1>3, <2>1, <2>2, <3>1
      <3> QED BY <2>2, <3>1, <3>2
    <2> QED BY <1>10, <2>3, <2>4
  <1>16. Passed(a).frames \subseteq a.frames
    BY <1>5 DEF F
  <1> QED BY <1>5, <1>8, <1>14, <1>15, <1>16, StillSound DEF out

\* One more frame that is dropped.
LEMMA CountSound ==
    ASSUME NEW a, NEW n, NEW low, Sound(a, n, low), NEW d \in Nat
    PROVE  Sound([a EXCEPT !.dropped = d], n, low)
  <1> DEFINE b == [a EXCEPT !.dropped = d]
  <1>1. /\ b \in AssemblerRecords /\ b.synced = a.synced /\ b.offsets = a.offsets
        /\ b.candidate = a.candidate /\ b.pending = a.pending /\ b.frames = a.frames
        /\ b.dead = a.dead /\ b.last = a.last /\ b.out = a.out
    BY DEF Sound, AssemblerRecords
  <1> HIDE DEF b
  <1>2. \A topic, burst : Holds(b, topic, burst) <=> Holds(a, topic, burst)
    BY <1>1 DEF Holds
  <1>3. Sound(b, n, low)
    BY <1>1, <1>2 DEF Sound, PhaseSound, QueuesSound, HeldSound, NumbersSound, OffsetsSound, OutSound
  <1> QED BY <1>3 DEF b

LEMMA DrainSound ==
    ASSUME NEW a, NEW n, NEW low, Sound(a, n, low), a.synced
    PROVE  /\ Sound(Drain(a), n, low)
           /\ ~Drain(a).synced => \A topic \in Topic : Drain(a).pending[topic] = <<>>
  <1>1. Sound(Passed(a), n, low) /\ Passed(a).synced
    BY PassedSound
  <1> DEFINE b == [Passed(a) EXCEPT !.dropped = @ + 1]
  <1>2. Sound(b, n, low)
    <2>1. Passed(a) \in AssemblerRecords
      BY <1>1 DEF Sound
    <2>2. Passed(a).dropped + 1 \in Nat
      BY <2>1 DEF AssemblerRecords
    <2>3. b = [Passed(a) EXCEPT !.dropped = Passed(a).dropped + 1]
      BY <2>1 DEF AssemblerRecords
    <2> QED BY <1>1, <2>2, <2>3, CountSound
  <1> HIDE DEF b
  <1>3. Drain(a) = Passed(a) \/ Drain(a) = Resync(b)
    BY DrainIs DEF b
  <1> QED BY <1>1, <1>2, <1>3, ResyncSound

----------------------------------------------------------------------------
(* Learning the offsets *)

\* What is left of a queue once its front is gone.
Suffix(q, p) ==
    \E d \in 0 .. Len(p) :
        Len(q) = Len(p) - d /\ \A i \in 1 .. Len(q) : q[i] = p[i + d]

LEMMA SuffixOfSuffix ==
    ASSUME NEW S, NEW p \in Seq(S), NEW q \in Seq(S), NEW r \in Seq(S), Suffix(q, p), Suffix(r, q)
    PROVE  Suffix(r, p)
  <1>1. PICK d \in 0 .. Len(p) : Len(q) = Len(p) - d /\ \A i \in 1 .. Len(q) : q[i] = p[i + d]
    BY DEF Suffix
  <1>2. PICK e \in 0 .. Len(q) : Len(r) = Len(q) - e /\ \A i \in 1 .. Len(r) : r[i] = q[i + e]
    BY DEF Suffix
  <1>3. Len(p) \in Nat /\ Len(q) \in Nat /\ Len(r) \in Nat
    OBVIOUS
  <1>4. d + e \in 0 .. Len(p) /\ Len(r) = Len(p) - (d + e)
    BY <1>1, <1>2, <1>3
  <1>5. ASSUME NEW i \in 1 .. Len(r) PROVE r[i] = p[i + (d + e)]
    <2>1. r[i] = q[i + e] /\ i + e \in 1 .. Len(q)
      BY <1>2, <1>3
    <2>2. q[i + e] = p[(i + e) + d]
      BY <1>1, <2>1
    <2> QED BY <2>1, <2>2
  <1> QED BY <1>4, <1>5 DEF Suffix

LEMMA TailIsSuffix ==
    ASSUME NEW S, NEW p \in Seq(S), p # <<>>
    PROVE  Tail(p) \in Seq(S) /\ Suffix(Tail(p), p) /\ Head(p) = p[1] /\ Head(p) \in S
           /\ Len(p) \in Nat \ {0} /\ Len(Tail(p)) = Len(p) - 1
  <1>1. Len(p) \in Nat /\ Len(p) > 0 /\ Tail(p) \in Seq(S) /\ Len(Tail(p)) = Len(p) - 1
        /\ \A i \in 1 .. Len(Tail(p)) : Tail(p)[i] = p[i + 1]
    OBVIOUS
  <1>2. 1 \in 0 .. Len(p)
    BY <1>1
  <1>3. Suffix(Tail(p), p)
    BY <1>1, <1>2 DEF Suffix
  <1> QED BY <1>1, <1>3

LEMMA TrimmedIs ==
    ASSUME stalled \in SUBSET (1 .. Bursts), NEW queues \in [Topic -> Seq(1 .. Bursts)],
           queues[First] # <<>>
    PROVE  /\ Trimmed(queues) \in [Topic -> Seq(1 .. Bursts)]
           /\ Trimmed(queues)[First] = queues[First]
           /\ \A topic \in Topic :
                 /\ Suffix(Trimmed(queues)[topic], queues[topic])
                 /\ Trimmed(queues)[topic] # <<>> =>
                       Head(Trimmed(queues)[topic]) >= Head(queues[First])
  <1> DEFINE h == Head(queues[First])
             Kept(topic) == {i \in DOMAIN queues[topic] : At(topic, queues[topic][i]) >= At(First, h)}
             Q == Trimmed(queues)
  <1>1. First \in Topic /\ Bursts \in Nat
    BY TopicFacts, AssemblerAssumption
  <1>2. queues[First] \in Seq(1 .. Bursts) /\ h \in 1 .. Bursts /\ h = queues[First][1]
        /\ 1 \in DOMAIN queues[First]
    BY <1>1
  <1>3. Q = [topic \in Topic |->
                IF Kept(topic) = {} THEN <<>>
                ELSE SubSeq(queues[topic], Least(Kept(topic)), Len(queues[topic]))]
    BY DEF Trimmed
  <1>4. ASSUME NEW topic \in Topic
        PROVE  /\ Q[topic] \in Seq(1 .. Bursts) /\ Suffix(Q[topic], queues[topic])
               /\ Q[topic] # <<>> => Head(Q[topic]) >= h
               /\ topic = First => Q[topic] = queues[topic]
    <2> DEFINE q == queues[topic]
               K == Kept(topic)
    <2>1. q \in Seq(1 .. Bursts) /\ Len(q) \in Nat /\ DOMAIN q = 1 .. Len(q)
      OBVIOUS
    <2>2. Q[topic] = IF K = {} THEN <<>> ELSE SubSeq(q, Least(K), Len(q))
      BY <1>3
    <2>3. \A i \in 1 .. Len(q) : i \in K <=> q[i] >= h
      <3>1. \A i \in 1 .. Len(q) : q[i] \in Nat
        BY <1>1, <2>1
      <3>2. h \in Nat
        BY <1>1, <1>2
      <3> HIDE DEF h
      <3> QED BY <2>1, <3>1, <3>2, AtTells
    <2>4. K \subseteq 1 .. Len(q)
      BY <2>1
    <2> HIDE DEF K, h, Q, q
    <2>5. CASE K = {}
      <3>1. Q[topic] = <<>> /\ Len(Q[topic]) = 0
        BY <2>2, <2>5
      <3>2. Suffix(Q[topic], q)
        <4>1. Len(q) \in 0 .. Len(q) /\ 0 = Len(q) - Len(q)
          BY <2>1
        <4>2. \A i \in 1 .. 0 : FALSE
          OBVIOUS
        <4> QED BY <3>1, <4>1, <4>2 DEF Suffix
      <3>3. topic # First
        <4>1. SUFFICES ASSUME topic = First PROVE FALSE
          OBVIOUS
        <4>2. 1 \in 1 .. Len(q) /\ q[1] = h
          BY <1>2, <2>1, <4>1 DEF q
        <4>3. h \in Nat
          BY <1>1, <1>2
        <4> QED BY <2>3, <2>5, <4>2, <4>3
      <3> QED BY <3>1, <3>2, <3>3 DEF q
    <2>6. CASE K # {}
      <3> DEFINE l == Least(K)
      <3>1. l \in K /\ \A y \in K : l <= y
        <4>1. K \in SUBSET Nat
          BY <2>1, <2>4
        <4> QED BY <2>6, <4>1, LeastIs
      <3>2. l \in 1 .. Len(q) /\ q[l] >= h
        BY <2>3, <2>4, <3>1
      <3> HIDE DEF l
      <3>3. /\ Q[topic] = SubSeq(q, l, Len(q)) /\ Q[topic] \in Seq(1 .. Bursts)
            /\ Len(Q[topic]) = Len(q) - (l - 1)
            /\ \A i \in 1 .. Len(Q[topic]) : Q[topic][i] = q[i + (l - 1)]
        <4>1. Q[topic] = SubSeq(q, l, Len(q))
          BY <2>2, <2>6 DEF l
        <4> HIDE DEF Q
        <4>2. SubSeq(q, l, Len(q)) \in Seq(1 .. Bursts) /\ Len(SubSeq(q, l, Len(q))) = Len(q) - l + 1
              /\ \A i \in 1 .. Len(q) - l + 1 : SubSeq(q, l, Len(q))[i] = q[l + i - 1]
          <5>1. l \in Int /\ Len(q) \in Int /\ l <= Len(q) /\ \A i \in l .. Len(q) : i \in 1 .. Len(q)
            BY <2>1, <3>2
          <5>2. \A i \in 1 .. Len(q) : q[i] \in 1 .. Bursts
            BY <2>1, ElementOfSeq
          <5> QED BY <5>1, <5>2, SubSeqProperties
        <4>3. Len(q) - l + 1 = Len(q) - (l - 1)
              /\ \A i \in 1 .. Len(q) - l + 1 : l + i - 1 = i + (l - 1)
          BY <2>1, <3>2
        <4> QED BY <4>1, <4>2, <4>3
      <3>4. Suffix(Q[topic], q)
        <4>1. l - 1 \in 0 .. Len(q)
          BY <2>1, <3>2
        <4> QED BY <3>3, <4>1 DEF Suffix
      <3>5. Head(Q[topic]) >= h
        <4>1. Len(Q[topic]) >= 1 /\ 1 \in 1 .. Len(Q[topic]) /\ 1 + (l - 1) = l
          BY <2>1, <3>2, <3>3
        <4>2. Head(Q[topic]) = Q[topic][1]
          BY <3>3, <4>1
        <4>3. Q[topic][1] = q[l]
          BY <3>3, <4>1
        <4> QED BY <3>2, <4>2, <4>3
      <3>6. topic = First => Q[topic] = q
        <4>1. SUFFICES ASSUME topic = First PROVE Q[topic] = q
          OBVIOUS
        <4>2. 1 \in 1 .. Len(q) /\ q[1] = h /\ h \in Nat
          BY <1>1, <1>2, <2>1, <4>1 DEF q
        <4>3. 1 \in K
          BY <2>3, <4>2
        <4>4. l = 1
          BY <3>1, <3>2, <4>3
        <4>5. SubSeq(q, 1, Len(q)) = q
          BY <2>1
        <4> QED BY <3>3, <4>4, <4>5
      <3> QED BY <3>3, <3>4, <3>5, <3>6 DEF q
    <2> QED BY <2>5, <2>6
  <1>5. Q \in [Topic -> Seq(1 .. Bursts)]
    <2>1. \A topic \in Topic : Q[topic] \in Seq(1 .. Bursts)
      BY <1>4
    <2>2. Q = [topic \in Topic |-> Q[topic]]
      BY <1>3
    <2> HIDE DEF Q
    <2> QED BY <2>1, <2>2
  <1> QED BY <1>1, <1>4, <1>5

\* What is left of a queue was in it, in that order.
LEMMA SuffixHeld ==
    ASSUME NEW a, NEW n, NEW low, Sound(a, n, low), NEW topic \in Topic,
           NEW q \in Seq(1 .. Bursts), Suffix(q, a.pending[topic])
    PROVE  /\ \A i \in 1 .. Len(q) : q[i] \in 1 .. Bursts /\ Holds(a, topic, q[i])
           /\ \A i, j \in 1 .. Len(q) : i < j => q[i] < q[j]
  <1> DEFINE p == a.pending[topic]
             l == Len(p)
             m == Len(q)
  <1>1. p \in Seq(1 .. Bursts) /\ l \in Nat /\ m \in Nat
    BY DEF Sound, AssemblerRecords
  <1>2. PICK d \in 0 .. l : m = l - d /\ \A i \in 1 .. m : q[i] = p[i + d]
    BY DEF Suffix
  <1>3. \A i, j \in 1 .. l : i < j => p[i] < p[j]
    BY DEF Sound, QueuesSound
  <1>4. \A i \in 1 .. m : q[i] \in 1 .. Bursts
    BY ElementOfSeq
  <1>5. \A i \in 1 .. l : Holds(a, topic, p[i])
    BY DEF Holds
  <1> HIDE DEF p, l, m
  <1>6. \A i \in 1 .. m : i + d \in 1 .. l
    BY <1>1, <1>2
  <1>7. \A i \in 1 .. m : q[i] \in 1 .. Bursts /\ Holds(a, topic, q[i])
    BY <1>2, <1>4, <1>5, <1>6
  <1>8. \A i, j \in 1 .. m : i < j => q[i] < q[j]
    <2> SUFFICES ASSUME NEW i \in 1 .. m, NEW j \in 1 .. m, i < j PROVE q[i] < q[j]
      OBVIOUS
    <2>1. i + d < j + d
      BY <1>1, <1>2
    <2> QED BY <1>2, <1>3, <1>6, <2>1
  <1> QED BY <1>7, <1>8 DEF m

LEMMA PendingSound ==
    ASSUME NEW a, NEW n, NEW low, Sound(a, n, low), ~a.synced,
           NEW q \in [Topic -> Seq(1 .. Bursts)],
           \A topic \in Topic : Suffix(q[topic], a.pending[topic]),
           NEW c \in [Topic -> Int] \cup {NoOffsets},
           c # NoOffsets => TrueOffsets(c, n) /\ \A topic \in Topic : a.last[topic] > 0
    PROVE  Sound([a EXCEPT !.pending = q, !.candidate = c], n, low)
  <1> DEFINE b == [a EXCEPT !.pending = q, !.candidate = c]
  <1>1. /\ b \in AssemblerRecords /\ b.synced = a.synced /\ b.offsets = a.offsets
        /\ b.candidate = c /\ b.pending = q /\ b.frames = a.frames
        /\ b.dead = a.dead /\ b.last = a.last /\ b.out = a.out
    BY DEF Sound, AssemblerRecords
  <1> HIDE DEF b
  <1>2. a.frames = {} /\ a.offsets = NoOffsets
    BY DEF Sound, PhaseSound
  <1>3. a.pending \in [Topic -> Seq(1 .. Bursts)]
    BY DEF Sound, AssemblerRecords
  <1>4. ASSUME NEW topic \in Topic, NEW burst \in 1 .. Bursts, Holds(b, topic, burst)
        PROVE  Holds(a, topic, burst)
    <2>1. PICK i \in 1 .. Len(q[topic]) : q[topic][i] = burst
      BY <1>1, <1>2, <1>4 DEF Holds
    <2> QED BY <2>1, SuffixHeld
  <1>5. HeldSound(b, n, low)
    BY <1>1, <1>4 DEF Sound, HeldSound
  <1>6. QueuesSound(b, n)
    <2>1. \A topic \in Topic : \A i, j \in 1 .. Len(q[topic]) : i < j => q[topic][i] < q[topic][j]
      BY SuffixHeld
    <2>2. ASSUME NEW i \in 1 .. Len(q[First])
          PROVE  q[First][i] = n[First] - 1 - Len(q[First]) + i
      <3>0. First \in Topic /\ n[First] \in Nat /\ Len(a.pending[First]) \in Nat
            /\ Len(q[First]) \in Nat
        <4>1. First \in Topic /\ n \in [Topic -> 1 .. Bursts + 1] /\ Bursts \in Nat
          BY TopicFacts, AssemblerAssumption DEF Sound, Devkit
        <4>2. \A y \in 1 .. Bursts + 1 : y \in Nat
          BY <4>1
        <4>3. Len(a.pending[First]) \in Nat /\ Len(q[First]) \in Nat
          BY <4>1, <1>3
        <4> QED BY <4>1, <4>2, <4>3
      <3>1. PICK d \in 0 .. Len(a.pending[First]) :
                /\ Len(q[First]) = Len(a.pending[First]) - d
                /\ \A k \in 1 .. Len(q[First]) : q[First][k] = a.pending[First][k + d]
        BY <3>0 DEF Suffix
      <3>2. i + d \in 1 .. Len(a.pending[First])
        BY <3>0, <3>1
      <3>3. q[First][i] = n[First] - 1 - Len(a.pending[First]) + (i + d)
        BY <3>1, <3>2 DEF Sound, QueuesSound
      <3> QED BY <3>0, <3>1, <3>3
    <2> QED BY <1>1, <2>1, <2>2 DEF QueuesSound
  <1>7. PhaseSound(b) /\ NumbersSound(b, n) /\ OffsetsSound(b, n) /\ OutSound(b, n, low) /\ Devkit(n, low)
    BY <1>1, <1>2 DEF Sound, PhaseSound, NumbersSound, OffsetsSound, OutSound
  <1>8. Sound(b, n, low)
    BY <1>1, <1>5, <1>6, <1>7 DEF Sound
  <1> QED BY <1>8 DEF b

\* The offsets of a burst that every topic holds a message of are true.
LEMMA HeldBurstIsTrue ==
    ASSUME NEW a, NEW n, NEW low, Sound(a, n, low), NEW h \in 1 .. Bursts,
           \A topic \in Topic : Holds(a, topic, h)
    PROVE  /\ TrueOffsets(OffsetsOf(Whole(h)), n) /\ \A topic \in Topic : a.last[topic] > 0
           /\ OffsetsOf(Whole(h)) \in [Topic -> Int]
  <1>1. \A topic \in Topic : Renewed(topic, n) <=> Anew(h)
    BY HeldIsOf
  <1>2. \A topic \in Topic : a.last[topic] > 0
    BY DEF Sound, HeldSound
  <1>3. OffsetsOf(Whole(h)) \in [Topic -> Int]
    <2>1. restart \in Nat /\ Lidar \in Topic /\ h \in Nat \ {0}
      BY TopicFacts, AssemblerAssumption DEF Sound, Devkit
    <2>2. \A topic \in Topic : Sequence(topic, h) - Sequence(Lidar, h) \in Int
      BY <2>1, SequenceIs
    <2> QED BY <2>1, <2>2 DEF OffsetsOf, Whole
  <1> QED BY <1>1, <1>2, <1>3 DEF TrueOffsets

\* What the learner takes for a burst is one.
LEMMA HeadsAreOneBurst ==
    ASSUME NEW a, NEW n, NEW low, Sound(a, n, low), ~a.synced, a.pending[First] # <<>>,
           NEW q, q = Trimmed(a.pending), \A topic \in Topic : q[topic] # <<>>,
           ~Missed(q), Trusted(a, q)
    PROVE  /\ q[First][1] \in 1 .. Bursts /\ Heads(q) = Whole(q[First][1])
           /\ \A topic \in Topic : Holds(a, topic, q[First][1])
  <1>1. a \in AssemblerRecords /\ Devkit(n, low) /\ First \in Topic /\ Lidar \in Topic
        /\ Bursts \in Nat
    BY TopicFacts, AssemblerAssumption DEF Sound
  <1>2. a.pending \in [Topic -> Seq(1 .. Bursts)]
    BY <1>1 DEF AssemblerRecords
  <1>3. /\ q \in [Topic -> Seq(1 .. Bursts)] /\ q[First] = a.pending[First]
        /\ \A topic \in Topic : /\ Suffix(q[topic], a.pending[topic])
                                /\ Head(q[topic]) >= Head(a.pending[First])
    <2>1. stalled \in SUBSET (1 .. Bursts) /\ a.pending[First] # <<>>
      BY <1>1 DEF Devkit
    <2>2. /\ Trimmed(a.pending) \in [Topic -> Seq(1 .. Bursts)]
          /\ Trimmed(a.pending)[First] = a.pending[First]
          /\ \A topic \in Topic :
                /\ Suffix(Trimmed(a.pending)[topic], a.pending[topic])
                /\ Trimmed(a.pending)[topic] # <<>> =>
                      Head(Trimmed(a.pending)[topic]) >= Head(a.pending[First])
      BY <1>2, <2>1, TrimmedIs
    <2> QED BY <2>2
  <1> DEFINE h == q[First][1]
  <1>4. \A topic \in Topic : /\ Head(q[topic]) = q[topic][1] /\ q[topic][1] \in 1 .. Bursts
                             /\ Len(q[topic]) \in Nat \ {0}
    <2> SUFFICES ASSUME NEW topic \in Topic
                 PROVE  /\ Head(q[topic]) = q[topic][1] /\ q[topic][1] \in 1 .. Bursts
                        /\ Len(q[topic]) \in Nat \ {0}
      OBVIOUS
    <2> DEFINE S == 1 .. Bursts
    <2>1. q[topic] \in Seq(S) /\ q[topic] # <<>>
      BY <1>3
    <2> HIDE DEF S
    <2>2. /\ Head(q[topic]) = q[topic][1] /\ q[topic][1] \in S
          /\ Len(q[topic]) \in Nat \ {0}
      BY <2>1, TailIsSuffix
    <2> QED BY <2>2 DEF S
  <1>5. h \in 1 .. Bursts /\ \A topic \in Topic : q[topic][1] >= h
    BY <1>1, <1>3, <1>4
  <1>6. ASSUME NEW topic \in Topic PROVE Holds(a, topic, q[topic][1])
    <2>1. 1 \in 1 .. Len(q[topic])
      BY <1>4
    <2> QED BY <1>3, <2>1, SuffixHeld
  <1>7. Heads(q) = [topic \in Topic |-> q[topic][1]]
    BY <1>4 DEF Heads
  <1>8. ASSUME NEW topic \in Topic PROVE q[topic][1] = h
    <2>1. CASE Closed(q)
      <3>1. Len(q[First]) > 1
        BY <2>1 DEF Closed
      <3>2. q[First][2] = h + 1
        <4>1. 1 \in 1 .. Len(q[First]) /\ 2 \in 1 .. Len(q[First]) /\ Len(q[First]) \in Nat
          BY <1>1, <1>4, <3>1
        <4>2. /\ q[First][1] = n[First] - 1 - Len(q[First]) + 1
              /\ q[First][2] = n[First] - 1 - Len(q[First]) + 2
          BY <1>3, <4>1 DEF Sound, QueuesSound
        <4>3. n[First] \in Nat
          BY <1>1 DEF Devkit
        <4> QED BY <4>1, <4>2, <4>3
      <3>3. CASE topic = First
        BY <3>3
      <3>4. CASE topic # First
        <4>1. ~(At(topic, q[topic][1]) >= At(First, h + 1))
          BY <1>4, <2>1, <3>2, <3>4 DEF Missed, Rest
        <4>2. ~(q[topic][1] >= h + 1)
          <5>1. q[topic][1] \in Nat /\ h + 1 \in Nat
            BY <1>1, <1>4, <1>5
          <5> QED BY <1>1, <4>1, <5>1, AtTells DEF Devkit
        <4> QED BY <1>4, <1>5, <4>2
      <3> QED BY <3>3, <3>4
    <2>2. CASE ~Closed(q)
      <3>1. OffsetsOf(Heads(q)) = a.candidate
        BY <2>2 DEF Trusted
      <3>2. OffsetsOf(Heads(q)) # NoOffsets
        <4>1. DOMAIN OffsetsOf(Heads(q)) = Topic /\ DOMAIN NoOffsets = {}
          BY DEF OffsetsOf, NoOffsets
        <4> QED BY <1>1, <4>1
      <3>3. PICK x \in 1 .. Bursts : /\ a.candidate = OffsetsOf(Whole(x))
                                    /\ \A t \in Topic : Renewed(t, n) <=> Anew(x)
        BY <3>1, <3>2 DEF Sound, OffsetsSound, TrueOffsets
      <3>4. ASSUME NEW t \in Topic
            PROVE  Sequence(t, q[t][1]) - Sequence(t, x) = q[t][1] - x
                   /\ Sequence(t, q[t][1]) \in Nat /\ Sequence(t, x) \in Nat
        <4>1. Anew(q[t][1]) <=> Anew(x)
          BY <1>4, <1>6, <3>3, HeldIsOf
        <4>2. restart \in Nat /\ q[t][1] \in Nat \ {0} /\ x \in Nat \ {0}
          BY <1>1, <1>4 DEF Devkit
        <4> QED BY <4>1, <4>2, SequenceSteps, SequenceIs
      <3>5. ASSUME NEW t \in Topic
            PROVE  Sequence(t, q[t][1]) - Sequence(Lidar, q[Lidar][1])
                       = Sequence(t, x) - Sequence(Lidar, x)
        <4>1. OffsetsOf(Heads(q))[t] = Sequence(t, q[t][1]) - Sequence(Lidar, q[Lidar][1])
          BY <1>1, <1>7 DEF OffsetsOf
        <4>2. OffsetsOf(Whole(x))[t] = Sequence(t, x) - Sequence(Lidar, x)
          BY <1>1 DEF OffsetsOf, Whole
        <4> QED BY <3>1, <3>3, <4>1, <4>2
      <3>6. ASSUME NEW t \in Topic PROVE q[t][1] = q[Lidar][1]
        <4> DEFINE b == q[t][1] c == q[Lidar][1]
                   st == Sequence(t, q[t][1]) sl == Sequence(Lidar, q[Lidar][1])
                   xt == Sequence(t, x) xl == Sequence(Lidar, x)
        <4>1. b \in Nat /\ c \in Nat /\ x \in Nat
          BY <1>1, <1>4
        <4>2. /\ st - xt = b - x /\ st \in Nat /\ xt \in Nat
              /\ sl - xl = c - x /\ sl \in Nat /\ xl \in Nat
          BY <1>1, <3>4
        <4>3. st - sl = xt - xl
          BY <3>5
        <4> HIDE DEF b, c, st, sl, xt, xl
        <4>4. b = c
          BY <4>1, <4>2, <4>3
        <4> QED BY <4>4 DEF b, c
      <3> QED BY <1>1, <3>6
    <2> QED BY <2>1, <2>2
  <1>9. Heads(q) = Whole(h)
    BY <1>7, <1>8 DEF Whole
  <1> QED BY <1>5, <1>6, <1>8, <1>9

\* A burst is learned again, and the frames behind it leave.
Relearned(a, q, h) ==
    [a EXCEPT
        !.synced = TRUE,
        !.offsets = OffsetsOf(Whole(h)),
        !.candidate = NoOffsets,
        !.base = Sequence(Lidar, h),
        !.pending = [topic \in Topic |-> <<>>],
        !.frames = UNION {{<<topic, PopHeads(q)[topic][i]>> : i \in DOMAIN PopHeads(q)[topic]}
                          : topic \in Topic},
        !.dropped = IF Verdict(Whole(h)) = "stamps" THEN a.dropped + 1 ELSE a.dropped,
        !.out = IF Verdict(Whole(h)) = "stamps" THEN a.out ELSE Append(a.out, Whole(h))]

LEMMA RelearnedSound ==
    ASSUME NEW a, NEW n, NEW low, Sound(a, n, low), ~a.synced,
           NEW q \in [Topic -> Seq(1 .. Bursts)],
           \A topic \in Topic : Suffix(q[topic], a.pending[topic]) /\ q[topic] # <<>>,
           NEW h \in 1 .. Bursts, Heads(q) = Whole(h),
           \A topic \in Topic : q[topic][1] = h
    PROVE  /\ Sync(a, q) = Drain(Relearned(a, q, h)) /\ Sound(Relearned(a, q, h), n, low)
           /\ Relearned(a, q, h).synced /\ Relearned(a, q, h).offsets = OffsetsOf(Whole(h))
           /\ Relearned(a, q, h).base = Sequence(Lidar, h) /\ Relearned(a, q, h).last = a.last
           /\ Relearned(a, q, h).dead = {}
           /\ \A topic \in Topic, burst \in 1 .. Bursts :
                 <<topic, burst>> \in Relearned(a, q, h).frames
                     <=> \E i \in 2 .. Len(q[topic]) : q[topic][i] = burst
           /\ a.out = <<>> =>
                 Len(Relearned(a, q, h).out) + Relearned(a, q, h).dropped = a.dropped + 1
  <1> DEFINE behind == PopHeads(q)
             bad == Verdict(Whole(h)) = "stamps"
             o == OffsetsOf(Whole(h))
             base == Sequence(Lidar, h)
             none == [topic \in Topic |-> <<>>]
             F == UNION {{<<topic, behind[topic][i]>> : i \in DOMAIN behind[topic]} : topic \in Topic}
             D == IF bad THEN a.dropped + 1 ELSE a.dropped
             O == IF bad THEN a.out ELSE Append(a.out, Whole(h))
             b == [a EXCEPT !.synced = TRUE, !.offsets = o, !.candidate = NoOffsets,
                            !.base = base, !.pending = none, !.frames = F,
                            !.dropped = D, !.out = O]
  <1>1. a \in AssemblerRecords /\ Devkit(n, low) /\ First \in Topic /\ Lidar \in Topic
        /\ Bursts \in Nat
    BY TopicFacts, AssemblerAssumption DEF Sound
  <1>2. Sync(a, q) = Drain(b)
    <2>1. Whole(h)[Lidar] = h
      BY <1>1, WholeIs
    <2> QED BY <1>1, <2>1 DEF Sync, AssemblerRecords
  <1>j. Relearned(a, q, h) = b
    BY <1>1 DEF Relearned
  <1>k. ASSUME NEW topic \in Topic
        PROVE  /\ Len(q[topic]) \in Nat /\ DOMAIN behind[topic] = 1 .. Len(q[topic]) - 1
               /\ \A i \in 1 .. Len(q[topic]) - 1 : behind[topic][i] = q[topic][i + 1]
    <2> DEFINE p == q[topic]
               r == Tail(p)
    <2>1. p \in Seq(1 .. Bursts) /\ p # <<>> /\ behind[topic] = r
      BY DEF PopHeads
    <2> HIDE DEF p, behind
    <2>2. /\ Len(p) \in Nat /\ DOMAIN r = 1 .. Len(p) - 1
          /\ \A i \in 1 .. Len(p) - 1 : r[i] = p[i + 1]
      BY <2>1
    <2> HIDE DEF r
    <2> QED BY <2>1, <2>2 DEF p
  <1>l. \A topic \in Topic, burst \in 1 .. Bursts :
           <<topic, burst>> \in F <=> \E i \in 2 .. Len(q[topic]) : q[topic][i] = burst
    <2> HIDE DEF behind
    <2> SUFFICES ASSUME NEW topic \in Topic, NEW burst \in 1 .. Bursts
                 PROVE  <<topic, burst>> \in F <=> \E i \in 2 .. Len(q[topic]) : q[topic][i] = burst
      OBVIOUS
    <2>1. <<topic, burst>> \in F <=> \E i \in DOMAIN behind[topic] : behind[topic][i] = burst
      OBVIOUS
    <2> HIDE DEF F
    <2>2. ASSUME NEW i \in DOMAIN behind[topic], behind[topic][i] = burst
          PROVE  \E j \in 2 .. Len(q[topic]) : q[topic][j] = burst
      <3>1. i + 1 \in 2 .. Len(q[topic]) /\ q[topic][i + 1] = burst
        BY <1>k, <2>2
      <3> QED BY <3>1
    <2>3. ASSUME NEW j \in 2 .. Len(q[topic]), q[topic][j] = burst
          PROVE  \E i \in DOMAIN behind[topic] : behind[topic][i] = burst
      <3>1. j - 1 \in DOMAIN behind[topic] /\ (j - 1) + 1 = j
        BY <1>k
      <3>2. behind[topic][j - 1] = q[topic][(j - 1) + 1]
        BY <1>k, <3>1
      <3>3. behind[topic][j - 1] = burst
        BY <2>3, <3>1, <3>2
      <3> QED BY <3>1, <3>3
    <2> QED BY <2>1, <2>2, <2>3
  <1>m. a.out = <<>> => Len(O) + D = a.dropped + 1
    <2>1. a.dropped \in Nat
      BY <1>1 DEF AssemblerRecords
    <2> HIDE DEF bad
    <2>2. CASE bad
      BY <2>1, <2>2
    <2>3. CASE ~bad
      BY <2>1, <2>3
    <2> QED BY <2>2, <2>3
  <1>3. ASSUME NEW topic \in Topic
        PROVE  /\ 1 \in 1 .. Len(q[topic]) /\ Holds(a, topic, h)
               /\ behind[topic] \in Seq(1 .. Bursts)
               /\ \A i \in DOMAIN behind[topic] :
                     /\ behind[topic][i] \in 1 .. Bursts
                     /\ h < behind[topic][i] /\ Holds(a, topic, behind[topic][i])
    <2> DEFINE p == q[topic]
               r == Tail(p)
    <2>1. p \in Seq(1 .. Bursts) /\ p # <<>> /\ Suffix(p, a.pending[topic]) /\ p[1] = h
          /\ behind[topic] = r
      BY DEF PopHeads
    <2> HIDE DEF p, behind
    <2>2. /\ r \in Seq(1 .. Bursts) /\ Len(p) \in Nat /\ Len(p) > 0 /\ DOMAIN r = 1 .. Len(r)
          /\ Len(r) = Len(p) - 1 /\ \A i \in 1 .. Len(r) : r[i] = p[i + 1]
      BY <2>1
    <2>3. /\ \A i \in 1 .. Len(p) : p[i] \in 1 .. Bursts /\ Holds(a, topic, p[i])
          /\ \A i, j \in 1 .. Len(p) : i < j => p[i] < p[j]
      BY <2>1, SuffixHeld
    <2> HIDE DEF r
    <2>4. 1 \in 1 .. Len(p) /\ \A i \in 1 .. Len(r) : i + 1 \in 1 .. Len(p) /\ 1 < i + 1
      BY <2>2
    <2> QED BY <2>1, <2>2, <2>3, <2>4 DEF p
  <1>4. F \in SUBSET (Topic \X (1 .. Bursts))
        /\ \A topic \in Topic, burst \in 1 .. Bursts :
              <<topic, burst>> \in F => h < burst /\ Holds(a, topic, burst)
    <2> HIDE DEF behind
    <2> QED BY <1>3
  <1>5. TrueOffsets(o, n) /\ (\A topic \in Topic : a.last[topic] > 0) /\ o \in [Topic -> Int]
    BY <1>3, HeldBurstIsTrue
  <1>6. o # NoOffsets
    <2>1. DOMAIN o = Topic /\ DOMAIN NoOffsets = {}
      BY DEF OffsetsOf, NoOffsets
    <2> QED BY <1>1, <2>1
  <1>7. base \in Int /\ none \in [Topic -> Seq(1 .. Bursts)] /\ D \in Nat
    <2>1. restart \in Nat /\ h \in Nat \ {0}
      BY <1>1 DEF Devkit
    <2>2. base \in Int
      BY <1>1, <2>1, SequenceIs
    <2>3. none \in [Topic -> Seq(1 .. Bursts)]
      OBVIOUS
    <2>4. a.dropped \in Nat /\ a.dropped + 1 \in Nat
      BY <1>1 DEF AssemblerRecords
    <2>5. D \in {a.dropped, a.dropped + 1}
      OBVIOUS
    <2> QED BY <2>2, <2>3, <2>4, <2>5
  <1>8. Whole(h) \in [Topic -> 1 .. Bursts] /\ Whole(h)[First] = h
    BY <1>1, WholeIs
  <1>9. /\ O \in Seq([Topic -> 1 .. Bursts]) /\ Len(O) \in Nat /\ Len(a.out) \in Nat
        /\ Len(a.out) <= Len(O)
        /\ \A i \in 1 .. Len(O) :
              \/ i \in 1 .. Len(a.out) /\ O[i] = a.out[i]
              \/ i > Len(a.out) /\ i = Len(O) /\ O[i] = Whole(h)
    <2>1. a.out \in Seq([Topic -> 1 .. Bursts]) /\ Len(a.out) \in Nat
      BY <1>1 DEF AssemblerRecords
    <2> HIDE DEF bad
    <2>2. CASE bad
      BY <2>1, <2>2
    <2>3. CASE ~bad
      BY <1>8, <2>1, <2>3
    <2> QED BY <2>2, <2>3
  <1> HIDE DEF F, O, D, o, base, none, behind
  <1>10. /\ b \in AssemblerRecords /\ b.synced = TRUE /\ b.offsets = o /\ b.candidate = NoOffsets
         /\ b.pending = none /\ b.frames = F /\ b.dead = a.dead /\ b.last = a.last /\ b.out = O
    BY <1>1, <1>4, <1>5, <1>7, <1>9 DEF AssemblerRecords
  <1> HIDE DEF b
  <1>11. \A topic \in Topic : b.pending[topic] = <<>> /\ Len(b.pending[topic]) = 0
    BY <1>10 DEF none
  <1>12. low < h /\ \A topic \in Topic : h < n[topic]
    BY <1>1, <1>3 DEF Sound, HeldSound
  <1>a. \A i \in 1 .. Len(a.out) : a.out[i][First] < h
    BY <1>1, <1>3 DEF Sound, HeldSound
  <1>13. OutSound(b, n, low)
    <2>1. OutSound(a, n, low)
      BY DEF Sound
    <2>2. ASSUME NEW i \in 1 .. Len(O)
          PROVE  /\ O[i] = Whole(O[i][First]) /\ low < O[i][First]
                 /\ \A topic \in Topic : O[i][First] < n[topic]
      BY <1>8, <1>9, <1>12, <2>1 DEF OutSound
    <2>3. ASSUME NEW i \in 1 .. Len(O), NEW j \in 1 .. Len(O), i < j
          PROVE  O[i][First] < O[j][First]
      <3>1. i \in 1 .. Len(a.out) /\ O[i] = a.out[i]
        <4>1. i # Len(O)
          BY <1>9, <2>3
        <4> QED BY <1>9, <4>1
      <3>2. CASE j \in 1 .. Len(a.out) /\ O[j] = a.out[j]
        BY <2>1, <2>3, <3>1, <3>2 DEF OutSound
      <3>3. CASE O[j] = Whole(h)
        <4>1. O[j][First] = h
          BY <1>8, <3>3
        <4>2. a.out[i][First] < h
          BY <1>a, <3>1
        <4>3. O[i][First] = a.out[i][First]
          BY <3>1
        <4> QED BY <4>1, <4>2, <4>3
      <3> QED BY <1>9, <3>2, <3>3
    <2> QED BY <1>10, <2>2, <2>3 DEF OutSound
  <1>14. HeldSound(b, n, low)
    <2> SUFFICES ASSUME NEW topic \in Topic, NEW burst \in 1 .. Bursts, Holds(b, topic, burst)
                 PROVE  /\ low < burst /\ burst < n[topic]
                        /\ Renewed(topic, n) => Anew(burst)
                        /\ b.last[topic] > 0
                        /\ \A i \in 1 .. Len(b.out) : b.out[i][First] < burst
      BY DEF HeldSound
    <2>1. <<topic, burst>> \in F
      <3>1. \A i \in 1 .. 0 : FALSE
        OBVIOUS
      <3> QED BY <1>10, <1>11, <3>1 DEF Holds
    <2>2. h < burst /\ Holds(a, topic, burst)
      BY <1>4, <2>1
    <2>3. \A i \in 1 .. Len(O) : O[i][First] < burst
      BY <1>8, <1>9, <2>2 DEF Sound, HeldSound
    <2> QED BY <1>10, <2>2, <2>3 DEF Sound, HeldSound
  <1>15. QueuesSound(b, n)
    <2>1. \A i \in 1 .. 0 : FALSE
      OBVIOUS
    <2> QED BY <1>1, <1>11, <2>1 DEF QueuesSound
  <1>16. PhaseSound(b)
    BY <1>6, <1>10, <1>11 DEF PhaseSound
  <1>17. NumbersSound(b, n)
    BY <1>10 DEF Sound, NumbersSound
  <1>18. OffsetsSound(b, n)
    BY <1>5, <1>10 DEF OffsetsSound
  <1>19. Sound(b, n, low)
    BY <1>1, <1>10, <1>13, <1>14, <1>15, <1>16, <1>17, <1>18 DEF Sound
  <1>20. b.base = base /\ b.dropped = D /\ a.dead = {}
    BY <1>1 DEF b, AssemblerRecords, Sound, PhaseSound
  <1>21. a.out = <<>> => Len(b.out) + b.dropped = a.dropped + 1
    BY <1>m, <1>10, <1>20
  <1>22. \A topic \in Topic, burst \in 1 .. Bursts :
           <<topic, burst>> \in b.frames <=> \E i \in 2 .. Len(q[topic]) : q[topic][i] = burst
    BY <1>l, <1>10
  <1> QED BY <1>2, <1>j, <1>10, <1>19, <1>20, <1>21, <1>22 DEF o, base

LEMMA SyncSound ==
    ASSUME NEW a, NEW n, NEW low, Sound(a, n, low), ~a.synced,
           NEW q \in [Topic -> Seq(1 .. Bursts)],
           \A topic \in Topic : Suffix(q[topic], a.pending[topic]) /\ q[topic] # <<>>,
           NEW h \in 1 .. Bursts, Heads(q) = Whole(h),
           \A topic \in Topic : q[topic][1] = h
    PROVE  /\ Sound(Sync(a, q), n, low)
           /\ ~Sync(a, q).synced => \A topic \in Topic : Sync(a, q).pending[topic] = <<>>
  <1> DEFINE b == Relearned(a, q, h)
  <1>1. Sync(a, q) = Drain(b) /\ Sound(b, n, low) /\ b.synced
    BY RelearnedSound
  <1> HIDE DEF b
  <1> QED BY <1>1, DrainSound

\* A turn of the learner's loop drops the fronts of its queues, or learns the offsets
\* of a burst that all of them begin with.
Shortens(a, n, b) ==
    \E q \in [Topic -> Seq(1 .. Bursts)], c \in [Topic -> Int] \cup {NoOffsets} :
        /\ b = [a EXCEPT !.pending = q, !.candidate = c]
        /\ \A topic \in Topic : Suffix(q[topic], a.pending[topic])
        /\ c # NoOffsets => TrueOffsets(c, n) /\ \A topic \in Topic : a.last[topic] > 0

Synchronizes(a, b) ==
    \E q \in [Topic -> Seq(1 .. Bursts)], h \in 1 .. Bursts :
        /\ b = Sync(a, q) /\ Heads(q) = Whole(h)
        /\ \A topic \in Topic :
              Suffix(q[topic], a.pending[topic]) /\ q[topic] # <<>> /\ q[topic][1] = h

LEMMA LearnBurstIs ==
    ASSUME NEW a, NEW n, NEW low, Sound(a, n, low), ~a.synced, a.pending[First] # <<>>
    PROVE  Shortens(a, n, LearnBurst(a)) \/ Synchronizes(a, LearnBurst(a))
  <1> DEFINE q == Trimmed(a.pending)
             heard == \A topic \in Topic : q[topic] # <<>>
             missed == heard /\ Missed(q)
             learned == heard /\ ~missed /\ Trusted(a, q)
             popped == PopHeads(q)
             first == [q EXCEPT ![First] = Tail(@)]
             o == OffsetsOf(Heads(q))
  <1>2. ~a.synced /\ a.pending[First] # <<>>
    OBVIOUS
  <1> QED
    <2>1. a \in AssemblerRecords /\ Devkit(n, low) /\ First \in Topic /\ Lidar \in Topic
          /\ Bursts \in Nat /\ a.pending \in [Topic -> Seq(1 .. Bursts)]
      BY TopicFacts, AssemblerAssumption DEF Sound, AssemblerRecords
    <2>2. /\ q \in [Topic -> Seq(1 .. Bursts)] /\ q[First] = a.pending[First]
          /\ \A topic \in Topic : Suffix(q[topic], a.pending[topic])
      BY <1>2, <2>1, TrimmedIs DEF Devkit
    <2>3. \A topic \in Topic :
             q[topic] # <<>> => /\ Tail(q[topic]) \in Seq(1 .. Bursts)
                                /\ Suffix(Tail(q[topic]), a.pending[topic])
      <3> SUFFICES ASSUME NEW topic \in Topic, q[topic] # <<>>
                   PROVE  /\ Tail(q[topic]) \in Seq(1 .. Bursts)
                          /\ Suffix(Tail(q[topic]), a.pending[topic])
        OBVIOUS
      <3> DEFINE S == 1 .. Bursts p == q[topic] r == Tail(p) w == a.pending[topic]
      <3>1. p \in Seq(S) /\ p # <<>> /\ w \in Seq(S) /\ Suffix(p, w)
        BY <2>1, <2>2
      <3> HIDE DEF S, p, w
      <3>2. r \in Seq(S) /\ Suffix(r, p)
        BY <3>1, TailIsSuffix
      <3> HIDE DEF r
      <3>3. Suffix(r, w)
        BY <3>1, <3>2, SuffixOfSuffix
      <3> QED BY <3>2, <3>3 DEF S, p, r, w
    <2>4. a.candidate \in [Topic -> Int] \cup {NoOffsets}
          /\ (a.candidate # NoOffsets =>
                 TrueOffsets(a.candidate, n) /\ \A topic \in Topic : a.last[topic] > 0)
      BY <2>1 DEF Sound, OffsetsSound, AssemblerRecords
    <2> HIDE DEF q
    <2>5. CASE missed
      <3>1. first \in [Topic -> Seq(1 .. Bursts)]
            /\ \A topic \in Topic : Suffix(first[topic], a.pending[topic])
        BY <2>1, <2>2, <2>3, <2>5
      <3>2. LearnBurst(a) = [a EXCEPT !.pending = first, !.candidate = NoOffsets]
        BY <1>2, <2>5 DEF LearnBurst, q
      <3> HIDE DEF first
      <3> QED BY <3>1, <3>2 DEF Shortens
    <2>6. CASE learned
      <3> DEFINE h == q[First][1]
      <3>1. /\ h \in 1 .. Bursts /\ Heads(q) = Whole(h)
            /\ \A topic \in Topic : Holds(a, topic, h)
        BY <1>2, <2>6, HeadsAreOneBurst DEF q
      <3>2. popped \in [Topic -> Seq(1 .. Bursts)]
            /\ \A topic \in Topic : Suffix(popped[topic], a.pending[topic])
        BY <2>3, <2>6 DEF PopHeads
      <3>3. TrueOffsets(o, n) /\ (\A topic \in Topic : a.last[topic] > 0) /\ o \in [Topic -> Int]
        BY <3>1, HeldBurstIsTrue
      <3>4. LearnBurst(a) =
                IF Verdict(Heads(q)) = "data"
                THEN [[a EXCEPT !.pending = popped] EXCEPT !.candidate = NoOffsets]
                ELSE IF o # a.candidate
                THEN [[a EXCEPT !.pending = popped] EXCEPT !.candidate = o]
                ELSE Sync(a, q)
        BY <1>2, <2>6 DEF LearnBurst, q
      <3>5. \A topic \in Topic : q[topic][1] = h
        <4>1. \A topic \in Topic : Head(q[topic]) = Heads(q)[topic]
          BY DEF Heads
        <4>2. \A topic \in Topic : Head(q[topic]) = h
          BY <3>1, <4>1, WholeIs
        <4>3. \A topic \in Topic : Head(q[topic]) = q[topic][1]
          BY <2>2, <2>6, TailIsSuffix
        <4> QED BY <4>2, <4>3
      <3> HIDE DEF o, popped, h
      <3>6. [[a EXCEPT !.pending = popped] EXCEPT !.candidate = NoOffsets]
                = [a EXCEPT !.pending = popped, !.candidate = NoOffsets]
            /\ [[a EXCEPT !.pending = popped] EXCEPT !.candidate = o]
                = [a EXCEPT !.pending = popped, !.candidate = o]
        BY <2>1 DEF AssemblerRecords
      <3>7. CASE LearnBurst(a) = [a EXCEPT !.pending = popped, !.candidate = NoOffsets]
        BY <3>2, <3>7 DEF Shortens
      <3>8. CASE LearnBurst(a) = [a EXCEPT !.pending = popped, !.candidate = o]
        BY <3>2, <3>3, <3>8 DEF Shortens
      <3>9. CASE LearnBurst(a) = Sync(a, q)
        BY <2>2, <2>6, <3>1, <3>5, <3>9 DEF Synchronizes
      <3> QED BY <3>4, <3>6, <3>7, <3>8, <3>9
    <2>7. CASE ~missed /\ ~learned
      <3>1. LearnBurst(a) = [a EXCEPT !.pending = q, !.candidate = a.candidate]
        <4>1. LearnBurst(a) = [a EXCEPT !.pending = q]
          BY <1>2, <2>7 DEF LearnBurst, q
        <4> QED BY <2>1, <4>1 DEF AssemblerRecords
      <3> QED BY <2>2, <2>4, <3>1 DEF Shortens
    <2> QED BY <2>5, <2>6, <2>7

LEMMA LearnBurstSound ==
    ASSUME NEW a, NEW n, NEW low, Sound(a, n, low)
    PROVE  Sound(LearnBurst(a), n, low)
  <1>1. CASE a.synced \/ a.pending[First] = <<>>
    <2>1. LearnBurst(a) = a
      BY <1>1 DEF LearnBurst
    <2> QED BY <2>1
  <1>2. CASE ~a.synced /\ a.pending[First] # <<>>
    <2>1. CASE Shortens(a, n, LearnBurst(a))
      <3>1. PICK q \in [Topic -> Seq(1 .. Bursts)], c \in [Topic -> Int] \cup {NoOffsets} :
                /\ LearnBurst(a) = [a EXCEPT !.pending = q, !.candidate = c]
                /\ \A topic \in Topic : Suffix(q[topic], a.pending[topic])
                /\ c # NoOffsets => TrueOffsets(c, n) /\ \A topic \in Topic : a.last[topic] > 0
        BY <2>1 DEF Shortens
      <3>2. Sound([a EXCEPT !.pending = q, !.candidate = c], n, low)
        BY <1>2, <3>1, PendingSound
      <3> QED BY <3>1, <3>2
    <2>2. CASE Synchronizes(a, LearnBurst(a))
      BY <1>2, <2>2, SyncSound DEF Synchronizes
    <2> QED BY <1>2, <2>1, <2>2, LearnBurstIs
  <1> QED BY <1>1, <1>2

\* Repeating a step any number of times is a function.
Repeats(f, step, start) ==
    \A i \in Nat : f[i] = IF i = 0 THEN start ELSE step[f[i - 1]]

LEMMA Repeated ==
    ASSUME NEW S, NEW Step \in [S -> S], NEW a \in S
    PROVE  \E f \in [Nat -> S] : Repeats(f, Step, a)
  <1> DEFINE all == Nat \X S
             IsClosed(T) == <<0, a>> \in T /\ \A t \in T : <<t[1] + 1, Step[t[2]]>> \in T
             G == {z \in all : \A T \in SUBSET all : IsClosed(T) => z \in T}
  <1>1. IsClosed(all)
    OBVIOUS
  <1>2. G \in SUBSET all /\ IsClosed(G)
    <2>1. <<0, a>> \in G
      BY <1>1
    <2>2. ASSUME NEW t \in G PROVE <<t[1] + 1, Step[t[2]]>> \in G
      <3>1. <<t[1] + 1, Step[t[2]]>> \in all
        OBVIOUS
      <3>2. \A T \in SUBSET all : IsClosed(T) => t \in T
        OBVIOUS
      <3> QED BY <3>1, <3>2
    <2> QED BY <2>1, <2>2
  <1>3. ASSUME NEW z \in G, IsClosed(G \ {z}) PROVE FALSE
    <2>1. G \ {z} \in SUBSET all
      OBVIOUS
    <2> QED BY <1>3, <2>1
  <1> HIDE DEF G, all
  <1>4. \A i \in Nat : \E x \in S : <<i, x>> \in G
    <2> DEFINE bad == {i \in Nat : ~ \E x \in S : <<i, x>> \in G}
    <2>1. SUFFICES ASSUME bad # {} PROVE FALSE
      OBVIOUS
    <2>2. PICK m \in bad : \A y \in bad : m <= y
      <3> HIDE DEF G
      <3> QED BY <2>1, SmallestNumber
    <2>3. m \in Nat /\ m # 0
      BY <1>2
    <2>4. m - 1 \in Nat /\ m - 1 \notin bad
      <3>1. m - 1 \in Nat /\ ~(m <= m - 1)
        BY <2>3
      <3> HIDE DEF bad
      <3> QED BY <2>2, <3>1
    <2>5. PICK x \in S : <<m - 1, x>> \in G
      BY <2>4
    <2>6. <<(m - 1) + 1, Step[x]>> \in G
      BY <1>2, <2>5
    <2>7. (m - 1) + 1 = m /\ Step[x] \in S
      BY <2>3
    <2> QED BY <2>6, <2>7
  <1>5. \A x \in S : <<0, x>> \in G => x = a
    <2> SUFFICES ASSUME NEW x \in S, <<0, x>> \in G, x # a PROVE FALSE
      OBVIOUS
    <2>1. ASSUME NEW t \in G PROVE <<t[1] + 1, Step[t[2]]>> # <<0, x>>
      BY <1>2 DEF all
    <2> QED BY <1>2, <1>3, <2>1
  <1>6. ASSUME NEW m \in Nat \ {0}, NEW w \in S, <<m - 1, w>> \in G,
               \A y \in S : <<m - 1, y>> \in G => y = w, NEW x \in S, <<m, x>> \in G
        PROVE  x = Step[w]
    <2> SUFFICES ASSUME x # Step[w] PROVE FALSE
      OBVIOUS
    <2>1. ASSUME NEW t \in G PROVE <<t[1] + 1, Step[t[2]]>> # <<m, x>>
      <3>1. t[1] \in Nat /\ t[2] \in S /\ t = <<t[1], t[2]>>
        BY <1>2 DEF all
      <3>2. SUFFICES ASSUME t[1] + 1 = m, Step[t[2]] = x PROVE FALSE
        OBVIOUS
      <3>3. t[1] = m - 1
        BY <3>1, <3>2
      <3> QED BY <1>6, <3>1, <3>2, <3>3
    <2> QED BY <1>2, <1>3, <1>6, <2>1
  <1>7. \A i \in Nat : \A x, y \in S : <<i, x>> \in G /\ <<i, y>> \in G => x = y
    <2> DEFINE bad == {i \in Nat : ~ \A x, y \in S : <<i, x>> \in G /\ <<i, y>> \in G => x = y}
    <2>1. SUFFICES ASSUME bad # {} PROVE FALSE
      OBVIOUS
    <2>2. PICK m \in bad : \A y \in bad : m <= y
      BY <2>1, SmallestNumber
    <2>3. m \in Nat /\ m # 0
      BY <1>5
    <2>4. m - 1 \in Nat /\ m - 1 \notin bad
      BY <2>2, <2>3
    <2>5. PICK w \in S : <<m - 1, w>> \in G
      BY <1>4, <2>4
    <2>6. \A y \in S : <<m - 1, y>> \in G => y = w
      BY <2>4, <2>5
    <2>7. \A x \in S : <<m, x>> \in G => x = Step[w]
      BY <1>6, <2>3, <2>5, <2>6
    <2> QED BY <2>7
  <1> DEFINE f == [i \in Nat |-> CHOOSE x \in S : <<i, x>> \in G]
  <1>8. \A i \in Nat : f[i] \in S /\ <<i, f[i]>> \in G
    BY <1>4
  <1>9. f \in [Nat -> S]
    BY <1>8
  <1> HIDE DEF f
  <1>10. ASSUME NEW i \in Nat PROVE f[i] = IF i = 0 THEN a ELSE Step[f[i - 1]]
    <2>1. CASE i = 0
      BY <1>5, <1>8, <2>1
    <2>2. CASE i # 0
      <3>1. i - 1 \in Nat /\ (i - 1) + 1 = i
        BY <2>2
      <3>2. <<i, Step[f[i - 1]]>> \in G
        <4>1. <<i - 1, f[i - 1]>> \in G
          BY <1>8, <3>1
        <4> QED BY <1>2, <3>1, <4>1
      <3>3. Step[f[i - 1]] \in S
        BY <1>8, <3>1
      <3> QED BY <1>7, <1>8, <2>2, <3>2, <3>3
    <2> QED BY <2>1, <2>2
  <1> QED BY <1>9, <1>10 DEF Repeats

\* What every turn of the learner keeps, the learner keeps.
LEMMA LearnKeeps ==
    ASSUME NEW S, \A r \in S : LearnBurst(r) \in S, NEW a \in S, Len(a.pending[First]) \in Nat
    PROVE  Learn(a) \in S
  <1> DEFINE Step == [r \in S |-> LearnBurst(r)]
             turn[i \in Nat] == IF i = 0 THEN a ELSE LearnBurst(turn[i - 1])
  <1>1. Step \in [S -> S] /\ \A r \in S : Step[r] = LearnBurst(r)
    OBVIOUS
  <1>2. PICK f \in [Nat -> S] : Repeats(f, Step, a)
    <2> HIDE DEF Step, turn
    <2> QED BY <1>1, Repeated
  <1> HIDE DEF Step
  <1>3. f = [i \in Nat |-> IF i = 0 THEN a ELSE LearnBurst(f[i - 1])]
    <2>1. \A i \in Nat : f[i] = IF i = 0 THEN a ELSE LearnBurst(f[i - 1])
      <3> SUFFICES ASSUME NEW i \in Nat PROVE f[i] = IF i = 0 THEN a ELSE LearnBurst(f[i - 1])
        OBVIOUS
      <3>1. i # 0 => i - 1 \in Nat
        OBVIOUS
      <3>2. i # 0 => f[i - 1] \in S
        BY <3>1
      <3>3. f[i] = IF i = 0 THEN a ELSE Step[f[i - 1]]
        BY <1>2 DEF Repeats
      <3> QED BY <1>1, <3>2, <3>3
    <2> QED BY <2>1
  <1>4. turn = [i \in Nat |-> IF i = 0 THEN a ELSE LearnBurst(turn[i - 1])]
    <2>1. turn = CHOOSE g : g = [i \in Nat |-> IF i = 0 THEN a ELSE LearnBurst(g[i - 1])]
      OBVIOUS
    <2> HIDE DEF turn
    <2> QED BY <1>3, <2>1
  <1>5. Learn(a) = turn[Len(a.pending[First]) + 1]
    BY DEF Learn
  <1> HIDE DEF turn
  <1>6. \A i \in Nat : turn[i] \in S
    <2> DEFINE bad == {i \in Nat : turn[i] \notin S}
    <2>1. SUFFICES ASSUME bad # {} PROVE FALSE
      OBVIOUS
    <2>2. PICK m \in bad : \A y \in bad : m <= y
      BY <2>1, SmallestNumber
    <2>3. m \in Nat /\ m # 0
      BY <1>4
    <2>4. m - 1 \in Nat /\ m - 1 \notin bad
      BY <2>2, <2>3
    <2>5. turn[m] = LearnBurst(turn[m - 1])
      BY <1>4, <2>3
    <2> QED BY <2>4, <2>5
  <1> QED BY <1>5, <1>6

LEMMA LearnSound ==
    ASSUME NEW a, NEW n, NEW low, Sound(a, n, low)
    PROVE  Sound(Learn(a), n, low)
  <1> DEFINE S == {r \in AssemblerRecords : Sound(r, n, low)}
  <1>1. a \in S /\ \A r \in S : LearnBurst(r) \in S
    BY LearnBurstSound DEF Sound
  <1>2. Len(a.pending[First]) \in Nat
    BY TopicFacts DEF Sound, AssemblerRecords
  <1> HIDE DEF S
  <1>3. Learn(a) \in S
    BY <1>1, <1>2, LearnKeeps
  <1> QED BY <1>3 DEF S

----------------------------------------------------------------------------
(* One message *)

Further(n, topic) == [n EXCEPT ![topic] = @ + 1]

\* A topic goes on to its next message. Where that is the first of a devkit that
\* started again, no message of the topic has been seen since the last resync.
LEMMA NextSound ==
    ASSUME NEW a, NEW n, NEW low, Sound(a, n, low), NEW t \in Topic, n[t] <= Bursts,
           n[t] = restart => a.last[t] = 0
    PROVE  LET m == Further(n, t) IN
           /\ Devkit(m, low) /\ HeldSound(a, m, low) /\ NumbersSound(a, m)
           /\ OffsetsSound(a, m) /\ OutSound(a, m, low)
           /\ n[t] \in 1 .. Bursts /\ low < n[t] /\ m[t] = n[t] + 1
           /\ \A topic \in Topic : topic # t => m[topic] = n[topic]
           /\ Renewed(t, m) => Anew(n[t])
  <1> DEFINE m == Further(n, t)
  <1>m. m = [n EXCEPT ![t] = @ + 1]
    BY DEF Further
  <1> HIDE DEF m
  <1>1. /\ restart \in 0 .. Bursts /\ stalled \in SUBSET (1 .. Bursts)
        /\ n \in [Topic -> 1 .. Bursts + 1] /\ Bursts \in Nat
        /\ low \in 0 .. Bursts /\ \A topic \in Topic : low < n[topic]
    BY AssemblerAssumption DEF Sound, Devkit
  <1>2. n[t] \in 1 .. Bursts /\ low < n[t] /\ m[t] = n[t] + 1
        /\ \A topic \in Topic : topic # t => m[topic] = n[topic]
    <2>1. n[t] \in 1 .. Bursts + 1
      BY <1>1
    <2>2. n[t] \in 1 .. Bursts
      BY <1>1, <2>1
    <2> QED BY <1>1, <1>m, <2>2
  <1>3. \A topic \in Topic : /\ n[topic] \in Nat /\ m[topic] \in Nat /\ n[topic] <= m[topic]
                             /\ m[topic] \in 1 .. Bursts + 1
    <2> SUFFICES ASSUME NEW topic \in Topic
                 PROVE  /\ n[topic] \in Nat /\ m[topic] \in Nat /\ n[topic] <= m[topic]
                        /\ m[topic] \in 1 .. Bursts + 1
      OBVIOUS
    <2>1. n[topic] \in 1 .. Bursts + 1
      BY <1>1
    <2>2. m[topic] = n[topic] \/ (topic = t /\ m[topic] = n[topic] + 1 /\ n[topic] \in 1 .. Bursts)
      BY <1>2
    <2> QED BY <1>1, <2>1, <2>2
  <1>4. m \in [Topic -> 1 .. Bursts + 1]
    <2>1. m = [topic \in Topic |-> m[topic]]
      BY <1>1, <1>m
    <2> QED BY <1>3, <2>1
  <1>5. Devkit(m, low)
    <2>1. \A topic \in Topic : low < m[topic]
      BY <1>1, <1>3
    <2> QED BY <1>1, <1>4, <2>1 DEF Devkit
  <1>6. \A topic \in Topic : a.last[topic] > 0 => (Renewed(topic, m) <=> Renewed(topic, n))
    <2> SUFFICES ASSUME NEW topic \in Topic, a.last[topic] > 0
                 PROVE  Renewed(topic, m) <=> Renewed(topic, n)
      OBVIOUS
    <2>1. CASE topic # t
      BY <1>2, <2>1 DEF Renewed
    <2>2. CASE topic = t
      <3>1. n[t] # restart
        BY <2>2
      <3> QED BY <1>1, <1>2, <2>2, <3>1 DEF Renewed
    <2> QED BY <2>1, <2>2
  <1>7. HeldSound(a, m, low)
    <2>1. HeldSound(a, n, low)
      BY DEF Sound
    <2> SUFFICES ASSUME NEW topic \in Topic, NEW burst \in 1 .. Bursts, Holds(a, topic, burst)
                 PROVE  /\ low < burst /\ burst < m[topic]
                        /\ Renewed(topic, m) => Anew(burst)
                        /\ a.last[topic] > 0
                        /\ \A i \in 1 .. Len(a.out) : a.out[i][First] < burst
      BY DEF HeldSound
    <2>2. /\ low < burst /\ burst < n[topic]
          /\ Renewed(topic, n) => Anew(burst)
          /\ a.last[topic] > 0
          /\ \A i \in 1 .. Len(a.out) : a.out[i][First] < burst
      BY <2>1 DEF HeldSound
    <2>3. burst < m[topic]
      BY <1>3, <2>2
    <2> QED BY <1>6, <2>2, <2>3
  <1>8. NumbersSound(a, m)
    <2> SUFFICES ASSUME NEW topic \in Topic, a.last[topic] # 0
                 PROVE  \E burst \in 1 .. Bursts :
                           /\ burst < m[topic] /\ a.last[topic] = Sequence(topic, burst)
                           /\ Renewed(topic, m) => Anew(burst)
      BY DEF NumbersSound
    <2>1. PICK burst \in 1 .. Bursts :
              /\ burst < n[topic] /\ a.last[topic] = Sequence(topic, burst)
              /\ Renewed(topic, n) => Anew(burst)
      BY DEF Sound, NumbersSound
    <2>2. a.last[topic] \in Nat /\ a.last[topic] > 0
      BY DEF Sound, AssemblerRecords
    <2>3. burst < m[topic]
      BY <1>3, <2>1
    <2> QED BY <1>6, <2>1, <2>2, <2>3
  <1>9. OffsetsSound(a, m)
    <2> SUFFICES ASSUME NEW o \in {a.offsets, a.candidate}, o # NoOffsets
                 PROVE  TrueOffsets(o, m) /\ \A topic \in Topic : a.last[topic] > 0
      BY DEF OffsetsSound
    <2>1. TrueOffsets(o, n) /\ \A topic \in Topic : a.last[topic] > 0
      BY DEF Sound, OffsetsSound
    <2> QED BY <1>6, <2>1 DEF TrueOffsets
  <1>10. OutSound(a, m, low)
    <2>1. OutSound(a, n, low) /\ a.out \in Seq([Topic -> 1 .. Bursts])
      BY DEF Sound, AssemblerRecords
    <2>2. \A i \in 1 .. Len(a.out) : \A topic \in Topic : a.out[i][First] < m[topic]
      <3> SUFFICES ASSUME NEW i \in 1 .. Len(a.out), NEW topic \in Topic
                   PROVE  a.out[i][First] < m[topic]
        OBVIOUS
      <3>1. a.out[i] \in [Topic -> 1 .. Bursts]
        BY <2>1, ElementOfSeq
      <3>2. a.out[i][First] \in Nat /\ a.out[i][First] < n[topic]
        <4>1. a.out[i][First] \in 1 .. Bursts
          BY <3>1, TopicFacts
        <4>2. \A y \in 1 .. Bursts : y \in Nat
          BY <1>1
        <4>3. a.out[i][First] < n[topic]
          BY <2>1 DEF OutSound
        <4> QED BY <4>1, <4>2, <4>3
      <3> QED BY <1>3, <3>2
    <2> QED BY <2>1, <2>2 DEF OutSound
  <1>11. Renewed(t, m) => Anew(n[t])
    BY <1>1, <1>2 DEF Renewed, Anew
  <1> QED BY <1>2, <1>5, <1>7, <1>8, <1>9, <1>10, <1>11 DEF m

\* Of a topic that is not the first, or none of which is queued, a message may be lost.
LEMMA LostSound ==
    ASSUME NEW a, NEW n, NEW low, Sound(a, n, low), NEW t \in Topic, n[t] <= Bursts,
           n[t] = restart => a.last[t] = 0, t = First => a.pending[First] = <<>>
    PROVE  Sound(a, Further(n, t), low)
  <1> DEFINE m == Further(n, t)
  <1>1. /\ Devkit(m, low) /\ HeldSound(a, m, low) /\ NumbersSound(a, m)
        /\ OffsetsSound(a, m) /\ OutSound(a, m, low)
        /\ \A topic \in Topic : topic # t => m[topic] = n[topic]
    BY NextSound
  <1> HIDE DEF m
  <1>2. QueuesSound(a, m)
    <2>1. CASE t # First
      BY <1>1, <2>1, TopicFacts DEF Sound, QueuesSound
    <2>2. CASE a.pending[First] = <<>>
      <3>1. \A i \in 1 .. Len(a.pending[First]) : FALSE
        BY <2>2
      <3> QED BY <3>1 DEF Sound, QueuesSound
    <2> QED BY <2>1, <2>2
  <1>3. Sound(a, m, low)
    BY <1>1, <1>2 DEF Sound
  <1> QED BY <1>3 DEF m

\* The message is numbered, and at most it is held too.
LEMMA HeardSound ==
    ASSUME NEW a, NEW n, NEW low, Sound(a, n, low), NEW t \in Topic, n[t] <= Bursts,
           n[t] = restart => a.last[t] = 0, a.out = <<>>, NEW b \in AssemblerRecords,
           b.offsets = a.offsets, b.candidate = a.candidate, b.out = a.out,
           b.last = [a.last EXCEPT ![t] = Sequence(t, n[t])],
           \A topic \in Topic, burst \in 1 .. Bursts :
              Holds(b, topic, burst) => Holds(a, topic, burst) \/ (topic = t /\ burst = n[t]),
           PhaseSound(b), QueuesSound(b, Further(n, t))
    PROVE  Sound(b, Further(n, t), low)
  <1> DEFINE m == Further(n, t)
  <1>1. /\ Devkit(m, low) /\ HeldSound(a, m, low) /\ NumbersSound(a, m)
        /\ OffsetsSound(a, m) /\ OutSound(a, m, low)
        /\ n[t] \in 1 .. Bursts /\ low < n[t] /\ m[t] = n[t] + 1
        /\ Renewed(t, m) => Anew(n[t])
    BY NextSound
  <1>q. PhaseSound(b) /\ QueuesSound(b, m)
    OBVIOUS
  <1> HIDE DEF m
  <1>2. /\ a.last \in [Topic -> Nat] /\ Bursts \in Nat /\ restart \in Nat
    BY AssemblerAssumption DEF Sound, AssemblerRecords, Devkit
  <1>3. Sequence(t, n[t]) \in Nat /\ Sequence(t, n[t]) > 0
    <2>1. n[t] \in Nat \ {0}
      BY <1>1, <1>2
    <2>2. Sequence(t, n[t]) \in Nat \ {0}
      BY <1>2, <2>1, SequenceIs
    <2> QED BY <2>2
  <1>4. /\ b.last[t] = Sequence(t, n[t]) /\ \A topic \in Topic : topic # t => b.last[topic] = a.last[topic]
        /\ \A topic \in Topic : a.last[topic] > 0 => b.last[topic] > 0
    BY <1>2, <1>3
  <1>5. n[t] < m[t]
    BY <1>1, <1>2
  <1>6. HeldSound(b, m, low)
    <2> SUFFICES ASSUME NEW topic \in Topic, NEW burst \in 1 .. Bursts, Holds(b, topic, burst)
                 PROVE  /\ low < burst /\ burst < m[topic]
                        /\ Renewed(topic, m) => Anew(burst)
                        /\ b.last[topic] > 0
                        /\ \A i \in 1 .. Len(b.out) : b.out[i][First] < burst
      BY DEF HeldSound
    <2>1. \A i \in 1 .. Len(b.out) : FALSE
      OBVIOUS
    <2>2. CASE Holds(a, topic, burst)
      BY <1>1, <1>4, <2>1, <2>2 DEF HeldSound
    <2>3. CASE topic = t /\ burst = n[t]
      BY <1>1, <1>3, <1>4, <1>5, <2>1, <2>3
    <2> QED BY <2>2, <2>3
  <1>7. NumbersSound(b, m)
    <2> SUFFICES ASSUME NEW topic \in Topic, b.last[topic] # 0
                 PROVE  \E burst \in 1 .. Bursts :
                           /\ burst < m[topic] /\ b.last[topic] = Sequence(topic, burst)
                           /\ Renewed(topic, m) => Anew(burst)
      BY DEF NumbersSound
    <2>1. CASE topic = t
      BY <1>1, <1>4, <1>5, <2>1
    <2>2. CASE topic # t
      BY <1>1, <1>4, <2>2 DEF NumbersSound
    <2> QED BY <2>1, <2>2
  <1>8. OffsetsSound(b, m)
    BY <1>1, <1>4 DEF OffsetsSound
  <1>9. OutSound(b, m, low)
    BY <1>1 DEF OutSound
  <1>10. Sound(b, m, low)
    BY <1>1, <1>q, <1>6, <1>7, <1>8, <1>9 DEF Sound
  <1> QED BY <1>10 DEF m

\* While it learns, the message is queued.
LEMMA AppendSound ==
    ASSUME NEW a, NEW n, NEW low, Sound(a, n, low), NEW t \in Topic, n[t] <= Bursts,
           n[t] = restart => a.last[t] = 0, a.out = <<>>, ~a.synced, NEW p \in Seq(1 .. Bursts), Suffix(p, a.pending[t])
    PROVE  Sound([a EXCEPT !.last = [@ EXCEPT ![t] = Sequence(t, n[t])],
                           !.pending = [@ EXCEPT ![t] = Append(p, n[t])]], Further(n, t), low)
  <1> DEFINE l == [a.last EXCEPT ![t] = Sequence(t, n[t])]
             r == Append(p, n[t])
             q == [a.pending EXCEPT ![t] = r]
             b == [a EXCEPT !.last = l, !.pending = q]
             m == Further(n, t)
  <1>1. n[t] \in 1 .. Bursts /\ m[t] = n[t] + 1 /\ \A topic \in Topic : topic # t => m[topic] = n[topic]
    BY NextSound
  <1> HIDE DEF m
  <1>2. a \in AssemblerRecords /\ Bursts \in Nat /\ restart \in Nat
        /\ a.pending \in [Topic -> Seq(1 .. Bursts)] /\ a.last \in [Topic -> Nat]
    <2>1. a \in AssemblerRecords /\ Bursts \in Nat /\ restart \in 0 .. Bursts
      BY AssemblerAssumption DEF Sound, Devkit
    <2> QED BY <2>1 DEF AssemblerRecords
  <1>3. l \in [Topic -> Nat]
    <2>1. n[t] \in Nat \ {0}
      BY <1>1, <1>2
    <2>2. Sequence(t, n[t]) \in Nat
      BY <1>2, <2>1, SequenceIs
    <2> QED BY <1>2, <2>2
  <1>4. /\ r \in Seq(1 .. Bursts) /\ Len(p) \in Nat /\ Len(r) = Len(p) + 1
        /\ \A i \in 1 .. Len(p) : r[i] = p[i]
        /\ r[Len(p) + 1] = n[t]
    BY <1>1
  <1>5. /\ q \in [Topic -> Seq(1 .. Bursts)] /\ q[t] = r
        /\ \A topic \in Topic : topic # t => q[topic] = a.pending[topic]
    BY <1>2, <1>4
  <1> HIDE DEF l, q, r
  <1>6. /\ b \in AssemblerRecords /\ b.synced = a.synced /\ b.offsets = a.offsets
        /\ b.candidate = a.candidate /\ b.frames = a.frames /\ b.dead = a.dead
        /\ b.last = l /\ b.pending = q /\ b.out = a.out
    BY <1>2, <1>3, <1>5 DEF AssemblerRecords
  <1> HIDE DEF b
  <1>7. /\ \A i \in 1 .. Len(p) : p[i] \in 1 .. Bursts /\ Holds(a, t, p[i])
        /\ \A i, j \in 1 .. Len(p) : i < j => p[i] < p[j]
    BY SuffixHeld
  <1>8. \A i \in 1 .. Len(p) : p[i] < n[t]
    BY <1>7 DEF Sound, HeldSound
  <1>9. ASSUME NEW topic \in Topic, NEW burst \in 1 .. Bursts, Holds(b, topic, burst)
        PROVE  Holds(a, topic, burst) \/ (topic = t /\ burst = n[t])
    <2>1. CASE <<topic, burst>> \in a.frames
      BY <2>1 DEF Holds
    <2>2. CASE \E i \in 1 .. Len(q[topic]) : q[topic][i] = burst
      <3>1. PICK i \in 1 .. Len(q[topic]) : q[topic][i] = burst
        BY <2>2
      <3>2. CASE topic # t
        BY <1>5, <3>1, <3>2 DEF Holds
      <3>3. CASE topic = t
        <4>1. i \in 1 .. Len(p) \/ i = Len(p) + 1
          BY <1>4, <1>5, <3>1, <3>3
        <4> QED BY <1>4, <1>5, <1>7, <3>1, <3>3, <4>1
      <3> QED BY <3>2, <3>3
    <2> QED BY <1>6, <1>9, <2>1, <2>2 DEF Holds
  <1>10. PhaseSound(b)
    BY <1>6 DEF Sound, PhaseSound
  <1>11. QueuesSound(a, n)
    BY DEF Sound
  <1>12. \A i, j \in 1 .. Len(r) : i < j => r[i] < r[j]
    <2> SUFFICES ASSUME NEW i \in 1 .. Len(r), NEW j \in 1 .. Len(r), i < j PROVE r[i] < r[j]
      OBVIOUS
    <2>1. i \in 1 .. Len(p) /\ r[i] = p[i]
      BY <1>4
    <2>2. CASE j \in 1 .. Len(p)
      BY <1>4, <1>7, <2>1, <2>2
    <2>3. CASE j = Len(p) + 1
      <3>1. r[j] = n[t]
        BY <1>4, <2>3
      <3>2. p[i] < n[t]
        BY <1>8, <2>1
      <3> QED BY <2>1, <3>1, <3>2
    <2>4. j \in 1 .. Len(p) \/ j = Len(p) + 1
      BY <1>4
    <2> QED BY <2>2, <2>3, <2>4
  <1>13. \A i \in 1 .. Len(q[First]) : q[First][i] = m[First] - 1 - Len(q[First]) + i
    <2>1. CASE t # First
      BY <1>1, <1>5, <1>11, <2>1, TopicFacts DEF QueuesSound
    <2>2. CASE t = First
      <3> DEFINE w == a.pending[First] k == Len(w) z == Len(p)
      <3>1. w \in Seq(1 .. Bursts) /\ k \in Nat /\ z \in Nat /\ n[First] \in Nat
        <4>1. n[First] \in Nat
          BY <1>1, <1>2, <2>2
        <4>2. w \in Seq(1 .. Bursts)
          BY <1>2, TopicFacts
        <4> HIDE DEF w
        <4> QED BY <1>4, <4>1, <4>2
      <3>2. PICK d \in 0 .. k : z = k - d /\ \A i \in 1 .. z : p[i] = w[i + d]
        BY <2>2 DEF Suffix
      <3>3. \A i \in 1 .. k : w[i] = n[First] - 1 - k + i
        BY <1>11 DEF QueuesSound
      <3>4. q[First] = r /\ Len(r) = z + 1 /\ m[First] = n[First] + 1 /\ r[z + 1] = n[First]
            /\ \A i \in 1 .. z : r[i] = p[i]
        BY <1>1, <1>4, <1>5, <2>2
      <3> HIDE DEF w, k, z
      <3>5. ASSUME NEW i \in 1 .. z PROVE r[i] = n[First] - 1 - z + i
        <4>1. i + d \in 1 .. k
          BY <3>1, <3>2
        <4>2. r[i] = n[First] - 1 - k + (i + d)
          BY <3>2, <3>3, <3>4, <4>1
        <4> QED BY <3>1, <3>2, <4>2
      <3>6. ASSUME NEW i \in 1 .. z + 1 PROVE r[i] = (n[First] + 1) - 1 - (z + 1) + i
        <4>1. CASE i \in 1 .. z
          <5>1. r[i] = n[First] - 1 - z + i
            BY <3>5, <4>1
          <5> QED BY <3>1, <5>1
        <4>2. CASE i = z + 1
          <5>1. r[i] = n[First]
            BY <3>4, <4>2
          <5>2. n[First] = (n[First] + 1) - 1 - (z + 1) + (z + 1)
            BY <3>1
          <5> QED BY <4>2, <5>1, <5>2
        <4> QED BY <3>1, <4>1, <4>2
      <3> QED BY <3>4, <3>6
    <2> QED BY <2>1, <2>2
  <1>14. QueuesSound(b, m)
    <2>1. \A topic \in Topic : \A i, j \in 1 .. Len(q[topic]) : i < j => q[topic][i] < q[topic][j]
      BY <1>5, <1>11, <1>12 DEF QueuesSound
    <2> QED BY <1>6, <1>13, <2>1 DEF QueuesSound
  <1>15. Sound(b, m, low)
    <2>1. QueuesSound(b, Further(n, t)) /\ b.last = [a.last EXCEPT ![t] = Sequence(t, n[t])]
      BY <1>6, <1>14 DEF m, l
    <2>2. Sound(b, Further(n, t), low)
      BY <1>6, <1>9, <1>10, <2>1, HeardSound
    <2> QED BY <2>2 DEF m
  <1>16. b = [a EXCEPT !.last = [@ EXCEPT ![t] = Sequence(t, n[t])],
                       !.pending = [@ EXCEPT ![t] = Append(p, n[t])]]
    BY <1>2 DEF b, l, q, r, AssemblerRecords
  <1> QED BY <1>15, <1>16 DEF m

\* What a message finds: a sequence that is no later than the last is that of a
\* devkit that started again, and only that.
ResumedFrom(topic, burst) ==
    IF last[topic] > 0 /\ Sequence(topic, burst) <= last[topic] THEN Resync(Current) ELSE Current

LEMMA CurrentIs ==
    /\ Current.synced = synced /\ Current.offsets = offsets /\ Current.candidate = candidate
    /\ Current.pending = pending /\ Current.frames = frames /\ Current.dead = dead
    /\ Current.last = last /\ Current.dropped = droppedFrames /\ Current.base = syncedAt
    /\ Current.out = <<>>
  BY DEF Current

LEMMA ResumedSound ==
    ASSUME Sound(Current, next, newest), NEW t \in Topic, next[t] <= Bursts
    PROVE  /\ Sound(ResumedFrom(t, next[t]), next, newest)
           /\ next[t] = restart => ResumedFrom(t, next[t]).last[t] = 0
           /\ ResumedFrom(t, next[t]).out = <<>>
           /\ ResumedFrom(t, next[t]).synced => ResumedFrom(t, next[t]) = Current
           /\ ResumedFrom(t, next[t]) = Resync(Current) => next[t] = restart \/ ~synced
  <1> DEFINE b == next[t]
             anew == last[t] > 0 /\ Sequence(t, b) <= last[t]
             r == ResumedFrom(t, b)
  <1>1. /\ restart \in Nat /\ b \in Nat \ {0} /\ last[t] \in Nat
    <2>1. /\ restart \in 0 .. Bursts /\ next \in [Topic -> 1 .. Bursts + 1] /\ Bursts \in Nat
          /\ Current.last \in [Topic -> Nat]
      BY AssemblerAssumption DEF Sound, Devkit, AssemblerRecords
    <2>2. b \in 1 .. Bursts + 1 /\ \A y \in 1 .. Bursts + 1 : y \in Nat \ {0}
      BY <2>1
    <2>3. restart \in Nat
      BY <2>1
    <2>4. last \in [Topic -> Nat]
      BY <2>1, CurrentIs
    <2> QED BY <2>2, <2>3, <2>4
  <1>2. anew => b = restart
    <2> SUFFICES ASSUME anew, b # restart PROVE FALSE
      OBVIOUS
    <2>1. PICK c \in 1 .. Bursts : /\ c < b /\ last[t] = Sequence(t, c)
                                   /\ Renewed(t, next) => Anew(c)
      BY <1>1, CurrentIs DEF Sound, NumbersSound
    <2>2. c \in Nat \ {0}
      BY AssemblerAssumption
    <2>3. Anew(c) <=> Anew(b)
      BY <1>1, <2>1, <2>2 DEF Renewed, Anew
    <2>4. Sequence(t, b) - Sequence(t, c) = b - c
      BY <1>1, <2>2, <2>3, SequenceSteps
    <2>5. Sequence(t, b) \in Nat /\ Sequence(t, c) \in Nat
      BY <1>1, <2>2, SequenceIs
    <2> DEFINE x == Sequence(t, b) y == Sequence(t, c)
    <2>6. x <= y /\ x \in Nat /\ y \in Nat /\ x - y = b - c /\ c < b
      BY <2>1, <2>4, <2>5
    <2> HIDE DEF x, y, b
    <2>7. b \in Nat /\ c \in Nat
      BY <1>1, <2>2
    <2> QED BY <2>6, <2>7
  <1>3. b = restart /\ last[t] > 0 => anew
    <2> SUFFICES ASSUME b = restart, last[t] > 0 PROVE Sequence(t, b) <= last[t]
      OBVIOUS
    <2>1. Sequence(t, b) = 1
      BY <1>1 DEF Sequence
    <2> QED BY <1>1, <2>1
  <1>4. r = IF anew THEN Resync(Current) ELSE Current
    BY DEF ResumedFrom
  <1>5. /\ Sound(Resync(Current), next, newest) /\ ~Resync(Current).synced
        /\ Resync(Current).out = Current.out
    BY ResyncSound
  <1>6. Resync(Current).last[t] = 0
    BY DEF Resync, Current
  <1> HIDE DEF r, anew, b
  <1>7. CASE anew
    BY <1>2, <1>4, <1>5, <1>6, <1>7, CurrentIs DEF r, b
  <1>8. CASE ~anew
    <2>1. r = Current /\ (b = restart => last[t] = 0)
      BY <1>1, <1>3, <1>4, <1>8
    <2>2. Current = Resync(Current) => ~synced
      BY <1>5, CurrentIs
    <2> QED BY <2>1, <2>2, CurrentIs DEF r, b
  <1> QED BY <1>7, <1>8

\* While it learns, the message is queued and the learner tries.
Queued(r, t, b) == [Numbered(r, t, b) EXCEPT !.pending[t] = Queue(@, b)]

LEMMA QueuedIs ==
    ASSUME Sound(Current, next, newest), NEW t \in Topic, next[t] <= Bursts,
           NEW r, r = ResumedFrom(t, next[t]), ~r.synced
    PROVE  /\ Sound(Queued(r, t, next[t]), Further(next, t), newest)
           /\ \E p \in Seq(1 .. Bursts) :
                 /\ Suffix(p, r.pending[t])
                 /\ Queued(r, t, next[t])
                       = [r EXCEPT !.last = [@ EXCEPT ![t] = Sequence(t, next[t])],
                                   !.pending = [@ EXCEPT ![t] = Append(p, next[t])]]
  <1> DEFINE b == next[t]
             q == r.pending[t]
             p == IF Len(q) = MaxFrames THEN Tail(q) ELSE q
             c == [r EXCEPT !.last = [@ EXCEPT ![t] = Sequence(t, b)],
                            !.pending = [@ EXCEPT ![t] = Append(p, b)]]
  <1>1. Sound(r, next, newest) /\ (b = restart => r.last[t] = 0) /\ r.out = <<>>
    BY ResumedSound
  <1>2. r \in AssemblerRecords /\ q \in Seq(1 .. Bursts) /\ MaxFrames \in Nat \ {0}
    BY <1>1, AssemblerAssumption DEF Sound, AssemblerRecords
  <1>3. p \in Seq(1 .. Bursts) /\ Suffix(p, q)
    <2> DEFINE S == 1 .. Bursts
    <2> HIDE DEF S, q
    <2>0. q \in Seq(S)
      BY <1>2 DEF S
    <2>1. CASE Len(q) = MaxFrames
      <3>1. q # <<>>
        BY <1>2, <2>0, <2>1
      <3>2. Tail(q) \in Seq(S) /\ Suffix(Tail(q), q)
        BY <2>0, <3>1, TailIsSuffix
      <3> QED BY <2>1, <3>2 DEF S
    <2>2. CASE Len(q) # MaxFrames
      <3>1. Suffix(q, q)
        <4>1. 0 \in 0 .. Len(q) /\ Len(q) = Len(q) - 0 /\ \A i \in 1 .. Len(q) : i + 0 = i
          BY <2>0
        <4> QED BY <4>1 DEF Suffix
      <3> QED BY <1>2, <2>2, <3>1
    <2> QED BY <2>1, <2>2
  <1>4. [Numbered(r, t, b) EXCEPT !.pending[t] = Queue(@, b)] = c
    <2>1. Queue(q, b) = Append(p, b)
      BY DEF Queue
    <2> HIDE DEF p
    <2> QED BY <1>2, <2>1 DEF Numbered, AssemblerRecords
  <1>5. Sound(c, Further(next, t), newest)
    <2> HIDE DEF p
    <2> QED BY <1>1, <1>3, AppendSound
  <1>6. Queued(r, t, next[t]) = c
    BY <1>4 DEF Queued
  <1>7. Sound(Queued(r, t, next[t]), Further(next, t), newest)
    <2> HIDE DEF c
    <2> QED BY <1>5, <1>6
  <1> HIDE DEF p
  <1>8. /\ p \in Seq(1 .. Bursts) /\ Suffix(p, r.pending[t])
        /\ Queued(r, t, next[t])
              = [r EXCEPT !.last = [@ EXCEPT ![t] = Sequence(t, next[t])],
                          !.pending = [@ EXCEPT ![t] = Append(p, next[t])]]
    BY <1>3, <1>6
  <1> QED BY <1>7, <1>8

LEMMA QueuedSound ==
    ASSUME Sound(Current, next, newest), NEW t \in Topic, next[t] <= Bursts,
           NEW r, r = ResumedFrom(t, next[t]), ~r.synced
    PROVE  Sound(Learn([Numbered(r, t, next[t]) EXCEPT !.pending[t] = Queue(@, next[t])]),
                 Further(next, t), newest)
  <1>1. Sound(Queued(r, t, next[t]), Further(next, t), newest)
    BY QueuedIs
  <1> DEFINE c == Queued(r, t, next[t])
  <1> HIDE DEF c
  <1>2. Sound(Learn(c), Further(next, t), newest)
    BY <1>1, LearnSound DEF c
  <1> QED BY <1>2 DEF c, Queued

\* The sequences a gap skips are finitely many frames.
Skipped(lo, hi, k) == {s - k : s \in lo .. hi}

LEMMA GapFinite ==
    ASSUME NEW lo \in Int, NEW hi \in Int, NEW k \in Int
    PROVE  /\ Skipped(lo, hi, k) \in SUBSET Int
           /\ IsFiniteSet(Skipped(lo, hi, k))
           /\ \A f \in Int : f \in Skipped(lo, hi, k) <=> lo - k <= f /\ f <= hi - k
  <1> DEFINE lost == {s - k : s \in lo .. hi}
  <1>1. ASSUME NEW f \in Int PROVE f \in lost <=> lo - k <= f /\ f <= hi - k
    <2>1. ASSUME lo - k <= f, f <= hi - k PROVE f \in lost
      <3>1. f + k \in lo .. hi /\ f = (f + k) - k
        BY <2>1
      <3> QED BY <3>1
    <2>2. ASSUME f \in lost PROVE lo - k <= f /\ f <= hi - k
      <3>1. PICK s \in lo .. hi : f = s - k
        BY <2>2
      <3> QED BY <3>1
    <2> QED BY <2>1, <2>2
  <1>2. lost \in SUBSET Int
    OBVIOUS
  <1> HIDE DEF lost
  <1>3. IsFiniteSet(lost)
    <2>1. lost \subseteq (lo - k) .. (hi - k)
      BY <1>1, <1>2
    <2>2. IsFiniteSet((lo - k) .. (hi - k))
      BY FS_Interval
    <2> QED BY <2>1, <2>2, FS_Subset
  <1> QED BY <1>1, <1>2, <1>3 DEF lost, Skipped

\* In sync, fewer messages are held when frames are dropped, and the message may be.
LEMMA SyncedSound ==
    ASSUME Sound(Current, next, newest), NEW t \in Topic, next[t] <= Bursts,
           NEW r, r = ResumedFrom(t, next[t]), r.synced, NEW lo \in Int, NEW hi \in Int,
           NEW kept, kept \in {Numbered(r, t, next[t]),
                              DropFrames(Numbered(r, t, next[t]), t, lo .. hi)},
           NEW b, b \in {kept, [kept EXCEPT !.frames = @ \cup {<<t, next[t]>>}]}
    PROVE  Sound(b, Further(next, t), newest) /\ b.synced
  <1> DEFINE a == Numbered(r, t, next[t])
             k == a.offsets[t]
             lost == {s - k : s \in lo .. hi}
             l == [r.last EXCEPT ![t] = Sequence(t, next[t])]
  <1>1. /\ Sound(r, next, newest) /\ (next[t] = restart => r.last[t] = 0) /\ r.out = <<>>
        /\ r \in AssemblerRecords
    BY ResumedSound DEF Sound
  <1>2. next[t] \in 1 .. Bursts
    BY <1>1, NextSound
  <1>3. l \in [Topic -> Nat]
    <2>1. restart \in Nat /\ next[t] \in Nat \ {0}
      BY <1>1, <1>2, AssemblerAssumption DEF Sound, Devkit
    <2>2. Sequence(t, next[t]) \in Nat
      BY <2>1, SequenceIs
    <2> QED BY <1>1, <2>2 DEF AssemblerRecords
  <1> HIDE DEF l
  <1>4. /\ a \in AssemblerRecords /\ a.synced = r.synced /\ a.offsets = r.offsets
        /\ a.candidate = r.candidate /\ a.pending = r.pending /\ a.frames = r.frames
        /\ a.out = r.out /\ a.last = l /\ a.dead = r.dead
    <2>1. a = [r EXCEPT !.last = l]
      BY <1>1 DEF Numbered, l, AssemblerRecords
    <2> HIDE DEF a
    <2> QED BY <1>1, <1>3, <2>1 DEF AssemblerRecords
  <1> HIDE DEF a
  <1>5. k \in Int
    <2>1. a.offsets # NoOffsets
      BY <1>1, <1>4 DEF Sound, PhaseSound
    <2> QED BY <1>4, <2>1 DEF AssemblerRecords
  <1>6. lost \in SUBSET Int /\ IsFiniteSet(lost)
    <2>1. lost = Skipped(lo, hi, k)
      BY DEF Skipped
    <2> HIDE DEF k, lost
    <2> QED BY <1>5, <2>1, GapFinite
  <1>7. DropFrames(a, t, lo .. hi) =
            [a EXCEPT !.dead = @ \cup lost, !.dropped = @ + Cardinality(lost \ a.dead),
                      !.frames = {message \in @ : FrameOf(a, message) \notin lost}]
    BY DEF DropFrames
  <1> DEFINE c == Cardinality(lost \ a.dead)
  <1>8. c \in Nat
    BY <1>6, FS_Subset, FS_CardinalityType
  <1> HIDE DEF lost, c
  <1>9. /\ kept \in AssemblerRecords /\ kept.synced = a.synced /\ kept.offsets = a.offsets
        /\ kept.candidate = a.candidate /\ kept.pending = a.pending
        /\ kept.frames \subseteq a.frames /\ kept.out = a.out /\ kept.last = a.last
    <2>1. CASE kept = a
      BY <1>4, <2>1
    <2>2. CASE kept = DropFrames(a, t, lo .. hi)
      <3> DEFINE F == {message \in a.frames : FrameOf(a, message) \notin lost}
                 E == a.dead \cup lost
      <3>1. F \subseteq a.frames /\ F \in SUBSET (Topic \X (1 .. Bursts)) /\ E \in SUBSET Int
            /\ a.dropped + c \in Nat
        BY <1>4, <1>6, <1>8 DEF AssemblerRecords
      <3>2. kept = [a EXCEPT !.dead = E, !.dropped = a.dropped + c, !.frames = F]
        BY <1>4, <1>7, <2>2 DEF AssemblerRecords, c
      <3> HIDE DEF F, E
      <3> QED BY <1>4, <3>1, <3>2 DEF AssemblerRecords
    <2> QED BY <2>1, <2>2 DEF a
  <1>10. /\ b \in AssemblerRecords /\ b.synced = a.synced /\ b.offsets = a.offsets
         /\ b.candidate = a.candidate /\ b.pending = a.pending
         /\ b.frames \subseteq a.frames \cup {<<t, next[t]>>} /\ b.out = a.out /\ b.last = a.last
    <2>1. CASE b = kept
      BY <1>9, <2>1
    <2>2. CASE b = [kept EXCEPT !.frames = @ \cup {<<t, next[t]>>}]
      <3> DEFINE F == kept.frames \cup {<<t, next[t]>>}
      <3>1. F \in SUBSET (Topic \X (1 .. Bursts)) /\ F \subseteq a.frames \cup {<<t, next[t]>>}
        BY <1>2, <1>9 DEF AssemblerRecords
      <3>2. b = [kept EXCEPT !.frames = F]
        BY <1>9, <2>2 DEF AssemblerRecords
      <3> HIDE DEF F
      <3> QED BY <1>9, <3>1, <3>2 DEF AssemblerRecords
    <2> QED BY <2>1, <2>2
  <1>11. \A topic \in Topic : r.pending[topic] = <<>> /\ Len(r.pending[topic]) = 0
    BY <1>1 DEF Sound, PhaseSound
  <1>12. PhaseSound(b)
    BY <1>1, <1>4, <1>10 DEF Sound, PhaseSound
  <1>13. \A i \in 1 .. 0 : FALSE
    OBVIOUS
  <1>14. QueuesSound(b, Further(next, t))
    BY <1>4, <1>10, <1>11, <1>13, TopicFacts DEF QueuesSound
  <1>15. ASSUME NEW topic \in Topic, NEW burst \in 1 .. Bursts, Holds(b, topic, burst)
         PROVE  Holds(r, topic, burst) \/ (topic = t /\ burst = next[t])
    <2>1. <<topic, burst>> \in b.frames
      BY <1>4, <1>10, <1>11, <1>13, <1>15 DEF Holds
    <2> QED BY <1>4, <1>10, <2>1 DEF Holds
  <1>16. b.offsets = r.offsets /\ b.candidate = r.candidate /\ b.out = r.out
         /\ b.last = [r.last EXCEPT ![t] = Sequence(t, next[t])]
    BY <1>4, <1>10 DEF l
  <1>17. Sound(b, Further(next, t), newest)
    BY <1>1, <1>10, <1>12, <1>14, <1>15, <1>16, HeardSound
  <1> QED BY <1>4, <1>10, <1>17

LEMMA OfferedSound ==
    ASSUME Sound(Current, next, newest), NEW t \in Topic, next[t] <= Bursts
    PROVE  Sound(Offered(t, next[t]), Further(next, t), newest)
  <1> DEFINE b == next[t]
             r == ResumedFrom(t, b)
             a == Numbered(r, t, b)
             lo == last[t] + 1
             hi == Sequence(t, b) - 1
             kept == IF last[t] > 0 THEN DropFrames(a, t, lo .. hi) ELSE a
             added == [kept EXCEPT !.frames = @ \cup {<<t, b>>}]
             f == FrameOf(a, <<t, b>>)
  <1>1. Offered(t, b) =
          CASE ~a.synced -> Learn([a EXCEPT !.pending[t] = Queue(@, b)])
            [] a.synced /\ f \in kept.dead -> Drain(kept)
            [] a.synced /\ f \notin kept.dead ->
                  IF Overfull(added) THEN Resync(added) ELSE Drain(added)
    BY DEF Offered, ResumedFrom
  <1>2. a.synced = r.synced
    <2>1. r \in AssemblerRecords
      BY ResumedSound DEF Sound
    <2> HIDE DEF r
    <2> QED BY <2>1 DEF Numbered, AssemblerRecords
  <1>3. CASE ~r.synced
    <2>1. Offered(t, b) = Learn([a EXCEPT !.pending[t] = Queue(@, b)])
      BY <1>1, <1>2, <1>3
    <2>2. Sound(Learn([a EXCEPT !.pending[t] = Queue(@, b)]), Further(next, t), newest)
      BY <1>3, QueuedSound
    <2> QED BY <2>1, <2>2
  <1>4. CASE r.synced
    <2>1. lo \in Int /\ hi \in Int
      <3>1. /\ restart \in Nat /\ b \in 1 .. Bursts /\ last \in [Topic -> Nat]
        <4>1. Sound(r, next, newest) /\ (b = restart => r.last[t] = 0)
          BY ResumedSound
        <4>2. b \in 1 .. Bursts
          BY <4>1, NextSound
        <4>3. Current.last \in [Topic -> Nat] /\ restart \in Nat
          BY AssemblerAssumption DEF Sound, AssemblerRecords, Devkit
        <4> QED BY <4>2, <4>3, CurrentIs
      <3>2. b \in Nat \ {0} /\ last[t] \in Nat
        BY <3>1, AssemblerAssumption
      <3> QED BY <3>1, <3>2, SequenceIs
    <2> HIDE DEF r, lo, hi
    <2>2. kept \in {a, DropFrames(a, t, lo .. hi)}
      OBVIOUS
    <2> HIDE DEF kept, a
    <2>3. Sound(kept, Further(next, t), newest) /\ kept.synced
      BY <1>4, <2>1, <2>2, SyncedSound DEF r, a
    <2>4. Sound(added, Further(next, t), newest) /\ added.synced
      BY <1>4, <2>1, <2>2, SyncedSound DEF r, a
    <2> HIDE DEF added, f
    <2>5. Offered(t, b) \in {Drain(kept), Resync(added), Drain(added)}
      BY <1>1, <1>2, <1>4
    <2>6. /\ Sound(Drain(kept), Further(next, t), newest)
          /\ Sound(Drain(added), Further(next, t), newest)
          /\ Sound(Resync(added), Further(next, t), newest)
      BY <2>3, <2>4, DrainSound, ResyncSound
    <2> QED BY <2>5, <2>6
  <1> QED BY <1>3, <1>4

\* Once its frames are given, the last of them is the newest.
LEMMA GivenSound ==
    ASSUME NEW a, NEW n, NEW low, Sound(a, n, low)
    PROVE  LET new == IF a.out = <<>> THEN low ELSE a.out[Len(a.out)][First]
           IN  Sound([a EXCEPT !.out = <<>>], n, new) /\ low <= new
  <1> DEFINE new == IF a.out = <<>> THEN low ELSE a.out[Len(a.out)][First]
             b == [a EXCEPT !.out = <<>>]
  <1>1. /\ a \in AssemblerRecords /\ Devkit(n, low) /\ OutSound(a, n, low)
        /\ a.out \in Seq([Topic -> 1 .. Bursts]) /\ Len(a.out) \in Nat /\ First \in Topic
    <2>1. a \in AssemblerRecords /\ Devkit(n, low) /\ OutSound(a, n, low)
      BY DEF Sound
    <2>2. a.out \in Seq([Topic -> 1 .. Bursts])
      BY <2>1 DEF AssemblerRecords
    <2>3. Len(a.out) \in Nat
      BY <2>2
    <2> QED BY <2>1, <2>2, <2>3, TopicFacts
  <1>2. /\ b \in AssemblerRecords /\ b.synced = a.synced /\ b.offsets = a.offsets
        /\ b.candidate = a.candidate /\ b.pending = a.pending /\ b.frames = a.frames
        /\ b.dead = a.dead /\ b.last = a.last /\ b.out = <<>>
    <2> DEFINE S == Seq([Topic -> 1 .. Bursts])
    <2>1. <<>> \in S
      OBVIOUS
    <2> HIDE DEF S
    <2> QED BY <1>1, <2>1 DEF AssemblerRecords, S
  <1> HIDE DEF b
  <1>3. a.out # <<>> => /\ Len(a.out) \in 1 .. Len(a.out)
                        /\ a.out[Len(a.out)] \in [Topic -> 1 .. Bursts]
    <2>1. a.out # <<>> => Len(a.out) \in 1 .. Len(a.out)
      BY <1>1
    <2> QED BY <1>1, <2>1, ElementOfSeq
  <1>4. /\ new \in 0 .. Bursts /\ \A topic \in Topic : new < n[topic]
        /\ low <= new
        /\ \A topic \in Topic, burst \in 1 .. Bursts : Holds(a, topic, burst) => new < burst
    <2>1. CASE a.out = <<>>
      BY <1>1, <2>1, AssemblerAssumption DEF Devkit, Sound, HeldSound
    <2>2. CASE a.out # <<>>
      <3>1. new = a.out[Len(a.out)][First] /\ new \in 1 .. Bursts
        BY <1>1, <1>3, <2>2
      <3>2. low < new /\ \A topic \in Topic : new < n[topic]
        BY <1>1, <1>3, <2>2, <3>1 DEF OutSound
      <3>3. \A topic \in Topic, burst \in 1 .. Bursts : Holds(a, topic, burst) => new < burst
        BY <1>3, <2>2, <3>1 DEF Sound, HeldSound
      <3> HIDE DEF new
      <3>4. new \in 0 .. Bursts /\ low <= new
        <4>1. low \in 0 .. Bursts /\ Bursts \in Nat
          BY <1>1, AssemblerAssumption DEF Devkit
        <4> QED BY <3>1, <3>2, <4>1
      <3> QED BY <3>2, <3>3, <3>4
    <2> QED BY <2>1, <2>2
  <1> HIDE DEF new
  <1>5. Devkit(n, new)
    BY <1>1, <1>4 DEF Devkit
  <1>6. \A topic, burst : Holds(b, topic, burst) <=> Holds(a, topic, burst)
    BY <1>2 DEF Holds
  <1>7. \A i \in 1 .. Len(b.out) : FALSE
    BY <1>2
  <1>8. HeldSound(b, n, new)
    BY <1>2, <1>4, <1>6, <1>7 DEF Sound, HeldSound
  <1>9. OutSound(b, n, new)
    BY <1>7 DEF OutSound
  <1>10. PhaseSound(b) /\ QueuesSound(b, n) /\ NumbersSound(b, n) /\ OffsetsSound(b, n)
    BY <1>2 DEF Sound, PhaseSound, QueuesSound, NumbersSound, OffsetsSound
  <1>11. Sound(b, n, new)
    BY <1>2, <1>5, <1>8, <1>9, <1>10 DEF Sound
  <1> QED BY <1>4, <1>11 DEF b, new

----------------------------------------------------------------------------
(* The channel *)

AssemblerSound == Sound(Current, next, newest)

LEMMA SoundThen ==
    ASSUME NEW a, NEW n, NEW low, Sound(a, n, low),
           Current' = a, next' = n, newest' = low, restart' = restart, stalled' = stalled
    PROVE  AssemblerSound'
  <1>1. (Current \in AssemblerRecords)'
    BY DEF Sound, AssemblerRecords
  <1>2. Devkit(next, newest)'
    BY DEF Sound, Devkit
  <1>3. PhaseSound(Current)'
    BY DEF Sound, PhaseSound
  <1>4. QueuesSound(Current, next)'
    BY DEF Sound, QueuesSound
  <1>5. HeldSound(Current, next, newest)'
    BY DEF Sound, HeldSound, Holds, Renewed, Anew
  <1>6. NumbersSound(Current, next)'
    BY DEF Sound, NumbersSound, Renewed, Anew, Sequence
  <1>7. OffsetsSound(Current, next)'
    <2>1. \A topic, burst : Sequence(topic, burst)' = Sequence(topic, burst)
      BY DEF Sequence
    <2>2. \A x : OffsetsOf(Whole(x))' = OffsetsOf(Whole(x))
      BY <2>1 DEF OffsetsOf, Whole
    <2>3. \A topic, x : /\ Renewed(topic, next)' <=> Renewed(topic, n)
                        /\ Anew(x)' <=> Anew(x)
      BY DEF Renewed, Anew
    <2>4. \A o : TrueOffsets(o, n) => TrueOffsets(o, next)'
      BY <2>2, <2>3 DEF TrueOffsets
    <2> QED BY <2>4 DEF Sound, OffsetsSound
  <1>8. OutSound(Current, next, newest)'
    BY DEF Sound, OutSound
  <1> QED BY <1>1, <1>2, <1>3, <1>4, <1>5, <1>6, <1>7, <1>8 DEF AssemblerSound, Sound

LEMMA InitSound ==
    ASSUME AssemblerInit
    PROVE  AssemblerSound
  <1>1. /\ restart \in 0 .. Bursts /\ stalled \in SUBSET (1 .. Bursts) /\ Bursts \in Nat
        /\ next = [topic \in Topic |-> 1] /\ newest = 0
    BY AssemblerAssumption DEF AssemblerInit
  <1>2. /\ Current.synced = FALSE /\ Current.offsets = NoOffsets /\ Current.candidate = NoOffsets
        /\ Current.pending = [topic \in Topic |-> <<>>] /\ Current.frames = {}
        /\ Current.dead = {} /\ Current.last = [topic \in Topic |-> 0]
        /\ Current.dropped = 0 /\ Current.base = 0 /\ Current.out = <<>>
    BY CurrentIs DEF AssemblerInit
  <1>3. \A topic \in Topic : /\ Current.pending[topic] = <<>> /\ Len(Current.pending[topic]) = 0
                             /\ Current.last[topic] = 0 /\ next[topic] = 1
    BY <1>1, <1>2
  <1>4. \A i \in 1 .. 0 : FALSE
    OBVIOUS
  <1>5. Current \in AssemblerRecords
    <2> DEFINE p == [topic \in Topic |-> <<>>]
               l == [topic \in Topic |-> 0]
               S == Seq([Topic -> 1 .. Bursts])
               e == <<>>
    <2>1. p \in [Topic -> Seq(1 .. Bursts)] /\ l \in [Topic -> Nat] /\ e \in S
      OBVIOUS
    <2>2. Current = [synced |-> FALSE, offsets |-> NoOffsets, candidate |-> NoOffsets,
                     pending |-> p, frames |-> {}, dead |-> {}, last |-> l,
                     dropped |-> 0, base |-> 0, out |-> e]
      BY DEF Current, AssemblerInit
    <2> HIDE DEF p, l, S, e
    <2> QED BY <2>1, <2>2 DEF AssemblerRecords, S
  <1>6. Devkit(next, newest)
    BY <1>1 DEF Devkit
  <1>7. PhaseSound(Current) /\ HeldSound(Current, next, newest)
    BY <1>2, <1>3, <1>4 DEF PhaseSound, HeldSound, Holds
  <1>8. QueuesSound(Current, next)
    BY <1>3, <1>4, TopicFacts DEF QueuesSound
  <1>9. NumbersSound(Current, next) /\ OffsetsSound(Current, next)
    BY <1>2, <1>3 DEF NumbersSound, OffsetsSound
  <1>10. OutSound(Current, next, newest)
    <2>1. Len(Current.out) = 0
      BY <1>2
    <2> QED BY <2>1, <1>4 DEF OutSound
  <1> QED BY <1>5, <1>6, <1>7, <1>8, <1>9, <1>10 DEF AssemblerSound, Sound

\* What the transport may not lose: the message by which a topic would tell of a
\* devkit that started again, and one of the first topic, which tells bursts apart,
\* while the learner has some of it queued.
LosesWell ==
    \A topic \in Topic :
        Lose(topic) => /\ next[topic] = restart => last[topic] = 0
                       /\ topic = First => pending[First] = <<>>

LEMMA LoseSound ==
    ASSUME AssemblerSound, NEW topic \in Topic, Lose(topic), LosesWell
    PROVE  AssemblerSound' /\ UNCHANGED <<given, newest>>
  <1>1. /\ next[topic] <= Bursts /\ next' = Further(next, topic) /\ UNCHANGED <<devkit, assembler, newest>>
        /\ UNCHANGED given
    BY DEF Lose, Arrives, Further
  <1>2. Current' = Current /\ restart' = restart /\ stalled' = stalled /\ newest' = newest
    BY <1>1 DEF Current, assembler, devkit
  <1>3. Sound(Current, Further(next, topic), newest)
    BY <1>1, CurrentIs, LostSound DEF AssemblerSound, LosesWell
  <1>4. AssemblerSound'
    BY <1>1, <1>2, <1>3, SoundThen
  <1> QED BY <1>1, <1>4

LEMMA OfferSound ==
    ASSUME AssemblerSound, NEW topic \in Topic, Offer(topic)
    PROVE  /\ AssemblerSound' /\ Channel!Give
           /\ Current' = [Offered(topic, next[topic]) EXCEPT !.out = <<>>]
           /\ Len(given') = Len(Offered(topic, next[topic]).out)
  <1> DEFINE a == Offered(topic, next[topic])
             n == Further(next, topic)
             new == IF a.out = <<>> THEN newest ELSE a.out[Len(a.out)][First]
  <1>1. next[topic] <= Bursts /\ next' = n /\ UNCHANGED devkit
    BY DEF Offer, Arrives, Further
  <1>2. /\ synced' = a.synced /\ offsets' = a.offsets /\ candidate' = a.candidate
        /\ pending' = a.pending /\ frames' = a.frames /\ dead' = a.dead /\ last' = a.last
        /\ droppedFrames' = a.dropped /\ syncedAt' = a.base
        /\ given' = [i \in DOMAIN a.out |-> BurstOf(a.out[i])]
        /\ newest' = IF given' = <<>> THEN newest ELSE given'[Len(given')]
    BY DEF Offer
  <1>3. Sound(a, n, newest)
    BY <1>1, OfferedSound DEF AssemblerSound
  <1> HIDE DEF a, n
  <1>4. /\ a \in AssemblerRecords /\ OutSound(a, n, newest) /\ a.out \in Seq([Topic -> 1 .. Bursts])
        /\ Len(a.out) \in Nat /\ DOMAIN a.out = 1 .. Len(a.out)
    <2>1. a \in AssemblerRecords /\ OutSound(a, n, newest)
      BY <1>3 DEF Sound
    <2>2. a.out \in Seq([Topic -> 1 .. Bursts])
      BY <2>1 DEF AssemblerRecords
    <2> QED BY <2>1, <2>2
  <1>5. \A i \in 1 .. Len(a.out) : BurstOf(a.out[i]) = a.out[i][First] /\ a.out[i][First] \in 1 .. Bursts
    <2> SUFFICES ASSUME NEW i \in 1 .. Len(a.out)
                 PROVE  BurstOf(a.out[i]) = a.out[i][First] /\ a.out[i][First] \in 1 .. Bursts
      OBVIOUS
    <2>1. a.out[i] \in [Topic -> 1 .. Bursts]
      BY <1>4, ElementOfSeq
    <2>2. a.out[i] = Whole(a.out[i][First])
      BY <1>4 DEF OutSound
    <2> QED BY <2>1, <2>2, TopicFacts DEF BurstOf
  <1>6. /\ given' \in Seq(1 .. Bursts) /\ Len(given') = Len(a.out)
        /\ \A i \in 1 .. Len(a.out) : given'[i] = a.out[i][First]
    <2> DEFINE g == [i \in 1 .. Len(a.out) |-> BurstOf(a.out[i])]
    <2>1. \A i \in 1 .. Len(a.out) : BurstOf(a.out[i]) \in 1 .. Bursts
      BY <1>5
    <2>2. g \in Seq(1 .. Bursts) /\ Len(g) = Len(a.out)
      BY <1>4, <2>1
    <2>3. given' = g
      BY <1>2, <1>4
    <2> QED BY <1>5, <2>2, <2>3
  <1>7. newest' = new
    <2>1. CASE a.out = <<>>
      BY <1>2, <1>6, <2>1
    <2>2. CASE a.out # <<>>
      <3>1. Len(a.out) \in 1 .. Len(a.out) /\ given' # <<>>
        BY <1>4, <1>6, <2>2
      <3> QED BY <1>2, <1>6, <2>2, <3>1
    <2> QED BY <2>1, <2>2
  <1>8. Channel!Give
    <2>1. Channel!Ordered(given')
      BY <1>4, <1>6 DEF Channel!Ordered, OutSound
    <2>2. \A i \in 1 .. Len(given') : newest < given'[i]
      BY <1>4, <1>6 DEF OutSound
    <2> QED BY <1>2, <1>6, <2>1, <2>2 DEF Channel!Give
  <1>9. Sound([a EXCEPT !.out = <<>>], n, new)
    BY <1>3, GivenSound
  <1>10. Current' = [a EXCEPT !.out = <<>>]
    <2>1. Current' = [synced |-> a.synced, offsets |-> a.offsets, candidate |-> a.candidate,
                      pending |-> a.pending, frames |-> a.frames, dead |-> a.dead, last |-> a.last,
                      dropped |-> a.dropped, base |-> a.base, out |-> <<>>]
      BY <1>2 DEF Current
    <2> DEFINE e == <<>>
               w == [a EXCEPT !.out = e]
    <2> HIDE DEF e
    <2>2. w = [synced |-> a.synced, offsets |-> a.offsets, candidate |-> a.candidate,
               pending |-> a.pending, frames |-> a.frames, dead |-> a.dead, last |-> a.last,
               dropped |-> a.dropped, base |-> a.base, out |-> e]
      <3>1. a = [synced |-> a.synced, offsets |-> a.offsets, candidate |-> a.candidate,
                 pending |-> a.pending, frames |-> a.frames, dead |-> a.dead, last |-> a.last,
                 dropped |-> a.dropped, base |-> a.base, out |-> a.out]
        BY <1>4 DEF AssemblerRecords
      <3> QED BY <3>1
    <2> QED BY <2>1, <2>2 DEF e
  <1>11. AssemblerSound'
    BY <1>1, <1>7, <1>9, <1>10, SoundThen DEF devkit
  <1> QED BY <1>6, <1>8, <1>10, <1>11 DEF a

\* devkit.py: "nothing is ever paired across frames". What the session is given is what
\* the channel of whole frames may give: frames of the devkit, each once and in order.
THEOREM ChannelImplemented ==
    AssemblerSpec /\ [][LosesWell]_assemblerVars => ImplementsFrameChannel
  <1>1. AssemblerInit => AssemblerSound /\ Channel!Init
    BY InitSound DEF AssemblerInit, Channel!Init
  <1>2. AssemblerSound /\ [AssemblerNext]_assemblerVars /\ [LosesWell]_assemblerVars
            => AssemblerSound' /\ [Channel!Give]_<<given, newest>>
    <2> SUFFICES ASSUME AssemblerSound, [AssemblerNext]_assemblerVars, [LosesWell]_assemblerVars
                 PROVE  AssemblerSound' /\ [Channel!Give]_<<given, newest>>
      OBVIOUS
    <2>1. CASE UNCHANGED assemblerVars
      <3>1. /\ Current' = Current /\ next' = next /\ newest' = newest /\ given' = given
            /\ restart' = restart /\ stalled' = stalled
        BY <2>1 DEF assemblerVars, assembler, devkit, history, Current
      <3> QED BY <3>1, SoundThen DEF AssemblerSound
    <2>2. CASE AssemblerNext /\ LosesWell
      <3>1. ASSUME NEW topic \in Topic, Offer(topic)
            PROVE  AssemblerSound' /\ [Channel!Give]_<<given, newest>>
        BY <3>1, OfferSound
      <3>2. ASSUME NEW topic \in Topic, Lose(topic)
            PROVE  AssemblerSound' /\ [Channel!Give]_<<given, newest>>
        BY <2>2, <3>2, LoseSound
      <3> QED BY <2>2, <3>1, <3>2 DEF AssemblerNext
    <2> QED BY <2>1, <2>2
  <1> QED BY <1>1, <1>2, PTL DEF AssemblerSpec, ImplementsFrameChannel, Channel!Spec

----------------------------------------------------------------------------
(* What becomes of every frame *)

\* The frame of a topic's last message, and the latest of all topics'.
Level(a, topic) == a.last[topic] - a.offsets[topic]
Top(a) == Greatest({Level(a, topic) : topic \in Topic})

\* The frames from the sync on that wait no longer.
Settled(a) == (a.base .. Top(a)) \ Waiting(a)

\* A queue has no gap and ends with the topic's last message.
QueuesWhole(a, n) ==
    \A topic \in Topic :
        /\ \A i \in 1 .. Len(a.pending[topic]) :
              a.pending[topic][i] = n[topic] - 1 - Len(a.pending[topic]) + i
        /\ a.pending[topic] # <<>> => a.last[topic] = Sequence(topic, n[topic] - 1)

\* A frame that a topic has not come to waits or is given up, and a frame that waits
\* no longer is given or counted; c is what was before.
FramesWhole(a, c) ==
    /\ \A topic \in Topic : a.base <= Level(a, topic)
    /\ \A message \in a.frames : /\ a.base < FrameOf(a, message)
                                /\ FrameOf(a, message) <= Level(a, message[1])
    /\ \A d \in a.dead : d <= Top(a) /\ d \notin Waiting(a)
    /\ \A f \in a.base .. Top(a) :
          (\E topic \in Topic : Level(a, topic) < f) => f \in a.dead \/ f \in Waiting(a)
    /\ Cardinality(Settled(a)) = Len(a.out) + a.dropped + c

LEMMA LevelFacts ==
    ASSUME NEW a, NEW n, NEW low, Sound(a, n, low), a.synced
    PROVE  /\ \A topic \in Topic : /\ a.last[topic] \in Nat /\ a.offsets[topic] \in Int
                                   /\ Level(a, topic) \in Int /\ Level(a, topic) <= Top(a)
           /\ \E topic \in Topic : Top(a) = Level(a, topic)
           /\ Top(a) \in Int /\ a.base \in Int /\ a.dropped \in Nat /\ Len(a.out) \in Nat
           /\ a.dead \subseteq Int
           /\ \A topic \in Topic : a.last[topic] > 0
  <1>1. a \in AssemblerRecords /\ a.offsets # NoOffsets
    BY DEF Sound, PhaseSound
  <1>2. /\ a.offsets \in [Topic -> Int] /\ a.last \in [Topic -> Nat] /\ a.base \in Int
        /\ a.dropped \in Nat /\ a.dead \subseteq Int /\ a.out \in Seq([Topic -> 1 .. Bursts])
    BY <1>1 DEF AssemblerRecords
  <1>3. Len(a.out) \in Nat
    BY <1>2
  <1>4. PICK x \in 1 .. Bursts :
            /\ a.offsets = OffsetsOf(Whole(x))
            /\ \A topic \in Topic : Renewed(topic, n) <=> Anew(x)
    BY <1>1 DEF Sound, OffsetsSound, TrueOffsets
  <1>5. restart \in Nat /\ Lidar \in Topic /\ Bursts \in Nat /\ n \in [Topic -> 1 .. Bursts + 1]
    BY TopicFacts, AssemblerAssumption DEF Sound, Devkit
  <1>6. \A topic \in Topic : a.last[topic] > 0
    BY <1>1 DEF Sound, OffsetsSound
  <1> DEFINE k == Sequence(Lidar, x) - x
             S == {Level(a, topic) : topic \in Topic}
  <1>7. k \in Int
    BY <1>5, SequenceIs
  <1>8. ASSUME NEW topic \in Topic PROVE Level(a, topic) \in Int /\ Level(a, topic) <= Bursts + k
    <2>1. PICK b \in 1 .. Bursts : /\ b < n[topic] /\ a.last[topic] = Sequence(topic, b)
                                   /\ Renewed(topic, n) => Anew(b)
      BY <1>2, <1>6 DEF Sound, NumbersSound
    <2>2. n[topic] \in 1 .. Bursts + 1 /\ b \in Nat \ {0} /\ x \in Nat \ {0}
      BY <1>5
    <2>3. n[topic] \in Nat
      BY <1>5, <2>2
    <2>4. Anew(b) <=> Anew(x)
      BY <1>4, <1>5, <2>1, <2>2, <2>3 DEF Renewed, Anew
    <2>5. Sequence(topic, b) - Sequence(topic, x) = b - x
      BY <1>5, <2>2, <2>4, SequenceSteps
    <2>6. Sequence(topic, b) \in Nat /\ Sequence(topic, x) \in Nat /\ Sequence(Lidar, x) \in Nat
      BY <1>5, <2>2, SequenceIs
    <2>7. a.offsets[topic] = Sequence(topic, x) - Sequence(Lidar, x)
      BY <1>4, <1>5 DEF OffsetsOf, Whole
    <2>8. Level(a, topic) = Sequence(topic, b) - (Sequence(topic, x) - Sequence(Lidar, x))
      BY <2>1, <2>7 DEF Level
    <2> DEFINE p == Sequence(topic, b) q == Sequence(topic, x) r == Sequence(Lidar, x)
    <2>9. p - q = b - x /\ p \in Nat /\ q \in Nat /\ r \in Nat /\ Level(a, topic) = p - (q - r)
          /\ b \in 1 .. Bursts /\ k = r - x
      BY <2>5, <2>6, <2>8
    <2> HIDE DEF p, q, r, k
    <2>10. Level(a, topic) = b + k
      BY <2>2, <2>9
    <2> QED BY <1>5, <1>7, <2>2, <2>10
  <1> HIDE DEF k
  <1>9. Top(a) \in S /\ \A y \in S : y <= Top(a)
    <2>1. S \in SUBSET Int /\ S # {} /\ \A y \in S : y <= Bursts + k
      BY <1>5, <1>8
    <2>2. Bursts + k \in Int
      BY <1>5, <1>7
    <2>3. Top(a) = Greatest(S)
      BY DEF Top
    <2> HIDE DEF S
    <2> QED BY <2>1, <2>2, <2>3, GreatestIs
  <1>10. /\ \A topic \in Topic : Level(a, topic) <= Top(a)
         /\ \E topic \in Topic : Top(a) = Level(a, topic)
    BY <1>9
  <1>11. Top(a) \in Int
    BY <1>8, <1>10
  <1>12. \A topic \in Topic : a.last[topic] \in Nat /\ a.offsets[topic] \in Int
    BY <1>2
  <1> QED BY <1>2, <1>3, <1>6, <1>8, <1>10, <1>11, <1>12

\* Fewer queued, still with no gap.
LEMMA SuffixWhole ==
    ASSUME NEW a, NEW n, NEW low, Sound(a, n, low), QueuesWhole(a, n),
           NEW q \in [Topic -> Seq(1 .. Bursts)],
           \A topic \in Topic : Suffix(q[topic], a.pending[topic])
    PROVE  \A topic \in Topic :
              /\ \A i \in 1 .. Len(q[topic]) : q[topic][i] = n[topic] - 1 - Len(q[topic]) + i
              /\ q[topic] # <<>> => a.last[topic] = Sequence(topic, n[topic] - 1)
  <1> SUFFICES ASSUME NEW topic \in Topic
               PROVE  /\ \A i \in 1 .. Len(q[topic]) : q[topic][i] = n[topic] - 1 - Len(q[topic]) + i
                      /\ q[topic] # <<>> => a.last[topic] = Sequence(topic, n[topic] - 1)
    OBVIOUS
  <1> DEFINE p == a.pending[topic]
             r == q[topic]
             l == Len(p)
             m == Len(r)
             x == n[topic]
  <1>1. p \in Seq(1 .. Bursts) /\ l \in Nat /\ r \in Seq(1 .. Bursts) /\ m \in Nat
    BY DEF Sound, AssemblerRecords
  <1>2. x \in Nat
    <2>1. n \in [Topic -> 1 .. Bursts + 1] /\ Bursts \in Nat
      BY AssemblerAssumption DEF Sound, Devkit
    <2>2. n[topic] \in 1 .. Bursts + 1
      BY <2>1
    <2> QED BY <2>1, <2>2
  <1>3. PICK d \in 0 .. l : m = l - d /\ \A i \in 1 .. m : r[i] = p[i + d]
    BY DEF Suffix
  <1>4. /\ \A i \in 1 .. l : p[i] = x - 1 - l + i
        /\ p # <<>> => a.last[topic] = Sequence(topic, x - 1)
    BY DEF QueuesWhole
  <1>5. (m > 0 <=> r # <<>>) /\ (l > 0 <=> p # <<>>)
    BY <1>1
  <1> HIDE DEF p, r, l, m, x
  <1>6. ASSUME NEW i \in 1 .. m PROVE r[i] = x - 1 - m + i
    <2>1. i + d \in 1 .. l
      BY <1>1, <1>3
    <2>2. r[i] = x - 1 - l + (i + d)
      BY <1>3, <1>4, <2>1
    <2> QED BY <1>1, <1>2, <1>3, <2>2
  <1>7. r # <<>> => p # <<>>
    BY <1>1, <1>3, <1>5
  <1> QED BY <1>4, <1>6, <1>7 DEF r, m, x

\* What waits came after the sync, and no later than the topics did.
LEMMA WaitingFacts ==
    ASSUME NEW a, NEW n, NEW low, Sound(a, n, low), a.synced, NEW c \in Int, FramesWhole(a, c)
    PROVE  /\ \A f \in Waiting(a) : f \in Int /\ a.base < f /\ f <= Top(a)
           /\ a.base <= Top(a)
           /\ IsFiniteSet(Settled(a)) /\ Cardinality(Settled(a)) \in Nat
           /\ \A f : f \in Settled(a) <=>
                        f \in Int /\ a.base <= f /\ f <= Top(a) /\ f \notin Waiting(a)
  <1>1. /\ \A topic \in Topic : Level(a, topic) \in Int /\ Level(a, topic) <= Top(a)
        /\ Top(a) \in Int /\ a.base \in Int
        /\ \E topic \in Topic : Top(a) = Level(a, topic)
    BY LevelFacts
  <1>2. PICK k \in Int : \A message \in a.frames :
            /\ message[1] \in Topic /\ message[2] \in 1 .. Bursts
            /\ FrameOf(a, message) = message[2] + k
    BY FramesAreBursts
  <1>3. \A message \in a.frames : /\ FrameOf(a, message) \in Int /\ a.base < FrameOf(a, message)
                                  /\ FrameOf(a, message) <= Top(a)
    <2> SUFFICES ASSUME NEW message \in a.frames
                 PROVE  /\ FrameOf(a, message) \in Int /\ a.base < FrameOf(a, message)
                        /\ FrameOf(a, message) <= Top(a)
      OBVIOUS
    <2>1. message[1] \in Topic /\ message[2] \in Int /\ FrameOf(a, message) = message[2] + k
      BY <1>2, AssemblerAssumption
    <2>2. /\ FrameOf(a, message) \in Int /\ a.base < FrameOf(a, message)
          /\ FrameOf(a, message) <= Level(a, message[1])
      BY <2>1 DEF FramesWhole
    <2>3. Level(a, message[1]) \in Int /\ Level(a, message[1]) <= Top(a)
      BY <1>1, <2>1
    <2> QED BY <1>1, <2>2, <2>3
  <1>4. \A f \in Waiting(a) : f \in Int /\ a.base < f /\ f <= Top(a)
    BY <1>3 DEF Waiting
  <1>5. a.base <= Top(a)
    BY <1>1 DEF FramesWhole
  <1>6. IsFiniteSet(Settled(a)) /\ Cardinality(Settled(a)) \in Nat
    <2>1. IsFiniteSet(a.base .. Top(a))
      BY <1>1, FS_Interval
    <2> QED BY <2>1, FS_Difference, FS_CardinalityType DEF Settled
  <1>7. \A f : f \in Settled(a) <=>
                 f \in Int /\ a.base <= f /\ f <= Top(a) /\ f \notin Waiting(a)
    BY <1>1 DEF Settled
  <1> QED BY <1>4, <1>5, <1>6, <1>7

\* The numbers of a record with the same offsets and last sequences are the same.
LEMMA SameLevels ==
    ASSUME NEW a, NEW b, b.last = a.last, b.offsets = a.offsets
    PROVE  /\ \A topic \in Topic : Level(b, topic) = Level(a, topic)
           /\ Top(b) = Top(a)
           /\ \A message : FrameOf(b, message) = FrameOf(a, message)
  <1>1. \A topic \in Topic : Level(b, topic) = Level(a, topic)
    BY DEF Level
  <1>2. {Level(b, topic) : topic \in Topic} = {Level(a, topic) : topic \in Topic}
    BY <1>1
  <1> QED BY <1>1, <1>2 DEF Top, FrameOf

LEMMA PassedIs ==
    ASSUME NEW a \in AssemblerRecords
    PROVE  /\ Passed(a).synced = a.synced /\ Passed(a).offsets = a.offsets
           /\ Passed(a).candidate = a.candidate /\ Passed(a).pending = a.pending
           /\ Passed(a).last = a.last /\ Passed(a).base = a.base
           /\ Passed(a).frames = {message \in a.frames : FrameOf(a, message) \notin Leaving(a)}
           /\ Passed(a).dead = {d \in a.dead : \A f \in Leaving(a) : f < d}
           /\ Passed(a).out = a.out \o InOrder(a, Leaving(a) \ Dropped(a))
           /\ Passed(a).dropped = a.dropped + Cardinality(Dropped(a))
  BY DEF Passed, AssemblerRecords

\* What leaves is given or counted.
LEMMA DrainWhole ==
    ASSUME NEW a, NEW n, NEW low, Sound(a, n, low), a.synced, NEW c \in Int, FramesWhole(a, c),
           Drain(a).synced
    PROVE  FramesWhole(Drain(a), c)
  <1> DEFINE L == Leaving(a)
             D == Dropped(a)
             G == L \ D
             O == InOrder(a, G)
             P == Passed(a)
  <1>1. Drain(a) = P
    <2> DEFINE b == [P EXCEPT !.dropped = @ + 1]
    <2>1. Resync(b).synced = FALSE
      <3>1. Sound(P, n, low)
        BY PassedSound
      <3>2. b \in AssemblerRecords
        <4> DEFINE e == P.dropped + 1
        <4>1. P \in AssemblerRecords /\ e \in Nat
          BY <3>1 DEF Sound, AssemblerRecords
        <4>2. b = [P EXCEPT !.dropped = e]
          BY <4>1 DEF AssemblerRecords
        <4> HIDE DEF e, P, b
        <4> QED BY <4>1, <4>2 DEF AssemblerRecords
      <3> HIDE DEF b
      <3> QED BY <3>2 DEF Resync, AssemblerRecords
    <2> QED BY <2>1, DrainIs
  <1>2. a \in AssemblerRecords
    BY DEF Sound
  <1>3. PICK k \in Int : \A message \in a.frames :
              /\ message[1] \in Topic /\ message[2] \in 1 .. Bursts
              /\ message = <<message[1], message[2]>>
              /\ FrameOf(a, message) = message[2] + k
              /\ Holds(a, message[1], message[2])
    BY FramesAreBursts
  <1>4. /\ Waiting(a) \in SUBSET Int /\ IsFiniteSet(Waiting(a))
        /\ \A f \in Waiting(a) : 1 + k <= f /\ f <= Bursts + k
        /\ L \subseteq Waiting(a)
        /\ \A f \in L : Parts(a, f) = Whole(f - k) /\ f - k \in 1 .. Bursts
        /\ \A f \in L, topic \in Topic : Holds(a, topic, f - k)
    BY <1>3, LeavingIs
  <1>5. D \subseteq L /\ G \subseteq L /\ L \cap D = D
    BY DEF Dropped
  <1>6. /\ P.offsets = a.offsets /\ P.last = a.last /\ P.base = a.base
        /\ P.frames = {message \in a.frames : FrameOf(a, message) \notin L}
        /\ P.dead = {d \in a.dead : \A f \in L : f < d}
        /\ P.out = a.out \o O /\ P.dropped = a.dropped + Cardinality(D)
    BY <1>2, PassedIs
  <1> HIDE DEF L, D, P
  <1>7. /\ IsFiniteSet(L) /\ IsFiniteSet(D) /\ IsFiniteSet(G)
        /\ Cardinality(L) \in Nat /\ Cardinality(D) \in Nat /\ Cardinality(G) \in Nat
        /\ Cardinality(G) = Cardinality(L) - Cardinality(D)
    <2>1. IsFiniteSet(L)
      BY <1>4, FS_Subset
    <2>2. IsFiniteSet(D) /\ IsFiniteSet(G) /\ Cardinality(G) = Cardinality(L) - Cardinality(D)
      <3>1. IsFiniteSet(D) /\ IsFiniteSet(G)
        BY <1>5, <2>1, FS_Subset
      <3>2. Cardinality(L \ D) = Cardinality(L) - Cardinality(L \cap D)
        BY <2>1, FS_Difference
      <3> QED BY <1>5, <3>1, <3>2
    <2> QED BY <2>1, <2>2, FS_CardinalityType
  <1> HIDE DEF G
  <1>8. O \in Seq([Topic -> 1 .. Bursts]) /\ Len(O) = Cardinality(G)
    <2>1. \A f \in G : 1 + k <= f /\ f <= Bursts + k /\ Parts(a, f) = Whole(f - k)
                       /\ f - k \in 1 .. Bursts
      BY <1>4, <1>5
    <2>2. 1 + k \in Int /\ Bursts + k \in Int /\ G \in SUBSET Int
      BY <1>4, <1>5, AssemblerAssumption
    <2> QED BY <1>7, <2>1, <2>2, InOrderIs
  <1> HIDE DEF O
  <1>9. Len(P.out) = Len(a.out) + Cardinality(G)
    <2>1. a.out \in Seq([Topic -> 1 .. Bursts])
      BY <1>2 DEF AssemblerRecords
    <2> DEFINE p == a.out
               S == [Topic -> 1 .. Bursts]
    <2>2. p \in Seq(S) /\ O \in Seq(S) /\ P.out = p \o O /\ Len(O) = Cardinality(G)
      BY <1>6, <1>8, <2>1
    <2> HIDE DEF p, S
    <2>a. p \in Seq(S) /\ O \in Seq(S)
      BY <2>2
    <2>b. Len(p \o O) = Len(p) + Len(O)
      BY <2>a, ConcatProperties
    <2>3. Len(P.out) = Len(p) + Len(O)
      BY <2>2, <2>b
    <2> QED BY <2>2, <2>3 DEF p
  <1>10. /\ \A topic \in Topic : Level(P, topic) = Level(a, topic)
         /\ Top(P) = Top(a) /\ \A message : FrameOf(P, message) = FrameOf(a, message)
    BY <1>6, SameLevels
  <1>11. Waiting(P) = Waiting(a) \ L
    BY <1>6, <1>10 DEF Waiting
  <1>12. /\ \A f \in Waiting(a) : f \in Int /\ a.base < f /\ f <= Top(a)
         /\ IsFiniteSet(Settled(a)) /\ Cardinality(Settled(a)) \in Nat
         /\ \A f : f \in Settled(a) <=>
                      f \in Int /\ a.base <= f /\ f <= Top(a) /\ f \notin Waiting(a)
    BY WaitingFacts
  <1>13. /\ Top(a) \in Int /\ a.base \in Int /\ a.dropped \in Nat /\ Len(a.out) \in Nat
         /\ a.dead \subseteq Int /\ \A topic \in Topic : Level(a, topic) \in Int
    BY LevelFacts
  <1>14. Settled(P) = Settled(a) \cup L /\ Settled(a) \cap L = {}
    <2>1. \A f : f \in Settled(P) <=>
                   f \in Int /\ a.base <= f /\ f <= Top(a) /\ f \notin Waiting(P)
      BY <1>6, <1>10, <1>13 DEF Settled
    <2>2. \A f \in L : f \in Int /\ a.base <= f /\ f <= Top(a) /\ f \in Waiting(a)
      BY <1>4, <1>12, <1>13
    <2> QED BY <1>11, <1>12, <2>1, <2>2
  <1>15. Cardinality(Settled(P)) = Cardinality(Settled(a)) + Cardinality(L)
    <2>1. Cardinality(Settled(a) \cap L) = 0
      BY <1>14, FS_EmptySet
    <2>2. Cardinality(Settled(a) \cup L)
              = Cardinality(Settled(a)) + Cardinality(L) - Cardinality(Settled(a) \cap L)
      BY <1>7, <1>12, FS_Union
    <2> QED BY <1>7, <1>12, <1>14, <2>1, <2>2
  <1>16. Cardinality(Settled(P)) = Len(P.out) + P.dropped + c
    <2>1. Cardinality(Settled(a)) = Len(a.out) + a.dropped + c
      BY DEF FramesWhole
    <2> DEFINE s == Cardinality(Settled(a)) t == Cardinality(Settled(P)) u == Len(P.out) v == P.dropped
               w == Len(a.out) x == a.dropped l == Cardinality(L) d == Cardinality(D) g == Cardinality(G)
    <2>2. /\ s = w + x + c /\ t = s + l /\ g = l - d /\ u = w + g /\ v = x + d
          /\ s \in Int /\ w \in Int /\ x \in Int /\ l \in Int /\ d \in Int
      BY <1>6, <1>7, <1>9, <1>12, <1>13, <1>15, <2>1
    <2> HIDE DEF s, t, u, v, w, x, l, d, g
    <2>3. t = u + v + c
      BY <2>2
    <2> QED BY <2>3 DEF t, u, v
  <1>17. \A topic \in Topic : P.base <= Level(P, topic)
    BY <1>6, <1>10 DEF FramesWhole
  <1>18. \A message \in P.frames : /\ P.base < FrameOf(P, message)
                                   /\ FrameOf(P, message) <= Level(P, message[1])
    <2> SUFFICES ASSUME NEW message \in P.frames
                 PROVE  /\ P.base < FrameOf(P, message)
                        /\ FrameOf(P, message) <= Level(P, message[1])
      OBVIOUS
    <2>1. message \in a.frames /\ message[1] \in Topic
      BY <1>3, <1>6
    <2> QED BY <1>6, <1>10, <2>1 DEF FramesWhole
  <1>19. \A d \in P.dead : d <= Top(P) /\ d \notin Waiting(P)
    BY <1>6, <1>10, <1>11 DEF FramesWhole
  <1>20. ASSUME NEW f \in L, NEW topic \in Topic PROVE f \in Int /\ f <= Level(a, topic)
    <2>1. <<topic, f - k>> \in a.frames
      <3>1. a.pending[topic] = <<>> /\ \A i \in 1 .. Len(a.pending[topic]) : FALSE
        BY DEF Sound, PhaseSound
      <3> QED BY <1>4, <3>1 DEF Holds
    <2> DEFINE m == <<topic, f - k>>
    <2>2. m[1] = topic /\ m[2] = f - k
      OBVIOUS
    <2> HIDE DEF m
    <2>3. FrameOf(a, m) = (f - k) + k /\ FrameOf(a, m) <= Level(a, topic)
      BY <1>3, <2>1, <2>2 DEF FramesWhole, m
    <2> QED BY <1>4, <2>3
  <1>21. ASSUME NEW f \in P.base .. Top(P), NEW topic \in Topic, Level(P, topic) < f
         PROVE  f \in P.dead \/ f \in Waiting(P)
    <2>1. f \in a.base .. Top(a) /\ Level(a, topic) < f
      BY <1>6, <1>10, <1>21
    <2>2. \A g \in L : g < f
      BY <1>13, <1>20, <2>1
    <2>3. f \in a.dead \/ f \in Waiting(a)
      BY <2>1 DEF FramesWhole
    <2>4. f \notin L
      BY <1>13, <2>1, <2>2
    <2> QED BY <1>6, <1>11, <2>2, <2>3, <2>4
  <1> QED BY <1>1, <1>16, <1>17, <1>18, <1>19, <1>21 DEF FramesWhole

\* What the learner has queued behind the burst that it learns again.
LEMMA SyncWhole ==
    ASSUME NEW a, NEW n, NEW low, Sound(a, n, low), ~a.synced, QueuesWhole(a, n), a.out = <<>>,
           NEW q \in [Topic -> Seq(1 .. Bursts)],
           \A topic \in Topic : Suffix(q[topic], a.pending[topic]) /\ q[topic] # <<>>,
           NEW h \in 1 .. Bursts, Heads(q) = Whole(h),
           \A topic \in Topic : q[topic][1] = h
    PROVE  FramesWhole(Relearned(a, q, h), -a.dropped)
  <1> DEFINE b == Relearned(a, q, h)
  <1>1. /\ Sound(b, n, low) /\ b.synced /\ b.offsets = OffsetsOf(Whole(h))
        /\ b.base = Sequence(Lidar, h) /\ b.last = a.last /\ b.dead = {}
        /\ \A topic \in Topic, burst \in 1 .. Bursts :
              <<topic, burst>> \in b.frames <=> \E i \in 2 .. Len(q[topic]) : q[topic][i] = burst
        /\ Len(b.out) + b.dropped = a.dropped + 1
    BY RelearnedSound
  <1> HIDE DEF b
  <1>2. /\ restart \in Nat /\ Lidar \in Topic /\ Bursts \in Nat /\ a.dropped \in Nat
        /\ h \in Nat \ {0} /\ \A topic \in Topic : n[topic] \in Nat
    <2>1. /\ restart \in 0 .. Bursts /\ Lidar \in Topic /\ Bursts \in Nat
          /\ n \in [Topic -> 1 .. Bursts + 1] /\ a \in AssemblerRecords
      BY TopicFacts, AssemblerAssumption DEF Sound, Devkit
    <2>2. \A y \in 1 .. Bursts + 1 : y \in Nat
      BY <2>1
    <2>3. a.dropped \in Nat
      BY <2>1 DEF AssemblerRecords
    <2> QED BY <2>1, <2>2, <2>3
  <1>3. \A topic \in Topic :
           /\ Len(q[topic]) \in Nat /\ Len(q[topic]) > 0
           /\ \A i \in 1 .. Len(q[topic]) : q[topic][i] = n[topic] - 1 - Len(q[topic]) + i
           /\ a.last[topic] = Sequence(topic, n[topic] - 1)
    <2> SUFFICES ASSUME NEW topic \in Topic
                 PROVE  /\ Len(q[topic]) \in Nat /\ Len(q[topic]) > 0
                        /\ \A i \in 1 .. Len(q[topic]) : q[topic][i] = n[topic] - 1 - Len(q[topic]) + i
                        /\ a.last[topic] = Sequence(topic, n[topic] - 1)
      OBVIOUS
    <2>1. q[topic] \in Seq(1 .. Bursts) /\ q[topic] # <<>>
      OBVIOUS
    <2>2. Len(q[topic]) \in Nat /\ Len(q[topic]) > 0
      BY <2>1
    <2> QED BY <2>1, <2>2, SuffixWhole
  <1>4. \A topic \in Topic : h < n[topic] /\ Len(q[topic]) = n[topic] - h
    <2> SUFFICES ASSUME NEW topic \in Topic PROVE h < n[topic] /\ Len(q[topic]) = n[topic] - h
      OBVIOUS
    <2> DEFINE l == Len(q[topic]) x == n[topic]
    <2>1. l \in Nat /\ l > 0 /\ x \in Nat /\ h = x - 1 - l + 1
      <3>1. 1 \in 1 .. Len(q[topic])
        BY <1>3
      <3> QED BY <1>2, <1>3, <3>1
    <2> HIDE DEF l, x
    <2>2. h < x /\ l = x - h
      BY <1>2, <2>1
    <2> QED BY <2>2 DEF l, x
  <1>5. \A topic \in Topic, x \in Int :
           h <= x /\ x < n[topic] =>
              /\ x \in 1 .. Bursts
              /\ (Anew(x) <=> Anew(h))
              /\ Sequence(topic, x) - (Sequence(topic, h) - Sequence(Lidar, h)) = b.base + (x - h)
              /\ (h < x <=> <<topic, x>> \in b.frames)
    <2> SUFFICES ASSUME NEW topic \in Topic, NEW x \in Int, h <= x, x < n[topic]
                 PROVE  /\ x \in 1 .. Bursts
                        /\ (Anew(x) <=> Anew(h))
                        /\ Sequence(topic, x) - (Sequence(topic, h) - Sequence(Lidar, h))
                               = b.base + (x - h)
                        /\ (h < x <=> <<topic, x>> \in b.frames)
      OBVIOUS
    <2> DEFINE p == q[topic] l == Len(p) k == n[topic] j == x - h + 1
    <2>1. l \in Nat /\ k \in Nat /\ l = k - h /\ \A i \in 1 .. l : p[i] = k - 1 - l + i
      BY <1>2, <1>3, <1>4
    <2>2. p[1] = h /\ p \in Seq(1 .. Bursts)
      OBVIOUS
    <2>3. /\ \A i \in 1 .. l : p[i] \in 1 .. Bursts /\ Holds(a, topic, p[i])
      BY SuffixHeld
    <2>k. x < k
      OBVIOUS
    <2> HIDE DEF p, l, k, j
    <2>4. j \in 1 .. l /\ p[j] = x /\ 1 \in 1 .. l
      <3>1. j \in 1 .. l /\ 1 \in 1 .. l
        BY <1>2, <2>1, <2>k DEF j
      <3>2. p[j] = k - 1 - l + j
        BY <2>1, <3>1
      <3>3. k - 1 - l + j = x
        BY <1>2, <2>1, <3>1 DEF j
      <3> QED BY <3>1, <3>2, <3>3
    <2>5. x \in 1 .. Bursts /\ Holds(a, topic, x) /\ Holds(a, topic, h)
      BY <2>2, <2>3, <2>4
    <2>6. Anew(x) <=> Anew(h)
      BY <2>5, HeldIsOf
    <2>7. Sequence(topic, x) - Sequence(topic, h) = x - h
      BY <1>2, <2>5, <2>6, SequenceSteps
    <2>8. Sequence(topic, x) \in Nat /\ Sequence(topic, h) \in Nat /\ Sequence(Lidar, h) \in Nat
      BY <1>2, <2>5, SequenceIs
    <2> DEFINE u == Sequence(topic, x) v == Sequence(topic, h) w == Sequence(Lidar, h)
    <2>9. u - (v - w) = b.base + (x - h)
      <3>1. u - v = x - h /\ u \in Nat /\ v \in Nat /\ w \in Nat /\ b.base = w
        BY <1>1, <2>7, <2>8
      <3> HIDE DEF u, v, w
      <3> QED BY <1>2, <3>1
    <2>10. h < x <=> <<topic, x>> \in b.frames
      <3>1. <<topic, x>> \in b.frames <=> \E i \in 2 .. l : p[i] = x
        BY <1>1, <2>5 DEF p, l
      <3>2. ASSUME NEW i \in 2 .. l, p[i] = x PROVE h < x
        <4>1. i \in 1 .. l
          BY <2>1
        <4>2. x = k - 1 - l + i
          BY <2>1, <3>2, <4>1
        <4> QED BY <1>2, <2>1, <4>2
      <3>3. h < x => j \in 2 .. l
        BY <1>2, <2>1, <2>4 DEF j
      <3> QED BY <2>4, <3>1, <3>2, <3>3
    <2> QED BY <2>5, <2>6, <2>9, <2>10
  <1>6. /\ \A topic \in Topic : Level(b, topic) \in Int /\ Level(b, topic) <= Top(b)
        /\ \E topic \in Topic : Top(b) = Level(b, topic)
        /\ Top(b) \in Int /\ b.base \in Int /\ b.dropped \in Nat /\ Len(b.out) \in Nat
    BY <1>1, LevelFacts
  <1>7. \A topic \in Topic : b.offsets[topic] = Sequence(topic, h) - Sequence(Lidar, h)
    BY <1>1, <1>2 DEF OffsetsOf, Whole
  <1>8. \A topic \in Topic : /\ Level(b, topic) = b.base + (n[topic] - 1 - h)
                             /\ b.base <= Level(b, topic)
    <2> SUFFICES ASSUME NEW topic \in Topic
                 PROVE  /\ Level(b, topic) = b.base + (n[topic] - 1 - h)
                        /\ b.base <= Level(b, topic)
      OBVIOUS
    <2>1. n[topic] - 1 \in Int /\ h <= n[topic] - 1 /\ n[topic] - 1 < n[topic]
      BY <1>2, <1>4
    <2> DEFINE x == n[topic] - 1
    <2> HIDE DEF x
    <2>2. x \in Int /\ h <= x /\ x < n[topic]
      BY <2>1 DEF x
    <2>3. Sequence(topic, x) - (Sequence(topic, h) - Sequence(Lidar, h)) = b.base + (x - h)
      BY <1>5, <2>2
    <2>4. Level(b, topic) = b.base + (x - h)
      BY <1>1, <1>3, <1>7, <2>3 DEF Level, x
    <2> DEFINE u == b.base v == Level(b, topic) w == n[topic]
    <2>5. v = u + (x - h) /\ u \in Int /\ h <= x /\ x = w - 1 /\ w \in Nat
      BY <1>2, <1>6, <2>2, <2>4 DEF x
    <2> HIDE DEF u, v, w
    <2>6. v = u + (w - 1 - h) /\ u <= v
      BY <1>2, <2>5
    <2> QED BY <2>6 DEF u, v, w
  <1>9. PICK k \in Int : \A message \in b.frames :
            /\ message[1] \in Topic /\ message[2] \in 1 .. Bursts
            /\ message = <<message[1], message[2]>>
            /\ FrameOf(b, message) = message[2] + k
            /\ Holds(b, message[1], message[2])
    BY <1>1, FramesAreBursts
  <1>10. \A topic \in Topic, x \in 1 .. Bursts :
            <<topic, x>> \in b.frames =>
               /\ h < x /\ x < n[topic] /\ FrameOf(b, <<topic, x>>) = b.base + (x - h)
    <2> SUFFICES ASSUME NEW topic \in Topic, NEW x \in 1 .. Bursts, <<topic, x>> \in b.frames
                 PROVE  h < x /\ x < n[topic] /\ FrameOf(b, <<topic, x>>) = b.base + (x - h)
      OBVIOUS
    <2>1. PICK i \in 2 .. Len(q[topic]) : q[topic][i] = x
      BY <1>1
    <2>2. h <= x /\ x < n[topic] /\ x \in Int
      <3>1. x = n[topic] - 1 - Len(q[topic]) + i /\ Len(q[topic]) = n[topic] - h
            /\ Len(q[topic]) \in Nat /\ n[topic] \in Nat
        <4>1. i \in 1 .. Len(q[topic])
          BY <1>3
        <4> QED BY <1>2, <1>3, <1>4, <2>1, <4>1
      <3> DEFINE l == Len(q[topic]) m == n[topic]
      <3>2. x = m - 1 - l + i /\ l = m - h /\ l \in Nat /\ m \in Nat /\ i \in 2 .. l
        BY <3>1
      <3> HIDE DEF l, m
      <3>3. h <= x /\ x < m
        BY <1>2, <3>2
      <3> QED BY <1>2, <3>3 DEF m
    <2>3. /\ Sequence(topic, x) - (Sequence(topic, h) - Sequence(Lidar, h)) = b.base + (x - h)
          /\ h < x
      BY <1>5, <2>2
    <2> DEFINE w == <<topic, x>>
    <2>4. w[1] = topic /\ w[2] = x
      OBVIOUS
    <2>5. FrameOf(b, w) = Sequence(topic, x) - b.offsets[topic]
      BY <2>4 DEF FrameOf
    <2> QED BY <1>7, <2>2, <2>3, <2>5
  <1>11. \A message \in b.frames : /\ b.base < FrameOf(b, message)
                                   /\ FrameOf(b, message) <= Level(b, message[1])
    <2> SUFFICES ASSUME NEW message \in b.frames
                 PROVE  /\ b.base < FrameOf(b, message)
                        /\ FrameOf(b, message) <= Level(b, message[1])
      OBVIOUS
    <2> DEFINE topic == message[1] x == message[2]
    <2>1. topic \in Topic /\ x \in 1 .. Bursts /\ message = <<topic, x>>
      BY <1>9
    <2> HIDE DEF topic, x
    <2>2. h < x /\ x < n[topic] /\ FrameOf(b, message) = b.base + (x - h)
      BY <1>10, <2>1
    <2>3. Level(b, topic) = b.base + (n[topic] - 1 - h) /\ n[topic] \in Nat
      BY <1>2, <1>8, <2>1
    <2>4. x \in Nat
      BY <1>2, <2>1
    <2> DEFINE u == b.base v == Level(b, topic) w == n[topic] z == FrameOf(b, message)
    <2>a. /\ h < x /\ x < w /\ z = u + (x - h) /\ v = u + (w - 1 - h) /\ w \in Nat
          /\ x \in Nat /\ u \in Int
      BY <1>6, <2>2, <2>3, <2>4
    <2> HIDE DEF u, v, w, z
    <2>b. u < z /\ z <= v
      BY <1>2, <2>a
    <2>5. b.base < FrameOf(b, message) /\ FrameOf(b, message) <= Level(b, topic)
      BY <2>b DEF u, v, z
    <2> QED BY <2>5 DEF topic
  <1>12. \A f \in b.base .. Top(b) : f = b.base \/ f \in Waiting(b)
    <2> SUFFICES ASSUME NEW f \in b.base .. Top(b), f # b.base PROVE f \in Waiting(b)
      OBVIOUS
    <2>1. PICK topic \in Topic : Top(b) = b.base + (n[topic] - 1 - h)
      BY <1>6, <1>8
    <2> DEFINE x == f - b.base + h
    <2>2. x \in Int /\ h < x /\ x < n[topic] /\ b.base + (x - h) = f /\ n[topic] \in Nat
      <3> DEFINE u == b.base v == Top(b) w == n[topic]
      <3>1. w \in Nat /\ u \in Int /\ v = u + (w - 1 - h) /\ f \in u .. v /\ f # u /\ x = f - u + h
        BY <1>2, <1>6, <2>1
      <3> HIDE DEF u, v, w, x
      <3>a. f \in Int /\ u < f /\ f <= u + (w - 1 - h) /\ x = f - u + h
        BY <1>2, <3>1
      <3>b. h \in Int /\ w \in Int /\ u \in Int
        BY <1>2, <3>1
      <3>2. x \in Int /\ h < x /\ x < w /\ u + (x - h) = f
        BY <3>a, <3>b
      <3> QED BY <3>1, <3>2 DEF u, w
    <2> HIDE DEF x
    <2>3. <<topic, x>> \in b.frames /\ x \in 1 .. Bursts
      BY <1>2, <1>5, <2>2
    <2>4. FrameOf(b, <<topic, x>>) = f
      BY <1>10, <2>2, <2>3
    <2> QED BY <2>3, <2>4 DEF Waiting
  <1>13. Settled(b) = {b.base}
    <2>1. b.base <= Top(b)
      BY <1>6, <1>8
    <2>2. \A f \in Waiting(b) : f # b.base
      <3>1. \A f \in Waiting(b) : b.base < f
        BY <1>11 DEF Waiting
      <3> QED BY <1>6, <3>1
    <2>3. b.base \in b.base .. Top(b)
      BY <1>6, <2>1
    <2> QED BY <1>12, <2>2, <2>3 DEF Settled
  <1>14. Cardinality(Settled(b)) = Len(b.out) + b.dropped + (-a.dropped)
    <2>1. Cardinality({b.base}) = 1
      BY FS_Singleton
    <2> DEFINE u == Len(b.out) v == b.dropped w == a.dropped
    <2>2. u + v = w + 1 /\ u \in Nat /\ v \in Nat /\ w \in Nat
      BY <1>1, <1>2, <1>6
    <2> HIDE DEF u, v, w
    <2>3. 1 = u + v + (-w)
      BY <2>2
    <2> QED BY <1>13, <2>1, <2>3 DEF u, v, w
  <1>15. \A f \in b.base .. Top(b) :
            (\E topic \in Topic : Level(b, topic) < f) => f \in b.dead \/ f \in Waiting(b)
    BY <1>6, <1>8, <1>12
  <1>16. FramesWhole(b, -a.dropped)
    BY <1>1, <1>8, <1>11, <1>14, <1>15 DEF FramesWhole
  <1> QED BY <1>16 DEF b

LEMMA EmptyWhole ==
    ASSUME NEW a, NEW n, \A topic \in Topic : a.pending[topic] = <<>>
    PROVE  QueuesWhole(a, n)
  <1>1. \A topic \in Topic : \A i \in 1 .. Len(a.pending[topic]) : FALSE
    OBVIOUS
  <1> QED BY <1>1 DEF QueuesWhole

\* What a learner has, that had counted d frames when it began: once it is in sync
\* every frame from there on, and until then it has neither given nor counted one.
LearnsWhole(a, n, d) ==
    /\ QueuesWhole(a, n)
    /\ a.synced => FramesWhole(a, -d)
    /\ ~a.synced => a.pending[First] = <<>> \/ (a.dropped = d /\ a.out = <<>>)

LEMMA LearnBurstWhole ==
    ASSUME NEW a, NEW n, NEW low, Sound(a, n, low), NEW d \in Nat, LearnsWhole(a, n, d)
    PROVE  LearnsWhole(LearnBurst(a), n, d)
  <1>1. CASE a.synced \/ a.pending[First] = <<>>
    <2>1. LearnBurst(a) = a
      BY <1>1 DEF LearnBurst
    <2> QED BY <2>1
  <1>2. CASE ~a.synced /\ a.pending[First] # <<>>
    <2>0. a.dropped = d /\ a.out = <<>> /\ QueuesWhole(a, n)
      BY <1>2 DEF LearnsWhole
    <2>1. CASE Shortens(a, n, LearnBurst(a))
      <3>1. PICK q \in [Topic -> Seq(1 .. Bursts)], c \in [Topic -> Int] \cup {NoOffsets} :
                /\ LearnBurst(a) = [a EXCEPT !.pending = q, !.candidate = c]
                /\ \A topic \in Topic : Suffix(q[topic], a.pending[topic])
        BY <2>1 DEF Shortens
      <3> DEFINE b == [a EXCEPT !.pending = q, !.candidate = c]
      <3>2. b.synced = a.synced /\ b.pending = q /\ b.last = a.last /\ b.dropped = a.dropped
            /\ b.out = a.out
        BY DEF Sound, AssemblerRecords
      <3> HIDE DEF b
      <3>3. \A topic \in Topic :
              /\ \A i \in 1 .. Len(q[topic]) : q[topic][i] = n[topic] - 1 - Len(q[topic]) + i
              /\ q[topic] # <<>> => a.last[topic] = Sequence(topic, n[topic] - 1)
        BY <2>0, <3>1, SuffixWhole
      <3>4. QueuesWhole(b, n)
        BY <3>2, <3>3 DEF QueuesWhole
      <3>5. LearnsWhole(b, n, d)
        BY <1>2, <2>0, <3>2, <3>4 DEF LearnsWhole
      <3> QED BY <3>1, <3>5 DEF b
    <2>2. CASE Synchronizes(a, LearnBurst(a))
      <3>1. PICK q \in [Topic -> Seq(1 .. Bursts)], h \in 1 .. Bursts :
                /\ LearnBurst(a) = Sync(a, q) /\ Heads(q) = Whole(h)
                /\ \A topic \in Topic :
                      Suffix(q[topic], a.pending[topic]) /\ q[topic] # <<>> /\ q[topic][1] = h
        BY <2>2 DEF Synchronizes
      <3> DEFINE b == Relearned(a, q, h)
      <3>2. LearnBurst(a) = Drain(b) /\ Sound(b, n, low) /\ b.synced
        BY <1>2, <3>1, RelearnedSound
      <3>3. FramesWhole(b, -d)
        BY <1>2, <2>0, <3>1, SyncWhole
      <3> HIDE DEF b
      <3> DEFINE e == Drain(b)
      <3>4. Sound(e, n, low) /\ (~e.synced => \A topic \in Topic : e.pending[topic] = <<>>)
        BY <3>2, DrainSound
      <3>5. e.synced => FramesWhole(e, -d)
        <4>1. -d \in Int
          OBVIOUS
        <4> DEFINE c == -d
        <4> HIDE DEF c
        <4>2. c \in Int /\ FramesWhole(b, c)
          BY <3>3, <4>1 DEF c
        <4>3. e.synced => FramesWhole(e, c)
          BY <3>2, <4>2, DrainWhole
        <4> QED BY <4>3 DEF c
      <3> HIDE DEF e
      <3>6. \A topic \in Topic : e.pending[topic] = <<>>
        BY <3>4 DEF Sound, PhaseSound
      <3>7. LearnsWhole(e, n, d)
        BY <3>5, <3>6, EmptyWhole, TopicFacts DEF LearnsWhole
      <3> QED BY <3>2, <3>7 DEF e
    <2> QED BY <1>2, <2>1, <2>2, LearnBurstIs
  <1> QED BY <1>1, <1>2

LEMMA LearnWhole ==
    ASSUME NEW a, NEW n, NEW low, Sound(a, n, low), NEW d \in Nat, LearnsWhole(a, n, d)
    PROVE  LearnsWhole(Learn(a), n, d)
  <1> DEFINE S == {r \in AssemblerRecords : Sound(r, n, low) /\ LearnsWhole(r, n, d)}
  <1>1. a \in S /\ \A r \in S : LearnBurst(r) \in S
    BY LearnBurstSound, LearnBurstWhole DEF Sound
  <1>2. Len(a.pending[First]) \in Nat
    BY TopicFacts DEF Sound, AssemblerRecords
  <1> HIDE DEF S
  <1>3. Learn(a) \in S
    BY <1>1, <1>2, LearnKeeps
  <1> QED BY <1>3 DEF S

\* A learner that knows nothing does not get in sync by one message.
Fresh(a) == ~a.synced /\ a.candidate = NoOffsets /\ Len(a.pending[First]) <= 1

LEMMA LearnFresh ==
    ASSUME NEW a, NEW n, NEW low, Sound(a, n, low), Fresh(a)
    PROVE  ~Learn(a).synced
  <1> DEFINE S == {r \in AssemblerRecords : Sound(r, n, low) /\ Fresh(r)}
  <1>1. ASSUME NEW r \in S PROVE LearnBurst(r) \in S
    <2>1. Sound(r, n, low) /\ Fresh(r) /\ Sound(LearnBurst(r), n, low)
          /\ LearnBurst(r) \in AssemblerRecords
      BY LearnBurstSound DEF Sound
    <2>2. CASE r.pending[First] = <<>>
      <3>1. LearnBurst(r) = r
        BY <2>2 DEF LearnBurst
      <3> QED BY <3>1
    <2>3. CASE r.pending[First] # <<>>
      <3> DEFINE q == Trimmed(r.pending)
      <3>1. r \in AssemblerRecords /\ r.pending \in [Topic -> Seq(1 .. Bursts)] /\ First \in Topic
            /\ stalled \in SUBSET (1 .. Bursts) /\ Lidar \in Topic
        BY <2>1, TopicFacts, AssemblerAssumption DEF Sound, Devkit, AssemblerRecords
      <3>2. q[First] = r.pending[First]
        BY <2>3, <3>1, TrimmedIs
      <3> HIDE DEF q
      <3>3. Len(r.pending[First]) \in Nat /\ ~Closed(q)
        BY <2>1, <3>1, <3>2 DEF Closed, Fresh
      <3>4. OffsetsOf(Heads(q)) # r.candidate
        <4>1. DOMAIN OffsetsOf(Heads(q)) = Topic /\ DOMAIN NoOffsets = {} /\ Topic # {}
          BY <3>1 DEF OffsetsOf, NoOffsets
        <4> QED BY <2>1, <4>1 DEF Fresh
      <3>5. ~Missed(q) /\ ~Trusted(r, q)
        BY <3>3, <3>4 DEF Missed, Trusted
      <3>6. LearnBurst(r) = [r EXCEPT !.pending = q]
        BY <2>1, <2>3, <3>5 DEF LearnBurst, Fresh, q
      <3>7. /\ LearnBurst(r).synced = r.synced /\ LearnBurst(r).candidate = r.candidate
            /\ LearnBurst(r).pending = q
        BY <3>1, <3>6 DEF AssemblerRecords
      <3>8. Fresh(LearnBurst(r))
        BY <2>1, <3>2, <3>7 DEF Fresh
      <3> QED BY <2>1, <3>8
    <2> QED BY <2>2, <2>3
  <1>2. Len(a.pending[First]) \in Nat
    BY TopicFacts DEF Sound, AssemblerRecords
  <1>s. a \in S
    BY DEF Sound
  <1> HIDE DEF S
  <1>3. Learn(a) \in S
    BY <1>1, <1>2, <1>s, LearnKeeps
  <1> QED BY <1>3 DEF S, Fresh

----------------------------------------------------------------------------
(* In sync, a topic comes to the frame f, and those it missed are given up *)

LEMMA HeardWhole ==
    ASSUME NEW r, NEW n, NEW low, Sound(r, n, low), r.synced, NEW c \in Int, FramesWhole(r, c),
           NEW e, NEW m, Sound(e, m, low), e.synced,
           NEW t \in Topic, NEW f \in Int, Level(r, t) < f,
           NEW lost \in SUBSET Int, IsFiniteSet(lost),
           \A x \in Int : x \in lost <=> Level(r, t) < x /\ x < f,
           NEW W \in SUBSET {f}, f \in W <=> f \notin r.dead,
           e.offsets = r.offsets, e.base = r.base, Level(e, t) = f,
           \A topic \in Topic : topic # t => Level(e, topic) = Level(r, topic),
           e.dead = r.dead \cup lost, e.out = r.out,
           e.dropped = r.dropped + Cardinality(lost \ r.dead),
           Waiting(e) = (Waiting(r) \ lost) \cup W,
           \A message \in e.frames :
              message \in r.frames \/ (message[1] = t /\ FrameOf(e, message) = f)
    PROVE  FramesWhole(e, c)
  <1> DEFINE base == r.base top == Top(r) new == Top(e) gone == lost \ r.dead
  <1>1. /\ \A topic \in Topic : Level(r, topic) \in Int /\ Level(r, topic) <= top
        /\ \E topic \in Topic : top = Level(r, topic)
        /\ top \in Int /\ base \in Int /\ r.dropped \in Nat /\ Len(r.out) \in Nat
        /\ r.dead \subseteq Int
    BY LevelFacts
  <1>2. /\ \A topic \in Topic : Level(e, topic) \in Int /\ Level(e, topic) <= new
        /\ \E topic \in Topic : new = Level(e, topic)
        /\ new \in Int
    BY LevelFacts
  <1>3. /\ \A x \in Waiting(r) : x \in Int /\ base < x /\ x <= top
        /\ IsFiniteSet(Settled(r)) /\ Cardinality(Settled(r)) \in Nat
        /\ \A x : x \in Settled(r) <=> x \in Int /\ base <= x /\ x <= top /\ x \notin Waiting(r)
    BY WaitingFacts
  <1>4. /\ \A topic \in Topic : base <= Level(r, topic)
        /\ \A message \in r.frames : /\ base < FrameOf(r, message)
                                     /\ FrameOf(r, message) <= Level(r, message[1])
        /\ \A d \in r.dead : d <= top /\ d \notin Waiting(r)
        /\ \A x \in base .. top :
              (\E topic \in Topic : Level(r, topic) < x) => x \in r.dead \/ x \in Waiting(r)
        /\ Cardinality(Settled(r)) = Len(r.out) + r.dropped + c
    BY DEF FramesWhole
  <1>w. /\ Waiting(e) = (Waiting(r) \ lost) \cup W /\ e.dead = r.dead \cup lost /\ e.base = base
        /\ \A x \in Int : x \in lost <=> Level(r, t) < x /\ x < f
        /\ W \subseteq {f} /\ (f \in W <=> f \notin r.dead)
    OBVIOUS
  <1> HIDE DEF base, top, new
  <1>5. top <= new /\ f <= new /\ (new = f \/ new = top)
    <2>1. f <= new
      BY <1>2
    <2>2. top <= new
      <3>1. PICK topic \in Topic : top = Level(r, topic)
        BY <1>1
      <3>2. CASE topic = t
        BY <1>1, <1>2, <2>1, <3>1, <3>2
      <3>3. CASE topic # t
        BY <1>2, <3>1, <3>3
      <3> QED BY <3>2, <3>3
    <2>3. new = f \/ new <= top
      <3>1. PICK topic \in Topic : new = Level(e, topic)
        BY <1>2
      <3> QED BY <1>1, <3>1
    <2> QED BY <1>1, <1>2, <2>1, <2>2, <2>3
  <1>6. f \notin lost /\ base < f /\ base <= Level(r, t) /\ Level(r, t) \in Int /\ Level(r, t) <= top
    <2>1. Level(r, t) \in Int /\ base <= Level(r, t) /\ Level(r, t) < f /\ Level(r, t) <= top
      BY <1>1, <1>4
    <2>2. f \notin lost
      BY <1>w
    <2> QED BY <1>1, <2>1, <2>2
  <1>7. \A x \in Int : x \in lost => base < x /\ x < f
    BY <1>1, <1>6, <1>w
  <1>8. \A topic \in Topic : Level(r, topic) <= Level(e, topic)
    BY <1>1
  <1>9. \A topic \in Topic : base <= Level(e, topic)
    BY <1>1, <1>2, <1>4, <1>8
  <1>10. \A message \in e.frames : /\ base < FrameOf(e, message)
                                   /\ FrameOf(e, message) <= Level(e, message[1])
    <2> SUFFICES ASSUME NEW message \in e.frames
                 PROVE  base < FrameOf(e, message) /\ FrameOf(e, message) <= Level(e, message[1])
      OBVIOUS
    <2>1. CASE message[1] = t /\ FrameOf(e, message) = f
      BY <1>6, <2>1
    <2>2. CASE message \in r.frames
      <3>1. FrameOf(e, message) = FrameOf(r, message)
        BY DEF FrameOf
      <3>2. message[1] \in Topic
        BY <2>2 DEF Sound, AssemblerRecords
      <3>3. FrameOf(r, message) \in Waiting(r)
        BY <2>2 DEF Waiting
      <3>4. FrameOf(r, message) \in Int
        BY <1>3, <3>3
      <3>5. FrameOf(r, message) <= Level(r, message[1]) /\ base < FrameOf(r, message)
        BY <1>4, <2>2
      <3>6. Level(r, message[1]) \in Int /\ Level(e, message[1]) \in Int
            /\ Level(r, message[1]) <= Level(e, message[1])
        BY <1>1, <1>2, <1>8, <3>2
      <3> QED BY <3>1, <3>4, <3>5, <3>6
    <2> QED BY <2>1, <2>2
  <1>11. \A d \in e.dead : d <= new /\ d \notin Waiting(e)
    <2> SUFFICES ASSUME NEW d \in e.dead PROVE d <= new /\ d \notin Waiting(e)
      OBVIOUS
    <2>1. CASE d \in r.dead
      <3>1. d \in Int /\ d <= top /\ d \notin Waiting(r) /\ d \notin W
        BY <1>1, <1>4, <1>w, <2>1
      <3> QED BY <1>1, <1>2, <1>5, <1>w, <3>1
    <2>2. CASE d \in lost
      <3>1. d \in Int /\ d < f /\ d \notin W
        BY <1>6, <1>7, <1>w, <2>2
      <3> QED BY <1>2, <1>5, <1>w, <2>2, <3>1
    <2> QED BY <1>w, <2>1, <2>2
  <1>12. ASSUME NEW x \in base .. new, NEW topic \in Topic, Level(e, topic) < x
         PROVE  x \in e.dead \/ x \in Waiting(e)
    <2>1. x \in Int /\ base <= x /\ x <= new /\ Level(r, topic) < x
      BY <1>1, <1>2, <1>8, <1>12
    <2>2. CASE x <= top
      <3>1. x \in r.dead \/ x \in Waiting(r)
        BY <1>1, <1>4, <2>1, <2>2
      <3> QED BY <1>w, <3>1
    <2>3. CASE ~(x <= top)
      <3>1. new = f /\ x <= f /\ top < x /\ x \notin r.dead
        BY <1>1, <1>2, <1>4, <1>5, <2>1, <2>3
      <3>2. CASE x = f
        BY <1>w, <3>1, <3>2
      <3>3. CASE x # f
        <4>1. Level(r, t) < x /\ x < f
          BY <1>1, <1>6, <2>1, <3>1, <3>3
        <4> QED BY <1>w, <2>1, <4>1
      <3> QED BY <3>2, <3>3
    <2> QED BY <2>2, <2>3
  <1>13. \A x : x \in Settled(e) <=> x \in Int /\ base <= x /\ x <= new /\ x \notin Waiting(e)
    BY <1>1, <1>2, <1>w DEF Settled, new
  <1>14. Settled(e) = Settled(r) \cup gone
    <2>1. ASSUME NEW x \in Settled(r) PROVE x \in Settled(e)
      <3>1. x \in Int /\ base <= x /\ x <= top /\ x \notin Waiting(r)
        BY <1>3
      <3>2. x \notin W
        <4> SUFFICES ASSUME x = f, f \notin r.dead PROVE FALSE
          BY <1>w
        <4>1. Level(r, t) < x
          OBVIOUS
        <4> QED BY <1>1, <1>4, <3>1, <4>1
      <3> QED BY <1>1, <1>2, <1>5, <1>13, <1>w, <3>1, <3>2
    <2>2. ASSUME NEW x \in gone PROVE x \in Settled(e)
      <3>1. x \in Int /\ x \in lost
        OBVIOUS
      <3>2. base < x /\ x < f /\ x \notin Waiting(e)
        BY <1>6, <1>7, <1>w, <3>1
      <3> QED BY <1>1, <1>2, <1>5, <1>13, <3>1, <3>2
    <2>3. ASSUME NEW x \in Settled(e), x \notin Settled(r) PROVE x \in gone
      <3>1. x \in Int /\ base <= x /\ x <= new /\ x \notin Waiting(e)
        BY <1>13
      <3>2. CASE x <= top
        <4>1. x \in Waiting(r)
          BY <1>3, <2>3, <3>1, <3>2
        <4>2. x \in lost
          BY <1>w, <3>1, <4>1
        <4> QED BY <1>4, <4>1, <4>2
      <3>3. CASE ~(x <= top)
        <4>1. new = f /\ x <= f /\ top < x /\ x \notin r.dead
          BY <1>1, <1>2, <1>4, <1>5, <3>1, <3>3
        <4>2. x # f
          BY <1>w, <3>1, <4>1
        <4>3. Level(r, t) < x /\ x < f
          BY <1>1, <1>6, <3>1, <4>1, <4>2
        <4> QED BY <1>w, <3>1, <4>1, <4>3
      <3> QED BY <3>2, <3>3
    <2> QED BY <2>1, <2>2, <2>3
  <1>15. Settled(r) \cap gone = {}
    <2> SUFFICES ASSUME NEW x \in Settled(r), x \in lost, x \notin r.dead PROVE FALSE
      OBVIOUS
    <2>1. x \in Int /\ base <= x /\ x <= top /\ x \notin Waiting(r)
      BY <1>3
    <2>2. Level(r, t) < x
      BY <1>w, <2>1
    <2> QED BY <1>1, <1>4, <2>1, <2>2
  <1>16. IsFiniteSet(gone) /\ Cardinality(gone) \in Nat
    BY FS_Difference, FS_CardinalityType
  <1>17. e.dropped = r.dropped + Cardinality(gone)
    OBVIOUS
  <1> HIDE DEF gone
  <1>18. Cardinality(Settled(e)) = Cardinality(Settled(r)) + Cardinality(gone)
    <2>1. Cardinality(Settled(r) \cap gone) = 0
      BY <1>15, FS_EmptySet
    <2>2. Cardinality(Settled(r) \cup gone)
              = Cardinality(Settled(r)) + Cardinality(gone) - Cardinality(Settled(r) \cap gone)
      BY <1>3, <1>16, FS_Union
    <2> QED BY <1>3, <1>14, <1>16, <2>1, <2>2
  <1>19. Cardinality(Settled(e)) = Len(e.out) + e.dropped + c
    <2> DEFINE u == Cardinality(Settled(e)) v == Cardinality(Settled(r)) w == Cardinality(gone)
               x == Len(r.out) y == r.dropped z == e.dropped
    <2>1. /\ u = v + w /\ v = x + y + c /\ z = y + w /\ x \in Int /\ y \in Int /\ w \in Int
          /\ Len(e.out) = x
      BY <1>1, <1>4, <1>16, <1>17, <1>18
    <2> HIDE DEF u, v, w, x, y, z
    <2>2. u = x + z + c
      BY <2>1
    <2> QED BY <2>1, <2>2 DEF u, z
  <1>20. \A x \in e.base .. Top(e) :
            (\E topic \in Topic : Level(e, topic) < x) => x \in e.dead \/ x \in Waiting(e)
    BY <1>12, <1>w DEF new
  <1> QED BY <1>9, <1>10, <1>11, <1>19, <1>20, <1>w DEF FramesWhole, new

\* What is kept once the frames of a gap are given up, and with the message itself.
Kept(r, t, b, lo, hi) == DropFrames(Numbered(r, t, b), t, lo .. hi)
Added(r, t, b, lo, hi) == [Kept(r, t, b, lo, hi) EXCEPT !.frames = @ \cup {<<t, b>>}]

\* It is the record r but for the frames lost, and holds what held adds.
KeptFrom(e, r, t, b, lost, held) ==
    /\ e.synced = r.synced /\ e.offsets = r.offsets /\ e.base = r.base /\ e.out = r.out
    /\ e.last = [r.last EXCEPT ![t] = Sequence(t, b)]
    /\ e.dead = r.dead \cup lost
    /\ e.dropped = r.dropped + Cardinality(lost \ r.dead)
    /\ e.frames = {message \in r.frames : FrameOf(r, message) \notin lost} \cup held

LEMMA KeptIs ==
    ASSUME NEW r \in AssemblerRecords, NEW t \in Topic, NEW b, NEW lo, NEW hi
    PROVE  /\ KeptFrom(Kept(r, t, b, lo, hi), r, t, b, Skipped(lo, hi, r.offsets[t]), {})
           /\ KeptFrom(Added(r, t, b, lo, hi), r, t, b, Skipped(lo, hi, r.offsets[t]), {<<t, b>>})
  <1> DEFINE a == Numbered(r, t, b)
             lost == Skipped(lo, hi, r.offsets[t])
             F == {message \in r.frames : FrameOf(r, message) \notin lost}
             c == Cardinality(lost \ r.dead)
             k == Kept(r, t, b, lo, hi)
             d == Added(r, t, b, lo, hi)
  <1>1. a = [r EXCEPT !.last = [@ EXCEPT ![t] = Sequence(t, b)]]
    BY DEF Numbered, AssemblerRecords
  <1>2. /\ a.synced = r.synced /\ a.offsets = r.offsets /\ a.base = r.base /\ a.out = r.out
        /\ a.last = [r.last EXCEPT ![t] = Sequence(t, b)] /\ a.dead = r.dead
        /\ a.dropped = r.dropped /\ a.frames = r.frames
        /\ DOMAIN a = DOMAIN r
    BY <1>1 DEF AssemblerRecords
  <1> HIDE DEF a
  <1>3. \A message : FrameOf(a, message) = FrameOf(r, message)
    BY <1>2 DEF FrameOf
  <1>4. k = [a EXCEPT !.dead = @ \cup lost, !.dropped = @ + Cardinality(lost \ a.dead),
                      !.frames = {message \in @ : FrameOf(a, message) \notin lost}]
    BY <1>2 DEF Kept, DropFrames, Skipped, a
  <1>5. /\ k.synced = a.synced /\ k.offsets = a.offsets /\ k.base = a.base /\ k.out = a.out
        /\ k.last = a.last /\ k.dead = a.dead \cup lost
        /\ k.dropped = a.dropped + Cardinality(lost \ a.dead)
        /\ k.frames = {message \in a.frames : FrameOf(a, message) \notin lost}
        /\ DOMAIN k = DOMAIN r
    <2>1. DOMAIN a = {"synced", "offsets", "candidate", "pending", "frames", "dead", "last",
                      "dropped", "base", "out"}
      BY <1>2 DEF AssemblerRecords
    <2> HIDE DEF lost
    <2> QED BY <1>2, <1>4, <2>1
  <1>6. k.frames = F
    BY <1>2, <1>3, <1>5
  <1>7. d = [k EXCEPT !.frames = @ \cup {<<t, b>>}]
    BY DEF Added
  <1> HIDE DEF k, d
  <1>8. /\ d.synced = k.synced /\ d.offsets = k.offsets /\ d.base = k.base /\ d.out = k.out
        /\ d.last = k.last /\ d.dead = k.dead /\ d.dropped = k.dropped
        /\ d.frames = k.frames \cup {<<t, b>>}
    <2>1. DOMAIN k = {"synced", "offsets", "candidate", "pending", "frames", "dead", "last",
                      "dropped", "base", "out"}
      BY <1>5 DEF AssemblerRecords
    <2> QED BY <1>7, <2>1
  <1> HIDE DEF F, lost
  <1>9. k.frames = F \cup {}
    BY <1>6
  <1> QED BY <1>2, <1>5, <1>6, <1>8, <1>9 DEF F, lost, k, d, KeptFrom

\* A message that is queued leaves no gap.
LEMMA QueuedWhole ==
    ASSUME NEW r, NEW n, NEW low, Sound(r, n, low), QueuesWhole(r, n), NEW t \in Topic,
           n[t] <= Bursts, NEW p \in Seq(1 .. Bursts), Suffix(p, r.pending[t]),
           NEW x, x = [r EXCEPT !.last = [@ EXCEPT ![t] = Sequence(t, n[t])],
                                !.pending = [@ EXCEPT ![t] = Append(p, n[t])]]
    PROVE  QueuesWhole(x, Further(n, t))
  <1> DEFINE m == Further(n, t)
             q == Append(p, n[t])
             w == r.pending[t]
             b == n[t]
  <1>1. /\ r \in AssemblerRecords /\ Bursts \in Nat /\ n \in [Topic -> 1 .. Bursts + 1]
        /\ r.pending \in [Topic -> Seq(1 .. Bursts)] /\ r.last \in [Topic -> Nat]
    BY AssemblerAssumption DEF Sound, Devkit, AssemblerRecords
  <1>2. /\ x.pending = [r.pending EXCEPT ![t] = q] /\ x.last = [r.last EXCEPT ![t] = Sequence(t, b)]
    BY <1>1 DEF AssemblerRecords
  <1>3. b \in 1 .. Bursts + 1 /\ b \in Nat /\ b \in 1 .. Bursts
    <2>1. b \in 1 .. Bursts + 1
      BY <1>1
    <2>2. b <= Bursts
      OBVIOUS
    <2> HIDE DEF b
    <2> QED BY <1>1, <2>1, <2>2
  <1>4. m[t] = b + 1 /\ \A topic \in Topic : topic # t => m[topic] = n[topic]
    BY <1>1 DEF Further
  <1>5. /\ Len(p) \in Nat /\ Len(q) = Len(p) + 1 /\ q[Len(p) + 1] = b
        /\ \A i \in 1 .. Len(p) : q[i] = p[i]
    BY <1>3
  <1>6. \A i \in 1 .. Len(w) : w[i] = b - 1 - Len(w) + i
    BY DEF QueuesWhole
  <1>7. w \in Seq(1 .. Bursts) /\ Len(w) \in Nat
    BY <1>1
  <1>8. PICK d \in 0 .. Len(w) : Len(p) = Len(w) - d /\ \A i \in 1 .. Len(p) : p[i] = w[i + d]
    BY DEF Suffix
  <1>9. /\ x.pending[t] = q /\ x.last[t] = Sequence(t, b)
        /\ \A topic \in Topic : topic # t => /\ x.pending[topic] = r.pending[topic]
                                             /\ x.last[topic] = r.last[topic]
    BY <1>1, <1>2
  <1> HIDE DEF q, w, b, m
  <1>10. ASSUME NEW i \in 1 .. Len(q) PROVE q[i] = m[t] - 1 - Len(q) + i
    <2> DEFINE k == Len(p) z == Len(w) y == m[t] u == Len(q)
    <2>1. k \in Nat /\ z \in Nat /\ y = b + 1 /\ u = k + 1 /\ k = z - d /\ i \in 1 .. u /\ d \in 0 .. z
      BY <1>4, <1>5, <1>7, <1>8
    <2>2. CASE i \in 1 .. Len(p)
      <3>1. q[i] = w[i + d] /\ i + d \in 1 .. Len(w)
        BY <1>5, <1>7, <1>8, <2>2
      <3>2. q[i] = b - 1 - z + (i + d)
        BY <1>6, <3>1
      <3> HIDE DEF k, z, y, u
      <3>3. b - 1 - z + (i + d) = y - 1 - u + i
        BY <1>3, <2>1
      <3> QED BY <3>2, <3>3 DEF y, u
    <2>3. CASE i = Len(p) + 1
      <3>1. q[i] = b /\ i = k + 1
        BY <1>5, <2>3
      <3> HIDE DEF k, z, y, u
      <3>2. b = y - 1 - u + i
        BY <1>3, <2>1, <3>1
      <3> QED BY <3>1, <3>2 DEF y, u
    <2>4. i \in 1 .. Len(p) \/ i = Len(p) + 1
      BY <1>5
    <2> QED BY <2>2, <2>3, <2>4
  <1>11. Sequence(t, b) = Sequence(t, m[t] - 1)
    <2>1. m[t] - 1 = b
      BY <1>3, <1>4
    <2> QED BY <2>1
  <1>12. ASSUME NEW topic \in Topic
         PROVE  /\ \A i \in 1 .. Len(x.pending[topic]) :
                      x.pending[topic][i] = m[topic] - 1 - Len(x.pending[topic]) + i
                /\ x.pending[topic] # <<>> => x.last[topic] = Sequence(topic, m[topic] - 1)
    <2>1. CASE topic = t
      BY <1>9, <1>10, <1>11, <2>1
    <2>2. CASE topic # t
      <3>1. x.pending[topic] = r.pending[topic] /\ x.last[topic] = r.last[topic]
            /\ m[topic] = n[topic]
        BY <1>4, <1>9, <2>2
      <3> QED BY <3>1 DEF QueuesWhole
    <2> QED BY <2>1, <2>2
  <1> QED BY <1>12 DEF QueuesWhole, m

----------------------------------------------------------------------------
(* The state *)

AssemblerWhole ==
    /\ QueuesWhole(Current, next)
    /\ emitted \in Nat /\ atSync \in Nat
    /\ synced => FramesWhole(Current, emitted - atSync)

\* Learning, the assembler is in sync only if it was not before.
LEMMA LearnedWhole ==
    ASSUME AssemblerSound, AssemblerWhole, NEW t \in Topic, next[t] <= Bursts,
           NEW r, r = ResumedFrom(t, next[t]), ~r.synced
    PROVE  /\ LearnsWhole(Learn(Queued(r, t, next[t])), Further(next, t), droppedFrames)
           /\ synced => ~Learn(Queued(r, t, next[t])).synced
  <1> DEFINE b == next[t]
             m == Further(next, t)
             x == Queued(r, t, b)
  <1>0. Sound(Current, next, newest)
    BY DEF AssemblerSound
  <1>1. Sound(x, m, newest)
    BY <1>0, QueuedIs
  <1>2. PICK p \in Seq(1 .. Bursts) :
              /\ Suffix(p, r.pending[t])
              /\ x = [r EXCEPT !.last = [@ EXCEPT ![t] = Sequence(t, b)],
                               !.pending = [@ EXCEPT ![t] = Append(p, b)]]
    BY <1>0, QueuedIs
  <1>3. Sound(r, next, newest) /\ r \in AssemblerRecords /\ droppedFrames \in Nat
    <2>1. Sound(r, next, newest)
      BY <1>0, ResumedSound
    <2>2. droppedFrames \in Nat
      <3>1. Current \in AssemblerRecords
        BY <1>0 DEF Sound
      <3>2. Current.dropped \in Nat
        BY <3>1 DEF AssemblerRecords
      <3> QED BY <3>2, CurrentIs
    <2> QED BY <2>1, <2>2 DEF Sound
  <1>4. r = Current \/ r = Resync(Current)
    BY DEF ResumedFrom
  <1>5. /\ Resync(Current).candidate = NoOffsets /\ Resync(Current).dropped = droppedFrames
        /\ Resync(Current).out = <<>> /\ \A topic \in Topic : Resync(Current).pending[topic] = <<>>
    BY DEF Resync, Current
  <1>6. r.dropped = droppedFrames /\ r.out = <<>> /\ QueuesWhole(r, next)
    <2>1. CASE r = Current
      BY <2>1, CurrentIs DEF AssemblerWhole
    <2>2. CASE r = Resync(Current)
      <3> DEFINE e == Resync(Current)
      <3> HIDE DEF e
      <3>1. \A topic \in Topic : e.pending[topic] = <<>>
        BY <1>5 DEF e
      <3>2. QueuesWhole(e, next)
        BY <3>1, EmptyWhole
      <3> QED BY <1>5, <2>2, <3>2 DEF e
    <2> QED BY <1>4, <2>1, <2>2
  <1>7. /\ x.synced = r.synced /\ x.candidate = r.candidate /\ x.dropped = r.dropped /\ x.out = r.out
        /\ x.pending = [r.pending EXCEPT ![t] = Append(p, b)]
    BY <1>2, <1>3 DEF AssemblerRecords
  <1>8. QueuesWhole(x, m)
    <2> HIDE DEF x, m
    <2> QED BY <1>2, <1>3, <1>6, QueuedWhole DEF m
  <1> HIDE DEF x, m
  <1>9. LearnsWhole(x, m, droppedFrames)
    BY <1>6, <1>7, <1>8 DEF LearnsWhole
  <1>10. LearnsWhole(Learn(x), m, droppedFrames)
    BY <1>1, <1>3, <1>9, LearnWhole
  <1>11. ASSUME synced PROVE ~Learn(x).synced
    <2>1. r = Resync(Current)
      BY <1>4, <1>11, CurrentIs
    <2>2. r.candidate = NoOffsets /\ \A topic \in Topic : r.pending[topic] = <<>>
      BY <1>5, <2>1
    <2>3. r.pending \in [Topic -> Seq(1 .. Bursts)] /\ First \in Topic
      BY <1>3, TopicFacts DEF AssemblerRecords
    <2>4. Len(x.pending[First]) <= 1
      <3>1. CASE First # t
        <4>1. x.pending[First] = <<>>
          BY <1>7, <2>2, <2>3, <3>1
        <4> QED BY <4>1
      <3>2. CASE First = t
        <4>1. x.pending[First] = Append(p, b)
          BY <1>7, <2>3, <3>2
        <4>2. PICK d \in 0 .. Len(r.pending[t]) : Len(p) = Len(r.pending[t]) - d
          BY <1>2 DEF Suffix
        <4>3. Len(r.pending[t]) = 0
          BY <2>2
        <4>4. Len(p) = 0
          <5>1. d \in 0 .. 0 /\ Len(p) = 0 - d
            BY <4>2, <4>3
          <5>2. d = 0
            BY <5>1
          <5> QED BY <5>1, <5>2
        <4>5. Len(Append(p, b)) = Len(p) + 1
          OBVIOUS
        <4> QED BY <4>1, <4>4, <4>5
      <3> QED BY <3>1, <3>2
    <2>5. Fresh(x)
      BY <1>7, <2>2, <2>4 DEF Fresh
    <2> QED BY <1>1, <2>5, LearnFresh
  <1> QED BY <1>10, <1>11 DEF x, m

LEMMA KeptWhole ==
    ASSUME AssemblerSound, AssemblerWhole, NEW t \in Topic, next[t] <= Bursts,
           ResumedFrom(t, next[t]).synced,
           NEW k, k = Kept(Current, t, next[t], last[t] + 1, Sequence(t, next[t]) - 1),
           NEW d, d = Added(Current, t, next[t], last[t] + 1, Sequence(t, next[t]) - 1),
           NEW f, f = FrameOf(Numbered(Current, t, next[t]), <<t, next[t]>>)
    PROVE  /\ Sound(k, Further(next, t), newest) /\ k.synced
           /\ Sound(d, Further(next, t), newest) /\ d.synced
           /\ f \in k.dead => FramesWhole(k, emitted - atSync)
           /\ f \notin k.dead => FramesWhole(d, emitted - atSync)
           /\ last[t] > 0 /\ ResumedFrom(t, next[t]) = Current /\ synced
  <1> DEFINE b == next[t]
             m == Further(next, t)
             r == Current
             s == Sequence(t, b)
             o == r.offsets[t]
             lost == Skipped(last[t] + 1, s - 1, o)
             c == emitted - atSync
  <1>0. Sound(r, next, newest)
    BY DEF AssemblerSound
  <1>1. ResumedFrom(t, b) = r /\ r.synced /\ synced
    <2>1. ResumedFrom(t, b) = r
      BY <1>0, ResumedSound
    <2> QED BY <2>1, CurrentIs
  <1>2. /\ \A topic \in Topic : /\ last[topic] \in Nat /\ r.offsets[topic] \in Int
                                /\ Level(r, topic) \in Int /\ last[topic] > 0
        /\ r.dead \subseteq Int
    BY <1>0, <1>1, LevelFacts, CurrentIs
  <1>3. /\ b \in 1 .. Bursts /\ b \in Nat \ {0} /\ restart \in Nat
    <2>1. next \in [Topic -> 1 .. Bursts + 1] /\ Bursts \in Nat /\ restart \in Nat
      BY <1>0, AssemblerAssumption DEF Sound, Devkit
    <2>2. b \in 1 .. Bursts + 1
      BY <2>1
    <2>3. b <= Bursts
      OBVIOUS
    <2> HIDE DEF b
    <2> QED BY <2>1, <2>2, <2>3
  <1>4. s \in Nat /\ last[t] < s
    <2>1. s \in Nat
      BY <1>3, SequenceIs
    <2>2. ~(last[t] > 0 /\ s <= last[t])
      <3> SUFFICES ASSUME last[t] > 0 /\ s <= last[t] PROVE FALSE
        OBVIOUS
      <3>1. ResumedFrom(t, b) = Resync(r)
        BY DEF ResumedFrom
      <3>2. ~Resync(r).synced
        BY <1>0, ResyncSound
      <3> QED BY <1>1, <3>1, <3>2
    <2> QED BY <1>2, <2>1, <2>2
  <1>5. f = s - o
    <2> DEFINE w == <<t, b>>
    <2>1. w[1] = t /\ w[2] = b
      OBVIOUS
    <2>2. Numbered(r, t, b).offsets = r.offsets
      BY DEF Numbered, Current
    <2> QED BY <2>1, <2>2 DEF FrameOf
  <1>6. Level(r, t) = last[t] - o /\ o \in Int /\ last[t] \in Nat
    BY <1>2, CurrentIs DEF Level
  <1>i. last[t] + 1 \in Int /\ s - 1 \in Int
    BY <1>4, <1>6
  <1>7. /\ lost \in SUBSET Int /\ IsFiniteSet(lost)
        /\ \A x \in Int : x \in lost <=> Level(r, t) < x /\ x < f
    <2> DEFINE lo == last[t] + 1 hi == s - 1
    <2>1. lo \in Int /\ hi \in Int
      BY <1>i
    <2> HIDE DEF lo, hi
    <2>2. /\ Skipped(lo, hi, o) \in SUBSET Int /\ IsFiniteSet(Skipped(lo, hi, o))
          /\ \A x \in Int : x \in Skipped(lo, hi, o) <=> lo - o <= x /\ x <= hi - o
      BY <1>6, <2>1, GapFinite
    <2> DEFINE u == Level(r, t) v == last[t]
    <2>3. /\ lo = v + 1 /\ hi = s - 1 /\ u = v - o /\ f = s - o /\ v \in Int /\ s \in Int /\ o \in Int
      BY <1>4, <1>5, <1>6 DEF lo, hi
    <2> HIDE DEF u, v, s, o
    <2>4. \A x \in Int : (lo - o <= x /\ x <= hi - o) <=> (u < x /\ x < f)
      BY <2>3
    <2> QED BY <2>2, <2>4 DEF lo, hi, u
  <1>8. f \in Int /\ Level(r, t) < f
    <2> DEFINE u == Level(r, t) v == last[t]
    <2>1. u = v - o /\ f = s - o /\ v \in Int /\ s \in Int /\ o \in Int /\ v < s
      BY <1>4, <1>5, <1>6
    <2> HIDE DEF u, v, s, o
    <2>2. f \in Int /\ u < f
      BY <2>1
    <2> QED BY <2>2 DEF u
  <1>8a. KeptFrom(k, r, t, b, lost, {}) /\ KeptFrom(d, r, t, b, lost, {<<t, b>>})
    <2>1. r \in AssemblerRecords
      BY <1>0 DEF Sound
    <2> DEFINE lo == last[t] + 1 hi == s - 1
    <2>2. k = Kept(r, t, b, lo, hi) /\ d = Added(r, t, b, lo, hi)
      OBVIOUS
    <2>3. s = Sequence(t, b) /\ lost = Skipped(lo, hi, r.offsets[t])
      OBVIOUS
    <2> HIDE DEF s, r, b, lo, hi, lost
    <2>4. KeptFrom(k, r, t, b, lost, {}) /\ KeptFrom(d, r, t, b, lost, {<<t, b>>})
      BY <2>1, <2>2, <2>3, KeptIs
    <2> QED BY <2>4
  <1>9. \A e \in {k, d} :
              /\ e.synced = r.synced /\ e.offsets = r.offsets /\ e.base = r.base /\ e.out = r.out
              /\ e.last = [r.last EXCEPT ![t] = s]
              /\ e.dead = r.dead \cup lost
              /\ e.dropped = r.dropped + Cardinality(lost \ r.dead)
    <2> HIDE DEF r, b, lost
    <2>1. s = Sequence(t, b)
      BY DEF b
    <2> HIDE DEF s
    <2> QED BY <1>8a, <2>1 DEF KeptFrom
  <1>k. /\ k.frames = {message \in r.frames : FrameOf(r, message) \notin lost}
        /\ d.frames = k.frames \cup {<<t, b>>}
    <2> HIDE DEF r, b, lost
    <2> QED BY <1>8a DEF KeptFrom
  <1>10. Sound(k, m, newest) /\ k.synced /\ Sound(d, m, newest) /\ d.synced
    <2> DEFINE lo == last[t] + 1 hi == s - 1
    <2>1. lo \in Int /\ hi \in Int
      BY <1>i
    <2> HIDE DEF lo, hi
    <2>2. /\ k = DropFrames(Numbered(r, t, b), t, lo .. hi)
          /\ d = [k EXCEPT !.frames = @ \cup {<<t, b>>}]
      BY DEF Kept, Added, lo, hi
    <2>3. r = ResumedFrom(t, b)
      BY <1>1
    <2> HIDE DEF r, m
    <2> QED BY <1>0, <1>1, <2>1, <2>2, <2>3, SyncedSound DEF m, r
  <1>11. FramesWhole(r, c) /\ c \in Int
    BY <1>1 DEF AssemblerWhole
  <1>l. r.last \in [Topic -> Nat]
    BY <1>0 DEF Sound, AssemblerRecords
  <1> HIDE DEF r, b, m, s, o, lost, c
  <1>12. \A e \in {k, d} : /\ Level(e, t) = f
                           /\ \A topic \in Topic : topic # t => Level(e, topic) = Level(r, topic)
    <2> SUFFICES ASSUME NEW e \in {k, d}
                 PROVE  /\ Level(e, t) = f
                        /\ \A topic \in Topic : topic # t => Level(e, topic) = Level(r, topic)
      OBVIOUS
    <2>1. e.last = [r.last EXCEPT ![t] = s] /\ e.offsets = r.offsets
      BY <1>9
    <2>2. e.last[t] = s /\ \A topic \in Topic : topic # t => e.last[topic] = r.last[topic]
      BY <1>l, <2>1
    <2> QED BY <1>5, <2>1, <2>2 DEF Level, o
  <1>13. \A e \in {k, d} : \A message : FrameOf(e, message) = FrameOf(r, message)
    BY <1>9 DEF FrameOf
  <1>14. Waiting(k) = (Waiting(r) \ lost) \cup {}
    <2> QED BY <1>13, <1>k DEF Waiting
  <1>15. FrameOf(d, <<t, b>>) = f
    <2> DEFINE w == <<t, b>>
    <2>1. w[1] = t /\ w[2] = b
      OBVIOUS
    <2>2. FrameOf(d, w) = Sequence(t, b) - r.offsets[t]
      BY <1>9, <2>1 DEF FrameOf
    <2> QED BY <1>5, <2>2 DEF s, o
  <1>16. Waiting(d) = (Waiting(r) \ lost) \cup {f}
    <2>1. Waiting(d) = {FrameOf(d, message) : message \in k.frames} \cup {FrameOf(d, <<t, b>>)}
      BY <1>k DEF Waiting
    <2>2. {FrameOf(d, message) : message \in k.frames} = Waiting(k)
      BY <1>13 DEF Waiting
    <2> QED BY <1>14, <1>15, <2>1, <2>2
  <1>17. f \notin lost
    BY <1>7, <1>8
  <1>18. \A message \in k.frames : message \in r.frames
    BY <1>k
  <1>19. \A message \in d.frames : message \in r.frames \/ (message[1] = t /\ FrameOf(d, message) = f)
    <2> SUFFICES ASSUME NEW message \in d.frames, message \notin r.frames
                 PROVE  message[1] = t /\ FrameOf(d, message) = f
      OBVIOUS
    <2>1. message = <<t, b>>
      BY <1>18, <1>k
    <2>2. message[1] = t
      BY <2>1
    <2> QED BY <1>15, <2>1, <2>2
  <1>20. ASSUME f \in k.dead PROVE FramesWhole(k, c)
    <2>1. f \in r.dead
      BY <1>9, <1>17, <1>20
    <2>2. {} \in SUBSET {f} /\ (f \in {} <=> f \notin r.dead)
      BY <2>1
    <2> DEFINE W == {}
    <2>3. W \in SUBSET {f} /\ (f \in W <=> f \notin r.dead) /\ Waiting(k) = (Waiting(r) \ lost) \cup W
      BY <1>14, <2>2
    <2> HIDE DEF W
    <2>4. /\ k.offsets = r.offsets /\ k.base = r.base /\ k.dead = r.dead \cup lost /\ k.out = r.out
          /\ k.dropped = r.dropped + Cardinality(lost \ r.dead)
          /\ Level(k, t) = f
          /\ \A topic \in Topic : topic # t => Level(k, topic) = Level(r, topic)
      BY <1>9, <1>12
    <2>5. \A message \in k.frames :
              message \in r.frames \/ (message[1] = t /\ FrameOf(k, message) = f)
      BY <1>18
    <2> QED BY <1>0, <1>1, <1>7, <1>8, <1>10, <1>11, <2>3, <2>4, <2>5, HeardWhole
  <1>21. ASSUME f \notin k.dead PROVE FramesWhole(d, c)
    <2>1. f \notin r.dead
      BY <1>9, <1>21
    <2> DEFINE W == {f}
    <2>3. W \in SUBSET {f} /\ (f \in W <=> f \notin r.dead) /\ Waiting(d) = (Waiting(r) \ lost) \cup W
      BY <1>16, <2>1
    <2> HIDE DEF W
    <2>4. /\ d.offsets = r.offsets /\ d.base = r.base /\ d.dead = r.dead \cup lost /\ d.out = r.out
          /\ d.dropped = r.dropped + Cardinality(lost \ r.dead)
          /\ Level(d, t) = f
          /\ \A topic \in Topic : topic # t => Level(d, topic) = Level(r, topic)
      BY <1>9, <1>12
    <2> QED BY <1>0, <1>1, <1>7, <1>8, <1>10, <1>11, <1>19, <2>3, <2>4, HeardWhole
  <1> QED BY <1>1, <1>2, <1>10, <1>20, <1>21 DEF c, r, b, m

LEMMA OfferedWhole ==
    ASSUME AssemblerSound, AssemblerWhole, NEW t \in Topic, next[t] <= Bursts
    PROVE  LET a == Offered(t, next[t]) IN
           /\ QueuesWhole(a, Further(next, t))
           /\ a.synced /\ synced => FramesWhole(a, emitted - atSync)
           /\ a.synced /\ ~synced => FramesWhole(a, -droppedFrames)
  <1> DEFINE b == next[t]
             m == Further(next, t)
             r == ResumedFrom(t, b)
             x == Numbered(r, t, b)
             lo == last[t] + 1
             hi == Sequence(t, b) - 1
             kept == IF last[t] > 0 THEN DropFrames(x, t, lo .. hi) ELSE x
             added == [kept EXCEPT !.frames = @ \cup {<<t, b>>}]
             f == FrameOf(x, <<t, b>>)
             a == Offered(t, b)
             c == emitted - atSync
  <1>1. a = CASE ~x.synced -> Learn([x EXCEPT !.pending[t] = Queue(@, b)])
              [] x.synced /\ f \in kept.dead -> Drain(kept)
              [] x.synced /\ f \notin kept.dead ->
                    IF Overfull(added) THEN Resync(added) ELSE Drain(added)
    BY DEF Offered, ResumedFrom
  <1>2. x.synced = r.synced
    <2>1. r \in AssemblerRecords
      BY ResumedSound DEF Sound, AssemblerSound
    <2> HIDE DEF r
    <2> QED BY <2>1 DEF Numbered, AssemblerRecords
  <1>3. CASE ~r.synced
    <2>1. a = Learn(Queued(r, t, b))
      BY <1>1, <1>2, <1>3 DEF Queued
    <2>2. /\ LearnsWhole(Learn(Queued(r, t, b)), m, droppedFrames)
          /\ synced => ~Learn(Queued(r, t, b)).synced
      BY <1>3, LearnedWhole
    <2> HIDE DEF a, r, m
    <2>3. LearnsWhole(a, m, droppedFrames) /\ (synced => ~a.synced)
      BY <2>1, <2>2
    <2> QED BY <2>3 DEF LearnsWhole, a, m
  <1>4. CASE r.synced
    <2> DEFINE k == Kept(Current, t, b, lo, hi)
               d == Added(Current, t, b, lo, hi)
               g == FrameOf(Numbered(Current, t, b), <<t, b>>)
    <2>1. /\ Sound(k, m, newest) /\ k.synced
          /\ Sound(d, m, newest) /\ d.synced
          /\ g \in k.dead => FramesWhole(k, c)
          /\ g \notin k.dead => FramesWhole(d, c)
          /\ last[t] > 0 /\ r = Current /\ synced
      BY <1>4, KeptWhole
    <2>2. kept = k /\ added = d /\ f = g
      BY <2>1 DEF Kept, Added
    <2>3. c \in Int
      BY DEF AssemblerWhole
    <2> HIDE DEF k, d, g, r, x, kept, added, f, a, c, m
    <2>4. a = IF g \in k.dead THEN Drain(k) ELSE IF Overfull(d) THEN Resync(d) ELSE Drain(d)
      BY <1>1, <1>2, <1>4, <2>2
    <2>5. /\ \A topic \in Topic : a.pending[topic] = <<>>
          /\ a.synced => FramesWhole(a, c)
      <3>1. ASSUME NEW e, Sound(e, m, newest), e.synced, FramesWhole(e, c)
            PROVE  /\ \A topic \in Topic : Drain(e).pending[topic] = <<>>
                   /\ Drain(e).synced => FramesWhole(Drain(e), c)
        <4>1. /\ Sound(Drain(e), m, newest)
              /\ ~Drain(e).synced => \A topic \in Topic : Drain(e).pending[topic] = <<>>
          BY <3>1, DrainSound
        <4>2. Drain(e).synced => \A topic \in Topic : Drain(e).pending[topic] = <<>>
          BY <4>1 DEF Sound, PhaseSound
        <4>3. Drain(e).synced => FramesWhole(Drain(e), c)
          BY <2>3, <3>1, DrainWhole
        <4> QED BY <4>1, <4>2, <4>3
      <3>2. ~Resync(d).synced /\ \A topic \in Topic : Resync(d).pending[topic] = <<>>
        <4>1. ~Resync(d).synced /\ Resync(d).pending = [topic \in Topic |-> <<>>]
          BY <2>1, ResyncSound
        <4> QED BY <4>1
      <3>3. CASE g \in k.dead
        BY <2>1, <2>4, <3>1, <3>3
      <3>4. CASE g \notin k.dead /\ Overfull(d)
        BY <2>4, <3>2, <3>4
      <3>5. CASE g \notin k.dead /\ ~Overfull(d)
        BY <2>1, <2>4, <3>1, <3>5
      <3> QED BY <3>3, <3>4, <3>5
    <2>6. QueuesWhole(a, m)
      BY <2>5, EmptyWhole
    <2> QED BY <2>1, <2>5, <2>6 DEF a, c, m
  <1> QED BY <1>3, <1>4

\* What is whole stays so once its frames are given.
LEMMA WholeThen ==
    ASSUME NEW a, NEW n, NEW low, Sound(a, n, low), QueuesWhole(a, n),
           Current' = [a EXCEPT !.out = <<>>], next' = n, restart' = restart
    PROVE  /\ QueuesWhole(Current, next)'
           /\ synced' = a.synced
           /\ \A c \in Int :
                 a.synced /\ FramesWhole(a, c) /\ (emitted - atSync)' = c + Len(a.out)
                     => FramesWhole(Current, emitted - atSync)'
  <1>1. a \in AssemblerRecords
    BY DEF Sound
  <1>2. /\ Current'.synced = a.synced /\ Current'.offsets = a.offsets /\ Current'.pending = a.pending
        /\ Current'.frames = a.frames /\ Current'.dead = a.dead /\ Current'.last = a.last
        /\ Current'.dropped = a.dropped /\ Current'.base = a.base /\ Current'.out = <<>>
    BY <1>1 DEF AssemblerRecords
  <1>3. synced' = a.synced
    BY <1>2 DEF Current
  <1>4. \A topic, burst : Sequence(topic, burst)' = Sequence(topic, burst)
    BY DEF Sequence
  <1>5. QueuesWhole(Current, next)'
    BY <1>2, <1>4 DEF QueuesWhole
  <1>6. \A topic : Level(Current, topic)' = Level(a, topic)
    BY <1>2 DEF Level
  <1>7. Top(Current)' = Top(a)
    BY <1>6 DEF Top
  <1>8. \A message : FrameOf(Current, message)' = FrameOf(a, message)
    BY <1>2, <1>4 DEF FrameOf
  <1>9. Waiting(Current)' = Waiting(a)
    BY <1>2, <1>8 DEF Waiting
  <1>10. Settled(Current)' = Settled(a)
    BY <1>2, <1>7, <1>9 DEF Settled
  <1>11. ASSUME NEW c \in Int, a.synced, FramesWhole(a, c), (emitted - atSync)' = c + Len(a.out)
         PROVE  (Cardinality(Settled(Current))
                    = Len(Current.out) + Current.dropped + (emitted - atSync))'
    <2>1. Cardinality(Settled(a)) = Len(a.out) + a.dropped + c /\ a.dropped \in Nat
          /\ Len(a.out) \in Nat
      BY <1>11, LevelFacts DEF FramesWhole
    <2>2. (Len(Current.out) + Current.dropped)' = a.dropped
      BY <1>2, <2>1
    <2> DEFINE u == Cardinality(Settled(a)) v == Len(a.out) w == a.dropped d == (emitted - atSync)'
    <2>3. u = v + w + c /\ v \in Int /\ w \in Int /\ d = c + v
      BY <1>11, <2>1
    <2> HIDE DEF u, v, w, d
    <2>4. u = w + d
      BY <2>3
    <2> QED BY <1>10, <2>2, <2>4 DEF u, w, d
  <1>12. ASSUME NEW c \in Int, FramesWhole(a, c)
         PROVE  /\ (\A topic \in Topic : Current.base <= Level(Current, topic))'
                /\ (\A message \in Current.frames :
                       /\ Current.base < FrameOf(Current, message)
                       /\ FrameOf(Current, message) <= Level(Current, message[1]))'
                /\ (\A d \in Current.dead : d <= Top(Current) /\ d \notin Waiting(Current))'
                /\ (\A f \in Current.base .. Top(Current) :
                       (\E topic \in Topic : Level(Current, topic) < f)
                          => f \in Current.dead \/ f \in Waiting(Current))'
    BY <1>2, <1>6, <1>7, <1>8, <1>9, <1>12 DEF FramesWhole
  <1>13. ASSUME NEW c \in Int, a.synced, FramesWhole(a, c), (emitted - atSync)' = c + Len(a.out)
         PROVE  FramesWhole(Current, emitted - atSync)'
    BY <1>11, <1>12, <1>13 DEF FramesWhole
  <1> QED BY <1>3, <1>5, <1>13

----------------------------------------------------------------------------
(* The theorem *)

\* No message is lost while its topic has others queued, nor the first by which it
\* would tell of a devkit that started again.
LosesUnqueued ==
    \A topic \in Topic :
        Lose(topic) => /\ next[topic] = restart => last[topic] = 0
                       /\ pending[topic] = <<>>

LEMMA InitWhole ==
    ASSUME AssemblerInit
    PROVE  AssemblerWhole
  <1>1. \A topic \in Topic : Current.pending[topic] = <<>>
    BY CurrentIs DEF AssemblerInit
  <1>2. QueuesWhole(Current, next)
    BY <1>1, EmptyWhole
  <1> QED BY <1>2 DEF AssemblerInit, AssemblerWhole

LEMMA OfferWhole ==
    ASSUME AssemblerSound, AssemblerWhole, NEW topic \in Topic, Offer(topic)
    PROVE  AssemblerWhole'
  <1> DEFINE a == Offered(topic, next[topic])
             n == Further(next, topic)
             joined == a.synced /\ ~synced
             l == Len(a.out)
  <1>1. /\ next[topic] <= Bursts /\ next' = n /\ restart' = restart
        /\ atSync' = (IF joined THEN droppedFrames ELSE atSync)
        /\ emitted' = (IF joined THEN 0 ELSE emitted) + Len(given')
    BY DEF Offer, Arrives, Further, devkit
  <1>2. Current' = [a EXCEPT !.out = <<>>] /\ Len(given') = l
    BY OfferSound
  <1>3. Sound(a, n, newest)
    BY <1>1, OfferedSound DEF AssemblerSound
  <1>4. /\ QueuesWhole(a, n)
        /\ a.synced /\ synced => FramesWhole(a, emitted - atSync)
        /\ a.synced /\ ~synced => FramesWhole(a, -droppedFrames)
    BY <1>1, OfferedWhole
  <1>5. droppedFrames \in Nat /\ emitted \in Nat /\ atSync \in Nat
    <2>1. Current \in AssemblerRecords
      BY DEF Sound, AssemblerSound
    <2>2. Current.dropped \in Nat
      BY <2>1 DEF AssemblerRecords
    <2> QED BY <2>2, CurrentIs DEF AssemblerWhole
  <1>6. l \in Nat
    <2> HIDE DEF a
    <2>1. a.out \in Seq([Topic -> 1 .. Bursts])
      BY <1>3 DEF Sound, AssemblerRecords
    <2> QED BY <2>1
  <1> HIDE DEF a, n, l
  <1>7. emitted' \in Nat /\ atSync' \in Nat
    BY <1>1, <1>2, <1>5, <1>6
  <1>8. /\ QueuesWhole(Current, next)'
        /\ synced' = a.synced
        /\ \A c \in Int :
              a.synced /\ FramesWhole(a, c) /\ (emitted - atSync)' = c + l
                  => FramesWhole(Current, emitted - atSync)'
    BY <1>1, <1>2, <1>3, <1>4, WholeThen DEF l
  <1>9. ASSUME a.synced PROVE FramesWhole(Current, emitted - atSync)'
    <2>1. CASE synced
      <3>1. (emitted - atSync)' = (emitted - atSync) + l /\ emitted - atSync \in Int
        BY <1>1, <1>2, <1>5, <1>6, <2>1
      <3> QED BY <1>4, <1>8, <1>9, <2>1, <3>1
    <2>2. CASE ~synced
      <3>1. (emitted - atSync)' = (-droppedFrames) + l /\ -droppedFrames \in Int
        BY <1>1, <1>2, <1>5, <1>6, <1>9, <2>2
      <3> QED BY <1>4, <1>8, <1>9, <2>2, <3>1
    <2> QED BY <2>1, <2>2
  <1> QED BY <1>7, <1>8, <1>9 DEF AssemblerWhole

LEMMA LoseWhole ==
    ASSUME AssemblerSound, AssemblerWhole, NEW topic \in Topic, Lose(topic), LosesUnqueued
    PROVE  AssemblerWhole'
  <1>1. /\ next' = Further(next, topic) /\ UNCHANGED <<devkit, assembler, atSync, emitted>>
        /\ pending[topic] = <<>>
    BY DEF Lose, Arrives, Further, LosesUnqueued
  <1>2. /\ Current' = Current /\ restart' = restart /\ synced' = synced
        /\ emitted' = emitted /\ atSync' = atSync
    BY <1>1 DEF Current, assembler, devkit
  <1>3. Sound(Current, next, newest) /\ Current.out = <<>> /\ Current.pending = pending
        /\ Current \in AssemblerRecords /\ next \in [Topic -> 1 .. Bursts + 1]
    BY CurrentIs DEF AssemblerSound, Sound, Devkit
  <1>4. QueuesWhole(Current, Further(next, topic))
    <2>1. \A other \in Topic : other # topic => Further(next, topic)[other] = next[other]
      BY <1>3 DEF Further
    <2>2. \A i \in 1 .. Len(pending[topic]) : FALSE
      BY <1>1
    <2>3. QueuesWhole(Current, next)
      BY DEF AssemblerWhole
    <2> QED BY <1>1, <1>3, <2>1, <2>2, <2>3 DEF QueuesWhole
  <1>5. \A t, burst : Sequence(t, burst)' = Sequence(t, burst)
    BY <1>2 DEF Sequence
  <1>6. QueuesWhole(Current, next)'
    BY <1>1, <1>2, <1>4, <1>5 DEF QueuesWhole
  <1>7. FramesWhole(Current, emitted - atSync) => FramesWhole(Current, emitted - atSync)'
    <2>1. \A t : Level(Current, t)' = Level(Current, t)
      BY <1>2 DEF Level
    <2>2. Top(Current)' = Top(Current)
      BY <2>1 DEF Top
    <2>3. \A message : FrameOf(Current, message)' = FrameOf(Current, message)
      BY <1>2, <1>5 DEF FrameOf
    <2>4. Waiting(Current)' = Waiting(Current)
      BY <1>2, <2>3 DEF Waiting
    <2>5. Settled(Current)' = Settled(Current)
      BY <1>2, <2>2, <2>4 DEF Settled
    <2> QED BY <1>2, <2>1, <2>2, <2>3, <2>4, <2>5 DEF FramesWhole
  <1> QED BY <1>2, <1>6, <1>7 DEF AssemblerWhole

LEMMA WholeAccounts ==
    ASSUME AssemblerSound, AssemblerWhole
    PROVE  FramesAccounted
  <1> SUFFICES ASSUME synced
               PROVE  emitted + (droppedFrames - atSync) + Cardinality(Waiting(Current))
                          = Greatest({last[topic] - offsets[topic] : topic \in Topic}) - syncedAt + 1
    BY DEF FramesAccounted
  <1> DEFINE a == Current S == Settled(a) W == Waiting(a) c == emitted - atSync
  <1>1. Sound(a, next, newest) /\ a.synced /\ FramesWhole(a, c) /\ c \in Int
        /\ emitted \in Int /\ atSync \in Int
    BY CurrentIs DEF AssemblerSound, AssemblerWhole
  <1>2. Top(a) = Greatest({last[topic] - offsets[topic] : topic \in Topic})
    BY CurrentIs DEF Top, Level
  <1>3. a.base = syncedAt /\ a.dropped = droppedFrames /\ a.out = <<>>
    BY CurrentIs
  <1> HIDE DEF a
  <1>4. Top(a) \in Int /\ a.base \in Int /\ a.dropped \in Nat
    BY <1>1, LevelFacts
  <1>5. /\ \A f \in W : f \in Int /\ a.base < f /\ f <= Top(a)
        /\ a.base <= Top(a) /\ Cardinality(S) \in Nat
    BY <1>1, WaitingFacts
  <1>6. Cardinality(S) = a.dropped + c
    <2>1. Cardinality(S) = Len(a.out) + a.dropped + c /\ Len(a.out) = 0
      BY <1>1, <1>3 DEF FramesWhole
    <2> QED BY <1>1, <1>4, <2>1
  <1>7. Cardinality(S) = (Top(a) - a.base + 1) - Cardinality(W) /\ Cardinality(W) \in Nat
    <2> DEFINE T == a.base .. Top(a)
    <2>1. IsFiniteSet(T) /\ Cardinality(T) = Top(a) - a.base + 1
      <3> DEFINE lo == a.base hi == Top(a)
      <3>1. lo \in Int /\ hi \in Int /\ lo <= hi
        BY <1>4, <1>5
      <3> HIDE DEF lo, hi
      <3>2. IsFiniteSet(lo .. hi) /\ Cardinality(lo .. hi) = IF lo > hi THEN 0 ELSE hi - lo + 1
        BY <3>1, FS_Interval
      <3>3. Cardinality(lo .. hi) = hi - lo + 1
        BY <3>1, <3>2
      <3> QED BY <3>2, <3>3 DEF lo, hi
    <2>2. W \subseteq T
      BY <1>4, <1>5
    <2>3. S = T \ W
      BY DEF Settled
    <2> HIDE DEF T, W, S
    <2>4. T \cap W = W /\ IsFiniteSet(W)
      BY <2>1, <2>2, FS_Subset
    <2>5. Cardinality(T \ W) = Cardinality(T) - Cardinality(T \cap W)
      BY <2>1, FS_Difference
    <2>6. Cardinality(W) \in Nat
      BY <2>4, FS_CardinalityType
    <2> QED BY <2>1, <2>3, <2>4, <2>5, <2>6
  <1> DEFINE w == Cardinality(W) s == Cardinality(S) t == Top(a) d == droppedFrames
  <1>8. /\ s = d + (emitted - atSync) /\ s = (t - syncedAt + 1) - w
        /\ w \in Int /\ t \in Int /\ syncedAt \in Int /\ d \in Int /\ s \in Int
    BY <1>3, <1>4, <1>5, <1>6, <1>7
  <1> HIDE DEF w, s, t, d
  <1>9. emitted + (d - atSync) + w = t - syncedAt + 1
    BY <1>1, <1>8
  <1> QED BY <1>2, <1>9 DEF w, t, d, a

\* Every frame from the sync on is given, dropped and counted once, or still waits:
\* _learn, _sorted and _drain leave none of them out of the count and put none in twice.
THEOREM FramesAreAccounted ==
    AssemblerSpec /\ [][LosesUnqueued]_assemblerVars => []FramesAccounted
  <1>1. AssemblerInit => AssemblerSound /\ AssemblerWhole
    BY InitSound, InitWhole
  <1>2. AssemblerSound /\ AssemblerWhole /\ [AssemblerNext]_assemblerVars
            /\ [LosesUnqueued]_assemblerVars => AssemblerSound' /\ AssemblerWhole'
    <2> SUFFICES ASSUME AssemblerSound, AssemblerWhole, [AssemblerNext]_assemblerVars,
                        [LosesUnqueued]_assemblerVars
                 PROVE  AssemblerSound' /\ AssemblerWhole'
      OBVIOUS
    <2>1. CASE UNCHANGED assemblerVars
      <3>1. /\ Current' = Current /\ next' = next /\ newest' = newest /\ restart' = restart
            /\ stalled' = stalled /\ synced' = synced /\ emitted' = emitted /\ atSync' = atSync
        BY <2>1 DEF assemblerVars, assembler, devkit, history, Current
      <3>2. AssemblerSound'
        BY <3>1, SoundThen DEF AssemblerSound
      <3>3. AssemblerWhole'
        <4>1. \A t, burst : Sequence(t, burst)' = Sequence(t, burst)
          BY <3>1 DEF Sequence
        <4>2. \A t : Level(Current, t)' = Level(Current, t)
          BY <3>1 DEF Level
        <4>3. Top(Current)' = Top(Current)
          BY <4>2 DEF Top
        <4>4. \A message : FrameOf(Current, message)' = FrameOf(Current, message)
          BY <3>1, <4>1 DEF FrameOf
        <4>5. Waiting(Current)' = Waiting(Current)
          BY <3>1, <4>4 DEF Waiting
        <4>6. Settled(Current)' = Settled(Current)
          BY <3>1, <4>3, <4>5 DEF Settled
        <4>7. FramesWhole(Current, emitted - atSync) => FramesWhole(Current, emitted - atSync)'
          BY <3>1, <4>2, <4>3, <4>4, <4>5, <4>6 DEF FramesWhole
        <4>8. QueuesWhole(Current, next)'
          BY <3>1, <4>1 DEF AssemblerWhole, QueuesWhole
        <4> QED BY <3>1, <4>7, <4>8 DEF AssemblerWhole
      <3> QED BY <3>2, <3>3
    <2>2. CASE AssemblerNext /\ LosesUnqueued
      <3>1. ASSUME NEW topic \in Topic, Offer(topic)
            PROVE  AssemblerSound' /\ AssemblerWhole'
        BY <3>1, OfferSound, OfferWhole
      <3>2. ASSUME NEW topic \in Topic, Lose(topic)
            PROVE  AssemblerSound' /\ AssemblerWhole'
        <4>1. LosesWell
          BY <2>2 DEF LosesUnqueued, LosesWell
        <4> QED BY <2>2, <3>2, <4>1, LoseSound, LoseWhole
      <3> QED BY <2>2, <3>1, <3>2 DEF AssemblerNext
    <2> QED BY <2>1, <2>2
  <1>3. AssemblerSound /\ AssemblerWhole => FramesAccounted
    BY WholeAccounts
  <1> QED BY <1>1, <1>2, <1>3, PTL DEF AssemblerSpec

=============================================================================
