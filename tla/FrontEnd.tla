------------------------------ MODULE FrontEnd ------------------------------
(***************************************************************************)
(* racing_sim_autodrive: the processes of the two front ends, from start to *)
(* exit, and the peer each has in the tests.                                *)
(*                                                                          *)
(* A (server_node.py) answers the sim, played by replay.py, from a gevent   *)
(* hub on the main thread; the hub also runs the stall watch and stops the  *)
(* server.  B (devkit_node.py) hears the devkit, played by                  *)
(* devkit_standin.py, on a thread of its own and tells it commands over a   *)
(* topic; its main thread runs the watch, and on a signal lets the devkit's *)
(* thread end, tells the devkit zeros, and exits.                           *)
(*                                                                          *)
(* Time passes in ticks of the watch's period.  Abstractions: a frame is    *)
(* how its decoding ends; a command is whether it moves the car; the        *)
(* session's own state is module BridgeSession, B's assembler is module     *)
(* DevkitAssembler.                                                         *)
(***************************************************************************)
EXTENDS Integers, Sequences

CONSTANTS
    FrontEnds,    \* the front ends a run may have: is it the official one, B?
    Kinds,        \* the kinds of frames the peer may send
    Count,        \* replay.py --count: frames the peer sends
    Gaps,         \* the delays before them, 0 is lockstep
    ReplyWait,    \* REPLY_WAIT_S
    StallTimeout, \* STALL_TIMEOUT_S
    JoinTimeout,  \* how long a front end waits for its thread to end
    MaxHandling   \* bound: how long one frame may take to handle

ASSUME FrontEndAssumption ==
    /\ FrontEnds \subseteq BOOLEAN
    /\ Kinds \subseteq {"whole", "bare", "malformed", "garbled", "beam"}
    /\ Count \in Nat \ {0}
    /\ Gaps \subseteq Nat
    /\ ReplyWait \in Nat \ {0}
    /\ StallTimeout \in Nat \ {0}
    /\ JoinTimeout \in Nat \ {0}
    /\ MaxHandling \in Nat

VARIABLES
    official,   \* front end B
    gap,        \* replay.py --pace: 0 is lockstep
    refused,    \* the node's constructor raises: a parameter, the track, B's domain
    \* the process
    phase,      \* of the main thread
    contextUp,  \* rclpy.ok()
    asked,      \* A: server.stop was called; B: the stop event is set
    signalled,  \* a signal has come
    drive,      \* does the latest /drive move the car?
    joinLeft,   \* the wait for the thread
    \* the thread that handles frames
    handling,   \* the frame in hand: its kind, or "none"
    taken,      \* the drive it has read
    busy,       \* how long it will still take
    ended,       \* B: the devkit's thread has ended
    \* StallWatch
    connected, silence, reported,
    checked,    \* the watch has run in this tick
    anySeen,    \* B: DevkitLink.any_seen
    \* the peer
    peer,       \* what it does
    wait,       \* until its next frame, or until it gives up
    sent, replies,
    status,     \* replay.py's exit status
    up, down,   \* frames and replies (A), or commands (B), in flight
    latch,      \* B: the command the devkit holds
    \* history
    handledFor  \* how long the frame in hand has been so

config == <<official, gap, refused>>
process == <<phase, contextUp, asked, signalled, drive, joinLeft>>
handler == <<handling, taken, busy, ended, handledFor>>
stall == <<connected, silence, reported, checked, anySeen>>
peerVars == <<peer, wait, sent, replies, status>>
wires == <<up, down, latch>>
vars == <<config, process, handler, stall, peerVars, wires>>

Capped(n) == IF n > StallTimeout + 3 THEN StallTimeout + 3 ELSE n
Less(n) == IF n = 0 THEN 0 ELSE n - 1

Init ==
    /\ official \in FrontEnds
    /\ gap \in Gaps
    /\ refused \in BOOLEAN
    /\ phase = "init" /\ contextUp = TRUE /\ asked = FALSE /\ signalled = FALSE
    /\ drive = FALSE /\ joinLeft = 0
    /\ handling = "none" /\ taken = FALSE /\ busy = 0 /\ ended = FALSE
    /\ connected = FALSE /\ silence = 0 /\ reported = FALSE
    /\ checked = FALSE /\ anySeen = FALSE
    /\ peer = "off" /\ wait = 0 /\ sent = 0 /\ replies = 0 /\ status = 0
    /\ up = <<>> /\ down = <<>> /\ latch = FALSE
    /\ handledFor = 0

Over == phase \in {"exited", "failed", "killed"}

----------------------------------------------------------------------------
(* StallWatch *)

\* connected
Joined == connected' = TRUE /\ silence' = 0 /\ reported' = FALSE

\* exited: the next frame re-arms it.
Rearmed == silence' = 0 /\ reported' = FALSE /\ UNCHANGED connected

\* Mutant of Stalled: noticed two periods late, and told again at every look.
MutantStalled == connected /\ silence > StallTimeout + 2

\* check
Stalled == connected /\ ~reported /\ silence > StallTimeout

\* A's hub watches when no frame is in hand; B's main thread as long as it spins.
MayWatch == phase = "serving" /\ ~checked /\ (~official => handling = "none")

Watch ==
    /\ MayWatch
    /\ checked' = TRUE
    /\ IF official /\ anySeen /\ ~connected
       THEN Joined
       ELSE reported' = (reported \/ Stalled) /\ UNCHANGED <<connected, silence>>
    /\ UNCHANGED <<config, process, handler, anySeen, peerVars, wires>>

----------------------------------------------------------------------------
(* The process: main *)

\* Mutant of Serve: the early signal is not looked for.
MutantServe == "serving"

\* A signal that came before A's own handlers has no one else to stop the server.
Serve == IF contextUp THEN "serving" ELSE "stopping"

\* ContractNode's constructor and the front end's own: what is missing fails here,
\* as does a context that a signal has shut down. B's main has a finally for it.
Built ==
    IF refused \/ ~contextUp
    THEN IF official THEN "ending" ELSE "failed"
    ELSE IF official THEN "serving" ELSE "bound"

\* The node, then (A) the server and the signal handlers, in this order. B has its
\* handlers first.
Start ==
    /\ \/ /\ phase = "init"
          /\ phase' = Built
       \/ /\ phase = "bound"
          /\ phase' = "listening"
       \/ /\ phase = "listening"
          /\ phase' = Serve
    /\ joinLeft' = IF phase' = "stopping" THEN JoinTimeout ELSE joinLeft
    /\ UNCHANGED <<config, contextUp, asked, signalled, drive, handler, stall, peerVars, wires>>

\* SIGINT or SIGTERM, once or again: rclpy's handlers of A's start shut the context
\* down, the front end's own ask for the stop, and while it stops it ignores them.
\* rclpy.shutdown gives A the default ones back for a moment.
Signal ==
    /\ ~Over
    /\ signalled' = TRUE
    /\ contextUp' = (contextUp /\ (official \/ phase \notin {"init", "bound"}))
    /\ asked' = (asked \/ (official /\ phase \in {"init", "serving"})
                       \/ (~official /\ phase \in {"listening", "serving"}))
    /\ phase' = IF phase = "restored" THEN "killed" ELSE phase
    /\ UNCHANGED <<config, drive, joinLeft, handler, stall, peerVars, wires>>

\* A's hub stops the server when it is free, B's main thread leaves its loop.
Stop ==
    /\ phase = "serving" /\ asked
    /\ ~official => handling = "none"
    /\ phase' = "stopping"
    /\ joinLeft' = JoinTimeout
    /\ UNCHANGED <<config, contextUp, asked, signalled, drive, handler, stall, peerVars, wires>>

\* Command: what is in flight on a topic of depth 1 is replaced.
Tell(moving) == down' = <<moving>>

\* Mutant of HandlerEnded: the thread is not waited for.
MutantHandlerEnded == TRUE

\* B's thread looks for the stop between two messages; A's only spins the executor.
HandlerEnded == official => ended

ThreadEnds ==
    /\ official /\ asked /\ ~ended /\ handling = "none" /\ phase # "init"
    /\ ended' = TRUE
    /\ UNCHANGED <<config, process, handling, taken, busy, handledFor>>
    /\ UNCHANGED <<stall, peerVars, wires>>

\* thread.join(timeout), after which B tells the devkit zeros.
Join ==
    /\ phase = "stopping"
    /\ HandlerEnded \/ joinLeft = 0
    /\ phase' = "ending"
    /\ IF official THEN Tell(FALSE) ELSE UNCHANGED down
    /\ joinLeft' = 1
    /\ UNCHANGED <<config, contextUp, asked, signalled, drive, up, latch>>
    /\ UNCHANGED <<handler, stall, peerVars>>

\* B waits for its zeros to be acknowledged, not for ever.
Shutdown ==
    /\ \/ /\ phase = "ending"
          /\ official => down = <<>> \/ joinLeft = 0
          /\ contextUp' = FALSE
          /\ phase' = IF ~official /\ contextUp THEN "restored" ELSE "exited"
       \/ /\ phase = "restored"
          /\ phase' = "exited"
          /\ UNCHANGED contextUp
    /\ UNCHANGED <<config, asked, signalled, drive, joinLeft, handler, stall, peerVars, wires>>

\* ContractNode._on_drive, on the stack's executor.
OnDrive ==
    /\ phase = "serving"
    /\ drive' \in BOOLEAN
    /\ UNCHANGED <<config, phase, contextUp, asked, signalled, joinLeft>>
    /\ UNCHANGED <<handler, stall, peerVars, wires>>

----------------------------------------------------------------------------
(* One frame *)

\* _on_bridge and _on_assembled read the drive as they begin. The devkit's thread
\* runs on while main waits for it, and after that too.
Enter ==
    /\ handling = "none" /\ up # <<>>
    /\ IF official THEN ~ended /\ ~Over /\ phase # "init" ELSE phase = "serving"
    /\ up' = Tail(up)
    /\ handling' = Head(up)
    /\ taken' = drive
    /\ busy' \in 0 .. MaxHandling
    /\ handledFor' = 0
    /\ anySeen' = TRUE
    /\ UNCHANGED <<config, process, ended, connected, silence, reported>>
    /\ UNCHANGED <<checked, peerVars, down, latch>>

\* A: a missing, short or not numeric value, and a scan that does not unpack, are a
\* FrameError; a stream zlib refuses and a count that is not finite are raised as
\* they come.
Decoded(kind) ==
    CASE kind = "malformed" -> "FrameError"
      [] kind = "garbled" -> "raised"
      [] OTHER -> "frame"

\* B: a range that is negative or not a number, a scan time that is not positive.
FrameFromDevkit(kind) == IF kind = "malformed" THEN "FrameError" ELSE "frame"

\* A scan of one beam has no geometry to publish.
Published(kind) == IF kind = "beam" THEN "raised" ELSE "frame"

Handled(kind) ==
    LET frame == IF official THEN FrameFromDevkit(kind) ELSE Decoded(kind)
    IN  IF frame = "frame" THEN Published(kind) ELSE frame

\* The fallback commands nothing.
Reply(kind) == taken /\ Handled(kind) = "frame"

\* A: the reply, or the fallback for a FrameError. What else is raised leaves the
\* handler without a reply.
Answer ==
    /\ down' = IF Handled(handling) = "raised" THEN down ELSE Append(down, Reply(handling))
    /\ UNCHANGED <<asked, ended>>

\* B: the commands, none for a FrameError; what else is raised ends the devkit's
\* thread and asks for the stop.
Command ==
    /\ IF Handled(handling) = "frame" THEN Tell(taken) ELSE UNCHANGED down
    /\ ended' = (asked \/ Handled(handling) = "raised")
    /\ asked' = (asked \/ Handled(handling) = "raised")

Exit ==
    /\ handling # "none" /\ busy = 0
    /\ ~Over
    /\ IF official THEN Command ELSE Answer
    /\ Rearmed
    /\ handling' = "none"
    /\ UNCHANGED <<config, phase, contextUp, signalled, drive, joinLeft, taken, busy>>
    /\ UNCHANGED <<handledFor, checked, anySeen, peerVars, up, latch>>

----------------------------------------------------------------------------
(* The peers *)

\* A: the sim connects, once. B: the devkit starts.
Connect ==
    /\ peer = "off"
    /\ phase = "serving"
    /\ peer' = "sending"
    /\ IF official THEN UNCHANGED <<connected, silence, reported>> ELSE Joined
    /\ UNCHANGED <<config, process, handler, checked, anySeen, wait, sent, replies, status, wires>>

\* The delay before frame n: the recorded gap, none in lockstep nor before the first.
Delay(n) == IF n = 0 THEN 0 ELSE gap

\* What the devkit publishes for a frame: nothing for one without lidar, as its
\* KeyError has it. One that it cannot unpack ends it.
DevkitValues(kind) == IF kind \in {"bare", "garbled"} THEN <<>> ELSE <<kind>>

DevkitSend(kind) ==
    /\ up' = up \o DevkitValues(kind)
    /\ peer' = IF kind = "garbled" \/ sent' = Count THEN "gone" ELSE peer
    /\ wait' = Delay(sent')

\* In lockstep, and after the last frame, replay.py waits for the reply.
ReplaySend(kind) ==
    /\ up' = Append(up, kind)
    /\ IF gap = 0 \/ sent' = Count
       THEN wait' = ReplyWait /\ peer' = "waiting"
       ELSE wait' = Delay(sent') /\ UNCHANGED peer

Send ==
    /\ peer = "sending" /\ wait = 0 /\ sent < Count
    /\ sent' = sent + 1
    /\ \E kind \in Kinds : IF official THEN DevkitSend(kind) ELSE ReplaySend(kind)
    /\ UNCHANGED <<config, process, handler, stall, replies, status, down, latch>>

\* on_reply, of replay.py; the devkit's command callbacks.
Hear ==
    /\ down # <<>>
    /\ peer # "off"
    /\ latch' = Head(down)
    /\ down' = Tail(down)
    /\ replies' = IF official THEN replies ELSE replies + 1
    /\ IF peer = "waiting" /\ replies' >= sent
       THEN peer' = (IF sent = Count THEN "gone" ELSE "sending") /\ wait' = 0
       ELSE UNCHANGED <<peer, wait>>
    /\ UNCHANGED <<config, process, handler, stall, sent, status, up>>

\* Mutant of Late: the exit status does not tell of the late reply.
MutantLate == status

Late == 2

\* replay.py: a reply later than REPLY_WAIT_S is a stall, never a hang.
GiveUp ==
    /\ peer = "waiting" /\ wait = 0
    /\ peer' = "gone"
    /\ status' = Late
    /\ UNCHANGED <<config, process, handler, stall, wait, sent, replies, wires>>

\* The socket of a peer that is gone, or of a server that has ended, closes.
Disconnect ==
    /\ ~official /\ connected /\ peer = "gone"
    /\ phase = "serving" /\ handling = "none"
    /\ connected' = FALSE
    /\ UNCHANGED <<config, process, handler, silence, reported, checked, anySeen, peerVars, wires>>

----------------------------------------------------------------------------

\* What is due in this tick is done in it.
Due ==
    \/ MayWatch
    \/ handling # "none" /\ busy = 0
    \/ down # <<>> /\ peer # "off"
    \/ official /\ asked /\ ~ended /\ handling = "none" /\ phase # "init"
    \/ phase = "stopping" /\ (HandlerEnded \/ joinLeft = 0)
    \/ phase = "ending" /\ joinLeft = 0
    \/ peer = "waiting" /\ wait = 0
    \/ phase = "serving" /\ asked /\ (official \/ handling = "none")

Tick ==
    /\ ~Over /\ ~Due
    /\ silence' = Capped(silence + 1)
    /\ checked' = FALSE
    /\ busy' = Less(busy)
    /\ wait' = Less(wait)
    /\ joinLeft' = IF phase \in {"stopping", "ending"} THEN Less(joinLeft) ELSE joinLeft
    /\ handledFor' = IF handling = "none" THEN handledFor ELSE Capped(handledFor + 1)
    /\ UNCHANGED <<config, phase, contextUp, asked, signalled, drive, handling, taken, ended>>
    /\ UNCHANGED <<connected, reported, anySeen, peer, sent, replies, status, wires>>

Main == Start \/ Stop \/ Join \/ Shutdown

Next ==
    \/ Main \/ Signal \/ OnDrive
    \/ Watch
    \/ Enter \/ Exit \/ ThreadEnds
    \/ Connect \/ Send \/ Hear \/ GiveUp \/ Disconnect
    \/ Tick

Spec == Init /\ [][Next]_vars

\* The threads run, and so does time; no signal and no frame has to come.
Fairness ==
    /\ WF_vars(Main) /\ WF_vars(Exit) /\ WF_vars(ThreadEnds) /\ WF_vars(Watch)
    /\ WF_vars(Hear) /\ WF_vars(GiveUp) /\ WF_vars(Tick)

FairSpec == Spec /\ Fairness

----------------------------------------------------------------------------
(* Properties *)

Phases == {"init", "bound", "listening", "serving", "stopping", "ending",
           "restored", "exited", "failed", "killed"}

ProcessTypes ==
    /\ official \in FrontEnds /\ gap \in Gaps /\ refused \in BOOLEAN
    /\ phase \in Phases
    /\ contextUp \in BOOLEAN /\ asked \in BOOLEAN /\ signalled \in BOOLEAN
    /\ drive \in BOOLEAN
    /\ joinLeft \in 0 .. JoinTimeout

HandlerTypes ==
    /\ handling \in Kinds \cup {"none"}
    /\ taken \in BOOLEAN /\ ended \in BOOLEAN
    /\ busy \in 0 .. MaxHandling
    /\ handledFor \in 0 .. StallTimeout + 3

StallTypes ==
    /\ connected \in BOOLEAN /\ reported \in BOOLEAN
    /\ checked \in BOOLEAN /\ anySeen \in BOOLEAN
    /\ silence \in 0 .. StallTimeout + 3

PeerTypes ==
    /\ peer \in {"off", "sending", "waiting", "gone"}
    /\ wait \in Nat /\ sent \in 0 .. Count /\ replies \in 0 .. Count
    /\ status \in {0, 2}
    /\ up \in Seq(Kinds) /\ down \in Seq(BOOLEAN) /\ latch \in BOOLEAN

TypeOK == ProcessTypes /\ HandlerTypes /\ StallTypes /\ PeerTypes

\* The devkit latches the command it was last told. Whatever frame was in hand when
\* B was told to stop, and whatever ended it, B leaves the car standing.
DevkitLeftAtRest ==
    official /\ phase = "exited" => ~latch /\ down \in {<<>>, <<FALSE>>}

\* bridge.py: "a server that stops answering must say so". A front end whose frame
\* has been in hand for longer than the timeout has reported it: B does.
StuckIsReported ==
    official /\ phase = "serving" /\ connected /\ handledFor > StallTimeout + 2
        /\ handling # "none"
    => reported

\* A signal, at any time, ends the process.
SignalStops == signalled ~> Over

\* replay.py passes only a server that has answered every frame it was sent.
ReplayVerdict ==
    ~official /\ peer = "gone" /\ status = 0 => replies = Count
=============================================================================
