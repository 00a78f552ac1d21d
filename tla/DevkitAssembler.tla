--------------------------- MODULE DevkitAssembler ---------------------------
(***************************************************************************)
(* racing_sim_autodrive, front end B: how the messages of the official     *)
(* devkit become frames (devkit.py, DevkitAssembler).                      *)
(*                                                                         *)
(* The devkit publishes a burst of one message to each topic, in the order *)
(* of REQUIRED.  A topic keeps the order of its messages and may lose any; *)
(* two topics are not ordered with each other.  The assembler pairs by the *)
(* topics' sequence numbers, whose offsets it learns from the source stamps *)
(* of whole bursts, and drops a frame one of whose messages was lost.       *)
(*                                                                         *)
(* Abstractions: a message is the number of its burst, from which follow   *)
(* its sequence number and its stamp; the values of a message are that      *)
(* number, so that two positions agree when they are of one burst; source   *)
(* and header stamps are one, since the devkit takes both as it publishes.  *)
(***************************************************************************)
EXTENDS Integers, Sequences, FiniteSets

CONSTANTS
    Topics,     \* REQUIRED: the topics in the order the devkit publishes them
    Lidar,      \* _LIDAR: sequences are relative to this topic's
    Located,    \* ips and odom: the topics whose positions must agree
    Shift,      \* how far a topic's sequence is ahead of the burst's number
    MaxFrames,  \* _MAX_FRAMES
    Ahead,      \* messages a topic may be delivered ahead of another
    Restarts,   \* the burst at which a new devkit starts counting, or 0
    Bursts,     \* bound: bursts published
    Stalls,     \* the sets of bursts in which the publisher may be preempted
    MaxLosses   \* bound: messages lost

Topic == {Topics[i] : i \in DOMAIN Topics}

ASSUME AssemblerAssumption ==
    /\ Topics \in Seq(Topic) /\ Topics # <<>>
    /\ \A i, j \in DOMAIN Topics : Topics[i] = Topics[j] => i = j
    /\ Lidar \in Topic
    /\ Located \subseteq Topic
    /\ Shift \in [Topic -> Nat]
    /\ MaxFrames \in Nat \ {0}
    /\ Ahead \in Nat \ {0}
    /\ Bursts \in Nat
    /\ Restarts \subseteq 0 .. Bursts
    /\ Stalls \subseteq SUBSET (1 .. Bursts)
    /\ MaxLosses \in Nat

VARIABLES
    \* the devkit and the transport
    restart,       \* the burst from which sequences count anew, 0 for none
    stalled,       \* the bursts whose stamps are too far apart
    next,          \* topic -> the burst of its next message
    losses,
    \* the assembler, as in _reset_state
    synced,
    offsets,       \* topic -> its sequence less the lidar's
    candidate,     \* the offsets of the last burst learned
    pending,       \* learning: topic -> the bursts queued
    frames,        \* synced: the messages waiting, as <<topic, burst>>
    dead,          \* synced: the frames given up
    last,          \* topic -> its last sequence, 0 for none
    \* its counters
    droppedFrames,
    syncedAt,      \* the lidar sequence of the last sync
    \* what it gave the session for the last message
    given,         \* frames, each as topic -> burst
    \* history
    newest,        \* the burst of the last frame given
    atSync,        \* droppedFrames at the sync, the burst that synced excepted
    emitted,       \* frames given since the sync
    lastLost       \* the last burst of which a message was lost

devkit == <<restart, stalled>>
assembler ==
    <<synced, offsets, candidate, pending, frames, dead, last, droppedFrames, syncedAt>>
history == <<newest, atSync, emitted, lastLost>>
assemblerVars == <<devkit, next, losses, assembler, given, history>>

First == Topics[1]
Rest == Topic \ {First}
NoOffsets == <<>>

----------------------------------------------------------------------------
(* The devkit *)

Least(s) == CHOOSE x \in s : \A y \in s : x <= y
Greatest(s) == CHOOSE x \in s : \A y \in s : y <= x

Position(topic) == CHOOSE i \in DOMAIN Topics : Topics[i] = topic

(* publication_sequence_number: a devkit that starts again counts from 1.   *)
Sequence(topic, burst) ==
    IF restart > 0 /\ burst >= restart
    THEN burst - restart + 1
    ELSE burst + Shift[topic]

(* Two bursts may be closer than SKEW_S; one that is preempted before its   *)
(* last topic is spread further than that.                                  *)
Period == Len(Topics) + 1
Skew == 2 * Period

At(topic, burst) ==
    LET before == {s \in stalled : s < burst \/ (s = burst /\ topic = Topics[Len(Topics)])}
    IN  burst * Period + Position(topic) + Cardinality(before) * (Skew + 1)

----------------------------------------------------------------------------
(* One frame, or what is taken for one: a function from topics to bursts *)

Whole(burst) == [topic \in Topic |-> burst]

StampsBad(parts) ==
    LET sources == {At(topic, parts[topic]) : topic \in Topic}
    IN  Greatest(sources) - Least(sources) > Skew

DataBad(parts) == Cardinality({parts[topic] : topic \in Located}) > 1

\* What _build returns for a frame.
Verdict(parts) ==
    IF StampsBad(parts) THEN "stamps" ELSE IF DataBad(parts) THEN "data" ELSE "frame"

----------------------------------------------------------------------------
(* The assembler's state, as a record the steps of one offer pass on *)

Current ==
    [synced |-> synced, offsets |-> offsets, candidate |-> candidate,
     pending |-> pending, frames |-> frames, dead |-> dead, last |-> last,
     dropped |-> droppedFrames, base |-> syncedAt, out |-> <<>>]

Resync(a) ==
    [a EXCEPT !.synced = FALSE, !.offsets = NoOffsets, !.candidate = NoOffsets,
              !.pending = [topic \in Topic |-> <<>>],
              !.frames = {}, !.dead = {}, !.last = [topic \in Topic |-> 0]]

\* The frame a message is part of, by the offsets learned.
FrameOf(a, message) == Sequence(message[1], message[2]) - a.offsets[message[1]]

Waiting(a) == {FrameOf(a, message) : message \in a.frames}

Parts(a, frame) ==
    [topic \in Topic |->
        CHOOSE burst \in 1 .. Bursts :
            <<topic, burst>> \in a.frames /\ FrameOf(a, <<topic, burst>>) = frame]

Complete(a, frame) ==
    \A topic \in Topic :
        \E message \in a.frames : message[1] = topic /\ FrameOf(a, message) = frame

InOrder(a, set) ==
    [i \in 1 .. Cardinality(set) |->
        Parts(a, CHOOSE f \in set : Cardinality({g \in set : g <= f}) = i)]

(* Complete frames leave in order, as far as the first that is incomplete.  *)
Drain(a) ==
    LET incomplete == {f \in Waiting(a) : ~Complete(a, f)}
        ready == {f \in Waiting(a) : \A g \in incomplete : f < g}
        broken == {f \in ready : Verdict(Parts(a, f)) = "data"}
        done == {f \in ready : \A g \in broken : f < g}
        bad == {f \in done : Verdict(Parts(a, f)) = "stamps"}
        passed ==
            [a EXCEPT !.frames = {message \in @ : FrameOf(a, message) \notin done},
                      !.dead = {d \in @ : \A f \in done : f < d},
                      !.dropped = @ + Cardinality(bad),
                      !.out = @ \o InOrder(a, done \ bad)]
    IN  IF broken = {} THEN passed
        ELSE Resync([passed EXCEPT !.dropped = @ + 1])

\* Mutant of DropFrames: a frame is counted once for each topic it lost a message of.
MutantDropFrames(a, topic, sequences) ==
    LET lost == {sequence - a.offsets[topic] : sequence \in sequences}
    IN  [a EXCEPT !.dead = @ \cup lost,
                  !.dropped = @ + Cardinality(lost),
                  !.frames = {message \in @ : FrameOf(a, message) \notin lost}]

(* A gap in a topic's sequence: its frames are dropped from every topic, and *)
(* counted once however many topics lost a message of them.                  *)
DropFrames(a, topic, sequences) ==
    LET lost == {sequence - a.offsets[topic] : sequence \in sequences}
    IN  [a EXCEPT !.dead = @ \cup lost,
                  !.dropped = @ + Cardinality(lost \ a.dead),
                  !.frames = {message \in @ : FrameOf(a, message) \notin lost}]

----------------------------------------------------------------------------
(* Learning the offsets *)

Heads(queues) == [topic \in Topic |-> Head(queues[topic])]
PopHeads(queues) == [topic \in Topic |-> Tail(queues[topic])]

(* What was queued before the first topic's head is of an earlier burst.    *)
Trimmed(queues) ==
    LET start == At(First, Head(queues[First]))
        Trim(topic, queue) ==
            LET kept == {i \in DOMAIN queue : At(topic, queue[i]) >= start}
            IN  IF kept = {} THEN <<>> ELSE SubSeq(queue, Least(kept), Len(queue))
    IN  [topic \in Topic |-> Trim(topic, queues[topic])]

(* The next message of the first topic is there, so the burst is over.      *)
Closed(queues) == Len(queues[First]) > 1

\* Mutant of Missed: no sequence is ever missed.
MutantMissed(queues) == FALSE

\* A topic whose head is of the next burst has no message in this one.
Missed(queues) ==
    /\ Closed(queues)
    /\ \E topic \in Rest : At(topic, Head(queues[topic])) >= At(First, queues[First][2])

OffsetsOf(parts) ==
    [topic \in Topic |->
        Sequence(topic, parts[topic]) - Sequence(Lidar, parts[Lidar])]

\* Until it is over, a burst is trusted only as a repetition of the last one.
Trusted(a, queues) == Closed(queues) \/ OffsetsOf(Heads(queues)) = a.candidate

(* A second burst with the same offsets: what has queued behind it is sorted *)
(* into frames.                                                              *)
Sync(a, queues) ==
    LET parts == Heads(queues)
        behind == PopHeads(queues)
        bad == Verdict(parts) = "stamps"
    IN  Drain([a EXCEPT
            !.synced = TRUE,
            !.offsets = OffsetsOf(parts),
            !.candidate = NoOffsets,
            !.base = Sequence(Lidar, parts[Lidar]),
            !.pending = [topic \in Topic |-> <<>>],
            !.frames = UNION {{<<topic, behind[topic][i]>> : i \in DOMAIN behind[topic]}
                              : topic \in Topic},
            !.dropped = IF bad THEN @ + 1 ELSE @,
            !.out = IF bad THEN @ ELSE Append(@, parts)])

\* One turn of the loop of _learn; where the loop breaks, the same again.
LearnBurst(a) ==
    IF a.synced \/ a.pending[First] = <<>> THEN a
    ELSE LET queues == Trimmed(a.pending)
             heard == \A topic \in Topic : queues[topic] # <<>>
             missed == heard /\ Missed(queues)
             learned == heard /\ ~missed /\ Trusted(a, queues)
             rest == [a EXCEPT !.pending = PopHeads(queues)]
         IN  CASE missed ->
                    [a EXCEPT !.pending = [queues EXCEPT ![First] = Tail(@)],
                              !.candidate = NoOffsets]
               [] learned ->
                    IF Verdict(Heads(queues)) = "data"
                    THEN [rest EXCEPT !.candidate = NoOffsets]
                    ELSE IF OffsetsOf(Heads(queues)) # a.candidate
                    THEN [rest EXCEPT !.candidate = OffsetsOf(Heads(queues))]
                    ELSE Sync(a, queues)
               [] ~missed /\ ~learned -> [a EXCEPT !.pending = queues]

Learn(a) ==
    LET turn[n \in Nat] == IF n = 0 THEN a ELSE LearnBurst(turn[n - 1])
    IN  turn[Len(a.pending[First]) + 1]

----------------------------------------------------------------------------
(* One message: offer *)

Queue(queue, burst) ==
    IF Len(queue) = MaxFrames THEN Append(Tail(queue), burst) ELSE Append(queue, burst)

\* An incomplete backlog this deep means that a topic is gone.
Overfull(a) == Cardinality(Waiting(a)) > MaxFrames

\* Mutant of Numbered: the sequence is not remembered.
MutantNumbered(a, topic, burst) == a

Numbered(a, topic, burst) == [a EXCEPT !.last[topic] = Sequence(topic, burst)]

Offered(topic, burst) ==
    LET sequence == Sequence(topic, burst)
        anew == last[topic] > 0 /\ sequence <= last[topic]
        a == Numbered(IF anew THEN Resync(Current) ELSE Current, topic, burst)
        kept == IF last[topic] > 0
                THEN DropFrames(a, topic, last[topic] + 1 .. sequence - 1)
                ELSE a
        added == [kept EXCEPT !.frames = @ \cup {<<topic, burst>>}]
    IN  CASE ~a.synced -> Learn([a EXCEPT !.pending[topic] = Queue(@, burst)])
          [] a.synced /\ FrameOf(a, <<topic, burst>>) \in kept.dead -> Drain(kept)
          [] a.synced /\ FrameOf(a, <<topic, burst>>) \notin kept.dead ->
                IF Overfull(added) THEN Resync(added) ELSE Drain(added)

BurstOf(parts) == IF parts = Whole(parts[First]) THEN parts[First] ELSE 0

----------------------------------------------------------------------------
(* Actions *)

AssemblerInit ==
    /\ restart \in Restarts
    /\ stalled \in Stalls
    /\ next = [topic \in Topic |-> 1]
    /\ losses = 0
    /\ synced = FALSE
    /\ offsets = NoOffsets
    /\ candidate = NoOffsets
    /\ pending = [topic \in Topic |-> <<>>]
    /\ frames = {}
    /\ dead = {}
    /\ last = [topic \in Topic |-> 0]
    /\ droppedFrames = 0
    /\ syncedAt = 0
    /\ given = <<>>
    /\ newest = 0
    /\ atSync = 0
    /\ emitted = 0
    /\ lastLost = 0

\* The transport: a topic's next message, not too far ahead of the others'.
Arrives(topic) ==
    /\ next[topic] <= Bursts
    /\ \A other \in Topic : next[topic] - next[other] < Ahead
    /\ next' = [next EXCEPT ![topic] = @ + 1]

Lose(topic) ==
    /\ losses < MaxLosses
    /\ Arrives(topic)
    /\ losses' = losses + 1
    /\ lastLost' = Greatest({lastLost, next[topic]})
    /\ UNCHANGED <<devkit, assembler, given, newest, atSync, emitted>>

Offer(topic) ==
    /\ Arrives(topic)
    /\ LET a == Offered(topic, next[topic])
           joined == a.synced /\ ~synced
       IN  /\ synced' = a.synced
           /\ offsets' = a.offsets
           /\ candidate' = a.candidate
           /\ pending' = a.pending
           /\ frames' = a.frames
           /\ dead' = a.dead
           /\ last' = a.last
           /\ droppedFrames' = a.dropped
           /\ syncedAt' = a.base
           /\ given' = [i \in DOMAIN a.out |-> BurstOf(a.out[i])]
           /\ newest' = IF given' = <<>> THEN newest ELSE given'[Len(given')]
           /\ atSync' = IF joined THEN droppedFrames ELSE atSync
           /\ emitted' = (IF joined THEN 0 ELSE emitted) + Len(given')
    /\ UNCHANGED <<devkit, losses, lastLost>>

AssemblerNext == \E topic \in Topic : Offer(topic) \/ Lose(topic)

AssemblerSpec == AssemblerInit /\ [][AssemblerNext]_assemblerVars

----------------------------------------------------------------------------
(* Properties *)

AssemblerTypeOK ==
    /\ restart \in Restarts
    /\ stalled \in Stalls
    /\ next \in [Topic -> 1 .. Bursts + 1]
    /\ losses \in 0 .. MaxLosses
    /\ synced \in BOOLEAN
    /\ synced <=> offsets # NoOffsets
    /\ pending \in [Topic -> Seq(1 .. Bursts)]
    /\ frames \subseteq Topic \X (1 .. Bursts)
    /\ dead \subseteq Int
    /\ last \in [Topic -> Nat]
    /\ droppedFrames \in Nat
    /\ emitted \in Nat

\* devkit.py: "nothing is ever paired across frames".  What the session is given
\* are whole frames of the devkit, each once and in order, whatever was lost
\* or restarted.
Channel == INSTANCE FrameChannel
ImplementsFrameChannel == Channel!Spec

\* Every frame from the sync on is given, dropped and counted, or still waits:
\* none is counted twice, though several topics may have lost a message of it.
FramesAccounted ==
    synced =>
        LET seen == {last[topic] - offsets[topic] : topic \in Topic}
        IN  emitted + (droppedFrames - atSync) + Cardinality(Waiting(Current))
                = Greatest(seen) - syncedAt + 1

\* A devkit that publishes is heard: once Recovery bursts have come whole, one of
\* them has been given to the session. Topics two bursts apart can hide a loss
\* from the learner, and then the backlog must fill before it starts again.
Recovery == IF Ahead > 2 THEN MaxFrames + 2 ELSE 2
Troubled == {newest, lastLost, restart} \cup stalled
StreamRecovers ==
    LET whole == Least({next[topic] : topic \in Topic}) - 1
    IN  whole - Greatest({burst \in Troubled : burst <= whole} \cup {0})
            <= Recovery

\* devkit.py: "A per-topic sequence gap is a loss: that frame is dropped from every
\* topic and counted".  So no frame waits for a message that is lost: one that
\* is incomplete still misses a message to come.
LostFrameIsDropped ==
    synced =>
        \A frame \in Waiting(Current) :
            Complete(Current, frame) \/
            \E topic \in Topic : last[topic] - offsets[topic] < frame

=============================================================================
