---- MODULE Recorder ----
(***************************************************************************)
(* racing_recording: the node's subscriptions, its flush service and the    *)
(* event recorder's file (node.cpp, event_recorder.cpp).                    *)
(*                                                                          *)
(* Abstractions: a message is its topic, whether its stamp is negative and  *)
(* whether its numbers are finite; a line of the file is the place of its   *)
(* message in the run and whether JSON can read it; the node has one        *)
(* thread, so a callback is one step.                                       *)
(***************************************************************************)
EXTENDS Integers, Sequences

CONSTANT MaxEvents   \* bound on the messages of a run

Topics == {"/drive", "/ground_truth/track_relative_state", "/safety/status",
           "/scenario/metrics", "/ground_truth/odom", "/estimate",
           "/evaluation/localization_error"}
Messages == [topic : Topics, negative : BOOLEAN, finite : BOOLEAN]

VARIABLES
    node,         \* "up" or "down"
    handled,      \* the messages whose callback returned, in order
    buffer,       \* lines in the stream's buffer
    disk,         \* lines of the file; "cut" for one cut short
    bad,          \* the stream's state
    promised      \* how many events were to be on disk, by what was answered

recorderVars == <<node, handled, buffer, disk, bad, promised>>

Manifest == [event |-> 0, readable |-> TRUE]
Cut == [event |-> 0, readable |-> FALSE]

RecorderInit ==
    /\ node = "up"
    /\ handled = <<>> /\ buffer = <<>>
    /\ disk = <<Manifest>>
    /\ bad = FALSE /\ promised = 0

\* The payloads: only a localization error writes a number that is not finite
\* as null (json_number).
Line(n, message) ==
    [event |-> n,
     readable |-> message.finite
                    \/ message.topic = "/evaluation/localization_error"]

\* An exception leaves the callback, spin and main: the buffer is lost.
Dies ==
    /\ node' = "down"
    /\ buffer' = <<>>

\* EventRecorder::record of a message, flushed after a metrics message.  It
\* throws on a negative stamp, or when the stream is or goes bad; a flush that
\* fails may have written some of the lines, the last of them cut short.
Handle(message) ==
    /\ node = "up"
    /\ Len(handled) < MaxEvents
    /\ LET lines == Append(buffer, Line(Len(handled) + 1, message))
           flushes == message.topic = "/scenario/metrics"
       IN \/ /\ ~message.negative /\ ~bad
             /\ handled' = Append(handled, message)
             /\ buffer' = IF flushes THEN <<>> ELSE lines
             /\ disk' = IF flushes THEN disk \o lines ELSE disk
             /\ promised' = IF flushes THEN Len(handled') ELSE promised
             /\ UNCHANGED <<node, bad>>
          \/ /\ flushes /\ ~message.negative /\ ~bad
             /\ \E n \in 0 .. Len(buffer) :
                   disk' = Append(disk \o SubSeq(lines, 1, n), Cut)
             /\ Dies
             /\ UNCHANGED <<handled, bad, promised>>
          \/ /\ message.negative \/ bad
             /\ Dies
             /\ UNCHANGED <<handled, disk, bad, promised>>

\* The full buffer goes to the file, in the middle of a line as it may be.
Spill ==
    /\ node = "up" /\ ~bad /\ buffer # <<>>
    /\ disk' = disk \o buffer
    /\ buffer' = <<>>
    /\ UNCHANGED <<node, handled, bad, promised>>

\* The disk is full: what was to be written is cut short.  The stream is bad
\* from then on.
WriteError ==
    /\ node = "up" /\ ~bad /\ buffer # <<>>
    /\ \E n \in 0 .. Len(buffer) - 1 :
          disk' = Append(disk \o SubSeq(buffer, 1, n), Cut)
    /\ buffer' = <<>>
    /\ bad' = TRUE
    /\ UNCHANGED <<node, handled, promised>>

\* Mutant of Flushed: the stream is not looked at after the flush.
MutantFlushed == TRUE

\* EventRecorder::flush throws unless the stream is good.
Flushed == ~bad

\* ~/flush: success, or the exception's text.
FlushService ==
    /\ node = "up"
    /\ disk' = IF bad THEN disk ELSE disk \o buffer
    /\ buffer' = IF bad THEN buffer ELSE <<>>
    /\ promised' = IF Flushed THEN Len(handled) ELSE promised
    /\ UNCHANGED <<node, handled, bad>>

\* The node is shut down: the destructor flushes and says nothing of it.
Shutdown ==
    /\ node = "up"
    /\ node' = "down"
    /\ disk' = IF bad THEN disk ELSE disk \o buffer
    /\ buffer' = <<>>
    /\ UNCHANGED <<handled, bad, promised>>

\* It is killed: of the buffer, nothing reaches the disk.
Kill ==
    /\ node = "up"
    /\ Dies
    /\ UNCHANGED <<handled, disk, bad, promised>>

\* It is started again on the same path: the file is emptied, the manifest
\* written and flushed.
Restart ==
    /\ node = "down"
    /\ node' = "up"
    /\ handled' = <<>> /\ buffer' = <<>>
    /\ disk' = <<Manifest>>
    /\ bad' = FALSE /\ promised' = 0

RecorderNext ==
    \/ \E message \in Messages : Handle(message)
    \/ Spill \/ WriteError \/ FlushService
    \/ Shutdown \/ Kill \/ Restart

RecorderSpec == RecorderInit /\ [][RecorderNext]_recorderVars

----------------------------------------------------------------------------

\* What was promised is on disk: a flush that answered success, and every
\* metrics message, leave the manifest and each event handled before, in order
\* and uncut, whatever then happens to the node; a line that JSON cannot read
\* is of a message with a number that is not finite, and never a localization
\* error (event_recorder.cpp, flush; node.cpp, "must stay parseable").
FlushedIsOnDisk ==
    /\ Len(disk) > promised
    /\ disk[1] = Manifest
    /\ \A n \in 1 .. promised :
          /\ disk[n + 1].event = n
          /\ disk[n + 1].readable \/ ~handled[n].finite
          /\ handled[n].topic = "/evaluation/localization_error"
                => disk[n + 1].readable

====
