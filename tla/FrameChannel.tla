---------------------------- MODULE FrameChannel ----------------------------
(***************************************************************************)
(* What front end B's assembler promises the session: a channel of whole   *)
(* frames.  It may lose some, and neither repeats, reorders nor mixes them. *)
(***************************************************************************)
EXTENDS Naturals, Sequences

CONSTANT Bursts \* the devkit's bursts are 1 .. Bursts

VARIABLES
    given,  \* the frames given to the session at the last message, in order
    newest  \* the last frame ever given, 0 before the first

Init == given = <<>> /\ newest = 0

(* A message completes no frame, one, or several that waited for it.        *)
Ordered(frames) ==
    \A i, j \in 1 .. Len(frames) : i < j => frames[i] < frames[j]

Give ==
    /\ given' \in Seq(1 .. Bursts)
    /\ Ordered(given')
    /\ \A i \in 1 .. Len(given') : newest < given'[i]
    /\ newest' = IF given' = <<>> THEN newest ELSE given'[Len(given')]

Spec == Init /\ [][Give]_<<given, newest>>
=============================================================================
