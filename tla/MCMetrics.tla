---- MODULE MCMetrics ----
(***************************************************************************)
(* A track of three positions and a run of two laps.  The car moves at most *)
(* one position between two samples, in either direction: the greatest      *)
(* distance short of half the track, from which a step is read as one the   *)
(* other way round.                                                         *)
(***************************************************************************)
EXTENDS Metrics

MCClearances == {0, 1}
====
