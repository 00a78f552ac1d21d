---- MODULE MCDriveLoop ----
(***************************************************************************)
(* The loop with queues of two messages and a staleness timeout of two      *)
(* ticks, run for more ticks than the timeout so that it can expire.        *)
(***************************************************************************)
EXTENDS DriveLoop
====
