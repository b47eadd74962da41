------------------------- MODULE MCAttemptLifecycle -------------------------
(***************************************************************************)
(* One attempt with its worker and its heartbeater.  As is typical, only the *)
(* state RUNNING asks for heartbeats.                                        *)
(***************************************************************************)
EXTENDS AttemptLifecycle

MCBodyRequests == {"WRITE", "RUNNING", "TEARING_DOWN", "COMPLETE"}
MCHeartbeatStates == {"RUNNING"}
===============================================================================
