---------------------------- MODULE MCStepRunner ----------------------------
(***************************************************************************)
(* Three steps that share two slots, one of them with a timeout.            *)
(***************************************************************************)
EXTENDS StepRunner

CONSTANTS s1, s2, s3

MCSteps == {s1, s2, s3}
MCHasTimeout == {s1}
===============================================================================
