---------------------------- MODULE MCTargetRun ----------------------------
(* Instances of TargetRun small enough for TLC. *)
EXTENDS TargetRun, TLC
=============================================================================
