---------------------------- MODULE MCQueueLock ----------------------------
(* Instances of QueueLock small enough for TLC. *)
EXTENDS QueueLock, TLC

ProcSymmetry == Permutations(Procs)
=============================================================================
