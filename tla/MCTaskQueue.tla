---------------------------- MODULE MCTaskQueue ----------------------------
(* Instances of TaskQueue and of the report on it small enough for TLC. *)
EXTENDS SloReport, TLC

CONSTANTS w1, w2, c1, c2

MCWorkers == {w1, w2}
MCCommits == {c1, c2}
MCBaseCommit == [t \in Tasks |-> c1]
MCMaxAttempts == [t \in Tasks |-> IF t = 1 THEN 2 ELSE 1]
MCLeaseMs == w1 :> 1 @@ w2 :> 2
MCRetryDelay == w1 :> 1 @@ w2 :> 0
MCThreeAttempts == [t \in Tasks |-> 3]
LeaseIdSymmetry == Permutations(LeaseIds)
=============================================================================
