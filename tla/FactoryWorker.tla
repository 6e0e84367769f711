---------------------------- MODULE FactoryWorker ----------------------------
(***************************************************************************)
(* FactoryWorker.runOnce (packages/factory/src/worker.ts), by several      *)
(* worker processes on one queue, with the operator who enqueues and       *)
(* cancels tasks, time that passes, and crashes.                           *)
(*                                                                         *)
(* The queue is the abstract TaskLedger, which TaskQueue implements: a     *)
(* call on it is one step.  Between two calls of a worker anything the     *)
(* others do may happen: `await executor.execute` gives control away, and  *)
(* the calls of different processes interleave.  A lease that is not       *)
(* extended in time expires whenever Pass says so, the executor keeps      *)
(* running regardless.  A call may also fail for a reason of its own (the  *)
(* mutex timed out, the write was refused), and succeed may throw after it *)
(* has written (releasing the mutex failed, see QueueLock).                *)
(***************************************************************************)
EXTENDS Integers, FiniteSets

CONSTANTS
  Tasks, Workers, LeaseIds, MaxAttempts, None,   \* as in TaskLedger
  FailureKinds   \* what classifyFailure returns; "transient" by default

ASSUME WorkerAssumption ==
  /\ "transient" \in FailureKinds
  /\ MaxAttempts \in [Tasks -> Nat \ {0}]

VARIABLES
  ledger,   \* the queue
  pc,       \* where each worker's runOnce is
  job,      \* the task and lease its claim returned
  lost,     \* heartbeatFailure: a heartbeat of this lease has failed
  caught,   \* the kind of the error being handled
  report    \* what the worker's last runOnce answered

workerVars == <<pc, job, lost, caught, report>>
vars == <<ledger, workerVars>>

Queue == INSTANCE TaskLedger

Job == [task : Tasks, lease : LeaseIds]

ASSUME NoneAssumption ==
  None \notin Job /\ None \notin Queue!Entry /\ None \notin Queue!Holder

(* "crashed" and "threw" stand for a runOnce that returned nothing.        *)
Statuses == {"none", "idle", "succeeded", "retry-scheduled", "failed",
             "cancelled", "threw", "crashed"}
Report == [status : Statuses, job : Job \cup {None}]
Steps == {"idle", "executing", "settling", "catching", "recording"}

Answer(w, status) ==
  /\ pc' = [pc EXCEPT ![w] = "idle"]
  /\ job' = [job EXCEPT ![w] = None]
  /\ lost' = [lost EXCEPT ![w] = FALSE]
  /\ caught' = [caught EXCEPT ![w] = None]
  /\ report' = [report EXCEPT ![w] = [status |-> status, job |-> job[w]]]

Throw(w, kind) == /\ pc' = [pc EXCEPT ![w] = "catching"]
                  /\ caught' = [caught EXCEPT ![w] = kind]
                  /\ UNCHANGED <<job, lost, report>>

Goto(w, step) == /\ pc' = [pc EXCEPT ![w] = step]
                 /\ UNCHANGED <<job, lost, caught, report>>

HoldsJob(w) == Queue!Holds(job[w].task, w, job[w].lease)
JobPhase(w) == ledger[job[w].task].phase

-----------------------------------------------------------------------------
Init == /\ Queue!Init
        /\ pc = [w \in Workers |-> "idle"]
        /\ job = [w \in Workers |-> None]
        /\ lost = [w \in Workers |-> FALSE]
        /\ caught = [w \in Workers |-> None]
        /\ report = [w \in Workers |-> [status |-> "none", job |-> None]]

(* runOnce: claim a task. *)
ClaimTask(w) ==
  /\ pc[w] = "idle"
  /\ \E t \in Tasks, l \in LeaseIds :
       /\ Queue!ClaimTask(t, w, l)
       /\ job' = [job EXCEPT ![w] = [task |-> t, lease |-> l]]
  /\ pc' = [pc EXCEPT ![w] = "executing"]
  /\ UNCHANGED <<lost, caught, report>>

ClaimNothing(w) ==
  /\ pc[w] = "idle"
  /\ Queue!Recover(Queue!Lapsed)
  /\ \A t \in Queue!Known : ~(ledger'[t].phase = "queued" /\ ledger'[t].ready)
  /\ Answer(w, "idle")

(* The claim throws part-way, or after it has written the lease. *)
ClaimThrows(w) ==
  /\ pc[w] = "idle"
  /\ \/ \E S \in SUBSET Queue!Lapsed : Queue!Recover(S)
     \/ \E t \in Tasks, l \in LeaseIds : Queue!ClaimTask(t, w, l)
  /\ Answer(w, "threw")

(* The heartbeat timer.  The first error is kept and ends the heartbeats;  *)
(* an accepted heartbeat only extends a lease that is live.                *)
HeartbeatFails(w) ==
  /\ pc[w] = "executing"
  /\ lost' = [lost EXCEPT ![w] = TRUE]
  /\ UNCHANGED <<ledger, pc, job, caught, report>>

(* Mutation: heartbeatFailure is not looked at. *)
ExecutorResolvesRegardless(w) ==
  /\ pc[w] = "executing"
  /\ Goto(w, "settling")
  /\ UNCHANGED ledger

(* The executor's promise settles; it is never aborted. *)
ExecutorResolves(w) ==
  /\ pc[w] = "executing"
  /\ IF lost[w] THEN Throw(w, "transient") ELSE Goto(w, "settling")
  /\ UNCHANGED ledger

ExecutorRejects(w) ==
  /\ pc[w] = "executing"
  /\ \E kind \in FailureKinds : Throw(w, kind)
  /\ UNCHANGED ledger

Succeed(w) ==
  /\ pc[w] = "settling"
  /\ Queue!Succeed(job[w].task, w, job[w].lease)
  /\ Answer(w, "succeeded")

(* succeed refuses the result or the lease, or throws once it has written. *)
SucceedThrows(w) ==
  /\ pc[w] = "settling"
  /\ UNCHANGED ledger \/ Queue!Succeed(job[w].task, w, job[w].lease)
  /\ Throw(w, "transient")

(* The catch block: an answer for a cancelled task, a rethrow when the     *)
(* lease is lost, otherwise the failure is recorded.                       *)
Catch(w) ==
  /\ pc[w] = "catching"
  /\ IF JobPhase(w) = "cancelled" THEN Answer(w, "cancelled")
     ELSE IF lost[w] THEN Answer(w, "threw")
     ELSE Goto(w, "recording")
  /\ UNCHANGED ledger

Recorded(w, retries) ==
  IF retries THEN Queue!Retry(job[w].task, w, job[w].lease)
             ELSE Queue!GiveUp(job[w].task, w, job[w].lease)

MayRetry(w) == /\ caught[w] = "transient"
               /\ ledger[job[w].task].attempts < MaxAttempts[job[w].task]

RecordFailure(w) ==
  /\ pc[w] = "recording"
  /\ Recorded(w, MayRetry(w))
  /\ Answer(w, IF MayRetry(w) THEN "retry-scheduled" ELSE "failed")

(* fail refuses the lease, or throws once it has written. *)
RecordThrows(w) ==
  /\ pc[w] = "recording"
  /\ UNCHANGED ledger \/ Recorded(w, MayRetry(w))
  /\ Answer(w, "threw")

(* The process dies; another one with the same worker id takes its place.  *)
Crash(w) ==
  /\ pc[w] # "idle"
  /\ UNCHANGED ledger
  /\ Answer(w, "crashed")

Enqueue(t) == Queue!Enqueue(t) /\ UNCHANGED workerVars
Cancel(t)  == Queue!Cancel(t) /\ UNCHANGED workerVars

Expire(t) == Queue!Pass({t} \cap Queue!In("leased"), {}) /\ UNCHANGED workerVars
Ripen(t)  == Queue!Pass({}, {t} \cap Queue!In("queued")) /\ UNCHANGED workerVars

RunOnce(w) ==
  \/ ClaimTask(w) \/ ClaimNothing(w) \/ ClaimThrows(w)
  \/ HeartbeatFails(w) \/ ExecutorResolves(w) \/ ExecutorRejects(w)
  \/ Succeed(w) \/ SucceedThrows(w)
  \/ Catch(w) \/ RecordFailure(w) \/ RecordThrows(w)

Next == \/ \E w \in Workers : RunOnce(w) \/ Crash(w)
        \/ \E t \in Tasks : Enqueue(t) \/ Cancel(t) \/ Expire(t) \/ Ripen(t)

Spec == Init /\ [][Next]_vars

(* Somebody keeps calling run-once, and the queue's own calls do not fail  *)
(* for ever; executors return; retry delays run out; and a lease expires   *)
(* when no worker is left to extend it.                                    *)
Orphaned(t) ==
  t \in Queue!In("leased") /\
    \A w \in Workers : pc[w] = "idle" \/ job[w] # [task  |-> t,
                                      lease |-> ledger[t].holder.lease]

FairSpec ==
  /\ Spec
  /\ SF_vars(\E w \in Workers : ClaimTask(w))
  /\ WF_vars(\E w \in Workers : ClaimNothing(w))
  /\ \A w \in Workers :
       /\ WF_vars(ExecutorResolves(w) \/ ExecutorRejects(w))
       /\ WF_vars(Succeed(w) \/ SucceedThrows(w))
       /\ WF_vars(Catch(w))
       /\ WF_vars(RecordFailure(w) \/ RecordThrows(w))
  /\ \A t \in Tasks : /\ WF_vars(Orphaned(t) /\ Expire(t))
                      /\ WF_vars(Ripen(t))

-----------------------------------------------------------------------------
TypeOK ==
  /\ Queue!TypeOK
  /\ pc \in [Workers -> Steps]
  /\ job \in [Workers -> Job \cup {None}]
  /\ lost \in [Workers -> BOOLEAN]
  /\ caught \in [Workers -> FailureKinds \cup {None}]
  /\ report \in [Workers -> Report]

(* The books of the queue under its workers (see TaskLedger).              *)
LeasesAccounted == Queue!LeasesAccounted

(* Hazard: a worker answers for a task whose state says otherwise, because *)
(* it was cancelled, recovered or leased again meanwhile.  A worker that   *)
(* answered succeeded or failed is the one whose verdict stands in the     *)
(* queue, and one that answered cancelled speaks of a cancelled task.      *)
ReportsAreTrue ==
  \A w \in Workers :
    LET said  == report[w]
        entry == ledger[said.job.task]
    IN /\ said.status \in {"succeeded", "failed"} =>
            /\ entry.phase = said.status
            /\ entry.holder = Queue!HolderOf(w, said.job.lease)
       /\ said.status = "cancelled" => entry.phase = "cancelled"

(* Hazard: an executor that outlived its lease settles the task of the     *)
(* worker that leased it next ("Never write a terminal event using stale   *)
(* ownership").  Whoever settles a task is at that point of a runOnce for  *)
(* the very lease the task is under, and none of its heartbeats failed.    *)
VerdictsByAttentiveHolder ==
  [][\A t \in Queue!In("leased") :
       ledger'[t].phase = "succeeded" \/
       (ledger'[t].phase = "failed" /\ ledger'[t].holder # None) =>
         LET w == ledger[t].holder.worker
         IN /\ job[w] = [task |-> t, lease |-> ledger[t].holder.lease]
            /\ pc[w] \in {"settling", "recording"}
            /\ ~lost[w]]_vars

(* Every task comes to an end, whatever crashes, lost leases and retries   *)
(* come between: the attempt budget bounds them all.                       *)
EveryTaskSettles ==
  \A t \in Tasks : (t \in Queue!Known) ~>
                     (t \in Queue!Known /\ ledger[t].phase \in Queue!Terminal)
=============================================================================
