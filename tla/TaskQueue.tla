------------------------------ MODULE TaskQueue ------------------------------
(***************************************************************************)
(* The durable task queue of packages/factory/src/queue.ts, one record per *)
(* task, at the granularity of its public calls.  Every mutating call runs *)
(* under the file-system mutex (module QueueLock models that mutex), reads *)
(* the record, changes a copy of it in memory, and hands the copy to       *)
(* writeRecord, which validates the WHOLE record again and persists it     *)
(* only if assertRecord and the size limit accept it.  A refused write     *)
(* makes the call throw and leaves the file as it was.                     *)
(*                                                                         *)
(* Data kept abstract: digests and the hash chain (a history is the        *)
(* sequence itself), ISO timestamps (a number), messages and details, the  *)
(* request other than its base commit and attempt budget, and the result   *)
(* other than its base commit.  The byte limit of a record is a limit on   *)
(* the length of its history, the only part of it that grows.              *)
(***************************************************************************)
EXTENDS Integers, Sequences, FiniteSets

CONSTANTS
  Tasks,            \* task ids; their order is the order of the file names
  Workers,          \* worker ids
  LeaseIds,         \* the random ids a lease can get
  FailureKinds,     \* how a failure is classified; only "transient" retries
  Commits,          \* Git commits a request or a result can name
  BaseCommit,       \* spec.baseCommit of each task
  MaxAttempts,      \* spec.maxAttempts of each task
  LeaseMs,          \* leaseMs each worker claims and heartbeats with
  RetryDelay,       \* retryDelayMs each worker fails with
  MaxTasks,         \* the queue's task budget
  EventBudget,      \* the record size limit, in events
  MaxTime,          \* bound of the clock
  ClockMayStepBack, \* whether the wall clock can be set back
  None              \* an absent optional field

ASSUME TasksAssumption == Tasks \subseteq Nat /\ IsFiniteSet(Tasks)
ASSUME BudgetAssumption ==
  /\ MaxAttempts \in [Tasks -> Nat \ {0}]
  /\ MaxTasks \in Nat \ {0}
  /\ EventBudget \in Nat \ {0}
ASSUME KindAssumption == "transient" \in FailureKinds
ASSUME TimingAssumption ==
  /\ LeaseMs \in [Workers -> Nat \ {0}]
  /\ RetryDelay \in [Workers -> Nat]
  /\ MaxTime \in Nat
  /\ ClockMayStepBack \in BOOLEAN
ASSUME CommitAssumption == BaseCommit \in [Tasks -> Commits]
ASSUME NoneAssumption ==
  /\ None \notin Nat
  /\ None \notin Workers
  /\ None \notin LeaseIds
  /\ None \notin Commits

VARIABLES
  record,           \* the file of each task under tasks/, or None
  clock             \* Date.now() as the queue's injected clock reports it

vars == <<record, clock>>

-----------------------------------------------------------------------------
(* Records *)

Terminal == {"succeeded", "failed", "cancelled"}
Phases   == {"queued", "leased"} \cup Terminal
EventTypes == {"enqueued", "leased", "heartbeat", "recovered",
               "retry-scheduled"} \cup Terminal

Event == [type   : EventTypes,
          at     : Nat,
          worker : Workers \cup {None},
          lease  : LeaseIds \cup {None}]

Lease == [id : LeaseIds, worker : Workers,
          acquiredAt : Nat, heartbeatAt : Nat, expiresAt : Nat]

(* The last failure, as its kind and the time it occurred. *)
Failure == [kind : FailureKinds, occurredAt : Nat]

Record == [phase         : Phases,
           attempts      : Nat,
           recoveryCount : Nat,
           nextAttemptAt : Nat \cup {None},
           lease         : Lease \cup {None},
           failure       : Failure \cup {None},
           result        : Commits \cup {None},
           startedAt     : Nat \cup {None},
           finishedAt    : Nat \cup {None},
           events        : Seq(Event)]

ASSUME RecordAssumption == None \notin Record \cup Lease \cup Failure

NewEvent(type, at, worker, lease) ==
  [type |-> type, at |-> at, worker |-> worker, lease |-> lease]

LastEvent(r)   == r.events[Len(r.events)]
CreatedAt(r)   == r.events[1].at
EventsOf(r, type) == {i \in DOMAIN r.events : r.events[i].type = type}

Enqueued    == {t \in Tasks : record[t] # None}
IsIn(t, S)  == t \in Enqueued /\ record[t].phase \in S

-----------------------------------------------------------------------------
(* assertRecord: what every read and every write checks.                   *)

(* The phase assertEventSemantics derives from a history that ends in e.   *)
PhaseAfter(e) ==
  CASE e.type \in {"enqueued", "recovered", "retry-scheduled"} -> "queued"
    [] e.type \in {"leased", "heartbeat"}                      -> "leased"
    [] OTHER                                                   -> e.type

(* Whether event f may follow event e.  Only leased and heartbeat events   *)
(* leave a lease active, and both carry its identity, so "matches the      *)
(* active lease" is "carries the identity of the event before".            *)
LegalNext(e, f) ==
  LET continues == /\ PhaseAfter(e) = "leased"
                   /\ f.worker = e.worker
                   /\ f.lease = e.lease
  IN /\ f.at >= e.at
     /\ \/ /\ f.type = "leased"
           /\ PhaseAfter(e) = "queued"
           /\ f.worker # None /\ f.lease # None
        \/ /\ f.type \in {"heartbeat", "recovered", "retry-scheduled",
                          "succeeded", "failed"}
           /\ continues
        \/ /\ f.type = "failed"
           /\ e.type = "recovered"
           /\ f.worker = None /\ f.lease = None
        \/ /\ f.type = "cancelled"
           /\ PhaseAfter(e) \notin Terminal

LegalHistory(r) ==
  /\ Len(r.events) > 0
  /\ r.events[1].type = "enqueued"
  /\ \A i \in 1 .. Len(r.events) - 1 : LegalNext(r.events[i], r.events[i + 1])

(* The summary fields agree with the history. *)
SummaryAgrees(r) ==
  LET leases == EventsOf(r, "leased")
  IN /\ r.phase = PhaseAfter(LastEvent(r))
     /\ r.attempts = Cardinality(leases)
     /\ r.recoveryCount = Cardinality(EventsOf(r, "recovered"))
     /\ IF leases # {}
          THEN \E i \in leases : /\ \A j \in leases : i <= j
                                 /\ r.startedAt = r.events[i].at
          ELSE r.startedAt = IF r.phase = "cancelled" THEN LastEvent(r).at
                                                      ELSE None
     /\ r.phase = "leased" =>
          /\ r.lease # None
          /\ r.lease.id = LastEvent(r).lease
          /\ r.lease.worker = LastEvent(r).worker
          /\ r.lease.heartbeatAt = LastEvent(r).at
          /\ \E i \in leases : /\ \A j \in leases : j <= i
                               /\ r.lease.acquiredAt = r.events[i].at
     /\ r.phase = "queued" /\ LastEvent(r).type = "retry-scheduled" =>
          r.nextAttemptAt # None
     /\ r.phase = "queued" /\ LastEvent(r).type = "recovered" =>
          r.nextAttemptAt = LastEvent(r).at
     /\ r.phase \in Terminal => r.finishedAt = LastEvent(r).at

(* The fields each phase requires and forbids. *)
PhaseFieldsAgree(r) ==
  /\ r.phase = "queued" =>
       /\ r.lease = None /\ r.result = None /\ r.finishedAt = None
       /\ LastEvent(r).type = "retry-scheduled" =>
            r.failure # None /\ r.failure.kind = "transient"
       /\ LastEvent(r).type = "enqueued" =>
            r.failure = None /\ r.nextAttemptAt = None
  /\ r.phase = "leased" =>
       /\ r.lease # None /\ r.nextAttemptAt = None /\ r.result = None
       /\ r.startedAt # None /\ r.finishedAt = None
  /\ r.phase \in Terminal =>
       /\ r.lease = None /\ r.nextAttemptAt = None
       /\ r.finishedAt # None /\ r.startedAt # None
       /\ r.finishedAt >= r.startedAt
  /\ r.phase = "succeeded" => r.result # None /\ r.failure = None
  /\ r.phase = "failed"    => r.result = None /\ r.failure # None
  /\ r.phase = "cancelled" => r.result = None /\ r.failure = None

LeaseTimesOrdered(r) ==
  r.lease # None => /\ r.lease.heartbeatAt >= r.lease.acquiredAt
                    /\ r.lease.expiresAt > r.lease.heartbeatAt

ValidRecord(t, r) ==
  /\ r.attempts \in 0 .. MaxAttempts[t]
  /\ r.recoveryCount \in 0 .. r.attempts
  /\ LegalHistory(r)
  /\ SummaryAgrees(r)
  /\ PhaseFieldsAgree(r)
  /\ LeaseTimesOrdered(r)

(* writeRecord: persists r or throws. *)
Writable(t, r) == ValidRecord(t, r) /\ Len(r.events) <= EventBudget

-----------------------------------------------------------------------------
(* What each call does to its in-memory copy of the record, at time `at'.  *)

FreshRecord(at) ==
  [phase |-> "queued", attempts |-> 0, recoveryCount |-> 0,
   nextAttemptAt |-> None, lease |-> None, failure |-> None, result |-> None,
   startedAt |-> None, finishedAt |-> None,
   events |-> <<NewEvent("enqueued", at, None, None)>>]

(* Mutation: the duration is not added. *)
NewLeaseWithoutDuration(w, l, at) == [id |-> l, worker |-> w,
               acquiredAt |-> at, heartbeatAt |-> at, expiresAt |-> at]

NewLease(w, l, at) == [id |-> l, worker |-> w, acquiredAt |-> at,
                       heartbeatAt |-> at, expiresAt |-> at + LeaseMs[w]]

Leased(r, w, l, at) ==
  [r EXCEPT !.phase = "leased",
            !.attempts = @ + 1,
            !.nextAttemptAt = None,
            !.failure = None,
            !.lease = NewLease(w, l, at),
            !.startedAt = IF @ = None THEN at ELSE @,
            !.events = Append(@, NewEvent("leased", at, w, l))]

Heartbeated(r, at) ==
  [r EXCEPT !.lease = [@ EXCEPT !.heartbeatAt = at,
                                !.expiresAt = at + LeaseMs[r.lease.worker]],
            !.events = Append(@, NewEvent("heartbeat", at, r.lease.worker,
                                          r.lease.id))]

(* claim's recovery of an expired lease; the second event closes a task    *)
(* whose attempts are spent.                                               *)
Recovered(t, r, at) ==
  LET events == Append(r.events, NewEvent("recovered", at, r.lease.worker,
                                          r.lease.id))
      common == [r EXCEPT !.recoveryCount = @ + 1,
                          !.lease = None,
                          !.failure = [kind |-> "transient",
                                       occurredAt |-> at]]
  IN IF r.attempts >= MaxAttempts[t]
       THEN [common EXCEPT !.phase = "failed",
                           !.finishedAt = at,
                           !.events = Append(events,
                                        NewEvent("failed", at, None, None))]
       ELSE [common EXCEPT !.phase = "queued",
                           !.nextAttemptAt = at,
                           !.events = events]

Succeeded(r, result, at) ==
  [r EXCEPT !.phase = "succeeded",
            !.lease = None,
            !.nextAttemptAt = None,
            !.failure = None,
            !.result = result,
            !.finishedAt = at,
            !.events = Append(@, NewEvent("succeeded", at, r.lease.worker,
                                          r.lease.id))]

(* Mutation: off by one. *)
RetriesOnceLess(t, r, kind) == kind = "transient" /\ r.attempts + 1 < MaxAttempts[t]

(* fail: a transient failure with attempts left is retried. *)
Retries(t, r, kind) == kind = "transient" /\ r.attempts < MaxAttempts[t]

(* Mutation: the delay is subtracted. *)
RetryAtBefore(r, at) == at - RetryDelay[r.lease.worker]

RetryAt(r, at) == at + RetryDelay[r.lease.worker]

Failed(t, r, kind, at) ==
  LET common == [r EXCEPT !.lease = None,
                          !.failure = [kind |-> kind, occurredAt |-> at]]
  IN IF Retries(t, r, kind)
       THEN [common EXCEPT
               !.phase = "queued",
               !.nextAttemptAt = RetryAt(r, at),
               !.events = Append(@, NewEvent("retry-scheduled", at,
                                             r.lease.worker, r.lease.id))]
       ELSE [common EXCEPT
               !.phase = "failed",
               !.nextAttemptAt = None,
               !.finishedAt = at,
               !.events = Append(@, NewEvent("failed", at, r.lease.worker,
                                             r.lease.id))]

(* cancel leaves record.failure as it finds it. *)
Cancelled(r, at) ==
  [r EXCEPT !.phase = "cancelled",
            !.lease = None,
            !.nextAttemptAt = None,
            !.startedAt = IF @ = None THEN at ELSE @,
            !.finishedAt = at,
            !.events = Append(@, NewEvent("cancelled", at, None, None))]

-----------------------------------------------------------------------------
(* Guards *)

(* Mutation: heartbeats do not count. *)
HasExpiredSinceAcquired(r, at) ==
  r.phase = "leased" /\ r.lease.acquiredAt + LeaseMs[r.lease.worker] <= at

HasExpired(r, at) == r.phase = "leased" /\ r.lease.expiresAt <= at

(* Mutation: an expired lease still counts as active. *)
ActiveLeaseWithoutExpiry(r, w, l, at) ==
  r.phase = "leased" /\ r.lease.id = l /\ r.lease.worker = w

(* assertActiveLease *)
ActiveLease(r, w, l, at) ==
  /\ r.phase = "leased"
  /\ r.lease.id = l /\ r.lease.worker = w
  /\ r.lease.expiresAt > at

Eligible(r, at) ==
  /\ r.phase = "queued"
  /\ r.nextAttemptAt # None => r.nextAttemptAt <= at

ReadyAt(r) == IF r.nextAttemptAt = None THEN CreatedAt(r) ELSE r.nextAttemptAt

(* Mutation: first come, first served. *)
PrecedesByAge(t, r, u, s) ==
  \/ CreatedAt(r) < CreatedAt(s)
  \/ CreatedAt(r) = CreatedAt(s) /\ t < u

(* The order claim sorts the eligible tasks by. *)
Precedes(t, r, u, s) ==
  \/ ReadyAt(r) < ReadyAt(s)
  \/ /\ ReadyAt(r) = ReadyAt(s)
     /\ \/ CreatedAt(r) < CreatedAt(s)
        \/ CreatedAt(r) = CreatedAt(s) /\ t < u

UsedLeaseIds(r) == {r.events[i].lease : i \in DOMAIN r.events}

(* writeRecord of one task, at the end of a call on that task alone. *)
Write(t, r) == /\ Writable(t, r)
               /\ record' = [record EXCEPT ![t] = r]
               /\ UNCHANGED clock

-----------------------------------------------------------------------------
Init == /\ record = [t \in Tasks |-> None]
        /\ clock = 0

(* Mutation: an existing record is written over. *)
EnqueueOver(t) == Write(t, FreshRecord(clock))

(* A second enqueue of the same request returns the record it finds. *)
Enqueue(t) ==
  /\ t \notin Enqueued
  /\ Cardinality(Enqueued) < MaxTasks
  /\ Write(t, FreshRecord(clock))

(* Mutation: one recovery per claim. *)
DueFirst == {t \in Enqueued :
               /\ HasExpired(record[t], clock)
               /\ \A u \in Enqueued : HasExpired(record[u], clock) => t <= u}

(* The recovery loop of claim: expired leases are recovered and written    *)
(* one by one in file-name order.                                          *)
Due     == {t \in Enqueued : HasExpired(record[t], clock)}
Refused == {t \in Due : ~Writable(t, Recovered(t, record[t], clock))}
AfterRecovery(S) ==
  [t \in Tasks |-> IF t \in S THEN Recovered(t, record[t], clock)
                              ELSE record[t]]

(* The first refused recovery makes claim throw; what it wrote stays.      *)
ClaimThrows ==
  /\ Refused # {}
  /\ record' = AfterRecovery({t \in Due : \A b \in Refused : t < b})
  /\ UNCHANGED clock

ClaimIdle ==
  /\ Refused = {}
  /\ \A t \in Enqueued : ~Eligible(AfterRecovery(Due)[t], clock)
  /\ record' = AfterRecovery(Due)
  /\ UNCHANGED clock

ClaimLeases(w) ==
  LET after == AfterRecovery(Due)
      ready == {t \in Enqueued : Eligible(after[t], clock)}
  IN /\ Refused = {}
     /\ \E t \in ready :
          /\ \A u \in ready \ {t} : Precedes(t, after[t], u, after[u])
          /\ \E l \in LeaseIds \ UsedLeaseIds(after[t]) :
               LET r == Leased(after[t], w, l, clock)
               IN record' = IF Writable(t, r) THEN [after EXCEPT ![t] = r]
                                              ELSE after
     /\ UNCHANGED clock

(* The process dies inside claim's recovery loop, between two writes.      *)
CrashInClaim ==
  /\ \E k \in Due : /\ \A t \in Due : t <= k => t \notin Refused
                    /\ record' = AfterRecovery({t \in Due : t <= k})
  /\ UNCHANGED clock

(* The calls a lease holder makes.  The caller presents a lease identity;  *)
(* one that is not the active lease is refused and changes nothing.        *)
Heartbeat(t, w, l) ==
  /\ t \in Enqueued
  /\ ActiveLease(record[t], w, l, clock)
  /\ Write(t, Heartbeated(record[t], clock))

Succeed(t, w, l, result) ==
  /\ t \in Enqueued
  /\ ActiveLease(record[t], w, l, clock)
  /\ result = BaseCommit[t]
  /\ Write(t, Succeeded(record[t], result, clock))

Fail(t, w, l, kind) ==
  /\ t \in Enqueued
  /\ ActiveLease(record[t], w, l, clock)
  /\ Write(t, Failed(t, record[t], kind, clock))

Cancel(t) ==
  /\ t \in Enqueued
  /\ record[t].phase \notin Terminal
  /\ Write(t, Cancelled(record[t], clock))

Tick == /\ clock < MaxTime
        /\ clock' = clock + 1
        /\ UNCHANGED record

StepBack == /\ ClockMayStepBack
            /\ clock > 0
            /\ clock' = clock - 1
            /\ UNCHANGED record

Next ==
  \/ \E t \in Tasks : Enqueue(t) \/ Cancel(t)
  \/ ClaimThrows \/ ClaimIdle \/ CrashInClaim
  \/ \E w \in Workers : ClaimLeases(w)
  \/ \E t \in Tasks, w \in Workers, l \in LeaseIds :
       \/ Heartbeat(t, w, l)
       \/ \E result \in Commits : Succeed(t, w, l, result)
       \/ \E kind \in FailureKinds : Fail(t, w, l, kind)
  \/ Tick
  \/ StepBack

Spec == Init /\ [][Next]_vars

-----------------------------------------------------------------------------
TypeOK == /\ record \in [Tasks -> Record \cup {None}]
          /\ clock \in 0 .. MaxTime

-----------------------------------------------------------------------------
(* Hazard: the validator of writeRecord and the calls that feed it are two *)
(* descriptions of the same state machine.  Unless the clock was set back  *)
(* behind the task's latest event, whatever a call that passed its own     *)
(* guards writes is a record assertRecord accepts; the only exception is   *)
(* cancelling a task that waits for a retry or was recovered: cancel keeps *)
(* its failure, the validator refuses it, and the call throws.             *)
GateAcceptsLegalCalls ==
  \A t \in {u \in Enqueued : LastEvent(record[u]).at <= clock} :
    LET r == record[t]
    IN /\ Eligible(r, clock) =>
            \A w \in Workers, l \in LeaseIds \ UsedLeaseIds(r) :
              ValidRecord(t, Leased(r, w, l, clock))
       /\ HasExpired(r, clock) => ValidRecord(t, Recovered(t, r, clock))
       /\ r.phase = "leased" /\ ~HasExpired(r, clock) =>
            /\ ValidRecord(t, Heartbeated(r, clock))
            /\ ValidRecord(t, Succeeded(r, BaseCommit[t], clock))
            /\ \A kind \in FailureKinds : ValidRecord(t, Failed(t, r, kind, clock))
       /\ r.phase \notin Terminal /\ r.failure = None =>
            ValidRecord(t, Cancelled(r, clock))

(* The time the lease that event e acquires or extends runs out. *)
LeaseEnd(e) == e.at + LeaseMs[e.worker]

InLeaseTime(e, f) ==
  PhaseAfter(e) = "leased" =>
    /\ f.type \in {"heartbeat", "succeeded", "retry-scheduled", "failed"}
         => f.at < LeaseEnd(e)
    /\ f.type = "recovered" => f.at >= LeaseEnd(e)

(* Hazard: a worker that lost its lease settles the task, or a lease is    *)
(* taken from a worker that still holds it.  In every history, the holder  *)
(* heartbeats and settles strictly before its lease runs out and recovery  *)
(* comes only after it has run out.                                        *)
LeaseTimesHonoured ==
  \A t \in Enqueued : \A i \in 1 .. Len(record[t].events) - 1 :
    InLeaseTime(record[t].events[i], record[t].events[i + 1])

(* The time a task whose latest event is e may be claimed from. *)
ReadyFrom(e) == IF e.type = "retry-scheduled" THEN e.at + RetryDelay[e.worker]
                                              ELSE e.at

(* Hazard: a retry comes before its delay, or a task that keeps failing    *)
(* overtakes one that waits.  In every history a lease begins no earlier   *)
(* than the task was ready, and when task u was leased no other task had   *)
(* been ready since before u was and still waited (claim's eligible sort). *)
ClaimOrderFair ==
  \A u \in Enqueued : \A i \in EventsOf(record[u], "leased") :
    LET key == ReadyFrom(record[u].events[i - 1])
        at  == record[u].events[i].at
    IN /\ key <= at
       /\ \A t \in Enqueued \ {u} : \A k \in DOMAIN record[t].events :
            LET e == record[t].events[k]
            IN PhaseAfter(e) = "queued" /\ ReadyFrom(e) < key =>
                 /\ k < Len(record[t].events)
                 /\ record[t].events[k + 1].at <= at

BudgetSpent(t, r) ==
  /\ r.phase = "failed" /\ r.failure.kind = "transient" =>
       r.attempts = MaxAttempts[t]
  /\ r.phase = "queued" => r.attempts < MaxAttempts[t]

(* Hazard: an off-by-one between attempts and maxAttempts, in fail or in   *)
(* claim's recovery.  A task is given up for a transient reason only when  *)
(* its budget is spent, and a task with a spent budget is never requeued   *)
(* (the gate would refuse its next lease and every later claim with it).   *)
BudgetSpentBeforeGivingUp == \A t \in Enqueued : BudgetSpent(t, record[t])

Extends(s, r) == /\ Len(r.events) <= Len(s.events)
                 /\ r.events = SubSeq(s.events, 1, Len(r.events))
                 /\ r.phase \in Terminal => s = r

(* Hazard: a late, repeated or racing call rewrites what was decided.  The *)
(* history of a task is only ever extended, and nothing extends it once    *)
(* the task is terminal: the idempotent replays write nothing.             *)
HistoryIsFinal ==
  [][\A t \in Enqueued : /\ record'[t] # None
                         /\ Extends(record'[t], record[t])]_vars

(* Hazard: work is handed out while an expired lease of another task is    *)
(* left behind.  A claim that leases a task leaves no expired lease.       *)
LeaseOnlyAfterRecovery ==
  [][(\E t \in Enqueued : record'[t].attempts > record[t].attempts) =>
       \A u \in Enqueued : ~HasExpired(record'[u], clock)]_vars

-----------------------------------------------------------------------------
(* TaskQueue implements TaskLedger: the entry each record stands for.      *)

(* Who holds the lease, or closed the task, by the last event. *)
HolderIn(r) ==
  LET e == LastEvent(r)
  IN IF r.phase = "queued" \/ e.worker = None THEN None
     ELSE [worker |-> e.worker, lease |-> e.lease]

EntryOf(r) ==
  IF r = None THEN None ELSE
  [phase    |-> r.phase,
   attempts |-> r.attempts,
   holder   |-> HolderIn(r),
   issued   |-> UsedLeaseIds(r) \ {None},
   live     |-> r.phase = "leased" /\ ~HasExpired(r, clock),
   ready    |-> Eligible(r, clock)]

Ledger == INSTANCE TaskLedger WITH ledger <- [t \in Tasks |-> EntryOf(record[t])]

ASSUME EntryAssumption == None \notin Ledger!Entry

(* The queue keeps the promise of TaskLedger as long as the clock is never *)
(* set back.                                                               *)
ImplementsLedger == Ledger!Spec

=============================================================================
