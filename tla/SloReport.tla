------------------------------ MODULE SloReport ------------------------------
(***************************************************************************)
(* packages/factory/src/slo.ts over the records of TaskQueue: its own      *)
(* validation of every record (a third description of the task state       *)
(* machine, beside the calls of the queue and assertRecord) and the        *)
(* metrics of a closed window.  The report has no state: it is an operator *)
(* on what queue.list() returns.                                           *)
(*                                                                         *)
(* Digests, schemas and credential scans are left out, and so is the shape *)
(* of a result.  A run duration is the difference the validator demands.   *)
(* Rates, percentiles and objectives are functions of the metrics and are  *)
(* left out too.  The report has limits of its own on the nodes and on the *)
(* events of a record; like the queue's limit on its bytes, they are a     *)
(* limit on the length of its history, the only part of it that grows.     *)
(***************************************************************************)
EXTENDS TaskQueue

CONSTANT ReportEventBudget   \* the report's limits on a record, in events

ASSUME ReportBudgetAssumption == ReportEventBudget \in Nat \ {0}

-----------------------------------------------------------------------------
(* validateTaskRecord: what it remembers while it walks through the events. *)

Scan0 == [legal |-> TRUE, phase |-> "queued", worker |-> None, lease |-> None,
          leased |-> 0, recovered |-> 0,
          firstLeasedAt |-> None, lastLeasedAt |-> None, heartbeatAt |-> None]

Ended(s, phase) == [s EXCEPT !.phase = phase, !.worker = None, !.lease = None]

(* Mutation: a failure needs an active lease, also right after a recovery. *)
ScanEventStrictFailure(s, e, previous) ==
  LET active == /\ s.phase = "leased"
                /\ e.worker = s.worker /\ e.lease = s.lease
  IN IF s.phase \in Terminal THEN [s EXCEPT !.legal = FALSE] ELSE
     CASE e.type = "leased" ->
            [s EXCEPT !.legal = @ /\ s.phase = "queued",
                      !.phase = "leased", !.worker = e.worker, !.lease = e.lease,
                      !.leased = @ + 1, !.lastLeasedAt = e.at, !.heartbeatAt = e.at,
                      !.firstLeasedAt = IF @ = None THEN e.at ELSE @]
       [] e.type = "heartbeat" -> [s EXCEPT !.legal = @ /\ active, !.heartbeatAt = e.at]
       [] e.type = "recovered" ->
            [Ended(s, "queued") EXCEPT !.legal = @ /\ active, !.recovered = @ + 1]
       [] e.type = "retry-scheduled" -> [Ended(s, "queued") EXCEPT !.legal = @ /\ active]
       [] e.type = "cancelled" -> Ended(s, "cancelled")
       [] OTHER -> [Ended(s, e.type) EXCEPT !.legal = @ /\ active]

ScanEvent(s, e, previous) ==
  LET active == /\ s.phase = "leased"
                /\ e.worker = s.worker /\ e.lease = s.lease
      named  == e.worker # None /\ e.lease # None
      bare   == e.worker = None /\ e.lease = None
  IN IF s.phase \in Terminal \/ e.type = "enqueued" THEN [s EXCEPT !.legal = FALSE] ELSE
     CASE e.type = "leased" ->
            [s EXCEPT !.legal = @ /\ s.phase = "queued" /\ named,
                      !.phase = "leased", !.worker = e.worker, !.lease = e.lease,
                      !.leased = @ + 1, !.lastLeasedAt = e.at, !.heartbeatAt = e.at,
                      !.firstLeasedAt = IF @ = None THEN e.at ELSE @]
       [] e.type = "heartbeat" ->
            [s EXCEPT !.legal = @ /\ active, !.heartbeatAt = e.at]
       [] e.type = "recovered" ->
            [Ended(s, "queued") EXCEPT !.legal = @ /\ active, !.recovered = @ + 1]
       [] e.type = "retry-scheduled" ->
            [Ended(s, "queued") EXCEPT !.legal = @ /\ active]
       [] e.type = "succeeded" ->
            [Ended(s, "succeeded") EXCEPT !.legal = @ /\ active]
       [] e.type = "failed" ->
            [Ended(s, "failed") EXCEPT
               !.legal = @ /\ (active \/ (s.phase = "queued" /\ previous.type = "recovered"))]
       [] e.type = "cancelled" ->
            [Ended(s, "cancelled") EXCEPT !.legal = @ /\ bare]

ScanOf(r) ==
  LET scan[i \in DOMAIN r.events] ==
        IF i = 1
          THEN [Scan0 EXCEPT !.legal = r.events[1].type = "enqueued"]
          ELSE LET s == ScanEvent(scan[i - 1], r.events[i], r.events[i - 1])
               IN [s EXCEPT !.legal = @ /\ r.events[i].at >= r.events[i - 1].at]
  IN scan[Len(r.events)]

TimingConsistent(r) ==
  /\ r.startedAt # None => r.startedAt >= CreatedAt(r)
  /\ r.finishedAt # None => r.startedAt # None /\ r.finishedAt >= r.startedAt

SummaryConsistent(r, s) ==
  /\ s.legal
  /\ r.startedAt = IF s.leased = 0 /\ r.phase = "cancelled" THEN LastEvent(r).at
                                                            ELSE s.firstLeasedAt
  /\ r.recoveryCount = s.recovered
  /\ r.attempts = s.leased /\ r.recoveryCount <= r.attempts
  /\ r.phase = s.phase
  /\ (r.phase \in Terminal) = (r.finishedAt # None)
  /\ r.phase \in Terminal => LastEvent(r).type = r.phase
  /\ (r.phase = "succeeded") = (r.result # None)

FailureEvents(r) == EventsOf(r, "failed") \cup EventsOf(r, "retry-scheduled")

FailureConsistent(r) ==
  /\ (r.phase = "failed") = (r.failure # None)
  /\ r.failure # None =>
       \E i \in FailureEvents(r) : /\ \A j \in FailureEvents(r) : j <= i
                                   /\ r.failure.occurredAt = r.events[i].at

LeaseConsistent(r, s) ==
  /\ (r.phase = "leased") = (r.lease # None)
  /\ LeaseTimesOrdered(r)
  /\ r.lease # None =>
       /\ r.lease.id = s.lease /\ r.lease.worker = s.worker
       /\ r.lease.acquiredAt = s.lastLeasedAt
       /\ r.lease.heartbeatAt = s.heartbeatAt
  /\ r.nextAttemptAt # None => r.phase = "queued"

(* validateTaskRecord returns instead of throwing. *)
ReportAccepts(t, r) ==
  /\ Len(r.events) \in 1 .. ReportEventBudget
  /\ r.attempts \in 0 .. MaxAttempts[t]
  /\ TimingConsistent(r)
  /\ SummaryConsistent(r, ScanOf(r))
  /\ FailureConsistent(r)
  /\ LeaseConsistent(r, ScanOf(r))

-----------------------------------------------------------------------------
(* The metrics of the window [from, to).                                   *)

InWindow(x, from, to) == x # None /\ from <= x /\ x < to

(* Mutation: a heartbeat counts as the end of the task. *)
QueueStateForgetful(r, i) ==
  IF i = 0 THEN "absent"
  ELSE CASE r.events[i].type \in {"enqueued", "recovered", "retry-scheduled"} -> "queued"
         [] r.events[i].type \in {"leased", "heartbeat"} -> "queued"
         [] OTHER -> "done"

(* The state after event i; a heartbeat leaves it as it was. *)
QueueState(r, i) ==
  IF i = 0 THEN "absent"
  ELSE CASE r.events[i].type \in {"enqueued", "recovered", "retry-scheduled"} -> "queued"
         [] r.events[i].type \in {"leased", "heartbeat"} -> "running"
         [] OTHER -> "done"

(* What event i of r adds to the queue depth. *)
Delta(r, i) == (IF QueueState(r, i) = "queued" THEN 1 ELSE 0)
             - (IF QueueState(r, i - 1) = "queued" THEN 1 ELSE 0)

(* The events that change the queue depth by d, at a time of the set. *)
Changes(d, times) ==
  {p \in Enqueued \X (1 .. EventBudget) :
     /\ p[2] <= Len(record[p[1]].events)
     /\ record[p[1]].events[p[2]].at \in times
     /\ Delta(record[p[1]], p[2]) = d}

DeltaIn(times) == Cardinality(Changes(1, times)) - Cardinality(Changes(-1, times))

Largest(S) == CHOOSE x \in S : \A y \in S : y <= x

(* Deltas are summed per instant before the maximum is taken, so that a    *)
(* recovery and the lease that follows it at the same time do not raise it. *)
QueueDepth(from, to) == Largest({DeltaIn(0 .. x) : x \in from - 1 .. to - 1})

(* Mutation: a task that still runs counts up to now. *)
ComputeTimeUpToNow(t, from, to) ==
  LET r      == record[t]
      end    == IF r.finishedAt = None THEN clock ELSE r.finishedAt
      start  == IF r.startedAt < from THEN from ELSE r.startedAt
  IN IF r.startedAt = None \/ r.startedAt >= to \/ end <= start THEN 0
     ELSE end - start

ComputeTime(t, from, to) ==
  LET r     == record[t]
      end   == IF r.finishedAt = None \/ r.finishedAt > to THEN to ELSE r.finishedAt
      start == IF r.startedAt < from THEN from ELSE r.startedAt
  IN IF r.startedAt = None \/ r.startedAt >= to \/ end <= start THEN 0
     ELSE end - start

(* What the rates, percentiles and cost are computed from; the queue depth *)
(* has a property of its own.                                              *)
Metrics(from, to) ==
  LET finished == {t \in Enqueued : InWindow(record[t].finishedAt, from, to)}
      started  == {t \in Enqueued : InWindow(record[t].startedAt, from, to)}
  IN [succeeded     |-> {t \in finished : record[t].phase = "succeeded"},
      failed        |-> {<<t, record[t].failure.kind>> :
                           t \in {u \in finished : record[u].phase = "failed"}},
      recovered     |-> {t \in Enqueued : \E i \in EventsOf(record[t], "recovered") :
                                            InWindow(record[t].events[i].at, from, to)},
      queueLatency  |-> {<<t, record[t].startedAt - CreatedAt(record[t])>> : t \in started},
      runDuration   |-> {<<t, record[t].finishedAt - record[t].startedAt>> : t \in finished},
      computeTime   |-> [t \in Tasks |-> IF t \in Enqueued THEN ComputeTime(t, from, to)
                                                           ELSE 0]]

(* The windows a report can be asked for: closed ones, not empty. *)
ClosedWindows == {w \in (0 .. clock) \X (0 .. clock) : w[1] < w[2]}

-----------------------------------------------------------------------------
(* Hazard: the report validates the records by rules of its own, and one   *)
(* record it refuses makes the whole report throw.  Of the records that    *)
(* the queue writes it refuses exactly two kinds: those that are queued    *)
(* with a failure (see ReportAcceptsTheQueue) and those whose history has  *)
(* outgrown the report's limits while it is within the queue's.            *)
ReportRefusesOnlyWaitingOrLong ==
  \A t \in Enqueued :
    ReportAccepts(t, record[t]) <=>
      /\ ~(record[t].phase = "queued" /\ record[t].failure # None)
      /\ Len(record[t].events) <= ReportEventBudget

(* Hazard: several events of one task, or of several, at the same instant; *)
(* a heartbeat between them; a task queued before the window.  The depth   *)
(* computed from deltas is the largest number of tasks that wait at one    *)
(* instant of the window, or just before it.                               *)
WaitingAt(x) ==
  {t \in Enqueued :
     \E i \in DOMAIN record[t].events :
       /\ record[t].events[i].at <= x
       /\ i < Len(record[t].events) => record[t].events[i + 1].at > x
       /\ PhaseAfter(record[t].events[i]) = "queued"}

QueueDepthIsLargestWaiting ==
  \A w \in ClosedWindows :
    QueueDepth(w[1], w[2])
      = Largest({Cardinality(WaitingAt(x)) : x \in w[1] - 1 .. w[2] - 1})

(* Hazard: the report of a window reads records that go on changing.  What *)
(* is reported about a window that has closed is not changed by anything   *)
(* that happens later.                                                     *)
ClosedWindowIsFinal ==
  [][\A w \in ClosedWindows : Metrics(w[1], w[2])' = Metrics(w[1], w[2])]_vars

(* packages/factory/README.md: "FactorySloPolicy produces verifiable       *)
(* success, latency, isolation, queue-depth, and estimated-cost reports"   *)
(* of the queue: a report can be made whatever the queue holds.            *)
ReportAcceptsTheQueue == \A t \in Enqueued : ReportAccepts(t, record[t])
=============================================================================
