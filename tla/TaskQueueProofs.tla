--------------------------- MODULE TaskQueueProofs ---------------------------
(***************************************************************************)
(* What holds of TaskQueue for every set of tasks and workers, every       *)
(* attempt budget, lease duration and retry delay and every record size    *)
(* limit; and, the order of claims and the ledger apart, with a wall clock *)
(* that may be set back at any time.                                       *)
(*                                                                         *)
(* Most of it is about one record at a time.  A step of the queue leaves a *)
(* record alone, creates it, or rewrites it by one of the six changes of   *)
(* Change below (a claim may do two of them to one task: recover it and    *)
(* lease it again); what is rewritten passed writeRecord.  So these proofs *)
(* have three parts: StepShape says the former, Change... lemmas say what  *)
(* one change preserves, the theorems combine the two.  The order of       *)
(* claims relates the histories of all tasks: its part follows a claim     *)
(* through its recoveries to the task it leases.                           *)
(*                                                                         *)
(* The second half is about what others see of the records.  A worker sees *)
(* a ledger: every step of the records, seen through EntryOf, is a step of *)
(* TaskLedger or leaves it alone, provided that the clock is not set back. *)
(* That proof has the shape of the queue: what each change of one record   *)
(* does to its entry (the ...Entry lemmas), what a recovery loop does to   *)
(* all entries, and one case per call.  The report sees windows of time:   *)
(* what it says of one that has closed is final, whatever the clock does,  *)
(* and the depth it computes from deltas is the depth of the queue.  It    *)
(* sees records: its own walk through their events agrees with what the    *)
(* queue wrote.  Both are proved event by event, from a least              *)
(* counterexample.                                                         *)
(***************************************************************************)
EXTENDS SloReport, SequenceTheorems, FiniteSetTheorems, FunctionTheorems, TLAPS

(* The lease of r has not run out. *)
InTime(r, at) == r.phase = "leased" /\ r.lease.expiresAt > at

(* One call rewrites the record r of task t as s. *)
Change(t, r, s, at) ==
  \/ /\ Eligible(r, at)
     /\ \E w \in Workers, l \in LeaseIds \ UsedLeaseIds(r) : s = Leased(r, w, l, at)
  \/ HasExpired(r, at) /\ s = Recovered(t, r, at)
  \/ InTime(r, at) /\ s = Heartbeated(r, at)
  \/ InTime(r, at) /\ s = Succeeded(r, BaseCommit[t], at)
  \/ InTime(r, at) /\ \E kind \in FailureKinds : s = Failed(t, r, kind, at)
  \/ r.phase \notin Terminal /\ s = Cancelled(r, at)

Rewrite(t, r, s) == Change(t, r, s, clock) /\ Writable(t, s)

(* What a step does to the file of one task. *)
StepOf(t) ==
  \/ record'[t] = record[t]
  \/ /\ record[t] = None
     /\ record'[t] = FreshRecord(clock)
     /\ Writable(t, record'[t])
  \/ record[t] # None /\ Rewrite(t, record[t], record'[t])
  \/ /\ record[t] # None
     /\ \E m : Rewrite(t, record[t], m) /\ Rewrite(t, m, record'[t])

-----------------------------------------------------------------------------
(* The recovery loop leaves a task alone or writes its recovery. *)
LEMMA RecoveryShape ==
  ASSUME NEW t \in Tasks, NEW S, S \subseteq Due \ Refused
  PROVE  \/ AfterRecovery(S)[t] = record[t] /\ t \notin S
         \/ /\ record[t] # None
            /\ Rewrite(t, record[t], AfterRecovery(S)[t])
<1>1. CASE t \in S
  <2>1. t \in Enqueued /\ HasExpired(record[t], clock)
        /\ Writable(t, Recovered(t, record[t], clock))
    BY <1>1 DEF Due, Refused
  <2>2. AfterRecovery(S)[t] = Recovered(t, record[t], clock)
    BY <1>1 DEF AfterRecovery
  <2> QED BY <2>1, <2>2 DEF Enqueued, Rewrite, Change
<1>2. CASE t \notin S
  BY <1>2 DEF AfterRecovery
<1> QED BY <1>1, <1>2

(* Every step is, for every task, one of the four cases of StepOf. *)
LEMMA StepShape ==
  ASSUME TypeOK, Next, NEW t \in Tasks
  PROVE  StepOf(t)
<1>0. DOMAIN record = Tasks
  BY DEF TypeOK
<1>w. ASSUME NEW u \in Tasks, NEW r, Write(u, r),
             \/ u \notin Enqueued /\ r = FreshRecord(clock)
             \/ u \in Enqueued /\ Change(u, record[u], r, clock)
      PROVE  StepOf(t)
  <2>1. Writable(u, r) /\ record' = [record EXCEPT ![u] = r]
    BY <1>w DEF Write
  <2>2. CASE t # u
    BY <2>1, <2>2, <1>0 DEF StepOf
  <2>3. CASE t = u
    <3>1. record'[t] = r
      BY <2>1, <2>3, <1>0
    <3>2. CASE t \notin Enqueued /\ r = FreshRecord(clock)
      BY <3>1, <3>2, <2>1, <2>3 DEF StepOf, Enqueued
    <3>3. CASE t \in Enqueued /\ Change(t, record[t], r, clock)
      BY <3>1, <3>3, <2>1, <2>3 DEF StepOf, Enqueued, Rewrite
    <3> QED BY <3>2, <3>3, <2>3, <1>w
  <2> QED BY <2>2, <2>3
<1>r. ASSUME NEW S, S \subseteq Due \ Refused, record' = AfterRecovery(S)
      PROVE  StepOf(t)
  BY <1>r, RecoveryShape DEF StepOf
<1>1. ASSUME NEW u \in Tasks, Enqueue(u) PROVE StepOf(t)
  BY <1>1, <1>w DEF Enqueue
<1>2. ASSUME NEW u \in Tasks, Cancel(u) PROVE StepOf(t)
  <2>1. /\ u \in Enqueued /\ Write(u, Cancelled(record[u], clock))
        /\ Change(u, record[u], Cancelled(record[u], clock), clock)
    BY <1>2 DEF Cancel, Change
  <2> QED BY <2>1, <1>w
<1>3. CASE ClaimThrows
  <2>1. {u \in Due : \A b \in Refused : u < b} \subseteq Due \ Refused
    <3>1. \A b \in Refused : b \in Nat /\ ~(b < b)
      <4>1. Refused \subseteq Tasks
        BY DEF Refused, Due, Enqueued
      <4>2. \A b \in Nat : ~(b < b)
        OBVIOUS
      <4> QED BY <4>1, <4>2, TasksAssumption
    <3> QED BY <3>1
  <2> QED BY <1>3, <2>1, <1>r DEF ClaimThrows
<1>4. CASE ClaimIdle
  BY <1>4, <1>r DEF ClaimIdle
<1>5. CASE CrashInClaim
  <2>1. PICK k \in Due : /\ \A u \in Due : u <= k => u \notin Refused
                         /\ record' = AfterRecovery({u \in Due : u <= k})
    BY <1>5 DEF CrashInClaim
  <2>2. {u \in Due : u <= k} \subseteq Due \ Refused
    BY <2>1
  <2> QED BY <2>1, <2>2, <1>r
<1>6. ASSUME NEW w \in Workers, ClaimLeases(w) PROVE StepOf(t)
  <2> DEFINE after == AfterRecovery(Due)
  <2>1. Refused = {}
    BY <1>6 DEF ClaimLeases
  <2>a. PICK u \in Enqueued :
          /\ Eligible(after[u], clock)
          /\ \E l \in LeaseIds \ UsedLeaseIds(after[u]) :
               record' = IF Writable(u, Leased(after[u], w, l, clock))
                           THEN [after EXCEPT ![u] = Leased(after[u], w, l, clock)]
                           ELSE after
    BY <1>6 DEF ClaimLeases
  <2>2. PICK l \in LeaseIds \ UsedLeaseIds(after[u]) :
          record' = IF Writable(u, Leased(after[u], w, l, clock))
                      THEN [after EXCEPT ![u] = Leased(after[u], w, l, clock)]
                      ELSE after
    BY <2>a
  <2>3. CASE record' = after
    BY <2>1, <2>3, <1>r
  <2>4. CASE /\ Writable(u, Leased(after[u], w, l, clock))
             /\ record' = [after EXCEPT ![u] = Leased(after[u], w, l, clock)]
    <3>1. DOMAIN after = Tasks
      BY DEF AfterRecovery
    <3>2. \/ after[t] = record[t]
          \/ record[t] # None /\ Rewrite(t, record[t], after[t])
      BY <2>1, RecoveryShape
    <3>3. CASE t # u
      <4>1. record'[t] = after[t]
        BY <2>4, <3>1, <3>3
      <4> QED BY <4>1, <3>2 DEF StepOf
    <3>4. CASE t = u
      <4>1. record'[t] = Leased(after[t], w, l, clock)
        BY <2>4, <3>1, <3>4
      <4>2. record[t] # None
        BY <3>4 DEF Enqueued
      <4>3. Rewrite(t, after[t], record'[t])
        BY <4>1, <3>4, <2>a, <2>2, <2>4 DEF Rewrite, Change
      <4> HIDE DEF after
      <4> QED BY <3>2, <4>2, <4>3 DEF StepOf
    <3> QED BY <3>3, <3>4
  <2> QED BY <2>2, <2>3, <2>4
<1>7. ASSUME NEW u \in Tasks, NEW w \in Workers, NEW l \in LeaseIds,
             Heartbeat(u, w, l)
      PROVE  StepOf(t)
  <2>1. /\ u \in Enqueued /\ Write(u, Heartbeated(record[u], clock))
        /\ Change(u, record[u], Heartbeated(record[u], clock), clock)
    BY <1>7 DEF Heartbeat, Change, ActiveLease, InTime
  <2> QED BY <2>1, <1>w
<1>8. ASSUME NEW u \in Tasks, NEW w \in Workers, NEW l \in LeaseIds,
             NEW result \in Commits, Succeed(u, w, l, result)
      PROVE  StepOf(t)
  <2>1. /\ u \in Enqueued /\ Write(u, Succeeded(record[u], BaseCommit[u], clock))
        /\ Change(u, record[u], Succeeded(record[u], BaseCommit[u], clock), clock)
    BY <1>8 DEF Succeed, Change, ActiveLease, InTime
  <2> QED BY <2>1, <1>w
<1>9. ASSUME NEW u \in Tasks, NEW w \in Workers, NEW l \in LeaseIds,
             NEW kind \in FailureKinds, Fail(u, w, l, kind)
      PROVE  StepOf(t)
  <2>1. /\ u \in Enqueued /\ Write(u, Failed(u, record[u], kind, clock))
        /\ Change(u, record[u], Failed(u, record[u], kind, clock), clock)
    BY <1>9 DEF Fail, Change, ActiveLease, InTime
  <2> QED BY <2>1, <1>w
<1>10. CASE Tick \/ StepBack
  BY <1>10 DEF Tick, StepBack, StepOf
<1> QED
  BY <1>1, <1>2, <1>3, <1>4, <1>5, <1>6, <1>7, <1>8, <1>9, <1>10 DEF Next

-----------------------------------------------------------------------------
(* Every change of a well-formed record yields a well-formed record. *)
LEMMA EventType ==
  ASSUME NEW type \in EventTypes, NEW at \in Nat,
         NEW w \in Workers \cup {None}, NEW l \in LeaseIds \cup {None}
  PROVE  NewEvent(type, at, w, l) \in Event
BY DEF NewEvent, Event

LEMMA AppendEvent ==
  ASSUME NEW r \in Record, NEW e \in Event
  PROVE  Append(r.events, e) \in Seq(Event)
BY DEF Record

LEMMA LeaseKnown ==
  ASSUME NEW t \in Tasks, NEW r \in Record, ValidRecord(t, r), r.phase = "leased"
  PROVE  r.lease \in Lease
BY DEF Record, ValidRecord, PhaseFieldsAgree

LEMMA FreshType == \A at \in Nat : FreshRecord(at) \in Record
<1> SUFFICES ASSUME NEW at \in Nat PROVE FreshRecord(at) \in Record
  OBVIOUS
<1>1. NewEvent("enqueued", at, None, None) \in Event
  BY EventType DEF EventTypes
<1>2. <<NewEvent("enqueued", at, None, None)>> \in Seq(Event)
  BY <1>1
<1> QED BY <1>2 DEF FreshRecord, Record, Phases

LEMMA LeasedType ==
  ASSUME NEW r \in Record, NEW w \in Workers, NEW l \in LeaseIds, NEW at \in Nat
  PROVE  Leased(r, w, l, at) \in Record
<1>1. NewLease(w, l, at) \in Lease
  <2>1. at + LeaseMs[w] \in Nat
    BY TimingAssumption
  <2> QED BY <2>1 DEF NewLease, Lease
<1>2. NewEvent("leased", at, w, l) \in Event
  BY EventType DEF EventTypes
<1>3. Append(r.events, NewEvent("leased", at, w, l)) \in Seq(Event)
  BY <1>2, AppendEvent
<1>4. r.attempts + 1 \in Nat
  BY DEF Record
<1> QED BY <1>1, <1>3, <1>4 DEF Leased, Record, Phases

(* The event that the holder of r's lease causes. *)
LEMMA HolderEvent ==
  ASSUME NEW r \in Record, r.lease \in Lease, NEW type \in EventTypes, NEW at \in Nat
  PROVE  Append(r.events, NewEvent(type, at, r.lease.worker, r.lease.id)) \in Seq(Event)
<1>1. r.lease.worker \in Workers /\ r.lease.id \in LeaseIds
  BY DEF Lease
<1> QED BY <1>1, EventType, AppendEvent

LEMMA HeartbeatedType ==
  ASSUME NEW r \in Record, r.lease \in Lease, NEW at \in Nat
  PROVE  Heartbeated(r, at) \in Record
<1> DEFINE ends == at + LeaseMs[r.lease.worker]
<1>1. ends \in Nat
  BY TimingAssumption DEF Lease
<1>2. [r.lease EXCEPT !.heartbeatAt = at, !.expiresAt = ends] \in Lease
  <2> HIDE DEF ends
  <2> QED BY <1>1 DEF Lease
<1>3. Append(r.events, NewEvent("heartbeat", at, r.lease.worker, r.lease.id))
        \in Seq(Event)
  BY HolderEvent DEF EventTypes
<1> QED BY <1>2, <1>3 DEF Heartbeated, Record

LEMMA RecoveredType ==
  ASSUME NEW t \in Tasks, NEW r \in Record, r.lease \in Lease, NEW at \in Nat
  PROVE  Recovered(t, r, at) \in Record
<1> DEFINE events == Append(r.events, NewEvent("recovered", at, r.lease.worker,
                                               r.lease.id))
<1>1. events \in Seq(Event)
  BY HolderEvent DEF EventTypes
<1>2. NewEvent("failed", at, None, None) \in Event
  BY EventType DEF EventTypes, Terminal
<1>3. Append(events, NewEvent("failed", at, None, None)) \in Seq(Event)
  BY <1>1, <1>2
<1>4. [kind |-> "transient", occurredAt |-> at] \in Failure
  BY KindAssumption DEF Failure
<1>5. r.recoveryCount + 1 \in Nat
  BY DEF Record
<1> QED BY <1>1, <1>3, <1>4, <1>5 DEF Recovered, Record, Phases, Terminal

LEMMA SucceededType ==
  ASSUME NEW t \in Tasks, NEW r \in Record, r.lease \in Lease, NEW at \in Nat
  PROVE  Succeeded(r, BaseCommit[t], at) \in Record
<1>1. Append(r.events, NewEvent("succeeded", at, r.lease.worker, r.lease.id))
        \in Seq(Event)
  BY HolderEvent DEF EventTypes, Terminal
<1>2. BaseCommit[t] \in Commits
  BY CommitAssumption
<1> QED BY <1>1, <1>2 DEF Succeeded, Record, Phases, Terminal

LEMMA FailedType ==
  ASSUME NEW t \in Tasks, NEW r \in Record, r.lease \in Lease, NEW at \in Nat,
         NEW kind \in FailureKinds
  PROVE  Failed(t, r, kind, at) \in Record
<1>1. \A type \in {"retry-scheduled", "failed"} :
        Append(r.events, NewEvent(type, at, r.lease.worker, r.lease.id)) \in Seq(Event)
  BY HolderEvent DEF EventTypes, Terminal
<1>2. [kind |-> kind, occurredAt |-> at] \in Failure
  BY DEF Failure
<1>3. RetryAt(r, at) \in Nat
  BY TimingAssumption DEF RetryAt, Lease
<1> QED BY <1>1, <1>2, <1>3 DEF Failed, Record, Phases, Terminal

LEMMA CancelledType ==
  ASSUME NEW r \in Record, NEW at \in Nat
  PROVE  Cancelled(r, at) \in Record
<1>1. NewEvent("cancelled", at, None, None) \in Event
  BY EventType DEF EventTypes, Terminal
<1>2. Append(r.events, NewEvent("cancelled", at, None, None)) \in Seq(Event)
  BY <1>1, AppendEvent
<1> QED BY <1>2 DEF Cancelled, Record, Phases, Terminal

LEMMA ChangeType ==
  ASSUME NEW t \in Tasks, NEW r \in Record, ValidRecord(t, r), NEW at \in Nat,
         NEW s, Change(t, r, s, at)
  PROVE  s \in Record
<1>1. r.phase = "leased" => r.lease \in Lease
  BY LeaseKnown
<1>2. HasExpired(r, at) \/ InTime(r, at) => r.lease \in Lease
  BY <1>1 DEF HasExpired, InTime
<1> QED
  BY <1>2, LeasedType, RecoveredType, HeartbeatedType, SucceededType,
     FailedType, CancelledType DEF Change

-----------------------------------------------------------------------------
(* The first type theorem: the files are records, the clock stays in its   *)
(* range.  The strengthening is that what is on disk passed writeRecord.   *)

DiskValid == \A t \in Enqueued : Writable(t, record[t])

LEMMA ClockType == TypeOK => clock \in Nat
BY TimingAssumption DEF TypeOK

LEMMA TypeStep == TypeOK /\ DiskValid /\ [Next]_vars => TypeOK' /\ DiskValid'
<1> SUFFICES ASSUME TypeOK, DiskValid, [Next]_vars PROVE TypeOK' /\ DiskValid'
  OBVIOUS
<1>1. CASE UNCHANGED vars
  BY <1>1 DEF TypeOK, DiskValid, Enqueued, vars
<1>2. CASE Next
  <2>0. clock \in Nat
    BY ClockType
  <2>1. ASSUME NEW t \in Tasks
        PROVE  /\ record'[t] \in Record \cup {None}
               /\ record'[t] # None => Writable(t, record'[t])
    <3>1. record[t] # None => record[t] \in Record /\ Writable(t, record[t])
      BY DEF TypeOK, DiskValid, Enqueued
    <3>2. ASSUME NEW r \in Record, Writable(t, r), NEW s, Rewrite(t, r, s)
          PROVE  s \in Record /\ Writable(t, s)
      BY <2>0, <3>2, ChangeType DEF Rewrite, Writable
    <3>3. CASE record'[t] = record[t]
      BY <3>1, <3>3 DEF TypeOK
    <3>4. CASE record'[t] = FreshRecord(clock) /\ Writable(t, record'[t])
      BY <2>0, <3>4, FreshType
    <3>5. CASE record[t] # None /\ Rewrite(t, record[t], record'[t])
      BY <3>1, <3>2, <3>5
    <3>6. CASE /\ record[t] # None
               /\ \E m : Rewrite(t, record[t], m) /\ Rewrite(t, m, record'[t])
      BY <3>1, <3>2, <3>6
    <3> QED BY <1>2, <3>3, <3>4, <3>5, <3>6, StepShape DEF StepOf
  <2>2. record' = [t \in Tasks |-> record'[t]]
    <3>1. DOMAIN record = Tasks
      BY DEF TypeOK
    <3> QED
      BY <1>2, <3>1 DEF Next, Enqueue, Cancel, Write, ClaimThrows, ClaimIdle,
         CrashInClaim, ClaimLeases, Heartbeat, Succeed, Fail, Tick, StepBack,
         AfterRecovery, TypeOK
  <2>3. clock' \in 0 .. MaxTime
    BY <1>2, TimingAssumption DEF TypeOK, Next, Enqueue, Cancel, Write,
       ClaimThrows, ClaimIdle, CrashInClaim, ClaimLeases, Heartbeat, Succeed,
       Fail, Tick, StepBack
  <2>4. record' \in [Tasks -> Record \cup {None}]
    BY <2>1, <2>2
  <2> QED BY <2>1, <2>3, <2>4 DEF TypeOK, DiskValid, Enqueued
<1> QED BY <1>1, <1>2

LEMMA TypeInit == Init => TypeOK /\ DiskValid
BY TimingAssumption DEF Init, TypeOK, DiskValid, Enqueued

(* Every file is a record, and a record that assertRecord accepts, after   *)
(* any sequence of calls, refused writes and crashes inside claim.         *)
THEOREM TypeCorrect == Spec => []TypeOK
<1>1. Spec => [](TypeOK /\ DiskValid)
  BY TypeInit, TypeStep, PTL DEF Spec
<1> QED BY <1>1, PTL

(* What assertRecord refuses is never on disk, so no later read of a task  *)
(* throws for its content.                                                 *)
THEOREM DiskStaysValid == Spec => []DiskValid
<1>1. Spec => [](TypeOK /\ DiskValid)
  BY TypeInit, TypeStep, PTL DEF Spec
<1> QED BY <1>1, PTL

-----------------------------------------------------------------------------
(* The attempt budget.  No strengthening is needed beyond the validity of  *)
(* the record before the change: it bounds attempts by maxAttempts, so an  *)
(* attempt count that is not below the budget equals it.                   *)

LEMMA ChangeBudget ==
  ASSUME NEW t \in Tasks, NEW r \in Record, ValidRecord(t, r), NEW at \in Nat,
         NEW s, Change(t, r, s, at)
  PROVE  BudgetSpent(t, s)
<1>0. /\ r.attempts \in Nat /\ r.attempts <= MaxAttempts[t]
      /\ MaxAttempts[t] \in Nat
  BY BudgetAssumption DEF ValidRecord, Record
<1>1. ASSUME NEW w \in Workers, NEW l \in LeaseIds, s = Leased(r, w, l, at)
      PROVE  BudgetSpent(t, s)
  BY <1>1 DEF Leased, BudgetSpent, Record
<1>2. CASE s = Recovered(t, r, at)
  BY <1>0, <1>2 DEF Recovered, BudgetSpent, Record
<1>3. CASE InTime(r, at) /\ s = Heartbeated(r, at)
  BY <1>3 DEF Heartbeated, BudgetSpent, Record, InTime
<1>4. CASE s = Succeeded(r, BaseCommit[t], at)
  BY <1>4 DEF Succeeded, BudgetSpent, Record
<1>5. ASSUME NEW kind \in FailureKinds, s = Failed(t, r, kind, at)
      PROVE  BudgetSpent(t, s)
  BY <1>0, <1>5 DEF Failed, Retries, BudgetSpent, Record
<1>6. CASE s = Cancelled(r, at)
  BY <1>6 DEF Cancelled, BudgetSpent, Record
<1> QED BY <1>1, <1>2, <1>3, <1>4, <1>5, <1>6 DEF Change

-----------------------------------------------------------------------------
(* Histories.  A change appends one event, or two when a recovery closes   *)
(* the task.                                                               *)

PrefixOf(es, fs) == /\ Len(es) <= Len(fs)
                    /\ \A i \in 1 .. Len(es) : fs[i] = es[i]

(* What one change adds to the history of r: e, and then maybe f. *)
Adds(r, s, e) == s.events = Append(r.events, e)
AddsBoth(r, s, e, f) == s.events = Append(Append(r.events, e), f)

LEMMA AppendPrefix ==
  ASSUME NEW es \in Seq(Event), NEW e \in Event
  PROVE  /\ Append(es, e) \in Seq(Event)
         /\ PrefixOf(es, Append(es, e))
BY AppendProperties, LenProperties DEF PrefixOf

LEMMA PrefixTransitive ==
  ASSUME NEW es \in Seq(Event), NEW fs \in Seq(Event), NEW gs \in Seq(Event),
         PrefixOf(es, fs), PrefixOf(fs, gs)
  PROVE  PrefixOf(es, gs)
<1>1. Len(es) \in Nat /\ Len(fs) \in Nat /\ Len(gs) \in Nat
  BY LenProperties
<1> QED BY <1>1 DEF PrefixOf

LEMMA PrefixIsSubSeq ==
  ASSUME NEW es \in Seq(Event), NEW fs \in Seq(Event), PrefixOf(es, fs)
  PROVE  es = SubSeq(fs, 1, Len(es))
<1> DEFINE n == Len(es)
           ss == SubSeq(fs, 1, n)
<1>1. n \in Nat /\ Len(fs) \in Nat /\ n <= Len(fs)
  BY LenProperties DEF PrefixOf
<1>2. \A i \in 1 .. n : fs[i] \in Event
  BY <1>1, ElementOfSeq
<1>3. /\ ss \in Seq(Event)
      /\ Len(ss) = n
      /\ \A i \in 1 .. n : ss[i] = fs[i]
  BY <1>1, <1>2, SubSeqProperties
<1> QED BY <1>3, SeqEqual DEF PrefixOf

(* The events one change of r adds. *)
LEMMA ChangeEvents ==
  ASSUME NEW t \in Tasks, NEW r \in Record, ValidRecord(t, r), NEW at \in Nat,
         NEW s, Change(t, r, s, at)
  PROVE  \/ \E e \in Event : Adds(r, s, e)
         \/ \E e, f \in Event : AddsBoth(r, s, e, f)
<1>1. r.phase = "leased" => r.lease.worker \in Workers /\ r.lease.id \in LeaseIds
  BY LeaseKnown DEF Lease
<1>2. ASSUME NEW w \in Workers, NEW l \in LeaseIds, s = Leased(r, w, l, at)
      PROVE  \E e \in Event : Adds(r, s, e)
  <2>1. NewEvent("leased", at, w, l) \in Event
    BY EventType DEF EventTypes
  <2>2. Adds(r, s, NewEvent("leased", at, w, l))
    BY <1>2 DEF Leased, Adds, Record
  <2> QED BY <2>1, <2>2
<1>3. CASE r.phase = "leased" /\ s = Recovered(t, r, at)
  <2> DEFINE e == NewEvent("recovered", at, r.lease.worker, r.lease.id)
             f == NewEvent("failed", at, None, None)
  <2>1. e \in Event /\ f \in Event
    BY <1>1, <1>3, EventType DEF EventTypes, Terminal
  <2>2. Adds(r, s, e) \/ AddsBoth(r, s, e, f)
    BY <1>3 DEF Recovered, Adds, AddsBoth, Record
  <2> QED BY <2>1, <2>2
<1>4. CASE r.phase = "leased" /\ s = Heartbeated(r, at)
  <2>1. NewEvent("heartbeat", at, r.lease.worker, r.lease.id) \in Event
    BY <1>1, <1>4, EventType DEF EventTypes
  <2>2. Adds(r, s, NewEvent("heartbeat", at, r.lease.worker, r.lease.id))
    BY <1>4 DEF Heartbeated, Adds, Record
  <2> QED BY <2>1, <2>2
<1>5. CASE r.phase = "leased" /\ s = Succeeded(r, BaseCommit[t], at)
  <2>1. NewEvent("succeeded", at, r.lease.worker, r.lease.id) \in Event
    BY <1>1, <1>5, EventType DEF EventTypes, Terminal
  <2>2. Adds(r, s, NewEvent("succeeded", at, r.lease.worker, r.lease.id))
    BY <1>5 DEF Succeeded, Adds, Record
  <2> QED BY <2>1, <2>2
<1>6. ASSUME NEW kind \in FailureKinds, r.phase = "leased", s = Failed(t, r, kind, at)
      PROVE  \E e \in Event : Adds(r, s, e)
  <2>1. \A type \in {"retry-scheduled", "failed"} :
          NewEvent(type, at, r.lease.worker, r.lease.id) \in Event
    BY <1>1, <1>6, EventType DEF EventTypes, Terminal
  <2>2. \E type \in {"retry-scheduled", "failed"} :
          Adds(r, s, NewEvent(type, at, r.lease.worker, r.lease.id))
    BY <1>6 DEF Failed, Adds, Record
  <2> QED BY <2>1, <2>2
<1>7. CASE s = Cancelled(r, at)
  <2>1. NewEvent("cancelled", at, None, None) \in Event
    BY EventType DEF EventTypes, Terminal
  <2>2. Adds(r, s, NewEvent("cancelled", at, None, None))
    BY <1>7 DEF Cancelled, Adds, Record
  <2> QED BY <2>1, <2>2
<1> QED
  BY <1>2, <1>3, <1>4, <1>5, <1>6, <1>7 DEF Change, HasExpired, InTime

LEMMA ChangePrefix ==
  ASSUME NEW t \in Tasks, NEW r \in Record, ValidRecord(t, r), NEW at \in Nat,
         NEW s \in Record, Change(t, r, s, at)
  PROVE  PrefixOf(r.events, s.events)
<1>1. r.events \in Seq(Event)
  BY DEF Record
<1>2. ASSUME NEW e \in Event, Adds(r, s, e) PROVE PrefixOf(r.events, s.events)
  BY <1>1, <1>2, AppendPrefix DEF Adds
<1>3. ASSUME NEW e \in Event, NEW f \in Event, AddsBoth(r, s, e, f)
      PROVE  PrefixOf(r.events, s.events)
  <2> DEFINE es == Append(r.events, e)
  <2>1. es \in Seq(Event) /\ PrefixOf(r.events, es)
    BY <1>1, AppendPrefix
  <2>2. Append(es, f) \in Seq(Event) /\ PrefixOf(es, Append(es, f))
    <3> HIDE DEF es
    <3> QED BY <2>1, AppendPrefix
  <2>3. s.events = Append(es, f)
    BY <1>3 DEF AddsBoth
  <2> HIDE DEF es
  <2> QED BY <1>1, <2>1, <2>2, <2>3, PrefixTransitive
<1> QED BY <1>2, <1>3, ChangeEvents

(* A terminal record is never rewritten. *)
LEMMA ChangeNotTerminal ==
  ASSUME NEW t, NEW r, NEW s, NEW at, Change(t, r, s, at)
  PROVE  r.phase \notin Terminal
BY DEF Change, Eligible, HasExpired, InTime, Terminal

LEMMA HistoryStep ==
  ASSUME TypeOK, DiskValid, [Next]_vars, NEW t \in Enqueued
  PROVE  record'[t] # None /\ Extends(record'[t], record[t])
<1>0. clock \in Nat
  BY ClockType
<1>1. /\ t \in Tasks /\ record[t] # None
      /\ record[t] \in Record /\ Writable(t, record[t])
  BY DEF TypeOK, DiskValid, Enqueued
<1>2. ASSUME NEW r \in Record, Writable(t, r), NEW s, Rewrite(t, r, s)
      PROVE  /\ s \in Record /\ Writable(t, s)
             /\ r.phase \notin Terminal
             /\ PrefixOf(r.events, s.events)
  BY <1>0, <1>1, <1>2, ChangeType, ChangePrefix, ChangeNotTerminal
     DEF Rewrite, Writable
<1>3. \A r \in Record : r.events \in Seq(Event)
  BY DEF Record
<1>4. ASSUME NEW r \in Record, NEW s \in Record, r.phase \notin Terminal,
             PrefixOf(r.events, s.events)
      PROVE  Extends(s, r)
  BY <1>3, <1>4, PrefixIsSubSeq DEF Extends, PrefixOf
<1>n. None \notin Record
  BY RecordAssumption
<1>x. Extends(record[t], record[t])
  <2>1. PrefixOf(record[t].events, record[t].events)
    BY <1>1, <1>3, LenProperties DEF PrefixOf
  <2> QED BY <1>1, <1>3, <2>1, PrefixIsSubSeq DEF Extends, PrefixOf
<1>5. CASE record'[t] = record[t]
  BY <1>1, <1>5, <1>x
<1>6. CASE Rewrite(t, record[t], record'[t])
  BY <1>1, <1>2, <1>4, <1>6, <1>n
<1>7. CASE \E m : Rewrite(t, record[t], m) /\ Rewrite(t, m, record'[t])
  <2>1. PICK m : Rewrite(t, record[t], m) /\ Rewrite(t, m, record'[t])
    BY <1>7
  <2>2. /\ m \in Record /\ Writable(t, m)
        /\ record[t].phase \notin Terminal
        /\ PrefixOf(record[t].events, m.events)
    BY <1>1, <1>2, <2>1
  <2>3. record'[t] \in Record /\ PrefixOf(m.events, record'[t].events)
    BY <1>2, <2>1, <2>2
  <2>4. PrefixOf(record[t].events, record'[t].events)
    BY <1>1, <1>3, <2>2, <2>3, PrefixTransitive
  <2> QED BY <1>1, <1>4, <2>2, <2>3, <2>4, <1>n
<1>8. CASE UNCHANGED vars
  BY <1>5, <1>8 DEF vars
<1> QED BY <1>1, <1>5, <1>6, <1>7, <1>8, StepShape DEF StepOf

(* No call, refused write or crash inside claim, whatever the clock does,  *)
(* rewrites the recorded past of a task or touches one that is terminal.   *)
THEOREM HistoryFinal == Spec => HistoryIsFinal
<1> DEFINE A == \A t \in Enqueued : /\ record'[t] # None
                                    /\ Extends(record'[t], record[t])
<1>1. TypeOK /\ DiskValid /\ [Next]_vars => [A]_vars
  BY HistoryStep
<1>2. Spec => [][A]_vars
  BY <1>1, TypeInit, TypeStep, PTL DEF Spec
<1> QED BY <1>2 DEF HistoryIsFinal

-----------------------------------------------------------------------------
(* Lease times.  LeaseTimesHonoured speaks of histories; what a change     *)
(* compares with the clock is lease.expiresAt.  The strengthening ties the *)
(* two: expiresAt is the end of the lease the last event acquired or       *)
(* extended.                                                               *)

EndKnown(r) == r.phase = "leased" => r.lease.expiresAt = LeaseEnd(LastEvent(r))

TimesIn(es) == \A i \in 1 .. Len(es) - 1 : InLeaseTime(es[i], es[i + 1])

LeaseTimes(r) == EndKnown(r) /\ TimesIn(r.events)

LEMMA AppendTimes ==
  ASSUME NEW es \in Seq(Event), Len(es) > 0, NEW e \in Event,
         TimesIn(es), InLeaseTime(es[Len(es)], e)
  PROVE  /\ TimesIn(Append(es, e))
         /\ Append(es, e) \in Seq(Event)
         /\ Len(Append(es, e)) > 0
         /\ Append(es, e)[Len(Append(es, e))] = e
<1> DEFINE fs == Append(es, e)
<1>1. /\ Len(es) \in Nat /\ fs \in Seq(Event) /\ Len(fs) = Len(es) + 1
      /\ \A i \in 1 .. Len(es) : fs[i] = es[i]
      /\ fs[Len(es) + 1] = e
  BY AppendProperties, LenProperties
<1> HIDE DEF fs
<1>2. ASSUME NEW i \in 1 .. Len(fs) - 1 PROVE InLeaseTime(fs[i], fs[i + 1])
  <2>1. CASE i = Len(es)
    BY <1>1, <2>1
  <2>2. CASE i < Len(es)
    <3>1. i \in 1 .. Len(es) - 1 /\ fs[i] = es[i] /\ fs[i + 1] = es[i + 1]
      BY <1>1, <2>2
    <3> QED BY <3>1 DEF TimesIn
  <2> QED BY <1>1, <2>1, <2>2
<1> QED BY <1>1, <1>2 DEF TimesIn, fs

(* What holds of a record whose lease is about to be heartbeaten, settled, *)
(* or recovered.                                                           *)
LEMMA LeasedFacts ==
  ASSUME NEW t \in Tasks, NEW r \in Record, ValidRecord(t, r), r.phase = "leased"
  PROVE  /\ r.lease.worker \in Workers /\ r.lease.id \in LeaseIds
         /\ r.lease.worker = LastEvent(r).worker
         /\ PhaseAfter(LastEvent(r)) = "leased"
<1>1. r.lease \in Lease
  BY LeaseKnown
<1>2. r.lease.worker = LastEvent(r).worker /\ PhaseAfter(LastEvent(r)) = "leased"
  BY DEF ValidRecord, SummaryAgrees
<1> QED BY <1>1, <1>2 DEF Lease

LEMMA ChangeLeaseTimes ==
  ASSUME NEW t \in Tasks, NEW r \in Record, ValidRecord(t, r), LeaseTimes(r),
         NEW at \in Nat, NEW s \in Record, Change(t, r, s, at)
  PROVE  LeaseTimes(s)
<1>1. /\ r.events \in Seq(Event) /\ Len(r.events) > 0
      /\ r.phase = PhaseAfter(LastEvent(r))
      /\ LastEvent(r) = r.events[Len(r.events)]
  BY DEF Record, ValidRecord, LegalHistory, SummaryAgrees, LastEvent
<1>2. ASSUME NEW e \in Event, InLeaseTime(LastEvent(r), e), Adds(r, s, e)
      PROVE  TimesIn(s.events) /\ LastEvent(s) = e
  BY <1>1, <1>2, AppendTimes DEF Adds, LeaseTimes, LastEvent
<1>3. ASSUME NEW w \in Workers, NEW l \in LeaseIds, Eligible(r, at),
             s = Leased(r, w, l, at)
      PROVE  LeaseTimes(s)
  <2> DEFINE e == NewEvent("leased", at, w, l)
  <2>1. e \in Event
    BY EventType DEF EventTypes
  <2>2. Adds(r, s, e) /\ s.lease.expiresAt = at + LeaseMs[w]
    BY <1>3 DEF Leased, NewLease, Adds, Record
  <2>3. InLeaseTime(LastEvent(r), e)
    BY <1>1, <1>3 DEF InLeaseTime, Eligible
  <2>4. LeaseEnd(e) = at + LeaseMs[w]
    BY DEF LeaseEnd, NewEvent
  <2> HIDE DEF e
  <2>5. TimesIn(s.events) /\ LastEvent(s) = e
    BY <1>2, <2>1, <2>2, <2>3
  <2> QED BY <2>2, <2>4, <2>5 DEF LeaseTimes, EndKnown
<1>4. CASE HasExpired(r, at) /\ s = Recovered(t, r, at)
  <2> DEFINE e == NewEvent("recovered", at, r.lease.worker, r.lease.id)
             f == NewEvent("failed", at, None, None)
  <2>1. e \in Event /\ f \in Event
    BY <1>4, LeasedFacts, EventType DEF EventTypes, Terminal, HasExpired
  <2>2. InLeaseTime(LastEvent(r), e)
    BY <1>4 DEF InLeaseTime, NewEvent, HasExpired, LeaseTimes, EndKnown
  <2>3. InLeaseTime(e, f)
    BY DEF InLeaseTime, PhaseAfter, NewEvent
  <2>4. s.phase # "leased" /\ (Adds(r, s, e) \/ AddsBoth(r, s, e, f))
    BY <1>4 DEF Recovered, Adds, AddsBoth, Record
  <2> HIDE DEF e, f
  <2>5. CASE Adds(r, s, e)
    BY <1>2, <2>1, <2>2, <2>4, <2>5 DEF LeaseTimes, EndKnown
  <2>6. CASE AddsBoth(r, s, e, f)
    <3> DEFINE es == Append(r.events, e)
    <3>1. /\ TimesIn(es) /\ es \in Seq(Event) /\ Len(es) > 0
          /\ es[Len(es)] = e
      BY <1>1, <2>1, <2>2, AppendTimes DEF LeaseTimes
    <3> HIDE DEF es
    <3>2. TimesIn(Append(es, f))
      BY <2>1, <2>3, <3>1, AppendTimes
    <3> QED BY <2>4, <2>6, <3>2 DEF LeaseTimes, EndKnown, AddsBoth, es
  <2> QED BY <2>4, <2>5, <2>6
<1>5. ASSUME InTime(r, at), NEW type \in {"heartbeat", "succeeded",
                                         "retry-scheduled", "failed"}
      PROVE  LET e == NewEvent(type, at, r.lease.worker, r.lease.id)
             IN  e \in Event /\ InLeaseTime(LastEvent(r), e)
  <2> DEFINE e == NewEvent(type, at, r.lease.worker, r.lease.id)
  <2>1. e \in Event
    BY <1>5, LeasedFacts, EventType DEF EventTypes, Terminal, InTime
  <2>2. at < LeaseEnd(LastEvent(r))
    <3>1. r.lease.expiresAt > at /\ r.lease.expiresAt = LeaseEnd(LastEvent(r))
      BY <1>5 DEF InTime, LeaseTimes, EndKnown
    <3>2. r.lease.expiresAt \in Nat
      BY <1>5, LeaseKnown DEF InTime, Lease
    <3> QED BY <3>1, <3>2
  <2>3. InLeaseTime(LastEvent(r), e)
    BY <2>2 DEF InLeaseTime, NewEvent
  <2> QED BY <2>1, <2>3
<1>6. CASE InTime(r, at) /\ s = Heartbeated(r, at)
  <2> DEFINE e == NewEvent("heartbeat", at, r.lease.worker, r.lease.id)
  <2>1. e \in Event /\ InLeaseTime(LastEvent(r), e)
    BY <1>5, <1>6
  <2>2. /\ Adds(r, s, e)
        /\ s.lease.expiresAt = at + LeaseMs[r.lease.worker]
    <3>1. r.lease \in Lease
      BY <1>6, LeaseKnown DEF InTime
    <3> QED BY <1>6, <3>1 DEF Heartbeated, Adds, Record, Lease
  <2>3. LeaseEnd(e) = at + LeaseMs[r.lease.worker]
    BY DEF LeaseEnd, NewEvent
  <2> HIDE DEF e
  <2>4. TimesIn(s.events) /\ LastEvent(s) = e
    BY <1>2, <2>1, <2>2
  <2> QED BY <2>2, <2>3, <2>4 DEF LeaseTimes, EndKnown
<1>7. CASE InTime(r, at) /\ s = Succeeded(r, BaseCommit[t], at)
  <2>1. /\ s.phase # "leased"
        /\ Adds(r, s, NewEvent("succeeded", at, r.lease.worker, r.lease.id))
    BY <1>7 DEF Succeeded, Adds, Record
  <2> QED BY <1>2, <1>5, <1>7, <2>1 DEF LeaseTimes, EndKnown
<1>8. ASSUME NEW kind \in FailureKinds, InTime(r, at), s = Failed(t, r, kind, at)
      PROVE  LeaseTimes(s)
  <2>1. /\ s.phase # "leased"
        /\ \E type \in {"retry-scheduled", "failed"} :
             Adds(r, s, NewEvent(type, at, r.lease.worker, r.lease.id))
    BY <1>8 DEF Failed, Adds, Record
  <2> QED BY <1>2, <1>5, <1>8, <2>1 DEF LeaseTimes, EndKnown
<1>9. CASE s = Cancelled(r, at)
  <2> DEFINE e == NewEvent("cancelled", at, None, None)
  <2>1. e \in Event /\ InLeaseTime(LastEvent(r), e)
    BY EventType DEF EventTypes, Terminal, InLeaseTime, NewEvent
  <2>2. s.phase # "leased" /\ Adds(r, s, e)
    BY <1>9 DEF Cancelled, Adds, Record
  <2> QED BY <1>2, <2>1, <2>2 DEF LeaseTimes, EndKnown
<1> QED BY <1>3, <1>4, <1>6, <1>7, <1>8, <1>9 DEF Change

-----------------------------------------------------------------------------
(* What the guards of later calls rest on: a task started no later than    *)
(* its last event, a leased one was recovered less often than it was       *)
(* leased, and a retry waits for the delay of the worker that failed.      *)

Standing(r) ==
  /\ r.startedAt # None => r.startedAt <= LastEvent(r).at
  /\ r.phase = "leased" => r.recoveryCount < r.attempts
  /\ LastEvent(r).type = "retry-scheduled" => r.nextAttemptAt = ReadyFrom(LastEvent(r))

LEMMA AppendIs ==
  ASSUME NEW es \in Seq(Event), NEW e \in Event, NEW fs, fs = Append(es, e)
  PROVE  /\ Len(es) \in Nat /\ fs \in Seq(Event) /\ Len(fs) = Len(es) + 1
         /\ DOMAIN es = 1 .. Len(es) /\ DOMAIN fs = 1 .. Len(es) + 1
         /\ \A i \in 1 .. Len(es) : fs[i] = es[i]
         /\ fs[Len(es) + 1] = e
BY AppendProperties, LenProperties

(* The event a validated change adds is not earlier than the last one. *)
LEMMA LaterEvent ==
  ASSUME NEW t \in Tasks, NEW r \in Record, ValidRecord(t, r), NEW s \in Record,
         LegalHistory(s)
  PROVE  /\ LastEvent(r) \in Event
         /\ \A e \in Event : Adds(r, s, e) => /\ LastEvent(s) = e
                                              /\ LastEvent(r).at <= e.at
         /\ \A e, f \in Event : AddsBoth(r, s, e, f) => /\ LastEvent(s) = f
                                                        /\ LastEvent(r).at <= e.at
<1> DEFINE es == r.events
           n == Len(es)
<1>1. es \in Seq(Event) /\ n \in Nat /\ n > 0 /\ s.events \in Seq(Event)
  BY LenProperties DEF Record, ValidRecord, LegalHistory
<1>2. n \in 1 .. n /\ LastEvent(r) = es[n]
  BY <1>1 DEF LastEvent
<1>3. es[n] \in Event
  BY <1>1, <1>2, ElementOfSeq
<1>4. \A i \in 1 .. Len(s.events) - 1 : s.events[i + 1].at >= s.events[i].at
  BY DEF LegalHistory, LegalNext
<1> HIDE DEF es, n
<1>5. ASSUME NEW e \in Event, Adds(r, s, e)
      PROVE  LastEvent(s) = e /\ LastEvent(r).at <= e.at
  <2>1. s.events = Append(es, e)
    BY <1>5 DEF Adds, es
  <2>2. /\ Len(s.events) = n + 1 /\ s.events[n + 1] = e /\ s.events[n] = es[n]
    BY <1>1, <1>2, <2>1, AppendIs DEF n
  <2>3. e.at >= es[n].at
    BY <1>1, <1>2, <1>4, <2>2
  <2> QED BY <1>2, <1>3, <2>2, <2>3 DEF LastEvent, Event
<1>6. ASSUME NEW e \in Event, NEW f \in Event, AddsBoth(r, s, e, f)
      PROVE  LastEvent(s) = f /\ LastEvent(r).at <= e.at
  <2> DEFINE ms == Append(es, e)
  <2>1. s.events = Append(ms, f)
    BY <1>6 DEF AddsBoth, es
  <2>2. ms \in Seq(Event) /\ Len(ms) = n + 1 /\ ms[n + 1] = e /\ ms[n] = es[n]
    BY <1>1, <1>2, AppendIs DEF n
  <2> HIDE DEF ms
  <2>3. /\ Len(s.events) = n + 2 /\ s.events[n + 2] = f
        /\ s.events[n + 1] = e /\ s.events[n] = es[n]
    <3>1. /\ Len(s.events) = Len(ms) + 1 /\ s.events[Len(ms) + 1] = f
          /\ \A i \in 1 .. Len(ms) : s.events[i] = ms[i]
      BY <2>1, <2>2, AppendIs
    <3>2. n \in 1 .. Len(ms) /\ n + 1 \in 1 .. Len(ms)
      BY <1>1, <2>2
    <3> QED BY <1>1, <2>2, <3>1, <3>2
  <2>4. e.at >= es[n].at
    BY <1>1, <1>2, <1>4, <2>3
  <2> QED BY <1>2, <1>3, <2>3, <2>4 DEF LastEvent, Event
<1> QED BY <1>2, <1>3, <1>5, <1>6

LEMMA ChangeStanding ==
  ASSUME NEW t \in Tasks, NEW r \in Record, ValidRecord(t, r), Standing(r),
         NEW at \in Nat, NEW s \in Record, Change(t, r, s, at), LegalHistory(s)
  PROVE  Standing(s)
<1>1. /\ LastEvent(r) \in Event /\ LastEvent(r).at \in Nat
      /\ r.startedAt \in Nat \cup {None} /\ r.attempts \in Nat /\ r.recoveryCount \in Nat
      /\ r.recoveryCount <= r.attempts
      /\ r.startedAt # None => r.startedAt <= LastEvent(r).at
  <2>1. LastEvent(r) \in Event
    BY LaterEvent
  <2> QED BY <2>1 DEF Record, Event, ValidRecord, Standing
<1>2. ASSUME NEW e \in Event, e.at = at,
             Adds(r, s, e) \/ \E m \in Event : m.at = at /\ AddsBoth(r, s, m, e)
      PROVE  /\ LastEvent(s) = e
             /\ s.startedAt = r.startedAt \/ s.startedAt = at =>
                  (s.startedAt # None => s.startedAt <= LastEvent(s).at)
  BY <1>1, <1>2, LaterEvent
<1>3. ASSUME NEW w \in Workers, NEW l \in LeaseIds, s = Leased(r, w, l, at)
      PROVE  Standing(s)
  <2> DEFINE e == NewEvent("leased", at, w, l)
  <2>1. e \in Event /\ e.at = at /\ e.type = "leased"
    BY EventType DEF EventTypes, NewEvent
  <2>2. /\ Adds(r, s, e) /\ s.attempts = r.attempts + 1 /\ s.recoveryCount = r.recoveryCount
        /\ s.startedAt = r.startedAt \/ s.startedAt = at
    BY <1>3 DEF Leased, Adds, Record
  <2> HIDE DEF e
  <2> QED BY <1>1, <1>2, <2>1, <2>2 DEF Standing
<1>4. ASSUME r.phase = "leased", NEW type \in EventTypes
      PROVE  LET e == NewEvent(type, at, r.lease.worker, r.lease.id)
             IN  e \in Event /\ e.at = at /\ e.type = type /\ e.worker = r.lease.worker
  BY <1>4, LeasedFacts, EventType DEF NewEvent
<1>5. CASE r.phase = "leased" /\ s = Recovered(t, r, at)
  <2> DEFINE e == NewEvent("recovered", at, r.lease.worker, r.lease.id)
             f == NewEvent("failed", at, None, None)
  <2>1. e \in Event /\ e.at = at /\ e.type = "recovered"
    BY <1>4, <1>5 DEF EventTypes
  <2>2. f \in Event /\ f.at = at /\ f.type = "failed"
    BY EventType DEF EventTypes, Terminal, NewEvent
  <2>3. /\ s.phase # "leased" /\ s.startedAt = r.startedAt
        /\ Adds(r, s, e) \/ AddsBoth(r, s, e, f)
    BY <1>5 DEF Recovered, Adds, AddsBoth, Record
  <2> HIDE DEF e, f
  <2> QED BY <1>2, <2>1, <2>2, <2>3 DEF Standing
<1>6. CASE r.phase = "leased" /\ s = Heartbeated(r, at)
  <2> DEFINE e == NewEvent("heartbeat", at, r.lease.worker, r.lease.id)
  <2>1. e \in Event /\ e.at = at /\ e.type = "heartbeat"
    BY <1>4, <1>6 DEF EventTypes
  <2>2. /\ Adds(r, s, e) /\ s.attempts = r.attempts /\ s.recoveryCount = r.recoveryCount
        /\ s.startedAt = r.startedAt
    BY <1>6 DEF Heartbeated, Adds, Record
  <2>3. r.recoveryCount < r.attempts
    BY <1>6 DEF Standing
  <2> HIDE DEF e
  <2> QED BY <1>2, <2>1, <2>2, <2>3 DEF Standing
<1>7. CASE r.phase = "leased" /\ s = Succeeded(r, BaseCommit[t], at)
  <2> DEFINE e == NewEvent("succeeded", at, r.lease.worker, r.lease.id)
  <2>1. e \in Event /\ e.at = at /\ e.type = "succeeded"
    BY <1>4, <1>7 DEF EventTypes, Terminal
  <2>2. Adds(r, s, e) /\ s.phase # "leased" /\ s.startedAt = r.startedAt
    BY <1>7 DEF Succeeded, Adds, Record
  <2> HIDE DEF e
  <2> QED BY <1>2, <2>1, <2>2 DEF Standing
<1>8. ASSUME NEW kind \in FailureKinds, r.phase = "leased", s = Failed(t, r, kind, at)
      PROVE  Standing(s)
  <2> DEFINE type == IF Retries(t, r, kind) THEN "retry-scheduled" ELSE "failed"
             e == NewEvent(type, at, r.lease.worker, r.lease.id)
  <2>1. e \in Event /\ e.at = at /\ e.type = type /\ e.worker = r.lease.worker
    BY <1>4, <1>8 DEF EventTypes, Terminal
  <2>2. /\ Adds(r, s, e) /\ s.phase # "leased" /\ s.startedAt = r.startedAt
        /\ type = "retry-scheduled" => s.nextAttemptAt = at + RetryDelay[r.lease.worker]
    BY <1>8 DEF Failed, RetryAt, Adds, Record
  <2> HIDE DEF e, type
  <2>3. LastEvent(s) = e /\ (s.startedAt # None => s.startedAt <= LastEvent(s).at)
    BY <1>2, <2>1, <2>2
  <2> QED BY <2>1, <2>2, <2>3 DEF Standing, ReadyFrom
<1>9. CASE s = Cancelled(r, at)
  <2> DEFINE e == NewEvent("cancelled", at, None, None)
  <2>1. e \in Event /\ e.at = at /\ e.type = "cancelled"
    BY EventType DEF EventTypes, Terminal, NewEvent
  <2>2. /\ Adds(r, s, e) /\ s.phase # "leased"
        /\ s.startedAt = r.startedAt \/ s.startedAt = at
    BY <1>9 DEF Cancelled, Adds, Record
  <2> HIDE DEF e
  <2> QED BY <1>2, <2>1, <2>2 DEF Standing
<1> QED BY <1>3, <1>5, <1>6, <1>7, <1>8, <1>9 DEF Change, HasExpired, InTime

-----------------------------------------------------------------------------
(* The inductive invariant: every file is a valid record that honoured the *)
(* attempt budget and the lease times, and stands for the calls to come.   *)

Sound(t, r) == Writable(t, r) /\ BudgetSpent(t, r) /\ LeaseTimes(r) /\ Standing(r)

QueueInv == TypeOK /\ \A t \in Enqueued : Sound(t, record[t])

LEMMA FreshSound ==
  ASSUME NEW t \in Tasks, NEW at \in Nat, Writable(t, FreshRecord(at))
  PROVE  Sound(t, FreshRecord(at))
<1>1. BudgetSpent(t, FreshRecord(at))
  BY BudgetAssumption DEF FreshRecord, BudgetSpent
<1>2. LeaseTimes(FreshRecord(at))
  BY DEF FreshRecord, LeaseTimes, EndKnown, TimesIn
<1>3. Standing(FreshRecord(at))
  BY DEF FreshRecord, Standing, LastEvent, NewEvent
<1> QED BY <1>1, <1>2, <1>3 DEF Sound

LEMMA RewriteSound ==
  ASSUME NEW t \in Tasks, NEW r \in Record, Sound(t, r), clock \in Nat,
         NEW s, Rewrite(t, r, s)
  PROVE  s \in Record /\ Sound(t, s)
BY ChangeType, ChangeBudget, ChangeLeaseTimes, ChangeStanding
   DEF Rewrite, Sound, Writable, ValidRecord

LEMMA QueueInvInit == Init => QueueInv
BY TypeInit DEF Init, QueueInv, Enqueued

LEMMA QueueInvStep == QueueInv /\ [Next]_vars => QueueInv'
<1> SUFFICES ASSUME QueueInv, [Next]_vars PROVE QueueInv'
  OBVIOUS
<1>1. TypeOK /\ DiskValid /\ clock \in Nat
  BY ClockType DEF QueueInv, DiskValid, Sound
<1>2. TypeOK'
  BY <1>1, TypeStep
<1>3. ASSUME NEW t \in Tasks, record'[t] # None PROVE Sound(t, record'[t])
  <2>1. record[t] # None => record[t] \in Record /\ Sound(t, record[t])
    BY <1>1 DEF QueueInv, TypeOK, Enqueued
  <2>2. CASE record'[t] = record[t]
    BY <1>3, <2>1, <2>2
  <2>3. CASE record'[t] = FreshRecord(clock) /\ Writable(t, record'[t])
    BY <1>1, <2>3, FreshSound
  <2>4. CASE record[t] # None /\ Rewrite(t, record[t], record'[t])
    BY <1>1, <2>1, <2>4, RewriteSound
  <2>5. CASE /\ record[t] # None
             /\ \E m : Rewrite(t, record[t], m) /\ Rewrite(t, m, record'[t])
    BY <1>1, <2>1, <2>5, RewriteSound
  <2>6. CASE UNCHANGED vars
    BY <2>2, <2>6 DEF vars
  <2> QED BY <1>1, <2>2, <2>3, <2>4, <2>5, <2>6, StepShape DEF StepOf
<1> QED BY <1>2, <1>3 DEF QueueInv, Enqueued

LEMMA QueueInvHolds == Spec => []QueueInv
BY QueueInvInit, QueueInvStep, PTL DEF Spec

(* A task is given up for a transient reason only when all its attempts    *)
(* are spent, in fail and in claim's recovery, and none is requeued then.  *)
THEOREM BudgetTheorem == Spec => []BudgetSpentBeforeGivingUp
<1>1. QueueInv => BudgetSpentBeforeGivingUp
  BY DEF QueueInv, Sound, BudgetSpentBeforeGivingUp
<1> QED BY <1>1, QueueInvHolds, PTL

(* In every history the holder acts before its lease ends and recovery     *)
(* comes after, even when the clock is set back between the two.           *)
THEOREM LeaseTimesTheorem == Spec => []LeaseTimesHonoured
<1>1. QueueInv => LeaseTimesHonoured
  BY DEF QueueInv, Sound, LeaseTimesHonoured, LeaseTimes, TimesIn
<1> QED BY <1>1, QueueInvHolds, PTL
-----------------------------------------------------------------------------
(* Only a lease counts as an attempt, and a claim leases after recovery.   *)

LEMMA RecoveryKeepsAttempts ==
  ASSUME TypeOK, NEW S, NEW t \in Enqueued
  PROVE  AfterRecovery(S)[t].attempts = record[t].attempts
<1>1. t \in Tasks /\ record[t] \in Record
  BY DEF TypeOK, Enqueued
<1>2. Recovered(t, record[t], clock).attempts = record[t].attempts
  BY <1>1 DEF Recovered, Record
<1> QED BY <1>1, <1>2 DEF AfterRecovery

LEMMA WriteKeepsAttempts ==
  ASSUME TypeOK, NEW u \in Tasks, NEW s, Write(u, s), u \in Enqueued,
         s.attempts = record[u].attempts
  PROVE  \A t \in Enqueued : record'[t].attempts = record[t].attempts
<1>1. DOMAIN record = Tasks /\ Enqueued \subseteq Tasks
  BY DEF TypeOK, Enqueued
<1> QED BY <1>1 DEF Write

LEMMA RecoveredNotExpired ==
  ASSUME TypeOK, NEW t \in Enqueued PROVE ~HasExpired(AfterRecovery(Due)[t], clock)
<1>1. t \in Tasks /\ record[t] \in Record
  BY DEF TypeOK, Enqueued
<1>2. Recovered(t, record[t], clock).phase # "leased"
  BY <1>1 DEF Recovered, Record
<1> QED BY <1>1, <1>2 DEF AfterRecovery, Due, HasExpired

LEMMA ClaimAfterRecovery ==
  ASSUME TypeOK, DiskValid, NEW w \in Workers, ClaimLeases(w)
  PROVE  \/ \A t \in Enqueued : record'[t].attempts = record[t].attempts
         \/ \A t \in Enqueued : ~HasExpired(record'[t], clock)
<1> DEFINE after == AfterRecovery(Due)
<1>1. PICK u \in Enqueued, l \in LeaseIds :
        \/ record' = after
        \/ record' = [after EXCEPT ![u] = Leased(after[u], w, l, clock)]
  BY DEF ClaimLeases
<1>2. CASE record' = after
  BY <1>2, RecoveryKeepsAttempts
<1>3. CASE record' = [after EXCEPT ![u] = Leased(after[u], w, l, clock)]
  <2>1. DOMAIN after = Tasks /\ Enqueued \subseteq Tasks /\ clock \in Nat
    BY ClockType DEF AfterRecovery, Enqueued
  <2>2. after[u] \in Record
    <3>1. CASE u \in Due
      <4>1. record[u] \in Record /\ ValidRecord(u, record[u]) /\ record[u].phase = "leased"
        BY <3>1, <2>1 DEF TypeOK, DiskValid, Writable, Due, HasExpired, Enqueued
      <4> QED BY <2>1, <3>1, <4>1, LeaseKnown, RecoveredType DEF AfterRecovery
    <3>2. CASE u \notin Due
      BY <2>1, <3>2 DEF AfterRecovery, TypeOK, Enqueued
    <3> QED BY <3>1, <3>2
  <2>3. Leased(after[u], w, l, clock).lease.expiresAt = clock + LeaseMs[w]
    <3> HIDE DEF after
    <3> QED BY <2>2 DEF Leased, NewLease, Record
  <2>4. LeaseMs[w] \in Nat \ {0}
    BY TimingAssumption
  <2>5. ~HasExpired(record'[u], clock)
    BY <1>3, <2>1, <2>3, <2>4 DEF HasExpired
  <2>6. \A t \in Enqueued \ {u} : record'[t] = after[t]
    BY <1>3, <2>1
  <2> QED BY <2>5, <2>6, RecoveredNotExpired
<1> QED BY <1>1, <1>2, <1>3

LEMMA OnlyClaimsLease ==
  ASSUME TypeOK, Next
  PROVE  \/ \A t \in Enqueued : record'[t].attempts = record[t].attempts
         \/ \E w \in Workers : ClaimLeases(w)
<1> DEFINE Same == \A t \in Enqueued : record'[t].attempts = record[t].attempts
<1>1. CASE ClaimThrows \/ ClaimIdle \/ CrashInClaim
  <2>1. \E S : record' = AfterRecovery(S)
    BY <1>1 DEF ClaimThrows, ClaimIdle, CrashInClaim
  <2> QED BY <2>1, RecoveryKeepsAttempts
<1>2. ASSUME NEW u \in Tasks, Enqueue(u) PROVE Same
  BY <1>2 DEF Enqueue, Write, TypeOK, Enqueued
<1>3. ASSUME NEW u \in Tasks,
             \/ Cancel(u)
             \/ \E w \in Workers, l \in LeaseIds :
                  \/ Heartbeat(u, w, l)
                  \/ \E result \in Commits : Succeed(u, w, l, result)
                  \/ \E kind \in FailureKinds : Fail(u, w, l, kind)
      PROVE  Same
  <2>1. PICK s : /\ Write(u, s) /\ u \in Enqueued
                 /\ \/ s = Cancelled(record[u], clock) \/ s = Heartbeated(record[u], clock)
                    \/ \E result \in Commits : s = Succeeded(record[u], result, clock)
                    \/ \E kind \in FailureKinds : s = Failed(u, record[u], kind, clock)
    BY <1>3 DEF Cancel, Heartbeat, Succeed, Fail
  <2>2. record[u] \in Record
    BY <2>1 DEF TypeOK, Enqueued
  <2>3. s.attempts = record[u].attempts
    BY <2>1, <2>2 DEF Cancelled, Heartbeated, Succeeded, Failed, Record
  <2> QED BY <2>1, <2>3, WriteKeepsAttempts
<1>4. CASE Tick \/ StepBack
  BY <1>4 DEF Tick, StepBack
<1> QED BY <1>1, <1>2, <1>3, <1>4 DEF Next

(* A claim that hands out work leaves no expired lease behind.             *)
THEOREM LeaseAfterRecoveryTheorem == Spec => LeaseOnlyAfterRecovery
<1> DEFINE A == (\E t \in Enqueued : record'[t].attempts > record[t].attempts) =>
                  \A u \in Enqueued : ~HasExpired(record'[u], clock)
           Same == \A t \in Enqueued : record'[t].attempts = record[t].attempts
<1>1. ASSUME TypeOK, Same PROVE A
  <2>1. \A t \in Enqueued : record[t].attempts \in Nat
    BY <1>1 DEF TypeOK, Enqueued, Record
  <2> QED BY <1>1, <2>1
<1>2. ASSUME TypeOK, DiskValid, Next PROVE A
  <2>1. CASE Same
    BY <1>1, <1>2, <2>1
  <2>2. ASSUME NEW w \in Workers, ClaimLeases(w) PROVE A
    BY <1>1, <1>2, <2>2, ClaimAfterRecovery
  <2> QED BY <1>2, <2>1, <2>2, OnlyClaimsLease
<1>3. TypeOK /\ DiskValid /\ [Next]_vars => [A]_vars
  BY <1>2
<1> QED BY <1>3, TypeInit, TypeStep, PTL DEF Spec, LeaseOnlyAfterRecovery

-----------------------------------------------------------------------------
(* The validator and the calls.  What the validator counts in a history is *)
(* followed through one more event.                                        *)

Of(es, type) == {i \in DOMAIN es : es[i].type = type}

FirstAt(es, type, at) == \E i \in Of(es, type) : /\ \A j \in Of(es, type) : i <= j
                                                 /\ at = es[i].at
LatestAt(es, type, at) == \E i \in Of(es, type) : /\ \A j \in Of(es, type) : j <= i
                                                  /\ at = es[i].at

Legal(es) == /\ Len(es) > 0
             /\ es[1].type = "enqueued"
             /\ \A i \in 1 .. Len(es) - 1 : LegalNext(es[i], es[i + 1])

(* The attempts, the recoveries and the start that a history amounts to.   *)
Sums(es, attempts, recoveries, started) ==
  /\ attempts = Cardinality(Of(es, "leased"))
  /\ recoveries = Cardinality(Of(es, "recovered"))
  /\ IF Of(es, "leased") # {} THEN FirstAt(es, "leased", started) ELSE started = None

LEMMA LegalAppend ==
  ASSUME NEW es \in Seq(Event), NEW e \in Event, NEW fs, fs = Append(es, e),
         Legal(es), LegalNext(es[Len(es)], e)
  PROVE  Legal(fs)
<1>1. /\ Len(es) \in Nat /\ Len(es) > 0 /\ Len(fs) = Len(es) + 1
      /\ \A i \in 1 .. Len(es) : fs[i] = es[i]
      /\ fs[Len(es) + 1] = e
  BY AppendIs DEF Legal
<1>2. ASSUME NEW i \in 1 .. Len(fs) - 1 PROVE LegalNext(fs[i], fs[i + 1])
  <2>1. CASE i = Len(es)
    BY <1>1, <2>1
  <2>2. CASE i < Len(es)
    <3>1. i \in 1 .. Len(es) - 1 /\ fs[i] = es[i] /\ fs[i + 1] = es[i + 1]
      BY <1>1, <2>2
    <3> QED BY <3>1 DEF Legal
  <2> QED BY <1>1, <2>1, <2>2
<1> QED BY <1>1, <1>2 DEF Legal

(* How one more event counts. *)
Counts(es, fs, e, type) ==
  /\ Of(fs, type) = IF e.type = type THEN Of(es, type) \cup {Len(es) + 1}
                                     ELSE Of(es, type)
  /\ Cardinality(Of(es, type)) \in Nat
  /\ Cardinality(Of(fs, type)) = IF e.type = type THEN Cardinality(Of(es, type)) + 1
                                                  ELSE Cardinality(Of(es, type))

LEMMA OfAppend ==
  \A es \in Seq(Event), e \in Event, type \in EventTypes : Counts(es, Append(es, e), e, type)
<1> SUFFICES ASSUME NEW es \in Seq(Event), NEW e \in Event, NEW type \in EventTypes,
                    NEW fs, fs = Append(es, e)
             PROVE  Counts(es, fs, e, type)
  OBVIOUS
<1>1. /\ Len(es) \in Nat
      /\ DOMAIN es = 1 .. Len(es) /\ DOMAIN fs = 1 .. Len(es) + 1
      /\ \A i \in 1 .. Len(es) : fs[i] = es[i]
      /\ fs[Len(es) + 1] = e
  BY AppendIs
<1>2. Of(fs, type) = IF e.type = type THEN Of(es, type) \cup {Len(es) + 1} ELSE Of(es, type)
  BY <1>1 DEF Of
<1>3. IsFiniteSet(Of(es, type)) /\ Len(es) + 1 \notin Of(es, type)
  <2>1. Of(es, type) \subseteq 1 .. Len(es)
    BY <1>1 DEF Of
  <2>2. IsFiniteSet(1 .. Len(es))
    BY <1>1, FS_Interval
  <2>3. Len(es) + 1 \notin 1 .. Len(es)
    BY <1>1
  <2> QED BY <2>1, <2>2, <2>3, FS_Subset
<1>4. Cardinality(Of(es, type)) \in Nat
  BY <1>3, FS_CardinalityType
<1>5. Cardinality(Of(es, type) \cup {Len(es) + 1}) = Cardinality(Of(es, type)) + 1
  BY <1>3, FS_AddElement
<1> QED BY <1>2, <1>4, <1>5 DEF Counts

(* An event other than a lease changes neither the attempts nor the times  *)
(* of the first and the latest lease.                                      *)
LEMMA SumsOther ==
  ASSUME NEW es \in Seq(Event), NEW e \in Event, NEW fs, fs = Append(es, e), e.type # "leased",
         NEW a, NEW c, NEW s
  PROVE  /\ Sums(es, a, c, s) => Sums(fs, a, IF e.type = "recovered" THEN c + 1 ELSE c, s)
         /\ \A at : LatestAt(es, "leased", at) => LatestAt(fs, "leased", at)
<1>p. Counts(es, fs, e, "leased") /\ Counts(es, fs, e, "recovered")
  BY OfAppend DEF EventTypes
<1>1. /\ DOMAIN es = 1 .. Len(es)
      /\ \A i \in 1 .. Len(es) : fs[i] = es[i]
  BY AppendIs
<1>2. Of(fs, "leased") = Of(es, "leased")
  BY <1>p DEF Counts
<1>3. \A i \in Of(es, "leased") : fs[i] = es[i]
  BY <1>1 DEF Of
<1>4. \A at : /\ FirstAt(es, "leased", at) => FirstAt(fs, "leased", at)
              /\ LatestAt(es, "leased", at) => LatestAt(fs, "leased", at)
  BY <1>2, <1>3 DEF FirstAt, LatestAt
<1>5. Cardinality(Of(fs, "recovered")) = IF e.type = "recovered"
                                            THEN Cardinality(Of(es, "recovered")) + 1
                                            ELSE Cardinality(Of(es, "recovered"))
  BY <1>p DEF Counts
<1> QED BY <1>2, <1>4, <1>5 DEF Sums

LEMMA SumsLeased ==
  ASSUME NEW es \in Seq(Event), NEW e \in Event, NEW fs, fs = Append(es, e), e.type = "leased",
         NEW a, NEW c, NEW s, Sums(es, a, c, s)
  PROVE  /\ Sums(fs, a + 1, c, IF s = None THEN e.at ELSE s)
         /\ LatestAt(fs, "leased", e.at)
<1>p. Counts(es, fs, e, "leased") /\ Counts(es, fs, e, "recovered")
  BY OfAppend DEF EventTypes
<1>1. /\ Len(es) \in Nat /\ DOMAIN es = 1 .. Len(es)
      /\ \A i \in 1 .. Len(es) : fs[i] = es[i]
      /\ fs[Len(es) + 1] = e
  BY AppendIs
<1>2. Of(fs, "leased") = Of(es, "leased") \cup {Len(es) + 1}
  BY <1>p DEF Counts
<1>3. \A i \in Of(es, "leased") : i \in Nat /\ i < Len(es) + 1 /\ fs[i] = es[i]
  BY <1>1 DEF Of
<1>4. LatestAt(fs, "leased", e.at)
  <2>1. \A j \in Of(fs, "leased") : j <= Len(es) + 1
    BY <1>1, <1>2, <1>3
  <2> QED BY <1>1, <1>2, <2>1 DEF LatestAt
<1>5. /\ Cardinality(Of(fs, "leased")) = a + 1
      /\ Cardinality(Of(fs, "recovered")) = c
  BY <1>p DEF Counts, Sums
<1>6. FirstAt(fs, "leased", IF s = None THEN e.at ELSE s)
  <2>1. CASE Of(es, "leased") = {}
    <3>1. s = None
      BY <2>1 DEF Sums
    <3>2. Of(fs, "leased") = {Len(es) + 1} /\ Len(es) + 1 <= Len(es) + 1
      BY <1>1, <1>2, <2>1
    <3> QED BY <1>1, <3>1, <3>2 DEF FirstAt
  <2>2. CASE Of(es, "leased") # {}
    <3>1. PICK i \in Of(es, "leased") : /\ \A j \in Of(es, "leased") : i <= j
                                        /\ s = es[i].at
      BY <2>2 DEF Sums, FirstAt
    <3>2. i \in 1 .. Len(es) /\ s # None
      <4>1. i \in 1 .. Len(es)
        BY <1>1 DEF Of
      <4>2. es[i] \in Event
        BY <4>1, <1>1, ElementOfSeq
      <4>3. s \in Nat
        BY <3>1, <4>2 DEF Event
      <4> QED BY <4>1, <4>3, NoneAssumption
    <3>3. \A j \in Of(fs, "leased") : i <= j
      BY <1>1, <1>2, <1>3, <3>1
    <3> QED BY <1>2, <1>3, <3>1, <3>2, <3>3 DEF FirstAt
  <2> QED BY <2>1, <2>2
<1> QED BY <1>2, <1>4, <1>5, <1>6 DEF Sums

(* The summary of a record that is not cancelled. *)
LEMMA SummaryIs ==
  ASSUME NEW s, s.phase # "cancelled"
  PROVE  SummaryAgrees(s) <=>
           /\ s.phase = PhaseAfter(LastEvent(s))
           /\ Sums(s.events, s.attempts, s.recoveryCount, s.startedAt)
           /\ s.phase = "leased" =>
                /\ s.lease # None
                /\ s.lease.id = LastEvent(s).lease
                /\ s.lease.worker = LastEvent(s).worker
                /\ s.lease.heartbeatAt = LastEvent(s).at
                /\ LatestAt(s.events, "leased", s.lease.acquiredAt)
           /\ s.phase = "queued" /\ LastEvent(s).type = "retry-scheduled" =>
                s.nextAttemptAt # None
           /\ s.phase = "queued" /\ LastEvent(s).type = "recovered" =>
                s.nextAttemptAt = LastEvent(s).at
           /\ s.phase \in Terminal => s.finishedAt = LastEvent(s).at
BY DEF SummaryAgrees, Sums, EventsOf, Of, FirstAt, LatestAt

-----------------------------------------------------------------------------
(* A record a call may add an event to: the clock is not behind it.         *)

Fit(t, r, at) == /\ r \in Record /\ ValidRecord(t, r) /\ BudgetSpent(t, r) /\ Standing(r)
                 /\ r.phase \notin Terminal
                 /\ LastEvent(r).at <= at

LEMMA FitFacts ==
  ASSUME NEW t \in Tasks, NEW r, NEW at \in Nat, Fit(t, r, at)
  PROVE  /\ r.events \in Seq(Event) /\ LastEvent(r) = r.events[Len(r.events)]
         /\ LastEvent(r) \in Event /\ r.phase = PhaseAfter(LastEvent(r))
         /\ Legal(r.events) /\ Sums(r.events, r.attempts, r.recoveryCount, r.startedAt)
         /\ r.attempts \in Nat /\ r.recoveryCount \in Nat
         /\ r.recoveryCount <= r.attempts /\ r.attempts <= MaxAttempts[t]
         /\ MaxAttempts[t] \in Nat /\ r.startedAt \in Nat \cup {None}
<1>1. /\ r.events \in Seq(Event) /\ r.attempts \in Nat /\ r.recoveryCount \in Nat
      /\ r.startedAt \in Nat \cup {None} /\ MaxAttempts[t] \in Nat
  BY BudgetAssumption DEF Fit, Record
<1>2. Legal(r.events) /\ LastEvent(r) = r.events[Len(r.events)]
  BY DEF Fit, ValidRecord, LegalHistory, Legal, LastEvent
<1>3. Len(r.events) \in 1 .. Len(r.events)
  BY <1>1, <1>2, LenProperties DEF Legal
<1>4. LastEvent(r) \in Event
  BY <1>1, <1>2, <1>3, ElementOfSeq
<1>5. /\ r.phase = PhaseAfter(LastEvent(r))
      /\ Sums(r.events, r.attempts, r.recoveryCount, r.startedAt)
  BY SummaryIs DEF Fit, ValidRecord, Terminal
<1>6. r.recoveryCount <= r.attempts /\ r.attempts <= MaxAttempts[t]
  BY <1>1 DEF Fit, ValidRecord
<1> QED BY <1>1, <1>2, <1>4, <1>5, <1>6

(* One more event, as the validator reads it. *)
LEMMA OneMore ==
  ASSUME NEW t \in Tasks, NEW r, NEW at \in Nat, Fit(t, r, at),
         NEW e \in Event, LegalNext(LastEvent(r), e),
         NEW s, s.events = Append(r.events, e)
  PROVE  /\ s.events \in Seq(Event) /\ LastEvent(s) = e /\ LegalHistory(s) /\ Legal(s.events)
         /\ e.type # "leased" =>
              /\ Sums(s.events, r.attempts,
                      IF e.type = "recovered" THEN r.recoveryCount + 1 ELSE r.recoveryCount,
                      r.startedAt)
              /\ LatestAt(r.events, "leased", r.lease.acquiredAt) =>
                   LatestAt(s.events, "leased", r.lease.acquiredAt)
         /\ e.type = "leased" =>
              /\ Sums(s.events, r.attempts + 1, r.recoveryCount,
                      IF r.startedAt = None THEN e.at ELSE r.startedAt)
              /\ LatestAt(s.events, "leased", e.at)
<1> DEFINE es == r.events
           fs == s.events
<1>1. /\ es \in Seq(Event) /\ LastEvent(r) = es[Len(es)] /\ Legal(es)
      /\ Sums(es, r.attempts, r.recoveryCount, r.startedAt)
  BY FitFacts
<1>2. fs = Append(es, e)
  OBVIOUS
<1>3. LastEvent(s) = fs[Len(fs)] /\ (LegalHistory(s) <=> Legal(fs))
  BY DEF LastEvent, LegalHistory, Legal
<1> HIDE DEF es, fs
<1>4. fs \in Seq(Event) /\ fs[Len(fs)] = e
  BY <1>1, <1>2, AppendIs
<1>5. Legal(fs)
  BY <1>1, <1>2, LegalAppend
<1>6. e.type # "leased" =>
        /\ Sums(fs, r.attempts,
                IF e.type = "recovered" THEN r.recoveryCount + 1 ELSE r.recoveryCount,
                r.startedAt)
        /\ LatestAt(es, "leased", r.lease.acquiredAt) =>
             LatestAt(fs, "leased", r.lease.acquiredAt)
  BY <1>1, <1>2, SumsOther
<1>7. e.type = "leased" =>
        /\ Sums(fs, r.attempts + 1, r.recoveryCount,
                IF r.startedAt = None THEN e.at ELSE r.startedAt)
        /\ LatestAt(fs, "leased", e.at)
  BY <1>1, <1>2, SumsLeased
<1> QED BY <1>3, <1>4, <1>5, <1>6, <1>7 DEF es, fs

LEMMA GateLeased ==
  ASSUME NEW t \in Tasks, NEW r, NEW at \in Nat, Fit(t, r, at), Eligible(r, at),
         NEW w \in Workers, NEW l \in LeaseIds
  PROVE  ValidRecord(t, Leased(r, w, l, at))
<1> DEFINE s == Leased(r, w, l, at)
           e == NewEvent("leased", at, w, l)
<1>1. /\ s.phase = "leased" /\ s.attempts = r.attempts + 1
      /\ s.recoveryCount = r.recoveryCount /\ s.nextAttemptAt = None
      /\ s.result = r.result /\ s.finishedAt = r.finishedAt
      /\ s.startedAt = IF r.startedAt = None THEN at ELSE r.startedAt
      /\ s.lease = NewLease(w, l, at) /\ s.events = Append(r.events, e)
  BY DEF Leased, Fit, Record
<1>2. e \in Event /\ e.type = "leased" /\ e.at = at /\ e.worker = w /\ e.lease = l
  BY EventType DEF EventTypes, NewEvent
<1>3. s \in Record
  BY LeasedType DEF Fit
<1>4. /\ LastEvent(r) \in Event /\ r.phase = PhaseAfter(LastEvent(r)) /\ r.phase = "queued"
      /\ r.attempts \in Nat /\ r.recoveryCount \in Nat /\ r.recoveryCount <= r.attempts
      /\ MaxAttempts[t] \in Nat /\ r.startedAt \in Nat \cup {None}
      /\ LastEvent(r).at <= at
      /\ r.result = None /\ r.finishedAt = None /\ r.attempts < MaxAttempts[t]
  BY FitFacts DEF Fit, Eligible, ValidRecord, PhaseFieldsAgree, BudgetSpent
<1> HIDE DEF s, e
<1>5. LegalNext(LastEvent(r), e)
  BY <1>2, <1>4, NoneAssumption DEF LegalNext, Event
<1>6. /\ LastEvent(s) = e /\ LegalHistory(s)
      /\ Sums(s.events, s.attempts, s.recoveryCount, s.startedAt)
      /\ LatestAt(s.events, "leased", at)
  BY <1>1, <1>2, <1>5, OneMore
<1>7. /\ s.lease # None /\ s.lease.id = l /\ s.lease.worker = w
      /\ s.lease.heartbeatAt = at /\ s.lease.acquiredAt = at
      /\ s.lease.expiresAt = at + LeaseMs[w]
  <2>1. s.lease \in Lease
    <3>1. at + LeaseMs[w] \in Nat
      BY TimingAssumption
    <3> QED BY <1>1, <3>1 DEF NewLease, Lease
  <2>2. s.lease # None
    BY <2>1, RecordAssumption
  <2> QED BY <1>1, <2>2 DEF NewLease
<1>8. SummaryAgrees(s)
  BY <1>1, <1>2, <1>6, <1>7, SummaryIs DEF PhaseAfter, Terminal
<1>9. PhaseFieldsAgree(s)
  BY <1>1, <1>4, <1>7, NoneAssumption DEF PhaseFieldsAgree, Terminal
<1>10. LeaseTimesOrdered(s)
  BY <1>7, TimingAssumption DEF LeaseTimesOrdered
<1>11. s.attempts \in 0 .. MaxAttempts[t] /\ s.recoveryCount \in 0 .. s.attempts
  BY <1>1, <1>4
<1> QED BY <1>6, <1>8, <1>9, <1>10, <1>11 DEF ValidRecord, s

(* A record whose lease is held or has expired. *)
LEMMA HeldFacts ==
  ASSUME NEW t \in Tasks, NEW r, NEW at \in Nat, Fit(t, r, at), r.phase = "leased"
  PROVE  /\ r.lease \in Lease /\ r.lease.acquiredAt <= r.lease.heartbeatAt
         /\ r.lease.heartbeatAt <= at
         /\ LatestAt(r.events, "leased", r.lease.acquiredAt)
         /\ r.startedAt \in Nat /\ r.startedAt <= at
         /\ r.recoveryCount < r.attempts
         /\ r.nextAttemptAt = None /\ r.result = None /\ r.finishedAt = None
<1>1. r.lease \in Lease
  BY LeaseKnown DEF Fit
<1>2. /\ r.lease.heartbeatAt = LastEvent(r).at
      /\ LatestAt(r.events, "leased", r.lease.acquiredAt)
  BY SummaryIs DEF Fit, ValidRecord
<1>3. r.lease.acquiredAt <= r.lease.heartbeatAt
  BY <1>1, RecordAssumption DEF Fit, ValidRecord, LeaseTimesOrdered, Lease
<1>4. /\ r.startedAt # None /\ r.nextAttemptAt = None /\ r.result = None /\ r.finishedAt = None
  BY DEF Fit, ValidRecord, PhaseFieldsAgree
<1>5. /\ r.startedAt \in Nat /\ LastEvent(r).at \in Nat
  BY <1>4, FitFacts DEF Event
<1>6. r.startedAt <= LastEvent(r).at /\ LastEvent(r).at <= at /\ r.recoveryCount < r.attempts
  BY <1>4 DEF Fit, Standing
<1> QED BY <1>1, <1>2, <1>3, <1>4, <1>5, <1>6

(* The events of a holder, and of its recovery, may follow. *)
LEMMA HolderMay ==
  ASSUME NEW t \in Tasks, NEW r, NEW at \in Nat, Fit(t, r, at), r.phase = "leased",
         NEW type \in {"heartbeat", "recovered", "retry-scheduled", "succeeded", "failed"},
         NEW e, e = NewEvent(type, at, r.lease.worker, r.lease.id)
  PROVE  /\ e \in Event /\ LegalNext(LastEvent(r), e)
         /\ e.type = type /\ e.at = at /\ e.worker = r.lease.worker /\ e.lease = r.lease.id
<1>1. r.lease.worker \in Workers /\ r.lease.id \in LeaseIds
  BY HeldFacts DEF Lease
<1>2. e \in Event
  BY <1>1, EventType DEF EventTypes, Terminal
<1>3. e.type = type /\ e.at = at /\ e.worker = r.lease.worker /\ e.lease = r.lease.id
  BY DEF NewEvent
<1>4. /\ PhaseAfter(LastEvent(r)) = "leased" /\ LastEvent(r).at <= at
      /\ r.lease.worker = LastEvent(r).worker /\ r.lease.id = LastEvent(r).lease
      /\ LastEvent(r).at \in Nat
  BY SummaryIs, FitFacts DEF Fit, ValidRecord, Event
<1>5. LegalNext(LastEvent(r), e)
  BY <1>3, <1>4 DEF LegalNext
<1> QED BY <1>2, <1>3, <1>5

LEMMA GateHeartbeated ==
  ASSUME NEW t \in Tasks, NEW r, NEW at \in Nat, Fit(t, r, at), r.phase = "leased"
  PROVE  ValidRecord(t, Heartbeated(r, at))
<1> DEFINE s == Heartbeated(r, at)
           e == NewEvent("heartbeat", at, r.lease.worker, r.lease.id)
<1>1. /\ s.phase = "leased" /\ s.attempts = r.attempts
      /\ s.recoveryCount = r.recoveryCount /\ s.nextAttemptAt = r.nextAttemptAt
      /\ s.result = r.result /\ s.finishedAt = r.finishedAt /\ s.startedAt = r.startedAt
      /\ s.events = Append(r.events, e)
      /\ s.lease = [r.lease EXCEPT !.heartbeatAt = at,
                                   !.expiresAt = at + LeaseMs[r.lease.worker]]
  BY DEF Heartbeated, Fit, Record
<1>2. /\ e \in Event /\ LegalNext(LastEvent(r), e) /\ e.type = "heartbeat" /\ e.at = at
      /\ e.worker = r.lease.worker /\ e.lease = r.lease.id
  BY HolderMay
<1>3. /\ r.lease \in Lease /\ r.lease.acquiredAt <= r.lease.heartbeatAt
      /\ r.lease.heartbeatAt <= at
      /\ LatestAt(r.events, "leased", r.lease.acquiredAt)
      /\ r.startedAt \in Nat /\ r.nextAttemptAt = None /\ r.result = None
      /\ r.finishedAt = None
  BY HeldFacts
<1>4. s \in Record
  BY <1>3, HeartbeatedType DEF Fit
<1> HIDE DEF s, e
<1>5. /\ LastEvent(s) = e /\ LegalHistory(s)
      /\ Sums(s.events, s.attempts, s.recoveryCount, s.startedAt)
      /\ LatestAt(s.events, "leased", r.lease.acquiredAt)
  <2>e. s.events = Append(r.events, e)
    BY <1>1
  <2>1. /\ LastEvent(s) = e /\ LegalHistory(s)
        /\ e.type # "leased" =>
             /\ Sums(s.events, r.attempts,
                     IF e.type = "recovered" THEN r.recoveryCount + 1 ELSE r.recoveryCount,
                     r.startedAt)
             /\ LatestAt(r.events, "leased", r.lease.acquiredAt) =>
                   LatestAt(s.events, "leased", r.lease.acquiredAt)
    BY <1>2, <2>e, OneMore
  <2> QED BY <1>1, <1>2, <1>3, <2>1
<1>6. /\ s.lease # None /\ s.lease.id = r.lease.id /\ s.lease.worker = r.lease.worker
      /\ s.lease.heartbeatAt = at /\ s.lease.acquiredAt = r.lease.acquiredAt
      /\ s.lease.expiresAt = at + LeaseMs[r.lease.worker]
  <2>1. at + LeaseMs[r.lease.worker] \in Nat
    BY <1>3, TimingAssumption DEF Lease
  <2>2. s.lease \in Lease
    BY <1>1, <1>3, <2>1 DEF Lease
  <2>3. s.lease # None
    BY <2>2, RecordAssumption
  <2> QED BY <1>1, <1>3, <2>3 DEF Lease
<1>7. SummaryAgrees(s)
  BY <1>1, <1>2, <1>5, <1>6, SummaryIs DEF PhaseAfter, Terminal
<1>8. PhaseFieldsAgree(s)
  BY <1>1, <1>3, <1>6, NoneAssumption DEF PhaseFieldsAgree, Terminal
<1>9. LeaseTimesOrdered(s)
  BY <1>3, <1>6, TimingAssumption DEF LeaseTimesOrdered, Lease
<1>10. s.attempts \in 0 .. MaxAttempts[t] /\ s.recoveryCount \in 0 .. s.attempts
  BY <1>1 DEF Fit, ValidRecord
<1> QED BY <1>5, <1>7, <1>8, <1>9, <1>10 DEF ValidRecord, s

(* A record its call closes. *)
LEMMA Closed ==
  ASSUME NEW t \in Tasks, NEW s, NEW at \in Nat,
         LegalHistory(s), Sums(s.events, s.attempts, s.recoveryCount, s.startedAt),
         s.phase \in {"succeeded", "failed"}, LastEvent(s).type = s.phase, LastEvent(s).at = at,
         s.attempts \in 0 .. MaxAttempts[t], s.recoveryCount \in 0 .. s.attempts,
         s.lease = None, s.nextAttemptAt = None, s.finishedAt = at,
         s.startedAt \in Nat, s.startedAt <= at,
         s.phase = "succeeded" => s.result # None /\ s.failure = None,
         s.phase = "failed" => s.result = None /\ s.failure # None
  PROVE  ValidRecord(t, s)
<1>1. SummaryAgrees(s)
  BY SummaryIs DEF PhaseAfter
<1>2. PhaseFieldsAgree(s)
  BY NoneAssumption DEF PhaseFieldsAgree, Terminal
<1>3. LeaseTimesOrdered(s)
  BY DEF LeaseTimesOrdered
<1> QED BY <1>1, <1>2, <1>3 DEF ValidRecord

(* A record its call puts back into the queue. *)
LEMMA Requeued ==
  ASSUME NEW t \in Tasks, NEW s,
         LegalHistory(s), Sums(s.events, s.attempts, s.recoveryCount, s.startedAt),
         s.phase = "queued", LastEvent(s).type \in {"retry-scheduled", "recovered"},
         s.attempts \in 0 .. MaxAttempts[t], s.recoveryCount \in 0 .. s.attempts,
         s.lease = None, s.result = None, s.finishedAt = None,
         s.nextAttemptAt # None, LastEvent(s).type = "recovered" => s.nextAttemptAt = LastEvent(s).at,
         s.failure # None, s.failure.kind = "transient"
  PROVE  ValidRecord(t, s)
<1>1. SummaryAgrees(s)
  BY SummaryIs DEF PhaseAfter, Terminal
<1>2. PhaseFieldsAgree(s)
  BY DEF PhaseFieldsAgree, Terminal
<1>3. LeaseTimesOrdered(s)
  BY DEF LeaseTimesOrdered
<1> QED BY <1>1, <1>2, <1>3 DEF ValidRecord

LEMMA GateSucceeded ==
  ASSUME NEW t \in Tasks, NEW r, NEW at \in Nat, Fit(t, r, at), r.phase = "leased"
  PROVE  ValidRecord(t, Succeeded(r, BaseCommit[t], at))
<1> DEFINE s == Succeeded(r, BaseCommit[t], at)
           e == NewEvent("succeeded", at, r.lease.worker, r.lease.id)
<1>1. /\ s.phase = "succeeded" /\ s.attempts = r.attempts
      /\ s.recoveryCount = r.recoveryCount /\ s.nextAttemptAt = None /\ s.lease = None
      /\ s.result = BaseCommit[t] /\ s.failure = None /\ s.finishedAt = at
      /\ s.startedAt = r.startedAt /\ s.events = Append(r.events, e)
  BY DEF Succeeded, Fit, Record
<1>2. e \in Event /\ LegalNext(LastEvent(r), e) /\ e.type = "succeeded" /\ e.at = at
  BY HolderMay
<1>3. r.startedAt \in Nat /\ r.startedAt <= at /\ BaseCommit[t] # None
  BY HeldFacts, CommitAssumption, NoneAssumption
<1> HIDE DEF s, e
<1>4. /\ LastEvent(s) = e /\ LegalHistory(s)
      /\ Sums(s.events, r.attempts,
              IF e.type = "recovered" THEN r.recoveryCount + 1 ELSE r.recoveryCount, r.startedAt)
  BY <1>1, <1>2, OneMore
<1>5. s.attempts \in 0 .. MaxAttempts[t] /\ s.recoveryCount \in 0 .. s.attempts
  BY <1>1 DEF Fit, ValidRecord
<1>6. ValidRecord(t, s)
  BY <1>1, <1>2, <1>3, <1>4, <1>5, Closed
<1> QED BY <1>6 DEF s

LEMMA GateFailed ==
  ASSUME NEW t \in Tasks, NEW r, NEW at \in Nat, Fit(t, r, at), r.phase = "leased",
         NEW kind \in FailureKinds
  PROVE  ValidRecord(t, Failed(t, r, kind, at))
<1> DEFINE s == Failed(t, r, kind, at)
           e(type) == NewEvent(type, at, r.lease.worker, r.lease.id)
           type == IF Retries(t, r, kind) THEN "retry-scheduled" ELSE "failed"
<1>1. /\ s.attempts = r.attempts /\ s.recoveryCount = r.recoveryCount /\ s.lease = None
      /\ s.result = r.result /\ s.startedAt = r.startedAt /\ s.events = Append(r.events, e(type))
      /\ s.failure = [kind |-> kind, occurredAt |-> at]
  BY DEF Failed, Fit, Record
<1>2. Retries(t, r, kind) =>
        /\ s.phase = "queued" /\ s.nextAttemptAt = RetryAt(r, at) /\ s.finishedAt = r.finishedAt
        /\ kind = "transient"
  BY DEF Failed, Fit, Record, Retries
<1>3. ~Retries(t, r, kind) => s.phase = "failed" /\ s.nextAttemptAt = None /\ s.finishedAt = at
  BY DEF Failed, Fit, Record
<1>4. type \in {"retry-scheduled", "failed"}
  OBVIOUS
<1>5. /\ e(type) \in Event /\ LegalNext(LastEvent(r), e(type))
      /\ e(type).type = type /\ e(type).at = at
  <2> HIDE DEF type
  <2> QED BY <1>4, HolderMay
<1>6. /\ r.startedAt \in Nat /\ r.startedAt <= at /\ r.result = None /\ r.finishedAt = None
      /\ r.lease.worker \in Workers
  BY HeldFacts DEF Lease
<1>7. RetryAt(r, at) # None
  <2>1. at + RetryDelay[r.lease.worker] \in Nat
    BY <1>6, TimingAssumption
  <2> QED BY <2>1, NoneAssumption DEF RetryAt
<1>8. s.failure # None
  <2>1. s.failure \in Failure
    BY <1>1 DEF Failure
  <2> QED BY <2>1, RecordAssumption
<1>9. s.attempts \in 0 .. MaxAttempts[t] /\ s.recoveryCount \in 0 .. s.attempts
  BY <1>1 DEF Fit, ValidRecord
<1>10. PICK f \in Event : /\ f = e(type) /\ f.type = type /\ f.at = at
                          /\ LegalNext(LastEvent(r), f) /\ s.events = Append(r.events, f)
  BY <1>1, <1>5
<1>11. type = IF Retries(t, r, kind) THEN "retry-scheduled" ELSE "failed"
  OBVIOUS
<1> HIDE DEF s, e, type
<1>12. f.type # "leased" /\ f.type # "recovered"
  BY <1>10, <1>11
<1>13. /\ LastEvent(s) = f /\ LegalHistory(s)
       /\ Sums(s.events, r.attempts,
               IF f.type = "recovered" THEN r.recoveryCount + 1 ELSE r.recoveryCount, r.startedAt)
  BY <1>10, <1>12, OneMore
<1>14. Sums(s.events, s.attempts, s.recoveryCount, s.startedAt)
  BY <1>1, <1>12, <1>13
<1>15. s.failure.kind = kind
  BY <1>1
<1>16. CASE Retries(t, r, kind)
  <2>1. ValidRecord(t, s)
    BY <1>1, <1>2, <1>6, <1>7, <1>8, <1>9, <1>10, <1>11, <1>13, <1>14, <1>15, <1>16, Requeued
  <2> QED BY <2>1 DEF s
<1>17. CASE ~Retries(t, r, kind)
  <2>1. ValidRecord(t, s)
    BY <1>1, <1>3, <1>6, <1>8, <1>9, <1>10, <1>11, <1>13, <1>14, <1>17, Closed
  <2> QED BY <2>1 DEF s
<1> QED BY <1>16, <1>17

(* A recovered task whose attempts are spent has two more events. *)
LEMMA GateRecovered ==
  ASSUME NEW t \in Tasks, NEW r, NEW at \in Nat, Fit(t, r, at), r.phase = "leased"
  PROVE  ValidRecord(t, Recovered(t, r, at))
<1> DEFINE s == Recovered(t, r, at)
           e == NewEvent("recovered", at, r.lease.worker, r.lease.id)
           es == Append(r.events, e)
           f == NewEvent("failed", at, None, None)
           spent == r.attempts >= MaxAttempts[t]
<1>1. /\ s.attempts = r.attempts /\ s.recoveryCount = r.recoveryCount + 1 /\ s.lease = None
      /\ s.result = r.result /\ s.startedAt = r.startedAt
      /\ s.failure = [kind |-> "transient", occurredAt |-> at]
  BY DEF Recovered, Fit, Record
<1>2. ~spent => /\ s.phase = "queued" /\ s.nextAttemptAt = at /\ s.finishedAt = r.finishedAt
                /\ s.events = es
  BY DEF Recovered, Fit, Record
<1>3. spent => /\ s.phase = "failed" /\ s.nextAttemptAt = r.nextAttemptAt /\ s.finishedAt = at
               /\ s.events = Append(es, f)
  BY DEF Recovered, Fit, Record
<1>4. e \in Event /\ LegalNext(LastEvent(r), e) /\ e.type = "recovered" /\ e.at = at
  BY HolderMay
<1>5. /\ f \in Event /\ f.type = "failed" /\ f.at = at /\ f.worker = None /\ f.lease = None
  BY EventType DEF EventTypes, Terminal, NewEvent
<1>6. /\ r.startedAt \in Nat /\ r.startedAt <= at /\ r.recoveryCount < r.attempts
      /\ r.nextAttemptAt = None /\ r.result = None /\ r.finishedAt = None
  BY HeldFacts
<1>7. s.failure # None /\ s.failure.kind = "transient"
  <2>1. s.failure \in Failure
    BY <1>1, KindAssumption DEF Failure
  <2> QED BY <1>1, <2>1, RecordAssumption
<1>8. s.attempts \in 0 .. MaxAttempts[t] /\ s.recoveryCount \in 0 .. s.attempts
  BY <1>1, <1>6, FitFacts
<1>9. PICK m : m.events = es
  <2>1. [events |-> es].events = es
    OBVIOUS
  <2> QED BY <2>1
<1>10. LegalNext(e, f)
  BY <1>4, <1>5 DEF LegalNext
<1> HIDE DEF s, e, f, es
<1>11. m.events = Append(r.events, e)
  BY <1>9 DEF es
<1>12. /\ es \in Seq(Event) /\ LastEvent(m) = e /\ Legal(es) /\ LegalHistory(m)
       /\ e.type # "leased" =>
            Sums(es, r.attempts, IF e.type = "recovered" THEN r.recoveryCount + 1
                                                         ELSE r.recoveryCount, r.startedAt)
  BY <1>4, <1>9, <1>11, OneMore
<1>13. Sums(es, s.attempts, s.recoveryCount, s.startedAt)
  BY <1>1, <1>4, <1>12
<1>14. CASE ~spent
  <2>1. LastEvent(s) = e /\ LegalHistory(s)
    BY <1>2, <1>9, <1>12, <1>14 DEF LastEvent, LegalHistory
  <2>2. at # None
    BY NoneAssumption
  <2>3. Sums(s.events, s.attempts, s.recoveryCount, s.startedAt)
    BY <1>2, <1>13, <1>14
  <2>4. ValidRecord(t, s)
    BY <1>1, <1>2, <1>4, <1>6, <1>7, <1>8, <1>14, <2>1, <2>2, <2>3, Requeued
  <2> QED BY <2>4 DEF s
<1>15. CASE spent
  <2>1. s.events = Append(es, f) /\ es[Len(es)] = e
    BY <1>3, <1>9, <1>12, <1>15 DEF LastEvent
  <2>2. Legal(s.events)
    BY <1>5, <1>10, <1>12, <2>1, LegalAppend
  <2>3. LastEvent(s) = f /\ LegalHistory(s)
    <3>1. Len(s.events) = Len(es) + 1 /\ s.events[Len(es) + 1] = f
      BY <1>5, <1>12, <2>1, AppendIs
    <3> QED BY <2>2, <3>1 DEF LastEvent, LegalHistory, Legal
  <2>4. \A fs, a, c, x : fs = Append(es, f) /\ Sums(es, a, c, x) =>
          Sums(fs, a, IF f.type = "recovered" THEN c + 1 ELSE c, x)
    BY <1>5, <1>12, SumsOther
  <2>5. Sums(s.events, s.attempts, s.recoveryCount, s.startedAt)
    BY <1>5, <1>13, <2>1, <2>4
  <2>6. ValidRecord(t, s)
    BY <1>1, <1>3, <1>5, <1>6, <1>7, <1>8, <1>15, <2>3, <2>5, Closed
  <2> QED BY <2>6 DEF s
<1> QED BY <1>14, <1>15

(* Cancelling a task that carries no failure. *)
LEMMA GateCancelled ==
  ASSUME NEW t \in Tasks, NEW r, NEW at \in Nat, Fit(t, r, at), r.failure = None
  PROVE  ValidRecord(t, Cancelled(r, at))
<1> DEFINE s == Cancelled(r, at)
           e == NewEvent("cancelled", at, None, None)
<1>1. /\ s.phase = "cancelled" /\ s.attempts = r.attempts
      /\ s.recoveryCount = r.recoveryCount /\ s.nextAttemptAt = None /\ s.lease = None
      /\ s.result = r.result /\ s.failure = None /\ s.finishedAt = at
      /\ s.startedAt = IF r.startedAt = None THEN at ELSE r.startedAt
      /\ s.events = Append(r.events, e)
  BY DEF Cancelled, Fit, Record
<1>2. e \in Event /\ e.type = "cancelled" /\ e.at = at
  BY EventType DEF EventTypes, Terminal, NewEvent
<1>3. /\ LastEvent(r) \in Event /\ r.phase = PhaseAfter(LastEvent(r)) /\ LastEvent(r).at <= at
      /\ r.phase \notin Terminal
      /\ r.startedAt \in Nat \cup {None} /\ r.attempts \in 0 .. MaxAttempts[t]
      /\ r.recoveryCount \in 0 .. r.attempts
      /\ r.startedAt # None => r.startedAt <= LastEvent(r).at
  BY FitFacts DEF Fit, ValidRecord, Standing
<1>4. r.result = None
  BY <1>3 DEF Fit, ValidRecord, PhaseFieldsAgree, Record, Phases
<1>5. s.startedAt \in Nat /\ s.startedAt <= at
  BY <1>1, <1>3 DEF Event
<1> HIDE DEF s, e
<1>6. LegalNext(LastEvent(r), e)
  BY <1>2, <1>3 DEF LegalNext, Event
<1>7. /\ LastEvent(s) = e /\ LegalHistory(s)
      /\ Sums(s.events, r.attempts,
              IF e.type = "recovered" THEN r.recoveryCount + 1 ELSE r.recoveryCount, r.startedAt)
  BY <1>1, <1>2, <1>6, OneMore
<1>8. Sums(s.events, s.attempts, s.recoveryCount, r.startedAt)
  BY <1>1, <1>2, <1>7
<1>9. r.startedAt = None <=> Of(s.events, "leased") = {}
  <2>1. Of(s.events, "leased") = Of(r.events, "leased")
    <3>1. Counts(r.events, s.events, e, "leased")
      BY <1>1, <1>2, FitFacts, OfAppend DEF EventTypes
    <3> QED BY <1>2, <3>1 DEF Counts
  <2>2. \A i \in Of(r.events, "leased") : r.events[i].at \in Nat
    <3>1. r.events \in Seq(Event)
      BY FitFacts
    <3>2. \A i \in 1 .. Len(r.events) : r.events[i] \in Event
      BY <3>1, ElementOfSeq
    <3> QED BY <3>1, <3>2 DEF Of, Event
  <2>3. /\ Of(r.events, "leased") = {} => r.startedAt = None
        /\ Of(r.events, "leased") # {} => FirstAt(r.events, "leased", r.startedAt)
    BY FitFacts DEF Sums
  <2> QED BY <2>1, <2>2, <2>3, NoneAssumption DEF FirstAt
<1>10. SummaryAgrees(s)
  BY <1>1, <1>2, <1>7, <1>8, <1>9
     DEF SummaryAgrees, Sums, EventsOf, Of, FirstAt, PhaseAfter, Terminal
<1>11. PhaseFieldsAgree(s)
  BY <1>1, <1>4, <1>5, NoneAssumption DEF PhaseFieldsAgree, Terminal
<1>12. LeaseTimesOrdered(s)
  BY <1>1 DEF LeaseTimesOrdered
<1>13. ValidRecord(t, s)
  BY <1>1, <1>3, <1>7, <1>10, <1>11, <1>12 DEF ValidRecord
<1> QED BY <1>13 DEF s

(* Unless the clock is behind a task's latest event, what a call that      *)
(* passed its own guards writes is a record assertRecord accepts, for      *)
(* every budget and duration; a task that waits with a failure cannot be   *)
(* cancelled.                                                              *)
THEOREM GateTheorem == Spec => []GateAcceptsLegalCalls
<1>1. ASSUME QueueInv, NEW t \in Enqueued, LastEvent(record[t]).at <= clock
      PROVE  LET r == record[t]
             IN /\ Eligible(r, clock) =>
                     \A w \in Workers, l \in LeaseIds \ UsedLeaseIds(r) :
                       ValidRecord(t, Leased(r, w, l, clock))
                /\ HasExpired(r, clock) => ValidRecord(t, Recovered(t, r, clock))
                /\ r.phase = "leased" /\ ~HasExpired(r, clock) =>
                     /\ ValidRecord(t, Heartbeated(r, clock))
                     /\ ValidRecord(t, Succeeded(r, BaseCommit[t], clock))
                     /\ \A kind \in FailureKinds : ValidRecord(t, Failed(t, r, kind, clock))
                /\ r.phase \notin Terminal /\ r.failure = None =>
                     ValidRecord(t, Cancelled(r, clock))
  <2> DEFINE r == record[t]
  <2>1. /\ t \in Tasks /\ clock \in Nat /\ r \in Record
        /\ ValidRecord(t, r) /\ BudgetSpent(t, r) /\ Standing(r) /\ LastEvent(r).at <= clock
    BY <1>1, ClockType DEF QueueInv, Sound, Writable, TypeOK, Enqueued
  <2> HIDE DEF r
  <2>2. r.phase \notin Terminal => Fit(t, r, clock)
    BY <2>1 DEF Fit
  <2>3. /\ Eligible(r, clock) => r.phase = "queued" /\ r.phase \notin Terminal
        /\ HasExpired(r, clock) => r.phase = "leased"
        /\ r.phase = "leased" => r.phase \notin Terminal
    BY DEF Eligible, HasExpired, Terminal
  <2>4. ASSUME Eligible(r, clock), NEW w \in Workers, NEW l \in LeaseIds
        PROVE  ValidRecord(t, Leased(r, w, l, clock))
    BY <2>1, <2>2, <2>3, <2>4, GateLeased
  <2>5. ASSUME r.phase = "leased"
        PROVE  /\ ValidRecord(t, Recovered(t, r, clock))
               /\ ValidRecord(t, Heartbeated(r, clock))
               /\ ValidRecord(t, Succeeded(r, BaseCommit[t], clock))
               /\ \A kind \in FailureKinds : ValidRecord(t, Failed(t, r, kind, clock))
    BY <2>1, <2>2, <2>3, <2>5, GateRecovered, GateHeartbeated, GateSucceeded, GateFailed
  <2>6. ASSUME r.phase \notin Terminal, r.failure = None
        PROVE  ValidRecord(t, Cancelled(r, clock))
    BY <2>1, <2>2, <2>6, GateCancelled
  <2> QED BY <2>3, <2>4, <2>5, <2>6 DEF r
<1>2. QueueInv => GateAcceptsLegalCalls
  BY <1>1 DEF GateAcceptsLegalCalls
<1> QED BY <1>2, QueueInvHolds, PTL

-----------------------------------------------------------------------------
(* The order of claims relates the histories of different tasks.  It is    *)
(* proved about the histories alone: quiet steps, which lease nothing, add *)
(* events of this instant, and a claim adds one lease to the history that  *)
(* was ready first.                                                        *)

(* In histories h a lease of u respects the tasks that were ready.         *)
RespectsOthers(h, u, i) ==
  LET key == ReadyFrom(h[u][i - 1])
      at  == h[u][i].at
  IN /\ key <= at
     /\ \A t \in Tasks \ {u} : \A k \in 1 .. Len(h[t]) :
          PhaseAfter(h[t][k]) = "queued" /\ ReadyFrom(h[t][k]) < key =>
            k < Len(h[t]) /\ h[t][k + 1].at <= at

Ordered(h) == \A u \in Tasks : \A i \in 2 .. Len(h[u]) :
                h[u][i].type = "leased" => RespectsOthers(h, u, i)

Past(h, at) == \A t \in Tasks : \A i \in 1 .. Len(h[t]) :
                 h[t][i].at <= at /\ ReadyFrom(h[t][i]) \in Nat

Histories == [Tasks -> Seq(Event)]

(* An event that leases nothing, and what a step that leases nothing adds. *)
QuietEvent(e, at) == /\ e.at = at /\ e.type # "leased"
                     /\ ReadyFrom(e) \in Nat /\ at <= ReadyFrom(e)

AddsQuietly(es, fs, at) == /\ PrefixOf(es, fs)
                           /\ \A i \in Len(es) + 1 .. Len(fs) : QuietEvent(fs[i], at)

LEMMA HistoryLength == \A h \in Histories, t \in Tasks :
  /\ Len(h[t]) \in Nat
  /\ \A i \in 1 .. Len(h[t]) : h[t][i] \in Event /\ h[t][i].at \in Nat
<1> SUFFICES ASSUME NEW h \in Histories, NEW t \in Tasks
             PROVE  /\ Len(h[t]) \in Nat
                    /\ \A i \in 1 .. Len(h[t]) : h[t][i] \in Event /\ h[t][i].at \in Nat
  OBVIOUS
<1>1. h[t] \in Seq(Event)
  BY DEF Histories
<1>2. \A i \in 1 .. Len(h[t]) : h[t][i] \in Event
  BY <1>1, ElementOfSeq
<1> QED BY <1>1, <1>2, LenProperties DEF Event

LEMMA QuietOrder ==
  ASSUME NEW h \in Histories, NEW g \in Histories, NEW at \in Nat,
         Ordered(h), Past(h, at), \A t \in Tasks : AddsQuietly(h[t], g[t], at)
  PROVE  Ordered(g) /\ Past(g, at)
<1>1. \A t \in Tasks : /\ Len(h[t]) \in Nat /\ Len(g[t]) \in Nat /\ Len(h[t]) <= Len(g[t])
                       /\ \A i \in 1 .. Len(h[t]) : g[t][i] = h[t][i]
                       /\ \A i \in 1 .. Len(g[t]) : i > Len(h[t]) => QuietEvent(g[t][i], at)
  <2> SUFFICES ASSUME NEW t \in Tasks
               PROVE  /\ Len(h[t]) \in Nat /\ Len(g[t]) \in Nat /\ Len(h[t]) <= Len(g[t])
                      /\ \A i \in 1 .. Len(h[t]) : g[t][i] = h[t][i]
                      /\ \A i \in 1 .. Len(g[t]) : i > Len(h[t]) => QuietEvent(g[t][i], at)
    OBVIOUS
  <2>1. Len(h[t]) \in Nat /\ Len(g[t]) \in Nat /\ AddsQuietly(h[t], g[t], at)
    BY HistoryLength
  <2> QED BY <2>1 DEF AddsQuietly, PrefixOf
<1>2. Past(g, at)
  <2> SUFFICES ASSUME NEW t \in Tasks, NEW i \in 1 .. Len(g[t])
               PROVE  g[t][i].at <= at /\ ReadyFrom(g[t][i]) \in Nat
    BY DEF Past
  <2>1. CASE i > Len(h[t])
    <3>1. QuietEvent(g[t][i], at)
      BY <1>1, <2>1
    <3> QED BY <3>1 DEF QuietEvent
  <2>2. CASE i <= Len(h[t])
    BY <1>1, <2>2 DEF Past
  <2> QED BY <1>1, <2>1, <2>2
<1>3. ASSUME NEW u \in Tasks, NEW i \in 2 .. Len(g[u]), g[u][i].type = "leased"
      PROVE  RespectsOthers(g, u, i)
  <2>1. i <= Len(h[u])
    BY <1>1, <1>3 DEF QuietEvent
  <2>2. i \in 2 .. Len(h[u]) /\ g[u][i] = h[u][i] /\ g[u][i - 1] = h[u][i - 1]
    BY <1>1, <2>1
  <2>3. RespectsOthers(h, u, i) /\ h[u][i].at <= at /\ h[u][i].at \in Nat
    BY <1>1, <1>3, <2>2, HistoryLength DEF Ordered, Past
  <2> DEFINE key == ReadyFrom(h[u][i - 1])
  <2>4. ASSUME NEW t \in Tasks \ {u}, NEW k \in 1 .. Len(g[t]),
               PhaseAfter(g[t][k]) = "queued", ReadyFrom(g[t][k]) < key
        PROVE  k < Len(g[t]) /\ g[t][k + 1].at <= h[u][i].at
    <3>1. CASE k <= Len(h[t])
      <4>1. k \in 1 .. Len(h[t]) /\ g[t][k] = h[t][k]
        BY <1>1, <3>1
      <4>2. k < Len(h[t]) /\ h[t][k + 1].at <= h[u][i].at
        BY <2>3, <2>4, <4>1 DEF RespectsOthers
      <4>3. k + 1 \in 1 .. Len(h[t])
        BY <1>1, <4>1, <4>2
      <4>4. g[t][k + 1] = h[t][k + 1]
        BY <1>1, <4>3
      <4> QED BY <1>1, <4>1, <4>2, <4>4
    <3>2. CASE k > Len(h[t])
      <4>1. QuietEvent(g[t][k], at)
        BY <1>1, <3>2
      <4>2. key <= h[u][i].at
        BY <2>3 DEF RespectsOthers
      <4>3. key \in Nat
        <5>1. i - 1 \in 1 .. Len(h[u])
          BY <1>1, <2>2
        <5> QED BY <5>1 DEF Past
      <4> HIDE DEF key
      <4> QED BY <2>3, <2>4, <4>1, <4>2, <4>3 DEF QuietEvent
    <3> QED BY <1>1, <3>1, <3>2
  <2> QED BY <2>2, <2>3, <2>4 DEF RespectsOthers
<1> QED BY <1>2, <1>3 DEF Ordered

LEMMA LeaseOrder ==
  ASSUME NEW g \in Histories, NEW at \in Nat, Ordered(g), Past(g, at),
         NEW u \in Tasks, Len(g[u]) > 0, ReadyFrom(g[u][Len(g[u])]) <= at,
         \A t \in Tasks \ {u} :
           Len(g[t]) > 0 /\ PhaseAfter(g[t][Len(g[t])]) = "queued" =>
             ~(ReadyFrom(g[t][Len(g[t])]) < ReadyFrom(g[u][Len(g[u])])),
         NEW e \in Event, e.type = "leased", e.at = at,
         NEW f, f = [g EXCEPT ![u] = Append(g[u], e)]
  PROVE  Ordered(f) /\ Past(f, at)
<1>1. /\ Len(f[u]) = Len(g[u]) + 1 /\ f[u][Len(g[u]) + 1] = e
      /\ \A i \in 1 .. Len(g[u]) : f[u][i] = g[u][i]
      /\ \A t \in Tasks \ {u} : f[t] = g[t]
  <2>1. f[u] = Append(g[u], e) /\ g[u] \in Seq(Event) /\ \A t \in Tasks \ {u} : f[t] = g[t]
    BY DEF Histories
  <2> QED BY <2>1, AppendIs
<1>2. \A t \in Tasks : Len(g[t]) \in Nat
  BY HistoryLength
<1>3. Past(f, at)
  <2>1. ReadyFrom(e) = at
    BY DEF ReadyFrom
  <2> SUFFICES ASSUME NEW t \in Tasks, NEW i \in 1 .. Len(f[t])
               PROVE  f[t][i].at <= at /\ ReadyFrom(f[t][i]) \in Nat
    BY DEF Past
  <2>2. CASE t = u /\ i = Len(g[u]) + 1
    BY <1>1, <2>1, <2>2
  <2>3. CASE ~(t = u /\ i = Len(g[u]) + 1)
    <3>1. i \in 1 .. Len(g[t]) /\ f[t][i] = g[t][i]
      BY <1>1, <1>2, <2>3
    <3> QED BY <3>1 DEF Past
  <2> QED BY <2>2, <2>3
<1>4. ASSUME NEW v \in Tasks, NEW i \in 2 .. Len(g[v]), g[v][i].type = "leased"
      PROVE  RespectsOthers(f, v, i)
  <2>1. RespectsOthers(g, v, i) /\ f[v][i] = g[v][i] /\ f[v][i - 1] = g[v][i - 1]
    <3>1. i \in 1 .. Len(g[v]) /\ i - 1 \in 1 .. Len(g[v])
      BY <1>2, <1>4
    <3> QED BY <1>1, <1>4, <3>1 DEF Ordered
  <2>2. ASSUME NEW t \in Tasks \ {v}, NEW k \in 1 .. Len(f[t]),
               PhaseAfter(f[t][k]) = "queued", ReadyFrom(f[t][k]) < ReadyFrom(g[v][i - 1])
        PROVE  k < Len(f[t]) /\ f[t][k + 1].at <= g[v][i].at
    <3>1. CASE t = u /\ k = Len(g[u]) + 1
      BY <1>1, <2>2, <3>1 DEF PhaseAfter
    <3>2. CASE ~(t = u /\ k = Len(g[u]) + 1)
      <4>1. k \in 1 .. Len(g[t]) /\ f[t][k] = g[t][k]
        BY <1>1, <1>2, <3>2
      <4>2. k < Len(g[t]) /\ g[t][k + 1].at <= g[v][i].at
        BY <2>1, <2>2, <4>1 DEF RespectsOthers
      <4>3. k + 1 \in 1 .. Len(g[t]) /\ Len(g[t]) <= Len(f[t])
        BY <1>1, <1>2, <4>1, <4>2
      <4>4. f[t][k + 1] = g[t][k + 1]
        BY <1>1, <4>3
      <4> QED BY <1>1, <1>2, <4>1, <4>2, <4>3, <4>4
    <3> QED BY <3>1, <3>2
  <2> QED BY <2>1, <2>2 DEF RespectsOthers
<1>5. RespectsOthers(f, u, Len(g[u]) + 1)
  <2> DEFINE n == Len(g[u])
             key == ReadyFrom(g[u][n])
  <2>1. n \in 1 .. n /\ n + 1 - 1 = n /\ f[u][n] = g[u][n]
    BY <1>1, <1>2
  <2>2. ASSUME NEW t \in Tasks \ {u}, NEW k \in 1 .. Len(f[t]),
               PhaseAfter(f[t][k]) = "queued", ReadyFrom(f[t][k]) < key
        PROVE  k < Len(f[t]) /\ f[t][k + 1].at <= at
    <3>1. f[t] = g[t] /\ Len(g[t]) \in Nat
      BY <1>1, <1>2
    <3>2. k # Len(g[t])
      BY <2>2, <3>1
    <3>3. k < Len(g[t]) /\ k + 1 \in 1 .. Len(g[t])
      BY <3>1, <3>2
    <3> QED BY <3>1, <3>3 DEF Past
  <2>3. PICK i \in Nat : i = n + 1
    BY <2>1
  <2>4. f[u][i] = e /\ f[u][i - 1] = g[u][n]
    <3>1. i - 1 = n
      BY <2>1, <2>3
    <3> QED BY <1>1, <2>1, <2>3, <3>1
  <2>5. key <= at
    OBVIOUS
  <2> HIDE DEF key
  <2>6. ReadyFrom(f[u][i - 1]) = key /\ f[u][i].at = at
    BY <2>4 DEF key
  <2>7. RespectsOthers(f, u, i)
    BY <2>2, <2>5, <2>6 DEF RespectsOthers
  <2> QED BY <2>3, <2>7
<1>6. ASSUME NEW v \in Tasks, NEW i \in 2 .. Len(f[v]), f[v][i].type = "leased"
      PROVE  RespectsOthers(f, v, i)
  <2>1. CASE v = u /\ i = Len(g[u]) + 1
    BY <1>5, <2>1
  <2>2. CASE ~(v = u /\ i = Len(g[u]) + 1)
    <3>1. i \in 2 .. Len(g[v]) /\ f[v][i] = g[v][i]
      BY <1>1, <1>2, <2>2
    <3> QED BY <1>4, <1>6, <3>1
  <2> QED BY <2>1, <2>2
<1> QED BY <1>3, <1>6 DEF Ordered

(* The histories of the records f. *)
HistoryOf(r) == IF r = None THEN <<>> ELSE r.events
HistoriesOf(f) == [t \in Tasks |-> HistoryOf(f[t])]

LEMMA QuietAppend ==
  ASSUME NEW es \in Seq(Event), NEW e \in Event, NEW at, QuietEvent(e, at)
  PROVE  AddsQuietly(es, Append(es, e), at)
<1> DEFINE fs == Append(es, e)
<1>1. /\ Len(es) \in Nat /\ Len(fs) = Len(es) + 1 /\ fs[Len(es) + 1] = e
      /\ PrefixOf(es, fs)
  BY AppendIs, AppendPrefix
<1> HIDE DEF fs
<1>2. \A i \in Len(es) + 1 .. Len(fs) : fs[i] = e
  BY <1>1
<1>3. AddsQuietly(es, fs, at)
  BY <1>1, <1>2 DEF AddsQuietly
<1> QED BY <1>3 DEF fs

LEMMA QuietTransitive ==
  ASSUME NEW es \in Seq(Event), NEW fs \in Seq(Event), NEW gs \in Seq(Event), NEW at,
         AddsQuietly(es, fs, at), AddsQuietly(fs, gs, at)
  PROVE  AddsQuietly(es, gs, at)
<1>1. Len(es) \in Nat /\ Len(fs) \in Nat /\ Len(gs) \in Nat
  BY LenProperties
<1>2. PrefixOf(es, gs)
  BY PrefixTransitive DEF AddsQuietly
<1>3. ASSUME NEW i \in Len(es) + 1 .. Len(gs) PROVE QuietEvent(gs[i], at)
  <2>1. CASE i <= Len(fs)
    <3>1. i \in Len(es) + 1 .. Len(fs) /\ i \in 1 .. Len(fs)
      BY <1>1, <2>1
    <3>2. gs[i] = fs[i]
      BY <3>1 DEF AddsQuietly, PrefixOf
    <3> QED BY <3>1, <3>2 DEF AddsQuietly
  <2>2. CASE i > Len(fs)
    <3>1. i \in Len(fs) + 1 .. Len(gs)
      BY <1>1, <2>2
    <3> QED BY <3>1 DEF AddsQuietly
  <2> QED BY <1>1, <2>1, <2>2
<1> QED BY <1>2, <1>3 DEF AddsQuietly

(* Only a lease counts as an attempt; the other changes are quiet. *)
LEMMA QuietChange ==
  ASSUME NEW t \in Tasks, NEW r \in Record, ValidRecord(t, r), NEW at \in Nat,
         NEW s \in Record, Change(t, r, s, at)
  PROVE  \/ s.attempts = r.attempts + 1
         \/ s.attempts = r.attempts /\ AddsQuietly(r.events, s.events, at)
<1>1. r.events \in Seq(Event)
  BY DEF Record
<1>2. ASSUME NEW w \in Workers, NEW l \in LeaseIds, s = Leased(r, w, l, at)
      PROVE  s.attempts = r.attempts + 1
  BY <1>2 DEF Leased, Record
<1>3. ASSUME r.phase = "leased",
             NEW type \in {"heartbeat", "recovered", "retry-scheduled", "succeeded", "failed"},
             NEW e, e = NewEvent(type, at, r.lease.worker, r.lease.id)
      PROVE  e \in Event /\ QuietEvent(e, at)
  <2>1. r.lease.worker \in Workers /\ r.lease.id \in LeaseIds
    BY <1>3, LeasedFacts
  <2>2. e \in Event /\ e.type = type /\ e.at = at /\ e.worker = r.lease.worker
    BY <1>3, <2>1, EventType DEF EventTypes, Terminal, NewEvent
  <2>3. at + RetryDelay[r.lease.worker] \in Nat /\ at <= at + RetryDelay[r.lease.worker]
    BY <2>1, TimingAssumption
  <2> QED BY <1>3, <2>2, <2>3 DEF QuietEvent, ReadyFrom
<1>4. ASSUME NEW type \in {"failed", "cancelled"}, NEW e, e = NewEvent(type, at, None, None)
      PROVE  e \in Event /\ QuietEvent(e, at)
  <2>1. e \in Event /\ e.type = type /\ e.at = at
    BY <1>4, EventType DEF EventTypes, Terminal, NewEvent
  <2> QED BY <1>4, <2>1 DEF QuietEvent, ReadyFrom
<1>5. ASSUME NEW e \in Event, QuietEvent(e, at), Adds(r, s, e), s.attempts = r.attempts
      PROVE  s.attempts = r.attempts /\ AddsQuietly(r.events, s.events, at)
  BY <1>1, <1>5, QuietAppend DEF Adds
<1>6. CASE r.phase = "leased" /\ s = Recovered(t, r, at)
  <2> DEFINE e == NewEvent("recovered", at, r.lease.worker, r.lease.id)
             f == NewEvent("failed", at, None, None)
             es == Append(r.events, e)
  <2>1. /\ s.attempts = r.attempts
        /\ Adds(r, s, e) \/ s.events = Append(es, f)
    BY <1>6 DEF Recovered, Adds, Record
  <2>2. e \in Event /\ f \in Event /\ QuietEvent(e, at) /\ QuietEvent(f, at)
    BY <1>3, <1>4, <1>6
  <2>3. es \in Seq(Event) /\ AddsQuietly(r.events, es, at)
    BY <1>1, <2>2, QuietAppend, AppendPrefix
  <2> HIDE DEF e, f, es
  <2>4. CASE Adds(r, s, e)
    BY <1>5, <2>1, <2>2, <2>4
  <2>5. CASE s.events = Append(es, f)
    <3>1. Append(es, f) \in Seq(Event) /\ AddsQuietly(es, Append(es, f), at)
      BY <2>2, <2>3, QuietAppend, AppendPrefix
    <3>2. AddsQuietly(r.events, Append(es, f), at)
      BY <1>1, <2>3, <3>1, QuietTransitive
    <3> QED BY <2>1, <2>5, <3>2
  <2> QED BY <2>1, <2>4, <2>5
<1>7. CASE r.phase = "leased" /\ s = Heartbeated(r, at)
  <2>1. /\ s.attempts = r.attempts
        /\ Adds(r, s, NewEvent("heartbeat", at, r.lease.worker, r.lease.id))
    BY <1>7 DEF Heartbeated, Adds, Record
  <2> QED BY <1>3, <1>5, <1>7, <2>1
<1>8. CASE r.phase = "leased" /\ s = Succeeded(r, BaseCommit[t], at)
  <2>1. /\ s.attempts = r.attempts
        /\ Adds(r, s, NewEvent("succeeded", at, r.lease.worker, r.lease.id))
    BY <1>8 DEF Succeeded, Adds, Record
  <2> QED BY <1>3, <1>5, <1>8, <2>1
<1>9. ASSUME NEW kind \in FailureKinds, r.phase = "leased", s = Failed(t, r, kind, at)
      PROVE  s.attempts = r.attempts /\ AddsQuietly(r.events, s.events, at)
  <2>1. /\ s.attempts = r.attempts
        /\ \E type \in {"retry-scheduled", "failed"} :
             Adds(r, s, NewEvent(type, at, r.lease.worker, r.lease.id))
    BY <1>9 DEF Failed, Adds, Record
  <2> QED BY <1>3, <1>5, <1>9, <2>1
<1>10. CASE s = Cancelled(r, at)
  <2>1. s.attempts = r.attempts /\ Adds(r, s, NewEvent("cancelled", at, None, None))
    BY <1>10 DEF Cancelled, Adds, Record
  <2> QED BY <1>4, <1>5, <2>1
<1> QED BY <1>2, <1>6, <1>7, <1>8, <1>9, <1>10 DEF Change, HasExpired, InTime

-----------------------------------------------------------------------------
(* When a queued record may be leased is what its last event says. *)
LEMMA ReadyIs ==
  ASSUME NEW t \in Tasks, NEW r \in Record, ValidRecord(t, r), Standing(r), r.phase = "queued"
  PROVE  /\ ReadyAt(r) = ReadyFrom(LastEvent(r)) /\ ReadyAt(r) \in Nat
         /\ r.nextAttemptAt # None => ReadyAt(r) = r.nextAttemptAt
<1> DEFINE es == r.events
           n == Len(es)
<1>1. es \in Seq(Event) /\ n \in Nat /\ n > 0
  BY LenProperties DEF Record, ValidRecord, LegalHistory
<1>2. /\ LastEvent(r) = es[n] /\ CreatedAt(r) = es[1].at
      /\ r.nextAttemptAt \in Nat \cup {None}
      /\ PhaseAfter(es[n]) = "queued"
  BY DEF LastEvent, CreatedAt, Record, ValidRecord, SummaryAgrees
<1>3. es[n] \in Event
  BY <1>1, ElementOfSeq
<1>4. es[n].type \in {"enqueued", "recovered", "retry-scheduled"}
  BY <1>2, <1>3 DEF PhaseAfter, Event, EventTypes, Terminal
<1>5. CASE es[n].type = "enqueued"
  <2>1. n = 1
    <3>1. ASSUME n > 1 PROVE FALSE
      <4>1. n - 1 \in 1 .. n - 1 /\ n - 1 + 1 = n
        BY <1>1, <3>1
      <4>2. \A i \in 1 .. n - 1 : LegalNext(es[i], es[i + 1])
        BY DEF ValidRecord, LegalHistory
      <4>3. LegalNext(es[n - 1], es[n])
        BY <4>1, <4>2
      <4> QED BY <1>5, <4>3 DEF LegalNext
    <3> HIDE DEF n
    <3> QED BY <1>1, <3>1
  <2>2. r.nextAttemptAt = None
    BY <1>2, <1>5 DEF ValidRecord, PhaseFieldsAgree
  <2> QED BY <1>2, <1>3, <1>5, <2>1, <2>2 DEF ReadyAt, ReadyFrom, Event
<1>6. CASE es[n].type = "recovered"
  <2>1. r.nextAttemptAt = es[n].at
    BY <1>2, <1>6 DEF ValidRecord, SummaryAgrees
  <2> QED BY <1>2, <1>3, <1>6, <2>1, NoneAssumption DEF ReadyAt, ReadyFrom, Event
<1>7. CASE es[n].type = "retry-scheduled"
  <2>1. r.nextAttemptAt # None /\ r.nextAttemptAt = ReadyFrom(es[n])
    BY <1>2, <1>7 DEF ValidRecord, SummaryAgrees, Standing
  <2> QED BY <1>2, <2>1 DEF ReadyAt
<1> QED BY <1>4, <1>5, <1>6, <1>7

(* The histories on disk, in order and in the past. *)
InOrder(f, at) == /\ HistoriesOf(f) \in Histories
                  /\ Ordered(HistoriesOf(f)) /\ Past(HistoriesOf(f), at)

LEMMA HistoriesType ==
  ASSUME NEW f, \A t \in Tasks : f[t] = None \/ f[t] \in Record
  PROVE  HistoriesOf(f) \in Histories
<1>1. \A t \in Tasks : HistoryOf(f[t]) \in Seq(Event)
  BY DEF HistoryOf, Record
<1> QED BY <1>1 DEF HistoriesOf, Histories

(* What leases nothing keeps the order. *)
LEMMA QuietKeepsOrder ==
  ASSUME NEW f, NEW g, NEW at \in Nat, InOrder(f, at), HistoriesOf(g) \in Histories,
         \A t \in Tasks : AddsQuietly(HistoryOf(f[t]), HistoryOf(g[t]), at)
  PROVE  InOrder(g, at)
<1>1. \A t \in Tasks : AddsQuietly(HistoriesOf(f)[t], HistoriesOf(g)[t], at)
  BY DEF HistoriesOf
<1> QED BY <1>1, QuietOrder DEF InOrder

LEMMA SameIsQuiet == ASSUME NEW es \in Seq(Event), NEW at PROVE AddsQuietly(es, es, at)
<1>1. Len(es) \in Nat
  BY LenProperties
<1>2. Len(es) + 1 .. Len(es) = {}
  BY <1>1
<1> QED BY <1>1, <1>2 DEF AddsQuietly, PrefixOf

LEMMA FreshIsQuiet ==
  ASSUME NEW at \in Nat PROVE AddsQuietly(<<>>, FreshRecord(at).events, at)
<1> DEFINE e == NewEvent("enqueued", at, None, None)
<1>1. e \in Event /\ QuietEvent(e, at)
  BY EventType DEF EventTypes, NewEvent, QuietEvent, ReadyFrom
<1>2. FreshRecord(at).events = <<e>>
  BY DEF FreshRecord
<1> HIDE DEF e
<1>3. PrefixOf(<<>>, <<e>>) /\ Len(<<e>>) = 1 /\ <<e>>[1] = e /\ Len(<<>>) = 0
  BY DEF PrefixOf
<1> QED BY <1>1, <1>2, <1>3 DEF AddsQuietly

(* A record on disk that is rewritten. *)
LEMMA RewriteQuiet ==
  ASSUME NEW t \in Tasks, NEW r \in Record, Sound(t, r), clock \in Nat,
         NEW s, Rewrite(t, r, s)
  PROVE  /\ s \in Record /\ Sound(t, s)
         /\ r.attempts \in Nat /\ s.attempts \in Nat /\ s.attempts >= r.attempts
         /\ s.attempts = r.attempts => AddsQuietly(r.events, s.events, clock)
<1>1. s \in Record /\ Sound(t, s)
  BY RewriteSound
<1>2. r.attempts \in Nat /\ s.attempts \in Nat
  BY <1>1 DEF Record
<1>3. \/ s.attempts = r.attempts + 1
      \/ s.attempts = r.attempts /\ AddsQuietly(r.events, s.events, clock)
  BY <1>1, QuietChange DEF Sound, Writable, Rewrite
<1> QED BY <1>1, <1>2, <1>3

LEMMA QuietStep ==
  ASSUME QueueInv, Next, \A t \in Enqueued : record'[t].attempts = record[t].attempts,
         NEW t \in Tasks
  PROVE  AddsQuietly(HistoryOf(record[t]), HistoryOf(record'[t]), clock)
<1>1. TypeOK /\ clock \in Nat
  BY ClockType DEF QueueInv
<1>2. record[t] # None => /\ record[t] \in Record /\ Sound(t, record[t])
                          /\ record'[t].attempts = record[t].attempts
  BY <1>1 DEF QueueInv, TypeOK, Enqueued
<1>3. \A r \in Record : r.events \in Seq(Event) /\ r # None
  BY RecordAssumption DEF Record
<1>4. CASE record'[t] = record[t]
  <2>1. HistoryOf(record[t]) \in Seq(Event)
    BY <1>2, <1>3 DEF HistoryOf
  <2> QED BY <1>4, <2>1, SameIsQuiet
<1>5. CASE record[t] = None /\ record'[t] = FreshRecord(clock)
  <2>1. FreshRecord(clock) # None
    BY <1>1, <1>3, FreshType
  <2> QED BY <1>1, <1>5, <2>1, FreshIsQuiet DEF HistoryOf
<1>6. CASE record[t] # None /\ Rewrite(t, record[t], record'[t])
  BY <1>1, <1>2, <1>3, <1>6, RewriteQuiet DEF HistoryOf
<1>7. CASE /\ record[t] # None
           /\ \E m : Rewrite(t, record[t], m) /\ Rewrite(t, m, record'[t])
  <2>1. PICK m : Rewrite(t, record[t], m) /\ Rewrite(t, m, record'[t])
    BY <1>7
  <2>2. /\ m \in Record /\ Sound(t, m)
        /\ record[t].attempts \in Nat /\ m.attempts \in Nat /\ m.attempts >= record[t].attempts
        /\ m.attempts = record[t].attempts => AddsQuietly(record[t].events, m.events, clock)
    BY <1>1, <1>2, <1>7, <2>1, RewriteQuiet
  <2>3. /\ record'[t] \in Record
        /\ record'[t].attempts >= m.attempts /\ record'[t].attempts \in Nat
        /\ record'[t].attempts = m.attempts => AddsQuietly(m.events, record'[t].events, clock)
    BY <1>1, <2>1, <2>2, RewriteQuiet
  <2>4. m.attempts = record[t].attempts /\ record'[t].attempts = m.attempts
    BY <1>2, <1>7, <2>2, <2>3
  <2>5. AddsQuietly(record[t].events, record'[t].events, clock)
    BY <1>2, <1>3, <1>7, <2>2, <2>3, <2>4, QuietTransitive
  <2> QED BY <1>3, <1>7, <2>3, <2>5 DEF HistoryOf
<1> QED BY <1>1, <1>4, <1>5, <1>6, <1>7, StepShape DEF StepOf

(* A claim that leases: among the histories after its recoveries, that of  *)
(* the leased task was ready first.                                        *)
LEMMA ClaimKeepsOrder ==
  ASSUME QueueInv, InOrder(record, clock), NEW w \in Workers, ClaimLeases(w)
  PROVE  \/ \A t \in Enqueued : record'[t].attempts = record[t].attempts
         \/ InOrder(record', clock)
<1> DEFINE after == AfterRecovery(Due)
           h     == HistoriesOf(after)
<1>1. TypeOK /\ clock \in Nat /\ Refused = {} /\ Enqueued \subseteq Tasks
  BY ClockType DEF QueueInv, ClaimLeases, Enqueued
<1>2. \A t \in Enqueued : record[t] \in Record /\ Sound(t, record[t])
  BY <1>1 DEF QueueInv, TypeOK, Enqueued
<1>3. ASSUME NEW t \in Tasks
      PROVE  /\ record[t] = None => after[t] = None
             /\ record[t] # None => /\ after[t] \in Record /\ Sound(t, after[t])
                                    /\ AddsQuietly(record[t].events, after[t].events, clock)
  <2>1. CASE after[t] = record[t] /\ t \notin Due
    <3>1. t \in Enqueued => record[t].events \in Seq(Event)
      BY <1>2 DEF Record
    <3> QED BY <1>2, <2>1, <3>1, SameIsQuiet DEF Enqueued
  <2>2. CASE record[t] # None /\ Rewrite(t, record[t], after[t])
    <3>1. t \in Enqueued
      BY <2>2 DEF Enqueued
    <3>2. after[t].attempts = record[t].attempts
      BY <1>1, <3>1, RecoveryKeepsAttempts
    <3> QED BY <1>1, <1>2, <2>2, <3>1, <3>2, RewriteQuiet
  <2> QED BY <1>1, <2>1, <2>2, RecoveryShape
<1>4. \A t \in Tasks : after[t] = None \/ after[t] \in Record
  BY <1>3
<1>5. InOrder(after, clock)
  <2>1. \A r \in Record : r # None
    BY RecordAssumption
  <2>2. \A t \in Tasks : AddsQuietly(HistoryOf(record[t]), HistoryOf(after[t]), clock)
    <3> SUFFICES ASSUME NEW t \in Tasks
                 PROVE  AddsQuietly(HistoryOf(record[t]), HistoryOf(after[t]), clock)
      OBVIOUS
    <3>1. CASE record[t] = None
      <4>1. HistoryOf(record[t]) = <<>> /\ HistoryOf(after[t]) = <<>> /\ <<>> \in Seq(Event)
        BY <1>3, <3>1 DEF HistoryOf
      <4> QED BY <4>1, SameIsQuiet
    <3>2. CASE record[t] # None
      BY <1>3, <2>1, <3>2 DEF HistoryOf
    <3> QED BY <3>1, <3>2
  <2>3. HistoriesOf(after) \in Histories
    BY <1>4, HistoriesType
  <2> HIDE DEF after
  <2> QED BY <1>1, <2>2, <2>3, QuietKeepsOrder
<1>6. PICK u \in Enqueued :
        /\ Eligible(after[u], clock)
        /\ \A v \in Enqueued \ {u} :
             Eligible(after[v], clock) => Precedes(u, after[u], v, after[v])
        /\ \E l \in LeaseIds :
             \/ record' = after
             \/ record' = [after EXCEPT ![u] = Leased(after[u], w, l, clock)]
  BY DEF ClaimLeases
<1>7. PICK l \in LeaseIds : \/ record' = after
                            \/ record' = [after EXCEPT ![u] = Leased(after[u], w, l, clock)]
  BY <1>6
<1>8. CASE record' = after
  BY <1>1, <1>8, RecoveryKeepsAttempts
<1>9. CASE record' = [after EXCEPT ![u] = Leased(after[u], w, l, clock)]
  <2> DEFINE e == NewEvent("leased", clock, w, l)
             r == Leased(after[u], w, l, clock)
  <2>1. DOMAIN after = Tasks /\ u \in Tasks
    BY <1>1 DEF AfterRecovery
  <2>2. \A t \in Enqueued : after[t] \in Record /\ Sound(t, after[t])
    BY <1>1, <1>3 DEF Enqueued
  <2>3. e \in Event /\ e.type = "leased" /\ e.at = clock
    BY <1>1, EventType DEF EventTypes, NewEvent
  <2> HIDE DEF after
  <2>4. r \in Record /\ r.events = Append(after[u].events, e)
    <3>1. r \in Record
      BY <1>1, <2>2, LeasedType
    <3> QED BY <2>2, <3>1 DEF Leased, Record
  <2>5. record'[u] = r /\ \A t \in Tasks \ {u} : record'[t] = after[t]
    BY <1>9, <2>1
  <2> HIDE DEF e, r
  <2>6. \A x \in Record : x # None
    BY RecordAssumption
  <2>7. h[u] = after[u].events /\ HistoriesOf(record')[u] = Append(h[u], e)
    BY <2>1, <2>2, <2>4, <2>5, <2>6 DEF HistoriesOf, HistoryOf
  <2>8. HistoriesOf(record') = [h EXCEPT ![u] = Append(h[u], e)]
    BY <2>1, <2>5, <2>7 DEF HistoriesOf
  <2>9. ASSUME NEW t \in Enqueued
        PROVE  /\ h[t] = after[t].events /\ Len(h[t]) > 0 /\ LastEvent(after[t]) = h[t][Len(h[t])]
               /\ after[t].phase = PhaseAfter(LastEvent(after[t]))
               /\ CreatedAt(after[t]) <= clock
    <3>1. t \in Tasks /\ h[t] = after[t].events /\ ValidRecord(t, after[t])
      BY <1>1, <2>2, <2>6 DEF HistoriesOf, HistoryOf, Sound, Writable
    <3>2. Len(h[t]) > 0 /\ LastEvent(after[t]) = h[t][Len(h[t])]
      BY <3>1 DEF ValidRecord, LegalHistory, LastEvent
    <3>3. after[t].phase = PhaseAfter(LastEvent(after[t]))
      BY <3>1 DEF ValidRecord, SummaryAgrees
    <3>4. h \in Histories /\ Past(h, clock)
      BY <1>5 DEF InOrder
    <3>5. Len(h[t]) \in Nat
      BY <3>1, <3>4, HistoryLength
    <3>6. 1 \in 1 .. Len(h[t])
      BY <3>2, <3>5
    <3> QED BY <3>1, <3>2, <3>3, <3>4, <3>6 DEF Past, CreatedAt
  <2>10. ASSUME NEW t \in Enqueued, after[t].phase = "queued"
         PROVE  /\ ReadyAt(after[t]) = ReadyFrom(h[t][Len(h[t])]) /\ ReadyAt(after[t]) \in Nat
                /\ Eligible(after[t], clock) <=> ReadyAt(after[t]) <= clock
    <3>1. /\ ReadyAt(after[t]) = ReadyFrom(LastEvent(after[t])) /\ ReadyAt(after[t]) \in Nat
          /\ after[t].nextAttemptAt # None => ReadyAt(after[t]) = after[t].nextAttemptAt
      BY <1>1, <2>2, <2>10, ReadyIs DEF Sound, Writable
    <3>2. after[t].nextAttemptAt = None => ReadyAt(after[t]) = CreatedAt(after[t])
      BY DEF ReadyAt
    <3> QED BY <2>9, <2>10, <3>1, <3>2 DEF Eligible
  <2>11. after[u].phase = "queued" /\ ReadyAt(after[u]) <= clock
    BY <1>6, <2>10 DEF Eligible
  <2>12. ASSUME NEW t \in Tasks \ {u}, Len(h[t]) > 0, PhaseAfter(h[t][Len(h[t])]) = "queued"
         PROVE  ~(ReadyFrom(h[t][Len(h[t])]) < ReadyFrom(h[u][Len(h[u])]))
    <3>1. t \in Enqueued
      <4>1. CASE record[t] = None
        <5>1. h[t] = <<>>
          BY <1>3, <4>1 DEF HistoriesOf, HistoryOf
        <5> QED BY <2>12, <5>1
      <4> QED BY <4>1 DEF Enqueued
    <3>2. after[t].phase = "queued"
      BY <2>9, <2>12, <3>1
    <3>3. ASSUME ReadyAt(after[t]) < ReadyAt(after[u]) PROVE FALSE
      <4>1. /\ ReadyAt(after[t]) \in Nat /\ ReadyAt(after[u]) \in Nat
            /\ Eligible(after[t], clock) <=> ReadyAt(after[t]) <= clock
        BY <2>10, <2>11, <3>1, <3>2
      <4>2. Eligible(after[t], clock)
        BY <1>1, <2>11, <3>3, <4>1
      <4>3. Precedes(u, after[u], t, after[t])
        BY <1>6, <2>12, <3>1, <4>2
      <4> QED BY <3>3, <4>1, <4>3 DEF Precedes
    <3> QED BY <2>10, <2>11, <3>1, <3>2, <3>3
  <2>13. Len(h[u]) > 0 /\ ReadyFrom(h[u][Len(h[u])]) <= clock
    BY <2>9, <2>10, <2>11
  <2>14. h \in Histories /\ Ordered(h) /\ Past(h, clock)
    BY <1>5 DEF InOrder
  <2> HIDE DEF h
  <2>15. Ordered(HistoriesOf(record')) /\ Past(HistoriesOf(record'), clock)
    <3>1. PICK f : f = [h EXCEPT ![u] = Append(h[u], e)]
      OBVIOUS
    <3>2. Ordered(f) /\ Past(f, clock)
      BY <1>1, <2>1, <2>3, <2>12, <2>13, <2>14, <3>1, LeaseOrder
    <3> QED BY <2>8, <3>1, <3>2
  <2>16. HistoriesOf(record') \in Histories
    <3>1. \A t \in Tasks : record'[t] = None \/ record'[t] \in Record
      BY <1>4, <2>4, <2>5
    <3> QED BY <3>1, HistoriesType
  <2> QED BY <2>15, <2>16 DEF InOrder
<1> QED BY <1>7, <1>8, <1>9

(* The invariant of the order.  The clock is not set back: otherwise a     *)
(* task may become ready after a claim was made and with an earlier time   *)
(* than it, and that claim then seems to have passed it over.              *)
OrderInv == QueueInv /\ InOrder(record, clock)

LEMMA OrderInit == Init => OrderInv
<1> SUFFICES ASSUME Init PROVE OrderInv
  OBVIOUS
<1>1. \A t \in Tasks : record[t] = None
  BY DEF Init
<1>2. \A t \in Tasks : HistoriesOf(record)[t] = <<>> /\ Len(HistoriesOf(record)[t]) = 0
  BY <1>1 DEF HistoriesOf, HistoryOf
<1>3. HistoriesOf(record) \in Histories
  BY <1>1, HistoriesType
<1> QED BY <1>2, <1>3, QueueInvInit DEF OrderInv, InOrder, Ordered, Past

LEMMA OrderStep == ~ClockMayStepBack /\ OrderInv /\ [Next]_vars => OrderInv'
<1> SUFFICES ASSUME ~ClockMayStepBack, OrderInv, [Next]_vars PROVE OrderInv'
  OBVIOUS
<1>1. QueueInv /\ InOrder(record, clock) /\ QueueInv'
  BY QueueInvStep DEF OrderInv
<1>2. TypeOK /\ clock \in Nat /\ clock' \in Nat
  BY <1>1, ClockType, TimingAssumption DEF QueueInv, TypeOK
<1>3. clock <= clock'
  BY <1>2 DEF Next, Enqueue, Cancel, ClaimThrows, ClaimIdle, CrashInClaim, ClaimLeases,
     Heartbeat, Succeed, Fail, Write, Tick, StepBack, vars
<1>4. InOrder(record', clock)
  <2>1. CASE UNCHANGED vars
    BY <1>1, <2>1 DEF vars
  <2>2. CASE Next /\ \A t \in Enqueued : record'[t].attempts = record[t].attempts
    <3>1. \A t \in Tasks : AddsQuietly(HistoryOf(record[t]), HistoryOf(record'[t]), clock)
      BY <1>1, <2>2, QuietStep
    <3>2. HistoriesOf(record') \in Histories
      <4>1. \A t \in Tasks : record'[t] = None \/ record'[t] \in Record
        BY <1>1 DEF QueueInv, TypeOK
      <4> QED BY <4>1, HistoriesType
    <3> QED BY <1>1, <1>2, <3>1, <3>2, QuietKeepsOrder
  <2>3. ASSUME NEW w \in Workers, ClaimLeases(w) PROVE InOrder(record', clock)
    <3>1. Next
      BY <2>3 DEF Next
    <3> QED BY <1>1, <2>2, <2>3, <3>1, ClaimKeepsOrder
  <2> QED BY <1>2, <2>1, <2>2, <2>3, OnlyClaimsLease
<1>5. Past(HistoriesOf(record'), clock')
  <2>1. /\ HistoriesOf(record') \in Histories /\ Past(HistoriesOf(record'), clock)
    BY <1>4 DEF InOrder
  <2> DEFINE h == HistoriesOf(record')
  <2> HIDE DEF h
  <2>2. ASSUME NEW t \in Tasks, NEW i \in 1 .. Len(h[t])
        PROVE  h[t][i].at <= clock' /\ ReadyFrom(h[t][i]) \in Nat
    BY <1>2, <1>3, <2>1, HistoryLength DEF Past, h
  <2> QED BY <2>2 DEF Past, h
<1> QED BY <1>1, <1>4, <1>5 DEF OrderInv, InOrder

(* Retries wait for their delay, and whoever is ready first is leased      *)
(* first, for every set of tasks, as long as the clock is not set back.    *)
THEOREM ClaimOrderTheorem == ~ClockMayStepBack => (Spec => []ClaimOrderFair)
<1> SUFFICES ASSUME ~ClockMayStepBack PROVE Spec => []ClaimOrderFair
  OBVIOUS
<1>1. ASSUME OrderInv, NEW u \in Enqueued, NEW i \in EventsOf(record[u], "leased")
      PROVE  LET key == ReadyFrom(record[u].events[i - 1])
                 at  == record[u].events[i].at
             IN /\ key <= at
                /\ \A t \in Enqueued \ {u} : \A k \in DOMAIN record[t].events :
                     LET e == record[t].events[k]
                     IN PhaseAfter(e) = "queued" /\ ReadyFrom(e) < key =>
                          /\ k < Len(record[t].events)
                          /\ record[t].events[k + 1].at <= at
  <2> DEFINE h == HistoriesOf(record)
  <2>1. \A t \in Enqueued : /\ t \in Tasks /\ h[t] = record[t].events
                            /\ record[t].events \in Seq(Event)
                            /\ ValidRecord(t, record[t])
    BY <1>1 DEF OrderInv, QueueInv, Sound, Writable, TypeOK, Enqueued, HistoriesOf, HistoryOf, Record
  <2>2. \A t \in Enqueued : DOMAIN record[t].events = 1 .. Len(h[t]) /\ Len(h[t]) \in Nat
    BY <2>1, LenProperties
  <2>3. i \in 1 .. Len(h[u]) /\ h[u][i].type = "leased" /\ h[u][1].type = "enqueued"
    BY <2>1, <2>2 DEF EventsOf, ValidRecord, LegalHistory
  <2>4. i \in 2 .. Len(h[u])
    <3> HIDE DEF h
    <3>1. i # 1
      BY <2>3
    <3> QED BY <2>2, <2>3, <3>1
  <2>5. RespectsOthers(h, u, i)
    BY <1>1, <2>1, <2>3, <2>4 DEF OrderInv, InOrder, Ordered
  <2> HIDE DEF h
  <2> QED BY <2>1, <2>2, <2>5 DEF RespectsOthers
<1>2. OrderInv => ClaimOrderFair
  BY <1>1 DEF ClaimOrderFair
<1>3. OrderInv /\ [Next]_vars => OrderInv'
  BY OrderStep
<1> QED BY <1>2, <1>3, OrderInit, PTL DEF Spec

-----------------------------------------------------------------------------
(* What a worker sees: entries of a ledger *)

(* The entry of a record at a time, and the ledger of all records.         *)
EntryAt(r, at) ==
  IF r = None THEN None ELSE
  [phase    |-> r.phase,
   attempts |-> r.attempts,
   holder   |-> HolderIn(r),
   issued   |-> UsedLeaseIds(r) \ {None},
   live     |-> r.phase = "leased" /\ ~HasExpired(r, at),
   ready    |-> Eligible(r, at)]

Book == [t \in Tasks |-> EntryAt(record[t], clock)]

LEMMA BookIsLedger == [t \in Tasks |-> EntryOf(record[t])] = Book
BY DEF Book, EntryOf, EntryAt

LEMMA BookIsLedgerNext == [t \in Tasks |-> EntryOf(record[t])]' = Book'
BY DEF Book, EntryOf, EntryAt

-----------------------------------------------------------------------------
(* Entries *)

Reads(e, phase, attempts, holder, issued, live, ready) ==
  /\ e \in Ledger!Entry
  /\ e.phase = phase /\ e.attempts = attempts /\ e.holder = holder
  /\ e.issued = issued /\ e.live = live /\ e.ready = ready

(* An entry is what its fields say. *)
LEMMA SameEntry ==
  ASSUME NEW d, NEW e, NEW p, NEW a, NEW h, NEW i, NEW v, NEW y,
         Reads(d, p, a, h, i, v, y), Reads(e, p, a, h, i, v, y)
  PROVE  d = e
BY DEF Reads, Ledger!Entry

(* The changes of an entry, field by field. *)
LEMMA LeasedForm ==
  ASSUME NEW e \in Ledger!Entry, NEW w \in Workers, NEW l \in LeaseIds
  PROVE  Reads(Ledger!LeasedEntry(e, w, l), "leased", e.attempts + 1, Ledger!HolderOf(w, l),
               e.issued \cup {l}, TRUE, FALSE)
<1> DEFINE d == Ledger!LeasedEntry(e, w, l)
           h == Ledger!HolderOf(w, l)
           i == e.issued \cup {l}
<1>1. /\ "leased" \in Ledger!Phases /\ e.attempts + 1 \in Nat
      /\ h \in Ledger!Holder \cup {None} /\ i \in SUBSET LeaseIds
  BY DEF Ledger!Entry, Ledger!Phases, Ledger!HolderOf, Ledger!Holder
<1>2. d = [e EXCEPT !.phase = "leased", !.attempts = e.attempts + 1, !.holder = h,
                    !.issued = i, !.live = TRUE, !.ready = FALSE]
  BY DEF Ledger!LeasedEntry, Ledger!Entry
<1> HIDE DEF d, h, i
<1>3. d \in Ledger!Entry
  BY <1>1, <1>2 DEF Ledger!Entry
<1>4. d.phase = "leased" /\ d.attempts = e.attempts + 1 /\ d.holder = h /\ d.issued = i
  BY <1>1, <1>2 DEF Ledger!Entry
<1>5. d.live = TRUE /\ d.ready = FALSE
  BY <1>1, <1>2 DEF Ledger!Entry
<1> QED BY <1>3, <1>4, <1>5 DEF Reads, d, h, i

LEMMA ClosedForm ==
  ASSUME NEW e \in Ledger!Entry, NEW p \in Terminal, NEW h \in Ledger!Holder \cup {None}
  PROVE  Reads(Ledger!Closed(e, p, h), p, e.attempts, h, e.issued, FALSE, FALSE)
<1> DEFINE d == Ledger!Closed(e, p, h)
<1>1. p \in Ledger!Phases
  BY DEF Ledger!Phases, Ledger!Terminal, Terminal
<1>2. d = [e EXCEPT !.phase = p, !.holder = h, !.live = FALSE, !.ready = FALSE]
  BY DEF Ledger!Closed
<1> HIDE DEF d
<1>3. d \in Ledger!Entry
  BY <1>1, <1>2 DEF Ledger!Entry
<1>4. d.phase = p /\ d.attempts = e.attempts /\ d.holder = h /\ d.issued = e.issued
  BY <1>1, <1>2 DEF Ledger!Entry
<1>5. d.live = FALSE /\ d.ready = FALSE
  BY <1>1, <1>2 DEF Ledger!Entry
<1> QED BY <1>3, <1>4, <1>5 DEF Reads, d

LEMMA RequeuedForm ==
  ASSUME NEW e \in Ledger!Entry, NEW z \in BOOLEAN
  PROVE  Reads(Ledger!Requeued(e, z), "queued", e.attempts, None, e.issued, FALSE, z)
<1> DEFINE d == Ledger!Requeued(e, z)
<1>1. "queued" \in Ledger!Phases
  BY DEF Ledger!Phases
<1>2. d = [e EXCEPT !.phase = "queued", !.holder = None, !.live = FALSE, !.ready = z]
  BY DEF Ledger!Requeued
<1> HIDE DEF d
<1>3. d \in Ledger!Entry
  BY <1>1, <1>2 DEF Ledger!Entry
<1>4. d.phase = "queued" /\ d.attempts = e.attempts /\ d.holder = None /\ d.issued = e.issued
  BY <1>1, <1>2 DEF Ledger!Entry
<1>5. d.live = FALSE /\ d.ready = z
  BY <1>1, <1>2 DEF Ledger!Entry
<1> QED BY <1>3, <1>4, <1>5 DEF Reads, d

(* The entry of a record that waits, is leased, or is closed. *)
Issued(r) == UsedLeaseIds(r) \ {None}

LEMMA EntryShape ==
  ASSUME NEW r \in Record, NEW at \in Nat, HolderIn(r) \in Ledger!Holder \cup {None}
  PROVE  /\ r.phase = "queued" =>
              Reads(EntryAt(r, at), "queued", r.attempts, None, Issued(r), FALSE,
                    Eligible(r, at))
         /\ r.phase = "leased" =>
              Reads(EntryAt(r, at), "leased", r.attempts, HolderIn(r), Issued(r),
                    ~HasExpired(r, at), FALSE)
         /\ r.phase \in Terminal =>
              Reads(EntryAt(r, at), r.phase, r.attempts, HolderIn(r), Issued(r), FALSE, FALSE)
<1> DEFINE e == EntryAt(r, at)
           live == r.phase = "leased" /\ ~HasExpired(r, at)
           ready == Eligible(r, at)
<1>1. r # None
  BY RecordAssumption
<1>2. e = [phase |-> r.phase, attempts |-> r.attempts, holder |-> HolderIn(r),
           issued |-> Issued(r), live |-> live, ready |-> ready]
  BY <1>1 DEF EntryAt, Issued
<1>3. live \in BOOLEAN /\ ready \in BOOLEAN
  BY DEF Eligible
<1>4. r.phase \in Ledger!Phases /\ r.attempts \in Nat
  BY DEF Record, Phases, Ledger!Phases, Terminal, Ledger!Terminal
<1>5. \A i \in DOMAIN r.events : r.events[i] \in Event
  <2>1. r.events \in Seq(Event)
    BY DEF Record
  <2> QED BY <2>1, LenProperties, ElementOfSeq
<1>6. Issued(r) \in SUBSET LeaseIds
  BY <1>5 DEF Issued, UsedLeaseIds, Event
<1>8. /\ r.phase # "queued" => ready = FALSE
      /\ r.phase # "leased" => live = FALSE
      /\ r.phase = "leased" => live = ~HasExpired(r, at)
      /\ r.phase = "queued" => HolderIn(r) = None
  BY DEF Eligible, HolderIn
<1> HIDE DEF e, live, ready
<1>9. Reads(e, r.phase, r.attempts, HolderIn(r), Issued(r), live, ready)
  BY <1>2, <1>3, <1>4, <1>6 DEF Reads, Ledger!Entry
<1> QED BY <1>8, <1>9 DEF e, ready, Terminal

(* The lease ids a history has used. *)
UsedIn(es) == {es[i].lease : i \in DOMAIN es}

LEMMA UsedByOneMore ==
  ASSUME NEW es \in Seq(Event), NEW e \in Event
  PROVE  UsedIn(Append(es, e)) = UsedIn(es) \cup {e.lease}
<1> DEFINE fs == Append(es, e)
<1>1. /\ Len(es) \in Nat /\ Len(fs) = Len(es) + 1 /\ fs \in Seq(Event)
      /\ \A i \in 1 .. Len(es) : fs[i] = es[i]
      /\ fs[Len(es) + 1] = e
  BY AppendProperties, LenProperties
<1>2. DOMAIN es = 1 .. Len(es) /\ DOMAIN fs = 1 .. Len(es) + 1
  BY <1>1, LenProperties
<1> HIDE DEF fs
<1> QED BY <1>1, <1>2 DEF UsedIn, fs

LEMMA UsedIs == ASSUME NEW r PROVE UsedLeaseIds(r) = UsedIn(r.events)
BY DEF UsedLeaseIds, UsedIn

(* What a valid record that is leased says of its holder. *)
LEMMA HolderIs ==
  ASSUME NEW t \in Tasks, NEW r \in Record, ValidRecord(t, r), r.phase = "leased"
  PROVE  /\ r.lease \in Lease
         /\ HolderIn(r) = Ledger!HolderOf(r.lease.worker, r.lease.id)
         /\ HolderIn(r) \in Ledger!Holder
         /\ r.lease.id \in UsedLeaseIds(r)
<1>1. r.lease \in Lease
  BY LeaseKnown
<1>2. /\ r.lease.id = LastEvent(r).lease /\ r.lease.worker = LastEvent(r).worker
      /\ r.events \in Seq(Event) /\ Len(r.events) > 0
  BY DEF ValidRecord, SummaryAgrees, LegalHistory, Record
<1>3. r.lease.worker # None
  BY <1>1, NoneAssumption DEF Lease
<1>4. Len(r.events) \in DOMAIN r.events
  BY <1>2, LenProperties
<1>5. HolderIn(r) = Ledger!HolderOf(r.lease.worker, r.lease.id)
  BY <1>2, <1>3 DEF HolderIn, Ledger!HolderOf
<1>6. Ledger!HolderOf(r.lease.worker, r.lease.id) \in Ledger!Holder
  BY <1>1 DEF Lease, Ledger!HolderOf, Ledger!Holder
<1> QED BY <1>1, <1>2, <1>4, <1>5, <1>6 DEF UsedLeaseIds, LastEvent

(* The entry of a record that is open, before a change. *)
LEMMA OpenEntry ==
  ASSUME NEW t \in Tasks, NEW r \in Record, ValidRecord(t, r), NEW at \in Nat,
         r.phase \notin Terminal
  PROVE  LET e == EntryAt(r, at)
         IN /\ e \in Ledger!Entry /\ e.phase = r.phase /\ e.attempts = r.attempts
            /\ e.holder = HolderIn(r) /\ e.issued = Issued(r)
            /\ e.phase = "leased" => e.live = ~HasExpired(r, at)
            /\ e.phase = "queued" => e.ready = Eligible(r, at)
<1>1. r.phase \in {"queued", "leased"}
  BY DEF Record, Phases
<1>2. HolderIn(r) \in Ledger!Holder \cup {None}
  BY <1>1, HolderIs DEF HolderIn
<1>3. r.phase = "queued" => HolderIn(r) = None
  BY DEF HolderIn
<1> QED BY <1>1, <1>2, <1>3, EntryShape DEF Reads

(* The entry after one event more: by its phase and its last event.        *)
LEMMA NextHolder ==
  ASSUME NEW r \in Record, NEW s \in Record, NEW e \in Event, Adds(r, s, e)
  PROVE  /\ UsedLeaseIds(s) = UsedLeaseIds(r) \cup {e.lease}
         /\ LastEvent(s) = e
<1>1. r.events \in Seq(Event)
  BY DEF Record
<1>2. UsedIn(s.events) = UsedIn(r.events) \cup {e.lease}
  BY <1>1, UsedByOneMore DEF Adds
<1>3. s.events[Len(s.events)] = e
  <2>1. Len(Append(r.events, e)) = Len(r.events) + 1 /\ Append(r.events, e)[Len(r.events) + 1] = e
    BY <1>1, AppendProperties
  <2> QED BY <2>1 DEF Adds
<1> QED BY <1>2, <1>3, UsedIs DEF LastEvent

-----------------------------------------------------------------------------
(* What each change does to the entry *)

LEMMA FreshEntry ==
  ASSUME NEW at \in Nat PROVE EntryAt(FreshRecord(at), at) = Ledger!NewEntry
<1> DEFINE r == FreshRecord(at)
           e == Ledger!NewEntry
<1>1. /\ r \in Record /\ r.phase = "queued" /\ r.attempts = 0 /\ r.nextAttemptAt = None
      /\ r.events = <<NewEvent("enqueued", at, None, None)>>
  BY FreshType DEF FreshRecord
<1>2. Issued(r) = {} /\ HolderIn(r) = None
  BY <1>1 DEF Issued, UsedLeaseIds, NewEvent, HolderIn
<1>3. Eligible(r, at) = TRUE
  BY <1>1 DEF Eligible
<1>4. "queued" \in Ledger!Phases /\ {} \in SUBSET LeaseIds
  BY DEF Ledger!Phases
<1>5. e = [phase |-> "queued", attempts |-> 0, holder |-> None, issued |-> {}, live |-> FALSE,
           ready |-> TRUE]
  BY DEF Ledger!NewEntry
<1> HIDE DEF r, e
<1>6. Reads(e, "queued", 0, None, {}, FALSE, TRUE)
  BY <1>4, <1>5 DEF Reads, Ledger!Entry
<1>7. Reads(EntryAt(r, at), "queued", 0, None, {}, FALSE, TRUE)
  BY <1>1, <1>2, <1>3, EntryShape
<1> QED BY <1>6, <1>7, SameEntry DEF r, e

LEMMA LeasedEntryIs ==
  ASSUME NEW t \in Tasks, NEW r \in Record, ValidRecord(t, r), NEW at \in Nat,
         Eligible(r, at), NEW w \in Workers, NEW l \in LeaseIds
  PROVE  EntryAt(Leased(r, w, l, at), at) = Ledger!LeasedEntry(EntryAt(r, at), w, l)
<1> DEFINE s == Leased(r, w, l, at)
           e == NewEvent("leased", at, w, l)
<1>1. s \in Record /\ e \in Event /\ e.lease = l /\ e.worker = w
  BY LeasedType, EventType DEF EventTypes, NewEvent
<1>2. /\ s.phase = "leased" /\ s.attempts = r.attempts + 1 /\ Adds(r, s, e)
      /\ s.lease.expiresAt = at + LeaseMs[w] /\ r.phase \notin Terminal
  BY DEF Leased, NewLease, Adds, Record, Eligible, Terminal
<1>3. ~HasExpired(s, at) = TRUE
  BY <1>2, TimingAssumption DEF HasExpired
<1> HIDE DEF s, e
<1>4. UsedLeaseIds(s) = UsedLeaseIds(r) \cup {l} /\ LastEvent(s) = e
  BY <1>1, <1>2, NextHolder
<1>5. HolderIn(s) = Ledger!HolderOf(w, l)
  BY <1>1, <1>2, <1>4, NoneAssumption DEF HolderIn, Ledger!HolderOf
<1>6. Issued(s) = Issued(r) \cup {l} /\ HolderIn(s) \in Ledger!Holder
  BY <1>4, <1>5, NoneAssumption DEF Issued, Ledger!HolderOf, Ledger!Holder
<1>7. Reads(EntryAt(s, at), "leased", r.attempts + 1, Ledger!HolderOf(w, l),
            Issued(r) \cup {l}, TRUE, FALSE)
  BY <1>1, <1>2, <1>3, <1>5, <1>6, EntryShape
<1>8. Reads(Ledger!LeasedEntry(EntryAt(r, at), w, l), "leased", r.attempts + 1,
            Ledger!HolderOf(w, l), Issued(r) \cup {l}, TRUE, FALSE)
  BY <1>2, OpenEntry, LeasedForm
<1> QED BY <1>7, <1>8, SameEntry DEF s

LEMMA RecoveredEntryIs ==
  ASSUME NEW t \in Tasks, NEW r \in Record, ValidRecord(t, r), NEW at \in Nat,
         HasExpired(r, at)
  PROVE  EntryAt(Recovered(t, r, at), at) =
           IF r.attempts >= MaxAttempts[t] THEN Ledger!Closed(EntryAt(r, at), "failed", None)
                                           ELSE Ledger!Requeued(EntryAt(r, at), TRUE)
<1> DEFINE s == Recovered(t, r, at)
           e == NewEvent("recovered", at, r.lease.worker, r.lease.id)
           f == NewEvent("failed", at, None, None)
<1>1. /\ r.phase = "leased" /\ r.phase \notin Terminal /\ r.lease \in Lease
      /\ r.lease.id \in UsedLeaseIds(r)
  BY HolderIs DEF HasExpired, Terminal
<1>2. /\ s \in Record /\ e \in Event /\ f \in Event /\ e.lease = r.lease.id
      /\ f.lease = None /\ f.worker = None
  BY <1>1, RecoveredType, EventType DEF EventTypes, Terminal, NewEvent, Lease
<1>4. CASE r.attempts >= MaxAttempts[t]
  <2>1. s.phase = "failed" /\ s.attempts = r.attempts /\ AddsBoth(r, s, e, f)
    BY <1>4 DEF Recovered, AddsBoth, Record
  <2> HIDE DEF s, e, f
  <2>2. UsedLeaseIds(s) = UsedLeaseIds(r) \cup {None} /\ LastEvent(s) = f
    <3>1. r.events \in Seq(Event) /\ Append(r.events, e) \in Seq(Event)
      BY <1>2, AppendEvent DEF Record
    <3>2. UsedIn(s.events) = (UsedIn(r.events) \cup {r.lease.id}) \cup {None}
      BY <1>2, <2>1, <3>1, UsedByOneMore DEF AddsBoth
    <3>3. s.events[Len(s.events)] = f
      <4> DEFINE es == Append(r.events, e)
      <4>1. es \in Seq(Event) /\ s.events = Append(es, f)
        BY <2>1, <3>1 DEF AddsBoth
      <4> HIDE DEF es
      <4>2. Len(Append(es, f)) = Len(es) + 1 /\ Append(es, f)[Len(es) + 1] = f
        BY <1>2, <4>1, AppendProperties
      <4> QED BY <4>1, <4>2
    <3> QED BY <1>1, <3>2, <3>3, UsedIs DEF LastEvent
  <2>3. HolderIn(s) = None /\ s.phase \in Terminal /\ Issued(s) = Issued(r)
    BY <1>2, <2>1, <2>2 DEF HolderIn, Terminal, Issued
  <2>4. Reads(EntryAt(s, at), "failed", r.attempts, None, Issued(r), FALSE, FALSE)
    BY <1>2, <2>1, <2>3, EntryShape
  <2>5. Reads(Ledger!Closed(EntryAt(r, at), "failed", None), "failed", r.attempts, None,
              Issued(r), FALSE, FALSE)
    <3>1. "failed" \in Terminal
      BY DEF Terminal
    <3> QED BY <1>1, <3>1, OpenEntry, ClosedForm
  <2> QED BY <1>4, <2>4, <2>5, SameEntry DEF s
<1>5. CASE ~(r.attempts >= MaxAttempts[t])
  <2>1. /\ s.phase = "queued" /\ s.attempts = r.attempts /\ Adds(r, s, e)
        /\ s.nextAttemptAt = at
    BY <1>5 DEF Recovered, Adds, Record
  <2> HIDE DEF s, e, f
  <2>2. Issued(s) = Issued(r) /\ HolderIn(s) = None
    BY <1>1, <1>2, <2>1, NextHolder DEF Issued, HolderIn
  <2>3. Eligible(s, at) = TRUE
    BY <2>1 DEF Eligible
  <2>4. Reads(EntryAt(s, at), "queued", r.attempts, None, Issued(r), FALSE, TRUE)
    BY <1>2, <2>1, <2>2, <2>3, EntryShape
  <2>5. Reads(Ledger!Requeued(EntryAt(r, at), TRUE), "queued", r.attempts, None, Issued(r),
              FALSE, TRUE)
    BY <1>1, OpenEntry, RequeuedForm
  <2> QED BY <1>5, <2>4, <2>5, SameEntry DEF s
<1> QED BY <1>4, <1>5

(* What the holder of the lease of r does. *)
LEMMA HolderChange ==
  ASSUME NEW t \in Tasks, NEW r \in Record, ValidRecord(t, r), NEW at \in Nat,
         InTime(r, at), NEW s \in Record, NEW type \in EventTypes,
         Adds(r, s, NewEvent(type, at, r.lease.worker, r.lease.id))
  PROVE  /\ Issued(s) = Issued(r)
         /\ HolderIn(s) = IF s.phase = "queued" THEN None ELSE HolderIn(r)
         /\ HolderIn(r) \in Ledger!Holder /\ r.phase \notin Terminal
         /\ ~HasExpired(r, at) = TRUE
<1> DEFINE e == NewEvent(type, at, r.lease.worker, r.lease.id)
<1>1. /\ r.phase = "leased" /\ r.lease \in Lease /\ r.lease.id \in UsedLeaseIds(r)
      /\ HolderIn(r) = Ledger!HolderOf(r.lease.worker, r.lease.id)
      /\ HolderIn(r) \in Ledger!Holder
  BY HolderIs DEF InTime
<1>2. e \in Event /\ e.lease = r.lease.id /\ e.worker = r.lease.worker /\ e.worker # None
  BY <1>1, EventType, NoneAssumption DEF NewEvent, Lease
<1>3. ~HasExpired(r, at) = TRUE /\ r.phase \notin Terminal
  BY <1>1 DEF HasExpired, InTime, Lease, Terminal
<1> HIDE DEF e
<1>5. UsedLeaseIds(s) = UsedLeaseIds(r) \cup {r.lease.id} /\ LastEvent(s) = e
  BY <1>2, NextHolder DEF e
<1> QED BY <1>1, <1>2, <1>3, <1>5 DEF HolderIn, Ledger!HolderOf, Issued

LEMMA HeartbeatedEntry ==
  ASSUME NEW t \in Tasks, NEW r \in Record, ValidRecord(t, r), NEW at \in Nat, InTime(r, at)
  PROVE  EntryAt(Heartbeated(r, at), at) = EntryAt(r, at)
<1> DEFINE s == Heartbeated(r, at)
<1>1. r.phase = "leased" /\ r.lease \in Lease /\ "heartbeat" \in EventTypes
  BY HolderIs DEF InTime, EventTypes
<1>2. /\ s \in Record /\ s.phase = "leased" /\ s.attempts = r.attempts
      /\ Adds(r, s, NewEvent("heartbeat", at, r.lease.worker, r.lease.id))
      /\ s.lease.expiresAt = at + LeaseMs[r.lease.worker]
  BY <1>1, HeartbeatedType DEF Heartbeated, Adds, Record, Lease
<1>3. LeaseMs[r.lease.worker] \in Nat \ {0}
  BY <1>1, TimingAssumption DEF Lease
<1>4. ~HasExpired(s, at) = TRUE
  BY <1>2, <1>3 DEF HasExpired
<1> HIDE DEF s
<1>5. /\ Issued(s) = Issued(r) /\ HolderIn(s) = HolderIn(r)
      /\ HolderIn(r) \in Ledger!Holder /\ ~HasExpired(r, at) = TRUE
  BY <1>1, <1>2, HolderChange
<1>6. /\ Reads(EntryAt(r, at), "leased", r.attempts, HolderIn(r), Issued(r), TRUE, FALSE)
      /\ Reads(EntryAt(s, at), "leased", r.attempts, HolderIn(r), Issued(r), TRUE, FALSE)
  BY <1>1, <1>2, <1>4, <1>5, EntryShape
<1> QED BY <1>6, SameEntry DEF s

LEMMA SucceededEntry ==
  ASSUME NEW t \in Tasks, NEW r \in Record, ValidRecord(t, r), NEW at \in Nat, InTime(r, at)
  PROVE  EntryAt(Succeeded(r, BaseCommit[t], at), at) =
           Ledger!Closed(EntryAt(r, at), "succeeded", EntryAt(r, at).holder)
<1> DEFINE s == Succeeded(r, BaseCommit[t], at)
<1>1. /\ r.lease \in Lease /\ "succeeded" \in EventTypes /\ "succeeded" \in Terminal
  BY HolderIs DEF InTime, EventTypes, Terminal
<1>2. /\ s \in Record /\ s.phase = "succeeded" /\ s.attempts = r.attempts
      /\ Adds(r, s, NewEvent("succeeded", at, r.lease.worker, r.lease.id))
  BY <1>1, SucceededType DEF Succeeded, Adds, Record
<1> HIDE DEF s
<1>3. /\ Issued(s) = Issued(r) /\ HolderIn(s) = HolderIn(r) /\ r.phase \notin Terminal
      /\ HolderIn(r) \in Ledger!Holder
  BY <1>1, <1>2, HolderChange
<1>4. Reads(EntryAt(s, at), "succeeded", r.attempts, HolderIn(r), Issued(r), FALSE, FALSE)
  BY <1>1, <1>2, <1>3, EntryShape
<1>5. Reads(Ledger!Closed(EntryAt(r, at), "succeeded", EntryAt(r, at).holder), "succeeded",
            r.attempts, HolderIn(r), Issued(r), FALSE, FALSE)
  BY <1>1, <1>3, OpenEntry, ClosedForm
<1> QED BY <1>4, <1>5, SameEntry DEF s

LEMMA FailedEntry ==
  ASSUME NEW t \in Tasks, NEW r \in Record, ValidRecord(t, r), NEW at \in Nat, InTime(r, at),
         NEW kind \in FailureKinds
  PROVE  IF Retries(t, r, kind)
           THEN \E ready \in BOOLEAN :
                  EntryAt(Failed(t, r, kind, at), at) = Ledger!Requeued(EntryAt(r, at), ready)
           ELSE EntryAt(Failed(t, r, kind, at), at) =
                  Ledger!Closed(EntryAt(r, at), "failed", EntryAt(r, at).holder)
<1> DEFINE s == Failed(t, r, kind, at)
<1>1. /\ r.lease \in Lease /\ {"retry-scheduled", "failed"} \subseteq EventTypes
      /\ "failed" \in Terminal
  BY HolderIs DEF InTime, EventTypes, Terminal
<1>2. s \in Record
  BY <1>1, FailedType
<1>3. CASE Retries(t, r, kind)
  <2>1. /\ s.phase = "queued" /\ s.attempts = r.attempts
        /\ Adds(r, s, NewEvent("retry-scheduled", at, r.lease.worker, r.lease.id))
    BY <1>3 DEF Failed, Adds, Record
  <2> HIDE DEF s
  <2>2. Issued(s) = Issued(r) /\ HolderIn(s) = None /\ r.phase \notin Terminal
    BY <1>1, <1>2, <2>1, HolderChange
  <2> DEFINE ready == Eligible(s, at)
  <2>3. ready \in BOOLEAN
    BY DEF Eligible
  <2>4. Reads(EntryAt(s, at), "queued", r.attempts, None, Issued(r), FALSE, ready)
    BY <1>2, <2>1, <2>2, EntryShape
  <2> HIDE DEF ready
  <2>5. Reads(Ledger!Requeued(EntryAt(r, at), ready), "queued", r.attempts, None, Issued(r),
              FALSE, ready)
    BY <2>2, <2>3, OpenEntry, RequeuedForm
  <2>6. EntryAt(s, at) = Ledger!Requeued(EntryAt(r, at), ready)
    BY <2>4, <2>5, SameEntry
  <2> QED BY <1>3, <2>3, <2>6 DEF s
<1>4. CASE ~Retries(t, r, kind)
  <2>1. /\ s.phase = "failed" /\ s.attempts = r.attempts
        /\ Adds(r, s, NewEvent("failed", at, r.lease.worker, r.lease.id))
    BY <1>4 DEF Failed, Adds, Record
  <2> HIDE DEF s
  <2>2. /\ Issued(s) = Issued(r) /\ HolderIn(s) = HolderIn(r) /\ r.phase \notin Terminal
        /\ HolderIn(r) \in Ledger!Holder
    BY <1>1, <1>2, <2>1, HolderChange
  <2>3. Reads(EntryAt(s, at), "failed", r.attempts, HolderIn(r), Issued(r), FALSE, FALSE)
    BY <1>1, <1>2, <2>1, <2>2, EntryShape
  <2>4. Reads(Ledger!Closed(EntryAt(r, at), "failed", EntryAt(r, at).holder), "failed",
              r.attempts, HolderIn(r), Issued(r), FALSE, FALSE)
    BY <1>1, <2>2, OpenEntry, ClosedForm
  <2> QED BY <1>4, <2>3, <2>4, SameEntry DEF s
<1> QED BY <1>3, <1>4

LEMMA CancelledEntry ==
  ASSUME NEW t \in Tasks, NEW r \in Record, ValidRecord(t, r), NEW at \in Nat,
         r.phase \notin Terminal
  PROVE  EntryAt(Cancelled(r, at), at) = Ledger!Closed(EntryAt(r, at), "cancelled", None)
<1> DEFINE s == Cancelled(r, at)
           e == NewEvent("cancelled", at, None, None)
<1>1. /\ s \in Record /\ s.phase = "cancelled" /\ s.attempts = r.attempts
      /\ Adds(r, s, e) /\ e \in Event /\ e.lease = None /\ e.worker = None
      /\ "cancelled" \in Terminal
  BY CancelledType, EventType DEF Cancelled, Adds, Record, EventTypes, Terminal, NewEvent
<1> HIDE DEF s, e
<1>2. Issued(s) = Issued(r) /\ HolderIn(s) = None
  BY <1>1, NextHolder DEF HolderIn, Issued
<1>3. Reads(EntryAt(s, at), "cancelled", r.attempts, None, Issued(r), FALSE, FALSE)
  BY <1>1, <1>2, EntryShape
<1>4. Reads(Ledger!Closed(EntryAt(r, at), "cancelled", None), "cancelled", r.attempts, None,
            Issued(r), FALSE, FALSE)
  BY <1>1, OpenEntry, ClosedForm
<1> QED BY <1>3, <1>4, SameEntry DEF s
-----------------------------------------------------------------------------
(* The actions of the ledger, on the book *)

(* What the recovery of task t makes of its entry. *)
Recovery(t, e) == IF e.attempts >= MaxAttempts[t] THEN Ledger!Closed(e, "failed", None)
                                                  ELSE Ledger!Requeued(e, TRUE)

RecoveredBook(S) == [t \in Tasks |-> IF t \in S THEN Recovery(t, Book[t]) ELSE Book[t]]

LEMMA BookDomain == DOMAIN Book = Tasks
BY DEF Book

LEMMA LedgerEnqueue ==
  ASSUME NEW t \in Tasks, Book[t] = None, Book' = [Book EXCEPT ![t] = Ledger!NewEntry]
  PROVE  Ledger!Next
<1>1. Ledger!Enqueue(t)
  BY BookIsLedger, BookIsLedgerNext DEF Ledger!Enqueue, Ledger!Known
<1> QED BY <1>1 DEF Ledger!Next

LEMMA LedgerCancel ==
  ASSUME NEW t \in Tasks, Book[t] # None, Book[t].phase \in {"queued", "leased"},
         Book' = [Book EXCEPT ![t] = Ledger!Closed(Book[t], "cancelled", None)]
  PROVE  Ledger!Next
<1>1. Ledger!Cancel(t)
  BY BookIsLedger, BookIsLedgerNext, BookDomain DEF Ledger!Cancel, Ledger!In, Ledger!Known
<1> QED BY <1>1 DEF Ledger!Next

LEMMA LedgerRecovering == \A S : Ledger!Recovering(S) = RecoveredBook(S)
BY BookIsLedger DEF Ledger!Recovering, RecoveredBook, Recovery, Ledger!RecoveredEntry

LEMMA LedgerRecover ==
  ASSUME NEW S, S \subseteq Ledger!Lapsed, Book' = RecoveredBook(S)
  PROVE  Ledger!Next
<1>1. Ledger!Recover(S)
  BY LedgerRecovering, BookIsLedgerNext DEF Ledger!Recover
<1>2. S \in SUBSET Ledger!Lapsed
  OBVIOUS
<1> QED BY <1>1, <1>2 DEF Ledger!Next

LEMMA LedgerClaim ==
  ASSUME NEW t \in Tasks, NEW w \in Workers, NEW l \in LeaseIds, Book[t] # None,
         NEW after, after = RecoveredBook(Ledger!Lapsed),
         after[t].phase = "queued", after[t].ready, l \notin after[t].issued,
         Book' = [after EXCEPT ![t] = Ledger!LeasedEntry(after[t], w, l)]
  PROVE  Ledger!Next
<1>1. Ledger!ClaimTask(t, w, l)
  <2>1. Ledger!Recovering(Ledger!Lapsed) = after
    BY LedgerRecovering
  <2>2. t \in Ledger!Known
    BY BookIsLedger DEF Ledger!Known
  <2>3. [u \in Tasks |-> EntryOf(record[u])]' = [after EXCEPT ![t] = Ledger!LeasedEntry(@, w, l)]
    BY BookIsLedgerNext
  <2> QED BY <2>1, <2>2, <2>3 DEF Ledger!ClaimTask
<1> QED BY <1>1 DEF Ledger!Next

LEMMA LedgerHolds ==
  ASSUME NEW t \in Tasks, NEW w, NEW l, Book[t] # None, Book[t].phase = "leased",
         Book[t].holder = Ledger!HolderOf(w, l), Book[t].live
  PROVE  Ledger!Holds(t, w, l)
BY BookIsLedger DEF Ledger!Holds, Ledger!In, Ledger!Known

LEMMA LedgerVerdict ==
  ASSUME NEW t \in Tasks, NEW w \in Workers, NEW l \in LeaseIds, Ledger!Holds(t, w, l),
         NEW phase \in {"succeeded", "failed"},
         Book' = [Book EXCEPT ![t] = Ledger!Closed(Book[t], phase, Book[t].holder)]
  PROVE  Ledger!Next
<1>1. Ledger!Verdict(t, phase)
  BY BookIsLedger, BookIsLedgerNext, BookDomain DEF Ledger!Verdict
<1>2. Ledger!Succeed(t, w, l) \/ Ledger!GiveUp(t, w, l)
  BY <1>1 DEF Ledger!Succeed, Ledger!GiveUp
<1> QED BY <1>2 DEF Ledger!Next

LEMMA LedgerRetry ==
  ASSUME NEW t \in Tasks, NEW w \in Workers, NEW l \in LeaseIds, Ledger!Holds(t, w, l),
         Book[t].attempts < MaxAttempts[t], NEW ready \in BOOLEAN,
         Book' = [Book EXCEPT ![t] = Ledger!Requeued(Book[t], ready)]
  PROVE  Ledger!Next
<1>1. Ledger!Retry(t, w, l)
  <2>1. [u \in Tasks |-> EntryOf(record[u])]' =
          [Book EXCEPT ![t] = Ledger!Requeued(@, ready)]
    BY BookIsLedgerNext, BookDomain
  <2> QED BY <2>1, BookIsLedger DEF Ledger!Retry
<1> QED BY <1>1 DEF Ledger!Next

LEMMA LedgerPass ==
  ASSUME NEW L \in SUBSET Ledger!In("leased"), NEW R \in SUBSET Ledger!In("queued"),
         Book' = [t \in Tasks |-> IF t \in L THEN [Book[t] EXCEPT !.live = FALSE]
                                  ELSE IF t \in R THEN [Book[t] EXCEPT !.ready = TRUE]
                                  ELSE Book[t]]
  PROVE  Ledger!Next
<1>1. Ledger!Pass(L, R)
  BY BookIsLedger, BookIsLedgerNext DEF Ledger!Pass
<1> QED BY <1>1 DEF Ledger!Next
-----------------------------------------------------------------------------
(* The book of what is on disk *)

OnDisk == TypeOK /\ DiskValid

LEMMA DiskFacts ==
  ASSUME OnDisk, NEW t \in Enqueued
  PROVE  /\ t \in Tasks /\ record[t] # None /\ record[t] \in Record
         /\ ValidRecord(t, record[t]) /\ Writable(t, record[t]) /\ clock \in Nat
         /\ Book[t] = EntryAt(record[t], clock)
BY ClockType DEF OnDisk, TypeOK, DiskValid, Enqueued, Writable, Book

LEMMA NotOnDisk == ASSUME NEW t \in Tasks, t \notin Enqueued PROVE Book[t] = None
BY DEF Book, Enqueued, EntryAt

LEMMA OpenBook ==
  ASSUME OnDisk, NEW t \in Enqueued, record[t].phase \notin Terminal
  PROVE  /\ Book[t] \in Ledger!Entry /\ Book[t] # None
         /\ Book[t].phase = record[t].phase /\ Book[t].phase \in {"queued", "leased"}
         /\ Book[t].attempts = record[t].attempts
         /\ Book[t].holder = HolderIn(record[t]) /\ Book[t].issued = Issued(record[t])
         /\ Book[t].phase = "leased" => Book[t].live = ~HasExpired(record[t], clock)
         /\ Book[t].phase = "queued" => Book[t].ready = Eligible(record[t], clock)
<1>1. record[t].phase \in {"queued", "leased"}
  BY DiskFacts DEF Record, Phases
<1> QED BY <1>1, DiskFacts, OpenEntry, EntryAssumption

LEMMA BookPhase ==
  ASSUME OnDisk, NEW t \in Tasks, Book[t] # None
  PROVE  t \in Enqueued /\ Book[t].phase = record[t].phase
<1>1. t \in Enqueued
  BY NotOnDisk
<1>2. Book[t] = EntryAt(record[t], clock) /\ record[t] # None
  BY <1>1, DiskFacts
<1> QED BY <1>1, <1>2 DEF EntryAt

LEMMA InBook ==
  ASSUME OnDisk, NEW phase \in {"queued", "leased"}
  PROVE  Ledger!In(phase) = {t \in Enqueued : record[t].phase = phase}
<1>1. Ledger!In(phase) = {t \in Tasks : Book[t] # None /\ Book[t].phase = phase}
  BY BookIsLedger DEF Ledger!In, Ledger!Known
<1>2. \A t \in Enqueued : t \in Tasks
  BY DEF Enqueued
<1>3. phase \notin Terminal
  BY DEF Terminal
<1> QED BY <1>1, <1>2, <1>3, BookPhase, OpenBook

LEMMA LapsedIsDue == ASSUME OnDisk PROVE Ledger!Lapsed = Due
<1>1. Ledger!Lapsed = {t \in Ledger!In("leased") : ~Book[t].live}
  <2>1. Ledger!In("leased") \subseteq Tasks
    BY DEF Ledger!In, Ledger!Known
  <2> QED BY <2>1, BookIsLedger DEF Ledger!Lapsed
<1>2. ASSUME NEW t \in Enqueued, record[t].phase = "leased"
      PROVE  Book[t].live = ~HasExpired(record[t], clock)
  BY <1>2, OpenBook DEF Terminal
<1> QED BY <1>1, <1>2, InBook DEF Due, HasExpired

LEMMA WriteBook ==
  ASSUME OnDisk, NEW u \in Tasks, NEW s, record' = [record EXCEPT ![u] = s], UNCHANGED clock
  PROVE  Book' = [Book EXCEPT ![u] = EntryAt(s, clock)]
<1>1. DOMAIN record = Tasks
  BY DEF OnDisk, TypeOK
<1>2. Book' = [t \in Tasks |-> EntryAt(record'[t], clock)]
  BY DEF Book
<1> QED BY <1>1, <1>2 DEF Book

BookAfter(S) == [t \in Tasks |-> EntryAt(AfterRecovery(S)[t], clock)]

LEMMA RecoveredIs ==
  ASSUME OnDisk, NEW S, S \subseteq Due PROVE BookAfter(S) = RecoveredBook(S)
<1>1. ASSUME NEW t \in S
      PROVE  EntryAt(AfterRecovery(S)[t], clock) = Recovery(t, Book[t])
  <2>1. t \in Enqueued /\ HasExpired(record[t], clock) /\ record[t].phase \notin Terminal
    BY DEF Due, HasExpired, Terminal
  <2>2. AfterRecovery(S)[t] = Recovered(t, record[t], clock)
    BY <2>1, DiskFacts DEF AfterRecovery
  <2>3. Book[t].attempts = record[t].attempts
    BY <2>1, OpenBook
  <2>4. /\ t \in Tasks /\ record[t] \in Record /\ ValidRecord(t, record[t]) /\ clock \in Nat
        /\ Book[t] = EntryAt(record[t], clock)
    BY <2>1, DiskFacts
  <2>5. EntryAt(Recovered(t, record[t], clock), clock) =
          IF record[t].attempts >= MaxAttempts[t]
            THEN Ledger!Closed(EntryAt(record[t], clock), "failed", None)
            ELSE Ledger!Requeued(EntryAt(record[t], clock), TRUE)
    BY <2>1, <2>4, RecoveredEntryIs
  <2> QED BY <2>2, <2>3, <2>4, <2>5 DEF Recovery
<1>2. ASSUME NEW t \in Tasks \ S PROVE EntryAt(AfterRecovery(S)[t], clock) = Book[t]
  BY DEF AfterRecovery, Book
<1> QED BY <1>1, <1>2 DEF BookAfter, RecoveredBook

-----------------------------------------------------------------------------
(* The calls *)

LEMMA RecoveryStep ==
  ASSUME OnDisk, NEW S, S \subseteq Due, record' = AfterRecovery(S), UNCHANGED clock
  PROVE  Ledger!Next
<1>1. Book' = BookAfter(S)
  BY DEF Book, BookAfter
<1> QED BY <1>1, RecoveredIs, LapsedIsDue, LedgerRecover

LEMMA ClaimStep ==
  ASSUME OnDisk, NEW w \in Workers, ClaimLeases(w) PROVE Ledger!Next
<1> DEFINE rec == AfterRecovery(Due)
           after == BookAfter(Due)
<1>0. Refused = {} /\ UNCHANGED clock
  BY DEF ClaimLeases
<1>a. PICK u \in Enqueued :
        /\ Eligible(rec[u], clock)
        /\ \E l \in LeaseIds \ UsedLeaseIds(rec[u]) :
             record' = IF Writable(u, Leased(rec[u], w, l, clock))
                         THEN [rec EXCEPT ![u] = Leased(rec[u], w, l, clock)]
                         ELSE rec
  BY DEF ClaimLeases
<1>1. PICK l \in LeaseIds \ UsedLeaseIds(rec[u]) :
        record' = IF Writable(u, Leased(rec[u], w, l, clock))
                    THEN [rec EXCEPT ![u] = Leased(rec[u], w, l, clock)]
                    ELSE rec
  BY <1>a
<1>2. CASE record' = rec
  BY <1>0, <1>2, RecoveryStep
<1>3. CASE record' = [rec EXCEPT ![u] = Leased(rec[u], w, l, clock)]
  <2>1. u \in Tasks /\ clock \in Nat /\ record[u] \in Record /\ Writable(u, record[u])
    BY DiskFacts
  <2>2. rec[u] \in Record /\ ValidRecord(u, rec[u])
    <3>1. rec[u] = record[u] \/ Rewrite(u, record[u], rec[u])
      BY <1>0, <2>1, RecoveryShape
    <3> QED BY <2>1, <3>1, ChangeType DEF Rewrite, Writable
  <2>3. DOMAIN rec = Tasks
    BY DEF AfterRecovery
  <2>4. after[u] = EntryAt(rec[u], clock)
    BY <2>1 DEF BookAfter
  <2>5. Book' = [after EXCEPT ![u] = EntryAt(Leased(rec[u], w, l, clock), clock)]
    <3>1. Book' = [t \in Tasks |-> EntryAt(record'[t], clock)]
      BY <1>0 DEF Book
    <3> HIDE DEF rec
    <3>2. after = [t \in Tasks |-> EntryAt(rec[t], clock)]
      BY DEF BookAfter, rec
    <3> QED BY <1>3, <2>1, <2>3, <3>1, <3>2
  <2>6. EntryAt(Leased(rec[u], w, l, clock), clock) = Ledger!LeasedEntry(after[u], w, l)
    BY <1>a, <2>1, <2>2, <2>4, LeasedEntryIs
  <2>7. after[u].phase = "queued" /\ after[u].ready /\ l \notin after[u].issued
    <3>1. rec[u].phase \notin Terminal /\ rec[u].phase = "queued"
      BY <1>a DEF Eligible, Terminal
    <3>2. /\ after[u].phase = "queued" /\ after[u].issued = Issued(rec[u])
          /\ after[u].ready = Eligible(rec[u], clock)
      BY <2>1, <2>2, <2>4, <3>1, OpenEntry
    <3> QED BY <1>a, <1>1, <3>2 DEF Issued
  <2>8. after = RecoveredBook(Ledger!Lapsed)
    BY RecoveredIs, LapsedIsDue
  <2>9. Book[u] # None
    <3>1. CASE record[u].phase \notin Terminal
      BY <3>1, OpenBook
    <3>2. CASE record[u].phase \in Terminal
      <4>1. u \notin Due
        BY <3>2 DEF Due, HasExpired, Terminal
      <4>2. rec[u] = record[u]
        BY <2>1, <4>1 DEF AfterRecovery
      <4> QED BY <1>a, <3>2, <4>2 DEF Eligible, Terminal
    <3> QED BY <3>1, <3>2
  <2> HIDE DEF after, rec
  <2> QED BY <2>1, <2>5, <2>6, <2>7, <2>8, <2>9, LedgerClaim
<1> QED BY <1>1, <1>2, <1>3

LEMMA HolderStep ==
  ASSUME OnDisk, NEW t \in Tasks, NEW w \in Workers, NEW l \in LeaseIds, t \in Enqueued,
         ActiveLease(record[t], w, l, clock)
  PROVE  /\ Heartbeat(t, w, l) => Book' = Book
         /\ \A result \in Commits : Succeed(t, w, l, result) => Ledger!Next
         /\ \A kind \in FailureKinds : Fail(t, w, l, kind) => Ledger!Next
<1> DEFINE r == record[t]
<1>1. r \in Record /\ ValidRecord(t, r) /\ clock \in Nat /\ Book[t] = EntryAt(r, clock)
  BY DiskFacts
<1>2. InTime(r, clock) /\ r.phase \notin Terminal /\ r.phase = "leased"
      /\ r.lease.worker = w /\ r.lease.id = l
  BY DEF ActiveLease, InTime, Terminal
<1>3. Ledger!Holds(t, w, l)
  <2>1. HolderIn(r) = Ledger!HolderOf(w, l)
    BY <1>1, <1>2, HolderIs
  <2>2. ~HasExpired(r, clock)
    BY <1>1, <1>2, HolderIs DEF HasExpired, InTime, Lease
  <2> QED BY <1>2, <2>1, <2>2, OpenBook, LedgerHolds
<1>4. ASSUME Heartbeat(t, w, l) PROVE Book' = Book
  <2>1. Book' = [Book EXCEPT ![t] = EntryAt(Heartbeated(r, clock), clock)]
    BY <1>4, WriteBook DEF Heartbeat, Write
  <2>2. EntryAt(Heartbeated(r, clock), clock) = Book[t]
    BY <1>1, <1>2, HeartbeatedEntry
  <2> QED BY <2>1, <2>2, BookDomain DEF Book
<1>5. ASSUME NEW result \in Commits, Succeed(t, w, l, result) PROVE Ledger!Next
  <2>1. Book' = [Book EXCEPT ![t] = EntryAt(Succeeded(r, BaseCommit[t], clock), clock)]
    BY <1>5, WriteBook DEF Succeed, Write
  <2>2. EntryAt(Succeeded(r, BaseCommit[t], clock), clock) =
          Ledger!Closed(Book[t], "succeeded", Book[t].holder)
    BY <1>1, <1>2, SucceededEntry
  <2> QED BY <1>3, <2>1, <2>2, LedgerVerdict
<1>6. ASSUME NEW kind \in FailureKinds, Fail(t, w, l, kind) PROVE Ledger!Next
  <2>1. Book' = [Book EXCEPT ![t] = EntryAt(Failed(t, r, kind, clock), clock)]
    BY <1>6, WriteBook DEF Fail, Write
  <2>2. CASE Retries(t, r, kind)
    <3>1. PICK ready \in BOOLEAN :
            EntryAt(Failed(t, r, kind, clock), clock) = Ledger!Requeued(Book[t], ready)
      BY <1>1, <1>2, <2>2, FailedEntry
    <3>2. Book[t].attempts < MaxAttempts[t]
      BY <1>2, <2>2, OpenBook DEF Retries
    <3>3. Book' = [Book EXCEPT ![t] = Ledger!Requeued(Book[t], ready)]
      BY <2>1, <3>1
    <3> QED BY <1>3, <3>2, <3>3, LedgerRetry
  <2>3. CASE ~Retries(t, r, kind)
    <3>1. EntryAt(Failed(t, r, kind, clock), clock) =
            Ledger!Closed(Book[t], "failed", Book[t].holder)
      BY <1>1, <1>2, <2>3, FailedEntry
    <3> QED BY <1>3, <2>1, <3>1, LedgerVerdict
  <2> QED BY <2>2, <2>3
<1> QED BY <1>4, <1>5, <1>6

LEMMA EnqueueStep == ASSUME OnDisk, NEW t \in Tasks, Enqueue(t) PROVE Ledger!Next
<1>1. clock \in Nat /\ Book[t] = None
  BY ClockType, NotOnDisk DEF OnDisk, Enqueue
<1>2. Book' = [Book EXCEPT ![t] = EntryAt(FreshRecord(clock), clock)]
  BY WriteBook DEF Enqueue, Write
<1>3. EntryAt(FreshRecord(clock), clock) = Ledger!NewEntry
  BY <1>1, FreshEntry
<1> QED BY <1>1, <1>2, <1>3, LedgerEnqueue

LEMMA CancelStep == ASSUME OnDisk, NEW t \in Tasks, Cancel(t) PROVE Ledger!Next
<1>1. t \in Enqueued /\ record[t].phase \notin Terminal
  BY DEF Cancel
<1>2. Book' = [Book EXCEPT ![t] = EntryAt(Cancelled(record[t], clock), clock)]
  BY WriteBook DEF Cancel, Write
<1>3. EntryAt(Cancelled(record[t], clock), clock) = Ledger!Closed(Book[t], "cancelled", None)
  BY <1>1, DiskFacts, CancelledEntry
<1> QED BY <1>1, <1>2, <1>3, OpenBook, LedgerCancel

LEMMA LiveForm ==
  ASSUME NEW e \in Ledger!Entry
  PROVE  Reads([e EXCEPT !.live = FALSE], e.phase, e.attempts, e.holder, e.issued, FALSE, e.ready)
<1> DEFINE d == [e EXCEPT !.live = FALSE]
<1>1. d \in Ledger!Entry /\ d.phase = e.phase /\ d.attempts = e.attempts
      /\ d.holder = e.holder /\ d.issued = e.issued
  BY DEF Ledger!Entry
<1>2. d.live = FALSE /\ d.ready = e.ready
  BY DEF Ledger!Entry
<1> QED BY <1>1, <1>2 DEF Reads

LEMMA ReadyForm ==
  ASSUME NEW e \in Ledger!Entry
  PROVE  Reads([e EXCEPT !.ready = TRUE], e.phase, e.attempts, e.holder, e.issued, e.live, TRUE)
<1> DEFINE d == [e EXCEPT !.ready = TRUE]
<1>1. d \in Ledger!Entry /\ d.phase = e.phase /\ d.attempts = e.attempts
      /\ d.holder = e.holder /\ d.issued = e.issued
  BY DEF Ledger!Entry
<1>2. d.live = e.live /\ d.ready = TRUE
  BY DEF Ledger!Entry
<1> QED BY <1>1, <1>2 DEF Reads

(* Time passes a record by. *)
LEMMA LaterEntry ==
  ASSUME NEW t \in Tasks, NEW r \in Record, ValidRecord(t, r), NEW at \in Nat
  PROVE  EntryAt(r, at + 1) =
           IF HasExpired(r, at + 1) THEN [EntryAt(r, at) EXCEPT !.live = FALSE]
           ELSE IF Eligible(r, at + 1) THEN [EntryAt(r, at) EXCEPT !.ready = TRUE]
           ELSE EntryAt(r, at)
<1>0. /\ r # None /\ at + 1 \in Nat /\ r.phase \in {"queued", "leased"} \cup Terminal
  BY RecordAssumption DEF Record, Phases
<1>1. CASE r.phase \in Terminal
  <2>1. /\ ~HasExpired(r, at + 1) /\ Eligible(r, at + 1) = FALSE /\ Eligible(r, at) = FALSE
        /\ (r.phase = "leased") = FALSE
    BY <1>1 DEF HasExpired, Eligible, Terminal
  <2> QED BY <1>0, <2>1 DEF EntryAt
<1>2. CASE r.phase = "leased"
  <2>0. HolderIn(r) \in Ledger!Holder /\ r.lease \in Lease /\ ~Eligible(r, at + 1)
    BY <1>2, HolderIs DEF Eligible
  <2>1. /\ Reads(EntryAt(r, at), "leased", r.attempts, HolderIn(r), Issued(r),
                 ~HasExpired(r, at), FALSE)
        /\ Reads(EntryAt(r, at + 1), "leased", r.attempts, HolderIn(r), Issued(r),
                 ~HasExpired(r, at + 1), FALSE)
    BY <1>0, <1>2, <2>0, EntryShape
  <2>2. CASE HasExpired(r, at + 1)
    <3>1. (~HasExpired(r, at + 1)) = FALSE
      BY <2>2
    <3>2. Reads([EntryAt(r, at) EXCEPT !.live = FALSE], "leased", r.attempts, HolderIn(r),
                Issued(r), FALSE, FALSE)
      BY <2>1, LiveForm DEF Reads
    <3> QED BY <2>1, <2>2, <3>1, <3>2, SameEntry
  <2>3. CASE ~HasExpired(r, at + 1)
    <3>1. (~HasExpired(r, at + 1)) = TRUE /\ (~HasExpired(r, at)) = TRUE
      BY <2>0, <2>3 DEF HasExpired, Lease
    <3> QED BY <2>0, <2>1, <2>3, <3>1, SameEntry
  <2> QED BY <2>2, <2>3
<1>3. CASE r.phase = "queued"
  <2>0. HolderIn(r) = None /\ ~HasExpired(r, at + 1)
    BY <1>3 DEF HasExpired, HolderIn
  <2>1. /\ Reads(EntryAt(r, at), "queued", r.attempts, None, Issued(r), FALSE, Eligible(r, at))
        /\ Reads(EntryAt(r, at + 1), "queued", r.attempts, None, Issued(r), FALSE,
                 Eligible(r, at + 1))
    BY <1>0, <1>3, <2>0, EntryShape
  <2>2. CASE Eligible(r, at + 1)
    <3>1. Eligible(r, at + 1) = TRUE
      BY <2>2 DEF Eligible
    <3>2. Reads([EntryAt(r, at) EXCEPT !.ready = TRUE], "queued", r.attempts, None, Issued(r),
                FALSE, TRUE)
      BY <2>1, ReadyForm DEF Reads
    <3> QED BY <2>0, <2>1, <2>2, <3>1, <3>2, SameEntry
  <2>3. CASE ~Eligible(r, at + 1)
    <3>1. Eligible(r, at + 1) = FALSE /\ Eligible(r, at) = FALSE
      BY <2>3 DEF Eligible, Record
    <3> QED BY <2>0, <2>1, <2>3, <3>1, SameEntry
  <2> QED BY <2>2, <2>3
<1> QED BY <1>0, <1>1, <1>2, <1>3

LEMMA TickStep == ASSUME OnDisk, Tick PROVE Ledger!Next
<1> DEFINE L == {t \in Ledger!In("leased") : HasExpired(record[t], clock + 1)}
           R == {t \in Ledger!In("queued") : Eligible(record[t], clock + 1)}
<1>1. /\ L = {t \in Enqueued : HasExpired(record[t], clock + 1)}
      /\ R = {t \in Enqueued : Eligible(record[t], clock + 1)}
  BY InBook DEF HasExpired, Eligible
<1>2. Book' = [t \in Tasks |-> EntryAt(record[t], clock + 1)]
  BY DEF Tick, Book
<1>3. ASSUME NEW t \in Tasks
      PROVE  EntryAt(record[t], clock + 1) =
               IF t \in L THEN [Book[t] EXCEPT !.live = FALSE]
               ELSE IF t \in R THEN [Book[t] EXCEPT !.ready = TRUE]
               ELSE Book[t]
  <2>1. CASE t \in Enqueued
    BY <1>1, <2>1, DiskFacts, LaterEntry
  <2>2. CASE t \notin Enqueued
    BY <1>1, <2>2, NotOnDisk DEF Enqueued, EntryAt
  <2> QED BY <2>1, <2>2
<1>4. L \in SUBSET Ledger!In("leased") /\ R \in SUBSET Ledger!In("queued")
  OBVIOUS
<1> HIDE DEF L, R
<1>5. Book' = [t \in Tasks |-> IF t \in L THEN [Book[t] EXCEPT !.live = FALSE]
                               ELSE IF t \in R THEN [Book[t] EXCEPT !.ready = TRUE]
                               ELSE Book[t]]
  BY <1>2, <1>3
<1> QED BY <1>4, <1>5, LedgerPass

-----------------------------------------------------------------------------
LEMMA LedgerStep ==
  ASSUME ~ClockMayStepBack, OnDisk, Next
  PROVE  Ledger!Next \/ Book' = Book
<1>1. CASE ClaimThrows \/ ClaimIdle \/ CrashInClaim
  <2>1. CASE ClaimThrows
    <3>1. {t \in Due : \A b \in Refused : t < b} \subseteq Due
      OBVIOUS
    <3> QED BY <2>1, <3>1, RecoveryStep DEF ClaimThrows
  <2>2. CASE ClaimIdle
    BY <2>2, RecoveryStep DEF ClaimIdle
  <2>3. CASE CrashInClaim
    <3>1. PICK k \in Due : record' = AfterRecovery({t \in Due : t <= k})
      BY <2>3 DEF CrashInClaim
    <3>2. {t \in Due : t <= k} \subseteq Due
      OBVIOUS
    <3> QED BY <2>3, <3>1, <3>2, RecoveryStep DEF CrashInClaim
  <2> QED BY <1>1, <2>1, <2>2, <2>3
<1>2. CASE Tick \/ StepBack
  BY <1>2, TickStep DEF StepBack
<1>3. ASSUME NEW t \in Tasks, Enqueue(t) \/ Cancel(t) PROVE Ledger!Next
  BY <1>3, EnqueueStep, CancelStep
<1>4. ASSUME NEW t \in Tasks, NEW w \in Workers, NEW l \in LeaseIds,
             \/ Heartbeat(t, w, l)
             \/ \E result \in Commits : Succeed(t, w, l, result)
             \/ \E kind \in FailureKinds : Fail(t, w, l, kind)
      PROVE  Ledger!Next \/ Book' = Book
  <2>1. t \in Enqueued /\ ActiveLease(record[t], w, l, clock)
    BY <1>4 DEF Heartbeat, Succeed, Fail
  <2> QED BY <1>4, <2>1, HolderStep
<1> QED BY <1>1, <1>2, <1>3, <1>4, ClaimStep DEF Next

(* A clock that is not set back assumed, the queue is a ledger: a lease is *)
(* given to one holder at a time, only its holder settles a task, and only *)
(* while it is live, however calls, crashes and refused writes mix.        *)
THEOREM ImplementsLedgerTheorem == ~ClockMayStepBack => (Spec => ImplementsLedger)
<1> SUFFICES ASSUME ~ClockMayStepBack PROVE Spec => ImplementsLedger
  OBVIOUS
<1> DEFINE view == [t \in Tasks |-> EntryOf(record[t])]
<1>1. Init => Ledger!Init
  BY DEF Init, Ledger!Init, EntryOf
<1>2. OnDisk /\ [Next]_vars => [Ledger!Next]_view
  <2>1. view = Book /\ view' = Book'
    BY BookIsLedger, BookIsLedgerNext
  <2>2. CASE UNCHANGED vars
    BY <2>1, <2>2 DEF vars, Book
  <2>3. CASE OnDisk /\ Next
    BY <2>1, <2>3, LedgerStep
  <2> QED BY <2>2, <2>3
<1>3. Spec => []OnDisk
  BY TypeInit, TypeStep, PTL DEF Spec, OnDisk
<1> QED BY <1>1, <1>2, <1>3, PTL DEF Spec, ImplementsLedger, Ledger!Spec, view

-----------------------------------------------------------------------------
(* The report.  A step writes the present only: events, starts and ends    *)
(* that a step adds bear the time of the clock, and a closed window ends   *)
(* no later than that.                                                     *)

AddsNow(es, fs, at) == /\ PrefixOf(es, fs)
                       /\ \A i \in Len(es) + 1 .. Len(fs) : fs[i].at = at

(* What the report reads of a record r before and s after a step at a time. *)
WrittenNow(r, s, at) ==
  /\ s.startedAt = r.startedAt \/ (r.startedAt = None /\ s.startedAt = at)
  /\ s.finishedAt = r.finishedAt \/ (r.finishedAt = None /\ s.finishedAt = at)
  /\ r.finishedAt # None => s = r
  /\ AddsNow(r.events, s.events, at)

LEMMA NowTransitive ==
  ASSUME NEW es \in Seq(Event), NEW fs \in Seq(Event), NEW gs \in Seq(Event), NEW at,
         AddsNow(es, fs, at), AddsNow(fs, gs, at)
  PROVE  AddsNow(es, gs, at)
<1>1. Len(es) \in Nat /\ Len(fs) \in Nat /\ Len(gs) \in Nat
  BY LenProperties
<1>2. PrefixOf(es, gs)
  BY PrefixTransitive DEF AddsNow
<1>3. ASSUME NEW i \in Len(es) + 1 .. Len(gs) PROVE gs[i].at = at
  <2>1. CASE i <= Len(fs)
    <3>1. i \in Len(es) + 1 .. Len(fs) /\ i \in 1 .. Len(fs)
      BY <1>1, <2>1
    <3>2. gs[i] = fs[i]
      BY <3>1 DEF AddsNow, PrefixOf
    <3> QED BY <3>1, <3>2 DEF AddsNow
  <2>2. CASE i > Len(fs)
    <3>1. i \in Len(fs) + 1 .. Len(gs)
      BY <1>1, <2>2
    <3> QED BY <3>1 DEF AddsNow
  <2> QED BY <1>1, <2>1, <2>2
<1> QED BY <1>2, <1>3 DEF AddsNow

LEMMA NowAppend ==
  ASSUME NEW es \in Seq(Event), NEW e \in Event, NEW at, e.at = at
  PROVE  Append(es, e) \in Seq(Event) /\ AddsNow(es, Append(es, e), at)
<1> DEFINE fs == Append(es, e)
<1>1. /\ Len(es) \in Nat /\ Len(fs) = Len(es) + 1 /\ fs[Len(es) + 1] = e
      /\ PrefixOf(es, fs) /\ fs \in Seq(Event)
  BY AppendIs, AppendPrefix
<1> HIDE DEF fs
<1>2. \A i \in Len(es) + 1 .. Len(fs) : fs[i] = e
  BY <1>1
<1>3. AddsNow(es, fs, at)
  BY <1>1, <1>2 DEF AddsNow
<1> QED BY <1>1, <1>3 DEF fs

LEMMA SameNow == ASSUME NEW r \in Record, NEW at PROVE WrittenNow(r, r, at)
<1>1. r.events \in Seq(Event) /\ Len(r.events) \in Nat
  BY LenProperties DEF Record
<1>2. Len(r.events) + 1 .. Len(r.events) = {}
  BY <1>1
<1> QED BY <1>1, <1>2 DEF WrittenNow, AddsNow, PrefixOf

LEMMA ChangeNow ==
  ASSUME NEW t \in Tasks, NEW r \in Record, ValidRecord(t, r), NEW at \in Nat,
         NEW s \in Record, Change(t, r, s, at)
  PROVE  WrittenNow(r, s, at) /\ r.finishedAt = None
<1>1. r.events \in Seq(Event)
  BY DEF Record
<1>2. r.finishedAt = None
  <2>1. r.phase \in {"queued", "leased"}
    BY ChangeNotTerminal DEF Record, Phases
  <2> QED BY <2>1 DEF ValidRecord, PhaseFieldsAgree
<1>3. ASSUME s.startedAt = r.startedAt \/ (r.startedAt = None /\ s.startedAt = at),
             s.finishedAt = r.finishedAt \/ s.finishedAt = at,
             NEW e \in Event, e.at = at, Adds(r, s, e)
      PROVE  WrittenNow(r, s, at) /\ r.finishedAt = None
  BY <1>1, <1>2, <1>3, NowAppend DEF Adds, WrittenNow
<1>4. ASSUME NEW w \in Workers, NEW l \in LeaseIds, s = Leased(r, w, l, at)
      PROVE  WrittenNow(r, s, at) /\ r.finishedAt = None
  <2> DEFINE e == NewEvent("leased", at, w, l)
  <2>1. e \in Event /\ e.at = at
    BY EventType DEF EventTypes, NewEvent
  <2>2. /\ Adds(r, s, e) /\ s.finishedAt = r.finishedAt
        /\ s.startedAt = IF r.startedAt = None THEN at ELSE r.startedAt
    BY <1>4 DEF Leased, Adds, Record
  <2> HIDE DEF e
  <2> QED BY <1>3, <2>1, <2>2
<1>5. ASSUME r.phase = "leased", NEW type \in EventTypes,
             NEW e, e = NewEvent(type, at, r.lease.worker, r.lease.id)
      PROVE  e \in Event /\ e.at = at
  BY <1>5, LeasedFacts, EventType DEF NewEvent
<1>6. CASE r.phase = "leased" /\ s = Recovered(t, r, at)
  <2> DEFINE e == NewEvent("recovered", at, r.lease.worker, r.lease.id)
             f == NewEvent("failed", at, None, None)
             es == Append(r.events, e)
  <2>1. /\ s.startedAt = r.startedAt /\ (s.finishedAt = r.finishedAt \/ s.finishedAt = at)
        /\ Adds(r, s, e) \/ s.events = Append(es, f)
    BY <1>6 DEF Recovered, Adds, Record
  <2>2. e \in Event /\ f \in Event /\ e.at = at /\ f.at = at
    BY <1>5, <1>6, EventType DEF EventTypes, Terminal, NewEvent
  <2>3. es \in Seq(Event) /\ AddsNow(r.events, es, at)
    BY <1>1, <2>2, NowAppend
  <2> HIDE DEF e, f, es
  <2>4. CASE Adds(r, s, e)
    BY <1>3, <2>1, <2>2, <2>4
  <2>5. CASE s.events = Append(es, f)
    <3>1. Append(es, f) \in Seq(Event) /\ AddsNow(es, Append(es, f), at)
      BY <2>2, <2>3, NowAppend
    <3>2. AddsNow(r.events, Append(es, f), at)
      BY <1>1, <2>3, <3>1, NowTransitive
    <3> QED BY <1>2, <2>1, <2>5, <3>2 DEF WrittenNow
  <2> QED BY <2>1, <2>4, <2>5
<1>7. CASE r.phase = "leased" /\ s = Heartbeated(r, at)
  <2>1. /\ s.startedAt = r.startedAt /\ s.finishedAt = r.finishedAt
        /\ Adds(r, s, NewEvent("heartbeat", at, r.lease.worker, r.lease.id))
    BY <1>7 DEF Heartbeated, Adds, Record
  <2> QED BY <1>3, <1>5, <1>7, <2>1 DEF EventTypes
<1>8. CASE r.phase = "leased" /\ s = Succeeded(r, BaseCommit[t], at)
  <2>1. /\ s.startedAt = r.startedAt /\ s.finishedAt = at
        /\ Adds(r, s, NewEvent("succeeded", at, r.lease.worker, r.lease.id))
    BY <1>8 DEF Succeeded, Adds, Record
  <2> QED BY <1>3, <1>5, <1>8, <2>1 DEF EventTypes, Terminal
<1>9. ASSUME NEW kind \in FailureKinds, r.phase = "leased", s = Failed(t, r, kind, at)
      PROVE  WrittenNow(r, s, at) /\ r.finishedAt = None
  <2>1. /\ s.startedAt = r.startedAt /\ (s.finishedAt = r.finishedAt \/ s.finishedAt = at)
        /\ \E type \in {"retry-scheduled", "failed"} :
             Adds(r, s, NewEvent(type, at, r.lease.worker, r.lease.id))
    BY <1>9 DEF Failed, Adds, Record
  <2> QED BY <1>3, <1>5, <1>9, <2>1 DEF EventTypes, Terminal
<1>10. CASE s = Cancelled(r, at)
  <2> DEFINE e == NewEvent("cancelled", at, None, None)
  <2>1. e \in Event /\ e.at = at
    BY EventType DEF EventTypes, Terminal, NewEvent
  <2>2. /\ Adds(r, s, e) /\ s.finishedAt = at
        /\ s.startedAt = IF r.startedAt = None THEN at ELSE r.startedAt
    BY <1>10 DEF Cancelled, Adds, Record
  <2> HIDE DEF e
  <2> QED BY <1>3, <2>1, <2>2
<1> QED BY <1>4, <1>6, <1>7, <1>8, <1>9, <1>10 DEF Change, HasExpired, InTime

(* What a step does to what the report reads of one task. *)
ReadsOf(t) ==
  \/ record[t] = None /\ record'[t] = None
  \/ record[t] = None /\ record'[t] = FreshRecord(clock)
  \/ /\ t \in Enqueued /\ record'[t] # None
     /\ record[t] \in Record /\ ValidRecord(t, record[t]) /\ record'[t] \in Record
     /\ WrittenNow(record[t], record'[t], clock)

LEMMA StepNow ==
  ASSUME TypeOK, DiskValid, [Next]_vars, NEW t \in Tasks
  PROVE  ReadsOf(t)
<1>1. clock \in Nat /\ \A r \in Record : r.events \in Seq(Event) /\ r # None
  BY ClockType, RecordAssumption DEF Record
<1>2. record[t] # None => /\ t \in Enqueued /\ record[t] \in Record
                          /\ Writable(t, record[t]) /\ ValidRecord(t, record[t])
  BY DEF TypeOK, DiskValid, Enqueued, Writable
<1>3. ASSUME NEW r \in Record, Writable(t, r), NEW s, Rewrite(t, r, s)
      PROVE  s \in Record /\ Writable(t, s) /\ WrittenNow(r, s, clock) /\ r.finishedAt = None
  <2>1. s \in Record
    BY <1>1, <1>3, ChangeType DEF Rewrite, Writable
  <2> QED BY <1>1, <1>3, <2>1, ChangeNow DEF Rewrite, Writable
<1>4. CASE record'[t] = record[t]
  BY <1>2, <1>4, SameNow DEF ReadsOf
<1>5. CASE record[t] # None /\ Rewrite(t, record[t], record'[t])
  BY <1>1, <1>2, <1>3, <1>5 DEF ReadsOf
<1>6. CASE /\ record[t] # None
           /\ \E m : Rewrite(t, record[t], m) /\ Rewrite(t, m, record'[t])
  <2>1. PICK m : Rewrite(t, record[t], m) /\ Rewrite(t, m, record'[t])
    BY <1>6
  <2>2. /\ m \in Record /\ Writable(t, m) /\ WrittenNow(record[t], m, clock)
        /\ record[t].finishedAt = None
    BY <1>2, <1>3, <1>6, <2>1
  <2>3. /\ record'[t] \in Record /\ WrittenNow(m, record'[t], clock)
        /\ m.finishedAt = None
    BY <1>3, <2>1, <2>2
  <2>4. AddsNow(record[t].events, record'[t].events, clock)
    BY <1>1, <1>2, <1>6, <2>2, <2>3, NowTransitive DEF WrittenNow
  <2>5. WrittenNow(record[t], record'[t], clock)
    BY <2>2, <2>3, <2>4 DEF WrittenNow
  <2> QED BY <1>1, <1>2, <1>6, <2>3, <2>5 DEF ReadsOf
<1>7. CASE record[t] = None /\ record'[t] = FreshRecord(clock)
  BY <1>7 DEF ReadsOf
<1>8. CASE UNCHANGED vars
  BY <1>4, <1>8 DEF vars
<1> QED BY <1>4, <1>5, <1>6, <1>7, <1>8, StepShape DEF StepOf

(* So nothing the report reads of a task within the window changes.        *)
LEMMA WindowKept ==
  ASSUME NEW t \in Tasks, ReadsOf(t), clock \in Nat,
         NEW from \in Nat, NEW to \in Nat, to <= clock
  PROVE  /\ t \in Enqueued /\ InWindow(record[t].finishedAt, from, to) =>
              record'[t] = record[t] /\ record'[t] # None
         /\ record'[t] # None /\ InWindow(record'[t].finishedAt, from, to) =>
              t \in Enqueued /\ record'[t] = record[t]
         /\ t \in Enqueued /\ InWindow(record[t].startedAt, from, to) =>
              record'[t] # None /\ record'[t].startedAt = record[t].startedAt
         /\ record'[t] # None /\ InWindow(record'[t].startedAt, from, to) =>
              t \in Enqueued /\ record'[t].startedAt = record[t].startedAt
         /\ t \in Enqueued => record'[t] # None /\ CreatedAt(record'[t]) = CreatedAt(record[t])
         /\ (t \in Enqueued /\ \E i \in EventsOf(record[t], "recovered") :
                                 InWindow(record[t].events[i].at, from, to))
            <=> (record'[t] # None /\ \E i \in EventsOf(record'[t], "recovered") :
                                         InWindow(record'[t].events[i].at, from, to))
         /\ (IF t \in Enqueued THEN ComputeTime(t, from, to) ELSE 0)
              = (IF record'[t] # None THEN ComputeTime(t, from, to)' ELSE 0)
<1>1. CASE record[t] = None /\ record'[t] = None
  BY <1>1 DEF Enqueued
<1>2. CASE record[t] = None /\ record'[t] = FreshRecord(clock)
  <2>1. /\ record'[t].startedAt = None /\ record'[t].finishedAt = None
        /\ EventsOf(record'[t], "recovered") = {}
    BY <1>2 DEF FreshRecord, EventsOf, NewEvent
  <2>2. ComputeTime(t, from, to)' = 0
    BY <2>1 DEF ComputeTime
  <2> QED BY <1>2, <2>1, <2>2 DEF Enqueued, InWindow
<1>3. CASE /\ t \in Enqueued /\ record'[t] # None
           /\ record[t] \in Record /\ ValidRecord(t, record[t]) /\ record'[t] \in Record
           /\ WrittenNow(record[t], record'[t], clock)
  <2>1. PICK r \in Record, s \in Record :
          /\ r = record[t] /\ s = record'[t] /\ ValidRecord(t, r) /\ WrittenNow(r, s, clock)
    BY <1>3
  <2>2. /\ s.startedAt = r.startedAt \/ (r.startedAt = None /\ s.startedAt = clock)
        /\ s.finishedAt = r.finishedAt \/ (r.finishedAt = None /\ s.finishedAt = clock)
        /\ r.finishedAt # None => s = r
        /\ AddsNow(r.events, s.events, clock)
    BY <2>1 DEF WrittenNow
  <2>3. ~InWindow(clock, from, to) /\ ~InWindow(None, from, to)
    BY DEF InWindow
  <2>4. InWindow(r.finishedAt, from, to) \/ InWindow(s.finishedAt, from, to) => s = r
    BY <2>2, <2>3 DEF InWindow
  <2>5. InWindow(r.startedAt, from, to) \/ InWindow(s.startedAt, from, to) =>
          s.startedAt = r.startedAt
    BY <2>2, <2>3
  <2>6. /\ Len(r.events) \in Nat /\ Len(s.events) \in Nat /\ Len(r.events) > 0
        /\ DOMAIN r.events = 1 .. Len(r.events) /\ DOMAIN s.events = 1 .. Len(s.events)
        /\ Len(r.events) <= Len(s.events)
        /\ \A i \in 1 .. Len(r.events) : s.events[i] = r.events[i]
        /\ \A i \in Len(r.events) + 1 .. Len(s.events) : s.events[i].at = clock
    <3>1. r.events \in Seq(Event) /\ s.events \in Seq(Event)
      BY DEF Record
    <3>2. Len(r.events) > 0
      BY <2>1 DEF ValidRecord, LegalHistory
    <3> QED BY <2>2, <3>1, <3>2, LenProperties DEF AddsNow, PrefixOf
  <2>7. CreatedAt(s) = CreatedAt(r)
    BY <2>6 DEF CreatedAt
  <2>8. (\E i \in EventsOf(r, "recovered") : InWindow(r.events[i].at, from, to))
        <=> (\E i \in EventsOf(s, "recovered") : InWindow(s.events[i].at, from, to))
    <3>1. ASSUME NEW i \in EventsOf(r, "recovered"), InWindow(r.events[i].at, from, to)
          PROVE  i \in EventsOf(s, "recovered") /\ InWindow(s.events[i].at, from, to)
      BY <2>6, <3>1 DEF EventsOf
    <3>2. ASSUME NEW i \in EventsOf(s, "recovered"), InWindow(s.events[i].at, from, to)
          PROVE  i \in EventsOf(r, "recovered") /\ InWindow(r.events[i].at, from, to)
      <4>1. i <= Len(r.events)
        BY <2>3, <2>6, <3>2 DEF EventsOf
      <4> QED BY <2>6, <3>2, <4>1 DEF EventsOf
    <3> QED BY <3>1, <3>2
  <2>9. ComputeTime(t, from, to)' = ComputeTime(t, from, to)
    <3>1. /\ r.startedAt \in Nat \cup {None} /\ r.finishedAt \in Nat \cup {None}
          /\ s.startedAt \in Nat \cup {None} /\ s.finishedAt \in Nat \cup {None}
      BY DEF Record
    <3>2. CASE s.startedAt = r.startedAt /\ s.finishedAt = r.finishedAt
      BY <2>1, <3>2 DEF ComputeTime
    <3>3. CASE r.startedAt = None /\ s.startedAt = clock
      BY <2>1, <3>3, NoneAssumption DEF ComputeTime
    <3>4. CASE s.startedAt = r.startedAt /\ r.finishedAt = None /\ s.finishedAt = clock
      <4>1. (IF s.finishedAt = None \/ s.finishedAt > to THEN to ELSE s.finishedAt) = to
        BY <3>4, NoneAssumption
      <4> QED BY <2>1, <3>4, <4>1 DEF ComputeTime
    <3> QED BY <2>2, <3>2, <3>3, <3>4
  <2> QED BY <1>3, <2>1, <2>4, <2>5, <2>7, <2>8, <2>9
<1> QED BY <1>1, <1>2, <1>3 DEF ReadsOf

(* Whatever happens after a window has closed, and even if the clock is    *)
(* set back, its metrics stay what they are.                               *)
THEOREM ClosedWindowTheorem == Spec => ClosedWindowIsFinal
<1> DEFINE A == \A w \in ClosedWindows : Metrics(w[1], w[2])' = Metrics(w[1], w[2])
<1>1. ASSUME TypeOK, DiskValid, [Next]_vars, NEW from \in Nat, NEW to \in Nat, to <= clock
      PROVE  Metrics(from, to)' = Metrics(from, to)
  <2>1. clock \in Nat /\ Enqueued \subseteq Tasks /\ Enqueued' \subseteq Tasks
        /\ \A t \in Tasks : t \in Enqueued' <=> record'[t] # None
    BY <1>1, ClockType DEF Enqueued
  <2>2. \A t \in Tasks :
          /\ t \in Enqueued /\ InWindow(record[t].finishedAt, from, to) =>
               record'[t] = record[t] /\ record'[t] # None
          /\ record'[t] # None /\ InWindow(record'[t].finishedAt, from, to) =>
               t \in Enqueued /\ record'[t] = record[t]
          /\ t \in Enqueued /\ InWindow(record[t].startedAt, from, to) =>
               record'[t] # None /\ record'[t].startedAt = record[t].startedAt
          /\ record'[t] # None /\ InWindow(record'[t].startedAt, from, to) =>
               t \in Enqueued /\ record'[t].startedAt = record[t].startedAt
          /\ t \in Enqueued => record'[t] # None /\ CreatedAt(record'[t]) = CreatedAt(record[t])
          /\ (t \in Enqueued /\ \E i \in EventsOf(record[t], "recovered") :
                                  InWindow(record[t].events[i].at, from, to))
             <=> (record'[t] # None /\ \E i \in EventsOf(record'[t], "recovered") :
                                          InWindow(record'[t].events[i].at, from, to))
          /\ (IF t \in Enqueued THEN ComputeTime(t, from, to) ELSE 0)
               = (IF record'[t] # None THEN ComputeTime(t, from, to)' ELSE 0)
    BY <1>1, <2>1, StepNow, WindowKept
  <2> DEFINE finished == {t \in Enqueued : InWindow(record[t].finishedAt, from, to)}
             started  == {t \in Enqueued : InWindow(record[t].startedAt, from, to)}
  <2>3. finished' = finished /\ \A t \in finished : record'[t] = record[t]
    BY <2>1, <2>2
  <2>4. /\ started' = started
        /\ \A t \in started : /\ record'[t].startedAt = record[t].startedAt
                              /\ CreatedAt(record'[t]) = CreatedAt(record[t])
    BY <2>1, <2>2
  <2>5. {t \in Enqueued : \E i \in EventsOf(record[t], "recovered") :
                            InWindow(record[t].events[i].at, from, to)}'
        = {t \in Enqueued : \E i \in EventsOf(record[t], "recovered") :
                              InWindow(record[t].events[i].at, from, to)}
    BY <2>1, <2>2
  <2>6. [t \in Tasks |-> IF t \in Enqueued THEN ComputeTime(t, from, to) ELSE 0]'
        = [t \in Tasks |-> IF t \in Enqueued THEN ComputeTime(t, from, to) ELSE 0]
    BY <2>1, <2>2
  <2>7. /\ {t \in finished : record[t].phase = "succeeded"}'
             = {t \in finished : record[t].phase = "succeeded"}
        /\ {<<t, record[t].failure.kind>> : t \in {u \in finished : record[u].phase = "failed"}}'
             = {<<t, record[t].failure.kind>> : t \in {u \in finished : record[u].phase = "failed"}}
        /\ {<<t, record[t].finishedAt - record[t].startedAt>> : t \in finished}'
             = {<<t, record[t].finishedAt - record[t].startedAt>> : t \in finished}
    <3> HIDE DEF finished
    <3> QED BY <2>3
  <2>8. {<<t, record[t].startedAt - CreatedAt(record[t])>> : t \in started}'
        = {<<t, record[t].startedAt - CreatedAt(record[t])>> : t \in started}
    <3> HIDE DEF started
    <3> QED BY <2>4
  <2> QED BY <2>5, <2>6, <2>7, <2>8 DEF Metrics
<1>2. ASSUME TypeOK, DiskValid, [Next]_vars, NEW w \in ClosedWindows
      PROVE  Metrics(w[1], w[2])' = Metrics(w[1], w[2])
  <2>1. w[1] \in Nat /\ w[2] \in Nat /\ w[2] <= clock
    BY <1>2, ClockType DEF ClosedWindows
  <2> QED BY <1>1, <1>2, <2>1
<1>3. TypeOK /\ DiskValid /\ [Next]_vars => [A]_vars
  BY <1>2
<1> QED BY <1>3, TypeInit, TypeStep, PTL DEF Spec, ClosedWindowIsFinal

-----------------------------------------------------------------------------
(* The queue depth.  Every time a task starts to wait is followed by the   *)
(* time it stops, if it does by then: that maps the deltas +1 up to a time *)
(* one to one to the deltas -1 and the tasks that wait at that time.       *)

(* Every set of natural numbers has a least one. *)
LEMMA LeastNatural ==
  ASSUME NEW S \in SUBSET Nat, S # {}
  PROVE  \E m \in S : \A k \in S : m <= k
<1> DEFINE R == StrictSubsetOrdering(Nat)
           T == {0 .. n : n \in S}
<1>1. \A n \in Nat : 0 .. n \in SUBSET Nat /\ IsFiniteSet(0 .. n)
  BY FS_Interval
<1>2. T \subseteq FiniteSubsetsOf(Nat) /\ T # {}
  BY <1>1 DEF FiniteSubsetsOf
<1>3. PICK x \in T : \A y \in T : <<y, x>> \notin R
  <2> HIDE DEF T
  <2> QED BY <1>2, WFMin, FS_StrictSubsetOrderingWellFounded
<1>4. PICK m \in S : x = 0 .. m
  BY <1>3
<1>5. ASSUME NEW k \in S, k < m PROVE FALSE
  <2>1. 0 .. k \in T /\ 0 .. k \in SUBSET Nat /\ x \in SUBSET Nat
    BY <1>1, <1>4
  <2>2. 0 .. k \subseteq x /\ 0 .. k # x
    BY <1>4, <1>5
  <2>3. <<0 .. k, x>> \in R
    BY <2>1, <2>2 DEF StrictSubsetOrdering
  <2> QED BY <1>3, <2>1, <2>3
<1> QED BY <1>4, <1>5

Waiting(r, i) == QueueState(r, i) = "queued"

(* The events of r up to time x with which r starts, or stops, to wait.    *)
Starts(r, x) == {i \in 1 .. Len(r.events) :
                   r.events[i].at <= x /\ Waiting(r, i) /\ ~Waiting(r, i - 1)}
Stops(r, x) == {i \in 1 .. Len(r.events) :
                  r.events[i].at <= x /\ ~Waiting(r, i) /\ Waiting(r, i - 1)}

WaitsAt(r, x) == \E i \in DOMAIN r.events :
                   /\ r.events[i].at <= x
                   /\ i < Len(r.events) => r.events[i + 1].at > x
                   /\ Waiting(r, i)

Least(S) == CHOOSE m \in S : \A k \in S : m <= k

(* When a task that starts to wait with event i stops, or 0. *)
Until(r, x, i) == LET later == {j \in Stops(r, x) : i < j}
                  IN IF later = {} THEN 0 ELSE Least(later)

Chronological(r) ==
  /\ Len(r.events) \in Nat /\ DOMAIN r.events = 1 .. Len(r.events)
  /\ \A i \in 1 .. Len(r.events) : r.events[i].at \in Nat /\ r.events[i].type \in EventTypes
  /\ \A i, j \in 1 .. Len(r.events) : i <= j => r.events[i].at <= r.events[j].at

LEMMA HistoryIsChronological ==
  ASSUME NEW r \in Record, LegalHistory(r)
  PROVE  Chronological(r)
<1>1. /\ r.events \in Seq(Event) /\ Len(r.events) \in Nat /\ DOMAIN r.events = 1 .. Len(r.events)
      /\ \A i \in 1 .. Len(r.events) : r.events[i].at \in Nat /\ r.events[i].type \in EventTypes
  <2>1. r.events \in Seq(Event)
    BY DEF Record
  <2>2. \A i \in 1 .. Len(r.events) : r.events[i] \in Event
    BY <2>1, ElementOfSeq
  <2> QED BY <2>1, <2>2, LenProperties DEF Event
<1>2. \A i \in 1 .. Len(r.events) - 1 : r.events[i].at <= r.events[i + 1].at
  BY <1>1 DEF LegalHistory, LegalNext
<1>3. ASSUME NEW i \in 1 .. Len(r.events), NEW j \in 1 .. Len(r.events), i <= j,
             ~ (r.events[i].at <= r.events[j].at)
      PROVE  FALSE
  <2> DEFINE S == {k \in 1 .. Len(r.events) : i <= k /\ ~ (r.events[i].at <= r.events[k].at)}
  <2>1. S \in SUBSET Nat /\ j \in S
    BY <1>1, <1>3
  <2>2. PICK m \in S : \A k \in S : m <= k
    <3> HIDE DEF S
    <3> QED BY <2>1, LeastNatural
  <2>3. m # i /\ m - 1 \in 1 .. Len(r.events) - 1 /\ i <= m - 1 /\ m - 1 \in 1 .. Len(r.events)
    BY <1>1, <2>2
  <2>4. r.events[i].at <= r.events[m - 1].at
    BY <1>1, <2>2, <2>3
  <2>5. r.events[m - 1].at <= r.events[m].at
    BY <1>1, <1>2, <2>3
  <2> QED BY <1>1, <2>2, <2>3, <2>4, <2>5
<1> QED BY <1>1, <1>3 DEF Chronological

(* Between an event after which r waits and one after which it does not, it stops. *)
LEMMA StopsBetween ==
  ASSUME NEW r, NEW i \in Nat, NEW m \in Nat, i < m, Waiting(r, i), ~Waiting(r, m)
  PROVE  \E k \in i + 1 .. m : ~Waiting(r, k) /\ Waiting(r, k - 1)
<1> DEFINE S == {k \in i + 1 .. m : ~Waiting(r, k)}
<1>1. S \in SUBSET Nat /\ m \in S
  OBVIOUS
<1>2. PICK k \in S : \A n \in S : k <= n
  <2> HIDE DEF S
  <2> QED BY <1>1, LeastNatural
<1>3. CASE k = i + 1
  BY <1>2, <1>3
<1>4. CASE k # i + 1
  <2>1. k - 1 \in i + 1 .. m /\ ~ (k <= k - 1)
    BY <1>2, <1>4
  <2> QED BY <1>2, <2>1
<1> QED BY <1>3, <1>4

(* Before an event after which r waits it started to, and waited since.    *)
LEMMA StartsBefore ==
  ASSUME NEW r, NEW j \in Nat \ {0}, Waiting(r, j)
  PROVE  \E b \in 1 .. j : ~Waiting(r, b - 1) /\ \A k \in b .. j : Waiting(r, k)
<1> DEFINE S == {b \in 1 .. j : \A k \in b .. j : Waiting(r, k)}
<1>1. S \in SUBSET Nat /\ j \in S
  OBVIOUS
<1>2. PICK b \in S : \A n \in S : b <= n
  <2> HIDE DEF S
  <2> QED BY <1>1, LeastNatural
<1>3. ~Waiting(r, b - 1)
  <2>1. CASE b = 1
    BY <2>1 DEF Waiting, QueueState
  <2>2. CASE b # 1
    <3>1. b - 1 \in 1 .. j /\ ~ (b <= b - 1)
      BY <1>2, <2>2
    <3>2. b - 1 \notin S
      BY <1>2, <3>1
    <3>3. \A k \in b - 1 .. j : k = b - 1 \/ k \in b .. j
      BY <3>1
    <3> QED BY <1>2, <3>1, <3>2, <3>3
  <2> QED BY <2>1, <2>2
<1> QED BY <1>2, <1>3

LEMMA UntilIs ==
  ASSUME NEW r, Chronological(r), NEW x \in Int, NEW i \in Nat
  PROVE  \/ /\ Until(r, x, i) = 0 /\ \A j \in Stops(r, x) : ~ (i < j)
         \/ /\ Until(r, x, i) \in Stops(r, x) /\ i < Until(r, x, i)
            /\ \A j \in Stops(r, x) : i < j => Until(r, x, i) <= j
<1> DEFINE later == {j \in Stops(r, x) : i < j}
<1>1. later \in SUBSET Nat
  BY DEF Stops, Chronological
<1>2. CASE later = {}
  BY <1>2 DEF Until
<1>3. CASE later # {}
  <2>1. \E m \in later : \A k \in later : m <= k
    <3> HIDE DEF later
    <3> QED BY <1>1, <1>3, LeastNatural
  <2>2. Until(r, x, i) = Least(later)
    BY <1>3 DEF Until
  <2>3. Least(later) \in later /\ \A k \in later : Least(later) <= k
    <3> HIDE DEF later
    <3> QED BY <2>1, Zenon DEF Least
  <2> QED BY <2>2, <2>3
<1> QED BY <1>2, <1>3

(* A task that starts to wait and does not stop by x waits at x. *)
LEMMA NotStopped ==
  ASSUME NEW r, Chronological(r), NEW x \in Int, NEW i \in Starts(r, x),
         \A j \in Stops(r, x) : ~ (i < j)
  PROVE  WaitsAt(r, x)
<1> DEFINE S == {k \in 1 .. Len(r.events) : ~ (r.events[k].at <= x)}
<1>1. /\ S \in SUBSET Nat /\ i \in 1 .. Len(r.events) /\ r.events[i].at <= x /\ Waiting(r, i)
      /\ Len(r.events) \in Nat
  BY DEF Starts, Chronological
<1>2. PICK n \in 1 .. Len(r.events) :
        /\ r.events[n].at <= x /\ i <= n
        /\ n < Len(r.events) => ~ (r.events[n + 1].at <= x)
  <2>1. CASE S = {}
    BY <1>1, <2>1
  <2>2. CASE S # {}
    <3>1. PICK m \in S : \A k \in S : m <= k
      <4> HIDE DEF S
      <4> QED BY <1>1, <2>2, LeastNatural
    <3>2. ~ (m <= i)
      <4>1. ASSUME m <= i PROVE r.events[m].at <= r.events[i].at
        BY <1>1, <3>1, <4>1 DEF Chronological
      <4> QED BY <1>1, <3>1, <4>1 DEF Chronological
    <3>3. m - 1 \in 1 .. Len(r.events) /\ i <= m - 1 /\ (m - 1) + 1 = m /\ ~ (m <= m - 1)
      BY <1>1, <3>1, <3>2
    <3>4. r.events[m - 1].at <= x
      BY <3>1, <3>3
    <3> QED BY <3>1, <3>3, <3>4
  <2> QED BY <2>1, <2>2
<1>3. Waiting(r, n)
  <2>1. ASSUME ~Waiting(r, n) PROVE FALSE
    <3>1. i < n /\ i \in Nat /\ n \in Nat
      BY <1>1, <1>2, <2>1
    <3>2. PICK k \in i + 1 .. n : ~Waiting(r, k) /\ Waiting(r, k - 1)
      BY <1>1, <2>1, <3>1, StopsBetween
    <3>3. k \in 1 .. Len(r.events) /\ k <= n /\ i < k
      BY <1>1, <1>2, <3>1, <3>2
    <3>4. r.events[k].at <= r.events[n].at /\ r.events[k].at \in Nat /\ r.events[n].at \in Nat
      BY <1>2, <3>3 DEF Chronological
    <3>5. k \in Stops(r, x)
      BY <1>2, <3>2, <3>3, <3>4 DEF Stops
    <3> QED BY <3>3, <3>5
  <2> QED BY <2>1
<1>4. n < Len(r.events) => r.events[n + 1].at > x
  BY <1>1, <1>2 DEF Chronological
<1> QED BY <1>2, <1>3, <1>4 DEF WaitsAt, Chronological

(* Two starts are ended by different stops, and one of them at least is. *)
LEMMA UntilInjective ==
  ASSUME NEW r, Chronological(r), NEW x \in Int, NEW i \in Starts(r, x), NEW j \in Starts(r, x),
         i < j
  PROVE  Until(r, x, i) # Until(r, x, j)
<1>1. /\ i \in Nat /\ j \in Nat /\ i \in 1 .. Len(r.events) /\ j \in 1 .. Len(r.events)
      /\ Len(r.events) \in Nat
      /\ Waiting(r, i) /\ ~Waiting(r, j - 1) /\ j - 1 \in Nat
      /\ r.events[j].at <= x
  BY DEF Starts, Chronological
<1>2. i < j - 1
  <2>1. i # j - 1
    BY <1>1
  <2> QED BY <1>1, <2>1
<1>3. PICK k \in i + 1 .. j - 1 : ~Waiting(r, k) /\ Waiting(r, k - 1)
  BY <1>1, <1>2, StopsBetween
<1>4. k \in 1 .. Len(r.events) /\ k <= j /\ i < k /\ k < j
  BY <1>1, <1>3
<1>5. r.events[k].at <= r.events[j].at /\ r.events[k].at \in Nat /\ r.events[j].at \in Nat
  BY <1>1, <1>4 DEF Chronological
<1>6. k \in Stops(r, x)
  BY <1>1, <1>3, <1>4, <1>5 DEF Stops
<1>7. /\ Until(r, x, i) \in Stops(r, x) /\ Until(r, x, i) <= k
  BY <1>1, <1>4, <1>6, UntilIs
<1>8. Until(r, x, i) \in 1 .. Len(r.events)
  BY <1>7 DEF Stops
<1>9. Until(r, x, j) = 0 \/ (Until(r, x, j) \in 1 .. Len(r.events) /\ j < Until(r, x, j))
  BY <1>1, UntilIs DEF Stops
<1> QED BY <1>1, <1>4, <1>7, <1>8, <1>9

LEMMA UntilSurjective ==
  ASSUME NEW r, Chronological(r), NEW x \in Int
  PROVE  /\ \A j \in Stops(r, x) : \E i \in Starts(r, x) : Until(r, x, i) = j
         /\ WaitsAt(r, x) => \E i \in Starts(r, x) : Until(r, x, i) = 0
<1>1. Len(r.events) \in Nat
  BY DEF Chronological
<1>2. ASSUME NEW n \in 1 .. Len(r.events), Waiting(r, n), r.events[n].at <= x
      PROVE  \E b \in Starts(r, x) : b <= n /\ \A k \in b .. n : Waiting(r, k)
  <2>1. PICK b \in 1 .. n : ~Waiting(r, b - 1) /\ \A k \in b .. n : Waiting(r, k)
    BY <1>1, <1>2, StartsBefore
  <2>2. b \in 1 .. Len(r.events) /\ b <= n /\ b \in b .. n
    BY <1>1, <2>1
  <2>3. r.events[b].at <= r.events[n].at /\ r.events[b].at \in Nat /\ r.events[n].at \in Nat
    BY <2>2 DEF Chronological
  <2>4. b \in Starts(r, x)
    BY <1>2, <2>1, <2>2, <2>3 DEF Starts
  <2> QED BY <2>1, <2>2, <2>4
<1>3. ASSUME NEW j \in Stops(r, x) PROVE \E i \in Starts(r, x) : Until(r, x, i) = j
  <2>1. /\ j \in 1 .. Len(r.events) /\ r.events[j].at <= x /\ ~Waiting(r, j) /\ Waiting(r, j - 1)
    BY DEF Stops
  <2>2. j # 1
    BY <2>1 DEF Waiting, QueueState
  <2>3. j - 1 \in 1 .. Len(r.events) /\ j - 1 <= j
    BY <1>1, <2>1, <2>2
  <2>4. r.events[j - 1].at <= x
    <3>1. r.events[j - 1].at <= r.events[j].at /\ r.events[j - 1].at \in Nat
          /\ r.events[j].at \in Nat
      BY <2>1, <2>3 DEF Chronological
    <3> QED BY <2>1, <3>1
  <2>5. PICK b \in Starts(r, x) : b <= j - 1 /\ \A k \in b .. j - 1 : Waiting(r, k)
    BY <1>2, <2>1, <2>3, <2>4
  <2>6. b \in Nat /\ b < j
    BY <2>1, <2>5 DEF Starts
  <2> DEFINE u == Until(r, x, b)
  <2>7. u \in Stops(r, x) /\ b < u /\ u <= j
    BY <2>6, UntilIs
  <2>8. u \in 1 .. Len(r.events) /\ ~Waiting(r, u)
    BY <2>7 DEF Stops
  <2> HIDE DEF u
  <2>9. ~ (u \in b .. j - 1)
    BY <2>5, <2>8
  <2>10. u = j
    BY <1>1, <2>1, <2>6, <2>7, <2>8, <2>9
  <2> QED BY <2>5, <2>10 DEF u
<1>4. ASSUME WaitsAt(r, x) PROVE \E i \in Starts(r, x) : Until(r, x, i) = 0
  <2>1. PICK n \in 1 .. Len(r.events) :
          /\ r.events[n].at <= x /\ Waiting(r, n)
          /\ n < Len(r.events) => r.events[n + 1].at > x
    BY <1>4 DEF WaitsAt, Chronological
  <2>2. PICK b \in Starts(r, x) : b <= n /\ \A k \in b .. n : Waiting(r, k)
    BY <1>2, <2>1
  <2> DEFINE u == Until(r, x, b)
  <2>3. ASSUME u \in Stops(r, x), b < u PROVE FALSE
    <3>1. u \in 1 .. Len(r.events) /\ ~Waiting(r, u) /\ r.events[u].at <= x
      BY <2>3 DEF Stops
    <3> HIDE DEF u
    <3>2. b \in Nat /\ n \in Nat
      BY <1>1, <2>1 DEF Starts
    <3>3. n < u
      <4>1. ~ (u \in b .. n)
        BY <2>2, <3>1
      <4> QED BY <1>1, <2>3, <3>1, <3>2, <4>1
    <3>4. n < Len(r.events) /\ n + 1 \in 1 .. Len(r.events) /\ n + 1 <= u
      BY <1>1, <3>1, <3>2, <3>3
    <3>5. /\ r.events[n + 1].at <= r.events[u].at
          /\ r.events[n + 1].at \in Nat /\ r.events[u].at \in Nat
      BY <3>1, <3>4 DEF Chronological
    <3> QED BY <2>1, <3>1, <3>4, <3>5
  <2>4. b \in Nat
    BY <1>1 DEF Starts
  <2>5. u = 0
    BY <2>3, <2>4, UntilIs
  <2> QED BY <2>5
<1> QED BY <1>3, <1>4

Chronicle == \A t \in Enqueued : /\ t \in Tasks /\ Chronological(record[t])
                                 /\ Len(record[t].events) <= EventBudget

LEMMA DiskIsChronicle == TypeOK /\ DiskValid => Chronicle
<1> SUFFICES ASSUME TypeOK, DiskValid, NEW t \in Enqueued
             PROVE  /\ t \in Tasks /\ Chronological(record[t])
                    /\ Len(record[t].events) <= EventBudget
  BY DEF Chronicle
<1>1. t \in Tasks /\ record[t] \in Record /\ Writable(t, record[t])
  BY DEF TypeOK, DiskValid, Enqueued
<1> QED BY <1>1, HistoryIsChronological DEF Writable, ValidRecord

LEMMA ChangesAre ==
  ASSUME Chronicle, NEW x \in Int
  PROVE  /\ Changes(1, 0 .. x) = {p \in Enqueued \X Nat : p[2] \in Starts(record[p[1]], x)}
         /\ Changes(-1, 0 .. x) = {p \in Enqueued \X Nat : p[2] \in Stops(record[p[1]], x)}
<1>1. ASSUME NEW t \in Enqueued, NEW i \in Nat
      PROVE  /\ i \in Starts(record[t], x) <=>
                  /\ i \in 1 .. EventBudget /\ i <= Len(record[t].events)
                  /\ record[t].events[i].at \in 0 .. x /\ Delta(record[t], i) = 1
             /\ i \in Stops(record[t], x) <=>
                  /\ i \in 1 .. EventBudget /\ i <= Len(record[t].events)
                  /\ record[t].events[i].at \in 0 .. x /\ Delta(record[t], i) = -1
  <2> DEFINE r == record[t]
  <2>1. /\ Len(r.events) \in Nat /\ Len(r.events) <= EventBudget /\ EventBudget \in Nat
        /\ \A k \in 1 .. Len(r.events) : r.events[k].at \in Nat
    BY BudgetAssumption DEF Chronicle, Chronological
  <2>2. /\ Delta(r, i) = 1 <=> Waiting(r, i) /\ ~Waiting(r, i - 1)
        /\ Delta(r, i) = -1 <=> ~Waiting(r, i) /\ Waiting(r, i - 1)
    BY DEF Delta, Waiting
  <2> HIDE DEF r
  <2>3. i \in 1 .. Len(r.events) <=> i \in 1 .. EventBudget /\ i <= Len(r.events)
    BY <2>1
  <2>4. ASSUME i \in 1 .. Len(r.events)
        PROVE  r.events[i].at <= x <=> r.events[i].at \in 0 .. x
    BY <2>1, <2>4
  <2>5. i \in Starts(r, x) <=>
          i \in 1 .. Len(r.events) /\ r.events[i].at <= x /\ Waiting(r, i) /\ ~Waiting(r, i - 1)
    BY DEF Starts
  <2>6. i \in Stops(r, x) <=>
          i \in 1 .. Len(r.events) /\ r.events[i].at <= x /\ ~Waiting(r, i) /\ Waiting(r, i - 1)
    BY DEF Stops
  <2>7. /\ i \in Starts(r, x) <=>
             /\ i \in 1 .. EventBudget /\ i <= Len(r.events)
             /\ r.events[i].at \in 0 .. x /\ Delta(r, i) = 1
        /\ i \in Stops(r, x) <=>
             /\ i \in 1 .. EventBudget /\ i <= Len(r.events)
             /\ r.events[i].at \in 0 .. x /\ Delta(r, i) = -1
    BY <2>2, <2>3, <2>4, <2>5, <2>6
  <2> QED BY <2>7 DEF r
<1>2. 1 .. EventBudget \subseteq Nat
  BY BudgetAssumption
<1> QED BY <1>1, <1>2 DEF Changes

LEMMA WaitingIs ==
  ASSUME Chronicle, NEW x \in Int
  PROVE  WaitingAt(x) = {t \in Enqueued : WaitsAt(record[t], x)}
<1>1. ASSUME NEW t \in Enqueued, NEW i \in DOMAIN record[t].events
      PROVE  Waiting(record[t], i) <=> PhaseAfter(record[t].events[i]) = "queued"
  <2>1. i # 0 /\ record[t].events[i].type \in EventTypes
    BY DEF Chronicle, Chronological
  <2> DEFINE type == record[t].events[i].type
  <2>2. /\ Waiting(record[t], i) <=> type \in {"enqueued", "recovered", "retry-scheduled"}
    BY <2>1 DEF Waiting, QueueState
  <2>3. PhaseAfter(record[t].events[i]) = "queued" <=>
          type \in {"enqueued", "recovered", "retry-scheduled"}
    BY <2>1 DEF PhaseAfter, EventTypes, Terminal
  <2> QED BY <2>2, <2>3
<1> QED BY <1>1 DEF WaitingAt, WaitsAt

LEMMA DepthIsWaiting ==
  ASSUME Chronicle, NEW x \in Int
  PROVE  DeltaIn(0 .. x) = Cardinality(WaitingAt(x)) /\ Cardinality(WaitingAt(x)) \in Nat
<1> DEFINE ups   == Changes(1, 0 .. x)
           downs == Changes(-1, 0 .. x)
           still == {<<t, 0>> : t \in WaitingAt(x)}
           f     == [p \in ups |-> <<p[1], Until(record[p[1]], x, p[2])>>]
           g     == [t \in WaitingAt(x) |-> <<t, 0>>]
<1>1. /\ \A t, i : <<t, i>> \in ups <=> t \in Enqueued /\ i \in Nat /\ i \in Starts(record[t], x)
      /\ \A t, i : <<t, i>> \in downs <=> t \in Enqueued /\ i \in Nat /\ i \in Stops(record[t], x)
      /\ \A p \in ups \cup downs : p = <<p[1], p[2]>>
  BY ChangesAre
<1>2. \A t \in WaitingAt(x) : t \in Enqueued /\ WaitsAt(record[t], x)
  BY WaitingIs
<1>3. \A t \in Enqueued : WaitsAt(record[t], x) => t \in WaitingAt(x)
  BY WaitingIs
<1>4. \A t \in Enqueued : /\ Chronological(record[t])
                          /\ \A i \in Starts(record[t], x) \cup Stops(record[t], x) :
                               i \in Nat \ {0}
  BY DEF Chronicle, Chronological, Starts, Stops
<1>5. \A p : p \in still <=> \E t \in WaitingAt(x) : p = <<t, 0>>
  OBVIOUS
<1>6. IsFiniteSet(Enqueued) /\ IsFiniteSet(1 .. EventBudget)
  <2>1. Enqueued \in SUBSET Tasks
    BY DEF Enqueued
  <2>2. 1 \in Int /\ EventBudget \in Int
    BY BudgetAssumption
  <2>3. IsFiniteSet(Enqueued)
    BY <2>1, TasksAssumption, FS_Subset
  <2> QED BY <2>2, <2>3, FS_Interval
<1>7. IsFiniteSet(ups) /\ IsFiniteSet(downs) /\ IsFiniteSet(WaitingAt(x))
  <2>1. IsFiniteSet(Enqueued \X (1 .. EventBudget))
    BY <1>6, FS_Product
  <2>2. /\ ups \in SUBSET (Enqueued \X (1 .. EventBudget))
        /\ downs \in SUBSET (Enqueued \X (1 .. EventBudget))
        /\ WaitingAt(x) \in SUBSET Enqueued
    BY DEF Changes, WaitingAt
  <2> QED BY <1>6, <2>1, <2>2, FS_Subset
<1> DEFINE W == WaitingAt(x)
<1> HIDE DEF ups, downs, still, W
<1>8. f \in Bijection(ups, downs \cup still)
  <2>1. ASSUME NEW p \in ups PROVE f[p] \in downs \cup still
    <3>1. /\ p[1] \in Enqueued /\ p[2] \in Nat /\ p[2] \in Starts(record[p[1]], x)
          /\ Chronological(record[p[1]])
      BY <1>1, <1>4
    <3> DEFINE t == p[1]
               u == Until(record[t], x, p[2])
    <3>2. f[p] = <<t, u>>
      OBVIOUS
    <3>3. CASE u = 0 /\ \A j \in Stops(record[t], x) : ~ (p[2] < j)
      <4>1. t \in W
        BY <1>3, <3>1, <3>3, NotStopped DEF W
      <4> QED BY <1>5, <3>2, <3>3, <4>1 DEF W
    <3>4. CASE u \in Stops(record[t], x)
      BY <1>1, <1>4, <3>1, <3>2, <3>4
    <3> QED BY <3>1, <3>3, <3>4, UntilIs
  <2>2. ASSUME NEW p \in ups, NEW q \in ups, f[p] = f[q] PROVE p = q
    <3>1. /\ p[1] \in Enqueued /\ p[2] \in Nat /\ p[2] \in Starts(record[p[1]], x)
          /\ q[1] \in Enqueued /\ q[2] \in Nat /\ q[2] \in Starts(record[q[1]], x)
          /\ Chronological(record[p[1]]) /\ p = <<p[1], p[2]>> /\ q = <<q[1], q[2]>>
      BY <1>1, <1>4
    <3>2. /\ p[1] = q[1]
          /\ Until(record[p[1]], x, p[2]) = Until(record[p[1]], x, q[2])
      BY <2>2
    <3>3. ~ (p[2] < q[2]) /\ ~ (q[2] < p[2])
      BY <3>1, <3>2, UntilInjective
    <3> QED BY <3>1, <3>2, <3>3
  <2>3. ASSUME NEW q \in downs \cup still PROVE \E p \in ups : f[p] = q
    <3>1. CASE q \in downs
      <4>1. /\ q[1] \in Enqueued /\ q[2] \in Stops(record[q[1]], x) /\ q = <<q[1], q[2]>>
            /\ Chronological(record[q[1]])
        BY <1>1, <1>4, <3>1
      <4>2. PICK i \in Starts(record[q[1]], x) : Until(record[q[1]], x, i) = q[2]
        BY <4>1, UntilSurjective
      <4>3. <<q[1], i>> \in ups
        BY <1>1, <1>4, <4>1
      <4> QED BY <4>1, <4>2, <4>3
    <3>2. CASE q \in still
      <4>1. PICK t \in W : q = <<t, 0>>
        BY <1>5, <3>2 DEF W
      <4>2. t \in Enqueued /\ WaitsAt(record[t], x) /\ Chronological(record[t])
        BY <1>2, <1>4 DEF W
      <4>3. PICK i \in Starts(record[t], x) : Until(record[t], x, i) = 0
        BY <4>2, UntilSurjective
      <4>4. <<t, i>> \in ups
        BY <1>1, <1>4, <4>2
      <4> QED BY <4>1, <4>3, <4>4
    <3> QED BY <3>1, <3>2
  <2> HIDE DEF f
  <2>4. f \in [ups -> downs \cup still]
    <3>1. f = [p \in ups |-> f[p]]
      BY DEF f
    <3> QED BY <2>1, <3>1
  <2> QED BY <2>2, <2>3, <2>4, Fun_IsBij
<1>9. g \in Bijection(W, still)
  <2>1. g \in [W -> still]
    BY <1>5 DEF W
  <2>2. \A t, u \in W : g[t] = g[u] => t = u
    BY DEF W
  <2>3. \A p \in still : \E t \in W : g[t] = p
    BY <1>5 DEF W
  <2> HIDE DEF g
  <2> QED BY <2>1, <2>2, <2>3, Fun_IsBij
<1>10. IsFiniteSet(still) /\ Cardinality(still) = Cardinality(W)
  <2>1. ExistsBijection(W, still)
    BY <1>9, Fun_ExistsBij
  <2> QED BY <1>7, <2>1, FS_Bijection DEF W
<1>11. Cardinality(downs \cup still) = Cardinality(ups)
  <2>1. ExistsBijection(ups, downs \cup still)
    BY <1>8, Fun_ExistsBij
  <2> QED BY <1>7, <2>1, FS_Bijection
<1>12. downs \cap still = {}
  <2>1. \A p \in downs : p[2] # 0
    BY <1>1, <1>4
  <2> QED BY <1>5, <2>1
<1>13. /\ Cardinality(downs \cup still) = Cardinality(downs) + Cardinality(still)
       /\ Cardinality(downs) \in Nat /\ Cardinality(W) \in Nat
  <2>1. Cardinality(downs \cap still) = 0
    BY <1>12, FS_EmptySet
  <2>2. Cardinality(downs) \in Nat /\ Cardinality(still) \in Nat
    BY <1>7, <1>10, FS_CardinalityType
  <2>3. Cardinality(downs \cup still)
          = Cardinality(downs) + Cardinality(still) - Cardinality(downs \cap still)
    BY <1>7, <1>10, FS_Union
  <2> QED BY <1>10, <2>1, <2>2, <2>3
<1>14. DeltaIn(0 .. x) = Cardinality(ups) - Cardinality(downs)
  BY DEF DeltaIn, ups, downs
<1> QED BY <1>10, <1>11, <1>13, <1>14 DEF W

(* The depth computed from the deltas is the largest number of tasks that  *)
(* wait at one instant, for any number of tasks and any histories.         *)
THEOREM QueueDepthTheorem == Spec => []QueueDepthIsLargestWaiting
<1>1. ASSUME Chronicle, TypeOK PROVE QueueDepthIsLargestWaiting
  <2> SUFFICES ASSUME NEW w \in ClosedWindows
               PROVE  QueueDepth(w[1], w[2])
                        = Largest({Cardinality(WaitingAt(x)) : x \in w[1] - 1 .. w[2] - 1})
    BY DEF QueueDepthIsLargestWaiting
  <2>1. w[1] \in Int /\ w[2] \in Int
    BY DEF ClosedWindows
  <2>2. \A x \in w[1] - 1 .. w[2] - 1 : DeltaIn(0 .. x) = Cardinality(WaitingAt(x))
    BY <1>1, <2>1, DepthIsWaiting
  <2>3. {DeltaIn(0 .. x) : x \in w[1] - 1 .. w[2] - 1}
          = {Cardinality(WaitingAt(x)) : x \in w[1] - 1 .. w[2] - 1}
    BY <2>2
  <2> QED BY <2>3 DEF QueueDepth
<1>2. TypeOK /\ DiskValid => QueueDepthIsLargestWaiting
  BY <1>1, DiskIsChronicle
<1> QED BY <1>2, TypeInit, TypeStep, PTL DEF Spec

-----------------------------------------------------------------------------
(* The report's walk through the events of a record ends with what the     *)
(* queue's summary says, event by event.                                   *)

Scan == [legal : BOOLEAN, phase : Phases,
         worker : Workers \cup {None}, lease : LeaseIds \cup {None},
         leased : Nat, recovered : Nat,
         firstLeasedAt : Nat \cup {None}, lastLeasedAt : Nat \cup {None},
         heartbeatAt : Nat \cup {None}]

(* The walk is legal and agrees with the event e it has come to. *)
Follows(s, e) ==
  /\ s \in Scan /\ s.legal = TRUE /\ s.phase = PhaseAfter(e)
  /\ s.phase = "leased" =>
       s.worker = e.worker /\ s.lease = e.lease /\ s.heartbeatAt = e.at

(* What a scan s counts and remembers becomes with event e. *)
CountsOn(s, n, e) ==
  /\ n.leased = s.leased + (IF e.type = "leased" THEN 1 ELSE 0)
  /\ n.recovered = s.recovered + (IF e.type = "recovered" THEN 1 ELSE 0)
  /\ n.firstLeasedAt = IF e.type = "leased" /\ s.firstLeasedAt = None THEN e.at
                                                                     ELSE s.firstLeasedAt
  /\ n.lastLeasedAt = IF e.type = "leased" THEN e.at ELSE s.lastLeasedAt

Bare(e) == e.worker = None /\ e.lease = None

LEMMA ScanNext ==
  ASSUME NEW s, NEW e \in Event, NEW previous \in Event,
         Follows(s, previous), LegalNext(previous, e), e.type = "cancelled" => Bare(e)
  PROVE  /\ Follows(ScanEvent(s, e, previous), e)
         /\ CountsOn(s, ScanEvent(s, e, previous), e)
<1> DEFINE n == ScanEvent(s, e, previous)
<1>1. /\ s \in Scan /\ s.legal = TRUE /\ s.phase = PhaseAfter(previous)
      /\ s.phase = "leased" => s.worker = previous.worker /\ s.lease = previous.lease
      /\ e.at \in Nat /\ e.worker \in Workers \cup {None} /\ e.lease \in LeaseIds \cup {None}
      /\ e.type \in EventTypes
  BY DEF Follows, Event
<1>2. s.phase \notin Terminal /\ e.type # "enqueued"
  <2>1. e.type \in EventTypes /\ previous.type \in EventTypes
    BY DEF Event
  <2> QED BY <1>1, <2>1 DEF LegalNext, Terminal, PhaseAfter, EventTypes
<1>3. CASE e.type = "leased"
  <2>1. s.phase = "queued" /\ e.worker # None /\ e.lease # None
    BY <1>1, <1>3 DEF LegalNext
  <2>2. n = [s EXCEPT !.legal = TRUE, !.phase = "leased", !.worker = e.worker,
                      !.lease = e.lease, !.leased = s.leased + 1, !.lastLeasedAt = e.at,
                      !.heartbeatAt = e.at,
                      !.firstLeasedAt = IF s.firstLeasedAt = None THEN e.at
                                                                   ELSE s.firstLeasedAt]
    BY <1>1, <1>2, <1>3, <2>1 DEF ScanEvent, Scan
  <2> HIDE DEF n
  <2>3. PhaseAfter(e) = "leased" /\ "leased" \in Phases
    BY <1>3 DEF PhaseAfter, Phases
  <2> DEFINE first == IF s.firstLeasedAt = None THEN e.at ELSE s.firstLeasedAt
  <2>4. first \in Nat \cup {None} /\ s.leased + 1 \in Nat /\ s \in Scan
    BY <1>1 DEF Scan
  <2>5. n = [s EXCEPT !.legal = TRUE, !.phase = "leased", !.worker = e.worker,
                      !.lease = e.lease, !.leased = s.leased + 1, !.lastLeasedAt = e.at,
                      !.heartbeatAt = e.at, !.firstLeasedAt = first]
    BY <2>2
  <2>6. n \in Scan /\ n.legal = TRUE /\ n.phase = "leased" /\ n.worker = e.worker
        /\ n.lease = e.lease /\ n.heartbeatAt = e.at /\ n.leased = s.leased + 1
        /\ n.recovered = s.recovered /\ n.lastLeasedAt = e.at
        /\ n.firstLeasedAt = first
    <3> HIDE DEF first
    <3> QED BY <1>1, <2>4, <2>5, <2>3 DEF Scan
  <2>7. s.recovered \in Nat
    BY <1>1 DEF Scan
  <2> QED BY <1>3, <2>3, <2>6, <2>7 DEF Follows, CountsOn, n
<1>4. CASE e.type = "heartbeat"
  <2>1. s.phase = "leased" /\ e.worker = s.worker /\ e.lease = s.lease
    BY <1>1, <1>4 DEF LegalNext
  <2>2. n = [s EXCEPT !.legal = TRUE, !.heartbeatAt = e.at]
    BY <1>1, <1>2, <1>4, <2>1 DEF ScanEvent, Scan
  <2> HIDE DEF n
  <2>3. PhaseAfter(e) = "leased"
    BY <1>4 DEF PhaseAfter
  <2>4. n \in Scan /\ n.legal = TRUE /\ n.phase = "leased" /\ n.worker = e.worker
        /\ n.lease = e.lease /\ n.heartbeatAt = e.at /\ n.leased = s.leased
        /\ n.recovered = s.recovered /\ n.lastLeasedAt = s.lastLeasedAt
        /\ n.firstLeasedAt = s.firstLeasedAt /\ s.recovered \in Nat /\ s.leased \in Nat
    BY <1>1, <2>1, <2>2 DEF Scan
  <2> QED BY <1>4, <2>3, <2>4 DEF Follows, CountsOn, n
<1>5. ASSUME NEW phase \in Phases, phase # "leased", phase = PhaseAfter(e),
             e.type # "leased", NEW d \in {0, 1}, d = IF e.type = "recovered" THEN 1 ELSE 0,
             n = [s EXCEPT !.legal = TRUE, !.phase = phase, !.worker = None, !.lease = None,
                           !.recovered = s.recovered + d]
      PROVE  Follows(n, e) /\ CountsOn(s, n, e)
  <2> HIDE DEF n
  <2>1. s \in Scan /\ s.recovered + d \in Nat
    BY <1>1, <1>5 DEF Scan
  <2>2. n \in Scan /\ n.legal = TRUE /\ n.phase = phase /\ n.leased = s.leased
        /\ n.recovered = s.recovered + d /\ n.lastLeasedAt = s.lastLeasedAt
        /\ n.firstLeasedAt = s.firstLeasedAt /\ s.leased \in Nat
    BY <1>5, <2>1 DEF Scan
  <2> QED BY <1>5, <2>2 DEF Follows, CountsOn
<1>6. CASE e.type = "recovered"
  <2>1. s.phase = "leased" /\ e.worker = s.worker /\ e.lease = s.lease
    BY <1>1, <1>6 DEF LegalNext
  <2>2. n = [s EXCEPT !.legal = TRUE, !.phase = "queued", !.worker = None, !.lease = None,
                      !.recovered = s.recovered + 1]
    BY <1>1, <1>2, <1>6, <2>1 DEF ScanEvent, Scan, Ended
  <2>3. "queued" = PhaseAfter(e) /\ "queued" \in Phases
    BY <1>6 DEF PhaseAfter, Phases
  <2> HIDE DEF n
  <2> QED BY <1>5, <1>6, <2>2, <2>3 DEF n
<1>7. CASE e.type \in {"retry-scheduled", "succeeded", "failed", "cancelled"}
  <2> DEFINE phase == IF e.type = "retry-scheduled" THEN "queued" ELSE e.type
  <2>1. phase = PhaseAfter(e) /\ phase \in Phases /\ phase # "leased"
    BY <1>7 DEF PhaseAfter, Phases, Terminal
  <2>2. n = [s EXCEPT !.legal = TRUE, !.phase = phase, !.worker = None, !.lease = None]
    <3>1. CASE e.type \in {"retry-scheduled", "succeeded"}
      <4>1. s.phase = "leased" /\ e.worker = s.worker /\ e.lease = s.lease
        BY <1>1, <3>1 DEF LegalNext
      <4> QED BY <1>1, <1>2, <3>1, <4>1 DEF ScanEvent, Scan, Ended
    <3>2. CASE e.type = "failed"
      <4>1. \/ s.phase = "leased" /\ e.worker = s.worker /\ e.lease = s.lease
            \/ s.phase = "queued" /\ previous.type = "recovered"
        BY <1>1, <3>2 DEF LegalNext, PhaseAfter
      <4> QED BY <1>1, <1>2, <3>2, <4>1 DEF ScanEvent, Scan, Ended
    <3>3. CASE e.type = "cancelled"
      <4>1. e.worker = None /\ e.lease = None
        BY <3>3 DEF Bare
      <4> QED BY <1>1, <1>2, <3>3, <4>1 DEF ScanEvent, Scan, Ended
    <3> QED BY <1>7, <3>1, <3>2, <3>3
  <2>3. n = [s EXCEPT !.legal = TRUE, !.phase = phase, !.worker = None, !.lease = None,
                      !.recovered = s.recovered + 0]
    <3>1. s \in Scan /\ s.recovered + 0 = s.recovered
      BY <1>1 DEF Scan
    <3> HIDE DEF phase, n
    <3> QED BY <2>2, <3>1 DEF Scan
  <2> HIDE DEF n, phase
  <2> QED BY <1>5, <1>7, <2>1, <2>3 DEF n
<1> QED BY <1>1, <1>2, <1>3, <1>4, <1>6, <1>7 DEF EventTypes, Terminal

(* What the walk remembers at event i of r, given what it did before. *)
Walked(r, i, s) ==
  LET n == ScanEvent(s, r.events[i], r.events[i - 1])
  IN [n EXCEPT !.legal = @ /\ r.events[i].at >= r.events[i - 1].at]

FirstScan(r) == [Scan0 EXCEPT !.legal = r.events[1].type = "enqueued"]

Walk(r, f, n) == f = [i \in 1 .. n |-> IF i = 1 THEN FirstScan(r) ELSE Walked(r, i, f[i - 1])]

LEMMA WalkExists == ASSUME NEW r, NEW n \in Nat PROVE \E f : Walk(r, f, n)
<1> DEFINE S == {k \in Nat : ~ \E f : Walk(r, f, k)}
<1> SUFFICES ASSUME n \in S PROVE FALSE
  OBVIOUS
<1>1. S \in SUBSET Nat /\ S # {}
  OBVIOUS
<1>2. PICK m \in S : \A k \in S : m <= k
  <2> HIDE DEF S
  <2> QED BY <1>1, LeastNatural
<1>3. m \in Nat /\ ~ \E f : Walk(r, f, m)
  BY <1>2
<1>4. CASE m = 0
  <2> DEFINE f == [i \in 1 .. 0 |-> {}]
  <2>1. 1 .. 0 = {}
    OBVIOUS
  <2>2. f = [i \in 1 .. 0 |-> IF i = 1 THEN FirstScan(r) ELSE Walked(r, i, f[i - 1])]
    BY <2>1
  <2>3. Walk(r, f, 0)
    BY <2>2 DEF Walk
  <2> QED BY <1>3, <1>4, <2>3
<1>5. CASE m # 0
  <2>1. m - 1 \in Nat /\ ~ (m <= m - 1)
    BY <1>3, <1>5
  <2>2. m - 1 \notin S
    BY <1>2, <2>1
  <2>3. PICK f : Walk(r, f, m - 1)
    BY <2>1, <2>2
  <2> DEFINE last == IF m = 1 THEN FirstScan(r) ELSE Walked(r, m, f[m - 1])
             g    == [i \in 1 .. m |-> IF i = m THEN last ELSE f[i]]
  <2>4. ASSUME NEW i \in 1 .. m
        PROVE  g[i] = IF i = 1 THEN FirstScan(r) ELSE Walked(r, i, g[i - 1])
    <3>1. i # 1 => i - 1 \in 1 .. m /\ i - 1 # m
      BY <1>3
    <3>2. i # 1 => g[i - 1] = f[i - 1]
      <4> HIDE DEF last
      <4> QED BY <3>1
    <3>3. CASE i = m
      <4>1. g[i] = last
        <5> HIDE DEF last
        <5> QED BY <3>3
      <4> QED BY <3>2, <3>3, <4>1
    <3>4. CASE i # m
      <4>1. i \in 1 .. m - 1
        BY <1>3, <3>4
      <4>2. f[i] = IF i = 1 THEN FirstScan(r) ELSE Walked(r, i, f[i - 1])
        BY <2>3, <4>1 DEF Walk
      <4>3. g[i] = f[i]
        <5> HIDE DEF last
        <5> QED BY <3>4
      <4> QED BY <3>2, <4>2, <4>3
    <3> QED BY <3>3, <3>4
  <2>5. Walk(r, g, m)
    <3>1. g = [i \in 1 .. m |-> g[i]]
      OBVIOUS
    <3> HIDE DEF g
    <3> QED BY <2>4, <3>1 DEF Walk
  <2> QED BY <1>3, <2>5
<1> QED BY <1>4, <1>5

LEMMA ScanIs ==
  ASSUME NEW r, Chronological(r)
  PROVE  \E f : Walk(r, f, Len(r.events)) /\ ScanOf(r) = f[Len(r.events)]
<1> DEFINE f == CHOOSE f : Walk(r, f, Len(r.events))
<1>1. Walk(r, f, Len(r.events))
  <2>1. \E g : Walk(r, g, Len(r.events))
    BY WalkExists DEF Chronological
  <2> QED BY <2>1
<1>2. ScanOf(r) = f[Len(r.events)]
  BY DEF ScanOf, Walk, Walked, FirstScan, Chronological
<1> QED BY <1>1, <1>2

UpTo(r, type, n) == {k \in 1 .. n : r.events[k].type = type}

(* The walk at event i knows what the history up to there says. *)
Seen(r, i, s) ==
  LET leases == UpTo(r, "leased", i)
  IN /\ Follows(s, r.events[i])
     /\ s.leased = Cardinality(leases) /\ s.recovered = Cardinality(UpTo(r, "recovered", i))
     /\ leases = {} => s.firstLeasedAt = None
     /\ \A k \in leases :
          /\ (\A j \in leases : k <= j) => s.firstLeasedAt = r.events[k].at
          /\ (\A j \in leases : j <= k) => s.lastLeasedAt = r.events[k].at

(* A history the report can walk through. *)
Walkable(r) ==
  /\ Chronological(r) /\ LegalHistory(r)
  /\ \A i \in 1 .. Len(r.events) : /\ r.events[i] \in Event
                                   /\ r.events[i].type = "cancelled" => Bare(r.events[i])

LEMMA UpToNext ==
  ASSUME NEW r, NEW type, NEW i \in Nat
  PROVE  /\ IsFiniteSet(UpTo(r, type, i)) /\ Cardinality(UpTo(r, type, i)) \in Nat
         /\ r.events[i + 1].type = type =>
              /\ UpTo(r, type, i + 1) = UpTo(r, type, i) \cup {i + 1}
              /\ Cardinality(UpTo(r, type, i + 1)) = Cardinality(UpTo(r, type, i)) + 1
         /\ r.events[i + 1].type # type => UpTo(r, type, i + 1) = UpTo(r, type, i)
<1>1. IsFiniteSet(1 .. i)
  BY FS_Interval
<1>2. UpTo(r, type, i) \in SUBSET (1 .. i) /\ i + 1 \notin UpTo(r, type, i)
  BY DEF UpTo
<1>3. IsFiniteSet(UpTo(r, type, i)) /\ Cardinality(UpTo(r, type, i)) \in Nat
  BY <1>1, <1>2, FS_Subset, FS_CardinalityType
<1>4. \A k : k \in 1 .. i + 1 <=> k \in 1 .. i \/ k = i + 1
  OBVIOUS
<1>5. r.events[i + 1].type = type => UpTo(r, type, i + 1) = UpTo(r, type, i) \cup {i + 1}
  BY <1>4 DEF UpTo
<1>6. r.events[i + 1].type # type => UpTo(r, type, i + 1) = UpTo(r, type, i)
  BY <1>4 DEF UpTo
<1>7. Cardinality(UpTo(r, type, i) \cup {i + 1}) = Cardinality(UpTo(r, type, i)) + 1
  BY <1>2, <1>3, FS_AddElement
<1> QED BY <1>3, <1>5, <1>6, <1>7

LEMMA SeenFirst ==
  ASSUME NEW r, Walkable(r)
  PROVE  Seen(r, 1, FirstScan(r))
<1> DEFINE s == FirstScan(r)
<1>1. /\ Len(r.events) \in Nat /\ 1 \in 1 .. Len(r.events) /\ r.events[1].type = "enqueued"
  BY DEF Walkable, Chronological, LegalHistory
<1>2. s = Scan0
  <2>1. (r.events[1].type = "enqueued") = TRUE
    BY <1>1
  <2>2. s = [Scan0 EXCEPT !.legal = TRUE]
    BY <2>1, Zenon DEF FirstScan
  <2> HIDE DEF s
  <2> QED BY <2>2 DEF Scan0
<1>3. /\ s \in Scan /\ s.legal = TRUE /\ s.phase = "queued" /\ s.leased = 0 /\ s.recovered = 0
      /\ s.firstLeasedAt = None
  BY <1>2 DEF Scan0, Scan, Phases
<1>4. PhaseAfter(r.events[1]) = "queued"
  BY <1>1 DEF PhaseAfter
<1>5. UpTo(r, "leased", 1) = {} /\ UpTo(r, "recovered", 1) = {}
  BY <1>1 DEF UpTo
<1>6. Cardinality({}) = 0
  BY FS_EmptySet
<1> HIDE DEF s
<1>7. Seen(r, 1, s)
  BY <1>3, <1>4, <1>5, <1>6 DEF Seen, Follows
<1> QED BY <1>7 DEF s

LEMMA SeenNext ==
  ASSUME NEW r, Walkable(r), NEW i \in Nat, i \in 1 .. Len(r.events),
         i + 1 \in 1 .. Len(r.events), NEW s, Seen(r, i, s)
  PROVE  Seen(r, i + 1, Walked(r, i + 1, s))
<1> DEFINE e == r.events[i + 1]
           p == r.events[i]
           m == ScanEvent(s, e, p)
           n == Walked(r, i + 1, s)
           leases == UpTo(r, "leased", i)
<1>1. (i + 1) - 1 = i /\ i \in 1 .. Len(r.events) - 1
  BY DEF Walkable, Chronological
<1>2. /\ e \in Event /\ p \in Event /\ LegalNext(p, e) /\ (e.type = "cancelled" => Bare(e))
      /\ e.at >= p.at
  BY <1>1 DEF Walkable, LegalHistory, LegalNext
<1>3. Follows(s, p)
  BY DEF Seen
<1>4. Follows(m, e) /\ CountsOn(s, m, e)
  BY <1>2, <1>3, ScanNext
<1>5. n = [m EXCEPT !.legal = m.legal /\ (e.at >= p.at)]
  BY <1>1 DEF Walked
<1>6. m \in Scan /\ m.legal = TRUE
  BY <1>4 DEF Follows
<1> HIDE DEF m, n
<1>7. n = m
  BY <1>2, <1>5, <1>6 DEF Scan
<1>8. Follows(n, e) /\ CountsOn(s, n, e)
  BY <1>4, <1>7
<1> HIDE DEF e, p
<1>9. /\ s.leased = Cardinality(leases) /\ s.recovered = Cardinality(UpTo(r, "recovered", i))
      /\ leases = {} => s.firstLeasedAt = None
      /\ \A k \in leases :
           /\ (\A j \in leases : k <= j) => s.firstLeasedAt = r.events[k].at
           /\ (\A j \in leases : j <= k) => s.lastLeasedAt = r.events[k].at
  BY DEF Seen
<1> DEFINE next == UpTo(r, "leased", i + 1)
<1>10. /\ e.type = "leased" =>
            next = leases \cup {i + 1} /\ Cardinality(next) = Cardinality(leases) + 1
       /\ e.type # "leased" => next = leases
       /\ Cardinality(leases) \in Nat
  BY UpToNext DEF e
<1>11. n.recovered = Cardinality(UpTo(r, "recovered", i + 1))
  <2>1. Cardinality(UpTo(r, "recovered", i + 1))
          = Cardinality(UpTo(r, "recovered", i)) + (IF e.type = "recovered" THEN 1 ELSE 0)
    BY UpToNext DEF e
  <2> QED BY <1>8, <1>9, <2>1 DEF CountsOn
<1>12. Follows(n, r.events[i + 1])
  BY <1>8 DEF e
<1>13. leases \in SUBSET Nat /\ \A k \in leases : k < i + 1 /\ k \in 1 .. Len(r.events)
  BY <1>1 DEF UpTo, Walkable, Chronological
<1>14. /\ e.type # "leased" => n.firstLeasedAt = s.firstLeasedAt
                              /\ n.lastLeasedAt = s.lastLeasedAt
       /\ e.type = "leased" =>
            /\ n.lastLeasedAt = r.events[i + 1].at
            /\ n.firstLeasedAt = IF s.firstLeasedAt = None THEN r.events[i + 1].at
                                                            ELSE s.firstLeasedAt
       /\ n.leased = s.leased + (IF e.type = "leased" THEN 1 ELSE 0)
  BY <1>8 DEF CountsOn, e
<1> HIDE DEF leases, next
<1>15. n.leased = Cardinality(next)
  BY <1>9, <1>10, <1>14
<1>16. next = {} => n.firstLeasedAt = None
  BY <1>9, <1>10, <1>14
<1>17. ASSUME NEW k \in next, \A j \in next : k <= j
       PROVE  n.firstLeasedAt = r.events[k].at
  <2>1. CASE e.type # "leased"
    BY <1>9, <1>10, <1>14, <1>17, <2>1
  <2>2. CASE e.type = "leased" /\ leases = {}
    BY <1>9, <1>10, <1>14, <1>17, <2>2
  <2>3. CASE e.type = "leased" /\ leases # {}
    <3>1. PICK j \in leases : TRUE
      BY <2>3
    <3>2. k <= j /\ j < i + 1 /\ j \in Nat
      BY <1>10, <1>13, <1>17, <2>3, <3>1
    <3>3. k \in leases
      BY <1>10, <1>17, <2>3, <3>2
    <3>4. s.firstLeasedAt = r.events[k].at
      BY <1>9, <1>10, <1>17, <2>3, <3>3
    <3>5. r.events[k].at \in Nat
      BY <1>13, <3>3 DEF Walkable, Chronological
    <3> QED BY <1>14, <2>3, <3>4, <3>5, NoneAssumption
  <2> QED BY <2>1, <2>2, <2>3
<1>18. ASSUME NEW k \in next, \A j \in next : j <= k
       PROVE  n.lastLeasedAt = r.events[k].at
  <2>1. CASE e.type # "leased"
    BY <1>9, <1>10, <1>14, <1>18, <2>1
  <2>2. CASE e.type = "leased"
    <3>1. i + 1 <= k /\ (k \in leases \/ k = i + 1)
      BY <1>10, <1>18, <2>2
    <3>2. k \in leases => k < i + 1 /\ k \in Nat
      BY <1>13
    <3>3. k = i + 1
      BY <3>1, <3>2
    <3> QED BY <1>14, <2>2, <3>3
  <2> QED BY <2>1, <2>2
<1>19. Seen(r, i + 1, n)
  BY <1>11, <1>12, <1>15, <1>16, <1>17, <1>18 DEF Seen, next
<1> QED BY <1>19 DEF n

LEMMA SeenAll ==
  ASSUME NEW r, Walkable(r)
  PROVE  Seen(r, Len(r.events), ScanOf(r))
<1>1. Len(r.events) \in Nat /\ Len(r.events) \in 1 .. Len(r.events)
  BY DEF Walkable, Chronological, LegalHistory
<1>2. PICK f : Walk(r, f, Len(r.events)) /\ ScanOf(r) = f[Len(r.events)]
  BY ScanIs DEF Walkable
<1>3. \A i \in 1 .. Len(r.events) :
        f[i] = IF i = 1 THEN FirstScan(r) ELSE Walked(r, i, f[i - 1])
  BY <1>2 DEF Walk
<1> DEFINE S == {i \in 1 .. Len(r.events) : ~Seen(r, i, f[i])}
<1>4. ASSUME S # {} PROVE FALSE
  <2>1. S \in SUBSET Nat
    OBVIOUS
  <2>2. PICK m \in S : \A k \in S : m <= k
    <3> HIDE DEF S
    <3> QED BY <1>4, <2>1, LeastNatural
  <2>3. m # 1
    BY <1>1, <1>3, <2>2, SeenFirst
  <2>4. /\ m - 1 \in Nat /\ m - 1 \in 1 .. Len(r.events) /\ (m - 1) + 1 = m /\ ~ (m <= m - 1)
        /\ m \in 1 .. Len(r.events)
    BY <1>1, <2>2, <2>3
  <2>5. Seen(r, m - 1, f[m - 1])
    BY <2>2, <2>4
  <2> DEFINE i == m - 1
  <2>6. i \in Nat /\ i \in 1 .. Len(r.events) /\ i + 1 = m /\ Seen(r, i, f[i])
    BY <2>4, <2>5
  <2> HIDE DEF i
  <2>7. Seen(r, i + 1, Walked(r, i + 1, f[i]))
    BY <2>4, <2>6, SeenNext
  <2>8. f[m] = Walked(r, m, f[m - 1])
    BY <1>3, <2>3, <2>4
  <2> QED BY <2>2, <2>6, <2>7, <2>8 DEF i
<1>5. Seen(r, Len(r.events), f[Len(r.events)])
  BY <1>1, <1>4
<1> QED BY <1>2, <1>5

(* What the report demands of a record beyond assertRecord: a leased task  *)
(* has no failure, a failed one failed with its last event, and a          *)
(* cancellation names no lease.                                            *)
Reportable(r) ==
  /\ r.phase = "leased" => r.failure = None
  /\ r.phase = "failed" => r.failure.occurredAt = LastEvent(r).at
  /\ r.phase = "cancelled" => Bare(LastEvent(r))

LEMMA ChangeReportable ==
  ASSUME NEW t \in Tasks, NEW r \in Record, ValidRecord(t, r), Reportable(r),
         NEW at \in Nat, NEW s \in Record, Change(t, r, s, at), LegalHistory(s)
  PROVE  Reportable(s)
<1>1. \A e \in Event : Adds(r, s, e) => LastEvent(s) = e
  BY LaterEvent
<1>2. \A e, f \in Event : AddsBoth(r, s, e, f) => LastEvent(s) = f
  BY LaterEvent
<1>3. ASSUME r.phase = "leased", NEW type \in EventTypes
      PROVE  LET e == NewEvent(type, at, r.lease.worker, r.lease.id)
             IN  e \in Event /\ e.at = at
  BY <1>3, LeasedFacts, EventType DEF NewEvent
<1>4. ASSUME NEW w \in Workers, NEW l \in LeaseIds, s = Leased(r, w, l, at)
      PROVE  Reportable(s)
  <2>1. s.phase = "leased" /\ s.failure = None
    BY <1>4 DEF Leased, Record
  <2> QED BY <2>1 DEF Reportable
<1>5. CASE r.phase = "leased" /\ s = Recovered(t, r, at)
  <2> DEFINE e == NewEvent("recovered", at, r.lease.worker, r.lease.id)
             f == NewEvent("failed", at, None, None)
  <2>1. e \in Event /\ f \in Event /\ f.at = at
    BY <1>3, <1>5, EventType DEF EventTypes, Terminal, NewEvent
  <2>2. \/ s.phase = "queued"
        \/ s.phase = "failed" /\ s.failure.occurredAt = at /\ AddsBoth(r, s, e, f)
    BY <1>5 DEF Recovered, AddsBoth, Record
  <2> HIDE DEF e, f
  <2> QED BY <1>2, <2>1, <2>2 DEF Reportable
<1>6. CASE r.phase = "leased" /\ s = Heartbeated(r, at)
  <2>1. s.phase = "leased" /\ s.failure = r.failure
    BY <1>6 DEF Heartbeated, Record
  <2> QED BY <1>6, <2>1 DEF Reportable
<1>7. CASE s = Succeeded(r, BaseCommit[t], at)
  <2>1. s.phase = "succeeded"
    BY <1>7 DEF Succeeded, Record
  <2> QED BY <2>1 DEF Reportable
<1>8. ASSUME NEW kind \in FailureKinds, r.phase = "leased", s = Failed(t, r, kind, at)
      PROVE  Reportable(s)
  <2> DEFINE e == NewEvent("failed", at, r.lease.worker, r.lease.id)
  <2>1. e \in Event /\ e.at = at
    BY <1>3, <1>8 DEF EventTypes, Terminal
  <2>2. \/ s.phase = "queued"
        \/ s.phase = "failed" /\ s.failure.occurredAt = at /\ Adds(r, s, e)
    BY <1>8 DEF Failed, Adds, Record
  <2> HIDE DEF e
  <2> QED BY <1>1, <2>1, <2>2 DEF Reportable
<1>9. CASE s = Cancelled(r, at)
  <2> DEFINE e == NewEvent("cancelled", at, None, None)
  <2>1. e \in Event /\ Bare(e)
    BY EventType DEF EventTypes, Terminal, NewEvent, Bare
  <2>2. s.phase = "cancelled" /\ Adds(r, s, e)
    BY <1>9 DEF Cancelled, Adds, Record
  <2> HIDE DEF e
  <2> QED BY <1>1, <2>1, <2>2 DEF Reportable
<1> QED BY <1>4, <1>5, <1>6, <1>7, <1>8, <1>9 DEF Change, HasExpired, InTime

ReportInv == TypeOK /\ DiskValid /\ \A t \in Enqueued : Reportable(record[t])

LEMMA ReportInit == Init => ReportInv
BY TypeInit DEF Init, ReportInv, Enqueued

LEMMA ReportStep == ReportInv /\ [Next]_vars => ReportInv'
<1> SUFFICES ASSUME ReportInv, [Next]_vars PROVE ReportInv'
  OBVIOUS
<1>1. TypeOK' /\ DiskValid' /\ clock \in Nat
  BY ClockType, TypeStep DEF ReportInv
<1>2. ASSUME NEW t \in Tasks, record'[t] # None PROVE Reportable(record'[t])
  <2>1. record[t] # None =>
          record[t] \in Record /\ Writable(t, record[t]) /\ Reportable(record[t])
    BY DEF ReportInv, TypeOK, DiskValid, Enqueued
  <2>2. ASSUME NEW r \in Record, Writable(t, r), Reportable(r), NEW s, Rewrite(t, r, s)
        PROVE  s \in Record /\ Writable(t, s) /\ Reportable(s)
    <3>1. s \in Record
      BY <1>1, <2>2, ChangeType DEF Rewrite, Writable
    <3> QED BY <1>1, <2>2, <3>1, ChangeReportable DEF Rewrite, Writable, ValidRecord
  <2>3. CASE record'[t] = record[t]
    BY <1>2, <2>1, <2>3
  <2>4. CASE record'[t] = FreshRecord(clock)
    BY <2>4 DEF FreshRecord, Reportable
  <2>5. CASE record[t] # None /\ Rewrite(t, record[t], record'[t])
    BY <2>1, <2>2, <2>5
  <2>6. CASE /\ record[t] # None
             /\ \E m : Rewrite(t, record[t], m) /\ Rewrite(t, m, record'[t])
    BY <2>1, <2>2, <2>6
  <2>7. CASE UNCHANGED vars
    BY <2>3, <2>7 DEF vars
  <2> QED BY <1>1, <2>3, <2>4, <2>5, <2>6, <2>7, StepShape DEF StepOf, ReportInv
<1> QED BY <1>1, <1>2 DEF ReportInv, Enqueued

(* A record the queue writes is one the report can walk through. *)
LEMMA ReportWalks ==
  ASSUME NEW t \in Tasks, NEW r \in Record, ValidRecord(t, r), Reportable(r)
  PROVE  Walkable(r) /\ Seen(r, Len(r.events), ScanOf(r))
<1>1. LegalHistory(r) /\ Chronological(r) /\ r.events \in Seq(Event)
  BY HistoryIsChronological DEF ValidRecord, Record
<1>2. /\ Len(r.events) \in Nat /\ r.phase = PhaseAfter(LastEvent(r))
      /\ \A i \in 1 .. Len(r.events) : r.events[i] \in Event
  BY <1>1, ElementOfSeq, LenProperties DEF ValidRecord, SummaryAgrees
<1>3. ASSUME NEW i \in 1 .. Len(r.events), r.events[i].type = "cancelled"
      PROVE  Bare(r.events[i])
  <2>1. CASE i = Len(r.events)
    <3>1. LastEvent(r).type = "cancelled"
      BY <1>3, <2>1 DEF LastEvent
    <3>2. r.phase = "cancelled"
      BY <1>2, <3>1 DEF PhaseAfter
    <3> QED BY <2>1, <3>2 DEF Reportable, LastEvent
  <2>2. CASE i # Len(r.events)
    <3>1. LegalNext(r.events[i], r.events[i + 1])
      BY <1>1, <1>2, <2>2 DEF LegalHistory
    <3>2. PhaseAfter(r.events[i]) = "cancelled"
      BY <1>3 DEF PhaseAfter
    <3> QED BY <1>3, <3>1, <3>2 DEF LegalNext, Terminal
  <2> QED BY <2>1, <2>2
<1>4. Walkable(r)
  BY <1>1, <1>2, <1>3 DEF Walkable
<1> QED BY <1>4, SeenAll

(* What the report derives from the history is what the record says. *)
LEMMA ReportSummary ==
  ASSUME NEW t \in Tasks, NEW r \in Record, ValidRecord(t, r), Reportable(r)
  PROVE  SummaryConsistent(r, ScanOf(r)) /\ LeaseConsistent(r, ScanOf(r))
<1> DEFINE s == ScanOf(r)
           n == Len(r.events)
           leases == EventsOf(r, "leased")
<1>1. Walkable(r) /\ Seen(r, n, s)
  BY ReportWalks
<1>2. /\ n \in Nat /\ DOMAIN r.events = 1 .. n /\ n \in 1 .. n /\ LastEvent(r) = r.events[n]
      /\ LastEvent(r) \in Event
  BY <1>1 DEF Walkable, Chronological, LegalHistory, LastEvent
<1>3. leases = UpTo(r, "leased", n) /\ EventsOf(r, "recovered") = UpTo(r, "recovered", n)
  BY <1>2 DEF EventsOf, UpTo
<1>4. leases \in SUBSET (1 .. n)
  BY <1>2 DEF EventsOf
<1> HIDE DEF s, n, leases
<1>5. /\ s \in Scan /\ s.legal = TRUE /\ s.phase = PhaseAfter(LastEvent(r))
      /\ s.phase = "leased" => /\ s.worker = LastEvent(r).worker /\ s.lease = LastEvent(r).lease
                               /\ s.heartbeatAt = LastEvent(r).at
      /\ s.leased = Cardinality(leases) /\ s.recovered = Cardinality(EventsOf(r, "recovered"))
      /\ leases = {} => s.firstLeasedAt = None
      /\ \A k \in leases : /\ (\A j \in leases : k <= j) => s.firstLeasedAt = r.events[k].at
                           /\ (\A j \in leases : j <= k) => s.lastLeasedAt = r.events[k].at
  BY <1>1, <1>2, <1>3 DEF Seen, Follows
<1>6. SummaryAgrees(r) /\ PhaseFieldsAgree(r) /\ LeaseTimesOrdered(r)
      /\ r.attempts \in Nat /\ r.recoveryCount \in Nat /\ r.recoveryCount <= r.attempts
  BY BudgetAssumption DEF ValidRecord, Record
<1>7. /\ r.attempts = s.leased /\ r.recoveryCount = s.recovered /\ r.phase = s.phase
  BY <1>5, <1>6 DEF SummaryAgrees, leases
<1>8. r.startedAt = IF s.leased = 0 /\ r.phase = "cancelled" THEN LastEvent(r).at
                                                              ELSE s.firstLeasedAt
  <2>1. CASE leases = {}
    <3>1. Cardinality({}) = 0
      BY FS_EmptySet
    <3>2. r.startedAt = IF r.phase = "cancelled" THEN LastEvent(r).at ELSE None
      BY <1>6, <2>1 DEF SummaryAgrees, leases
    <3> QED BY <1>5, <2>1, <3>1, <3>2
  <2>2. CASE leases # {}
    <3>1. IsFiniteSet(leases)
      <4>1. IsFiniteSet(1 .. n)
        BY <1>2, FS_Interval
      <4> QED BY <1>4, <4>1, FS_Subset
    <3>2. s.leased # 0
      BY <1>5, <2>2, <3>1, FS_EmptySet
    <3>3. \E i \in leases : (\A j \in leases : i <= j) /\ r.startedAt = r.events[i].at
      BY <1>6, <2>2 DEF SummaryAgrees, leases
    <3> QED BY <1>5, <3>2, <3>3
  <2> QED BY <2>1, <2>2
<1>9. /\ (r.phase \in Terminal) = (r.finishedAt # None)
      /\ r.phase \in Terminal => LastEvent(r).type = r.phase
      /\ (r.phase = "succeeded") = (r.result # None)
      /\ (r.phase = "leased") = (r.lease # None)
      /\ r.nextAttemptAt # None => r.phase = "queued"
  <2>1. r.phase \in Phases /\ LastEvent(r).type \in EventTypes
        /\ r.phase = PhaseAfter(LastEvent(r))
    BY <1>2, <1>6 DEF Record, Event, SummaryAgrees
  <2>2. r.phase \in Terminal => LastEvent(r).type = r.phase
    BY <2>1 DEF PhaseAfter, EventTypes, Terminal
  <2>3. r.phase \in {"queued", "leased", "succeeded", "failed", "cancelled"}
    BY <2>1 DEF Phases, Terminal
  <2> QED BY <1>6, <2>2, <2>3 DEF PhaseFieldsAgree, Terminal
<1>10. r.lease # None =>
         /\ r.lease.id = s.lease /\ r.lease.worker = s.worker
         /\ r.lease.acquiredAt = s.lastLeasedAt /\ r.lease.heartbeatAt = s.heartbeatAt
  <2>1. SUFFICES ASSUME r.phase = "leased"
                 PROVE  /\ r.lease.id = s.lease /\ r.lease.worker = s.worker
                        /\ r.lease.acquiredAt = s.lastLeasedAt
                        /\ r.lease.heartbeatAt = s.heartbeatAt
    BY <1>9
  <2>2. /\ r.lease.id = LastEvent(r).lease /\ r.lease.worker = LastEvent(r).worker
        /\ r.lease.heartbeatAt = LastEvent(r).at
        /\ \E i \in leases : (\A j \in leases : j <= i) /\ r.lease.acquiredAt = r.events[i].at
    BY <1>6, <2>1 DEF SummaryAgrees, leases
  <2> QED BY <1>5, <1>7, <2>1, <2>2
<1>11. SummaryConsistent(r, s)
  BY <1>5, <1>6, <1>7, <1>8, <1>9 DEF SummaryConsistent
<1>12. LeaseConsistent(r, s)
  BY <1>6, <1>9, <1>10 DEF LeaseConsistent
<1> QED BY <1>11, <1>12 DEF s

LEMMA ReportTiming ==
  ASSUME NEW t \in Tasks, NEW r \in Record, ValidRecord(t, r), Reportable(r)
  PROVE  TimingConsistent(r)
<1>1. /\ Chronological(r) /\ LegalHistory(r) /\ SummaryAgrees(r) /\ PhaseFieldsAgree(r)
  BY HistoryIsChronological DEF ValidRecord
<1>2. /\ 1 \in 1 .. Len(r.events) /\ Len(r.events) \in 1 .. Len(r.events)
      /\ \A i \in 1 .. Len(r.events) : CreatedAt(r) <= r.events[i].at
  BY <1>1 DEF Chronological, LegalHistory, CreatedAt
<1>3. r.startedAt # None => \E i \in 1 .. Len(r.events) : r.startedAt = r.events[i].at
  <2>1. EventsOf(r, "leased") \subseteq 1 .. Len(r.events)
    BY <1>1 DEF EventsOf, Chronological
  <2> QED BY <1>1, <1>2, <2>1 DEF SummaryAgrees, LastEvent
<1>4. /\ r.startedAt # None => r.startedAt >= CreatedAt(r)
  BY <1>1, <1>2, <1>3 DEF Chronological, CreatedAt
<1>5. r.finishedAt # None => r.startedAt # None /\ r.finishedAt >= r.startedAt
  BY <1>1 DEF PhaseFieldsAgree, Record, Phases
<1> QED BY <1>4, <1>5 DEF TimingConsistent

(* The failure fits unless the task waits with one. *)
LEMMA ReportFailure ==
  ASSUME NEW t \in Tasks, NEW r \in Record, ValidRecord(t, r), Reportable(r)
  PROVE  FailureConsistent(r) <=> ~(r.phase = "queued" /\ r.failure # None)
<1>1. /\ Chronological(r) /\ LegalHistory(r) /\ SummaryAgrees(r) /\ PhaseFieldsAgree(r)
  BY HistoryIsChronological DEF ValidRecord
<1>2. r.phase \in {"queued", "leased", "succeeded", "failed", "cancelled"}
  BY DEF Record, Phases, Terminal
<1>3. r.phase \in {"leased", "succeeded", "cancelled"} => r.failure = None
  BY <1>1 DEF PhaseFieldsAgree, Reportable
<1>4. CASE r.phase = "failed"
  <2>1. Len(r.events) \in DOMAIN r.events /\ LastEvent(r).type \in EventTypes
        /\ \A j \in DOMAIN r.events : j <= Len(r.events)
    BY <1>1 DEF Chronological, LegalHistory, LastEvent
  <2>2. LastEvent(r).type = "failed"
    <3>1. PhaseAfter(LastEvent(r)) = "failed"
      BY <1>1, <1>4 DEF SummaryAgrees
    <3> QED BY <2>1, <3>1 DEF PhaseAfter, EventTypes, Terminal
  <2>3. Len(r.events) \in FailureEvents(r) /\ FailureEvents(r) \subseteq DOMAIN r.events
    BY <2>1, <2>2 DEF FailureEvents, EventsOf, LastEvent
  <2>4. r.failure # None /\ r.failure.occurredAt = LastEvent(r).at
    BY <1>1, <1>4 DEF PhaseFieldsAgree, Reportable
  <2> QED BY <1>4, <2>1, <2>3, <2>4 DEF FailureConsistent, LastEvent
<1>5. CASE r.phase # "failed"
  BY <1>2, <1>3, <1>5 DEF FailureConsistent
<1> QED BY <1>4, <1>5

(* The validator of the report, which walks the events of each record by   *)
(* rules and limits of its own, refuses exactly the tasks that wait with a *)
(* failure and those whose history is longer than it reads.                *)
THEOREM ReportTheorem == Spec => []ReportRefusesOnlyWaitingOrLong
<1>1. ReportInv => ReportRefusesOnlyWaitingOrLong
  <2> SUFFICES ASSUME ReportInv, NEW t \in Enqueued
               PROVE  ReportAccepts(t, record[t]) <=>
                        /\ ~(record[t].phase = "queued" /\ record[t].failure # None)
                        /\ Len(record[t].events) <= ReportEventBudget
    BY DEF ReportRefusesOnlyWaitingOrLong
  <2>1. /\ t \in Tasks /\ record[t] \in Record /\ ValidRecord(t, record[t])
        /\ Reportable(record[t])
    BY DEF ReportInv, TypeOK, DiskValid, Writable, Enqueued
  <2>2. record[t].attempts \in 0 .. MaxAttempts[t]
    BY <2>1 DEF ValidRecord
  <2>3. Len(record[t].events) \in Nat /\ Len(record[t].events) >= 1
    <3>1. LegalHistory(record[t]) /\ Chronological(record[t])
      BY <2>1, HistoryIsChronological DEF ValidRecord
    <3> QED BY <3>1 DEF LegalHistory, Chronological
  <2>4. Len(record[t].events) \in 1 .. ReportEventBudget
          <=> Len(record[t].events) <= ReportEventBudget
    BY <2>3, ReportBudgetAssumption
  <2> QED BY <2>1, <2>2, <2>4, ReportSummary, ReportTiming, ReportFailure DEF ReportAccepts
<1> QED BY <1>1, ReportInit, ReportStep, PTL DEF Spec
=============================================================================
