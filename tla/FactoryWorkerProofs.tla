------------------------- MODULE FactoryWorkerProofs -------------------------
(***************************************************************************)
(* What holds of FactoryWorker, and of the TaskLedger under it, for every  *)
(* set of tasks and workers, every supply of lease ids and every attempt   *)
(* budget, whatever crashes, cancellations, lost leases and failing calls  *)
(* come between.                                                           *)
(*                                                                         *)
(* A step of the workers is, for the ledger, a step of TaskLedger or none  *)
(* (LedgerStep), and such a step changes an entry in one of seven ways     *)
(* (EntryStep).  The invariants of the ledger are proved of entries, those *)
(* of the workers from what a step cannot do to an entry: forget it, or    *)
(* change it once it is closed (ClosedStays).                              *)
(***************************************************************************)
EXTENDS FactoryWorker, FiniteSetTheorems, TLAPS

-----------------------------------------------------------------------------
(* The ledger *)

(* What one entry becomes in a step of the ledger. *)
Recovery(t, e) ==
  IF e.attempts >= MaxAttempts[t] THEN Queue!Closed(e, "failed", None)
                                  ELSE Queue!Requeued(e, TRUE)

(* The entry of t, as a claim finds it once it has recovered lapsed leases.*)
Found(t, e, d) ==
  d = e \/ (e.phase = "leased" /\ ~e.live /\ d = Recovery(t, e))

EntryChange(t, e, d) ==
  \/ Found(t, e, d)
  \/ \E f : /\ Found(t, e, f) /\ f.phase = "queued"
            /\ \E w \in Workers, l \in LeaseIds \ f.issued :
                 d = Queue!LeasedEntry(f, w, l)
  \/ /\ e.phase = "leased"
     /\ \E phase \in {"succeeded", "failed"} : d = Queue!Closed(e, phase, e.holder)
  \/ /\ e.phase = "leased" /\ e.attempts < MaxAttempts[t]
     /\ \E ready \in BOOLEAN : d = Queue!Requeued(e, ready)
  \/ e.phase \in {"queued", "leased"} /\ d = Queue!Closed(e, "cancelled", None)
  \/ e.phase = "leased" /\ d = [e EXCEPT !.live = FALSE]
  \/ e.phase = "queued" /\ d = [e EXCEPT !.ready = TRUE]

EntryStep(t) ==
  \/ ledger'[t] = ledger[t]
  \/ ledger[t] = None /\ ledger'[t] = Queue!NewEntry
  \/ ledger[t] # None /\ EntryChange(t, ledger[t], ledger'[t])

(* Every step of the ledger is one of these for every task. *)
LEMMA LedgerShape ==
  ASSUME Queue!TypeOK, Queue!Next, NEW t \in Tasks
  PROVE  EntryStep(t)
<1>0. ledger = [u \in Tasks |-> ledger[u]] /\ DOMAIN ledger = Tasks
  BY DEF Queue!TypeOK
<1>1. ASSUME NEW u \in Tasks, Queue!Enqueue(u)
      PROVE  EntryStep(t)
  BY <1>0, <1>1 DEF Queue!Enqueue, Queue!Known, EntryStep
<1>2. ASSUME NEW u \in Tasks, Queue!Cancel(u)
      PROVE  EntryStep(t)
  BY <1>0, <1>2 DEF Queue!Cancel, Queue!In, Queue!Known, EntryStep, EntryChange
<1>f. ASSUME NEW S \in SUBSET Queue!Lapsed
      PROVE  LET after == Queue!Recovering(S)
             IN  /\ DOMAIN after = Tasks
                 /\ \/ after[t] = ledger[t]
                    \/ ledger[t] # None /\ Found(t, ledger[t], after[t])
  BY DEF Queue!Recovering, Queue!RecoveredEntry, Queue!Lapsed, Queue!In, Queue!Known,
         Found, Recovery
<1>3. ASSUME NEW S \in SUBSET Queue!Lapsed, Queue!Recover(S)
      PROVE  EntryStep(t)
  BY <1>3, <1>f DEF Queue!Recover, EntryStep, EntryChange
<1>4. ASSUME NEW u \in Tasks, NEW w \in Workers, NEW l \in LeaseIds,
             Queue!ClaimTask(u, w, l)
      PROVE  EntryStep(t)
  <2> DEFINE after == Queue!Recovering(Queue!Lapsed)
  <2>1. /\ after[u].phase = "queued" /\ l \notin after[u].issued /\ ledger[u] # None
        /\ ledger' = [after EXCEPT ![u] = Queue!LeasedEntry(after[u], w, l)]
    BY <1>4 DEF Queue!ClaimTask, Queue!Known
  <2>2. /\ DOMAIN after = Tasks
        /\ \/ after[t] = ledger[t]
           \/ ledger[t] # None /\ Found(t, ledger[t], after[t])
    BY <1>f
  <2> HIDE DEF after
  <2>3. CASE t # u
    BY <2>1, <2>2, <2>3 DEF EntryStep, EntryChange
  <2>4. CASE t = u
    <3>1. ledger'[t] = Queue!LeasedEntry(after[t], w, l)
      BY <2>1, <2>2, <2>4
    <3>2. Found(t, ledger[t], after[t])
      BY <2>2 DEF Found
    <3> QED BY <2>1, <2>4, <3>1, <3>2 DEF EntryStep, EntryChange
  <2> QED BY <2>3, <2>4
<1>5. ASSUME NEW u \in Tasks, NEW w \in Workers, NEW l \in LeaseIds,
             Queue!Succeed(u, w, l) \/ Queue!Retry(u, w, l) \/ Queue!GiveUp(u, w, l)
      PROVE  EntryStep(t)
  <2>1. ledger[u] # None /\ ledger[u].phase = "leased"
    BY <1>5 DEF Queue!Succeed, Queue!Retry, Queue!GiveUp, Queue!Holds, Queue!In,
                Queue!Known
  <2>2. CASE Queue!Succeed(u, w, l) \/ Queue!GiveUp(u, w, l)
    BY <1>0, <2>1, <2>2
       DEF Queue!Succeed, Queue!GiveUp, Queue!Verdict, EntryStep, EntryChange
  <2>3. CASE Queue!Retry(u, w, l)
    BY <1>0, <2>1, <2>3 DEF Queue!Retry, EntryStep, EntryChange
  <2> QED BY <1>5, <2>2, <2>3
<1>6. ASSUME NEW L \in SUBSET Queue!In("leased"), NEW R \in SUBSET Queue!In("queued"),
             Queue!Pass(L, R)
      PROVE  EntryStep(t)
  BY <1>6 DEF Queue!Pass, Queue!In, Queue!Known, EntryStep, EntryChange
<1> QED BY <1>1, <1>2, <1>3, <1>4, <1>5, <1>6 DEF Queue!Next

LEMMA LedgerDomain ==
  Queue!TypeOK /\ Queue!Next => ledger' = [t \in Tasks |-> ledger'[t]]
BY DEF Queue!TypeOK, Queue!Next, Queue!Enqueue, Queue!Cancel, Queue!Recover,
       Queue!Recovering, Queue!ClaimTask, Queue!Succeed, Queue!Retry, Queue!GiveUp,
       Queue!Verdict, Queue!Pass
-----------------------------------------------------------------------------
(* The books of one entry. *)

Accounted(t, e) ==
  /\ e.phase \in {"leased", "succeeded"} => e.holder # None
  /\ e.phase \in {"queued", "cancelled"} => e.holder = None
  /\ e.holder # None => e.holder.lease \in e.issued
  /\ IsFiniteSet(e.issued) /\ e.attempts = Cardinality(e.issued)
  /\ e.attempts <= MaxAttempts[t]
  /\ e.phase = "queued" => e.attempts < MaxAttempts[t]

LEMMA FoundAccounted ==
  ASSUME NEW t \in Tasks, NEW e \in Queue!Entry, Accounted(t, e), NEW d, Found(t, e, d)
  PROVE  d \in Queue!Entry /\ Accounted(t, d) /\ d.issued = e.issued
<1>1. MaxAttempts[t] \in Nat /\ e.attempts \in Nat
  BY WorkerAssumption DEF Queue!Entry
<1>2. ASSUME e.attempts >= MaxAttempts[t], d = Queue!Closed(e, "failed", None)
      PROVE  d \in Queue!Entry /\ Accounted(t, d) /\ d.issued = e.issued
  BY <1>2 DEF Queue!Closed, Queue!Entry, Queue!Phases, Queue!Terminal, Accounted
<1>3. ASSUME e.attempts < MaxAttempts[t], d = Queue!Requeued(e, TRUE)
      PROVE  d \in Queue!Entry /\ Accounted(t, d) /\ d.issued = e.issued
  BY <1>3 DEF Queue!Requeued, Queue!Entry, Queue!Phases, Accounted
<1>4. e.attempts >= MaxAttempts[t] \/ e.attempts < MaxAttempts[t]
  BY <1>1
<1>5. CASE d = Recovery(t, e)
  <2>1. CASE e.attempts >= MaxAttempts[t]
    BY <1>2, <1>5, <2>1 DEF Recovery
  <2>2. CASE ~(e.attempts >= MaxAttempts[t])
    BY <1>3, <1>4, <1>5, <2>2 DEF Recovery
  <2> QED BY <2>1, <2>2
<1> QED BY <1>5 DEF Found

LEMMA LeasedAccounted ==
  ASSUME NEW t \in Tasks, NEW e \in Queue!Entry, Accounted(t, e), e.phase = "queued",
         NEW w \in Workers, NEW l \in LeaseIds \ e.issued
  PROVE  Queue!LeasedEntry(e, w, l) \in Queue!Entry
         /\ Accounted(t, Queue!LeasedEntry(e, w, l))
<1> DEFINE d == Queue!LeasedEntry(e, w, l)
<1>1. MaxAttempts[t] \in Nat /\ e.attempts \in Nat /\ e.issued \in SUBSET LeaseIds
  BY WorkerAssumption DEF Queue!Entry
<1>2. Queue!HolderOf(w, l) \in Queue!Holder /\ Queue!HolderOf(w, l).lease = l
  BY DEF Queue!HolderOf, Queue!Holder
<1>3. /\ d.phase = "leased" /\ d.attempts = e.attempts + 1
      /\ d.holder = Queue!HolderOf(w, l) /\ d.issued = e.issued \cup {l}
      /\ d = [e EXCEPT !.phase = "leased", !.attempts = e.attempts + 1,
                       !.holder = Queue!HolderOf(w, l), !.issued = e.issued \cup {l},
                       !.live = TRUE, !.ready = FALSE]
  BY DEF Queue!LeasedEntry, Queue!Entry
<1>4. d \in Queue!Entry
  <2>1. e.attempts + 1 \in Nat /\ e.issued \cup {l} \in SUBSET LeaseIds
    BY <1>1
  <2> QED BY <1>2, <1>3, <2>1 DEF Queue!Entry, Queue!Phases
<1>5. Accounted(t, d)
  <2>1. /\ IsFiniteSet(e.issued \cup {l})
        /\ Cardinality(e.issued \cup {l}) = Cardinality(e.issued) + 1
    BY FS_AddElement DEF Accounted
  <2>2. d.attempts <= MaxAttempts[t]
    BY <1>1, <1>3 DEF Accounted
  <2> HIDE DEF d
  <2> QED BY <1>2, <1>3, <2>1, <2>2, NoneAssumption DEF Accounted
<1> QED BY <1>4, <1>5

LEMMA ChangeAccounted ==
  ASSUME NEW t \in Tasks, NEW e \in Queue!Entry, Accounted(t, e), NEW d,
         EntryChange(t, e, d)
  PROVE  d \in Queue!Entry /\ Accounted(t, d)
<1>1. CASE Found(t, e, d)
  BY <1>1, FoundAccounted
<1>2. ASSUME NEW f, Found(t, e, f), f.phase = "queued",
             NEW w \in Workers, NEW l \in LeaseIds \ f.issued,
             d = Queue!LeasedEntry(f, w, l)
      PROVE  d \in Queue!Entry /\ Accounted(t, d)
  BY <1>2, FoundAccounted, LeasedAccounted
<1>3. ASSUME NEW phase \in {"succeeded", "failed", "cancelled"},
             NEW holder \in {e.holder, None},
             phase = "succeeded" => e.phase = "leased" /\ holder = e.holder,
             phase = "cancelled" => holder = None,
             d = Queue!Closed(e, phase, holder)
      PROVE  d \in Queue!Entry /\ Accounted(t, d)
  <2>1. /\ d.phase = phase /\ d.holder = holder /\ d.issued = e.issued
        /\ d.attempts = e.attempts /\ d \in Queue!Entry
    BY <1>3 DEF Queue!Closed, Queue!Entry, Queue!Phases, Queue!Terminal
  <2> QED BY <1>3, <2>1 DEF Accounted
<1>4. ASSUME e.attempts < MaxAttempts[t], NEW ready \in BOOLEAN,
             d = Queue!Requeued(e, ready)
      PROVE  d \in Queue!Entry /\ Accounted(t, d)
  BY <1>4 DEF Queue!Requeued, Queue!Entry, Queue!Phases, Accounted
<1>5. CASE d = [e EXCEPT !.live = FALSE] \/ d = [e EXCEPT !.ready = TRUE]
  BY <1>5 DEF Queue!Entry, Accounted
<1> QED BY <1>1, <1>2, <1>3, <1>4, <1>5 DEF EntryChange

LedgerInv == /\ Queue!TypeOK
             /\ \A t \in Queue!Known : Accounted(t, ledger[t])

LEMMA LedgerInvInit == Queue!Init => LedgerInv
BY DEF Queue!Init, LedgerInv, Queue!TypeOK, Queue!Known

LEMMA LedgerInvStep == LedgerInv /\ [Queue!Next]_ledger => LedgerInv'
<1> SUFFICES ASSUME LedgerInv, [Queue!Next]_ledger PROVE LedgerInv'
  OBVIOUS
<1>1. CASE UNCHANGED ledger
  BY <1>1 DEF LedgerInv, Queue!TypeOK, Queue!Known
<1>2. CASE Queue!Next
  <2>1. ASSUME NEW t \in Tasks
        PROVE  /\ ledger'[t] \in Queue!Entry \cup {None}
               /\ ledger'[t] # None => Accounted(t, ledger'[t])
    <3>1. ledger[t] # None => ledger[t] \in Queue!Entry /\ Accounted(t, ledger[t])
      BY DEF LedgerInv, Queue!TypeOK, Queue!Known
    <3>2. Queue!NewEntry \in Queue!Entry /\ Accounted(t, Queue!NewEntry)
      BY WorkerAssumption, FS_EmptySet
         DEF Queue!NewEntry, Queue!Entry, Queue!Phases, Accounted
    <3>3. EntryStep(t)
      BY <1>2, LedgerShape DEF LedgerInv
    <3> QED BY <3>1, <3>2, <3>3, ChangeAccounted DEF EntryStep, LedgerInv, Queue!TypeOK
  <2>2. ledger' = [t \in Tasks |-> ledger'[t]]
    <3>1. Queue!TypeOK
      BY DEF LedgerInv
    <3> QED BY <1>2, <3>1, LedgerDomain
  <2> QED BY <2>1, <2>2 DEF LedgerInv, Queue!TypeOK, Queue!Known
<1> QED BY <1>1, <1>2
-----------------------------------------------------------------------------
(* The workers, for the ledger *)

(* Whoever is in a runOnce has a job, and the task of that job is known;   *)
(* nobody settles a task or records its failure once a heartbeat failed.   *)
Working ==
  \A w \in Workers : pc[w] # "idle" => job[w] \in Job /\ job[w].task \in Queue!Known

Attentive == \A w \in Workers : pc[w] \in {"settling", "recording"} => ~lost[w]

(* Every step of the workers is a step of the ledger or leaves it alone.   *)
LEMMA LedgerStep == Working /\ [Next]_vars => [Queue!Next]_ledger
<1> SUFFICES ASSUME Working, [Next]_vars PROVE [Queue!Next]_ledger
  OBVIOUS
<1>1. ASSUME NEW w \in Workers, RunOnce(w) PROVE [Queue!Next]_ledger
  <2>1. CASE ClaimTask(w)
    BY <2>1 DEF ClaimTask, Queue!Next
  <2>2. CASE ClaimNothing(w)
    <3>1. Queue!Recover(Queue!Lapsed) /\ Queue!Lapsed \in SUBSET Queue!Lapsed
      BY <2>2 DEF ClaimNothing
    <3> QED BY <3>1 DEF Queue!Next
  <2>3. CASE ClaimThrows(w)
    BY <2>3 DEF ClaimThrows, Queue!Next
  <2>4. CASE HeartbeatFails(w) \/ ExecutorResolves(w) \/ ExecutorRejects(w) \/ Catch(w)
    BY <2>4 DEF HeartbeatFails, ExecutorResolves, ExecutorRejects, Catch
  <2>5. pc[w] # "idle" => job[w].task \in Tasks /\ job[w].lease \in LeaseIds
    BY DEF Working, Job
  <2>6. CASE Succeed(w) \/ SucceedThrows(w)
    BY <2>5, <2>6 DEF Succeed, SucceedThrows, Queue!Next
  <2>7. CASE RecordFailure(w) \/ RecordThrows(w)
    BY <2>5, <2>7 DEF RecordFailure, RecordThrows, Recorded, Queue!Next
  <2> QED BY <1>1, <2>1, <2>2, <2>3, <2>4, <2>6, <2>7 DEF RunOnce
<1>2. ASSUME NEW w \in Workers, Crash(w) PROVE [Queue!Next]_ledger
  BY <1>2 DEF Crash
<1>3. ASSUME NEW t \in Tasks, Enqueue(t) \/ Cancel(t) \/ Expire(t) \/ Ripen(t)
      PROVE  [Queue!Next]_ledger
  <2>1. CASE Enqueue(t) \/ Cancel(t)
    BY <2>1 DEF Enqueue, Cancel, Queue!Next
  <2>2. CASE Expire(t)
    <3>1. /\ {t} \cap Queue!In("leased") \in SUBSET Queue!In("leased")
          /\ {} \in SUBSET Queue!In("queued")
      OBVIOUS
    <3> QED BY <2>2, <3>1 DEF Expire, Queue!Next
  <2>3. CASE Ripen(t)
    <3>1. /\ {t} \cap Queue!In("queued") \in SUBSET Queue!In("queued")
          /\ {} \in SUBSET Queue!In("leased")
      OBVIOUS
    <3> QED BY <2>3, <3>1 DEF Ripen, Queue!Next
  <2> QED BY <1>3, <2>1, <2>2, <2>3
<1> QED BY <1>1, <1>2, <1>3 DEF Next, vars

(* A task is never forgotten, and no step changes it once it is closed.    *)
LEMMA ClosedStays ==
  ASSUME LedgerInv, [Queue!Next]_ledger, NEW t \in Queue!Known
  PROVE  /\ ledger'[t] # None
         /\ ledger[t].phase \in Queue!Terminal => ledger'[t] = ledger[t]
<1>1. t \in Tasks /\ ledger[t] # None /\ ledger[t] \in Queue!Entry
      /\ Accounted(t, ledger[t])
  BY DEF LedgerInv, Queue!TypeOK, Queue!Known
<1>2. CASE ledger'[t] = ledger[t]
  BY <1>1, <1>2
<1>3. CASE EntryChange(t, ledger[t], ledger'[t])
  <2>1. ledger'[t] # None
    BY <1>1, <1>3, ChangeAccounted, NoneAssumption
  <2>2. \A f : Found(t, ledger[t], f) =>
          f = ledger[t] \/ ledger[t].phase \notin Queue!Terminal
    BY DEF Found, Queue!Terminal
  <2>3. ledger'[t] = ledger[t] \/ ledger[t].phase \notin Queue!Terminal
    BY <1>3, <2>2 DEF EntryChange, Queue!Terminal
  <2> QED BY <2>1, <2>3
<1>4. CASE UNCHANGED ledger
  BY <1>2, <1>4
<1> QED BY <1>1, <1>2, <1>3, <1>4, LedgerShape DEF EntryStep, LedgerInv
-----------------------------------------------------------------------------
(* The workers, each by itself *)

Said(w, status) ==
  /\ status \in {"succeeded", "failed"} =>
       /\ pc[w] # "idle" /\ ledger'[job[w].task].phase = status
       /\ ledger'[job[w].task].holder = Queue!HolderOf(w, job[w].lease)
  /\ status = "cancelled" =>
       pc[w] # "idle" /\ ledger'[job[w].task].phase = "cancelled"

(* What a step does to the variables of one worker. *)
WorkerStep(w) ==
  \/ /\ pc'[w] = pc[w] /\ job'[w] = job[w] /\ lost'[w] = lost[w]
     /\ caught'[w] = caught[w] /\ report'[w] = report[w]
  \/ /\ pc'[w] = "executing" /\ job'[w] \in Job /\ ledger'[job'[w].task] # None
     /\ lost'[w] = lost[w] /\ caught'[w] = caught[w] /\ report'[w] = report[w]
  \/ /\ pc'[w] = "idle" /\ job'[w] = None /\ lost'[w] = FALSE /\ caught'[w] = None
     /\ \E status \in Statuses :
          Said(w, status) /\ report'[w] = [status |-> status, job |-> job[w]]
  \/ /\ pc[w] = "executing" /\ pc'[w] = pc[w] /\ job'[w] = job[w] /\ lost'[w] = TRUE
     /\ caught'[w] = caught[w] /\ report'[w] = report[w]
  \/ /\ pc[w] # "idle" /\ pc'[w] = "catching" /\ caught'[w] \in FailureKinds
     /\ job'[w] = job[w] /\ lost'[w] = lost[w] /\ report'[w] = report[w]
  \/ /\ pc[w] # "idle" /\ ~lost[w] /\ pc'[w] \in {"settling", "recording"}
     /\ job'[w] = job[w] /\ lost'[w] = lost[w] /\ caught'[w] = caught[w]
     /\ report'[w] = report[w]

WorkersType ==
  /\ pc \in [Workers -> Steps]
  /\ job \in [Workers -> Job \cup {None}]
  /\ lost \in [Workers -> BOOLEAN]
  /\ caught \in [Workers -> FailureKinds \cup {None}]
  /\ report \in [Workers -> Report]

WorkersDomain ==
  /\ pc = [w \in Workers |-> pc[w]] /\ job = [w \in Workers |-> job[w]]
  /\ lost = [w \in Workers |-> lost[w]] /\ caught = [w \in Workers |-> caught[w]]
  /\ report = [w \in Workers |-> report[w]]

(* The verdicts of the ledger *)
LEMMA VerdictStands ==
  ASSUME Queue!TypeOK, NEW t \in Tasks, NEW w \in Workers, NEW l \in LeaseIds
  PROVE  /\ Queue!Succeed(t, w, l) =>
              ledger'[t].phase = "succeeded" /\ ledger'[t].holder = Queue!HolderOf(w, l)
         /\ Queue!GiveUp(t, w, l) =>
              ledger'[t].phase = "failed" /\ ledger'[t].holder = Queue!HolderOf(w, l)
<1>1. ASSUME NEW phase \in {"succeeded", "failed"}, Queue!Holds(t, w, l),
             Queue!Verdict(t, phase)
      PROVE  ledger'[t].phase = phase /\ ledger'[t].holder = Queue!HolderOf(w, l)
  <2>1. ledger[t] \in Queue!Entry /\ ledger[t].holder = Queue!HolderOf(w, l)
    BY <1>1 DEF Queue!TypeOK, Queue!Holds, Queue!In, Queue!Known
  <2>2. ledger'[t] = Queue!Closed(ledger[t], phase, ledger[t].holder)
    BY <1>1 DEF Queue!TypeOK, Queue!Verdict
  <2> QED BY <2>1, <2>2 DEF Queue!Closed, Queue!Entry
<1> QED BY <1>1 DEF Queue!Succeed, Queue!GiveUp

LEMMA WorkerShape ==
  ASSUME LedgerInv, WorkersType, Working, Next, NEW v \in Workers
  PROVE  WorkerStep(v) /\ WorkersDomain'
<1>a. ASSUME NEW w \in Workers, NEW status \in Statuses, Answer(w, status), Said(w, status)
      PROVE  WorkerStep(v) /\ WorkersDomain'
  BY <1>a DEF Answer, WorkersType, WorkersDomain, WorkerStep
<1>b. ASSUME NEW w \in Workers, pc[w] # "idle", NEW kind \in FailureKinds, Throw(w, kind)
      PROVE  WorkerStep(v) /\ WorkersDomain'
  BY <1>b DEF Throw, WorkersType, WorkersDomain, WorkerStep
<1>c. ASSUME NEW w \in Workers, pc[w] # "idle", ~lost[w],
             NEW step \in {"settling", "recording"}, Goto(w, step)
      PROVE  WorkerStep(v) /\ WorkersDomain'
  BY <1>c DEF Goto, WorkersType, WorkersDomain, WorkerStep
<1>d. ASSUME NEW w \in Workers, pc[w] # "idle"
      PROVE  job[w].task \in Tasks /\ job[w].lease \in LeaseIds
  BY <1>d DEF Working, Job
<1>t. Queue!TypeOK
  BY DEF LedgerInv
<1>e. "threw" \in Statuses /\ "idle" \in Statuses /\ "crashed" \in Statuses
      /\ "succeeded" \in Statuses /\ "failed" \in Statuses
      /\ "retry-scheduled" \in Statuses /\ "cancelled" \in Statuses
  BY DEF Statuses
<1>1. ASSUME NEW w \in Workers, ClaimTask(w) PROVE WorkerStep(v) /\ WorkersDomain'
  <2>1. PICK t \in Tasks, l \in LeaseIds :
          /\ Queue!ClaimTask(t, w, l)
          /\ job' = [job EXCEPT ![w] = [task |-> t, lease |-> l]]
    BY <1>1 DEF ClaimTask
  <2>2. ledger'[t] # None
    <3>1. [Queue!Next]_ledger /\ t \in Queue!Known
      BY <2>1 DEF Queue!Next, Queue!ClaimTask
    <3> QED BY <3>1, ClosedStays
  <2>3. [task |-> t, lease |-> l] \in Job
    BY DEF Job
  <2> QED BY <1>1, <2>1, <2>2, <2>3
          DEF ClaimTask, WorkersType, WorkersDomain, WorkerStep
<1>2. ASSUME NEW w \in Workers, ClaimNothing(w) \/ ClaimThrows(w) \/ Crash(w)
      PROVE  WorkerStep(v) /\ WorkersDomain'
  BY <1>2, <1>a, <1>e DEF ClaimNothing, ClaimThrows, Crash, Said
<1>3. ASSUME NEW w \in Workers, HeartbeatFails(w) PROVE WorkerStep(v) /\ WorkersDomain'
  BY <1>3 DEF HeartbeatFails, WorkersType, WorkersDomain, WorkerStep
<1>4. ASSUME NEW w \in Workers, ExecutorResolves(w) \/ ExecutorRejects(w)
      PROVE  WorkerStep(v) /\ WorkersDomain'
  BY <1>4, <1>b, <1>c, WorkerAssumption DEF ExecutorResolves, ExecutorRejects
<1>5. ASSUME NEW w \in Workers, Succeed(w) PROVE WorkerStep(v) /\ WorkersDomain'
  <2>1. Said(w, "succeeded")
    BY <1>5, <1>d, <1>t, VerdictStands DEF Succeed, Said
  <2> QED BY <1>5, <1>a, <1>e, <2>1 DEF Succeed
<1>6. ASSUME NEW w \in Workers, SucceedThrows(w) PROVE WorkerStep(v) /\ WorkersDomain'
  BY <1>6, <1>b, WorkerAssumption DEF SucceedThrows
<1>7. ASSUME NEW w \in Workers, Catch(w) PROVE WorkerStep(v) /\ WorkersDomain'
  <2>1. JobPhase(w) = "cancelled" => Said(w, "cancelled")
    BY <1>7 DEF Catch, JobPhase, Said
  <2> QED BY <1>7, <1>a, <1>c, <1>e, <2>1 DEF Catch, Said
<1>8. ASSUME NEW w \in Workers, RecordFailure(w) \/ RecordThrows(w)
      PROVE  WorkerStep(v) /\ WorkersDomain'
  <2>1. RecordFailure(w) /\ ~MayRetry(w) => Said(w, "failed")
    BY <1>d, <1>t, VerdictStands DEF RecordFailure, Recorded, Said
  <2> QED BY <1>8, <1>a, <1>e, <2>1 DEF RecordFailure, RecordThrows, Said
<1>9. ASSUME NEW t \in Tasks, Enqueue(t) \/ Cancel(t) \/ Expire(t) \/ Ripen(t)
      PROVE  WorkerStep(v) /\ WorkersDomain'
  BY <1>9 DEF Enqueue, Cancel, Expire, Ripen, workerVars, WorkersType, WorkersDomain,
              WorkerStep
<1> QED BY <1>1, <1>2, <1>3, <1>4, <1>5, <1>6, <1>7, <1>8, <1>9 DEF Next, RunOnce
-----------------------------------------------------------------------------
(* The invariant of the workers. *)

Reported ==
  \A w \in Workers :
    report[w].status \in {"succeeded", "failed", "cancelled"} =>
      report[w].job \in Job /\ report[w].job.task \in Queue!Known

WorkerInv == /\ LedgerInv /\ WorkersType
             /\ Working /\ Attentive /\ Reported /\ ReportsAreTrue

LEMMA WorkerInvInit == Init => WorkerInv
BY LedgerInvInit
   DEF Init, WorkerInv, WorkersType, Steps, Report, Statuses, Working, Attentive,
       Reported, ReportsAreTrue

LEMMA WorkerInvStep == WorkerInv /\ [Next]_vars => WorkerInv'
<1> SUFFICES ASSUME WorkerInv, [Next]_vars PROVE WorkerInv'
  OBVIOUS
<1>1. LedgerInv /\ WorkersType /\ Working /\ Attentive /\ Reported /\ ReportsAreTrue
  BY DEF WorkerInv
<1>2. [Queue!Next]_ledger
  BY <1>1, LedgerStep
<1>3. LedgerInv'
  BY <1>1, <1>2, LedgerInvStep
<1>4. \A t \in Queue!Known :
        /\ t \in Queue!Known'
        /\ ledger[t].phase \in Queue!Terminal => ledger'[t] = ledger[t]
  BY <1>1, <1>2, ClosedStays DEF Queue!Known
<1>5. ASSUME NEW w \in Workers PROVE WorkerStep(w)
  <2>1. CASE UNCHANGED vars
    BY <2>1 DEF vars, workerVars, WorkerStep
  <2> QED BY <1>1, <2>1, WorkerShape
<1>6. WorkersType'
  <2>1. WorkersDomain'
    <3>1. CASE UNCHANGED vars
      BY <1>1, <3>1 DEF vars, workerVars, WorkersType, WorkersDomain
    <3>2. CASE Next
      <4>1. CASE Workers = {}
        BY <3>2, <4>1, <1>1 DEF Next, Enqueue, Cancel, Expire, Ripen, workerVars,
                                WorkersType, WorkersDomain
      <4> QED BY <1>1, <3>2, <4>1, WorkerShape
    <3> QED BY <3>1, <3>2
  <2>2. ASSUME NEW w \in Workers
        PROVE  /\ pc'[w] \in Steps /\ job'[w] \in Job \cup {None} /\ lost'[w] \in BOOLEAN
               /\ caught'[w] \in FailureKinds \cup {None} /\ report'[w] \in Report
    <3>1. /\ pc[w] \in Steps /\ job[w] \in Job \cup {None} /\ lost[w] \in BOOLEAN
          /\ caught[w] \in FailureKinds \cup {None} /\ report[w] \in Report
      BY <1>1 DEF WorkersType
    <3>2. \A status \in Statuses : [status |-> status, job |-> job[w]] \in Report
      BY <3>1 DEF Report
    <3> QED BY <1>5, <3>1, <3>2 DEF WorkerStep, Steps
  <2> QED BY <2>1, <2>2 DEF WorkersDomain, WorkersType
<1>7. Working'
  <2> SUFFICES ASSUME NEW w \in Workers, pc'[w] # "idle"
               PROVE  job'[w] \in Job /\ job'[w].task \in Queue!Known'
    BY DEF Working
  <2>1. pc[w] # "idle" => job[w] \in Job /\ job[w].task \in Queue!Known'
    BY <1>1, <1>4 DEF Working
  <2> QED BY <1>5, <2>1 DEF WorkerStep, Queue!Known, Job
<1>8. Attentive'
  BY <1>1, <1>5 DEF Attentive, WorkerStep, WorkersType
<1>9. ASSUME NEW w \in Workers, report'[w].status \in {"succeeded", "failed", "cancelled"}
      PROVE  LET said == report'[w]
             IN  /\ said.job \in Job /\ said.job.task \in Queue!Known'
                 /\ said.status \in {"succeeded", "failed"} =>
                      /\ ledger'[said.job.task].phase = said.status
                      /\ ledger'[said.job.task].holder = Queue!HolderOf(w, said.job.lease)
                 /\ said.status = "cancelled" =>
                      ledger'[said.job.task].phase = "cancelled"
  <2>1. CASE report'[w] = report[w]
    <3>1. report[w].job \in Job /\ report[w].job.task \in Queue!Known
      BY <1>1, <1>9, <2>1 DEF Reported
    <3>2. ledger[report[w].job.task].phase \in Queue!Terminal
      BY <1>1, <1>9, <2>1 DEF ReportsAreTrue, Queue!Terminal
    <3>3. ledger'[report[w].job.task] = ledger[report[w].job.task]
      BY <1>4, <3>1, <3>2
    <3> QED BY <1>1, <1>4, <1>9, <2>1, <3>1, <3>3 DEF ReportsAreTrue
  <2>2. ASSUME NEW status \in Statuses, Said(w, status),
               report'[w] = [status |-> status, job |-> job[w]]
        PROVE  LET said == report'[w]
               IN  /\ said.job \in Job /\ said.job.task \in Queue!Known'
                   /\ said.status \in {"succeeded", "failed"} =>
                        /\ ledger'[said.job.task].phase = said.status
                        /\ ledger'[said.job.task].holder
                             = Queue!HolderOf(w, said.job.lease)
                   /\ said.status = "cancelled" =>
                        ledger'[said.job.task].phase = "cancelled"
    <3>1. pc[w] # "idle"
      BY <1>9, <2>2 DEF Said
    <3>2. job[w] \in Job /\ job[w].task \in Queue!Known'
      BY <1>1, <1>4, <3>1 DEF Working
    <3> QED BY <1>9, <2>2, <3>2 DEF Said
  <2> QED BY <1>5, <2>1, <2>2 DEF WorkerStep
<1>10. Reported' /\ ReportsAreTrue'
  BY <1>9 DEF Reported, ReportsAreTrue
<1> QED BY <1>3, <1>6, <1>7, <1>8, <1>10 DEF WorkerInv

LEMMA WorkerInvHolds == Spec => []WorkerInv
BY WorkerInvInit, WorkerInvStep, PTL DEF Spec

(* Every variable of the workers and of their queue keeps its type. *)
THEOREM WorkerTypeTheorem == Spec => []TypeOK
<1>1. WorkerInv => TypeOK
  BY DEF WorkerInv, LedgerInv, WorkersType, TypeOK
<1> QED BY <1>1, WorkerInvHolds, PTL

(* Whatever the workers do is something the ledger allows: runOnce makes   *)
(* no step on the queue but the calls of TaskLedger, with a lease of its   *)
(* own.                                                                    *)
THEOREM WorkersUseTheLedger == Spec => Queue!Spec
<1>1. Init => Queue!Init
  BY DEF Init
<1>2. WorkerInv /\ [Next]_vars => [Queue!Next]_ledger
  BY LedgerStep DEF WorkerInv
<1> QED BY <1>1, <1>2, WorkerInvHolds, PTL DEF Spec, Queue!Spec

(* The books of the queue: one lease id per attempt counted, never more    *)
(* attempts than the budget, a holder whenever one is due, also when       *)
(* claims, verdicts and recoveries fail half-way or workers die.           *)
THEOREM LeasesAccountedTheorem == Spec => []LeasesAccounted
<1>1. LedgerInv => Queue!LeasesAccounted
  BY DEF LedgerInv, Accounted, Queue!LeasesAccounted, Cardinality, IsFiniteSet,
         Queue!Cardinality, Queue!IsFiniteSet
<1>2. WorkerInv => LeasesAccounted
  BY <1>1 DEF WorkerInv, LeasesAccounted
<1> QED BY <1>2, WorkerInvHolds, PTL

(* What a worker answered stays true of the queue for ever. *)
THEOREM ReportsTheorem == Spec => []ReportsAreTrue
<1>1. WorkerInv => ReportsAreTrue
  BY DEF WorkerInv
<1> QED BY <1>1, WorkerInvHolds, PTL
-----------------------------------------------------------------------------
(* Who settles a task *)

(* The step closes the leased task t by a verdict of its holder. *)
Settled(t) == /\ t \in Queue!In("leased")
              /\ \/ ledger'[t].phase = "succeeded"
                 \/ ledger'[t].phase = "failed" /\ ledger'[t].holder # None

(* Only succeed and fail do. *)
LEMMA NoVerdict ==
  ASSUME Queue!TypeOK, NEW t \in Tasks,
         \/ UNCHANGED ledger
         \/ \E u \in Tasks : Queue!Enqueue(u) \/ Queue!Cancel(u)
         \/ \E S \in SUBSET Queue!Lapsed : Queue!Recover(S)
         \/ \E u \in Tasks, w \in Workers, l \in LeaseIds :
              Queue!ClaimTask(u, w, l) \/ Queue!Retry(u, w, l)
         \/ \E L \in SUBSET Queue!In("leased"), R \in SUBSET Queue!In("queued") :
              Queue!Pass(L, R)
  PROVE  ~Settled(t)
<1> SUFFICES ASSUME Settled(t) PROVE FALSE
  OBVIOUS
<1>0. /\ ledger[t] \in Queue!Entry /\ ledger[t] # None /\ ledger[t].phase = "leased"
      /\ DOMAIN ledger = Tasks
  BY DEF Settled, Queue!In, Queue!Known, Queue!TypeOK
<1>f. ASSUME NEW S \in SUBSET Queue!Lapsed
      PROVE  LET after == Queue!Recovering(S)
             IN  /\ DOMAIN after = Tasks
                 /\ \/ after[t].phase \in {"leased", "queued"}
                    \/ after[t].phase = "failed" /\ after[t].holder = None
  BY <1>0 DEF Queue!Recovering, Queue!RecoveredEntry, Queue!Closed, Queue!Requeued,
              Queue!Entry
<1>1. CASE UNCHANGED ledger
  BY <1>0, <1>1 DEF Settled
<1>2. ASSUME NEW u \in Tasks, Queue!Enqueue(u) \/ Queue!Cancel(u) PROVE FALSE
  <2>1. CASE Queue!Enqueue(u)
    BY <1>0, <2>1 DEF Queue!Enqueue, Queue!Known, Settled
  <2>2. CASE Queue!Cancel(u)
    BY <1>0, <2>2 DEF Queue!Cancel, Queue!Closed, Queue!Entry, Settled
  <2> QED BY <1>2, <2>1, <2>2
<1>3. ASSUME NEW S \in SUBSET Queue!Lapsed, Queue!Recover(S) PROVE FALSE
  BY <1>3, <1>f DEF Queue!Recover, Settled
<1>4. ASSUME NEW u \in Tasks, NEW w \in Workers, NEW l \in LeaseIds,
             Queue!ClaimTask(u, w, l)
      PROVE  FALSE
  <2> DEFINE after == Queue!Recovering(Queue!Lapsed)
  <2>1. ledger' = [after EXCEPT ![u] = Queue!LeasedEntry(after[u], w, l)]
    BY <1>4 DEF Queue!ClaimTask
  <2>2. /\ DOMAIN after = Tasks
        /\ \/ after[t].phase \in {"leased", "queued"}
           \/ after[t].phase = "failed" /\ after[t].holder = None
    BY <1>f
  <2>3. after[t] \in Queue!Entry
    BY <1>0 DEF Queue!Recovering, Queue!RecoveredEntry, Queue!Closed, Queue!Requeued,
                Queue!Entry, Queue!Phases, Queue!Terminal
  <2> HIDE DEF after
  <2>4. CASE t = u
    <3>1. ledger'[t].phase = "leased"
      BY <2>1, <2>2, <2>3, <2>4 DEF Queue!LeasedEntry, Queue!Entry
    <3> QED BY <3>1 DEF Settled
  <2> QED BY <2>1, <2>2, <2>4 DEF Settled
<1>5. ASSUME NEW u \in Tasks, NEW w \in Workers, NEW l \in LeaseIds, Queue!Retry(u, w, l)
      PROVE  FALSE
  BY <1>0, <1>5 DEF Queue!Retry, Queue!Requeued, Queue!Entry, Settled
<1>6. ASSUME NEW L \in SUBSET Queue!In("leased"), NEW R \in SUBSET Queue!In("queued"),
             Queue!Pass(L, R)
      PROVE  FALSE
  <2>1. ledger'[t].phase = ledger[t].phase
    BY <1>0, <1>6 DEF Queue!Pass, Queue!Entry
  <2> QED BY <1>0, <2>1 DEF Settled
<1> QED BY <1>1, <1>2, <1>3, <1>4, <1>5, <1>6

LEMMA VerdictOf ==
  ASSUME Queue!TypeOK, NEW t \in Tasks, Settled(t),
         NEW u, NEW w \in Workers, NEW l \in LeaseIds,
         Queue!Succeed(u, w, l) \/ Queue!GiveUp(u, w, l)
  PROVE  t = u /\ ledger[t].holder = Queue!HolderOf(w, l)
<1>1. CASE t = u
  BY <1>1 DEF Queue!Succeed, Queue!GiveUp, Queue!Holds
<1>2. CASE t # u
  <2>1. ledger'[t] = ledger[t]
    BY <1>2 DEF Queue!Succeed, Queue!GiveUp, Queue!Verdict, Queue!TypeOK
  <2> QED BY <2>1 DEF Settled, Queue!In
<1> QED BY <1>1, <1>2

(* Whoever settles a task is at that point of a runOnce for the lease the  *)
(* task is under, and no heartbeat of that lease has failed.               *)
LEMMA VerdictStep ==
  ASSUME WorkerInv, [Next]_vars, NEW t \in Queue!In("leased"), Settled(t)
  PROVE  LET w == ledger[t].holder.worker
         IN  /\ job[w] = [task |-> t, lease |-> ledger[t].holder.lease]
             /\ pc[w] \in {"settling", "recording"}
             /\ ~lost[w]
<1> DEFINE Goal == LET w == ledger[t].holder.worker
                   IN  /\ job[w] = [task |-> t, lease |-> ledger[t].holder.lease]
                       /\ pc[w] \in {"settling", "recording"}
                       /\ ~lost[w]
<1>0. /\ Queue!TypeOK /\ Working /\ Attentive /\ t \in Tasks
  BY DEF WorkerInv, LedgerInv, Queue!In, Queue!Known
<1>1. ASSUME NEW w \in Workers, pc[w] \in {"settling", "recording"},
             \/ Queue!Succeed(job[w].task, w, job[w].lease)
             \/ Queue!GiveUp(job[w].task, w, job[w].lease)
      PROVE  Goal
  <2>1. job[w] \in Job
    BY <1>0, <1>1 DEF Working
  <2>2. t = job[w].task /\ ledger[t].holder = Queue!HolderOf(w, job[w].lease)
    BY <1>0, <1>1, <2>1, VerdictOf DEF Job
  <2>3. ledger[t].holder.worker = w /\ ledger[t].holder.lease = job[w].lease
    BY <2>2 DEF Queue!HolderOf
  <2>4. job[w] = [task |-> t, lease |-> job[w].lease]
    BY <2>1, <2>2 DEF Job
  <2> QED BY <1>0, <1>1, <2>3, <2>4 DEF Attentive
<1>n. \/ UNCHANGED ledger
      \/ \E u \in Tasks : Queue!Enqueue(u) \/ Queue!Cancel(u)
      \/ \E S \in SUBSET Queue!Lapsed : Queue!Recover(S)
      \/ \E u \in Tasks, w \in Workers, l \in LeaseIds :
           Queue!ClaimTask(u, w, l) \/ Queue!Retry(u, w, l)
      \/ \E L \in SUBSET Queue!In("leased"), R \in SUBSET Queue!In("queued") :
           Queue!Pass(L, R)
      => Goal
  BY <1>0, NoVerdict
<1> HIDE DEF Goal
<1>2. ASSUME NEW w \in Workers, RunOnce(w) PROVE Goal
  <2>j. pc[w] # "idle" => job[w].task \in Tasks /\ job[w].lease \in LeaseIds
    BY <1>0 DEF Working, Job
  <2>1. CASE ClaimTask(w) \/ ClaimNothing(w) \/ ClaimThrows(w)
    <3>1. Queue!Lapsed \in SUBSET Queue!Lapsed
      OBVIOUS
    <3> QED BY <1>n, <2>1, <3>1 DEF ClaimTask, ClaimNothing, ClaimThrows
  <2>2. CASE HeartbeatFails(w) \/ ExecutorResolves(w) \/ ExecutorRejects(w) \/ Catch(w)
    BY <1>n, <2>2 DEF HeartbeatFails, ExecutorResolves, ExecutorRejects, Catch
  <2>3. CASE Succeed(w) \/ SucceedThrows(w)
    BY <1>1, <1>n, <2>3 DEF Succeed, SucceedThrows
  <2>4. CASE RecordFailure(w) \/ RecordThrows(w)
    BY <1>1, <1>n, <2>j, <2>4 DEF RecordFailure, RecordThrows, Recorded
  <2> QED BY <1>2, <2>1, <2>2, <2>3, <2>4 DEF RunOnce
<1>3. ASSUME NEW w \in Workers, Crash(w) PROVE Goal
  BY <1>n, <1>3 DEF Crash
<1>4. ASSUME NEW u \in Tasks, Enqueue(u) \/ Cancel(u) PROVE Goal
  BY <1>n, <1>4 DEF Enqueue, Cancel
<1>5. ASSUME NEW u \in Tasks, Expire(u) \/ Ripen(u) PROVE Goal
  <2>1. /\ {u} \cap Queue!In("leased") \in SUBSET Queue!In("leased")
        /\ {u} \cap Queue!In("queued") \in SUBSET Queue!In("queued")
        /\ {} \in SUBSET Queue!In("queued") /\ {} \in SUBSET Queue!In("leased")
    OBVIOUS
  <2> QED BY <1>n, <1>5, <2>1 DEF Expire, Ripen
<1>6. ASSUME UNCHANGED vars PROVE Goal
  BY <1>n, <1>6 DEF vars
<1>7. Goal
  BY <1>2, <1>3, <1>4, <1>5, <1>6 DEF Next
<1> QED BY <1>7 DEF Goal

(* An executor that outlived its lease never settles the task of the       *)
(* worker that leased it next, whatever was lost, cancelled or recovered.  *)
THEOREM VerdictsTheorem == Spec => VerdictsByAttentiveHolder
<1> DEFINE A == \A t \in Queue!In("leased") :
                  ledger'[t].phase = "succeeded" \/
                  (ledger'[t].phase = "failed" /\ ledger'[t].holder # None) =>
                    LET w == ledger[t].holder.worker
                    IN /\ job[w] = [task |-> t, lease |-> ledger[t].holder.lease]
                       /\ pc[w] \in {"settling", "recording"}
                       /\ ~lost[w]
<1>1. WorkerInv /\ [Next]_vars => [A]_vars
  BY VerdictStep DEF Settled
<1>2. Spec => [][A]_vars
  BY <1>1, WorkerInvHolds, PTL DEF Spec
<1> QED BY <1>2 DEF VerdictsByAttentiveHolder
=============================================================================
