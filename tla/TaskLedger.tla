----------------------------- MODULE TaskLedger -----------------------------
(***************************************************************************)
(* What the task queue promises its callers, without clocks, files or      *)
(* histories: a ledger with one entry per task.  A lease is live until     *)
(* time passes it by; only the live holder settles a task; a lapsed lease  *)
(* is recovered by the next claim; a claim leases one ready task, and only *)
(* after every lapsed lease has been recovered.                            *)
(*                                                                         *)
(* TaskQueue implements this module; FactoryWorker is built on it.         *)
(***************************************************************************)
EXTENDS Integers, FiniteSets

CONSTANTS
  Tasks,        \* task ids
  Workers,      \* worker ids
  LeaseIds,     \* lease ids
  MaxAttempts,  \* attempt budget of each task, at least 1
  None          \* no entry, no holder

VARIABLE ledger

Terminal == {"succeeded", "failed", "cancelled"}
Phases   == {"queued", "leased"} \cup Terminal

Holder == [worker : Workers, lease : LeaseIds]

(* holder: who holds the lease, and, once the task is closed, whose verdict *)
(* closed it (nobody's, when it was cancelled or its budget ran out in a   *)
(* recovery).  issued: every lease id the task was ever leased under.      *)
(* live: the lease has not expired.  ready: the retry delay has passed.    *)
Entry == [phase    : Phases,
          attempts : Nat,
          holder   : Holder \cup {None},
          issued   : SUBSET LeaseIds,
          live     : BOOLEAN,
          ready    : BOOLEAN]

Known     == {t \in Tasks : ledger[t] # None}
In(phase) == {t \in Known : ledger[t].phase = phase}

(* Mutation: a task whose budget is spent is not recovered. *)
LapsedWithBudget == {t \in In("leased") : /\ ~ledger[t].live
                                         /\ ledger[t].attempts < MaxAttempts[t]}

Lapsed    == {t \in In("leased") : ~ledger[t].live}

HolderOf(w, l) == [worker |-> w, lease |-> l]

(* Mutation: any live lease will do. *)
HoldsAnyLease(t, w, l) == t \in In("leased") /\ ledger[t].live

Holds(t, w, l) == /\ t \in In("leased")
                  /\ ledger[t].holder = HolderOf(w, l)
                  /\ ledger[t].live

-----------------------------------------------------------------------------
(* The entries an operation leaves. *)

NewEntry == [phase |-> "queued", attempts |-> 0, holder |-> None,
             issued |-> {}, live |-> FALSE, ready |-> TRUE]

LeasedEntry(e, w, l) ==
  [e EXCEPT !.phase = "leased", !.attempts = @ + 1,
            !.holder = HolderOf(w, l), !.issued = @ \cup {l},
            !.live = TRUE, !.ready = FALSE]

Closed(e, phase, holder) ==
  [e EXCEPT !.phase = phase, !.holder = holder, !.live = FALSE,
            !.ready = FALSE]

Requeued(e, ready) ==
  [e EXCEPT !.phase = "queued", !.holder = None, !.live = FALSE,
            !.ready = ready]

(* Mutation: a spent budget allows one more attempt. *)
RecoveredEntryOnceMore(t) ==
  IF ledger[t].attempts > MaxAttempts[t] THEN Closed(ledger[t], "failed", None)
                                         ELSE Requeued(ledger[t], TRUE)

RecoveredEntry(t) ==
  IF ledger[t].attempts >= MaxAttempts[t] THEN Closed(ledger[t], "failed", None)
                                          ELSE Requeued(ledger[t], TRUE)

Recovering(S) ==
  [t \in Tasks |-> IF t \in S THEN RecoveredEntry(t) ELSE ledger[t]]

-----------------------------------------------------------------------------
Init == ledger = [t \in Tasks |-> None]

Enqueue(t) == /\ t \notin Known
              /\ ledger' = [ledger EXCEPT ![t] = NewEntry]

(* A claim that leases nothing; one that fails may recover only some.      *)
Recover(S) == /\ S \subseteq Lapsed
              /\ ledger' = Recovering(S)

(* A claim that leases task t. *)
ClaimTask(t, w, l) ==
  LET after == Recovering(Lapsed)
  IN /\ t \in Known
     /\ after[t].phase = "queued" /\ after[t].ready
     /\ l \notin after[t].issued
     /\ ledger' = [after EXCEPT ![t] = LeasedEntry(@, w, l)]

Verdict(t, phase) ==
  ledger' = [ledger EXCEPT ![t] = Closed(@, phase, @.holder)]

Succeed(t, w, l) == Holds(t, w, l) /\ Verdict(t, "succeeded")

Retry(t, w, l) == /\ Holds(t, w, l)
                  /\ ledger[t].attempts < MaxAttempts[t]
                  /\ \E ready \in BOOLEAN :
                       ledger' = [ledger EXCEPT ![t] = Requeued(@, ready)]

GiveUp(t, w, l) == Holds(t, w, l) /\ Verdict(t, "failed")

Cancel(t) == /\ t \in In("queued") \cup In("leased")
             /\ ledger' = [ledger EXCEPT ![t] = Closed(@, "cancelled", None)]

(* Time passes: the leases in L expire, the retry delays in R run out.     *)
Pass(L, R) ==
  ledger' = [t \in Tasks |->
               IF t \in L THEN [ledger[t] EXCEPT !.live = FALSE]
               ELSE IF t \in R THEN [ledger[t] EXCEPT !.ready = TRUE]
               ELSE ledger[t]]

Next ==
  \/ \E t \in Tasks : Enqueue(t) \/ Cancel(t)
  \/ \E S \in SUBSET Lapsed : Recover(S)
  \/ \E t \in Tasks, w \in Workers, l \in LeaseIds :
       \/ ClaimTask(t, w, l)
       \/ Succeed(t, w, l)
       \/ Retry(t, w, l)
       \/ GiveUp(t, w, l)
  \/ \E L \in SUBSET In("leased"), R \in SUBSET In("queued") : Pass(L, R)

Spec == Init /\ [][Next]_ledger

-----------------------------------------------------------------------------
TypeOK == ledger \in [Tasks -> Entry \cup {None}]

(* Hazard: the counters of a task drift from what was handed out.  A       *)
(* leased or succeeded task names its holder, a queued or cancelled one    *)
(* does not; the holder's lease id is one the task was issued; the number  *)
(* of ids ever issued is the number of attempts counted; it never exceeds  *)
(* the budget, and a task is requeued only with budget left (claim's       *)
(* attempts += 1, the budget tests of claim and fail, and the fresh lease  *)
(* id of nextUniqueSafeId together).                                       *)
LeasesAccounted ==
  \A t \in Known :
    /\ ledger[t].phase \in {"leased", "succeeded"} => ledger[t].holder # None
    /\ ledger[t].phase \in {"queued", "cancelled"} => ledger[t].holder = None
    /\ ledger[t].holder # None => ledger[t].holder.lease \in ledger[t].issued
    /\ ledger[t].attempts = Cardinality(ledger[t].issued)
    /\ ledger[t].attempts <= MaxAttempts[t]
    /\ ledger[t].phase = "queued" => ledger[t].attempts < MaxAttempts[t]
=============================================================================
