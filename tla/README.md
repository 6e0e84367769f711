# A TLA+ development of COGA Factory

This directory specifies the parts of `packages/factory` and `packages/core`
whose correctness depends on orderings, crashes and long histories of calls, and
the algorithms that decide what a change affects. The modules are TLA+, checked with TLC on small
instances; theorems about them are proved with TLAPS for every value of the
constants. `PROJECT.json` maps each definition to the lines it models.

## 1. The system

COGA Factory turns an exact change of a COGA Artifact (a Work Order) into one
candidate commit and draft pull request per affected application. A durable
queue holds tasks, workers lease and execute them, and the executor runs the
factory controller, which works in a git worktree, keeps a recovery state, and
writes an Evidence Bundle.

| Part (source) | State it keeps | Operations | Talks to | What must be right |
| --- | --- | --- | --- | --- |
| Task queue (`queue.ts`) | `tasks/<digest>.json`, one record per task: phase, attempts, lease, failure, result, chained event log | enqueue, claim (recovers expired leases, then leases), heartbeat, succeed, fail, cancel, get, list | worker, operations API, CLI, SLO report | only the live holder settles a task; expired leases come back; the attempt budget bounds retries; history is never rewritten; no legal call is refused by the record validator |
| Queue mutex (`queue.ts`, `withLock`) | the directory `mutation.lock` with `owner.json` | acquire by rename, recover an abandoned lock, release | every queue call of every process | mutual exclusion; no lost lock; nobody waits for ever behind a dead process |
| Worker (`worker.ts`) | lease, heartbeat timer and heartbeat failure of one `runOnce` | runOnce | queue, executor | no verdict under a stale lease; what it reports is what the queue says; every task ends |
| Operations controller (`operations-controller.ts`) | a credential lease for the duration of a call | execute, collect remote evidence | worker, credentials, controller | every lease is revoked, and which error or result wins |
| Operations API (`operations-api.ts`) | none beyond the HTTP server | enqueue, list, show, cancel over HTTP | queue | one queue call per request |
| Factory controller (`controller.ts`) | in memory, a copy of the recovery state | run, per target: prepare, step loop, complete | state, git, adapters, evidence, GitHub | a repeated run resumes; what is delivered is what was verified; at most one commit |
| Run state (`state.ts`) | `state.json` per target | load, integrity check, save | controller | accepts everything the controller saves |
| Git workspace (`git.ts`) | worktrees, branches, commits | create, patch, stage, commit, remove | controller | the worktree is the one the state speaks of |
| Evidence (`evidence.ts`) | a file under `.coga/evidence` | create, write, verify | controller, remote evidence | binds tree, receipts and policies |
| GitHub delivery (`github.ts`) | remote branch, pull request | deliver a draft | controller | one branch, one pull request, of the recorded commit |
| Planner (`planner.ts`) | none | plan | controller | exactly the affected applications, in order |
| Adapters, sandbox (`adapters.ts`, `sandbox.ts`) | none | validate, test, build | controller | network-free, bounded |
| Evidence archive (`evidence-store.ts`) | content-addressed objects and receipts | archive, verify | CLI | object and receipt complete each other after a crash |
| Credentials (`credentials.ts`) | installation tokens in memory | acquire, revoke | operations controller | a minted token is revoked whatever happens |
| SLO report (`slo.ts`) | none | evaluate records | queue records, CLI | its record rules agree with the queue's |
| Remote evidence, promotion, governance, platform gate (`remote.ts`, `promotion.ts`, `governance.ts`, `platform-gate.ts`) | evidence files, the pull request | collect, promote, authorise, audit | GitHub, CLI | approvals bind the current head; no merge without both decisions |
| Core: graph, impact, validation, lifecycle (`packages/core/src`) | none | load, validate, closure, transitions | planner, adapters, CLI | impact is the exact closure; cycles are found; transitions are legal |
| Identity, schemas, utilities, command lines | none | conversions | everybody | not modelled: pure conversions |

What is hard to test here: processes interleaving on the mutex and on a task;
people and CI acting on GitHub between any two reads of a gate; answers that are
lost after the effect;
leases that run out while their holder is busy; crashes between two effects;
retries over what a failed attempt left; the clock being set back; limits of
records and budgets; a second description of the same state machine
(validators) that has to agree with the code that feeds it. `PROJECT.json`
lists these hazards at the line where each bites, with the properties aimed at
it.

## 2. The modules

```
TaskLedger          what the queue promises            (abstract)
  ^ implemented by        ^ used as the queue by
TaskQueue                FactoryWorker
  ^ extended by
SloReport           the report over the queue's records

QueueLock           the mutex every queue call takes

TargetRun           what the executor of a task does, effect by effect
Operations          ... under a GitHub credential, and its delivery in full
Promotion           what becomes of the delivered pull request
EvidenceArchive     where evidence is kept

Knowledge           the instance: its graph and its validation
  ^ extended by
Planning            which applications a change affects, and their plan
```

A module `...Proofs` extends the module it is named after and holds its theorems
(section 4). `TaskQueueProofs` extends `SloReport`: its second half is about what
the ledger and the report see of the queue's records. `PlanningProofs` holds the
theorems of `Knowledge` as well.

The layers fit together as follows. `QueueLock` shows that queue calls exclude
each other, which is why an action of `TaskQueue` is a whole call. `TaskQueue`
implements `TaskLedger`, which is why a queue call in `FactoryWorker` is an
action of `TaskLedger`. `FactoryWorker` shows that an executor may outlive its
lease, which is why `TargetRun` and `Operations` let runs overlap. `TargetRun`
has the delivery in outline and the worktree in detail; `Operations` has it the
other way round, and starts where a candidate exists. `Planning` decides which
targets there are; each is then a `TargetRun`. `Promotion` begins with a draft
pull request like the one `Operations` ends with.

**TaskLedger** is the queue without clocks, files and histories. A task has a
phase, a holder, the lease ids it was issued, an attempt count, and two bits:
whether its lease is live and whether its retry delay has passed. A claim
recovers lapsed leases and leases one ready task.

**TaskQueue** (`queue.ts`) has one action per mutating call. `record[t]` is the
file of task `t`, `clock` the injected clock. The operators `Leased`,
`Heartbeated`, `Recovered`, `Succeeded`, `Failed` and `Cancelled` are the
changes the calls make in memory, `Writable` is `writeRecord` with the whole of
`assertRecord` (`LegalHistory`, `SummaryAgrees`, `PhaseFieldsAgree`,
`LeaseTimesOrdered`): a call whose record is refused throws and changes nothing,
so its action is not enabled. Claim is split by outcome: `ClaimThrows` (a
recovery was refused; earlier ones stay written), `ClaimIdle`, `ClaimLeases`
(its last write may be refused, too) and `CrashInClaim` (the process dies
between two recoveries). The hash chain, the request's and the result's content
(up to the base commit), messages and ISO dates are abstract. The byte limit of
a record is a limit on the number of its events. Replays that return the stored
record write nothing and are stutters.

**SloReport** (`slo.ts`) has no state: it is a pair of operators on the records
of `TaskQueue`. `ReportAccepts` is `validateTaskRecord`, a third description of
the task state machine: `ScanOf` walks through the events as the loop does, and
the `...Consistent` operators are the tests after it. `QueueDepth` is
`maximumQueueDepth` with its deltas per instant, `Metrics` what rates and
objectives are computed from. The report limits a record more tightly than the
queue does: 20,000 nodes of JSON, of which each event has eight or so, and 10,000
events (`slo.ts:33-35`), where the queue counts 100,000 nodes and its bytes. Both
limits are one here, `ReportEventBudget`, in events; it may be above or below the
queue's `EventBudget`, and a task of some 2,500 heartbeats is where it bites.

**QueueLock** (`withLock`, `tryRecoverAbandonedLock`,
`removeOwnedLockDirectory`) has one action per file-system call. `lock` is the
directory `mutation.lock`: absent, empty, or with the identity of its owner.
Candidate and quarantine directories have random names, so only their content is
kept. `Crash` stops a process in a call, `Exit` between calls. `LOCK_WAIT_MS`
and the age of an empty directory are real time: either outcome is possible. The
critical section claims one task (read, then write) or works on another.

**FactoryWorker** (`worker.ts`) is `runOnce`: claim, the executor's promise with
the heartbeat timer beside it, succeed, and the catch block with its three ways
out. `lost` is `heartbeatFailure`. Claim, succeed and fail may throw before or
after they took effect (a timeout of the mutex; a release that failed). The
executor is never aborted. Time passes only through the ledger's two bits.

**TargetRun** (`controller.ts`, `state.ts`, `git.ts`, and the outline of
`evidence.ts` and `github.ts`) is `FactoryController.run` for one target. `file`
is `state.json`, `mem` the copy a run holds, `ws` and `branch` the worktree and
the local branch, `remote` the pushed branch and the pull request, `planning`
the planning worktree. Each git command, each written file and each save is an
action of its own, and `Crash` is possible between any two. Steps may fail for
reasons of their own (`StepFails`). A tree is the set of patches and bundles in
it; a branch is the sequence of trees committed on the base. Several runners may
be in `run` at once. Two variables record what the properties are conditional
on: `overlaps` counts runs that began beside another one, and `stranded` says
that a run was lost in one of the `Windows` (see section 3): it died there, or
`git rev-parse` failed after its commit (`RevParseFails`).

**Operations** (`operations-controller.ts`, `credentials.ts`, `github.ts`) is a
task with delivery to GitHub that is executed again and again. An attempt
acquires a token, passes the preflight and the checks of base and target branch,
pushes, looks up, creates and views the pull request, saves the result and
revokes the token in the finally block. Any command may fail, the answer of an
effect may be lost, a process may die, and a token may expire during the run; a
token whose answer was lost or refused, or whose owner died, is `stray`.
Meanwhile people close, reopen, merge and mark pull requests ready, move the
base, push to the branch, delete it or open a pull request of their own.

**Promotion** (`remote.ts`, `promotion.ts`) has two processes over one pull
request. The collector reads the pull request, its files and checks, the
first page of its reviews and the second, which must be empty, one after the
other, writes a Remote Evidence document, and if asked reads the pull request
again, marks it ready and confirms. What counts of the reviews is decided from
the first page, and the document names the approval it rests on. A base other
than `WorkOrderBase` is refused. The merger passes the gate, acquires a
credential, passes the gate again, merges and revokes. Between all of these people push, review, dismiss, close, convert and retarget,
and checks succeed and are run again. Approvals are counted as the code counts
them, which is not the same in both files (`CountsForPolicy`: the latest review
of that head; `CountsForMerge`: the latest review of any head, submitted after
the authorisation).

**EvidenceArchive** (`evidence-store.ts`) opens the archive directory by
directory, then archives: the scan for an existing receipt, the exclusive write
of the object, that of the receipt, and the verification. A call ends "returned"
or "thrown", and its process may make another. A write may fail with nothing or a
part of the file left, the process may die, and files may be altered behind the
store's back. After a death nobody gets inside again (see `archive_reopen`), so
what is repeated is what the same process repeats after a call that threw or
returned.

**Knowledge** (`graph.ts`, `validation.ts`) is an instance as a record, its
edges by kind, reachability, and each check of `validate()` that relates
resources. `vals` are the scenario validations of any status, which are edges of
the graph, and `passed` those among them that the lifecycle checks ask for.
**Planning** (`impact.ts`, `planner.ts`) is the change of one artifact in it: one action per visit of the worklist searches (artifacts, packages,
packages by way of older versions), then the reasons for each application, and
the comparison of the work order's targets with them.

The `MC...` modules give constants values for TLC. Definitions whose comment
begins "Mutation:" are plausible bugs of the definition that follows; replacing
it by one must break the property they are listed with, which shows that the
property depends on that code. Every module states its type invariant `TypeOK`;
the runs spend their properties on what could be wrong instead and check it for
the queue only, whose types the proofs rest on.

## 3. The runs

`CHECK_DEADLOCK FALSE` appears in every configuration but that of `operations`
because those systems may stop for good: all tasks terminal, a plan made, and
the bounds of calls, time, crashes or runs reached. That something happens where
it must is stated by the liveness properties instead.

| Run | Instance | Shows |
| --- | --- | --- |
| `queue_pair` | 2 tasks, leases of 1 and 2, delays 1 and 0, 2 time units, 5 events | order of claims (`ClaimOrderFair`), recovery before leasing (`LeaseOnlyAfterRecovery`), `ImplementsLedger`; of the report, `QueueDepthIsLargestWaiting` and `ClosedWindowIsFinal` |
| `queue_single` | 1 task, 3 attempts, 4 time units, 9 events, a clock that may be set back | the validator accepts every legal call (`GateAcceptsLegalCalls`), lease times, budget, finality of histories; the report refuses only tasks that wait after a failure and histories beyond its limits, here 8 events (`ReportRefusesOnlyWaitingOrLong`) |
| `lock_recovery` | 2 processes, 2 calls each, one crash, exits | exclusion, one claim, no lock left behind by a live process, and `EveryCallEnds` |
| `worker` | 1 task, 3 attempts, 2 workers, crashes, cancellation, calls that fail | `LeasesAccounted` of the ledger, `ReportsAreTrue`, `VerdictsByAttentiveHolder`, `EveryTaskSettles` |
| `target` | 2 runners, 7 runs, 1 failure, 2 crashes, 1 overlap, pauses, GitHub delivery | `SavedStateAccepted`, `ResultIsWhatWasVerified`, `PublishedIsEvidenced` (also for overlapping runs), `Resumable`, `ResultReused`, `TargetCompletes` |
| `operations` | 2 attempts at a time, 2 failures, 3 acts of people, 2 pull requests | `OnePullRequest`, `StrayTokensAreFailures`, `DeliveredOnce`, `DeliveredEventually` |
| `archive` | 2 processes, 2 documents, 2 deadlines, 3 receipts, 2 faults, 4 calls | `ReceiptAfterObject`, `OneReceiptPerRequest`, `ReturnedWhenIntact` (every return, the first or a later one), `RefusedOnlyForDamage` (every call that throws, also with three receipts there) |
| `promotion` | 2 heads, 2 bases, 2 reviewers (one the author), 2 reviews, 2 check runs, 1 push, closure or the like, 2 instants | `MergeIsDecided`, `EvidenceApprovalStands` (every document, for ever), `PromotedIsEvidenced` |
| `planning` | two families of instances of 4 packages, 4 artifacts, 2 applications | `PathsArePreferred` and `NothingAffectedIsOmitted` against reference definitions over all chains, `AcceptedIsMature`, `SearchesProgress` |

Why these bounds are enough. Two tasks are what an order or a pair of recoveries
needs; all other queue properties speak of one record, and a worker works on one
task at a time. A lease needs two time
units to be extended and then to expire. Nine events are a lease, a heartbeat
and an end for each of three attempts less one; three attempts separate "first",
"middle" and "last" of a budget. Of processes, an owner, a recoverer and an
overtaker are needed to break the mutex: `lock_exit` shows that three do break it
once one may exit, and they do as well once one may die in a call; two keep it
whatever dies (`lock_recovery`), and so does any number that does not die (the
theorems of section 4 have both). Two calls let a lock be released and taken
again. A target's plan
here has five steps, each of which may pause a run once: seven runs are those,
one that fails and one that completes, and without them `TargetCompletes` would
fail for want of runs. Two attempts are what a race of
lookup and creation needs, two failures a lost answer and the failure of its
retry, three acts of people a push, a deletion and a pull request of their own.
One push, one closure or one retargeting each fits between any two reads of
`Promotion`; heads are symmetric (bases are not, one is that of the Work Order),
and a second reviewer is the author, whose approval must not count. The archive never has more than one process
inside (see `archive_reopen`), so that two suffice; with four calls and three
receipts it fills the archive and asks again for what it has. Of the instances, one family
varies dependencies, relations, ownership and use (cycles, diamonds, dangling
references, older versions), the other stages, evidence and approvals.

Runs that find a disagreement. Each states what a document says, and TLC finds
the behaviour that contradicts it:

| Run | What happens |
| --- | --- |
| `lock_exit` | an owner releases and exits between a waiter's look at the owner file and its rename: the waiter moves the next owner's live lock away and a task is claimed twice |
| `slo_waiting` | a task that waits after a failed attempt keeps `record.failure`, which the report's validator demands of failed tasks only: one such task makes the whole report throw |
| `archive_reopen` | the directories are made with a `mkdir` that throws when they exist: an archive can be opened once, and each command of the CLI opens it |

### What the properties leave out, because the code does not provide it

These are facts of the model, found while stating the properties, and the
properties exclude them by name:

- `cancel` keeps `record.failure`, which `assertRecord` forbids for a cancelled
  task (`queue.ts:1430`): a task that waits for its retry, or was recovered,
  cannot be cancelled (excluded by `GateAcceptsLegalCalls`).
- A record at its size limit cannot have its expired lease recovered; from then
  on every claim throws (`queue.ts:1524`, `ClaimThrows`).
- A record with more events than the report's limits allow is a legal record of
  the queue and makes the whole report throw (`slo.ts:384`, `514`): excluded by
  `ReportRefusesOnlyWaitingOrLong`.
- A call may fail on the mutex instead of waiting: `rmdir` meets the next
  owner's directory, or a waiter meets a directory that vanished
  (`queue.ts:1643`, `1687`).
- Three windows in which a crash leaves something every later run refuses
  (`Windows` of `TargetRun`): a worktree not yet on its branch, a commit not yet
  in the state, an Evidence Bundle not yet in the state. The second opens without
  a crash as well, when `git rev-parse` fails after the commit (`git.ts:342`).
  `Resumable` and `TargetCompletes` are stated outside them.
- A run that loaded the state earlier overwrites the completed state of another
  run: `ResultReused` is stated for runs that do not overlap.
- A pull request that a person has closed while two attempts overlap may be
  made a second time (`OnePullRequest`). Since the push comes before the lookup,
  a retry also makes the branch again that was deleted after a merge.
- Between the second gate and the merge call people may act: the call compares
  the head, not the base, the approvals, the checks or the time. `MergeIsDecided`
  therefore speaks of the instant of the gate. The policy approvals of the
  document are not looked at again, and a successful check beyond the required
  ones, or one that was run again, makes a document unusable for a merge.
- A token whose answer was refused by the acquiring code is never revoked; it
  expires (`StrayTokensAreFailures` counts it as a failure).

### Fairness

- `QueueLock`: weak fairness of each process's next step; a call is synchronous
  code, so a live process carries it on. Neither timing out nor beginning a call
  is fair. `EveryCallEnds` therefore does not rely on `LOCK_WAIT_MS`.
- `FactoryWorker`: somebody keeps calling `run-once` (weak fairness of idle
  claims, strong fairness of claims that lease, since any other action may
  disable the claim for a while), an executor returns (commands have timeouts),
  synchronous code goes on, delays run out, and a lease nobody extends expires.
  Nothing is assumed of crashes, heartbeats or errors: the attempt budget bounds
  them.
- `TargetRun`: a run that lives goes on, and the Work Order is run again as long
  as it has not completed. Failures are bounded by `MaxFailures`; a step that
  fails for ever prevents completion, of course.
- `Operations`: an attempt that lives goes on, and a task without a result is
  submitted again. The worker reports a task whose run ended `failed` as
  succeeded, so the queue does not do that by itself: somebody must.

## 4. The proofs

Each theorem holds for every value of the constants: any number of tasks,
workers, processes, runners and documents, any bound. A theorem assumes the named
`ASSUME`s of the modules it extends, which TLC evaluates in the runs, and nothing
else but what its row says. Those assumptions give the constants their types
(bounds are natural numbers, sets are finite where they are counted) and say that
`None` is none of the values it stands in for: `None \notin Record \cup Lease
\cup Failure`, for instance, without which "no file" could be a file.

| Theorem | States, for all constants | Under |
| --- | --- | --- |
| **`TaskQueueProofs`** | | |
| `TypeCorrect`, `DiskStaysValid` | every file is a record the validator accepts | |
| `HistoryFinal` | `HistoryIsFinal`: no step rewrites the past of a task or touches a terminal one | |
| `BudgetTheorem` | `BudgetSpentBeforeGivingUp` | |
| `LeaseTimesTheorem` | `LeaseTimesHonoured`: the holder acts before its lease ends, recovery comes after | |
| `LeaseAfterRecoveryTheorem` | `LeaseOnlyAfterRecovery` | |
| `GateTheorem` | `GateAcceptsLegalCalls`: the validator and the calls that feed it agree | |
| `ClaimOrderTheorem` | `ClaimOrderFair` | the clock is not set back |
| `ImplementsLedgerTheorem` | `ImplementsLedger`: the queue refines `TaskLedger` | the clock is not set back |
| `ClosedWindowTheorem` | `ClosedWindowIsFinal` of the report | |
| `QueueDepthTheorem` | `QueueDepthIsLargestWaiting`: the depth summed from deltas is the depth of the queue | |
| `ReportTheorem` | `ReportRefusesOnlyWaitingOrLong`: the report's validator and the queue agree on every record, but for tasks that wait with a failure and histories beyond the report's limits | |
| **`QueueLockProofs`** | | |
| `MutualExclusionTheorem`, `ClaimedOnceTheorem`, `LiveOwnerTheorem` | `MutualExclusion`, `ClaimedOnce`, `LiveOwnerIsInside` | no process dies or exits, or there are at most two |
| **`FactoryWorkerProofs`** | | |
| `WorkerTypeTheorem` | `TypeOK` | |
| `WorkersUseTheLedger` | the composition's queue satisfies `TaskLedger` | |
| `LeasesAccountedTheorem` | `LeasesAccounted` | |
| `ReportsTheorem` | `ReportsAreTrue` | |
| `VerdictsTheorem` | `VerdictsByAttentiveHolder` | |
| **`TargetRunProofs`** | | |
| `RunTypeTheorem` | `TypeOK` | |
| `SavedStateTheorem` | `SavedStateAccepted`, overlapping runs included | |
| `PublishedTheorem` | `PublishedIsEvidenced`, overlapping runs included | |
| `ResultTheorem`, `ResultReusedTheorem`, `ResumableTheorem` | `ResultIsWhatWasVerified`, `ResultReused`, `Resumable` | |
| **`OperationsProofs`** | | |
| `OperationsTypeTheorem` | `TypeOK` | |
| `OnePullRequestTheorem`, `StrayTokensTheorem`, `DeliveredOnceTheorem` | `OnePullRequest`, `StrayTokensAreFailures`, `DeliveredOnce` | |
| **`PromotionProofs`** | | |
| `PromotionTypeTheorem` | `TypeOK` | |
| `MergeTheorem`, `EvidenceApprovalTheorem`, `PromotedTheorem` | `MergeIsDecided`, `EvidenceApprovalStands`, `PromotedIsEvidenced` | |
| **`EvidenceArchiveProofs`** | | |
| `ArchiveTypeTheorem` | `TypeOK` | |
| `ReceiptAfterObjectTheorem`, `OneReceiptTheorem`, `ReturnedTheorem`, `RefusedOnlyTheorem` | `ReceiptAfterObject`, `OneReceiptPerRequest`, `ReturnedWhenIntact`, `RefusedOnlyForDamage` | |
| **`PlanningProofs`** | | |
| `PlanningTypeTheorem` | `TypeOK` | |
| `AcceptedTheorem` | `AcceptedIsMature`: checks of single edges add up along every path | |
| `NothingOmittedTheorem` | `NothingAffectedIsOmitted`, for every graph, cycles included | |
| `PathsTheorem` | `PathsArePreferred`, for every graph, cycles included | |
| `SearchesProgressTheorem` | `SearchesProgress` | |

These hypotheses are needed. With the clock set back a lease that had expired
would be live again, which the ledger does not allow, and a task enqueued after a
claim may bear a time before it, so that the claim seems to have passed it over
(TLC finds both). With a third process and one that exits, exclusion fails: run
`lock_exit`.
Conditions such as "unless runs overlap" stand in the properties themselves and
are met by states of the runs (section 3).

### The arguments

**The queue, record by record.** `StepShape` says that a step leaves a record
alone, creates it, or applies one or two of six changes, each to a record that
passed `Writable`. For each change there are lemmas about its type, its events,
its budget, its lease times and what the report reads of it. `BudgetSpent` and
the lease times are not inductive alone: that an expired lease's end is the end
of the last event needs the validator's `SummaryAgrees` and the stored
`expiresAt`. So `QueueInv` carries for each record that it is `Sound`: writable,
within its budget, its lease ending when its last event says, and `Standing`
(the attempt is running exactly when the phase says so, and has its budget).
`GateTheorem` is then one lemma per change: a `Sound` record, changed by a legal
call at a time not before its last event, is a `ValidRecord`.

**The order of claims** relates the histories of all tasks. `InOrder` says that
no history bears a time of the future and that, for each `leased` event, whatever
had been ready earlier with a smaller key had been leased or ended by then. A
claim is followed through its loop of recoveries to the task it leases: what
`Recovered` makes ready now comes after what had been ready before.

**The refinement.** `Book` is the ledger seen through the records at the time of
the clock. Each change of a record is a change of its entry (the `...Entry`
lemmas); the recoveries of one claim, on any set of tasks, are the recoveries of
one `TaskLedger` claim; time passing is `Expire` and `Ripen`, in any number at
once. A claim that recovers a task and leases that same task is the case that
needs both changes at once.

**The closed window.** A step writes only the present (`WrittenNow`): new events,
starts and ends bear the time of the clock. So the part of a record that the
metrics of a window read stays as it is once the clock has passed the window's
end (a clock that is set back later writes records, but no call then makes the
window closed).

**The queue depth.** A delta +1 is an event with which a task starts to wait, a
delta -1 one with which it stops. `Until` maps each start up to an instant to the
stop that follows it, or to "still waits": a bijection to the stops up to then and
the tasks that wait at it (`UntilInjective`, `UntilSurjective`, which need that
histories are chronological and their first event starts a wait), so the sum of
deltas is the number that wait (`DepthIsWaiting`).

**The report's validator** scans a history event by event, and the queue's
`SummaryAgrees` counts over the whole of it. `Seen` says what the scan knows after
event i; `ScanNext` and `SeenNext` carry it over one event. The recursive function
`ScanOf` is characterised by its equation (`WalkExists`, `ScanIs`), and `Seen`
holds at every event because there is no least one at which it fails
(`LeastNatural`, from the well-foundedness of finite sets in the library: this
form of induction, over a set of counterexamples and not over an operator, the
provers can use). Beyond `assertRecord` the report demands a little more of a
record: `Reportable` adds it and each change of the queue preserves it.

**The mutex.** `LockInv` adds to exclusion that a process about to move a lock
away is the only one alive (it saw a dead owner, and there is no third), so that a
live process loses its lock only by releasing it; that a lock which names a live
process names the one between acquisition and unlink; and that what a claim read
is still what is on disk when it writes.

**The workers.** All they do to the queue is a `TaskLedger` step (`LedgerStep`),
which gives `WorkersUseTheLedger` and carries every invariant of the ledger over.
`WorkerInv` adds what each worker may rely on at each of its steps: the lease id
in its hands was issued for that task (`Working`), a worker that did not see its
heartbeats fail and is past them holds what it says (`Attentive`), and a report
that was true stays true because terminal entries never change.

**A target's run.** `RunInv` has six layers, each of which needs those before:
every state in memory or on disk is `Sound`, its steps passed in order with their
receipts (`SoundInv`; enough for `SavedStateAccepted`); a run by itself holds what
is on disk, but in two of the windows (`AloneInv`); until the first push, and
until a run by itself completes, nobody removes the worktree and it has all the
work that any state names (`StandingInv`), which is why a bundle is written, and a
commit made, of a whole tree only, even when runs overlap; trees only grow
(`GrowthInv`); so what reaches the remote has patches and bundle (`RemoteInv`);
and unless runs overlap, file, worktree, branch and remote agree on the candidate
(`TogetherInv`). `PublishedIsEvidenced` is the hard one: its first push leans on
the worktree, every later push on what is already there, since by then another
run may have removed the worktree.

**Operations.** `OnePullRequest` needs two arguments: without overlap an attempt
creates only after its own lookup found nothing (`Alone`); without interference a
pull request, once there, stays open, and GitHub refuses a second one
(`Untouched`). Tokens are counted against failures action by action (`Counted`).

**Promotion.** Authorisations rest on documents, documents on what was read; the
gate's facts are stated at its instant, and reviews are only ever added with the
current time, so that what stood at that instant stands in the record for ever
(`StoodAt`, `Decided`). `EvidenceApprovalStands` goes the same way over a longer
distance: when the first page is read, the approval it yields is the reviewer's
latest of the head seen before and is not dismissed; whatever is submitted or
dismissed from then on bears a time not before `collector.at`. `Backed` says this
of the collector between that read and the write, and of every document after
it.

**The archive.** At most one process gets inside (`OneInside`: directories are
made exclusively and counted), so what its scan found (`Knows`) is still so when
it writes. `Kept` relates what was ever returned to the receipts: each is still
there, whole or altered. With one receipt for each request, a call whose request
was answered before either meets that receipt, and then verifies and returns it,
or meets an unreadable one: this is why a full archive does not turn it down, and
why what is returned again is what was returned first.

**Planning.** `AcceptedIsMature` relates a check of every edge to what is reached
over any number of them. `Reach` is a recursive function whose domain has as many
steps as there are names; `ReachInside` says that it stays within every set that
no edge leaves (no least step is the first outside), and `RipeClosed` that the
resources of the rank a published one may use are such a set. For `NothingAffectedIsOmitted`, `PlanInv`
says of each search that whoever uses a name with a path has one as well, or the
name is still queued (`Covered`). Once the queue is empty the names with a path are
closed under use, so whatever reaches one of them starts at one (`ReachEnters`, the
same lemma for the complement): first from the application's scenarios to the
changed artifact, then, since validation has found the scenario's package among
those the application can reach, from the packages it uses to that owner.
`Sorted` lists each name of a set once, for sets of any size, and so a target is
in one of the plan's two lists, once (`ListedOnce`). `SearchesProgress` needs that
no path is preferred to itself and that a visit which improves none leaves paths
and shortens the queue. These proofs need that artifacts are loaded by way of the
package that lists them (`Instance`), which `loader.ts` sees to: without it an
application could bind an artifact whose package is not there, and validation,
which skips those, would not notice.

`PathsArePreferred` says that label-correcting searches find the best of all
chains. `BestInv` says three things of a search that goes on. Every path is
`Explained`: a head (what leads to the search's start) and a chain, none of whose
names has a longer path than up to there; so extending it by a name that the
chain has already been through would be no improvement, and paths stay chains. It
is `Seeded`: no head leads to anything better. And it is `Relaxed`: no user's path
is worse than the one by way of what it uses, unless that name is queued. When
the queue is empty, `SearchOptimal` compares the paths with any chain: the chains
that they are no worse than include the heads and are closed under extension, so
they are all of them (`ChainsInside`, no least length is the first to leave). The
order of paths allows this because it is total and survives appending the same
name and replacing the same first name (`NoWorseAppend`, `NoWorseHead`); the second
is what lets the search of packages start from the best path to each artifact only.

### Only model-checked

- `TaskLedger` by itself has no theorems of its own; `FactoryWorkerProofs` proves
  what it promises where it is used.
- All liveness (`EveryCallEnds`, `EveryTaskSettles`, `TargetCompletes`,
  `DeliveredEventually`): fairness and `ENABLED` are out of the prover's reach.

## 5. What is not modelled, and why

- Within the modelled parts: EPERM of Windows renames; a process id that is
  reused; two threads of one process on the mutex; power loss (a completed
  rename or write stays); digests and byte-level formats; the request's fields
  apart from budget and base commit; attempt counters of `state.json`; a save as
  two file-system calls; git commands that stop half-way; the JWT handshake of
  the GitHub App; identities and URLs of pull requests; paging of answers.
- Of promotion: the version tag and the test environment gate, which check
  documents given to them. Of the SLO report: rates, percentiles and
  objectives, the number of records it takes (100,000), and a record's content,
  which it scans for credentials as the queue does.
- Of the core package: checks of one document by itself (schemas, contract
  files, versions, secrets, scopes, duplicates).
- Whole parts: listed with their reason under "components" in `PROJECT.json`.
  Command lines, schemas, identity and utilities convert data and keep no state.

## 6. Plan

Done: the queue, its mutex and its report; the worker; the controller's recovery;
operations and delivery; remote evidence and promotion; the archive; the
knowledge graph, impact and planning.

Proved: every safety invariant and action property of the queue, the mutex, the
worker, the target's run, operations, promotion and the archive; that the queue
implements the ledger; every property of the report that the runs check and find
to hold; every property of planning.

To model, if more is wanted: the delivery steps of `TargetRun` as an abstraction
of `Operations`; the credential frame around the collector of `Promotion`; the
test environment gate.
