------------------------------ MODULE TargetRun ------------------------------
(***************************************************************************)
(* FactoryController.run for one target of a Work Order (controller.ts),   *)
(* with the recovery state it keeps in state.json (state.ts), the worktree *)
(* and branch it works in (git.ts) and the draft pull request it delivers. *)
(* The other targets of a Work Order have files of their own.              *)
(*                                                                         *)
(* A run is a sequence of effects: a git command, a file that is written,  *)
(* the state that is saved.  The program may die between any two of them;  *)
(* a later run of the same Work Order starts from what is on disk.  Two    *)
(* runs may also overlap: a worker whose lease ran out keeps executing     *)
(* while another worker has leased the same task (see FactoryWorker).      *)
(*                                                                         *)
(* A git command takes effect as a whole or not at all, and so does        *)
(* saveRunState.  Contents are abstract: a tree is the set of patches in   *)
(* it and the Evidence Bundles under .coga/evidence, a commit on the       *)
(* branch is the sequence of trees committed since the base commit.  The   *)
(* plan does not change between runs, and identities match: what the rest  *)
(* of assertRunStateIntegrity compares.                                    *)
(***************************************************************************)
EXTENDS Integers, Sequences, FiniteSets, SequencesExt

CONSTANTS
  Runners,        \* processes that can run the Work Order
  Verifications,  \* how many test and build adapters the application has
  Delivery,       \* options.delivery: "local" or "github"
  KeepWorkspace,  \* options.keepWorkspace
  MaxRuns,        \* bound: how often run is called
  MaxFailures,    \* bound: steps that fail for a reason of their own
  MaxCrashes,     \* bound: runs that die
  MaxOverlaps,    \* bound: runs that begin beside another
  None            \* an absent file, worktree, branch or field

ASSUME RunAssumption ==
  /\ Verifications \in Nat
  /\ Delivery \in {"local", "github"} /\ KeepWorkspace \in BOOLEAN
  /\ MaxRuns \in Nat /\ MaxFailures \in Nat /\ MaxCrashes \in Nat
  /\ MaxOverlaps \in Nat

VARIABLES
  file,      \* state.json
  planning,  \* whether the planning worktree exists
  ws,        \* the target's worktree
  branch,    \* the commit of the target's local branch
  remote,    \* the pushed branch and the draft pull request
  pc,        \* the step of run each runner is at
  mem,       \* the state it holds in memory
  turn,      \* the number of the run it is in: generatedAt of its bundle
  answer,    \* how its last run ended for this target
  runs, failures, crashes,
  overlaps,  \* how many runs began beside another one
  stranded   \* whether a run was lost in one of the Windows

vars == <<file, planning, ws, branch, remote, pc, mem, turn, answer, runs,
          failures, crashes, overlaps, stranded>>
bounds == <<runs, failures, crashes, overlaps, stranded>>
-----------------------------------------------------------------------------
(* targetSteps: the kinds of the planned steps, in order. *)
Plan == <<"domain", "proposal", "validate">>
          \o [i \in 1 .. Verifications |-> "verify"]
          \o <<"evidence", "deliver">>

Patches == {"domain", "proposal"}

(* An Evidence Bundle: the tree it describes, the steps it has passed      *)
(* receipts of, and when it was generated.                                 *)
Bundle == [tree : SUBSET Patches, steps : SUBSET DOMAIN Plan, made : 1 .. MaxRuns]

Tree   == [patches : SUBSET Patches, evidence : SUBSET Bundle]
Commit == Seq(Tree)
Base   == <<>>

TreeOf(commit) == IF commit = Base THEN [patches |-> {}, evidence |-> {}]
                                   ELSE commit[Len(commit)]

Workspace == [head : Commit, onBranch : BOOLEAN, tree : Tree]

Result == [commit : Commit, evidence : Bundle, pullRequest : BOOLEAN]

State == [status   : {"planned", "executing", "verifying", "review", "failed",
                      "completed"},
          steps    : [DOMAIN Plan -> [status  : {"pending", "running", "passed",
                                                 "failed"},
                                      receipt : {"passed", "failed", None}]],
          evidence : Bundle \cup {None},
          commit   : Commit \cup {None},
          result   : Result \cup {None}]

ASSUME NoneAssumption ==
  None \notin Commit \cup Bundle \cup Workspace \cup State \cup Result \cup {"passed"}

PhaseFor(kind) == CASE kind \in Patches                -> "executing"
                    [] kind \in {"validate", "verify"} -> "verifying"
                    [] OTHER                           -> "review"

(* assertRunStateIntegrity *)
Integrity(s) ==
  /\ \A i, j \in DOMAIN Plan : i < j /\ s.steps[j].status = "passed" =>
                                 s.steps[i].status = "passed"
  /\ Cardinality({i \in DOMAIN Plan : s.steps[i].status \in {"running", "failed"}}) <= 1
  /\ \A i \in DOMAIN Plan :
       s.steps[i].receipt = IF s.steps[i].status \in {"passed", "failed"}
                              THEN s.steps[i].status ELSE None
  /\ s.result # None => /\ s.commit # None /\ s.result.commit = s.commit
                        /\ s.evidence # None /\ s.result.evidence = s.evidence
  /\ s.status = "completed" => s.result # None

NewState == [status |-> "planned",
             steps |-> [i \in DOMAIN Plan |-> [status |-> "pending", receipt |-> None]],
             evidence |-> None, commit |-> None, result |-> None]

(* Mutation: the receipt of the failed step is kept. *)
RetriedKeepingReceipt(s) ==
  [s EXCEPT !.status = "planned",
            !.steps = [i \in DOMAIN Plan |->
                         IF s.steps[i].status \in {"failed", "running"}
                           THEN [s.steps[i] EXCEPT !.status = "pending"]
                           ELSE s.steps[i]]]

(* A failed state is set back to its first step that has not passed. *)
Retried(s) ==
  [s EXCEPT !.status = "planned",
            !.steps = [i \in DOMAIN Plan |->
                         IF s.steps[i].status \in {"failed", "running"}
                           THEN [status |-> "pending", receipt |-> None]
                           ELSE s.steps[i]]]

Open(s)    == {i \in DOMAIN Plan : s.steps[i].status # "passed"}
Current(s) == CHOOSE i \in Open(s) : \A j \in Open(s) : i <= j

WithStep(s, status, receipt) ==
  [s EXCEPT !.steps[Current(s)] = [status |-> status, receipt |-> receipt]]

Kind(r) == Plan[Current(mem[r])]

(* The commit the worktree has to be at. *)
Expected(s) == IF s = None \/ s.commit = None THEN Base ELSE s.commit

-----------------------------------------------------------------------------
At(r, step)   == pc[r] = step
Quiet         == \A r \in Runners : At(r, "idle")
Goto(r, step) == pc' = [pc EXCEPT ![r] = step]

(* The run is over for this target; what it held in memory is gone. *)
End(r, how) == /\ Goto(r, "idle")
               /\ mem' = [mem EXCEPT ![r] = None]
               /\ turn' = [turn EXCEPT ![r] = 0]
               /\ answer' = [answer EXCEPT ![r] = how]

Continue(r, step) == Goto(r, step) /\ UNCHANGED <<mem, turn, answer>>

Save(r, s) == /\ mem' = [mem EXCEPT ![r] = s]
              /\ file' = s
              /\ UNCHANGED <<turn, answer>>

(* The catch block around executeStep: the failure is saved and thrown. *)
ThrownState(r) == [WithStep(mem[r], "failed", "failed") EXCEPT !.status = "failed"]

(* Mutation: the worktree is removed when a step fails. *)
ThrowAndRemove(r) == /\ file' = ThrownState(r)
                     /\ ws' = None
                     /\ End(r, "failed")
                     /\ UNCHANGED <<planning, branch, remote>>

Throw(r) == /\ file' = ThrownState(r)
            /\ End(r, "failed")
            /\ UNCHANGED <<planning, ws, branch, remote>>

Init == /\ file = None /\ planning = FALSE
        /\ ws = None /\ branch = None
        /\ remote = [branch |-> None, pullRequest |-> FALSE]
        /\ pc = [r \in Runners |-> "idle"]
        /\ mem = [r \in Runners |-> None]
        /\ turn = [r \in Runners |-> 0]
        /\ answer = [r \in Runners |-> "none"]
        /\ runs = 0 /\ failures = 0 /\ crashes = 0
        /\ overlaps = 0 /\ stranded = FALSE

(* run: the planning worktree is created, or the one found is used.        *)
BeginRun(r) ==
  /\ At(r, "idle") /\ runs < MaxRuns
  /\ \/ Quiet /\ UNCHANGED overlaps
     \/ ~Quiet /\ overlaps < MaxOverlaps /\ overlaps' = overlaps + 1
  /\ runs' = runs + 1
  /\ turn' = [turn EXCEPT ![r] = runs + 1]
  /\ answer' = [answer EXCEPT ![r] = "none"]
  /\ planning' = TRUE
  /\ Goto(r, "planning")
  /\ UNCHANGED <<file, ws, branch, remote, mem, failures, crashes, stranded>>

(* It is removed when the plan is made; whoever needs it then fails. *)
MakePlan(r) ==
  /\ At(r, "planning")
  /\ IF planning THEN Continue(r, "load") ELSE End(r, "failed")
  /\ planning' = FALSE
  /\ UNCHANGED <<file, ws, branch, remote, bounds>>

(* Mutation: a completed state is run again. *)
LoadCompleted(r) ==
  /\ At(r, "load")
  /\ IF file = None THEN Continue(r, "workspace")
     ELSE /\ Goto(r, "workspace")
          /\ mem' = [mem EXCEPT ![r] = file]
          /\ UNCHANGED <<turn, answer>>
  /\ UNCHANGED <<file, planning, ws, branch, remote, bounds>>

(* runTarget: loadRunState and assertRunStateIntegrity. *)
Load(r) ==
  /\ At(r, "load")
  /\ IF file = None THEN Continue(r, "workspace")
     ELSE IF ~Integrity(file) THEN End(r, "failed")
     ELSE IF file.status = "completed" THEN End(r, "completed")
     ELSE /\ Goto(r, "workspace")
          /\ mem' = [mem EXCEPT ![r] = file]
          /\ UNCHANGED <<turn, answer>>
  /\ UNCHANGED <<file, planning, ws, branch, remote, bounds>>

(* Mutation: a worktree that exists is in the way. *)
UseWorkspaceNever(r) ==
  /\ At(r, "workspace") /\ ws # None
  /\ End(r, "failed")
  /\ UNCHANGED <<file, planning, ws, branch, remote, bounds>>

(* createWorktree: a worktree that exists is used or refused; otherwise    *)
(* the branch must be new.                                                 *)
UseWorkspace(r) ==
  /\ At(r, "workspace") /\ ws # None
  /\ IF ws.head = Expected(mem[r]) /\ ws.onBranch
       THEN Continue(r, "prepare")
       ELSE End(r, "failed")
  /\ UNCHANGED <<file, planning, ws, branch, remote, bounds>>

CheckBranch(r) ==
  /\ At(r, "workspace") /\ ws = None
  /\ IF branch = None THEN Continue(r, "add") ELSE End(r, "failed")
  /\ UNCHANGED <<file, planning, ws, branch, remote, bounds>>

AddWorktree(r) ==
  /\ At(r, "add")
  /\ IF ws = None
       THEN /\ ws' = [head |-> Expected(mem[r]), onBranch |-> FALSE,
                      tree |-> TreeOf(Expected(mem[r]))]
            /\ Continue(r, "switch")
       ELSE End(r, "failed") /\ UNCHANGED ws
  /\ UNCHANGED <<file, planning, branch, remote, bounds>>

SwitchBranch(r) ==
  /\ At(r, "switch")
  /\ IF ws # None /\ branch = None
       THEN /\ ws' = [ws EXCEPT !.onBranch = TRUE]
            /\ branch' = ws.head
            /\ Continue(r, "prepare")
       ELSE ws' = None /\ End(r, "failed") /\ UNCHANGED branch
  /\ UNCHANGED <<file, planning, remote, bounds>>

(* The Work Order is read in the worktree; a new state is saved, a failed  *)
(* one set back, and one left by an interrupted run taken as it is.        *)
Prepare(r) ==
  /\ At(r, "prepare")
  /\ \/ /\ ws = None
        /\ End(r, "failed") /\ UNCHANGED file
     \/ /\ ws # None /\ mem[r] = None
        /\ Save(r, NewState) /\ Goto(r, "step")
     \/ /\ ws # None /\ mem[r] # None /\ mem[r].status = "failed"
        /\ Save(r, Retried(mem[r])) /\ Goto(r, "step")
     \/ /\ ws # None /\ mem[r] # None /\ mem[r].status # "failed"
        /\ Continue(r, "step") /\ UNCHANGED file
  /\ UNCHANGED <<planning, ws, branch, remote, bounds>>

-----------------------------------------------------------------------------
(* The loop over the planned steps. *)
StartStep(r) ==
  /\ At(r, "step") /\ Open(mem[r]) # {}
  /\ Save(r, [WithStep(mem[r], "running", None) EXCEPT !.status = PhaseFor(Kind(r))])
  /\ Goto(r, "execute")
  /\ UNCHANGED <<planning, ws, branch, remote, bounds>>

(* stopAfterStep pauses the run after a step it names. *)
StepPasses(r) ==
  /\ At(r, "passing")
  /\ LET s == WithStep(mem[r], "passed", "passed")
     IN \/ Save(r, s) /\ Goto(r, "step")
        \/ file' = s /\ End(r, "paused")
  /\ UNCHANGED <<planning, ws, branch, remote, bounds>>

(* A patch that does not apply, a failed validation, test or build, a git  *)
(* or GitHub command that fails.                                           *)
StepFails(r) ==
  /\ pc[r] \in {"execute", "writeEvidence", "deliver", "push", "pullRequest", "delivered"}
  /\ failures < MaxFailures
  /\ failures' = failures + 1
  /\ Throw(r)
  /\ UNCHANGED <<runs, crashes, overlaps, stranded>>

(* executeStep *)
ApplyPatch(r) ==
  /\ At(r, "execute") /\ Kind(r) \in Patches
  /\ IF ws = None THEN Throw(r)
     ELSE /\ ws' = [ws EXCEPT !.tree.patches = @ \cup {Kind(r)}]
          /\ Continue(r, "passing")
          /\ UNCHANGED <<file, planning, branch, remote>>
  /\ UNCHANGED bounds

Verify(r) ==
  /\ At(r, "execute") /\ Kind(r) \in {"validate", "verify"}
  /\ IF ws = None THEN Throw(r)
     ELSE Continue(r, "passing") /\ UNCHANGED <<file, planning, ws, branch, remote>>
  /\ UNCHANGED bounds

ReuseEvidence(r) ==
  /\ At(r, "execute") /\ Kind(r) = "evidence" /\ mem[r].evidence # None
  /\ IF ws # None /\ mem[r].evidence \in ws.tree.evidence
       THEN Continue(r, "passing") /\ UNCHANGED <<file, planning, ws, branch, remote>>
       ELSE Throw(r)
  /\ UNCHANGED bounds

(* Mutation: a change under .coga/evidence is allowed here, too. *)
CheckChangesLoosely(r) ==
  /\ At(r, "execute") /\ Kind(r) = "evidence" /\ mem[r].evidence = None
  /\ IF ws # None /\ ws.tree.patches # {}
       THEN Continue(r, "writeEvidence") /\ UNCHANGED <<file, planning, ws, branch, remote>>
       ELSE Throw(r)
  /\ UNCHANGED bounds

(* Only governed paths may have changed, and .coga/evidence is not one.    *)
CheckChanges(r) ==
  /\ At(r, "execute") /\ Kind(r) = "evidence" /\ mem[r].evidence = None
  /\ IF ws # None /\ ws.tree.evidence = {} /\ ws.tree.patches # {}
       THEN Continue(r, "writeEvidence") /\ UNCHANGED <<file, planning, ws, branch, remote>>
       ELSE Throw(r)
  /\ UNCHANGED bounds

WriteEvidence(r) ==
  /\ At(r, "writeEvidence")
  /\ IF ws = None THEN Throw(r)
     ELSE LET bundle == [tree  |-> ws.tree.patches,
                         steps |-> {i \in DOMAIN Plan : mem[r].steps[i].receipt = "passed"},
                         made  |-> turn[r]]
          IN /\ ws' = [ws EXCEPT !.tree.evidence = @ \cup {bundle}]
             /\ mem' = [mem EXCEPT ![r].evidence = bundle]
             /\ Goto(r, "saveEvidence")
             /\ UNCHANGED <<turn, answer, file, planning, branch, remote>>
  /\ UNCHANGED bounds

SaveEvidence(r) ==
  /\ At(r, "saveEvidence")
  /\ Save(r, mem[r]) /\ Goto(r, "passing")
  /\ UNCHANGED <<planning, ws, branch, remote, bounds>>

(* Mutation: only files git already tracks are committed. *)
CommitTracked(r) ==
  /\ At(r, "execute") /\ Kind(r) = "deliver"
  /\ IF mem[r].commit # None
       THEN Continue(r, "deliver") /\ UNCHANGED <<file, planning, ws, branch, remote>>
     ELSE IF mem[r].evidence # None /\ ws # None
       THEN LET commit == Append(ws.head, [ws.tree EXCEPT !.evidence = {}])
            IN /\ ws' = [ws EXCEPT !.head = commit]
               /\ branch' = commit
               /\ mem' = [mem EXCEPT ![r].commit = commit]
               /\ Goto(r, "saveCommit")
               /\ UNCHANGED <<turn, answer, file, planning, remote>>
     ELSE Throw(r)
  /\ UNCHANGED bounds

CommitCandidate(r) ==
  /\ At(r, "execute") /\ Kind(r) = "deliver"
  /\ IF mem[r].evidence # None /\ ws # None /\ mem[r].commit # None
       THEN Continue(r, "deliver") /\ UNCHANGED <<file, planning, ws, branch, remote>>
     ELSE IF mem[r].evidence # None /\ ws # None /\ ws.tree # TreeOf(ws.head)
       THEN LET commit == Append(ws.head, ws.tree)
            IN /\ ws' = [ws EXCEPT !.head = commit]
               /\ branch' = IF ws.onBranch THEN commit ELSE branch
               /\ mem' = [mem EXCEPT ![r].commit = commit]
               /\ Goto(r, "saveCommit")
               /\ UNCHANGED <<turn, answer, file, planning, remote>>
     ELSE Throw(r)
  /\ UNCHANGED bounds

(* The commit is made, but `git rev-parse' does not say which it is.       *)
RevParseFails(r) ==
  /\ At(r, "saveCommit")
  /\ failures < MaxFailures
  /\ failures' = failures + 1
  /\ stranded' = TRUE
  /\ file' = [ThrownState(r) EXCEPT !.commit = None]
  /\ End(r, "failed")
  /\ UNCHANGED <<planning, ws, branch, remote, runs, crashes, overlaps>>

SaveCommit(r) ==
  /\ At(r, "saveCommit")
  /\ Save(r, mem[r]) /\ Goto(r, "deliver")
  /\ UNCHANGED <<planning, ws, branch, remote, bounds>>

(* deliverGitHubDraft: the worktree and the remote branch are looked at,   *)
(* HEAD is pushed, then a draft pull request found or created and its head *)
(* compared.  A push that is no fast-forward is refused by the remote.     *)
CheckCandidate(r) ==
  /\ At(r, "deliver") /\ Delivery = "github"
  /\ IF /\ ws # None /\ ws.onBranch /\ ws.head = mem[r].commit
        /\ remote.branch \in {None, mem[r].commit}
       THEN Continue(r, "push") /\ UNCHANGED <<file, planning, ws, branch, remote>>
       ELSE Throw(r)
  /\ UNCHANGED bounds

Push(r) ==
  /\ At(r, "push")
  /\ IF ws # None /\ (remote.branch = None \/ IsPrefix(remote.branch, ws.head))
       THEN /\ remote' = [remote EXCEPT !.branch = ws.head]
            /\ Continue(r, "pullRequest")
            /\ UNCHANGED <<file, planning, ws, branch>>
       ELSE Throw(r)
  /\ UNCHANGED bounds

OpenPullRequest(r) ==
  /\ At(r, "pullRequest")
  /\ remote' = [remote EXCEPT !.pullRequest = TRUE]
  /\ IF remote.branch = mem[r].commit
       THEN Continue(r, "delivered") /\ UNCHANGED file
       ELSE /\ file' = ThrownState(r)
            /\ End(r, "failed")
  /\ UNCHANGED <<planning, ws, branch, bounds>>

Deliver(r) ==
  /\ At(r, IF Delivery = "github" THEN "delivered" ELSE "deliver")
  /\ Save(r, [mem[r] EXCEPT !.result = [commit |-> mem[r].commit,
                                        evidence |-> mem[r].evidence,
                                        pullRequest |-> Delivery = "github"]])
  /\ Goto(r, "passing")
  /\ UNCHANGED <<planning, ws, branch, remote, bounds>>

(* All steps have passed: the state is saved as completed, then the        *)
(* worktree is removed.  When that fails the target counts as failed.      *)
Complete(r) ==
  /\ At(r, "step") /\ Open(mem[r]) = {}
  /\ IF mem[r].result = None
       THEN End(r, "failed") /\ UNCHANGED file
       ELSE Save(r, [mem[r] EXCEPT !.status = "completed"]) /\ Goto(r, "cleanup")
  /\ UNCHANGED <<planning, ws, branch, remote, bounds>>

RemoveWorktree(r) ==
  /\ At(r, "cleanup")
  /\ ws' = IF KeepWorkspace THEN ws ELSE None
  /\ End(r, "completed")
  /\ UNCHANGED <<file, planning, branch, remote, bounds>>

RemovalFails(r) ==
  /\ At(r, "cleanup") /\ ~KeepWorkspace /\ ws # None
  /\ failures < MaxFailures
  /\ failures' = failures + 1
  /\ End(r, "failed")
  /\ UNCHANGED <<file, planning, ws, branch, remote, runs, crashes, overlaps, stranded>>

(* Steps before which git or the disk already holds what the saved state   *)
(* does not know of.                                                       *)
Windows == {"switch", "saveEvidence", "saveCommit"}

Crash(r) ==
  /\ ~At(r, "idle") /\ crashes < MaxCrashes
  /\ crashes' = crashes + 1
  /\ stranded' = (stranded \/ pc[r] \in Windows)
  /\ End(r, "crashed")
  /\ UNCHANGED <<file, planning, ws, branch, remote, runs, failures, overlaps>>

Proceed(r) ==
  \/ MakePlan(r) \/ Load(r) \/ UseWorkspace(r) \/ CheckBranch(r)
  \/ AddWorktree(r) \/ SwitchBranch(r) \/ Prepare(r)
  \/ StartStep(r) \/ StepPasses(r) \/ ApplyPatch(r) \/ Verify(r)
  \/ ReuseEvidence(r) \/ CheckChanges(r) \/ WriteEvidence(r) \/ SaveEvidence(r)
  \/ CommitCandidate(r) \/ SaveCommit(r)
  \/ CheckCandidate(r) \/ Push(r) \/ OpenPullRequest(r) \/ Deliver(r)
  \/ Complete(r) \/ RemoveWorktree(r)

Next == \E r \in Runners :
          \/ BeginRun(r) \/ Proceed(r)
          \/ StepFails(r) \/ RevParseFails(r) \/ RemovalFails(r) \/ Crash(r)

Spec == Init /\ [][Next]_vars

(* The Work Order is run again as long as it has not completed, and a run  *)
(* that lives goes on.                                                     *)
Completed == file # None /\ file.status = "completed"

FairSpec == /\ Spec
            /\ \A r \in Runners : /\ WF_vars(Proceed(r))
                                  /\ WF_vars(~Completed /\ BeginRun(r))

-----------------------------------------------------------------------------
TypeOK ==
  /\ file \in State \cup {None}
  /\ planning \in BOOLEAN
  /\ ws \in Workspace \cup {None}
  /\ branch \in Commit \cup {None}
  /\ remote \in [branch : Commit \cup {None}, pullRequest : BOOLEAN]
  /\ mem \in [Runners -> State \cup {None}]
  /\ turn \in [Runners -> 0 .. MaxRuns]
  /\ answer \in [Runners -> {"none", "completed", "failed", "paused", "crashed"}]
  /\ overlaps \in 0 .. MaxOverlaps /\ stranded \in BOOLEAN

(* Hazard: recovery refuses what the controller itself wrote.  Whatever    *)
(* interrupted a run, the state it left passes assertRunStateIntegrity.    *)
SavedStateAccepted == file # None => Integrity(file)

(* Hazard: a retry delivers something that was not what was verified.  As  *)
(* long as runs do not overlap, a result is one commit on the base; its    *)
(* tree holds both patches and, as the only change beside them, the bundle *)
(* the result names, which describes exactly these patches and has a       *)
(* passed receipt of every step before it (the test counts one commit per  *)
(* target).                                                                *)
ResultIsWhatWasVerified ==
  overlaps = 0 /\ file # None /\ file.result # None =>
    LET bundle == file.result.evidence
    IN /\ file.result.commit = <<[patches |-> Patches, evidence |-> {bundle}]>>
       /\ bundle.tree = Patches
       /\ bundle.steps = 1 .. Len(Plan) - 2
       /\ branch = file.result.commit
       /\ file.result.pullRequest =>
            remote.pullRequest /\ remote.branch = file.result.commit

(* Hazard: runs that overlap mix their work in one worktree, or a run dies *)
(* after the push.  A commit that reaches the remote holds both patches    *)
(* and a bundle that describes them and has a receipt of every             *)
(* verification; and unless runs overlap it is the commit that the state   *)
(* on disk named already, so that the next run knows what the world saw.   *)
PublishedIsEvidenced ==
  remote.branch # None =>
    /\ overlaps = 0 => file.commit = remote.branch
    /\ TreeOf(remote.branch).patches = Patches
    /\ \E bundle \in TreeOf(remote.branch).evidence :
         bundle.tree = Patches /\ bundle.steps = 1 .. Len(Plan) - 2

(* The next run can create the worktree, or finds it on its branch ... *)
WorktreeUsable == IF ws = None THEN branch = None ELSE ws.onBranch

(* ... at the commit it expects ... *)
CommitExpected == ws # None => ws.head = Expected(file)

(* ... and with no other bundle than the one the state names.              *)
EvidenceExpected ==
  ws # None => ws.tree.evidence = IF file = None \/ file.evidence = None
                                    THEN {} ELSE {file.evidence}

(* Hazard: an interrupted run leaves something the next one refuses.       *)
(* README: "resumes only failed steps".  Between two runs of a target that *)
(* has not completed, the next one can go on from what is there, wherever  *)
(* the last one failed, paused or died - but in the Windows (in which a    *)
(* run dies, or fails to learn the commit it has just made), and unless    *)
(* two runs overlapped.                                                    *)
Resumable ==
  Quiet /\ ~Completed /\ ~stranded /\ overlaps = 0 =>
    WorktreeUsable /\ CommitExpected /\ EvidenceExpected

(* README: "Rerunning the same Work Order reuses completed results".  No   *)
(* later run touches a completed state, and it answers "completed" unless  *)
(* it dies.  Overlapping runs are left out: the slower one saves the state *)
(* it holds over the completed one.                                        *)
ResultReused ==
  [][Completed /\ overlaps' = 0 =>
       /\ file' = file
       /\ \A r \in Runners :
            pc[r] = "load" /\ pc'[r] # "load" =>
              pc'[r] = "idle" /\ answer'[r] \in {"completed", "crashed"}]_vars

(* README: "resumes only failed steps".  A target that failed or was       *)
(* paused completes when it is run again, if nothing dies, no two runs     *)
(* overlap, and no commit is lost sight of meanwhile.                      *)
TargetCompletes == <>(Completed \/ crashes > 0 \/ overlaps > 0 \/ stranded)
=============================================================================
