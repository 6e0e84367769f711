----------------------------- MODULE Operations -----------------------------
(***************************************************************************)
(* One task with delivery to GitHub, executed again and again: a lease on  *)
(* an installation token (credentials.ts), the run under that lease        *)
(* (operations-controller.ts) and the delivery of one candidate as a draft *)
(* pull request (github.ts).  Answers get lost, processes die, tokens      *)
(* expire during long runs, attempts overlap, and people use the           *)
(* repository meanwhile.                                                   *)
(*                                                                         *)
(* GitHub is external: the base branch, the branch of the candidate and    *)
(* its pull requests.  The work that the run does before delivery is the   *)
(* subject of module TargetRun; here the candidate exists.  Identities,    *)
(* formats, paging and redaction are left out.                             *)
(***************************************************************************)
EXTENDS Integers, Sequences, FiniteSets

CONSTANTS
  Runners,                      \* the executors of attempts
  MaxFailures, MaxInterference, \* bounds
  MaxPullRequests,
  None

ASSUME OperationsAssumption ==
  /\ IsFiniteSet(Runners) /\ Runners # {}
  /\ {MaxFailures, MaxInterference, MaxPullRequests} \subseteq Nat

VARIABLES
  base,         \* what the base branch holds
  branch,       \* what the branch of the candidate holds
  prs,          \* the pull requests of the branch, in the order of creation
  pc, token,    \* of each attempt: where it is, the token it holds
  number,       \* and the pull request it has found or created
  stray,        \* tokens that are alive and that nobody holds
  delivered,    \* the pull request that the saved result names
  overlapped,   \* an attempt was begun while another one was under way
  failures, interference

github == <<base, branch, prs>>
attempts == <<pc, token, number, overlapped>>
counts == <<failures, interference>>
vars == <<github, attempts, stray, delivered, counts>>

Pcs == {"idle", "acquire", "preflight", "base", "target", "push", "lookup", "create",
        "view", "save", "revoke"}

PullRequest == [state : {"OPEN", "CLOSED", "MERGED"}, draft : BOOLEAN,
                author : {"app", "person"}, head : {"candidate", "other"},
                base : {"base", "moved"}]

Open(p) == p.state = "OPEN"
Numbers == DOMAIN prs
OpenOnes == {n \in Numbers : Open(prs[n])}

(* The open draft that the App made of the candidate on its base.          *)
Exact(p) == Open(p) /\ p.draft /\ p.author = "app" /\ p.head = "candidate" /\ p.base = "base"

-----------------------------------------------------------------------------
Init ==
  /\ base = "base" /\ branch = None /\ prs = <<>>
  /\ pc = [r \in Runners |-> "idle"]
  /\ token = [r \in Runners |-> "none"]
  /\ number = [r \in Runners |-> None]
  /\ stray = 0
  /\ delivered = None
  /\ overlapped = FALSE
  /\ failures = 0 /\ interference = 0

At(r, p) == pc[r] = p
Goto(r, p) == pc' = [pc EXCEPT ![r] = p]

(* A target that fails ends the run, and the run returns to the finally    *)
(* block of execute().                                                     *)
Throw(r) == Goto(r, "revoke")

Failing == failures < MaxFailures /\ failures' = failures + 1 /\ UNCHANGED interference

(* The end of an attempt that leaves its token alive, if it is.            *)
Abandon(r) ==
  /\ Goto(r, "idle")
  /\ stray' = stray + IF token[r] = "live" THEN 1 ELSE 0
  /\ token' = [token EXCEPT ![r] = "none"]
  /\ number' = [number EXCEPT ![r] = None]
  /\ UNCHANGED overlapped

-----------------------------------------------------------------------------
(* People, and time. *)

Interfere ==
  /\ interference < MaxInterference
  /\ interference' = interference + 1
  /\ UNCHANGED <<attempts, stray, delivered, failures>>

Change(n, p) ==
  /\ Interfere
  /\ prs' = [prs EXCEPT ![n] = p]
  /\ UNCHANGED <<base, branch>>

Close(n)     == Open(prs[n]) /\ Change(n, [prs[n] EXCEPT !.state = "CLOSED"])
Reopen(n)    == /\ prs[n].state = "CLOSED" /\ OpenOnes = {} /\ branch # None
                /\ Change(n, [prs[n] EXCEPT !.state = "OPEN"])
MarkReady(n) == Open(prs[n]) /\ prs[n].draft /\ Change(n, [prs[n] EXCEPT !.draft = FALSE])
Merge(n)     == Open(prs[n]) /\ ~prs[n].draft /\ Change(n, [prs[n] EXCEPT !.state = "MERGED"])

MoveBase ==
  /\ base = "base" /\ Interfere
  /\ base' = "moved"
  /\ UNCHANGED <<branch, prs>>

PushOther ==
  /\ branch # "other" /\ Interfere
  /\ branch' = "other"
  /\ prs' = [n \in Numbers |-> IF Open(prs[n]) THEN [prs[n] EXCEPT !.head = "other"] ELSE prs[n]]
  /\ UNCHANGED base

DeleteBranch ==
  /\ branch # None /\ OpenOnes = {} /\ Interfere
  /\ branch' = None
  /\ UNCHANGED <<base, prs>>

NewPullRequest(author, draft) ==
  Append(prs, [state |-> "OPEN", draft |-> draft, author |-> author, head |-> branch,
               base |-> base])
Creatable == branch # None /\ OpenOnes = {} /\ Len(prs) < MaxPullRequests

OpenOwn(draft) ==
  /\ Creatable /\ Interfere
  /\ prs' = NewPullRequest("person", draft)
  /\ UNCHANGED <<base, branch>>

ExpireStray ==
  /\ stray > 0
  /\ stray' = stray - 1
  /\ UNCHANGED <<github, attempts, delivered, counts>>

ExpireHeld(r) ==
  /\ token[r] = "live" /\ Failing
  /\ token' = [token EXCEPT ![r] = "expired"]
  /\ UNCHANGED <<github, pc, number, overlapped, stray, delivered>>

-----------------------------------------------------------------------------
(* The attempts. *)

Begin(r) ==
  /\ At(r, "idle")
  /\ Goto(r, "acquire")
  /\ overlapped' = (overlapped \/ \E s \in Runners : pc[s] # "idle")
  /\ UNCHANGED <<github, token, number, stray, delivered, counts>>

(* Mutation: a target that has a result is delivered like any other.       *)
AcquireToDeliver(r) ==
  /\ At(r, "acquire")
  /\ token' = [token EXCEPT ![r] = "live"]
  /\ Goto(r, "preflight")
  /\ UNCHANGED <<github, number, overlapped, stray, delivered, counts>>

(* acquire(): the App and its installation are looked up and a token is    *)
(* minted.  A target with a result is not delivered again.                 *)
Acquire(r) ==
  /\ At(r, "acquire")
  /\ token' = [token EXCEPT ![r] = "live"]
  /\ Goto(r, IF delivered = None THEN "preflight" ELSE "revoke")
  /\ UNCHANGED <<github, number, overlapped, stray, delivered, counts>>

(* What fails before the token is minted leaves nothing; an answer that is *)
(* lost or refused after that leaves a token that is never revoked.        *)
AcquireFails(r) ==
  /\ At(r, "acquire") /\ Failing
  /\ \/ UNCHANGED stray
     \/ stray' = stray + 1
  /\ Goto(r, "idle")
  /\ UNCHANGED <<github, token, number, overlapped, delivered>>

(* A step of the delivery: the token must still be good.                   *)
Delivering(r, p) == At(r, p) /\ token[r] = "live"

Check(r, p, passed, next) ==
  /\ Delivering(r, p)
  /\ IF passed THEN Goto(r, next) ELSE Throw(r)
  /\ UNCHANGED <<github, token, number, overlapped, stray, delivered, counts>>

(* The repositories of the installation, the remote, the local candidate.  *)
Preflight(r)   == Check(r, "preflight", TRUE, "base")
CheckBase(r)   == Check(r, "base", base = "base", "target")
CheckTarget(r) == Check(r, "target", branch \in {None, "candidate"}, "push")

(* A push that is no fast-forward is refused; an answer may be lost.       *)
Push(r) ==
  /\ Delivering(r, "push")
  /\ IF branch = "other" THEN Throw(r) /\ UNCHANGED <<branch, counts>>
     ELSE /\ branch' = "candidate"
          /\ \/ Goto(r, "lookup") /\ UNCHANGED counts
             \/ Throw(r) /\ Failing
  /\ UNCHANGED <<base, prs, token, number, overlapped, stray, delivered>>

(* Mutation: only open pull requests are looked up. *)
LookupOpen(r) ==
  /\ Delivering(r, "lookup")
  /\ IF OpenOnes = {} THEN Goto(r, "create") /\ UNCHANGED number
     ELSE IF \E n \in OpenOnes : Exact(prs[n])
       THEN Goto(r, "save") /\ number' = [number EXCEPT ![r] = CHOOSE n \in OpenOnes : TRUE]
     ELSE Throw(r) /\ UNCHANGED number
  /\ UNCHANGED <<github, token, overlapped, stray, delivered, counts>>

(* Mutation: a pull request that exists is never the one to be made.       *)
LookupNew(r) ==
  /\ Delivering(r, "lookup")
  /\ IF prs = <<>> THEN Goto(r, "create") ELSE Throw(r)
  /\ UNCHANGED <<github, token, number, overlapped, stray, delivered, counts>>

(* All pull requests of the branch, whatever their state: none, or the one *)
(* that an earlier attempt has made of this candidate.                     *)
Lookup(r) ==
  /\ Delivering(r, "lookup")
  /\ IF prs = <<>> THEN Goto(r, "create") /\ UNCHANGED number
     ELSE IF Len(prs) = 1 /\ Exact(prs[1])
       THEN Goto(r, "save") /\ number' = [number EXCEPT ![r] = 1]
     ELSE Throw(r) /\ UNCHANGED number
  /\ UNCHANGED <<github, token, overlapped, stray, delivered, counts>>

(* GitHub refuses a second open pull request of a branch.                  *)
Create(r) ==
  /\ Delivering(r, "create")
  /\ IF Creatable
       THEN /\ prs' = NewPullRequest("app", TRUE)
            /\ number' = [number EXCEPT ![r] = Len(prs) + 1]
            /\ \/ Goto(r, "view") /\ UNCHANGED counts
               \/ Throw(r) /\ Failing
       ELSE Throw(r) /\ UNCHANGED <<prs, number, counts>>
  /\ UNCHANGED <<base, branch, token, overlapped, stray, delivered>>

View(r) == Check(r, "view", Exact(prs[number[r]]), "save")

(* The state with the result is on disk (Deliver in module TargetRun).     *)
SaveResult(r) ==
  /\ At(r, "save")
  /\ delivered' = number[r]
  /\ Goto(r, "revoke")
  /\ UNCHANGED <<github, token, number, overlapped, stray, counts>>

(* A command fails without effect, or its token is not accepted any more.  *)
CommandFails(r) ==
  /\ pc[r] \in {"preflight", "base", "target", "push", "lookup", "create", "view"}
  /\ \/ Failing
     \/ token[r] = "expired" /\ UNCHANGED counts
  /\ Throw(r)
  /\ UNCHANGED <<github, token, number, overlapped, stray, delivered>>

(* Mutation: a run without a result keeps its token. *)
RevokeOnSuccess(r) ==
  /\ At(r, "revoke")
  /\ stray' = stray + IF delivered = None THEN 1 ELSE 0
  /\ Goto(r, "idle")
  /\ token' = [token EXCEPT ![r] = "none"]
  /\ number' = [number EXCEPT ![r] = None]
  /\ UNCHANGED <<github, overlapped, delivered, counts>>

(* The finally block.  The result is returned, also that of a run that     *)
(* failed; when the revocation fails the call throws instead.              *)
Revoke(r) ==
  /\ At(r, "revoke")
  /\ \/ /\ Goto(r, "idle")
        /\ token' = [token EXCEPT ![r] = "none"]
        /\ number' = [number EXCEPT ![r] = None]
        /\ UNCHANGED <<overlapped, stray, counts>>
     \/ Abandon(r) /\ Failing
  /\ UNCHANGED <<github, delivered>>

Crash(r) ==
  /\ pc[r] \notin {"idle", "acquire"} /\ Failing
  /\ Abandon(r)
  /\ UNCHANGED <<github, delivered>>

Proceed(r) ==
  \/ Acquire(r) \/ Preflight(r) \/ CheckBase(r) \/ CheckTarget(r) \/ Push(r) \/ Lookup(r)
  \/ Create(r) \/ View(r) \/ SaveResult(r) \/ CommandFails(r) \/ Revoke(r)

Next ==
  \/ \E r \in Runners : Begin(r) \/ Proceed(r) \/ AcquireFails(r) \/ Crash(r) \/ ExpireHeld(r)
  \/ \E n \in Numbers : Close(n) \/ Reopen(n) \/ MarkReady(n) \/ Merge(n)
  \/ \E draft \in BOOLEAN : OpenOwn(draft)
  \/ MoveBase \/ PushOther \/ DeleteBranch \/ ExpireStray

Spec == Init /\ [][Next]_vars

(* An attempt that lives goes on, and a task without a result is submitted *)
(* again: its record says that it succeeded even when its target failed.   *)
FairSpec == /\ Spec
            /\ \A r \in Runners : /\ WF_vars(Proceed(r))
                                  /\ WF_vars(delivered = None /\ Begin(r))

-----------------------------------------------------------------------------
(* Properties *)

(* Every variable has its type. *)
TypeOK ==
  /\ base \in {"base", "moved"} /\ branch \in {None, "candidate", "other"}
  /\ prs \in Seq(PullRequest) /\ Len(prs) <= MaxPullRequests
  /\ pc \in [Runners -> Pcs] /\ token \in [Runners -> {"none", "live", "expired"}]
  /\ number \in [Runners -> Numbers \cup {None}]
  /\ stray \in Nat /\ overlapped \in BOOLEAN
  /\ delivered \in Numbers \cup {None}

(* However often the task is executed, and whatever answers are lost, one  *)
(* candidate gets one pull request: a person who closed or merged it does  *)
(* not see another one.  Only attempts that overlap can make a second one, *)
(* and only when a person has closed the first between them.  A result     *)
(* never names a pull request of somebody else.                            *)
OnePullRequest ==
  /\ ~overlapped \/ interference = 0
       => Cardinality({n \in Numbers : prs[n].author = "app"}) <= 1
  /\ delivered # None => prs[delivered].author = "app"

(* Tokens that stay alive without an owner are due to failures, one each:  *)
(* an attempt gives its token back whether or not it delivers.             *)
StrayTokensAreFailures ==
  /\ stray <= failures
  /\ \A r \in Runners : token[r] # "none" => pc[r] \notin {"idle", "acquire"}

(* Once a result is saved no attempt changes it, pushes, or makes a pull   *)
(* request, unless it had been under way already.                          *)
DeliveredOnce ==
  [][\A r \in Runners :
       delivered # None /\ ~overlapped /\ pc[r] # pc'[r]
         => delivered' = delivered /\ UNCHANGED github]_vars

(* If people leave the repository alone, a task that is submitted again    *)
(* is delivered in the end, whichever answers were lost on the way.        *)
DeliveredEventually == <>(delivered # None \/ interference > 0)

=============================================================================
