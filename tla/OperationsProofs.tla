-------------------------- MODULE OperationsProofs --------------------------
(***************************************************************************)
(* What holds of Operations for every set of runners and every number of   *)
(* failures, interferences and pull requests.                              *)
(*                                                                         *)
(* That one candidate gets one pull request has two reasons, and each      *)
(* needs its own part of the invariant.  While no attempts overlap, the    *)
(* attempt that is about to create has itself seen that there is none      *)
(* (Alone).  While nobody interferes, the pull request of the first        *)
(* attempt stays open, and GitHub refuses another one (Untouched).         *)
(***************************************************************************)
EXTENDS Operations, FiniteSetTheorems, TLAPS

Counted == failures \in Nat /\ interference \in Nat

(* What an attempt or the result names is a pull request of the App.       *)
Named ==
  /\ \A r \in Runners : number[r] # None => prs[number[r]].author = "app"
  /\ delivered # None => prs[delivered].author = "app"

Untouched == interference = 0 => Len(prs) <= 1 /\ \A n \in Numbers : Open(prs[n])

AppOnes == {n \in Numbers : prs[n].author = "app"}

Resting == {"idle", "acquire", "revoke"}

Alone ==
  ~overlapped =>
    /\ \A r, s \in Runners : pc[r] # "idle" /\ pc[s] # "idle" => r = s
    /\ \A m, n \in AppOnes : m = n
    /\ \A r \in Runners : pc[r] = "create" => AppOnes = {}
    /\ delivered # None => \A r \in Runners : pc[r] \in Resting

OperationsInv == TypeOK /\ Counted /\ StrayTokensAreFailures /\ Named /\ Untouched /\ Alone

-----------------------------------------------------------------------------
(* The pull requests *)

PullRequestList == prs \in Seq(PullRequest) /\ Len(prs) <= MaxPullRequests

(* A pull request that is changed keeps its place and its author. *)
SameAuthors ==
  /\ PullRequestList' /\ Len(prs') = Len(prs)
  /\ \A n \in Numbers : prs'[n].author = prs[n].author

(* A pull request is added. *)
Added(author) ==
  /\ PullRequestList' /\ Len(prs') = Len(prs) + 1
  /\ \A n \in Numbers : prs'[n] = prs[n]
  /\ prs'[Len(prs) + 1].author = author /\ Open(prs'[Len(prs) + 1])

LEMMA NumbersAre == ASSUME TypeOK PROVE Numbers = 1 .. Len(prs) /\ Len(prs) \in Nat
BY DEF TypeOK, Numbers

LEMMA ListStep ==
  ASSUME NEW f, NEW k \in Nat, k <= MaxPullRequests, f \in [1 .. k -> PullRequest]
  PROVE  f \in Seq(PullRequest) /\ Len(f) = k
OBVIOUS

LEMMA ChangedOne ==
  ASSUME TypeOK, NEW n \in Numbers, NEW p \in PullRequest,
         prs' = [prs EXCEPT ![n] = p], p.author = prs[n].author
  PROVE  SameAuthors
<1>1. prs \in [1 .. Len(prs) -> PullRequest] /\ Len(prs) \in Nat /\ n \in 1 .. Len(prs)
  BY DEF TypeOK, Numbers
<1>2. prs' \in [1 .. Len(prs) -> PullRequest]
  BY <1>1
<1>3. prs' \in Seq(PullRequest) /\ Len(prs') = Len(prs)
  BY <1>1, <1>2, ListStep DEF TypeOK
<1> QED BY <1>1, <1>3 DEF SameAuthors, PullRequestList, TypeOK, Numbers

LEMMA AddedOne ==
  ASSUME TypeOK, Creatable, NEW author \in {"app", "person"}, NEW draft \in BOOLEAN,
         prs' = NewPullRequest(author, draft)
  PROVE  Added(author)
<1> DEFINE p == [state |-> "OPEN", draft |-> draft, author |-> author, head |-> branch,
                 base |-> base]
<1>1. p \in PullRequest /\ p.author = author /\ Open(p)
  BY DEF TypeOK, Creatable, PullRequest, Open
<1>2. prs' = Append(prs, p)
  BY DEF NewPullRequest
<1> HIDE DEF p
<1>3. prs \in Seq(PullRequest) /\ Len(prs) < MaxPullRequests
  BY DEF TypeOK, Creatable
<1> QED BY <1>1, <1>2, <1>3, OperationsAssumption DEF Added, PullRequestList, Numbers

-----------------------------------------------------------------------------
(* Steps of an attempt *)

(* Only the attempt of r changes, and keeps its type. *)
AttemptOf(r) ==
  /\ pc' \in [Runners -> Pcs] /\ token' \in [Runners -> {"none", "live", "expired"}]
  /\ number' \in [Runners -> Numbers' \cup {None}]
  /\ \A s \in Runners \ {r} : pc'[s] = pc[s] /\ token'[s] = token[s] /\ number'[s] = number[s]

LEMMA GotoShape ==
  ASSUME TypeOK, NEW r \in Runners, NEW p \in Pcs, Goto(r, p),
         UNCHANGED <<prs, token, number>>
  PROVE  AttemptOf(r) /\ pc'[r] = p /\ token'[r] = token[r] /\ number'[r] = number[r]
BY DEF TypeOK, Goto, AttemptOf, Numbers

LEMMA EndShape ==
  ASSUME TypeOK, NEW r \in Runners, Goto(r, "idle"), UNCHANGED prs,
         token' = [token EXCEPT ![r] = "none"], number' = [number EXCEPT ![r] = None]
  PROVE  AttemptOf(r) /\ pc'[r] = "idle" /\ token'[r] = "none" /\ number'[r] = None
BY DEF TypeOK, Goto, AttemptOf, Pcs, Numbers

(* A step that leaves the pull requests and the result alone.              *)
LEMMA QuietStep ==
  ASSUME OperationsInv, NEW r \in Runners, AttemptOf(r),
         UNCHANGED <<base, prs, overlapped, delivered, interference>>,
         branch' \in {None, "candidate", "other"},
         failures' \in Nat, stray' \in Nat, stray' <= failures',
         pc[r] # "idle",
         token'[r] # "none" => pc'[r] \notin {"idle", "acquire"},
         number'[r] \in {number[r], None} \/ prs[number'[r]].author = "app",
         pc'[r] = "create" => pc[r] = "create" \/ prs = <<>>,
         pc[r] \in Resting /\ delivered # None => pc'[r] \in Resting
  PROVE  OperationsInv'
<1>1. TypeOK'
  BY DEF OperationsInv, TypeOK, AttemptOf, Numbers
<1>2. Counted' /\ StrayTokensAreFailures'
  BY DEF OperationsInv, Counted, StrayTokensAreFailures, AttemptOf
<1>3. Named' /\ Untouched'
  BY DEF OperationsInv, Named, Untouched, AttemptOf, Numbers, Open
<1>4. Alone'
  <2>1. AppOnes' = AppOnes /\ (prs = <<>> => AppOnes = {})
    BY DEF AppOnes, Numbers
  <2> QED BY <2>1 DEF OperationsInv, Alone, AttemptOf
<1> QED BY <1>1, <1>2, <1>3, <1>4 DEF OperationsInv

LEMMA FailingCounts ==
  ASSUME OperationsInv
  PROVE  /\ stray \in Nat /\ failures \in Nat /\ stray <= failures
         /\ Failing => failures' = failures + 1 /\ UNCHANGED interference
BY DEF OperationsInv, TypeOK, Counted, StrayTokensAreFailures, Failing

LEMMA BeginStep == ASSUME OperationsInv, NEW r \in Runners, Begin(r) PROVE OperationsInv'
<1>0. TypeOK /\ Counted /\ StrayTokensAreFailures /\ Named /\ Untouched /\ Alone
  BY DEF OperationsInv
<1>1. /\ pc[r] = "idle" /\ pc'[r] = "acquire" /\ AttemptOf(r)
      /\ UNCHANGED <<github, token, number, stray, delivered, counts>>
      /\ overlapped' = (overlapped \/ \E s \in Runners : pc[s] # "idle")
  BY <1>0, GotoShape DEF Begin, At, Pcs, github
<1>2. TypeOK'
  BY <1>0, <1>1 DEF TypeOK, AttemptOf, github, Numbers
<1>3. Counted' /\ Named' /\ Untouched' /\ StrayTokensAreFailures'
  BY <1>0, <1>1 DEF Counted, Named, Untouched, StrayTokensAreFailures, AttemptOf, github,
                    counts, Numbers, Open
<1>4. Alone'
  <2> SUFFICES ASSUME ~overlapped' PROVE Alone'
    BY DEF Alone
  <2>1. ~overlapped /\ \A s \in Runners : pc[s] = "idle"
    BY <1>1
  <2>2. AppOnes' = AppOnes
    BY <1>1 DEF AppOnes, Numbers, github
  <2> QED BY <1>0, <1>1, <2>1, <2>2 DEF Alone, AttemptOf, Resting
<1> QED BY <1>2, <1>3, <1>4 DEF OperationsInv

LEMMA AcquireStep ==
  ASSUME OperationsInv, NEW r \in Runners, Acquire(r) \/ AcquireFails(r)
  PROVE  OperationsInv'
<1>0. TypeOK /\ pc[r] = "acquire" /\ token[r] = "none"
      /\ UNCHANGED <<github, number, overlapped, delivered, interference>>
  BY FailingCounts DEF OperationsInv, Acquire, AcquireFails, At, StrayTokensAreFailures, TypeOK,
                       counts
<1>1. CASE Acquire(r)
  <2>1. AttemptOf(r) /\ pc'[r] \in {"preflight", "revoke"} /\ number'[r] = number[r]
        /\ (delivered # None => pc'[r] = "revoke")
    BY <1>0, <1>1 DEF Acquire, Goto, AttemptOf, TypeOK, Pcs, github, Numbers
  <2>2. UNCHANGED <<stray, failures>>
    BY <1>1 DEF Acquire, counts
  <2> QED BY <1>0, <2>1, <2>2, FailingCounts, QuietStep DEF github, TypeOK, Resting
<1>2. CASE AcquireFails(r)
  <2>1. AttemptOf(r) /\ pc'[r] = "idle" /\ number'[r] = number[r] /\ token'[r] = token[r]
    BY <1>0, <1>2, GotoShape DEF AcquireFails, Pcs, github
  <2>2. failures' = failures + 1 /\ stray' \in {stray, stray + 1}
    BY <1>2, FailingCounts DEF AcquireFails
  <2> QED BY <1>0, <2>1, <2>2, FailingCounts, QuietStep DEF github, TypeOK, Resting
<1> QED BY <1>1, <1>2

LEMMA DeliveryStep ==
  ASSUME OperationsInv, NEW r \in Runners,
         \/ Preflight(r) \/ CheckBase(r) \/ CheckTarget(r) \/ View(r) \/ CommandFails(r)
         \/ Push(r) \/ Lookup(r)
  PROVE  OperationsInv'
<1> DEFINE Goal == OperationsInv'
<1>0. TypeOK
  BY DEF OperationsInv
<1>1. ASSUME Preflight(r) \/ CheckBase(r) \/ CheckTarget(r) \/ View(r) \/ CommandFails(r)
      PROVE  Goal
  <2>1. /\ \E p \in Pcs \ {"idle", "acquire", "create"} : Goto(r, p)
        /\ UNCHANGED <<github, token, number, overlapped, stray, delivered, interference>>
        /\ pc[r] \notin Resting
        /\ failures' \in {failures, failures + 1}
    BY <1>1, FailingCounts
       DEF Preflight, CheckBase, CheckTarget, View, CommandFails, Check, Delivering, At, Throw,
           Pcs, counts, Resting
  <2>2. AttemptOf(r) /\ pc'[r] \notin {"idle", "acquire", "create"} /\ number'[r] = number[r]
    BY <1>0, <2>1, GotoShape DEF github
  <2> QED BY <1>0, <2>1, <2>2, FailingCounts, QuietStep DEF github, TypeOK, Resting
<1>2. ASSUME Push(r) PROVE Goal
  <2>1. /\ \E p \in {"lookup", "revoke"} : Goto(r, p)
        /\ UNCHANGED <<base, prs, token, number, overlapped, stray, delivered, interference>>
        /\ pc[r] = "push" /\ branch' \in {branch, "candidate"}
        /\ failures' \in {failures, failures + 1}
    BY <1>2, FailingCounts DEF Push, Delivering, At, Throw, counts
  <2>2. AttemptOf(r) /\ pc'[r] \in {"lookup", "revoke"} /\ number'[r] = number[r]
    BY <1>0, <2>1, GotoShape DEF Pcs
  <2> QED BY <1>0, <2>1, <2>2, FailingCounts, QuietStep DEF TypeOK, Resting
<1>3. ASSUME Lookup(r) PROVE Goal
  <2>1. /\ pc[r] = "lookup"
        /\ UNCHANGED <<github, token, overlapped, stray, delivered, counts>>
    BY <1>3 DEF Lookup, Delivering, At
  <2>2. CASE prs # <<>> /\ Len(prs) = 1 /\ Exact(prs[1])
    <3>1. /\ Goto(r, "save") /\ number' = [number EXCEPT ![r] = 1]
          /\ prs[1].author = "app" /\ 1 \in Numbers
      BY <1>0, <1>3, <2>2 DEF Lookup, Exact, Numbers, TypeOK
    <3>2. AttemptOf(r) /\ pc'[r] = "save" /\ number'[r] = 1 /\ token'[r] = token[r]
      BY <1>0, <2>1, <3>1 DEF Goto, AttemptOf, TypeOK, Pcs, github, Numbers
    <3> QED BY <1>0, <2>1, <3>1, <3>2, FailingCounts, QuietStep DEF github, counts, TypeOK, Resting
  <2>3. CASE ~(prs # <<>> /\ Len(prs) = 1 /\ Exact(prs[1]))
    <3>1. /\ \/ Goto(r, "create") /\ prs = <<>>
             \/ Goto(r, "revoke")
          /\ UNCHANGED number
      BY <1>3, <2>3 DEF Lookup, Throw
    <3>2. AttemptOf(r) /\ number'[r] = number[r] /\ token'[r] = token[r]
          /\ \/ pc'[r] = "create" /\ prs = <<>>
             \/ pc'[r] = "revoke"
      BY <1>0, <2>1, <3>1, GotoShape DEF Pcs, github
    <3> QED BY <1>0, <2>1, <3>2, FailingCounts, QuietStep DEF github, counts, TypeOK, Resting
  <2> QED BY <2>2, <2>3
<1> QED BY <1>1, <1>2, <1>3

LEMMA CreateStep == ASSUME OperationsInv, NEW r \in Runners, Create(r) PROVE OperationsInv'
<1>0. TypeOK /\ Counted /\ StrayTokensAreFailures /\ Named /\ Untouched /\ Alone
  BY DEF OperationsInv
<1>1. /\ pc[r] = "create"
      /\ UNCHANGED <<base, branch, token, overlapped, stray, delivered, interference>>
      /\ failures' \in {failures, failures + 1}
  BY FailingCounts DEF Create, Delivering, At, counts
<1>2. CASE ~Creatable
  <2>1. Goto(r, "revoke") /\ UNCHANGED <<prs, number, counts>>
    BY <1>2 DEF Create, Throw
  <2>2. AttemptOf(r) /\ pc'[r] = "revoke" /\ number'[r] = number[r]
    BY <1>0, <1>1, <2>1, GotoShape DEF Pcs
  <2> QED BY <1>0, <1>1, <2>1, <2>2, FailingCounts, QuietStep DEF TypeOK, Resting, counts
<1>3. CASE Creatable
  <2> DEFINE k == Len(prs) + 1
  <2>1. /\ prs' = NewPullRequest("app", TRUE) /\ number' = [number EXCEPT ![r] = k]
        /\ \E p \in {"view", "revoke"} : Goto(r, p)
    BY <1>3 DEF Create, Throw
  <2>2. Added("app")
    BY <1>0, <1>3, <2>1, AddedOne
  <2>3. Numbers = 1 .. Len(prs) /\ Numbers' = 1 .. k /\ Len(prs) \in Nat /\ Len(prs') = k
    BY <1>0, <2>2, NumbersAre DEF Added, PullRequestList, Numbers
  <2>4. AttemptOf(r) /\ pc'[r] \in {"view", "revoke"} /\ number'[r] = k
    BY <1>0, <1>1, <2>1, <2>3 DEF AttemptOf, Goto, Pcs, TypeOK
  <2> HIDE DEF k
  <2>5. TypeOK'
    BY <1>0, <1>1, <2>2, <2>3, <2>4 DEF TypeOK, Added, PullRequestList, AttemptOf
  <2>6. Counted' /\ StrayTokensAreFailures'
    BY <1>0, <1>1, <2>4, FailingCounts DEF Counted, StrayTokensAreFailures, AttemptOf
  <2>7. Named'
    BY <1>0, <1>1, <2>2, <2>3, <2>4 DEF Named, Added, AttemptOf, TypeOK, k
  <2>8. Untouched'
    <3> SUFFICES ASSUME interference = 0 PROVE Len(prs') <= 1 /\ \A n \in Numbers' : Open(prs'[n])
      BY <1>1 DEF Untouched
    <3>1. Len(prs) = 0
      <4>1. Numbers = {}
        BY <1>0, <1>3 DEF Untouched, Creatable, OpenOnes
      <4> QED BY <2>3, <4>1
    <3> QED BY <2>2, <2>3, <3>1 DEF Added, k
  <2>9. Alone'
    <3> SUFFICES ASSUME ~overlapped PROVE Alone'
      BY <1>1 DEF Alone
    <3>1. AppOnes = {}
      BY <1>0, <1>1 DEF Alone
    <3>2. AppOnes' = {k}
      BY <2>2, <2>3, <3>1 DEF AppOnes, Added, k
    <3>3. \A s \in Runners \ {r} : pc'[s] = "idle"
      BY <1>0, <1>1, <2>4 DEF Alone, AttemptOf
    <3>4. delivered = None
      BY <1>0, <1>1 DEF Alone, Resting
    <3> QED BY <1>0, <1>1, <2>4, <3>2, <3>3, <3>4 DEF Alone, Resting
  <2> QED BY <2>5, <2>6, <2>7, <2>8, <2>9 DEF OperationsInv
<1> QED BY <1>2, <1>3

LEMMA SaveStep == ASSUME OperationsInv, NEW r \in Runners, SaveResult(r) PROVE OperationsInv'
<1>0. TypeOK /\ Counted /\ StrayTokensAreFailures /\ Named /\ Untouched /\ Alone
  BY DEF OperationsInv
<1>1. /\ pc[r] = "save" /\ delivered' = number[r]
      /\ UNCHANGED <<github, token, number, overlapped, stray, counts>>
      /\ AttemptOf(r) /\ pc'[r] = "revoke"
  BY <1>0, GotoShape DEF SaveResult, At, Pcs, github
<1>2. TypeOK'
  BY <1>0, <1>1 DEF TypeOK, AttemptOf, github, Numbers
<1>3. Counted' /\ StrayTokensAreFailures' /\ Named' /\ Untouched'
  BY <1>0, <1>1 DEF Counted, Named, Untouched, StrayTokensAreFailures, AttemptOf, github,
                    counts, Numbers, Open
<1>4. Alone'
  <2> SUFFICES ASSUME ~overlapped PROVE Alone'
    BY <1>1 DEF Alone
  <2>1. AppOnes' = AppOnes
    BY <1>1 DEF AppOnes, Numbers, github
  <2>2. \A s \in Runners \ {r} : pc'[s] = "idle"
    BY <1>0, <1>1 DEF Alone, AttemptOf
  <2> QED BY <1>0, <1>1, <2>1, <2>2 DEF Alone, Resting
<1> QED BY <1>2, <1>3, <1>4 DEF OperationsInv

LEMMA EndStep ==
  ASSUME OperationsInv, NEW r \in Runners, Revoke(r) \/ Crash(r) PROVE OperationsInv'
<1>0. TypeOK
  BY DEF OperationsInv
<1>1. /\ Goto(r, "idle") /\ UNCHANGED <<github, delivered, overlapped, interference>>
      /\ token' = [token EXCEPT ![r] = "none"] /\ number' = [number EXCEPT ![r] = None]
      /\ pc[r] \notin {"idle", "acquire"}
      /\ \/ UNCHANGED <<stray, failures>>
         \/ stray' \in {stray, stray + 1} /\ failures' = failures + 1
  BY FailingCounts DEF Revoke, Crash, Abandon, At, counts
<1>2. AttemptOf(r) /\ pc'[r] = "idle" /\ token'[r] = "none" /\ number'[r] = None
  BY <1>0, <1>1, EndShape DEF github
<1> QED BY <1>0, <1>1, <1>2, FailingCounts, QuietStep DEF TypeOK, Resting, github

LEMMA ExpiryStep ==
  ASSUME OperationsInv, ExpireStray \/ \E r \in Runners : ExpireHeld(r) PROVE OperationsInv'
<1>0. TypeOK /\ Counted /\ StrayTokensAreFailures /\ Named /\ Untouched /\ Alone
  BY DEF OperationsInv
<1>1. /\ UNCHANGED <<github, pc, number, overlapped, delivered, interference>>
      /\ token' \in [Runners -> {"none", "live", "expired"}]
      /\ \A r \in Runners : token'[r] # "none" => token[r] # "none"
      /\ stray' \in Nat /\ stray' <= stray /\ failures' \in {failures, failures + 1}
  BY <1>0, FailingCounts DEF ExpireStray, ExpireHeld, attempts, counts, TypeOK
<1>2. AppOnes' = AppOnes
  BY <1>1 DEF AppOnes, Numbers, github
<1>3. TypeOK'
  BY <1>0, <1>1 DEF TypeOK, github, Numbers
<1>4. Counted' /\ StrayTokensAreFailures'
  BY <1>0, <1>1, FailingCounts DEF Counted, StrayTokensAreFailures
<1> QED BY <1>0, <1>1, <1>2, <1>3, <1>4
        DEF OperationsInv, Named, Untouched, Alone, github, Numbers, Open

-----------------------------------------------------------------------------
(* People *)

People ==
  \/ \E n \in Numbers : Close(n) \/ Reopen(n) \/ MarkReady(n) \/ Merge(n)
  \/ \E draft \in BOOLEAN : OpenOwn(draft)
  \/ MoveBase \/ PushOther \/ DeleteBranch

LEMMA PeopleChange ==
  ASSUME TypeOK, People
  PROVE  /\ SameAuthors \/ Added("person")
         /\ base' \in {"base", "moved"} /\ branch' \in {None, "candidate", "other"}
<1>1. base \in {"base", "moved"} /\ branch \in {None, "candidate", "other"}
  BY DEF TypeOK
<1>2. ASSUME NEW n \in Numbers, Close(n) \/ Reopen(n) \/ MarkReady(n) \/ Merge(n)
      PROVE  SameAuthors /\ UNCHANGED <<base, branch>>
  <2>1. PICK p \in PullRequest : Change(n, p) /\ p.author = prs[n].author
    <3>1. prs[n] \in PullRequest
      BY DEF TypeOK, Numbers
    <3>2. \A s \in {"OPEN", "CLOSED", "MERGED"} :
            /\ [prs[n] EXCEPT !.state = s] \in PullRequest
            /\ [prs[n] EXCEPT !.state = s].author = prs[n].author
      BY <3>1 DEF PullRequest
    <3>3. /\ [prs[n] EXCEPT !.draft = FALSE] \in PullRequest
          /\ [prs[n] EXCEPT !.draft = FALSE].author = prs[n].author
      BY <3>1 DEF PullRequest
    <3> QED BY <1>2, <3>2, <3>3 DEF Close, Reopen, MarkReady, Merge
  <2> QED BY <2>1, ChangedOne DEF Change
<1>3. ASSUME NEW draft \in BOOLEAN, OpenOwn(draft)
      PROVE  Added("person") /\ UNCHANGED <<base, branch>>
  BY <1>3, AddedOne DEF OpenOwn
<1>4. ASSUME MoveBase \/ DeleteBranch
      PROVE  SameAuthors /\ base' \in {base, "moved"} /\ branch' \in {branch, None}
  BY <1>4 DEF MoveBase, DeleteBranch, SameAuthors, PullRequestList, TypeOK, Numbers
<1>5. ASSUME PushOther PROVE SameAuthors /\ branch' = "other" /\ UNCHANGED base
  <2>1. prs \in [1 .. Len(prs) -> PullRequest] /\ Len(prs) \in Nat /\ Numbers = 1 .. Len(prs)
    BY DEF TypeOK, Numbers
  <2>2. \A n \in Numbers : /\ [prs[n] EXCEPT !.head = "other"] \in PullRequest
                           /\ [prs[n] EXCEPT !.head = "other"].author = prs[n].author
    BY <2>1 DEF PullRequest
  <2>3. prs' \in [1 .. Len(prs) -> PullRequest]
        /\ \A n \in Numbers : prs'[n].author = prs[n].author
    BY <1>5, <2>1, <2>2 DEF PushOther
  <2>4. prs' \in Seq(PullRequest) /\ Len(prs') = Len(prs)
    BY <2>1, <2>3, ListStep DEF TypeOK
  <2> QED BY <1>5, <2>3, <2>4 DEF PushOther, SameAuthors, PullRequestList, TypeOK
<1> QED BY <1>1, <1>2, <1>3, <1>4, <1>5 DEF People

LEMMA PeopleStep == ASSUME OperationsInv, People PROVE OperationsInv'
<1>0. TypeOK /\ Counted /\ StrayTokensAreFailures /\ Named /\ Untouched /\ Alone
  BY DEF OperationsInv
<1>1. UNCHANGED <<attempts, stray, delivered, failures>> /\ interference' = interference + 1
  BY DEF People, Close, Reopen, MarkReady, Merge, OpenOwn, MoveBase, PushOther, DeleteBranch,
         Change, Interfere
<1>2. /\ SameAuthors \/ Added("person")
      /\ base' \in {"base", "moved"} /\ branch' \in {None, "candidate", "other"}
  BY <1>0, PeopleChange
<1>3. /\ PullRequestList' /\ Numbers \subseteq Numbers'
      /\ \A n \in Numbers : prs'[n].author = prs[n].author
      /\ AppOnes' = AppOnes
  <2>1. Numbers = 1 .. Len(prs) /\ Len(prs) \in Nat
    BY <1>0, NumbersAre
  <2>2. CASE SameAuthors
    BY <2>1, <2>2 DEF SameAuthors, PullRequestList, Numbers, AppOnes
  <2>3. CASE Added("person")
    BY <2>1, <2>3 DEF Added, PullRequestList, Numbers, AppOnes
  <2> QED BY <1>2, <2>2, <2>3
<1>4. TypeOK'
  BY <1>0, <1>1, <1>2, <1>3 DEF TypeOK, attempts, PullRequestList
<1>5. Counted' /\ StrayTokensAreFailures' /\ Untouched'
  BY <1>0, <1>1 DEF Counted, StrayTokensAreFailures, Untouched, attempts
<1>6. Named'
  BY <1>0, <1>1, <1>3 DEF Named, attempts, TypeOK
<1>7. Alone'
  BY <1>0, <1>1, <1>3 DEF Alone, attempts
<1> QED BY <1>4, <1>5, <1>6, <1>7 DEF OperationsInv

-----------------------------------------------------------------------------
LEMMA OperationsInvInit == Init => OperationsInv
<1> SUFFICES ASSUME Init PROVE OperationsInv
  OBVIOUS
<1>1. prs = <<>> /\ Len(prs) = 0 /\ Numbers = {} /\ prs \in Seq(PullRequest)
  BY DEF Init, Numbers
<1>2. TypeOK
  <2>1. /\ number \in [Runners -> {None}] /\ pc \in [Runners -> Pcs]
        /\ token \in [Runners -> {"none", "live", "expired"}]
    BY DEF Init, Pcs
  <2>2. MaxPullRequests \in Nat
    BY OperationsAssumption
  <2>3. overlapped \in BOOLEAN /\ base \in {"base", "moved"}
        /\ branch \in {None, "candidate", "other"} /\ delivered \in Numbers \cup {None}
    BY DEF Init
  <2>4. stray \in Nat /\ number \in [Runners -> Numbers \cup {None}]
    BY <2>1 DEF Init
  <2> QED BY <1>1, <2>1, <2>2, <2>3, <2>4 DEF TypeOK
<1>3. Counted /\ StrayTokensAreFailures /\ Named
  BY DEF Init, Counted, StrayTokensAreFailures, Named
<1>4. Untouched
  BY <1>1 DEF Untouched
<1>5. Alone
  BY <1>1 DEF Init, Alone, AppOnes
<1> QED BY <1>2, <1>3, <1>4, <1>5 DEF OperationsInv

LEMMA OperationsInvStep == OperationsInv /\ [Next]_vars => OperationsInv'
<1> SUFFICES ASSUME OperationsInv, [Next]_vars PROVE OperationsInv'
  OBVIOUS
<1>1. CASE UNCHANGED vars
  BY <1>1 DEF vars, github, attempts, counts, OperationsInv, TypeOK, Counted, Numbers, Open,
              StrayTokensAreFailures, Named, Untouched, Alone, AppOnes
<1>2. CASE Next
  BY <1>2, BeginStep, AcquireStep, DeliveryStep, CreateStep, SaveStep, EndStep, ExpiryStep,
     PeopleStep DEF Next, Proceed, People
<1> QED BY <1>1, <1>2

LEMMA OperationsInvHolds == Spec => []OperationsInv
BY OperationsInvInit, OperationsInvStep, PTL DEF Spec

-----------------------------------------------------------------------------
(* Every variable keeps its type. *)
THEOREM OperationsTypeTheorem == Spec => []TypeOK
<1>1. OperationsInv => TypeOK
  BY DEF OperationsInv
<1> QED BY <1>1, OperationsInvHolds, PTL

(* One candidate gets one pull request of the App, however often its task  *)
(* is executed, unless attempts overlap and people interfere; and a result *)
(* names a pull request of the App.                                        *)
THEOREM OnePullRequestTheorem == Spec => []OnePullRequest
<1>1. OperationsInv => OnePullRequest
  <2> SUFFICES ASSUME OperationsInv PROVE OnePullRequest
    OBVIOUS
  <2>1. ASSUME ~overlapped \/ interference = 0 PROVE Cardinality(AppOnes) <= 1
    <3>1. \A m, n \in AppOnes : m = n
      <4>1. CASE ~overlapped
        BY <4>1 DEF OperationsInv, Alone
      <4>2. CASE interference = 0
        BY <4>2, NumbersAre DEF OperationsInv, Untouched, AppOnes
      <4> QED BY <2>1, <4>1, <4>2
    <3>2. AppOnes = {} \/ \E n : AppOnes = {n}
      BY <3>1
    <3>3. Cardinality({}) = 0 /\ \A n : Cardinality({n}) = 1
      BY FS_EmptySet, FS_Singleton
    <3>4. CASE AppOnes = {}
      BY <3>3, <3>4
    <3>5. CASE \E n : AppOnes = {n}
      <4>1. PICK n : AppOnes = {n}
        BY <3>5
      <4>2. Cardinality(AppOnes) = 1
        BY <3>3, <4>1
      <4> QED BY <4>2
    <3> QED BY <3>2, <3>4, <3>5
  <2> QED BY <2>1 DEF OnePullRequest, OperationsInv, Named, AppOnes
<1> QED BY <1>1, OperationsInvHolds, PTL

(* A token that stays alive without an owner is due to a failure.          *)
THEOREM StrayTokensTheorem == Spec => []StrayTokensAreFailures
<1>1. OperationsInv => StrayTokensAreFailures
  BY DEF OperationsInv
<1> QED BY <1>1, OperationsInvHolds, PTL

(* A saved result ends the deliveries: no later attempt changes it, pushes *)
(* or makes a pull request.                                                *)
THEOREM DeliveredOnceTheorem == Spec => DeliveredOnce
<1> DEFINE A == \A r \in Runners :
                  delivered # None /\ ~overlapped /\ pc[r] # pc'[r]
                    => delivered' = delivered /\ UNCHANGED github
<1>1. OperationsInv /\ [Next]_vars => [A]_vars
  <2> SUFFICES ASSUME OperationsInv, Next, NEW r \in Runners, delivered # None, ~overlapped,
                      pc[r] # pc'[r]
               PROVE  delivered' = delivered /\ UNCHANGED github
    OBVIOUS
  <2>1. \A s \in Runners : pc[s] \in Resting
    BY DEF OperationsInv, Alone
  <2>2. ASSUME UNCHANGED pc PROVE FALSE
    BY <2>2
  <2> QED BY <2>1, <2>2
          DEF Next, Proceed, Begin, Acquire, AcquireFails, Preflight, CheckBase, CheckTarget,
              View, Check, Push, Lookup, Create, SaveResult, CommandFails, Revoke, Crash,
              ExpireHeld, ExpireStray, Close, Reopen, MarkReady, Merge, OpenOwn, MoveBase,
              PushOther, DeleteBranch, Change, Interfere, Delivering, At, Resting, attempts
<1>2. Spec => [][A]_vars
  BY <1>1, OperationsInvHolds, PTL DEF Spec
<1> QED BY <1>2 DEF DeliveredOnce
=============================================================================
