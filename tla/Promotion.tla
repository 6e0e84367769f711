------------------------------ MODULE Promotion ------------------------------
(***************************************************************************)
(* From a draft pull request to an authorised merge: the collection of     *)
(* Remote Evidence (remote.ts) and the gated merge (promotion.ts), each a  *)
(* sequence of reads and writes of GitHub between which people and CI go   *)
(* on reviewing, pushing, re-running, closing and retargeting.             *)
(*                                                                         *)
(* GitHub is external: one pull request, its reviews and its check runs.   *)
(* A review is numbered by its place in the sequence of reviews, a         *)
(* successful check run by a counter, and a review body is the set of the  *)
(* marker lines it holds.  Digests, schemas and URL bindings are left out; *)
(* what a bundle proves of a head is whether the head carries one.         *)
(***************************************************************************)
EXTENDS Integers, Sequences, FiniteSets

CONSTANTS
  Heads,        \* head commits of the pull request
  Bundled,      \* the heads that carry a valid, attested Evidence Bundle
  Bases,        \* base commits
  WorkOrderBase,\* the one the Work Order resolves to
  Reviewers,    \* logins
  Approvers,    \* authorizedApprovers, of the work order and of the decision
  Author,       \* the delivery identity, author of the pull request
  Checks,       \* names of check runs
  Required,     \* the required ones
  Window,       \* how long a Merge Authorization is valid
  MaxTime, MaxReviews, MaxRuns, MaxChanges, MaxCalls,   \* bounds
  None

ASSUME PromotionAssumption ==
  /\ Bundled \subseteq Heads
  /\ WorkOrderBase \in Bases
  /\ Approvers \subseteq Reviewers
  /\ Author \in Reviewers
  /\ Required \subseteq Checks /\ Required # {}
  /\ Window \in Nat \ {0}
  /\ {MaxTime, MaxReviews, MaxRuns, MaxChanges, MaxCalls} \subseteq Nat

VARIABLES
  pr,          \* the pull request on GitHub
  check,       \* the latest run of each check on each head, 0 if no success
  runs,        \* successful runs so far
  reviews,     \* the reviews, in the order of their ids
  changes,     \* pushes, closures, retargetings and conversions so far
  clock,
  collector,   \* the process that collects Remote Evidence
  evidence,    \* the Remote Evidence documents written
  promoted,    \* the documents whose promotion was reported
  auth,        \* the Merge Authorization, once a human has issued one
  merger,      \* the process that executes the authorised merge
  merged       \* what was merged, and when the last gate passed

github == <<pr, check, runs, reviews, changes>>
collecting == <<collector, evidence, promoted>>
merging == <<auth, merger, merged>>
vars == <<github, clock, collecting, merging>>

-----------------------------------------------------------------------------
(* Data *)

PullRequest == [state : {"OPEN", "CLOSED", "MERGED"}, draft : BOOLEAN,
                head : Heads, base : Bases]
Review == [reviewer : Reviewers, state : {"APPROVED", "COMMENTED", "DISMISSED"},
           markers : SUBSET {"policy", "merge"}, commit : Heads, at : 0 .. MaxTime,
           dismissedAt : (0 .. MaxTime) \cup {None}]
Runs == [Checks -> 0 .. MaxRuns]
Evidence == [head : Heads, base : Bases, checks : Runs,
             approvals : SUBSET (1 .. MaxReviews), eligible : BOOLEAN, at : 0 .. MaxTime]
Authorization == [evidence : Evidence, head : Heads, base : Bases, issuedAt : 0 .. MaxTime]

ASSUME NoneAssumption ==
  None \notin Review \cup Evidence \cup Authorization \cup Heads \cup Bases \cup Runs

Succeeded(checks) == {c \in Checks : checks[c] # 0}

Without(S, x) == S \ {x}

-----------------------------------------------------------------------------
(* The approvals that count. *)

Ids == DOMAIN reviews

(* Mutation: an approval counts although its author reviewed again. *)
CountsForPolicyEver(i, head) ==
  /\ reviews[i].commit = head
  /\ reviews[i].reviewer \in Without(Approvers, Author)
  /\ reviews[i].state = "APPROVED" /\ "policy" \in reviews[i].markers

(* approvedPolicies: of each authorised reviewer the latest review on this *)
(* head, by id; it must approve and carry the policy's marker.             *)
CountsForPolicy(i, head) ==
  /\ reviews[i].commit = head
  /\ reviews[i].reviewer \in Without(Approvers, Author)
  /\ \A j \in Ids : /\ reviews[j].reviewer = reviews[i].reviewer
                    /\ reviews[j].commit = head
                    => j <= i
  /\ reviews[i].state = "APPROVED" /\ "policy" \in reviews[i].markers

(* The approval of the policy that is recorded: the last one, if any. *)
PolicyApproval(head) ==
  {i \in Ids : /\ CountsForPolicy(i, head)
              /\ \A j \in Ids : CountsForPolicy(j, head) => j <= i}

(* Mutation: an approval given before the authorisation counts. *)
CountsForMergeEver(i, a) ==
  /\ \A j \in Ids : reviews[j].reviewer = reviews[i].reviewer => j <= i
  /\ reviews[i].commit = a.head
  /\ reviews[i].reviewer \in Without(Approvers, Author)
  /\ reviews[i].state = "APPROVED" /\ "merge" \in reviews[i].markers

(* approvedReview: of each reviewer the latest review on any head, by time *)
(* and then by id; times never run against ids here.                       *)
CountsForMerge(i, a) ==
  /\ \A j \in Ids : reviews[j].reviewer = reviews[i].reviewer => j <= i
  /\ reviews[i].commit = a.head
  /\ reviews[i].reviewer \in Without(Approvers, Author)
  /\ reviews[i].state = "APPROVED" /\ "merge" \in reviews[i].markers
  /\ reviews[i].at >= a.issuedAt
  /\ reviews[i].at <= clock

(* assertAuthorizationWindow *)
InForce(a) == a.issuedAt <= clock /\ clock < a.issuedAt + Window

(* evaluateMergeGate on a snapshot taken now. *)
Gate(a) ==
  /\ InForce(a)
  /\ a.head = a.evidence.head /\ a.base = a.evidence.base
  /\ a.evidence.eligible
  /\ pr.state = "OPEN" /\ ~pr.draft /\ pr.head = a.head /\ pr.base = a.base
  /\ Succeeded(check[pr.head]) = Required
  /\ Succeeded(a.evidence.checks) = Required
  /\ \A c \in Required : check[pr.head][c] = a.evidence.checks[c]
  /\ \E i \in Ids : CountsForMerge(i, a)

-----------------------------------------------------------------------------
Idle == [pc |-> "idle", calls |-> 0, promote |-> FALSE, head |-> None, base |-> None,
         draft |-> FALSE, checks |-> None, approvals |-> {}, evidence |-> None, at |-> 0]

Init ==
  /\ \E h \in Heads, b \in Bases :
       pr = [state |-> "OPEN", draft |-> TRUE, head |-> h, base |-> b]
  /\ check = [h \in Heads |-> [c \in Checks |-> 0]]
  /\ runs = 0
  /\ reviews = <<>>
  /\ changes = 0
  /\ clock = 0
  /\ collector = Idle
  /\ evidence = {} /\ promoted = {}
  /\ auth = None
  /\ merger = [pc |-> "idle", gateAt |-> 0, calls |-> 0]
  /\ merged = None

-----------------------------------------------------------------------------
(* GitHub and the people and machines that use it. *)

Change(p) == /\ pr.state # "MERGED"
             /\ changes < MaxChanges
             /\ p # pr
             /\ pr' = p
             /\ changes' = changes + 1
             /\ UNCHANGED <<check, runs, reviews, clock, collecting, merging>>

Push      == \E h \in Heads : Change([pr EXCEPT !.head = h])
MoveBase  == \E b \in Bases : Change([pr EXCEPT !.base = b])
Redraft   == \E d \in BOOLEAN : Change([pr EXCEPT !.draft = d])
CloseOpen == \E s \in {"OPEN", "CLOSED"} : Change([pr EXCEPT !.state = s])

CheckSucceeds(c) ==
  /\ runs < MaxRuns
  /\ runs' = runs + 1
  /\ check' = [check EXCEPT ![pr.head][c] = runs + 1]
  /\ UNCHANGED <<pr, reviews, changes, clock, collecting, merging>>

(* A new run of the check is under way, or has failed. *)
CheckRestarts(c) ==
  /\ check[pr.head][c] # 0
  /\ check' = [check EXCEPT ![pr.head][c] = 0]
  /\ UNCHANGED <<pr, runs, reviews, changes, clock, collecting, merging>>

(* An approval that carries no marker counts as little as a comment.       *)
Submit(r, state, markers) ==
  /\ Len(reviews) < MaxReviews
  /\ state = "APPROVED" <=> markers # {}
  /\ reviews' = Append(reviews, [reviewer |-> r, state |-> state, markers |-> markers,
                                 commit |-> pr.head, at |-> clock, dismissedAt |-> None])
  /\ UNCHANGED <<pr, check, runs, changes, clock, collecting, merging>>

Dismiss(i) ==
  /\ reviews[i].state = "APPROVED"
  /\ reviews' = [reviews EXCEPT ![i].state = "DISMISSED", ![i].dismissedAt = clock]
  /\ UNCHANGED <<pr, check, runs, changes, clock, collecting, merging>>

Tick == /\ clock < MaxTime
        /\ clock' = clock + 1
        /\ UNCHANGED <<github, collecting, merging>>

-----------------------------------------------------------------------------
(* collectRemoteEvidence *)

At(pc) == collector.pc = pc
CollectorFails == collector' = [Idle EXCEPT !.calls = collector.calls]

(* Reads the pull request; a head without a bundle is refused, and so is a *)
(* base other than the one the Work Order and its bundle were made for.    *)
Collect(promote) ==
  /\ At("idle")
  /\ collector.calls < MaxCalls
  /\ pr.state = "OPEN" /\ pr.head \in Bundled /\ pr.base = WorkOrderBase
  /\ collector' = [Idle EXCEPT !.pc = "checks", !.calls = collector.calls + 1,
                               !.promote = promote, !.head = pr.head, !.base = pr.base,
                               !.draft = pr.draft, !.at = clock]
  /\ UNCHANGED <<github, clock, evidence, promoted, merging>>

(* Compares the files, verifies the attestation and reads the checks of    *)
(* the head it saw.  The file list is that of the pull request as it is    *)
(* now and need not match when another head was pushed.                    *)
ReadChecks ==
  /\ At("checks")
  /\ \/ collector' = [collector EXCEPT !.pc = "reviews", !.checks = check[collector.head]]
     \/ pr.head # collector.head /\ CollectorFails
  /\ UNCHANGED <<github, clock, evidence, promoted, merging>>

(* The first page of the reviews.  What counts of them is decided after    *)
(* the next read, but from this page alone.                                *)
ReadReviews ==
  /\ At("reviews")
  /\ collector' = [collector EXCEPT !.pc = "overflow",
                                    !.approvals = PolicyApproval(collector.head)]
  /\ UNCHANGED <<github, clock, evidence, promoted, merging>>

DraftEvidence ==
  [head |-> collector.head, base |-> collector.base, checks |-> collector.checks,
   approvals |-> collector.approvals,
   eligible |-> /\ Required \subseteq Succeeded(collector.checks)
                /\ collector.approvals # {},
   at |-> collector.at]

(* Reads the second page, which must be empty, and writes the document; a  *)
(* document that exists already is not written over.                       *)
WriteEvidence ==
  /\ At("overflow")
  /\ LET e == DraftEvidence
     IN \/ /\ evidence' = evidence \cup {e}
           /\ IF collector.promote /\ e \notin evidence /\ e.eligible /\ collector.draft
                THEN collector' = [collector EXCEPT !.pc = "reread", !.evidence = e]
                ELSE CollectorFails   \* it throws, or returns without promotion
        \/ CollectorFails /\ UNCHANGED evidence
  /\ UNCHANGED <<github, clock, promoted, merging>>

Unchanged(draft) ==
  /\ pr.state = "OPEN" /\ pr.draft = draft
  /\ pr.head = collector.head /\ pr.base = collector.base

Reread ==
  /\ At("reread")
  /\ IF Unchanged(TRUE) THEN collector' = [collector EXCEPT !.pc = "ready"]
                        ELSE CollectorFails
  /\ UNCHANGED <<github, clock, evidence, promoted, merging>>

MarkReady ==
  /\ At("ready")
  /\ IF pr.state = "OPEN"
       THEN /\ pr' = [pr EXCEPT !.draft = FALSE]
            /\ \/ collector' = [collector EXCEPT !.pc = "confirm"]
               \/ CollectorFails                      \* the answer is lost
       ELSE CollectorFails /\ UNCHANGED pr
  /\ UNCHANGED <<check, runs, reviews, changes, clock, evidence, promoted, merging>>

(* Mutation: the answer of `gh pr ready' is taken for the confirmation. *)
ConfirmBlindly ==
  /\ At("confirm")
  /\ promoted' = promoted \cup {collector.evidence}
  /\ CollectorFails
  /\ UNCHANGED <<github, clock, evidence, merging>>

Confirm ==
  /\ At("confirm")
  /\ promoted' = promoted \cup (IF Unchanged(FALSE) THEN {collector.evidence} ELSE {})
  /\ CollectorFails
  /\ UNCHANGED <<github, clock, evidence, merging>>

-----------------------------------------------------------------------------
(* executeAuthorizedMerge *)

(* A human issues the authorisation; what it names need not match.         *)
Authorize(e, h, b) ==
  /\ auth = None
  /\ auth' = [evidence |-> e, head |-> h, base |-> b, issuedAt |-> clock]
  /\ UNCHANGED <<github, clock, collecting, merger, merged>>

MergerAt(pc) == auth # None /\ merger.pc = pc
MergerTo(pc) == merger' = [merger EXCEPT !.pc = pc]

FirstGate ==
  /\ MergerAt("idle")
  /\ merger.calls < MaxCalls
  /\ Gate(auth)
  /\ merger' = [merger EXCEPT !.pc = "acquire", !.calls = @ + 1]
  /\ UNCHANGED <<github, clock, collecting, auth, merged>>

(* The lease is checked inside the try: one that is refused is revoked.    *)
Acquire ==
  /\ MergerAt("acquire")
  /\ MergerTo("second") \/ MergerTo("revoke") \/ MergerTo("idle")
  /\ UNCHANGED <<github, clock, collecting, auth, merged>>

SecondGate ==
  /\ MergerAt("second")
  /\ IF Gate(auth) THEN merger' = [merger EXCEPT !.pc = "merge", !.gateAt = clock]
                   ELSE MergerTo("revoke")
  /\ UNCHANGED <<github, clock, collecting, auth, merged>>

(* GitHub merges an open pull request that is no draft and has the head    *)
(* the call expects; otherwise, and when the lease has expired by then,    *)
(* the call throws.  Its answer may be lost.                               *)
Merge ==
  /\ MergerAt("merge")
  /\ \/ /\ pr.state = "OPEN" /\ ~pr.draft /\ pr.head = auth.head
        /\ pr' = [pr EXCEPT !.state = "MERGED"]
        /\ merged' = [auth |-> auth, head |-> pr.head, gateAt |-> merger.gateAt]
     \/ UNCHANGED <<pr, merged>>
  /\ MergerTo("revoke")
  /\ UNCHANGED <<check, runs, reviews, changes, clock, collecting, auth>>

(* The finally block; a revocation that fails hides the result. *)
Revoke ==
  /\ MergerAt("revoke")
  /\ MergerTo("idle")
  /\ UNCHANGED <<github, clock, collecting, auth, merged>>

CrashMerger ==
  /\ merger.pc \in {"second", "merge", "revoke"}
  /\ MergerTo("idle")
  /\ UNCHANGED <<github, clock, collecting, auth, merged>>

Next ==
  \/ Push \/ MoveBase \/ Redraft \/ CloseOpen \/ Tick
  \/ \E c \in Checks : CheckSucceeds(c) \/ CheckRestarts(c)
  \/ \E r \in Reviewers, s \in {"APPROVED", "COMMENTED"}, m \in SUBSET {"policy", "merge"} :
       Submit(r, s, m)
  \/ \E i \in Ids : Dismiss(i)
  \/ \E promote \in BOOLEAN : Collect(promote)
  \/ ReadChecks \/ ReadReviews \/ WriteEvidence \/ Reread \/ MarkReady \/ Confirm
  \/ \E e \in evidence, h \in Heads, b \in Bases : Authorize(e, h, b)
  \/ FirstGate \/ Acquire \/ SecondGate \/ Merge \/ Revoke \/ CrashMerger

Spec == Init /\ [][Next]_vars

-----------------------------------------------------------------------------
(* Properties *)

(* Every variable has its type. *)
TypeOK ==
  /\ pr \in PullRequest
  /\ check \in [Heads -> Runs] /\ runs \in 0 .. MaxRuns
  /\ reviews \in Seq(Review) /\ Len(reviews) <= MaxReviews
  /\ changes \in 0 .. MaxChanges /\ clock \in 0 .. MaxTime
  /\ collector.pc \in {"idle", "checks", "reviews", "overflow", "reread", "ready", "confirm"}
  /\ evidence \subseteq Evidence /\ promoted \subseteq evidence
  /\ auth \in Authorization \cup {None}
  /\ merger.pc \in {"idle", "acquire", "second", "merge", "revoke"}
  /\ merged # None => merged.auth = auth /\ merged.head \in Heads

(* The review stood when the last gate was passed: it had not been         *)
(* dismissed by then, and its author had not reviewed again.               *)
StoodAt(i, t) ==
  /\ \/ reviews[i].state = "APPROVED"
     \/ reviews[i].state = "DISMISSED" /\ reviews[i].dismissedAt >= t
  /\ \A j \in Ids : reviews[j].reviewer = reviews[i].reviewer /\ j > i
                      => reviews[j].at >= t

(* What was merged is what was decided, whatever people and CI did between *)
(* the steps: the head is the one of the authorisation and of an eligible  *)
(* document, the gate was passed while the authorisation was in force, and *)
(* an authorised human other than the author approved that head with the   *)
(* merge marker after the authorisation was issued and stood by it.        *)
MergeIsDecided ==
  merged # None =>
    LET a == merged.auth  t == merged.gateAt
    IN /\ merged.head = a.head /\ a.head = a.evidence.head
       /\ a.evidence \in evidence /\ a.evidence.eligible
       /\ Required \subseteq Succeeded(a.evidence.checks)
       /\ a.issuedAt <= t /\ t < a.issuedAt + Window
       /\ \E i \in Ids : /\ reviews[i].reviewer \in Without(Approvers, Author)
                         /\ "merge" \in reviews[i].markers /\ reviews[i].commit = a.head
                         /\ reviews[i].at \in a.issuedAt .. t
                         /\ StoodAt(i, t)

(* An approval of one head is withdrawn by a dismissal, or by another      *)
(* review of that head by the same person.                                 *)
NotWithdrawnBefore(i, t) ==
  /\ \/ reviews[i].state = "APPROVED"
     \/ reviews[i].state = "DISMISSED" /\ reviews[i].dismissedAt >= t
  /\ \A j \in Ids : /\ reviews[j].reviewer = reviews[i].reviewer
                    /\ reviews[j].commit = reviews[i].commit
                    /\ j > i
                    => reviews[j].at >= t

ApprovesSince(i, head, t) ==
  /\ i \in Ids
  /\ reviews[i].commit = head
  /\ reviews[i].reviewer \in Without(Approvers, Author)
  /\ "policy" \in reviews[i].markers
  /\ NotWithdrawnBefore(i, t)

(* Every document ever written, while pushes, reviews and dismissals go on *)
(* between the reads of its collection and after it: an eligible one names *)
(* an approval, and what it names approves the very head the document      *)
(* names, by an authorised human who is not the author, and was not        *)
(* withdrawn before the time at which the document says it was collected.  *)
EvidenceApprovalStands ==
  \A e \in evidence :
    /\ e.eligible => e.approvals # {}
    /\ \A i \in e.approvals : ApprovesSince(i, e.head, e.at)

(* A promotion is reported only of a pull request that is open, ready, and *)
(* still has the head and base that the eligible document names.           *)
PromotedIsEvidenced ==
  [][\A e \in promoted' \ promoted :
       /\ e.eligible
       /\ pr.state = "OPEN" /\ ~pr.draft /\ pr.head = e.head /\ pr.base = e.base]_vars

=============================================================================
