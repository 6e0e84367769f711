--------------------------- MODULE PromotionProofs ---------------------------
(***************************************************************************)
(* What Promotion promises for any people, heads, checks and bounds.       *)
(*                                                                         *)
(* The invariant PromotionInv says what the two processes know across the  *)
(* steps of others.  The collector, once it has written an eligible        *)
(* document, still holds the head and base that the document names, and    *)
(* what it has read of the reviews was so when it began or later (Backed); *)
(* the merger, once the last gate has let it pass, holds a decision that was   *)
(* in force then (Decided), and nothing that people do to the reviews      *)
(* afterwards undoes that: reviews are added and dismissed, and each time  *)
(* that is recorded is no earlier than the gate.                           *)
(***************************************************************************)
EXTENDS Promotion, TLAPS

-----------------------------------------------------------------------------
CollectorSteps == {"idle", "checks", "reviews", "overflow", "reread", "ready", "confirm"}

Collector == [pc : CollectorSteps, calls : 0 .. MaxCalls, promote : BOOLEAN,
              head : Heads \cup {None}, base : Bases \cup {None}, draft : BOOLEAN,
              checks : Runs \cup {None}, approvals : SUBSET (1 .. MaxReviews),
              evidence : Evidence \cup {None}, at : 0 .. MaxTime]

Merger == [pc : {"idle", "acquire", "second", "merge", "revoke"},
           gateAt : 0 .. MaxTime, calls : 0 .. MaxCalls]

GitHubTypes ==
  /\ pr \in PullRequest
  /\ check \in [Heads -> Runs] /\ runs \in 0 .. MaxRuns
  /\ reviews \in Seq(Review) /\ Len(reviews) <= MaxReviews
  /\ changes \in 0 .. MaxChanges /\ clock \in 0 .. MaxTime

(* What the collector holds at each of its steps. *)
Collecting ==
  /\ collector \in Collector
  /\ collector.pc # "idle" => collector.head \in Heads /\ collector.base \in Bases
  /\ collector.pc \in {"reviews", "overflow"} => collector.checks \in Runs
  /\ collector.pc \in {"reread", "ready", "confirm"} =>
       /\ collector.evidence \in evidence /\ collector.evidence.eligible
       /\ collector.evidence.head = collector.head
       /\ collector.evidence.base = collector.base

(* The decision behind the authorisation a, as the gate at t saw it. *)
Approved(a, t) ==
  \E i \in Ids : /\ reviews[i].reviewer \in Without(Approvers, Author)
                 /\ "merge" \in reviews[i].markers /\ reviews[i].commit = a.head
                 /\ reviews[i].at \in a.issuedAt .. t
                 /\ StoodAt(i, t)

Decided(a, t) ==
  /\ t <= clock
  /\ a.head = a.evidence.head /\ a.evidence.eligible
  /\ Required \subseteq Succeeded(a.evidence.checks)
  /\ a.issuedAt <= t /\ t < a.issuedAt + Window
  /\ Approved(a, t)

Merging ==
  /\ auth \in Authorization \cup {None}
  /\ auth # None => auth.evidence \in evidence
  /\ merger \in Merger
  /\ merger.pc = "merge" => auth # None /\ Decided(auth, merger.gateAt)
  /\ merged # None => /\ auth # None /\ merged.auth = auth
                      /\ merged.head \in Heads /\ merged.head = auth.head
                      /\ merged.gateAt \in 0 .. MaxTime /\ Decided(auth, merged.gateAt)

Documents == evidence \subseteq Evidence /\ promoted \subseteq evidence

(* What documents, and the collector on its way to one, say of approvals. *)
Backed ==
  /\ collector.at <= clock
  /\ collector.pc = "overflow" =>
       \A i \in collector.approvals : ApprovesSince(i, collector.head, collector.at)
  /\ \A e \in evidence :
       /\ e.at <= clock
       /\ e.eligible => e.approvals # {}
       /\ \A i \in e.approvals : ApprovesSince(i, e.head, e.at)

PromotionInv == GitHubTypes /\ Documents /\ Collecting /\ Merging /\ Backed

-----------------------------------------------------------------------------
(* The actions of the people and machines, of the collector, of the merger *)
People ==
  \/ Push \/ MoveBase \/ Redraft \/ CloseOpen \/ Tick
  \/ \E c \in Checks : CheckSucceeds(c) \/ CheckRestarts(c)
  \/ \E r \in Reviewers, s \in {"APPROVED", "COMMENTED"}, m \in SUBSET {"policy", "merge"} :
       Submit(r, s, m)
  \/ \E i \in Ids : Dismiss(i)

Collects ==
  \/ \E promote \in BOOLEAN : Collect(promote)
  \/ ReadChecks \/ ReadReviews \/ WriteEvidence \/ Reread \/ MarkReady \/ Confirm

Decides ==
  \/ \E e \in evidence, h \in Heads, b \in Bases : Authorize(e, h, b)
  \/ FirstGate \/ Acquire \/ SecondGate \/ Merge \/ Revoke \/ CrashMerger

LEMMA Actors == Next => People \/ Collects \/ Decides
BY DEF Next, People, Collects, Decides

LEMMA Bounds ==
  /\ Window \in Nat \ {0} /\ MaxTime \in Nat /\ MaxReviews \in Nat /\ MaxRuns \in Nat
  /\ MaxChanges \in Nat /\ MaxCalls \in Nat
BY PromotionAssumption

LEMMA InitPromotion == Init => PromotionInv
<1> SUFFICES ASSUME Init PROVE PromotionInv
  OBVIOUS
<1>1. PICK h \in Heads, b \in Bases :
        pr = [state |-> "OPEN", draft |-> TRUE, head |-> h, base |-> b]
  BY DEF Init
<1>2. pr \in PullRequest
  <2> DEFINE on == TRUE
  <2>1. on \in BOOLEAN
    BY Zenon
  <2>2. pr = [state |-> "OPEN", draft |-> on, head |-> h, base |-> b]
    BY <1>1
  <2> HIDE DEF on
  <2> QED BY <2>1, <2>2 DEF PullRequest
<1>3. GitHubTypes
  BY <1>2, Bounds DEF Init, GitHubTypes, Runs
<1>4. Collecting
  <2> DEFINE off == FALSE
  <2>1. off \in BOOLEAN
    BY Zenon
  <2>2. collector = [pc |-> "idle", calls |-> 0, promote |-> off, head |-> None, base |-> None,
                     draft |-> off, checks |-> None, approvals |-> {}, evidence |-> None,
                     at |-> 0]
    BY DEF Init, Idle
  <2> HIDE DEF off
  <2>3. collector \in Collector /\ collector.pc = "idle"
    BY <2>1, <2>2, Bounds DEF Collector, CollectorSteps
  <2> QED BY <2>3 DEF Collecting
<1>5. Merging /\ Documents
  BY Bounds DEF Init, Merging, Merger, Documents
<1>6. Backed
  BY DEF Init, Idle, Backed
<1> QED BY <1>3, <1>4, <1>5, <1>6 DEF PromotionInv

-----------------------------------------------------------------------------
(* Reviews are added, and dismissed *)

(* What a step may do to the reviews. *)
ReviewsGrow ==
  /\ Len(reviews) <= Len(reviews')
  /\ \A i \in Ids : /\ reviews'[i].reviewer = reviews[i].reviewer
                    /\ reviews'[i].markers = reviews[i].markers
                    /\ reviews'[i].commit = reviews[i].commit
                    /\ reviews'[i].at = reviews[i].at
                    /\ \/ /\ reviews'[i].state = reviews[i].state
                          /\ reviews'[i].dismissedAt = reviews[i].dismissedAt
                       \/ /\ reviews[i].state = "APPROVED"
                          /\ reviews'[i].state = "DISMISSED" /\ reviews'[i].dismissedAt = clock
  /\ \A j \in DOMAIN reviews' \ Ids : reviews'[j].at = clock
  /\ reviews' \in Seq(Review) /\ clock' >= clock

LEMMA SubmitGrows ==
  ASSUME GitHubTypes, NEW r \in Reviewers, NEW s \in {"APPROVED", "COMMENTED"},
         NEW m \in SUBSET {"policy", "merge"}, Submit(r, s, m)
  PROVE  ReviewsGrow /\ Len(reviews') <= MaxReviews
<1> DEFINE new == [reviewer |-> r, state |-> s, markers |-> m, commit |-> pr.head,
                   at |-> clock, dismissedAt |-> None]
<1>1. new \in Review /\ new.at = clock
  BY DEF GitHubTypes, PullRequest, Review
<1>2. reviews' = Append(reviews, new) /\ Len(reviews) < MaxReviews /\ clock' = clock
  BY DEF Submit
<1> HIDE DEF new
<1>3. reviews \in Seq(Review) /\ clock \in Nat
  BY Bounds DEF GitHubTypes
<1>4. /\ reviews' \in Seq(Review) /\ Len(reviews') = Len(reviews) + 1
      /\ \A i \in Ids : reviews'[i] = reviews[i]
      /\ DOMAIN reviews' \ Ids = {Len(reviews) + 1} /\ reviews'[Len(reviews) + 1] = new
  BY <1>1, <1>2, <1>3 DEF Ids
<1>5. \A j \in DOMAIN reviews' \ Ids : reviews'[j].at = clock
  BY <1>1, <1>4
<1>6. Len(reviews) <= Len(reviews') /\ Len(reviews') <= MaxReviews /\ clock' >= clock
  BY <1>2, <1>3, <1>4, Bounds
<1> QED BY <1>4, <1>5, <1>6 DEF ReviewsGrow

LEMMA DismissGrows ==
  ASSUME GitHubTypes, NEW i \in Ids, Dismiss(i)
  PROVE  ReviewsGrow /\ Len(reviews') <= MaxReviews
<1>1. reviews \in Seq(Review) /\ clock \in Nat /\ i \in DOMAIN reviews /\ Len(reviews) <= MaxReviews
  BY Bounds DEF GitHubTypes, Ids
<1> DEFINE old == reviews[i]
           new == [old EXCEPT !.state = "DISMISSED", !.dismissedAt = clock]
<1>2. old \in Review
  BY <1>1
<1>3. /\ reviews' = [reviews EXCEPT ![i] = new] /\ old.state = "APPROVED"
      /\ clock' = clock
  BY <1>1, <1>2 DEF Dismiss, Review
<1> HIDE DEF old
<1>4. /\ new \in Review /\ new.reviewer = old.reviewer /\ new.markers = old.markers
      /\ new.commit = old.commit /\ new.at = old.at
      /\ new.state = "DISMISSED" /\ new.dismissedAt = clock
  BY <1>2 DEF GitHubTypes, Review
<1> HIDE DEF new
<1>5. /\ reviews' \in Seq(Review) /\ Len(reviews') = Len(reviews)
      /\ reviews'[i] = new /\ \A j \in Ids \ {i} : reviews'[j] = reviews[j]
      /\ DOMAIN reviews' = Ids
  BY <1>1, <1>3, <1>4 DEF Ids
<1> QED BY <1>1, <1>3, <1>4, <1>5 DEF ReviewsGrow, old

LEMMA SameReviewsGrow ==
  ASSUME GitHubTypes, UNCHANGED reviews, clock' >= clock PROVE ReviewsGrow
BY DEF GitHubTypes, ReviewsGrow, Ids

(* A decision stands whatever is done to the reviews later. *)
LEMMA DecisionStands ==
  ASSUME GitHubTypes, ReviewsGrow, clock' \in Nat,
         NEW a \in Authorization, NEW t \in 0 .. MaxTime, Decided(a, t)
  PROVE  Decided(a, t)'
<1>1. t \in Nat /\ clock \in Nat /\ t <= clock /\ t <= clock'
  BY Bounds DEF Decided, GitHubTypes, ReviewsGrow
<1>2. PICK i \in Ids : /\ reviews[i].reviewer \in Without(Approvers, Author)
                       /\ "merge" \in reviews[i].markers /\ reviews[i].commit = a.head
                       /\ reviews[i].at \in a.issuedAt .. t
                       /\ StoodAt(i, t)
  BY DEF Decided, Approved
<1>3. i \in DOMAIN reviews' /\ Ids \subseteq DOMAIN reviews'
  BY DEF ReviewsGrow, GitHubTypes, Ids
<1>4. /\ reviews'[i].reviewer = reviews[i].reviewer /\ reviews'[i].markers = reviews[i].markers
      /\ reviews'[i].commit = reviews[i].commit /\ reviews'[i].at = reviews[i].at
  BY DEF ReviewsGrow
<1>5. \/ reviews'[i].state = "APPROVED"
      \/ reviews'[i].state = "DISMISSED" /\ reviews'[i].dismissedAt >= t
  BY <1>1, <1>2 DEF ReviewsGrow, StoodAt
<1>6. ASSUME NEW j \in DOMAIN reviews', reviews'[j].reviewer = reviews'[i].reviewer, j > i
      PROVE  reviews'[j].at >= t
  <2>1. CASE j \in Ids
    BY <1>2, <1>4, <1>6, <2>1 DEF ReviewsGrow, StoodAt
  <2>2. CASE j \notin Ids
    BY <1>1, <2>2 DEF ReviewsGrow
  <2> QED BY <2>1, <2>2
<1>7. Approved(a, t)'
  BY <1>2, <1>3, <1>4, <1>5, <1>6 DEF Approved, StoodAt, Ids
<1> QED BY <1>1, <1>7 DEF Decided

-----------------------------------------------------------------------------
(* The people and machines *)

LEMMA PeopleStep ==
  ASSUME GitHubTypes, People
  PROVE  GitHubTypes' /\ ReviewsGrow /\ UNCHANGED <<collecting, merging>>
<1>1. clock \in Nat /\ runs \in Nat /\ changes \in Nat
  BY Bounds DEF GitHubTypes
<1>2. CASE Push \/ MoveBase \/ Redraft \/ CloseOpen
  <2>1. PICK p : Change(p) /\ p \in PullRequest
    <3>1. CASE Push
      BY <3>1 DEF Push, GitHubTypes, PullRequest
    <3>2. CASE MoveBase
      BY <3>2 DEF MoveBase, GitHubTypes, PullRequest
    <3>3. CASE Redraft
      BY <3>3 DEF Redraft, GitHubTypes, PullRequest
    <3>4. CASE CloseOpen
      BY <3>4 DEF CloseOpen, GitHubTypes, PullRequest
    <3> QED BY <1>2, <3>1, <3>2, <3>3, <3>4
  <2> QED BY <1>1, <2>1, Bounds, SameReviewsGrow DEF Change, GitHubTypes
<1>3. CASE Tick
  BY <1>1, <1>3, Bounds, SameReviewsGrow DEF Tick, github, GitHubTypes
<1>4. ASSUME NEW c \in Checks, CheckSucceeds(c) \/ CheckRestarts(c)
      PROVE  GitHubTypes' /\ ReviewsGrow /\ UNCHANGED <<collecting, merging>>
  <2>1. ReviewsGrow /\ UNCHANGED <<pr, reviews, changes, clock, collecting, merging>>
    BY <1>1, <1>4, SameReviewsGrow DEF CheckSucceeds, CheckRestarts
  <2>2. runs' \in 0 .. MaxRuns
    BY <1>1, <1>4, Bounds DEF CheckSucceeds, CheckRestarts, GitHubTypes
  <2>3. PICK n \in 0 .. MaxRuns : check' = [check EXCEPT ![pr.head][c] = n]
    <3>1. CASE CheckSucceeds(c)
      <4>1. runs + 1 \in 0 .. MaxRuns /\ check' = [check EXCEPT ![pr.head][c] = runs + 1]
        BY <1>1, <3>1, Bounds DEF CheckSucceeds
      <4> QED BY <4>1, Zenon
    <3>2. CASE CheckRestarts(c)
      <4>1. 0 \in 0 .. MaxRuns /\ check' = [check EXCEPT ![pr.head][c] = 0]
        BY <3>2, Bounds DEF CheckRestarts
      <4> QED BY <4>1, Zenon
    <3> QED BY <1>4, <3>1, <3>2
  <2>4. check' \in [Heads -> Runs]
    BY <2>3 DEF GitHubTypes, Runs
  <2> QED BY <2>1, <2>2, <2>4 DEF GitHubTypes
<1>5. ASSUME NEW r \in Reviewers, NEW s \in {"APPROVED", "COMMENTED"},
             NEW m \in SUBSET {"policy", "merge"}, Submit(r, s, m)
      PROVE  GitHubTypes' /\ ReviewsGrow /\ UNCHANGED <<collecting, merging>>
  BY <1>5, SubmitGrows DEF Submit, GitHubTypes, ReviewsGrow
<1>6. ASSUME NEW i \in Ids, Dismiss(i)
      PROVE  GitHubTypes' /\ ReviewsGrow /\ UNCHANGED <<collecting, merging>>
  BY <1>6, DismissGrows DEF Dismiss, GitHubTypes, ReviewsGrow
<1> QED BY <1>2, <1>3, <1>4, <1>5, <1>6 DEF People

-----------------------------------------------------------------------------
(* The collector *)

(* GitHub and the merger as the collector leaves them. *)
LEMMA OnlyReady ==
  ASSUME GitHubTypes, Collects
  PROVE  GitHubTypes' /\ ReviewsGrow /\ UNCHANGED <<clock, merging>> /\ evidence \subseteq evidence'
<1>1. UNCHANGED <<check, runs, reviews, changes, clock, merging>>
  BY DEF Collects, Collect, ReadChecks, ReadReviews, WriteEvidence, Reread, MarkReady, Confirm, github
<1>2. evidence \subseteq evidence'
  BY DEF Collects, Collect, ReadChecks, ReadReviews, WriteEvidence, Reread, MarkReady, Confirm
<1>3. pr' \in PullRequest
  <2>1. CASE UNCHANGED pr
    BY <2>1 DEF GitHubTypes
  <2>2. CASE pr' = [pr EXCEPT !.draft = FALSE]
    BY <2>2 DEF GitHubTypes, PullRequest
  <2> QED BY <2>1, <2>2 DEF Collects, Collect, ReadChecks, ReadReviews, WriteEvidence, Reread, MarkReady,
            Confirm, github
<1>4. ReviewsGrow
  BY <1>1, SameReviewsGrow, Bounds DEF GitHubTypes
<1> QED BY <1>1, <1>2, <1>3, <1>4 DEF GitHubTypes

LEMMA FailsIdle ==
  ASSUME collector \in Collector, CollectorFails
  PROVE  collector' \in Collector /\ collector'.pc = "idle"
<1> DEFINE off == FALSE
<1>1. off \in BOOLEAN
  BY Zenon
<1>2. collector' = [pc |-> "idle", calls |-> collector.calls, promote |-> off, head |-> None,
                    base |-> None, draft |-> off, checks |-> None, approvals |-> {},
                    evidence |-> None, at |-> 0]
  BY DEF CollectorFails, Idle
<1> HIDE DEF off
<1> QED BY <1>1, <1>2, Bounds DEF Collector, CollectorSteps

LEMMA DraftIsEvidence ==
  ASSUME GitHubTypes, Collecting, collector.pc = "overflow"
  PROVE  /\ DraftEvidence \in Evidence
         /\ DraftEvidence.head = collector.head /\ DraftEvidence.base = collector.base
         /\ DraftEvidence.approvals = collector.approvals /\ DraftEvidence.at = collector.at
         /\ DraftEvidence.eligible => collector.approvals # {}
<1> DEFINE eligible == /\ Required \subseteq Succeeded(collector.checks)
                       /\ collector.approvals # {}
<1>1. eligible \in BOOLEAN /\ (eligible => collector.approvals # {})
  BY Zenon
<1>2. DraftEvidence = [head |-> collector.head, base |-> collector.base,
                       checks |-> collector.checks, approvals |-> collector.approvals,
                       eligible |-> eligible, at |-> collector.at]
  BY DEF DraftEvidence
<1> HIDE DEF eligible
<1>3. /\ collector.head \in Heads /\ collector.base \in Bases /\ collector.checks \in Runs
      /\ collector.at \in 0 .. MaxTime /\ collector.approvals \in SUBSET (1 .. MaxReviews)
  BY DEF Collecting, Collector
<1>4. DraftEvidence \in Evidence /\ DraftEvidence.eligible = eligible
  BY <1>1, <1>2, <1>3 DEF Evidence
<1> QED BY <1>1, <1>2, <1>4

LEMMA CollectorStep ==
  ASSUME GitHubTypes, Documents, Collecting, Collects
  PROVE  Documents' /\ Collecting'
<1> USE DEF CollectorSteps
<1>1. collector \in Collector
  BY DEF Collecting
<1>2. ASSUME CollectorFails PROVE Collecting'
  BY <1>1, <1>2, FailsIdle DEF Collecting
<1>3. ASSUME NEW promote \in BOOLEAN, Collect(promote) PROVE Documents' /\ Collecting'
  <2>1. /\ collector.calls < MaxCalls /\ UNCHANGED <<evidence, promoted>>
        /\ collector' = [pc |-> "checks", calls |-> collector.calls + 1, promote |-> promote,
                         head |-> pr.head, base |-> pr.base, draft |-> pr.draft,
                         checks |-> None, approvals |-> {}, evidence |-> None, at |-> clock]
    BY <1>3 DEF Collect, Idle
  <2>2. /\ pr.head \in Heads /\ pr.base \in Bases /\ pr.draft \in BOOLEAN
        /\ clock \in 0 .. MaxTime /\ collector.calls + 1 \in 0 .. MaxCalls
    BY <1>1, <2>1, Bounds DEF GitHubTypes, PullRequest, Collector
  <2>3. /\ collector' \in Collector /\ collector'.pc = "checks"
        /\ collector'.head \in Heads /\ collector'.base \in Bases
    BY <2>1, <2>2 DEF Collector
  <2> QED BY <2>1, <2>3 DEF Collecting, Documents
<1>4. ASSUME NEW pc \in CollectorSteps, collector' = [collector EXCEPT !.pc = pc],
             collector.pc # "idle", pc \notin {"reviews", "overflow"},
             pc \in {"ready", "confirm"} => collector.pc \in {"reread", "ready"},
             pc # "reread", UNCHANGED evidence
      PROVE  Collecting'
  <2>1. /\ collector' \in Collector /\ collector'.pc = pc /\ collector'.head = collector.head
        /\ collector'.base = collector.base /\ collector'.evidence = collector.evidence
    BY <1>1, <1>4 DEF Collector
  <2> QED BY <1>4, <2>1 DEF Collecting
<1>5. CASE ReadChecks
  <2>1. /\ collector.pc = "checks" /\ collector.head \in Heads /\ collector.base \in Bases
        /\ check[collector.head] \in Runs /\ UNCHANGED <<evidence, promoted>>
    BY <1>5 DEF ReadChecks, At, Collecting, GitHubTypes
  <2>2. CASE collector' = [collector EXCEPT !.pc = "reviews", !.checks = check[collector.head]]
    <3>1. /\ collector' \in Collector /\ collector'.pc = "reviews"
          /\ collector'.head = collector.head /\ collector'.base = collector.base
          /\ collector'.checks \in Runs
      BY <1>1, <2>1, <2>2 DEF Collector
    <3> QED BY <2>1, <3>1 DEF Collecting, Documents
  <2> QED BY <1>2, <1>5, <2>1, <2>2 DEF ReadChecks, Documents
<1>9. CASE ReadReviews
  <2> DEFINE approvals == PolicyApproval(collector.head)
  <2>1. /\ collector.pc = "reviews" /\ collector.head \in Heads /\ collector.base \in Bases
        /\ collector.checks \in Runs /\ UNCHANGED <<evidence, promoted>>
        /\ collector' = [collector EXCEPT !.pc = "overflow", !.approvals = approvals]
    BY <1>9 DEF ReadReviews, At, Collecting
  <2>2. approvals \subseteq 1 .. MaxReviews
    <3>1. Ids = 1 .. Len(reviews) /\ Len(reviews) \in Nat /\ Len(reviews) <= MaxReviews
      BY DEF Ids, GitHubTypes
    <3> QED BY <3>1, Bounds DEF PolicyApproval
  <2> HIDE DEF approvals
  <2>3. /\ collector' \in Collector /\ collector'.pc = "overflow"
        /\ collector'.head = collector.head /\ collector'.base = collector.base
        /\ collector'.checks = collector.checks
    BY <1>1, <2>1, <2>2 DEF Collector
  <2> QED BY <2>1, <2>3 DEF Collecting, Documents
<1>6. CASE WriteEvidence
  <2> DEFINE e == DraftEvidence
  <2>1. /\ collector.pc = "overflow" /\ collector.head \in Heads /\ collector.base \in Bases
        /\ UNCHANGED promoted
        /\ \/ evidence' = evidence \cup {e}
           \/ CollectorFails /\ UNCHANGED evidence
    BY <1>6 DEF WriteEvidence, At, Collecting
  <2>2. e \in Evidence /\ e.head = collector.head /\ e.base = collector.base
    BY <2>1, DraftIsEvidence
  <2>3. CASE CollectorFails
    BY <1>2, <2>1, <2>2, <2>3 DEF Documents
  <2>4. CASE /\ evidence' = evidence \cup {e} /\ e.eligible
             /\ collector' = [collector EXCEPT !.pc = "reread", !.evidence = e]
    <3> HIDE DEF e
    <3>1. /\ collector' \in Collector /\ collector'.pc = "reread"
          /\ collector'.head = collector.head /\ collector'.base = collector.base
          /\ collector'.evidence = e
      BY <1>1, <2>1, <2>2, <2>4 DEF Collector
    <3> QED BY <2>1, <2>2, <2>4, <3>1 DEF Collecting, Documents
  <2> QED BY <1>6, <2>3, <2>4 DEF WriteEvidence
<1>7. CASE Reread \/ MarkReady
  <2>1. UNCHANGED <<evidence, promoted>> /\ collector.pc \in {"reread", "ready"}
    BY <1>7 DEF Reread, MarkReady, At
  <2>2. \/ CollectorFails
        \/ collector' = [collector EXCEPT !.pc = "ready"]
        \/ collector' = [collector EXCEPT !.pc = "confirm"]
    BY <1>7 DEF Reread, MarkReady
  <2> QED BY <1>2, <1>4, <2>1, <2>2 DEF Documents
<1>8. CASE Confirm
  <2>1. /\ UNCHANGED evidence /\ CollectorFails /\ collector.evidence \in evidence
        /\ promoted' \subseteq promoted \cup {collector.evidence}
    BY <1>8 DEF Confirm, At, Collecting
  <2> QED BY <1>2, <2>1 DEF Documents
<1> QED BY <1>3, <1>5, <1>6, <1>7, <1>8, <1>9 DEF Collects

(* What counts when the reviews are read was not withdrawn before. *)
LEMMA CountsApproves ==
  ASSUME GitHubTypes, NEW head, NEW i \in PolicyApproval(head), NEW t
  PROVE  ApprovesSince(i, head, t)
<1>1. i \in Ids /\ CountsForPolicy(i, head)
  BY DEF PolicyApproval
<1>2. \A j \in Ids : reviews[j].reviewer = reviews[i].reviewer /\ reviews[j].commit = head => ~(j > i)
  BY <1>1 DEF CountsForPolicy, GitHubTypes, Ids
<1> QED BY <1>1, <1>2 DEF CountsForPolicy, ApprovesSince, NotWithdrawnBefore

(* ... and no later review or dismissal makes that untrue. *)
LEMMA ApprovalStays ==
  ASSUME GitHubTypes, ReviewsGrow, NEW head, NEW i, NEW t \in Nat, t <= clock,
         ApprovesSince(i, head, t)
  PROVE  ApprovesSince(i, head, t)'
<1>1. /\ i \in Ids /\ reviews[i].commit = head
      /\ reviews[i].reviewer \in Without(Approvers, Author) /\ "policy" \in reviews[i].markers
      /\ NotWithdrawnBefore(i, t)
  BY DEF ApprovesSince
<1>2. i \in DOMAIN reviews' /\ Ids \subseteq DOMAIN reviews' /\ clock \in Nat
  BY <1>1, Bounds DEF ReviewsGrow, GitHubTypes, Ids
<1>3. /\ reviews'[i].reviewer = reviews[i].reviewer /\ reviews'[i].markers = reviews[i].markers
      /\ reviews'[i].commit = reviews[i].commit
  BY <1>1 DEF ReviewsGrow
<1>4. \/ reviews'[i].state = "APPROVED"
      \/ reviews'[i].state = "DISMISSED" /\ reviews'[i].dismissedAt >= t
  BY <1>1, <1>2 DEF ReviewsGrow, NotWithdrawnBefore
<1>5. ASSUME NEW j \in DOMAIN reviews', reviews'[j].reviewer = reviews'[i].reviewer,
             reviews'[j].commit = reviews'[i].commit, j > i
      PROVE  reviews'[j].at >= t
  <2>1. CASE j \in Ids
    BY <1>1, <1>3, <1>5, <2>1 DEF ReviewsGrow, NotWithdrawnBefore
  <2>2. CASE j \notin Ids
    BY <1>2, <2>2 DEF ReviewsGrow
  <2> QED BY <2>1, <2>2
<1> QED BY <1>1, <1>2, <1>3, <1>4, <1>5 DEF ApprovesSince, NotWithdrawnBefore, Ids

(* People and the merger cannot take away what backs a document. *)
LEMMA BackedStays ==
  ASSUME GitHubTypes, Documents, Collecting, Backed, ReviewsGrow, clock' \in Nat,
         UNCHANGED collecting
  PROVE  Backed'
<1>1. UNCHANGED <<collector, evidence>> /\ clock \in Nat /\ clock' >= clock
  BY Bounds DEF collecting, GitHubTypes, ReviewsGrow
<1>2. collector.at \in Nat /\ \A e \in evidence : e.at \in Nat
  BY Bounds DEF Collecting, Collector, Documents, Evidence
<1>3. collector'.at <= clock' /\ \A e \in evidence' : e.at <= clock'
  BY <1>1, <1>2 DEF Backed
<1>4. ASSUME collector.pc = "overflow", NEW i \in collector.approvals
      PROVE  ApprovesSince(i, collector.head, collector.at)'
  <2>1. ApprovesSince(i, collector.head, collector.at) /\ collector.at <= clock
    BY <1>4 DEF Backed
  <2> DEFINE head == collector.head
             t == collector.at
  <2>2. ApprovesSince(i, head, t) /\ t \in Nat /\ t <= clock /\ UNCHANGED <<head, t>>
    BY <1>1, <1>2, <2>1
  <2> QED BY <1>1, <1>2, <2>1, ApprovalStays DEF ApprovesSince, NotWithdrawnBefore
<1>5. ASSUME NEW e \in evidence, NEW i \in e.approvals PROVE ApprovesSince(i, e.head, e.at)'
  <2>1. ApprovesSince(i, e.head, e.at) /\ e.at <= clock /\ e.at \in Nat
    BY <1>2 DEF Backed
  <2> QED BY <2>1, ApprovalStays
<1>6. \A e \in evidence : e.eligible => e.approvals # {}
  BY DEF Backed
<1> QED BY <1>1, <1>3, <1>4, <1>5, <1>6 DEF Backed

LEMMA BackedStep ==
  ASSUME GitHubTypes, Documents, Collecting, Backed, Collects
  PROVE  Backed'
<1>1. UNCHANGED <<reviews, clock>>
  BY DEF Collects, Collect, ReadChecks, ReadReviews, WriteEvidence, Reread, MarkReady, Confirm,
     github
<1>2. \A i, head, t : ApprovesSince(i, head, t) <=> ApprovesSince(i, head, t)'
  BY <1>1 DEF ApprovesSince, NotWithdrawnBefore, Ids
<1>3. collector \in Collector
  BY DEF Collecting
<1>4. ASSUME collector'.at <= clock, collector'.pc # "overflow", UNCHANGED evidence PROVE Backed'
  BY <1>1, <1>2, <1>4 DEF Backed
<1>5. ASSUME CollectorFails PROVE collector'.at <= clock /\ collector'.pc = "idle"
  BY <1>5, Bounds DEF CollectorFails, Idle, GitHubTypes
<1>6. ASSUME NEW promote \in BOOLEAN, Collect(promote) PROVE Backed'
  BY <1>1, <1>4, <1>6, Bounds DEF Collect, Idle, GitHubTypes
<1>7. CASE ReadChecks \/ Reread \/ MarkReady \/ Confirm
  <2>1. UNCHANGED evidence
    BY <1>7 DEF ReadChecks, Reread, MarkReady, Confirm
  <2>2. \/ CollectorFails
        \/ collector' = [collector EXCEPT !.pc = "reviews", !.checks = check[collector.head]]
        \/ collector' = [collector EXCEPT !.pc = "ready"]
        \/ collector' = [collector EXCEPT !.pc = "confirm"]
    BY <1>7 DEF ReadChecks, Reread, MarkReady, Confirm
  <2>3. collector'.at <= clock /\ collector'.pc # "overflow"
    BY <1>3, <1>5, <2>2 DEF Collector, Backed
  <2> QED BY <1>4, <2>1, <2>3
<1>8. CASE ReadReviews
  <2> DEFINE approvals == PolicyApproval(collector.head)
  <2>1. /\ UNCHANGED evidence
        /\ collector' = [collector EXCEPT !.pc = "overflow", !.approvals = approvals]
    BY <1>8 DEF ReadReviews
  <2>2. \A i \in approvals : ApprovesSince(i, collector.head, collector.at)
    BY CountsApproves
  <2> HIDE DEF approvals
  <2>3. /\ collector'.head = collector.head /\ collector'.at = collector.at
        /\ collector'.approvals = approvals
    BY <1>3, <2>1 DEF Collector
  <2> QED BY <1>1, <1>2, <2>1, <2>2, <2>3 DEF Backed
<1>9. CASE WriteEvidence
  <2> DEFINE e == DraftEvidence
  <2>1. /\ collector.pc = "overflow"
        /\ evidence' = evidence \cup {e} \/ UNCHANGED evidence
        /\ \/ CollectorFails
           \/ collector' = [collector EXCEPT !.pc = "reread", !.evidence = e]
    BY <1>9 DEF WriteEvidence, At
  <2>2. /\ e.head = collector.head /\ e.approvals = collector.approvals
        /\ e.at = collector.at /\ (e.eligible => collector.approvals # {})
    BY <2>1, DraftIsEvidence
  <2> HIDE DEF e
  <2>3. collector'.at <= clock /\ collector'.pc # "overflow"
    BY <1>3, <1>5, <2>1 DEF Collector, Backed
  <2>4. /\ e.at <= clock /\ (e.eligible => e.approvals # {})
        /\ \A i \in e.approvals : ApprovesSince(i, e.head, e.at)
    BY <2>1, <2>2 DEF Backed
  <2>5. ASSUME NEW d \in evidence', NEW i \in d.approvals PROVE ApprovesSince(i, d.head, d.at)'
    <3>1. ApprovesSince(i, d.head, d.at)
      BY <2>1, <2>4 DEF Backed
    <3> QED BY <1>1, <3>1 DEF ApprovesSince, NotWithdrawnBefore, Ids
  <2>6. ASSUME NEW d \in evidence' PROVE d.at <= clock' /\ (d.eligible => d.approvals # {})
    <3>1. d.at <= clock /\ (d.eligible => d.approvals # {})
      BY <2>1, <2>4 DEF Backed
    <3> QED BY <1>1, <3>1
  <2>7. collector'.at <= clock'
    BY <1>1, <2>3
  <2> QED BY <2>3, <2>5, <2>6, <2>7 DEF Backed
<1> QED BY <1>6, <1>7, <1>8, <1>9 DEF Collects

-----------------------------------------------------------------------------
(* The merger *)

(* The gate that lets a merge pass sees what decides it. *)
LEMMA GateDecides ==
  ASSUME GitHubTypes, NEW a \in Authorization, Gate(a)
  PROVE  Decided(a, clock)
<1>1. clock \in Nat /\ a.issuedAt \in Nat
  BY Bounds DEF GitHubTypes, Authorization
<1>2. PICK i \in Ids : CountsForMerge(i, a)
  BY DEF Gate
<1>3. reviews[i] \in Review
  BY DEF GitHubTypes, Ids
<1>4. reviews[i].at \in a.issuedAt .. clock
  BY <1>1, <1>2, <1>3, Bounds DEF CountsForMerge, Review
<1>5. StoodAt(i, clock)
  <2>1. \A j \in Ids : reviews[j].reviewer = reviews[i].reviewer => ~(j > i)
    BY <1>2 DEF CountsForMerge, GitHubTypes, Ids
  <2> QED BY <1>2, <2>1 DEF CountsForMerge, StoodAt
<1>6. Approved(a, clock)
  BY <1>2, <1>4, <1>5 DEF CountsForMerge, Approved
<1>7. Required \subseteq Succeeded(a.evidence.checks)
  BY DEF Gate
<1> QED BY <1>1, <1>6, <1>7 DEF Gate, InForce, Decided

LEMMA MergerStep ==
  ASSUME PromotionInv, Decides
  PROVE  GitHubTypes' /\ Merging' /\ UNCHANGED <<reviews, clock, collecting>>
<1>1. /\ GitHubTypes /\ merger \in Merger /\ auth \in Authorization \cup {None}
      /\ clock \in 0 .. MaxTime
  BY DEF PromotionInv, Merging, GitHubTypes
<1>2. UNCHANGED <<reviews, clock, collecting>>
  BY DEF Decides, Authorize, FirstGate, Acquire, SecondGate, Merge, Revoke, CrashMerger, github
<1>3. \A a, t : Decided(a, t) => Decided(a, t)'
  BY <1>2 DEF Decided, Approved, StoodAt, Ids
<1>4. CASE \E e \in evidence, h \in Heads, b \in Bases : Authorize(e, h, b)
  <2>1. PICK e \in evidence, h \in Heads, b \in Bases : Authorize(e, h, b)
    BY <1>4
  <2>2. /\ auth = None /\ UNCHANGED <<github, clock, collecting, merger, merged>>
        /\ auth' = [evidence |-> e, head |-> h, base |-> b, issuedAt |-> clock]
    BY <2>1 DEF Authorize
  <2>3. auth' \in Authorization /\ auth'.evidence \in evidence
    BY <1>1, <2>2 DEF Authorization, PromotionInv, Documents
  <2>4. merged = None /\ merger.pc # "merge"
    BY <2>2 DEF PromotionInv, Merging
  <2> QED BY <1>1, <1>2, <2>2, <2>3, <2>4 DEF Merging, GitHubTypes, github, collecting
<1>5. ASSUME NEW pc \in {"idle", "acquire", "second", "revoke"}, NEW n \in 0 .. MaxCalls,
             merger' = [merger EXCEPT !.pc = pc, !.calls = n], UNCHANGED <<github, auth, merged>>
      PROVE  GitHubTypes' /\ Merging'
  <2>1. merger' \in Merger /\ merger'.pc # "merge"
    BY <1>1, <1>5 DEF Merger
  <2>2. Merging'
    BY <1>2, <1>3, <1>5, <2>1 DEF PromotionInv, Merging, collecting
  <2> QED BY <1>1, <1>2, <1>5, <2>2 DEF GitHubTypes, github
<1>6. ASSUME NEW pc \in {"idle", "acquire", "second", "revoke"}, MergerTo(pc),
             UNCHANGED <<github, auth, merged>>
      PROVE  GitHubTypes' /\ Merging'
  <2>1. merger.calls \in 0 .. MaxCalls /\ merger' = [merger EXCEPT !.pc = pc, !.calls = merger.calls]
    BY <1>1, <1>6 DEF MergerTo, Merger
  <2> QED BY <1>5, <1>6, <2>1
<1>7. CASE FirstGate
  <2>1. merger.calls + 1 \in 0 .. MaxCalls
    BY <1>1, <1>7, Bounds DEF FirstGate, Merger
  <2>2. /\ merger' = [merger EXCEPT !.pc = "acquire", !.calls = merger.calls + 1]
        /\ UNCHANGED <<github, auth, merged>>
    BY <1>7 DEF FirstGate
  <2> QED BY <1>2, <1>5, <2>1, <2>2
<1>8. CASE Acquire \/ Revoke \/ CrashMerger
  BY <1>2, <1>6, <1>8 DEF Acquire, Revoke, CrashMerger
<1>9. CASE SecondGate
  <2>1. CASE ~Gate(auth)
    BY <1>2, <1>6, <1>9, <2>1 DEF SecondGate
  <2>2. CASE Gate(auth)
    <3>1. /\ auth # None /\ merger' = [merger EXCEPT !.pc = "merge", !.gateAt = clock]
          /\ UNCHANGED <<github, auth, merged>>
      BY <1>9, <2>2 DEF SecondGate, MergerAt
    <3>2. merger' \in Merger /\ merger'.gateAt = clock
      BY <1>1, <3>1 DEF Merger
    <3>3. Decided(auth, clock)
      BY <1>1, <2>2, <3>1, GateDecides
    <3>4. Decided(auth, merged.gateAt) => Decided(auth, merged.gateAt)'
      BY <1>2, <1>3, <3>1 DEF Decided, Approved, StoodAt, Ids
    <3>5. Decided(auth, merger.gateAt)'
      BY <1>2, <3>1, <3>2, <3>3 DEF Decided, Approved, StoodAt, Ids
    <3>6. Merging'
      BY <1>2, <3>1, <3>2, <3>4, <3>5 DEF PromotionInv, Merging, collecting
    <3> QED BY <1>1, <1>2, <3>1, <3>6 DEF GitHubTypes, github
  <2> QED BY <2>1, <2>2
<1>10. CASE Merge
  <2>1. /\ merger.pc = "merge" /\ auth # None /\ MergerTo("revoke")
        /\ UNCHANGED <<check, runs, reviews, changes, clock, collecting, auth>>
    BY <1>10 DEF Merge, MergerAt
  <2>2. CASE UNCHANGED <<pr, merged>>
    BY <1>6, <2>1, <2>2 DEF github
  <2>3. CASE /\ pr.head = auth.head /\ pr' = [pr EXCEPT !.state = "MERGED"]
             /\ merged' = [auth |-> auth, head |-> pr.head, gateAt |-> merger.gateAt]
    <3>1. pr' \in PullRequest /\ pr.head \in Heads
      BY <1>1, <2>3 DEF GitHubTypes, PullRequest
    <3>2. merger' \in Merger /\ merger'.pc = "revoke" /\ merger.gateAt \in 0 .. MaxTime
      BY <1>1, <2>1 DEF MergerTo, Merger
    <3>3. Decided(auth, merger.gateAt)
      BY <2>1 DEF PromotionInv, Merging
    <3>4. /\ merged'.auth = auth /\ merged'.head = auth.head /\ merged'.head \in Heads
          /\ merged'.gateAt = merger.gateAt
      BY <2>3, <3>1
    <3>5. Decided(auth, merged.gateAt)'
      BY <1>2, <2>1, <3>3, <3>4 DEF Decided, Approved, StoodAt, Ids
    <3>6. Merging'
      BY <2>1, <3>2, <3>4, <3>5 DEF PromotionInv, Merging, collecting
    <3> QED BY <1>1, <2>1, <3>1, <3>6 DEF GitHubTypes
  <2> QED BY <1>10, <2>2, <2>3 DEF Merge
<1> QED BY <1>2, <1>4, <1>7, <1>8, <1>9, <1>10 DEF Decides

-----------------------------------------------------------------------------
(* The whole invariant *)

(* What the merger knows survives what the others do. *)
LEMMA MergingStays ==
  ASSUME PromotionInv, GitHubTypes', ReviewsGrow, UNCHANGED merging, evidence \subseteq evidence'
  PROVE  Merging'
<1>1. GitHubTypes /\ clock' \in Nat
  BY Bounds DEF PromotionInv, GitHubTypes
<1>2. /\ auth \in Authorization \cup {None} /\ merger \in Merger
      /\ UNCHANGED <<auth, merger, merged>>
  BY DEF PromotionInv, Merging, merging
<1>3. ASSUME merger.pc = "merge" PROVE auth # None /\ Decided(auth, merger.gateAt)'
  <2>1. /\ auth \in Authorization /\ auth # None /\ merger.gateAt \in 0 .. MaxTime
        /\ Decided(auth, merger.gateAt)
    BY <1>2, <1>3 DEF PromotionInv, Merging, Merger
  <2>2. \A a \in Authorization, t \in 0 .. MaxTime : Decided(a, t) => Decided(a, t)'
    BY <1>1, DecisionStands
  <2> QED BY <1>2, <2>1, <2>2 DEF Decided, Approved, StoodAt, Ids
<1>4. ASSUME merged # None PROVE auth # None /\ Decided(auth, merged.gateAt)'
  <2>1. /\ auth \in Authorization /\ auth # None /\ merged.gateAt \in 0 .. MaxTime
        /\ Decided(auth, merged.gateAt)
    BY <1>2, <1>4 DEF PromotionInv, Merging
  <2>2. \A a \in Authorization, t \in 0 .. MaxTime : Decided(a, t) => Decided(a, t)'
    BY <1>1, DecisionStands
  <2> QED BY <1>2, <2>1, <2>2 DEF Decided, Approved, StoodAt, Ids
<1> QED BY <1>2, <1>3, <1>4 DEF PromotionInv, Merging

LEMMA PromotionStep == PromotionInv /\ [Next]_vars => PromotionInv'
<1> SUFFICES ASSUME PromotionInv, [Next]_vars PROVE PromotionInv'
  OBVIOUS
<1>1. CASE People
  <2>1. GitHubTypes' /\ ReviewsGrow /\ UNCHANGED <<collecting, merging>>
    BY <1>1, PeopleStep DEF PromotionInv
  <2>2. Merging'
    BY <2>1, MergingStays DEF collecting
  <2>3. Backed'
    BY <2>1, BackedStays, Bounds DEF PromotionInv, GitHubTypes
  <2> QED BY <2>1, <2>2, <2>3 DEF PromotionInv, Documents, Collecting, collecting
<1>2. CASE Collects
  <2>1. GitHubTypes' /\ ReviewsGrow /\ UNCHANGED merging /\ evidence \subseteq evidence'
    BY <1>2, OnlyReady DEF PromotionInv
  <2>2. Documents' /\ Collecting'
    BY <1>2, CollectorStep DEF PromotionInv
  <2>3. Backed'
    BY <1>2, BackedStep DEF PromotionInv
  <2> QED BY <2>1, <2>2, <2>3, MergingStays DEF PromotionInv
<1>3. CASE Decides
  <2>1. GitHubTypes' /\ Merging' /\ UNCHANGED <<reviews, clock, collecting>>
    BY <1>3, MergerStep
  <2>2. Backed'
    <3>1. ReviewsGrow
      BY <2>1, SameReviewsGrow, Bounds DEF PromotionInv, GitHubTypes
    <3> QED BY <2>1, <3>1, BackedStays, Bounds DEF PromotionInv, GitHubTypes
  <2> QED BY <2>1, <2>2 DEF PromotionInv, Documents, Collecting, collecting
<1>4. CASE UNCHANGED vars
  BY <1>4 DEF PromotionInv, vars, github, collecting, merging, GitHubTypes, Documents, Collecting,
     Merging, Decided, Approved, StoodAt, Ids, Backed, ApprovesSince, NotWithdrawnBefore
<1> QED BY <1>1, <1>2, <1>3, <1>4, Actors

(* Every value keeps its type. *)
THEOREM PromotionTypeTheorem == Spec => []TypeOK
<1>1. PromotionInv => TypeOK
  BY DEF PromotionInv, GitHubTypes, Documents, Collecting, Collector, CollectorSteps, Merging,
     Merger, TypeOK
<1> QED BY <1>1, InitPromotion, PromotionStep, PTL DEF Spec

(* What is merged was decided, whatever people and CI did in between. *)
THEOREM MergeTheorem == Spec => []MergeIsDecided
<1>1. PromotionInv => MergeIsDecided
  BY DEF PromotionInv, Merging, Decided, Approved, MergeIsDecided
<1> QED BY <1>1, InitPromotion, PromotionStep, PTL DEF Spec

(* The approval an eligible document names is one of its head that was not *)
(* withdrawn before the collection began, whatever people do meanwhile.    *)
THEOREM EvidenceApprovalTheorem == Spec => []EvidenceApprovalStands
<1>1. PromotionInv => EvidenceApprovalStands
  BY DEF PromotionInv, Backed, EvidenceApprovalStands
<1> QED BY <1>1, InitPromotion, PromotionStep, PTL DEF Spec

(* A promotion is reported only of what its eligible document names. *)
THEOREM PromotedTheorem == Spec => PromotedIsEvidenced
<1> DEFINE A == \A e \in promoted' \ promoted :
                  /\ e.eligible
                  /\ pr.state = "OPEN" /\ ~pr.draft /\ pr.head = e.head /\ pr.base = e.base
<1>1. ASSUME PromotionInv, [Next]_vars, NEW e \in promoted' \ promoted
      PROVE  /\ e.eligible
             /\ pr.state = "OPEN" /\ ~pr.draft /\ pr.head = e.head /\ pr.base = e.base
  <2>1. Confirm
    BY <1>1, Actors, PeopleStep, MergerStep DEF PromotionInv, collecting, vars, Collects, Collect,
       ReadChecks, ReadReviews, WriteEvidence, Reread, MarkReady
  <2>2. e = collector.evidence /\ Unchanged(FALSE) /\ collector.pc = "confirm"
    BY <1>1, <2>1 DEF Confirm, At
  <2>3. e.eligible /\ e.head = collector.head /\ e.base = collector.base
    BY <1>1, <2>2 DEF PromotionInv, Collecting
  <2>4. pr.state = "OPEN" /\ pr.draft = FALSE /\ pr.head = collector.head /\ pr.base = collector.base
    BY <2>2 DEF Unchanged
  <2> QED BY <2>3, <2>4
<1>2. PromotionInv /\ [Next]_vars => [A]_vars
  BY <1>1
<1> QED BY <1>2, InitPromotion, PromotionStep, PTL DEF Spec, PromotedIsEvidenced
=============================================================================
