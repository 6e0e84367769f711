-------------------------- MODULE TargetRunProofs --------------------------
(***************************************************************************)
(* What TargetRun promises for every number of runners, verifications,     *)
(* runs, failures, crashes and overlaps.                                   *)
(*                                                                         *)
(* The invariant RunInv has layers, each of which needs the ones before:   *)
(*   SoundInv     types; every state on disk or in memory is Sound: its    *)
(*                steps passed in order, each with its receipt             *)
(*   AloneInv     unless runs overlap one runner is busy, and what it      *)
(*                holds is what is on disk, but in two of the Windows      *)
(*   StandingInv  until the first push, and until a run by itself          *)
(*                completes, nobody removes the worktree, and it has all   *)
(*                the work that any state names: that is why a bundle is   *)
(*                written, and a commit made, of a whole tree only         *)
(*   GrowthInv    each commit has what the commit before it has            *)
(*   RemoteInv    what reaches the remote has both patches and a bundle;   *)
(*                a push after the first extends what is there             *)
(*   TogetherInv  unless runs overlap, file, worktree, branch and remote   *)
(*                agree on the candidate                                   *)
(* RemoteInv is about any interleaving of any number of runs, and leans on *)
(* StandingInv for the first push alone: after that the worktree may go.   *)
(***************************************************************************)
EXTENDS TargetRun, FiniteSetTheorems, TLAPS

-----------------------------------------------------------------------------
(* A state of the recovery file, by itself.                                *)

(* The first n steps have passed, and all but the next one are pending. *)
Reached(s, n) ==
  \A i \in DOMAIN Plan : /\ i <= n     => s.steps[i].status = "passed"
                         /\ i = n + 1  => s.steps[i].status # "passed"
                         /\ i > n + 1  => s.steps[i].status = "pending"

InOrder(s) == \E n \in 0 .. Len(Plan) : Reached(s, n)

Receipted(s) ==
  \A i \in DOMAIN Plan :
    s.steps[i].receipt = IF s.steps[i].status \in {"passed", "failed"}
                           THEN s.steps[i].status ELSE None

Backed(s) ==
  /\ s.commit # None => s.evidence # None
  /\ s.result # None => /\ s.commit # None /\ s.result.commit = s.commit
                        /\ s.evidence # None /\ s.result.evidence = s.evidence
  /\ s.status = "completed" => s.result # None

Sound(s) == s \in State /\ InOrder(s) /\ Receipted(s) /\ Backed(s)

Passed(s) == {i \in DOMAIN Plan : s.steps[i].status = "passed"}

-----------------------------------------------------------------------------
(* Where a run is, and what it holds there.                                *)
Before     == {"idle", "planning", "load"}
Opening    == {"workspace", "add", "switch", "prepare"}
Evidencing == {"writeEvidence", "saveEvidence"}
Delivering == {"saveCommit", "deliver", "push", "pullRequest", "delivered"}
Executing  == {"execute", "passing"} \cup Evidencing \cup Delivering
After      == {"step", "cleanup"} \cup Executing

Places == Before \cup Opening \cup After

(* What a run at p holds: the state m in memory, and its number n. *)
Holds(p, m, n) ==
  /\ p \in Places /\ m \in State \cup {None} /\ n \in 0 .. MaxRuns
  /\ m # None => Sound(m)
  /\ p # "idle" => n # 0
  /\ p \in Before => m = None
  /\ p \in After => m # None
  /\ p \in Executing => Open(m) # {}
  /\ p \in Evidencing => Plan[Current(m)] = "evidence"
  /\ p \in Delivering => Plan[Current(m)] = "deliver" /\ m.commit # None
  /\ p = "writeEvidence" => m.evidence = None
  /\ p = "saveEvidence" => m.evidence # None
  /\ p = "saveCommit" => m.result = None

Disk ==
  /\ file \in State \cup {None} /\ (file # None => Sound(file))
  /\ ws \in Workspace \cup {None}
  /\ branch \in Commit \cup {None}
  /\ remote \in [branch : Commit \cup {None}, pullRequest : BOOLEAN]

Books ==
  /\ planning \in BOOLEAN
  /\ answer \in [Runners -> {"none", "completed", "failed", "paused", "crashed"}]
  /\ runs \in 0 .. MaxRuns /\ overlaps \in 0 .. MaxOverlaps /\ stranded \in BOOLEAN

Runs ==
  /\ pc = [r \in Runners |-> pc[r]]
  /\ mem = [r \in Runners |-> mem[r]]
  /\ turn = [r \in Runners |-> turn[r]]
  /\ \A r \in Runners : Holds(pc[r], mem[r], turn[r])

SoundInv == Disk /\ Books /\ Runs

-----------------------------------------------------------------------------
(* A run by itself holds what is on disk, but in two of the Windows.       *)
Agrees(p, m, f) ==
  /\ p \in (Opening \cup After) \ {"saveEvidence", "saveCommit"} => m = f
  /\ p = "saveEvidence" =>
       f # None /\ f.evidence = None /\ m = [f EXCEPT !.evidence = m.evidence]
  /\ p = "saveCommit" =>
       f # None /\ f.commit = None /\ m = [f EXCEPT !.commit = m.commit]
  /\ p = "cleanup" => f # None /\ f.status = "completed"
  /\ f # None /\ f.status = "completed" => p \in Before \cup {"cleanup"}

Exclusive == \A q, r \in Runners : ~At(q, "idle") /\ ~At(r, "idle") => q = r

AloneInv ==
  overlaps = 0 => Exclusive /\ \A r \in Runners : Agrees(pc[r], mem[r], file)

-----------------------------------------------------------------------------
(* Until the first push, and until a run by itself completes, the worktree *)
(* stands and has all the work the states speak of.                        *)
Standing == \/ Delivery = "github" /\ remote.branch = None
            \/ overlaps = 0 /\ ~Completed

Good(bundle) == bundle.tree = Patches /\ bundle.steps = 1 .. Len(Plan) - 2

Evidenced(tree) ==
  tree.patches = Patches /\ \E bundle \in tree.evidence : Good(bundle)

(* The worktree w and the branch b have the work that the state s names. *)
Contained(w, b, s) ==
  s # None =>
    /\ b # None
    /\ \A i \in Passed(s) : Plan[i] \in Patches => Plan[i] \in w.tree.patches
    /\ s.evidence # None => s.evidence \in w.tree.evidence
    /\ s.commit # None => w.head # Base

(* What a run at p with state m finds there. *)
Ready(w, b, p, m) ==
  /\ p = "switch" => w # None /\ b = None
  /\ p \in After \cup {"prepare"} => b # None
  /\ Contained(w, b, m)
  /\ p = "passing" /\ Plan[Current(m)] \in Patches => Plan[Current(m)] \in w.tree.patches

(* Bundles are written, and commits made, when all they need has passed. *)
Whole(w, b) ==
  /\ b # None <=> w # None /\ w.onBranch
  /\ w # None => \A bundle \in w.tree.evidence : Good(bundle)
  /\ w # None /\ w.head # Base => Evidenced(TreeOf(w.head))

OneSwitches == \A q, r \in Runners : At(q, "switch") /\ At(r, "switch") => q = r

StandingInv ==
  Standing => /\ Whole(ws, branch) /\ OneSwitches
              /\ Contained(ws, branch, file)
              /\ \A r \in Runners : Ready(ws, branch, pc[r], mem[r])

(* Trees only grow. *)
Within(t, u) == t.patches \subseteq u.patches /\ t.evidence \subseteq u.evidence

Growing(commit) == \A i, j \in DOMAIN commit : i <= j => Within(commit[i], commit[j])

GrownState(s) == s # None /\ s.commit # None => Growing(s.commit)

GrowthInv ==
  /\ ws # None => Growing(ws.head) /\ Within(TreeOf(ws.head), ws.tree)
  /\ GrownState(file)
  /\ \A r \in Runners : GrownState(mem[r])

Unresolved(s) == s # None => s.result = None

RemoteInv ==
  /\ \A r \in Runners : pc[r] \in {"push", "pullRequest", "delivered"} => Delivery = "github"
  /\ Delivery = "github" /\ remote.branch = None =>
       /\ Unresolved(file)
       /\ \A r \in Runners : /\ pc[r] \notin {"pullRequest", "delivered", "cleanup"}
                             /\ Unresolved(mem[r])
  /\ remote.branch # None => remote.branch # Base /\ Evidenced(TreeOf(remote.branch))

-----------------------------------------------------------------------------
(* A run by itself: what is on disk fits together.                         *)
Using == {"prepare", "step"} \cup Executing

(* What the state s names is what was verified, at the branch b and the    *)
(* remote o.                                                               *)
Candidate(s, b, o) ==
  s # None =>
    /\ s.evidence # None => Good(s.evidence)
    /\ s.commit # None =>
         s.commit = <<[patches |-> Patches, evidence |-> {s.evidence}]>> /\ b = s.commit
    /\ s.result # None /\ s.result.pullRequest => o.pullRequest /\ o.branch = s.commit

(* A run at p with state m has the worktree w at its commit, with its      *)
(* bundle, and finds on the remote o what it has put there.                *)
Uses(p, m, w, o) ==
  /\ p \in Using => w.head = Expected(m)
  /\ p \in Using /\ m # None /\ m.evidence # None => w.tree.evidence = {m.evidence}
  /\ p = "writeEvidence" => w.tree.evidence = {}
  /\ p \in {"pullRequest", "delivered"} => o.branch = m.commit
  /\ p = "delivered" => o.pullRequest

(* A run is in the window p, or was lost in one. *)
InWindow(p) == stranded \/ \E r \in Runners : At(r, p)

FitsTogether ==
  ~Completed =>
    /\ ws # None /\ ~ws.onBranch => InWindow("switch")
    /\ ws # None /\ ws.onBranch => branch = ws.head
    /\ CommitExpected \/ (file # None /\ file.commit = None /\ InWindow("saveCommit"))
    /\ EvidenceExpected \/ (file # None /\ file.evidence = None /\ InWindow("saveEvidence"))

Recorded == remote.branch # None => file # None /\ file.commit = remote.branch

TogetherInv ==
  overlaps = 0 =>
    /\ Recorded
    /\ Candidate(file, branch, remote)
    /\ \A r \in Runners : /\ Candidate(mem[r], branch, remote)
                          /\ Uses(pc[r], mem[r], ws, remote)
    /\ FitsTogether

RunInv == SoundInv /\ AloneInv /\ StandingInv /\ GrowthInv /\ RemoteInv /\ TogetherInv

-----------------------------------------------------------------------------
(* The plan *)

LEMMA Concatenated ==
  ASSUME NEW S, NEW a \in Seq(S), NEW b \in Seq(S)
  PROVE  /\ a \o b \in Seq(S) /\ Len(a \o b) = Len(a) + Len(b)
         /\ \A i \in 1 .. Len(a) : (a \o b)[i] = a[i]
         /\ \A i \in 1 .. Len(b) : (a \o b)[Len(a) + i] = b[i]
OBVIOUS

LEMMA PlanShape ==
  /\ Plan \in Seq({"domain", "proposal", "validate", "verify", "evidence", "deliver"})
  /\ Len(Plan) = Verifications + 5 /\ DOMAIN Plan = 1 .. Len(Plan)
  /\ Len(Plan) \in Nat /\ Verifications \in Nat
  /\ Plan[1] = "domain" /\ Plan[2] = "proposal" /\ Plan[3] = "validate"
  /\ \A i \in 4 .. Len(Plan) - 2 : Plan[i] = "verify"
  /\ Plan[Len(Plan) - 1] = "evidence" /\ Plan[Len(Plan)] = "deliver"
<1> DEFINE Kinds == {"domain", "proposal", "validate", "verify", "evidence", "deliver"}
           first == <<"domain", "proposal", "validate">>
           middle == [i \in 1 .. Verifications |-> "verify"]
           last == <<"evidence", "deliver">>
<1>1. Verifications \in Nat
  BY RunAssumption
<1>2. /\ first \in Seq(Kinds) /\ Len(first) = 3
      /\ first[1] = "domain" /\ first[2] = "proposal" /\ first[3] = "validate"
  OBVIOUS
<1>3. /\ middle \in Seq(Kinds) /\ Len(middle) = Verifications
      /\ \A i \in 1 .. Verifications : middle[i] = "verify"
  BY <1>1
<1>4. last \in Seq(Kinds) /\ Len(last) = 2 /\ last[1] = "evidence" /\ last[2] = "deliver"
  OBVIOUS
<1>5. Plan = (first \o middle) \o last
  BY DEF Plan
<1> HIDE DEF first, middle, last, Kinds
<1>6. /\ first \o middle \in Seq(Kinds) /\ Len(first \o middle) = 3 + Verifications
      /\ \A i \in 1 .. 3 : (first \o middle)[i] = first[i]
      /\ \A i \in 1 .. Verifications : (first \o middle)[3 + i] = middle[i]
  <2>1. /\ first \o middle \in Seq(Kinds) /\ Len(first \o middle) = Len(first) + Len(middle)
        /\ \A i \in 1 .. Len(first) : (first \o middle)[i] = first[i]
        /\ \A i \in 1 .. Len(middle) : (first \o middle)[Len(first) + i] = middle[i]
    <3>1. first \in Seq(Kinds) /\ middle \in Seq(Kinds)
      BY <1>2, <1>3
    <3>2. first \o middle \in Seq(Kinds) /\ Len(first \o middle) = Len(first) + Len(middle)
      BY <3>1, Concatenated
    <3>3. \A i \in 1 .. Len(first) : (first \o middle)[i] = first[i]
      BY <3>1, Concatenated
    <3>4. \A i \in 1 .. Len(middle) : (first \o middle)[Len(first) + i] = middle[i]
      BY <3>1, Concatenated
    <3> QED BY <3>2, <3>3, <3>4
  <2> QED BY <2>1, <1>2, <1>3
<1>7. /\ Plan \in Seq(Kinds) /\ Len(Plan) = Verifications + 5
      /\ \A i \in 1 .. Verifications + 3 : Plan[i] = (first \o middle)[i]
      /\ Plan[Verifications + 4] = last[1] /\ Plan[Verifications + 5] = last[2]
  <2> DEFINE front == first \o middle
  <2> HIDE DEF front
  <2>0. front \in Seq(Kinds) /\ Len(front) = 3 + Verifications
    BY <1>6 DEF front
  <2>1. /\ front \o last \in Seq(Kinds) /\ Len(front \o last) = Len(front) + Len(last)
        /\ \A i \in 1 .. Len(front) : (front \o last)[i] = front[i]
        /\ \A i \in 1 .. Len(last) : (front \o last)[Len(front) + i] = last[i]
    <3>1. front \in Seq(Kinds) /\ last \in Seq(Kinds)
      BY <1>4, <2>0
    <3>2. front \o last \in Seq(Kinds) /\ Len(front \o last) = Len(front) + Len(last)
      BY <3>1, Concatenated
    <3>3. \A i \in 1 .. Len(front) : (front \o last)[i] = front[i]
      BY <3>1, Concatenated
    <3>4. \A i \in 1 .. Len(last) : (front \o last)[Len(front) + i] = last[i]
      BY <3>1, Concatenated
    <3> QED BY <3>2, <3>3, <3>4
  <2>2. Plan = front \o last
    BY <1>5 DEF front
  <2>3. /\ Len(front \o last) = Verifications + 5
        /\ \A i \in 1 .. Verifications + 3 : (front \o last)[i] = front[i]
    BY <1>1, <1>4, <2>0, <2>1
  <2>4. (front \o last)[Len(front) + 1] = last[1] /\ (front \o last)[Len(front) + 2] = last[2]
    BY <1>4, <2>1
  <2>5. Len(front) + 1 = Verifications + 4 /\ Len(front) + 2 = Verifications + 5
    BY <1>1, <2>0
  <2> QED BY <2>1, <2>2, <2>3, <2>4, <2>5 DEF front
<1>8. \A i \in 4 .. Len(Plan) - 2 : Plan[i] = "verify"
  <2>1. SUFFICES ASSUME NEW i \in 4 .. Verifications + 3 PROVE Plan[i] = "verify"
    BY <1>1, <1>7
  <2>2. i - 3 \in 1 .. Verifications /\ 3 + (i - 3) = i
    BY <1>1
  <2>3. i \in 1 .. Verifications + 3
    BY <1>1
  <2>4. Plan[i] = (first \o middle)[i]
    BY <1>7, <2>3, Zenon
  <2>5. (first \o middle)[3 + (i - 3)] = middle[i - 3] /\ middle[i - 3] = "verify"
    BY <1>3, <1>6, <2>2, Zenon
  <2> QED BY <2>2, <2>4, <2>5, Zenon
<1> QED BY <1>1, <1>2, <1>4, <1>6, <1>7, <1>8 DEF Kinds

(* The kinds that a run asks for, by place. *)
LEMMA PlacesOfKinds ==
  ASSUME NEW i \in DOMAIN Plan
  PROVE  /\ Plan[i] = "evidence" <=> i = Len(Plan) - 1
         /\ Plan[i] = "deliver" <=> i = Len(Plan)
         /\ Plan[i] \in Patches <=> i \in {1, 2}
BY PlanShape DEF Patches

-----------------------------------------------------------------------------
(* States of the recovery file *)

LEMMA CurrentIs ==
  ASSUME NEW s, NEW n \in 0 .. Len(Plan), Reached(s, n)
  PROVE  /\ Passed(s) = 1 .. n
         /\ Open(s) = (n + 1) .. Len(Plan)
         /\ Open(s) # {} => Current(s) = n + 1 /\ n + 1 \in DOMAIN Plan
<1>1. Passed(s) = 1 .. n
  BY PlanShape DEF Reached, Passed
<1>2. Open(s) = (n + 1) .. Len(Plan)
  BY PlanShape DEF Reached, Open
<1>3. ASSUME Open(s) # {} PROVE Current(s) = n + 1 /\ n + 1 \in DOMAIN Plan
  <2>1. n + 1 \in Open(s) /\ \A j \in Open(s) : n + 1 <= j
    BY <1>2, <1>3, PlanShape
  <2>2. ASSUME NEW i \in Open(s), \A j \in Open(s) : i <= j PROVE i = n + 1
    <3>1. i <= n + 1
      BY <2>1, <2>2
    <3>2. i \in Nat /\ n + 1 <= i
      BY <1>2, PlanShape
    <3> QED BY <3>1, <3>2
  <2>3. Current(s) = n + 1
    BY <2>1, <2>2 DEF Current
  <2> QED BY <1>2, <2>1, <2>3, PlanShape
<1> QED BY <1>1, <1>2, <1>3

(* What loading checks follows from what the invariant says of a state. *)
LEMMA SoundIsAccepted ==
  ASSUME NEW s, Sound(s) PROVE Integrity(s)
<1>1. PICK n \in 0 .. Len(Plan) : Reached(s, n)
  BY DEF Sound, InOrder
<1>2. \A i, j \in DOMAIN Plan : i < j /\ s.steps[j].status = "passed" =>
                               s.steps[i].status = "passed"
  BY <1>1, PlanShape DEF Reached
<1>3. Cardinality({i \in DOMAIN Plan : s.steps[i].status \in {"running", "failed"}}) <= 1
  <2> DEFINE R == {i \in DOMAIN Plan : s.steps[i].status \in {"running", "failed"}}
  <2>1. R = {} \/ R = {n + 1}
    BY <1>1, PlanShape DEF Reached
  <2>2. Cardinality({}) = 0
    BY FS_EmptySet
  <2> HIDE DEF R
  <2>3. Cardinality({n + 1}) = 1
    BY FS_Singleton
  <2>4. Cardinality(R) <= 1
    <3>1. CASE R = {}
      BY <2>2, <3>1
    <3>2. CASE R = {n + 1}
      BY <2>3, <3>2
    <3> QED BY <2>1, <3>1, <3>2 DEF R
  <2> QED BY <2>4 DEF R
<1> QED BY <1>2, <1>3 DEF Sound, Receipted, Backed, Integrity

LEMMA NewIsSound == Sound(NewState) /\ Passed(NewState) = {} /\ Open(NewState) # {}
<1>1. NewState \in State
  BY PlanShape DEF NewState, State
<1>2. Reached(NewState, 0)
  BY PlanShape DEF NewState, Reached
<1>3. Receipted(NewState) /\ Backed(NewState)
  BY PlanShape DEF NewState, Receipted, Backed
<1>4. 0 \in 0 .. Len(Plan) /\ 1 .. 0 = {} /\ 1 \in 0 + 1 .. Len(Plan)
  BY PlanShape
<1>5. Passed(NewState) = 1 .. 0 /\ Open(NewState) = 0 + 1 .. Len(Plan)
  BY <1>2, <1>4, CurrentIs
<1> QED BY <1>1, <1>2, <1>3, <1>4, <1>5 DEF Sound, InOrder

(* A state that a failure was set back in, or whose next step goes on.     *)
SameBut(s, t) == t.evidence = s.evidence /\ t.commit = s.commit /\ t.result = s.result

LEMMA RetriedIsSound ==
  ASSUME NEW s, Sound(s)
  PROVE  /\ Sound(Retried(s)) /\ SameBut(s, Retried(s)) /\ Passed(Retried(s)) = Passed(s)
         /\ Retried(s).status = "planned"
<1> DEFINE steps == [i \in DOMAIN Plan |->
                       IF s.steps[i].status \in {"failed", "running"}
                         THEN [status |-> "pending", receipt |-> None]
                         ELSE s.steps[i]]
           t == Retried(s)
<1>1. s \in State
  BY DEF Sound
<1>2. steps \in [DOMAIN Plan -> [status  : {"pending", "running", "passed", "failed"},
                                 receipt : {"passed", "failed", None}]]
  BY <1>1 DEF State
<1>3. t = [s EXCEPT !.status = "planned", !.steps = steps]
  BY DEF Retried
<1> HIDE DEF steps, t
<1>4. /\ t \in State /\ t.status = "planned" /\ t.steps = steps
      /\ SameBut(s, t)
  BY <1>1, <1>2, <1>3 DEF State, SameBut
<1>5. PICK n \in 0 .. Len(Plan) : Reached(s, n)
  BY DEF Sound, InOrder
<1>6. Reached(t, n)
  BY <1>4, <1>5 DEF Reached, steps
<1>7. Receipted(t)
  BY <1>4 DEF Sound, Receipted, steps
<1>8. Backed(t)
  BY <1>4 DEF Sound, Backed, SameBut
<1>9. Passed(t) = Passed(s)
  BY <1>5, <1>6, CurrentIs
<1> QED BY <1>4, <1>6, <1>7, <1>8, <1>9 DEF Sound, InOrder, t

LEMMA NextStepIsSound ==
  ASSUME NEW s, Sound(s), Open(s) # {},
         NEW status \in {"running", "passed", "failed"},
         NEW phase \in {"executing", "verifying", "review", "failed", s.status},
         NEW receipt, receipt = IF status = "running" THEN None ELSE status,
         NEW t, t = [WithStep(s, status, receipt) EXCEPT !.status = phase]
  PROVE  /\ Sound(t) /\ SameBut(s, t) /\ t.status = phase
         /\ Passed(t) = Passed(s) \cup (IF status = "passed" THEN {Current(s)} ELSE {})
<1>1. s \in State
  BY DEF Sound
<1>2. PICK n \in 0 .. Len(Plan) : Reached(s, n)
  BY DEF Sound, InOrder
<1>3. Current(s) = n + 1 /\ n + 1 \in DOMAIN Plan
  BY <1>2, CurrentIs
<1> DEFINE steps == [s.steps EXCEPT ![n + 1] = [status |-> status, receipt |-> receipt]]
<1>4. t = [s EXCEPT !.steps = steps, !.status = phase]
  BY <1>1, <1>3 DEF WithStep, State
<1>5. steps \in [DOMAIN Plan -> [status  : {"pending", "running", "passed", "failed"},
                                 receipt : {"passed", "failed", None}]]
  BY <1>1, <1>3 DEF State
<1>6. /\ steps[n + 1].status = status /\ steps[n + 1].receipt = receipt
      /\ \A i \in DOMAIN Plan \ {n + 1} : steps[i] = s.steps[i]
  BY <1>1, <1>3 DEF State
<1> HIDE DEF steps
<1>7. t \in State /\ t.status = phase /\ t.steps = steps /\ SameBut(s, t)
  BY <1>1, <1>4, <1>5 DEF State, SameBut
<1>8. Reached(t, IF status = "passed" THEN n + 1 ELSE n)
  BY <1>2, <1>3, <1>6, <1>7, PlanShape DEF Reached
<1>9. Receipted(t)
  BY <1>3, <1>6, <1>7 DEF Sound, Receipted
<1>10. Backed(t)
  BY <1>7 DEF Sound, Backed, SameBut
<1>11. /\ n + 1 \in 0 .. Len(Plan)
       /\ Passed(s) = 1 .. n
       /\ Passed(t) = 1 .. (IF status = "passed" THEN n + 1 ELSE n)
  BY <1>2, <1>3, <1>8, CurrentIs, PlanShape
<1>12. Passed(t) = Passed(s) \cup (IF status = "passed" THEN {n + 1} ELSE {})
  BY <1>11, PlanShape
<1> QED BY <1>3, <1>7, <1>8, <1>9, <1>10, <1>11, <1>12 DEF Sound, InOrder

-----------------------------------------------------------------------------
(* Every step is a step of one run, which changes its own place and memory *)

Moves(r, p, m, n) ==
  /\ pc' = [pc EXCEPT ![r] = p]
  /\ mem' = [mem EXCEPT ![r] = m]
  /\ turn' = [turn EXCEPT ![r] = n]

LEMMA MovesBy ==
  ASSUME Runs, NEW r \in Runners
  PROVE  /\ \A p : Continue(r, p) => Moves(r, p, mem[r], turn[r])
         /\ \A how : End(r, how) => Moves(r, "idle", None, 0)
         /\ \A p, s : Save(r, s) /\ Goto(r, p) => Moves(r, p, s, turn[r])
BY DEF Runs, Continue, End, Save, Goto, Moves

LEMMA RunsStep ==
  ASSUME Runs, NEW r \in Runners, NEW p, NEW m, NEW n, Moves(r, p, m, n), Holds(p, m, n)
  PROVE  Runs'
BY DEF Runs, Moves

LEMMA EndHolds == Holds("idle", None, 0)
BY RunAssumption DEF Holds, Places, Before, Opening, After, Executing, Evidencing, Delivering

(* The state that is saved when a step throws. *)
LEMMA ThrownIsSound ==
  ASSUME NEW r, mem[r] # None, Sound(mem[r]), Open(mem[r]) # {}
  PROVE  /\ Sound(ThrownState(r)) /\ SameBut(mem[r], ThrownState(r))
         /\ ThrownState(r).status = "failed"
         /\ Passed(ThrownState(r)) = Passed(mem[r])
<1> DEFINE s == mem[r]
           u == ThrownState(r)
<1>1. u = [WithStep(s, "failed", "failed") EXCEPT !.status = "failed"]
  BY DEF ThrownState
<1>2. /\ "failed" \in {"running", "passed", "failed"}
      /\ "failed" \in {"executing", "verifying", "review", "failed", s.status}
      /\ "failed" = IF "failed" = "running" THEN None ELSE "failed"
  OBVIOUS
<1> HIDE DEF s, u
<1>3. Sound(s) /\ Open(s) # {}
  BY DEF s
<1>4. /\ Sound(u) /\ SameBut(s, u) /\ u.status = "failed"
      /\ Passed(u) = Passed(s) \cup (IF "failed" = "passed" THEN {Current(s)} ELSE {})
  BY <1>1, <1>2, <1>3, NextStepIsSound
<1> QED BY <1>4 DEF s, u

LEMMA ThrowStep ==
  ASSUME SoundInv, NEW r \in Runners, pc[r] \in Executing,
         file' = ThrownState(r), NEW how, End(r, how)
  PROVE  Runs' /\ file' \in State /\ Sound(file')
<1>1. Holds(pc[r], mem[r], turn[r])
  BY DEF SoundInv, Runs
<1>2. mem[r] # None /\ Sound(mem[r]) /\ Open(mem[r]) # {}
  BY <1>1 DEF Holds, After, Executing
<1>3. Sound(file')
  BY <1>2, ThrownIsSound
<1> QED BY <1>3, MovesBy, RunsStep, EndHolds DEF SoundInv, Sound

(* The bounds, the planning worktree and the answers. *)
LEMMA BooksStep ==
  ASSUME SoundInv, NEW r \in Runners,
         BeginRun(r) \/ Proceed(r) \/ StepFails(r) \/ RevParseFails(r) \/ RemovalFails(r) \/ Crash(r)
  PROVE  Books'
<1> USE DEF SoundInv, Books
<1>1. ASSUME NEW how \in {"completed", "failed", "paused", "crashed"}, End(r, how)
      PROVE  answer' \in [Runners -> {"none", "completed", "failed", "paused", "crashed"}]
  BY <1>1 DEF End
<1>2. (\E p : Continue(r, p)) \/ (\E s : Save(r, s)) => answer' = answer
  BY DEF Continue, Save
<1>3. Throw(r) => End(r, "failed") /\ UNCHANGED planning
  BY DEF Throw
<1>4. CASE BeginRun(r)
  BY <1>4, RunAssumption DEF BeginRun
<1>5. CASE StepFails(r)
  BY <1>5, <1>1, <1>3 DEF StepFails
<1>6. CASE RemovalFails(r)
  BY <1>6, <1>1 DEF RemovalFails
<1>7. CASE Crash(r)
  BY <1>7, <1>1 DEF Crash
<1>8. CASE Proceed(r)
  <2>1. CASE MakePlan(r)
    BY <1>1, <1>2, <1>3, <2>1 DEF MakePlan, bounds
  <2>2. CASE Load(r)
    BY <1>1, <1>2, <1>3, <2>2 DEF Load, bounds
  <2>3. CASE UseWorkspace(r)
    BY <1>1, <1>2, <1>3, <2>3 DEF UseWorkspace, bounds
  <2>4. CASE CheckBranch(r)
    BY <1>1, <1>2, <1>3, <2>4 DEF CheckBranch, bounds
  <2>5. CASE AddWorktree(r)
    BY <1>1, <1>2, <1>3, <2>5 DEF AddWorktree, bounds
  <2>6. CASE SwitchBranch(r)
    BY <1>1, <1>2, <1>3, <2>6 DEF SwitchBranch, bounds
  <2>7. CASE Prepare(r)
    BY <1>1, <1>2, <1>3, <2>7 DEF Prepare, bounds
  <2>8. CASE StartStep(r)
    BY <1>1, <1>2, <1>3, <2>8 DEF StartStep, bounds
  <2>9. CASE StepPasses(r)
    BY <1>1, <1>2, <1>3, <2>9 DEF StepPasses, bounds
  <2>10. CASE ApplyPatch(r)
    BY <1>1, <1>2, <1>3, <2>10 DEF ApplyPatch, bounds
  <2>11. CASE Verify(r)
    BY <1>1, <1>2, <1>3, <2>11 DEF Verify, bounds
  <2>12. CASE ReuseEvidence(r)
    BY <1>1, <1>2, <1>3, <2>12 DEF ReuseEvidence, bounds
  <2>13. CASE CheckChanges(r)
    BY <1>1, <1>2, <1>3, <2>13 DEF CheckChanges, bounds
  <2>14. CASE WriteEvidence(r)
    BY <1>1, <1>3, <2>14 DEF WriteEvidence, bounds
  <2>15. CASE SaveEvidence(r)
    BY <1>1, <1>2, <1>3, <2>15 DEF SaveEvidence, bounds
  <2>16. CASE CommitCandidate(r)
    BY <1>1, <1>2, <1>3, <2>16 DEF CommitCandidate, bounds
  <2>17. CASE SaveCommit(r)
    BY <1>1, <1>2, <1>3, <2>17 DEF SaveCommit, bounds
  <2>18. CASE CheckCandidate(r)
    BY <1>1, <1>2, <1>3, <2>18 DEF CheckCandidate, bounds
  <2>19. CASE Push(r)
    BY <1>1, <1>2, <1>3, <2>19 DEF Push, bounds
  <2>20. CASE OpenPullRequest(r)
    BY <1>1, <1>2, <1>3, <2>20 DEF OpenPullRequest, bounds
  <2>21. CASE Deliver(r)
    BY <1>1, <1>2, <1>3, <2>21 DEF Deliver, bounds
  <2>22. CASE Complete(r)
    BY <1>1, <1>2, <1>3, <2>22 DEF Complete, bounds
  <2>23. CASE RemoveWorktree(r)
    BY <1>1, <1>2, <1>3, <2>23 DEF RemoveWorktree, bounds
  <2> QED BY <1>8, <2>1, <2>2, <2>3, <2>4, <2>5, <2>6, <2>7, <2>8, <2>9, <2>10, <2>11, <2>12, <2>13, <2>14, <2>15, <2>16, <2>17, <2>18, <2>19, <2>20, <2>21, <2>22, <2>23 DEF Proceed
<1>9. CASE RevParseFails(r)
  BY <1>9, <1>1 DEF RevParseFails
<1> QED BY <1>4, <1>5, <1>6, <1>7, <1>8, <1>9

-----------------------------------------------------------------------------
(* Contents *)

LEMMA BaseType == Base \in Commit
BY DEF Base, Commit

LEMMA TreeOfType == ASSUME NEW c \in Commit PROVE TreeOf(c) \in Tree
<1>1. CASE c = Base
  BY <1>1 DEF TreeOf, Tree, Bundle
<1>2. CASE c # Base
  <2>1. c \in Seq(Tree) /\ c # <<>>
    BY <1>2 DEF Commit, Base
  <2>2. Len(c) \in DOMAIN c
    BY <2>1
  <2> QED BY <1>2, <2>1, <2>2 DEF TreeOf
<1> QED BY <1>1, <1>2

LEMMA ExpectedType == ASSUME NEW s \in State \cup {None} PROVE Expected(s) \in Commit
BY BaseType DEF Expected, State

(* The evidence or the commit of a state is filled in, or its result. *)
LEMMA EvidenceIsSound ==
  ASSUME NEW s, Sound(s), s.evidence = None, NEW b \in Bundle,
         NEW t, t = [s EXCEPT !.evidence = b]
  PROVE  /\ Sound(t) /\ Open(t) = Open(s) /\ Current(t) = Current(s) /\ Passed(t) = Passed(s)
         /\ t.evidence = b /\ b # None /\ t.commit = s.commit /\ t.result = s.result
         /\ t.status = s.status
<1>1. /\ t \in State /\ t.evidence = b /\ t.commit = s.commit /\ t.result = s.result
      /\ t.status = s.status /\ t.steps = s.steps
  BY DEF Sound, State
<1>2. InOrder(t) /\ Receipted(t)
  BY <1>1 DEF Sound, InOrder, Reached, Receipted
<1>3. b # None
  BY NoneAssumption
<1>4. Backed(t)
  BY <1>1, <1>3 DEF Sound, Backed
<1>5. Open(t) = Open(s) /\ Passed(t) = Passed(s)
  BY <1>1 DEF Open, Passed
<1>6. Current(t) = Current(s)
  BY <1>5 DEF Current
<1> QED BY <1>1, <1>2, <1>3, <1>4, <1>5, <1>6 DEF Sound

LEMMA CommitIsSound ==
  ASSUME NEW s, Sound(s), s.evidence # None, s.commit = None, NEW c \in Commit,
         NEW t, t = [s EXCEPT !.commit = c]
  PROVE  /\ Sound(t) /\ Open(t) = Open(s) /\ Current(t) = Current(s) /\ Passed(t) = Passed(s)
         /\ t.commit = c /\ c # None /\ t.evidence = s.evidence /\ t.result = s.result
         /\ t.status = s.status
<1>1. /\ t \in State /\ t.commit = c /\ t.evidence = s.evidence /\ t.result = s.result
      /\ t.status = s.status /\ t.steps = s.steps
  BY DEF Sound, State
<1>2. InOrder(t) /\ Receipted(t)
  BY <1>1 DEF Sound, InOrder, Reached, Receipted
<1>3. c # None
  BY NoneAssumption
<1>4. Backed(t)
  BY <1>1, <1>3 DEF Sound, Backed
<1>5. Open(t) = Open(s) /\ Passed(t) = Passed(s)
  BY <1>1 DEF Open, Passed
<1>6. Current(t) = Current(s)
  BY <1>5 DEF Current
<1> QED BY <1>1, <1>2, <1>3, <1>4, <1>5, <1>6 DEF Sound

LEMMA LostIsSound ==
  ASSUME NEW s, Sound(s), s.result = None, s.status # "completed",
         NEW t, t = [s EXCEPT !.commit = None]
  PROVE  /\ Sound(t) /\ Passed(t) = Passed(s)
         /\ t.commit = None /\ t.evidence = s.evidence /\ t.result = None
<1>1. /\ t \in State /\ t.commit = None /\ t.evidence = s.evidence /\ t.result = s.result
      /\ t.status = s.status /\ t.steps = s.steps
  BY DEF Sound, State
<1>2. InOrder(t) /\ Receipted(t) /\ Passed(t) = Passed(s)
  BY <1>1 DEF Sound, InOrder, Reached, Receipted, Passed
<1>3. Backed(t)
  BY <1>1 DEF Backed
<1> QED BY <1>1, <1>2, <1>3 DEF Sound

(* What is saved when the commit that was made is not known. *)
LEMMA LostStates ==
  ASSUME SoundInv, NEW r \in Runners, RevParseFails(r)
  PROVE  /\ pc[r] = "saveCommit" /\ pc'[r] = "idle" /\ stranded'
         /\ UNCHANGED <<ws, branch, remote>>
         /\ mem[r] # None /\ mem'[r] = None /\ mem[r].commit # None
         /\ file' # None /\ Sound(file') /\ Passed(file') = Passed(mem[r])
         /\ file'.evidence = mem[r].evidence /\ file'.commit = None /\ file'.result = None
<1>1. /\ pc[r] = "saveCommit" /\ file' = [ThrownState(r) EXCEPT !.commit = None] /\ End(r, "failed")
      /\ Runs /\ Holds("saveCommit", mem[r], turn[r])
  BY DEF SoundInv, Runs, RevParseFails, At
<1>2. /\ mem[r] # None /\ Sound(mem[r]) /\ Open(mem[r]) # {} /\ mem[r].result = None
      /\ mem[r].commit # None
  BY <1>1 DEF Holds, After, Executing, Delivering
<1>3. /\ Sound(ThrownState(r)) /\ SameBut(mem[r], ThrownState(r))
      /\ ThrownState(r).status = "failed" /\ Passed(ThrownState(r)) = Passed(mem[r])
  BY <1>2, ThrownIsSound
<1>4. /\ Sound(file') /\ Passed(file') = Passed(mem[r])
      /\ file'.evidence = mem[r].evidence /\ file'.commit = None /\ file'.result = None
  BY <1>1, <1>2, <1>3, LostIsSound DEF SameBut
<1>5. pc'[r] = "idle" /\ mem'[r] = None
  BY <1>1 DEF Runs, End, Goto
<1> QED BY <1>1, <1>2, <1>4, <1>5, NoneAssumption DEF RevParseFails, Sound

LEMMA ResultIsSound ==
  ASSUME NEW s, Sound(s), s.commit # None, NEW published \in BOOLEAN,
         NEW t, t = [s EXCEPT !.result = [commit |-> s.commit, evidence |-> s.evidence,
                                          pullRequest |-> published]]
  PROVE  /\ Sound(t) /\ Open(t) = Open(s) /\ Current(t) = Current(s) /\ Passed(t) = Passed(s)
         /\ t.commit = s.commit /\ t.evidence = s.evidence
         /\ t.result # None /\ t.result.pullRequest = published /\ t.status = s.status
<1> DEFINE result == [commit |-> s.commit, evidence |-> s.evidence, pullRequest |-> published]
<1>1. result \in Result /\ result # None
  <2>1. result \in Result
    BY DEF Sound, Backed, State, Result
  <2> QED BY <2>1, NoneAssumption
<1>2. /\ result.commit = s.commit /\ result.evidence = s.evidence
      /\ result.pullRequest = published
  OBVIOUS
<1> HIDE DEF result
<1>3. /\ t \in State /\ t.result = result /\ t.evidence = s.evidence /\ t.commit = s.commit
      /\ t.status = s.status /\ t.steps = s.steps
  BY <1>1 DEF Sound, State, result
<1>4. InOrder(t) /\ Receipted(t)
  BY <1>3 DEF Sound, InOrder, Reached, Receipted
<1>5. Backed(t)
  BY <1>1, <1>2, <1>3 DEF Sound, Backed
<1>6. Open(t) = Open(s) /\ Passed(t) = Passed(s)
  BY <1>3 DEF Open, Passed
<1>7. Current(t) = Current(s)
  BY <1>6 DEF Current
<1> QED BY <1>1, <1>2, <1>3, <1>4, <1>5, <1>6, <1>7 DEF Sound

LEMMA CompletedIsSound ==
  ASSUME NEW s, Sound(s), s.result # None, NEW t, t = [s EXCEPT !.status = "completed"]
  PROVE  /\ Sound(t) /\ Open(t) = Open(s) /\ Passed(t) = Passed(s)
         /\ SameBut(s, t) /\ t.status = "completed"
<1>1. /\ t \in State /\ SameBut(s, t) /\ t.status = "completed" /\ t.steps = s.steps
  BY DEF Sound, State, SameBut
<1>2. InOrder(t) /\ Receipted(t)
  BY <1>1 DEF Sound, InOrder, Reached, Receipted
<1>3. Backed(t)
  BY <1>1 DEF Sound, Backed, SameBut
<1>4. Open(t) = Open(s) /\ Passed(t) = Passed(s)
  BY <1>1 DEF Open, Passed
<1> QED BY <1>1, <1>2, <1>3, <1>4 DEF Sound

(* The tree of the worktree with another patch, or another bundle. *)
LEMMA PatchedType ==
  ASSUME NEW w \in Workspace, NEW patch \in Patches,
         NEW v, v = [w EXCEPT !.tree.patches = @ \cup {patch}]
  PROVE  /\ v \in Workspace /\ v.head = w.head /\ v.onBranch = w.onBranch
         /\ v.tree.patches = w.tree.patches \cup {patch} /\ v.tree.evidence = w.tree.evidence
<1>1. w.tree \in Tree
  BY DEF Workspace
<1> DEFINE tree == [w.tree EXCEPT !.patches = @ \cup {patch}]
<1>2. /\ tree \in Tree /\ tree.patches = w.tree.patches \cup {patch}
      /\ tree.evidence = w.tree.evidence
  BY <1>1 DEF Tree
<1>3. v = [w EXCEPT !.tree = tree]
  BY DEF Workspace
<1> HIDE DEF tree
<1> QED BY <1>2, <1>3 DEF Workspace

LEMMA WithBundleType ==
  ASSUME NEW w \in Workspace, NEW b \in Bundle,
         NEW v, v = [w EXCEPT !.tree.evidence = @ \cup {b}]
  PROVE  /\ v \in Workspace /\ v.head = w.head /\ v.onBranch = w.onBranch
         /\ v.tree.patches = w.tree.patches /\ v.tree.evidence = w.tree.evidence \cup {b}
<1>1. w.tree \in Tree
  BY DEF Workspace
<1> DEFINE tree == [w.tree EXCEPT !.evidence = @ \cup {b}]
<1>2. /\ tree \in Tree /\ tree.evidence = w.tree.evidence \cup {b}
      /\ tree.patches = w.tree.patches
  BY <1>1 DEF Tree
<1>3. v = [w EXCEPT !.tree = tree]
  BY DEF Workspace
<1> HIDE DEF tree
<1> QED BY <1>2, <1>3 DEF Workspace

LEMMA CommittedType ==
  ASSUME NEW w \in Workspace, NEW v, v = [w EXCEPT !.head = Append(w.head, w.tree)]
  PROVE  /\ Append(w.head, w.tree) \in Commit
         /\ v \in Workspace /\ v.head = Append(w.head, w.tree)
         /\ v.onBranch = w.onBranch /\ v.tree = w.tree
<1>1. Append(w.head, w.tree) \in Commit
  BY DEF Workspace, Commit
<1> QED BY <1>1 DEF Workspace

(* The bundle that is written describes the worktree. *)
LEMMA BundleType ==
  ASSUME NEW w \in Workspace, NEW m, NEW n, Holds("writeEvidence", m, n),
         NEW b, b = [tree  |-> w.tree.patches,
                     steps |-> {i \in DOMAIN Plan : m.steps[i].receipt = "passed"},
                     made  |-> n]
  PROVE  b \in Bundle
<1>1. n \in 1 .. MaxRuns
  BY RunAssumption DEF Holds
<1>2. w.tree.patches \subseteq Patches
  BY DEF Workspace, Tree
<1> QED BY <1>1, <1>2 DEF Bundle

LEMMA RunningIsSound ==
  ASSUME NEW s, Sound(s), Open(s) # {}, NEW kind,
         NEW t, t = [WithStep(s, "running", None) EXCEPT !.status = PhaseFor(kind)]
  PROVE  /\ Sound(t) /\ SameBut(s, t) /\ Passed(t) = Passed(s)
         /\ t.status # "completed" /\ Open(t) = Open(s) /\ Current(t) = Current(s)
<1> DEFINE phase == PhaseFor(kind)
<1>1. phase \in {"executing", "verifying", "review"}
  BY DEF PhaseFor
<1> HIDE DEF phase
<1>2. t = [WithStep(s, "running", None) EXCEPT !.status = phase]
  BY DEF phase
<1>3. phase \in {"executing", "verifying", "review", "failed", s.status} /\ "running" \in {"running", "passed", "failed"}
  BY <1>1
<1>4. None = IF "running" = "running" THEN None ELSE "running"
  OBVIOUS
<1>5. /\ Sound(t) /\ SameBut(s, t) /\ t.status = phase
      /\ Passed(t) = Passed(s) \cup (IF "running" = "passed" THEN {Current(s)} ELSE {})
  BY <1>2, <1>3, <1>4, NextStepIsSound
<1>6. Passed(t) = Passed(s)
  BY <1>5
<1>7. Open(t) = Open(s)
  BY <1>6 DEF Open, Passed
<1> QED BY <1>1, <1>5, <1>6, <1>7 DEF Current

LEMMA PassedIsSound ==
  ASSUME NEW s, Sound(s), Open(s) # {}, NEW t, t = WithStep(s, "passed", "passed")
  PROVE  /\ Sound(t) /\ SameBut(s, t) /\ t.status = s.status
         /\ Passed(t) = Passed(s) \cup {Current(s)}
<1>1. t = [t EXCEPT !.status = s.status]
  <2>1. s = [status |-> s.status, steps |-> s.steps, evidence |-> s.evidence,
             commit |-> s.commit, result |-> s.result]
    BY DEF Sound, State
  <2>2. t = [status |-> s.status,
             steps |-> [s.steps EXCEPT ![Current(s)] = [status |-> "passed", receipt |-> "passed"]],
             evidence |-> s.evidence, commit |-> s.commit, result |-> s.result]
    BY <2>1 DEF WithStep
  <2> QED BY <2>2
<1>2. t = [WithStep(s, "passed", "passed") EXCEPT !.status = s.status]
  BY <1>1
<1>3. /\ s.status \in {"executing", "verifying", "review", "failed", s.status}
      /\ "passed" \in {"running", "passed", "failed"}
      /\ "passed" = IF "passed" = "running" THEN None ELSE "passed"
  OBVIOUS
<1>4. /\ Sound(t) /\ SameBut(s, t) /\ t.status = s.status
      /\ Passed(t) = Passed(s) \cup (IF "passed" = "passed" THEN {Current(s)} ELSE {})
  BY <1>2, <1>3, NextStepIsSound
<1> QED BY <1>4

-----------------------------------------------------------------------------
(* Type correctness, and the states the recovery file can be in *)

LEMMA SoundInit == Init => SoundInv
<1> SUFFICES ASSUME Init PROVE SoundInv
  OBVIOUS
<1>1. Disk
  BY DEF Init, Disk
<1>2. Books
  <2>1. planning \in BOOLEAN /\ stranded \in BOOLEAN
    BY Zenon DEF Init
  <2>2. answer \in [Runners -> {"none", "completed", "failed", "paused", "crashed"}]
    BY DEF Init
  <2>3. runs \in 0 .. MaxRuns /\ overlaps \in 0 .. MaxOverlaps
    BY RunAssumption DEF Init
  <2> QED BY <2>1, <2>2, <2>3 DEF Books
<1>3. Runs
  BY EndHolds DEF Init, Runs
<1> QED BY <1>1, <1>2, <1>3 DEF SoundInv

(* Steps that leave the disk and the remote alone. *)
LEMMA AsideStep ==
  ASSUME SoundInv, NEW r \in Runners,
         BeginRun(r) \/ MakePlan(r) \/ Load(r) \/ UseWorkspace(r) \/ CheckBranch(r)
           \/ RemovalFails(r) \/ Crash(r)
  PROVE  Disk' /\ Runs'
<1>1. Runs /\ Holds(pc[r], mem[r], turn[r]) /\ Disk /\ runs \in Nat
  BY DEF SoundInv, Runs, Books
<1> USE DEF Places, Before, Opening, After, Executing, Evidencing, Delivering
<1>2. UNCHANGED <<file, ws, branch, remote>>
  BY DEF BeginRun, MakePlan, Load, UseWorkspace, CheckBranch, RemovalFails, Crash
<1>3. Disk'
  BY <1>1, <1>2 DEF Disk
<1>4. ASSUME NEW p, Continue(r, p), Holds(p, mem[r], turn[r]) PROVE Runs'
  BY <1>1, <1>4, MovesBy, RunsStep
<1>5. ASSUME NEW how, End(r, how) PROVE Runs'
  BY <1>1, <1>5, MovesBy, RunsStep, EndHolds
<1>6. CASE BeginRun(r)
  <2>1. Moves(r, "planning", mem[r], runs + 1)
    BY <1>1, <1>6 DEF BeginRun, Moves, Goto, Runs
  <2>2. runs + 1 \in 1 .. MaxRuns
    BY <1>1, <1>6, RunAssumption DEF BeginRun
  <2>3. Holds("planning", mem[r], runs + 1)
    BY <1>1, <1>6, <2>2 DEF BeginRun, At, Holds
  <2> QED BY <1>1, <1>3, <2>1, <2>3, RunsStep
<1>7. CASE MakePlan(r)
  <2>1. Holds("load", mem[r], turn[r])
    BY <1>1, <1>7 DEF MakePlan, At, Holds
  <2> QED BY <1>3, <1>4, <1>5, <1>7, <2>1 DEF MakePlan
<1>8. CASE Load(r)
  <2>1. Holds("workspace", mem[r], turn[r])
    BY <1>1, <1>8 DEF Load, At, Holds
  <2>2. ASSUME file # None, Goto(r, "workspace"), mem' = [mem EXCEPT ![r] = file], turn' = turn
        PROVE  Runs'
    <3>1. Moves(r, "workspace", file, turn[r])
      BY <1>1, <2>2 DEF Moves, Goto, Runs
    <3>2. Holds("workspace", file, turn[r])
      BY <1>1, <1>8, <2>2 DEF Load, At, Holds, Disk
    <3> QED BY <1>1, <3>1, <3>2, RunsStep
  <2> QED BY <1>3, <1>4, <1>5, <1>8, <2>1, <2>2 DEF Load
<1>9. CASE UseWorkspace(r)
  <2>1. Holds("prepare", mem[r], turn[r])
    BY <1>1, <1>9 DEF UseWorkspace, At, Holds
  <2> QED BY <1>3, <1>4, <1>5, <1>9, <2>1 DEF UseWorkspace
<1>10. CASE CheckBranch(r)
  <2>1. Holds("add", mem[r], turn[r])
    BY <1>1, <1>10 DEF CheckBranch, At, Holds
  <2> QED BY <1>3, <1>4, <1>5, <1>10, <2>1 DEF CheckBranch
<1>11. CASE RemovalFails(r) \/ Crash(r)
  BY <1>3, <1>5, <1>11 DEF RemovalFails, Crash
<1> QED BY <1>6, <1>7, <1>8, <1>9, <1>10, <1>11

(* The worktree is made. *)
LEMMA MakeStep ==
  ASSUME SoundInv, NEW r \in Runners, AddWorktree(r) \/ SwitchBranch(r)
  PROVE  Disk' /\ Runs'
<1>1. Runs /\ Holds(pc[r], mem[r], turn[r]) /\ Disk
  BY DEF SoundInv, Runs
<1> USE DEF Places, Before, Opening, After, Executing, Evidencing, Delivering
<1>2. ASSUME NEW p, Continue(r, p), Holds(p, mem[r], turn[r]) PROVE Runs'
  BY <1>1, <1>2, MovesBy, RunsStep
<1>3. ASSUME NEW how, End(r, how) PROVE Runs'
  BY <1>1, <1>3, MovesBy, RunsStep, EndHolds
<1>4. CASE AddWorktree(r)
  <2>1. Holds("switch", mem[r], turn[r])
    BY <1>1, <1>4 DEF AddWorktree, At, Holds
  <2>2. Expected(mem[r]) \in Commit
    BY <1>1, ExpectedType DEF Holds
  <2> DEFINE off == FALSE
  <2>3. off \in BOOLEAN
    BY Zenon
  <2>4. ws' = [head |-> Expected(mem[r]), onBranch |-> off, tree |-> TreeOf(Expected(mem[r]))]
          \/ ws' = ws
    BY <1>4 DEF AddWorktree
  <2> HIDE DEF off
  <2>5. ws' \in Workspace \cup {None}
    BY <1>1, <2>2, <2>3, <2>4, TreeOfType DEF Workspace, Disk
  <2> QED BY <1>1, <1>2, <1>3, <1>4, <2>1, <2>5 DEF AddWorktree, Disk
<1>5. CASE SwitchBranch(r)
  <2>1. Holds("prepare", mem[r], turn[r])
    BY <1>1, <1>5 DEF SwitchBranch, At, Holds
  <2>2. ws' \in Workspace \cup {None} /\ branch' \in Commit \cup {None}
    BY <1>1, <1>5 DEF SwitchBranch, Workspace, Disk
  <2> QED BY <1>1, <1>2, <1>3, <1>5, <2>1, <2>2 DEF SwitchBranch, Disk
<1> QED BY <1>4, <1>5

(* Steps that save the state. *)
LEMMA SaveStep ==
  ASSUME SoundInv, NEW r \in Runners,
         Prepare(r) \/ StartStep(r) \/ StepPasses(r) \/ SaveEvidence(r) \/ SaveCommit(r)
           \/ Deliver(r) \/ Complete(r) \/ RemoveWorktree(r)
  PROVE  Disk' /\ Runs'
<1>1. Runs /\ Holds(pc[r], mem[r], turn[r]) /\ Disk
  BY DEF SoundInv, Runs
<1> USE DEF Places, Before, Opening, After, Executing, Evidencing, Delivering
<1>2. ASSUME NEW p, Continue(r, p), Holds(p, mem[r], turn[r]) PROVE Runs'
  BY <1>1, <1>2, MovesBy, RunsStep
<1>3. ASSUME NEW how, End(r, how) PROVE Runs'
  BY <1>1, <1>3, MovesBy, RunsStep, EndHolds
<1>4. ASSUME NEW s, Sound(s), file' = s, UNCHANGED <<ws, branch, remote>> PROVE Disk'
  BY <1>1, <1>4 DEF Disk, Sound
<1>5. ASSUME UNCHANGED <<file, ws, branch, remote>> PROVE Disk'
  BY <1>1, <1>5 DEF Disk
<1>6. ASSUME NEW s, NEW p, Sound(s), Save(r, s), Goto(r, p), Holds(p, s, turn[r]),
             UNCHANGED <<ws, branch, remote>>
      PROVE  Disk' /\ Runs'
  BY <1>1, <1>4, <1>6, MovesBy, RunsStep DEF Save
<1>7. \A s : Sound(s) => s \in State /\ s # None
  BY NoneAssumption DEF Sound
<1>8. CASE Prepare(r)
  <2>1. pc[r] = "prepare"
    BY <1>8 DEF Prepare, At
  <2>2. ASSUME NEW s, Sound(s) PROVE Holds("step", s, turn[r])
    BY <1>1, <1>7, <2>1, <2>2 DEF Holds
  <2>3. CASE ws = None
    BY <1>3, <1>5, <1>8, <2>3 DEF Prepare
  <2>4. CASE ws # None /\ mem[r] = None
    BY <1>6, <1>8, <2>2, <2>4, NewIsSound DEF Prepare
  <2>5. CASE ws # None /\ mem[r] # None /\ mem[r].status = "failed"
    <3>1. Sound(Retried(mem[r]))
      BY <1>1, <2>5, RetriedIsSound DEF Holds
    <3> QED BY <1>6, <1>8, <2>2, <2>5, <3>1 DEF Prepare
  <2>6. CASE ws # None /\ mem[r] # None /\ mem[r].status # "failed"
    <3>1. Holds("step", mem[r], turn[r])
      BY <1>1, <2>2, <2>6 DEF Holds
    <3> QED BY <1>2, <1>5, <1>8, <2>6, <3>1 DEF Prepare
  <2> QED BY <2>3, <2>4, <2>5, <2>6
<1>9. CASE StartStep(r)
  <2> DEFINE s == [WithStep(mem[r], "running", None) EXCEPT !.status = PhaseFor(Kind(r))]
  <2>1. pc[r] = "step" /\ Save(r, s) /\ Goto(r, "execute") /\ Open(mem[r]) # {}
    BY <1>9 DEF StartStep, At
  <2>2. Sound(mem[r])
    BY <1>1, <2>1 DEF Holds
  <2>3. Sound(s) /\ Open(s) = Open(mem[r])
    BY <2>1, <2>2, RunningIsSound
  <2> HIDE DEF s
  <2>4. Holds("execute", s, turn[r])
    BY <1>1, <1>7, <2>1, <2>3 DEF Holds
  <2> QED BY <1>6, <1>9, <2>1, <2>3, <2>4 DEF StartStep
<1>10. CASE StepPasses(r)
  <2> DEFINE s == WithStep(mem[r], "passed", "passed")
  <2>1. pc[r] = "passing"
    BY <1>10 DEF StepPasses, At
  <2>2. Sound(mem[r]) /\ Open(mem[r]) # {}
    BY <1>1, <2>1 DEF Holds
  <2>3. Sound(s)
    BY <2>2, PassedIsSound
  <2>4. \/ Save(r, s) /\ Goto(r, "step")
        \/ file' = s /\ End(r, "paused")
    BY <1>10 DEF StepPasses
  <2> HIDE DEF s
  <2>5. Holds("step", s, turn[r])
    BY <1>1, <1>7, <2>1, <2>3 DEF Holds
  <2> QED BY <1>3, <1>4, <1>6, <1>10, <2>3, <2>4, <2>5 DEF StepPasses
<1>11. CASE SaveEvidence(r)
  <2>1. pc[r] = "saveEvidence" /\ Sound(mem[r])
    BY <1>1, <1>11 DEF SaveEvidence, At, Holds
  <2>2. Holds("passing", mem[r], turn[r])
    BY <1>1, <2>1 DEF Holds
  <2> QED BY <1>6, <1>11, <2>1, <2>2 DEF SaveEvidence
<1>12. CASE SaveCommit(r)
  <2>1. pc[r] = "saveCommit" /\ Sound(mem[r])
    BY <1>1, <1>12 DEF SaveCommit, At, Holds
  <2>2. Holds("deliver", mem[r], turn[r])
    BY <1>1, <2>1 DEF Holds
  <2> QED BY <1>6, <1>12, <2>1, <2>2 DEF SaveCommit
<1>13. CASE Deliver(r)
  <2> DEFINE published == Delivery = "github"
             s == [mem[r] EXCEPT !.result = [commit |-> mem[r].commit,
                                             evidence |-> mem[r].evidence,
                                             pullRequest |-> published]]
  <2>1. pc[r] \in {"delivered", "deliver"} /\ Save(r, s) /\ Goto(r, "passing")
    BY <1>13 DEF Deliver, At
  <2>2. Sound(mem[r]) /\ mem[r].commit # None /\ Open(mem[r]) # {}
    BY <1>1, <2>1 DEF Holds
  <2>3. published \in BOOLEAN
    OBVIOUS
  <2> HIDE DEF published
  <2>4. Sound(s) /\ Open(s) = Open(mem[r])
    BY <2>2, <2>3, ResultIsSound
  <2> HIDE DEF s
  <2>5. Holds("passing", s, turn[r])
    BY <1>1, <1>7, <2>1, <2>2, <2>4 DEF Holds
  <2> QED BY <1>6, <1>13, <2>1, <2>4, <2>5 DEF Deliver
<1>14. CASE Complete(r)
  <2> DEFINE s == [mem[r] EXCEPT !.status = "completed"]
  <2>1. pc[r] = "step" /\ Sound(mem[r])
    BY <1>1, <1>14 DEF Complete, At, Holds
  <2>2. CASE mem[r].result = None
    BY <1>3, <1>5, <1>14, <2>2 DEF Complete
  <2>3. CASE mem[r].result # None
    <3>1. Sound(s)
      BY <2>1, <2>3, CompletedIsSound
    <3>2. Save(r, s) /\ Goto(r, "cleanup")
      BY <1>14, <2>3 DEF Complete
    <3> HIDE DEF s
    <3>3. Holds("cleanup", s, turn[r])
      BY <1>1, <1>7, <2>1, <3>1 DEF Holds
    <3> QED BY <1>6, <1>14, <3>1, <3>2, <3>3 DEF Complete
  <2> QED BY <2>2, <2>3
<1>15. CASE RemoveWorktree(r)
  BY <1>1, <1>3, <1>15 DEF RemoveWorktree, Disk
<1> QED BY <1>8, <1>9, <1>10, <1>11, <1>12, <1>13, <1>14, <1>15

(* Steps that work in the worktree or on the remote, or throw. *)
LEMMA WorkStep ==
  ASSUME SoundInv, NEW r \in Runners,
         StepFails(r) \/ RevParseFails(r) \/ ApplyPatch(r) \/ Verify(r) \/ ReuseEvidence(r) \/ CheckChanges(r)
           \/ WriteEvidence(r) \/ CommitCandidate(r) \/ CheckCandidate(r) \/ Push(r)
           \/ OpenPullRequest(r)
  PROVE  Disk' /\ Runs'
<1>1. Runs /\ Holds(pc[r], mem[r], turn[r]) /\ Disk
  BY DEF SoundInv, Runs
<1> USE DEF Places, Before, Opening, After, Executing, Evidencing, Delivering
<1>2. /\ pc[r] \in Executing /\ mem[r] # None /\ Sound(mem[r]) /\ Open(mem[r]) # {}
      /\ mem[r] \in State
  BY <1>1 DEF StepFails, RevParseFails, ApplyPatch, Verify, ReuseEvidence, CheckChanges, WriteEvidence,
              CommitCandidate, CheckCandidate, Push, OpenPullRequest, At, Holds, Sound
<1>3. ASSUME NEW p, Continue(r, p), Holds(p, mem[r], turn[r]) PROVE Runs'
  BY <1>1, <1>3, MovesBy, RunsStep
<1>4. ASSUME Throw(r) PROVE Disk' /\ Runs'
  <2>1. Runs' /\ file' \in State /\ Sound(file')
    BY <1>2, <1>4, ThrowStep DEF Throw
  <2> QED BY <1>1, <1>4, <2>1 DEF Throw, Disk
<1>5. ASSUME UNCHANGED <<file, ws, branch, remote>> PROVE Disk'
  BY <1>1, <1>5 DEF Disk
<1>6. CASE StepFails(r)
  BY <1>4, <1>6 DEF StepFails
<1>7. CASE ApplyPatch(r)
  <2>1. CASE ws = None
    BY <1>4, <1>7, <2>1 DEF ApplyPatch
  <2>2. CASE ws # None
    <3>1. ws \in Workspace /\ Kind(r) \in Patches
      BY <1>1, <1>7, <2>2 DEF ApplyPatch, Disk
    <3>2. ws' = [ws EXCEPT !.tree.patches = @ \cup {Kind(r)}]
      BY <1>7, <2>2 DEF ApplyPatch
    <3>3. ws' \in Workspace
      BY <3>1, <3>2, PatchedType
    <3>4. Holds("passing", mem[r], turn[r])
      BY <1>1, <1>2 DEF Holds
    <3> QED BY <1>1, <1>3, <1>7, <2>2, <3>3, <3>4 DEF ApplyPatch, Disk
  <2> QED BY <2>1, <2>2
<1>8. CASE Verify(r) \/ ReuseEvidence(r)
  <2>1. Holds("passing", mem[r], turn[r])
    BY <1>1, <1>2 DEF Holds
  <2> QED BY <1>3, <1>4, <1>5, <1>8, <2>1 DEF Verify, ReuseEvidence
<1>9. CASE CheckChanges(r)
  <2>1. Holds("writeEvidence", mem[r], turn[r])
    BY <1>1, <1>2, <1>9 DEF CheckChanges, At, Kind, Holds
  <2> QED BY <1>3, <1>4, <1>5, <1>9, <2>1 DEF CheckChanges
<1>10. CASE WriteEvidence(r)
  <2>1. CASE ws = None
    BY <1>4, <1>10, <2>1 DEF WriteEvidence
  <2>2. CASE ws # None
    <3> DEFINE b == [tree  |-> ws.tree.patches,
                     steps |-> {i \in DOMAIN Plan : mem[r].steps[i].receipt = "passed"},
                     made  |-> turn[r]]
               s == [mem[r] EXCEPT !.evidence = b]
    <3>1. ws \in Workspace /\ Holds("writeEvidence", mem[r], turn[r]) /\ mem[r].evidence = None
      BY <1>1, <1>10, <2>2 DEF WriteEvidence, At, Disk, Holds
    <3>2. /\ ws' = [ws EXCEPT !.tree.evidence = @ \cup {b}]
          /\ mem' = [mem EXCEPT ![r] = s] /\ Goto(r, "saveEvidence") /\ turn' = turn
          /\ UNCHANGED <<file, branch, remote>>
      BY <1>1, <1>10, <2>2 DEF WriteEvidence, Runs
    <3>3. b \in Bundle
      BY <3>1, BundleType
    <3> HIDE DEF b
    <3>4. ws' \in Workspace
      BY <3>1, <3>2, <3>3, WithBundleType
    <3>5. /\ Sound(s) /\ Open(s) = Open(mem[r]) /\ Current(s) = Current(mem[r])
          /\ s.evidence # None
      BY <1>2, <3>1, <3>3, EvidenceIsSound
    <3>6. s \in State /\ s # None
      BY <3>5, NoneAssumption DEF Sound
    <3> HIDE DEF s
    <3>7. Holds("saveEvidence", s, turn[r])
      BY <1>2, <3>1, <3>5, <3>6 DEF Holds
    <3>8. Moves(r, "saveEvidence", s, turn[r])
      BY <1>1, <3>2 DEF Moves, Goto, Runs
    <3> QED BY <1>1, <3>2, <3>4, <3>7, <3>8, RunsStep DEF Disk
  <2> QED BY <2>1, <2>2
<1>11. CASE CommitCandidate(r)
  <2>1. CASE Throw(r)
    BY <1>4, <2>1
  <2>2. CASE Continue(r, "deliver") /\ mem[r].commit # None /\ UNCHANGED <<file, ws, branch, remote>>
    <3>1. Holds("deliver", mem[r], turn[r])
      BY <1>1, <1>2, <1>11, <2>2 DEF CommitCandidate, At, Kind, Holds
    <3> QED BY <1>3, <1>5, <2>2, <3>1
  <2>3. CASE ~Throw(r) /\ ~(Continue(r, "deliver") /\ mem[r].commit # None
                              /\ UNCHANGED <<file, ws, branch, remote>>)
    <3> DEFINE c == Append(ws.head, ws.tree)
               s == [mem[r] EXCEPT !.commit = c]
    <3>1. ws \in Workspace /\ mem[r].evidence # None /\ mem[r].commit = None
      BY <1>1, <1>11, <2>3 DEF CommitCandidate, Disk
    <3>2. /\ ws' = [ws EXCEPT !.head = c] /\ branch' \in {c, branch}
          /\ mem' = [mem EXCEPT ![r] = s] /\ Goto(r, "saveCommit") /\ turn' = turn
          /\ UNCHANGED <<file, remote>>
      BY <1>1, <1>11, <2>3 DEF CommitCandidate, Runs
    <3>3. c \in Commit /\ ws' \in Workspace
      BY <3>1, <3>2, CommittedType
    <3>4. Plan[Current(mem[r])] = "deliver"
      BY <1>11 DEF CommitCandidate, Kind
    <3> HIDE DEF c
    <3>5. /\ Sound(s) /\ Open(s) = Open(mem[r]) /\ Current(s) = Current(mem[r])
          /\ s.commit # None /\ s.result = None
      BY <1>2, <3>1, <3>3, CommitIsSound DEF Sound, Backed
    <3>6. s \in State /\ s # None
      BY <3>5, NoneAssumption DEF Sound
    <3> HIDE DEF s
    <3>7. Holds("saveCommit", s, turn[r])
      BY <1>1, <1>2, <3>4, <3>5, <3>6 DEF Holds
    <3>8. Moves(r, "saveCommit", s, turn[r])
      BY <1>1, <3>2 DEF Moves, Goto, Runs
    <3> QED BY <1>1, <3>2, <3>3, <3>7, <3>8, RunsStep DEF Disk
  <2> QED BY <2>1, <2>2, <2>3
<1>12. CASE CheckCandidate(r)
  <2>1. Holds("push", mem[r], turn[r])
    BY <1>1, <1>12 DEF CheckCandidate, At, Holds
  <2> QED BY <1>3, <1>4, <1>5, <1>12, <2>1 DEF CheckCandidate
<1>13. CASE Push(r)
  <2>1. Holds("pullRequest", mem[r], turn[r])
    BY <1>1, <1>13 DEF Push, At, Holds
  <2>2. CASE Throw(r)
    BY <1>4, <2>2
  <2>3. CASE ~Throw(r)
    <3>1. /\ Continue(r, "pullRequest") /\ UNCHANGED <<file, ws, branch>>
          /\ ws # None /\ remote' = [remote EXCEPT !.branch = ws.head]
      BY <1>13, <2>3 DEF Push
    <3>2. ws.head \in Commit
      BY <1>1, <3>1 DEF Disk, Workspace
    <3> QED BY <1>1, <1>3, <2>1, <3>1, <3>2 DEF Disk
  <2> QED BY <2>2, <2>3
<1>14. CASE OpenPullRequest(r)
  <2>1. Holds("delivered", mem[r], turn[r])
    BY <1>1, <1>14 DEF OpenPullRequest, At, Holds
  <2> DEFINE on == TRUE
  <2>2. on \in BOOLEAN
    BY Zenon
  <2>3. remote' = [remote EXCEPT !.pullRequest = on] /\ UNCHANGED <<ws, branch>>
    BY <1>14 DEF OpenPullRequest
  <2> HIDE DEF on
  <2>4. remote' \in [branch : Commit \cup {None}, pullRequest : BOOLEAN]
    BY <1>1, <2>2, <2>3 DEF Disk
  <2>5. CASE Continue(r, "delivered") /\ UNCHANGED file
    BY <1>1, <1>3, <2>1, <2>3, <2>4, <2>5 DEF Disk
  <2>6. CASE file' = ThrownState(r) /\ End(r, "failed")
    <3>1. Runs' /\ file' \in State /\ Sound(file')
      BY <1>2, <2>6, ThrowStep
    <3> QED BY <1>1, <2>3, <2>4, <3>1 DEF Disk
  <2> QED BY <1>14, <2>5, <2>6 DEF OpenPullRequest
<1>15. CASE RevParseFails(r)
  <2>1. End(r, "failed") /\ Sound(file') /\ UNCHANGED <<ws, branch, remote>>
    BY <1>15, LostStates DEF RevParseFails
  <2> QED BY <1>1, <2>1, MovesBy, RunsStep, EndHolds DEF Disk, Sound
<1> QED BY <1>6, <1>7, <1>8, <1>9, <1>10, <1>11, <1>12, <1>13, <1>14, <1>15

LEMMA SoundStep == SoundInv /\ [Next]_vars => SoundInv'
<1> SUFFICES ASSUME SoundInv, [Next]_vars PROVE SoundInv'
  OBVIOUS
<1>1. CASE UNCHANGED vars
  <2>1. Disk' /\ Books' /\ Runs'
    BY <1>1 DEF vars, SoundInv, Disk, Books, Runs
  <2> QED BY <2>1 DEF SoundInv
<1>2. CASE Next
  <2>1. PICK r \in Runners :
          BeginRun(r) \/ Proceed(r) \/ StepFails(r) \/ RevParseFails(r) \/ RemovalFails(r) \/ Crash(r)
    BY <1>2 DEF Next
  <2>2. Books'
    BY <2>1, BooksStep
  <2>3. Disk' /\ Runs'
    BY <2>1, AsideStep, MakeStep, SaveStep, WorkStep DEF Proceed
  <2> QED BY <2>2, <2>3 DEF SoundInv
<1> QED BY <1>1, <1>2

LEMMA SoundTypes == SoundInv => TypeOK
<1> SUFFICES ASSUME SoundInv PROVE TypeOK
  OBVIOUS
<1>1. mem \in [Runners -> State \cup {None}] /\ turn \in [Runners -> 0 .. MaxRuns]
  BY DEF SoundInv, Runs, Holds
<1> QED BY <1>1 DEF SoundInv, Disk, Books, TypeOK

(* Every value keeps its type. *)
THEOREM RunTypeTheorem == Spec => []TypeOK
BY SoundInit, SoundStep, SoundTypes, PTL DEF Spec

(* Whatever interrupted a run, and however runs overlap, loading accepts   *)
(* the state that was saved.                                               *)
THEOREM SavedStateTheorem == Spec => []SavedStateAccepted
<1>1. SoundInv => SavedStateAccepted
  BY SoundIsAccepted DEF SoundInv, Disk, SavedStateAccepted
<1> QED BY <1>1, SoundInit, SoundStep, PTL DEF Spec

-----------------------------------------------------------------------------
(* Runs that do not overlap *)

LEMMA NoOverlapBefore ==
  ASSUME SoundInv, NEW r \in Runners, overlaps' = 0,
         BeginRun(r) \/ Proceed(r) \/ StepFails(r) \/ RevParseFails(r) \/ RemovalFails(r) \/ Crash(r)
  PROVE  overlaps = 0 /\ (Quiet \/ ~At(r, "idle"))
<1>1. overlaps \in Nat
  BY DEF SoundInv, Books
<1>2. CASE BeginRun(r)
  BY <1>1, <1>2 DEF BeginRun
<1>3. CASE StepFails(r) \/ RevParseFails(r) \/ RemovalFails(r) \/ Crash(r)
  BY <1>3 DEF StepFails, RevParseFails, RemovalFails, Crash, At
<1>4. CASE Proceed(r)
  BY <1>4 DEF Proceed, At, bounds, MakePlan, Load, UseWorkspace, CheckBranch, AddWorktree,
       SwitchBranch, Prepare, StartStep, StepPasses, ApplyPatch, Verify, ReuseEvidence,
       CheckChanges, WriteEvidence, SaveEvidence, CommitCandidate, SaveCommit, CheckCandidate,
       Push, OpenPullRequest, Deliver, Complete, RemoveWorktree
<1> QED BY <1>2, <1>3, <1>4

(* The others are idle, so that what is said of the one that moves is all. *)
LEMMA AloneMoves ==
  ASSUME SoundInv, Exclusive, NEW r \in Runners, Quiet \/ ~At(r, "idle"),
         NEW p, NEW m, NEW n, Moves(r, p, m, n), Agrees(p, m, file')
  PROVE  Exclusive' /\ \A q \in Runners : Agrees(pc'[q], mem'[q], file')
<1>1. pc = [q \in Runners |-> pc[q]] /\ mem = [q \in Runners |-> mem[q]]
  BY DEF SoundInv, Runs
<1>2. pc'[r] = p /\ mem'[r] = m
  BY <1>1 DEF Moves
<1>3. \A q \in Runners \ {r} : pc[q] = "idle" /\ pc'[q] = "idle"
  BY <1>1 DEF Moves, Quiet, Exclusive, At
<1>4. \A x, f : Agrees("idle", x, f)
  BY DEF Agrees, Before, Opening, After, Executing, Evidencing, Delivering
<1>5. Exclusive'
  BY <1>3 DEF Exclusive, At
<1> QED BY <1>2, <1>3, <1>4, <1>5

LEMMA AgreesOnEnd == \A m, f : Agrees("idle", m, f)
BY DEF Agrees, Before, Opening, After, Executing, Evidencing, Delivering

(* What the one that moves holds afterwards. *)
LEMMA AgreeStep ==
  ASSUME SoundInv, NEW r \in Runners, Agrees(pc[r], mem[r], file),
         BeginRun(r) \/ Proceed(r) \/ StepFails(r) \/ RevParseFails(r) \/ RemovalFails(r) \/ Crash(r)
  PROVE  \E p, m, n : Moves(r, p, m, n) /\ Agrees(p, m, file')
<1>1. Runs /\ Holds(pc[r], mem[r], turn[r]) /\ Disk
  BY DEF SoundInv, Runs
<1> DEFINE Goal == \E p, m, n : Moves(r, p, m, n) /\ Agrees(p, m, file')
<1> USE DEF Places, Before, Opening, After, Executing, Evidencing, Delivering
<1>2. ASSUME NEW p, Continue(r, p), Agrees(p, mem[r], file), file' = file PROVE Goal
  BY <1>1, <1>2, MovesBy
<1>3. ASSUME NEW how, End(r, how) PROVE Goal
  BY <1>1, <1>3, MovesBy, AgreesOnEnd
<1>4. ASSUME NEW s, NEW p, Save(r, s), Goto(r, p), Agrees(p, s, s) PROVE Goal
  BY <1>1, <1>4, MovesBy DEF Save
<1> SUFFICES Goal
  OBVIOUS
<1> HIDE DEF Goal
<1>5. ASSUME Throw(r) PROVE Goal
  BY <1>3, <1>5 DEF Throw
<1>6. CASE BeginRun(r)
  <2>1. Moves(r, "planning", mem[r], runs + 1)
    BY <1>1, <1>6 DEF BeginRun, Moves, Goto, Runs
  <2>2. Agrees("planning", mem[r], file')
    BY DEF Agrees
  <2> QED BY <2>1, <2>2 DEF Goal
<1>7. CASE StepFails(r) \/ RevParseFails(r) \/ RemovalFails(r) \/ Crash(r)
  BY <1>3, <1>5, <1>7 DEF StepFails, RevParseFails, RemovalFails, Crash
<1>8. CASE Load(r)
  <2>1. ASSUME file = None, Continue(r, "workspace"), file' = file PROVE Goal
    <3>1. mem[r] = None
      BY <1>1, <1>8 DEF Load, At, Holds
    <3> QED BY <1>2, <2>1, <3>1 DEF Agrees
  <2>2. ASSUME file # None, file.status # "completed", Goto(r, "workspace"), file' = file,
               mem' = [mem EXCEPT ![r] = file], turn' = turn
        PROVE  Goal
    <3>1. Moves(r, "workspace", file, turn[r])
      BY <1>1, <2>2 DEF Moves, Goto, Runs
    <3>2. Agrees("workspace", file, file')
      BY <2>2 DEF Agrees
    <3> QED BY <3>1, <3>2 DEF Goal
  <2> QED BY <1>3, <1>8, <2>1, <2>2 DEF Load
<1>9. CASE \/ MakePlan(r) \/ UseWorkspace(r) \/ CheckBranch(r) \/ AddWorktree(r)
           \/ SwitchBranch(r) \/ RemoveWorktree(r)
  BY <1>2, <1>3, <1>9 DEF MakePlan, UseWorkspace, CheckBranch, AddWorktree, SwitchBranch,
       RemoveWorktree, Agrees, At
<1>10. CASE \/ ApplyPatch(r) \/ Verify(r) \/ ReuseEvidence(r) \/ CheckChanges(r)
            \/ CheckCandidate(r) \/ Push(r)
  BY <1>2, <1>5, <1>10 DEF ApplyPatch, Verify, ReuseEvidence, CheckChanges, CheckCandidate, Push,
       Agrees, At
<1>11. CASE OpenPullRequest(r)
  BY <1>2, <1>3, <1>11 DEF OpenPullRequest, Agrees, At
<1>12. CASE Prepare(r)
  <2>1. mem[r] = file /\ (file # None => file.status # "completed")
    BY <1>12 DEF Prepare, At, Agrees
  <2>2. CASE ws = None
    BY <1>3, <1>12, <2>2 DEF Prepare
  <2>3. CASE ws # None /\ mem[r] = None
    <3>1. NewState.status # "completed"
      BY DEF NewState
    <3> QED BY <1>4, <1>12, <2>3, <3>1 DEF Prepare, Agrees
  <2>4. CASE ws # None /\ mem[r] # None /\ mem[r].status = "failed"
    <3>1. Retried(mem[r]).status # "completed"
      BY <1>1, <2>4, RetriedIsSound DEF Holds
    <3> QED BY <1>4, <1>12, <2>4, <3>1 DEF Prepare, Agrees
  <2>5. CASE ws # None /\ mem[r] # None /\ mem[r].status # "failed"
    BY <1>2, <1>12, <2>1, <2>5 DEF Prepare, Agrees
  <2> QED BY <2>2, <2>3, <2>4, <2>5
<1>13. CASE StartStep(r)
  <2> DEFINE s == [WithStep(mem[r], "running", None) EXCEPT !.status = PhaseFor(Kind(r))]
  <2>1. pc[r] = "step" /\ Save(r, s) /\ Goto(r, "execute") /\ Open(mem[r]) # {}
    BY <1>13 DEF StartStep, At
  <2>2. s.status # "completed"
    BY <1>1, <2>1, RunningIsSound DEF Holds
  <2> HIDE DEF s
  <2> QED BY <1>4, <2>1, <2>2 DEF Agrees
<1>14. CASE StepPasses(r)
  <2> DEFINE s == WithStep(mem[r], "passed", "passed")
  <2>1. pc[r] = "passing"
    BY <1>14 DEF StepPasses, At
  <2>2. Sound(mem[r]) /\ Open(mem[r]) # {} /\ mem[r] = file /\ file # None /\ file.status # "completed"
    BY <1>1, <2>1 DEF Holds, Agrees
  <2>3. s.status # "completed"
    BY <2>2, PassedIsSound
  <2>4. \/ Save(r, s) /\ Goto(r, "step")
        \/ End(r, "paused")
    BY <1>14 DEF StepPasses
  <2> HIDE DEF s
  <2> QED BY <1>3, <1>4, <2>3, <2>4 DEF Agrees
<1>15. CASE WriteEvidence(r)
  <2>1. CASE ws = None
    BY <1>5, <1>15, <2>1 DEF WriteEvidence
  <2>2. CASE ws # None
    <3> DEFINE b == [tree  |-> ws.tree.patches,
                     steps |-> {i \in DOMAIN Plan : mem[r].steps[i].receipt = "passed"},
                     made  |-> turn[r]]
               s == [mem[r] EXCEPT !.evidence = b]
    <3>1. /\ Holds("writeEvidence", mem[r], turn[r]) /\ mem[r].evidence = None
          /\ mem[r] = file /\ file # None /\ file.status # "completed" /\ ws \in Workspace
      BY <1>1, <1>15, <2>2 DEF WriteEvidence, At, Holds, Agrees, Disk
    <3>2. Goto(r, "saveEvidence") /\ mem' = [mem EXCEPT ![r] = s] /\ UNCHANGED <<turn, file>>
      BY <1>1, <1>15, <2>2 DEF WriteEvidence, Runs
    <3>3. b \in Bundle
      BY <3>1, BundleType
    <3> HIDE DEF b
    <3>4. s.evidence = b /\ s = [file EXCEPT !.evidence = s.evidence]
      BY <3>1, <3>3, EvidenceIsSound DEF Holds
    <3> HIDE DEF s
    <3>5. Moves(r, "saveEvidence", s, turn[r])
      BY <1>1, <3>2 DEF Moves, Goto, Runs
    <3>6. Agrees("saveEvidence", s, file')
      BY <3>1, <3>2, <3>4 DEF Agrees
    <3> QED BY <3>5, <3>6 DEF Goal
  <2> QED BY <2>1, <2>2
<1>16. CASE SaveEvidence(r)
  <2>1. pc[r] = "saveEvidence" /\ Save(r, mem[r]) /\ Goto(r, "passing")
    BY <1>16 DEF SaveEvidence, At
  <2>2. mem[r].status # "completed"
    <3>1. /\ file # None /\ file.status # "completed"
          /\ mem[r] = [file EXCEPT !.evidence = mem[r].evidence]
      BY <2>1 DEF Agrees
    <3>2. file \in State
      BY <1>1, <3>1 DEF Disk
    <3> QED BY <3>1, <3>2 DEF State
  <2> QED BY <1>4, <2>1, <2>2 DEF Agrees
<1>17. CASE CommitCandidate(r)
  <2>1. pc[r] = "execute" /\ mem[r] = file /\ file # None /\ file.status # "completed"
    BY <1>1, <1>17 DEF CommitCandidate, At, Holds, Agrees
  <2>2. CASE Throw(r)
    BY <1>5, <2>2
  <2>3. CASE Continue(r, "deliver") /\ UNCHANGED file
    BY <1>2, <2>1, <2>3 DEF Agrees
  <2>4. CASE ~Throw(r) /\ ~(Continue(r, "deliver") /\ UNCHANGED file)
    <3> DEFINE c == Append(ws.head, ws.tree)
               s == [mem[r] EXCEPT !.commit = c]
    <3>1. /\ ws \in Workspace /\ mem[r].evidence # None /\ mem[r].commit = None
          /\ Sound(mem[r])
      BY <1>1, <1>17, <2>1, <2>4 DEF CommitCandidate, Disk, Holds
    <3>2. Goto(r, "saveCommit") /\ mem' = [mem EXCEPT ![r] = s] /\ UNCHANGED <<turn, file>>
      BY <1>1, <1>17, <2>4 DEF CommitCandidate, Runs
    <3>3. c \in Commit
      BY <3>1, CommittedType
    <3> HIDE DEF c
    <3>4. s.commit = c /\ s = [file EXCEPT !.commit = s.commit]
      BY <2>1, <3>1, <3>3, CommitIsSound
    <3> HIDE DEF s
    <3>5. Moves(r, "saveCommit", s, turn[r])
      BY <1>1, <3>2 DEF Moves, Goto, Runs
    <3>6. Agrees("saveCommit", s, file')
      BY <2>1, <3>1, <3>2, <3>4 DEF Agrees
    <3> QED BY <3>5, <3>6 DEF Goal
  <2> QED BY <2>2, <2>3, <2>4
<1>18. CASE SaveCommit(r)
  <2>1. pc[r] = "saveCommit" /\ Save(r, mem[r]) /\ Goto(r, "deliver")
    BY <1>18 DEF SaveCommit, At
  <2>2. mem[r].status # "completed"
    <3>1. /\ file # None /\ file.status # "completed"
          /\ mem[r] = [file EXCEPT !.commit = mem[r].commit]
      BY <2>1 DEF Agrees
    <3>2. file \in State
      BY <1>1, <3>1 DEF Disk
    <3> QED BY <3>1, <3>2 DEF State
  <2> QED BY <1>4, <2>1, <2>2 DEF Agrees
<1>19. CASE Deliver(r)
  <2> DEFINE published == Delivery = "github"
             s == [mem[r] EXCEPT !.result = [commit |-> mem[r].commit,
                                             evidence |-> mem[r].evidence,
                                             pullRequest |-> published]]
  <2>1. pc[r] \in {"delivered", "deliver"} /\ Save(r, s) /\ Goto(r, "passing")
    BY <1>19 DEF Deliver, At
  <2>2. /\ Sound(mem[r]) /\ mem[r].commit # None
        /\ mem[r] = file /\ file # None /\ file.status # "completed"
    BY <1>1, <2>1 DEF Holds, Agrees
  <2>3. published \in BOOLEAN
    OBVIOUS
  <2> HIDE DEF published
  <2>4. s.status # "completed"
    BY <2>2, <2>3, ResultIsSound
  <2> HIDE DEF s
  <2> QED BY <1>4, <2>1, <2>4 DEF Agrees
<1>20. CASE Complete(r)
  <2> DEFINE s == [mem[r] EXCEPT !.status = "completed"]
  <2>1. CASE mem[r].result = None
    BY <1>3, <1>20, <2>1 DEF Complete
  <2>2. CASE mem[r].result # None
    <3>1. Save(r, s) /\ Goto(r, "cleanup") /\ pc[r] = "step"
      BY <1>20, <2>2 DEF Complete, At
    <3>2. s.status = "completed" /\ s \in State /\ s # None
      BY <1>1, <2>2, <3>1, CompletedIsSound, NoneAssumption DEF Holds, Sound
    <3> HIDE DEF s
    <3> QED BY <1>4, <3>1, <3>2 DEF Agrees
  <2> QED BY <2>1, <2>2
<1>21. CASE Proceed(r)
  BY <1>8, <1>9, <1>10, <1>11, <1>12, <1>13, <1>14, <1>15, <1>16, <1>17, <1>18, <1>19, <1>20, <1>21
  DEF Proceed
<1> QED BY <1>6, <1>7, <1>21

LEMMA AloneInit == Init => AloneInv
BY AgreesOnEnd DEF Init, AloneInv, Exclusive, At

LEMMA AloneStep == SoundInv /\ AloneInv /\ [Next]_vars => AloneInv'
<1> SUFFICES ASSUME SoundInv, AloneInv, [Next]_vars, overlaps' = 0
             PROVE  (Exclusive /\ \A r \in Runners : Agrees(pc[r], mem[r], file))'
  BY DEF AloneInv
<1>1. CASE UNCHANGED vars
  BY <1>1 DEF vars, AloneInv, Exclusive, At
<1>2. CASE Next
  <2>1. PICK r \in Runners :
          BeginRun(r) \/ Proceed(r) \/ StepFails(r) \/ RevParseFails(r) \/ RemovalFails(r) \/ Crash(r)
    BY <1>2 DEF Next
  <2>2. overlaps = 0 /\ (Quiet \/ ~At(r, "idle"))
    BY <2>1, NoOverlapBefore
  <2>3. Exclusive /\ Agrees(pc[r], mem[r], file)
    BY <2>2 DEF AloneInv
  <2>4. PICK p, m, n : Moves(r, p, m, n) /\ Agrees(p, m, file')
    BY <2>1, <2>3, AgreeStep
  <2> QED BY <2>2, <2>3, <2>4, AloneMoves
<1> QED BY <1>1, <1>2

(* While no runs overlap, a completed state is kept and answered with.     *)
LEMMA CompletedKept ==
  ASSUME SoundInv, AloneInv, [Next]_vars, Completed, overlaps' = 0
  PROVE  /\ file' = file
         /\ \A r \in Runners :
              pc[r] = "load" /\ pc'[r] # "load" =>
                pc'[r] = "idle" /\ answer'[r] \in {"completed", "crashed"}
<1>1. CASE UNCHANGED vars
  BY <1>1 DEF vars
<1>2. CASE Next
  <2>1. PICK r \in Runners :
          BeginRun(r) \/ Proceed(r) \/ StepFails(r) \/ RevParseFails(r) \/ RemovalFails(r) \/ Crash(r)
    BY <1>2 DEF Next
  <2>2. overlaps = 0
    BY <2>1, NoOverlapBefore
  <2>3. pc[r] \in Before \cup {"cleanup"}
    BY <2>2 DEF AloneInv, Agrees, Completed
  <2>4. Runs /\ Disk /\ Books /\ file # None /\ Integrity(file) /\ file.status = "completed"
    BY SoundIsAccepted DEF SoundInv, Disk, Completed
  <2>5. \/ BeginRun(r) \/ MakePlan(r) \/ Load(r) \/ RemoveWorktree(r) \/ RemovalFails(r)
        \/ Crash(r)
    BY <2>1, <2>3 DEF Proceed, At, Before, StepFails, RevParseFails, UseWorkspace, CheckBranch, AddWorktree,
         SwitchBranch, Prepare, StartStep, StepPasses, ApplyPatch, Verify, ReuseEvidence,
         CheckChanges, WriteEvidence, SaveEvidence, CommitCandidate, SaveCommit, CheckCandidate,
         Push, OpenPullRequest, Deliver, Complete
  <2>6. file' = file
    BY <2>5 DEF BeginRun, MakePlan, Load, RemoveWorktree, RemovalFails, Crash
  <2>7. \A q \in Runners \ {r} : pc'[q] = pc[q]
    BY <2>4, <2>5 DEF Runs, BeginRun, MakePlan, Load, RemoveWorktree, RemovalFails, Crash,
         Continue, End, Goto
  <2>8. ASSUME pc[r] = "load", pc'[r] # "load"
        PROVE  pc'[r] = "idle" /\ answer'[r] \in {"completed", "crashed"}
    <3>1. End(r, "completed") \/ End(r, "crashed")
      BY <2>4, <2>5, <2>8 DEF BeginRun, MakePlan, Load, RemoveWorktree, RemovalFails, Crash, At
    <3> QED BY <2>4, <3>1 DEF End, Goto, Runs, Books
  <2> QED BY <2>6, <2>7, <2>8
<1> QED BY <1>1, <1>2

(* A completed state is kept and answered with, as long as no runs overlap. *)
THEOREM ResultReusedTheorem == Spec => ResultReused
<1> DEFINE A == Completed /\ overlaps' = 0 =>
                  /\ file' = file
                  /\ \A r \in Runners :
                       pc[r] = "load" /\ pc'[r] # "load" =>
                         pc'[r] = "idle" /\ answer'[r] \in {"completed", "crashed"}
<1>1. SoundInv /\ AloneInv /\ [Next]_vars => [A]_vars
  BY CompletedKept
<1> QED BY <1>1, SoundInit, SoundStep, AloneInit, AloneStep, PTL DEF Spec, ResultReused

-----------------------------------------------------------------------------
(* What a step makes of the states it knows *)

Step(r) == BeginRun(r) \/ Proceed(r) \/ StepFails(r) \/ RevParseFails(r) \/ RemovalFails(r) \/ Crash(r)

LEMMA OthersStay ==
  ASSUME SoundInv, NEW r \in Runners, Step(r)
  PROVE  \A q \in Runners \ {r} : pc'[q] = pc[q] /\ mem'[q] = mem[q]
<1>1. Runs
  BY DEF SoundInv
<1>2. \A p, s, how : Continue(r, p) \/ (Save(r, s) /\ Goto(r, p)) \/ End(r, how) =>
        \A q \in Runners \ {r} : pc'[q] = pc[q] /\ mem'[q] = mem[q]
  BY <1>1 DEF Runs, Continue, Save, End, Goto
<1>3. \A p, s : mem' = [mem EXCEPT ![r] = s] /\ Goto(r, p) =>
        \A q \in Runners \ {r} : pc'[q] = pc[q] /\ mem'[q] = mem[q]
  BY <1>1 DEF Runs, Goto
<1>4. Throw(r) => End(r, "failed")
  BY DEF Throw
<1>5. CASE BeginRun(r)
  BY <1>1, <1>5 DEF BeginRun, Goto, Runs
<1>6. CASE StepFails(r) \/ RevParseFails(r) \/ RemovalFails(r) \/ Crash(r)
  BY <1>2, <1>4, <1>6 DEF StepFails, RevParseFails, RemovalFails, Crash
<1>7. CASE \/ MakePlan(r) \/ UseWorkspace(r) \/ CheckBranch(r) \/ AddWorktree(r) \/ SwitchBranch(r)
           \/ Prepare(r) \/ StartStep(r) \/ StepPasses(r) \/ ApplyPatch(r) \/ Verify(r)
  BY <1>2, <1>4, <1>7 DEF MakePlan, UseWorkspace, CheckBranch, AddWorktree, SwitchBranch,
       Prepare, StartStep, StepPasses, ApplyPatch, Verify
<1>8. CASE \/ ReuseEvidence(r) \/ CheckChanges(r) \/ SaveEvidence(r) \/ SaveCommit(r)
           \/ CheckCandidate(r) \/ Push(r) \/ OpenPullRequest(r) \/ Deliver(r) \/ Complete(r)
           \/ RemoveWorktree(r)
  BY <1>2, <1>4, <1>8 DEF ReuseEvidence, CheckChanges, SaveEvidence, SaveCommit, CheckCandidate,
       Push, OpenPullRequest, Deliver, Complete, RemoveWorktree
<1>9. CASE Load(r)
  BY <1>2, <1>3, <1>9 DEF Load
<1>10. CASE WriteEvidence(r)
  <2>1. Throw(r) \/ (Goto(r, "saveEvidence") /\ \E s : mem' = [mem EXCEPT ![r] = s])
    BY <1>1, <1>10 DEF WriteEvidence, Runs
  <2> QED BY <1>2, <1>3, <1>4, <2>1
<1>11. CASE CommitCandidate(r)
  <2>1. \/ Throw(r) \/ Continue(r, "deliver")
        \/ Goto(r, "saveCommit") /\ \E s : mem' = [mem EXCEPT ![r] = s]
    BY <1>1, <1>11 DEF CommitCandidate, Runs
  <2> QED BY <1>2, <1>3, <1>4, <2>1
<1> QED BY <1>5, <1>6, <1>7, <1>8, <1>9, <1>10, <1>11 DEF Step, Proceed

(* Two states of the same work, and one of no work. *)
SameWork(s, t) == t.evidence = s.evidence /\ t.commit = s.commit /\ Passed(t) = Passed(s)

NoWork(t) == t.evidence = None /\ t.commit = None /\ t.result = None /\ Passed(t) = {}

(* t is absent, new, or speaks of the work of the file or of r's memory. *)
Known(t, r) ==
  t # None => \/ NoWork(t) /\ pc[r] = "prepare" /\ mem[r] = None
              \/ file # None /\ SameWork(file, t) /\ t.result = file.result
              \/ mem[r] # None /\ SameWork(mem[r], t) /\ t.result = mem[r].result

(* The steps that add to the work or its result, or lose sight of it ... *)
Adds(r) ==
  \/ StepPasses(r)
  \/ WriteEvidence(r) /\ ~Throw(r)
  \/ /\ CommitCandidate(r) /\ ~Throw(r)
     /\ ~(Continue(r, "deliver") /\ UNCHANGED <<file, ws, branch, remote>>)
  \/ Deliver(r)
  \/ RevParseFails(r)

(* ... and those that change the worktree for other reasons. *)
Makes(r) ==
  \/ AddWorktree(r) \/ SwitchBranch(r) \/ RemoveWorktree(r)
  \/ ApplyPatch(r) /\ ~Throw(r)

LEMMA KnownStep ==
  ASSUME SoundInv, NEW r \in Runners, Step(r), ~Adds(r)
  PROVE  Known(mem'[r], r) /\ Known(file', r) /\ (file' = file \/ file' # None)
<1>1. Runs /\ Holds(pc[r], mem[r], turn[r]) /\ Disk
  BY DEF SoundInv, Runs
<1> USE DEF Places, Before, Opening, After, Executing, Evidencing, Delivering
<1> DEFINE Goal == Known(mem'[r], r) /\ Known(file', r) /\ (file' = file \/ file' # None)
<1>2. Known(file, r) /\ Known(mem[r], r) /\ Known(None, r)
  BY DEF Known, SameWork
<1>3. ASSUME NEW p, Continue(r, p), file' = file PROVE Goal
  BY <1>2, <1>3 DEF Continue
<1>4. ASSUME NEW how, End(r, how), file' = file PROVE Goal
  BY <1>1, <1>2, <1>4 DEF End, Runs
<1>5. ASSUME NEW s, Save(r, s), Known(s, r), s # None PROVE Goal
  BY <1>1, <1>5 DEF Save, Runs
<1>6. ASSUME pc[r] \in Executing, NEW how, file' = ThrownState(r), End(r, how)
      PROVE  Goal
  <2>1. mem[r] # None /\ Sound(mem[r]) /\ Open(mem[r]) # {}
    BY <1>1, <1>6 DEF Holds
  <2>2. SameBut(mem[r], file') /\ Passed(file') = Passed(mem[r]) /\ file' # None
    BY <1>6, <2>1, ThrownIsSound, NoneAssumption DEF Sound
  <2> QED BY <1>1, <1>2, <1>6, <2>1, <2>2 DEF End, Runs, Known, SameBut, SameWork
<1>7. ASSUME pc[r] \in Executing, Throw(r) PROVE Goal
  BY <1>6, <1>7 DEF Throw
<1>8. CASE BeginRun(r)
  BY <1>2, <1>8 DEF BeginRun
<1>9. CASE StepFails(r) \/ RemovalFails(r) \/ Crash(r)
  BY <1>4, <1>7, <1>9 DEF StepFails, RemovalFails, Crash
<1>10. CASE \/ MakePlan(r) \/ UseWorkspace(r) \/ CheckBranch(r) \/ AddWorktree(r)
            \/ SwitchBranch(r) \/ RemoveWorktree(r)
  BY <1>3, <1>4, <1>10 DEF MakePlan, UseWorkspace, CheckBranch, AddWorktree, SwitchBranch,
       RemoveWorktree
<1>11. CASE \/ ApplyPatch(r) \/ Verify(r) \/ ReuseEvidence(r) \/ CheckChanges(r)
            \/ CheckCandidate(r) \/ Push(r)
  BY <1>3, <1>7, <1>11 DEF ApplyPatch, Verify, ReuseEvidence, CheckChanges, CheckCandidate, Push, At
<1>12. CASE OpenPullRequest(r)
  BY <1>3, <1>6, <1>12 DEF OpenPullRequest, At
<1>13. CASE Load(r)
  <2>1. CASE mem' = [mem EXCEPT ![r] = file]
    BY <1>1, <1>2, <1>13, <2>1 DEF Load, Runs
  <2> QED BY <1>3, <1>4, <1>13, <2>1 DEF Load
<1>14. CASE Prepare(r)
  <2>1. mem[r] = None => Known(NewState, r) /\ NewState # None
    BY <1>14, NewIsSound, NoneAssumption DEF Known, NoWork, NewState, Prepare, At, Sound
  <2>2. mem[r] # None => Known(Retried(mem[r]), r) /\ Retried(mem[r]) # None
    BY <1>1, RetriedIsSound, NoneAssumption DEF Holds, Known, SameBut, SameWork, Sound
  <2> QED BY <1>3, <1>4, <1>5, <1>14, <2>1, <2>2 DEF Prepare
<1>15. CASE StartStep(r)
  <2> DEFINE s == [WithStep(mem[r], "running", None) EXCEPT !.status = PhaseFor(Kind(r))]
  <2>1. pc[r] = "step" /\ Save(r, s) /\ Open(mem[r]) # {}
    BY <1>15 DEF StartStep, At
  <2>2. SameBut(mem[r], s) /\ Passed(s) = Passed(mem[r]) /\ mem[r] # None /\ s # None
    BY <1>1, <2>1, RunningIsSound, NoneAssumption DEF Holds, Sound
  <2> HIDE DEF s
  <2>3. Known(s, r)
    BY <2>2 DEF Known, SameBut, SameWork
  <2> QED BY <1>5, <2>1, <2>2, <2>3
<1>16. CASE SaveEvidence(r) \/ SaveCommit(r)
  <2>1. mem[r] # None
    BY <1>1, <1>16 DEF SaveEvidence, SaveCommit, At, Holds
  <2> QED BY <1>2, <1>5, <1>16, <2>1 DEF SaveEvidence, SaveCommit
<1>17. CASE Complete(r)
  <2> DEFINE s == [mem[r] EXCEPT !.status = "completed"]
  <2>1. CASE mem[r].result = None
    BY <1>4, <1>17, <2>1 DEF Complete
  <2>2. CASE mem[r].result # None
    <3>1. Save(r, s) /\ pc[r] = "step"
      BY <1>17, <2>2 DEF Complete, At
    <3>2. SameBut(mem[r], s) /\ Passed(s) = Passed(mem[r]) /\ mem[r] # None /\ s # None
      BY <1>1, <2>2, <3>1, CompletedIsSound, NoneAssumption DEF Holds, Sound
    <3> HIDE DEF s
    <3>3. Known(s, r)
      BY <3>2 DEF Known, SameBut, SameWork
    <3> QED BY <1>5, <3>1, <3>2, <3>3
  <2> QED BY <2>1, <2>2
<1>18. CASE WriteEvidence(r) \/ CommitCandidate(r)
  <2>1. \/ Throw(r)
        \/ Continue(r, "deliver") /\ UNCHANGED file
    BY <1>18 DEF Adds
  <2>2. pc[r] \in Executing
    BY <1>18 DEF WriteEvidence, CommitCandidate, At
  <2> QED BY <1>3, <1>7, <2>1, <2>2
<1>19. ~StepPasses(r) /\ ~Deliver(r) /\ ~RevParseFails(r)
  BY DEF Adds
<1> QED BY <1>8, <1>9, <1>10, <1>11, <1>12, <1>13, <1>14, <1>15, <1>16, <1>17, <1>18, <1>19
       DEF Step, Proceed

LEMMA DiskKept ==
  ASSUME NEW r \in Runners, Step(r), ~Adds(r), ~Makes(r)
  PROVE  UNCHANGED <<ws, branch>>
<1>1. Throw(r) => UNCHANGED <<ws, branch>>
  BY DEF Throw
<1>2. CASE WriteEvidence(r) \/ CommitCandidate(r) \/ ApplyPatch(r)
  BY <1>1, <1>2 DEF Adds, Makes
<1>3. CASE \/ BeginRun(r) \/ StepFails(r) \/ RemovalFails(r) \/ Crash(r) \/ MakePlan(r) \/ Load(r)
           \/ UseWorkspace(r) \/ CheckBranch(r) \/ Prepare(r) \/ StartStep(r) \/ Verify(r)
           \/ ReuseEvidence(r) \/ CheckChanges(r) \/ SaveEvidence(r) \/ SaveCommit(r)
           \/ CheckCandidate(r) \/ Push(r) \/ OpenPullRequest(r) \/ Complete(r)
  BY <1>1, <1>3 DEF BeginRun, StepFails, RevParseFails, RemovalFails, Crash, MakePlan, Load, UseWorkspace,
       CheckBranch, Prepare, StartStep, Verify, ReuseEvidence, CheckChanges, SaveEvidence,
       SaveCommit, CheckCandidate, Push, OpenPullRequest, Complete
<1> QED BY <1>2, <1>3 DEF Step, Proceed, Adds, Makes

(* The three steps that add to the work, and the one that adds the result. *)
LEMMA PassStates ==
  ASSUME SoundInv, NEW r \in Runners, StepPasses(r)
  PROVE  /\ pc[r] = "passing" /\ pc'[r] \in {"step", "idle"} /\ mem[r] # None
         /\ UNCHANGED <<ws, branch, remote>>
         /\ mem'[r] \in {None, file'} /\ file' # None
         /\ SameBut(mem[r], file') /\ Passed(file') = Passed(mem[r]) \cup {Current(mem[r])}
<1>1. Runs /\ Holds(pc[r], mem[r], turn[r]) /\ pc[r] = "passing"
  BY DEF SoundInv, Runs, StepPasses, At
<1>2. Sound(mem[r]) /\ Open(mem[r]) # {} /\ mem[r] # None
  BY <1>1 DEF Holds, After, Executing
<1>3. file' = WithStep(mem[r], "passed", "passed")
  BY DEF StepPasses, Save
<1>4. /\ Sound(file') /\ SameBut(mem[r], file')
      /\ Passed(file') = Passed(mem[r]) \cup {Current(mem[r])}
  BY <1>2, <1>3, PassedIsSound
<1>5. \/ Save(r, file') /\ Goto(r, "step")
      \/ End(r, "paused")
  BY <1>3 DEF StepPasses
<1>6. mem'[r] \in {None, file'} /\ pc'[r] \in {"step", "idle"}
  BY <1>1, <1>5 DEF Save, End, Goto, Runs
<1> QED BY <1>1, <1>2, <1>4, <1>6, NoneAssumption DEF StepPasses, Sound

LEMMA WriteStates ==
  ASSUME SoundInv, NEW r \in Runners, WriteEvidence(r), ~Throw(r)
  PROVE  \E b \in Bundle :
           /\ b = [tree  |-> ws.tree.patches,
                   steps |-> {i \in DOMAIN Plan : mem[r].steps[i].receipt = "passed"},
                   made  |-> turn[r]]
           /\ pc[r] = "writeEvidence" /\ pc'[r] = "saveEvidence"
           /\ UNCHANGED <<file, branch, remote>>
           /\ ws \in Workspace /\ ws' \in Workspace /\ ws'.head = ws.head /\ ws'.onBranch = ws.onBranch
           /\ ws'.tree.patches = ws.tree.patches /\ ws'.tree.evidence = ws.tree.evidence \cup {b}
           /\ mem[r] # None /\ mem'[r] # None /\ mem[r].evidence = None /\ mem[r].commit = None
           /\ mem[r].result = None /\ b # None
           /\ mem'[r].evidence = b /\ mem'[r].commit = None /\ mem'[r].result = None
           /\ Passed(mem'[r]) = Passed(mem[r]) /\ Current(mem'[r]) = Current(mem[r])
<1> DEFINE b == [tree  |-> ws.tree.patches,
                 steps |-> {i \in DOMAIN Plan : mem[r].steps[i].receipt = "passed"},
                 made  |-> turn[r]]
           s == [mem[r] EXCEPT !.evidence = b]
<1>1. Runs /\ Disk /\ Holds(pc[r], mem[r], turn[r]) /\ pc[r] = "writeEvidence" /\ ws # None
  BY DEF SoundInv, Runs, WriteEvidence, At
<1>2. ws \in Workspace /\ mem[r].evidence = None /\ mem[r] # None /\ Sound(mem[r])
  BY <1>1 DEF Disk, Holds, After, Executing, Evidencing
<1>3. mem[r].commit = None /\ mem[r].result = None
  BY <1>2 DEF Sound, Backed
<1>4. /\ ws' = [ws EXCEPT !.tree.evidence = @ \cup {b}]
      /\ mem' = [mem EXCEPT ![r] = s] /\ Goto(r, "saveEvidence")
      /\ UNCHANGED <<file, branch, remote>>
  BY <1>1 DEF WriteEvidence, Runs
<1>5. b \in Bundle
  BY <1>1, <1>2, BundleType
<1>6. b = [tree  |-> ws.tree.patches,
           steps |-> {i \in DOMAIN Plan : mem[r].steps[i].receipt = "passed"},
           made  |-> turn[r]]
  OBVIOUS
<1> HIDE DEF b
<1>7. /\ ws' \in Workspace /\ ws'.head = ws.head /\ ws'.onBranch = ws.onBranch
      /\ ws'.tree.patches = ws.tree.patches /\ ws'.tree.evidence = ws.tree.evidence \cup {b}
  <2>1. \A v : v = [ws EXCEPT !.tree.evidence = @ \cup {b}] =>
          /\ v \in Workspace /\ v.head = ws.head /\ v.onBranch = ws.onBranch
          /\ v.tree.patches = ws.tree.patches /\ v.tree.evidence = ws.tree.evidence \cup {b}
    BY <1>2, <1>5, WithBundleType, Zenon
  <2> QED BY <1>4, <2>1, Zenon
<1>8. /\ Sound(s) /\ Current(s) = Current(mem[r]) /\ Passed(s) = Passed(mem[r])
      /\ s.evidence = b /\ b # None /\ s.commit = mem[r].commit /\ s.result = mem[r].result
  BY <1>2, <1>5, EvidenceIsSound
<1> HIDE DEF s
<1>9. mem'[r] = s /\ s # None /\ pc'[r] = "saveEvidence"
  BY <1>1, <1>4, <1>8, NoneAssumption DEF Runs, Goto, Sound
<1> QED BY <1>1, <1>2, <1>3, <1>4, <1>5, <1>6, <1>7, <1>8, <1>9

LEMMA CommitStates ==
  ASSUME SoundInv, NEW r \in Runners, CommitCandidate(r), ~Throw(r),
         ~(Continue(r, "deliver") /\ UNCHANGED <<file, ws, branch, remote>>)
  PROVE  /\ pc[r] = "execute" /\ pc'[r] = "saveCommit" /\ Kind(r) = "deliver"
         /\ UNCHANGED <<file, remote>>
         /\ ws \in Workspace /\ ws' \in Workspace /\ ws'.head = Append(ws.head, ws.tree)
         /\ ws'.head \in Commit /\ ws'.onBranch = ws.onBranch /\ ws'.tree = ws.tree
         /\ branch' = (IF ws.onBranch THEN ws'.head ELSE branch)
         /\ mem[r] # None /\ mem'[r] # None /\ mem[r].evidence # None /\ mem[r].commit = None
         /\ mem[r].result = None /\ mem'[r].result = None
         /\ mem'[r].commit = ws'.head /\ mem'[r].evidence = mem[r].evidence
         /\ Passed(mem'[r]) = Passed(mem[r]) /\ Current(mem'[r]) = Current(mem[r])
<1> DEFINE c == Append(ws.head, ws.tree)
           s == [mem[r] EXCEPT !.commit = c]
<1>1. Runs /\ Disk /\ Holds(pc[r], mem[r], turn[r]) /\ pc[r] = "execute" /\ Kind(r) = "deliver"
  BY DEF SoundInv, Runs, CommitCandidate, At
<1>2. ws \in Workspace /\ mem[r].evidence # None /\ mem[r].commit = None
  BY <1>1 DEF CommitCandidate, Disk
<1>3. mem[r] # None /\ Sound(mem[r]) /\ mem[r].result = None
  BY <1>1, <1>2 DEF Holds, After, Executing, Sound, Backed
<1>4. /\ ws' = [ws EXCEPT !.head = c] /\ branch' = (IF ws.onBranch THEN c ELSE branch)
      /\ mem' = [mem EXCEPT ![r] = s] /\ Goto(r, "saveCommit")
      /\ UNCHANGED <<file, remote>>
  BY <1>1, <1>2 DEF CommitCandidate, Runs
<1>5. c \in Commit /\ ws' \in Workspace /\ ws'.head = c /\ ws'.onBranch = ws.onBranch /\ ws'.tree = ws.tree
  BY <1>2, <1>4, CommittedType
<1>6. c = Append(ws.head, ws.tree)
  OBVIOUS
<1> HIDE DEF c
<1>7. /\ Sound(s) /\ Current(s) = Current(mem[r]) /\ Passed(s) = Passed(mem[r])
      /\ s.commit = c /\ s.evidence = mem[r].evidence /\ s.result = mem[r].result
  BY <1>2, <1>3, <1>5, CommitIsSound
<1> HIDE DEF s
<1>8. mem'[r] = s /\ s # None /\ pc'[r] = "saveCommit"
  BY <1>1, <1>4, <1>7, NoneAssumption DEF Runs, Goto, Sound
<1> QED BY <1>1, <1>2, <1>3, <1>4, <1>5, <1>6, <1>7, <1>8

LEMMA DeliverStates ==
  ASSUME SoundInv, NEW r \in Runners, Deliver(r)
  PROVE  /\ pc[r] = (IF Delivery = "github" THEN "delivered" ELSE "deliver")
         /\ pc'[r] = "passing" /\ Kind(r) = "deliver" /\ UNCHANGED <<ws, branch, remote>>
         /\ mem[r] # None /\ file' # None /\ mem'[r] = file' /\ SameWork(mem[r], file')
         /\ mem[r].commit # None /\ Current(file') = Current(mem[r])
         /\ file'.result # None
         /\ (file'.result.pullRequest <=> Delivery = "github")
<1> DEFINE published == Delivery = "github"
           s == [mem[r] EXCEPT !.result = [commit |-> mem[r].commit,
                                           evidence |-> mem[r].evidence,
                                           pullRequest |-> published]]
<1>1. /\ pc[r] = (IF Delivery = "github" THEN "delivered" ELSE "deliver")
      /\ Save(r, s) /\ Goto(r, "passing") /\ UNCHANGED <<ws, branch, remote>>
  BY DEF Deliver, At
<1>2. Runs /\ Holds(pc[r], mem[r], turn[r])
  BY DEF SoundInv, Runs
<1>3. Sound(mem[r]) /\ mem[r].commit # None /\ mem[r] # None /\ Kind(r) = "deliver"
  BY <1>1, <1>2 DEF Holds, After, Executing, Delivering, Kind
<1>4. published \in BOOLEAN /\ (published <=> Delivery = "github")
  OBVIOUS
<1> HIDE DEF published
<1>5. /\ Sound(s) /\ Current(s) = Current(mem[r]) /\ Passed(s) = Passed(mem[r])
      /\ s.commit = mem[r].commit /\ s.evidence = mem[r].evidence
      /\ s.result # None /\ s.result.pullRequest = published
  <2>1. Sound(s)
    BY <1>3, <1>4, ResultIsSound
  <2>2. Current(s) = Current(mem[r])
    BY <1>3, <1>4, ResultIsSound
  <2>3. Passed(s) = Passed(mem[r])
    BY <1>3, <1>4, ResultIsSound
  <2>4. s.commit = mem[r].commit /\ s.evidence = mem[r].evidence
    BY <1>3 DEF Sound, State
  <2>5. s.result # None
    BY <1>3, <1>4, ResultIsSound
  <2>6. s.result.pullRequest = published
    BY <1>3 DEF Sound, State
  <2> QED BY <2>1, <2>2, <2>3, <2>4, <2>5, <2>6
<1> HIDE DEF s
<1>6. mem'[r] = s /\ file' = s /\ s # None /\ pc'[r] = "passing"
  BY <1>1, <1>2, <1>5, NoneAssumption DEF Runs, Save, Goto, Sound
<1> QED BY <1>1, <1>3, <1>4, <1>5, <1>6 DEF SameWork

-----------------------------------------------------------------------------
(* Trees only grow *)

LEMMA AppendGrows ==
  ASSUME NEW c \in Commit, Growing(c), NEW t \in Tree, Within(TreeOf(c), t)
  PROVE  Growing(Append(c, t)) /\ TreeOf(Append(c, t)) = t /\ Append(c, t) # Base
<1>1. c \in Seq(Tree) /\ Len(c) \in Nat
  BY DEF Commit
<1>2. /\ Len(Append(c, t)) = Len(c) + 1 /\ Append(c, t)[Len(c) + 1] = t
      /\ DOMAIN Append(c, t) = 1 .. Len(c) + 1
      /\ \A i \in 1 .. Len(c) : Append(c, t)[i] = c[i]
  BY <1>1
<1>3. Append(c, t) # Base
  BY <1>1, <1>2 DEF Base
<1>4. ASSUME NEW i \in 1 .. Len(c) PROVE Within(c[i], t)
  <2>1. c # Base /\ Len(c) \in DOMAIN c /\ i \in DOMAIN c /\ i <= Len(c)
    BY <1>1, <1>4 DEF Base
  <2>2. Within(c[i], c[Len(c)]) /\ TreeOf(c) = c[Len(c)]
    BY <2>1 DEF Growing, TreeOf
  <2> QED BY <2>2 DEF Within
<1>5. ASSUME NEW i \in 1 .. Len(c) + 1, NEW j \in 1 .. Len(c) + 1, i <= j
      PROVE  Within(Append(c, t)[i], Append(c, t)[j])
  <2>1. CASE j \in 1 .. Len(c)
    <3>1. i \in 1 .. Len(c)
      BY <1>1, <1>5, <2>1
    <3>2. i \in DOMAIN c /\ j \in DOMAIN c
      BY <1>1, <2>1, <3>1
    <3> QED BY <1>2, <1>5, <2>1, <3>1, <3>2 DEF Growing
  <2>2. CASE j = Len(c) + 1 /\ i \in 1 .. Len(c)
    BY <1>2, <1>4, <2>2
  <2>3. CASE j = Len(c) + 1 /\ i = Len(c) + 1
    BY <1>2, <2>3 DEF Within
  <2> QED BY <1>1, <1>5, <2>1, <2>2, <2>3
<1> QED BY <1>2, <1>3, <1>5 DEF Growing, TreeOf

LEMMA BaseGrows == Growing(Base) /\ \A t : Within(TreeOf(Base), t)
BY DEF Base, Growing, TreeOf, Within

(* What extends a commit has its tree and more. *)
LEMMA PrefixWithin ==
  ASSUME NEW c \in Commit, c # Base, NEW d \in Commit, Growing(d), IsPrefix(c, d)
  PROVE  d # Base /\ Within(TreeOf(c), TreeOf(d))
<1>1. c \in Seq(Tree) /\ d \in Seq(Tree) /\ c # <<>>
  BY DEF Commit, Base
<1>2. /\ Len(c) \in Nat /\ Len(d) \in Nat /\ Len(c) # 0 /\ Len(c) <= Len(d)
      /\ SubSeq(c, 1, Len(c)) = SubSeq(d, 1, Len(c))
  BY <1>1 DEF IsPrefix
<1>3. d # Base /\ Len(c) \in DOMAIN d /\ Len(d) \in DOMAIN d
  BY <1>1, <1>2 DEF Base
<1>4. c[Len(c)] = d[Len(c)]
  <2>1. SubSeq(c, 1, Len(c))[Len(c)] = c[Len(c)]
    BY <1>1, <1>2
  <2>2. SubSeq(d, 1, Len(c))[Len(c)] = d[Len(c)]
    BY <1>1, <1>2
  <2> QED BY <1>2, <2>1, <2>2
<1>5. Within(d[Len(c)], d[Len(d)])
  BY <1>2, <1>3 DEF Growing
<1> QED BY <1>3, <1>4, <1>5 DEF TreeOf

LEMMA GrowthInit == Init => GrowthInv
BY DEF Init, GrowthInv, GrownState

LEMMA GrowthStep ==
  ASSUME SoundInv, GrowthInv, NEW r \in Runners, Step(r)
  PROVE  GrowthInv'
<1>1. Runs /\ Disk /\ Holds(pc[r], mem[r], turn[r]) /\ \A q \in Runners \ {r} : mem'[q] = mem[q]
  BY OthersStay DEF SoundInv, Runs
<1> DEFINE Worktree == ws' # None => Growing(ws'.head) /\ Within(TreeOf(ws'.head), ws'.tree)
<1>2. SUFFICES Worktree /\ GrownState(file') /\ GrownState(mem'[r])
  BY <1>1 DEF GrowthInv
<1>3. ASSUME UNCHANGED ws PROVE Worktree
  BY <1>3 DEF GrowthInv
<1> HIDE DEF Worktree
<1>4. GrownState(file) /\ GrownState(mem[r]) /\ GrownState(None)
  BY DEF GrowthInv, GrownState
<1>5. CASE StepPasses(r)
  BY <1>3, <1>4, <1>5, PassStates DEF GrownState, SameBut
<1>6. CASE Deliver(r)
  BY <1>3, <1>4, <1>6, DeliverStates DEF GrownState, SameWork
<1>7. CASE WriteEvidence(r) /\ ~Throw(r)
  <2>1. /\ ws # None /\ ws'.head = ws.head /\ ws'.tree.patches = ws.tree.patches
        /\ ws.tree.evidence \subseteq ws'.tree.evidence
        /\ file' = file /\ mem'[r].commit = None
    BY <1>7, WriteStates, NoneAssumption
  <2>2. Worktree
    BY <2>1 DEF Worktree, GrowthInv, Within
  <2> QED BY <1>4, <2>1, <2>2 DEF GrownState
<1>8. CASE Adds(r) /\ CommitCandidate(r) /\ ~Throw(r) /\ ~(Continue(r, "deliver") /\ UNCHANGED <<file, ws, branch, remote>>)
  <2>1. /\ ws \in Workspace /\ ws'.head = Append(ws.head, ws.tree) /\ ws'.tree = ws.tree
        /\ file' = file /\ mem'[r].commit = ws'.head
    BY <1>8, CommitStates
  <2>2. ws # None /\ ws.head \in Commit /\ ws.tree \in Tree
    BY <2>1, NoneAssumption DEF Workspace
  <2>3. Growing(ws'.head) /\ TreeOf(ws'.head) = ws.tree
    BY <2>1, <2>2, AppendGrows DEF GrowthInv
  <2> QED BY <1>4, <2>1, <2>3 DEF Worktree, GrownState, Within
<1>9. CASE ~Adds(r)
  <2>1. Known(mem'[r], r) /\ Known(file', r)
    BY <1>9, KnownStep
  <2>2. \A s : Known(s, r) => GrownState(s)
    BY <1>4 DEF Known, NoWork, SameWork, GrownState
  <2>3. CASE ~Makes(r)
    BY <1>3, <1>9, <2>1, <2>2, <2>3, DiskKept
  <2>4. CASE AddWorktree(r)
    <3>1. CASE UNCHANGED ws
      BY <1>3, <2>1, <2>2, <3>1
    <3>2. CASE ws'.head = Expected(mem[r]) /\ ws'.tree = TreeOf(Expected(mem[r]))
      <4>1. Growing(Expected(mem[r]))
        BY <1>4, BaseGrows DEF Expected, GrownState
      <4> QED BY <2>1, <2>2, <3>2, <4>1 DEF Worktree, Within
    <3> QED BY <2>4, <3>1, <3>2 DEF AddWorktree
  <2>5. CASE SwitchBranch(r)
    <3>1. CASE ws' = None
      BY <2>1, <2>2, <3>1 DEF Worktree
    <3>2. CASE ws # None /\ ws' = [ws EXCEPT !.onBranch = TRUE]
      <4>1. ws \in Workspace
        BY <1>1, <3>2 DEF Disk
      <4>2. ws'.head = ws.head /\ ws'.tree = ws.tree
        BY <3>2, <4>1 DEF Workspace
      <4> QED BY <2>1, <2>2, <3>2, <4>2 DEF Worktree, GrowthInv
    <3> QED BY <2>5, <3>1, <3>2 DEF SwitchBranch
  <2>6. CASE RemoveWorktree(r)
    <3>1. ws' = ws \/ ws' = None
      BY <2>6 DEF RemoveWorktree
    <3>2. Worktree
      BY <3>1 DEF Worktree, GrowthInv
    <3> QED BY <2>1, <2>2, <3>2
  <2>7. CASE ApplyPatch(r) /\ ~Throw(r)
    <3>1. /\ ws \in Workspace /\ Kind(r) \in Patches
          /\ ws' = [ws EXCEPT !.tree.patches = @ \cup {Kind(r)}]
      BY <1>1, <2>7 DEF ApplyPatch, Disk
    <3>2. /\ ws'.head = ws.head /\ ws'.tree.patches = ws.tree.patches \cup {Kind(r)}
          /\ ws'.tree.evidence = ws.tree.evidence
      BY <3>1, PatchedType
    <3>3. ws # None
      BY <3>1, NoneAssumption
    <3>4. Worktree
      BY <3>2, <3>3 DEF Worktree, GrowthInv, Within
    <3> QED BY <2>1, <2>2, <3>4
  <2> QED BY <2>3, <2>4, <2>5, <2>6, <2>7 DEF Makes
<1>10. CASE RevParseFails(r)
  BY <1>3, <1>4, <1>10, LostStates DEF GrownState
<1> QED BY <1>5, <1>6, <1>7, <1>8, <1>9, <1>10 DEF Adds

-----------------------------------------------------------------------------
(* Where a step leads, and what it does to the remote *)

Arrival(r, p) ==
  \/ p = "idle"
  \/ p = "planning" /\ BeginRun(r)
  \/ p = "load" /\ MakePlan(r)
  \/ p = "workspace" /\ Load(r)
  \/ p = "prepare" /\ SwitchBranch(r)
  \/ p = "prepare" /\ UseWorkspace(r) /\ ws # None /\ ws.head = Expected(mem[r]) /\ ws.onBranch
  \/ p = "add" /\ CheckBranch(r)
  \/ p = "switch" /\ AddWorktree(r)
  \/ p = "step" /\ (Prepare(r) \/ StepPasses(r))
  \/ p = "execute" /\ StartStep(r)
  \/ p = "passing" /\ (ApplyPatch(r) \/ Verify(r) \/ ReuseEvidence(r) \/ SaveEvidence(r) \/ Deliver(r))
  \/ p = "writeEvidence" /\ CheckChanges(r) /\ ws # None /\ ws.tree.evidence = {}
  \/ p = "saveEvidence" /\ WriteEvidence(r)
  \/ p = "saveCommit" /\ CommitCandidate(r)
  \/ p = "deliver" /\ (CommitCandidate(r) \/ SaveCommit(r))
  \/ p = "push" /\ CheckCandidate(r)
  \/ p = "pullRequest" /\ Push(r) /\ ~Throw(r)
  \/ p = "delivered" /\ OpenPullRequest(r) /\ remote.branch = mem[r].commit
  \/ p = "cleanup" /\ Complete(r) /\ mem[r].result # None

LEMMA Arrives ==
  ASSUME SoundInv, NEW r \in Runners, Step(r)
  PROVE  Arrival(r, pc'[r])
<1>1. Runs
  BY DEF SoundInv
<1>2. /\ \A p : Continue(r, p) => pc'[r] = p
      /\ \A p : Goto(r, p) => pc'[r] = p
      /\ \A how : End(r, how) => pc'[r] = "idle"
  BY <1>1 DEF Runs, Continue, Goto, End
<1>3. Throw(r) => pc'[r] = "idle"
  BY <1>2 DEF Throw
<1> USE <1>2, <1>3 DEF Arrival
<1>4. CASE BeginRun(r) \/ StepFails(r) \/ RevParseFails(r) \/ RemovalFails(r) \/ Crash(r) \/ RemoveWorktree(r)
  BY <1>4 DEF BeginRun, StepFails, RevParseFails, RemovalFails, Crash, RemoveWorktree
<1>5. CASE MakePlan(r)
  BY <1>5 DEF MakePlan
<1>6. CASE Load(r)
  BY <1>6 DEF Load
<1>7. CASE UseWorkspace(r)
  BY <1>7 DEF UseWorkspace
<1>8. CASE CheckBranch(r)
  BY <1>8 DEF CheckBranch
<1>9. CASE AddWorktree(r)
  BY <1>9 DEF AddWorktree
<1>10. CASE SwitchBranch(r)
  BY <1>10 DEF SwitchBranch
<1>11. CASE Prepare(r)
  BY <1>11 DEF Prepare
<1>12. CASE StartStep(r)
  BY <1>12 DEF StartStep
<1>13. CASE StepPasses(r)
  BY <1>13 DEF StepPasses
<1>14. CASE ApplyPatch(r)
  BY <1>14 DEF ApplyPatch
<1>15. CASE Verify(r) \/ ReuseEvidence(r)
  BY <1>15 DEF Verify, ReuseEvidence
<1>16. CASE CheckChanges(r)
  BY <1>16 DEF CheckChanges
<1>17. CASE WriteEvidence(r)
  <2>1. Throw(r) \/ Goto(r, "saveEvidence")
    BY <1>17 DEF WriteEvidence
  <2> QED BY <1>17, <2>1
<1>18. CASE SaveEvidence(r) \/ SaveCommit(r)
  BY <1>18 DEF SaveEvidence, SaveCommit
<1>19. CASE CommitCandidate(r)
  <2>1. Throw(r) \/ Continue(r, "deliver") \/ Goto(r, "saveCommit")
    BY <1>19 DEF CommitCandidate
  <2> QED BY <1>19, <2>1
<1>20. CASE CheckCandidate(r)
  BY <1>20 DEF CheckCandidate
<1>21. CASE Push(r)
  <2>1. Throw(r) \/ Continue(r, "pullRequest")
    BY <1>21 DEF Push
  <2> QED BY <1>21, <2>1
<1>22. CASE OpenPullRequest(r)
  BY <1>22 DEF OpenPullRequest
<1>23. CASE Deliver(r)
  BY <1>23 DEF Deliver
<1>24. CASE Complete(r)
  BY <1>24 DEF Complete
<1> QED BY <1>4, <1>5, <1>6, <1>7, <1>8, <1>9, <1>10, <1>11, <1>12, <1>13, <1>14, <1>15, <1>16,
           <1>17, <1>18, <1>19, <1>20, <1>21, <1>22, <1>23, <1>24 DEF Step, Proceed

LEMMA RemoteKept ==
  ASSUME SoundInv, NEW r \in Runners, Step(r)
  PROVE  \/ UNCHANGED remote
         \/ /\ Push(r) /\ ~Throw(r) /\ ws # None /\ ws.head \in Commit
            /\ remote.branch = None \/ IsPrefix(remote.branch, ws.head)
            /\ remote'.branch = ws.head /\ remote'.pullRequest = remote.pullRequest
            /\ UNCHANGED <<file, ws, branch>>
         \/ OpenPullRequest(r) /\ remote'.branch = remote.branch /\ remote'.pullRequest
<1>1. Disk
  BY DEF SoundInv
<1>2. Throw(r) => UNCHANGED remote
  BY DEF Throw
<1>3. CASE Push(r)
  <2>1. CASE ~Throw(r)
    <3>1. /\ ws # None /\ remote' = [remote EXCEPT !.branch = ws.head]
          /\ remote.branch = None \/ IsPrefix(remote.branch, ws.head)
          /\ UNCHANGED <<file, ws, branch>>
      BY <1>3, <2>1 DEF Push
    <3>2. remote'.branch = ws.head /\ remote'.pullRequest = remote.pullRequest /\ ws.head \in Commit
      BY <1>1, <3>1 DEF Disk, Workspace
    <3> QED BY <1>3, <2>1, <3>1, <3>2
  <2> QED BY <1>2, <2>1
<1>4. CASE OpenPullRequest(r)
  <2>1. remote' = [remote EXCEPT !.pullRequest = TRUE]
    BY <1>4 DEF OpenPullRequest
  <2>2. remote'.branch = remote.branch /\ remote'.pullRequest
    BY <1>1, <2>1 DEF Disk
  <2> QED BY <1>4, <2>2
<1>5. CASE ~Push(r) /\ ~OpenPullRequest(r)
  BY <1>2, <1>5 DEF Step, Proceed, BeginRun, StepFails, RevParseFails, RemovalFails, Crash, MakePlan, Load,
       UseWorkspace, CheckBranch, AddWorktree, SwitchBranch, Prepare, StartStep, StepPasses,
       ApplyPatch, Verify, ReuseEvidence, CheckChanges, WriteEvidence, SaveEvidence,
       CommitCandidate, SaveCommit, CheckCandidate, Deliver, Complete, RemoveWorktree
<1> QED BY <1>3, <1>4, <1>5

-----------------------------------------------------------------------------
(* Until the first push the worktree stands *)

LEMMA StandingBack ==
  ASSUME SoundInv, AloneInv, NEW r \in Runners, Step(r), Standing'
  PROVE  Standing
<1>1. Disk /\ [Next]_vars
  BY DEF SoundInv, Next, Step
<1>2. CASE Delivery = "github" /\ remote'.branch = None
  <2>1. remote.branch = None
    BY <1>2, RemoteKept, NoneAssumption
  <2> QED BY <1>2, <2>1 DEF Standing
<1>3. CASE overlaps' = 0 /\ ~Completed'
  <2>1. overlaps = 0
    BY <1>3, NoOverlapBefore DEF Step
  <2>2. ~Completed
    BY <1>1, <1>3, CompletedKept DEF Completed
  <2> QED BY <2>1, <2>2 DEF Standing
<1> QED BY <1>2, <1>3 DEF Standing

(* More has been done in v and c than in w and b. *)
More(w, b, v, c) ==
  b # None => /\ c # None
              /\ w.tree.patches \subseteq v.tree.patches
              /\ w.tree.evidence \subseteq v.tree.evidence
              /\ w.head # Base => v.head # Base

LEMMA ContainedInMore ==
  \A s, w, b, v, c : Contained(w, b, s) /\ More(w, b, v, c) => Contained(v, c, s)
BY DEF Contained, More

LEMMA ReadyInMore ==
  ASSUME NEW p, NEW m, NEW w, NEW b, NEW v, NEW c, Ready(w, b, p, m), More(w, b, v, c),
         p = "switch" => v # None /\ c = None
  PROVE  Ready(v, c, p, m)
<1>1. Contained(v, c, m)
  BY ContainedInMore DEF Ready
<1> QED BY <1>1 DEF Ready, More, After, Executing

(* What has passed when the evidence is due, and when delivery is. *)
LEMMA PassedBefore ==
  ASSUME NEW s, Sound(s), Open(s) # {}
  PROVE  /\ Plan[Current(s)] = "evidence" =>
              /\ Passed(s) = 1 .. Len(Plan) - 2
              /\ {i \in DOMAIN Plan : s.steps[i].receipt = "passed"} = 1 .. Len(Plan) - 2
         /\ Plan[Current(s)] = "deliver" => Passed(s) = 1 .. Len(Plan) - 1
<1>1. PICK n \in 0 .. Len(Plan) : Reached(s, n)
  BY DEF Sound, InOrder
<1>2. Current(s) = n + 1 /\ n + 1 \in DOMAIN Plan /\ Passed(s) = 1 .. n
  BY <1>1, CurrentIs
<1>3. {i \in DOMAIN Plan : s.steps[i].receipt = "passed"} = Passed(s)
  BY NoneAssumption DEF Sound, Receipted, Passed
<1>4. ASSUME Plan[Current(s)] = "evidence" PROVE n = Len(Plan) - 2
  BY <1>2, <1>4, PlacesOfKinds, PlanShape
<1>5. ASSUME Plan[Current(s)] = "deliver" PROVE n = Len(Plan) - 1
  BY <1>2, <1>5, PlacesOfKinds, PlanShape
<1> QED BY <1>2, <1>3, <1>4, <1>5

LEMMA BothPatches ==
  ASSUME NEW s, s # None, NEW w \in Workspace, NEW b, Contained(w, b, s),
         1 .. Len(Plan) - 2 \subseteq Passed(s)
  PROVE  w.tree.patches = Patches
<1>1. 1 \in Passed(s) /\ 2 \in Passed(s)
  BY PlanShape
<1>2. "domain" \in w.tree.patches /\ "proposal" \in w.tree.patches
  BY <1>1, PlanShape DEF Contained, Patches
<1>3. w.tree.patches \subseteq Patches
  BY DEF Workspace, Tree
<1> QED BY <1>2, <1>3 DEF Patches

(* The steps that change the worktree, one by one: more has been done, it  *)
(* is whole, and what the others find in it is there still.                *)
Kept(r) ==
  /\ Whole(ws', branch')
  /\ More(ws, branch, ws', branch')
  /\ \A q \in Runners \ {r} : At(q, "switch") => ws' # None /\ branch' = None

LEMMA KeptSteady ==
  ASSUME Whole(ws, branch), NEW r \in Runners, UNCHANGED <<ws, branch>>,
         \A q \in Runners : Ready(ws, branch, pc[q], mem[q])
  PROVE  Kept(r)
<1>1. \A q \in Runners \ {r} : At(q, "switch") => ws # None /\ branch = None
  BY DEF Ready, At
<1>2. More(ws, branch, ws, branch)
  BY DEF More
<1>3. ws' = ws /\ branch' = branch
  OBVIOUS
<1> QED BY <1>1, <1>2, <1>3 DEF Kept

LEMMA KeptMaking ==
  ASSUME SoundInv, Whole(ws, branch), OneSwitches, NEW r \in Runners, Makes(r),
         ~RemoveWorktree(r), \A q \in Runners : Ready(ws, branch, pc[q], mem[q])
  PROVE  Kept(r) /\ (SwitchBranch(r) => branch' # None)
<1>1. Runs /\ Disk /\ Holds(pc[r], mem[r], turn[r])
  BY DEF SoundInv, Runs
<1>2. CASE UNCHANGED <<ws, branch>> /\ ~SwitchBranch(r)
  BY <1>2, KeptSteady
<1>3. CASE AddWorktree(r) /\ ~UNCHANGED ws
  <2>1. /\ ws = None /\ branch' = branch
        /\ ws' = [head |-> Expected(mem[r]), onBranch |-> FALSE, tree |-> TreeOf(Expected(mem[r]))]
    BY <1>3 DEF AddWorktree
  <2>2. branch = None
    BY <2>1 DEF Whole
  <2>3. mem[r] = None
    BY <2>2 DEF Ready, Contained
  <2>4. ws' # None
    <3> DEFINE off == FALSE
    <3>1. off \in BOOLEAN /\ off = FALSE
      BY Zenon
    <3> HIDE DEF off
    <3>2. Expected(mem[r]) \in Commit /\ TreeOf(Expected(mem[r])) \in Tree
      BY <2>3, ExpectedType, TreeOfType
    <3>3. ws' = [head |-> Expected(mem[r]), onBranch |-> off, tree |-> TreeOf(Expected(mem[r]))]
      BY <2>1, <3>1
    <3>4. ws' \in Workspace
      BY <3>1, <3>2, <3>3 DEF Workspace
    <3> QED BY <3>4, NoneAssumption
  <2>5. /\ ws'.head = Base /\ ws'.tree.evidence = {} /\ ~ws'.onBranch
    BY <2>1, <2>3 DEF Expected, TreeOf
  <2>6. \A q \in Runners \ {r} : ~At(q, "switch")
    BY <2>1 DEF Ready, At
  <2> QED BY <1>3, <2>1, <2>2, <2>4, <2>5, <2>6 DEF Kept, Whole, More, AddWorktree, SwitchBranch, At
<1>4. CASE SwitchBranch(r)
  <2>1. At(r, "switch") /\ ws # None /\ branch = None
    BY <1>4 DEF SwitchBranch, Ready, At
  <2>2. ws' = [ws EXCEPT !.onBranch = TRUE] /\ branch' = ws.head /\ ws \in Workspace
    BY <1>1, <1>4, <2>1 DEF SwitchBranch, Disk
  <2>3. ws'.head = ws.head /\ ws'.tree = ws.tree /\ ws'.onBranch /\ ws' # None /\ branch' # None
    <3> DEFINE on == TRUE
    <3>1. on \in BOOLEAN /\ on
      BY Zenon
    <3> HIDE DEF on
    <3>2. ws' = [ws EXCEPT !.onBranch = on]
      BY <2>2, <3>1
    <3>3. ws' \in Workspace /\ ws'.head = ws.head /\ ws'.tree = ws.tree /\ ws'.onBranch = on
      BY <2>2, <3>1, <3>2 DEF Workspace
    <3>4. branch' \in Commit
      BY <2>2 DEF Workspace
    <3> QED BY <3>1, <3>3, <3>4, NoneAssumption
  <2>4. \A q \in Runners \ {r} : ~At(q, "switch")
    BY <2>1 DEF OneSwitches
  <2>5. Whole(ws', branch')
    BY <2>1, <2>3 DEF Whole
  <2> QED BY <2>1, <2>3, <2>4, <2>5 DEF Kept, More
<1>5. CASE ApplyPatch(r) /\ ~Throw(r)
  <2>1. /\ ws \in Workspace /\ Kind(r) \in Patches /\ branch' = branch
        /\ ws' = [ws EXCEPT !.tree.patches = @ \cup {Kind(r)}]
    BY <1>1, <1>5 DEF ApplyPatch, Disk
  <2>2. /\ ws' \in Workspace /\ ws'.head = ws.head /\ ws'.onBranch = ws.onBranch
        /\ ws'.tree.patches = ws.tree.patches \cup {Kind(r)}
        /\ ws'.tree.evidence = ws.tree.evidence
    <3>1. \A v : v = [ws EXCEPT !.tree.patches = @ \cup {Kind(r)}] =>
            /\ v \in Workspace /\ v.head = ws.head /\ v.onBranch = ws.onBranch
            /\ v.tree.patches = ws.tree.patches \cup {Kind(r)}
            /\ v.tree.evidence = ws.tree.evidence
      BY <2>1, PatchedType, Zenon
    <3> QED BY <2>1, <3>1, Zenon
  <2>3. ws # None /\ ws' # None
    BY <2>1, <2>2, NoneAssumption
  <2>4. Whole(ws', branch')
    BY <2>1, <2>2, <2>3 DEF Whole
  <2>5. More(ws, branch, ws', branch')
    BY <2>1, <2>2 DEF More
  <2>6. ~SwitchBranch(r)
    BY <1>5 DEF ApplyPatch, SwitchBranch, At
  <2> QED BY <2>1, <2>3, <2>4, <2>5, <2>6 DEF Kept, Ready, At
<1>6. AddWorktree(r) => UNCHANGED branch /\ ~SwitchBranch(r)
  BY DEF AddWorktree, SwitchBranch, At
<1> QED BY <1>2, <1>3, <1>4, <1>5, <1>6 DEF Makes

LEMMA KeptAdding ==
  ASSUME SoundInv, Whole(ws, branch), NEW r \in Runners, Adds(r),
         \A q \in Runners : Ready(ws, branch, pc[q], mem[q])
  PROVE  Kept(r)
<1>1. Runs /\ Disk /\ Holds(pc[r], mem[r], turn[r]) /\ Ready(ws, branch, pc[r], mem[r])
  BY DEF SoundInv, Runs
<1>2. CASE StepPasses(r) \/ Deliver(r) \/ RevParseFails(r)
  BY <1>2, PassStates, DeliverStates, LostStates, KeptSteady
<1>3. CASE WriteEvidence(r) /\ ~Throw(r)
  <2>1. PICK b \in Bundle :
          /\ b = [tree  |-> ws.tree.patches,
                  steps |-> {i \in DOMAIN Plan : mem[r].steps[i].receipt = "passed"},
                  made  |-> turn[r]]
          /\ pc[r] = "writeEvidence" /\ UNCHANGED branch
          /\ ws \in Workspace /\ ws' \in Workspace
          /\ ws'.head = ws.head /\ ws'.onBranch = ws.onBranch
          /\ ws'.tree.patches = ws.tree.patches /\ ws'.tree.evidence = ws.tree.evidence \cup {b}
          /\ mem[r] # None
    BY <1>3, WriteStates
  <2>2. ws # None /\ ws' # None
    BY <2>1, NoneAssumption
  <2>3. Sound(mem[r]) /\ Open(mem[r]) # {} /\ Plan[Current(mem[r])] = "evidence"
    BY <1>1, <2>1 DEF Holds, After, Executing, Evidencing
  <2>4. /\ Passed(mem[r]) = 1 .. Len(Plan) - 2
        /\ {i \in DOMAIN Plan : mem[r].steps[i].receipt = "passed"} = 1 .. Len(Plan) - 2
    BY <2>3, PassedBefore
  <2>5. ws.tree.patches = Patches
    <3>1. Contained(ws, branch, mem[r]) /\ 1 .. Len(Plan) - 2 \subseteq Passed(mem[r])
      BY <1>1, <2>4 DEF Ready
    <3> QED BY <2>1, <3>1, BothPatches
  <2>6. Good(b)
    BY <2>1, <2>4, <2>5 DEF Good
  <2>7. Whole(ws', branch')
    BY <2>1, <2>2, <2>6 DEF Whole
  <2>8. More(ws, branch, ws', branch')
    BY <2>1 DEF More
  <2> QED BY <2>1, <2>2, <2>7, <2>8 DEF Kept, Ready, At
<1>4. CASE /\ CommitCandidate(r) /\ ~Throw(r)
           /\ ~(Continue(r, "deliver") /\ UNCHANGED <<file, ws, branch, remote>>)
  <2>1. /\ pc[r] = "execute" /\ Kind(r) = "deliver"
        /\ ws \in Workspace /\ ws' \in Workspace /\ ws'.head = Append(ws.head, ws.tree)
        /\ ws'.head \in Commit /\ ws'.onBranch = ws.onBranch /\ ws'.tree = ws.tree
        /\ branch' = (IF ws.onBranch THEN ws'.head ELSE branch)
        /\ mem[r] # None /\ mem[r].evidence # None
    BY <1>4, CommitStates
  <2>2. ws # None /\ ws' # None /\ ws'.head # None
    BY <2>1, NoneAssumption
  <2>3. Sound(mem[r]) /\ Open(mem[r]) # {} /\ Plan[Current(mem[r])] = "deliver"
    BY <1>1, <2>1 DEF Holds, After, Executing, Kind
  <2>4. Contained(ws, branch, mem[r]) /\ 1 .. Len(Plan) - 2 \subseteq Passed(mem[r])
    BY <1>1, <2>3, PassedBefore, PlanShape DEF Ready
  <2>5. ws.tree.patches = Patches
    BY <2>1, <2>4, BothPatches
  <2>6. Evidenced(ws.tree)
    BY <2>1, <2>2, <2>4, <2>5 DEF Contained, Whole, Evidenced
  <2>7. TreeOf(ws'.head) = ws.tree /\ ws'.head # Base
    <3>1. ws.head \in Seq(Tree) /\ ws.tree \in Tree
      BY <2>1 DEF Workspace, Commit
    <3>2. /\ Len(Append(ws.head, ws.tree)) = Len(ws.head) + 1
          /\ Append(ws.head, ws.tree)[Len(ws.head) + 1] = ws.tree
          /\ Append(ws.head, ws.tree) # <<>>
      BY <3>1
    <3> QED BY <2>1, <3>2 DEF TreeOf, Base
  <2>8. branch # None /\ ws.onBranch /\ branch' # None
    BY <2>1, <2>2, <2>4 DEF Contained, Whole
  <2>9. Whole(ws', branch')
    BY <2>1, <2>2, <2>6, <2>7, <2>8 DEF Whole
  <2>10. More(ws, branch, ws', branch')
    BY <2>1, <2>7, <2>8 DEF More
  <2> QED BY <2>2, <2>8, <2>9, <2>10 DEF Kept, Ready, At
<1> QED BY <1>2, <1>3, <1>4 DEF Adds

(* The worktree is removed by a run that has completed, and so not yet. *)
LEMMA NotRemoved ==
  ASSUME SoundInv, AloneInv, RemoteInv, Standing, NEW r \in Runners
  PROVE  ~At(r, "cleanup")
<1>1. CASE Delivery = "github" /\ remote.branch = None
  BY <1>1 DEF RemoteInv, At
<1>2. CASE overlaps = 0 /\ ~Completed
  BY <1>2 DEF AloneInv, Agrees, Completed, At
<1> QED BY <1>1, <1>2 DEF Standing

LEMMA WorktreeKept ==
  ASSUME SoundInv, AloneInv, RemoteInv, Standing, StandingInv, NEW r \in Runners, Step(r)
  PROVE  Kept(r) /\ (SwitchBranch(r) => branch' # None)
<1>1. /\ Whole(ws, branch) /\ OneSwitches
      /\ \A q \in Runners : Ready(ws, branch, pc[q], mem[q])
  BY DEF StandingInv
<1>2. CASE Adds(r)
  <2>1. ~SwitchBranch(r)
    BY <1>2 DEF Adds, StepPasses, WriteEvidence, CommitCandidate, Deliver,
       RevParseFails, SwitchBranch, At
  <2> QED BY <1>1, <1>2, <2>1, KeptAdding
<1>3. CASE Makes(r)
  <2>1. ~RemoveWorktree(r)
    BY NotRemoved DEF RemoveWorktree
  <2> QED BY <1>1, <1>3, <2>1, KeptMaking
<1>4. CASE ~Adds(r) /\ ~Makes(r)
  BY <1>1, <1>4, DiskKept, KeptSteady DEF Makes
<1> QED BY <1>2, <1>3, <1>4

(* Whatever a step saves or holds, the worktree has the work it names. *)
LEMMA WorkStands ==
  ASSUME SoundInv, StandingInv, Standing, NEW r \in Runners, Step(r), Kept(r)
  PROVE  Contained(ws', branch', file') /\ Contained(ws', branch', mem'[r])
<1>1. Contained(ws, branch, file) /\ Ready(ws, branch, pc[r], mem[r]) /\ Contained(ws, branch, mem[r])
  BY DEF StandingInv, Ready
<1>2. More(ws, branch, ws', branch') /\ Contained(ws', branch', None)
  BY DEF Kept, Contained
<1>3. \A t : Contained(ws, branch, t) => Contained(ws', branch', t)
  BY <1>2, ContainedInMore
<1>4. CASE ~Adds(r)
  <2>1. \A t : Known(t, r) => Contained(ws, branch, t)
    BY <1>1 DEF Known, NoWork, SameWork, Ready, Contained
  <2> QED BY <1>3, <1>4, <2>1, KnownStep
<1>5. CASE StepPasses(r)
  <2>1. /\ pc[r] = "passing" /\ mem[r] # None /\ UNCHANGED <<ws, branch>>
        /\ mem'[r] \in {None, file'} /\ file' # None
        /\ SameBut(mem[r], file') /\ Passed(file') = Passed(mem[r]) \cup {Current(mem[r])}
    BY <1>5, PassStates
  <2>2. Contained(ws, branch, file')
    BY <1>1, <2>1 DEF Contained, SameBut, Ready
  <2> QED BY <1>2, <1>3, <2>1, <2>2
<1>6. CASE WriteEvidence(r) /\ ~Throw(r)
  <2>1. PICK b \in Bundle :
          /\ file' = file /\ ws'.tree.evidence = ws.tree.evidence \cup {b}
          /\ ws'.head = ws.head /\ ws'.tree.patches = ws.tree.patches
          /\ mem[r] # None /\ mem'[r] # None
          /\ mem'[r].evidence = b /\ mem'[r].commit = None
          /\ Passed(mem'[r]) = Passed(mem[r])
    BY <1>6, WriteStates
  <2>2. Contained(ws', branch', mem[r])
    BY <1>1, <1>3
  <2>3. Contained(ws', branch', mem'[r])
    BY <2>1, <2>2 DEF Contained
  <2> QED BY <1>1, <1>3, <2>1, <2>3
<1>7. CASE /\ CommitCandidate(r) /\ ~Throw(r)
           /\ ~(Continue(r, "deliver") /\ UNCHANGED <<file, ws, branch, remote>>)
  <2>1. /\ file' = file /\ mem[r] # None /\ mem'[r] # None
        /\ ws \in Workspace /\ ws'.head = Append(ws.head, ws.tree)
        /\ mem'[r].evidence = mem[r].evidence /\ Passed(mem'[r]) = Passed(mem[r])
    BY <1>7, CommitStates
  <2>2. ws'.head # Base
    BY <2>1 DEF Base, Workspace, Commit
  <2>3. Contained(ws', branch', mem[r])
    BY <1>1, <1>3
  <2>4. Contained(ws', branch', mem'[r])
    BY <2>1, <2>2, <2>3 DEF Contained
  <2> QED BY <1>1, <1>3, <2>1, <2>4
<1>8. CASE Deliver(r)
  <2>1. /\ mem[r] # None /\ mem'[r] = file' /\ SameWork(mem[r], file')
    BY <1>8, DeliverStates
  <2>2. Contained(ws, branch, file')
    BY <1>1, <2>1 DEF Contained, SameWork
  <2> QED BY <1>3, <2>1, <2>2
<1>9. CASE RevParseFails(r)
  <2>1. /\ mem[r] # None /\ mem'[r] = None /\ UNCHANGED <<ws, branch>>
        /\ Passed(file') = Passed(mem[r]) /\ file'.evidence = mem[r].evidence
        /\ file'.commit = None
    BY <1>9, LostStates
  <2>2. Contained(ws, branch, file')
    BY <1>1, <2>1 DEF Contained
  <2> QED BY <1>2, <1>3, <2>1, <2>2
<1> QED BY <1>4, <1>5, <1>6, <1>7, <1>8, <1>9 DEF Adds

(* Where a run is that goes on with the worktree, and the patch it has     *)
(* just applied.                                                           *)
LEMMA WorkIsReady ==
  ASSUME SoundInv, AloneInv, RemoteInv, StandingInv, Standing, NEW r \in Runners, Step(r), Kept(r),
         SwitchBranch(r) => branch' # None
  PROVE  Ready(ws', branch', pc'[r], mem'[r])
<1>1. /\ Runs /\ Disk /\ Holds(pc[r], mem[r], turn[r])
      /\ Whole(ws, branch) /\ Ready(ws, branch, pc[r], mem[r])
  BY DEF SoundInv, Runs, StandingInv
<1>2. Contained(ws', branch', mem'[r])
  BY WorkStands
<1>3. branch # None => branch' # None
  BY DEF Kept, More
<1>4. ASSUME pc'[r] = "switch" PROVE ws' # None /\ branch' = None
  <2>1. AddWorktree(r)
    BY <1>4, Arrives DEF Arrival
  <2>2. ws = None /\ branch' = branch
    <3>1. End(r, "failed") => pc'[r] = "idle"
      BY <1>1 DEF End, Goto, Runs
    <3> QED BY <1>4, <2>1, <3>1 DEF AddWorktree
  <2>3. branch = None /\ mem[r] = None
    BY <1>1, <2>2 DEF Whole, Ready, Contained
  <2>4. ws' # None
    <3> DEFINE off == FALSE
    <3>1. off \in BOOLEAN /\ off = FALSE
      BY Zenon
    <3> HIDE DEF off
    <3>2. Expected(mem[r]) \in Commit /\ TreeOf(Expected(mem[r])) \in Tree
      BY <2>3, ExpectedType, TreeOfType
    <3>3. ws' = [head |-> Expected(mem[r]), onBranch |-> off, tree |-> TreeOf(Expected(mem[r]))]
      BY <2>1, <2>2, <3>1 DEF AddWorktree
    <3>4. ws' \in Workspace
      BY <3>1, <3>2, <3>3 DEF Workspace
    <3> QED BY <3>4, NoneAssumption
  <2> QED BY <2>2, <2>3, <2>4
<1>5. ASSUME pc'[r] \in After \cup {"prepare"} PROVE branch' # None
  <2>1. ASSUME pc[r] \in After \cup {"prepare"} PROVE branch' # None
    BY <1>1, <1>3, <2>1 DEF Ready
  <2>2. CASE UseWorkspace(r) /\ ws # None /\ ws.onBranch
    BY <1>1, <1>3, <2>2 DEF Whole
  <2>3. CASE ~SwitchBranch(r) /\ ~(UseWorkspace(r) /\ ws # None /\ ws.onBranch)
    <3>1. \/ Prepare(r) \/ StepPasses(r) \/ StartStep(r) \/ ApplyPatch(r) \/ Verify(r)
          \/ ReuseEvidence(r) \/ SaveEvidence(r) \/ Deliver(r) \/ CheckChanges(r)
          \/ WriteEvidence(r) \/ CommitCandidate(r) \/ SaveCommit(r) \/ CheckCandidate(r)
          \/ Push(r) \/ OpenPullRequest(r) \/ Complete(r)
      BY <1>5, <2>3, Arrives DEF Arrival, After, Executing, Evidencing, Delivering
    <3>2. pc[r] \in After \cup {"prepare"}
      BY <3>1 DEF Prepare, StepPasses, StartStep, ApplyPatch, Verify, ReuseEvidence, SaveEvidence,
           Deliver, CheckChanges, WriteEvidence, CommitCandidate, SaveCommit, CheckCandidate, Push,
           OpenPullRequest, Complete, At, After, Executing, Evidencing, Delivering
    <3> QED BY <2>1, <3>2
  <2> QED BY <2>2, <2>3
<1>6. ASSUME pc'[r] = "passing", Plan[Current(mem'[r])] \in Patches
      PROVE  Plan[Current(mem'[r])] \in ws'.tree.patches
  <2>1. ApplyPatch(r) \/ Verify(r) \/ ReuseEvidence(r) \/ SaveEvidence(r) \/ Deliver(r)
    BY <1>6, Arrives DEF Arrival
  <2>2. ASSUME Continue(r, "passing") PROVE mem'[r] = mem[r]
    BY <2>2 DEF Continue
  <2>3. Throw(r) => pc'[r] = "idle"
    BY <1>1 DEF Throw, End, Goto, Runs
  <2>4. CASE ApplyPatch(r)
    <3>1. /\ ws # None /\ mem'[r] = mem[r] /\ Kind(r) \in Patches
          /\ ws' = [ws EXCEPT !.tree.patches = @ \cup {Kind(r)}]
      BY <1>6, <2>2, <2>3, <2>4 DEF ApplyPatch
    <3>2. ws \in Workspace
      BY <1>1, <3>1 DEF Disk
    <3>3. Kind(r) \in ws'.tree.patches
      <4>1. \A v : v = [ws EXCEPT !.tree.patches = @ \cup {Kind(r)}] =>
              v.tree.patches = ws.tree.patches \cup {Kind(r)}
        BY <3>1, <3>2, PatchedType, Zenon
      <4>2. ws'.tree.patches = ws.tree.patches \cup {Kind(r)}
        BY <3>1, <4>1, Zenon
      <4> QED BY <4>2
    <3> QED BY <3>1, <3>3 DEF Kind
  <2>5. CASE Verify(r) \/ ReuseEvidence(r)
    <3>1. mem'[r] = mem[r] /\ Kind(r) \in {"validate", "verify", "evidence"}
      BY <1>6, <2>2, <2>3, <2>5 DEF Verify, ReuseEvidence
    <3> QED BY <1>6, <3>1 DEF Kind, Patches
  <2>6. CASE SaveEvidence(r)
    <3>1. mem'[r] = mem[r] /\ Plan[Current(mem[r])] = "evidence"
      BY <1>1, <2>6 DEF SaveEvidence, Save, Holds, Evidencing, At, Runs
    <3> QED BY <1>6, <3>1 DEF Patches
  <2>7. CASE Deliver(r)
    <3>1. Plan[Current(mem'[r])] = "deliver"
      BY <2>7, DeliverStates DEF Kind
    <3> QED BY <1>6, <3>1 DEF Patches
  <2> QED BY <2>1, <2>4, <2>5, <2>6, <2>7
<1> QED BY <1>2, <1>4, <1>5, <1>6 DEF Ready

LEMMA StandingInit == Init => StandingInv
<1> SUFFICES ASSUME Init PROVE Whole(ws, branch) /\ OneSwitches /\ Contained(ws, branch, file)
                               /\ \A r \in Runners : Ready(ws, branch, pc[r], mem[r])
  BY DEF StandingInv
<1>1. \A r \in Runners : pc[r] = "idle" /\ mem[r] = None
  BY DEF Init
<1>2. "idle" \notin After
  BY DEF After, Executing, Evidencing, Delivering
<1> QED BY <1>1, <1>2 DEF Init, Whole, OneSwitches, At, Contained, Ready

LEMMA StandingStep ==
  ASSUME SoundInv, AloneInv, RemoteInv, StandingInv, NEW r \in Runners, Step(r)
  PROVE  StandingInv'
<1>1. SUFFICES ASSUME Standing'
               PROVE  /\ Whole(ws', branch') /\ OneSwitches' /\ Contained(ws', branch', file')
                      /\ \A q \in Runners : Ready(ws', branch', pc'[q], mem'[q])
  BY DEF StandingInv
<1>2. Standing
  BY <1>1, StandingBack
<1>3. Kept(r) /\ (SwitchBranch(r) => branch' # None)
  BY <1>2, WorktreeKept
<1>4. /\ Contained(ws', branch', file') /\ Ready(ws', branch', pc'[r], mem'[r])
      /\ \A q \in Runners \ {r} : pc'[q] = pc[q] /\ mem'[q] = mem[q]
  BY <1>2, <1>3, WorkStands, WorkIsReady, OthersStay
<1>5. ASSUME NEW q \in Runners \ {r} PROVE Ready(ws', branch', pc'[q], mem'[q])
  <2>1. /\ Ready(ws, branch, pc[q], mem[q]) /\ More(ws, branch, ws', branch')
        /\ pc[q] = "switch" => ws' # None /\ branch' = None
    BY <1>2, <1>3 DEF StandingInv, Kept, At
  <2>2. Ready(ws', branch', pc[q], mem[q])
    BY <2>1, ReadyInMore
  <2> QED BY <1>4, <2>2
<1>6. OneSwitches'
  <2>1. OneSwitches
    BY <1>2 DEF StandingInv
  <2>2. ASSUME NEW q \in Runners \ {r}, pc[q] = "switch" PROVE pc'[r] # "switch"
    <3>1. ws # None
      BY <1>2, <2>2 DEF StandingInv, Ready
    <3>2. ~(pc'[r] = "switch" /\ AddWorktree(r))
      <4>1. End(r, "failed") => pc'[r] = "idle"
        BY DEF SoundInv, Runs, End, Goto
      <4> QED BY <3>1, <4>1 DEF AddWorktree
    <3> QED BY <3>2, Arrives DEF Arrival
  <2> QED BY <1>4, <2>1, <2>2 DEF OneSwitches, At
<1> QED BY <1>3, <1>4, <1>5, <1>6 DEF Kept

-----------------------------------------------------------------------------
(* What reaches the remote has its evidence *)

LEMMA RemoteInit == Init => RemoteInv
BY DEF Init, RemoteInv, Unresolved

LEMMA PushedIsEvidenced ==
  ASSUME SoundInv, StandingInv, GrowthInv, RemoteInv, NEW r \in Runners, Push(r), ~Throw(r)
  PROVE  ws.head # Base /\ Evidenced(TreeOf(ws.head))
<1>1. /\ Disk /\ Holds("push", mem[r], turn[r]) /\ pc[r] = "push" /\ Delivery = "github"
      /\ ws # None /\ (remote.branch = None \/ IsPrefix(remote.branch, ws.head))
  BY DEF SoundInv, Runs, RemoteInv, Push, At
<1>2. CASE remote.branch = None
  <2>1. Whole(ws, branch) /\ Contained(ws, branch, mem[r])
    BY <1>1, <1>2 DEF StandingInv, Standing, Ready
  <2>2. mem[r] # None /\ mem[r].commit # None
    BY <1>1 DEF Holds, After, Executing, Delivering
  <2> QED BY <1>1, <2>1, <2>2 DEF Whole, Contained
<1>3. CASE remote.branch # None
  <2>1. /\ remote.branch \in Commit /\ remote.branch # Base /\ Evidenced(TreeOf(remote.branch))
        /\ ws.head \in Commit /\ Growing(ws.head) /\ IsPrefix(remote.branch, ws.head)
    BY <1>1, <1>3 DEF Disk, Workspace, RemoteInv, GrowthInv
  <2>2. ws.head # Base /\ Within(TreeOf(remote.branch), TreeOf(ws.head))
    BY <2>1, PrefixWithin
  <2>3. TreeOf(ws.head).patches \subseteq Patches
    BY <2>1, TreeOfType DEF Tree
  <2> QED BY <2>1, <2>2, <2>3 DEF Evidenced, Within
<1> QED BY <1>2, <1>3

LEMMA RemoteStep ==
  ASSUME SoundInv, StandingInv, GrowthInv, RemoteInv, NEW r \in Runners, Step(r)
  PROVE  RemoteInv'
<1>1. Runs /\ Disk /\ \A q \in Runners \ {r} : pc'[q] = pc[q] /\ mem'[q] = mem[q]
  BY OthersStay DEF SoundInv
<1>2. ASSUME NEW q \in Runners, pc'[q] \in {"push", "pullRequest", "delivered"}
      PROVE  Delivery = "github"
  <2>1. CASE q # r
    BY <1>1, <1>2, <2>1 DEF RemoteInv
  <2>2. CASE q = r
    <3>1. CheckCandidate(r) \/ Push(r) \/ OpenPullRequest(r)
      BY <1>2, <2>2, Arrives DEF Arrival
    <3> QED BY <3>1 DEF CheckCandidate, Push, OpenPullRequest, RemoteInv, At
  <2> QED BY <2>1, <2>2
<1>3. ASSUME Delivery = "github", remote'.branch = None
      PROVE  /\ Unresolved(file')
             /\ \A q \in Runners : /\ pc'[q] \notin {"pullRequest", "delivered", "cleanup"}
                                   /\ Unresolved(mem'[q])
  <2>1. remote.branch = None /\ ~(Push(r) /\ ~Throw(r))
    <3>1. ASSUME Push(r), ~Throw(r) PROVE FALSE
      <4>1. remote'.branch = ws.head /\ ws.head \in Commit
        <5>1. /\ ws # None /\ remote' = [remote EXCEPT !.branch = ws.head]
          BY <3>1 DEF Push
        <5> QED BY <1>1, <5>1 DEF Disk, Workspace
      <4> QED BY <1>3, <4>1, NoneAssumption
    <3> QED BY <1>3, <3>1, RemoteKept
  <2>2. /\ Unresolved(file) /\ Unresolved(None)
        /\ \A q \in Runners : /\ pc[q] \notin {"pullRequest", "delivered", "cleanup"}
                              /\ Unresolved(mem[q])
    BY <1>3, <2>1 DEF RemoteInv, Unresolved
  <2>3. pc'[r] \notin {"pullRequest", "delivered", "cleanup"}
    <3>1. ~(Complete(r) /\ mem[r].result # None)
      BY <1>1, <2>2 DEF Unresolved, Complete, Runs, Holds, At, After
    <3>2. ~OpenPullRequest(r)
      BY <2>2 DEF OpenPullRequest, At
    <3> QED BY <2>1, <3>1, <3>2, Arrives DEF Arrival
  <2>4. Unresolved(file') /\ Unresolved(mem'[r])
    <3>1. CASE ~Adds(r)
      <4>1. \A t : Known(t, r) => Unresolved(t)
        BY <2>2 DEF Known, NoWork, Unresolved
      <4> QED BY <3>1, <4>1, KnownStep
    <3>2. CASE StepPasses(r)
      <4>1. /\ mem[r] # None /\ mem'[r] \in {None, file'} /\ SameBut(mem[r], file')
        BY <3>2, PassStates
      <4>2. Unresolved(file')
        BY <2>2, <4>1 DEF Unresolved, SameBut
      <4> QED BY <2>2, <4>1, <4>2
    <3>3. CASE WriteEvidence(r) /\ ~Throw(r)
      <4>1. file' = file /\ mem'[r].result = None
        BY <3>3, WriteStates
      <4> QED BY <2>2, <4>1 DEF Unresolved
    <3>4. CASE /\ CommitCandidate(r) /\ ~Throw(r)
               /\ ~(Continue(r, "deliver") /\ UNCHANGED <<file, ws, branch, remote>>)
      <4>1. file' = file /\ mem'[r].result = None
        BY <3>4, CommitStates
      <4> QED BY <2>2, <4>1 DEF Unresolved
    <3>5. ~Deliver(r)
      BY <1>3, <2>2, DeliverStates
    <3>6. CASE RevParseFails(r)
      BY <2>2, <3>6, LostStates DEF Unresolved
    <3> QED BY <3>1, <3>2, <3>3, <3>4, <3>5, <3>6 DEF Adds
  <2> QED BY <1>1, <2>2, <2>3, <2>4
<1>4. ASSUME remote'.branch # None
      PROVE  remote'.branch # Base /\ Evidenced(TreeOf(remote'.branch))
  <2>1. CASE remote'.branch = remote.branch
    BY <1>4, <2>1 DEF RemoteInv
  <2>2. CASE Push(r) /\ ~Throw(r) /\ remote'.branch = ws.head
    BY <2>2, PushedIsEvidenced
  <2> QED BY <2>1, <2>2, RemoteKept
<1> QED BY <1>2, <1>3, <1>4 DEF RemoteInv

-----------------------------------------------------------------------------
(* A run by itself: what is on disk fits together *)

(* What the next four lemmas start from. *)
LEMMA ByItself ==
  ASSUME SoundInv, AloneInv, TogetherInv, NEW r \in Runners, Step(r), overlaps' = 0
  PROVE  /\ overlaps = 0 /\ Recorded /\ FitsTogether
         /\ Candidate(file, branch, remote) /\ Candidate(mem[r], branch, remote)
         /\ Uses(pc[r], mem[r], ws, remote) /\ Agrees(pc[r], mem[r], file)
         /\ \A q \in Runners \ {r} : /\ pc[q] = "idle" /\ pc'[q] = "idle"
                                     /\ mem[q] = None /\ mem'[q] = None
<1>1. overlaps = 0 /\ (Quiet \/ ~At(r, "idle"))
  BY NoOverlapBefore DEF Step
<1>2. Exclusive /\ Agrees(pc[r], mem[r], file)
  BY <1>1 DEF AloneInv
<1>3. \A q \in Runners \ {r} : pc'[q] = pc[q] /\ mem'[q] = mem[q]
  BY OthersStay
<1>4. \A q \in Runners \ {r} : pc[q] = "idle"
  BY <1>1, <1>2 DEF Exclusive, Quiet, At
<1>5. \A q \in Runners \ {r} : mem[q] = None
  BY <1>4 DEF SoundInv, Runs, Holds, Before
<1> QED BY <1>1, <1>2, <1>3, <1>4, <1>5 DEF TogetherInv

LEMMA RecordedStep ==
  ASSUME SoundInv, AloneInv, TogetherInv, NEW r \in Runners, Step(r), overlaps' = 0
  PROVE  Recorded'
<1>1. /\ Recorded /\ Uses(pc[r], mem[r], ws, remote) /\ Agrees(pc[r], mem[r], file)
      /\ Holds(pc[r], mem[r], turn[r])
  BY ByItself DEF SoundInv, Runs
<1> USE DEF Before, Opening, After, Executing, Evidencing, Delivering, Places
<1>2. CASE remote'.branch = remote.branch
  <2>1. SUFFICES ASSUME remote.branch # None PROVE file' # None /\ file'.commit = remote.branch
    BY <1>2 DEF Recorded
  <2>2. file # None /\ file.commit = remote.branch /\ file.commit # None
    BY <1>1, <2>1 DEF Recorded
  <2>3. mem[r] # None => mem[r].commit = file.commit
    <3>1. CASE pc[r] = "saveCommit"
      BY <1>1, <2>2, <3>1 DEF Agrees
    <3>2. CASE pc[r] = "saveEvidence"
      <4>1. file \in State /\ mem[r] = [file EXCEPT !.evidence = mem[r].evidence]
        BY <1>1, <2>2, <3>2 DEF Agrees, SoundInv, Disk
      <4>2. [file EXCEPT !.evidence = mem[r].evidence].commit = file.commit
        BY <4>1 DEF State
      <4> QED BY <4>1, <4>2
    <3>3. CASE pc[r] \notin {"saveCommit", "saveEvidence"}
      BY <1>1, <3>3 DEF Agrees, Holds
    <3> QED BY <3>1, <3>2, <3>3
  <2>4. CASE ~Adds(r)
    <3>1. Known(file', r) /\ (file' = file \/ file' # None)
      BY <2>4, KnownStep
    <3>2. ~(mem[r] = None /\ pc[r] = "prepare")
      BY <1>1, <2>2 DEF Agrees
    <3> QED BY <2>2, <2>3, <3>1, <3>2 DEF Known, SameWork
  <2>5. CASE StepPasses(r)
    BY <2>2, <2>3, <2>5, PassStates DEF SameBut
  <2>6. CASE Deliver(r)
    BY <2>2, <2>3, <2>6, DeliverStates DEF SameWork
  <2>7. CASE WriteEvidence(r) /\ ~Throw(r)
    BY <2>2, <2>7, WriteStates
  <2>8. CASE /\ CommitCandidate(r) /\ ~Throw(r)
             /\ ~(Continue(r, "deliver") /\ UNCHANGED <<file, ws, branch, remote>>)
    BY <2>2, <2>8, CommitStates
  <2>9. ~RevParseFails(r)
    BY <1>1, <2>2, LostStates DEF Agrees
  <2> QED BY <2>4, <2>5, <2>6, <2>7, <2>8, <2>9 DEF Adds
<1>3. CASE Push(r) /\ ~Throw(r) /\ remote'.branch = ws.head /\ UNCHANGED file
  <2>1. pc[r] = "push" /\ mem[r] # None /\ mem[r].commit # None /\ mem[r] = file
    BY <1>1, <1>3 DEF Push, At, Holds, Agrees
  <2>2. ws.head = Expected(mem[r])
    BY <1>1, <2>1 DEF Uses, Using
  <2> QED BY <1>3, <2>1, <2>2 DEF Expected, Recorded
<1> QED BY <1>2, <1>3, RemoteKept

(* What a commit holds that is made from this state of the worktree. *)
LEMMA CommittedIsCandidate ==
  ASSUME SoundInv, AloneInv, StandingInv, TogetherInv, NEW r \in Runners,
         CommitCandidate(r), ~Throw(r), overlaps' = 0,
         ~(Continue(r, "deliver") /\ UNCHANGED <<file, ws, branch, remote>>)
  PROVE  /\ ws'.head = <<[patches |-> Patches, evidence |-> {mem[r].evidence}]>>
         /\ branch' = ws'.head /\ mem[r] = file
<1>1. Step(r)
  BY DEF Step, Proceed
<1>2. /\ pc[r] = "execute" /\ Kind(r) = "deliver"
      /\ ws \in Workspace /\ ws'.head = Append(ws.head, ws.tree)
      /\ branch' = (IF ws.onBranch THEN ws'.head ELSE branch)
      /\ mem[r] # None /\ mem[r].evidence # None /\ mem[r].commit = None
  BY CommitStates
<1>3. /\ overlaps = 0 /\ Uses(pc[r], mem[r], ws, remote) /\ Agrees(pc[r], mem[r], file)
  BY <1>1, ByItself
<1>4. mem[r] = file /\ ~Completed
  BY <1>2, <1>3 DEF Agrees, Before, Opening, After, Executing, Completed
<1>5. Standing
  BY <1>3, <1>4 DEF Standing
<1>6. Whole(ws, branch) /\ Contained(ws, branch, mem[r])
  BY <1>5 DEF StandingInv, Ready
<1>7. Sound(mem[r]) /\ Open(mem[r]) # {} /\ Plan[Current(mem[r])] = "deliver"
  BY <1>2 DEF SoundInv, Runs, Holds, After, Executing, Kind
<1>8. ws.tree.patches = Patches
  <2>1. 1 .. Len(Plan) - 2 \subseteq Passed(mem[r])
    BY <1>7, PassedBefore, PlanShape
  <2> QED BY <1>2, <1>6, <2>1, BothPatches
<1>9. ws.head = <<>> /\ ws.tree.evidence = {mem[r].evidence}
  BY <1>2, <1>3 DEF Uses, Using, Executing, Expected, Base
<1>10. ws.onBranch
  BY <1>2, <1>6 DEF Contained, Whole
<1>11. ws.tree = [patches |-> Patches, evidence |-> {mem[r].evidence}]
  BY <1>2, <1>8, <1>9 DEF Workspace, Tree
<1>12. Append(<<>>, ws.tree) = <<ws.tree>>
  OBVIOUS
<1> QED BY <1>2, <1>4, <1>9, <1>10, <1>11, <1>12

LEMMA CandidateStep ==
  ASSUME SoundInv, AloneInv, StandingInv, RemoteInv, TogetherInv,
         NEW r \in Runners, Step(r), overlaps' = 0
  PROVE  Candidate(file', branch', remote') /\ Candidate(mem'[r], branch', remote')
<1>1. /\ Runs /\ Holds(pc[r], mem[r], turn[r]) /\ Disk
      /\ overlaps = 0 /\ Uses(pc[r], mem[r], ws, remote) /\ Agrees(pc[r], mem[r], file)
      /\ Candidate(file, branch, remote) /\ Candidate(mem[r], branch, remote)
      /\ Candidate(None, branch, remote)
  BY ByItself DEF SoundInv, Runs, Candidate
<1>2. ASSUME ~Adds(r), NEW t, Known(t, r) PROVE Candidate(t, branch', remote')
  <2>1. Candidate(t, branch, remote)
    BY <1>1, <1>2 DEF Known, NoWork, SameWork, Candidate
  <2>2. CASE UNCHANGED <<branch, remote>>
    BY <2>1, <2>2
  <2>3. CASE SwitchBranch(r)
    <3>1. UNCHANGED remote /\ (branch' = branch \/ branch = None)
      BY <2>3 DEF SwitchBranch
    <3> QED BY <2>1, <3>1 DEF Candidate
  <2>4. CASE Push(r) /\ ~Throw(r)
    <3>1. /\ pc[r] = "push" /\ branch' = branch
          /\ remote'.branch = ws.head /\ remote'.pullRequest = remote.pullRequest
      <4>1. ws # None /\ remote' = [remote EXCEPT !.branch = ws.head] /\ branch' = branch /\ pc[r] = "push"
        BY <2>4 DEF Push, At
      <4> QED BY <1>1, <4>1 DEF Disk
    <3>2. mem[r] # None /\ mem[r].commit # None /\ mem[r] = file
      BY <1>1, <3>1 DEF Holds, Agrees, Before, Opening, After, Executing, Delivering
    <3>3. ws.head = mem[r].commit
      BY <1>1, <3>1, <3>2 DEF Uses, Using, Executing, Delivering, Expected
    <3>4. t # None => t.commit = ws.head
      BY <1>2, <3>1, <3>2, <3>3 DEF Known, SameWork
    <3> QED BY <2>1, <3>1, <3>4 DEF Candidate
  <2>5. CASE OpenPullRequest(r)
    <3>1. branch' = branch /\ remote' = [remote EXCEPT !.pullRequest = TRUE]
      BY <2>5 DEF OpenPullRequest
    <3>2. remote'.branch = remote.branch /\ remote'.pullRequest
      BY <1>1, <3>1 DEF Disk
    <3> QED BY <2>1, <3>1, <3>2 DEF Candidate
  <2>6. UNCHANGED branch \/ SwitchBranch(r)
    <3>1. CASE ~Makes(r)
      BY <1>2, <3>1, DiskKept
    <3>2. CASE Makes(r)
      BY <3>2 DEF Makes, AddWorktree, RemoveWorktree, ApplyPatch
    <3> QED BY <3>1, <3>2
  <2>7. UNCHANGED remote \/ (Push(r) /\ ~Throw(r)) \/ OpenPullRequest(r)
    BY RemoteKept
  <2> QED BY <2>2, <2>3, <2>4, <2>5, <2>6, <2>7
<1>3. CASE ~Adds(r)
  BY <1>2, <1>3, KnownStep
<1>4. CASE StepPasses(r)
  <2>1. /\ mem[r] # None /\ UNCHANGED <<branch, remote>> /\ mem'[r] \in {None, file'}
        /\ SameBut(mem[r], file')
    BY <1>4, PassStates
  <2> QED BY <1>1, <2>1 DEF SameBut, Candidate
<1>5. CASE WriteEvidence(r) /\ ~Throw(r)
  <2>1. PICK b \in Bundle :
          /\ pc[r] = "writeEvidence" /\ UNCHANGED <<file, branch, remote>>
          /\ ws' \in Workspace /\ ws'.tree.evidence = ws.tree.evidence \cup {b}
          /\ mem'[r].evidence = b /\ mem'[r].commit = None /\ mem'[r].result = None
    BY <1>5, WriteStates
  <2>2. Standing
    BY <1>1, <2>1 DEF Agrees, Before, Completed, Standing
  <2>3. Whole(ws', branch')
    BY <2>2, WorktreeKept DEF Kept
  <2>4. Good(b)
    BY <2>1, <2>3, NoneAssumption DEF Whole
  <2> QED BY <1>1, <2>1, <2>4 DEF Candidate
<1>6. CASE /\ CommitCandidate(r) /\ ~Throw(r)
           /\ ~(Continue(r, "deliver") /\ UNCHANGED <<file, ws, branch, remote>>)
  <2>1. /\ UNCHANGED <<file, remote>> /\ mem[r] # None /\ mem[r].commit = None
        /\ mem[r].result = None /\ mem'[r].result = None
        /\ mem'[r].commit = ws'.head /\ mem'[r].evidence = mem[r].evidence
    BY <1>6, CommitStates
  <2>2. /\ ws'.head = <<[patches |-> Patches, evidence |-> {mem[r].evidence}]>>
        /\ branch' = ws'.head /\ mem[r] = file
    BY <1>6, CommittedIsCandidate
  <2> QED BY <1>1, <2>1, <2>2 DEF Candidate
<1>7. CASE Deliver(r)
  <2>1. /\ pc[r] = (IF Delivery = "github" THEN "delivered" ELSE "deliver")
        /\ UNCHANGED <<branch, remote>> /\ mem'[r] = file' /\ SameWork(mem[r], file')
        /\ mem[r] # None /\ (file'.result.pullRequest <=> Delivery = "github")
    BY <1>7, DeliverStates
  <2>2. Delivery = "github" => remote.pullRequest /\ remote.branch = mem[r].commit
    BY <1>1, <2>1 DEF Uses
  <2> QED BY <1>1, <2>1, <2>2 DEF SameWork, Candidate
<1>8. CASE RevParseFails(r)
  <2>1. /\ mem[r] # None /\ UNCHANGED <<branch, remote>> /\ mem'[r] = None
        /\ file'.evidence = mem[r].evidence /\ file'.commit = None /\ file'.result = None
    BY <1>8, LostStates
  <2> QED BY <1>1, <2>1 DEF Candidate
<1> QED BY <1>3, <1>4, <1>5, <1>6, <1>7, <1>8 DEF Adds

LEMMA UsesStep ==
  ASSUME SoundInv, AloneInv, StandingInv, RemoteInv, TogetherInv,
         NEW r \in Runners, Step(r), overlaps' = 0
  PROVE  Uses(pc'[r], mem'[r], ws', remote')
<1>1. /\ Runs /\ Holds(pc[r], mem[r], turn[r]) /\ Disk /\ FitsTogether
      /\ overlaps = 0 /\ Uses(pc[r], mem[r], ws, remote) /\ Agrees(pc[r], mem[r], file)
  BY ByItself DEF SoundInv, Runs
<1> USE DEF Using, Executing, Evidencing, Delivering
<1>2. CASE pc'[r] \notin Using
  BY <1>2 DEF Uses
<1>3. Throw(r) => pc'[r] = "idle"
  BY <1>1 DEF Throw, End, Goto, Runs
<1>4. \A p : Continue(r, p) => mem'[r] = mem[r]
  BY DEF Continue
<1>5. \A s : Save(r, s) => mem'[r] = s
  BY <1>1 DEF Save, Runs
<1>6. \A how : End(r, how) => pc'[r] = "idle"
  BY <1>1 DEF End, Goto, Runs
<1>7. CASE pc'[r] = "prepare"
  <2>1. /\ pc[r] \in {"switch", "workspace"} /\ mem[r] = file /\ ~Completed
        /\ SwitchBranch(r) \/ UseWorkspace(r)
    <3>1. SwitchBranch(r) \/ UseWorkspace(r)
      BY <1>7, Arrives DEF Arrival
    <3>2. pc[r] \in {"switch", "workspace"}
      BY <3>1 DEF SwitchBranch, UseWorkspace, At
    <3> QED BY <1>1, <3>1, <3>2 DEF Agrees, Opening, Before, Completed
  <2>2. mem'[r] = mem[r]
    BY <1>4, <1>6, <1>7, <2>1 DEF SwitchBranch, UseWorkspace
  <2>3. CASE UseWorkspace(r) /\ ws.head = Expected(mem[r]) /\ ws # None
    <3>1. mem[r] # None /\ mem[r].evidence # None => ws.tree.evidence = {mem[r].evidence}
      BY <1>1, <2>1, <2>3 DEF FitsTogether, EvidenceExpected
    <3>2. UNCHANGED ws
      BY <2>3 DEF UseWorkspace
    <3> QED BY <1>7, <2>2, <2>3, <3>1, <3>2 DEF Uses
  <2>4. CASE SwitchBranch(r)
    <3>1. pc[r] = "switch" /\ ws # None /\ branch = None
      BY <1>6, <1>7, <2>4 DEF SwitchBranch, At
    <3>2. Standing
      BY <1>1, <2>1 DEF Standing
    <3>3. file = None
      BY <3>1, <3>2 DEF StandingInv, Contained
    <3>4. ws.head = Expected(mem[r])
      BY <1>1, <2>1, <3>1, <3>3 DEF FitsTogether, CommitExpected
    <3>5. ws'.head = ws.head
      BY <1>1, <2>4, <3>1 DEF SwitchBranch, Disk, Workspace
    <3> QED BY <1>7, <2>1, <2>2, <3>3, <3>4, <3>5 DEF Uses
  <2> QED BY <1>7, <2>3, <2>4, Arrives DEF Arrival
<1>8. CASE pc'[r] = "step" /\ Prepare(r)
  <2>1. pc[r] = "prepare" /\ UNCHANGED ws
    BY <1>8 DEF Prepare, At
  <2>3. CASE mem[r] = None /\ Save(r, NewState)
    <3>1. mem'[r].commit = None /\ mem'[r].evidence = None
      BY <1>5, <2>3 DEF NewState
    <3> QED BY <1>1, <1>8, <2>1, <2>3, <3>1 DEF Uses, Expected
  <2>4. CASE mem[r] # None /\ Save(r, Retried(mem[r]))
    <3>1. SameBut(mem[r], mem'[r]) /\ mem'[r] # None
      BY <1>1, <1>5, <2>4, RetriedIsSound, NoneAssumption DEF Holds, Sound
    <3> QED BY <1>1, <1>8, <2>1, <2>4, <3>1 DEF Uses, Expected, SameBut
  <2>5. CASE Continue(r, "step")
    BY <1>1, <1>4, <1>8, <2>1, <2>5 DEF Uses
  <2> QED BY <1>6, <1>8, <2>3, <2>4, <2>5 DEF Prepare
<1>9. CASE pc'[r] = "step" /\ StepPasses(r)
  <2>1. /\ pc[r] = "passing" /\ UNCHANGED <<ws, remote>> /\ mem[r] # None
        /\ mem'[r] \in {None, file'} /\ SameBut(mem[r], file') /\ file' # None
    BY <1>9, PassStates
  <2>2. mem'[r] = file'
    BY <1>6, <1>5, <1>9 DEF StepPasses, Save
  <2> QED BY <1>1, <1>9, <2>1, <2>2 DEF Uses, Expected, SameBut
<1>10. CASE pc'[r] = "execute" /\ StartStep(r)
  <2> DEFINE s == [WithStep(mem[r], "running", None) EXCEPT !.status = PhaseFor(Kind(r))]
  <2>1. pc[r] = "step" /\ Save(r, s) /\ Open(mem[r]) # {} /\ UNCHANGED ws
    BY <1>10 DEF StartStep, At
  <2>2. SameBut(mem[r], s) /\ mem[r] # None /\ s # None
    BY <1>1, <2>1, RunningIsSound, NoneAssumption DEF Holds, After, Sound
  <2> HIDE DEF s
  <2> QED BY <1>1, <1>5, <1>10, <2>1, <2>2 DEF Uses, Expected, SameBut
<1>11. CASE pc'[r] = "passing" /\ ApplyPatch(r)
  <2>1. /\ pc[r] = "execute" /\ mem'[r] = mem[r] /\ ws # None /\ Kind(r) \in Patches
        /\ ws' = [ws EXCEPT !.tree.patches = @ \cup {Kind(r)}]
    BY <1>3, <1>4, <1>11 DEF ApplyPatch, At
  <2>2. ws \in Workspace
    BY <1>1, <2>1 DEF Disk
  <2>3. ws'.head = ws.head /\ ws'.tree.evidence = ws.tree.evidence
    <3>1. \A v : v = [ws EXCEPT !.tree.patches = @ \cup {Kind(r)}] =>
            v.head = ws.head /\ v.tree.evidence = ws.tree.evidence
      BY <2>1, <2>2, PatchedType, Zenon
    <3> QED BY <2>1, <3>1, Zenon
  <2> QED BY <1>1, <1>11, <2>1, <2>3 DEF Uses
<1>12. CASE \/ pc'[r] = "passing" /\ (Verify(r) \/ ReuseEvidence(r) \/ SaveEvidence(r))
            \/ pc'[r] = "deliver" /\ SaveCommit(r)
            \/ pc'[r] = "push" /\ CheckCandidate(r)
  <2>1. pc[r] \in Using /\ mem'[r] = mem[r] /\ UNCHANGED ws
    BY <1>3, <1>4, <1>5, <1>12 DEF Verify, ReuseEvidence, SaveEvidence, SaveCommit, CheckCandidate, At
  <2> QED BY <1>1, <1>12, <2>1 DEF Uses
<1>13. CASE pc'[r] = "passing" /\ Deliver(r)
  <2>1. /\ pc[r] \in Using /\ UNCHANGED ws /\ mem[r] # None /\ mem'[r] = file' /\ file' # None
        /\ SameWork(mem[r], file')
    BY <1>13, DeliverStates
  <2> QED BY <1>1, <1>13, <2>1 DEF Uses, Expected, SameWork
<1>14. CASE pc'[r] = "writeEvidence" /\ CheckChanges(r)
  <2>1. pc[r] = "execute" /\ mem'[r] = mem[r] /\ UNCHANGED ws /\ ws.tree.evidence = {}
    BY <1>3, <1>4, <1>14 DEF CheckChanges, At
  <2> QED BY <1>1, <1>14, <2>1 DEF Uses
<1>15. CASE pc'[r] = "saveEvidence" /\ WriteEvidence(r)
  <2>1. ~Throw(r)
    BY <1>3, <1>15
  <2>2. PICK b \in Bundle :
          /\ pc[r] = "writeEvidence" /\ ws'.head = ws.head
          /\ ws'.tree.evidence = ws.tree.evidence \cup {b}
          /\ mem[r] # None /\ mem[r].commit = None
          /\ mem'[r].evidence = b /\ mem'[r].commit = None
    BY <1>15, <2>1, WriteStates
  <2>3. ws.tree.evidence = {} /\ ws.head = Expected(mem[r])
    BY <1>1, <2>2 DEF Uses
  <2> QED BY <1>15, <2>2, <2>3 DEF Uses, Expected
<1>16. CASE pc'[r] \in {"saveCommit", "deliver"} /\ CommitCandidate(r)
  <2>1. pc[r] = "execute" /\ ~Throw(r)
    BY <1>3, <1>16 DEF CommitCandidate, At
  <2>2. CASE Continue(r, "deliver") /\ UNCHANGED <<file, ws, branch, remote>>
    <3>1. pc'[r] = "deliver"
      BY <1>1, <2>2 DEF Continue, Goto, Runs
    <3> QED BY <1>1, <1>4, <2>1, <2>2, <3>1 DEF Uses
  <2>3. CASE ~(Continue(r, "deliver") /\ UNCHANGED <<file, ws, branch, remote>>)
    <3>1. /\ ws'.head \in Commit /\ ws'.tree = ws.tree /\ mem[r] # None /\ mem'[r] # None
          /\ mem'[r].commit = ws'.head /\ mem'[r].evidence = mem[r].evidence /\ pc'[r] = "saveCommit"
      BY <1>16, <2>1, <2>3, CommitStates
    <3> QED BY <1>1, <2>1, <3>1, NoneAssumption DEF Uses, Expected
  <2> QED BY <2>2, <2>3
<1>17. CASE pc'[r] = "pullRequest" /\ Push(r) /\ ~Throw(r)
  <2>1. /\ pc[r] = "push" /\ ws # None /\ remote' = [remote EXCEPT !.branch = ws.head]
        /\ mem'[r] = mem[r] /\ UNCHANGED ws
    BY <1>4, <1>17 DEF Push, At
  <2>2. remote'.branch = ws.head /\ mem[r] # None /\ mem[r].commit # None
    BY <1>1, <2>1 DEF Disk, Holds, After
  <2> QED BY <1>1, <1>17, <2>1, <2>2 DEF Uses, Expected
<1>18. CASE pc'[r] = "delivered" /\ OpenPullRequest(r)
  <2>1. /\ pc[r] = "pullRequest" /\ remote' = [remote EXCEPT !.pullRequest = TRUE]
        /\ mem'[r] = mem[r] /\ UNCHANGED ws
    BY <1>4, <1>6, <1>18 DEF OpenPullRequest, At
  <2>2. remote'.branch = remote.branch /\ remote'.pullRequest
    BY <1>1, <2>1 DEF Disk
  <2> QED BY <1>1, <1>18, <2>1, <2>2 DEF Uses
<1>19. CASE pc'[r] \in Using
  BY <1>7, <1>8, <1>9, <1>10, <1>11, <1>12, <1>13, <1>14, <1>15, <1>16, <1>17, <1>18, <1>19,
     Arrives DEF Arrival
<1> QED BY <1>2, <1>19

(* A run by itself saves the work that is on disk already, but at the end  *)
(* of two of the Windows.                                                  *)
LEMMA SavedWork ==
  ASSUME SoundInv, AloneInv, TogetherInv, NEW r \in Runners, Step(r), overlaps' = 0,
         pc[r] \notin {"saveEvidence", "saveCommit"}
  PROVE  \/ file' = file
         \/ /\ file # None /\ file' # None
            /\ file'.commit = file.commit /\ file'.evidence = file.evidence
         \/ file = None /\ file' # None /\ file'.commit = None /\ file'.evidence = None
<1>1. Agrees(pc[r], mem[r], file) /\ Holds(pc[r], mem[r], turn[r])
  BY ByItself DEF SoundInv, Runs
<1>2. mem[r] # None => mem[r] = file
  BY <1>1 DEF Agrees, Holds, Places
<1>3. CASE ~Adds(r)
  <2>1. Known(file', r) /\ (file' = file \/ file' # None)
    BY <1>3, KnownStep
  <2>2. pc[r] = "prepare" => mem[r] = file
    BY <1>1 DEF Agrees, Opening
  <2> QED BY <1>2, <2>1, <2>2 DEF Known, NoWork, SameWork
<1>4. CASE StepPasses(r)
  BY <1>2, <1>4, PassStates DEF SameBut
<1>5. CASE Deliver(r)
  BY <1>2, <1>5, DeliverStates DEF SameWork
<1>6. CASE WriteEvidence(r) /\ ~Throw(r)
  BY <1>6, WriteStates
<1>7. CASE /\ CommitCandidate(r) /\ ~Throw(r)
           /\ ~(Continue(r, "deliver") /\ UNCHANGED <<file, ws, branch, remote>>)
  BY <1>7, CommitStates
<1>8. ~RevParseFails(r)
  BY LostStates
<1> QED BY <1>3, <1>4, <1>5, <1>6, <1>7, <1>8 DEF Adds

(* A window is left by the step that closes it, and not by losing the run. *)
LEMMA WindowStays ==
  ASSUME SoundInv, NEW r \in Runners, Step(r), NEW p \in Windows, InWindow(p),
         pc[r] = p => Crash(r) \/ RevParseFails(r)
  PROVE  InWindow(p)'
<1>1. stranded => stranded'
  BY DEF Step, Proceed, BeginRun, StepFails, RevParseFails, RemovalFails, Crash, MakePlan, Load,
       UseWorkspace, CheckBranch, AddWorktree, SwitchBranch, Prepare, StartStep, StepPasses,
       ApplyPatch, Verify, ReuseEvidence, CheckChanges, WriteEvidence, SaveEvidence,
       CommitCandidate, SaveCommit, CheckCandidate, Push, OpenPullRequest, Deliver, Complete,
       RemoveWorktree, bounds
<1>2. pc[r] = p => stranded'
  BY DEF Crash, RevParseFails
<1>3. \A q \in Runners \ {r} : pc'[q] = pc[q]
  BY OthersStay
<1> QED BY <1>1, <1>2, <1>3 DEF InWindow, At

LEMMA FitsStep ==
  ASSUME SoundInv, AloneInv, StandingInv, RemoteInv, TogetherInv,
         NEW r \in Runners, Step(r), overlaps' = 0
  PROVE  FitsTogether'
<1>1. /\ Runs /\ Holds(pc[r], mem[r], turn[r]) /\ Disk /\ FitsTogether
      /\ overlaps = 0 /\ Uses(pc[r], mem[r], ws, remote) /\ Agrees(pc[r], mem[r], file)
  BY ByItself DEF SoundInv, Runs
<1> DEFINE Fit1 == ws' # None /\ ~ws'.onBranch => InWindow("switch")'
           Fit2 == ws' # None /\ ws'.onBranch => branch' = ws'.head
           Fit3 == \/ CommitExpected'
                   \/ file' # None /\ file'.commit = None /\ InWindow("saveCommit")'
           Fit4 == \/ EvidenceExpected'
                   \/ file' # None /\ file'.evidence = None /\ InWindow("saveEvidence")'
<1>2. SUFFICES ASSUME ~Completed' PROVE Fit1 /\ Fit2 /\ Fit3 /\ Fit4
  BY DEF FitsTogether
<1>3. ~Completed
  <2>1. [Next]_vars
    BY DEF Next, Step
  <2> QED BY <1>2, <2>1, CompletedKept DEF Completed
<1>4. /\ Standing /\ Whole(ws, branch) /\ Ready(ws, branch, pc[r], mem[r])
      /\ Contained(ws, branch, file)
  BY <1>1, <1>3 DEF Standing, StandingInv
<1>5. /\ ws # None /\ ~ws.onBranch => InWindow("switch")
      /\ ws # None /\ ws.onBranch => branch = ws.head
      /\ CommitExpected \/ (file # None /\ file.commit = None /\ InWindow("saveCommit"))
      /\ EvidenceExpected \/ (file # None /\ file.evidence = None /\ InWindow("saveEvidence"))
  BY <1>1, <1>3 DEF FitsTogether
<1>6. \A p \in Windows : InWindow(p) /\ pc[r] # p => InWindow(p)'
  BY WindowStays
<1>7. "switch" \in Windows /\ "saveEvidence" \in Windows /\ "saveCommit" \in Windows
  BY DEF Windows
<1>8. ASSUME pc[r] \in Windows, Crash(r) PROVE \A p \in Windows : InWindow(p)'
  BY <1>8 DEF Crash, InWindow
<1>9. \A p : pc'[r] = p => InWindow(p)'
  BY DEF InWindow, At
<1> HIDE DEF Fit1, Fit2, Fit3, Fit4
<1>10. ASSUME ws' # None => ws # None /\ ws'.onBranch = ws.onBranch, ~SwitchBranch(r) PROVE Fit1
  <2>1. CASE pc[r] = "switch" /\ ~Crash(r)
    BY <1>10, <2>1 DEF Step, Proceed, At, BeginRun, StepFails, RevParseFails, RemovalFails, MakePlan, Load,
         UseWorkspace, CheckBranch, AddWorktree, Prepare, StartStep, StepPasses,
         ApplyPatch, Verify, ReuseEvidence, CheckChanges, WriteEvidence, SaveEvidence,
         CommitCandidate, SaveCommit, CheckCandidate, Push, OpenPullRequest, Deliver, Complete,
         RemoveWorktree
  <2>2. CASE pc[r] # "switch" \/ Crash(r)
    BY <1>5, <1>6, <1>7, <1>8, <1>10, <2>2 DEF Fit1
  <2> QED BY <2>1, <2>2
<1>11. ASSUME pc[r] \notin {"saveEvidence", "saveCommit"}, file' = file \/ UNCHANGED ws
       PROVE  /\ (ws' # None => ws # None /\ ws'.head = ws.head) => Fit3
              /\ (ws' # None => ws # None /\ ws'.tree.evidence = ws.tree.evidence) => Fit4
  <2>1. /\ InWindow("saveCommit") => InWindow("saveCommit")'
        /\ InWindow("saveEvidence") => InWindow("saveEvidence")'
    BY <1>6, <1>7, <1>11
  <2>2. \/ file' = file
        \/ /\ file # None /\ file' # None
           /\ file'.commit = file.commit /\ file'.evidence = file.evidence
        \/ file = None /\ file' # None /\ file'.commit = None /\ file'.evidence = None
    BY <1>11, SavedWork
  <2>3. ASSUME ws' # None => ws # None /\ ws'.head = ws.head PROVE Fit3
    BY <1>5, <2>1, <2>2, <2>3 DEF Fit3, CommitExpected, Expected
  <2>4. ASSUME ws' # None => ws # None /\ ws'.tree.evidence = ws.tree.evidence PROVE Fit4
    BY <1>5, <2>1, <2>2, <2>4 DEF Fit4, EvidenceExpected
  <2> QED BY <2>3, <2>4
<1>12. CASE UNCHANGED <<ws, branch>> /\ ~SwitchBranch(r) /\ pc[r] \notin {"saveEvidence", "saveCommit"}
  <2>1. Fit2
    BY <1>5, <1>12 DEF Fit2
  <2> QED BY <1>10, <1>11, <1>12, <2>1
<1>13. CASE pc[r] \in {"saveEvidence", "saveCommit"}
  <2>1. SaveEvidence(r) \/ SaveCommit(r) \/ Crash(r) \/ RevParseFails(r)
    BY <1>13 DEF Step, Proceed, At, BeginRun, StepFails, RemovalFails, MakePlan, Load,
         UseWorkspace, CheckBranch, AddWorktree, SwitchBranch, Prepare, StartStep, StepPasses,
         ApplyPatch, Verify, ReuseEvidence, CheckChanges, WriteEvidence,
         CommitCandidate, CheckCandidate, Push, OpenPullRequest, Deliver, Complete,
         RemoveWorktree
  <2>2. UNCHANGED <<ws, branch>> /\ ~SwitchBranch(r) /\ mem[r] # None /\ file # None
    BY <1>1, <1>13, <2>1 DEF SaveEvidence, SaveCommit, Crash, RevParseFails, SwitchBranch, At, Holds, After,
         Executing, Evidencing, Delivering, Agrees
  <2>3. Fit1 /\ Fit2
    BY <1>5, <1>10, <2>2 DEF Fit2
  <2>4. CASE Crash(r)
    <3>1. file' = file /\ UNCHANGED ws
      BY <2>4 DEF Crash
    <3>2. InWindow("saveCommit")' /\ InWindow("saveEvidence")'
      BY <1>7, <1>8, <1>13, <2>4 DEF Windows
    <3>3. Fit3
      BY <1>5, <3>1, <3>2 DEF Fit3, CommitExpected
    <3>4. Fit4
      BY <1>5, <3>1, <3>2 DEF Fit4, EvidenceExpected
    <3> QED BY <2>3, <3>3, <3>4
  <2>5. CASE SaveEvidence(r) \/ SaveCommit(r)
    <3>1. file' = mem[r]
      BY <2>5 DEF SaveEvidence, SaveCommit, Save
    <3>2. ws.head = Expected(mem[r]) /\ (mem[r].evidence # None => ws.tree.evidence = {mem[r].evidence})
      BY <1>1, <1>13, <2>2 DEF Uses, Using, Executing, Evidencing, Delivering
    <3>3. mem[r].evidence # None
      BY <1>1, <1>13, <2>2 DEF Holds, Sound, Backed, Evidencing, Delivering
    <3>4. Fit3
      BY <2>2, <3>1, <3>2 DEF Fit3, CommitExpected
    <3>5. Fit4
      BY <2>2, <3>1, <3>2, <3>3 DEF Fit4, EvidenceExpected
    <3> QED BY <2>3, <3>4, <3>5
  <2>6. CASE RevParseFails(r)
    <3>1. stranded' /\ file' # None /\ file'.commit = None /\ file'.evidence = mem[r].evidence
      BY <2>6, LostStates
    <3>2. pc[r] = "saveCommit" /\ ws.tree.evidence = {mem[r].evidence} /\ mem[r].evidence # None
      <4>1. pc[r] = "saveCommit" /\ mem[r].commit # None /\ Sound(mem[r])
        BY <1>1, <2>2, <2>6, LostStates DEF Holds
      <4>2. mem[r].evidence # None
        BY <4>1 DEF Sound, Backed
      <4> QED BY <1>1, <2>2, <4>1, <4>2 DEF Uses, Using, Executing, Delivering
    <3>3. Fit3
      BY <3>1 DEF Fit3, InWindow
    <3>4. Fit4
      BY <2>2, <3>1, <3>2 DEF Fit4, EvidenceExpected
    <3> QED BY <2>3, <3>3, <3>4
  <2> QED BY <2>1, <2>4, <2>5, <2>6
<1>14. CASE AddWorktree(r) /\ ~UNCHANGED ws
  <2>1. /\ pc[r] = "add" /\ ws = None /\ file' = file /\ branch' = branch /\ pc'[r] = "switch"
        /\ ws' = [head |-> Expected(mem[r]), onBranch |-> FALSE, tree |-> TreeOf(Expected(mem[r]))]
    BY <1>1, <1>14 DEF AddWorktree, At, Continue, Goto, Runs
  <2>2. branch = None /\ file = None /\ mem[r] = None
    BY <1>4, <2>1 DEF Whole, Contained, Ready
  <2>3. ws'.head = Base /\ ~ws'.onBranch /\ ws'.tree.evidence = {}
    BY <2>1, <2>2 DEF Expected, TreeOf
  <2>4. Fit1 /\ Fit2
    BY <1>7, <1>9, <2>1, <2>3 DEF Fit1, Fit2
  <2>5. Fit3
    BY <2>1, <2>2, <2>3 DEF Fit3, CommitExpected, Expected
  <2>6. Fit4
    BY <2>1, <2>2, <2>3 DEF Fit4, EvidenceExpected
  <2> QED BY <2>4, <2>5, <2>6
<1>15. CASE SwitchBranch(r)
  <2>1. /\ pc[r] = "switch" /\ ws # None /\ branch = None /\ file' = file
        /\ ws' = [ws EXCEPT !.onBranch = TRUE] /\ branch' = ws.head /\ ws \in Workspace
    BY <1>1, <1>4, <1>15 DEF SwitchBranch, At, Ready, Disk
  <2>2. ws'.onBranch /\ ws'.head = ws.head /\ ws'.tree = ws.tree
    BY <2>1 DEF Workspace
  <2>3. Fit1 /\ Fit2
    BY <2>1, <2>2 DEF Fit1, Fit2
  <2> QED BY <1>11, <2>1, <2>2, <2>3
<1>16. CASE ApplyPatch(r) /\ ~Throw(r)
  <2>1. /\ pc[r] = "execute" /\ Kind(r) \in Patches /\ ws \in Workspace /\ ws # None
        /\ ws' = [ws EXCEPT !.tree.patches = @ \cup {Kind(r)}]
        /\ UNCHANGED <<file, branch>>
    BY <1>1, <1>16 DEF ApplyPatch, At, Disk
  <2>2. /\ ws'.head = ws.head /\ ws'.onBranch = ws.onBranch
        /\ ws'.tree.evidence = ws.tree.evidence
    <3>1. \A v : v = [ws EXCEPT !.tree.patches = @ \cup {Kind(r)}] =>
            /\ v \in Workspace /\ v.head = ws.head /\ v.onBranch = ws.onBranch
            /\ v.tree.patches = ws.tree.patches \cup {Kind(r)}
            /\ v.tree.evidence = ws.tree.evidence
      BY <2>1, PatchedType, Zenon
    <3> QED BY <2>1, <3>1, Zenon
  <2>3. Fit1 /\ Fit2
    BY <1>5, <1>10, <2>1, <2>2 DEF Fit2, SwitchBranch, At
  <2> QED BY <1>11, <2>1, <2>2, <2>3
<1>17. CASE WriteEvidence(r) /\ ~Throw(r)
  <2>1. /\ pc[r] = "writeEvidence" /\ pc'[r] = "saveEvidence" /\ UNCHANGED <<file, branch>>
        /\ ws \in Workspace /\ ws'.head = ws.head /\ ws'.onBranch = ws.onBranch
        /\ mem[r] # None /\ mem[r].evidence = None
    BY <1>17, WriteStates
  <2>2. file = mem[r] /\ ws # None
    BY <1>1, <2>1, NoneAssumption DEF Agrees, After, Executing, Evidencing
  <2>3. Fit1 /\ Fit2
    BY <1>5, <1>10, <2>1, <2>2 DEF Fit2, SwitchBranch, At
  <2>4. Fit3
    BY <1>11, <2>1, <2>2
  <2>5. Fit4
    BY <1>7, <1>9, <2>1, <2>2 DEF Fit4
  <2> QED BY <2>3, <2>4, <2>5
<1>18. CASE /\ CommitCandidate(r) /\ ~Throw(r)
            /\ ~(Continue(r, "deliver") /\ UNCHANGED <<file, ws, branch, remote>>)
  <2>1. /\ pc[r] = "execute" /\ pc'[r] = "saveCommit" /\ UNCHANGED file
        /\ ws \in Workspace /\ ws'.onBranch = ws.onBranch /\ ws'.tree = ws.tree
        /\ mem[r] # None /\ mem[r].commit = None
    BY <1>18, CommitStates
  <2>2. file = mem[r] /\ ws # None /\ branch' = ws'.head
    BY <1>18, <2>1, CommittedIsCandidate, NoneAssumption
  <2>3. Fit1 /\ Fit2
    BY <1>10, <2>1, <2>2 DEF Fit2, SwitchBranch, At
  <2>4. Fit3
    BY <1>7, <1>9, <2>1, <2>2 DEF Fit3
  <2>5. Fit4
    BY <1>11, <2>1, <2>2
  <2> QED BY <2>3, <2>4, <2>5
<1>19. ~RemoveWorktree(r)
  BY <1>4, NotRemoved DEF RemoveWorktree
<1>20. CASE StepPasses(r) \/ Deliver(r)
  <2>1. UNCHANGED <<ws, branch>> /\ pc[r] \in {"passing", "delivered", "deliver"}
    BY <1>20, PassStates, DeliverStates
  <2> QED BY <1>12, <2>1 DEF SwitchBranch, At
<1>21. CASE ~Adds(r) /\ ~Makes(r)
  BY <1>12, <1>13, <1>21, DiskKept DEF Makes
<1>22. CASE AddWorktree(r) /\ UNCHANGED ws
  BY <1>12, <1>22 DEF AddWorktree, SwitchBranch, At
<1>23. RevParseFails(r) => pc[r] = "saveCommit"
  BY LostStates
<1> QED BY <1>13, <1>14, <1>15, <1>16, <1>17, <1>18, <1>19, <1>20, <1>21, <1>22, <1>23
     DEF Adds, Makes

LEMMA TogetherInit == Init => TogetherInv
<1> SUFFICES ASSUME Init
             PROVE  /\ Recorded /\ Candidate(file, branch, remote) /\ FitsTogether
                    /\ \A r \in Runners : /\ Candidate(mem[r], branch, remote)
                                          /\ Uses(pc[r], mem[r], ws, remote)
  BY DEF TogetherInv
<1>1. \A r \in Runners : pc[r] = "idle" /\ mem[r] = None
  BY DEF Init
<1>2. \A m, w, o : Uses("idle", m, w, o)
  BY DEF Uses, Using, Executing, Evidencing, Delivering
<1>3. Recorded /\ FitsTogether
  BY DEF Init, Recorded, FitsTogether, CommitExpected, EvidenceExpected
<1> QED BY <1>1, <1>2, <1>3 DEF Init, Candidate

LEMMA TogetherStep ==
  ASSUME SoundInv, AloneInv, StandingInv, RemoteInv, TogetherInv, NEW r \in Runners, Step(r)
  PROVE  TogetherInv'
<1> SUFFICES ASSUME overlaps' = 0
             PROVE  /\ Recorded' /\ Candidate(file', branch', remote') /\ FitsTogether'
                    /\ \A q \in Runners : /\ Candidate(mem'[q], branch', remote')
                                          /\ Uses(pc'[q], mem'[q], ws', remote')
  BY DEF TogetherInv
<1>1. \A m, w, o : Uses("idle", m, w, o)
  BY DEF Uses, Using, Executing, Evidencing, Delivering
<1>2. \A b, o : Candidate(None, b, o)
  BY DEF Candidate
<1>3. \A q \in Runners \ {r} : pc'[q] = "idle" /\ mem'[q] = None
  BY ByItself
<1>4. Recorded' /\ FitsTogether'
  BY RecordedStep, FitsStep
<1>5. Candidate(file', branch', remote') /\ Candidate(mem'[r], branch', remote')
  BY CandidateStep
<1>6. Uses(pc'[r], mem'[r], ws', remote')
  BY UsesStep
<1> QED BY <1>1, <1>2, <1>3, <1>4, <1>5, <1>6

-----------------------------------------------------------------------------
(* The whole invariant *)

LEMMA RunInit == Init => RunInv
BY SoundInit, AloneInit, StandingInit, GrowthInit, RemoteInit, TogetherInit DEF RunInv

LEMMA RunStep == RunInv /\ [Next]_vars => RunInv'
<1> SUFFICES ASSUME RunInv, [Next]_vars PROVE RunInv'
  OBVIOUS
<1>1. SoundInv' /\ AloneInv'
  BY SoundStep, AloneStep DEF RunInv
<1>2. CASE UNCHANGED vars
  <2>1. StandingInv'
    BY <1>2 DEF RunInv, vars, StandingInv, Standing, Completed, Whole, OneSwitches, At,
         Contained, Ready
  <2>2. GrowthInv' /\ RemoteInv'
    BY <1>2 DEF RunInv, vars, GrowthInv, GrownState, RemoteInv, Unresolved
  <2>3. TogetherInv'
    BY <1>2 DEF RunInv, vars, TogetherInv, Recorded, Candidate, Uses, FitsTogether, Completed,
         InWindow, At, CommitExpected, EvidenceExpected, Expected
  <2> QED BY <1>1, <2>1, <2>2, <2>3 DEF RunInv
<1>3. CASE Next
  <2>1. PICK r \in Runners : Step(r)
    BY <1>3 DEF Next, Step
  <2> QED BY <1>1, <2>1, StandingStep, GrowthStep, RemoteStep, TogetherStep DEF RunInv
<1> QED BY <1>2, <1>3

(* A commit that reaches the remote holds both patches and a bundle with a *)
(* receipt of every verification, however runs overlap or die; and unless  *)
(* they overlap the state on disk names it.                                *)
THEOREM PublishedTheorem == Spec => []PublishedIsEvidenced
<1>1. RunInv => PublishedIsEvidenced
  BY DEF RunInv, RemoteInv, TogetherInv, Recorded, PublishedIsEvidenced, Evidenced, Good
<1> QED BY <1>1, RunInit, RunStep, PTL DEF Spec

(* Unless runs overlap, a result is what was verified, and is published.   *)
THEOREM ResultTheorem == Spec => []ResultIsWhatWasVerified
<1>1. ASSUME RunInv PROVE ResultIsWhatWasVerified
  <2>1. SUFFICES ASSUME overlaps = 0, file # None, file.result # None
                 PROVE  /\ file.result.commit =
                             <<[patches |-> Patches, evidence |-> {file.result.evidence}]>>
                        /\ Good(file.result.evidence) /\ branch = file.result.commit
                        /\ file.result.pullRequest =>
                             remote.pullRequest /\ remote.branch = file.result.commit
    BY DEF ResultIsWhatWasVerified, Good
  <2>2. Candidate(file, branch, remote) /\ Backed(file)
    BY <1>1, <2>1 DEF RunInv, TogetherInv, SoundInv, Disk, Sound
  <2> QED BY <2>1, <2>2 DEF Candidate, Backed
<1> QED BY <1>1, RunInit, RunStep, PTL DEF Spec

(* Between runs that did not overlap, the next one can go on from what is  *)
(* there, unless one was lost in a window.                                 *)
THEOREM ResumableTheorem == Spec => []Resumable
<1>1. ASSUME RunInv PROVE Resumable
  <2>1. SUFFICES ASSUME Quiet, ~Completed, ~stranded, overlaps = 0
                 PROVE  WorktreeUsable /\ CommitExpected /\ EvidenceExpected
    BY DEF Resumable
  <2>2. FitsTogether /\ Whole(ws, branch)
    BY <1>1, <2>1 DEF RunInv, TogetherInv, StandingInv, Standing
  <2>3. \A p \in Windows : ~InWindow(p)
    BY <2>1 DEF InWindow, Quiet, At, Windows
  <2>4. ~InWindow("switch") /\ ~InWindow("saveCommit") /\ ~InWindow("saveEvidence")
    BY <2>3 DEF Windows
  <2> QED BY <2>1, <2>2, <2>4 DEF FitsTogether, Whole, WorktreeUsable
<1> QED BY <1>1, RunInit, RunStep, PTL DEF Spec
=============================================================================
