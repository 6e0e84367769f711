------------------------------ MODULE Planning ------------------------------
(***************************************************************************)
(* The plan for a change of one artifact: the base instance is validated,  *)
(* the impact of the change is searched for (impact.ts), and the targets   *)
(* of the work order are compared with it and loaded (planner.ts).         *)
(*                                                                         *)
(* The searches keep a queue of names and, for each name, the best path    *)
(* found so far; a name whose path gets better is queued again.  One       *)
(* action visits one entry of the queue.                                   *)
(***************************************************************************)
EXTENDS Knowledge, SequencesExt

CONSTANTS
  Families,    \* sets of the instances that are planned for
  Changes,     \* the artifacts that are changed
  WorkOrders,  \* the sequences of applications that work orders target
  None

ASSUME PlanningAssumption ==
  /\ \A F \in Families : F \subseteq Instance
  /\ Changes \subseteq Artifacts
  /\ WorkOrders \subseteq Seq(Apps)

VARIABLES
  inst,       \* the base instance
  changed,    \* the artifact that is changed
  pc,
  queue,      \* names still to be visited
  artifacts,  \* the path to each artifact that depends on the changed one
  current,    \* the path to each package that does, and whether it is direct
  older,      \* the path to each package by way of an older version
  affected,   \* the applications affected, and the kinds of reasons for it
  plan        \* the targets and planning failures

vars == <<inst, changed, pc, queue, artifacts, current, older, affected, plan>>

-----------------------------------------------------------------------------
(* Paths *)

Lexicographic(p, q) ==
  \E n \in 1 .. Len(p) : /\ p[n] < q[n]
                         /\ \A m \in 1 .. n - 1 : p[m] = q[m]

(* preferPath: the shorter one, then the one that sorts first.             *)
Prefer(p, q) == Len(p) < Len(q) \/ (Len(p) = Len(q) /\ Lexicographic(p, q))

Preferred(S) == CHOOSE p \in S : \A q \in S \ {p} : Prefer(p, q)

(* The order in which names are visited and listed. *)
Sorted(S) == CHOOSE s \in [1 .. Cardinality(S) -> S] :
               \A m, n \in DOMAIN s : m < n => s[m] < s[n]

(* reverseArtifactPaths, reversePackagePaths: those that use a name.       *)
DependentArtifacts(a) ==
  LET e == Edges(inst) IN {d[1] : d \in {f \in e.relation \cup e.validation : f[2] = a}}

Consumers(p) == {d[1] : d \in {f \in Edges(inst).package : f[2] = p}}

(* Mutation: a path that is as long will do as well as the one found.      *)
ImprovedByLength(paths, users, x) ==
  {u \in users : u \in DOMAIN paths => Len(paths[x]) < Len(paths[u])}

(* Mutation: a name that has a path keeps it. *)
ImprovedOnce(paths, users, x) == {u \in users : u \notin DOMAIN paths}

(* The users to whom the path by way of x is the best so far.              *)
Improved(paths, users, x) ==
  {u \in users : u \in DOMAIN paths => Prefer(Append(paths[x], u), paths[u])}

(* One visit: the new paths, and the queue.                                *)
Extended(paths, users, x) ==
  LET new == Improved(paths, users, x)
  IN [u \in DOMAIN paths \cup new |->
        IF u \in new THEN Append(paths[x], u) ELSE paths[u]]
Queued(paths, users, x) == Tail(queue) \o Sorted(Improved(paths, users, x))

Owner(a) == inst.owner[a]

(* currentPackagePaths: the paths from which the search of packages starts.*)
SeedPath(a) ==
  LET prefix == <<changed, Owner(changed)>>
  IN IF a = changed THEN prefix ELSE prefix \o Tail(artifacts[a]) \o <<Owner(a)>>
CurrentSeeds ==
  LET found == DOMAIN artifacts
  IN [p \in {Owner(a) : a \in found} \cap inst.loaded |->
        Preferred({SeedPath(a) : a \in {b \in found : Owner(b) = p}})]

(* olderPackagePaths: an older version of the package holds an older       *)
(* version of the artifact.                                                *)
OlderVersions == {a \in Artifacts \cap inst.loaded :
                    /\ Older(a, changed)
                    /\ Owner(a) \in inst.loaded /\ Older(Owner(a), Owner(changed))}
OlderSeeds ==
  [p \in {Owner(a) : a \in OlderVersions} |->
     Preferred({<<changed, Owner(changed), a, p>> :
                  a \in {b \in OlderVersions : Owner(b) = p}})]

Empty == [x \in {} |-> <<>>]

-----------------------------------------------------------------------------
Init ==
  /\ \E F \in Families : inst \in F
  /\ changed \in Changes
  /\ pc = "validate"
  /\ queue = <<>>
  /\ artifacts = Empty /\ current = Empty /\ older = Empty
  /\ affected = Empty
  /\ plan = None

Goto(next) == pc' = next

(* validate(), and whether the changed artifact is registered.             *)
Validate ==
  /\ pc = "validate"
  /\ IF Valid(inst) /\ changed \in inst.loaded
       THEN /\ Goto("artifacts")
            /\ artifacts' = [a \in {changed} |-> <<changed>>]
            /\ queue' = <<changed>>
       ELSE Goto("refused") /\ UNCHANGED <<artifacts, queue>>
  /\ UNCHANGED <<inst, changed, current, older, affected, plan>>

VisitArtifact ==
  /\ pc = "artifacts" /\ queue # <<>>
  /\ LET users == DependentArtifacts(Head(queue))
     IN /\ artifacts' = Extended(artifacts, users, Head(queue))
        /\ queue' = Queued(artifacts, users, Head(queue))
  /\ UNCHANGED <<inst, changed, pc, current, older, affected, plan>>

SeedCurrent ==
  /\ pc = "artifacts" /\ queue = <<>>
  /\ current' = CurrentSeeds
  /\ queue' = Sorted(DOMAIN CurrentSeeds)
  /\ Goto("current")
  /\ UNCHANGED <<inst, changed, artifacts, older, affected, plan>>

VisitCurrent ==
  /\ pc = "current" /\ queue # <<>>
  /\ LET users == Consumers(Head(queue))
     IN /\ current' = Extended(current, users, Head(queue))
        /\ queue' = Queued(current, users, Head(queue))
  /\ UNCHANGED <<inst, changed, pc, artifacts, older, affected, plan>>

SeedOlder ==
  /\ pc = "current" /\ queue = <<>>
  /\ older' = OlderSeeds
  /\ queue' = Sorted(DOMAIN OlderSeeds)
  /\ Goto("older")
  /\ UNCHANGED <<inst, changed, artifacts, current, affected, plan>>

VisitOlder ==
  /\ pc = "older" /\ queue # <<>>
  /\ LET users == Consumers(Head(queue))
     IN /\ older' = Extended(older, users, Head(queue))
        /\ queue' = Queued(older, users, Head(queue))
  /\ UNCHANGED <<inst, changed, pc, artifacts, current, affected, plan>>

(* A path is direct when it is the seed of the owner of the artifact.      *)
Reasons(x) ==
  LET used == inst.uses[x] \cap inst.loaded
      Kind(p) == IF Len(current[p]) = 2 THEN "direct" ELSE "transitive"
  IN {[type |-> Kind(p), path |-> current[p]] : p \in used \cap DOMAIN current}
     \cup {[type |-> "older-pin", path |-> older[p]] : p \in used \cap DOMAIN older}

FindAffected ==
  /\ pc = "older" /\ queue = <<>>
  /\ affected' = [x \in {y \in Apps \cap inst.loaded : Reasons(y) # {}} |-> Reasons(x)]
  /\ Goto("plan")
  /\ UNCHANGED <<inst, changed, queue, artifacts, current, older, plan>>

(* The work order names each affected application once, and no other.      *)
Covers(targets) ==
  /\ IsInjective(targets)
  /\ {targets[n] : n \in DOMAIN targets} = DOMAIN affected

(* createFanOutExecutionPlan: a work order is refused as a whole when its  *)
(* targets are not the impact, or its branches, paths, patch or policies   *)
(* are wrong; a target whose definition or proposal receipt is wrong       *)
(* becomes a planning failure of its own.                                  *)
Plan(targets, orderly, loadable) ==
  /\ pc = "plan"
  /\ IF Covers(targets) /\ orderly
       THEN /\ Goto("planned")
            /\ plan' = [targets |-> Sorted(ToSet(targets) \cap loadable),
                        failures |-> Sorted(ToSet(targets) \ loadable)]
       ELSE Goto("refused") /\ UNCHANGED plan
  /\ UNCHANGED <<inst, changed, queue, artifacts, current, older, affected>>

Next ==
  \/ Validate \/ VisitArtifact \/ SeedCurrent \/ VisitCurrent \/ SeedOlder \/ VisitOlder
  \/ FindAffected
  \/ \E targets \in WorkOrders, orderly \in BOOLEAN, loadable \in SUBSET Apps :
       Plan(targets, orderly, loadable)

Spec == Init /\ [][Next]_vars

-----------------------------------------------------------------------------
(* Properties *)

(* Every variable has its type. *)
TypeOK ==
  /\ inst \in Instance /\ changed \in Changes
  /\ pc \in {"validate", "artifacts", "current", "older", "plan", "planned", "refused"}
  /\ queue \in Seq(Artifacts \cup Packages)
  /\ DOMAIN artifacts \subseteq Artifacts
  /\ DOMAIN current \subseteq Packages /\ DOMAIN older \subseteq Packages
  /\ DOMAIN affected \subseteq Apps
  /\ plan # None => plan.targets \in Seq(Apps) /\ plan.failures \in Seq(Apps)

(* Every chain of distinct names over a relation, from a name.             *)
Chains(rel, from, S) ==
  LET long[n \in 1 .. Cardinality(S) + 1] ==
        IF n = 1 THEN {<<from>>}
        ELSE UNION {{Append(c, x) : x \in {y \in S \ ToSet(c) : <<y, Last(c)>> \in rel}} :
                      c \in long[n - 1]}
  IN UNION {long[n] : n \in DOMAIN long}

(* All the explanations of why a package is affected: from the changed     *)
(* artifact to one that depends on it, to its owner, and on to a consumer. *)
CurrentExplanations ==
  LET e == Edges(inst)
      Start(c) == IF Len(c) = 1 THEN <<changed>>
                  ELSE <<changed, Owner(changed)>> \o Tail(c)
  IN UNION {{Start(c) \o d : d \in Chains(e.package, Owner(Last(c)), Packages)} :
              c \in Chains(e.relation \cup e.validation, changed, Artifacts)}

OlderExplanations ==
  UNION {{<<changed, Owner(changed), a>> \o d :
            d \in Chains(Edges(inst).package, Owner(a), Packages)} : a \in OlderVersions}

BestOf(paths, explanations) ==
  /\ DOMAIN paths = {Last(c) : c \in explanations}
  /\ {paths[p] : p \in DOMAIN paths} \subseteq explanations
  /\ \A c \in explanations : c = paths[Last(c)] \/ Prefer(paths[Last(c)], c)

(* The searches, which settle for a path and revise it when a better one   *)
(* turns up, end with the best of all explanations of every package that   *)
(* has one, and with no other package: the report is complete, and it does *)
(* not depend on the order of the documents.                               *)
PathsArePreferred ==
  pc \in {"plan", "planned"} => /\ BestOf(current, CurrentExplanations)
                               /\ BestOf(older, OlderExplanations)

(* What an application runs, and what that depends on.                     *)
Exercises(x, a) ==
  LET e == Edges(inst)
  IN a \in Reach(e.relation \cup e.validation,
                 (inst.scenarios[x] \cup inst.runbooks[x]) \cap inst.loaded)

(* Nothing that a change affects is left out of its plan: an application   *)
(* with a scenario or runbook that depends on the changed artifact, by any *)
(* chain of relations and validations across packages, has exactly one     *)
(* target or one recorded planning failure.  This takes the validation,    *)
(* the searches and the planner together.                                  *)
NothingAffectedIsOmitted ==
  pc = "planned" =>
    \A x \in Apps \cap inst.loaded :
      LET entries == plan.targets \o plan.failures
      IN Exercises(x, changed)
           => Cardinality({n \in DOMAIN entries : entries[n] = x}) = 1

(* An instance that is planned for is mature and governed as a whole,      *)
(* though each check looks at one edge or one resource: whatever a         *)
(* published resource reaches is approved at least, unless a deprecated    *)
(* package lists it, published rules are tested by published scenarios,    *)
(* and a release bears the approval of policies as mature as the instance. *)
AcceptedIsMature == pc \notin {"validate", "refused"} => Mature(inst) /\ Governed(inst)

(* Some path got better, and none got worse. *)
Better(new, old) ==
  /\ new # old /\ DOMAIN old \subseteq DOMAIN new
  /\ \A x \in DOMAIN old : new[x] = old[x] \/ Prefer(new[x], old[x])

Phase == [validate |-> 0, artifacts |-> 1, current |-> 2, older |-> 3, plan |-> 4,
          planned |-> 5, refused |-> 5]

(* Although relations may form cycles and names are queued again, every    *)
(* step brings the end nearer: the call goes on to a later phase, or a     *)
(* path gets better and none worse, or the queue gets shorter and the      *)
(* paths stay.  Paths without end do not get better, so that the searches  *)
(* end.                                                                    *)
SearchesProgress ==
  [][\/ Phase[pc'] > Phase[pc]
     \/ /\ pc' = pc
        /\ \/ Better(artifacts', artifacts) /\ UNCHANGED <<current, older>>
           \/ Better(current', current) /\ UNCHANGED <<artifacts, older>>
           \/ Better(older', older) /\ UNCHANGED <<artifacts, current>>
           \/ queue' = Tail(queue) /\ UNCHANGED <<artifacts, current, older>>]_vars

=============================================================================
