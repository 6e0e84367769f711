------------------------------ MODULE Knowledge ------------------------------
(***************************************************************************)
(* A COGA instance as the core package sees it once it is loaded: the      *)
(* graph of its resources (graph.ts) and the validation of that graph      *)
(* (validation.ts).                                                        *)
(*                                                                         *)
(* A resource with an exact version is one name, and names are numbers so  *)
(* that they have the order in which the code sorts its keys.  A reference *)
(* to a name that is not loaded dangles.  Checks of one document by itself *)
(* (schema, contract files, semantic versions, secrets, scopes, duplicates *)
(* and the form of evidence) are left out.                                 *)
(***************************************************************************)
EXTENDS Integers, Sequences, FiniteSets

CONSTANTS
  Packages, Artifacts, Apps,   \* the names there are
  Root,                        \* the instance itself
  TypeOf,                      \* artifactType of each artifact
  IdOf, VersionOf              \* of each package and artifact

Names == {Root} \cup Packages \cup Artifacts \cup Apps
Lifecycles == {"draft", "candidate", "approved", "published", "deprecated"}
Profiles == {"local", "public", "release"}

ASSUME KnowledgeAssumption ==
  /\ Names \subseteq Nat /\ IsFiniteSet(Names)
  /\ Root \notin Packages \cup Artifacts \cup Apps
  /\ Packages \cap Artifacts = {} /\ Packages \cap Apps = {} /\ Artifacts \cap Apps = {}
  /\ TypeOf \in [Artifacts -> {"rule", "scenario", "policy", "runbook"}]
  /\ VersionOf \in [Packages \cup Artifacts -> Nat]

(* The manifest is loaded, and an artifact is loaded by way of the package *)
(* that lists it (loader.ts).                                              *)
Instance ==
  {i \in
     [loaded : SUBSET Names,
      owner : [Artifacts -> Packages],          \* the package that lists it
      deps : SUBSET (Packages \X Packages),     \* spec.dependencies
      rels : SUBSET (Artifacts \X Artifacts),   \* spec.relations
      vals : SUBSET (Artifacts \X Artifacts),   \* scenario validations, of any status
      passed : SUBSET (Artifacts \X Artifacts), \* those that passed
      uses : [Apps -> SUBSET Packages],         \* harnessDependencies
      scenarios : [Apps -> SUBSET Artifacts],
      runbooks : [Apps -> SUBSET Artifacts],
      life : [Names -> Lifecycles],
      public : SUBSET Names,
      rules : [Lifecycles -> SUBSET Artifacts], \* policies of the approval rules
      evidenced : SUBSET Lifecycles,            \* those with release evidence
      approvals : [Names -> SUBSET Artifacts],  \* policies attested to
      profile : Profiles] :
   /\ Root \in i.loaded /\ i.passed \subseteq i.vals
   /\ \A a \in Artifacts \cap i.loaded : i.owner[a] \in i.loaded}

Older(x, y) == IdOf[x] = IdOf[y] /\ VersionOf[x] < VersionOf[y]

-----------------------------------------------------------------------------
(* buildResourceGraph: the edges by kind, those between loaded resources.  *)

Edges(i) ==
  LET loaded == i.loaded
      Between(S) == {e \in S : e[1] \in loaded /\ e[2] \in loaded}
      From(f, X) == Between(UNION {{x} \X f[x] : x \in X})
  IN [instance     |-> Between({Root} \X (Packages \cup Apps)),
      package      |-> Between(i.deps),
      listing      |-> Between({<<i.owner[a], a>> : a \in Artifacts}),
      relation     |-> Between(i.rels),
      validation   |-> Between(i.vals),
      application  |-> From(i.uses, Apps),
      binding      |-> From(i.scenarios, Apps) \cup From(i.runbooks, Apps),
      governance   |-> Between({Root} \X UNION {i.rules[l] : l \in Lifecycles})]

(* Everything that can be reached over a set of edges, the start included. *)
Reach(edges, from) ==
  LET visited[n \in 0 .. Cardinality(Names)] ==
        IF n = 0 THEN from
        ELSE LET before == visited[n - 1]
             IN before \cup {e[2] : e \in {f \in edges : f[1] \in before}}
  IN visited[Cardinality(Names)]

(* packageClosure; findPackagePath finds a path to just these.             *)
PackageClosure(i, roots) == Reach(Edges(i).package, roots \cap i.loaded)

-----------------------------------------------------------------------------
(* The checks of validate(). *)

(* checkPackageDependencies, checkApplicationDependencies                  *)
PackagesFound(i) ==
  /\ \A e \in i.deps : e[1] \in i.loaded => e[2] \in i.loaded
  /\ \A x \in Apps \cap i.loaded : i.uses[x] \subseteq i.loaded

(* checkArtifactReferences, checkApplicationArtifactBindings               *)
ArtifactsFound(i) ==
  LET Found(S, type) == \A a \in S : a \in i.loaded /\ TypeOf[a] = type
  IN /\ \A e \in i.rels : e[1] \in i.loaded => e[2] \in i.loaded
     /\ Found({e[2] : e \in {f \in i.vals : f[1] \in i.loaded}}, "scenario")
     /\ \A x \in Apps \cap i.loaded : Found(i.scenarios[x], "scenario")
                                      /\ Found(i.runbooks[x], "runbook")

(* checkPackageCycles *)
Acyclic(i) == \A e \in Edges(i).package : e[1] \notin PackageClosure(i, {e[2]})

(* checkArtifactRelationReachability *)
RelationsReachable(i) ==
  \A e \in Edges(i).relation :
    {i.owner[e[1]], i.owner[e[2]]} \subseteq i.loaded
      => i.owner[e[2]] \in PackageClosure(i, {i.owner[e[1]]})

(* Mutation: an application may bind an artifact of any package.           *)
BindingsReachableAnywhere(i) == TRUE

(* checkApplicationArtifactReachability *)
BindingsReachable(i) ==
  \A e \in Edges(i).binding :
    i.owner[e[2]] \in i.loaded => i.owner[e[2]] \in PackageClosure(i, i.uses[e[1]])

(* checkGovernancePolicies: of the approval rules and of attestations      *)
PoliciesTyped(i) ==
  \A a \in UNION ({i.rules[l] : l \in Lifecycles} \cup {i.approvals[n] : n \in i.loaded}) :
    a \in i.loaded /\ TypeOf[a] = "policy"

lifecycleRank == [draft |-> 0, candidate |-> 1, approved |-> 2,
                  published |-> 3, deprecated |-> 3]
Rank(i, n) == lifecycleRank[i.life[n]]

(* The edges along which maturity must not fall.                           *)
LifecycleEdges(i) ==
  LET e == Edges(i)
  IN UNION {e.instance, e.package, e.application, e.binding, e.relation, e.validation,
            e.governance}

(* Mutation: what a published package lists may be at any stage.           *)
LifecycleClosedButListings(i) ==
  \A e \in LifecycleEdges(i) : i.life[e[2]] = "deprecated" \/ Rank(i, e[1]) <= Rank(i, e[2])

(* checkLifecycleClosure; a deprecated target is only warned of.           *)
LifecycleClosed(i) ==
  /\ \A e \in LifecycleEdges(i) : Rank(i, e[1]) <= Rank(i, e[2])
  /\ \A e \in Edges(i).listing :
       i.life[e[1]] = "published" => Rank(i, e[2]) >= lifecycleRank.approved

(* checkArtifactLifecycle, of rules; that a published artifact keeps no     *)
(* failed validation concerns that artifact alone and is left out.         *)
RulesTested(i) ==
  \A a \in Artifacts \cap i.loaded :
    i.life[a] = "published" /\ TypeOf[a] = "rule" => \E e \in i.passed : e[1] = a

(* checkVisibilityClosure: outside the local profile every resource must   *)
(* be public, so that the search from public resources that follows can    *)
(* only report the same resources again.                                   *)
VisibilityClosed(i) == i.profile # "local" => i.loaded \subseteq i.public

(* checkReleaseApprovals *)
ReleaseApproved(i) ==
  i.profile = "release" =>
    /\ \A l \in Lifecycles : i.rules[l] # {} => l \in i.evidenced
    /\ \A n \in i.loaded : i.rules[i.life[n]] \subseteq i.approvals[n]

Valid(i) ==
  /\ PackagesFound(i) /\ ArtifactsFound(i)
  /\ Acyclic(i) /\ RelationsReachable(i) /\ BindingsReachable(i)
  /\ PoliciesTyped(i) /\ LifecycleClosed(i) /\ RulesTested(i)
  /\ VisibilityClosed(i) /\ ReleaseApproved(i)

-----------------------------------------------------------------------------
(* What a valid instance promises, as a whole. *)

(* The resources that one depends on, but for the artifacts of a package   *)
(* that has been deprecated: those are not looked at.                      *)
Uses(i) == LifecycleEdges(i) \cup {e \in Edges(i).listing : i.life[e[1]] # "deprecated"}

Mature(i) ==
  \A n \in i.loaded : i.life[n] = "published" =>
    /\ \A m \in Reach(Uses(i), {n}) : Rank(i, m) >= lifecycleRank.approved
    /\ n \in Artifacts /\ TypeOf[n] = "rule"
         => \E m \in i.loaded : /\ <<n, m>> \in i.passed /\ TypeOf[m] = "scenario"
                                /\ Rank(i, m) = lifecycleRank.published

Governed(i) ==
  i.profile = "release" =>
    \A n \in i.loaded, p \in Artifacts :
      p \in i.rules[i.life[n]] =>
        /\ p \in i.approvals[n] /\ p \in i.loaded /\ TypeOf[p] = "policy"
        /\ Rank(i, p) >= Rank(i, Root)
        /\ i.life[n] \in i.evidenced

=============================================================================
