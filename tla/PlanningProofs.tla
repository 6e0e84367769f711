--------------------------- MODULE PlanningProofs ---------------------------
(***************************************************************************)
(* What holds of Planning, and of the validation in Knowledge, for every   *)
(* set of names, every family of instances and every work order.           *)
(*                                                                         *)
(* Three proofs that meet in one invariant, and one that builds on it:     *)
(*   - what the order of paths decides: the sorting of names, the best of  *)
(*     finitely many paths, and that a path that is replaced got better    *)
(*     (from a least counterexample, since the sets are of any size);      *)
(*   - what validation adds up to: each check is of one edge, and Reach    *)
(*     stays inside a set that no edge leaves, so that what all checks     *)
(*     together accept is mature and governed along every path;            *)
(*   - what the searches find: a name with a path has its users, or is     *)
(*     still queued (Covered).  When a queue is empty, what has a path is  *)
(*     closed under use, and whatever reaches it must start in it;         *)
(*   - why what they find is the best: a path is a head and a chain none   *)
(*     of whose names has a longer path than up to there (Explained), so   *)
(*     that the path by way of a name never returns to it; no user's path  *)
(*     is worse than the one by way of what it uses, unless that is still  *)
(*     queued (Relaxed).                                                   *)
(***************************************************************************)
EXTENDS Planning, FiniteSetTheorems, FunctionTheorems, SequenceTheorems, TLAPS

-----------------------------------------------------------------------------
(* Every set of natural numbers has a least one. *)
LEMMA LeastNatural ==
  ASSUME NEW S \in SUBSET Nat, S # {}
  PROVE  \E m \in S : \A k \in S : m <= k
<1> DEFINE R == StrictSubsetOrdering(Nat)
           T == {0 .. n : n \in S}
<1>1. \A n \in Nat : 0 .. n \in SUBSET Nat /\ IsFiniteSet(0 .. n)
  BY FS_Interval
<1>2. T \subseteq FiniteSubsetsOf(Nat) /\ T # {}
  BY <1>1 DEF FiniteSubsetsOf
<1>3. PICK x \in T : \A y \in T : <<y, x>> \notin R
  <2> HIDE DEF T
  <2> QED BY <1>2, WFMin, FS_StrictSubsetOrderingWellFounded
<1>4. PICK m \in S : x = 0 .. m
  BY <1>3
<1>5. ASSUME NEW k \in S, k < m PROVE FALSE
  <2>1. 0 .. k \in T /\ 0 .. k \in SUBSET Nat /\ x \in SUBSET Nat
    BY <1>1, <1>4
  <2>2. 0 .. k \subseteq x /\ 0 .. k # x
    BY <1>4, <1>5
  <2>3. <<0 .. k, x>> \in R
    BY <2>1, <2>2 DEF StrictSubsetOrdering
  <2> QED BY <1>3, <2>1, <2>3
<1> QED BY <1>4, <1>5

-----------------------------------------------------------------------------
(* Sorting *)

Increasing(s) == \A m, n \in DOMAIN s : m < n => s[m] < s[n]

(* Every finite set of names can be sorted. *)
LEMMA SortedExists ==
  ASSUME NEW S \in SUBSET Nat, IsFiniteSet(S)
  PROVE  \E s \in [1 .. Cardinality(S) -> S] : Increasing(s)
<1> DEFINE Ok(X) == \E s \in [1 .. Cardinality(X) -> X] : Increasing(s)
           Bad == {k \in Nat : \E X \in SUBSET Nat : /\ IsFiniteSet(X) /\ Cardinality(X) = k
                                                     /\ ~Ok(X)}
<1>1. SUFFICES ASSUME Bad # {} PROVE FALSE
  BY FS_CardinalityType
<1>2. PICK k \in Bad : \A j \in Bad : k <= j
  <2>1. Bad \in SUBSET Nat
    OBVIOUS
  <2> HIDE DEF Bad
  <2> QED BY <1>1, <2>1, LeastNatural
<1>3. PICK X \in SUBSET Nat : IsFiniteSet(X) /\ Cardinality(X) = k /\ ~Ok(X)
  BY <1>2
<1>4. CASE X = {}
  <2> DEFINE s == [i \in 1 .. 0 |-> i]
  <2>1. Cardinality(X) = 0 /\ 1 .. 0 = {}
    BY <1>4, FS_EmptySet
  <2>2. s \in [1 .. Cardinality(X) -> X] /\ Increasing(s)
    BY <2>1 DEF Increasing
  <2> QED BY <1>3, <2>2
<1>5. CASE X # {}
  <2>1. PICK a \in X : \A b \in X : a <= b
    BY <1>3, <1>5, LeastNatural
  <2> DEFINE Y == X \ {a}
  <2>2. IsFiniteSet(Y) /\ Cardinality(Y) = k - 1 /\ Y \in SUBSET Nat
    BY <1>3, <2>1, FS_RemoveElement
  <2>3. Cardinality(Y) \in Nat /\ k \in Nat
    BY <1>2, <2>2, FS_CardinalityType
  <2>4. k - 1 \notin Bad
    BY <1>2, <2>2, <2>3
  <2>5. Ok(Y)
    BY <2>2, <2>3, <2>4
  <2>6. PICK s \in [1 .. k - 1 -> Y] : Increasing(s)
    BY <2>2, <2>5
  <2> DEFINE r == [i \in 1 .. k |-> IF i = 1 THEN a ELSE s[i - 1]]
  <2>7. \A i \in 1 .. k : i # 1 => i - 1 \in 1 .. k - 1 /\ s[i - 1] \in Y
    BY <2>3, <2>6
  <2>8. r \in [1 .. k -> X]
    BY <2>1, <2>7
  <2>9. Increasing(r)
    <3>1. ASSUME NEW m \in 1 .. k, NEW n \in 1 .. k, m < n PROVE r[m] < r[n]
      <4>1. n # 1 /\ r[n] = s[n - 1] /\ s[n - 1] \in Y
        BY <2>3, <2>7, <3>1
      <4>2. CASE m = 1
        <5>1. r[m] = a /\ a \in Nat /\ s[n - 1] \in Nat /\ a <= s[n - 1] /\ a # s[n - 1]
          BY <2>1, <4>1, <4>2
        <5> QED BY <4>1, <5>1
      <4>3. CASE m # 1
        <5>1. m - 1 \in DOMAIN s /\ n - 1 \in DOMAIN s /\ m - 1 < n - 1 /\ r[m] = s[m - 1]
          BY <2>3, <2>7, <3>1, <4>1, <4>3
        <5> QED BY <2>6, <4>1, <5>1 DEF Increasing
      <4> QED BY <4>2, <4>3
    <3>2. DOMAIN r = 1 .. k
      OBVIOUS
    <3> HIDE DEF r
    <3> QED BY <3>1, <3>2 DEF Increasing
  <2> QED BY <1>3, <2>8, <2>9
<1> QED BY <1>4, <1>5

(* Sorted lists every name of a set once, and nothing else. *)
LEMMA SortedIs ==
  ASSUME NEW S \in SUBSET Nat, IsFiniteSet(S)
  PROVE  /\ Sorted(S) \in Seq(S) /\ IsInjective(Sorted(S))
         /\ DOMAIN Sorted(S) = 1 .. Len(Sorted(S)) /\ Len(Sorted(S)) = Cardinality(S)
         /\ ToSet(Sorted(S)) = S
<1> DEFINE s == Sorted(S)
           k == Cardinality(S)
<1>1. k \in Nat
  BY FS_CardinalityType
<1>2. s \in [1 .. k -> S] /\ Increasing(s)
  BY SortedExists DEF Sorted, Increasing
<1> HIDE DEF s, k
<1>3. s \in Seq(S) /\ DOMAIN s = 1 .. k /\ Len(s) = k
  <2>1. s \in Seq(S)
    BY <1>1, <1>2, IsASeq
  <2> QED BY <1>1, <1>2, <2>1, LenProperties
<1>4. ASSUME NEW m \in DOMAIN s, NEW n \in DOMAIN s, s[m] = s[n] PROVE m = n
  <2>1. m \in Nat /\ n \in Nat /\ s[m] \in Nat /\ s[n] \in Nat
    <3>1. m \in 1 .. k /\ n \in 1 .. k
      BY <1>3
    <3>2. s[m] \in S /\ s[n] \in S
      BY <1>2, <3>1
    <3>3. m \in Nat /\ n \in Nat
      BY <1>1, <3>1
    <3> QED BY <3>2, <3>3
  <2>2. ~(m < n) /\ ~(n < m)
    BY <1>2, <1>4, <2>1 DEF Increasing
  <2> QED BY <2>1, <2>2
<1>5. IsInjective(s)
  BY <1>4 DEF IsInjective
<1> DEFINE T == {s[i] : i \in 1 .. k}
<1>6. T \subseteq S
  BY <1>2
<1>7. s \in Surjection(1 .. k, T) /\ s \in Injection(1 .. k, T)
  BY <1>2, <1>3, <1>4 DEF Surjection, Injection, IsInjective
<1>8. IsFiniteSet(1 .. k) /\ Cardinality(1 .. k) = k
  BY <1>1, FS_Interval
<1>9. IsFiniteSet(T) /\ Cardinality(T) = k
  <2> HIDE DEF T
  <2> QED BY <1>7, <1>8, FS_Surjection
<1>10. T = S
  <2> HIDE DEF T
  <2> QED BY <1>6, <1>9, FS_Subset DEF k
<1>11. ToSet(s) = S
  BY <1>3, <1>10 DEF ToSet
<1> QED BY <1>3, <1>5, <1>11 DEF s, k

LEMMA SortedNothing == Sorted({}) = <<>>
<1>1. IsFiniteSet({}) /\ {} \in SUBSET Nat /\ Cardinality({}) = 0
  BY FS_EmptySet
<1>2. Sorted({}) \in Seq({}) /\ Len(Sorted({})) = 0
  BY <1>1, SortedIs
<1> QED BY <1>2, EmptySeq

-----------------------------------------------------------------------------
(* The order of paths *)

Paths == Seq(Nat)

LEMMA PathIs ==
  ASSUME NEW p \in Paths
  PROVE  Len(p) \in Nat /\ DOMAIN p = 1 .. Len(p) /\ \A n \in 1 .. Len(p) : p[n] \in Nat
BY LenProperties, ElementOfSeq DEF Paths

(* No path is preferred to itself. *)
LEMMA PreferStrict == ASSUME NEW p \in Paths PROVE ~Prefer(p, p)
BY PathIs DEF Prefer, Lexicographic

LEMMA PreferTransitive ==
  ASSUME NEW p \in Paths, NEW q \in Paths, NEW s \in Paths, Prefer(p, q), Prefer(q, s)
  PROVE  Prefer(p, s)
<1>1. Len(p) \in Nat /\ Len(q) \in Nat /\ Len(s) \in Nat
  BY PathIs
<1>2. CASE Len(p) < Len(s)
  BY <1>2 DEF Prefer
<1>3. CASE ~(Len(p) < Len(s))
  <2>1. Len(p) = Len(q) /\ Len(q) = Len(s) /\ Lexicographic(p, q) /\ Lexicographic(q, s)
    BY <1>1, <1>3 DEF Prefer
  <2>2. PICK m \in 1 .. Len(p) : p[m] < q[m] /\ \A i \in 1 .. m - 1 : p[i] = q[i]
    BY <2>1 DEF Lexicographic
  <2>3. PICK n \in 1 .. Len(q) : q[n] < s[n] /\ \A i \in 1 .. n - 1 : q[i] = s[i]
    BY <2>1 DEF Lexicographic
  <2>4. \A i \in 1 .. Len(p) : p[i] \in Nat /\ q[i] \in Nat /\ s[i] \in Nat
    BY <2>1, PathIs
  <2>5. CASE m <= n
    <3>1. p[m] < s[m]
      <4>1. m = n \/ m \in 1 .. n - 1
        BY <1>1, <2>5
      <4>2. q[m] <= s[m]
        BY <2>1, <2>3, <2>4, <4>1
      <4> QED BY <2>1, <2>2, <2>4, <4>2
    <3>2. \A i \in 1 .. m - 1 : i \in 1 .. n - 1
      BY <1>1, <2>5
    <3>3. \A i \in 1 .. m - 1 : p[i] = s[i]
      BY <2>2, <2>3, <3>2
    <3> QED BY <2>1, <3>1, <3>3 DEF Prefer, Lexicographic
  <2>6. CASE n < m
    <3>1. n \in 1 .. m - 1 /\ n \in 1 .. Len(p)
      BY <1>1, <2>1, <2>6
    <3>2. p[n] < s[n]
      BY <2>2, <2>3, <3>1
    <3>3. \A i \in 1 .. n - 1 : i \in 1 .. m - 1
      BY <1>1, <2>6
    <3>4. \A i \in 1 .. n - 1 : p[i] = s[i]
      BY <2>2, <2>3, <3>3
    <3> QED BY <2>1, <3>1, <3>2, <3>4 DEF Prefer, Lexicographic
  <2> QED BY <1>1, <2>5, <2>6
<1> QED BY <1>2, <1>3

LEMMA PreferTotal ==
  ASSUME NEW p \in Paths, NEW q \in Paths, p # q
  PROVE  Prefer(p, q) \/ Prefer(q, p)
<1>1. Len(p) \in Nat /\ Len(q) \in Nat
  BY PathIs
<1>2. CASE Len(p) # Len(q)
  BY <1>1, <1>2 DEF Prefer
<1>3. CASE Len(p) = Len(q)
  <2> DEFINE D == {i \in 1 .. Len(p) : p[i] # q[i]}
  <2>1. D \in SUBSET Nat /\ D # {}
    <3>1. CASE D = {}
      <4>1. \A i \in 1 .. Len(p) : p[i] = q[i]
        BY <3>1
      <4>2. p = q
        BY <1>3, <4>1, SeqEqual DEF Paths
      <4> QED BY <4>2
    <3> QED BY <3>1
  <2>2. PICK m \in D : \A k \in D : m <= k
    <3> HIDE DEF D
    <3> QED BY <2>1, LeastNatural
  <2>3. \A i \in 1 .. m - 1 : p[i] = q[i]
    <3>1. \A i \in 1 .. m - 1 : i \in 1 .. Len(p) /\ ~(m <= i)
      BY <1>1, <2>2
    <3> QED BY <2>2, <3>1
  <2>4. p[m] \in Nat /\ q[m] \in Nat /\ p[m] # q[m] /\ m \in 1 .. Len(p)
    BY <1>3, <2>2, PathIs
  <2>5. p[m] < q[m] \/ q[m] < p[m]
    BY <2>4
  <2> QED BY <1>3, <2>3, <2>4, <2>5 DEF Prefer, Lexicographic
<1> QED BY <1>2, <1>3

Best(p, S) == p \in S /\ \A q \in S \ {p} : Prefer(p, q)

LEMMA BestExists ==
  ASSUME NEW S \in SUBSET Paths, IsFiniteSet(S), S # {}
  PROVE  Best(Preferred(S), S)
<1> DEFINE Ok(X) == \E p : Best(p, X)
           Bad == {k \in Nat : \E X \in SUBSET Paths : /\ IsFiniteSet(X) /\ X # {}
                                                       /\ Cardinality(X) = k /\ ~Ok(X)}
<1>1. ASSUME Bad # {} PROVE FALSE
  <2>1. PICK k \in Bad : \A j \in Bad : k <= j
    <3>1. Bad \in SUBSET Nat
      OBVIOUS
    <3> HIDE DEF Bad
    <3> QED BY <1>1, <3>1, LeastNatural
  <2>2. PICK X \in SUBSET Paths : IsFiniteSet(X) /\ X # {} /\ Cardinality(X) = k /\ ~Ok(X)
    BY <2>1
  <2>3. PICK x \in X : TRUE
    BY <2>2
  <2> DEFINE Y == X \ {x}
  <2>4. CASE Y = {}
    <3>1. Best(x, X)
      BY <2>3, <2>4 DEF Best
    <3> QED BY <2>2, <3>1
  <2>5. CASE Y # {}
    <3>1. IsFiniteSet(Y) /\ Cardinality(Y) = k - 1 /\ Y \in SUBSET Paths
      BY <2>2, <2>3, FS_RemoveElement
    <3>2. Cardinality(Y) \in Nat /\ k \in Nat
      BY <2>1, <3>1, FS_CardinalityType
    <3>3. k - 1 \notin Bad
      BY <2>1, <3>1, <3>2
    <3>4. PICK y : Best(y, Y)
      BY <2>5, <3>1, <3>2, <3>3
    <3>5. y \in Paths /\ x \in Paths /\ y # x /\ y \in X
      BY <2>2, <2>3, <3>4 DEF Best
    <3>6. CASE Prefer(x, y)
      <4>1. ASSUME NEW q \in X \ {x} PROVE Prefer(x, q)
        <5>1. q = y \/ Prefer(y, q)
          BY <3>4, <4>1 DEF Best
        <5>2. q \in Paths
          BY <2>2, <4>1
        <5> QED BY <3>5, <3>6, <5>1, <5>2, PreferTransitive
      <4>2. Best(x, X)
        BY <2>3, <4>1 DEF Best
      <4> QED BY <2>2, <4>2
    <3>7. CASE Prefer(y, x)
      <4>1. Best(y, X)
        BY <3>4, <3>5, <3>7 DEF Best
      <4> QED BY <2>2, <4>1
    <3> QED BY <3>5, <3>6, <3>7, PreferTotal
  <2> QED BY <2>4, <2>5
<1>2. Cardinality(S) \in Nat
  BY FS_CardinalityType
<1>3. \E p : Best(p, S)
  BY <1>1, <1>2
<1> QED BY <1>3 DEF Preferred, Best

-----------------------------------------------------------------------------
(* Reach *)

ReachStep(edges, before) == before \cup {e[2] : e \in {f \in edges : f[1] \in before}}

Visits(edges, from, v, n) ==
  v = [k \in 0 .. n |-> IF k = 0 THEN from ELSE ReachStep(edges, v[k - 1])]

LEMMA VisitsExist == ASSUME NEW edges, NEW from, NEW n \in Nat
                     PROVE  \E v : Visits(edges, from, v, n)
<1> DEFINE Bad == {k \in Nat : ~ \E v : Visits(edges, from, v, k)}
<1> SUFFICES ASSUME Bad # {} PROVE FALSE
  OBVIOUS
<1>1. PICK m \in Bad : \A k \in Bad : m <= k
  <2>1. Bad \in SUBSET Nat
    OBVIOUS
  <2> HIDE DEF Bad
  <2> QED BY <2>1, LeastNatural
<1>2. m \in Nat /\ ~ \E v : Visits(edges, from, v, m)
  BY <1>1
<1>3. CASE m = 0
  <2> DEFINE v == [k \in 0 .. 0 |-> from]
  <2>1. v = [k \in 0 .. 0 |-> IF k = 0 THEN from ELSE ReachStep(edges, v[k - 1])]
    OBVIOUS
  <2>2. Visits(edges, from, v, 0)
    BY <2>1 DEF Visits
  <2> QED BY <1>2, <1>3, <2>2
<1>4. CASE m # 0
  <2>1. m - 1 \in Nat /\ m - 1 \notin Bad
    BY <1>1, <1>4
  <2>2. PICK v : Visits(edges, from, v, m - 1)
    BY <2>1
  <2> DEFINE last == ReachStep(edges, v[m - 1])
             w    == [k \in 0 .. m |-> IF k = m THEN last ELSE v[k]]
  <2>3. ASSUME NEW k \in 0 .. m
        PROVE  w[k] = IF k = 0 THEN from ELSE ReachStep(edges, w[k - 1])
    <3>1. k # 0 => k - 1 \in 0 .. m /\ k - 1 # m
      BY <1>2
    <3>2. k # 0 => w[k - 1] = v[k - 1]
      <4> HIDE DEF last
      <4> QED BY <3>1
    <3>3. CASE k = m
      <4>1. w[k] = last
        <5> HIDE DEF last
        <5> QED BY <3>3
      <4> QED BY <1>4, <3>2, <3>3, <4>1
    <3>4. CASE k # m
      <4>1. k \in 0 .. m - 1
        BY <1>2, <3>4
      <4>2. v[k] = IF k = 0 THEN from ELSE ReachStep(edges, v[k - 1])
        BY <2>2, <4>1 DEF Visits
      <4>3. w[k] = v[k]
        <5> HIDE DEF last
        <5> QED BY <3>4
      <4> QED BY <3>2, <4>2, <4>3
    <3> QED BY <3>3, <3>4
  <2>4. w = [k \in 0 .. m |-> w[k]]
    OBVIOUS
  <2>5. Visits(edges, from, w, m)
    <3> HIDE DEF w
    <3> QED BY <2>3, <2>4 DEF Visits
  <2> QED BY <1>2, <2>5
<1> QED BY <1>3, <1>4

(* A set that no edge leaves, from within, contains what it reaches. *)
LEMMA ReachInside ==
  ASSUME NEW edges, NEW from, NEW S, from \subseteq S,
         \A e \in edges : e[1] \in S => e[2] \in S
  PROVE  Reach(edges, from) \subseteq S
<1> DEFINE N == Cardinality(Names)
           v == CHOOSE v : v = [n \in 0 .. N |-> IF n = 0 THEN from ELSE ReachStep(edges, v[n - 1])]
<1>1. N \in Nat
  BY KnowledgeAssumption, FS_CardinalityType
<1>2. Visits(edges, from, v, N)
  <2>1. \E u : Visits(edges, from, u, N)
    BY <1>1, VisitsExist
  <2> QED BY <2>1 DEF Visits
<1>3. Reach(edges, from) = v[N]
  BY DEF Reach, ReachStep
<1> HIDE DEF v, N
<1> DEFINE Bad == {k \in 0 .. N : ~(v[k] \subseteq S)}
<1>4. ASSUME Bad # {} PROVE FALSE
  <2>1. PICK m \in Bad : \A k \in Bad : m <= k
    <3>1. Bad \in SUBSET Nat
      BY <1>1
    <3> HIDE DEF Bad
    <3> QED BY <1>4, <3>1, LeastNatural
  <2>2. m \in 0 .. N /\ ~(v[m] \subseteq S)
    BY <2>1
  <2>3. v[m] = IF m = 0 THEN from ELSE ReachStep(edges, v[m - 1])
    BY <1>2, <2>2 DEF Visits
  <2>4. m # 0
    BY <2>2, <2>3
  <2>5. m - 1 \in 0 .. N /\ m - 1 \notin Bad
    BY <1>1, <2>1, <2>4
  <2>6. v[m - 1] \subseteq S
    BY <2>5
  <2> QED BY <2>2, <2>3, <2>4, <2>6 DEF ReachStep
<1>5. N \in 0 .. N
  BY <1>1
<1> QED BY <1>3, <1>4, <1>5

(* Where S is reached, it was entered from the start or by an edge.        *)
LEMMA ReachEnters ==
  ASSUME NEW edges, NEW from, NEW S, Reach(edges, from) \cap S # {},
         \A e \in edges : e[2] \in S => e[1] \in S,
         NEW All, from \subseteq All, \A e \in edges : e[2] \in All
  PROVE  from \cap S # {}
<1> SUFFICES ASSUME from \cap S = {} PROVE FALSE
  OBVIOUS
<1> DEFINE C == All \ S
<1>1. from \subseteq C /\ \A e \in edges : e[1] \in C => e[2] \in C
  OBVIOUS
<1>2. Reach(edges, from) \subseteq C
  <2> HIDE DEF C
  <2> QED BY <1>1, ReachInside
<1> QED BY <1>2

-----------------------------------------------------------------------------
(* What validation accepts is mature and governed *)

LEMMA RankIs ==
  ASSUME NEW i \in Instance, NEW n \in Names
  PROVE  /\ Rank(i, n) \in 0 .. 3
         /\ i.life[n] = "published" => Rank(i, n) = 3
         /\ Rank(i, n) = 3 => i.life[n] \in {"published", "deprecated"}
<1>1. i.life[n] \in Lifecycles
  BY DEF Instance
<1> QED BY <1>1 DEF Rank, lifecycleRank, Lifecycles

LEMMA Kinds ==
  /\ Packages \cap Artifacts = {} /\ Root \notin Artifacts /\ Apps \cap Artifacts = {}
  /\ Packages \subseteq Names /\ Artifacts \subseteq Names /\ Apps \subseteq Names /\ Root \in Names
BY KnowledgeAssumption DEF Names

(* What a published resource may reach. *)
Ripe(i) == {n \in Names : Rank(i, n) >= IF n \in Artifacts THEN 2 ELSE 3}

LEMMA EdgeEnds ==
  ASSUME NEW i \in Instance
  PROVE  \A e \in LifecycleEdges(i) : /\ e[1] \in Names /\ e[2] \in Names
                                      /\ e[1] \in Artifacts => e[2] \in Artifacts
<1> DEFINE E == Edges(i)
<1>1. \A e \in E.instance \cup E.package \cup E.application \cup E.binding \cup E.governance :
        e[1] \in Names /\ e[2] \in Names /\ e[1] \notin Artifacts
  BY Kinds DEF Edges, Instance
<1>2. \A e \in E.relation \cup E.validation : e[1] \in Artifacts /\ e[2] \in Artifacts
  BY DEF Edges, Instance
<1>3. LifecycleEdges(i) = E.instance \cup E.package \cup E.application \cup E.binding
                           \cup E.governance \cup E.relation \cup E.validation
  BY DEF LifecycleEdges
<1> HIDE DEF E
<1>4. \A e \in LifecycleEdges(i) : /\ e[1] \in Names /\ e[2] \in Names
                                   /\ e[1] \in Artifacts => e[2] \in Artifacts
  BY <1>1, <1>2, <1>3, Kinds
<1> QED BY <1>4

LEMMA ListingEnds ==
  ASSUME NEW i \in Instance
  PROVE  \A e \in Edges(i).listing : e[1] \in Packages /\ e[2] \in Artifacts
BY DEF Edges, Instance

LEMMA RipeClosed ==
  ASSUME NEW i \in Instance, LifecycleClosed(i), NEW e \in Uses(i), e[1] \in Ripe(i)
  PROVE  e[2] \in Ripe(i)
<1>1. CASE e \in LifecycleEdges(i)
  <2>1. /\ e[1] \in Names /\ e[2] \in Names /\ Rank(i, e[1]) <= Rank(i, e[2])
        /\ e[1] \in Artifacts => e[2] \in Artifacts
    <3>1. Rank(i, e[1]) <= Rank(i, e[2])
      BY <1>1 DEF LifecycleClosed
    <3>2. /\ e[1] \in Names /\ e[2] \in Names
          /\ e[1] \in Artifacts => e[2] \in Artifacts
      BY <1>1, EdgeEnds
    <3> QED BY <3>1, <3>2
  <2>2. Rank(i, e[1]) \in 0 .. 3 /\ Rank(i, e[2]) \in 0 .. 3
    BY <2>1, RankIs
  <2> QED BY <2>1, <2>2 DEF Ripe
<1>2. CASE e \in Edges(i).listing /\ i.life[e[1]] # "deprecated"
  <2>1. /\ e[1] \in Packages /\ e[2] \in Artifacts
        /\ e[1] \in Names /\ e[2] \in Names /\ e[1] \notin Artifacts
    BY <1>2, ListingEnds, Kinds
  <2>2. Rank(i, e[1]) = 3
    BY <2>1, RankIs DEF Ripe
  <2>3. i.life[e[1]] = "published"
    BY <1>2, <2>1, <2>2, RankIs
  <2>4. Rank(i, e[2]) >= 2
    BY <1>2, <2>3 DEF LifecycleClosed, lifecycleRank
  <2> QED BY <2>1, <2>4 DEF Ripe
<1> QED BY <1>1, <1>2 DEF Uses

LEMMA ValidIsMature == ASSUME NEW i \in Instance, Valid(i) PROVE Mature(i)
<1>1. LifecycleClosed(i) /\ RulesTested(i) /\ ArtifactsFound(i)
  BY DEF Valid
<1>2. i.loaded \subseteq Names
  BY DEF Instance
<1>3. ASSUME NEW n \in i.loaded, i.life[n] = "published", NEW m \in Reach(Uses(i), {n})
      PROVE  Rank(i, m) >= lifecycleRank.approved
  <2>1. Rank(i, n) = 3
    BY <1>2, <1>3, RankIs
  <2>2. {n} \subseteq Ripe(i)
    BY <1>2, <2>1 DEF Ripe
  <2>3. Reach(Uses(i), {n}) \subseteq Ripe(i)
    BY <1>1, <2>2, RipeClosed, ReachInside
  <2>4. m \in Ripe(i)
    BY <1>3, <2>3
  <2>5. m \in Names /\ Rank(i, m) \in 0 .. 3 /\ (Rank(i, m) >= 2 \/ Rank(i, m) >= 3)
    BY <2>4, RankIs DEF Ripe
  <2> QED BY <2>5 DEF lifecycleRank
<1>4. ASSUME NEW n \in i.loaded, i.life[n] = "published", n \in Artifacts, TypeOf[n] = "rule"
      PROVE  \E m \in i.loaded : /\ <<n, m>> \in i.passed /\ TypeOf[m] = "scenario"
                                 /\ Rank(i, m) = lifecycleRank.published
  <2>1. PICK e \in i.passed : e[1] = n
    BY <1>1, <1>4 DEF RulesTested
  <2>2. e = <<n, e[2]>> /\ e[2] \in Artifacts /\ e \in i.vals
    BY <2>1 DEF Instance
  <2>3. e[2] \in i.loaded /\ TypeOf[e[2]] = "scenario"
    BY <1>1, <1>4, <2>1, <2>2 DEF ArtifactsFound
  <2>4. e \in LifecycleEdges(i)
    BY <1>4, <2>1, <2>2, <2>3 DEF LifecycleEdges, Edges
  <2>5. Rank(i, n) <= Rank(i, e[2]) /\ Rank(i, n) = 3 /\ Rank(i, e[2]) \in 0 .. 3
    BY <1>1, <1>2, <1>4, <2>1, <2>3, <2>4, RankIs DEF LifecycleClosed
  <2> QED BY <2>1, <2>2, <2>3, <2>5 DEF lifecycleRank
<1> QED BY <1>3, <1>4 DEF Mature

LEMMA ValidIsGoverned == ASSUME NEW i \in Instance, Valid(i) PROVE Governed(i)
<1> SUFFICES ASSUME i.profile = "release", NEW n \in i.loaded, NEW p \in Artifacts,
                    p \in i.rules[i.life[n]]
             PROVE  /\ p \in i.approvals[n] /\ p \in i.loaded /\ TypeOf[p] = "policy"
                    /\ Rank(i, p) >= Rank(i, Root)
                    /\ i.life[n] \in i.evidenced
  BY DEF Governed
<1>1. PoliciesTyped(i) /\ ReleaseApproved(i) /\ LifecycleClosed(i)
  BY DEF Valid
<1>2. n \in Names /\ i.life[n] \in Lifecycles /\ Root \in i.loaded
  BY DEF Instance
<1>3. p \in i.loaded /\ TypeOf[p] = "policy"
  BY <1>1, <1>2 DEF PoliciesTyped
<1>4. p \in i.approvals[n] /\ i.life[n] \in i.evidenced
  BY <1>1, <1>2 DEF ReleaseApproved
<1>5. <<Root, p>> \in LifecycleEdges(i)
  <2>1. <<Root, p>> \in {Root} \X UNION {i.rules[l] : l \in Lifecycles}
    BY <1>2
  <2>2. <<Root, p>> \in Edges(i).governance
    BY <1>2, <1>3, <2>1 DEF Edges
  <2> QED BY <2>2 DEF LifecycleEdges
<1>6. Rank(i, Root) <= Rank(i, p)
  BY <1>1, <1>5 DEF LifecycleClosed
<1>7. Rank(i, Root) \in 0 .. 3 /\ Rank(i, p) \in 0 .. 3
  BY Kinds, RankIs
<1> QED BY <1>3, <1>4, <1>6, <1>7

-----------------------------------------------------------------------------
(* One visit *)

(* Paths for some of the names X. *)
Typed(paths, X) ==
  /\ DOMAIN paths \subseteq X
  /\ paths = [x \in DOMAIN paths |-> paths[x]]
  /\ \A x \in DOMAIN paths : paths[x] \in Seq(Names) /\ paths[x] # <<>>

(* Whoever uses a name that has a path has one, or the name is to be       *)
(* visited.                                                                *)
Covered(paths, rel, todo) ==
  \A e \in rel : e[2] \in DOMAIN paths => e[1] \in DOMAIN paths \/ e[2] \in ToSet(todo)

Users(rel, x) == {d[1] : d \in {f \in rel : f[2] = x}}

(* A visit of the head of a queue, with whoever uses it. *)
Visit(paths, users, todo, new, next) ==
  /\ new = Extended(paths, users, Head(todo))
  /\ next = Tail(todo) \o Sorted(Improved(paths, users, Head(todo)))

LEMMA NamesFinite ==
  ASSUME NEW S \in SUBSET Names
  PROVE  IsFiniteSet(S) /\ S \in SUBSET Nat
BY KnowledgeAssumption, FS_Subset

LEMMA PathOfNames == Seq(Names) \subseteq Paths
BY KnowledgeAssumption, SeqMonotonic DEF Paths

LEMMA AppendPath ==
  ASSUME NEW p \in Seq(Names), NEW u \in Names
  PROVE  Append(p, u) \in Seq(Names) /\ Append(p, u) # <<>>
<1>1. Append(p, u) \in Seq(Names) /\ Len(Append(p, u)) = Len(p) + 1 /\ Len(p) \in Nat
  BY AppendProperties, LenProperties
<1>2. Len(<<>>) = 0
  OBVIOUS
<1> QED BY <1>1, <1>2

LEMMA SetOfSeq ==
  ASSUME NEW S, NEW s \in Seq(S), NEW x
  PROVE  /\ x \in ToSet(s) <=> \E i \in 1 .. Len(s) : s[i] = x
         /\ ToSet(s) \subseteq S
BY LenProperties, ElementOfSeq DEF ToSet

LEMMA SetOfConcat ==
  ASSUME NEW S, NEW s \in Seq(S), NEW t \in Seq(S)
  PROVE  s \o t \in Seq(S) /\ ToSet(s \o t) = ToSet(s) \cup ToSet(t)
<1>1. /\ s \o t \in Seq(S) /\ Len(s \o t) = Len(s) + Len(t)
      /\ \A i \in 1 .. Len(s) + Len(t) : (s \o t)[i] = IF i <= Len(s) THEN s[i]
                                                                     ELSE t[i - Len(s)]
      /\ Len(s) \in Nat /\ Len(t) \in Nat
  BY ConcatProperties, LenProperties
<1> DEFINE c == s \o t
<1> HIDE DEF c
<1>2. c \in Seq(S) /\ Len(c) = Len(s) + Len(t)
      /\ \A i \in 1 .. Len(s) + Len(t) : c[i] = IF i <= Len(s) THEN s[i] ELSE t[i - Len(s)]
  BY <1>1 DEF c
<1>3. ASSUME NEW i \in 1 .. Len(s) PROVE s[i] \in ToSet(c)
  <2>1. i \in 1 .. Len(c) /\ c[i] = s[i]
    BY <1>1, <1>2
  <2> QED BY <1>2, <2>1, SetOfSeq
<1>4. ASSUME NEW i \in 1 .. Len(t) PROVE t[i] \in ToSet(c)
  <2>1. i + Len(s) \in 1 .. Len(c) /\ ~(i + Len(s) <= Len(s)) /\ (i + Len(s)) - Len(s) = i
    BY <1>1, <1>2
  <2>2. c[i + Len(s)] = t[i]
    BY <1>1, <1>2, <2>1
  <2> QED BY <1>2, <2>1, <2>2, SetOfSeq
<1>5. ASSUME NEW i \in 1 .. Len(c) PROVE c[i] \in ToSet(s) \cup ToSet(t)
  <2>1. CASE i <= Len(s)
    <3>1. i \in 1 .. Len(s) /\ c[i] = s[i]
      BY <1>1, <1>2, <2>1
    <3> QED BY <3>1, SetOfSeq
  <2>2. CASE ~(i <= Len(s))
    <3>1. i - Len(s) \in 1 .. Len(t) /\ c[i] = t[i - Len(s)]
      BY <1>1, <1>2, <2>2
    <3> QED BY <3>1, SetOfSeq
  <2> QED BY <2>1, <2>2
<1>6. ToSet(c) = ToSet(s) \cup ToSet(t)
  <2>1. ASSUME NEW x \in ToSet(c) PROVE x \in ToSet(s) \cup ToSet(t)
    BY <1>2, <1>5, <2>1, SetOfSeq
  <2>2. ASSUME NEW x \in ToSet(s) PROVE x \in ToSet(c)
    BY <1>3, <2>2, SetOfSeq
  <2>3. ASSUME NEW x \in ToSet(t) PROVE x \in ToSet(c)
    BY <1>4, <2>3, SetOfSeq
  <2> QED BY <2>1, <2>2, <2>3
<1> QED BY <1>2, <1>6 DEF c

LEMMA SetOfTail ==
  ASSUME NEW S, NEW s \in Seq(S), s # <<>>
  PROVE  Head(s) \in S /\ Tail(s) \in Seq(S) /\ ToSet(s) \subseteq {Head(s)} \cup ToSet(Tail(s))
<1>1. /\ Head(s) \in S /\ Tail(s) \in Seq(S) /\ Len(Tail(s)) = Len(s) - 1
      /\ \A i \in 1 .. Len(Tail(s)) : Tail(s)[i] = s[i + 1]
  BY HeadTailProperties
<1>2. Len(s) \in Nat /\ Head(s) = s[1]
  BY LenProperties DEF Head
<1>3. ASSUME NEW i \in 1 .. Len(s) PROVE s[i] \in {Head(s)} \cup ToSet(Tail(s))
  <2>1. CASE i = 1
    BY <1>2, <2>1
  <2>2. CASE i # 1
    <3>1. i - 1 \in 1 .. Len(Tail(s)) /\ (i - 1) + 1 = i
      BY <1>1, <1>2, <2>2
    <3>2. Tail(s)[i - 1] = s[i]
      BY <1>1, <3>1
    <3> QED BY <1>1, <3>1, <3>2, SetOfSeq
  <2> QED BY <2>1, <2>2
<1> QED BY <1>1, <1>3, SetOfSeq

LEMMA VisitKeeps ==
  ASSUME NEW X \in SUBSET Names, NEW paths, Typed(paths, X), NEW users \in SUBSET X,
         NEW todo \in Seq(DOMAIN paths), todo # <<>>,
         NEW rel, users = Users(rel, Head(todo)), Covered(paths, rel, todo),
         NEW new, NEW next, Visit(paths, users, todo, new, next)
  PROVE  /\ Typed(new, X) /\ DOMAIN paths \subseteq DOMAIN new
         /\ next \in Seq(DOMAIN new) /\ Covered(new, rel, next)
<1> DEFINE x    == Head(todo)
           I    == Improved(paths, users, x)
           D    == DOMAIN paths \cup I
           rest == Tail(todo)
           more == Sorted(I)
<1>1. /\ x \in DOMAIN paths /\ rest \in Seq(DOMAIN paths)
      /\ ToSet(todo) \subseteq {x} \cup ToSet(rest)
  BY SetOfTail
<1>2. I \subseteq users /\ \A u \in users : u \notin DOMAIN paths => u \in I
  BY DEF Improved
<1>3. new = [u \in D |-> IF u \in I THEN Append(paths[x], u) ELSE paths[u]]
  BY DEF Extended, Visit
<1>4. \A e \in rel : e[2] = x => e[1] \in users
  BY DEF Users
<1>5. next = rest \o more
  BY DEF Visit
<1>6. I \in SUBSET Names /\ IsFiniteSet(I) /\ I \in SUBSET Nat
  BY <1>2, NamesFinite
<1>7. more \in Seq(I) /\ ToSet(more) = I
  BY <1>6, SortedIs
<1>8. DOMAIN paths \subseteq D /\ I \subseteq D
  OBVIOUS
<1> HIDE DEF x, I, rest, more
<1>9. D = DOMAIN paths \cup users /\ DOMAIN new = D
  BY <1>2, <1>3
<1> HIDE DEF D
<1>10. paths[x] \in Seq(Names) /\ DOMAIN paths \subseteq X
  BY <1>1 DEF Typed
<1>11. ASSUME NEW u \in D PROVE new[u] \in Seq(Names) /\ new[u] # <<>>
  <2>1. CASE u \in I
    <3>1. u \in Names /\ new[u] = Append(paths[x], u)
      BY <1>3, <1>6, <2>1
    <3> QED BY <1>10, <3>1, AppendPath
  <2>2. CASE u \notin I
    <3>1. new[u] = paths[u]
      BY <1>3, <2>2
    <3>2. u \in DOMAIN paths
      BY <2>2 DEF D
    <3> QED BY <3>1, <3>2 DEF Typed
  <2> QED BY <2>1, <2>2
<1>12. Typed(new, X)
  <2>1. new = [u \in DOMAIN new |-> new[u]]
    BY <1>3
  <2>2. DOMAIN new \subseteq X
    BY <1>9, <1>10
  <2> QED BY <1>9, <1>11, <2>1, <2>2 DEF Typed
<1>13. next \in Seq(D) /\ ToSet(next) = ToSet(rest) \cup I
  <2>1. rest \in Seq(D) /\ more \in Seq(D)
    BY <1>1, <1>7, <1>8, SeqMonotonic
  <2> QED BY <1>5, <1>7, <2>1, SetOfConcat
<1>14. ASSUME NEW e \in rel, e[2] \in DOMAIN new
       PROVE  e[1] \in DOMAIN new \/ e[2] \in ToSet(next)
  <2>1. CASE e[2] \in I
    BY <1>13, <2>1
  <2>2. CASE e[2] \notin I
    <3>1. e[2] \in DOMAIN paths
      BY <1>9, <1>14, <2>2 DEF D
    <3>2. e[1] \in DOMAIN paths \/ e[2] \in ToSet(todo)
      BY <3>1 DEF Covered
    <3> QED BY <1>1, <1>4, <1>9, <1>13, <3>2
  <2> QED BY <2>1, <2>2
<1>15. Covered(new, rel, next)
  BY <1>14 DEF Covered
<1> QED BY <1>8, <1>9, <1>12, <1>13, <1>15

(* Of any users: the paths and the queue stay typed. *)
LEMMA VisitTyped ==
  ASSUME NEW X \in SUBSET Names, NEW paths, Typed(paths, X), NEW users \in SUBSET X,
         NEW todo \in Seq(DOMAIN paths), todo # <<>>,
         NEW new, NEW next, Visit(paths, users, todo, new, next)
  PROVE  Typed(new, X) /\ next \in Seq(DOMAIN new)
<1> DEFINE rel == users \X {Head(todo)}
<1>1. users = Users(rel, Head(todo))
  <2>1. ASSUME NEW u \in users PROVE u \in Users(rel, Head(todo))
    <3>1. <<u, Head(todo)>> \in {f \in rel : f[2] = Head(todo)} /\ <<u, Head(todo)>>[1] = u
      OBVIOUS
    <3> HIDE DEF rel
    <3> QED BY <3>1 DEF Users
  <2>2. Users(rel, Head(todo)) \subseteq users
    BY DEF Users
  <2> QED BY <2>1, <2>2
<1>2. Covered(paths, rel, todo)
  <2>1. Head(todo) \in ToSet(todo)
    <3>1. Len(todo) \in Nat /\ Len(todo) # 0 /\ Head(todo) = todo[1]
      BY LenProperties, EmptySeq DEF Head
    <3> QED BY <3>1, SetOfSeq
  <2> QED BY <2>1 DEF Covered
<1> HIDE DEF rel
<1> QED BY <1>1, <1>2, VisitKeeps

(* A visit that improves no path leaves them all, one that does is progress. *)
LEMMA VisitProgress ==
  ASSUME NEW X \in SUBSET Names, NEW paths, Typed(paths, X), NEW users,
         NEW todo \in Seq(DOMAIN paths), todo # <<>>,
         NEW new, NEW next, Visit(paths, users, todo, new, next)
  PROVE  Better(new, paths) \/ (new = paths /\ next = Tail(todo))
<1> DEFINE x    == Head(todo)
           I    == Improved(paths, users, x)
           D    == DOMAIN paths \cup I
           rest == Tail(todo)
<1>1. rest \in Seq(DOMAIN paths)
  BY SetOfTail
<1>2. new = [u \in D |-> IF u \in I THEN Append(paths[x], u) ELSE paths[u]]
  BY DEF Extended, Visit
<1>3. \A u \in I : u \in DOMAIN paths => Prefer(Append(paths[x], u), paths[u])
  BY DEF Improved
<1>4. next = rest \o Sorted(I)
  BY DEF Visit
<1> HIDE DEF x, I, rest
<1>5. CASE I = {}
  <2>1. new = [u \in DOMAIN paths |-> paths[u]]
    BY <1>2, <1>5
  <2>2. rest \o <<>> = rest
    BY <1>1, ConcatEmptySeq
  <2>3. new = paths /\ next = rest
    BY <1>4, <1>5, <2>1, <2>2, SortedNothing DEF Typed
  <2> QED BY <2>3 DEF rest
<1>6. CASE I # {}
  <2>1. \A u \in DOMAIN paths : new[u] = paths[u] \/ Prefer(new[u], paths[u])
    BY <1>2, <1>3
  <2>2. DOMAIN paths \subseteq DOMAIN new
    BY <1>2
  <2>3. PICK u \in I : TRUE
    BY <1>6
  <2>4. CASE u \notin DOMAIN paths
    <3>1. new # paths
      BY <1>2, <2>3, <2>4
    <3> QED BY <2>1, <2>2, <3>1 DEF Better
  <2>5. CASE u \in DOMAIN paths
    <3>1. Prefer(new[u], paths[u])
      BY <1>2, <1>3, <2>3, <2>5
    <3>2. paths[u] \in Paths
      BY <2>5, PathOfNames DEF Typed
    <3>3. new[u] # paths[u]
      BY <3>1, <3>2, PreferStrict
    <3> QED BY <2>1, <2>2, <2>5, <3>3 DEF Better
  <2> QED BY <2>4, <2>5
<1> QED BY <1>5, <1>6

-----------------------------------------------------------------------------
(* The seeds *)

(* There is a best of finitely many paths. *)
LEMMA BestOfImage ==
  ASSUME NEW S \in SUBSET Names, S # {}, NEW f \in [S -> Seq(Names)]
  PROVE  Best(Preferred({f[x] : x \in S}), {f[x] : x \in S})
<1> DEFINE T == {f[x] : x \in S}
<1>1. f \in Surjection(S, T)
  BY DEF Surjection
<1>2. IsFiniteSet(S)
  BY NamesFinite
<1>3. T \in SUBSET Paths /\ T # {}
  BY PathOfNames
<1> HIDE DEF T
<1>4. IsFiniteSet(T)
  BY <1>1, <1>2, FS_Surjection
<1>5. Best(Preferred(T), T)
  BY <1>3, <1>4, BestExists
<1> QED BY <1>5 DEF T

Settled == inst \in Instance /\ changed \in Artifacts

LEMMA LongerPath ==
  ASSUME NEW S, NEW p \in Seq(S), NEW q \in Seq(S), NEW r \in Seq(S), p # <<>>
  PROVE  p \o q \o r \in Seq(S) /\ p \o q \o r # <<>>
<1>1. Len(p) \in Nat /\ Len(q) \in Nat /\ Len(r) \in Nat /\ Len(p) # 0
  BY LenProperties, EmptySeq
<1>2. p \o q \in Seq(S) /\ Len(p \o q) = Len(p) + Len(q)
  BY ConcatProperties
<1> DEFINE l == p \o q
<1> HIDE DEF l
<1>3. l \in Seq(S) /\ Len(l) = Len(p) + Len(q)
  BY <1>2 DEF l
<1>4. l \o r \in Seq(S) /\ Len(l \o r) = Len(l) + Len(r)
  BY <1>3, ConcatProperties
<1>5. l \o r # <<>>
  <2>1. Len(<<>>) = 0
    OBVIOUS
  <2> QED BY <1>1, <1>3, <1>4, <2>1
<1> QED BY <1>4, <1>5 DEF l

LEMMA SeedPathIs ==
  ASSUME Settled, Typed(artifacts, Artifacts), NEW a \in DOMAIN artifacts
  PROVE  SeedPath(a) \in Seq(Names) /\ SeedPath(a) # <<>>
<1> DEFINE prefix == <<changed, Owner(changed)>>
           rest == Tail(artifacts[a])
           last == <<Owner(a)>>
<1>1. /\ a \in Artifacts /\ changed \in Names
      /\ Owner(a) \in Names /\ Owner(changed) \in Names
  BY Kinds DEF Settled, Typed, Owner, Instance
<1>2. prefix \in Seq(Names) /\ Len(prefix) = 2 /\ prefix # <<>>
  BY <1>1
<1>3. last \in Seq(Names) /\ Len(last) = 1
  BY <1>1
<1>4. rest \in Seq(Names)
  BY HeadTailProperties DEF Typed
<1>5. SeedPath(a) = IF a = changed THEN prefix ELSE prefix \o rest \o last
  BY DEF SeedPath
<1> HIDE DEF prefix, rest, last
<1>6. prefix \o rest \o last \in Seq(Names) /\ prefix \o rest \o last # <<>>
  BY <1>2, <1>3, <1>4, LongerPath
<1> QED BY <1>2, <1>5, <1>6

LEMMA CurrentSeedsAre ==
  ASSUME Settled, Typed(artifacts, Artifacts)
  PROVE  /\ Typed(CurrentSeeds, Packages)
         /\ DOMAIN CurrentSeeds = {Owner(a) : a \in DOMAIN artifacts} \cap inst.loaded
         /\ \A p \in DOMAIN CurrentSeeds :
              Best(CurrentSeeds[p], {SeedPath(a) : a \in {b \in DOMAIN artifacts : Owner(b) = p}})
<1> DEFINE D    == {Owner(a) : a \in DOMAIN artifacts} \cap inst.loaded
           B(p) == {b \in DOMAIN artifacts : Owner(b) = p}
<1>1. CurrentSeeds = [p \in D |-> Preferred({SeedPath(a) : a \in B(p)})]
  BY DEF CurrentSeeds
<1>2. D \subseteq Packages
  BY DEF Settled, Typed, Owner, Instance
<1>3. ASSUME NEW p \in D
      PROVE  /\ Best(CurrentSeeds[p], {SeedPath(a) : a \in B(p)})
             /\ CurrentSeeds[p] \in Seq(Names) /\ CurrentSeeds[p] # <<>>
  <2> DEFINE S == B(p)
             f == [a \in S |-> SeedPath(a)]
  <2>1. S \in SUBSET Names /\ S # {}
    BY Kinds DEF Typed
  <2>2. \A a \in S : SeedPath(a) \in Seq(Names) /\ SeedPath(a) # <<>>
    BY SeedPathIs
  <2>3. CurrentSeeds[p] = Preferred({SeedPath(a) : a \in S})
    BY <1>1
  <2> HIDE DEF S
  <2>4. f \in [S -> Seq(Names)]
    BY <2>2
  <2>5. {f[a] : a \in S} = {SeedPath(a) : a \in S}
    OBVIOUS
  <2> HIDE DEF f
  <2>6. Best(Preferred({SeedPath(a) : a \in S}), {SeedPath(a) : a \in S})
    BY <2>1, <2>4, <2>5, BestOfImage
  <2>7. CurrentSeeds[p] \in Seq(Names) /\ CurrentSeeds[p] # <<>>
    BY <2>2, <2>3, <2>6 DEF Best
  <2> QED BY <2>3, <2>6, <2>7 DEF S
<1>4. DOMAIN CurrentSeeds = D /\ CurrentSeeds = [p \in DOMAIN CurrentSeeds |-> CurrentSeeds[p]]
  BY <1>1
<1> QED BY <1>2, <1>3, <1>4 DEF Typed

OlderPath(a, p) == <<changed, Owner(changed), a, p>>

LEMMA OlderPathIs ==
  ASSUME Settled, NEW a \in OlderVersions
  PROVE  /\ a \in Artifacts /\ Owner(a) \in Packages /\ Owner(changed) \in Packages
         /\ OlderPath(a, Owner(a)) \in Seq(Names) /\ OlderPath(a, Owner(a)) # <<>>
<1>1. a \in Artifacts /\ Owner(a) \in Packages /\ Owner(changed) \in Packages
  BY DEF Settled, OlderVersions, Owner, Instance
<1>2. a \in Names /\ Owner(a) \in Names /\ Owner(changed) \in Names /\ changed \in Names
  BY <1>1, Kinds DEF Settled
<1> QED BY <1>1, <1>2 DEF OlderPath

LEMMA OlderSeedsAre ==
  ASSUME Settled
  PROVE  /\ Typed(OlderSeeds, Packages)
         /\ DOMAIN OlderSeeds = {Owner(a) : a \in OlderVersions}
         /\ \A p \in DOMAIN OlderSeeds :
              Best(OlderSeeds[p], {OlderPath(a, p) : a \in {b \in OlderVersions : Owner(b) = p}})
<1> DEFINE D     == {Owner(a) : a \in OlderVersions}
           B(p)  == {b \in OlderVersions : Owner(b) = p}
<1>1. OlderSeeds = [p \in D |-> Preferred({OlderPath(a, p) : a \in B(p)})]
  BY DEF OlderSeeds, OlderPath
<1>2. D \subseteq Packages
  BY OlderPathIs
<1>3. ASSUME NEW p \in D
      PROVE  /\ Best(OlderSeeds[p], {OlderPath(a, p) : a \in B(p)})
             /\ OlderSeeds[p] \in Seq(Names) /\ OlderSeeds[p] # <<>>
  <2> DEFINE S == B(p)
             f == [a \in S |-> OlderPath(a, p)]
  <2>1. S \in SUBSET Names /\ S # {}
    BY OlderPathIs, Kinds
  <2>2. \A a \in S : OlderPath(a, p) \in Seq(Names) /\ OlderPath(a, p) # <<>>
    BY OlderPathIs
  <2>3. OlderSeeds[p] = Preferred({OlderPath(a, p) : a \in S})
    BY <1>1
  <2> HIDE DEF S
  <2>4. f \in [S -> Seq(Names)]
    BY <2>2
  <2>5. {f[a] : a \in S} = {OlderPath(a, p) : a \in S}
    OBVIOUS
  <2> HIDE DEF f
  <2>6. Best(OlderSeeds[p], {OlderPath(a, p) : a \in S})
    BY <2>1, <2>3, <2>4, <2>5, BestOfImage
  <2>7. OlderSeeds[p] \in Seq(Names) /\ OlderSeeds[p] # <<>>
    BY <2>2, <2>6 DEF Best
  <2> QED BY <2>6, <2>7 DEF S
<1>4. DOMAIN OlderSeeds = D /\ OlderSeeds = [p \in DOMAIN OlderSeeds |-> OlderSeeds[p]]
  BY <1>1
<1> QED BY <1>2, <1>3, <1>4 DEF Typed

(* The names that a search starts from are all to be visited. *)
LEMMA SeedsQueued ==
  ASSUME NEW X \in SUBSET Names, NEW paths, Typed(paths, X)
  PROVE  /\ Sorted(DOMAIN paths) \in Seq(DOMAIN paths)
         /\ \A rel : Covered(paths, rel, Sorted(DOMAIN paths))
<1>1. DOMAIN paths \in SUBSET Names
  BY DEF Typed
<1>2. IsFiniteSet(DOMAIN paths) /\ DOMAIN paths \in SUBSET Nat
  BY <1>1, NamesFinite
<1>3. Sorted(DOMAIN paths) \in Seq(DOMAIN paths) /\ ToSet(Sorted(DOMAIN paths)) = DOMAIN paths
  BY <1>2, SortedIs
<1> QED BY <1>3 DEF Covered

-----------------------------------------------------------------------------
(* The impact *)

Dependence(i) == Edges(i).relation \cup Edges(i).validation

LEMMA CoveredIsClosed ==
  ASSUME NEW paths, NEW rel, Covered(paths, rel, <<>>)
  PROVE  \A e \in rel : e[2] \in DOMAIN paths => e[1] \in DOMAIN paths
<1>1. ToSet(<<>>) = {}
  BY DEF ToSet
<1> QED BY <1>1 DEF Covered

(* An application that exercises the changed artifact uses a package that  *)
(* the search of packages has found.                                       *)
LEMMA ExercisedIsFound ==
  ASSUME Settled, Valid(inst), changed \in DOMAIN artifacts,
         Covered(artifacts, Dependence(inst), <<>>),
         {Owner(a) : a \in DOMAIN artifacts} \cap inst.loaded \subseteq DOMAIN current,
         Covered(current, Edges(inst).package, <<>>),
         NEW x \in Apps \cap inst.loaded, Exercises(x, changed)
  PROVE  inst.uses[x] \cap inst.loaded \cap DOMAIN current # {}
<1> DEFINE bound == (inst.scenarios[x] \cup inst.runbooks[x]) \cap inst.loaded
           used  == inst.uses[x] \cap inst.loaded
<1>1. /\ bound \subseteq Names /\ used \subseteq Names /\ bound \subseteq Artifacts
      /\ \A e \in Dependence(inst) : e[2] \in Names
      /\ \A e \in Edges(inst).package : e[2] \in Names
  BY Kinds DEF Settled, Instance, Dependence, Edges
<1>2. changed \in Reach(Dependence(inst), bound)
  BY DEF Exercises, Dependence
<1>3. PICK b \in bound : b \in DOMAIN artifacts
  <2>1. Reach(Dependence(inst), bound) \cap DOMAIN artifacts # {}
    BY <1>2
  <2>2. \A e \in Dependence(inst) : e[2] \in DOMAIN artifacts => e[1] \in DOMAIN artifacts
    BY CoveredIsClosed
  <2> HIDE DEF bound
  <2>3. bound \cap DOMAIN artifacts # {}
    BY <1>1, <2>1, <2>2, ReachEnters
  <2> QED BY <2>3
<1>4. Owner(b) \in inst.loaded /\ Owner(b) \in DOMAIN current
  <2>1. b \in Artifacts \cap inst.loaded
    BY <1>1, <1>3
  <2>2. Owner(b) \in inst.loaded
    BY <2>1 DEF Settled, Instance, Owner
  <2> QED BY <1>3, <2>2
<1>5. <<x, b>> \in Edges(inst).binding
  BY <1>3 DEF Edges
<1>6. Owner(b) \in Reach(Edges(inst).package, used)
  BY <1>4, <1>5 DEF Valid, BindingsReachable, PackageClosure, Owner
<1>7. used \cap DOMAIN current # {}
  <2>1. Reach(Edges(inst).package, used) \cap DOMAIN current # {}
    BY <1>4, <1>6
  <2>2. \A e \in Edges(inst).package : e[2] \in DOMAIN current => e[1] \in DOMAIN current
    BY CoveredIsClosed
  <2> HIDE DEF used
  <2> QED BY <1>1, <2>1, <2>2, ReachEnters
<1> QED BY <1>7

-----------------------------------------------------------------------------
(* The plan *)

LEMMA ListedOnce ==
  ASSUME NEW T \in SUBSET Nat, IsFiniteSet(T), NEW L, NEW x \in T
  PROVE  LET entries == Sorted(T \cap L) \o Sorted(T \ L)
         IN Cardinality({n \in DOMAIN entries : entries[n] = x}) = 1
<1> DEFINE s == Sorted(T \cap L)
           r == Sorted(T \ L)
           c == s \o r
<1>1. /\ T \cap L \in SUBSET Nat /\ IsFiniteSet(T \cap L)
      /\ T \ L \in SUBSET Nat /\ IsFiniteSet(T \ L)
  BY FS_Subset
<1>2. /\ s \in Seq(T \cap L) /\ IsInjective(s) /\ ToSet(s) = T \cap L
      /\ r \in Seq(T \ L) /\ IsInjective(r) /\ ToSet(r) = T \ L
  BY <1>1, SortedIs
<1> HIDE DEF s, r
<1>3. s \in Seq(T) /\ r \in Seq(T)
  BY <1>2, SeqMonotonic
<1>4. /\ Len(s) \in Nat /\ Len(r) \in Nat
      /\ DOMAIN s = 1 .. Len(s) /\ DOMAIN r = 1 .. Len(r)
  BY <1>3, LenProperties
<1>5. /\ DOMAIN c = 1 .. Len(s) + Len(r)
      /\ \A n \in 1 .. Len(s) + Len(r) :
           c[n] = IF n <= Len(s) THEN s[n] ELSE r[n - Len(s)]
  <2>1. /\ c \in Seq(T) /\ Len(c) = Len(s) + Len(r)
        /\ \A n \in 1 .. Len(s) + Len(r) :
             c[n] = IF n <= Len(s) THEN s[n] ELSE r[n - Len(s)]
    BY <1>3, ConcatProperties
  <2> HIDE DEF c
  <2> QED BY <2>1, LenProperties
<1> HIDE DEF c
<1>6. \A n \in DOMAIN c : \/ n \in DOMAIN s /\ c[n] = s[n] /\ c[n] \in L
                          \/ n - Len(s) \in DOMAIN r /\ c[n] = r[n - Len(s)] /\ c[n] \notin L
  <2> SUFFICES ASSUME NEW n \in DOMAIN c
               PROVE  \/ n \in DOMAIN s /\ c[n] = s[n] /\ c[n] \in L
                      \/ n - Len(s) \in DOMAIN r /\ c[n] = r[n - Len(s)] /\ c[n] \notin L
    OBVIOUS
  <2>1. CASE n <= Len(s)
    <3>1. n \in DOMAIN s /\ c[n] = s[n]
      BY <1>4, <1>5, <2>1
    <3>2. s[n] \in ToSet(s)
      BY <3>1 DEF ToSet
    <3> QED BY <1>2, <3>1, <3>2
  <2>2. CASE ~(n <= Len(s))
    <3>1. n - Len(s) \in DOMAIN r /\ c[n] = r[n - Len(s)]
      BY <1>4, <1>5, <2>2
    <3>2. r[n - Len(s)] \in ToSet(r)
      BY <3>1 DEF ToSet
    <3> QED BY <1>2, <3>1, <3>2
  <2> QED BY <2>1, <2>2
<1>7. \A m, n \in DOMAIN c : c[m] = c[n] => m = n
  <2> SUFFICES ASSUME NEW m \in DOMAIN c, NEW n \in DOMAIN c, c[m] = c[n] PROVE m = n
    OBVIOUS
  <2>1. CASE c[m] \in L
    <3>1. m \in DOMAIN s /\ n \in DOMAIN s /\ s[m] = s[n]
      BY <1>6, <2>1
    <3> QED BY <1>2, <3>1 DEF IsInjective
  <2>2. CASE c[m] \notin L
    <3>1. m - Len(s) \in DOMAIN r /\ n - Len(s) \in DOMAIN r /\ r[m - Len(s)] = r[n - Len(s)]
      BY <1>6, <2>2
    <3>2. m - Len(s) = n - Len(s)
      BY <1>2, <3>1 DEF IsInjective
    <3>3. m \in Int /\ n \in Int
      BY <1>4, <1>5
    <3> QED BY <1>4, <3>2, <3>3
  <2> QED BY <2>1, <2>2
<1>8. \E n \in DOMAIN c : c[n] = x
  <2>1. CASE x \in L
    <3>1. x \in ToSet(s)
      BY <1>2, <2>1
    <3>2. PICK n \in DOMAIN s : s[n] = x
      BY <3>1 DEF ToSet
    <3>3. n \in DOMAIN c /\ n <= Len(s)
      BY <1>4, <1>5, <3>2
    <3> QED BY <1>5, <3>2, <3>3
  <2>2. CASE x \notin L
    <3>1. x \in ToSet(r)
      BY <1>2, <2>2
    <3>2. PICK n \in DOMAIN r : r[n] = x
      BY <3>1 DEF ToSet
    <3>3. n + Len(s) \in DOMAIN c /\ ~(n + Len(s) <= Len(s)) /\ (n + Len(s)) - Len(s) = n
      BY <1>4, <1>5, <3>2
    <3>4. c[n + Len(s)] = r[n]
      BY <1>5, <3>3
    <3> QED BY <3>2, <3>3, <3>4
  <2> QED BY <2>1, <2>2
<1>9. PICK k \in DOMAIN c : c[k] = x
  BY <1>8
<1>10. {n \in DOMAIN c : c[n] = x} = {k}
  BY <1>7, <1>9
<1>11. Cardinality({k}) = 1
  BY FS_Singleton
<1> QED BY <1>10, <1>11 DEF c, s, r

-----------------------------------------------------------------------------
(* The inductive invariant *)

Phases == {"validate", "artifacts", "current", "older", "plan", "planned", "refused"}

(* What is left to do of a search. *)
Todo(phase) == IF pc = phase THEN queue ELSE <<>>

PlanTypes ==
  /\ inst \in Instance /\ changed \in Changes /\ pc \in Phases
  /\ Typed(artifacts, Artifacts) /\ Typed(current, Packages) /\ Typed(older, Packages)
  /\ DOMAIN affected \subseteq Apps
  /\ pc # "planned" => plan = None
  /\ pc = "planned" => plan.targets \in Seq(Apps) /\ plan.failures \in Seq(Apps)

(* The queue holds names that have a path, of the search that is going on. *)
QueueTyped ==
  /\ pc = "artifacts" => queue \in Seq(DOMAIN artifacts)
  /\ pc = "current" => queue \in Seq(DOMAIN current)
  /\ pc = "older" => queue \in Seq(DOMAIN older)
  /\ pc \notin {"artifacts", "current", "older"} => queue = <<>>

Accepted == pc \notin {"validate", "refused"} => Valid(inst) /\ changed \in inst.loaded

ArtifactsSearched ==
  pc \notin {"validate", "refused"} =>
    /\ changed \in DOMAIN artifacts
    /\ Covered(artifacts, Dependence(inst), Todo("artifacts"))

PackagesSearched ==
  pc \notin {"validate", "artifacts", "refused"} =>
    /\ {Owner(a) : a \in DOMAIN artifacts} \cap inst.loaded \subseteq DOMAIN current
    /\ Covered(current, Edges(inst).package, Todo("current"))

ImpactFound ==
  pc \in {"plan", "planned"} =>
    \A x \in Apps \cap inst.loaded : Exercises(x, changed) => x \in DOMAIN affected

PlanInv ==
  /\ PlanTypes /\ QueueTyped /\ Accepted
  /\ ArtifactsSearched /\ PackagesSearched /\ ImpactFound /\ NothingAffectedIsOmitted

LEMMA PlanInvSettled == PlanInv => Settled
BY PlanningAssumption DEF PlanInv, PlanTypes, Settled

LEMMA EmptyTyped == \A X : Typed(Empty, X)
<1>1. Empty = [x \in {} |-> <<>>] /\ DOMAIN Empty = {}
  BY DEF Empty
<1>2. Empty = [x \in DOMAIN Empty |-> Empty[x]]
  BY <1>1
<1> QED BY <1>1, <1>2 DEF Typed

LEMMA PlanInvInit == Init => PlanInv
<1> SUFFICES ASSUME Init PROVE PlanInv
  OBVIOUS
<1>1. inst \in Instance
  BY PlanningAssumption DEF Init
<1>2. PlanTypes
  <2>1. DOMAIN affected = {}
    BY DEF Init, Empty
  <2> QED BY <1>1, <2>1, EmptyTyped DEF Init, PlanTypes, Phases
<1> QED BY <1>2 DEF Init, PlanInv, QueueTyped, Accepted, ArtifactsSearched, PackagesSearched,
               ImpactFound, NothingAffectedIsOmitted

-----------------------------------------------------------------------------
(* The steps *)

LEMMA ValidateKeeps == PlanInv /\ Validate => PlanInv'
<1> SUFFICES ASSUME PlanInv, Validate PROVE PlanInv'
  OBVIOUS
<1>1. Settled /\ PlanTypes /\ QueueTyped /\ pc = "validate"
  BY PlanInvSettled DEF PlanInv, Validate
<1>2. UNCHANGED <<inst, changed, current, older, affected, plan>>
  BY DEF Validate
<1>3. CASE Valid(inst) /\ changed \in inst.loaded
  <2>1. /\ pc' = "artifacts" /\ artifacts' = [a \in {changed} |-> <<changed>>]
        /\ queue' = <<changed>>
    BY <1>3 DEF Validate, Goto
  <2>2. changed \in Artifacts /\ changed \in Names /\ DOMAIN artifacts' = {changed}
    BY <1>1, <2>1, Kinds DEF Settled
  <2>3. Typed(artifacts', Artifacts)
    <3>1. artifacts' = [a \in DOMAIN artifacts' |-> artifacts'[a]]
      BY <2>1
    <3>2. \A a \in DOMAIN artifacts' : artifacts'[a] = <<changed>>
      BY <2>1
    <3>3. <<changed>> \in Seq(Names) /\ <<changed>> # <<>>
      BY <2>2
    <3> QED BY <2>2, <3>1, <3>2, <3>3 DEF Typed
  <2>4. Covered(artifacts', Dependence(inst), queue')
    <3>1. ToSet(<<changed>>) = {changed}
      <4>1. DOMAIN <<changed>> = {1} /\ <<changed>>[1] = changed
        OBVIOUS
      <4> QED BY <4>1 DEF ToSet
    <3> QED BY <2>1, <2>2, <3>1 DEF Covered
  <2>5. queue' \in Seq(DOMAIN artifacts')
    BY <2>1, <2>2
  <2>6. PlanTypes'
    BY <1>1, <1>2, <2>1, <2>3 DEF PlanTypes, Phases
  <2>7. ArtifactsSearched'
    BY <1>2, <2>1, <2>2, <2>4 DEF ArtifactsSearched, Todo
  <2>8. QueueTyped' /\ Accepted'
    BY <1>2, <1>3, <2>1, <2>5 DEF QueueTyped, Accepted
  <2> QED BY <2>1, <2>6, <2>7, <2>8
          DEF PlanInv, PackagesSearched, ImpactFound, NothingAffectedIsOmitted
<1>4. CASE ~(Valid(inst) /\ changed \in inst.loaded)
  <2>1. pc' = "refused" /\ UNCHANGED <<artifacts, queue>>
    BY <1>4 DEF Validate, Goto
  <2>2. PlanTypes'
    BY <1>1, <1>2, <2>1 DEF PlanTypes, Phases
  <2>3. QueueTyped'
    BY <1>1, <1>2, <2>1 DEF QueueTyped
  <2> QED BY <2>1, <2>2, <2>3
          DEF PlanInv, Accepted, ArtifactsSearched, PackagesSearched, ImpactFound,
              NothingAffectedIsOmitted
<1> QED BY <1>3, <1>4

(* The visits, as visits of the search that is going on. *)
LEMMA UsersOfNames ==
  ASSUME Settled, NEW x
  PROVE  /\ DependentArtifacts(x) = Users(Dependence(inst), x)
         /\ Consumers(x) = Users(Edges(inst).package, x)
         /\ DependentArtifacts(x) \in SUBSET Artifacts /\ Consumers(x) \in SUBSET Packages
<1>1. /\ DependentArtifacts(x) = Users(Dependence(inst), x)
      /\ Consumers(x) = Users(Edges(inst).package, x)
  BY DEF DependentArtifacts, Consumers, Users, Dependence
<1>2. /\ \A e \in Dependence(inst) : e[1] \in Artifacts
      /\ \A e \in Edges(inst).package : e[1] \in Packages
  BY DEF Settled, Instance, Dependence, Edges
<1> QED BY <1>1, <1>2 DEF Users

LEMMA VisitArtifactIs ==
  ASSUME PlanInv, VisitArtifact
  PROVE  /\ pc = "artifacts" /\ pc' = pc
         /\ UNCHANGED <<inst, changed, current, older, affected, plan>>
         /\ queue \in Seq(DOMAIN artifacts) /\ queue # <<>>
         /\ Typed(artifacts, Artifacts) /\ Artifacts \in SUBSET Names
         /\ Visit(artifacts, DependentArtifacts(Head(queue)), queue, artifacts', queue')
<1>1. Visit(artifacts, DependentArtifacts(Head(queue)), queue, artifacts', queue')
  BY DEF VisitArtifact, Visit, Queued
<1> QED BY <1>1, Kinds DEF VisitArtifact, PlanInv, PlanTypes, QueueTyped

LEMMA VisitCurrentIs ==
  ASSUME PlanInv, VisitCurrent
  PROVE  /\ pc = "current" /\ pc' = pc
         /\ UNCHANGED <<inst, changed, artifacts, older, affected, plan>>
         /\ queue \in Seq(DOMAIN current) /\ queue # <<>>
         /\ Typed(current, Packages) /\ Packages \in SUBSET Names
         /\ Visit(current, Consumers(Head(queue)), queue, current', queue')
<1>1. Visit(current, Consumers(Head(queue)), queue, current', queue')
  BY DEF VisitCurrent, Visit, Queued
<1> QED BY <1>1, Kinds DEF VisitCurrent, PlanInv, PlanTypes, QueueTyped

LEMMA VisitOlderIs ==
  ASSUME PlanInv, VisitOlder
  PROVE  /\ pc = "older" /\ pc' = pc
         /\ UNCHANGED <<inst, changed, artifacts, current, affected, plan>>
         /\ queue \in Seq(DOMAIN older) /\ queue # <<>>
         /\ Typed(older, Packages) /\ Packages \in SUBSET Names
         /\ Visit(older, Consumers(Head(queue)), queue, older', queue')
<1>1. Visit(older, Consumers(Head(queue)), queue, older', queue')
  BY DEF VisitOlder, Visit, Queued
<1> QED BY <1>1, Kinds DEF VisitOlder, PlanInv, PlanTypes, QueueTyped

LEMMA VisitArtifactKeeps == PlanInv /\ VisitArtifact => PlanInv'
<1> SUFFICES ASSUME PlanInv, VisitArtifact PROVE PlanInv'
  OBVIOUS
<1> DEFINE users == DependentArtifacts(Head(queue))
<1>1. /\ pc = "artifacts" /\ pc' = pc
      /\ UNCHANGED <<inst, changed, current, older, affected, plan>>
      /\ queue \in Seq(DOMAIN artifacts) /\ queue # <<>>
      /\ Typed(artifacts, Artifacts) /\ Artifacts \in SUBSET Names
      /\ Visit(artifacts, users, queue, artifacts', queue')
  BY VisitArtifactIs
<1>2. users \in SUBSET Artifacts /\ users = Users(Dependence(inst), Head(queue))
  BY PlanInvSettled, UsersOfNames
<1>3. changed \in DOMAIN artifacts /\ Covered(artifacts, Dependence(inst), queue)
  BY <1>1 DEF PlanInv, ArtifactsSearched, Todo
<1> HIDE DEF users
<1>4. /\ Typed(artifacts', Artifacts) /\ DOMAIN artifacts \subseteq DOMAIN artifacts'
      /\ queue' \in Seq(DOMAIN artifacts') /\ Covered(artifacts', Dependence(inst), queue')
  BY <1>1, <1>2, <1>3, VisitKeeps
<1>5. PlanTypes'
  BY <1>1, <1>4 DEF PlanInv, PlanTypes
<1>6. QueueTyped'
  BY <1>1, <1>4 DEF QueueTyped
<1>7. ArtifactsSearched' /\ Accepted'
  BY <1>1, <1>3, <1>4 DEF PlanInv, Accepted, ArtifactsSearched, Todo
<1> QED BY <1>1, <1>5, <1>6, <1>7
        DEF PlanInv, PackagesSearched, ImpactFound, NothingAffectedIsOmitted

LEMMA SeedCurrentKeeps == PlanInv /\ SeedCurrent => PlanInv'
<1> SUFFICES ASSUME PlanInv, SeedCurrent PROVE PlanInv'
  OBVIOUS
<1>1. /\ pc = "artifacts" /\ queue = <<>> /\ pc' = "current"
      /\ current' = CurrentSeeds /\ queue' = Sorted(DOMAIN CurrentSeeds)
      /\ UNCHANGED <<inst, changed, artifacts, older, affected, plan>>
  BY DEF SeedCurrent, Goto
<1>2. Settled /\ PlanTypes /\ Typed(artifacts, Artifacts) /\ Packages \in SUBSET Names
  BY PlanInvSettled, Kinds DEF PlanInv, PlanTypes
<1>3. /\ Typed(current', Packages)
      /\ DOMAIN current' = {Owner(a) : a \in DOMAIN artifacts} \cap inst.loaded
  BY <1>1, <1>2, CurrentSeedsAre
<1>4. /\ queue' \in Seq(DOMAIN current')
      /\ Covered(current', Edges(inst).package, queue')
  BY <1>1, <1>2, <1>3, SeedsQueued
<1>5. PlanTypes'
  BY <1>1, <1>2, <1>3 DEF PlanTypes, Phases
<1>6. QueueTyped' /\ Accepted'
  BY <1>1, <1>4 DEF QueueTyped, Accepted, PlanInv
<1>7. ArtifactsSearched'
  BY <1>1 DEF PlanInv, ArtifactsSearched, Todo
<1>8. PackagesSearched'
  <2>1. \A a : Owner(a)' = Owner(a)
    BY <1>1 DEF Owner
  <2>2. {Owner(a)' : a \in DOMAIN artifacts'} = {Owner(a) : a \in DOMAIN artifacts}
    BY <1>1, <2>1
  <2> QED BY <1>1, <1>3, <1>4, <2>2 DEF PackagesSearched, Todo
<1> QED BY <1>1, <1>5, <1>6, <1>7, <1>8 DEF PlanInv, ImpactFound, NothingAffectedIsOmitted

LEMMA VisitCurrentKeeps == PlanInv /\ VisitCurrent => PlanInv'
<1> SUFFICES ASSUME PlanInv, VisitCurrent PROVE PlanInv'
  OBVIOUS
<1> DEFINE users == Consumers(Head(queue))
<1>1. /\ pc = "current" /\ pc' = pc
      /\ UNCHANGED <<inst, changed, artifacts, older, affected, plan>>
      /\ queue \in Seq(DOMAIN current) /\ queue # <<>>
      /\ Typed(current, Packages) /\ Packages \in SUBSET Names
      /\ Visit(current, users, queue, current', queue')
  BY VisitCurrentIs
<1>2. users \in SUBSET Packages /\ users = Users(Edges(inst).package, Head(queue))
  BY PlanInvSettled, UsersOfNames
<1>3. /\ {Owner(a) : a \in DOMAIN artifacts} \cap inst.loaded \subseteq DOMAIN current
      /\ Covered(current, Edges(inst).package, queue)
  BY <1>1 DEF PlanInv, PackagesSearched, Todo
<1> HIDE DEF users
<1>4. /\ Typed(current', Packages) /\ DOMAIN current \subseteq DOMAIN current'
      /\ queue' \in Seq(DOMAIN current') /\ Covered(current', Edges(inst).package, queue')
  BY <1>1, <1>2, <1>3, VisitKeeps
<1>5. PlanTypes'
  BY <1>1, <1>4 DEF PlanInv, PlanTypes
<1>6. QueueTyped'
  BY <1>1, <1>4 DEF QueueTyped
<1>7. ArtifactsSearched' /\ Accepted'
  BY <1>1 DEF PlanInv, Accepted, ArtifactsSearched, Todo
<1>8. PackagesSearched'
  <2>1. {Owner(a)' : a \in DOMAIN artifacts'} = {Owner(a) : a \in DOMAIN artifacts}
    BY <1>1 DEF Owner
  <2> QED BY <1>1, <1>3, <1>4, <2>1 DEF PackagesSearched, Todo
<1> QED BY <1>1, <1>5, <1>6, <1>7, <1>8 DEF PlanInv, ImpactFound, NothingAffectedIsOmitted

(* After the search of packages what it has found stays. *)
LEMMA SearchedStays ==
  ASSUME PlanInv, pc \notin {"validate", "artifacts", "refused"}, Todo("current") = <<>>,
         pc' \in Phases \ {"artifacts", "current"},
         UNCHANGED <<inst, changed, artifacts, current>>
  PROVE  Accepted' /\ ArtifactsSearched' /\ PackagesSearched'
<1>1. Accepted'
  BY DEF PlanInv, Accepted
<1>2. pc # "artifacts" /\ pc' # "artifacts" /\ pc' # "current"
  OBVIOUS
<1>3. ArtifactsSearched'
  BY <1>2 DEF PlanInv, ArtifactsSearched, Todo
<1>4. PackagesSearched'
  <2>1. {Owner(a)' : a \in DOMAIN artifacts'} = {Owner(a) : a \in DOMAIN artifacts}
    BY DEF Owner
  <2>2. Todo("current")' = <<>>
    BY <1>2 DEF Todo
  <2> QED BY <2>1, <2>2 DEF PlanInv, PackagesSearched
<1> QED BY <1>1, <1>3, <1>4

LEMMA SeedOlderKeeps == PlanInv /\ SeedOlder => PlanInv'
<1> SUFFICES ASSUME PlanInv, SeedOlder PROVE PlanInv'
  OBVIOUS
<1>1. /\ pc = "current" /\ queue = <<>> /\ pc' = "older"
      /\ older' = OlderSeeds /\ queue' = Sorted(DOMAIN OlderSeeds)
      /\ UNCHANGED <<inst, changed, artifacts, current, affected, plan>>
  BY DEF SeedOlder, Goto
<1>2. Settled /\ PlanTypes /\ Packages \in SUBSET Names
  BY PlanInvSettled, Kinds DEF PlanInv
<1>3. Typed(older', Packages) /\ queue' \in Seq(DOMAIN older')
  BY <1>1, <1>2, OlderSeedsAre, SeedsQueued
<1>4. PlanTypes'
  BY <1>1, <1>2, <1>3 DEF PlanTypes, Phases
<1>5. QueueTyped'
  BY <1>1, <1>3 DEF QueueTyped
<1>6. Accepted' /\ ArtifactsSearched' /\ PackagesSearched'
  BY <1>1, SearchedStays DEF Todo, Phases
<1> QED BY <1>1, <1>4, <1>5, <1>6 DEF PlanInv, ImpactFound, NothingAffectedIsOmitted

LEMMA VisitOlderKeeps == PlanInv /\ VisitOlder => PlanInv'
<1> SUFFICES ASSUME PlanInv, VisitOlder PROVE PlanInv'
  OBVIOUS
<1> DEFINE users == Consumers(Head(queue))
<1>1. /\ pc = "older" /\ pc' = pc
      /\ UNCHANGED <<inst, changed, artifacts, current, affected, plan>>
      /\ queue \in Seq(DOMAIN older) /\ queue # <<>>
      /\ Typed(older, Packages) /\ Packages \in SUBSET Names
      /\ Visit(older, users, queue, older', queue')
  BY VisitOlderIs
<1>2. users \in SUBSET Packages
  BY PlanInvSettled, UsersOfNames
<1> HIDE DEF users
<1>4. Typed(older', Packages) /\ queue' \in Seq(DOMAIN older')
  BY <1>1, <1>2, VisitTyped
<1>5. PlanTypes'
  BY <1>1, <1>4 DEF PlanInv, PlanTypes
<1>6. QueueTyped'
  BY <1>1, <1>4 DEF QueueTyped
<1>7. Accepted' /\ ArtifactsSearched' /\ PackagesSearched'
  BY <1>1, SearchedStays DEF Todo, Phases
<1> QED BY <1>1, <1>5, <1>6, <1>7 DEF PlanInv, ImpactFound, NothingAffectedIsOmitted

LEMMA FindAffectedKeeps == PlanInv /\ FindAffected => PlanInv'
<1> SUFFICES ASSUME PlanInv, FindAffected PROVE PlanInv'
  OBVIOUS
<1>1. /\ pc = "older" /\ queue = <<>> /\ pc' = "plan"
      /\ affected' = [x \in {y \in Apps \cap inst.loaded : Reasons(y) # {}} |-> Reasons(x)]
      /\ UNCHANGED <<inst, changed, queue, artifacts, current, older, plan>>
  BY DEF FindAffected, Goto
<1>2. Settled /\ PlanTypes
  BY PlanInvSettled DEF PlanInv
<1>3. DOMAIN affected' = {y \in Apps \cap inst.loaded : Reasons(y) # {}}
  BY <1>1
<1>4. PlanTypes'
  BY <1>1, <1>2, <1>3 DEF PlanTypes, Phases
<1>5. QueueTyped'
  BY <1>1 DEF QueueTyped
<1>6. Accepted' /\ ArtifactsSearched' /\ PackagesSearched'
  BY <1>1, SearchedStays DEF Todo, Phases
<1>7. ASSUME NEW x \in Apps \cap inst.loaded, Exercises(x, changed) PROVE x \in DOMAIN affected'
  <2>1. /\ Valid(inst) /\ changed \in DOMAIN artifacts
        /\ Covered(artifacts, Dependence(inst), <<>>)
        /\ {Owner(a) : a \in DOMAIN artifacts} \cap inst.loaded \subseteq DOMAIN current
        /\ Covered(current, Edges(inst).package, <<>>)
    BY <1>1 DEF PlanInv, Accepted, ArtifactsSearched, PackagesSearched, Todo
  <2>2. PICK p \in inst.uses[x] \cap inst.loaded : p \in DOMAIN current
    BY <1>2, <1>7, <2>1, ExercisedIsFound
  <2>3. Reasons(x) # {}
    BY <2>2 DEF Reasons
  <2> QED BY <1>3, <2>3
<1>8. ImpactFound'
  <2>1. \A x : Exercises(x, changed)' = Exercises(x, changed)
    BY <1>1 DEF Exercises
  <2> QED BY <1>1, <1>7, <2>1 DEF ImpactFound
<1> QED BY <1>1, <1>4, <1>5, <1>6, <1>8 DEF PlanInv, NothingAffectedIsOmitted

LEMMA PlanKeeps ==
  ASSUME NEW targets \in WorkOrders, NEW orderly \in BOOLEAN, NEW loadable \in SUBSET Apps,
         PlanInv, Plan(targets, orderly, loadable)
  PROVE  PlanInv'
<1>1. pc = "plan" /\ UNCHANGED <<inst, changed, queue, artifacts, current, older, affected>>
  BY DEF Plan
<1>2. PlanTypes /\ Settled
  BY PlanInvSettled DEF PlanInv
<1>3. QueueTyped' /\ pc' \in {"planned", "refused"}
  BY <1>1 DEF Plan, Goto, PlanInv, QueueTyped
<1>4. Accepted' /\ ArtifactsSearched' /\ PackagesSearched'
  BY <1>1, <1>3, SearchedStays DEF Todo, Phases
<1>5. \A x : Exercises(x, changed)' = Exercises(x, changed)
  BY <1>1 DEF Exercises
<1>6. ImpactFound'
  BY <1>1, <1>5 DEF PlanInv, ImpactFound
<1>7. CASE pc' = "refused"
  <2>1. UNCHANGED plan
    BY <1>7 DEF Plan, Goto
  <2> QED BY <1>1, <1>2, <1>3, <1>4, <1>6, <1>7, <2>1
          DEF PlanInv, PlanTypes, Phases, NothingAffectedIsOmitted
<1>8. CASE pc' = "planned"
  <2> DEFINE T == ToSet(targets)
  <2>1. /\ Covers(targets)
        /\ plan' = [targets |-> Sorted(T \cap loadable), failures |-> Sorted(T \ loadable)]
    BY <1>8 DEF Plan, Goto
  <2>2. T = DOMAIN affected
    BY <2>1 DEF Covers, ToSet
  <2>3. T \in SUBSET Apps /\ T \in SUBSET Names
    BY <1>2, <2>2, Kinds DEF PlanTypes
  <2> HIDE DEF T
  <2>4. /\ IsFiniteSet(T) /\ T \in SUBSET Nat
        /\ T \cap loadable \in SUBSET Names /\ T \ loadable \in SUBSET Names
    BY <2>3, NamesFinite
  <2>5. plan'.targets \in Seq(Apps) /\ plan'.failures \in Seq(Apps)
    <3>1. ASSUME NEW S \in SUBSET T PROVE Sorted(S) \in Seq(Apps)
      <4>1. S \in SUBSET Names /\ S \subseteq Apps
        BY <2>3
      <4>2. Sorted(S) \in Seq(S)
        BY <4>1, NamesFinite, SortedIs
      <4> QED BY <4>1, <4>2, SeqMonotonic
    <3> QED BY <2>1, <3>1
  <2>6. PlanTypes'
    BY <1>1, <1>2, <1>8, <2>5 DEF PlanTypes, Phases
  <2>7. NothingAffectedIsOmitted'
    <3>1. ASSUME NEW x \in Apps \cap inst.loaded, Exercises(x, changed)
          PROVE  LET entries == plan'.targets \o plan'.failures
                 IN Cardinality({n \in DOMAIN entries : entries[n] = x}) = 1
      <4>1. x \in T
        BY <1>1, <2>2, <3>1 DEF PlanInv, ImpactFound
      <4>2. plan'.targets = Sorted(T \cap loadable) /\ plan'.failures = Sorted(T \ loadable)
        BY <2>1
      <4> DEFINE entries == Sorted(T \cap loadable) \o Sorted(T \ loadable)
      <4>3. Cardinality({n \in DOMAIN entries : entries[n] = x}) = 1
        BY <2>4, <4>1, ListedOnce
      <4> QED BY <4>2, <4>3
    <3> QED BY <1>1, <1>5, <3>1 DEF NothingAffectedIsOmitted
  <2> QED BY <1>3, <1>4, <1>6, <2>6, <2>7 DEF PlanInv
<1> QED BY <1>3, <1>7, <1>8

LEMMA PlanInvStep == PlanInv /\ [Next]_vars => PlanInv'
<1> SUFFICES ASSUME PlanInv, [Next]_vars PROVE PlanInv'
  OBVIOUS
<1>1. CASE UNCHANGED vars
  BY <1>1 DEF vars, PlanInv, PlanTypes, QueueTyped, Accepted, ArtifactsSearched,
              PackagesSearched, ImpactFound, NothingAffectedIsOmitted, Todo, Owner, Exercises
<1>2. CASE \E targets \in WorkOrders, orderly \in BOOLEAN, loadable \in SUBSET Apps :
             Plan(targets, orderly, loadable)
  BY <1>2, PlanKeeps
<1> QED BY <1>1, <1>2, ValidateKeeps, VisitArtifactKeeps, SeedCurrentKeeps, VisitCurrentKeeps,
           SeedOlderKeeps, VisitOlderKeeps, FindAffectedKeeps DEF Next

-----------------------------------------------------------------------------
(* Paths that are no worse *)

NoWorse(p, q) == p = q \/ Prefer(p, q)

LEMMA NoWorseTransitive ==
  ASSUME NEW p \in Paths, NEW q \in Paths, NEW s \in Paths, NoWorse(p, q), NoWorse(q, s)
  PROVE  NoWorse(p, s)
BY PreferTransitive DEF NoWorse

LEMMA NoWorseTotal ==
  ASSUME NEW p \in Paths, NEW q \in Paths, ~Prefer(q, p)
  PROVE  NoWorse(p, q)
BY PreferTotal DEF NoWorse

LEMMA NoWorseShort ==
  ASSUME NEW p \in Paths, NEW q \in Paths, NoWorse(p, q)
  PROVE  Len(p) <= Len(q)
BY PathIs DEF NoWorse, Prefer

LEMMA AppendPathIs ==
  ASSUME NEW p \in Paths, NEW u \in Nat
  PROVE  /\ Append(p, u) \in Paths /\ Len(Append(p, u)) = Len(p) + 1
         /\ \A i \in 1 .. Len(p) : Append(p, u)[i] = p[i]
         /\ Append(p, u)[Len(p) + 1] = u
         /\ DOMAIN Append(p, u) = 1 .. Len(p) + 1
<1>1. /\ Append(p, u) \in Paths /\ Len(Append(p, u)) = Len(p) + 1
      /\ \A i \in 1 .. Len(p) : Append(p, u)[i] = p[i]
      /\ Append(p, u)[Len(p) + 1] = u
  BY AppendProperties DEF Paths
<1> QED BY <1>1, PathIs

(* A path that is no worse stays so on the way to the same name. *)
LEMMA NoWorseAppend ==
  ASSUME NEW p \in Paths, NEW q \in Paths, NEW u \in Nat, NoWorse(p, q)
  PROVE  NoWorse(Append(p, u), Append(q, u))
<1> DEFINE a == Append(p, u)
           b == Append(q, u)
<1>1. /\ a \in Paths /\ Len(a) = Len(p) + 1
      /\ \A i \in 1 .. Len(p) : a[i] = p[i]
      /\ b \in Paths /\ Len(b) = Len(q) + 1
      /\ \A i \in 1 .. Len(q) : b[i] = q[i]
      /\ Len(p) \in Nat /\ Len(q) \in Nat
  BY AppendPathIs, PathIs
<1>2. CASE p = q
  BY <1>2 DEF NoWorse
<1> HIDE DEF a, b
<1>3. CASE Len(p) < Len(q)
  BY <1>1, <1>3 DEF NoWorse, Prefer, a, b
<1>4. CASE Len(p) = Len(q) /\ Lexicographic(p, q)
  <2>1. PICK n \in 1 .. Len(p) : p[n] < q[n] /\ \A m \in 1 .. n - 1 : p[m] = q[m]
    BY <1>4 DEF Lexicographic
  <2>2. n \in 1 .. Len(a) /\ \A m \in 1 .. n - 1 : m \in 1 .. Len(p)
    BY <1>1
  <2>3. a[n] < b[n] /\ \A m \in 1 .. n - 1 : a[m] = b[m]
    BY <1>1, <1>4, <2>1, <2>2
  <2>4. Lexicographic(a, b)
    BY <2>2, <2>3 DEF Lexicographic
  <2> QED BY <1>1, <1>4, <2>4 DEF NoWorse, Prefer, a, b
<1> QED BY <1>2, <1>3, <1>4 DEF NoWorse, Prefer

(* The first name of two paths may be replaced by the same two names. *)
LEMMA TailIs ==
  ASSUME NEW p \in Paths, p # <<>>
  PROVE  /\ Tail(p) \in Paths /\ Len(Tail(p)) = Len(p) - 1 /\ Len(p) \in Nat /\ Len(p) >= 1
         /\ \A i \in 1 .. Len(p) - 1 : Tail(p)[i] = p[i + 1]
<1>1. /\ Tail(p) \in Paths /\ Len(Tail(p)) = Len(p) - 1
      /\ \A i \in 1 .. Len(Tail(p)) : Tail(p)[i] = p[i + 1]
  BY HeadTailProperties DEF Paths
<1>2. Len(p) \in Nat /\ Len(p) # 0
  BY EmptySeq, LenProperties DEF Paths
<1> QED BY <1>1, <1>2

LEMMA ConcatPath ==
  ASSUME NEW p \in Paths, NEW q \in Paths
  PROVE  /\ p \o q \in Paths /\ Len(p \o q) = Len(p) + Len(q)
         /\ \A i \in 1 .. Len(p) + Len(q) : (p \o q)[i] = IF i <= Len(p) THEN p[i]
                                                                     ELSE q[i - Len(p)]
BY ConcatProperties DEF Paths

LEMMA NoWorseHead ==
  ASSUME NEW p \in Paths, NEW q \in Paths, p # <<>>, q # <<>>, p[1] = q[1],
         NEW h \in Paths, NoWorse(p, q)
  PROVE  h \o Tail(p) \in Paths /\ h \o Tail(q) \in Paths /\ NoWorse(h \o Tail(p), h \o Tail(q))
<1> DEFINE s == Tail(p)
           t == Tail(q)
<1>1. /\ s \in Paths /\ Len(s) = Len(p) - 1 /\ Len(p) \in Nat /\ Len(p) >= 1
      /\ \A i \in 1 .. Len(p) - 1 : s[i] = p[i + 1]
      /\ t \in Paths /\ Len(t) = Len(q) - 1 /\ Len(q) \in Nat /\ Len(q) >= 1
      /\ \A i \in 1 .. Len(q) - 1 : t[i] = q[i + 1]
      /\ Len(h) \in Nat
  BY TailIs, PathIs
<1> HIDE DEF s, t
<1> DEFINE a == h \o s
           b == h \o t
<1>3. /\ a \in Paths /\ Len(a) = Len(h) + Len(s)
      /\ \A i \in 1 .. Len(h) + Len(s) : a[i] = IF i <= Len(h) THEN h[i] ELSE s[i - Len(h)]
      /\ b \in Paths /\ Len(b) = Len(h) + Len(t)
      /\ \A i \in 1 .. Len(h) + Len(t) : b[i] = IF i <= Len(h) THEN h[i] ELSE t[i - Len(h)]
  <2>1. /\ a \in Paths /\ Len(a) = Len(h) + Len(s)
        /\ \A i \in 1 .. Len(h) + Len(s) : a[i] = IF i <= Len(h) THEN h[i] ELSE s[i - Len(h)]
    BY <1>1, ConcatPath
  <2>2. /\ b \in Paths /\ Len(b) = Len(h) + Len(t)
        /\ \A i \in 1 .. Len(h) + Len(t) : b[i] = IF i <= Len(h) THEN h[i] ELSE t[i - Len(h)]
    BY <1>1, ConcatPath
  <2> QED BY <2>1, <2>2
<1>2. p = q => a = b
  BY DEF s, t
<1> HIDE DEF a, b
<1>4. ASSUME Len(p) < Len(q) PROVE NoWorse(a, b)
  <2>1. Len(a) < Len(b)
    BY <1>1, <1>3, <1>4
  <2> QED BY <2>1 DEF NoWorse, Prefer
<1>5. ASSUME Len(p) = Len(q), Lexicographic(p, q) PROVE NoWorse(a, b)
  <2>1. PICK n \in 1 .. Len(p) : p[n] < q[n] /\ \A m \in 1 .. n - 1 : p[m] = q[m]
    BY <1>5 DEF Lexicographic
  <2>2. n # 1
    <3>1. p[1] \in Nat
      BY <1>1, PathIs
    <3> QED BY <2>1, <3>1
  <2> DEFINE k == Len(h) + (n - 1)
  <2>3. /\ k \in 1 .. Len(a) /\ ~(k <= Len(h)) /\ k - Len(h) = n - 1 /\ n - 1 \in 1 .. Len(p) - 1
        /\ (n - 1) + 1 = n
    BY <1>1, <1>3, <2>2
  <2>4. a[k] = p[n] /\ b[k] = q[n]
    <3>1. a[k] = s[n - 1] /\ b[k] = t[n - 1]
      BY <1>1, <1>3, <1>5, <2>3
    <3> QED BY <1>1, <1>5, <2>3, <3>1
  <2>5. ASSUME NEW m \in 1 .. k - 1 PROVE a[m] = b[m]
    <3>1. m \in 1 .. Len(h) + Len(s) /\ m \in 1 .. Len(h) + Len(t)
      BY <1>1, <1>3, <1>5, <2>3
    <3>2. CASE m <= Len(h)
      BY <1>3, <3>1, <3>2
    <3>3. CASE ~(m <= Len(h))
      <4>1. /\ m - Len(h) \in 1 .. Len(p) - 1 /\ (m - Len(h)) + 1 \in 1 .. n - 1
        BY <1>1, <1>5, <2>3, <3>1, <3>3
      <4>2. a[m] = p[(m - Len(h)) + 1] /\ b[m] = q[(m - Len(h)) + 1]
        BY <1>1, <1>3, <1>5, <3>1, <3>3, <4>1
      <4> QED BY <2>1, <4>1, <4>2
    <3> QED BY <3>2, <3>3
  <2> HIDE DEF k
  <2>6. Lexicographic(a, b)
    BY <2>1, <2>3, <2>4, <2>5 DEF Lexicographic
  <2>7. Len(a) = Len(b)
    BY <1>1, <1>3, <1>5
  <2> QED BY <2>6, <2>7 DEF NoWorse, Prefer
<1>6. NoWorse(a, b)
  <2>1. CASE p = q
    BY <1>2, <2>1 DEF NoWorse
  <2> QED BY <1>4, <1>5, <2>1 DEF NoWorse, Prefer
<1> QED BY <1>3, <1>6 DEF a, b, s, t

LEMMA LastIs ==
  ASSUME NEW p \in Paths, NEW u \in Nat
  PROVE  Last(Append(p, u)) = u
BY AppendPathIs DEF Last

LEMMA LastConcat ==
  ASSUME NEW h \in Paths, NEW d \in Paths, d # <<>>
  PROVE  /\ h \o d \in Paths /\ Len(h \o d) = Len(h) + Len(d) /\ Last(h \o d) = Last(d)
         /\ Len(d) \in 1 .. Len(d) /\ Last(d) \in Nat
<1>1. /\ Len(h) \in Nat /\ Len(d) \in Nat /\ Len(d) # 0 /\ Len(d) \in 1 .. Len(d)
      /\ d[Len(d)] \in Nat
  <2>1. Len(h) \in Nat /\ Len(d) \in Nat /\ Len(d) # 0
    BY EmptySeq, LenProperties DEF Paths
  <2>2. Len(d) \in 1 .. Len(d)
    BY <2>1
  <2> QED BY <2>1, <2>2, PathIs
<1> DEFINE c == h \o d
<1>2. /\ c \in Paths /\ Len(c) = Len(h) + Len(d)
      /\ \A i \in 1 .. Len(h) + Len(d) : c[i] = IF i <= Len(h) THEN h[i] ELSE d[i - Len(h)]
  BY ConcatPath
<1> HIDE DEF c
<1>3. c[Len(h) + Len(d)] = d[Len(d)]
  <2>1. /\ Len(h) + Len(d) \in 1 .. Len(h) + Len(d) /\ ~(Len(h) + Len(d) <= Len(h))
        /\ (Len(h) + Len(d)) - Len(h) = Len(d)
    BY <1>1
  <2> QED BY <1>2, <2>1
<1> QED BY <1>1, <1>2, <1>3 DEF Last, c

LEMMA ConcatAppend ==
  ASSUME NEW h \in Paths, NEW d \in Paths, NEW u \in Nat
  PROVE  Append(h \o d, u) = h \o Append(d, u)
<1>1. h \o d \in Paths /\ <<u>> \in Paths
  BY ConcatProperties DEF Paths
<1>2. Append(h \o d, u) = (h \o d) \o <<u>> /\ Append(d, u) = d \o <<u>>
  BY <1>1, AppendIsConcat DEF Paths
<1>3. (h \o d) \o <<u>> = h \o (d \o <<u>>)
  BY <1>1, ConcatAssociative DEF Paths
<1> QED BY <1>2, <1>3

-----------------------------------------------------------------------------
(* Chains *)

ChainStep(rel, S, before) ==
  UNION {{Append(c, x) : x \in {y \in S \ ToSet(c) : <<y, Last(c)>> \in rel}} : c \in before}

Extends(d, c, x, rel) == x \notin ToSet(c) /\ <<x, Last(c)>> \in rel /\ d = Append(c, x)

LEMMA ChainStepIs ==
  ASSUME NEW rel, NEW S, NEW before, NEW d \in ChainStep(rel, S, before)
  PROVE  \E c \in before, x \in S : Extends(d, c, x, rel)
BY DEF ChainStep, Extends

Longs(rel, from, S, v, n) ==
  v = [k \in 1 .. n |-> IF k = 1 THEN {<<from>>} ELSE ChainStep(rel, S, v[k - 1])]

LEMMA LongsExist == ASSUME NEW rel, NEW from, NEW S, NEW n \in Nat
                    PROVE  \E v : Longs(rel, from, S, v, n)
<1> DEFINE Bad == {k \in Nat : ~ \E v : Longs(rel, from, S, v, k)}
<1> SUFFICES ASSUME Bad # {} PROVE FALSE
  OBVIOUS
<1>1. PICK m \in Bad : \A k \in Bad : m <= k
  <2>1. Bad \in SUBSET Nat
    OBVIOUS
  <2> HIDE DEF Bad
  <2> QED BY <2>1, LeastNatural
<1>2. m \in Nat /\ ~ \E v : Longs(rel, from, S, v, m)
  BY <1>1
<1>3. CASE m = 0
  <2> DEFINE v == [k \in 1 .. 0 |-> {}]
  <2>1. v = [k \in 1 .. 0 |-> IF k = 1 THEN {<<from>>} ELSE ChainStep(rel, S, v[k - 1])]
    OBVIOUS
  <2>2. Longs(rel, from, S, v, 0)
    BY <2>1 DEF Longs
  <2> QED BY <1>2, <1>3, <2>2
<1>4. CASE m # 0
  <2>1. m - 1 \in Nat /\ m - 1 \notin Bad
    BY <1>1, <1>4
  <2>2. PICK v : Longs(rel, from, S, v, m - 1)
    BY <2>1
  <2> DEFINE last == IF m = 1 THEN {<<from>>} ELSE ChainStep(rel, S, v[m - 1])
             w    == [k \in 1 .. m |-> IF k = m THEN last ELSE v[k]]
  <2>3. ASSUME NEW k \in 1 .. m
        PROVE  w[k] = IF k = 1 THEN {<<from>>} ELSE ChainStep(rel, S, w[k - 1])
    <3>1. k # 1 => k - 1 \in 1 .. m /\ k - 1 # m
      BY <1>2
    <3>2. k # 1 => w[k - 1] = v[k - 1]
      <4> HIDE DEF last
      <4> QED BY <3>1
    <3>3. CASE k = m
      <4>1. w[k] = last
        <5> HIDE DEF last
        <5> QED BY <3>3
      <4> HIDE DEF w
      <4> QED BY <3>2, <3>3, <4>1
    <3>4. CASE k # m
      <4>1. k \in 1 .. m - 1
        BY <1>2, <3>4
      <4>2. v[k] = IF k = 1 THEN {<<from>>} ELSE ChainStep(rel, S, v[k - 1])
        BY <2>2, <4>1 DEF Longs
      <4>3. w[k] = v[k]
        <5> HIDE DEF last
        <5> QED BY <3>4
      <4> HIDE DEF w
      <4> QED BY <3>2, <4>2, <4>3
    <3> QED BY <3>3, <3>4
  <2>4. w = [k \in 1 .. m |-> w[k]]
    OBVIOUS
  <2>5. Longs(rel, from, S, w, m)
    <3> HIDE DEF w
    <3> QED BY <2>3, <2>4 DEF Longs
  <2> QED BY <1>2, <2>5
<1> QED BY <1>3, <1>4

LEMMA NamesCount ==
  ASSUME NEW S \in SUBSET Names
  PROVE  Cardinality(S) \in Nat /\ Cardinality(S) + 1 \in Nat
<1>1. Cardinality(S) \in Nat
  BY NamesFinite, FS_CardinalityType
<1> QED BY <1>1

LEMMA ChainsAre ==
  ASSUME NEW rel, NEW from, NEW S \in SUBSET Names
  PROVE  \E v : /\ Longs(rel, from, S, v, Cardinality(S) + 1)
                /\ Chains(rel, from, S) = UNION {v[n] : n \in 1 .. Cardinality(S) + 1}
<1> DEFINE N == Cardinality(S) + 1
           v == CHOOSE v : v = [n \in 1 .. N |-> IF n = 1 THEN {<<from>>}
                                                 ELSE ChainStep(rel, S, v[n - 1])]
<1>1. Cardinality(S) \in Nat /\ N \in Nat
  BY NamesCount
<1>2. Longs(rel, from, S, v, N)
  <2>1. \E u : Longs(rel, from, S, u, N)
    BY <1>1, LongsExist
  <2> QED BY <2>1 DEF Longs
<1>3. Chains(rel, from, S) = UNION {v[n] : n \in DOMAIN v}
  BY DEF Chains, ChainStep
<1> HIDE DEF v
<1>4. DOMAIN v = 1 .. N
  BY <1>2 DEF Longs
<1> QED BY <1>1, <1>2, <1>3, <1>4

IsChain(c, from, S) == c \in Seq(S) /\ c # <<>> /\ IsInjective(c) /\ c[1] = from

LEMMA NameSeq ==
  ASSUME NEW S \in SUBSET Names, NEW c \in Seq(S)
  PROVE  /\ c \in Paths /\ ToSet(c) \subseteq S
         /\ \A i \in 1 .. Len(c) : c[i] \in S /\ c[i] \in ToSet(c)
<1>1. S \subseteq Nat
  BY NamesFinite
<1>2. c \in Paths
  BY <1>1, SeqMonotonic DEF Paths
<1> QED BY <1>2, PathIs, SetOfSeq, ElementOfSeq

LongChain(c, n, from, S) == IsChain(c, from, S) /\ Len(c) = n

LEMMA ChainAppend ==
  ASSUME NEW S \in SUBSET Names, NEW from, NEW c, IsChain(c, from, S),
         NEW x \in S \ ToSet(c)
  PROVE  IsChain(Append(c, x), from, S) /\ Len(Append(c, x)) = Len(c) + 1
<1> DEFINE d == Append(c, x)
<1>1. c \in Seq(S) /\ c # <<>> /\ c \in Paths /\ x \in Nat /\ x \in S
  BY NameSeq, NamesFinite DEF IsChain
<1>2. /\ d \in Seq(S) /\ d # <<>>
      /\ Len(d) = Len(c) + 1 /\ DOMAIN d = 1 .. Len(c) + 1
      /\ \A i \in 1 .. Len(c) : d[i] = c[i]
      /\ d[Len(c) + 1] = x
  BY <1>1, AppendPathIs, AppendProperties
<1> HIDE DEF d
<1>3. Len(c) \in Nat /\ Len(c) # 0 /\ DOMAIN c = 1 .. Len(c)
  BY <1>1, EmptySeq, LenProperties
<1>4. d[1] = from
  BY <1>2, <1>3 DEF IsChain
<1>5. ASSUME NEW i \in DOMAIN d, NEW j \in DOMAIN d, d[i] = d[j] PROVE i = j
  <2>1. CASE i \in 1 .. Len(c) /\ j \in 1 .. Len(c)
    BY <1>2, <1>3, <1>5, <2>1 DEF IsChain, IsInjective
  <2>2. CASE i = Len(c) + 1 /\ j \in 1 .. Len(c)
    <3>1. c[j] \in ToSet(c) /\ d[j] = c[j] /\ d[i] = x
      BY <1>1, <1>2, <2>2, NameSeq
    <3> QED BY <1>5, <3>1
  <2>3. CASE j = Len(c) + 1 /\ i \in 1 .. Len(c)
    <3>1. c[i] \in ToSet(c) /\ d[i] = c[i] /\ d[j] = x
      BY <1>1, <1>2, <2>3, NameSeq
    <3> QED BY <1>5, <3>1
  <2> QED BY <1>2, <1>3, <2>1, <2>2, <2>3
<1> QED BY <1>2, <1>4, <1>5 DEF IsChain, IsInjective, d

LEMMA ChainStart ==
  ASSUME NEW S \in SUBSET Names, NEW from \in S
  PROVE  IsChain(<<from>>, from, S) /\ Len(<<from>>) = 1
BY DEF IsChain, IsInjective

(* A chain has no more names than there are. *)
LEMMA ChainShort ==
  ASSUME NEW S \in SUBSET Names, NEW from, NEW c, IsChain(c, from, S)
  PROVE  Len(c) \in 1 .. Cardinality(S)
<1>1. /\ c \in Seq(S) /\ Len(c) \in Nat /\ DOMAIN c = 1 .. Len(c) /\ Len(c) # 0
      /\ IsFiniteSet(S) /\ Cardinality(S) \in Nat
  BY NamesFinite, FS_CardinalityType, LenProperties, EmptySeq DEF IsChain
<1>2. c \in Injection(1 .. Len(c), S)
  BY <1>1, ElementOfSeq DEF IsChain, IsInjective, Injection
<1>3. Cardinality(1 .. Len(c)) = Len(c)
  BY <1>1, FS_Interval
<1>4. Cardinality(1 .. Len(c)) <= Cardinality(S)
  BY <1>1, <1>2, FS_Injection
<1> QED BY <1>1, <1>3, <1>4

LEMMA LongIsChain ==
  ASSUME NEW rel, NEW S \in SUBSET Names, NEW from \in S, NEW N \in Nat,
         NEW v, Longs(rel, from, S, v, N), NEW n \in 1 .. N, NEW c \in v[n]
  PROVE  LongChain(c, n, from, S)
<1> DEFINE Bad == {k \in 1 .. N : ~ \A d \in v[k] : LongChain(d, k, from, S)}
<1> SUFFICES ASSUME Bad # {} PROVE FALSE
  OBVIOUS
<1>1. PICK m \in Bad : \A k \in Bad : m <= k
  <2>1. Bad \in SUBSET Nat
    OBVIOUS
  <2> HIDE DEF Bad
  <2> QED BY <2>1, LeastNatural
<1>2. m \in 1 .. N
  BY <1>1
<1>3. PICK d \in v[m] : ~LongChain(d, m, from, S)
  BY <1>1
<1>4. v[m] = IF m = 1 THEN {<<from>>} ELSE ChainStep(rel, S, v[m - 1])
  BY <1>2 DEF Longs
<1>5. CASE m = 1
  <2>1. d = <<from>>
    BY <1>3, <1>4, <1>5
  <2> QED BY <1>3, <1>5, <2>1, ChainStart DEF LongChain
<1>6. CASE m # 1
  <2>1. m - 1 \in 1 .. N /\ m - 1 \notin Bad
    BY <1>1, <1>2, <1>6
  <2>2. PICK e \in v[m - 1], x \in S : x \notin ToSet(e) /\ d = Append(e, x)
    <3>1. d \in ChainStep(rel, S, v[m - 1])
      BY <1>3, <1>4, <1>6
    <3>2. PICK e \in v[m - 1], x \in S : Extends(d, e, x, rel)
      BY <3>1, ChainStepIs
    <3> QED BY <3>2 DEF Extends
  <2>3. LongChain(e, m - 1, from, S)
    BY <2>1, <2>2
  <2>4. IsChain(d, from, S) /\ Len(d) = (m - 1) + 1
    BY <2>2, <2>3, ChainAppend DEF LongChain
  <2> QED BY <1>2, <1>3, <2>4 DEF LongChain
<1> QED BY <1>5, <1>6

LEMMA ChainsTyped ==
  ASSUME NEW rel, NEW S \in SUBSET Names, NEW from \in S, NEW c \in Chains(rel, from, S)
  PROVE  IsChain(c, from, S)
<1> DEFINE N == Cardinality(S) + 1
<1>1. PICK v : /\ Longs(rel, from, S, v, N)
               /\ Chains(rel, from, S) = UNION {v[n] : n \in 1 .. N}
  BY ChainsAre
<1>2. N \in Nat
  BY NamesCount
<1> HIDE DEF N
<1>3. PICK n \in 1 .. N : c \in v[n]
  BY <1>1
<1>4. LongChain(c, n, from, S)
  BY <1>1, <1>2, <1>3, LongIsChain
<1> QED BY <1>4 DEF LongChain

LEMMA ChainsBegin ==
  ASSUME NEW rel, NEW S \in SUBSET Names, NEW from \in S
  PROVE  <<from>> \in Chains(rel, from, S)
<1>1. PICK v : /\ Longs(rel, from, S, v, Cardinality(S) + 1)
               /\ Chains(rel, from, S) = UNION {v[n] : n \in 1 .. Cardinality(S) + 1}
  BY ChainsAre
<1>2. 1 \in 1 .. Cardinality(S) + 1
  BY NamesCount
<1>3. v[1] = {<<from>>}
  BY <1>1, <1>2 DEF Longs
<1> QED BY <1>1, <1>2, <1>3

LEMMA ChainsExtend ==
  ASSUME NEW rel, NEW S \in SUBSET Names, NEW from \in S, NEW c \in Chains(rel, from, S),
         NEW x \in S \ ToSet(c), <<x, Last(c)>> \in rel
  PROVE  Append(c, x) \in Chains(rel, from, S)
<1> DEFINE N == Cardinality(S) + 1
<1>1. PICK v : /\ Longs(rel, from, S, v, N)
               /\ Chains(rel, from, S) = UNION {v[n] : n \in 1 .. N}
  BY ChainsAre
<1>2. Cardinality(S) \in Nat /\ N \in Nat
  BY NamesCount
<1>3. PICK n \in 1 .. N : c \in v[n]
  BY <1>1
<1>4. LongChain(c, n, from, S)
  BY <1>1, <1>2, <1>3, LongIsChain
<1>5. IsChain(Append(c, x), from, S) /\ Len(Append(c, x)) = n + 1
  BY <1>4, ChainAppend DEF LongChain
<1>6. n + 1 \in 1 .. Cardinality(S)
  BY <1>5, ChainShort
<1>7. n + 1 \in 1 .. N /\ n + 1 # 1 /\ (n + 1) - 1 = n
  BY <1>2, <1>3, <1>6
<1>8. v[n + 1] = ChainStep(rel, S, v[n])
  BY <1>1, <1>7 DEF Longs
<1>9. Append(c, x) \in v[n + 1]
  BY <1>3, <1>8 DEF ChainStep
<1> HIDE DEF N
<1> QED BY <1>1, <1>7, <1>9

(* A set of chains that is closed under extension has them all. *)
ExtensionClosed(T, rel, S) ==
  \A c \in T, x \in S : x \notin ToSet(c) /\ <<x, Last(c)>> \in rel => Append(c, x) \in T

LEMMA ChainsInside ==
  ASSUME NEW rel, NEW S \in SUBSET Names, NEW from \in S, NEW T, <<from>> \in T,
         ExtensionClosed(T, rel, S)
  PROVE  Chains(rel, from, S) \subseteq T
<1> DEFINE N == Cardinality(S) + 1
<1>1. PICK v : /\ Longs(rel, from, S, v, N)
               /\ Chains(rel, from, S) = UNION {v[n] : n \in 1 .. N}
  BY ChainsAre
<1>2. N \in Nat
  BY NamesCount
<1> HIDE DEF N
<1> DEFINE Bad == {k \in 1 .. N : ~(v[k] \subseteq T)}
<1>3. ASSUME Bad # {} PROVE FALSE
  <2>1. PICK m \in Bad : \A k \in Bad : m <= k
    <3>1. Bad \in SUBSET Nat
      OBVIOUS
    <3> HIDE DEF Bad
    <3> QED BY <1>3, <3>1, LeastNatural
  <2>2. m \in 1 .. N /\ ~(v[m] \subseteq T)
    BY <2>1
  <2>3. v[m] = IF m = 1 THEN {<<from>>} ELSE ChainStep(rel, S, v[m - 1])
    BY <1>1, <2>2 DEF Longs
  <2>4. m # 1
    BY <2>2, <2>3
  <2>5. m - 1 \in 1 .. N /\ m - 1 \notin Bad
    BY <1>2, <2>1, <2>2, <2>4
  <2>6. v[m - 1] \subseteq T
    BY <2>5
  <2>7. ASSUME NEW d \in v[m] PROVE d \in T
    <3>1. d \in ChainStep(rel, S, v[m - 1])
      BY <2>3, <2>4, <2>7
    <3>2. PICK c \in v[m - 1], x \in S : Extends(d, c, x, rel)
      BY <3>1, ChainStepIs
    <3> QED BY <2>6, <3>2 DEF Extends, ExtensionClosed
  <2> QED BY <2>2, <2>7
<1> QED BY <1>1, <1>3

-----------------------------------------------------------------------------
(* What a search knows *)

(* A search starts from heads: pairs of the path that leads up to a name,  *)
(* and that name.  It goes on along a relation.                            *)
HeadsTyped(heads, S) == \A h \in heads : h[1] \in Seq(Names) /\ h[2] \in S

(* The path to x is a head and a chain from it, and what it passes has a   *)
(* path that is no longer than up to there.                                *)
ExplainedBy(paths, x, h, d) ==
  /\ paths[x] = h[1] \o d /\ Last(d) = x
  /\ \A k \in DOMAIN d : d[k] \in DOMAIN paths /\ Len(paths[d[k]]) <= Len(h[1]) + k

Explained(paths, heads, rel, S) ==
  \A x \in DOMAIN paths : \E h \in heads : \E d \in Chains(rel, h[2], S) :
    ExplainedBy(paths, x, h, d)

(* Every head leads to a path no worse than itself. *)
Seeded(paths, heads) ==
  \A h \in heads : h[2] \in DOMAIN paths /\ NoWorse(paths[h[2]], Append(h[1], h[2]))

(* No user's path is worse than the one by way of what it uses, unless     *)
(* that is to be visited.                                                  *)
Relaxed(paths, rel, todo) ==
  \A e \in rel : e[2] \in DOMAIN paths /\ e[2] \notin ToSet(todo) =>
    e[1] \in DOMAIN paths /\ NoWorse(paths[e[1]], Append(paths[e[2]], e[1]))

Search(paths, heads, rel, S, todo) ==
  Explained(paths, heads, rel, S) /\ Seeded(paths, heads) /\ Relaxed(paths, rel, todo)

(* What one visit of x does, which improves the paths to I. *)
Visited(paths, x, users, I, todo, new, next) ==
  /\ x \in DOMAIN paths /\ I \subseteq users
  /\ DOMAIN new = DOMAIN paths \cup users
  /\ \A u \in users : u \in DOMAIN paths \/ u \in I
  /\ \A u \in I : /\ new[u] = Append(paths[x], u)
                  /\ u \in DOMAIN paths => Prefer(new[u], paths[u])
  /\ \A u \in DOMAIN paths \ I : new[u] = paths[u]
  /\ \A u \in users \ I : ~Prefer(Append(paths[x], u), paths[u])
  /\ I \subseteq ToSet(next) /\ ToSet(todo) \subseteq {x} \cup ToSet(next)

LEMMA VisitIs ==
  ASSUME NEW X \in SUBSET Names, NEW paths, Typed(paths, X), NEW users \in SUBSET X,
         NEW todo \in Seq(DOMAIN paths), todo # <<>>,
         NEW new, NEW next, Visit(paths, users, todo, new, next)
  PROVE  Visited(paths, Head(todo), users, Improved(paths, users, Head(todo)), todo, new, next)
<1> DEFINE x    == Head(todo)
           I    == Improved(paths, users, x)
           D    == DOMAIN paths \cup I
           rest == Tail(todo)
           more == Sorted(I)
<1>1. /\ x \in DOMAIN paths /\ rest \in Seq(DOMAIN paths)
      /\ ToSet(todo) \subseteq {x} \cup ToSet(rest)
  BY SetOfTail
<1>2. /\ I \subseteq users /\ \A u \in users : u \in DOMAIN paths \/ u \in I
      /\ \A u \in I : u \in DOMAIN paths => Prefer(Append(paths[x], u), paths[u])
      /\ \A u \in users \ I : ~Prefer(Append(paths[x], u), paths[u])
  BY DEF Improved
<1>3. new = [u \in D |-> IF u \in I THEN Append(paths[x], u) ELSE paths[u]]
  BY DEF Extended, Visit
<1>4. next = rest \o more
  BY DEF Visit
<1>5. I \in SUBSET Names /\ IsFiniteSet(I) /\ I \in SUBSET Nat
  BY <1>2, NamesFinite
<1>6. more \in Seq(I) /\ ToSet(more) = I
  BY <1>5, SortedIs
<1>7. DOMAIN paths \subseteq D /\ I \subseteq D /\ D = DOMAIN paths \cup users
  BY <1>2
<1> HIDE DEF x, I, rest, more, D
<1>8. ToSet(next) = ToSet(rest) \cup I
  <2>1. rest \in Seq(D) /\ more \in Seq(D)
    BY <1>1, <1>6, <1>7, SeqMonotonic
  <2> QED BY <1>4, <1>6, <2>1, SetOfConcat
<1>9. DOMAIN new = DOMAIN paths \cup users
  BY <1>3, <1>7
<1>10. \A u \in I : /\ new[u] = Append(paths[x], u)
                    /\ u \in DOMAIN paths => Prefer(new[u], paths[u])
  BY <1>2, <1>3, <1>7
<1>11. \A u \in DOMAIN paths \ I : new[u] = paths[u]
  BY <1>3, <1>7
<1>12. Visited(paths, x, users, I, todo, new, next)
  BY <1>1, <1>2, <1>8, <1>9, <1>10, <1>11 DEF Visited
<1> QED BY <1>12 DEF x, I

LEMMA TypedIs ==
  ASSUME NEW X \in SUBSET Names, NEW paths, Typed(paths, X), NEW x \in DOMAIN paths
  PROVE  paths[x] \in Paths /\ x \in Names /\ x \in Nat
BY PathOfNames, KnowledgeAssumption DEF Typed

LEMMA ChainIs ==
  ASSUME NEW rel, NEW S \in SUBSET Names, NEW from \in S, NEW d \in Chains(rel, from, S)
  PROVE  /\ d \in Seq(S) /\ d \in Paths /\ d # <<>> /\ Len(d) \in Nat /\ Len(d) # 0
         /\ DOMAIN d = 1 .. Len(d)
<1>1. d \in Seq(S) /\ d # <<>>
  BY ChainsTyped DEF IsChain
<1> QED BY <1>1, NameSeq, EmptySeq, LenProperties

(* Paths that get no worse are explained as before. *)
LEMMA StaysExplained ==
  ASSUME NEW X \in SUBSET Names, NEW paths, Typed(paths, X), NEW new, Typed(new, X),
         \A u \in DOMAIN paths : u \in DOMAIN new /\ NoWorse(new[u], paths[u]),
         NEW h, h[1] \in Paths, NEW d, d \in Paths,
         \A k \in DOMAIN d : d[k] \in DOMAIN paths /\ Len(paths[d[k]]) <= Len(h[1]) + k
  PROVE  \A k \in DOMAIN d : d[k] \in DOMAIN new /\ Len(new[d[k]]) <= Len(h[1]) + k
<1> SUFFICES ASSUME NEW k \in DOMAIN d
             PROVE  d[k] \in DOMAIN new /\ Len(new[d[k]]) <= Len(h[1]) + k
  OBVIOUS
<1>1. /\ d[k] \in DOMAIN paths /\ d[k] \in DOMAIN new
      /\ Len(paths[d[k]]) <= Len(h[1]) + k /\ NoWorse(new[d[k]], paths[d[k]])
  OBVIOUS
<1>2. paths[d[k]] \in Paths /\ new[d[k]] \in Paths
  BY <1>1, TypedIs
<1>3. Len(new[d[k]]) <= Len(paths[d[k]])
  BY <1>1, <1>2, NoWorseShort
<1>4. /\ Len(new[d[k]]) \in Nat /\ Len(paths[d[k]]) \in Nat /\ Len(h[1]) \in Nat
      /\ k \in 1 .. Len(d)
  BY <1>2, PathIs
<1>5. Len(d) \in Nat
  BY PathIs
<1> QED BY <1>1, <1>3, <1>4, <1>5

LEMMA VisitExplains ==
  ASSUME NEW S \in SUBSET Names, NEW paths, Typed(paths, S), NEW new, Typed(new, S),
         NEW rel \in SUBSET (S \X S), NEW heads, HeadsTyped(heads, S),
         Explained(paths, heads, rel, S),
         NEW x, NEW I, NEW todo, NEW next,
         Visited(paths, x, Users(rel, x), I, todo, new, next),
         \A u \in DOMAIN paths : u \in DOMAIN new /\ NoWorse(new[u], paths[u])
  PROVE  Explained(new, heads, rel, S)
<1> SUFFICES ASSUME NEW y \in DOMAIN new
             PROVE  \E h \in heads : \E d \in Chains(rel, h[2], S) : ExplainedBy(new, y, h, d)
  BY DEF Explained
<1>1. CASE y \notin I
  <2>1. y \in DOMAIN paths /\ new[y] = paths[y]
    BY <1>1 DEF Visited
  <2>2. PICK h \in heads : \E d \in Chains(rel, h[2], S) : ExplainedBy(paths, y, h, d)
    BY <2>1 DEF Explained
  <2>3. PICK d \in Chains(rel, h[2], S) : ExplainedBy(paths, y, h, d)
    BY <2>2
  <2>4. h[1] \in Paths /\ h[2] \in S
    BY PathOfNames DEF HeadsTyped
  <2>5. d \in Paths
    BY <2>4, ChainIs
  <2>6. \A k \in DOMAIN d : d[k] \in DOMAIN new /\ Len(new[d[k]]) <= Len(h[1]) + k
    BY <2>3, <2>4, <2>5, StaysExplained DEF ExplainedBy
  <2>7. ExplainedBy(new, y, h, d)
    BY <2>1, <2>3, <2>6 DEF ExplainedBy
  <2> QED BY <2>7
<1>2. CASE y \in I
  <2>1. /\ x \in DOMAIN paths /\ new[y] = Append(paths[x], y)
        /\ y \in DOMAIN paths => Prefer(new[y], paths[y])
        /\ y \in Users(rel, x)
    BY <1>2 DEF Visited
  <2>2. <<y, x>> \in rel /\ y \in S /\ y \in Nat
    BY <2>1, NamesFinite DEF Users
  <2>3. PICK h \in heads : \E d \in Chains(rel, h[2], S) : ExplainedBy(paths, x, h, d)
    BY <2>1 DEF Explained
  <2>4. PICK d \in Chains(rel, h[2], S) : ExplainedBy(paths, x, h, d)
    BY <2>3
  <2>5. h[1] \in Paths /\ h[2] \in S /\ Len(h[1]) \in Nat
    BY PathOfNames, PathIs DEF HeadsTyped
  <2>6. /\ d \in Seq(S) /\ d \in Paths /\ d # <<>> /\ Len(d) \in Nat /\ Len(d) # 0
        /\ DOMAIN d = 1 .. Len(d)
    BY <2>5, ChainIs
  <2>7. /\ paths[x] = h[1] \o d /\ Last(d) = x /\ Len(paths[x]) = Len(h[1]) + Len(d)
        /\ paths[x] \in Paths
        /\ \A k \in DOMAIN d : d[k] \in DOMAIN paths /\ Len(paths[d[k]]) <= Len(h[1]) + k
    BY <2>4, <2>5, <2>6, LastConcat DEF ExplainedBy
  <2>8. Len(new[y]) = (Len(h[1]) + Len(d)) + 1
    BY <2>1, <2>2, <2>7, AppendPathIs
  <2>9. ASSUME NEW k \in DOMAIN d, d[k] = y PROVE FALSE
    <3>1. /\ y \in DOMAIN paths /\ Len(paths[y]) <= Len(h[1]) + k /\ k <= Len(d) /\ k \in Nat
          /\ Prefer(new[y], paths[y])
      BY <2>1, <2>6, <2>7, <2>9
    <3>2. paths[y] \in Paths /\ new[y] \in Paths
      BY <3>1, TypedIs
    <3>3. Len(new[y]) <= Len(paths[y]) /\ Len(paths[y]) \in Nat
      BY <3>1, <3>2, NoWorseShort, PathIs DEF NoWorse
    <3> QED BY <2>5, <2>6, <2>8, <3>1, <3>3
  <2>10. y \notin ToSet(d)
    BY <2>6, <2>9, SetOfSeq
  <2> DEFINE f == Append(d, y)
  <2>11. f \in Chains(rel, h[2], S)
    BY <2>2, <2>5, <2>7, <2>10, ChainsExtend
  <2>12. new[y] = h[1] \o f
    <3> DEFINE g == h[1]
    <3>1. g \in Paths /\ paths[x] = g \o d
      BY <2>5, <2>7
    <3> HIDE DEF g
    <3>2. Append(g \o d, y) = g \o Append(d, y)
      BY <2>2, <2>6, <3>1, ConcatAppend
    <3> QED BY <2>1, <3>1, <3>2 DEF g
  <2>13. /\ Len(f) = Len(d) + 1 /\ DOMAIN f = 1 .. Len(d) + 1
         /\ \A i \in 1 .. Len(d) : f[i] = d[i]
         /\ f[Len(d) + 1] = y
         /\ Last(f) = y
    BY <2>2, <2>6, AppendPathIs, LastIs
  <2> HIDE DEF f
  <2>14. \A k \in DOMAIN d : d[k] \in DOMAIN new /\ Len(new[d[k]]) <= Len(h[1]) + k
    BY <2>5, <2>6, <2>7, StaysExplained
  <2>15. ASSUME NEW k \in DOMAIN f
         PROVE  f[k] \in DOMAIN new /\ Len(new[f[k]]) <= Len(h[1]) + k
    <3>1. CASE k \in 1 .. Len(d)
      BY <2>6, <2>13, <2>14, <3>1
    <3>2. CASE k = Len(d) + 1
      <4>1. f[k] = y /\ y \in DOMAIN new
        BY <2>13, <3>2
      <4>2. Len(new[y]) <= Len(h[1]) + k
        <5> DEFINE a == Len(new[y])
                   b == Len(h[1])
                   c == Len(d)
        <5>1. a = (b + c) + 1 /\ b \in Nat /\ c \in Nat /\ k = c + 1
          BY <2>5, <2>6, <2>8, <3>2
        <5> HIDE DEF a, b, c
        <5>2. a <= b + k
          BY <5>1
        <5> QED BY <5>2 DEF a, b
      <4> QED BY <4>1, <4>2
    <3> QED BY <2>6, <2>13, <3>1, <3>2
  <2>16. ExplainedBy(new, y, h, f)
    BY <2>12, <2>13, <2>15 DEF ExplainedBy
  <2> QED BY <2>11, <2>16
<1> QED BY <1>1, <1>2

LEMMA SearchKeeps ==
  ASSUME NEW S \in SUBSET Names, NEW paths, Typed(paths, S),
         NEW todo \in Seq(DOMAIN paths), todo # <<>>,
         NEW rel \in SUBSET (S \X S), NEW heads, HeadsTyped(heads, S),
         Search(paths, heads, rel, S, todo),
         NEW new, NEW next, Typed(new, S),
         Visit(paths, Users(rel, Head(todo)), todo, new, next)
  PROVE  Search(new, heads, rel, S, next)
<1> DEFINE x     == Head(todo)
           users == Users(rel, x)
           I     == Improved(paths, users, x)
<1>1. users \in SUBSET S
  BY DEF Users
<1>2. Visited(paths, x, users, I, todo, new, next)
  BY <1>1, VisitIs
<1>3. \A e \in rel : e[2] = x => e[1] \in users
  BY DEF Users
<1> HIDE DEF x, I
<1>4. ASSUME NEW u \in DOMAIN paths PROVE u \in DOMAIN new /\ NoWorse(new[u], paths[u])
  BY <1>2 DEF Visited, NoWorse
<1>5. Explained(new, heads, rel, S)
  BY <1>2, <1>4, VisitExplains DEF Search
<1> HIDE DEF users
<1>6. Seeded(new, heads)
  <2> SUFFICES ASSUME NEW h \in heads
               PROVE  h[2] \in DOMAIN new /\ NoWorse(new[h[2]], Append(h[1], h[2]))
    BY DEF Seeded
  <2>1. h[2] \in DOMAIN paths /\ NoWorse(paths[h[2]], Append(h[1], h[2]))
    BY DEF Search, Seeded
  <2>2. h[2] \in DOMAIN new /\ NoWorse(new[h[2]], paths[h[2]])
    BY <1>4, <2>1
  <2>3. h[1] \in Paths /\ h[2] \in Nat
    BY <2>1, PathOfNames, TypedIs DEF HeadsTyped
  <2>4. Append(h[1], h[2]) \in Paths
    BY <2>3, AppendPathIs
  <2>5. new[h[2]] \in Paths /\ paths[h[2]] \in Paths
    BY <2>1, <2>2, TypedIs
  <2> QED BY <2>1, <2>2, <2>4, <2>5, NoWorseTransitive
<1>7. Relaxed(new, rel, next)
  <2> SUFFICES ASSUME NEW e \in rel, e[2] \in DOMAIN new, e[2] \notin ToSet(next)
               PROVE  e[1] \in DOMAIN new /\ NoWorse(new[e[1]], Append(new[e[2]], e[1]))
    BY DEF Relaxed
  <2> DEFINE u == e[1]
             y == e[2]
  <2>1. y \in DOMAIN paths /\ y \notin I /\ new[y] = paths[y] /\ u \in S
    BY <1>2 DEF Visited
  <2>2. u \in Nat /\ new[y] \in Paths
    BY <2>1, NamesFinite, TypedIs
  <2>3. Append(new[y], u) \in Paths
    BY <2>2, AppendPathIs
  <2> HIDE DEF u, y
  <2>4. CASE y = x
    <3>1. u \in users
      BY <1>3, <2>4 DEF u, y
    <3>2. CASE u \in I
      <4>1. u \in DOMAIN new /\ new[u] = Append(paths[x], u)
        BY <1>2, <3>1, <3>2 DEF Visited
      <4> QED BY <2>1, <2>4, <4>1 DEF NoWorse, u, y
    <3>3. CASE u \notin I
      <4>1. /\ u \in DOMAIN paths /\ u \in DOMAIN new /\ new[u] = paths[u]
            /\ ~Prefer(Append(paths[x], u), paths[u])
        BY <1>2, <3>1, <3>3 DEF Visited
      <4>2. paths[u] \in Paths
        BY <4>1, TypedIs
      <4>3. NoWorse(paths[u], Append(new[y], u))
        BY <2>1, <2>3, <2>4, <4>1, <4>2, NoWorseTotal
      <4> QED BY <4>1, <4>3 DEF u, y
    <3> QED BY <3>2, <3>3
  <2>5. CASE y # x
    <3>1. y \notin ToSet(todo)
      BY <1>2, <2>5 DEF Visited, y
    <3>2. u \in DOMAIN paths /\ NoWorse(paths[u], Append(paths[y], u))
      BY <2>1, <3>1 DEF Search, Relaxed, u, y
    <3>3. u \in DOMAIN new /\ NoWorse(new[u], paths[u])
      BY <1>4, <3>2
    <3>4. new[u] \in Paths /\ paths[u] \in Paths
      BY <3>2, <3>3, TypedIs
    <3>5. NoWorse(new[u], Append(new[y], u))
      BY <2>1, <2>3, <3>2, <3>3, <3>4, NoWorseTransitive
    <3> QED BY <3>3, <3>5 DEF u, y
  <2> QED BY <2>4, <2>5
<1> QED BY <1>5, <1>6, <1>7 DEF Search

-----------------------------------------------------------------------------
(* What a search has found *)

Explanations(heads, rel, S) == UNION {{h[1] \o d : d \in Chains(rel, h[2], S)} : h \in heads}

LEMMA ExplanationIs ==
  ASSUME NEW heads, NEW rel, NEW S, NEW c \in Explanations(heads, rel, S)
  PROVE  \E h \in heads : \E d \in Chains(rel, h[2], S) : c = h[1] \o d
BY DEF Explanations

(* Nothing is worse by way of any chain. *)
LEMMA SearchOptimal ==
  ASSUME NEW S \in SUBSET Names, NEW paths, Typed(paths, S),
         NEW rel \in SUBSET (S \X S), NEW heads, HeadsTyped(heads, S),
         Search(paths, heads, rel, S, <<>>),
         NEW h \in heads, NEW d \in Chains(rel, h[2], S)
  PROVE  Last(d) \in DOMAIN paths /\ NoWorse(paths[Last(d)], h[1] \o d)
<1> DEFINE C == Chains(rel, h[2], S)
           T == {c \in C : Last(c) \in DOMAIN paths /\ NoWorse(paths[Last(c)], h[1] \o c)}
<1>1. h[1] \in Paths /\ h[2] \in S /\ h[2] \in Nat
  BY PathOfNames, NamesFinite DEF HeadsTyped
<1>2. <<h[2]>> \in T
  <2>1. <<h[2]>> \in C /\ Last(<<h[2]>>) = h[2]
    BY <1>1, ChainsBegin DEF Last
  <2>2. Append(h[1], h[2]) = h[1] \o <<h[2]>>
    BY <1>1, AppendIsConcat DEF Paths
  <2>3. h[2] \in DOMAIN paths /\ NoWorse(paths[h[2]], Append(h[1], h[2]))
    BY DEF Search, Seeded
  <2> QED BY <2>1, <2>2, <2>3
<1>3. ToSet(<<>>) = {}
  BY DEF ToSet
<1>4. ASSUME NEW c \in T, NEW x \in S, x \notin ToSet(c), <<x, Last(c)>> \in rel
      PROVE  Append(c, x) \in T
  <2> DEFINE y == Last(c)
             b == Append(c, x)
  <2>1. c \in C /\ y \in DOMAIN paths /\ NoWorse(paths[y], h[1] \o c)
    OBVIOUS
  <2>2. x \in DOMAIN paths /\ NoWorse(paths[x], Append(paths[y], x))
    BY <1>3, <1>4, <2>1 DEF Search, Relaxed
  <2>3. x \in Nat /\ paths[x] \in Paths /\ paths[y] \in Paths
    BY <2>1, <2>2, TypedIs
  <2>4. c \in Paths /\ c # <<>>
    BY <1>1, <2>1, ChainIs
  <2>5. h[1] \o c \in Paths
    BY <1>1, <2>4, LastConcat
  <2>6. NoWorse(Append(paths[y], x), Append(h[1] \o c, x))
    BY <2>1, <2>3, <2>5, NoWorseAppend
  <2>7. Append(paths[y], x) \in Paths /\ Append(h[1] \o c, x) \in Paths
    BY <2>3, <2>5, AppendPathIs
  <2>8. NoWorse(paths[x], Append(h[1] \o c, x))
    BY <2>2, <2>3, <2>6, <2>7, NoWorseTransitive
  <2>9. Append(h[1] \o c, x) = h[1] \o b
    BY <1>1, <2>3, <2>4, ConcatAppend
  <2>10. Last(b) = x
    BY <2>3, <2>4, LastIs
  <2>11. b \in C
    BY <1>1, <1>4, <2>1, ChainsExtend
  <2> HIDE DEF b
  <2>12. b \in T
    BY <2>2, <2>8, <2>9, <2>10, <2>11
  <2> QED BY <2>12 DEF b
<1>5. C \subseteq T
  <2> HIDE DEF T
  <2>1. ExtensionClosed(T, rel, S)
    BY <1>4 DEF ExtensionClosed
  <2> QED BY <1>1, <1>2, <2>1, ChainsInside
<1> QED BY <1>5

(* When nothing is left to visit, the paths are the best of all chains.    *)
LEMMA SearchBest ==
  ASSUME NEW S \in SUBSET Names, NEW paths, Typed(paths, S),
         NEW rel \in SUBSET (S \X S), NEW heads, HeadsTyped(heads, S),
         Search(paths, heads, rel, S, <<>>)
  PROVE  BestOf(paths, Explanations(heads, rel, S))
<1> DEFINE E == Explanations(heads, rel, S)
<1>1. ASSUME NEW c \in E
      PROVE  /\ Last(c) \in DOMAIN paths
             /\ c = paths[Last(c)] \/ Prefer(paths[Last(c)], c)
  <2>1. PICK h \in heads : \E d \in Chains(rel, h[2], S) : c = h[1] \o d
    BY <1>1, ExplanationIs
  <2>2. PICK d \in Chains(rel, h[2], S) : c = h[1] \o d
    BY <2>1
  <2>3. h[1] \in Paths /\ h[2] \in S
    BY PathOfNames DEF HeadsTyped
  <2>4. d \in Paths /\ d # <<>>
    BY <2>3, ChainIs
  <2>5. Last(c) = Last(d)
    BY <2>2, <2>3, <2>4, LastConcat
  <2>6. Last(d) \in DOMAIN paths /\ NoWorse(paths[Last(d)], h[1] \o d)
    BY SearchOptimal
  <2> QED BY <2>2, <2>5, <2>6 DEF NoWorse
<1>2. ASSUME NEW x \in DOMAIN paths PROVE paths[x] \in E /\ Last(paths[x]) = x
  <2>1. PICK h \in heads : \E d \in Chains(rel, h[2], S) : ExplainedBy(paths, x, h, d)
    BY DEF Search, Explained
  <2>2. PICK d \in Chains(rel, h[2], S) : ExplainedBy(paths, x, h, d)
    BY <2>1
  <2>3. h[1] \in Paths /\ h[2] \in S
    BY PathOfNames DEF HeadsTyped
  <2>4. d \in Paths /\ d # <<>>
    BY <2>3, ChainIs
  <2>5. paths[x] = h[1] \o d /\ Last(d) = x /\ Last(h[1] \o d) = Last(d)
    BY <2>2, <2>3, <2>4, LastConcat DEF ExplainedBy
  <2>6. paths[x] \in {h[1] \o f : f \in Chains(rel, h[2], S)}
    BY <2>5
  <2>7. paths[x] \in E
    BY <2>6 DEF Explanations
  <2> QED BY <2>5, <2>7
<1> HIDE DEF E
<1> QED BY <1>1, <1>2 DEF BestOf, E

-----------------------------------------------------------------------------
(* Where the searches start *)

(* Every path is a head and its name. *)
Grounded(paths, heads) ==
  \A x \in DOMAIN paths : \E h \in heads : h[2] = x /\ paths[x] = Append(h[1], x)

LEMMA SearchStarts ==
  ASSUME NEW S \in SUBSET Names, NEW paths, Typed(paths, S),
         NEW heads, HeadsTyped(heads, S), Grounded(paths, heads), Seeded(paths, heads),
         NEW rel, NEW todo, DOMAIN paths \subseteq ToSet(todo)
  PROVE  Search(paths, heads, rel, S, todo)
<1>1. Explained(paths, heads, rel, S)
  <2> SUFFICES ASSUME NEW x \in DOMAIN paths
               PROVE  \E h \in heads : \E d \in Chains(rel, h[2], S) : ExplainedBy(paths, x, h, d)
    BY DEF Explained
  <2>1. PICK h \in heads : h[2] = x /\ paths[x] = Append(h[1], x)
    BY DEF Grounded
  <2>2. h[1] \in Paths /\ x \in S /\ x \in Nat
    BY <2>1, PathOfNames, NamesFinite DEF HeadsTyped
  <2> DEFINE d == <<x>>
  <2>3. d \in Chains(rel, h[2], S)
    BY <2>1, <2>2, ChainsBegin
  <2>4. paths[x] = h[1] \o d
    BY <2>1, <2>2, AppendIsConcat DEF Paths
  <2>5. Last(d) = x /\ DOMAIN d = {1} /\ d[1] = x
    BY DEF Last
  <2>6. Len(paths[x]) = Len(h[1]) + 1
    BY <2>1, <2>2, AppendPathIs
  <2> HIDE DEF d
  <2>7. Len(paths[x]) <= Len(h[1]) + 1
    <3> DEFINE a == Len(paths[x])
               b == Len(h[1])
    <3>1. a = b + 1 /\ b \in Nat
      BY <2>2, <2>6, PathIs
    <3> HIDE DEF a, b
    <3>2. a <= b + 1
      BY <3>1
    <3> QED BY <3>2 DEF a, b
  <2>8. ExplainedBy(paths, x, h, d)
    BY <2>4, <2>5, <2>7 DEF ExplainedBy
  <2> QED BY <2>3, <2>8
<1>2. Relaxed(paths, rel, todo)
  BY DEF Relaxed
<1> QED BY <1>1, <1>2 DEF Search

(* What an explanation says before it comes to packages: the changed       *)
(* artifact alone, or its owner and the artifacts that depend on it.       *)
HeadOf(c) == IF Len(c) = 1 THEN <<changed>> ELSE <<changed, Owner(changed)>> \o Tail(c)

ArtifactChains == Chains(Dependence(inst), changed, Artifacts)

ArtifactHeads == {<< <<>>, changed >>}
CurrentHeads == {<<HeadOf(c), Owner(Last(c))>> : c \in ArtifactChains}
OlderHeads == {<< <<changed, Owner(changed), a>>, Owner(a) >> : a \in OlderVersions}

LEMMA RelationsTyped ==
  ASSUME Settled
  PROVE  /\ Dependence(inst) \in SUBSET (Artifacts \X Artifacts)
         /\ Edges(inst).package \in SUBSET (Packages \X Packages)
         /\ \A e \in Dependence(inst) : e[1] \in inst.loaded
BY DEF Settled, Instance, Dependence, Edges

LEMMA ArtifactChainIs ==
  ASSUME Settled, NEW c \in ArtifactChains
  PROVE  /\ c \in Seq(Artifacts) /\ c \in Seq(Names) /\ c \in Paths /\ c # <<>>
         /\ Len(c) \in Nat /\ c[1] = changed
         /\ Last(c) \in Artifacts /\ (Last(c) = changed <=> Len(c) = 1)
<1>1. Artifacts \in SUBSET Names /\ changed \in Artifacts
  BY Kinds DEF Settled
<1>2. c \in Seq(Artifacts) /\ c # <<>> /\ IsInjective(c) /\ c[1] = changed
  BY <1>1, ChainsTyped DEF ArtifactChains, IsChain
<1>3. c \in Paths /\ c \in Seq(Names)
  BY <1>1, <1>2, NameSeq, SeqMonotonic
<1>4. Len(c) \in Nat /\ Len(c) # 0 /\ DOMAIN c = 1 .. Len(c)
  BY <1>2, EmptySeq, LenProperties
<1>5. 1 \in DOMAIN c /\ Len(c) \in DOMAIN c /\ Last(c) = c[Len(c)]
  BY <1>4 DEF Last
<1>6. Last(c) \in Artifacts
  BY <1>2, <1>4, <1>5, ElementOfSeq
<1>7. Last(c) = changed <=> Len(c) = 1
  BY <1>2, <1>5 DEF IsInjective
<1> QED BY <1>2, <1>3, <1>4, <1>6, <1>7

LEMMA HeadOfIs ==
  ASSUME Settled, NEW c \in ArtifactChains
  PROVE  HeadOf(c) \in Seq(Names) /\ Owner(Last(c)) \in Packages
<1>1. /\ c \in Seq(Names) /\ c # <<>> /\ Last(c) \in Artifacts
  BY ArtifactChainIs
<1>2. Owner(Last(c)) \in Packages /\ Owner(changed) \in Names /\ changed \in Names
  BY <1>1, Kinds DEF Settled, Owner, Instance
<1> DEFINE rest   == Tail(c)
           prefix == <<changed, Owner(changed)>>
<1>3. rest \in Seq(Names)
  BY <1>1, HeadTailProperties
<1>4. prefix \in Seq(Names) /\ <<changed>> \in Seq(Names)
  BY <1>2
<1>5. HeadOf(c) = IF Len(c) = 1 THEN <<changed>> ELSE prefix \o rest
  BY DEF HeadOf
<1> HIDE DEF rest, prefix
<1>6. prefix \o rest \in Seq(Names)
  BY <1>3, <1>4, ConcatProperties
<1> QED BY <1>2, <1>4, <1>5, <1>6

LEMMA HeadsAreTyped ==
  ASSUME Settled
  PROVE  /\ HeadsTyped(ArtifactHeads, Artifacts)
         /\ HeadsTyped(CurrentHeads, Packages)
         /\ HeadsTyped(OlderHeads, Packages)
<1>1. HeadsTyped(ArtifactHeads, Artifacts)
  <2>1. ASSUME NEW h \in ArtifactHeads PROVE h[1] = <<>> /\ h[2] = changed
    BY DEF ArtifactHeads
  <2>2. <<>> \in Seq(Names) /\ changed \in Artifacts
    BY DEF Settled
  <2> QED BY <2>1, <2>2 DEF HeadsTyped
<1>2. HeadsTyped(CurrentHeads, Packages)
  <2>1. ASSUME NEW h \in CurrentHeads PROVE h[1] \in Seq(Names) /\ h[2] \in Packages
    <3>1. PICK c \in ArtifactChains : h = <<HeadOf(c), Owner(Last(c))>>
      BY DEF CurrentHeads
    <3>2. HeadOf(c) \in Seq(Names) /\ Owner(Last(c)) \in Packages
      BY HeadOfIs
    <3> QED BY <3>1, <3>2
  <2> QED BY <2>1 DEF HeadsTyped
<1>3. HeadsTyped(OlderHeads, Packages)
  <2>1. ASSUME NEW h \in OlderHeads PROVE h[1] \in Seq(Names) /\ h[2] \in Packages
    <3>1. PICK a \in OlderVersions : h = << <<changed, Owner(changed), a>>, Owner(a) >>
      BY DEF OlderHeads
    <3>2. /\ a \in Artifacts /\ Owner(a) \in Packages /\ Owner(changed) \in Packages
          /\ changed \in Artifacts
      BY OlderPathIs DEF Settled
    <3>3. a \in Names /\ Owner(changed) \in Names /\ changed \in Names
      BY <3>2, Kinds
    <3>4. <<changed, Owner(changed), a>> \in Seq(Names)
      BY <3>3
    <3> QED BY <3>1, <3>2, <3>4
  <2> QED BY <2>1 DEF HeadsTyped
<1> QED BY <1>1, <1>2, <1>3

(* The search of artifacts starts with the changed one. *)
LEMMA ArtifactSearchStarts ==
  ASSUME Settled, NEW paths, Typed(paths, Artifacts), paths = [a \in {changed} |-> <<changed>>]
  PROVE  Search(paths, ArtifactHeads, Dependence(inst), Artifacts, <<changed>>)
<1>1. DOMAIN paths = {changed} /\ paths[changed] = <<changed>>
  OBVIOUS
<1>2. Append(<<>>, changed) = <<changed>>
  OBVIOUS
<1>3. Grounded(paths, ArtifactHeads) /\ Seeded(paths, ArtifactHeads)
  BY <1>1, <1>2 DEF Grounded, Seeded, ArtifactHeads, NoWorse
<1>4. DOMAIN paths \subseteq ToSet(<<changed>>)
  <2>1. DOMAIN <<changed>> = {1} /\ <<changed>>[1] = changed
    OBVIOUS
  <2> QED BY <1>1, <2>1 DEF ToSet
<1> QED BY <1>3, <1>4, Kinds, HeadsAreTyped, SearchStarts

(* A path that is found to an artifact is a chain, no worse than another.  *)
LEMMA ArtifactPathIs ==
  ASSUME Settled, Typed(artifacts, Artifacts),
         Search(artifacts, ArtifactHeads, Dependence(inst), Artifacts, <<>>)
  PROVE  /\ \A a \in DOMAIN artifacts : artifacts[a] \in ArtifactChains /\ Last(artifacts[a]) = a
         /\ \A c \in ArtifactChains : /\ Last(c) \in DOMAIN artifacts
                                      /\ NoWorse(artifacts[Last(c)], c)
<1>1. /\ Artifacts \in SUBSET Names /\ changed \in Artifacts
      /\ Dependence(inst) \in SUBSET (Artifacts \X Artifacts)
  BY Kinds, RelationsTyped DEF Settled
<1> DEFINE h == << <<>>, changed >>
<1>2. h \in ArtifactHeads /\ h[1] = <<>> /\ h[2] = changed /\ \A g \in ArtifactHeads : g = h
  BY DEF ArtifactHeads
<1>3. ASSUME NEW c \in ArtifactChains PROVE <<>> \o c = c
  <2>1. c \in Seq(Names)
    BY ArtifactChainIs
  <2> QED BY <2>1, ConcatEmptySeq
<1> HIDE DEF h
<1>4. ASSUME NEW a \in DOMAIN artifacts
      PROVE  artifacts[a] \in ArtifactChains /\ Last(artifacts[a]) = a
  <2>1. PICK g \in ArtifactHeads : \E d \in Chains(Dependence(inst), g[2], Artifacts) :
          ExplainedBy(artifacts, a, g, d)
    BY DEF Search, Explained
  <2>2. PICK d \in Chains(Dependence(inst), g[2], Artifacts) : ExplainedBy(artifacts, a, g, d)
    BY <2>1
  <2>3. d \in ArtifactChains /\ artifacts[a] = <<>> \o d /\ Last(d) = a
    BY <1>2, <2>2 DEF ExplainedBy, ArtifactChains
  <2>4. artifacts[a] = d
    BY <1>3, <2>3
  <2> QED BY <2>3, <2>4
<1>5. ASSUME NEW c \in ArtifactChains
      PROVE  Last(c) \in DOMAIN artifacts /\ NoWorse(artifacts[Last(c)], c)
  <2>1. HeadsTyped(ArtifactHeads, Artifacts)
    BY HeadsAreTyped
  <2>2. c \in Chains(Dependence(inst), h[2], Artifacts)
    BY <1>2 DEF ArtifactChains
  <2>3. Last(c) \in DOMAIN artifacts /\ NoWorse(artifacts[Last(c)], h[1] \o c)
    BY <1>1, <1>2, <2>1, <2>2, SearchOptimal
  <2>4. h[1] \o c = c
    BY <1>2, <1>3
  <2> QED BY <2>3, <2>4
<1> QED BY <1>4, <1>5

LEMMA AppendOne == ASSUME NEW x, NEW y PROVE Append(<<x>>, y) = <<x, y>>
<1> DEFINE S == {x, y}
           s == <<x>>
           t == <<x, y>>
<1>1. s \in Seq(S) /\ t \in Seq(S) /\ Len(s) = 1 /\ Len(t) = 2 /\ y \in S
      /\ s[1] = x /\ t[1] = x /\ t[2] = y
  OBVIOUS
<1> HIDE DEF s, t, S
<1> DEFINE a == Append(s, y)
<1>2. /\ a \in Seq(S) /\ Len(a) = Len(s) + 1
      /\ \A i \in 1 .. Len(s) : a[i] = s[i]
      /\ a[Len(s) + 1] = y
  <2>1. s \in Seq(S) /\ y \in S
    BY <1>1
  <2> QED BY <2>1, AppendProperties
<1> HIDE DEF a
<1>3. \A i \in 1 .. 2 : a[i] = t[i]
  BY <1>1, <1>2
<1>4. a = t
  BY <1>1, <1>2, <1>3, SeqEqual
<1> QED BY <1>4 DEF a, s, t

(* Where the package search starts from: the path to an artifact as a head. *)
LEMMA SeedPathHead ==
  ASSUME Settled, Typed(artifacts, Artifacts),
         NEW a \in DOMAIN artifacts, artifacts[a] \in ArtifactChains, Last(artifacts[a]) = a
  PROVE  SeedPath(a) = Append(HeadOf(artifacts[a]), Owner(a))
<1> DEFINE c      == artifacts[a]
           prefix == <<changed, Owner(changed)>>
           rest   == Tail(c)
<1>1. /\ c \in Seq(Names) /\ c # <<>> /\ (a = changed <=> Len(c) = 1)
      /\ rest \in Seq(Names)
  BY ArtifactChainIs, HeadTailProperties
<1>2. /\ SeedPath(a) = IF a = changed THEN prefix ELSE prefix \o rest \o <<Owner(a)>>
      /\ HeadOf(c) = IF Len(c) = 1 THEN <<changed>> ELSE prefix \o rest
  BY DEF SeedPath, HeadOf
<1>3. CASE a = changed
  <2>1. Append(<<changed>>, Owner(changed)) = prefix
    <3> DEFINE p == Owner(changed)
    <3> HIDE DEF p
    <3>1. Append(<<changed>>, p) = <<changed, p>>
      BY AppendOne
    <3> QED BY <3>1 DEF p
  <2> HIDE DEF c, prefix, rest
  <2>2. HeadOf(c) = <<changed>> /\ SeedPath(a) = prefix
    BY <1>1, <1>2, <1>3
  <2> QED BY <1>3, <2>1, <2>2 DEF c
<1>4. CASE a # changed
  <2>1. Owner(changed) \in Names /\ changed \in Names /\ Owner(a) \in Names
    BY Kinds DEF Settled, Typed, Owner, Instance
  <2>2. prefix \in Seq(Names)
    BY <2>1
  <2> HIDE DEF c, prefix, rest
  <2>3. HeadOf(c) = prefix \o rest /\ SeedPath(a) = prefix \o rest \o <<Owner(a)>>
    BY <1>1, <1>2, <1>4
  <2> DEFINE front == prefix \o rest
  <2>4. front \in Seq(Names)
    BY <1>1, <2>2, ConcatProperties
  <2> HIDE DEF front
  <2>5. Append(front, Owner(a)) = front \o <<Owner(a)>>
    BY <2>1, <2>4, AppendIsConcat
  <2> QED BY <2>3, <2>5 DEF front, c
<1> QED BY <1>3, <1>4

(* Of two chains to the same artifact, the one that is no worse leads to a *)
(* head that is no worse.                                                  *)
LEMMA HeadNoWorse ==
  ASSUME Settled, NEW b \in ArtifactChains, NEW c \in ArtifactChains,
         Last(b) = Last(c), NoWorse(b, c)
  PROVE  NoWorse(HeadOf(b), HeadOf(c))
<1> DEFINE prefix == <<changed, Owner(changed)>>
<1>1. /\ b \in Paths /\ b # <<>> /\ b[1] = changed /\ (Last(b) = changed <=> Len(b) = 1)
      /\ c \in Paths /\ c # <<>> /\ c[1] = changed /\ (Last(c) = changed <=> Len(c) = 1)
  BY ArtifactChainIs
<1>2. CASE Last(c) = changed
  BY <1>1, <1>2 DEF HeadOf, NoWorse
<1>3. CASE Last(c) # changed
  <2>1. HeadOf(b) = prefix \o Tail(b) /\ HeadOf(c) = prefix \o Tail(c)
    BY <1>1, <1>3 DEF HeadOf
  <2>2. Owner(changed) \in Names /\ changed \in Names
    BY Kinds DEF Settled, Owner, Instance
  <2>3. prefix \in Paths
    <3>1. prefix \in Seq(Names)
      BY <2>2
    <3> QED BY <3>1, PathOfNames
  <2> HIDE DEF prefix
  <2>4. b[1] = c[1]
    BY <1>1
  <2>5. NoWorse(prefix \o Tail(b), prefix \o Tail(c))
    BY <1>1, <2>3, <2>4, NoWorseHead
  <2> QED BY <2>1, <2>5
<1> QED BY <1>2, <1>3

(* The search of packages starts with the best of what leads to owners.    *)
LEMMA CurrentSearchStarts ==
  ASSUME Settled, Typed(artifacts, Artifacts), DOMAIN artifacts \subseteq inst.loaded,
         Search(artifacts, ArtifactHeads, Dependence(inst), Artifacts, <<>>)
  PROVE  Search(CurrentSeeds, CurrentHeads, Edges(inst).package, Packages,
                Sorted(DOMAIN CurrentSeeds))
<1> DEFINE seeds    == CurrentSeeds
           found(p) == {SeedPath(a) : a \in {b \in DOMAIN artifacts : Owner(b) = p}}
<1>1. /\ Typed(seeds, Packages)
      /\ DOMAIN seeds = {Owner(a) : a \in DOMAIN artifacts} \cap inst.loaded
      /\ \A p \in DOMAIN seeds : Best(seeds[p], found(p))
  BY CurrentSeedsAre
<1>2. /\ \A a \in DOMAIN artifacts : artifacts[a] \in ArtifactChains /\ Last(artifacts[a]) = a
      /\ \A c \in ArtifactChains : /\ Last(c) \in DOMAIN artifacts
                                   /\ NoWorse(artifacts[Last(c)], c)
  BY ArtifactPathIs
<1>3. ASSUME NEW a \in DOMAIN artifacts
      PROVE  SeedPath(a) = Append(HeadOf(artifacts[a]), Owner(a))
  BY <1>2, SeedPathHead
<1> HIDE DEF seeds
<1>4. Grounded(seeds, CurrentHeads)
  <2> SUFFICES ASSUME NEW p \in DOMAIN seeds
               PROVE  \E h \in CurrentHeads : h[2] = p /\ seeds[p] = Append(h[1], p)
    BY DEF Grounded
  <2>1. PICK a \in DOMAIN artifacts : Owner(a) = p /\ seeds[p] = SeedPath(a)
    BY <1>1 DEF Best
  <2> DEFINE h == <<HeadOf(artifacts[a]), Owner(Last(artifacts[a]))>>
  <2>2. h \in CurrentHeads
    BY <1>2 DEF CurrentHeads
  <2>3. h[2] = p /\ h[1] = HeadOf(artifacts[a])
    BY <1>2, <2>1
  <2>4. seeds[p] = Append(h[1], p)
    BY <1>3, <2>1, <2>3
  <2> HIDE DEF h
  <2> QED BY <2>2, <2>3, <2>4
<1>5. Seeded(seeds, CurrentHeads)
  <2> SUFFICES ASSUME NEW h \in CurrentHeads
               PROVE  h[2] \in DOMAIN seeds /\ NoWorse(seeds[h[2]], Append(h[1], h[2]))
    BY DEF Seeded
  <2>1. PICK c \in ArtifactChains : h = <<HeadOf(c), Owner(Last(c))>>
    BY DEF CurrentHeads
  <2> DEFINE a == Last(c)
             p == Owner(a)
             b == artifacts[a]
  <2>2. /\ a \in DOMAIN artifacts /\ NoWorse(b, c)
        /\ b \in ArtifactChains /\ Last(b) = Last(c)
    BY <1>2
  <2>3. a \in Artifacts /\ a \in inst.loaded /\ p \in Packages /\ p \in Nat
    <3>1. a \in Artifacts /\ a \in inst.loaded
      BY <2>2 DEF Typed
    <3>2. p \in Packages
      BY HeadOfIs
    <3> QED BY <3>1, <3>2, Kinds, NamesFinite
  <2>4. p \in inst.loaded
    BY <2>3 DEF Settled, Instance, Owner
  <2>5. p \in DOMAIN seeds
    BY <1>1, <2>2, <2>4
  <2>6. SeedPath(a) \in found(p)
    BY <2>2
  <2>7. NoWorse(seeds[p], SeedPath(a))
    BY <1>1, <2>5, <2>6 DEF Best, NoWorse
  <2>8. SeedPath(a) = Append(HeadOf(b), p)
    BY <1>3, <2>2
  <2> HIDE DEF a, b, p
  <2>9. HeadOf(b) \in Paths /\ HeadOf(c) \in Paths
    BY <2>2, HeadOfIs, PathOfNames
  <2>10. NoWorse(HeadOf(b), HeadOf(c))
    BY <2>2, HeadNoWorse
  <2>11. NoWorse(Append(HeadOf(b), p), Append(HeadOf(c), p))
    BY <2>3, <2>9, <2>10, NoWorseAppend
  <2>12. Append(HeadOf(b), p) \in Paths /\ Append(HeadOf(c), p) \in Paths
    BY <2>3, <2>9, AppendPathIs
  <2>13. seeds[p] \in Paths
    BY <1>1, <2>5, Kinds, TypedIs
  <2>14. NoWorse(seeds[p], Append(HeadOf(c), p))
    BY <2>7, <2>8, <2>11, <2>12, <2>13, NoWorseTransitive
  <2>15. h[1] = HeadOf(c) /\ h[2] = p
    BY <2>1 DEF p, a
  <2> QED BY <2>5, <2>14, <2>15
<1>6. DOMAIN seeds \subseteq ToSet(Sorted(DOMAIN seeds))
  <2>1. DOMAIN seeds \in SUBSET Names
    BY <1>1, Kinds DEF Typed
  <2> QED BY <2>1, NamesFinite, SortedIs
<1>7. Search(seeds, CurrentHeads, Edges(inst).package, Packages, Sorted(DOMAIN seeds))
  BY <1>1, <1>4, <1>5, <1>6, Kinds, HeadsAreTyped, SearchStarts
<1> QED BY <1>7 DEF seeds

LEMMA OlderSearchStarts ==
  ASSUME Settled
  PROVE  Search(OlderSeeds, OlderHeads, Edges(inst).package, Packages, Sorted(DOMAIN OlderSeeds))
<1> DEFINE seeds    == OlderSeeds
           found(p) == {OlderPath(a, p) : a \in {b \in OlderVersions : Owner(b) = p}}
<1>1. /\ Typed(seeds, Packages)
      /\ DOMAIN seeds = {Owner(a) : a \in OlderVersions}
      /\ \A p \in DOMAIN seeds : Best(seeds[p], found(p))
  BY OlderSeedsAre
<1>2. ASSUME NEW a \in OlderVersions, NEW p
      PROVE  OlderPath(a, p) = Append(<<changed, Owner(changed), a>>, p)
  BY DEF OlderPath
<1> HIDE DEF seeds
<1>3. Grounded(seeds, OlderHeads)
  <2> SUFFICES ASSUME NEW p \in DOMAIN seeds
               PROVE  \E h \in OlderHeads : h[2] = p /\ seeds[p] = Append(h[1], p)
    BY DEF Grounded
  <2>1. PICK a \in OlderVersions : Owner(a) = p /\ seeds[p] = OlderPath(a, p)
    BY <1>1 DEF Best
  <2> DEFINE front == <<changed, Owner(changed), a>>
             h     == <<front, Owner(a)>>
  <2>2. h \in OlderHeads
    BY DEF OlderHeads
  <2>3. seeds[p] = Append(front, p)
    BY <1>2, <2>1
  <2> HIDE DEF front
  <2>4. h[1] = front /\ h[2] = p
    BY <2>1
  <2> HIDE DEF h
  <2> QED BY <2>2, <2>3, <2>4
<1>4. Seeded(seeds, OlderHeads)
  <2> SUFFICES ASSUME NEW h \in OlderHeads
               PROVE  h[2] \in DOMAIN seeds /\ NoWorse(seeds[h[2]], Append(h[1], h[2]))
    BY DEF Seeded
  <2>1. PICK a \in OlderVersions : h = << <<changed, Owner(changed), a>>, Owner(a) >>
    BY DEF OlderHeads
  <2> DEFINE p     == Owner(a)
             front == <<changed, Owner(changed), a>>
  <2>2. p \in DOMAIN seeds /\ OlderPath(a, p) \in found(p)
    BY <1>1
  <2>3. NoWorse(seeds[p], OlderPath(a, p))
    BY <1>1, <2>2 DEF Best, NoWorse
  <2>4. OlderPath(a, p) = Append(front, p)
    BY <1>2
  <2>5. h = <<front, p>>
    BY <2>1
  <2> HIDE DEF front, p
  <2>6. h[1] = front /\ h[2] = p
    BY <2>5
  <2> QED BY <2>2, <2>3, <2>4, <2>6
<1>5. DOMAIN seeds \subseteq ToSet(Sorted(DOMAIN seeds))
  <2>1. DOMAIN seeds \in SUBSET Names
    BY <1>1, Kinds DEF Typed
  <2> QED BY <2>1, NamesFinite, SortedIs
<1>6. Search(seeds, OlderHeads, Edges(inst).package, Packages, Sorted(DOMAIN seeds))
  BY <1>1, <1>3, <1>4, <1>5, Kinds, HeadsAreTyped, SearchStarts
<1> QED BY <1>6 DEF seeds

-----------------------------------------------------------------------------
(* The paths are the best *)

ArtifactsBest ==
  pc \notin {"validate", "refused"} =>
    /\ DOMAIN artifacts \subseteq inst.loaded
    /\ Search(artifacts, ArtifactHeads, Dependence(inst), Artifacts, Todo("artifacts"))

CurrentBest ==
  pc \notin {"validate", "artifacts", "refused"} =>
    Search(current, CurrentHeads, Edges(inst).package, Packages, Todo("current"))

OlderBest ==
  pc \in {"older", "plan", "planned"} =>
    Search(older, OlderHeads, Edges(inst).package, Packages, Todo("older"))

BestInv == ArtifactsBest /\ CurrentBest /\ OlderBest

LEMMA HeadsStay ==
  ASSUME UNCHANGED <<inst, changed>>
  PROVE  ArtifactHeads' = ArtifactHeads /\ CurrentHeads' = CurrentHeads /\ OlderHeads' = OlderHeads
<1>1. \A a : Owner(a)' = Owner(a)
  BY DEF Owner
<1>2. \A c : HeadOf(c)' = HeadOf(c)
  BY <1>1 DEF HeadOf
<1>3. ArtifactChains' = ArtifactChains
  BY DEF ArtifactChains
<1>4. ArtifactHeads' = ArtifactHeads
  BY DEF ArtifactHeads
<1>5. CurrentHeads' = CurrentHeads
  BY <1>1, <1>2, <1>3 DEF CurrentHeads
<1>6. OlderVersions' = OlderVersions
  BY <1>1 DEF OlderVersions
<1>7. OlderHeads' = OlderHeads
  BY <1>1, <1>6 DEF OlderHeads
<1> QED BY <1>4, <1>5, <1>7

(* A search that is over stays as it is. *)
LEMMA ArtifactsStayBest ==
  ASSUME ArtifactsBest, UNCHANGED <<inst, changed, artifacts>>,
         Todo("artifacts")' = Todo("artifacts"),
         pc \notin {"validate", "refused"}
  PROVE  ArtifactsBest'
BY HeadsStay DEF ArtifactsBest

LEMMA CurrentStaysBest ==
  ASSUME CurrentBest, UNCHANGED <<inst, changed, current>>, Todo("current")' = Todo("current"),
         pc \notin {"validate", "artifacts", "refused"}
  PROVE  CurrentBest'
BY HeadsStay DEF CurrentBest

LEMMA OlderStaysBest ==
  ASSUME OlderBest, UNCHANGED <<inst, changed, older>>, Todo("older")' = Todo("older"),
         pc \in {"older", "plan", "planned"}
  PROVE  OlderBest'
BY HeadsStay DEF OlderBest

LEMMA BestInit == Init => BestInv
BY DEF Init, BestInv, ArtifactsBest, CurrentBest, OlderBest

LEMMA BestValidate == PlanInv /\ PlanInv' /\ BestInv /\ Validate => BestInv'
<1> SUFFICES ASSUME PlanInv, PlanInv', Validate PROVE BestInv'
  OBVIOUS
<1>1. Settled /\ UNCHANGED <<inst, changed>>
  BY PlanInvSettled DEF Validate
<1>2. CASE Valid(inst) /\ changed \in inst.loaded
  <2>1. /\ pc' = "artifacts" /\ artifacts' = [a \in {changed} |-> <<changed>>]
        /\ queue' = <<changed>>
    BY <1>2 DEF Validate, Goto
  <2>2. Typed(artifacts', Artifacts)
    BY DEF PlanInv, PlanTypes
  <2>3. Search(artifacts', ArtifactHeads, Dependence(inst), Artifacts, queue')
    BY <1>1, <2>1, <2>2, ArtifactSearchStarts
  <2>4. DOMAIN artifacts' \subseteq inst'.loaded
    BY <1>1, <1>2, <2>1
  <2>5. ArtifactsBest'
    BY <1>1, <2>1, <2>3, <2>4, HeadsStay DEF ArtifactsBest, Todo
  <2> QED BY <2>1, <2>5 DEF BestInv, CurrentBest, OlderBest
<1>3. CASE ~(Valid(inst) /\ changed \in inst.loaded)
  <2>1. pc' = "refused"
    BY <1>3 DEF Validate, Goto
  <2> QED BY <2>1 DEF BestInv, ArtifactsBest, CurrentBest, OlderBest
<1> QED BY <1>2, <1>3

LEMMA BestVisitArtifact == PlanInv /\ PlanInv' /\ BestInv /\ VisitArtifact => BestInv'
<1> SUFFICES ASSUME PlanInv, PlanInv', BestInv, VisitArtifact PROVE BestInv'
  OBVIOUS
<1> DEFINE x     == Head(queue)
           users == Users(Dependence(inst), x)
<1>1. /\ pc = "artifacts" /\ pc' = pc /\ UNCHANGED <<inst, changed>>
      /\ queue \in Seq(DOMAIN artifacts) /\ queue # <<>>
      /\ Typed(artifacts, Artifacts) /\ Artifacts \in SUBSET Names
      /\ Visit(artifacts, DependentArtifacts(x), queue, artifacts', queue')
  BY VisitArtifactIs
<1>2. Settled /\ DependentArtifacts(x) = users /\ users \in SUBSET Artifacts
  BY PlanInvSettled, UsersOfNames
<1>3. Typed(artifacts', Artifacts)
  BY DEF PlanInv, PlanTypes
<1>4. /\ Search(artifacts, ArtifactHeads, Dependence(inst), Artifacts, queue)
      /\ DOMAIN artifacts \subseteq inst.loaded
  BY <1>1 DEF BestInv, ArtifactsBest, Todo
<1>5. /\ Dependence(inst) \in SUBSET (Artifacts \X Artifacts)
      /\ HeadsTyped(ArtifactHeads, Artifacts)
  BY <1>2, RelationsTyped, HeadsAreTyped
<1>6. Search(artifacts', ArtifactHeads, Dependence(inst), Artifacts, queue')
  <2>1. Visit(artifacts, users, queue, artifacts', queue')
    BY <1>1, <1>2
  <2> QED BY <1>1, <1>3, <1>4, <1>5, <2>1, SearchKeeps
<1>7. DOMAIN artifacts' \subseteq inst.loaded
  <2>1. Visited(artifacts, x, users, Improved(artifacts, users, x), queue, artifacts', queue')
    BY <1>1, <1>2, VisitIs
  <2>2. DOMAIN artifacts' = DOMAIN artifacts \cup users
    BY <2>1 DEF Visited
  <2>3. users \subseteq inst.loaded
    BY <1>2, RelationsTyped DEF Users
  <2> QED BY <1>4, <2>2, <2>3
<1> HIDE DEF x, users
<1>8. ArtifactsBest'
  BY <1>1, <1>6, <1>7, HeadsStay DEF ArtifactsBest, Todo
<1> QED BY <1>1, <1>8 DEF BestInv, CurrentBest, OlderBest

LEMMA BestSeedCurrent == PlanInv /\ PlanInv' /\ BestInv /\ SeedCurrent => BestInv'
<1> SUFFICES ASSUME PlanInv, PlanInv', BestInv, SeedCurrent PROVE BestInv'
  OBVIOUS
<1>1. /\ pc = "artifacts" /\ queue = <<>> /\ pc' = "current"
      /\ current' = CurrentSeeds /\ queue' = Sorted(DOMAIN CurrentSeeds)
      /\ UNCHANGED <<inst, changed, artifacts>>
  BY DEF SeedCurrent, Goto
<1>2. Settled /\ Typed(artifacts, Artifacts)
  BY PlanInvSettled DEF PlanInv, PlanTypes
<1>3. /\ Search(artifacts, ArtifactHeads, Dependence(inst), Artifacts, <<>>)
      /\ DOMAIN artifacts \subseteq inst.loaded
  BY <1>1 DEF BestInv, ArtifactsBest, Todo
<1>4. Search(current', CurrentHeads, Edges(inst).package, Packages, queue')
  BY <1>1, <1>2, <1>3, CurrentSearchStarts
<1>5. CurrentBest'
  BY <1>1, <1>4, HeadsStay DEF CurrentBest, Todo
<1>6. ArtifactsBest'
  BY <1>1, ArtifactsStayBest DEF BestInv, Todo
<1> QED BY <1>1, <1>5, <1>6 DEF BestInv, OlderBest

LEMMA BestVisitCurrent == PlanInv /\ PlanInv' /\ BestInv /\ VisitCurrent => BestInv'
<1> SUFFICES ASSUME PlanInv, PlanInv', BestInv, VisitCurrent PROVE BestInv'
  OBVIOUS
<1> DEFINE x     == Head(queue)
           users == Users(Edges(inst).package, x)
<1>1. /\ pc = "current" /\ pc' = pc /\ UNCHANGED <<inst, changed, artifacts>>
      /\ queue \in Seq(DOMAIN current) /\ queue # <<>>
      /\ Typed(current, Packages) /\ Packages \in SUBSET Names
      /\ Visit(current, Consumers(x), queue, current', queue')
  BY VisitCurrentIs
<1>2. Settled /\ Consumers(x) = users
  BY PlanInvSettled, UsersOfNames
<1>3. Typed(current', Packages)
  BY DEF PlanInv, PlanTypes
<1>4. Search(current, CurrentHeads, Edges(inst).package, Packages, queue)
  BY <1>1 DEF BestInv, CurrentBest, Todo
<1>5. /\ Edges(inst).package \in SUBSET (Packages \X Packages)
      /\ HeadsTyped(CurrentHeads, Packages)
  BY <1>2, RelationsTyped, HeadsAreTyped
<1>6. Search(current', CurrentHeads, Edges(inst).package, Packages, queue')
  <2>1. Visit(current, users, queue, current', queue')
    BY <1>1, <1>2
  <2> QED BY <1>1, <1>3, <1>4, <1>5, <2>1, SearchKeeps
<1> HIDE DEF x, users
<1>7. CurrentBest'
  BY <1>1, <1>6, HeadsStay DEF CurrentBest, Todo
<1>8. ArtifactsBest'
  BY <1>1, ArtifactsStayBest DEF BestInv, Todo
<1> QED BY <1>1, <1>7, <1>8 DEF BestInv, OlderBest

LEMMA BestSeedOlder == PlanInv /\ PlanInv' /\ BestInv /\ SeedOlder => BestInv'
<1> SUFFICES ASSUME PlanInv, PlanInv', BestInv, SeedOlder PROVE BestInv'
  OBVIOUS
<1>1. /\ pc = "current" /\ queue = <<>> /\ pc' = "older"
      /\ older' = OlderSeeds /\ queue' = Sorted(DOMAIN OlderSeeds)
      /\ UNCHANGED <<inst, changed, artifacts, current>>
  BY DEF SeedOlder, Goto
<1>2. Search(older', OlderHeads, Edges(inst).package, Packages, queue')
  BY <1>1, PlanInvSettled, OlderSearchStarts
<1>3. OlderBest'
  BY <1>1, <1>2, HeadsStay DEF OlderBest, Todo
<1>4. ArtifactsBest' /\ CurrentBest'
  BY <1>1, ArtifactsStayBest, CurrentStaysBest DEF BestInv, Todo
<1> QED BY <1>3, <1>4 DEF BestInv

LEMMA BestVisitOlder == PlanInv /\ PlanInv' /\ BestInv /\ VisitOlder => BestInv'
<1> SUFFICES ASSUME PlanInv, PlanInv', BestInv, VisitOlder PROVE BestInv'
  OBVIOUS
<1> DEFINE x     == Head(queue)
           users == Users(Edges(inst).package, x)
<1>1. /\ pc = "older" /\ pc' = pc /\ UNCHANGED <<inst, changed, artifacts, current>>
      /\ queue \in Seq(DOMAIN older) /\ queue # <<>>
      /\ Typed(older, Packages) /\ Packages \in SUBSET Names
      /\ Visit(older, Consumers(x), queue, older', queue')
  BY VisitOlderIs
<1>2. Settled /\ Consumers(x) = users
  BY PlanInvSettled, UsersOfNames
<1>3. Typed(older', Packages)
  BY DEF PlanInv, PlanTypes
<1>4. Search(older, OlderHeads, Edges(inst).package, Packages, queue)
  BY <1>1 DEF BestInv, OlderBest, Todo
<1>5. /\ Edges(inst).package \in SUBSET (Packages \X Packages)
      /\ HeadsTyped(OlderHeads, Packages)
  BY <1>2, RelationsTyped, HeadsAreTyped
<1>6. Search(older', OlderHeads, Edges(inst).package, Packages, queue')
  <2>1. Visit(older, users, queue, older', queue')
    BY <1>1, <1>2
  <2> QED BY <1>1, <1>3, <1>4, <1>5, <2>1, SearchKeeps
<1> HIDE DEF x, users
<1>7. OlderBest'
  BY <1>1, <1>6, HeadsStay DEF OlderBest, Todo
<1>8. ArtifactsBest' /\ CurrentBest'
  BY <1>1, ArtifactsStayBest, CurrentStaysBest DEF BestInv, Todo
<1> QED BY <1>7, <1>8 DEF BestInv

(* The steps after the searches leave what they have found. *)
LEMMA BestLater ==
  ASSUME PlanInv, BestInv, pc \in {"older", "plan"}, queue = <<>>,
         pc' \in {"plan", "planned", "refused"},
         UNCHANGED <<inst, changed, artifacts, current, older>>
  PROVE  BestInv'
<1>1. /\ Todo("artifacts")' = Todo("artifacts") /\ Todo("current")' = Todo("current")
      /\ Todo("older")' = Todo("older")
  BY DEF Todo
<1>2. ArtifactsBest' /\ CurrentBest' /\ OlderBest'
  BY <1>1, ArtifactsStayBest, CurrentStaysBest, OlderStaysBest DEF BestInv
<1> QED BY <1>2 DEF BestInv

LEMMA BestStep == PlanInv /\ PlanInv' /\ BestInv /\ [Next]_vars => BestInv'
<1> SUFFICES ASSUME PlanInv, PlanInv', BestInv, [Next]_vars PROVE BestInv'
  OBVIOUS
<1>1. CASE UNCHANGED vars
  <2>1. UNCHANGED <<inst, changed, pc, queue, artifacts, current, older>>
    BY <1>1 DEF vars
  <2> QED BY <2>1, HeadsStay DEF BestInv, ArtifactsBest, CurrentBest, OlderBest, Todo
<1>2. CASE FindAffected
  BY <1>2, BestLater DEF FindAffected, Goto
<1>3. CASE \E targets \in WorkOrders, orderly \in BOOLEAN, loadable \in SUBSET Apps :
             Plan(targets, orderly, loadable)
  <2>1. /\ pc = "plan" /\ pc' \in {"planned", "refused"}
        /\ UNCHANGED <<inst, changed, artifacts, current, older>>
    BY <1>3 DEF Plan, Goto
  <2>2. queue = <<>>
    BY <2>1 DEF PlanInv, QueueTyped
  <2> QED BY <2>1, <2>2, BestLater
<1> QED BY <1>1, <1>2, <1>3, BestValidate, BestVisitArtifact, BestSeedCurrent,
           BestVisitCurrent, BestSeedOlder, BestVisitOlder DEF Next

LEMMA ExplanationOf ==
  ASSUME NEW heads, NEW h \in heads, NEW rel, NEW S, NEW d \in Chains(rel, h[2], S)
  PROVE  h[1] \o d \in Explanations(heads, rel, S)
<1>1. h[1] \o d \in {h[1] \o f : f \in Chains(rel, h[2], S)}
  OBVIOUS
<1> QED BY <1>1 DEF Explanations

(* The explanations are those of the heads. *)
LEMMA CurrentExplanationsAre ==
  CurrentExplanations = Explanations(CurrentHeads, Edges(inst).package, Packages)
<1> DEFINE rel == Edges(inst).package
<1>1. CurrentExplanations =
        UNION {{HeadOf(c) \o d : d \in Chains(rel, Owner(Last(c)), Packages)} :
                 c \in ArtifactChains}
  BY DEF CurrentExplanations, HeadOf, ArtifactChains, Dependence
<1> HIDE DEF rel
<1>2. ASSUME NEW c \in ArtifactChains, NEW d \in Chains(rel, Owner(Last(c)), Packages)
      PROVE  HeadOf(c) \o d \in Explanations(CurrentHeads, rel, Packages)
  <2> DEFINE g == HeadOf(c)
             p == Owner(Last(c))
             h == <<g, p>>
  <2>1. h \in CurrentHeads
    BY DEF CurrentHeads
  <2>2. d \in Chains(rel, p, Packages)
    OBVIOUS
  <2> HIDE DEF g, p
  <2>3. h[1] = g /\ h[2] = p
    OBVIOUS
  <2> HIDE DEF h
  <2>4. h[1] \o d \in Explanations(CurrentHeads, rel, Packages)
    BY <2>1, <2>2, <2>3, ExplanationOf
  <2> QED BY <2>3, <2>4 DEF g
<1>3. ASSUME NEW e \in Explanations(CurrentHeads, rel, Packages)
      PROVE  \E c \in ArtifactChains : \E d \in Chains(rel, Owner(Last(c)), Packages) :
               e = HeadOf(c) \o d
  <2>1. PICK h \in CurrentHeads : \E d \in Chains(rel, h[2], Packages) : e = h[1] \o d
    BY ExplanationIs
  <2>2. PICK c \in ArtifactChains : h = <<HeadOf(c), Owner(Last(c))>>
    BY DEF CurrentHeads
  <2>3. h[1] = HeadOf(c) /\ h[2] = Owner(Last(c))
    BY <2>2
  <2> QED BY <2>1, <2>3
<1>4. ASSUME NEW e \in CurrentExplanations PROVE e \in Explanations(CurrentHeads, rel, Packages)
  <2>1. PICK c \in ArtifactChains :
          e \in {HeadOf(c) \o d : d \in Chains(rel, Owner(Last(c)), Packages)}
    BY <1>1
  <2>2. PICK d \in Chains(rel, Owner(Last(c)), Packages) : e = HeadOf(c) \o d
    BY <2>1
  <2> QED BY <1>2, <2>2
<1>5. Explanations(CurrentHeads, rel, Packages) \subseteq CurrentExplanations
  BY <1>1, <1>3
<1> QED BY <1>4, <1>5 DEF rel

LEMMA OlderExplanationsAre ==
  OlderExplanations = Explanations(OlderHeads, Edges(inst).package, Packages)
<1> DEFINE rel == Edges(inst).package
           front(a) == <<changed, Owner(changed), a>>
<1>1. OlderExplanations =
        UNION {{front(a) \o d : d \in Chains(rel, Owner(a), Packages)} : a \in OlderVersions}
  BY DEF OlderExplanations
<1>2. OlderHeads = {<<front(a), Owner(a)>> : a \in OlderVersions}
  BY DEF OlderHeads
<1> HIDE DEF rel, front
<1>3. ASSUME NEW a \in OlderVersions, NEW d \in Chains(rel, Owner(a), Packages)
      PROVE  front(a) \o d \in Explanations(OlderHeads, rel, Packages)
  <2> DEFINE g == front(a)
             p == Owner(a)
             h == <<g, p>>
  <2>1. h \in OlderHeads
    BY <1>2
  <2>2. d \in Chains(rel, p, Packages)
    OBVIOUS
  <2> HIDE DEF g, p
  <2>3. h[1] = g /\ h[2] = p
    OBVIOUS
  <2> HIDE DEF h
  <2>4. h[1] \o d \in Explanations(OlderHeads, rel, Packages)
    BY <2>1, <2>2, <2>3, ExplanationOf
  <2> QED BY <2>3, <2>4 DEF g
<1>4. ASSUME NEW e \in Explanations(OlderHeads, rel, Packages)
      PROVE  \E a \in OlderVersions : \E d \in Chains(rel, Owner(a), Packages) : e = front(a) \o d
  <2>1. PICK h \in OlderHeads : \E d \in Chains(rel, h[2], Packages) : e = h[1] \o d
    BY ExplanationIs
  <2>2. PICK a \in OlderVersions : h = <<front(a), Owner(a)>>
    BY <1>2
  <2>3. h[1] = front(a) /\ h[2] = Owner(a)
    BY <2>2
  <2> QED BY <2>1, <2>3
<1>5. ASSUME NEW e \in OlderExplanations PROVE e \in Explanations(OlderHeads, rel, Packages)
  <2>1. PICK a \in OlderVersions : e \in {front(a) \o d : d \in Chains(rel, Owner(a), Packages)}
    BY <1>1
  <2>2. PICK d \in Chains(rel, Owner(a), Packages) : e = front(a) \o d
    BY <2>1
  <2> QED BY <1>3, <2>2
<1>6. Explanations(OlderHeads, rel, Packages) \subseteq OlderExplanations
  BY <1>1, <1>4
<1> QED BY <1>5, <1>6 DEF rel

LEMMA BestIsPreferred == PlanInv /\ BestInv => PathsArePreferred
<1> SUFFICES ASSUME PlanInv, BestInv, pc \in {"plan", "planned"}
             PROVE  BestOf(current, CurrentExplanations) /\ BestOf(older, OlderExplanations)
  BY DEF PathsArePreferred
<1>1. /\ Typed(current, Packages) /\ Typed(older, Packages) /\ Packages \in SUBSET Names
      /\ Edges(inst).package \in SUBSET (Packages \X Packages)
      /\ HeadsTyped(CurrentHeads, Packages) /\ HeadsTyped(OlderHeads, Packages)
  BY PlanInvSettled, RelationsTyped, HeadsAreTyped, Kinds DEF PlanInv, PlanTypes
<1>2. /\ Search(current, CurrentHeads, Edges(inst).package, Packages, <<>>)
      /\ Search(older, OlderHeads, Edges(inst).package, Packages, <<>>)
  BY DEF BestInv, CurrentBest, OlderBest, Todo
<1>3. BestOf(current, Explanations(CurrentHeads, Edges(inst).package, Packages))
  BY <1>1, <1>2, SearchBest
<1>4. BestOf(older, Explanations(OlderHeads, Edges(inst).package, Packages))
  BY <1>1, <1>2, SearchBest
<1> QED BY <1>3, <1>4, CurrentExplanationsAre, OlderExplanationsAre

-----------------------------------------------------------------------------
(* The theorems *)

THEOREM PlanningInvariantTheorem == Spec => []PlanInv
BY PlanInvInit, PlanInvStep, PTL DEF Spec

(* Every variable has its type, for every family of instances and every work order. *)
THEOREM PlanningTypeTheorem == Spec => []TypeOK
<1>1. PlanInv => TypeOK
  <2> SUFFICES ASSUME PlanInv PROVE TypeOK
    OBVIOUS
  <2>1. PlanTypes /\ QueueTyped
    BY DEF PlanInv
  <2>2. queue \in Seq(Artifacts \cup Packages)
    <3>1. \A S : S \subseteq Artifacts \cup Packages /\ queue \in Seq(S)
                   => queue \in Seq(Artifacts \cup Packages)
      BY SeqMonotonic
    <3>2. /\ DOMAIN artifacts \subseteq Artifacts \cup Packages
          /\ DOMAIN current \subseteq Artifacts \cup Packages
          /\ DOMAIN older \subseteq Artifacts \cup Packages
      BY <2>1 DEF PlanTypes, Typed
    <3>3. <<>> \in Seq(Artifacts \cup Packages)
      OBVIOUS
    <3> QED BY <2>1, <3>1, <3>2, <3>3 DEF QueueTyped
  <2> QED BY <2>1, <2>2 DEF PlanTypes, Phases, TypeOK, Typed
<1> QED BY <1>1, PlanningInvariantTheorem, PTL

(* Nothing that a change affects is left out of its plan. *)
THEOREM NothingOmittedTheorem == Spec => []NothingAffectedIsOmitted
<1>1. PlanInv => NothingAffectedIsOmitted
  BY DEF PlanInv
<1> QED BY <1>1, PlanningInvariantTheorem, PTL

(* An instance that is planned for is mature and governed as a whole. *)
THEOREM AcceptedTheorem == Spec => []AcceptedIsMature
<1>1. PlanInv => AcceptedIsMature
  BY ValidIsMature, ValidIsGoverned DEF PlanInv, PlanTypes, Accepted, AcceptedIsMature
<1> QED BY <1>1, PlanningInvariantTheorem, PTL

(* Every step of the searches brings their end nearer. *)
THEOREM SearchesProgressTheorem == Spec => SearchesProgress
<1> DEFINE A == \/ Phase[pc'] > Phase[pc]
                \/ /\ pc' = pc
                   /\ \/ Better(artifacts', artifacts) /\ UNCHANGED <<current, older>>
                      \/ Better(current', current) /\ UNCHANGED <<artifacts, older>>
                      \/ Better(older', older) /\ UNCHANGED <<artifacts, current>>
                      \/ queue' = Tail(queue) /\ UNCHANGED <<artifacts, current, older>>
<1>1. PlanInv /\ [Next]_vars => [A]_vars
  <2> SUFFICES ASSUME PlanInv, Next PROVE A
    OBVIOUS
  <2>1. CASE VisitArtifact
    <3>1. /\ pc' = pc /\ UNCHANGED <<current, older>>
          /\ \/ Better(artifacts', artifacts)
             \/ artifacts' = artifacts /\ queue' = Tail(queue)
      BY <2>1, VisitArtifactIs, VisitProgress
    <3> QED BY <3>1
  <2>2. CASE VisitCurrent
    <3>1. /\ pc' = pc /\ UNCHANGED <<artifacts, older>>
          /\ \/ Better(current', current)
             \/ current' = current /\ queue' = Tail(queue)
      BY <2>2, VisitCurrentIs, VisitProgress
    <3> QED BY <3>1
  <2>3. CASE VisitOlder
    <3>1. /\ pc' = pc /\ UNCHANGED <<artifacts, current>>
          /\ \/ Better(older', older)
             \/ older' = older /\ queue' = Tail(queue)
      BY <2>3, VisitOlderIs, VisitProgress
    <3> QED BY <3>1
  <2>4. CASE Validate \/ SeedCurrent \/ SeedOlder \/ FindAffected
    <3>1. Phase[pc'] > Phase[pc]
      BY <2>4 DEF Validate, SeedCurrent, SeedOlder, FindAffected, Goto, Phase
    <3> QED BY <3>1
  <2>5. CASE \E targets \in WorkOrders, orderly \in BOOLEAN, loadable \in SUBSET Apps :
               Plan(targets, orderly, loadable)
    <3>1. Phase[pc'] > Phase[pc]
      BY <2>5 DEF Plan, Goto, Phase
    <3> QED BY <3>1
  <2> QED BY <2>1, <2>2, <2>3, <2>4, <2>5 DEF Next
<1> QED BY <1>1, PlanningInvariantTheorem, PTL DEF Spec, SearchesProgress

(* The report explains every affected package by the best explanation      *)
(* there is, and no other package, for every instance: though relations    *)
(* may form cycles, and a name is visited again when its path was revised. *)
THEOREM PathsTheorem == Spec => []PathsArePreferred
<1>1. PlanInv /\ PlanInv' /\ BestInv /\ [Next]_vars => BestInv'
  BY BestStep
<1>2. Spec => []BestInv
  BY <1>1, BestInit, PlanningInvariantTheorem, PTL DEF Spec
<1> QED BY <1>2, BestIsPreferred, PlanningInvariantTheorem, PTL

=============================================================================
