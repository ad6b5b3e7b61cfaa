---------------------------- MODULE MergeProofs ----------------------------
(***************************************************************************)
(* Theorems about MergeCommit, for graphs of revisions of every size that  *)
(* branching, finalizing and merging build: merge bases are the best common*)
(* ancestors, there always is one, and the parents of a merge diverge; a   *)
(* merge commit is the three-way merge of the two heads and their base, and*)
(* what edits, undo, seals and versions promise without merges holds with  *)
(* them.                                                                   *)
(***************************************************************************)
EXTENDS MergeCommit, UndoProofs, FiniteSetTheorems

-----------------------------------------------------------------------------
(* Reachability in a graph of revisions.                                   *)

\* The parents of s in the graph pars.
From(pars, s) == {pars[s][i] : i \in DOMAIN pars[s]}

Closed(pars, S) ==
    /\ S \subseteq Revision
    /\ \A s \in S : From(pars, s) \subseteq S

\* What r descends from in the graph pars, r included: Descends with the graph
\* as a parameter, so that the graphs before and after a step can be compared.
Reached(pars, r) ==
    {a \in Revision :
        \A S \in SUBSET Revision : Closed(pars, S) /\ r \in S => a \in S}

Graph == [Revision -> Seq(Revision)]

LEMMA ParentsAreInGraph ==
    ASSUME NEW pars \in Graph, NEW s \in Revision, NEW p \in From(pars, s)
    PROVE  p \in Revision
  <1>1. PICK i \in DOMAIN pars[s] : p = pars[s][i]
    BY DEF From
  <1>2. pars[s] \in Seq(Revision)
    BY DEF Graph
  <1> QED BY <1>1, <1>2

LEMMA ReachedIsClosed ==
    ASSUME NEW pars \in Graph, NEW r \in Revision
    PROVE  r \in Reached(pars, r) /\ Closed(pars, Reached(pars, r))
  <1>1. r \in Reached(pars, r)
    BY DEF Reached
  <1>2. ASSUME NEW s \in Reached(pars, r), NEW a \in From(pars, s)
        PROVE  a \in Reached(pars, r)
    <2>1. s \in Revision
      BY DEF Reached
    <2> a \in Revision
      BY <2>1, ParentsAreInGraph
    <2>2. ASSUME NEW S \in SUBSET Revision, Closed(pars, S), r \in S
          PROVE  a \in S
      <3>1. s \in S
        BY <2>2 DEF Reached
      <3> QED BY <2>2, <3>1, <1>2 DEF Closed
    <2> QED BY <2>1, <2>2 DEF Reached
  <1>3. Reached(pars, r) \subseteq Revision
    BY DEF Reached
  <1>4. Closed(pars, Reached(pars, r))
    BY <1>2, <1>3 DEF Closed
  <1> QED BY <1>1, <1>4

LEMMA ReachedIsLeast ==
    ASSUME NEW pars, NEW r, NEW S, Closed(pars, S), r \in S
    PROVE  Reached(pars, r) \subseteq S
  BY DEF Reached, Closed

\* Whoever descends from r descends from what r descends from.
LEMMA ReachedIsTransitive ==
    ASSUME NEW pars \in Graph, NEW r \in Revision, NEW s \in Reached(pars, r)
    PROVE  s \in Revision /\ Reached(pars, s) \subseteq Reached(pars, r)
  <1>1. Closed(pars, Reached(pars, r))
    BY ReachedIsClosed
  <1>2. Reached(pars, s) \subseteq Reached(pars, r)
    BY <1>1, ReachedIsLeast
  <1> QED BY <1>2 DEF Reached

LEMMA ReachedByParent ==
    ASSUME NEW pars \in Graph, NEW r \in Revision, NEW p \in From(pars, r)
    PROVE  p \in Revision /\ Reached(pars, p) \subseteq Reached(pars, r)
  <1>1. p \in Reached(pars, r)
    BY ReachedIsClosed DEF Closed
  <1> QED BY <1>1, ReachedIsTransitive

\* What a revision reaches is itself and what its parents reach.
LEMMA ReachedUnfolds ==
    ASSUME NEW pars \in Graph, NEW r \in Revision, NEW a \in Reached(pars, r)
    PROVE  a = r \/ \E p \in From(pars, r) : a \in Reached(pars, p)
  <1> DEFINE S == {b \in Revision :
                     b = r \/ \E p \in From(pars, r) : b \in Reached(pars, p)}
  <1>1. ASSUME NEW s \in S, NEW b \in From(pars, s) PROVE b \in S
    <2>1. s \in Revision
      OBVIOUS
    <2> b \in Revision
      BY <2>1, <1>1, ParentsAreInGraph
    <2>2. CASE s = r
      <3>1. b \in Reached(pars, b)
        BY <2>1, ReachedIsClosed
      <3> QED BY <2>1, <2>2, <3>1, <1>1
    <2>3. CASE s # r
      <3>1. PICK p \in From(pars, r) : s \in Reached(pars, p)
        BY <2>3
      <3>2. p \in Revision
        BY ParentsAreInGraph
      <3>3. Closed(pars, Reached(pars, p))
        BY <3>2, ReachedIsClosed
      <3>4. b \in Reached(pars, p)
        BY <3>1, <3>3, <1>1 DEF Closed
      <3> QED BY <2>1, <3>1, <3>4
    <2> QED BY <2>2, <2>3
  <1>2. Closed(pars, S) /\ r \in S
    BY <1>1 DEF Closed
  <1>3. Reached(pars, r) \subseteq S
    <2> HIDE DEF S
    <2> QED BY <1>2, ReachedIsLeast
  <1> QED BY <1>3

\* What a closed part of the graph reaches does not depend on the rest.
LEMMA ReachedStays ==
    ASSUME NEW old \in Graph, NEW new \in Graph, NEW S, Closed(old, S),
           \A s \in S : new[s] = old[s],
           NEW r \in S
    PROVE  Reached(new, r) = Reached(old, r)
  <1>1. \A s \in S : From(new, s) = From(old, s)
    BY DEF From
  <1>2. r \in Revision /\ Closed(new, S)
    BY <1>1 DEF Closed
  <1>3. Reached(old, r) \subseteq S /\ Reached(new, r) \subseteq S
    BY <1>2, ReachedIsLeast
  <1>4. Closed(old, Reached(old, r)) /\ r \in Reached(old, r)
        /\ Closed(new, Reached(new, r)) /\ r \in Reached(new, r)
    BY <1>2, ReachedIsClosed
  <1>5. Closed(new, Reached(old, r)) /\ Closed(old, Reached(new, r))
    BY <1>1, <1>3, <1>4 DEF Closed
  <1> QED BY <1>4, <1>5, ReachedIsLeast

\* No revision descends from itself by way of a parent.
Acyclic(pars) ==
    \A r \in Revision : \A p \in From(pars, r) : r \notin Reached(pars, p)

LEMMA AcyclicIsAntisymmetric ==
    ASSUME NEW pars \in Graph, Acyclic(pars), NEW r \in Revision,
           NEW a \in Reached(pars, r), r \in Reached(pars, a)
    PROVE  a = r
  <1>1. SUFFICES ASSUME a # r PROVE FALSE
    OBVIOUS
  <1>2. PICK p \in From(pars, r) : a \in Reached(pars, p)
    BY <1>1, ReachedUnfolds
  <1>3. p \in Revision
    BY ParentsAreInGraph
  <1>4. Reached(pars, a) \subseteq Reached(pars, p)
    BY <1>2, <1>3, ReachedIsTransitive
  <1> QED BY <1>2, <1>4 DEF Acyclic

\* A graph stays acyclic when it grows: the old part S keeps its parents, and
\* the parents of each other revision are in a closed part it is not in.
LEMMA GrowingStaysAcyclic ==
    ASSUME NEW old \in Graph, NEW new \in Graph, Acyclic(old),
           NEW S, Closed(old, S), \A s \in S : new[s] = old[s],
           \A r \in Revision \ S : \E T \in SUBSET Revision :
               Closed(new, T) /\ r \notin T /\ From(new, r) \subseteq T
    PROVE  Acyclic(new)
  <1>1. SUFFICES ASSUME NEW r \in Revision, NEW p \in From(new, r)
                 PROVE  r \notin Reached(new, p)
    BY DEF Acyclic
  <1>2. CASE r \in S
    <2>1. p \in From(old, r)
      BY <1>1, <1>2 DEF From
    <2>2. p \in S
      BY <1>2, <2>1 DEF Closed
    <2>3. Reached(new, p) = Reached(old, p)
      BY <2>2, ReachedStays
    <2> QED BY <2>1, <2>3 DEF Acyclic
  <1>3. CASE r \notin S
    <2>1. PICK T \in SUBSET Revision :
             Closed(new, T) /\ r \notin T /\ From(new, r) \subseteq T
      BY <1>3
    <2>2. Reached(new, p) \subseteq T
      BY <1>1, <2>1, ReachedIsLeast
    <2> QED BY <2>1, <2>2
  <1> QED BY <1>2, <1>3

-----------------------------------------------------------------------------
(* The search of collectAncestors.                                         *)

\* One more round: the parents of what was found.
Nearer(pars, S) == S \cup UNION {From(pars, s) : s \in S}

\* f holds what was found after each of the first n rounds.
IsSearch(f, pars, r, n) ==
    f = [k \in 0..n |-> IF k = 0 THEN {r} ELSE Nearer(pars, f[k - 1])]

LEMMA SearchExists ==
    ASSUME NEW pars, NEW r
    PROVE  \A n \in Nat : \E f : IsSearch(f, pars, r, n)
  <1> DEFINE S == {n \in Nat : \E f : IsSearch(f, pars, r, n)}
  <1>1. 0 \in S
    <2>1. IsSearch([k \in 0..0 |-> {r}], pars, r, 0)
      BY DEF IsSearch
    <2> QED BY <2>1
  <1>2. ASSUME NEW n \in Nat, n \in S PROVE n + 1 \in S
    <2>1. PICK f : IsSearch(f, pars, r, n)
      BY <1>2
    <2> DEFINE g == [k \in 0..(n + 1) |->
                        IF k = n + 1 THEN Nearer(pars, f[n]) ELSE f[k]]
    <2>2. ASSUME NEW k \in 0..(n + 1)
          PROVE  g[k] = IF k = 0 THEN {r} ELSE Nearer(pars, g[k - 1])
      <3>1. CASE k = n + 1
        <4>1. k # 0 /\ k - 1 = n /\ n \in 0..(n + 1) /\ n # n + 1
          BY <3>1
        <4> QED BY <3>1, <4>1
      <3>2. CASE k # n + 1
        <4>1. k \in 0..n
          BY <3>2
        <4>2. g[k] = f[k]
          BY <3>2
        <4>3. k # 0 => k - 1 \in 0..(n + 1) /\ k - 1 # n + 1
          BY <4>1
        <4>4. k # 0 => g[k - 1] = f[k - 1]
          BY <4>3
        <4>5. f[k] = IF k = 0 THEN {r} ELSE Nearer(pars, f[k - 1])
          BY <2>1, <4>1 DEF IsSearch
        <4> HIDE DEF g
        <4> QED BY <4>2, <4>4, <4>5
      <3> QED BY <3>1, <3>2
    <2>3. IsSearch(g, pars, r, n + 1)
      BY <2>2 DEF IsSearch
    <2> QED BY <2>3
  <1> HIDE DEF S
  <1>3. \A n \in Nat : n \in S
    BY <1>1, <1>2, NatSetInduction
  <1> QED BY <1>3 DEF S

LEMMA SearchSteps ==
    ASSUME NEW pars, NEW r, NEW n \in Nat, NEW f, IsSearch(f, pars, r, n)
    PROVE  /\ f[0] = {r}
           /\ \A k \in Nat : k < n => f[k + 1] = Nearer(pars, f[k])
  <1>1. f[0] = {r}
    BY DEF IsSearch
  <1>2. ASSUME NEW k \in Nat, k < n PROVE f[k + 1] = Nearer(pars, f[k])
    <2>1. k + 1 \in 0..n /\ k + 1 # 0 /\ (k + 1) - 1 = k
      BY <1>2
    <2> QED BY <2>1 DEF IsSearch
  <1> QED BY <1>1, <1>2

\* The search finds nothing but what r descends from.
LEMMA SearchFindsReached ==
    ASSUME NEW pars \in Graph, NEW r \in Revision, NEW n \in Nat,
           NEW f, IsSearch(f, pars, r, n)
    PROVE  \A k \in 0..n : r \in f[k] /\ f[k] \subseteq Reached(pars, r)
  <1> DEFINE S == {k \in Nat : k <= n => r \in f[k] /\ f[k] \subseteq Reached(pars, r)}
  <1>0. /\ f[0] = {r}
        /\ \A k \in Nat : k < n => f[k + 1] = Nearer(pars, f[k])
    BY SearchSteps
  <1>1. 0 \in S
    BY <1>0, ReachedIsClosed
  <1>2. ASSUME NEW k \in Nat, k \in S PROVE k + 1 \in S
    <2>1. SUFFICES ASSUME k + 1 <= n
                   PROVE  r \in f[k + 1] /\ f[k + 1] \subseteq Reached(pars, r)
      OBVIOUS
    <2>2. r \in f[k] /\ f[k] \subseteq Reached(pars, r) /\ k < n
      BY <1>2, <2>1
    <2>3. f[k + 1] = Nearer(pars, f[k])
      BY <1>0, <2>2
    <2>4. Closed(pars, Reached(pars, r))
      BY ReachedIsClosed
    <2> QED BY <2>2, <2>3, <2>4 DEF Nearer, Closed
  <1> HIDE DEF S
  <1>3. \A k \in Nat : k \in S
    BY <1>1, <1>2, NatSetInduction
  <1> QED BY <1>3 DEF S

\* After as many rounds as there are revisions nothing new can be found: each
\* round before found one more, or there was no more to find.
LEMMA SearchEnds ==
    ASSUME NEW pars \in Graph, NEW r \in Revision, IsFiniteSet(Revision),
           NEW f, IsSearch(f, pars, r, Cardinality(Revision))
    PROVE  Closed(pars, f[Cardinality(Revision)])
  <1>1. PICK n \in Nat : n = Cardinality(Revision)
    BY FS_CardinalityType
  <1>2. IsSearch(f, pars, r, n)
    BY <1>1
  <1>3. \A k \in 0..n : f[k] \subseteq Revision
    BY <1>2, SearchFindsReached DEF Reached
  <1> DEFINE S == {k \in Nat : k <= n => Closed(pars, f[k]) \/ Cardinality(f[k]) > k}
  <1>0. /\ f[0] = {r}
        /\ \A k \in Nat : k < n => f[k + 1] = Nearer(pars, f[k])
    BY <1>2, SearchSteps
  <1>4. 0 \in S
    <2>1. Cardinality(f[0]) = 1
      BY <1>0, FS_Singleton
    <2> QED BY <2>1
  <1>5. ASSUME NEW k \in Nat, k \in S PROVE k + 1 \in S
    <2>1. SUFFICES ASSUME k + 1 <= n
                   PROVE  Closed(pars, f[k + 1]) \/ Cardinality(f[k + 1]) > k + 1
      OBVIOUS
    <2>2. f[k + 1] = Nearer(pars, f[k])
      BY <1>0, <2>1
    <2>3. f[k] \subseteq Revision /\ f[k + 1] \subseteq Revision
      BY <1>3, <2>1
    <2>4. CASE Closed(pars, f[k])
      BY <2>2, <2>4 DEF Closed, Nearer
    <2>5. CASE ~Closed(pars, f[k])
      <3>1. Cardinality(f[k]) > k
        BY <1>5, <2>1, <2>5
      <3>2. f[k] # f[k + 1] /\ f[k] \in SUBSET f[k + 1]
        BY <2>2, <2>3, <2>5 DEF Closed, Nearer
      <3>3. IsFiniteSet(f[k + 1]) /\ IsFiniteSet(f[k])
        BY <2>3, FS_Subset
      <3>4. /\ Cardinality(f[k]) <= Cardinality(f[k + 1])
            /\ Cardinality(f[k]) # Cardinality(f[k + 1])
        BY <3>2, <3>3, FS_Subset
      <3>5. Cardinality(f[k]) \in Nat /\ Cardinality(f[k + 1]) \in Nat
        BY <3>3, FS_CardinalityType
      <3> QED BY <3>1, <3>4, <3>5
    <2> QED BY <2>4, <2>5
  <1> HIDE DEF S
  <1>6. \A k \in Nat : k \in S
    BY <1>4, <1>5, NatSetInduction
  <1>7. Closed(pars, f[n]) \/ Cardinality(f[n]) > n
    BY <1>6 DEF S
  <1>8. f[n] \in SUBSET Revision
    BY <1>3
  <1>9. Cardinality(f[n]) <= n /\ Cardinality(f[n]) \in Nat
    BY <1>1, <1>8, FS_Subset, FS_CardinalityType
  <1> QED BY <1>1, <1>7, <1>9

\* collectAncestors finds exactly what a revision descends from.
LEMMA AncestorsAreReached ==
    ASSUME parents \in Graph, NEW r \in Revision
    PROVE  Ancestors(r) = Reached(parents, r)
  <1> DEFINE n == Cardinality(Revision)
             f == CHOOSE f : IsSearch(f, parents, r, n)
  <1>1. n \in Nat
    BY RevisionsAreFinite, FS_CardinalityType
  <1>2. IsSearch(f, parents, r, n)
    <2> HIDE DEF n
    <2> QED BY <1>1, SearchExists
  <1>3. Ancestors(r) = f[n]
    BY DEF Ancestors, IsSearch, Nearer, From, ParentsOf
  <1> HIDE DEF f
  <1>4. Closed(parents, f[n])
    BY <1>2, SearchEnds, RevisionsAreFinite
  <1> HIDE DEF n
  <1>5. r \in f[n] /\ f[n] \subseteq Reached(parents, r)
    BY <1>1, <1>2, SearchFindsReached
  <1>6. Reached(parents, r) \subseteq f[n]
    BY <1>4, <1>5, ReachedIsLeast
  <1> QED BY <1>3, <1>5, <1>6

LEMMA DescendsIsReached ==
    ASSUME NEW r \in Revision
    PROVE  Descends[r] = Reached(parents, r)
  BY DEF Descends, Reached, Closed, ParentsOf, From

-----------------------------------------------------------------------------
(* The best of a set of revisions.                                         *)

\* Those that are no proper ancestor of another one, as compareRevisions
\* computes them: nothing that a parent of one of them reaches.
Undominated(pars, C) ==
    C \ UNION {Reached(pars, p) : p \in UNION {From(pars, c) : c \in C}}

\* Those from which none of the others descends.
Best(pars, C) == {c \in C : \A d \in C : c \in Reached(pars, d) => d = c}

LEMMA UndominatedAreBest ==
    ASSUME NEW pars \in Graph, Acyclic(pars), NEW C \in SUBSET Revision
    PROVE  Undominated(pars, C) = Best(pars, C)
  <1>1. ASSUME NEW c \in Undominated(pars, C) PROVE c \in Best(pars, C)
    <2>1. c \in C
      BY DEF Undominated
    <2>2. ASSUME NEW d \in C, c \in Reached(pars, d), d # c PROVE FALSE
      <3>1. PICK p \in From(pars, d) : c \in Reached(pars, p)
        BY <2>2, ReachedUnfolds
      <3> QED BY <3>1 DEF Undominated
    <2> QED BY <2>1, <2>2 DEF Best
  <1>2. ASSUME NEW c \in Best(pars, C) PROVE c \in Undominated(pars, C)
    <2>1. c \in C
      BY DEF Best
    <2>2. ASSUME NEW d \in C, NEW p \in From(pars, d), c \in Reached(pars, p)
          PROVE  FALSE
      <3>1. c \in Reached(pars, d)
        BY <2>2, ReachedByParent
      <3>2. d = c
        BY <3>1 DEF Best
      <3> QED BY <2>2, <3>2 DEF Acyclic
    <2> QED BY <2>1, <2>2 DEF Undominated
  <1> QED BY <1>1, <1>2

\* One with the most ancestors is among the best.
LEMMA BestExists ==
    ASSUME NEW pars \in Graph, Acyclic(pars), NEW C \in SUBSET Revision, C # {}
    PROVE  Best(pars, C) # {}
  <1> DEFINE n == Cardinality(Revision)
             Size(c) == Cardinality(Reached(pars, c))
             S == {k \in Nat : \E c \in C : k = n - Size(c)}
  <1>1. n \in Nat
    BY RevisionsAreFinite, FS_CardinalityType
  <1>2. ASSUME NEW c \in C
        PROVE  Size(c) \in Nat /\ Size(c) <= n /\ IsFiniteSet(Reached(pars, c))
    <2>1. Reached(pars, c) \in SUBSET Revision
      BY DEF Reached
    <2> QED BY <2>1, RevisionsAreFinite, FS_Subset, FS_CardinalityType
  <1> HIDE DEF n, Size
  <1>3. S \in SUBSET Nat /\ S # {}
    <2>1. PICK c \in C : TRUE
      OBVIOUS
    <2>2. n - Size(c) \in S
      BY <1>1, <1>2
    <2> QED BY <2>2
  <1>4. PICK c \in C : Smallest(S) = n - Size(c) /\ \A y \in S : Smallest(S) <= y
    <2> HIDE DEF S
    <2>1. Smallest(S) \in S /\ \A y \in S : Smallest(S) <= y
      BY <1>3, SmallestIsLeast
    <2> QED BY <2>1 DEF S
  <1>5. ASSUME NEW d \in C PROVE Size(d) <= Size(c)
    <2>1. n - Size(d) \in S
      BY <1>1, <1>2
    <2>2. n - Size(c) <= n - Size(d)
      BY <2>1, <1>4
    <2> QED BY <1>1, <1>2, <2>2
  <1>6. ASSUME NEW d \in C, c \in Reached(pars, d), d # c PROVE FALSE
    <2>1. Reached(pars, c) \in SUBSET Reached(pars, d)
      BY <1>6, ReachedIsTransitive
    <2>2. d \in Reached(pars, d)
      BY ReachedIsClosed
    <2>3. d \notin Reached(pars, c)
      BY <1>6, AcyclicIsAntisymmetric
    <2>4. Size(c) <= Size(d) /\ Size(c) # Size(d)
      BY <1>2, <2>1, <2>2, <2>3, FS_Subset DEF Size
    <2> QED BY <1>2, <1>5, <2>4
  <1>7. c \in Best(pars, C)
    BY <1>6 DEF Best
  <1> QED BY <1>7

-----------------------------------------------------------------------------
(* The graph that the operations build.                                    *)

Finalized == {r \in Revision : state[r] = "finalized"}

InUse == {r \in Revision : state[r] # "unused"}

GraphTypes ==
    /\ head \in [Branch -> Revision \cup {NoRevision}]
    /\ state \in [Revision -> {"unused", "working", "finalized"}]
    /\ parents \in Graph

\* The parents of every revision are finalized, and only a finalized one has two.
ParentsAreFinal ==
    /\ \A r \in Revision : From(parents, r) \subseteq Finalized
    /\ \A r \in Revision : state[r] = "unused" => parents[r] = <<>>
    /\ \A r \in Revision : state[r] = "working" => Len(parents[r]) <= 1

\* Neither of two revisions descends from the other.
Apart(pars, left, right) ==
    /\ left \notin Reached(pars, right)
    /\ right \notin Reached(pars, left)

MergesAreApart ==
    \A r \in Revision : IsMerge(r) => Apart(parents, parents[r][1], parents[r][2])

\* All revisions descend from the first one of the project.
OneOrigin ==
    /\ (\A b \in Branch : head[b] = NoRevision) => InUse = {}
    /\ InUse # {} => \E origin \in Revision :
           \A r \in InUse : origin \in Reached(parents, r)

\* What has been read by a merger and does not change any more.
PlansAreApart ==
    /\ DOMAIN merge = Merger
    /\ \A m \in Merger : merge[m] # NoMerge =>
          /\ {"stage", "branch", "working", "left", "right"} \subseteq DOMAIN merge[m]
          /\ merge[m].branch \in Branch /\ merge[m].working \in Revision
          /\ merge[m].left \in Finalized /\ merge[m].right \in Finalized
          /\ merge[m].stage = "planned" => Apart(parents, merge[m].left, merge[m].right)

GraphIsSound ==
    /\ GraphTypes
    /\ ParentsAreFinal
    /\ Acyclic(parents)
    /\ OneOrigin
    /\ MergesAreApart

GraphInvariant == GraphIsSound /\ PlansAreApart

LEMMA FinalizedIsClosed ==
    ASSUME ParentsAreFinal
    PROVE  Closed(parents, Finalized)
  BY DEF ParentsAreFinal, Closed, Finalized

LEMMA InUseIsClosed ==
    ASSUME ParentsAreFinal
    PROVE  Closed(parents, InUse)
  BY DEF ParentsAreFinal, Closed, Finalized, InUse

\* What compareRevisions finds, in any graph that the operations build.
LEMMA BasesAreBest ==
    ASSUME GraphIsSound, NEW left \in InUse, NEW right \in Finalized
    PROVE  LET common == Reached(parents, left) \cap Reached(parents, right) IN
           /\ MergeBases(left, right) = Best(parents, common)
           /\ common # {}
  <1> DEFINE common == Reached(parents, left) \cap Reached(parents, right)
  <1>1. left \in Revision /\ right \in Revision /\ right \in InUse
        /\ state[right] = "finalized"
    BY DEF InUse, Finalized
  <1>2. parents \in Graph /\ Acyclic(parents)
    BY DEF GraphIsSound, GraphTypes
  <1>3. common \in SUBSET Revision
    BY DEF Reached
  <1>4. Ancestors(left) = Reached(parents, left)
        /\ Ancestors(right) = Reached(parents, right)
    BY <1>1, <1>2, AncestorsAreReached
  <1>5. ~(left = right /\ state[left] # "finalized")
    BY <1>1
  <1>6. \A c \in common : \A p \in ParentsOf(c) : Ancestors(p) = Reached(parents, p)
    <2> SUFFICES ASSUME NEW c \in common, NEW p \in ParentsOf(c)
                 PROVE  Ancestors(p) = Reached(parents, p)
      OBVIOUS
    <2>1. p \in From(parents, c)
      BY DEF ParentsOf, From
    <2>2. p \in Revision
      BY <1>2, <1>3, <2>1, ParentsAreInGraph
    <2> QED BY <1>2, <2>2, AncestorsAreReached
  <1>7. \A c \in common : ParentsOf(c) = From(parents, c)
    BY DEF ParentsOf, From
  <1>8. MergeBases(left, right) = Undominated(parents, common)
    <2>1. (Ancestors(left) \cap Ancestors(right))
              \ (IF left = right /\ state[left] # "finalized" THEN {left} ELSE {})
            = common
      BY <1>4, <1>5
    <2>2. UNION {Ancestors(p) : p \in UNION {ParentsOf(c) : c \in common}}
            = UNION {Reached(parents, p) : p \in UNION {From(parents, c) : c \in common}}
      <3> HIDE DEF common
      <3> QED BY <1>6, <1>7
    <2> HIDE DEF common
    <2> QED BY <2>1, <2>2 DEF MergeBases, Undominated
  <1>9. common # {}
    <2>1. PICK origin \in Revision : \A r \in InUse : origin \in Reached(parents, r)
      BY DEF GraphIsSound, OneOrigin
    <2> QED BY <1>1, <2>1
  <1> HIDE DEF common
  <1>10. Undominated(parents, common) = Best(parents, common)
    BY <1>2, <1>3, UndominatedAreBest
  <1> QED BY <1>8, <1>9, <1>10 DEF common

-----------------------------------------------------------------------------
(* The steps.                                                              *)

\* createProject and createBranch: r becomes the head of b, with the parents ps.
NewHead(b, r, ps) ==
    /\ state[r] = "unused"
    /\ ps = <<>> => InUse = {}
    /\ ps # <<>> => \E base \in Finalized : ps = <<base>>
    /\ head' = [head EXCEPT ![b] = r]
    /\ state' = [state EXCEPT ![r] = "working"]
    /\ parents' = [parents EXCEPT ![r] = ps]

\* finalize and a merge commit: r is sealed with the parents ps and new follows.
Advance(b, r, new, ps) ==
    /\ state[r] = "working" /\ state[new] = "unused"
    /\ \/ ps = parents[r]
       \/ \E left, right \in Finalized : Apart(parents, left, right) /\ ps = <<left, right>>
    /\ head' = [head EXCEPT ![b] = new]
    /\ state' = [state EXCEPT ![r] = "finalized", ![new] = "working"]
    /\ parents' = [parents EXCEPT ![r] = ps, ![new] = <<r>>]

\* What a step does to the graph.
GraphStep ==
    \/ UNCHANGED <<head, state, parents>>
    \/ \E b \in Branch, r \in Revision, ps \in Seq(Revision) : NewHead(b, r, ps)
    \/ \E b \in Branch, r, new \in Revision, ps \in Seq(Revision) :
          Advance(b, r, new, ps)

\* What was finalized keeps its ancestors.
AncestryStays ==
    \A f \in Finalized : f \in Finalized' /\ Reached(parents', f) = Reached(parents, f)

LEMMA UnchangedPart ==
    ASSUME GraphIsSound, parents' \in Graph,
           NEW X \in SUBSET (Revision \ Finalized),
           \A s \in Revision \ X : parents'[s] = parents[s]
    PROVE  /\ Closed(parents, Revision \ X)
           /\ \A s \in Revision \ X : Reached(parents', s) = Reached(parents, s)
  <1>1. Closed(parents, Revision \ X)
    BY DEF GraphIsSound, ParentsAreFinal, Closed, Finalized
  <1>2. parents \in Graph
    BY DEF GraphIsSound, GraphTypes
  <1> QED BY <1>1, <1>2, ReachedStays

LEMMA NewHeadKeepsGraph ==
    ASSUME GraphIsSound, NEW b \in Branch, NEW r \in Revision,
           NEW ps \in Seq(Revision), NewHead(b, r, ps)
    PROVE  GraphIsSound' /\ AncestryStays
  <1>1. GraphTypes /\ ParentsAreFinal /\ Acyclic(parents) /\ OneOrigin
        /\ MergesAreApart /\ parents \in Graph
    BY DEF GraphIsSound, GraphTypes
  <1>2. /\ parents' \in Graph
        /\ parents'[r] = ps
        /\ \A s \in Revision \ {r} : parents'[s] = parents[s]
    BY <1>1 DEF NewHead, Graph
  <1>3. /\ Finalized' = Finalized
        /\ InUse' = InUse \cup {r}
        /\ r \notin Finalized /\ r \notin InUse
        /\ state'[r] = "working"
        /\ \A s \in Revision \ {r} : state'[s] = state[s]
    BY <1>1 DEF NewHead, GraphTypes, Finalized, InUse
  <1>4. GraphTypes'
    BY <1>1, <1>2 DEF NewHead, GraphTypes
  <1>5. /\ Closed(parents, Revision \ {r})
        /\ \A s \in Revision \ {r} : Reached(parents', s) = Reached(parents, s)
    BY <1>2, <1>3, UnchangedPart
  <1>6. /\ From(parents', r) \subseteq Finalized
        /\ Len(ps) <= 1
        /\ \A s \in Revision \ {r} : From(parents', s) = From(parents, s)
    <2>1. CASE ps = <<>>
      BY <2>1, <1>2 DEF From
    <2>2. CASE ps # <<>>
      <3>1. PICK base \in Finalized : ps = <<base>>
        BY <2>2 DEF NewHead
      <3> QED BY <3>1, <1>2 DEF From
    <2> QED BY <2>1, <2>2
  <1>7. ParentsAreFinal'
    BY <1>1, <1>2, <1>3, <1>6 DEF ParentsAreFinal
  <1>8. Acyclic(parents)'
    <2>1. Closed(parents', Finalized)
      <3>1. Finalized \subseteq Revision
        BY DEF Finalized
      <3> QED BY <1>3, <1>7, <3>1 DEF Closed, ParentsAreFinal
    <2> QED BY <1>1, <1>2, <1>3, <1>5, <1>6, <2>1, GrowingStaysAcyclic DEF Finalized
  <1>9. OneOrigin'
    <2>1. head'[b] # NoRevision
      BY <1>1, NullsAreNotValues DEF NewHead, GraphTypes
    <2>2. \E origin \in Revision : \A s \in InUse' : origin \in Reached(parents', s)
      <3>1. CASE InUse = {}
        BY <3>1, <1>2, <1>3, ReachedIsClosed
      <3>2. CASE InUse # {}
        <4>1. PICK origin \in Revision : \A s \in InUse : origin \in Reached(parents, s)
          BY <1>1, <3>2 DEF OneOrigin
        <4>2. PICK base \in Finalized : ps = <<base>>
          BY <3>2 DEF NewHead
        <4>3. base \in InUse /\ base \in Revision \ {r} /\ base \in From(parents', r)
          BY <1>2, <1>3, <4>2 DEF Finalized, InUse, From
        <4>4. origin \in Reached(parents', r)
          BY <1>2, <1>5, <4>1, <4>3, ReachedByParent
        <4>5. \A s \in InUse : origin \in Reached(parents', s)
          BY <1>3, <1>5, <4>1 DEF InUse
        <4> QED BY <1>3, <4>4, <4>5
      <3> QED BY <3>1, <3>2
    <2> QED BY <2>1, <2>2 DEF OneOrigin
  <1>10. MergesAreApart'
    <2> SUFFICES ASSUME NEW s \in Revision, Len(parents'[s]) = 2
                 PROVE  /\ parents'[s][1] \notin Reached(parents', parents'[s][2])
                        /\ parents'[s][2] \notin Reached(parents', parents'[s][1])
      BY DEF MergesAreApart, IsMerge, Apart
    <2>1. s # r /\ parents'[s] = parents[s]
      <3>1. ASSUME s = r PROVE FALSE
        <4>1. Len(ps) = 2
          BY <3>1, <1>2
        <4> QED BY <4>1, <1>6
      <3> QED BY <3>1, <1>2
    <2>2. parents[s][1] \in Finalized /\ parents[s][2] \in Finalized
      <3>1. parents[s] \in Seq(Revision) /\ Len(parents[s]) = 2
        BY <1>1, <2>1 DEF Graph
      <3>2. parents[s][1] \in From(parents, s) /\ parents[s][2] \in From(parents, s)
        BY <3>1 DEF From
      <3> QED BY <1>1, <3>2 DEF ParentsAreFinal
    <2> QED BY <1>1, <1>3, <1>5, <2>1, <2>2 DEF MergesAreApart, IsMerge, Apart, Finalized
  <1>11. AncestryStays
    BY <1>3, <1>5 DEF AncestryStays, Finalized
  <1> QED BY <1>4, <1>7, <1>8, <1>9, <1>10, <1>11 DEF GraphIsSound

LEMMA AdvanceKeepsGraph ==
    ASSUME GraphIsSound, NEW b \in Branch, NEW r \in Revision, NEW new \in Revision,
           NEW ps \in Seq(Revision), Advance(b, r, new, ps)
    PROVE  GraphIsSound' /\ AncestryStays
  <1> DEFINE Rest == Revision \ {r, new}
  <1>1. GraphTypes /\ ParentsAreFinal /\ Acyclic(parents) /\ OneOrigin
        /\ MergesAreApart /\ parents \in Graph
    BY DEF GraphIsSound, GraphTypes
  <1>2. r # new
    BY DEF Advance
  <1>3. /\ parents' \in Graph
        /\ parents'[r] = ps /\ parents'[new] = <<r>>
        /\ \A s \in Rest : parents'[s] = parents[s]
    <2> <<r>> \in Seq(Revision)
      OBVIOUS
    <2>1. PICK pair \in Seq(Revision) : pair = <<r>>
      OBVIOUS
    <2>2. parents' = [parents EXCEPT ![r] = ps, ![new] = pair]
      BY <2>1 DEF Advance
    <2>3. parents \in [Revision -> Seq(Revision)]
      BY <1>1 DEF Graph
    <2>4. /\ parents' \in [Revision -> Seq(Revision)]
          /\ parents'[r] = ps /\ parents'[new] = pair
          /\ \A s \in Rest : parents'[s] = parents[s]
      BY <1>2, <2>2, <2>3
    <2> QED BY <2>1, <2>4 DEF Graph
  <1>4. /\ Finalized' = Finalized \cup {r}
        /\ InUse' = InUse \cup {new}
        /\ r \notin Finalized /\ r \in InUse /\ new \notin Finalized /\ new \notin InUse
        /\ state'[r] = "finalized" /\ state'[new] = "working"
        /\ \A s \in Rest : state'[s] = state[s]
    BY <1>1, <1>2 DEF Advance, GraphTypes, Finalized, InUse
  <1>5. GraphTypes'
    BY <1>1, <1>3 DEF Advance, GraphTypes
  <1>6. /\ Closed(parents, Rest)
        /\ \A s \in Rest : Reached(parents', s) = Reached(parents, s)
    <2>1. {r, new} \in SUBSET (Revision \ Finalized)
      BY <1>4
    <2> QED BY <1>3, <2>1, UnchangedPart
  <1>7. /\ From(parents', r) \subseteq Finalized
        /\ From(parents', new) = {r}
        /\ \A s \in Rest : From(parents', s) = From(parents, s)
    <2>1. From(parents', r) \subseteq Finalized
      <3>1. CASE ps = parents[r]
        BY <1>1, <1>3, <3>1 DEF From, ParentsAreFinal
      <3>2. CASE \E left, right \in Finalized : Apart(parents, left, right) /\ ps = <<left, right>>
        BY <1>3, <3>2 DEF From
      <3> QED BY <3>1, <3>2 DEF Advance
    <2> QED BY <1>3, <2>1 DEF From
  <1>8. ParentsAreFinal'
    <2>1. Len(parents'[new]) = 1
      BY <1>3
    <2>2. ASSUME NEW s \in Revision
          PROVE  /\ From(parents', s) \subseteq Finalized'
                 /\ state'[s] = "unused" => parents'[s] = <<>>
                 /\ state'[s] = "working" => Len(parents'[s]) <= 1
      <3>1. CASE s = r
        BY <1>4, <1>7, <3>1
      <3>2. CASE s = new
        <4>1. Len(parents'[s]) <= 1
          <5>1. parents'[s] = <<r>>
            BY <1>3, <3>2
          <5> QED BY <5>1
        <4>2. From(parents', s) \subseteq Finalized' /\ state'[s] = "working"
          BY <1>4, <1>7, <3>2
        <4> QED BY <4>1, <4>2
      <3>3. CASE s \in Rest
        <4>1. /\ From(parents, s) \subseteq Finalized
              /\ state[s] = "unused" => parents[s] = <<>>
              /\ state[s] = "working" => Len(parents[s]) <= 1
          BY <1>1, <3>3 DEF ParentsAreFinal
        <4> QED BY <1>3, <1>4, <1>7, <3>3, <4>1
      <3> QED BY <3>1, <3>2, <3>3
    <2> QED BY <2>2 DEF ParentsAreFinal
  <1>9. Finalized \in SUBSET Revision /\ Finalized \cup {r} \in SUBSET Revision
    BY DEF Finalized
  <1>10. Closed(parents', Finalized) /\ Closed(parents', Finalized \cup {r})
    <2>1. Closed(parents, Finalized)
      BY <1>1, FinalizedIsClosed
    <2>2. \A s \in Finalized : s \in Rest
      BY <1>4, <1>9
    <2> QED BY <1>7, <1>9, <2>1, <2>2 DEF Closed
  <1>11. Acyclic(parents)'
    <2>1. ASSUME NEW s \in Revision \ Rest
          PROVE  \E T \in SUBSET Revision :
                    Closed(parents', T) /\ s \notin T /\ From(parents', s) \subseteq T
      <3>1. CASE s = r
        BY <1>4, <1>7, <1>9, <1>10, <3>1
      <3>2. CASE s = new
        BY <1>2, <1>4, <1>7, <1>9, <1>10, <3>2
      <3> QED BY <2>1, <3>1, <3>2
    <2> HIDE DEF Rest
    <2> QED BY <1>1, <1>3, <1>6, <2>1, GrowingStaysAcyclic
  <1>12. OneOrigin'
    <2>1. head'[b] # NoRevision
      BY <1>1, NullsAreNotValues DEF Advance, GraphTypes
    <2>2. PICK origin \in Revision : \A s \in InUse : origin \in Reached(parents, s)
      BY <1>1, <1>4 DEF OneOrigin
    <2>3. \A s \in InUse \ {r} : origin \in Reached(parents', s)
      <3>1. \A s \in InUse \ {r} : s \in Rest
        BY <1>4 DEF InUse
      <3> QED BY <1>6, <2>2, <3>1
    <2>4. origin \in Reached(parents', r)
      <3>1. CASE ps = parents[r]
        <4>1. \A s \in Revision \ {new} : parents'[s] = parents[s]
          BY <1>3, <3>1
        <4>2. {new} \in SUBSET (Revision \ Finalized)
          BY <1>4
        <4>3. Reached(parents', r) = Reached(parents, r)
          BY <1>2, <1>3, <4>1, <4>2, UnchangedPart
        <4> QED BY <1>4, <2>2, <4>3
      <3>2. CASE \E left, right \in Finalized : Apart(parents, left, right) /\ ps = <<left, right>>
        <4>1. PICK left \in Finalized, right \in Finalized : ps = <<left, right>>
          BY <3>2
        <4>2. left \in From(parents', r) /\ left \in InUse \ {r}
          BY <1>3, <1>4, <4>1 DEF From, Finalized, InUse
        <4> QED BY <1>3, <2>3, <4>2, ReachedByParent
      <3> QED BY <3>1, <3>2 DEF Advance
    <2>5. origin \in Reached(parents', new)
      BY <1>3, <1>7, <2>4, ReachedByParent
    <2>6. \A s \in InUse' : origin \in Reached(parents', s)
      BY <1>4, <2>3, <2>4, <2>5
    <2> QED BY <2>1, <2>6 DEF OneOrigin
  <1>13. MergesAreApart'
    <2> SUFFICES ASSUME NEW s \in Revision, Len(parents'[s]) = 2
                 PROVE  /\ parents'[s][1] \notin Reached(parents', parents'[s][2])
                        /\ parents'[s][2] \notin Reached(parents', parents'[s][1])
      BY DEF MergesAreApart, IsMerge, Apart
    <2>1. \A f \in Finalized : Reached(parents', f) = Reached(parents, f)
      BY <1>4, <1>6, <1>9
    <2>2. CASE s \in Rest
      <3>1. parents'[s] = parents[s]
        BY <1>3, <2>2
      <3>2. parents[s][1] \in Finalized /\ parents[s][2] \in Finalized
        <4>1. parents[s] \in Seq(Revision) /\ Len(parents[s]) = 2
          BY <1>1, <3>1 DEF Graph
        <4>2. parents[s][1] \in From(parents, s) /\ parents[s][2] \in From(parents, s)
          BY <4>1 DEF From
        <4> QED BY <1>1, <4>2 DEF ParentsAreFinal
      <3> QED BY <1>1, <2>1, <3>1, <3>2 DEF MergesAreApart, IsMerge, Apart
    <2>3. CASE s = new
      <3>1. Len(parents'[new]) = 1
        BY <1>3
      <3>2. Len(parents'[new]) = 2
        BY <2>3
      <3> QED BY <3>1, <3>2
    <2>4. CASE s = r
      <3>1. Len(ps) = 2
        BY <1>3, <2>4
      <3>2. ps # parents[r]
        <4>1. Len(parents[r]) <= 1
          BY <1>1 DEF ParentsAreFinal, Advance
        <4>2. ASSUME ps = parents[r] PROVE Len(ps) <= 1
          BY <4>1, <4>2
        <4> QED BY <3>1, <4>2
      <3>3. PICK left \in Finalized, right \in Finalized :
               Apart(parents, left, right) /\ ps = <<left, right>>
        BY <3>2 DEF Advance
      <3>4. parents'[s][1] = left /\ parents'[s][2] = right
        BY <1>3, <2>4, <3>3
      <3> QED BY <2>1, <3>3, <3>4 DEF Apart
    <2> QED BY <2>2, <2>3, <2>4
  <1>14. AncestryStays
    BY <1>4, <1>6, <1>9 DEF AncestryStays
  <1> QED BY <1>5, <1>8, <1>11, <1>12, <1>13, <1>14 DEF GraphIsSound

LEMMA StutterKeepsGraph ==
    ASSUME GraphIsSound, UNCHANGED <<head, state, parents>>
    PROVE  GraphIsSound' /\ AncestryStays
  <1>1. Finalized' = Finalized /\ InUse' = InUse /\ parents' = parents
        /\ head' = head /\ state' = state
    BY DEF Finalized, InUse
  <1>2. GraphTypes' /\ ParentsAreFinal' /\ Acyclic(parents)' /\ MergesAreApart'
    BY <1>1 DEF GraphIsSound, GraphTypes, ParentsAreFinal, MergesAreApart, IsMerge, Apart
  <1>3. OneOrigin'
    BY <1>1 DEF GraphIsSound, OneOrigin
  <1>4. AncestryStays
    BY <1>1 DEF AncestryStays
  <1> QED BY <1>2, <1>3, <1>4 DEF GraphIsSound

LEMMA GraphStepKeepsGraph ==
    ASSUME GraphIsSound, GraphStep
    PROVE  GraphIsSound' /\ AncestryStays
  BY StutterKeepsGraph, NewHeadKeepsGraph, AdvanceKeepsGraph DEF GraphStep

LEMMA EditsKeepGraph ==
    ASSUME NEW b, NEW edits, NEW action, NEW target, ApplyEdits(b, edits, action, target)
    PROVE  UNCHANGED <<head, state, parents>>
  BY DEF ApplyEdits

LEMMA StoreStepsGraph ==
    ASSUME GraphIsSound, Next
    PROVE  GraphStep
  <1>1. GraphTypes /\ ParentsAreFinal /\ OneOrigin
    BY DEF GraphIsSound
  <1>2. CASE \E b \in Branch, r \in Revision : CreateProject(b, r)
    <2>1. PICK b \in Branch, r \in Revision : CreateProject(b, r)
      BY <1>2
    <2>2. InUse = {}
      BY <1>1, <2>1 DEF CreateProject, OneOrigin
    <2> <<>> \in Seq(Revision)
      OBVIOUS
    <2>3. PICK none \in Seq(Revision) : none = <<>>
      OBVIOUS
    <2>4. parents[r] = none
      BY <1>1, <2>1, <2>3 DEF CreateProject, ParentsAreFinal
    <2>5. parents' = [parents EXCEPT ![r] = none]
      BY <1>1, <2>1, <2>4 DEF CreateProject, GraphTypes, Graph
    <2>6. NewHead(b, r, none)
      BY <2>1, <2>2, <2>3, <2>5 DEF CreateProject, NewHead
    <2> QED BY <2>6 DEF GraphStep
  <1>3. CASE \E b \in Branch, r, base \in Revision : CreateBranch(b, r, base)
    <2>1. PICK b \in Branch, r \in Revision, base \in Revision : CreateBranch(b, r, base)
      BY <1>3
    <2> <<base>> \in Seq(Revision) /\ <<base>> # <<>>
      OBVIOUS
    <2>2. PICK ps \in Seq(Revision) : ps = <<base>> /\ ps # <<>>
      OBVIOUS
    <2>3. base \in Finalized
      BY <2>1 DEF CreateBranch, Finalized
    <2>4. NewHead(b, r, ps)
      BY <2>1, <2>2, <2>3 DEF CreateBranch, NewHead
    <2> QED BY <2>4 DEF GraphStep
  <1>4. CASE \E b \in Branch, new \in Revision, expected \in Generations :
                Finalize(b, new, expected)
    <2>1. PICK b \in Branch, new \in Revision, expected \in Generations :
             Finalize(b, new, expected)
      BY <1>4
    <2>2. PICK r \in Revision : r = head[b] /\ state[r] = "working"
      BY <1>1, <2>1 DEF Finalize, HasWorkingHead, GraphTypes
    <2>3. PICK ps \in Seq(Revision) : ps = parents[r]
      BY <1>1 DEF GraphTypes, Graph
    <2>4. parents' = [parents EXCEPT ![r] = ps, ![new] = <<r>>]
      <3>1. parents = [parents EXCEPT ![r] = ps]
        BY <1>1, <2>3 DEF GraphTypes, Graph
      <3>2. parents' = [parents EXCEPT ![new] = <<r>>]
        BY <2>1, <2>2 DEF Finalize
      <3> QED BY <3>1, <3>2
    <2>5. Advance(b, r, new, ps)
      BY <2>1, <2>2, <2>3, <2>4 DEF Finalize, SealAndAdvance, Advance
    <2> QED BY <2>5 DEF GraphStep
  <1>5. CASE UNCHANGED <<head, state, parents>>
    BY <1>5 DEF GraphStep
  <1>6. CASE \E b \in Branch, edit \in Edit : ModifyObject(b, edit)
    BY <1>5, <1>6, EditsKeepGraph DEF ModifyObject
  <1>7. CASE \E b \in Branch, expected \in Generations, edits \in EditGroups :
                CommitObjectGroup(b, expected, edits)
    BY <1>5, <1>7, EditsKeepGraph DEF CommitObjectGroup
  <1>8. CASE \E b \in Branch, expected \in Generations, redo \in BOOLEAN :
                CompensateObjectGroup(b, expected, redo)
    BY <1>5, <1>8, EditsKeepGraph DEF CompensateObjectGroup
  <1>9. CASE \E b \in Branch, expected \in Generations, bytes \in Bytes :
                ReplaceWorkingSnapshot(b, expected, bytes)
    BY <1>5, <1>9 DEF ReplaceWorkingSnapshot, ApplySnapshotOperation
  <1>10. CASE \E b \in Branch, expected \in Generations : UndoLastChange(b, expected)
    BY <1>5, <1>10 DEF UndoLastChange, ApplySnapshotOperation
  <1>11. CASE \E b \in Branch, expected \in Generations : RedoLastChange(b, expected)
    BY <1>5, <1>11 DEF RedoLastChange, ApplySnapshotOperation
  <1> QED
    BY <1>2, <1>3, <1>4, <1>6, <1>7, <1>8, <1>9, <1>10, <1>11 DEF Next

LEMMA CommitStepsGraph ==
    ASSUME GraphInvariant, NEW m \in Merger, NEW new \in Revision, CommitMerge(m, new)
    PROVE  GraphStep
  <1>1. PICK b \in Branch, r \in Revision, left \in Finalized, right \in Finalized :
           /\ b = merge[m].branch /\ r = merge[m].working
           /\ left = merge[m].left /\ right = merge[m].right
           /\ Apart(parents, left, right)
    BY DEF GraphInvariant, PlansAreApart, CommitMerge
  <1>2. left \in Revision /\ right \in Revision
    BY DEF Finalized
  <1> <<left, right>> \in Seq(Revision)
    BY <1>2
  <1>3. PICK ps \in Seq(Revision) : ps = <<left, right>>
    OBVIOUS
  <1>4. state[r] = "working" /\ state[new] = "unused"
    BY <1>1 DEF CommitMerge, TargetUnchanged, SealAndAdvance
  <1>5. /\ head' = [head EXCEPT ![b] = new]
        /\ state' = [state EXCEPT ![r] = "finalized", ![new] = "working"]
        /\ parents' = [parents EXCEPT ![r] = ps, ![new] = <<r>>]
    BY <1>1, <1>3 DEF CommitMerge, SealAndAdvance, MergeParents
  <1>6. Advance(b, r, new, ps)
    BY <1>1, <1>3, <1>4, <1>5 DEF Advance
  <1> QED BY <1>6 DEF GraphStep

\* What a merger has read stays right while others go on.
LEMMA PlansStayApart ==
    ASSUME PlansAreApart, AncestryStays, NEW m \in Merger, merge[m] # NoMerge
    PROVE  /\ merge[m].left \in Finalized' /\ merge[m].right \in Finalized'
           /\ merge[m].stage = "planned" => Apart(parents', merge[m].left, merge[m].right)
  <1>1. PICK left \in Finalized, right \in Finalized :
           /\ left = merge[m].left /\ right = merge[m].right
           /\ merge[m].stage = "planned" => Apart(parents, left, right)
    BY DEF PlansAreApart
  <1>2. /\ left \in Finalized' /\ right \in Finalized'
        /\ Reached(parents', left) = Reached(parents, left)
        /\ Reached(parents', right) = Reached(parents, right)
    BY <1>1 DEF AncestryStays
  <1>3. Apart(parents, left, right) => Apart(parents', left, right)
    BY <1>2 DEF Apart
  <1> QED BY <1>1, <1>2, <1>3

\* What the invariant says of the merge a merger is preparing.
PlanIsApart(plan) ==
    /\ {"stage", "branch", "working", "left", "right"} \subseteq DOMAIN plan
    /\ plan.branch \in Branch /\ plan.working \in Revision
    /\ plan.left \in Finalized /\ plan.right \in Finalized
    /\ plan.stage = "planned" => Apart(parents, plan.left, plan.right)

\* The reads of a merger change its own plan only.
ReadsPlan(m) ==
    /\ UNCHANGED tables
    /\ DOMAIN merge' = Merger
    /\ PlanIsApart(merge'[m])
    /\ \A other \in Merger \ {m} : merge'[other] = merge[other]

LEMMA BeginReadsPlan ==
    ASSUME GraphInvariant, NEW m \in Merger, NEW b \in Branch, NEW expected,
           NEW right \in Revision, BeginMerge(m, b, expected, right)
    PROVE  ReadsPlan(m)
  <1>1. PICK r \in Revision : r = head[b]
    BY DEF GraphInvariant, GraphIsSound, GraphTypes, BeginMerge, HasWorkingHead
  <1>2. PICK left : left = parents[r][1]
    OBVIOUS
  <1>3. left \in Revision
    <2>1. parents[r] \in Seq(Revision)
      BY DEF GraphInvariant, GraphIsSound, GraphTypes, Graph
    <2>2. Len(parents[r]) = 1
      BY <1>1 DEF BeginMerge
    <2> QED BY <1>2, <2>1, <2>2
  <1>4. left \in Finalized /\ right \in Finalized
    BY <1>1, <1>2, <1>3 DEF BeginMerge, Finalized
  <1>5. DOMAIN merge = Merger
    BY DEF GraphInvariant, PlansAreApart
  <1>6. PICK plan : /\ merge' = [merge EXCEPT ![m] = plan]
                    /\ plan = [stage    |-> "begun",
                               branch   |-> b,        working |-> r,
                               expected |-> expected, left    |-> left,
                               right    |-> right,    sealed  |-> FALSE,
                               seen     |-> EmptyModel, digest |-> NoRoot,
                               plan     |-> <<>>]
    BY <1>1, <1>2 DEF BeginMerge
  <1>7. PlanIsApart(plan)
    BY <1>4, <1>6 DEF PlanIsApart
  <1>8. UNCHANGED tables
    BY DEF BeginMerge
  <1> QED BY <1>5, <1>6, <1>7, <1>8 DEF ReadsPlan

LEMMA OpenReadsPlan ==
    ASSUME GraphInvariant, NEW m \in Merger, OpenPreview(m)
    PROVE  ReadsPlan(m)
  <1>1. DOMAIN merge = Merger /\ PlanIsApart(merge[m])
    BY DEF GraphInvariant, PlansAreApart, PlanIsApart, OpenPreview
  <1>2. PICK sealed : merge' = [merge EXCEPT ![m].stage = "opened", ![m].sealed = sealed]
    BY DEF OpenPreview
  <1>3. PICK plan : plan = [merge[m] EXCEPT !.stage = "opened", !.sealed = sealed]
    OBVIOUS
  <1>4. PlanIsApart(plan)
    BY <1>1, <1>3 DEF PlanIsApart
  <1>5. UNCHANGED tables
    BY DEF OpenPreview
  <1> QED BY <1>1, <1>2, <1>3, <1>4, <1>5 DEF ReadsPlan

LEMMA ReadReadsPlan ==
    ASSUME GraphInvariant, NEW m \in Merger, ReadLeft(m)
    PROVE  ReadsPlan(m)
  <1>1. DOMAIN merge = Merger /\ PlanIsApart(merge[m])
    BY DEF GraphInvariant, PlansAreApart, PlanIsApart, ReadLeft
  <1>2. PICK seen : merge' = [merge EXCEPT ![m].stage = "read", ![m].seen = seen]
    BY DEF ReadLeft
  <1>3. PICK plan : plan = [merge[m] EXCEPT !.stage = "read", !.seen = seen]
    OBVIOUS
  <1>4. PlanIsApart(plan)
    BY <1>1, <1>3 DEF PlanIsApart
  <1>5. UNCHANGED tables
    BY DEF ReadLeft
  <1> QED BY <1>1, <1>2, <1>3, <1>4, <1>5 DEF ReadsPlan

LEMMA PlanReadsPlan ==
    ASSUME GraphInvariant, NEW m \in Merger, NEW resolutions, PlanMerge(m, resolutions)
    PROVE  ReadsPlan(m)
  <1>1. DOMAIN merge = Merger /\ PlanIsApart(merge[m])
    BY DEF GraphInvariant, PlansAreApart, PlanIsApart, PlanMerge
  <1>2. PICK seen, digest, chosen :
           merge' = [merge EXCEPT ![m].stage = "planned", ![m].seen = seen,
                                  ![m].digest = digest, ![m].plan = chosen]
    BY DEF PlanMerge
  <1>3. PICK plan : plan = [merge[m] EXCEPT !.stage = "planned", !.seen = seen,
                                            !.digest = digest, !.plan = chosen]
    OBVIOUS
  <1>4. PICK left \in Finalized, right \in Finalized :
           left = merge[m].left /\ right = merge[m].right
    BY <1>1 DEF PlanIsApart
  <1>5. Apart(parents, left, right)
    <2>1. Diverged(left, right)
      BY <1>4 DEF PlanMerge
    <2>2. parents \in Graph /\ left \in Revision /\ right \in Revision
      BY DEF GraphInvariant, GraphIsSound, GraphTypes, Finalized
    <2>3. Ancestors(left) = Reached(parents, left)
          /\ Ancestors(right) = Reached(parents, right)
      BY <2>2, AncestorsAreReached
    <2> QED BY <2>1, <2>3 DEF Diverged, Apart
  <1>6. PlanIsApart(plan)
    BY <1>1, <1>3, <1>4, <1>5 DEF PlanIsApart
  <1>7. UNCHANGED tables
    BY DEF PlanMerge
  <1> QED BY <1>1, <1>2, <1>3, <1>6, <1>7 DEF ReadsPlan

LEMMA MergeStepKinds ==
    ASSUME GraphInvariant, MergeNext
    PROVE  \/ Next /\ UNCHANGED merge
           \/ \E m \in Merger : ReadsPlan(m)
           \/ \E m \in Merger, new \in Revision : CommitMerge(m, new)
  BY BeginReadsPlan, OpenReadsPlan, ReadReadsPlan, PlanReadsPlan DEF MergeNext

LEMMA MergeNextKeepsGraphInvariant ==
    ASSUME GraphInvariant, [MergeNext]_mergeVars
    PROVE  GraphInvariant' /\ AncestryStays
  <1>1. GraphIsSound /\ PlansAreApart /\ DOMAIN merge = Merger
        /\ \A m \in Merger : merge[m] # NoMerge => PlanIsApart(merge[m])
    BY DEF GraphInvariant, PlansAreApart, PlanIsApart
  <1>2. \/ Next /\ UNCHANGED merge
        \/ \E m \in Merger : ReadsPlan(m)
        \/ \E m \in Merger, new \in Revision : CommitMerge(m, new)
        \/ UNCHANGED mergeVars
    BY MergeStepKinds
  <1>3. GraphStep
    <2>1. CASE Next
      BY <1>1, <2>1, StoreStepsGraph
    <2>2. CASE \E m \in Merger, new \in Revision : CommitMerge(m, new)
      BY <2>2, CommitStepsGraph
    <2>3. CASE UNCHANGED tables
      BY <2>3 DEF tables, GraphStep
    <2> QED BY <1>2, <2>1, <2>2, <2>3 DEF ReadsPlan, mergeVars
  <1>4. GraphIsSound' /\ AncestryStays
    BY <1>1, <1>3, GraphStepKeepsGraph
  <1>5. DOMAIN merge' = Merger
    BY <1>1, <1>2 DEF ReadsPlan, CommitMerge, mergeVars
  <1>6. ASSUME NEW m \in Merger, merge'[m] # NoMerge PROVE PlanIsApart(merge[m])'
    <2>1. CASE merge'[m] = merge[m]
      <3>1. merge[m] # NoMerge
        BY <1>6, <2>1
      <3>2. /\ merge[m].left \in Finalized' /\ merge[m].right \in Finalized'
            /\ merge[m].stage = "planned" => Apart(parents', merge[m].left, merge[m].right)
        BY <1>1, <1>4, <3>1, PlansStayApart
      <3>3. /\ {"stage", "branch", "working", "left", "right"} \subseteq DOMAIN merge[m]
            /\ merge[m].branch \in Branch /\ merge[m].working \in Revision
        BY <1>1, <3>1 DEF PlanIsApart
      <3> QED BY <2>1, <3>2, <3>3 DEF PlanIsApart
    <2>2. CASE merge'[m] # merge[m]
      <3>1. CASE \E n \in Merger : ReadsPlan(n)
        <4>1. PICK n \in Merger : ReadsPlan(n)
          BY <3>1
        <4>2. n = m
          BY <2>2, <4>1 DEF ReadsPlan
        <4>3. PlanIsApart(merge'[m]) /\ state' = state /\ parents' = parents
          BY <4>1, <4>2 DEF ReadsPlan, tables
        <4> QED BY <4>3 DEF PlanIsApart, Finalized
      <3>2. CASE \E n \in Merger, new \in Revision : CommitMerge(n, new)
        <4>1. PICK n \in Merger : merge' = [merge EXCEPT ![n] = NoMerge]
          BY <3>2 DEF CommitMerge
        <4> QED BY <1>1, <1>6, <2>2, <4>1
      <3> QED BY <1>2, <2>2, <3>1, <3>2 DEF mergeVars
    <2> QED BY <2>1, <2>2
  <1>7. PlansAreApart'
    BY <1>5, <1>6 DEF PlansAreApart, PlanIsApart
  <1> QED BY <1>4, <1>7 DEF GraphInvariant

LEMMA InitGraphInvariant ==
    ASSUME MergeInit
    PROVE  GraphInvariant
  <1>1. PICK none \in Seq(Revision) : none = <<>>
    <2> <<>> \in Seq(Revision)
      OBVIOUS
    <2> QED OBVIOUS
  <1>2. /\ head = [b \in Branch |-> NoRevision]
        /\ state = [r \in Revision |-> "unused"]
        /\ parents = [r \in Revision |-> none]
        /\ merge = [m \in Merger |-> NoMerge]
    BY <1>1 DEF MergeInit, Init
  <1>3. GraphTypes
    BY <1>2 DEF GraphTypes, Graph
  <1>4. \A r \in Revision : From(parents, r) = {} /\ Len(parents[r]) = 0
    BY <1>1, <1>2 DEF From
  <1>5. ParentsAreFinal /\ Acyclic(parents) /\ MergesAreApart
    BY <1>1, <1>2, <1>4 DEF ParentsAreFinal, Acyclic, MergesAreApart, IsMerge
  <1>6. OneOrigin
    BY <1>2 DEF OneOrigin, InUse
  <1>7. PlansAreApart
    BY <1>2 DEF PlansAreApart
  <1> QED BY <1>3, <1>5, <1>6, <1>7 DEF GraphInvariant, GraphIsSound

LEMMA GraphInvariantHolds == MergeSpec => []GraphInvariant
  <1>1. GraphInvariant /\ [MergeNext]_mergeVars => GraphInvariant'
    BY MergeNextKeepsGraphInvariant
  <1> QED BY <1>1, InitGraphInvariant, PTL DEF MergeSpec

\* The common ancestors of a working revision are those of its parent.
LEMMA WorkingSharesCommon ==
    ASSUME GraphIsSound, NEW left \in InUse, NEW right \in Finalized,
           state[left] = "working", parents[left] # <<>>
    PROVE  /\ parents[left][1] \in Finalized
           /\ Reached(parents, left) \cap Reached(parents, right)
                = Reached(parents, parents[left][1]) \cap Reached(parents, right)
  <1>1. ParentsAreFinal /\ parents \in Graph /\ left \in Revision /\ right \in Revision
    BY DEF GraphIsSound, GraphTypes, InUse, Finalized
  <1>2. PICK p : p = parents[left][1]
    OBVIOUS
  <1>3. From(parents, left) = {p}
    <2>1. parents[left] \in Seq(Revision) /\ Len(parents[left]) <= 1
      BY <1>1 DEF Graph, ParentsAreFinal
    <2>2. DOMAIN parents[left] = {1}
      BY <2>1
    <2> QED BY <1>2, <2>2 DEF From
  <1>4. p \in Finalized
    BY <1>1, <1>3 DEF ParentsAreFinal
  <1>5. \A a \in Reached(parents, left) : a = left \/ a \in Reached(parents, p)
    BY <1>1, <1>3, ReachedUnfolds
  <1>6. Reached(parents, p) \subseteq Reached(parents, left)
    BY <1>1, <1>3, ReachedByParent
  <1>7. left \notin Reached(parents, right)
    <2>1. Closed(parents, Finalized)
      BY <1>1, FinalizedIsClosed
    <2>2. Reached(parents, right) \subseteq Finalized
      BY <2>1, ReachedIsLeast
    <2> QED BY <2>2 DEF Finalized
  <1> QED BY <1>2, <1>4, <1>5, <1>6, <1>7

LEMMA SoundGraphsHaveBases ==
    ASSUME GraphIsSound
    PROVE  MergeBasesAreBest
  <1> DEFINE Common(left, right) == Reached(parents, left) \cap Reached(parents, right)
  <1>1. parents \in Graph /\ Acyclic(parents)
    BY DEF GraphIsSound, GraphTypes
  <1>2. \A left \in InUse, right \in Finalized :
           MergeBases(left, right) = Best(parents, Common(left, right))
           /\ Common(left, right) # {}
    BY BasesAreBest
  <1>3. ASSUME NEW left \in InUse, NEW right \in Finalized
        PROVE  /\ MergeBases(left, right) = BestCommonAncestors(Descends, left, right)
               /\ MergeBases(left, right) # {}
               /\ state[left] = "working" /\ parents[left] # <<>> =>
                     MergeBases(left, right) = MergeBases(parents[left][1], right)
    <2>1. left \in Revision /\ right \in Revision
      BY DEF InUse, Finalized
    <2>2. PICK C \in SUBSET Revision : C = Common(left, right)
      BY DEF Reached
    <2>3. BestCommonAncestors(Descends, left, right) = Best(parents, C)
      <3>1. Descends[left] \cap Descends[right] = C
        BY <2>1, <2>2, DescendsIsReached
      <3>2. \A d \in C : Descends[d] = Reached(parents, d)
        BY DescendsIsReached
      <3> QED BY <3>1, <3>2 DEF BestCommonAncestors, Best
    <2>4. MergeBases(left, right) = Best(parents, C) /\ C # {}
      BY <1>2, <2>2
    <2>5. Best(parents, C) # {}
      BY <1>1, <2>4, BestExists
    <2>6. ASSUME state[left] = "working", parents[left] # <<>>
          PROVE  MergeBases(left, right) = MergeBases(parents[left][1], right)
      <3>1. PICK p : p = parents[left][1]
        OBVIOUS
      <3>2. p \in Finalized /\ Common(p, right) = C
        BY <2>2, <2>6, <3>1, WorkingSharesCommon
      <3>3. p \in InUse
        BY <3>2 DEF Finalized, InUse
      <3>4. MergeBases(p, right) = Best(parents, C)
        BY <1>2, <3>2, <3>3
      <3> QED BY <2>4, <3>1, <3>4
    <2> QED BY <2>3, <2>4, <2>5, <2>6
  <1> QED BY <1>3 DEF MergeBasesAreBest, InUse, Finalized

LEMMA SoundMergesDiverge ==
    ASSUME GraphIsSound
    PROVE  MergeParentsDiverge
  <1>1. SUFFICES ASSUME NEW r \in Revision, IsMerge(r)
                 PROVE  /\ {state[r], state[parents[r][1]], state[parents[r][2]]}
                              = {"finalized"}
                        /\ parents[r][1] \notin Descends[parents[r][2]]
                        /\ parents[r][2] \notin Descends[parents[r][1]]
    BY DEF MergeParentsDiverge
  <1>2. ParentsAreFinal /\ MergesAreApart /\ GraphTypes
    BY DEF GraphIsSound
  <1>3. parents[r] \in Seq(Revision) /\ Len(parents[r]) = 2
    BY <1>1, <1>2 DEF GraphTypes, Graph, IsMerge
  <1>4. PICK left, right : left = parents[r][1] /\ right = parents[r][2]
    OBVIOUS
  <1>5. left \in Finalized /\ right \in Finalized
    <2>1. left \in From(parents, r) /\ right \in From(parents, r)
      BY <1>3, <1>4 DEF From
    <2> QED BY <1>2, <2>1 DEF ParentsAreFinal
  <1>6. left \in Revision /\ right \in Revision
        /\ state[left] = "finalized" /\ state[right] = "finalized"
    BY <1>5 DEF Finalized
  <1>7. state[r] = "finalized"
    <2>1. parents[r] # <<>> /\ ~(Len(parents[r]) <= 1)
      <3>1. PICK n : n = Len(parents[r])
        OBVIOUS
      <3>2. n = 2
        BY <1>3, <3>1
      <3>3. ~(n <= 1)
        BY <3>2
      <3>4. ASSUME parents[r] = <<>> PROVE FALSE
        <4>1. n = 0
          BY <3>1, <3>4
        <4> QED BY <3>2, <4>1
      <3> QED BY <3>1, <3>3, <3>4
    <2>2. state[r] # "unused" /\ state[r] # "working"
      BY <1>2, <2>1 DEF ParentsAreFinal
    <2> QED BY <1>2, <2>2 DEF GraphTypes
  <1>8. Apart(parents, left, right)
    BY <1>1, <1>2, <1>4 DEF MergesAreApart
  <1>9. left \notin Descends[right] /\ right \notin Descends[left]
    BY <1>6, <1>8, DescendsIsReached DEF Apart
  <1> QED BY <1>4, <1>6, <1>7, <1>9

-----------------------------------------------------------------------------
(* The three-way merge of one object.                                      *)

\* What an editor sees of a row that is sound: nothing, or a kind and content.
LiveRow == {Nothing} \cup [kind : Kind, content : Content]

LEMMA NothingHasNoContent ==
    /\ Nothing = [kind |-> NoKind, content |-> NoContent]
    /\ \A live \in LiveRow : live = Nothing \/ live \in [kind : Kind, content : Content]
    /\ \A live \in LiveRow : live.content = NoContent <=> live = Nothing
    /\ \A live \in LiveRow : live.content \in Content \cup {NoContent}
  BY NullsAreNotValues DEF LiveRow, Nothing, Live, Absent

LEMMA LiveType ==
    ASSUME NEW row \in Row, SoundRow(row)
    PROVE  Live(row) \in LiveRow
  <1>1. CASE row = Absent
    BY <1>1 DEF LiveRow, Nothing
  <1>2. CASE row \in StoredRow
    <2>1. CASE row.deleted
      BY <2>1 DEF LiveRow, Nothing, Live, Absent
    <2>2. CASE ~row.deleted
      <3>1. row.kind \in Kind /\ row.content \in Content
        BY <1>2, <2>2 DEF StoredRow, SoundRow
      <3> QED BY <2>2, <3>1 DEF LiveRow, Live
    <2> QED BY <2>1, <2>2
  <1> QED BY <1>1, <1>2 DEF Row

\* Fields taken from either side make a content of the kind.
LEMMA MergedFieldsAreLive ==
    ASSUME NEW base \in LiveRow, NEW left \in LiveRow, NEW right \in LiveRow,
           FieldsComparable(base, left, right), NEW fromRight
    PROVE  MergedFields(base, left, right, fromRight) \in LiveRow
  <1>1. left \in [kind : Kind, content : Content]
        /\ right \in [kind : Kind, content : Content] /\ TypedKind # {}
    BY NothingHasNoContent DEF FieldsComparable
  <1> DEFINE taken == {f \in Field :
                         \/ left.content[f] = base.content[f]
                         \/ f \in ConflictingFields(base, left, right) \cap fromRight}
             mixed == [f \in Field |-> IF f \in taken THEN right.content[f]
                                                      ELSE left.content[f]]
  <1>2. taken \in SUBSET Field
    OBVIOUS
  <1>3. mixed \in Content
    <2>1. left.content \in Content /\ right.content \in Content
      BY <1>1
    <2> HIDE DEF taken
    <2> QED BY <1>1, <1>2, <2>1, TypedContentHasFields
  <1>4. MergedFields(base, left, right, fromRight) = [kind |-> left.kind, content |-> mixed]
    BY DEF MergedFields
  <1> HIDE DEF mixed
  <1> QED BY <1>1, <1>3, <1>4 DEF LiveRow

\* What the caller has resolved may be applied.
Resolved(resolution, base, left, right) ==
    ChangeKind(base, left, right) = "conflict" => Resolves(resolution, base, left, right)

LEMMA ChangeKinds ==
    ASSUME NEW base, NEW left, NEW right
    PROVE  LET change == ChangeKind(base, left, right) IN
           /\ left = base /\ right = base => change = "none"
           /\ left = base /\ right # base => change = "right only"
           /\ left # base /\ right = base => change = "left only"
           /\ left # base /\ right # base /\ left = right => change = "both same"
           /\ left # base /\ right # base /\ left # right =>
                 \/ change = "conflict"
                 \/ change = "fields merged" /\ FieldsComparable(base, left, right)
                                             /\ ConflictingFields(base, left, right) = {}
  BY DEF ChangeKind

LEMMA FieldsFollowThreeWay ==
    ASSUME NEW base, NEW left, NEW right, NEW fromRight,
           FieldsComparable(base, left, right),
           left # base, right # base, left # right
    PROVE  ThreeWay(base, left, right, MergedFields(base, left, right, fromRight))
  BY DEF ThreeWay, MergedFields, ConflictingFields

\* Whatever the caller resolves, the object that previewObjectMerge chooses is
\* the three-way merge of the three, and one that can be stored.
LEMMA ChosenIsThreeWay ==
    ASSUME NEW base \in LiveRow, NEW left \in LiveRow, NEW right \in LiveRow,
           NEW resolution \in Resolution, Resolved(resolution, base, left, right)
    PROVE  /\ ThreeWay(base, left, right, Chosen(base, left, right, resolution))
           /\ Chosen(base, left, right, resolution) \in LiveRow
  <1>1. PICK change, chosen : /\ change = ChangeKind(base, left, right)
                              /\ chosen = Chosen(base, left, right, resolution)
    OBVIOUS
  <1>2. resolution.side \in {"left", "right", "fields"}
    BY DEF Resolution
  <1>3. /\ left = base /\ right = base => change = "none"
        /\ left = base /\ right # base => change = "right only"
        /\ left # base /\ (right = base \/ left = right) =>
              change \in {"left only", "both same"}
        /\ left # base /\ right # base /\ left # right =>
              \/ change = "conflict"
              \/ change = "fields merged" /\ FieldsComparable(base, left, right)
    BY <1>1, ChangeKinds
  <1>4. CASE change \in {"none", "left only", "both same"}
    <2>1. chosen = left
      BY <1>1, <1>4 DEF Chosen
    <2> QED BY <1>1, <1>3, <1>4, <2>1 DEF ThreeWay
  <1>5. CASE change = "right only"
    <2>1. chosen = right
      BY <1>1, <1>5 DEF Chosen
    <2> QED BY <1>1, <1>3, <1>5, <2>1 DEF ThreeWay
  <1>6. CASE left # base /\ right # base /\ left # right
    <2>1. CASE chosen \in {left, right}
      BY <1>1, <1>6, <2>1 DEF ThreeWay
    <2>2. CASE chosen \notin {left, right}
      <3>1. PICK fromRight : chosen = MergedFields(base, left, right, fromRight)
        BY <1>1, <2>2 DEF Chosen
      <3>2. FieldsComparable(base, left, right)
        <4>1. CASE change = "conflict"
          <5>1. resolution.side = "fields"
            BY <1>1, <1>2, <2>2, <4>1 DEF Chosen
          <5> QED BY <1>1, <4>1, <5>1 DEF Resolved, Resolves
        <4>2. CASE change # "conflict"
          BY <1>3, <1>6, <4>2
        <4> QED BY <4>1, <4>2
      <3> QED BY <1>1, <1>6, <3>1, <3>2, FieldsFollowThreeWay, MergedFieldsAreLive
    <2> QED BY <2>1, <2>2
  <1> QED BY <1>3, <1>4, <1>5, <1>6

-----------------------------------------------------------------------------
(* The edits of a merge commit.                                            *)

\* SetToSeq lists every element of a finite set exactly once.
LEMMA SetToSeqLists ==
    ASSUME NEW S, IsFiniteSet(S)
    PROVE  LET list == Seqs!SetToSeq(S) IN
           /\ list \in Seq(S)
           /\ \A i, k \in DOMAIN list : list[i] = list[k] => i = k
           /\ \A s \in S : \E i \in DOMAIN list : list[i] = s
  <1> DEFINE n    == Cardinality(S)
             list == Seqs!SetToSeq(S)
  <1>1. n \in Nat /\ ExistsBijection(1..n, S)
    BY FS_CardinalityType
  <1>2. \E f \in [1..n -> S] : Seqs!IsInjective(f)
    BY <1>1 DEF ExistsBijection, Bijection, Injection, IsInjective, Seqs!IsInjective
  <1>3. list \in [1..n -> S] /\ Seqs!IsInjective(list)
    <2>1. Seqs!Cardinality(S) = Cardinality(S)
      BY DEF Seqs!Cardinality, Cardinality
    <2>2. list = CHOOSE f \in [1..n -> S] : Seqs!IsInjective(f)
      BY <2>1 DEF Seqs!SetToSeq
    <2> HIDE DEF n, list
    <2> QED BY <1>2, <2>2
  <1> HIDE DEF n, list
  <1>4. list \in Injection(1..n, S)
    BY <1>3 DEF Injection, IsInjective, Seqs!IsInjective
  <1>5. IsFiniteSet(1..n) /\ Cardinality(1..n) = n
    BY <1>1, FS_Interval
  <1>6. list \in Surjection(1..n, S)
    BY <1>4, <1>5, FS_Injection DEF n
  <1>7. \A s \in S : \E i \in DOMAIN list : list[i] = s
    BY <1>3, <1>6 DEF Surjection
  <1>8. list \in Seq(S)
    BY <1>1, <1>3
  <1>9. \A i, k \in DOMAIN list : list[i] = list[k] => i = k
    BY <1>3 DEF Seqs!IsInjective
  <1> QED BY <1>7, <1>8, <1>9 DEF list

\* The edits that turn the rows of a model into the planned objects.
PlannedEdits(model, plan) ==
    [i \in DOMAIN Seqs!SetToSeq(DOMAIN plan) |->
        LET o == Seqs!SetToSeq(DOMAIN plan)[i]
        IN  MergeEdit(model[o], o, plan[o])]

\* A plan for the rows of a model names objects that it changes, and leaves
\* objects that can be stored.
PlansChanges(plan, model) ==
    /\ DOMAIN plan \subseteq Object
    /\ \A o \in DOMAIN plan : plan[o] \in LiveRow /\ plan[o] # Live(model[o])

\* What the plan leaves of object o.
Outcome(plan, left, o) == IF o \in DOMAIN plan THEN plan[o] ELSE Live(left[o])

LEMMA MergeEditType ==
    ASSUME NEW row \in Row, NEW o \in Object,
           NEW chosen \in LiveRow, chosen # Live(row)
    PROVE  MergeEdit(row, o, chosen) \in TypedEdit
  <1>1. row.version \in Int
    BY DEF Row, StoredRow, Absent
  <1>2. chosen.content \in Content \cup {NoContent}
    BY NothingHasNoContent
  <1>3. CASE chosen = Nothing
    <2>1. ~row.deleted
      BY <1>3 DEF Live, Nothing, Absent
    <2>2. row.kind \in Kind
      BY <2>1 DEF Row, StoredRow, Absent
    <2> QED BY <1>1, <1>2, <1>3, <2>2 DEF MergeEdit, TypedEdit
  <1>4. CASE chosen # Nothing
    <2>1. chosen.kind \in Kind
      BY <1>4 DEF LiveRow
    <2> QED BY <1>1, <1>2, <1>4, <2>1 DEF MergeEdit, TypedEdit
  <1> QED BY <1>3, <1>4

\* There is one edit for each planned object.
LEMMA PlannedEditsShape ==
    ASSUME NEW model \in Model, NEW plan, PlansChanges(plan, model)
    PROVE  LET edits == PlannedEdits(model, plan) IN
           /\ edits \in Seq(TypedEdit)
           /\ DistinctObjects(edits)
           /\ \A i \in DOMAIN edits : \E o \in DOMAIN plan :
                 edits[i] = MergeEdit(model[o], o, plan[o])
           /\ \A o \in DOMAIN plan : \E i \in DOMAIN edits :
                 edits[i] = MergeEdit(model[o], o, plan[o])
  <1>1. PICK S \in SUBSET Object : S = DOMAIN plan
    BY DEF PlansChanges
  <1>2. PICK list : list = Seqs!SetToSeq(S)
    OBVIOUS
  <1>3. IsFiniteSet(S)
    BY ObjectsAreFinite, FS_Subset
  <1>4. /\ list \in Seq(S)
        /\ \A i, k \in DOMAIN list : list[i] = list[k] => i = k
        /\ \A s \in S : \E i \in DOMAIN list : list[i] = s
    BY <1>2, <1>3, SetToSeqLists
  <1>5. PICK edits : edits = PlannedEdits(model, plan)
    OBVIOUS
  <1>6. /\ DOMAIN edits = DOMAIN list
        /\ \A i \in DOMAIN list :
              edits[i] = MergeEdit(model[list[i]], list[i], plan[list[i]])
        /\ edits = [i \in DOMAIN list |-> edits[i]]
    BY <1>1, <1>2, <1>5 DEF PlannedEdits
  <1>7. \A i \in DOMAIN list : list[i] \in S /\ DOMAIN list = 1..Len(list)
                               /\ Len(list) \in Nat
    BY <1>4
  <1>8. \A o \in S : MergeEdit(model[o], o, plan[o]) \in TypedEdit
    <2> SUFFICES ASSUME NEW o \in S PROVE MergeEdit(model[o], o, plan[o]) \in TypedEdit
      OBVIOUS
    <2>1. model[o] \in Row /\ plan[o] \in LiveRow /\ plan[o] # Live(model[o])
      BY <1>1 DEF PlansChanges, Model
    <2> QED BY <2>1, MergeEditType
  <1>9. edits \in Seq(TypedEdit)
    <2>1. DOMAIN list = 1..Len(list) /\ Len(list) \in Nat
      BY <1>4
    <2> QED BY <1>6, <1>7, <1>8, <2>1
  <1>10. DistinctObjects(edits)
    <2>1. \A i \in DOMAIN list : edits[i].object = list[i]
      BY <1>6 DEF MergeEdit
    <2> QED BY <1>4, <1>6, <2>1 DEF DistinctObjects
  <1>11. \A i \in DOMAIN edits : \E o \in DOMAIN plan :
            edits[i] = MergeEdit(model[o], o, plan[o])
    BY <1>1, <1>6, <1>7
  <1>12. \A o \in DOMAIN plan : \E i \in DOMAIN edits :
            edits[i] = MergeEdit(model[o], o, plan[o])
    BY <1>1, <1>4, <1>6
  <1> QED BY <1>5, <1>9, <1>10, <1>11, <1>12

\* An accepted edit of a merge leaves the chosen object.
LEMMA MergeEditLeavesChosen ==
    ASSUME NEW row \in Row, NEW o, NEW chosen \in LiveRow,
           Accepts(row, MergeEdit(row, o, chosen))
    PROVE  Live(Written(row, MergeEdit(row, o, chosen))) = chosen
  <1> DEFINE edit == MergeEdit(row, o, chosen)
             new  == Written(row, edit)
  <1>1. /\ edit.content = chosen.content
        /\ chosen # Nothing => edit.kind = chosen.kind
    BY DEF MergeEdit
  <1>2. /\ edit.content # NoContent /\ row # Absent => edit.kind = row.kind
    BY DEF Accepts
  <1>3. /\ new.content = chosen.content
        /\ new.deleted <=> chosen.content = NoContent
        /\ new.deleted \in BOOLEAN
        /\ new.kind = IF row = Absent THEN edit.kind ELSE row.kind
    BY <1>1 DEF Written
  <1> HIDE DEF new, edit
  <1>4. CASE chosen = Nothing
    <2>1. new.deleted
      BY <1>3, <1>4, NothingHasNoContent
    <2> QED BY <1>4, <2>1, NothingHasNoContent DEF Live, new, edit
  <1>5. CASE chosen # Nothing
    <2>1. ~new.deleted /\ chosen \in [kind : Kind, content : Content]
      BY <1>3, <1>5, NothingHasNoContent
    <2>2. chosen.content # NoContent
      BY <1>5, NothingHasNoContent
    <2>3. new.kind = chosen.kind
      BY <1>1, <1>2, <1>3, <1>5, <2>2
    <2>4. Live(new) = [kind |-> chosen.kind, content |-> chosen.content]
      BY <1>3, <2>1, <2>3 DEF Live
    <2> QED BY <2>1, <2>4 DEF new, edit
  <1> QED BY <1>4, <1>5

\* What an editor sees after the accepted edits of a plan is its outcome.
LEMMA PlannedEditsLeaveOutcome ==
    ASSUME NEW model \in Model, NEW plan, PlansChanges(plan, model),
           NEW edits, edits = PlannedEdits(model, plan),
           \A i \in DOMAIN edits : Accepts(model[edits[i].object], edits[i]),
           NEW o \in Object
    PROVE  Live(AfterEvents(model, EditEvents(model, edits))[o]) = Outcome(plan, model, o)
  <1> DEFINE events == EditEvents(model, edits)
  <1>1. /\ edits \in Seq(TypedEdit)
        /\ DistinctObjects(edits)
        /\ \A i \in DOMAIN edits : \E p \in DOMAIN plan :
              edits[i] = MergeEdit(model[p], p, plan[p])
        /\ \A p \in DOMAIN plan : \E i \in DOMAIN edits :
              edits[i] = MergeEdit(model[p], p, plan[p])
    BY PlannedEditsShape
  <1>2. /\ DOMAIN events = DOMAIN edits
        /\ \A i \in DOMAIN edits :
              /\ events[i].object = edits[i].object
              /\ events[i].after = Written(model[edits[i].object], edits[i])
    BY <1>1 DEF EditEvents, EventOf
  <1>3. \A p, row, chosen : MergeEdit(row, p, chosen).object = p
    BY DEF MergeEdit
  <1> HIDE DEF events
  <1>4. CASE o \in DOMAIN plan
    <2>1. PICK i \in DOMAIN edits : edits[i] = MergeEdit(model[o], o, plan[o])
      BY <1>1, <1>4
    <2>2. edits[i].object = o
      BY <1>3, <2>1
    <2>3. \A k \in DOMAIN events : events[k].object = o => k = i
      BY <1>1, <1>2, <2>2 DEF DistinctObjects
    <2>4. (CHOOSE k \in DOMAIN events : events[k].object = o) = i
      BY <1>2, <2>2, <2>3
    <2>5. AfterEvents(model, events)[o] = Written(model[o], MergeEdit(model[o], o, plan[o]))
      BY <1>2, <2>1, <2>2, <2>4 DEF AfterEvents, IsTouched
    <2>6. model[o] \in Row /\ plan[o] \in LiveRow
      BY <1>4 DEF Model, PlansChanges
    <2>7. Accepts(model[o], MergeEdit(model[o], o, plan[o]))
      BY <2>1, <2>2
    <2> QED BY <1>4, <2>5, <2>6, <2>7, MergeEditLeavesChosen DEF Outcome, events
  <1>5. CASE o \notin DOMAIN plan
    <2>1. ~IsTouched(events, o)
      BY <1>1, <1>2, <1>3, <1>5 DEF IsTouched
    <2> QED BY <1>5, <2>1 DEF AfterEvents, Outcome, events
  <1> QED BY <1>4, <1>5

-----------------------------------------------------------------------------
(* What a merge commit does to the tables: edits on the head r of b, as one *)
(* group, then a finalization with the right as a second parent.           *)

\* The log of groups after a commit; without edits there is no new group.
GroupsAfter(log, edits, before) ==
    IF edits = <<>> THEN log
    ELSE Append(log, [action |-> "edit", target |-> 0,
                      first |-> before + 1, last |-> before + Len(edits)])

CommitEffect(b, r, new, left, right, edits) ==
    LET events == EditEvents(rows[b], edits)
        after  == AfterEvents(rows[b], events)
    IN
    /\ head[b] = r /\ parents[r] = <<left>> /\ objectMode[r] = 1
    /\ state[r] = "working" /\ state[new] = "unused"
    /\ \A i \in 1..Len(edits) : Accepts(rows[b][edits[i].object], edits[i])
    /\ rows' = [rows EXCEPT ![b] = after]
    /\ journal' = [journal EXCEPT ![r] = journal[r] \o events]
    /\ generation' = [generation EXCEPT ![r] = generation[r] + Len(edits)]
    /\ groups' = [groups EXCEPT ![r] = GroupsAfter(groups[r], edits, generation[r])]
    /\ root' = [root EXCEPT ![r] = after]
    /\ snapshot' = [snapshot EXCEPT ![r] = ObjectManifest, ![new] = NoBytes]
    /\ state' = [state EXCEPT ![r] = "finalized", ![new] = "working"]
    /\ branchOf' = [branchOf EXCEPT ![new] = b]
    /\ number' = [number EXCEPT ![new] = NextNumber(r)]
    /\ head' = [head EXCEPT ![b] = new]
    /\ parents' = [parents EXCEPT ![r] = <<left, right>>, ![new] = <<r>>]
    /\ objectMode' = [objectMode EXCEPT ![new] = 1]
    /\ operations' = operations

LEMMA LengthOfConcatenation ==
    ASSUME NEW S, NEW left \in Seq(S), NEW right \in Seq(S)
    PROVE  left \o right \in Seq(S) /\ Len(left \o right) = Len(left) + Len(right)
  OBVIOUS

\* The journal of the head replays to the rows with the edits as well.
LEMMA CommitReplays ==
    ASSUME ReplayInvariant, NEW b \in Branch, NEW r \in Revision, head[b] = r,
           objectMode[r] = 1, NEW left \in Revision, parents[r] = <<left>>,
           NEW edits \in Seq(TypedEdit), DistinctObjects(edits),
           \A i \in 1..Len(edits) : Accepts(rows[b][edits[i].object], edits[i]),
           NEW events, events = EditEvents(rows[b], edits),
           NEW after, after = AfterEvents(rows[b], events)
    PROVE  /\ JournalReplays(root[left], journal[r] \o events, after)
           /\ BuildRevisionRoot(root[left], after, journal[r] \o events) = after
           /\ events \in Seq(Event) /\ Len(events) = Len(edits)
           /\ root[left] \in Model /\ after \in Model
           /\ journal[r] \o events \in Seq(Event)
           /\ Len(journal[r] \o events) = Len(journal[r]) + Len(edits)
  <1> DEFINE past   == journal[r]
             all    == past \o events
  <1>1. rows[b] \in Model /\ past \in Seq(Event) /\ head[b] # NoRevision
    BY NullsAreNotValues DEF ReplayInvariant, Bookkeeping, TypeOK
  <1>2. parents[r] # <<>> /\ parents[r][1] = left
    OBVIOUS
  <1>3. Baseline(r) = root[left]
    BY <1>2 DEF Baseline
  <1>4. state[left] = "finalized" /\ objectMode[left] = 1
    <2>1. state[left] = "finalized"
      BY <1>2, FirstParentIsSealed DEF ReplayInvariant, Lineage
    <2>2. objectMode[left] = 1
      BY <1>2 DEF ReplayInvariant, Lineage, ModesFollow
    <2> QED BY <2>1, <2>2
  <1>5. root[left] \in Model
    BY <1>4 DEF ReplayInvariant, Lineage, SealedHaveRoots
  <1>6. JournalReplays(root[left], past, rows[b])
    BY <1>1, <1>3 DEF ReplayInvariant, WorkingRowsReplay
  <1>7. /\ events \in Seq(Event) /\ Len(events) = Len(edits)
    BY <1>1, EditEventsType
  <1>8. JournalReplays(root[left], all, after)
    <2> HIDE DEF past
    <2> QED BY <1>1, <1>6, GroupExtendsReplay
  <1>9. after \in Model
    BY <1>1, <1>7, AfterEventsType
  <1>10. all \in Seq(Event) /\ Len(all) = Len(past) + Len(edits)
    <2> HIDE DEF past
    <2>1. all \in Seq(Event) /\ Len(all) = Len(past) + Len(events)
      BY <1>1, <1>7, LengthOfConcatenation
    <2> QED BY <1>7, <2>1
  <1>11. BuildRevisionRoot(root[left], after, all) = after
    <2>1. \A o \in Object : Yields(root[left], all, Len(all), o, after[o])
      BY <1>8 DEF JournalReplays
    <2> HIDE DEF all
    <2> QED BY <1>5, <1>9, <1>10, <2>1, SealIsComplete
  <1> QED BY <1>5, <1>7, <1>8, <1>9, <1>10, <1>11

LEMMA CommitHasEffect ==
    ASSUME ReplayInvariant, NEW m \in Merger, NEW new \in Revision, CommitMerge(m, new),
           NEW b \in Branch, b = merge[m].branch,
           NEW r \in Revision, r = merge[m].working,
           NEW left \in Revision, left = merge[m].left,
           NEW right \in Revision, right = merge[m].right,
           NEW edits \in Seq(TypedEdit), edits = PlannedEdits(rows[b], merge[m].plan),
           DistinctObjects(edits)
    PROVE  CommitEffect(b, r, new, left, right, edits)
  <1> DEFINE events == EditEvents(rows[b], edits)
             after  == AfterEvents(rows[b], events)
  <1>1. DOMAIN edits = 1..Len(edits) /\ Len(edits) \in Nat
    OBVIOUS
  <1>2. /\ head[b] = r /\ parents[r] = <<left>> /\ objectMode[r] = 1
        /\ state[r] = "working" /\ generation[r] = merge[m].expected
    BY DEF CommitMerge, TargetUnchanged
  <1>3. events = [i \in DOMAIN edits |-> EventOf(rows[b], edits[i])]
    BY <1>1 DEF EditEvents
  <1>4. edits = [i \in DOMAIN Seqs!SetToSeq(DOMAIN merge[m].plan) |->
                    LET o == Seqs!SetToSeq(DOMAIN merge[m].plan)[i]
                    IN  MergeEdit(rows[b][o], o, merge[m].plan[o])]
    BY DEF PlannedEdits
  <1>5. /\ \A i \in DOMAIN edits : Accepts(rows[b][edits[i].object], edits[i])
        /\ rows' = [rows EXCEPT ![b] = AfterEvents(@, events)]
        /\ journal' = [journal EXCEPT ![r] = @ \o events]
        /\ generation' = [generation EXCEPT ![r] = @ + Len(edits)]
        /\ IF edits = <<>> THEN UNCHANGED groups
           ELSE WriteObjectGroup(r, "edit", 0, merge[m].expected, generation'[r])
        /\ SealAndAdvance(b, r, new)
        /\ parents' = [parents EXCEPT ![r] = <<left, right>>, ![new] = <<r>>]
        /\ objectMode' = [objectMode EXCEPT ![new] = 1]
        /\ operations' = operations
    <2> HIDE DEF events
    <2> QED BY <1>3, <1>4 DEF CommitMerge, MergeParents
  <1>6. /\ rows \in [Branch -> Model] /\ journal \in [Revision -> Seq(Event)]
        /\ generation \in [Revision -> Nat] /\ groups \in [Revision -> Seq(Group)]
    BY DEF ReplayInvariant, Bookkeeping, TypeOK
  <1>7. \A i \in 1..Len(edits) : Accepts(rows[b][edits[i].object], edits[i])
    BY <1>1, <1>5
  <1>8. rows' = [rows EXCEPT ![b] = after] /\ rows'[b] = after
        /\ journal' = [journal EXCEPT ![r] = journal[r] \o events]
        /\ journal'[r] = journal[r] \o events
    <2> HIDE DEF events
    <2> QED BY <1>5, <1>6
  <1>9. generation' = [generation EXCEPT ![r] = generation[r] + Len(edits)]
        /\ generation'[r] = generation[r] + Len(edits)
    BY <1>5, <1>6
  <1>10. groups' = [groups EXCEPT ![r] = GroupsAfter(groups[r], edits, generation[r])]
    <2>1. CASE edits = <<>>
      BY <1>5, <1>6, <2>1 DEF GroupsAfter
    <2>2. CASE edits # <<>>
      BY <1>2, <1>5, <1>6, <1>9, <2>2 DEF GroupsAfter, WriteObjectGroup
    <2> QED BY <2>1, <2>2
  <1>11. /\ state[new] = "unused"
         /\ root' = [root EXCEPT ![r] = BuildRevisionRoot(root[left], after,
                                                          journal[r] \o events)]
         /\ snapshot' = [snapshot EXCEPT ![r] = ObjectManifest, ![new] = NoBytes]
         /\ state' = [state EXCEPT ![r] = "finalized", ![new] = "working"]
         /\ branchOf' = [branchOf EXCEPT ![new] = b]
         /\ number' = [number EXCEPT ![new] = NextNumber(r)]
         /\ head' = [head EXCEPT ![b] = new]
    <2>1. parents[r] # <<>> /\ parents[r][1] = left /\ objectMode[r] # 0
      BY <1>2
    <2> HIDE DEF events, after
    <2> QED BY <1>5, <1>8, <2>1 DEF SealAndAdvance
  <1>12. BuildRevisionRoot(root[left], after, journal[r] \o events) = after
    <2>1. events = EditEvents(rows[b], edits) /\ after = AfterEvents(rows[b], events)
      OBVIOUS
    <2> HIDE DEF events, after
    <2> QED BY <1>2, <1>7, <2>1, CommitReplays
  <1> HIDE DEF events, after
  <1>13. root' = [root EXCEPT ![r] = after]
    BY <1>11, <1>12
  <1> QED BY <1>2, <1>5, <1>7, <1>8, <1>9, <1>10, <1>11, <1>13
          DEF CommitEffect, events, after

-----------------------------------------------------------------------------
(* A merge commit keeps the books.                                         *)

\* The groups of a log lie within the first n events of a journal, and each
\* names an object once.
LogCovers(log, n) ==
    \A g \in DOMAIN log : 1 <= log[g].first /\ log[g].first <= log[g].last
                          /\ log[g].last <= n

LogNamesOnce(log, past) ==
    \A g \in DOMAIN log : \A i, k \in log[g].first..log[g].last :
        past[i].object = past[k].object => i = k

LEMMA GroupIsAppended ==
    ASSUME NEW past \in Seq(Event), NEW events \in Seq(Event), NEW log \in Seq(Group),
           LogCovers(log, Len(past)), LogNamesOnce(log, past),
           NEW edits, edits # <<>> => Len(events) > 0, Len(edits) = Len(events),
           \A i, k \in 1..Len(events) : events[i].object = events[k].object => i = k,
           edits = <<>> => events = <<>>
    PROVE  LET new == GroupsAfter(log, edits, Len(past)) IN
           /\ new \in Seq(Group)
           /\ LogCovers(new, Len(past) + Len(edits))
           /\ LogNamesOnce(new, past \o events)
  <1> DEFINE n     == Len(past)
             m     == Len(events)
             all   == past \o events
             entry == [action |-> "edit", target |-> 0, first |-> n + 1, last |-> n + m]
             new   == GroupsAfter(log, edits, n)
  <1>1. n \in Nat /\ m \in Nat
    OBVIOUS
  <1>2. /\ \A i \in 1..n : all[i] = past[i]
        /\ \A i \in 1..m : all[n + i] = events[i]
    OBVIOUS
  <1>3. entry \in Group /\ entry.first = n + 1 /\ entry.last = n + m
    BY <1>1 DEF Group
  <1>4. \A g \in DOMAIN log : /\ log[g].first \in Nat /\ log[g].last \in Nat
                              /\ 1 <= log[g].first /\ log[g].first <= log[g].last
                              /\ log[g].last <= n
    <2>1. \A g \in DOMAIN log : log[g] \in Group
      OBVIOUS
    <2>2. \A g \in DOMAIN log : log[g].first \in Nat /\ log[g].last \in Nat
      BY <2>1 DEF Group
    <2> QED BY <2>2 DEF LogCovers
  <1>5. new = IF edits = <<>> THEN log ELSE Append(log, entry)
    BY DEF GroupsAfter
  <1>6. edits # <<>> => m > 0
    OBVIOUS
  <1> HIDE DEF n, m, all, entry, new
  <1>7. new \in Seq(Group)
    BY <1>3, <1>5
  <1>8. \A g \in DOMAIN new : \/ g \in DOMAIN log /\ new[g] = log[g]
                              \/ edits # <<>> /\ new[g] = entry
    BY <1>5
  <1>9. LogCovers(new, n + m)
    <2> SUFFICES ASSUME NEW g \in DOMAIN new
                 PROVE  1 <= new[g].first /\ new[g].first <= new[g].last
                        /\ new[g].last <= n + m
      BY DEF LogCovers
    <2>1. CASE g \in DOMAIN log /\ new[g] = log[g]
      BY <1>1, <1>4, <2>1
    <2>2. CASE edits # <<>> /\ new[g] = entry
      BY <1>1, <1>3, <1>6, <2>2
    <2> QED BY <1>8, <2>1, <2>2
  <1>10. LogNamesOnce(new, all)
    <2> SUFFICES ASSUME NEW g \in DOMAIN new, NEW i \in new[g].first..new[g].last,
                        NEW k \in new[g].first..new[g].last,
                        all[i].object = all[k].object
                 PROVE  i = k
      BY DEF LogNamesOnce
    <2>1. CASE g \in DOMAIN log /\ new[g] = log[g]
      <3>1. i \in 1..n /\ k \in 1..n
        BY <1>1, <1>4, <2>1
      <3>2. past[i].object = past[k].object
        BY <1>2, <3>1
      <3> QED BY <2>1, <3>2 DEF LogNamesOnce
    <2>2. CASE edits # <<>> /\ new[g] = entry
      <3>1. /\ i - n \in 1..m /\ i = n + (i - n)
            /\ k - n \in 1..m /\ k = n + (k - n)
        BY <1>1, <1>3, <2>2
      <3>2. events[i - n].object = events[k - n].object
        BY <1>2, <3>1
      <3>3. i - n = k - n
        BY <3>1, <3>2 DEF m
      <3> QED BY <3>1, <3>3
    <2> QED BY <1>8, <2>1, <2>2
  <1>11. Len(edits) = m
    BY DEF m
  <1> QED BY <1>7, <1>9, <1>10, <1>11 DEF n, all, new

\* Row by row, what a commit leaves.
CommitLeaves(b, r, new, left, right, after, events, edits) ==
    /\ r # new /\ r # NoRevision /\ new # NoRevision
    /\ left \notin {r, new} /\ right \notin {r, new}
    /\ state[r] = "working" /\ objectMode[r] = 1 /\ parents[r] = <<left>>
    /\ head[b] = r /\ branchOf[r] = b
    /\ journal[new] = <<>> /\ groups[new] = <<>> /\ operations[new] = <<>>
    /\ generation[new] = 0
    /\ operations[r] = <<>> /\ generation[r] = Len(journal[r])
    /\ state'[r] = "finalized" /\ state'[new] = "working"
    /\ branchOf'[r] = b /\ branchOf'[new] = b
    /\ parents'[r] = <<left, right>> /\ parents'[new] = <<r>>
    /\ objectMode'[r] = 1 /\ objectMode'[new] = 1
    /\ root'[r] = after
    /\ snapshot'[r] = ObjectManifest /\ snapshot'[new] = NoBytes
    /\ journal'[r] = journal[r] \o events /\ journal'[new] = <<>>
    /\ groups'[r] = GroupsAfter(groups[r], edits, generation[r]) /\ groups'[new] = <<>>
    /\ generation'[r] = generation[r] + Len(edits) /\ generation'[new] = 0
    /\ root'[new] = root[new]
    /\ operations' = operations
    /\ \A s \in Revision \ {r, new} :
          /\ state'[s] = state[s] /\ branchOf'[s] = branchOf[s]
          /\ parents'[s] = parents[s] /\ objectMode'[s] = objectMode[s]
          /\ root'[s] = root[s] /\ snapshot'[s] = snapshot[s]
          /\ journal'[s] = journal[s] /\ groups'[s] = groups[s]
          /\ generation'[s] = generation[s]
    /\ \A s \in Revision : state[s] = "finalized" => s \notin {r, new}
    /\ head'[b] = new /\ rows'[b] = after
    /\ \A c \in Branch \ {b} :
          /\ head'[c] = head[c] /\ rows'[c] = rows[c]
          /\ head[c] # NoRevision => head[c] \in Revision \ {r, new}

LEMMA CommitHasLeft ==
    ASSUME ReplayInvariant, NEW b \in Branch, NEW r \in Revision, NEW new \in Revision,
           NEW left \in Finalized, NEW right \in Finalized, NEW edits,
           CommitEffect(b, r, new, left, right, edits),
           NEW events, events = EditEvents(rows[b], edits),
           NEW after, after = AfterEvents(rows[b], events)
    PROVE  CommitLeaves(b, r, new, left, right, after, events, edits)
  <1>1. TypeOK /\ UnusedRevisionsAreBlank /\ HeadsAreWorking
        /\ GenerationCountsJournal /\ ObjectModeHasNoOperations
    BY DEF ReplayInvariant, Bookkeeping, Lineage
  <1>2. /\ head[b] = r /\ parents[r] = <<left>> /\ objectMode[r] = 1
        /\ state[r] = "working" /\ state[new] = "unused"
        /\ state[left] = "finalized" /\ state[right] = "finalized"
        /\ left \in Revision /\ right \in Revision
    BY DEF CommitEffect, Finalized
  <1>3. /\ r # new /\ r # NoRevision /\ new # NoRevision
        /\ left \notin {r, new} /\ right \notin {r, new}
        /\ \A s \in Revision : state[s] = "finalized" => s \notin {r, new}
    BY <1>2, NullsAreNotValues
  <1>4. /\ journal[new] = <<>> /\ groups[new] = <<>> /\ operations[new] = <<>>
        /\ generation[new] = 0 /\ branchOf[r] = b /\ operations[r] = <<>>
    BY <1>1, <1>2, <1>3 DEF UnusedRevisionsAreBlank, HeadsAreWorking,
                            ObjectModeHasNoOperations
  <1>5. generation[r] = Len(journal[r])
    <2>1. generation[r] = Len(journal[r]) + Len(operations[r])
      BY <1>1 DEF GenerationCountsJournal
    <2>2. Len(operations[r]) = 0 /\ Len(journal[r]) \in Nat
      BY <1>1, <1>4 DEF TypeOK
    <2>3. PICK p, n, g : p = Len(operations[r]) /\ n = Len(journal[r]) /\ g = generation[r]
      OBVIOUS
    <2>4. p = 0 /\ n \in Nat /\ g = n + p
      BY <2>1, <2>2, <2>3
    <2>5. g = n
      BY <2>4
    <2> QED BY <2>3, <2>5
  <1>6. /\ state'[r] = "finalized" /\ state'[new] = "working"
        /\ branchOf'[r] = b /\ branchOf'[new] = b
        /\ objectMode'[r] = 1 /\ objectMode'[new] = 1
        /\ head'[b] = new /\ rows'[b] = after
        /\ operations' = operations
        /\ \A s \in Revision \ {r, new} :
              /\ state'[s] = state[s] /\ branchOf'[s] = branchOf[s]
              /\ objectMode'[s] = objectMode[s]
    BY <1>1, <1>2, <1>3, <1>4 DEF CommitEffect, TypeOK
  <1>7. /\ parents'[r] = <<left, right>> /\ parents'[new] = <<r>>
        /\ root'[r] = after /\ root'[new] = root[new]
        /\ snapshot'[r] = ObjectManifest /\ snapshot'[new] = NoBytes
        /\ \A s \in Revision \ {r, new} :
              /\ parents'[s] = parents[s]
              /\ root'[s] = root[s] /\ snapshot'[s] = snapshot[s]
    BY <1>1, <1>3 DEF CommitEffect, TypeOK
  <1>8. /\ journal'[r] = journal[r] \o events /\ journal'[new] = <<>>
        /\ groups'[r] = GroupsAfter(groups[r], edits, generation[r]) /\ groups'[new] = <<>>
        /\ generation'[r] = generation[r] + Len(edits) /\ generation'[new] = 0
        /\ \A s \in Revision \ {r, new} :
              /\ journal'[s] = journal[s] /\ groups'[s] = groups[s]
              /\ generation'[s] = generation[s]
    BY <1>1, <1>3, <1>4 DEF CommitEffect, TypeOK
  <1>9. \A c \in Branch \ {b} :
           /\ head'[c] = head[c] /\ rows'[c] = rows[c]
           /\ head[c] # NoRevision => head[c] \in Revision \ {r, new}
    <2> SUFFICES ASSUME NEW c \in Branch \ {b}
                 PROVE  /\ head'[c] = head[c] /\ rows'[c] = rows[c]
                        /\ head[c] # NoRevision => head[c] \in Revision \ {r, new}
      OBVIOUS
    <2>1. head'[c] = head[c] /\ rows'[c] = rows[c]
          /\ head[c] \in Revision \cup {NoRevision}
      BY <1>1 DEF CommitEffect, TypeOK
    <2>2. head[c] # r
      BY <1>1, <1>2, <1>3, HeadsAreApart
    <2>3. head[c] # NoRevision => head[c] # new
      BY <1>1, <1>2 DEF HeadsAreWorking
    <2> QED BY <2>1, <2>2, <2>3
  <1> QED BY <1>2, <1>3, <1>4, <1>5, <1>6, <1>7, <1>8, <1>9 DEF CommitLeaves

LEMMA CommitTypes ==
    ASSUME ReplayInvariant, NEW b \in Branch, NEW r \in Revision, NEW new \in Revision,
           NEW left \in Finalized, NEW right \in Finalized,
           NEW edits \in Seq(TypedEdit), DistinctObjects(edits),
           CommitEffect(b, r, new, left, right, edits),
           NEW events, events = EditEvents(rows[b], edits),
           NEW after, after = AfterEvents(rows[b], events)
    PROVE  /\ CommitLeaves(b, r, new, left, right, after, events, edits)
           /\ JournalReplays(root[left], journal'[r], after)
           /\ journal'[r] \in Seq(Event) /\ Len(journal'[r]) = generation'[r]
           /\ generation'[r] \in Nat
           /\ root[left] \in Model /\ after \in Model
           /\ groups'[r] \in Seq(Group)
           /\ LogCovers(groups'[r], Len(journal'[r]))
           /\ LogNamesOnce(groups'[r], journal'[r])
  <1>1. CommitLeaves(b, r, new, left, right, after, events, edits)
    BY CommitHasLeft
  <1>2. /\ head[b] = r /\ objectMode[r] = 1 /\ parents[r] = <<left>> /\ left \in Revision
        /\ \A i \in 1..Len(edits) : Accepts(rows[b][edits[i].object], edits[i])
    BY DEF CommitEffect, Finalized
  <1>3. /\ JournalReplays(root[left], journal[r] \o events, after)
        /\ events \in Seq(Event) /\ Len(events) = Len(edits)
        /\ root[left] \in Model /\ after \in Model
        /\ journal[r] \o events \in Seq(Event)
        /\ Len(journal[r] \o events) = Len(journal[r]) + Len(edits)
    <2>1. \A i \in 1..Len(edits) : Accepts(rows[b][edits[i].object], edits[i])
      BY <1>2
    <2>2. JournalReplays(root[left], journal[r] \o events, after)
      BY <1>2, <2>1, CommitReplays
    <2>3. events \in Seq(Event) /\ Len(events) = Len(edits)
      BY <1>2, <2>1, CommitReplays
    <2>4. root[left] \in Model /\ after \in Model
      BY <1>2, <2>1, CommitReplays
    <2>5. journal[r] \in Seq(Event)
      BY DEF ReplayInvariant, Bookkeeping, TypeOK
    <2>6. PICK past \in Seq(Event), added \in Seq(Event) : past = journal[r] /\ added = events
      BY <2>3, <2>5
    <2>7. past \o added \in Seq(Event) /\ Len(past \o added) = Len(past) + Len(added)
      BY LengthOfConcatenation
    <2> QED BY <2>2, <2>3, <2>4, <2>6, <2>7
  <1>4. /\ rows[b] \in Model /\ journal[r] \in Seq(Event) /\ groups[r] \in Seq(Group)
        /\ generation[r] \in Nat /\ Len(edits) \in Nat
    BY DEF ReplayInvariant, Bookkeeping, TypeOK
  <1>5. /\ journal'[r] = journal[r] \o events
        /\ groups'[r] = GroupsAfter(groups[r], edits, generation[r])
        /\ generation'[r] = generation[r] + Len(edits)
        /\ generation[r] = Len(journal[r])
    BY <1>1 DEF CommitLeaves
  <1>6. LogCovers(groups[r], Len(journal[r])) /\ LogNamesOnce(groups[r], journal[r])
    BY DEF ReplayInvariant, Bookkeeping, GroupsInsideJournal, GroupsNameDistinctObjects,
           LogCovers, LogNamesOnce
  <1>7. \A i, k \in 1..Len(events) : events[i].object = events[k].object => i = k
    <2>1. \A i \in 1..Len(edits) : events[i] = EventOf(rows[b], edits[i])
      BY <1>4, EditEventsType
    <2>2. \A i \in 1..Len(edits) : events[i].object = edits[i].object
      <3> SUFFICES ASSUME NEW i \in 1..Len(edits) PROVE events[i].object = edits[i].object
        OBVIOUS
      <3>1. PICK edit : edit = edits[i]
        OBVIOUS
      <3>2. events[i] = EventOf(rows[b], edit)
        BY <2>1, <3>1
      <3> QED BY <3>1, <3>2 DEF EventOf
    <2>3. DOMAIN edits = 1..Len(edits)
      OBVIOUS
    <2> QED BY <1>3, <2>2, <2>3 DEF DistinctObjects
  <1>8. /\ edits # <<>> => Len(events) > 0
        /\ edits = <<>> => events = <<>>
    <2>1. edits # <<>> => Len(edits) > 0
      OBVIOUS
    <2>2. edits = <<>> => Len(edits) = 0
      OBVIOUS
    <2>3. Len(events) = 0 => events = <<>>
      BY <1>3
    <2> QED BY <1>3, <2>1, <2>2, <2>3
  <1>9. LET log == GroupsAfter(groups[r], edits, Len(journal[r])) IN
        /\ log \in Seq(Group)
        /\ LogCovers(log, Len(journal[r]) + Len(edits))
        /\ LogNamesOnce(log, journal[r] \o events)
    <2>1. PICK past \in Seq(Event), log \in Seq(Group) : past = journal[r] /\ log = groups[r]
      BY <1>4
    <2> QED BY <1>3, <1>6, <1>7, <1>8, <2>1, GroupIsAppended
  <1>10. Len(journal'[r]) = generation'[r] /\ generation'[r] \in Nat
    <2>1. PICK past, n, g, d, j :
             /\ past = journal[r] \o events /\ n = Len(journal[r]) /\ g = generation[r]
             /\ d = Len(edits) /\ j = Len(past)
      OBVIOUS
    <2>2. j = n + d /\ g = n /\ g \in Nat /\ d \in Nat
      BY <1>3, <1>4, <1>5, <2>1
    <2>3. journal'[r] = past /\ generation'[r] = g + d
      BY <1>5, <2>1
    <2>4. j = g + d /\ g + d \in Nat
      BY <2>2
    <2> QED BY <2>1, <2>3, <2>4
  <1> QED BY <1>1, <1>3, <1>5, <1>9, <1>10

LEMMA CommitKeepsTypes ==
    ASSUME ReplayInvariant, NEW b \in Branch, NEW r \in Revision, NEW new \in Revision,
           NEW left \in Finalized, NEW right \in Finalized,
           NEW edits \in Seq(TypedEdit), DistinctObjects(edits),
           CommitEffect(b, r, new, left, right, edits)
    PROVE  TypeOK'
  <1>1. PICK events, after : /\ events = EditEvents(rows[b], edits)
                             /\ after = AfterEvents(rows[b], events)
    OBVIOUS
  <1>2. /\ journal'[r] \in Seq(Event) /\ generation'[r] \in Nat
        /\ after \in Model /\ groups'[r] \in Seq(Group)
        /\ journal'[r] = journal[r] \o events
        /\ groups'[r] = GroupsAfter(groups[r], edits, generation[r])
        /\ generation'[r] = generation[r] + Len(edits)
    <2>1. /\ CommitLeaves(b, r, new, left, right, after, events, edits)
          /\ journal'[r] \in Seq(Event) /\ generation'[r] \in Nat
          /\ after \in Model /\ groups'[r] \in Seq(Group)
      BY <1>1, CommitTypes
    <2> QED BY <2>1 DEF CommitLeaves
  <1>3. TypeOK /\ left \in Revision /\ right \in Revision
    BY DEF ReplayInvariant, Bookkeeping, Finalized
  <1>4. /\ head' \in [Branch -> Revision \cup {NoRevision}]
        /\ state' \in [Revision -> {"unused", "working", "finalized"}]
        /\ branchOf' \in [Revision -> Branch \cup {NoBranch}]
        /\ objectMode' \in [Revision -> {0, 1}]
        /\ snapshot' \in [Revision -> Bytes \cup {NoBytes, ObjectManifest}]
        /\ operations' \in [Revision -> Seq(Operation)]
    BY <1>3 DEF CommitEffect, TypeOK
  <1>5. number' \in [Revision -> Nat]
    <2>1. NextNumber(r) \in Nat
      <3>1. number[r] \in Nat
        BY <1>3 DEF TypeOK
      <3> QED BY <3>1 DEF NextNumber
    <2> QED BY <1>3, <2>1 DEF CommitEffect, TypeOK
  <1>6. parents' \in [Revision -> Seq(Revision)]
    <2>1. <<left, right>> \in Seq(Revision) /\ <<r>> \in Seq(Revision)
      BY <1>3
    <2>2. PICK pair \in Seq(Revision), one \in Seq(Revision) :
             pair = <<left, right>> /\ one = <<r>>
      BY <2>1
    <2>3. parents' = [parents EXCEPT ![r] = pair, ![new] = one]
      BY <2>2 DEF CommitEffect
    <2>4. parents \in [Revision -> Seq(Revision)]
      BY <1>3 DEF TypeOK
    <2> QED BY <2>3, <2>4
  <1>7. rows' \in [Branch -> Model] /\ root' \in [Revision -> Model \cup {NoRoot}]
    BY <1>1, <1>2, <1>3 DEF CommitEffect, TypeOK
  <1>8. /\ journal' \in [Revision -> Seq(Event)]
        /\ groups' \in [Revision -> Seq(Group)]
        /\ generation' \in [Revision -> Nat]
    <2>1. /\ journal \in [Revision -> Seq(Event)]
          /\ groups \in [Revision -> Seq(Group)]
          /\ generation \in [Revision -> Nat]
      BY <1>3 DEF TypeOK
    <2>2. PICK j, g, n : j = journal'[r] /\ g = groups'[r] /\ n = generation'[r]
      OBVIOUS
    <2>3. /\ journal' = [journal EXCEPT ![r] = j]
          /\ groups' = [groups EXCEPT ![r] = g]
          /\ generation' = [generation EXCEPT ![r] = n]
      BY <1>1, <1>2, <2>2 DEF CommitEffect
    <2>4. j \in Seq(Event) /\ g \in Seq(Group) /\ n \in Nat
      BY <1>2, <2>2
    <2> QED BY <2>1, <2>3, <2>4
  <1> QED BY <1>4, <1>5, <1>6, <1>7, <1>8 DEF TypeOK

LEMMA CommitKeepsBookkeeping ==
    ASSUME ReplayInvariant, NEW b \in Branch, NEW r \in Revision, NEW new \in Revision,
           NEW left \in Finalized, NEW right \in Finalized,
           NEW edits \in Seq(TypedEdit), DistinctObjects(edits),
           CommitEffect(b, r, new, left, right, edits)
    PROVE  Bookkeeping' /\ GroupsNameDistinctObjects'
  <1>1. PICK events, after : /\ events = EditEvents(rows[b], edits)
                             /\ after = AfterEvents(rows[b], events)
    OBVIOUS
  <1>2. /\ CommitLeaves(b, r, new, left, right, after, events, edits)
        /\ Len(journal'[r]) = generation'[r] /\ generation'[r] \in Nat
        /\ LogCovers(groups'[r], Len(journal'[r]))
        /\ LogNamesOnce(groups'[r], journal'[r])
    BY <1>1, CommitTypes
  <1>3. Bookkeeping /\ GroupsNameDistinctObjects
    BY DEF ReplayInvariant
  <1>4. \A s \in Revision : s = r \/ s = new \/ s \in Revision \ {r, new}
    OBVIOUS
  <1>5. GenerationCountsJournal'
    <2> SUFFICES ASSUME NEW s \in Revision
                 PROVE  generation'[s] = Len(journal'[s]) + Len(operations'[s])
      BY DEF GenerationCountsJournal
    <2>1. CASE s = r
      <3>1. Len(operations'[s]) = 0
        BY <1>2, <2>1 DEF CommitLeaves
      <3>2. PICK n, k, o : n = generation'[s] /\ k = Len(journal'[s]) /\ o = Len(operations'[s])
        OBVIOUS
      <3>3. n = k /\ n \in Nat /\ o = 0
        BY <1>2, <2>1, <3>1, <3>2
      <3>4. n = k + o
        BY <3>3
      <3> QED BY <3>2, <3>4
    <2>2. CASE s = new
      <3>1. generation'[s] = 0 /\ journal'[s] = <<>> /\ operations'[s] = <<>>
        BY <1>2, <2>2 DEF CommitLeaves
      <3> QED BY <3>1
    <2>3. CASE s \in Revision \ {r, new}
      <3>1. /\ generation'[s] = generation[s] /\ journal'[s] = journal[s]
            /\ operations'[s] = operations[s]
        BY <1>2, <2>3 DEF CommitLeaves
      <3> QED BY <1>3, <3>1 DEF Bookkeeping, GenerationCountsJournal
    <2> QED BY <1>4, <2>1, <2>2, <2>3
  <1>6. ObjectModeHasNoOperations'
    <2> SUFFICES ASSUME NEW s \in Revision, objectMode'[s] = 1
                 PROVE  operations[s] = <<>>
      BY <1>2 DEF ObjectModeHasNoOperations, CommitLeaves
    <2> QED BY <1>2, <1>3, <1>4 DEF CommitLeaves, Bookkeeping, ObjectModeHasNoOperations
  <1>7. OpaqueSnapshots'
    BY <1>2, <1>3, <1>4 DEF CommitLeaves, Bookkeeping, OpaqueSnapshots
  <1>8. /\ \A s \in Revision : LogCovers(groups'[s], Len(journal'[s]))
        /\ \A s \in Revision : LogNamesOnce(groups'[s], journal'[s])
    <2> SUFFICES ASSUME NEW s \in Revision
                 PROVE  /\ LogCovers(groups'[s], Len(journal'[s]))
                        /\ LogNamesOnce(groups'[s], journal'[s])
      OBVIOUS
    <2>1. CASE s = r
      BY <1>2, <2>1
    <2>2. CASE s = new
      <3>1. groups'[s] = <<>>
        BY <1>2, <2>2 DEF CommitLeaves
      <3> QED BY <3>1 DEF LogCovers, LogNamesOnce
    <2>3. CASE s \in Revision \ {r, new}
      <3>1. groups'[s] = groups[s] /\ journal'[s] = journal[s]
        BY <1>2, <2>3 DEF CommitLeaves
      <3>2. LogCovers(groups[s], Len(journal[s])) /\ LogNamesOnce(groups[s], journal[s])
        BY <1>3 DEF Bookkeeping, GroupsInsideJournal, GroupsNameDistinctObjects,
                    LogCovers, LogNamesOnce
      <3> QED BY <3>1, <3>2
    <2> QED BY <1>4, <2>1, <2>2, <2>3
  <1>9. GroupsInsideJournal' /\ GroupsNameDistinctObjects'
    BY <1>8 DEF GroupsInsideJournal, GroupsNameDistinctObjects, LogCovers, LogNamesOnce
  <1>10. UnusedRevisionsAreBlank'
    <2> SUFFICES ASSUME NEW s \in Revision, state'[s] = "unused"
                 PROVE  /\ generation'[s] = 0 /\ journal'[s] = <<>> /\ groups'[s] = <<>>
                        /\ operations'[s] = <<>> /\ parents'[s] = <<>>
                        /\ objectMode'[s] = 0 /\ snapshot'[s] = NoBytes
      BY DEF UnusedRevisionsAreBlank
    <2>1. s \in Revision \ {r, new}
      BY <1>2 DEF CommitLeaves
    <2>2. /\ state'[s] = state[s] /\ generation'[s] = generation[s]
          /\ journal'[s] = journal[s] /\ groups'[s] = groups[s]
          /\ operations'[s] = operations[s] /\ parents'[s] = parents[s]
          /\ objectMode'[s] = objectMode[s] /\ snapshot'[s] = snapshot[s]
      BY <1>2, <2>1 DEF CommitLeaves
    <2>3. state[s] = "unused"
      BY <2>2
    <2> QED BY <1>3, <2>2, <2>3 DEF Bookkeeping, UnusedRevisionsAreBlank
  <1>11. TypeOK'
    BY CommitKeepsTypes
  <1> QED BY <1>5, <1>6, <1>7, <1>9, <1>10, <1>11 DEF Bookkeeping

-----------------------------------------------------------------------------
(* A merge commit leaves a journal that replays to the sealed root.        *)

LEMMA CommitKeepsReplayInvariant ==
    ASSUME ReplayInvariant, NEW b \in Branch, NEW r \in Revision, NEW new \in Revision,
           NEW left \in Finalized, NEW right \in Finalized,
           NEW edits \in Seq(TypedEdit), DistinctObjects(edits),
           CommitEffect(b, r, new, left, right, edits)
    PROVE  ReplayInvariant'
  <1>1. PICK events, after : /\ events = EditEvents(rows[b], edits)
                             /\ after = AfterEvents(rows[b], events)
    OBVIOUS
  <1>2. /\ CommitLeaves(b, r, new, left, right, after, events, edits)
        /\ JournalReplays(root[left], journal'[r], after)
        /\ root[left] \in Model /\ after \in Model
    BY <1>1, CommitTypes
  <1>3. Bookkeeping /\ Lineage /\ SealedJournalsReplay /\ WorkingRowsReplay /\ TypeOK
    BY DEF ReplayInvariant, Bookkeeping
  <1>4. Bookkeeping' /\ GroupsNameDistinctObjects'
    BY CommitKeepsBookkeeping
  <1>5. /\ left \in Revision /\ right \in Revision
        /\ state[left] = "finalized" /\ state[right] = "finalized"
    BY DEF Finalized
  <1>6. /\ state'[r] = "finalized" /\ state'[new] = "working"
        /\ branchOf'[new] = b /\ r # new /\ new # NoRevision
        /\ left \notin {r, new} /\ right \notin {r, new}
        /\ parents[r] = <<left>> /\ parents'[r] = <<left, right>> /\ parents'[new] = <<r>>
        /\ objectMode[r] = 1 /\ objectMode'[r] = 1 /\ objectMode'[new] = 1
        /\ root'[r] = after /\ journal'[new] = <<>>
        /\ operations' = operations
        /\ head'[b] = new /\ rows'[b] = after
    BY <1>2 DEF CommitLeaves
  <1>7. \A s \in Revision \ {r, new} :
           /\ state'[s] = state[s] /\ branchOf'[s] = branchOf[s]
           /\ parents'[s] = parents[s] /\ objectMode'[s] = objectMode[s]
           /\ root'[s] = root[s] /\ snapshot'[s] = snapshot[s]
           /\ journal'[s] = journal[s]
    BY <1>2 DEF CommitLeaves
  <1>8. \A s \in Revision : state[s] = "finalized" => s \notin {r, new}
    BY <1>2 DEF CommitLeaves
  <1>9. \A c \in Branch \ {b} :
           /\ head'[c] = head[c] /\ rows'[c] = rows[c]
           /\ head[c] # NoRevision => head[c] \in Revision \ {r, new}
    BY <1>2 DEF CommitLeaves
  <1>10. \A s \in Revision \ {r, new} : parents[s] # <<>> =>
            /\ parents[s][1] \in Revision \ {r, new}
            /\ state[parents[s][1]] = "finalized"
    BY <1>3, <1>8, FirstParentIsSealed DEF Lineage
  <1>11. HeadsAreWorking'
    <2> SUFFICES ASSUME NEW c \in Branch, head'[c] # NoRevision
                 PROVE  state'[head'[c]] = "working" /\ branchOf'[head'[c]] = c
      BY DEF HeadsAreWorking
    <2>1. CASE c = b
      BY <1>6, <2>1
    <2>2. CASE c # b
      <3>1. head'[c] = head[c] /\ head[c] \in Revision \ {r, new}
        BY <1>9, <2>2
      <3>2. state[head[c]] = "working" /\ branchOf[head[c]] = c
        BY <1>3, <2>2, <3>1 DEF Lineage, HeadsAreWorking
      <3> QED BY <1>7, <3>1, <3>2
    <2> QED BY <2>1, <2>2
  <1>12. ParentsAreSealed'
    <2> SUFFICES ASSUME NEW s \in Revision, NEW i \in DOMAIN parents'[s]
                 PROVE  state'[parents'[s][i]] = "finalized"
      BY DEF ParentsAreSealed
    <2>1. CASE s = new
      BY <1>6, <2>1
    <2>2. CASE s = r
      <3>1. parents'[s][i] \in {left, right}
        BY <1>6, <2>2
      <3> QED BY <1>5, <1>6, <1>7, <3>1
    <2>3. CASE s \in Revision \ {r, new}
      <3>1. parents'[s] = parents[s]
        BY <1>7, <2>3
      <3>2. parents[s][i] \in Revision /\ state[parents[s][i]] = "finalized"
        BY <1>3, <3>1, ParentsAreRevisions DEF Lineage, ParentsAreSealed
      <3> QED BY <1>7, <1>8, <3>1, <3>2
    <2> QED BY <2>1, <2>2, <2>3
  <1>13. /\ parents'[r] # <<>> /\ parents'[r][1] = left
         /\ parents'[new] # <<>> /\ parents'[new][1] = r
         /\ parents[r] # <<>> /\ parents[r][1] = left
    BY <1>6
  <1>14. root'[left] = root[left] /\ objectMode'[left] = objectMode[left]
    BY <1>5, <1>6, <1>7
  <1>15. objectMode[left] = 1
    <2>1. objectMode[r] = objectMode[parents[r][1]]
      BY <1>3, <1>13 DEF Lineage, ModesFollow
    <2> QED BY <1>6, <1>13, <2>1
  <1>16. ModesFollow'
    <2> SUFFICES ASSUME NEW s \in Revision, parents'[s] # <<>>
                 PROVE  objectMode'[s] = objectMode'[parents'[s][1]]
      BY DEF ModesFollow
    <2>1. CASE s = new
      BY <1>6, <1>13, <2>1
    <2>2. CASE s = r
      BY <1>6, <1>13, <1>14, <1>15, <2>2
    <2>3. CASE s \in Revision \ {r, new}
      <3>1. objectMode[s] = objectMode[parents[s][1]]
        BY <1>3, <1>7, <2>3 DEF Lineage, ModesFollow
      <3> QED BY <1>7, <1>10, <2>3, <3>1
    <2> QED BY <2>1, <2>2, <2>3
  <1>17. OpaqueStaysOpaque'
    <2> SUFFICES ASSUME NEW s \in Revision, objectMode'[s] = 0
                 PROVE  /\ journal'[s] = <<>>
                        /\ parents'[s] # <<>> =>
                              snapshot'[s] # NoBytes \/ operations'[s] # <<>>
      BY DEF OpaqueStaysOpaque
    <2>1. s \in Revision \ {r, new}
      BY <1>6
    <2>2. /\ objectMode[s] = 0 /\ snapshot'[s] = snapshot[s]
          /\ parents'[s] = parents[s] /\ journal'[s] = journal[s]
          /\ operations'[s] = operations[s]
      BY <1>6, <1>7, <2>1
    <2> QED BY <1>3, <2>2 DEF Lineage, OpaqueStaysOpaque
  <1>18. SealedHaveRoots'
    <2> SUFFICES ASSUME NEW s \in Revision, state'[s] = "finalized", objectMode'[s] = 1
                 PROVE  root'[s] \in Model
      BY DEF SealedHaveRoots
    <2>1. CASE s = r
      BY <1>2, <1>6, <2>1
    <2>2. CASE s # r
      <3>1. s \in Revision \ {r, new}
        BY <1>6, <2>2
      <3>2. state[s] = "finalized" /\ objectMode[s] = 1 /\ root'[s] = root[s]
        BY <1>7, <3>1
      <3> QED BY <1>3, <3>2 DEF Lineage, SealedHaveRoots
    <2> QED BY <2>1, <2>2
  <1>19. OpaqueRowsAreEmpty'
    <2> SUFFICES ASSUME NEW c \in Branch,
                        head'[c] = NoRevision \/ objectMode'[head'[c]] = 0
                 PROVE  rows'[c] = EmptyModel
      BY DEF OpaqueRowsAreEmpty
    <2>1. c \in Branch \ {b}
      BY <1>6
    <2>2. head[c] = NoRevision \/ objectMode[head[c]] = 0
      BY <1>7, <1>9, <2>1
    <2> QED BY <1>3, <1>9, <2>1, <2>2 DEF Lineage, OpaqueRowsAreEmpty
  <1>20. /\ \A s \in Revision \ {r, new} : Baseline(s)' = Baseline(s)
         /\ Baseline(r)' = root[left]
    BY <1>7, <1>10, <1>13, <1>14 DEF Baseline
  <1>21. SealedJournalsReplay'
    <2> SUFFICES ASSUME NEW s \in Revision, state'[s] = "finalized", objectMode'[s] = 1
                 PROVE  /\ parents'[s] # <<>> => root'[parents'[s][1]] # NoRoot
                        /\ JournalReplays(Baseline(s)', journal'[s], root'[s])
      BY DEF SealedJournalsReplay
    <2>1. CASE s = r
      <3>1. root'[parents'[r][1]] # NoRoot
        BY <1>2, <1>13, <1>14, NoRootIsNotAModel
      <3> QED BY <1>2, <1>6, <1>20, <2>1, <3>1
    <2>2. CASE s # r
      <3>1. s \in Revision \ {r, new}
        BY <1>6, <2>2
      <3>2. state[s] = "finalized" /\ objectMode[s] = 1 /\ root'[s] = root[s]
            /\ parents'[s] = parents[s] /\ journal'[s] = journal[s]
        BY <1>7, <3>1
      <3>3. parents[s] # <<>> => root'[parents[s][1]] = root[parents[s][1]]
        BY <1>7, <1>10, <3>1
      <3>4. Baseline(s)' = Baseline(s)
        BY <1>20, <3>1
      <3>5. /\ parents[s] # <<>> => root[parents[s][1]] # NoRoot
            /\ JournalReplays(Baseline(s), journal[s], root[s])
        BY <1>3, <3>2 DEF SealedJournalsReplay
      <3> QED BY <3>2, <3>3, <3>4, <3>5
    <2> QED BY <2>1, <2>2
  <1>22. WorkingRowsReplay'
    <2> SUFFICES ASSUME NEW c \in Branch, head'[c] # NoRevision, objectMode'[head'[c]] = 1
                 PROVE  JournalReplays(Baseline(head[c])', journal'[head'[c]], rows'[c])
      BY DEF WorkingRowsReplay
    <2>1. CASE c = b
      <3>1. Baseline(head[c])' = after
        BY <1>6, <1>13, <2>1 DEF Baseline
      <3> QED BY <1>6, <2>1, <3>1, NothingReplays
    <2>2. CASE c # b
      <3>1. head'[c] = head[c] /\ head[c] \in Revision \ {r, new} /\ rows'[c] = rows[c]
        BY <1>9, <2>2
      <3>2. head[c] # NoRevision /\ objectMode[head[c]] = 1
        BY <1>7, <3>1
      <3>3. Baseline(head[c])' = Baseline(head[c])
        BY <1>7, <1>10, <3>1 DEF Baseline
      <3>4. JournalReplays(Baseline(head[c]), journal[head[c]], rows[c])
        BY <1>3, <3>2 DEF WorkingRowsReplay
      <3> QED BY <1>7, <3>1, <3>3, <3>4
    <2> QED BY <2>1, <2>2
  <1>23. Lineage'
    BY <1>11, <1>12, <1>16, <1>17, <1>18, <1>19 DEF Lineage
  <1> QED BY <1>4, <1>21, <1>22, <1>23 DEF ReplayInvariant

-----------------------------------------------------------------------------
(* A merge commit keeps what undo and redo rely on.                        *)

\* The new rows and events are sound where the old rows are.
LEMMA CommitWritesSoundRows ==
    ASSUME NEW model \in Model, \A o \in Object : SoundRow(model[o]),
           NEW edits \in Seq(TypedEdit),
           \A i \in 1..Len(edits) : Accepts(model[edits[i].object], edits[i]),
           NEW events, events = EditEvents(model, edits),
           NEW after, after = AfterEvents(model, events)
    PROVE  /\ \A i \in DOMAIN events : /\ SoundRow(events[i].before)
                                       /\ SoundRow(events[i].after)
           /\ \A o \in Object : SoundRow(after[o])
  <1>1. events \in Seq(Event) /\ Len(events) = Len(edits)
    BY EditEventsType
  <1>2. DOMAIN events = 1..Len(edits)
    BY <1>1
  <1>3. ASSUME NEW i \in DOMAIN events
        PROVE  SoundRow(events[i].before) /\ SoundRow(events[i].after)
    <2>1. PICK edit \in TypedEdit : edit = edits[i] /\ events[i] = EventOf(model, edit)
      BY <1>2, EditEventsType
    <2>2. edit.object \in Object /\ Accepts(model[edit.object], edit)
      BY <1>2, <2>1 DEF TypedEdit
    <2>3. model[edit.object] \in Row /\ SoundRow(model[edit.object])
      BY <2>2 DEF Model
    <2>4. SoundRow(Written(model[edit.object], edit))
      BY <2>2, <2>3, WrittenIsSoundAndNew
    <2>5. events[i].before = model[edit.object]
          /\ events[i].after = Written(model[edit.object], edit)
      BY <2>1 DEF EventOf
    <2> QED BY <2>3, <2>4, <2>5
  <1>4. ASSUME NEW o \in Object
        PROVE  SoundRow(after[o])
    <2>1. CASE IsTouched(events, o)
      <3>1. \E i \in DOMAIN events : events[i].object = o
        BY <2>1 DEF IsTouched
      <3>2. PICK i \in DOMAIN events : i = CHOOSE k \in DOMAIN events : events[k].object = o
        BY <3>1
      <3>3. after[o] = events[i].after
        BY <2>1, <3>2 DEF AfterEvents
      <3> QED BY <1>3, <3>3
    <2>2. CASE ~IsTouched(events, o)
      BY <2>2 DEF AfterEvents
    <2> QED BY <2>1, <2>2
  <1> QED BY <1>3, <1>4

LEMMA ItemsOfConcatenation ==
    ASSUME NEW S, NEW past \in Seq(S), NEW added \in Seq(S)
    PROVE  \A i \in DOMAIN (past \o added) :
              \/ i \in DOMAIN past /\ (past \o added)[i] = past[i]
              \/ \E k \in DOMAIN added : (past \o added)[i] = added[k]
  <1> SUFFICES ASSUME NEW i \in DOMAIN (past \o added), i \notin DOMAIN past
               PROVE  \E k \in DOMAIN added : (past \o added)[i] = added[k]
    OBVIOUS
  <1> DEFINE n == Len(past)
             m == Len(added)
  <1>1. /\ n \in Nat /\ m \in Nat
        /\ DOMAIN past = 1..n /\ DOMAIN added = 1..m
        /\ DOMAIN (past \o added) = 1..(n + m)
    OBVIOUS
  <1> HIDE DEF n, m
  <1>2. i - n \in 1..m
    BY <1>1
  <1>3. (past \o added)[i] = added[i - n]
    BY <1>1, <1>2 DEF n, m
  <1> QED BY <1>1, <1>2, <1>3

LEMMA CommitKeepsUndoInvariant ==
    ASSUME ReplayInvariant, UndoInvariant, NEW b \in Branch, NEW r \in Revision,
           NEW new \in Revision, NEW left \in Finalized, NEW right \in Finalized,
           NEW edits \in Seq(TypedEdit), DistinctObjects(edits),
           CommitEffect(b, r, new, left, right, edits)
    PROVE  UndoInvariant'
  <1>1. PICK events, after : /\ events = EditEvents(rows[b], edits)
                             /\ after = AfterEvents(rows[b], events)
    OBVIOUS
  <1>2. CommitLeaves(b, r, new, left, right, after, events, edits)
    BY <1>1, CommitHasLeft
  <1>3. /\ r # new /\ head[b] = r
        /\ root'[r] = after /\ root'[new] = root[new]
        /\ journal[new] = <<>> /\ groups[new] = <<>>
        /\ journal'[r] = journal[r] \o events /\ journal'[new] = <<>>
        /\ groups'[r] = GroupsAfter(groups[r], edits, generation[r]) /\ groups'[new] = <<>>
        /\ head'[b] = new /\ rows'[b] = after
    BY <1>2 DEF CommitLeaves
  <1>4. \A s \in Revision \ {r, new} : /\ root'[s] = root[s] /\ journal'[s] = journal[s]
                                       /\ groups'[s] = groups[s]
    BY <1>2 DEF CommitLeaves
  <1>5. \A c \in Branch \ {b} :
           /\ head'[c] = head[c] /\ rows'[c] = rows[c]
           /\ head[c] # NoRevision => head[c] \in Revision \ {r, new}
    BY <1>2 DEF CommitLeaves
  <1>6. /\ rows[b] \in Model /\ journal[r] \in Seq(Event) /\ groups[r] \in Seq(Group)
        /\ generation[r] \in Nat
    BY DEF ReplayInvariant, Bookkeeping, TypeOK
  <1>7. \A i \in 1..Len(edits) : Accepts(rows[b][edits[i].object], edits[i])
    BY DEF CommitEffect
  <1>8. events \in Seq(Event) /\ Len(events) = Len(edits)
    BY <1>1, <1>6, EditEventsType
  <1>9. /\ \A i \in DOMAIN events : SoundRow(events[i].before) /\ SoundRow(events[i].after)
        /\ \A o \in Object : SoundRow(after[o])
    <2>1. \A o \in Object : SoundRow(rows[b][o])
      BY DEF UndoInvariant, RowsAreSound
    <2> QED BY <1>1, <1>6, <1>7, <2>1, CommitWritesSoundRows
  <1>10. RowsAreSound'
    <2>1. ASSUME NEW c \in Branch, NEW o \in Object PROVE SoundRow(rows'[c][o])
      BY <1>3, <1>5, <1>9 DEF UndoInvariant, RowsAreSound
    <2>2. ASSUME NEW s \in Revision, root'[s] # NoRoot, NEW o \in Object
          PROVE  SoundRow(root'[s][o])
      <3>1. CASE s = r
        BY <1>3, <1>9, <3>1
      <3>2. CASE s # r
        <4>1. root'[s] = root[s]
          BY <1>3, <1>4, <3>2
        <4> QED BY <2>2, <4>1 DEF UndoInvariant, RowsAreSound
      <3> QED BY <3>1, <3>2
    <2>3. ASSUME NEW s \in Revision, NEW i \in DOMAIN journal'[s]
          PROVE  SoundRow(journal'[s][i].before) /\ SoundRow(journal'[s][i].after)
      <3>1. CASE s = r
        <4>1. PICK past \in Seq(Event), added \in Seq(Event) :
                 past = journal[r] /\ added = events
          BY <1>6, <1>8
        <4>2. journal'[r] = past \o added
          BY <1>3, <4>1
        <4>3. \/ i \in DOMAIN past /\ journal'[r][i] = past[i]
              \/ \E k \in DOMAIN added : journal'[r][i] = added[k]
          BY <2>3, <3>1, <4>2, ItemsOfConcatenation
        <4>4. \A k \in DOMAIN past : SoundRow(past[k].before) /\ SoundRow(past[k].after)
          BY <4>1 DEF UndoInvariant, RowsAreSound
        <4> QED BY <1>9, <3>1, <4>1, <4>3, <4>4
      <3>2. CASE s = new
        BY <1>3, <2>3, <3>2
      <3>3. CASE s \in Revision \ {r, new}
        <4>1. journal'[s] = journal[s]
          BY <1>4, <3>3
        <4> QED BY <2>3, <4>1 DEF UndoInvariant, RowsAreSound
      <3> QED BY <3>1, <3>2, <3>3
    <2> QED BY <2>1, <2>2, <2>3 DEF RowsAreSound, SoundRow
  <1>11. KindsAreKept'
    <2> SUFFICES ASSUME NEW c \in Branch, head'[c] # NoRevision,
                        NEW i \in DOMAIN journal'[head'[c]]
                 PROVE  LET event == journal'[head'[c]][i]
                            row   == rows'[c][event.object]
                        IN  /\ row # Absent
                            /\ row.kind = event.after.kind
                            /\ event.before # Absent =>
                                  event.before.kind = event.after.kind
      BY DEF KindsAreKept
    <2>1. c # b
      BY <1>3
    <2>2. head'[c] = head[c] /\ rows'[c] = rows[c] /\ journal'[head[c]] = journal[head[c]]
          /\ head[c] # NoRevision
      BY <1>4, <1>5, <2>1
    <2> QED BY <2>2 DEF UndoInvariant, KindsAreKept
  <1>12. StacksHoldEdits'
    <2> SUFFICES ASSUME NEW s \in Revision
                 PROVE  Stacks(groups'[s]) \in ValidStacks(EditPositions(s)')
      BY DEF StacksHoldEdits, ValidStacks
    <2>1. Stacks(groups[s]) \in ValidStacks(EditPositions(s))
      BY DEF UndoInvariant, StacksHoldEdits
    <2>2. CASE groups'[s] = groups[s]
      <3>1. EditPositions(s)' = EditPositions(s)
        BY <2>2 DEF EditPositions
      <3> QED BY <2>1, <2>2, <3>1
    <2>3. CASE groups'[s] # groups[s]
      <3>1. s = r /\ edits # <<>>
        BY <1>3, <1>4, <2>3 DEF GroupsAfter
      <3> DEFINE entry == [action |-> "edit", target |-> 0, first |-> generation[r] + 1,
                           last |-> generation[r] + Len(edits)]
      <3>2. entry \in Group /\ entry.action = "edit"
        BY <1>6 DEF Group
      <3>3. groups'[r] = Append(groups[r], entry)
        BY <1>3, <3>1 DEF GroupsAfter
      <3> HIDE DEF entry
      <3>4. PICK log, stacks, n : /\ log \in Seq(Group) /\ log = groups[r]
                                  /\ stacks = Stacks(log) /\ n = Len(log) + 1
        BY <1>6
      <3>5. Stacks(groups'[r]) = Replayed(stacks, entry, n)
        BY <3>2, <3>3, <3>4, StacksAppend
      <3>6. stacks \in ValidStacks(EditPositions(r))
        BY <2>1, <3>1, <3>4
      <3>7. Stacks(groups'[r])
               = [applied |-> Append(stacks.applied, n), undone |-> <<>>, valid |-> TRUE]
        BY <3>2, <3>5, <3>6 DEF Replayed, ValidStacks
      <3>8. /\ DOMAIN log \subseteq DOMAIN groups'[r] /\ n \in DOMAIN groups'[r]
            /\ groups'[r][n] = entry
            /\ \A g \in DOMAIN log : groups'[r][g] = log[g]
        BY <3>2, <3>3, <3>4
      <3>9. EditPositions(r) \subseteq EditPositions(r)' /\ n \in EditPositions(r)'
        BY <3>2, <3>4, <3>8 DEF EditPositions
      <3>10. PICK G : G = EditPositions(r)'
        OBVIOUS
      <3>11. stacks.applied \in Seq(G) /\ n \in G
        <4>1. stacks.applied \in Seq(EditPositions(r))
          BY <3>6 DEF ValidStacks
        <4> QED BY <3>9, <3>10, <4>1
      <3> QED BY <3>1, <3>7, <3>10, <3>11 DEF ValidStacks
    <2> QED BY <2>2, <2>3
  <1>13. EditsAreChained'
    <2> SUFFICES ASSUME NEW c \in Branch, NEW s \in Revision, head'[c] = s
                 PROVE  ChainedTo(s, VisibleModel(rows[c]))'
      BY DEF EditsAreChained
    <2>1. CASE c = b
      <3>1. s = new
        BY <1>3, <2>1
      <3>2. Compensable(s, FALSE)' = <<>> /\ Compensable(s, TRUE)' = <<>>
        BY <1>3, <3>1, StacksEmpty DEF Compensable, NoStacks
      <3>3. \A view, names, found, leftBy : Chained(view, <<>>, names, found, leftBy)
        BY DEF Chained
      <3> QED BY <3>2, <3>3 DEF ChainedTo
    <2>2. CASE c # b
      <3>1. VisibleModel(rows[c])' = VisibleModel(rows[c])
        BY <1>5, <2>2 DEF VisibleModel
      <3>2. s # NoRevision
        BY NullsAreNotValues
      <3>3. head[c] = s /\ s \in Revision \ {r, new}
        BY <1>5, <2>2, <3>2
      <3>4. groups'[s] = groups[s] /\ journal'[s] = journal[s]
        BY <1>4, <3>3
      <3>5. ChainedTo(s, VisibleModel(rows[c]))
        BY <3>3 DEF UndoInvariant, EditsAreChained
      <3> QED BY <3>1, <3>4, <3>5, SameRecordsSameStacks DEF ChainedTo
    <2> QED BY <2>1, <2>2
  <1> QED BY <1>10, <1>11, <1>12, <1>13 DEF UndoInvariant

-----------------------------------------------------------------------------
(* What a merger has read is what it will commit on, or it will notice.    *)

BasesOf(pars, left, right) == Best(pars, Reached(pars, left) \cap Reached(pars, right))

\* The plan leaves the three-way merge of three models.
Merges(plan, base, left, right) ==
    /\ PlansChanges(plan, left)
    /\ \A o \in Object :
          ThreeWay(Live(base[o]), Live(left[o]), Live(right[o]), Outcome(plan, left, o))

PlanFields == {"stage", "branch", "working", "expected", "left", "right",
               "sealed", "seen", "digest", "plan"}

\* The bases of a plan are known from the moment it is opened.  What it has read
\* of the left is still true as long as the generation is the expected one.
PlanIsOpened(p) ==
    /\ ~p.sealed
    /\ generation[p.working] >= p.expected
    /\ objectMode[p.right] = 1
    /\ \E base \in Finalized :
          /\ BasesOf(parents, p.working, p.right) = {base}
          /\ objectMode[base] = 1
          /\ generation[p.working] = p.expected =>
                /\ p.stage = "read" => p.seen = rows[p.branch]
                /\ p.stage = "planned" =>
                      Merges(p.plan, root[base], rows[p.branch], root[p.right])

PlanIsCurrent(p) ==
    /\ DOMAIN p = PlanFields
    /\ p.stage \in {"begun", "opened", "read", "planned"}
    /\ p.expected \in Nat
    /\ state[p.working] # "unused"
    /\ state[p.working] = "working" =>
          /\ head[p.branch] = p.working
          /\ p.stage # "begun" => PlanIsOpened(p)

PlansAreCurrent == \A m \in Merger : merge[m] # NoMerge => PlanIsCurrent(merge[m])

\* What a step does to the working head w of a branch: it is sealed, edited under
\* a higher generation, or left with its rows and its snapshot.
WorkingMoves(b, w) ==
    \/ state'[w] = "finalized"
    \/ /\ state'[w] = "working"
       /\ head'[b] = w
       /\ parents'[w] = parents[w]
       /\ generation'[w] >= generation[w]
       /\ generation'[w] = generation[w] => /\ rows'[b] = rows[b]
                                            /\ snapshot'[w] = snapshot[w]

\* What a step does to everything a plan depends on.
PlansMove ==
    /\ \A s \in Finalized : Kept(s)
    /\ \A b \in Branch : head[b] # NoRevision => WorkingMoves(b, head[b])

LEMMA StoreMovesWorking ==
    ASSUME ReplayInvariant, [Next]_tables, NEW b \in Branch, NEW w \in Revision, head[b] = w
    PROVE  WorkingMoves(b, w)
  <1>1. /\ w # NoRevision /\ head[b] # NoRevision /\ state[w] = "working"
        /\ generation[w] \in Nat
    BY NullsAreNotValues
       DEF ReplayInvariant, Lineage, HeadsAreWorking, Bookkeeping, TypeOK
  <1>2. Bookkeeping /\ TypeOK /\ HeadsAreWorking
    BY DEF ReplayInvariant, Lineage, Bookkeeping
  <1> SUFFICES ASSUME ~ (state'[w] = "finalized")
               PROVE  WorkingMoves(b, w)
    BY DEF WorkingMoves
  <1>3. CASE UNCHANGED tables
    BY <1>1, <1>3 DEF tables, WorkingMoves
  <1>4. ASSUME NEW c \in Branch, NEW r \in Revision, CreateProject(c, r)
        PROVE  WorkingMoves(b, w)
    BY <1>1, <1>4 DEF CreateProject
  <1>5. ASSUME NEW c \in Branch, NEW r \in Revision, NEW base \in Revision,
               CreateBranch(c, r, base)
        PROVE  WorkingMoves(b, w)
    <2>1. c # b /\ r # w
      BY <1>1, <1>5 DEF CreateBranch
    <2> QED BY <1>1, <1>2, <1>5, <2>1 DEF CreateBranch, TypeOK, WorkingMoves
  <1>6. ASSUME NEW c \in Branch, NEW new \in Revision, NEW expected,
               Finalize(c, new, expected)
        PROVE  WorkingMoves(b, w)
    <2>1. head[c] \in Revision /\ new # w
      BY <1>1, <1>2, <1>6 DEF Finalize, HasWorkingHead, SealAndAdvance, TypeOK
    <2>2. c # b
      <3> SUFFICES ASSUME c = b PROVE FALSE
        OBVIOUS
      <3> QED BY <1>1, <1>2, <1>6, <2>1 DEF Finalize, SealAndAdvance, TypeOK
    <2>3. head[c] # w
      BY <1>1, <1>2, <2>2, HeadsAreApart
    <2> QED BY <1>1, <1>2, <1>6, <2>1, <2>2, <2>3
            DEF Finalize, SealAndAdvance, TypeOK, WorkingMoves
  <1>7. ASSUME NEW c \in Branch, ObjectStep(c)
        PROVE  WorkingMoves(b, w)
    <2>1. PICK edits \in Seq(TypedEdit), action \in {"edit", "undo", "redo"},
               target \in Nat : HasWorkingHead(c) /\ ApplyEdits(c, edits, action, target)
      BY <1>7 DEF ObjectStep
    <2>2. EditEffect(c, edits, action, target)
      BY <1>2, <2>1, ApplyEditsEffect
    <2>3. PICK n : n = Len(edits)
      OBVIOUS
    <2>4. n \in Nat /\ n > 0
      BY <2>2, <2>3 DEF EditEffect
    <2>5. generation' = [generation EXCEPT ![head[c]] = @ + n]
      BY <2>2, <2>3, Zenon DEF EditEffect
    <2>6. UNCHANGED <<head, state, parents, snapshot>> /\ \A d \in Branch : d # c => rows'[d] = rows[d]
      BY <1>7, ObjectStepFrame
    <2>7. CASE c = b
      <3>1. generation'[w] = generation[w] + n
        BY <1>1, <1>2, <2>5, <2>7 DEF TypeOK
      <3>2. generation'[w] > generation[w]
        BY <1>1, <2>4, <3>1
      <3> QED BY <1>1, <2>6, <3>1, <3>2, <2>4 DEF WorkingMoves
    <2>8. CASE c # b
      <3>1. head[c] # w
        BY <1>1, <1>2, <2>8, HeadsAreApart
      <3>2. generation'[w] = generation[w]
        BY <1>2, <2>5, <3>1 DEF TypeOK
      <3> QED BY <1>1, <2>6, <2>8, <3>2 DEF WorkingMoves
    <2> QED BY <2>7, <2>8
  <1>8. ASSUME NEW c \in Branch, SnapshotStep(c)
        PROVE  WorkingMoves(b, w)
    <2>1. UNCHANGED <<head, rows, state, parents>>
      BY <1>8, SnapshotStepFrame
    <2>2. generation' = [generation EXCEPT ![head[c]] = @ + 1]
      BY <1>8 DEF SnapshotStep, ApplySnapshotOperation
    <2>3. \/ generation'[w] = generation[w] /\ head[c] # w
          \/ generation'[w] = generation[w] + 1
      BY <1>1, <1>2, <2>2 DEF TypeOK
    <2>4. generation'[w] >= generation[w]
      BY <1>1, <2>3
    <2>5. head[c] # w => snapshot'[w] = snapshot[w]
      BY <1>8, SnapshotStepFrame
    <2>6. generation'[w] = generation[w] => head[c] # w
      BY <1>1, <2>3
    <2> QED BY <1>1, <2>1, <2>4, <2>5, <2>6 DEF WorkingMoves
  <1> QED BY <1>2, <1>3, <1>4, <1>5, <1>6, <1>7, <1>8, StepKinds

LEMMA StoreMovesPlans ==
    ASSUME ReplayInvariant, [Next]_tables
    PROVE  PlansMove
  <1>1. \A s \in Finalized : Kept(s)
    BY FinalizedIsKept DEF Finalized
  <1>2. ASSUME NEW b \in Branch, head[b] # NoRevision PROVE WorkingMoves(b, head[b])
    <2>1. head[b] \in Revision
      BY <1>2 DEF ReplayInvariant, Bookkeeping, TypeOK
    <2> QED BY <2>1, StoreMovesWorking
  <1> QED BY <1>1, <1>2 DEF PlansMove

LEMMA CommitMovesPlans ==
    ASSUME ReplayInvariant, NEW b \in Branch, NEW r \in Revision, NEW new \in Revision,
           NEW left \in Finalized, NEW right \in Finalized, NEW edits,
           CommitEffect(b, r, new, left, right, edits)
    PROVE  PlansMove
  <1>1. PICK events, after : /\ events = EditEvents(rows[b], edits)
                             /\ after = AfterEvents(rows[b], events)
    OBVIOUS
  <1>2. CommitLeaves(b, r, new, left, right, after, events, edits)
    BY <1>1, CommitHasLeft
  <1>3. ASSUME NEW s \in Finalized PROVE Kept(s)
    <2>1. s \in Revision \ {r, new} /\ state[s] = "finalized"
      BY <1>2 DEF CommitLeaves, Finalized
    <2> QED BY <1>2, <2>1 DEF CommitLeaves, Kept
  <1>4. ASSUME NEW c \in Branch, head[c] # NoRevision PROVE WorkingMoves(c, head[c])
    <2>1. CASE c = b
      BY <1>2, <2>1 DEF CommitLeaves, WorkingMoves
    <2>2. CASE c # b
      <3>1. PICK w : w = head[c]
        OBVIOUS
      <3>2. /\ w \in Revision \ {r, new} /\ head'[c] = w /\ rows'[c] = rows[c]
            /\ state'[w] = state[w] /\ parents'[w] = parents[w]
            /\ generation'[w] = generation[w] /\ snapshot'[w] = snapshot[w]
        BY <1>2, <1>4, <2>2, <3>1 DEF CommitLeaves
      <3>3. state[w] = "working" /\ generation[w] \in Nat
        BY <1>4, <3>1, <3>2
           DEF ReplayInvariant, Lineage, HeadsAreWorking, Bookkeeping, TypeOK
      <3>4. generation'[w] >= generation[w]
        BY <3>2, <3>3
      <3> QED BY <3>1, <3>2, <3>3, <3>4 DEF WorkingMoves
    <2> QED BY <2>1, <2>2
  <1> QED BY <1>3, <1>4 DEF PlansMove

\* A working revision with the same parents has the same ancestors after a step.
LEMMA WorkingKeepsBases ==
    ASSUME GraphIsSound, parents' \in Graph, AncestryStays,
           NEW w \in Revision, parents'[w] = parents[w],
           NEW right \in Finalized
    PROVE  BasesOf(parents', w, right) = BasesOf(parents, w, right)
  <1>1. parents \in Graph /\ right \in Revision /\ ParentsAreFinal
    BY DEF GraphIsSound, GraphTypes, Finalized
  <1>2. From(parents', w) = From(parents, w)
    BY DEF From
  <1>3. \A p \in From(parents, w) : Reached(parents', p) = Reached(parents, p)
    BY <1>1 DEF ParentsAreFinal, AncestryStays
  <1>4. \A a \in Reached(parents, w) : a \in Reached(parents', w)
    <2> SUFFICES ASSUME NEW a \in Reached(parents, w) PROVE a \in Reached(parents', w)
      OBVIOUS
    <2>1. a = w \/ \E p \in From(parents, w) : a \in Reached(parents, p)
      BY <1>1, ReachedUnfolds
    <2>2. CASE a = w
      BY <2>2, ReachedIsClosed
    <2>3. ASSUME NEW p \in From(parents, w), a \in Reached(parents, p)
          PROVE  a \in Reached(parents', w)
      BY <1>2, <1>3, <2>3, ReachedByParent
    <2> QED BY <2>1, <2>2, <2>3
  <1>5. \A a \in Reached(parents', w) : a \in Reached(parents, w)
    <2> SUFFICES ASSUME NEW a \in Reached(parents', w) PROVE a \in Reached(parents, w)
      OBVIOUS
    <2>1. a = w \/ \E p \in From(parents', w) : a \in Reached(parents', p)
      BY ReachedUnfolds
    <2>2. CASE a = w
      BY <1>1, <2>2, ReachedIsClosed
    <2>3. ASSUME NEW p \in From(parents', w), a \in Reached(parents', p)
          PROVE  a \in Reached(parents, w)
      BY <1>1, <1>2, <1>3, <2>3, ReachedByParent
    <2> QED BY <2>1, <2>2, <2>3
  <1>6. Reached(parents', w) = Reached(parents, w)
    BY <1>4, <1>5
  <1>7. Reached(parents', right) = Reached(parents, right)
    BY DEF AncestryStays
  <1>8. PICK C : C = Reached(parents, w) \cap Reached(parents, right)
    OBVIOUS
  <1>9. C \subseteq Finalized
    <2>1. Closed(parents, Finalized)
      BY <1>1, FinalizedIsClosed
    <2>2. Reached(parents, right) \subseteq Finalized
      BY <2>1, ReachedIsLeast
    <2> QED BY <1>8, <2>2
  <1>10. \A d \in C : Reached(parents', d) = Reached(parents, d)
    BY <1>9 DEF AncestryStays
  <1>11. Best(parents', C) = Best(parents, C)
    BY <1>10 DEF Best
  <1> QED BY <1>6, <1>7, <1>8, <1>11 DEF BasesOf

\* What a merger has read stays current while others go on.
LEMMA PlanStaysCurrent ==
    ASSUME GraphIsSound, GraphIsSound', AncestryStays, PlansMove,
           ReplayInvariant, ReplayInvariant',
           NEW p, PlanIsApart(p), PlanIsCurrent(p)
    PROVE  PlanIsCurrent(p)'
  <1>1. PICK b \in Branch, w \in Revision, right \in Finalized :
           b = p.branch /\ w = p.working /\ right = p.right
    BY DEF PlanIsApart
  <1>2. /\ DOMAIN p = PlanFields /\ p.stage \in {"begun", "opened", "read", "planned"}
        /\ p.expected \in Nat /\ state[w] # "unused"
    BY <1>1 DEF PlanIsCurrent
  <1>3. CASE state[w] # "working"
    <2>1. w \in Finalized
      BY <1>2, <1>3 DEF Finalized, GraphIsSound, GraphTypes
    <2>2. state'[w] = "finalized"
      BY <2>1 DEF PlansMove, Kept
    <2> QED BY <1>1, <1>2, <2>2 DEF PlanIsCurrent
  <1>4. CASE state[w] = "working"
    <2>1. head[b] = w /\ (p.stage # "begun" => PlanIsOpened(p))
      BY <1>1, <1>4 DEF PlanIsCurrent
    <2>2. head[b] # NoRevision
      BY <2>1, NullsAreNotValues
    <2>3. WorkingMoves(b, w)
      BY <2>1, <2>2 DEF PlansMove
    <2>4. CASE state'[w] = "finalized"
      BY <1>1, <1>2, <2>4 DEF PlanIsCurrent
    <2>5. CASE state'[w] # "finalized"
      <3>1. /\ state'[w] = "working" /\ head'[b] = w /\ parents'[w] = parents[w]
            /\ generation'[w] >= generation[w]
            /\ generation'[w] = generation[w] => rows'[b] = rows[b]
        BY <2>3, <2>5 DEF WorkingMoves
      <3>2. ASSUME p.stage # "begun" PROVE PlanIsOpened(p)'
        <4>1. /\ ~p.sealed /\ generation[w] >= p.expected /\ objectMode[right] = 1
          BY <1>1, <2>1, <3>2 DEF PlanIsOpened
        <4>2. PICK base \in Finalized :
                 /\ BasesOf(parents, w, right) = {base} /\ objectMode[base] = 1
                 /\ generation[w] = p.expected =>
                       /\ p.stage = "read" => p.seen = rows[b]
                       /\ p.stage = "planned" =>
                             Merges(p.plan, root[base], rows[b], root[right])
          BY <1>1, <2>1, <3>2 DEF PlanIsOpened
        <4>3. generation[w] \in Nat /\ generation'[w] \in Nat
          BY DEF ReplayInvariant, Bookkeeping, TypeOK
        <4>4. generation'[w] >= p.expected
              /\ (generation'[w] = p.expected => generation'[w] = generation[w]
                                                 /\ generation[w] = p.expected)
          BY <1>2, <3>1, <4>1, <4>3
        <4>5. /\ objectMode'[right] = 1 /\ objectMode'[base] = 1
              /\ root'[right] = root[right] /\ root'[base] = root[base]
              /\ base \in Finalized'
          BY <4>1, <4>2 DEF PlansMove, Kept, AncestryStays
        <4>6. BasesOf(parents', w, right) = {base}
          <5>1. parents' \in Graph
            BY DEF GraphIsSound, GraphTypes
          <5> QED BY <3>1, <4>2, <5>1, WorkingKeepsBases
        <4>7. generation'[w] = p.expected =>
                 /\ p.stage = "read" => p.seen = rows'[b]
                 /\ p.stage = "planned" =>
                       Merges(p.plan, root'[base], rows'[b], root'[right])
          BY <3>1, <4>2, <4>4, <4>5
        <4> QED BY <1>1, <4>1, <4>4, <4>5, <4>6, <4>7 DEF PlanIsOpened
      <3> QED BY <1>1, <1>2, <3>1, <3>2 DEF PlanIsCurrent
    <2> QED BY <2>4, <2>5
  <1> QED BY <1>3, <1>4

\* Each read of a merger leaves a plan that is current: the checks of the target,
\* the opened preview, the rows of the left and the plan in turn.
LEMMA BeginIsCurrent ==
    ASSUME GraphInvariant, ReplayInvariant, NEW m \in Merger, NEW b \in Branch,
           NEW expected, NEW right \in Revision, BeginMerge(m, b, expected, right)
    PROVE  PlanIsCurrent(merge'[m])
  <1>1. PICK r \in Revision : r = head[b] /\ state[r] = "working"
    BY DEF GraphInvariant, GraphIsSound, GraphTypes, BeginMerge, HasWorkingHead
  <1>2. PICK p, left : /\ merge' = [merge EXCEPT ![m] = p]
                       /\ p = [stage    |-> "begun",
                               branch   |-> b,        working |-> r,
                               expected |-> expected, left    |-> left,
                               right    |-> right,    sealed  |-> FALSE,
                               seen     |-> EmptyModel, digest |-> NoRoot,
                               plan     |-> <<>>]
    BY <1>1 DEF BeginMerge
  <1>3. merge'[m] = p
    BY <1>2 DEF GraphInvariant, PlansAreApart
  <1>4. expected \in Nat
    <2>1. generation[r] = expected
      BY <1>1 DEF BeginMerge
    <2> QED BY <2>1 DEF ReplayInvariant, Bookkeeping, TypeOK
  <1>5. PlanIsCurrent(p)
    BY <1>1, <1>2, <1>4 DEF PlanIsCurrent, PlanFields
  <1> QED BY <1>3, <1>5

LEMMA OpenIsCurrent ==
    ASSUME GraphInvariant, ReplayInvariant, PlansAreCurrent, NEW m \in Merger, OpenPreview(m)
    PROVE  PlanIsCurrent(merge'[m])
  <1>1. PICK old : old = merge[m]
    OBVIOUS
  <1>2. /\ PlanIsCurrent(old) /\ old.stage = "begun" /\ PlanIsApart(old)
        /\ DOMAIN merge = Merger
    BY <1>1 DEF OpenPreview, PlansAreCurrent, GraphInvariant, PlansAreApart, PlanIsApart
  <1>3. PICK b \in Branch, w \in Revision, right \in Finalized :
           b = old.branch /\ w = old.working /\ right = old.right
    BY <1>2 DEF PlanIsApart
  <1>4. PICK p : p = [old EXCEPT !.stage = "opened", !.sealed = state[w] = "finalized"]
    OBVIOUS
  <1>5. merge'[m] = p
    BY <1>1, <1>2, <1>3, <1>4 DEF OpenPreview
  <1>6. DOMAIN old = PlanFields
    BY <1>2 DEF PlanIsCurrent
  <1>7. /\ DOMAIN p = PlanFields /\ p.stage = "opened" /\ p.branch = b /\ p.working = w
        /\ p.expected = old.expected /\ p.right = right
        /\ p.sealed = (state[w] = "finalized")
    BY <1>3, <1>4, <1>6 DEF PlanFields
  <1>8. old.expected \in Nat /\ state[w] # "unused"
        /\ (state[w] = "working" => head[b] = w)
    BY <1>2, <1>3 DEF PlanIsCurrent
  <1>9. PlanIsOpened(p)
        \/ state[w] # "working"
    <2> SUFFICES ASSUME state[w] = "working" PROVE PlanIsOpened(p)
      OBVIOUS
    <2>1. PICK bases : bases = MergeBases(w, right)
      OBVIOUS
    <2>2. /\ Cardinality(bases) = 1 /\ generation[w] = old.expected
          /\ \A r \in bases \cup {w, right} : objectMode[r] = 1
      BY <1>1, <1>3, <2>1 DEF OpenPreview
    <2>3. bases = BasesOf(parents, w, right) /\ bases \subseteq Finalized
      <3>1. w \in InUse
        BY <1>8 DEF InUse
      <3>2. bases = BasesOf(parents, w, right)
        BY <2>1, <3>1, BasesAreBest DEF BasesOf, GraphInvariant
      <3>3. Closed(parents, Finalized)
        BY FinalizedIsClosed DEF GraphInvariant, GraphIsSound
      <3>4. Reached(parents, right) \subseteq Finalized
        BY <3>3, ReachedIsLeast
      <3> QED BY <3>2, <3>4 DEF BasesOf, Best
    <2>4. PICK base \in Finalized : bases = {base}
      <3>1. IsFiniteSet(bases)
        BY <2>3, RevisionsAreFinite, FS_Subset DEF Finalized
      <3>2. \E base : bases = {base}
        BY <2>2, <3>1, FS_Singleton
      <3> QED BY <2>3, <3>2
    <2>5. generation[w] >= old.expected
      BY <1>8, <2>2
    <2> QED BY <1>7, <2>2, <2>3, <2>4, <2>5 DEF PlanIsOpened
  <1>10. PlanIsCurrent(p)
    BY <1>7, <1>8, <1>9 DEF PlanIsCurrent
  <1> QED BY <1>5, <1>10

LEMMA ReadIsCurrent ==
    ASSUME GraphInvariant, PlansAreCurrent, NEW m \in Merger, ReadLeft(m)
    PROVE  PlanIsCurrent(merge'[m])
  <1>1. PICK old : old = merge[m]
    OBVIOUS
  <1>2. /\ PlanIsCurrent(old) /\ old.stage = "opened" /\ PlanIsApart(old)
        /\ DOMAIN merge = Merger
    BY <1>1 DEF ReadLeft, PlansAreCurrent, GraphInvariant, PlansAreApart, PlanIsApart
  <1>3. PICK b \in Branch, w \in Revision, right \in Finalized :
           b = old.branch /\ w = old.working /\ right = old.right
    BY <1>2 DEF PlanIsApart
  <1>4. PICK p : p = [old EXCEPT !.stage = "read", !.seen = LeftRows(m)]
    OBVIOUS
  <1>5. merge'[m] = p
    BY <1>1, <1>2, <1>4 DEF ReadLeft
  <1>6. DOMAIN old = PlanFields /\ old.expected \in Nat /\ state[w] # "unused"
        /\ (state[w] = "working" => head[b] = w)
    BY <1>2, <1>3 DEF PlanIsCurrent
  <1>7. /\ DOMAIN p = PlanFields /\ p.stage = "read" /\ p.branch = b /\ p.working = w
        /\ p.expected = old.expected /\ p.right = right /\ p.sealed = old.sealed
        /\ p.seen = LeftRows(m)
    BY <1>3, <1>4, <1>6 DEF PlanFields
  <1>8. ASSUME state[w] = "working" PROVE PlanIsOpened(p)
    <2>1. PlanIsOpened(old)
      BY <1>2, <1>3, <1>8 DEF PlanIsCurrent
    <2>2. p.seen = rows[b]
      BY <1>1, <1>3, <1>7, <1>8, <2>1 DEF LeftRows, PlanIsOpened
    <2> QED BY <1>3, <1>7, <2>1, <2>2 DEF PlanIsOpened
  <1>9. PlanIsCurrent(p)
    BY <1>6, <1>7, <1>8 DEF PlanIsCurrent
  <1> QED BY <1>5, <1>9

\* The plan that is made of current rows is the three-way merge.
LEMMA PlanMerges ==
    ASSUME NEW base \in Model, NEW left \in Model, NEW right \in Model,
           \A o \in Object : SoundRow(base[o]) /\ SoundRow(left[o]) /\ SoundRow(right[o]),
           NEW resolutions \in [Object -> Resolution],
           \A o \in Object : Resolved(resolutions[o], Live(base[o]), Live(left[o]),
                                      Live(right[o])),
           NEW chosen,
           chosen = [o \in Object |-> Chosen(Live(base[o]), Live(left[o]), Live(right[o]),
                                             resolutions[o])],
           NEW plan,
           plan = Seqs!Restrict(chosen, {o \in Object : chosen[o] # Live(left[o])})
    PROVE  Merges(plan, base, left, right)
  <1>1. ASSUME NEW o \in Object
        PROVE  /\ ThreeWay(Live(base[o]), Live(left[o]), Live(right[o]), chosen[o])
               /\ chosen[o] \in LiveRow
    <2>1. base[o] \in Row /\ left[o] \in Row /\ right[o] \in Row
      BY DEF Model
    <2>2. PICK x \in LiveRow, y \in LiveRow, z \in LiveRow :
             x = Live(base[o]) /\ y = Live(left[o]) /\ z = Live(right[o])
      BY <2>1, LiveType
    <2>3. PICK resolution \in Resolution : resolution = resolutions[o]
      OBVIOUS
    <2>4. Resolved(resolution, x, y, z) /\ chosen[o] = Chosen(x, y, z, resolution)
      BY <2>2, <2>3
    <2> QED BY <2>2, <2>4, ChosenIsThreeWay
  <1>2. /\ DOMAIN plan = {o \in Object : chosen[o] # Live(left[o])}
        /\ \A o \in DOMAIN plan : plan[o] = chosen[o]
    BY DEF Seqs!Restrict
  <1>3. \A o \in Object : Outcome(plan, left, o) = chosen[o]
    BY <1>2 DEF Outcome
  <1>4. PlansChanges(plan, left)
    BY <1>1, <1>2 DEF PlansChanges
  <1> QED BY <1>1, <1>3, <1>4 DEF Merges

LEMMA PlanIsMadeCurrent ==
    ASSUME GraphInvariant, ReplayInvariant, UndoInvariant, PlansAreCurrent,
           NEW m \in Merger, NEW resolutions \in [Object -> Resolution],
           PlanMerge(m, resolutions)
    PROVE  PlanIsCurrent(merge'[m])
  <1>1. PICK old : old = merge[m]
    OBVIOUS
  <1>2. /\ PlanIsCurrent(old) /\ old.stage = "read" /\ PlanIsApart(old)
        /\ DOMAIN merge = Merger
    BY <1>1 DEF PlanMerge, PlansAreCurrent, GraphInvariant, PlansAreApart, PlanIsApart
  <1>3. PICK b \in Branch, w \in Revision, right \in Finalized :
           b = old.branch /\ w = old.working /\ right = old.right
    BY <1>2 DEF PlanIsApart
  <1>4. PICK found, theirs, chosen :
           /\ found = root[BaseOf(m)] /\ theirs = root[right]
           /\ chosen = [o \in Object |->
                           Chosen(Live(found[o]), Live(old.seen[o]), Live(theirs[o]),
                                  resolutions[o])]
    OBVIOUS
  <1>5. PICK plan, digest :
           /\ plan = Seqs!Restrict(chosen, {o \in Object : chosen[o] # Live(old.seen[o])})
           /\ digest = IF merge[m].sealed THEN NoRoot ELSE LeftRows(m)
    OBVIOUS
  <1>6. PICK p : p = [old EXCEPT !.stage = "planned", !.seen = EmptyModel,
                                 !.digest = digest, !.plan = plan]
    OBVIOUS
  <1>7. /\ merge' = [merge EXCEPT ![m].stage  = "planned", ![m].seen = EmptyModel,
                                  ![m].digest = digest,    ![m].plan = plan]
        /\ \A o \in Object : Resolved(resolutions[o], Live(found[o]), Live(old.seen[o]),
                                      Live(theirs[o]))
    <2>1. PICK x, y, z, c :
             /\ x = [o \in Object |-> Live(found[o])]
             /\ y = [o \in Object |-> Live(old.seen[o])]
             /\ z = [o \in Object |-> Live(theirs[o])]
             /\ c = [o \in Object |-> Chosen(x[o], y[o], z[o], resolutions[o])]
      OBVIOUS
    <2>2. /\ merge' = [merge EXCEPT ![m].stage  = "planned", ![m].seen = EmptyModel,
                         ![m].digest = digest,
                         ![m].plan = Seqs!Restrict(c, {o \in Object : c[o] # y[o]})]
          /\ \A o \in Object : ChangeKind(x[o], y[o], z[o]) = "conflict" =>
                                  Resolves(resolutions[o], x[o], y[o], z[o])
      BY <1>1, <1>3, <1>4, <1>5, <2>1 DEF PlanMerge
    <2>3. c = chosen
      BY <1>4, <2>1
    <2>4. {o \in Object : c[o] # y[o]} = {o \in Object : chosen[o] # Live(old.seen[o])}
      BY <2>1, <2>3
    <2> QED BY <1>5, <2>1, <2>2, <2>3, <2>4 DEF Resolved
  <1>8. merge'[m] = p
    BY <1>1, <1>2, <1>6, <1>7
  <1>9. DOMAIN old = PlanFields /\ old.expected \in Nat /\ state[w] # "unused"
        /\ (state[w] = "working" => head[b] = w)
    BY <1>2, <1>3 DEF PlanIsCurrent
  <1>10. /\ DOMAIN p = PlanFields /\ p.stage = "planned" /\ p.branch = b /\ p.working = w
         /\ p.expected = old.expected /\ p.right = right /\ p.sealed = old.sealed
         /\ p.plan = plan
    BY <1>3, <1>6, <1>9 DEF PlanFields
  <1>11. ASSUME state[w] = "working" PROVE PlanIsOpened(p)
    <2>1. PlanIsOpened(old)
      BY <1>2, <1>3, <1>11 DEF PlanIsCurrent
    <2>2. PICK base \in Finalized :
             /\ BasesOf(parents, w, right) = {base} /\ objectMode[base] = 1
             /\ generation[w] = old.expected => old.seen = rows[b]
      BY <1>2, <1>3, <2>1 DEF PlanIsOpened
    <2>3. found = root[base]
      <3>1. w \in InUse
        BY <1>9 DEF InUse
      <3>2. MergeBases(w, right) = {base}
        BY <2>2, <3>1, BasesAreBest DEF BasesOf, GraphInvariant
      <3>3. BaseOf(m) = base
        BY <1>1, <1>3, <3>2 DEF BaseOf
      <3> QED BY <1>4, <3>3
    <2>4. ASSUME generation[w] = old.expected
          PROVE  Merges(plan, root[base], rows[b], root[right])
      <3>1. old.seen = rows[b] /\ rows[b] \in Model
        BY <2>2, <2>4 DEF ReplayInvariant, Bookkeeping, TypeOK
      <3>2. /\ objectMode[right] = 1 /\ objectMode[base] = 1
            /\ state[right] = "finalized" /\ state[base] = "finalized"
            /\ right \in Revision /\ base \in Revision
        BY <1>3, <2>1, <2>2 DEF PlanIsOpened, Finalized
      <3>3. root[base] \in Model /\ root[right] \in Model
        BY <3>2 DEF ReplayInvariant, Lineage, SealedHaveRoots
      <3>4. \A o \in Object : /\ SoundRow(root[base][o]) /\ SoundRow(rows[b][o])
                              /\ SoundRow(root[right][o])
        BY <3>2, <3>3, NoRootIsNotAModel DEF UndoInvariant, RowsAreSound
      <3>5. PICK x \in Model, y \in Model, z \in Model :
               x = root[base] /\ y = rows[b] /\ z = root[right]
        BY <3>1, <3>3
      <3>6. old.seen = y /\ found = x /\ theirs = z
        BY <1>4, <2>3, <3>1, <3>5
      <3>7. /\ chosen = [o \in Object |-> Chosen(Live(x[o]), Live(y[o]), Live(z[o]),
                                               resolutions[o])]
            /\ plan = Seqs!Restrict(chosen, {o \in Object : chosen[o] # Live(y[o])})
        BY <1>4, <1>5, <3>6
      <3>8. \A o \in Object : /\ SoundRow(x[o]) /\ SoundRow(y[o]) /\ SoundRow(z[o])
                              /\ Resolved(resolutions[o], Live(x[o]), Live(y[o]), Live(z[o]))
        BY <1>7, <3>4, <3>5, <3>6
      <3>9. Merges(plan, x, y, z)
        BY <3>7, <3>8, PlanMerges
      <3> QED BY <3>5, <3>9
    <2> QED BY <1>3, <1>10, <2>1, <2>2, <2>4 DEF PlanIsOpened
  <1>12. PlanIsCurrent(p)
    BY <1>9, <1>10, <1>11 DEF PlanIsCurrent
  <1> QED BY <1>8, <1>12

-----------------------------------------------------------------------------
(* The invariant of the store with its mergers.                            *)

MergeInvariant ==
    /\ GraphInvariant
    /\ ReplayInvariant
    /\ UndoInvariant
    /\ PlansAreCurrent

\* What mergers have worked out; without meaning until they are done planning.
Plans == {merge[m].plan : m \in Merger}

\* A commit of edits that make the three-way merge of the rows of b.
CommitsPlan(b, r, new, left, right, edits, base, plan) ==
    /\ DistinctObjects(edits)
    /\ CommitEffect(b, r, new, left, right, edits)
    /\ edits = PlannedEdits(rows[b], plan)
    /\ BasesOf(parents, r, right) = {base}
    /\ Merges(plan, root[base], rows[b], root[right])

LEMMA CommitsArePlanned ==
    ASSUME MergeInvariant, NEW m \in Merger, NEW new \in Revision, CommitMerge(m, new)
    PROVE  \E b \in Branch, r \in Revision, left \in Finalized, right \in Finalized,
              edits \in Seq(TypedEdit), base \in Finalized, plan \in Plans :
                 CommitsPlan(b, r, new, left, right, edits, base, plan)
  <1>1. PICK p : p = merge[m]
    OBVIOUS
  <1>2. PlanIsCurrent(p) /\ PlanIsApart(p) /\ p.stage = "planned"
    BY <1>1 DEF CommitMerge, MergeInvariant, PlansAreCurrent, GraphInvariant,
                PlansAreApart, PlanIsApart
  <1>3. PICK b \in Branch, r \in Revision, left \in Finalized, right \in Finalized,
           plan \in Plans :
           b = p.branch /\ r = p.working /\ left = p.left /\ right = p.right
           /\ plan = p.plan
    BY <1>1, <1>2 DEF PlanIsApart, Plans
  <1>4. state[r] = "working" /\ generation[r] = p.expected
    BY <1>1, <1>3 DEF CommitMerge, TargetUnchanged
  <1>5. PlanIsOpened(p)
    BY <1>2, <1>3, <1>4 DEF PlanIsCurrent
  <1>6. PICK base \in Finalized :
           /\ BasesOf(parents, r, right) = {base}
           /\ Merges(plan, root[base], rows[b], root[right])
    BY <1>2, <1>3, <1>4, <1>5 DEF PlanIsOpened
  <1>7. PlansChanges(plan, rows[b]) /\ rows[b] \in Model
    BY <1>6 DEF Merges, MergeInvariant, ReplayInvariant, Bookkeeping, TypeOK
  <1>8. PICK edits \in Seq(TypedEdit) :
           edits = PlannedEdits(rows[b], plan) /\ DistinctObjects(edits)
    BY <1>7, PlannedEditsShape
  <1>9. left \in Revision /\ right \in Revision
    BY DEF Finalized
  <1>10. CommitEffect(b, r, new, left, right, edits)
    BY <1>1, <1>3, <1>8, <1>9, CommitHasEffect DEF MergeInvariant
  <1>11. CommitsPlan(b, r, new, left, right, edits, base, plan)
    BY <1>6, <1>8, <1>10 DEF CommitsPlan
  <1> QED BY <1>11

LEMMA InitMergeInvariant ==
    ASSUME MergeInit
    PROVE  MergeInvariant
  <1>1. GraphInvariant
    BY InitGraphInvariant
  <1>2. ReplayInvariant /\ UndoInvariant
    BY InitReplayInvariant, InitUndoInvariant DEF MergeInit
  <1>3. PlansAreCurrent
    BY DEF MergeInit, PlansAreCurrent
  <1> QED BY <1>1, <1>2, <1>3 DEF MergeInvariant

\* The store keeps its invariants, and moves plans as it may, in every step.
LEMMA MergeNextKeepsStore ==
    ASSUME MergeInvariant, [MergeNext]_mergeVars
    PROVE  ReplayInvariant' /\ UndoInvariant' /\ PlansMove
  <1>1. GraphInvariant /\ ReplayInvariant /\ UndoInvariant
    BY DEF MergeInvariant
  <1>2. CASE [Next]_tables
    <2>1. ReplayInvariant'
      BY <1>1, <1>2, ReplayInvariantStep
    <2>2. UndoInvariant'
      BY <1>1, <1>2, <2>1, UndoInvariantStep
    <2> QED BY <1>1, <1>2, <2>1, <2>2, StoreMovesPlans
  <1>3. ASSUME NEW m \in Merger, NEW new \in Revision, CommitMerge(m, new)
        PROVE  ReplayInvariant' /\ UndoInvariant' /\ PlansMove
    <2>1. PICK b \in Branch, r \in Revision, left \in Finalized, right \in Finalized,
               edits \in Seq(TypedEdit), base \in Finalized, plan \in Plans :
             CommitsPlan(b, r, new, left, right, edits, base, plan)
      BY <1>3, CommitsArePlanned
    <2>2. DistinctObjects(edits) /\ CommitEffect(b, r, new, left, right, edits)
      BY <2>1 DEF CommitsPlan
    <2>3. ReplayInvariant'
      BY <1>1, <2>2, CommitKeepsReplayInvariant
    <2>4. UndoInvariant'
      BY <1>1, <2>2, CommitKeepsUndoInvariant
    <2>5. PlansMove
      BY <1>1, <2>2, CommitMovesPlans
    <2> QED BY <2>3, <2>4, <2>5
  <1>4. \/ [Next]_tables
        \/ \E m \in Merger, new \in Revision : CommitMerge(m, new)
    <2>1. CASE MergeNext
      BY <1>1, <2>1, MergeStepKinds DEF ReadsPlan
    <2>2. CASE UNCHANGED mergeVars
      BY <2>2 DEF mergeVars
    <2> QED BY <2>1, <2>2
  <1> QED BY <1>2, <1>3, <1>4

LEMMA MergeNextKeepsInvariant ==
    ASSUME MergeInvariant, [MergeNext]_mergeVars
    PROVE  MergeInvariant'
  <1>1. GraphInvariant /\ ReplayInvariant /\ UndoInvariant /\ PlansAreCurrent
    BY DEF MergeInvariant
  <1>2. GraphInvariant' /\ AncestryStays
    BY <1>1, MergeNextKeepsGraphInvariant
  <1>3. ReplayInvariant' /\ UndoInvariant' /\ PlansMove
    BY MergeNextKeepsStore
  <1>4. ASSUME NEW m \in Merger, merge'[m] = merge[m], merge'[m] # NoMerge
        PROVE  PlanIsCurrent(merge[m])'
    <2>1. PICK p : p = merge[m] /\ p = merge'[m]
      BY <1>4
    <2>2. PlanIsApart(p) /\ PlanIsCurrent(p)
      BY <1>1, <1>4, <2>1 DEF GraphInvariant, PlansAreApart, PlanIsApart, PlansAreCurrent
    <2>3. PlanIsCurrent(p)'
      BY <1>1, <1>2, <1>3, <2>2, PlanStaysCurrent DEF GraphInvariant
    <2> QED BY <2>1, <2>3
  <1>5. ASSUME NEW m \in Merger, merge'[m] # merge[m], merge'[m] # NoMerge
        PROVE  PlanIsCurrent(merge[m])'
    <2>1. CASE \E n \in Merger, new \in Revision : CommitMerge(n, new)
      <3>1. PICK n \in Merger : merge' = [merge EXCEPT ![n] = NoMerge]
        BY <2>1 DEF CommitMerge
      <3> QED BY <1>1, <1>5, <3>1 DEF GraphInvariant, PlansAreApart
    <2>2. ASSUME NEW n \in Merger,
                 \/ \E b \in Branch, expected \in Generations, right \in Revision :
                       BeginMerge(n, b, expected, right)
                 \/ OpenPreview(n)
                 \/ ReadLeft(n)
                 \/ \E resolutions \in [Object -> Resolution] : PlanMerge(n, resolutions)
          PROVE  PlanIsCurrent(merge[m])'
      <3>1. ReadsPlan(n)
        BY <1>1, <2>2, BeginReadsPlan, OpenReadsPlan, ReadReadsPlan, PlanReadsPlan
      <3>2. n = m /\ UNCHANGED tables
        BY <1>5, <3>1 DEF ReadsPlan
      <3>3. PlanIsCurrent(merge'[m])
        BY <1>1, <2>2, <3>2, BeginIsCurrent, OpenIsCurrent, ReadIsCurrent, PlanIsMadeCurrent
      <3> QED BY <3>2, <3>3
              DEF PlanIsCurrent, PlanIsOpened, tables, Finalized, Merges
    <2> QED BY <1>5, <2>1, <2>2 DEF MergeNext, mergeVars
  <1>6. PlansAreCurrent'
    BY <1>4, <1>5 DEF PlansAreCurrent
  <1> QED BY <1>2, <1>3, <1>6 DEF MergeInvariant

LEMMA MergeInvariantHolds == MergeSpec => []MergeInvariant
  <1>1. MergeInvariant /\ [MergeNext]_mergeVars => MergeInvariant'
    BY MergeNextKeepsInvariant
  <1> QED BY <1>1, InitMergeInvariant, PTL DEF MergeSpec

\* A commit writes a row as any edit does.
LEMMA CommitAdvancesRows ==
    ASSUME ReplayInvariant, NEW b \in Branch, NEW r \in Revision, NEW new \in Revision,
           NEW left \in Finalized, NEW right \in Finalized,
           NEW edits \in Seq(TypedEdit), CommitEffect(b, r, new, left, right, edits),
           NEW c \in Branch, NEW o \in Object
    PROVE  RowAdvances(rows[c][o], rows'[c][o])
  <1>1. PICK model \in Model : model = rows[b]
    BY DEF ReplayInvariant, Bookkeeping, TypeOK
  <1>2. PICK events, after : /\ events = EditEvents(model, edits)
                             /\ after = AfterEvents(model, events)
    OBVIOUS
  <1>3. CommitLeaves(b, r, new, left, right, after, events, edits)
    BY <1>1, <1>2, CommitHasLeft
  <1>4. rows'[b] = after /\ (c # b => rows'[c] = rows[c])
    BY <1>3 DEF CommitLeaves
  <1>5. DOMAIN events = 1..Len(edits)
        /\ \A i \in 1..Len(edits) : events[i] = EventOf(model, edits[i])
    BY <1>2 DEF EditEvents
  <1>6. RowAdvances(model[o], after[o])
    <2>1. CASE IsTouched(events, o)
      <3>1. PICK i \in DOMAIN events :
               events[i].object = o /\ i = CHOOSE k \in DOMAIN events : events[k].object = o
        BY <2>1 DEF IsTouched
      <3>2. after[o] = events[i].after
        BY <1>2, <2>1, <3>1 DEF AfterEvents
      <3>3. after[o] = Written(model[o], edits[i])
        BY <1>5, <3>1, <3>2 DEF EventOf
      <3> QED BY <3>3 DEF RowAdvances, Written
    <2>2. CASE ~IsTouched(events, o)
      BY <1>2, <2>2 DEF AfterEvents, RowAdvances
    <2> QED BY <2>1, <2>2
  <1> QED BY <1>1, <1>4, <1>6 DEF RowAdvances

\* Every step is one of the store alone, reads included, or a planned commit.
LEMMA StoreOrCommit ==
    ASSUME MergeInvariant, [MergeNext]_mergeVars
    PROVE  \/ [Next]_tables
           \/ \E b \in Branch, r, new \in Revision, left, right \in Finalized,
                 edits \in Seq(TypedEdit), base \in Finalized, plan \in Plans :
                    CommitsPlan(b, r, new, left, right, edits, base, plan)
  <1>1. GraphInvariant
    BY DEF MergeInvariant
  <1>2. CASE MergeNext
    BY <1>1, <1>2, MergeStepKinds, CommitsArePlanned DEF ReadsPlan
  <1>3. CASE UNCHANGED mergeVars
    BY <1>3 DEF mergeVars
  <1> QED BY <1>2, <1>3

\* No step of the store alone gives a working revision another parent.
LEMMA StoreMakesNoMerge ==
    ASSUME GraphIsSound, ReplayInvariant, [Next]_tables,
           NEW r \in Revision, state[r] = "working"
    PROVE  parents'[r] = parents[r]
  <1>1. CASE UNCHANGED tables
    BY <1>1 DEF tables
  <1>2. ASSUME NEW b \in Branch, NEW new \in Revision, CreateProject(b, new)
        PROVE  parents'[r] = parents[r]
    BY <1>2 DEF CreateProject
  <1>3. ASSUME NEW b \in Branch, NEW new \in Revision, NEW base \in Revision,
               CreateBranch(b, new, base)
        PROVE  parents'[r] = parents[r]
    BY <1>3 DEF CreateBranch, GraphIsSound, GraphTypes, Graph
  <1>4. ASSUME NEW b \in Branch, NEW new \in Revision, NEW expected,
               Finalize(b, new, expected)
        PROVE  parents'[r] = parents[r]
    BY <1>4 DEF Finalize, SealAndAdvance, GraphIsSound, GraphTypes, Graph
  <1>5. ASSUME NEW b \in Branch, ObjectStep(b) \/ SnapshotStep(b)
        PROVE  parents'[r] = parents[r]
    BY <1>5, ObjectStepFrame, SnapshotStepFrame
  <1> QED BY <1>1, <1>2, <1>3, <1>4, <1>5, StepKinds DEF ReplayInvariant

\* A merge comes from a planned commit.
LEMMA MergesAreCommits ==
    ASSUME GraphIsSound, NEW r \in Revision, state[r] = "working", IsMerge(r)'
    PROVE  parents'[r] # parents[r]
  <1>1. PICK n : n = Len(parents[r])
    OBVIOUS
  <1>2. n <= 1
    BY <1>1 DEF GraphIsSound, ParentsAreFinal
  <1>3. n # 2
    BY <1>2
  <1> QED BY <1>1, <1>3 DEF IsMerge

LEMMA CommitLosesNoEdit ==
    ASSUME MergeInvariant, NEW b \in Branch, NEW r \in Revision, NEW new \in Revision,
           NEW left \in Finalized, NEW right \in Finalized,
           NEW edits \in Seq(TypedEdit), NEW base \in Finalized, NEW plan,
           CommitsPlan(b, r, new, left, right, edits, base, plan),
           NEW s \in Revision, state[s] = "working", IsMerge(s)'
    PROVE  \E found \in BestCommonAncestors(Descends, s, parents'[s][2]) :
              \A o \in Object :
                  ThreeWay(Live(root[found][o]), Live(rows[branchOf[s]][o]),
                           Live(root[parents'[s][2]][o]), Live(root'[s][o]))
  <1>1. PICK model \in Model : model = rows[b]
    BY DEF MergeInvariant, ReplayInvariant, Bookkeeping, TypeOK
  <1>2. PICK events, after : /\ events = EditEvents(model, edits)
                             /\ after = AfterEvents(model, events)
    OBVIOUS
  <1>3. CommitEffect(b, r, new, left, right, edits)
        /\ CommitLeaves(b, r, new, left, right, after, events, edits)
    BY <1>1, <1>2, CommitHasLeft DEF CommitsPlan, MergeInvariant
  <1>4. state[new] = "unused"
    BY <1>3 DEF CommitEffect
  <1>5. parents'[s] # parents[s]
    BY MergesAreCommits DEF MergeInvariant, GraphInvariant
  <1>6. s = r
    BY <1>3, <1>4, <1>5 DEF CommitLeaves
  <1>7. /\ parents'[s] = <<left, right>> /\ branchOf[s] = b /\ root'[s] = after
    BY <1>3, <1>6 DEF CommitLeaves
  <1>8. parents'[s][2] = right
    BY <1>7
  <1>9. BestCommonAncestors(Descends, s, right) = {base}
    <2>1. right \in Revision /\ parents \in Graph
      BY DEF Finalized, MergeInvariant, GraphInvariant, GraphIsSound, GraphTypes
    <2>2. PICK C \in SUBSET Revision : C = Reached(parents, s) \cap Reached(parents, right)
      BY DEF Reached
    <2>3. Descends[s] \cap Descends[right] = C
      BY <2>1, <2>2, DescendsIsReached
    <2>4. \A d \in C : Descends[d] = Reached(parents, d)
      BY DescendsIsReached
    <2>5. BestCommonAncestors(Descends, s, right) = Best(parents, C)
      BY <2>3, <2>4 DEF BestCommonAncestors, Best
    <2> QED BY <1>6, <2>2, <2>5 DEF CommitsPlan, BasesOf
  <1>10. ASSUME NEW o \in Object
         PROVE  ThreeWay(Live(root[base][o]), Live(model[o]), Live(root[right][o]),
                         Live(after[o]))
    <2>1. /\ PlansChanges(plan, model) /\ edits = PlannedEdits(model, plan)
          /\ ThreeWay(Live(root[base][o]), Live(model[o]), Live(root[right][o]),
                      Outcome(plan, model, o))
      BY <1>1 DEF CommitsPlan, Merges
    <2>2. \A i \in DOMAIN edits : Accepts(model[edits[i].object], edits[i])
      <3>1. DOMAIN edits = 1..Len(edits)
        OBVIOUS
      <3> QED BY <1>1, <1>3, <3>1 DEF CommitEffect
    <2>3. Live(after[o]) = Outcome(plan, model, o)
      BY <1>2, <2>1, <2>2, PlannedEditsLeaveOutcome
    <2> QED BY <2>1, <2>3
  <1> QED BY <1>1, <1>7, <1>8, <1>9, <1>10

-----------------------------------------------------------------------------
(* A merge commit keeps numbers and groups in order.                       *)

LEMMA CommitNumbering ==
    ASSUME ReplayInvariant, Numbering, NEW b \in Branch, NEW r \in Revision,
           NEW new \in Revision, NEW left \in Finalized, NEW right \in Finalized,
           NEW edits, CommitEffect(b, r, new, left, right, edits)
    PROVE  Numbering'
  <1>1. PICK events, after : /\ events = EditEvents(rows[b], edits)
                             /\ after = AfterEvents(rows[b], events)
    OBVIOUS
  <1>2. CommitLeaves(b, r, new, left, right, after, events, edits)
    BY <1>1, CommitHasLeft
  <1>3. /\ state[new] = "unused" /\ number'[new] = NextNumber(r)
        /\ \A s \in Revision \ {new} : number'[s] = number[s]
    BY DEF CommitEffect, ReplayInvariant, Bookkeeping, TypeOK
  <1>4. /\ head[b] = r /\ state'[r] = "finalized" /\ state'[new] = "working"
        /\ branchOf'[new] = b /\ head'[b] = new
        /\ \A s \in Revision \ {new} : branchOf'[s] = branchOf[s]
        /\ \A s \in Revision \ {r, new} : state'[s] = state[s]
        /\ \A c \in Branch \ {b} : head'[c] = head[c]
    BY <1>2 DEF CommitLeaves
  <1>5. Bookkeeping
    BY DEF ReplayInvariant
  <1> QED BY <1>3, <1>4, <1>5, AdvanceNumbering

LEMMA CommitPartitions ==
    ASSUME ReplayInvariant, \A s \in Revision : Partitions(groups[s], journal[s]),
           NEW b \in Branch, NEW r \in Revision, NEW new \in Revision,
           NEW left \in Finalized, NEW right \in Finalized,
           NEW edits \in Seq(TypedEdit), DistinctObjects(edits),
           CommitEffect(b, r, new, left, right, edits)
    PROVE  \A s \in Revision : Partitions(groups'[s], journal'[s])
  <1>1. PICK events, after : /\ events = EditEvents(rows[b], edits)
                             /\ after = AfterEvents(rows[b], events)
    OBVIOUS
  <1>2. CommitLeaves(b, r, new, left, right, after, events, edits)
    BY <1>1, CommitHasLeft
  <1>3. events \in Seq(Event) /\ Len(events) = Len(edits)
    <2>1. left \in Revision
      BY DEF Finalized
    <2> QED BY <1>1, <2>1, CommitReplays DEF CommitEffect
  <1>4. /\ journal[r] \in Seq(Event) /\ groups[r] \in Seq(Group)
        /\ generation[r] = Len(journal[r])
        /\ \A g \in DOMAIN groups[r] : /\ 1 <= groups[r][g].first
                                       /\ groups[r][g].first <= groups[r][g].last
                                       /\ groups[r][g].last <= Len(journal[r])
    BY <1>2 DEF CommitLeaves, ReplayInvariant, Bookkeeping, TypeOK, GroupsInsideJournal
  <1>5. /\ journal'[r] = journal[r] \o events
        /\ groups'[r] = GroupsAfter(groups[r], edits, generation[r])
    BY <1>2 DEF CommitLeaves
  <1>6. Partitions(groups'[r], journal'[r])
    <2>1. CASE edits = <<>>
      <3>1. events = <<>>
        <4>1. Len(events) = 0
          BY <1>3, <2>1
        <4> QED BY <1>3, <4>1
      <3>2. journal[r] \o events = journal[r]
        BY <1>4, <3>1
      <3> QED BY <1>5, <2>1, <3>2 DEF GroupsAfter
    <2>2. CASE edits # <<>>
      <3>1. PICK n \in Nat : n = Len(edits) /\ n > 0
        BY <2>2
      <3>2. PICK m \in Nat : m = Len(journal[r])
        BY <1>4
      <3> DEFINE group == [action |-> "edit", target |-> 0,
                           first |-> m + 1, last |-> m + n]
      <3>3. groups'[r] = Append(groups[r], group)
        BY <1>4, <1>5, <2>2, <3>1, <3>2 DEF GroupsAfter
      <3>4. group \in Group /\ group.first = m + 1 /\ group.last = m + n
        BY DEF Group
      <3> HIDE DEF group
      <3>5. Partitions(Append(groups[r], group), journal[r] \o events)
        BY <1>3, <1>4, <3>1, <3>2, <3>4, PartitionsExtend
      <3> QED BY <1>5, <3>3, <3>5
    <2> QED BY <2>1, <2>2
  <1>7. ASSUME NEW s \in Revision, s # r
        PROVE  groups'[s] = groups[s] /\ journal'[s] = journal[s]
    <2>1. CASE s = new
      BY <1>2, <2>1 DEF CommitLeaves
    <2>2. CASE s # new
      BY <1>2, <1>7, <2>2 DEF CommitLeaves
    <2> QED BY <2>1, <2>2
  <1> QED BY <1>6, <1>7

LEMMA MergeNextKeepsNumbering ==
    ASSUME MergeInvariant, Numbering, [MergeNext]_mergeVars
    PROVE  Numbering'
  <1>1. CASE [Next]_tables
    BY <1>1, NumberingStep DEF MergeInvariant
  <1>2. ASSUME NEW b \in Branch, NEW r \in Revision, NEW new \in Revision,
               NEW left \in Finalized, NEW right \in Finalized,
               NEW edits \in Seq(TypedEdit), NEW base \in Finalized, NEW plan,
               CommitsPlan(b, r, new, left, right, edits, base, plan)
        PROVE  Numbering'
    BY <1>2, CommitNumbering DEF CommitsPlan, MergeInvariant
  <1> QED BY <1>1, <1>2, StoreOrCommit

LEMMA MergeNextKeepsPartitions ==
    ASSUME MergeInvariant, \A r \in Revision : Partitions(groups[r], journal[r]),
           [MergeNext]_mergeVars
    PROVE  \A r \in Revision : Partitions(groups'[r], journal'[r])
  <1>1. CASE [Next]_tables
    BY <1>1, PartitionsStep DEF MergeInvariant
  <1>2. ASSUME NEW b \in Branch, NEW s \in Revision, NEW new \in Revision,
               NEW left \in Finalized, NEW right \in Finalized,
               NEW edits \in Seq(TypedEdit), NEW base \in Finalized, NEW plan,
               CommitsPlan(b, s, new, left, right, edits, base, plan)
        PROVE  \A r \in Revision : Partitions(groups'[r], journal'[r])
    BY <1>2, CommitPartitions DEF CommitsPlan, MergeInvariant
  <1> QED BY <1>1, <1>2, StoreOrCommit

-----------------------------------------------------------------------------
(* The theorems about the store with its mergers.                          *)

\* compareRevisions (revision_ancestry.cpp) finds exactly the best common
\* ancestors of a revision in use and a finalized one, in every graph that
\* branches, finalizations and merges can build; there always is one, and a
\* working head has the same ones as its parent.
THEOREM MergeBasesAreAlwaysBest == MergeSpec => []MergeBasesAreBest
  <1>1. GraphInvariant => MergeBasesAreBest
    BY SoundGraphsHaveBases DEF GraphInvariant
  <1> QED BY <1>1, GraphInvariantHolds, PTL

\* The parents of a merge commit are sealed revisions neither of which descends
\* from the other, although that was checked before the write lock was taken
\* (the plan and the commit of object_merge_commit.cpp).
THEOREM MergeParentsAlwaysDiverge == MergeSpec => []MergeParentsDiverge
  <1>1. GraphInvariant => MergeParentsDiverge
    BY SoundMergesDiverge DEF GraphInvariant
  <1> QED BY <1>1, GraphInvariantHolds, PTL

\* Whatever other callers did while a merge was prepared, its commit leaves the
\* three-way merge of the only merge base, of the target's rows under the lock
\* and of the right, for every object: no edit of either branch is lost
\* (mergeObjectRevisions, object_merge_commit.cpp).
THEOREM MergesKeepEveryEdit == MergeSpec => MergesLoseNoEdit
  <1> DEFINE Kept3(r) ==
          state[r] = "working" /\ IsMerge(r)' =>
              LET right == parents'[r][2] IN
              \E base \in BestCommonAncestors(Descends, r, right) :
                  \A o \in Object :
                      ThreeWay(Live(root[base][o]), Live(rows[branchOf[r]][o]),
                               Live(root[right][o]), Live(root'[r][o]))
  <1>1. ASSUME MergeInvariant, [MergeNext]_mergeVars, NEW r \in Revision
        PROVE  Kept3(r)
    <2> SUFFICES ASSUME state[r] = "working", IsMerge(r)'
                 PROVE  Kept3(r)
      OBVIOUS
    <2>1. CASE [Next]_tables
      BY <1>1, <2>1, StoreMakesNoMerge, MergesAreCommits DEF MergeInvariant, GraphInvariant
    <2>2. ASSUME NEW b \in Branch, NEW s \in Revision, NEW new \in Revision,
                 NEW left \in Finalized, NEW right \in Finalized,
                 NEW edits \in Seq(TypedEdit), NEW base \in Finalized, NEW plan,
                 CommitsPlan(b, s, new, left, right, edits, base, plan)
          PROVE  Kept3(r)
      BY <1>1, <2>2, CommitLosesNoEdit
    <2> QED BY <1>1, <2>1, <2>2, StoreOrCommit
  <1>2. MergeInvariant /\ [MergeNext]_mergeVars => [\A r \in Revision : Kept3(r)]_mergeVars
    BY <1>1
  <1> QED BY <1>2, MergeInvariantHolds, PTL DEF MergeSpec, MergesLoseNoEdit

\* The journal of a merge, local edits first and the merge's own as one group
\* after them, replays on the root of the first parent to the root that was
\* sealed, and so does every other sealed journal.
THEOREM MergedJournalsReplay == MergeSpec => []SealedJournalsReplay
  <1>1. MergeInvariant => SealedJournalsReplay
    BY DEF MergeInvariant, ReplayInvariant
  <1> QED BY <1>1, MergeInvariantHolds, PTL

\* Merges into the branch and into others do not break the replay of live rows.
THEOREM MergedRowsReplay == MergeSpec => []WorkingRowsReplay
  <1>1. MergeInvariant => WorkingRowsReplay
    BY DEF MergeInvariant, ReplayInvariant
  <1> QED BY <1>1, MergeInvariantHolds, PTL

\* The edits of a merge are sealed with it, so undo and redo on the branch never
\* meet rows that a merge has changed.
THEOREM MergesKeepUndo == MergeSpec => []UndoRedoNeverConflicts
  <1>1. MergeInvariant => UndoRedoNeverConflicts
    BY UndoInvariantSuffices DEF MergeInvariant
  <1> QED BY <1>1, MergeInvariantHolds, PTL

\* A merge commit changes no revision that is sealed, neither its parents nor the
\* base: every one reads the same for ever.
THEOREM MergesKeepHistory == MergeSpec => HistoryIsImmutable
  <1>1. MergeInvariant /\ [MergeNext]_mergeVars =>
           [\A r \in Revision : state[r] = "finalized" =>
              /\ state'[r] = "finalized"
              /\ ObjectsOf(r)' = ObjectsOf(r)
              /\ snapshot'[r] = snapshot[r]
              /\ parents'[r] = parents[r]
              /\ objectMode'[r] = objectMode[r]
              /\ journal'[r] = journal[r]
              /\ groups'[r] = groups[r]
              /\ operations'[r] = operations[r]]_tables
    BY MergeNextKeepsStore DEF PlansMove, Finalized, Kept, ObjectsOf
  <1> QED BY <1>1, MergeInvariantHolds, PTL DEF MergeSpec, HistoryIsImmutable

\* An object keeps its kind and gets a new version with every change, those of a
\* merge included, so the version a client expects never fits another content.
THEOREM MergesReuseNoVersion == MergeSpec => VersionsAreNeverReused
  <1> DEFINE Advances(b, o) ==
          LET old == rows[b][o]
              new == rows'[b][o]
          IN  head[b] # NoRevision /\ old # new =>
                /\ new.version = IF old = Absent THEN 1 ELSE old.version + 1
                /\ old # Absent => new.kind = old.kind
  <1>1. ASSUME MergeInvariant, [MergeNext]_mergeVars, NEW b \in Branch, NEW o \in Object
        PROVE  Advances(b, o)
    <2>1. ReplayInvariant
      BY <1>1 DEF MergeInvariant
    <2>2. CASE [Next]_tables
      BY <2>1, <2>2, RowsAdvance DEF RowAdvances
    <2>3. ASSUME NEW c \in Branch, NEW r \in Revision, NEW new \in Revision,
                 NEW left \in Finalized, NEW right \in Finalized,
                 NEW edits \in Seq(TypedEdit), NEW base \in Finalized, NEW plan,
                 CommitsPlan(c, r, new, left, right, edits, base, plan)
          PROVE  Advances(b, o)
      <3>1. CommitEffect(c, r, new, left, right, edits)
        BY <2>3 DEF CommitsPlan
      <3>2. RowAdvances(rows[b][o], rows'[b][o])
        BY <2>1, <3>1, CommitAdvancesRows
      <3> QED BY <3>2 DEF RowAdvances
    <2> QED BY <1>1, <2>2, <2>3, StoreOrCommit
  <1>2. MergeInvariant /\ [MergeNext]_mergeVars =>
           [\A b \in Branch, o \in Object : Advances(b, o)]_tables
    BY <1>1
  <1> QED BY <1>2, MergeInvariantHolds, PTL DEF MergeSpec, VersionsAreNeverReused

\* With merges too, a head and its generation identify its rows: that is what a
\* merge compares under the lock (TargetUnchanged).  Another merge may commit
\* without raising the generation, but it replaces the head.
THEOREM MergesAreCounted == MergeSpec => GenerationCountsEdits
  <1> DEFINE Counted(b) ==
          /\ HasWorkingHead(b) /\ head'[b] = head[b]
          /\ rows'[b] # rows[b] \/ snapshot'[head[b]] # snapshot[head[b]]
          => generation'[head[b]] > generation[head[b]]
  <1>1. ASSUME MergeInvariant, [MergeNext]_mergeVars, NEW b \in Branch
        PROVE  Counted(b)
    <2> SUFFICES ASSUME HasWorkingHead(b), head'[b] = head[b],
                        rows'[b] # rows[b] \/ snapshot'[head[b]] # snapshot[head[b]]
                 PROVE  generation'[head[b]] > generation[head[b]]
      OBVIOUS
    <2>1. PICK w \in Revision : w = head[b] /\ w # NoRevision
      BY <1>1 DEF HasWorkingHead, MergeInvariant, ReplayInvariant, Bookkeeping, TypeOK
    <2>2. PlansMove /\ ReplayInvariant' /\ ReplayInvariant
      BY <1>1, MergeNextKeepsStore DEF MergeInvariant
    <2>3. WorkingMoves(b, w)
      BY <2>1, <2>2 DEF PlansMove
    <2>4. state'[w] = "working"
      BY <2>1, <2>2 DEF ReplayInvariant, Lineage, HeadsAreWorking
    <2>5. generation[w] \in Nat /\ generation'[w] \in Nat
      BY <2>2 DEF ReplayInvariant, Bookkeeping, TypeOK
    <2>6. generation'[w] >= generation[w] /\ generation'[w] # generation[w]
      BY <2>1, <2>3, <2>4 DEF WorkingMoves
    <2> QED BY <2>1, <2>5, <2>6
  <1>2. MergeInvariant /\ [MergeNext]_mergeVars => [\A b \in Branch : Counted(b)]_tables
    BY <1>1
  <1> QED BY <1>2, MergeInvariantHolds, PTL DEF MergeSpec, GenerationCountsEdits

\* A merge seals the head of the target and puts its successor in its place as a
\* finalization does: one working head per branch, and no gap in the numbers.
THEOREM MergesKeepOneHead == MergeSpec => []OneWorkingHeadPerBranch
  <1>1. MergeInit => Numbering
    BY InitNumbering DEF MergeInit
  <1>2. Numbering => OneWorkingHeadPerBranch
    BY DEF Numbering
  <1> QED BY <1>1, <1>2, MergeNextKeepsNumbering, MergeInvariantHolds, PTL DEF MergeSpec

\* The edits of a merge are one group of the journal after those made before, and
\* a merge that changes nothing leaves no group.
THEOREM MergesPartitionJournals == MergeSpec => []GroupsPartitionJournal
  <1> DEFINE Parts == \A r \in Revision : Partitions(groups[r], journal[r])
  <1>1. MergeInit => Parts
    BY DEF MergeInit, Init, Partitions
  <1>2. MergeInvariant /\ Parts /\ [MergeNext]_mergeVars => Parts'
    BY MergeNextKeepsPartitions
  <1>3. MergeInvariant /\ Parts => GroupsPartitionJournal
    BY PartitionsMakeGroups DEF MergeInvariant, ReplayInvariant
  <1> HIDE DEF Parts
  <1> QED BY <1>1, <1>2, <1>3, MergeInvariantHolds, PTL DEF MergeSpec

\* No merge brings the objects of one branch into a revision of the other mode.
THEOREM MergesKeepModes == MergeSpec => []ModesNeverMix
  <1>1. MergeInit => Numbering
    BY InitNumbering DEF MergeInit
  <1>2. MergeInvariant /\ Numbering => ModesNeverMix
    BY ModesAreApart DEF MergeInvariant
  <1> QED BY <1>1, <1>2, MergeNextKeepsNumbering, MergeInvariantHolds, PTL DEF MergeSpec
=============================================================================
