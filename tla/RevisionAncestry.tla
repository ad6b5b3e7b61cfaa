-------------------------- MODULE RevisionAncestry --------------------------
(***************************************************************************)
(* The graph of revisions: ancestors, and the merge bases of two revisions *)
(* (revision_ancestry.cpp).                                                *)
(***************************************************************************)
EXTENDS RevisionTables, FiniteSets

\* Revisions are UUIDs, of which there are finitely many.
ASSUME RevisionsAreFinite == IsFiniteSet(Revision)

ParentsOf(r) == {parents[r][i] : i \in DOMAIN parents[r]}

\* A mistaken Ancestors: only the first parent is followed.
FirstParentAncestors(r) ==
    LET within[n \in 0..Cardinality(Revision)] ==
            IF n = 0 THEN {r}
            ELSE LET nearer == within[n - 1]
                 IN  nearer \cup {parents[s][1] : s \in {t \in nearer : parents[t] # <<>>}}
    IN  within[Cardinality(Revision)]

\* collectAncestors: r and everything it descends from.
Ancestors(r) ==
    LET within[n \in 0..Cardinality(Revision)] ==
            IF n = 0 THEN {r}
            ELSE LET nearer == within[n - 1]
                 IN  nearer \cup UNION {ParentsOf(s) : s \in nearer}
    IN  within[Cardinality(Revision)]

\* collectAncestors fails on an ancestor that is still being edited.
AncestrySealed(r) == \A a \in Ancestors(r) \ {r} : state[a] = "finalized"

\* compareRevisions: the common ancestors that are no proper ancestor of
\* another one.  A working revision compared with itself is no base.
MergeBases(left, right) ==
    LET common    == (Ancestors(left) \cap Ancestors(right))
                        \ (IF left = right /\ state[left] # "finalized"
                           THEN {left} ELSE {})
        dominated == UNION {Ancestors(p) : p \in UNION {ParentsOf(c) : c \in common}}
    IN  common \ dominated

-----------------------------------------------------------------------------
(* What the comparison promises, in terms of reachability in the graph.    *)

\* Descends[r]: r and what it descends from, the smallest set that holds r and
\* with each revision its parents.
Descends ==
    LET closed == {S \in SUBSET Revision : \A s \in S : ParentsOf(s) \subseteq S}
    IN  [r \in Revision |->
            {a \in Revision : \A S \in closed : r \in S => a \in S}]

\* The common ancestors of two revisions from which no other common ancestor
\* descends.
BestCommonAncestors(descends, left, right) ==
    LET common == descends[left] \cap descends[right]
    IN  {c \in common : \A d \in common : c \in descends[d] => d = c}

\* compareRevisions finds exactly the best common ancestors with a finalized
\* revision.  There always is one, and the working head of a branch has the same
\* ones as the parent in whose place it is compared, so the two comparisons a
\* merge makes agree (object_merge_commit.cpp:89-107).
MergeBasesAreBest ==
    LET descends == Descends
        InUse    == {r \in Revision : state[r] # "unused"}
    IN
    \A left \in InUse, right \in {r \in InUse : state[r] = "finalized"} :
        LET bases == MergeBases(left, right) IN
        /\ bases = BestCommonAncestors(descends, left, right)
        /\ bases # {}
        /\ state[left] = "working" /\ parents[left] # <<>> =>
               bases = MergeBases(parents[left][1], right)
=============================================================================
