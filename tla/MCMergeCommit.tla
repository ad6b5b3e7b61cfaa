--------------------------- MODULE MCMergeCommit ---------------------------
(* Small instances of MergeCommit for TLC. *)
EXTENDS MergeCommit, FiniteSetsExt, TLC

CONSTANTS MaxEdits,       \* bound on the edits of all revisions together
          MaxLocalEdits,  \* bound on the edits of a merge's target before it
          FirstMerge      \* revisions in use before a merge may begin

MCVersion == -1..(MaxEdits + 1)

Started == {r \in Revision : state[r] # "unused"}

\* Revision identifiers are interchangeable: they are numbers here, handed out
\* in ascending order, and the total of edits stays in bounds.
Bounded ==
    /\ \A r \in Started' : r - 1 \in Revision => r - 1 \in Started'
    /\ MapThenSumSet(LAMBDA r : generation'[r], Revision) <= MaxEdits
    /\ \A r \in Revision : r > 3 /\ state'[r] = "working" =>
           generation'[r] <= MaxLocalEdits

\* Until two branches have diverged the order of their independent operations
\* does not matter to a later merge, so only one order is explored: revision 1
\* is finalized and branched, then the two branches finalize one after the
\* other, and only the revision next to be finalized is edited.
SetupOrder ==
    Cardinality(Started) < FirstMerge =>
        /\ merge' = merge
        /\ \A r \in Started : generation'[r] # generation[r] =>
              r = CASE Cardinality(Started) = 1 -> 1
                    [] Cardinality(Started) = 3 -> 2
                    [] Cardinality(Started) = 4 -> 3
                    [] OTHER -> 0
        /\ Started' # Started =>
              CASE Cardinality(Started) = 2 -> parents'[3] = <<1>>
                [] Cardinality(Started) = 3 -> parents'[4] = <<2>>
                [] Cardinality(Started) = 4 -> parents'[5] = <<3>>
                [] OTHER -> TRUE

MCSpec == MergeInit /\ [][MergeNext /\ Bounded /\ SetupOrder]_mergeVars

\* The contents of a typed object with a field that can conflict and one that
\* cannot.
MCTypedContent == {[f |-> x, g |-> y] : x \in {1, 2, 3}, y \in {1, 2}}

MCField == {"f", "g"}

\* Contents are interchangeable.
MCSymmetry == Permutations(Content)
=============================================================================
