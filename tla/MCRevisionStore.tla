--------------------------- MODULE MCRevisionStore ---------------------------
(* Small instances of RevisionStore and of its refinement for TLC. *)
EXTENDS HistoryRefinement, TLC

MCVersion == -1..MaxGeneration

\* Revision identifiers, objects, contents and snapshots are interchangeable.
MCSymmetry == Permutations(Revision) \cup Permutations(Object)
              \cup Permutations(Content) \cup Permutations(Bytes)
=============================================================================
