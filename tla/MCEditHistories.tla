-------------------------- MODULE MCEditHistories --------------------------
(* Long histories of two revisions, with a bound on the edits of both.     *)
EXTENDS MCRevisionStore, FiniteSetsExt

CONSTANT MaxEdits

\* Histories are continued up to this length.
Short == MapThenSumSet(LAMBDA r : generation[r], Revision) < MaxEdits

=============================================================================
