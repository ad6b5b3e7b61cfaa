-------------------------- MODULE MCEditingClients --------------------------
(* Small instances of EditingClients for TLC. *)
EXTENDS EditingClients, TLC

MCVersion == -1..(2 * MaxGeneration + 1)

\* Clients, revision identifiers and contents are interchangeable.
MCSymmetry == Permutations(Revision) \cup Permutations(Client)
              \cup Permutations(Content) \cup Permutations(Bytes)
=============================================================================
