---------------------------- MODULE MCSealedTrees ----------------------------
(* Keys that share a first nibble, two, or none, and records by symmetry.  *)
EXTENDS SealedTrees

MCKey == {<<0, 0, 0>>, <<0, 0, 1>>, <<0, 1, 1>>, <<1, 0, 0>>}

MCRequests == {{<<0, 0, 0>>, <<0, 0, 1>>}, {<<0, 0, 1>>, <<0, 1, 1>>, <<1, 0, 0>>}}

MCSymmetry == Permutations(Record)

=============================================================================
