------------------------- MODULE MCCheckpointCommit -------------------------
(* A small instance of CheckpointCommit: three blocks whose bits lie in one *)
(* bitmap page.                                                             *)
EXTENDS CheckpointCommit, TLC

CONSTANTS b1, b2, b3, p1

MCBlock == {b1, b2, b3}
MCPage == {p1}
MCPageOf == [b \in Block |-> p1]
Symmetry == Permutations(MCBlock)
=============================================================================
