---------------------------- MODULE MCIntentLog ----------------------------
(* A small instance of IntentLog. *)
EXTENDS IntentLog, TLC

Symmetry == Permutations(Block) \cup Permutations(Name)
=============================================================================
