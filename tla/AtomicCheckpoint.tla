-------------------------- MODULE AtomicCheckpoint --------------------------
(***************************************************************************)
(* What the transaction engine promises its callers (docs/08, "Uncertain   *)
(* checkpoint publication"; spec/invariants.md, "Failure and recovery      *)
(* boundaries"): at any moment a power cut leaves the volume in its        *)
(* committed state or, while one publication is uncertain, in the next;    *)
(* and never behind the last commit that returned Ok.                      *)
(***************************************************************************)
EXTENDS Integers, FiniteSets

VARIABLES
    possible,   \* the states recovery may find: checkpoints with a field gen
    acked       \* the last one a caller was promised

Init ==
    /\ possible = {acked}
    /\ acked.gen = 1

(* A publication begins: the one successor of the settled state is added.  *)
Offer ==
    \E c, n \in possible' :
        /\ possible = {c}
        /\ possible' = {c, n}
        /\ n.gen = c.gen + 1
        /\ UNCHANGED acked

(* A barrier, or a power cut, decides for one of the possible states.      *)
Settle ==
    \E c \in possible :
        /\ possible' = {c}
        /\ UNCHANGED acked

Acknowledge ==
    /\ possible = {acked'}
    /\ acked'.gen > acked.gen
    /\ UNCHANGED possible

Next == Offer \/ Settle \/ Acknowledge

Spec == Init /\ [][Next]_<<possible, acked>>
=============================================================================
