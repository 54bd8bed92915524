------------------------------ MODULE LruOrder ------------------------------
(***************************************************************************)
(* What the block cache promises to keep (afsplus-block cache.rs, module   *)
(* comment): the blocks used most recently, most recent first, as many as  *)
(* the capacity in force allows and never more.                            *)
(***************************************************************************)
EXTENDS Integers, Sequences

CONSTANT Lba

VARIABLES recency, capacity

Truncated(s, n) == SubSeq(s, 1, IF n < Len(s) THEN n ELSE Len(s))

Without(s, l) == SelectSeq(s, LAMBDA k : k /= l)

Use(s, l, n) == Truncated(<<l>> \o Without(s, l), n)

(* The device refused to write l: nothing is known of it.                  *)
Drop(s, l, n) == Without(Truncated(s, n), l)

Resize(s, n) == Truncated(s, n)

Init == recency = <<>> /\ capacity \in Nat

(* Every access may find another capacity in force than the last one did.  *)
Next ==
    /\ capacity' \in Nat
    /\ \E s \in {recency}, n \in {capacity'} :
          recency' \in {Resize(s, n)} \union {Use(s, l, n) : l \in Lba}
                         \union {Drop(s, l, n) : l \in Lba}

Spec == Init /\ [][Next]_<<recency, capacity>>
=============================================================================
