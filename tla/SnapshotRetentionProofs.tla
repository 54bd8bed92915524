----------------------- MODULE SnapshotRetentionProofs -----------------------
(***************************************************************************)
(* Views stay intact for every set of blocks and any number of views.      *)
(*                                                                         *)
(* ViewsIntact alone is not inductive: a retained block of a view might    *)
(* have retired before the view was taken, and a transfer would then be    *)
(* allowed.  Captured adds that the view lies within the block's lifetime. *)
(***************************************************************************)
EXTENDS SnapshotRetention, TLAPS

Lifetimes == [state : {"free", "live", "retained", "queued"}, birth : Nat, end : Nat]

RetentionTypeOK ==
    /\ gen \in Nat
    /\ \A b \in Blocks : block[b] \in Lifetimes
    /\ \A b \in Blocks : block[b].birth <= gen
    /\ \A v \in views : v.gen \in Nat /\ v.gen <= gen /\ v.blocks \subseteq Blocks

Holds(v, b) ==
    /\ block[b].birth <= v.gen
    /\ \/ block[b].state = "live"
       \/ block[b].state = "retained" /\ v.gen < block[b].end

Captured == \A v \in views \union prior.views : \A b \in v.blocks : Holds(v, b)

RInv == RetentionTypeOK /\ Captured

(* On a new volume no view is registered.                                  *)
LEMMA RetentionInitInv == RetentionInit => RInv
  BY DEF RetentionInit, RInv, RetentionTypeOK, Captured, Lifetimes, Free

(* Whatever a commit does to a block, it has a lifetime afterwards that    *)
(* began no later than the new generation.                                 *)
LEMMA BlockTyped ==
  ASSUME RetentionTypeOK, Commit, NEW b \in Blocks
  PROVE  block'[b] \in Lifetimes /\ block'[b].birth <= gen'
<1>1. /\ gen \in Nat /\ gen' = gen + 1
      /\ block[b] \in Lifetimes /\ block[b].birth <= gen
  BY DEF RetentionTypeOK, Commit
<1>2. CASE Allocate(b)
  BY <1>1, <1>2 DEF Allocate, Lifetimes
<1>3. CASE Retire(b)
  BY <1>1, <1>3 DEF Retire, Lifetimes
<1>4. CASE Transfer(b)
  BY <1>1, <1>4 DEF Transfer, Lifetimes
<1>5. CASE Promote(b)
  BY <1>1, <1>5 DEF Promote, Free, Lifetimes
<1>6. CASE block'[b] = block[b]
  BY <1>1, <1>6 DEF Lifetimes
<1>7. QED
  BY <1>2, <1>3, <1>4, <1>5, <1>6 DEF Commit

(* A commit keeps a block that a registered view captured: it may retire   *)
(* it, after the view was taken, and may not transfer it.                  *)
LEMMA HoldsKept ==
  ASSUME RetentionTypeOK, Commit, NEW b \in Blocks, NEW v \in views, Holds(v, b)
  PROVE  Holds(v, b)'
<1>1. /\ gen \in Nat /\ block[b] \in Lifetimes /\ v.gen \in Nat /\ v.gen <= gen
  BY DEF RetentionTypeOK
<1>2. CASE Allocate(b)
  BY <1>2 DEF Allocate, Promotable, Is, Holds
<1>3. CASE Retire(b)
  BY <1>1, <1>3 DEF Retire, Holds, Lifetimes
<1>4. CASE Transfer(b)
  BY <1>4 DEF Transfer, Contains, Is, Holds
<1>5. CASE Promote(b)
  BY <1>5 DEF Promote, Promotable, Is, Holds
<1>6. CASE block'[b] = block[b]
  BY <1>6 DEF Holds
<1>7. QED
  BY <1>2, <1>3, <1>4, <1>5, <1>6 DEF Commit

(* The view that a commit registers captured live blocks: the same commit  *)
(* may retire them, in a later generation than the view's.                 *)
LEMMA HoldsCaptured ==
  ASSUME RetentionTypeOK, Commit, NEW b \in Blocks, Is(b, "live"), NEW v, v.gen = gen
  PROVE  Holds(v, b)'
<1>1. gen \in Nat /\ block[b] \in Lifetimes /\ block[b].birth <= gen
  BY DEF RetentionTypeOK
<1>2. CASE Retire(b)
  BY <1>1, <1>2 DEF Retire, Holds, Lifetimes
<1>3. CASE block'[b] = block[b]
  BY <1>1, <1>3 DEF Is, Holds
<1>4. QED
  BY <1>2, <1>3 DEF Commit, Allocate, Transfer, Promote, Promotable, Is

LEMMA RetentionNextInv == RInv /\ [Commit]_rvars => RInv'
<1> SUFFICES ASSUME RInv, [Commit]_rvars PROVE RInv'
  OBVIOUS
<1>1. CASE UNCHANGED rvars
  BY <1>1 DEF rvars, RInv, RetentionTypeOK, Captured, Holds
<1>2. CASE Commit
  <2> DEFINE new == [gen |-> gen, blocks |-> {b \in Blocks : Is(b, "live")}]
  <2>1. \A v \in views' : v \in views \/ v = new
    BY <1>2 DEF Commit, NextViews
  <2>2. prior'.views = views /\ gen' = gen + 1 /\ gen \in Nat
    BY <1>2 DEF Commit, RInv, RetentionTypeOK
  <2>3. RetentionTypeOK'
    <3>1. \A b \in Blocks : block'[b] \in Lifetimes /\ block'[b].birth <= gen'
      BY <1>2, BlockTyped DEF RInv
    <3>2. ASSUME NEW v \in views' PROVE v.gen \in Nat /\ v.gen <= gen' /\ v.blocks \subseteq Blocks
      BY <2>1, <2>2 DEF RInv, RetentionTypeOK
    <3>3. QED
      BY <2>2, <3>1, <3>2 DEF RetentionTypeOK
  <2>4. ASSUME NEW v \in views' \union prior'.views, NEW b \in v.blocks PROVE Holds(v, b)'
    <3>1. CASE v \in views
      <4>1. b \in Blocks /\ Holds(v, b)
        BY <3>1 DEF RInv, RetentionTypeOK, Captured
      <4>2. QED
        BY <1>2, <3>1, <4>1, HoldsKept DEF RInv
    <3>2. CASE v = new
      BY <1>2, <3>2, HoldsCaptured DEF RInv
    <3>3. QED
      BY <2>1, <2>2, <2>4, <3>1, <3>2
  <2>5. QED
    BY <2>3, <2>4 DEF RInv, Captured
<1>3. QED
  BY <1>1, <1>2

(* No reader of a registered view, in the current or in the other          *)
(* checkpoint, finds a block of it free or rewritten.                      *)
THEOREM ViewsStayIntact == RetentionSpec => []ViewsIntact
<1>1. RInv => ViewsIntact
  BY DEF RInv, Captured, Holds, ViewsIntact
<1>2. QED
  BY RetentionInitInv, RetentionNextInv, <1>1, PTL DEF RetentionSpec
=============================================================================
