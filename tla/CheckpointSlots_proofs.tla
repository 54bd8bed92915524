----------------------- MODULE CheckpointSlots_proofs -----------------------
(***************************************************************************)
(* The types of CheckpointCommit are kept by every step; and what device   *)
(* operations and publication do to the checkpoint slots, the facts that   *)
(* the invariance proof of CheckpointCommit_proofs rests on.               *)
(***************************************************************************)
EXTENDS CheckpointCommit, TLAPS

-----------------------------------------------------------------------------
(* Types. *)

(* NoCheckpoint is a checkpoint value. *)
LEMMA NoCheckpointType == NoCheckpoint \in Checkpoint
BY DEF NoCheckpoint, Checkpoint, PageSlot

(* choose_slot: of three slots, one is named by neither checkpoint.        *)
LEMMA ChooseSlotUnused ==
    ASSUME checkpoint \in Checkpoint, other_checkpoint \in Checkpoint, NEW p \in Page
    PROVE  ChooseSlot(p) \in PageSlot /\ Unused(p, ChooseSlot(p))
<1>1. checkpoint.pages[p] \in PageSlot /\ other_checkpoint.pages[p] \in PageSlot
  BY DEF Checkpoint
<1>2. \E s \in PageSlot : Unused(p, s) /\ \A r \in PageSlot : Unused(p, r) => s <= r
  BY <1>1 DEF Unused, PageSlot
<1> QED
  BY <1>2 DEF ChooseSlot

(* What a transaction publishes is a checkpoint value. *)
LEMMA NextCheckpointType ==
    ASSUME checkpoint \in Checkpoint, other_checkpoint \in Checkpoint,
           NEW t \in Transaction
    PROVE  /\ NextCheckpoint(t) \in Checkpoint
           /\ DirtyPages(t) \subseteq Page
           /\ PageCells(t) \subseteq Cell
           /\ NewCells(t) \subseteq Cell
<1>1. DirtyPages(t) \subseteq Page
  BY PageOfAssumption DEF DirtyPages, Transaction
<1>2. \A p \in Page : ChooseSlot(p) \in PageSlot
  BY ChooseSlotUnused
<1>3. PageCells(t) \subseteq Cell
  BY <1>1, <1>2 DEF PageCells, Cell
<1>4. NewCells(t) \subseteq Cell
  BY <1>3 DEF NewCells, Transaction, Cell
<1>5. NextCheckpoint(t).img \in [Cell -> Nat]
  BY DEF NextCheckpoint, Checkpoint, Transaction
<1>6. NextCheckpoint(t).quar \in [Block -> Nat]
  BY DEF NextCheckpoint, Checkpoint, Transaction
<1>7. NextCheckpoint(t).pages \in [Page -> PageSlot]
  BY <1>2 DEF NextCheckpoint, Checkpoint, Transaction
<1>8. NextCheckpoint(t).gen \in Nat
  BY DEF NextCheckpoint, Checkpoint
<1> QED
  BY <1>1, <1>3, <1>4, <1>5, <1>6, <1>7, <1>8 DEF NextCheckpoint, Checkpoint

(* The device operations keep the device's types. *)
LEMMA WriteCellsType ==
    ASSUME TypeOK, NEW S, NEW tag \in Nat, WriteCells(S, tag)
    PROVE  /\ may' \in [Cell -> SUBSET Nat] /\ dirty' \in [Cell -> Nat]
           /\ sview' \in [Slot -> Checkpoint] /\ smay' \in [Slot -> SUBSET Checkpoint]
BY DEF TypeOK, WriteCells

(* So does the write of a checkpoint slot, whole or torn.                   *)
LEMMA WriteSlotType ==
    ASSUME TypeOK, NEW s \in Slot, NEW c \in Checkpoint, WriteSlot(s, c)
    PROVE  /\ may' \in [Cell -> SUBSET Nat] /\ dirty' \in [Cell -> Nat]
           /\ sview' \in [Slot -> Checkpoint] /\ smay' \in [Slot -> SUBSET Checkpoint]
BY NoCheckpointType DEF TypeOK, WriteSlot

(* So does a flush.                                                         *)
LEMMA FlushType ==
    ASSUME TypeOK, Flush
    PROVE  /\ may' \in [Cell -> SUBSET Nat] /\ dirty' \in [Cell -> Nat]
           /\ sview' \in [Slot -> Checkpoint] /\ smay' \in [Slot -> SUBSET Checkpoint]
BY DEF TypeOK, Flush

(* So does a power cut.                                                     *)
LEMMA LosePowerType ==
    ASSUME TypeOK, LosePower
    PROVE  /\ may' \in [Cell -> SUBSET Nat] /\ dirty' \in [Cell -> Nat]
           /\ sview' \in [Slot -> Checkpoint] /\ smay' \in [Slot -> SUBSET Checkpoint]
<1>1. PICK a \in smay[0], b \in smay[1] :
        /\ sview' = [s \in Slot |-> IF s = 0 THEN a ELSE b]
        /\ smay' = [s \in Slot |-> IF s = 0 THEN {a} ELSE {b}]
  BY Zenon DEF LosePower
<1>2. a \in Checkpoint /\ b \in Checkpoint
  BY DEF TypeOK, Slot
<1> QED
  BY <1>1, <1>2 DEF TypeOK, LosePower

(* A transaction takes its blocks from the free and the promoted ones.     *)
LEMMA BeginType ==
    ASSUME TypeOK, NEW window \in BOOLEAN, NEW promoted \in SUBSET Block,
           Begin(window, promoted)
    PROVE  /\ tx' \in Transaction /\ txn' \in Nat \ {0}
           /\ tx'.tag = txn + 1 /\ tx'.promoted = promoted
           /\ tx'.data \cup tx'.meta \subseteq Free(checkpoint) \cup promoted
           /\ tx'.retired \subseteq Live(checkpoint) \cap Block
<1>1. PICK meta \in SUBSET (Free(checkpoint) \cup promoted),
           data \in SUBSET (Free(checkpoint) \cup promoted),
           retired \in SUBSET (Live(checkpoint) \cap Block) :
        tx' = [tag |-> txn + 1, window |-> window, promoted |-> promoted,
               data |-> data, meta |-> meta, retired |-> retired]
  BY Zenon DEF Begin
<1>2. meta \subseteq Block /\ data \subseteq Block /\ retired \subseteq Block
  BY DEF Free
<1>3. txn + 1 \in Nat /\ txn' = txn + 1
  BY DEF TypeOK, Begin
<1>4. tx' \in Transaction
  BY <1>1, <1>2, <1>3 DEF Transaction
<1> QED
  BY <1>1, <1>3, <1>4 DEF TypeOK

(* Every step keeps the types. *)
LEMMA TypeStep == TypeOK /\ [Next]_vars => TypeOK'
<1> SUFFICES ASSUME TypeOK, [Next]_vars PROVE TypeOK'
  OBVIOUS
<1>0. NoTx \in Transaction /\ 1 - current_slot \in Slot /\ tx.tag \in Nat
  BY DEF TypeOK, Slot, Transaction, NoTx
<1>w. warm' \in BOOLEAN
  <2>1. CASE Unmount
    BY <2>1 DEF Unmount
  <2>2. CASE UNCHANGED warm
    BY <2>2 DEF TypeOK
  <2> QED
    BY <2>1, <2>2 DEF Next, vars
<1> USE <1>w
<1>1. CASE Mount
  <2>1. PICK s \in Slot : checkpoint' = sview[s] /\ other_checkpoint' = sview[1 - s]
                          /\ current_slot' = s
    BY <1>1 DEF Mount
  <2>2. sview[s] \in Checkpoint /\ sview[1 - s] \in Checkpoint
    BY <2>1 DEF TypeOK, Slot
  <2> QED
    BY Zenon, <1>1, <2>1, <2>2 DEF Mount, TypeOK, device
<1>2. CASE Unmount
  BY Zenon, <1>0, <1>2, NoCheckpointType DEF Unmount, Forget, TypeOK, device, Slot
<1>3. CASE PowerCut
  BY Zenon, <1>0, <1>3, NoCheckpointType, LosePowerType DEF PowerCut, Forget, TypeOK, Slot
<1>4. CASE Stage
  <2>1. PICK promoted \in SUBSET Promotable : Begin(FALSE, promoted)
    BY Zenon, <1>4 DEF Stage
  <2>2. promoted \in SUBSET Block
    BY <2>1 DEF Promotable, Quarantined
  <2> QED
    BY Zenon, <1>4, <2>1, <2>2, BeginType DEF Stage, TypeOK, device, volume
<1>5. CASE OpenWindow
  <2>1. tx' \in Transaction /\ txn' \in Nat \ {0}
    BY Zenon, <1>5, BeginType DEF OpenWindow
  <2>2. txn + 1 \in Nat
    BY DEF TypeOK
  <2> QED
    BY <1>5, <2>1, <2>2, WriteCellsType DEF OpenWindow, TypeOK, volume
<1>6. CASE OpenWindowFailed
  <2>1. PICK written : WriteCells(written, txn + 1)
    BY <1>6 DEF OpenWindowFailed
  <2>2. txn + 1 \in Nat \ {0}
    BY DEF TypeOK
  <2> QED
    BY <1>6, <2>1, <2>2, WriteCellsType DEF OpenWindowFailed, TypeOK, volume
<1>7. CASE WriteData
  BY <1>0, <1>7, WriteCellsType DEF WriteData, TypeOK, volume
<1>8. CASE FlushData
  BY <1>8, FlushType DEF FlushData, TypeOK, volume
<1>9. CASE WriteMeta
  BY <1>0, <1>9, WriteCellsType DEF WriteMeta, TypeOK, volume
<1>10. CASE FlushMeta
  BY <1>10, FlushType DEF FlushMeta, TypeOK, volume
<1>11. CASE WriteFailed
  <2>1. PICK written : WriteCells(written, tx.tag)
    BY <1>11 DEF WriteFailed
  <2>2. tx.window \in BOOLEAN
    BY DEF TypeOK, Transaction
  <2> QED
    BY <1>0, <1>11, <2>1, <2>2, WriteCellsType DEF WriteFailed, GiveUp, TypeOK, volume
<1>12. CASE FlushFailed
  <2>1. tx.window \in BOOLEAN
    BY DEF TypeOK, Transaction
  <2> QED
    BY <1>0, <1>12, <2>1 DEF FlushFailed, GiveUp, TypeOK, volume, device
<1>13. CASE WriteCheckpoint
  BY <1>0, <1>13, WriteSlotType, NextCheckpointType DEF WriteCheckpoint, TypeOK, volume
<1>14. CASE FlushCheckpoint
  BY <1>14, FlushType DEF FlushCheckpoint, TypeOK, volume
<1>15. CASE Adopt
  BY Zenon, <1>0, <1>15, NextCheckpointType DEF Adopt, TypeOK, device
<1>16. CASE WriteCheckpointFailed
  <2>1. NextCheckpoint(tx) \in Checkpoint
    BY NextCheckpointType DEF TypeOK
  <2>2. /\ may' \in [Cell -> SUBSET Nat] /\ dirty' \in [Cell -> Nat]
        /\ sview' \in [Slot -> Checkpoint] /\ smay' \in [Slot -> SUBSET Checkpoint]
    <3>1. CASE UNCHANGED device
      BY <3>1 DEF TypeOK, device
    <3>2. CASE \E c \in {NextCheckpoint(tx), NoCheckpoint} : WriteSlot(1 - current_slot, c)
      BY <1>0, <2>1, <3>2, NoCheckpointType, WriteSlotType
    <3> QED
      BY <1>16, <3>1, <3>2 DEF WriteCheckpointFailed
  <2> QED
    BY <1>0, <1>16, <2>2 DEF WriteCheckpointFailed, Uncertain, TypeOK, volume
<1>17. CASE FlushCheckpointFailed
  BY <1>0, <1>17 DEF FlushCheckpointFailed, Uncertain, TypeOK, volume, device
<1>18. CASE AdoptFailed
  BY <1>0, <1>18 DEF AdoptFailed, Uncertain, TypeOK, volume, device
<1>19. CASE UNCHANGED vars
  BY <1>19 DEF vars, device, volume, TypeOK
<1> QED
  BY <1>1, <1>2, <1>3, <1>4, <1>5, <1>6, <1>7, <1>8, <1>9, <1>10, <1>11, <1>12,
     <1>13, <1>14, <1>15, <1>16, <1>17, <1>18, <1>19 DEF Next

(* mkfs leaves well-typed slots and an unmounted volume.                    *)
LEMMA InitType == Init => TypeOK
<1> SUFFICES ASSUME Init PROVE TypeOK
  OBVIOUS
<1>1. PICK blocks \in SUBSET Block :
        /\ sview = [s \in Slot |-> IF s = 0 THEN Format(blocks) ELSE NoCheckpoint]
        /\ may = [c \in Cell |-> IF c \in Live(Format(blocks)) THEN {1} ELSE {0}]
        /\ acked = Format(blocks)
  BY DEF Init
<1>2. Format(blocks) \in Checkpoint
  BY DEF Format, Checkpoint, PageSlot
<1>3. sview \in [Slot -> Checkpoint] /\ smay \in [Slot -> SUBSET Checkpoint]
  BY <1>1, <1>2, NoCheckpointType DEF Init, Slot
<1>4. may \in [Cell -> SUBSET Nat] /\ dirty \in [Cell -> Nat]
  BY <1>1 DEF Init
<1>5. tx \in Transaction
  BY DEF Init, NoTx, Transaction
<1>6. /\ step = "down" /\ current_slot = 0 /\ window_poisoned = FALSE /\ txn = 1
      /\ warm = FALSE /\ checkpoint = NoCheckpoint /\ other_checkpoint = NoCheckpoint
  BY DEF Init
<1>7. current_slot \in Slot /\ txn \in Nat \ {0}
  BY <1>6 DEF Slot
<1> QED
  BY Zenon, <1>1, <1>2, <1>3, <1>4, <1>5, <1>6, <1>7, NoCheckpointType DEF TypeOK

(* The variables keep their types (every run checks it on its instance).   *)
THEOREM TypeCorrect == Spec => []TypeOK
BY InitType, TypeStep, PTL DEF Spec

-----------------------------------------------------------------------------
(* What the device operations do to a checkpoint that is intact. *)

(* Writing cells a checkpoint does not reach leaves it intact. *)
LEMMA WriteKeepsIntact ==
    ASSUME NEW c, NEW S, NEW tag, WriteCells(S, tag), S \cap Live(c) = {}, Intact(c)
    PROVE  Intact(c)'
<1>1. \A x \in Live(c) : x \in Cell /\ may'[x] = may[x]
  BY DEF WriteCells, Live
<1> QED
  BY <1>1 DEF Intact, Live

(* A flush applies a pending write; where a checkpoint is intact there was *)
(* none that changes anything.                                             *)
LEMMA FlushKeepsIntact ==
    ASSUME TypeOK, WritesInv, NEW c, Flush, Intact(c)
    PROVE  Intact(c)'
<1>1. \A x \in Live(c) : may'[x] = may[x]
  <2> SUFFICES ASSUME NEW x \in Live(c) PROVE may'[x] = may[x]
    OBVIOUS
  <2>1. x \in Cell /\ may[x] = {c.img[x]} /\ (dirty[x] = 0 \/ dirty[x] \in may[x])
    BY DEF WritesInv, Intact, Live
  <2> QED
    BY <2>1 DEF Flush
<1> QED
  BY <1>1 DEF Intact, Live

(* The cells a transaction may write are reached by neither slot's content:*)
(* free blocks, promoted quarantine, and the page slots choose_slot picks. *)
LEMMA FreshCells ==
    ASSUME TypeOK, SlotsInv,
           checkpoint = sview[current_slot], other_checkpoint = sview[1 - current_slot],
           Newer(checkpoint, other_checkpoint)
    PROVE  /\ \A s \in Slot : \A b \in Free(checkpoint) \cup Promotable :
                    b \notin Live(sview[s])
           /\ \A s \in Slot : \A p \in Page : <<p, ChooseSlot(p)>> \notin Live(sview[s])
<1>1. /\ checkpoint \in Checkpoint /\ other_checkpoint \in Checkpoint
      /\ current_slot \in Slot /\ 1 - current_slot \in Slot
  BY DEF TypeOK, Slot
<1>2. PICK s \in Slot : Anchor(s)
  BY DEF SlotsInv
<1>3. sview[current_slot] \in smay[current_slot] /\ sview[1 - current_slot] \in smay[1 - current_slot]
  BY <1>1, <1>2 DEF Anchor, Slot
<1>4. WellFormed(checkpoint) /\ WellFormed(other_checkpoint)
  BY <1>1, <1>3 DEF SlotsInv
<1>5. Live(NoCheckpoint) = {}
  BY DEF Live, NoCheckpoint
<1>6. other_checkpoint = NoCheckpoint
        \/ (Valid(other_checkpoint) /\ other_checkpoint.gen < checkpoint.gen
            /\ Follows(other_checkpoint, checkpoint))
  <2>1. CASE s = current_slot
    <3>1. Faces(other_checkpoint, checkpoint)
      BY <1>2, <1>3, <2>1 DEF Anchor
    <3> QED
      BY <1>1, <3>1 DEF Faces, Newer, Valid, Checkpoint
  <2>2. CASE s = 1 - current_slot
    <3>1. 1 - s = current_slot
      BY <1>1, <2>2 DEF Slot
    <3>2. Faces(checkpoint, other_checkpoint) /\ Valid(other_checkpoint)
      BY <1>2, <1>3, <2>2, <3>1 DEF Anchor
    <3>3. checkpoint.gen > other_checkpoint.gen /\ checkpoint # NoCheckpoint
      BY <3>2 DEF Newer, Valid, NoCheckpoint
    <3> QED
      BY <1>1, <3>2, <3>3 DEF Faces, Checkpoint
  <2> QED
    BY <1>1, <1>2, <2>1, <2>2 DEF Slot
<1>7. \A b \in Free(checkpoint) \cup Promotable :
        b \notin Live(checkpoint) /\ b \notin Live(other_checkpoint)
  <2> SUFFICES ASSUME NEW b \in Free(checkpoint) \cup Promotable
               PROVE  b \notin Live(checkpoint) /\ b \notin Live(other_checkpoint)
    OBVIOUS
  <2>1. b \in Block
    BY DEF Free, Promotable, Quarantined
  <2>2. checkpoint.img[b] = 0
    BY <1>4, <2>1 DEF Free, Promotable, Quarantined, Live, WellFormed, Cell
  <2>3. CASE other_checkpoint = NoCheckpoint
    BY <1>5, <2>2, <2>3 DEF Live
  <2>4. CASE Valid(other_checkpoint) /\ other_checkpoint.gen < checkpoint.gen
             /\ Follows(other_checkpoint, checkpoint)
    <3>1. ~(checkpoint.quar[b] > other_checkpoint.gen)
      BY <1>1, <2>1, <2>4 DEF Free, Quarantined, Promotable, OldestProtected, Checkpoint
    <3> QED
      BY <2>1, <2>2, <2>4, <3>1 DEF Follows, Live
  <2> QED
    BY <1>6, <2>3, <2>4
<1>8. \A p \in Page : /\ <<p, ChooseSlot(p)>> \notin Live(checkpoint)
                      /\ <<p, ChooseSlot(p)>> \notin Live(other_checkpoint)
  <2> SUFFICES ASSUME NEW p \in Page
               PROVE  /\ <<p, ChooseSlot(p)>> \notin Live(checkpoint)
                      /\ <<p, ChooseSlot(p)>> \notin Live(other_checkpoint)
    OBVIOUS
  <2>1. ChooseSlot(p) \in PageSlot /\ Unused(p, ChooseSlot(p))
    BY <1>1, ChooseSlotUnused
  <2>2. <<p, ChooseSlot(p)>> \notin Live(checkpoint)
    BY <1>4, <2>1 DEF WellFormed, Live, Unused
  <2>3. Valid(other_checkpoint) => <<p, ChooseSlot(p)>> \notin Live(other_checkpoint)
    BY <1>4, <2>1 DEF WellFormed, Live, Unused
  <2> QED
    BY <1>5, <1>6, <2>2, <2>3
<1>9. \A r \in Slot : sview[r] = checkpoint \/ sview[r] = other_checkpoint
  BY <1>1 DEF Slot
<1> QED
  BY <1>7, <1>8, <1>9

(* Hence writing such cells leaves the slots as good as they were. *)
LEMMA WriteKeepsSlots ==
    ASSUME TypeOK, SlotsInv, NEW S, NEW tag, WriteCells(S, tag),
           \A s \in Slot : S \cap Live(sview[s]) = {}
    PROVE  SlotsInv'
<1>1. PICK s \in Slot : Anchor(s)
  BY DEF SlotsInv
<1>2. sview' = sview /\ smay' = smay /\ 1 - s \in Slot
  BY DEF WriteCells, Slot
<1>3. \A r \in Slot : Intact(sview[r]) => Intact(sview[r])'
  <2> SUFFICES ASSUME NEW r \in Slot, Intact(sview[r]) PROVE Intact(sview[r])'
    OBVIOUS
  <2>1. \A x \in Live(sview[r]) : x \in Cell /\ x \notin S
    BY DEF Live
  <2>2. \A x \in Live(sview[r]) : may'[x] = may[x]
    BY SMTT(30), <2>1 DEF WriteCells
  <2> QED
    BY <1>2, <2>2 DEF Intact, Live
<1>4. Anchor(s)'
  <2>1. Valid(sview[s])' /\ Intact(sview[s])'
    BY <1>1, <1>2, <1>3 DEF Anchor, Valid
  <2>2. ASSUME NEW d \in smay[1 - s] PROVE Faces(d, sview[s])'
    <3>1. Faces(d, sview[s]) /\ (d.gen = sview[s].gen + 1 => d = sview[1 - s])
      BY SMTT(30), <1>1, <2>2 DEF Anchor
    <3>2. CASE d.gen = sview[s].gen + 1
      BY SMTT(30), <1>2, <1>3, <3>1, <3>2 DEF Faces, Follows, Intact, Live
    <3>3. CASE d.gen # sview[s].gen + 1
      BY <1>2, <3>1, <3>3 DEF Faces, Follows
    <3> QED
      BY <3>2, <3>3
  <2> QED
    BY <1>1, <1>2, <2>1, <2>2 DEF Anchor
<1> QED
  BY <1>2, <1>4 DEF SlotsInv, WellFormed

(* What a slot reads is one of the things a power cut may leave there. *)
LEMMA ViewPossible ==
    ASSUME SlotsInv, NEW s \in Slot
    PROVE  sview[s] \in smay[s]
<1>1. PICK r \in Slot : Anchor(r)
  BY SMTT(30) DEF SlotsInv
<1> QED
  BY <1>1 DEF Anchor, Slot

(* Reducing each slot to one of its possible contents keeps the slots good *)
(* and offers mount no checkpoint it could not select before.  A flush and *)
(* a power cut are of this kind.                                           *)
LEMMA SettleKeepsSlots ==
    ASSUME TypeOK, SlotsInv, NEW v,
           v \in [Slot -> Checkpoint], \A s \in Slot : v[s] \in smay[s],
           sview' = v, smay' = [s \in Slot |-> {v[s]}],
           \A c \in Checkpoint : Intact(c) => Intact(c)'
    PROVE  SlotsInv' /\ Selectable' \subseteq Selectable
<1>1. PICK s \in Slot : Anchor(s)
  BY DEF SlotsInv
<1>2. 1 - s \in Slot /\ v[s] = sview[s] /\ sview[s] \in Checkpoint /\ v[1 - s] \in Checkpoint
  BY SMTT(30), <1>1 DEF Anchor, Slot
<1>3. Faces(v[1 - s], v[s])'
  <2>1. Faces(v[1 - s], v[s])
    BY <1>1, <1>2 DEF Anchor
  <2>2. Intact(v[1 - s]) => Intact(v[1 - s])'
    BY <1>2
  <2> QED
    BY <2>1, <2>2 DEF Faces, Follows
<1>4. Valid(v[s])' /\ Intact(v[s])'
  BY <1>1, <1>2 DEF Anchor, Valid
<1>5. Anchor(s)'
  <2>1. smay'[s] = {v[s]} /\ smay'[1 - s] = {v[1 - s]} /\ sview' = v
    BY <1>2
  <2>2. Valid(sview[s])' /\ Intact(sview[s])'
    BY SMTT(30), <1>4, <2>1 DEF Valid, Intact, Live
  <2>3. Faces(v[1 - s], sview[s])'
    BY <1>3, <2>1 DEF Faces, Follows, Intact, Live
  <2> QED
    BY <2>1, <2>2, <2>3 DEF Anchor
<1>6. \A r \in Slot : \A d \in smay'[r] : WellFormed(d)
  BY DEF SlotsInv
<1>7. Selectable' \subseteq Selectable
  BY DEF Selectable, Newer, Valid, Slot
<1> QED
  BY SMTT(30), <1>1, <1>5, <1>6, <1>7 DEF SlotsInv, WellFormed

(* A flush leaves each slot with what a read of it returns.                 *)
LEMMA FlushKeepsSlots ==
    ASSUME TypeOK, SlotsInv, WritesInv, Flush
    PROVE  SlotsInv' /\ Selectable' \subseteq Selectable
<1>1. \A c \in Checkpoint : Intact(c) => Intact(c)'
  BY FlushKeepsIntact
<1>2. \A s \in Slot : sview[s] \in smay[s]
  BY ViewPossible
<1>3. sview' = sview /\ smay' = [s \in Slot |-> {sview[s]}] /\ sview \in [Slot -> Checkpoint]
  BY DEF Flush, TypeOK
<1> QED
  BY <1>1, <1>2, <1>3, SettleKeepsSlots

(* A power cut leaves each slot with one of its possible contents.          *)
LEMMA LosePowerKeepsSlots ==
    ASSUME TypeOK, SlotsInv, LosePower
    PROVE  SlotsInv' /\ Selectable' \subseteq Selectable
<1>1. PICK a \in smay[0], b \in smay[1] :
        /\ sview' = [s \in Slot |-> IF s = 0 THEN a ELSE b]
        /\ smay' = [s \in Slot |-> IF s = 0 THEN {a} ELSE {b}]
  BY Zenon DEF LosePower
<1> DEFINE v == [s \in Slot |-> IF s = 0 THEN a ELSE b]
<1>2. v \in [Slot -> Checkpoint] /\ \A s \in Slot : v[s] \in smay[s]
  BY DEF TypeOK, Slot
<1>3. sview' = v /\ smay' = [s \in Slot |-> {v[s]}]
  BY <1>1 DEF Slot
<1>4. \A c \in Checkpoint : Intact(c) => Intact(c)'
  BY DEF LosePower, Intact, Live
<1> HIDE DEF v
<1> QED
  BY <1>2, <1>3, <1>4, SettleKeepsSlots

-----------------------------------------------------------------------------
(* Publication. *)

(* Before publication the remembered checkpoint is the selected one, it is *)
(* the anchor once the metadata barrier has passed, and it is intact.      *)
LEMMA SealedAnchor ==
    ASSUME IInv, step = "sealed"
    PROVE  /\ Anchor(current_slot) /\ checkpoint = sview[current_slot]
           /\ Intact(checkpoint) /\ WellFormed(checkpoint) /\ Valid(checkpoint)
           /\ smay[1 - current_slot] = {other_checkpoint}
           /\ Selectable = {checkpoint}
<1>1. /\ checkpoint = sview[current_slot]
      /\ other_checkpoint = sview[1 - current_slot]
      /\ Newer(checkpoint, other_checkpoint)
      /\ smay = [s \in Slot |-> {sview[s]}]
  BY DEF IInv, MemoryInv, InTransaction
<1>2. /\ current_slot \in Slot /\ 1 - current_slot \in Slot
      /\ checkpoint \in Checkpoint /\ other_checkpoint \in Checkpoint
  BY DEF IInv, TypeOK, Slot
<1>3. PICK s \in Slot : Anchor(s)
  BY DEF IInv, SlotsInv
<1>4. Intact(checkpoint) /\ Faces(other_checkpoint, checkpoint)
  <2>1. CASE s = current_slot
    BY <1>1, <1>2, <1>3, <2>1 DEF Anchor
  <2>2. CASE s = 1 - current_slot
    <3>1. 1 - s = current_slot
      BY <1>2, <2>2 DEF Slot
    <3>2. Faces(checkpoint, other_checkpoint) /\ Valid(other_checkpoint)
      BY <1>1, <1>2, <1>3, <2>2, <3>1 DEF Anchor
    <3>3. checkpoint.gen > other_checkpoint.gen /\ checkpoint # NoCheckpoint
      BY <1>1, <3>2 DEF Newer, Valid, NoCheckpoint
    <3>4. Follows(other_checkpoint, checkpoint) /\ Intact(checkpoint)
      BY SMTT(30), <1>2, <3>2, <3>3 DEF Faces, Checkpoint
    <3> QED
      BY <3>2, <3>3, <3>4 DEF Faces, Valid
  <2> QED
    BY <1>2, <1>3, <2>1, <2>2 DEF Slot
<1>5. Valid(checkpoint) /\ other_checkpoint.gen # checkpoint.gen + 1
  BY <1>1, <1>2 DEF Newer, Valid, Checkpoint
<1>6. Anchor(current_slot)
  BY <1>1, <1>2, <1>4, <1>5 DEF Anchor
<1>7. WellFormed(checkpoint)
  BY <1>1, <1>2 DEF IInv, SlotsInv
<1>8. Selectable = {checkpoint}
  <2>1. ~Newer(other_checkpoint, checkpoint)
    BY <1>1, <1>2, <1>5 DEF Newer, Valid, Checkpoint
  <2> QED
    BY <1>1, <1>2, <2>1 DEF Selectable, Slot
<1> QED
  BY <1>1, <1>2, <1>4, <1>5, <1>6, <1>7, <1>8

(* The checkpoint a sealed transaction publishes is complete on the device,*)
(* well formed, and follows the one it replaces.                           *)
LEMMA NextIsGood ==
    ASSUME IInv, step = "sealed"
    PROVE  /\ Intact(NextCheckpoint(tx)) /\ WellFormed(NextCheckpoint(tx))
           /\ Follows(checkpoint, NextCheckpoint(tx))
           /\ NextCheckpoint(tx).gen = checkpoint.gen + 1
           /\ NextCheckpoint(tx) \in Checkpoint
<1> DEFINE n == NextCheckpoint(tx)
<1>1. /\ checkpoint = sview[current_slot] /\ Intact(checkpoint)
      /\ WellFormed(checkpoint) /\ Valid(checkpoint)
  BY SealedAnchor
<1>2. /\ checkpoint \in Checkpoint /\ other_checkpoint \in Checkpoint /\ tx \in Transaction
      /\ current_slot \in Slot
  BY SMTT(30) DEF IInv, TypeOK
<1>3. /\ tx.tag # 0 /\ tx.promoted \subseteq Promotable
      /\ tx.data \cup tx.meta \subseteq Free(checkpoint) \cup tx.promoted
      /\ tx.retired \subseteq Live(checkpoint) \cap Block
      /\ \A x \in NewCells(tx) : may[x] = {tx.tag}
  BY DEF IInv, TransactionInv, InTransaction, WritesInv
<1>4. n \in Checkpoint /\ DirtyPages(tx) \subseteq Page
  BY <1>2, NextCheckpointType
<1>5. n.gen = checkpoint.gen + 1
  BY SMTT(30) DEF NextCheckpoint
<1>6. /\ \A x \in Cell : n.img[x] = IF x \in NewCells(tx) THEN tx.tag
                                    ELSE IF x \in tx.retired \cup OldPageCells(tx) THEN 0
                                    ELSE checkpoint.img[x]
      /\ \A b \in Block : n.quar[b] = IF b \in tx.retired THEN checkpoint.gen + 1
                                      ELSE IF b \in tx.promoted THEN 0 ELSE checkpoint.quar[b]
      /\ \A p \in Page : n.pages[p] = IF p \in DirtyPages(tx) THEN ChooseSlot(p)
                                      ELSE checkpoint.pages[p]
  BY DEF NextCheckpoint
<1> HIDE DEF n
<1>7. \A b \in Block : b \notin PageCells(tx) /\ b \notin OldPageCells(tx)
  BY <1>2, <1>4, ChooseSlotUnused, CellAssumption
     DEF PageCells, OldPageCells, Cell, PageSlot, Checkpoint
<1>8. \A b \in Free(checkpoint) \cup Promotable : b \in Block /\ checkpoint.img[b] = 0
  BY <1>1 DEF Free, Promotable, Quarantined, Live, WellFormed, Cell
<1>9. \A b \in Block : b \in NewCells(tx) => b \in Free(checkpoint) \cup tx.promoted
  BY <1>3, <1>7 DEF NewCells
<1>10. Intact(n)
  <2> SUFFICES ASSUME NEW x \in Cell, n.img[x] # 0 PROVE may[x] = {n.img[x]}
    BY DEF Intact, Live
  <2>1. CASE x \in NewCells(tx)
    BY <1>3, <1>6, <2>1
  <2>2. CASE x \notin NewCells(tx)
    <3>1. n.img[x] = checkpoint.img[x]
      BY <1>6, <2>2
    <3> QED
      BY <1>1, <3>1 DEF Intact, Live
  <2> QED
    BY <2>1, <2>2
<1>11. Follows(checkpoint, n)
  <2> SUFFICES ASSUME NEW b \in Block, checkpoint.img[b] # 0
               PROVE  n.img[b] = checkpoint.img[b] \/ n.quar[b] > checkpoint.gen
    BY DEF Follows
  <2>1. b \notin NewCells(tx) /\ b \in Cell
    BY <1>3, <1>8, <1>9 DEF Cell
  <2>2. CASE b \in tx.retired
    BY <1>2, <1>6, <2>2 DEF Checkpoint
  <2>3. CASE b \notin tx.retired
    BY <1>6, <1>7, <2>1, <2>3
  <2> QED
    BY <2>2, <2>3
<1>12. \A b \in Block : n.quar[b] # 0 => n.img[b] = 0
  <2> SUFFICES ASSUME NEW b \in Block, n.quar[b] # 0 PROVE n.img[b] = 0
    OBVIOUS
  <2>1. b \in Cell
    BY DEF Cell
  <2>2. CASE b \in tx.retired
    <3>1. b \notin NewCells(tx)
      BY SMTT(30), <1>3, <1>8, <1>9, <2>2 DEF Live
    <3> QED
      BY <1>6, <2>1, <2>2, <3>1
  <2>3. CASE b \notin tx.retired
    <3>1. b \notin tx.promoted /\ checkpoint.quar[b] # 0
      BY <1>6, <2>3
    <3>2. b \notin NewCells(tx)
      BY <1>9, <3>1 DEF Free, Quarantined
    <3> QED
      BY <1>1, <1>6, <1>7, <2>1, <2>3, <3>1, <3>2 DEF WellFormed
  <2> QED
    BY <2>2, <2>3
<1>13. \A p \in Page, s \in PageSlot : n.img[<<p, s>>] # 0 => s = n.pages[p]
  <2> SUFFICES ASSUME NEW p \in Page, NEW s \in PageSlot, n.img[<<p, s>>] # 0
               PROVE  s = n.pages[p]
    OBVIOUS
  <2>1. <<p, s>> \in Cell /\ <<p, s>> \notin Block
    BY CellAssumption DEF Cell, PageSlot
  <2>2. CASE <<p, s>> \in NewCells(tx)
    <3>1. <<p, s>> \in PageCells(tx)
      BY <1>2, <2>1, <2>2 DEF NewCells, Transaction
    <3>2. p \in DirtyPages(tx) /\ s = ChooseSlot(p)
      BY <3>1 DEF PageCells
    <3> QED
      BY <1>6, <3>2
  <2>3. CASE <<p, s>> \notin NewCells(tx)
    <3>1. checkpoint.img[<<p, s>>] # 0 /\ <<p, s>> \notin OldPageCells(tx)
      BY <1>6, <2>1, <2>3
    <3>2. s = checkpoint.pages[p]
      BY <1>1, <3>1 DEF WellFormed
    <3>3. p \notin DirtyPages(tx)
      BY <3>1, <3>2 DEF OldPageCells
    <3> QED
      BY <1>6, <3>2, <3>3
  <2> QED
    BY <2>2, <2>3
<1> QED
  BY <1>4, <1>5, <1>10, <1>11, <1>12, <1>13 DEF n, WellFormed

(* Writing the alternate slot, whole or torn, leaves the anchor and puts   *)
(* its successor, or nothing, beside it.                                   *)
LEMMA PublishKeepsSlots ==
    ASSUME IInv, step = "sealed", NEW c \in {NextCheckpoint(tx), NoCheckpoint},
           WriteSlot(1 - current_slot, c), acked' = acked
    PROVE  SlotsInv' /\ AckedDurable'
<1> DEFINE o == 1 - current_slot
<1>1. current_slot \in Slot /\ o \in Slot /\ o # current_slot /\ 1 - o = current_slot
  BY DEF IInv, TypeOK, Slot
<1>2. /\ Anchor(current_slot) /\ checkpoint = sview[current_slot]
      /\ Intact(checkpoint) /\ WellFormed(checkpoint) /\ Valid(checkpoint)
      /\ smay[o] = {other_checkpoint} /\ Selectable = {checkpoint}
  BY SealedAnchor
<1>3. /\ Intact(NextCheckpoint(tx)) /\ WellFormed(NextCheckpoint(tx))
      /\ Follows(checkpoint, NextCheckpoint(tx))
      /\ NextCheckpoint(tx).gen = checkpoint.gen + 1
      /\ NextCheckpoint(tx) \in Checkpoint
  BY NextIsGood
<1>4. /\ checkpoint \in Checkpoint /\ other_checkpoint \in Checkpoint
      /\ smay \in [Slot -> SUBSET Checkpoint] /\ sview \in [Slot -> Checkpoint]
      /\ acked \in Checkpoint
  BY SMTT(30) DEF IInv, TypeOK
<1> HIDE DEF o
<1>5. /\ sview'[current_slot] = checkpoint /\ sview'[o] = c
      /\ smay'[current_slot] = {checkpoint}
      /\ smay'[o] = {other_checkpoint, c, NoCheckpoint}
      /\ may' = may
  BY SMTT(30), <1>1, <1>2, <1>4 DEF WriteSlot, Anchor, o
<1>6. NoCheckpoint.gen = 0 /\ WellFormed(NoCheckpoint)
  BY DEF NoCheckpoint, WellFormed, Cell
<1>7. \A d \in Checkpoint : Intact(d) => Intact(d)'
  BY <1>5 DEF Intact, Live
<1>8. \A d \in {other_checkpoint, c, NoCheckpoint} :
        /\ Faces(d, checkpoint)
        /\ d \in Checkpoint
        /\ d.gen = checkpoint.gen + 1 => d = c
        /\ WellFormed(d)
  <2>1. Faces(other_checkpoint, checkpoint) /\ other_checkpoint.gen # checkpoint.gen + 1
    <3>1. Faces(other_checkpoint, checkpoint) /\ other_checkpoint = sview[o]
      BY <1>2 DEF Anchor, o
    <3>2. Newer(checkpoint, other_checkpoint)
      BY DEF IInv, MemoryInv, InTransaction
    <3> QED
      BY <1>4, <3>1, <3>2 DEF Newer, Valid, Checkpoint
  <2>2. WellFormed(other_checkpoint)
    BY <1>1, <1>2 DEF IInv, SlotsInv
  <2>3. Faces(NextCheckpoint(tx), checkpoint) /\ Faces(NoCheckpoint, checkpoint)
    BY <1>3 DEF Faces
  <2>4. NoCheckpoint.gen # checkpoint.gen + 1
    BY <1>4, <1>6 DEF Checkpoint
  <2> QED
    BY <1>3, <1>4, <1>6, <2>1, <2>2, <2>3, <2>4, NoCheckpointType
<1>9. PICK k \in Slot, cp \in Checkpoint, nc \in Checkpoint, oc \in Checkpoint :
        k = current_slot /\ cp = checkpoint /\ nc = c /\ oc = other_checkpoint
  BY SMTT(30), <1>1, <1>3, <1>4, NoCheckpointType
<1>10. \A d \in {oc, nc, NoCheckpoint} : Faces(d, cp)'
  <2> SUFFICES ASSUME NEW d \in {oc, nc, NoCheckpoint} PROVE Faces(d, cp)'
    OBVIOUS
  <2>1. Faces(d, cp) /\ d \in Checkpoint
    BY <1>8, <1>9
  <2>2. Intact(d) => Intact(d)'
    BY SMTT(30), <1>7, <2>1
  <2> QED
    BY <2>1, <2>2 DEF Faces, Follows
<1>11. Anchor(k)'
  <2>1. /\ sview'[k] = cp /\ sview'[1 - k] = nc /\ smay'[k] = {cp}
        /\ smay'[1 - k] = {oc, nc, NoCheckpoint}
    BY <1>5, <1>9 DEF o
  <2>2. Valid(cp) /\ Intact(cp)'
    BY <1>2, <1>7, <1>9
  <2>3. Valid(sview[k])' /\ Intact(sview[k])'
    BY SMTT(30), <2>1, <2>2 DEF Valid, Intact, Live
  <2>4. \A d \in {oc, nc, NoCheckpoint} : Faces(d, sview[k])'
    BY <1>10, <2>1 DEF Faces, Follows, Intact, Live
  <2>5. \A d \in {oc, nc, NoCheckpoint} : d.gen = cp.gen + 1 => d = nc
    BY SMTT(30), <1>8, <1>9
  <2> QED
    BY <2>1, <2>3, <2>4, <2>5 DEF Anchor
<1>12. \A s \in Slot : \A d \in smay'[s] : WellFormed(d)
  BY SMTT(30), <1>1, <1>2, <1>5, <1>8 DEF Slot
<1>13. SlotsInv'
  BY SMTT(30), <1>11, <1>12 DEF SlotsInv, WellFormed
<1>14. \A d \in Selectable' : d = checkpoint \/ d.gen = checkpoint.gen + 1
  <2>1. \A d \in {other_checkpoint, NoCheckpoint} : ~Newer(d, checkpoint)
    <3>1. Newer(checkpoint, other_checkpoint)
      BY DEF IInv, MemoryInv, InTransaction
    <3> QED
      BY SMTT(30), <1>4, <1>6, <3>1 DEF Newer, Valid, Checkpoint
  <2>2. c = NoCheckpoint \/ c.gen = checkpoint.gen + 1
    BY <1>3
  <2> QED
    BY <1>1, <1>5, <2>1, <2>2 DEF Selectable, Slot, Newer, Valid
<1>15. checkpoint = acked \/ checkpoint.gen > acked.gen
  BY <1>2 DEF IInv, AckedDurable
<1>16. AckedDurable'
  BY <1>4, <1>14, <1>15 DEF AckedDurable, Checkpoint
<1> QED
  BY <1>13, <1>16
=============================================================================
