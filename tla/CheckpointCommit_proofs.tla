---------------------- MODULE CheckpointCommit_proofs -----------------------
(***************************************************************************)
(* Proofs, for any number of blocks, pages and transactions, that the      *)
(* commit protocol never damages a checkpoint that mount may select, and   *)
(* that it implements AtomicCheckpoint.                                    *)
(***************************************************************************)
EXTENDS CheckpointSteps_proofs

-----------------------------------------------------------------------------
(* Mounting, power cuts and publication keep the invariant. *)

(* Mounting remembers what the slots hold. *)
LEMMA MountStep ==
    ASSUME IInv, TypeOK', Mount
    PROVE  IInv'
<1>0. TypeOK /\ TypeOK' /\ AckedDurable
  BY DEF IInv
<1>1. PICK s \in Slot :
        /\ Newer(sview[s], sview[1 - s]) /\ checkpoint' = sview[s]
        /\ other_checkpoint' = sview[1 - s] /\ current_slot' = s
  BY DEF Mount
<1>2. UNCHANGED device /\ step' = "idle" /\ acked' = acked
  BY DEF Mount
<1>3. SlotsInv' /\ AckedDurable'
  BY <1>0, <1>2, SameDevice DEF AckedDurable
<1>4. MemoryInv'
  BY <1>1, <1>2 DEF MemoryInv, InTransaction, Publishing, Newer, Valid, device
<1>5. TransactionInv' /\ WritesInv'
  BY <1>2, SameDevice DEF TransactionInv, WritesInv, InTransaction, Publishing
<1> QED
  BY <1>0, <1>3, <1>4, <1>5 DEF IInv

(* Dropping the volume leaves the device alone. *)
LEMMA UnmountStep ==
    ASSUME IInv, TypeOK', Unmount
    PROVE  IInv'
<1>0. TypeOK /\ TypeOK' /\ AckedDurable
  BY DEF IInv
<1>1. UNCHANGED device /\ step' = "down" /\ acked' = acked
  BY DEF Unmount, Forget
<1>2. SlotsInv' /\ AckedDurable'
  BY <1>0, <1>1, SameDevice DEF AckedDurable
<1>3. MemoryInv' /\ TransactionInv' /\ WritesInv'
  BY <1>1, SameDevice DEF MemoryInv, TransactionInv, WritesInv, InTransaction, Publishing
<1> QED
  BY <1>0, <1>2, <1>3 DEF IInv

(* A power cut settles each slot on one of its possible contents. *)
LEMMA PowerCutStep ==
    ASSUME IInv, TypeOK', PowerCut
    PROVE  IInv'
<1>0. TypeOK /\ TypeOK' /\ AckedDurable
  BY DEF IInv
<1>1. LosePower /\ step' = "down" /\ acked' = acked
  BY DEF PowerCut, Forget
<1>2. SlotsInv' /\ AckedDurable'
  BY <1>0, <1>1, LosePowerKeepsSlots DEF IInv, AckedDurable
<1>3. MemoryInv' /\ TransactionInv' /\ WritesInv'
  BY <1>1 DEF LosePower, MemoryInv, TransactionInv, WritesInv, InTransaction, Publishing
<1> QED
  BY <1>0, <1>2, <1>3 DEF IInv

(* Publication puts the successor beside the anchor. *)
LEMMA WriteCheckpointStep ==
    ASSUME IInv, TypeOK', WriteCheckpoint
    PROVE  IInv'
<1>0. TypeOK /\ TypeOK' /\ AckedDurable
  BY DEF IInv
<1>1. /\ WriteSlot(1 - current_slot, NextCheckpoint(tx)) /\ UNCHANGED <<volume, tx, acked>>
      /\ step = "sealed" /\ step' = "published"
  BY DEF WriteCheckpoint
<1>2. PICK n : n = NextCheckpoint(tx)
  OBVIOUS
<1>3. SlotsInv' /\ AckedDurable'
  BY <1>1, <1>2, PublishKeepsSlots
<1>4. NextCheckpoint(tx)' = NextCheckpoint(tx) /\ NewCells(tx)' = NewCells(tx)
  <2>1. PICK t : t = tx
    OBVIOUS
  <2>2. NextCheckpoint(t)' = NextCheckpoint(t) /\ NewCells(t)' = NewCells(t)
    BY <1>1, SameVolume
  <2> QED
    BY <1>1, <2>1, <2>2
<1>5. MemoryInv'
  <2>1. checkpoint = sview[current_slot] /\ Valid(checkpoint)
    BY <1>1, SealedAnchor
  <2>2. current_slot \in Slot /\ 1 - current_slot \in Slot
        /\ 1 - current_slot # current_slot
    BY <1>0 DEF TypeOK, Slot
  <2>3. sview'[current_slot] = checkpoint /\ sview'[1 - current_slot] = NextCheckpoint(tx)
    BY <1>0, <1>1, <2>1, <2>2 DEF WriteSlot, TypeOK
  <2>4. acked.gen <= checkpoint.gen
    <3>1. checkpoint = acked \/ checkpoint.gen > acked.gen
      BY <1>0, <1>1, SealedAnchor DEF AckedDurable
    <3>2. checkpoint.gen \in Nat /\ acked.gen \in Nat
      BY <1>0 DEF TypeOK, Checkpoint
    <3> QED
      BY <3>1, <3>2
  <2> QED
    BY <1>1, <1>4, <2>1, <2>3, <2>4 DEF MemoryInv, InTransaction, Publishing, Valid, volume
<1>6. TransactionInv'
  BY <1>1, SameVolume DEF IInv, TransactionInv, InTransaction, Publishing
<1>7. WritesInv'
  BY <1>1, <1>4 DEF IInv, WritesInv, WriteSlot
<1> QED
  BY <1>0, <1>3, <1>5, <1>6, <1>7 DEF IInv

(* The commit barrier. *)
LEMMA FlushCheckpointStep ==
    ASSUME IInv, TypeOK', FlushCheckpoint
    PROVE  IInv'
<1>0. TypeOK /\ TypeOK' /\ AckedDurable
  BY DEF IInv
<1>1. /\ Flush /\ UNCHANGED <<volume, tx, acked>>
      /\ step = "published" /\ step' = "durable"
  BY DEF FlushCheckpoint
<1>2. SlotsInv' /\ Selectable' \subseteq Selectable
  BY <1>1, FlushKeepsSlots DEF IInv
<1>3. NextCheckpoint(tx)' = NextCheckpoint(tx) /\ NewCells(tx)' = NewCells(tx)
  <2>1. PICK t : t = tx
    OBVIOUS
  <2>2. NextCheckpoint(t)' = NextCheckpoint(t) /\ NewCells(t)' = NewCells(t)
    BY <1>1, SameVolume
  <2> QED
    BY <1>1, <2>1, <2>2
<1>4. MemoryInv'
  BY <1>1, <1>3 DEF IInv, MemoryInv, InTransaction, Publishing, Valid, Flush, volume
<1>5. TransactionInv'
  BY <1>1, SameVolume DEF IInv, TransactionInv, InTransaction, Publishing
<1>6. WritesInv'
  <2>1. \A x \in NewCells(tx) : may[x] = {tx.tag} /\ x \in Cell
    BY <1>0, <1>1, NextCheckpointType DEF IInv, WritesInv, TypeOK
  <2>2. \A x \in NewCells(tx) : may'[x] = {tx.tag}
    <3>1. \A x \in Cell : dirty[x] = 0 \/ dirty[x] \in may[x]
      BY DEF IInv, WritesInv
    <3> QED
      BY <1>1, <2>1, <3>1 DEF Flush
  <2> QED
    BY <1>1, <1>3, <2>2 DEF WritesInv, Flush
<1> QED
  BY <1>0, <1>1, <1>2, <1>4, <1>5, <1>6 DEF IInv, AckedDurable

(* The committed state becomes the remembered one. *)
LEMMA AdoptStep ==
    ASSUME IInv, TypeOK', Adopt
    PROVE  IInv'
<1>0. TypeOK /\ TypeOK' /\ AckedDurable
  BY DEF IInv
<1> DEFINE n == NextCheckpoint(tx)
<1>1. /\ UNCHANGED device /\ step = "durable" /\ step' = "idle"
      /\ checkpoint' = n /\ other_checkpoint' = checkpoint /\ acked' = n
      /\ current_slot' = 1 - current_slot
  BY DEF Adopt
<1>2. /\ checkpoint = sview[current_slot] /\ n = sview[1 - current_slot]
      /\ Valid(checkpoint) /\ smay = [s \in Slot |-> {sview[s]}]
  BY <1>1 DEF IInv, MemoryInv, Publishing
<1>3. current_slot \in Slot /\ 1 - current_slot \in Slot /\ checkpoint \in Checkpoint
  BY <1>0 DEF TypeOK, Slot
<1>4. Newer(n, checkpoint) /\ ~Newer(checkpoint, n)
  <2>1. n.gen = checkpoint.gen + 1
    BY DEF NextCheckpoint
  <2> QED
    BY <1>2, <1>3, <2>1 DEF Newer, Valid, Checkpoint
<1> HIDE DEF n
<1>5. SlotsInv' /\ Selectable' = Selectable
      /\ \A x \in Cell : dirty'[x] = 0 \/ dirty'[x] \in may'[x]
  BY <1>1, SameDevice
<1>6. Selectable = {n}
  BY <1>2, <1>3, <1>4 DEF Selectable, Slot
<1>7. MemoryInv'
  <2>1. 1 - current_slot' = current_slot /\ sview' = sview
    BY <1>1, <1>3 DEF Slot, device
  <2>2. Newer(checkpoint, other_checkpoint)'
    BY <1>1, <1>4 DEF Newer, Valid
  <2> QED
    BY <1>1, <1>2, <2>1, <2>2 DEF MemoryInv, InTransaction, Publishing
<1>8. TransactionInv' /\ WritesInv' /\ AckedDurable'
  BY <1>1, <1>5, <1>6 DEF TransactionInv, WritesInv, InTransaction, Publishing, AckedDurable
<1> QED
  BY <1>0, <1>5, <1>7, <1>8 DEF IInv

(* A failed publication leaves the successor, a torn slot or nothing. *)
LEMMA WriteCheckpointFailedStep ==
    ASSUME IInv, TypeOK', WriteCheckpointFailed
    PROVE  IInv'
<1>0. TypeOK /\ TypeOK' /\ AckedDurable
  BY DEF IInv
<1>1. step = "sealed" /\ step' = "idle" /\ window_poisoned' = TRUE /\ acked' = acked
  BY DEF WriteCheckpointFailed, Uncertain
<1>2. SlotsInv' /\ AckedDurable'
      /\ \A x \in Cell : dirty'[x] = 0 \/ dirty'[x] \in may'[x]
  <2>1. CASE UNCHANGED device
    BY <1>0, <1>1, <2>1, SameDevice DEF AckedDurable
  <2>2. ASSUME NEW c \in {NextCheckpoint(tx), NoCheckpoint}, WriteSlot(1 - current_slot, c)
        PROVE  SlotsInv' /\ AckedDurable'
               /\ \A x \in Cell : dirty'[x] = 0 \/ dirty'[x] \in may'[x]
    <3>1. SlotsInv' /\ AckedDurable'
      BY <1>1, <2>2, PublishKeepsSlots
    <3> QED
      BY <2>2, <3>1 DEF IInv, WritesInv, WriteSlot
  <2> QED
    BY <2>1, <2>2 DEF WriteCheckpointFailed
<1>3. MemoryInv' /\ TransactionInv' /\ WritesInv'
  BY <1>1, <1>2 DEF MemoryInv, TransactionInv, WritesInv, InTransaction, Publishing
<1> QED
  BY <1>0, <1>2, <1>3 DEF IInv

(* A failure after publication only poisons the volume. *)
LEMMA UncertainStep ==
    ASSUME IInv, TypeOK', FlushCheckpointFailed \/ AdoptFailed
    PROVE  IInv'
<1>0. TypeOK /\ TypeOK' /\ AckedDurable
  BY DEF IInv
<1>1. UNCHANGED device /\ step' = "idle" /\ window_poisoned' = TRUE /\ acked' = acked
  BY DEF FlushCheckpointFailed, AdoptFailed, Uncertain
<1>2. SlotsInv' /\ AckedDurable'
      /\ \A x \in Cell : dirty'[x] = 0 \/ dirty'[x] \in may'[x]
  BY <1>0, <1>1, SameDevice DEF AckedDurable
<1>3. MemoryInv' /\ TransactionInv' /\ WritesInv'
  BY <1>1, <1>2 DEF MemoryInv, TransactionInv, WritesInv, InTransaction, Publishing
<1> QED
  BY <1>0, <1>2, <1>3 DEF IInv

(* Stuttering. *)
LEMMA StutterStep ==
    ASSUME IInv, TypeOK', UNCHANGED vars
    PROVE  IInv'
<1>0. TypeOK /\ TypeOK' /\ AckedDurable
  BY DEF IInv
<1>1. UNCHANGED <<device, volume, step, window_poisoned, tx, acked>>
  BY DEF vars
<1>2. SlotsInv' /\ AckedDurable'
      /\ \A x \in Cell : dirty'[x] = 0 \/ dirty'[x] \in may'[x]
  BY <1>0, <1>1, SameDevice DEF AckedDurable
<1>3. NextCheckpoint(tx)' = NextCheckpoint(tx) /\ NewCells(tx)' = NewCells(tx)
  <2>1. PICK t : t = tx
    OBVIOUS
  <2>2. NextCheckpoint(t)' = NextCheckpoint(t) /\ NewCells(t)' = NewCells(t)
    BY <1>1, SameVolume
  <2> QED
    BY <1>1, <2>1, <2>2
<1>4. MemoryInv'
  BY <1>1, <1>3 DEF IInv, MemoryInv, InTransaction, Publishing, Newer, Valid, device, volume
<1>5. TransactionInv'
  BY <1>1, SameVolume DEF IInv, TransactionInv, InTransaction, Publishing
<1>6. WritesInv'
  BY <1>1, <1>2, <1>3 DEF IInv, WritesInv, Written, device
<1> QED
  BY <1>0, <1>2, <1>4, <1>5, <1>6 DEF IInv

(* Every step keeps the invariant. *)
LEMMA InvStep == IInv /\ [Next]_vars => IInv'
<1> SUFFICES ASSUME IInv, [Next]_vars PROVE IInv'
  OBVIOUS
<1>0. TypeOK'
  BY TypeStep DEF IInv
<1> QED
  BY <1>0, MountStep, UnmountStep, PowerCutStep, StageStep, OpenWindowStep,
     OpenWindowFailedStep, WriteDataStep, FlushDataStep, WriteMetaStep, FlushMetaStep,
     WriteFailedStep, FlushFailedStep, WriteCheckpointStep, FlushCheckpointStep,
     AdoptStep, WriteCheckpointFailedStep, UncertainStep, StutterStep DEF Next

(* mkfs establishes the invariant. *)
LEMMA InvInit == Init => IInv
<1> SUFFICES ASSUME Init PROVE IInv
  OBVIOUS
<1>0. TypeOK
  BY InitType
<1>1. PICK blocks \in SUBSET Block :
        /\ sview = [s \in Slot |-> IF s = 0 THEN Format(blocks) ELSE NoCheckpoint]
        /\ may = [c \in Cell |-> IF c \in Live(Format(blocks)) THEN {1} ELSE {0}]
        /\ acked = Format(blocks)
  BY DEF Init
<1>2. /\ step = "down" /\ smay = [s \in Slot |-> {sview[s]}]
      /\ dirty = [c \in Cell |-> 0]
  BY DEF Init
<1> DEFINE f == Format(blocks)
<1>3. /\ f.gen = 1 /\ \A x \in Cell : f.img[x] \in {0, 1}
      /\ WellFormed(f) /\ WellFormed(NoCheckpoint) /\ NoCheckpoint.gen = 0
  <2>1. \A p \in Page, s \in PageSlot : f.img[<<p, s>>] # 0 => s = f.pages[p]
    BY CellAssumption DEF Format, Cell, PageSlot
  <2> QED
    BY <2>1 DEF Format, WellFormed, NoCheckpoint, Cell
<1> HIDE DEF f
<1>4. Intact(f)
  BY <1>1, <1>3 DEF Intact, Live, f
<1>5. /\ sview[0] = f /\ sview[1] = NoCheckpoint
      /\ smay[0] = {f} /\ smay[1] = {NoCheckpoint}
  BY <1>1, <1>2 DEF Slot, f
<1>6. Anchor(0)
  BY <1>3, <1>4, <1>5 DEF Anchor, Valid, Faces
<1>7. SlotsInv
  BY <1>3, <1>5, <1>6 DEF SlotsInv, Slot
<1>8. AckedDurable
  BY <1>1, <1>3, <1>5 DEF AckedDurable, Selectable, Newer, Valid, f
<1>9. MemoryInv /\ TransactionInv /\ WritesInv
  BY <1>2 DEF MemoryInv, TransactionInv, WritesInv, InTransaction, Publishing
<1> QED
  BY <1>0, <1>7, <1>8, <1>9 DEF IInv

(* The inductive invariant: one settled slot anchors recovery at every step *)
(* of a commit, of a failed one, of a mount and of a power cut.             *)
THEOREM Invariance == Spec => []IInv
BY InvInit, InvStep, PTL DEF Spec

-----------------------------------------------------------------------------
(* The safety properties. *)

(* What mount may select: the anchor or the one successor beside it. *)
LEMMA SelectableIsAnchorOrNext ==
    ASSUME TypeOK, NEW s \in Slot, Anchor(s)
    PROVE  /\ \A c \in Selectable : \/ c = sview[s]
                                    \/ c = sview[1 - s] /\ c.gen = sview[s].gen + 1
                                       /\ Intact(c)
           /\ SelectionSucceeds
<1>1. 1 - s \in Slot /\ sview[s] \in Checkpoint /\ smay[1 - s] \subseteq Checkpoint
  BY DEF TypeOK, Slot
<1>2. \A d \in smay[1 - s] :
        \/ Newer(sview[s], d) /\ ~Newer(d, sview[s])
        \/ /\ d = sview[1 - s] /\ d.gen = sview[s].gen + 1 /\ Intact(d)
           /\ Newer(d, sview[s]) /\ ~Newer(sview[s], d)
  <2> SUFFICES ASSUME NEW d \in smay[1 - s]
               PROVE  \/ Newer(sview[s], d) /\ ~Newer(d, sview[s])
                      \/ /\ d = sview[1 - s] /\ d.gen = sview[s].gen + 1 /\ Intact(d)
                         /\ Newer(d, sview[s]) /\ ~Newer(sview[s], d)
    OBVIOUS
  <2>1. /\ Faces(d, sview[s]) /\ Valid(sview[s]) /\ d \in Checkpoint
        /\ d.gen = sview[s].gen + 1 => d = sview[1 - s]
    BY <1>1 DEF Anchor
  <2>2. sview[s].gen \in Nat /\ d.gen \in Nat
    BY <1>1, <2>1 DEF Checkpoint
  <2>3. NoCheckpoint.gen = 0
    BY DEF NoCheckpoint
  <2> QED
    BY <2>1, <2>2, <2>3 DEF Faces, Newer, Valid
<1>3. smay[s] = {sview[s]}
  BY DEF Anchor
<1> QED
  BY <1>1, <1>2, <1>3 DEF Selectable, SelectionSucceeds, Slot

(* The anchor makes selection succeed, and find an intact checkpoint that   *)
(* is not behind the last one acknowledged.                                 *)
LEMMA InvImpliesSafety == IInv => SelectedIntact /\ SelectionSucceeds /\ AckedDurable
<1> SUFFICES ASSUME IInv PROVE SelectedIntact /\ SelectionSucceeds /\ AckedDurable
  OBVIOUS
<1>1. PICK s \in Slot : Anchor(s)
  BY DEF IInv, SlotsInv
<1>2. Intact(sview[s]) /\ TypeOK
  BY <1>1 DEF Anchor, IInv
<1> QED
  BY <1>1, <1>2, SelectableIsAnchorOrNext DEF SelectedIntact, IInv

(* No step, abort, uncertain publication, remount or power cut overwrites a *)
(* cell of a checkpoint mount may select (commit_transaction_body).         *)
THEOREM SelectedIntactHolds == Spec => []SelectedIntact
BY Invariance, InvImpliesSafety, PTL

(* Whatever a power cut leaves, select_checkpoint finds a newest slot. *)
THEOREM SelectionSucceedsHolds == Spec => []SelectionSucceeds
BY Invariance, InvImpliesSafety, PTL

(* A commit that returned Ok is what recovery selects, or precedes it. *)
THEOREM AckedDurableHolds == Spec => []AckedDurable
BY Invariance, InvImpliesSafety, PTL

-----------------------------------------------------------------------------
(* The engine implements the atomic store. *)

(* A flush or a power cut decides for one selectable checkpoint. *)
LEMMA SettleIsAbstract ==
    ASSUME TypeOK', SlotsInv', NEW v, smay' = [s \in Slot |-> {v[s]}],
           Selectable' \subseteq Selectable, acked' = acked
    PROVE  Atomic!Settle
<1>1. PICK s \in Slot : Anchor(s)'
  BY DEF SlotsInv
<1>2. SelectionSucceeds'
  BY <1>1, SelectableIsAnchorOrNext, PTL
<1>3. Newer(v[0], v[1]) \/ Newer(v[1], v[0])
  BY <1>2 DEF SelectionSucceeds, Slot, Newer, Valid
<1>4. ~(Newer(v[0], v[1]) /\ Newer(v[1], v[0]))
  <2>1. v[0] \in Checkpoint /\ v[1] \in Checkpoint
    BY DEF TypeOK, Slot
  <2> QED
    BY <2>1 DEF Newer, Valid, Checkpoint
<1>5. Selectable' = {v[0]} \/ Selectable' = {v[1]}
  BY <1>3, <1>4 DEF Selectable, Slot, Newer, Valid
<1> QED
  BY <1>5 DEF Atomic!Settle

(* Publishing offers the successor, or nothing when the write was torn. *)
LEMMA PublishIsAbstract ==
    ASSUME IInv, step = "sealed", NEW c \in {NextCheckpoint(tx), NoCheckpoint},
           WriteSlot(1 - current_slot, c), acked' = acked
    PROVE  Atomic!Offer \/ UNCHANGED <<Selectable, acked>>
<1>1. current_slot \in Slot /\ 1 - current_slot \in Slot /\ 1 - current_slot # current_slot
  BY DEF IInv, TypeOK, Slot
<1>2. /\ smay[current_slot] = {checkpoint} /\ Valid(checkpoint)
      /\ smay[1 - current_slot] = {other_checkpoint} /\ Selectable = {checkpoint}
  BY SealedAnchor DEF Anchor
<1>3. NextCheckpoint(tx).gen = checkpoint.gen + 1 /\ NoCheckpoint.gen = 0
  BY DEF NextCheckpoint, NoCheckpoint
<1>4. checkpoint.gen \in Nat /\ other_checkpoint.gen \in Nat
  BY DEF IInv, TypeOK, Checkpoint
<1>5. /\ smay'[current_slot] = {checkpoint}
      /\ smay'[1 - current_slot] = {other_checkpoint, c, NoCheckpoint}
  BY <1>1, <1>2 DEF WriteSlot, IInv, TypeOK
<1>6. Newer(checkpoint, other_checkpoint) /\ Newer(checkpoint, NoCheckpoint)
      /\ ~Newer(other_checkpoint, checkpoint) /\ ~Newer(NoCheckpoint, checkpoint)
  <2>1. Newer(checkpoint, other_checkpoint)
    BY DEF IInv, MemoryInv, InTransaction
  <2> QED
    BY <1>3, <1>4, <2>1 DEF Newer, Valid
<1>7. Selectable' = {checkpoint} \cup {d \in {c} : Newer(d, checkpoint)}
  BY <1>1, <1>5, <1>6 DEF Selectable, Slot, Newer, Valid
<1>8. CASE c = NoCheckpoint
  BY <1>2, <1>6, <1>7, <1>8
<1>9. CASE c = NextCheckpoint(tx)
  <2>1. Newer(c, checkpoint)
    BY <1>2, <1>3, <1>4, <1>9 DEF Newer, Valid
  <2>2. Selectable' = {checkpoint, c}
    BY <1>7, <2>1
  <2> QED
    BY <1>2, <1>3, <1>9, <2>2 DEF Atomic!Offer
<1> QED
  BY <1>8, <1>9

(* Every step of the engine is a step of the atomic store, or a stutter.    *)
LEMMA StepIsAbstract ==
    ASSUME IInv, IInv', [Next]_vars
    PROVE  [Atomic!Next]_<<Selectable, acked>>
<1>1. CASE UNCHANGED <<device, acked>>
  BY <1>1, SameDevice
<1>2. ASSUME NEW S, NEW tag, WriteCells(S, tag), acked' = acked
      PROVE  UNCHANGED <<Selectable, acked>>
  BY <1>2 DEF WriteCells, Selectable, Newer, Valid
<1>3. CASE Flush /\ acked' = acked
  <2>1. Selectable' \subseteq Selectable /\ smay' = [s \in Slot |-> {sview[s]}]
    BY <1>3, FlushKeepsSlots DEF IInv, Flush
  <2>2. PICK v : v = sview
    OBVIOUS
  <2>3. Atomic!Settle
    BY <1>3, <2>1, <2>2, SettleIsAbstract DEF IInv
  <2> QED
    BY <2>3 DEF Atomic!Next
<1>4. CASE LosePower /\ acked' = acked
  <2>1. Selectable' \subseteq Selectable
    BY <1>4, LosePowerKeepsSlots DEF IInv
  <2>2. PICK a \in smay[0], b \in smay[1] :
          smay' = [s \in Slot |-> IF s = 0 THEN {a} ELSE {b}]
    BY <1>4 DEF LosePower
  <2>3. smay' = [s \in Slot |-> {[r \in Slot |-> IF r = 0 THEN a ELSE b][s]}]
    BY <2>2 DEF Slot
  <2>4. PICK v : v = [r \in Slot |-> IF r = 0 THEN a ELSE b]
    OBVIOUS
  <2>5. Atomic!Settle
    BY <1>4, <2>1, <2>3, <2>4, SettleIsAbstract DEF IInv
  <2> QED
    BY <2>5 DEF Atomic!Next
<1>5. CASE WriteCheckpoint
  <2>1. PICK n : n = NextCheckpoint(tx)
    OBVIOUS
  <2>2. Atomic!Offer \/ UNCHANGED <<Selectable, acked>>
    BY <1>5, <2>1, PublishIsAbstract DEF WriteCheckpoint
  <2> QED
    BY <2>2 DEF Atomic!Next
<1>6. CASE WriteCheckpointFailed
  <2>1. CASE UNCHANGED device
    BY <1>1, <1>6, <2>1 DEF WriteCheckpointFailed, Uncertain
  <2>2. CASE \E c \in {NextCheckpoint(tx), NoCheckpoint} : WriteSlot(1 - current_slot, c)
    <3>1. Atomic!Offer \/ UNCHANGED <<Selectable, acked>>
      BY <1>6, <2>2, PublishIsAbstract DEF WriteCheckpointFailed, Uncertain
    <3> QED
      BY <3>1 DEF Atomic!Next
  <2> QED
    BY <1>6, <2>1, <2>2 DEF WriteCheckpointFailed
<1>7. CASE Adopt
  <2>1. /\ UNCHANGED device /\ step = "durable" /\ acked' = NextCheckpoint(tx)
    BY <1>7 DEF Adopt
  <2>2. /\ checkpoint = sview[current_slot] /\ NextCheckpoint(tx) = sview[1 - current_slot]
        /\ Valid(checkpoint) /\ smay = [s \in Slot |-> {sview[s]}]
        /\ acked.gen <= checkpoint.gen
    BY <2>1 DEF IInv, MemoryInv, Publishing
  <2>3. /\ current_slot \in Slot /\ 1 - current_slot \in Slot
        /\ checkpoint.gen \in Nat /\ acked.gen \in Nat
    BY DEF IInv, TypeOK, Slot, Checkpoint
  <2>4. NextCheckpoint(tx).gen = checkpoint.gen + 1
    BY DEF NextCheckpoint
  <2>5. Newer(NextCheckpoint(tx), checkpoint) /\ ~Newer(checkpoint, NextCheckpoint(tx))
    BY <2>2, <2>3, <2>4 DEF Newer, Valid
  <2>6. Selectable = {NextCheckpoint(tx)} /\ Selectable' = Selectable
    BY <2>1, <2>2, <2>3, <2>5, SameDevice DEF Selectable, Slot
  <2>7. Atomic!Acknowledge
    BY <2>1, <2>2, <2>3, <2>4, <2>6 DEF Atomic!Acknowledge
  <2> QED
    BY <2>7 DEF Atomic!Next
<1>8. CASE \/ Mount \/ Unmount \/ Stage \/ FlushFailed
           \/ FlushCheckpointFailed \/ AdoptFailed \/ UNCHANGED vars
  BY <1>1, <1>8 DEF Mount, Unmount, Forget, Stage, FlushFailed, GiveUp,
     FlushCheckpointFailed, AdoptFailed, Uncertain, vars
<1>9. CASE OpenWindow \/ OpenWindowFailed \/ WriteData \/ WriteMeta \/ WriteFailed
  <2>1. acked' = acked /\ \E S, tag : WriteCells(S, tag)
    BY <1>9 DEF OpenWindow, OpenWindowFailed, WriteData, WriteMeta, WriteFailed, GiveUp
  <2> QED
    BY <1>2, <2>1
<1>10. CASE FlushData \/ FlushMeta \/ FlushCheckpoint
  BY <1>3, <1>10 DEF FlushData, FlushMeta, FlushCheckpoint
<1>11. CASE PowerCut
  BY <1>4, <1>11 DEF PowerCut, Forget
<1> QED
  BY <1>5, <1>6, <1>7, <1>8, <1>9, <1>10, <1>11 DEF Next

(* A formatted volume is an initial state of the atomic store.              *)
LEMMA InitIsAbstract == Init => Atomic!Init
<1> SUFFICES ASSUME Init PROVE Atomic!Init
  OBVIOUS
<1>1. PICK blocks \in SUBSET Block :
        /\ sview = [s \in Slot |-> IF s = 0 THEN Format(blocks) ELSE NoCheckpoint]
        /\ acked = Format(blocks)
  BY DEF Init
<1>2. smay = [s \in Slot |-> {sview[s]}]
  BY DEF Init
<1>3. smay[0] = {acked} /\ smay[1] = {NoCheckpoint}
  BY <1>1, <1>2 DEF Slot
<1>4. acked.gen = 1 /\ NoCheckpoint.gen = 0
  BY <1>1 DEF Format, NoCheckpoint
<1>5. Selectable = {acked}
  BY <1>3, <1>4 DEF Selectable, Newer, Valid
<1> QED
  BY <1>4, <1>5 DEF Atomic!Init

(* The engine implements AtomicCheckpoint: at most one publication is ever *)
(* uncertain, it succeeds the settled state, and commits that returned Ok  *)
(* are never undone (commit_transaction_body with mount_stages).           *)
THEOREM Refinement == Spec => ImplementsAtomic
<1>1. Init => Atomic!Init
  BY InitIsAbstract
<1>2. IInv /\ IInv' /\ [Next]_vars => [Atomic!Next]_<<Selectable, acked>>
  BY StepIsAbstract
<1> QED
  BY <1>1, <1>2, Invariance, PTL DEF Spec, ImplementsAtomic, Atomic!Spec

-----------------------------------------------------------------------------
(* The previous checkpoint. *)

(* Cells that no slot reaches may be written while the slots are settled.   *)
LEMMA WriteKeepsPrevious ==
    ASSUME IInv, PreviousInv, ~window_poisoned, UNCHANGED warm,
           NEW S, NEW tag, WriteCells(S, tag),
           \A s \in Slot : S \cap Live(sview[s]) = {}
    PROVE  ~warm' => Settled' /\ EveryIntact'
<1> SUFFICES ASSUME ~warm PROVE Settled' /\ EveryIntact'
  OBVIOUS
<1>1. Settled /\ EveryIntact
  BY DEF PreviousInv
<1>2. sview' = sview /\ smay' = smay
  BY DEF WriteCells
<1>3. \A s \in Slot : smay[s] = {sview[s]} /\ Intact(sview[s])
  BY <1>1 DEF Settled, EveryIntact
<1>4. ASSUME NEW s \in Slot PROVE \A c \in smay'[s] : Intact(c)'
  <2>1. PICK c : c = sview[s]
    OBVIOUS
  <2>2. Intact(c)'
    BY <1>3, <2>1, WriteKeepsIntact
  <2> QED
    BY <1>2, <1>3, <2>1, <2>2
<1> QED
  BY <1>1, <1>2, <1>4 DEF Settled, EveryIntact

(* A barrier settles the slots and undoes nothing that was intact.          *)
LEMMA FlushKeepsPrevious ==
    ASSUME IInv, PreviousInv, UNCHANGED warm, Flush
    PROVE  ~warm' => Settled' /\ EveryIntact'
<1> SUFFICES ASSUME ~warm PROVE Settled' /\ EveryIntact'
  OBVIOUS
<1>1. sview' = sview /\ smay' = [s \in Slot |-> {sview[s]}]
  BY DEF Flush
<1>2. \A s \in Slot : sview[s] \in smay[s]
  BY ViewPossible DEF IInv
<1>3. ASSUME NEW s \in Slot PROVE \A c \in smay'[s] : Intact(c)'
  <2>1. PICK c : c = sview[s]
    OBVIOUS
  <2>2. Intact(c)
    BY <1>2, <2>1 DEF PreviousInv, EveryIntact
  <2>3. Intact(c)'
    BY <2>2, FlushKeepsIntact DEF IInv
  <2> QED
    BY <1>1, <2>1, <2>3
<1> QED
  BY <1>1, <1>3 DEF Settled, EveryIntact

(* A power cut leaves each slot one of its possible contents.               *)
LEMMA LosePowerKeepsPrevious ==
    ASSUME PreviousInv, UNCHANGED warm, LosePower
    PROVE  ~warm' => Settled' /\ EveryIntact'
<1> SUFFICES ASSUME ~warm PROVE Settled' /\ EveryIntact'
  OBVIOUS
<1>1. PICK a \in smay[0], b \in smay[1] :
        /\ sview' = [s \in Slot |-> IF s = 0 THEN a ELSE b]
        /\ smay' = [s \in Slot |-> IF s = 0 THEN {a} ELSE {b}]
  BY DEF LosePower
<1>2. Settled'
  BY <1>1 DEF Settled, Slot
<1>3. Intact(a) /\ Intact(b)
  BY <1>1 DEF PreviousInv, EveryIntact, Slot
<1>4. may' = may
  BY DEF LosePower
<1>5. \A c : Intact(c) => Intact(c)'
  BY <1>4 DEF Intact, Live
<1>6. smay'[0] = {a} /\ smay'[1] = {b} /\ Intact(a)' /\ Intact(b)'
  BY <1>1, <1>3, <1>5 DEF Slot
<1> QED
  BY <1>2, <1>6 DEF EveryIntact, Slot

(* What is written to a checkpoint slot is complete, or nothing.            *)
LEMMA PublishKeepsPrevious ==
    ASSUME IInv, PreviousInv, UNCHANGED warm, step = "sealed",
           NEW c \in {NextCheckpoint(tx), NoCheckpoint}, WriteSlot(1 - current_slot, c)
    PROVE  ~warm' => EveryIntact'
<1> SUFFICES ASSUME ~warm PROVE EveryIntact'
  OBVIOUS
<1>1. Intact(NextCheckpoint(tx))
  BY NextIsGood
<1>2. Intact(NoCheckpoint)
  BY DEF Intact, Live, NoCheckpoint
<1>3. /\ may' = may
      /\ smay' = [smay EXCEPT ![1 - current_slot] = @ \cup {c, NoCheckpoint}]
  BY DEF WriteSlot
<1>4. smay \in [Slot -> SUBSET Checkpoint]
  BY DEF IInv, TypeOK
<1>5. \A d : Intact(d) => Intact(d)'
  BY <1>3 DEF Intact, Live
<1>6. \A s \in Slot : smay'[s] \subseteq smay[s] \cup {c, NoCheckpoint}
  BY <1>3, <1>4
<1>7. \A s \in Slot : \A d \in smay[s] : Intact(d)
  BY DEF PreviousInv, EveryIntact
<1> QED
  BY <1>1, <1>2, <1>5, <1>6, <1>7 DEF EveryIntact

(* Every step keeps the previous checkpoint's part of the invariant.        *)
LEMMA PreviousStep == IInv /\ PreviousInv /\ [Next]_vars => PreviousInv'
<1> SUFFICES ASSUME IInv, PreviousInv, [Next]_vars PROVE PreviousInv'
  OBVIOUS
<1>1. CASE Unmount
  <2>1. /\ UNCHANGED device /\ ~window_poisoned'
        /\ ~warm' => ~warm /\ ~window_poisoned
    BY <1>1 DEF Unmount, Forget
  <2> QED
    BY <2>1 DEF PreviousInv, Settled, EveryIntact, Intact, device, Slot
<1>2. CASE UNCHANGED vars
  BY <1>2 DEF vars, PreviousInv, InTransaction, Settled, EveryIntact, Intact, device
<1> SUFFICES ASSUME UNCHANGED warm, Next, ~Unmount PROVE PreviousInv'
  BY <1>1, <1>2 DEF Next
<1>3. CASE Mount \/ Stage \/ FlushFailed \/ FlushCheckpointFailed \/ AdoptFailed \/ Adopt
  <2>1. UNCHANGED device
    BY <1>3 DEF Mount, Stage, FlushFailed, FlushCheckpointFailed, AdoptFailed, Adopt
  <2>2. step' = "down" \/ InTransaction' => ~window_poisoned'
    BY <1>3 DEF Mount, Stage, Begin, FlushFailed, GiveUp, FlushCheckpointFailed, AdoptFailed,
                Uncertain, Adopt, InTransaction
  <2>3. ~warm /\ ~window_poisoned' => Settled
    <3>1. CASE Adopt
      BY <3>1 DEF Adopt, IInv, MemoryInv, Settled
    <3>2. CASE ~Adopt
      BY <1>3, <3>2 DEF Mount, Stage, Begin, FlushFailed, FlushCheckpointFailed,
                AdoptFailed, Uncertain, PreviousInv, InTransaction
    <3> QED
      BY <3>1, <3>2
  <2> QED
    BY <2>1, <2>2, <2>3 DEF PreviousInv, Settled, EveryIntact, Intact, device
<1>4. CASE OpenWindow \/ OpenWindowFailed
  <2>1. /\ step = "idle" /\ ~window_poisoned
        /\ \/ step' = "ready" /\ window_poisoned' = window_poisoned
           \/ step' = "idle" /\ window_poisoned' = TRUE
    BY <1>4 DEF OpenWindow, OpenWindowFailed, Begin
  <2>2. /\ checkpoint = sview[current_slot] /\ other_checkpoint = sview[1 - current_slot]
        /\ Newer(checkpoint, other_checkpoint)
    BY <2>1 DEF IInv, MemoryInv
  <2>3. PICK S : S \subseteq Free(checkpoint) /\ WriteCells(S, txn + 1)
    <3>1. CASE OpenWindow
      <4>1. /\ Begin(TRUE, {}) /\ {} \in SUBSET Block /\ TypeOK
            /\ WriteCells(tx'.data, txn + 1)
        BY <3>1 DEF OpenWindow, IInv
      <4>2. tx'.data \cup tx'.meta \subseteq Free(checkpoint) \cup {}
        BY <4>1, BeginType
      <4> QED
        BY <4>1, <4>2
    <3>2. CASE OpenWindowFailed
      BY <3>2 DEF OpenWindowFailed
    <3> QED
      BY <1>4, <3>1, <3>2
  <2>4. \A s \in Slot : S \cap Live(sview[s]) = {}
    BY <2>2, <2>3, FreshCells DEF IInv
  <2>5. PICK tag : tag = txn + 1
    OBVIOUS
  <2>6. ~warm' => Settled' /\ EveryIntact'
    BY <2>1, <2>3, <2>4, <2>5, WriteKeepsPrevious
  <2> QED
    BY <2>1, <2>6 DEF PreviousInv, InTransaction
<1>5. CASE WriteData \/ WriteMeta \/ WriteFailed
  <2>1. /\ InTransaction /\ ~window_poisoned
        /\ \/ step' \in {"data", "ready", "meta"} /\ window_poisoned' = window_poisoned
           \/ step' = "idle"
    BY <1>5 DEF WriteData, WriteMeta, WriteFailed, GiveUp, InTransaction, PreviousInv
  <2>2. PICK S \in SUBSET NewCells(tx) : WriteCells(S, tx.tag)
    BY <1>5 DEF WriteData, WriteMeta, WriteFailed, NewCells
  <2>3. \A s \in Slot : S \cap Live(sview[s]) = {}
    BY <2>1, <2>2, TxCellsFresh
  <2>4. PICK tag : tag = tx.tag
    OBVIOUS
  <2>5. ~warm' => Settled' /\ EveryIntact'
    BY <2>1, <2>2, <2>3, <2>4, WriteKeepsPrevious
  <2> QED
    BY <2>1, <2>5 DEF PreviousInv, InTransaction
<1>6. CASE FlushData \/ FlushMeta \/ FlushCheckpoint
  <2>1. /\ Flush /\ window_poisoned' = window_poisoned
        /\ \/ InTransaction /\ step' \in {"ready", "sealed"}
           \/ step' = "durable"
    BY <1>6 DEF FlushData, FlushMeta, FlushCheckpoint, InTransaction
  <2> QED
    BY <2>1, FlushKeepsPrevious DEF PreviousInv, InTransaction
<1>7. CASE WriteCheckpoint
  <2>1. PICK c : c = NextCheckpoint(tx)
    OBVIOUS
  <2>2. ~warm' => EveryIntact'
    BY <1>7, <2>1, PublishKeepsPrevious DEF WriteCheckpoint
  <2> QED
    BY <1>7, <2>2 DEF WriteCheckpoint, PreviousInv, InTransaction
<1>8. CASE WriteCheckpointFailed
  <2>1. ~warm' => EveryIntact'
    <3>1. CASE UNCHANGED device
      BY <3>1 DEF device, PreviousInv, EveryIntact, Intact
    <3>2. CASE \E c \in {NextCheckpoint(tx), NoCheckpoint} : WriteSlot(1 - current_slot, c)
      BY <1>8, <3>2, PublishKeepsPrevious DEF WriteCheckpointFailed
    <3> QED
      BY <1>8, <3>1, <3>2 DEF WriteCheckpointFailed
  <2> QED
    BY <1>8, <2>1 DEF WriteCheckpointFailed, Uncertain, PreviousInv, InTransaction
<1>9. CASE PowerCut
  BY <1>9, LosePowerKeepsPrevious DEF PowerCut, Forget, PreviousInv
<1> QED
  BY <1>3, <1>4, <1>5, <1>6, <1>7, <1>8, <1>9 DEF Next

(* A formatted volume has one checkpoint, and it is complete.               *)
LEMMA PreviousInit == Init => PreviousInv
<1> SUFFICES ASSUME Init PROVE PreviousInv
  OBVIOUS
<1>1. PICK blocks \in SUBSET Block :
        /\ sview = [s \in Slot |-> IF s = 0 THEN Format(blocks) ELSE NoCheckpoint]
        /\ may = [c \in Cell |-> IF c \in Live(Format(blocks)) THEN {1} ELSE {0}]
  BY DEF Init
<1>2. smay = [s \in Slot |-> {sview[s]}] /\ ~window_poisoned
  BY DEF Init
<1>3. Intact(Format(blocks))
  BY <1>1 DEF Intact, Live, Format
<1>4. Intact(NoCheckpoint)
  BY DEF Intact, Live, NoCheckpoint
<1> QED
  BY <1>1, <1>2, <1>3, <1>4 DEF PreviousInv, Settled, EveryIntact, Slot

(* ADR-074: as long as no volume with an uncertain publication is mounted  *)
(* again warm, the previous checkpoint is as complete as the current one.  *)
THEOREM PreviousIntactHolds == Spec => []PreviousIntact
<1>1. PreviousInv => PreviousIntact
  BY DEF PreviousInv, PreviousIntact
<1> QED
  BY <1>1, Invariance, PreviousInit, PreviousStep, PTL DEF Spec
=============================================================================
