----------------------- MODULE CheckpointSteps_proofs -----------------------
(***************************************************************************)
(* The steps of a transaction up to its publication keep the invariant of  *)
(* CheckpointCommit: they write only what no slot reaches.                 *)
(***************************************************************************)
EXTENDS CheckpointSlots_proofs

-----------------------------------------------------------------------------
(* The invariant is inductive. *)

(* What a transaction will write and publish is fixed while the volume's   *)
(* memory of the slots is.                                                 *)
LEMMA SameVolume ==
    ASSUME UNCHANGED volume, NEW t
    PROVE  /\ NextCheckpoint(t)' = NextCheckpoint(t) /\ NewCells(t)' = NewCells(t)
           /\ Promotable' = Promotable /\ Free(checkpoint)' = Free(checkpoint)
           /\ Live(checkpoint)' = Live(checkpoint)
<1>1. checkpoint' = checkpoint /\ other_checkpoint' = other_checkpoint
  BY DEF volume
<1>2. \A p : ChooseSlot(p)' = ChooseSlot(p)
  BY <1>1 DEF ChooseSlot, Unused, Valid
<1>3. PageCells(t)' = PageCells(t) /\ OldPageCells(t)' = OldPageCells(t)
  BY <1>1, <1>2 DEF PageCells, OldPageCells, DirtyPages
<1>4. NewCells(t)' = NewCells(t)
  BY <1>3 DEF NewCells
<1>5. NextCheckpoint(t)' = NextCheckpoint(t)
  BY <1>1, <1>2, <1>3, <1>4 DEF NextCheckpoint, DirtyPages
<1> QED
  BY <1>1, <1>4, <1>5 DEF Promotable, Free, Live, Quarantined, OldestProtected, Valid

(* Nothing a transaction writes is reached by either slot. *)
LEMMA TxCellsFresh ==
    ASSUME IInv, InTransaction
    PROVE  \A s \in Slot : NewCells(tx) \cap Live(sview[s]) = {}
<1>1. /\ checkpoint = sview[current_slot] /\ other_checkpoint = sview[1 - current_slot]
      /\ Newer(checkpoint, other_checkpoint)
  BY DEF IInv, MemoryInv
<1>2. /\ \A s \in Slot : \A b \in Free(checkpoint) \cup Promotable : b \notin Live(sview[s])
      /\ \A s \in Slot : \A p \in Page : <<p, ChooseSlot(p)>> \notin Live(sview[s])
  BY <1>1, FreshCells DEF IInv
<1>3. tx.data \cup tx.meta \subseteq Free(checkpoint) \cup Promotable
  BY DEF IInv, TransactionInv
<1>4. DirtyPages(tx) \subseteq Page
  BY NextCheckpointType DEF IInv, TypeOK
<1> QED
  BY <1>2, <1>3, <1>4 DEF NewCells, PageCells

(* Steps that leave the device alone leave the slots as good as they were. *)
LEMMA SameDevice ==
    ASSUME IInv, UNCHANGED device
    PROVE  /\ SlotsInv' /\ Selectable' = Selectable
           /\ \A x \in Cell : dirty'[x] = 0 \/ dirty'[x] \in may'[x]
BY DEF IInv, device, SlotsInv, Anchor, Faces, Follows, WellFormed, Intact, Live, Valid,
       Selectable, Newer, WritesInv

(* A write of cells no slot reaches keeps the device's part. *)
LEMMA FreshWrite ==
    ASSUME IInv, NEW S, NEW tag, WriteCells(S, tag),
           \A s \in Slot : S \cap Live(sview[s]) = {}
    PROVE  /\ SlotsInv' /\ Selectable' = Selectable
           /\ \A x \in Cell : dirty'[x] = 0 \/ dirty'[x] \in may'[x]
<1>1. SlotsInv'
  BY WriteKeepsSlots DEF IInv
<1>2. Selectable' = Selectable
  BY DEF WriteCells, Selectable, Newer, Valid
<1>3. \A x \in Cell : dirty'[x] = 0 \/ dirty'[x] \in may'[x]
  BY DEF WriteCells, IInv, WritesInv
<1> QED
  BY <1>1, <1>2, <1>3

(* Staging takes only free and promotable blocks. *)
LEMMA StageStep ==
    ASSUME IInv, TypeOK', Stage
    PROVE  IInv'
<1>0. TypeOK /\ TypeOK' /\ AckedDurable
  BY DEF IInv
<1>1. PICK promoted \in SUBSET Promotable : Begin(FALSE, promoted)
  BY DEF Stage
<1>2. promoted \in SUBSET Block
  BY <1>1 DEF Promotable, Quarantined
<1>3. /\ tx'.tag = txn + 1 /\ tx'.promoted = promoted
      /\ tx'.data \cup tx'.meta \subseteq Free(checkpoint) \cup promoted
      /\ tx'.retired \subseteq Live(checkpoint) \cap Block
  BY <1>0, <1>1, <1>2, BeginType
<1>4. /\ UNCHANGED device /\ UNCHANGED volume /\ step' = "staged" /\ acked' = acked
      /\ step = "idle" /\ ~window_poisoned
  BY DEF Stage, Begin
<1>5. SlotsInv' /\ AckedDurable'
  BY <1>0, <1>4, SameDevice DEF AckedDurable
<1>6. MemoryInv'
  BY <1>4 DEF IInv, MemoryInv, InTransaction, Publishing, Newer, Valid, device, volume
<1>7. TransactionInv'
  <2>1. Promotable' = Promotable /\ Free(checkpoint)' = Free(checkpoint)
        /\ Live(checkpoint)' = Live(checkpoint)
    BY <1>4, SameVolume
  <2>2. tx'.tag # 0
    BY <1>0, <1>3 DEF TypeOK
  <2> QED
    BY <1>1, <1>3, <2>1, <2>2 DEF TransactionInv
<1>8. WritesInv'
  BY <1>4, SameDevice DEF WritesInv
<1> QED
  BY <1>0, <1>5, <1>6, <1>7, <1>8 DEF IInv

(* A window writes its data into free blocks. *)
LEMMA OpenWindowStep ==
    ASSUME IInv, TypeOK', OpenWindow
    PROVE  IInv'
<1>0. TypeOK /\ TypeOK' /\ AckedDurable
  BY DEF IInv
<1>1. /\ tx'.tag = txn + 1 /\ tx'.promoted = {}
      /\ tx'.data \cup tx'.meta \subseteq Free(checkpoint)
      /\ tx'.retired \subseteq Live(checkpoint) \cap Block
      /\ tx'.data \subseteq Cell
  <2>1. Begin(TRUE, {}) /\ {} \in SUBSET Block
    BY DEF OpenWindow
  <2>2. /\ tx'.tag = txn + 1 /\ tx'.promoted = {}
        /\ tx'.data \cup tx'.meta \subseteq Free(checkpoint) \cup {}
        /\ tx'.retired \subseteq Live(checkpoint) \cap Block
    BY <1>0, <2>1, BeginType
  <2> QED
    BY <2>2 DEF Free, Cell
<1>2. /\ WriteCells(tx'.data, txn + 1) /\ UNCHANGED volume /\ step' = "ready"
      /\ acked' = acked /\ step = "idle" /\ ~window_poisoned
  BY DEF OpenWindow, Begin
<1>3. /\ checkpoint = sview[current_slot] /\ other_checkpoint = sview[1 - current_slot]
      /\ Newer(checkpoint, other_checkpoint)
  BY <1>2 DEF IInv, MemoryInv
<1>4. \A s \in Slot : tx'.data \cap Live(sview[s]) = {}
  BY <1>1, <1>3, FreshCells DEF IInv
<1>5. /\ SlotsInv' /\ Selectable' = Selectable
      /\ \A x \in Cell : dirty'[x] = 0 \/ dirty'[x] \in may'[x]
  <2>1. PICK S : S = tx'.data
    OBVIOUS
  <2>2. PICK tag : tag = txn + 1
    OBVIOUS
  <2> QED
    BY <1>2, <1>4, <2>1, <2>2, FreshWrite
<1>6. MemoryInv'
  BY <1>2, <1>3 DEF MemoryInv, InTransaction, Publishing, Newer, Valid, WriteCells, volume
<1>7. TransactionInv'
  <2>1. Promotable' = Promotable /\ Free(checkpoint)' = Free(checkpoint)
        /\ Live(checkpoint)' = Live(checkpoint)
    BY <1>2, SameVolume
  <2>2. tx'.tag # 0
    BY <1>0, <1>1 DEF TypeOK
  <2> QED
    BY <1>1, <2>1, <2>2 DEF TransactionInv
<1>8. WritesInv'
  <2>1. \A x \in tx'.data : dirty'[x] = tx'.tag
    BY <1>1, <1>2 DEF WriteCells
  <2> QED
    BY <1>2, <1>5, <2>1 DEF WritesInv, Written
<1> QED
  BY <1>0, <1>2, <1>5, <1>6, <1>7, <1>8 DEF IInv, AckedDurable

(* So does a window that fails, which poisons the volume. *)
LEMMA OpenWindowFailedStep ==
    ASSUME IInv, TypeOK', OpenWindowFailed
    PROVE  IInv'
<1>0. TypeOK /\ TypeOK' /\ AckedDurable
  BY DEF IInv
<1>1. PICK S \in SUBSET Free(checkpoint) : WriteCells(S, txn + 1)
  BY DEF OpenWindowFailed
<1>2. /\ UNCHANGED volume /\ step' = "idle" /\ window_poisoned' = TRUE
      /\ acked' = acked /\ step = "idle" /\ ~window_poisoned
  BY DEF OpenWindowFailed
<1>3. \A s \in Slot : S \cap Live(sview[s]) = {}
  BY <1>1, <1>2, FreshCells DEF IInv, MemoryInv
<1>4. PICK tag : tag = txn + 1
  OBVIOUS
<1>5. /\ SlotsInv' /\ Selectable' = Selectable
      /\ \A x \in Cell : dirty'[x] = 0 \/ dirty'[x] \in may'[x]
  BY <1>1, <1>3, <1>4, FreshWrite
<1>6. MemoryInv' /\ TransactionInv' /\ WritesInv'
  BY <1>2, <1>5 DEF MemoryInv, TransactionInv, WritesInv, InTransaction, Publishing
<1> QED
  BY <1>0, <1>2, <1>5, <1>6 DEF IInv, AckedDurable

(* Data goes to cells no slot reaches. *)
LEMMA WriteDataStep ==
    ASSUME IInv, TypeOK', WriteData
    PROVE  IInv'
<1>0. TypeOK /\ TypeOK' /\ AckedDurable
  BY DEF IInv
<1>1. /\ WriteCells(tx.data, tx.tag) /\ UNCHANGED <<volume, window_poisoned, tx, acked>>
      /\ step = "staged" /\ step' \in {"ready", "data"}
  BY DEF WriteData
<1>2. \A s \in Slot : tx.data \cap Live(sview[s]) = {}
  BY <1>1, TxCellsFresh DEF InTransaction, NewCells
<1>3. PICK S, tag : S = tx.data /\ tag = tx.tag
  OBVIOUS
<1>4. /\ SlotsInv' /\ Selectable' = Selectable
      /\ \A x \in Cell : dirty'[x] = 0 \/ dirty'[x] \in may'[x]
  BY <1>1, <1>2, <1>3, FreshWrite
<1>5. MemoryInv'
  BY <1>1 DEF IInv, MemoryInv, InTransaction, Publishing, Newer, Valid, WriteCells, volume
<1>6. TransactionInv'
  BY <1>1, SameVolume DEF IInv, TransactionInv, InTransaction, Publishing
<1>7. WritesInv'
  <2>1. tx.data \subseteq Cell
    BY <1>0 DEF TypeOK, Transaction, Cell
  <2>2. \A x \in tx.data : dirty'[x] = tx.tag
    BY <1>1, <2>1 DEF WriteCells
  <2> QED
    BY <1>1, <1>4, <2>2 DEF WritesInv, Written
<1> QED
  BY <1>0, <1>1, <1>4, <1>5, <1>6, <1>7 DEF IInv, AckedDurable

(* The data barrier. *)
LEMMA FlushDataStep ==
    ASSUME IInv, TypeOK', FlushData
    PROVE  IInv'
<1>0. TypeOK /\ TypeOK' /\ AckedDurable
  BY DEF IInv
<1>1. /\ Flush /\ UNCHANGED <<volume, window_poisoned, tx, acked>>
      /\ step = "data" /\ step' = "ready"
  BY DEF FlushData
<1>2. SlotsInv' /\ Selectable' \subseteq Selectable
  BY <1>1, FlushKeepsSlots DEF IInv
<1>3. MemoryInv'
  BY <1>1 DEF IInv, MemoryInv, InTransaction, Publishing, Newer, Valid, Flush, volume
<1>4. TransactionInv'
  BY <1>1, SameVolume DEF IInv, TransactionInv, InTransaction, Publishing
<1>5. WritesInv'
  <2>1. \A x \in tx.data : Written(x) /\ x \in Cell
    BY <1>0, <1>1 DEF IInv, WritesInv, TypeOK, Transaction, Cell
  <2>2. \A x \in tx.data : dirty'[x] = 0 /\ may'[x] = {tx.tag}
    <3>1. tx.tag # 0
      BY <1>1 DEF IInv, TransactionInv, InTransaction
    <3> QED
      BY <1>1, <2>1, <3>1 DEF Flush, Written
  <2> QED
    BY <1>1, <2>2 DEF WritesInv, Written, Flush
<1> QED
  BY <1>0, <1>1, <1>2, <1>3, <1>4, <1>5 DEF IInv, AckedDurable

(* Metadata goes to cells no slot reaches. *)
LEMMA WriteMetaStep ==
    ASSUME IInv, TypeOK', WriteMeta
    PROVE  IInv'
<1>0. TypeOK /\ TypeOK' /\ AckedDurable
  BY DEF IInv
<1>1. /\ WriteCells(tx.meta \cup PageCells(tx), tx.tag)
      /\ UNCHANGED <<volume, window_poisoned, tx, acked>>
      /\ step = "ready" /\ step' = "meta"
  BY DEF WriteMeta
<1>2. \A s \in Slot : (tx.meta \cup PageCells(tx)) \cap Live(sview[s]) = {}
  BY <1>1, TxCellsFresh DEF InTransaction, NewCells
<1>3. PICK S, tag : S = tx.meta \cup PageCells(tx) /\ tag = tx.tag
  OBVIOUS
<1>4. /\ SlotsInv' /\ Selectable' = Selectable
      /\ \A x \in Cell : dirty'[x] = 0 \/ dirty'[x] \in may'[x]
  BY <1>1, <1>2, <1>3, FreshWrite
<1>5. MemoryInv'
  BY <1>1 DEF IInv, MemoryInv, InTransaction, Publishing, Newer, Valid, WriteCells, volume
<1>6. TransactionInv'
  BY <1>1, SameVolume DEF IInv, TransactionInv, InTransaction, Publishing
<1>7. WritesInv'
  <2>1. NewCells(tx)' = NewCells(tx)
    <3>1. PICK t : t = tx
      OBVIOUS
    <3>2. NewCells(t)' = NewCells(t)
      BY <1>1, SameVolume
    <3> QED
      BY <1>1, <3>1, <3>2
  <2>2. NewCells(tx) \subseteq Cell
    BY <1>0, NextCheckpointType DEF TypeOK
  <2>3. \A x \in tx.data : Written(x)
    BY <1>1 DEF IInv, WritesInv
  <2>4. \A x \in NewCells(tx) : dirty'[x] = tx.tag
                                \/ (dirty'[x] = dirty[x] /\ may'[x] = may[x] /\ Written(x))
    BY <1>1, <2>2, <2>3 DEF NewCells, WriteCells
  <2> QED
    BY <1>1, <1>4, <2>1, <2>4 DEF WritesInv, Written
<1> QED
  BY <1>0, <1>1, <1>4, <1>5, <1>6, <1>7 DEF IInv, AckedDurable

(* The metadata barrier settles the slots and the new content. *)
LEMMA FlushMetaStep ==
    ASSUME IInv, TypeOK', FlushMeta
    PROVE  IInv'
<1>0. TypeOK /\ TypeOK' /\ AckedDurable
  BY DEF IInv
<1>1. /\ Flush /\ UNCHANGED <<volume, window_poisoned, tx, acked>>
      /\ step = "meta" /\ step' = "sealed"
  BY DEF FlushMeta
<1>2. SlotsInv' /\ Selectable' \subseteq Selectable
  BY <1>1, FlushKeepsSlots DEF IInv
<1>3. MemoryInv'
  BY <1>1 DEF IInv, MemoryInv, InTransaction, Publishing, Newer, Valid, Flush, volume
<1>4. TransactionInv'
  BY <1>1, SameVolume DEF IInv, TransactionInv, InTransaction, Publishing
<1>5. WritesInv'
  <2>1. NewCells(tx)' = NewCells(tx)
    <3>1. PICK t : t = tx
      OBVIOUS
    <3>2. NewCells(t)' = NewCells(t)
      BY <1>1, SameVolume
    <3> QED
      BY <1>1, <3>1, <3>2
  <2>2. \A x \in NewCells(tx) : Written(x) /\ x \in Cell
    BY <1>0, <1>1, NextCheckpointType DEF IInv, WritesInv, TypeOK
  <2>3. \A x \in NewCells(tx) : may'[x] = {tx.tag}
    <3>1. tx.tag # 0
      BY <1>1 DEF IInv, TransactionInv, InTransaction
    <3> QED
      BY <1>1, <2>2, <3>1 DEF Flush, Written
  <2> QED
    BY <1>1, <2>1, <2>3 DEF WritesInv, Flush
<1> QED
  BY <1>0, <1>1, <1>2, <1>3, <1>4, <1>5 DEF IInv, AckedDurable

(* A failed write has written nothing a slot reaches. *)
LEMMA WriteFailedStep ==
    ASSUME IInv, TypeOK', WriteFailed
    PROVE  IInv'
<1>0. TypeOK /\ TypeOK' /\ AckedDurable
  BY DEF IInv
<1>1. PICK S \in SUBSET NewCells(tx) : WriteCells(S, tx.tag)
  BY DEF WriteFailed, NewCells
<1>2. /\ step \in {"staged", "ready"} /\ step' = "idle"
      /\ UNCHANGED <<volume, acked>>
  BY DEF WriteFailed, GiveUp
<1>3. \A s \in Slot : S \cap Live(sview[s]) = {}
  BY <1>1, <1>2, TxCellsFresh DEF InTransaction
<1>4. PICK tag : tag = tx.tag
  OBVIOUS
<1>5. /\ SlotsInv' /\ Selectable' = Selectable
      /\ \A x \in Cell : dirty'[x] = 0 \/ dirty'[x] \in may'[x]
  BY <1>1, <1>3, <1>4, FreshWrite
<1>6. MemoryInv'
  BY <1>1, <1>2
     DEF IInv, MemoryInv, InTransaction, Publishing, Newer, Valid, WriteCells, volume
<1>7. TransactionInv' /\ WritesInv'
  BY <1>2, <1>5 DEF TransactionInv, WritesInv, InTransaction, Publishing
<1> QED
  BY <1>0, <1>2, <1>5, <1>6, <1>7 DEF IInv, AckedDurable

(* A failed flush before publication changes nothing. *)
LEMMA FlushFailedStep ==
    ASSUME IInv, TypeOK', FlushFailed
    PROVE  IInv'
<1>0. TypeOK /\ TypeOK' /\ AckedDurable
  BY DEF IInv
<1>1. /\ step \in {"data", "meta"} /\ step' = "idle"
      /\ UNCHANGED <<device, volume, acked>>
  BY DEF FlushFailed, GiveUp
<1>2. /\ SlotsInv' /\ Selectable' = Selectable
      /\ \A x \in Cell : dirty'[x] = 0 \/ dirty'[x] \in may'[x]
  BY <1>1, SameDevice
<1>3. MemoryInv'
  BY <1>1 DEF IInv, MemoryInv, InTransaction, Publishing, Newer, Valid, device, volume
<1>4. TransactionInv' /\ WritesInv'
  BY <1>1, <1>2 DEF TransactionInv, WritesInv, InTransaction, Publishing
<1> QED
  BY <1>0, <1>1, <1>2, <1>3, <1>4 DEF IInv, AckedDurable
=============================================================================
