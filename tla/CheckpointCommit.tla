-------------------------- MODULE CheckpointCommit --------------------------
(***************************************************************************)
(* The transaction engine of crates/afsplus-core: a copy-on-write commit   *)
(* that ends in an alternating pair of checkpoint slots, over a device     *)
(* that keeps unflushed writes in a volatile cache.                        *)
(*                                                                         *)
(* Contents are abstracted to the number of the transaction that wrote     *)
(* them: two contents are compared for equality and nothing else.  What a  *)
(* checkpoint names is abstracted to a function img from the cells it      *)
(* reaches to the contents it expects there.                               *)
(***************************************************************************)
EXTENDS Integers, FiniteSets

CONSTANTS
    Block,       \* the allocatable blocks
    Page,        \* bitmap pages, descriptors: what has three fixed slots
    PageOf,      \* the page whose bits cover a block
    MaxTx,       \* bound: how many transactions are ever begun
    MaxNew,      \* bound: blocks one transaction allocates, or retires
    MaxPromote   \* the reclaim budget of one transaction

ASSUME PageOfAssumption == PageOf \in [Block -> Page]
ASSUME BoundsAssumption == MaxTx \in Nat /\ MaxNew \in Nat /\ MaxPromote \in Nat
ASSUME CellAssumption == Block \cap (Page \X {0, 1, 2}) = {}

Slot == {0, 1}
PageSlot == {0, 1, 2}
Cell == Block \cup (Page \X PageSlot)

(* Gen 0 is a slot that does not decode: zeroed by mkfs, or torn.          *)
Checkpoint == [gen : Nat, img : [Cell -> Nat], quar : [Block -> Nat],
               pages : [Page -> PageSlot]]

NoCheckpoint == [gen |-> 0, img |-> [c \in Cell |-> 0],
                 quar |-> [b \in Block |-> 0], pages |-> [p \in Page |-> 0]]

Valid(c) == c.gen > 0

VARIABLES
    may,       \* the contents a cell may hold after a power cut now
    dirty,     \* the last write of a cell since the last flush, or 0
    sview,     \* what a read of a checkpoint slot returns
    smay,      \* what a power cut now may leave in the slot
    step,      \* where the volume is between two points a crash can tell apart
    checkpoint, other_checkpoint, current_slot, window_poisoned,
    tx,        \* the transaction being committed
    txn,       \* how many transactions have begun, mkfs included
    acked,     \* the last checkpoint whose commit returned Ok
    warm       \* history: the volume was dropped with an uncertain outcome while
               \* the device kept its unflushed writes

device == <<may, dirty, sview, smay>>
volume == <<checkpoint, other_checkpoint, current_slot>>
vars == <<device, step, volume, window_poisoned, tx, txn, acked, warm>>

Live(c) == {x \in Cell : c.img[x] /= 0}
Quarantined(c) == {b \in Block : c.quar[b] /= 0}
Free(c) == Block \ (Live(c) \cup Quarantined(c))

-----------------------------------------------------------------------------
(* The block device: a write is visible at once and durable after the next *)
(* flush; until then a power cut may keep it, lose it or tear it.          *)

WriteCells(cells, tag) ==
    /\ may' = [c \in Cell |-> IF c \in cells THEN may[c] \cup {tag} ELSE may[c]]
    /\ dirty' = [c \in Cell |-> IF c \in cells THEN tag ELSE dirty[c]]
    /\ UNCHANGED <<sview, smay>>

WriteSlot(s, c) ==
    /\ sview' = [sview EXCEPT ![s] = c]
    /\ smay' = [smay EXCEPT ![s] = @ \cup {c, NoCheckpoint}]
    /\ UNCHANGED <<may, dirty>>

Flush ==
    /\ may' = [c \in Cell |-> IF dirty[c] = 0 THEN may[c] ELSE {dirty[c]}]
    /\ dirty' = [c \in Cell |-> 0]
    /\ smay' = [s \in Slot |-> {sview[s]}]
    /\ sview' = sview

(* A cell keeps its candidate contents until it is written and flushed     *)
(* again: which one the cut left is never asked.  A slot is read at mount. *)
LosePower ==
    /\ dirty' = [c \in Cell |-> 0]
    /\ may' = may
    /\ \E a \in smay[0], b \in smay[1] :
        /\ sview' = [s \in Slot |-> IF s = 0 THEN a ELSE b]
        /\ smay' = [s \in Slot |-> IF s = 0 THEN {a} ELSE {b}]

-----------------------------------------------------------------------------
(* Transactions. *)

(* Mutant: only the selected checkpoint is protected (before ADR-074).     *)
ProtectsCurrentOnly == checkpoint.gen

(* The generation below which neither valid slot can reach a retired block.*)
OldestProtected ==
    IF Valid(other_checkpoint) /\ other_checkpoint.gen < checkpoint.gen
    THEN other_checkpoint.gen ELSE checkpoint.gen

Promotable ==
    {b \in Quarantined(checkpoint) : checkpoint.quar[b] <= OldestProtected}

Unused(p, s) ==
    /\ s /= checkpoint.pages[p]
    /\ Valid(other_checkpoint) => s /= other_checkpoint.pages[p]

(* Mutant: the slot the current checkpoint names is not avoided.           *)
ForgetsCurrentSlot(p) ==
    CHOOSE s \in PageSlot : Valid(other_checkpoint) => s /= other_checkpoint.pages[p]

ChooseSlot(p) ==
    CHOOSE s \in PageSlot :
        Unused(p, s) /\ \A r \in PageSlot : Unused(p, r) => s <= r

(* The pages whose bits the transaction sets or clears.                    *)
DirtyPages(t) == {PageOf[b] : b \in t.promoted \cup t.data \cup t.meta}

PageCells(t) == {<<p, ChooseSlot(p)>> : p \in DirtyPages(t)}

NewCells(t) == t.data \cup t.meta \cup PageCells(t)

(* The page cells the new checkpoint no longer names.                      *)
OldPageCells(t) == {<<p, checkpoint.pages[p]>> : p \in DirtyPages(t)}

NextCheckpoint(t) ==
    [gen   |-> checkpoint.gen + 1,
     img   |-> [c \in Cell |->
                  IF c \in NewCells(t) THEN t.tag
                  ELSE IF c \in t.retired \cup OldPageCells(t) THEN 0
                  ELSE checkpoint.img[c]],
     quar  |-> [b \in Block |->
                  IF b \in t.retired THEN checkpoint.gen + 1
                  ELSE IF b \in t.promoted THEN 0 ELSE checkpoint.quar[b]],
     pages |-> [p \in Page |->
                  IF p \in DirtyPages(t) THEN ChooseSlot(p) ELSE checkpoint.pages[p]]]

Transaction == [tag : Nat, window : BOOLEAN, promoted : SUBSET Block,
                data : SUBSET Block, meta : SUBSET Block, retired : SUBSET Block]

NoTx == [tag |-> 0, window |-> FALSE, promoted |-> {}, data |-> {},
         meta |-> {}, retired |-> {}]

Small(S) == IsFiniteSet(S) /\ Cardinality(S) <= MaxNew

(* What one transaction may take and give up: it allocates free blocks and *)
(* the ones it promoted, always a metadata block for the new roots, and    *)
(* retires blocks the committed state reaches.                             *)
Begin(window, promoted) ==
    /\ step = "idle" /\ ~window_poisoned /\ txn < MaxTx
    /\ txn' = txn + 1
    /\ \E meta \in SUBSET (Free(checkpoint) \cup promoted) :
        /\ meta /= {} /\ Small(meta)
        /\ \E data \in SUBSET ((Free(checkpoint) \cup promoted) \ meta) :
            /\ Small(meta \cup data)
            /\ \E retired \in SUBSET (Live(checkpoint) \cap Block) :
                /\ Small(retired)
                /\ tx' = [tag |-> txn + 1, window |-> window, promoted |-> promoted,
                          data |-> data, meta |-> meta, retired |-> retired]

(* An immediate operation: everything is staged in memory.                 *)
Stage ==
    /\ \E promoted \in SUBSET Promotable :
        /\ IsFiniteSet(promoted) /\ Cardinality(promoted) <= MaxPromote
        /\ Begin(FALSE, promoted)
    /\ step' = "staged"
    /\ UNCHANGED <<device, volume, window_poisoned, acked>>

(* An operation window: it promotes nothing, and its data goes to the      *)
(* device when the operation is staged, without a barrier of its own.      *)
OpenWindow ==
    /\ Begin(TRUE, {})
    /\ WriteCells(tx'.data, txn + 1)
    /\ step' = "ready"
    /\ UNCHANGED <<volume, window_poisoned, acked>>

(* A data write of the window fails after some of them reached the device. *)
OpenWindowFailed ==
    /\ step = "idle" /\ ~window_poisoned /\ txn < MaxTx
    /\ \E written \in SUBSET Free(checkpoint) :
        Small(written) /\ WriteCells(written, txn + 1)
    /\ txn' = txn + 1
    /\ window_poisoned' = TRUE
    /\ UNCHANGED <<step, volume, tx, acked>>

WriteData ==
    /\ step = "staged"
    /\ WriteCells(tx.data, tx.tag)
    /\ step' = IF tx.data = {} THEN "ready" ELSE "data"
    /\ UNCHANGED <<volume, window_poisoned, tx, txn, acked>>

FlushData ==
    /\ step = "data"
    /\ Flush
    /\ step' = "ready"
    /\ UNCHANGED <<volume, window_poisoned, tx, txn, acked>>

WriteMeta ==
    /\ step = "ready"
    /\ WriteCells(tx.meta \cup PageCells(tx), tx.tag)
    /\ step' = "meta"
    /\ UNCHANGED <<volume, window_poisoned, tx, txn, acked>>

FlushMeta ==
    /\ step = "meta"
    /\ Flush
    /\ step' = "sealed"
    /\ UNCHANGED <<volume, window_poisoned, tx, txn, acked>>

(* An error before publication: the transaction is dropped, its generation *)
(* is not consumed, and what it wrote lies in cells nothing names.  Only a *)
(* window's commit asks for a remount then.                                *)
GiveUp ==
    /\ step' = "idle"
    /\ tx' = NoTx
    /\ window_poisoned' = tx.window
    /\ UNCHANGED <<volume, txn, acked>>

WriteFailed ==
    /\ \/ /\ step = "staged"
          /\ \E written \in SUBSET tx.data : WriteCells(written, tx.tag)
       \/ /\ step = "ready"
          /\ \E written \in SUBSET (tx.meta \cup PageCells(tx)) :
                WriteCells(written, tx.tag)
    /\ GiveUp

FlushFailed ==
    /\ step \in {"data", "meta"}
    /\ GiveUp
    /\ UNCHANGED device

WriteCheckpoint ==
    /\ step = "sealed"
    /\ window_poisoned' = TRUE
    /\ WriteSlot(1 - current_slot, NextCheckpoint(tx))
    /\ step' = "published"
    /\ UNCHANGED <<volume, tx, txn, acked>>

(* Mutant: the commit barrier is left out.                                 *)
SkipsCommitBarrier ==
    /\ step = "published"
    /\ step' = "durable"
    /\ UNCHANGED <<device, volume, window_poisoned, tx, txn, acked>>

FlushCheckpoint ==
    /\ step = "published"
    /\ Flush
    /\ step' = "durable"
    /\ UNCHANGED <<volume, window_poisoned, tx, txn, acked>>

Adopt ==
    /\ step = "durable"
    /\ checkpoint' = NextCheckpoint(tx)
    /\ other_checkpoint' = checkpoint
    /\ current_slot' = 1 - current_slot
    /\ window_poisoned' = FALSE
    /\ acked' = NextCheckpoint(tx)
    /\ step' = "idle"
    /\ tx' = NoTx
    /\ UNCHANGED <<device, txn>>

(* Mutant: an error after publication began leaves the volume writable.    *)
StaysWritable ==
    /\ step' = "idle"
    /\ tx' = NoTx
    /\ window_poisoned' = FALSE
    /\ UNCHANGED <<volume, txn, acked>>

(* An error after publication began: the durable outcome is uncertain and  *)
(* the poison stays.                                                       *)
Uncertain ==
    /\ step' = "idle"
    /\ tx' = NoTx
    /\ window_poisoned' = TRUE
    /\ UNCHANGED <<volume, txn, acked>>

(* The failed write reached the device whole, in part or not at all.       *)
WriteCheckpointFailed ==
    /\ step = "sealed"
    /\ \/ UNCHANGED device
       \/ \E c \in {NextCheckpoint(tx), NoCheckpoint} : WriteSlot(1 - current_slot, c)
    /\ Uncertain

FlushCheckpointFailed == step = "published" /\ Uncertain /\ UNCHANGED device

AdoptFailed == step = "durable" /\ Uncertain /\ UNCHANGED device

-----------------------------------------------------------------------------
(* Mounting, unmounting and power cuts. *)

Newer(c, d) == Valid(c) /\ (Valid(d) => c.gen > d.gen)

Mount ==
    /\ step = "down"
    /\ \E s \in Slot :
        /\ Newer(sview[s], sview[1 - s])
        /\ checkpoint' = sview[s]
        /\ other_checkpoint' = sview[1 - s]
        /\ current_slot' = s
    /\ window_poisoned' = FALSE
    /\ step' = "idle"
    /\ UNCHANGED <<device, tx, txn, acked>>

Forget ==
    /\ step' = "down"
    /\ tx' = NoTx
    /\ window_poisoned' = FALSE
    /\ checkpoint' = NoCheckpoint /\ other_checkpoint' = NoCheckpoint
    /\ current_slot' = 0
    /\ UNCHANGED <<txn, acked>>

(* The volume value is dropped; the device and its cache go on.            *)
Unmount ==
    /\ step = "idle"
    /\ warm' = (warm \/ window_poisoned)
    /\ Forget
    /\ UNCHANGED device

PowerCut == LosePower /\ Forget

(* mkfs leaves the first checkpoint in slot A and zeroes slot B.  The      *)
(* format's own metadata occupies some blocks, always one at least.        *)
Format(blocks) ==
    [gen   |-> 1,
     img   |-> [c \in Cell |-> IF c \in blocks \cup (Page \X {0}) THEN 1 ELSE 0],
     quar  |-> [b \in Block |-> 0],
     pages |-> [p \in Page |-> 0]]

Init ==
    /\ \E blocks \in SUBSET Block :
        /\ blocks /= {} /\ Small(blocks)
        /\ sview = [s \in Slot |-> IF s = 0 THEN Format(blocks) ELSE NoCheckpoint]
        /\ may = [c \in Cell |-> IF c \in Live(Format(blocks)) THEN {1} ELSE {0}]
        /\ acked = Format(blocks)
    /\ smay = [s \in Slot |-> {sview[s]}]
    /\ dirty = [c \in Cell |-> 0]
    /\ step = "down"
    /\ checkpoint = NoCheckpoint /\ other_checkpoint = NoCheckpoint
    /\ current_slot = 0
    /\ window_poisoned = FALSE
    /\ tx = NoTx
    /\ txn = 1
    /\ warm = FALSE

Next ==
    \/ Unmount
    \/ /\ \/ Mount \/ PowerCut
          \/ Stage \/ OpenWindow \/ OpenWindowFailed
          \/ WriteData \/ FlushData \/ WriteMeta \/ FlushMeta
          \/ WriteFailed \/ FlushFailed
          \/ WriteCheckpoint \/ FlushCheckpoint \/ Adopt
          \/ WriteCheckpointFailed \/ FlushCheckpointFailed \/ AdoptFailed
       /\ UNCHANGED warm

Spec == Init /\ [][Next]_vars

(* window_discard, as Vfs::checkpoint_data_window calls it on every failed *)
(* window_commit, the one a poisoned volume refuses included: the poison   *)
(* is cleared and the mounted state stays.                                 *)
window_discard ==
    /\ step = "idle" /\ window_poisoned
    /\ window_poisoned' = FALSE
    /\ UNCHANGED <<device, step, volume, tx, txn, acked, warm>>

VfsSpec == Init /\ [][Next \/ window_discard]_vars

-----------------------------------------------------------------------------
(* Properties. *)

(* The types of the variables. *)
TypeOK ==
    /\ may \in [Cell -> SUBSET Nat]
    /\ dirty \in [Cell -> Nat]
    /\ sview \in [Slot -> Checkpoint]
    /\ smay \in [Slot -> SUBSET Checkpoint]
    /\ step \in {"down", "idle", "staged", "data", "ready", "meta", "sealed",
                 "published", "durable"}
    /\ checkpoint \in Checkpoint /\ other_checkpoint \in Checkpoint
    /\ current_slot \in Slot
    /\ window_poisoned \in BOOLEAN
    /\ tx \in Transaction
    /\ txn \in Nat \ {0}
    /\ acked \in Checkpoint
    /\ warm \in BOOLEAN

(* c can be read back whole after a power cut now.                         *)
Intact(c) == \A x \in Live(c) : may[x] = {c.img[x]}

(* The checkpoints mount could select after a power cut now.               *)
Selectable ==
    {c \in smay[0] : \E d \in smay[1] : Newer(c, d)}
    \cup {c \in smay[1] : \E d \in smay[0] : Newer(c, d)}

(* No step of a transaction, of an aborted one, of one whose outcome is    *)
(* uncertain, or of any number of remounts and power cuts, ever overwrites *)
(* a cell that a checkpoint mount may select reaches: recovery finds one   *)
(* complete state, never a mixture (volume.rs commit_transaction_body).    *)
SelectedIntact == \A c \in Selectable : Intact(c)

(* Whatever a power cut leaves in the two slots, select_checkpoint finds   *)
(* one: it never meets two invalid slots or two equal generations.         *)
SelectionSucceeds ==
    \A a \in smay[0], b \in smay[1] : Newer(a, b) \/ Newer(b, a)

(* A commit that returned Ok survives: recovery selects its checkpoint or  *)
(* one of a later generation.                                              *)
AckedDurable == \A c \in Selectable : c = acked \/ c.gen > acked.gen

EveryIntact == \A s \in Slot : \A c \in smay[s] : Intact(c)

(* ADR-074: the previous checkpoint, for as long as its slot may still     *)
(* hold it, is as complete as the current one, unless a volume with an     *)
(* uncertain publication was mounted again over unflushed writes           *)
(* (reclaim.rs, the oldest protected generation).                          *)
PreviousIntact == ~warm => EveryIntact

(* The engine implements the atomic store: at most one publication is ever *)
(* uncertain, it is the successor of the committed state, and commits that *)
(* returned Ok are never undone (AtomicCheckpoint).                        *)
Atomic == INSTANCE AtomicCheckpoint WITH possible <- Selectable, acked <- acked
ImplementsAtomic == Atomic!Spec

-----------------------------------------------------------------------------
(* The inductive invariant behind the safety properties.  One slot, the    *)
(* anchor, is settled: a power cut leaves it what it is.  The other slot   *)
(* may hold nothing, older checkpoints, or the anchor's one successor.     *)

(* A block is live or quarantined, not both; a page is live in one slot.   *)
WellFormed(c) ==
    /\ \A b \in Block : c.quar[b] /= 0 => c.img[b] = 0
    /\ \A p \in Page, s \in PageSlot : c.img[<<p, s>>] /= 0 => s = c.pages[p]

(* c still reaches what o reaches, or has it in quarantine since after o.  *)
Follows(o, c) ==
    \A b \in Block : o.img[b] /= 0 => c.img[b] = o.img[b] \/ c.quar[b] > o.gen

Faces(d, c) ==
    \/ d = NoCheckpoint
    \/ d.gen > 0 /\ d.gen < c.gen /\ Follows(d, c)
    \/ d.gen = c.gen + 1 /\ Follows(c, d) /\ Intact(d)

Anchor(s) ==
    /\ smay[s] = {sview[s]}
    /\ Valid(sview[s]) /\ Intact(sview[s])
    /\ sview[1 - s] \in smay[1 - s]
    /\ \A d \in smay[1 - s] :
        /\ Faces(d, sview[s])
        /\ d.gen = sview[s].gen + 1 => d = sview[1 - s]

SlotsInv ==
    /\ \E s \in Slot : Anchor(s)
    /\ \A s \in Slot : \A d \in smay[s] : WellFormed(d)

InTransaction == step \in {"staged", "data", "ready", "meta", "sealed"}
Publishing == step \in {"published", "durable"}

(* What the volume remembers of the slots while it may still write cells.  *)
MemoryInv ==
    /\ (InTransaction \/ (step = "idle" /\ ~window_poisoned)) =>
        /\ checkpoint = sview[current_slot]
        /\ other_checkpoint = sview[1 - current_slot]
        /\ Newer(checkpoint, other_checkpoint)
    /\ Publishing =>
        /\ checkpoint = sview[current_slot]
        /\ sview[1 - current_slot] = NextCheckpoint(tx)
        /\ Valid(checkpoint) /\ acked.gen <= checkpoint.gen
    /\ step = "sealed" => smay = [s \in Slot |-> {sview[s]}]
    /\ step = "durable" => smay = [s \in Slot |-> {sview[s]}]

TransactionInv ==
    InTransaction \/ Publishing =>
        /\ tx.tag /= 0
        /\ tx.promoted \subseteq Promotable
        /\ tx.data \cup tx.meta \subseteq Free(checkpoint) \cup tx.promoted
        /\ tx.retired \subseteq Live(checkpoint) \cap Block

(* The next flush leaves, or the last one left, the transaction's content. *)
Written(x) == dirty[x] = tx.tag \/ (dirty[x] = 0 /\ may[x] = {tx.tag})

WritesInv ==
    /\ \A x \in Cell : dirty[x] = 0 \/ dirty[x] \in may[x]
    /\ step \in {"data", "ready"} => \A x \in tx.data : Written(x)
    /\ step = "meta" => \A x \in NewCells(tx) : Written(x)
    /\ step \in {"sealed", "published", "durable"} =>
        \A x \in NewCells(tx) : may[x] = {tx.tag}

IInv == TypeOK /\ SlotsInv /\ MemoryInv /\ TransactionInv /\ WritesInv /\ AckedDurable

(* Behind PreviousIntact: without a remount of that kind, a slot with more *)
(* than one possible content belongs to a volume that writes nothing more. *)
Settled == smay = [s \in Slot |-> {sview[s]}]

PreviousInv ==
    /\ step = "down" \/ InTransaction => ~window_poisoned
    /\ ~warm => (~window_poisoned => Settled) /\ EveryIntact
=============================================================================
