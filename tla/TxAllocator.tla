---------------------------- MODULE TxAllocator ----------------------------
(***************************************************************************)
(* The transaction allocator (alloc.rs): a first-fit search with a rover   *)
(* over the bitmap pages of the regions, the floor that ordinary growth    *)
(* leaves to deletes and recovery, what a transaction allocated, retired,  *)
(* released and abandoned, the phases of the snapshot accounting, and the  *)
(* three slots of every page and descriptor.                               *)
(*                                                                         *)
(* CheckpointCommit has the crashes.  The reclaim queue is kept block by   *)
(* block and rebuilt in one block of its own; ReclaimQueue has the rest.   *)
(***************************************************************************)
EXTENDS Integers, FiniteSets, SequencesExt, FiniteSetsExt

CONSTANTS
    RegionCount, RegionSize,
    PageBlocks,         \* blocks that a bitmap page describes
    Heads,              \* region -> blocks of its own metadata
    Floor,              \* emergency_headroom_for_volume
    Batch,              \* reclaim_batch_blocks
    Lengths,            \* bound: lengths of the runs asked for
    TxCommits,          \* bound: committed transactions
    MaxCalls            \* bound: calls of all transactions

VARIABLES
    page, descriptor,   \* the slots on the disk
    selected, fallback, \* the two checkpoints
    tx,                 \* the open transaction
    ledger,             \* snapshot lifetimes: [on, live, retained, node]
    calls               \* bound: calls made so far

alloc_vars == <<page, descriptor, selected, fallback, tx, ledger, calls>>

Region == 0 .. RegionCount - 1
Slot == 0 .. 2
PageIndex == 0 .. (RegionSize - 1) \div PageBlocks
Pages == Region \X PageIndex
Lba(r, index) == r * RegionSize + index
RegionOf(lba) == lba \div RegionSize
PageOf(lba) == <<RegionOf(lba), (lba % RegionSize) \div PageBlocks>>
RegionBlocks(r) == {Lba(r, i) : i \in 0 .. RegionSize - 1}
BlocksOf(p) == {lba \in RegionBlocks(p[1]) : PageOf(lba) = p}
Allocatable == UNION {{Lba(r, i) : i \in Heads[r] .. RegionSize - 1} : r \in Region}
Run(start, blocks) == start .. start + blocks - 1
Monus(a, b) == IF a < b THEN 0 ELSE a - b

NoTx == [open |-> FALSE]

-----------------------------------------------------------------------------
(* Loading: record, descriptor and page agree on generation and free count.*)

FreeIn(p, bits) == Cardinality(BlocksOf(p) \ bits)
PagesFree(pages) == FoldSet(LAMBDA k, sum : sum + pages[k].free, 0, PageIndex)

DescriptorOf(c, r) == descriptor[r][c.records[r].slot]
StoredPage(c, p) == page[p][DescriptorOf(c, p[1]).pages[p[2]].slot]

LoadsDescriptor(c, r) ==
    LET d == DescriptorOf(c, r)
    IN  d.gen = c.records[r].gen /\ d.free = c.records[r].free /\ d.free = PagesFree(d.pages)

LoadsPage(c, p) ==
    LET binding == DescriptorOf(c, p[1]).pages[p[2]]
    IN  StoredPage(c, p).gen = binding.gen /\ FreeIn(p, StoredPage(c, p).bits) = binding.free

Bits(c) == UNION {StoredPage(c, p).bits : p \in Pages}

-----------------------------------------------------------------------------
(* A transaction.                                                          *)

Protected == IF fallback.gen < selected.gen THEN fallback.gen ELSE selected.gen

(* What the batch takes from the head of the queue.                        *)
Promoted(batch) ==
    LET eligible(k) == \A i \in 1 .. k : selected.queue[i][2] <= Protected
    IN  Max({k \in 0 .. Len(selected.queue) : k <= batch /\ eligible(k)})

BeginTx(kind, batch, floor) ==
    LET n == Promoted(batch)
        promoted == {selected.queue[i][1] : i \in 1 .. n}
    IN  [open |-> TRUE, kind |-> kind,
         bits |-> Bits(selected) \ promoted,
         dirty |-> {PageOf(lba) : lba \in promoted},
         queue |-> SubSeq(selected.queue, n + 1, Len(selected.queue)),
         rover |-> selected.rover, index |-> 0, floor |-> floor, emergency |-> FALSE,
         own |-> {}, retired |-> {}, house |-> selected.house,
         promoted |-> n, allocated |-> 0, released |-> 0,
         phase |-> IF ledger.on THEN "namespace" ELSE "none",
         births |-> {}, deaths |-> {},
         refused |-> 0, error |-> ~ (promoted \subseteq Bits(selected))]

FreeBlocksRemaining(t) ==
    Monus(selected.free + t.promoted, Monus(t.allocated, t.released))

AboveFloor(t, blocks) == Monus(FreeBlocksRemaining(t), blocks) >= t.floor

(* The first free run in [from, until) of a region, none if empty.         *)
ScanRegion(t, r, len, from, until) ==
    LET begin == IF from < Heads[r] THEN Heads[r] ELSE from
        starts == {s \in begin .. until - len : Run(Lba(r, s), len) \intersect t.bits = {}}
    IN  IF starts = {} THEN {} ELSE {Min(starts)}

(* Mutant: the second pass stops at the rover.                             *)
WrapsShort(t, r, len, resume) ==
    LET above == ScanRegion(t, r, len, resume, RegionSize)
    IN  IF above /= {} \/ resume = 0 THEN above ELSE ScanRegion(t, r, len, 0, resume)

(* Above the rover, and then what the first pass could not see.            *)
SearchRegion(t, r, len, resume) ==
    LET above == ScanRegion(t, r, len, resume, RegionSize)
        limit == IF resume + len - 1 < RegionSize THEN resume + len - 1 ELSE RegionSize
    IN  IF above /= {} \/ resume = 0 THEN above ELSE ScanRegion(t, r, len, 0, limit)

(* A region that the transaction has not changed is skipped by its count.  *)
Skips(t, r, len) == (\A p \in t.dirty : p[1] /= r) /\ selected.records[r].free < len

Found(t, len) ==
    LET region(step) == (t.rover + step) % RegionCount
        found(step) ==
          IF Skips(t, region(step), len) THEN {}
          ELSE SearchRegion(t, region(step), len, IF step = 0 THEN t.index ELSE 0)
        steps == {step \in 0 .. RegionCount - 1 : found(step) /= {}}
    IN  IF steps = {} THEN {}
        ELSE {[region |-> region(Min(steps)), start |-> s] : s \in found(Min(steps))}

Fail(t) == [t EXCEPT !.error = TRUE]
Refuse(t, len) == [t EXCEPT !.refused = len]

Claim(t, run) ==
    IF run \intersect t.own /= {} THEN Fail(t)
    ELSE [t EXCEPT !.bits = @ \union run, !.own = @ \union run, !.refused = 0,
                   !.dirty = @ \union {PageOf(lba) : lba \in run},
                   !.births = IF t.phase = "namespace" THEN @ \union run ELSE @,
                   !.house = IF t.phase \in {"namespace", "none"} THEN @ ELSE @ \union run,
                   !.allocated = @ + Cardinality(run)]

AllocateRun(t, len) ==
    LET found == Found(t, len)
    IN  IF ~ AboveFloor(t, len) \/ found = {} THEN Refuse(t, len)
        ELSE LET f == CHOOSE f \in found : TRUE
             IN  [Claim(t, Run(Lba(f.region, f.start), len)) EXCEPT
                    !.rover = f.region, !.index = f.start + len]

AllocateExactRun(t, run) ==
    IF ~ AboveFloor(t, Cardinality(run)) THEN Refuse(t, Cardinality(run))
    ELSE IF run \subseteq Allocatable /\ run \intersect t.bits = {} THEN Claim(t, run)
    ELSE Fail(t)

(* Looks before it claims: nothing changes when the answer is no.          *)
TryExtendRun(t, last, blocks) ==
    LET run == Run(last + 1, blocks)
    IN  IF /\ AboveFloor(t, blocks)
           /\ \A lba \in run : RegionOf(lba) = RegionOf(last)
           /\ run \subseteq Allocatable \ t.bits
        THEN AllocateExactRun(t, run) ELSE t

Queued(t, run) ==
    [t EXCEPT !.queue = @ \o [i \in 1 .. Cardinality(run) |-> <<Min(run) + i - 1, selected.gen + 1>>]]

RetireRun(t, run) ==
    IF \/ run \intersect t.own /= {} \/ run \intersect t.retired /= {}
       \/ ~ (run \subseteq Allocatable \intersect t.bits)
    THEN Fail(t)
    ELSE LET r == [t EXCEPT !.retired = @ \union run, !.house = @ \ run]
         IN  IF t.phase = "namespace" THEN [r EXCEPT !.deaths = @ \union run]
             ELSE Queued(r, run)

AbandonUncommittedRun(t, run) ==
    IF ~ (run \subseteq t.own) \/ run \intersect t.retired /= {} THEN Fail(t)
    ELSE Queued([t EXCEPT !.own = @ \ run, !.births = @ \ run, !.retired = @ \union run,
                          !.house = @ \ run], run)

(* Mutant: a released block stays in the lifetimes that are to be written. *)
KeepsBirth(t, lba) ==
    IF lba \notin t.own \/ lba \notin t.bits THEN Fail(t)
    ELSE [t EXCEPT !.own = @ \ {lba}, !.bits = @ \ {lba}, !.dirty = @ \union {PageOf(lba)},
                   !.house = @ \ {lba}, !.released = @ + 1]

ReleaseUncommitted(t, lba) ==
    IF lba \notin t.own \/ lba \notin t.bits THEN Fail(t)
    ELSE [t EXCEPT !.own = @ \ {lba}, !.bits = @ \ {lba}, !.dirty = @ \union {PageOf(lba)},
                   !.births = @ \ {lba}, !.house = @ \ {lba}, !.released = @ + 1]

-----------------------------------------------------------------------------
(* The calls that operations make; the namespace gives up what it holds in *)
(* the committed state and has not given up yet.                           *)

Quarantined(queue) == {queue[i][1] : i \in DOMAIN queue}

Namespace(t) ==
    (Bits(selected) \intersect Allocatable)
        \ (Quarantined(selected.queue) \union ledger.retained \union selected.house
           \union {selected.root, ledger.node} \union t.retired)

Calls(r) ==
    /\ tx' = r /\ calls' = calls + 1
    /\ UNCHANGED <<page, descriptor, selected, fallback, ledger>>
MayCall == tx.open /\ calls < MaxCalls /\ ~ tx.error /\ (tx.refused = 0 \/ tx.kind = "window")

(* A refusal ends an operation of its own; a window goes on without it.    *)
Current == [tx EXCEPT !.refused = 0]
Working == MayCall /\ tx.phase \in {"none", "namespace", "housekeeping"}

Begin ==
    /\ ~ tx.open /\ selected.gen < TxCommits
    /\ \E t \in {BeginTx("growth", Batch, Floor), BeginTx("destructive", Batch, 0),
                 BeginTx("window", 0, Floor), BeginTx("replay", 0, 0)} :
         tx' = t
    /\ UNCHANGED <<page, descriptor, selected, fallback, ledger, calls>>

Allocate == Working /\ \E len \in Lengths : \E r \in {AllocateRun(Current, len)} : Calls(r)

(* The record of the intent log names the run.                             *)
ReplayClaims ==
    /\ Working /\ tx.kind = "replay" /\ tx.phase /= "housekeeping"
    /\ \E lba \in Allocatable \ tx.bits : \E r \in {AllocateExactRun(Current, {lba})} : Calls(r)

(* A file that the window made grows where it lies.                        *)
GrowInPlace ==
    /\ Working /\ tx.kind = "window" /\ tx.phase /= "housekeeping"
    /\ \E last \in tx.own, blocks \in Lengths :
         last + 1 \notin tx.own /\ \E r \in {TryExtendRun(Current, last, blocks)} : Calls(r)

Retire ==
    /\ Working
    /\ \E lba \in IF tx.phase = "housekeeping" THEN tx.house \ tx.own ELSE Namespace(tx) :
         \E r \in {RetireRun(Current, {lba})} : Calls(r)

(* release_window_extent: what the window allocated is abandoned, for a    *)
(* durable record may name it; the committed rest is retired.              *)
ReleaseExtent(t, run) ==
    FoldSet(LAMBDA lba, s : IF lba \in t.own THEN AbandonUncommittedRun(s, {lba})
                            ELSE RetireRun(s, {lba}), t, run)

ReleaseWindowExtent ==
    /\ Working /\ tx.kind = "window" /\ tx.phase /= "housekeeping"
    /\ \E lba \in tx.own, len \in Lengths :
         /\ Run(lba, len) \subseteq tx.own \union Namespace(tx)
         /\ \E r \in {ReleaseExtent(Current, Run(lba, len))} : Calls(r)

Release ==
    /\ Working
    /\ \E lba \in tx.own : \E r \in {ReleaseUncommitted(Current, lba)} : Calls(r)

(* ensure_pending_orphan_directory: the floor is lifted for its root.      *)
AllocateOrphanDirectory ==
    /\ Working /\ tx.kind = "window" /\ tx.phase /= "housekeeping" /\ ~ tx.emergency
    /\ \E r \in {AllocateRun([Current EXCEPT !.floor = 0], 1)} :
         Calls([r EXCEPT !.floor = tx.floor, !.emergency = TRUE])

(* materialize_batch: a window that deletes seals below the floor.         *)
Materialize ==
    /\ Working /\ tx.emergency /\ tx.floor > 0
    /\ Calls([Current EXCEPT !.floor = 0])

BeginSnapshotHousekeeping ==
    /\ MayCall /\ tx.phase = "namespace"
    /\ tx' = [Current EXCEPT !.phase = "housekeeping"]
    /\ UNCHANGED <<page, descriptor, selected, fallback, ledger, calls>>

(* seal_snapshot_lifetimes: a new node for the ledger, the old one retired,*)
(* and the runs that no view needs sent to quarantine.                     *)
Sealed(t, transfers) ==
    LET grown == AllocateRun([t EXCEPT !.phase = "preparing"], 1)
        node == CHOOSE lba \in grown.own \ t.own : TRUE
        moved == FoldSet(LAMBDA lba, s : RetireRun(s, {lba}),
                         RetireRun(grown, {ledger.node}), transfers)
    IN  IF grown.refused > 0 THEN [grown EXCEPT !.phase = "failed"]
        ELSE [moved EXCEPT !.phase = "sealed", !.house = @ \ {node}] @@ [node |-> node]

SealSnapshotLifetimes ==
    /\ MayCall /\ tx.phase = "housekeeping"
    /\ \E transfers \in SUBSET ledger.retained :
         \E r \in {Sealed(Current, transfers)} :
           /\ tx' = IF r.phase = "failed" THEN r ELSE r @@ [transfers |-> transfers]
           /\ UNCHANGED <<page, descriptor, selected, fallback, ledger, calls>>

Discard ==
    /\ tx.open
    /\ tx' = NoTx
    /\ UNCHANGED <<page, descriptor, selected, fallback, ledger, calls>>

-----------------------------------------------------------------------------
(* finish.                                                                 *)

ChooseSlot(current, other) == Min(Slot \ {current, other})

NewBinding(t, p) ==
    [slot |-> ChooseSlot(DescriptorOf(selected, p[1]).pages[p[2]].slot,
                         DescriptorOf(fallback, p[1]).pages[p[2]].slot),
     free |-> FreeIn(p, t.bits), gen |-> selected.gen + 1]

NewDescriptor(t, r) ==
    LET pages == [k \in PageIndex |->
                    IF <<r, k>> \in t.dirty THEN NewBinding(t, <<r, k>>)
                    ELSE DescriptorOf(selected, r).pages[k]]
    IN  [gen |-> selected.gen + 1, pages |-> pages, free |-> PagesFree(pages)]

DirtyRegions(t) == {p[1] : p \in t.dirty}

NewRecord(t, r) ==
    [slot |-> ChooseSlot(selected.records[r].slot, fallback.records[r].slot),
     free |-> NewDescriptor(t, r).free, gen |-> selected.gen + 1]

Finish ==
    /\ tx.open /\ ~ tx.error /\ (tx.refused = 0 \/ tx.kind = "window")
    /\ tx.phase = IF ledger.on THEN "sealed" ELSE "none"
    /\ UNCHANGED calls
    /\ \E t \in {AllocateRun([Current EXCEPT !.phase = "none"], 1)} :
         IF t.refused > 0 THEN tx' = NoTx /\ UNCHANGED <<page, descriptor, selected, fallback, ledger>>
         ELSE LET root == CHOOSE lba \in t.own \ tx.own : TRUE
                  changed == [r \in DirtyRegions(t) |-> NewRecord(t, r)]
              IN
              /\ page' = [p \in Pages |->
                    IF p \notin t.dirty THEN page[p]
                    ELSE [page[p] EXCEPT ![NewBinding(t, p).slot] =
                            [gen |-> selected.gen + 1, bits |-> t.bits \intersect BlocksOf(p)]]]
              /\ descriptor' = [r \in Region |->
                    IF r \notin DirtyRegions(t) THEN descriptor[r]
                    ELSE [descriptor[r] EXCEPT ![changed[r].slot] = NewDescriptor(t, r)]]
              /\ fallback' = selected
              /\ selected' =
                    [gen |-> selected.gen + 1,
                     records |-> changed @@ selected.records,
                     free |-> selected.free + FoldSet(LAMBDA r, sum :
                                 sum + changed[r].free - selected.records[r].free, 0, DirtyRegions(t)),
                     queue |-> Append(t.queue, <<selected.root, selected.gen + 1>>),
                     root |-> root, rover |-> t.rover, house |-> t.house \ {root}]
              /\ ledger' = IF ~ ledger.on THEN ledger
                           ELSE [on |-> TRUE, node |-> tx.node,
                                 live |-> (ledger.live \ tx.deaths) \union tx.births,
                                 retained |-> (ledger.retained \ tx.transfers) \union tx.deaths]
              /\ tx' = NoTx

-----------------------------------------------------------------------------
(* A fresh volume: the queue's root, the ledger's node and one block of    *)
(* the namespace follow the head of the first region.                      *)
Fresh(on) ==
    LET heads == UNION {RegionBlocks(r) : r \in Region} \ Allocatable
        first == Lba(0, Heads[0])
    IN  heads \union {first, first + 1} \union IF on THEN {first + 2} ELSE {}

AllocInit ==
    \E on \in BOOLEAN :
      LET bits == Fresh(on)
          binding == [p \in Pages |-> [slot |-> 0, free |-> FreeIn(p, bits), gen |-> 1]]
          region(r) == [k \in PageIndex |-> binding[<<r, k>>]]
      IN  /\ page = [p \in Pages |-> [s \in Slot |-> [gen |-> 1, bits |-> bits \intersect BlocksOf(p)]]]
          /\ descriptor = [r \in Region |-> [s \in Slot |->
                [gen |-> 1, pages |-> region(r), free |-> PagesFree(region(r))]]]
          /\ selected = [gen |-> 1, root |-> Lba(0, Heads[0]), queue |-> <<>>, rover |-> 0, house |-> {},
                         records |-> [r \in Region |-> [slot |-> 0, free |-> PagesFree(region(r)), gen |-> 1]],
                         free |-> FoldSet(LAMBDA r, sum : sum + PagesFree(region(r)), 0, Region)]
          /\ fallback = selected
          /\ ledger = [on |-> on, live |-> IF on THEN {Lba(0, Heads[0]) + 1} ELSE {},
                       retained |-> {}, node |-> IF on THEN Lba(0, Heads[0]) + 2 ELSE 0]
          /\ tx = NoTx /\ calls = 0

AllocNext ==
    \/ Begin \/ Allocate \/ ReplayClaims \/ GrowInPlace \/ Retire \/ ReleaseWindowExtent \/ Release
    \/ AllocateOrphanDirectory \/ Materialize
    \/ BeginSnapshotHousekeeping \/ SealSnapshotLifetimes \/ Discard \/ Finish

AllocSpec == AllocInit /\ [][AllocNext]_alloc_vars

-----------------------------------------------------------------------------
(* A request is refused only when it would cross the floor or no region    *)
(* holds a free run of that length, wherever the rover stands and whatever *)
(* was released or promoted behind it (allocate_run).                      *)
RefusalsAreTrue ==
    tx.open /\ tx.refused > 0 =>
        \/ ~ AboveFloor(tx, tx.refused)
        \/ \A r \in Region : \A s \in Heads[r] .. RegionSize - tx.refused :
             Run(Lba(r, s), tx.refused) \intersect tx.bits /= {}

(* Both checkpoints load, their free totals are the clear bits of their    *)
(* pages, what an open transaction believes is left is what its pages say, *)
(* no call it makes is taken for corruption, and every allocated block has *)
(* one owner: with snapshots, the lifetimes name exactly the blocks of the *)
(* namespace.                                                              *)
AccountsAgree ==
    /\ \A c \in {selected, fallback} :
         /\ \A r \in Region : LoadsDescriptor(c, r)
         /\ \A p \in Pages : LoadsPage(c, p)
         /\ c.free = Cardinality(Allocatable \ Bits(c))
         /\ Cardinality(Quarantined(c.queue)) = Len(c.queue)
         /\ Quarantined(c.queue) \subseteq Bits(c)
    /\ tx.open =>
         /\ ~ tx.error
         /\ FreeBlocksRemaining(tx) = Cardinality(Allocatable \ tx.bits)
    /\ ledger.on /\ ~ tx.open => ledger.live = Namespace([retired |-> {}])
=============================================================================
