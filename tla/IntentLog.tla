------------------------------ MODULE IntentLog ------------------------------
(***************************************************************************)
(* Operation windows and the intent log (ADR-037, ADR-063, ADR-064): the   *)
(* window's namespace overlay, the fsync that appends one log record, the  *)
(* commit that turns the window into a checkpoint, and the mount that      *)
(* replays the valid prefix of the log.                                    *)
(*                                                                         *)
(* One directory.  A file has at most one data block.  A block's content   *)
(* is a sequence of tags, one per piece of the file it holds: an append to *)
(* a file the window created extends the sequence, and every other write   *)
(* starts a new one.  A tear leaves <<0>>, which matches no checksum.      *)
(* Publication of a checkpoint is atomic here, as CheckpointCommit shows.  *)
(***************************************************************************)
EXTENDS Integers, Sequences, FiniteSets
LOCAL INSTANCE SequencesExt

CONSTANTS
    Name,          \* names in the directory
    Block,         \* the allocatable blocks
    NoBlock,       \* the data root of an empty file
    LogSlots,      \* blocks of the log area
    MaxLogOps,     \* operations one record holds
    MaxOps,        \* bound: operations ever issued, mkfs included
    MaxGen,        \* bound: checkpoints ever published
    Workloads      \* sets of operations: callers issue those of one

ASSUME NoBlockAssumption == NoBlock \notin Block
ASSUME LogAssumption == LogSlots \in Nat \ {0} /\ MaxLogOps \in Nat \ {0}
ASSUME BoundAssumption == MaxOps \in Nat /\ MaxGen \in Nat
ASSUME WorkloadsAssumption ==
    UNION Workloads \subseteq {"create", "delete", "rename", "rename_staged", "update",
                               "rewrite", "grow", "directory"}

Content == Seq(Nat)
Torn == <<0>>

File == [id : Nat, blk : Block \cup {NoBlock}, data : Content]
NoFile == [id |-> 0, blk |-> NoBlock, data |-> <<>>]

Checkpoint == [gen : Nat, names : [Name -> File], orphans : SUBSET File,
               next_object_id : Nat, meta : Block, quar : [Block -> Nat]]

VARIABLES
    view, may,        \* a block's content, and what a power cut may leave of it
    log, log_may,     \* the same for the slots of the log area
    possible,         \* the slot pairs a power cut may leave: see SlotPair
    step,
    checkpoint, other,  \* the mounted checkpoint; the other slot's generation
    window, window_poisoned,
    staged,           \* the checkpoint a commit or a replay is about to publish
    clock,            \* the last tag given to an operation's data
    workload,         \* the operations callers issue
    promised          \* the namespaces recovery may produce (history)

device == <<view, may, log, log_may>>
volume == <<checkpoint, other>>
vars == <<device, possible, step, volume, window, window_poisoned, staged,
          clock, workload, promised>>

(* What the two checkpoint slots hold: the newer checkpoint, and the       *)
(* generation in the other slot, 0 when that one is empty or torn.         *)
SlotPair(c, o) == [c |-> c, other |-> o]

Blocks(files) == {f.blk : f \in files} \ {NoBlock}
Files(w) == {w.names[n] : n \in Name} \ {NoFile}
Held(w) == Blocks(Files(w) \cup w.orphans)
Free(c) == {b \in Block : b \notin Held(c) /\ b /= c.meta /\ c.quar[b] = 0}

-----------------------------------------------------------------------------
(* The device. *)

(* A torn block is a prefix of the new bytes before the old ones: an       *)
(* append torn in the middle leaves the bytes that were there.             *)
Tears(b, data) == IF IsPrefix(view[b], data) THEN {} ELSE {Torn}

WriteBlock(b, data) ==
    IF b = NoBlock THEN UNCHANGED <<view, may>>
    ELSE /\ view' = [view EXCEPT ![b] = data]
         /\ may' = [may EXCEPT ![b] = @ \cup {data} \cup Tears(b, data)]

Flush ==
    /\ may' = [b \in Block |-> {view[b]}]
    /\ log_may' = [i \in 1..LogSlots |-> {log[i]}]
    /\ UNCHANGED <<view, log>>

LosePower ==
    LET blocks == {b \in Block : may[b] /= {view[b]}}
        slots == {i \in 1..LogSlots : log_may[i] /= {log[i]}}
    IN  /\ \E v \in [blocks -> UNION {may[b] : b \in blocks}] :
            /\ \A b \in blocks : v[b] \in may[b]
            /\ view' = [b \in Block |-> IF b \in blocks THEN v[b] ELSE view[b]]
        /\ \E l \in [slots -> UNION {log_may[i] : i \in slots}] :
            /\ \A i \in slots : l[i] \in log_may[i]
            /\ log' = [i \in 1..LogSlots |-> IF i \in slots THEN l[i] ELSE log[i]]
        /\ may' = [b \in Block |-> {view'[b]}]
        /\ log_may' = [i \in 1..LogSlots |-> {log'[i]}]

-----------------------------------------------------------------------------
(* The window: a batch's overlay of the committed state.  taken holds what *)
(* its allocator will not hand out again: the blocks it allocated, less    *)
(* those it released.                                                      *)

NoWindow == [open |-> FALSE, names |-> [n \in Name |-> NoFile], orphans |-> {},
             next_object_id |-> 0, taken |-> {}, created |-> {},
             logged_created |-> {}, unlogged |-> <<>>, logged_records |-> 0,
             unloggable |-> FALSE]

Overlay(c) ==
    [NoWindow EXCEPT !.open = TRUE, !.names = c.names, !.orphans = c.orphans,
                     !.next_object_id = c.next_object_id]

TakeOrOpenWindow == IF window.open THEN window ELSE Overlay(checkpoint)

Allocatable(w) == Free(checkpoint) \ w.taken

Take(w, b) == [w EXCEPT !.taken = @ \cup ({b} \ {NoBlock})]

(* Mutant: a cancelled create always returns its run to the allocator.     *)
ReleasesLogged(w, f) ==
    IF f.id \in w.created
    THEN [w EXCEPT !.created = @ \ {f.id}, !.taken = @ \ {f.blk}]
    ELSE [w EXCEPT !.orphans = @ \cup {f}]

(* A create of this window is cancelled: its run is released, unless a     *)
(* durable record names it.  A committed file becomes an orphan.           *)
UnlinkInBatch(w, f) ==
    IF f.id \in w.created
    THEN [w EXCEPT !.created = @ \ {f.id},
                   !.taken = IF f.id \in w.logged_created THEN @ ELSE @ \ {f.blk}]
    ELSE [w EXCEPT !.orphans = @ \cup {f}]

CreateInBatch(w, n, f) ==
    [Take(w, f.blk) EXCEPT !.names[n] = f, !.created = @ \cup {f.id},
                           !.next_object_id = f.id + 1]

DeleteInBatch(w, n) == [UnlinkInBatch(w, w.names[n]) EXCEPT !.names[n] = NoFile]

RenameInBatch(w, n, m) ==
    IF n = m THEN w
    ELSE [(IF w.names[m] = NoFile THEN w ELSE UnlinkInBatch(w, w.names[m]))
            EXCEPT !.names[m] = w.names[n], !.names[n] = NoFile]

(* install_logged_file_range, install_logged_truncate: the file moves to   *)
(* its new block.  The one it leaves stays taken if the window allocated   *)
(* it, and is retired at the commit if a checkpoint did.                   *)
InstallInBatch(w, n, b, data) ==
    [Take(w, b) EXCEPT !.names[n].blk = b, !.names[n].data = data]

-----------------------------------------------------------------------------
(* Log records. *)

NoRecord == [base |-> 0, sequence |-> 0, ops |-> <<>>]

LogCreate(n, f) == [op |-> "create", name |-> n, id |-> f.id, ext |-> f.blk, data |-> f.data]
LogDelete(n) == [op |-> "delete", name |-> n, ext |-> NoBlock, data |-> <<>>]
LogRename(n, m, replace) ==
    [op |-> "rename", name |-> n, to |-> m, replace |-> replace,
     ext |-> NoBlock, data |-> <<>>]
LogUpdate(kind, f, b, data) ==
    [op |-> kind, id |-> f.id, size |-> Len(f.data), ext |-> b, data |-> data]

IsExistingFileUpdate(o) == o.op \in {"write", "truncate"}

NeedsDataBarrier(w) ==
    \E i \in 1..Len(w.unlogged) :
        IsExistingFileUpdate(w.unlogged[i]) /\ w.unlogged[i].ext /= NoBlock

Extents(r) == {r.ops[i].ext : i \in 1..Len(r.ops)} \ {NoBlock}

(* Every extent of r is named once, and by no earlier record.              *)
Disjoint(l, i) ==
    LET uses == {<<j, k>> \in (1..i) \X (1..MaxLogOps) :
                    k <= Len(l[j].ops) /\ l[j].ops[k].ext /= NoBlock}
    IN  \A u, v \in uses :
            u /= v => l[u[1]].ops[u[2]].ext /= l[v[1]].ops[v[2]].ext

(* The content checksum covers the bytes the operation knew of.            *)
Matches(r, cells) ==
    \A k \in 1..Len(r.ops) :
        r.ops[k].ext /= NoBlock => IsPrefix(r.ops[k].data, cells[r.ops[k].ext])

Bound(l, i, gen) == l[i].base = gen /\ l[i].sequence = i

(* scan: the valid record prefix for one base generation.                  *)
Scan(l, cells, gen) ==
    CHOOSE k \in 0..LogSlots :
        LET valid(i) == Bound(l, i, gen) /\ Disjoint(l, i) /\ Matches(l[i], cells)
        IN  (\A i \in 1..k : valid(i)) /\ (k < LogSlots => ~valid(k + 1))

-----------------------------------------------------------------------------
(* Replay: the same batch engine, over extents claimed beforehand.         *)

NameOf(w, id) == {n \in Name : w.names[n] /= NoFile /\ w.names[n].id = id}

Refused(w) == [w EXCEPT !.open = FALSE]

ApplyLogOp(w, o) ==
    CASE ~w.open -> w
      [] o.op = "create" ->
           IF w.names[o.name] /= NoFile \/ o.id < w.next_object_id THEN Refused(w)
           ELSE [CreateInBatch(w, o.name, [id |-> o.id, blk |-> o.ext, data |-> o.data])
                   EXCEPT !.logged_created = @ \cup {o.id}]
      [] o.op = "delete" ->
           IF w.names[o.name] = NoFile THEN Refused(w) ELSE DeleteInBatch(w, o.name)
      [] o.op = "rename" ->
           IF w.names[o.name] = NoFile
              \/ (o.name /= o.to /\ w.names[o.to] /= NoFile /\ ~o.replace)
           THEN Refused(w) ELSE RenameInBatch(w, o.name, o.to)
      [] OTHER ->
           IF \E n \in NameOf(w, o.id) : o.size = Len(w.names[n].data)
           THEN LET n == CHOOSE n \in NameOf(w, o.id) : TRUE
                IN  InstallInBatch(w, n, o.ext, o.data)
           ELSE Refused(w)

PrefixOps(l, k) == FlattenSeq([i \in 1..k |-> l[i].ops])
PrefixExtents(l, k) == UNION {Extents(l[i]) : i \in 1..k}

(* The overlay after the first k records, or one that is not open when an  *)
(* extent is not free in c or an operation is refused.                     *)
Replay(c, l, k) ==
    LET ops == PrefixOps(l, k)
        after[i \in 0..Len(ops)] ==
            IF i = 0 THEN [Overlay(c) EXCEPT !.taken = PrefixExtents(l, k)]
            ELSE ApplyLogOp(after[i - 1], ops[i])
    IN  IF PrefixExtents(l, k) \subseteq Free(c) THEN after[Len(ops)] ELSE Refused(NoWindow)

-----------------------------------------------------------------------------
(* materialize_batch: the overlay as the next checkpoint.  What the window *)
(* allocated, or c held, and the new checkpoint does not hold, goes into   *)
(* quarantine; so does the superseded metadata.                            *)
Materialize(c, w, meta) ==
    [gen |-> c.gen + 1, names |-> w.names, orphans |-> w.orphans,
     next_object_id |-> w.next_object_id, meta |-> meta,
     quar |-> [b \in Block |->
                 IF b = meta \/ b \in Held(w) THEN 0
                 ELSE IF b = c.meta \/ b \in Held(c) \cup w.taken THEN c.gen + 1
                 ELSE c.quar[b]]]

View(names) == [n \in Name |-> <<names[n].id /= 0, names[n].data>>]

Idle == step = "idle" /\ ~window_poisoned

(* One operation of the window, its data written when it is issued.        *)
WindowOp(kind, w, b, data) ==
    /\ kind \in workload
    /\ clock' = clock + 1
    /\ WriteBlock(b, data)
    /\ window' = w
    /\ UNCHANGED <<log, log_may, possible, step, volume, window_poisoned, staged,
                   promised>>

Logged(w, o) == [w EXCEPT !.unlogged = Append(@, o)]

CreateFile ==
    LET w == TakeOrOpenWindow IN
    \E n \in Name, b \in Allocatable(w) \cup {NoBlock} :
        LET data == IF b = NoBlock THEN <<>> ELSE <<clock + 1>>
            f == [id |-> w.next_object_id, blk |-> b, data |-> data]
        IN  /\ w.names[n] = NoFile
            /\ WindowOp("create", Logged(CreateInBatch(w, n, f), LogCreate(n, f)), b, data)

(* The create of this window, not yet in a record, that a delete or a      *)
(* replacing rename of f cancels.                                          *)
WindowCancelTarget(w, f) ==
    IF f.id \in w.created \ w.logged_created THEN {f.id} ELSE {}

Scrub(w, ids) ==
    [w EXCEPT !.unlogged = SelectSeq(@, LAMBDA o : ~(o.op = "create" /\ o.id \in ids))]

DeleteFile ==
    LET w == TakeOrOpenWindow IN
    \E n \in Name :
        LET cancelled == WindowCancelTarget(w, w.names[n])
            deleted == Scrub(DeleteInBatch(w, n), cancelled)
        IN  /\ w.names[n] /= NoFile
            /\ WindowOp("delete",
                        IF cancelled = {} THEN Logged(deleted, LogDelete(n)) ELSE deleted,
                        NoBlock, <<>>)

RenameFile ==
    LET w == TakeOrOpenWindow IN
    \E n, m \in Name, replace \in BOOLEAN :
        LET cancelled == IF replace /\ n /= m THEN WindowCancelTarget(w, w.names[m]) ELSE {}
        IN  /\ w.names[n] /= NoFile
            /\ replace \/ n = m \/ w.names[m] = NoFile
            /\ WindowOp(IF WindowCancelTarget(w, w.names[n]) = {} THEN "rename"
                        ELSE "rename_staged",
                        Logged(Scrub(RenameInBatch(w, n, m), cancelled),
                               LogRename(n, m, replace)),
                        NoBlock, <<>>)

(* An update of a committed file goes to a fresh block, always.            *)
UpdateFile(kind, n, b) ==
    LET w == TakeOrOpenWindow
        f == w.names[n]
        data == IF b = NoBlock THEN <<>> ELSE <<clock + 1>>
    IN  /\ f /= NoFile /\ f.id \notin w.created
        /\ WindowOp("update",
                    Logged(InstallInBatch(w, n, b, data), LogUpdate(kind, f, b, data)),
                    b, data)

WindowWriteFileAt ==
    \E n \in Name, b \in Allocatable(TakeOrOpenWindow) : UpdateFile("write", n, b)

(* A truncate to nothing, or in the middle of a block, carries no data or  *)
(* the part of the block that it keeps.                                    *)
WindowTruncateFile ==
    \E n \in Name, b \in Allocatable(TakeOrOpenWindow) \cup {NoBlock} :
        /\ Len(TakeOrOpenWindow.names[n].data) > 0
        /\ UpdateFile("truncate", n, b)

(* A write below the end of a file the window created, or a truncate: the  *)
(* file moves to a new run; the old one is released, or stays taken when   *)
(* a durable record names it.                                              *)
RewriteCreatedFile ==
    \E n \in Name, b \in Allocatable(window) :
        LET f == window.names[n]
            left == IF f.id \in window.logged_created
                    THEN [window EXCEPT !.logged_created = @ \ {f.id}]
                    ELSE [window EXCEPT !.taken = @ \ {f.blk}]
        IN  /\ f /= NoFile /\ f.id \in window.created
            /\ WindowOp("rewrite",
                        [InstallInBatch(left, n, b, <<clock + 1>>) EXCEPT !.unloggable = TRUE],
                        b, <<clock + 1>>)

(* An append to a file the window created grows its block in place.        *)
GrowCreatedFileInPlace ==
    \E n \in Name :
        LET f == window.names[n]
            data == Append(f.data, clock + 1)
        IN  /\ f.id \in window.created /\ f.blk /= NoBlock
            /\ WindowOp("grow", [window EXCEPT !.names[n].data = data, !.unloggable = TRUE],
                        f.blk, data)

(* CreateDirectory, RemoveDirectory: no record kind describes them.        *)
DirectoryOp == WindowOp("directory", [TakeOrOpenWindow EXCEPT !.unloggable = TRUE], NoBlock, <<>>)

(* A device error after the operation changed something: the window is     *)
(* dropped with what it staged, and the mount asks for a remount.          *)
WindowOpFailed ==
    LET w == TakeOrOpenWindow IN
    /\ clock' = clock + 1
    /\ \/ \E b \in Allocatable(w) \cup {NoBlock} : WriteBlock(b, <<clock + 1>>)
       \/ \E f \in Files(w) : /\ "grow" \in workload /\ f.id \in w.created /\ f.blk /= NoBlock
                              /\ WriteBlock(f.blk, Append(f.data, clock + 1))
    /\ window' = NoWindow
    /\ window_poisoned' = TRUE
    /\ UNCHANGED <<log, log_may, possible, step, volume, staged, promised>>

-----------------------------------------------------------------------------
(* window_fsync. *)

FsyncAllowed == Idle /\ window.open /\ ~window.unloggable

FsyncEmpty ==
    /\ FsyncAllowed /\ window.unlogged = <<>>
    /\ Flush
    /\ UNCHANGED <<possible, step, volume, window, window_poisoned, staged, clock, promised>>

GroupFits == window.unlogged /= <<>> /\ Len(window.unlogged) <= MaxLogOps

FsyncBarrier ==
    /\ FsyncAllowed /\ GroupFits /\ NeedsDataBarrier(window)
    /\ Flush
    /\ step' = IF window.logged_records < LogSlots THEN "barrier" ELSE "idle"
    /\ UNCHANGED <<possible, volume, window, window_poisoned, staged, clock, promised>>

Poison ==
    /\ step' = "idle"
    /\ window_poisoned' = TRUE
    /\ UNCHANGED <<possible, volume, window, staged, clock>>

FsyncBarrierFailed ==
    /\ FsyncAllowed /\ GroupFits /\ NeedsDataBarrier(window)
    /\ Poison
    /\ UNCHANGED <<device, promised>>

AtRecord ==
    /\ \/ step = "barrier"
       \/ FsyncAllowed /\ GroupFits /\ ~NeedsDataBarrier(window)
    /\ window.logged_records < LogSlots

NextSequence == window.logged_records + 1

NextRecord == [base |-> checkpoint.gen, sequence |-> NextSequence, ops |-> window.unlogged]

WriteRecord(r) ==
    /\ log' = [log EXCEPT ![NextSequence] = r]
    /\ log_may' = [log_may EXCEPT ![NextSequence] = @ \cup {r, NoRecord}]
    /\ promised' = promised \cup {View(window.names)}
    /\ UNCHANGED <<view, may>>

FsyncRecord ==
    /\ AtRecord
    /\ WriteRecord(NextRecord)
    /\ step' = "record"
    /\ UNCHANGED <<possible, volume, window, window_poisoned, staged, clock>>

FsyncRecordFailed ==
    /\ AtRecord
    /\ \/ UNCHANGED <<device, promised>>
       \/ \E r \in {NextRecord, NoRecord} : WriteRecord(r)
    /\ Poison

FsyncDone ==
    /\ step = "record"
    /\ Flush
    /\ window' = [window EXCEPT
          !.logged_records = NextSequence,
          !.unlogged = <<>>,
          !.logged_created =
             @ \cup {o.id : o \in {window.unlogged[i] : i \in
                        {j \in 1..Len(window.unlogged) : window.unlogged[j].op = "create"}}}]
    /\ promised' = {View(window.names)}
    /\ step' = "idle"
    /\ UNCHANGED <<possible, volume, window_poisoned, staged, clock>>

FsyncFlushFailed == step = "record" /\ Poison /\ UNCHANGED <<device, promised>>

-----------------------------------------------------------------------------
(* Publication: of a window, of an immediate transaction, of a replay.     *)

(* Metadata goes to a block the window's allocator hands out.  Its content *)
(* matches no record, as a tear does not.                                  *)
StageCheckpoint(kind, c, meta) ==
    /\ checkpoint.gen < MaxGen
    /\ WriteBlock(meta, Torn)
    /\ staged' = c
    /\ step' = kind
    /\ UNCHANGED <<log, log_may, possible, volume, window_poisoned, clock, promised>>

(* Everything cancelled out: no record of the batch is left to publish.    *)
NothingPending(w) ==
    /\ w.names = checkpoint.names /\ w.orphans = checkpoint.orphans
    /\ \A i \in 1..Len(w.unlogged) :
        w.unlogged[i].op = "rename" /\ w.unlogged[i].name = w.unlogged[i].to

(* Mutant: a window that cancelled out is never published, logged or not.  *)
NeverForced == ~NothingPending(window)

(* A window with a record in the log is always published.                  *)
MustPublish == window.logged_records > 0 \/ ~NothingPending(window)

WindowCommit ==
    /\ Idle /\ window.open
    /\ MustPublish \/ window.unloggable
    /\ \E meta \in Allocatable(window) :
        StageCheckpoint("window", Materialize(checkpoint, window, meta), meta)
    /\ window' = NoWindow

WindowCommitNothing ==
    /\ Idle /\ window.open /\ ~MustPublish
    /\ window' = NoWindow
    /\ UNCHANGED <<device, possible, step, volume, window_poisoned, staged, clock, promised>>

(* The materialization fails, for want of space or in the device, before   *)
(* publication: the window is gone and the mount asks for a remount.       *)
WindowCommitFailed ==
    /\ \/ Idle /\ window.open
       \/ step = "window"
    /\ window' = NoWindow
    /\ window_poisoned' = TRUE
    /\ step' = "idle"
    /\ staged' = checkpoint
    /\ UNCHANGED <<device, possible, volume, clock, promised>>

(* An immediate transaction, the window being closed: orphan cleanup and   *)
(* reclaim, which promotes what neither valid slot can reach.              *)
Oldest == IF other /= 0 /\ other < checkpoint.gen THEN other ELSE checkpoint.gen

Promoted == {b \in Block : checkpoint.quar[b] \in 1..Oldest}

Maintain ==
    /\ Idle /\ ~window.open
    /\ \E meta \in Free(checkpoint) \cup Promoted :
        LET cleaned == [Overlay(checkpoint) EXCEPT !.orphans = {}]
            c == Materialize(checkpoint, cleaned, meta)
        IN  StageCheckpoint("immediate",
                [c EXCEPT !.quar = [b \in Block |-> IF b \in Promoted THEN 0 ELSE c.quar[b]]],
                meta)
    /\ UNCHANGED window

MaintainFailed ==
    /\ step = "immediate"
    /\ step' = "idle"
    /\ staged' = checkpoint
    /\ UNCHANGED <<device, possible, volume, window, window_poisoned, clock, promised>>

Publishing == step \in {"window", "immediate", "replay"}

Published ==
    /\ Publishing
    /\ Flush
    /\ possible' = {SlotPair(staged, checkpoint.gen)}
    /\ checkpoint' = staged /\ other' = checkpoint.gen
    /\ promised' = {View(staged.names)}
    /\ step' = "idle"
    /\ UNCHANGED <<window, window_poisoned, staged, clock>>

(* An error while the slot is written or flushed.  A replay's fails the    *)
(* mount; the volume that tried it is gone.                                *)
Uncertain ==
    /\ Publishing
    /\ Flush
    /\ possible' = possible \cup {SlotPair(checkpoint, 0), SlotPair(staged, checkpoint.gen)}
    /\ promised' = promised \cup {View(staged.names)}
    /\ window_poisoned' = (step /= "replay")
    /\ step' = IF step = "replay" THEN "down" ELSE "idle"
    /\ UNCHANGED <<volume, window, staged, clock>>

(* window_discard, which the VFS calls when window_commit fails.  What it  *)
(* does after an uncertain publication is in CheckpointCommit.             *)
WindowDiscard ==
    /\ step = "idle" /\ window_poisoned /\ Cardinality(possible) = 1
    /\ window' = NoWindow
    /\ window_poisoned' = FALSE
    /\ UNCHANGED <<device, possible, step, volume, staged, clock, promised>>

-----------------------------------------------------------------------------
(* Mount, replay, unmount, power cut. *)

ScannedRecords(p) == Scan(log, view, p.c.gen)

Recovered(p) == Replay(p.c, log, ScannedRecords(p))

(* After an uncertain publication only a power cut settles the slots here; *)
(* CheckpointCommit has the remount that goes on with the same device.     *)
Mount ==
    /\ step = "down" /\ Cardinality(possible) = 1
    /\ \E p \in possible :
        /\ checkpoint' = p.c /\ other' = p.other /\ staged' = p.c
        /\ \/ /\ ScannedRecords(p) = 0
              /\ step' = "idle"
              /\ window' = NoWindow
              /\ promised' = {View(p.c.names)}
           \/ /\ ScannedRecords(p) > 0
              /\ window' = Recovered(p)
              /\ window'.open
              /\ step' = "claimed"
              /\ promised' = promised
    /\ window_poisoned' = FALSE
    /\ UNCHANGED <<device, possible, clock>>

ReplayWrite ==
    /\ step = "claimed"
    /\ \E meta \in Allocatable(window) :
        StageCheckpoint("replay", Materialize(checkpoint, window, meta), meta)
    /\ window' = NoWindow

ReplayFailed ==
    /\ step \in {"claimed", "replay"}
    /\ step' = "down"
    /\ window' = NoWindow
    /\ staged' = checkpoint
    /\ UNCHANGED <<device, possible, volume, window_poisoned, clock, promised>>

Forget ==
    /\ step' = "down"
    /\ window' = NoWindow
    /\ window_poisoned' = FALSE
    /\ \E p \in possible' : checkpoint' = p.c /\ other' = p.other /\ staged' = p.c
    /\ UNCHANGED <<clock, promised>>

(* The volume is dropped, with its window; the device goes on.             *)
Unmount ==
    /\ step = "idle"
    /\ UNCHANGED <<device, possible>>
    /\ Forget

PowerCut ==
    /\ LosePower
    /\ \E p \in possible : possible' = {p}
    /\ Forget

Init ==
    /\ \E meta \in Block, n \in Name, b \in Block :
        /\ meta /= b
        /\ checkpoint =
             [gen |-> 1, orphans |-> {}, next_object_id |-> 2, meta |-> meta,
              names |-> [m \in Name |-> IF m = n THEN [id |-> 1, blk |-> b, data |-> <<1>>]
                                        ELSE NoFile],
              quar |-> [x \in Block |-> 0]]
        /\ view = [x \in Block |-> IF x = b THEN <<1>> ELSE Torn]
    /\ may = [b \in Block |-> {view[b]}]
    /\ log = [i \in 1..LogSlots |-> NoRecord]
    /\ log_may = [i \in 1..LogSlots |-> {NoRecord}]
    /\ other = 0
    /\ possible = {SlotPair(checkpoint, 0)}
    /\ staged = checkpoint
    /\ step = "down"
    /\ window = NoWindow
    /\ window_poisoned = FALSE
    /\ clock = 1
    /\ workload \in Workloads
    /\ promised = {View(checkpoint.names)}

(* A mount that is poisoned, or busy with another call, takes none.        *)
Operations ==
    /\ Idle /\ clock < MaxOps
    /\ \/ CreateFile \/ DeleteFile \/ RenameFile
       \/ WindowWriteFileAt \/ WindowTruncateFile
       \/ RewriteCreatedFile \/ GrowCreatedFileInPlace \/ DirectoryOp \/ WindowOpFailed

Fsync ==
    \/ FsyncEmpty \/ FsyncBarrier \/ FsyncBarrierFailed
    \/ FsyncRecord \/ FsyncRecordFailed \/ FsyncDone \/ FsyncFlushFailed

Commit ==
    \/ WindowCommit \/ WindowCommitNothing \/ WindowCommitFailed
    \/ Maintain \/ MaintainFailed \/ Published \/ Uncertain

Next ==
    /\ workload' = workload
    /\ \/ Operations \/ Fsync \/ Commit \/ Mount \/ ReplayWrite \/ ReplayFailed
       \/ Unmount \/ PowerCut

Spec == Init /\ [][Next]_vars

VfsNext == Next \/ (WindowDiscard /\ workload' = workload)

VfsSpec == Init /\ [][VfsNext]_vars

-----------------------------------------------------------------------------
(* Properties. *)

(* A mount after any crash, at any point of an operation, an fsync, a      *)
(* commit or an earlier replay, finds the fsynced prefix whole and nothing *)
(* beyond it, but for the one group whose fsync had not returned: names    *)
(* and bytes are those a caller was promised (recover_intent_log).         *)
RecoveryExact ==
    step = "down" => \A p \in possible :
        LET w == Recovered(p)
        IN  w.open =>
              /\ View(w.names) \in promised
              /\ \A f \in Files(w) : f.blk /= NoBlock => IsPrefix(f.data, view[f.blk])

(* The log never refuses to replay: every logged extent is free in the     *)
(* base checkpoint, and every logged operation applies after the ones      *)
(* before it (apply_log_op, allocate_exact_run).                           *)
ReplaySucceeds == step = "down" => \A p \in possible : Recovered(p).open

=============================================================================
