--------------------------- MODULE SnapshotLedger ---------------------------
(***************************************************************************)
(* The snapshot registry and the lifetime ledger (ADR-071 to ADR-074): the *)
(* runs of blocks that the namespace ever allocated, with the generations  *)
(* of their birth and retirement, edited in every commit and scanned a     *)
(* page at a time for runs that no view needs.                             *)
(***************************************************************************)
EXTENDS Integers, FiniteSets, SequencesExt

CONSTANTS
    LastBlock,          \* bound: namespace blocks 1 .. LastBlock
    MaxEditRecords,     \* SnapshotWorkLimits
    MaxViews,
    ReclaimRecords,
    MaxGen,             \* bound: commits that change the namespace or views
    IdleCommits,        \* bound: further commits of maintenance alone
    MaxHandles          \* bound: reader leases

VARIABLES
    tree,       \* ledger records: [start, count, birth, retirement]
    control,    \* the ledger's key zero: [position, retained]
    registry,   \* [views, next], a view is [id, gen, blocks]
    pool,       \* free blocks and the reclaim queue: [free, queue]
    current,    \* generation of the checkpoint
    slot,       \* the other checkpoint: [gen, views]
    readers,    \* handles: [id, mount]
    mounts,     \* how often the volume was mounted
    idle        \* no caller changes the volume any more

ledger_vars == <<tree, control, registry, pool, current, slot, readers, mounts, idle>>

NamespaceBlocks == 1 .. LastBlock
RunBlocks(r) == r.start .. r.start + r.count - 1
RunEnd(r) == r.start + r.count

(* Mutant: a view taken at the commit that allocated the run does not need *)
(* it.                                                                     *)
BornLater(r, g) == r.birth < g /\ g < r.retirement

Covers(r, g) == r.birth <= g /\ g < r.retirement

InRuns(runs) == UNION {RunBlocks(r) : r \in runs}
Live == InRuns({r \in tree : r.retirement = 0})
Retired(runs) == {r \in runs : r.retirement /= 0}

(* Maximal runs of a set of blocks (RunSet).                               *)
RunsOf(blocks) ==
    {[start |-> r[1], count |-> r[2] - r[1] + 1] :
        r \in {r \in blocks \X blocks :
                 /\ r[1] <= r[2] /\ r[1] .. r[2] \subseteq blocks
                 /\ r[1] - 1 \notin blocks /\ r[2] + 1 \notin blocks}}

-----------------------------------------------------------------------------
(* mutate_lifetimes: an overlay over the records near the changes.         *)

(* The runs in the order of their keys.                                    *)
ByStart(runs) ==
    [i \in 1 .. Cardinality(runs) |->
        CHOOSE r \in runs : Cardinality({s \in runs : s.start < r.start}) = i - 1]

(* The record before a changed range, those in it and the one after.       *)
Remembered(changed) ==
    UNION {LET before == {r \in tree : r.start < c.start}
               after == {r \in tree : r.start >= RunEnd(c)}
           IN  {r \in tree : r.start \in RunBlocks(c)}
                 \union {r \in before : \A s \in before : s.start <= r.start}
                 \union {r \in after : \A s \in after : s.start >= r.start}
           : c \in changed}

(* A live record is cut at the ends of the retired run.                    *)
RetireIn(r, blocks) ==
    {[start |-> s.start, count |-> s.count, birth |-> r.birth, retirement |-> current + 1]
        : s \in RunsOf(RunBlocks(r) \intersect blocks)}
    \union
    {[start |-> s.start, count |-> s.count, birth |-> r.birth, retirement |-> 0]
        : s \in RunsOf(RunBlocks(r) \ blocks)}

Canonicalize(runs) ==
    LET add(seq, r) ==
          IF seq /= <<>> /\ RunEnd(Last(seq)) = r.start
                         /\ Last(seq).birth = r.birth /\ Last(seq).retirement = r.retirement
          THEN [seq EXCEPT ![Len(seq)].count = @ + r.count]
          ELSE Append(seq, r)
    IN  ToSet(FoldLeft(add, <<>>, ByStart(runs)))

RetainedSum(runs) == Cardinality(InRuns(Retired(runs)))

-----------------------------------------------------------------------------
(* A commit.  The page of records from the scan position, and those of it  *)
(* that no registered view contains, go with every commit.                 *)

PageStart == Max({control.position, 1})
PageRecords ==
    LET from == ByStart({r \in tree : r.start >= PageStart})
    IN  SubSeq(from, 1, Min({ReclaimRecords, Len(from)}))

(* Mutant: the scan stays at the end of the ledger.                        *)
NeverWraps == IF PageRecords = <<>> THEN control.position ELSE Last(PageRecords).start + 1

NextPosition ==
    IF Cardinality({r \in tree : r.start >= PageStart}) > ReclaimRecords
    THEN Last(PageRecords).start + 1 ELSE 0

Needed(r) == \E v \in registry.views : Covers(r, v.gen)

Transfers ==
    IF control.retained = 0 THEN {}
    ELSE {r \in Retired(ToSet(PageRecords)) : ~Needed(r)}

Promoted == {q[1] : q \in {q \in pool.queue : q[2] <= slot.gen}}

(* allocated and retired are blocks of the namespace.  A ledger edit that  *)
(* holds more records than the budget refuses the transaction.             *)
Edited(original, allocated, retired) ==
    {[start |-> s.start, count |-> s.count, birth |-> current + 1, retirement |-> 0]
        : s \in RunsOf(allocated)}
    \union UNION {RetireIn(r, retired) : r \in original \ Retired(original)}
    \union Retired(original)

Commit(allocated, retired, new_registry) ==
    \E transfers \in {Transfers}, promoted \in {Promoted} :
    \E original \in {Remembered(RunsOf(allocated) \union RunsOf(retired) \union transfers)} :
    \E edited \in {Edited(original, allocated, retired)} :
    \E kept \in {Canonicalize(edited \ transfers)} :
        /\ Cardinality(original) <= MaxEditRecords
        /\ Cardinality(edited) <= MaxEditRecords \/ allocated \union retired = {}
        /\ tree' = (tree \ original) \union kept
        /\ control' = [position |-> IF control.retained = 0 THEN control.position ELSE NextPosition,
                       retained |-> control.retained - RetainedSum(original) + RetainedSum(kept)]
        /\ pool' = [free |-> (pool.free \union promoted) \ allocated,
                    queue |-> {q \in pool.queue : q[1] \notin promoted}
                                \union {<<b, current + 1>> : b \in InRuns(transfers)}]
        /\ current' = current + 1
        /\ slot' = [gen |-> current, views |-> registry.views]
        /\ registry' = new_registry

Foreground(allocated, retired, new_registry) ==
    /\ ~idle /\ current < MaxGen
    /\ Commit(allocated, retired, new_registry)
    /\ UNCHANGED <<readers, mounts, idle>>

ChangeNamespace ==
    \E allocated \in SUBSET (pool.free \union Promoted), retired \in SUBSET Live :
        /\ allocated \union retired /= {}
        /\ Foreground(allocated, retired, registry)

SnapshotCreate ==
    /\ Cardinality(registry.views) < MaxViews
    /\ Foreground({}, {},
          [views |-> registry.views \union {[id |-> registry.next, gen |-> current, blocks |-> Live]},
           next |-> registry.next + 1])

Leased(id) == \E h \in readers : h.id = id /\ h.mount = mounts

SnapshotDelete ==
    \E v \in registry.views :
        /\ ~Leased(v.id)
        /\ Foreground({}, {}, [registry EXCEPT !.views = @ \ {v}])

SnapshotOpen ==
    /\ Cardinality(readers) < MaxHandles
    /\ \E v \in registry.views : readers' = readers \union {[id |-> v.id, mount |-> mounts]}
    /\ UNCHANGED <<tree, control, registry, pool, current, slot, mounts, idle>>

DropHandle ==
    /\ \E h \in readers : readers' = readers \ {h}
    /\ UNCHANGED <<tree, control, registry, pool, current, slot, mounts, idle>>

(* Handles of an earlier mount are stale.                                  *)
Remount ==
    /\ mounts < MaxHandles /\ readers /= {}
    /\ mounts' = mounts + 1
    /\ UNCHANGED <<tree, control, registry, pool, current, slot, readers, idle>>

(* snapshot_maintenance_step, reclaim_step.                                *)
MaintenanceStep ==
    /\ pool.queue /= {} \/ control.retained /= 0
    /\ current < IF idle THEN MaxGen + IdleCommits ELSE MaxGen
    /\ Commit({}, {}, registry)
    /\ UNCHANGED <<readers, mounts, idle>>

CallersStop == ~idle /\ idle' = TRUE
               /\ UNCHANGED <<tree, control, registry, pool, current, slot, readers, mounts>>

LedgerInit ==
    /\ tree = {} /\ control = [position |-> 0, retained |-> 0]
    /\ registry = [views |-> {}, next |-> 1]
    /\ pool = [free |-> NamespaceBlocks, queue |-> {}]
    /\ current = 0 /\ slot = [gen |-> 0, views |-> {}]
    /\ readers = {} /\ mounts = 1 /\ idle = FALSE

LedgerNext ==
    \/ ChangeNamespace \/ SnapshotCreate \/ SnapshotDelete
    \/ SnapshotOpen \/ DropHandle \/ Remount
    \/ MaintenanceStep \/ CallersStop

LedgerSpec == LedgerInit /\ [][LedgerNext]_ledger_vars /\ WF_ledger_vars(MaintenanceStep)

-----------------------------------------------------------------------------
(* Properties. *)

BlockState(b) ==
    LET runs == {r \in tree : b \in RunBlocks(r)}
        queued == {q \in pool.queue : q[1] = b}
    IN  CASE b \in pool.free -> [state |-> "free", birth |-> 0, end |-> 0]
          [] runs /= {} /\ b \notin pool.free ->
               LET r == CHOOSE r \in runs : TRUE
               IN  [state |-> IF r.retirement = 0 THEN "live" ELSE "retained",
                    birth |-> r.birth, end |-> r.retirement]
          [] OTHER -> [state |-> "queued", birth |-> 0,
                       end |-> (CHOOSE q \in queued : TRUE)[2]]

Plain(vs) == {[gen |-> v.gen, blocks |-> v.blocks] : v \in vs}

Retention == INSTANCE SnapshotRetention WITH
    Blocks <- NamespaceBlocks,
    gen <- current,
    block <- [b \in NamespaceBlocks |-> BlockState(b)],
    views <- Plain(registry.views),
    prior <- [gen |-> slot.gen, views |-> Plain(slot.views)]

(* The runs, the page scan and the merged records do no more than the      *)
(* retention rule allows: no transfer of a run that a view contains.       *)
ImplementsRetention == Retention!RetentionSpec

(* Once callers stop, every retained block that no view needs is free in   *)
(* the end, wherever the scan position was (read_lifetime_page).           *)
RetainedReturns ==
    idle ~> \A b \in NamespaceBlocks :
               b \in pool.free \/ \E r \in tree : b \in RunBlocks(r) /\ (r.retirement = 0 \/ Needed(r))
=============================================================================
