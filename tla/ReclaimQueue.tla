----------------------------- MODULE ReclaimQueue -----------------------------
(***************************************************************************)
(* The persistent reclaim queue (ADR-036): retired runs wait in a root     *)
(* block, in sealed segments and in tables of segments, until no selectable*)
(* checkpoint reaches them; a transaction consumes a batch from the head   *)
(* through a cursor and appends what it retired, the queue's own superseded*)
(* blocks included.                                                        *)
(*                                                                         *)
(* Only committed transactions appear: CheckpointCommit has the ones that  *)
(* fail, which leave the committed queue as it was.  Generations are       *)
(* counted from the mounted checkpoint: 0 is its own and -1 stands for     *)
(* every earlier one, for that is all the code compares them with.  A      *)
(* reference holds the block it names: sealed blocks are never rewritten.  *)
(***************************************************************************)
EXTENDS Integers, Sequences, FiniteSets, FiniteSetsExt
LOCAL INSTANCE SequencesExt

CONSTANTS
    Geometries,   \* the volumes considered: blocks, and what each area holds
    Batch         \* reclaim_batch_blocks

Geometry ==
    [blocks : Nat \ {0},                                   \* the blocks are 1..N
     inline_entries : Nat \ {0}, segment_refs : Nat \ {0}, tables : Nat \ {0},
     segment_entries : Nat \ {0}, table_refs : Nat \ {0},  \* what a sealed block holds
     grow : Nat]       \* bound: blocks a transaction allocates for its caller

ASSUME GeometriesAssumption == Geometries \subseteq Geometry
ASSUME BatchAssumption == Batch \in Nat \ {0}

VARIABLES
    geometry,   \* fixed by mkfs
    root,       \* the committed ReclaimRoot
    root_lba,   \* where it lies
    live,       \* the blocks everything else of the committed state holds
    free,       \* the blocks whose allocation bit is clear
    protected   \* oldest_protected_generation

vars == <<geometry, root, root_lba, live, free, protected>>

N == geometry.blocks
Block == 1..N
InlineCap == geometry.inline_entries
SegmentRefCap == geometry.segment_refs
TableCap == geometry.tables
SegmentEntryCap == geometry.segment_entries
TableRefCap == geometry.table_refs

Entry(start, blocks, gen) ==
    [start |-> start, blocks |-> blocks, retire_generation |-> gen]

EmptyRoot ==
    [table_refs |-> <<>>, segment_refs |-> <<>>, inline_entries |-> <<>>,
     head_segment_offset |-> 0, head_entry_offset |-> 0, head_block_offset |-> 0,
     pending_blocks |-> 0]

-----------------------------------------------------------------------------
(* load_all: the unconsumed runs in order, and the queue's own blocks. *)

Cut(s, k) == SubSeq(s, k + 1, Len(s))

(* What the cursor leaves of the head segment.                             *)
PastCursor(r, entries) ==
    LET rest == Cut(entries, r.head_entry_offset)
    IN  [rest EXCEPT ![1] = [@ EXCEPT !.start = @ + r.head_block_offset,
                                      !.blocks = @ - r.head_block_offset]]

(* The segments still to be read, oldest first.                            *)
Segments(r) ==
    Cut(FoldLeft(LAMBDA refs, t : refs \o t.refs, <<>>, r.table_refs),
        r.head_segment_offset)
    \o r.segment_refs

Runs(r) ==
    LET segments == Segments(r)
    IN  IF segments = <<>> THEN r.inline_entries
        ELSE FoldLeft(LAMBDA runs, s : runs \o s.entries,
                      PastCursor(r, segments[1].entries), Tail(segments))
             \o r.inline_entries

Structure(r) ==
    {t.lba : t \in ToSet(r.table_refs)}
    \cup {s.lba : s \in ToSet(Segments(r))}

Covers(e) == e.start .. (e.start + e.blocks - 1)

Quarantine(r) == UNION {Covers(e) : e \in ToSet(Runs(r))}

-----------------------------------------------------------------------------
(* consume: one block off the head.  t is the transaction's working root,  *)
(* the blocks it promoted and the sealed blocks it finished with.          *)

ConsumeInline(t) ==
    LET e == t.root.inline_entries[1]
        rest == Tail(t.root.inline_entries)
    IN  IF t.root.inline_entries = <<>> \/ e.retire_generation > protected THEN t
        ELSE [t EXCEPT
                !.promoted = Append(@, e.start),
                !.root.inline_entries =
                    IF e.blocks = 1 THEN rest
                    ELSE <<Entry(e.start + 1, e.blocks - 1, e.retire_generation)>> \o rest]

(* Mutant: a finished table is dropped and its block is never retired.     *)
LeaksTable(t, segment) ==
    LET r == t.root
        advanced == [t EXCEPT !.consumed = Append(@, segment.lba),
                              !.root.head_entry_offset = 0,
                              !.root.head_block_offset = 0]
    IN  IF r.table_refs = <<>> THEN [advanced EXCEPT !.root.segment_refs = Tail(@)]
        ELSE IF r.head_segment_offset + 1 < Len(r.table_refs[1].refs)
        THEN [advanced EXCEPT !.root.head_segment_offset = @ + 1]
        ELSE [advanced EXCEPT !.root.table_refs = Tail(@),
                              !.root.head_segment_offset = 0]

(* The head segment is used up: so is its table, if it was the last of it. *)
FinishSegment(t, segment) ==
    LET r == t.root
        advanced == [t EXCEPT !.consumed = Append(@, segment.lba),
                              !.root.head_entry_offset = 0,
                              !.root.head_block_offset = 0]
    IN  IF r.table_refs = <<>> THEN [advanced EXCEPT !.root.segment_refs = Tail(@)]
        ELSE IF r.head_segment_offset + 1 < Len(r.table_refs[1].refs)
        THEN [advanced EXCEPT !.root.head_segment_offset = @ + 1]
        ELSE [advanced EXCEPT !.consumed = Append(@, r.table_refs[1].lba),
                              !.root.table_refs = Tail(@),
                              !.root.head_segment_offset = 0]

(* Mutant: what a checkpoint still protects is promoted from a segment.    *)
IgnoresProtection(t, segment) ==
    LET r == t.root
        e == segment.entries[r.head_entry_offset + 1]
        taken == [t EXCEPT !.promoted = Append(@, e.start + r.head_block_offset)]
    IN  IF r.head_block_offset + 1 < e.blocks
        THEN [taken EXCEPT !.root.head_block_offset = @ + 1]
        ELSE IF r.head_entry_offset + 1 < Len(segment.entries)
        THEN [taken EXCEPT !.root.head_entry_offset = @ + 1, !.root.head_block_offset = 0]
        ELSE FinishSegment(taken, segment)

ConsumeSegment(t, segment) ==
    LET r == t.root
        e == segment.entries[r.head_entry_offset + 1]
        taken == [t EXCEPT !.promoted = Append(@, e.start + r.head_block_offset)]
    IN  IF e.retire_generation > protected THEN t
        ELSE IF r.head_block_offset + 1 < e.blocks
        THEN [taken EXCEPT !.root.head_block_offset = @ + 1]
        ELSE IF r.head_entry_offset + 1 < Len(segment.entries)
        THEN [taken EXCEPT !.root.head_entry_offset = @ + 1, !.root.head_block_offset = 0]
        ELSE FinishSegment(taken, segment)

ConsumeBlock(t) ==
    IF Segments(t.root) = <<>> THEN ConsumeInline(t)
    ELSE ConsumeSegment(t, Segments(t.root)[1])

Consume(r, budget) ==
    LET after[k \in 0..budget] ==
            IF k = 0 THEN [root |-> r, promoted |-> <<>>, consumed |-> <<>>]
            ELSE ConsumeBlock(after[k - 1])
    IN  after[budget]

-----------------------------------------------------------------------------
(* plan and build: the appends, and what has to be sealed to hold them. *)

(* How many chunks leave an area of n elements for it to hold cap at most. *)
Sealed(n, cap, chunk) ==
    CHOOSE k \in 0..n :
        n - chunk * k <= cap /\ \A j \in 0..(k - 1) : n - chunk * j > cap

Chunk(s, i, chunk) == SubSeq(s, (i - 1) * chunk + 1, Min({i * chunk, Len(s)}))

(* The superseded root and the sealed blocks consumed are retired too.     *)
StructureRetired(t) ==
    LET lbas == Append(t.consumed, root_lba)
    IN  [i \in 1..Len(lbas) |-> Entry(lbas[i], 1, 1)]

Plan(t, runs) ==
    LET appends == runs \o StructureRetired(t)
        entries == t.root.inline_entries \o appends
        segments == Sealed(Len(entries), InlineCap, SegmentEntryCap)
        tables == Sealed(Len(t.root.segment_refs) + segments, SegmentRefCap, TableRefCap)
    IN  [appends |-> appends, entries |-> entries, segments |-> segments, tables |-> tables]

Planned(p) == p.segments + p.tables + 1

(* plan refuses a backlog for which the root has no table reference left.  *)
WithinCapacity(t, p) == Len(t.root.table_refs) + p.tables <= TableCap

BlockCount(entries) == FoldLeft(LAMBDA n, e : n + e.blocks, 0, entries)

(* The blocks of lbas, in order: segments, tables, and the root last.      *)
Build(t, p, lbas) ==
    LET refs == t.root.segment_refs \o
                [i \in 1..p.segments |->
                    [lba |-> lbas[i], entries |-> Chunk(p.entries, i, SegmentEntryCap)]]
        tables == [i \in 1..p.tables |->
                    [lba |-> lbas[p.segments + i], refs |-> Chunk(refs, i, TableRefCap)]]
    IN  [t.root EXCEPT !.inline_entries = Cut(p.entries, p.segments * SegmentEntryCap),
                       !.segment_refs = Cut(refs, p.tables * TableRefCap),
                       !.table_refs = @ \o tables,
                       !.pending_blocks = @ + BlockCount(p.appends) - Len(t.promoted)]

-----------------------------------------------------------------------------
(* Transactions. *)

(* The generations as counted from the checkpoint just published.          *)
Rebase(r) ==
    LET aged(e) == [e EXCEPT !.retire_generation = IF @ = 1 THEN 0 ELSE -1]
        segment(s) == [s EXCEPT !.entries = [i \in 1..Len(@) |-> aged(@[i])]]
    IN  [r EXCEPT !.inline_entries = [i \in 1..Len(@) |-> aged(@[i])],
                  !.segment_refs = [i \in 1..Len(@) |-> segment(@[i])],
                  !.table_refs = [i \in 1..Len(@) |->
                      [@[i] EXCEPT !.refs = [j \in 1..Len(@) |-> segment(@[j])]]]]

(* The allocator's choice does not matter to the queue: lowest first.      *)
Lowest(S, k) ==
    [i \in 1..k |-> CHOOSE b \in S : Cardinality({a \in S : a < b}) = i - 1]

(* The run a transaction retires for its caller, or none.                  *)
Retirable ==
    {<<>>} \cup {<<Entry(s, n, 1)>> : s \in live, n \in 1..N}

(* One committed transaction: it promotes, allocates, retires, and then    *)
(* rebuilds the queue.  It fails, and changes nothing, without the space   *)
(* for the rebuild or without room for another table.                      *)
Commit(budget, grow, runs) ==
    LET t == Consume(root, budget)
        p == Plan(t, runs)
        available == free \cup ToSet(t.promoted)
        given == ToSet(Lowest(available, grow))
        lbas == Lowest(available \ given, Planned(p))
        retired == UNION {Covers(e) : e \in ToSet(runs)}
    IN  /\ retired \subseteq live
        /\ grow + Planned(p) <= Cardinality(available)
        /\ WithinCapacity(t, p)
        /\ root' = Rebase(Build(t, p, lbas))
        /\ root_lba' = lbas[Planned(p)]
        /\ live' = (live \ retired) \cup given
        /\ free' = available \ (given \cup ToSet(lbas))
        /\ protected' = -1

(* An operation of its own; a window, whose allocator promotes nothing;    *)
(* and the maintenance step that only reclaims.                            *)
Immediate == \E grow \in 0..geometry.grow : \E runs \in Retirable : Commit(Batch, grow, runs)
Window == \E grow \in 0..geometry.grow : \E runs \in Retirable : Commit(0, grow, runs)
ReclaimStep == root.pending_blocks > 0 /\ Commit(Batch, 0, <<>>)

(* A mount that finds the other slot torn protects its own generation only.*)
LoseOther == protected' = 0 /\ UNCHANGED <<root, root_lba, live, free>>

(* mkfs: an empty root, and some blocks in use.                            *)
Init ==
    /\ geometry \in Geometries
    /\ root = EmptyRoot
    /\ root_lba = 1
    /\ \E k \in 1..N : live = 2..k /\ free = (k + 1)..N
    /\ protected = 0

Next ==
    /\ geometry' = geometry
    /\ Immediate \/ Window \/ ReclaimStep \/ LoseOther

Spec == Init /\ [][Next]_vars

-----------------------------------------------------------------------------
(* Properties. *)

(* The root as its codec admits it: no area over its capacity, no sealed   *)
(* block empty or overfull, and a cursor that names an unconsumed block    *)
(* (ReclaimRoot::validate, which a commit or a mount would fail on).       *)
RootValid ==
    /\ Len(root.table_refs) <= TableCap
    /\ Len(root.segment_refs) <= SegmentRefCap
    /\ Len(root.inline_entries) <= InlineCap
    /\ \A t \in ToSet(root.table_refs) : Len(t.refs) \in 1..TableRefCap
    /\ \A s \in ToSet(Segments(root)) : Len(s.entries) \in 1..SegmentEntryCap
    /\ IF root.table_refs = <<>> THEN root.head_segment_offset = 0
       ELSE root.head_segment_offset < Len(root.table_refs[1].refs)
    /\ IF Segments(root) = <<>>
       THEN root.head_entry_offset = 0 /\ root.head_block_offset = 0
       ELSE LET head == Segments(root)[1].entries
            IN  /\ root.head_entry_offset < Len(head)
                /\ root.head_block_offset < head[root.head_entry_offset + 1].blocks

(* The root is valid and every block is in one place: none is queued       *)
(* twice, free while it is queued, in the queue while the committed state  *)
(* or the queue itself uses it, or lost to all of them; and the root's     *)
(* count is what the queue holds (load_all, and the ownership check of     *)
(* verify).                                                                *)
Accounted ==
    LET runs == Runs(root)
        owners == <<Quarantine(root), Structure(root), {root_lba}, live, free>>
    IN  /\ RootValid
        /\ root.pending_blocks = BlockCount(runs)
        /\ Cardinality(Quarantine(root)) = BlockCount(runs)
        /\ Cardinality(Structure(root)) = Len(root.table_refs) + Len(Segments(root))
        /\ UNION ToSet(owners) = Block
        /\ \A i, j \in 1..Len(owners) : i /= j => owners[i] \cap owners[j] = {}

BlocksOf(e) ==
    [i \in 1..e.blocks |-> [block |-> e.start + i - 1, gen |-> e.retire_generation]]
Blocks(runs) == FoldLeft(LAMBDA q, e : q \o BlocksOf(e), <<>>, runs)
Fifo == INSTANCE RetirementFifo WITH queue <- Blocks(Runs(root))

(* The tiers, the cursor and the sealing implement one queue of blocks:    *)
(* each retired block leaves once, in order, a batch at a time, and never  *)
(* while a selectable checkpoint reaches it (consume, plan, build).        *)
ImplementsFifo == Fifo!Spec
=============================================================================
