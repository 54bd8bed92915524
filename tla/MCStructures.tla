---------------------------- MODULE MCStructures ----------------------------
(***************************************************************************)
(* Small instances of the structures on disk and of the cache before it.   *)
(* A behaviour is one of one component: part names it, and the variables   *)
(* of the others are Idle.  Those of the cache, which is small, are in its *)
(* first state instead, where they refine the first state of LruOrder.     *)
(***************************************************************************)
EXTENDS Integers, Sequences, TLC

CONSTANTS l1, l2, l3

VARIABLES
    part,
    store, content, view, older, commits,
    image, top, stored, retained, epoch, outcome,
    root_image, root_top, root_stored, root_retained, root_epoch, root_outcome,
    page, descriptor, selected, fallback, tx, ledger, calls,
    verified, damages,
    disk, capacity, requested, index, slots, free, newest, oldest, transparent

(* Two files of two blocks of two bytes, five data blocks.                 *)
Data == INSTANCE FileData WITH
    Files <- {1, 2}, BlockSize <- 2, FileBlocks <- 2, Disk <- 5,
    WriteRanges <- {<<0, 4>>, <<1, 3>>}, CloneRanges <- {<<0, 2, 2>>, <<2, 0, 2>>, <<1, 1, 3>>},
    Sizes <- {1, 4}, MaxCommits <- 4

(* Eight keys of two lengths, nodes of a few keys; batches that put or     *)
(* delete a span of keys upwards or downwards.                             *)
Up(i, j, kind) == [n \in 1 .. j - i + 1 |-> <<kind, i + n - 1>>]
Down(i, j, kind) == [n \in 1 .. j - i + 1 |-> <<kind, j - n + 1>>]
Spans == {s \in (1 .. 8) \X (1 .. 8) : s[1] <= s[2]}
SpanBatches ==
    {Up(s[1], s[2], kind) : s \in Spans, kind \in {"put", "delete"}}
      \union {Down(s[1], s[2], "delete") : s \in Spans} \union {Down(1, 8, "put")}

Tree == INSTANCE CowTree WITH
    KeySize <- <<1, 2, 1, 1, 2, 1, 2, 1>>, Capacity <- 6, BlockSize <- 8, FixedPayload <- 1,
    Blocks <- 1 .. 20, Batches <- SpanBatches, CachePages <- {1, 4}, PagesPerDecoded <- 2,
    MaxBatches <- 2

(* Thirteen regions in a tree of three levels.                             *)
Pool == INSTANCE AllocationRoot WITH
    Regions <- 13, RecordsPerNode <- 3, RootCommits <- 4,
    ChangedRegions <- {{r} : r \in 1 .. 13} \union {1 .. 13} \union {{1, 13}}

(* Two regions of five blocks in two bitmap pages each.                    *)
Alloc == INSTANCE TxAllocator WITH
    RegionCount <- 2, RegionSize <- 5, PageBlocks <- 3, Heads <- (0 :> 2) @@ (1 :> 1),
    Floor <- 2, Batch <- 2, Lengths <- {1, 2}, TxCommits <- 4, MaxCalls <- 3

(* Files 5 and 6 share parts of file 4, the last block of which is its own *)
(* again; 15 is quarantined, 18 is free.                                   *)
Dir(blocks) == [type |-> "directory", links |-> 1, blocks |-> blocks, extents |-> {}, data_blocks |-> 0]
File(blocks, from, to) ==
    [type |-> "file", links |-> 1, blocks |-> blocks, data_blocks |-> to - from,
     extents |-> {[start |-> from, end |-> to, shared |-> TRUE]}]
Entry(d, n, c, h) == [dir |-> d, name |-> n, child |-> c, hint |-> h]
SharedImage ==
    [objects |-> <<Dir(<<6, 7>>), Dir(<<8>>), Dir(<<9>>), File(<<10>>, 12, 15),
                   File(<<11>>, 12, 13), File(<<17>>, 13, 14)>>,
     entries |-> {Entry(1, 10, 3, "directory"), Entry(3, 11, 4, "file"),
                  Entry(3, 12, 6, "file"), Entry(2, 5, 5, "file")},
     map_root |-> 4, shared_root |-> 16, next_id |-> 7,
     records |-> <<[start |-> 12, count |-> 2, refs |-> 2]>>,
     queue |-> [root |-> 5, runs |-> {[start |-> 15, count |-> 1, gen |-> 2]}],
     generation |-> 2, bitmap |-> 0 .. 17, free |-> 1]

Verify == INSTANCE Verifier WITH
    TotalBlocks <- 19, FirstImage <- SharedImage, DataWindow <- {12, 13, 14, 15, 18},
    MaxDamage <- 2, image <- verified

(* Three blocks and up to three slots; a torn block.                       *)
Cache == INSTANCE BlockCache WITH
    Lba <- {l1, l2, l3}, Content <- {"whole"}, Partial <- {"torn"}, MaxCapacity <- 3

-----------------------------------------------------------------------------

data_vars == <<store, content, view, older, commits>>
tree_vars == <<image, top, stored, retained, epoch, outcome>>
root_vars == <<root_image, root_top, root_stored, root_retained, root_epoch, root_outcome>>
alloc_vars == <<page, descriptor, selected, fallback, tx, ledger, calls>>
verifier_vars == <<verified, damages>>
cache_vars == <<disk, capacity, requested, index, slots, free, newest, oldest, transparent>>

vars == <<part, data_vars, tree_vars, root_vars, alloc_vars, verifier_vars, cache_vars>>

Idle == <<>>

Init ==
    /\ part \in {"data", "tree", "pool", "alloc", "verify", "cache"}
    /\ IF part = "data" THEN Data!Init
       ELSE /\ store = Idle /\ content = Idle /\ view = Idle /\ older = Idle /\ commits = Idle
    /\ IF part = "tree" THEN Tree!TreeInit
       ELSE /\ image = Idle /\ top = Idle /\ stored = Idle /\ retained = Idle
            /\ epoch = Idle /\ outcome = Idle
    /\ IF part = "pool" THEN Pool!RootInit
       ELSE /\ root_image = Idle /\ root_top = Idle /\ root_stored = Idle
            /\ root_retained = Idle /\ root_epoch = Idle /\ root_outcome = Idle
    /\ IF part = "alloc" THEN Alloc!AllocInit
       ELSE /\ page = Idle /\ descriptor = Idle /\ selected = Idle /\ fallback = Idle
            /\ tx = Idle /\ ledger = Idle /\ calls = Idle
    /\ IF part = "verify" THEN Verify!VerifierInit ELSE verified = Idle /\ damages = Idle
    /\ Cache!Init

Next ==
    \/ /\ part = "data" /\ Data!Next
       /\ UNCHANGED <<part, tree_vars, root_vars, alloc_vars, verifier_vars, cache_vars>>
    \/ /\ part = "tree" /\ Tree!TreeNext
       /\ UNCHANGED <<part, data_vars, root_vars, alloc_vars, verifier_vars, cache_vars>>
    \/ /\ part = "pool" /\ Pool!RootNext
       /\ UNCHANGED <<part, data_vars, tree_vars, alloc_vars, verifier_vars, cache_vars>>
    \/ /\ part = "alloc" /\ Alloc!AllocNext
       /\ UNCHANGED <<part, data_vars, tree_vars, root_vars, verifier_vars, cache_vars>>
    \/ /\ part = "verify" /\ Verify!VerifierNext
       /\ UNCHANGED <<part, data_vars, tree_vars, root_vars, alloc_vars, cache_vars>>
    \/ /\ part = "cache" /\ Cache!Next
       /\ UNCHANGED <<part, data_vars, tree_vars, root_vars, alloc_vars, verifier_vars>>

Spec == Init /\ [][Next]_vars

(* Bound: torn blocks are met by a cache of one slot, decoded forms by one *)
(* of at most two; with three, where a slot leaves the middle of the list, *)
(* the blocks are whole and read as bytes.                                 *)
FewSlotsOrPlain ==
    \/ Len(slots) <= 1
    \/ /\ \A l \in {l1, l2, l3} : disk[l] = "whole"
       /\ Len(slots) <= 2 \/ \A s \in 1 .. Len(slots) : slots[s].decoded = Cache!NoValue

(* Blocks of the cache are interchangeable: only their use orders them.    *)
BlockSymmetry == Permutations({l1, l2, l3})

-----------------------------------------------------------------------------
(* The properties of the components, stated there.                         *)

(* Files and views read as if clones were copies (read_file_at).           *)
ReadsExact == part = "data" => Data!ReadsExact

(* The reference tree counts the mappings of every block (RefEdit).        *)
SharingExact == part = "data" => Data!SharingExact

(* Both checkpoints' trees hold what was stored (mutate_many_inner).       *)
TreesIntact == part = "tree" => Tree!TreesIntact

(* The bounded readers agree with a scan (lookup_floor, read_key_page).    *)
ReadersAgree == part = "tree" => Tree!ReadersAgree

(* The reserved pool serves every commit (allocation_root, PoolLbas).      *)
PoolSuffices == part = "pool" => Pool!PoolSuffices

(* An allocation is refused only when no run exists (allocate_run_inner).  *)
RefusalsAreTrue == part = "alloc" => Alloc!RefusalsAreTrue

(* Bitmaps, descriptors, totals and ledger agree (TxAllocator::finish).    *)
AccountsAgree == part = "alloc" => Alloc!AccountsAgree

(* Clean is sound, and a clean image mounts (verify.rs).                   *)
VerifyExact == part = "verify" => Verify!VerifyExact

(* The cache shows what the device holds (write_block, insert).            *)
Transparent == part = "cache" => Cache!Transparent

(* The cache keeps the blocks used most recently (unlink, push_newest).    *)
ImplementsLru == Cache!ImplementsLru
=============================================================================
