-------------------------- MODULE AllocationRoot --------------------------
(***************************************************************************)
(* The tree of region records (allocation_root): its keys are fixed when   *)
(* the volume is made, its nodes live in a permanent pool of three images  *)
(* per logical node, and every commit rewrites the records of the regions  *)
(* it changed.                                                             *)
(***************************************************************************)
EXTENDS Integers, SequencesExt

CONSTANTS
    Regions,            \* number of regions
    RecordsPerNode,     \* records that fit one block
    ChangedRegions,     \* the sets of regions that a commit may change
    RootCommits         \* bound: commits

VARIABLES root_image, root_top, root_stored, root_retained, root_epoch, root_outcome

root_vars == <<root_image, root_top, root_stored, root_retained, root_epoch, root_outcome>>

(* A record and a child reference have the same size.                      *)
Fanout == RecordsPerNode + 1
DivCeil(a, b) == (a + b - 1) \div b

BalancedGroups(total, maximum) ==
    LET groups == DivCeil(total, maximum)
    IN  [i \in 1 .. groups |-> total \div groups + IF i <= total % groups THEN 1 ELSE 0]

RECURSIVE LevelNodes(_)
LevelNodes(children) ==
    IF children = 1 THEN 0
    ELSE LET groups == DivCeil(children, Fanout) IN groups + LevelNodes(groups)

LogicalNodes == LET leaves == DivCeil(Regions, RecordsPerNode) IN leaves + LevelNodes(leaves)

(* Mutant: room for the two checkpoints only.                              *)
TwoGenerations == 1 .. 2 * LogicalNodes

PoolLbas == 1 .. 3 * LogicalNodes

(* A commit updates the records of a set of regions, in their order.       *)
Updates(set) ==
    LET regions == SelectSeq([r \in 1 .. Regions |-> r], LAMBDA r : r \in set)
    IN  [i \in 1 .. Len(regions) |-> <<"put", regions[i]>>]

Tree == INSTANCE CowTree WITH
    KeySize <- [r \in 1 .. Regions |-> 1],
    Capacity <- 2 * RecordsPerNode,
    BlockSize <- 2 * RecordsPerNode + 2,
    FixedPayload <- 1,
    Blocks <- PoolLbas,
    Batches <- {Updates(set) : set \in ChangedRegions},
    CachePages <- {4},
    PagesPerDecoded <- 2,
    MaxBatches <- RootCommits,
    image <- root_image, top <- root_top, stored <- root_stored,
    retained <- root_retained, epoch <- root_epoch, outcome <- root_outcome

(* bulk_build: the leaves, then each level above, in the pool's first      *)
(* blocks.  a.nodes are the nodes so far, a.level the last level's children.*)
Group(sizes, i, items) ==
    LET before == FoldLeft(LAMBDA sum, n : sum + n, 0, SubSeq(sizes, 1, i - 1))
    IN  SubSeq(items, before + 1, before + sizes[i])

BuildLevel(nodes, level, items, sizes) ==
    [nodes |-> nodes \o [i \in 1 .. Len(sizes) |->
                [level |-> level, gen |-> 1,
                 entries |-> IF level = 0 THEN Group(sizes, i, items)
                             ELSE [Group(sizes, i, items) EXCEPT ![1].key = 0]]],
     children |-> [i \in 1 .. Len(sizes) |->
                LET group == Group(sizes, i, items)
                IN  Tree!Entry(group[1].key, Len(nodes) + i,
                               FoldLeft(LAMBDA sum, e : sum + e.count, 0, group))]]

RECURSIVE BuildUp(_, _)
BuildUp(built, level) ==
    IF Len(built.children) = 1 THEN built
    ELSE BuildUp(BuildLevel(built.nodes, level, built.children,
                            BalancedGroups(Len(built.children), Fanout)), level + 1)

BulkBuild ==
    BuildUp(BuildLevel(<<>>, 0, [r \in 1 .. Regions |-> Tree!Entry(r, 1, 1)],
                       BalancedGroups(Regions, RecordsPerNode)), 1)

RootInit ==
    /\ root_image = BulkBuild.nodes
    /\ root_top = Len(BulkBuild.nodes)
    /\ root_stored = [r \in 1 .. Regions |-> 1]
    /\ root_retained = [top |-> 0, stored |-> <<>>]
    /\ root_epoch = 1 /\ root_outcome = "ok"

CommitRegions == Tree!Mutate

RootNext == CommitRegions
RootSpec == RootInit /\ [][RootNext]_root_vars

-----------------------------------------------------------------------------
(* The pool never runs out, and the two trees it holds are whole: a commit *)
(* is never refused for want of a block to describe the free ones          *)
(* (ReservedTreePool).                                                     *)
PoolSuffices == root_outcome = "ok" /\ Tree!TreesIntact
=============================================================================
