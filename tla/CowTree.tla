------------------------------ MODULE CowTree ------------------------------
(***************************************************************************)
(* The copy-on-write B+ tree (ADR-034): a batch of upserts and deletes is  *)
(* staged in an overlay of freshly allocated blocks, of which a bounded    *)
(* number stays in memory, then published under a new root while the trees *)
(* of both checkpoints stay readable.  Keys are 1 .. Len(KeySize), the     *)
(* value of a key is the generation that stored it, sizes are in units.    *)
(***************************************************************************)
EXTENDS Integers, FiniteSets, SequencesExt

CONSTANTS
    KeySize,            \* length of each key
    Capacity,           \* payload of one block without the fixed part
    BlockSize,          \* header, fixed part and payload
    FixedPayload,
    Blocks,             \* the pool, block numbers
    Batches,            \* the batches: sequences of <<"put" | "delete", key>>
    CachePages,         \* staged images a batch may hold in memory
    PagesPerDecoded,    \* staged pages for one decoded node (16 in the code)
    MaxBatches          \* bound: committed batches

VARIABLES
    image,      \* content of the blocks that a checkpoint reaches
    top,        \* root of the committed tree, 0: none yet
    stored,     \* the keys it holds, with their values
    retained,   \* root and content of the other checkpoint's tree
    epoch,      \* committed generation
    outcome     \* error that aborted the last batch, or "ok"

tree_vars == <<image, top, stored, retained, epoch, outcome>>

Keys == 1 .. Len(KeySize)
NoKey == 0
NoBound == Len(KeySize) + 1
With(x, Op(_)) == CHOOSE y \in {Op(v) : v \in {x}} : TRUE

(* An entry of a leaf is a key and its value; an entry of an internal node *)
(* is a child, its item count and its minimum, which the first omits.      *)
Entry(key, ref, count) == [key |-> key, ref |-> ref, count |-> count]
Node(level, entries) == [level |-> level, gen |-> 0, entries |-> entries]
Items(n) == IF n.level = 0 THEN n.entries ELSE Tail(n.entries)
FirstKey(entries) == IF entries = <<>> THEN NoKey ELSE entries[1].key
Count(n) == FoldLeft(LAMBDA sum, e : sum + e.count, 0, n.entries)
EncodedLen(n) == FoldLeft(LAMBDA sum, e : sum + 1 + KeySize[e.key], 0, Items(n))
Fits(n) == EncodedLen(n) <= Capacity
NeedsRebalance(n) == Items(n) = <<>> \/ 2 * (FixedPayload + EncodedLen(n)) <= BlockSize
Children(n, min) == [n.entries EXCEPT ![1].key = min]
Internal(level, children) == Node(level, [children EXCEPT ![1].key = NoKey])

ChildIndex(n, k) == 1 + Cardinality({i \in 2 .. Len(n.entries) : n.entries[i].key <= k})
ChildLower(n, i, lower) == IF i = 1 THEN lower ELSE n.entries[i].key
ChildUpper(n, i, upper) == IF i < Len(n.entries) THEN n.entries[i + 1].key ELSE upper

RangeOk(n, lower, upper, is_root) ==
    LET items == Items(n)
    IN  /\ is_root \/ items /= <<>>
        /\ items /= <<>> =>
              /\ items[1].key >= lower
              /\ n.level = 0 /\ lower /= NoKey => items[1].key = lower
              /\ Last(items).key < upper

-----------------------------------------------------------------------------
(* The context of a batch: device, staged images, those in memory from the *)
(* least recently used, decoded nodes likewise, free and retired blocks.   *)

Fail(c, why) == IF c.err = "ok" THEN [c EXCEPT !.err = why] ELSE c
Bytes(n) == [at |-> "bytes", node |-> n]
NoNode == Node(0, <<>>)
Deferred == [at |-> "deferred", node |-> NoNode]
Spilled == [at |-> "spilled", node |-> NoNode]
Staged(c, l) == l \in DOMAIN c.writes
Put(f, x, y) == [z \in DOMAIN f \union {x} |-> IF z = x THEN y ELSE f[z]]
Drop(f, x) == [z \in DOMAIN f \ {x} |-> f[z]]
Decoded(c, l) == SelectSeq(c.decoded, LAMBDA d : d.lba = l)
DecodedDrop(c, l) == [c EXCEPT !.decoded = SelectSeq(@, LAMBDA d : d.lba /= l)]
Newest(lru, l) == Append(Remove(lru, l), l)

Materialize(c, l) ==
    IF ~Staged(c, l) \/ c.writes[l].at /= "deferred" THEN c
    ELSE IF Decoded(c, l) = <<>> THEN Fail(c, "corrupt")
    ELSE With(Decoded(c, l)[1].node, LAMBDA n :
           [(IF Fits(n) THEN c ELSE Fail(c, "too long")) EXCEPT !.writes = Put(@, l, Bytes(n))])

DecodedForget(c, l) == DecodedDrop(Materialize(c, l), l)

EvictDecoded(c) ==
    IF Len(c.decoded) > c.limit
    THEN [Materialize(c, c.decoded[1].lba) EXCEPT !.decoded = Tail(@)] ELSE c

CacheDecoded(c, l, n) ==
    IF c.limit = 0 THEN c
    ELSE EvictDecoded([DecodedDrop(c, l) EXCEPT !.decoded = Append(@, [lba |-> l, node |-> n])])

RECURSIVE EnforceCacheLimit(_)
EnforceCacheLimit(c) ==
    IF Len(c.lru) <= c.pages THEN c
    ELSE With(Materialize(c, c.lru[1]), LAMBDA m :
           LET l == m.lru[1]
           IN  IF m.writes[l].at /= "bytes" THEN Fail([m EXCEPT !.lru = Tail(@)], "corrupt")
               ELSE EnforceCacheLimit([DecodedDrop(m, l) EXCEPT
                      !.dev = Put(@, l, m.writes[l].node),
                      !.writes = Put(@, l, Spilled),
                      !.lru = Tail(@)]))

StageNode(c, l, node) ==
    With([node EXCEPT !.gen = c.gen], LAMBDA n :
      EnforceCacheLimit(CacheDecoded(
        [(IF c.limit = 0 /\ ~Fits(n) THEN Fail(DecodedDrop(c, l), "too long") ELSE DecodedDrop(c, l))
            EXCEPT !.writes = Put(@, l, IF c.limit = 0 THEN Bytes(n) ELSE Deferred),
                   !.lru = Newest(@, l)], l, n)))

(* The node, whether this batch staged it, and the context after the read. *)
ReadImage(c, l) ==
    IF Decoded(c, l) /= <<>> THEN [c |-> DecodedDrop(c, l), node |-> Decoded(c, l)[1].node]
    ELSE IF ~Staged(c, l) THEN [c |-> c, node |-> c.dev[l]]
    ELSE With(Materialize(c, l), LAMBDA m :
           IF m.writes[l].at = "spilled"
           THEN [c |-> EnforceCacheLimit([m EXCEPT !.writes = Put(@, l, Bytes(c.dev[l])),
                                                   !.lru = Append(@, l)]),
                 node |-> c.dev[l]]
           ELSE [c |-> [m EXCEPT !.lru = Newest(@, l)], node |-> m.writes[l].node])

ReadNode(c, l, level, lower, upper, is_root) ==
    With(ReadImage(c, l), LAMBDA r :
      LET valid == /\ IF Staged(c, l) THEN r.node.gen = c.gen ELSE r.node.gen < c.gen
                   /\ is_root \/ r.node.level = level
                   /\ RangeOk(r.node, lower, upper, is_root)
      IN  [c |-> IF valid THEN r.c ELSE Fail(r.c, "corrupt"),
           node |-> r.node, staged |-> Staged(c, l)])

-----------------------------------------------------------------------------
(* Blocks: a committed node is retired, a staged one rewritten in place or *)
(* released at once.                                                       *)

NoBlock == 0
AllocateBlock(c) ==
    IF c.free = {} THEN [c |-> Fail(c, "no space"), lba |-> NoBlock]
    ELSE LET l == CHOOSE b \in c.free : \A d \in c.free : b <= d
         IN  [c |-> [DecodedForget(c, l) EXCEPT !.free = @ \ {l}], lba |-> l]

RetireBlock(c, l) == [DecodedForget(c, l) EXCEPT !.retired = @ \union {l}]

ReleaseStaged(c, l) ==
    [DecodedDrop(c, l) EXCEPT !.writes = Drop(@, l), !.lru = Remove(@, l), !.free = @ \union {l}]

Discard(a, want) ==
    IF Len(a.reusable) <= want THEN a
    ELSE [c |-> ReleaseStaged(a.c, Last(a.reusable)), reusable |-> Front(a.reusable)]

RECURSIVE Provide(_, _)
Provide(a, want) ==
    IF Len(a.reusable) >= want THEN a
    ELSE With(AllocateBlock(a.c), LAMBDA b :
           Provide([c |-> b.c, reusable |-> Append(a.reusable, b.lba)], want))

(* persist and persist_sources: the outputs take the sources' place.       *)
PersistSources(c, sources, nodes, mins) ==
    LET release(a, s) == IF s.staged THEN [a EXCEPT !.reusable = Append(@, s.lba)]
                         ELSE [a EXCEPT !.c = RetireBlock(a.c, s.lba)]
        stage(a, i) == [a EXCEPT !.c = StageNode(a.c, a.reusable[i], nodes[i])]
    IN  With(Discard(Provide(FoldLeft(release, [c |-> c, reusable |-> <<>>], sources),
                             Len(nodes)), Len(nodes)), LAMBDA a :
        [c |-> FoldLeft(stage, a, [i \in 1 .. Len(nodes) |-> i]).c,
         level |-> nodes[1].level,
         children |-> [i \in 1 .. Len(nodes) |-> Entry(mins[i], a.reusable[i], Count(nodes[i]))]])

Source(l, staged) == [lba |-> l, staged |-> staged]

(* The split that fits with the smallest difference, the first of equals.  *)
BestSplit(at, left(_), right(_)) ==
    LET fit == {s \in at : Fits(left(s)) /\ Fits(right(s))}
        diff(s) == LET d == EncodedLen(left(s)) - EncodedLen(right(s)) IN IF d < 0 THEN -d ELSE d
    IN  IF fit = {} THEN 0
        ELSE CHOOSE s \in fit : \A t \in fit : diff(s) < diff(t) \/ (diff(s) = diff(t) /\ s <= t)

SplitNode(c, n) ==
    LET len == Len(n.entries)
        left(s) == Node(n.level, SubSeq(n.entries, 1, s))
        tail(s) == SubSeq(n.entries, s + 1, len)
        right(s) == IF n.level = 0 THEN Node(0, tail(s)) ELSE Internal(n.level, tail(s))
        s == BestSplit(IF n.level = 0 THEN 1 .. len - 1 ELSE 2 .. len - 2, left, right)
    IN  IF s = 0 THEN [c |-> Fail(c, "no split"), nodes |-> <<n>>, mid |-> NoKey]
        ELSE [c |-> c, nodes |-> <<left(s), right(s)>>, mid |-> n.entries[s + 1].key]

-----------------------------------------------------------------------------
(* upsert_node: descend, then replace the child by the one or two nodes    *)
(* that took its place; a node that no longer fits is split.               *)

PutLeaf(n, k, v) ==
    LET below == SelectSeq(n.entries, LAMBDA e : e.key < k)
        above == SelectSeq(n.entries, LAMBDA e : e.key > k)
    IN  [n EXCEPT !.entries = below \o <<Entry(k, v, 1)>> \o above]

PersistSplit(c, l, staged, n, min) ==
    IF Fits(n) THEN PersistSources(c, <<Source(l, staged)>>, <<n>>, <<min>>)
    ELSE With(SplitNode(c, n), LAMBDA s :
           PersistSources(s.c, <<Source(l, staged)>>, s.nodes, <<min, s.mid>>))

Splice(children, from, to, new) ==
    SubSeq(children, 1, from - 1) \o new \o SubSeq(children, to + 1, Len(children))

RECURSIVE UpsertNode(_, _, _, _, _, _, _, _)
UpsertNode(c, l, level, known, lower, upper, is_root, k) ==
    With(ReadNode(c, l, level, lower, upper, is_root), LAMBDA r :
      IF r.node.level = 0
      THEN With(PutLeaf(r.node, k, c.gen), LAMBDA n :
             PersistSplit(r.c, l, r.staged, n,
                          IF known /= NoKey /\ ~Fits(n) THEN known ELSE FirstKey(n.entries)))
      ELSE With(ChildIndex(r.node, k), LAMBDA i :
           With(UpsertNode(CacheDecoded(r.c, l, r.node), r.node.entries[i].ref, r.node.level - 1,
                           r.node.entries[i].key, ChildLower(r.node, i, lower),
                           ChildUpper(r.node, i, upper), FALSE, k), LAMBDA d :
           With(ReadNode(d.c, l, level, lower, upper, is_root), LAMBDA p :
             PersistSplit(p.c, l, p.staged,
               Internal(p.node.level, Splice(p.node.entries, i, i, d.children)), known)))))

(* delete_node: the edited node stays pending until its parent has merged  *)
(* it with a sibling or staged it as it is.                                *)

Pending(c, l, staged, node, min) ==
    [c |-> c, lba |-> l, staged |-> staged, node |-> node, min |-> min]

(* rebalance_pair *)
RebalancePair(c, left, right) ==
    LET joined == Children(left.node, left.min) \o Children(right.node, right.min)
    IN  IF left.node.level = 0
        THEN With(Node(0, left.node.entries \o right.node.entries), LAMBDA n :
               IF Fits(n) THEN [c |-> c, nodes |-> <<n>>, mins |-> <<FirstKey(n.entries)>>]
               ELSE With(SplitNode(c, n), LAMBDA s :
                 [c |-> s.c, nodes |-> s.nodes, mins |-> <<FirstKey(n.entries), s.mid>>]))
        ELSE With(Internal(left.node.level, joined), LAMBDA n :
               IF Fits(n) THEN [c |-> c, nodes |-> <<n>>, mins |-> <<left.min>>]
               ELSE With(SplitNode(c, n), LAMBDA s :
                 [c |-> s.c, nodes |-> s.nodes, mins |-> <<left.min, s.mid>>]))

(* The edited child i of l and its sibling, merged or shared out again.    *)
Rebalanced(e, l, level, known, lower, upper, is_root, i) ==
    With(ReadNode(e.c, l, level, lower, upper, is_root), LAMBDA p :
      LET j == IF i < Len(p.node.entries) THEN i + 1 ELSE i - 1
          min == IF j = 1 THEN known ELSE p.node.entries[j].key
      IN  With(ReadNode(CacheDecoded(p.c, l, p.node), p.node.entries[j].ref, p.node.level - 1,
                        ChildLower(p.node, j, lower), ChildUpper(p.node, j, upper), FALSE), LAMBDA r :
          LET sibling == Pending(r.c, p.node.entries[j].ref, r.staged, r.node, min)
              left == IF i < j THEN e ELSE sibling
              right == IF i < j THEN sibling ELSE e
          IN  With(RebalancePair(r.c, left, right), LAMBDA out :
              LET done == PersistSources(out.c, <<Source(left.lba, left.staged),
                                                  Source(right.lba, right.staged)>>,
                                         out.nodes, out.mins)
              IN  [c |-> done.c, children |-> done.children,
                   from |-> IF i < j THEN i ELSE j, to |-> IF i < j THEN j ELSE i])))

(* Mutant: the minimum of the first child stays the one it was entered by. *)
StaleMinimum(children, known) == known

PendingMinimum(children, known) == children[1].key

RECURSIVE DeleteNode(_, _, _, _, _, _, _, _)
DeleteNode(c, l, level, known, lower, upper, is_root, k) ==
    With(ReadNode(c, l, level, lower, upper, is_root), LAMBDA r :
      IF r.node.level = 0
      THEN With(SelectSeq(r.node.entries, LAMBDA e : e.key /= k), LAMBDA rest :
             Pending(IF rest = r.node.entries THEN Fail(r.c, "not found") ELSE r.c,
                     l, r.staged, Node(0, rest), FirstKey(rest)))
      ELSE With(ChildIndex(r.node, k), LAMBDA i :
           With(DeleteNode(CacheDecoded(r.c, l, r.node), r.node.entries[i].ref, r.node.level - 1,
                           IF i = 1 THEN known ELSE r.node.entries[i].key,
                           ChildLower(r.node, i, lower), ChildUpper(r.node, i, upper), FALSE, k),
                LAMBDA e :
           With(IF NeedsRebalance(e.node)
                THEN Rebalanced(e, l, level, known, lower, upper, is_root, i)
                ELSE LET done == PersistSources(e.c, <<Source(e.lba, e.staged)>>, <<e.node>>, <<e.min>>)
                     IN  [c |-> done.c, children |-> done.children, from |-> i, to |-> i], LAMBDA q :
           With(ReadNode(q.c, l, level, lower, upper, is_root), LAMBDA p :
             LET children == Splice(Children(p.node, known), q.from, q.to, q.children)
             IN  Pending(p.c, l, p.staged, Internal(p.node.level, children),
                         PendingMinimum(children, known)))))))

-----------------------------------------------------------------------------
(* mutate_many: the operations in order, each from the root left by the    *)
(* one before.                                                             *)

UpsertRoot(c, k) ==
    With(UpsertNode(c, c.root, 0, NoKey, NoKey, NoBound, TRUE, k), LAMBDA d :
      IF Len(d.children) = 1 THEN [d.c EXCEPT !.root = d.children[1].ref]
      ELSE With(AllocateBlock(d.c), LAMBDA b :
             [StageNode(b.c, b.lba, Internal(d.level + 1, d.children)) EXCEPT !.root = b.lba]))

DeleteRoot(c, k) ==
    With(DeleteNode(c, c.root, 0, NoKey, NoKey, NoBound, TRUE, k), LAMBDA p :
      IF p.node.level > 0 /\ Items(p.node) = <<>>
      THEN [(IF p.staged THEN ReleaseStaged(p.c, p.lba) ELSE RetireBlock(p.c, p.lba))
               EXCEPT !.root = p.node.entries[1].ref]
      ELSE With(PersistSources(p.c, <<Source(p.lba, p.staged)>>, <<p.node>>, <<p.min>>), LAMBDA d :
             [d.c EXCEPT !.root = d.children[1].ref]))

RECURSIVE Run(_, _)
Run(c, ops) ==
    IF ops = <<>> \/ c.err /= "ok" THEN c
    ELSE With(IF ops[1][1] = "put" THEN UpsertRoot(c, ops[1][2]) ELSE DeleteRoot(c, ops[1][2]),
              LAMBDA d : Run(d, Tail(ops)))

RECURSIVE MaterializeAll(_, _)
MaterializeAll(c, left) ==
    IF left = {} THEN c
    ELSE LET l == CHOOSE l \in left : TRUE IN MaterializeAll(Materialize(c, l), left \ {l})

(* The blocks of a tree, the root first.                                   *)
RECURSIVE Reach(_, _)
Reach(dev, l) ==
    IF l = NoBlock THEN {}
    ELSE {l} \union IF dev[l].level = 0 THEN {}
                    ELSE UNION {Reach(dev, dev[l].entries[i].ref) : i \in 1 .. Len(dev[l].entries)}

Context(pages) ==
    [dev |-> image, writes |-> <<>>, lru |-> <<>>, decoded |-> <<>>,
     free |-> Blocks \ (Reach(image, top) \union Reach(image, retained.top)), retired |-> {},
     root |-> top, gen |-> epoch + 1, pages |-> pages, limit |-> pages \div PagesPerDecoded,
     err |-> "ok"]

(* A tree that does not exist yet starts as an empty staged leaf.          *)
Begin(c) ==
    IF top /= NoBlock THEN c
    ELSE With(AllocateBlock(c), LAMBDA b :
           [StageNode(b.c, b.lba, NoNode) EXCEPT !.root = b.lba])

MutateMany(ops, pages) ==
    With(Run(Begin(Context(pages)), ops), LAMBDA c : MaterializeAll(c, DOMAIN c.writes))

Written(c) ==
    [l \in DOMAIN c.dev \union DOMAIN c.writes |->
        IF Staged(c, l) /\ c.writes[l].at = "bytes" THEN c.writes[l].node ELSE c.dev[l]]
Only(dev, blocks) == [l \in DOMAIN dev \intersect blocks |-> dev[l]]

Apply(content, op) ==
    IF op[1] = "put" THEN Put(content, op[2], epoch + 1) ELSE Drop(content, op[2])

Mutate ==
    /\ epoch < MaxBatches /\ outcome = "ok"
    /\ \E ops \in Batches, pages \in CachePages : \E c \in {MutateMany(ops, pages)} :
          /\ outcome' = c.err
          /\ IF c.err = "ok"
             THEN \E dev \in {Written(c)} :
                    /\ image' = Only(dev, Reach(dev, c.root) \union Reach(image, top))
                    /\ top' = c.root
                    /\ stored' = FoldLeft(Apply, stored, ops)
                    /\ retained' = [top |-> top, stored |-> stored]
                    /\ epoch' = epoch + 1
             ELSE \* the caller aborts: only the spilled images reached the device
                  /\ image' = Only(c.dev, DOMAIN image)
                  /\ UNCHANGED <<top, stored, retained, epoch>>

TreeInit ==
    /\ image = <<>> /\ top = NoBlock /\ stored = <<>>
    /\ retained = [top |-> NoBlock, stored |-> <<>>]
    /\ epoch = 0 /\ outcome = "ok"

TreeNext == Mutate
TreeSpec == TreeInit /\ [][TreeNext]_tree_vars

-----------------------------------------------------------------------------
(* Readers of a committed tree. *)

RECURSIVE Lookup(_, _)
Lookup(l, k) ==
    LET n == image[l]
    IN  IF n.level = 0 THEN {e.ref : e \in {e \in ToSet(n.entries) : e.key = k}}
        ELSE Lookup(n.entries[ChildIndex(n, k)].ref, k)

RECURSIVE LookupFloor(_, _)
LookupFloor(l, k) ==
    LET n == image[l]
        at == Cardinality({i \in 1 .. Len(n.entries) : n.entries[i].key <= k})
    IN  IF n.level = 0 THEN IF at = 0 THEN NoKey ELSE n.entries[at].key
        ELSE LookupFloor(n.entries[ChildIndex(n, k)].ref, k)

KeysOf(entries) == [i \in 1 .. Len(entries) |-> entries[i].key]

(* Mutant: the counter of a skipped child is not taken off.                *)
SkipsNothing(start, e) == start

SkipChild(start, e) == start - e.count

RECURSIVE ReadRange(_, _, _)
ReadRange(l, start, room) ==
    LET n == image[l]
        step(a, e) ==
          IF Len(a.out) >= room THEN a
          ELSE IF a.start >= e.count THEN [a EXCEPT !.start = SkipChild(a.start, e)]
          ELSE [start |-> 0, out |-> a.out \o ReadRange(e.ref, a.start, room - Len(a.out))]
    IN  IF start >= Count(n) \/ room = 0 THEN <<>>
        ELSE IF n.level = 0
        THEN KeysOf(SubSeq(n.entries, start + 1, Min({start + room, Len(n.entries)})))
        ELSE FoldLeft(step, [start |-> start, out |-> <<>>], n.entries).out

RECURSIVE ReadKeyPage(_, _, _, _)
ReadKeyPage(l, upper, low, room) ==
    LET n == image[l]
        step(out, i) ==
          IF Len(out) >= room \/ ChildUpper(n, i, upper) <= low THEN out
          ELSE out \o ReadKeyPage(n.entries[i].ref, ChildUpper(n, i, upper), low, room - Len(out))
    IN  IF n.level = 0
        THEN LET from == SelectSeq(n.entries, LAMBDA e : e.key >= low)
             IN  KeysOf(SubSeq(from, 1, Min({room, Len(from)})))
        ELSE FoldLeft(step, <<>>, [i \in 1 .. Len(n.entries) |-> i])

RECURSIVE VisitKeyRange(_, _, _, _, _)
VisitKeyRange(l, lower, upper, low, high) ==
    LET n == image[l]
        step(out, i) ==
          IF ChildUpper(n, i, upper) <= low \/ ChildLower(n, i, lower) > high THEN out
          ELSE out \o VisitKeyRange(n.entries[i].ref, ChildLower(n, i, lower),
                                    ChildUpper(n, i, upper), low, high)
    IN  IF n.level = 0
        THEN KeysOf(SelectSeq(n.entries, LAMBDA e : low <= e.key /\ e.key <= high))
        ELSE FoldLeft(step, <<>>, [i \in 1 .. Len(n.entries) |-> i])

(* validate_subtree *)
RECURSIVE ValidSubtree(_, _, _, _, _)
ValidSubtree(l, level, lower, upper, is_root) ==
    LET n == image[l]
    IN  /\ is_root \/ n.level = level
        /\ n.gen \in 1 .. epoch
        /\ Fits(n) /\ RangeOk(n, lower, upper, is_root)
        /\ n.level > 0 => \A i \in 1 .. Len(n.entries) :
              /\ ValidSubtree(n.entries[i].ref, n.level - 1, ChildLower(n, i, lower),
                              ChildUpper(n, i, upper), FALSE)
              /\ n.entries[i].count = Count(image[n.entries[i].ref])
              /\ i > 1 => n.entries[i].key = ReadRange(n.entries[i].ref, 0, 1)[1]
              /\ \A j \in 1 .. i - 1 :
                    Reach(image, n.entries[i].ref) \intersect Reach(image, n.entries[j].ref) = {}

-----------------------------------------------------------------------------
(* Properties. *)

Exact(root, content) ==
    root /= NoBlock =>
        /\ ValidSubtree(root, 0, NoKey, NoBound, TRUE)
        /\ \A k \in Keys :
              Lookup(root, k) = IF k \in DOMAIN content THEN {content[k]} ELSE {}

(* Both checkpoints' trees pass the exhaustive verifier and hold exactly   *)
(* what was stored, whatever was spilled, merged or aborted since, and no  *)
(* batch meets a node that it takes for corrupt (mutate_many_inner).       *)
TreesIntact ==
    /\ Exact(top, stored) /\ Exact(retained.top, retained.stored)
    /\ outcome \notin {"corrupt", "no split"}

(* The bounded readers return what a scan of the whole tree would.         *)
ReadersAgree ==
    LET all == SelectSeq([k \in Keys |-> k], LAMBDA k : k \in DOMAIN stored)
        from(k) == SelectSeq(all, LAMBDA x : x >= k)
        take(s, n) == SubSeq(s, 1, Min({n, Len(s)}))
    IN  top /= NoBlock =>
          /\ \A k \in Keys :
                /\ LookupFloor(top, k) = IF \E x \in DOMAIN stored : x <= k
                                         THEN Max({x \in DOMAIN stored : x <= k}) ELSE NoKey
                /\ \A n \in {1, 3} : ReadKeyPage(top, NoBound, k, n) = take(from(k), n)
                /\ \A h \in {k, k + 2} :
                      VisitKeyRange(top, NoKey, NoBound, k, h) = SelectSeq(from(k), LAMBDA x : x <= h)
          /\ \A start \in 0 .. Len(all), n \in {1, 3} :
                ReadRange(top, start, n) = take(SubSeq(all, start + 1, Len(all)), n)

=============================================================================
