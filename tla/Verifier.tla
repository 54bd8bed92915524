------------------------------ MODULE Verifier ------------------------------
(***************************************************************************)
(* The offline verification of a committed checkpoint (verify.rs): the     *)
(* decoding walk with its ownership set, the endpoint sweep over shared    *)
(* mappings, the walk of the namespace graph and the invariant sweep, run  *)
(* on images that were sound once and then damaged.                        *)
(***************************************************************************)
EXTENDS Integers, FiniteSets, SequencesExt

CONSTANTS
    TotalBlocks,    \* blocks 0 .. TotalBlocks - 1, one region
    FirstImage,     \* a sound image
    DataWindow,     \* bound: blocks a damaged pointer may name
    MaxDamage       \* bound: damages

VARIABLES
    image,      \* what the checkpoint reaches, see FirstImage
    damages     \* damages so far

verifier_vars == <<image, damages>>

Root == 1
OrphanDirectory == 2
FirstDynamic == 3

(* One region: a reserved block, the intent log, the pool of the           *)
(* allocation root with its current node.                                  *)
Reserved == {0}
LogArea == {1}
PoolBlocks == {2, 3}
AllocationTree == {2}

Allocatable(b) == b \in 0 .. TotalBlocks - 1 /\ b \notin Reserved
Run(r) == r.start .. r.start + r.count - 1
Mapped(e) == e.start .. e.end - 1

ObjectIds(img) == DOMAIN img.objects
DirectoryIds(img) == {o \in ObjectIds(img) : img.objects[o].type = "directory"}
Extents(img) == UNION {{o} \X img.objects[o].extents : o \in ObjectIds(img)}
Flagged(img) == {x \in Extents(img) : x[2].shared}
QueuedBlocks(img) == UNION {Run(r) : r \in img.queue.runs}

-----------------------------------------------------------------------------
(* load_committed_state_inner.                                             *)

(* The endpoint sweep: [runs, private, count, previous] after a position.  *)
Delta(flagged, p) ==
    Cardinality({x \in flagged : x[2].start = p}) - Cardinality({x \in flagged : x[2].end = p})

SweepStep(flagged, sweep, p) ==
    IF Delta(flagged, p) = 0 THEN sweep
    ELSE [count |-> sweep.count + Delta(flagged, p),
          previous |-> p,
          runs |-> IF sweep.count >= 2
                   THEN Append(sweep.runs, [start |-> sweep.previous, count |-> p - sweep.previous,
                                            refs |-> sweep.count])
                   ELSE sweep.runs,
          private |-> IF sweep.count = 1
                      THEN sweep.private \union (sweep.previous .. p - 1) ELSE sweep.private]

Sweep(img) ==
    LET flagged == Flagged(img)
        edges == {x[2].start : x \in flagged} \union {x[2].end : x \in flagged}
        upto[p \in 0 .. TotalBlocks + 2] ==
            IF p = 0 THEN [count |-> 0, previous |-> 0, runs |-> <<>>, private |-> {}]
            ELSE IF p \in edges THEN SweepStep(flagged, upto[p - 1], p) ELSE upto[p - 1]
    IN  upto[TotalBlocks + 2]

(* Every reference to a block, as <<referrer, block>>.                     *)
MetadataClaims(img) ==
    {<<<<"allocation root", b, 0>>, b>> : b \in AllocationTree}
    \union {<<<<"shared tree", 0, 0>>, b>> : b \in {img.shared_root} \ {0}}
    \union {<<<<"object map", 0, 0>>, img.map_root>>, <<<<"reclaim queue", 0, 0>>, img.queue.root>>}
    \union UNION {{<<<<"object", o, i>>, img.objects[o].blocks[i]>> : i \in DOMAIN img.objects[o].blocks}
                  : o \in ObjectIds(img)}

DataClaims(img) ==
    UNION {{<<<<"record", i, 0>>, b>> : b \in Run(img.records[i])} : i \in DOMAIN img.records}
    \union UNION {{<<<<"mapping", x[1], x[2].start>>, b>> : b \in Mapped(x[2])}
                  : x \in Extents(img) \ Flagged(img)}
    \union {<<<<"private part", 0, 0>>, b>> : b \in Sweep(img).private}

Claims(img) == MetadataClaims(img) \union DataClaims(img)

ClaimedOnce(img) ==
    \E claims \in {Claims(img)} :
        /\ \A c \in claims : Allocatable(c[2])
        /\ Cardinality({c[2] : c \in claims}) = Cardinality(claims)

Reachable(img) == {c[2] : c \in Claims(img)}

ValidateMappedObjectId(img, o) ==
    /\ o < img.next_id
    /\ o \in {Root, OrphanDirectory} \/ o >= FirstDynamic

ObjectDecodes(img, o) ==
    LET record == img.objects[o]
    IN  /\ ValidateMappedObjectId(img, o)
        /\ o = OrphanDirectory => record.type = "directory" /\ record.links = 1
        /\ record.data_blocks = Cardinality(UNION {{e} \X Mapped(e) : e \in record.extents})

SharedMappingsAgree(img) ==
    /\ img.shared_root = 0 => Flagged(img) = {}
    /\ Sweep(img).runs = img.records
    /\ \A x \in Extents(img) \ Flagged(img), i \in DOMAIN img.records :
         Mapped(x[2]) \intersect Run(img.records[i]) = {}

QueueLoads(img) ==
    LET reachable == Reachable(img)
    IN  \A r \in img.queue.runs :
            Run(r) \intersect reachable = {} /\ r.gen <= img.generation

-----------------------------------------------------------------------------
(* validate_namespace_graph.                                               *)

EntriesValid(img) ==
    \A e \in img.entries :
        /\ e.child \in ObjectIds(img)
        /\ e.hint = img.objects[e.child].type
        /\ e.dir = OrphanDirectory => e.name = e.child /\ e.hint = "file"
        /\ e.dir /= OrphanDirectory => e.child /= OrphanDirectory

(* The walk: [pending, visited, reached, twice]; pending is a bag of       *)
(* directories, given as the entries that put them there.                  *)
Children(img, d) == {e \in img.entries : e.dir = d}

(* Mutant: a directory met again is passed over.                           *)
PassesVisited(img, walk) == FALSE

VisitedTwice(img, walk) ==
    \/ \E p \in walk.pending : p.child \in walk.visited
    \/ \E p, q \in walk.pending : p /= q /\ p.child = q.child

WalkStep(img, walk) ==
    LET found == UNION {Children(img, p.child) : p \in walk.pending}
    IN  [pending |-> {e \in found : img.objects[e.child].type = "directory"},
         visited |-> walk.visited \union {p.child : p \in walk.pending},
         reached |-> walk.reached \union {e.child : e \in found},
         twice |-> walk.twice \/ VisitedTwice(img, walk)]

Walk(img) ==
    LET roots == {Root} \union ({OrphanDirectory} \intersect ObjectIds(img))
        steps == Cardinality(ObjectIds(img)) + 1
        after[i \in 0 .. steps] ==
            IF i = 0
            THEN [pending |-> {[dir |-> 0, name |-> 0, child |-> r, hint |-> "directory"] : r \in roots},
                  visited |-> {}, reached |-> roots, twice |-> FALSE]
            ELSE LET walk == after[i - 1] IN IF walk.twice THEN walk ELSE WalkStep(img, walk)
    IN  after[steps]

NamespaceGraphValid(img) ==
    /\ Root \in DirectoryIds(img)
    /\ EntriesValid(img)
    /\ ~Walk(img).twice
    /\ ObjectIds(img) \subseteq Walk(img).reached

LoadCommittedState(img) ==
    /\ \A o \in ObjectIds(img) : ObjectDecodes(img, o)
    /\ ClaimedOnce(img)
    /\ SharedMappingsAgree(img)
    /\ NamespaceGraphValid(img)
    /\ QueueLoads(img)

-----------------------------------------------------------------------------
(* full_sweep_inner: the classes of the findings.                          *)

RefCount(img, o) ==
    Cardinality({e \in img.entries : e.child = o})
      + IF o \in {Root, OrphanDirectory} THEN 1 ELSE 0

Accounted(img) == Reserved \union PoolBlocks \union LogArea
                    \union Reachable(img) \union QueuedBlocks(img)

FreeBlocks(img) == TotalBlocks - Cardinality(img.bitmap)

FullSweep(img) ==
    LET accounted == Accounted(img) IN
    {"link count" : o \in {o \in ObjectIds(img) : img.objects[o].links /= RefCount(img, o)}}
    \union {"unreferenced" : o \in {o \in ObjectIds(img) : RefCount(img, o) = 0}}
    \union {"quarantined" : b \in QueuedBlocks(img) \intersect (PoolBlocks \union LogArea)}
    \union {"reachable free" : b \in accounted \ img.bitmap}
    \union {"leak" : b \in img.bitmap \ accounted}
    \union {"free count" : n \in {img.free} \ {FreeBlocks(img)}}

Clean(img) == LoadCommittedState(img) /\ FullSweep(img) = {}

(* load_mount_state_inner: the bounded roots alone.                        *)
MountRoots(img) ==
    <<img.map_root>> \o (IF img.shared_root = 0 THEN <<>> ELSE <<img.shared_root>>)
      \o img.objects[Root].blocks \o <<img.queue.root>>

LoadMountState(img) ==
    /\ Root \in DirectoryIds(img)
    /\ IsInjective(MountRoots(img))
    /\ \A b \in ToSet(MountRoots(img)) : Allocatable(b)
    /\ \A r \in img.queue.runs :
         r.gen <= img.generation /\ r.start \notin ToSet(MountRoots(img))

-----------------------------------------------------------------------------
(* Damage: the structures still decode, their contents are wrong.          *)

Damage(img) == damages < MaxDamage /\ image' = img /\ damages' = damages + 1

DamageExtent ==
    \E o \in ObjectIds(image) : \E e \in image.objects[o].extents :
    \E start \in DataWindow, shared \in BOOLEAN :
        Damage([image EXCEPT !.objects[o].extents =
                  (@ \ {e}) \union {[start |-> start, end |-> start + (e.end - e.start), shared |-> shared]}])

DamageRecords ==
    \E runs \in {<<>>} \union {<<[start |-> b, count |-> n, refs |-> k]>> :
                                b \in DataWindow, n \in 1 .. 2, k \in 2 .. 3} :
        Damage([image EXCEPT !.records = runs])

DamagePointer ==
    \E b \in DataWindow :
        \/ \E o \in ObjectIds(image) : Damage([image EXCEPT !.objects[o].blocks[1] = b])
        \/ Damage([image EXCEPT !.map_root = b])
        \/ Damage([image EXCEPT !.queue.root = b])
        \/ \E root \in {0, b} : Damage([image EXCEPT !.shared_root = root])

DamageObject ==
    \E o \in ObjectIds(image) :
        \/ \E n \in 0 .. 2 : Damage([image EXCEPT !.objects[o].links = n])
        \/ Damage([image EXCEPT !.objects[o].data_blocks = @ + 1])
        \/ Damage([image EXCEPT !.next_id = o])
        \/ Damage([image EXCEPT !.objects = [p \in DOMAIN @ \ {o} |-> @[p]],
                                !.entries = {e \in @ : e.dir /= o}])

DamageEntry ==
    \E e \in image.entries :
        \/ \E d \in DirectoryIds(image) :
             \E kept \in {image.entries, image.entries \ {e}} :
                Damage([image EXCEPT !.entries = kept \union {[e EXCEPT !.dir = d]}])
        \/ \E o \in ObjectIds(image) :
             Damage([image EXCEPT !.entries = (@ \ {e}) \union
                       {[e EXCEPT !.child = o, !.hint = image.objects[o].type]}])
        \/ Damage([image EXCEPT !.entries = @ \ {e}])

DamageQueue ==
    \E runs \in {{}} \union {{[start |-> b, count |-> n, gen |-> image.generation + late]} :
                            b \in DataWindow \union {3} \union LogArea, n \in 1 .. 2, late \in 0 .. 1} :
        Damage([image EXCEPT !.queue.runs = runs])

DamageBitmap ==
    \E b \in 0 .. TotalBlocks - 1, n \in {image.free - 1, image.free, image.free + 1} :
        Damage([image EXCEPT !.bitmap = (@ \ {b}) \union ({b} \ @), !.free = n])

VerifierInit == image = FirstImage /\ damages = 0

VerifierNext ==
    \/ DamageExtent \/ DamageRecords \/ DamagePointer \/ DamageObject
    \/ DamageEntry \/ DamageQueue \/ DamageBitmap

VerifierSpec == VerifierInit /\ [][VerifierNext]_verifier_vars

-----------------------------------------------------------------------------
(* Reference: what a sound volume is, block by block.                      *)

Mappers(extents, b) == {x \in extents : b \in Mapped(x[2])}
RecordsOf(img, b) == {i \in DOMAIN img.records : b \in Run(img.records[i])}

OwnershipSound(img) ==
    LET extents == Extents(img)
        metadata == MetadataClaims(img)
        referrers(b) == {c \in metadata : c[2] = b}
    IN  /\ \A b \in 0 .. TotalBlocks + 1 : \E mappers \in {Mappers(extents, b)} :
             /\ (mappers /= {} \/ referrers(b) /= {}) => Allocatable(b)
             /\ Cardinality(referrers(b)) <= 1
             /\ mappers /= {} => referrers(b) = {}
             /\ IF Cardinality(mappers) < 2 THEN RecordsOf(img, b) = {}
                ELSE /\ mappers \subseteq Flagged(img)
                     /\ \E i \in DOMAIN img.records :
                          RecordsOf(img, b) = {i} /\ img.records[i].refs = Cardinality(mappers)
        /\ \A i, j \in DOMAIN img.records :
             i < j => \/ img.records[i].start + img.records[i].count < img.records[j].start
                      \/ /\ img.records[i].start + img.records[i].count = img.records[j].start
                         /\ img.records[i].refs /= img.records[j].refs
        /\ Flagged(img) /= {} => img.shared_root /= 0

AllocationSound(img) ==
    LET owned == {c[2] : c \in MetadataClaims(img)} \union UNION {Mapped(x[2]) : x \in Extents(img)}
        kept == LogArea \union PoolBlocks
    IN  /\ img.bitmap = Reserved \union owned \union kept \union QueuedBlocks(img)
        /\ QueuedBlocks(img) \intersect (owned \union kept) = {}
        /\ \A r \in img.queue.runs : r.gen <= img.generation
        /\ img.free + Cardinality(img.bitmap) = TotalBlocks

(* No set of objects hangs together by itself: some entry leads into it    *)
(* from outside.                                                           *)
NamespaceTree(img) ==
    LET bases == {Root, OrphanDirectory}
        parents(o) == {e \in img.entries : e.child = o}
    IN  /\ Root \in DirectoryIds(img)
        /\ \A e \in img.entries :
             /\ e.child \in ObjectIds(img) \ bases
             /\ e.hint = img.objects[e.child].type
             /\ e.dir = OrphanDirectory => e.name = e.child /\ e.hint = "file"
        /\ \A o \in ObjectIds(img) \ bases :
             /\ img.objects[o].links = Cardinality(parents(o)) /\ parents(o) /= {}
             /\ o \in DirectoryIds(img) => Cardinality(parents(o)) = 1
        /\ \A o \in ObjectIds(img) \intersect bases : img.objects[o].links = 1
        /\ \A set \in SUBSET (ObjectIds(img) \ bases) :
             set = {} \/ \E e \in img.entries : e.child \in set /\ e.dir \notin set

Sound(img) ==
    /\ OwnershipSound(img) /\ AllocationSound(img) /\ NamespaceTree(img)
    /\ \A o \in ObjectIds(img) :
         /\ o < img.next_id
         /\ o = OrphanDirectory => o \in DirectoryIds(img)
         /\ img.objects[o].data_blocks
              = Cardinality({x \in (img.objects[o].extents \X (0 .. TotalBlocks + 1)) : x[2] \in Mapped(x[1])})

(* The verifier calls an image clean exactly when every block has the      *)
(* owners its records and the bitmap say, and the namespace is a tree with *)
(* true link counts (load_committed_state with full_sweep); a clean image  *)
(* mounts (load_mount_state).                                              *)
VerifyExact == IF Clean(image) THEN Sound(image) /\ LoadMountState(image) ELSE ~Sound(image)
=============================================================================
