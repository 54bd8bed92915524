------------------------------ MODULE FileData ------------------------------
(***************************************************************************)
(* File content: extent maps, holes, reservations, reflink clones with the *)
(* shared-extent reference tree (ADR-061), and the private in-place policy *)
(* (ADR-062, ADR-065), as the transactions of volume.rs publish them.      *)
(*                                                                         *)
(* An extent maps count blocks from logical to physical.  Operations take  *)
(* byte ranges, and a block holds BlockSize bytes, so that first and last  *)
(* blocks are partial.  content is what a file would hold were every clone *)
(* a copy; a byte is 0 or the file that wrote it.                          *)
(***************************************************************************)
EXTENDS Integers, FiniteSets, SequencesExt

CONSTANTS
    Files,              \* a set of positive numbers
    BlockSize,
    FileBlocks,         \* bound: logical blocks of a file
    Disk,               \* bound: data blocks 1 .. Disk
    WriteRanges,        \* bound: the byte ranges <<from, to>> that are written
    CloneRanges,        \* bound: <<source, destination, length>> in bytes
    Sizes,              \* bound: the sizes a file is truncated to
    MaxCommits          \* bound: commits of a behaviour

VARIABLES
    store,              \* the checkpoint
    content,            \* ghost: the bytes of each file
    view,               \* the immutable view taken of the files, or NoView
    older,              \* the view in the other checkpoint
    commits             \* how many there were

vars == <<store, content, view, older, commits>>

Inf == FileBlocks + Disk + 1
Absent == [exists |-> FALSE, size |-> 0, extents |-> {}, tree |-> FALSE,
           in_place |-> FALSE]
Empty == [Absent EXCEPT !.exists = TRUE]
NoView == [files |-> [f \in Files |-> Absent], content |-> [f \in Files |-> <<>>]]

Ceil(n, d) == (n + d - 1) \div d

-----------------------------------------------------------------------------
(* Runs of blocks.  A run has start and count; an extent also physical and *)
(* flags, a reference record references.                                   *)

End(r) == r.start + r.count
Overlaps(r, from, to) == r.start < to /\ from < End(r)

(* The part of each run that lies in from .. to - 1.  moved gives what     *)
(* changes in a run whose start moves.                                     *)
Inside(runs, from, to, moved(_, _)) ==
    {LET s == Max({r.start, from}) IN
        [moved(r, s - r.start) EXCEPT !.start = s, !.count = Min({End(r), to}) - s]
     : r \in {r \in runs : Overlaps(r, from, to)}}

Outside(runs, from, to, moved(_, _)) ==
    Inside(runs, 0, from, moved) \union Inside(runs, to, Inf, moved)

(* Maximal runs of from .. to - 1 that no run covers (logical_holes).      *)
Gaps(runs, from, to) ==
    LET free(b) == b \in from .. to - 1 /\ \A r \in runs : ~Overlaps(r, b, b + 1)
    IN  {[start |-> g[1], count |-> g[2] - g[1]] :
           g \in {g \in (from .. to) \X (from .. to) :
                    /\ g[1] < g[2] /\ \A b \in g[1] .. g[2] - 1 : free(b)
                    /\ ~free(g[1] - 1) /\ ~free(g[2])}}

(* Neighbours that continue each other are one run.                        *)
Merge(runs, continues(_, _)) ==
    LET add(seq, r) ==
          IF seq /= <<>> /\ End(Last(seq)) = r.start /\ continues(Last(seq), r)
          THEN [seq EXCEPT ![Len(seq)].count = @ + r.count]
          ELSE Append(seq, r)
    IN  ToSet(FoldLeft(add, <<>>, SetToSortSeq(runs, LAMBDA a, b : a.start < b.start)))

-----------------------------------------------------------------------------
(* Extents. *)

Extent(l, p, n, flags) == [start |-> l, physical |-> p, count |-> n, flags |-> flags]
Later(x, n) == [x EXCEPT !.physical = @ + n]
Cut(xs, from, to) == Inside(xs, from, to, Later)
Keep(xs, from, to) == Outside(xs, from, to, Later)

Coalesce(xs) == Merge(xs, LAMBDA a, b : a.flags = b.flags /\ a.physical + a.count = b.physical)

Shared(x) == [x EXCEPT !.flags = @ \union {"shared"}]
MarkLogicalRangeShared(xs, from, to) ==
    IF from >= to THEN xs ELSE Coalesce(Keep(xs, from, to) \union {Shared(x) : x \in Cut(xs, from, to)})
RemapExtentRange(xs, from, to, at) ==
    Coalesce({[Shared(x) EXCEPT !.start = @ - from + at] : x \in Cut(xs, from, to)})

ExtentAt(xs, b) == {x \in xs : Overlaps(x, b, b + 1)}

(* A hole and a reservation read as zeros.                                 *)
ReadLayoutBlock(data, xs, b) ==
    LET found == {x \in ExtentAt(xs, b) : "unwritten" \notin x.flags}
    IN  IF found = {} THEN [i \in 1 .. BlockSize |-> 0]
        ELSE LET x == CHOOSE x \in found : TRUE IN data[x.physical + b - x.start]

(* One extent from block zero that the size needs whole has no tree.       *)
DirectLayout(xs, size) ==
    IF xs = {} THEN size = 0
    ELSE \E x \in xs : /\ xs = {x} /\ x.start = 0 /\ x.flags = {}
                       /\ size > (x.count - 1) * BlockSize /\ size <= x.count * BlockSize

ReadFile(data, file) ==
    [i \in 1 .. file.size |->
        ReadLayoutBlock(data, file.extents, (i - 1) \div BlockSize)[((i - 1) % BlockSize) + 1]]

-----------------------------------------------------------------------------
(* The reference tree holds the runs mapped at least twice.  A transaction *)
(* edits the records near its extents: edit is [original, current].        *)

Same(r, n) == r
NoEdit == [original |-> {}, current |-> {}]

(* Mutant: the record that ends where the range starts is not fetched.     *)
FetchesNoNeighbour(refs, edit, from, to) ==
    LET seen == {r.start : r \in edit.original}
        records == {r \in refs : Overlaps(r, from, to + 1) /\ r.start \notin seen}
    IN  [original |-> edit.original \union records, current |-> edit.current \union records]

(* shared_prefetch: from the last record that starts before the range, to  *)
(* one that starts at its end.                                             *)
SharedPrefetch(refs, edit, from, to) ==
    LET before == {r.start : r \in {r \in refs : r.start < from}}
        low == IF before = {} THEN from ELSE Max(before)
        seen == {r.start : r \in edit.original}
        records == {r \in refs : r.start >= low /\ r.start <= to /\ r.start \notin seen}
    IN  [original |-> edit.original \union records, current |-> edit.current \union records]

Acquire(refs, edit, x) ==
    LET from == x.physical to == x.physical + x.count
        e == SharedPrefetch(refs, edit, from, to)
    IN  [e EXCEPT !.current =
            Outside(@, from, to, Same)
              \union {[r EXCEPT !.references = @ + 1] : r \in Inside(@, from, to, Same)}
              \union {[start |-> g.start, count |-> g.count, references |-> 2]
                        : g \in Gaps(@, from, to)}]

(* Two references become one mapping without a record.                     *)
Release(refs, edit, x) ==
    LET from == x.physical to == x.physical + x.count
        e == SharedPrefetch(refs, edit, from, to)
    IN  [e EXCEPT !.current =
            Outside(@, from, to, Same)
              \union {[r EXCEPT !.references = @ - 1]
                        : r \in {r \in Inside(@, from, to, Same) : r.references > 2}}]

Blocks(start, count) == start .. start + count - 1

Retired(refs, edit, x) ==
    LET from == x.physical to == x.physical + x.count
        e == SharedPrefetch(refs, edit, from, to)
    IN  UNION {Blocks(g.start, g.count) : g \in Gaps(e.current, from, to)}

(* release_data_run over the extents that leave a file.                    *)
ReleaseDataRun(refs, r, x) ==
    IF "shared" \notin x.flags
    THEN [r EXCEPT !.retired = @ \union Blocks(x.physical, x.count)]
    ELSE [edit |-> Release(refs, r.edit, x), retired |-> r.retired \union Retired(refs, r.edit, x)]

ReleaseAll(refs, edit, xs) ==
    FoldLeft(LAMBDA r, x : ReleaseDataRun(refs, r, x), [edit |-> edit, retired |-> {}],
             SetToSortSeq(xs, LAMBDA a, b : a.start < b.start))

AcquireAll(refs, edit, xs) ==
    FoldLeft(LAMBDA e, x : Acquire(refs, e, x), edit,
             SetToSortSeq(xs, LAMBDA a, b : a.start < b.start))

FinishEdit(refs, edit) ==
    (refs \ edit.original) \union Merge(edit.current, LAMBDA a, b : a.references = b.references)

-----------------------------------------------------------------------------
(* Allocation: the first run that is long enough, then halves of it.       *)

RECURSIVE AllocateRuns(_, _, _, _)
AllocateRuns(free, l, n, longest) ==
    IF n = 0 THEN {[free |-> free, extents |-> {}]}
    ELSE LET c == Min({n, longest})
             starts == {p \in free : Blocks(p, c) \subseteq free}
         IN  IF starts = {}
             THEN IF c = 1 THEN {} ELSE AllocateRuns(free, l, n, Ceil(c, 2))
             ELSE LET p == Min(starts)
                  IN  {[r EXCEPT !.extents = @ \union {Extent(l, p, c, {})}]
                         : r \in AllocateRuns(free \ Blocks(p, c), l + c, n - c, longest)}

AllocateExtentRuns(free, l, n) ==
    {[r EXCEPT !.extents = Coalesce(@)] : r \in AllocateRuns(free, l, n, n)}

(* Runs for several ranges, one after the other.                           *)
RECURSIVE AllocateFor(_, _)
AllocateFor(free, ranges) ==
    IF ranges = {} THEN {[free |-> free, extents |-> {}]}
    ELSE LET g == CHOOSE g \in ranges : \A h \in ranges : g.start <= h.start
         IN  UNION {{[r EXCEPT !.extents = @ \union a.extents]
                       : r \in AllocateFor(a.free, ranges \ {g})}
                     : a \in AllocateExtentRuns(free, g.start, g.count)}

-----------------------------------------------------------------------------
(* Publishing.  A block retired by a commit is free two commits later, or  *)
(* when the last view that reads it is gone.                               *)

Mapped(files) ==
    UNION {UNION {Blocks(x.physical, x.count) : x \in files[f].extents} : f \in Files}

Promoted == store.free \union store.retired[2]

(* data is the new content of some blocks.                                 *)
Publish(files, refs, free, retired, data) ==
    /\ store' = [files |-> files, refs |-> refs, free |-> free,
                 retired |-> <<retired \ Mapped(view.files), store.retired[1]>>,
                 retained |-> store.retained \union (retired \intersect Mapped(view.files)),
                 data |-> [b \in 1 .. Disk |-> IF b \in DOMAIN data THEN data[b] ELSE store.data[b]]]
    /\ older' = view /\ UNCHANGED view

(* stage_file_layout chooses the layout; stage_extent_delta keeps the tree.*)
StageFileLayout(file, xs, size) ==
    [file EXCEPT !.extents = xs, !.size = size, !.tree = ~DirectLayout(xs, size)]
StageExtentDelta(file, xs, size) == [file EXCEPT !.extents = xs, !.size = size]

Staged(file, xs, size, bounded) ==
    IF bounded /\ file.tree THEN StageExtentDelta(file, xs, size)
    ELSE StageFileLayout(file, xs, size)

CommitFileLayout(f, file, removed, free, data) ==
    \E r \in {ReleaseAll(store.refs, NoEdit, removed)} :
        Publish([store.files EXCEPT ![f] = file], FinishEdit(store.refs, r.edit),
                free, r.retired, data)

-----------------------------------------------------------------------------
(* Operations. *)

File(f) == store.files[f]

(* Mutant: views do not matter to the in-place policy.                     *)
IgnoresViews == FALSE

(* snapshots_require_cow: a view in either checkpoint.                     *)
SnapshotsRequireCow == view /= NoView \/ older /= NoView

CreateFile(f) ==
    /\ ~File(f).exists
    /\ Publish([store.files EXCEPT ![f] = Empty], store.refs, Promoted, {}, <<>>)
    /\ content' = [content EXCEPT ![f] = <<>>]

Overwritten(f, from, to, byte(_)) ==
    [i \in 1 .. Max({Len(content[f]), to}) |->
        IF i - 1 \in from .. to - 1 THEN byte(i - 1)
        ELSE IF i <= Len(content[f]) THEN content[f][i] ELSE 0]

(* The blocks that from .. to - 1 touches, with the bytes around it.       *)
Patched(xs, from, to, byte(_)) ==
    [b \in from \div BlockSize .. Ceil(to, BlockSize) - 1 |->
        [i \in 1 .. BlockSize |->
            LET at == b * BlockSize + i - 1
            IN  IF at \in from .. to - 1 THEN byte(at) ELSE ReadLayoutBlock(store.data, xs, b)[i]]]

Placed(xs, blocks) ==
    LET at(b) == CHOOSE p \in 1 .. Disk : \E x \in ExtentAt(xs, b) : p = x.physical + b - x.start
    IN  [p \in {at(b) : b \in DOMAIN blocks} |->
            blocks[CHOOSE b \in DOMAIN blocks : at(b) = p]]

Reservation(x) == x.flags = {"unwritten"}

(* The blocks are private and written: they are overwritten where they are.*)
OverwriteInPlace(f, blocks, bounded) ==
    CommitFileLayout(f, Staged(File(f), File(f).extents, File(f).size, bounded), {}, Promoted,
                     Placed(File(f).extents, blocks))

(* New blocks, except that a reservation keeps its own.                    *)
WriteElsewhere(f, first, last, size, blocks, bounded) ==
    LET xs == File(f).extents
        reserved == {x \in Cut(xs, first, last) : Reservation(x)}
    IN  \E a \in AllocateFor(Promoted, Gaps(reserved, first, last)) :
          LET additions == a.extents \union {[x EXCEPT !.flags = {}] : x \in reserved}
              new == Coalesce(Keep(xs, first, last) \union additions)
          IN  CommitFileLayout(f, Staged(File(f), new, size, bounded),
                               Cut(xs, first, last) \ reserved, a.free, Placed(additions, blocks))

WriteFileAt(f, from, to, bounded) ==
    LET file == File(f)
        first == from \div BlockSize
        last == Ceil(to, BlockSize)
        blocks == Patched(file.extents, from, to, LAMBDA i : f)
        in_place == /\ file.in_place /\ ~SnapshotsRequireCow /\ to <= file.size
                    /\ \A b \in first .. last - 1 : \E x \in ExtentAt(file.extents, b) : x.flags = {}
    IN  /\ file.exists
        /\ content' = [content EXCEPT ![f] = Overwritten(f, from, to, LAMBDA i : f)]
        /\ \/ in_place /\ OverwriteInPlace(f, blocks, bounded)
           \/ ~in_place /\ WriteElsewhere(f, first, last, Max({file.size, to}), blocks, bounded)

(* A partial last block is written again with zeros after the end.         *)
PartialTail(xs, size) ==
    /\ size % BlockSize /= 0
    /\ \E x \in ExtentAt(xs, size \div BlockSize) : "unwritten" \notin x.flags

(* A tree is kept as it is; another layout is chosen again.                *)
Grow(f, size) ==
    LET file == File(f) IN
    CommitFileLayout(f, IF file.tree THEN StageExtentDelta(file, file.extents, size)
                        ELSE StageFileLayout(file, file.extents, size), {}, Promoted, <<>>)

Shrink(f, size, bounded) ==
    LET file == File(f)
        xs == file.extents
        kept == Ceil(size, BlockSize)
        tail == {[start |-> kept - 1, count |-> 1]}
        zeroed == [b \in {kept - 1} |->
                     [i \in 1 .. BlockSize |->
                        IF (kept - 1) * BlockSize + i <= size
                        THEN ReadLayoutBlock(store.data, xs, kept - 1)[i] ELSE 0]]
    IN  IF PartialTail(xs, size)
        THEN \E a \in AllocateFor(Promoted, tail) :
               LET new == Coalesce(Keep(xs, kept - 1, Inf) \union a.extents)
               IN  CommitFileLayout(f, Staged(file, new, size, bounded),
                                    Cut(xs, kept - 1, Inf), a.free, Placed(a.extents, zeroed))
        ELSE CommitFileLayout(f, Staged(file, Coalesce(Keep(xs, kept, Inf)), size, bounded),
                              Cut(xs, kept, Inf), Promoted, <<>>)

TruncateFile(f, size, bounded) ==
    /\ File(f).exists /\ size /= File(f).size
    /\ content' = [content EXCEPT ![f] = [i \in 1 .. size |-> IF i <= Len(@) THEN @[i] ELSE 0]]
    /\ IF size > File(f).size THEN Grow(f, size) ELSE Shrink(f, size, bounded)

PreallocateFile(f, from, to) ==
    LET file == File(f)
        holes == Gaps(file.extents, from, to)
    IN  /\ file.exists /\ holes /= {}
        /\ \E a \in AllocateFor(Promoted, holes) :
              LET new == Coalesce(file.extents \union
                                  {[x EXCEPT !.flags = {"unwritten"}] : x \in a.extents})
              IN  CommitFileLayout(f, Staged(file, new, file.size, TRUE), {}, a.free, <<>>)
        /\ UNCHANGED content

(* Both files map the same blocks, flagged in both; a flag needs a tree.   *)
FlaggedSource(source) ==
    [source EXCEPT !.extents = {Shared(x) : x \in @}, !.tree = source.extents /= {} \/ @]

CloneOf(source) ==
    [Empty EXCEPT !.extents = FlaggedSource(source).extents, !.size = source.size,
                  !.tree = FlaggedSource(source).tree]

(* Both records and the name in one transaction.                           *)
PublishClone(f, g, source, clone, edit) ==
    Publish([store.files EXCEPT ![f] = source, ![g] = clone], FinishEdit(store.refs, edit),
            Promoted, {}, <<>>)

CloneFile(f, g) ==
    /\ File(f).exists /\ ~File(g).exists
    /\ PublishClone(f, g, FlaggedSource(File(f)), CloneOf(File(f)),
                    AcquireAll(store.refs, NoEdit, File(f).extents))
    /\ content' = [content EXCEPT ![g] = content[f]]

(* The whole blocks of the range: full .. full_end - 1 in the destination, *)
(* s .. s_end - 1 in the source.                                           *)
WholeBlocks(from, at, length) ==
    LET full == Ceil(at, BlockSize)
        full_end == (at + length) \div BlockSize
        some == full < full_end
        s == IF some THEN (from + full * BlockSize - at) \div BlockSize ELSE 0
    IN  [some |-> some, full |-> full, full_end |-> full_end,
         s |-> s, s_end |-> IF some THEN s + full_end - full ELSE 0]

PublishRange(f, g, marked, file, removed, shared, free, data) ==
    \E r \in {ReleaseAll(store.refs, AcquireAll(store.refs, NoEdit, shared), removed)} :
        Publish([store.files EXCEPT ![f] = marked, ![g] = file],
                FinishEdit(store.refs, r.edit), free, r.retired, data)

(* Whole blocks are shared, the partial ones at either end are copied.     *)
CloneRange(f, from, g, at, length) ==
    LET source == File(f)
        target == File(g)
        to == at + length
        first == at \div BlockSize
        last == Ceil(to, BlockSize)
        whole == WholeBlocks(from, at, length)
        shared == RemapExtentRange(source.extents, whole.s, whole.s_end, whole.full)
        byte(i) == ReadFile(store.data, source)[i - at + from + 1]
        blocks == Patched(target.extents, at, to, byte)
        private == {b \in first .. last - 1 :
                      ~(whole.some /\ b \in whole.full .. whole.full_end - 1)}
    IN  /\ f /= g /\ source.exists /\ target.exists
        /\ from + length <= source.size /\ from % BlockSize = at % BlockSize
        /\ \E a \in AllocateFor(Promoted, {[start |-> b, count |-> 1] : b \in private}) :
              LET new == Coalesce(Keep(target.extents, first, last) \union a.extents \union shared)
                  new_source == MarkLogicalRangeShared(source.extents, whole.s, whole.s_end)
              IN  PublishRange(f, g,
                     IF new_source = source.extents THEN source
                     ELSE StageFileLayout(source, new_source, source.size),
                     StageFileLayout(target, new, Max({target.size, to})),
                     Cut(target.extents, first, last), shared, a.free,
                     Placed(a.extents, [b \in private |-> blocks[b]]))
        /\ content' = [content EXCEPT ![g] =
              Overwritten(g, at, to, LAMBDA i : content[f][i - at + from + 1])]

(* retire_file_storage.                                                    *)
DeleteFile(f) ==
    /\ File(f).exists
    /\ CommitFileLayout(f, Absent, File(f).extents, Promoted, <<>>)
    /\ content' = [content EXCEPT ![f] = <<>>]

SetFileDataPolicy(f) ==
    /\ File(f).exists
    /\ Publish([store.files EXCEPT ![f].in_place = ~@], store.refs, Promoted, {}, <<>>)
    /\ UNCHANGED content

CreateView ==
    /\ view = NoView
    /\ view' = [files |-> store.files, content |-> content] /\ older' = view
    /\ store' = [store EXCEPT !.free = Promoted, !.retired = <<{}, store.retired[1]>>]
    /\ UNCHANGED content

(* What only the view kept is retired by the commit that drops it.         *)
DropView ==
    /\ view /= NoView
    /\ view' = NoView /\ older' = view
    /\ store' = [store EXCEPT !.free = Promoted, !.retained = {},
                              !.retired = <<store.retained, store.retired[1]>>]
    /\ UNCHANGED content

(* Any commit that changes nothing here.                                   *)
OtherCommit ==
    /\ older /= view \/ store.retired /= <<{}, {}>>
    /\ Publish(store.files, store.refs, Promoted, {}, <<>>) /\ UNCHANGED content

(* Empty files, all with the private in-place policy or none.              *)
Init ==
    /\ \E policy \in BOOLEAN :
         store = [files |-> [f \in Files |-> [Empty EXCEPT !.in_place = policy]], refs |-> {},
                  free |-> 1 .. Disk, retired |-> <<{}, {}>>, retained |-> {},
                  data |-> [b \in 1 .. Disk |-> [i \in 1 .. BlockSize |-> 0]]]
    /\ content = [f \in Files |-> <<>>] /\ view = NoView /\ older = NoView
    /\ commits = 0

Edit ==
    \E f \in Files :
        \/ CreateFile(f) \/ DeleteFile(f) \/ SetFileDataPolicy(f)
        \/ \E r \in WriteRanges, bounded \in BOOLEAN : WriteFileAt(f, r[1], r[2], bounded)
        \/ \E size \in Sizes, bounded \in BOOLEAN : TruncateFile(f, size, bounded)
        \/ \E from, to \in 0 .. FileBlocks : from < to /\ PreallocateFile(f, from, to)
        \/ \E g \in Files : CloneFile(f, g)
        \/ \E g \in Files, r \in CloneRanges : CloneRange(f, r[1], g, r[2], r[3])

Committing == commits < MaxCommits /\ commits' = commits + 1

Next == Committing /\ (Edit \/ CreateView \/ DropView \/ OtherCommit)

Spec == Init /\ [][Next]_vars

-----------------------------------------------------------------------------
(* Properties. *)

(* Every file, and every file of a view in either checkpoint, reads as if  *)
(* clones were copies: no stale byte after a truncate or in a reservation, *)
(* none of another file, whatever is written in place (read_file_at).      *)
ReadsExact ==
    \A f \in Files :
        /\ ReadFile(store.data, File(f)) = content[f]
        /\ \A v \in {view, older} : ReadFile(store.data, v.files[f]) = v.content[f]

Mappings(b) ==
    {m \in {<<f, x>> : f \in Files, x \in UNION {File(g).extents : g \in Files}} :
        m[2] \in File(m[1]).extents /\ b \in Blocks(m[2].physical, m[2].count)}

(* The reference tree says for every block how often it is mapped, a block *)
(* mapped twice is flagged in each map, records are maximal, and a block   *)
(* is free exactly when nothing needs it (RefEdit, release_data_run).      *)
SharingExact ==
    /\ \A b \in 1 .. Disk :
        LET maps == Mappings(b)
            records == {r \in store.refs : b \in Blocks(r.start, r.count)}
            owned == Mapped(store.files) \union store.retained
                       \union store.retired[1] \union store.retired[2]
        IN  /\ Cardinality(maps) >= 2 => /\ \A m \in maps : "shared" \in m[2].flags
                                         /\ \E r \in records : r.references = Cardinality(maps)
            /\ Cardinality(maps) < 2 => records = {}
            /\ Cardinality(records) <= 1
            /\ b \in store.free <=> b \notin owned
            /\ maps /= {} => b \notin store.retained \union store.retired[1] \union store.retired[2]
    /\ \A r, s \in store.refs : End(r) = s.start => r.references /= s.references

=============================================================================
