---------------------------- MODULE RestoreStages ----------------------------
(***************************************************************************)
(* Restoring a file or a tree from a snapshot (ADR-128, ADR-130) and       *)
(* reclaiming what a failed or interrupted restore left (ADR-133).  A      *)
(* restore builds a private stage, one commit after another, and publishes *)
(* it with one rename; a marker naming the stage's root hides its objects. *)
(***************************************************************************)
EXTENDS Integers, FiniteSets, SequencesExt

CONSTANTS
    Root,           \* the root directory
    Captured,       \* the volume when the view was taken: a disk
    Targets,        \* names to restore to, integers in key order
    StageNames,     \* stage names by nonce, integers too
    MaxObject,      \* bound: object identifiers
    MaxCalls,       \* bound: restore calls and ordinary changes
    MaxFaults,      \* bound: failed commits and crashes
    ScanEntries,    \* RestoreRecoveryLimits
    WorkSteps,
    MaxDepth

VARIABLES
    disk,           \* the checkpoint: [objs, entries, next]
    view,           \* what the snapshot captured: a disk
    job,            \* the running restore, or NoJob
    poisoned,       \* publication_state_uncertain
    cursor,         \* the caller's reclaim cursor
    done,           \* the last reclaim reported done and nothing changed since
    quiet,          \* callers start nothing more
    budget          \* [calls, faults] left, ordinary changes made

restore_vars == <<disk, view, job, poisoned, cursor, done, quiet, budget>>

-----------------------------------------------------------------------------
(* A disk: objs maps identifiers to [kind, data, meta, marker], where data *)
(* counts a file's extents, meta says that the captured metadata is in     *)
(* place (of a staged object) and marker is the restore attribute, 0 for   *)
(* none.                                                                   *)

Exists(d, o) == o \in DOMAIN d.objs
Kind(d, o) == d.objs[o].kind
Children(d, o) == {e \in d.entries : e.parent = o}
Lookup(d, parent, name) == {e \in d.entries : e.parent = parent /\ e.name = name}
Entry(parent, name, object) == [parent |-> parent, name |-> name, object |-> object]

(* restore_stage_private, snapshot_stage_private, recovery_marker: active  *)
(* while the root carries its own marker.                                  *)
Marker(d, o) ==
    LET root == d.objs[o].marker
    IN  IF root /= 0 /\ Exists(d, root) /\ d.objs[root].marker = root THEN root ELSE 0
Private(d, o) == Marker(d, o) /= 0

(* Op of x, evaluated once.                                                *)
With(x, Op(_)) == CHOOSE y \in {Op(v) : v \in {x}} : TRUE

RECURSIVE VisibleUnder(_, _)
VisibleUnder(d, o) ==
    {o} \union UNION {VisibleUnder(d, e.object)
                        : e \in {e \in Children(d, o) : ~Private(d, e.object)}}

RECURSIVE Under(_, _)
Under(d, o) == {o} \union UNION {Under(d, e.object) : e \in Children(d, o)}

(* An entry changes its directory's metadata.                              *)
Touch(d, parent) == IF Private(d, parent) THEN [d EXCEPT !.objs[parent].meta = FALSE] ELSE d

(* create_restore_stage, create_file, create_directory.                    *)
Create(d, parent, name, kind, marker) ==
    Touch([objs |-> [o \in DOMAIN d.objs \union {d.next} |->
                       IF o = d.next
                       THEN [kind |-> kind, data |-> 0, meta |-> marker = 0, marker |-> marker]
                       ELSE d.objs[o]],
           entries |-> d.entries \union {Entry(parent, name, d.next)},
           next |-> d.next + 1], parent)

(* delete_file, remove_directory.                                          *)
RemoveObject(d, o) ==
    LET e == CHOOSE e \in d.entries : e.object = o
    IN  Touch([d EXCEPT !.objs = [p \in DOMAIN d.objs \ {o} |-> d.objs[p]],
                        !.entries = @ \ {e}], e.parent)

(* publish_restored_object: the rename and, for a root, its marker.        *)
PublishObject(d, parent, stage, name, o) ==
    LET renamed == Touch([d EXCEPT !.entries = (@ \ {Entry(parent, stage, o)})
                                                 \union {Entry(parent, name, o)}], parent)
    IN  IF d.objs[o].marker = o THEN [renamed EXCEPT !.objs[o].marker = 0] ELSE renamed

-----------------------------------------------------------------------------
(* The captured tree and the plan: every visible node, parents first.      *)

NodeOf(o, parent, name) == [source |-> o, parent |-> parent, name |-> name,
                            kind |-> Kind(view, o), data |-> view.objs[o].data]

ByName(entries) ==
    [i \in 1 .. Cardinality(entries) |->
        CHOOSE e \in entries : Cardinality({f \in entries : f.name < e.name}) = i - 1]

RECURSIVE Pending(_, _)
Pending(nodes, stack) ==
    IF stack = <<>> THEN nodes
    ELSE LET e == Last(stack)
             children == ByName({c \in Children(view, e.object) : ~Private(view, c.object)})
             index == Len(nodes) + 1
         IN  Pending(Append(nodes, NodeOf(e.object, e.parent, e.name)),
                     Front(stack) \o [i \in DOMAIN children |->
                                        Entry(index, children[i].name, children[i].object)])

restore_tree_plan(source) == Pending(<<>>, <<Entry(0, 0, source)>>)

(* The shape of a tree: names along the path, kind, extents, metadata.     *)
RECURSIVE Shape(_, _, _)
Shape(d, o, path) ==
    {[path |-> path, kind |-> Kind(d, o), data |-> d.objs[o].data, meta |-> d.objs[o].meta]}
    \union UNION {Shape(d, e.object, Append(path, e.name))
                    : e \in {e \in Children(d, o) : ~Private(d, e.object)}}

-----------------------------------------------------------------------------
(* A restore.  objects are those of the plan that are done; file is the    *)
(* file being copied, 0 between files.                                     *)

NoJob == [plan |-> <<>>, objects |-> <<>>, file |-> 0, parent |-> 0, stage |-> 0,
          name |-> 0, failed |-> FALSE]
Running == job /= NoJob
RootOf == IF job.objects = <<>> THEN job.file ELSE job.objects[1]

Stale(c) == [c EXCEPT !.fresh = FALSE]

(* A commit succeeds, fails with nothing changed, or leaves it uncertain   *)
(* which checkpoint is durable.                                            *)
Commit(new, then, else) ==
    \/ /\ disk' = new /\ job' = then
       /\ UNCHANGED <<poisoned, budget>>
    \/ /\ budget.faults > 0
       /\ disk' = disk /\ job' = else
       /\ budget' = [budget EXCEPT !.faults = @ - 1]
       /\ UNCHANGED poisoned
    \/ /\ budget.faults > 0
       /\ disk' \in {disk, new} /\ job' = NoJob
       /\ poisoned' = TRUE
       /\ budget' = [budget EXCEPT !.faults = @ - 1]

(* Any other commit makes the reclaim cursor stale.                        *)
Elsewhere ==
    /\ cursor' = IF disk' = disk THEN cursor ELSE Stale(cursor)
    /\ done' = (done /\ disk' = disk)
    /\ UNCHANGED <<view, quiet>>

FreeStage(d, parent) ==
    {s \in StageNames : Lookup(d, parent, s) = {} /\ \A t \in StageNames :
                           t < s => Lookup(d, parent, t) /= {}}

(* snapshot_restore_file and snapshot_restore_tree up to the stage's root. *)
StartRestore ==
    /\ ~quiet /\ ~Running /\ ~poisoned /\ budget.calls > 0
    /\ \E parent \in {o \in VisibleUnder(disk, Root) : Kind(disk, o) = "dir"},
          source \in VisibleUnder(view, Root) \ {Root}, name \in Targets :
       \E plan \in {restore_tree_plan(source)} :
       \E stage \in FreeStage(disk, parent) :
       \E first \in {disk.next} :
          /\ Lookup(disk, parent, name) = {}
          /\ disk.next + Len(plan) <= MaxObject + 1
          /\ disk' = Create(disk, parent, stage, plan[1].kind, first)
          /\ job' = [plan |-> plan, parent |-> parent, stage |-> stage, name |-> name,
                     objects |-> IF plan[1].kind = "dir" THEN <<first>> ELSE <<>>,
                     file |-> IF plan[1].kind = "dir" THEN 0 ELSE first, failed |-> FALSE]
    /\ budget' = [budget EXCEPT !.calls = @ - 1]
    /\ UNCHANGED poisoned
    /\ Elsewhere

Failing == [job EXCEPT !.failed = TRUE]
Working == Running /\ ~job.failed
NextNode == job.plan[Len(job.objects) + 1]
NextParent == job.objects[NextNode.parent]
More == Len(job.objects) < Len(job.plan)

CreateDirectory ==
    /\ Working /\ More /\ job.file = 0 /\ NextNode.kind = "dir"
    /\ Commit(Create(disk, NextParent, NextNode.name, "dir", RootOf),
              [job EXCEPT !.objects = Append(@, disk.next)], Failing)
    /\ Elsewhere

(* restore_file_private below a stage's root.                              *)
CreateFile ==
    /\ Working /\ More /\ job.file = 0 /\ NextNode.kind = "file"
    /\ \E stage \in FreeStage(disk, NextParent) :
          Commit(Create(disk, NextParent, stage, "file", RootOf),
                 [job EXCEPT !.file = disk.next], Failing)
    /\ Elsewhere

CopyExtent ==
    /\ Working /\ job.file /= 0 /\ disk.objs[job.file].data < NextNode.data
    /\ Commit([disk EXCEPT !.objs[job.file].data = @ + 1], job, Failing)
    /\ Elsewhere

RestoreFileMetadata ==
    /\ Working /\ job.file /= 0
    /\ disk.objs[job.file].data = NextNode.data /\ ~disk.objs[job.file].meta
    /\ Commit([disk EXCEPT !.objs[job.file].meta = TRUE], job, Failing)
    /\ Elsewhere

FileReady == disk.objs[job.file].data = NextNode.data /\ disk.objs[job.file].meta

(* A child is renamed inside the stage and keeps the stage's marker.       *)
PublishFile ==
    /\ Working /\ job.file /= 0 /\ FileReady /\ job.objects /= <<>>
    /\ \E e \in {e \in disk.entries : e.object = job.file} :
          Commit(PublishObject(disk, e.parent, e.name, NextNode.name, job.file),
                 [job EXCEPT !.objects = Append(@, job.file), !.file = 0], Failing)
    /\ Elsewhere

(* The last directory of the plan whose metadata is not in place.          *)
Unrestored ==
    {i \in DOMAIN job.objects :
        /\ job.plan[i].kind = "dir" /\ ~disk.objs[job.objects[i]].meta
        /\ \A k \in DOMAIN job.objects :
              job.plan[k].kind = "dir" /\ k > i => disk.objs[job.objects[k]].meta}

(* Creating children changed their directories: metadata comes last.       *)
DirectoriesDue == ~More /\ job.file = 0

RestoreDirectoryMetadata ==
    /\ Working /\ DirectoriesDue
    /\ \E i \in Unrestored :
          Commit([disk EXCEPT !.objs[job.objects[i]].meta = TRUE], job, Failing)
    /\ Elsewhere

(* Mutant: a tree is published once its children are in place.             *)
ChildrenInPlace ==
    \/ More /\ job.objects = <<>> /\ job.file /= 0 /\ FileReady
    \/ ~More

Verified ==
    \/ More /\ job.objects = <<>> /\ job.file /= 0 /\ FileReady
    \/ ~More /\ Unrestored = {}

PublishStage ==
    /\ Working /\ Verified
    /\ Commit(PublishObject(disk, job.parent, job.stage, job.name, RootOf), NoJob, Failing)
    /\ Elsewhere

(* A failed restore removes its stage, children first, unless that fails   *)
(* too (remove_staged_tree).                                               *)
CleanUp ==
    /\ Running /\ job.failed
    /\ \E o \in Under(disk, RootOf) :
          /\ Children(disk, o) = {}
          /\ Commit(RemoveObject(disk, o), IF o = RootOf THEN NoJob ELSE job, NoJob)
    /\ Elsewhere

-----------------------------------------------------------------------------
(* restore_reclaim_step: a walk with a stack of frames, [parent, object,   *)
(* ordinal, stage, name], one at least for the scope.                      *)

Frame(parent, object, stage, name) ==
    [parent |-> parent, object |-> object, ordinal |-> 0, stage |-> stage, name |-> name]

NoCursor == [frames |-> <<>>, blocked |-> 0, fresh |-> FALSE]

(* Mutant: the parent goes on behind the entry that took the removed one's *)
(* place.                                                                  *)
KeepsOrdinal(frames, removed) == Front(frames)

Popped(frames, removed) ==
    LET rest == Front(frames)
    IN  IF removed /\ rest /= <<>> /\ Last(rest).ordinal > 0
        THEN [rest EXCEPT ![Len(rest)].ordinal = @ - 1] ELSE rest

(* The entry or the whole stage it belongs to is passed over.              *)
Block(w) ==
    LET stage == Last(w.frames).stage
    IN  [w EXCEPT !.blocked = @ + 1,
                  !.frames = IF stage = 0 THEN @ ELSE SelectSeq(@, LAMBDA f : f.stage /= stage)]

(* discard_restore_file_step: one extent, and with the last one the file.  *)
DiscardFile(w, f) ==
    IF w.disk.objs[f.object].data > 1
    THEN [w EXCEPT !.disk.objs[f.object].data = @ - 1, !.worked = @ + 1]
    ELSE [w EXCEPT !.disk = RemoveObject(@, f.object), !.worked = @ + 1,
                   !.frames = Popped(@, TRUE)]

RemoveStageDirectory(w, f) ==
    [w EXCEPT !.disk = RemoveObject(@, f.object), !.worked = @ + 1, !.frames = Popped(@, TRUE)]

(* One entry of a directory.                                               *)
ScanEntry(w, f, e) ==
    LET v == [w EXCEPT !.scanned = @ + 1, !.frames[Len(w.frames)].ordinal = @ + 1]
        marker == Marker(w.disk, e.object)
        kind == Kind(w.disk, e.object)
    IN  CASE f.stage /= 0 /\ marker /= f.stage -> Block(v)
          [] f.stage = 0 /\ marker \notin {0, e.object} -> Block(v)
          [] kind = "file" /\ f.stage = 0 /\ marker = 0 -> v
          [] OTHER ->
               IF Len(w.frames) > MaxDepth THEN Block(v)
               ELSE [v EXCEPT !.frames =
                       Append(@, Frame(f.object, e.object, marker, e.name))]

RECURSIVE Walk(_)
Walk(w) ==
    IF w.frames = <<>> THEN w
    ELSE LET f == Last(w.frames)
             entries == ByName(Children(w.disk, f.object))
         IN  IF Kind(w.disk, f.object) = "file"
             THEN IF w.worked >= WorkSteps THEN w ELSE With(DiscardFile(w, f), Walk)
             ELSE IF w.scanned >= ScanEntries THEN w
             ELSE IF f.ordinal < Len(entries)
             THEN With(ScanEntry(w, f, entries[f.ordinal + 1]), Walk)
             ELSE IF f.stage = 0 THEN With([w EXCEPT !.frames = Popped(@, FALSE)], Walk)
             ELSE IF w.worked >= WorkSteps THEN w ELSE With(RemoveStageDirectory(w, f), Walk)

Started(frames, blocked) ==
    [frames |-> frames, blocked |-> blocked, scanned |-> 0, worked |-> 0, disk |-> disk]

(* A step whose second commit fails has emptied the file and no more.      *)
Emptied(new) ==
    {[disk EXCEPT !.objs[o].data = 0] : o \in {o \in DOMAIN disk.objs :
        ~Exists(new, o) /\ disk.objs[o].kind = "file"}}

ReclaimStep ==
    /\ ~poisoned /\ ~Running /\ ~done
    /\ UNCHANGED <<view, quiet>>
    /\ \/ /\ cursor /= NoCursor /\ ~cursor.fresh
          /\ cursor' = NoCursor
          /\ UNCHANGED <<disk, job, poisoned, done, budget>>
       \/ /\ cursor.fresh \/ cursor = NoCursor
          /\ \E w \in {With(IF cursor = NoCursor THEN Started(<<Frame(0, Root, 0, 0)>>, 0)
                            ELSE Started(cursor.frames, cursor.blocked), Walk)} :
             \/ /\ disk' = w.disk
                /\ done' = (w.frames = <<>>)
                /\ cursor' = IF w.frames = <<>> THEN NoCursor
                             ELSE [frames |-> w.frames, blocked |-> w.blocked, fresh |-> TRUE]
                /\ UNCHANGED <<job, poisoned, budget>>
             \/ /\ budget.faults > 0 /\ w.disk /= disk
                /\ disk' \in {disk, w.disk} \union Emptied(w.disk)
                /\ poisoned' \in BOOLEAN /\ (disk' = w.disk => poisoned')
                /\ cursor' = IF disk' = disk THEN cursor ELSE Stale(cursor)
                /\ budget' = [budget EXCEPT !.faults = @ - 1]
                /\ UNCHANGED <<job, done>>

-----------------------------------------------------------------------------
(* The rest of the volume. *)

(* A caller creates or removes what it can see.                            *)
OrdinaryChange ==
    /\ ~quiet /\ ~Running /\ ~poisoned /\ budget.calls > 0
    /\ \/ \E parent \in {o \in VisibleUnder(disk, Root) : Kind(disk, o) = "dir"},
             name \in Targets :
             /\ Lookup(disk, parent, name) = {} /\ disk.next <= MaxObject
             /\ disk' = Create(disk, parent, name, "file", 0)
       \/ \E o \in VisibleUnder(disk, Root) \ {Root} :
             /\ Children(disk, o) = {}
             /\ disk' = RemoveObject(disk, o)
    /\ budget' = [budget EXCEPT !.calls = @ - 1, !.changes = @ + 1]
    /\ UNCHANGED <<job, poisoned>>
    /\ Elsewhere

(* Maintenance and data writes commit too.                                 *)
OtherCommit ==
    /\ ~quiet /\ ~Running /\ cursor.fresh
    /\ cursor' = Stale(cursor)
    /\ UNCHANGED <<disk, view, job, poisoned, done, quiet, budget>>

(* A new view captures stages that are there.                              *)
SnapshotCreate ==
    /\ ~quiet /\ ~Running /\ ~poisoned /\ view = Captured /\ view /= disk
    /\ view' = disk
    /\ cursor' = Stale(cursor)
    /\ UNCHANGED <<disk, job, poisoned, done, quiet, budget>>

Crash ==
    /\ budget.faults > 0 /\ Running
    /\ job' = NoJob
    /\ budget' = [budget EXCEPT !.faults = @ - 1]
    /\ UNCHANGED <<disk, view, poisoned, cursor, done, quiet>>

Remount ==
    /\ poisoned
    /\ poisoned' = FALSE
    /\ UNCHANGED <<disk, view, job, cursor, done, quiet, budget>>

CallersStop ==
    /\ ~quiet
    /\ quiet' = TRUE
    /\ UNCHANGED <<disk, view, job, poisoned, cursor, done, budget>>

-----------------------------------------------------------------------------

RestoreInit ==
    /\ disk = Captured /\ view = Captured
    /\ job = NoJob /\ poisoned = FALSE
    /\ cursor = NoCursor /\ done = FALSE /\ quiet = FALSE
    /\ budget = [calls |-> MaxCalls, faults |-> MaxFaults, changes |-> 0]

RestoreStep ==
    \/ CreateDirectory \/ CreateFile \/ CopyExtent \/ RestoreFileMetadata \/ PublishFile
    \/ RestoreDirectoryMetadata \/ PublishStage \/ CleanUp

RestoreNext ==
    \/ StartRestore \/ RestoreStep \/ ReclaimStep
    \/ OrdinaryChange \/ OtherCommit \/ SnapshotCreate
    \/ Crash \/ Remount \/ CallersStop

(* A restore call runs to its end, a poisoned volume is mounted again, and *)
(* the caller of the maintenance repeats its call.                         *)
RestoreFair ==
    /\ WF_restore_vars(RestoreStep) /\ WF_restore_vars(Remount)
    /\ WF_restore_vars(ReclaimStep)

RestoreSpec == RestoreInit /\ [][RestoreNext]_restore_vars /\ RestoreFair

-----------------------------------------------------------------------------
(* Properties. *)

(* A stage that is published is, in that commit, exactly what the view     *)
(* shows, metadata of its directories included; and apart from a caller's  *)
(* own changes nothing that could be seen disappears or changes, whatever  *)
(* fails and wherever a cursor is resumed.                                 *)
OnlyWholeTrees ==
    [][/\ \A o \in DOMAIN disk.objs \intersect DOMAIN disk'.objs :
            disk.objs[o].marker = o /\ disk'.objs[o].marker /= o
            => Shape(disk', o, <<>>) = Shape(view, job.plan[1].source, <<>>)
       /\ budget'.changes = budget.changes =>
            \A o \in VisibleUnder(disk, Root) :
               /\ o \in VisibleUnder(disk', Root)
               /\ Kind(disk, o) = "file" => disk'.objs[o] = disk.objs[o]
      ]_restore_vars

RECURSIVE Height(_, _)
Height(d, o) == 
    IF Children(d, o) = {} THEN 0
    ELSE 1 + Max({Height(d, e.object) : e \in Children(d, o)})

RECURSIVE DepthOf(_, _)
DepthOf(d, o) ==
    IF o = Root THEN 0 ELSE 1 + DepthOf(d, (CHOOSE e \in d.entries : e.object = o).parent)

(* Once callers stop, the repeated maintenance removes every stage within  *)
(* its depth, whatever was interrupted before, and leaves none behind when *)
(* it reports done.                                                        *)
StagesDrain ==
    quiet ~> [](\A o \in DOMAIN disk.objs :
                    disk.objs[o].marker = o => DepthOf(disk, o) + Height(disk, o) > MaxDepth)
=============================================================================
