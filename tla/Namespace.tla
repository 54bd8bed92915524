----------------------------- MODULE Namespace -----------------------------
(***************************************************************************)
(* Names, hard links, directories, open files and orphans: the namespace   *)
(* operations of volume.rs and the handles of afsplus-vfs that keep an     *)
(* unlinked file alive (ADR-066).                                          *)
(*                                                                         *)
(* A volume is [objects, next, names, parked]: what each object is, the    *)
(* identifier of the next, the directory entries <<parent, name, child>>,  *)
(* and the files in the orphan directory.  disk is the checkpoint, view    *)
(* the same with the open window.                                          *)
(***************************************************************************)
EXTENDS Integers, FiniteSets

CONSTANTS
    Names,
    MaxObjects,         \* bound: object identifiers
    MaxExtents,         \* bound: extents of one file
    MaxHandles,         \* bound: open handles
    Budget,             \* orphan_cleanup_extent_budget
    OrphansPerBatch,    \* ORPHANS_PER_BATCH
    OrphansPerRelease,  \* ORPHAN_STEPS_PER_RELEASE
    MaxCrashes          \* bound

VARIABLES
    disk, view,
    handles,            \* open handles of each file
    delayed,            \* the mount gathers namespace changes in the window
    inline,             \* operations run the maintenance they leave behind
    crashes

vars == <<disk, view, handles, delayed, inline, crashes>>

Root == 0
Ids == 1 .. MaxObjects

None == [kind |-> "none", links |-> 0, extents |-> 0]
NewFile == [kind |-> "file", links |-> 1, extents |-> 0]
NewDirectory == [kind |-> "directory", links |-> 1, extents |-> 0]

-----------------------------------------------------------------------------
(* Reading a volume. *)

Is(v, o, kind) == o \in Ids /\ v.objects[o].kind = kind
Directories(v) == {Root} \union {o \in Ids : Is(v, o, "directory")}
At(v, p, n) == {e[3] : e \in {e \in v.names : e[1] = p /\ e[2] = n}}

(* directory_reaches: target is in the tree below an ancestor, that is in  *)
(* every set of directories that has the ancestor and their subdirectories.*)
Closed(v, S) ==
    \A e \in v.names : e[1] \in S /\ Is(v, e[3], "directory") => e[3] \in S
Reaches(v, ancestor, target) ==
    \A S \in SUBSET Directories(v) : ancestor \in S /\ Closed(v, S) => target \in S

-----------------------------------------------------------------------------
(* Changing one.  Each is the operation on the window, or on the           *)
(* checkpoint when it commits by itself.                                   *)

Create(v, p, n, object) ==
    [v EXCEPT !.objects[v.next] = object, !.next = @ + 1,
              !.names = @ \union {<<p, n, v.next>>}]

(* One link less: a file created in this window is dropped, one with other *)
(* names keeps them, and the last link is moved to the orphan directory.   *)
DropLink(v, o, created) ==
    IF o \in created THEN [v EXCEPT !.objects[o] = None]
    ELSE IF v.objects[o].links > 1 THEN [v EXCEPT !.objects[o].links = @ - 1]
    ELSE [v EXCEPT !.parked = @ \union {o}]

Unlink(v, p, n, o, created) == DropLink([v EXCEPT !.names = @ \ {<<p, n, o>>}], o, created)

RemoveEmpty(v, p, n, o) == [v EXCEPT !.objects[o] = None, !.names = @ \ {<<p, n, o>>}]

(* Two names of one object stay as they are.                               *)
Move(v, p, n, o, tp, tn, created) ==
    LET moved(w) == [w EXCEPT !.names = (@ \ {<<p, n, o>>}) \union {<<tp, tn, o>>}]
        target == At(v, tp, tn)
    IN  IF target = {} THEN moved(v)
        ELSE IF target = {o} THEN v
        ELSE LET t == CHOOSE t \in target : TRUE IN moved(Unlink(v, tp, tn, t, created))

AddLink(v, o, p, n) ==
    [v EXCEPT !.objects[o].links = @ + 1, !.names = @ \union {<<p, n, o>>}]

(* The extents of the orphans of a page that come before one.              *)
Before(v, page, o) ==
    Cardinality({x \in page \X (1 .. MaxExtents) :
                    x[1] < o /\ x[2] <= v.objects[x[1]].extents})

(* Cleanup goes through a page of orphans and takes extents from the tail  *)
(* of each until the budget is spent; a file without any leaves the volume.*)
Release(v, page, budget) ==
    LET left(o) == budget - Before(v, page, o)
        gone == {o \in page : left(o) > 0 /\ v.objects[o].extents <= left(o)}
    IN  [v EXCEPT !.parked = @ \ gone,
                  !.objects = [o \in Ids |->
                      IF o \in gone THEN None
                      ELSE IF o \in page /\ left(o) > 0
                      THEN [v.objects[o] EXCEPT !.extents = @ - left(o)]
                      ELSE v.objects[o]]]

(* Mutant: the batch takes a file that a handle still holds.               *)
TakesOpenOrphans(v, held, max) == Release(v, v.parked, Budget * max)

(* Mutant: the batch ends at the first file that a handle holds.           *)
StopsAtOpen(v, held, max) ==
    Release(v, {o \in v.parked : \A h \in v.parked \cap held : o < h}, Budget * max)

(* One batch: the first page of orphans, without those held by a handle.   *)
CleanupOrphans(v, held, max) ==
    LET page == {o \in v.parked : Cardinality({p \in v.parked : p < o}) < max}
    IN  Release(v, page \ held, Budget * max)

CleanupOrphan(v, o) == IF o \in v.parked THEN Release(v, {o}, Budget) ELSE v

-----------------------------------------------------------------------------
(* The mount. *)

Held == {o \in Ids : handles[o] > 0}
CreatedInWindow == {o \in Ids : disk.objects[o] = None}

(* An operation staged in the window, and one that commits the window      *)
(* first and is a commit of its own.                                       *)
Stage(v) == view' = v /\ disk' = disk
Publish(v) == view' = v /\ disk' = v

Quietly == UNCHANGED <<handles, delayed, inline, crashes>>

(* reclaim_after_release.                                                  *)
Released(v) == IF inline THEN CleanupOrphans(v, Held, OrphansPerRelease) ELSE v

CreateObject ==
    \E p \in Directories(view), n \in Names, object \in {NewFile, NewDirectory} :
        /\ At(view, p, n) = {} /\ view.next \in Ids
        /\ LET v == Create(view, p, n, object)
           IN  IF delayed THEN Stage(v) ELSE Publish(v)
        /\ Quietly

(* unlink_file: a file that is open is never unlinked in the window.       *)
UnlinkFile ==
    \E e \in view.names :
        LET p == e[1] n == e[2] o == e[3] IN
        /\ Is(view, o, "file")
        /\ IF delayed /\ o \notin Held THEN Stage(Unlink(view, p, n, o, CreatedInWindow))
           ELSE Publish(Released(Unlink(view, p, n, o, {})))
        /\ Quietly

(* Mutant: only the committed entries of a directory are looked at.        *)
RemovesStaged ==
    \E e \in view.names :
        LET p == e[1] n == e[2] o == e[3] IN
        /\ Is(view, o, "directory") /\ \A f \in disk.names : f[1] /= o
        /\ IF delayed THEN Stage(RemoveEmpty(view, p, n, o))
           ELSE Publish(Released(RemoveEmpty(view, p, n, o)))
        /\ Quietly

(* Empty as the window leaves it.                                          *)
RemoveDirectory ==
    \E e \in view.names :
        LET p == e[1] n == e[2] o == e[3] IN
        /\ Is(view, o, "directory") /\ \A f \in view.names : f[1] /= o
        /\ IF delayed THEN Stage(RemoveEmpty(view, p, n, o))
           ELSE Publish(Released(RemoveEmpty(view, p, n, o)))
        /\ Quietly

(* A file goes into the window unless it replaces an open one.  Otherwise  *)
(* the rename commits: over another file, or of anything onto a free name  *)
(* that is not below the directory moved.                                  *)
Rename ==
    \E e \in view.names, tp \in Directories(view), tn \in Names, replace \in BOOLEAN :
        LET p == e[1] n == e[2] o == e[3] target == At(view, tp, tn) \ {o}
            file == Is(view, o, "file") IN
        /\ <<tp, tn>> /= <<p, n>>
        /\ At(view, tp, tn) /= {} =>
              replace /\ file /\ \A t \in target : Is(view, t, "file")
        /\ IF delayed /\ file /\ target \cap Held = {}
           THEN Stage(Move(view, p, n, o, tp, tn, CreatedInWindow))
           ELSE ~(~file /\ Reaches(view, o, tp)) /\ Publish(Move(view, p, n, o, tp, tn, {}))
        /\ Quietly

(* link_file.  The window is committed before the orphan directory is      *)
(* asked.                                                                  *)
LinkFile ==
    \E o \in Ids, p \in Directories(view), n \in Names :
        /\ Is(view, o, "file") /\ o \notin view.parked /\ At(view, p, n) = {}
        /\ Publish(AddLink(view, o, p, n))
        /\ Quietly

(* open_file looks for the file in the committed orphan directory.         *)
OpenFile ==
    \E o \in Ids \ disk.parked :
        /\ Is(view, o, "file")
        /\ Cardinality(Held) < MaxHandles
        /\ handles' = [handles EXCEPT ![o] = @ + 1]
        /\ UNCHANGED <<disk, view, delayed, inline, crashes>>

WriteFile ==
    \E o \in Held :
        /\ view.objects[o].extents < MaxExtents
        /\ Stage([view EXCEPT !.objects[o].extents = @ + 1])
        /\ Quietly

(* The last close of an orphan starts its cleanup.                         *)
CloseFile ==
    \E o \in Held :
        /\ handles' = [handles EXCEPT ![o] = @ - 1]
        /\ IF handles[o] > 1 \/ (delayed /\ o \notin disk.parked) THEN UNCHANGED <<disk, view>>
           ELSE Publish(IF inline THEN CleanupOrphan(view, o) ELSE view)
        /\ UNCHANGED <<delayed, inline, crashes>>

(* commit_if_due, fsync that falls back to a commit, or sync_filesystem.   *)
CommitWindow == view /= disk /\ Publish(view) /\ Quietly

(* maintenance_step looks for orphans in the checkpoint, then commits.     *)
Maintain ==
    /\ disk.parked /= {}
    /\ Publish(CleanupOrphans(view, Held, OrphansPerBatch))
    /\ Quietly

SetDurability ==
    /\ delayed' = ~delayed
    /\ IF delayed THEN Publish(view) ELSE UNCHANGED <<disk, view>>
    /\ UNCHANGED <<handles, inline, crashes>>

SetInlineMaintenance == inline' = ~inline /\ UNCHANGED <<disk, view, handles, delayed, crashes>>

(* Handles do not outlive the mount, orphans do.                           *)
Crash ==
    /\ crashes < MaxCrashes /\ crashes' = crashes + 1
    /\ view' = disk /\ disk' = disk /\ handles' = [o \in Ids |-> 0]
    /\ UNCHANGED <<delayed, inline>>

Init ==
    /\ disk = [objects |-> [o \in Ids |-> None], next |-> 1, names |-> {}, parked |-> {}]
    /\ view = disk
    /\ handles = [o \in Ids |-> 0] /\ delayed = TRUE /\ inline = FALSE /\ crashes = 0

Next ==
    \/ CreateObject \/ UnlinkFile \/ RemoveDirectory \/ Rename \/ LinkFile
    \/ OpenFile \/ WriteFile \/ CloseFile
    \/ CommitWindow \/ Maintain \/ SetDurability \/ SetInlineMaintenance \/ Crash

(* A host runs maintenance from a timer or a thread of its own.            *)
Spec == Init /\ [][Next]_vars /\ WF_vars(Maintain)

-----------------------------------------------------------------------------
(* Properties. *)

NamesOf(v, o) == {e \in v.names : e[3] = o}

Sound(v) ==
    /\ \A e \in v.names : e[1] \in Directories(v) /\ v.objects[e[3]] /= None
    /\ \A e, f \in v.names : e[1] = f[1] /\ e[2] = f[2] => e = f
    /\ \A o \in Ids :
        LET links == Cardinality(NamesOf(v, o)) IN
        /\ v.objects[o].links = links + (IF o \in v.parked THEN 1 ELSE 0)
        /\ o \in v.parked => links = 0 /\ Is(v, o, "file")
        /\ Is(v, o, "directory") => links = 1 /\ Reaches(v, Root, o)

(* Whatever mix of windows, commits and crashes: names lead to objects, a  *)
(* file's link count is the number of its names or it is an orphan, and    *)
(* directories form a tree (apply_batch_op, remove_entry, rename_internal).*)
NamespaceSound == Sound(disk) /\ Sound(view)

KeepsOpenFiles ==
    \A o \in Ids : handles[o] > 0 /\ handles'[o] > 0 =>
        Is(view, o, "file")' /\ view.objects[o].extents <= view.objects[o].extents'

(* While a handle is open no step takes extents from its file or removes   *)
(* it, though all its names are gone and cleanup runs (cleanup_orphans,    *)
(* rename_replace_orphan_target).                                          *)
OpenFileIntact == [][KeepsOpenFiles]_vars

(* An orphan that no handle holds leaves the volume (maintenance_step).    *)
OrphansDrain == \A o \in Ids : (o \in disk.parked /\ handles[o] = 0) ~> o \notin disk.parked
=============================================================================
