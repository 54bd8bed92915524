---------------------------- MODULE ArosAdapter ----------------------------
(***************************************************************************)
(* The AROS adapter: DOS locks, file handles, record locks, watches and    *)
(* the map of known parents, over the names of one volume.  The volume     *)
(* keeps no parent link, so ParentDir is answered from that map, which is  *)
(* pruned as holds are released.                                           *)
(***************************************************************************)
EXTENDS Integers, FiniteSets, SequencesExt

CONSTANTS
    Names,
    Paths,          \* sequences of components; "" is the parent
    MaxObject,      \* bound: object identifiers 1 .. MaxObject
    MaxLocks, MaxFiles, MaxRecords, MaxWatches,     \* ArosConfig
    Floor,          \* KNOWN_PARENTS_FLOOR
    Offsets,        \* record ranges start and end in it
    Keys,           \* pass keys
    MaxSteps        \* bound: calls

VARIABLES
    names,      \* directory entries <<parent, name, child>>
    kinds,      \* kind of each object ever created
    dos,        \* [locks, files, hold, parents, bound]
    records,    \* [object, owner, first, end, exclusive]
    watches,    \* [parent, key, object, pending]
    owed,       \* watches whose name changed since they were drained
    protect,    \* the pass key, or NoKey
    steps

aros_vars == <<names, kinds, dos, records, watches, owed, protect, steps>>

Root == 0
Nothing == -1       \* no parent, no object, no key
Objects == Root .. MaxObject
Unheld == [shared |-> 0, exclusive |-> FALSE]
Access == {"shared", "exclusive"}

(* Identifiers only grow in the code; here the smallest unused one.        *)
Unused(f) == Min((1 .. Cardinality(DOMAIN f) + 1) \ DOMAIN f)
Without(f, k) == [x \in DOMAIN f \ {k} |-> f[x]]
NothingAt == [x \in {} |-> x]

-----------------------------------------------------------------------------
(* The volume. *)

Lookup(entries, dir, name) ==
    LET found == {e \in entries : e[1] = dir /\ e[2] = name}
    IN  IF found = {} THEN Nothing ELSE (CHOOSE e \in found : TRUE)[3]

Alive(o) == o = Root \/ \E e \in names : e[3] = o
Directory(o) == o = Root \/ (o \in DOMAIN kinds /\ kinds[o] = "directory")

RECURSIVE Below(_, _)
Below(o, dir) == o = dir \/ \E e \in names : e[3] = o /\ Below(e[1], dir)

-----------------------------------------------------------------------------
(* Holds on objects. *)

Acquirable(s, o, access) ==
    /\ ~s.hold[o].exclusive
    /\ access = "exclusive" => s.hold[o].shared = 0

Acquire(s, o, access) ==
    IF access = "shared" THEN [s EXCEPT !.hold[o].shared = @ + 1]
    ELSE [s EXCEPT !.hold[o].exclusive = TRUE]

Release(s, o, access) ==
    IF access = "shared" THEN [s EXCEPT !.hold[o].shared = Max({@ - 1, 0})]
    ELSE [s EXCEPT !.hold[o].exclusive = FALSE]

Held(o) == dos.hold[o] /= Unheld

InsertLock(s, o, parent, name, access) ==
    IF ~Acquirable(s, o, access) THEN s
    ELSE [Acquire(s, o, access) EXCEPT
            !.locks = @ @@ (Unused(@) :> [object |-> o, parent |-> parent, name |-> name,
                                          access |-> access, walk |-> FALSE])]

InsertFile(s, o, parent, name, access, dirty) ==
    [s EXCEPT !.files = @ @@ (Unused(@) :> [object |-> o, parent |-> parent, name |-> name,
                                            access |-> access, dirty |-> dirty])]

-----------------------------------------------------------------------------
(* Known parents. *)

Know(s, o, parent, name) ==
    [s EXCEPT !.parents = (o :> [parent |-> parent, name |-> name]) @@ @]

RECURSIVE Chain(_, _)
Chain(s, o) ==
    IF o = Nothing THEN {}
    ELSE {o} \union IF o \in DOMAIN s.parents THEN Chain(s, s.parents[o].parent) ELSE {}

Holders(s) ==
    {s.locks[l] : l \in DOMAIN s.locks} \union {s.files[f] : f \in DOMAIN s.files}

Prune(s) ==
    IF Holders(s) = {}
    THEN [s EXCEPT !.parents = (Root :> s.parents[Root]), !.bound = Floor]
    ELSE IF Cardinality(DOMAIN s.parents) < s.bound THEN s
    ELSE LET keep == {Root} \union
                     UNION {Chain(s, h.object) \union Chain(s, h.parent) : h \in Holders(s)}
             kept == [o \in DOMAIN s.parents \cap keep |-> s.parents[o]]
         IN  [s EXCEPT !.parents = kept, !.bound = Max({2 * Cardinality(DOMAIN kept), Floor})]

-----------------------------------------------------------------------------
(* Watches. *)

(* Mutant: a watch keeps the object that its name had when it was added.   *)
KeepsObject(ws, entries, dir, name) ==
    [w \in DOMAIN ws |->
        LET named == ws[w].parent = dir /\ ws[w].key = name
        IN  [ws[w] EXCEPT !.pending = @ \/ named \/ ws[w].object = dir]]

Touch(ws, entries, dir, name) ==
    [w \in DOMAIN ws |->
        LET named == ws[w].parent = dir /\ ws[w].key = name
            object == IF named THEN Lookup(entries, dir, name) ELSE ws[w].object
        IN  [ws[w] EXCEPT !.object = object, !.pending = @ \/ named \/ object = dir]]

(* The entry dir/name is what the watch names, or is inside it.            *)
Concerns(w, entries, dir, name) ==
    \/ w.parent = dir /\ w.key = name
    \/ w.key = "" /\ dir = Root
    \/ <<w.parent, w.key, dir>> \in entries

(* The entries at these places changed, in this order.                     *)
Changed(entries, places) ==
    /\ names' = entries
    /\ watches' = FoldLeft(LAMBDA ws, c : Touch(ws, entries, c[1], c[2]), watches, places)
    /\ owed' = owed \union {w \in DOMAIN watches :
                  \E c \in ToSet(places) : Concerns(watches[w], entries, c[1], c[2])}

(* A holder's name is reported.  One renamed while held is reported under  *)
(* the name it had.                                                        *)
Reported(h) ==
    /\ watches' = Touch(watches, names, h.parent, h.name)
    /\ owed' = owed \union {w \in DOMAIN watches :
                  /\ Lookup(names, h.parent, h.name) = h.object
                  /\ Concerns(watches[w], names, h.parent, h.name)}

Silent == UNCHANGED <<names, watches, owed>>

-----------------------------------------------------------------------------
(* Locks. *)

Call == steps < MaxSteps /\ steps' = steps + 1
Writable == protect = Nothing
LockRoom == Cardinality(DOMAIN dos.locks) < MaxLocks
FileRoom == Cardinality(DOMAIN dos.files) < MaxFiles
BaseObjects == {Root} \union {dos.locks[l].object : l \in DOMAIN dos.locks}

Locate ==
    \E dir \in BaseObjects, name \in Names, access \in Access :
        LET o == Lookup(names, dir, name) IN
        /\ Call /\ LockRoom
        /\ o /= Nothing /\ kinds[o] /= "link"
        /\ dos' = InsertLock(Know(dos, o, dir, name), o, dir, name, access)
        /\ Silent /\ UNCHANGED <<kinds, records, protect>>

(* An empty name: the base lock once more, or the root.                    *)
LocateBase ==
    \E access \in Access :
        /\ Call /\ LockRoom
        /\ \/ dos' = InsertLock(dos, Root, Nothing, dos.parents[Root].name, access)
           \/ \E l \in DOMAIN dos.locks :
                 LET k == dos.locks[l]
                 IN  dos' = InsertLock(dos, k.object, k.parent, k.name, access)
        /\ Silent /\ UNCHANGED <<kinds, records, protect>>

DuplicateLock ==
    \E l \in DOMAIN dos.locks :
        LET k == dos.locks[l] IN
        /\ Call /\ LockRoom
        /\ dos' = InsertLock(dos, k.object, k.parent, k.name, k.access)
        /\ Silent /\ UNCHANGED <<kinds, records, protect>>

(* One component of a path.  What the walk saw stays known when it fails.  *)
RootStep(s) == [s |-> s, object |-> Root, parent |-> Nothing,
                name |-> s.parents[Root].name, found |-> TRUE]

PathStep(r, component) ==
    LET up == r.parent
        o == Lookup(names, r.object, component)
    IN  CASE ~r.found -> r
          [] r.found /\ component = "" /\ up = Nothing -> RootStep(r.s)
          [] r.found /\ component = "" /\ up \in DOMAIN r.s.parents ->
               [r EXCEPT !.object = up, !.parent = r.s.parents[up].parent,
                         !.name = r.s.parents[up].name]
          [] r.found /\ component /= "" /\ o /= Nothing /\ kinds[o] /= "link" ->
               [s |-> Know(r.s, o, r.object, component), object |-> o, parent |-> r.object,
                name |-> component, found |-> TRUE]
          [] OTHER -> [r EXCEPT !.found = FALSE]

LocatePath ==
    \E path \in Paths, access \in Access, l \in DOMAIN dos.locks \union {Nothing} :
        LET start == IF l = Nothing THEN RootStep(dos)
                     ELSE [s |-> dos, object |-> dos.locks[l].object, found |-> TRUE,
                           parent |-> dos.locks[l].parent, name |-> dos.locks[l].name]
        IN
        /\ Call /\ LockRoom
        /\ \E r \in {FoldLeft(PathStep, start, path)} :
              dos' = IF r.found THEN InsertLock(r.s, r.object, r.parent, r.name, access) ELSE r.s
        /\ Silent /\ UNCHANGED <<kinds, records, protect>>

ParentOf(parent, access) ==
    /\ Call /\ LockRoom
    /\ parent \in DOMAIN dos.parents
    /\ dos' = InsertLock(dos, parent, dos.parents[parent].parent, dos.parents[parent].name, access)
    /\ Silent /\ UNCHANGED <<kinds, records, protect>>

ParentLock == \E l \in DOMAIN dos.locks, access \in Access : ParentOf(dos.locks[l].parent, access)
ParentOfFile == \E f \in DOMAIN dos.files : ParentOf(dos.files[f].parent, "shared")

LockFromFile ==
    \E f \in DOMAIN dos.files :
        LET h == dos.files[f] IN
        /\ Call /\ LockRoom
        /\ dos' = InsertLock(dos, h.object, h.parent, h.name, "shared")
        /\ Silent /\ UNCHANGED <<kinds, records, protect>>

FreeLock ==
    \E l \in DOMAIN dos.locks :
        LET k == dos.locks[l] IN
        /\ Call
        /\ dos' = Prune(Release([dos EXCEPT !.locks = Without(@, l)], k.object, k.access))
        /\ Silent /\ UNCHANGED <<kinds, records, protect>>

(* Mutant: any number of shared holders may become one exclusive holder.   *)
ChangesShared(s, o, wanted) ==
    IF wanted = "exclusive"
    THEN [s EXCEPT !.hold[o] = [shared |-> 0, exclusive |-> TRUE]]
    ELSE [s EXCEPT !.hold[o] = [shared |-> @.shared + 1, exclusive |-> FALSE]]

(* change_hold, from the other access; Nothing changes if it is refused.   *)
ChangeHold(s, o, wanted) ==
    IF wanted = "exclusive"
    THEN IF s.hold[o] /= [shared |-> 1, exclusive |-> FALSE] THEN s
         ELSE [s EXCEPT !.hold[o] = [shared |-> 0, exclusive |-> TRUE]]
    ELSE [s EXCEPT !.hold[o] = [shared |-> @.shared + 1, exclusive |-> FALSE]]

ChangeLockMode ==
    \E l \in DOMAIN dos.locks, wanted \in Access :
        /\ Call /\ dos.locks[l].access /= wanted
        /\ \E s \in {ChangeHold(dos, dos.locks[l].object, wanted)} :
              /\ s /= dos
              /\ dos' = [s EXCEPT !.locks[l].access = wanted]
        /\ Silent /\ UNCHANGED <<kinds, records, protect>>

ChangeFileMode ==
    \E f \in DOMAIN dos.files, wanted \in Access :
        /\ Call /\ dos.files[f].access /= wanted
        /\ \E s \in {ChangeHold(dos, dos.files[f].object, wanted)} :
              /\ s /= dos
              /\ dos' = [s EXCEPT !.files[f].access = wanted]
        /\ Silent /\ UNCHANGED <<kinds, records, protect>>

-----------------------------------------------------------------------------
(* File handles. *)

(* An existing file.  NewFile truncates it and holds it exclusively.       *)
OpenExisting(dir, name, mode) ==
    LET o == Lookup(names, dir, name)
        access == IF mode = "new" THEN "exclusive" ELSE "shared"
    IN  /\ o /= Nothing /\ kinds[o] = "file"
        /\ Acquirable(dos, o, access)
        /\ dos' = InsertFile(Acquire(dos, o, access), o, dir, name, access, mode = "new")
        /\ Silent /\ UNCHANGED kinds

OpenCreate(dir, name, mode) ==
    LET o == Cardinality(DOMAIN kinds) + 1
        access == IF mode = "new" THEN "exclusive" ELSE "shared"
    IN  /\ mode /= "old"
        /\ Lookup(names, dir, name) = Nothing
        /\ Directory(dir) /\ Alive(dir) /\ o <= MaxObject
        /\ kinds' = kinds @@ (o :> "file")
        /\ dos' = InsertFile(Acquire(dos, o, access), o, dir, name, access, mode = "new")
        /\ Changed(names \union {<<dir, name, o>>}, <<<<dir, name>>>>)

Open ==
    \E dir \in BaseObjects, name \in Names, mode \in {"old", "new", "readwrite"} :
        /\ Call /\ FileRoom
        /\ mode /= "old" => Writable
        /\ OpenExisting(dir, name, mode) \/ OpenCreate(dir, name, mode)
        /\ UNCHANGED <<records, protect>>

(* The lock's hold becomes the handle's.                                   *)
OpenFromLock ==
    \E l \in DOMAIN dos.locks :
        LET k == dos.locks[l] IN
        /\ Call /\ FileRoom
        /\ Alive(k.object) /\ k.object /= Root /\ kinds[k.object] = "file"
        /\ dos' = InsertFile([dos EXCEPT !.locks = Without(@, l)],
                             k.object, k.parent, k.name, k.access, FALSE)
        /\ Silent /\ UNCHANGED <<kinds, records, protect>>

(* write, write_at, set_file_size, clone_range.                            *)
Write ==
    \E f \in DOMAIN dos.files :
        /\ Call /\ Writable /\ ~dos.files[f].dirty
        /\ dos' = [dos EXCEPT !.files[f].dirty = TRUE]
        /\ Silent /\ UNCHANGED <<kinds, records, protect>>

Close ==
    \E f \in DOMAIN dos.files :
        LET h == dos.files[f] IN
        /\ Call
        /\ records' = {r \in records : r.owner /= f}
        /\ dos' = Prune(Release([dos EXCEPT !.files = Without(@, f)], h.object, h.access))
        /\ IF h.dirty THEN Reported(h) ELSE UNCHANGED <<watches, owed>>
        /\ UNCHANGED <<names, kinds, protect>>

LockRecord ==
    \E f \in DOMAIN dos.files, first, end \in Offsets, exclusive \in BOOLEAN :
        LET o == dos.files[f].object
            new == [object |-> o, owner |-> f, first |-> first, end |-> end, exclusive |-> exclusive]
        IN
        /\ Call /\ first < end /\ new \notin records
        /\ ~\E r \in records :
              /\ r.object = o /\ r.owner /= f
              /\ r.exclusive \/ exclusive
              /\ r.first < end /\ first < r.end
        /\ Cardinality(records) < MaxRecords
        /\ records' = records \union {new}
        /\ Silent /\ UNCHANGED <<kinds, dos, protect>>

FreeRecord ==
    \E r \in records :
        /\ Call /\ records' = records \ {r}
        /\ Silent /\ UNCHANGED <<kinds, dos, protect>>

-----------------------------------------------------------------------------
(* The namespace. *)

Create(dir, name, kind) ==
    LET o == Cardinality(DOMAIN kinds) + 1 IN
    /\ Call /\ Writable
    /\ Directory(dir) /\ Alive(dir) /\ o <= MaxObject
    /\ Lookup(names, dir, name) = Nothing
    /\ kinds' = kinds @@ (o :> kind)
    /\ Changed(names \union {<<dir, name, o>>}, <<<<dir, name>>>>)

CreateDirectory ==
    \E dir \in BaseObjects, name \in Names :
        /\ LockRoom
        /\ Create(dir, name, "directory")
        /\ \E o \in {Cardinality(DOMAIN kinds) + 1} :
              dos' = InsertLock(Know(dos, o, dir, name), o, dir, name, "shared")
        /\ UNCHANGED <<records, protect>>

(* make_soft_link, and clone_file, whose result is a file of its own.      *)
MakeUnlocked ==
    \E dir \in BaseObjects, name \in Names, kind \in {"link", "file"} :
        /\ kind = "file" => \E l \in DOMAIN dos.locks :
              LET o == dos.locks[l].object IN Alive(o) /\ o /= Root /\ kinds[o] = "file"
        /\ Create(dir, name, kind)
        /\ UNCHANGED <<dos, records, protect>>

MakeHardLink ==
    \E dir \in BaseObjects, name \in Names, l \in DOMAIN dos.locks :
        LET o == dos.locks[l].object IN
        /\ Call /\ Writable
        /\ Alive(o) /\ o /= Root /\ kinds[o] = "file"
        /\ Directory(dir) /\ Alive(dir) /\ Lookup(names, dir, name) = Nothing
        /\ Changed(names \union {<<dir, name, o>>}, <<<<dir, name>>>>)
        /\ UNCHANGED <<kinds, dos, records, protect>>

DeleteObject ==
    \E dir \in BaseObjects, name \in Names :
        LET o == Lookup(names, dir, name) IN
        /\ Call /\ Writable
        /\ o /= Nothing /\ ~Held(o)
        /\ ~\E e \in names : e[1] = o
        /\ Changed(names \ {<<dir, name, o>>}, <<<<dir, name>>>>)
        /\ UNCHANGED <<kinds, dos, records, protect>>

Moved(o, dir, name, to, new) == (names \ {<<dir, name, o>>}) \union {<<to, new, o>>}

Rename ==
    \E dir, to \in BaseObjects, name, new \in Names :
        LET o == Lookup(names, dir, name) IN
        /\ Call /\ Writable
        /\ o /= Nothing /\ Directory(to) /\ Alive(to) /\ ~Below(to, o)
        /\ Lookup(names, to, new) = Nothing
        /\ Changed(Moved(o, dir, name, to, new), <<<<dir, name>>, <<to, new>>>>)
        /\ dos' = Know(dos, o, to, new)
        /\ UNCHANGED <<kinds, records, protect>>

(* A rename over a file.  Two names of one file both stay.                 *)
Replace ==
    \E dir, to \in BaseObjects, name, new \in Names :
        LET o == Lookup(names, dir, name)
            t == Lookup(names, to, new)
        IN
        /\ Call /\ Writable
        /\ o /= Nothing /\ t /= Nothing /\ ~Held(t)
        /\ kinds[o] = "file" /\ kinds[t] = "file"
        /\ Changed(IF o = t THEN names ELSE Moved(o, dir, name, to, new) \ {<<to, new, t>>},
                   <<<<dir, name>>, <<to, new>>>>)
        /\ dos' = Know(dos, o, to, new)
        /\ UNCHANGED <<kinds, records, protect>>

(* set_protection, set_owner, set_comment, set_attribute, set_modified on  *)
(* a name, and on a lock's own object.                                     *)
SetMetadata ==
    /\ Call /\ Writable
    /\ \/ \E dir \in BaseObjects, name \in Names :
             Lookup(names, dir, name) /= Nothing /\ Changed(names, <<<<dir, name>>>>)
       \/ \E l \in DOMAIN dos.locks :
             /\ Alive(dos.locks[l].object) /\ dos.locks[l].parent /= Nothing
             /\ Reported(dos.locks[l]) /\ UNCHANGED names
    /\ UNCHANGED <<kinds, dos, records, protect>>

(* The lock keeps an open walk.  The entry is the next of the directory.   *)
ExamineNext ==
    \E l \in DOMAIN dos.locks : \E e \in names :
        /\ Call /\ e[1] = dos.locks[l].object
        /\ dos' = [Know(dos, e[3], e[1], e[2]) EXCEPT !.locks[l].walk = TRUE]
        /\ Silent /\ UNCHANGED <<kinds, records, protect>>

RewindDirectory ==
    \E l \in DOMAIN dos.locks :
        /\ Call /\ dos.locks[l].walk
        /\ dos' = [dos EXCEPT !.locks[l].walk = FALSE]
        /\ Silent /\ UNCHANGED <<kinds, records, protect>>

-----------------------------------------------------------------------------
(* Watches and write protection. *)

AddWatch ==
    \E dir \in BaseObjects, name \in Names \union {""} :
        LET at == IF name /= "" THEN [parent |-> dir, name |-> name] ELSE dos.parents[dir]
            watch == IF at.parent = Nothing
                     THEN [parent |-> Root, key |-> "", object |-> Root, pending |-> FALSE]
                     ELSE [parent |-> at.parent, key |-> at.name, pending |-> FALSE,
                           object |-> IF name = "" THEN dir ELSE Lookup(names, dir, name)]
        IN
        /\ Call /\ Cardinality(DOMAIN watches) < MaxWatches
        /\ name = "" => dir \in DOMAIN dos.parents
        /\ name /= "" => Directory(dir) /\ Alive(dir)
        /\ watches' = watches @@ (Unused(watches) :> watch)
        /\ UNCHANGED <<names, kinds, dos, records, owed, protect>>

RemoveWatch ==
    \E w \in DOMAIN watches :
        /\ Call
        /\ watches' = Without(watches, w) /\ owed' = owed \ {w}
        /\ UNCHANGED <<names, kinds, dos, records, protect>>

(* As many as the buffer takes, lowest first.                              *)
DrainWatches ==
    \E n \in 1 .. MaxWatches :
        LET pending == {w \in DOMAIN watches : watches[w].pending}
            taken == {w \in pending : Cardinality({v \in pending : v <= w}) <= n}
        IN
        /\ Call /\ pending /= {}
        /\ watches' = [w \in DOMAIN watches |->
                         [watches[w] EXCEPT !.pending = @ /\ w \notin taken]]
        /\ owed' = owed \ taken
        /\ UNCHANGED <<names, kinds, dos, records, protect>>

SetWriteProtect ==
    \E key \in Keys :
        /\ Call
        /\ \/ protect = Nothing /\ protect' = key
           \/ protect \in {0, key} /\ protect' = Nothing
        /\ Silent /\ UNCHANGED <<kinds, dos, records>>

-----------------------------------------------------------------------------

(* A mounted volume with the directory 1 and the file 2 in it.             *)
ArosInit ==
    /\ \E d, f \in {CHOOSE n \in Names : TRUE} : names = {<<Root, d, 1>>, <<1, f, 2>>}
    /\ kinds = (1 :> "directory") @@ (2 :> "file")
    /\ dos = [locks |-> NothingAt, files |-> NothingAt, hold |-> [o \in Objects |-> Unheld],
              parents |-> (Root :> [parent |-> Nothing, name |-> ""]), bound |-> Floor]
    /\ records = {} /\ watches = NothingAt /\ owed = {} /\ protect = Nothing /\ steps = 0

ArosNext ==
    \/ Locate \/ LocateBase \/ DuplicateLock \/ LocatePath \/ ParentLock \/ ParentOfFile
    \/ LockFromFile \/ FreeLock \/ ChangeLockMode \/ ChangeFileMode
    \/ Open \/ OpenFromLock \/ Write \/ Close \/ LockRecord \/ FreeRecord
    \/ CreateDirectory \/ MakeUnlocked \/ MakeHardLink \/ DeleteObject \/ Rename \/ Replace
    \/ SetMetadata \/ ExamineNext \/ RewindDirectory
    \/ AddWatch \/ RemoveWatch \/ DrainWatches \/ SetWriteProtect

ArosSpec == ArosInit /\ [][ArosNext]_aros_vars

-----------------------------------------------------------------------------
(* Properties. *)

HeldBy(o, access) ==
    Cardinality({l \in DOMAIN dos.locks : dos.locks[l].object = o /\ dos.locks[l].access = access})
    + Cardinality({f \in DOMAIN dos.files : dos.files[f].object = o /\ dos.files[f].access = access})

(* The hold on an object is that of its locks and file handles, together   *)
(* and through every conversion; an exclusive holder is alone; an open     *)
(* file keeps a name; and record locks of two handles never collide.       *)
HoldsSound ==
    /\ \A o \in Objects :
         /\ dos.hold[o].shared = HeldBy(o, "shared")
         /\ HeldBy(o, "exclusive") = IF dos.hold[o].exclusive THEN 1 ELSE 0
         /\ dos.hold[o].exclusive => dos.hold[o].shared = 0
    /\ \A f \in DOMAIN dos.files : Alive(dos.files[f].object)
    /\ \A r, s \in records :
         /\ r.owner \in DOMAIN dos.files /\ dos.files[r.owner].object = r.object
         /\ r.owner /= s.owner /\ r.object = s.object /\ (r.exclusive \/ s.exclusive)
              => r.end <= s.first \/ s.end <= r.first

(* A change to the entry that a watch names, or to an entry inside the     *)
(* directory that it names by then, stays pending until it is drained.     *)
WatchesFire == \A w \in owed : watches[w].pending
=============================================================================
