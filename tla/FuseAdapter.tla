---------------------------- MODULE FuseAdapter -----------------------------
(***************************************************************************)
(* The FUSE adapter's own state (FuseAdapter in afsplus-fuse): the parents *)
(* it remembers to answer "..", while directories come, go and move.       *)
(* Requests come one at a time, for inodes that the kernel holds.          *)
(***************************************************************************)
EXTENDS Integers, Functions, TLC

CONSTANTS
    Root, Directories       \* objects; ids are not used twice

VARIABLES
    up,             \* the namespace: the parent of each directory
    parents,        \* the adapter's map
    kernel          \* inodes the kernel holds

adapter_vars == <<up, parents, kernel>>

Absent == 0
All == Directories \union {Root}
Lives(d) == d \in {Root} \union {c \in Directories : up[c] \in All}
Children(d) == {c \in Directories : up[c] = d}

Above(d) == {c \in All : \E n \in 1 .. 3 :
               LET path[i \in 0 .. 3] == IF i = 0 THEN d
                                         ELSE IF path[i - 1] \in Directories THEN up[path[i - 1]]
                                         ELSE path[i - 1]
               IN  path[n] = c}

OrInsert(map, o, p) == IF o \in DOMAIN map THEN map ELSE map @@ (o :> p)
Insert(map, o, p) == (o :> p) @@ map
Forget(map, o) == Restrict(map, DOMAIN map \ {o})

parent_of(d) == IF d \in DOMAIN parents THEN parents[d] ELSE Root

-----------------------------------------------------------------------------

(* A name, "." or ".." of an inode the kernel holds, removed ones too.     *)
Lookup ==
    \E d \in kernel :
    \E o \in (IF Lives(d) THEN Children(d) ELSE {}) \union {d, parent_of(d)} :
        /\ parents' = OrInsert(parents, o, d)
        /\ kernel' = IF Lives(o) THEN kernel \union {o} ELSE kernel
        /\ UNCHANGED up

(* A page of entries; the kernel learns of them by a lookup.               *)
ReadDirectory ==
    \E d \in kernel : \E page \in SUBSET Children(d) :
        /\ Lives(d)
        /\ parents' = [o \in DOMAIN parents \union page |->
                          IF o \in DOMAIN parents THEN parents[o] ELSE d]
        /\ UNCHANGED <<up, kernel>>

(* The directory stays if its mode or owner cannot be written.             *)
CreateDirectory ==
    \E d \in kernel, o \in Directories :
        /\ Lives(d) /\ up[o] = Absent
        /\ up' = [up EXCEPT ![o] = d]
        /\ parents' = Insert(parents, o, d)
        /\ kernel' \in {kernel, kernel \union {o}}

RemoveDirectory ==
    \E o \in Directories :
        /\ Lives(o) /\ up[o] \in kernel /\ Children(o) = {}
        /\ up' = [up EXCEPT ![o] = -1]
        /\ parents' = Forget(parents, o)
        /\ UNCHANGED kernel

(* Mutant: the directory is remembered where it was.                       *)
KeepsParent(o, d) == parents

Moved(o, d) == Insert(parents, o, d)

(* A directory moves, over an empty one if the host allows it.             *)
Rename ==
    \E o \in Directories, d \in kernel :
    \E replaced \in {Absent} \union {c \in Children(d) : c /= o /\ Children(c) = {}} :
        /\ Lives(o) /\ up[o] \in kernel /\ Lives(d)
        /\ d /= o /\ o \notin Above(d)
        /\ up' = [c \in Directories |->
                    IF c = o THEN d ELSE IF c = replaced THEN -1 ELSE up[c]]
        /\ parents' = Moved(o, d)
        /\ UNCHANGED kernel

(* The session begins on a volume with any tree.                           *)
AdapterInit ==
    /\ up \in [Directories -> All \union {Absent}]
    /\ \A d \in Directories : up[d] /= Absent => Lives(d) /\ Root \in Above(d) /\ d \notin Above(d)
    /\ parents = (Root :> Root) /\ kernel = {Root}

AdapterNext ==
    \/ Lookup \/ ReadDirectory \/ CreateDirectory \/ RemoveDirectory \/ Rename

AdapterSpec == AdapterInit /\ [][AdapterNext]_adapter_vars

-----------------------------------------------------------------------------
(* Properties. *)

(* ".." of a directory that the kernel holds is the directory it is in,    *)
(* however it came to be known and wherever it was moved (parent_of).      *)
DotDotExact ==
    \A d \in kernel \ {Root} : Lives(d) => parent_of(d) = up[d]
=============================================================================
