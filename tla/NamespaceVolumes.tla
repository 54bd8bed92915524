-------------------------- MODULE NamespaceVolumes --------------------------
(***************************************************************************)
(* What each operation of Namespace on a volume keeps: names, link counts, *)
(* orphans and the directory tree agree after it if they did before, for   *)
(* any number of names and objects.                                        *)
(***************************************************************************)
EXTENDS Namespace, FiniteSetTheorems, TLAPS

(* What the proofs assume of the constants.                                *)
Bounds ==
    /\ MaxObjects \in Nat /\ MaxExtents \in Nat /\ Budget \in Nat
    /\ OrphansPerBatch \in Nat /\ OrphansPerRelease \in Nat

Object == [kind : {"none", "file", "directory"}, links : Nat, extents : Nat]

IsVolume(v) ==
    /\ DOMAIN v = {"objects", "next", "names", "parked"}
    /\ v.objects \in [Ids -> Object] /\ v.next \in Nat
    /\ v.names \in SUBSET (({Root} \union Ids) \X Names \X Ids)
    /\ v.parked \in SUBSET Ids
    /\ IsFiniteSet(v.names)

(* A volume in memory or on disk: sound, with identifiers from next on     *)
(* unused.                                                                 *)
Good(v) ==
    /\ IsVolume(v)
    /\ Sound(v)
    /\ \A o \in Ids : v.objects[o].kind = "none" \/ o >= v.next => v.objects[o] = None

-----------------------------------------------------------------------------
(* Counting names. *)

Count(names, o) == Cardinality({e \in names : e[3] = o})

(* The parts of Sound.                                                     *)
Entries(v) ==
    /\ \A e \in v.names : e[1] \in Directories(v) /\ v.objects[e[3]] /= None
    /\ \A e, f \in v.names : e[1] = f[1] /\ e[2] = f[2] => e = f
Linked(v, o) ==
    /\ v.objects[o].links = Count(v.names, o) + (IF o \in v.parked THEN 1 ELSE 0)
    /\ o \in v.parked => Count(v.names, o) = 0 /\ Is(v, o, "file")
    /\ Is(v, o, "directory") => Count(v.names, o) = 1
Tree(v) == \A o \in Ids : Is(v, o, "directory") => Reaches(v, Root, o)

LEMMA SoundParts ==
    ASSUME NEW v
    PROVE  Sound(v) <=> Entries(v) /\ (\A o \in Ids : Linked(v, o)) /\ Tree(v)
BY Zenon DEF Sound, Entries, Linked, Tree, NamesOf, Count

(* What no name leads to has none, and what one leads to has some.         *)
LEMMA CountZero ==
    ASSUME NEW names, IsFiniteSet(names), NEW o
    PROVE  Count(names, o) \in Nat /\ (Count(names, o) = 0 <=> \A e \in names : e[3] /= o)
<1>1. IsFiniteSet({f \in names : f[3] = o})
  BY FS_Subset
<1>2. QED
  BY <1>1, FS_EmptySet, FS_CardinalityType DEF Count

(* A new entry is one more name of its object and of no other.             *)
LEMMA CountAdded ==
    ASSUME NEW names, IsFiniteSet(names), NEW e, e \notin names, NEW o,
           NEW more, more = names \union {e}
    PROVE  /\ IsFiniteSet(more) /\ Count(names, o) \in Nat
           /\ e[3] = o => Count(more, o) = Count(names, o) + 1
           /\ e[3] /= o => Count(more, o) = Count(names, o)
<1> DEFINE A == {f \in names : f[3] = o}
           B == {f \in more : f[3] = o}
<1>1. IsFiniteSet(more)
  BY FS_AddElement
<1>2. IsFiniteSet(A)
  BY FS_Subset
<1>3. Cardinality(A) \in Nat
  BY <1>2, FS_CardinalityType
<1>4. IF e[3] = o THEN B = A \union {e} /\ e \notin A ELSE B = A
  OBVIOUS
<1>5. IF e[3] = o THEN Cardinality(B) = Cardinality(A) + 1 ELSE Cardinality(B) = Cardinality(A)
  <2> HIDE DEF A, B
  <2>1. QED
    BY <1>2, <1>3, <1>4, FS_AddElement
<1>6. QED
  BY <1>1, <1>3, <1>5 DEF Count

(* An entry removed is one name less of its object and of no other.        *)
LEMMA CountRemoved ==
    ASSUME NEW names, IsFiniteSet(names), NEW e \in names, NEW o,
           NEW rest, rest = names \ {e}
    PROVE  /\ IsFiniteSet(rest) /\ Count(rest, o) \in Nat
           /\ e[3] = o => Count(names, o) = Count(rest, o) + 1
           /\ e[3] /= o => Count(names, o) = Count(rest, o)
<1>1. IsFiniteSet(rest)
  BY FS_RemoveElement
<1>2. e \notin rest /\ names = rest \union {e}
  OBVIOUS
<1>3. QED
  BY <1>1, <1>2, CountAdded

-----------------------------------------------------------------------------
(* The directory tree. *)

(* What changes neither directories nor the entries that lead to them      *)
(* leaves every directory where it is.                                     *)
LEMMA TreeKept ==
    ASSUME NEW v, NEW w, Tree(v), Directories(w) = Directories(v),
           \A e : (e \in w.names /\ Is(w, e[3], "directory"))
                    <=> (e \in v.names /\ Is(v, e[3], "directory"))
    PROVE  Tree(w)
<1>1. ASSUME NEW o \in Ids, Is(w, o, "directory")  PROVE Reaches(w, Root, o)
  <2>1. Is(v, o, "directory")
    BY <1>1 DEF Directories, Root, Ids
  <2>2. Reaches(v, Root, o)
    BY <2>1 DEF Tree
  <2>3. QED
    BY <2>2 DEF Reaches, Closed
<1>2. QED
  BY <1>1 DEF Tree

(* A new directory hangs below the one it is created in.                   *)
LEMMA TreeGrown ==
    ASSUME NEW v, NEW w, Tree(v), NEW x \in Ids, ~Is(v, x, "directory"), x /= Root,
           NEW e, e[1] \in Directories(v), e[3] = x, w.names = v.names \union {e},
           Directories(w) = Directories(v) \union {x},
           \A f \in v.names : f[3] /= x,
           \A o \in Ids \ {x} : Is(w, o, "directory") <=> Is(v, o, "directory"),
           Is(w, x, "directory")
    PROVE  Tree(w)
<1>1. ASSUME NEW o \in Ids, Is(w, o, "directory"),
             NEW S \in SUBSET Directories(w), Root \in S, Closed(w, S)
      PROVE  o \in S
  <2> DEFINE R == S \ {x}
  <2>1. R \in SUBSET Directories(v) /\ Root \in R
    BY <1>1
  <2>2. Closed(v, R)
    BY <1>1 DEF Closed, Is
  <2>3. \A d \in Directories(v) : d \in R
    BY <2>1, <2>2 DEF Tree, Reaches, Directories
  <2>4. e \in w.names /\ e[1] \in S
    BY <2>3
  <2>5. x \in S
    BY <1>1, <2>4 DEF Closed
  <2>6. o = x \/ o \in Directories(v)
    BY <1>1 DEF Directories, Root, Ids
  <2>7. QED
    BY <2>3, <2>5, <2>6
<1>2. QED
  BY <1>1 DEF Tree, Reaches

(* Without a directory that has no entries the others stay where they are. *)
LEMMA TreeCut ==
    ASSUME NEW v, NEW w, Tree(v), NEW x \in Ids, Is(v, x, "directory"), x /= Root,
           NEW e, e[3] = x, w.names = v.names \ {e},
           \A f \in v.names : f[1] /= x,
           Directories(w) = Directories(v) \ {x},
           \A o \in Ids \ {x} : Is(w, o, "directory") <=> Is(v, o, "directory"),
           ~Is(w, x, "directory")
    PROVE  Tree(w)
<1>1. ASSUME NEW o \in Ids, Is(w, o, "directory"),
             NEW S \in SUBSET Directories(w), Root \in S, Closed(w, S)
      PROVE  o \in S
  <2> DEFINE T == S \union {x}
  <2>1. x \in Directories(v)
    BY DEF Directories, Is
  <2>2. T \in SUBSET Directories(v) /\ Root \in T
    BY <1>1, <2>1
  <2>3. Closed(v, T)
    BY <1>1 DEF Closed, Is
  <2>4. o \in Ids /\ o /= x /\ Is(v, o, "directory")
    BY <1>1
  <2>5. o \in T
    BY <2>2, <2>3, <2>4 DEF Tree, Reaches
  <2>6. QED
    BY <2>4, <2>5
<1>2. QED
  BY <1>1 DEF Tree, Reaches

(* A directory moved to one that is not below it takes its own subtree     *)
(* along, and nothing comes loose.                                         *)
LEMMA TreeMoved ==
    ASSUME NEW v, NEW w, Tree(v), NEW x \in Ids, Is(v, x, "directory"), x /= Root,
           NEW e, e[3] = x, NEW t, t[3] = x, w.names = (v.names \ {e}) \union {t},
           t[1] \in Directories(v), ~Reaches(v, x, t[1]),
           \A o : Is(w, o, "directory") <=> Is(v, o, "directory"),
           \A f \in v.names : f[3] = x => f = e
    PROVE  Tree(w)
<1>1. Directories(w) = Directories(v)
  BY DEF Directories
<1>2. ASSUME NEW o \in Ids, Is(w, o, "directory"),
             NEW S \in SUBSET Directories(w), Root \in S, Closed(w, S)
      PROVE  o \in S
  <2> DEFINE Below == {d \in Directories(v) : Reaches(v, x, d)}
             T == S \union Below
  <2>1. x \in Below
    BY DEF Directories, Reaches, Is
  <2>2. \A f \in v.names : f[1] \in Below /\ Is(v, f[3], "directory") => f[3] \in Below
    BY DEF Reaches, Closed, Directories, Is
  <2>3. T \in SUBSET Directories(v) /\ Root \in T
    BY <1>1, <1>2
  <2>4. Closed(v, T)
    <3> SUFFICES ASSUME NEW f \in v.names, f[1] \in T, Is(v, f[3], "directory")
                 PROVE  f[3] \in T
      BY DEF Closed
    <3>1. CASE f[1] \in Below
      BY <2>2, <3>1
    <3>2. CASE f[3] = x
      BY <2>1, <3>2
    <3>3. CASE f[1] \in S /\ f[3] /= x
      BY <1>2, <3>3 DEF Closed
    <3>4. QED
      BY <3>1, <3>2, <3>3
  <2>5. \A d \in Directories(v) : d \in T
    BY <2>3, <2>4 DEF Tree, Reaches, Directories
  <2>6. t[1] \in S
    BY <2>5
  <2>7. x \in S
    BY <1>2, <2>6 DEF Closed
  <2>8. Closed(v, S)
    BY <1>2, <2>7 DEF Closed
  <2>9. Is(v, o, "directory") /\ S \in SUBSET Directories(v)
    BY <1>1, <1>2
  <2>10. QED
    BY <1>2, <2>8, <2>9 DEF Tree, Reaches
<1>3. QED
  BY <1>2 DEF Tree, Reaches

-----------------------------------------------------------------------------
(* The operations keep a volume good. *)

(* What Good says of a volume, field by field.                             *)
LEMMA GoodParts ==
    ASSUME NEW v, Good(v)
    PROVE  /\ IsVolume(v) /\ Entries(v) /\ Tree(v)
           /\ \A o \in Ids : Linked(v, o) /\ Count(v.names, o) \in Nat
           /\ \A o \in Ids : v.objects[o].kind = "none" \/ o >= v.next => v.objects[o] = None
BY SoundParts, CountZero DEF Good, IsVolume

(* A new object at the next identifier, with the one name it is given.     *)
LEMMA CreateGood ==
    ASSUME Bounds, NEW v, Good(v), NEW p \in Directories(v), NEW n \in Names,
           NEW object \in {NewFile, NewDirectory}, At(v, p, n) = {}, v.next \in Ids
    PROVE  /\ Good(Create(v, p, n, object))
           /\ \A o \in Ids \ {v.next} : Create(v, p, n, object).objects[o] = v.objects[o]
           /\ Create(v, p, n, object).objects[v.next] = object
<1> DEFINE w == Create(v, p, n, object)
           x == v.next
           e == <<p, n, x>>
<1>0. /\ IsVolume(v) /\ Entries(v) /\ Tree(v)
      /\ \A o \in Ids : Linked(v, o) /\ Count(v.names, o) \in Nat
      /\ \A o \in Ids : v.objects[o].kind = "none" \/ o >= v.next => v.objects[o] = None
  BY GoodParts
<1>1. /\ DOMAIN w = DOMAIN v
      /\ w.objects = [v.objects EXCEPT ![x] = object] /\ w.next = v.next + 1
      /\ w.names = v.names \union {e} /\ w.parked = v.parked
  BY <1>0 DEF Create, IsVolume
<1> HIDE DEF w
<1>2. object \in Object /\ object /= None /\ object.links = 1 /\ object.kind /= "none"
  BY DEF Object, NewFile, NewDirectory, None
<1>3. w.objects \in [Ids -> Object] /\ \A o \in Ids : w.objects[o] = IF o = x THEN object ELSE v.objects[o]
  BY <1>0, <1>1, <1>2 DEF IsVolume
<1>4. p \in {Root} \union Ids /\ e \in ({Root} \union Ids) \X Names \X Ids
  BY DEF Directories
<1>6. x \in Ids /\ v.objects[x] = None
  BY <1>0 DEF Ids
<1>7. \A f \in v.names : f[3] /= x /\ f[1] /= x
  <2>1. ~Is(v, x, "directory") /\ x /= Root
    BY <1>6 DEF Is, None, Ids, Root, Bounds
  <2>2. QED
    BY <1>0, <1>6, <2>1 DEF Entries, Directories
<1>8. e \notin v.names /\ e[1] = p /\ e[2] = n /\ e[3] = x
  BY <1>7
<1> HIDE DEF e
<1>9. /\ IsFiniteSet(w.names) /\ Count(w.names, x) = Count(v.names, x) + 1
      /\ \A o \in Ids \ {x} : Count(w.names, o) = Count(v.names, o)
  <2>1. IsFiniteSet(v.names) /\ w.names = v.names \union {e}
    BY <1>0, <1>1 DEF IsVolume
  <2>2. QED
    BY <1>8, <2>1, CountAdded
<1>10. Count(v.names, x) = 0
  BY <1>0, <1>7, CountZero DEF IsVolume
<1>11. \A o \in Ids \ {x} : \A k : Is(w, o, k) <=> Is(v, o, k)
  BY <1>3 DEF Is
<1>12. Directories(v) \subseteq Directories(w)
  BY <1>3, <1>6 DEF Directories, Is, None
<1>13. Entries(w)
  <2>1. \A f \in v.names : ~(f[1] = p /\ f[2] = n)
    BY DEF At
  <2>2. \A f \in w.names : f[1] \in Directories(w) /\ w.objects[f[3]] /= None
    <3> SUFFICES ASSUME NEW f \in w.names
                 PROVE  f[1] \in Directories(w) /\ w.objects[f[3]] /= None
      OBVIOUS
    <3>1. CASE f \in v.names
      <4>1. f[3] \in Ids
        BY <1>0, <3>1 DEF IsVolume
      <4>2. QED
        BY <1>0, <1>3, <1>7, <1>12, <3>1, <4>1 DEF Entries
    <3>2. CASE f = e
      BY <1>2, <1>3, <1>6, <1>8, <1>12, <3>2
    <3>3. QED
      BY <1>1, <3>1, <3>2
  <2>3. \A f, g \in w.names : f[1] = g[1] /\ f[2] = g[2] => f = g
    BY <1>0, <1>1, <1>8, <2>1 DEF Entries
  <2>4. QED
    BY <2>2, <2>3 DEF Entries
<1>14. ASSUME NEW o \in Ids  PROVE Linked(w, o)
  <2>1. CASE o = x
    <3>1. x \notin v.parked
      BY <1>0, <1>6 DEF Linked, Is, None
    <3>2. QED
      BY <1>1, <1>2, <1>3, <1>9, <1>10, <2>1, <3>1 DEF Linked
  <2>2. CASE o /= x
    <3>1. Linked(v, o) /\ Count(v.names, o) \in Nat
      BY <1>0
    <3>2. QED
      <4>1. /\ w.objects[o] = v.objects[o] /\ Count(w.names, o) = Count(v.names, o)
            /\ Is(w, o, "file") <=> Is(v, o, "file")
            /\ Is(w, o, "directory") <=> Is(v, o, "directory")
        BY <1>3, <1>9, <1>11, <2>2, <3>1
      <4>2. QED
        BY <1>1, <3>1, <4>1 DEF Linked
  <2>3. QED
    BY <2>1, <2>2
<1>15. Tree(w)
  <2>1. x /= Root /\ ~Is(v, x, "directory")
    BY <1>6 DEF Is, None, Ids, Root, Bounds
  <2>2. CASE object = NewDirectory
    <3>1. Is(w, x, "directory")
      BY <1>3, <1>6, <2>2 DEF Is, NewDirectory
    <3>2. Directories(w) = Directories(v) \union {x}
      BY <1>6, <1>11, <3>1 DEF Directories
    <3>3. \A o \in Ids \ {x} : Is(w, o, "directory") <=> Is(v, o, "directory")
      BY <1>11
    <3>4. QED
      BY <1>0, <1>1, <1>6, <1>7, <1>8, <2>1, <3>1, <3>2, <3>3, TreeGrown
  <2>3. CASE object = NewFile
    <3>1. ~Is(w, x, "directory")
      BY <1>3, <1>6, <2>3 DEF Is, NewFile
    <3>2. Directories(w) = Directories(v)
      BY <1>6, <1>11, <2>1, <3>1 DEF Directories
    <3>3. \A f : (f \in w.names /\ Is(w, f[3], "directory"))
                    <=> (f \in v.names /\ Is(v, f[3], "directory"))
      <4>1. \A o : Is(w, o, "directory") <=> Is(v, o, "directory")
        BY <1>3, <2>1, <3>1 DEF Is
      <4>2. QED
        BY <1>1, <1>8, <3>1, <4>1
    <3>4. QED
      BY <1>0, <3>2, <3>3, TreeKept
  <2>4. QED
    BY <2>2, <2>3
<1>16. \A o \in Ids : w.objects[o].kind = "none" \/ o >= w.next => w.objects[o] = None
  BY <1>0, <1>1, <1>2, <1>3 DEF Ids, IsVolume
<1>17. Sound(w)
  BY <1>13, <1>14, <1>15, SoundParts
<1>18. IsVolume(w)
  BY <1>0, <1>1, <1>3, <1>4, <1>9 DEF IsVolume
<1>19. QED
  BY <1>3, <1>6, <1>16, <1>17, <1>18 DEF w, Good

(* What one link less does to a volume.                                    *)
LessOneLink(v, e, created, w) ==
    /\ DOMAIN w = DOMAIN v /\ w.next = v.next /\ w.names = v.names \ {e}
    /\ w.objects \in [Ids -> Object]
    /\ \A x \in Ids \ {e[3]} : w.objects[x] = v.objects[x]
    /\ e[3] \in created => w.objects[e[3]] = None /\ w.parked = v.parked
    /\ e[3] \notin created /\ v.objects[e[3]].links > 1 =>
         /\ w.objects[e[3]].links = v.objects[e[3]].links - 1
         /\ w.objects[e[3]].kind = v.objects[e[3]].kind
         /\ w.objects[e[3]].extents = v.objects[e[3]].extents
         /\ w.objects[e[3]] \in Object /\ w.parked = v.parked
    /\ e[3] \notin created /\ ~(v.objects[e[3]].links > 1) =>
         w.objects[e[3]] = v.objects[e[3]] /\ w.parked = v.parked \union {e[3]}

LEMMA UnlinkFields ==
    ASSUME NEW v, IsVolume(v), NEW e \in v.names, NEW created
    PROVE  LessOneLink(v, e, created, Unlink(v, e[1], e[2], e[3], created))
<1> DEFINE o == e[3]
           u == [v EXCEPT !.names = @ \ {<<e[1], e[2], o>>}]
           w == DropLink(u, o, created)
<1>1. e = <<e[1], e[2], e[3]>> /\ o \in Ids
  BY DEF IsVolume
<1>2. DOMAIN u = DOMAIN v /\ u.next = v.next /\ u.names = v.names \ {e}
      /\ u.objects = v.objects /\ u.parked = v.parked
  BY <1>1 DEF IsVolume
<1>3. Unlink(v, e[1], e[2], o, created) = w
  BY DEF Unlink
<1> HIDE DEF u
<1>4. CASE o \in created
  <2>1. w = [u EXCEPT !.objects[o] = None]
    BY <1>4 DEF DropLink
  <2> HIDE DEF w, o
  <2>2. DOMAIN w = DOMAIN v /\ w.next = v.next /\ w.names = v.names \ {e} /\ w.parked = v.parked
    BY <1>2, <2>1 DEF IsVolume
  <2>3. w.objects = [v.objects EXCEPT ![o] = None]
    BY <1>2, <2>1 DEF IsVolume
  <2>4. None \in Object /\ v.objects \in [Ids -> Object]
    BY DEF None, Object, IsVolume
  <2>5. QED
    BY <1>1, <1>3, <1>4, <2>2, <2>3, <2>4 DEF o, LessOneLink
<1>5. CASE o \notin created /\ v.objects[o].links > 1
  <2> DEFINE y == [v.objects[o] EXCEPT !.links = @ - 1]
  <2>1. w = [u EXCEPT !.objects[o].links = @ - 1]
    BY <1>2, <1>5 DEF DropLink
  <2> HIDE DEF w, o
  <2>2. DOMAIN w = DOMAIN v /\ w.next = v.next /\ w.names = v.names \ {e} /\ w.parked = v.parked
    BY <1>2, <2>1 DEF IsVolume
  <2>3. w.objects = [v.objects EXCEPT ![o] = y]
    BY <1>2, <2>1 DEF IsVolume
  <2>4. v.objects \in [Ids -> Object] /\ v.objects[o] \in Object /\ o \in Ids
    BY <1>1 DEF IsVolume, o
  <2>5. /\ y \in Object /\ y.links = v.objects[o].links - 1
        /\ y.kind = v.objects[o].kind /\ y.extents = v.objects[o].extents
    BY <1>5, <2>4 DEF Object
  <2> HIDE DEF y
  <2>6. w.objects \in [Ids -> Object] /\ w.objects[o] = y
        /\ \A x \in Ids \ {o} : w.objects[x] = v.objects[x]
    BY <2>3, <2>4, <2>5
  <2>7. QED
    BY <1>3, <1>5, <2>2, <2>5, <2>6 DEF o, LessOneLink
<1>6. CASE o \notin created /\ ~(v.objects[o].links > 1)
  <2>1. w = [u EXCEPT !.parked = @ \union {o}]
    BY <1>2, <1>6 DEF DropLink
  <2> HIDE DEF w, o
  <2>2. DOMAIN w = DOMAIN v /\ w.next = v.next /\ w.names = v.names \ {e}
    BY <1>2, <2>1 DEF IsVolume
  <2>3. w.objects = v.objects /\ w.parked = v.parked \union {o}
    BY <1>2, <2>1 DEF IsVolume
  <2>4. v.objects \in [Ids -> Object]
    BY DEF IsVolume
  <2>5. QED
    BY <1>3, <1>6, <2>2, <2>3, <2>4 DEF o, LessOneLink
<1>7. QED
  BY <1>4, <1>5, <1>6

(* What becomes of a file's object when it loses a name.                   *)
FileKept(v, w, o) ==
    /\ Is(w, o, "file") /\ w.objects[o].extents = v.objects[o].extents
    /\ w.objects[o].links <= v.objects[o].links

(* A file loses one of its names: it keeps the others, becomes an orphan,  *)
(* or goes if this window made it, which it may because it had no other.   *)
Unlinked(v, e, created, w) ==
    /\ Good(w) /\ w.names = v.names \ {e}
    /\ \A x \in Ids \ {e[3]} : w.objects[x] = v.objects[x]
    /\ e[3] \in created => w.objects[e[3]] = None
    /\ e[3] \notin created => FileKept(v, w, e[3])
    /\ Directories(w) = Directories(v)

LEMMA UnlinkGood ==
    ASSUME Bounds, NEW v, Good(v), NEW e \in v.names, Is(v, e[3], "file"),
           NEW created, e[3] \in created => v.objects[e[3]].links <= 1
    PROVE  Unlinked(v, e, created, Unlink(v, e[1], e[2], e[3], created))
<1> DEFINE o == e[3]
           w == Unlink(v, e[1], e[2], o, created)
<1>0. /\ IsVolume(v) /\ Entries(v) /\ Tree(v)
      /\ \A x \in Ids : Linked(v, x) /\ Count(v.names, x) \in Nat
      /\ \A x \in Ids : v.objects[x].kind = "none" \/ x >= v.next => v.objects[x] = None
  BY GoodParts
<1>1. o \in Ids /\ v.objects[o] \in Object /\ v.objects[o].kind = "file" /\ v.objects[o] /= None
  BY <1>0 DEF IsVolume, Is, None
<1>link. LessOneLink(v, e, created, w)
  BY <1>0, UnlinkFields
<1>6. o \in created => v.objects[o].links <= 1
  OBVIOUS
<1> HIDE DEF w
<1>2. /\ DOMAIN w = DOMAIN v /\ w.next = v.next /\ w.names = v.names \ {e}
      /\ w.objects \in [Ids -> Object]
      /\ \A x \in Ids \ {o} : w.objects[x] = v.objects[x]
  BY <1>link DEF LessOneLink
<1>3. o \in created => w.objects[o] = None /\ w.parked = v.parked
  BY <1>link DEF LessOneLink
<1>4. o \notin created /\ v.objects[o].links > 1 =>
                /\ w.objects[o].links = v.objects[o].links - 1
                /\ w.objects[o].kind = v.objects[o].kind
                /\ w.objects[o].extents = v.objects[o].extents
                /\ w.objects[o] \in Object /\ w.parked = v.parked
  BY <1>link DEF LessOneLink
<1>5. o \notin created /\ ~(v.objects[o].links > 1) =>
                w.objects[o] = v.objects[o] /\ w.parked = v.parked \union {o}
  BY <1>link DEF LessOneLink
<1> HIDE DEF o
<1>7. /\ IsFiniteSet(w.names) /\ Count(w.names, o) \in Nat
      /\ Count(v.names, o) = Count(w.names, o) + 1
      /\ \A x \in Ids \ {o} : Count(w.names, x) = Count(v.names, x)
  <2>1. IsFiniteSet(v.names)
    BY <1>0 DEF IsVolume
  <2>2. QED
    BY <1>2, <2>1, CountRemoved DEF o
<1>8. /\ v.objects[o].links = Count(v.names, o) /\ o \notin v.parked
  <2>1. Linked(v, o) /\ Count(v.names, o) /= 0
    BY <1>0, <1>1, <1>7
  <2>2. QED
    BY <1>0, <1>1, <2>1 DEF Linked
<1>9. IsVolume(w)
  <2>1. w.parked \in SUBSET Ids
    BY <1>0, <1>1, <1>3, <1>4, <1>5 DEF IsVolume
  <2>2. QED
    BY <1>0, <1>2, <1>7, <2>1 DEF IsVolume
<1>10. ~Is(w, o, "directory") /\ ~Is(v, o, "directory")
  BY <1>1, <1>3, <1>4, <1>5 DEF Is, None
<1>11. \A x : Is(w, x, "directory") <=> Is(v, x, "directory")
  BY <1>2, <1>10 DEF Is
<1>12. Directories(w) = Directories(v)
  BY <1>11 DEF Directories
<1>13. w.objects[o] = None => \A f \in w.names : f[3] /= o
  <2>1. CASE w.objects[o] /= None
    BY <2>1
  <2>2. CASE o \in created
    <3>1. Count(w.names, o) = 0
      BY <1>1, <1>6, <1>7, <1>8, <2>2
    <3>2. QED
      BY <1>7, <3>1, CountZero
  <2>3. CASE o \notin created
    <3>1. w.objects[o].kind = "file"
      BY <1>1, <1>4, <1>5, <2>3
    <3>2. QED
      BY <3>1 DEF None
  <2>4. QED
    BY <2>2, <2>3
<1>14. Entries(w)
  <2>1. ASSUME NEW f \in w.names
        PROVE  f[1] \in Directories(w) /\ w.objects[f[3]] /= None
    <3>1. f \in v.names /\ f[3] \in Ids
      BY <1>0, <1>2, <2>1 DEF IsVolume
    <3>2. f[1] \in Directories(v) /\ v.objects[f[3]] /= None
      BY <1>0, <3>1 DEF Entries
    <3>3. QED
      BY <1>2, <1>12, <1>13, <2>1, <3>1, <3>2
  <2>2. \A f, g \in w.names : f[1] = g[1] /\ f[2] = g[2] => f = g
    BY <1>0, <1>2 DEF Entries
  <2>3. QED
    BY <2>1, <2>2 DEF Entries
<1>15. ASSUME NEW x \in Ids  PROVE Linked(w, x)
  <2>1. CASE x /= o
    <3>1. x \in w.parked <=> x \in v.parked
      BY <1>3, <1>4, <1>5, <2>1
    <3>2. w.objects[x] = v.objects[x] /\ Count(w.names, x) = Count(v.names, x)
      BY <1>2, <1>7, <2>1, Zenon
    <3>3. Is(w, x, "file") <=> Is(v, x, "file")
      BY <3>2 DEF Is
    <3>4. QED
      BY <1>0, <1>11, <3>1, <3>2, <3>3 DEF Linked
  <2>2. CASE x = o /\ o \in created
    <3>1. Count(w.names, o) = 0
      BY <1>1, <1>6, <1>7, <1>8, <2>2
    <3>2. QED
      BY <1>3, <1>8, <1>10, <2>2, <3>1 DEF Linked, None
  <2>3. CASE x = o /\ o \notin created /\ v.objects[o].links > 1
    <3>1. w.objects[o].links = Count(w.names, o) /\ o \notin w.parked
      BY <1>1, <1>4, <1>7, <1>8, <2>3
    <3>2. QED
      BY <1>7, <1>10, <2>3, <3>1 DEF Linked
  <2>4. CASE x = o /\ o \notin created /\ ~(v.objects[o].links > 1)
    <3>1. w.objects[o].links = 1 /\ Count(w.names, o) = 0 /\ o \in w.parked /\ Is(w, o, "file")
      BY <1>1, <1>5, <1>7, <1>8, <2>4 DEF Is, Object
    <3>2. QED
      BY <1>10, <2>4, <3>1 DEF Linked
  <2>5. QED
    BY <2>1, <2>2, <2>3, <2>4
<1>16. Tree(w)
  <2>1. \A f : (f \in w.names /\ Is(w, f[3], "directory"))
                  <=> (f \in v.names /\ Is(v, f[3], "directory"))
    BY <1>2, <1>10, <1>11 DEF o
  <2>2. QED
    BY <1>0, <1>12, <2>1, TreeKept
<1>17. ASSUME NEW x \in Ids, w.objects[x].kind = "none" \/ x >= w.next
       PROVE  w.objects[x] = None
  <2>1. CASE x = o
    <3>1. o \notin created => w.objects[o].kind = "file"
      BY <1>1, <1>4, <1>5
    <3>2. ~(o >= v.next)
      BY <1>0, <1>1
    <3>3. QED
      BY <1>2, <1>3, <1>17, <2>1, <3>1, <3>2
  <2>2. CASE x /= o
    BY <1>0, <1>2, <1>17, <2>2
  <2>3. QED
    BY <2>1, <2>2
<1>18. Good(w)
  BY <1>9, <1>14, <1>15, <1>16, <1>17, SoundParts DEF Good
<1>19. o \notin created => FileKept(v, w, o)
  BY <1>1, <1>4, <1>5 DEF FileKept, Is, Object
<1>20. QED
  BY <1>2, <1>3, <1>12, <1>18, <1>19 DEF o, w, Unlinked

(* An empty directory goes with its only name.                             *)
LEMMA RemoveEmptyGood ==
    ASSUME Bounds, NEW v, Good(v), NEW e \in v.names, Is(v, e[3], "directory"),
           \A f \in v.names : f[1] /= e[3]
    PROVE  LET o == e[3] w == RemoveEmpty(v, e[1], e[2], o) IN
           /\ Good(w) /\ w.parked = v.parked
           /\ \A x \in Ids \ {o} : w.objects[x] = v.objects[x]
           /\ w.objects[o] = None
<1> DEFINE o == e[3]
           w == RemoveEmpty(v, e[1], e[2], o)
<1>0. /\ IsVolume(v) /\ Entries(v) /\ Tree(v)
      /\ \A x \in Ids : Linked(v, x) /\ Count(v.names, x) \in Nat
      /\ \A x \in Ids : v.objects[x].kind = "none" \/ x >= v.next => v.objects[x] = None
  BY GoodParts
<1>1. o \in Ids /\ v.objects[o].kind = "directory" /\ v.objects[o] /= None
      /\ e = <<e[1], e[2], o>> /\ o /= Root
  BY <1>0 DEF IsVolume, Is, None, Ids, Root, Bounds
<1>2. /\ DOMAIN w = DOMAIN v /\ w.next = v.next /\ w.names = v.names \ {e}
      /\ w.parked = v.parked /\ w.objects = [v.objects EXCEPT ![o] = None]
  <2> HIDE DEF o
  <2>1. QED
    BY <1>0, <1>1 DEF IsVolume, RemoveEmpty
<1>3. \A f \in v.names : f[1] /= o
  OBVIOUS
<1> HIDE DEF w, o
<1>4. /\ w.objects \in [Ids -> Object] /\ w.objects[o] = None
      /\ \A x \in Ids \ {o} : w.objects[x] = v.objects[x]
  BY <1>0, <1>1, <1>2 DEF IsVolume, Object, None
<1>5. /\ IsFiniteSet(w.names) /\ Count(w.names, o) \in Nat
      /\ Count(v.names, o) = Count(w.names, o) + 1
      /\ \A x \in Ids \ {o} : Count(w.names, x) = Count(v.names, x)
  <2>1. IsFiniteSet(v.names)
    BY <1>0 DEF IsVolume
  <2>2. QED
    BY <1>2, <2>1, CountRemoved DEF o
<1>6. Count(w.names, o) = 0 /\ o \notin v.parked
  <2>1. Is(v, o, "directory") /\ ~Is(v, o, "file")
    BY <1>1 DEF Is
  <2>2. QED
    BY <1>0, <1>1, <1>5, <2>1 DEF Linked
<1>7. \A f \in w.names : f[3] /= o
  BY <1>5, <1>6, CountZero
<1>8. \A x \in Ids \ {o} : \A k : Is(w, x, k) <=> Is(v, x, k)
  BY <1>4 DEF Is
<1>9. ~Is(w, o, "directory") /\ ~Is(w, o, "file") /\ Is(v, o, "directory")
  BY <1>1, <1>4 DEF Is, None
<1>10. Directories(w) = Directories(v) \ {o}
  BY <1>1, <1>8, <1>9 DEF Directories
<1>11. Entries(w)
  <2>1. ASSUME NEW f \in w.names
        PROVE  f[1] \in Directories(w) /\ w.objects[f[3]] /= None
    <3>1. f \in v.names /\ f[3] \in Ids /\ f[3] /= o
      BY <1>0, <1>2, <1>7, <2>1 DEF IsVolume
    <3>2. f[1] \in Directories(v) /\ v.objects[f[3]] /= None
      BY <1>0, <3>1 DEF Entries
    <3>3. QED
      BY <1>3, <1>4, <1>10, <3>1, <3>2
  <2>2. \A f, g \in w.names : f[1] = g[1] /\ f[2] = g[2] => f = g
    BY <1>0, <1>2 DEF Entries
  <2>3. QED
    BY <2>1, <2>2 DEF Entries
<1>12. ASSUME NEW x \in Ids  PROVE Linked(w, x)
  <2>1. CASE x /= o
    <3>1. /\ w.objects[x] = v.objects[x] /\ Count(w.names, x) = Count(v.names, x)
          /\ Is(w, x, "file") <=> Is(v, x, "file")
          /\ Is(w, x, "directory") <=> Is(v, x, "directory")
      BY <1>4, <1>5, <1>8, <2>1
    <3>2. QED
      BY <1>0, <1>2, <3>1 DEF Linked
  <2>2. CASE x = o
    BY <1>2, <1>4, <1>6, <1>9, <2>2 DEF Linked, None
  <2>3. QED
    BY <2>1, <2>2
<1>13. Tree(w)
  <2>1. \A x \in Ids \ {o} : Is(w, x, "directory") <=> Is(v, x, "directory")
    BY <1>8
  <2>2. e[3] = o
    BY DEF o
  <2>3. QED
    BY <1>0, <1>1, <1>2, <1>3, <1>9, <1>10, <2>1, <2>2, TreeCut
<1>14. \A x \in Ids : w.objects[x].kind = "none" \/ x >= w.next => w.objects[x] = None
  BY <1>0, <1>2, <1>4
<1>15. IsVolume(w)
  BY <1>0, <1>2, <1>4, <1>5 DEF IsVolume
<1>16. Good(w)
  BY <1>11, <1>12, <1>13, <1>14, <1>15, SoundParts DEF Good
<1>17. QED
  BY <1>2, <1>4, <1>16 DEF o, w

(* A name moves to a free one: what it names is what it was, and a         *)
(* directory is not moved below itself.                                    *)
LEMMA MovedGood ==
    ASSUME Bounds, NEW v, Good(v), NEW e \in v.names, NEW t, t[3] = e[3],
           t \in ({Root} \union Ids) \X Names \X Ids, t[1] \in Directories(v),
           \A f \in v.names : ~(f[1] = t[1] /\ f[2] = t[2]),
           Is(v, e[3], "directory") => ~Reaches(v, e[3], t[1]),
           NEW w, DOMAIN w = DOMAIN v, w.next = v.next, w.objects = v.objects,
           w.parked = v.parked, w.names = (v.names \ {e}) \union {t}
    PROVE  Good(w)
<1> DEFINE o == e[3]
           rest == v.names \ {e}
<1>0. /\ IsVolume(v) /\ Entries(v) /\ Tree(v)
      /\ \A x \in Ids : Linked(v, x) /\ Count(v.names, x) \in Nat
      /\ \A x \in Ids : v.objects[x].kind = "none" \/ x >= v.next => v.objects[x] = None
  BY GoodParts
<1>1. o \in Ids /\ o /= Root
  BY <1>0 DEF IsVolume, Ids, Root, Bounds
<1>2. ASSUME NEW x
      PROVE  IsFiniteSet(w.names) /\ Count(w.names, x) = Count(v.names, x)
  <2>1. IsFiniteSet(v.names) /\ t \notin rest /\ w.names = rest \union {t} /\ rest = v.names \ {e}
    BY <1>0 DEF IsVolume
  <2> HIDE DEF rest
  <2>2. /\ IsFiniteSet(rest) /\ Count(rest, x) \in Nat
        /\ e[3] = x => Count(v.names, x) = Count(rest, x) + 1
        /\ e[3] /= x => Count(v.names, x) = Count(rest, x)
    BY <2>1, CountRemoved
  <2>3. /\ IsFiniteSet(w.names)
        /\ t[3] = x => Count(w.names, x) = Count(rest, x) + 1
        /\ t[3] /= x => Count(w.names, x) = Count(rest, x)
    BY <2>1, <2>2, CountAdded
  <2>4. QED
    BY <2>2, <2>3
<1>3. IsVolume(w)
  BY <1>0, <1>2, Zenon DEF IsVolume
<1>4. \A x, k : Is(w, x, k) <=> Is(v, x, k)
  BY DEF Is
<1>5. Directories(w) = Directories(v)
  BY <1>4 DEF Directories
<1>6. Entries(w)
  <2>1. ASSUME NEW f \in w.names
        PROVE  f[1] \in Directories(w) /\ w.objects[f[3]] /= None
    BY <1>0, <1>5, <2>1 DEF Entries
  <2>2. \A f, g \in w.names : f[1] = g[1] /\ f[2] = g[2] => f = g
    BY <1>0 DEF Entries
  <2>3. QED
    BY <2>1, <2>2 DEF Entries
<1>7. ASSUME NEW x \in Ids  PROVE Linked(w, x)
  <2>1. Count(w.names, x) = Count(v.names, x) /\ Linked(v, x)
    BY <1>0, <1>2
  <2>2. QED
    BY <1>4, <2>1 DEF Linked
<1>8. Tree(w)
  <2>1. CASE Is(v, o, "directory")
    <3>1. \A f \in v.names : f[3] = o => f = e
      <4> SUFFICES ASSUME NEW f \in v.names, f[3] = o, f /= e  PROVE FALSE
        OBVIOUS
      <4>1. IsFiniteSet(v.names) /\ rest = v.names \ {e} /\ Count(v.names, o) = 1
        BY <1>0, <1>1, <2>1 DEF IsVolume, Linked
      <4>2. f \in rest
        OBVIOUS
      <4> HIDE DEF rest
      <4>3. IsFiniteSet(rest) /\ Count(rest, o) \in Nat /\ Count(v.names, o) = Count(rest, o) + 1
        BY <4>1, CountRemoved
      <4>4. Count(rest, o) = 0
        BY <4>1, <4>3
      <4>5. QED
        BY <4>2, <4>3, <4>4, CountZero
    <3>2. QED
      BY <1>0, <1>1, <1>4, <2>1, <3>1, TreeMoved
  <2>2. CASE ~Is(v, o, "directory")
    <3>1. \A f : (f \in w.names /\ Is(w, f[3], "directory"))
                  <=> (f \in v.names /\ Is(v, f[3], "directory"))
      BY <1>4, <2>2
    <3>2. QED
      BY <1>0, <1>5, <3>1, TreeKept
  <2>3. QED
    BY <2>1, <2>2
<1>9. QED
  BY <1>0, <1>3, <1>6, <1>7, <1>8, SoundParts DEF Good

(* What a rename, an unlink or a removal leaves of one object.             *)
Spared(v, w, x, created) ==
    \/ w.objects[x] = v.objects[x]
    \/ x \in created /\ w.objects[x] = None
    \/ x \notin created /\ FileKept(v, w, x)

(* A rename, onto a free name or over a file that loses that name.         *)
Renamed(v, o, tp, tn, created, w) ==
    /\ Good(w)
    /\ \A x \in Ids : x \notin At(v, tp, tn) \ {o} => w.objects[x] = v.objects[x]
    /\ \A x \in Ids : Spared(v, w, x, created)

LEMMA MoveGood ==
    ASSUME Bounds, NEW v, Good(v), NEW e \in v.names, NEW tp \in Directories(v),
           NEW tn \in Names, <<tp, tn>> /= <<e[1], e[2]>>, NEW created,
           At(v, tp, tn) /= {} => Is(v, e[3], "file"),
           \A t \in At(v, tp, tn) \ {e[3]} :
                Is(v, t, "file") /\ (t \in created => v.objects[t].links <= 1),
           Is(v, e[3], "directory") => ~Reaches(v, e[3], tp)
    PROVE  Renamed(v, e[3], tp, tn, created, Move(v, e[1], e[2], e[3], tp, tn, created))
<1> DEFINE o == e[3]
           d == <<tp, tn, o>>
           moved(u) == [u EXCEPT !.names = (@ \ {<<e[1], e[2], o>>}) \union {d}]
           w == Move(v, e[1], e[2], o, tp, tn, created)
<1>0. IsVolume(v) /\ Entries(v)
  BY GoodParts
<1>1. e = <<e[1], e[2], e[3]>> /\ o \in Ids
  BY <1>0 DEF IsVolume
<1>2. d[1] = tp /\ d[2] = tn /\ d[3] = o /\ d \in ({Root} \union Ids) \X Names \X Ids
  BY <1>1 DEF Directories
<1>3. \A x : x \in At(v, tp, tn) <=> \E f \in v.names : f[1] = tp /\ f[2] = tn /\ f[3] = x
  BY DEF At
<1>4. ASSUME NEW u, IsVolume(u)
      PROVE  /\ DOMAIN moved(u) = DOMAIN u /\ moved(u).next = u.next
             /\ moved(u).objects = u.objects /\ moved(u).parked = u.parked
             /\ moved(u).names = (u.names \ {e}) \union {d}
  <2> HIDE DEF o, d
  <2>1. QED
    BY <1>1, <1>4 DEF IsVolume, o
<1>5. CASE At(v, tp, tn) = {}
  <2>1. w = moved(v)
    BY <1>5 DEF Move
  <2> HIDE DEF w, moved, d
  <2>2. \A f \in v.names : ~(f[1] = d[1] /\ f[2] = d[2])
    BY <1>2, <1>3, <1>5
  <2>3. w.objects = v.objects
    BY <1>0, <1>4, <2>1
  <2>4. Good(w)
    BY <1>0, <1>2, <1>4, <2>1, <2>2, MovedGood
  <2>5. QED
    BY <2>3, <2>4 DEF Spared, w, Renamed
<1>6. CASE At(v, tp, tn) = {o}
  <2>1. w = v
    BY <1>6 DEF Move
  <2>2. QED
    BY <2>1 DEF Spared, Renamed
<1>7. CASE At(v, tp, tn) /= {} /\ At(v, tp, tn) /= {o}
  <2> DEFINE t == CHOOSE t \in At(v, tp, tn) : TRUE
             g == <<tp, tn, t>>
             u == Unlink(v, g[1], g[2], g[3], created)
  <2>1. t \in At(v, tp, tn)
    BY <1>7
  <2>2. w = moved(u)
    BY <1>7 DEF Move
  <2> HIDE DEF t, w, moved, d
  <2>3. g \in v.names /\ g[1] = tp /\ g[2] = tn /\ g[3] = t /\ t \in Ids
    <3>1. PICK f \in v.names : f[1] = tp /\ f[2] = tn /\ f[3] = t
      BY <1>3, <2>1
    <3>2. f = <<f[1], f[2], f[3]>> /\ f[3] \in Ids
      BY <1>0 DEF IsVolume
    <3>3. QED
      BY <3>1, <3>2
  <2> HIDE DEF g
  <2>4. \A f \in v.names : f[1] = tp /\ f[2] = tn => f = g
    BY <1>0, <2>3 DEF Entries
  <2>5. At(v, tp, tn) = {t}
    BY <1>3, <2>1, <2>3, <2>4
  <2>6. t /= o /\ e /= g
    BY <1>7, <2>3, <2>5
  <2>7. Is(v, t, "file") /\ (t \in created => v.objects[t].links <= 1) /\ Is(v, o, "file")
    BY <1>7, <2>1, <2>6
  <2>8. /\ Good(u) /\ u.names = v.names \ {g}
        /\ \A x \in Ids \ {g[3]} : u.objects[x] = v.objects[x]
        /\ g[3] \in created => u.objects[g[3]] = None
        /\ g[3] \notin created => FileKept(v, u, g[3])
        /\ Directories(u) = Directories(v)
    <3>1. /\ g \in v.names /\ Is(v, g[3], "file")
          /\ g[3] \in created => v.objects[g[3]].links <= 1
      BY <2>3, <2>7
    <3>2. Unlinked(v, g, created, u)
      BY <3>1, UnlinkGood
    <3> HIDE DEF u
    <3>3. QED
      BY <3>2 DEF Unlinked
  <2> HIDE DEF u
  <2>9. IsVolume(u)
    BY <2>8, GoodParts
  <2>10. ~Is(u, o, "directory")
    BY <1>1, <2>3, <2>6, <2>7, <2>8 DEF Is
  <2>11. w.objects = u.objects
    BY <1>4, <2>2, <2>9
  <2>12. Good(w)
    <3>1. /\ DOMAIN w = DOMAIN u /\ w.next = u.next /\ w.parked = u.parked
          /\ w.names = (u.names \ {e}) \union {d}
      BY <1>4, <2>2, <2>9
    <3>2. e \in u.names /\ d[1] \in Directories(u)
      BY <1>2, <2>6, <2>8
    <3>3. \A f \in u.names : ~(f[1] = d[1] /\ f[2] = d[2])
      BY <1>2, <2>4, <2>8
    <3>4. QED
      BY <1>2, <2>8, <2>10, <2>11, <3>1, <3>2, <3>3, MovedGood
  <2>13. \A x \in Ids \ {t} : w.objects[x] = v.objects[x]
    BY <2>3, <2>8, <2>11
  <2>14. Spared(v, w, t, created)
    BY <2>3, <2>8, <2>11 DEF Spared, FileKept, Is
  <2>15. QED
    BY <2>5, <2>6, <2>12, <2>13, <2>14 DEF Spared, w, Renamed
<1>8. QED
  BY <1>5, <1>6, <1>7

(* A hard link is one more name and one more link.                         *)
LEMMA AddLinkGood ==
    ASSUME Bounds, NEW v, Good(v), NEW o \in Ids, Is(v, o, "file"), o \notin v.parked,
           NEW p \in Directories(v), NEW n \in Names, At(v, p, n) = {}
    PROVE  LET w == AddLink(v, o, p, n) IN
           /\ Good(w)
           /\ \A x \in Ids \ {o} : w.objects[x] = v.objects[x]
           /\ Is(w, o, "file") /\ w.objects[o].extents = v.objects[o].extents
<1> DEFINE w == AddLink(v, o, p, n)
           e == <<p, n, o>>
           y == [v.objects[o] EXCEPT !.links = @ + 1]
<1>0. /\ IsVolume(v) /\ Entries(v) /\ Tree(v)
      /\ \A x \in Ids : Linked(v, x) /\ Count(v.names, x) \in Nat
      /\ \A x \in Ids : v.objects[x].kind = "none" \/ x >= v.next => v.objects[x] = None
  BY GoodParts
<1>1. v.objects \in [Ids -> Object] /\ v.objects[o] \in Object /\ v.objects[o].kind = "file"
  BY <1>0 DEF IsVolume, Is
<1>2. /\ y \in Object /\ y.links = v.objects[o].links + 1 /\ y.kind = "file"
      /\ y.extents = v.objects[o].extents /\ y /= None
  BY <1>1 DEF Object, None
<1>3. /\ DOMAIN w = DOMAIN v /\ w.next = v.next /\ w.parked = v.parked
      /\ w.names = v.names \union {e} /\ w.objects = [v.objects EXCEPT ![o] = y]
  BY <1>0 DEF IsVolume, AddLink
<1> HIDE DEF w, y
<1>4. /\ w.objects \in [Ids -> Object] /\ w.objects[o] = y
      /\ \A x \in Ids \ {o} : w.objects[x] = v.objects[x]
  BY <1>1, <1>2, <1>3
<1>5. /\ e[1] = p /\ e[2] = n /\ e[3] = o /\ e \in ({Root} \union Ids) \X Names \X Ids
      /\ \A f \in v.names : ~(f[1] = p /\ f[2] = n)
  BY DEF At, Directories
<1> HIDE DEF e
<1>6. /\ IsFiniteSet(w.names) /\ Count(w.names, o) = Count(v.names, o) + 1
      /\ \A x \in Ids \ {o} : Count(w.names, x) = Count(v.names, x)
  <2>1. IsFiniteSet(v.names) /\ w.names = v.names \union {e} /\ e \notin v.names
    BY <1>0, <1>3, <1>5 DEF IsVolume
  <2>2. QED
    BY <1>5, <2>1, CountAdded
<1>7. \A x, k : Is(w, x, k) <=> Is(v, x, k)
  BY <1>1, <1>2, <1>4 DEF Is
<1>8. Directories(w) = Directories(v)
  BY <1>7 DEF Directories
<1>9. IsVolume(w)
  BY <1>0, <1>3, <1>4, <1>5, <1>6 DEF IsVolume
<1>10. Entries(w)
  <2>1. ASSUME NEW f \in w.names
        PROVE  f[1] \in Directories(w) /\ w.objects[f[3]] /= None
    <3>1. CASE f = e
      BY <1>2, <1>4, <1>5, <1>8, <3>1
    <3>2. CASE f \in v.names
      <4>1. f[3] \in Ids
        BY <1>0, <3>2 DEF IsVolume
      <4>2. QED
        BY <1>0, <1>2, <1>4, <1>8, <3>2, <4>1 DEF Entries
    <3>3. QED
      BY <1>3, <2>1, <3>1, <3>2
  <2>2. \A f, g \in w.names : f[1] = g[1] /\ f[2] = g[2] => f = g
    BY <1>0, <1>3, <1>5 DEF Entries
  <2>3. QED
    BY <2>1, <2>2 DEF Entries
<1>11. ASSUME NEW x \in Ids  PROVE Linked(w, x)
  <2>1. CASE x /= o
    <3>1. w.objects[x] = v.objects[x] /\ Count(w.names, x) = Count(v.names, x)
      BY <1>4, <1>6, <2>1
    <3>2. QED
      BY <1>0, <1>3, <1>7, <3>1 DEF Linked
  <2>2. CASE x = o
    <3>1. v.objects[o].links = Count(v.names, o) /\ Count(v.names, o) \in Nat
      BY <1>0 DEF Linked
    <3>2. ~Is(w, o, "directory")
      BY <1>2, <1>4 DEF Is
    <3>3. QED
      BY <1>2, <1>3, <1>4, <1>6, <2>2, <3>1, <3>2 DEF Linked
  <2>3. QED
    BY <2>1, <2>2
<1>12. Tree(w)
  <2>1. \A f : (f \in w.names /\ Is(w, f[3], "directory"))
                  <=> (f \in v.names /\ Is(v, f[3], "directory"))
    <3>1. ~Is(w, o, "directory")
      BY <1>2, <1>4 DEF Is
    <3>2. QED
      BY <1>3, <1>5, <1>7, <3>1
  <2>2. QED
    BY <1>0, <1>8, <2>1, TreeKept
<1>13. \A x \in Ids : w.objects[x].kind = "none" \/ x >= w.next => w.objects[x] = None
  <2>1. v.objects[o] /= None
    BY <1>1 DEF None
  <2>2. y.kind /= "none" /\ ~(o >= v.next)
    BY <1>0, <1>2, <2>1
  <2>3. ASSUME NEW x \in Ids, w.objects[x].kind = "none" \/ x >= w.next
        PROVE  w.objects[x] = None
    <3>1. CASE x = o
      BY <1>3, <1>4, <2>2, <2>3, <3>1
    <3>2. CASE x /= o
      BY <1>0, <1>3, <1>4, <2>3, <3>2
    <3>3. QED
      BY <3>1, <3>2
  <2>4. QED
    BY <2>3
<1>14. Good(w)
  BY <1>9, <1>10, <1>11, <1>12, <1>13, SoundParts DEF Good
<1>15. QED
  BY <1>2, <1>4, <1>14 DEF w, Is
=============================================================================
