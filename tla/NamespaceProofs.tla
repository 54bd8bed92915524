-------------------------- MODULE NamespaceProofs --------------------------
(***************************************************************************)
(* Proofs about Namespace, for any number of names, objects, handles,      *)
(* crashes and whatever budget cleanup has: names, link counts, orphans    *)
(* and the directory tree always agree, in the checkpoint and in the       *)
(* window, and no step takes anything from an open file.                   *)
(***************************************************************************)
EXTENDS NamespaceVolumes

(* Cleanup and writes, which change no name. *)

(* What changes no entry, no kind and no link count, except that orphans   *)
(* go, is good.                                                            *)
LEMMA OrphansGone ==
    ASSUME Bounds, NEW v, Good(v), NEW gone \in SUBSET v.parked,
           NEW w, DOMAIN w = DOMAIN v, w.next = v.next, w.names = v.names,
           w.parked = v.parked \ gone, w.objects \in [Ids -> Object],
           \A x \in gone : w.objects[x] = None,
           \A x \in Ids \ gone :
                /\ w.objects[x].kind = v.objects[x].kind
                /\ w.objects[x].links = v.objects[x].links
                /\ v.objects[x] = None => w.objects[x] = None
    PROVE  Good(w)
<1>0. /\ IsVolume(v) /\ Entries(v) /\ Tree(v)
      /\ \A x \in Ids : Linked(v, x) /\ Count(v.names, x) \in Nat
      /\ \A x \in Ids : v.objects[x].kind = "none" \/ x >= v.next => v.objects[x] = None
  BY GoodParts
<1>1. \A x \in gone : x \in Ids /\ Is(v, x, "file") /\ Count(v.names, x) = 0
  BY <1>0 DEF IsVolume, Linked
<1>2. \A x \in gone : \A f \in v.names : f[3] /= x
  BY <1>0, <1>1, CountZero DEF IsVolume
<1>3. \A x : Is(w, x, "directory") <=> Is(v, x, "directory")
  BY <1>1 DEF Is, None
<1>4. \A x \in Ids \ gone : Is(w, x, "file") <=> Is(v, x, "file")
  BY DEF Is
<1>5. Directories(w) = Directories(v)
  BY <1>3 DEF Directories
<1>6. IsVolume(w)
  BY <1>0 DEF IsVolume
<1>7. Entries(w)
  <2>1. ASSUME NEW f \in w.names
        PROVE  f[1] \in Directories(w) /\ w.objects[f[3]] /= None
    <3>1. f[3] \in Ids \ gone /\ v.objects[f[3]] /= None /\ f[1] \in Directories(v)
      BY <1>0, <1>2, <2>1 DEF IsVolume, Entries
    <3>2. v.objects[f[3]].kind /= "none"
      BY <1>0, <3>1
    <3>3. QED
      BY <1>5, <3>1, <3>2 DEF None
  <2>2. QED
    BY <1>0, <2>1 DEF Entries
<1>8. ASSUME NEW x \in Ids  PROVE Linked(w, x)
  <2>1. CASE x \in gone
    BY <1>1, <1>3, <2>1 DEF Linked, None, Is
  <2>2. CASE x \notin gone
    <3>1. Linked(v, x) /\ (x \in w.parked <=> x \in v.parked)
      BY <1>0, <2>2
    <3>2. QED
      BY <1>3, <1>4, <2>2, <3>1 DEF Linked
  <2>3. QED
    BY <2>1, <2>2
<1>9. Tree(w)
  BY <1>0, <1>3, <1>5, TreeKept
<1>10. \A x \in Ids : w.objects[x].kind = "none" \/ x >= w.next => w.objects[x] = None
  BY <1>0
<1>11. QED
  BY <1>6, <1>7, <1>8, <1>9, <1>10, SoundParts DEF Good

(* The extents before an orphan are a number.                              *)
LEMMA BeforeNat ==
    ASSUME Bounds, NEW v, NEW page \in SUBSET Ids, NEW o
    PROVE  Before(v, page, o) \in Nat
<1> DEFINE P == page \X (1 .. MaxExtents)
           B == {x \in P : x[1] < o /\ x[2] <= v.objects[x[1]].extents}
<1>1. IsFiniteSet(page) /\ IsFiniteSet(1 .. MaxExtents)
  <2>1. MaxObjects \in Int /\ MaxExtents \in Int /\ 1 \in Int
    BY DEF Bounds
  <2>2. IsFiniteSet(Ids) /\ IsFiniteSet(1 .. MaxExtents)
    BY <2>1, FS_Interval DEF Ids
  <2>3. QED
    BY <2>2, FS_Subset
<1>2. IsFiniteSet(P)
  BY <1>1, FS_Product, Zenon
<1>3. IsFiniteSet(B)
  BY <1>2, FS_Subset
<1>4. QED
  BY <1>3, FS_CardinalityType DEF Before

(* Cleanup of a page of orphans touches nothing else.                      *)
LEMMA ReleaseGood ==
    ASSUME Bounds, NEW v, Good(v), NEW page \in SUBSET v.parked, NEW budget \in Int
    PROVE  /\ Good(Release(v, page, budget))
           /\ \A x \in Ids \ page : Release(v, page, budget).objects[x] = v.objects[x]
<1> DEFINE w == Release(v, page, budget)
           left(o) == budget - Before(v, page, o)
           gone == {o \in page : left(o) > 0 /\ v.objects[o].extents <= left(o)}
           rest(o) == IF o \in gone THEN None
                      ELSE IF o \in page /\ left(o) > 0
                      THEN [v.objects[o] EXCEPT !.extents = @ - left(o)]
                      ELSE v.objects[o]
<1>0. IsVolume(v) /\ \A x \in Ids : Linked(v, x)
  BY GoodParts
<1>1. page \in SUBSET Ids /\ gone \in SUBSET v.parked
  BY <1>0 DEF IsVolume
<1>2. /\ DOMAIN w = DOMAIN v /\ w.next = v.next /\ w.names = v.names
      /\ w.parked = v.parked \ gone /\ w.objects = [o \in Ids |-> rest(o)]
  BY <1>0 DEF Release, IsVolume
<1>3. ASSUME NEW o \in Ids
      PROVE  /\ rest(o) \in Object
             /\ o \notin gone => /\ rest(o).kind = v.objects[o].kind
                                 /\ rest(o).links = v.objects[o].links
             /\ o \notin page => rest(o) = v.objects[o]
  <2>1. left(o) \in Int
    BY <1>1, BeforeNat
  <2>2. v.objects[o] \in Object /\ None \in Object
    BY <1>0 DEF IsVolume, None, Object
  <2>3. o \in gone <=> o \in page /\ left(o) > 0 /\ v.objects[o].extents <= left(o)
    OBVIOUS
  <2> HIDE DEF gone, left
  <2>4. CASE o \in gone
    BY <2>2, <2>3, <2>4
  <2>5. CASE o \notin gone /\ o \in page /\ left(o) > 0
    <3> DEFINE y == [v.objects[o] EXCEPT !.extents = @ - left(o)]
    <3>1. ~(v.objects[o].extents <= left(o))
      BY <2>3, <2>5
    <3>2. y \in Object /\ y.kind = v.objects[o].kind /\ y.links = v.objects[o].links
      BY <2>1, <2>2, <3>1 DEF Object
    <3>3. rest(o) = y
      BY <2>5
    <3>4. QED
      BY <2>5, <3>2, <3>3
  <2>6. CASE o \notin gone /\ ~(o \in page /\ left(o) > 0)
    BY <2>2, <2>6
  <2>7. QED
    BY <2>4, <2>5, <2>6
<1>4. \A o \in page : Is(v, o, "file") /\ v.objects[o] /= None
  BY <1>0, <1>1 DEF Linked, Is, None
<1>5. \A o \in gone : o \in page /\ rest(o) = None
  OBVIOUS
<1> HIDE DEF w, rest, gone
<1>6. /\ w.objects \in [Ids -> Object]
      /\ \A x \in gone : w.objects[x] = None
      /\ \A x \in Ids \ gone :
                /\ w.objects[x].kind = v.objects[x].kind
                /\ w.objects[x].links = v.objects[x].links
                /\ v.objects[x] = None => w.objects[x] = None
      /\ \A x \in Ids \ page : w.objects[x] = v.objects[x]
  BY <1>1, <1>2, <1>3, <1>4, <1>5
<1>7. Good(w)
  BY <1>1, <1>2, <1>6, OrphansGone
<1>8. QED
  BY <1>6, <1>7 DEF w

(* A write adds an extent to a file and changes nothing else.              *)
LEMMA WriteGood ==
    ASSUME Bounds, NEW v, Good(v), NEW o \in Ids, Is(v, o, "file")
    PROVE  LET w == [v EXCEPT !.objects[o].extents = @ + 1] IN
           /\ Good(w)
           /\ \A x \in Ids \ {o} : w.objects[x] = v.objects[x]
           /\ Is(w, o, "file") /\ w.objects[o].links = v.objects[o].links
           /\ w.objects[o].extents = v.objects[o].extents + 1
<1> DEFINE w == [v EXCEPT !.objects[o].extents = @ + 1]
           y == [v.objects[o] EXCEPT !.extents = @ + 1]
<1>0. IsVolume(v)
  BY GoodParts
<1>1. v.objects \in [Ids -> Object] /\ v.objects[o] \in Object /\ v.objects[o].kind = "file"
  BY <1>0 DEF IsVolume, Is
<1>2. /\ y \in Object /\ y.links = v.objects[o].links /\ y.kind = "file"
      /\ y.extents = v.objects[o].extents + 1
  BY <1>1 DEF Object
<1>3. /\ DOMAIN w = DOMAIN v /\ w.next = v.next /\ w.parked = v.parked
      /\ w.names = v.names /\ w.objects = [v.objects EXCEPT ![o] = y]
  BY <1>0 DEF IsVolume
<1> HIDE DEF w, y
<1>4. /\ w.objects \in [Ids -> Object] /\ w.objects[o] = y
      /\ \A x \in Ids \ {o} : w.objects[x] = v.objects[x]
  BY <1>1, <1>2, <1>3
<1>5. Good(w)
  <2>1. \A x \in Ids :
            /\ w.objects[x].kind = v.objects[x].kind
            /\ w.objects[x].links = v.objects[x].links
            /\ v.objects[x] = None => w.objects[x] = None
    BY <1>1, <1>2, <1>4 DEF None
  <2> DEFINE none == {}
  <2>2. none \in SUBSET v.parked /\ w.parked = v.parked \ none /\ \A x \in none : FALSE
    BY <1>3
  <2> HIDE DEF none
  <2>3. QED
    BY <1>3, <1>4, <2>1, <2>2, OrphansGone, ZenonT(30)
<1>6. QED
  BY <1>1, <1>2, <1>4, <1>5 DEF w, Is

-----------------------------------------------------------------------------
(* The invariant. *)

(* The inductive invariant.  A file that the window created has one name,  *)
(* so that unlinking it in the window may drop it; and what a handle holds *)
(* is a file.                                                              *)
NInv ==
    /\ Good(disk) /\ Good(view)
    /\ handles \in [Ids -> Nat]
    /\ \A o \in Held : Is(view, o, "file")
    /\ \A o \in CreatedInWindow : view.objects[o].links <= 1

(* Cleanup leaves what handles hold alone.                                 *)
LEMMA CleanupGood ==
    ASSUME Bounds, NEW v, Good(v), NEW held, NEW max \in Nat
    PROVE  /\ Good(CleanupOrphans(v, held, max))
           /\ \A x \in Ids \cap held : CleanupOrphans(v, held, max).objects[x] = v.objects[x]
<1> DEFINE page == {o \in v.parked : Cardinality({p \in v.parked : p < o}) < max} \ held
<1>1. page \in SUBSET v.parked /\ page \cap held = {}
  OBVIOUS
<1>2. CleanupOrphans(v, held, max) = Release(v, page, Budget * max)
  BY DEF CleanupOrphans
<1>3. Budget * max \in Int
  BY DEF Bounds
<1> HIDE DEF page
<1>4. QED
  BY <1>1, <1>2, <1>3, ReleaseGood

(* What an open file has, it keeps from one volume to the next.            *)
Keeps(v, w, x) == Is(w, x, "file") /\ v.objects[x].extents <= w.objects[x].extents

LEMMA ReleasedGood ==
    ASSUME Bounds, NEW v, Good(v)
    PROVE  Good(Released(v)) /\ \A x \in Held : Released(v).objects[x] = v.objects[x]
BY CleanupGood DEF Released, Held, Bounds

(* A commit of a good volume in which what is open is a file.              *)
LEMMA Published ==
    ASSUME Bounds, NEW w, Good(w), Publish(w), handles' \in [Ids -> Nat],
           \A o \in Ids : handles'[o] > 0 => Is(w, o, "file")
    PROVE  NInv'
<1>1. disk' = w /\ view' = w
  BY DEF Publish
<1>2. Good(disk)' /\ Good(view)'
  BY <1>1
<1>3. \A o \in Ids : w.objects[o] = None => w.objects[o].links <= 1
  BY DEF None
<1>4. QED
  BY <1>1, <1>2, <1>3 DEF NInv, Held, CreatedInWindow, Is

(* A change staged in the window.                                          *)
LEMMA Staged ==
    ASSUME Bounds, NInv, NEW w, Good(w), Stage(w), handles' = handles,
           \A o \in Held : Is(w, o, "file"),
           \A o \in CreatedInWindow : w.objects[o].links <= 1
    PROVE  NInv'
<1>1. disk' = disk /\ view' = w
  BY DEF Stage
<1>2. Good(disk)' /\ Good(view)'
  BY <1>1 DEF NInv
<1>3. QED
  BY <1>1, <1>2 DEF NInv, Held, CreatedInWindow, Is

(* What a step does to the files that are open.                            *)
StepKeeps ==
    \A o \in Ids : handles[o] > 0 /\ handles'[o] > 0 => Keeps(view, view', o)

LEMMA Same ==
    ASSUME NEW v, NEW w, NEW x \in Ids, IsVolume(v), Is(v, x, "file"),
           w.objects[x] = v.objects[x]
    PROVE  Keeps(v, w, x)
BY DEF Keeps, Is, IsVolume, Object

LEMMA CreateObjectStep ==
    ASSUME Bounds, NInv, CreateObject  PROVE NInv' /\ StepKeeps
<1>1. PICK p \in Directories(view), n \in Names, object \in {NewFile, NewDirectory} :
        /\ At(view, p, n) = {} /\ view.next \in Ids
        /\ IF delayed THEN Stage(Create(view, p, n, object))
           ELSE Publish(Create(view, p, n, object))
        /\ Quietly
  BY DEF CreateObject
<1> DEFINE w == Create(view, p, n, object)
<1>2. /\ Good(view) /\ IsVolume(view)
      /\ \A o \in Ids : view.objects[o].kind = "none" \/ o >= view.next => view.objects[o] = None
  BY GoodParts DEF NInv
<1>3. /\ Good(w) /\ w.objects[view.next] = object
      /\ \A o \in Ids \ {view.next} : w.objects[o] = view.objects[o]
  BY <1>1, <1>2, CreateGood
<1>4. view.objects[view.next] = None
  BY <1>1, <1>2 DEF Ids
<1>5. \A o \in Held : o \in Ids /\ o /= view.next /\ Is(view, o, "file")
  BY <1>4 DEF NInv, Held, Is, None
<1>6. \A o \in Held : Is(w, o, "file") /\ Keeps(view, w, o)
  BY <1>2, <1>3, <1>5, Same DEF Keeps
<1>7. \A o \in CreatedInWindow : w.objects[o].links <= 1
  <2>1. object.links = 1
    BY DEF NewFile, NewDirectory
  <2>2. QED
    BY <1>3, <2>1 DEF NInv, CreatedInWindow
<1>8. handles' = handles /\ view' = w /\ handles \in [Ids -> Nat]
  BY <1>1 DEF Quietly, Stage, Publish, NInv
<1>9. NInv'
  <2> HIDE DEF w
  <2>1. CASE delayed
    <3>1. Stage(w)
      BY <1>1, <2>1 DEF w
    <3>2. QED
      BY <1>3, <1>6, <1>7, <1>8, <3>1, Staged
  <2>2. CASE ~delayed
    <3>1. Publish(w)
      BY <1>1, <2>2 DEF w
    <3>2. QED
      BY <1>3, <1>6, <1>8, <3>1, Published DEF Held
  <2>3. QED
    BY <2>1, <2>2
<1>10. QED
  <2> HIDE DEF w
  <2>1. QED
    BY <1>6, <1>8, <1>9 DEF StepKeeps, Held

LEMMA UnlinkFileStep ==
    ASSUME Bounds, NInv, UnlinkFile  PROVE NInv' /\ StepKeeps
<1>1. PICK e \in view.names :
        /\ Is(view, e[3], "file")
        /\ IF delayed /\ e[3] \notin Held
           THEN Stage(Unlink(view, e[1], e[2], e[3], CreatedInWindow))
           ELSE Publish(Released(Unlink(view, e[1], e[2], e[3], {})))
        /\ Quietly
  BY DEF UnlinkFile
<1>2. Good(view) /\ IsVolume(view) /\ handles \in [Ids -> Nat] /\ handles' = handles
  BY <1>1, GoodParts DEF NInv, Quietly
<1>3. \A o \in Held : o \in Ids /\ Is(view, o, "file")
  BY DEF NInv, Held
<1>4. CASE delayed /\ e[3] \notin Held
  <2> DEFINE w == Unlink(view, e[1], e[2], e[3], CreatedInWindow)
  <2>1. Stage(w)
    BY <1>1, <1>4
  <2>2. e[3] \in CreatedInWindow => view.objects[e[3]].links <= 1
    BY DEF NInv
  <2>3. /\ Good(w)
        /\ \A x \in Ids \ {e[3]} : w.objects[x] = view.objects[x]
        /\ e[3] \in CreatedInWindow => w.objects[e[3]] = None
    <3>1. Good(view) /\ e \in view.names /\ Is(view, e[3], "file")
      BY <1>1, <1>2
    <3>2. Unlinked(view, e, CreatedInWindow, w)
      BY <2>2, <3>1, UnlinkGood
    <3> HIDE DEF w
    <3>3. QED
      BY <3>2 DEF Unlinked
  <2> HIDE DEF w
  <2>4. \A o \in Held : Is(w, o, "file") /\ Keeps(view, w, o)
    BY <1>2, <1>3, <1>4, <2>3, Same DEF Keeps
  <2>5. \A o \in CreatedInWindow : w.objects[o].links <= 1
    BY <2>3 DEF NInv, CreatedInWindow, None
  <2>6. NInv'
    BY <1>2, <2>1, <2>3, <2>4, <2>5, Staged
  <2>7. QED
    BY <1>2, <2>1, <2>4, <2>6 DEF StepKeeps, Held, Stage
<1>5. CASE ~(delayed /\ e[3] \notin Held)
  <2> DEFINE none == {}
             u == Unlink(view, e[1], e[2], e[3], none)
             w == Released(u)
  <2>1. Publish(w)
    BY <1>1, <1>5
  <2>2. /\ Good(u)
        /\ \A x \in Ids \ {e[3]} : u.objects[x] = view.objects[x]
        /\ FileKept(view, u, e[3])
    <3>1. Good(view) /\ e \in view.names /\ Is(view, e[3], "file") /\ e[3] \notin none
      BY <1>1, <1>2
    <3> HIDE DEF none
    <3>2. Unlinked(view, e, none, u)
      BY <3>1, UnlinkGood
    <3> HIDE DEF u
    <3>3. QED
      BY <3>1, <3>2 DEF Unlinked
  <2> HIDE DEF u
  <2>3. Good(w) /\ \A x \in Held : w.objects[x] = u.objects[x]
    BY <2>2, ReleasedGood
  <2> HIDE DEF w
  <2>4. ASSUME NEW o \in Held  PROVE Keeps(view, w, o)
    <3>1. CASE o /= e[3]
      BY <1>2, <1>3, <2>2, <2>3, <2>4, <3>1, Same
    <3>2. CASE o = e[3]
      <4>1. view.objects[o].extents \in Nat
        BY <1>2, <1>3, <2>4 DEF IsVolume, Object
      <4>2. QED
        BY <2>2, <2>3, <2>4, <3>2, <4>1 DEF FileKept, Keeps, Is
    <3>3. QED
      BY <3>1, <3>2
  <2>5. NInv'
    BY <1>2, <2>1, <2>3, <2>4, Published DEF Held, Keeps
  <2>6. QED
    BY <1>2, <2>1, <2>4, <2>5 DEF StepKeeps, Held, Publish
<1>6. QED
  BY <1>4, <1>5

LEMMA RemoveDirectoryStep ==
    ASSUME Bounds, NInv, RemoveDirectory  PROVE NInv' /\ StepKeeps
<1>1. PICK e \in view.names :
        /\ Is(view, e[3], "directory") /\ \A f \in view.names : f[1] /= e[3]
        /\ IF delayed THEN Stage(RemoveEmpty(view, e[1], e[2], e[3]))
           ELSE Publish(Released(RemoveEmpty(view, e[1], e[2], e[3])))
        /\ Quietly
  BY DEF RemoveDirectory
<1> DEFINE u == RemoveEmpty(view, e[1], e[2], e[3])
<1>2. Good(view) /\ IsVolume(view) /\ handles \in [Ids -> Nat] /\ handles' = handles
  BY <1>1, GoodParts DEF NInv, Quietly
<1>3. \A o \in Held : o \in Ids /\ o /= e[3] /\ Is(view, o, "file")
  BY <1>1 DEF NInv, Held, Is
<1>4. /\ Good(u) /\ u.objects[e[3]] = None
      /\ \A x \in Ids \ {e[3]} : u.objects[x] = view.objects[x]
  BY <1>1, <1>2, RemoveEmptyGood
<1>5. IF delayed THEN Stage(u) ELSE Publish(Released(u))
  BY <1>1
<1> HIDE DEF u
<1>6. CASE delayed
  <2>1. \A o \in Held : Is(u, o, "file") /\ Keeps(view, u, o)
    BY <1>2, <1>3, <1>4, Same DEF Keeps
  <2>2. \A o \in CreatedInWindow : u.objects[o].links <= 1
    BY <1>4 DEF NInv, CreatedInWindow, None
  <2>3. NInv'
    BY <1>2, <1>4, <1>5, <1>6, <2>1, <2>2, Staged
  <2>4. QED
    BY <1>2, <1>5, <1>6, <2>1, <2>3 DEF StepKeeps, Held, Stage
<1>7. CASE ~delayed
  <2> DEFINE w == Released(u)
  <2>1. Publish(w)
    BY <1>5, <1>7
  <2>2. Good(w) /\ \A x \in Held : w.objects[x] = u.objects[x]
    BY <1>4, ReleasedGood
  <2> HIDE DEF w
  <2>3. \A o \in Held : Keeps(view, w, o)
    BY <1>2, <1>3, <1>4, <2>2, Same
  <2>4. NInv'
    BY <1>2, <2>1, <2>2, <2>3, Published DEF Held, Keeps
  <2>5. QED
    BY <1>2, <2>1, <2>3, <2>4 DEF StepKeeps, Held, Publish
<1>8. QED
  BY <1>6, <1>7

LEMMA RenameStep ==
    ASSUME Bounds, NInv, Rename  PROVE NInv' /\ StepKeeps
<1>1. PICK e \in view.names, tp \in Directories(view), tn \in Names, replace \in BOOLEAN :
        LET target == At(view, tp, tn) \ {e[3]} file == Is(view, e[3], "file") IN
        /\ <<tp, tn>> /= <<e[1], e[2]>>
        /\ At(view, tp, tn) /= {} =>
              replace /\ file /\ \A t \in target : Is(view, t, "file")
        /\ IF delayed /\ file /\ target \cap Held = {}
           THEN Stage(Move(view, e[1], e[2], e[3], tp, tn, CreatedInWindow))
           ELSE /\ ~(~file /\ Reaches(view, e[3], tp))
                /\ Publish(Move(view, e[1], e[2], e[3], tp, tn, {}))
        /\ Quietly
  BY DEF Rename
<1> DEFINE target == At(view, tp, tn) \ {e[3]}
           file == Is(view, e[3], "file")
<1>2. Good(view) /\ IsVolume(view) /\ handles \in [Ids -> Nat] /\ handles' = handles
  BY <1>1, GoodParts DEF NInv, Quietly
<1>3. \A o \in Held : o \in Ids /\ Is(view, o, "file")
  BY DEF NInv, Held
<1>4. /\ <<tp, tn>> /= <<e[1], e[2]>>
      /\ At(view, tp, tn) /= {} => file
      /\ \A t \in target : Is(view, t, "file")
  BY <1>1
<1>5. CASE delayed /\ file /\ target \cap Held = {}
  <2> DEFINE w == Move(view, e[1], e[2], e[3], tp, tn, CreatedInWindow)
  <2>1. Stage(w)
    BY <1>1, <1>5
  <2>2. \A t \in target : t \in CreatedInWindow => view.objects[t].links <= 1
    BY DEF NInv
  <2>3. Is(view, e[3], "directory") => ~Reaches(view, e[3], tp)
    BY <1>5 DEF Is
  <2>4. /\ Good(w)
        /\ \A x \in Ids : x \notin target => w.objects[x] = view.objects[x]
        /\ \A x \in Ids : Spared(view, w, x, CreatedInWindow)
    <3>1. Renamed(view, e[3], tp, tn, CreatedInWindow, w)
      BY <1>2, <1>4, <2>2, <2>3, MoveGood
    <3> HIDE DEF w
    <3>2. QED
      BY <3>1 DEF Renamed
  <2> HIDE DEF w
  <2>5. \A o \in Held : Is(w, o, "file") /\ Keeps(view, w, o)
    BY <1>2, <1>3, <1>5, <2>4, Same DEF Keeps
  <2>6. ASSUME NEW o \in CreatedInWindow  PROVE w.objects[o].links <= 1
    <3>1. o \in Ids /\ view.objects[o].links <= 1
      BY <2>6 DEF NInv, CreatedInWindow
    <3>2. w.objects[o] = view.objects[o] \/ w.objects[o] = None
      BY <2>4, <2>6, <3>1 DEF Spared
    <3>3. QED
      BY <3>1, <3>2 DEF None
  <2>7. NInv'
    BY <1>2, <2>1, <2>4, <2>5, <2>6, Staged
  <2>8. QED
    BY <1>2, <2>1, <2>5, <2>7 DEF StepKeeps, Held, Stage
<1>6. CASE ~(delayed /\ file /\ target \cap Held = {})
  <2> DEFINE none == {}
             w == Move(view, e[1], e[2], e[3], tp, tn, none)
  <2>1. Publish(w) /\ ~(~file /\ Reaches(view, e[3], tp))
    BY <1>1, <1>6
  <2>2. \A t \in target : t \in none => view.objects[t].links <= 1
    OBVIOUS
  <2>3. Is(view, e[3], "directory") => ~Reaches(view, e[3], tp)
    BY <2>1 DEF Is
  <2>4. Good(w) /\ \A x \in Ids : w.objects[x] = view.objects[x] \/ FileKept(view, w, x)
    <3>1. Renamed(view, e[3], tp, tn, none, w)
      <4> HIDE DEF none
      <4>1. QED
        BY <1>2, <1>4, <2>2, <2>3, MoveGood
    <3> HIDE DEF w
    <3>2. QED
      BY <3>1 DEF Renamed, Spared
  <2> HIDE DEF w
  <2>5. ASSUME NEW o \in Held  PROVE Keeps(view, w, o)
    <3>1. o \in Ids /\ Is(view, o, "file") /\ view.objects[o].extents \in Nat
      BY <1>2, <1>3, <2>5 DEF IsVolume, Object
    <3>2. w.objects[o] = view.objects[o] \/ FileKept(view, w, o)
      BY <2>4, <3>1
    <3>3. QED
      BY <1>2, <3>1, <3>2, Same DEF FileKept, Keeps
  <2>6. NInv'
    BY <1>2, <2>1, <2>4, <2>5, Published DEF Held, Keeps
  <2>7. QED
    BY <1>2, <2>1, <2>5, <2>6 DEF StepKeeps, Held, Publish
<1>7. QED
  BY <1>5, <1>6

LEMMA LinkFileStep ==
    ASSUME Bounds, NInv, LinkFile  PROVE NInv' /\ StepKeeps
<1>1. PICK o \in Ids, p \in Directories(view), n \in Names :
        /\ Is(view, o, "file") /\ o \notin view.parked /\ At(view, p, n) = {}
        /\ Publish(AddLink(view, o, p, n))
        /\ Quietly
  BY DEF LinkFile
<1> DEFINE w == AddLink(view, o, p, n)
<1>2. Good(view) /\ IsVolume(view) /\ handles \in [Ids -> Nat] /\ handles' = handles
  BY <1>1, GoodParts DEF NInv, Quietly
<1>3. \A x \in Held : x \in Ids /\ Is(view, x, "file")
  BY DEF NInv, Held
<1>4. /\ Good(w)
      /\ \A x \in Ids \ {o} : w.objects[x] = view.objects[x]
      /\ Is(w, o, "file") /\ w.objects[o].extents = view.objects[o].extents
  BY <1>1, <1>2, AddLinkGood
<1>5. Publish(w)
  BY <1>1
<1> HIDE DEF w
<1>6. ASSUME NEW x \in Held  PROVE Keeps(view, w, x)
  <2>1. view.objects[o].extents \in Nat
    BY <1>2 DEF IsVolume, Object
  <2>2. QED
    BY <1>2, <1>3, <1>4, <1>6, <2>1, Same DEF Keeps
<1>7. NInv'
  BY <1>2, <1>4, <1>5, <1>6, Published DEF Held, Keeps
<1>8. QED
  BY <1>2, <1>5, <1>6, <1>7 DEF StepKeeps, Held, Publish

LEMMA OpenFileStep ==
    ASSUME Bounds, NInv, OpenFile  PROVE NInv' /\ StepKeeps
<1>1. PICK o \in Ids :
        /\ Is(view, o, "file") /\ handles' = [handles EXCEPT ![o] = @ + 1]
        /\ disk' = disk /\ view' = view
  BY Zenon DEF OpenFile
<1>2. IsVolume(view) /\ handles \in [Ids -> Nat] /\ \A x \in Ids : handles[x] > 0 => Is(view, x, "file")
  BY GoodParts DEF NInv, Held
<1>3. handles' \in [Ids -> Nat] /\ \A x \in Ids : handles'[x] > 0 => Is(view, x, "file")
  BY <1>1, <1>2
<1>4. Good(disk)' /\ Good(view)'
  BY <1>1 DEF NInv
<1>5. NInv'
  BY <1>1, <1>3, <1>4 DEF NInv, Held, CreatedInWindow, Is
<1>6. \A x \in Ids : handles[x] > 0 => Keeps(view, view', x)
  BY <1>1, <1>2, Same
<1>7. QED
  BY <1>5, <1>6 DEF StepKeeps

LEMMA WriteFileStep ==
    ASSUME Bounds, NInv, WriteFile  PROVE NInv' /\ StepKeeps
<1>1. PICK o \in Held : Stage([view EXCEPT !.objects[o].extents = @ + 1]) /\ Quietly
  BY Zenon DEF WriteFile
<1> DEFINE w == [view EXCEPT !.objects[o].extents = @ + 1]
<1>2. Good(view) /\ IsVolume(view) /\ handles \in [Ids -> Nat] /\ handles' = handles
  BY <1>1, GoodParts DEF NInv, Quietly
<1>3. \A x \in Held : x \in Ids /\ Is(view, x, "file")
  BY DEF NInv, Held
<1>4. /\ Good(w)
      /\ \A x \in Ids \ {o} : w.objects[x] = view.objects[x]
      /\ Is(w, o, "file") /\ w.objects[o].links = view.objects[o].links
      /\ w.objects[o].extents = view.objects[o].extents + 1
  BY <1>2, <1>3, WriteGood
<1>5. Stage(w)
  BY <1>1
<1> HIDE DEF w
<1>6. \A x \in Held : Is(w, x, "file") /\ Keeps(view, w, x)
  <2>1. view.objects[o].extents \in Nat
    BY <1>2, <1>3 DEF IsVolume, Object
  <2>2. QED
    BY <1>2, <1>3, <1>4, <2>1, Same DEF Keeps
<1>7. \A x \in CreatedInWindow : w.objects[x].links <= 1
  BY <1>4 DEF NInv, CreatedInWindow
<1>8. NInv'
  BY <1>2, <1>4, <1>5, <1>6, <1>7, Staged
<1>9. QED
  BY <1>2, <1>5, <1>6, <1>8 DEF StepKeeps, Held, Stage

LEMMA CloseFileStep ==
    ASSUME Bounds, NInv, CloseFile  PROVE NInv' /\ StepKeeps
<1>1. PICK o \in Held :
        /\ handles' = [handles EXCEPT ![o] = @ - 1]
        /\ IF handles[o] > 1 \/ (delayed /\ o \notin disk.parked) THEN UNCHANGED <<disk, view>>
           ELSE Publish(IF inline THEN CleanupOrphan(view, o) ELSE view)
  BY Zenon DEF CloseFile
<1>2. Good(view) /\ IsVolume(view) /\ handles \in [Ids -> Nat] /\ o \in Ids /\ handles[o] > 0
  BY GoodParts DEF NInv, Held
<1>3. \A x \in Ids : handles[x] > 0 => Is(view, x, "file")
  BY DEF NInv, Held
<1>4. /\ handles' \in [Ids -> Nat]
      /\ \A x \in Ids : handles'[x] > 0 => handles[x] > 0
      /\ handles[o] = 1 => handles'[o] = 0
  BY <1>1, <1>2
<1>5. CASE UNCHANGED <<disk, view>>
  <2>1. Good(disk)' /\ Good(view)'
    BY <1>5 DEF NInv
  <2>2. NInv'
    BY <1>3, <1>4, <1>5, <2>1 DEF NInv, Held, CreatedInWindow, Is
  <2>3. QED
    BY <1>2, <1>3, <1>5, <2>2, Same DEF StepKeeps
<1>6. CASE handles[o] = 1 /\ Publish(IF inline THEN CleanupOrphan(view, o) ELSE view)
  <2> DEFINE w == IF inline THEN CleanupOrphan(view, o) ELSE view
  <2>1. Good(w) /\ \A x \in Ids \ {o} : w.objects[x] = view.objects[x]
    <3>1. CASE inline /\ o \in view.parked
      <4>1. w = Release(view, {o}, Budget) /\ {o} \in SUBSET view.parked /\ Budget \in Int
        BY <3>1 DEF CleanupOrphan, Bounds
      <4> HIDE DEF w
      <4>2. QED
        BY <1>2, <4>1, ReleaseGood, Zenon
    <3>2. CASE ~(inline /\ o \in view.parked)
      BY <1>2, <3>2 DEF CleanupOrphan
    <3>3. QED
      BY <3>1, <3>2
  <2>2. Publish(w)
    BY <1>6
  <2> HIDE DEF w
  <2>3. \A x \in Ids : handles'[x] > 0 => Keeps(view, w, x)
    BY <1>2, <1>3, <1>4, <1>6, <2>1, Same
  <2>4. NInv'
    BY <1>4, <2>1, <2>2, <2>3, Published DEF Keeps
  <2>5. QED
    BY <2>2, <2>3, <2>4 DEF StepKeeps, Publish
<1>7. QED
  BY <1>1, <1>2, <1>5, <1>6

(* The window is committed as it is.                                       *)
LEMMA CommitStep ==
    ASSUME Bounds, NInv, Publish(view), handles' = handles  PROVE NInv' /\ StepKeeps
<1>1. Good(view) /\ IsVolume(view) /\ handles \in [Ids -> Nat]
  BY GoodParts DEF NInv
<1>2. \A x \in Ids : handles[x] > 0 => Is(view, x, "file")
  BY DEF NInv, Held
<1>3. NInv'
  BY <1>1, <1>2, Published
<1>4. QED
  BY <1>1, <1>2, <1>3, Same DEF StepKeeps, Publish

LEMMA MaintainStep ==
    ASSUME Bounds, NInv, Maintain  PROVE NInv' /\ StepKeeps
<1> DEFINE w == CleanupOrphans(view, Held, OrphansPerBatch)
<1>1. Publish(w) /\ handles' = handles
  BY DEF Maintain, Quietly
<1>2. Good(view) /\ IsVolume(view) /\ handles \in [Ids -> Nat]
  BY GoodParts DEF NInv
<1>3. \A x \in Held : x \in Ids /\ Is(view, x, "file")
  BY DEF NInv, Held
<1>4. Good(w) /\ \A x \in Ids \cap Held : w.objects[x] = view.objects[x]
  BY <1>2, CleanupGood DEF Bounds
<1> HIDE DEF w
<1>5. \A x \in Held : Keeps(view, w, x)
  BY <1>2, <1>3, <1>4, Same
<1>6. NInv'
  BY <1>1, <1>2, <1>4, <1>5, Published DEF Held, Keeps
<1>7. QED
  BY <1>1, <1>5, <1>6 DEF StepKeeps, Held, Publish

(* Steps that leave volume and handles alone, and a crash.                 *)
LEMMA QuietStep ==
    ASSUME Bounds, NInv, UNCHANGED <<disk, view, handles>>  PROVE NInv' /\ StepKeeps
<1>1. IsVolume(view) /\ \A x \in Ids : handles[x] > 0 => Is(view, x, "file")
  BY GoodParts DEF NInv, Held
<1>2. Good(disk)' /\ Good(view)'
  BY DEF NInv
<1>3. NInv'
  BY <1>2 DEF NInv, Held, CreatedInWindow, Is
<1>4. QED
  BY <1>1, <1>3, Same DEF StepKeeps

LEMMA CrashStep ==
    ASSUME Bounds, NInv, Crash  PROVE NInv' /\ StepKeeps
<1>1. disk' = disk /\ view' = disk /\ handles' = [o \in Ids |-> 0]
  BY DEF Crash
<1>2. Good(disk)' /\ Good(view)'
  BY <1>1 DEF NInv
<1>3. \A o \in Ids : disk.objects[o] = None => disk.objects[o].links <= 1
  BY DEF None
<1>4. NInv'
  BY <1>1, <1>2, <1>3 DEF NInv, Held, CreatedInWindow
<1>5. QED
  BY <1>1, <1>4 DEF StepKeeps

LEMMA NInvInit ==
    ASSUME Bounds, Init  PROVE NInv
<1> DEFINE v == [objects |-> [o \in Ids |-> None], next |-> 1, names |-> {}, parked |-> {}]
<1>1. disk = v /\ view = v /\ handles = [o \in Ids |-> 0]
  BY DEF Init
<1>2. IsVolume(v)
  BY FS_EmptySet DEF IsVolume, Object, None
<1>3. /\ v.names = {} /\ v.parked = {}
      /\ \A o \in Ids : v.objects[o] = None /\ ~Is(v, o, "directory")
  BY DEF None, Is
<1> HIDE DEF v
<1>count. \A o \in Ids : Count(v.names, o) = 0
  BY <1>2, <1>3, CountZero DEF IsVolume
<1>4. Entries(v) /\ (\A o \in Ids : Linked(v, o)) /\ Tree(v)
  BY <1>3, <1>count DEF Entries, Linked, Tree, None
<1>5. Good(v)
  BY <1>2, <1>3, <1>4, SoundParts DEF Good
<1>6. \A o \in Ids : v.objects[o].links <= 1
  BY <1>3 DEF None
<1>7. QED
  BY <1>1, <1>5, <1>6 DEF NInv, Held, CreatedInWindow

LEMMA NInvStep ==
    ASSUME Bounds, NInv, [Next]_vars  PROVE NInv' /\ StepKeeps
<1>1. CASE CommitWindow
  BY <1>1, CommitStep DEF CommitWindow, Quietly
<1>2. CASE SetDurability
  <2>1. CASE Publish(view)
    BY <1>2, <2>1, CommitStep DEF SetDurability
  <2>2. CASE UNCHANGED <<disk, view>>
    BY <1>2, <2>2, QuietStep DEF SetDurability
  <2>3. QED
    BY <1>2, <2>1, <2>2 DEF SetDurability
<1>3. CASE SetInlineMaintenance
  BY <1>3, QuietStep DEF SetInlineMaintenance
<1>4. CASE UNCHANGED vars
  BY <1>4, QuietStep DEF vars
<1>5. QED
  BY <1>1, <1>2, <1>3, <1>4, CreateObjectStep, UnlinkFileStep, RemoveDirectoryStep,
     RenameStep, LinkFileStep, OpenFileStep, WriteFileStep, CloseFileStep, MaintainStep,
     CrashStep DEF Next

-----------------------------------------------------------------------------
(* The theorems. *)

(* The invariant holds of every reachable state.                           *)
THEOREM NInvHolds ==
    ASSUME Bounds  PROVE Spec => []NInv
<1>1. Init => NInv
  BY NInvInit
<1>2. NInv /\ [Next]_vars => NInv'
  BY NInvStep
<1>3. QED
  BY <1>1, <1>2, PTL DEF Spec

(* Names lead to objects, link counts are the numbers of names, what has   *)
(* none is an orphan, and the directories form one tree, in the checkpoint *)
(* and in the window, whatever is staged, committed, cleaned up or lost in *)
(* a crash (apply_batch_op, remove_entry, rename_internal).                *)
THEOREM NamespaceSoundHolds ==
    ASSUME Bounds  PROVE Spec => []NamespaceSound
<1>1. NInv => NamespaceSound
  BY DEF NInv, Good, NamespaceSound
<1>2. QED
  BY <1>1, NInvHolds, PTL

(* No step takes extents from an open file or removes it, whatever has     *)
(* become of its names (cleanup_orphans, rename_replace_orphan_target).    *)
THEOREM OpenFileIntactHolds ==
    ASSUME Bounds  PROVE Spec => OpenFileIntact
<1>1. NInv /\ [Next]_vars => KeepsOpenFiles
  BY NInvStep DEF KeepsOpenFiles, StepKeeps, Keeps, Is
<1>2. QED
  BY <1>1, NInvHolds, PTL DEF Spec, OpenFileIntact
=============================================================================
