---------------------------- MODULE GrantLending ----------------------------
(***************************************************************************)
(* Facts for the proofs about GrantAdmission: the invariant, and the parts *)
(* of it about types, permits and borrowed handles, which every step keeps.*)
(***************************************************************************)
EXTENDS GrantAdmission, FiniteSetTheorems, TLAPS

(* What the services' configuration guarantees: budgets admit a handle,    *)
(* and the restore service has a grant that its consumer opened.           *)
Bounds ==
    /\ MaxHandles \in Nat \ {0} /\ MaxLeases \in Nat \ {0}
    /\ "restore" \in Services /\ 1 \in Grants
    /\ ValueSizes \subseteq Nat

Kinds == {"idle", "open", "plain", "create", "begin", "write", "finish"}
Operation == [kind : Kinds, under : SUBSET Grants, want : Seq(Grants),
              held : SUBSET Grants, lent : SUBSET LeaseIds, calling : BOOLEAN]
Lease == [service : Services \union {""}, grant : Grants \union {0}, copies : Nat]
Upload == [lease : LeaseIds \union {0}, size : Nat, written : Nat, failed : BOOLEAN]

Types ==
    /\ active \in [Grants -> BOOLEAN] /\ revoked \in SUBSET Grants
    /\ waiting \in [Revokers -> Grants \union {Nobody}]
    /\ op \in [Services -> Operation] /\ leases \in [LeaseIds -> Lease]
    /\ used \in [Services -> Int] /\ upload \in Upload

(* Permits: what an operation runs under it holds or still asks for, and   *)
(* no grant it holds is revoked, because revoke waits for the holders and  *)
(* clears the flag that admission reads.                                   *)
Wanted(s) == {op[s].want[i] : i \in DOMAIN op[s].want}
Permits ==
    /\ \A g \in revoked : ~active[g]
    /\ \A s \in Services :
         /\ op[s].under \subseteq op[s].held \union Wanted(s)
         /\ op[s].held \intersect revoked = {}
         /\ op[s].calling => op[s].want = <<>>

(* Borrows: what an operation or an upload uses stays open.                *)
Lending ==
    /\ \A l \in Open : leases[l].service \in Services /\ leases[l].grant \in Grants
    /\ \A s \in Services : \A l \in op[s].lent :
         leases[l].service = s /\ leases[l].copies > UploadCopies(l)
    /\ \A s \in Services :
         op[s].kind \in {"create", "begin", "write", "finish"} => s = "restore"
    /\ IF upload.lease = 0
       THEN /\ upload = NoUpload
            /\ op["restore"].kind \notin {"write", "finish"}
       ELSE /\ leases[upload.lease].copies > 0
            /\ leases[upload.lease].service = "restore"
            /\ op["restore"].kind /= "begin"

(* Budgets: every unit is a handle's, the upload's or a running call's.    *)
Budget(s) ==
    /\ used[s] = Cardinality(Own(s)) + UploadUnit(s) + ReservedUnit(s)
    /\ used[s] <= MaxHandles
    /\ op[s].calling /\ MakesHandle(op[s].kind) /\ ~Early(s) => used[s] < MaxHandles

(* Values: an upload that is being published was written to its end.       *)
Whole ==
    /\ op["restore"].calling /\ op["restore"].kind = "finish" => upload.written = upload.size
    /\ \A v \in values : v.written = v.size

AInv == Types /\ Permits /\ Lending /\ (\A s \in Services : Budget(s)) /\ Whole

-----------------------------------------------------------------------------
(* Handles of a service. *)

(* The handles of a service are finitely many: identifiers are bounded.    *)
LEMMA OwnFinite ==
    ASSUME Bounds, NEW s
    PROVE  IsFiniteSet(Own(s)) /\ Cardinality(Own(s)) \in Nat
<1>1. IsFiniteSet(LeaseIds)
    BY FS_Interval DEF Bounds, LeaseIds
<1>2. Own(s) \subseteq LeaseIds
    BY DEF Own, Open
<1> QED
    BY <1>1, <1>2, FS_Subset, FS_CardinalityType

LEMMA OwnFinitePrime ==
    ASSUME Bounds, NEW s
    PROVE  Cardinality(Own(s))' \in Nat
<1>1. IsFiniteSet(LeaseIds)
    BY FS_Interval DEF Bounds, LeaseIds
<1>2. Own(s)' \subseteq LeaseIds
    BY DEF Own, Open
<1>3. Cardinality(Own(s)') \in Nat
    BY <1>1, <1>2, FS_Subset, FS_CardinalityType
<1> QED
    BY <1>3

(* What a change to one handle leaves: the others, and its own service and *)
(* grant when only its copies change.                                      *)
Others(l) == \A k \in LeaseIds : k /= l => leases'[k] = leases[k]
Copied(l) == leases'[l].service = leases[l].service /\ leases'[l].grant = leases[l].grant

LEMMA LeaseFields ==
    ASSUME Types, NEW l \in LeaseIds
    PROVE  /\ leases[l].copies \in Nat /\ leases[l].service \in Services \union {""}
           /\ leases[l].grant \in Grants \union {0}
           /\ DOMAIN leases = LeaseIds /\ leases[l] \in Lease
    BY DEF Types, Lease

IsCopy(c, r, n) ==
    c \in Lease /\ c.copies = n /\ c.service = r.service /\ c.grant = r.grant

LEMMA LeaseCopies ==
    ASSUME NEW r, r \in Lease, NEW n, n \in Nat, NEW c, c = [r EXCEPT !.copies = n]
    PROVE  IsCopy(c, r, n)
    BY DEF Lease, IsCopy

(* Units are taken from a budget one service at a time.                    *)
LEMMA UsedType ==
    ASSUME NEW f \in [Services -> Int], NEW s, NEW n \in Int
    PROVE  [f EXCEPT ![s] = @ - n] \in [Services -> Int]
<1> DEFINE h == [f EXCEPT ![s] = @ - n]
<1>1. DOMAIN h = Services /\ h = [t \in Services |-> h[t]]
    BY Zenon
<1>2. ASSUME NEW t \in Services
      PROVE  h[t] \in Int
    <2>1. CASE t = s
        BY <2>1
    <2>2. CASE t /= s
        BY <2>2
    <2> QED
        BY <2>1, <2>2
<1> HIDE DEF h
<1>3. h \in [Services -> Int]
    BY <1>1, <1>2
<1> QED
    BY <1>3 DEF h

LEMMA CloneIs ==
    ASSUME Types, NEW l \in LeaseIds, leases' = [leases EXCEPT ![l].copies = @ + 1]
    PROVE  /\ Others(l) /\ Copied(l) /\ leases'[l].copies = leases[l].copies + 1
           /\ leases' \in [LeaseIds -> Lease]
<1>1. Others(l)
    BY LeaseFields DEF Others
<1>2. leases'[l] = [leases[l] EXCEPT !.copies = leases[l].copies + 1]
    BY LeaseFields
<1>3. leases[l] \in Lease /\ leases[l].copies + 1 \in Nat
    <2>1. leases[l] \in Lease /\ leases[l].copies \in Nat
        BY LeaseFields, Zenon
    <2> QED
        BY <2>1
<1>4. IsCopy(leases'[l], leases[l], leases[l].copies + 1)
    BY <1>2, <1>3, LeaseCopies, Zenon
<1>5. leases' \in [LeaseIds -> Lease]
    <2>1. DOMAIN leases' = LeaseIds /\ leases' = [k \in LeaseIds |-> leases'[k]]
        BY Zenon DEF Types
    <2>2. \A k \in LeaseIds : leases'[k] \in Lease
        BY Zenon, <1>1, <1>4 DEF Types, Others, IsCopy
    <2> QED
        BY Zenon, <2>1, <2>2
<1> QED
    BY <1>1, <1>4, <1>5 DEF IsCopy, Copied

LEMMA DropIs ==
    ASSUME Types, NEW l \in LeaseIds, leases[l].copies > 0, leases' = DropCopy(l)
    PROVE  /\ Others(l)
           /\ leases[l].copies = 1 => leases'[l].copies = 0
           /\ leases[l].copies /= 1 => Copied(l) /\ leases'[l].copies = leases[l].copies - 1
           /\ leases' \in [LeaseIds -> Lease]
<1>1. CASE leases[l].copies = 1
    <2>1. leases' = [leases EXCEPT ![l] = Closed]
        BY <1>1 DEF DropCopy
    <2>2. Closed \in Lease /\ Closed.copies = 0
        BY DEF Closed, Lease
    <2>3. Others(l) /\ leases'[l] = Closed
        BY <2>1, LeaseFields DEF Others
    <2>4. leases' \in [LeaseIds -> Lease]
        BY <2>1, <2>2 DEF Types
    <2> QED
        BY <1>1, <2>2, <2>3, <2>4
<1>2. CASE leases[l].copies /= 1
    <2>1. leases' = [leases EXCEPT ![l].copies = @ - 1]
        BY <1>2 DEF DropCopy
    <2>2. leases'[l] = [leases[l] EXCEPT !.copies = leases[l].copies - 1]
        BY <2>1, LeaseFields
    <2>3. IsCopy(leases'[l], leases[l], leases[l].copies - 1)
        <3>1. leases[l] \in Lease /\ leases[l].copies \in Nat
            BY LeaseFields, Zenon
        <3>2. leases[l].copies - 1 \in Nat
            BY <3>1
        <3> QED
            BY <2>2, <3>1, <3>2, LeaseCopies, Zenon
    <2>4. Others(l)
        BY <2>1, LeaseFields DEF Others
    <2>5. leases' \in [LeaseIds -> Lease]
        <3>1. DOMAIN leases' = LeaseIds /\ leases' = [k \in LeaseIds |-> leases'[k]]
            BY Zenon, <2>1 DEF Types
        <3>2. \A k \in LeaseIds : leases'[k] \in Lease
            BY <2>3, <2>4 DEF Types, Others, IsCopy
        <3> QED
            BY <3>1, <3>2
    <2> QED
        BY <1>2, <2>3, <2>4, <2>5 DEF IsCopy, Copied
<1> QED
    BY <1>1, <1>2

LEMMA NewIs ==
    ASSUME Types, NEW l \in LeaseIds, NEW g \in Grants, NEW t \in Services,
           leases' = [leases EXCEPT ![l] = [service |-> t, grant |-> g, copies |-> 1]]
    PROVE  /\ Others(l)
           /\ leases'[l].copies = 1 /\ leases'[l].service = t /\ leases'[l].grant = g
           /\ leases' \in [LeaseIds -> Lease]
<1> DEFINE n == [service |-> t, grant |-> g, copies |-> 1]
<1>1. n \in Lease /\ n.copies = 1 /\ n.service = t /\ n.grant = g
    BY DEF Lease
<1>2. leases' = [leases EXCEPT ![l] = n]
    OBVIOUS
<1> HIDE DEF n
<1>3. Others(l) /\ leases'[l] = n
    BY <1>2, LeaseFields DEF Others
<1>4. leases' \in [LeaseIds -> Lease]
    BY <1>1, <1>2 DEF Types
<1> QED
    BY <1>1, <1>3, <1>4

(* A handle is a service's by its copies and its service alone.            *)
LEMMA OwnKept ==
    ASSUME NEW l \in LeaseIds, NEW s, Others(l), l \in Own(s)' <=> l \in Own(s)
    PROVE  Own(s)' = Own(s)
<1>1. ASSUME NEW k \in LeaseIds
      PROVE  k \in Own(s)' <=> k \in Own(s)
    <2>1. CASE k = l
        BY <2>1
    <2>2. CASE k /= l
        BY <2>2 DEF Others, Own, Open
    <2> QED
        BY <2>1, <2>2
<1>2. Own(s) \subseteq LeaseIds /\ Own(s)' \subseteq LeaseIds
    BY DEF Own, Open
<1> HIDE DEF Own
<1> QED
    BY <1>1, <1>2

(* Dropping a copy of a handle takes it from its service when it is the    *)
(* last (Drop of the lease), and takes nothing from another service.       *)
LEMMA DropCopyOwn ==
    ASSUME Bounds, Types, NEW l \in Open, NEW s \in Services, leases' = DropCopy(l)
    PROVE  /\ s = leases[l].service =>
                Cardinality(Own(s))' = Cardinality(Own(s)) - UnitBack(l)
           /\ s /= leases[l].service => Cardinality(Own(s))' = Cardinality(Own(s))
<1>1. l \in LeaseIds /\ leases[l].copies > 0 /\ leases[l].copies \in Nat
    BY LeaseFields DEF Open
<1>2. /\ Others(l)
      /\ leases[l].copies = 1 => leases'[l].copies = 0
      /\ leases[l].copies /= 1 => Copied(l) /\ leases'[l].copies = leases[l].copies - 1
    BY <1>1, DropIs
<1>3. Cardinality(Own(s)) \in Nat
    BY OwnFinite
<1>4. CASE leases[l].copies = 1 /\ s = leases[l].service
    <2>1. ASSUME NEW k \in LeaseIds
          PROVE  k \in Own(s)' <=> k \in Own(s) \ {l}
        <3>1. CASE k = l
            BY <1>2, <1>4, <3>1 DEF Own, Open
        <3>2. CASE k /= l
            BY <1>2, <3>2 DEF Others, Own, Open
        <3> QED
            BY <3>1, <3>2
    <2>2. l \in Own(s) /\ Own(s) \subseteq LeaseIds /\ Own(s)' \subseteq LeaseIds
        BY <1>4 DEF Own, Open
    <2>3. Own(s)' = Own(s) \ {l}
        BY <2>1, <2>2
    <2>4. Cardinality(Own(s) \ {l}) = Cardinality(Own(s)) - 1
        BY Zenon, <2>2, OwnFinite, FS_RemoveElement
    <2> QED
        BY <1>4, <2>3, <2>4 DEF UnitBack
<1>5. CASE ~(leases[l].copies = 1 /\ s = leases[l].service)
    <2>1. l \in Own(s)' <=> l \in Own(s)
        BY <1>1, <1>2, <1>5 DEF Own, Open, Copied
    <2>2. Own(s)' = Own(s)
        BY <1>1, <1>2, <2>1, OwnKept
    <2>3. s = leases[l].service => UnitBack(l) = 0
        BY <1>5 DEF UnitBack
    <2> QED
        BY <1>3, <2>2, <2>3
<1> QED
    BY <1>4, <1>5

(* A returned handle adds one to its service and to no other.              *)
LEMMA NewLeaseOwn ==
    ASSUME Bounds, Types, NEW l \in LeaseIds \ Open, NEW g \in Grants, NEW t \in Services,
           NEW s \in Services,
           leases' = [leases EXCEPT ![l] = [service |-> t, grant |-> g, copies |-> 1]]
    PROVE  /\ s = t => Cardinality(Own(s))' = Cardinality(Own(s)) + 1
           /\ s /= t => Cardinality(Own(s))' = Cardinality(Own(s))
<1>1. Others(l) /\ leases'[l].copies = 1 /\ leases'[l].service = t
    BY ZenonT(40), NewIs
<1>2. l \notin Own(s)
    BY DEF Own
<1>3. CASE s = t
    <2>1. ASSUME NEW k \in LeaseIds
          PROVE  k \in Own(s)' <=> k \in Own(s) \union {l}
        <3>1. CASE k = l
            BY <1>1, <1>3, <3>1 DEF Own, Open
        <3>2. CASE k /= l
            BY <1>1, <3>2 DEF Others, Own, Open
        <3> QED
            BY <3>1, <3>2
    <2>2. Own(s) \subseteq LeaseIds /\ Own(s)' \subseteq LeaseIds
        BY DEF Own, Open
    <2>3. Own(s)' = Own(s) \union {l}
        BY <2>1, <2>2
    <2>4. Cardinality(Own(s) \union {l}) = Cardinality(Own(s)) + 1
        BY Zenon, <1>2, OwnFinite, FS_AddElement
    <2> QED
        BY <1>3, <2>3, <2>4
<1>4. CASE s /= t
    <2>1. l \in Own(s)' <=> l \in Own(s)
        BY <1>1, <1>2, <1>4 DEF Own
    <2>2. Own(s)' = Own(s)
        BY <1>1, <2>1, OwnKept
    <2> QED
        BY <1>4, <2>2
<1> QED
    BY <1>3, <1>4

(* Another copy of an open handle changes no service's handles.            *)
LEMMA CloneOwn ==
    ASSUME Types, NEW l \in Open, NEW s,
           leases' = [leases EXCEPT ![l].copies = @ + 1]
    PROVE  Own(s)' = Own(s)
<1>1. l \in LeaseIds /\ leases[l].copies > 0 /\ leases[l].copies \in Nat
    BY LeaseFields DEF Open
<1>2. Others(l) /\ Copied(l) /\ leases'[l].copies = leases[l].copies + 1
    BY Zenon, <1>1, CloneIs
<1>3. l \in Own(s)' <=> l \in Own(s)
    BY <1>1, <1>2 DEF Own, Open, Copied
<1> QED
    BY <1>1, <1>2, <1>3, OwnKept

-----------------------------------------------------------------------------
(* Types. *)

(* An upload is released with its handle's types intact.                   *)
LEMMA ReleaseTypes ==
    ASSUME Bounds, Types, Lending, upload.lease /= 0, ReleaseUpload
    PROVE  /\ leases' \in [LeaseIds -> Lease] /\ used' \in [Services -> Int]
           /\ upload' \in Upload
<1>1. upload.lease \in LeaseIds
    BY DEF Types, Upload
<1>2. leases' \in [LeaseIds -> Lease]
    BY <1>1, DropIs DEF ReleaseUpload, Lending
<1>3. used' \in [Services -> Int]
    <2>1. UnitBack(upload.lease) + 1 \in Int
        BY DEF UnitBack
    <2>2. used' = [used EXCEPT ![leases[upload.lease].service] = @ - (UnitBack(upload.lease) + 1)]
        BY DEF ReleaseUpload
    <2> QED
        BY Zenon, <2>1, <2>2, UsedType DEF Types
<1>4. upload' \in Upload
    BY DEF ReleaseUpload, NoUpload, Upload
<1> QED
    BY <1>2, <1>3, <1>4

LEMMA IdleType == Idle \in Operation
    BY DEF Idle, Operation, Kinds

(* A refusal leaves an idle operation and drops at most the upload.        *)
LEMMA RefusedTypes ==
    ASSUME Bounds, Types, Lending, NEW s \in Services, Refused(s)
    PROVE  Types'
<1>1. op' \in [Services -> Operation]
    BY IdleType DEF Types, Refused
<1>2. CASE op[s].kind = "finish"
    <2>1. upload.lease /= 0
        BY <1>2 DEF Lending
    <2> QED
        BY <1>1, <1>2, <2>1, ReleaseTypes DEF Types, Refused
<1>3. CASE op[s].kind /= "finish"
    BY <1>1, <1>3 DEF Types, Refused
<1> QED
    BY <1>2, <1>3

(* A call begins with the permits and the handles it was given.            *)
LEMMA BeginTypes ==
    ASSUME Bounds, Types, NEW s \in Services, NEW kind \in Kinds, NEW want \in Seq(Grants),
           NEW lent \in SUBSET LeaseIds, Begin(s, kind, want, lent)
    PROVE  Types'
<1> DEFINE o == [kind |-> kind, under |-> {want[i] : i \in DOMAIN want}, want |-> want,
                 held |-> {}, lent |-> lent, calling |-> FALSE]
<1>1. {want[i] : i \in DOMAIN want} \in SUBSET Grants
    OBVIOUS
<1>2. o \in Operation
    BY <1>1 DEF Operation
<1>3. op' = [op EXCEPT ![s] = o]
    BY DEF Begin
<1> HIDE DEF o
<1>4. op' \in [Services -> Operation]
    BY <1>2, <1>3 DEF Types
<1> QED
    BY <1>4 DEF Types, Begin

-----------------------------------------------------------------------------
(* How an operation begins. *)

(* What holds of every call: its permits are grants, it borrows handles    *)
(* that its caller has, and only a restore works on objects and uploads.   *)
Started(s, kind, want, lent) ==
    /\ Begin(s, kind, want, lent)
    /\ kind \in Kinds /\ want \in Seq(Grants) /\ lent \in SUBSET Usable(s)
    /\ kind \in {"create", "begin", "write", "finish"} => s = "restore"
    /\ kind = "begin" => upload.lease = 0
    /\ kind \in {"write", "finish"} => upload.lease /= 0

(* Every entry point of the services begins that way.                      *)
LEMMA StartsForm ==
    ASSUME Types, Lending, NEW s \in Services, Starts(s)
    PROVE  \E kind, want, lent : Started(s, kind, want, lent)
<1>1. \A l \in Usable(s) : leases[l].grant \in Grants
    BY DEF Usable, Own, Lending
<1>2. CASE StartOnGrant(s)
    <2>1. PICK g \in Grants, kind \in {"open", "plain"} : Begin(s, kind, <<g>>, {})
        BY <1>2 DEF StartOnGrant
    <2>2. <<g>> \in Seq(Grants)
        OBVIOUS
    <2>3. Started(s, kind, <<g>>, {})
        BY <2>1, <2>2 DEF Started, Kinds
    <2> QED
        BY <2>3
<1>3. CASE StartOnHandle(s)
    <2>1. PICK l \in Usable(s), kind \in {"create", "plain"} :
              Begin(s, kind, <<leases[l].grant>>, {l})
        BY Zenon, <1>3 DEF StartOnHandle
    <2>2. <<leases[l].grant>> \in Seq(Grants)
        BY <1>1
    <2>3. Started(s, kind, <<leases[l].grant>>, {l})
        BY <1>3, <2>1, <2>2 DEF Started, Kinds, StartOnHandle
    <2> QED
        BY <2>3
<1>4. CASE StartOnReader(s)
    <2>1. PICK l \in Usable(s) : Begin(s, "plain", <<leases[l].grant>>, {l})
        BY Zenon, <1>4 DEF StartOnReader
    <2>2. <<leases[l].grant>> \in Seq(Grants)
        BY <1>1
    <2>3. Started(s, "plain", <<leases[l].grant>>, {l})
        BY <2>1, <2>2 DEF Started, Kinds
    <2> QED
        BY <2>3
<1>5. CASE StartLink(s)
    <2>1. PICK l \in Usable(s), m \in Usable(s) :
              Begin(s, "plain", LinkPermits(leases[l].grant, leases[m].grant), {l, m})
        BY Zenon, <1>5 DEF StartLink
    <2>2. LinkPermits(leases[l].grant, leases[m].grant) \in Seq(Grants)
        BY <1>1 DEF LinkPermits
    <2>3. Started(s, "plain", LinkPermits(leases[l].grant, leases[m].grant), {l, m})
        BY <2>1, <2>2 DEF Started, Kinds
    <2> QED
        BY <2>3
<1>6. CASE StartUpload(s)
    <2>1. PICK l \in Usable(s) : Begin(s, "begin", <<leases[l].grant>>, {l})
        BY Zenon, <1>6 DEF StartUpload
    <2>2. <<leases[l].grant>> \in Seq(Grants)
        BY <1>1
    <2>3. s = "restore" /\ upload.lease = 0
        BY <1>6 DEF StartUpload, NoUpload
    <2>4. Started(s, "begin", <<leases[l].grant>>, {l})
        BY <2>1, <2>2, <2>3 DEF Started, Kinds
    <2> QED
        BY <2>4
<1>7. CASE StartOnUpload(s)
    <2>1. PICK kind \in {"write", "finish"} : Begin(s, kind, <<leases[upload.lease].grant>>, {})
        BY <1>7 DEF StartOnUpload
    <2>2. s = "restore" /\ upload.lease /= 0
        BY <1>7 DEF StartOnUpload, Lending
    <2>3. upload.lease \in Open
        BY <2>2 DEF Lending, Types, Upload, Open
    <2>4. <<leases[upload.lease].grant>> \in Seq(Grants)
        BY <2>3 DEF Lending
    <2>5. Started(s, kind, <<leases[upload.lease].grant>>, {})
        BY <2>1, <2>2, <2>4 DEF Started, Kinds
    <2> QED
        BY <2>5
<1> QED
    BY <1>2, <1>3, <1>4, <1>5, <1>6, <1>7 DEF Starts

-----------------------------------------------------------------------------
(* Each part of the invariant is kept by every step. *)

LEMMA TypesStep ==
    ASSUME Bounds, Types, Permits, Lending, AdmissionNext
    PROVE  Types'
<1>1. ASSUME NEW r \in Revokers, BeginRevoke(r)
      PROVE  Types'
    BY <1>1 DEF BeginRevoke, Types
<1>2. ASSUME NEW r \in Revokers, FinishRevoke(r)
      PROVE  Types'
    BY <1>2 DEF FinishRevoke, Types, Nobody
<1>3. ASSUME NEW s \in Services, Starts(s)
      PROVE  Types'
    <2>1. PICK kind, want, lent : Started(s, kind, want, lent)
        BY <1>3, StartsForm
    <2>2. lent \in SUBSET LeaseIds
        BY <2>1 DEF Started, Usable, Own, Open
    <2> QED
        BY <2>1, <2>2, BeginTypes DEF Started
<1>4. ASSUME NEW s \in Services, Admit(s)
      PROVE  Types'
    <2>1. CASE Refused(s)
        BY <2>1, RefusedTypes
    <2>2. CASE ~Refused(s)
        <3> DEFINE g == Head(op[s].want)
        <3>1. op' = [op EXCEPT ![s] = Admitted(s, g)]
            BY <1>4, <2>2 DEF Admit
        <3>2. op[s] \in Operation /\ g \in Grants /\ Tail(op[s].want) \in Seq(Grants)
            BY <1>4 DEF Types, Operation, Admit
        <3>3. Admitted(s, g) \in Operation
            BY Zenon, <3>2 DEF Admitted, Operation
        <3>4. UNCHANGED <<active, waiting, revoked, leases, used, upload>>
            BY <1>4, <2>2 DEF Admit
        <3> QED
            BY <3>1, <3>3, <3>4 DEF Types
    <2> QED
        BY <2>1, <2>2
<1>5. ASSUME NEW s \in Services, CallProvider(s)
      PROVE  Types'
    <2>1. CASE Refused(s)
        BY <2>1, RefusedTypes
    <2>2. CASE ~Refused(s)
        <3>1. op' \in [Services -> Operation]
            <4>1. op' = [op EXCEPT ![s] = [op[s] EXCEPT !.calling = TRUE]]
                BY <1>5, <2>2 DEF CallProvider
            <4>2. op[s] \in Operation
                BY DEF Types
            <4>3. [op[s] EXCEPT !.calling = TRUE] \in Operation
                BY ZenonT(40), <4>2 DEF Operation
            <4> QED
                BY <4>1, <4>3 DEF Types
        <3>2. used' \in [Services -> Int]
            BY <1>5, <2>2 DEF CallProvider, Types, EarlyUnit
        <3>3. upload' \in Upload
            BY ZenonT(40), <1>5, <2>2 DEF CallProvider, Types, Upload
        <3> QED
            BY <1>5, <2>2, <3>1, <3>2, <3>3 DEF CallProvider, Types
    <2> QED
        BY <2>1, <2>2
<1>6. ASSUME NEW s \in Services, Returns(s)
      PROVE  Types'
    <2>1. op' \in [Services -> Operation]
        BY Zenon, <1>6, IdleType DEF Returns, Finish, Fails, ReturnsPlain, ReturnsHandle, ReturnsUpload,
            ReturnsWrite, ReturnsPublished, Types
    <2>2. UNCHANGED <<active, waiting, revoked>>
        BY ZenonT(40), <1>6 DEF Returns, Finish, Fails, ReturnsPlain, ReturnsHandle, ReturnsUpload,
            ReturnsWrite, ReturnsPublished
    <2>3. CASE (Fails(s) \/ ReturnsPublished(s)) /\ op[s].kind = "finish"
        <3>1. upload.lease /= 0
            BY <2>3 DEF Lending
        <3>2. ReleaseUpload
            BY <2>3 DEF Fails, ReturnsPublished
        <3> QED
            BY <2>1, <2>2, <3>1, <3>2, ReleaseTypes DEF Types
    <2>4. CASE Fails(s) /\ op[s].kind /= "finish"
        BY <2>1, <2>2, <2>4 DEF Fails, Types, EarlyUnit
    <2>5. CASE ReturnsPlain(s)
        BY <2>1, <2>2, <2>5 DEF ReturnsPlain, Types
    <2>6. CASE ReturnsHandle(s)
        <3>1. PICK l \in LeaseIds \ Open, g \in op[s].under :
                  leases' = [leases EXCEPT ![l] = [service |-> s, grant |-> g, copies |-> 1]]
            BY <2>6 DEF ReturnsHandle
        <3>2. g \in Grants
            BY DEF Types, Operation
        <3>3. leases' \in [LeaseIds -> Lease]
            BY Zenon, <3>1, <3>2, NewIs
        <3>4. used' \in [Services -> Int]
            BY <2>6 DEF ReturnsHandle, Types, EarlyUnit
        <3> QED
            BY SMTT(30), <2>1, <2>2, <2>6, <3>3, <3>4 DEF Types, ReturnsHandle
    <2>7. CASE ReturnsUpload(s)
        <3>1. PICK l \in op[s].lent, size \in ValueSizes :
                  /\ upload' = [lease |-> l, size |-> size, written |-> 0, failed |-> FALSE]
                  /\ leases' = [leases EXCEPT ![l].copies = @ + 1]
            BY Zenon, <2>7 DEF ReturnsUpload
        <3>2. l \in LeaseIds /\ size \in Nat
            BY DEF Types, Operation, Bounds
        <3>3. leases' \in [LeaseIds -> Lease]
            BY Zenon, <3>1, <3>2, CloneIs
        <3>4. upload' \in Upload
            BY <3>1, <3>2 DEF Upload
        <3> QED
            BY <2>1, <2>2, <2>7, <3>3, <3>4 DEF Types, ReturnsUpload
    <2>8. CASE ReturnsWrite(s)
        <3>1. upload' \in Upload
            <4>1. PICK n \in 1 .. upload.size - upload.written :
                      upload' = [upload EXCEPT !.written = @ + n, !.failed = FALSE]
                BY Zenon, <2>8 DEF ReturnsWrite
            <4>2. upload.written + n \in Nat
                BY DEF Types, Upload
            <4>3. upload \in Upload
                BY DEF Types
            <4> QED
                BY Zenon, <4>1, <4>2, <4>3 DEF Upload
        <3> QED
            BY <2>1, <2>2, <2>8, <3>1 DEF Types, ReturnsWrite
    <2>9. ReturnsPublished(s) => op[s].kind = "finish"
        BY DEF ReturnsPublished
    <2> QED
        BY <1>6, <2>3, <2>4, <2>5, <2>6, <2>7, <2>8, <2>9 DEF Returns
<1>7. CASE CloneHandle
    <2>1. PICK l \in Callers : leases' = [leases EXCEPT ![l].copies = @ + 1]
        BY Zenon, <1>7 DEF CloneHandle
    <2>2. leases' \in [LeaseIds -> Lease]
        BY ZenonT(40), <2>1, CloneIs DEF Callers, Open
    <2> QED
        BY <1>7, <2>2 DEF CloneHandle, Types
<1>8. CASE CloseHandle
    <2>1. PICK l \in Callers :
              /\ leases' = DropCopy(l)
              /\ used' = [used EXCEPT ![leases[l].service] = @ - UnitBack(l)]
        BY Zenon, <1>8 DEF CloseHandle
    <2>2. leases' \in [LeaseIds -> Lease]
        BY <2>1, DropIs DEF Callers, Open
    <2>3. used' \in [Services -> Int]
        <3>1. UnitBack(l) \in Int
            BY DEF UnitBack
        <3> QED
            BY ZenonT(40), <2>1, <3>1, UsedType DEF Types
    <2> QED
        BY <1>8, <2>2, <2>3 DEF CloseHandle, Types
<1>9. CASE AbortUpload
    <2>1. upload.lease /= 0
        BY <1>9 DEF AbortUpload, Lending
    <2> QED
        BY <1>9, <2>1, ReleaseTypes DEF AbortUpload, Types
<1> QED
    BY <1>1, <1>2, <1>3, <1>4, <1>5, <1>6, <1>7, <1>8, <1>9 DEF AdmissionNext, Runs

(* What follows the head of a sequence is in its tail.                     *)
LEMMA TailItem ==
    ASSUME NEW S, NEW q \in Seq(S), NEW i \in DOMAIN q, i /= 1
    PROVE  i - 1 \in DOMAIN Tail(q) /\ Tail(q)[i - 1] = q[i]
    OBVIOUS

(* Revoke waits for the holders of the grant and clears the flag; from then*)
(* on no operation is admitted under it.                                   *)
LEMMA PermitsStep ==
    ASSUME Bounds, Types, Permits, Lending, AdmissionNext
    PROVE  Permits'
<1>1. CASE UNCHANGED <<active, revoked, op>>
    BY <1>1 DEF Permits, Wanted
<1>2. ASSUME NEW r \in Revokers, FinishRevoke(r)
      PROVE  Permits'
    BY SMTT(30), <1>2 DEF FinishRevoke, Permits, Wanted, Types, Nobody
<1>3. ASSUME NEW s \in Services, NEW kind, NEW want, NEW lent, Begin(s, kind, want, lent)
      PROVE  Permits'
    BY <1>3 DEF Begin, Permits, Wanted, Types
<1>4. ASSUME NEW s \in Services, op' = [op EXCEPT ![s] = Idle], UNCHANGED <<active, revoked>>
      PROVE  Permits'
    BY <1>4 DEF Permits, Wanted, Idle, Types
<1>5. ASSUME NEW s \in Services, Admit(s), ~Refused(s)
      PROVE  Permits'
    <2> DEFINE g == Head(op[s].want)
    <2>1. /\ op' = [op EXCEPT ![s] = Admitted(s, g)]
          /\ UNCHANGED <<active, revoked>> /\ active[g] /\ op[s].want /= <<>> /\ ~op[s].calling
        BY <1>5 DEF Admit
    <2>2. op[s].want \in Seq(Grants) /\ op[s] \in Operation
        BY DEF Types, Operation
    <2>3. ASSUME NEW h \in Wanted(s)
          PROVE  h = g \/ \E i \in DOMAIN Tail(op[s].want) : h = Tail(op[s].want)[i]
        <3>1. PICK i \in DOMAIN op[s].want : h = op[s].want[i]
            BY Zenon DEF Wanted
        <3>2. CASE i = 1
            BY SMTT(30), <2>1, <2>2, <3>1, <3>2
        <3>3. CASE i /= 1
            BY Zenon, <2>1, <2>2, <3>1, <3>3, TailItem
        <3> QED
            BY <3>2, <3>3
    <2>4. g \notin revoked
        BY <2>1 DEF Permits
    <2>5. /\ op'[s].held = op[s].held \union {g} /\ op'[s].want = Tail(op[s].want)
          /\ op'[s].under = op[s].under /\ op'[s].calling = op[s].calling
        BY <2>1, <2>2 DEF Admitted, Types, Operation
    <2>6. \A t \in Services : t /= s => op'[t] = op[t]
        BY <2>1 DEF Types
    <2> HIDE DEF g
    <2>7. op'[s].under \subseteq op'[s].held \union Wanted(s)'
        <3> SUFFICES ASSUME NEW h \in op[s].under
                     PROVE  h \in op[s].held \/ h = g \/ h \in Wanted(s)'
            BY Zenon, <2>5
        <3>1. h \in op[s].held \/ h \in Wanted(s)
            BY Zenon DEF Permits
        <3> QED
            BY Zenon, <2>3, <2>5, <3>1 DEF Wanted
    <2>8. op'[s].held \intersect revoked' = {}
        BY Zenon, <2>1, <2>4, <2>5 DEF Permits
    <2>9. ASSUME NEW t \in Services, t /= s
          PROVE  /\ op'[t].under \subseteq op'[t].held \union Wanted(t)'
                 /\ op'[t].held \intersect revoked' = {}
                 /\ op'[t].calling => op'[t].want = <<>>
        <3>1. op'[t] = op[t] /\ Wanted(t)' = Wanted(t) /\ revoked' = revoked
            BY ZenonT(40), <2>1, <2>6, <2>9 DEF Wanted
        <3> QED
            BY Zenon, <3>1 DEF Permits
    <2> QED
        BY ZenonT(40), <2>1, <2>5, <2>7, <2>8, <2>9 DEF Permits
<1>6. ASSUME NEW s \in Services, CallProvider(s), ~Refused(s)
      PROVE  Permits'
    <2>1. /\ op' = [op EXCEPT ![s].calling = TRUE] /\ op[s].want = <<>>
          /\ UNCHANGED <<active, revoked>>
        BY <1>6 DEF CallProvider
    <2> QED
        BY <2>1 DEF Permits, Wanted, Types, Operation
<1>7. ASSUME NEW s \in Services, Starts(s)
      PROVE  Permits'
    BY <1>3, <1>7, StartsForm DEF Started
<1>8. ASSUME NEW s \in Services, Refused(s) \/ Returns(s)
      PROVE  Permits'
    <2>1. op' = [op EXCEPT ![s] = Idle] /\ UNCHANGED <<active, revoked>>
        BY ZenonT(40), <1>8 DEF Refused, Returns, Finish, Fails, ReturnsPlain, ReturnsHandle, ReturnsUpload,
            ReturnsWrite, ReturnsPublished
    <2> QED
        BY ZenonT(40), <1>4, <2>1
<1>9. ASSUME NEW r \in Revokers, BeginRevoke(r)
      PROVE  Permits'
    BY <1>1, <1>9 DEF BeginRevoke
<1>10. CASE CloneHandle \/ CloseHandle \/ AbortUpload
    BY SMTT(30), <1>1, <1>10 DEF CloneHandle, CloseHandle, AbortUpload
<1> QED
    BY SMTT(30), <1>2, <1>5, <1>6, <1>7, <1>8, <1>9, <1>10 DEF AdmissionNext, Runs

-----------------------------------------------------------------------------
(* Borrows. *)

(* Operations that end or go on need no more than they did.                *)
NoMore ==
    /\ \A s \in Services : op'[s].lent \subseteq op[s].lent
    /\ \A s \in Services : op'[s].kind \in {op[s].kind, "idle"}

(* The copy of a released upload is not one that an operation borrows.     *)
LEMMA ReleaseLending ==
    ASSUME Bounds, Types, Lending, upload.lease /= 0, ReleaseUpload, NoMore,
           op'["restore"].kind \notin {"write", "finish"}
    PROVE  Lending'
<1> DEFINE u == upload.lease
<1>1. u \in LeaseIds /\ leases[u].copies \in Nat \ {0} /\ leases[u].service = "restore"
    <2>1. u \in LeaseIds
        BY DEF Types, Upload
    <2>2. leases[u].copies > 0 /\ leases[u].service = "restore"
        BY DEF Lending
    <2>3. leases[u].copies \in Nat
        BY Zenon, <2>1, LeaseFields
    <2> HIDE DEF u
    <2> QED
        BY <2>1, <2>2, <2>3
<1>2. upload' = NoUpload /\ upload'.lease = 0 /\ leases' = DropCopy(u)
    BY DEF ReleaseUpload, NoUpload
<1> HIDE DEF u
<1>3. \A l \in LeaseIds : l /= u => leases'[l] = leases[l]
    BY SMTT(30), <1>1, <1>2, DropIs DEF Others
<1>4. leases[u].copies /= 1 => /\ leases'[u].copies = leases[u].copies - 1
                               /\ leases'[u].service = leases[u].service
                               /\ leases'[u].grant = leases[u].grant
    BY <1>1, <1>2, DropIs DEF Copied
<1>5. leases[u].copies = 1 => leases'[u].copies = 0
    BY SMTT(30), <1>1, <1>2, DropIs
<1>6. \A l \in Open' : leases'[l].service \in Services /\ leases'[l].grant \in Grants
    BY SMTT(30), <1>1, <1>3, <1>4, <1>5 DEF Lending, Open
<1>7. ASSUME NEW s \in Services, NEW l \in op'[s].lent
      PROVE  leases'[l].service = s /\ leases'[l].copies > UploadCopies(l)'
    <2>1. l \in op[s].lent /\ l \in LeaseIds /\ l /= 0
        BY <1>7 DEF NoMore, Types, Operation, LeaseIds
    <2>2. leases[l].service = s /\ leases[l].copies > UploadCopies(l)
        BY <2>1 DEF Lending
    <2>3. leases[l].copies \in Nat /\ UploadCopies(l)' = 0
        BY ZenonT(40), <1>2, <2>1 DEF Types, Lease, UploadCopies
    <2>4. CASE l = u
        <3>1. UploadCopies(l) = 1
            BY <2>4 DEF UploadCopies, u
        <3>2. leases[u].copies > 1
            BY <2>2, <2>3, <2>4, <3>1
        <3> QED
            BY <1>1, <1>4, <2>2, <2>3, <2>4, <3>2
    <2>5. CASE l /= u
        BY SMTT(30), <1>3, <2>1, <2>2, <2>3, <2>5 DEF UploadCopies
    <2> QED
        BY <2>4, <2>5
<1>8. \A s \in Services : op'[s].kind \in {"create", "begin", "write", "finish"} => s = "restore"
    BY DEF NoMore, Lending
<1> QED
    BY <1>2, <1>6, <1>7, <1>8 DEF Lending

(* Borrows need only that the handles in use stay open under their service,*)
(* with a copy for the upload.                                             *)
LEMMA KeptLending ==
    ASSUME Bounds, Types, Lending, NoMore, upload'.lease = upload.lease,
           upload.lease = 0 => upload' = upload,
           \A l \in Open' : leases'[l].service \in Services /\ leases'[l].grant \in Grants,
           \A l \in Open :
              \/ /\ leases'[l].service = leases[l].service /\ leases'[l].copies > 0
                 /\ Borrowed(l) => leases'[l].copies > UploadCopies(l)
              \/ ~Borrowed(l) /\ upload.lease /= l
              \/ leases'[l] = leases[l]
    PROVE  Lending'
<1>1. ASSUME NEW s \in Services, NEW l \in op'[s].lent
      PROVE  leases'[l].service = s /\ leases'[l].copies > UploadCopies(l)'
    <2>1. l \in op[s].lent
        BY <1>1 DEF NoMore
    <2>2. l \in LeaseIds /\ leases[l].copies \in Nat /\ UploadCopies(l) \in {0, 1}
        BY ZenonT(40), <2>1 DEF Types, Operation, Lease, UploadCopies
    <2>3. leases[l].service = s /\ leases[l].copies > UploadCopies(l)
        BY <2>1 DEF Lending
    <2>4. l \in Open /\ Borrowed(l)
        BY SMTT(30), <2>1, <2>2, <2>3 DEF Open, Borrowed
    <2>5. UploadCopies(l)' = UploadCopies(l)
        BY SMTT(30) DEF UploadCopies
    <2> QED
        BY <2>3, <2>4, <2>5
<1>2. \A s \in Services : op'[s].kind \in {"create", "begin", "write", "finish"} => s = "restore"
    BY SMTT(30) DEF NoMore, Lending
<1>3. CASE upload.lease = 0
    <2>1. upload' = NoUpload /\ op["restore"].kind \notin {"write", "finish"}
        BY SMTT(30), <1>3 DEF Lending
    <2>2. op'["restore"].kind \notin {"write", "finish"}
        BY SMTT(30), <2>1 DEF NoMore, Bounds
    <2> QED
        BY SMTT(30), <1>1, <1>2, <1>3, <2>1, <2>2 DEF Lending
<1>4. CASE upload.lease /= 0
    <2>1. upload.lease \in Open
        BY <1>4 DEF Lending, Types, Upload, Open
    <2>2. leases'[upload.lease].copies > 0 /\ leases'[upload.lease].service = "restore"
        BY SMTT(30), <1>4, <2>1 DEF Lending
    <2>3. op["restore"].kind /= "begin"
        BY <1>4 DEF Lending
    <2>4. op'["restore"].kind /= "begin"
        BY <2>3 DEF NoMore, Bounds
    <2> QED
        BY SMTT(30), <1>1, <1>2, <1>4, <2>2, <2>4 DEF Lending
<1> QED
    BY <1>3, <1>4

(* An operation begins with handles that its caller has.                   *)
LEMMA StartLending ==
    ASSUME Bounds, Types, Lending, NEW s \in Services, NEW kind, NEW want, NEW lent,
           Started(s, kind, want, lent)
    PROVE  Lending'
<1>1. /\ \A t \in Services : t /= s => op'[t] = op[t]
      /\ op'[s].kind = kind /\ op'[s].lent = lent /\ op[s] = Idle
      /\ leases' = leases /\ upload' = upload
    BY DEF Started, Begin, Types
<1>2. \A l \in lent : leases[l].service = s /\ leases[l].copies > UploadCopies(l)
    BY SMTT(30) DEF Started, Usable, Own, Callers
<1>3. \A l : UploadCopies(l)' = UploadCopies(l)
    BY SMTT(30), <1>1 DEF UploadCopies
<1>4. \A t \in Services : \A l \in op'[t].lent :
         leases'[l].service = t /\ leases'[l].copies > UploadCopies(l)'
    BY SMTT(30), <1>1, <1>2, <1>3 DEF Lending
<1>5. \A t \in Services : op'[t].kind \in {"create", "begin", "write", "finish"} => t = "restore"
    BY SMTT(30), <1>1 DEF Started, Lending
<1>6. Open' = Open
    BY SMTT(30), <1>1 DEF Open
<1>7. \A l \in Open' : leases'[l].service \in Services /\ leases'[l].grant \in Grants
    BY SMTT(30), <1>1, <1>6 DEF Lending
<1>8. CASE upload.lease = 0
    <2>1. upload' = NoUpload
        BY <1>1, <1>8 DEF Lending
    <2>2. op'["restore"].kind \notin {"write", "finish"}
        <3>1. op["restore"].kind \notin {"write", "finish"} /\ kind \notin {"write", "finish"}
            BY SMTT(30), <1>8 DEF Lending, Started
        <3> QED
            BY ZenonT(40), <1>1, <3>1 DEF Bounds
    <2> QED
        BY SMTT(30), <1>1, <1>4, <1>5, <1>7, <1>8, <2>1, <2>2 DEF Lending
<1>9. CASE upload.lease /= 0
    <2>1. leases'[upload'.lease].copies > 0 /\ leases'[upload'.lease].service = "restore"
        BY <1>1, <1>9 DEF Lending
    <2>2. op'["restore"].kind /= "begin"
        <3>1. op["restore"].kind /= "begin" /\ kind /= "begin"
            BY SMTT(30), <1>9 DEF Lending, Started
        <3> QED
            BY ZenonT(40), <1>1, <3>1 DEF Bounds
    <2> QED
        BY SMTT(30), <1>1, <1>4, <1>5, <1>7, <1>9, <2>1, <2>2 DEF Lending
<1> QED
    BY SMTT(30), <1>8, <1>9

(* An upload keeps a copy of its own of the handle it was begun on.        *)
LEMMA UploadLending ==
    ASSUME Bounds, Types, Lending, NEW s \in Services, ReturnsUpload(s), NoMore, op'[s] = Idle
    PROVE  Lending'
<1>1. PICK l \in op[s].lent, size \in ValueSizes :
          /\ upload' = [lease |-> l, size |-> size, written |-> 0, failed |-> FALSE]
          /\ leases' = [leases EXCEPT ![l].copies = @ + 1]
    BY ZenonT(40) DEF ReturnsUpload
<1>2. s = "restore" /\ upload.lease = 0 /\ l \in LeaseIds /\ l /= 0
    BY DEF Lending, ReturnsUpload, Types, Operation, LeaseIds
<1>3. /\ \A k \in LeaseIds : k /= l => leases'[k] = leases[k]
      /\ leases'[l].copies = leases[l].copies + 1 /\ leases[l].copies \in Nat
      /\ leases'[l].service = leases[l].service /\ leases'[l].grant = leases[l].grant
    BY ZenonT(40), <1>1, <1>2, CloneIs, LeaseFields DEF Others, Copied
<1>4. leases[l].service = s /\ leases[l].copies > 0
    BY SMTT(30), <1>2, <1>3 DEF Lending, UploadCopies
<1>5. \A k \in Open' : leases'[k].service \in Services /\ leases'[k].grant \in Grants
    BY <1>2, <1>3, <1>4 DEF Lending, Open
<1>6. ASSUME NEW t \in Services, NEW k \in op'[t].lent
      PROVE  leases'[k].service = t /\ leases'[k].copies > UploadCopies(k)'
    <2>1. k \in op[t].lent /\ k \in LeaseIds /\ leases[k].copies \in Nat
        BY ZenonT(40), <1>6 DEF NoMore, Types, Operation, Lease
    <2>2. leases[k].service = t /\ leases[k].copies > 0
        BY <2>1 DEF Lending, UploadCopies
    <2>3. UploadCopies(k)' = IF k = l THEN 1 ELSE 0
        BY <1>1 DEF UploadCopies
    <2>4. CASE k = l
        BY <1>3, <2>1, <2>2, <2>3, <2>4
    <2>5. CASE k /= l
        BY SMTT(30), <1>3, <2>1, <2>2, <2>3, <2>5
    <2> QED
        BY <2>4, <2>5
<1>7. \A t \in Services : op'[t].kind \in {"create", "begin", "write", "finish"} => t = "restore"
    BY DEF NoMore, Lending
<1>8. /\ upload'.lease = l /\ upload'.lease /= 0 /\ leases'[l].copies > 0
      /\ leases'[l].service = "restore" /\ op'["restore"].kind /= "begin"
    BY SMTT(30), <1>1, <1>2, <1>3, <1>4 DEF Idle
<1> QED
    BY <1>5, <1>6, <1>7, <1>8 DEF Lending

(* A caller drops only a copy that neither an operation nor the upload     *)
(* uses.                                                                   *)
LEMMA CloseLending ==
    ASSUME Bounds, Types, Lending, CloseHandle
    PROVE  Lending'
<1>1. PICK l \in Callers : /\ Borrowed(l) => leases[l].copies > UploadCopies(l) + 1
                           /\ leases' = DropCopy(l)
    BY DEF CloseHandle
<1>2. /\ l \in Open /\ l \in LeaseIds /\ leases[l].copies \in Nat
      /\ leases[l].copies > UploadCopies(l) /\ UploadCopies(l) \in {0, 1}
    BY ZenonT(40) DEF Callers, Open, Types, Lease, UploadCopies
<1>3. \A k \in LeaseIds : k /= l => leases'[k] = leases[k]
    BY <1>1, <1>2, DropIs DEF Others, Open
<1>4. leases[l].copies /= 1 => /\ leases'[l].copies = leases[l].copies - 1
                               /\ leases'[l].service = leases[l].service
                               /\ leases'[l].grant = leases[l].grant
    BY <1>1, <1>2, DropIs DEF Copied, Open
<1>5. leases[l].copies = 1 => leases'[l].copies = 0
    BY SMTT(30), <1>1, <1>2, DropIs DEF Open
<1>6. \A k \in Open' : leases'[k].service \in Services /\ leases'[k].grant \in Grants
    BY SMTT(30), <1>2, <1>3, <1>4, <1>5 DEF Lending, Open
<1>7. \/ /\ leases'[l].service = leases[l].service /\ leases'[l].copies > 0
         /\ Borrowed(l) => leases'[l].copies > UploadCopies(l)
      \/ ~Borrowed(l) /\ upload.lease /= l
    BY <1>1, <1>2, <1>4 DEF UploadCopies
<1>8. \A k \in Open : k /= l => leases'[k] = leases[k]
    BY SMTT(30), <1>3 DEF Open
<1>9. NoMore /\ UNCHANGED upload
    BY SMTT(30) DEF NoMore, CloseHandle
<1> QED
    BY <1>6, <1>7, <1>8, <1>9, KeptLending

(* An operation that ends borrows nothing any more.                        *)
LEMMA EndsNoMore ==
    ASSUME Types, NEW s \in Services, op' = [op EXCEPT ![s] = Idle]
    PROVE  NoMore /\ op'[s] = Idle
    BY DEF NoMore, Types, Idle

LEMMA EndsRestore ==
    ASSUME Types, Lending, NEW s \in Services, op[s].kind = "finish",
           op' = [op EXCEPT ![s] = Idle]
    PROVE  /\ s = "restore" /\ upload.lease /= 0
           /\ op'["restore"].kind \notin {"write", "finish"}
<1>1. s = "restore"
    BY DEF Lending
<1>2. upload.lease /= 0
    BY <1>1 DEF Lending
<1>3. op'["restore"].kind = "idle"
    <2>1. op'[s] = Idle
        BY Zenon, EndsNoMore
    <2> QED
        BY <1>1, <2>1 DEF Idle
<1> QED
    BY SMTT(30), <1>1, <1>2, <1>3

LEMMA LendingStep ==
    ASSUME Bounds, Types, Permits, Lending, AdmissionNext
    PROVE  Lending'
<1>1. ASSUME UNCHANGED leases, upload'.lease = upload.lease,
             upload.lease = 0 => upload' = upload, NoMore
      PROVE  Lending'
    <2>1. \A l \in Open' : leases'[l].service \in Services /\ leases'[l].grant \in Grants
        BY <1>1 DEF Lending, Open
    <2> QED
        BY SMTT(30), <1>1, <2>1, KeptLending
<1>2. ASSUME UNCHANGED <<op, leases, upload>>
      PROVE  Lending'
    BY <1>1, <1>2 DEF NoMore
<1>3. ASSUME NEW s \in Services, Refused(s)
      PROVE  Lending'
    <2>1. NoMore
        BY Zenon, <1>3, EndsNoMore DEF Refused
    <2>2. CASE op[s].kind = "finish"
        BY ZenonT(40), <1>3, <2>1, <2>2, EndsRestore, ReleaseLending DEF Refused
    <2>3. CASE op[s].kind /= "finish"
        BY <1>1, <1>3, <2>1, <2>3 DEF Refused
    <2> QED
        BY <2>2, <2>3
<1>4. ASSUME NEW s \in Services, Starts(s)
      PROVE  Lending'
    BY <1>4, StartsForm, StartLending
<1>5. ASSUME NEW s \in Services, Admit(s), ~Refused(s)
      PROVE  Lending'
    <2>1. NoMore
        <3>1. op' = [op EXCEPT ![s] = Admitted(s, Head(op[s].want))]
            BY Zenon, <1>5 DEF Admit
        <3>2. op'[s].lent = op[s].lent /\ op'[s].kind = op[s].kind
            BY <3>1 DEF Admitted, Types, Operation
        <3>3. \A t \in Services : t /= s => op'[t] = op[t]
            BY ZenonT(40), <3>1 DEF Types
        <3> QED
            BY Zenon, <3>2, <3>3 DEF NoMore
    <2>2. UNCHANGED <<leases, upload>>
        BY <1>5 DEF Admit
    <2> QED
        BY <1>1, <2>1, <2>2
<1>6. ASSUME NEW s \in Services, CallProvider(s), ~Refused(s)
      PROVE  Lending'
    <2>1. NoMore
        <3>1. op' = [op EXCEPT ![s].calling = TRUE]
            BY Zenon, <1>6 DEF CallProvider
        <3>2. op'[s].lent = op[s].lent /\ op'[s].kind = op[s].kind
            BY <3>1 DEF Types, Operation
        <3>3. \A t \in Services : t /= s => op'[t] = op[t]
            BY Zenon, <3>1 DEF Types
        <3> QED
            BY Zenon, <3>2, <3>3 DEF NoMore
    <2>2. UNCHANGED leases /\ upload' = [upload EXCEPT !.failed = @ \/ op[s].kind = "write"]
        BY <1>6 DEF CallProvider
    <2>3. upload'.lease = upload.lease
        BY <2>2 DEF Types, Upload
    <2>4. upload.lease = 0 => op[s].kind /= "write"
        BY DEF Lending
    <2>5. upload.lease = 0 => upload' = upload
        BY SMTT(30), <2>2, <2>4 DEF Types, Upload
    <2> QED
        BY <1>1, <2>1, <2>2, <2>3, <2>5
<1>7. ASSUME NEW s \in Services, Returns(s)
      PROVE  Lending'
    <2>1. op' = [op EXCEPT ![s] = Idle]
        BY Zenon, <1>7 DEF Returns, Finish, Fails, ReturnsPlain, ReturnsHandle, ReturnsUpload,
            ReturnsWrite, ReturnsPublished
    <2>2. NoMore /\ op'[s] = Idle
        BY ZenonT(40), <2>1, EndsNoMore
    <2>3. CASE (Fails(s) \/ ReturnsPublished(s)) /\ op[s].kind = "finish"
        <3>1. ReleaseUpload
            BY SMTT(30), <2>3 DEF Fails, ReturnsPublished
        <3> QED
            BY ZenonT(40), <2>1, <2>2, <2>3, <3>1, EndsRestore, ReleaseLending
    <2>4. CASE (Fails(s) /\ op[s].kind /= "finish") \/ ReturnsPlain(s)
        BY SMTT(30), <1>1, <2>2, <2>4 DEF Fails, ReturnsPlain
    <2>5. CASE ReturnsHandle(s)
        <3>1. PICK l \in LeaseIds \ Open, g \in op[s].under :
                  leases' = [leases EXCEPT ![l] = [service |-> s, grant |-> g, copies |-> 1]]
            BY <2>5 DEF ReturnsHandle
        <3>2. g \in Grants
            BY DEF Types, Operation
        <3>3. /\ leases'[l].service = s /\ leases'[l].grant = g
              /\ \A k \in LeaseIds : k /= l => leases'[k] = leases[k]
            BY ZenonT(40), <3>1, <3>2, NewIs DEF Others
        <3>4. \A k \in Open' : leases'[k].service \in Services /\ leases'[k].grant \in Grants
            BY SMTT(30), <3>2, <3>3 DEF Lending, Open
        <3>5. \A k \in Open : leases'[k] = leases[k]
            BY <3>3 DEF Open
        <3> QED
            BY ZenonT(40), <2>2, <2>5, <3>4, <3>5, KeptLending DEF ReturnsHandle
    <2>6. CASE ReturnsUpload(s)
        BY <2>2, <2>6, UploadLending
    <2>7. CASE ReturnsWrite(s)
        <3>1. PICK n \in 1 .. upload.size - upload.written :
                  upload' = [upload EXCEPT !.written = @ + n, !.failed = FALSE]
            BY ZenonT(40), <2>7 DEF ReturnsWrite
        <3>2. upload'.lease = upload.lease
            BY <3>1 DEF Types, Upload
        <3>3. upload.lease /= 0
            BY <2>7 DEF Lending, ReturnsWrite
        <3> QED
            BY <1>1, <2>2, <2>7, <3>2, <3>3 DEF ReturnsWrite
    <2>8. ReturnsPublished(s) => op[s].kind = "finish"
        BY SMTT(30) DEF ReturnsPublished
    <2> QED
        BY SMTT(30), <1>7, <2>3, <2>4, <2>5, <2>6, <2>7, <2>8 DEF Returns
<1>8. CASE CloneHandle
    <2>1. PICK l \in Callers : leases' = [leases EXCEPT ![l].copies = @ + 1]
        BY ZenonT(40), <1>8 DEF CloneHandle
    <2>2. l \in Open /\ l \in LeaseIds
        BY DEF Callers, Open
    <2>3. /\ \A k \in LeaseIds : k /= l => leases'[k] = leases[k]
          /\ leases'[l].copies = leases[l].copies + 1 /\ leases[l].copies \in Nat
          /\ leases'[l].service = leases[l].service /\ leases'[l].grant = leases[l].grant
        BY ZenonT(40), <2>1, <2>2, CloneIs, LeaseFields DEF Others, Copied
    <2>4. \A k \in Open' : leases'[k].service \in Services /\ leases'[k].grant \in Grants
        BY SMTT(30), <2>2, <2>3 DEF Lending, Open
    <2>5. leases'[l].copies > UploadCopies(l) /\ leases'[l].copies > 0
        BY <2>3 DEF Callers, UploadCopies
    <2>6. NoMore /\ UNCHANGED upload
        BY SMTT(30), <1>8 DEF NoMore, CloneHandle
    <2>7. \A k \in Open : k /= l => leases'[k] = leases[k]
        BY <2>3 DEF Open
    <2> QED
        BY <2>3, <2>4, <2>5, <2>6, <2>7, KeptLending
<1>9. CASE CloseHandle
    BY <1>9, CloseLending
<1>10. CASE AbortUpload
    <2>1. upload.lease /= 0 /\ ReleaseUpload /\ UNCHANGED op
        BY <1>10 DEF AbortUpload, Lending
    <2>2. op'["restore"].kind \notin {"write", "finish"}
        BY SMTT(30), <1>10, <2>1 DEF AbortUpload, UploadBorrowed, Bounds
    <2> QED
        BY SMTT(30), <2>1, <2>2, ReleaseLending DEF NoMore
<1>11. ASSUME NEW r \in Revokers, BeginRevoke(r) \/ FinishRevoke(r)
      PROVE  Lending'
    BY <1>2, <1>11 DEF BeginRevoke, FinishRevoke
<1> QED
    BY SMTT(30), <1>3, <1>4, <1>5, <1>6, <1>7, <1>8, <1>9, <1>10, <1>11 DEF AdmissionNext, Runs
=============================================================================
