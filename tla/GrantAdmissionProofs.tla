------------------------ MODULE GrantAdmissionProofs ------------------------
(***************************************************************************)
(* Proofs about GrantAdmission, for any services, grants, host threads and *)
(* budgets: a grant whose revoke has returned is quiet, budgets account for*)
(* every handle, and values are published whole.                           *)
(***************************************************************************)
EXTENDS GrantLending

-----------------------------------------------------------------------------
(* Budgets. *)

(* The units besides the handles, before and after a step.                 *)
LEMMA Units ==
    ASSUME Types, Types', Lending, Lending', NEW t \in Services
    PROVE  /\ UploadUnit(t) = IF upload.lease /= 0 /\ t = "restore" THEN 1 ELSE 0
           /\ UploadUnit(t)' = IF upload'.lease /= 0 /\ t = "restore" THEN 1 ELSE 0
           /\ ReservedUnit(t) \in {0, 1} /\ EarlyUnit(t) \in {0, 1}
           /\ used[t] \in Int /\ used'[t] \in Int
<1>1. UploadUnit(t) = IF upload.lease /= 0 /\ t = "restore" THEN 1 ELSE 0
    BY DEF Lending, UploadUnit, NoUpload
<1>2. UploadUnit(t)' = IF upload'.lease /= 0 /\ t = "restore" THEN 1 ELSE 0
    BY DEF Lending, UploadUnit, NoUpload
<1>3. ReservedUnit(t) \in {0, 1} /\ EarlyUnit(t) \in {0, 1}
    BY DEF ReservedUnit, EarlyUnit
<1>4. used[t] \in Int /\ used'[t] \in Int
    BY DEF Types
<1> QED
    BY <1>1, <1>2, <1>3, <1>4

(* Units that are neither a handle's nor the upload's.                     *)
Spare(t) == used[t] - Cardinality(Own(t)) - UploadUnit(t)

(* A step that leaves a service's operation alone only returns units.      *)
LEMMA OtherBudget ==
    ASSUME Bounds, Types, Types', Lending, Lending', NEW t \in Services, Budget(t),
           op'[t] = op[t], Spare(t)' = Spare(t), used'[t] <= used[t]
    PROVE  Budget(t)'
<1>1. Cardinality(Own(t)) \in Nat /\ Cardinality(Own(t))' \in Nat
    BY OwnFinite, OwnFinitePrime
<1>2. ReservedUnit(t)' = ReservedUnit(t) /\ Early(t)' = Early(t)
    BY ZenonT(40) DEF ReservedUnit, EarlyUnit, Early
<1>3. /\ UploadUnit(t) \in {0, 1} /\ UploadUnit(t)' \in {0, 1} /\ ReservedUnit(t) \in {0, 1}
      /\ used[t] \in Int /\ used'[t] \in Int
    BY Units
<1>4. used'[t] = Cardinality(Own(t))' + UploadUnit(t)' + ReservedUnit(t)'
    <2>1. /\ used[t] = Cardinality(Own(t)) + UploadUnit(t) + ReservedUnit(t)
          /\ used'[t] - Cardinality(Own(t))' - UploadUnit(t)'
                = used[t] - Cardinality(Own(t)) - UploadUnit(t)
        BY Zenon DEF Budget, Spare
    <2> QED
        <3> DEFINE u == used[t]  v == used'[t]
        <3> DEFINE c == Cardinality(Own(t))  d == Cardinality(Own(t))'
        <3> DEFINE p == UploadUnit(t)  q == UploadUnit(t)'  r == ReservedUnit(t)
        <3>1. c \in Int /\ d \in Int /\ p \in Int /\ q \in Int /\ r \in Int /\ u \in Int /\ v \in Int
            BY <1>1, <1>3
        <3>2. u = c + p + r /\ v - d - q = u - c - p
            BY Zenon, <2>1
        <3> HIDE DEF u, v, c, d, p, q, r
        <3>3. v = d + q + r
            BY <3>1, <3>2
        <3> QED
            BY Zenon, <1>2, <3>3 DEF v, d, q, r
<1>5. used'[t] <= MaxHandles
    BY <1>3 DEF Budget, Bounds
<1>6. op'[t].calling /\ MakesHandle(op'[t].kind) /\ ~Early(t)' => used'[t] < MaxHandles
    BY <1>2, <1>3 DEF Budget, Bounds
<1> QED
    BY ZenonT(40), <1>4, <1>5, <1>6 DEF Budget

(* A service without a call has only the units of handles and the upload.  *)
LEMMA QuietBudget ==
    ASSUME Bounds, Types, Types', Lending, Lending', NEW t \in Services,
           ~op'[t].calling, Spare(t)' = 0, used'[t] <= MaxHandles
    PROVE  Budget(t)'
<1>1. Cardinality(Own(t))' \in Nat
    BY OwnFinitePrime
<1>2. ReservedUnit(t)' = 0
    BY DEF ReservedUnit
<1>3. UploadUnit(t)' \in {0, 1} /\ used'[t] \in Int
    BY Units
<1>4. used'[t] = Cardinality(Own(t))' + UploadUnit(t)' + ReservedUnit(t)'
    BY <1>1, <1>2, <1>3 DEF Spare
<1> QED
    BY <1>4 DEF Budget

(* A released upload returns its unit and, with the last copy, the         *)
(* handle's.                                                               *)
LEMMA ReleaseBudget ==
    ASSUME Bounds, Types, Types', Lending, Lending', NEW t \in Services, upload.lease /= 0,
           ReleaseUpload
    PROVE  Spare(t)' = Spare(t) /\ used'[t] <= used[t]
<1> DEFINE l == upload.lease
<1>1. l \in Open /\ leases[l].service = "restore" /\ "restore" \in Services
    BY DEF Lending, Types, Upload, Open, Bounds
<1>2. /\ upload'.lease = 0 /\ leases' = DropCopy(l)
      /\ used' = [used EXCEPT !["restore"] = @ - (UnitBack(l) + 1)]
    BY <1>1 DEF ReleaseUpload, NoUpload
<1>3. UnitBack(l) \in {0, 1}
    BY DEF UnitBack
<1> HIDE DEF l
<1>4. Cardinality(Own(t)) \in Nat /\ used[t] \in Int /\ UploadUnit(t)' = 0
    BY <1>2, OwnFinite, Units
<1>5. CASE t = "restore"
    <2>1. Cardinality(Own(t))' = Cardinality(Own(t)) - UnitBack(l)
        BY <1>1, <1>2, <1>5, DropCopyOwn
    <2>2. used'[t] = used[t] - UnitBack(l) - 1
        <3>1. used'[t] = used[t] - (UnitBack(l) + 1)
            BY Zenon, <1>1, <1>2, <1>5 DEF Types
        <3> QED
            BY <1>3, <1>4, <3>1
    <2>3. UploadUnit(t) = 1
        BY <1>5, Units
    <2> QED
        BY <1>3, <1>4, <2>1, <2>2, <2>3 DEF Spare
<1>6. CASE t /= "restore"
    <2>1. Cardinality(Own(t))' = Cardinality(Own(t))
        BY <1>1, <1>2, <1>6, DropCopyOwn
    <2>2. used'[t] = used[t]
        BY <1>2, <1>6 DEF Types
    <2>3. UploadUnit(t) = 0
        BY <1>6, Units
    <2> QED
        BY <1>4, <2>1, <2>2, <2>3 DEF Spare
<1> QED
    BY <1>5, <1>6

(* A reserved unit becomes a new handle's, or the upload's.                *)
LEMMA SpareSpent ==
    ASSUME NEW t, NEW e \in Int,
           /\ Cardinality(Own(t)) \in Int /\ Cardinality(Own(t))' \in Int
           /\ UploadUnit(t) \in Int /\ UploadUnit(t)' \in Int
           /\ used[t] \in Int /\ used'[t] \in Int,
           \/ /\ used'[t] = used[t] + 1 - e /\ UploadUnit(t)' = UploadUnit(t)
              /\ Cardinality(Own(t))' = Cardinality(Own(t)) + 1
           \/ /\ used'[t] = used[t] /\ UploadUnit(t)' = UploadUnit(t) + e
              /\ Cardinality(Own(t))' = Cardinality(Own(t))
    PROVE  Spare(t)' = Spare(t) - e
<1> DEFINE u == used[t]  v == used'[t]
<1> DEFINE c == Cardinality(Own(t))  d == Cardinality(Own(t))'
<1> DEFINE p == UploadUnit(t)  q == UploadUnit(t)'
<1>1. c \in Int /\ d \in Int /\ p \in Int /\ q \in Int /\ u \in Int /\ v \in Int
    OBVIOUS
<1>2. (v = u + 1 - e /\ q = p /\ d = c + 1) \/ (v = u /\ q = p + e /\ d = c)
    OBVIOUS
<1> HIDE DEF u, v, c, d, p, q
<1>3. v - d - q = u - c - p - e
    BY <1>1, <1>2
<1> QED
    BY Zenon, <1>3 DEF u, v, c, d, p, q, Spare

(* A handle that leaves takes its unit with it.                            *)
LEMMA SpareKept ==
    ASSUME NEW t, NEW e \in Int,
           /\ Cardinality(Own(t)) \in Int /\ Cardinality(Own(t))' \in Int
           /\ UploadUnit(t) \in Int /\ UploadUnit(t)' \in Int
           /\ used[t] \in Int /\ used'[t] \in Int,
           used'[t] = used[t] - e, Cardinality(Own(t))' = Cardinality(Own(t)) - e,
           UploadUnit(t)' = UploadUnit(t)
    PROVE  Spare(t)' = Spare(t)
<1> DEFINE u == used[t]  v == used'[t]
<1> DEFINE c == Cardinality(Own(t))  d == Cardinality(Own(t))'
<1> DEFINE p == UploadUnit(t)  q == UploadUnit(t)'
<1>1. /\ c \in Int /\ d \in Int /\ p \in Int /\ q \in Int /\ u \in Int /\ v \in Int
      /\ v = u - e /\ d = c - e /\ q = p
    OBVIOUS
<1> HIDE DEF u, v, c, d, p, q
<1>2. v - d - q = u - c - p
    BY <1>1
<1> QED
    BY Zenon, <1>2 DEF u, v, c, d, p, q, Spare

(* A provider's return turns the reserved unit into a handle's or the      *)
(* upload's, or gives it back.                                             *)
LEMMA ReturnsBudget ==
    ASSUME Bounds, Types, Types', Permits, Lending, Lending', NEW s \in Services, Returns(s),
           NEW t \in Services, Budget(t)
    PROVE  Budget(t)'
<1>1. /\ Cardinality(Own(t)) \in Nat /\ Cardinality(Own(t))' \in Nat
      /\ UploadUnit(t) \in {0, 1} /\ UploadUnit(t)' \in {0, 1}
      /\ EarlyUnit(t) \in {0, 1}
      /\ used[t] \in Int /\ used'[t] \in Int /\ MaxHandles \in Int
    BY OwnFinite, OwnFinitePrime, Units DEF Bounds
<1>int. /\ Cardinality(Own(t)) \in Int /\ Cardinality(Own(t))' \in Int
       /\ UploadUnit(t) \in Int /\ UploadUnit(t)' \in Int /\ EarlyUnit(t) \in Int
       /\ used[t] \in Int /\ used'[t] \in Int
    BY <1>1
<1>2. op' = [op EXCEPT ![s] = Idle] /\ op[s].calling
    BY ZenonT(40) DEF Returns, Finish, Fails, ReturnsPlain, ReturnsHandle, ReturnsUpload,
        ReturnsWrite, ReturnsPublished
<1>3. t = s => /\ Spare(t) = EarlyUnit(t) /\ used[t] <= MaxHandles
               /\ MakesHandle(op[t].kind) /\ EarlyUnit(t) = 0 => used[t] < MaxHandles
    BY <1>1, <1>2 DEF Spare, Budget, ReservedUnit, EarlyUnit
<1>4. t = s => ~op'[t].calling
    BY <1>2 DEF Types, Idle
<1>5. t /= s => op'[t] = op[t]
    BY <1>2 DEF Types
<1>6. ASSUME t = s => /\ Spare(t)' = Spare(t) - EarlyUnit(t)
                      /\ used'[t] <= MaxHandles,
             t /= s => Spare(t)' = Spare(t) /\ used'[t] <= used[t]
      PROVE  Budget(t)'
    <2>1. CASE t = s
        <3>1. Spare(t)' = 0
            BY <1>1, <1>3, <1>6, <2>1
        <3> QED
            BY <1>4, <1>6, <2>1, <3>1, QuietBudget
    <2>2. CASE t /= s
        BY ZenonT(40), <1>5, <1>6, <2>2, OtherBudget
    <2> QED
        BY <2>1, <2>2
<1>7. ASSUME UNCHANGED leases, upload'.lease = upload.lease
      PROVE  Cardinality(Own(t))' = Cardinality(Own(t)) /\ UploadUnit(t)' = UploadUnit(t)
    <2>1. Own(t)' = Own(t)
        BY <1>7 DEF Own, Open
    <2> QED
        BY <1>7, <2>1, Units
<1>8. ~MakesHandle(op[s].kind) /\ t = s => EarlyUnit(t) = 0
    BY DEF EarlyUnit, Early
<1>9. CASE (Fails(s) \/ ReturnsPublished(s)) /\ op[s].kind = "finish"
    <2>1. ReleaseUpload /\ upload.lease /= 0
        BY ZenonT(40), <1>2, <1>9, EndsRestore DEF Fails, ReturnsPublished
    <2>2. Spare(t)' = Spare(t) /\ used'[t] <= used[t]
        BY <2>1, ReleaseBudget
    <2>3. ~MakesHandle(op[s].kind)
        BY <1>9 DEF MakesHandle
    <2>4. Spare(t) \in Int
        BY <1>1 DEF Spare
    <2>5. t = s => Spare(t)' = Spare(t) - EarlyUnit(t) /\ used'[t] <= MaxHandles
        <3> SUFFICES ASSUME t = s
                     PROVE  Spare(t)' = Spare(t) - EarlyUnit(t) /\ used'[t] <= MaxHandles
            OBVIOUS
        <3>1. EarlyUnit(t) = 0
            BY Zenon, <1>8, <2>3
        <3>2. used[t] <= MaxHandles
            BY Zenon, <1>3
        <3> QED
            BY <1>1, <2>2, <2>4, <3>1, <3>2
    <2> QED
        BY <1>6, <2>2, <2>5
<1>10. CASE Fails(s) /\ op[s].kind /= "finish"
    <2>1. used' = [used EXCEPT ![s] = @ - EarlyUnit(s)] /\ UNCHANGED <<upload, leases>>
        BY <1>10 DEF Fails
    <2>2. /\ t = s => used'[t] = used[t] - EarlyUnit(t)
          /\ t /= s => used'[t] = used[t]
        BY <2>1 DEF Types
    <2>3. /\ t = s => Spare(t)' = Spare(t) - EarlyUnit(t) /\ used'[t] <= MaxHandles
          /\ t /= s => Spare(t)' = Spare(t) /\ used'[t] <= used[t]
        BY <1>1, <1>3, <1>7, <2>1, <2>2 DEF Spare
    <2> QED
        BY ZenonT(40), <1>6, <2>3
<1>11. CASE ReturnsPlain(s) \/ ReturnsWrite(s)
    <2>1. UNCHANGED <<leases, used>> /\ upload'.lease = upload.lease
        BY ZenonT(40), <1>11 DEF ReturnsPlain, ReturnsWrite, Types, Upload
    <2>2. ~MakesHandle(op[s].kind)
        BY ZenonT(40), <1>11 DEF ReturnsPlain, ReturnsWrite, MakesHandle
    <2>3. /\ t = s => Spare(t)' = Spare(t) - EarlyUnit(t) /\ used'[t] <= MaxHandles
          /\ t /= s => Spare(t)' = Spare(t) /\ used'[t] <= used[t]
        <3>0. Cardinality(Own(t))' = Cardinality(Own(t)) /\ UploadUnit(t)' = UploadUnit(t)
            BY Zenon, <1>7, <2>1
        <3>1. CASE t = s
            <4>1. EarlyUnit(t) = 0 /\ used[t] <= MaxHandles
                BY Zenon, <1>3, <1>8, <2>2, <3>1
            <4> QED
                BY <1>1, <2>1, <3>0, <4>1 DEF Spare
        <3>2. CASE t /= s
            BY <1>1, <2>1, <3>0, <3>2 DEF Spare
        <3> QED
            BY Zenon, <3>1, <3>2
    <2> QED
        BY ZenonT(40), <1>6, <2>3
<1>12. CASE ReturnsHandle(s)
    <2>1. PICK l \in LeaseIds \ Open, g \in op[s].under :
              leases' = [leases EXCEPT ![l] = [service |-> s, grant |-> g, copies |-> 1]]
        BY <1>12 DEF ReturnsHandle
    <2>2. used' = [used EXCEPT ![s] = @ + 1 - EarlyUnit(s)] /\ UNCHANGED upload
        BY <1>12 DEF ReturnsHandle
    <2>3. UploadUnit(t)' = UploadUnit(t)
        BY <2>2, Units
    <2>4. /\ t = s => Cardinality(Own(t))' = Cardinality(Own(t)) + 1
          /\ t /= s => Cardinality(Own(t))' = Cardinality(Own(t))
        <3>1. g \in Grants
            BY DEF Types, Operation
        <3> QED
            BY ZenonT(40), <2>1, <3>1, NewLeaseOwn
    <2>5. /\ t = s => used'[t] = used[t] + 1 - EarlyUnit(t)
          /\ t /= s => used'[t] = used[t]
        BY <2>2 DEF Types
    <2>6. t = s => MakesHandle(op[t].kind)
        BY <1>12 DEF ReturnsHandle, MakesHandle
    <2>7. /\ t = s => Spare(t)' = Spare(t) - EarlyUnit(t) /\ used'[t] <= MaxHandles
          /\ t /= s => Spare(t)' = Spare(t) /\ used'[t] <= used[t]
        <3>1. CASE t = s
            <4>1. used[t] <= MaxHandles /\ (EarlyUnit(t) = 0 => used[t] < MaxHandles)
                BY Zenon, <1>3, <2>6, <3>1
            <4>2. used'[t] = used[t] + 1 - EarlyUnit(t)
                BY Zenon, <2>5, <3>1
            <4>3. Cardinality(Own(t))' = Cardinality(Own(t)) + 1
                BY Zenon, <2>4, <3>1
            <4> QED
                <5>1. used'[t] <= MaxHandles
                    BY <1>1, <4>1, <4>2
                <5>2. Spare(t)' = Spare(t) - EarlyUnit(t)
                    BY Zenon, <1>int, <2>3, <4>2, <4>3, SpareSpent
                <5> QED
                    BY Zenon, <3>1, <5>1, <5>2
        <3>2. CASE t /= s
            BY <1>1, <2>3, <2>4, <2>5, <3>2 DEF Spare
        <3> QED
            BY Zenon, <3>1, <3>2
    <2> QED
        BY <1>6, <2>7
<1>13. CASE ReturnsUpload(s)
    <2>1. PICK l \in op[s].lent, size \in ValueSizes :
              /\ upload' = [lease |-> l, size |-> size, written |-> 0, failed |-> FALSE]
              /\ leases' = [leases EXCEPT ![l].copies = @ + 1]
        BY Zenon, <1>13 DEF ReturnsUpload
    <2>2. s = "restore" /\ upload.lease = 0 /\ l \in LeaseIds /\ l /= 0
        BY <1>13 DEF Lending, ReturnsUpload, Types, Operation, LeaseIds
    <2>3. leases[l].copies > UploadCopies(l)
        BY DEF Lending
    <2>4. l \in Open
        BY <2>2, <2>3 DEF Open, UploadCopies, Types, Lease
    <2>5. Own(t)' = Own(t)
        BY ZenonT(40), <2>1, <2>4, CloneOwn
    <2>6. t = s => UploadUnit(t) = 0 /\ UploadUnit(t)' = 1 /\ EarlyUnit(t) = 1
        BY <1>13, <2>1, <2>2, Units DEF EarlyUnit, Early, MakesHandle, ReturnsUpload
    <2>7. t /= s => UploadUnit(t)' = UploadUnit(t)
        BY <2>2, Units
    <2>8. UNCHANGED used
        BY <1>13 DEF ReturnsUpload
    <2>9. /\ t = s => Spare(t)' = Spare(t) - EarlyUnit(t) /\ used'[t] <= MaxHandles
          /\ t /= s => Spare(t)' = Spare(t) /\ used'[t] <= used[t]
        <3>1. CASE t = s
            <4>1. used[t] <= MaxHandles
                BY Zenon, <1>3, <3>1
            <4>2. UploadUnit(t) = 0 /\ UploadUnit(t)' = 1 /\ EarlyUnit(t) = 1
                BY Zenon, <2>6, <3>1
            <4>3. Cardinality(Own(t))' = Cardinality(Own(t))
                BY Zenon, <2>5
            <4> QED
                <5>1. used'[t] = used[t] /\ UploadUnit(t)' = UploadUnit(t) + EarlyUnit(t)
                    BY <2>8, <4>2
                <5>2. Spare(t)' = Spare(t) - EarlyUnit(t)
                    BY Zenon, <1>int, <4>3, <5>1, SpareSpent
                <5> QED
                    BY Zenon, <3>1, <4>1, <5>1, <5>2
        <3>2. CASE t /= s
            BY <1>1, <2>5, <2>7, <2>8, <3>2 DEF Spare
        <3> QED
            BY Zenon, <3>1, <3>2
    <2> QED
        BY <1>6, <2>9
<1>14. ReturnsPublished(s) => op[s].kind = "finish"
    BY DEF ReturnsPublished
<1> QED
    BY ZenonT(40), <1>9, <1>10, <1>11, <1>12, <1>13, <1>14 DEF Returns

LEMMA BudgetStep ==
    ASSUME Bounds, Types, Types', Permits, Lending, Lending', AdmissionNext,
           NEW t \in Services, Budget(t)
    PROVE  Budget(t)'
<1>1. /\ Cardinality(Own(t)) \in Nat /\ Cardinality(Own(t))' \in Nat
      /\ UploadUnit(t) \in {0, 1} /\ UploadUnit(t)' \in {0, 1}
      /\ ReservedUnit(t) \in {0, 1} /\ EarlyUnit(t) \in {0, 1}
      /\ used[t] \in Int /\ used'[t] \in Int /\ MaxHandles \in Int
    BY OwnFinite, OwnFinitePrime, Units DEF Bounds
<1>int. /\ Cardinality(Own(t)) \in Int /\ Cardinality(Own(t))' \in Int
       /\ UploadUnit(t) \in Int /\ UploadUnit(t)' \in Int
       /\ used[t] \in Int /\ used'[t] \in Int
    BY <1>1
<1>2. /\ Spare(t) = ReservedUnit(t) /\ used[t] <= MaxHandles
      /\ ~op[t].calling => Spare(t) = 0
      /\ op[t].calling => Spare(t) = EarlyUnit(t)
    BY <1>1 DEF Spare, Budget, ReservedUnit
<1>3. ASSUME UNCHANGED leases, upload'.lease = upload.lease
      PROVE  Cardinality(Own(t))' = Cardinality(Own(t)) /\ UploadUnit(t)' = UploadUnit(t)
    <2>1. Own(t)' = Own(t)
        BY <1>3 DEF Own, Open
    <2> QED
        BY <1>3, <2>1, Units
<1>4. ASSUME UNCHANGED <<leases, used>>, upload'.lease = upload.lease
      PROVE  Spare(t)' = Spare(t) /\ used'[t] <= used[t]
    BY <1>1, <1>3, <1>4 DEF Spare
<1>5. ASSUME NEW s \in Services, Refused(s), ~op[s].calling
      PROVE  Budget(t)'
    <2>1. Spare(t)' = Spare(t) /\ used'[t] <= used[t]
        <3>1. CASE op[s].kind = "finish"
            BY ZenonT(40), <1>5, <3>1, EndsRestore, ReleaseBudget DEF Refused
        <3>2. CASE op[s].kind /= "finish"
            BY <1>4, <1>5, <3>2 DEF Refused
        <3> QED
            BY <3>1, <3>2
    <2>2. CASE t = s
        <3>1. ~op'[t].calling
            BY <1>5, <2>2 DEF Refused, Types, Idle
        <3> QED
            <4>1. Spare(t) = 0
                BY ZenonT(40), <1>2, <1>5, <2>2
            <4>2. used'[t] <= MaxHandles
                BY <1>1, <1>2, <2>1
            <4> QED
                BY ZenonT(40), <2>1, <3>1, <4>1, <4>2, QuietBudget
    <2>3. CASE t /= s
        <3>1. op'[t] = op[t]
            BY <1>5, <2>3 DEF Refused, Types
        <3> QED
            BY <2>1, <3>1, OtherBudget
    <2> QED
        BY <2>2, <2>3
<1>6. ASSUME NEW s \in Services, Starts(s)
      PROVE  Budget(t)'
    <2>1. PICK kind, want, lent : Begin(s, kind, want, lent)
        BY <1>6, StartsForm DEF Started
    <2>2. Spare(t)' = Spare(t) /\ used'[t] <= used[t]
        BY ZenonT(40), <1>4, <2>1 DEF Begin
    <2>3. CASE t = s
        <3>1. ~op'[t].calling /\ ~op[t].calling
            <4>1. op[t] = Idle /\ op' = [op EXCEPT ![t] = [kind |-> kind,
                    under |-> {want[i] : i \in DOMAIN want}, want |-> want, held |-> {},
                    lent |-> lent, calling |-> FALSE]]
                BY Zenon, <2>1, <2>3 DEF Begin
            <4> QED
                BY <4>1 DEF Types, Idle
        <3> QED
            <4>1. Spare(t)' = 0
                BY Zenon, <1>2, <2>2, <3>1
            <4>2. used'[t] <= MaxHandles
                BY SMTT(30), <1>1, <1>2, <2>2
            <4> QED
                BY Zenon, <3>1, <4>1, <4>2, QuietBudget
    <2>4. CASE t /= s
        <3>1. op'[t] = op[t]
            BY ZenonT(40), <2>1, <2>4 DEF Begin, Types
        <3> QED
            BY ZenonT(40), <2>2, <3>1, OtherBudget
    <2> QED
        BY <2>3, <2>4
<1>7. ASSUME NEW s \in Services, Admit(s), ~Refused(s)
      PROVE  Budget(t)'
    <2>1. Spare(t)' = Spare(t) /\ used'[t] <= used[t]
        <3>1. UNCHANGED <<leases, used, upload>>
            BY ZenonT(40), <1>7 DEF Admit
        <3> QED
            BY Zenon, <1>4, <3>1
    <2>2. CASE t = s
        <3>1. ~op'[t].calling /\ ~op[t].calling
            <4>1. op' = [op EXCEPT ![s] = Admitted(s, Head(op[s].want))] /\ ~op[s].calling
                BY ZenonT(40), <1>7 DEF Admit
            <4> QED
                BY <2>2, <4>1 DEF Admitted, Types, Operation
        <3> QED
            <4>1. Spare(t)' = 0
                BY ZenonT(40), <1>2, <2>1, <3>1
            <4>2. used'[t] <= MaxHandles
                BY <1>1, <1>2, <2>1
            <4> QED
                BY Zenon, <3>1, <4>1, <4>2, QuietBudget
    <2>3. CASE t /= s
        <3>1. op'[t] = op[t]
            BY <1>7, <2>3 DEF Admit, Types
        <3> QED
            BY SMTT(30), <2>1, <3>1, OtherBudget
    <2> QED
        BY <2>2, <2>3
<1>8. ASSUME NEW s \in Services, CallProvider(s), ~Refused(s)
      PROVE  Budget(t)'
    <2>1. /\ Acceptable(s) /\ ~op[s].calling /\ op' = [op EXCEPT ![s].calling = TRUE]
          /\ used' = [used EXCEPT ![s] = @ + EarlyUnit(s)] /\ UNCHANGED leases
          /\ upload'.lease = upload.lease
        BY <1>8 DEF CallProvider, Types, Upload
    <2>2. CASE t = s
        <3>1. op'[t].calling /\ op'[t].kind = op[t].kind
            BY <2>1, <2>2 DEF Types, Operation
        <3>2. Early(t)' = Early(t) /\ ReservedUnit(t)' = EarlyUnit(t)
            BY <3>1 DEF Early, ReservedUnit, EarlyUnit
        <3>3. used'[t] = used[t] + EarlyUnit(t)
            BY <2>1, <2>2 DEF Types
        <3>4. used'[t] = Cardinality(Own(t))' + UploadUnit(t)' + ReservedUnit(t)'
            BY <1>1, <1>2, <1>3, <2>1, <2>2, <3>2, <3>3 DEF Spare
        <3>5. MakesHandle(op[t].kind) => used[t] < MaxHandles
            BY <2>1, <2>2 DEF Acceptable
        <3>6. ~MakesHandle(op[t].kind) => EarlyUnit(t) = 0
            BY DEF EarlyUnit, Early
        <3>7. ~Early(t) => EarlyUnit(t) = 0
            BY DEF EarlyUnit
        <3>8. used'[t] <= MaxHandles
            BY SMTT(30), <1>1, <1>2, <3>3, <3>5, <3>6
        <3>9. op'[t].calling /\ MakesHandle(op'[t].kind) /\ ~Early(t)' => used'[t] < MaxHandles
            BY SMTT(30), <1>1, <3>1, <3>2, <3>3, <3>5, <3>7
        <3> QED
            BY <3>4, <3>8, <3>9 DEF Budget
    <2>3. CASE t /= s
        <3>1. op'[t] = op[t] /\ used'[t] = used[t]
            BY <2>1, <2>3 DEF Types
        <3>2. Spare(t)' = Spare(t) /\ used'[t] <= used[t]
            BY <1>1, <1>3, <2>1, <3>1 DEF Spare
        <3> QED
            BY <3>1, <3>2, OtherBudget
    <2> QED
        BY <2>2, <2>3
<1>9. ASSUME NEW s \in Services, Returns(s)
      PROVE  Budget(t)'
    BY <1>9, ReturnsBudget
<1>10. CASE CloneHandle
    <2>1. PICK l \in Callers : leases' = [leases EXCEPT ![l].copies = @ + 1]
        BY ZenonT(40), <1>10 DEF CloneHandle
    <2>2. Own(t)' = Own(t)
        BY ZenonT(40), <2>1, CloneOwn DEF Callers
    <2>3. UNCHANGED <<op, used, upload>>
        BY <1>10 DEF CloneHandle
    <2>4. Spare(t)' = Spare(t) /\ used'[t] <= used[t]
        BY SMTT(30), <1>1, <2>2, <2>3, Units DEF Spare
    <2> QED
        BY ZenonT(40), <2>3, <2>4, OtherBudget
<1>11. CASE CloseHandle
    <2>1. PICK l \in Callers :
              /\ leases' = DropCopy(l)
              /\ used' = [used EXCEPT ![leases[l].service] = @ - UnitBack(l)]
        BY ZenonT(40), <1>11 DEF CloseHandle
    <2>2. l \in Open
        BY DEF Callers
    <2>3. UNCHANGED <<op, upload>>
        BY ZenonT(40), <1>11 DEF CloseHandle
    <2>4. UploadUnit(t)' = UploadUnit(t) /\ UnitBack(l) \in {0, 1}
        BY SMTT(30), <2>3, Units DEF UnitBack
    <2>5. CASE t = leases[l].service
        <3>1. used'[t] = used[t] - UnitBack(l)
            BY <2>1, <2>5 DEF Types
        <3>2. Cardinality(Own(t))' = Cardinality(Own(t)) - UnitBack(l)
            BY <2>1, <2>2, <2>5, DropCopyOwn
        <3>3. Spare(t)' = Spare(t) /\ used'[t] <= used[t]
            <4>1. UnitBack(l) \in Int /\ used'[t] <= used[t]
                BY SMTT(30), <1>1, <2>4, <3>1
            <4> QED
                BY ZenonT(40), <1>int, <2>4, <3>1, <3>2, <4>1, SpareKept
        <3> QED
            BY SMTT(30), <2>3, <3>3, OtherBudget
    <2>6. CASE t /= leases[l].service
        <3>1. used'[t] = used[t]
            BY <2>1, <2>6 DEF Types
        <3>2. Cardinality(Own(t))' = Cardinality(Own(t))
            BY <2>1, <2>2, <2>6, DropCopyOwn
        <3>3. Spare(t)' = Spare(t) /\ used'[t] <= used[t]
            <4>1. /\ used'[t] = used[t] - 0 /\ used'[t] <= used[t]
                  /\ Cardinality(Own(t))' = Cardinality(Own(t)) - 0 /\ 0 \in Int
                BY SMTT(30), <1>1, <3>1, <3>2
            <4> QED
                BY ZenonT(40), <1>int, <2>4, <4>1, SpareKept
        <3> QED
            BY <2>3, <3>3, OtherBudget
    <2> QED
        BY <2>5, <2>6
<1>12. CASE AbortUpload
    <2>1. upload.lease /= 0 /\ ReleaseUpload /\ UNCHANGED op
        BY <1>12 DEF AbortUpload, Lending
    <2> QED
        BY SMTT(30), <2>1, ReleaseBudget, OtherBudget
<1>13. ASSUME NEW r \in Revokers, BeginRevoke(r) \/ FinishRevoke(r)
       PROVE  Budget(t)'
    <2>1. UNCHANGED <<op, leases, used, upload>>
        BY <1>13 DEF BeginRevoke, FinishRevoke
    <2> QED
        BY SMTT(30), <1>4, <2>1, OtherBudget
<1>14. ASSUME NEW s \in Services, (Admit(s) \/ CallProvider(s)) /\ Refused(s)
       PROVE  Budget(t)'
    BY <1>5, <1>14 DEF Admit, CallProvider
<1> QED
    BY SMTT(30), <1>6, <1>7, <1>8, <1>9, <1>10, <1>11, <1>12, <1>13, <1>14 DEF AdmissionNext, Runs

-----------------------------------------------------------------------------
(* Values. *)

(* finish_opaque calls the provider only for a value that was written to   *)
(* its end, and nobody writes or drops the upload meanwhile.               *)
LEMMA WholeStep ==
    ASSUME Bounds, Types, Permits, Lending, Whole, AdmissionNext
    PROVE  Whole'
<1> DEFINE Publishes == op["restore"].calling /\ op["restore"].kind = "finish"
<1>1. "restore" \in Services
    BY DEF Bounds
<1>2. CASE UNCHANGED <<op, upload, values>>
    BY <1>2 DEF Whole
<1>3. ASSUME NEW s \in Services, op'[s].calling = FALSE, UNCHANGED values,
             \A t \in Services : t /= s => op'[t] = op[t],
             s /= "restore" => upload' = upload
      PROVE  Whole'
    BY <1>1, <1>3 DEF Whole
<1>4. ASSUME NEW s \in Services, Refused(s)
      PROVE  Whole'
    <2>1. op' = [op EXCEPT ![s] = Idle] /\ UNCHANGED values
        BY SMTT(30), <1>4 DEF Refused
    <2>2. s /= "restore" => upload' = upload
        BY <1>4 DEF Refused, Lending
    <2> QED
        BY ZenonT(40), <1>3, <2>1, <2>2 DEF Types, Idle
<1>5. ASSUME NEW s \in Services, Starts(s)
      PROVE  Whole'
    <2>1. PICK kind, want, lent : Begin(s, kind, want, lent)
        BY <1>5, StartsForm DEF Started
    <2> QED
        BY ZenonT(40), <1>3, <2>1 DEF Begin, Types
<1>6. ASSUME NEW s \in Services, Admit(s), ~Refused(s)
      PROVE  Whole'
    <2>1. op'[s].calling = FALSE /\ \A t \in Services : t /= s => op'[t] = op[t]
        BY ZenonT(40), <1>6 DEF Admit, Admitted, Types, Operation
    <2>2. UNCHANGED <<upload, values>>
        BY <1>6 DEF Admit
    <2> QED
        BY Zenon, <1>3, <2>1, <2>2
<1>7. ASSUME NEW s \in Services, CallProvider(s), ~Refused(s)
      PROVE  Whole'
    <2>1. /\ Acceptable(s) /\ op' = [op EXCEPT ![s].calling = TRUE] /\ UNCHANGED values
          /\ upload' = [upload EXCEPT !.failed = @ \/ op[s].kind = "write"]
        BY <1>7 DEF CallProvider
    <2>2. upload'.written = upload.written /\ upload'.size = upload.size
        BY <2>1 DEF Types, Upload
    <2>3. op'["restore"].kind = op["restore"].kind
        BY <1>1, <2>1 DEF Types, Operation
    <2>4. s /= "restore" => op'["restore"] = op["restore"]
        BY <1>1, <2>1 DEF Types
    <2>5. s = "restore" /\ op["restore"].kind = "finish" => upload.written = upload.size
        BY <2>1 DEF Acceptable
    <2> QED
        BY <2>1, <2>2, <2>3, <2>4, <2>5 DEF Whole
<1>8. ASSUME NEW s \in Services, Returns(s)
      PROVE  Whole'
    <2>1. op' = [op EXCEPT ![s] = Idle] /\ op[s].calling
        BY ZenonT(40), <1>8 DEF Returns, Finish, Fails, ReturnsPlain, ReturnsHandle, ReturnsUpload,
            ReturnsWrite, ReturnsPublished
    <2>2. op'[s].calling = FALSE /\ \A t \in Services : t /= s => op'[t] = op[t]
        BY <2>1 DEF Types, Idle
    <2>3. CASE ReturnsPublished(s)
        <3>1. s = "restore" /\ upload.written = upload.size
            BY <2>1, <2>3 DEF ReturnsPublished, Lending, Whole
        <3>2. values' = values \union {[size |-> upload.size, written |-> upload.written]}
            BY <2>3 DEF ReturnsPublished
        <3>3. \A v \in values' : v.written = v.size
            BY <3>1, <3>2 DEF Whole
        <3> QED
            BY SMTT(30), <2>2, <3>1, <3>3 DEF Whole
    <2>4. CASE ~ReturnsPublished(s)
        <3>1. UNCHANGED values
            BY ZenonT(40), <1>8, <2>4 DEF Returns, Fails, ReturnsPlain, ReturnsHandle, ReturnsUpload,
                ReturnsWrite
        <3>2. s /= "restore" => upload' = upload
            BY ZenonT(40), <1>8, <2>4 DEF Returns, Fails, ReturnsPlain, ReturnsHandle, ReturnsUpload,
                ReturnsWrite, Lending
        <3> QED
            BY ZenonT(40), <1>3, <2>2, <3>1, <3>2
    <2> QED
        BY <2>3, <2>4
<1>9. CASE AbortUpload
    <2>1. UNCHANGED <<op, values>> /\ op["restore"].kind /= "finish"
        BY <1>1, <1>9 DEF AbortUpload, UploadBorrowed
    <2> QED
        BY <2>1 DEF Whole
<1>10. CASE CloneHandle \/ CloseHandle
    BY <1>2, <1>10 DEF CloneHandle, CloseHandle
<1>11. ASSUME NEW r \in Revokers, BeginRevoke(r) \/ FinishRevoke(r)
       PROVE  Whole'
    BY <1>2, <1>11 DEF BeginRevoke, FinishRevoke
<1> QED
    BY SMTT(30), <1>4, <1>5, <1>6, <1>7, <1>8, <1>9, <1>10, <1>11 DEF AdmissionNext, Runs

-----------------------------------------------------------------------------
(* The theorems. *)

(* A new service has the handle of the root that its consumer opened.      *)
LEMMA AInvInit ==
    ASSUME Bounds, AdmissionInit
    PROVE  AInv
<1>1. 1 \in LeaseIds
    BY DEF Bounds, LeaseIds
<1>2. Types
    <2>1. leases \in [LeaseIds -> Lease]
        BY ZenonT(40) DEF AdmissionInit, Bounds, Lease, Closed
    <2>2. op \in [Services -> Operation]
        BY IdleType DEF AdmissionInit
    <2>3. used \in [Services -> Int] /\ upload \in Upload
        BY DEF AdmissionInit, Upload, NoUpload
    <2> QED
        BY <2>1, <2>2, <2>3 DEF AdmissionInit, Types, Nobody
<1>3. Permits
    BY DEF AdmissionInit, Permits, Wanted, Idle
<1>4. \A l \in Open : l = 1 /\ leases[l].service = "restore" /\ leases[l].grant = 1
    <2> SUFFICES ASSUME NEW l \in LeaseIds, leases[l].copies > 0
                 PROVE  l = 1 /\ leases[l].service = "restore" /\ leases[l].grant = 1
        BY Zenon DEF Open
    <2>1. leases[l] = IF l = 1 THEN [service |-> "restore", grant |-> 1, copies |-> 1] ELSE Closed
        BY Zenon DEF AdmissionInit
    <2>2. Closed.copies = 0
        BY DEF Closed
    <2> QED
        BY <2>1, <2>2
<1>5. Lending
    BY ZenonT(40), <1>4 DEF AdmissionInit, Lending, Idle, NoUpload, Bounds
<1>6. ASSUME NEW s \in Services
      PROVE  Budget(s)
    <2>1. ~op[s].calling /\ UploadUnit(s) = 0 /\ ReservedUnit(s) = 0
        BY DEF AdmissionInit, Idle, UploadUnit, ReservedUnit
    <2>2. CASE s = "restore"
        <3>1. Own(s) = {1}
            BY <1>1, <1>4, <2>2 DEF Own, Open, AdmissionInit
        <3>2. Cardinality(Own(s)) = 1
            BY <3>1, FS_Singleton
        <3>3. used[s] = 1
            BY <2>2 DEF AdmissionInit
        <3> QED
            BY <2>1, <3>2, <3>3 DEF Budget, Bounds
    <2>3. CASE s /= "restore"
        <3>1. Own(s) = {}
            BY <1>4, <2>3 DEF Own
        <3>2. Cardinality(Own(s)) = 0
            BY <3>1, FS_EmptySet
        <3>3. used[s] = 0
            BY <2>3 DEF AdmissionInit
        <3> QED
            BY <2>1, <3>2, <3>3 DEF Budget, Bounds
    <2> QED
        BY <2>2, <2>3
<1>7. Whole
    BY DEF AdmissionInit, Whole, Idle, Bounds
<1> QED
    BY <1>2, <1>3, <1>5, <1>6, <1>7 DEF AInv

LEMMA AInvStep ==
    ASSUME Bounds, AInv, [AdmissionNext]_admission_vars
    PROVE  AInv'
<1>1. CASE AdmissionNext
    <2>1. Types' /\ Permits' /\ Lending' /\ Whole'
        BY <1>1, TypesStep, PermitsStep, LendingStep, WholeStep DEF AInv
    <2>2. \A s \in Services : Budget(s)'
        BY <1>1, <2>1, BudgetStep DEF AInv
    <2> QED
        BY <2>1, <2>2 DEF AInv
<1>2. CASE UNCHANGED admission_vars
    <2>1. Types' /\ Permits' /\ Whole'
        BY SMTT(30), <1>2 DEF AInv, admission_vars, Types, Permits, Wanted, Whole
    <2>2. Lending'
        BY <1>2 DEF AInv, admission_vars, Lending, Open, UploadCopies
    <2>3. ASSUME NEW s \in Services
          PROVE  Budget(s)'
        <3>1. Own(s)' = Own(s)
            BY <1>2 DEF admission_vars, Own, Open
        <3>2. UploadUnit(s)' = UploadUnit(s) /\ ReservedUnit(s)' = ReservedUnit(s)
            BY Zenon, <1>2 DEF admission_vars, UploadUnit, ReservedUnit, EarlyUnit, Early
        <3> QED
            BY ZenonT(40), <1>2, <3>1, <3>2 DEF AInv, admission_vars, Budget, Early
    <2> QED
        BY ZenonT(40), <2>1, <2>2, <2>3 DEF AInv
<1> QED
    BY <1>1, <1>2

(* Admission keeps its invariant, whatever the order in which operations,  *)
(* revokes and drops of handles run (RestoreService, BackupService, Grant).*)
THEOREM AInvHolds ==
    ASSUME Bounds
    PROVE  AdmissionSpec => []AInv
<1>1. AdmissionInit => AInv
    BY AInvInit
<1>2. AInv /\ [AdmissionNext]_admission_vars => AInv'
    BY AInvStep
<1> QED
    BY <1>1, <1>2, PTL DEF AdmissionSpec

(* Once Grant::revoke has returned no provider call runs under the grant;  *)
(* every unit of a budget is a handle's, the upload's or a running call's, *)
(* within the budget; and values are published whole.                      *)
THEOREM RevokedIsQuietHolds ==
    ASSUME Bounds
    PROVE  AdmissionSpec => []RevokedIsQuiet
<1>1. AInv => RevokedIsQuiet
    <2> SUFFICES ASSUME AInv PROVE RevokedIsQuiet
        OBVIOUS
    <2>1. ASSUME NEW s \in Services, op[s].calling
          PROVE  op[s].under \intersect revoked = {}
        <3>1. Wanted(s) = {}
            BY <2>1 DEF AInv, Permits, Wanted
        <3> QED
            BY <3>1 DEF AInv, Permits
    <2> QED
        BY Zenon, <2>1 DEF AInv, Budget, Whole, RevokedIsQuiet
<1> QED
    BY <1>1, AInvHolds, PTL
=============================================================================
