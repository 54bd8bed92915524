--------------------------- MODULE GrantAdmission ---------------------------
(***************************************************************************)
(* Revocable authority of the backup and restore services (ADR-075,        *)
(* ADR-077): an operation holds a read lock on its grant for as long as    *)
(* its provider call runs, and revoke takes the write lock.  A service is  *)
(* used by one thread at a time; host threads revoke grants and drop       *)
(* handles meanwhile.                                                      *)
(***************************************************************************)
EXTENDS Integers, FiniteSets, Sequences

CONSTANTS
    Services,       \* "restore" among them
    Owner,          \* the service of each grant: bound on grants
    Revokers,       \* host threads
    MaxHandles,     \* max_handles, max_readers
    MaxLeases,      \* bound: handle identifiers
    ValueSizes,     \* sizes of uploaded values
    MaxCopies,      \* bound: clones of one handle
    MaxCalls        \* bound: operations started

VARIABLES
    active,         \* the flag in each grant's lock
    waiting,        \* the grant each revoker waits for, or Nobody
    revoked,        \* grants whose revoke has returned
    op,             \* the operation of each service
    leases,         \* handles: [service, grant, copies], or Closed
    used,           \* handles counted against each service's budget
    upload,         \* a value in private staging, or NoUpload
    values,         \* values that the provider published
    calls

admission_vars == <<active, waiting, revoked, op, leases, used, upload, values, calls>>

Grants == DOMAIN Owner
LeaseIds == 1 .. MaxLeases
Nobody == 0
Closed == [service |-> "", grant |-> 0, copies |-> 0]
Idle == [kind |-> "idle", under |-> {}, want |-> <<>>, held |-> {}, lent |-> {},
         calling |-> FALSE]
NoUpload == [lease |-> 0, size |-> 0, written |-> 0, failed |-> FALSE]

Open == {l \in LeaseIds : leases[l].copies > 0}
Own(s) == {l \in Open : leases[l].service = s}
MakesHandle(kind) == kind \in {"open", "create", "begin"}

(* An upload keeps a copy of its handle, callers have the others.          *)
UploadCopies(l) == IF upload.lease = l THEN 1 ELSE 0
Callers == {l \in Open : leases[l].copies > UploadCopies(l)}
Usable(s) == Own(s) \intersect Callers

(* What a running operation borrows, its caller cannot drop.               *)
Borrowed(l) == \E s \in Services : l \in op[s].lent
UploadBorrowed == \E s \in Services : op[s].kind \in {"write", "finish"}

-----------------------------------------------------------------------------
(* Revocation. *)

BeginRevoke(r) ==
    /\ waiting[r] = Nobody
    /\ \E g \in Grants \ revoked : waiting' = [waiting EXCEPT ![r] = g]
    /\ UNCHANGED <<active, revoked, op, leases, used, upload, values, calls>>

(* The write lock: no operation holds the grant.                           *)
FinishRevoke(r) ==
    /\ waiting[r] /= Nobody
    /\ \A s \in Services : waiting[r] \notin op[s].held
    /\ active' = [active EXCEPT ![waiting[r]] = FALSE]
    /\ revoked' = revoked \union {waiting[r]}
    /\ waiting' = [waiting EXCEPT ![r] = Nobody]
    /\ UNCHANGED <<op, leases, used, upload, values, calls>>

-----------------------------------------------------------------------------
(* A consumer calls a service. *)

Begin(s, kind, want, lent) ==
    /\ op[s] = Idle
    /\ calls < MaxCalls /\ calls' = calls + 1
    /\ op' = [op EXCEPT ![s] = [kind |-> kind,
            under |-> {want[i] : i \in DOMAIN want}, want |-> want, held |-> {},
            lent |-> lent, calling |-> FALSE]]
    /\ UNCHANGED <<active, waiting, revoked, leases, used, upload, values>>

(* Operations on a grant: root, sync, create, delete, list, open.  The     *)
(* grant may be another service's.                                         *)
StartOnGrant(s) ==
    \E g \in Grants, kind \in {"open", "plain"} : Begin(s, kind, <<g>>, {})

(* Operations on an object handle; the created ones return one.            *)
StartOnHandle(s) ==
    /\ s = "restore"
    /\ \E l \in Usable(s), kind \in {"create", "plain"} : Begin(s, kind, <<leases[l].grant>>, {l})

(* Operations on a reader of a snapshot view.                              *)
StartOnReader(s) ==
    /\ s = "backup"
    /\ \E l \in Usable(s) : Begin(s, "plain", <<leases[l].grant>>, {l})

StartUpload(s) ==
    /\ s = "restore" /\ upload = NoUpload
    /\ \E l \in Usable(s) : Begin(s, "begin", <<leases[l].grant>>, {l})

(* Mutant: link takes a permit for each of its handles.                    *)
TakesBoth(g, h) == <<g, h>>

LinkPermits(g, h) == IF g = h THEN <<g>> ELSE <<g, h>>

StartLink(s) ==
    /\ s = "restore"
    /\ \E l, m \in Usable(s) :
          Begin(s, "plain", LinkPermits(leases[l].grant, leases[m].grant), {l, m})

StartOnUpload(s) ==
    /\ s = "restore" /\ upload /= NoUpload /\ ~UploadBorrowed
    /\ \E kind \in {"write", "finish"} :
          Begin(s, kind, <<leases[upload.lease].grant>>, {})

-----------------------------------------------------------------------------
(* Admission.  A waiting writer holds up new readers.                      *)

(* A handle leaves with its last copy and then returns its unit.           *)
DropCopy(l) ==
    IF leases[l].copies = 1 THEN [leases EXCEPT ![l] = Closed]
    ELSE [leases EXCEPT ![l].copies = @ - 1]
UnitBack(l) == IF leases[l].copies = 1 THEN 1 ELSE 0

(* Releasing an upload: its copy of the handle, then its own unit.         *)
ReleaseUpload ==
    LET l == upload.lease IN
    /\ upload' = NoUpload
    /\ leases' = DropCopy(l)
    /\ used' = [used EXCEPT ![leases[l].service] = @ - (UnitBack(l) + 1)]

(* finish_opaque takes the upload by value, so a refusal drops it.         *)
Refused(s) ==
    /\ op' = [op EXCEPT ![s] = Idle]
    /\ IF op[s].kind = "finish" THEN ReleaseUpload ELSE UNCHANGED <<upload, leases, used>>
    /\ UNCHANGED <<active, waiting, revoked, values, calls>>

(* Mutant: the permit is dropped once the flag was read.                   *)
ChecksOnly(s, g) == [op[s] EXCEPT !.want = Tail(@)]

Admitted(s, g) == [op[s] EXCEPT !.want = Tail(@), !.held = @ \union {g}]

Admit(s) ==
    /\ ~op[s].calling /\ op[s].want /= <<>>
    /\ LET g == Head(op[s].want) IN
       IF Owner[g] /= s THEN Refused(s)
       ELSE /\ \A r \in Revokers : waiting[r] /= g
            /\ IF ~active[g] THEN Refused(s)
               ELSE /\ op' = [op EXCEPT ![s] = Admitted(s, g)]
                    /\ UNCHANGED <<active, waiting, revoked, leases, used, upload, values, calls>>

(* Arguments and budgets are checked under the permit.                     *)
Acceptable(s) ==
    /\ MakesHandle(op[s].kind) => used[s] < MaxHandles
    /\ op[s].kind = "write" => ~upload.failed /\ upload.written < upload.size
    /\ op[s].kind = "finish" => ~upload.failed /\ upload.written = upload.size

(* reserve_handle counts before the provider is called, BackupService::open*)
(* after.                                                                  *)
Early(s) == s = "restore" /\ MakesHandle(op[s].kind)
EarlyUnit(s) == IF Early(s) THEN 1 ELSE 0

CallProvider(s) ==
    /\ op[s] /= Idle /\ ~op[s].calling /\ op[s].want = <<>>
    /\ \/ ~Acceptable(s) /\ Refused(s)
       \/ /\ Acceptable(s)
          /\ op' = [op EXCEPT ![s].calling = TRUE]
          /\ used' = [used EXCEPT ![s] = @ + EarlyUnit(s)]
          /\ upload' = [upload EXCEPT !.failed = @ \/ op[s].kind = "write"]
          /\ UNCHANGED <<active, waiting, revoked, leases, values, calls>>

-----------------------------------------------------------------------------
(* The provider returns; the permits go with the operation.                *)

Finish(s) ==
    /\ op[s].calling
    /\ op' = [op EXCEPT ![s] = Idle]
    /\ UNCHANGED <<active, waiting, revoked, calls>>

Fails(s) ==
    /\ Finish(s)
    /\ IF op[s].kind = "finish" THEN ReleaseUpload
       ELSE /\ used' = [used EXCEPT ![s] = @ - EarlyUnit(s)]
            /\ UNCHANGED <<upload, leases>>
    /\ UNCHANGED values

ReturnsPlain(s) ==
    /\ Finish(s) /\ op[s].kind = "plain"
    /\ UNCHANGED <<leases, used, upload, values>>

ReturnsHandle(s) ==
    /\ Finish(s) /\ op[s].kind \in {"open", "create"}
    /\ \E l \in LeaseIds \ Open : \A k \in LeaseIds \ Open :
          /\ l <= k
          /\ \E g \in op[s].under :
                leases' = [leases EXCEPT ![l] = [service |-> s, grant |-> g, copies |-> 1]]
    /\ used' = [used EXCEPT ![s] = @ + 1 - EarlyUnit(s)]
    /\ UNCHANGED <<upload, values>>

ReturnsUpload(s) ==
    /\ Finish(s) /\ op[s].kind = "begin"
    /\ \E l \in op[s].lent, size \in ValueSizes :
          /\ upload' = [lease |-> l, size |-> size, written |-> 0, failed |-> FALSE]
          /\ leases' = [leases EXCEPT ![l].copies = @ + 1]
    /\ UNCHANGED <<used, values>>

ReturnsWrite(s) ==
    /\ Finish(s) /\ op[s].kind = "write"
    /\ \E n \in 1 .. upload.size - upload.written :
          upload' = [upload EXCEPT !.written = @ + n, !.failed = FALSE]
    /\ UNCHANGED <<leases, used, values>>

ReturnsPublished(s) ==
    /\ Finish(s) /\ op[s].kind = "finish"
    /\ values' = values \union {[size |-> upload.size, written |-> upload.written]}
    /\ ReleaseUpload

-----------------------------------------------------------------------------
(* Handles are cloned and dropped by any thread, revoked or not.           *)

CloneHandle ==
    /\ \E l \in Callers : /\ leases[l].copies < MaxCopies
                          /\ leases' = [leases EXCEPT ![l].copies = @ + 1]
    /\ UNCHANGED <<active, waiting, revoked, op, used, upload, values, calls>>

CloseHandle ==
    /\ \E l \in Callers :
          /\ Borrowed(l) => leases[l].copies > UploadCopies(l) + 1
          /\ leases' = DropCopy(l)
          /\ used' = [used EXCEPT ![leases[l].service] = @ - UnitBack(l)]
    /\ UNCHANGED <<active, waiting, revoked, op, upload, values, calls>>

AbortUpload ==
    /\ upload /= NoUpload /\ ~UploadBorrowed
    /\ ReleaseUpload
    /\ UNCHANGED <<active, waiting, revoked, op, values, calls>>

-----------------------------------------------------------------------------

(* A consumer of the restore service has opened the root.                  *)
AdmissionInit ==
    /\ active = [g \in Grants |-> TRUE] /\ revoked = {}
    /\ waiting = [r \in Revokers |-> Nobody]
    /\ op = [s \in Services |-> Idle]
    /\ leases = [l \in LeaseIds |->
                    IF l = 1 THEN [service |-> "restore", grant |-> 1, copies |-> 1] ELSE Closed]
    /\ used = [s \in Services |-> IF s = "restore" THEN 1 ELSE 0]
    /\ upload = NoUpload /\ values = {} /\ calls = 0

Starts(s) ==
    \/ StartOnGrant(s) \/ StartOnHandle(s) \/ StartOnReader(s) \/ StartLink(s)
    \/ StartUpload(s) \/ StartOnUpload(s)
Returns(s) ==
    \/ Fails(s) \/ ReturnsPlain(s) \/ ReturnsHandle(s) \/ ReturnsUpload(s)
    \/ ReturnsWrite(s) \/ ReturnsPublished(s)
Runs(s) == Admit(s) \/ CallProvider(s) \/ Returns(s)

AdmissionNext ==
    \/ \E r \in Revokers : BeginRevoke(r) \/ FinishRevoke(r)
    \/ \E s \in Services : Starts(s) \/ Runs(s)
    \/ CloneHandle \/ CloseHandle \/ AbortUpload

(* An operation that was started is run to its end, and a revoker that can *)
(* have the lock gets it.                                                  *)
AdmissionFair ==
    /\ \A s \in Services : WF_admission_vars(Runs(s))
    /\ \A r \in Revokers : WF_admission_vars(FinishRevoke(r))

AdmissionSpec == AdmissionInit /\ [][AdmissionNext]_admission_vars /\ AdmissionFair

-----------------------------------------------------------------------------
(* Properties. *)

UploadUnit(s) == IF upload /= NoUpload /\ leases[upload.lease].service = s THEN 1 ELSE 0
ReservedUnit(s) == IF op[s].calling THEN EarlyUnit(s) ELSE 0

(* Once revoke has returned no provider call runs under the grant, whoever *)
(* started it; no service lends more handles than its budget, whatever the *)
(* order in which copies are dropped; and a value is published whole.      *)
RevokedIsQuiet ==
    /\ \A s \in Services :
         /\ op[s].calling => op[s].under \intersect revoked = {}
         /\ used[s] = Cardinality(Own(s)) + UploadUnit(s) + ReservedUnit(s)
         /\ used[s] <= MaxHandles
    /\ \A v \in values : v.written = v.size

(* A revoke that waits for running operations returns.                     *)
RevokeReturns == \A r \in Revokers : waiting[r] /= Nobody ~> waiting[r] = Nobody
=============================================================================
