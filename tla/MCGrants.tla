------------------------------ MODULE MCGrants -------------------------------
(***************************************************************************)
(* Small instances of grants and of restores, each under the fairness that *)
(* its scheduling justifies.  A behaviour is one of one component: part    *)
(* names it, and the other stays in its initial state.                     *)
(***************************************************************************)
EXTENDS Integers, Sequences

VARIABLES
    part,
    active, waiting, revoked, op, leases, used, upload, values, calls,
    disk, view, job, poisoned, cursor, done, quiet, budget

(* Two grants of the restore service, one of the backup service.           *)
Admission == INSTANCE GrantAdmission WITH
    Services <- {"restore", "backup"}, Owner <- <<"restore", "restore", "backup">>,
    Revokers <- {"r1"}, MaxHandles <- 2, MaxLeases <- 2, ValueSizes <- {1},
    MaxCopies <- 2, MaxCalls <- 3

(* A view of a directory with a file of two extents, restored twice.       *)
Object(kind, data) == [kind |-> kind, data |-> data, meta |-> TRUE, marker |-> 0]
CapturedTree ==
    [objs |-> <<Object("dir", 0), Object("dir", 0), Object("file", 2)>>,
     entries |-> {[parent |-> 1, name |-> 10, object |-> 2], [parent |-> 2, name |-> 0, object |-> 3]},
     next |-> 4]

Restore == INSTANCE RestoreStages WITH
    Root <- 1, Captured <- CapturedTree, Targets <- {12}, StageNames <- {1, 2},
    MaxObject <- 5, MaxCalls <- 2, MaxFaults <- 2, ScanEntries <- 2, WorkSteps <- 1, MaxDepth <- 2

-----------------------------------------------------------------------------

admission_vars == <<active, waiting, revoked, op, leases, used, upload, values, calls>>
restore_vars == <<disk, view, job, poisoned, cursor, done, quiet, budget>>

vars == <<part, admission_vars, restore_vars>>

Init ==
    /\ part \in {"admission", "restore"}
    /\ Admission!AdmissionInit /\ Restore!RestoreInit

Next ==
    \/ /\ part = "admission" /\ Admission!AdmissionNext
       /\ UNCHANGED <<part, restore_vars>>
    \/ /\ part = "restore" /\ Restore!RestoreNext
       /\ UNCHANGED <<part, admission_vars>>

(* The fairness of each component, in its own behaviours.                  *)
Fair ==
    /\ \A s \in {"restore", "backup"} : WF_admission_vars(part = "admission" /\ Admission!Runs(s))
    /\ WF_admission_vars(part = "admission" /\ Admission!FinishRevoke("r1"))
    /\ WF_restore_vars(part = "restore" /\ Restore!RestoreStep)
    /\ WF_restore_vars(part = "restore" /\ Restore!Remount)
    /\ WF_restore_vars(part = "restore" /\ Restore!ReclaimStep)

Spec == Init /\ [][Next]_vars /\ Fair

-----------------------------------------------------------------------------
(* The properties of the components, stated there.                         *)

(* After a revoke returned, nothing runs under the grant (Grant::admit).   *)
RevokedIsQuiet == Admission!RevokedIsQuiet

(* A revoke returns (Grant::revoke, link_permits).                         *)
RevokeReturns == Admission!RevokeReturns

(* Restored trees appear whole (publish_stage).                            *)
OnlyWholeTrees == Restore!OnlyWholeTrees

(* Interrupted stages are removed (reclaim_restore_stages).                *)
StagesDrain == Restore!StagesDrain
=============================================================================
