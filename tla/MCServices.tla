----------------------------- MODULE MCServices ------------------------------
(***************************************************************************)
(* Small instances of the services that must come to an end or to rest,    *)
(* each under the fairness that its scheduling justifies.  A behaviour is  *)
(* one of one component: part names it, and the others stay in their       *)
(* initial states.                                                         *)
(***************************************************************************)
EXTENDS Integers, Sequences

VARIABLES
    part,
    mount, answer, alone, timer, backs, failures,
    ns_disk, ns_view, handles, delayed, inline, crashes,
    tree, control, registry, pool, current, slot, readers, mounts, idle,
    session, holder, pc, more, debt, unsynced,
    sup, child, relay, known, umount, asking, listed, orphaned

(* Nine blocks and windows of two changes; one refused commit, and the     *)
(* clock set back once.                                                    *)
Window == INSTANCE DelayedCommit WITH
    Blocks <- 9, StepOverhead <- 1, Overhead <- 1, Headroom <- 1, ReclaimBatch <- 6,
    OrphansPerBatch <- 1, OrphansMax <- 1, RoomForMetadata <- 0, DelayedRoom <- 0,
    LowWater <- 0, RoomSteps <- 1, StepsPerTick <- 1, StepsPerRelease <- 1,
    StepsPerSync <- 2, WindowOpsMax <- 2, IdleTicks <- 1, AgeTicks <- 2,
    Requests <- {"write", "delete", "sync", "durability", "leave"}, Followable <- BOOLEAN,
    MaxFiles <- 1, MaxBacks <- 1, MaxFailures <- 1

(* Two names and objects of two extents each; one power cut.               *)
Names2 == INSTANCE Namespace WITH
    Names <- {"a", "b"}, MaxObjects <- 2, MaxExtents <- 2, MaxHandles <- 1,
    Budget <- 1, OrphansPerBatch <- 2, OrphansPerRelease <- 1, MaxCrashes <- 1,
    disk <- ns_disk, view <- ns_view

(* Three blocks, two views, pages of one record.                           *)
Ledger == INSTANCE SnapshotLedger WITH
    LastBlock <- 3, MaxEditRecords <- 3, MaxViews <- 2, ReclaimRecords <- 1,
    MaxGen <- 4, IdleCommits <- 5, MaxHandles <- 1

Driver == INSTANCE FuseDriver WITH MaxDebt <- 2

Supervisor == INSTANCE MountSupervisor

-----------------------------------------------------------------------------

window_vars == <<mount, answer, alone, timer, backs, failures>>
names_vars == <<ns_disk, ns_view, handles, delayed, inline, crashes>>
ledger_vars == <<tree, control, registry, pool, current, slot, readers, mounts, idle>>
driver_vars == <<session, holder, pc, more, debt, unsynced>>
sup_vars == <<sup, child, relay, known, umount, asking, listed, orphaned>>

vars == <<part, window_vars, names_vars, ledger_vars, driver_vars, sup_vars>>

Init ==
    /\ part \in {"window", "namespace", "ledger", "driver", "supervisor"}
    /\ Window!Init /\ Names2!Init /\ Ledger!LedgerInit /\ Driver!DriverInit /\ Supervisor!SupInit

Next ==
    \/ /\ part = "window" /\ Window!Next
       /\ UNCHANGED <<part, names_vars, ledger_vars, driver_vars, sup_vars>>
    \/ /\ part = "namespace" /\ Names2!Next
       /\ UNCHANGED <<part, window_vars, ledger_vars, driver_vars, sup_vars>>
    \/ /\ part = "ledger" /\ Ledger!LedgerNext
       /\ UNCHANGED <<part, window_vars, names_vars, driver_vars, sup_vars>>
    \/ /\ part = "driver" /\ Driver!DriverNext
       /\ UNCHANGED <<part, window_vars, names_vars, ledger_vars, sup_vars>>
    \/ /\ part = "supervisor" /\ Supervisor!SupNext
       /\ UNCHANGED <<part, window_vars, names_vars, ledger_vars, driver_vars>>

(* The fairness of each component, in its own behaviours.                  *)
Fair ==
    /\ WF_timer(part = "window" /\ timer' = "tick")
    /\ WF_timer(part = "window" /\ timer' = "clock")
    /\ WF_names_vars(part = "namespace" /\ Names2!Maintain)
    /\ WF_ledger_vars(part = "ledger" /\ Ledger!MaintenanceStep)
    /\ WF_driver_vars(part = "driver" /\ Driver!RequestEnds)
    /\ SF_driver_vars(part = "driver" /\ Driver!Queue)
    /\ WF_driver_vars(part = "driver" /\ Driver!LoopTop)
    /\ WF_driver_vars(part = "driver" /\ Driver!Look)
    /\ WF_driver_vars(part = "driver" /\ Driver!MaintenanceStep)
    /\ WF_driver_vars(part = "driver" /\ Driver!Wake)
    /\ WF_driver_vars(part = "driver" /\ Driver!Join)
    /\ WF_driver_vars(part = "driver" /\ Driver!SyncFilesystem)
    /\ WF_sup_vars(part = "supervisor" /\ Supervisor!Supervise)
    /\ WF_sup_vars(part = "supervisor" /\ Supervisor!UmountEnds)

Spec == Init /\ [][Next]_vars /\ Fair

-----------------------------------------------------------------------------
(* The properties of the components, stated there.                         *)

(* Every acknowledged change is published or reported lost once callers    *)
(* leave (commit_if_due).                                                  *)
EveryChangeSettles == Window!EveryChangeSettles

(* Names, links, orphans and directories agree on disk and in memory       *)
(* (apply_batch_op, remove_entry, rename_internal).                        *)
NamespaceSound == Names2!NamespaceSound

(* An open file keeps its extents (cleanup_orphans).                       *)
OpenFileIntact == Names2!OpenFileIntact

(* An orphan that no handle holds goes (maintenance_step).                 *)
OrphansDrain == Names2!OrphansDrain

(* The ledger's runs and its scan keep what views need                     *)
(* (prepare_snapshot_lifetimes).                                           *)
ImplementsRetention == Ledger!ImplementsRetention

(* Retained blocks that no view needs come free (read_lifetime_page).      *)
RetainedReturns == Ledger!RetainedReturns

(* A drain is finished whatever requests come, and an unmount ends with    *)
(* no thread on the volume (Maintainer, destroy).                          *)
MaintenanceEnds == Driver!MaintenanceEnds

(* Nobody waits for ever on a dead volume process (supervise).             *)
NobodyWaits == Supervisor!NobodyWaits
=============================================================================
