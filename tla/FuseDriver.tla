----------------------------- MODULE FuseDriver -----------------------------
(***************************************************************************)
(* The FUSE driver (fuser_adapter.rs): requests take turns on one mutex    *)
(* with a thread that does the maintenance they leave behind, from init to *)
(* destroy.                                                                *)
(***************************************************************************)
EXTENDS Integers

CONSTANTS
    MaxDebt         \* bound: maintenance steps that requests leave in all

VARIABLES
    session,        \* "new", "serving", "stopping", "syncing", "gone"
    holder,         \* of the adapter's mutex: "none", "request", "thread"
    pc,             \* of the maintainer: "none", "top", "queued", "looking", "asleep", "ended"
    more,           \* the maintainer's local: the last step left work
    debt,           \* [now, left]: steps to do, steps requests may still leave
    unsynced        \* acknowledged changes in the VFS window

driver_vars == <<session, holder, pc, more, debt, unsynced>>

(* init: maintenance leaves the requests, and the thread starts.           *)
Start ==
    /\ session = "new" /\ session' = "serving"
    /\ pc' = "top" /\ more' = TRUE
    /\ UNCHANGED <<holder, debt, unsynced>>

(* A request waits for the mutex and holds it until its answer.            *)
RequestLocks ==
    /\ session = "serving" /\ holder = "none"
    /\ holder' = "request"
    /\ UNCHANGED <<session, pc, more, debt, unsynced>>

Answer == UNCHANGED <<debt, unsynced>>                 \* lookup, getattr, read
Stage == unsynced' = TRUE /\ UNCHANGED debt             \* write, truncate
Sync == unsynced' \in {FALSE, unsynced} /\ UNCHANGED debt      \* fsync, which may fail

(* An unlink or a last close commits the window and leaves work.           *)
LeaveWork ==
    /\ debt.left > 0 /\ debt' = [now |-> debt.now + 1, left |-> debt.left - 1]
    /\ unsynced' = FALSE

RequestEnds ==
    /\ holder = "request" /\ holder' = "none"
    /\ Answer \/ Stage \/ Sync \/ LeaveWork
    /\ UNCHANGED <<session, pc, more>>

-----------------------------------------------------------------------------
(* The maintainer.                                                         *)

Stopping == session \in {"stopping", "syncing", "gone"}

LoopTop ==
    /\ pc = "top"
    /\ pc' = CASE Stopping -> "ended" [] ~Stopping /\ more -> "queued" [] OTHER -> "looking"
    /\ UNCHANGED <<session, holder, more, debt, unsynced>>

(* Mutant: with work waiting it only looks, too.                           *)
LooksOnly ==
    /\ pc = "queued"
    /\ IF holder = "none" THEN holder' = "thread" /\ pc' = "stepping" /\ UNCHANGED more
       ELSE more' = TRUE /\ pc' = "asleep" /\ UNCHANGED holder
    /\ UNCHANGED <<session, debt, unsynced>>

(* lock()                                                                  *)
Queue ==
    /\ pc = "queued" /\ holder = "none"
    /\ holder' = "thread" /\ pc' = "stepping"
    /\ UNCHANGED <<session, more, debt, unsynced>>

(* try_lock()                                                              *)
Look ==
    /\ pc = "looking"
    /\ IF holder = "none" THEN holder' = "thread" /\ pc' = "stepping" /\ UNCHANGED more
       ELSE more' = FALSE /\ pc' = "asleep" /\ UNCHANGED holder
    /\ UNCHANGED <<session, debt, unsynced>>

(* maintenance_step: true while more remains, false if it fails.           *)
MaintenanceStep ==
    /\ pc = "stepping" /\ pc' = "asleep" /\ holder' = "none"
    /\ \/ /\ debt.now > 0 /\ debt' = [debt EXCEPT !.now = @ - 1]
          /\ more' = (debt.now > 1) /\ unsynced' = FALSE
       \/ more' = FALSE /\ UNCHANGED <<debt, unsynced>>
    /\ UNCHANGED session

Wake ==
    /\ pc = "asleep" /\ pc' = "top"
    /\ UNCHANGED <<session, holder, more, debt, unsynced>>

-----------------------------------------------------------------------------
(* destroy: the kernel has no request left; the thread is joined, and then *)
(* the window is published.                                                *)

Destroy ==
    /\ session = "serving" /\ holder /= "request"
    /\ session' = "stopping"
    /\ UNCHANGED <<holder, pc, more, debt, unsynced>>

Join ==
    /\ session = "stopping" /\ pc = "ended"
    /\ session' = "syncing"
    /\ UNCHANGED <<holder, pc, more, debt, unsynced>>

SyncFilesystem ==
    /\ session = "syncing" /\ holder = "none"
    /\ session' = "gone"
    /\ unsynced' \in {FALSE, unsynced}
    /\ UNCHANGED <<holder, pc, more, debt>>

DriverInit ==
    /\ session = "new" /\ holder = "none" /\ pc = "none" /\ more = FALSE
    /\ debt = [now |-> 1, left |-> MaxDebt] /\ unsynced = FALSE

Thread == LoopTop \/ Queue \/ Look \/ MaintenanceStep \/ Wake

DriverNext ==
    \/ Start \/ RequestLocks \/ RequestEnds \/ Thread
    \/ Destroy \/ Join \/ SyncFilesystem

(* The mutex is fair to a thread that waits for it; a request ends, and a  *)
(* thread that can run does.                                               *)
DriverFairness ==
    /\ WF_driver_vars(RequestEnds) /\ SF_driver_vars(Queue)
    /\ WF_driver_vars(LoopTop) /\ WF_driver_vars(Look)
    /\ WF_driver_vars(MaintenanceStep) /\ WF_driver_vars(Wake)
    /\ WF_driver_vars(Join) /\ WF_driver_vars(SyncFilesystem)

DriverSpec == DriverInit /\ [][DriverNext]_driver_vars /\ DriverFairness

-----------------------------------------------------------------------------
(* Properties. *)

(* A drain that has begun is finished however many requests come, unless a *)
(* step fails or the volume is unmounted (Maintainer::start).              *)
DrainCompletes ==
    (session = "serving" /\ more /\ debt.now > 0) ~> (debt.now = 0 \/ ~more \/ Stopping)

(* An unmount ends, and after it no thread touches the volume.             *)
UnmountEnds ==
    /\ (session = "stopping") ~> (session = "gone")
    /\ [](session \in {"syncing", "gone"} => pc = "ended" /\ holder /= "thread")

(* The maintenance thread is neither starved by requests nor outlives the  *)
(* mount: a drain is finished and an unmount ends.                         *)
MaintenanceEnds == DrainCompletes /\ UnmountEnds
=============================================================================
