--------------------------- MODULE DelayedCommit ---------------------------
(***************************************************************************)
(* The delayed mount of afsplus-vfs (lib.rs, ADR-121): changes gather in   *)
(* the open window, a tick commits it when the volume is idle or its       *)
(* oldest change is old, deleted files wait as orphans for idle time, and  *)
(* an operation that needs room reclaims first.                            *)
(*                                                                         *)
(* A file is one block.  The volume is what these handlers see of it: its  *)
(* counts of free, live, orphaned and quarantined blocks.  A handler is a  *)
(* function from one mount to the next.                                    *)
(***************************************************************************)
EXTENDS Integers, Sequences

CONSTANTS
    Blocks,             \* blocks of the volume that data and quarantine share
    StepOverhead,       \* metadata blocks an empty commit writes and supersedes
    Overhead,           \* and one that changes files
    Headroom,           \* emergency_headroom_blocks
    ReclaimBatch,       \* reclaim_batch_blocks
    OrphansPerBatch,
    OrphansMax,         \* DELAYED_ORPHANS_MAX
    RoomForMetadata,    \* ROOM_FOR_METADATA_BLOCKS
    DelayedRoom,        \* delayed_room_blocks
    LowWater,           \* a thirty-second of the volume
    RoomSteps,          \* ROOM_STEPS_PER_OPERATION
    StepsPerTick,       \* IDLE_STEPS_PER_TICK
    StepsPerRelease,    \* ORPHAN_STEPS_PER_RELEASE, RECLAIM_STEPS_PER_RELEASE
    StepsPerSync,       \* ORPHAN_STEPS_PER_SYNC, RECLAIM_STEPS_PER_SYNC
    WindowOpsMax,
    IdleTicks, AgeTicks,  \* idle_ms and max_age_ms, in steps of the clock
    Requests,           \* bound: what callers ask for, and whether they leave
    Followable,         \* bound: whether a change may be the one that is followed
    MaxFiles,           \* bound: files at one time
    MaxBacks,           \* bound: times the clock is set back, one step each
    MaxFailures         \* bound: commits the device refuses

VARIABLES
    mount,              \* the Vfs and what it sees of its Volume
    answer,             \* what the last operation was told
    alone,              \* no caller comes any more
    timer,              \* what came last, a "tick" or the "clock"
    backs, failures

vars == <<mount, answer, alone, timer, backs, failures>>

NoTime == <<>>

-----------------------------------------------------------------------------
(* Transactions of the volume.  queue[1] is what the newest checkpoint     *)
(* quarantined, queue[2] what the one before it did, queue[3] the rest; a  *)
(* transaction may promote the last two (alloc.rs begin).                  *)

Least(a, b) == IF a < b THEN a ELSE b
Less(a, b) == IF a > b THEN a - b ELSE 0

Pending(m) == m.queue[1] + m.queue[2] + m.queue[3]
Available(m) == Less(m.free, Headroom)
Promotable(m) == Least(ReclaimBatch, m.queue[2] + m.queue[3])

CanCommit(m, promoted, overhead) == m.free + promoted >= overhead

(* Op of the value of x.                                                   *)
With(x, Op(_)) == CHOOSE y \in {Op(v) : v \in {x}} : TRUE

(* Any commit moves the generation and ends the rest of idle reclaim.      *)
Commit(m, promoted, overhead, retired) ==
    [m EXCEPT !.free = @ + promoted - overhead,
              !.queue = <<overhead + retired, @[1], @[2] + @[3] - promoted>>,
              !.rest = FALSE]

(* What a step leaves: the mount, how much it did, its error, and whether  *)
(* the loop around it goes on.                                             *)
Did(m, n) == [m |-> m, n |-> n, err |-> "none", more |-> TRUE]
Failed(m, error) == [m |-> m, n |-> 0, err |-> error, more |-> FALSE]
Stop(r) == [r EXCEPT !.more = FALSE]
StopIfIdle(r) == [r EXCEPT !.more = @ /\ r.n > 0]

(* The next step of a handler, unless the one before returned an error.    *)
AndThen(r, Step(_)) == With(r, LAMBDA v : IF v.err /= "none" THEN v ELSE Step(v.m))

(* The first of two steps that does something.                             *)
OrElse(r, Step(_)) == With(r, LAMBDA v : IF v.err = "none" /\ v.n = 0 THEN Step(v.m) ELSE v)

(* At most k turns of a loop; a turn is told how much those before it did. *)
Loop(Turn(_, _), m, k) ==
    LET RECURSIVE go(_, _)
        go(r, left) ==
            IF ~r.more \/ left = 0 THEN r
            ELSE With(Turn(r.m, r.n), LAMBDA t : go([t EXCEPT !.n = @ + r.n], left - 1))
    IN  go(Did(m, 0), k)

ReclaimStep(m) ==
    LET p == Promotable(m)
    IN  IF m.poisoned THEN Failed(m, "poisoned")
        ELSE IF ~CanCommit(m, p, StepOverhead) THEN Failed(m, "nospace")
        ELSE With(Commit(m, p, StepOverhead, 0), LAMBDA c : Did(c, Less(Pending(m), Pending(c))))

ReclaimSpace(m, k) ==
    Loop(LAMBDA x, n : IF Pending(x) = 0 THEN Stop(Did(x, 0)) ELSE StopIfIdle(ReclaimStep(x)),
         m, k)

CleanupOrphanBatch(m, k) ==
    LET n == Least(k, m.orphans)
        p == Promotable(m)
    IN  IF m.poisoned THEN Failed(m, "poisoned")
        ELSE IF n = 0 THEN Did(m, 0)
        ELSE IF ~CanCommit(m, p, Overhead) THEN Failed(m, "nospace")
        ELSE Did([Commit(m, p, Overhead, n) EXCEPT !.orphans = @ - n], n)

CleanupOrphans(m, k) ==
    Loop(LAMBDA x, n : With(CleanupOrphanBatch(x, Least(k - n, OrphansPerBatch)),
                            LAMBDA t : [t EXCEPT !.more = /\ @ /\ t.n > 0 /\ t.m.orphans > 0
                                                          /\ n + t.n < k]),
         m, k)

-----------------------------------------------------------------------------
(* The window. *)

Held(m) == m.writes + m.deletes

NoWindow(m) == [m EXCEPT !.open = FALSE, !.writes = 0, !.deletes = 0]

(* The window is gone and nothing of it was published.                     *)
Dropped(m) ==
    [NoWindow(m) EXCEPT !.tracked = IF @ = "pending" THEN "dropped" ELSE @]

(* Deletions may use the emergency headroom (materialize_batch).           *)
Publishable(m) ==
    /\ ~m.refuse
    /\ m.free - m.writes >= Overhead + (IF m.deletes > 0 THEN 0 ELSE Headroom)

Published(m) ==
    Commit([NoWindow(m) EXCEPT !.free = @ - m.writes, !.live = @ + m.writes - m.deletes,
                               !.orphans = @ + m.deletes,
                               !.tracked = IF @ = "pending" THEN "durable" ELSE @],
           0, Overhead, 0)

(* A commit takes the window first: one that fails leaves none behind.     *)
WindowCommit(m) ==
    IF m.poisoned THEN Failed(m, "poisoned")
    ELSE IF Held(m) = 0 THEN Did(NoWindow(m), 0)
    ELSE IF Publishable(m) THEN Did(Published(m), 1)
    ELSE Failed([Dropped(m) EXCEPT !.poisoned = TRUE, !.refuse = FALSE], "failed")

ForgetWindow(m) == [m EXCEPT !.first = NoTime, !.changes = 0, !.window_deletes = 0]

(* Maintenance may run inside the operations that leave it behind.         *)
Inline(m) == m.idle_maintenance /\ m.inline_maintenance

(* Room for the next window, orphans first.                                *)
MakeRoom(m) ==
    Loop(LAMBDA x, n :
            IF Available(x) >= DelayedRoom THEN Stop(Did(x, 0))
            ELSE StopIfIdle(OrElse(CleanupOrphanBatch(x, OrphansPerBatch),
                                   LAMBDA y : ReclaimSpace(y, 1))),
         m, 2 * Blocks)

CleanExcess(m, deletes) ==
    LET excess == Less(m.orphans, OrphansMax)
    IN  IF deletes = 0 \/ excess = 0 THEN m
        ELSE ReclaimSpace(CleanupOrphans(m, 2 * excess).m, 2 * excess).m

AfterWindowCommit(m) ==
    IF ~Inline(m) THEN Did(ForgetWindow(m), 0)
    ELSE Did(MakeRoom(CleanExcess(ForgetWindow(m), m.window_deletes)).m, 0)

(* Mutant: a window that could not be published is dropped, and no caller  *)
(* is told.                                                                *)
DropsQuietly(m) ==
    With(WindowCommit(m),
         LAMBDA r : IF r.err = "none" THEN AfterWindowCommit(r.m)
                    ELSE Did(ForgetWindow([Dropped(r.m) EXCEPT !.poisoned = FALSE]), 0))

CheckpointDataWindow(m) ==
    With(WindowCommit(m),
         LAMBDA r : IF r.err = "none" THEN AfterWindowCommit(r.m)
                    ELSE Failed(ForgetWindow([Dropped(r.m) EXCEPT !.poisoned = FALSE]), "lost"))

Delayed(m) == m.durability = "delayed"

Counted(m) == [m EXCEPT !.last_change = <<0>>, !.changes = @ + 1]

CommitIfFull(m) ==
    IF Delayed(m) /\ m.changes >= WindowOpsMax THEN CheckpointDataWindow(m) ELSE Did(m, 0)

NoteChange(m) ==
    IF ~m.open THEN Did(ForgetWindow(m), 0)
    ELSE With([Counted(m) EXCEPT !.first = IF @ = NoTime THEN <<0>> ELSE @], CommitIfFull)

-----------------------------------------------------------------------------
(* Room for an operation. *)

(* Mutant: a step reclaims and leaves the deleted files to the tick.       *)
LeavesOrphans(m) ==
    IF ~m.idle_maintenance \/ Pending(m) = 0 THEN Stop(Did(m, 0))
    ELSE With(AndThen(CheckpointDataWindow(m), LAMBDA c : ReclaimSpace(c, 1)),
              LAMBDA r : [r EXCEPT !.n = Least(@, 1), !.more = r.err = "none" /\ r.n > 0])

(* One transaction: orphans first, for they fill the reclaim queue.        *)
MaintenanceStep(m) ==
    IF ~m.idle_maintenance \/ (m.orphans = 0 /\ Pending(m) = 0) THEN Stop(Did(m, 0))
    ELSE With(AndThen(CheckpointDataWindow(m),
                      LAMBDA c : OrElse(CleanupOrphanBatch(c, OrphansPerBatch),
                                        LAMBDA y : ReclaimSpace(y, 1))),
              LAMBDA r : [r EXCEPT !.n = Least(@, 1), !.more = r.err = "none" /\ r.n > 0])

WindowAvailable(m) == Less(m.free - m.writes, Headroom)

KeepRoom(m, bytes) ==
    LET needed == bytes + RoomForMetadata
        low_water == IF needed > LowWater THEN needed ELSE LowWater
        enough(x, steps) == \/ WindowAvailable(x) >= low_water
                            \/ WindowAvailable(x) >= needed /\ steps >= RoomSteps
    IN  Loop(LAMBDA x, steps : IF enough(x, steps) THEN Stop(Did(x, 0)) ELSE MaintenanceStep(x),
             m, 2 * Blocks)

ReclaimEverything(m) == Loop(LAMBDA x, steps : MaintenanceStep(x), m, 2 * Blocks)

-----------------------------------------------------------------------------
(* The handlers. *)

Followed(m) == [m EXCEPT !.tracked = IF @ = "chosen" THEN "pending" ELSE @]

(* One more block in the window, which a refusal leaves open.              *)
WriteAt(m) ==
    IF m.poisoned THEN Failed(m, "poisoned")
    ELSE IF Less(m.free - m.writes, 1) < Headroom THEN Failed([m EXCEPT !.open = TRUE], "nospace")
    ELSE Did(Followed([m EXCEPT !.open = TRUE, !.writes = @ + 1]), 0)

(* Whatever still waits is reclaimed, and the write tried once more.       *)
WriteWithRoom(m) ==
    With(WriteAt(m),
         LAMBDA w : IF w.err /= "nospace" THEN w
                    ELSE With(ReclaimEverything(w.m),
                              LAMBDA r : IF r.err /= "none" THEN r
                                         ELSE IF r.n = 0 THEN Failed(r.m, "nospace")
                                         ELSE WriteAt(r.m)))

Write(m) == AndThen(AndThen(KeepRoom(m, 1), WriteWithRoom), NoteChange)

(* The device refuses the new data: the write has changed the window,      *)
(* which is dropped, and the mount is poisoned.                            *)
WriteRefused(m) ==
    AndThen(KeepRoom(m, 1),
            LAMBDA x : AndThen(WriteAt(x),
                               LAMBDA y : Failed([Dropped(x) EXCEPT !.poisoned = TRUE], "failed")))

ReclaimAfterRelease(m) ==
    IF ~Inline(m) THEN Did(m, 0)
    ELSE Did(ReclaimSpace(CleanupOrphans(m, StepsPerRelease).m, StepsPerRelease).m, 0)

(* orphan_file: the deletion is a transaction of its own.                  *)
OrphanFile(m) ==
    IF ~CanCommit(m, Promotable(m), Overhead) THEN Failed(m, "nospace")
    ELSE Did([Commit(m, Promotable(m), Overhead, 0) EXCEPT !.live = @ - 1, !.orphans = @ + 1], 0)

(* A delayed mount stages the deletion of a file that is not open.         *)
UnlinkFile(m) ==
    IF ~Delayed(m)
    THEN AndThen(AndThen(CheckpointDataWindow(m), OrphanFile), ReclaimAfterRelease)
    ELSE IF m.poisoned THEN Failed(m, "poisoned")
    ELSE With(Followed([m EXCEPT !.open = TRUE, !.deletes = @ + 1, !.window_deletes = @ + 1]),
              NoteChange)

(* window_fsync: the log takes the group, refuses it, or has no room.      *)
WindowFsync(m, outcome) ==
    IF m.poisoned THEN Failed(m, "poisoned")
    ELSE IF outcome = "logged" \/ ~m.open THEN Did(m, 0)
    ELSE IF outcome = "refused" THEN Failed([m EXCEPT !.poisoned = TRUE], "failed")
    ELSE AndThen(WindowCommit(m), AfterWindowCommit)

Fsync(m, outcome) == AndThen(KeepRoom(m, 0), LAMBDA x : WindowFsync(x, outcome))

SyncMaintenance(m) ==
    IF ~m.idle_maintenance THEN Did(m, 0)
    ELSE AndThen(CleanupOrphans(m, StepsPerSync), LAMBDA x : ReclaimSpace(x, StepsPerSync))

SyncFilesystem(m) == AndThen(AndThen(WindowCommit(m), AfterWindowCommit), SyncMaintenance)

SetDurability(m, d) ==
    AndThen(IF d = "delayed" THEN Did(m, 0) ELSE CheckpointDataWindow(m),
            LAMBDA x : Did([x EXCEPT !.durability = d], 0))

(* Rest only after a step that succeeded, returned nothing and left the    *)
(* backlog where it was.                                                   *)
Rests(before, r) == r.err = "none" /\ r.n = 0 /\ Pending(r.m) = Pending(before)

IdleMaintenanceStep(m) ==
    IF ~Inline(m) THEN Did(m, 0)
    ELSE With(CleanupOrphans(m, StepsPerTick).m,
              LAMBDA c : IF c.rest THEN Did(c, 0)
                         ELSE With(ReclaimSpace(c, StepsPerTick),
                                   LAMBDA r : Did([r.m EXCEPT !.rest = Rests(c, r)], 0)))

(* A clock that went back counts as due.                                   *)
Due(age, limit) == age = NoTime \/ age[1] < 0 \/ age[1] >= limit

CommitIfDue(m) ==
    LET idle == Due(m.last_change, IdleTicks)
        commit == IF ~m.open THEN Did(ForgetWindow(m), 0)
                  ELSE IF idle \/ Due(m.first, AgeTicks) THEN CheckpointDataWindow(m)
                  ELSE Did(m, 0)
    IN  IF ~Delayed(m) THEN Did(m, 0)
        ELSE AndThen(commit, LAMBDA c : IF ~idle \/ c.open THEN Did(c, 0)
                                        ELSE IdleMaintenanceStep(c))

-----------------------------------------------------------------------------
(* The mount answers one request at a time.  A change that is dropped      *)
(* while its caller, or a later one, is told of an error is reported.      *)
Answer(result) ==
    \E r \in {result} :
        /\ mount' = [r.m EXCEPT !.refuse = FALSE,
                         !.tracked = IF @ = "dropped" /\ r.err /= "none" THEN "reported"
                                     ELSE IF @ = "chosen" THEN "none" ELSE @]
        /\ answer' = IF r.err = "nospace" THEN r.err ELSE "none"

(* The mount as a handler finds it.  The device may refuse the handler's   *)
(* next commit, and the change it stages may be the one followed.          *)
Handle(Handler(_), refuse, follow) ==
    /\ refuse => failures < MaxFailures
    /\ failures' = IF refuse THEN failures + 1 ELSE failures
    /\ backs' = backs
    /\ Answer(With([mount EXCEPT !.refuse = refuse,
                                 !.tracked = IF follow /\ @ = "none" THEN "chosen" ELSE @],
                   Handler))

Fits == mount.live + mount.writes < MaxFiles

WriteFile == Fits /\ \E refuse \in BOOLEAN, follow \in Followable : Handle(Write, refuse, follow)

WriteFileRefused ==
    /\ Fits /\ failures < MaxFailures /\ failures' = failures + 1
    /\ backs' = backs
    /\ Answer(WriteRefused(mount))

DeleteFile ==
    /\ mount.live > mount.deletes
    /\ \E refuse \in BOOLEAN, follow \in Followable : Handle(UnlinkFile, refuse, follow)

FsyncFile ==
    \E refuse \in BOOLEAN, outcome \in {"logged", "refused", "not for the log"} :
        /\ outcome = "refused" => refuse
        /\ Handle(LAMBDA m : Fsync(m, outcome), refuse, FALSE)

Sync == \E refuse \in BOOLEAN : Handle(SyncFilesystem, refuse, FALSE)

ChooseDurability ==
    \E refuse \in BOOLEAN, d \in {"sync", "delayed"} :
        /\ d /= mount.durability
        /\ Handle(LAMBDA m : SetDurability(m, d), refuse, FALSE)

(* set_idle_maintenance, off while a host forbids new changes, and         *)
(* set_inline_maintenance, off when it has a maintenance thread.           *)
ChooseMaintenance ==
    \E flag \in {"idle_maintenance", "inline_maintenance"} :
        Handle(LAMBDA m : Did([m EXCEPT ![flag] = ~@], 0), FALSE, FALSE)

(* A host's own maintenance thread.                                        *)
Maintain == \E refuse \in BOOLEAN : Handle(MaintenanceStep, refuse, FALSE)

Tick == \E refuse \in BOOLEAN : Handle(CommitIfDue, refuse, FALSE)

MaxTicks == IF IdleTicks > AgeTicks THEN IdleTicks ELSE AgeTicks
Older(age) == IF age = NoTime THEN age ELSE <<Least(age[1] + 1, MaxTicks)>>
Newer(age) == IF age = NoTime THEN age ELSE <<age[1] - 1>>

ClockAdvances ==
    /\ mount' = [mount EXCEPT !.first = Older(@), !.last_change = Older(@)]
    /\ UNCHANGED <<answer, backs, failures>>

ClockSetBack ==
    /\ backs < MaxBacks
    /\ backs' = backs + 1
    /\ mount' = [mount EXCEPT !.first = Newer(@), !.last_change = Newer(@)]
    /\ UNCHANGED <<answer, failures>>

Init ==
    /\ mount = [free |-> Blocks, live |-> 0, orphans |-> 0, queue |-> <<0, 0, 0>>,
                rest |-> FALSE, open |-> FALSE, writes |-> 0, deletes |-> 0,
                poisoned |-> FALSE, refuse |-> FALSE, durability |-> "sync",
                idle_maintenance |-> TRUE, inline_maintenance |-> TRUE, first |-> NoTime, last_change |-> NoTime,
                changes |-> 0, window_deletes |-> 0, tracked |-> "none"]
    /\ answer = "none" /\ alone = FALSE /\ timer = "clock"
    /\ backs = 0 /\ failures = 0

Leave == alone' = TRUE /\ UNCHANGED <<mount, answer, timer, backs, failures>>

User ==
    \/ "write" \in Requests /\ (WriteFile \/ WriteFileRefused)
    \/ "delete" \in Requests /\ DeleteFile
    \/ "sync" \in Requests /\ (FsyncFile \/ Sync)
    \/ "durability" \in Requests /\ ChooseDurability
    \/ "maintenance" \in Requests /\ (ChooseMaintenance \/ Maintain)

Timer ==
    \/ Tick /\ timer' = "tick"
    \/ ClockAdvances /\ timer' = "clock"
    \/ ClockSetBack /\ timer' = timer

Next ==
    \/ "leave" \in Requests /\ ~alone /\ Leave
    \/ ~alone /\ User /\ UNCHANGED <<alone, timer>>
    \/ Timer /\ UNCHANGED alone

(* Every adapter of a delayed mount calls commit_if_due on a timer, again  *)
(* and again, and time passes: neither is ever the last to have come.      *)
Fairness == WF_timer(timer' = "tick") /\ WF_timer(timer' = "clock")

Spec == Init /\ [][Next]_vars /\ Fairness

(* A mount whose callers never stop: writes, fsyncs and syncs keep coming. *)
Busy(request) == timer' = request /\ UNCHANGED alone

BusyNext ==
    \/ Timer /\ UNCHANGED alone
    \/ WriteFile /\ Busy("write")
    \/ WriteFileRefused /\ Busy("write")
    \/ FsyncFile /\ Busy("fsync")
    \/ Sync /\ Busy("sync")
    \/ ChooseDurability /\ UNCHANGED <<alone, timer>>

BusySpec ==
    /\ Init /\ [][BusyNext]_vars /\ Fairness
    /\ \A request \in {"write", "fsync", "sync"} : WF_timer(timer' = request)

-----------------------------------------------------------------------------
(* Properties. *)

(* Under delayed durability a change that a caller was told is made        *)
(* reaches a checkpoint, or some caller is told that it was lost, however  *)
(* many changes follow it and though the clock is set back (note_change,   *)
(* commit_if_due, checkpoint_data_window).                                 *)
EveryChangeSettles ==
    (mount.tracked \in {"pending", "dropped"} /\ Delayed(mount))
        ~> mount.tracked \in {"durable", "reported"}

(* A write is refused for want of space only when no deleted file is left  *)
(* to clean and nothing but the metadata of the last commits is left to    *)
(* return (keep_room, write, reclaim_everything).                          *)
RefusedOnlyWhenFull ==
    (answer = "nospace" /\ mount.idle_maintenance)
        => mount.orphans = 0 /\ Pending(mount) <= 2 * Overhead

(* A mount that lost a window goes on accepting changes once its callers   *)
(* have been told.                                                         *)
StaysUsable == mount.poisoned ~> ~mount.poisoned
=============================================================================
