--------------------------- MODULE MountSupervisor --------------------------
(***************************************************************************)
(* The supervisor of a macOS mount (afsplus-mount.rs): it starts the       *)
(* process that serves the volume, finds the relay through which macOS     *)
(* reaches it, and cleans up when that process dies.  What macOS does with *)
(* the relay, the mount and its record of mounts is as the supervisor's    *)
(* comments describe it.                                                   *)
(***************************************************************************)
EXTENDS Naturals

VARIABLES
    sup,        \* the supervisor: identify, watch, unmount, blocked, final, done
    child,      \* the volume process: starting, serving, stuck, dead, clean
    relay,      \* this volume's relay: none, up, gone
    known,      \* identify_relay returned it
    umount,     \* the supervisor's umount process: none, running, ended
    asking,     \* a program waits for an answer of the volume
    listed,     \* macOS keeps the mount in its list on disk
    orphaned    \* wait_while_served saw the relay gone

sup_vars == <<sup, child, relay, known, umount, asking, listed, orphaned>>

-----------------------------------------------------------------------------
(* The volume process and macOS.                                           *)

RelayComes ==
    /\ child = "starting" /\ relay = "none" /\ relay' = "up"
    /\ UNCHANGED <<sup, child, known, umount, asking, listed, orphaned>>

(* mount_session: the mount completes after the request loop has started.  *)
MountCompletes ==
    /\ child = "starting" /\ relay = "up"
    /\ child' = "serving" /\ listed' = TRUE
    /\ UNCHANGED <<sup, relay, known, umount, asking, orphaned>>

(* macOS ends the relay, and the mount call never returns.                 *)
MountRefused ==
    /\ child = "starting" /\ relay = "up"
    /\ child' = "stuck" /\ relay' = "gone"
    /\ UNCHANGED <<sup, known, umount, asking, listed, orphaned>>

ProgramAsks ==
    /\ child = "serving" /\ relay = "up" /\ asking' = TRUE
    /\ UNCHANGED <<sup, child, relay, known, umount, listed, orphaned>>

ProgramAnswered ==
    /\ child = "serving" /\ asking /\ asking' = FALSE
    /\ UNCHANGED <<sup, child, relay, known, umount, listed, orphaned>>

ChildDies ==
    /\ child \in {"starting", "serving"} /\ child' = "dead"
    /\ UNCHANGED <<sup, relay, known, umount, asking, listed, orphaned>>

(* A stop signal, or a person, unmounts: the relay ends before the process. *)
UnmountAsked ==
    /\ child = "serving" /\ ~asking /\ relay = "up"
    /\ relay' = "gone" /\ listed' = FALSE
    /\ UNCHANGED <<sup, child, known, umount, asking, orphaned>>

ChildEnds ==
    /\ child = "serving" /\ relay = "gone"
    /\ child' = "clean"
    /\ UNCHANGED <<sup, relay, known, umount, asking, listed, orphaned>>

(* The unmount of a dead mount waits for a request that was in flight.     *)
UmountEnds ==
    /\ umount = "running" /\ ~asking
    /\ umount' = "ended" /\ listed' = FALSE
    /\ relay' \in {relay, "gone"}
    /\ UNCHANGED <<sup, child, known, asking, orphaned>>

-----------------------------------------------------------------------------
(* The supervisor.                                                         *)

Ended == child \in {"dead", "clean"}

(* Polls until a fresh relay is there, the child ends or 30 s are over.    *)
IdentifyRelay ==
    /\ sup = "identify" /\ sup' = "watch"
    /\ \/ ~Ended /\ relay = "up" /\ known' = TRUE
       \/ (Ended \/ relay /= "up") /\ UNCHANGED known
    /\ UNCHANGED <<child, relay, umount, asking, listed, orphaned>>

SeesOrphan ==
    /\ sup = "watch" /\ known /\ ~Ended /\ relay = "gone" /\ ~orphaned
    /\ orphaned' = TRUE
    /\ UNCHANGED <<sup, child, relay, known, umount, asking, listed>>

(* Mutant: it waits for the process, as it does without a relay.           *)
WaitsForChild == FALSE /\ UNCHANGED sup_vars

(* Ten seconds after that a process which still lives is stopped.          *)
StopsOrphan ==
    /\ sup = "watch" /\ orphaned /\ ~Ended
    /\ child' = "dead"
    /\ UNCHANGED <<sup, relay, known, umount, asking, listed, orphaned>>

ChildGone ==
    /\ sup = "watch" /\ Ended
    /\ sup' = IF child = "clean" THEN "done" ELSE "unmount"
    /\ UNCHANGED <<child, relay, known, umount, asking, listed, orphaned>>

(* release: programs that wait are answered with an error.  Without an     *)
(* unmount under way macOS forgets the mount and keeps it in its list.     *)
Released == relay' = (IF relay = "up" THEN "gone" ELSE relay)
            /\ asking' = (asking /\ relay /= "up")

(* unmount_dead: umount, and if it has not ended in two seconds the relay. *)
StartUmount ==
    /\ sup = "unmount" /\ sup' = "blocked" /\ umount' = "running"
    /\ UNCHANGED <<child, relay, known, asking, listed, orphaned>>

BlockedRelease ==
    /\ sup = "blocked" /\ umount = "running"
    /\ sup' = "waiting"
    /\ IF known THEN Released ELSE UNCHANGED <<relay, asking>>
    /\ UNCHANGED <<child, known, umount, listed, orphaned>>

(* Then it has fifteen more, and is killed.                                *)
UmountOver ==
    /\ sup \in {"blocked", "waiting"}
    /\ \/ umount = "ended" /\ UNCHANGED umount
       \/ sup = "waiting" /\ umount = "running" /\ asking /\ umount' = "ended"
    /\ sup' = "final"
    /\ UNCHANGED <<child, relay, known, asking, listed, orphaned>>

(* A relay that outlived the unmount is released.                          *)
FinalRelease ==
    /\ sup = "final" /\ sup' = "done"
    /\ IF known THEN Released ELSE UNCHANGED <<relay, asking>>
    /\ UNCHANGED <<child, known, umount, listed, orphaned>>

SupInit ==
    /\ sup = "identify" /\ child = "starting" /\ relay = "none" /\ known = FALSE
    /\ umount = "none" /\ asking = FALSE /\ listed = FALSE /\ orphaned = FALSE

Supervise == \/ IdentifyRelay \/ SeesOrphan \/ StopsOrphan \/ ChildGone
             \/ StartUmount \/ BlockedRelease \/ UmountOver \/ FinalRelease

SupNext ==
    \/ RelayComes \/ MountCompletes \/ MountRefused \/ ProgramAsks \/ ProgramAnswered
    \/ ChildDies \/ UnmountAsked \/ ChildEnds \/ UmountEnds \/ Supervise

(* The supervisor runs; an unmount that nothing blocks ends.               *)
SupSpec ==
    /\ SupInit /\ [][SupNext]_sup_vars
    /\ WF_sup_vars(Supervise) /\ WF_sup_vars(UmountEnds)

-----------------------------------------------------------------------------
(* Properties. *)

(* A program that waits on a volume whose process died is released, and a  *)
(* process that a refused mount left stuck is ended, whenever the relay    *)
(* was identified; the mount is not listed then, or the next one at that   *)
(* path would be refused (run, wait_while_served, unmount_dead).           *)
NobodyWaits ==
    known /\ child \in {"dead", "stuck"} ~> sup = "done" /\ ~asking /\ ~listed

=============================================================================
