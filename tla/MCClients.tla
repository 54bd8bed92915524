------------------------------ MODULE MCClients ------------------------------
(***************************************************************************)
(* Small instances of what serves the callers of a volume: the delayed     *)
(* window on a small disk, directory listings, the AROS and FUSE adapters, *)
(* archives, the chains that hold attributes, and the flight recorder.  A  *)
(* behaviour is one of one component: part names it, and the others stay   *)
(* in their initial states.                                                *)
(***************************************************************************)
EXTENDS Integers, Sequences, TLC

VARIABLES
    part,
    mount, answer, alone, timer, backs, failures,
    entries, dirty, listing_generation, cursor, caller, listed, steady, commits, rewinds,
    names, kinds, dos, records, watches, owed, protect, steps,
    captured, writer, sent, media, spool, reader, faults,
    restored_names, objects, plan, task, staged, reports, refused,
    chain_records, segments, room, generation, policy, harm,
    stored_set, fields, empties,
    up, parents, kernel,
    flight, removed, running, unwinding, engine

(* Eleven blocks, so that requests are refused and retried; the window is  *)
(* due at once and holds two operations.                                   *)
Window == INSTANCE DelayedCommit WITH
    Blocks <- 11, StepOverhead <- 1, Overhead <- 2, Headroom <- 3, ReclaimBatch <- 3,
    OrphansPerBatch <- 1, OrphansMax <- 1, RoomForMetadata <- 2, DelayedRoom <- 2,
    LowWater <- 2, RoomSteps <- 1, StepsPerTick <- 1, StepsPerRelease <- 1,
    StepsPerSync <- 2, WindowOpsMax <- 2, IdleTicks <- 0, AgeTicks <- 0,
    Requests <- {"write", "delete", "sync", "durability", "maintenance"}, Followable <- {FALSE},
    MaxFiles <- 9, MaxBacks <- 0, MaxFailures <- 0

(* Four names, one of which the AROS listing leaves out.                   *)
Listing == INSTANCE DirectoryListing WITH
    Keys <- 1 .. 4, Hidden <- {2}, Initial <- {1, 2, 4}, MaxLimit <- 2, Batch <- 4,
    MaxCommits <- 3, MaxRewinds <- 1, generation <- listing_generation

(* Two names, three objects, the smallest limits at which every table can  *)
(* be full, and four calls.                                                *)
Aros == INSTANCE ArosAdapter WITH
    Names <- {"a", "b"}, Paths <- {<<"a", "a">>, <<"", "b">>}, MaxObject <- 3,
    MaxLocks <- 2, MaxFiles <- 2, MaxRecords <- 2, MaxWatches <- 1, Floor <- 3,
    Offsets <- {0, 1, 2}, Keys <- {0, 7}, MaxSteps <- 4

(* A file with reserved ranges inside and past its end and a value of each *)
(* class, a second name of it, a directory, and a link in the directory.   *)
SmallJob == <<
    [kind |-> "file", path |-> "f", object |-> 1, link |-> "none", parent |-> "root"],
    [kind |-> "hardlink", path |-> "a", object |-> 1, link |-> "f", parent |-> "root"],
    [kind |-> "directory", path |-> "d", object |-> 2, link |-> "none", parent |-> "root"],
    [kind |-> "symlink", path |-> "s", object |-> 3, link |-> "there", parent |-> "d"]>>

Plain ==
    [size |-> 0, ranges |-> <<>>, comment |-> "none",
     knowledge |-> [attribute |-> "empty", security |-> "empty"],
     values |-> [attribute |-> <<>>, security |-> <<>>]]
Extent(offset, length, unwritten) == [offset |-> offset, length |-> length, unwritten |-> unwritten]
SparseFile(comment, security) ==
    [Plain EXCEPT !.size = 5, !.comment = comment,
       !.ranges = <<Extent(0, 2, FALSE), Extent(2, 2, TRUE), Extent(4, 2, FALSE), Extent(8, 2, TRUE)>>,
       !.knowledge = [attribute |-> "present", security |-> security],
       !.values.attribute = <<"k1", "k2">>]
Directory ==
    [Plain EXCEPT !.comment = "captured", !.knowledge.security = "present",
                  !.values.security = <<"acl">>]
FirstView == <<SparseFile("captured", "empty"), Directory, Plain>>
SecondView == <<SparseFile("none", "uninspected"), Directory, Plain>>

Archive == INSTANCE ArchiveRestore WITH
    Job <- SmallJob, Captures <- {FirstView, SecondView}, ChunkUnits <- 3, MaxFaults <- 1,
    BlockUnits <- 2, MaxReaders <- 2, names <- restored_names

(* Two objects, sets of up to two entries, four blocks for chains.         *)
Chains == INSTANCE ObjectChains WITH
    Objects <- {1, 2}, Entries <- {<<"a", 1>>, <<"a", 2>>, <<"b", 1>>}, Descriptors <- {"d1"},
    ChainBlocks <- 1 .. 4, MaxSet <- 2, MaxCommits <- 4, MaxFaults <- 1,
    records <- chain_records

(* Names in and below every namespace the host and the volume use.         *)
SomeNames ==
    {<<"x">>, <<"user", "x">>, <<"afsplus", "x">>, <<"user", "afsplus", "x">>,
     <<"afsplus", "user", "x">>, <<"afsplus", "user", "afsplus", "x">>,
     <<"aros", "x">>, <<"trusted", "afsplus", "aros", "x">>, <<"trusted", "afsplus", "user", "x">>,
     <<"afsplus", "aros", "x">>, <<"aros", "comment">>, <<"afsplus", "aros", "comment">>,
     <<"trusted", "afsplus", "aros", "comment">>, <<"user", "afsplus", "aros", "comment">>,
     <<"afsplus", "user", "afsplus", "aros", "comment">>, <<"afsplus", "aros", "protection">>,
     <<"security", "x">>, <<"system", "restore", "stage">>}

Host == INSTANCE HostAttributes WITH
    HostNames <- SomeNames, AttrValues <- {"word"}, MaxStored <- 2

(* Every tree of three directories.                                        *)
Fuse == INSTANCE FuseAdapter WITH Root <- 100, Directories <- {1, 2, 3}

(* Identifiers that run out after three events, a ring of two, nested calls *)
(* and two windows of one log record.                                      *)
Flight == INSTANCE FlightRecorder WITH
    MaxId <- 3, Capacity <- 2, Selections <- {{"api", "transaction", "detail"}},
    MaxDepth <- 2, MaxLogged <- 1, MaxWindows <- 2

-----------------------------------------------------------------------------

window_vars == <<mount, answer, alone, timer, backs, failures>>
listing_vars ==
    <<entries, dirty, listing_generation, cursor, caller, listed, steady, commits, rewinds>>
aros_vars == <<names, kinds, dos, records, watches, owed, protect, steps>>
archive_vars ==
    <<captured, writer, sent, media, spool, reader, faults,
      restored_names, objects, plan, task, staged, reports, refused>>
chain_vars == <<chain_records, segments, room, generation, policy, harm>>
host_vars == <<stored_set, fields, empties>>
fuse_vars == <<up, parents, kernel>>
flight_vars == <<flight, removed, running, unwinding, engine>>

vars == <<part, window_vars, listing_vars, aros_vars, archive_vars, chain_vars, host_vars, fuse_vars,
          flight_vars>>

Init ==
    /\ part \in {"window", "listing", "aros", "archive", "chains", "host", "fuse", "flight"}
    /\ Window!Init /\ Listing!Init /\ Aros!ArosInit /\ Archive!RestoreInit
    /\ Chains!ChainInit /\ Host!HostInit /\ Fuse!AdapterInit
    /\ Flight!FlightInit
    /\ part /= "archive" => captured = FirstView /\ writer.mode = "full"
    /\ part /= "chains" => policy = "preserve"
    /\ part /= "host" => empties
    /\ part /= "fuse" => \A d \in DOMAIN up : up[d] = 100

Next ==
    \/ /\ part = "window" /\ Window!Next
       /\ UNCHANGED <<part, listing_vars, aros_vars, archive_vars, chain_vars, host_vars,
                      fuse_vars, flight_vars>>
    \/ /\ part = "listing" /\ Listing!Next
       /\ UNCHANGED <<part, window_vars, aros_vars, archive_vars, chain_vars, host_vars,
                      fuse_vars, flight_vars>>
    \/ /\ part = "aros" /\ Aros!ArosNext
       /\ UNCHANGED <<part, window_vars, listing_vars, archive_vars, chain_vars, host_vars,
                      fuse_vars, flight_vars>>
    \/ /\ part = "archive" /\ Archive!RestoreNext
       /\ UNCHANGED <<part, window_vars, listing_vars, aros_vars, chain_vars, host_vars,
                      fuse_vars, flight_vars>>
    \/ /\ part = "chains" /\ Chains!ChainNext
       /\ UNCHANGED <<part, window_vars, listing_vars, aros_vars, archive_vars, host_vars,
                      fuse_vars, flight_vars>>
    \/ /\ part = "host" /\ Host!HostNext
       /\ UNCHANGED <<part, window_vars, listing_vars, aros_vars, archive_vars, chain_vars,
                      fuse_vars, flight_vars>>
    \/ /\ part = "fuse" /\ Fuse!AdapterNext
       /\ UNCHANGED <<part, window_vars, listing_vars, aros_vars, archive_vars, chain_vars,
                      host_vars, flight_vars>>
    \/ /\ part = "flight" /\ Flight!FlightNext
       /\ UNCHANGED <<part, window_vars, listing_vars, aros_vars, archive_vars, chain_vars, host_vars,
                      fuse_vars>>

Spec == Init /\ [][Next]_vars

-----------------------------------------------------------------------------
(* The properties of the components, stated there.                         *)

(* A full disk is reported only when the disk is full (with_room).         *)
RefusedOnlyWhenFull == part = "window" => Window!RefusedOnlyWhenFull

(* A listing returns every steady name once (read_enumerator).             *)
ListedOnce == part = "listing" => Listing!ListedOnce

(* Locks and handles never conflict (change_hold, acquire_lock).           *)
HoldsSound == part = "aros" => Aros!HoldsSound

(* A watch whose name changed is pending (touch).                          *)
WatchesFire == part = "aros" => Aros!WatchesFire

(* What a restore reports is what was captured (afsplus-backup).           *)
RestoredExact == part = "archive" => Archive!RestoredExact

(* A restore with no fault is not refused (afsplus-backup).                *)
CleanRestoresSucceed == part = "archive" => Archive!CleanRestoresSucceed

(* A chain reads back as the set or not at all, and every chain block has  *)
(* one owner (chain.rs, read_chain, clone_file_attributes).                *)
ChainsSound == part = "chains" => Chains!ChainsSound

(* No stored attribute is hidden from the host (afsplus-fuse, xattr names). *)
NothingHidden == part = "host" => Host!NothingHidden

(* ".." is the parent (afsplus-fuse, parents).                             *)
DotDotExact == part = "fuse" => Fuse!DotDotExact

(* A trace accounts for every event and names the call, the window and the *)
(* log record it belongs to (flight.rs).                                   *)
TraceSound == part = "flight" => Flight!TraceSound
=============================================================================
