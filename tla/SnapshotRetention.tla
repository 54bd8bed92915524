-------------------------- MODULE SnapshotRetention --------------------------
(***************************************************************************)
(* What persistent views promise (ADR-071): a block that a registered view *)
(* captured keeps its content for as long as either checkpoint registers   *)
(* the view, however the live namespace changes.                           *)
(*                                                                         *)
(* A block was allocated by the commit birth; it is live, retained since   *)
(* the commit end because a view may need it, queued for reclaim since the *)
(* commit end, or free.                                                    *)
(***************************************************************************)
EXTENDS Integers

CONSTANT Blocks

VARIABLES
    gen,            \* generation of the last commit
    block,          \* Blocks -> [state, birth, end]
    views,          \* the registered views: [gen, blocks]
    prior           \* generation and views of the other checkpoint

rvars == <<gen, block, views, prior>>

Free == [state |-> "free", birth |-> 0, end |-> 0]
Contains(lifetime, g) == lifetime.birth <= g /\ g < lifetime.end
Is(b, s) == block[b].state = s

(* A queued block that neither checkpoint reaches is as good as free.      *)
Promotable(b) == Is(b, "queued") /\ block[b].end <= prior.gen

Allocate(b) ==
    /\ Is(b, "free") \/ Promotable(b)
    /\ block'[b] = [state |-> "live", birth |-> gen + 1, end |-> 0]

Retire(b) ==
    /\ Is(b, "live")
    /\ block'[b] = [state |-> "retained", birth |-> block[b].birth, end |-> gen + 1]

(* A retained block that no registered view captured.                      *)
Transfer(b) ==
    /\ Is(b, "retained") /\ \A v \in views : ~Contains(block[b], v.gen)
    /\ block'[b] = [state |-> "queued", birth |-> 0, end |-> gen + 1]

Promote(b) == Promotable(b) /\ block'[b] = Free

(* A view captures the committed namespace.                                *)
NextViews ==
    \/ views' = views
    \/ views' = views \union {[gen |-> gen, blocks |-> {b \in Blocks : Is(b, "live")}]}
    \/ \E v \in views : views' = views \ {v}

Commit ==
    /\ \A b \in Blocks :
          Allocate(b) \/ Retire(b) \/ Transfer(b) \/ Promote(b) \/ block'[b] = block[b]
    /\ NextViews
    /\ gen' = gen + 1
    /\ prior' = [gen |-> gen, views |-> views]

RetentionInit ==
    /\ gen = 0
    /\ block = [b \in Blocks |-> Free]
    /\ views = {}
    /\ prior = [gen |-> 0, views |-> {}]

RetentionSpec == RetentionInit /\ [][Commit]_rvars

-----------------------------------------------------------------------------
(* A block of a view in either checkpoint is not free and was not written  *)
(* since the view was taken (snapshot_read_file_at on an old view).        *)
ViewsIntact ==
    \A v \in views \union prior.views : \A b \in v.blocks :
        /\ block[b].state \in {"live", "retained"}
        /\ block[b].birth <= v.gen
=============================================================================
