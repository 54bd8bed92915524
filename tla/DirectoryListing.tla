-------------------------- MODULE DirectoryListing --------------------------
(***************************************************************************)
(* Listing a directory a page at a time while it changes: the ordinal      *)
(* cursor of the core (volume.rs read_directory_page), the recovery of a   *)
(* stale one by the last name (afsplus-vfs read_directory and              *)
(* resume_directory_after), and its two callers, the enumerator of the     *)
(* AROS handler and readdir of the FUSE adapter.                           *)
(*                                                                         *)
(* An entry is its comparison key, a number; keys in Hidden belong to      *)
(* private restore stages.                                                 *)
(***************************************************************************)
EXTENDS Integers, Sequences, SequencesExt

CONSTANTS
    Keys, Hidden,
    Initial,            \* the entries a listing starts from
    MaxLimit,           \* bound: entries asked of one AROS page
    Batch,              \* DIRECTORY_BATCH, the entries of one FUSE page
    MaxCommits,         \* bound: commits by others
    MaxRewinds          \* bound: times a caller starts over

VARIABLES
    entries,            \* the directory as the open window leaves it
    dirty,              \* the window changes it
    generation,
    cursor,             \* the VFS handle: its generation and last name
    caller,             \* the host: its offset and whether it is done
    listed,             \* how often each key was returned in this pass
    steady,             \* keys that were there for the whole pass
    commits, rewinds

vars == <<entries, dirty, generation, cursor, caller, listed, steady, commits, rewinds>>

NoName == 0
FirstRealOffset == 3    \* FIRST_REAL_DIRECTORY_OFFSET, after "." and ".."

-----------------------------------------------------------------------------
(* The core. *)

Ordered(dir) == SetToSortSeq(dir, <)

(* At most limit entries from an ordinal on (read_range).                  *)
Page(dir, ordinal, limit) ==
    LET all == Ordered(dir)
        page == SubSeq(all, ordinal + 1, IF ordinal + limit < Len(all) THEN ordinal + limit
                                         ELSE Len(all))
    IN  [entries |-> page, next |-> ordinal + Len(page), eof |-> ordinal + Len(page) >= Len(all)]

(* Mutant: the search takes the entry of that name for one after it.       *)
KeyBelow(dir, ordinal, target) ==
    LET page == Page(dir, ordinal, 1).entries IN page /= <<>> /\ page[1] < target

KeyAtMost(dir, ordinal, target) ==
    LET page == Page(dir, ordinal, 1).entries IN page /= <<>> /\ page[1] <= target

-----------------------------------------------------------------------------
(* The VFS. *)

(* Doubling steps from low, then halving: the number of entries ordered at *)
(* or before the target.                                                   *)
RECURSIVE Gallop(_, _, _, _)
Gallop(dir, target, low, step) ==
    LET probe == low + step - 1
    IN  IF KeyAtMost(dir, probe, target) THEN Gallop(dir, target, probe + 1, 2 * step)
        ELSE <<low, probe>>

RECURSIVE Bisect(_, _, _, _)
Bisect(dir, target, low, high) ==
    LET middle == low + (high - low) \div 2
    IN  IF low >= high THEN low
        ELSE IF KeyAtMost(dir, middle, target) THEN Bisect(dir, target, middle + 1, high)
        ELSE Bisect(dir, target, low, middle)

ResumeDirectoryAfter(dir, last) ==
    IF last = NoName THEN 0
    ELSE LET range == Gallop(dir, last, 0, 1) IN Bisect(dir, last, range[1], range[2])

(* The first page with a visible entry, and the last name on the way.      *)
RECURSIVE VisiblePage(_, _, _, _)
VisiblePage(dir, ordinal, limit, last) ==
    LET page == Page(dir, ordinal, limit)
        visible == SelectSeq(page.entries, LAMBDA k : k \notin Hidden)
        name == IF page.entries = <<>> THEN last ELSE page.entries[Len(page.entries)]
    IN  IF visible /= <<>> \/ page.eof
        THEN [entries |-> visible, next |-> page.next, eof |-> page.eof, last |-> name]
        ELSE VisiblePage(dir, page.next, limit, name)

(* A directory the window changes is committed first.  Cookie zero is a    *)
(* rewind; a cursor of another generation resumes after the last name.     *)
ReadDirectory(cookie, limit) ==
    LET now == IF dirty THEN generation + 1 ELSE generation
        last == IF cookie = 0 THEN NoName ELSE cursor.last
        ordinal == IF cursor.generation /= now THEN ResumeDirectoryAfter(entries, last) ELSE cookie
    IN  [page |-> VisiblePage(entries, ordinal, limit, last), generation |-> now]

Read(r) ==
    /\ dirty' = FALSE /\ generation' = r.generation
    /\ cursor' = [generation |-> r.generation, last |-> r.page.last]
    /\ UNCHANGED <<entries, steady, commits, rewinds>>

Returned(page) == listed' = [k \in Keys |-> listed[k] + Len(SelectSeq(page, LAMBDA e : e = k))]

-----------------------------------------------------------------------------
(* The hosts. *)

(* read_enumerator: the cookie is the one the page ended at.               *)
ReadEnumerator ==
    /\ ~caller.done
    /\ \E limit \in 1 .. MaxLimit : \E r \in {ReadDirectory(caller.offset, limit)} :
        /\ Read(r)
        /\ Returned(r.page.entries)
        /\ caller' = [caller EXCEPT !.offset = r.page.next, !.done = r.page.eof]

(* read_directory of the FUSE adapter: offsets are counted from the cookie *)
(* that was asked for.  readdir delivers what fits in the reply, and the   *)
(* kernel asks again from the last offset delivered until it gets nothing. *)
ReadDir ==
    /\ ~caller.done
    /\ LET dots == IF caller.offset = 0 THEN 2 ELSE IF caller.offset = 1 THEN 1 ELSE 0
           cookie == IF caller.offset < 2 THEN 0 ELSE caller.offset - 2
       IN  \E r \in {ReadDirectory(cookie, Batch - dots)} : \E fits \in 1 .. Batch :
            LET page == r.page.entries
                real == IF fits <= dots THEN 0
                        ELSE IF fits - dots < Len(page) THEN fits - dots ELSE Len(page)
            IN  /\ Read(r)
                /\ Returned(SubSeq(page, 1, real))
                /\ caller' = [caller EXCEPT
                        !.offset = IF real > 0 THEN FirstRealOffset + cookie + real - 1
                                   ELSE IF dots > 0 THEN IF fits < dots THEN @ + fits ELSE 2
                                   ELSE @,
                        !.done = dots = 0 /\ page = <<>>]

(* seekdir or a second pass over the same handle.                          *)
Rewind ==
    /\ rewinds < MaxRewinds /\ rewinds' = rewinds + 1
    /\ caller' = [caller EXCEPT !.offset = 0, !.done = FALSE]
    /\ listed' = [k \in Keys |-> 0]
    /\ steady' = entries \ Hidden
    /\ UNCHANGED <<entries, dirty, generation, cursor, commits>>

-----------------------------------------------------------------------------
(* Everybody else. *)

(* An entry is created or removed, in the window or in a commit of its     *)
(* own, which takes the window along.                                      *)
ChangeEntry ==
    /\ commits < MaxCommits /\ commits' = commits + 1
    /\ \E k \in Keys : entries' = IF k \in entries THEN entries \ {k} ELSE entries \union {k}
    /\ steady' = steady \cap entries'
    /\ \/ dirty' = FALSE /\ generation' = generation + 1
       \/ dirty' = TRUE /\ UNCHANGED generation
    /\ UNCHANGED <<cursor, caller, listed, rewinds>>

(* A commit for something else on the volume.                              *)
CommitWindow ==
    /\ commits < MaxCommits /\ commits' = commits + 1
    /\ dirty' = FALSE /\ generation' = generation + 1
    /\ UNCHANGED <<entries, cursor, caller, listed, steady, rewinds>>

Init ==
    /\ entries = Initial /\ dirty = FALSE /\ steady = Initial \ Hidden
    /\ generation = 0 /\ cursor = [generation |-> 0, last |-> NoName]
    /\ caller = [offset |-> 0, done |-> FALSE]
    /\ listed = [k \in Keys |-> 0]
    /\ commits = 0 /\ rewinds = 0

Other == Rewind \/ ChangeEntry \/ CommitWindow

(* The AROS handler on the volume.                                         *)
Next == ReadEnumerator \/ Other

Spec == Init /\ [][Next]_vars

(* The FUSE adapter on the volume.                                         *)
FuseNext == ReadDir \/ Other

FuseSpec == Init /\ [][FuseNext]_vars

-----------------------------------------------------------------------------
(* An entry that is in the directory for a whole pass is returned in it    *)
(* exactly once, and no entry twice, whatever is created, removed or       *)
(* committed between two pages (read_enumerator, resume_directory_after).  *)
ListedOnce ==
    /\ \A k \in Keys : listed[k] <= 1
    /\ caller.done => \A k \in steady : listed[k] = 1
=============================================================================
