----------------------------- MODULE BlockCache -----------------------------
(***************************************************************************)
(* The write-through read cache of afsplus-block (cache.rs): slots, an     *)
(* index from block to slot, a doubly linked recency list threaded through *)
(* the slots, a list of free slots, and the decoded value a caller may     *)
(* attach to a cached block (tree.rs decode_node, volume.rs decode_record).*)
(***************************************************************************)
EXTENDS Integers, Sequences, FiniteSets
LOCAL INSTANCE SequencesExt
LOCAL INSTANCE Functions

CONSTANTS
    Lba,         \* the blocks of the device
    Content,     \* what a block may hold
    Partial,     \* what a refused write may leave beside the old and the new bytes
    MaxCapacity  \* bound: the largest capacity ever asked for

NONE == 0
NoRequest == MaxCapacity + 1
NoValue == <<>>

VARIABLES
    disk,                    \* the device below
    capacity, requested,     \* in force; asked for through a CacheControl
    index, slots, free, newest, oldest,
    transparent              \* the last read gave what the device holds

store == [capacity |-> capacity, index |-> index, slots |-> slots, free |-> free,
          newest |-> newest, oldest |-> oldest]
vars == <<disk, capacity, requested, index, slots, free, newest, oldest, transparent>>

(* The cache's fields take the values of c.                                *)
Becomes(c) ==
    /\ capacity' = c.capacity /\ index' = c.index /\ slots' = c.slots
    /\ free' = c.free /\ newest' = c.newest /\ oldest' = c.oldest

Empty(n) == [capacity |-> n, index |-> <<>>, slots |-> <<>>, free |-> <<>>,
             newest |-> NONE, oldest |-> NONE]

-----------------------------------------------------------------------------
(* The recency list. *)

(* Mutant: the list's end is not moved when its last slot leaves.          *)
KeepsOldest(c, s) ==
    LET previous == c.slots[s].previous
        next == c.slots[s].next
        ahead == IF previous = NONE THEN [c EXCEPT !.newest = next]
                 ELSE [c EXCEPT !.slots[previous].next = next]
    IN  IF next = NONE THEN ahead ELSE [ahead EXCEPT !.slots[next].previous = previous]

Unlink(c, s) ==
    LET previous == c.slots[s].previous
        next == c.slots[s].next
        ahead == IF previous = NONE THEN [c EXCEPT !.newest = next]
                 ELSE [c EXCEPT !.slots[previous].next = next]
    IN  IF next = NONE THEN [ahead EXCEPT !.oldest = previous]
        ELSE [ahead EXCEPT !.slots[next].previous = previous]

PushNewest(c, s) ==
    LET linked == [c EXCEPT !.slots[s].previous = NONE, !.slots[s].next = c.newest]
        behind == IF c.newest = NONE THEN linked
                  ELSE [linked EXCEPT !.slots[c.newest].previous = s]
    IN  [behind EXCEPT !.newest = s, !.oldest = IF @ = NONE THEN s ELSE @]

(* Slot s now holds l's bytes, and no decoded form.                        *)
Fill(c, s, l, bytes) ==
    [c EXCEPT !.slots[s].lba = l, !.slots[s].data = bytes, !.slots[s].decoded = NoValue]

Forget(f, l) == Restrict(f, DOMAIN f \ {l})

Keep(f, l, s) == [k \in DOMAIN f \cup {l} |-> IF k = l THEN s ELSE f[k]]

(* Mutant: a hit leaves the decoded form of the old bytes in its slot.     *)
KeepsDecoded(c, l, bytes) ==
    LET s == c.index[l]
    IN  PushNewest(Unlink([c EXCEPT !.slots[s].data = bytes], s), s)

(* insert finds l in the cache already.                                    *)
Replace(c, l, bytes) ==
    LET s == c.index[l]
    IN  PushNewest(Unlink(Fill(c, s, l, bytes), s), s)

Evict(c, l, bytes) ==
    LET s == c.oldest
        cleared == [Unlink(c, s) EXCEPT !.index = Forget(@, c.slots[s].lba)]
    IN  PushNewest([Fill(cleared, s, l, bytes) EXCEPT !.index = Keep(@, l, s)], s)

Insert(c, l, bytes) ==
    IF c.capacity = 0 THEN c
    ELSE IF l \in DOMAIN c.index THEN Replace(c, l, bytes)
    ELSE IF c.free /= <<>>
    THEN LET s == Last(c.free)
         IN  PushNewest([Fill(c, s, l, bytes) EXCEPT !.free = Front(@),
                                                     !.index = Keep(@, l, s)], s)
    ELSE IF Len(c.slots) < c.capacity
    THEN LET s == Len(c.slots) + 1
             slot == [lba |-> l, previous |-> NONE, next |-> NONE, data |-> bytes,
                      decoded |-> NoValue]
         IN  PushNewest([c EXCEPT !.slots = Append(@, slot), !.index = Keep(@, l, s)], s)
    ELSE Evict(c, l, bytes)

Invalidate(c, l) ==
    IF l \notin DOMAIN c.index THEN c
    ELSE LET s == c.index[l]
             gone == Unlink([c EXCEPT !.slots[s].decoded = NoValue], s)
         IN  [gone EXCEPT !.index = Forget(@, l), !.free = Append(@, s)]

(* The slots from the most recent on, at most n of them.                   *)
Walk(c, n) ==
    LET at[k \in 0..n] == IF k = 0 THEN <<>>
                          ELSE LET before == at[k - 1]
                                   s == IF k = 1 THEN c.newest
                                        ELSE IF Len(before) < k - 1 THEN NONE
                                        ELSE c.slots[before[k - 1]].next
                               IN  IF s = NONE THEN before ELSE Append(before, s)
    IN  at[n]

(* set_capacity: the most recent blocks move into fresh memory, the least  *)
(* recent of them first.                                                   *)
Resized(c, n) ==
    LET kept == Walk(c, n)
    IN  FoldRight(LAMBDA s, new : Insert(new, c.slots[s].lba, c.slots[s].data),
                  kept, Empty(n))

-----------------------------------------------------------------------------
(* The device's operations. *)

(* take_request: the memory for another capacity may not be there.         *)
Taken ==
    {store} \cup (IF requested = NoRequest THEN {} ELSE {Resized(store, requested)})

RequestCapacity ==
    /\ requested' \in 0..MaxCapacity
    /\ UNCHANGED <<disk, capacity, index, slots, free, newest, oldest, transparent>>

(* A reader of metadata: the bytes, and the decoded form beside them or    *)
(* one made of these bytes and attached.                                   *)
Decode(c, l, bytes) ==
    IF l \notin DOMAIN c.index
    THEN Becomes(c) /\ transparent' = (bytes = disk[l])
    ELSE LET s == c.index[l]
         IN  IF c.slots[s].decoded = NoValue
             THEN /\ Becomes([c EXCEPT !.slots[s].decoded = <<bytes>>])
                  /\ transparent' = (bytes = disk[l])
             ELSE /\ Becomes(c)
                  /\ transparent' = (bytes = disk[l] /\ c.slots[s].decoded = <<disk[l]>>)

ReadBlock(l, decode) ==
    \E c \in Taken :
        /\ requested' = NoRequest
        /\ LET hit == l \in DOMAIN c.index
               bytes == IF hit THEN c.slots[c.index[l]].data ELSE disk[l]
               after == IF hit THEN PushNewest(Unlink(c, c.index[l]), c.index[l])
                        ELSE Insert(c, l, bytes)
           IN  IF decode THEN Decode(after, l, bytes)
               ELSE Becomes(after) /\ transparent' = (bytes = disk[l])
        /\ disk' = disk

(* The device refuses the read: only a miss asks it.                       *)
ReadFailed(l) ==
    \E c \in Taken :
        /\ requested' = NoRequest
        /\ l \notin DOMAIN c.index
        /\ Becomes(c)
        /\ UNCHANGED <<disk, transparent>>

WriteBlock(l, bytes) ==
    \E c \in Taken :
        /\ requested' = NoRequest
        /\ Becomes(Insert(c, l, bytes))
        /\ disk' = [disk EXCEPT ![l] = bytes]
        /\ transparent' = transparent

(* The device refuses the write, which may have landed in part.            *)
WriteFailed(l, bytes) ==
    \E c \in Taken :
        /\ requested' = NoRequest
        /\ Becomes(Invalidate(c, l))
        /\ \E left \in {disk[l], bytes} \cup Partial : disk' = [disk EXCEPT ![l] = left]
        /\ transparent' = transparent

Init ==
    /\ \E v \in Content : disk = [l \in Lba |-> v]
    /\ capacity = MaxCapacity
    /\ requested = NoRequest
    /\ index = <<>> /\ slots = <<>> /\ free = <<>>
    /\ newest = NONE /\ oldest = NONE
    /\ transparent = TRUE

Next ==
    \/ RequestCapacity
    \/ \E l \in Lba :
        \/ \E decode \in BOOLEAN : ReadBlock(l, decode)
        \/ ReadFailed(l)
        \/ \E bytes \in Content : WriteBlock(l, bytes) \/ WriteFailed(l, bytes)

Spec == Init /\ [][Next]_vars

-----------------------------------------------------------------------------
(* Properties. *)

(* A read gives what the device holds, and a caller that decodes a block   *)
(* is never given a form older than its bytes, also after a refused write  *)
(* that landed in part (write_block, insert, attach).                      *)
Transparent == transparent

(* The slots, the index, the list threaded through the slots and the free  *)
(* list keep the blocks used most recently and no others: no slot is lost, *)
(* listed twice or evicted out of turn (unlink, push_newest, insert,       *)
(* invalidate, set_capacity).                                              *)
Recency == LET order == Walk(store, Len(slots) + 1)
           IN  [i \in 1..Len(order) |-> slots[order[i]].lba]
Lru == INSTANCE LruOrder WITH recency <- Recency
ImplementsLru == Lru!Spec
=============================================================================
