---------------------------- MODULE ObjectChains ----------------------------
(***************************************************************************)
(* The chains of blocks that one object owns (volume/chain.rs): its named  *)
(* attributes and its security descriptor.  A chain is written whole by    *)
(* one commit, proved segment by segment when it is read, and retired with *)
(* the commit that replaces it or removes the object.  The device may lose *)
(* a write, damage a block or be cut off in a commit.                      *)
(***************************************************************************)
EXTENDS Integers, FiniteSets, SequencesExt

CONSTANTS
    Objects,        \* bound: object ids, never used twice
    Entries,        \* attributes: pairs of a name and a value, which is not 0
    Descriptors,    \* security descriptors
    ChainBlocks,    \* bound: allocatable blocks
    MaxSet,         \* entries an attribute set may hold (MAX_ATTRIBUTE_SET_BYTES)
    MaxCommits,     \* bound: commits
    MaxFaults       \* bound: lost writes, damaged blocks and cuts together

VARIABLES
    records,        \* object records
    segments,       \* the bytes of the blocks
    room,           \* the allocator: [free, queue]
    generation,     \* of the checkpoint
    policy,         \* SecurityProjectionPolicy of this mount
    harm            \* faults so far

chain_vars == <<records, segments, room, generation, policy, harm>>

Kinds == {"attributes", "security"}
Policies == {"strict", "preserve"}
NoRef == [first |-> 0, len |-> 0, count |-> 0, all |-> <<>>]
Gone == [state |-> "gone", attributes |-> NoRef, security |-> NoRef, diverged |-> FALSE,
         protection |-> 0]
Junk == [kind |-> "junk", owner |-> 0, index |-> 0, count |-> 0, len |-> 0, next |-> 0,
         gen |-> 0, content |-> {}]

-----------------------------------------------------------------------------
(* Segments.  A content is a set of entries; an entry fills a segment.     *)

segment_count(content) == Cardinality(content)

(* stage_chain: the segments of a content in the given blocks.             *)
stage_chain(o, kind, content, lbas) ==
    [b \in ToSet(lbas) |->
        LET i == CHOOSE i \in DOMAIN lbas : lbas[i] = b
        IN  [kind |-> kind, owner |-> o, index |-> i - 1, count |-> Len(lbas),
             len |-> Cardinality(content), next |-> IF i < Len(lbas) THEN lbas[i + 1] ELSE 0,
             gen |-> generation + 1, content |-> content]]

Ref(content, lbas) == IF lbas = <<>> THEN NoRef
                      ELSE [first |-> lbas[1], len |-> Cardinality(content),
                            count |-> Len(lbas), all |-> lbas]

(* Mutant: segments of different commits make one chain.                   *)
AnyGeneration(s, first, o, kind, ref, i) ==
    /\ s.kind = kind /\ s.owner = o /\ s.index = i
    /\ s.count = ref.count /\ s.len = ref.len
    /\ s.gen \in 1 .. generation

Matches(s, first, o, kind, ref, i) ==
    /\ s.kind = kind /\ s.owner = o /\ s.index = i
    /\ s.count = ref.count /\ s.len = ref.len
    /\ s.gen \in 1 .. generation /\ s.gen = first.gen

(* The segments consistent with the reference, up to the first that is not. *)
walk_chain(o, kind, ref) ==
    LET step(w, i) ==
          IF w.damaged \/ w.lba \notin ChainBlocks \/ w.lba \in ToSet(w.found)
          THEN [w EXCEPT !.damaged = TRUE]
          ELSE LET s == segments[w.lba]
                   first == IF w.found = <<>> THEN s ELSE segments[w.found[1]]
               IN  IF Matches(s, first, o, kind, ref, i)
                   THEN [w EXCEPT !.found = Append(@, w.lba), !.lba = s.next]
                   ELSE [w EXCEPT !.damaged = TRUE]
        after[i \in 0 .. ref.count] ==
          IF i = 0 THEN [found |-> <<>>, lba |-> ref.first, damaged |-> FALSE]
          ELSE step(after[i - 1], i - 1)
    IN  after[ref.count]

(* load_chain: the content, whole or not at all.                           *)
Loads(o, kind) == ~walk_chain(o, kind, records[o][kind]).damaged
load_chain(o, kind) ==
    {segments[b].content : b \in ToSet(walk_chain(o, kind, records[o][kind]).found)}

Attributes(o) == UNION load_chain(o, "attributes")

(* retire_chain                                                            *)
Retires(o, kind) == ToSet(walk_chain(o, kind, records[o][kind]).found)

-----------------------------------------------------------------------------
(* The transaction.  A retired block stays allocated until the checkpoint  *)
(* that held it is gone; a block that is free cannot be retired.           *)

Promoted == {q[1] : q \in {q \in room.queue : q[2] < generation}}
Available == room.free \union Promoted

(* The allocator's rover is anywhere; chains do not wrap around it.         *)
Allocated(n) == {lbas \in [1 .. n -> Available] : \A i \in 2 .. n : lbas[i - 1] < lbas[i]}

Overwrite(staged, kept) == [b \in ChainBlocks |->
                              IF b \in DOMAIN staged \ kept THEN staged[b] ELSE segments[b]]

commit_transaction(new_records, staged, retired) ==
    /\ retired \intersect Available = {}
    /\ \E dropped \in {{}} \union {{b} : b \in DOMAIN staged} :
          /\ dropped /= {} => harm < MaxFaults
          /\ segments' = Overwrite(staged, dropped)
          /\ harm' = harm + Cardinality(dropped)
    /\ records' = new_records
    /\ room' = [free |-> Available \ DOMAIN staged,
                queue |-> {q \in room.queue : q[1] \notin Promoted}
                             \union {<<b, generation + 1>> : b \in retired}]
    /\ generation' = generation + 1
    /\ UNCHANGED policy

(* A power cut: some of the segments are written and no record names them. *)
CommitCut(staged) ==
    /\ harm < MaxFaults /\ DOMAIN staged /= {}
    /\ \E unwritten \in SUBSET DOMAIN staged : segments' = Overwrite(staged, unwritten)
    /\ harm' = harm + 1 /\ policy' \in Policies
    /\ UNCHANGED <<records, room, generation>>

(* replace_chain: an empty content removes the chain.                      *)
replace_chain(o, kind, content, record) ==
    \E lbas \in Allocated(segment_count(content)) :
    \E staged \in {stage_chain(o, kind, content, lbas)} :
        \/ commit_transaction([records EXCEPT ![o] = [record EXCEPT ![kind] = Ref(content, lbas)]],
                              staged, Retires(o, kind))
        \/ CommitCut(staged)

Live(o) == records[o].state = "live"

-----------------------------------------------------------------------------
(* Attributes: changes apply in order, all in one commit or none.          *)

Changes == Entries \union {<<e[1], 0>> : e \in Entries}      \* 0 removes

Named(set, n) == {e \in set : e[1] = n}

Admitted(set, change, mode) ==
    IF change[2] = 0 THEN Named(set, change[1]) /= {}
    ELSE /\ mode = "create" => Named(set, change[1]) = {}
         /\ mode = "replace" => Named(set, change[1]) /= {}

Applied(set, change) ==
    (set \ Named(set, change[1])) \union (IF change[2] = 0 THEN {} ELSE {change})

(* The sets a batch of one or two changes may leave; none if one of them   *)
(* is refused.                                                             *)
Batch(before, mode) ==
    LET one(sets) == UNION {{Applied(set, c) : c \in {c \in Changes : Admitted(set, c, mode)}}
                            : set \in sets}
    IN  one({before}) \union one(one({before}))

SetAttributes ==
    \E o \in Objects :
        /\ Live(o) /\ Loads(o, "attributes")
        /\ \E before \in {Attributes(o)} :
           \E after \in UNION {Batch(before, mode) : mode \in {"upsert", "create", "replace"}} :
              /\ after /= before
              /\ Cardinality(after) <= MaxSet
              /\ replace_chain(o, "attributes", after, records[o])

-----------------------------------------------------------------------------
(* Security descriptors and the word they are projected to.                *)

SetSecurityDescriptor ==
    \E o \in Objects, d \in Descriptors :
        /\ Live(o)
        /\ replace_chain(o, "security", {<<"descriptor", d>>},
              [records[o] EXCEPT !.diverged = FALSE])

ClearSecurityDescriptor ==
    \E o \in Objects :
        /\ Live(o) /\ records[o].security /= NoRef
        /\ replace_chain(o, "security", {}, [records[o] EXCEPT !.diverged = FALSE])

(* project_protection: no record when the edit is refused.                 *)
project_protection(r, p) ==
    IF r.security /= NoRef /\ r.protection /= p
    THEN IF policy = "strict" THEN {} ELSE {[r EXCEPT !.protection = p, !.diverged = TRUE]}
    ELSE {[r EXCEPT !.protection = p]}

commit_object_metadata(o, r) == commit_transaction([records EXCEPT ![o] = r], <<>>, {})

SetObjectProtection ==
    \E o \in Objects, p \in 0 .. 1 :
        /\ Live(o) /\ records[o].protection /= p
        /\ \E r \in project_protection(records[o], p) : commit_object_metadata(o, r)

(* The protection with an owner and times, any of which may be what it was. *)
RestoreObjectMetadata ==
    \E o \in Objects, p \in 0 .. 1 :
        /\ Live(o)
        /\ \E r \in project_protection(records[o], p) : commit_object_metadata(o, r)

(* An owner, times or a comment: no chain depends on it.                   *)
SetObjectTimes == \E o \in Objects : Live(o) /\ commit_object_metadata(o, records[o])

-----------------------------------------------------------------------------
(* Objects come and go.                                                    *)

Copied(o, kind, lbas) ==
    IF records[o][kind] = NoRef THEN NoRef
    ELSE [records[o][kind] EXCEPT !.first = lbas[1], !.all = lbas]

(* clone_file: copies of both chains, owned by the clone.                  *)
CloneFile ==
    \E o, c \in Objects :
        /\ Live(o) /\ records[c].state = "unborn"
        /\ \A k \in Kinds : Loads(o, k)
        /\ \E n \in {records[o].security.count}, m \in {records[o].attributes.count} :
           \E lbas \in Allocated(n + m) :
           \E sec \in {SubSeq(lbas, 1, n)}, att \in {SubSeq(lbas, n + 1, n + m)} :
              LET of(kind) == UNION load_chain(o, kind)
                  staged == stage_chain(c, "security", of("security"), sec)
                              @@ stage_chain(c, "attributes", of("attributes"), att)
                  new == [records EXCEPT ![c] = [records[o] EXCEPT
                            !.security = Copied(o, "security", sec),
                            !.attributes = Copied(o, "attributes", att)]]
              IN  \/ commit_transaction(new, staged, {})
                  \/ CommitCut(staged)

(* unlink_file, remove_directory, the last step of orphan cleanup: what is *)
(* left of a damaged chain does not stop them.                             *)
DeleteObject ==
    \E o \in Objects :
        /\ Live(o)
        /\ commit_transaction([records EXCEPT ![o] = Gone], <<>>,
                              Retires(o, "security") \union Retires(o, "attributes"))

(* The device damages a block of a chain.                                  *)
DamageBlock ==
    /\ harm < MaxFaults /\ harm' = harm + 1
    /\ \E o \in Objects, k \in Kinds : \E b \in ToSet(records[o][k].all) :
          segments' = [segments EXCEPT ![b] = Junk]
    /\ UNCHANGED <<records, room, generation, policy>>

(* A file that was given every first value of its attributes at once.      *)
FirstObject == CHOOSE o \in Objects : \A p \in Objects : o <= p
FirstContent == {e \in Entries : e[2] = 1}
FirstBlocks == [i \in 1 .. Cardinality(FirstContent) |-> i]

ChainInit ==
    /\ records = [o \in Objects |->
          IF o = FirstObject
          THEN [Gone EXCEPT !.state = "live", !.attributes = Ref(FirstContent, FirstBlocks)]
          ELSE [Gone EXCEPT !.state = "unborn"]]
    /\ generation = 1
    /\ segments = [b \in ChainBlocks |->
          IF b \in ToSet(FirstBlocks)
          THEN [stage_chain(FirstObject, "attributes", FirstContent, FirstBlocks)[b]
                  EXCEPT !.gen = 1]
          ELSE Junk]
    /\ room = [free |-> ChainBlocks \ ToSet(FirstBlocks), queue |-> {}]
    /\ policy \in Policies /\ harm = 0

Transaction ==
    \/ SetAttributes \/ SetSecurityDescriptor \/ ClearSecurityDescriptor
    \/ SetObjectProtection \/ RestoreObjectMetadata \/ SetObjectTimes
    \/ CloneFile \/ DeleteObject

ChainNext == (generation < MaxCommits /\ Transaction) \/ DamageBlock

ChainSpec == ChainInit /\ [][ChainNext]_chain_vars

-----------------------------------------------------------------------------
(* Properties. *)

(* What a chain reads as is one content that one commit wrote for that     *)
(* object, whatever write was lost (walk_chain): never parts of two.       *)
ContentWhole ==
    \A o \in Objects, k \in Kinds :
        Live(o) /\ records[o][k] /= NoRef /\ Loads(o, k)
          => Cardinality(load_chain(o, k)) = 1

(* A chain has one owner: the blocks of a live chain are neither free nor  *)
(* waiting to be, and in no other chain, whatever was damaged before       *)
(* (retire_chain, copy_attributes).                                        *)
ChainsOwned ==
    LET chains == {<<o, k>> : o \in {o \in Objects : Live(o)}, k \in Kinds}
        blocks(c) == ToSet(records[c[1]][c[2]].all)
    IN  \A c \in chains :
          /\ blocks(c) \intersect (room.free \union {q[1] : q \in room.queue}) = {}
          /\ \A d \in chains \ {c} : blocks(c) \intersect blocks(d) = {}

(* Attributes read back whole from blocks of their own (chain.rs).         *)
ChainsSound == ContentWhole /\ ChainsOwned
=============================================================================
