---------------------------- MODULE ArchiveStream ----------------------------
(***************************************************************************)
(* A backup archive and its transport (ADR-076 to ADR-095): the groups of  *)
(* members that describe a captured object, the writer that seals them     *)
(* with a completion member, and the reader, which runs over the archive   *)
(* itself or over a verified scratch copy of it.                           *)
(*                                                                         *)
(* A unit is a member with its records, or a piece of a member's payload;  *)
(* good is FALSE once its bytes changed.                                   *)
(***************************************************************************)
EXTENDS Integers, FiniteSets, SequencesExt

CONSTANTS
    Job,            \* entries in the order they are exported: [kind, path, object, link]
    Captures,       \* what the view can hold: functions from objects
    ChunkUnits,     \* units in a chunk of the scratch copy
    MaxFaults       \* bound: failing calls and damaged bytes

VARIABLES
    captured,       \* the view: object -> [size, ranges, knowledge, values]
    writer,         \* envelope::Writer and the export job
    sent,           \* units written
    media,          \* the archive as it arrives
    spool,          \* the scratch copy: [held, damaged]
    reader,         \* stream::Reader
    faults

archive_vars == <<captured, writer, sent, media, spool, reader, faults>>

-----------------------------------------------------------------------------
(* What the members say.                                                   *)

Classes == {"attribute", "security"}

inspected(o) == \A c \in Classes : captured[o].knowledge[c] /= "uninspected"

(* known: an inventory the view calls empty has no values, and one it      *)
(* calls present has some.                                                 *)
known(knowledge, values) ==
    \A c \in Classes : \/ knowledge[c] = "empty" /\ values[c] = <<>>
                       \/ knowledge[c] = "present" /\ values[c] /= <<>>

(* The stored content: written ranges, cut at the end of the file, and a   *)
(* marker there.                                                           *)
Clipped(range, size) == [offset |-> range.offset,
                         length |-> Min({range.length, size - range.offset})]

Written(ranges, size) ==
    LET stored == SelectSeq(ranges, LAMBDA r : ~r.unwritten /\ r.offset < size)
    IN  [i \in DOMAIN stored |-> Clipped(stored[i], size)]

SparseMap(o) == Append(Written(captured[o].ranges, captured[o].size),
                       [offset |-> captured[o].size, length |-> 0])

Unit(type, ord, path, body) ==
    [type |-> type, ord |-> ord, piece |-> 0, path |-> path, body |-> body, good |-> TRUE]

(* inventory::export: the manifest and then each value with its bytes,     *)
(* attributes first.                                                       *)
InOrder(values) == [i \in DOMAIN values["attribute"] |-> <<"attribute", values["attribute"][i]>>]
                   \o [i \in DOMAIN values["security"] |-> <<"security", values["security"][i]>>]

Values(o) == InOrder(captured[o].values)

Inventory(entry, ord) ==
    <<Unit("manifest", ord, entry.path, captured[entry.object].values)>>
    \o FlattenSeq([i \in DOMAIN Values(entry.object) |->
          LET v == Values(entry.object)[i]
          IN  <<Unit("value", ord + i, entry.path, v), Unit("bytes", ord + i, entry.path, v)>>])

ObjectUnit(entry, ord, mode) ==
    Unit("object", ord, entry.path,
         [kind |-> entry.kind, mode |-> mode, knowledge |-> captured[entry.object].knowledge])

FileGroup(entry, ord, mode) ==
    LET o == captured[entry.object]
        map == SparseMap(entry.object)
        stored == SelectSeq(map, LAMBDA r : r.length > 0)
    IN  <<ObjectUnit(entry, ord, mode),
          Unit("allocation", ord + 1, entry.path, [size |-> o.size, ranges |-> o.ranges]),
          Unit("sparse", ord + 2, entry.path, [size |-> o.size, map |-> map])>>
        \o [i \in DOMAIN stored |->
              [Unit("data", ord + 2, entry.path, stored[i]) EXCEPT !.piece = i]]
        \o IF mode = "full" THEN Inventory(entry, ord + 3) ELSE <<>>

NamespaceGroup(entry, ord, mode) ==
    <<ObjectUnit(entry, ord, mode), Unit("body", ord + 1, entry.path, entry.link)>>
    \o IF mode = "full" /\ entry.kind /= "hardlink" THEN Inventory(entry, ord + 2) ELSE <<>>

Group(entry, ord, mode) ==
    IF entry.kind = "file" THEN FileGroup(entry, ord, mode) ELSE NamespaceGroup(entry, ord, mode)

(* The ordinal after a group that starts at ord.                           *)
NextOrdinal(entry, ord, mode) ==
    LET body == IF entry.kind = "file" THEN ord + 2 ELSE ord + 1
    IN  IF mode = "full" /\ entry.kind /= "hardlink"
        THEN body + 1 + Len(Values(entry.object)) + 1 ELSE body + 1

-----------------------------------------------------------------------------
(* The writer.  A failure, of the source or of the output, withholds the   *)
(* completion member for good.                                             *)

Digest(units) ==
    [i \in DOMAIN units |-> <<units[i].type, units[i].ord, units[i].piece, units[i].good>>]

Current == Group(Job[writer.entry], writer.ord, writer.mode)
Exporting == ~writer.sealed /\ writer.entry <= Len(Job)

Invalidate(w) == [w EXCEPT !.poisoned = TRUE]

Emit ==
    /\ Exporting /\ ~writer.poisoned /\ media = <<>>
    /\ writer.mode = "full" => inspected(Job[writer.entry].object)
    /\ sent' = Append(sent, Current[writer.unit])
    /\ writer' = IF writer.unit < Len(Current) THEN [writer EXCEPT !.unit = @ + 1]
                 ELSE [writer EXCEPT !.entry = @ + 1, !.unit = 1,
                         !.ord = NextOrdinal(Job[writer.entry], writer.ord, writer.mode)]
    /\ UNCHANGED <<captured, media, spool, reader, faults>>

(* The source or the output fails, perhaps in the middle of a unit.        *)
EmitFails ==
    /\ Exporting /\ ~writer.poisoned /\ media = <<>> /\ faults < MaxFaults
    /\ \/ sent' = sent
       \/ sent' = Append(sent, [Current[writer.unit] EXCEPT !.good = FALSE])
    /\ writer' = Invalidate(writer)
    /\ faults' = faults + 1
    /\ UNCHANGED <<captured, media, spool, reader>>

(* A full export of what was not inspected is refused.                     *)
ExportRefused ==
    /\ Exporting /\ ~writer.poisoned /\ media = <<>> /\ writer.unit = 1
    /\ writer.mode = "full" /\ ~inspected(Job[writer.entry].object)
    /\ writer' = Invalidate(writer)
    /\ UNCHANGED <<captured, sent, media, spool, reader, faults>>

Finish ==
    /\ ~writer.sealed /\ ~writer.poisoned /\ writer.entry > Len(Job)
    /\ sent' = Append(sent, Unit("end", writer.entry, "complete", Digest(sent)))
    /\ writer' = [writer EXCEPT !.sealed = TRUE]
    /\ UNCHANGED <<captured, media, spool, reader, faults>>

(* The bytes reach the reader whole, cut short, changed or out of order.   *)
Damaged(units) ==
    {SubSeq(units, 1, n) : n \in 1 .. Len(units) - 1}
    \union {[units EXCEPT ![i].good = FALSE] : i \in DOMAIN units}
    \union {[units EXCEPT ![i] = units[i + 1], ![i + 1] = units[i]] : i \in 1 .. Len(units) - 1}

Deliver ==
    /\ media = <<>> /\ (writer.sealed \/ writer.poisoned)
    /\ \/ media' = sent /\ faults' = faults
       \/ /\ faults < MaxFaults /\ faults' = faults + 1
          /\ media' \in Damaged(sent)
    /\ UNCHANGED <<captured, writer, sent, spool, reader>>

-----------------------------------------------------------------------------
(* The reader.                                                             *)

NoReader == [id |-> 0, verified |-> FALSE, pos |-> 0, poisoned |-> TRUE,
             complete |-> FALSE, chunk |-> -1]

Chunk(pos) == pos \div ChunkUnits

(* envelope::Reader: the completion member must agree with every unit      *)
(* before it and be the last.                                              *)
Completes(units) ==
    /\ units[1].type = "begin"
    /\ Last(units).type = "end" /\ Last(units).good
    /\ Last(units).body = Digest(Front(units))

(* Verified::capture copies the archive and reads it through once; only    *)
(* then can the copy be replayed.                                          *)
Capture ==
    /\ media /= <<>> /\ ~spool.held /\ reader.id = 0
    /\ Completes(media)
    /\ spool' = [held |-> TRUE, damaged |-> {}]
    /\ UNCHANGED <<captured, writer, sent, media, reader, faults>>

(* The scratch store loses a chunk, whether it was read before or not.     *)
DamageScratch ==
    /\ spool.held /\ faults < MaxFaults
    /\ \E c \in 0 .. Chunk(Len(media) - 1) \ spool.damaged :
          spool' = [spool EXCEPT !.damaged = @ \union {c}]
    /\ faults' = faults + 1
    /\ UNCHANGED <<captured, writer, sent, media, reader>>

Opened(verified) == [id |-> reader.id + 1, verified |-> verified, pos |-> 1,
                     poisoned |-> FALSE, complete |-> FALSE, chunk |-> 0]

(* A reader starts after the beginning control.                            *)
Opens(verified) == /\ media /= <<>> /\ media[1].type = "begin" /\ media[1].good
                   /\ verified => Chunk(0) \notin spool.damaged

can_publish(r) == ~r.poisoned /\ (r.complete \/ r.verified)

Poison(r) == [r EXCEPT !.poisoned = TRUE]

(* Replay::load: a chunk is read and proved once while it is cached.       *)
Loads(r) == r.chunk = Chunk(r.pos) \/ Chunk(r.pos) \notin spool.damaged

(* The readers after one more unit.  Bytes that changed are noticed by the *)
(* framing, or first by the completion member.                             *)
Structural == {"begin", "allocation", "sparse", "manifest", "value", "body", "end"}

Readable(r) ==
    /\ ~r.poisoned /\ r.pos < Len(media)
    /\ r.verified => Loads(r)
    /\ media[r.pos + 1].type = "end" => Completes(media)
    /\ media[r.pos + 1].type \in Structural => media[r.pos + 1].good

Following(r) == media[r.pos + 1]

Advance(r) == [r EXCEPT !.pos = @ + 1, !.chunk = Chunk(r.pos),
                        !.complete = Following(r).type = "end"]

ArchiveInit ==
    /\ captured \in Captures
    /\ writer \in {[mode |-> mode, entry |-> 1, unit |-> 1, ord |-> 0,
                    poisoned |-> FALSE, sealed |-> FALSE] : mode \in {"full", "recovery"}}
    /\ sent = <<Unit("begin", 0, "begin", <<>>)>> /\ media = <<>>
    /\ spool = [held |-> FALSE, damaged |-> {}]
    /\ reader = NoReader
    /\ faults = 0
=============================================================================
