--------------------------- MODULE ArchiveRestore ---------------------------
(***************************************************************************)
(* Restoring the groups of an archive through a restore service: a group   *)
(* is a list of things to do, read from the archive or asked of the        *)
(* destination, which grows as members are read.  Any of them may fail;    *)
(* the reader then gives nothing more and what was restored stays.         *)
(***************************************************************************)
EXTENDS ArchiveStream

CONSTANTS
    BlockUnits,     \* bytes in a block of the destination
    MaxReaders      \* bound: readers opened one after another

VARIABLES
    names,          \* destination: path -> path of the object's first name
    objects,        \* destination: path of the first name -> the object
    plan,           \* the caller's place: [entry, ord, want]
    task,           \* the group being restored, or NoTask
    staged,         \* values uploaded and not yet published
    reports,        \* path -> mode of the group that reported success
    refused         \* calls refused although nothing failed

restore_vars == <<names, objects, plan, task, staged, reports, refused>>
all_vars == <<archive_vars, restore_vars>>

Paths == {Job[i].path : i \in DOMAIN Job}
NoTask == [todo |-> <<>>, object |-> 0, layout |-> 0, map |-> 0, unit |-> 0]
Absent == "absent"

-----------------------------------------------------------------------------
(* The destination.  meta stands for protection, owner and times, which    *)
(* every change of the object makes new.                                   *)

Empty(kind) == [kind |-> kind, size |-> 0, blocks |-> <<>>, content |-> <<>>, link |-> "none",
                comment |-> "none", meta |-> "new", values |-> {}, links |-> 1]

Blocks(offset, length) ==
    {b \in 0 .. (offset + length) \div BlockUnits :
        b * BlockUnits < offset + length /\ offset < (b + 1) * BlockUnits}

(* f with the value v on the set s.                                        *)
On(f, s, v) == [x \in DOMAIN f \union s |-> IF x \in s THEN v ELSE f[x]]

Changed(o) == [o EXCEPT !.meta = "new"]

WriteAt(o, range, good) ==
    Changed([o EXCEPT
      !.blocks = On(@, Blocks(range.offset, range.length), "written"),
      !.content = On(@, range.offset .. range.offset + range.length - 1,
                     IF good THEN "good" ELSE "bad"),
      !.size = Max({@, range.offset + range.length})])

Reserve(o, b) ==
    Changed([o EXCEPT !.blocks = IF b \in DOMAIN @ THEN @ ELSE On(@, {b}, "unwritten")])

Resize(o, size) == IF size = o.size THEN o ELSE Changed([o EXCEPT !.size = size])

-----------------------------------------------------------------------------
(* Coverage: two lists of ranges cover the same bytes in the same order    *)
(* with the same flag, however they are cut.                               *)

Cells(ranges) ==
    FlattenSeq([i \in DOMAIN ranges |->
        [n \in 1 .. ranges[i].length |-> <<ranges[i].offset + n - 1, ranges[i].unwritten>>]])

match_written(layout, map) ==
    /\ layout.size = map.size
    /\ LET flag(rs) == [i \in DOMAIN rs |-> [offset |-> rs[i].offset, length |-> rs[i].length,
                                             unwritten |-> FALSE]]
       IN  Cells(flag(Written(layout.ranges, layout.size)))
             = Cells(flag(SelectSeq(map.map, LAMBDA r : r.length > 0)))

(* The allocation pages of the destination, block by block.                *)
Pages(o) ==
    LET n == Cardinality(DOMAIN o.blocks)
        nth(i) == CHOOSE b \in DOMAIN o.blocks :
                     Cardinality({c \in DOMAIN o.blocks : c < b}) = i - 1
    IN  [i \in 1 .. n |-> [offset |-> nth(i) * BlockUnits, length |-> BlockUnits,
                           unwritten |-> o.blocks[nth(i)] = "unwritten"]]

Preserved(o, layout) == Cells(Pages(o)) = Cells(layout.ranges)

-----------------------------------------------------------------------------
(* What a group has to do, in order.  Reads are named by the unit they     *)
(* expect, calls by what they ask of the destination.                      *)

Do(step) == [do |-> step, ord |-> 0, arg |-> 0]
Read(type, ord) == [do |-> type, ord |-> ord, arg |-> 0]

Unreserved(layout) ==
    FlattenSeq([i \in DOMAIN layout.ranges |->
        IF ~layout.ranges[i].unwritten THEN <<>>
        ELSE [n \in 1 .. layout.ranges[i].length \div BlockUnits |->
                [Do("reserve") EXCEPT !.arg = layout.ranges[i].offset \div BlockUnits + n - 1]]])

Contents(map) ==
    FlattenSeq([i \in 1 .. Len(map.map) - 1 |-> <<Do("data"), [Do("write") EXCEPT !.arg = i]>>])

(* The manifest's digest fixes the values that follow, and their order.    *)
Uploads(values, ord) ==
    LET planned == InOrder(values)
    IN  FlattenSeq([i \in DOMAIN planned |->
            <<[Read("value", ord + i) EXCEPT !.arg = planned[i]],
              Read("bytes", ord + i), Do("publish")>>])

(* inventory::discard reads the values and installs none.                  *)
Drains(values, ord) == SelectSeq(Uploads(values, ord), LAMBDA s : s.do /= "publish")

(* Mutant: setting the comment comes last and moves the change time.       *)
CommentLast == <<Do("metadata"), Do("comment"), Do("check")>>

RestorePreserved == <<Do("comment"), Do("metadata"), Do("check")>>

FileTodo(ord, mode) ==
    <<Read("allocation", ord + 1), Read("sparse", ord + 2)>>
    \o (IF mode = "full" THEN <<Read("manifest", ord + 3)>> ELSE <<>>)
    \o RestorePreserved

NamespaceTodo(kind, ord, mode) ==
    LET manifest == IF mode = "full" THEN <<Read("manifest", ord + 2)>> ELSE <<>>
    IN  CASE kind = "directory" ->
               <<Read("body", ord + 1), Do("empty")>> \o manifest \o RestorePreserved
          [] kind = "symlink" ->
               <<Read("body", ord + 1), Do("symlink")>> \o manifest \o RestorePreserved
          [] kind = "hardlink" ->
               <<Read("body", ord + 1), Do("primary"), Do("link"), Do("metadata"), Do("check")>>

-----------------------------------------------------------------------------
Running == task.todo /= <<>>
Entry == Job[plan.entry]
Target == names[Entry.path]
Step == task.todo[1]
Rest == Tail(task.todo)

(* The group ends with an error: the reader is of no further use.          *)
Fail == /\ task' = NoTask /\ reader' = Poison(reader)
        /\ UNCHANGED <<captured, writer, sent, media, spool, names, objects, plan, staged, reports>>

Refuse(why) == Fail /\ refused' = refused \union {why} /\ UNCHANGED faults

(* Any read and any call of the destination may fail.                      *)
CallFails ==
    /\ Running /\ faults < MaxFaults
    /\ Fail /\ faults' = faults + 1 /\ UNCHANGED refused

Open(verified, want) ==
    /\ ~Running /\ reader.id < MaxReaders /\ Opens(verified)
    /\ reader.poisoned \/ (reader.complete /\ ~reader.verified)
    /\ reader' = Opened(verified)
    /\ plan' = [entry |-> 1, ord |-> 0, want |-> want]
    /\ UNCHANGED <<captured, writer, sent, media, spool, faults,
                   names, objects, task, staged, reports, refused>>

OpenReplay == spool.held /\ \E want \in {"full", "recovery"} : Open(TRUE, want)
OpenStream == ~reader.verified /\ Open(FALSE, "full")

-----------------------------------------------------------------------------
(* A group starts: the caller makes the file or the directory, and the     *)
(* reader must be one that may publish.                                    *)

Child(parent) == IF parent \in DOMAIN objects /\ objects[parent].kind /= "none"
                 THEN [objects EXCEPT ![parent] = Changed(@)] ELSE objects

StartGroup ==
    /\ ~Running /\ plan.entry <= Len(Job) /\ ~reader.poisoned /\ ~reader.complete
    /\ reader.pos = 1 \/ reader.verified
    /\ IF ~can_publish(reader) THEN Refuse("unverified")
       ELSE /\ task' = [NoTask EXCEPT !.todo = <<Read("object", plan.ord)>>]
            /\ IF Entry.kind \in {"file", "directory"} /\ Target = Absent
               THEN /\ names' = [names EXCEPT ![Entry.path] = Entry.path]
                    /\ objects' = [Child(Entry.parent) EXCEPT ![Entry.path] = Empty(Entry.kind)]
               ELSE UNCHANGED <<names, objects>>
            /\ UNCHANGED <<captured, writer, sent, media, spool, reader, faults,
                           plan, staged, reports, refused>>

(* The reads.                                                              *)
Reads == {"object", "allocation", "sparse", "data", "manifest", "value", "bytes", "body"}

Bound(u) == /\ u.type = Step.do /\ u.path = Entry.path
            /\ Step.ord /= 0 => u.ord = Step.ord

ReadFails ==
    /\ Running /\ Step.do \in Reads
    /\ IF ~Readable(reader)
       THEN Fail /\ UNCHANGED <<refused, faults>>
       ELSE ~Bound(Following(reader)) /\ Refuse("binding")

Reading(type) == /\ Running /\ Step.do = type
                 /\ Readable(reader) /\ Bound(Following(reader))

Took(new) == /\ task' = [new EXCEPT !.unit = Following(reader)]
             /\ reader' = Advance(reader)
             /\ UNCHANGED <<captured, writer, sent, media, spool, faults,
                            names, objects, plan, staged, reports, refused>>

ReadObject ==
    /\ Reading("object")
    /\ LET u == Following(reader)
       IN  IF plan.want = "full" /\ u.body.mode /= "full" THEN Refuse("mode")
           ELSE IF u.body.kind /= Entry.kind THEN Refuse("kind")
           ELSE Took([task EXCEPT !.object = u,
                        !.todo = IF Entry.kind = "file" THEN FileTodo(plan.ord, u.body.mode)
                                 ELSE NamespaceTodo(Entry.kind, plan.ord, u.body.mode)])

ReadLayout ==
    /\ Reading("allocation")
    /\ Took([task EXCEPT !.layout = Following(reader).body, !.todo = Rest])

(* Mutant: a target that an earlier attempt wrote to is taken.             *)
TakesLeftovers(o) == o.kind = "file" /\ o.links = 1

Fresh(o) == o.kind = "file" /\ o.size = 0 /\ o.blocks = <<>> /\ o.links = 1

(* prepare_restore and the calls that the layout asks for.                 *)
ReadSparse ==
    /\ Reading("sparse")
    /\ LET map == Following(reader).body
       IN  IF ~Fresh(objects[Target]) THEN Refuse("target")
           ELSE IF ~match_written(task.layout, map) THEN Refuse("layout")
           ELSE Took([task EXCEPT !.map = map,
                        !.todo = (IF plan.want = "full" THEN Unreserved(task.layout) ELSE <<>>)
                                 \o Contents(map) \o <<Do("resize")>>
                                 \o (IF plan.want = "full" THEN <<Do("readback")>> ELSE <<>>)
                                 \o Rest])

ReadManifest ==
    /\ Reading("manifest")
    /\ LET values == Following(reader).body
       IN  IF ~known(task.object.body.knowledge, values) THEN Refuse("knowledge")
           ELSE Took([task EXCEPT
                        !.todo = (IF plan.want = "full" THEN Uploads(values, Step.ord)
                                  ELSE Drains(values, Step.ord)) \o Rest])

ReadValue ==
    /\ Reading("value")
    /\ IF Following(reader).body /= Step.arg THEN Refuse("inventory")
       ELSE Took([task EXCEPT !.todo = Rest])

ReadOn == \E type \in {"data", "bytes", "body"} :
             Reading(type) /\ Took([task EXCEPT !.todo = Rest])

-----------------------------------------------------------------------------
(* The calls of the destination.                                           *)

Called(o) ==
    /\ objects' = [objects EXCEPT ![Target] = o]
    /\ task' = [task EXCEPT !.todo = Rest]
    /\ UNCHANGED <<captured, writer, sent, media, spool, reader, faults,
                   names, plan, staged, reports, refused>>

Calling(step) == Running /\ Step.do = step

Of(u, value) == IF u.good THEN value ELSE "bad"

Calls ==
    LET o == objects[Target]
        comment == captured[Entry.object].comment
    IN  \/ Calling("reserve") /\ Called(Reserve(o, Step.arg))
        \/ Calling("write") /\ Called(WriteAt(o, task.unit.body, task.unit.good))
        \/ Calling("resize") /\ Called(Resize(o, task.map.size))
        \/ Calling("publish") /\ Called([Changed(o) EXCEPT
              !.values = {v \in @ : v.value /= task.unit.body}
                           \union {[value |-> task.unit.body, good |-> task.unit.good]}])
        \/ Calling("comment") /\ Called(IF comment = "none" THEN o
                                       ELSE [Changed(o) EXCEPT !.comment = Of(task.object, comment)])
        \/ Calling("metadata") /\ Called([o EXCEPT !.meta = Of(task.object, "captured")])

(* Checks of the destination before and after.                             *)
Readback ==
    /\ Calling("readback")
    /\ IF objects[Target].size = task.layout.size /\ Preserved(objects[Target], task.layout)
       THEN Called(objects[Target]) ELSE Refuse("readback")

DirectoryEmpty ==
    /\ Calling("empty")
    /\ IF \A e \in ToSet(Job) : names[e.path] /= Absent => e.parent /= Entry.path
       THEN Called(objects[Target]) ELSE Refuse("not empty")

CreateSymlink ==
    /\ Calling("symlink")
    /\ IF Target /= Absent THEN Refuse("exists")
       ELSE /\ names' = [names EXCEPT ![Entry.path] = Entry.path]
            /\ objects' = [Child(Entry.parent) EXCEPT
                  ![Entry.path] = [Empty("symlink") EXCEPT !.link = task.unit.body]]
            /\ task' = [task EXCEPT !.todo = Rest]
            /\ UNCHANGED <<captured, writer, sent, media, spool, reader, faults,
                           plan, staged, reports, refused>>

(* restore_alias: the primary is as the archive says and the name is free. *)
PrimaryMatches ==
    /\ Calling("primary")
    /\ LET o == objects[Entry.link]
       IN  IF \/ o.kind /= "file" \/ o.meta /= Of(task.object, "captured")
              \/ o.comment /= captured[Entry.object].comment
           THEN Refuse("primary")
           ELSE IF Target /= Absent THEN Refuse("exists")
           ELSE /\ task' = [task EXCEPT !.todo = Rest]
                /\ UNCHANGED <<captured, writer, sent, media, spool, reader, faults,
                               names, objects, plan, staged, reports, refused>>

Link ==
    /\ Calling("link")
    /\ names' = [names EXCEPT ![Entry.path] = Entry.link]
    /\ objects' = [Child(Entry.parent) EXCEPT ![Entry.link] = Changed([@ EXCEPT !.links = @ + 1])]
    /\ task' = [task EXCEPT !.todo = Rest]
    /\ UNCHANGED <<captured, writer, sent, media, spool, reader, faults,
                   plan, staged, reports, refused>>

(* same_preserved and the stat of the restored object; then the report.    *)
Check ==
    /\ Calling("check")
    /\ IF /\ objects[Target].meta = Of(task.object, "captured")
          /\ objects[Target].comment = captured[Entry.object].comment
          /\ Entry.kind = "file" => objects[Target].size = task.layout.size
       THEN /\ reports' = [reports EXCEPT ![Entry.path] = plan.want]
            /\ plan' = [plan EXCEPT !.entry = @ + 1,
                          !.ord = NextOrdinal(Entry, plan.ord, task.object.body.mode)]
            /\ task' = NoTask
            /\ UNCHANGED <<captured, writer, sent, media, spool, reader, faults,
                           names, objects, staged, refused>>
       ELSE Refuse("check")

(* After the last group the replay runs to the completion member.          *)
FinishReplay ==
    /\ ~Running /\ reader.verified /\ ~reader.complete /\ plan.entry > Len(Job)
    /\ reader' = IF Readable(reader) THEN Advance(reader) ELSE Poison(reader)
    /\ ~reader.poisoned
    /\ UNCHANGED <<captured, writer, sent, media, spool, faults, restore_vars>>

-----------------------------------------------------------------------------
(* Without a scratch copy: values are staged as the archive streams by and *)
(* published after its completion member, through the reader that read     *)
(* them.                                                                   *)

Skim ==
    /\ ~Running /\ ~reader.verified /\ ~reader.poisoned /\ ~reader.complete
    /\ IF ~Readable(reader)
       THEN reader' = Poison(reader) /\ UNCHANGED <<names, objects, staged>>
       ELSE LET u == Following(reader)
            IN  /\ reader' = Advance(reader)
                /\ staged' = IF u.type = "bytes" /\ u.path \in Paths /\ names[u.path] = u.path
                             THEN staged \union {[path |-> u.path, value |-> u.body,
                                                 good |-> u.good, reader |-> reader.id]}
                             ELSE staged
                /\ IF u.type = "object" /\ u.body.kind = "file" /\ names[u.path] = Absent
                   THEN /\ names' = [names EXCEPT ![u.path] = u.path]
                        /\ objects' = [objects EXCEPT ![u.path] = Empty("file")]
                   ELSE UNCHANGED <<names, objects>>
    /\ UNCHANGED <<captured, writer, sent, media, spool, faults, plan, task, reports, refused>>

PublishStaged ==
    /\ ~Running
    /\ \E v \in staged :
          /\ can_publish(reader) /\ v.reader = reader.id
          /\ staged' = staged \ {v}
          /\ objects' = [objects EXCEPT ![v.path] = [Changed(@) EXCEPT
                           !.values = @ \union {[value |-> v.value, good |-> v.good]}]]
    /\ UNCHANGED <<captured, writer, sent, media, spool, reader, faults,
                   names, plan, task, reports, refused>>

-----------------------------------------------------------------------------
RestoreInit ==
    /\ ArchiveInit
    /\ names = [p \in Paths |-> Absent]
    /\ objects = [p \in Paths |-> Empty("none")]
    /\ plan = [entry |-> 1, ord |-> 0, want |-> "full"]
    /\ task = NoTask /\ staged = {}
    /\ reports = [p \in Paths |-> Absent] /\ refused = {}

ArchiveNext ==
    \/ Emit \/ EmitFails \/ ExportRefused \/ Finish \/ Deliver \/ Capture \/ DamageScratch

RestoreNext ==
    \/ ArchiveNext /\ UNCHANGED restore_vars
    \/ OpenReplay \/ OpenStream \/ StartGroup
    \/ CallFails \/ ReadFails
    \/ ReadObject \/ ReadLayout \/ ReadSparse \/ ReadManifest
    \/ ReadValue \/ ReadOn
    \/ Calls \/ Readback \/ DirectoryEmpty \/ CreateSymlink \/ PrimaryMatches \/ Link
    \/ Check \/ FinishReplay \/ Skim \/ PublishStaged

RestoreSpec == RestoreInit /\ [][RestoreNext]_all_vars

-----------------------------------------------------------------------------
(* Properties. *)

Installed(o) == \/ o.values /= {} \/ o.content /= <<>> \/ o.comment /= "none"
                \/ o.meta /= "new" \/ o.link /= "none"

Bytes(ranges, size) == UNION {r.offset .. r.offset + r.length - 1 : r \in ToSet(Written(ranges, size))}

AllValues(o) == {[value |-> v, good |-> TRUE] : v \in ToSet(Values(o))}

ExactFile(o, c) ==
    /\ o.size = captured[c].size
    /\ o.content = [b \in Bytes(captured[c].ranges, captured[c].size) |-> "good"]

(* A group that reported success left in the destination what the view     *)
(* holds, and later groups did not disturb it: contents, comment, owner,   *)
(* protection and times, values and, of a full restore, the reserved       *)
(* ranges; of a recovery, nothing reserved.  Times move again when         *)
(* children are made in a directory, and between a link and its metadata.  *)
RestoredExact ==
    \A i \in DOMAIN Job :
      LET e == Job[i]
          o == objects[names[e.path]]
      IN  reports[e.path] /= Absent =>
            /\ names[e.path] /= Absent
            /\ o.comment = captured[e.object].comment
            /\ \/ o.meta = "captured"
               \/ \E f \in ToSet(Job) :
                     /\ names[f.path] /= Absent
                     /\ \/ f.parent = e.path
                        \/ f.link = names[e.path] /\ reports[f.path] = Absent
            /\ o.values \subseteq AllValues(e.object)
            /\ reports[e.path] = "full" => o.values = AllValues(e.object)
            /\ e.kind \in {"file", "hardlink"} =>
                  /\ ExactFile(o, e.object)
                  /\ IF reports[e.path] = "full" THEN Preserved(o, captured[e.object])
                     ELSE \A b \in DOMAIN o.blocks : o.blocks[b] = "written"
            /\ e.kind = "hardlink" => names[e.path] = e.link
            /\ e.kind = "symlink" => o.link = e.link

(* Where nothing fails and nothing is damaged, no group is refused but for *)
(* the mode: what an export writes, the restore of the same build accepts, *)
(* ordinal by ordinal and check by check.                                  *)
CleanRestoresSucceed == faults = 0 => refused \subseteq {"mode", "unverified"}
=============================================================================
