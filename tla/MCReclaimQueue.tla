--------------------------- MODULE MCReclaimQueue ---------------------------
(* ReclaimQueue with areas of one or two elements: a few transactions fill *)
(* the root, seal segments and tables, and carry the cursor across them.   *)
EXTENDS ReclaimQueue

Small(blocks, tables, entries, grow) ==
    [blocks |-> blocks, inline_entries |-> 1, segment_refs |-> 1, tables |-> tables,
     segment_entries |-> entries, table_refs |-> 2, grow |-> grow]

(* Runs split across batches; several tables; a single table reference,    *)
(* which refuses transactions while blocks are free.                       *)
SmallGeometries == {Small(8, 2, 2, 1), Small(12, 2, 1, 0), Small(12, 1, 1, 0)}
=============================================================================
