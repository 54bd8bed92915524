---------------------------- MODULE RetirementFifo ----------------------------
(***************************************************************************)
(* What the reclaim queue promises (ADR-036, ADR-074): retired blocks      *)
(* leave in the order they came, each once, at most a batch at a time, and *)
(* only when no checkpoint mount may select reaches them.  It knows blocks *)
(* and generations, nothing of runs, segments, tables or cursors.          *)
(* Generations are counted from the mounted checkpoint, as in ReclaimQueue.*)
(***************************************************************************)
EXTENDS Integers, Sequences, FiniteSets
LOCAL INSTANCE SequencesExt

CONSTANT Batch

VARIABLES
    queue,     \* retired blocks and their retirement, oldest first
    protected  \* the oldest generation a valid slot holds

Retired(blocks) == [i \in 1..Len(blocks) |-> [block |-> blocks[i], gen |-> 0]]

Aged(q) == [i \in 1..Len(q) |-> [q[i] EXCEPT !.gen = -1]]

Promotable(e) == e.gen <= protected

(* A transaction takes n blocks from the head: the whole batch, or all of  *)
(* the queue, or all before the first that a checkpoint still protects.    *)
Takes(q, n, batch) ==
    /\ n <= batch /\ n <= Len(q)
    /\ \A i \in 1..n : Promotable(q[i])
    /\ n = batch \/ n = Len(q) \/ ~Promotable(q[n + 1])

Once(q) == Cardinality({q[i].block : i \in 1..Len(q)}) = Len(q)

(* From q to r: n blocks leave, the rest stay in order, others come after. *)
Advances(q, r) ==
    \E n \in 0..Len(q), batch \in {0, Batch} :
        LET kept == SubSeq(q, n + 1, Len(q))
            came == SubSeq(r, Len(kept) + 1, Len(r))
        IN  /\ Takes(q, n, batch)
            /\ came /= <<>>
            /\ r = Aged(kept) \o Retired([i \in 1..Len(came) |-> came[i].block])

Init == queue = <<>> /\ protected = 0

Advance ==
    /\ \E q \in {queue}, r \in {queue'} : Advances(q, r) /\ Once(r)
    /\ protected' = -1

LoseOther == protected' = 0 /\ queue' = queue

Next == Advance \/ LoseOther

Spec == Init /\ [][Next]_<<queue, protected>>
=============================================================================
