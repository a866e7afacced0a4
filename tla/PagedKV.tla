------------------------------ MODULE PagedKV ------------------------------
(***************************************************************************)
(* tiny_vllm/paged_kv.py, and how tiny_vllm/model_runner.py addresses it:  *)
(* the K and V tensors the block ids point into.                           *)
(*                                                                         *)
(* The K and V of a token depend on the token and on every token before    *)
(* it; so what a slot holds is modelled as the sequence of tokens it was   *)
(* computed for, and a slot that was never written holds <<>>.  The layers *)
(* run the same addresses one after the other: one of them stands for all. *)
(***************************************************************************)
EXTENDS Scheduler

VARIABLES
    kv,          \* content of each slot of each block
    modelInput   \* ModelInput: one segment per item, in the executor's hands

kvVars == <<kv, modelInput>>

Slots == Blocks \X (0 .. BlockSize - 1)

EmptyCache == [slot \in Slots |-> NoHash]

\* The slot of position p under a block table.
SlotOf(table, p) == <<table[p \div BlockSize + 1], p % BlockSize>>

\* AttnSegment: block_table is a copy; tokens are the k_len tokens attended
\* to, of which those from start on are this step's.
Segment(s, start, n) ==
    [start |-> start, tokens |-> SubSeq(AllTokenIds(s), 1, start + n),
     table |-> blockTable[s]]

\* prepare_input
PrepareInput(items) ==
    [k \in DOMAIN items |->
        Segment(items[k].seq, numComputed[items[k].seq], items[k].n)]

\* Mutant: the last token of a chunk is not written.
WrittenButLast(seg) == seg.start .. Len(seg.tokens) - 2

\* The positions a segment writes.
Written(seg) == seg.start .. Len(seg.tokens) - 1

\* What the segments of a batch write to a slot.
WritesTo(segments, slot) ==
    UNION {{SubSeq(segments[k].tokens, 1, p + 1) :
               p \in {q \in Written(segments[k]) : SlotOf(segments[k].table, q) = slot}}
           : k \in DOMAIN segments}

\* write, for the whole batch.  (OneWriterPerSlot: there is no choice.)
WriteAll(segments) ==
    [slot \in Slots |->
        IF WritesTo(segments, slot) = {} THEN kv[slot]
        ELSE CHOOSE c \in WritesTo(segments, slot) : TRUE]
=============================================================================
