------------------------------ MODULE Sampler ------------------------------
(***************************************************************************)
(* tiny_vllm/sampler.py: which tokens a row of logits may become.          *)
(*                                                                         *)
(* A row is what softmax makes of the logits over the temperature, times   *)
(* some common factor: a weight for each token, 0 for -inf.  top_p is a    *)
(* number of parts of Whole.                                               *)
(***************************************************************************)
EXTENDS Integers, FiniteSets, FiniteSetsExt, Functions

CONSTANTS
    Vocab,       \* the token ids
    MaxWeight,   \* bound: the largest weight
    Whole        \* the top_p that is 1.0

ASSUME SamplerConstants ==
    IsFiniteSet(Vocab) /\ MaxWeight \in Nat \ {0} /\ Whole \in Nat \ {0}

VocabSize == Cardinality(Vocab)

Rows == {row \in [Vocab -> 0 .. MaxWeight] : \E t \in Vocab : row[t] > 0}

Weight(row, S) == MapThenSumSet(LAMBDA t : row[t], S)

Heavier(row, t) == {u \in Vocab : row[u] > row[t]}

\* argmax, which takes any of the heaviest.
Greedy(row) == {t \in Vocab : Heavier(row, t) = {}}

\* topk_vals[-1]
KthValue(row, k) ==
    CHOOSE v \in Range(row) : /\ Cardinality({t \in Vocab : row[t] > v}) < k
                              /\ Cardinality({t \in Vocab : row[t] >= v}) >= k

\* Tokens that weigh as much as the last of the k are kept, too.
TopK(row, k) ==
    IF 0 < k /\ k < VocabSize
    THEN [t \in Vocab |-> IF row[t] < KthValue(row, k) THEN 0 ELSE row[t]]
    ELSE row

\* What sort may return as sorted_idx.
Rankings(row) ==
    {order \in Bijection(1 .. VocabSize, Vocab) :
        \A i \in 1 .. VocabSize - 1 : row[order[i]] >= row[order[i + 1]]}

\* The places whose cumulative weight is more than top_p, the first excepted.
OverTopP(row, order, p) ==
    {i \in 2 .. VocabSize :
        Weight(row, {order[j] : j \in 1 .. i}) * Whole > p * Weight(row, Vocab)}

\* Mutant: without the roll.
DropFromBoundary(over) == over

\* drop is rolled by one place and the first place excepted again: the token
\* at the boundary stays.
Drop(over) == {i \in 2 .. VocabSize : i - 1 \in over}

TopP(row, order, p) ==
    IF 0 < p /\ p < Whole
    THEN LET dropped == {order[i] : i \in Drop(OverTopP(row, order, p))}
         IN  [t \in Vocab |-> IF t \in dropped THEN 0 ELSE row[t]]
    ELSE row

\* The tokens multinomial may draw.
Draws(row, k, p) ==
    LET kept == TopK(row, k)
    IN  UNION {{t \in Vocab : TopP(kept, order, p)[t] > 0} : order \in Rankings(kept)}
=============================================================================
