------------------------------- MODULE Request -------------------------------
(***************************************************************************)
(* tiny_vllm/request.py: class Sequence, one in-flight request.            *)
(*                                                                         *)
(* A sequence is its prompt followed by the tokens sampled so far.  The    *)
(* block manager fills in block_table, num_computed_tokens and             *)
(* num_cached_prefix_tokens.  Positions are 0-based as in the code; TLA+   *)
(* sequences are 1-based, so position p is element p + 1.                  *)
(***************************************************************************)
EXTENDS Integers, Sequences

CONSTANTS
    Seqs,       \* the sequences, named by their seq_id
    Tokens,     \* token ids
    Prompts     \* the prompt_token_ids a client may submit

\* LLMEngine.add_request rejects an empty prompt before it builds a Sequence.
ASSUME PromptsAssumption == \A p \in Prompts : p \in Seq(Tokens) /\ p # <<>>

VARIABLES
    prompt,           \* prompt_token_ids, chosen by the client, never changed
    output,           \* output_token_ids
    blockTable,       \* block_table
    numComputed,      \* num_computed_tokens
    numCachedPrefix   \* num_cached_prefix_tokens

seqVars == <<prompt, output, blockTable, numComputed, numCachedPrefix>>

-----------------------------------------------------------------------------
SequenceInit ==
    /\ prompt \in [Seqs -> Prompts]
    /\ output = [s \in Seqs |-> <<>>]
    /\ blockTable = [s \in Seqs |-> <<>>]
    /\ numComputed = [s \in Seqs |-> 0]
    /\ numCachedPrefix = [s \in Seqs |-> 0]

PromptLen(s) == Len(prompt[s])

TotalLen(s) == Len(prompt[s]) + Len(output[s])

AllTokenIds(s) == prompt[s] \o output[s]

NumUncomputedPromptTokens(s) ==
    IF PromptLen(s) > numComputed[s] THEN PromptLen(s) - numComputed[s] ELSE 0

AppendOutputToken(s, t) == output' = [output EXCEPT ![s] = Append(@, t)]
=============================================================================
