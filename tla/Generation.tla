----------------------------- MODULE Generation -----------------------------
(***************************************************************************)
(* One request's way through tiny_vllm/engine.py with its own              *)
(* SamplingParams: the tokens it is given, the text they are decoded to,   *)
(* the items of its stream and the events about it.                        *)
(*                                                                         *)
(* Engine has the batches and the cache, with the same limits for all      *)
(* requests and without text.  A text is a sequence of characters: "char"  *)
(* or "?", which is what the tokenizer makes of a part of one.             *)
(***************************************************************************)
EXTENDS Sampler, Sequences, SequencesExt

CONSTANTS
    SamplingParams,   \* what a request may ask for
    Prompts,          \* prompts, shorter than MaxModelLen
    MaxModelLen,      \* max_model_len
    Logits(_)         \* bound: the rows the network may compute for a request

ASSUME GenerationConstants ==
    /\ "eos" \in Vocab
    /\ MaxModelLen \in Nat
    /\ \A p \in Prompts : p \in Seq(Vocab) /\ p # <<>> /\ Len(p) < MaxModelLen
    /\ SamplingParams \subseteq
           [maxTokens : Int, ignoreEos : BOOLEAN, stopIds : SUBSET Vocab,
            greedy : BOOLEAN, topK : Int, topP : Int]
    /\ \A p \in SamplingParams : Logits(p) \subseteq Rows

VARIABLES
    params,        \* sampling_params
    prompt,        \* prompt_token_ids
    output,        \* output_token_ids
    row,           \* the logits of a step that is under way, or NoRow
    prevTextLen,   \* _prev_text_len; 0 also when it has no entry
    stream,        \* every item put on the output queue
    known,         \* the request is in _sequences
    events,        \* what _emit said about the request
    alive          \* the run loop has not ended

generationVars == <<params, prompt, output, row, prevTextLen, stream, known,
                    events, alive>>

NoRow == [t \in Vocab |-> 0]

StreamItem(tokens, text, finished, reason) ==
    [tokens |-> tokens, text |-> text, finished |-> finished, reason |-> reason]

\* An event stands for the item its delta is made of; "request" has none.
Event(type, item) == [type |-> type, item |-> item]

Made == known \/ stream # <<>>

-----------------------------------------------------------------------------
(* Text. *)

\* A token is a character, or the first or the second half of one; special
\* tokens are skipped, also between two halves.
Glue(glyphs, t) ==
    CASE t = "eos" -> glyphs
      [] t = "trail" /\ glyphs # <<>> /\ Last(glyphs) = "lead" ->
            Append(Front(glyphs), "char")
      [] OTHER -> Append(glyphs, t)

\* tokenizer.decode: a half that stays alone is shown as "?".
Decode(ids) ==
    LET glyphs == FoldLeft(Glue, <<>>, ids)
    IN  [i \in DOMAIN glyphs |-> IF glyphs[i] = "char" THEN "char" ELSE "?"]

\* detokenize_incremental, the text
NewText(text) == SubSeq(text, prevTextLen + 1, Len(text))

\* Mutant: the length of what is new.
NewTextLenOfNew(text) == Len(NewText(text))

\* detokenize_incremental, the length
NewTextLen(text) == Len(text)

-----------------------------------------------------------------------------
(* The request. *)

AddRequest ==
    /\ ~Made
    /\ known' = TRUE
    /\ prevTextLen' = 0
    /\ events' = Append(events, Event("request", 0))
    /\ UNCHANGED <<params, prompt, output, row, stream, alive>>

\* The executor runs a step that samples for the request.
StartStep ==
    /\ alive
    /\ known
    /\ row = NoRow
    /\ row' \in Logits(params)
    /\ UNCHANGED <<params, prompt, output, prevTextLen, stream, known, events, alive>>

Drawn == CASE row = NoRow -> {}
           [] row # NoRow /\ params.greedy -> Greedy(row)
           [] OTHER -> Draws(row, params.topK, params.topP)

TooLong(answer) ==
    \/ Len(answer) >= params.maxTokens
    \/ Len(prompt) + Len(answer) >= MaxModelLen

\* Mutant: ignore_eos is ignored.
StopsAlwaysAtEos(t) == t \in params.stopIds \cup {"eos"}

Stops(t) == t \in params.stopIds \/ (~params.ignoreEos /\ t = "eos")

\* The step is over: append, _should_stop and _stop_reason, the item with its
\* text, and the step event.  A request that was aborted meanwhile is FINISHED
\* already; _prev_text_len starts anew for it, and its text is sent again.
FinishStep(t) ==
    LET answer == Append(output, t)
        stopped == TooLong(answer) \/ Stops(t)
        done == stopped \/ ~known
        text == Decode(prompt \o answer)
        reason == IF TooLong(answer) THEN "length" ELSE IF stopped THEN "stop"
                  ELSE IF known THEN "none" ELSE "abort"
    IN  /\ output' = answer
        /\ stream' = Append(stream, StreamItem(<<t>>, NewText(text), done, reason))
        /\ events' = Append(events, Event("step", Len(stream) + 1))
        /\ prevTextLen' = IF done THEN 0 ELSE NewTextLen(text)
        /\ known' = ~done
        /\ row' = NoRow
        /\ UNCHANGED <<params, prompt, alive>>

\* abort, and _close_request: no event.
Abort ==
    /\ known
    /\ known' = FALSE
    /\ stream' = Append(stream, StreamItem(<<>>, <<>>, TRUE, "abort"))
    /\ prevTextLen' = 0
    /\ UNCHANGED <<params, prompt, output, row, events, alive>>

\* Shutdown, or an exception in a step.
LoopEnds ==
    /\ alive
    /\ alive' = FALSE
    /\ row' = NoRow
    /\ UNCHANGED <<params, prompt, output, prevTextLen, stream, known, events>>

GenerationInit ==
    /\ params \in SamplingParams
    /\ prompt \in Prompts
    /\ output = <<>>
    /\ row = NoRow
    /\ prevTextLen = 0
    /\ stream = <<>>
    /\ known = FALSE
    /\ events = <<>>
    /\ alive = TRUE

GenerationNext ==
    \/ AddRequest \/ StartStep \/ Abort \/ LoopEnds
    \/ \E t \in Drawn : FinishStep(t)

GenerationSpec == GenerationInit /\ [][GenerationNext]_generationVars

-----------------------------------------------------------------------------
(* Properties. *)

\* What the reader of the stream gets: nothing after an abort.
Offered ==
    LET aborts == {i \in DOMAIN stream : stream[i].reason = "abort"}
    IN  IF aborts = {} THEN stream ELSE SubSeq(stream, 1, Min(aborts))

AnswerLimit == Min({Max({1, params.maxTokens}), MaxModelLen - Len(prompt)})

\* The request as Lifecycle sees it.
LifeLimit == [r \in {"r"} |-> AnswerLimit]

LifeStops ==
    [r \in {"r"} |-> params.stopIds \cup (IF params.ignoreEos THEN {} ELSE {"eos"})]

LifeStream ==
    [r \in {"r"} |->
        [i \in DOMAIN Offered |->
            [tokens |-> Offered[i].tokens,
             finished |-> Offered[i].finished,
             reason |-> Offered[i].reason]]]

LifeKnown == IF known THEN {"r"} ELSE {}

Life == INSTANCE Lifecycle WITH
            Requests <- {"r"},
            Tokens <- Vocab,
            Limits <- 1 .. MaxModelLen,
            limit <- LifeLimit,
            stops <- LifeStops,
            stream <- LifeStream,
            known <- LifeKnown

\* A request is answered as Lifecycle says, whatever it asked for: max_tokens
\* 0 gets a token, the model's length is a limit, ignore_eos and stop ids hold.
ParamsImplementLifecycle == Life!LifeSpec

Sampling == row # NoRow /\ ~params.greedy

KeptByK == TopK(row, params.topK)

\* Fewer than k tokens are heavier than t.
AmongK(w, k, t) == k \in 1 .. VocabSize => Cardinality(Heavier(w, t)) < k

\* The tokens S leave room for the next.
Room(w, p, S) == p \notin 1 .. Whole - 1 \/ Weight(w, S) * Whole <= p * Weight(w, Vocab)

Rivals(w, t) == {u \in Vocab \ {t} : w[u] >= w[t]}

\* Every token of the nucleus can be drawn, the one at its boundary included
\* (sampler.py:43): all for which what comes before them in any order leaves
\* room.  What is drawn is one of the k heaviest or weighs as much; and where
\* the heaviest token leaves room for a second, nothing but the nucleus is
\* drawn.  (Where it does not: NothingBeyondTopP.)
NucleusIsDrawn ==
    Sampling =>
        \A t \in Vocab :
            /\ (/\ row[t] > 0
                /\ AmongK(row, params.topK, t)
                /\ Room(KeptByK, params.topP, Rivals(row, t))) => t \in Drawn
            /\ t \in Drawn => row[t] > 0 /\ AmongK(row, params.topK, t)
            /\ (/\ t \in Drawn
                /\ \A u \in Greedy(row) : Room(KeptByK, params.topP, {u})) =>
                   Room(KeptByK, params.topP, Heavier(row, t))

\* The texts a reader is sent, put together, are the text of the prompt and
\* the answer, but for the characters that were incomplete when they were
\* sent: those stay "?".
SentIsTextOrPlaceholder ==
    (\E i \in DOMAIN Offered : Offered[i].tokens # <<>>) =>
        LET sent == FlattenSeq([i \in DOMAIN Offered |-> Offered[i].text])
            text == Decode(prompt \o
                           FlattenSeq([i \in DOMAIN Offered |-> Offered[i].tokens]))
        IN  /\ Len(sent) = Len(text)
            /\ \A i \in DOMAIN text : sent[i] \in {text[i], "?"}

-----------------------------------------------------------------------------
(* What comments of the code say of it, and it does not do. *)

\* "Drop tokens whose CUMULATIVE prob (including themselves) exceeds top_p,
\* but always keep the highest-probability one" (sampler.py:39-40), "so the
\* boundary token stays" (sampler.py:43): nothing is drawn behind the token
\* with which the cumulative weight exceeds top_p, whichever it is.  The second
\* token is never dropped, even when the first is that one.
NothingBeyondTopP ==
    Sampling => \A t \in Drawn : Room(KeptByK, params.topP, Heavier(row, t))
=============================================================================
