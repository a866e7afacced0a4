------------------------------ MODULE Lifecycle ------------------------------
(***************************************************************************)
(* What LLMEngine (tiny_vllm/engine.py) promises whoever calls it: the     *)
(* life of a request from add_request to the item that ends its stream.    *)
(*                                                                         *)
(* Blocks, batches, prefill and preemption are forgotten.  Engine is shown *)
(* to implement this specification; Server and DemoPage are built on it.   *)
(* A stream is what its reader gets: LLMEngine.stream ends at the first    *)
(* item that is finished.                                                  *)
(***************************************************************************)
EXTENDS Integers, Sequences

CONSTANTS
    Requests,   \* request ids
    Tokens,     \* token ids
    Limits      \* the lengths an answer may be limited to

ASSUME LimitsAssumption == Limits \subseteq Nat \ {0}

VARIABLES
    limit,      \* how many tokens a request can get, set when it is made
    stops,      \* the tokens that stop it, likewise
    stream,     \* the items of its output queue, read or not
    known,      \* _sequences: the requests that have not ended
    alive       \* the run loop has not ended

lifeVars == <<limit, stops, stream, known, alive>>

StreamItem(tokens, finished, reason) ==
    [tokens |-> tokens, finished |-> finished, reason |-> reason]

AbortItem == StreamItem(<<>>, TRUE, "abort")

Made(r) == r \in known \/ stream[r] # <<>>

-----------------------------------------------------------------------------
\* add_request, which takes requests for an engine that has stopped, too.
Submit(r) ==
    /\ ~Made(r)
    /\ known' = known \cup {r}
    /\ UNCHANGED <<limit, stops, stream, alive>>

\* Mutant: the stream of an aborted request is not ended.
AbortSilently(r) == known' = known \ {r} /\ UNCHANGED <<limit, stops, stream, alive>>

\* abort, which knows nothing of a request that has ended.
AbortRequest(r) ==
    /\ known' = known \ {r}
    /\ stream' = IF r \in known THEN [stream EXCEPT ![r] = Append(@, AbortItem)]
                                ELSE stream
    /\ UNCHANGED <<limit, stops, alive>>

\* Mutant: the limit is tested before the token is counted.
NextItemLate(r, t) ==
    LET full == Len(stream[r]) >= limit[r]
    IN  StreamItem(<<t>>, full \/ t \in stops[r],
                   IF full THEN "length" ELSE IF t \in stops[r] THEN "stop" ELSE "none")

\* One token, and the end of the stream if it is the last: the limit comes
\* before the stop tokens.
NextItem(r, t) ==
    LET full == Len(stream[r]) + 1 >= limit[r]
    IN  StreamItem(<<t>>, full \/ t \in stops[r],
                   IF full THEN "length" ELSE IF t \in stops[r] THEN "stop" ELSE "none")

\* A step of the run loop gives some requests a token each.
Serve(served, token) ==
    /\ alive
    /\ served \subseteq known
    /\ stream' = [r \in Requests |->
                     IF r \in served THEN Append(stream[r], NextItem(r, token[r]))
                                     ELSE stream[r]]
    /\ known' = {r \in known : r \in served => ~NextItem(r, token[r]).finished}
    /\ UNCHANGED <<limit, stops, alive>>

\* Shutdown, or an exception in a step: the streams stay as they are.
LoopEnds ==
    /\ alive
    /\ alive' = FALSE
    /\ UNCHANGED <<limit, stops, stream, known>>

LifeInit ==
    /\ limit \in [Requests -> Limits]
    /\ stops \in [Requests -> SUBSET Tokens]
    /\ stream = [r \in Requests |-> <<>>]
    /\ known = {}
    /\ alive = TRUE

LifeNext ==
    \/ \E r \in Requests : Submit(r) \/ AbortRequest(r)
    \/ \E served \in SUBSET known : \E token \in [served -> Tokens] : Serve(served, token)
    \/ LoopEnds

LifeSpec == LifeInit /\ [][LifeNext]_lifeVars

-----------------------------------------------------------------------------
Items == [tokens : Seq(Tokens), finished : BOOLEAN,
          reason : {"none", "length", "stop", "abort"}]

LifeTypeOK ==
    /\ limit \in [Requests -> Limits]
    /\ stops \in [Requests -> SUBSET Tokens]
    /\ stream \in [Requests -> Seq(Items)]
    /\ known \subseteq Requests
    /\ alive \in BOOLEAN

TokensSent(r) == {i \in DOMAIN stream[r] : stream[r][i].tokens # <<>>}

\* A stream that has ended stays as it is, one that has not can be aborted,
\* and none has more tokens than its limit: the bookkeeping of _sequences and
\* of the output queues agrees.
StreamsEndOnce ==
    \A r \in Requests :
        /\ TokensSent(r) \subseteq 1 .. limit[r]
        /\ \A i \in DOMAIN stream[r] :
              stream[r][i].finished <=> (i = Len(stream[r]) /\ r \notin known)
=============================================================================
