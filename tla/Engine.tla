------------------------------- MODULE Engine -------------------------------
(***************************************************************************)
(* tiny_vllm/engine.py: LLMEngine, the run loop around the scheduler, the  *)
(* paged cache and the sampler, and the requests that reach it meanwhile.  *)
(*                                                                         *)
(* Everything runs on one event loop.  The run loop gives way at its       *)
(* awaits only: while the executor runs the model ("forward"), after a     *)
(* step ("yield", "pause") and without work ("waiting").  add_request,     *)
(* abort and shutdown run to their end between two steps of it, there.     *)
(***************************************************************************)
EXTENDS PagedKV

CONSTANTS
    StopTokens,    \* eos_token_id and stop_token_ids
    MaxModelLen    \* max_model_len

ASSUME EngineConstants == StopTokens \subseteq Tokens /\ MaxModelLen \in Nat

VARIABLES
    newTokens,     \* new_tokens: what was sampled for whom
    finishedNow,   \* finished_now
    toFree,        \* what is left of finished_now in the loop that frees it
    stream,        \* every StreamItem put on the output queue of a request
    known,         \* _sequences: the requests that can be aborted
    wake,          \* the event _wake
    stop           \* the event _stop

requestVars == <<stream, known, wake, stop>>
stepResults == <<newTokens, finishedNow, toFree>>
engineVars == <<schedulerVars, kvVars, stepResults, requestVars>>

StreamItem(tokens, finished, reason) ==
    [tokens |-> tokens, finished |-> finished, reason |-> reason]

NoTokens == [s \in {} |-> 0]

Put(s, item) == stream' = [stream EXCEPT ![s] = Append(@, item)]

-----------------------------------------------------------------------------
(* Requests. *)

AtAwait == pc \in {"forward", "yield", "pause", "waiting"} /\ call = Idle

\* Nothing keeps requests out once the loop has ended.
RequestsRun == AtAwait \/ (pc \in {"stopped", "crashed"} /\ call = Idle)

\* Mutant: the run loop is not told.
StaySilent == UNCHANGED wake

WakeUp == wake' = TRUE

AddRequest(s) ==
    /\ RequestsRun
    /\ PromptLen(s) < MaxModelLen
    /\ Add(s)
    /\ known' = known \cup {s}
    /\ WakeUp
    /\ UNCHANGED <<kvVars, stepResults, stream, stop>>

\* abort, and _close_request when the scheduler knew the sequence.
Abort(s) ==
    /\ RequestsRun
    /\ s \in known
    /\ AbortWaiting(s) \/ AbortRunning(s)
    /\ Put(s, StreamItem(<<>>, TRUE, "abort"))
    /\ known' = known \ {s}
    /\ UNCHANGED <<kvVars, stepResults, wake, stop>>

Shutdown ==
    /\ RequestsRun
    /\ ~stop
    /\ stop' = TRUE
    /\ WakeUp
    /\ UNCHANGED <<schedulerVars, kvVars, stepResults, stream, known>>

\* shutdown waits five seconds for the loop, then cancels it at its await.
ShutdownTimeout ==
    /\ AtAwait
    /\ stop
    /\ pc' = "stopped"
    /\ UNCHANGED <<poolVars, queueVars, stepVars, kvVars, stepResults, requestVars>>

-----------------------------------------------------------------------------
(* The run loop up to the executor. *)

Goto(there) ==
    /\ pc' = there
    /\ UNCHANGED <<poolVars, queueVars, stepVars, kvVars, stepResults, requestVars>>

LoopExit == pc = "idle" /\ stop /\ Goto("stopped")

\* wake is cleared after has_work was read; nothing runs in between.
WaitForWork ==
    /\ pc = "idle"
    /\ ~stop
    /\ ~HasWork
    /\ wake' = FALSE
    /\ pc' = "waiting"
    /\ UNCHANGED <<poolVars, queueVars, stepVars, kvVars, stepResults, stream,
                   known, stop>>

Woken == pc = "waiting" /\ call = Idle /\ wake /\ Goto("idle")

\* wait_for gives up after a second.
WaitTimeout == pc = "waiting" /\ call = Idle /\ ~wake /\ Goto("idle")

Schedule ==
    /\ \/ ~stop /\ StartSchedule
       \/ ScheduleStep
    /\ UNCHANGED <<kvVars, stepResults, requestVars>>

\* Nothing was scheduled: the loop sleeps for ten milliseconds.
Starved == pc = "scheduled" /\ scheduled = <<>> /\ Goto("pause")

SubmitForward ==
    /\ pc = "scheduled"
    /\ scheduled # <<>>
    /\ \A k \in DOMAIN scheduled : InputFits(scheduled[k])
    /\ modelInput' = PrepareInput(scheduled)
    /\ pc' = "forward"
    /\ UNCHANGED <<poolVars, queueVars, stepVars, kv, stepResults, requestVars>>

\* The executor is done with the batch.
ForwardDone ==
    /\ pc = "forward"
    /\ call = Idle
    /\ kv' = WriteAll(modelInput)
    /\ pc' = "count"
    /\ rest' = scheduled
    /\ UNCHANGED <<poolVars, queueVars, todo, budget, active, scheduled,
                   preempted, modelInput, stepResults, requestVars>>

\* The loop has no handler for an IndexError: its task ends.
LoopDies ==
    /\ \/ pc = "scheduled" /\ \E k \in DOMAIN scheduled : ~InputFits(scheduled[k])
       \/ RegisterIndexError
    /\ pc' = "crashed"
    /\ call' = Idle
    /\ UNCHANGED <<seqVars, pool, queueVars, stepVars, kvVars, stepResults,
                   requestVars>>

-----------------------------------------------------------------------------
(* After the forward: count, sample, apply, free, emit. *)

Count == CountItem /\ UNCHANGED <<kvVars, stepResults, requestVars>>

Sampled == {s \in Seqs : \E k \in DOMAIN scheduled : scheduled[k].seq = s /\ Samples(s)}

\* One token for each sequence past its prompt.
SampleAll ==
    /\ pc = "count"
    /\ rest = <<>>
    /\ \E f \in [Sampled -> Tokens] : newTokens' = f
    /\ finishedNow' = <<>>
    /\ pc' = "apply"
    /\ rest' = scheduled
    /\ modelInput' = <<>>
    /\ UNCHANGED <<poolVars, queueVars, todo, budget, active, scheduled,
                   preempted, kv, toFree, requestVars>>

Current == Head(rest).seq

ApplyToken ==
    /\ pc = "apply"
    /\ rest # <<>>
    /\ IF Current \in DOMAIN newTokens
       THEN AppendOutputToken(Current, newTokens[Current])
       ELSE UNCHANGED output
    /\ pc' = "register"
    /\ UNCHANGED <<prompt, blockTable, numComputed, numCachedPrefix, pool, call,
                   queueVars, stepVars, kvVars, stepResults, requestVars>>

ApplyRegister ==
    /\ pc = "register"
    /\ RegisterFilledBlocks(Current)
    /\ pc' = "check"
    /\ UNCHANGED <<queueVars, stepVars, kvVars, stepResults, requestVars>>

\* Mutant: the limits are off by one.
TooLongLate(s) == Len(output[s]) > MaxOutput \/ TotalLen(s) > MaxModelLen

TooLong(s) == Len(output[s]) >= MaxOutput \/ TotalLen(s) >= MaxModelLen

\* _should_stop
ShouldStop(s, t) == TooLong(s) \/ t \in StopTokens

\* _stop_reason
StopReason(s) == IF TooLong(s) THEN "length" ELSE "stop"

ApplyStop ==
    /\ pc = "check"
    /\ call = Idle
    /\ Current \in DOMAIN newTokens
    /\ ShouldStop(Current, newTokens[Current])
    /\ Finish(Current, StopReason(Current))
    /\ finishedNow' = Append(finishedNow, Current)
    /\ rest' = Tail(rest)
    /\ pc' = "apply"
    /\ UNCHANGED <<poolVars, waiting, running, todo, budget, active, scheduled,
                   preempted, kvVars, newTokens, toFree, requestVars>>

ApplyKeep ==
    /\ pc = "check"
    /\ call = Idle
    /\ ~(Current \in DOMAIN newTokens /\ ShouldStop(Current, newTokens[Current]))
    /\ rest' = Tail(rest)
    /\ pc' = "apply"
    /\ UNCHANGED <<poolVars, queueVars, todo, budget, active, scheduled,
                   preempted, kvVars, stepResults, requestVars>>

ApplyEnd ==
    /\ pc = "apply"
    /\ rest = <<>>
    /\ toFree' = finishedNow
    /\ pc' = "free"
    /\ UNCHANGED <<poolVars, queueVars, stepVars, kvVars, newTokens, finishedNow,
                   requestVars>>

\* Mutant: a finished sequence is not taken off.
StayRunning(s) == UNCHANGED running

LeaveRunning(s) == running' = Without(running, s)

\* Mutant: the blocks are not freed.
FreeFinishedKeepsBlocks ==
    /\ pc = "free"
    /\ call = Idle
    /\ toFree # <<>>
    /\ LeaveRunning(Head(toFree))
    /\ toFree' = Tail(toFree)
    /\ UNCHANGED <<poolVars, waiting, status, finishReason, pc,
                   stepVars, kvVars, newTokens, finishedNow, requestVars>>

FreeFinished ==
    /\ pc = "free"
    /\ toFree # <<>>
    /\ LeaveRunning(Head(toFree))
    /\ Free(Head(toFree))
    /\ toFree' = Tail(toFree)
    /\ UNCHANGED <<numComputed, numCachedPrefix, waiting, status, finishReason, pc,
                   stepVars, kvVars, newTokens, finishedNow, requestVars>>

FreeEnd ==
    /\ pc = "free"
    /\ call = Idle
    /\ toFree = <<>>
    /\ pc' = "emit"
    /\ rest' = scheduled
    /\ UNCHANGED <<poolVars, queueVars, todo, budget, active, scheduled,
                   preempted, kvVars, stepResults, requestVars>>

IsDone(s) == status[s] = "FINISHED"

\* Mutant: the item that ends a stream carries no token.
ItemWithoutLast(s) ==
    StreamItem(IF IsDone(s) THEN <<>> ELSE <<newTokens[s]>>, IsDone(s), finishReason[s])

ItemFor(s) == StreamItem(<<newTokens[s]>>, IsDone(s), finishReason[s])

\* Mutant: _sequences keeps what has finished.
ForgetNothing(s) == UNCHANGED known

\* _sequences.pop
ForgetIfDone(s) == known' = IF IsDone(s) THEN known \ {s} ELSE known

\* A sequence that got a token sends it, and its status with it.
EmitItem ==
    /\ pc = "emit"
    /\ rest # <<>>
    /\ IF Current \in DOMAIN newTokens
       THEN Put(Current, ItemFor(Current)) /\ ForgetIfDone(Current)
       ELSE UNCHANGED <<stream, known>>
    /\ rest' = Tail(rest)
    /\ UNCHANGED <<poolVars, queueVars, pc, todo, budget, active, scheduled,
                   preempted, kvVars, stepResults, wake, stop>>

\* The step event, then sleep(0).  What the step left behind is not read again.
EmitEnd ==
    /\ pc = "emit"
    /\ rest = <<>>
    /\ pc' = "yield"
    /\ budget' = 0
    /\ active' = 0
    /\ scheduled' = <<>>
    /\ preempted' = {}
    /\ newTokens' = NoTokens
    /\ finishedNow' = <<>>
    /\ UNCHANGED <<poolVars, queueVars, todo, rest, kvVars, toFree, requestVars>>

\* The sleep is over.
Resume == pc \in {"yield", "pause"} /\ call = Idle /\ Goto("idle")

-----------------------------------------------------------------------------
PoolCall ==
    /\ CallStep
    /\ UNCHANGED <<queueVars, pc, stepVars, kvVars, stepResults, requestVars>>

\* One step of the run loop, or of a call it or a request makes.
LoopStep ==
    \/ PoolCall
    \/ LoopExit \/ WaitForWork \/ Woken \/ Schedule \/ Starved
    \/ SubmitForward \/ ForwardDone \/ LoopDies
    \/ Count \/ SampleAll
    \/ ApplyToken \/ ApplyRegister \/ ApplyStop \/ ApplyKeep \/ ApplyEnd
    \/ FreeFinished \/ FreeEnd \/ EmitItem \/ EmitEnd \/ Resume

EngineInit ==
    /\ SchedulerInit
    /\ kv = EmptyCache
    /\ modelInput = <<>>
    /\ newTokens = NoTokens
    /\ finishedNow = <<>>
    /\ toFree = <<>>
    /\ stream = [s \in Seqs |-> <<>>]
    /\ known = {}
    /\ wake = FALSE
    /\ stop = FALSE

EngineNext ==
    \/ LoopStep
    \/ WaitTimeout
    \/ \E s \in Seqs : AddRequest(s) \/ Abort(s)
    \/ Shutdown
    \/ ShutdownTimeout

\* The event loop keeps running its task.  No fairness for WaitTimeout: the
\* loop must not need it.
EngineSpec ==
    /\ EngineInit
    /\ [][EngineNext]_engineVars
    /\ WF_engineVars(LoopStep)

-----------------------------------------------------------------------------
(***************************************************************************)
(* Three things leave the cache without K and V that a sequence counts on: *)
(* a prefix-cache hit behind a miss, which counts for the tokens of the    *)
(* miss; a sequence that is scheduled twice in a step; and an abort in the *)
(* middle of a prefill, whose blocks are hashed already and never freed.   *)
(* CleanSpec is the engine without them.                                   *)
(***************************************************************************)

CleanStep ==
    /\ call'.cached > call.cached => call.cached = call.i * BlockSize
    /\ OneItemEach'
    /\ \A s \in Seqs : (Contains(waiting, s) /\ finishReason'[s] = "abort")
                          => blockTable[s] = <<>>

CleanSpec == EngineInit /\ [][EngineNext /\ CleanStep]_engineVars

-----------------------------------------------------------------------------
(* Properties. *)

EngineSteps == {"idle", "decode", "retry", "prefill", "ensure", "scheduled", "count",
                "forward", "yield", "pause", "waiting", "stopped", "crashed",
                "apply", "register", "check", "free", "emit"}

Segments == [start : Nat, tokens : Hashes, table : Seq(Blocks)]

StreamItems == [tokens : Hashes, finished : BOOLEAN, reason : FinishReasons]

\* Type correctness of the engine's own state.
EngineTypeOK ==
    /\ QueuesTypeOK
    /\ pc \in EngineSteps
    /\ kv \in [Slots -> Hashes]
    /\ modelInput \in Seq(Segments)
    /\ DOMAIN newTokens \subseteq Seqs
    /\ newTokens \in [DOMAIN newTokens -> Tokens]
    /\ finishedNow \in Seq(Seqs)
    /\ toFree \in Seq(Seqs)
    /\ stream \in [Seqs -> Seq(StreamItems)]
    /\ known \subseteq Seqs
    /\ wake \in BOOLEAN
    /\ stop \in BOOLEAN

\* No slot is written for two sequences in one batch, not even with the same
\* K and V: a block that is shared is a block that is full.
OneWriterPerSlot ==
    \A j, k \in DOMAIN modelInput : \A p \in Written(modelInput[j]) :
        (j # k) => SlotOf(modelInput[j].table, p) \notin
                      {SlotOf(modelInput[k].table, q) : q \in Written(modelInput[k])}

\* Each position of a scheduled sequence attends to the K and V of the
\* sequence's own tokens, whatever was shared, evicted and used again.
ContextIsOwn ==
    pc = "count" =>
        \A k \in DOMAIN modelInput :
            LET seg == modelInput[k]
            IN  \A i \in 1 .. Len(seg.tokens) :
                   kv[SlotOf(seg.table, i - 1)] = SubSeq(seg.tokens, 1, i)

BetweenSteps == pc \in {"idle", "yield", "pause", "waiting"}

\* The tokens a sequence counts as computed have their K and V in the blocks
\* of its table, between two steps.
ComputedIsInCache ==
    BetweenSteps =>
        \A s \in Seqs : blockTable[s] # <<>> =>
            \A i \in 1 .. numComputed[s] :
                kv[SlotOf(blockTable[s], i - 1)] = SubSeq(AllTokenIds(s), 1, i)

\* The slots of a hashed block hold the K and V of what it is hashed for.
HashIsTrue(b) ==
    pool.hashKey[b] # NoHash =>
        \A i \in 1 .. BlockSize :
            kv[<<b, i - 1>>] =
                SubSeq(pool.hashKey[b], 1, Len(pool.hashKey[b]) - BlockSize + i)

\* A block that is in the prefix cache ahead of its K and V belongs to a
\* sequence that is still being prefilled and will write them: no other
\* request finds it free, or finds it after that sequence is gone.
UnwrittenIsBeingPrefilled ==
    BetweenSteps =>
        \A b \in Blocks : HashIsTrue(b) \/
            \E s \in Seqs :
                /\ status[s] = "PREFILLING"
                /\ \E i \in DOMAIN blockTable[s] :
                      blockTable[s][i] = b /\ i * BlockSize > numComputed[s]

\* The tokens a client was sent are the output of its sequence, in order,
\* whenever the event loop can run another task.
StreamIsOutput ==
    AtAwait =>
        \A s \in Seqs :
            FlattenSeq([i \in DOMAIN stream[s] |-> stream[s][i].tokens]) = output[s]

\* What can be aborted the scheduler has: abort never answers FALSE for a
\* request it still finds in _sequences.
KnownIsQueued ==
    AtAwait => \A s \in known : Contains(waiting, s) \/ Contains(running, s)

\* The scheduler does not go on with a request whose stream has ended.  Under
\* CleanSpec: a sequence that was scheduled twice, as the last of running and
\* again from waiting, may finish while it is in waiting; FreeFinished takes
\* it off running only, and the scheduler runs it once more.
EndedLeaveTheQueues ==
    AtAwait => \A s \in Seqs : Contains(waiting, s) \/ Contains(running, s) => s \in known

-----------------------------------------------------------------------------
(***************************************************************************)
(* The engine implements Lifecycle, as long as no sequence is scheduled    *)
(* twice (CleanSpec).  An item that follows an abort, because its step was *)
(* in the executor, is on the queue but reaches no reader.                 *)
(***************************************************************************)

AnswerLimit(s) == IF MaxModelLen < PromptLen(s) + MaxOutput
                  THEN Max({1, MaxModelLen - PromptLen(s)}) ELSE Max({1, MaxOutput})

Offered(items) ==
    LET aborts == {i \in DOMAIN items : items[i].reason = "abort"}
    IN  IF aborts = {} THEN items ELSE SubSeq(items, 1, Min(aborts))

Life == INSTANCE Lifecycle WITH
            Requests <- Seqs,
            Limits <- 1 .. MaxOutput + MaxModelLen + 1,
            limit <- [s \in Seqs |-> AnswerLimit(s)],
            stops <- [s \in Seqs |-> StopTokens],
            stream <- [s \in Seqs |-> Offered(stream[s])],
            alive <- pc \notin {"stopped", "crashed"}

\* Every stream is a run of tokens, one item each, to its limit, to a stop
\* token or to an abort, and the item that says so is its last; a request is
\* known until that item is put.
ImplementsLifecycle == Life!LifeSpec

\* Every request's stream ends, as long as the engine is neither shut down
\* nor dead: no request is forgotten, no wake-up is lost (the one-second
\* timeout of the loop is not needed).
StreamsEnd ==
    \A s \in Seqs :
        s \in known ~> (\/ \E i \in DOMAIN stream[s] : stream[s][i].finished
                        \/ stop \/ pc = "crashed")

-----------------------------------------------------------------------------
(* What comments of the code say of it, and it does not do. *)

\* "A single background task (`_run_loop`) drives the model." (engine.py:11):
\* an abort while the executor runs takes the block table away from the
\* step, and the task dies.
LoopSurvives == pc # "crashed"
=============================================================================
