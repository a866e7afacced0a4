----------------------------- MODULE Scheduler -----------------------------
(***************************************************************************)
(* tiny_vllm/scheduler.py: continuous batching with chunked prefill.       *)
(*                                                                         *)
(* schedule() is one call of the code; here pc walks through it, one       *)
(* action per iteration of its two loops, so that the calls it makes into  *)
(* the block manager (BlockManager.tla) run in between.  Nothing else      *)
(* happens meanwhile: the code has no await inside schedule().             *)
(***************************************************************************)
EXTENDS BlockManager

CONSTANTS
    MaxNumSeqs,           \* max_num_seqs
    MaxNumBatchedTokens   \* max_num_batched_tokens

\* EngineConfig.__post_init__ rejects a smaller token budget.
ASSUME SchedulerConstants ==
    /\ MaxNumSeqs \in Nat \ {0}
    /\ MaxNumBatchedTokens \in Nat
    /\ MaxNumBatchedTokens >= BlockSize

VARIABLES
    waiting,       \* deque of sequences
    running,       \* list of sequences
    status,        \* Sequence.status; "NONE" until the request is made
    finishReason,  \* Sequence.finish_reason, "none" before there is one
    pc,            \* where schedule() and the step around it stand
    todo,          \* phase 1: what is left of list(self.running)
    budget,        \* tokens left
    active,        \* active_count of phase 2
    scheduled,     \* out.scheduled
    preempted,     \* out.preempted
    rest           \* what is left of a loop over out.scheduled

queueVars == <<waiting, running, status, finishReason>>
stepVars == <<todo, budget, active, scheduled, preempted, rest>>
schedulerVars == <<poolVars, queueVars, pc, stepVars>>

Item(s, n, isPrefill) == [seq |-> s, n |-> n, isPrefill |-> isPrefill]

SetStatus(s, new) == status' = [status EXCEPT ![s] = new]

QueuesInit ==
    /\ waiting = <<>>
    /\ running = <<>>
    /\ status = [s \in Seqs |-> "NONE"]
    /\ finishReason = [s \in Seqs |-> "none"]
    /\ pc = "idle"
    /\ todo = <<>>
    /\ budget = 0
    /\ active = 0
    /\ scheduled = <<>>
    /\ preempted = {}
    /\ rest = <<>>

-----------------------------------------------------------------------------
(* Queue operations. *)

Add(s) ==
    /\ status[s] = "NONE"
    /\ SetStatus(s, "WAITING")
    /\ waiting' = Append(waiting, s)
    /\ UNCHANGED <<poolVars, running, finishReason, pc, stepVars>>

Finish(s, reason) ==
    /\ SetStatus(s, "FINISHED")
    /\ finishReason' = [finishReason EXCEPT ![s] = reason]

\* abort of a waiting sequence: it just leaves the queue.
AbortWaiting(s) ==
    /\ call = Idle
    /\ Contains(waiting, s)
    /\ waiting' = Without(waiting, s)
    /\ Finish(s, "abort")
    /\ UNCHANGED <<poolVars, running, pc, stepVars>>

\* abort of a running sequence frees its blocks.
AbortRunning(s) ==
    /\ ~Contains(waiting, s)
    /\ Contains(running, s)
    /\ running' = Without(running, s)
    /\ Free(s)
    /\ Finish(s, "abort")
    /\ UNCHANGED <<numComputed, numCachedPrefix, waiting, pc, stepVars>>

HasWork == waiting # <<>> \/ running # <<>>

\* Mutant: the victim is not put back into the queue.
PreemptWithoutQueue ==
    LET victim == Last(running)
    IN  /\ running' = Front(running)
        /\ Free(victim)
        /\ ForgetComputed(victim)
        /\ SetStatus(victim, "PREEMPTED")
        /\ preempted' = preempted \cup {victim}
        /\ UNCHANGED <<waiting, finishReason>>

\* Mutant: the victim is the oldest running sequence.
PreemptOldest ==
    LET victim == Head(running)
    IN  /\ running' = Tail(running)
        /\ Free(victim)
        /\ ForgetComputed(victim)
        /\ SetStatus(victim, "PREEMPTED")
        /\ waiting' = <<victim>> \o waiting
        /\ preempted' = preempted \cup {victim}
        /\ UNCHANGED finishReason

\* _preempt_one: the last of running goes back to the front of waiting and
\* restarts; it keeps its output.
PreemptOne ==
    LET victim == Last(running)
    IN  /\ running' = Front(running)
        /\ Free(victim)
        /\ ForgetComputed(victim)
        /\ SetStatus(victim, "PREEMPTED")
        /\ waiting' = <<victim>> \o waiting
        /\ preempted' = preempted \cup {victim}
        /\ UNCHANGED finishReason

-----------------------------------------------------------------------------
(* schedule(), phase 1: one token for each running sequence. *)

StartSchedule ==
    /\ pc = "idle"
    /\ call = Idle
    /\ HasWork
    /\ pc' = "decode"
    /\ todo' = running
    /\ budget' = MaxNumBatchedTokens
    /\ scheduled' = <<>>
    /\ preempted' = {}
    /\ UNCHANGED <<poolVars, queueVars, active, rest>>

\* Preempted earlier in this loop.
DecodeSkip ==
    /\ pc = "decode"
    /\ call = Idle
    /\ todo # <<>>
    /\ status[Head(todo)] # "RUNNING"
    /\ todo' = Tail(todo)
    /\ UNCHANGED <<poolVars, queueVars, pc, budget, active, scheduled, preempted,
                   rest>>

\* A sequence whose turn it is, with budget for it.
DecodeTurn ==
    /\ pc = "decode"
    /\ todo # <<>>
    /\ status[Head(todo)] = "RUNNING"
    /\ budget > 0

\* Mutant: no slot is asked for.
DecodeWithoutSlot ==
    /\ DecodeTurn \/ pc = "retry"
    /\ call = Idle
    /\ scheduled' = Append(scheduled, Item(Head(todo), 1, FALSE))
    /\ budget' = budget - 1
    /\ todo' = Tail(todo)
    /\ pc' = "decode"
    /\ UNCHANGED <<poolVars, queueVars, active, preempted, rest>>

\* It gets its slot, at the first attempt or after a preemption.
DecodeSchedule ==
    /\ DecodeTurn \/ pc = "retry"
    /\ AppendSlot(Head(todo))
    /\ scheduled' = Append(scheduled, Item(Head(todo), 1, FALSE))
    /\ budget' = budget - 1
    /\ todo' = Tail(todo)
    /\ pc' = "decode"
    /\ UNCHANGED <<queueVars, active, preempted, rest>>

\* The pool is dry: preempt, and if the victim is another sequence, retry.
\* That there is no victim (scheduler.py:121-130) never happens: the sequence
\* whose turn it is is itself in running.
DecodePreempt ==
    /\ DecodeTurn
    /\ AppendSlotRaises(Head(todo))
    /\ running # <<>>
    /\ PreemptOne
    /\ IF Last(running) = Head(todo)
       THEN pc' = "decode" /\ todo' = Tail(todo)
       ELSE pc' = "retry" /\ UNCHANGED todo
    /\ UNCHANGED <<budget, active, scheduled, rest>>

\* The victim's blocks are all shared: no token for this sequence this step.
DecodeGiveUp ==
    /\ pc = "retry"
    /\ call = Idle
    /\ AppendSlotRaises(Head(todo))
    /\ todo' = Tail(todo)
    /\ pc' = "decode"
    /\ UNCHANGED <<poolVars, queueVars, budget, active, scheduled, preempted, rest>>

EndDecode ==
    /\ pc = "decode"
    /\ call = Idle
    /\ todo # <<>> => status[Head(todo)] = "RUNNING" /\ budget = 0
    /\ pc' = "prefill"
    /\ todo' = <<>>
    /\ active' = Cardinality({i \in DOMAIN running : status[running[i]] # "FINISHED"})
    /\ UNCHANGED <<poolVars, queueVars, budget, scheduled, preempted, rest>>

-----------------------------------------------------------------------------
(* schedule(), phase 2: prefill chunks from the head of waiting. *)

PrefillTurn ==
    /\ pc = "prefill"
    /\ call = Idle
    /\ waiting # <<>>
    /\ budget > 0
    /\ active < MaxNumSeqs

NeedsAdmission == PrefillTurn /\ blockTable[Head(waiting)] = <<>>

AdmitHead ==
    /\ NeedsAdmission
    /\ CanAllocateInitial(Head(waiting))
    /\ Admit(Head(waiting))
    /\ SetStatus(Head(waiting), "PREFILLING")
    /\ UNCHANGED <<waiting, running, finishReason, pc, stepVars>>

\* No room for the head of waiting: a running sequence takes its place there.
PreemptForAdmission ==
    /\ NeedsAdmission
    /\ ~CanAllocateInitial(Head(waiting))
    /\ running # <<>>
    /\ PreemptOne
    /\ UNCHANGED <<pc, todo, budget, active, scheduled, rest>>

AdmissionGiveUp ==
    /\ NeedsAdmission
    /\ ~CanAllocateInitial(Head(waiting))
    /\ running = <<>>
    /\ pc' = "scheduled"
    /\ UNCHANGED <<poolVars, queueVars, stepVars>>

\* Mutant: the chunk is not cut to the budget.
ChunkUncapped(s) == NumUncomputedPromptTokens(s)

\* Mutant: a preempted sequence recomputes its output along with its prompt.
ChunkWithOutput(s) ==
    IF TotalLen(s) - numComputed[s] < budget
    THEN TotalLen(s) - numComputed[s] ELSE budget

ChunkOf(s) ==
    IF NumUncomputedPromptTokens(s) < budget
    THEN NumUncomputedPromptTokens(s) ELSE budget

\* Mutant: active_count is not brought up.
StartUncounted ==
    /\ waiting' = Tail(waiting)
    /\ running' = Append(running, Head(waiting))
    /\ SetStatus(Head(waiting), "RUNNING")
    /\ UNCHANGED <<active, finishReason>>

\* The head of waiting joins the running sequences.
StartRunning ==
    /\ waiting' = Tail(waiting)
    /\ running' = Append(running, Head(waiting))
    /\ SetStatus(Head(waiting), "RUNNING")
    /\ active' = active + 1
    /\ UNCHANGED finishReason

PlanChunk ==
    /\ PrefillTurn
    /\ blockTable[Head(waiting)] # <<>>
    /\ ChunkOf(Head(waiting)) > 0
    /\ EnsureBlocksForChunk(Head(waiting), ChunkOf(Head(waiting)))
    /\ pc' = "ensure"
    /\ UNCHANGED <<queueVars, stepVars>>

\* The prompt is computed already.
NothingToPrefill ==
    /\ PrefillTurn
    /\ blockTable[Head(waiting)] # <<>>
    /\ ChunkOf(Head(waiting)) = 0
    /\ StartRunning
    /\ UNCHANGED <<poolVars, pc, todo, budget, scheduled, preempted, rest>>

\* The chunk is scheduled; the last one moves the sequence to running, any
\* other ends the step.  ensure_blocks_for_chunk has not raised:
\* ChunkIsCovered says that it never does, so that the except branch of the
\* code (lines 179-187) is never taken.
ScheduleChunk ==
    LET s == Head(waiting)
    IN  /\ pc = "ensure"
        /\ call = Idle
        /\ scheduled' = Append(scheduled, Item(s, ChunkOf(s), TRUE))
        /\ budget' = budget - ChunkOf(s)
        /\ IF ChunkOf(s) = NumUncomputedPromptTokens(s)
           THEN StartRunning /\ pc' = "prefill"
           ELSE pc' = "scheduled" /\ UNCHANGED <<queueVars, active>>
        /\ UNCHANGED <<poolVars, todo, preempted, rest>>

EndPrefill ==
    /\ pc = "prefill"
    /\ call = Idle
    /\ waiting = <<>> \/ budget = 0 \/ active >= MaxNumSeqs
    /\ pc' = "scheduled"
    /\ UNCHANGED <<poolVars, queueVars, stepVars>>

ScheduleStep ==
    \/ DecodeSkip \/ DecodeSchedule \/ DecodePreempt \/ DecodeGiveUp \/ EndDecode
    \/ AdmitHead \/ PreemptForAdmission \/ AdmissionGiveUp
    \/ PlanChunk \/ NothingToPrefill \/ ScheduleChunk \/ EndPrefill

-----------------------------------------------------------------------------
(* finalize_step, one item at a time. *)

FinalizeRegister ==
    /\ pc = "finalize"
    /\ rest # <<>>
    /\ RegisterFilledBlocks(Head(rest).seq)
    /\ pc' = "release"
    /\ UNCHANGED <<queueVars, stepVars>>

FinalizeKeep ==
    /\ pc = "release"
    /\ call = Idle
    /\ status[Head(rest).seq] # "FINISHED"
    /\ rest' = Tail(rest)
    /\ pc' = "finalize"
    /\ UNCHANGED <<poolVars, queueVars, todo, budget, active, scheduled, preempted>>

FinalizeRelease ==
    /\ pc = "release"
    /\ status[Head(rest).seq] = "FINISHED"
    /\ running' = Without(running, Head(rest).seq)
    /\ Free(Head(rest).seq)
    /\ rest' = Tail(rest)
    /\ pc' = "finalize"
    /\ UNCHANGED <<numComputed, numCachedPrefix, waiting, status, finishReason,
                   todo, budget, active, scheduled, preempted>>

FinalizeEnd ==
    /\ pc = "finalize"
    /\ call = Idle
    /\ rest = <<>>
    /\ pc' = "idle"
    /\ UNCHANGED <<poolVars, queueVars, stepVars>>

FinalizeStep ==
    FinalizeRegister \/ FinalizeKeep \/ FinalizeRelease \/ FinalizeEnd

-----------------------------------------------------------------------------
(***************************************************************************)
(* The specification of the scheduler on its own, with the block manager   *)
(* under it and a caller around it that makes one step after the other:    *)
(* schedule, run the model, count, sample, finalize.                       *)
(***************************************************************************)

\* What prepare_input reads for an item is there: a token and a slot for
\* each position it runs.
InputFits(item) ==
    LET end == numComputed[item.seq] + item.n
    IN  end <= TotalLen(item.seq) /\ end <= Len(blockTable[item.seq]) * BlockSize

SkipEmptyStep ==
    /\ pc = "scheduled"
    /\ scheduled = <<>>
    /\ pc' = "idle"
    /\ UNCHANGED <<poolVars, queueVars, stepVars>>

RunModel ==
    /\ pc = "scheduled"
    /\ scheduled # <<>>
    /\ \A k \in DOMAIN scheduled : InputFits(scheduled[k])
    /\ pc' = "count"
    /\ rest' = scheduled
    /\ UNCHANGED <<poolVars, queueVars, todo, budget, active, scheduled, preempted>>

\* An IndexError in prepare_input or register_filled_blocks ends the caller.
Crash ==
    /\ \/ pc = "scheduled" /\ \E k \in DOMAIN scheduled : ~InputFits(scheduled[k])
       \/ RegisterIndexError
    /\ pc' = "crashed"
    /\ call' = Idle
    /\ UNCHANGED <<seqVars, pool, queueVars, stepVars>>

\* seq.num_computed_tokens += item.num_tokens
CountItem ==
    LET s == Head(rest).seq
    IN  /\ pc = "count"
        /\ rest # <<>>
        /\ numComputed' = [numComputed EXCEPT ![s] = @ + Head(rest).n]
        /\ rest' = Tail(rest)
        /\ UNCHANGED <<prompt, output, blockTable, numCachedPrefix, pool, call,
                       queueVars, pc, todo, budget, active, scheduled, preempted>>

CountEnd ==
    /\ pc = "count"
    /\ rest = <<>>
    /\ pc' = "sample"
    /\ rest' = scheduled
    /\ UNCHANGED <<poolVars, queueVars, todo, budget, active, scheduled, preempted>>

Samples(s) == numComputed[s] >= PromptLen(s)

\* A sequence past its prompt gets a token, and may stop at it.
SampleItem(t, stops) ==
    LET s == Head(rest).seq
    IN  /\ pc = "sample"
        /\ rest # <<>>
        /\ Samples(s)
        /\ AppendOutputToken(s, t)
        /\ IF stops \/ Len(output[s]) + 1 >= MaxOutput
           THEN Finish(s, "stop") ELSE UNCHANGED <<status, finishReason>>
        /\ rest' = Tail(rest)
        /\ UNCHANGED <<prompt, blockTable, numComputed, numCachedPrefix, pool, call,
                       waiting, running, pc, todo, budget, active, scheduled,
                       preempted>>

SampleSkip ==
    /\ pc = "sample"
    /\ rest # <<>>
    /\ ~Samples(Head(rest).seq)
    /\ rest' = Tail(rest)
    /\ UNCHANGED <<poolVars, queueVars, pc, todo, budget, active, scheduled, preempted>>

SampleEnd ==
    /\ pc = "sample"
    /\ rest = <<>>
    /\ pc' = "finalize"
    /\ rest' = scheduled
    /\ UNCHANGED <<poolVars, queueVars, todo, budget, active, scheduled, preempted>>

\* A step of the block manager inside a call of the scheduler or its caller.
BlockManagerStep == CallStep /\ UNCHANGED <<queueVars, pc, stepVars>>

\* The run loop waits for work.
AwaitWork == pc = "idle" /\ call = Idle /\ ~HasWork /\ UNCHANGED schedulerVars

CallerStep ==
    \/ StartSchedule \/ AwaitWork
    \/ SkipEmptyStep \/ RunModel \/ Crash \/ CountItem \/ CountEnd
    \/ \E t \in Tokens, stops \in BOOLEAN : SampleItem(t, stops)
    \/ SampleSkip \/ SampleEnd

\* Requests come and go between two steps.
Request(s) == pc = "idle" /\ call = Idle /\ (Add(s) \/ AbortWaiting(s) \/ AbortRunning(s))

SchedulerStep == BlockManagerStep \/ ScheduleStep \/ FinalizeStep \/ CallerStep

SchedulerInit == SequenceInit /\ pool = EmptyPool /\ call = Idle /\ QueuesInit

SchedulerNext == SchedulerStep \/ \E s \in Seqs : Request(s)

\* The caller loops for as long as the engine runs.
SchedulerSpec ==
    /\ SchedulerInit
    /\ [][SchedulerNext]_schedulerVars
    /\ WF_schedulerVars(SchedulerStep)

-----------------------------------------------------------------------------
(* Properties. *)

Statuses == {"NONE", "WAITING", "PREFILLING", "RUNNING", "FINISHED", "PREEMPTED"}

FinishReasons == {"none", "abort", "stop", "length"}

Steps == {"idle", "decode", "retry", "prefill", "ensure", "scheduled", "count",
          "sample", "finalize", "release", "crashed"}

Items == [seq : Seqs, n : Nat \ {0}, isPrefill : BOOLEAN]

QueuesTypeOK ==
    /\ PoolTypeOK
    /\ waiting \in Seq(Seqs)
    /\ running \in Seq(Seqs)
    /\ status \in [Seqs -> Statuses]
    /\ finishReason \in [Seqs -> FinishReasons]
    /\ todo \in Seq(Seqs)
    /\ budget \in Nat
    /\ active \in Nat
    /\ scheduled \in Seq(Items)
    /\ preempted \subseteq Seqs
    /\ rest \in Seq(Items)

\* Type correctness of the queues and of the step in progress.
SchedulerTypeOK == QueuesTypeOK /\ pc \in Steps

\* Every request lives in exactly one queue, once, until it is finished:
\* preemption, promotion to running and abort neither lose nor duplicate it.
LiveRequestsAreQueued ==
    /\ NoDuplicates(waiting \o running)
    /\ \A s \in Seqs :
          /\ status[s] = "RUNNING" => Contains(running, s)
          /\ status[s] \in {"WAITING", "PREFILLING", "PREEMPTED"} => Contains(waiting, s)

\* max_num_seqs bounds the running sequences, although active_count is not
\* brought down when a preemption shrinks running.
RunningWithinLimit == Len(running) <= MaxNumSeqs

\* The tokens of the first k items of a step.
ScheduledTokens[k \in 0 .. Len(scheduled)] ==
    IF k = 0 THEN 0 ELSE ScheduledTokens[k - 1] + scheduled[k].n

\* A step never schedules more than max_num_batched_tokens tokens.
TokensWithinBudget ==
    pc = "scheduled" => ScheduledTokens[Len(scheduled)] <= MaxNumBatchedTokens

\* admit allocated the whole prompt: the blocks of a prefill chunk are there,
\* and ensure_blocks_for_chunk neither takes a block nor raises.
ChunkIsCovered ==
    pc = "ensure" =>
        Len(blockTable[Head(waiting)])
            >= NumBlocksNeededFor(numComputed[Head(waiting)] + ChunkOf(Head(waiting)))

\* Phase 1 takes its victims from the end of running, so that it never
\* preempts a sequence it has scheduled already.
DecodeKeepsItsSchedule ==
    pc \in {"decode", "retry"} =>
        \A k \in DOMAIN scheduled : scheduled[k].seq \notin preempted

\* A scheduled sequence has a token and a slot for each position it is to
\* run, unless phase 2 preempted it after phase 1 had scheduled it.  Under
\* steps that schedule no sequence twice (OneItemEach): one that is preempted,
\* scheduled again and completed in the step counts its tokens several times,
\* and a later step asks for a token it does not have.
UntouchedItemsFit ==
    (pc = "scheduled" \/ (pc = "prefill" /\ call = Idle)) =>
        \A k \in DOMAIN scheduled :
            scheduled[k].seq \notin preempted => InputFits(scheduled[k])

\* A sequence holds blocks exactly while it is being prefilled or decoded:
\* preemption, re-admission and a stop leave none behind.  (An abort may:
\* AbortedHoldNothing; and so does a caller that an IndexError ended.)
BlocksFollowStatus ==
    (call = Idle /\ pc \notin {"apply", "register", "check", "free",
                              "sample", "finalize", "release", "crashed"}) =>
        \A s \in Seqs :
            /\ status[s] \in {"PREFILLING", "RUNNING"} => blockTable[s] # <<>>
            /\ status[s] \in {"NONE", "WAITING", "PREEMPTED"} => blockTable[s] = <<>>
            /\ (status[s] = "FINISHED" /\ finishReason[s] # "abort")
                  => blockTable[s] = <<>>

\* Sequences in waiting never keep each other from their blocks: a step comes
\* to nothing, with nothing left to preempt, only when the prompt at the head
\* of waiting needs more blocks than the pool has.  (Blocks that an aborted
\* prefill leaked may starve it, too: AbortedHoldNothing.)
StarvedByThePool ==
    (/\ pc = "scheduled"
     /\ scheduled = <<>>
     /\ running = <<>>
     /\ \A s \in Seqs : status[s] = "FINISHED" => blockTable[s] = <<>>) =>
        /\ waiting # <<>>
        /\ NumBlocksNeededFor(PromptLen(Head(waiting))) > NumBlocks

-----------------------------------------------------------------------------
(* What comments of the code say of it, and it does not do. *)

\* "Every RUNNING sequence wants exactly one new token" (scheduler.py:6):
\* phase 2 may preempt a sequence that phase 1 scheduled, admit it again and
\* schedule its prompt, with the first item still in the output.
OneItemEach ==
    pc = "scheduled" =>
        \A i, j \in DOMAIN scheduled :
            scheduled[i].seq = scheduled[j].seq => i = j

\* "Free finished sequences." (engine.py:346): abort leaves the blocks of a
\* sequence in the middle of its prefill allocated for ever.
AbortedHoldNothing ==
    (pc = "idle" /\ call = Idle) =>
        \A s \in Seqs : status[s] = "FINISHED" => blockTable[s] = <<>>

\* "Anything past that boundary is either waiting prefill (during
\* PREFILLING) or the next token to sample (RUNNING)" (request.py:33-34): a
\* preempted sequence recomputes its prompt only, and samples a token from
\* there although it has output already.
SampledAtTheEnd ==
    [][\A s \in Seqs : output'[s] # output[s] => numComputed[s] = TotalLen(s)
      ]_schedulerVars
=============================================================================
