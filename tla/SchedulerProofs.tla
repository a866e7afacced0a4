--------------------------- MODULE SchedulerProofs ---------------------------
(***************************************************************************)
(* Safety of the scheduler together with the block manager under it, for   *)
(* every number of sequences and blocks and every setting of the limits:   *)
(* the pool stays exact under every order of scheduling, preemption,       *)
(* abort and finalize_step; no request is lost or queued twice; running    *)
(* stays within max_num_seqs; a planned chunk has its blocks.              *)
(***************************************************************************)
EXTENDS Scheduler, BlockManagerProofs

-----------------------------------------------------------------------------
(***************************************************************************)
(* The inductive invariant: PoolInv of the block manager, the types, and   *)
(* what the properties need besides themselves.                            *)
(***************************************************************************)
QueueTypes ==
    /\ waiting \in Seq(Seqs)
    /\ running \in Seq(Seqs)
    /\ status \in [Seqs -> Statuses]
    /\ finishReason \in [Seqs -> FinishReasons]
    /\ todo \in Seq(Seqs)
    /\ budget \in Nat
    /\ active \in Nat
    /\ scheduled \in Seq(Items)
    /\ preempted \subseteq Seqs
    /\ rest \in Seq(Items)
    /\ pc \in Steps

\* Where a step stands says what the call in progress can be, and what a
\* loop of schedule() or finalize_step still has before it.
StepOK ==
    /\ pc \in {"scheduled", "count", "sample", "crashed"} => call = Idle
    /\ pc = "retry" => todo # <<>> /\ budget > 0
    /\ pc = "release" => rest # <<>>
    /\ pc = "ensure" =>
          /\ waiting # <<>>
          /\ active < MaxNumSeqs
          /\ ChunkOf(Head(waiting)) > 0
          /\ blockTable[Head(waiting)] # <<>>
          /\ call.op \in {"none", "ensure"}

\* The two queues hold no sequence twice, and each live sequence.
QueuesOK ==
    /\ NoDuplicates(waiting)
    /\ NoDuplicates(running)
    /\ \A s \in Seqs :
          /\ ~(Contains(waiting, s) /\ Contains(running, s))
          /\ Contains(waiting, s) \/ Contains(running, s) => status[s] # "NONE"
          /\ status[s] = "RUNNING" => Contains(running, s)
          /\ status[s] \in {"WAITING", "PREFILLING", "PREEMPTED"} => Contains(waiting, s)

InItems(items, s) == \E k \in DOMAIN items : items[k].seq = s

\* s is one of the items that the rest of the step is still to sample or to
\* release; a caller that crashed releases nothing any more.
Releasing(s) ==
    \/ pc = "crashed"
    \/ pc = "sample" /\ InItems(scheduled, s)
    \/ pc \in {"finalize", "release"} /\ InItems(rest, s)

\* A sequence that finished leaves running before the step ends.
FinishedLeaves ==
    /\ pc = "sample" => \A k \in DOMAIN rest : InItems(scheduled, rest[k].seq)
    /\ \A s \in Seqs :
          (Contains(running, s) /\ status[s] = "FINISHED") => Releasing(s)

\* active_count is brought up with running, and never down.
ActiveOK ==
    /\ Len(running) <= MaxNumSeqs
    /\ pc \in {"prefill", "ensure"} => Len(running) <= active

Admitting(s) == call.op = "admit" /\ call.seq = s
Freeing(s) == call.op = "free" /\ call.seq = s

\* What a sequence's status says of its table, but for the sequence that a
\* call is filling in or clearing; and a table covers the prompt.
TableOK(s) ==
    /\ \/ Admitting(s)
       \/ blockTable[s] = <<>>
       \/ Len(blockTable[s]) >= NumBlocksNeededFor(PromptLen(s))
    /\ status[s] \in {"PREFILLING", "RUNNING"} => Admitting(s) \/ blockTable[s] # <<>>
    /\ status[s] \in {"NONE", "WAITING", "PREEMPTED"}
          => Freeing(s) \/ blockTable[s] = <<>>
    /\ (status[s] = "FINISHED" /\ finishReason[s] # "abort")
          => Freeing(s) \/ blockTable[s] = <<>> \/ Releasing(s)

TablesOK ==
    /\ call.op = "admit" => status[call.seq] = "PREFILLING"
    /\ call.op = "free" => status[call.seq] \in {"PREEMPTED", "FINISHED"}
    /\ call.op = "ensure" => blockTable[call.seq] # <<>>
    /\ pc = "retry" => status[Head(todo)] = "RUNNING"
    /\ \A s \in Seqs : TableOK(s)

SchedulerInv ==
    /\ PoolInv
    /\ QueueTypes
    /\ StepOK
    /\ QueuesOK
    /\ FinishedLeaves
    /\ ActiveOK
    /\ TablesOK

-----------------------------------------------------------------------------
(* The pool: every call of the scheduler keeps to the contract of the      *)
(* method it calls.                                                        *)

\* What a step reads at the head of its queues.
LEMMA Heads ==
    ASSUME QueueTypes
    PROVE  /\ waiting # <<>> => Head(waiting) \in Seqs /\ Tail(waiting) \in Seq(Seqs)
           /\ todo # <<>> => Head(todo) \in Seqs /\ Tail(todo) \in Seq(Seqs)
           /\ running # <<>> => Last(running) \in Seqs /\ Front(running) \in Seq(Seqs)
           /\ rest # <<>> => /\ Head(rest) \in Items
                             /\ Tail(rest) \in Seq(Items)
                             /\ Head(rest).seq \in Seqs
                             /\ Head(rest).n \in Nat \ {0}
<1>1. /\ waiting # <<>> => Head(waiting) \in Seqs /\ Tail(waiting) \in Seq(Seqs)
      /\ todo # <<>> => Head(todo) \in Seqs /\ Tail(todo) \in Seq(Seqs)
      /\ rest # <<>> => Head(rest) \in Items /\ Tail(rest) \in Seq(Items)
  BY HeadTail DEF QueueTypes
<1>2. running # <<>> => Last(running) \in Seqs /\ Front(running) \in Seq(Seqs)
  BY DEF QueueTypes, Last, Front
<1> QED BY <1>1, <1>2 DEF Items

LEMMA ChunkBounds ==
    ASSUME PoolTypeOK, QueueTypes, NEW s \in Seqs
    PROVE  /\ NumUncomputedPromptTokens(s) \in Nat
           /\ ChunkOf(s) \in Nat
           /\ ChunkOf(s) <= budget
           /\ budget - ChunkOf(s) \in Nat
           /\ ChunkOf(s) > 0 => numComputed[s] + ChunkOf(s) <= PromptLen(s)
           /\ ChunkOf(s) > 0 => ChunkOf(s) \in Nat \ {0}
<1>1. PromptLen(s) \in Nat /\ numComputed[s] \in Nat /\ budget \in Nat
  BY SequenceSizes DEF PoolTypeOK, QueueTypes
<1>2. /\ NumUncomputedPromptTokens(s) \in Nat
      /\ NumUncomputedPromptTokens(s) > 0
            => NumUncomputedPromptTokens(s) = PromptLen(s) - numComputed[s]
  BY <1>1 DEF NumUncomputedPromptTokens
<1> QED BY <1>1, <1>2 DEF ChunkOf

LEMMA PreemptPool ==
    ASSUME PoolInv, QueueTypes, running # <<>>, PreemptOne
    PROVE  PoolInv'
BY Heads, FreePreserves DEF PreemptOne

LEMMA PoolStep ==
    ASSUME PoolInv, QueueTypes, StepOK, [SchedulerNext]_schedulerVars
    PROVE  PoolInv'
<1>1. CASE UNCHANGED poolVars
  BY <1>1, StutterPreserves
<1>2. CASE BlockManagerStep
  BY <1>2, CallStepPreserves DEF BlockManagerStep
<1>3. CASE DecodeSchedule
  <2>1. todo # <<>>
    BY <1>3 DEF DecodeSchedule, DecodeTurn, StepOK
  <2> QED BY <1>3, <2>1, Heads, AppendSlotPreserves DEF DecodeSchedule
<1>4. CASE DecodePreempt
  BY <1>4, PreemptPool DEF DecodePreempt
<1>5. CASE PreemptForAdmission
  BY <1>5, PreemptPool DEF PreemptForAdmission
<1>6. CASE AdmitHead
  BY <1>6, Heads, AdmitPreserves DEF AdmitHead, NeedsAdmission, PrefillTurn
<1>7. CASE PlanChunk
  <2>1. Head(waiting) \in Seqs /\ ChunkOf(Head(waiting)) \in Nat
    BY <1>7, Heads, ChunkBounds DEF PlanChunk, PrefillTurn, PoolInv
  <2> QED BY <1>7, <2>1, EnsurePreserves DEF PlanChunk
<1>8. CASE FinalizeRegister
  BY <1>8, Heads, RegisterPreserves DEF FinalizeRegister
<1>9. CASE FinalizeRelease
  <2>1. Head(rest).seq \in Seqs
    BY <1>9, Heads DEF FinalizeRelease, StepOK
  <2>2. Free(Head(rest).seq) /\ UNCHANGED <<numComputed, numCachedPrefix>>
    BY <1>9 DEF FinalizeRelease
  <2> QED BY <2>1, <2>2, FreePreserves
<1>10. CASE Crash
  <2>1. call' = Idle /\ UNCHANGED <<seqVars, pool>> /\ call.op # "free"
    BY <1>10, IdleFields DEF Crash, RegisterIndexError, StepOK
  <2> QED BY <2>1, EndStep
<1>11. CASE CountItem
  <2>1. /\ Head(rest).seq \in Seqs /\ Head(rest).n \in Nat
        /\ numComputed \in [Seqs -> Nat]
    BY <1>11, Heads DEF CountItem, PoolInv, PoolTypeOK
  <2>2. /\ numComputed' = [numComputed EXCEPT ![Head(rest).seq] = @ + Head(rest).n]
        /\ call = Idle /\ call' = Idle
        /\ UNCHANGED <<prompt, output, blockTable, numCachedPrefix, pool>>
    BY <1>11 DEF CountItem, StepOK
  <2>3. numComputed' \in [Seqs -> Nat]
    BY <2>1, <2>2
  <2> QED BY <2>2, <2>3, CountStep
<1>12. ASSUME NEW t \in Tokens, NEW stops \in BOOLEAN, SampleItem(t, stops)
       PROVE  PoolInv'
  <2>1. Head(rest).seq \in Seqs /\ numComputed \in [Seqs -> Nat]
    BY <1>12, Heads DEF SampleItem, PoolInv, PoolTypeOK
  <2>2. /\ AppendOutputToken(Head(rest).seq, t)
        /\ call = Idle /\ call' = Idle
        /\ UNCHANGED <<prompt, blockTable, numComputed, numCachedPrefix, pool>>
    BY <1>12 DEF SampleItem, StepOK
  <2> QED BY <2>1, <2>2, AppendOutputStep
<1>13. ASSUME NEW s \in Seqs, AbortRunning(s) PROVE PoolInv'
  BY <1>13, FreePreserves DEF AbortRunning
<1>14. UNCHANGED poolVars \/ BlockManagerStep
       \/ DecodeSchedule \/ DecodePreempt \/ PreemptForAdmission \/ AdmitHead
       \/ PlanChunk \/ FinalizeRegister \/ FinalizeRelease \/ Crash \/ CountItem
       \/ (\E t \in Tokens, stops \in BOOLEAN : SampleItem(t, stops))
       \/ (\E s \in Seqs : AbortRunning(s))
  <2>1. CASE UNCHANGED schedulerVars
    BY <2>1 DEF schedulerVars
  <2>2. CASE ScheduleStep
    BY <2>2 DEF ScheduleStep, DecodeSkip, DecodeGiveUp, EndDecode,
                AdmissionGiveUp, NothingToPrefill, ScheduleChunk, EndPrefill
  <2>3. CASE FinalizeStep
    BY <2>3 DEF FinalizeStep, FinalizeKeep, FinalizeEnd
  <2>4. CASE CallerStep
    BY <2>4 DEF CallerStep, StartSchedule, AwaitWork, SkipEmptyStep, RunModel,
                CountEnd, SampleSkip, SampleEnd, schedulerVars
  <2>5. ASSUME NEW s \in Seqs, Request(s)
        PROVE  UNCHANGED poolVars \/ AbortRunning(s)
    BY <2>5 DEF Request, Add, AbortWaiting
  <2> QED BY <2>1, <2>2, <2>3, <2>4, <2>5 DEF SchedulerNext, SchedulerStep
<1> QED BY <1>1, <1>2, <1>3, <1>4, <1>5, <1>6, <1>7, <1>8, <1>9, <1>10, <1>11,
           <1>12, <1>13, <1>14

-----------------------------------------------------------------------------
(* Types. *)

\* A status and, with Finish, a reason are set for sequences only.
LEMMA StatusTyped ==
    ASSUME QueueTypes, NEW s \in Seqs
    PROVE  /\ \A new \in Statuses : SetStatus(s, new) => status' \in [Seqs -> Statuses]
           /\ \A reason \in FinishReasons : Finish(s, reason) =>
                 /\ status' \in [Seqs -> Statuses]
                 /\ finishReason' \in [Seqs -> FinishReasons]
<1>1. \A new \in Statuses : SetStatus(s, new) => status' \in [Seqs -> Statuses]
  BY DEF QueueTypes, SetStatus
<1>2. "FINISHED" \in Statuses
  BY DEF Statuses
<1>3. \A reason \in FinishReasons :
         Finish(s, reason) => finishReason' \in [Seqs -> FinishReasons]
  BY DEF QueueTypes, Finish
<1> QED BY <1>1, <1>2, <1>3 DEF Finish

LEMMA PreemptTyped ==
    ASSUME QueueTypes, running # <<>>, PreemptOne
    PROVE  /\ waiting' \in Seq(Seqs)
           /\ running' \in Seq(Seqs)
           /\ status' \in [Seqs -> Statuses]
           /\ finishReason' \in [Seqs -> FinishReasons]
           /\ preempted' \subseteq Seqs
<1> DEFINE victim == Last(running)
<1>1. victim \in Seqs /\ Front(running) \in Seq(Seqs)
  BY Heads
<1>2. status' \in [Seqs -> Statuses]
  BY <1>1, StatusTyped DEF PreemptOne, Statuses
<1>3. /\ waiting' = <<victim>> \o waiting
      /\ running' = Front(running)
      /\ preempted' = preempted \cup {victim}
      /\ finishReason' = finishReason
  BY DEF PreemptOne
<1> HIDE DEF victim
<1> QED BY <1>1, <1>2, <1>3 DEF QueueTypes

LEMMA StartTyped ==
    ASSUME QueueTypes, waiting # <<>>, StartRunning
    PROVE  /\ waiting' \in Seq(Seqs)
           /\ running' \in Seq(Seqs)
           /\ status' \in [Seqs -> Statuses]
           /\ finishReason' \in [Seqs -> FinishReasons]
           /\ active' \in Nat
<1>1. Head(waiting) \in Seqs /\ Tail(waiting) \in Seq(Seqs)
  BY Heads
<1>2. status' \in [Seqs -> Statuses]
  BY <1>1, StatusTyped DEF StartRunning, Statuses
<1> QED BY <1>1, <1>2 DEF StartRunning, QueueTypes

LEMMA AppendTyped ==
    ASSUME NEW S, NEW q \in Seq(S), NEW x \in S
    PROVE  Append(q, x) \in Seq(S)
OBVIOUS

\* The queues under the requests.
LEMMA RequestTyped ==
    ASSUME QueueTypes, QueuesOK, NEW s \in Seqs, Request(s)
    PROVE  QueueTypes'
<1>1. CASE Add(s)
  <2>1. status' \in [Seqs -> Statuses]
    BY <1>1, StatusTyped DEF Add, Statuses
  <2> QED BY <1>1, <2>1 DEF Add, QueueTypes, stepVars
<1>2. ASSUME AbortWaiting(s) \/ AbortRunning(s) PROVE QueueTypes'
  <2>1. status' \in [Seqs -> Statuses] /\ finishReason' \in [Seqs -> FinishReasons]
    BY <1>2, StatusTyped DEF AbortWaiting, AbortRunning, FinishReasons
  <2>2. waiting' \in Seq(Seqs) /\ running' \in Seq(Seqs)
    BY <1>2, WithoutAny DEF AbortWaiting, AbortRunning, QueueTypes, QueuesOK
  <2> QED BY <1>2, <2>1, <2>2
          DEF AbortWaiting, AbortRunning, QueueTypes, stepVars
<1> QED BY <1>1, <1>2 DEF Request

LEMMA ScheduleTyped ==
    ASSUME PoolInv, QueueTypes, StepOK, ScheduleStep
    PROVE  QueueTypes'
<1>1. CASE DecodeSkip
  BY <1>1, Heads DEF DecodeSkip, QueueTypes, queueVars
<1>2. CASE DecodeSchedule
  <2>1. /\ todo # <<>> /\ budget > 0
        /\ pc' = "decode" /\ pc' \in Steps
        /\ budget' = budget - 1
        /\ todo' = Tail(todo)
        /\ scheduled' = Append(scheduled, Item(Head(todo), 1, FALSE))
        /\ UNCHANGED <<queueVars, active, preempted, rest>>
    BY <1>2 DEF DecodeSchedule, DecodeTurn, StepOK, Steps
  <2>2. Head(todo) \in Seqs /\ Tail(todo) \in Seq(Seqs)
    BY <2>1, Heads
  <2>3. Item(Head(todo), 1, FALSE) \in Items
    BY <2>2 DEF Item, Items
  <2>4. scheduled' \in Seq(Items)
    BY <2>1, <2>3, AppendTyped DEF QueueTypes
  <2>5. budget' \in Nat
    BY <2>1 DEF QueueTypes
  <2> QED BY <2>1, <2>2, <2>4, <2>5 DEF QueueTypes, queueVars
<1>3. CASE DecodePreempt
  <2>1. /\ running # <<>> /\ PreemptOne /\ todo # <<>>
        /\ pc' \in {"decode", "retry"} /\ todo' \in {todo, Tail(todo)}
        /\ UNCHANGED <<budget, active, scheduled, rest>>
    BY <1>3 DEF DecodePreempt, DecodeTurn
  <2> QED BY <2>1, PreemptTyped, Heads DEF QueueTypes, Steps
<1>4. CASE DecodeGiveUp
  <2>1. todo # <<>>
    BY <1>4 DEF DecodeGiveUp, StepOK
  <2> QED BY <1>4, <2>1, Heads DEF DecodeGiveUp, QueueTypes, queueVars, Steps
<1>5. CASE EndDecode
  <2>1. Cardinality({i \in DOMAIN running : status[running[i]] # "FINISHED"}) \in Nat
    <3>1. DOMAIN running = 1 .. Len(running) /\ Len(running) \in Nat
      BY DEF QueueTypes
    <3>2. IsFiniteSet(1 .. Len(running))
      BY <3>1, FS_Interval
    <3>3. IsFiniteSet({i \in DOMAIN running : status[running[i]] # "FINISHED"})
      BY <3>1, <3>2, FS_Subset
    <3> QED BY <3>3, FS_CardinalityType
  <2> QED BY <1>5, <2>1 DEF EndDecode, QueueTypes, queueVars, Steps
<1>6. CASE AdmitHead
  <2>1. status' \in [Seqs -> Statuses]
    BY <1>6, Heads, StatusTyped DEF AdmitHead, NeedsAdmission, PrefillTurn, Statuses
  <2> QED BY <1>6, <2>1 DEF AdmitHead, QueueTypes, stepVars
<1>7. CASE PreemptForAdmission
  BY <1>7, PreemptTyped DEF PreemptForAdmission, QueueTypes
<1>8. CASE AdmissionGiveUp
  BY <1>8 DEF AdmissionGiveUp, QueueTypes, queueVars, stepVars, Steps
<1>9. CASE PlanChunk
  BY <1>9 DEF PlanChunk, QueueTypes, queueVars, stepVars, Steps
<1>10. CASE NothingToPrefill
  BY <1>10, StartTyped DEF NothingToPrefill, PrefillTurn, QueueTypes
<1>11. CASE ScheduleChunk
  <2> DEFINE s == Head(waiting)
             n == ChunkOf(s)
  <2>1. /\ waiting # <<>> /\ n > 0
        /\ scheduled' = Append(scheduled, Item(s, n, TRUE))
        /\ budget' = budget - n
        /\ \/ StartRunning /\ pc' = "prefill"
           \/ pc' = "scheduled" /\ UNCHANGED <<queueVars, active>>
        /\ UNCHANGED <<todo, preempted, rest>>
    BY <1>11 DEF ScheduleChunk, StepOK
  <2>2. s \in Seqs /\ n \in Nat \ {0} /\ budget - n \in Nat
    BY <2>1, Heads, ChunkBounds DEF PoolInv
  <2>3. Item(s, n, TRUE) \in Items
    BY <2>2 DEF Item, Items
  <2>4. /\ waiting' \in Seq(Seqs)
        /\ running' \in Seq(Seqs)
        /\ status' \in [Seqs -> Statuses]
        /\ finishReason' \in [Seqs -> FinishReasons]
        /\ active' \in Nat
        /\ pc' \in Steps
    BY <2>1, StartTyped DEF QueueTypes, queueVars, Steps
  <2>5. scheduled' \in Seq(Items)
    BY <2>1, <2>3, AppendTyped DEF QueueTypes
  <2> HIDE DEF s, n
  <2> QED BY <2>1, <2>2, <2>4, <2>5 DEF QueueTypes
<1>12. CASE EndPrefill
  BY <1>12 DEF EndPrefill, QueueTypes, queueVars, stepVars, Steps
<1> QED BY <1>1, <1>2, <1>3, <1>4, <1>5, <1>6, <1>7, <1>8, <1>9, <1>10, <1>11,
           <1>12 DEF ScheduleStep

LEMMA FinalizeTyped ==
    ASSUME QueueTypes, StepOK, QueuesOK, FinalizeStep
    PROVE  QueueTypes'
<1>1. CASE FinalizeRegister
  BY <1>1 DEF FinalizeRegister, QueueTypes, queueVars, stepVars, Steps
<1>2. CASE FinalizeKeep
  <2>1. rest # <<>>
    BY <1>2 DEF FinalizeKeep, StepOK
  <2> QED BY <1>2, <2>1, Heads DEF FinalizeKeep, QueueTypes, queueVars, Steps
<1>3. CASE FinalizeRelease
  <2>1. rest # <<>>
    BY <1>3 DEF FinalizeRelease, StepOK
  <2>2. running' \in Seq(Seqs)
    BY <1>3, WithoutAny DEF FinalizeRelease, QueueTypes, QueuesOK
  <2> QED BY <1>3, <2>1, <2>2, Heads DEF FinalizeRelease, QueueTypes, Steps
<1>4. CASE FinalizeEnd
  BY <1>4 DEF FinalizeEnd, QueueTypes, queueVars, stepVars, Steps
<1> QED BY <1>1, <1>2, <1>3, <1>4 DEF FinalizeStep

LEMMA CallerTyped ==
    ASSUME QueueTypes, CallerStep
    PROVE  QueueTypes'
<1>1. CASE StartSchedule
  BY <1>1, SchedulerConstants DEF StartSchedule, QueueTypes, queueVars, Steps
<1>2. CASE AwaitWork
  BY <1>2 DEF AwaitWork, QueueTypes, schedulerVars, queueVars, stepVars
<1>3. CASE SkipEmptyStep
  BY <1>3 DEF SkipEmptyStep, QueueTypes, queueVars, stepVars, Steps
<1>4. CASE RunModel \/ CountEnd \/ SampleEnd
  BY <1>4 DEF RunModel, CountEnd, SampleEnd, QueueTypes, queueVars, Steps
<1>5. CASE Crash
  BY <1>5 DEF Crash, QueueTypes, queueVars, stepVars, Steps
<1>6. CASE CountItem \/ SampleSkip
  BY <1>6, Heads DEF CountItem, SampleSkip, QueueTypes, queueVars
<1>7. ASSUME NEW t \in Tokens, NEW stops \in BOOLEAN, SampleItem(t, stops)
      PROVE  QueueTypes'
  <2>1. status' \in [Seqs -> Statuses] /\ finishReason' \in [Seqs -> FinishReasons]
    BY <1>7, Heads, StatusTyped DEF SampleItem, FinishReasons, QueueTypes
  <2> QED BY <1>7, <2>1, Heads DEF SampleItem, QueueTypes
<1> QED BY <1>1, <1>2, <1>3, <1>4, <1>5, <1>6, <1>7 DEF CallerStep

LEMMA TypesStep ==
    ASSUME PoolInv, QueueTypes, StepOK, QueuesOK, [SchedulerNext]_schedulerVars
    PROVE  QueueTypes'
<1>1. CASE UNCHANGED schedulerVars
  BY <1>1 DEF QueueTypes, schedulerVars, queueVars, stepVars
<1>2. CASE BlockManagerStep
  BY <1>2 DEF BlockManagerStep, QueueTypes, queueVars, stepVars
<1> QED BY <1>1, <1>2, ScheduleTyped, FinalizeTyped, CallerTyped, RequestTyped
        DEF SchedulerNext, SchedulerStep

-----------------------------------------------------------------------------
(* Where a step stands. *)

\* A call in the middle of planning a chunk can only be that of
\* ensure_blocks_for_chunk: it touches no count of computed tokens, and
\* tables only grow under it.
LEMMA EnsureCall ==
    ASSUME PoolInv, QueueTypes, BlockManagerStep, call.op \in {"none", "ensure"}
    PROVE  /\ call.op = "ensure"
           /\ call'.op \in {"none", "ensure"}
           /\ UNCHANGED <<prompt, output, numComputed, queueVars, pc, stepVars>>
           /\ \A s \in Seqs : Len(blockTable'[s]) >= Len(blockTable[s])
<1>1. EnsureTake \/ EnsureExit
  BY DEF BlockManagerStep, CallStep, AdmitHit, AdmitMiss, AdmitFinish, FreeRelease,
         FreeClear, RegisterSkip, RegisterBlock, RegisterReturn
<1>2. /\ blockTable \in [Seqs -> Seq(Blocks)]
      /\ call.op = "ensure"
      /\ call.seq \in Seqs
  BY <1>1 DEF PoolInv, PoolTypeOK, EnsureTake, EnsureExit
<1>3. CASE EnsureTake
  <2>1. /\ UNCHANGED <<prompt, output, numComputed, call>>
        /\ blockTable' = [blockTable EXCEPT ![call.seq] = Append(@, NextFree(pool))]
    BY <1>3 DEF EnsureTake, GrowTable
  <2>2. \A s \in Seqs : Len(blockTable'[s]) >= Len(blockTable[s])
    BY <1>2, <2>1
  <2> QED BY <1>2, <2>1, <2>2 DEF BlockManagerStep
<1>4. CASE EnsureExit
  <2>1. call'.op = "none" /\ UNCHANGED seqVars
    BY <1>4, IdleFields DEF EnsureExit
  <2>2. \A s \in Seqs : Len(blockTable'[s]) >= Len(blockTable[s])
    BY <1>2, <2>1 DEF seqVars
  <2> QED BY <1>2, <2>1, <2>2 DEF BlockManagerStep, seqVars
<1> QED BY <1>1, <1>3, <1>4

LEMMA StepOKStep ==
    ASSUME PoolInv, QueueTypes, StepOK, [SchedulerNext]_schedulerVars
    PROVE  StepOK'
<1>1. ASSUME pc' \notin {"scheduled", "count", "sample", "crashed", "retry",
                         "release", "ensure"}
      PROVE  StepOK'
  BY <1>1 DEF StepOK
<1>2. CASE UNCHANGED schedulerVars
  BY <1>2 DEF StepOK, schedulerVars, poolVars, seqVars, queueVars, stepVars,
              ChunkOf, NumUncomputedPromptTokens, PromptLen
<1>3. CASE BlockManagerStep
  <2>1. UNCHANGED <<waiting, pc, todo, budget, active, rest>>
    BY <1>3 DEF BlockManagerStep, queueVars, stepVars
  <2>2. CASE pc \in {"scheduled", "count", "sample", "crashed"}
    <3>1. call.op = "none" /\ call = Idle
      BY <2>2, IdleFields DEF StepOK
    <3>2. FALSE
      BY <1>3, <3>1 DEF BlockManagerStep, CallStep, AdmitHit, AdmitMiss, AdmitFinish,
                EnsureTake, EnsureExit, FreeRelease, FreeClear, RegisterSkip,
                RegisterBlock, RegisterReturn
    <3> QED BY <3>2
  <2>3. CASE pc = "ensure"
    <3>1. /\ call'.op \in {"none", "ensure"}
          /\ UNCHANGED <<prompt, numComputed>>
          /\ Len(blockTable'[Head(waiting)]) >= Len(blockTable[Head(waiting)])
          /\ blockTable' \in [Seqs -> Seq(Blocks)]
          /\ blockTable \in [Seqs -> Seq(Blocks)]
          /\ Head(waiting) \in Seqs
      BY <1>3, <2>3, EnsureCall, PoolStep, Heads
         DEF StepOK, PoolInv, PoolTypeOK, SchedulerNext, SchedulerStep
    <3>2. blockTable'[Head(waiting)] # <<>>
      BY <2>3, <3>1 DEF StepOK
    <3> QED BY <2>1, <2>3, <3>1, <3>2
            DEF StepOK, ChunkOf, NumUncomputedPromptTokens, PromptLen
  <2>4. CASE pc \in {"retry", "release"}
    BY <2>1, <2>4 DEF StepOK
  <2> QED BY <2>1, <2>2, <2>3, <2>4, <1>1
<1>4. CASE DecodePreempt
  BY <1>4 DEF DecodePreempt, DecodeTurn, StepOK
<1>5. CASE PlanChunk
  <2>1. /\ pc' = "ensure" /\ call'.op = "ensure"
        /\ UNCHANGED <<prompt, numComputed, blockTable, waiting, active, budget>>
    BY <1>5, CallFields DEF PlanChunk, EnsureBlocksForChunk, Begin, seqVars,
                            queueVars, stepVars
  <2> QED BY <1>5, <2>1 DEF PlanChunk, PrefillTurn, StepOK, ChunkOf,
                            NumUncomputedPromptTokens, PromptLen
<1>6. CASE AdmissionGiveUp \/ EndPrefill \/ ScheduleChunk
  BY <1>6 DEF AdmissionGiveUp, EndPrefill, ScheduleChunk, NeedsAdmission, PrefillTurn,
              StepOK, poolVars
<1>7. CASE DecodeSkip \/ DecodeSchedule \/ DecodeGiveUp \/ EndDecode \/ AdmitHead
           \/ PreemptForAdmission \/ NothingToPrefill
  BY <1>1, <1>7 DEF DecodeSkip, DecodeSchedule, DecodeGiveUp, EndDecode, AdmitHead,
                    PreemptForAdmission, NothingToPrefill, NeedsAdmission, PrefillTurn,
                    stepVars
<1>8. CASE FinalizeStep
  BY <1>8 DEF FinalizeStep, FinalizeRegister, FinalizeKeep, FinalizeRelease,
              FinalizeEnd, StepOK, stepVars
<1>9. CASE CallerStep
  <2>1. ASSUME NEW t \in Tokens, NEW stops \in BOOLEAN, SampleItem(t, stops)
        PROVE  StepOK'
    BY <2>1 DEF SampleItem, StepOK
  <2>2. CASE StartSchedule \/ AwaitWork \/ SkipEmptyStep \/ SampleEnd
    BY <1>1, <2>2 DEF StartSchedule, AwaitWork, SkipEmptyStep, SampleEnd,
                      schedulerVars
  <2>3. CASE RunModel \/ CountItem \/ CountEnd \/ SampleSkip \/ Crash
    BY <2>3 DEF RunModel, CountItem, CountEnd, SampleSkip, Crash, StepOK, poolVars
  <2> QED BY <1>9, <2>1, <2>2, <2>3 DEF CallerStep
<1>10. ASSUME NEW s \in Seqs, Request(s) PROVE StepOK'
  BY <1>1, <1>10 DEF Request, Add, AbortWaiting, AbortRunning
<1> QED BY <1>2, <1>3, <1>4, <1>5, <1>6, <1>7, <1>8, <1>9, <1>10
        DEF SchedulerNext, SchedulerStep, ScheduleStep

-----------------------------------------------------------------------------
(* The queues. *)

\* The status of one sequence changes, to a status its queue allows.
LEMMA StatusMoves ==
    ASSUME QueueTypes, QueuesOK, NEW s \in Seqs, NEW new,
           status' = [status EXCEPT ![s] = new], new # "NONE",
           NoDuplicates(waiting'), NoDuplicates(running'),
           \A q \in Seqs \ {s} : /\ Contains(waiting', q) <=> Contains(waiting, q)
                                 /\ Contains(running', q) <=> Contains(running, q),
           ~(Contains(waiting', s) /\ Contains(running', s)),
           new = "RUNNING" => Contains(running', s),
           new \in {"WAITING", "PREFILLING", "PREEMPTED"} => Contains(waiting', s)
    PROVE  QueuesOK'
<1>1. status'[s] = new /\ \A q \in Seqs \ {s} : status'[q] = status[q]
  BY DEF QueueTypes
<1>2. ASSUME NEW q \in Seqs
      PROVE  /\ ~(Contains(waiting', q) /\ Contains(running', q))
             /\ Contains(waiting', q) \/ Contains(running', q) => status'[q] # "NONE"
             /\ status'[q] = "RUNNING" => Contains(running', q)
             /\ status'[q] \in {"WAITING", "PREFILLING", "PREEMPTED"}
                   => Contains(waiting', q)
  <2>1. CASE q = s
    BY <1>1, <2>1
  <2>2. CASE q # s
    BY <1>1, <2>2 DEF QueuesOK
  <2> QED BY <2>1, <2>2
<1> QED BY <1>2 DEF QueuesOK

LEMMA PreemptQueues ==
    ASSUME QueueTypes, QueuesOK, running # <<>>, PreemptOne
    PROVE  QueuesOK'
<1> DEFINE victim == Last(running)
<1>1. /\ status' = [status EXCEPT ![victim] = "PREEMPTED"]
      /\ waiting' = <<victim>> \o waiting
      /\ running' = Front(running)
  BY DEF PreemptOne, SetStatus
<1>2. /\ victim \in Seqs /\ Contains(running, victim) /\ NoDuplicates(running')
      /\ \A q : Contains(running', q) <=> Contains(running, q) /\ q # victim
  BY <1>1, Heads, ContainsFront DEF QueueTypes, QueuesOK
<1>3. ~Contains(waiting, victim)
  BY <1>2 DEF QueuesOK
<1>4. /\ NoDuplicates(waiting')
      /\ \A q : Contains(waiting', q) <=> Contains(waiting, q) \/ q = victim
  BY <1>1, <1>2, <1>3, ContainsCons DEF QueueTypes, QueuesOK
<1> HIDE DEF victim
<1> QED BY <1>1, <1>2, <1>4, StatusMoves

LEMMA StartQueues ==
    ASSUME QueueTypes, QueuesOK, waiting # <<>>, StartRunning
    PROVE  QueuesOK'
<1> DEFINE s == Head(waiting)
<1>1. /\ status' = [status EXCEPT ![s] = "RUNNING"]
      /\ waiting' = Tail(waiting)
      /\ running' = Append(running, s)
  BY DEF StartRunning, SetStatus
<1>2. /\ s \in Seqs /\ NoDuplicates(waiting')
      /\ \A q : Contains(waiting', q) <=> Contains(waiting, q) /\ q # s
  BY <1>1, Heads, ContainsTail DEF QueueTypes, QueuesOK
<1>3. Contains(waiting, s) /\ ~Contains(running, s)
  <2>1. Contains(waiting, s)
    BY HeadTail DEF QueueTypes, Contains
  <2> QED BY <1>2, <2>1 DEF QueuesOK
<1>4. /\ NoDuplicates(running')
      /\ \A q : Contains(running', q) <=> Contains(running, q) \/ q = s
  BY <1>1, <1>2, <1>3, ContainsAppend DEF QueueTypes, QueuesOK
<1> HIDE DEF s
<1> QED BY <1>1, <1>2, <1>4, StatusMoves

LEMMA RequestQueues ==
    ASSUME QueueTypes, QueuesOK, NEW s \in Seqs, Request(s)
    PROVE  QueuesOK'
<1>1. CASE Add(s)
  <2>1. /\ status' = [status EXCEPT ![s] = "WAITING"]
        /\ waiting' = Append(waiting, s) /\ running' = running
        /\ ~Contains(waiting, s) /\ ~Contains(running, s)
    BY <1>1 DEF Add, SetStatus, QueuesOK
  <2>2. /\ NoDuplicates(waiting')
        /\ \A q : Contains(waiting', q) <=> Contains(waiting, q) \/ q = s
    BY <2>1, ContainsAppend DEF QueueTypes, QueuesOK
  <2>3. NoDuplicates(running')
    BY <2>1 DEF QueuesOK
  <2> QED BY <2>1, <2>2, <2>3, StatusMoves
<1>2. ASSUME AbortWaiting(s) \/ AbortRunning(s) PROVE QueuesOK'
  <2>1. /\ status' = [status EXCEPT ![s] = "FINISHED"]
        /\ waiting' \in {waiting, Without(waiting, s)}
        /\ running' \in {running, Without(running, s)}
    BY <1>2 DEF AbortWaiting, AbortRunning, Finish, SetStatus
  <2>2. /\ NoDuplicates(waiting') /\ NoDuplicates(running')
        /\ \A q \in Seqs \ {s} : /\ Contains(waiting', q) <=> Contains(waiting, q)
                                 /\ Contains(running', q) <=> Contains(running, q)
        /\ ~(Contains(waiting', s) /\ Contains(running', s))
    BY <2>1, WithoutAny DEF QueueTypes, QueuesOK
  <2> QED BY <2>1, <2>2, StatusMoves
<1> QED BY <1>1, <1>2 DEF Request

LEMMA QueuesStep ==
    ASSUME QueueTypes, StepOK, QueuesOK, [SchedulerNext]_schedulerVars
    PROVE  QueuesOK'
<1>1. CASE UNCHANGED <<waiting, running, status>>
  BY <1>1 DEF QueuesOK
<1>2. CASE DecodePreempt \/ PreemptForAdmission
  BY <1>2, PreemptQueues DEF DecodePreempt, PreemptForAdmission
<1>3. CASE NothingToPrefill
  BY <1>3, StartQueues DEF NothingToPrefill, PrefillTurn
<1>4. CASE ScheduleChunk
  <2>1. waiting # <<>>
    BY <1>4 DEF ScheduleChunk, StepOK
  <2>2. StartRunning \/ UNCHANGED <<waiting, running, status>>
    BY <1>4 DEF ScheduleChunk, queueVars
  <2> QED BY <2>1, <2>2, <1>1, StartQueues
<1>5. CASE AdmitHead
  <2> DEFINE s == Head(waiting)
  <2>1. /\ status' = [status EXCEPT ![s] = "PREFILLING"]
        /\ UNCHANGED <<waiting, running>>
        /\ waiting # <<>>
    BY <1>5 DEF AdmitHead, SetStatus, NeedsAdmission, PrefillTurn
  <2>2. s \in Seqs /\ Contains(waiting, s)
    BY <2>1, HeadTail DEF QueueTypes, Contains
  <2>3. NoDuplicates(waiting') /\ NoDuplicates(running')
    BY <2>1 DEF QueuesOK
  <2>4. ~(Contains(waiting', s) /\ Contains(running', s))
    BY <2>1, <2>2 DEF QueuesOK
  <2> HIDE DEF s
  <2> QED BY <2>1, <2>2, <2>3, <2>4, StatusMoves
<1>6. CASE FinalizeRelease
  <2> DEFINE s == Head(rest).seq
  <2>1. /\ s \in Seqs /\ status[s] = "FINISHED"
        /\ running' = Without(running, s)
        /\ UNCHANGED <<waiting, status>>
    BY <1>6, Heads DEF FinalizeRelease, StepOK
  <2>2. /\ NoDuplicates(running')
        /\ \A q : Contains(running', q) <=> Contains(running, q) /\ q # s
    BY <2>1, WithoutAny DEF QueueTypes, QueuesOK
  <2> HIDE DEF s
  <2>3. ASSUME NEW q \in Seqs
        PROVE  /\ ~(Contains(waiting', q) /\ Contains(running', q))
               /\ Contains(waiting', q) \/ Contains(running', q) => status'[q] # "NONE"
               /\ status'[q] = "RUNNING" => Contains(running', q)
               /\ status'[q] \in {"WAITING", "PREFILLING", "PREEMPTED"}
                     => Contains(waiting', q)
    BY <2>1, <2>2 DEF QueuesOK
  <2>4. NoDuplicates(waiting')
    BY <2>1 DEF QueuesOK
  <2> QED BY <2>2, <2>3, <2>4 DEF QueuesOK
<1>7. ASSUME NEW t \in Tokens, NEW stops \in BOOLEAN, SampleItem(t, stops)
      PROVE  QueuesOK'
  <2> DEFINE s == Head(rest).seq
  <2>1. /\ s \in Seqs /\ UNCHANGED <<waiting, running>>
        /\ status' = [status EXCEPT ![s] = "FINISHED"] \/ UNCHANGED status
    BY <1>7, Heads DEF SampleItem, Finish, SetStatus
  <2>2. NoDuplicates(waiting') /\ NoDuplicates(running')
    BY <2>1 DEF QueuesOK
  <2>3. ~(Contains(waiting', s) /\ Contains(running', s))
    BY <2>1 DEF QueuesOK
  <2> HIDE DEF s
  <2> QED BY <1>1, <2>1, <2>2, <2>3, StatusMoves
<1>8. UNCHANGED <<waiting, running, status>> \/ DecodePreempt \/ PreemptForAdmission
      \/ NothingToPrefill \/ ScheduleChunk \/ AdmitHead \/ FinalizeRelease
      \/ (\E t \in Tokens, stops \in BOOLEAN : SampleItem(t, stops))
      \/ (\E s \in Seqs : Request(s))
  <2>1. CASE UNCHANGED schedulerVars
    BY <2>1 DEF schedulerVars, queueVars
  <2>2. CASE ScheduleStep
    BY <2>2 DEF ScheduleStep, DecodeSkip, DecodeSchedule, DecodeGiveUp, EndDecode,
                AdmissionGiveUp, PlanChunk, EndPrefill, queueVars
  <2>3. CASE FinalizeStep
    BY <2>3 DEF FinalizeStep, FinalizeRegister, FinalizeKeep, FinalizeEnd, queueVars
  <2>4. CASE CallerStep
    BY <2>4 DEF CallerStep, StartSchedule, AwaitWork, SkipEmptyStep, RunModel, Crash,
                CountItem, CountEnd, SampleSkip, SampleEnd, schedulerVars, queueVars
  <2> QED BY <2>1, <2>2, <2>3, <2>4
          DEF SchedulerNext, SchedulerStep, BlockManagerStep, queueVars
<1> QED BY <1>1, <1>2, <1>3, <1>4, <1>5, <1>6, <1>7, <1>8, RequestQueues

-----------------------------------------------------------------------------
(* What sampling and releasing leave in the queues and in the tables. *)

\* Outside of the block manager's own steps, a call is in progress only for
\* a caller that crashes.
LEMMA CallerWaits ==
    ASSUME StepOK, [SchedulerNext]_schedulerVars
    PROVE  UNCHANGED schedulerVars \/ BlockManagerStep \/ Crash \/ call = Idle
<1>1. ASSUME ScheduleStep PROVE call = Idle
  BY <1>1 DEF ScheduleStep, DecodeSkip, DecodeSchedule, DecodePreempt, DecodeGiveUp,
              EndDecode, AdmitHead, PreemptForAdmission, AdmissionGiveUp, PlanChunk,
              NothingToPrefill, ScheduleChunk, EndPrefill, PreemptOne, AppendSlot,
              Admit, EnsureBlocksForChunk, Free, NeedsAdmission, PrefillTurn
<1>2. ASSUME FinalizeStep PROVE call = Idle
  BY <1>2 DEF FinalizeStep, FinalizeRegister, FinalizeKeep, FinalizeRelease,
              FinalizeEnd, RegisterFilledBlocks, Free
<1>3. ASSUME CallerStep PROVE Crash \/ call = Idle
  BY <1>3 DEF CallerStep, StartSchedule, AwaitWork, SkipEmptyStep, RunModel, CountItem,
              CountEnd, SampleItem, SampleSkip, SampleEnd, StepOK
<1>4. ASSUME NEW s \in Seqs, Request(s) PROVE call = Idle
  BY <1>4 DEF Request
<1> QED BY <1>1, <1>2, <1>3, <1>4 DEF SchedulerNext, SchedulerStep

LEMMA InItemsTail ==
    ASSUME NEW items \in Seq(Items), items # <<>>, NEW s, InItems(items, s)
    PROVE  s = Head(items).seq \/ InItems(Tail(items), s)
<1>1. PICK k \in 1 .. Len(items) : items[k].seq = s
  BY DEF InItems
<1>2. CASE k = 1
  BY <1>1, <1>2, HeadTail
<1>3. CASE k # 1
  <2>1. k - 1 \in 1 .. Len(items) - 1 /\ (k - 1) + 1 = k
    BY <1>1, <1>3
  <2>2. Tail(items)[k - 1] = items[k] /\ k - 1 \in DOMAIN Tail(items)
    BY <2>1, HeadTail
  <2> QED BY <1>1, <2>2 DEF InItems
<1> QED BY <1>2, <1>3

\* A finished sequence waits for its release until finalize_step reaches it.
LEMMA ReleasingStep ==
    ASSUME QueueTypes, StepOK, [SchedulerNext]_schedulerVars,
           NEW s \in Seqs, status[s] = "FINISHED", Releasing(s)
    PROVE  Releasing(s)' \/ (FinalizeRelease /\ s = Head(rest).seq)
<1>1. CASE UNCHANGED <<pc, scheduled, rest>>
  BY <1>1 DEF Releasing, InItems
<1>2. CASE CallerStep
  <2>1. CASE SampleSkip \/ \E t \in Tokens, stops \in BOOLEAN : SampleItem(t, stops)
    BY <2>1 DEF SampleSkip, SampleItem, Releasing, InItems
  <2>2. CASE SampleEnd
    BY <2>2 DEF SampleEnd, Releasing, InItems
  <2>3. CASE Crash
    BY <2>3 DEF Crash, Releasing
  <2> QED BY <1>1, <1>2, <2>1, <2>2, <2>3
          DEF CallerStep, StartSchedule, AwaitWork, SkipEmptyStep, RunModel,
              CountItem, CountEnd, Releasing, schedulerVars, stepVars
<1>3. CASE FinalizeStep
  <2>1. CASE FinalizeRegister
    BY <2>1 DEF FinalizeRegister, Releasing, InItems, stepVars
  <2>2. CASE FinalizeKeep
    <3>1. /\ pc = "release" /\ pc' = "finalize" /\ rest # <<>> /\ rest' = Tail(rest)
          /\ s # Head(rest).seq
      BY <2>2 DEF FinalizeKeep, StepOK
    <3>2. InItems(rest, s)
      BY <3>1 DEF Releasing
    <3>3. InItems(Tail(rest), s)
      BY <3>1, <3>2, InItemsTail DEF QueueTypes
    <3> QED BY <3>1, <3>3 DEF Releasing, InItems
  <2>3. CASE FinalizeRelease /\ s # Head(rest).seq
    <3>1. /\ pc = "release" /\ pc' = "finalize" /\ rest # <<>> /\ rest' = Tail(rest)
          /\ s # Head(rest).seq
      BY <2>3 DEF FinalizeRelease, StepOK
    <3>2. InItems(rest, s)
      BY <3>1 DEF Releasing
    <3>3. InItems(Tail(rest), s)
      BY <3>1, <3>2, InItemsTail DEF QueueTypes
    <3> QED BY <3>1, <3>3 DEF Releasing, InItems
  <2>4. CASE FinalizeEnd
    BY <2>4 DEF FinalizeEnd, Releasing, InItems
  <2> QED BY <1>3, <2>1, <2>2, <2>3, <2>4 DEF FinalizeStep
<1>4. CASE ScheduleStep
  BY <1>4 DEF ScheduleStep, DecodeSkip, DecodeSchedule, DecodeTurn, DecodePreempt,
              DecodeGiveUp, EndDecode, AdmitHead, PreemptForAdmission,
              AdmissionGiveUp, PlanChunk, NothingToPrefill, ScheduleChunk,
              EndPrefill, NeedsAdmission, PrefillTurn, Releasing
<1> QED BY <1>1, <1>2, <1>3, <1>4
        DEF SchedulerNext, SchedulerStep, BlockManagerStep, Request, Add,
            AbortWaiting, AbortRunning, schedulerVars, stepVars

\* A sequence finishes when its token is sampled, or by an abort.
LEMMA Finishes ==
    ASSUME QueueTypes, StepOK, [SchedulerNext]_schedulerVars, NEW s \in Seqs,
           status'[s] = "FINISHED",
           status[s] # "FINISHED" \/ finishReason'[s] # finishReason[s]
    PROVE  \/ /\ pc = "sample" /\ pc' = "sample" /\ rest # <<>>
              /\ s = Head(rest).seq
              /\ UNCHANGED <<scheduled, call>>
           \/ /\ AbortWaiting(s) \/ AbortRunning(s)
              /\ finishReason'[s] = "abort"
<1>1. /\ status \in [Seqs -> Statuses] /\ finishReason \in [Seqs -> FinishReasons]
      /\ waiting # <<>> => Head(waiting) \in Seqs
      /\ running # <<>> => Last(running) \in Seqs
      /\ rest # <<>> => Head(rest).seq \in Seqs
  BY Heads DEF QueueTypes
<1>2. ASSUME running # <<>>, PreemptOne PROVE FALSE
  BY <1>1, <1>2 DEF PreemptOne, SetStatus
<1>3. ASSUME waiting # <<>>, StartRunning PROVE FALSE
  BY <1>1, <1>3 DEF StartRunning, SetStatus
<1>4. ~UNCHANGED <<status, finishReason>>
  OBVIOUS
<1>5. ~ScheduleStep
  <2>1. ~AdmitHead
    BY <1>1 DEF AdmitHead, SetStatus, NeedsAdmission, PrefillTurn
  <2> QED BY <1>2, <1>3, <1>4, <2>1
          DEF ScheduleStep, DecodeSkip, DecodeSchedule, DecodePreempt, DecodeGiveUp,
              EndDecode, PreemptForAdmission, AdmissionGiveUp, PlanChunk,
              NothingToPrefill, ScheduleChunk, EndPrefill, PrefillTurn, queueVars,
              StepOK
<1>6. ~FinalizeStep
  BY <1>4 DEF FinalizeStep, FinalizeRegister, FinalizeKeep, FinalizeRelease,
              FinalizeEnd, queueVars
<1>7. ASSUME CallerStep
      PROVE  /\ pc = "sample" /\ pc' = "sample" /\ rest # <<>>
             /\ s = Head(rest).seq
             /\ UNCHANGED <<scheduled, call>>
  <2>1. PICK t \in Tokens, stops \in BOOLEAN : SampleItem(t, stops)
    BY <1>4, <1>7 DEF CallerStep, StartSchedule, AwaitWork, SkipEmptyStep, RunModel,
                      Crash, CountItem, CountEnd, SampleSkip, SampleEnd, queueVars,
                      schedulerVars
  <2> QED BY <1>1, <2>1 DEF SampleItem, Finish, SetStatus
<1>8. ASSUME NEW q \in Seqs, Request(q)
      PROVE  (AbortWaiting(s) \/ AbortRunning(s)) /\ finishReason'[s] = "abort"
  <2>1. ~Add(q)
    BY <1>1 DEF Add, SetStatus
  <2>2. AbortWaiting(q) \/ AbortRunning(q)
    BY <1>8, <2>1 DEF Request
  <2>3. Finish(q, "abort")
    BY <2>2 DEF AbortWaiting, AbortRunning
  <2>4. s = q /\ finishReason'[s] = "abort"
    BY <1>1, <2>3 DEF Finish, SetStatus
  <2> QED BY <2>2, <2>4
<1> QED BY <1>4, <1>5, <1>6, <1>7, <1>8
        DEF SchedulerNext, SchedulerStep, BlockManagerStep, schedulerVars, queueVars

\* Only a sequence that starts to run joins running; the queue grows by one
\* then, and active_count with it.
LEMMA RunningMoves ==
    ASSUME QueueTypes, StepOK, QueuesOK, [SchedulerNext]_schedulerVars
    PROVE  \/ /\ \A s : Contains(running', s) => Contains(running, s)
              /\ Len(running') <= Len(running)
           \/ /\ waiting # <<>> /\ StartRunning
              /\ pc \in {"prefill", "ensure"} /\ active < MaxNumSeqs
<1> DEFINE Kept == /\ \A s : Contains(running', s) => Contains(running, s)
                   /\ Len(running') <= Len(running)
           Joined == /\ waiting # <<>> /\ StartRunning
                     /\ pc \in {"prefill", "ensure"} /\ active < MaxNumSeqs
<1>1. /\ running \in Seq(Seqs) /\ NoDuplicates(running) /\ Len(running) \in Nat
      /\ rest # <<>> => Head(rest).seq \in Seqs
  BY Heads DEF QueueTypes, QueuesOK
<1>2. ASSUME UNCHANGED running PROVE Kept
  BY <1>1, <1>2
<1>3. ASSUME running # <<>>, PreemptOne PROVE Kept
  <2>1. running' = Front(running)
    BY <1>3 DEF PreemptOne
  <2> QED BY <1>1, <1>3, <2>1, ContainsFront
<1>4. ASSUME NEW s, running' = Without(running, s) PROVE Kept
  BY <1>1, <1>4, WithoutAny
<1>5. ASSUME NothingToPrefill \/ ScheduleChunk PROVE UNCHANGED running \/ Joined
  BY <1>5 DEF NothingToPrefill, ScheduleChunk, PrefillTurn, StepOK, queueVars
<1> HIDE DEF Kept, Joined
<1>6. ASSUME ScheduleStep PROVE Kept \/ Joined
  BY <1>2, <1>3, <1>5, <1>6
     DEF ScheduleStep, DecodeSkip, DecodeSchedule, DecodePreempt, DecodeGiveUp,
         EndDecode, AdmitHead, PreemptForAdmission, AdmissionGiveUp, PlanChunk,
         EndPrefill, queueVars
<1>7. ASSUME FinalizeStep PROVE Kept
  BY <1>2, <1>4, <1>7 DEF FinalizeStep, FinalizeRegister, FinalizeKeep,
                          FinalizeRelease, FinalizeEnd, queueVars
<1>8. ASSUME CallerStep PROVE Kept
  BY <1>2, <1>8 DEF CallerStep, StartSchedule, AwaitWork, SkipEmptyStep, RunModel,
                    Crash, CountItem, CountEnd, SampleItem, SampleSkip, SampleEnd,
                    queueVars, schedulerVars
<1>9. ASSUME NEW s \in Seqs, Request(s) PROVE Kept
  BY <1>2, <1>4, <1>9 DEF Request, Add, AbortWaiting, AbortRunning
<1>10. Kept \/ Joined
  BY <1>2, <1>6, <1>7, <1>8, <1>9
     DEF SchedulerNext, SchedulerStep, BlockManagerStep, schedulerVars, queueVars
<1> QED BY <1>10 DEF Kept, Joined

LEMMA FinishedLeavesStep ==
    ASSUME QueueTypes, StepOK, QueuesOK, FinishedLeaves,
           [SchedulerNext]_schedulerVars
    PROVE  FinishedLeaves'
<1>1. ASSUME NEW s \in Seqs, Contains(running', s), status'[s] = "FINISHED"
      PROVE  Releasing(s)'
  <2>1. Contains(running, s)
    <3>1. CASE waiting # <<>> /\ StartRunning
      <4>1. status'[Head(waiting)] = "RUNNING" /\ Head(waiting) \in Seqs
        BY <3>1, Heads DEF StartRunning, SetStatus, QueueTypes
      <4>2. s # Head(waiting) /\ running' = Append(running, Head(waiting))
        BY <1>1, <3>1, <4>1 DEF StartRunning
      <4>3. running \in Seq(Seqs)
        BY DEF QueueTypes
      <4> QED BY <1>1, <4>1, <4>2, <4>3 DEF Contains
    <3> QED BY <1>1, <3>1, RunningMoves
  <2>2. CASE status[s] = "FINISHED"
    <3>1. Releasing(s)
      BY <2>1, <2>2 DEF FinishedLeaves
    <3>2. CASE FinalizeRelease /\ s = Head(rest).seq
      <4>1. running' = Without(running, s)
        BY <3>2 DEF FinalizeRelease
      <4> QED BY <1>1, <4>1, WithoutAny DEF QueueTypes, QueuesOK
    <3> QED BY <2>2, <3>1, <3>2, ReleasingStep
  <2>3. CASE status[s] # "FINISHED"
    <3>1. CASE pc = "sample" /\ pc' = "sample" /\ rest # <<>> /\ s = Head(rest).seq
               /\ UNCHANGED scheduled
      <4>1. 1 \in DOMAIN rest /\ rest[1].seq = s
        BY <3>1, HeadTail DEF QueueTypes
      <4>2. InItems(scheduled, s)
        BY <3>1, <4>1 DEF FinishedLeaves
      <4> QED BY <3>1, <4>2 DEF Releasing, InItems
    <3>2. CASE AbortWaiting(s)
      BY <2>1, <3>2 DEF AbortWaiting, QueuesOK
    <3>3. CASE AbortRunning(s)
      <4>1. running' = Without(running, s)
        BY <3>3 DEF AbortRunning
      <4> QED BY <1>1, <4>1, WithoutAny DEF QueueTypes, QueuesOK
    <3> QED BY <1>1, <2>3, <3>1, <3>2, <3>3, Finishes
  <2> QED BY <2>2, <2>3
<1>2. ASSUME pc' = "sample"
      PROVE  (\A k \in DOMAIN rest : InItems(scheduled, rest[k].seq))'
  <2>1. CASE UNCHANGED <<pc, scheduled, rest>>
    BY <1>2, <2>1 DEF FinishedLeaves, InItems
  <2>2. CASE CountEnd
    BY <2>2 DEF CountEnd, InItems
  <2>3. CASE SampleSkip \/ \E t \in Tokens, stops \in BOOLEAN : SampleItem(t, stops)
    <3>1. pc = "sample" /\ rest # <<>> /\ rest' = Tail(rest) /\ UNCHANGED scheduled
      BY <2>3 DEF SampleSkip, SampleItem
    <3>2. \A k \in DOMAIN rest' : k + 1 \in DOMAIN rest /\ rest'[k] = rest[k + 1]
      BY <3>1, HeadTail DEF QueueTypes
    <3>3. \A k \in DOMAIN rest' : InItems(scheduled, rest'[k].seq)
      BY <3>1, <3>2 DEF FinishedLeaves
    <3> QED BY <3>1, <3>3 DEF InItems
  <2>4. UNCHANGED <<pc, scheduled, rest>> \/ CountEnd \/ SampleSkip
        \/ \E t \in Tokens, stops \in BOOLEAN : SampleItem(t, stops)
    BY <1>2 DEF SchedulerNext, SchedulerStep, BlockManagerStep, ScheduleStep,
                DecodeSkip, DecodeSchedule, DecodeTurn, DecodePreempt, DecodeGiveUp,
                EndDecode, AdmitHead, PreemptForAdmission, AdmissionGiveUp, PlanChunk,
                NothingToPrefill, ScheduleChunk, EndPrefill, NeedsAdmission,
                PrefillTurn, FinalizeStep, FinalizeRegister, FinalizeKeep,
                FinalizeRelease, FinalizeEnd, CallerStep, StartSchedule, AwaitWork,
                SkipEmptyStep, RunModel, Crash, CountItem, SampleEnd, Request, Add,
                AbortWaiting, AbortRunning, schedulerVars, stepVars
  <2> QED BY <2>1, <2>2, <2>3, <2>4
<1> QED BY <1>1, <1>2 DEF FinishedLeaves

LEMMA ActiveStep ==
    ASSUME QueueTypes, StepOK, QueuesOK, FinishedLeaves, ActiveOK,
           QueueTypes', [SchedulerNext]_schedulerVars
    PROVE  ActiveOK'
<1>1. /\ Len(running) \in Nat /\ active \in Nat /\ MaxNumSeqs \in Nat
      /\ running \in Seq(Seqs) /\ Len(running) <= MaxNumSeqs
  BY SchedulerConstants DEF QueueTypes, ActiveOK
<1>2. CASE StartRunning /\ pc \in {"prefill", "ensure"} /\ active < MaxNumSeqs
  <2>1. Len(running') = Len(running) + 1 /\ active' = active + 1
    BY <1>1, <1>2 DEF StartRunning
  <2>2. Len(running) <= active
    BY <1>2 DEF ActiveOK
  <2> DEFINE m == Len(running)
             n == Len(running')
  <2>3. m \in Nat /\ n = m + 1 /\ m <= active
    BY <1>1, <2>1, <2>2
  <2> HIDE DEF m, n
  <2>4. n <= MaxNumSeqs /\ n <= active'
    BY <1>1, <1>2, <2>1, <2>3
  <2> QED BY <2>4 DEF ActiveOK, n
<1>3. CASE Len(running') <= Len(running) /\ ~StartRunning
  <2>1. Len(running') \in Nat
    BY DEF QueueTypes
  <2>2. Len(running') <= MaxNumSeqs
    BY <1>1, <1>3, <2>1
  <2>3. ASSUME pc' \in {"prefill", "ensure"} PROVE Len(running') <= active'
    <3>1. CASE EndDecode
      <4>1. \A i \in DOMAIN running : status[running[i]] # "FINISHED"
        <5>1. \A s \in Seqs : Contains(running, s) => status[s] # "FINISHED"
          BY <3>1 DEF EndDecode, FinishedLeaves, Releasing
        <5> QED BY <1>1, <5>1 DEF Contains
      <4>2. {i \in DOMAIN running : status[running[i]] # "FINISHED"} = 1 .. Len(running)
        BY <1>1, <4>1
      <4>3. Cardinality(1 .. Len(running)) = Len(running)
        <5>1. \A n \in Nat : Cardinality(1 .. n) = n
          BY FS_Interval
        <5> QED BY <1>1, <5>1
      <4>4. running' = running
        BY <3>1 DEF EndDecode, queueVars
      <4>5. active' = Cardinality({i \in DOMAIN running :
                                     status[running[i]] # "FINISHED"})
        BY <3>1 DEF EndDecode
      <4>6. active' = Len(running)
        BY ONLY <4>2, <4>3, <4>5
      <4> QED BY <1>1, <4>4, <4>6
    <3>2. CASE pc \in {"prefill", "ensure"} /\ UNCHANGED active
      <4>1. Len(running) <= active
        BY <3>2 DEF ActiveOK
      <4> QED BY <1>1, <1>3, <2>1, <3>2, <4>1
    <3>3. EndDecode \/ (pc \in {"prefill", "ensure"} /\ UNCHANGED active)
      BY <1>3, <2>3
         DEF SchedulerNext, SchedulerStep, BlockManagerStep, ScheduleStep,
             DecodeSkip, DecodeSchedule, DecodeTurn, DecodePreempt, DecodeGiveUp,
             AdmitHead, PreemptForAdmission, AdmissionGiveUp, PlanChunk,
             NothingToPrefill, ScheduleChunk, EndPrefill, NeedsAdmission,
             PrefillTurn, FinalizeStep, FinalizeRegister, FinalizeKeep,
             FinalizeRelease, FinalizeEnd, CallerStep, StartSchedule, AwaitWork,
             SkipEmptyStep, RunModel, Crash, CountItem, CountEnd, SampleItem,
             SampleSkip, SampleEnd, Request, Add, AbortWaiting, AbortRunning,
             schedulerVars, stepVars
    <3> QED BY <3>1, <3>2, <3>3
  <2> QED BY <2>2, <2>3 DEF ActiveOK
<1>4. Len(running') <= Len(running)
      \/ (StartRunning /\ pc \in {"prefill", "ensure"} /\ active < MaxNumSeqs)
  BY RunningMoves
<1>5. ASSUME StartRunning PROVE ~(Len(running') <= Len(running))
  <2>1. Len(running') = Len(running) + 1
    BY <1>1, <1>5 DEF StartRunning
  <2>2. \A m \in Nat : ~(m + 1 <= m)
    OBVIOUS
  <2> QED BY <1>1, <2>1, <2>2
<1> QED BY <1>2, <1>3, <1>4, <1>5

-----------------------------------------------------------------------------
(* The tables, under the block manager's steps and under the caller's. *)

LEMMA PromptNeedsBlock ==
    ASSUME PoolTypeOK, NEW s \in Seqs
    PROVE  /\ NumBlocksNeededFor(PromptLen(s)) \in Nat \ {0}
           /\ Len(blockTable[s]) \in Nat
           /\ blockTable[s] = <<>> <=> Len(blockTable[s]) = 0
<1>1. /\ NumFull(s) \in Nat
      /\ NumBlocksNeededFor(PromptLen(s)) = NumFull(s) + (IF HasTail(s) THEN 1 ELSE 0)
      /\ CapFull(s) \in Nat
  BY PromptBlocks
<1>2. NumFull(s) = 0 => HasTail(s)
  BY <1>1 DEF CapFull, HasTail
<1>3. blockTable[s] \in Seq(Blocks)
  BY DEF PoolTypeOK
<1>4. NumFull(s) + (IF HasTail(s) THEN 1 ELSE 0) \in Nat \ {0}
  BY <1>1, <1>2
<1>5. Len(blockTable[s]) \in Nat /\ (blockTable[s] = <<>> <=> Len(blockTable[s]) = 0)
  BY <1>3, EmptySeq
<1> QED BY <1>1, <1>4, <1>5

LEMMA TableStays ==
    ASSUME NEW s \in Seqs, TableOK(s), blockTable'[s] = blockTable[s],
           UNCHANGED <<prompt, status, finishReason, pc, scheduled, rest>>,
           Admitting(s) => Admitting(s)', Freeing(s) => Freeing(s)'
    PROVE  TableOK(s)'
<1>1. Releasing(s)' <=> Releasing(s)
  BY DEF Releasing, InItems
<1>2. NumBlocksNeededFor(PromptLen(s))' = NumBlocksNeededFor(PromptLen(s))
  BY DEF NumBlocksNeededFor, PromptLen
<1> QED BY <1>1, <1>2 DEF TableOK

\* A table that already covers the prompt may grow.
LEMMA TableGrows ==
    ASSUME PoolTypeOK, PoolTypeOK', NEW s \in Seqs, TableOK(s), blockTable[s] # <<>>,
           ~Admitting(s), ~Freeing(s), Len(blockTable'[s]) >= Len(blockTable[s]),
           UNCHANGED <<prompt, status, finishReason>>, Releasing(s) => Releasing(s)'
    PROVE  TableOK(s)'
<1>1. NumBlocksNeededFor(PromptLen(s))' = NumBlocksNeededFor(PromptLen(s))
  BY DEF NumBlocksNeededFor, PromptLen
<1>2. Len(blockTable'[s]) >= NumBlocksNeededFor(PromptLen(s))
  <2>1. Len(blockTable[s]) >= NumBlocksNeededFor(PromptLen(s))
    BY DEF TableOK
  <2>2. Len(blockTable'[s]) \in Nat
    BY DEF PoolTypeOK
  <2> QED BY <2>1, <2>2, PromptNeedsBlock
<1>3. blockTable'[s] # <<>>
  BY <1>2, PromptNeedsBlock, EmptySeq
<1> QED BY <1>1, <1>2, <1>3 DEF TableOK

\* admit leaves the table that the whole prompt takes.
LEMMA AdmitFills ==
    ASSUME PoolInv, AdmitFinish, NEW s \in Seqs, s = call.seq
    PROVE  Len(blockTable'[s]) = NumBlocksNeededFor(PromptLen(s))
<1>1. /\ PoolTypeOK /\ call.op = "admit" /\ call.i = call.n
      /\ call.n = NumFull(s) /\ call.i = Len(blockTable[s])
  BY DEF PoolInv, CallOK, AdmitOK, AdmitFinish
<1>2. /\ NumFull(s) \in Nat
      /\ NumBlocksNeededFor(PromptLen(s)) = NumFull(s) + (IF HasTail(s) THEN 1 ELSE 0)
      /\ blockTable \in [Seqs -> Seq(Blocks)]
  BY <1>1, PromptBlocks DEF PoolTypeOK
<1>3. CASE HasTail(s)
  <2>1. blockTable' = [blockTable EXCEPT ![s] = Append(@, NextFree(pool))]
    BY <1>3 DEF AdmitFinish, GrowTable
  <2>2. Len(blockTable'[s]) = Len(blockTable[s]) + 1
    BY <1>2, <2>1
  <2> QED BY <1>1, <1>2, <1>3, <2>2
<1>4. CASE ~HasTail(s)
  <2>1. blockTable' = blockTable
    BY <1>4 DEF AdmitFinish
  <2> QED BY <1>1, <1>2, <1>4, <2>1
<1> QED BY <1>3, <1>4

LEMMA CallTables ==
    ASSUME PoolInv, PoolTypeOK', QueueTypes, TablesOK, BlockManagerStep
    PROVE  TablesOK'
<1>1. /\ PoolTypeOK /\ blockTable \in [Seqs -> Seq(Blocks)]
      /\ UNCHANGED <<status, finishReason, pc, todo, scheduled, rest>>
      /\ Idle.op = "none"
  BY IdleFields DEF PoolInv, PoolTypeOK, BlockManagerStep, queueVars, stepVars
<1>2. ASSUME AdmitHit \/ AdmitMiss \/ FreeRelease \/ RegisterSkip \/ RegisterBlock
      PROVE  TablesOK'
  <2>1. /\ UNCHANGED prompt
        /\ call'.op = call.op /\ call'.seq = call.seq
        /\ call.op # "none" /\ call.op # "ensure"
        /\ \A s \in Seqs : blockTable'[s] = blockTable[s] \/ (call.op = "admit" /\ s = call.seq)
    BY <1>1, <1>2, CallFields DEF AdmitHit, AdmitMiss, FreeRelease, RegisterSkip,
                                  RegisterBlock, Advance, seqVars
  <2>2. ASSUME NEW s \in Seqs PROVE TableOK(s)'
    <3>1. /\ Admitting(s)' <=> Admitting(s)
          /\ Freeing(s)' <=> Freeing(s)
      BY <2>1 DEF Admitting, Freeing
    <3>2. CASE Admitting(s)
      <4>1. status'[s] = "PREFILLING"
        BY <1>1, <3>2 DEF TablesOK, Admitting
      <4> QED BY <3>1, <3>2, <4>1 DEF TableOK
    <3>3. CASE ~Admitting(s)
      <4>1. blockTable'[s] = blockTable[s]
        BY <2>1, <3>3 DEF Admitting
      <4> QED BY <1>1, <2>1, <3>1, <4>1, TableStays DEF TablesOK
    <3> QED BY <3>2, <3>3
  <2> QED BY <1>1, <2>1, <2>2 DEF TablesOK
<1>3. ASSUME AdmitFinish PROVE TablesOK'
  <2>0. PICK s \in Seqs : s = call.seq
    BY <1>3 DEF AdmitFinish, PoolInv, PoolTypeOK
  <2>1. /\ call.op = "admit" /\ s = call.seq /\ call'.op = "none" /\ UNCHANGED prompt
        /\ \A q \in Seqs \ {s} : blockTable'[q] = blockTable[q]
    BY <1>1, <1>3, <2>0 DEF AdmitFinish, GrowTable, PoolTypeOK
  <2>2. TableOK(s)'
    <3>1. Len(blockTable'[s]) = NumBlocksNeededFor(PromptLen(s))
      BY <1>3, <2>1, AdmitFills
    <3>2. NumBlocksNeededFor(PromptLen(s))' = NumBlocksNeededFor(PromptLen(s))
      BY <2>1 DEF NumBlocksNeededFor, PromptLen
    <3>3. /\ NumBlocksNeededFor(PromptLen(s)) \in Nat \ {0}
          /\ Len(<<>>) = 0
      BY <1>1, <2>1, PromptNeedsBlock
    <3>4. Len(blockTable'[s]) >= NumBlocksNeededFor(PromptLen(s))
      BY <3>1, <3>3
    <3>5. blockTable'[s] # <<>>
      BY <3>1, <3>3
    <3>6. status'[s] = "PREFILLING"
      BY <1>1, <2>1 DEF TablesOK
    <3> QED BY <3>2, <3>4, <3>5, <3>6 DEF TableOK
  <2>3. ASSUME NEW q \in Seqs \ {s} PROVE TableOK(q)'
    <3>1. ~Admitting(q) /\ ~Freeing(q) /\ blockTable'[q] = blockTable[q] /\ q \in Seqs
      BY <2>1 DEF Admitting, Freeing
    <3> QED BY <1>1, <2>1, <3>1, TableStays DEF TablesOK
  <2> QED BY <1>1, <2>1, <2>2, <2>3 DEF TablesOK
<1>4. ASSUME EnsureTake PROVE TablesOK'
  <2>0. PICK s \in Seqs : s = call.seq
    BY <1>4 DEF EnsureTake, PoolInv, PoolTypeOK
  <2>1. /\ call.op = "ensure" /\ s = call.seq /\ UNCHANGED <<call, prompt>>
        /\ blockTable[s] # <<>>
        /\ blockTable' = [blockTable EXCEPT ![s] = Append(@, NextFree(pool))]
    BY <1>4, <2>0 DEF EnsureTake, GrowTable, PoolInv, PoolTypeOK, TablesOK
  <2>2. /\ \A q \in Seqs : ~Admitting(q) /\ ~Freeing(q)
        /\ \A q \in Seqs : Releasing(q)' <=> Releasing(q)
    BY <1>1, <2>1 DEF Admitting, Freeing, Releasing, InItems
  <2>3. Len(blockTable'[s]) = Len(blockTable[s]) + 1
    BY <1>1, <2>1
  <2>4. Len(blockTable'[s]) >= Len(blockTable[s]) /\ blockTable'[s] # <<>>
    <3>1. Len(blockTable[s]) \in Nat /\ Len(<<>>) = 0
      BY <1>1, <2>1
    <3> QED BY <2>3, <3>1
  <2>5. TableOK(s)'
    BY <1>1, <2>1, <2>2, <2>4, TableGrows DEF TablesOK
  <2>6. ASSUME NEW q \in Seqs \ {s} PROVE TableOK(q)'
    <3>1. ~Admitting(q) /\ ~Freeing(q) /\ blockTable'[q] = blockTable[q] /\ q \in Seqs
      BY <1>1, <2>1, <2>2
    <3> QED BY <1>1, <2>1, <3>1, TableStays DEF TablesOK
  <2>7. call'.op = "ensure" /\ blockTable'[call'.seq] # <<>>
    BY <2>1, <2>4
  <2> QED BY <1>1, <2>5, <2>6, <2>7 DEF TablesOK
<1>5. ASSUME FreeClear PROVE TablesOK'
  <2>0. PICK s \in Seqs : s = call.seq
    BY <1>5 DEF FreeClear, PoolInv, PoolTypeOK
  <2>1. /\ call.op = "free" /\ s = call.seq /\ call'.op = "none" /\ UNCHANGED prompt
        /\ blockTable' = [blockTable EXCEPT ![s] = <<>>]
        /\ status[s] \in {"PREEMPTED", "FINISHED"}
    BY <1>1, <1>5, <2>0 DEF FreeClear, PoolTypeOK, TablesOK
  <2>2. ASSUME NEW q \in Seqs PROVE TableOK(q)'
    <3>1. CASE q = s
      BY <1>1, <2>1, <3>1 DEF TableOK
    <3>2. CASE q # s
      <4>1. ~Admitting(q) /\ ~Freeing(q) /\ blockTable'[q] = blockTable[q]
        BY <1>1, <2>1, <3>2 DEF Admitting, Freeing
      <4> QED BY <1>1, <2>1, <4>1, TableStays DEF TablesOK
    <3> QED BY <3>1, <3>2
  <2> QED BY <1>1, <2>1, <2>2 DEF TablesOK
<1>6. ASSUME EnsureExit \/ RegisterReturn PROVE TablesOK'
  <2>1. /\ call.op \in {"ensure", "register"} /\ call'.op = "none"
        /\ UNCHANGED <<prompt, blockTable>>
    BY <1>1, <1>6 DEF EnsureExit, RegisterReturn, seqVars
  <2>2. ASSUME NEW q \in Seqs PROVE TableOK(q)'
    <3>1. ~Admitting(q) /\ ~Freeing(q)
      BY <2>1 DEF Admitting, Freeing
    <3> QED BY <1>1, <2>1, <3>1, TableStays DEF TablesOK
  <2> QED BY <1>1, <2>1, <2>2 DEF TablesOK
<1> QED BY <1>2, <1>3, <1>4, <1>5, <1>6 DEF BlockManagerStep, CallStep

\* A step of the caller that leaves every table alone.  A status says the
\* same of the table after it as before, unless a call begins that makes the
\* difference good.
LEMMA CallerTables ==
    ASSUME PoolInv, QueueTypes, StepOK, QueuesOK, FinishedLeaves, TablesOK,
           [SchedulerNext]_schedulerVars,
           call.op \notin {"admit", "free"},
           UNCHANGED <<prompt, blockTable>>,
           call'.op = "admit" => status'[call'.seq] = "PREFILLING",
           call'.op = "free" => status'[call'.seq] \in {"PREEMPTED", "FINISHED"},
           call'.op = "ensure" => blockTable[call'.seq] # <<>>,
           pc' = "retry" => status'[Head(todo')] = "RUNNING",
           \A s \in Seqs :
              /\ status'[s] \in {"PREFILLING", "RUNNING"} =>
                    \/ status[s] \in {"PREFILLING", "RUNNING"}
                    \/ Admitting(s)'
                    \/ blockTable[s] # <<>>
              /\ status'[s] \in {"NONE", "WAITING", "PREEMPTED"} =>
                    status[s] \in {"NONE", "WAITING", "PREEMPTED"} \/ Freeing(s)',
           FinalizeRelease => call'.op = "free" /\ call'.seq = Head(rest).seq
    PROVE  TablesOK'
<1>1. ASSUME NEW s \in Seqs PROVE TableOK(s)'
  <2>1. /\ TableOK(s) /\ ~Admitting(s) /\ ~Freeing(s)
        /\ blockTable'[s] = blockTable[s]
    BY DEF TablesOK, Admitting, Freeing
  <2>2. NumBlocksNeededFor(PromptLen(s))' = NumBlocksNeededFor(PromptLen(s))
    BY DEF NumBlocksNeededFor, PromptLen
  <2>3. ASSUME status'[s] = "FINISHED", finishReason'[s] # "abort",
               blockTable'[s] # <<>>
        PROVE  Freeing(s)' \/ Releasing(s)'
    <3>1. CASE status[s] = "FINISHED" /\ finishReason'[s] = finishReason[s]
      <4>1. Releasing(s)
        BY <2>1, <2>3, <3>1 DEF TableOK
      <4>2. Releasing(s)' \/ (FinalizeRelease /\ s = Head(rest).seq)
        BY <3>1, <4>1, ReleasingStep
      <4> QED BY <4>2 DEF Freeing
    <3>2. CASE status[s] # "FINISHED" \/ finishReason'[s] # finishReason[s]
      <4>1. /\ pc = "sample" /\ pc' = "sample" /\ rest # <<>>
            /\ s = Head(rest).seq /\ UNCHANGED scheduled
        BY <2>3, <3>2, Finishes
      <4>2. 1 \in DOMAIN rest /\ rest[1].seq = s
        BY <4>1, HeadTail DEF QueueTypes
      <4>3. InItems(scheduled, s)
        BY <4>1, <4>2 DEF FinishedLeaves
      <4> QED BY <4>1, <4>3 DEF Releasing, InItems
    <3> QED BY <3>1, <3>2
  <2> QED BY <2>1, <2>2, <2>3 DEF TableOK
<1> QED BY <1>1 DEF TablesOK

\* The statuses _preempt_one and the start of a sequence leave.
LEMMA PreemptStatus ==
    ASSUME QueueTypes, running # <<>>, PreemptOne
    PROVE  /\ call = Idle /\ call'.op = "free" /\ call'.seq = Last(running)
           /\ UNCHANGED <<prompt, blockTable>>
           /\ status'[Last(running)] = "PREEMPTED"
           /\ \A s \in Seqs \ {Last(running)} : status'[s] = status[s]
           /\ \A s : Freeing(s)' <=> s = Last(running)
<1>1. Last(running) \in Seqs
  BY Heads
<1>2. /\ call = Idle /\ call'.op = "free" /\ call'.seq = Last(running)
      /\ UNCHANGED <<prompt, blockTable>>
  BY CallFields DEF PreemptOne, Free, Begin
<1>3. status' = [status EXCEPT ![Last(running)] = "PREEMPTED"]
  BY DEF PreemptOne, SetStatus
<1>4. /\ status'[Last(running)] = "PREEMPTED"
      /\ \A s \in Seqs \ {Last(running)} : status'[s] = status[s]
  BY <1>1, <1>3 DEF QueueTypes
<1> QED BY <1>2, <1>4 DEF Freeing

LEMMA PreemptTables ==
    ASSUME PoolInv, QueueTypes, StepOK, QueuesOK, FinishedLeaves, TablesOK,
           [SchedulerNext]_schedulerVars, running # <<>>, PreemptOne,
           pc' = "retry" => status'[Head(todo')] = "RUNNING", ~FinalizeRelease
    PROVE  TablesOK'
<1>1. /\ call.op = "none" /\ call'.op = "free"
      /\ UNCHANGED <<prompt, blockTable>>
      /\ status'[call'.seq] = "PREEMPTED"
      /\ \A s \in Seqs : status'[s] = status[s] \/ (status'[s] = "PREEMPTED" /\ Freeing(s)')
  BY PreemptStatus, IdleFields
<1> QED BY <1>1, CallerTables

LEMMA StartTables ==
    ASSUME PoolInv, QueueTypes, StepOK, QueuesOK, FinishedLeaves, TablesOK,
           [SchedulerNext]_schedulerVars, waiting # <<>>, StartRunning,
           call = Idle, UNCHANGED poolVars, blockTable[Head(waiting)] # <<>>,
           pc' # "retry", ~FinalizeRelease
    PROVE  TablesOK'
<1>1. /\ Head(waiting) \in Seqs
      /\ status' = [status EXCEPT ![Head(waiting)] = "RUNNING"]
      /\ call.op = "none" /\ call'.op = "none"
      /\ UNCHANGED <<prompt, blockTable>>
  BY Heads, IdleFields DEF StartRunning, SetStatus, poolVars, seqVars
<1>2. \A s \in Seqs : status'[s] = status[s] \/ (status'[s] = "RUNNING" /\ blockTable[s] # <<>>)
  BY <1>1 DEF QueueTypes
<1> QED BY <1>1, <1>2, CallerTables

\* Phase 1 grows the table of a running sequence by the slot it asked for.
LEMMA DecodeTables ==
    ASSUME PoolInv, PoolTypeOK', QueueTypes, StepOK, TablesOK, DecodeSchedule
    PROVE  TablesOK'
<1> DEFINE h == Head(todo)
<1>1. PICK s \in Seqs : s = h
  BY Heads DEF DecodeSchedule, DecodeTurn, StepOK
<1>2. /\ status[s] = "RUNNING" /\ AppendSlot(s)
      /\ pc \in {"decode", "retry"} /\ pc' = "decode"
      /\ UNCHANGED <<status, finishReason>>
  BY <1>1 DEF DecodeSchedule, DecodeTurn, TablesOK, queueVars
<1>3. /\ call.op = "none" /\ call'.op = "none" /\ UNCHANGED prompt
      /\ \/ UNCHANGED blockTable
         \/ blockTable' = [blockTable EXCEPT ![s] = Append(@, NextFree(pool))]
      /\ blockTable \in [Seqs -> Seq(Blocks)] /\ PoolTypeOK
  BY <1>2, IdleFields DEF AppendSlot, GrowTable, PoolInv, PoolTypeOK
<1>4. ASSUME NEW q \in Seqs PROVE TableOK(q)'
  <2>1. /\ TableOK(q) /\ ~Admitting(q) /\ ~Freeing(q) /\ ~Releasing(q)
    BY <1>2, <1>3 DEF TablesOK, Admitting, Freeing, Releasing
  <2>2. NumBlocksNeededFor(PromptLen(q))' = NumBlocksNeededFor(PromptLen(q))
    BY <1>3 DEF NumBlocksNeededFor, PromptLen
  <2>3. CASE blockTable'[q] = blockTable[q]
    BY <1>2, <2>1, <2>2, <2>3 DEF TableOK
  <2>4. CASE blockTable'[q] # blockTable[q]
    <3>1. q = s /\ blockTable[q] # <<>>
      BY <1>2, <1>3, <2>1, <2>4 DEF TableOK
    <3>2. Len(blockTable'[q]) = Len(blockTable[q]) + 1
      BY <1>3, <2>4, <3>1
    <3>3. Len(blockTable[q]) \in Nat
      BY <1>3
    <3>4. Len(blockTable'[q]) >= Len(blockTable[q])
      BY <3>2, <3>3
    <3> QED BY <1>2, <1>3, <2>1, <3>1, <3>4, TableGrows
  <2> QED BY <2>3, <2>4
<1> QED BY <1>2, <1>3, <1>4 DEF TablesOK

LEMMA RequestTables ==
    ASSUME PoolInv, QueueTypes, StepOK, QueuesOK, FinishedLeaves, TablesOK,
           [SchedulerNext]_schedulerVars, NEW s \in Seqs, Request(s)
    PROVE  TablesOK'
<1>1. /\ call.op = "none" /\ pc = "idle" /\ pc' = "idle"
      /\ UNCHANGED <<prompt, blockTable>>
      /\ \/ call'.op = "none" /\ status' = [status EXCEPT ![s] = "WAITING"]
            /\ status[s] = "NONE"
         \/ call'.op = "none" /\ status' = [status EXCEPT ![s] = "FINISHED"]
         \/ call'.op = "free" /\ call'.seq = s
            /\ status' = [status EXCEPT ![s] = "FINISHED"]
  BY IdleFields, CallFields DEF Request, Add, AbortWaiting, AbortRunning, Finish, SetStatus,
     Free, Begin, poolVars, seqVars
<1>2. /\ \A q \in Seqs \ {s} : status'[q] = status[q]
      /\ \/ status'[s] = "WAITING" /\ status[s] = "NONE" /\ call'.op = "none"
         \/ status'[s] = "FINISHED" /\ call'.op \in {"none", "free"}
            /\ (call'.op = "free" => call'.seq = s)
  BY <1>1 DEF QueueTypes
<1>3. ~FinalizeRelease
  BY <1>1 DEF FinalizeRelease
<1>4. \A q \in Seqs :
         /\ status'[q] \in {"PREFILLING", "RUNNING"} => status[q] \in {"PREFILLING", "RUNNING"}
         /\ status'[q] \in {"NONE", "WAITING", "PREEMPTED"} =>
               status[q] \in {"NONE", "WAITING", "PREEMPTED"}
  BY <1>2
<1>5. call'.op = "free" => status'[call'.seq] \in {"PREEMPTED", "FINISHED"}
  BY <1>2
<1>6. call'.op # "admit" /\ call'.op # "ensure" /\ pc' # "retry"
  BY <1>1
<1> QED BY <1>1, <1>3, <1>4, <1>5, <1>6, CallerTables

\* The remaining steps of the caller leave the statuses alone.
LEMMA QuietTables ==
    ASSUME PoolInv, QueueTypes, StepOK, QueuesOK, FinishedLeaves, TablesOK,
           [SchedulerNext]_schedulerVars,
           call.op \notin {"admit", "free"}, UNCHANGED <<prompt, blockTable, status>>,
           call'.op \in {"none", "register"}, pc' # "retry", ~FinalizeRelease
    PROVE  TablesOK'
<1>1. \A s \in Seqs : status'[s] = status[s]
  OBVIOUS
<1>2. call'.op # "admit" /\ call'.op # "free" /\ call'.op # "ensure"
  OBVIOUS
<1> QED BY <1>1, <1>2, CallerTables

LEMMA ScheduleTables ==
    ASSUME PoolInv, PoolTypeOK', QueueTypes, StepOK, QueuesOK, FinishedLeaves, TablesOK,
           ScheduleStep
    PROVE  TablesOK'
<1>1. [SchedulerNext]_schedulerVars
  BY DEF SchedulerNext, SchedulerStep
<1>2. Idle.op = "none"
  BY IdleFields
<1>3. CASE DecodeSkip \/ DecodeGiveUp \/ EndDecode \/ AdmissionGiveUp \/ EndPrefill
  <2>1. /\ call.op = "none" /\ call'.op = "none" /\ pc' # "retry" /\ pc # "release"
        /\ UNCHANGED <<prompt, blockTable, status>>
    BY <1>2, <1>3 DEF DecodeSkip, DecodeGiveUp, EndDecode, AdmissionGiveUp, EndPrefill,
                      NeedsAdmission, PrefillTurn, poolVars, seqVars, queueVars, stepVars
  <2> QED BY <1>1, <2>1, QuietTables DEF FinalizeRelease
<1>4. CASE DecodeSchedule
  BY <1>4, DecodeTables
<1>5. CASE DecodePreempt
  <2>1. /\ running # <<>> /\ PreemptOne /\ pc = "decode"
        /\ todo # <<>> /\ status[Head(todo)] = "RUNNING"
        /\ pc' = "retry" => Last(running) # Head(todo) /\ todo' = todo
    BY <1>5 DEF DecodePreempt, DecodeTurn
  <2>2. pc' = "retry" => status'[Head(todo')] = "RUNNING"
    <3>1. Head(todo) \in Seqs
      BY <2>1, Heads
    <3> QED BY <2>1, <3>1, PreemptStatus
  <2> QED BY <1>1, <2>1, <2>2, PreemptTables DEF FinalizeRelease
<1>6. CASE PreemptForAdmission
  BY <1>1, <1>6, PreemptTables
     DEF PreemptForAdmission, NeedsAdmission, PrefillTurn, FinalizeRelease
<1>7. CASE AdmitHead
  <2> DEFINE h == Head(waiting)
  <2>1. /\ h \in Seqs /\ pc = "prefill" /\ pc' = "prefill"
        /\ call.op = "none" /\ call'.op = "admit" /\ call'.seq = h
        /\ UNCHANGED <<prompt, blockTable>>
        /\ status' = [status EXCEPT ![h] = "PREFILLING"]
    BY <1>2, <1>7, Heads, CallFields
       DEF AdmitHead, NeedsAdmission, PrefillTurn, Admit, Begin, SetStatus, seqVars,
           stepVars
  <2>2. /\ status'[h] = "PREFILLING"
        /\ \A s \in Seqs : status'[s] = status[s] \/ (status'[s] = "PREFILLING" /\ s = h)
    BY <2>1 DEF QueueTypes
  <2>3. \A s \in Seqs : status'[s] = status[s]
                           \/ (status'[s] = "PREFILLING" /\ Admitting(s)')
    BY <2>1, <2>2 DEF Admitting
  <2> HIDE DEF h
  <2> QED BY <1>1, <2>1, <2>2, <2>3, CallerTables DEF FinalizeRelease
<1>8. CASE PlanChunk
  <2>1. /\ call.op = "none" /\ call'.op = "ensure" /\ call'.seq = Head(waiting)
        /\ pc = "prefill" /\ pc' = "ensure"
        /\ blockTable[Head(waiting)] # <<>>
        /\ UNCHANGED <<prompt, blockTable, status>>
    BY <1>2, <1>8, CallFields DEF PlanChunk, PrefillTurn, EnsureBlocksForChunk, Begin,
                                  seqVars, queueVars
  <2>2. \A s \in Seqs : status'[s] = status[s]
    BY <2>1
  <2> QED BY <1>1, <2>1, <2>2, CallerTables DEF FinalizeRelease
<1>9. CASE NothingToPrefill
  BY <1>1, <1>9, StartTables DEF NothingToPrefill, PrefillTurn, FinalizeRelease
<1>10. CASE ScheduleChunk
  <2>1. /\ call = Idle /\ pc = "ensure" /\ pc' # "retry" /\ UNCHANGED poolVars
        /\ waiting # <<>> /\ blockTable[Head(waiting)] # <<>>
        /\ StartRunning \/ UNCHANGED status
    BY <1>10 DEF ScheduleChunk, StepOK, queueVars
  <2>2. /\ call.op = "none" /\ call'.op = "none" /\ UNCHANGED <<prompt, blockTable>>
    BY <1>2, <2>1 DEF poolVars, seqVars
  <2> QED BY <1>1, <2>1, <2>2, StartTables, QuietTables DEF FinalizeRelease
<1> QED BY <1>3, <1>4, <1>5, <1>6, <1>7, <1>8, <1>9, <1>10 DEF ScheduleStep

LEMMA TablesStep ==
    ASSUME PoolInv, PoolTypeOK', QueueTypes, StepOK, QueuesOK, FinishedLeaves, TablesOK,
           [SchedulerNext]_schedulerVars
    PROVE  TablesOK'
<1>1. Idle.op = "none"
  BY IdleFields
<1>2. CASE UNCHANGED schedulerVars
  BY <1>2 DEF TablesOK, TableOK, Admitting, Freeing, Releasing, InItems,
              NumBlocksNeededFor, PromptLen, schedulerVars, poolVars, seqVars,
              queueVars, stepVars
<1>3. CASE BlockManagerStep
  BY <1>3, CallTables
<1>4. CASE FinalizeStep
  <2>1. CASE FinalizeRelease
    <3> DEFINE h == Head(rest).seq
    <3>1. /\ call.op = "none" /\ call'.op = "free" /\ call'.seq = h
          /\ UNCHANGED <<prompt, blockTable, status>>
          /\ status[h] = "FINISHED" /\ pc' = "finalize"
      BY <1>1, <2>1, CallFields DEF FinalizeRelease, Free, Begin
    <3>2. \A s \in Seqs : status'[s] = status[s]
      BY <3>1
    <3>3. status'[call'.seq] = "FINISHED"
      BY <3>1
    <3> QED BY <3>1, <3>2, <3>3, CallerTables
  <2>2. CASE FinalizeRegister \/ FinalizeKeep \/ FinalizeEnd
    <3>1. /\ call.op = "none" /\ call'.op \in {"none", "register"} /\ pc' # "retry"
          /\ UNCHANGED <<prompt, blockTable, status>>
      BY <1>1, <2>2, CallFields DEF FinalizeRegister, FinalizeKeep, FinalizeEnd,
         RegisterFilledBlocks, Begin, poolVars, seqVars, queueVars
    <3>2. ~FinalizeRelease
      BY <2>2, <3>1 DEF FinalizeRegister, FinalizeKeep, FinalizeEnd, FinalizeRelease
    <3> QED BY <3>1, <3>2, QuietTables
  <2> QED BY <1>4, <2>1, <2>2 DEF FinalizeStep
<1>5. CASE CallerStep
  <2>1. CASE \E t \in Tokens, stops \in BOOLEAN : SampleItem(t, stops)
    <3> DEFINE h == Head(rest).seq
    <3>1. /\ h \in Seqs /\ call.op = "none" /\ call'.op = "none"
          /\ UNCHANGED <<prompt, blockTable, pc>> /\ pc = "sample"
          /\ status' = [status EXCEPT ![h] = "FINISHED"] \/ UNCHANGED status
      BY <1>1, <2>1, Heads DEF SampleItem, Finish, SetStatus, StepOK
    <3>2. \A s \in Seqs : status'[s] = status[s] \/ status'[s] = "FINISHED"
      BY <3>1 DEF QueueTypes
    <3> HIDE DEF h
    <3> QED BY <3>1, <3>2, CallerTables DEF FinalizeRelease
  <2>2. CASE Crash
    <3>1. call.op \in {"none", "register"} /\ call'.op = "none"
          /\ UNCHANGED <<prompt, blockTable, status>> /\ pc' = "crashed"
      BY <1>1, <2>2 DEF Crash, RegisterIndexError, StepOK, seqVars, queueVars
    <3> QED BY <3>1, QuietTables DEF FinalizeRelease
  <2>3. CASE StartSchedule \/ AwaitWork \/ SkipEmptyStep \/ RunModel \/ CountItem
             \/ CountEnd \/ SampleSkip \/ SampleEnd
    <3>1. /\ call.op = "none" /\ call'.op = "none" /\ pc' # "retry" /\ pc # "release"
          /\ UNCHANGED <<prompt, blockTable, status>>
      BY <1>1, <2>3 DEF StartSchedule, AwaitWork, SkipEmptyStep, RunModel, CountItem,
         CountEnd, SampleSkip, SampleEnd, StepOK, schedulerVars, poolVars, seqVars,
         queueVars
    <3> QED BY <3>1, QuietTables DEF FinalizeRelease
  <2> QED BY <1>5, <2>1, <2>2, <2>3 DEF CallerStep
<1> QED BY <1>2, <1>3, <1>4, <1>5, ScheduleTables, RequestTables
        DEF SchedulerNext, SchedulerStep

-----------------------------------------------------------------------------
(* The theorems. *)

LEMMA SchedulerInitInv == SchedulerInit => SchedulerInv
<1> SUFFICES ASSUME SchedulerInit PROVE SchedulerInv
  OBVIOUS
<1>1. PoolInv
  BY InitInv DEF SchedulerInit, PoolInit
<1>2. /\ waiting = <<>> /\ running = <<>> /\ todo = <<>>
      /\ scheduled = <<>> /\ rest = <<>> /\ preempted = {}
      /\ budget = 0 /\ active = 0 /\ pc = "idle"
      /\ status = [s \in Seqs |-> "NONE"] /\ finishReason = [s \in Seqs |-> "none"]
      /\ call.op = "none"
      /\ blockTable = [s \in Seqs |-> <<>>]
  BY IdleFields DEF SchedulerInit, QueuesInit, SequenceInit
<1>3. \A S : <<>> \in Seq(S) /\ Len(<<>>) = 0
  BY EmptySeq
<1>4. QueueTypes
  <2>1. status \in [Seqs -> Statuses] /\ finishReason \in [Seqs -> FinishReasons]
    BY <1>2 DEF Statuses, FinishReasons
  <2> QED BY <1>2, <1>3, <2>1 DEF QueueTypes, Steps
<1>5. \A s : ~Contains(waiting, s) /\ ~Contains(running, s)
  <2>1. \A s : ~Contains(<<>>, s)
    BY <1>3 DEF Contains
  <2> QED BY <1>2, <2>1
<1>6. StepOK
  BY <1>2 DEF StepOK
<1>7. QueuesOK
  <2>1. NoDuplicates(waiting) /\ NoDuplicates(running)
    BY <1>2 DEF NoDuplicates
  <2>2. \A s \in Seqs : status[s] = "NONE"
    BY <1>2
  <2> QED BY <1>5, <2>1, <2>2 DEF QueuesOK
<1>8. FinishedLeaves
  BY <1>2, <1>5 DEF FinishedLeaves
<1>9. ActiveOK
  BY <1>2, <1>3, SchedulerConstants DEF ActiveOK
<1>10. TablesOK
  BY <1>2 DEF TablesOK, TableOK
<1> QED BY <1>1, <1>4, <1>6, <1>7, <1>8, <1>9, <1>10 DEF SchedulerInv

LEMMA SchedulerStepInv == SchedulerInv /\ [SchedulerNext]_schedulerVars => SchedulerInv'
<1> SUFFICES ASSUME SchedulerInv, [SchedulerNext]_schedulerVars PROVE SchedulerInv'
  OBVIOUS
<1>1. /\ PoolInv /\ QueueTypes /\ StepOK /\ QueuesOK /\ FinishedLeaves /\ ActiveOK
      /\ TablesOK
  BY DEF SchedulerInv
<1>2. PoolInv' /\ PoolTypeOK'
  BY <1>1, PoolStep DEF PoolInv
<1>3. QueueTypes'
  BY <1>1, TypesStep
<1>4. StepOK' /\ QueuesOK' /\ FinishedLeaves'
  BY <1>1, StepOKStep, QueuesStep, FinishedLeavesStep
<1>5. ActiveOK' /\ TablesOK'
  BY <1>1, <1>2, <1>3, ActiveStep, TablesStep
<1> QED BY <1>2, <1>3, <1>4, <1>5 DEF SchedulerInv

\* Every state of the scheduler, with the block manager under it, keeps the
\* inductive invariant.
THEOREM SchedulerInvariant == SchedulerSpec => []SchedulerInv
BY SchedulerInitInv, SchedulerStepInv, PTL DEF SchedulerSpec

LEMMA InvGivesQueues ==
    ASSUME waiting \in Seq(Seqs), running \in Seq(Seqs), QueuesOK
    PROVE  LiveRequestsAreQueued
<1> DEFINE u == waiting
           v == running
<1>2. /\ u \in Seq(Seqs) /\ v \in Seq(Seqs) /\ NoDuplicates(u) /\ NoDuplicates(v)
      /\ \A s \in Seqs : ~(Contains(u, s) /\ Contains(v, s))
  BY DEF QueuesOK
<1>3. /\ Len(u \o v) = Len(u) + Len(v)
      /\ DOMAIN (u \o v) = 1 .. Len(u) + Len(v)
      /\ \A i \in 1 .. Len(u) + Len(v) :
            (u \o v)[i] = IF i <= Len(u) THEN u[i] ELSE v[i - Len(u)]
      /\ Len(u) \in Nat /\ Len(v) \in Nat
  BY <1>2, ConcatProperties
<1> HIDE DEF u, v
<1>4. ASSUME NEW i \in 1 .. Len(u) + Len(v), NEW j \in 1 .. Len(u) + Len(v),
             (u \o v)[i] = (u \o v)[j]
      PROVE  i = j
  <2>1. ASSUME NEW k \in 1 .. Len(u) + Len(v), k <= Len(u)
        PROVE  k \in DOMAIN u /\ (u \o v)[k] = u[k] /\ Contains(u, u[k]) /\ u[k] \in Seqs
    BY <1>2, <1>3, <2>1 DEF Contains
  <2>2. ASSUME NEW k \in 1 .. Len(u) + Len(v), ~(k <= Len(u))
        PROVE  /\ k - Len(u) \in DOMAIN v /\ (u \o v)[k] = v[k - Len(u)]
               /\ Contains(v, v[k - Len(u)])
    <3>1. k - Len(u) \in 1 .. Len(v)
      BY <1>3, <2>2
    <3> QED BY <1>2, <1>3, <2>2, <3>1 DEF Contains
  <2>3. CASE i <= Len(u) /\ j <= Len(u)
    BY <1>2, <1>4, <2>1, <2>3 DEF NoDuplicates
  <2>4. CASE ~(i <= Len(u)) /\ ~(j <= Len(u))
    <3>1. i - Len(u) = j - Len(u)
      BY <1>2, <1>4, <2>2, <2>4 DEF NoDuplicates
    <3> QED BY <1>3, <3>1
  <2>5. CASE i <= Len(u) /\ ~(j <= Len(u))
    BY <1>2, <1>4, <2>1, <2>2, <2>5
  <2>6. CASE ~(i <= Len(u)) /\ j <= Len(u)
    BY <1>2, <1>4, <2>1, <2>2, <2>6
  <2> QED BY <2>3, <2>4, <2>5, <2>6
<1>5. NoDuplicates(u \o v)
  BY <1>3, <1>4 DEF NoDuplicates
<1> QED BY <1>5 DEF LiveRequestsAreQueued, QueuesOK, u, v

LEMMA InvGivesChunk == SchedulerInv => ChunkIsCovered
<1> SUFFICES ASSUME SchedulerInv, pc = "ensure"
             PROVE  Len(blockTable[Head(waiting)])
                       >= NumBlocksNeededFor(numComputed[Head(waiting)]
                                                + ChunkOf(Head(waiting)))
  BY DEF ChunkIsCovered
<1>1. /\ PoolTypeOK /\ QueueTypes /\ TablesOK
      /\ waiting # <<>> /\ ChunkOf(Head(waiting)) > 0
      /\ blockTable[Head(waiting)] # <<>>
      /\ call.op \in {"none", "ensure"}
  BY DEF SchedulerInv, PoolInv, StepOK
<1>2. PICK s \in Seqs : s = Head(waiting)
  BY <1>1, Heads
<1>3. Len(blockTable[s]) >= NumBlocksNeededFor(PromptLen(s))
  BY <1>1, <1>2 DEF TablesOK, TableOK, Admitting
<1>4. PICK m \in Nat, p \in Nat : /\ m = numComputed[s] + ChunkOf(s)
                                  /\ p = PromptLen(s) /\ m <= p
  <2>1. /\ numComputed[s] \in Nat /\ ChunkOf(s) \in Nat /\ PromptLen(s) \in Nat
        /\ numComputed[s] + ChunkOf(s) <= PromptLen(s)
    BY <1>1, <1>2, ChunkBounds, SequenceSizes DEF PoolTypeOK
  <2> QED BY <2>1
<1>5. NumBlocksNeededFor(m) <= NumBlocksNeededFor(p)
  <2>1. \A b \in Nat \ {0} : (m + b - 1) \div b <= (p + b - 1) \div b
    BY <1>4
  <2> QED BY <2>1, BlockConstants DEF NumBlocksNeededFor
<1>6. NumBlocksNeededFor(m) \in Nat /\ NumBlocksNeededFor(p) \in Nat
      /\ Len(blockTable[s]) \in Nat
  <2>1. \A b \in Nat \ {0} : (m + b - 1) \div b \in Nat /\ (p + b - 1) \div b \in Nat
    <3>1. \A b \in Nat \ {0} : m + b - 1 \in Nat /\ p + b - 1 \in Nat
      BY <1>4
    <3> QED BY <3>1, DivMod
  <2>2. blockTable[s] \in Seq(Blocks)
    BY <1>1 DEF PoolTypeOK
  <2> QED BY <2>1, <2>2, BlockConstants DEF NumBlocksNeededFor
<1> QED BY <1>2, <1>3, <1>4, <1>5, <1>6

LEMMA InvGivesTables == SchedulerInv => BlocksFollowStatus
<1> SUFFICES ASSUME SchedulerInv, call = Idle,
                    pc \notin {"apply", "register", "check", "free",
                              "sample", "finalize", "release", "crashed"},
                    NEW s \in Seqs
             PROVE  /\ status[s] \in {"PREFILLING", "RUNNING"} => blockTable[s] # <<>>
                    /\ status[s] \in {"NONE", "WAITING", "PREEMPTED"}
                          => blockTable[s] = <<>>
                    /\ (status[s] = "FINISHED" /\ finishReason[s] # "abort")
                          => blockTable[s] = <<>>
  BY DEF BlocksFollowStatus
<1>1. TableOK(s) /\ ~Admitting(s) /\ ~Freeing(s) /\ ~Releasing(s)
  BY IdleFields DEF SchedulerInv, TablesOK, Admitting, Freeing, Releasing
<1> QED BY <1>1 DEF TableOK

\* The state of the sequences, the pool, the queues and the step in progress
\* keeps its types, whatever the number of requests and the limits.
THEOREM SchedulerTypeCorrect == SchedulerSpec => []SchedulerTypeOK
<1>1. SchedulerInv => SchedulerTypeOK
  BY DEF SchedulerInv, PoolInv, QueueTypes, SchedulerTypeOK, QueuesTypeOK
<1> QED BY <1>1, SchedulerInvariant, PTL

\* No request is lost, and none is in two queues or twice in one, through
\* any order of admissions, preemptions, aborts and releases.
THEOREM NoRequestIsLost == SchedulerSpec => []LiveRequestsAreQueued
<1>1. SchedulerInv => LiveRequestsAreQueued
  BY InvGivesQueues DEF SchedulerInv, QueueTypes
<1> QED BY <1>1, SchedulerInvariant, PTL

\* max_num_seqs bounds the running sequences.
THEOREM RunningIsBounded == SchedulerSpec => []RunningWithinLimit
<1>1. SchedulerInv => RunningWithinLimit
  BY DEF SchedulerInv, ActiveOK, RunningWithinLimit
<1> QED BY <1>1, SchedulerInvariant, PTL

\* ensure_blocks_for_chunk finds the blocks of the chunk in the table that
\* admit made: the except branch around it in schedule() is dead code.
THEOREM ChunksAreCovered == SchedulerSpec => []ChunkIsCovered
BY InvGivesChunk, SchedulerInvariant, PTL

\* Between the calls and outside of sampling and releasing, a sequence holds
\* blocks exactly while it is being prefilled or decoded.
THEOREM StatusTellsBlocks == SchedulerSpec => []BlocksFollowStatus
BY InvGivesTables, SchedulerInvariant, PTL

\* The reference counts stay exact under the scheduler's own sequence of
\* calls, which is not that of PoolSpec: an abort, or a preemption of a
\* sequence that was scheduled already, included.
THEOREM SchedulerKeepsRefCounts == SchedulerSpec => []RefCountsExact
<1>1. SchedulerInv => RefCountsExact
  BY InvImplies DEF SchedulerInv
<1> QED BY <1>1, SchedulerInvariant, PTL

\* Every admission that schedule() starts has the blocks it needs.
THEOREM SchedulerAdmits == SchedulerSpec => []AdmitNeverRunsDry
<1>1. SchedulerInv => AdmitNeverRunsDry
  BY InvImplies DEF SchedulerInv
<1> QED BY <1>1, SchedulerInvariant, PTL

-----------------------------------------------------------------------------
(***************************************************************************)
(* The step that schedule() puts together.  A sum over its items is a      *)
(* recursive function, and what such a function computes takes an          *)
(* induction; here the program makes it, one item at a time: the invariant *)
(* says that a running total exists and that each one ends in the tokens   *)
(* that the budget has lost.                                               *)
(***************************************************************************)

\* f is a running total of the tokens of the items of q.
IsTotal(f, q) == f = [k \in 0 .. Len(q) |-> IF k = 0 THEN 0 ELSE f[k - 1] + q[k].n]

\* The items of q have m tokens: a running total exists, and each ends in m.
TokensOf(q, m) ==
    /\ \E f : IsTotal(f, q)
    /\ \A f : IsTotal(f, q) => f[Len(q)] = m

LEMMA NoItemsNoTokens == TokensOf(<<>>, 0)
<1>1. Len(<<>>) = 0 /\ 0 .. 0 = {0}
  BY EmptySeq
<1>2. IsTotal([k \in {0} |-> 0], <<>>)
  BY <1>1 DEF IsTotal
<1>3. ASSUME NEW f, IsTotal(f, <<>>) PROVE f[0] = 0
  BY <1>1, <1>3 DEF IsTotal
<1> QED BY <1>1, <1>2, <1>3 DEF TokensOf

\* One more item adds its tokens: the induction of the running total, one
\* step of the program at a time.
LEMMA ItemAddsTokens ==
    ASSUME NEW q \in Seq(Items), NEW item \in Items, NEW m \in Nat, TokensOf(q, m)
    PROVE  TokensOf(Append(q, item), m + item.n)
<1> DEFINE r == Append(q, item)
<1>1. /\ Len(q) \in Nat /\ Len(r) = Len(q) + 1
      /\ \A k \in 1 .. Len(q) : r[k] = q[k]
      /\ r[Len(q) + 1] = item
  OBVIOUS
<1> HIDE DEF r
<1>2. ASSUME NEW g, IsTotal(g, q)
      PROVE  IsTotal([k \in 0 .. Len(r) |-> IF k <= Len(q) THEN g[k] ELSE m + item.n], r)
  <2> DEFINE f == [k \in 0 .. Len(r) |-> IF k <= Len(q) THEN g[k] ELSE m + item.n]
  <2>1. g[Len(q)] = m
    BY <1>2 DEF TokensOf
  <2>2. ASSUME NEW k \in 0 .. Len(r)
        PROVE  f[k] = IF k = 0 THEN 0 ELSE f[k - 1] + r[k].n
    <3>1. CASE k = 0
      <4>1. g[0] = 0 /\ f[0] = g[0]
        BY <1>1, <1>2 DEF IsTotal
      <4> QED BY <3>1, <4>1
    <3>2. CASE k \in 1 .. Len(q)
      <4>1. k - 1 \in 0 .. Len(q) /\ k \in 0 .. Len(q) /\ k # 0
        BY <1>1, <3>2
      <4>2. g[k] = g[k - 1] + q[k].n
        BY <1>2, <4>1 DEF IsTotal
      <4>3. f[k] = g[k] /\ f[k - 1] = g[k - 1]
        BY <1>1, <4>1
      <4> QED BY <1>1, <3>2, <4>1, <4>2, <4>3
    <3>3. CASE k = Len(q) + 1
      <4>1. f[k] = m + item.n /\ f[k - 1] = g[Len(q)]
        BY <1>1, <3>3
      <4> QED BY <1>1, <2>1, <3>3, <4>1
    <3> QED BY <1>1, <3>1, <3>2, <3>3
  <2> QED BY <2>2 DEF IsTotal
<1>3. ASSUME NEW f, IsTotal(f, r)
      PROVE  f[Len(r)] = m + item.n
  <2> DEFINE g == [k \in 0 .. Len(q) |-> f[k]]
  <2>1. ASSUME NEW k \in 0 .. Len(r) PROVE f[k] = IF k = 0 THEN 0 ELSE f[k - 1] + r[k].n
    BY <1>3, <2>1 DEF IsTotal
  <2>2. ASSUME NEW k \in 0 .. Len(q)
        PROVE  g[k] = IF k = 0 THEN 0 ELSE g[k - 1] + q[k].n
    <3>1. k \in 0 .. Len(r) /\ g[k] = f[k]
      BY <1>1
    <3>2. CASE k = 0
      BY <2>1, <3>1, <3>2
    <3>3. CASE k # 0
      <4>1. k - 1 \in 0 .. Len(q) /\ k \in 1 .. Len(q)
        BY <1>1, <3>3
      <4> QED BY <1>1, <2>1, <3>1, <3>3, <4>1
    <3> QED BY <3>2, <3>3
  <2>3. IsTotal(g, q)
    BY <2>2 DEF IsTotal
  <2>4. g[Len(q)] = m
    BY <2>3 DEF TokensOf
  <2>5. f[Len(q)] = m
    BY <1>1, <2>4
  <2>6. Len(q) + 1 \in 0 .. Len(r) /\ Len(q) + 1 # 0 /\ Len(q) + 1 - 1 = Len(q)
    BY <1>1
  <2> QED BY <1>1, <2>1, <2>5, <2>6
<1>4. \E f : IsTotal(f, r)
  <2>1. PICK g : IsTotal(g, q)
    BY DEF TokensOf
  <2> QED BY <1>2, <2>1
<1>5. TokensOf(r, m + item.n)
  BY <1>3, <1>4 DEF TokensOf
<1> QED BY <1>5 DEF r

SchedulePhases == {"decode", "retry", "prefill", "ensure", "scheduled"}

\* What a step has scheduled and what is left of its budget make up
\* max_num_batched_tokens.
BudgetOK ==
    pc \in SchedulePhases =>
        \E m \in Nat : TokensOf(scheduled, m) /\ m + budget = MaxNumBatchedTokens

LEMMA BudgetStep ==
    ASSUME SchedulerInv, BudgetOK, [SchedulerNext]_schedulerVars
    PROVE  BudgetOK'
<1>0. /\ QueueTypes /\ StepOK /\ PoolInv
      /\ budget \in Nat /\ MaxNumBatchedTokens \in Nat
  BY SchedulerConstants DEF SchedulerInv, QueueTypes
<1>1. CASE UNCHANGED <<pc, scheduled, budget>>
  BY <1>1 DEF BudgetOK, TokensOf, IsTotal
<1>2. CASE StartSchedule
  <2>1. scheduled' = <<>> /\ budget' = MaxNumBatchedTokens
    BY <1>2 DEF StartSchedule
  <2>2. 0 + MaxNumBatchedTokens = MaxNumBatchedTokens
    BY <1>0
  <2> QED BY <2>1, <2>2, NoItemsNoTokens DEF BudgetOK, TokensOf, IsTotal
<1>3. ASSUME NEW item \in Items, pc \in SchedulePhases,
             scheduled' = Append(scheduled, item), budget' = budget - item.n
      PROVE  BudgetOK'
  <2>1. PICK m \in Nat : TokensOf(scheduled, m) /\ m + budget = MaxNumBatchedTokens
    BY <1>3 DEF BudgetOK
  <2>2. item.n \in Nat
    BY DEF Items
  <2>3. m + item.n \in Nat /\ m + item.n + budget' = MaxNumBatchedTokens
    BY <1>0, <1>3, <2>1, <2>2
  <2>4. scheduled \in Seq(Items)
    BY <1>0 DEF QueueTypes
  <2>5. TokensOf(Append(scheduled, item), m + item.n)
    BY <2>1, <2>4, ItemAddsTokens
  <2>6. TokensOf(scheduled, m + item.n)'
    BY <1>3, <2>5 DEF TokensOf, IsTotal
  <2> QED BY <2>3, <2>6 DEF BudgetOK
<1>4. CASE DecodeSchedule
  <2>1. Head(todo) \in Seqs /\ todo # <<>>
    BY <1>0, <1>4, Heads DEF DecodeSchedule, DecodeTurn, StepOK
  <2>2. Item(Head(todo), 1, FALSE) \in Items /\ Item(Head(todo), 1, FALSE).n = 1
    BY <2>1 DEF Item, Items
  <2>3. pc \in SchedulePhases
    BY <1>4 DEF DecodeSchedule, DecodeTurn, SchedulePhases
  <2> QED BY <1>3, <1>4, <2>2, <2>3 DEF DecodeSchedule
<1>5. CASE ScheduleChunk
  <2>1. Head(waiting) \in Seqs /\ ChunkOf(Head(waiting)) \in Nat \ {0}
    BY <1>0, <1>5, Heads, ChunkBounds DEF ScheduleChunk, StepOK, PoolInv
  <2>2. /\ Item(Head(waiting), ChunkOf(Head(waiting)), TRUE) \in Items
        /\ Item(Head(waiting), ChunkOf(Head(waiting)), TRUE).n = ChunkOf(Head(waiting))
    BY <2>1 DEF Item, Items
  <2> QED BY <1>3, <1>5, <2>2 DEF ScheduleChunk, SchedulePhases
<1>6. CASE \/ DecodeSkip \/ DecodePreempt \/ DecodeGiveUp \/ EndDecode
           \/ AdmitHead \/ PreemptForAdmission \/ AdmissionGiveUp
           \/ PlanChunk \/ NothingToPrefill \/ EndPrefill
  <2>1. pc \in SchedulePhases /\ UNCHANGED <<scheduled, budget>>
    BY <1>6 DEF DecodeSkip, DecodePreempt, DecodeTurn, DecodeGiveUp, EndDecode,
       AdmitHead, PreemptForAdmission, AdmissionGiveUp, PlanChunk, NothingToPrefill,
       EndPrefill, NeedsAdmission, PrefillTurn, SchedulePhases, stepVars
  <2> QED BY <2>1 DEF BudgetOK, TokensOf, IsTotal
<1>7. CASE FinalizeStep \/ (CallerStep /\ ~StartSchedule /\ ~AwaitWork)
  <2>1. pc' \notin SchedulePhases
    BY <1>7 DEF FinalizeStep, FinalizeRegister, FinalizeKeep, FinalizeRelease,
       FinalizeEnd, CallerStep, SkipEmptyStep, RunModel, Crash, CountItem, CountEnd,
       SampleItem, SampleSkip, SampleEnd, SchedulePhases
  <2> QED BY <2>1 DEF BudgetOK
<1>8. CASE BlockManagerStep \/ AwaitWork \/ UNCHANGED schedulerVars
  BY <1>1, <1>8 DEF BlockManagerStep, AwaitWork, schedulerVars, stepVars
<1>9. ASSUME NEW s \in Seqs, Request(s) PROVE BudgetOK'
  BY <1>1, <1>9 DEF Request, Add, AbortWaiting, AbortRunning, stepVars
<1> QED BY <1>2, <1>4, <1>5, <1>6, <1>7, <1>8, <1>9
        DEF SchedulerNext, SchedulerStep, ScheduleStep

\* The items of phase 1 in the order of running as phase 1 found it, R0: what
\* is scheduled lies before what is still to come, and what was preempted
\* after what is still running.
DecodeOrder(R0) ==
    /\ NoDuplicates(R0)
    /\ Len(running) <= Len(R0)
    /\ \A i \in 1 .. Len(running) : running[i] = R0[i]
    /\ Len(todo) <= Len(R0)
    /\ \A i \in 1 .. Len(todo) : todo[i] = R0[Len(R0) - Len(todo) + i]
    /\ \A k \in DOMAIN scheduled :
          \E i \in 1 .. Len(running) :
              i <= Len(R0) - Len(todo) /\ scheduled[k].seq = R0[i]
    /\ \A s \in preempted :
          \E i \in 1 .. Len(R0) : i > Len(running) /\ s = R0[i]

DecodeOrderOK ==
    pc \in {"decode", "retry"} => \E R0 \in Seq(Seqs) : DecodeOrder(R0)

\* A sequence whose turn it is stands right behind what phase 1 is done with,
\* and is running.
LEMMA TurnIsNext ==
    ASSUME SchedulerInv, NEW R0 \in Seq(Seqs), DecodeOrder(R0),
           todo # <<>>, status[Head(todo)] = "RUNNING"
    PROVE  /\ Len(R0) - Len(todo) + 1 <= Len(running)
           /\ Head(todo) = R0[Len(R0) - Len(todo) + 1]
           /\ Len(Tail(todo)) = Len(todo) - 1
           /\ \A i \in 1 .. Len(todo) - 1 : Tail(todo)[i] = R0[Len(R0) - Len(todo) + 1 + i]
<1>1. /\ todo \in Seq(Seqs) /\ running \in Seq(Seqs) /\ QueuesOK
      /\ Len(todo) \in Nat \ {0} /\ Len(running) \in Nat /\ Len(R0) \in Nat
  BY EmptySeq DEF SchedulerInv, QueueTypes
<1>2. /\ Head(todo) = todo[1] /\ 1 \in 1 .. Len(todo) /\ Head(todo) \in Seqs
      /\ Len(Tail(todo)) = Len(todo) - 1
      /\ \A i \in 1 .. Len(todo) - 1 : Tail(todo)[i] = todo[i + 1]
  BY <1>1
<1>3. Head(todo) = R0[Len(R0) - Len(todo) + 1]
  BY <1>2 DEF DecodeOrder
<1>4. Contains(running, Head(todo))
  BY <1>1, <1>2 DEF QueuesOK
<1>5. PICK j \in 1 .. Len(running) : running[j] = Head(todo)
  BY <1>1, <1>4 DEF Contains
<1>6. j = Len(R0) - Len(todo) + 1
  <2>1. R0[j] = R0[Len(R0) - Len(todo) + 1] /\ j \in 1 .. Len(R0)
    BY <1>1, <1>3, <1>5 DEF DecodeOrder
  <2>2. Len(R0) - Len(todo) + 1 \in 1 .. Len(R0)
    BY <1>1 DEF DecodeOrder
  <2>3. DOMAIN R0 = 1 .. Len(R0) /\ NoDuplicates(R0)
    BY DEF DecodeOrder
  <2> QED BY <2>1, <2>2, <2>3 DEF NoDuplicates
<1>7. ASSUME NEW i \in 1 .. Len(todo) - 1
      PROVE  Tail(todo)[i] = R0[Len(R0) - Len(todo) + 1 + i]
  <2>1. i + 1 \in 1 .. Len(todo) /\ Tail(todo)[i] = todo[i + 1]
    BY <1>1, <1>2
  <2>2. todo[i + 1] = R0[Len(R0) - Len(todo) + (i + 1)]
    BY <2>1 DEF DecodeOrder
  <2>3. Len(R0) - Len(todo) + (i + 1) = Len(R0) - Len(todo) + 1 + i
    BY <1>1
  <2> QED BY <2>1, <2>2, <2>3
<1> QED BY <1>1, <1>2, <1>3, <1>5, <1>6, <1>7

LEMMA DecodeOrderStep ==
    ASSUME SchedulerInv, SchedulerInv', DecodeOrderOK, [SchedulerNext]_schedulerVars
    PROVE  DecodeOrderOK'
<1>0. /\ QueueTypes /\ StepOK /\ QueuesOK /\ TablesOK
      /\ todo \in Seq(Seqs) /\ running \in Seq(Seqs) /\ scheduled \in Seq(Items)
      /\ Len(todo) \in Nat /\ Len(running) \in Nat
  BY DEF SchedulerInv, QueueTypes
<1>1. CASE UNCHANGED <<pc, running, todo, scheduled, preempted>>
  BY <1>1 DEF DecodeOrderOK, DecodeOrder
<1>2. CASE StartSchedule
  <2>1. /\ todo' = running /\ running' = running /\ scheduled' = <<>> /\ preempted' = {}
    BY <1>2 DEF StartSchedule, queueVars
  <2>2. NoDuplicates(running)
    BY <1>0 DEF QueuesOK
  <2>3. DecodeOrder(running)'
    <3>1. Len(running) - Len(running) = 0 /\ \A i \in 1 .. Len(running) : 0 + i = i
      BY <1>0
    <3>2. DOMAIN scheduled' = {}
      BY <2>1, EmptySeq
    <3> QED BY <1>0, <2>1, <2>2, <3>1, <3>2 DEF DecodeOrder
  <2>4. DecodeOrder(running') \in BOOLEAN
    BY DEF DecodeOrder
  <2> QED BY <1>0, <2>1, <2>3 DEF DecodeOrderOK
<1>3. ASSUME pc \in {"decode", "retry"}, NEW R0 \in Seq(Seqs), DecodeOrder(R0)
      PROVE  DecodeOrderOK'
  <2>0. /\ Len(R0) \in Nat /\ Len(running) <= Len(R0) /\ Len(todo) <= Len(R0)
        /\ \A i \in 1 .. Len(running) : running[i] = R0[i]
        /\ NoDuplicates(R0)
    BY <1>3 DEF DecodeOrder
  <2>1. ASSUME todo # <<>>, todo' = Tail(todo), UNCHANGED <<running, scheduled, preempted>>
        PROVE  DecodeOrder(R0)'
    <3>1. /\ Len(Tail(todo)) = Len(todo) - 1
          /\ \A i \in 1 .. Len(todo) - 1 :
                Tail(todo)[i] = todo[i + 1] /\ i + 1 \in 1 .. Len(todo)
      BY <1>0, <2>1
    <3>2. \A i \in 1 .. Len(todo') : todo'[i] = R0[Len(R0) - Len(todo') + i]
      <4>1. SUFFICES ASSUME NEW i \in 1 .. Len(todo) - 1
                     PROVE  Tail(todo)[i] = R0[Len(R0) - (Len(todo) - 1) + i]
        BY <2>1, <3>1
      <4>2. todo[i + 1] = R0[Len(R0) - Len(todo) + (i + 1)]
        BY <1>3, <3>1 DEF DecodeOrder
      <4>3. Len(R0) - Len(todo) + (i + 1) = Len(R0) - (Len(todo) - 1) + i
        BY <1>0, <2>0
      <4> QED BY <3>1, <4>2, <4>3
    <3>3. ASSUME NEW k \in DOMAIN scheduled
          PROVE  \E i \in 1 .. Len(running) :
                    i <= Len(R0) - Len(todo') /\ scheduled[k].seq = R0[i]
      <4>1. PICK i \in 1 .. Len(running) :
                    i <= Len(R0) - Len(todo) /\ scheduled[k].seq = R0[i]
        BY <1>3 DEF DecodeOrder
      <4> QED BY <1>0, <2>0, <2>1, <3>1, <4>1
    <3>4. Len(todo') <= Len(R0)
      BY <1>0, <2>0, <2>1, <3>1
    <3> QED BY <1>3, <2>1, <3>2, <3>3, <3>4 DEF DecodeOrder
  <2>2. CASE DecodeSkip \/ DecodeGiveUp
    <3>1. todo # <<>> /\ todo' = Tail(todo) /\ UNCHANGED <<running, scheduled, preempted>>
      BY <1>0, <2>2 DEF DecodeSkip, DecodeGiveUp, queueVars, StepOK
    <3> QED BY <2>1, <3>1 DEF DecodeOrderOK
  <2>3. CASE DecodeSchedule
    <3>0. Item(Head(todo), 1, FALSE) \in Items
      BY <1>0, <2>3, Heads DEF DecodeSchedule, DecodeTurn, StepOK, Item, Items
    <3>1. /\ todo # <<>> /\ status[Head(todo)] = "RUNNING"
          /\ scheduled' = Append(scheduled, Item(Head(todo), 1, FALSE))
          /\ todo' = Tail(todo) /\ UNCHANGED <<running, preempted>>
      BY <1>0, <2>3 DEF DecodeSchedule, DecodeTurn, queueVars, StepOK, TablesOK
    <3>2. /\ Len(R0) - Len(todo) + 1 <= Len(running)
          /\ Head(todo) = R0[Len(R0) - Len(todo) + 1]
          /\ Len(Tail(todo)) = Len(todo) - 1
          /\ \A i \in 1 .. Len(todo) - 1 :
                Tail(todo)[i] = R0[Len(R0) - Len(todo) + 1 + i]
      BY <1>3, <3>1, TurnIsNext
    <3>3. ASSUME NEW k \in DOMAIN scheduled'
          PROVE  \E i \in 1 .. Len(running) :
                    i <= Len(R0) - Len(todo') /\ scheduled'[k].seq = R0[i]
      <4>1. CASE k \in DOMAIN scheduled
        <5>1. PICK i \in 1 .. Len(running) :
                      i <= Len(R0) - Len(todo) /\ scheduled[k].seq = R0[i]
          BY <1>3, <4>1 DEF DecodeOrder
        <5>2. scheduled'[k] = scheduled[k]
          <6>1. PICK item \in Items : scheduled' = Append(scheduled, item)
            BY <3>0, <3>1
          <6> QED BY <1>0, <4>1, <6>1, AppendEntries
        <5>3. i <= Len(R0) - Len(todo')
          BY <1>0, <2>0, <3>1, <3>2, <5>1
        <5> QED BY <5>1, <5>2, <5>3
      <4>2. CASE k \notin DOMAIN scheduled
        <5>1. scheduled'[k].seq = Head(todo)
          BY <1>0, <3>0, <3>1, <4>2, AppendEntries DEF Item
        <5>2. Len(R0) - Len(todo) + 1 \in 1 .. Len(running)
          BY <1>0, <2>0, <3>2
        <5>3. Len(R0) - Len(todo) + 1 <= Len(R0) - Len(todo')
          BY <1>0, <2>0, <3>1, <3>2
        <5> QED BY <3>2, <5>1, <5>2, <5>3
      <4> QED BY <4>1, <4>2
    <3>4. \A i \in 1 .. Len(todo') : todo'[i] = R0[Len(R0) - Len(todo') + i]
      <4>1. Len(R0) - Len(todo') = Len(R0) - Len(todo) + 1
        BY <1>0, <2>0, <3>1, <3>2
      <4> QED BY <3>1, <3>2, <4>1
    <3>5. Len(todo') <= Len(R0)
      BY <1>0, <2>0, <3>1, <3>2
    <3>6. DecodeOrder(R0)'
      BY <1>3, <3>1, <3>3, <3>4, <3>5 DEF DecodeOrder
    <3> QED BY <3>6 DEF DecodeOrderOK
  <2>4. CASE DecodePreempt
    <3>1. /\ todo # <<>> /\ status[Head(todo)] = "RUNNING" /\ running # <<>>
          /\ running' = Front(running) /\ preempted' = preempted \cup {Last(running)}
          /\ scheduled' = scheduled
          /\ todo' = todo \/ todo' = Tail(todo)
      BY <2>4 DEF DecodePreempt, DecodeTurn, PreemptOne
    <3>2. Len(R0) - Len(todo) + 1 <= Len(running)
      BY <1>3, <3>1, TurnIsNext
    <3>3. /\ Len(running') = Len(running) - 1
          /\ \A i \in 1 .. Len(running) - 1 : running'[i] = running[i]
          /\ Last(running) = running[Len(running)]
          /\ Len(running) \in 1 .. Len(running)
      BY <1>0, <3>1, FrontEntries
    <3>4. /\ Len(Tail(todo)) = Len(todo) - 1
          /\ \A i \in 1 .. Len(todo) - 1 :
                Tail(todo)[i] = todo[i + 1] /\ i + 1 \in 1 .. Len(todo)
      BY <1>0, <3>1
    <3>5. Len(running') <= Len(R0) /\ \A i \in 1 .. Len(running') : running'[i] = R0[i]
      BY <1>0, <2>0, <3>3
    <3>6. /\ Len(todo') <= Len(R0) /\ Len(todo') <= Len(todo) /\ Len(todo') \in Nat
          /\ \A i \in 1 .. Len(todo') : todo'[i] = R0[Len(R0) - Len(todo') + i]
      <4>1. CASE todo' = todo
        BY <1>0, <1>3, <4>1 DEF DecodeOrder
      <4>2. CASE todo' = Tail(todo)
        <5>1. ASSUME NEW i \in 1 .. Len(todo) - 1
              PROVE  Tail(todo)[i] = R0[Len(R0) - (Len(todo) - 1) + i]
          <6>1. todo[i + 1] = R0[Len(R0) - Len(todo) + (i + 1)]
            BY <1>3, <3>4 DEF DecodeOrder
          <6>2. Len(R0) - Len(todo) + (i + 1) = Len(R0) - (Len(todo) - 1) + i
            BY <1>0, <2>0
          <6> QED BY <3>4, <6>1, <6>2
        <5>2. Len(todo') = Len(todo) - 1
          BY <3>4, <4>2
        <5>3. Len(todo') \in Nat
          BY <1>0, <3>1, <5>2, EmptySeq
        <5>4. Len(todo') <= Len(R0) /\ Len(todo') <= Len(todo)
          BY <1>0, <2>0, <5>2
        <5> QED BY <4>2, <5>1, <5>2, <5>3, <5>4
      <4> QED BY <3>1, <4>1, <4>2
    <3>7. ASSUME NEW k \in DOMAIN scheduled
          PROVE  \E i \in 1 .. Len(running') :
                    i <= Len(R0) - Len(todo') /\ scheduled[k].seq = R0[i]
      <4>1. PICK i \in 1 .. Len(running) :
                    i <= Len(R0) - Len(todo) /\ scheduled[k].seq = R0[i]
        BY <1>3 DEF DecodeOrder
      <4>2. i \in 1 .. Len(running') /\ i <= Len(R0) - Len(todo')
        BY <1>0, <2>0, <3>2, <3>3, <3>6, <4>1
      <4> QED BY <4>1, <4>2
    <3>8. ASSUME NEW s \in preempted'
          PROVE  \E i \in 1 .. Len(R0) : i > Len(running') /\ s = R0[i]
      <4>1. CASE s \in preempted
        <5>1. PICK i \in 1 .. Len(R0) : i > Len(running) /\ s = R0[i]
          BY <1>3, <4>1 DEF DecodeOrder
        <5> QED BY <1>0, <3>3, <5>1
      <4>2. CASE s = Last(running)
        <5>1. s = R0[Len(running)] /\ Len(running) \in 1 .. Len(R0)
          BY <1>0, <2>0, <3>3, <4>2
        <5> QED BY <1>0, <3>3, <5>1
      <4> QED BY <3>1, <4>1, <4>2
    <3>9. DecodeOrder(R0)'
      BY <2>0, <3>1, <3>5, <3>6, <3>7, <3>8 DEF DecodeOrder
    <3> QED BY <3>9 DEF DecodeOrderOK
  <2>5. CASE EndDecode
    BY <2>5 DEF EndDecode, DecodeOrderOK
  <2>6. CASE BlockManagerStep
    BY <1>1, <2>6 DEF BlockManagerStep, queueVars, stepVars
  <2>7. CASE ~BlockManagerStep
    <3>1. DecodeSkip \/ DecodeGiveUp \/ DecodeSchedule \/ DecodePreempt \/ EndDecode
          \/ pc' = "crashed" \/ UNCHANGED schedulerVars
      BY <1>3, <2>7 DEF SchedulerNext, SchedulerStep, ScheduleStep, AdmitHead,
         PreemptForAdmission, AdmissionGiveUp, PlanChunk, NothingToPrefill,
         ScheduleChunk, EndPrefill, NeedsAdmission, PrefillTurn, FinalizeStep,
         FinalizeRegister, FinalizeKeep, FinalizeRelease, FinalizeEnd, CallerStep,
         StartSchedule, AwaitWork, SkipEmptyStep, RunModel, Crash, CountItem, CountEnd,
         SampleItem, SampleSkip, SampleEnd, Request
    <3> QED BY <1>1, <2>2, <2>3, <2>4, <2>5, <3>1
            DEF DecodeOrderOK, schedulerVars, queueVars, stepVars
  <2> QED BY <2>6, <2>7
<1>4. CASE pc \in {"decode", "retry"}
  BY <1>3, <1>4 DEF DecodeOrderOK
<1>5. CASE pc \notin {"decode", "retry"} /\ ~StartSchedule
  <2>1. pc' \notin {"decode", "retry"}
    BY <1>5 DEF SchedulerNext, SchedulerStep, BlockManagerStep, ScheduleStep, DecodeSkip,
       DecodeSchedule, DecodePreempt, DecodeTurn, DecodeGiveUp, EndDecode, AdmitHead,
       PreemptForAdmission, AdmissionGiveUp, PlanChunk, NothingToPrefill, ScheduleChunk,
       EndPrefill, NeedsAdmission, PrefillTurn, FinalizeStep, FinalizeRegister,
       FinalizeKeep, FinalizeRelease, FinalizeEnd, CallerStep, AwaitWork, SkipEmptyStep,
       RunModel, Crash, CountItem, CountEnd, SampleItem, SampleSkip, SampleEnd, Request,
       Add, AbortWaiting, AbortRunning, schedulerVars
  <2> QED BY <2>1 DEF DecodeOrderOK
<1> QED BY <1>2, <1>4, <1>5

LEMMA OrderKeepsSchedule ==
    ASSUME SchedulerInv, DecodeOrderOK
    PROVE  DecodeKeepsItsSchedule
<1> SUFFICES ASSUME pc \in {"decode", "retry"}, NEW k \in DOMAIN scheduled,
                    scheduled[k].seq \in preempted
             PROVE  FALSE
  BY DEF DecodeKeepsItsSchedule
<1>1. PICK R0 \in Seq(Seqs) : DecodeOrder(R0)
  BY DEF DecodeOrderOK
<1>2. PICK i \in 1 .. Len(running) : scheduled[k].seq = R0[i]
  BY <1>1 DEF DecodeOrder
<1>3. PICK j \in 1 .. Len(R0) : j > Len(running) /\ scheduled[k].seq = R0[j]
  BY <1>1 DEF DecodeOrder
<1>4. /\ DOMAIN R0 = 1 .. Len(R0) /\ NoDuplicates(R0) /\ Len(running) <= Len(R0)
      /\ Len(R0) \in Nat /\ Len(running) \in Nat
  BY <1>1 DEF DecodeOrder, SchedulerInv, QueueTypes
<1>5. i \in DOMAIN R0 /\ j \in DOMAIN R0 /\ i # j
  BY <1>2, <1>3, <1>4
<1> QED BY <1>2, <1>3, <1>4, <1>5 DEF NoDuplicates

LEMMA BudgetGivesTokens ==
    ASSUME BudgetOK, budget \in Nat
    PROVE  TokensWithinBudget
<1> SUFFICES ASSUME pc = "scheduled"
             PROVE  ScheduledTokens[Len(scheduled)] <= MaxNumBatchedTokens
  BY DEF TokensWithinBudget
<1>1. PICK m \in Nat : TokensOf(scheduled, m) /\ m + budget = MaxNumBatchedTokens
  BY DEF BudgetOK, SchedulePhases
<1>2. IsTotal(ScheduledTokens, scheduled)
  BY <1>1 DEF TokensOf, IsTotal, ScheduledTokens
<1>3. ScheduledTokens[Len(scheduled)] = m
  BY <1>1, <1>2 DEF TokensOf
<1> QED BY <1>1, <1>3

StepInv == SchedulerInv /\ BudgetOK /\ DecodeOrderOK

\* What a step holds while it is put together, besides SchedulerInv: its
\* budget is spent exactly, and phase 1 keeps to the order of running.
THEOREM StepInvariant == SchedulerSpec => []StepInv
<1>1. SchedulerInit => StepInv
  BY SchedulerInitInv DEF StepInv, BudgetOK, DecodeOrderOK, SchedulePhases,
     SchedulerInit, QueuesInit
<1>2. StepInv /\ [SchedulerNext]_schedulerVars => StepInv'
  BY SchedulerStepInv, BudgetStep, DecodeOrderStep DEF StepInv
<1> QED BY <1>1, <1>2, PTL DEF SchedulerSpec

\* No step runs more tokens than max_num_batched_tokens.
THEOREM StepsAreWithinBudget == SchedulerSpec => []TokensWithinBudget
<1>1. StepInv => TokensWithinBudget
  BY BudgetGivesTokens DEF StepInv, SchedulerInv, QueueTypes
<1> QED BY <1>1, StepInvariant, PTL

\* Phase 1 never preempts what it has scheduled, however often it preempts.
THEOREM VictimsAreUnscheduled == SchedulerSpec => []DecodeKeepsItsSchedule
<1>1. StepInv => DecodeKeepsItsSchedule
  BY OrderKeepsSchedule DEF StepInv
<1> QED BY <1>1, StepInvariant, PTL
=============================================================================
