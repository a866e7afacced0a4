----------------------------- MODULE EngineProofs -----------------------------
(***************************************************************************)
(* Safety of the engine around the scheduler, for every number of          *)
(* requests, blocks and limits: the pool stays exact although requests are *)
(* added and aborted at every await of the run loop, also while the        *)
(* executor runs a batch; running stays within max_num_seqs; and what      *)
(* _sequences knows the scheduler has.                                     *)
(***************************************************************************)
EXTENDS Engine, SchedulerProofs

-----------------------------------------------------------------------------
(***************************************************************************)
(* The inductive invariant.  In schedule(), and where it begins and ends,  *)
(* it is SchedulerInv and says nothing is left over from the step before;  *)
(* after the forward it says what is still to be applied, freed and sent.  *)
(***************************************************************************)

SchedulePcs == {"idle", "decode", "retry", "prefill", "ensure", "scheduled"}

RequestPcs == {"forward", "yield", "pause", "waiting", "stopped", "crashed"}

ApplyPcs == {"apply", "register", "check"}

\* QueueTypes, whatever pc is.
QueueData ==
    /\ waiting \in Seq(Seqs)
    /\ running \in Seq(Seqs)
    /\ status \in [Seqs -> Statuses]
    /\ finishReason \in [Seqs -> FinishReasons]
    /\ todo \in Seq(Seqs)
    /\ budget \in Nat
    /\ active \in Nat
    /\ scheduled \in Seq(Items)
    /\ preempted \subseteq Seqs
    /\ rest \in Seq(Items)

EngineData ==
    /\ pc \in EngineSteps
    /\ kv \in [Slots -> Hashes]
    /\ modelInput \in Seq(Segments)
    /\ DOMAIN newTokens \subseteq Seqs
    /\ newTokens \in [DOMAIN newTokens -> Tokens]
    /\ finishedNow \in Seq(Seqs)
    /\ toFree \in Seq(Seqs)
    /\ stream \in [Seqs -> Seq(StreamItems)]
    /\ known \subseteq Seqs
    /\ wake \in BOOLEAN
    /\ stop \in BOOLEAN

\* Which call can be in progress where the loop stands.  A request's free
\* runs at an await only, or once the loop has ended.
EngineStepOK ==
    /\ pc \in {"idle", "scheduled", "count", "apply", "register", "emit"} => call = Idle
    /\ pc \in RequestPcs \cup {"free"} => call.op \in {"none", "free"}
    /\ pc = "check" => call.op \in {"none", "register"}
    /\ pc \in {"register", "check"} => rest # <<>>
    /\ pc = "retry" => todo # <<>> /\ budget > 0
    /\ pc = "ensure" =>
          /\ waiting # <<>>
          /\ active < MaxNumSeqs
          /\ ChunkOf(Head(waiting)) > 0
          /\ blockTable[Head(waiting)] # <<>>
          /\ call.op \in {"none", "ensure"}

\* s is in finished_now, or left in it; a loop that died frees nothing.
EngineReleasing(s) ==
    \/ pc = "crashed"
    \/ pc \in ApplyPcs /\ Contains(finishedNow, s)
    \/ pc = "free" /\ Contains(toFree, s)

RestIsScheduled ==
    pc \in ApplyPcs => \A k \in DOMAIN rest : InItems(scheduled, rest[k].seq)

\* finished_now holds sequences that were scheduled and got a token.
ListedFinished ==
    pc \in ApplyPcs \cup {"free"} =>
        \A s \in Seqs : Contains(finishedNow, s) =>
            status[s] = "FINISHED" /\ s \in DOMAIN newTokens /\ InItems(scheduled, s)

FinishedNowOK ==
    /\ RestIsScheduled
    /\ ListedFinished
    /\ pc = "free" => \A s \in Seqs : Contains(toFree, s) => Contains(finishedNow, s)
    /\ \A s \in Seqs :
          (Contains(running, s) /\ status[s] = "FINISHED") => EngineReleasing(s)

\* TableOK, with what the engine still has to free in place of what
\* finalize_step has to.
EngineTableOK(s) ==
    /\ \/ Admitting(s)
       \/ blockTable[s] = <<>>
       \/ Len(blockTable[s]) >= NumBlocksNeededFor(PromptLen(s))
    /\ status[s] \in {"PREFILLING", "RUNNING"} => Admitting(s) \/ blockTable[s] # <<>>
    /\ status[s] \in {"NONE", "WAITING", "PREEMPTED"}
          => Freeing(s) \/ blockTable[s] = <<>>
    /\ (status[s] = "FINISHED" /\ finishReason[s] # "abort")
          => Freeing(s) \/ blockTable[s] = <<>> \/ EngineReleasing(s)

EngineTablesOK ==
    /\ call.op = "admit" => status[call.seq] = "PREFILLING"
    /\ call.op = "free" => status[call.seq] \in {"PREEMPTED", "FINISHED"}
    /\ call.op = "ensure" => blockTable[call.seq] # <<>>
    /\ pc = "retry" => status[Head(todo)] = "RUNNING"
    /\ \A s \in Seqs : EngineTableOK(s)

\* A request that is known has not finished, but for the rest of the step in
\* which it does.
Leaving(s) ==
    \/ pc = "crashed"
    \/ pc \in ApplyPcs \cup {"free"} /\ Contains(finishedNow, s)
    \/ pc = "emit" /\ s \in DOMAIN newTokens /\ InItems(rest, s)

KnownOK ==
    \A s \in known : status[s] # "NONE" /\ (status[s] = "FINISHED" => Leaving(s))

EngineInv ==
    /\ PoolInv
    /\ QueueData
    /\ EngineData
    /\ EngineStepOK
    /\ QueuesOK
    /\ ActiveOK
    /\ FinishedNowOK
    /\ EngineTablesOK
    /\ KnownOK

-----------------------------------------------------------------------------
(* Inside schedule(). *)

\* What a step reads of the types.
LEMMA DataHeads ==
    ASSUME QueueData
    PROVE  /\ waiting # <<>> => Head(waiting) \in Seqs
           /\ rest # <<>> => /\ Head(rest) \in Items
                             /\ Tail(rest) \in Seq(Items)
                             /\ Head(rest).seq \in Seqs
                             /\ Head(rest).n \in Nat
                             /\ 1 \in DOMAIN rest /\ rest[1] = Head(rest)
                             /\ \A k \in DOMAIN Tail(rest) :
                                   k + 1 \in DOMAIN rest /\ Tail(rest)[k] = rest[k + 1]
<1>1. waiting # <<>> => Head(waiting) \in Seqs
  BY HeadTail DEF QueueData
<1>2. rest # <<>> => /\ Head(rest) \in Items
                     /\ Tail(rest) \in Seq(Items)
                     /\ 1 \in DOMAIN rest /\ rest[1] = Head(rest)
                     /\ \A k \in DOMAIN Tail(rest) :
                           k + 1 \in DOMAIN rest /\ Tail(rest)[k] = rest[k + 1]
  BY HeadTail DEF QueueData
<1> QED BY <1>1, <1>2 DEF Items

LEMMA CallInProgress == CallStep => call.op # "none" /\ call # Idle
BY IdleFields DEF CallStep, AdmitHit, AdmitMiss, AdmitFinish, EnsureTake, EnsureExit,
   FreeRelease, FreeClear, RegisterSkip, RegisterBlock, RegisterReturn

\* In schedule() the invariant is the scheduler's.
LEMMA ScheduleInv ==
    ASSUME EngineInv, pc \in SchedulePcs
    PROVE  SchedulerInv
<1>1. \A s : ~Releasing(s) /\ ~EngineReleasing(s)
  BY DEF Releasing, EngineReleasing, SchedulePcs, ApplyPcs
<1>2. QueueTypes
  BY DEF EngineInv, QueueData, QueueTypes, SchedulePcs, Steps
<1>3. StepOK
  BY DEF EngineInv, EngineStepOK, StepOK, SchedulePcs
<1>4. FinishedLeaves
  BY <1>1 DEF EngineInv, FinishedNowOK, FinishedLeaves, SchedulePcs
<1>5. TablesOK
  BY <1>1 DEF EngineInv, EngineTablesOK, EngineTableOK, TablesOK, TableOK
<1> QED BY <1>2, <1>3, <1>4, <1>5 DEF EngineInv, SchedulerInv

\* schedule() moves requests on, it starts or ends none.
LEMMA ScheduleStatus ==
    ASSUME QueueTypes, StepOK, ScheduleStep, NEW s \in Seqs
    PROVE  status'[s] = status[s] \/ status'[s] \in {"PREFILLING", "RUNNING", "PREEMPTED"}
<1>1. /\ status \in [Seqs -> Statuses]
      /\ waiting # <<>> => Head(waiting) \in Seqs
      /\ running # <<>> => Last(running) \in Seqs
  BY Heads DEF QueueTypes
<1>2. ASSUME running # <<>>, PreemptOne
      PROVE  status'[s] = status[s] \/ status'[s] \in {"PREFILLING", "RUNNING", "PREEMPTED"}
  BY <1>1, <1>2 DEF PreemptOne, SetStatus
<1>3. ASSUME waiting # <<>>, StartRunning
      PROVE  status'[s] = status[s] \/ status'[s] \in {"PREFILLING", "RUNNING", "PREEMPTED"}
  BY <1>1, <1>3 DEF StartRunning, SetStatus
<1>4. ASSUME AdmitHead
      PROVE  status'[s] = status[s] \/ status'[s] \in {"PREFILLING", "RUNNING", "PREEMPTED"}
  BY <1>1, <1>4 DEF AdmitHead, SetStatus, NeedsAdmission, PrefillTurn
<1> QED BY <1>2, <1>3, <1>4
        DEF ScheduleStep, DecodeSkip, DecodeSchedule, DecodePreempt, DecodeGiveUp,
            EndDecode, PreemptForAdmission, AdmissionGiveUp, PlanChunk,
            NothingToPrefill, ScheduleChunk, EndPrefill, PrefillTurn, queueVars, StepOK

LEMMA ScheduleKeeps ==
    ASSUME EngineInv, Schedule \/ (PoolCall /\ pc \in SchedulePcs)
    PROVE  EngineInv'
<1>1. /\ pc \in SchedulePcs /\ pc' \in SchedulePcs
      /\ pc' = "idle" => pc = "idle" /\ PoolCall
      /\ UNCHANGED <<kvVars, stepResults, requestVars>>
  <2>1. CASE PoolCall /\ pc \in SchedulePcs
    BY <2>1 DEF PoolCall
  <2>2. CASE Schedule
    BY <2>2 DEF Schedule, StartSchedule, ScheduleStep, DecodeSkip, DecodeSchedule,
       DecodeTurn, DecodePreempt, DecodeGiveUp, EndDecode, AdmitHead,
       PreemptForAdmission, AdmissionGiveUp, PlanChunk, NothingToPrefill,
       ScheduleChunk, EndPrefill, NeedsAdmission, PrefillTurn, SchedulePcs, stepVars
  <2> QED BY <2>1, <2>2
<1>2. SchedulerInv
  BY <1>1, ScheduleInv
<1>3. StartSchedule \/ ScheduleStep \/ BlockManagerStep
  BY DEF Schedule, PoolCall, BlockManagerStep
<1>4. SchedulerInv'
  <2>1. [SchedulerNext]_schedulerVars
    BY <1>3 DEF SchedulerNext, SchedulerStep, CallerStep
  <2> QED BY <1>2, <2>1, SchedulerStepInv
<1>5. pc' # "idle"
  <2>1. ~(pc = "idle" /\ PoolCall)
    BY CallInProgress DEF EngineInv, EngineStepOK, PoolCall
  <2> QED BY <1>1, <2>1
<1>6. \A s : ~Releasing(s)' /\ ~EngineReleasing(s)'
  BY <1>1 DEF Releasing, EngineReleasing, SchedulePcs, ApplyPcs
<1>7. PoolInv' /\ QueuesOK' /\ ActiveOK'
  BY <1>4 DEF SchedulerInv
<1>8. QueueData'
  BY <1>4 DEF SchedulerInv, QueueTypes, QueueData
<1>9. EngineData'
  BY <1>1 DEF EngineInv, EngineData, kvVars, stepResults, requestVars, SchedulePcs,
              EngineSteps
<1>10. EngineStepOK'
  BY <1>1, <1>4, <1>5 DEF SchedulerInv, StepOK, EngineStepOK, SchedulePcs, RequestPcs
<1>11. FinishedNowOK'
  BY <1>1, <1>4, <1>6 DEF SchedulerInv, FinishedLeaves, FinishedNowOK, RestIsScheduled,
                          ListedFinished, SchedulePcs, ApplyPcs
<1>12. EngineTablesOK'
  BY <1>4, <1>6 DEF SchedulerInv, TablesOK, TableOK, EngineTablesOK, EngineTableOK
<1>13. KnownOK'
  <2>1. ASSUME NEW s \in known PROVE status'[s] # "NONE" /\ status'[s] # "FINISHED"
    <3>1. s \in Seqs /\ status[s] # "NONE" /\ status[s] # "FINISHED"
      BY <1>1, <2>1 DEF EngineInv, EngineData, KnownOK, Leaving, SchedulePcs, ApplyPcs
    <3>2. status'[s] = status[s] \/ status'[s] \in {"PREFILLING", "RUNNING", "PREEMPTED"}
      BY <1>2, <1>3, <3>1, ScheduleStatus
         DEF SchedulerInv, StartSchedule, BlockManagerStep, queueVars
    <3> QED BY <3>1, <3>2
  <2> QED BY <1>1, <2>1 DEF KnownOK, requestVars
<1> QED BY <1>7, <1>8, <1>9, <1>10, <1>11, <1>12, <1>13 DEF EngineInv

-----------------------------------------------------------------------------
(* Outside of schedule(): the pool and the types. *)

\* The requests, and every step of the run loop that is not schedule()'s.
RequestStep ==
    \/ \E s \in Seqs : AddRequest(s) \/ Abort(s)
    \/ Shutdown

\* Steps that only move the loop on.
MoveStep ==
    \/ LoopExit \/ WaitForWork \/ Woken \/ WaitTimeout \/ ShutdownTimeout
    \/ Starved \/ Resume

ForwardStep == SubmitForward \/ ForwardDone \/ Count \/ SampleAll

ApplyStep == ApplyToken \/ ApplyRegister \/ ApplyStop \/ ApplyKeep \/ ApplyEnd

SendStep == FreeFinished \/ FreeEnd \/ EmitItem \/ EmitEnd

OutsideStep ==
    \/ PoolCall /\ pc \notin SchedulePcs
    \/ RequestStep \/ MoveStep \/ ForwardStep \/ ApplyStep \/ SendStep \/ LoopDies

LEMMA OutsidePool ==
    ASSUME EngineInv, OutsideStep
    PROVE  PoolInv'
<1>0. PoolInv /\ QueueData /\ EngineData /\ EngineStepOK
  BY DEF EngineInv
<1>1. CASE UNCHANGED poolVars
  BY <1>0, <1>1, StutterPreserves
<1>2. CASE PoolCall
  BY <1>0, <1>2, CallStepPreserves DEF PoolCall
<1>3. CASE Count
  <2>1. /\ Head(rest).seq \in Seqs /\ Head(rest).n \in Nat
        /\ numComputed \in [Seqs -> Nat]
    BY <1>0, <1>3, DataHeads DEF Count, CountItem, PoolInv, PoolTypeOK
  <2>2. /\ numComputed' = [numComputed EXCEPT ![Head(rest).seq] = @ + Head(rest).n]
        /\ call = Idle /\ call' = Idle
        /\ UNCHANGED <<prompt, output, blockTable, numCachedPrefix, pool>>
    BY <1>0, <1>3 DEF Count, CountItem, EngineStepOK
  <2>3. numComputed' \in [Seqs -> Nat]
    BY <2>1, <2>2
  <2> QED BY <1>0, <2>2, <2>3, CountStep
<1>4. CASE ApplyToken
  <2>1. Current \in Seqs /\ call = Idle /\ call' = Idle
        /\ numComputed' \in [Seqs -> Nat]
    BY <1>0, <1>4, DataHeads DEF ApplyToken, Current, EngineStepOK, PoolInv, PoolTypeOK
  <2>2. UNCHANGED <<prompt, blockTable, numComputed, numCachedPrefix, pool, call>>
    BY <1>4 DEF ApplyToken
  <2>3. CASE Current \in DOMAIN newTokens
    <3>1. newTokens[Current] \in Tokens
      BY <1>0, <2>3 DEF EngineData
    <3>2. AppendOutputToken(Current, newTokens[Current])
      BY <1>4, <2>3 DEF ApplyToken
    <3> QED BY <1>0, <2>1, <2>2, <3>1, <3>2, AppendOutputStep
  <2>4. CASE Current \notin DOMAIN newTokens
    BY <1>1, <1>4, <2>2, <2>4 DEF ApplyToken, poolVars, seqVars
  <2> QED BY <2>3, <2>4
<1>5. CASE ApplyRegister
  <2>1. Current \in Seqs
    BY <1>0, <1>5, DataHeads DEF ApplyRegister, Current, EngineStepOK
  <2> QED BY <1>0, <1>5, <2>1, RegisterPreserves DEF ApplyRegister
<1>6. CASE FreeFinished
  <2>1. Head(toFree) \in Seqs
    BY <1>0, <1>6, HeadTail DEF FreeFinished, EngineData
  <2>2. Free(Head(toFree)) /\ UNCHANGED <<numComputed, numCachedPrefix>>
    BY <1>6 DEF FreeFinished
  <2> QED BY <1>0, <2>1, <2>2, FreePreserves
<1>7. CASE LoopDies
  <2>1. call' = Idle /\ UNCHANGED <<seqVars, pool>> /\ call.op # "free"
    BY <1>0, <1>7, IdleFields DEF LoopDies, RegisterIndexError, EngineStepOK
  <2> QED BY <1>0, <2>1, EndStep
<1>8. ASSUME NEW s \in Seqs, Abort(s) PROVE PoolInv'
  <2>1. CASE AbortRunning(s)
    BY <1>0, <2>1, FreePreserves DEF AbortRunning
  <2>2. CASE AbortWaiting(s)
    BY <1>1, <2>2 DEF AbortWaiting
  <2> QED BY <1>8, <2>1, <2>2 DEF Abort
<1>9. ASSUME NEW s \in Seqs, AddRequest(s) PROVE PoolInv'
  BY <1>1, <1>9 DEF AddRequest, Add
<1>10. ASSUME MoveStep \/ Shutdown PROVE UNCHANGED poolVars
  BY <1>10 DEF MoveStep, LoopExit, WaitForWork, Woken, WaitTimeout, ShutdownTimeout,
               Starved, Resume, Goto, Shutdown, schedulerVars
<1>11. ASSUME SubmitForward \/ ForwardDone \/ SampleAll \/ ApplyStop \/ ApplyKeep
              \/ ApplyEnd \/ FreeEnd \/ EmitItem \/ EmitEnd
       PROVE  UNCHANGED poolVars
  BY <1>11 DEF SubmitForward, ForwardDone, SampleAll, ApplyStop, ApplyKeep, ApplyEnd,
               FreeEnd, EmitItem, EmitEnd
<1> QED BY <1>1, <1>2, <1>3, <1>4, <1>5, <1>6, <1>7, <1>8, <1>9, <1>10, <1>11
        DEF OutsideStep, RequestStep, ForwardStep, ApplyStep, SendStep

LEMMA DataStatus ==
    ASSUME QueueData, NEW s \in Seqs
    PROVE  /\ \A new \in Statuses : SetStatus(s, new) => status' \in [Seqs -> Statuses]
           /\ \A reason \in FinishReasons : Finish(s, reason) =>
                 /\ status' \in [Seqs -> Statuses]
                 /\ finishReason' \in [Seqs -> FinishReasons]
<1>1. \A new \in Statuses : SetStatus(s, new) => status' \in [Seqs -> Statuses]
  BY DEF QueueData, SetStatus
<1>2. "FINISHED" \in Statuses
  BY DEF Statuses
<1>3. \A reason \in FinishReasons :
         Finish(s, reason) => finishReason' \in [Seqs -> FinishReasons]
  BY DEF QueueData, Finish
<1> QED BY <1>1, <1>2, <1>3 DEF Finish

LEMMA OutsideQueueData ==
    ASSUME EngineInv, OutsideStep
    PROVE  QueueData'
<1>0. QueueData /\ EngineStepOK /\ QueuesOK
  BY DEF EngineInv
<1>1. CASE UNCHANGED <<queueVars, stepVars>>
  BY <1>0, <1>1 DEF QueueData, queueVars, stepVars
<1>2. ASSUME NEW s \in Seqs, AddRequest(s) PROVE QueueData'
  <2>1. /\ status' \in [Seqs -> Statuses]
        /\ waiting' = Append(waiting, s)
        /\ UNCHANGED <<running, finishReason, stepVars>>
    BY <1>0, <1>2, DataStatus DEF AddRequest, Add, Statuses
  <2> QED BY <1>0, <2>1 DEF QueueData, stepVars
<1>3. ASSUME NEW s \in Seqs, Abort(s) PROVE QueueData'
  <2>1. /\ status' \in [Seqs -> Statuses] /\ finishReason' \in [Seqs -> FinishReasons]
        /\ waiting' \in {waiting, Without(waiting, s)}
        /\ running' \in {running, Without(running, s)}
        /\ UNCHANGED stepVars
    BY <1>0, <1>3, DataStatus DEF Abort, AbortWaiting, AbortRunning, FinishReasons
  <2>2. waiting' \in Seq(Seqs) /\ running' \in Seq(Seqs)
    BY <1>0, <2>1, WithoutAny DEF QueueData, QueuesOK
  <2> QED BY <1>0, <2>1, <2>2 DEF QueueData, stepVars
<1>4. CASE ApplyStop
  <2>1. rest # <<>> /\ Current \in Seqs
    BY <1>0, <1>4, DataHeads DEF ApplyStop, EngineStepOK, Current
  <2>2. StopReason(Current) \in FinishReasons
    BY DEF StopReason, FinishReasons
  <2>3. /\ status' \in [Seqs -> Statuses] /\ finishReason' \in [Seqs -> FinishReasons]
        /\ rest' = Tail(rest)
        /\ UNCHANGED <<waiting, running, todo, budget, active, scheduled, preempted>>
    BY <1>0, <1>4, <2>1, <2>2, DataStatus DEF ApplyStop
  <2>4. rest' \in Seq(Items)
    BY <1>0, <2>1, <2>3, DataHeads
  <2> QED BY <1>0, <2>3, <2>4 DEF QueueData
<1>5. CASE FreeFinished
  <2>1. running' = Without(running, Head(toFree))
        /\ UNCHANGED <<waiting, status, finishReason, stepVars>>
    BY <1>5 DEF FreeFinished, LeaveRunning
  <2>2. running' \in Seq(Seqs)
    BY <1>0, <2>1, WithoutAny DEF QueueData, QueuesOK
  <2> QED BY <1>0, <2>1, <2>2 DEF QueueData, stepVars
<1>6. CASE Count \/ ApplyKeep \/ EmitItem
  <2>1. /\ rest # <<>> /\ rest' = Tail(rest)
        /\ UNCHANGED <<queueVars, todo, budget, active, scheduled, preempted>>
    BY <1>0, <1>6 DEF Count, CountItem, ApplyKeep, EmitItem, EngineStepOK
  <2>2. rest' \in Seq(Items)
    BY <1>0, <2>1, DataHeads
  <2> QED BY <1>0, <2>1, <2>2 DEF QueueData, queueVars
<1>7. CASE ForwardDone \/ SampleAll \/ FreeEnd
  BY <1>0, <1>7 DEF ForwardDone, SampleAll, FreeEnd, QueueData, queueVars
<1>8. CASE EmitEnd
  <2>1. <<>> \in Seq(Items) /\ 0 \in Nat
    OBVIOUS
  <2> QED BY <1>0, <1>8, <2>1 DEF EmitEnd, QueueData, queueVars
<1>9. ASSUME PoolCall \/ MoveStep \/ Shutdown \/ LoopDies PROVE UNCHANGED <<queueVars, stepVars>>
  BY <1>9 DEF PoolCall, MoveStep, LoopExit, WaitForWork, Woken, WaitTimeout,
              ShutdownTimeout, Starved, Resume, Goto, Shutdown, LoopDies, schedulerVars
<1>10. ASSUME SubmitForward \/ ApplyToken \/ ApplyRegister \/ ApplyEnd
       PROVE  UNCHANGED <<queueVars, stepVars>>
  BY <1>10 DEF SubmitForward, ApplyToken, ApplyRegister, ApplyEnd
<1> QED BY <1>1, <1>2, <1>3, <1>4, <1>5, <1>6, <1>7, <1>8, <1>9, <1>10
        DEF OutsideStep, RequestStep, ForwardStep, ApplyStep, SendStep

\* prepare_input reads the tokens and the tables of the batch.
LEMMA InputTyped ==
    ASSUME PoolTypeOK, QueueData, \A k \in DOMAIN scheduled : InputFits(scheduled[k])
    PROVE  PrepareInput(scheduled) \in Seq(Segments)
<1>1. ASSUME NEW k \in DOMAIN scheduled
      PROVE  Segment(scheduled[k].seq, numComputed[scheduled[k].seq], scheduled[k].n)
                \in Segments
  <2>1. PICK s \in Seqs, n \in Nat : s = scheduled[k].seq /\ n = scheduled[k].n
    <3>1. scheduled[k] \in Items
      BY DEF QueueData
    <3> QED BY <3>1 DEF Items
  <2>2. /\ AllTokenIds(s) \in Seq(Tokens)
        /\ Len(AllTokenIds(s)) = TotalLen(s)
        /\ numComputed[s] \in Nat /\ blockTable[s] \in Seq(Blocks)
    BY SequenceSizes DEF PoolTypeOK
  <2>3. numComputed[s] + n \in Nat /\ numComputed[s] + n <= TotalLen(s)
    BY <2>1, <2>2 DEF InputFits
  <2>4. SubSeq(AllTokenIds(s), 1, numComputed[s] + n) \in Hashes
    <3> DEFINE q == AllTokenIds(s)
               m == numComputed[s] + n
    <3>1. q \in Seq(Tokens) /\ m \in Nat /\ m <= Len(q)
      BY <2>2, <2>3
    <3> HIDE DEF q, m
    <3>2. SubSeq(q, 1, m) \in Seq(Tokens)
      BY <3>1
    <3> QED BY <3>2 DEF Hashes, q, m
  <2>5. Segment(s, numComputed[s], n) \in Segments
    BY <2>2, <2>4 DEF Segment, Segments
  <2> QED BY <2>1, <2>5
<1>2. scheduled \in Seq(Items)
  BY DEF QueueData
<1>3. DOMAIN scheduled = 1 .. Len(scheduled) /\ Len(scheduled) \in Nat
  BY <1>2
<1> DEFINE seg(k) == Segment(scheduled[k].seq, numComputed[scheduled[k].seq], scheduled[k].n)
<1>4. \A k \in 1 .. Len(scheduled) : seg(k) \in Segments
  BY <1>1, <1>3
<1>5. PrepareInput(scheduled) = [k \in 1 .. Len(scheduled) |-> seg(k)]
  BY <1>3 DEF PrepareInput
<1> HIDE DEF seg
<1>6. [k \in 1 .. Len(scheduled) |-> seg(k)] \in [1 .. Len(scheduled) -> Segments]
  BY <1>4
<1> QED BY <1>3, <1>5, <1>6, SeqDef

\* The executor writes runs of tokens.
LEMMA WritesTyped ==
    ASSUME EngineData
    PROVE  WriteAll(modelInput) \in [Slots -> Hashes]
<1>1. ASSUME NEW slot \in Slots, NEW c \in WritesTo(modelInput, slot)
      PROVE  c \in Hashes
  <2>1. PICK k \in DOMAIN modelInput : \E p \in Written(modelInput[k]) :
           c = SubSeq(modelInput[k].tokens, 1, p + 1)
    BY <1>1 DEF WritesTo
  <2>2. modelInput[k] \in Segments
    BY DEF EngineData
  <2> DEFINE q == modelInput[k].tokens
             at == modelInput[k].start
  <2>3. q \in Seq(Tokens) /\ at \in Nat
    BY <2>2 DEF Segments, Hashes
  <2>4. Written(modelInput[k]) = at .. Len(q) - 1
    BY DEF Written
  <2> HIDE DEF q, at
  <2>5. PICK p \in at .. Len(q) - 1 : c = SubSeq(q, 1, p + 1)
    BY <2>1, <2>4 DEF q
  <2>6. p + 1 \in Nat /\ p + 1 <= Len(q)
    BY <2>3, <2>5
  <2>7. SubSeq(q, 1, p + 1) \in Seq(Tokens)
    BY <2>3, <2>6
  <2> QED BY <2>5, <2>7 DEF Hashes
<1>2. ASSUME NEW slot \in Slots
      PROVE  (IF WritesTo(modelInput, slot) = {} THEN kv[slot]
              ELSE CHOOSE c \in WritesTo(modelInput, slot) : TRUE) \in Hashes
  <2>1. kv[slot] \in Hashes
    BY DEF EngineData
  <2>2. WritesTo(modelInput, slot) # {} =>
           (CHOOSE c \in WritesTo(modelInput, slot) : TRUE) \in WritesTo(modelInput, slot)
    OBVIOUS
  <2> QED BY <1>1, <2>1, <2>2
<1> QED BY <1>2 DEF WriteAll

LEMMA PutTyped ==
    ASSUME EngineData, NEW s \in Seqs, NEW item \in StreamItems, Put(s, item)
    PROVE  stream' \in [Seqs -> Seq(StreamItems)]
<1>1. stream \in [Seqs -> Seq(StreamItems)]
  BY DEF EngineData
<1>2. Append(stream[s], item) \in Seq(StreamItems)
  BY <1>1
<1> QED BY <1>1, <1>2 DEF Put

LEMMA OutsideEngineData ==
    ASSUME EngineInv, OutsideStep
    PROVE  EngineData'
<1>0. PoolTypeOK /\ QueueData /\ EngineData /\ EngineStepOK
  BY DEF EngineInv, PoolInv
<1>1. ASSUME pc' \in EngineSteps, UNCHANGED <<kvVars, stepResults, requestVars>>
      PROVE  EngineData'
  BY <1>0, <1>1 DEF EngineData, kvVars, stepResults, requestVars
<1>2. CASE RequestStep
  <2>1. ASSUME NEW s \in Seqs, AddRequest(s) PROVE EngineData'
    BY <1>0, <2>1 DEF AddRequest, Add, WakeUp, EngineData, kvVars, stepResults
  <2>2. ASSUME NEW s \in Seqs, Abort(s) PROVE EngineData'
    <3>1. StreamItem(<<>>, TRUE, "abort") \in StreamItems
      BY DEF StreamItem, StreamItems, FinishReasons, Hashes
    <3>2. stream' \in [Seqs -> Seq(StreamItems)]
      BY <1>0, <2>2, <3>1, PutTyped DEF Abort
    <3> QED BY <1>0, <2>2, <3>2
            DEF Abort, AbortWaiting, AbortRunning, EngineData, kvVars, stepResults
  <2>3. CASE Shutdown
    BY <1>0, <2>3 DEF Shutdown, WakeUp, EngineData, kvVars, stepResults, schedulerVars
  <2> QED BY <1>2, <2>1, <2>2, <2>3 DEF RequestStep
<1>3. CASE MoveStep
  <2>1. CASE WaitForWork
    BY <1>0, <2>1 DEF WaitForWork, EngineData, EngineSteps, kvVars, stepResults
  <2>2. CASE LoopExit \/ Woken \/ WaitTimeout \/ ShutdownTimeout \/ Starved \/ Resume
    BY <1>1, <2>2 DEF LoopExit, Woken, WaitTimeout, ShutdownTimeout, Starved, Resume,
                      Goto, EngineSteps
  <2> QED BY <1>3, <2>1, <2>2 DEF MoveStep
<1>4. CASE PoolCall \/ LoopDies \/ Count
  <2>1. pc' \in EngineSteps
    BY <1>0, <1>4 DEF PoolCall, LoopDies, Count, CountItem, EngineData, EngineSteps
  <2> QED BY <1>1, <1>4, <2>1 DEF PoolCall, LoopDies, Count
<1>5. CASE SubmitForward
  <2>1. modelInput' \in Seq(Segments)
    BY <1>0, <1>5, InputTyped DEF SubmitForward
  <2> QED BY <1>0, <1>5, <2>1
          DEF SubmitForward, EngineData, EngineSteps, stepResults, requestVars
<1>6. CASE ForwardDone
  <2>1. kv' \in [Slots -> Hashes]
    BY <1>0, <1>6, WritesTyped DEF ForwardDone
  <2>2. /\ pc' = "count"
        /\ UNCHANGED <<modelInput, newTokens, finishedNow, toFree, stream, known, wake, stop>>
    BY <1>6 DEF ForwardDone, stepResults, requestVars
  <2> HIDE DEF WriteAll
  <2> QED BY <1>0, <2>1, <2>2 DEF EngineData, EngineSteps
<1>7. CASE SampleAll
  <2>1. /\ \E f \in [Sampled -> Tokens] : newTokens' = f
        /\ Sampled \subseteq Seqs
    BY <1>7 DEF SampleAll, Sampled
  <2>2. DOMAIN newTokens' \subseteq Seqs /\ newTokens' \in [DOMAIN newTokens' -> Tokens]
    BY <2>1
  <2>3. <<>> \in Seq(Segments) /\ <<>> \in Seq(Seqs)
    OBVIOUS
  <2> QED BY <1>0, <1>7, <2>2, <2>3 DEF SampleAll, EngineData, EngineSteps, requestVars
<1>8. CASE ApplyStep
  <2>1. CASE ApplyStop
    <3>1. Current \in Seqs
      BY <1>0, <2>1, DataHeads DEF ApplyStop, EngineStepOK, Current
    <3>2. finishedNow' \in Seq(Seqs)
      BY <1>0, <2>1, <3>1 DEF ApplyStop, EngineData
    <3> QED BY <1>0, <2>1, <3>2
            DEF ApplyStop, EngineData, EngineSteps, kvVars, requestVars
  <2>2. CASE ApplyEnd
    BY <1>0, <2>2 DEF ApplyEnd, EngineData, EngineSteps, kvVars, requestVars
  <2>3. CASE ApplyToken \/ ApplyRegister \/ ApplyKeep
    BY <1>1, <2>3 DEF ApplyToken, ApplyRegister, ApplyKeep, EngineSteps
  <2> QED BY <1>8, <2>1, <2>2, <2>3 DEF ApplyStep
<1>9. CASE SendStep
  <2>1. CASE FreeFinished
    <3>1. toFree' \in Seq(Seqs)
      BY <1>0, <2>1, HeadTail DEF FreeFinished, EngineData
    <3> QED BY <1>0, <2>1, <3>1 DEF FreeFinished, EngineData, kvVars, requestVars
  <2>2. CASE FreeEnd
    BY <1>1, <2>2 DEF FreeEnd, EngineSteps
  <2>3. CASE EmitItem
    <3>1. Current \in Seqs
      BY <1>0, <2>3, DataHeads DEF EmitItem, Current
    <3>2. stream' \in [Seqs -> Seq(StreamItems)] /\ known' \subseteq Seqs
      <4>1. CASE Current \in DOMAIN newTokens
        <5>1. newTokens[Current] \in Tokens /\ finishReason[Current] \in FinishReasons
          BY <1>0, <3>1, <4>1 DEF EngineData, QueueData
        <5>2. ItemFor(Current) \in StreamItems
          BY <5>1 DEF ItemFor, StreamItem, StreamItems, IsDone, Hashes
        <5>3. Put(Current, ItemFor(Current)) /\ ForgetIfDone(Current)
          BY <2>3, <4>1 DEF EmitItem
        <5> QED BY <1>0, <3>1, <5>2, <5>3, PutTyped DEF ForgetIfDone, EngineData
      <4>2. CASE Current \notin DOMAIN newTokens
        BY <1>0, <2>3, <4>2 DEF EmitItem, EngineData
      <4> QED BY <4>1, <4>2
    <3> QED BY <1>0, <2>3, <3>2 DEF EmitItem, EngineData, kvVars, stepResults
  <2>4. CASE EmitEnd
    <3>1. /\ DOMAIN newTokens' \subseteq Seqs
          /\ newTokens' \in [DOMAIN newTokens' -> Tokens]
      BY <2>4 DEF EmitEnd, NoTokens
    <3>2. <<>> \in Seq(Seqs)
      OBVIOUS
    <3> QED BY <1>0, <2>4, <3>1, <3>2
            DEF EmitEnd, EngineData, EngineSteps, kvVars, requestVars
  <2> QED BY <1>9, <2>1, <2>2, <2>3, <2>4 DEF SendStep
<1> QED BY <1>2, <1>3, <1>4, <1>5, <1>6, <1>7, <1>8, <1>9 DEF OutsideStep, ForwardStep

-----------------------------------------------------------------------------
(* Outside of schedule(): where the loop stands, and the queues. *)

\* A call that is neither "ensure" nor "admit" goes on as the same call.
LEMMA CallGoesOn ==
    ASSUME CallStep, call.op \in {"free", "register"}
    PROVE  /\ call'.op \in {"none", call.op}
           /\ call'.op # "none" => call'.seq = call.seq
           /\ UNCHANGED prompt
           /\ FreeClear \/ UNCHANGED blockTable
           /\ call.op = "free" /\ call'.op = "none" => FreeClear
BY IdleFields, CallFields
   DEF CallStep, AdmitHit, AdmitMiss, AdmitFinish, EnsureTake, EnsureExit, FreeRelease,
       FreeClear, RegisterSkip, RegisterBlock, RegisterReturn, Advance, seqVars

LEMMA OutsideStepOK ==
    ASSUME EngineInv, OutsideStep
    PROVE  EngineStepOK'
<1>0. QueueData /\ EngineData /\ EngineStepOK /\ Idle.op = "none"
  BY IdleFields DEF EngineInv
<1>1. CASE PoolCall /\ pc \notin SchedulePcs
  <2>1. CallStep /\ UNCHANGED <<queueVars, pc, stepVars>>
    BY <1>1 DEF PoolCall
  <2>2. call # Idle /\ call.op # "none"
    BY <2>1, CallInProgress
  <2>3. pc \in RequestPcs \cup {"free", "check"}
    BY <1>0, <1>1, <2>2 DEF EngineStepOK, EngineData, EngineSteps, SchedulePcs, RequestPcs
  <2>4. call.op \in {"free", "register"}
    BY <1>0, <2>2, <2>3 DEF EngineStepOK
  <2>5. call'.op \in {"none", call.op}
    BY <2>1, <2>4, CallGoesOn
  <2> QED BY <1>0, <2>1, <2>3, <2>5 DEF EngineStepOK, RequestPcs, stepVars
<1>2. CASE RequestStep
  <2>1. /\ RequestsRun /\ pc' = pc
        /\ call' = call \/ \E s \in Seqs : AbortRunning(s)
    BY <1>2 DEF RequestStep, AddRequest, Add, Abort, AbortWaiting, AbortRunning,
                Shutdown, poolVars, schedulerVars
  <2>2. pc \in RequestPcs /\ call = Idle
    BY <2>1 DEF RequestsRun, AtAwait, RequestPcs
  <2>3. \A s \in Seqs : AbortRunning(s) => call'.op = "free"
    BY CallFields DEF AbortRunning, Free, Begin
  <2>4. call'.op \in {"none", "free"}
    BY <1>0, <2>1, <2>2, <2>3
  <2> QED BY <2>1, <2>2, <2>4 DEF EngineStepOK, RequestPcs
<1>3. CASE MoveStep
  <2>1. call = Idle
    BY <1>0, <1>3 DEF MoveStep, LoopExit, WaitForWork, Woken, WaitTimeout,
       ShutdownTimeout, Starved, Resume, AtAwait, EngineStepOK
  <2>2. call' = call /\ pc' \in {"idle", "stopped", "waiting", "pause"}
    BY <1>3 DEF MoveStep, LoopExit, WaitForWork, Woken, WaitTimeout,
       ShutdownTimeout, Starved, Resume, Goto, poolVars
  <2> QED BY <1>0, <2>1, <2>2 DEF EngineStepOK, RequestPcs
<1>4. CASE ForwardStep
  <2>1. call = Idle /\ call' = call /\ pc' \in {"forward", "count", "apply"}
    BY <1>0, <1>4 DEF ForwardStep, SubmitForward, ForwardDone, Count, CountItem,
       SampleAll, EngineStepOK, poolVars
  <2> QED BY <1>0, <2>1 DEF EngineStepOK, RequestPcs
<1>5. CASE ApplyStep
  <2>1. CASE ApplyToken
    <3>1. call = Idle /\ call' = call /\ pc' = "register" /\ rest # <<>> /\ rest' = rest
      BY <1>0, <2>1 DEF ApplyToken, EngineStepOK, stepVars
    <3> QED BY <3>1 DEF EngineStepOK, RequestPcs
  <2>2. CASE ApplyRegister
    <3>1. call'.op = "register" /\ pc' = "check" /\ rest # <<>> /\ rest' = rest
      BY <1>0, <2>2, CallFields
         DEF ApplyRegister, RegisterFilledBlocks, Begin, EngineStepOK, stepVars
    <3> QED BY <3>1 DEF EngineStepOK, RequestPcs
  <2>3. CASE ApplyStop \/ ApplyKeep \/ ApplyEnd
    <3>1. call = Idle /\ call' = call /\ pc' \in {"apply", "free"}
      BY <1>0, <2>3 DEF ApplyStop, ApplyKeep, ApplyEnd, EngineStepOK, poolVars
    <3> QED BY <1>0, <3>1 DEF EngineStepOK, RequestPcs
  <2> QED BY <1>5, <2>1, <2>2, <2>3 DEF ApplyStep
<1>6. CASE SendStep
  <2>1. CASE FreeFinished
    <3>1. call'.op = "free" /\ pc' = "free"
      BY <2>1, CallFields DEF FreeFinished, Free, Begin
    <3> QED BY <3>1 DEF EngineStepOK, RequestPcs
  <2>2. CASE FreeEnd \/ EmitItem \/ EmitEnd
    <3>1. call = Idle /\ call' = call /\ pc' \in {"emit", "yield"}
      BY <1>0, <2>2 DEF FreeEnd, EmitItem, EmitEnd, EngineStepOK, poolVars
    <3> QED BY <1>0, <3>1 DEF EngineStepOK, RequestPcs
  <2> QED BY <1>6, <2>1, <2>2 DEF SendStep
<1>7. CASE LoopDies
  BY <1>0, <1>7 DEF LoopDies, EngineStepOK, RequestPcs
<1> QED BY <1>1, <1>2, <1>3, <1>4, <1>5, <1>6, <1>7 DEF OutsideStep

\* StatusMoves, whatever pc is.
LEMMA DataMoves ==
    ASSUME QueueData, QueuesOK, NEW s \in Seqs, NEW new,
           status' = [status EXCEPT ![s] = new], new # "NONE",
           NoDuplicates(waiting'), NoDuplicates(running'),
           \A q \in Seqs \ {s} : /\ Contains(waiting', q) <=> Contains(waiting, q)
                                 /\ Contains(running', q) <=> Contains(running, q),
           ~(Contains(waiting', s) /\ Contains(running', s)),
           new = "RUNNING" => Contains(running', s),
           new \in {"WAITING", "PREFILLING", "PREEMPTED"} => Contains(waiting', s)
    PROVE  QueuesOK'
<1>1. status'[s] = new /\ \A q \in Seqs \ {s} : status'[q] = status[q]
  BY DEF QueueData
<1>2. ASSUME NEW q \in Seqs
      PROVE  /\ ~(Contains(waiting', q) /\ Contains(running', q))
             /\ Contains(waiting', q) \/ Contains(running', q) => status'[q] # "NONE"
             /\ status'[q] = "RUNNING" => Contains(running', q)
             /\ status'[q] \in {"WAITING", "PREFILLING", "PREEMPTED"}
                   => Contains(waiting', q)
  <2>1. CASE q = s
    BY <1>1, <2>1
  <2>2. CASE q # s
    BY <1>1, <2>2 DEF QueuesOK
  <2> QED BY <2>1, <2>2
<1> QED BY <1>2 DEF QueuesOK

\* What the steps outside of schedule() do to the queues and the statuses.
LEMMA OutsideMoves ==
    ASSUME EngineInv, OutsideStep
    PROVE  \/ UNCHANGED <<waiting, running, status, finishReason>>
           \/ \E s \in Seqs : AddRequest(s) \/ Abort(s)
           \/ ApplyStop
           \/ FreeFinished
BY DEF OutsideStep, PoolCall, RequestStep, Shutdown, MoveStep, LoopExit, WaitForWork,
       Woken, WaitTimeout, ShutdownTimeout, Starved, Resume, Goto, ForwardStep,
       SubmitForward, ForwardDone, Count, CountItem, SampleAll, ApplyStep, ApplyToken,
       ApplyRegister, ApplyKeep, ApplyEnd, SendStep, FreeEnd, EmitItem, EmitEnd,
       LoopDies, schedulerVars, queueVars

LEMMA OutsideQueues ==
    ASSUME EngineInv, OutsideStep
    PROVE  QueuesOK' /\ Len(running') <= Len(running)
<1>0. /\ QueueData /\ EngineData /\ EngineStepOK /\ QueuesOK
      /\ NoDuplicates(waiting) /\ NoDuplicates(running)
      /\ Len(running) \in Nat
  BY DEF EngineInv, QueuesOK, QueueData
<1>1. CASE UNCHANGED <<waiting, running, status, finishReason>>
  BY <1>0, <1>1 DEF QueuesOK
<1>2. ASSUME NEW s \in Seqs, AddRequest(s)
      PROVE  QueuesOK' /\ Len(running') <= Len(running)
  <2>1. /\ status' = [status EXCEPT ![s] = "WAITING"]
        /\ waiting' = Append(waiting, s) /\ running' = running
        /\ ~Contains(waiting, s) /\ ~Contains(running, s)
    BY <1>0, <1>2 DEF AddRequest, Add, SetStatus, QueuesOK
  <2>2. /\ NoDuplicates(waiting')
        /\ \A q : Contains(waiting', q) <=> Contains(waiting, q) \/ q = s
    BY <1>0, <2>1, ContainsAppend DEF QueueData
  <2>3. NoDuplicates(running') /\ Len(running') <= Len(running)
    BY <1>0, <2>1
  <2>4. QueuesOK'
    BY <1>0, <2>1, <2>2, <2>3, DataMoves
  <2> QED BY <2>3, <2>4
<1>3. ASSUME NEW s \in Seqs, Abort(s)
      PROVE  QueuesOK' /\ Len(running') <= Len(running)
  <2>1. /\ status' = [status EXCEPT ![s] = "FINISHED"]
        /\ waiting' \in {waiting, Without(waiting, s)}
        /\ running' \in {running, Without(running, s)}
    BY <1>3 DEF Abort, AbortWaiting, AbortRunning, Finish, SetStatus
  <2>2. /\ NoDuplicates(waiting') /\ NoDuplicates(running')
        /\ Len(running') <= Len(running)
        /\ \A q \in Seqs \ {s} : /\ Contains(waiting', q) <=> Contains(waiting, q)
                                 /\ Contains(running', q) <=> Contains(running, q)
        /\ ~(Contains(waiting', s) /\ Contains(running', s))
    BY <1>0, <2>1, WithoutAny DEF QueueData, QueuesOK
  <2> QED BY <1>0, <2>1, <2>2, DataMoves
<1>4. CASE ApplyStop
  <2>1. Current \in Seqs
    BY <1>0, <1>4, DataHeads DEF ApplyStop, EngineStepOK, Current
  <2>2. /\ status' = [status EXCEPT ![Current] = "FINISHED"]
        /\ UNCHANGED <<waiting, running>>
    BY <1>4 DEF ApplyStop, Finish, SetStatus
  <2>3. NoDuplicates(waiting') /\ NoDuplicates(running')
        /\ ~(Contains(waiting', Current) /\ Contains(running', Current))
        /\ Len(running') <= Len(running)
    BY <1>0, <2>1, <2>2 DEF QueuesOK
  <2>4. PICK s \in Seqs : s = Current
    BY <2>1
  <2>5. QueuesOK'
    BY <1>0, <2>2, <2>3, <2>4, DataMoves
  <2> QED BY <2>3, <2>5
<1>5. CASE FreeFinished
  <2>1. /\ Head(toFree) \in Seqs /\ Contains(toFree, Head(toFree))
        /\ pc = "free"
        /\ running' = Without(running, Head(toFree))
        /\ UNCHANGED <<waiting, status>>
    <3>1. toFree \in Seq(Seqs) /\ toFree # <<>>
      BY <1>0, <1>5 DEF FreeFinished, EngineData
    <3>2. Head(toFree) \in Seqs /\ Contains(toFree, Head(toFree))
      BY <3>1, HeadTail DEF Contains
    <3> QED BY <1>5, <3>2 DEF FreeFinished, LeaveRunning
  <2>2. PICK s \in Seqs : s = Head(toFree) /\ status[s] = "FINISHED"
    BY <2>1 DEF EngineInv, FinishedNowOK, ListedFinished
  <2>3. /\ NoDuplicates(running') /\ Len(running') <= Len(running)
        /\ \A q : Contains(running', q) <=> Contains(running, q) /\ q # s
    BY <1>0, <2>1, <2>2, WithoutAny DEF QueueData
  <2>4. ASSUME NEW q \in Seqs
        PROVE  /\ ~(Contains(waiting', q) /\ Contains(running', q))
               /\ Contains(waiting', q) \/ Contains(running', q) => status'[q] # "NONE"
               /\ status'[q] = "RUNNING" => Contains(running', q)
               /\ status'[q] \in {"WAITING", "PREFILLING", "PREEMPTED"}
                     => Contains(waiting', q)
    BY <1>0, <2>1, <2>2, <2>3 DEF QueuesOK
  <2>5. NoDuplicates(waiting')
    BY <1>0, <2>1
  <2> QED BY <2>3, <2>4, <2>5 DEF QueuesOK
<1> QED BY <1>1, <1>2, <1>3, <1>4, <1>5, OutsideMoves

LEMMA OutsidePc ==
    ASSUME EngineInv, OutsideStep
    PROVE  pc' \notin {"decode", "retry", "prefill", "ensure", "scheduled"}
BY DEF EngineInv, EngineData, EngineSteps, SchedulePcs, OutsideStep, PoolCall,
       RequestStep, AddRequest, Add, Abort, AbortWaiting, AbortRunning, RequestsRun,
       AtAwait, Shutdown, schedulerVars, MoveStep, LoopExit, WaitForWork,
       Woken, WaitTimeout, ShutdownTimeout, Starved, Resume, Goto, ForwardStep,
       SubmitForward, ForwardDone, Count, CountItem, SampleAll, ApplyStep, ApplyToken,
       ApplyRegister, ApplyStop, ApplyKeep, ApplyEnd, SendStep, FreeFinished, FreeEnd,
       EmitItem, EmitEnd, LoopDies

LEMMA OutsideActive ==
    ASSUME EngineInv, OutsideStep, QueueData'
    PROVE  ActiveOK'
<1>1. Len(running') <= Len(running)
  BY OutsideQueues
<1>2. /\ Len(running) <= MaxNumSeqs /\ Len(running) \in Nat /\ Len(running') \in Nat
      /\ MaxNumSeqs \in Nat
  BY SchedulerConstants DEF EngineInv, ActiveOK, QueueData
<1>3. Len(running') <= MaxNumSeqs
  BY <1>1, <1>2
<1>4. pc' \notin {"prefill", "ensure"}
  BY OutsidePc
<1> QED BY <1>3, <1>4 DEF ActiveOK

-----------------------------------------------------------------------------
(* Outside of schedule(): what finished, and what is still to be done for  *)
(* it.                                                                     *)

\* A sequence finishes at its last token, or by an abort.
LEMMA OutsideFinishes ==
    ASSUME EngineInv, OutsideStep, NEW s \in Seqs, status'[s] = "FINISHED",
           status[s] # "FINISHED" \/ finishReason'[s] # finishReason[s]
    PROVE  Abort(s) \/ (ApplyStop /\ s = Current)
<1>1. /\ status \in [Seqs -> Statuses] /\ finishReason \in [Seqs -> FinishReasons]
  BY DEF EngineInv, QueueData
<1>2. ASSUME NEW q \in Seqs, AddRequest(q) PROVE FALSE
  <2>1. status' = [status EXCEPT ![q] = "WAITING"] /\ finishReason' = finishReason
    BY <1>2 DEF AddRequest, Add, SetStatus
  <2> QED BY <1>1, <2>1
<1>3. ASSUME NEW q \in Seqs, Abort(q) PROVE Abort(s)
  <2>1. /\ status' = [status EXCEPT ![q] = "FINISHED"]
        /\ finishReason' = [finishReason EXCEPT ![q] = "abort"]
    BY <1>3 DEF Abort, AbortWaiting, AbortRunning, Finish, SetStatus
  <2>2. s = q
    BY <1>1, <2>1
  <2> QED BY <1>3, <2>2
<1>4. ASSUME ApplyStop PROVE s = Current
  <2>1. /\ status' = [status EXCEPT ![Current] = "FINISHED"]
        /\ finishReason' = [finishReason EXCEPT ![Current] = StopReason(Current)]
    BY <1>4 DEF ApplyStop, Finish, SetStatus
  <2> QED BY <1>1, <2>1
<1>5. ~FreeFinished
  BY DEF FreeFinished
<1> QED BY <1>2, <1>3, <1>4, <1>5, OutsideMoves

LEMMA OutsideRunning ==
    ASSUME EngineInv, OutsideStep, NEW s \in Seqs, Contains(running', s)
    PROVE  Contains(running, s) /\ ~Abort(s) /\ ~(FreeFinished /\ s = Head(toFree))
<1>0. QueueData /\ QueuesOK
  BY DEF EngineInv
<1>1. ASSUME NEW q, running' = Without(running, q) PROVE Contains(running, s) /\ s # q
  BY <1>0, <1>1, WithoutAny DEF QueueData, QueuesOK
<1>2. Contains(running, s)
  BY <1>1, OutsideMoves
     DEF AddRequest, Add, Abort, AbortWaiting, AbortRunning, ApplyStop, FreeFinished,
         LeaveRunning
<1>3. ~Abort(s)
  BY <1>0, <1>1, <1>2 DEF Abort, AbortWaiting, AbortRunning, QueuesOK
<1>4. ~(FreeFinished /\ s = Head(toFree))
  BY <1>1 DEF FreeFinished, LeaveRunning
<1> QED BY <1>2, <1>3, <1>4

\* The item at the head of an apply loop was scheduled.
LEMMA CurrentIsScheduled ==
    ASSUME EngineInv, pc \in ApplyPcs, rest # <<>>
    PROVE  Current \in Seqs /\ InItems(scheduled, Current)
<1>1. Head(rest).seq \in Seqs /\ 1 \in DOMAIN rest /\ rest[1] = Head(rest)
  BY DataHeads DEF EngineInv
<1>2. InItems(scheduled, rest[1].seq)
  BY <1>1 DEF EngineInv, FinishedNowOK, RestIsScheduled
<1> QED BY <1>1, <1>2 DEF Current

LEMMA StopNotes ==
    ASSUME EngineInv, ApplyStop
    PROVE  /\ Current \in Seqs /\ finishedNow \in Seq(Seqs)
           /\ \A s : Contains(finishedNow', s) <=> Contains(finishedNow, s) \/ s = Current
<1>1. Current \in Seqs
  BY CurrentIsScheduled DEF ApplyStop, EngineInv, EngineStepOK, ApplyPcs
<1>2. finishedNow \in Seq(Seqs) /\ finishedNow' = Append(finishedNow, Current)
  BY DEF ApplyStop, EngineInv, EngineData
<1> DEFINE q == finishedNow
           c == Current
<1> HIDE DEF q, c
<1>3. q \in Seq(Seqs) /\ c \in Seqs
  BY <1>1, <1>2 DEF q, c
<1>4. /\ Len(Append(q, c)) = Len(q) + 1
      /\ \A i \in 1 .. Len(q) : Append(q, c)[i] = q[i]
      /\ Append(q, c)[Len(q) + 1] = c
      /\ Len(q) \in Nat
  BY <1>3
<1>5. \A s : Contains(Append(q, c), s) <=> Contains(q, s) \/ s = c
  BY <1>4 DEF Contains
<1> QED BY <1>1, <1>2, <1>5 DEF q, c

\* The elements of a list but for its head.
LEMMA RestOfList ==
    ASSUME NEW S, NEW q \in Seq(S), q # <<>>
    PROVE  \A s : Contains(q, s) <=> s = Head(q) \/ Contains(Tail(q), s)
<1>1. /\ Len(q) \in Nat /\ Len(q) >= 1
      /\ Head(q) = q[1] /\ Len(Tail(q)) = Len(q) - 1
      /\ \A i \in 1 .. Len(q) - 1 : Tail(q)[i] = q[i + 1]
  BY HeadTail
<1>2. ASSUME NEW s, Contains(q, s), s # Head(q) PROVE Contains(Tail(q), s)
  <2>1. PICK i \in 1 .. Len(q) : q[i] = s
    BY <1>2 DEF Contains
  <2>2. i - 1 \in 1 .. Len(q) - 1 /\ (i - 1) + 1 = i
    BY <1>1, <1>2, <2>1
  <2> QED BY <1>1, <2>1, <2>2 DEF Contains
<1>3. ASSUME NEW s, Contains(Tail(q), s) PROVE Contains(q, s)
  <2>1. PICK i \in 1 .. Len(q) - 1 : Tail(q)[i] = s
    BY <1>1, <1>3 DEF Contains
  <2>2. i + 1 \in 1 .. Len(q)
    BY <1>1, <2>1
  <2> QED BY <1>1, <2>1, <2>2 DEF Contains
<1>4. Contains(q, Head(q))
  BY <1>1 DEF Contains
<1> QED BY <1>2, <1>3, <1>4

\* What finished in this step stays on its list until it is freed.
LEMMA OutsideReleasing ==
    ASSUME EngineInv, OutsideStep, NEW s \in Seqs, EngineReleasing(s)
    PROVE  EngineReleasing(s)' \/ (FreeFinished /\ s = Head(toFree))
<1>0. pc \in ApplyPcs \cup {"free", "crashed"}
  BY DEF EngineReleasing
<1>1. CASE UNCHANGED <<pc, finishedNow, toFree>>
  BY <1>1 DEF EngineReleasing
<1>2. CASE LoopDies
  BY <1>2 DEF LoopDies, EngineReleasing
<1>3. CASE ApplyStep
  <2>1. CASE ApplyStop
    BY <2>1, StopNotes DEF ApplyStop, EngineReleasing, ApplyPcs
  <2>2. CASE ApplyEnd
    BY <2>2 DEF ApplyEnd, EngineReleasing, ApplyPcs
  <2>3. CASE ApplyToken \/ ApplyRegister \/ ApplyKeep
    <3>1. pc \in ApplyPcs /\ pc' \in ApplyPcs /\ UNCHANGED finishedNow
      BY <2>3 DEF ApplyToken, ApplyRegister, ApplyKeep, stepResults, ApplyPcs
    <3> QED BY <3>1 DEF EngineReleasing, ApplyPcs
  <2> QED BY <1>3, <2>1, <2>2, <2>3 DEF ApplyStep
<1>4. CASE FreeFinished
  <2>1. /\ pc = "free" /\ pc' = "free" /\ toFree # <<>> /\ toFree' = Tail(toFree)
        /\ toFree \in Seq(Seqs)
    BY <1>4 DEF FreeFinished, EngineInv, EngineData
  <2>2. Contains(toFree, s)
    BY <2>1 DEF EngineReleasing, ApplyPcs
  <2>3. s = Head(toFree) \/ Contains(Tail(toFree), s)
    BY <2>1, <2>2, RestOfList
  <2> QED BY <1>4, <2>1, <2>3 DEF EngineReleasing
<1>5. CASE FreeEnd
  <2>1. pc = "free" /\ ~Contains(toFree, s)
    BY <1>5, EmptySeq DEF FreeEnd, Contains
  <2> QED BY <2>1 DEF EngineReleasing, ApplyPcs
<1>6. PoolCall \/ RequestStep => UNCHANGED <<pc, finishedNow, toFree>>
  BY DEF PoolCall, RequestStep, AddRequest, Add, Abort, AbortWaiting, AbortRunning,
         Shutdown, schedulerVars, stepResults
<1>7. ~MoveStep /\ ~ForwardStep /\ ~EmitItem /\ ~EmitEnd
  BY <1>0 DEF MoveStep, LoopExit, WaitForWork, Woken, WaitTimeout, ShutdownTimeout,
     Starved, Resume, AtAwait, ForwardStep, SubmitForward, ForwardDone, Count,
     CountItem, SampleAll, EmitItem, EmitEnd, ApplyPcs
<1> QED BY <1>1, <1>2, <1>3, <1>4, <1>5, <1>6, <1>7 DEF OutsideStep, SendStep

\* Where the lists of a step are made, and where they are read.
LEMMA ListSteps ==
    ASSUME EngineInv, OutsideStep, pc' \in ApplyPcs \cup {"free"}
    PROVE  \/ SampleAll
           \/ /\ pc \in ApplyPcs \cup {"free"}
              /\ UNCHANGED <<scheduled, newTokens>>
              /\ \/ ApplyStop \/ ApplyKeep \/ ApplyEnd \/ FreeFinished
                 \/ UNCHANGED <<rest, status, finishedNow, toFree>> /\ pc # "free" /\ pc' # "free"
                 \/ UNCHANGED <<pc, rest, status, finishedNow, toFree>>
<1>1. ~RequestStep /\ ~MoveStep /\ ~SubmitForward /\ ~ForwardDone /\ ~Count
      /\ ~FreeEnd /\ ~EmitItem /\ ~EmitEnd /\ ~LoopDies
  BY DEF RequestStep, AddRequest, Add, Abort, AbortWaiting, AbortRunning, Shutdown,
     RequestsRun, AtAwait, schedulerVars, MoveStep, LoopExit, WaitForWork, Woken,
     WaitTimeout, ShutdownTimeout, Starved, Resume, Goto, SubmitForward, ForwardDone,
     Count, CountItem, FreeEnd, EmitItem, EmitEnd, LoopDies, ApplyPcs
<1>2. CASE PoolCall
  BY <1>2 DEF PoolCall, queueVars, stepVars, stepResults
<1>3. CASE ApplyToken \/ ApplyRegister
  BY <1>3 DEF ApplyToken, ApplyRegister, queueVars, stepVars, stepResults, ApplyPcs
<1>4. CASE ApplyStop \/ ApplyKeep \/ ApplyEnd \/ FreeFinished
  BY <1>4 DEF ApplyStop, ApplyKeep, ApplyEnd, FreeFinished, stepVars, stepResults, ApplyPcs
<1> QED BY <1>1, <1>2, <1>3, <1>4 DEF OutsideStep, ForwardStep, ApplyStep, SendStep

LEMMA OutsideRest ==
    ASSUME EngineInv, OutsideStep
    PROVE  RestIsScheduled'
<1> SUFFICES ASSUME pc' \in ApplyPcs, NEW k \in DOMAIN rest'
             PROVE  InItems(scheduled', rest'[k].seq)
  BY DEF RestIsScheduled, InItems
<1>0. QueueData /\ EngineStepOK /\ RestIsScheduled
  BY DEF EngineInv, FinishedNowOK
<1>1. CASE SampleAll
  BY <1>1 DEF SampleAll, InItems
<1>2. CASE ApplyStop \/ ApplyKeep
  <2>1. /\ pc = "check" /\ rest # <<>> /\ rest' = Tail(rest) /\ scheduled' = scheduled
    BY <1>0, <1>2 DEF ApplyStop, ApplyKeep, EngineStepOK
  <2>2. k + 1 \in DOMAIN rest /\ rest'[k] = rest[k + 1]
    BY <1>0, <2>1, DataHeads
  <2>3. InItems(scheduled, rest[k + 1].seq)
    BY <1>0, <2>1, <2>2 DEF RestIsScheduled, ApplyPcs
  <2> QED BY <2>1, <2>2, <2>3
<1>3. CASE UNCHANGED <<rest, scheduled>> /\ pc \in ApplyPcs
  BY <1>0, <1>3 DEF RestIsScheduled
<1>4. ~ApplyEnd /\ ~FreeFinished
  BY DEF ApplyEnd, FreeFinished, ApplyPcs
<1> QED BY <1>1, <1>2, <1>3, <1>4, ListSteps DEF ApplyPcs

LEMMA OutsideListed ==
    ASSUME EngineInv, OutsideStep
    PROVE  ListedFinished'
<1> SUFFICES ASSUME pc' \in ApplyPcs \cup {"free"}, NEW s \in Seqs,
                    Contains(finishedNow', s)
             PROVE  /\ status'[s] = "FINISHED" /\ s \in DOMAIN newTokens'
                    /\ InItems(scheduled', s)
  BY DEF ListedFinished, InItems, Contains
<1>0. QueueData /\ EngineStepOK /\ ListedFinished
  BY DEF EngineInv, FinishedNowOK
<1>1. ~SampleAll
  <2>1. SampleAll => finishedNow' = <<>>
    BY DEF SampleAll
  <2> QED BY <2>1, EmptySeq DEF Contains
<1>2. /\ pc \in ApplyPcs \cup {"free"}
      /\ UNCHANGED <<scheduled, newTokens>>
      /\ ApplyStop \/ UNCHANGED <<status, finishedNow>>
  <2>1. ApplyKeep \/ ApplyEnd \/ FreeFinished => UNCHANGED <<status, finishedNow>>
    BY DEF ApplyKeep, ApplyEnd, FreeFinished, queueVars, stepResults
  <2> QED BY <1>1, <2>1, ListSteps
<1>3. CASE UNCHANGED <<status, finishedNow>>
  BY <1>0, <1>2, <1>3 DEF ListedFinished
<1>4. CASE ApplyStop
  <2>1. /\ status' = [status EXCEPT ![Current] = "FINISHED"]
        /\ Current \in DOMAIN newTokens /\ pc = "check"
    BY <1>4 DEF ApplyStop, Finish, SetStatus
  <2>2. InItems(scheduled, Current)
    BY <1>0, <2>1, CurrentIsScheduled DEF EngineStepOK, ApplyPcs
  <2>3. CASE s = Current
    <3>1. status'[s] = "FINISHED"
      BY <1>0, <2>1, <2>3 DEF QueueData
    <3> QED BY <1>2, <2>1, <2>2, <2>3, <3>1
  <2>4. CASE s # Current
    <3>1. Contains(finishedNow, s)
      BY <1>4, <2>4, StopNotes
    <3>2. status[s] = "FINISHED" /\ s \in DOMAIN newTokens /\ InItems(scheduled, s)
      BY <1>0, <1>2, <3>1 DEF ListedFinished
    <3>3. status'[s] = status[s]
      BY <1>0, <2>1, <2>4 DEF QueueData
    <3> QED BY <1>2, <3>2, <3>3
  <2> QED BY <2>3, <2>4
<1> QED BY <1>2, <1>3, <1>4

LEMMA OutsideFinishedNow ==
    ASSUME EngineInv, OutsideStep
    PROVE  FinishedNowOK'
<1>0. QueueData /\ EngineData /\ EngineStepOK /\ FinishedNowOK
  BY DEF EngineInv
<1>1. ASSUME NEW s \in Seqs, Contains(running', s), status'[s] = "FINISHED"
      PROVE  EngineReleasing(s)'
  <2>1. Contains(running, s) /\ ~Abort(s) /\ ~(FreeFinished /\ s = Head(toFree))
    BY <1>1, OutsideRunning
  <2>2. CASE status[s] = "FINISHED"
    <3>1. EngineReleasing(s)
      BY <1>0, <2>1, <2>2 DEF FinishedNowOK
    <3> QED BY <2>1, <3>1, OutsideReleasing
  <2>3. CASE status[s] # "FINISHED"
    <3>1. ApplyStop /\ s = Current
      BY <1>1, <2>1, <2>3, OutsideFinishes
    <3>2. Contains(finishedNow', s)
      BY <3>1, StopNotes
    <3> QED BY <3>1, <3>2 DEF ApplyStop, EngineReleasing, ApplyPcs
  <2> QED BY <2>2, <2>3
<1>2. ASSUME pc' = "free", NEW s \in Seqs, Contains(toFree', s)
      PROVE  Contains(finishedNow', s)
  <2>1. CASE ApplyEnd
    BY <1>2, <2>1 DEF ApplyEnd
  <2>2. CASE FreeFinished
    <3>1. /\ pc = "free" /\ toFree # <<>> /\ toFree' = Tail(toFree)
          /\ toFree \in Seq(Seqs) /\ finishedNow' = finishedNow
      BY <1>0, <2>2 DEF FreeFinished, EngineData
    <3>2. Contains(toFree, s)
      BY <1>2, <3>1, RestOfList
    <3> QED BY <1>0, <3>1, <3>2 DEF FinishedNowOK
  <2>3. CASE UNCHANGED <<pc, finishedNow, toFree>>
    BY <1>0, <1>2, <2>3 DEF FinishedNowOK
  <2>4. ~SampleAll /\ ~ApplyStop /\ ~ApplyKeep
    BY <1>2 DEF SampleAll, ApplyStop, ApplyKeep
  <2> QED BY <1>2, <2>1, <2>2, <2>3, <2>4, ListSteps
<1> QED BY <1>1, <1>2, OutsideRest, OutsideListed DEF FinishedNowOK

-----------------------------------------------------------------------------
(* Outside of schedule(): the tables, and the requests that are known. *)

\* Which calls go on and which begin.
LEMMA OutsideCalls ==
    ASSUME EngineInv, OutsideStep
    PROVE  /\ UNCHANGED prompt
           /\ \/ PoolCall /\ call.op \in {"free", "register"}
              \/ /\ UNCHANGED blockTable
                 /\ call.op \in {"none", "register"}
                 /\ \/ call'.op \in {"none", "register"}
                    \/ \E s \in Seqs : Abort(s) /\ call'.op = "free" /\ call'.seq = s
                    \/ FreeFinished /\ call'.op = "free" /\ call'.seq = Head(toFree)
<1>0. QueueData /\ EngineData /\ EngineStepOK /\ Idle.op = "none"
  BY IdleFields DEF EngineInv
<1>1. CASE PoolCall /\ pc \notin SchedulePcs
  <2>1. CallStep /\ call # Idle /\ call.op # "none"
    BY <1>1, CallInProgress DEF PoolCall
  <2>2. pc \in RequestPcs \cup {"free", "check"}
    BY <1>0, <1>1, <2>1 DEF EngineStepOK, EngineData, EngineSteps, SchedulePcs, RequestPcs
  <2>3. call.op \in {"free", "register"}
    BY <1>0, <2>1, <2>2 DEF EngineStepOK
  <2> QED BY <1>1, <2>1, <2>3, CallGoesOn
<1>2. ASSUME NEW s \in Seqs, Abort(s)
      PROVE  /\ UNCHANGED <<prompt, blockTable>> /\ call = Idle
             /\ call' = call \/ (call'.op = "free" /\ call'.seq = s)
  BY <1>2, CallFields DEF Abort, AbortWaiting, AbortRunning, Free, Begin, RequestsRun,
                          AtAwait, poolVars, seqVars
<1>3. CASE FreeFinished
  <2>1. /\ UNCHANGED <<prompt, blockTable>> /\ call = Idle
        /\ call'.op = "free" /\ call'.seq = Head(toFree)
    BY <1>3, CallFields DEF FreeFinished, Free, Begin
  <2> QED BY <1>0, <1>3, <2>1
<1>4. CASE ApplyRegister
  <2>1. /\ UNCHANGED <<prompt, blockTable>> /\ call = Idle /\ call'.op = "register"
    BY <1>4, CallFields DEF ApplyRegister, RegisterFilledBlocks, Begin, seqVars
  <2> QED BY <1>0, <2>1
<1>5. CASE LoopDies
  <2>1. /\ UNCHANGED <<prompt, blockTable>> /\ call'.op = "none"
        /\ call.op \in {"none", "register"}
    BY <1>0, <1>5 DEF LoopDies, RegisterIndexError, EngineStepOK, seqVars
  <2> QED BY <2>1
<1>6. ASSUME \/ \E s \in Seqs : AddRequest(s)
             \/ Shutdown \/ MoveStep
      PROVE  UNCHANGED <<prompt, blockTable>> /\ call = Idle /\ call' = call
  BY <1>0, <1>6 DEF AddRequest, Add, Shutdown, RequestsRun, AtAwait, MoveStep, LoopExit,
     WaitForWork, Woken, WaitTimeout, ShutdownTimeout, Starved, Resume, Goto,
     EngineStepOK, schedulerVars, poolVars, seqVars
<1>7. ASSUME \/ ForwardStep \/ FreeEnd \/ EmitItem \/ EmitEnd
             \/ ApplyToken \/ ApplyStop \/ ApplyKeep
      PROVE  UNCHANGED <<prompt, blockTable>> /\ call = Idle /\ call' = call
  BY <1>0, <1>7 DEF ForwardStep, SubmitForward, ForwardDone, Count, CountItem, SampleAll,
     FreeEnd, EmitItem, EmitEnd, ApplyToken, ApplyStop, ApplyKeep,
     EngineStepOK, poolVars, seqVars
<1>8. ASSUME ApplyEnd
      PROVE  UNCHANGED <<prompt, blockTable>> /\ call = Idle /\ call' = call
  BY <1>0, <1>8 DEF ApplyEnd, EngineStepOK, poolVars, seqVars
<1> QED BY <1>0, <1>1, <1>2, <1>3, <1>4, <1>5, <1>6, <1>7, <1>8
        DEF OutsideStep, RequestStep, ApplyStep, SendStep

\* No step outside of schedule() gives a request back to the scheduler.
LEMMA OutsideStatus ==
    ASSUME EngineInv, OutsideStep, NEW s \in Seqs
    PROVE  \/ status'[s] = status[s]
           \/ status[s] = "NONE" /\ status'[s] = "WAITING" /\ AddRequest(s)
           \/ status'[s] = "FINISHED"
<1>0. status \in [Seqs -> Statuses]
  BY DEF EngineInv, QueueData
<1>1. ASSUME NEW q \in Seqs, AddRequest(q)
      PROVE  \/ status'[s] = status[s]
             \/ status[s] = "NONE" /\ status'[s] = "WAITING" /\ AddRequest(s)
  <2>1. status' = [status EXCEPT ![q] = "WAITING"] /\ status[q] = "NONE"
    BY <1>1 DEF AddRequest, Add, SetStatus
  <2>2. CASE s = q
    BY <1>0, <1>1, <2>1, <2>2
  <2>3. CASE s # q
    BY <1>0, <2>1, <2>3
  <2> QED BY <2>2, <2>3
<1>2. ASSUME NEW q, status' = [status EXCEPT ![q] = "FINISHED"]
      PROVE  status'[s] = status[s] \/ status'[s] = "FINISHED"
  BY <1>0, <1>2
<1>3. ASSUME NEW q \in Seqs, Abort(q)
      PROVE  status'[s] = status[s] \/ status'[s] = "FINISHED"
  BY <1>2, <1>3 DEF Abort, AbortWaiting, AbortRunning, Finish, SetStatus
<1>4. ASSUME ApplyStop
      PROVE  status'[s] = status[s] \/ status'[s] = "FINISHED"
  BY <1>2, <1>4 DEF ApplyStop, Finish, SetStatus
<1>5. FreeFinished => status' = status
  BY DEF FreeFinished
<1> QED BY <1>1, <1>3, <1>4, <1>5, OutsideMoves

LEMMA OutsideTables ==
    ASSUME EngineInv, OutsideStep, EngineStepOK', EngineData'
    PROVE  EngineTablesOK'
<1>0. /\ PoolTypeOK /\ QueueData /\ EngineData /\ EngineStepOK /\ EngineTablesOK
      /\ FinishedNowOK /\ blockTable \in [Seqs -> Seq(Blocks)]
      /\ Idle.op = "none"
  BY IdleFields DEF EngineInv, PoolInv, PoolTypeOK
<1>1. /\ call'.op \notin {"admit", "ensure"} /\ pc' # "retry"
      /\ \A s : ~Admitting(s)'
  <2>1. call'.op \notin {"admit", "ensure"} /\ pc' # "retry"
    BY <1>0, OutsidePc DEF EngineStepOK, EngineData, EngineSteps, RequestPcs
  <2> QED BY <2>1 DEF Admitting
<1>2. \A s \in Seqs : NumBlocksNeededFor(PromptLen(s))' = NumBlocksNeededFor(PromptLen(s))
  BY OutsideCalls DEF NumBlocksNeededFor, PromptLen
<1>3. CASE PoolCall /\ call.op \in {"free", "register"}
  <2>1. /\ CallStep
        /\ UNCHANGED <<status, finishReason, pc, finishedNow, toFree>>
    BY <1>3 DEF PoolCall, queueVars, stepResults
  <2>2. /\ call'.op \in {"none", call.op}
        /\ call'.op # "none" => call'.seq = call.seq
        /\ FreeClear \/ UNCHANGED blockTable
        /\ call.op = "free" /\ call'.op = "none" => FreeClear
    BY <1>3, <2>1, CallGoesOn
  <2>3. call'.op = "free" => status'[call'.seq] \in {"PREEMPTED", "FINISHED"}
    BY <1>0, <2>1, <2>2 DEF EngineTablesOK
  <2>4. ASSUME NEW s \in Seqs PROVE EngineTableOK(s)'
    <3>1. EngineTableOK(s) /\ ~Admitting(s)
      BY <1>0, <1>3 DEF EngineTablesOK, Admitting
    <3>2. EngineReleasing(s)' <=> EngineReleasing(s)
      BY <2>1 DEF EngineReleasing
    <3>3. CASE FreeClear /\ s = call.seq
      <4>1. blockTable'[s] = <<>> /\ call.op = "free"
        BY <1>0, <3>3 DEF FreeClear
      <4>2. status'[s] \in {"PREEMPTED", "FINISHED"}
        BY <1>0, <2>1, <3>3, <4>1 DEF EngineTablesOK
      <4> QED BY <4>1, <4>2 DEF EngineTableOK
    <3>4. CASE ~(FreeClear /\ s = call.seq)
      <4>1. blockTable'[s] = blockTable[s]
        BY <1>0, <2>2, <3>4 DEF FreeClear
      <4>2. Freeing(s) => Freeing(s)'
        BY <2>2, <3>4 DEF Freeing
      <4> QED BY <1>2, <2>1, <3>1, <3>2, <4>1, <4>2 DEF EngineTableOK
    <3> QED BY <3>3, <3>4
  <2> QED BY <1>1, <2>3, <2>4 DEF EngineTablesOK
<1>4. CASE /\ UNCHANGED blockTable
           /\ call.op \in {"none", "register"}
           /\ \/ call'.op \in {"none", "register"}
              \/ \E s \in Seqs : Abort(s) /\ call'.op = "free" /\ call'.seq = s
              \/ FreeFinished /\ call'.op = "free" /\ call'.seq = Head(toFree)
  <2>1. ASSUME NEW s \in Seqs, Abort(s)
        PROVE  status'[s] = "FINISHED" /\ finishReason'[s] = "abort"
    <3>1. Finish(s, "abort")
      BY <2>1 DEF Abort, AbortWaiting, AbortRunning
    <3> QED BY <1>0, <3>1 DEF Finish, SetStatus, QueueData
  <2>2. ASSUME FreeFinished
        PROVE  Head(toFree) \in Seqs /\ status'[Head(toFree)] = "FINISHED"
    <3>1. toFree \in Seq(Seqs) /\ toFree # <<>> /\ pc = "free" /\ status' = status
      BY <1>0, <2>2 DEF FreeFinished, EngineData
    <3>2. Head(toFree) \in Seqs /\ Contains(toFree, Head(toFree))
      BY <3>1, HeadTail DEF Contains
    <3> QED BY <1>0, <3>1, <3>2 DEF FinishedNowOK, ListedFinished
  <2>3. call'.op = "free" => status'[call'.seq] \in {"PREEMPTED", "FINISHED"}
    BY <1>4, <2>1, <2>2
  <2>4. ASSUME NEW s \in Seqs PROVE EngineTableOK(s)'
    <3>1. EngineTableOK(s) /\ ~Admitting(s) /\ ~Freeing(s) /\ blockTable'[s] = blockTable[s]
      BY <1>0, <1>4 DEF EngineTablesOK, Admitting, Freeing
    <3>2. \/ status'[s] = status[s]
          \/ status[s] = "NONE" /\ status'[s] = "WAITING"
          \/ status'[s] = "FINISHED"
      BY OutsideStatus
    <3>3. ASSUME status'[s] = "FINISHED", finishReason'[s] # "abort", blockTable[s] # <<>>
          PROVE  Freeing(s)' \/ EngineReleasing(s)'
      <4>1. CASE status[s] = "FINISHED" /\ finishReason'[s] = finishReason[s]
        <5>1. EngineReleasing(s)
          BY <3>1, <3>3, <4>1 DEF EngineTableOK
        <5>2. FreeFinished /\ s = Head(toFree) => Freeing(s)'
          <6>1. FreeFinished => call'.op = "free" /\ call'.seq = Head(toFree)
            BY CallFields DEF FreeFinished, Free, Begin
          <6> QED BY <6>1 DEF Freeing
        <5> QED BY <5>1, <5>2, OutsideReleasing
      <4>2. CASE status[s] # "FINISHED" \/ finishReason'[s] # finishReason[s]
        <5>1. ApplyStop /\ s = Current
          BY <2>1, <3>3, <4>2, OutsideFinishes
        <5>2. Contains(finishedNow', s)
          BY <5>1, StopNotes
        <5> QED BY <5>1, <5>2 DEF ApplyStop, EngineReleasing, ApplyPcs
      <4> QED BY <4>1, <4>2
    <3> QED BY <1>2, <3>1, <3>2, <3>3 DEF EngineTableOK
  <2> QED BY <1>1, <2>3, <2>4 DEF EngineTablesOK
<1> QED BY <1>3, <1>4, OutsideCalls

LEMMA OutsideKnown ==
    ASSUME EngineInv, OutsideStep
    PROVE  KnownOK'
<1>0. /\ QueueData /\ EngineData /\ EngineStepOK /\ KnownOK
      /\ FinishedNowOK
  BY DEF EngineInv
<1> SUFFICES ASSUME NEW s \in known'
             PROVE  status'[s] # "NONE" /\ (status'[s] = "FINISHED" => Leaving(s)')
  BY DEF KnownOK
<1>1. \/ s \in known
      \/ s \in Seqs /\ AddRequest(s)
  BY DEF OutsideStep, PoolCall, RequestStep, AddRequest, Abort, Shutdown, MoveStep,
     LoopExit, WaitForWork, Woken, WaitTimeout, ShutdownTimeout, Starved, Resume, Goto,
     ForwardStep, SubmitForward, ForwardDone, Count, SampleAll, ApplyStep, ApplyToken,
     ApplyRegister, ApplyStop, ApplyKeep, ApplyEnd, SendStep, FreeFinished, FreeEnd,
     EmitItem, EmitEnd, ForgetIfDone, LoopDies, requestVars
<1>2. CASE s \in Seqs /\ AddRequest(s)
  <2>1. status'[s] = "WAITING"
    BY <1>0, <1>2 DEF AddRequest, Add, SetStatus, QueueData
  <2> QED BY <2>1
<1>3. CASE s \in known
  <2>1. s \in Seqs /\ status[s] # "NONE" /\ (status[s] = "FINISHED" => Leaving(s))
    BY <1>0, <1>3 DEF KnownOK, EngineData
  <2>2. status'[s] # "NONE"
    BY <2>1, OutsideStatus
  <2>3. ASSUME status'[s] = "FINISHED", status[s] # "FINISHED"
        PROVE  Leaving(s)'
    <3>1. ~Abort(s)
      BY DEF Abort
    <3>2. ApplyStop /\ s = Current
      BY <2>1, <2>3, <3>1, OutsideFinishes
    <3>3. Contains(finishedNow', s) /\ pc' = "apply"
      BY <3>2, StopNotes DEF ApplyStop
    <3> QED BY <3>3 DEF Leaving, ApplyPcs
  <2>4. ASSUME status[s] = "FINISHED", Leaving(s)
        PROVE  Leaving(s)'
    <3>1. CASE LoopDies
      BY <3>1 DEF LoopDies, Leaving
    <3>2. CASE pc = "crashed" /\ ~LoopDies
      <4>1. pc' = "crashed"
        BY <3>2 DEF OutsideStep, PoolCall, RequestStep, AddRequest, Add, Abort,
           AbortWaiting, AbortRunning, Shutdown, schedulerVars, MoveStep, LoopExit,
           WaitForWork, Woken, WaitTimeout, ShutdownTimeout, AtAwait, Starved, Resume,
           ForwardStep, SubmitForward, ForwardDone, Count, CountItem, SampleAll,
           ApplyStep, ApplyToken, ApplyRegister, ApplyStop, ApplyKeep, ApplyEnd,
           SendStep, FreeFinished, FreeEnd, EmitItem, EmitEnd
      <4> QED BY <4>1 DEF Leaving
    <3>3. CASE pc \in ApplyPcs \cup {"free"} /\ ~LoopDies
      <4>1. Contains(finishedNow, s)
        BY <2>4, <3>3 DEF Leaving, ApplyPcs
      <4>2. CASE FreeEnd
        <5>1. s \in DOMAIN newTokens /\ InItems(scheduled, s)
          BY <1>0, <2>1, <3>3, <4>1 DEF FinishedNowOK, ListedFinished
        <5>2. pc' = "emit" /\ rest' = scheduled /\ newTokens' = newTokens
          BY <4>2 DEF FreeEnd, stepResults
        <5> QED BY <5>1, <5>2 DEF Leaving, InItems
      <4>3. CASE ApplyStop
        <5>1. Contains(finishedNow', s) /\ pc' = "apply"
          BY <4>1, <4>3, StopNotes DEF ApplyStop
        <5> QED BY <5>1 DEF Leaving, ApplyPcs
      <4>4. CASE ~FreeEnd /\ ~ApplyStop
        <5>1. finishedNow' = finishedNow /\ pc' \in ApplyPcs \cup {"free"}
          BY <3>3, <4>4 DEF OutsideStep, PoolCall, RequestStep, AddRequest, Abort,
             Shutdown, RequestsRun, AtAwait, MoveStep, LoopExit, WaitForWork, Woken,
             WaitTimeout, ShutdownTimeout, Starved, Resume, ForwardStep, SubmitForward,
             ForwardDone, Count, CountItem, SampleAll, ApplyStep, ApplyToken,
             ApplyRegister, ApplyKeep, ApplyEnd, SendStep, FreeFinished, EmitItem,
             EmitEnd, stepResults, ApplyPcs
        <5> QED BY <4>1, <5>1 DEF Leaving, ApplyPcs
      <4> QED BY <4>2, <4>3, <4>4
    <3>4. CASE pc = "emit" /\ ~LoopDies
      <4>1. s \in DOMAIN newTokens /\ InItems(rest, s) /\ call = Idle
        BY <1>0, <2>4, <3>4 DEF Leaving, ApplyPcs, EngineStepOK
      <4>2. EmitItem
        <5>1. rest # <<>>
          BY <4>1, EmptySeq DEF InItems
        <5>2. ~PoolCall
          BY <4>1, CallInProgress DEF PoolCall
        <5> QED BY <3>4, <5>1, <5>2 DEF OutsideStep, RequestStep, AddRequest, Abort,
             Shutdown, RequestsRun, AtAwait, MoveStep, LoopExit, WaitForWork, Woken,
             WaitTimeout, ShutdownTimeout, Starved, Resume, ForwardStep, SubmitForward,
             ForwardDone, Count, CountItem, SampleAll, ApplyStep, ApplyToken,
             ApplyRegister, ApplyStop, ApplyKeep, ApplyEnd, SendStep, FreeFinished,
             FreeEnd, EmitEnd
      <4>3. /\ rest # <<>> /\ rest' = Tail(rest) /\ pc' = "emit"
            /\ newTokens' = newTokens
        BY <3>4, <4>2 DEF EmitItem, stepResults
      <4>4. s # Current
        <5>1. s = Current => known' = known \ {s}
          BY <2>4, <4>1, <4>2 DEF EmitItem, ForgetIfDone, IsDone
        <5> QED BY <5>1
      <4>5. InItems(Tail(rest), s)
        BY <1>0, <4>1, <4>3, <4>4, InItemsTail DEF QueueData, Current
      <4> QED BY <4>1, <4>3, <4>5 DEF Leaving, InItems
    <3> QED BY <2>4, <3>1, <3>2, <3>3, <3>4 DEF Leaving
  <2> QED BY <2>1, <2>2, <2>3, <2>4
<1> QED BY <1>1, <1>2, <1>3

LEMMA EngineStutter ==
    ASSUME EngineInv, UNCHANGED engineVars
    PROVE  EngineInv'
<1>1. /\ UNCHANGED <<schedulerVars, kvVars, stepResults, requestVars>>
      /\ UNCHANGED <<poolVars, queueVars, pc, stepVars>>
  BY DEF engineVars, schedulerVars
<1>2. PoolInv'
  BY <1>1, StutterPreserves DEF EngineInv
<1>3. QueueData' /\ QueuesOK'
  BY <1>1 DEF EngineInv, QueueData, QueuesOK, queueVars, stepVars, NoDuplicates, Contains
<1>4. EngineData' /\ EngineStepOK' /\ ActiveOK'
  BY <1>1 DEF EngineInv, EngineData, EngineStepOK, ActiveOK, queueVars, stepVars,
              kvVars, stepResults, requestVars, poolVars, seqVars, ChunkOf,
              NumUncomputedPromptTokens, PromptLen
<1>5. FinishedNowOK' /\ KnownOK'
  BY <1>1 DEF EngineInv, FinishedNowOK, RestIsScheduled, ListedFinished, EngineReleasing,
              KnownOK, Leaving, InItems, Contains, queueVars, stepVars, stepResults,
              requestVars
<1>6. EngineTablesOK'
  BY <1>1 DEF EngineInv, EngineTablesOK, EngineTableOK, Admitting, Freeing,
              EngineReleasing, Contains, queueVars, stepVars, stepResults, poolVars,
              seqVars, PromptLen
<1> QED BY <1>2, <1>3, <1>4, <1>5, <1>6 DEF EngineInv

LEMMA EngineInitInv == EngineInit => EngineInv
<1> SUFFICES ASSUME EngineInit PROVE EngineInv
  OBVIOUS
<1>1. SchedulerInv
  BY SchedulerInitInv DEF EngineInit
<1>2. /\ pc = "idle" /\ call.op = "none" /\ call = Idle
      /\ running = <<>> /\ waiting = <<>>
  BY IdleFields DEF EngineInit, SchedulerInit, QueuesInit
<1>3. QueueData
  BY <1>1 DEF SchedulerInv, QueueTypes, QueueData
<1>4. EngineData
  <2>1. kv \in [Slots -> Hashes]
    <3>1. NoHash \in Hashes
      BY EmptySeq DEF NoHash, Hashes
    <3> QED BY <3>1 DEF EngineInit, EmptyCache
  <2>2. stream \in [Seqs -> Seq(StreamItems)]
    BY EmptySeq DEF EngineInit
  <2>3. DOMAIN newTokens = {} /\ newTokens \in [DOMAIN newTokens -> Tokens]
    BY DEF EngineInit, NoTokens
  <2>4. modelInput \in Seq(Segments) /\ finishedNow \in Seq(Seqs) /\ toFree \in Seq(Seqs)
    BY EmptySeq DEF EngineInit
  <2>5. known = {} /\ wake \in BOOLEAN /\ stop \in BOOLEAN
    BY DEF EngineInit
  <2> QED BY <1>2, <2>1, <2>2, <2>3, <2>4, <2>5 DEF EngineData, EngineSteps
<1>5. EngineStepOK
  BY <1>2 DEF EngineStepOK, RequestPcs
<1>6. \A s : ~Contains(running, s)
  BY <1>2, EmptySeq DEF Contains
<1>7. FinishedNowOK
  BY <1>2, <1>6 DEF FinishedNowOK, RestIsScheduled, ListedFinished, ApplyPcs
<1>8. EngineTablesOK
  BY <1>1, <1>2 DEF SchedulerInv, TablesOK, TableOK, EngineTablesOK, EngineTableOK,
                    Releasing
<1>9. KnownOK
  BY DEF EngineInit, KnownOK
<1> QED BY <1>1, <1>3, <1>4, <1>5, <1>7, <1>8, <1>9 DEF SchedulerInv, EngineInv

LEMMA EngineStepInv == EngineInv /\ [EngineNext]_engineVars => EngineInv'
<1> SUFFICES ASSUME EngineInv, [EngineNext]_engineVars PROVE EngineInv'
  OBVIOUS
<1>1. CASE UNCHANGED engineVars
  BY <1>1, EngineStutter
<1>2. CASE Schedule \/ (PoolCall /\ pc \in SchedulePcs)
  BY <1>2, ScheduleKeeps
<1>3. CASE OutsideStep
  <2>1. PoolInv' /\ QueueData' /\ EngineData' /\ EngineStepOK' /\ QueuesOK'
    BY <1>3, OutsidePool, OutsideQueueData, OutsideEngineData, OutsideStepOK,
       OutsideQueues
  <2>2. ActiveOK' /\ FinishedNowOK' /\ KnownOK'
    BY <1>3, <2>1, OutsideActive, OutsideFinishedNow, OutsideKnown
  <2>3. EngineTablesOK'
    BY <1>3, <2>1, OutsideTables
  <2> QED BY <2>1, <2>2, <2>3 DEF EngineInv
<1>4. EngineNext => \/ Schedule \/ (PoolCall /\ pc \in SchedulePcs)
                    \/ OutsideStep
  BY DEF EngineNext, LoopStep, OutsideStep, RequestStep, MoveStep, ForwardStep,
         ApplyStep, SendStep
<1> QED BY <1>1, <1>2, <1>3, <1>4

-----------------------------------------------------------------------------
(* The theorems. *)

\* Every state of the engine keeps the inductive invariant: of the pool, the
\* queues, the step in progress and the requests that arrive in the middle
\* of it.
THEOREM EngineInvariant == EngineSpec => []EngineInv
BY EngineInitInv, EngineStepInv, PTL DEF EngineSpec

\* The state of the engine keeps its types for every number of requests,
\* blocks and tokens.
THEOREM EngineTypes == EngineSpec => []EngineTypeOK
<1>1. EngineInv => EngineTypeOK
  BY DEF EngineInv, PoolInv, QueueData, EngineData, EngineTypeOK, QueuesTypeOK
<1> QED BY <1>1, EngineInvariant, PTL

\* What _sequences knows is in waiting or in running whenever another task
\* can run: abort finds every request it may be asked to end.
THEOREM KnownRequestsAreQueued == EngineSpec => []KnownIsQueued
<1>1. ASSUME EngineInv, AtAwait, NEW s \in known
      PROVE  Contains(waiting, s) \/ Contains(running, s)
  <2>1. s \in Seqs /\ status[s] # "NONE" /\ (status[s] = "FINISHED" => Leaving(s))
    BY <1>1 DEF EngineInv, EngineData, KnownOK
  <2>2. ~Leaving(s)
    BY <1>1 DEF AtAwait, Leaving, ApplyPcs
  <2>3. status[s] \in {"WAITING", "PREFILLING", "RUNNING", "PREEMPTED"}
    BY <1>1, <2>1, <2>2 DEF EngineInv, QueueData, Statuses
  <2> QED BY <1>1, <2>1, <2>3 DEF EngineInv, QueuesOK
<1>2. EngineInv => KnownIsQueued
  BY <1>1 DEF KnownIsQueued
<1> QED BY <1>2, EngineInvariant, PTL

\* max_num_seqs holds in the engine, too, where requests are aborted while
\* the executor runs the batch they are in.
THEOREM EngineKeepsToLimit == EngineSpec => []RunningWithinLimit
<1>1. EngineInv => RunningWithinLimit
  BY DEF EngineInv, ActiveOK, RunningWithinLimit
<1> QED BY <1>1, EngineInvariant, PTL

\* No request is lost or queued twice, also when it ends or is aborted while
\* its step is in the executor's hands.
THEOREM EngineLosesNoRequest == EngineSpec => []LiveRequestsAreQueued
<1>1. EngineInv => LiveRequestsAreQueued
  BY InvGivesQueues DEF EngineInv, QueueData
<1> QED BY <1>1, EngineInvariant, PTL

\* A chunk that is planned has its blocks: the except branch around
\* ensure_blocks_for_chunk is dead code.
THEOREM EngineCoversChunks == EngineSpec => []ChunkIsCovered
<1>1. ASSUME EngineInv PROVE ChunkIsCovered
  <2>1. CASE pc = "ensure"
    BY <1>1, <2>1, ScheduleInv, InvGivesChunk DEF SchedulePcs
  <2>2. CASE pc # "ensure"
    BY <2>2 DEF ChunkIsCovered
  <2> QED BY <2>1, <2>2
<1> QED BY <1>1, EngineInvariant, PTL

\* A sequence holds blocks exactly when its status says so, aborted ones
\* excepted, whatever is aborted between and during the steps.
THEOREM EngineStatusTellsBlocks == EngineSpec => []BlocksFollowStatus
<1>1. ASSUME EngineInv, call = Idle,
             pc \notin {"apply", "register", "check", "free",
                       "sample", "finalize", "release", "crashed"},
             NEW s \in Seqs
      PROVE  /\ status[s] \in {"PREFILLING", "RUNNING"} => blockTable[s] # <<>>
             /\ status[s] \in {"NONE", "WAITING", "PREEMPTED"} => blockTable[s] = <<>>
             /\ (status[s] = "FINISHED" /\ finishReason[s] # "abort")
                   => blockTable[s] = <<>>
  <2>1. EngineTableOK(s) /\ ~Admitting(s) /\ ~Freeing(s) /\ ~EngineReleasing(s)
    BY <1>1, IdleFields
       DEF EngineInv, EngineTablesOK, Admitting, Freeing, EngineReleasing, ApplyPcs
  <2> QED BY <2>1 DEF EngineTableOK
<1>2. EngineInv => BlocksFollowStatus
  BY <1>1 DEF BlocksFollowStatus
<1> QED BY <1>2, EngineInvariant, PTL

\* The steps of schedule() take the engine where they take the scheduler.
LEMMA ScheduleIsScheduler ==
    ASSUME EngineInv, Schedule \/ (PoolCall /\ pc \in SchedulePcs)
    PROVE  SchedulerInv /\ [SchedulerNext]_schedulerVars /\ SchedulerInv'
<1>1. pc \in SchedulePcs
  BY DEF Schedule, StartSchedule, ScheduleStep, DecodeSkip, DecodeSchedule, DecodeTurn,
     DecodePreempt, DecodeGiveUp, EndDecode, AdmitHead, PreemptForAdmission,
     AdmissionGiveUp, PlanChunk, NothingToPrefill, ScheduleChunk, EndPrefill,
     NeedsAdmission, PrefillTurn, SchedulePcs
<1>2. SchedulerInv
  BY <1>1, ScheduleInv
<1>3. [SchedulerNext]_schedulerVars
  BY DEF Schedule, PoolCall, BlockManagerStep, SchedulerNext, SchedulerStep, CallerStep
<1> QED BY <1>2, <1>3, SchedulerStepInv

EnginePlanInv == EngineInv /\ BudgetOK /\ DecodeOrderOK

\* What a step of the engine holds while it is put together: its budget is
\* spent exactly, and phase 1 keeps to the order of running.
THEOREM EnginePlanInvariant == EngineSpec => []EnginePlanInv
<1>1. EngineInit => EnginePlanInv
  BY EngineInitInv DEF EnginePlanInv, BudgetOK, DecodeOrderOK, SchedulePhases,
     EngineInit, SchedulerInit, QueuesInit
<1>2. ASSUME EnginePlanInv, [EngineNext]_engineVars PROVE BudgetOK' /\ DecodeOrderOK'
  <2>0. EngineInv /\ BudgetOK /\ DecodeOrderOK
    BY <1>2 DEF EnginePlanInv
  <2>1. CASE Schedule \/ (PoolCall /\ pc \in SchedulePcs)
    <3>1. SchedulerInv /\ [SchedulerNext]_schedulerVars /\ SchedulerInv'
      BY <2>0, <2>1, ScheduleIsScheduler
    <3> QED BY <2>0, <3>1, BudgetStep, DecodeOrderStep
  <2>2. CASE OutsideStep
    <3>1. pc' \notin SchedulePhases
      BY <2>0, <2>2, OutsidePc DEF SchedulePhases
    <3> QED BY <3>1 DEF BudgetOK, DecodeOrderOK, SchedulePhases
  <2>3. CASE UNCHANGED engineVars
    BY <2>0, <2>3 DEF engineVars, schedulerVars, queueVars, stepVars, BudgetOK, TokensOf,
                      IsTotal, DecodeOrderOK, DecodeOrder
  <2>4. EngineNext => \/ Schedule \/ (PoolCall /\ pc \in SchedulePcs)
                      \/ OutsideStep
    BY DEF EngineNext, LoopStep, OutsideStep, RequestStep, MoveStep, ForwardStep,
           ApplyStep, SendStep
  <2> QED BY <1>2, <2>1, <2>2, <2>3, <2>4
<1>3. EnginePlanInv /\ [EngineNext]_engineVars => EnginePlanInv'
  BY <1>2, EngineStepInv DEF EnginePlanInv
<1> QED BY <1>1, <1>3, PTL DEF EngineSpec

\* No step of the engine schedules more than max_num_batched_tokens tokens.
THEOREM EngineKeepsToBudget == EngineSpec => []TokensWithinBudget
<1>1. EnginePlanInv => TokensWithinBudget
  BY BudgetGivesTokens DEF EnginePlanInv, EngineInv, QueueData
<1> QED BY <1>1, EnginePlanInvariant, PTL

\* In phase 1 a victim of preemption has not been scheduled in the step.
THEOREM EngineVictimsAreUnscheduled == EngineSpec => []DecodeKeepsItsSchedule
<1>1. ASSUME EnginePlanInv PROVE DecodeKeepsItsSchedule
  <2>1. CASE pc \in {"decode", "retry"}
    BY <1>1, <2>1, ScheduleInv, OrderKeepsSchedule DEF EnginePlanInv, SchedulePcs
  <2>2. CASE pc \notin {"decode", "retry"}
    BY <2>2 DEF DecodeKeepsItsSchedule
  <2> QED BY <2>1, <2>2
<1> QED BY <1>1, EnginePlanInvariant, PTL

\* A reference count is the number of tables a block is in, also while an
\* abort frees the blocks of a sequence that is in the executor's hands.
THEOREM EngineKeepsRefCounts == EngineSpec => []RefCountsExact
<1>1. EngineInv => RefCountsExact
  BY InvImplies DEF EngineInv
<1> QED BY <1>1, EngineInvariant, PTL

\* No block is free and in a table, none is free twice, none is lost.
THEOREM EngineKeepsThePool == EngineSpec => []FreeListsExact
<1>1. EngineInv => FreeListsExact
  BY InvImplies DEF EngineInv
<1> QED BY <1>1, EngineInvariant, PTL

-----------------------------------------------------------------------------
(***************************************************************************)
(* The second half: the engine in the steps that schedule no sequence      *)
(* twice (OneItemEach).  What is scheduled can be run, also when a         *)
(* sequence is preempted after it was scheduled; what has ended has left   *)
(* the queues.                                                             *)
(*                                                                         *)
(* The inductive invariant: EngineInv and, for every sequence that holds   *)
(* blocks, how far it is, counting the tokens of the items that are still  *)
(* under way.  A running sequence is past its prompt and has one token     *)
(* left to run, or is just getting its next; one that is being prefilled   *)
(* is inside its prompt.                                                   *)
(***************************************************************************)

\* No sequence is in two of the items q.
Distinct(q) == \A i, j \in DOMAIN q : q[i].seq = q[j].seq => i = j

PlanPcs == {"decode", "retry", "prefill", "ensure", "scheduled"}

LoopPcs == {"idle", "yield", "pause", "waiting"}

EndPcs == {"stopped", "crashed"}

\* The positions the blocks of s have slots for.
Room(s) == Len(blockTable[s]) * BlockSize

\* s is past its prompt and has a token to run.
Ready(s) ==
    /\ PromptLen(s) <= numComputed[s]
    /\ numComputed[s] < TotalLen(s)
    /\ numComputed[s] <= Room(s)

\* The next n tokens of s take it past its prompt and are all there.
Due(s, n) ==
    /\ PromptLen(s) <= numComputed[s] + n
    /\ numComputed[s] + n <= TotalLen(s)
    /\ numComputed[s] + n <= Room(s)

\* The next n tokens of s leave some of its prompt.
Partial(s, n) == numComputed[s] + n < PromptLen(s)

\* The items whose tokens are not counted yet.
Uncounted ==
    IF pc \in SchedulePcs \cup {"forward"} THEN scheduled
    ELSE IF pc = "count" THEN rest ELSE <<>>

\* The items whose new token is not applied yet.
Unapplied ==
    IF pc = "apply" THEN rest
    ELSE IF pc \in {"register", "check"} THEN Tail(rest) ELSE <<>>

\* rest is made of items of the step.
FromStep == \A i \in DOMAIN rest : \E k \in DOMAIN scheduled : rest[i] = scheduled[k]

\* Between two steps there are no items; a plan that is complete has no
\* sequence twice, nor has the rest of it.
ItemsOK ==
    /\ pc \in LoopPcs => scheduled = <<>>
    /\ pc \notin {"decode", "retry", "prefill", "ensure"} \cup EndPcs => Distinct(scheduled)
    /\ pc \in {"count", "apply", "register", "check", "emit"} => Distinct(rest) /\ FromStep

\* A running sequence has one token to run, in an item or not, or one to get.
RunningOK(s) ==
    \/ /\ Ready(s)
       /\ ~InItems(Uncounted, s)
       /\ ~InItems(Unapplied, s)
    \/ \E k \in DOMAIN Uncounted : Uncounted[k].seq = s /\ Due(s, Uncounted[k].n)
    \/ pc = "count" /\ InItems(scheduled, s) /\ ~InItems(rest, s) /\ Due(s, 0)
    \/ InItems(Unapplied, s) /\ s \in DOMAIN newTokens /\ Due(s, 0)

\* One that is prefilled has some of its prompt left, its item run or not.
PrefillingOK(s) ==
    /\ Admitting(s) \/ Partial(s, 0)
    /\ pc \in {"scheduled", "forward", "count"} =>
          \A k \in DOMAIN Uncounted :
              Uncounted[k].seq = s => Partial(s, Uncounted[k].n)

SequenceOK(s) ==
    /\ status[s] = "RUNNING" => RunningOK(s)
    /\ status[s] = "PREFILLING" => PrefillingOK(s)

ProgressOK == pc \notin EndPcs => \A s \in Seqs : SequenceOK(s)

\* An item that can be run.
Fitting(k) ==
    LET s == scheduled[k].seq
    IN  \/ status[s] = "RUNNING" /\ Due(s, scheduled[k].n)
        \/ pc = "scheduled" /\ status[s] = "PREFILLING" /\ Partial(s, scheduled[k].n)

\* An item of a sequence that was preempted after it was scheduled: it waits,
\* or has been scheduled again, or is about to be.
Touched(k) ==
    LET s == scheduled[k].seq
    IN  /\ s \in preempted
        /\ \/ status[s] = "PREEMPTED"
           \/ \E j \in DOMAIN scheduled : j # k /\ scheduled[j].seq = s
           \/ /\ pc \in {"prefill", "ensure"}
              /\ status[s] = "PREFILLING"
              /\ waiting # <<>>
              /\ s = Head(waiting)
              /\ budget > 0
              /\ active < MaxNumSeqs

\* Phase 1 has what it schedules behind it.
TodoOK ==
    pc \in {"decode", "retry"} =>
        /\ NoDuplicates(todo)
        /\ \A s \in Seqs : Contains(todo, s) => ~InItems(scheduled, s)

PlanOK ==
    /\ pc \in PlanPcs => \A k \in DOMAIN scheduled : Fitting(k) \/ Touched(k)
    /\ TodoOK

\* What runs is not preempted; what got a token is past its prompt.
BatchOK ==
    /\ pc \in {"forward", "count"} =>
          \A k \in DOMAIN scheduled :
              status[scheduled[k].seq] \in {"RUNNING", "PREFILLING", "FINISHED"}
    /\ pc \in ApplyPcs =>
          \A s \in DOMAIN newTokens : status[s] \in {"RUNNING", "FINISHED"}

\* What waits has not finished.
WaitingLive == \A s \in Seqs : Contains(waiting, s) => status[s] # "FINISHED"

\* What has not finished can be aborted.
LiveKnown == \A s \in Seqs : status[s] \notin {"NONE", "FINISHED"} => s \in known

OnceInv ==
    /\ EngineInv
    /\ ItemsOK
    /\ PlanOK
    /\ BatchOK
    /\ WaitingLive
    /\ LiveKnown
    /\ ProgressOK

\* The engine without the steps that end with a sequence scheduled twice.
OnceSpec == EngineInit /\ [][EngineNext /\ OneItemEach']_engineVars

-----------------------------------------------------------------------------

(* How far a sequence is. *)

LEMMA RoomFacts ==
    ASSUME PoolTypeOK, NEW s \in Seqs
    PROVE  /\ numComputed[s] \in Nat
           /\ PromptLen(s) \in Nat \ {0}
           /\ TotalLen(s) \in Nat
           /\ PromptLen(s) <= TotalLen(s)
           /\ Room(s) \in Nat
           /\ blockTable[s] = <<>> => Room(s) = 0
<1>1. Len(blockTable[s]) \in Nat /\ BlockSize \in Nat \ {0}
  BY SequenceSizes, BlockConstants
<1>2. Room(s) \in Nat /\ (Len(blockTable[s]) = 0 => Room(s) = 0)
  BY <1>1, Multiples DEF Room
<1>3. blockTable[s] = <<>> => Len(blockTable[s]) = 0
  BY EmptySeq
<1> QED BY <1>2, <1>3, SequenceSizes DEF PoolTypeOK

\* Enough blocks for m tokens have room for them.
LEMMA BlocksGiveRoom ==
    ASSUME PoolTypeOK, NEW s \in Seqs, NEW m \in Nat,
           NumBlocksNeededFor(m) <= Len(blockTable[s])
    PROVE  m <= Room(s)
<1> DEFINE d == (m + BlockSize - 1) \div BlockSize
           r == (m + BlockSize - 1) % BlockSize
           l == Len(blockTable[s])
<1>1. BlockSize \in Nat \ {0} /\ l \in Nat /\ m + BlockSize - 1 \in Nat
  BY SequenceSizes, BlockConstants
<1>2. d \in Nat /\ r \in 0 .. BlockSize - 1 /\ m + BlockSize - 1 = BlockSize * d + r
  BY <1>1, DivMod
<1>3. d <= l
  BY DEF NumBlocksNeededFor
<1>4. d * BlockSize <= l * BlockSize /\ l * BlockSize \in Nat /\ d * BlockSize \in Nat
  BY <1>1, <1>2, <1>3, Multiples
<1>5. BlockSize * d = d * BlockSize
  BY <1>1, <1>2
<1> HIDE DEF d, r, l
<1>6. m <= d * BlockSize
  BY <1>1, <1>2, <1>4, <1>5
<1>7. m <= l * BlockSize
  BY <1>4, <1>6
<1> QED BY <1>7 DEF Room, l

\* s keeps its tokens and its count; its table may grow.
Grows(s) ==
    /\ prompt' = prompt
    /\ output'[s] = output[s]
    /\ numComputed'[s] = numComputed[s]
    /\ Len(blockTable'[s]) >= Len(blockTable[s])

LEMMA GrowsKeeps ==
    ASSUME PoolTypeOK, PoolTypeOK', NEW s \in Seqs, Grows(s)
    PROVE  /\ Ready(s) => Ready(s)'
           /\ \A n \in Nat : Due(s, n) => Due(s, n)'
           /\ \A n : Partial(s, n)' <=> Partial(s, n)
<1>1. /\ numComputed'[s] = numComputed[s]
      /\ PromptLen(s)' = PromptLen(s)
      /\ TotalLen(s)' = TotalLen(s)
  BY DEF Grows, PromptLen, TotalLen
<1>2. Len(blockTable[s]) \in Nat /\ Len(blockTable'[s]) \in Nat
  <2>1. blockTable[s] \in Seq(Blocks) /\ blockTable'[s] \in Seq(Blocks)
    BY DEF PoolTypeOK
  <2> QED BY <2>1
<1>3. /\ Room(s) \in Nat /\ Room(s)' \in Nat /\ numComputed[s] \in Nat
      /\ Room(s) <= Room(s)'
  <2>1. numComputed[s] \in Nat
    BY RoomFacts
  <2> QED BY <1>2, <2>1, Multiples, BlockConstants DEF Room, Grows
<1>4. Ready(s) => Ready(s)'
  BY <1>1, <1>3 DEF Ready
<1>5. ASSUME NEW n \in Nat, Due(s, n) PROVE Due(s, n)'
  <2>1. numComputed[s] + n \in Nat
    BY <1>3
  <2>2. numComputed[s] + n <= Room(s)'
    BY <1>3, <1>5, <2>1 DEF Due
  <2> QED BY <1>1, <1>5, <2>2 DEF Due
<1>6. \A n : Partial(s, n)' <=> Partial(s, n)
  BY <1>1 DEF Partial
<1> QED BY <1>4, <1>5, <1>6

\* The tail of a list of items that has no sequence twice.
LEMMA RestTail ==
    ASSUME NEW q \in Seq(Items), q # <<>>, Distinct(q)
    PROVE  /\ Distinct(Tail(q))
           /\ ~InItems(Tail(q), Head(q).seq)
           /\ \A s : InItems(q, s) <=> s = Head(q).seq \/ InItems(Tail(q), s)
           /\ \A k \in DOMAIN Tail(q) : k + 1 \in DOMAIN q /\ Tail(q)[k] = q[k + 1]
           /\ \A k \in DOMAIN q : k # 1 => k - 1 \in DOMAIN Tail(q) /\ Tail(q)[k - 1] = q[k]
           /\ 1 \in DOMAIN q /\ q[1] = Head(q)
<1>1. /\ Head(q) = q[1] /\ Len(q) \in Nat /\ Len(q) >= 1
      /\ DOMAIN q = 1 .. Len(q)
      /\ DOMAIN Tail(q) = 1 .. Len(q) - 1
      /\ \A i \in 1 .. Len(q) - 1 : Tail(q)[i] = q[i + 1]
  BY HeadTail, EmptySeq
<1>2. /\ \A k \in DOMAIN Tail(q) : k + 1 \in DOMAIN q /\ Tail(q)[k] = q[k + 1]
      /\ \A k \in DOMAIN q : k # 1 => k - 1 \in DOMAIN Tail(q) /\ Tail(q)[k - 1] = q[k]
      /\ 1 \in DOMAIN q /\ q[1] = Head(q)
      /\ DOMAIN Tail(q) \subseteq Nat \ {0}
  <2>1. \A k \in DOMAIN q : k # 1 => k - 1 \in 1 .. Len(q) - 1 /\ (k - 1) + 1 = k
    BY <1>1
  <2> QED BY <1>1, <2>1
<1>3. Distinct(Tail(q))
  <2>1. ASSUME NEW i \in DOMAIN Tail(q), NEW j \in DOMAIN Tail(q),
               Tail(q)[i].seq = Tail(q)[j].seq
        PROVE  i = j
    <3>1. i + 1 = j + 1
      BY <1>2, <2>1 DEF Distinct
    <3> QED BY <1>2, <3>1
  <2> QED BY <2>1 DEF Distinct
<1>4. ~InItems(Tail(q), Head(q).seq)
  <2>1. ASSUME NEW i \in DOMAIN Tail(q), Tail(q)[i].seq = Head(q).seq
        PROVE  FALSE
    <3>1. i + 1 = 1
      BY <1>2, <2>1 DEF Distinct
    <3> QED BY <1>2, <3>1
  <2> QED BY <2>1 DEF InItems
<1>5. \A s : InItems(q, s) <=> s = Head(q).seq \/ InItems(Tail(q), s)
  BY <1>2 DEF InItems
<1> QED BY <1>2, <1>3, <1>4, <1>5

-----------------------------------------------------------------------------
(* Outside of schedule(): the items. *)

LEMMA ListsTyped ==
    ASSUME EngineInv
    PROVE  /\ Uncounted \in Seq(Items)
           /\ Unapplied \in Seq(Items)
           /\ \A k \in DOMAIN Uncounted : Uncounted[k].seq \in Seqs /\ Uncounted[k].n \in Nat
<1>1. /\ scheduled \in Seq(Items) /\ rest \in Seq(Items)
      /\ pc \in {"register", "check"} => rest # <<>>
  BY DEF EngineInv, QueueData, EngineStepOK
<1>2. rest # <<>> => Tail(rest) \in Seq(Items)
  BY <1>1, HeadTail
<1>3. Uncounted \in Seq(Items) /\ Unapplied \in Seq(Items)
  BY <1>1, <1>2, EmptySeq DEF Uncounted, Unapplied
<1>4. \A k \in DOMAIN Uncounted : Uncounted[k] \in Items
  BY <1>3
<1> QED BY <1>3, <1>4 DEF Items

\* Where there is nothing to count or to apply.
LEMMA NoItems == \A s : ~InItems(<<>>, s)
BY EmptySeq DEF InItems

\* A step that neither counts nor samples nor applies a token.
LEMMA ProgressStays ==
    ASSUME EngineInv, PoolTypeOK', NEW s \in Seqs, SequenceOK(s), Grows(s),
           status'[s] = status[s],
           Uncounted' = Uncounted, Unapplied' = Unapplied,
           newTokens' = newTokens \/ Unapplied = <<>>,
           pc = "count" => pc' = "count" /\ scheduled' = scheduled /\ rest' = rest,
           pc' \in {"scheduled", "forward", "count"}
               => pc \in {"scheduled", "forward", "count"},
           Admitting(s) => Admitting(s)' \/ Partial(s, 0)'
    PROVE  SequenceOK(s)'
<1>0. PoolTypeOK
  BY DEF EngineInv, PoolInv
<1>1. /\ Ready(s) => Ready(s)'
      /\ \A n \in Nat : Due(s, n) => Due(s, n)'
      /\ \A n : Partial(s, n)' <=> Partial(s, n)
  BY <1>0, GrowsKeeps
<1>2. RunningOK(s) => RunningOK(s)'
  <2>1. CASE Ready(s) /\ ~InItems(Uncounted, s) /\ ~InItems(Unapplied, s)
    <3>1. Ready(s)' /\ ~InItems(Uncounted', s) /\ ~InItems(Unapplied', s)
      BY <1>1, <2>1
    <3> QED BY <3>1 DEF RunningOK, InItems
  <2>2. ASSUME NEW k \in DOMAIN Uncounted, Uncounted[k].seq = s, Due(s, Uncounted[k].n)
        PROVE  RunningOK(s)'
    <3>1. Due(s, Uncounted[k].n)'
      <4>1. Uncounted[k].n \in Nat
        BY ListsTyped
      <4>2. Due(s, Uncounted[k].n) /\ prompt' = prompt
        BY <2>2 DEF Grows
      <4>3. ASSUME NEW n \in Nat, Due(s, n), Uncounted[k].n = n
            PROVE  Due(s, Uncounted[k].n)'
        <5>1. Due(s, n)'
          BY <1>1, <4>3
        <5>2. Uncounted'[k].n = n
          BY <4>3
        <5> QED BY <5>1, <5>2 DEF Due
      <4> QED BY <4>1, <4>2, <4>3
    <3> QED BY <2>2, <3>1 DEF RunningOK
  <2>3. CASE pc = "count" /\ InItems(scheduled, s) /\ ~InItems(rest, s) /\ Due(s, 0)
    <3>1. Due(s, 0)'
      BY <1>1, <2>3
    <3> QED BY <2>3, <3>1 DEF RunningOK, InItems
  <2>4. CASE InItems(Unapplied, s) /\ s \in DOMAIN newTokens /\ Due(s, 0)
    <3>1. Due(s, 0)' /\ newTokens' = newTokens
      BY <1>1, <2>4, NoItems
    <3> QED BY <2>4, <3>1 DEF RunningOK, InItems
  <2> QED BY <2>1, <2>2, <2>3, <2>4 DEF RunningOK
<1>3. PrefillingOK(s) => PrefillingOK(s)'
  <2>1. ASSUME PrefillingOK(s) PROVE Admitting(s)' \/ Partial(s, 0)'
    BY <1>1, <2>1 DEF PrefillingOK
  <2>2. ASSUME PrefillingOK(s), pc' \in {"scheduled", "forward", "count"},
               NEW k \in DOMAIN Uncounted', Uncounted'[k].seq = s
        PROVE  Partial(s, Uncounted[k].n)'
    <3>1. Partial(s, Uncounted[k].n)
      BY <2>2 DEF PrefillingOK
    <3>2. ASSUME NEW n, n = Uncounted[k].n PROVE Partial(s, Uncounted[k].n)'
      <4>1. Partial(s, n)' /\ Uncounted'[k].n = n
        BY <1>1, <3>1, <3>2
      <4> QED BY <4>1 DEF Partial
    <3> QED BY <3>2
  <2> QED BY <2>1, <2>2 DEF PrefillingOK
<1> QED BY <1>2, <1>3 DEF SequenceOK

\* What such a step leaves alone.
LEMMA OutsideGrows ==
    ASSUME EngineInv, OutsideStep, ~Count, ~ApplyToken, NEW s \in Seqs,
           status[s] \in {"RUNNING", "PREFILLING"}
    PROVE  Grows(s) /\ ~Admitting(s)
<1>0. PoolTypeOK /\ EngineTablesOK
  BY DEF EngineInv, PoolInv
<1>1. /\ UNCHANGED prompt
      /\ \/ PoolCall /\ call.op \in {"free", "register"}
         \/ UNCHANGED blockTable /\ call.op \in {"none", "register"}
  BY OutsideCalls
<1>2. CASE PoolCall /\ call.op \in {"free", "register"}
  <2>1. CallStep /\ (FreeClear \/ UNCHANGED blockTable)
    BY <1>2, CallGoesOn DEF PoolCall
  <2>2. UNCHANGED <<output, numComputed>>
    BY <1>2, <2>1 DEF CallStep, AdmitHit, AdmitMiss, AdmitFinish, EnsureTake, EnsureExit,
       FreeRelease, FreeClear, RegisterSkip, RegisterBlock, RegisterReturn, seqVars
  <2>3. blockTable'[s] = blockTable[s]
    <3>1. FreeClear => call.op = "free" /\ call.seq # s
      BY <1>0 DEF FreeClear, EngineTablesOK
    <3>2. FreeClear => blockTable' = [blockTable EXCEPT ![call.seq] = <<>>]
      BY DEF FreeClear
    <3> QED BY <1>0, <2>1, <3>1, <3>2 DEF PoolTypeOK
  <2>4. Len(blockTable[s]) \in Nat
    BY <1>0, SequenceSizes
  <2> QED BY <1>1, <1>2, <2>2, <2>3, <2>4 DEF Grows, Admitting
<1>3. CASE ~PoolCall
  <2>1. UNCHANGED <<output, numComputed>>
    BY <1>3 DEF OutsideStep, RequestStep, AddRequest, Add, Abort, AbortWaiting,
       AbortRunning, Free, Shutdown, schedulerVars, MoveStep, LoopExit, WaitForWork,
       Woken, WaitTimeout, ShutdownTimeout, Starved, Resume, Goto, ForwardStep,
       SubmitForward, ForwardDone, SampleAll, ApplyStep, ApplyRegister,
       RegisterFilledBlocks, ApplyStop, ApplyKeep, ApplyEnd, SendStep, FreeFinished,
       FreeEnd, EmitItem, EmitEnd, LoopDies, poolVars, seqVars
  <2>2. Len(blockTable[s]) \in Nat
    BY <1>0, SequenceSizes
  <2> QED BY <1>1, <1>3, <2>1, <2>2 DEF Grows, Admitting
<1> QED BY <1>1, <1>2, <1>3, CallInProgress DEF PoolCall

LEMMA OutsideLists ==
    ASSUME EngineInv, ItemsOK, OutsideStep, ~Count, ~SampleAll, ~ApplyToken,
           pc' \notin EndPcs
    PROVE  /\ Uncounted' = Uncounted /\ Unapplied' = Unapplied
           /\ pc \notin EndPcs
           /\ newTokens' = newTokens \/ Unapplied = <<>>
           /\ pc = "count" => pc' = "count" /\ scheduled' = scheduled /\ rest' = rest
           /\ pc' \in {"scheduled", "forward", "count"}
                 => pc \in {"scheduled", "forward", "count"}
<1>1. CASE (PoolCall /\ pc \notin SchedulePcs) \/ RequestStep
  <2>1. UNCHANGED <<pc, scheduled, rest, newTokens>>
    BY <1>1 DEF PoolCall, RequestStep, AddRequest, Add, Abort, AbortWaiting,
       AbortRunning, Shutdown, schedulerVars, stepVars, stepResults
  <2> QED BY <2>1 DEF Uncounted, Unapplied
<1>2. CASE MoveStep
  <2>1. /\ UNCHANGED <<scheduled, rest, newTokens>>
        /\ scheduled = <<>> /\ pc \in LoopPcs \cup {"scheduled"} /\ pc' \in LoopPcs
    BY <1>2 DEF MoveStep, LoopExit, WaitForWork, Woken, WaitTimeout, ShutdownTimeout,
       Starved, Resume, Goto, stepVars, stepResults, ItemsOK, LoopPcs, EndPcs
  <2> QED BY <2>1 DEF Uncounted, Unapplied, LoopPcs, SchedulePcs, EndPcs
<1>3. CASE SubmitForward \/ ForwardDone
  <2>1. \/ /\ pc = "scheduled" /\ pc' = "forward"
           /\ UNCHANGED <<scheduled, rest, newTokens>>
        \/ /\ pc = "forward" /\ pc' = "count" /\ rest' = scheduled
           /\ UNCHANGED <<scheduled, newTokens>>
    BY <1>3 DEF SubmitForward, ForwardDone, stepVars, stepResults
  <2> QED BY <2>1 DEF Uncounted, Unapplied, SchedulePcs, EndPcs
<1>4. CASE ApplyStep
  <2>1. \/ pc = "register" /\ pc' = "check" /\ UNCHANGED <<rest, newTokens>>
        \/ pc = "check" /\ pc' = "apply" /\ rest' = Tail(rest) /\ UNCHANGED newTokens
        \/ pc = "apply" /\ pc' = "free" /\ rest = <<>> /\ UNCHANGED newTokens
    BY <1>4 DEF ApplyStep, ApplyRegister, ApplyStop, ApplyKeep, ApplyEnd, stepVars,
                stepResults
  <2> QED BY <2>1 DEF Uncounted, Unapplied, SchedulePcs, EndPcs
<1>5. CASE SendStep
  <2>1. pc \in {"free", "emit"} /\ pc' \in {"free", "emit", "yield"}
    BY <1>5 DEF SendStep, FreeFinished, FreeEnd, EmitItem, EmitEnd
  <2> QED BY <2>1 DEF Uncounted, Unapplied, SchedulePcs, EndPcs
<1>6. CASE LoopDies
  BY <1>6 DEF LoopDies, EndPcs
<1>7. OutsideStep => \/ (PoolCall /\ pc \notin SchedulePcs) \/ RequestStep \/ MoveStep
                     \/ SubmitForward \/ ForwardDone \/ ApplyStep \/ SendStep \/ LoopDies
  BY DEF OutsideStep, ForwardStep
<1> QED BY <1>1, <1>2, <1>3, <1>4, <1>5, <1>6, <1>7

\* num_computed_tokens goes up by the tokens of the item.
LEMMA CountProgress ==
    ASSUME EngineInv, ItemsOK, Count, NEW s \in Seqs, SequenceOK(s)
    PROVE  SequenceOK(s)'
<1> DEFINE q == Tail(rest)
           h == Head(rest).seq
           n == Head(rest).n
<1>1. /\ pc = "count" /\ pc' = "count"
      /\ rest # <<>> /\ rest' = q
      /\ numComputed' = [numComputed EXCEPT ![h] = @ + n]
      /\ UNCHANGED <<prompt, output, blockTable, status, scheduled, newTokens>>
  BY DEF Count, CountItem, queueVars, stepResults
<1>2. PoolTypeOK /\ QueueData /\ Distinct(rest) /\ FromStep /\ rest \in Seq(Items)
  BY <1>1 DEF EngineInv, PoolInv, QueueData, ItemsOK
<1>3. h \in Seqs /\ n \in Nat
  BY <1>1, <1>2, DataHeads
<1>4. /\ ~InItems(q, h)
      /\ \A r : InItems(rest, r) <=> r = h \/ InItems(q, r)
      /\ \A k \in DOMAIN q : k + 1 \in DOMAIN rest /\ q[k] = rest[k + 1]
      /\ \A k \in DOMAIN rest : k # 1 => k - 1 \in DOMAIN q /\ q[k - 1] = rest[k]
      /\ 1 \in DOMAIN rest /\ rest[1] = Head(rest)
  BY <1>1, <1>2, RestTail
<1>5. /\ Uncounted = rest /\ Uncounted' = q
      /\ Unapplied = <<>> /\ Unapplied' = <<>>
  BY <1>1 DEF Uncounted, Unapplied, SchedulePcs
<1>6. /\ PromptLen(s)' = PromptLen(s) /\ TotalLen(s)' = TotalLen(s) /\ Room(s)' = Room(s)
      /\ s # h => numComputed'[s] = numComputed[s]
      /\ s = h => numComputed'[s] = numComputed[s] + n
      /\ numComputed[s] \in Nat
  BY <1>1, <1>2, <1>3 DEF PromptLen, TotalLen, Room, PoolTypeOK
<1> HIDE DEF q, h, n
<1>7. CASE s = h
  <2>1. InItems(rest, s) /\ ~InItems(q, s)
    BY <1>4, <1>7
  <2>2. ASSUME RunningOK(s) PROVE RunningOK(s)'
    <3>1. PICK k \in DOMAIN rest : rest[k].seq = s /\ Due(s, rest[k].n)
      BY <1>5, <2>1, <2>2, NoItems DEF RunningOK
    <3>2. k = 1 /\ rest[k].n = n
      BY <1>2, <1>4, <1>7, <3>1 DEF Distinct, h, n
    <3>3. Due(s, 0)'
      BY <1>3, <1>6, <1>7, <3>1, <3>2 DEF Due
    <3>4. InItems(scheduled, s)
      BY <1>2, <3>1 DEF FromStep, InItems
    <3> QED BY <1>1, <2>1, <3>3, <3>4 DEF RunningOK, InItems
  <2>3. ASSUME PrefillingOK(s) PROVE PrefillingOK(s)'
    <3>1. Partial(s, n)
      BY <1>1, <1>4, <1>5, <1>7, <2>3 DEF PrefillingOK, h, n
    <3>2. Partial(s, 0)'
      BY <1>3, <1>6, <1>7, <3>1 DEF Partial
    <3>3. \A k \in DOMAIN q : q[k].seq # s
      BY <2>1 DEF InItems
    <3> QED BY <1>5, <3>2, <3>3 DEF PrefillingOK
  <2> QED BY <1>1, <2>2, <2>3 DEF SequenceOK
<1>8. CASE s # h
  <2>1. InItems(rest, s) <=> InItems(q, s)
    BY <1>4, <1>8
  <2>2. /\ Ready(s)' <=> Ready(s)
        /\ \A m : Due(s, m)' <=> Due(s, m)
        /\ \A m : Partial(s, m)' <=> Partial(s, m)
    BY <1>6, <1>8 DEF Ready, Due, Partial
  <2>3. ASSUME RunningOK(s) PROVE RunningOK(s)'
    <3>1. CASE Ready(s) /\ ~InItems(rest, s)
      <4>1. Ready(s)' /\ ~InItems(Uncounted', s) /\ ~InItems(Unapplied', s)
        BY <1>5, <2>1, <2>2, <3>1, NoItems
      <4> QED BY <4>1 DEF RunningOK, InItems
    <3>2. ASSUME NEW k \in DOMAIN rest, rest[k].seq = s, Due(s, rest[k].n)
          PROVE  RunningOK(s)'
      <4>1. k # 1
        BY <1>4, <1>8, <3>2 DEF h
      <4>2. k - 1 \in DOMAIN q /\ q[k - 1] = rest[k]
        BY <1>4, <4>1
      <4>3. ASSUME NEW m, m = rest[k].n PROVE Due(s, Uncounted[k - 1].n)'
        <5>1. Due(s, m)' /\ Uncounted'[k - 1].n = m
          BY <1>5, <2>2, <3>2, <4>2, <4>3
        <5> QED BY <5>1 DEF Due
      <4>4. Uncounted'[k - 1].seq = s /\ k - 1 \in DOMAIN Uncounted'
        BY <1>5, <3>2, <4>2
      <4> QED BY <4>3, <4>4 DEF RunningOK
    <3>3. CASE InItems(scheduled, s) /\ ~InItems(rest, s) /\ Due(s, 0)
      <4>1. Due(s, 0)' /\ ~InItems(q, s)
        BY <2>1, <2>2, <3>3
      <4> QED BY <1>1, <3>3, <4>1 DEF RunningOK, InItems
    <3> QED BY <1>5, <2>3, <3>1, <3>2, <3>3, NoItems DEF RunningOK
  <2>4. ASSUME PrefillingOK(s) PROVE PrefillingOK(s)'
    <3>1. Partial(s, 0)'
      <4>1. call.op = "none"
        BY <1>1, IdleFields DEF EngineInv, EngineStepOK
      <4> QED BY <2>2, <2>4, <4>1 DEF PrefillingOK, Admitting
    <3>2. ASSUME NEW k \in DOMAIN Uncounted', Uncounted'[k].seq = s
          PROVE  Partial(s, Uncounted[k].n)'
      <4>1. k + 1 \in DOMAIN rest /\ Uncounted'[k] = rest[k + 1]
        BY <1>4, <1>5, <3>2
      <4>2. Partial(s, rest[k + 1].n)
        BY <1>1, <1>5, <2>4, <3>2, <4>1 DEF PrefillingOK
      <4>3. numComputed[s] + Uncounted'[k].n < PromptLen(s)
        BY <4>1, <4>2 DEF Partial
      <4> QED BY <1>6, <1>8, <4>3 DEF Partial
    <3> QED BY <3>1, <3>2 DEF PrefillingOK
  <2> QED BY <1>1, <2>3, <2>4 DEF SequenceOK
<1> QED BY <1>7, <1>8

\* Every sequence whose item ran to the end of its prompt gets a token.
LEMMA SampleProgress ==
    ASSUME EngineInv, ItemsOK, SampleAll, NEW s \in Seqs, SequenceOK(s)
    PROVE  SequenceOK(s)'
<1>1. /\ pc = "count" /\ pc' = "apply" /\ rest = <<>> /\ rest' = scheduled
      /\ DOMAIN newTokens' = Sampled
      /\ UNCHANGED <<prompt, output, blockTable, numComputed, call, status, scheduled>>
  BY DEF SampleAll, poolVars, seqVars, queueVars
<1>2. PoolTypeOK
  BY DEF EngineInv, PoolInv
<1>3. /\ Uncounted = <<>> /\ Uncounted' = <<>>
      /\ Unapplied = <<>> /\ Unapplied' = scheduled
  BY <1>1 DEF Uncounted, Unapplied, SchedulePcs
<1>4. /\ PromptLen(s)' = PromptLen(s) /\ TotalLen(s)' = TotalLen(s) /\ Room(s)' = Room(s)
      /\ numComputed'[s] = numComputed[s]
      /\ numComputed[s] \in Nat /\ PromptLen(s) \in Nat
  BY <1>1, <1>2, RoomFacts DEF PromptLen, TotalLen, Room
<1>5. /\ Ready(s)' <=> Ready(s)
      /\ Due(s, 0)' <=> Due(s, 0)
      /\ Partial(s, 0)' <=> Partial(s, 0)
  BY <1>4 DEF Ready, Due, Partial
<1>6. ASSUME InItems(scheduled, s), Due(s, 0)
      PROVE  RunningOK(s)'
  <2>1. numComputed[s] >= PromptLen(s)
    BY <1>4, <1>6 DEF Due
  <2>2. s \in Sampled
    BY <1>6, <2>1 DEF Sampled, Samples, InItems
  <2>3. InItems(Unapplied', s)
    BY <1>3, <1>6
  <2> QED BY <1>1, <1>5, <1>6, <2>2, <2>3 DEF RunningOK, InItems
<1>7. ASSUME RunningOK(s) PROVE RunningOK(s)'
  <2>1. \/ Ready(s)
        \/ InItems(scheduled, s) /\ Due(s, 0)
    BY <1>1, <1>3, <1>7, NoItems, EmptySeq DEF RunningOK
  <2>2. CASE Ready(s) /\ InItems(scheduled, s)
    <3>1. Due(s, 0)
      <4>1. TotalLen(s) \in Nat /\ Room(s) \in Nat
        BY <1>2, RoomFacts
      <4> QED BY <1>4, <2>2, <4>1 DEF Ready, Due
    <3> QED BY <1>6, <2>2, <3>1
  <2>3. CASE Ready(s) /\ ~InItems(scheduled, s)
    <3>1. Ready(s)' /\ ~InItems(Uncounted', s) /\ ~InItems(Unapplied', s)
      BY <1>3, <1>5, <2>3, NoItems
    <3> QED BY <3>1 DEF RunningOK, InItems
  <2> QED BY <1>6, <2>1, <2>2, <2>3
<1>8. ASSUME PrefillingOK(s) PROVE PrefillingOK(s)'
  BY <1>1, <1>5, <1>8 DEF PrefillingOK, Admitting
<1> QED BY <1>1, <1>7, <1>8 DEF SequenceOK

\* The token is appended: there is one more to run.
LEMMA ApplyProgress ==
    ASSUME EngineInv, ItemsOK, ApplyToken, NEW s \in Seqs, SequenceOK(s)
    PROVE  SequenceOK(s)'
<1> DEFINE q == Tail(rest)
           h == Current
<1>1. /\ pc = "apply" /\ pc' = "register" /\ rest # <<>> /\ rest' = rest
      /\ UNCHANGED <<prompt, blockTable, numComputed, call, status, newTokens>>
      /\ IF h \in DOMAIN newTokens
         THEN output' = [output EXCEPT ![h] = Append(@, newTokens[h])]
         ELSE output' = output
  BY DEF ApplyToken, queueVars, stepVars, stepResults, AppendOutputToken
<1>2. PoolTypeOK /\ QueueData /\ Distinct(rest) /\ rest \in Seq(Items) /\ call.op = "none"
  BY <1>1, IdleFields DEF EngineInv, PoolInv, QueueData, ItemsOK, EngineStepOK
<1>3. /\ ~InItems(q, h)
      /\ \A r : InItems(rest, r) <=> r = h \/ InItems(q, r)
  BY <1>1, <1>2, RestTail DEF Current
<1>4. /\ Uncounted = <<>> /\ Uncounted' = <<>>
      /\ Unapplied = rest /\ Unapplied' = q
  BY <1>1 DEF Uncounted, Unapplied, SchedulePcs
<1>5. h \in Seqs /\ output \in [Seqs -> Seq(Tokens)] /\ output[s] \in Seq(Tokens)
  BY <1>1, <1>2, DataHeads DEF Current, PoolTypeOK
<1> HIDE DEF q, h
<1>6. /\ PromptLen(s)' = PromptLen(s) /\ Room(s)' = Room(s)
      /\ numComputed'[s] = numComputed[s]
      /\ s # h => TotalLen(s)' = TotalLen(s)
      /\ (s = h /\ h \in DOMAIN newTokens) => TotalLen(s)' = TotalLen(s) + 1
  <2>1. s # h => output'[s] = output[s]
    BY <1>1, <1>5
  <2>2. (s = h /\ h \in DOMAIN newTokens) => Len(output'[s]) = Len(output[s]) + 1
    <3>1. (s = h /\ h \in DOMAIN newTokens) => output'[s] = Append(output[s], newTokens[h])
      BY <1>1, <1>5
    <3> QED BY <1>5, <3>1
  <2>3. Len(output[s]) \in Nat /\ Len(prompt[s]) \in Nat
    BY <1>2, <1>5, SequenceSizes DEF PromptLen
  <2>4. /\ PromptLen(s)' = PromptLen(s) /\ Room(s)' = Room(s)
        /\ numComputed'[s] = numComputed[s]
    BY <1>1 DEF PromptLen, Room
  <2>5. /\ TotalLen(s) = Len(prompt[s]) + Len(output[s])
        /\ TotalLen(s)' = Len(prompt[s]) + Len(output'[s])
    BY <1>1 DEF TotalLen
  <2>6. s # h => TotalLen(s)' = TotalLen(s)
    BY <2>1, <2>5
  <2>7. ASSUME s = h, h \in DOMAIN newTokens PROVE TotalLen(s)' = TotalLen(s) + 1
    <3>1. Len(output'[s]) = Len(output[s]) + 1
      BY <2>2, <2>7
    <3>2. ASSUME NEW a \in Nat, NEW b \in Nat PROVE a + (b + 1) = (a + b) + 1
      OBVIOUS
    <3>3. Len(prompt[s]) + (Len(output[s]) + 1) = (Len(prompt[s]) + Len(output[s])) + 1
      BY <2>3, <3>2
    <3>4. TotalLen(s)' = Len(prompt[s]) + (Len(output[s]) + 1)
      BY <2>5, <3>1
    <3> QED BY <2>5, <3>3, <3>4
  <2> QED BY <2>4, <2>6, <2>7
<1>7. /\ numComputed[s] \in Nat /\ PromptLen(s) \in Nat
      /\ TotalLen(s) \in Nat /\ Room(s) \in Nat
  BY <1>2, RoomFacts
<1>8. ASSUME RunningOK(s) PROVE RunningOK(s)'
  <2>1. CASE Ready(s) /\ ~InItems(rest, s)
    <3>1. s # h /\ ~InItems(q, s)
      BY <1>3, <2>1
    <3>2. Ready(s)' /\ ~InItems(Uncounted', s) /\ ~InItems(Unapplied', s)
      BY <1>4, <1>6, <2>1, <3>1, NoItems DEF Ready
    <3> QED BY <3>2 DEF RunningOK, InItems
  <2>2. CASE InItems(rest, s) /\ s \in DOMAIN newTokens /\ Due(s, 0) /\ s = h
    <3>1. Ready(s)'
      BY <1>6, <1>7, <2>2 DEF Ready, Due
    <3>2. ~InItems(Uncounted', s) /\ ~InItems(Unapplied', s)
      BY <1>3, <1>4, <2>2, NoItems
    <3> QED BY <3>1, <3>2 DEF RunningOK, InItems
  <2>3. CASE InItems(rest, s) /\ s \in DOMAIN newTokens /\ Due(s, 0) /\ s # h
    <3>1. Due(s, 0)'
      BY <1>6, <2>3 DEF Due
    <3>2. InItems(Unapplied', s) /\ s \in DOMAIN newTokens'
      BY <1>1, <1>3, <1>4, <2>3
    <3> QED BY <3>1, <3>2 DEF RunningOK, InItems
  <2> QED BY <1>1, <1>4, <1>8, <2>1, <2>2, <2>3, NoItems, EmptySeq DEF RunningOK
<1>9. ASSUME PrefillingOK(s) PROVE PrefillingOK(s)'
  BY <1>1, <1>2, <1>6, <1>9 DEF PrefillingOK, Admitting, Partial
<1> QED BY <1>1, <1>8, <1>9 DEF SequenceOK

LEMMA OutsideProgress ==
    ASSUME OnceInv, OutsideStep, PoolTypeOK'
    PROVE  ProgressOK'
<1>0. EngineInv /\ ItemsOK /\ ProgressOK
  BY DEF OnceInv
<1> SUFFICES ASSUME pc' \notin EndPcs, NEW s \in Seqs
             PROVE  SequenceOK(s)'
  BY DEF ProgressOK
<1>1. CASE status'[s] \notin {"RUNNING", "PREFILLING"}
  BY <1>1 DEF SequenceOK
<1>2. CASE status'[s] \in {"RUNNING", "PREFILLING"}
  <2>1. status'[s] = status[s]
    BY <1>0, <1>2, OutsideStatus
  <2>2. CASE Count \/ SampleAll \/ ApplyToken
    <3>1. pc \notin EndPcs
      BY <2>2 DEF Count, CountItem, SampleAll, ApplyToken, EndPcs
    <3>2. SequenceOK(s)
      BY <1>0, <3>1 DEF ProgressOK
    <3> QED BY <1>0, <2>2, <3>2, CountProgress, SampleProgress, ApplyProgress
  <2>3. CASE ~Count /\ ~SampleAll /\ ~ApplyToken
    <3>1. Grows(s) /\ ~Admitting(s)
      BY <1>0, <1>2, <2>1, <2>3, OutsideGrows
    <3>2. /\ Uncounted' = Uncounted /\ Unapplied' = Unapplied
          /\ pc \notin EndPcs
          /\ newTokens' = newTokens \/ Unapplied = <<>>
          /\ pc = "count" => pc' = "count" /\ scheduled' = scheduled /\ rest' = rest
          /\ pc' \in {"scheduled", "forward", "count"}
                => pc \in {"scheduled", "forward", "count"}
      BY <1>0, <2>3, OutsideLists
    <3>3. SequenceOK(s)
      BY <1>0, <3>2 DEF ProgressOK
    <3> QED BY <1>0, <2>1, <3>1, <3>2, <3>3, ProgressStays
  <2> QED BY <2>2, <2>3
<1> QED BY <1>1, <1>2

LEMMA OutsidePlan ==
    ASSUME EngineInv, OutsideStep
    PROVE  PlanOK'
<1>1. pc' \notin {"decode", "retry", "prefill", "ensure"}
  BY OutsidePc
<1>2. pc' # "scheduled"
  BY DEF OutsideStep, PoolCall, RequestStep, AddRequest, Add, Abort, AbortWaiting,
     AbortRunning, Shutdown, RequestsRun, AtAwait, schedulerVars, MoveStep, LoopExit,
     WaitForWork, Woken, WaitTimeout, ShutdownTimeout, Starved, Resume, Goto, ForwardStep,
     SubmitForward, ForwardDone, Count, CountItem, SampleAll, ApplyStep, ApplyToken,
     ApplyRegister, ApplyStop, ApplyKeep, ApplyEnd, SendStep, FreeFinished, FreeEnd,
     EmitItem, EmitEnd, LoopDies, SchedulePcs
<1> QED BY <1>1, <1>2 DEF PlanOK, TodoOK, PlanPcs

LEMMA OutsideItems ==
    ASSUME EngineInv, ItemsOK, OutsideStep
    PROVE  ItemsOK'
<1>0. scheduled \in Seq(Items) /\ rest \in Seq(Items)
  BY DEF EngineInv, QueueData
<1>1. CASE UNCHANGED <<pc, scheduled, rest>>
  BY <1>1 DEF ItemsOK, Distinct, FromStep
<1>2. (PoolCall \/ RequestStep) => UNCHANGED <<pc, scheduled, rest>>
  BY DEF PoolCall, RequestStep, AddRequest, Add, Abort, AbortWaiting, AbortRunning,
     Shutdown, schedulerVars, stepVars
<1>3. CASE MoveStep
  <2>1. scheduled = <<>> \/ pc' \in EndPcs
    BY <1>3 DEF MoveStep, LoopExit, WaitForWork, Woken, WaitTimeout, ShutdownTimeout,
       Starved, Resume, Goto, ItemsOK, LoopPcs, EndPcs
  <2>2. scheduled' = scheduled /\ pc' \in LoopPcs \cup EndPcs
    BY <1>3 DEF MoveStep, LoopExit, WaitForWork, Woken, WaitTimeout, ShutdownTimeout,
       Starved, Resume, Goto, stepVars, LoopPcs, EndPcs
  <2>3. scheduled = <<>> => Distinct(scheduled)
    BY EmptySeq DEF Distinct
  <2> QED BY <2>1, <2>2, <2>3 DEF ItemsOK, LoopPcs, EndPcs, Distinct
<1>4. CASE SubmitForward
  BY <1>4 DEF SubmitForward, stepVars, ItemsOK, LoopPcs, EndPcs, Distinct
<1>5. CASE ForwardDone \/ SampleAll \/ FreeEnd
  <2>1. /\ pc \in {"forward", "count", "free"} /\ pc' \in {"count", "apply", "emit"}
        /\ rest' = scheduled /\ scheduled' = scheduled
    BY <1>5 DEF ForwardDone, SampleAll, FreeEnd
  <2>2. Distinct(scheduled)
    BY <2>1 DEF ItemsOK, EndPcs
  <2>3. Distinct(scheduled)' /\ Distinct(rest)' /\ FromStep'
    BY <2>1, <2>2 DEF Distinct, FromStep
  <2> QED BY <2>1, <2>3 DEF ItemsOK, LoopPcs, EndPcs
<1>6. CASE Count \/ ApplyStop \/ ApplyKeep \/ EmitItem
  <2>1. /\ pc \in {"count", "check", "emit"} /\ pc' \in {"count", "apply", "emit"}
        /\ rest # <<>> /\ rest' = Tail(rest) /\ scheduled' = scheduled
    BY <1>6 DEF Count, CountItem, ApplyStop, ApplyKeep, EmitItem, EngineInv, EngineStepOK
  <2>2. Distinct(scheduled) /\ Distinct(rest) /\ FromStep
    BY <2>1 DEF ItemsOK, EndPcs
  <2>3. /\ Distinct(Tail(rest))
        /\ \A k \in DOMAIN Tail(rest) : k + 1 \in DOMAIN rest /\ Tail(rest)[k] = rest[k + 1]
    BY <1>0, <2>1, <2>2, RestTail
  <2>4. Distinct(scheduled)' /\ Distinct(rest)' /\ FromStep'
    BY <2>1, <2>2, <2>3 DEF Distinct, FromStep
  <2> QED BY <2>1, <2>4 DEF ItemsOK, LoopPcs, EndPcs
<1>7. CASE ApplyToken \/ ApplyRegister \/ ApplyEnd \/ FreeFinished
  <2>1. /\ pc \in {"apply", "register", "free"} /\ pc' \in {"register", "check", "free"}
        /\ UNCHANGED <<scheduled, rest>> /\ (pc' # "free" => pc # "free")
    BY <1>7 DEF ApplyToken, ApplyRegister, ApplyEnd, FreeFinished, stepVars
  <2> QED BY <2>1 DEF ItemsOK, LoopPcs, EndPcs, Distinct, FromStep
<1>8. CASE EmitEnd
  <2>1. scheduled' = <<>> /\ pc' = "yield"
    BY <1>8 DEF EmitEnd
  <2> QED BY <2>1, EmptySeq DEF ItemsOK, LoopPcs, EndPcs, Distinct
<1>9. CASE LoopDies
  BY <1>9 DEF LoopDies, ItemsOK, LoopPcs, EndPcs
<1> QED BY <1>1, <1>2, <1>3, <1>4, <1>5, <1>6, <1>7, <1>8, <1>9
        DEF OutsideStep, ForwardStep, ApplyStep, SendStep

\* A plan that is complete has its items fit but for those of sequences that
\* wait.
LEMMA PlanIsComplete ==
    ASSUME PlanOK, pc = "scheduled", Distinct(scheduled), NEW k \in DOMAIN scheduled
    PROVE  \/ status[scheduled[k].seq] = "RUNNING" /\ Due(scheduled[k].seq, scheduled[k].n)
           \/ /\ status[scheduled[k].seq] = "PREFILLING"
              /\ Partial(scheduled[k].seq, scheduled[k].n)
           \/ status[scheduled[k].seq] = "PREEMPTED"
<1>1. Fitting(k) \/ Touched(k)
  BY DEF PlanOK, PlanPcs
<1>2. Touched(k) => status[scheduled[k].seq] = "PREEMPTED"
  BY DEF Touched, Distinct
<1> QED BY <1>1, <1>2 DEF Fitting

LEMMA OutsideBatch ==
    ASSUME OnceInv, OutsideStep
    PROVE  BatchOK'
<1>0. /\ EngineInv /\ ItemsOK /\ PlanOK /\ BatchOK /\ ProgressOK
      /\ QueueData /\ EngineData /\ PoolTypeOK
  BY DEF OnceInv, EngineInv, PoolInv
<1>1. \A s \in Seqs :
         status[s] \in {"RUNNING", "PREFILLING", "FINISHED"} =>
            status'[s] = status[s] \/ status'[s] = "FINISHED"
  BY <1>0, OutsideStatus
<1>2. \A k \in DOMAIN scheduled : scheduled[k].seq \in Seqs /\ scheduled[k].n \in Nat \ {0}
  <2>1. \A k \in DOMAIN scheduled : scheduled[k] \in Items
    BY <1>0 DEF QueueData
  <2> QED BY <2>1 DEF Items
<1>3. ASSUME pc' \in {"forward", "count"}, NEW k \in DOMAIN scheduled'
      PROVE  status'[scheduled'[k].seq] \in {"RUNNING", "PREFILLING", "FINISHED"}
  <2>1. scheduled' = scheduled /\ (SubmitForward \/ pc \in {"forward", "count"})
    BY <1>3 DEF OutsideStep, PoolCall, RequestStep, AddRequest, Add, Abort, AbortWaiting,
       AbortRunning, Shutdown, RequestsRun, AtAwait, schedulerVars, stepVars, MoveStep,
       LoopExit, WaitForWork, Woken, WaitTimeout, ShutdownTimeout, Starved, Resume, Goto,
       ForwardStep, SubmitForward, ForwardDone, Count, CountItem, SampleAll, ApplyStep,
       ApplyToken, ApplyRegister, ApplyStop, ApplyKeep, ApplyEnd, SendStep, FreeFinished,
       FreeEnd, EmitItem, EmitEnd, LoopDies
  <2>2. CASE pc \in {"forward", "count"}
    BY <1>0, <1>1, <1>2, <1>3, <2>1, <2>2 DEF BatchOK
  <2>3. CASE SubmitForward
    <3>1. pc = "scheduled" /\ InputFits(scheduled[k]) /\ status' = status
      BY <1>3, <2>1, <2>3 DEF SubmitForward, queueVars
    <3>2. Distinct(scheduled) /\ call.op = "none"
      BY <1>0, <3>1, IdleFields DEF ItemsOK, EndPcs, EngineInv, EngineStepOK
    <3>3. PICK s \in Seqs : s = scheduled[k].seq
      BY <1>2, <1>3, <2>1
    <3>4. status[s] # "PREEMPTED"
      <4>1. SUFFICES ASSUME status[s] = "PREEMPTED" PROVE FALSE
        OBVIOUS
      <4>2. blockTable[s] = <<>>
        BY <1>0, <3>2, <4>1 DEF EngineInv, EngineTablesOK, EngineTableOK, Freeing
      <4>3. Room(s) = 0 /\ numComputed[s] \in Nat
        BY <1>0, <4>2, RoomFacts
      <4>4. numComputed[s] + scheduled[k].n <= Room(s)
        BY <3>1, <3>3 DEF InputFits, Room
      <4> QED BY <1>2, <1>3, <2>1, <4>3, <4>4
    <3> QED BY <1>0, <1>3, <2>1, <3>1, <3>2, <3>3, <3>4, PlanIsComplete
  <2> QED BY <2>1, <2>2, <2>3
<1>4. ASSUME pc' \in ApplyPcs, NEW s \in DOMAIN newTokens'
      PROVE  status'[s] \in {"RUNNING", "FINISHED"}
  <2>1. \/ SampleAll
        \/ pc \in ApplyPcs /\ newTokens' = newTokens
    <3>1. pc' \in ApplyPcs \cup {"free"} /\ pc' # "free"
      BY <1>4 DEF ApplyPcs
    <3>2. CASE ApplyStop \/ ApplyKeep
      BY <3>2 DEF ApplyStop, ApplyKeep, stepResults, ApplyPcs
    <3> QED BY <1>0, <3>1, <3>2, ListSteps DEF ApplyEnd, FreeFinished, ApplyPcs
  <2>2. CASE pc \in ApplyPcs /\ newTokens' = newTokens
    <3>1. s \in Seqs /\ status[s] \in {"RUNNING", "FINISHED"}
      BY <1>0, <1>4, <2>2 DEF EngineData, BatchOK
    <3> QED BY <1>1, <3>1
  <2>3. CASE SampleAll
    <3>1. /\ pc = "count" /\ s \in Seqs /\ Samples(s) /\ status' = status
          /\ \E k \in DOMAIN scheduled : scheduled[k].seq = s
      BY <1>4, <2>3 DEF SampleAll, Sampled, queueVars
    <3>2. status[s] \in {"RUNNING", "PREFILLING", "FINISHED"}
      BY <1>0, <3>1 DEF BatchOK
    <3>3. status[s] # "PREFILLING"
      <4>1. SUFFICES ASSUME status[s] = "PREFILLING" PROVE FALSE
        OBVIOUS
      <4>2. PrefillingOK(s) /\ call.op = "none"
        BY <1>0, <3>1, <4>1, IdleFields
           DEF ProgressOK, SequenceOK, EndPcs, EngineInv, EngineStepOK
      <4>3. Partial(s, 0)
        BY <4>2 DEF PrefillingOK, Admitting
      <4>4. numComputed[s] \in Nat /\ PromptLen(s) \in Nat
        BY <1>0, <3>1, RoomFacts
      <4> QED BY <3>1, <4>3, <4>4 DEF Partial, Samples
    <3> QED BY <3>1, <3>2, <3>3
  <2> QED BY <2>1, <2>2, <2>3
<1> QED BY <1>3, <1>4 DEF BatchOK

LEMMA OutsideLive ==
    ASSUME OnceInv, OutsideStep
    PROVE  WaitingLive' /\ LiveKnown'
<1>0. /\ EngineInv /\ WaitingLive /\ LiveKnown /\ BatchOK
      /\ QueueData /\ EngineData /\ QueuesOK
  BY DEF OnceInv, EngineInv
<1>1. WaitingLive'
  <2> SUFFICES ASSUME NEW s \in Seqs, Contains(waiting', s), status'[s] = "FINISHED"
               PROVE  FALSE
    BY DEF WaitingLive
  <2>1. CASE status[s] = "FINISHED"
    <3>1. ~Contains(waiting, s)
      BY <1>0, <2>1 DEF WaitingLive
    <3>2. ASSUME NEW r \in Seqs, AddRequest(r) PROVE FALSE
      <4>1. waiting' = Append(waiting, r) /\ status' = [status EXCEPT ![r] = "WAITING"]
        BY <3>2 DEF AddRequest, Add, SetStatus
      <4>2. ~Contains(waiting, r) /\ waiting \in Seq(Seqs) /\ NoDuplicates(waiting)
        BY <1>0, <3>2 DEF QueuesOK, QueueData, AddRequest, Add
      <4>3. s = r
        BY <3>1, <4>1, <4>2, ContainsAppend
      <4> QED BY <1>0, <4>1, <4>3 DEF QueueData
    <3>3. ASSUME NEW r \in Seqs, Abort(r) PROVE FALSE
      <4>1. waiting' = waiting \/ waiting' = Without(waiting, r)
        BY <3>3 DEF Abort, AbortWaiting, AbortRunning
      <4>2. \A x : Contains(Without(waiting, r), x) => Contains(waiting, x)
        BY <1>0, WithoutAny DEF QueueData, QueuesOK
      <4> QED BY <3>1, <4>1, <4>2
    <3>4. ApplyStop \/ FreeFinished => waiting' = waiting
      BY DEF ApplyStop, FreeFinished
    <3> QED BY <1>0, <3>1, <3>2, <3>3, <3>4, OutsideMoves
  <2>2. CASE status[s] # "FINISHED"
    <3>1. Abort(s) \/ (ApplyStop /\ s = Current)
      BY <1>0, <2>2, OutsideFinishes
    <3>2. ASSUME Abort(s) PROVE FALSE
      <4>1. \/ waiting' = Without(waiting, s)
            \/ waiting' = waiting /\ ~Contains(waiting, s)
        BY <3>2 DEF Abort, AbortWaiting, AbortRunning
      <4>2. ~Contains(Without(waiting, s), s)
        BY <1>0, WithoutAny DEF QueueData, QueuesOK
      <4> QED BY <4>1, <4>2
    <3>3. ASSUME ApplyStop, s = Current PROVE FALSE
      <4>1. pc = "check" /\ s \in DOMAIN newTokens /\ waiting' = waiting
        BY <3>3 DEF ApplyStop
      <4>2. status[s] = "RUNNING"
        BY <1>0, <2>2, <4>1 DEF BatchOK, ApplyPcs
      <4> QED BY <1>0, <4>1, <4>2 DEF QueuesOK
    <3> QED BY <3>1, <3>2, <3>3
  <2> QED BY <2>1, <2>2
<1>2. LiveKnown'
  <2> SUFFICES ASSUME NEW s \in Seqs, status'[s] \notin {"NONE", "FINISHED"}
               PROVE  s \in known'
    BY DEF LiveKnown
  <2>1. status'[s] = status[s] \/ AddRequest(s)
    BY <1>0, OutsideStatus
  <2>2. CASE AddRequest(s)
    BY <2>2 DEF AddRequest
  <2>3. CASE status'[s] = status[s]
    <3>1. s \in known
      BY <1>0, <2>3 DEF LiveKnown
    <3>2. CASE EmitItem
      <4>1. status' = status
        BY <3>2 DEF EmitItem, queueVars
      <4>2. known' = known \/ (known' = known \ {Current} /\ status[Current] = "FINISHED")
        BY <3>2 DEF EmitItem, ForgetIfDone, IsDone
      <4> QED BY <2>3, <3>1, <4>2
    <3>3. ASSUME NEW r \in Seqs, Abort(r) PROVE s \in known'
      <4>1. known' = known \ {r} /\ Finish(r, "abort")
        BY <3>3 DEF Abort, AbortWaiting, AbortRunning
      <4>2. status'[r] = "FINISHED"
        BY <1>0, <4>1 DEF Finish, SetStatus, QueueData
      <4> QED BY <3>1, <4>1, <4>2
    <3>4. CASE ~EmitItem /\ ~(\E r \in Seqs : Abort(r))
      <4>1. known \subseteq known'
        BY <3>4 DEF OutsideStep, PoolCall, RequestStep, AddRequest, Shutdown, MoveStep,
           LoopExit, WaitForWork, Woken, WaitTimeout, ShutdownTimeout, Starved, Resume,
           Goto, ForwardStep, SubmitForward, ForwardDone, Count, SampleAll, ApplyStep,
           ApplyToken, ApplyRegister, ApplyStop, ApplyKeep, ApplyEnd, SendStep,
           FreeFinished, FreeEnd, EmitEnd, LoopDies, requestVars
      <4> QED BY <3>1, <4>1
    <3> QED BY <3>2, <3>3, <3>4
  <2> QED BY <2>1, <2>2, <2>3
<1> QED BY <1>1, <1>2

-----------------------------------------------------------------------------
(* Inside schedule(): what a step leaves alone. *)

InsideStep == Schedule \/ (PoolCall /\ pc \in SchedulePcs)

LEMMA InsidePc ==
    ASSUME EngineInv, InsideStep
    PROVE  /\ SchedulerInv
           /\ pc \in SchedulePcs \ {"scheduled"}
           /\ pc' \in SchedulePcs \ {"idle"}
           /\ pc = "idle" => StartSchedule
           /\ StartSchedule \/ ScheduleStep \/ (PoolCall /\ call # Idle)
           /\ UNCHANGED <<kvVars, stepResults, requestVars>>
<1>1. PoolCall => call # Idle /\ pc' = pc
  BY CallInProgress DEF PoolCall
<1>2. ~(pc \in {"idle", "scheduled"} /\ PoolCall)
  BY <1>1 DEF EngineInv, EngineStepOK
<1>3. ASSUME StartSchedule \/ ScheduleStep
      PROVE  /\ pc \in SchedulePcs \ {"scheduled"} /\ pc' \in SchedulePcs \ {"idle"}
             /\ pc = "idle" => StartSchedule
  BY <1>3 DEF StartSchedule, ScheduleStep, DecodeSkip, DecodeSchedule, DecodeTurn,
     DecodePreempt, DecodeGiveUp, EndDecode, AdmitHead, PreemptForAdmission,
     AdmissionGiveUp, PlanChunk, NothingToPrefill, ScheduleChunk, EndPrefill,
     NeedsAdmission, PrefillTurn, SchedulePcs, stepVars
<1>4. /\ StartSchedule \/ ScheduleStep \/ (PoolCall /\ call # Idle /\ pc \in SchedulePcs)
      /\ UNCHANGED <<kvVars, stepResults, requestVars>>
  BY <1>1 DEF InsideStep, Schedule, PoolCall
<1>5. /\ pc \in SchedulePcs \ {"scheduled"} /\ pc' \in SchedulePcs \ {"idle"}
      /\ pc = "idle" => StartSchedule
  BY <1>1, <1>2, <1>3, <1>4
<1> QED BY <1>4, <1>5, ScheduleInv

\* A sequence that goes on running or being prefilled keeps what it has; only
\* the end of its admission sets its count.
LEMMA InsideGrows ==
    ASSUME EngineInv, InsideStep, NEW s \in Seqs,
           status[s] \in {"RUNNING", "PREFILLING"},
           status'[s] \in {"RUNNING", "PREFILLING"},
           ~(AdmitFinish /\ call.seq = s)
    PROVE  Grows(s) /\ (Admitting(s) => Admitting(s)')
<1>0. /\ PoolTypeOK /\ QueueTypes /\ StepOK /\ TablesOK
      /\ Len(blockTable[s]) \in Nat
      /\ blockTable \in [Seqs -> Seq(Blocks)] /\ numComputed \in [Seqs -> Nat]
      /\ blockTable[s] \in Seq(Blocks)
      /\ Idle.op = "none"
  BY InsidePc, SequenceSizes, IdleFields DEF EngineInv, PoolInv, PoolTypeOK, SchedulerInv
<1>1. ASSUME NEW r \in Seqs, NEW b, blockTable' = [blockTable EXCEPT ![r] = Append(@, b)]
      PROVE  Len(blockTable'[s]) >= Len(blockTable[s])
  <2>1. CASE r = s
    <3>1. blockTable'[s] = Append(blockTable[s], b)
      BY <1>0, <1>1, <2>1
    <3>2. Len(Append(blockTable[s], b)) = Len(blockTable[s]) + 1
      BY <1>0
    <3> QED BY <1>0, <3>1, <3>2
  <2>2. CASE r # s
    BY <1>0, <1>1, <2>2
  <2> QED BY <2>1, <2>2
<1>2. CASE PoolCall
  <2>1. CallStep /\ status' = status /\ (call.op # "none" => call.seq \in Seqs)
    BY <1>0, <1>2 DEF PoolCall, queueVars, PoolTypeOK
  <2>2. CASE AdmitHit \/ AdmitMiss \/ EnsureTake
    <3>1. /\ UNCHANGED <<prompt, output, numComputed>>
          /\ \E b : blockTable' = [blockTable EXCEPT ![call.seq] = Append(@, b)]
          /\ call'.seq = call.seq /\ call'.op = call.op
      <4>0. ASSUME NEW prev, NEW cached, Advance(prev, cached)
            PROVE  call'.seq = call.seq /\ call'.op = call.op
        BY <4>0, CallFields DEF Advance
      <4>1. CASE AdmitHit
        <5>1. /\ blockTable' = [blockTable EXCEPT ![call.seq] = Append(@, pool.cache[AdmitHash])]
              /\ UNCHANGED <<prompt, output, numComputed>>
          BY <4>1 DEF AdmitHit
        <5>2. Advance(AdmitHash, call.cached + BlockSize)
          BY <4>1 DEF AdmitHit
        <5> QED BY <4>0, <5>1, <5>2
      <4>2. CASE AdmitMiss
        <5>1. /\ blockTable' = [blockTable EXCEPT ![call.seq] = Append(@, NextFree(pool))]
              /\ UNCHANGED <<prompt, output, numComputed>>
          BY <4>2 DEF AdmitMiss
        <5>2. Advance(AdmitHash, call.cached)
          BY <4>2 DEF AdmitMiss
        <5> QED BY <4>0, <5>1, <5>2
      <4>3. CASE EnsureTake
        <5>1. /\ blockTable' = [blockTable EXCEPT ![call.seq] = Append(@, NextFree(pool))]
              /\ UNCHANGED <<prompt, output, numComputed, call>>
          BY <4>3 DEF EnsureTake, GrowTable
        <5> QED BY <5>1
      <4> QED BY <2>2, <4>1, <4>2, <4>3
    <3>2. call.seq \in Seqs
      BY <2>1, <2>2 DEF AdmitHit, AdmitMiss, EnsureTake
    <3> QED BY <1>1, <3>1, <3>2 DEF Grows, Admitting
  <2>3. CASE AdmitFinish
    <3>1. /\ UNCHANGED <<prompt, output>> /\ call.seq \in Seqs /\ call.seq # s
          /\ numComputed' = [numComputed EXCEPT ![call.seq] = call.cached]
          /\ \/ \E b : blockTable' = [blockTable EXCEPT ![call.seq] = Append(@, b)]
             \/ blockTable' = blockTable
      BY <2>1, <2>3 DEF AdmitFinish, GrowTable
    <3>2. numComputed'[s] = numComputed[s] /\ ~Admitting(s)
      BY <1>0, <3>1 DEF Admitting
    <3> QED BY <1>0, <1>1, <3>1, <3>2 DEF Grows
  <2>4. CASE FreeClear
    <3>1. /\ call.op = "free" /\ status[call.seq] \in {"PREEMPTED", "FINISHED"}
          /\ blockTable' = [blockTable EXCEPT ![call.seq] = <<>>]
          /\ UNCHANGED <<prompt, output, numComputed>>
      BY <1>0, <2>4 DEF FreeClear, TablesOK
    <3>2. blockTable'[s] = blockTable[s] /\ ~Admitting(s)
      BY <1>0, <3>1 DEF Admitting
    <3> QED BY <1>0, <3>1, <3>2 DEF Grows
  <2>5. CASE EnsureExit \/ FreeRelease \/ RegisterSkip \/ RegisterBlock \/ RegisterReturn
    <3>1. UNCHANGED <<prompt, output, blockTable, numComputed>> /\ call.op # "admit"
      BY <2>5 DEF EnsureExit, FreeRelease, RegisterSkip, RegisterBlock, RegisterReturn,
                  seqVars
    <3> QED BY <1>0, <3>1 DEF Grows, Admitting
  <2> QED BY <2>1, <2>2, <2>3, <2>4, <2>5 DEF CallStep
<1>3. CASE running # <<>> /\ PreemptOne
  <2>1. /\ status'[Last(running)] = "PREEMPTED" /\ Last(running) \in Seqs
        /\ call = Idle /\ UNCHANGED <<prompt, blockTable>>
    BY <1>0, <1>3, PreemptStatus, Heads
  <2>2. /\ numComputed' = [numComputed EXCEPT ![Last(running)] = 0]
        /\ output' = output
    BY <1>3 DEF PreemptOne, ForgetComputed, Free
  <2>3. numComputed'[s] = numComputed[s]
    BY <1>0, <2>1, <2>2
  <2> QED BY <1>0, <2>1, <2>2, <2>3 DEF Grows, Admitting
<1>4. CASE DecodeSchedule
  <2>1. /\ call = Idle /\ UNCHANGED <<prompt, output, numComputed>>
        /\ \/ blockTable' = blockTable
           \/ \E b : blockTable' = [blockTable EXCEPT ![Head(todo)] = Append(@, b)]
    BY <1>4 DEF DecodeSchedule, AppendSlot, GrowTable
  <2>2. Head(todo) \in Seqs
    BY <1>0, <1>4, Heads DEF DecodeSchedule, DecodeTurn, StepOK
  <2>3. Len(blockTable'[s]) >= Len(blockTable[s])
    <3>1. CASE blockTable' = blockTable
      BY <1>0, <3>1
    <3>2. ASSUME NEW b, blockTable' = [blockTable EXCEPT ![Head(todo)] = Append(@, b)]
          PROVE  Len(blockTable'[s]) >= Len(blockTable[s])
      BY <1>1, <2>2, <3>2
    <3> QED BY <2>1, <3>1, <3>2
  <2> QED BY <1>0, <2>1, <2>3 DEF Grows, Admitting
<1>5. CASE UNCHANGED seqVars /\ call = Idle
  BY <1>0, <1>5 DEF seqVars, Grows, Admitting
<1>6. ASSUME StartSchedule \/ ScheduleStep, ~DecodeSchedule, ~(running # <<>> /\ PreemptOne)
      PROVE  UNCHANGED seqVars /\ call = Idle
  BY <1>6 DEF StartSchedule, ScheduleStep, DecodeSkip, DecodePreempt, DecodeGiveUp,
     EndDecode, AdmitHead, Admit, PreemptForAdmission, AdmissionGiveUp, PlanChunk,
     EnsureBlocksForChunk, NothingToPrefill, ScheduleChunk, EndPrefill, NeedsAdmission,
     PrefillTurn, poolVars
<1>7. StartSchedule \/ ScheduleStep \/ PoolCall
  BY InsidePc
<1>8. CASE PoolCall
  BY <1>2, <1>8
<1>9. CASE StartSchedule \/ ScheduleStep
  <2>1. CASE DecodeSchedule
    BY <1>4, <2>1
  <2>2. CASE running # <<>> /\ PreemptOne
    BY <1>3, <2>2
  <2>3. CASE ~DecodeSchedule /\ ~(running # <<>> /\ PreemptOne)
    <3>1. UNCHANGED seqVars /\ call = Idle
      BY <1>6, <1>9, <2>3
    <3> QED BY <1>5, <3>1
  <2> QED BY <2>1, <2>2, <2>3
<1> QED BY <1>7, <1>8, <1>9

\* An item that was not preempted again goes on fitting; one whose sequence
\* waits goes on waiting.
LEMMA ItemStays ==
    ASSUME OnceInv, InsideStep, PoolTypeOK', pc \in PlanPcs,
           NEW k \in DOMAIN scheduled, NEW s \in Seqs, s = scheduled[k].seq,
           status'[s] = status[s], preempted \subseteq preempted',
           \A j \in DOMAIN scheduled :
              j \in DOMAIN scheduled' /\ scheduled'[j] = scheduled[j],
           (pc \in {"prefill", "ensure"} /\ status[s] = "PREFILLING" /\ waiting # <<>>
             /\ s = Head(waiting) /\ budget > 0 /\ active < MaxNumSeqs)
              => \/ pc' \in {"prefill", "ensure"} /\ UNCHANGED <<waiting, budget, active>>
                 \/ \E j \in DOMAIN scheduled' : j # k /\ scheduled'[j].seq = s
    PROVE  (Fitting(k)' \/ Touched(k)') /\ (Touched(k) => Touched(k)')
<1>0. EngineInv /\ PlanOK /\ pc # "scheduled" /\ EngineTablesOK
      /\ PoolTypeOK /\ scheduled[k].n \in Nat
  <2>1. EngineInv /\ PlanOK
    BY DEF OnceInv
  <2>2. scheduled[k] \in Items
    BY <2>1 DEF EngineInv, QueueData
  <2> QED BY <2>1, <2>2, InsidePc DEF EngineInv, PoolInv, Items
<1>1. k \in DOMAIN scheduled' /\ scheduled'[k] = scheduled[k]
  OBVIOUS
<1>2. ASSUME Fitting(k) PROVE Fitting(k)'
  <2>1. status[s] = "RUNNING" /\ Due(s, scheduled[k].n)
    BY <1>0, <1>2 DEF Fitting
  <2>2. ~(AdmitFinish /\ call.seq = s)
    BY <1>0, <2>1 DEF EngineTablesOK, AdmitFinish
  <2>3. Grows(s)
    BY <1>0, <2>1, <2>2, InsideGrows
  <2>4. \A n \in Nat : Due(s, n) => Due(s, n)'
    BY <1>0, <2>3, GrowsKeeps
  <2>5. ASSUME NEW n \in Nat, n = scheduled[k].n PROVE Fitting(k)'
    <3>1. Due(s, n)'
      BY <2>1, <2>4, <2>5
    <3>2. scheduled'[k].seq = s /\ scheduled'[k].n = n /\ status'[s] = "RUNNING"
      BY <1>1, <2>1, <2>5
    <3>3. Due(scheduled[k].seq, scheduled[k].n)'
      BY <3>1, <3>2 DEF Due, PromptLen, TotalLen, Room
    <3> QED BY <3>2, <3>3 DEF Fitting
  <2> QED BY <1>0, <2>5
<1>3. ASSUME Touched(k) PROVE Touched(k)'
  <2>1. s \in preempted' /\ scheduled'[k].seq = s
    BY <1>1, <1>3 DEF Touched
  <2>2. CASE status[s] = "PREEMPTED"
    BY <2>1, <2>2 DEF Touched
  <2>3. CASE \E j \in DOMAIN scheduled : j # k /\ scheduled[j].seq = s
    <3>1. PICK j \in DOMAIN scheduled : j # k /\ scheduled[j].seq = s
      BY <2>3
    <3>2. j \in DOMAIN scheduled' /\ scheduled'[j].seq = s
      BY <3>1
    <3> QED BY <2>1, <3>1, <3>2 DEF Touched
  <2>4. CASE /\ pc \in {"prefill", "ensure"} /\ status[s] = "PREFILLING"
             /\ waiting # <<>> /\ s = Head(waiting) /\ budget > 0 /\ active < MaxNumSeqs
    <3>1. CASE pc' \in {"prefill", "ensure"} /\ UNCHANGED <<waiting, budget, active>>
      BY <2>1, <2>4, <3>1 DEF Touched
    <3>2. CASE \E j \in DOMAIN scheduled' : j # k /\ scheduled'[j].seq = s
      BY <2>1, <3>2 DEF Touched
    <3> QED BY <2>4, <3>1, <3>2
  <2> QED BY <1>3, <2>2, <2>3, <2>4 DEF Touched
<1> QED BY <1>0, <1>2, <1>3 DEF PlanOK

\* The head of waiting holds blocks only in the middle of its prefill.
LEMMA HeadIsPrefilled ==
    ASSUME OnceInv, call = Idle, waiting # <<>>, pc \in SchedulePcs
    PROVE  /\ Head(waiting) \in Seqs /\ Contains(waiting, Head(waiting))
           /\ status[Head(waiting)] # "FINISHED"
           /\ status[Head(waiting)] = "PREFILLING" <=> blockTable[Head(waiting)] # <<>>
<1> DEFINE h == Head(waiting)
<1>1. /\ EngineInv /\ SchedulerInv /\ WaitingLive /\ call.op = "none"
      /\ QueueTypes /\ QueuesOK /\ TablesOK
  BY ScheduleInv, IdleFields DEF OnceInv, SchedulerInv
<1>2. h \in Seqs /\ Contains(waiting, h)
  <2>1. h \in Seqs /\ h = waiting[1] /\ 1 \in DOMAIN waiting
    BY <1>1, HeadTail DEF QueueTypes
  <2> QED BY <2>1 DEF Contains
<1>3. status[h] # "FINISHED" /\ status[h] # "RUNNING" /\ status[h] \in Statuses
  BY <1>1, <1>2 DEF WaitingLive, QueuesOK, QueueTypes
<1>4. TableOK(h) /\ ~Admitting(h) /\ ~Freeing(h)
  BY <1>1, <1>2 DEF TablesOK, Admitting, Freeing
<1>5. status[h] = "PREFILLING" <=> blockTable[h] # <<>>
  BY <1>3, <1>4 DEF TableOK, Statuses
<1> QED BY <1>2, <1>3, <1>5

\* A sequence that is admitted and waits has some of its prompt left.
LEMMA HeadHasPrompt ==
    ASSUME OnceInv, call = Idle, waiting # <<>>, pc \in {"prefill", "ensure"},
           blockTable[Head(waiting)] # <<>>, NEW s \in Seqs, s = Head(waiting)
    PROVE  /\ status[s] = "PREFILLING"
           /\ numComputed[s] \in Nat /\ PromptLen(s) \in Nat
           /\ NumUncomputedPromptTokens(s) = PromptLen(s) - numComputed[s]
           /\ NumUncomputedPromptTokens(s) > 0
           /\ PromptLen(s) <= Room(s)
           /\ PromptLen(s) <= TotalLen(s)
<1>1. /\ EngineInv /\ PoolTypeOK /\ EngineTablesOK /\ call.op = "none" /\ ProgressOK
      /\ status[s] = "PREFILLING"
  BY HeadIsPrefilled, IdleFields DEF OnceInv, EngineInv, PoolInv, SchedulePcs
<1>2. Partial(s, 0) /\ ~Admitting(s)
  BY <1>1 DEF ProgressOK, SequenceOK, PrefillingOK, Admitting, EndPcs
<1>3. /\ numComputed[s] \in Nat /\ PromptLen(s) \in Nat
      /\ PromptLen(s) <= TotalLen(s)
  BY <1>1, RoomFacts
<1>4. Len(blockTable[s]) >= NumBlocksNeededFor(PromptLen(s))
  BY <1>1, <1>2 DEF EngineTablesOK, EngineTableOK
<1>5. NumBlocksNeededFor(PromptLen(s)) \in Nat /\ Len(blockTable[s]) \in Nat
  BY <1>1, PromptNeedsBlock
<1>6. PromptLen(s) <= Room(s)
  BY <1>1, <1>3, <1>4, <1>5, BlocksGiveRoom
<1>7. numComputed[s] + 0 < PromptLen(s)
  BY <1>2 DEF Partial
<1>8. /\ NumUncomputedPromptTokens(s) = PromptLen(s) - numComputed[s]
      /\ NumUncomputedPromptTokens(s) > 0
  BY <1>3, <1>7 DEF NumUncomputedPromptTokens
<1> QED BY <1>1, <1>3, <1>6, <1>8

\* A sequence whose turn comes in phase 1 has a token to run, and gets a slot
\* for it.
LEMMA TurnIsDue ==
    ASSUME OnceInv, DecodeSchedule, PoolTypeOK', NEW s \in Seqs, s = Head(todo)
    PROVE  /\ status[s] = "RUNNING" /\ todo # <<>> /\ ~InItems(scheduled, s)
           /\ Contains(todo, s)
           /\ Due(s, 1)'
<1>1. /\ pc \in {"decode", "retry"} /\ AppendSlot(s) /\ status' = status
  BY DEF DecodeSchedule, DecodeTurn, queueVars
<1>2. /\ EngineInv /\ PoolTypeOK /\ EngineStepOK /\ EngineTablesOK /\ QueueData
      /\ TodoOK /\ ProgressOK /\ Len(blockTable[s]) \in Nat
      /\ blockTable[s] \in Seq(Blocks) /\ blockTable \in [Seqs -> Seq(Blocks)]
  BY SequenceSizes DEF OnceInv, EngineInv, PoolInv, PlanOK, PoolTypeOK
<1>3. status[s] = "RUNNING" /\ todo # <<>>
  BY <1>2 DEF DecodeSchedule, DecodeTurn, EngineStepOK, EngineTablesOK
<1>4. Contains(todo, s) /\ ~InItems(scheduled, s)
  <2>1. s = todo[1] /\ 1 \in DOMAIN todo
    BY <1>2, <1>3, HeadTail DEF QueueData
  <2>2. Contains(todo, s)
    BY <2>1 DEF Contains
  <2> QED BY <1>1, <1>2, <2>2 DEF TodoOK
<1>5. Ready(s)
  <2>1. RunningOK(s)
    BY <1>1, <1>2, <1>3 DEF ProgressOK, SequenceOK, EndPcs
  <2>2. Uncounted = scheduled /\ Unapplied = <<>> /\ pc # "count"
    BY <1>1 DEF Uncounted, Unapplied, SchedulePcs
  <2> QED BY <1>4, <2>1, <2>2, NoItems DEF RunningOK, InItems
<1>6. /\ numComputed[s] \in Nat /\ PromptLen(s) \in Nat /\ TotalLen(s) \in Nat
      /\ Room(s) \in Nat /\ Room(s)' \in Nat
      /\ BlockSize \in Nat \ {0}
  <2>1. Room(s)' \in Nat
    <3>1. blockTable'[s] \in Seq(Blocks)
      BY DEF PoolTypeOK
    <3>2. Len(blockTable'[s]) \in Nat
      BY <3>1
    <3> QED BY <3>2, Multiples, BlockConstants DEF Room
  <2> QED BY <1>2, <2>1, RoomFacts, BlockConstants
<1>7. /\ numComputed'[s] = numComputed[s]
      /\ PromptLen(s)' = PromptLen(s) /\ TotalLen(s)' = TotalLen(s)
  BY <1>1 DEF AppendSlot, PromptLen, TotalLen
<1>8. numComputed[s] + 1 <= Room(s)'
  <2>1. CASE SlotCovered(s)
    <3>1. TotalLen(s) + 1 <= Room(s)
      <4>1. TotalLen(s) + 1 \in Nat
        BY <1>6
      <4> QED BY <1>2, <2>1, <4>1, BlocksGiveRoom DEF SlotCovered
    <3>2. Room(s)' = Room(s)
      BY <1>1, <2>1 DEF AppendSlot, Room
    <3> QED BY <1>5, <1>6, <3>1, <3>2 DEF Ready
  <2>2. CASE ~SlotCovered(s)
    <3>1. blockTable'[s] = Append(blockTable[s], NextFree(pool))
      BY <1>1, <1>2, <2>2 DEF AppendSlot, GrowTable
    <3>2. Len(blockTable'[s]) = Len(blockTable[s]) + 1
      BY <1>2, <3>1
    <3>3. Room(s)' = Room(s) + BlockSize
      BY <1>2, <1>6, <3>2, Multiples DEF Room
    <3> QED BY <1>5, <1>6, <3>3 DEF Ready
  <2> QED BY <2>1, <2>2
<1>9. Due(s, 1)'
  BY <1>5, <1>6, <1>7, <1>8 DEF Due, Ready
<1> QED BY <1>3, <1>4, <1>9

\* What becomes of the sequence s whose chunk is scheduled: all of its prompt
\* is under way, and it runs, or the plan ends.
ChunkIsDue(s) ==
    /\ status[s] = "PREFILLING"
    /\ \A r \in Seqs \ {s} : status'[r] = status[r]
    /\ UNCHANGED poolVars
    /\ \/ /\ status'[s] = "RUNNING"
          /\ PromptLen(s) <= numComputed'[s] + ChunkOf(s)
          /\ numComputed'[s] + ChunkOf(s) <= TotalLen(s)
          /\ numComputed'[s] + ChunkOf(s) <= Room(s)
       \/ /\ pc' = "scheduled"
          /\ status' = status
          /\ numComputed'[s] + ChunkOf(s) < PromptLen(s)

LEMMA ChunkDue ==
    ASSUME OnceInv, ScheduleChunk, NEW s \in Seqs, s = Head(waiting)
    PROVE  ChunkIsDue(s)
<1>0. /\ pc = "ensure" /\ call = Idle /\ UNCHANGED poolVars
      /\ IF ChunkOf(s) = NumUncomputedPromptTokens(s)
         THEN StartRunning ELSE pc' = "scheduled" /\ UNCHANGED queueVars
  BY DEF ScheduleChunk
<1>1. /\ SchedulerInv /\ QueueTypes /\ StepOK /\ PoolTypeOK
  BY <1>0, ScheduleInv DEF OnceInv, SchedulePcs, SchedulerInv, PoolInv
<1>2. waiting # <<>> /\ blockTable[s] # <<>>
  BY <1>0, <1>1 DEF StepOK
<1>3. /\ status[s] = "PREFILLING"
      /\ numComputed[s] \in Nat /\ PromptLen(s) \in Nat
      /\ NumUncomputedPromptTokens(s) = PromptLen(s) - numComputed[s]
      /\ PromptLen(s) <= Room(s)
      /\ PromptLen(s) <= TotalLen(s)
  BY <1>0, <1>2, HeadHasPrompt
<1>4. /\ ChunkOf(s) \in Nat /\ NumUncomputedPromptTokens(s) \in Nat
      /\ ChunkOf(s) <= NumUncomputedPromptTokens(s)
      /\ TotalLen(s) \in Nat /\ Room(s) \in Nat
      /\ numComputed'[s] = numComputed[s]
  <2>1. /\ ChunkOf(s) \in Nat /\ NumUncomputedPromptTokens(s) \in Nat /\ budget \in Nat
        /\ TotalLen(s) \in Nat /\ Room(s) \in Nat
    BY <1>1, ChunkBounds, RoomFacts DEF QueueTypes
  <2>2. ChunkOf(s) <= NumUncomputedPromptTokens(s)
    BY <2>1 DEF ChunkOf
  <2> QED BY <1>0, <2>1, <2>2 DEF poolVars, seqVars
<1>5. CASE ChunkOf(s) = NumUncomputedPromptTokens(s)
  <2>1. status' = [status EXCEPT ![s] = "RUNNING"]
    BY <1>0, <1>5 DEF StartRunning, SetStatus
  <2>2. status'[s] = "RUNNING" /\ \A r \in Seqs \ {s} : status'[r] = status[r]
    BY <1>1, <2>1 DEF QueueTypes
  <2>3. numComputed[s] + ChunkOf(s) = PromptLen(s)
    BY <1>3, <1>4, <1>5
  <2> QED BY <1>0, <1>3, <1>4, <2>2, <2>3 DEF ChunkIsDue
<1>6. CASE ChunkOf(s) # NumUncomputedPromptTokens(s)
  <2>1. numComputed[s] + ChunkOf(s) < PromptLen(s)
    BY <1>3, <1>4, <1>6
  <2> QED BY <1>0, <1>3, <1>4, <1>6, <2>1 DEF ChunkIsDue, queueVars
<1> QED BY <1>5, <1>6

\* The items of the victim of a preemption wait for it.
LEMMA PreemptPlan ==
    ASSUME OnceInv, InsideStep, PoolTypeOK', running # <<>>, PreemptOne, pc \in PlanPcs,
           scheduled' = scheduled, NEW k \in DOMAIN scheduled,
           ~(pc \in {"prefill", "ensure"} /\ waiting # <<>>
              /\ status[Head(waiting)] = "PREFILLING")
    PROVE  (Fitting(k)' \/ Touched(k)') /\ (Touched(k) => Touched(k)')
<1>1. /\ QueueTypes /\ scheduled \in Seq(Items)
  BY InsidePc DEF OnceInv, SchedulerInv, QueueTypes
<1>2. scheduled[k] \in Items
  BY <1>1
<1>3. PICK s \in Seqs : s = scheduled[k].seq
  BY <1>2 DEF Items
<1>4. preempted' = preempted \cup {Last(running)}
  BY DEF PreemptOne
<1>5. CASE s = Last(running)
  <2>1. status'[s] = "PREEMPTED" /\ s \in preempted' /\ scheduled'[k].seq = s
    BY <1>1, <1>3, <1>4, <1>5, PreemptStatus
  <2> QED BY <2>1 DEF Touched
<1>6. CASE s # Last(running)
  <2>1. status'[s] = status[s]
    BY <1>1, <1>6, PreemptStatus
  <2> QED BY <1>3, <1>4, <2>1, ItemStays
<1> QED BY <1>5, <1>6

\* What schedule() has put together so far stays what it was.
LEMMA InsidePlanItems ==
    ASSUME OnceInv, InsideStep, PoolTypeOK', pc' \in PlanPcs, NEW k \in DOMAIN scheduled'
    PROVE  /\ Fitting(k)' \/ Touched(k)'
           /\ (pc # "idle" /\ k \in DOMAIN scheduled /\ Touched(k)) => Touched(k)'
<1>0. /\ EngineInv /\ SchedulerInv /\ QueueTypes /\ StepOK /\ TablesOK
      /\ pc \in SchedulePcs \ {"scheduled"}
      /\ pc = "idle" => StartSchedule
      /\ StartSchedule \/ ScheduleStep \/ (PoolCall /\ call # Idle)
      /\ scheduled \in Seq(Items) /\ QueueData
  BY InsidePc DEF OnceInv, SchedulerInv, QueueTypes, EngineInv
<1>1. CASE StartSchedule
  <2>1. scheduled' = <<>>
    BY <1>1 DEF StartSchedule
  <2> QED BY <2>1, EmptySeq
<1>2. pc # "idle" => pc \in PlanPcs
  BY <1>0 DEF SchedulePcs, PlanPcs
<1>3. ASSUME UNCHANGED <<status, scheduled, preempted>>, pc # "idle",
             (pc \in {"prefill", "ensure"} /\ waiting # <<>> /\ budget > 0
               /\ active < MaxNumSeqs /\ status[Head(waiting)] = "PREFILLING")
                => pc' \in {"prefill", "ensure"} /\ UNCHANGED <<waiting, budget, active>>
      PROVE  /\ Fitting(k)' \/ Touched(k)'
             /\ Touched(k) => Touched(k)'
  <2>1. k \in DOMAIN scheduled /\ scheduled[k] \in Items
    BY <1>0, <1>3
  <2>2. PICK s \in Seqs : s = scheduled[k].seq
    BY <2>1 DEF Items
  <2> QED BY <1>2, <1>3, <2>1, <2>2, ItemStays
<1>4. CASE PoolCall
  <2>1. UNCHANGED <<queueVars, pc, stepVars>> /\ pc # "idle"
    BY <1>4, <1>0, CallInProgress DEF PoolCall, StartSchedule
  <2> QED BY <1>3, <2>1 DEF queueVars, stepVars
<1>5. CASE DecodeSkip \/ DecodeGiveUp \/ EndDecode
  BY <1>3, <1>5 DEF DecodeSkip, DecodeGiveUp, EndDecode, queueVars
<1>6. CASE EndPrefill
  <2>1. ~(waiting # <<>> /\ budget > 0 /\ active < MaxNumSeqs)
    BY <1>0, <1>6, SchedulerConstants DEF EndPrefill, QueueTypes
  <2>2. UNCHANGED <<status, scheduled, preempted>> /\ pc # "idle"
    BY <1>6 DEF EndPrefill, queueVars, stepVars
  <2> QED BY <1>3, <2>1, <2>2
<1>7. CASE PlanChunk
  BY <1>3, <1>7 DEF PlanChunk, PrefillTurn, queueVars, stepVars
<1>8. ASSUME NeedsAdmission PROVE status[Head(waiting)] # "PREFILLING"
  <2>1. /\ pc = "prefill" /\ call = Idle /\ waiting # <<>>
        /\ blockTable[Head(waiting)] = <<>>
    BY <1>8 DEF NeedsAdmission, PrefillTurn
  <2> QED BY <2>1, HeadIsPrefilled DEF SchedulePcs
<1>9. CASE AdmissionGiveUp
  BY <1>3, <1>8, <1>9 DEF AdmissionGiveUp, NeedsAdmission, PrefillTurn, queueVars, stepVars
<1>10. CASE DecodePreempt
  <2>1. running # <<>> /\ PreemptOne /\ scheduled' = scheduled /\ pc = "decode"
    BY <1>10 DEF DecodePreempt, DecodeTurn
  <2> QED BY <2>1, PreemptPlan DEF PlanPcs
<1>11. CASE PreemptForAdmission
  <2>1. /\ running # <<>> /\ PreemptOne /\ scheduled' = scheduled /\ pc = "prefill"
        /\ NeedsAdmission
    BY <1>11 DEF PreemptForAdmission, NeedsAdmission, PrefillTurn
  <2> QED BY <1>8, <2>1, PreemptPlan DEF PlanPcs
<1>12. CASE AdmitHead
  <2>1. /\ NeedsAdmission /\ waiting # <<>> /\ pc = "prefill" /\ budget > 0
        /\ active < MaxNumSeqs /\ call = Idle
        /\ status' = [status EXCEPT ![Head(waiting)] = "PREFILLING"]
        /\ UNCHANGED <<waiting, scheduled, preempted, pc, budget, active>>
    BY <1>12 DEF AdmitHead, NeedsAdmission, PrefillTurn, SetStatus, stepVars
  <2>2. k \in DOMAIN scheduled /\ scheduled[k] \in Items
    BY <1>0, <2>1
  <2>3. PICK s \in Seqs : s = scheduled[k].seq
    BY <2>2 DEF Items
  <2>4. /\ Head(waiting) \in Seqs /\ status[Head(waiting)] # "RUNNING"
        /\ status \in [Seqs -> Statuses]
    <3>1. QueuesOK /\ Contains(waiting, Head(waiting)) /\ Head(waiting) \in Seqs
      BY <1>0, <2>1, HeadIsPrefilled DEF SchedulerInv, SchedulePcs
    <3> QED BY <1>0, <3>1 DEF QueuesOK, QueueTypes
  <2>5. CASE s # Head(waiting)
    <3>1. status'[s] = status[s]
      BY <2>1, <2>3, <2>4, <2>5
    <3> QED BY <2>1, <2>2, <2>3, <3>1, ItemStays DEF PlanPcs
  <2>6. CASE s = Head(waiting)
    <3>1. Fitting(k) \/ Touched(k)
      BY <2>1, <2>2 DEF OnceInv, PlanOK, PlanPcs
    <3>2. s \in preempted
      BY <2>1, <2>3, <2>4, <2>6, <3>1 DEF Fitting, Touched
    <3>3. status'[s] = "PREFILLING"
      BY <2>1, <2>4, <2>6
    <3> QED BY <2>1, <2>3, <2>6, <3>2, <3>3 DEF Touched
  <2> QED BY <2>5, <2>6
<1>13. CASE DecodeSchedule
  <2>1. todo # <<>> /\ pc \in {"decode", "retry"}
    BY <1>0, <1>13 DEF DecodeSchedule, DecodeTurn, StepOK
  <2>2. PICK h \in Seqs : h = Head(todo)
    BY <1>0, <2>1, Heads
  <2>3. PICK item \in Items : /\ item.seq = h /\ item.n = 1
                              /\ scheduled' = Append(scheduled, item)
    <3>1. Item(h, 1, FALSE) \in Items /\ Item(h, 1, FALSE).seq = h
          /\ Item(h, 1, FALSE).n = 1
      BY DEF Item, Items
    <3> QED BY <1>13, <2>2, <3>1 DEF DecodeSchedule
  <2>4. status' = status /\ preempted' = preempted
    BY <1>13 DEF DecodeSchedule, queueVars
  <2>5. CASE k \in DOMAIN scheduled
    <3>1. scheduled[k] \in Items
      BY <1>0, <2>5
    <3>2. PICK s \in Seqs : s = scheduled[k].seq
      BY <3>1 DEF Items
    <3>3. \A j \in DOMAIN scheduled :
             j \in DOMAIN scheduled' /\ scheduled'[j] = scheduled[j]
      BY <1>0, <2>3, AppendEntries
    <3> QED BY <2>1, <2>4, <2>5, <3>2, <3>3, ItemStays DEF PlanPcs
  <2>6. CASE k \notin DOMAIN scheduled
    <3>1. scheduled'[k] = item
      BY <1>0, <2>3, <2>6, AppendEntries
    <3>2. status[h] = "RUNNING" /\ Due(h, 1)'
      BY <1>13, <2>2, TurnIsDue
    <3>3. Due(scheduled[k].seq, scheduled[k].n)'
      BY <2>3, <3>1, <3>2 DEF Due, PromptLen, TotalLen, Room
    <3> QED BY <2>3, <2>4, <2>6, <3>1, <3>2, <3>3 DEF Fitting
  <2> QED BY <2>5, <2>6
<1>14. CASE NothingToPrefill
  <2>1. /\ pc = "prefill" /\ call = Idle /\ waiting # <<>> /\ budget > 0
        /\ blockTable[Head(waiting)] # <<>> /\ ChunkOf(Head(waiting)) = 0
    BY <1>14 DEF NothingToPrefill, PrefillTurn
  <2>2. PICK s \in Seqs : s = Head(waiting)
    BY <1>0, <2>1, Heads
  <2>3. NumUncomputedPromptTokens(s) > 0
    BY <2>1, <2>2, HeadHasPrompt
  <2> QED BY <2>1, <2>2, <2>3 DEF ChunkOf
<1>15. CASE ScheduleChunk
  <2>1. /\ pc = "ensure" /\ call = Idle /\ waiting # <<>>
        /\ blockTable[Head(waiting)] # <<>> /\ ChunkOf(Head(waiting)) > 0
    BY <1>0, <1>15 DEF ScheduleChunk, StepOK
  <2>2. PICK h \in Seqs : h = Head(waiting)
    BY <1>0, <2>1, Heads
  <2>3. ChunkIsDue(h)
    BY <1>15, <2>2, ChunkDue
  <2>4. /\ scheduled' = Append(scheduled, Item(h, ChunkOf(h), TRUE))
        /\ preempted' = preempted
    BY <1>15, <2>2 DEF ScheduleChunk
  <2>5. PICK item \in Items : /\ item.seq = h /\ item.n = ChunkOf(h)
                              /\ scheduled' = Append(scheduled, item)
    <3>1. ChunkOf(h) \in Nat \ {0}
      BY <1>0, <2>1, <2>2, ChunkBounds DEF SchedulerInv, PoolInv
    <3>2. /\ Item(h, ChunkOf(h), TRUE) \in Items /\ Item(h, ChunkOf(h), TRUE).seq = h
          /\ Item(h, ChunkOf(h), TRUE).n = ChunkOf(h)
      BY <3>1 DEF Item, Items
    <3> QED BY <2>4, <3>2
  <2>6. /\ \A j \in DOMAIN scheduled :
              j \in DOMAIN scheduled' /\ scheduled'[j] = scheduled[j]
        /\ Len(scheduled) + 1 \in DOMAIN scheduled'
        /\ Len(scheduled) + 1 \notin DOMAIN scheduled
        /\ scheduled'[Len(scheduled) + 1] = item
    <3>1. Len(scheduled) \in Nat /\ DOMAIN scheduled = 1 .. Len(scheduled)
      BY <1>0
    <3>2. /\ Append(scheduled, item)[Len(scheduled) + 1] = item
          /\ DOMAIN Append(scheduled, item) = 1 .. Len(scheduled) + 1
      BY <1>0
    <3> QED BY <1>0, <2>5, <3>1, <3>2, AppendEntries
  <2>7. CASE k \in DOMAIN scheduled
    <3>1. scheduled[k] \in Items
      BY <1>0, <2>7
    <3>2. PICK s \in Seqs : s = scheduled[k].seq
      BY <3>1 DEF Items
    <3>3. CASE s # h
      <4>1. status'[s] = status[s]
        BY <2>3, <3>3 DEF ChunkIsDue
      <4> QED BY <2>1, <2>2, <2>4, <2>6, <2>7, <3>2, <3>3, <4>1, ItemStays DEF PlanPcs
    <3>4. CASE s = h
      <4>1. Fitting(k) \/ Touched(k)
        BY <2>1, <2>7 DEF OnceInv, PlanOK, PlanPcs
      <4>2. s \in preempted'
        BY <2>1, <2>3, <2>4, <3>2, <3>4, <4>1 DEF Fitting, Touched, ChunkIsDue
      <4>3. scheduled'[k].seq = s /\ scheduled'[Len(scheduled) + 1].seq = s
        BY <2>5, <2>6, <2>7, <3>2, <3>4
      <4> QED BY <2>6, <2>7, <4>2, <4>3 DEF Touched
    <3> QED BY <3>3, <3>4
  <2>8. CASE k \notin DOMAIN scheduled
    <3>1. scheduled'[k] = item
      BY <1>0, <2>5, <2>8, AppendEntries
    <3>2. \/ status'[h] = "RUNNING" /\ Due(scheduled[k].seq, scheduled[k].n)'
          \/ pc' = "scheduled" /\ status'[h] = "PREFILLING"
             /\ Partial(scheduled[k].seq, scheduled[k].n)'
      <4>1. /\ PromptLen(h)' = PromptLen(h) /\ TotalLen(h)' = TotalLen(h)
            /\ Room(h)' = Room(h)
        BY <2>3 DEF ChunkIsDue, poolVars, seqVars, PromptLen, TotalLen, Room
      <4>2. scheduled'[k].seq = h /\ scheduled'[k].n = ChunkOf(h)
        BY <2>5, <3>1
      <4> QED BY <2>3, <4>1, <4>2 DEF ChunkIsDue, Due, Partial
    <3> QED BY <2>5, <2>8, <3>1, <3>2 DEF Fitting
  <2> QED BY <2>7, <2>8
<1> QED BY <1>0, <1>1, <1>4, <1>5, <1>6, <1>7, <1>9, <1>10, <1>11, <1>12, <1>13, <1>14,
           <1>15 DEF ScheduleStep

\* Phase 1 does not come back to what it has scheduled.
LEMMA InsideTodo ==
    ASSUME OnceInv, InsideStep, PoolTypeOK'
    PROVE  TodoOK'
<1>0. /\ EngineInv /\ QueueTypes /\ StepOK /\ QueuesOK /\ TodoOK
      /\ StartSchedule \/ ScheduleStep \/ (PoolCall /\ call # Idle)
      /\ scheduled \in Seq(Items) /\ todo \in Seq(Seqs)
  BY InsidePc DEF OnceInv, SchedulerInv, QueueTypes, EngineInv, PlanOK
<1>1. CASE StartSchedule
  <2>1. todo' = running /\ scheduled' = <<>> /\ NoDuplicates(running)
    BY <1>0, <1>1 DEF StartSchedule, QueuesOK
  <2>2. NoDuplicates(todo') /\ \A s : ~InItems(scheduled', s)
    BY <2>1, NoItems
  <2> QED BY <2>2 DEF TodoOK, InItems, NoDuplicates
<1>2. CASE UNCHANGED <<pc, todo, scheduled>>
  BY <1>0, <1>2 DEF TodoOK, InItems, NoDuplicates, Contains
<1>3. CASE pc' \notin {"decode", "retry"}
  BY <1>3 DEF TodoOK
<1>4. ASSUME pc \in {"decode", "retry"}, todo # <<>>, todo' = Tail(todo),
             scheduled' = scheduled
      PROVE  TodoOK'
  <2>1. NoDuplicates(todo) /\ \A s \in Seqs : Contains(todo, s) => ~InItems(scheduled, s)
    BY <1>0, <1>4 DEF TodoOK
  <2>2. NoDuplicates(todo') /\ \A x : Contains(todo', x) => Contains(todo, x)
    BY <1>0, <1>4, <2>1, ContainsTail
  <2> QED BY <1>4, <2>1, <2>2 DEF TodoOK, InItems, NoDuplicates
<1>5. CASE DecodeSkip \/ DecodeGiveUp
  BY <1>0, <1>4, <1>5 DEF DecodeSkip, DecodeGiveUp, StepOK
<1>6. CASE DecodePreempt
  <2>1. /\ pc = "decode" /\ todo # <<>> /\ scheduled' = scheduled
        /\ todo' = todo \/ todo' = Tail(todo)
    BY <1>6 DEF DecodePreempt, DecodeTurn
  <2>2. CASE todo' = todo
    BY <1>0, <2>1, <2>2 DEF TodoOK, InItems, NoDuplicates, Contains
  <2> QED BY <1>4, <2>1, <2>2
<1>7. CASE DecodeSchedule
  <2>1. todo # <<>> /\ pc \in {"decode", "retry"} /\ todo' = Tail(todo)
    BY <1>0, <1>7 DEF DecodeSchedule, DecodeTurn, StepOK
  <2>2. PICK h \in Seqs : h = Head(todo)
    BY <1>0, <2>1, Heads
  <2>3. PICK item \in Items : item.seq = h /\ scheduled' = Append(scheduled, item)
    <3>1. Item(h, 1, FALSE) \in Items /\ Item(h, 1, FALSE).seq = h
      BY DEF Item, Items
    <3> QED BY <1>7, <2>2, <3>1 DEF DecodeSchedule
  <2>4. NoDuplicates(todo) /\ \A s \in Seqs : Contains(todo, s) => ~InItems(scheduled, s)
    BY <1>0, <2>1 DEF TodoOK
  <2>5. NoDuplicates(todo') /\ \A x : Contains(todo', x) <=> Contains(todo, x) /\ x # h
    BY <1>0, <2>1, <2>2, <2>4, ContainsTail
  <2>6. ASSUME NEW s \in Seqs, Contains(todo', s), InItems(scheduled', s)
        PROVE  FALSE
    <3>1. PICK j \in DOMAIN scheduled' : scheduled'[j].seq = s
      BY <2>6 DEF InItems
    <3>2. CASE j \in DOMAIN scheduled
      <4>1. scheduled'[j] = scheduled[j]
        BY <1>0, <2>3, <3>2, AppendEntries
      <4>2. InItems(scheduled, s)
        BY <3>1, <3>2, <4>1 DEF InItems
      <4> QED BY <2>4, <2>5, <2>6, <4>2
    <3>3. CASE j \notin DOMAIN scheduled
      <4>1. scheduled'[j] = item
        BY <1>0, <2>3, <3>1, <3>3, AppendEntries
      <4> QED BY <2>3, <2>5, <2>6, <3>1, <4>1
    <3> QED BY <3>2, <3>3
  <2> QED BY <2>5, <2>6 DEF TodoOK, InItems, NoDuplicates
<1>8. PoolCall \/ AdmitHead \/ PreemptForAdmission \/ PlanChunk \/ NothingToPrefill
         => UNCHANGED <<pc, todo, scheduled>> \/ pc' \notin {"decode", "retry"}
  BY DEF PoolCall, AdmitHead, PreemptForAdmission, PlanChunk, NothingToPrefill, stepVars
<1>9. EndDecode \/ AdmissionGiveUp \/ ScheduleChunk \/ EndPrefill
         => pc' \notin {"decode", "retry"}
  BY DEF EndDecode, AdmissionGiveUp, ScheduleChunk, EndPrefill
<1> QED BY <1>0, <1>1, <1>2, <1>3, <1>5, <1>6, <1>7, <1>8, <1>9 DEF ScheduleStep

LEMMA InsidePlan ==
    ASSUME OnceInv, InsideStep, PoolTypeOK'
    PROVE  PlanOK'
<1>1. TodoOK'
  BY InsideTodo
<1>2. ASSUME pc' \in PlanPcs, NEW k \in DOMAIN scheduled' PROVE Fitting(k)' \/ Touched(k)'
  BY <1>2, InsidePlanItems
<1> QED BY <1>1, <1>2 DEF PlanOK

\* A plan is put together in steps that end with no sequence twice in it.
LEMMA InsideItems ==
    ASSUME OnceInv, InsideStep, OneItemEach'
    PROVE  ItemsOK'
<1>1. pc' \in SchedulePcs \ {"idle"}
  BY InsidePc DEF OnceInv
<1>2. pc' = "scheduled" => Distinct(scheduled)'
  BY DEF OneItemEach, Distinct
<1> QED BY <1>1, <1>2 DEF ItemsOK, SchedulePcs, LoopPcs, EndPcs

LEMMA InsideBatch ==
    ASSUME OnceInv, InsideStep
    PROVE  BatchOK'
<1>1. pc' \in SchedulePcs
  BY InsidePc DEF OnceInv
<1> QED BY <1>1 DEF BatchOK, SchedulePcs, ApplyPcs

\* schedule() changes the status of a queued sequence only.
LEMMA MovedIsQueued ==
    ASSUME QueueTypes, StepOK, StartSchedule \/ ScheduleStep \/ PoolCall,
           NEW s \in Seqs, status'[s] # status[s], QueuesOK
    PROVE  Contains(waiting, s) \/ Contains(running, s)
<1>1. /\ status \in [Seqs -> Statuses]
      /\ waiting # <<>> => Head(waiting) \in Seqs /\ Contains(waiting, Head(waiting))
      /\ running # <<>> => Last(running) \in Seqs /\ Contains(running, Last(running))
  <2>1. waiting # <<>> => Head(waiting) = waiting[1] /\ 1 \in DOMAIN waiting
    BY HeadTail DEF QueueTypes
  <2>2. waiting # <<>> => Contains(waiting, Head(waiting))
    BY <2>1 DEF Contains
  <2>3. running # <<>> => Contains(running, Last(running))
    BY ContainsFront DEF QueueTypes, QueuesOK
  <2> QED BY <2>2, <2>3, Heads DEF QueueTypes
<1>2. ASSUME running # <<>>, PreemptOne PROVE s = Last(running)
  BY <1>1, <1>2 DEF PreemptOne, SetStatus
<1>3. ASSUME waiting # <<>>, StartRunning PROVE s = Head(waiting)
  BY <1>1, <1>3 DEF StartRunning, SetStatus
<1>4. ASSUME AdmitHead PROVE waiting # <<>> /\ s = Head(waiting)
  BY <1>1, <1>4 DEF AdmitHead, SetStatus, NeedsAdmission, PrefillTurn
<1>5. \/ running # <<>> /\ PreemptOne
      \/ waiting # <<>> /\ StartRunning
      \/ AdmitHead
  BY DEF StartSchedule, PoolCall, ScheduleStep, DecodeSkip, DecodeSchedule,
     DecodePreempt, DecodeGiveUp, EndDecode, PreemptForAdmission,
     AdmissionGiveUp, PlanChunk, NothingToPrefill, ScheduleChunk, EndPrefill,
     PrefillTurn, StepOK, queueVars
<1> QED BY <1>1, <1>2, <1>3, <1>4, <1>5

LEMMA InsideLive ==
    ASSUME OnceInv, InsideStep
    PROVE  WaitingLive' /\ LiveKnown'
<1>0. /\ EngineInv /\ QueueTypes /\ StepOK /\ QueuesOK /\ FinishedNowOK /\ WaitingLive
      /\ LiveKnown /\ pc \in SchedulePcs /\ known' = known
      /\ StartSchedule \/ ScheduleStep \/ (PoolCall /\ call # Idle)
  BY InsidePc DEF OnceInv, SchedulerInv, EngineInv, requestVars
<1>1. \A s \in Seqs : \/ status'[s] = status[s]
                      \/ status'[s] \in {"PREFILLING", "RUNNING", "PREEMPTED"}
  BY <1>0, ScheduleStatus DEF StartSchedule, PoolCall, queueVars
<1>2. \/ UNCHANGED <<waiting, running>>
      \/ running # <<>> /\ PreemptOne
      \/ waiting # <<>> /\ StartRunning
  BY <1>0 DEF StartSchedule, PoolCall, ScheduleStep, DecodeSkip, DecodeSchedule,
     DecodePreempt, DecodeGiveUp, EndDecode, AdmitHead, PreemptForAdmission,
     AdmissionGiveUp, PlanChunk, NothingToPrefill, ScheduleChunk, EndPrefill,
     PrefillTurn, StepOK, queueVars
<1>3. ASSUME NEW s \in Seqs, Contains(waiting', s)
      PROVE  Contains(waiting, s) \/ (running # <<>> /\ PreemptOne /\ s = Last(running))
  <2>1. CASE UNCHANGED waiting
    BY <1>3, <2>1
  <2>2. CASE running # <<>> /\ PreemptOne
    <3>1. /\ waiting' = <<Last(running)>> \o waiting
          /\ Last(running) \in Seqs /\ Contains(running, Last(running))
      BY <1>0, <2>2, Heads, ContainsFront DEF PreemptOne, QueueTypes, QueuesOK
    <3>2. ~Contains(waiting, Last(running))
      BY <1>0, <3>1 DEF QueuesOK
    <3> QED BY <1>0, <1>3, <2>2, <3>1, <3>2, ContainsCons DEF QueueTypes, QueuesOK
  <2>3. CASE waiting # <<>> /\ StartRunning
    BY <1>0, <1>3, <2>3, ContainsTail DEF StartRunning, QueueTypes, QueuesOK
  <2> QED BY <1>2, <2>1, <2>2, <2>3
<1>4. WaitingLive'
  <2>1. ASSUME NEW s \in Seqs, Contains(waiting', s) PROVE status'[s] # "FINISHED"
    <3>1. CASE Contains(waiting, s)
      BY <1>0, <1>1, <3>1 DEF WaitingLive
    <3>2. CASE running # <<>> /\ PreemptOne /\ s = Last(running)
      BY <1>0, <3>2, PreemptStatus
    <3> QED BY <1>3, <2>1, <3>1, <3>2
  <2> QED BY <2>1 DEF WaitingLive
<1>5. LiveKnown'
  <2>1. ASSUME NEW s \in Seqs, status'[s] \notin {"NONE", "FINISHED"} PROVE s \in known
    <3>1. status[s] \notin {"NONE", "FINISHED"}
      <4>1. CASE status'[s] = status[s]
        BY <2>1, <4>1
      <4>2. CASE status'[s] # status[s]
        <5>1. Contains(waiting, s) \/ Contains(running, s)
          BY <1>0, <4>2, MovedIsQueued
        <5>2. status[s] # "NONE"
          BY <1>0, <5>1 DEF QueuesOK
        <5>3. ~EngineReleasing(s)
          BY <1>0 DEF EngineReleasing, SchedulePcs, ApplyPcs
        <5>4. status[s] # "FINISHED"
          BY <1>0, <5>1, <5>3 DEF WaitingLive, FinishedNowOK
        <5> QED BY <5>2, <5>4
      <4> QED BY <4>1, <4>2
    <3> QED BY <1>0, <3>1 DEF LiveKnown
  <2> QED BY <1>0, <2>1 DEF LiveKnown
<1> QED BY <1>4, <1>5

\* The items of a sequence whose prefill goes on in the next step.
LEMMA PlanIsPartial ==
    ASSUME PlanOK', ItemsOK', pc' = "scheduled", NEW s \in Seqs,
           status'[s] = "PREFILLING"
    PROVE  \A k \in DOMAIN scheduled' : scheduled'[k].seq = s => Partial(s, scheduled[k].n)'
<1> SUFFICES ASSUME NEW k \in DOMAIN scheduled', scheduled'[k].seq = s
             PROVE  Partial(s, scheduled[k].n)'
  OBVIOUS
<1>1. Fitting(k)' \/ Touched(k)'
  BY DEF PlanOK, PlanPcs
<1>2. Distinct(scheduled)'
  BY DEF ItemsOK, EndPcs
<1>3. ~Touched(k)'
  BY <1>2 DEF Touched, Distinct
<1>4. Partial(scheduled[k].seq, scheduled[k].n)'
  BY <1>1, <1>3 DEF Fitting
<1> QED BY <1>4 DEF Partial, PromptLen

\* A sequence that schedule() leaves alone, or whose table grows.
LEMMA InsideStays ==
    ASSUME OnceInv, PoolTypeOK', PlanOK', ItemsOK', pc \in SchedulePcs,
           pc' \in SchedulePcs, NEW s \in Seqs, Grows(s), status'[s] = status[s],
           Admitting(s) => Admitting(s)' \/ Partial(s, 0)',
           \A k \in DOMAIN scheduled :
              k \in DOMAIN scheduled' /\ scheduled'[k] = scheduled[k],
           \A k \in DOMAIN scheduled' : k \notin DOMAIN scheduled => scheduled'[k].seq # s
    PROVE  SequenceOK(s)'
<1>0. PoolTypeOK /\ EngineInv /\ SequenceOK(s)
  BY DEF OnceInv, EngineInv, PoolInv, ProgressOK, SchedulePcs, EndPcs
<1>1. /\ Ready(s) => Ready(s)'
      /\ \A n \in Nat : Due(s, n) => Due(s, n)'
      /\ \A n : Partial(s, n)' <=> Partial(s, n)
  BY <1>0, GrowsKeeps
<1>2. /\ Uncounted = scheduled /\ Uncounted' = scheduled'
      /\ Unapplied = <<>> /\ Unapplied' = <<>> /\ pc # "count"
  BY DEF Uncounted, Unapplied, SchedulePcs
<1>3. ASSUME RunningOK(s) PROVE RunningOK(s)'
  <2>1. CASE Ready(s) /\ ~InItems(scheduled, s)
    <3>1. ~InItems(scheduled', s)
      BY <2>1 DEF InItems
    <3>2. Ready(s)' /\ ~InItems(Uncounted', s) /\ ~InItems(Unapplied', s)
      BY <1>1, <1>2, <2>1, <3>1, NoItems
    <3> QED BY <3>2 DEF RunningOK, InItems
  <2>2. ASSUME NEW k \in DOMAIN scheduled, scheduled[k].seq = s, Due(s, scheduled[k].n)
        PROVE  RunningOK(s)'
    <3>1. k \in DOMAIN Uncounted' /\ Uncounted'[k] = scheduled[k]
      BY <1>2, <2>2
    <3>2. scheduled[k].n \in Nat
      BY <1>0, <1>2, ListsTyped
    <3>3. ASSUME NEW n \in Nat, n = scheduled[k].n PROVE Due(s, Uncounted[k].n)'
      <4>1. Due(s, n)' /\ Uncounted'[k].n = n
        BY <1>1, <2>2, <3>1, <3>3
      <4> QED BY <4>1 DEF Due
    <3>4. Due(s, Uncounted[k].n)'
      BY <3>2, <3>3
    <3> QED BY <2>2, <3>1, <3>4 DEF RunningOK
  <2> QED BY <1>2, <1>3, <2>1, <2>2, NoItems DEF RunningOK
<1>4. ASSUME PrefillingOK(s), status'[s] = "PREFILLING" PROVE PrefillingOK(s)'
  <2>1. Admitting(s)' \/ Partial(s, 0)'
    BY <1>1, <1>4 DEF PrefillingOK
  <2>2. pc' = "scheduled" => \A k \in DOMAIN scheduled' :
           scheduled'[k].seq = s => Partial(s, scheduled[k].n)'
    BY <1>4, PlanIsPartial
  <2>3. ASSUME pc' = "scheduled", NEW k \in DOMAIN Uncounted', Uncounted'[k].seq = s
        PROVE  Partial(s, Uncounted[k].n)'
    <3>1. Partial(s, scheduled[k].n)' /\ Uncounted'[k].n = scheduled'[k].n
      BY <1>2, <2>2, <2>3
    <3> QED BY <3>1 DEF Partial
  <2> QED BY <2>1, <2>3 DEF PrefillingOK, SchedulePcs
<1> QED BY <1>0, <1>3, <1>4 DEF SequenceOK

\* Within schedule(), one that is admitted or has its next chunk scheduled.
LEMMA InsidePrefills ==
    ASSUME PlanOK', ItemsOK', pc' \in SchedulePcs, NEW s \in Seqs,
           status'[s] = "PREFILLING", Admitting(s)' \/ Partial(s, 0)'
    PROVE  SequenceOK(s)'
<1>1. Uncounted' = scheduled'
  BY DEF Uncounted
<1>2. ASSUME pc' = "scheduled", NEW k \in DOMAIN Uncounted', Uncounted'[k].seq = s
      PROVE  Partial(s, Uncounted[k].n)'
  <2>1. Partial(s, scheduled[k].n)' /\ Uncounted'[k].n = scheduled'[k].n
    BY <1>1, <1>2, PlanIsPartial
  <2> QED BY <2>1 DEF Partial
<1>3. PrefillingOK(s)'
  BY <1>2 DEF PrefillingOK, SchedulePcs
<1> QED BY <1>3 DEF SequenceOK

LEMMA InsideProgress ==
    ASSUME OnceInv, InsideStep, PoolTypeOK', PlanOK', ItemsOK'
    PROVE  ProgressOK'
<1>0. /\ EngineInv /\ QueueTypes /\ StepOK /\ PoolTypeOK /\ TablesOK /\ PoolInv
      /\ pc \in SchedulePcs /\ pc' \in SchedulePcs /\ ItemsOK /\ Idle.op = "none"
      /\ StartSchedule \/ ScheduleStep \/ (PoolCall /\ call # Idle)
      /\ scheduled \in Seq(Items) /\ status \in [Seqs -> Statuses]
  BY InsidePc, IdleFields DEF OnceInv, SchedulerInv, EngineInv, PoolInv, QueueTypes
<1> SUFFICES ASSUME NEW s \in Seqs, status'[s] \in {"RUNNING", "PREFILLING"}
             PROVE  SequenceOK(s)'
  BY DEF ProgressOK, SequenceOK
<1>1. CASE AdmitFinish /\ call.seq = s
  <2>1. /\ call.op = "admit" /\ status[s] = "PREFILLING"
        /\ numComputed' = [numComputed EXCEPT ![s] = call.cached]
        /\ prompt' = prompt /\ call.i = call.n
    BY <1>0, <1>1 DEF AdmitFinish, TablesOK
  <2>2. status' = status
    BY <1>0, <2>1 DEF StartSchedule, PoolCall, queueVars, ScheduleStep, DecodeSkip,
       DecodeSchedule, AppendSlot, DecodePreempt, PreemptOne, Free, DecodeGiveUp, EndDecode,
       AdmitHead, NeedsAdmission, PrefillTurn, PreemptForAdmission, AdmissionGiveUp,
       PlanChunk, NothingToPrefill, ScheduleChunk, EndPrefill
  <2>3. /\ call.cached <= CapFull(s) * BlockSize /\ CapFull(s) * BlockSize < PromptLen(s)
        /\ CapFull(s) \in Nat /\ BlockSize \in Nat \ {0}
        /\ PromptLen(s) \in Nat /\ call.cached \in Nat
    BY <1>0, <1>1, <2>1, PromptBlocks, RoomFacts, BlockConstants
       DEF PoolInv, CallOK, AdmitOK, PoolTypeOK
  <2>4. Partial(s, 0)'
    <3>1. CapFull(s) * BlockSize \in Nat
      BY <2>3, Multiples
    <3>2. call.cached + 0 < PromptLen(s)
      BY <2>3, <3>1
    <3>3. numComputed'[s] = call.cached /\ PromptLen(s)' = PromptLen(s)
      BY <1>0, <2>1 DEF PoolTypeOK, PromptLen
    <3> QED BY <3>2, <3>3 DEF Partial
  <2> QED BY <1>0, <2>1, <2>2, <2>4, InsidePrefills
<1>2. CASE AdmitHead /\ s = Head(waiting)
  <2>1. status'[s] = "PREFILLING" /\ call'.op = "admit" /\ call'.seq = s
    BY <1>0, <1>2, CallFields DEF AdmitHead, Admit, Begin, SetStatus
  <2> QED BY <1>0, <2>1, InsidePrefills DEF Admitting
<1>3. CASE DecodeSchedule /\ s = Head(todo)
  <2>1. status'[s] = "RUNNING" /\ Due(s, 1)'
    BY <1>3, TurnIsDue DEF DecodeSchedule, queueVars
  <2>2. /\ Len(scheduled) + 1 \in DOMAIN scheduled'
        /\ scheduled'[Len(scheduled) + 1].seq = s
        /\ scheduled'[Len(scheduled) + 1].n = 1
    <3>1. PICK item \in Items : /\ item.seq = s /\ item.n = 1
                                /\ scheduled' = Append(scheduled, item)
      <4>1. /\ Item(s, 1, FALSE) \in Items /\ Item(s, 1, FALSE).seq = s
            /\ Item(s, 1, FALSE).n = 1
        BY DEF Item, Items
      <4> QED BY <1>3, <4>1 DEF DecodeSchedule
    <3>2. /\ Append(scheduled, item)[Len(scheduled) + 1] = item
          /\ Len(scheduled) + 1 \in DOMAIN Append(scheduled, item)
      BY <1>0
    <3> QED BY <3>1, <3>2
  <2>3. Uncounted' = scheduled'
    BY <1>0 DEF Uncounted
  <2>4. ASSUME NEW j, j = Len(scheduled) + 1 PROVE RunningOK(s)'
    <3>1. Due(s, Uncounted[j].n)'
      BY <2>1, <2>2, <2>3, <2>4 DEF Due
    <3> QED BY <2>2, <2>3, <2>4, <3>1 DEF RunningOK
  <2> QED BY <2>1, <2>4 DEF SequenceOK
<1>4. CASE ScheduleChunk /\ s = Head(waiting)
  <2>1. ChunkIsDue(s)
    BY <1>4, ChunkDue
  <2>2. /\ PromptLen(s)' = PromptLen(s) /\ TotalLen(s)' = TotalLen(s)
        /\ Room(s)' = Room(s) /\ numComputed'[s] = numComputed[s]
    BY <2>1 DEF ChunkIsDue, poolVars, seqVars, PromptLen, TotalLen, Room
  <2>3. ChunkOf(s) \in Nat \ {0} /\ numComputed[s] \in Nat /\ PromptLen(s) \in Nat
    <3>1. ChunkOf(s) > 0
      BY <1>0, <1>4 DEF ScheduleChunk, StepOK
    <3> QED BY <1>0, <3>1, ChunkBounds, RoomFacts
  <2>4. CASE status'[s] = "RUNNING"
    <3>1. /\ PromptLen(s) <= numComputed'[s] + ChunkOf(s)
          /\ numComputed'[s] + ChunkOf(s) <= TotalLen(s)
          /\ numComputed'[s] + ChunkOf(s) <= Room(s)
      BY <2>1, <2>4 DEF ChunkIsDue
    <3>2. /\ Len(scheduled) + 1 \in DOMAIN scheduled'
          /\ scheduled'[Len(scheduled) + 1].seq = s
          /\ scheduled'[Len(scheduled) + 1].n = ChunkOf(s)
      <4>1. PICK item \in Items : /\ item.seq = s /\ item.n = ChunkOf(s)
                                  /\ scheduled' = Append(scheduled, item)
        <5>1. /\ Item(s, ChunkOf(s), TRUE) \in Items /\ Item(s, ChunkOf(s), TRUE).seq = s
              /\ Item(s, ChunkOf(s), TRUE).n = ChunkOf(s)
          BY <2>3 DEF Item, Items
        <5> QED BY <1>4, <5>1 DEF ScheduleChunk
      <4>2. /\ Append(scheduled, item)[Len(scheduled) + 1] = item
            /\ Len(scheduled) + 1 \in DOMAIN Append(scheduled, item)
        BY <1>0
      <4> QED BY <4>1, <4>2
    <3>3. Uncounted' = scheduled'
      BY <1>0 DEF Uncounted
    <3>4. ASSUME NEW j, j = Len(scheduled) + 1, NEW n, n = ChunkOf(s) PROVE RunningOK(s)'
      <4>1. Due(s, n)'
        BY <2>2, <3>1, <3>4 DEF Due
      <4>2. Uncounted'[j].n = n /\ Uncounted'[j].seq = s /\ j \in DOMAIN Uncounted'
        BY <3>2, <3>3, <3>4
      <4>3. Due(s, Uncounted[j].n)'
        BY <4>1, <4>2 DEF Due
      <4> QED BY <4>2, <4>3 DEF RunningOK
    <3> QED BY <2>4, <3>4 DEF SequenceOK
  <2>5. CASE status'[s] # "RUNNING"
    <3>1. numComputed'[s] + ChunkOf(s) < PromptLen(s)
      BY <2>1, <2>5 DEF ChunkIsDue
    <3>2. numComputed[s] + 0 < PromptLen(s)
      BY <2>2, <2>3, <3>1
    <3>3. Partial(s, 0)'
      BY <2>2, <3>2 DEF Partial
    <3> QED BY <1>0, <2>5, <3>3, InsidePrefills
  <2> QED BY <2>4, <2>5
<1>5. CASE ~(AdmitFinish /\ call.seq = s) /\ ~(AdmitHead /\ s = Head(waiting))
             /\ ~(DecodeSchedule /\ s = Head(todo)) /\ ~(ScheduleChunk /\ s = Head(waiting))
  <2>1. status'[s] = status[s]
    <3>1. ASSUME running # <<>>, PreemptOne PROVE status'[s] = status[s]
      <4>1. s # Last(running)
        BY <1>0, <3>1, PreemptStatus
      <4> QED BY <1>0, <3>1, <4>1, PreemptStatus
    <3>2. ASSUME AdmitHead PROVE status'[s] = status[s]
      BY <1>0, <1>5, <3>2 DEF AdmitHead, SetStatus
    <3>3. ASSUME ScheduleChunk PROVE status'[s] = status[s]
      <4>1. s # Head(waiting)
        BY <1>5, <3>3
      <4> QED BY <1>0, <3>3, <4>1 DEF ScheduleChunk, StartRunning, SetStatus, queueVars
    <3>4. ~NothingToPrefill
      <4>1. SUFFICES ASSUME NothingToPrefill PROVE FALSE
        OBVIOUS
      <4>2. /\ pc = "prefill" /\ call = Idle /\ waiting # <<>> /\ budget > 0
            /\ blockTable[Head(waiting)] # <<>> /\ ChunkOf(Head(waiting)) = 0
        BY <4>1 DEF NothingToPrefill, PrefillTurn
      <4>3. PICK h \in Seqs : h = Head(waiting)
        BY <1>0, <4>2, Heads
      <4>4. NumUncomputedPromptTokens(h) > 0
        BY <4>2, <4>3, HeadHasPrompt
      <4> QED BY <4>2, <4>3, <4>4 DEF ChunkOf
    <3> QED BY <1>0, <3>1, <3>2, <3>3, <3>4 DEF StartSchedule, PoolCall, ScheduleStep,
       DecodeSkip, DecodeSchedule, DecodePreempt, DecodeGiveUp, EndDecode,
       PreemptForAdmission, AdmissionGiveUp, PlanChunk, EndPrefill, queueVars
  <2>2. Grows(s) /\ (Admitting(s) => Admitting(s)')
    BY <1>0, <1>5, <2>1, InsideGrows
  <2>3. CASE scheduled' = scheduled
    BY <1>0, <2>1, <2>2, <2>3, InsideStays
  <2>4. ASSUME NEW r \in Seqs, r # s, NEW n \in Nat \ {0}, NEW b \in BOOLEAN,
               scheduled' = Append(scheduled, Item(r, n, b))
        PROVE  SequenceOK(s)'
    <3>1. Item(r, n, b) \in Items /\ Item(r, n, b).seq = r
      BY DEF Item, Items
    <3>2. /\ \A k \in DOMAIN scheduled :
                k \in DOMAIN scheduled' /\ scheduled'[k] = scheduled[k]
          /\ \A k \in DOMAIN scheduled' : k \notin DOMAIN scheduled
                => scheduled'[k] = Item(r, n, b)
      BY <1>0, <2>4, <3>1, AppendEntries
    <3>3. \A k \in DOMAIN scheduled' : k \notin DOMAIN scheduled => scheduled'[k].seq # s
      BY <2>4, <3>1, <3>2
    <3> QED BY <1>0, <2>1, <2>2, <3>2, <3>3, InsideStays
  <2>5. CASE DecodeSchedule
    <3>1. Head(todo) \in Seqs /\ scheduled' = Append(scheduled, Item(Head(todo), 1, FALSE))
      BY <1>0, <2>5, Heads DEF DecodeSchedule, DecodeTurn, StepOK
    <3>2. Head(todo) # s /\ 1 \in Nat \ {0} /\ FALSE \in BOOLEAN
      BY <1>5, <2>5
    <3> QED BY <2>4, <3>1, <3>2
  <2>6. CASE ScheduleChunk
    <3>1. /\ Head(waiting) \in Seqs /\ ChunkOf(Head(waiting)) > 0
          /\ scheduled' = Append(scheduled, Item(Head(waiting), ChunkOf(Head(waiting)), TRUE))
      BY <1>0, <2>6, Heads DEF ScheduleChunk, StepOK
    <3>2. ChunkOf(Head(waiting)) \in Nat \ {0}
      BY <1>0, <3>1, ChunkBounds
    <3> QED BY <1>5, <2>4, <2>6, <3>1, <3>2
  <2>7. CASE StartSchedule
    <3>1. pc = "idle" /\ scheduled' = <<>>
      BY <2>7 DEF StartSchedule
    <3>2. scheduled = <<>>
      BY <1>0, <3>1 DEF ItemsOK, LoopPcs
    <3> QED BY <2>3, <3>1, <3>2
  <2>8. ~DecodeSchedule /\ ~ScheduleChunk /\ ~StartSchedule => scheduled' = scheduled
    BY <1>0 DEF PoolCall, ScheduleStep, DecodeSkip, DecodePreempt, DecodeGiveUp,
       EndDecode, AdmitHead, PreemptForAdmission, AdmissionGiveUp, PlanChunk,
       NothingToPrefill, EndPrefill, stepVars
  <2> QED BY <2>3, <2>5, <2>6, <2>7, <2>8
<1> QED BY <1>1, <1>2, <1>3, <1>4, <1>5

-----------------------------------------------------------------------------
(* The invariant is inductive. *)

LEMMA OnceInitInv == EngineInit => OnceInv
<1> SUFFICES ASSUME EngineInit PROVE OnceInv
  OBVIOUS
<1>1. EngineInv
  BY EngineInitInv
<1>2. /\ pc = "idle" /\ scheduled = <<>> /\ waiting = <<>>
      /\ status = [s \in Seqs |-> "NONE"] /\ known = {}
  BY DEF EngineInit, SchedulerInit, QueuesInit
<1>3. ItemsOK /\ PlanOK /\ BatchOK
  <2>1. Distinct(<<>>)
    BY EmptySeq DEF Distinct
  <2> QED BY <1>2, <2>1 DEF ItemsOK, PlanOK, TodoOK, BatchOK, PlanPcs, ApplyPcs
<1>4. WaitingLive /\ LiveKnown /\ ProgressOK
  BY <1>2 DEF WaitingLive, LiveKnown, ProgressOK, SequenceOK
<1> QED BY <1>1, <1>3, <1>4 DEF OnceInv

LEMMA OnceStutter ==
    ASSUME OnceInv, UNCHANGED engineVars
    PROVE  OnceInv'
<1>1. /\ UNCHANGED <<schedulerVars, kvVars, stepResults, requestVars>>
      /\ UNCHANGED <<seqVars, pool, call, queueVars, pc, stepVars, newTokens, known>>
  BY DEF engineVars, schedulerVars, poolVars, stepResults, requestVars
<1>2. EngineInv'
  BY EngineStutter DEF OnceInv
<1>3. ItemsOK' /\ BatchOK' /\ WaitingLive' /\ LiveKnown'
  BY <1>1 DEF OnceInv, ItemsOK, Distinct, FromStep, BatchOK, WaitingLive, LiveKnown,
     Contains, queueVars, stepVars
<1>4. PlanOK'
  BY <1>1 DEF OnceInv, PlanOK, TodoOK, Fitting, Touched, Due, Partial, PromptLen, TotalLen,
     Room, NoDuplicates, Contains, InItems, queueVars, stepVars, seqVars
<1>5. ProgressOK'
  <2>1. \A s \in Seqs : SequenceOK(s)' <=> SequenceOK(s)
    BY <1>1 DEF SequenceOK, RunningOK, PrefillingOK, Ready, Due, Partial, Admitting,
       Uncounted, Unapplied, PromptLen, TotalLen, Room, InItems, queueVars, stepVars,
       seqVars
  <2> QED BY <1>1, <2>1 DEF OnceInv, ProgressOK
<1> QED BY <1>2, <1>3, <1>4, <1>5 DEF OnceInv

LEMMA OnceStepInv ==
    ASSUME OnceInv, [EngineNext /\ OneItemEach']_engineVars
    PROVE  OnceInv'
<1>1. CASE UNCHANGED engineVars
  BY <1>1, OnceStutter
<1>2. CASE EngineNext /\ OneItemEach'
  <2>1. EngineInv' /\ PoolTypeOK'
    BY <1>2, EngineStepInv DEF OnceInv, EngineInv, PoolInv
  <2>2. InsideStep \/ OutsideStep
    BY <1>2 DEF EngineNext, LoopStep, InsideStep, OutsideStep, RequestStep, MoveStep,
       ForwardStep, ApplyStep, SendStep
  <2>3. CASE InsideStep
    <3>1. PlanOK' /\ ItemsOK'
      BY <1>2, <2>1, <2>3, InsidePlan, InsideItems
    <3>2. ProgressOK' /\ BatchOK' /\ WaitingLive' /\ LiveKnown'
      BY <2>1, <2>3, <3>1, InsideProgress, InsideBatch, InsideLive
    <3> QED BY <2>1, <3>1, <3>2 DEF OnceInv
  <2>4. CASE OutsideStep
    <3>1. EngineInv /\ ItemsOK
      BY DEF OnceInv
    <3>2. PlanOK' /\ ItemsOK' /\ ProgressOK'
      BY <2>1, <2>4, <3>1, OutsidePlan, OutsideItems, OutsideProgress
    <3>3. BatchOK' /\ WaitingLive' /\ LiveKnown'
      BY <2>4, OutsideBatch, OutsideLive
    <3> QED BY <2>1, <3>2, <3>3 DEF OnceInv
  <2> QED BY <2>2, <2>3, <2>4
<1> QED BY <1>1, <1>2

\* CleanSpec leaves out more than OnceSpec.
LEMMA CleanIsOnce == CleanSpec => OnceSpec
<1>1. [EngineNext /\ CleanStep]_engineVars => [EngineNext /\ OneItemEach']_engineVars
  BY DEF CleanStep
<1> QED BY <1>1, PTL DEF CleanSpec, OnceSpec

-----------------------------------------------------------------------------
(* The theorems. *)

\* In the steps that schedule no sequence twice: how far each sequence is,
\* with its tokens in an item, in the executor's hands, counted or sampled.
THEOREM OnceInvariant == OnceSpec => []OnceInv
<1>1. EngineInit => OnceInv
  BY OnceInitInv
<1>2. OnceInv /\ [EngineNext /\ OneItemEach']_engineVars => OnceInv'
  BY OnceStepInv
<1> QED BY <1>1, <1>2, PTL DEF OnceSpec

\* Where no step schedules a sequence twice, what is scheduled has its tokens
\* and its slots, so that prepare_input finds them, but for the items of a
\* sequence that was preempted after it was scheduled.
THEOREM ScheduledItemsFit == OnceSpec => []UntouchedItemsFit
<1>1. ASSUME OnceInv, pc = "scheduled" \/ (pc = "prefill" /\ call = Idle),
             NEW k \in DOMAIN scheduled, scheduled[k].seq \notin preempted
      PROVE  InputFits(scheduled[k])
  <2>1. Fitting(k)
    BY <1>1 DEF OnceInv, PlanOK, PlanPcs, Touched
  <2>2. PoolTypeOK /\ EngineInv /\ scheduled[k] \in Items /\ ProgressOK
    BY <1>1 DEF OnceInv, EngineInv, PoolInv, QueueData
  <2>3. PICK s \in Seqs : s = scheduled[k].seq
    BY <2>2 DEF Items
  <2>4. PICK n \in Nat : n = scheduled[k].n
    BY <2>2 DEF Items
  <2>5. numComputed[s] + n <= TotalLen(s) /\ numComputed[s] + n <= Room(s)
    <3>1. CASE Due(s, n)
      BY <3>1 DEF Due
    <3>2. CASE pc = "scheduled" /\ status[s] = "PREFILLING" /\ Partial(s, n)
      <4>1. call.op = "none" /\ EngineTablesOK
        BY <2>2, <3>2, IdleFields DEF EngineInv, EngineStepOK
      <4>2. /\ blockTable[s] # <<>> /\ ~Admitting(s)
            /\ Len(blockTable[s]) >= NumBlocksNeededFor(PromptLen(s))
        BY <3>2, <4>1 DEF EngineTablesOK, EngineTableOK, Admitting
      <4>3. /\ numComputed[s] \in Nat /\ PromptLen(s) \in Nat /\ TotalLen(s) \in Nat
            /\ PromptLen(s) <= TotalLen(s) /\ Room(s) \in Nat
            /\ NumBlocksNeededFor(PromptLen(s)) \in Nat /\ Len(blockTable[s]) \in Nat
        BY <2>2, RoomFacts, PromptNeedsBlock
      <4>4. PromptLen(s) <= Room(s)
        BY <2>2, <4>2, <4>3, BlocksGiveRoom
      <4> QED BY <2>4, <3>2, <4>3, <4>4 DEF Partial
    <3> QED BY <2>1, <2>3, <2>4, <3>1, <3>2 DEF Fitting
  <2> QED BY <2>3, <2>4, <2>5 DEF InputFits, Room
<1>2. OnceInv => UntouchedItemsFit
  BY <1>1 DEF UntouchedItemsFit
<1> QED BY <1>2, OnceInvariant, PTL

\* Where no step schedules a sequence twice, the scheduler has no request
\* whose stream has ended, whenever another task can run: the end of a
\* stream, an abort and the end of a step agree.
THEOREM EndedRequestsAreGone == OnceSpec => []EndedLeaveTheQueues
<1>1. ASSUME OnceInv, AtAwait, NEW s \in Seqs, Contains(waiting, s) \/ Contains(running, s)
      PROVE  s \in known
  <2>1. ~EngineReleasing(s)
    BY <1>1 DEF AtAwait, EngineReleasing, ApplyPcs
  <2>2. status[s] # "NONE" /\ status[s] # "FINISHED"
    BY <1>1, <2>1 DEF OnceInv, WaitingLive, EngineInv, QueuesOK, FinishedNowOK
  <2> QED BY <1>1, <2>2 DEF OnceInv, LiveKnown
<1>2. OnceInv => EndedLeaveTheQueues
  BY <1>1 DEF EndedLeaveTheQueues
<1> QED BY <1>2, OnceInvariant, PTL

-----------------------------------------------------------------------------
(***************************************************************************)
(* Nobody starves without a prefix cache.  running followed by waiting is  *)
(* a first-come, first-served order: a preemption moves the last of        *)
(* running to the front of waiting, and the head of waiting goes to the    *)
(* end of running.  A sequence is admitted with nobody before it but       *)
(* running, and with room for all of these and for itself; nobody comes    *)
(* before it later.  So whoever waits with blocks leaves room for the      *)
(* prompt of everybody before it, the head of waiting included.            *)
(***************************************************************************)

BlocksFor(s) == NumBlocksNeededFor(PromptLen(s))

\* The sequences that are served no later than s, which is in waiting.
UpTo(s) ==
    {r \in Seqs : r = s \/ Contains(running, r) \/ Precedes(waiting, r, s)}

\* One element for each block that the prompts of S need.
Wanted(S) == {x \in S \X (Nat \ {0}) : x[2] <= BlocksFor(x[1])}

OneToOne(f, D) == \A x, y \in D : f[x] = f[y] => x = y

\* The prompts of S fit into the pool together.
Fits(S) == \E f \in [Wanted(S) -> Blocks] : OneToOne(f, Wanted(S))

HoldsBlocks(s) == Admitting(s) \/ (blockTable[s] # <<>> /\ ~Freeing(s))

\* Whoever holds blocks in waiting fits together with all who come before,
\* and has no more blocks than its prompt needs.
OrderFits ==
    \A s \in Seqs : Contains(waiting, s) /\ HoldsBlocks(s) =>
        Fits(UpTo(s)) /\ Len(blockTable[s]) <= BlocksFor(s)

\* ensure_blocks_for_chunk finds all blocks there.
EnsureIsIdle == call.op = "ensure" => call.n <= Len(blockTable[call.seq])

\* Why a step comes to nothing: it had work and the whole budget, and room
\* among the running sequences unless there are some.
StepHasWork ==
    /\ pc \in {"decode", "retry", "prefill", "ensure"} =>
          /\ running # <<>> \/ waiting # <<>>
          /\ scheduled = <<>> => budget = MaxNumBatchedTokens
    /\ pc \in {"prefill", "ensure"} => active < MaxNumSeqs \/ running # <<>>
    /\ (pc = "scheduled" /\ scheduled = <<>> /\ running = <<>>) =>
          /\ waiting # <<>>
          /\ blockTable[Head(waiting)] = <<>>
          /\ ~CanAllocateInitial(Head(waiting))

OrderInv ==
    /\ EngineInv
    /\ OrderFits
    /\ EnsureIsIdle
    /\ StepHasWork

\* What fits fits without some of it.
LEMMA FitsShrinks ==
    ASSUME NEW S, NEW T, T \subseteq S, Fits(S)
    PROVE  Fits(T)
<1>1. PICK f \in [Wanted(S) -> Blocks] : OneToOne(f, Wanted(S))
  BY DEF Fits
<1>2. Wanted(T) \subseteq Wanted(S)
  BY DEF Wanted
<1> DEFINE g == [x \in Wanted(T) |-> f[x]]
<1>3. g \in [Wanted(T) -> Blocks]
  BY <1>2
<1>4. OneToOne(g, Wanted(T))
  BY <1>1, <1>2 DEF OneToOne
<1> QED BY <1>3, <1>4 DEF Fits

\* It goes on fitting when nobody new comes before.
LEMMA FitsLater ==
    ASSUME NEW s \in Seqs, UNCHANGED prompt, Fits(UpTo(s)), UpTo(s)' \subseteq UpTo(s)
    PROVE  Fits(UpTo(s))'
<1> DEFINE T == UpTo(s)'
<1>1. Fits(T)
  BY FitsShrinks
<1>2. Wanted(T) = Wanted(UpTo(s))'
  BY DEF Wanted, BlocksFor, NumBlocksNeededFor, PromptLen
<1> HIDE DEF T
<1>3. PICK f \in [Wanted(T) -> Blocks] : OneToOne(f, Wanted(T))
  BY <1>1 DEF Fits
<1>4. f \in [Wanted(UpTo(s))' -> Blocks] /\ OneToOne(f, Wanted(UpTo(s))')
  BY <1>2, <1>3
<1> QED BY <1>4 DEF Fits, OneToOne

\* The moves of the two queues that put nobody before a sequence in waiting.
LEMMA OrderMoves ==
    ASSUME QueueData, QueuesOK, NEW s \in Seqs, Contains(waiting', s),
           \/ UNCHANGED <<waiting, running>>
           \/ /\ running # <<>> /\ s # Last(running)
              /\ running' = Front(running) /\ waiting' = <<Last(running)>> \o waiting
           \/ /\ waiting # <<>>
              /\ waiting' = Tail(waiting) /\ running' = Append(running, Head(waiting))
           \/ \E r \in Seqs : r # s /\ waiting' = Append(waiting, r) /\ running' = running
           \/ \E r : waiting' = Without(waiting, r) /\ running' = running
           \/ \E r : waiting' = waiting /\ running' = Without(running, r)
    PROVE  Contains(waiting, s) /\ UpTo(s)' \subseteq UpTo(s)
<1>0. /\ waiting \in Seq(Seqs) /\ running \in Seq(Seqs)
      /\ NoDuplicates(waiting) /\ NoDuplicates(running)
  BY DEF QueueData, QueuesOK
<1>1. SUFFICES
        /\ Contains(waiting, s)
        /\ \A r \in Seqs : Contains(running', r) =>
              Contains(running, r) \/ Precedes(waiting, r, s)
        /\ \A r \in Seqs : Precedes(waiting', r, s) =>
              Precedes(waiting, r, s) \/ Contains(running, r)
  BY DEF UpTo
<1>2. CASE UNCHANGED <<waiting, running>>
  BY <1>2
<1>3. CASE /\ running # <<>> /\ s # Last(running)
           /\ running' = Front(running) /\ waiting' = <<Last(running)>> \o waiting
  <2>1. /\ Last(running) \in Seqs /\ Contains(running, Last(running))
        /\ \A r : Contains(Front(running), r) => Contains(running, r)
    BY <1>0, <1>3, ContainsFront, FrontEntries
  <2>2. ~Contains(waiting, Last(running))
    BY <2>1 DEF QueuesOK
  <2>3. Contains(waiting, s)
    BY <1>0, <1>3, <2>1, <2>2, ContainsCons
  <2>4. \A r : Precedes(waiting', r, s) => r = Last(running) \/ Precedes(waiting, r, s)
    BY <1>0, <1>3, <2>1, ConsPrecedes
  <2> QED BY <1>3, <2>1, <2>3, <2>4
<1>4. CASE /\ waiting # <<>>
           /\ waiting' = Tail(waiting) /\ running' = Append(running, Head(waiting))
  <2>1. Head(waiting) \in Seqs /\ Contains(waiting, s)
    BY <1>0, <1>4, HeadTail, ContainsTail
  <2>2. Contains(waiting, Head(waiting))
    BY <1>0, <1>4, HeadTail DEF Contains
  <2>3. \A r : Contains(running', r) => Contains(running, r) \/ r = Head(waiting)
    BY <1>0, <1>4, <2>1, <2>2, ContainsAppend DEF QueuesOK
  <2>4. Precedes(waiting, Head(waiting), s)
    BY <1>0, <1>4, HeadPrecedes
  <2>5. \A r : Precedes(waiting', r, s) => Precedes(waiting, r, s)
    BY <1>0, <1>4, HeadPrecedes
  <2> QED BY <2>1, <2>3, <2>4, <2>5
<1>5. CASE \E r \in Seqs : r # s /\ waiting' = Append(waiting, r) /\ running' = running
  <2>1. PICK r \in Seqs : r # s /\ waiting' = Append(waiting, r) /\ running' = running
    BY <1>5
  <2>2. Contains(waiting, s)
    <3>1. \A i \in DOMAIN Append(waiting, r) : i \notin DOMAIN waiting =>
             Append(waiting, r)[i] = r
      BY <1>0, AppendEntries
    <3>2. \A i \in DOMAIN waiting : Append(waiting, r)[i] = waiting[i]
      BY <1>0, AppendEntries
    <3> QED BY <2>1, <3>1, <3>2 DEF Contains
  <2>3. \A p : Precedes(waiting', p, s) => Precedes(waiting, p, s)
    BY <1>0, <2>1, AppendPrecedes
  <2> QED BY <2>1, <2>2, <2>3
<1>6. CASE \E r : waiting' = Without(waiting, r) /\ running' = running
  <2>1. PICK r : waiting' = Without(waiting, r) /\ running' = running
    BY <1>6
  <2>2. Contains(waiting, s)
    BY <1>0, <2>1, WithoutAny
  <2>3. \A p : Precedes(waiting', p, s) => Precedes(waiting, p, s)
    BY <1>0, <2>1, WithoutPrecedes
  <2> QED BY <2>1, <2>2, <2>3
<1>7. CASE \E r : waiting' = waiting /\ running' = Without(running, r)
  BY <1>0, <1>7, WithoutAny
<1> QED BY <1>2, <1>3, <1>4, <1>5, <1>6, <1>7

\* Inside schedule() only admit makes a sequence in waiting hold blocks, and
\* nobody is put before the sequences that do.
LEMMA InsideHolds ==
    ASSUME EngineInv, InsideStep, NEW s \in Seqs, Contains(waiting', s), HoldsBlocks(s)',
           ~(AdmitHead /\ s = Head(waiting))
    PROVE  /\ Contains(waiting, s) /\ HoldsBlocks(s)
           /\ UpTo(s)' \subseteq UpTo(s) /\ UNCHANGED prompt
<1>0. /\ SchedulerInv /\ PoolTypeOK /\ QueueTypes /\ StepOK /\ QueuesOK /\ TablesOK
      /\ QueueData /\ QueueTypes
      /\ StartSchedule \/ ScheduleStep \/ (PoolCall /\ call # Idle)
      /\ Idle.op = "none"
      /\ blockTable \in [Seqs -> Seq(Blocks)]
  BY InsidePc, IdleFields DEF SchedulerInv, EngineInv, PoolInv, PoolTypeOK
<1>1. CASE PoolCall
  <2>1. CallStep /\ waiting' = waiting /\ running' = running
    BY <1>1 DEF PoolCall, queueVars
  <2>2. Contains(waiting, s) /\ UpTo(s)' \subseteq UpTo(s)
    BY <1>0, <2>1, OrderMoves
  <2>3. CASE AdmitHit \/ AdmitMiss \/ AdmitFinish
    <3>1. /\ call.op = "admit" /\ UNCHANGED prompt
          /\ s # call.seq => blockTable'[s] = blockTable[s]
      BY <1>0, <2>3 DEF AdmitHit, AdmitMiss, AdmitFinish, GrowTable
    <3>2. s # call.seq => ~Admitting(s)'
      BY <1>0, <2>3, CallFields DEF AdmitHit, AdmitMiss, AdmitFinish, Advance, Admitting
    <3> QED BY <2>2, <3>1, <3>2 DEF HoldsBlocks, Admitting, Freeing
  <2>4. CASE EnsureTake \/ EnsureExit
    <3>1. /\ call.op = "ensure" /\ UNCHANGED prompt /\ call'.op \in {"ensure", "none"}
          /\ s # call.seq => blockTable'[s] = blockTable[s]
          /\ blockTable[call.seq] # <<>>
      BY <1>0, <2>4 DEF EnsureTake, EnsureExit, GrowTable, seqVars, TablesOK
    <3> QED BY <2>2, <3>1 DEF HoldsBlocks, Admitting, Freeing
  <2>5. CASE FreeRelease
    <3>1. /\ UNCHANGED <<prompt, blockTable>> /\ call'.op = call.op /\ call'.seq = call.seq
      BY <2>5, CallFields DEF FreeRelease, Advance, seqVars
    <3> QED BY <2>2, <3>1 DEF HoldsBlocks, Admitting, Freeing
  <2>6. CASE FreeClear
    <3>1. /\ UNCHANGED prompt /\ call'.op = "none" /\ call.op = "free"
          /\ blockTable'[s] = IF s = call.seq THEN <<>> ELSE blockTable[s]
      BY <1>0, <2>6 DEF FreeClear
    <3> QED BY <2>2, <3>1 DEF HoldsBlocks, Admitting, Freeing
  <2>7. CASE RegisterSkip \/ RegisterBlock \/ RegisterReturn
    <3>1. /\ UNCHANGED <<prompt, blockTable>> /\ call.op = "register"
          /\ call'.op \in {"register", "none"}
      BY <1>0, <2>7, CallFields DEF RegisterSkip, RegisterBlock, RegisterReturn, Advance,
         seqVars
    <3> QED BY <2>2, <3>1 DEF HoldsBlocks, Admitting, Freeing
  <2> QED BY <2>1, <2>3, <2>4, <2>5, <2>6, <2>7 DEF CallStep
<1>2. CASE StartSchedule \/ DecodeSkip \/ DecodeGiveUp \/ EndDecode \/ AdmissionGiveUp
           \/ EndPrefill
  <2>1. UNCHANGED <<waiting, running, prompt, blockTable, call>>
    BY <1>2 DEF StartSchedule, DecodeSkip, DecodeGiveUp, EndDecode, AdmissionGiveUp,
       EndPrefill, poolVars, queueVars, seqVars
  <2>2. Contains(waiting, s) /\ UpTo(s)' \subseteq UpTo(s)
    BY <1>0, <2>1, OrderMoves
  <2> QED BY <2>1, <2>2 DEF HoldsBlocks, Admitting, Freeing
<1>3. CASE DecodeSchedule
  <2>1. /\ UNCHANGED <<waiting, running, status, prompt, call>> /\ call = Idle
        /\ status[Head(todo)] = "RUNNING"
        /\ Head(todo) # s => blockTable'[s] = blockTable[s]
    BY <1>0, <1>3 DEF DecodeSchedule, DecodeTurn, AppendSlot, GrowTable, queueVars, TablesOK
  <2>2. Contains(waiting, s) /\ UpTo(s)' \subseteq UpTo(s)
    BY <1>0, <2>1, OrderMoves
  <2>3. s # Head(todo)
    BY <1>0, <2>1, <2>2 DEF QueuesOK
  <2> QED BY <2>1, <2>2, <2>3 DEF HoldsBlocks, Admitting, Freeing
<1>4. CASE DecodePreempt \/ PreemptForAdmission
  <2>1. running # <<>> /\ PreemptOne
    BY <1>4 DEF DecodePreempt, PreemptForAdmission
  <2>2. /\ call = Idle /\ call'.op = "free" /\ call'.seq = Last(running)
        /\ UNCHANGED <<prompt, blockTable>>
    BY <1>0, <2>1, PreemptStatus
  <2>3. s # Last(running)
    BY <2>2 DEF HoldsBlocks, Admitting, Freeing
  <2>4. Contains(waiting, s) /\ UpTo(s)' \subseteq UpTo(s)
    BY <1>0, <2>1, <2>3, OrderMoves DEF PreemptOne
  <2> QED BY <1>0, <2>2, <2>3, <2>4 DEF HoldsBlocks, Admitting, Freeing
<1>5. CASE AdmitHead
  <2>1. /\ UNCHANGED <<waiting, running, prompt, blockTable>> /\ call = Idle
        /\ call'.op = "admit" /\ call'.seq = Head(waiting)
    BY <1>5, CallFields DEF AdmitHead, Admit, Begin, seqVars
  <2>2. Contains(waiting, s) /\ UpTo(s)' \subseteq UpTo(s)
    BY <1>0, <2>1, OrderMoves
  <2> QED BY <1>0, <1>5, <2>1, <2>2 DEF HoldsBlocks, Admitting, Freeing
<1>6. CASE PlanChunk
  <2>1. /\ UNCHANGED <<waiting, running, prompt, blockTable>> /\ call = Idle
        /\ call'.op = "ensure"
    BY <1>6, CallFields DEF PlanChunk, EnsureBlocksForChunk, Begin, seqVars, queueVars
  <2>2. Contains(waiting, s) /\ UpTo(s)' \subseteq UpTo(s)
    BY <1>0, <2>1, OrderMoves
  <2> QED BY <1>0, <2>1, <2>2 DEF HoldsBlocks, Admitting, Freeing
<1>7. CASE NothingToPrefill \/ ScheduleChunk
  <2>1. /\ UNCHANGED <<prompt, blockTable, call>> /\ waiting # <<>>
        /\ \/ UNCHANGED <<waiting, running>>
           \/ waiting' = Tail(waiting) /\ running' = Append(running, Head(waiting))
    BY <1>0, <1>7 DEF NothingToPrefill, ScheduleChunk, PrefillTurn, StartRunning,
       poolVars, seqVars, queueVars, StepOK
  <2>2. Contains(waiting, s) /\ UpTo(s)' \subseteq UpTo(s)
    BY <1>0, <2>1, OrderMoves
  <2> QED BY <2>1, <2>2 DEF HoldsBlocks, Admitting, Freeing
<1> QED BY <1>0, <1>1, <1>2, <1>3, <1>4, <1>5, <1>6, <1>7 DEF ScheduleStep

\* Nor do requests and the rest of a step, which only add to the end of
\* waiting and take sequences off.
LEMMA OutsideHolds ==
    ASSUME EngineInv, OutsideStep, NEW s \in Seqs, Contains(waiting', s), HoldsBlocks(s)'
    PROVE  /\ Contains(waiting, s) /\ HoldsBlocks(s)
           /\ UpTo(s)' \subseteq UpTo(s) /\ UNCHANGED prompt
<1>0. /\ PoolTypeOK /\ QueueData /\ QueuesOK /\ EngineTablesOK /\ Idle.op = "none"
      /\ blockTable \in [Seqs -> Seq(Blocks)]
  BY IdleFields DEF EngineInv, PoolInv, PoolTypeOK
<1>1. UNCHANGED prompt /\ HoldsBlocks(s) /\ call'.op # "admit"
  <2>1. CASE PoolCall /\ call.op \in {"free", "register"}
    <3>1. CallStep
      BY <2>1 DEF PoolCall
    <3>2. /\ call'.op \in {"none", call.op}
          /\ call'.op # "none" => call'.seq = call.seq
          /\ UNCHANGED prompt
          /\ FreeClear \/ UNCHANGED blockTable
          /\ call.op = "free" /\ call'.op = "none" => FreeClear
      BY <2>1, <3>1, CallGoesOn
    <3>3. CASE FreeClear
      <4>1. /\ call'.op = "none"
            /\ blockTable'[s] = IF s = call.seq THEN <<>> ELSE blockTable[s]
        BY <1>0, <3>3 DEF FreeClear
      <4> QED BY <3>2, <4>1 DEF HoldsBlocks, Admitting, Freeing
    <3>4. CASE ~FreeClear
      BY <2>1, <3>2, <3>4 DEF HoldsBlocks, Admitting, Freeing
    <3> QED BY <3>3, <3>4
  <2>2. CASE /\ UNCHANGED blockTable
             /\ call.op \in {"none", "register"}
             /\ \/ call'.op \in {"none", "register"}
                \/ call'.op = "free"
    BY <2>2, OutsideCalls DEF HoldsBlocks, Admitting, Freeing
  <2> QED BY <2>1, <2>2, OutsideCalls
<1>2. CASE UNCHANGED <<waiting, running, status, finishReason>> \/ ApplyStop
  <2>1. UNCHANGED <<waiting, running>>
    BY <1>2 DEF ApplyStop
  <2> QED BY <1>0, <1>1, <2>1, OrderMoves
<1>3. ASSUME NEW r \in Seqs, AddRequest(r)
      PROVE  Contains(waiting, s) /\ UpTo(s)' \subseteq UpTo(s)
  <2>1. /\ waiting' = Append(waiting, r) /\ running' = running /\ status[r] = "NONE"
        /\ UNCHANGED poolVars /\ call = Idle
    BY <1>3 DEF AddRequest, Add, RequestsRun, AtAwait
  <2>2. blockTable[r] = <<>> /\ ~Admitting(r)
    BY <1>0, <2>1 DEF EngineTablesOK, EngineTableOK, Freeing, Admitting
  <2>3. r # s
    BY <1>1, <2>2 DEF HoldsBlocks
  <2> QED BY <1>0, <2>1, <2>3, OrderMoves
<1>4. ASSUME NEW r \in Seqs, Abort(r)
      PROVE  Contains(waiting, s) /\ UpTo(s)' \subseteq UpTo(s)
  <2>1. \/ waiting' = Without(waiting, r) /\ running' = running
        \/ waiting' = waiting /\ running' = Without(running, r)
    BY <1>4 DEF Abort, AbortWaiting, AbortRunning
  <2> QED BY <1>0, <2>1, OrderMoves
<1>5. CASE FreeFinished
  <2>1. waiting' = waiting /\ running' = Without(running, Head(toFree))
    BY <1>5 DEF FreeFinished, LeaveRunning
  <2> QED BY <1>0, <1>1, <2>1, OrderMoves
<1> QED BY <1>1, <1>2, <1>3, <1>4, <1>5, OutsideMoves

\* Without a prefix cache every free block is in _free_uncached, and a block
\* is in one block table at most.
LEMMA UncachedPool ==
    ASSUME PoolInv, ~EnablePrefixCaching
    PROVE  /\ pool.freeUncached \in Seq(Blocks)
           /\ NoDuplicates(pool.freeUncached)
           /\ NumFree(pool) = Len(pool.freeUncached)
           /\ \A b \in Blocks : Contains(pool.freeUncached, b) <=> Holders(b) = {}
           /\ \A b \in Blocks : \A x, y \in Holders(b) : x = y
<1>1. /\ PoolTyped(pool) /\ FreeListsOK(pool)
      /\ \A b \in Blocks : pool.hashKey[b] = NoHash
  BY DEF PoolInv, PoolOK, HashedOnlyIfEnabled
<1>2. /\ pool.freeUncached \in Seq(Blocks) /\ pool.freeCached \in Seq(Blocks)
      /\ Len(pool.freeUncached) \in Nat
  BY <1>1, TypedFields
<1>3. \A b \in Blocks : ~Contains(pool.freeCached, b)
  BY <1>1 DEF FreeListsOK
<1>4. Len(pool.freeCached) = 0
  <2>1. pool.freeCached = <<>>
    BY <1>2, <1>3, HeadTail DEF Contains
  <2> QED BY <2>1
<1>5. \A b \in Blocks : pool.refCount[b] = 0 <=> Holders(b) = {}
  BY FS_EmptySet DEF PoolInv, HoldersOK
<1> QED BY <1>1, <1>2, <1>4, <1>5 DEF FreeListsOK, NumFree, PoolInv, UnhashedHasOneHolder

\* When admit begins, running and the sequence it admits fit together: the
\* blocks of running are there in its tables, and those of the prompt are on
\* the free list.
LEMMA AdmitFits ==
    ASSUME EngineInv, InsideStep, AdmitHead, ~EnablePrefixCaching,
           NEW s \in Seqs, s = Head(waiting)
    PROVE  Fits(UpTo(s))'
<1> DEFINE S == UpTo(s)
           W == Wanted(S)
           free == pool.freeUncached
           f == [x \in W |-> IF x[1] = s THEN free[x[2]] ELSE blockTable[x[1]][x[2]]]
<1>0. /\ PoolInv /\ PoolTypeOK /\ QueueTypes /\ QueuesOK /\ EngineTablesOK
      /\ FinishedNowOK
      /\ waiting # <<>> /\ waiting \in Seq(Seqs) /\ NoDuplicates(waiting)
      /\ pc = "prefill" /\ call = Idle /\ Idle.op = "none"
      /\ blockTable[s] = <<>> /\ blockTable \in [Seqs -> Seq(Blocks)]
      /\ NumFree(pool) >= BlocksFor(s)
      /\ UNCHANGED <<waiting, running, prompt>>
  BY InsidePc, IdleFields DEF EngineInv, PoolInv, PoolTypeOK, SchedulerInv, QueueTypes,
     QueuesOK, AdmitHead, NeedsAdmission, PrefillTurn, CanAllocateInitial, BlocksFor,
     Admit, seqVars
<1>1. \A r \in S : r \in Seqs /\ (r = s \/ Contains(running, r))
  BY <1>0, HeadPrecedes DEF UpTo
<1>2. ASSUME NEW r \in S, r # s
      PROVE  BlocksFor(r) <= Len(blockTable[r])
  <2>1. r \in Seqs /\ Contains(running, r) /\ ~Contains(waiting, r) /\ status[r] # "NONE"
    BY <1>0, <1>1, <1>2 DEF QueuesOK
  <2>2. status[r] # "FINISHED"
    BY <1>0, <2>1 DEF FinishedNowOK, EngineReleasing, ApplyPcs
  <2>3. status[r] = "RUNNING"
    BY <1>0, <2>1, <2>2 DEF QueueTypes, Statuses, QueuesOK
  <2>4. blockTable[r] # <<>> /\ ~Admitting(r)
    BY <1>0, <2>1, <2>3 DEF EngineTablesOK, EngineTableOK, Admitting
  <2> QED BY <1>0, <2>1, <2>4, PromptNeedsBlock DEF EngineTablesOK, EngineTableOK, BlocksFor
<1>3. ASSUME NEW x \in W
      PROVE  /\ f[x] \in Blocks
             /\ x[1] # s => <<x[1], x[2]>> \in Holders(f[x])
             /\ x[1] = s => Contains(free, f[x]) /\ x[2] \in DOMAIN free
             /\ x = <<x[1], x[2]>>
  <2>1. /\ x[1] \in S /\ x[1] \in Seqs /\ x[2] \in Nat \ {0} /\ x[2] <= BlocksFor(x[1])
        /\ x = <<x[1], x[2]>> /\ BlocksFor(x[1]) \in Nat
    BY <1>0, <1>1, PromptNeedsBlock DEF Wanted, BlocksFor
  <2>2. CASE x[1] = s
    <3>1. /\ free \in Seq(Blocks) /\ NumFree(pool) = Len(free)
      BY <1>0, UncachedPool
    <3>2. x[2] \in DOMAIN free
      BY <1>0, <2>1, <2>2, <3>1
    <3> QED BY <2>1, <2>2, <3>1, <3>2 DEF Contains
  <2>3. CASE x[1] # s
    <3>1. blockTable[x[1]] \in Seq(Blocks) /\ BlocksFor(x[1]) <= Len(blockTable[x[1]])
      BY <1>0, <1>2, <2>1, <2>3
    <3>2. x[2] \in DOMAIN blockTable[x[1]] /\ Held(x[1]) = DOMAIN blockTable[x[1]]
      BY <1>0, <2>1, <3>1 DEF Held
    <3>3. f[x] = blockTable[x[1]][x[2]] /\ f[x] \in Blocks
      BY <2>3, <3>1, <3>2
    <3> QED BY <2>1, <2>3, <3>2, <3>3, HoldersMembers
  <2> QED BY <2>2, <2>3
<1>4. ASSUME NEW x \in W, NEW y \in W, f[x] = f[y]
      PROVE  x = y
  <2> DEFINE b == f[x]
  <2>0. b \in Blocks /\ b = f[y]
    BY <1>3, <1>4
  <2>1. CASE x[1] = s /\ y[1] = s
    <3>1. free[x[2]] = free[y[2]] /\ x[2] \in DOMAIN free /\ y[2] \in DOMAIN free
      BY <1>3, <1>4, <2>1
    <3>2. x[2] = y[2]
      BY <1>0, <3>1, UncachedPool DEF NoDuplicates
    <3> QED BY <1>3, <2>1, <3>2
  <2>2. CASE x[1] # s /\ y[1] # s
    <3>1. <<x[1], x[2]>> \in Holders(b) /\ <<y[1], y[2]>> \in Holders(b)
      BY <1>3, <1>4, <2>2
    <3>2. <<x[1], x[2]>> = <<y[1], y[2]>>
      BY <1>0, <2>0, <3>1, UncachedPool
    <3> QED BY <1>3, <3>2
  <2>3. CASE (x[1] = s) # (y[1] = s)
    <3>1. Holders(b) # {} /\ Contains(free, b)
      BY <1>3, <1>4, <2>3
    <3> QED BY <1>0, <2>0, <3>1, UncachedPool
  <2> QED BY <2>1, <2>2, <2>3
<1>5. f \in [W -> Blocks]
  BY <1>3
<1> HIDE DEF f
<1>6. Fits(S)
  BY <1>4, <1>5 DEF Fits, OneToOne
<1>7. UpTo(s)' = UpTo(s)
  BY <1>0 DEF UpTo
<1> QED BY <1>0, <1>6, <1>7, FitsLater

\* The sizes of disjoint sets add up.
LEMMA Disjoint ==
    ASSUME NEW S, NEW T, IsFiniteSet(S), IsFiniteSet(T), S \cap T = {}
    PROVE  Cardinality(S \cup T) = Cardinality(S) + Cardinality(T)
<1>1. Cardinality(S \cup T) = Cardinality(S) + Cardinality(T) - Cardinality({})
  BY FS_Union
<1>2. Cardinality({}) = 0 /\ Cardinality(S) \in Nat /\ Cardinality(T) \in Nat
  BY FS_EmptySet, FS_CardinalityType
<1> QED BY <1>1, <1>2

\* If everybody who holds blocks fits together with h, who holds none, there
\* are enough blocks free for h.
LEMMA RoomIsFree ==
    ASSUME PoolInv, ~EnablePrefixCaching, call = Idle,
           NEW h \in Seqs, blockTable[h] = <<>>,
           NEW S, h \in S, Fits(S),
           \A s \in Seqs : blockTable[s] # <<>> =>
              s \in S /\ Len(blockTable[s]) <= BlocksFor(s)
    PROVE  BlocksFor(h) <= NumFree(pool)
<1> DEFINE free == pool.freeUncached
           Free0 == {b \in Blocks : Holders(b) = {}}
           Used == {b \in Blocks : Holders(b) # {}}
           n == BlocksFor(h)
<1>1. /\ NumBlocks \in Nat /\ IsFiniteSet(Blocks) /\ Cardinality(Blocks) = NumBlocks
  <2>1. 0 \in Int /\ NumBlocks - 1 \in Int /\ ~(0 > NumBlocks - 1)
        /\ NumBlocks - 1 - 0 + 1 = NumBlocks /\ NumBlocks \in Nat
    BY BlockConstants
  <2>2. IsFiniteSet(0 .. NumBlocks - 1) /\ Cardinality(0 .. NumBlocks - 1) = NumBlocks
    BY <2>1, FS_Interval
  <2> QED BY <2>1, <2>2 DEF Blocks
<1>2. PICK f \in [Wanted(S) -> Blocks] : OneToOne(f, Wanted(S))
  BY DEF Fits
<1>3. PoolTypeOK /\ n \in Nat
  BY PromptNeedsBlock DEF PoolInv, BlocksFor
<1>4. \A b \in Used : \E x \in Wanted(S) : x \in Holders(b) /\ x[1] # h
  <2> SUFFICES ASSUME NEW b \in Used PROVE \E x \in Wanted(S) : x \in Holders(b) /\ x[1] # h
    OBVIOUS
  <2>1. PICK s, i : <<s, i>> \in Holders(b)
    <3>1. PICK x \in Holders(b) : TRUE
      OBVIOUS
    <3>2. \E s, i : x = <<s, i>>
      BY HoldersMembers
    <3> QED BY <3>1, <3>2
  <2>2. s \in Seqs /\ i \in Held(s)
    BY <2>1, HoldersMembers
  <2>3. i \in DOMAIN blockTable[s] /\ blockTable[s] \in Seq(Blocks)
    BY <1>3, <2>2, IdleFields DEF Held, PoolTypeOK
  <2>4. blockTable[s] # <<>> /\ s # h /\ i \in Nat \ {0} /\ i <= Len(blockTable[s])
    BY <2>3
  <2>5. s \in S /\ Len(blockTable[s]) <= BlocksFor(s) /\ BlocksFor(s) \in Nat
    BY <1>3, <2>2, <2>4, PromptNeedsBlock DEF BlocksFor
  <2>6. <<s, i>> \in Wanted(S)
    BY <2>3, <2>4, <2>5 DEF Wanted
  <2> QED BY <2>1, <2>4, <2>6
<1> DEFINE of(b) == CHOOSE x \in Wanted(S) : x \in Holders(b) /\ x[1] # h
           u == [b \in Used |-> f[of(b)]]
           m == [i \in 1 .. n |-> f[<<h, i>>]]
           In1 == {f[of(b)] : b \in Used}
           In2 == {f[<<h, i>>] : i \in 1 .. n}
<1>5. \A b \in Used : of(b) \in Wanted(S) /\ of(b) \in Holders(b) /\ of(b)[1] # h
  BY <1>4
<1>6. \A i \in 1 .. n : <<h, i>> \in Wanted(S)
  BY <1>3 DEF Wanted
<1> HIDE DEF of
<1>7. In1 \subseteq Blocks /\ In2 \subseteq Blocks /\ In1 \cap In2 = {}
  <2>1. In1 \subseteq Blocks /\ In2 \subseteq Blocks
    BY <1>2, <1>5, <1>6
  <2>2. ASSUME NEW b \in Used, NEW i \in 1 .. n PROVE f[of(b)] # f[<<h, i>>]
    <3>1. of(b) # <<h, i>>
      BY <1>5
    <3> QED BY <1>2, <1>5, <1>6, <3>1 DEF OneToOne
  <2> QED BY <2>1, <2>2
<1>8. u \in Injection(Used, In1)
  <2>1. ASSUME NEW b \in Used, NEW c \in Used, u[b] = u[c] PROVE b = c
    <3>1. of(b) = of(c)
      BY <1>2, <1>5, <2>1 DEF OneToOne
    <3>2. PICK s, i : of(b) = <<s, i>>
      BY <1>5, HoldersMembers
    <3>3. <<s, i>> \in Holders(b) /\ <<s, i>> \in Holders(c)
      BY <1>5, <3>1, <3>2
    <3> QED BY <3>3, HoldersMembers
  <2> QED BY <2>1 DEF Injection, IsInjective
<1>9. m \in Injection(1 .. n, In2)
  <2>1. ASSUME NEW i \in 1 .. n, NEW j \in 1 .. n, m[i] = m[j] PROVE i = j
    <3>1. <<h, i>> = <<h, j>>
      BY <1>2, <1>6, <2>1 DEF OneToOne
    <3> QED BY <3>1
  <2> QED BY <2>1 DEF Injection, IsInjective
<1> HIDE DEF u, m, In1, In2
<1>10. /\ IsFiniteSet(In1) /\ IsFiniteSet(In2) /\ IsFiniteSet(Used) /\ IsFiniteSet(Free0)
       /\ IsFiniteSet(In1 \cup In2) /\ Cardinality(In1 \cup In2) <= NumBlocks
       /\ IsFiniteSet(1 .. n) /\ Cardinality(1 .. n) = n
  <2>1. In1 \in SUBSET Blocks /\ In2 \in SUBSET Blocks /\ In1 \cup In2 \in SUBSET Blocks
    BY <1>7
  <2>2. Used \in SUBSET Blocks /\ Free0 \in SUBSET Blocks
    OBVIOUS
  <2>3. IsFiniteSet(1 .. n) /\ Cardinality(1 .. n) = n
    BY <1>3, FS_Interval
  <2> HIDE DEF Used, Free0
  <2> QED BY <1>1, <2>1, <2>2, <2>3, FS_Subset
<1>11. Cardinality(Used) <= Cardinality(In1) /\ n <= Cardinality(In2)
  <2> HIDE DEF Used
  <2> QED BY <1>8, <1>9, <1>10, FS_Injection
<1>12. Cardinality(In1 \cup In2) = Cardinality(In1) + Cardinality(In2)
  BY <1>7, <1>10, Disjoint
<1>13. Cardinality(Used) + Cardinality(Free0) = NumBlocks
  <2>1. Used \cap Free0 = {} /\ Used \cup Free0 = Blocks
    OBVIOUS
  <2> HIDE DEF Used, Free0
  <2> QED BY <1>1, <1>10, <2>1, Disjoint
<1>14. NumFree(pool) = Cardinality(Free0)
  <2>1. /\ free \in Seq(Blocks) /\ NoDuplicates(free) /\ NumFree(pool) = Len(free)
        /\ \A b \in Blocks : Contains(free, b) <=> Holders(b) = {}
        /\ Len(free) \in Nat /\ DOMAIN free = 1 .. Len(free)
    BY UncachedPool
  <2>2. free \in [1 .. Len(free) -> Free0]
    BY <2>1 DEF Contains
  <2>3. \A b \in Free0 : \E i \in 1 .. Len(free) : free[i] = b
    BY <2>1 DEF Contains
  <2>4. free \in Injection(1 .. Len(free), Free0)
    BY <2>1, <2>2 DEF NoDuplicates, Injection, IsInjective
  <2>5. free \in Surjection(1 .. Len(free), Free0)
    BY <2>2, <2>3 DEF Surjection
  <2>6. IsFiniteSet(1 .. Len(free)) /\ Cardinality(1 .. Len(free)) = Len(free)
    BY <2>1, FS_Interval
  <2> HIDE DEF Free0
  <2>7. Cardinality(Free0) = Cardinality(1 .. Len(free))
    BY <2>4, <2>5, <2>6, FS_Surjection
  <2> QED BY <2>1, <2>6, <2>7
<1>15. /\ Cardinality(Used) \in Nat /\ Cardinality(Free0) \in Nat
       /\ Cardinality(In1) \in Nat /\ Cardinality(In2) \in Nat
  <2>1. \A T : IsFiniteSet(T) => Cardinality(T) \in Nat
    BY FS_CardinalityType
  <2> HIDE DEF Used, Free0
  <2> QED BY <1>10, <2>1
<1>16. n <= NumFree(pool)
  <2> HIDE DEF n, Used, Free0
  <2> QED BY <1>1, <1>3, <1>10, <1>11, <1>12, <1>13, <1>14, <1>15
<1> QED BY <1>16

\* A longer prefix needs no fewer blocks.
LEMMA BlocksGrow ==
    ASSUME NEW m \in Nat, NEW p \in Nat, m <= p
    PROVE  /\ NumBlocksNeededFor(m) \in Nat /\ NumBlocksNeededFor(p) \in Nat
           /\ NumBlocksNeededFor(m) <= NumBlocksNeededFor(p)
<1>1. \A b \in Nat \ {0} : (m + b - 1) \div b <= (p + b - 1) \div b
  OBVIOUS
<1>2. \A b \in Nat \ {0} : (m + b - 1) \div b \in Nat /\ (p + b - 1) \div b \in Nat
  <2>1. \A b \in Nat \ {0} : m + b - 1 \in Nat /\ p + b - 1 \in Nat
    OBVIOUS
  <2> QED BY <2>1, DivMod
<1> QED BY <1>1, <1>2, BlockConstants DEF NumBlocksNeededFor

\* ensure_blocks_for_chunk is called for a chunk of the prompt, whose blocks
\* admit took.
LEMMA InsideEnsure ==
    ASSUME EngineInv, EnsureIsIdle, InsideStep
    PROVE  EnsureIsIdle' /\ ~EnsureTake
<1>0. /\ PoolTypeOK /\ QueueTypes /\ TablesOK
      /\ StartSchedule \/ ScheduleStep \/ (PoolCall /\ call # Idle)
      /\ Idle.op = "none"
      /\ blockTable \in [Seqs -> Seq(Blocks)] /\ numComputed \in [Seqs -> Nat]
      /\ call.op = "ensure" => call.seq \in Seqs /\ call.n \in Nat
  BY InsidePc, IdleFields DEF SchedulerInv, EngineInv, PoolInv, PoolTypeOK
<1>1. ~EnsureTake
  <2> SUFFICES ASSUME EnsureTake PROVE FALSE
    OBVIOUS
  <2>1. /\ call.n <= Len(blockTable[call.seq]) /\ Len(blockTable[call.seq]) < call.n
        /\ call.n \in Nat /\ Len(blockTable[call.seq]) \in Nat
    BY <1>0 DEF EnsureTake, EnsureIsIdle
  <2> QED BY <2>1
<1>2. CASE PlanChunk
  <2>1. PICK s \in Seqs : s = Head(waiting)
    BY <1>0, <1>2, Heads DEF PlanChunk, PrefillTurn
  <2>2. /\ call'.op = "ensure" /\ call'.seq = s /\ blockTable' = blockTable
        /\ call'.n = NumBlocksNeededFor(numComputed[s] + ChunkOf(s))
        /\ call = Idle /\ blockTable[s] # <<>> /\ ChunkOf(s) > 0
    BY <1>2, <2>1, CallFields DEF PlanChunk, EnsureBlocksForChunk, Begin, seqVars
  <2>3. /\ Len(blockTable[s]) >= NumBlocksNeededFor(PromptLen(s))
        /\ Len(blockTable[s]) \in Nat
    BY <1>0, <2>1, <2>2 DEF TablesOK, TableOK, Admitting
  <2>4. PICK m \in Nat, p \in Nat : /\ m = numComputed[s] + ChunkOf(s)
                                    /\ p = PromptLen(s) /\ m <= p
    <3>1. /\ numComputed[s] \in Nat /\ ChunkOf(s) \in Nat /\ PromptLen(s) \in Nat
          /\ numComputed[s] + ChunkOf(s) <= PromptLen(s)
      BY <1>0, <2>1, <2>2, ChunkBounds, SequenceSizes
    <3> QED BY <3>1
  <2>5. /\ NumBlocksNeededFor(m) \in Nat /\ NumBlocksNeededFor(p) \in Nat
        /\ NumBlocksNeededFor(m) <= NumBlocksNeededFor(p)
    BY <2>4, BlocksGrow
  <2>6. call'.n <= Len(blockTable'[call'.seq])
    BY <2>2, <2>3, <2>4, <2>5
  <2> QED BY <1>1, <2>6 DEF EnsureIsIdle
<1>3. CASE PoolCall
  <2>1. CallStep
    BY <1>3 DEF PoolCall
  <2>2. call'.op # "ensure"
    BY <1>0, <1>1, <2>1, CallFields
       DEF CallStep, AdmitHit, AdmitMiss, AdmitFinish, EnsureExit, FreeRelease, FreeClear,
           RegisterSkip, RegisterBlock, RegisterReturn, Advance
  <2> QED BY <1>1, <2>2 DEF EnsureIsIdle
<1>4. CASE (StartSchedule \/ ScheduleStep) /\ ~PlanChunk
  <2>1. CASE DecodePreempt \/ PreemptForAdmission
    <3>1. running # <<>> /\ PreemptOne
      BY <2>1 DEF DecodePreempt, PreemptForAdmission
    <3>2. call'.op = "free"
      BY <1>0, <3>1, PreemptStatus
    <3> QED BY <1>1, <3>2 DEF EnsureIsIdle
  <2>2. CASE AdmitHead
    <3>1. call'.op = "admit"
      BY <2>2, CallFields DEF AdmitHead, Admit, Begin
    <3> QED BY <1>1, <3>1 DEF EnsureIsIdle
  <2>3. CASE ~(DecodePreempt \/ PreemptForAdmission \/ AdmitHead)
    <3>1. call = Idle /\ call' = call
      BY <1>4, <2>3 DEF ScheduleStep, StartSchedule, DecodeSkip, DecodeSchedule,
         AppendSlot, DecodeGiveUp, EndDecode, AdmissionGiveUp, NeedsAdmission,
         PrefillTurn, NothingToPrefill, ScheduleChunk, EndPrefill, poolVars
    <3> QED BY <1>0, <1>1, <3>1 DEF EnsureIsIdle
  <2> QED BY <2>1, <2>2, <2>3
<1> QED BY <1>0, <1>2, <1>3, <1>4

\* Of the block tables in waiting, admit fills the one of its sequence with
\* the blocks of the prompt; the others stay or are cleared.
LEMMA InsideTight ==
    ASSUME EngineInv, EnsureIsIdle, InsideStep, NEW s \in Seqs, Contains(waiting, s)
    PROVE  \/ blockTable'[s] = blockTable[s]
           \/ blockTable'[s] = <<>>
           \/ Len(blockTable'[s]) <= BlocksFor(s)
<1>0. /\ PoolInv /\ PoolTypeOK /\ QueueTypes /\ QueuesOK /\ TablesOK
      /\ StartSchedule \/ ScheduleStep \/ (PoolCall /\ call # Idle)
      /\ blockTable \in [Seqs -> Seq(Blocks)] /\ ~EnsureTake
  BY InsidePc, InsideEnsure DEF SchedulerInv, EngineInv, PoolInv, PoolTypeOK
<1>1. CASE PoolCall
  <2>1. CallStep
    BY <1>1 DEF PoolCall
  <2>2. CASE AdmitHit \/ AdmitMiss
    <3>1. /\ call.op = "admit" /\ call.i < call.n
          /\ \E b : blockTable' = [blockTable EXCEPT ![call.seq] = Append(@, b)]
      BY <2>2 DEF AdmitHit, AdmitMiss
    <3>2. CASE s # call.seq
      BY <1>0, <3>1, <3>2
    <3>3. CASE s = call.seq
      <4>1. /\ call.n = NumFull(s) /\ call.i = Len(blockTable[s])
        BY <1>0, <3>1, <3>3 DEF PoolInv, CallOK, AdmitOK
      <4>2. Len(blockTable'[s]) = Len(blockTable[s]) + 1
        BY <1>0, <3>1, <3>3
      <4>3. /\ NumFull(s) \in Nat /\ Len(blockTable[s]) \in Nat
            /\ BlocksFor(s) = NumFull(s) + (IF HasTail(s) THEN 1 ELSE 0)
        BY <1>0, PromptBlocks DEF BlocksFor
      <4> QED BY <3>1, <4>1, <4>2, <4>3
    <3> QED BY <3>2, <3>3
  <2>3. CASE AdmitFinish
    <3>1. CASE s # call.seq
      BY <1>0, <2>3, <3>1 DEF AdmitFinish, GrowTable
    <3>2. CASE s = call.seq
      <4>1. Len(blockTable'[s]) = BlocksFor(s) /\ BlocksFor(s) \in Nat
        BY <1>0, <2>3, <3>2, AdmitFills, PromptNeedsBlock DEF BlocksFor
      <4> QED BY <4>1
    <3> QED BY <3>1, <3>2
  <2>4. CASE FreeClear
    BY <1>0, <2>4 DEF FreeClear
  <2>5. CASE EnsureExit \/ FreeRelease \/ RegisterSkip \/ RegisterBlock \/ RegisterReturn
    BY <2>5 DEF EnsureExit, FreeRelease, RegisterSkip, RegisterBlock, RegisterReturn, seqVars
  <2> QED BY <1>0, <2>1, <2>2, <2>3, <2>4, <2>5 DEF CallStep
<1>2. CASE DecodeSchedule
  <2>1. status[Head(todo)] = "RUNNING"
    BY <1>0, <1>2 DEF DecodeSchedule, DecodeTurn, TablesOK
  <2>2. s # Head(todo)
    BY <1>0, <2>1 DEF QueuesOK
  <2> QED BY <1>0, <1>2, <2>2 DEF DecodeSchedule, AppendSlot, GrowTable
<1>3. CASE (StartSchedule \/ ScheduleStep) /\ ~DecodeSchedule
  BY <1>3 DEF ScheduleStep, StartSchedule, DecodeSkip, DecodePreempt, PreemptOne, Free,
     DecodeGiveUp, EndDecode, AdmitHead, Admit, PreemptForAdmission, AdmissionGiveUp,
     PlanChunk, EnsureBlocksForChunk, NothingToPrefill, ScheduleChunk, EndPrefill,
     poolVars, seqVars
<1> QED BY <1>0, <1>1, <1>2, <1>3

\* Outside schedule() no block table grows.
LEMMA OutsideTight ==
    ASSUME EngineInv, EnsureIsIdle, OutsideStep
    PROVE  /\ EnsureIsIdle'
           /\ \A s \in Seqs : blockTable'[s] = blockTable[s] \/ blockTable'[s] = <<>>
<1>0. Idle.op = "none" /\ blockTable \in [Seqs -> Seq(Blocks)]
  BY IdleFields DEF EngineInv, PoolInv, PoolTypeOK
<1>1. CASE PoolCall /\ call.op \in {"free", "register"}
  <2>1. /\ call'.op \in {"none", call.op}
        /\ FreeClear \/ UNCHANGED blockTable
    BY <1>1, CallGoesOn DEF PoolCall
  <2>2. \A s \in Seqs : blockTable'[s] = blockTable[s] \/ blockTable'[s] = <<>>
    BY <1>0, <2>1 DEF FreeClear
  <2> QED BY <1>1, <2>1, <2>2 DEF EnsureIsIdle
<1>2. CASE UNCHANGED blockTable /\ call'.op \in {"none", "register", "free"}
  BY <1>2 DEF EnsureIsIdle
<1> QED BY <1>1, <1>2, OutsideCalls

\* In schedule(): the step begins with work and the whole budget; it spends
\* the budget only on what it schedules, and fills the places among running
\* only with running sequences.
LEMMA InsideWork ==
    ASSUME EngineInv, StepHasWork, InsideStep
    PROVE  StepHasWork'
<1>0. /\ QueueTypes /\ StepOK
      /\ pc \in SchedulePcs \ {"scheduled"}
      /\ StartSchedule \/ ScheduleStep \/ (PoolCall /\ call # Idle)
      /\ MaxNumSeqs \in Nat \ {0} /\ MaxNumBatchedTokens \in Nat \ {0}
      /\ active \in Nat /\ budget \in Nat
      /\ waiting \in Seq(Seqs) /\ running \in Seq(Seqs) /\ scheduled \in Seq(Items)
  BY InsidePc, SchedulerConstants, BlockConstants DEF SchedulerInv, QueueTypes
<1>1. ASSUME NEW S, NEW q \in Seq(S), NEW x PROVE Append(q, x) # <<>>
  <2>1. q \in Seq(S \cup {x}) /\ x \in S \cup {x}
    OBVIOUS
  <2>2. Len(Append(q, x)) = Len(q) + 1 /\ Len(q) \in Nat
    BY <2>1, AppendEntries
  <2> QED BY <2>2
<1>2. CASE PoolCall
  BY <1>0, <1>2 DEF PoolCall, queueVars, stepVars, StepHasWork
<1>3. CASE StartSchedule
  BY <1>3 DEF StartSchedule, HasWork, queueVars, StepHasWork
<1>4. CASE DecodeSkip \/ DecodeGiveUp
  BY <1>4 DEF DecodeSkip, DecodeGiveUp, queueVars, StepHasWork
<1>5. CASE DecodeSchedule
  <2>1. /\ pc' = "decode" /\ pc \in {"decode", "retry"} /\ UNCHANGED <<waiting, running>>
        /\ scheduled' # <<>>
    BY <1>0, <1>1, <1>5 DEF DecodeSchedule, DecodeTurn, queueVars
  <2> QED BY <2>1 DEF StepHasWork
<1>6. CASE DecodePreempt \/ PreemptForAdmission
  <2>1. /\ pc' \in {"decode", "retry"} \/ (pc' = "prefill" /\ pc = pc' /\ active < MaxNumSeqs)
        /\ pc \in {"decode", "prefill"} /\ PreemptOne /\ running # <<>>
        /\ UNCHANGED <<budget, active, scheduled>>
    BY <1>6 DEF DecodePreempt, DecodeTurn, PreemptForAdmission, NeedsAdmission, PrefillTurn
  <2>2. waiting' # <<>>
    <3>1. Last(running) \in Seqs
      BY <1>0, <2>1, Heads
    <3>2. <<Last(running)>> \o waiting # <<>>
      BY <1>0, <3>1
    <3> QED BY <2>1, <3>2 DEF PreemptOne
  <2> QED BY <2>1, <2>2 DEF StepHasWork
<1>7. CASE EndDecode
  <2>1. running = <<>> => active' = 0
    <3>1. running = <<>> => {i \in DOMAIN running : status[running[i]] # "FINISHED"} = {}
      BY <1>0
    <3> QED BY <1>7, <3>1, FS_EmptySet DEF EndDecode
  <2>2. /\ pc' = "prefill" /\ pc = "decode" /\ UNCHANGED <<waiting, running, budget, scheduled>>
    BY <1>7 DEF EndDecode, queueVars
  <2> QED BY <1>0, <2>1, <2>2 DEF StepHasWork
<1>8. CASE AdmitHead
  BY <1>8 DEF AdmitHead, NeedsAdmission, PrefillTurn, stepVars, StepHasWork
<1>9. CASE AdmissionGiveUp
  <2>1. /\ pc' = "scheduled" /\ waiting # <<>> /\ blockTable[Head(waiting)] = <<>>
        /\ ~CanAllocateInitial(Head(waiting))
        /\ UNCHANGED <<waiting, blockTable, pool, prompt>>
    BY <1>9 DEF AdmissionGiveUp, NeedsAdmission, PrefillTurn, poolVars, seqVars, queueVars
  <2>2. CanAllocateInitial(Head(waiting))' <=> CanAllocateInitial(Head(waiting))
    BY <2>1 DEF CanAllocateInitial, NumFree, NumBlocksNeededFor, PromptLen
  <2> QED BY <2>1, <2>2 DEF StepHasWork
<1>10. CASE PlanChunk
  BY <1>10 DEF PlanChunk, PrefillTurn, queueVars, stepVars, StepHasWork
<1>11. CASE NothingToPrefill
  <2>1. /\ pc' = pc /\ pc = "prefill" /\ running' # <<>> /\ UNCHANGED <<budget, scheduled>>
    BY <1>0, <1>1, <1>11 DEF NothingToPrefill, PrefillTurn, StartRunning
  <2> QED BY <2>1 DEF StepHasWork
<1>12. CASE ScheduleChunk
  <2>1. /\ scheduled' # <<>>
        /\ (pc' = "prefill" /\ running' # <<>>) \/ pc' = "scheduled"
    BY <1>0, <1>1, <1>12 DEF ScheduleChunk, StartRunning
  <2> QED BY <2>1 DEF StepHasWork
<1>13. CASE EndPrefill
  <2>1. /\ pc' = "scheduled" /\ pc = "prefill"
        /\ waiting = <<>> \/ budget = 0 \/ active >= MaxNumSeqs
        /\ UNCHANGED <<waiting, running, scheduled>>
    BY <1>13 DEF EndPrefill, queueVars, stepVars
  <2>2. scheduled # <<>> \/ running # <<>>
    BY <1>0, <2>1 DEF StepHasWork
  <2> QED BY <2>1, <2>2 DEF StepHasWork
<1> QED BY <1>0, <1>2, <1>3, <1>4, <1>5, <1>6, <1>7, <1>8, <1>9, <1>10, <1>11, <1>12, <1>13
        DEF ScheduleStep

\* Nothing else enters schedule() or comes out of it.
LEMMA OutsideWork ==
    ASSUME EngineInv, OutsideStep
    PROVE  StepHasWork'
<1>1. pc' \notin {"decode", "retry", "prefill", "ensure"}
  BY OutsidePc
<1>2. pc' # "scheduled"
  BY DEF EngineInv, EngineData, EngineSteps, SchedulePcs, OutsideStep, PoolCall,
         RequestStep, AddRequest, Add, Abort, AbortWaiting, AbortRunning, RequestsRun,
         AtAwait, Shutdown, schedulerVars, MoveStep, LoopExit, WaitForWork,
         Woken, WaitTimeout, ShutdownTimeout, Starved, Resume, Goto, ForwardStep,
         SubmitForward, ForwardDone, Count, CountItem, SampleAll, ApplyStep, ApplyToken,
         ApplyRegister, ApplyStop, ApplyKeep, ApplyEnd, SendStep, FreeFinished, FreeEnd,
         EmitItem, EmitEnd, LoopDies
<1> QED BY <1>1, <1>2 DEF StepHasWork

LEMMA OrderInitInv == EngineInit => OrderInv
<1> SUFFICES ASSUME EngineInit PROVE OrderInv
  OBVIOUS
<1>1. EngineInv
  BY EngineInitInv
<1>2. waiting = <<>> /\ call = Idle /\ pc = "idle"
  BY DEF EngineInit, SchedulerInit, QueuesInit
<1>3. \A s : ~Contains(waiting, s)
  BY <1>2 DEF Contains
<1> QED BY <1>1, <1>2, <1>3, IdleFields DEF OrderInv, OrderFits, EnsureIsIdle, StepHasWork

LEMMA OrderStepInv ==
    ASSUME ~EnablePrefixCaching, OrderInv, [EngineNext]_engineVars
    PROVE  OrderInv'
<1>0. EngineInv /\ EngineInv' /\ OrderFits /\ EnsureIsIdle /\ StepHasWork
  BY EngineStepInv DEF OrderInv
<1>1. CASE UNCHANGED engineVars
  <2>1. UNCHANGED <<prompt, blockTable, pool, call, waiting, running, pc, budget, active, scheduled>>
    BY <1>1 DEF engineVars, schedulerVars, poolVars, seqVars, queueVars, stepVars
  <2>2. \A s : /\ UpTo(s)' = UpTo(s) /\ HoldsBlocks(s)' = HoldsBlocks(s)
               /\ BlocksFor(s)' = BlocksFor(s)
    BY <2>1 DEF UpTo, HoldsBlocks, Admitting, Freeing, BlocksFor, NumBlocksNeededFor, PromptLen
  <2>3. OrderFits'
    <3> SUFFICES ASSUME NEW s \in Seqs, Contains(waiting', s), HoldsBlocks(s)'
                 PROVE  Fits(UpTo(s))' /\ Len(blockTable'[s]) <= BlocksFor(s)'
      BY DEF OrderFits
    <3>1. Fits(UpTo(s)) /\ Len(blockTable[s]) <= BlocksFor(s)
      BY <1>0, <2>1, <2>2 DEF OrderFits
    <3> QED BY <2>1, <2>2, <3>1, FitsLater
  <2>4. EnsureIsIdle'
    BY <1>0, <2>1 DEF EnsureIsIdle
  <2>5. StepHasWork'
    BY <1>0, <2>1 DEF StepHasWork, CanAllocateInitial, NumFree, NumBlocksNeededFor, PromptLen
  <2> QED BY <1>0, <2>3, <2>4, <2>5 DEF OrderInv
<1>2. CASE InsideStep
  <2>1. OrderFits'
    <3> SUFFICES ASSUME NEW s \in Seqs, Contains(waiting', s), HoldsBlocks(s)'
                 PROVE  Fits(UpTo(s))' /\ Len(blockTable'[s]) <= BlocksFor(s)'
      BY DEF OrderFits
    <3>1. /\ PoolTypeOK /\ BlocksFor(s) \in Nat /\ Len(<<>>) = 0
      BY <1>0, PromptNeedsBlock DEF EngineInv, PoolInv, BlocksFor
    <3>2. CASE AdmitHead /\ s = Head(waiting)
      <4>1. blockTable'[s] = <<>> /\ UNCHANGED prompt
        BY <3>2 DEF AdmitHead, NeedsAdmission, Admit, seqVars
      <4>2. BlocksFor(s)' = BlocksFor(s)
        BY <4>1 DEF BlocksFor, NumBlocksNeededFor, PromptLen
      <4> QED BY <1>0, <1>2, <3>1, <3>2, <4>1, <4>2, AdmitFits
    <3>3. CASE ~(AdmitHead /\ s = Head(waiting))
      <4>1. /\ Contains(waiting, s) /\ HoldsBlocks(s)
            /\ UpTo(s)' \subseteq UpTo(s) /\ UNCHANGED prompt
        BY <1>0, <1>2, <3>3, InsideHolds
      <4>2. Fits(UpTo(s)) /\ Len(blockTable[s]) <= BlocksFor(s)
        BY <1>0, <4>1 DEF OrderFits
      <4>3. BlocksFor(s)' = BlocksFor(s)
        BY <4>1 DEF BlocksFor, NumBlocksNeededFor, PromptLen
      <4>4. Len(blockTable'[s]) <= BlocksFor(s)
        BY <1>0, <1>2, <3>1, <4>1, <4>2, InsideTight
      <4> QED BY <4>1, <4>2, <4>3, <4>4, FitsLater
    <3> QED BY <3>2, <3>3
  <2>2. EnsureIsIdle' /\ StepHasWork'
    BY <1>0, <1>2, InsideEnsure, InsideWork
  <2> QED BY <1>0, <2>1, <2>2 DEF OrderInv
<1>3. CASE OutsideStep
  <2>1. OrderFits'
    <3> SUFFICES ASSUME NEW s \in Seqs, Contains(waiting', s), HoldsBlocks(s)'
                 PROVE  Fits(UpTo(s))' /\ Len(blockTable'[s]) <= BlocksFor(s)'
      BY DEF OrderFits
    <3>1. /\ PoolTypeOK /\ BlocksFor(s) \in Nat /\ Len(<<>>) = 0
      BY <1>0, PromptNeedsBlock DEF EngineInv, PoolInv, BlocksFor
    <3>2. /\ Contains(waiting, s) /\ HoldsBlocks(s)
          /\ UpTo(s)' \subseteq UpTo(s) /\ UNCHANGED prompt
      BY <1>0, <1>3, OutsideHolds
    <3>3. Fits(UpTo(s)) /\ Len(blockTable[s]) <= BlocksFor(s)
      BY <1>0, <3>2 DEF OrderFits
    <3>4. BlocksFor(s)' = BlocksFor(s)
      BY <3>2 DEF BlocksFor, NumBlocksNeededFor, PromptLen
    <3>5. Len(blockTable'[s]) <= BlocksFor(s)
      BY <1>0, <1>3, <3>1, <3>3, OutsideTight
    <3> QED BY <3>2, <3>3, <3>4, <3>5, FitsLater
  <2>2. EnsureIsIdle'
    BY <1>0, <1>3, OutsideTight
  <2>3. StepHasWork'
    BY <1>0, <1>3, OutsideWork
  <2> QED BY <1>0, <2>1, <2>2, <2>3 DEF OrderInv
<1>4. EngineNext => InsideStep \/ OutsideStep
  BY DEF EngineNext, LoopStep, InsideStep, OutsideStep, RequestStep, MoveStep, ForwardStep,
         ApplyStep, SendStep
<1> QED BY <1>1, <1>2, <1>3, <1>4

\* A step that came to nothing, with nothing running: everybody who holds
\* blocks waits behind the head of waiting, and so leaves room for it.
LEMMA HeadFits ==
    ASSUME ~EnablePrefixCaching, OrderInv,
           pc = "scheduled", scheduled = <<>>, running = <<>>,
           \A s \in Seqs : status[s] = "FINISHED" => blockTable[s] = <<>>
    PROVE  /\ waiting # <<>>
           /\ NumBlocksNeededFor(PromptLen(Head(waiting))) > NumBlocks
<1> DEFINE h == Head(waiting)
           Holding == {k \in DOMAIN waiting : blockTable[waiting[k]] # <<>>}
<1>0. /\ PoolInv /\ PoolTypeOK /\ QueueData /\ QueuesOK /\ EngineTablesOK /\ OrderFits
      /\ call = Idle /\ Idle.op = "none"
      /\ blockTable \in [Seqs -> Seq(Blocks)]
      /\ waiting \in Seq(Seqs) /\ NoDuplicates(waiting)
      /\ waiting # <<>> /\ blockTable[h] = <<>> /\ ~CanAllocateInitial(h)
  BY IdleFields DEF OrderInv, EngineInv, PoolInv, PoolTypeOK, QueueData, QueuesOK,
     EngineStepOK, StepHasWork
<1>1. /\ h \in Seqs /\ h = waiting[1] /\ 1 \in DOMAIN waiting
      /\ Len(waiting) \in Nat /\ DOMAIN waiting = 1 .. Len(waiting)
      /\ BlocksFor(h) \in Nat /\ NumBlocks \in Nat
  BY <1>0, HeadTail, PromptNeedsBlock, BlockConstants DEF BlocksFor
<1>2. SUFFICES ASSUME BlocksFor(h) <= NumBlocks PROVE FALSE
  BY <1>0, <1>1 DEF BlocksFor
<1>3. ASSUME NEW s \in Seqs, blockTable[s] # <<>>
      PROVE  Contains(waiting, s) /\ HoldsBlocks(s)
  <2>1. /\ status[s] \notin {"NONE", "WAITING", "PREEMPTED", "FINISHED"} /\ ~Freeing(s)
    BY <1>0, <1>3 DEF EngineTablesOK, EngineTableOK, Freeing
  <2>2. ~Contains(running, s)
    BY DEF Contains
  <2>3. status[s] = "PREFILLING"
    BY <1>0, <2>1, <2>2 DEF QueueData, Statuses, QueuesOK
  <2> QED BY <1>0, <1>3, <2>1, <2>3 DEF QueuesOK, HoldsBlocks
<1>4. \E S : /\ h \in S /\ Fits(S)
             /\ \A s \in Seqs : blockTable[s] # <<>> => s \in S
  <2>1. CASE Holding = {}
    <3>1. ASSUME NEW s \in Seqs, blockTable[s] # <<>> PROVE FALSE
      <4>1. PICK k \in DOMAIN waiting : waiting[k] = s
        BY <1>3, <3>1 DEF Contains
      <4>2. k \in Holding
        BY <3>1, <4>1
      <4> QED BY <2>1, <4>2
    <3> DEFINE f == [x \in Wanted({h}) |-> x[2] - 1]
    <3>2. ASSUME NEW x \in Wanted({h})
          PROVE  f[x] \in Blocks /\ x = <<h, x[2]>> /\ x[2] \in Nat
      <4>1. x = <<h, x[2]>> /\ x[2] \in Nat \ {0} /\ x[2] <= BlocksFor(h)
        BY DEF Wanted
      <4>2. x[2] - 1 \in 0 .. NumBlocks - 1
        BY <1>1, <1>2, <4>1
      <4> QED BY <4>1, <4>2 DEF Blocks
    <3>3. f \in [Wanted({h}) -> Blocks]
      BY <3>2
    <3>4. ASSUME NEW x \in Wanted({h}), NEW y \in Wanted({h}), f[x] = f[y] PROVE x = y
      <4>1. x[2] - 1 = y[2] - 1 /\ x[2] \in Nat /\ y[2] \in Nat
        BY <3>2, <3>4
      <4>2. x[2] = y[2]
        BY <4>1
      <4> QED BY <3>2, <4>2
    <3> HIDE DEF f
    <3>5. Fits({h})
      BY <3>3, <3>4 DEF Fits, OneToOne
    <3> QED BY <3>1, <3>5
  <2>2. CASE Holding # {}
    <3> DEFINE Behind == {Len(waiting) - k : k \in Holding}
    <3>1. Behind \in SUBSET Nat /\ Behind # {}
      BY <1>1, <2>2
    <3>2. PICK d \in Behind : \A e \in Behind : d <= e
      <4> HIDE DEF Behind
      <4> QED BY <3>1, LeastExists
    <3>3. PICK k \in Holding : \A j \in Holding : j <= k
      <4>1. PICK k \in Holding : d = Len(waiting) - k
        OBVIOUS
      <4>2. ASSUME NEW j \in Holding PROVE j <= k
        <5>1. Len(waiting) - k <= Len(waiting) - j
          BY <3>2, <4>1
        <5>2. j \in 1 .. Len(waiting) /\ k \in 1 .. Len(waiting)
          BY <1>1
        <5> QED BY <1>1, <5>1, <5>2
      <4> QED BY <4>2
    <3>4. PICK l \in Seqs : l = waiting[k] /\ blockTable[l] # <<>>
      BY <1>0, <3>3
    <3>5. Fits(UpTo(l))
      BY <1>0, <1>3, <3>4 DEF OrderFits
    <3>6. ASSUME NEW j \in DOMAIN waiting, j <= k PROVE waiting[j] \in UpTo(l)
      <4>1. waiting[j] \in Seqs
        BY <1>0
      <4>2. CASE j = k
        BY <3>4, <4>1, <4>2 DEF UpTo
      <4>3. CASE j # k
        <5>1. j < k /\ k \in DOMAIN waiting
          BY <1>1, <3>6, <4>3
        <5>2. Precedes(waiting, waiting[j], l)
          BY <3>4, <5>1 DEF Precedes
        <5> QED BY <4>1, <5>2 DEF UpTo
      <4> QED BY <4>2, <4>3
    <3>7. h \in UpTo(l)
      BY <1>1, <3>3, <3>6
    <3>8. ASSUME NEW s \in Seqs, blockTable[s] # <<>> PROVE s \in UpTo(l)
      <4>1. PICK j \in DOMAIN waiting : waiting[j] = s
        BY <1>3, <3>8 DEF Contains
      <4> QED BY <3>3, <3>6, <3>8, <4>1
    <3> QED BY <3>5, <3>7, <3>8
  <2> QED BY <2>1, <2>2
<1>5. PICK S : /\ h \in S /\ Fits(S)
               /\ \A s \in Seqs : blockTable[s] # <<>> => s \in S
  BY <1>4
<1>6. \A s \in Seqs : blockTable[s] # <<>> => Len(blockTable[s]) <= BlocksFor(s)
  BY <1>0, <1>3 DEF OrderFits
<1> HIDE DEF h
<1>7. BlocksFor(h) <= NumFree(pool)
  BY <1>0, <1>1, <1>5, <1>6, RoomIsFree
<1>8. NumFree(pool) \in Nat
  BY <1>0, TypedFields DEF PoolInv, PoolOK
<1> QED BY <1>0, <1>1, <1>7, <1>8 DEF CanAllocateInitial, BlocksFor

\* Without a prefix cache the sequences in waiting never keep each other from
\* their blocks, however they were preempted, re-admitted and prefilled in
\* chunks and whatever was aborted meanwhile: schedule() comes to nothing,
\* with nothing running, only for a prompt that is larger than the pool.
THEOREM NobodyStarvesUncached ==
    ASSUME ~EnablePrefixCaching
    PROVE  EngineSpec => []StarvedByThePool
<1>1. OrderInv => StarvedByThePool
  BY HeadFits DEF StarvedByThePool
<1>2. OrderInv /\ [EngineNext]_engineVars => OrderInv'
  BY OrderStepInv
<1> QED BY <1>1, <1>2, OrderInitInv, PTL DEF EngineSpec
=============================================================================
