--------------------------- MODULE RefinementProofs ---------------------------
(***************************************************************************)
(* The engine implements Lifecycle, in the steps that schedule no sequence *)
(* twice: what LLMEngine promises its callers is what the run loop, the    *)
(* scheduler, aborts in the middle of a step and preemption amount to.     *)
(* Then, for every step the scheduler can make: a stream holds the tokens  *)
(* of its sequence's output, each once and in order.                       *)
(***************************************************************************)
EXTENDS EngineProofs

-----------------------------------------------------------------------------
(***************************************************************************)
(* What ties a request's stream to its sequence.  Between the sampling of  *)
(* a token and its item lie four loops; the invariant says what each of    *)
(* them has done for which sequence.                                       *)
(***************************************************************************)

\* The stream of s has an item that says so.
Aborted(s) == \E i \in DOMAIN stream[s] : stream[s][i].reason = "abort"

\* s has a token in its output that is not on its stream yet.
Owed(s) ==
    /\ s \in DOMAIN newTokens
    /\ \/ pc \in ApplyPcs /\ ~InItems(Unapplied, s)
       \/ pc = "free"
       \/ pc = "emit" /\ InItems(rest, s)

\* ... and it is decided whether s stops at it.
Settled(s) == Owed(s) /\ (pc \in {"register", "check"} => s # Current)

\* The items whose token may still have to be sent.
Unsent ==
    IF pc \in {"forward", "count", "apply", "register", "check", "free"} THEN scheduled
    ELSE IF pc = "emit" THEN rest ELSE <<>>

\* Requests that are not made, and those that can be aborted.
RequestsOK ==
    \A s \in Seqs :
        /\ status[s] = "NONE" => stream[s] = <<>> /\ finishReason[s] = "none"
        /\ s \in known => ~Aborted(s) /\ PromptLen(s) < MaxModelLen

\* Whoever may get an item can be aborted, or has been.
ServedOK ==
    /\ \A s \in Seqs : InItems(Unsent, s) => s \in known \/ Aborted(s)
    /\ pc \in ApplyPcs \cup {"free"} => \A s \in DOMAIN newTokens : InItems(scheduled, s)

\* A stream has an item for every token of the output, but for the one owed.
SentOK ==
    pc \notin EndPcs =>
        \A s \in Seqs : ~Aborted(s) =>
            Len(output[s]) = Len(stream[s]) + (IF Owed(s) THEN 1 ELSE 0)

\* A request that can be aborted has finished if its last token says so, and
\* for that reason.
FinishOK ==
    pc \notin EndPcs =>
        \A s \in known :
            IF status[s] = "FINISHED"
            THEN /\ Settled(s)
                 /\ ShouldStop(s, newTokens[s])
                 /\ finishReason[s] = StopReason(s)
            ELSE /\ finishReason[s] = "none"
                 /\ Settled(s) => ~ShouldStop(s, newTokens[s])

LifeInv == OnceInv /\ RequestsOK /\ ServedOK /\ SentOK /\ FinishOK

-----------------------------------------------------------------------------
(* What the steps leave alone. *)

\* schedule() neither samples nor sends, and ends no request.
LEMMA InsideFrame ==
    ASSUME EngineInv, InsideStep
    PROVE  /\ UNCHANGED <<prompt, output, finishReason, stream, known, newTokens>>
           /\ pc \in SchedulePcs /\ pc' \in SchedulePcs
           /\ \A s \in Seqs : \/ status'[s] = status[s]
                              \/ status'[s] \in {"PREFILLING", "RUNNING", "PREEMPTED"}
<1>1. /\ SchedulerInv /\ pc \in SchedulePcs /\ pc' \in SchedulePcs
      /\ StartSchedule \/ ScheduleStep \/ PoolCall
      /\ UNCHANGED <<stream, known, newTokens>>
  BY InsidePc DEF stepResults, requestVars
<1>2. CASE PoolCall
  <2>1. UNCHANGED <<finishReason, status>> /\ CallStep
    BY <1>2 DEF PoolCall, queueVars
  <2>2. UNCHANGED <<prompt, output>>
    BY <2>1 DEF CallStep, AdmitHit, AdmitMiss, AdmitFinish, EnsureTake, EnsureExit,
       FreeRelease, FreeClear, RegisterSkip, RegisterBlock, RegisterReturn, seqVars
  <2> QED BY <1>1, <2>1, <2>2
<1>3. CASE StartSchedule
  BY <1>1, <1>3 DEF StartSchedule, poolVars, seqVars, queueVars
<1>4. CASE ScheduleStep
  <2>1. QueueTypes /\ StepOK
    BY <1>1 DEF SchedulerInv
  <2>2. UNCHANGED <<prompt, output>>
    BY <1>4 DEF ScheduleStep, DecodeSkip, DecodeSchedule, DecodePreempt, DecodeGiveUp,
       EndDecode, AdmitHead, PreemptForAdmission, AdmissionGiveUp, PlanChunk,
       NothingToPrefill, ScheduleChunk, EndPrefill, PreemptOne, Free, ForgetComputed,
       AppendSlot, Admit, EnsureBlocksForChunk, poolVars, seqVars
  <2>3. UNCHANGED finishReason
    BY <1>4 DEF ScheduleStep, DecodeSkip, DecodeSchedule, DecodePreempt, DecodeGiveUp,
       EndDecode, AdmitHead, PreemptForAdmission, AdmissionGiveUp, PlanChunk,
       NothingToPrefill, ScheduleChunk, EndPrefill, PreemptOne, StartRunning, queueVars
  <2> QED BY <1>1, <1>4, <2>1, <2>2, <2>3, ScheduleStatus
<1> QED BY <1>1, <1>2, <1>3, <1>4

\* Outside of schedule(), too, few steps touch a stream or an output.
LEMMA OutsideFrame ==
    ASSUME EngineInv, OutsideStep
    PROVE  /\ prompt' = prompt
           /\ output' = output \/ ApplyToken
           /\ \/ UNCHANGED <<stream, known>>
              \/ \E s \in Seqs : AddRequest(s) \/ Abort(s)
              \/ EmitItem
<1>1. prompt' = prompt
  BY OutsideCalls
<1>2. output' = output \/ ApplyToken
  <2>1. PoolCall => output' = output
    BY DEF PoolCall, CallStep, AdmitHit, AdmitMiss, AdmitFinish, EnsureTake, EnsureExit,
       FreeRelease, FreeClear, RegisterSkip, RegisterBlock, RegisterReturn, seqVars
  <2> QED BY <2>1 DEF OutsideStep, RequestStep, AddRequest, Add, Abort, AbortWaiting,
     AbortRunning, Free, Shutdown, MoveStep, LoopExit, WaitForWork, Woken, WaitTimeout,
     ShutdownTimeout, Starved, Resume, Goto, ForwardStep, SubmitForward, ForwardDone,
     Count, CountItem, SampleAll, ApplyStep, ApplyRegister, RegisterFilledBlocks,
     ApplyStop, ApplyKeep, ApplyEnd, SendStep, FreeFinished, FreeEnd, EmitItem, EmitEnd,
     LoopDies, schedulerVars, poolVars, seqVars
<1>3. \/ UNCHANGED <<stream, known>>
      \/ \E s \in Seqs : AddRequest(s) \/ Abort(s)
      \/ EmitItem
  BY DEF OutsideStep, PoolCall, RequestStep, Shutdown, MoveStep, LoopExit, WaitForWork,
     Woken, WaitTimeout, ShutdownTimeout, Starved, Resume, Goto, ForwardStep,
     SubmitForward, ForwardDone, Count, SampleAll, ApplyStep, ApplyToken, ApplyRegister,
     ApplyStop, ApplyKeep, ApplyEnd, SendStep, FreeFinished, FreeEnd, EmitEnd, LoopDies,
     requestVars
<1> QED BY <1>1, <1>2, <1>3

\* An item on the queue of s leaves the other streams alone.
LEMMA PutItem ==
    ASSUME EngineData, NEW s \in Seqs, NEW item \in StreamItems, Put(s, item)
    PROVE  /\ stream'[s] = Append(stream[s], item)
           /\ Len(stream[s]) \in Nat
           /\ Len(stream'[s]) = Len(stream[s]) + 1
           /\ stream'[s] # <<>>
           /\ \A r \in Seqs \ {s} : stream'[r] = stream[r] /\ (Aborted(r)' <=> Aborted(r))
           /\ Aborted(s)' <=> Aborted(s) \/ item.reason = "abort"
<1>1. stream \in [Seqs -> Seq(StreamItems)] /\ stream[s] \in Seq(StreamItems)
  BY DEF EngineData
<1>2. /\ stream'[s] = Append(stream[s], item)
      /\ \A r \in Seqs \ {s} : stream'[r] = stream[r]
  BY <1>1 DEF Put
<1>3. /\ Len(stream[s]) \in Nat /\ Len(stream'[s]) = Len(stream[s]) + 1
      /\ DOMAIN stream[s] = 1 .. Len(stream[s])
      /\ DOMAIN stream'[s] = 1 .. Len(stream[s]) + 1
      /\ \A i \in 1 .. Len(stream[s]) : stream'[s][i] = stream[s][i]
      /\ stream'[s][Len(stream[s]) + 1] = item
  BY <1>1, <1>2
<1>4. stream'[s] # <<>>
  BY <1>3, EmptySeq
<1>5. Aborted(s)' <=> Aborted(s) \/ item.reason = "abort"
  <2>1. Aborted(s) => Aborted(s)'
    BY <1>3 DEF Aborted
  <2>2. item.reason = "abort" => Aborted(s)'
    BY <1>3 DEF Aborted
  <2>3. Aborted(s)' => Aborted(s) \/ item.reason = "abort"
    BY <1>3 DEF Aborted
  <2> QED BY <2>1, <2>2, <2>3
<1>6. \A r \in Seqs \ {s} : Aborted(r)' <=> Aborted(r)
  BY <1>2 DEF Aborted
<1> QED BY <1>2, <1>3, <1>4, <1>5, <1>6

\* What abort puts, and what a step puts for a sequence that got a token.
LEMMA AbortPuts ==
    ASSUME EngineData, NEW s \in Seqs, Abort(s)
    PROVE  /\ StreamItem(<<>>, TRUE, "abort") \in StreamItems
           /\ Put(s, StreamItem(<<>>, TRUE, "abort"))
           /\ known' = known \ {s}
           /\ StreamItem(<<>>, TRUE, "abort").reason = "abort"
<1>1. <<>> \in Hashes
  BY EmptySeq DEF Hashes
<1> QED BY <1>1 DEF Abort, StreamItem, StreamItems, FinishReasons

LEMMA EmitPuts ==
    ASSUME EngineInv, EmitItem
    PROVE  /\ Current \in Seqs /\ rest \in Seq(Items) /\ rest # <<>> /\ pc = "emit"
           /\ UNCHANGED <<status, finishReason, output, prompt, scheduled, newTokens, pc>>
           /\ rest' = Tail(rest)
           /\ Current \notin DOMAIN newTokens => UNCHANGED <<stream, known>>
           /\ Current \in DOMAIN newTokens =>
                 /\ ItemFor(Current) \in StreamItems
                 /\ Put(Current, ItemFor(Current))
                 /\ newTokens[Current] \in Tokens
                 /\ ItemFor(Current).tokens = <<newTokens[Current]>>
                 /\ ItemFor(Current).finished = IsDone(Current)
                 /\ ItemFor(Current).reason = finishReason[Current]
                 /\ known' = IF IsDone(Current) THEN known \ {Current} ELSE known
<1>1. /\ pc = "emit" /\ rest # <<>> /\ rest' = Tail(rest)
      /\ UNCHANGED <<status, finishReason, output, prompt, scheduled, newTokens, pc>>
      /\ IF Current \in DOMAIN newTokens
         THEN Put(Current, ItemFor(Current)) /\ ForgetIfDone(Current)
         ELSE UNCHANGED <<stream, known>>
  BY DEF EmitItem, queueVars, poolVars, seqVars, stepResults
<1>2. Current \in Seqs /\ rest \in Seq(Items)
  BY <1>1, DataHeads DEF EngineInv, QueueData, Current
<1>3. ASSUME Current \in DOMAIN newTokens
      PROVE  ItemFor(Current) \in StreamItems /\ newTokens[Current] \in Tokens
  <2>1. newTokens[Current] \in Tokens /\ finishReason[Current] \in FinishReasons
    BY <1>2, <1>3 DEF EngineInv, EngineData, QueueData
  <2>2. <<newTokens[Current]>> \in Hashes
    BY <2>1 DEF Hashes
  <2>3. IsDone(Current) \in BOOLEAN
    BY DEF IsDone
  <2> QED BY <2>1, <2>2, <2>3 DEF ItemFor, StreamItem, StreamItems
<1> QED BY <1>1, <1>2, <1>3 DEF ForgetIfDone, ItemFor, StreamItem

-----------------------------------------------------------------------------
(* Requests and who is served. *)

\* Who is sent something in a step has been made and has not ended otherwise.
LEMMA CurrentIsServed ==
    ASSUME LifeInv, EmitItem
    PROVE  Current \in known \/ Aborted(Current)
<1>1. /\ Current \in Seqs /\ rest \in Seq(Items) /\ rest # <<>> /\ pc = "emit"
  BY EmitPuts DEF LifeInv, OnceInv
<1>2. 1 \in DOMAIN rest /\ rest[1].seq = Current
  BY <1>1, DataHeads DEF LifeInv, OnceInv, EngineInv, Current
<1>3. InItems(Unsent, Current)
  BY <1>1, <1>2 DEF Unsent, InItems
<1> QED BY <1>1, <1>3 DEF LifeInv, ServedOK

\* Only its own item or its own abort changes what is said of a stream.
LEMMA ServedStays ==
    ASSUME LifeInv, OutsideStep, NEW s \in Seqs
    PROVE  /\ Aborted(s) => Aborted(s)'
           /\ s \in known => s \in known' \/ Aborted(s)' \/ (EmitItem /\ s = Current)
<1>0. EngineInv /\ EngineData
  BY DEF LifeInv, OnceInv, EngineInv
<1>1. CASE UNCHANGED <<stream, known>>
  BY <1>1 DEF Aborted
<1>2. ASSUME NEW r \in Seqs, AddRequest(r)
      PROVE  Aborted(s)' = Aborted(s) /\ known \subseteq known'
  BY <1>2 DEF AddRequest, Aborted
<1>3. ASSUME NEW r \in Seqs, Abort(r)
      PROVE  /\ Aborted(s) => Aborted(s)'
             /\ s \in known => s \in known' \/ Aborted(s)'
  <2>1. s = r => Aborted(s)'
    BY <1>0, <1>3, AbortPuts, PutItem
  <2>2. s # r => (Aborted(s)' <=> Aborted(s))
    BY <1>0, <1>3, AbortPuts, PutItem
  <2> QED BY <1>0, <1>3, <2>1, <2>2, AbortPuts
<1>4. CASE EmitItem
  <2>1. CASE Current \notin DOMAIN newTokens
    BY <1>0, <1>4, <2>1, EmitPuts DEF Aborted
  <2>2. CASE Current \in DOMAIN newTokens
    <3>1. Aborted(s) => Aborted(s)'
      BY <1>0, <1>4, <2>2, EmitPuts, PutItem
    <3>2. s \in known => s \in known' \/ s = Current
      BY <1>0, <1>4, <2>2, EmitPuts
    <3> QED BY <1>4, <3>1, <3>2
  <2> QED BY <2>1, <2>2
<1> QED BY <1>0, <1>1, <1>2, <1>3, <1>4, OutsideFrame

LEMMA OutsideRequests ==
    ASSUME LifeInv, OutsideStep
    PROVE  RequestsOK'
<1>0. /\ EngineInv /\ EngineData /\ QueueData /\ RequestsOK
      /\ \A s \in known : status[s] # "NONE"
  BY DEF LifeInv, OnceInv, EngineInv, KnownOK
<1>1. ASSUME NEW s \in Seqs, status'[s] = "NONE"
      PROVE  stream'[s] = <<>> /\ finishReason'[s] = "none"
  <2>1. status[s] = "NONE"
    BY <1>0, <1>1, OutsideStatus
  <2>2. stream[s] = <<>> /\ finishReason[s] = "none" /\ s \notin known /\ ~Aborted(s)
    BY <1>0, <2>1, EmptySeq DEF RequestsOK, Aborted
  <2>3. stream'[s] = stream[s]
    <3>1. ASSUME NEW r \in Seqs, Abort(r) PROVE stream'[s] = stream[s]
      <4>1. r # s
        BY <2>2, <3>1 DEF Abort
      <4> QED BY <1>0, <3>1, <4>1, AbortPuts, PutItem
    <3>2. ASSUME NEW r \in Seqs, AddRequest(r) PROVE stream'[s] = stream[s]
      BY <3>2 DEF AddRequest
    <3>3. EmitItem => stream'[s] = stream[s]
      <4> SUFFICES ASSUME EmitItem PROVE stream'[s] = stream[s]
        OBVIOUS
      <4>1. s # Current
        BY <2>2, CurrentIsServed
      <4> QED BY <1>0, <4>1, EmitPuts, PutItem
    <3> QED BY <1>0, <3>1, <3>2, <3>3, OutsideFrame
  <2>4. finishReason'[s] = finishReason[s]
    <3>1. ASSUME NEW r \in Seqs, AddRequest(r) PROVE finishReason'[s] = finishReason[s]
      BY <3>1 DEF AddRequest, Add
    <3>2. ASSUME NEW r \in Seqs, Abort(r) PROVE finishReason'[s] = finishReason[s]
      <4>1. r # s
        BY <2>2, <3>2 DEF Abort
      <4>2. finishReason' = [finishReason EXCEPT ![r] = "abort"]
        BY <3>2 DEF Abort, AbortWaiting, AbortRunning, Finish
      <4> QED BY <1>0, <4>1, <4>2 DEF QueueData
    <3>3. CASE ApplyStop
      <4>1. /\ status' = [status EXCEPT ![Current] = "FINISHED"]
            /\ finishReason' = [finishReason EXCEPT ![Current] = StopReason(Current)]
        BY <3>3 DEF ApplyStop, Finish, SetStatus
      <4>2. s # Current
        BY <1>0, <1>1, <4>1 DEF QueueData
      <4> QED BY <1>0, <4>1, <4>2 DEF QueueData
    <3>4. FreeFinished => finishReason' = finishReason
      BY DEF FreeFinished
    <3> QED BY <1>0, <3>1, <3>2, <3>3, <3>4, OutsideMoves
  <2> QED BY <2>2, <2>3, <2>4
<1>2. ASSUME NEW s \in Seqs, s \in known'
      PROVE  ~Aborted(s)' /\ PromptLen(s)' < MaxModelLen
  <2>0. PromptLen(s)' = PromptLen(s)
    BY <1>0, OutsideFrame DEF PromptLen
  <2>1. ASSUME UNCHANGED <<stream, known>> PROVE ~Aborted(s)' /\ PromptLen(s)' < MaxModelLen
    BY <1>0, <1>2, <2>0, <2>1 DEF RequestsOK, Aborted
  <2>2. ASSUME NEW r \in Seqs, AddRequest(r)
        PROVE  ~Aborted(s)' /\ PromptLen(s)' < MaxModelLen
    <3>1. stream' = stream /\ known' = known \cup {r} /\ PromptLen(r) < MaxModelLen
          /\ status[r] = "NONE"
      BY <2>2 DEF AddRequest, Add
    <3>2. ~Aborted(r)
      BY <1>0, <3>1, EmptySeq DEF RequestsOK, Aborted
    <3> QED BY <1>0, <1>2, <2>0, <3>1, <3>2 DEF RequestsOK, Aborted
  <2>3. ASSUME NEW r \in Seqs, Abort(r)
        PROVE  ~Aborted(s)' /\ PromptLen(s)' < MaxModelLen
    <3>1. s # r /\ s \in known
      BY <1>0, <1>2, <2>3, AbortPuts
    <3>2. Aborted(s)' <=> Aborted(s)
      BY <1>0, <2>3, <3>1, AbortPuts, PutItem
    <3> QED BY <1>0, <2>0, <3>1, <3>2 DEF RequestsOK
  <2>4. ASSUME EmitItem
        PROVE  ~Aborted(s)' /\ PromptLen(s)' < MaxModelLen
    <3>1. CASE Current \notin DOMAIN newTokens
      BY <1>0, <2>1, <2>4, <3>1, EmitPuts
    <3>2. CASE Current \in DOMAIN newTokens
      <4>1. s \in known
        BY <1>0, <1>2, <2>4, <3>2, EmitPuts
      <4>2. CASE s # Current
        BY <1>0, <2>0, <2>4, <3>2, <4>1, <4>2, EmitPuts, PutItem DEF RequestsOK
      <4>3. CASE s = Current
        <5>1. status[s] # "FINISHED" /\ pc = "emit"
          BY <1>0, <1>2, <2>4, <3>2, <4>3, EmitPuts DEF IsDone
        <5>2. finishReason[s] = "none"
          BY <4>1, <5>1 DEF LifeInv, FinishOK, EndPcs
        <5> QED BY <1>0, <2>0, <2>4, <3>2, <4>1, <4>3, <5>2, EmitPuts, PutItem
               DEF RequestsOK
      <4> QED BY <4>2, <4>3
    <3> QED BY <3>1, <3>2
  <2> QED BY <1>0, <2>1, <2>2, <2>3, <2>4, OutsideFrame
<1> QED BY <1>1, <1>2 DEF RequestsOK

\* What a step leaves of the items that may still be sent.
LEMMA UnsentMoves ==
    ASSUME LifeInv, OutsideStep
    PROVE  \/ Unsent' = Unsent
           \/ Unsent' = <<>>
           \/ EmitItem /\ Unsent = rest /\ Unsent' = Tail(rest)
           \/ SubmitForward /\ Unsent' = scheduled
<1>1. CASE (PoolCall /\ pc \notin SchedulePcs) \/ RequestStep
  <2>1. UNCHANGED <<pc, scheduled, rest>>
    BY <1>1 DEF PoolCall, RequestStep, AddRequest, Add, Abort, AbortWaiting,
       AbortRunning, Shutdown, schedulerVars, stepVars
  <2> QED BY <2>1 DEF Unsent
<1>2. CASE MoveStep \/ LoopDies \/ EmitEnd
  <2>1. pc' \in LoopPcs \cup EndPcs
    BY <1>2 DEF MoveStep, LoopExit, WaitForWork, Woken, WaitTimeout, ShutdownTimeout,
       Starved, Resume, Goto, LoopDies, EmitEnd, LoopPcs, EndPcs
  <2> QED BY <2>1 DEF Unsent, LoopPcs, EndPcs
<1>3. CASE SubmitForward
  BY <1>3 DEF SubmitForward, Unsent, stepVars
<1>4. CASE ForwardDone \/ Count \/ SampleAll \/ ApplyStep \/ FreeFinished \/ FreeEnd
  <2>1. /\ scheduled' = scheduled
        /\ pc \in {"forward", "count", "apply", "register", "check", "free"}
        /\ \/ pc' \in {"forward", "count", "apply", "register", "check", "free"}
           \/ pc' = "emit" /\ rest' = scheduled
    BY <1>4 DEF ForwardDone, Count, CountItem, SampleAll, ApplyStep, ApplyToken,
       ApplyRegister, ApplyStop, ApplyKeep, ApplyEnd, FreeFinished, FreeEnd, stepVars
  <2> QED BY <2>1 DEF Unsent
<1>5. CASE EmitItem
  <2>1. pc = "emit" /\ pc' = "emit" /\ rest' = Tail(rest)
    BY <1>5 DEF EmitItem
  <2> QED BY <1>5, <2>1 DEF Unsent
<1> QED BY <1>1, <1>2, <1>3, <1>4, <1>5 DEF OutsideStep, ForwardStep, SendStep

LEMMA OutsideServed ==
    ASSUME LifeInv, OutsideStep
    PROVE  ServedOK'
<1>0. OnceInv /\ EngineInv /\ ItemsOK /\ ServedOK
  BY DEF LifeInv, OnceInv
<1>2. ASSUME NEW s \in Seqs, InItems(Unsent', s)
      PROVE  s \in known' \/ Aborted(s)'
  <2>1. CASE Unsent' = Unsent /\ ~EmitItem
    <3>1. s \in known \/ Aborted(s)
      BY <1>0, <1>2, <2>1 DEF ServedOK
    <3> QED BY <2>1, <3>1, ServedStays
  <2>2. CASE Unsent' = <<>>
    BY <1>2, <2>2, NoItems
  <2>3. CASE EmitItem /\ Unsent = rest /\ Unsent' = Tail(rest)
    <3>1. /\ rest # <<>> /\ rest \in Seq(Items) /\ Distinct(rest)
      BY <1>0, <2>3, EmitPuts DEF ItemsOK
    <3>2. InItems(rest, s) /\ s # Current
      BY <1>2, <2>3, <3>1, RestTail DEF Current
    <3>3. s \in known \/ Aborted(s)
      BY <1>0, <2>3, <3>2 DEF ServedOK
    <3> QED BY <3>2, <3>3, ServedStays
  <2>4. CASE SubmitForward /\ Unsent' = scheduled
    <3>1. /\ pc = "scheduled" /\ UNCHANGED <<stream, known>>
      BY <2>4 DEF SubmitForward, requestVars
    <3>2. PICK k \in DOMAIN scheduled : scheduled[k].seq = s
      BY <1>2, <2>4 DEF InItems
    <3>3. Distinct(scheduled) /\ PlanOK
      BY <1>0, <3>1 DEF OnceInv, ItemsOK, EndPcs
    <3>4. status[s] \in {"RUNNING", "PREFILLING", "PREEMPTED"}
      BY <3>1, <3>2, <3>3, PlanIsComplete
    <3> QED BY <1>0, <3>1, <3>4 DEF OnceInv, LiveKnown
  <2>5. EmitItem /\ Unsent' = Unsent => Unsent = rest /\ Unsent' = Tail(rest)
    BY DEF EmitItem, Unsent
  <2> QED BY <2>1, <2>2, <2>3, <2>4, <2>5, UnsentMoves
<1>3. ASSUME pc' \in ApplyPcs \cup {"free"}, NEW s \in DOMAIN newTokens'
      PROVE  InItems(scheduled', s)
  <2>1. CASE SampleAll
    <3>1. newTokens' \in [Sampled -> Tokens] /\ scheduled' = scheduled
      BY <2>1 DEF SampleAll
    <3> QED BY <1>3, <3>1 DEF Sampled, InItems
  <2>2. CASE pc \in ApplyPcs \cup {"free"} /\ UNCHANGED <<scheduled, newTokens>>
    BY <1>0, <1>3, <2>2 DEF ServedOK, InItems
  <2> QED BY <1>0, <1>3, <2>1, <2>2, ListSteps
<1>4. \A s \in Seqs : InItems(Unsent, s)' => (s \in known \/ Aborted(s))'
  BY <1>2 DEF InItems
<1> QED BY <1>3, <1>4 DEF ServedOK, InItems

-----------------------------------------------------------------------------
(* Tokens that are owed. *)

\* Only its own turn in a loop changes what is owed to a sequence.
LEMMA OwedStays ==
    ASSUME LifeInv, OutsideStep, ~ApplyToken, ~EmitItem, pc' \notin EndPcs,
           NEW s \in Seqs
    PROVE  /\ pc \notin EndPcs
           /\ Owed(s)' <=> Owed(s)
           /\ ~((ApplyStop \/ ApplyKeep) /\ s = Current) => (Settled(s)' <=> Settled(s))
<1>0. /\ EngineInv /\ EngineStepOK /\ ItemsOK /\ ServedOK /\ rest \in Seq(Items)
  BY DEF LifeInv, OnceInv, EngineInv, QueueData
<1>1. CASE (PoolCall /\ pc \notin SchedulePcs) \/ RequestStep
  <2>1. UNCHANGED <<pc, scheduled, rest, newTokens>>
    BY <1>1 DEF PoolCall, RequestStep, AddRequest, Add, Abort, AbortWaiting,
       AbortRunning, Shutdown, schedulerVars, stepVars, stepResults
  <2> QED BY <2>1 DEF Owed, Settled, Unapplied, InItems, Current
<1>2. CASE MoveStep \/ SubmitForward \/ ForwardDone \/ Count
  <2>1. /\ pc \notin ApplyPcs \cup {"free", "emit"} \cup EndPcs
        /\ pc' \notin ApplyPcs \cup {"free", "emit"}
    BY <1>2 DEF MoveStep, LoopExit, WaitForWork, Woken, WaitTimeout, ShutdownTimeout,
       Starved, Resume, Goto, SubmitForward, ForwardDone, Count, CountItem, ApplyPcs,
       EndPcs
  <2> QED BY <2>1 DEF Owed, Settled
<1>3. CASE SampleAll
  <2>1. /\ pc = "count" /\ pc' = "apply" /\ rest' = scheduled
        /\ newTokens' \in [Sampled -> Tokens]
    BY <1>3 DEF SampleAll
  <2>2. s \in DOMAIN newTokens' => InItems(rest', s)
    BY <2>1 DEF Sampled, InItems
  <2>3. ~Owed(s)' /\ ~Owed(s)
    BY <2>1, <2>2 DEF Owed, Unapplied, ApplyPcs
  <2> QED BY <2>1, <2>3 DEF Settled, EndPcs
<1>4. CASE ApplyRegister
  <2>1. pc = "register" /\ pc' = "check" /\ UNCHANGED <<rest, newTokens>>
    BY <1>4 DEF ApplyRegister, stepVars, stepResults
  <2>2. Unapplied = Tail(rest) /\ Unapplied' = Tail(rest)
    BY <2>1 DEF Unapplied
  <2>3. Owed(s)' <=> Owed(s)
    BY <2>1, <2>2 DEF Owed, ApplyPcs, InItems
  <2> QED BY <2>1, <2>3 DEF Settled, EndPcs, Current
<1>5. CASE ApplyStop \/ ApplyKeep
  <2>1. pc = "check" /\ pc' = "apply" /\ rest' = Tail(rest) /\ newTokens' = newTokens
    BY <1>5 DEF ApplyStop, ApplyKeep, stepResults
  <2>2. Unapplied = Tail(rest) /\ Unapplied' = Tail(rest)
    BY <2>1 DEF Unapplied
  <2>3. Owed(s)' <=> Owed(s)
    BY <2>1, <2>2 DEF Owed, ApplyPcs, InItems
  <2> QED BY <1>5, <2>1, <2>3 DEF Settled, EndPcs
<1>6. CASE ApplyEnd
  <2>1. pc = "apply" /\ rest = <<>> /\ pc' = "free" /\ newTokens' = newTokens
    BY <1>6 DEF ApplyEnd
  <2>2. ~InItems(Unapplied, s)
    BY <2>1, NoItems DEF Unapplied
  <2>3. Owed(s)' <=> Owed(s)
    BY <2>1, <2>2 DEF Owed, ApplyPcs
  <2> QED BY <2>1, <2>3 DEF Settled, EndPcs
<1>7. CASE FreeFinished
  <2>1. pc = "free" /\ pc' = "free" /\ newTokens' = newTokens
    BY <1>7 DEF FreeFinished
  <2> QED BY <2>1 DEF Owed, Settled, EndPcs, ApplyPcs
<1>8. CASE FreeEnd
  <2>1. pc = "free" /\ pc' = "emit" /\ rest' = scheduled /\ newTokens' = newTokens
    BY <1>8 DEF FreeEnd, stepResults
  <2>2. s \in DOMAIN newTokens => InItems(rest', s)
    BY <1>0, <2>1 DEF ServedOK, InItems
  <2>3. Owed(s)' <=> Owed(s)
    BY <2>1, <2>2 DEF Owed, ApplyPcs, InItems
  <2> QED BY <2>1, <2>3 DEF Settled, EndPcs
<1>9. CASE EmitEnd
  <2>1. pc = "emit" /\ rest = <<>> /\ pc' = "yield"
    BY <1>9 DEF EmitEnd
  <2>2. ~Owed(s) /\ ~Owed(s)'
    BY <2>1, NoItems DEF Owed, ApplyPcs
  <2> QED BY <2>1, <2>2 DEF Settled, EndPcs
<1>10. ~LoopDies
  BY DEF LoopDies, EndPcs
<1> QED BY <1>1, <1>2, <1>3, <1>4, <1>5, <1>6, <1>7, <1>8, <1>9, <1>10
       DEF OutsideStep, ForwardStep, ApplyStep, SendStep

\* A token that is applied is owed from then on, and not decided yet.
LEMMA ApplyOwes ==
    ASSUME LifeInv, ApplyToken, NEW s \in Seqs
    PROVE  /\ Current \in Seqs /\ pc = "apply" /\ pc' = "register"
           /\ UNCHANGED <<stream, known, status, finishReason, newTokens, rest>>
           /\ s # Current => (Owed(s)' <=> Owed(s)) /\ output'[s] = output[s]
           /\ ~Owed(Current)
           /\ Owed(Current)' <=> Current \in DOMAIN newTokens
           /\ Len(output'[Current]) =
                 Len(output[Current]) + (IF Current \in DOMAIN newTokens THEN 1 ELSE 0)
<1>0. /\ EngineInv /\ rest \in Seq(Items) /\ ItemsOK
      /\ output \in [Seqs -> Seq(Tokens)]
      /\ newTokens \in [DOMAIN newTokens -> Tokens]
  BY DEF LifeInv, OnceInv, EngineInv, QueueData, EngineData, PoolInv, PoolTypeOK
<1>1. /\ pc = "apply" /\ rest # <<>> /\ pc' = "register"
      /\ UNCHANGED <<stream, known, status, finishReason, newTokens, rest>>
      /\ IF Current \in DOMAIN newTokens
         THEN output' = [output EXCEPT ![Current] = Append(@, newTokens[Current])]
         ELSE output' = output
  BY DEF ApplyToken, AppendOutputToken, queueVars, stepVars, stepResults, requestVars
<1>2. Current \in Seqs
  BY <1>0, <1>1, CurrentIsScheduled DEF ApplyPcs
<1>3. /\ ~InItems(Tail(rest), Current)
      /\ InItems(rest, Current)
      /\ s # Current => (InItems(rest, s) <=> InItems(Tail(rest), s))
  BY <1>0, <1>1, RestTail DEF ItemsOK, Current
<1>4. Unapplied = rest /\ Unapplied' = Tail(rest)
  BY <1>1 DEF Unapplied
<1>5. /\ s # Current => (Owed(s)' <=> Owed(s))
      /\ ~Owed(Current)
  BY <1>1, <1>3, <1>4 DEF Owed, ApplyPcs, InItems
<1>6. Owed(Current)' <=> Current \in DOMAIN newTokens
  <2>1. PICK c \in Seqs : c = Current
    BY <1>2
  <2>2. Owed(c)' <=> c \in DOMAIN newTokens
    BY <1>1, <1>3, <1>4, <2>1 DEF Owed, ApplyPcs, InItems
  <2>3. Current' = Current
    BY <1>1 DEF Current
  <2> QED BY <2>1, <2>2, <2>3 DEF Owed, InItems
<1>7. /\ s # Current => output'[s] = output[s]
      /\ Len(output'[Current]) =
            Len(output[Current]) + (IF Current \in DOMAIN newTokens THEN 1 ELSE 0)
  <2>1. Len(output[Current]) \in Nat /\ output[Current] \in Seq(Tokens)
    BY <1>0, <1>2
  <2>2. CASE Current \in DOMAIN newTokens
    <3>1. newTokens[Current] \in Tokens
      BY <1>0, <2>2
    <3>2. /\ output'[Current] = Append(output[Current], newTokens[Current])
          /\ s # Current => output'[s] = output[s]
      BY <1>0, <1>1, <1>2, <2>2
    <3> QED BY <2>1, <2>2, <3>1, <3>2
  <2>3. CASE Current \notin DOMAIN newTokens
    BY <1>1, <2>1, <2>3
  <2> QED BY <2>2, <2>3
<1> QED BY <1>1, <1>2, <1>5, <1>6, <1>7

\* An item that is put is not owed any more.
LEMMA EmitPays ==
    ASSUME LifeInv, EmitItem, NEW s \in Seqs
    PROVE  /\ s # Current => (Owed(s)' <=> Owed(s)) /\ (Settled(s)' <=> Settled(s))
           /\ s = Current => /\ ~Owed(s)' /\ ~Settled(s)'
                             /\ Owed(s) <=> s \in DOMAIN newTokens
                             /\ Settled(s) <=> Owed(s)
<1>0. EngineInv /\ ItemsOK
  BY DEF LifeInv, OnceInv
<1>1. /\ rest \in Seq(Items) /\ rest # <<>> /\ pc = "emit" /\ pc' = "emit"
      /\ rest' = Tail(rest) /\ newTokens' = newTokens
  BY <1>0, EmitPuts
<1>2. /\ s = Current => InItems(rest, s) /\ ~InItems(Tail(rest), s)
      /\ s # Current => (InItems(rest, s) <=> InItems(Tail(rest), s))
  BY <1>0, <1>1, RestTail DEF ItemsOK, Current
<1> QED BY <1>1, <1>2 DEF Owed, Settled, ApplyPcs, InItems

LEMMA OutsideSent ==
    ASSUME LifeInv, OutsideStep
    PROVE  SentOK'
<1> SUFFICES ASSUME pc' \notin EndPcs, NEW s \in Seqs, ~Aborted(s)'
             PROVE  Len(output'[s]) = Len(stream'[s]) + (IF Owed(s)' THEN 1 ELSE 0)
  BY DEF SentOK
<1>0. /\ EngineInv /\ EngineData /\ SentOK /\ ~Aborted(s)
      /\ stream[s] \in Seq(StreamItems) /\ output[s] \in Seq(Tokens)
  BY ServedStays DEF LifeInv, OnceInv, EngineInv, EngineData, PoolInv, PoolTypeOK
<1>1. Len(stream[s]) \in Nat /\ Len(output[s]) \in Nat
  BY <1>0
<1>2. CASE EmitItem
  <2>1. output' = output /\ pc \notin EndPcs /\ pc = "emit"
    BY <1>0, <1>2, EmitPuts DEF EndPcs
  <2>2. Len(output[s]) = Len(stream[s]) + (IF Owed(s) THEN 1 ELSE 0)
    BY <1>0, <2>1 DEF SentOK
  <2>3. CASE s = Current /\ s \in DOMAIN newTokens
    <3>1. Len(stream'[s]) = Len(stream[s]) + 1
      BY <1>0, <1>2, <2>3, EmitPuts, PutItem
    <3>2. Owed(s) /\ ~Owed(s)'
      BY <1>2, <2>3, EmitPays
    <3> QED BY <1>1, <2>1, <2>2, <3>1, <3>2
  <2>4. CASE s = Current /\ s \notin DOMAIN newTokens
    <3>1. stream'[s] = stream[s] /\ ~Owed(s) /\ ~Owed(s)'
      BY <1>0, <1>2, <2>4, EmitPuts, EmitPays
    <3> QED BY <2>1, <2>2, <3>1
  <2>5. CASE s # Current
    <3>1. stream'[s] = stream[s]
      BY <1>0, <1>2, <2>5, EmitPuts, PutItem
    <3>2. Owed(s)' <=> Owed(s)
      BY <1>2, <2>5, EmitPays
    <3> QED BY <2>1, <2>2, <3>1, <3>2
  <2> QED BY <2>3, <2>4, <2>5
<1>3. CASE ApplyToken
  <2>1. /\ pc \notin EndPcs /\ stream' = stream
    BY <1>3, ApplyOwes DEF EndPcs
  <2>2. Len(output[s]) = Len(stream[s]) + (IF Owed(s) THEN 1 ELSE 0)
    BY <1>0, <2>1 DEF SentOK
  <2>3. CASE s # Current
    <3>1. output'[s] = output[s] /\ (Owed(s)' <=> Owed(s))
      BY <1>3, <2>3, ApplyOwes
    <3> QED BY <2>1, <2>2, <3>1
  <2>4. CASE s = Current
    <3>1. /\ ~Owed(Current)
          /\ Owed(Current)' <=> Current \in DOMAIN newTokens
          /\ Current' = Current
          /\ Len(output'[s]) = Len(output[s]) + (IF Current \in DOMAIN newTokens THEN 1 ELSE 0)
      BY <1>3, <2>4, ApplyOwes DEF Current
    <3>2. Owed(s)' <=> Current \in DOMAIN newTokens
      BY <2>4, <3>1 DEF Owed, InItems
    <3>3. ~Owed(s)
      BY <2>4, <3>1
    <3>4. Len(output[s]) = Len(stream[s])
      BY <1>1, <2>2, <3>3
    <3>5. CASE Current \in DOMAIN newTokens
      <4>1. Len(output'[s]) = Len(stream[s]) + 1
        BY <3>1, <3>4, <3>5
      <4> QED BY <2>1, <3>2, <3>5, <4>1
    <3>6. CASE Current \notin DOMAIN newTokens
      <4>1. Len(output'[s]) = Len(stream[s]) + 0
        BY <1>1, <3>1, <3>4, <3>6
      <4> QED BY <2>1, <3>2, <3>6, <4>1
    <3> QED BY <3>5, <3>6
  <2> QED BY <2>3, <2>4
<1>4. CASE ~EmitItem /\ ~ApplyToken
  <2>1. output' = output /\ pc \notin EndPcs /\ (Owed(s)' <=> Owed(s))
    BY <1>0, <1>4, OwedStays, OutsideFrame
  <2>2. stream'[s] = stream[s]
    <3>1. ASSUME NEW r \in Seqs, Abort(r) PROVE stream'[s] = stream[s]
      <4>1. s # r
        BY <1>0, <3>1, AbortPuts, PutItem
      <4> QED BY <1>0, <3>1, <4>1, AbortPuts, PutItem
    <3>2. ASSUME NEW r \in Seqs, AddRequest(r) PROVE stream'[s] = stream[s]
      BY <3>2 DEF AddRequest
    <3> QED BY <1>0, <1>4, <3>1, <3>2, OutsideFrame
  <2>3. Len(output[s]) = Len(stream[s]) + (IF Owed(s) THEN 1 ELSE 0)
    BY <1>0, <2>1 DEF SentOK
  <2> QED BY <2>1, <2>2, <2>3
<1> QED BY <1>2, <1>3, <1>4

-----------------------------------------------------------------------------
(* How a request finishes. *)

\* What FinishOK says of s.
Decided(s) ==
    IF status[s] = "FINISHED"
    THEN /\ Settled(s)
         /\ ShouldStop(s, newTokens[s])
         /\ finishReason[s] = StopReason(s)
    ELSE /\ finishReason[s] = "none"
         /\ Settled(s) => ~ShouldStop(s, newTokens[s])

LEMMA DecidedStays ==
    ASSUME NEW s \in Seqs, Decided(s),
           UNCHANGED <<newTokens, prompt>>, output'[s] = output[s],
           finishReason'[s] = finishReason[s],
           status'[s] = "FINISHED" <=> status[s] = "FINISHED",
           Settled(s)' <=> Settled(s)
    PROVE  Decided(s)'
<1>1. TooLong(s)' <=> TooLong(s)
  BY DEF TooLong, TotalLen
<1>2. StopReason(s)' = StopReason(s)
  BY <1>1 DEF StopReason, TooLong, TotalLen
<1>3. ShouldStop(s, newTokens[s])' <=> ShouldStop(s, newTokens[s])
  BY <1>1 DEF ShouldStop, TooLong, TotalLen
<1> QED BY <1>2, <1>3 DEF Decided

LEMMA OutsideFinish ==
    ASSUME LifeInv, OutsideStep
    PROVE  FinishOK'
<1>0. /\ EngineInv /\ EngineData /\ QueueData /\ RequestsOK
      /\ pc \notin EndPcs => \A s \in known : Decided(s)
      /\ status \in [Seqs -> Statuses] /\ finishReason \in [Seqs -> FinishReasons]
      /\ known \subseteq Seqs /\ known' \subseteq Seqs
  <2>1. EngineData'
    BY OutsideEngineData DEF LifeInv, OnceInv
  <2> QED BY <2>1 DEF LifeInv, OnceInv, EngineInv, QueueData, EngineData, FinishOK, Decided
<1> SUFFICES ASSUME pc' \notin EndPcs, NEW s \in Seqs, s \in known'
             PROVE  Decided(s)'
  BY <1>0 DEF FinishOK, Decided
<1>1. CASE EmitItem
  <2>1. /\ pc = "emit"
        /\ UNCHANGED <<status, finishReason, output, prompt, newTokens>>
        /\ s \in known
    BY <1>0, <1>1, EmitPuts
  <2>2. Decided(s)
    BY <1>0, <2>1 DEF EndPcs
  <2>3. CASE s # Current
    BY <1>1, <2>1, <2>2, <2>3, EmitPays, DecidedStays
  <2>4. CASE s = Current
    <3>1. ~Settled(s)' /\ (Settled(s) <=> s \in DOMAIN newTokens)
      BY <1>1, <2>4, EmitPays
    <3>2. status[s] # "FINISHED"
      BY <1>0, <1>1, <2>2, <2>4, <3>1, EmitPuts DEF Decided, IsDone
    <3> QED BY <2>1, <2>2, <3>1, <3>2 DEF Decided
  <2> QED BY <2>3, <2>4
<1>2. CASE ApplyToken
  <2>1. /\ pc = "apply" /\ pc' = "register"
        /\ UNCHANGED <<known, status, finishReason, newTokens, rest>>
        /\ UNCHANGED prompt
    BY <1>0, <1>2, ApplyOwes, OutsideFrame
  <2>2. Decided(s)
    BY <1>0, <2>1 DEF EndPcs
  <2>3. CASE s # Current
    <3>1. output'[s] = output[s] /\ (Owed(s)' <=> Owed(s)) /\ Current' = Current
      BY <1>2, <2>1, <2>3, ApplyOwes DEF Current
    <3>2. Settled(s)' <=> Settled(s)
      BY <2>1, <2>3, <3>1 DEF Settled
    <3> QED BY <2>1, <2>2, <3>1, <3>2, DecidedStays
  <2>4. CASE s = Current
    <3>1. ~Settled(s)
      BY <1>2, <2>4, ApplyOwes DEF Settled
    <3>2. ~Settled(s)'
      BY <2>1, <2>4 DEF Settled, Current
    <3> QED BY <2>1, <2>2, <3>1, <3>2 DEF Decided
  <2> QED BY <2>3, <2>4
<1>3. CASE (ApplyStop \/ ApplyKeep) /\ s = Current
  <2>1. /\ pc = "check" /\ pc' = "apply" /\ s \in known
        /\ UNCHANGED <<output, prompt, newTokens>>
    BY <1>3 DEF ApplyStop, ApplyKeep, poolVars, seqVars, stepResults, requestVars
  <2>2. Decided(s) /\ ~Settled(s)
    BY <1>0, <1>3, <2>1 DEF EndPcs, Settled
  <2>3. status[s] # "FINISHED" /\ finishReason[s] = "none"
    BY <2>2 DEF Decided
  <2>4. Owed(s)' <=> Owed(s)
    <3>1. ~ApplyToken /\ ~EmitItem
      BY <2>1 DEF ApplyToken, EmitItem
    <3> QED BY <3>1, OwedStays
  <2>5. Settled(s)' <=> Owed(s)
    BY <2>1, <2>4 DEF Settled
  <2>6. Owed(s) <=> s \in DOMAIN newTokens
    <3>1. rest # <<>> /\ rest \in Seq(Items) /\ Distinct(rest)
      BY <2>1 DEF LifeInv, OnceInv, EngineInv, EngineStepOK, QueueData, ItemsOK
    <3>2. ~InItems(Tail(rest), s)
      BY <1>3, <3>1, RestTail DEF Current
    <3> QED BY <2>1, <3>2 DEF Owed, Unapplied, ApplyPcs
  <2>7. /\ TooLong(s)' <=> TooLong(s)
        /\ StopReason(s)' = StopReason(s)
        /\ ShouldStop(s, newTokens[s])' <=> ShouldStop(s, newTokens[s])
    BY <2>1 DEF TooLong, TotalLen, StopReason, ShouldStop
  <2>8. CASE ApplyStop
    <3>1. /\ s \in DOMAIN newTokens /\ ShouldStop(s, newTokens[s])
          /\ status' = [status EXCEPT ![s] = "FINISHED"]
          /\ finishReason' = [finishReason EXCEPT ![s] = StopReason(s)]
      BY <1>3, <2>8 DEF ApplyStop, Finish, SetStatus
    <3>2. status'[s] = "FINISHED" /\ finishReason'[s] = StopReason(s)
      BY <1>0, <3>1
    <3> QED BY <2>5, <2>6, <2>7, <3>1, <3>2 DEF Decided
  <2>9. CASE ApplyKeep
    <3>1. /\ ~(s \in DOMAIN newTokens /\ ShouldStop(s, newTokens[s]))
          /\ status' = status /\ finishReason' = finishReason
      BY <1>3, <2>9 DEF ApplyKeep, queueVars
    <3> QED BY <2>3, <2>5, <2>6, <2>7, <3>1 DEF Decided
  <2> QED BY <1>3, <2>8, <2>9
<1>4. CASE ~EmitItem /\ ~ApplyToken /\ ~((ApplyStop \/ ApplyKeep) /\ s = Current)
  <2>1. /\ pc \notin EndPcs /\ (Settled(s)' <=> Settled(s)) /\ (Owed(s)' <=> Owed(s))
        /\ output' = output /\ prompt' = prompt
    BY <1>0, <1>4, OwedStays, OutsideFrame
  <2>2. CASE AddRequest(s)
    <3>1. /\ status[s] = "NONE" /\ finishReason' = finishReason
          /\ status' = [status EXCEPT ![s] = "WAITING"]
          /\ pc \notin ApplyPcs \cup {"free", "emit"}
      BY <2>2 DEF AddRequest, Add, SetStatus, RequestsRun, AtAwait, ApplyPcs
    <3>2. status'[s] = "WAITING" /\ finishReason'[s] = "none"
      BY <1>0, <3>1 DEF RequestsOK
    <3>3. ~Settled(s)'
      BY <2>1, <3>1 DEF Settled, Owed
    <3> QED BY <3>2, <3>3 DEF Decided
  <2>3. CASE ~AddRequest(s)
    <3>1. s \in known /\ ~Abort(s)
      <4>1. ASSUME NEW r \in Seqs, AddRequest(r) PROVE s \in known /\ ~Abort(s)
        <5>1. known' = known \cup {r} /\ r # s
          BY <2>3, <4>1 DEF AddRequest
        <5>2. ~Abort(s)
          BY <1>0, AbortPuts
        <5> QED BY <5>1, <5>2
      <4>2. ASSUME NEW r \in Seqs, Abort(r) PROVE s \in known /\ ~Abort(s)
        BY <1>0, <4>2, AbortPuts
      <4>3. CASE UNCHANGED <<stream, known>>
        BY <1>0, <4>3, AbortPuts
      <4> QED BY <1>0, <1>4, <4>1, <4>2, <4>3, OutsideFrame
    <3>2. Decided(s)
      BY <1>0, <2>1, <3>1
    <3>3. finishReason'[s] = finishReason[s]
      <4>1. ASSUME NEW r \in Seqs, AddRequest(r) PROVE finishReason'[s] = finishReason[s]
        BY <4>1 DEF AddRequest, Add
      <4>2. ASSUME NEW r \in Seqs, Abort(r) PROVE finishReason'[s] = finishReason[s]
        <5>1. r # s /\ finishReason' = [finishReason EXCEPT ![r] = "abort"]
          BY <3>1, <4>2 DEF Abort, AbortWaiting, AbortRunning, Finish
        <5> QED BY <1>0, <5>1
      <4>3. CASE ApplyStop
        <5>1. /\ Current # s
              /\ finishReason' = [finishReason EXCEPT ![Current] = StopReason(Current)]
          BY <1>4, <4>3 DEF ApplyStop, Finish
        <5> QED BY <1>0, <5>1
      <4>4. FreeFinished => finishReason' = finishReason
        BY DEF FreeFinished
      <4> QED BY <1>0, <4>1, <4>2, <4>3, <4>4, OutsideMoves
    <3>4. status'[s] = "FINISHED" <=> status[s] = "FINISHED"
      <4>1. status'[s] = "FINISHED" => status[s] = "FINISHED"
        BY <1>0, <1>4, <3>1, OutsideFinishes
      <4>2. status[s] = "FINISHED" => status'[s] = "FINISHED"
        BY <1>0, OutsideStatus
      <4> QED BY <4>1, <4>2
    <3>5. newTokens' = newTokens \/ (~Settled(s) /\ ~Settled(s)')
      <4>1. CASE newTokens' # newTokens
        <5>1. SampleAll \/ EmitEnd
          BY <4>1 DEF OutsideStep, PoolCall, RequestStep, AddRequest, Abort, Shutdown,
             MoveStep, LoopExit, WaitForWork, Woken, WaitTimeout, ShutdownTimeout,
             Starved, Resume, Goto, ForwardStep, SubmitForward, ForwardDone, Count,
             ApplyStep, ApplyToken, ApplyRegister, ApplyStop, ApplyKeep, ApplyEnd,
             SendStep, FreeFinished, FreeEnd, EmitItem, LoopDies, stepResults
        <5>2. pc = "count" \/ pc' = "yield"
          BY <5>1 DEF SampleAll, EmitEnd
        <5>3. ~Settled(s) \/ ~Settled(s)'
          BY <5>2 DEF Settled, Owed, ApplyPcs
        <5> QED BY <2>1, <5>3
      <4> QED BY <4>1
    <3>6. CASE newTokens' = newTokens
      BY <2>1, <3>2, <3>3, <3>4, <3>6, DecidedStays
    <3>7. CASE ~Settled(s) /\ ~Settled(s)'
      BY <3>2, <3>3, <3>4, <3>7 DEF Decided
    <3> QED BY <3>5, <3>6, <3>7
  <2> QED BY <2>2, <2>3
<1> QED BY <1>1, <1>2, <1>3, <1>4

-----------------------------------------------------------------------------
(* The invariant is inductive. *)

LEMMA LifeInitInv == EngineInit => LifeInv
<1> SUFFICES ASSUME EngineInit PROVE LifeInv
  OBVIOUS
<1>1. /\ pc = "idle" /\ newTokens = NoTokens /\ known = {}
      /\ stream = [s \in Seqs |-> <<>>] /\ output = [s \in Seqs |-> <<>>]
      /\ finishReason = [s \in Seqs |-> "none"]
  BY DEF EngineInit, SchedulerInit, SequenceInit, QueuesInit
<1>2. OnceInv
  BY OnceInitInv
<1>3. RequestsOK
  BY <1>1 DEF RequestsOK
<1>4. ServedOK
  BY <1>1, NoItems DEF ServedOK, Unsent, ApplyPcs
<1>5. SentOK
  <2>1. \A s \in Seqs : ~Owed(s)
    BY <1>1 DEF Owed, ApplyPcs
  <2>2. Len(<<>>) = Len(<<>>) + 0
    BY EmptySeq
  <2> QED BY <1>1, <2>1, <2>2 DEF SentOK
<1>6. FinishOK
  BY <1>1 DEF FinishOK
<1> QED BY <1>2, <1>3, <1>4, <1>5, <1>6 DEF LifeInv

LEMMA LifeStutter ==
    ASSUME LifeInv, UNCHANGED engineVars
    PROVE  LifeInv'
<1>1. UNCHANGED <<prompt, output, stream, known, newTokens, pc, status, finishReason,
                  scheduled, rest>>
  BY DEF engineVars, schedulerVars, poolVars, seqVars, queueVars, stepVars, stepResults,
         requestVars
<1>2. OnceInv'
  BY OnceStutter DEF LifeInv
<1>3. RequestsOK'
  BY <1>1 DEF LifeInv, RequestsOK, Aborted, PromptLen
<1>4. ServedOK'
  BY <1>1 DEF LifeInv, ServedOK, Unsent, InItems, Aborted
<1>5. \A s \in Seqs : (Owed(s)' <=> Owed(s)) /\ (Settled(s)' <=> Settled(s))
  BY <1>1 DEF Owed, Settled, Unapplied, InItems, Current
<1>6. SentOK'
  BY <1>1, <1>5 DEF LifeInv, SentOK, Aborted
<1>7. FinishOK'
  <2>1. known \subseteq Seqs
    BY DEF LifeInv, OnceInv, EngineInv, EngineData
  <2>2. ASSUME pc \notin EndPcs, NEW s \in Seqs, s \in known PROVE Decided(s)'
    <3>1. Decided(s)
      BY <2>2 DEF LifeInv, FinishOK, Decided
    <3> QED BY <1>1, <1>5, <3>1, DecidedStays
  <2> QED BY <1>1, <2>1, <2>2 DEF FinishOK, Decided
<1> QED BY <1>2, <1>3, <1>4, <1>6, <1>7 DEF LifeInv

LEMMA InsideLife ==
    ASSUME LifeInv, InsideStep
    PROVE  RequestsOK' /\ ServedOK' /\ SentOK' /\ FinishOK'
<1>0. /\ EngineInv /\ known \subseteq Seqs
  BY DEF LifeInv, OnceInv, EngineInv, EngineData
<1>1. /\ UNCHANGED <<prompt, output, finishReason, stream, known, newTokens>>
      /\ pc \in SchedulePcs /\ pc' \in SchedulePcs
      /\ \A s \in Seqs : \/ status'[s] = status[s]
                         \/ status'[s] \in {"PREFILLING", "RUNNING", "PREEMPTED"}
  BY <1>0, InsideFrame
<1>2. \A s \in Seqs : ~Owed(s) /\ ~Owed(s)' /\ ~Settled(s) /\ ~Settled(s)'
  BY <1>1 DEF Owed, Settled, ApplyPcs, SchedulePcs
<1>3. RequestsOK'
  BY <1>1 DEF LifeInv, RequestsOK, Aborted, PromptLen
<1>4. ServedOK'
  <2>1. Unsent' = <<>> /\ pc' \notin ApplyPcs \cup {"free"}
    BY <1>1 DEF Unsent, ApplyPcs, SchedulePcs
  <2>2. \A s : ~InItems(Unsent, s)'
    BY <2>1, NoItems DEF InItems
  <2> QED BY <2>1, <2>2 DEF ServedOK
<1>5. SentOK'
  BY <1>1, <1>2 DEF LifeInv, SentOK, Aborted, SchedulePcs, EndPcs
<1>6. FinishOK'
  <2>1. ASSUME NEW s \in known
        PROVE  finishReason'[s] = "none" /\ status'[s] # "FINISHED"
    <3>1. finishReason[s] = "none" /\ status[s] # "FINISHED"
      BY <1>0, <1>1, <1>2, <2>1 DEF LifeInv, FinishOK, SchedulePcs, EndPcs
    <3> QED BY <1>0, <1>1, <3>1
  <2> QED BY <1>0, <1>1, <1>2, <2>1 DEF FinishOK
<1> QED BY <1>3, <1>4, <1>5, <1>6

LEMMA LifeStepInv ==
    ASSUME LifeInv, [EngineNext /\ OneItemEach']_engineVars
    PROVE  LifeInv'
<1>1. CASE UNCHANGED engineVars
  BY <1>1, LifeStutter
<1>2. CASE EngineNext /\ OneItemEach'
  <2>1. OnceInv'
    BY <1>2, OnceStepInv DEF LifeInv
  <2>2. InsideStep \/ OutsideStep
    BY <1>2 DEF EngineNext, LoopStep, InsideStep, OutsideStep, RequestStep, MoveStep,
       ForwardStep, ApplyStep, SendStep
  <2>3. RequestsOK' /\ ServedOK' /\ SentOK' /\ FinishOK'
    BY <2>2, InsideLife, OutsideRequests, OutsideServed, OutsideSent, OutsideFinish
  <2> QED BY <2>1, <2>3 DEF LifeInv
<1> QED BY <1>1, <1>2

\* Where no step schedules a sequence twice, the four loops of a step, the
\* scheduler and the requests that come in between agree about every stream:
\* what is still to be put on it, and whether and how it ends.
THEOREM StreamInvariant == OnceSpec => []LifeInv
<1>1. EngineInit => LifeInv
  BY LifeInitInv
<1>2. LifeInv /\ [EngineNext /\ OneItemEach']_engineVars => LifeInv'
  BY LifeStepInv
<1> QED BY <1>1, <1>2, PTL DEF OnceSpec

-----------------------------------------------------------------------------
(* What a reader is offered. *)

\* The items up to the first that says the request was aborted.
LEMMA OfferedEnds ==
    ASSUME NEW q \in Seq(StreamItems), NEW item \in StreamItems
    PROVE  /\ (\A i \in DOMAIN q : q[i].reason # "abort") =>
                 Offered(q) = q /\ Offered(Append(q, item)) = Append(q, item)
           /\ (\E i \in DOMAIN q : q[i].reason = "abort") =>
                 Offered(Append(q, item)) = Offered(q)
<1> DEFINE p == Append(q, item)
           A(r) == {i \in DOMAIN r : r[i].reason = "abort"}
<1>1. /\ p \in Seq(StreamItems) /\ Len(q) \in Nat /\ Len(p) = Len(q) + 1
      /\ DOMAIN q = 1 .. Len(q) /\ DOMAIN p = 1 .. Len(q) + 1
      /\ \A i \in 1 .. Len(q) : p[i] = q[i]
      /\ p[Len(q) + 1] = item
  OBVIOUS
<1>2. Offered(q) = IF A(q) = {} THEN q ELSE SubSeq(q, 1, Min(A(q)))
  BY DEF Offered
<1>3. Offered(p) = IF A(p) = {} THEN p ELSE SubSeq(p, 1, Min(A(p)))
  BY DEF Offered
<1> HIDE DEF p
<1>4. A(q) \in SUBSET Nat /\ A(p) \in SUBSET Nat /\ A(q) \subseteq A(p)
      /\ \A i \in A(p) : i \in A(q) \/ i = Len(q) + 1
  BY <1>1
<1>5. ASSUME \A i \in DOMAIN q : q[i].reason # "abort"
      PROVE  Offered(q) = q /\ Offered(p) = p
  <2>1. A(q) = {}
    BY <1>5
  <2>2. CASE A(p) = {}
    BY <1>2, <1>3, <2>1, <2>2
  <2>3. CASE A(p) # {}
    <3>1. Len(q) + 1 \in A(p) /\ \A i \in A(p) : Len(q) + 1 <= i
      BY <1>1, <1>4, <2>1, <2>3
    <3>2. Min(A(p)) = Len(q) + 1
      BY <1>4, <3>1, MinIsLeast
    <3>3. SubSeq(p, 1, Len(p)) = p
      BY <1>1
    <3> QED BY <1>1, <1>2, <1>3, <2>1, <2>3, <3>2, <3>3
  <2> QED BY <2>2, <2>3
<1>6. ASSUME NEW i \in DOMAIN q, q[i].reason = "abort"
      PROVE  Offered(p) = Offered(q)
  <2>1. A(q) # {} /\ A(p) # {}
    BY <1>4, <1>6
  <2>2. PICK m \in A(q) : \A y \in A(q) : m <= y
    <3> HIDE DEF A
    <3> QED BY <1>4, <2>1, LeastExists
  <2>3. m \in 1 .. Len(q) /\ m \in A(p) /\ \A y \in A(p) : m <= y
    <3>1. m \in 1 .. Len(q) /\ m \in A(p)
      BY <1>1, <1>4
    <3> QED BY <1>1, <1>4, <2>2, <3>1
  <2>4. Min(A(q)) = m /\ Min(A(p)) = m
    BY <1>4, <2>2, <2>3, MinIsLeast
  <2>5. SubSeq(p, 1, m) = SubSeq(q, 1, m)
    BY <1>1, <2>3
  <2> QED BY <1>2, <1>3, <2>1, <2>4, <2>5
<1> QED BY <1>5, <1>6 DEF p

\* max_tokens, max_model_len and the prompt's length make one limit.
LEMMA LimitIsTooLong ==
    ASSUME LifeInv, NEW s \in Seqs
    PROVE  /\ AnswerLimit(s) \in 1 .. MaxOutput + MaxModelLen + 1
           /\ s \in known /\ Len(output[s]) >= 1 =>
                 (Len(output[s]) >= AnswerLimit(s) <=> TooLong(s))
<1>1. /\ MaxOutput \in Nat /\ MaxModelLen \in Nat /\ PromptLen(s) \in Nat
      /\ Len(output[s]) \in Nat /\ TotalLen(s) = PromptLen(s) + Len(output[s])
  <2>1. PoolTypeOK
    BY DEF LifeInv, OnceInv, EngineInv, PoolInv
  <2>2. output[s] \in Seq(Tokens) /\ PromptLen(s) \in Nat
    BY <2>1, RoomFacts DEF PoolTypeOK
  <2> QED BY <2>2, BlockConstants, EngineConstants DEF TotalLen, PromptLen
<1>2. /\ Max({1, MaxOutput}) = IF 1 >= MaxOutput THEN 1 ELSE MaxOutput
      /\ Max({1, MaxModelLen - PromptLen(s)}) =
            IF 1 >= MaxModelLen - PromptLen(s) THEN 1 ELSE MaxModelLen - PromptLen(s)
  BY <1>1, MaxOfTwo
<1>3. s \in known => PromptLen(s) < MaxModelLen
  BY DEF LifeInv, RequestsOK
<1> DEFINE a == AnswerLimit(s)
           o == Len(output[s])
           p == PromptLen(s)
<1>4. a = IF MaxModelLen < p + MaxOutput
          THEN IF 1 >= MaxModelLen - p THEN 1 ELSE MaxModelLen - p
          ELSE IF 1 >= MaxOutput THEN 1 ELSE MaxOutput
  BY <1>2 DEF AnswerLimit
<1>5. TooLong(s) <=> o >= MaxOutput \/ p + o >= MaxModelLen
  BY <1>1 DEF TooLong
<1> HIDE DEF a, o, p
<1>6. a \in 1 .. MaxOutput + MaxModelLen + 1
  BY <1>1, <1>4 DEF p
<1>7. p < MaxModelLen /\ o >= 1 => (o >= a <=> o >= MaxOutput \/ p + o >= MaxModelLen)
  BY <1>1, <1>4 DEF p, o
<1> QED BY <1>3, <1>5, <1>6, <1>7 DEF a, o, p

-----------------------------------------------------------------------------
(* The refinement, step by step. *)

Alive == pc \notin EndPcs

\* A step that a reader of a stream does not see.
LEMMA StutterMaps ==
    ASSUME prompt' = prompt, known' = known, Alive' <=> Alive,
           \A s \in Seqs : Offered(stream'[s]) = Offered(stream[s])
    PROVE  UNCHANGED Life!lifeVars
<1>1. \A s \in Seqs : AnswerLimit(s)' = AnswerLimit(s)
  BY DEF AnswerLimit, PromptLen
<1>2. [s \in Seqs |-> AnswerLimit(s)]' = [s \in Seqs |-> AnswerLimit(s)]
  BY <1>1
<1>3. [s \in Seqs |-> Offered(stream[s])]' = [s \in Seqs |-> Offered(stream[s])]
  BY DEF Offered
<1>4. (pc \notin {"stopped", "crashed"})' = (pc \notin {"stopped", "crashed"})
  BY DEF Alive, EndPcs
<1> QED BY <1>2, <1>3, <1>4 DEF Life!lifeVars

\* The end of the run loop.
LEMMA EndMaps ==
    ASSUME prompt' = prompt, UNCHANGED <<stream, known>>, Alive, ~Alive'
    PROVE  Life!LoopEnds
<1>1. \A s \in Seqs : AnswerLimit(s)' = AnswerLimit(s)
  BY DEF AnswerLimit, PromptLen
<1>2. [s \in Seqs |-> AnswerLimit(s)]' = [s \in Seqs |-> AnswerLimit(s)]
  BY <1>1
<1>3. [s \in Seqs |-> Offered(stream[s])]' = [s \in Seqs |-> Offered(stream[s])]
  BY DEF Offered
<1>4. (pc \notin {"stopped", "crashed"})' = FALSE /\ (pc \notin {"stopped", "crashed"}) = TRUE
  BY DEF Alive, EndPcs
<1> QED BY <1>2, <1>3, <1>4 DEF Life!LoopEnds

LEMMA SubmitMaps ==
    ASSUME LifeInv, NEW s \in Seqs, AddRequest(s)
    PROVE  Life!Submit(s)
<1>1. /\ status[s] = "NONE" /\ stream' = stream /\ known' = known \cup {s}
      /\ UNCHANGED <<prompt, pc>>
  BY DEF AddRequest, Add, poolVars, seqVars
<1>2. stream[s] = <<>> /\ s \notin known
  BY <1>1 DEF LifeInv, RequestsOK, OnceInv, EngineInv, KnownOK
<1>3. Offered(stream[s]) = <<>>
  BY <1>2, EmptySeq DEF Offered
<1>4. [r \in Seqs |-> AnswerLimit(r)]' = [r \in Seqs |-> AnswerLimit(r)]
  <2>1. \A r \in Seqs : AnswerLimit(r)' = AnswerLimit(r)
    BY <1>1 DEF AnswerLimit, PromptLen
  <2> QED BY <2>1
<1>5. [r \in Seqs |-> Offered(stream[r])]' = [r \in Seqs |-> Offered(stream[r])]
  BY <1>1 DEF Offered
<1> QED BY <1>1, <1>2, <1>3, <1>4, <1>5 DEF Life!Submit, Life!Made

LEMMA AbortMaps ==
    ASSUME LifeInv, OutsideStep, NEW s \in Seqs, Abort(s)
    PROVE  Life!AbortRequest(s)
<1>0. /\ EngineData /\ stream \in [Seqs -> Seq(StreamItems)]
  BY DEF LifeInv, OnceInv, EngineInv, EngineData
<1> DEFINE item == StreamItem(<<>>, TRUE, "abort")
<1>1. /\ s \in known /\ known' = known \ {s} /\ item \in StreamItems /\ Put(s, item)
      /\ UNCHANGED <<prompt, pc>>
  <2>1. s \in known /\ UNCHANGED pc
    BY DEF Abort, AbortWaiting, AbortRunning
  <2>2. prompt' = prompt
    BY OutsideFrame DEF LifeInv, OnceInv
  <2> QED BY <1>0, <2>1, <2>2, AbortPuts
<1>2. \A i \in DOMAIN stream[s] : stream[s][i].reason # "abort"
  BY <1>1 DEF LifeInv, RequestsOK, Aborted
<1>3. /\ stream'[s] = Append(stream[s], item)
      /\ \A r \in Seqs \ {s} : stream'[r] = stream[r]
  BY <1>0, <1>1, PutItem
<1>4. Offered(stream'[s]) = Append(Offered(stream[s]), item)
  BY <1>0, <1>1, <1>2, <1>3, OfferedEnds
<1>5. [r \in Seqs |-> Offered(stream'[r])] =
         [[r \in Seqs |-> Offered(stream[r])] EXCEPT ![s] = Append(@, item)]
  BY <1>3, <1>4
<1>6. [r \in Seqs |-> AnswerLimit(r)]' = [r \in Seqs |-> AnswerLimit(r)]
  <2>1. \A r \in Seqs : AnswerLimit(r)' = AnswerLimit(r)
    BY <1>1 DEF AnswerLimit, PromptLen
  <2> QED BY <2>1
<1>7. [r \in Seqs |-> Offered(stream[r])]' =
         [[r \in Seqs |-> Offered(stream[r])] EXCEPT ![s] = Append(@, item)]
  BY <1>5 DEF Offered
<1>8. item = Life!AbortItem
  BY DEF Life!AbortItem, Life!StreamItem, StreamItem
<1> HIDE DEF item
<1> QED BY <1>1, <1>6, <1>7, <1>8 DEF Life!AbortRequest

\* The item that is put for a token says what the caller was promised.
LEMMA ItemIsNext ==
    ASSUME LifeInv, EmitItem, Current \in DOMAIN newTokens, ~Aborted(Current)
    PROVE  /\ Current \in known
           /\ Offered(stream[Current]) = stream[Current]
           /\ Life!NextItem(Current, newTokens[Current]) = ItemFor(Current)
<1> DEFINE c == Current
           t == newTokens[Current]
<1>1. /\ c \in Seqs /\ c \in known /\ pc = "emit" /\ c \in DOMAIN newTokens
      /\ stream[c] \in Seq(StreamItems) /\ EngineInv
  BY EmitPuts, CurrentIsServed DEF LifeInv, OnceInv, EngineInv, EngineData
<1>2. Offered(stream[c]) = stream[c]
  <2>1. \A i \in DOMAIN stream[c] : stream[c][i].reason # "abort"
    BY DEF Aborted
  <2>2. ItemFor(Current) \in StreamItems
    BY <1>1, EmitPuts
  <2> QED BY <1>1, <2>1, <2>2, OfferedEnds
<1>3. Owed(c) /\ Settled(c)
  BY <1>1, EmitPays
<1>4. Len(output[c]) = Len(stream[c]) + 1 /\ Len(stream[c]) \in Nat
  <2>1. Len(output[c]) = Len(stream[c]) + (IF Owed(c) THEN 1 ELSE 0)
    BY <1>1 DEF LifeInv, SentOK, EndPcs
  <2> QED BY <1>1, <1>3, <2>1
<1>5. Len(stream[c]) + 1 >= AnswerLimit(c) <=> TooLong(c)
  BY <1>1, <1>4, LimitIsTooLong
<1>6. IF status[c] = "FINISHED"
      THEN ShouldStop(c, t) /\ finishReason[c] = StopReason(c)
      ELSE finishReason[c] = "none" /\ ~ShouldStop(c, t)
  BY <1>1, <1>3 DEF LifeInv, FinishOK, EndPcs
<1>7. /\ IsDone(c) <=> TooLong(c) \/ t \in StopTokens
      /\ finishReason[c] = IF TooLong(c) THEN "length"
                           ELSE IF t \in StopTokens THEN "stop" ELSE "none"
  BY <1>6 DEF IsDone, ShouldStop, StopReason
<1>8. Life!NextItem(c, t) =
         Life!StreamItem(<<t>>, TooLong(c) \/ t \in StopTokens,
                         IF TooLong(c) THEN "length"
                         ELSE IF t \in StopTokens THEN "stop" ELSE "none")
  <2>1. /\ [s \in Seqs |-> Offered(stream[s])][c] = stream[c]
        /\ [s \in Seqs |-> AnswerLimit(s)][c] = AnswerLimit(c)
        /\ [s \in Seqs |-> StopTokens][c] = StopTokens
    BY <1>1, <1>2
  <2> HIDE DEF c, t
  <2>2. (Len([s \in Seqs |-> Offered(stream[s])][c]) + 1 >= [s \in Seqs |-> AnswerLimit(s)][c])
          <=> TooLong(c)
    BY <1>5, <2>1
  <2> QED BY <2>1, <2>2 DEF Life!NextItem, Life!StreamItem
<1>9. (TooLong(c) \/ t \in StopTokens) = IsDone(c)
  BY <1>7 DEF IsDone, TooLong
<1> QED BY <1>1, <1>2, <1>7, <1>8, <1>9 DEF ItemFor, StreamItem, Life!StreamItem

LEMMA EmitMaps ==
    ASSUME LifeInv, EmitItem
    PROVE  Life!LifeNext \/ UNCHANGED Life!lifeVars
<1> DEFINE c == Current
<1>0. /\ EngineInv /\ EngineData /\ stream \in [Seqs -> Seq(StreamItems)] /\ known \subseteq Seqs
      /\ OutsideStep
  BY DEF LifeInv, OnceInv, EngineInv, EngineData, OutsideStep, SendStep
<1>1. /\ c \in Seqs /\ pc = "emit" /\ pc' = pc /\ prompt' = prompt
  BY <1>0, EmitPuts
<1>2. CASE c \notin DOMAIN newTokens
  <2>1. UNCHANGED <<stream, known>>
    BY <1>0, <1>2, EmitPuts
  <2> QED BY <1>1, <2>1, StutterMaps DEF Alive
<1>3. CASE c \in DOMAIN newTokens /\ Aborted(c)
  <2>1. c \notin known
    BY <1>1, <1>3 DEF LifeInv, RequestsOK
  <2>2. known' = known
    BY <1>0, <1>3, <2>1, EmitPuts
  <2>3. /\ stream'[c] = Append(stream[c], ItemFor(c)) /\ ItemFor(c) \in StreamItems
        /\ \A r \in Seqs \ {c} : stream'[r] = stream[r]
    BY <1>0, <1>1, <1>3, EmitPuts, PutItem
  <2>4. Offered(stream'[c]) = Offered(stream[c])
    BY <1>0, <1>1, <1>3, <2>3, OfferedEnds DEF Aborted
  <2>5. \A s \in Seqs : Offered(stream'[s]) = Offered(stream[s])
    BY <2>3, <2>4
  <2> QED BY <1>1, <2>2, <2>5, StutterMaps DEF Alive
<1>4. CASE c \in DOMAIN newTokens /\ ~Aborted(c)
  <2> DEFINE token == [x \in {c} |-> newTokens[c]]
             offered == [r \in Seqs |-> Offered(stream[r])]
  <2>1. /\ c \in known /\ Offered(stream[c]) = stream[c]
        /\ Life!NextItem(c, newTokens[c]) = ItemFor(c)
    BY <1>4, ItemIsNext
  <2>2. /\ stream'[c] = Append(stream[c], ItemFor(c)) /\ ItemFor(c) \in StreamItems
        /\ \A r \in Seqs \ {c} : stream'[r] = stream[r]
        /\ newTokens[c] \in Tokens /\ ItemFor(c).finished = IsDone(c)
        /\ known' = IF IsDone(c) THEN known \ {c} ELSE known
    BY <1>0, <1>1, <1>4, EmitPuts, PutItem
  <2>3. Offered(stream'[c]) = Append(stream[c], ItemFor(c))
    BY <1>0, <1>1, <1>4, <2>2, OfferedEnds DEF Aborted
  <2>4. [r \in Seqs |-> Offered(stream'[r])] =
           [r \in Seqs |-> IF r \in {c} THEN Append(offered[r], ItemFor(c)) ELSE offered[r]]
    BY <1>1, <2>1, <2>2, <2>3
  <2>5. known' = {r \in known : r \in {c} => ~ItemFor(c).finished}
    BY <2>1, <2>2
  <2>6. [r \in Seqs |-> AnswerLimit(r)]' = [r \in Seqs |-> AnswerLimit(r)]
    <3>1. \A r \in Seqs : AnswerLimit(r)' = AnswerLimit(r)
      BY <1>1 DEF AnswerLimit, PromptLen
    <3> QED BY <3>1
  <2>7. token \in [{c} -> Tokens] /\ token[c] = newTokens[c] /\ {c} \in SUBSET known
    BY <2>1, <2>2
  <2>8. /\ [r \in Seqs |-> Offered(stream[r])]' =
             [r \in Seqs |-> IF r \in {c} THEN Append(offered[r], Life!NextItem(r, token[r]))
                             ELSE offered[r]]
        /\ known' = {r \in known : r \in {c} => ~Life!NextItem(r, token[r]).finished}
    <3>1. \A r \in Seqs : r \in {c} => Life!NextItem(r, token[r]) = ItemFor(c)
      BY <2>1, <2>7
    <3>2. \A r \in Seqs : Offered(stream[r])' = Offered(stream'[r])
      BY DEF Offered
    <3> HIDE DEF token
    <3>3. [r \in Seqs |-> Offered(stream[r])]' =
             [r \in Seqs |-> IF r \in {c} THEN Append(offered[r], Life!NextItem(r, token[r]))
                             ELSE offered[r]]
      BY <2>4, <3>1, <3>2
    <3>4. known' = {r \in known : r \in {c} => ~Life!NextItem(r, token[r]).finished}
      BY <1>0, <2>5, <3>1
    <3> QED BY <3>3, <3>4
  <2>9. Life!Serve({c}, token)
    <3> HIDE DEF token, c
    <3>1. (pc \notin {"stopped", "crashed"})' = (pc \notin {"stopped", "crashed"})
      BY <1>1
    <3>2. pc \notin {"stopped", "crashed"}
      BY <1>1
    <3> QED BY <2>6, <2>7, <2>8, <3>1, <3>2 DEF Life!Serve
  <2> QED BY <2>7, <2>9 DEF Life!LifeNext
<1> QED BY <1>2, <1>3, <1>4

\* Once the run loop has ended it stays so.
LEMMA LoopStaysEnded ==
    ASSUME EngineInv, OutsideStep, pc \in EndPcs
    PROVE  pc' = pc
<1>1. ~RegisterIndexError
  BY DEF EngineInv, EngineStepOK, EndPcs, RequestPcs, RegisterIndexError
<1> QED BY <1>1 DEF OutsideStep, PoolCall, RequestStep, AddRequest, Add, Abort,
     AbortWaiting, AbortRunning, Shutdown, schedulerVars, stepVars, MoveStep, LoopExit,
     WaitForWork, Woken, WaitTimeout, ShutdownTimeout, AtAwait, Starved, Resume, Goto,
     ForwardStep, SubmitForward, ForwardDone, Count, CountItem, SampleAll, ApplyStep,
     ApplyToken, ApplyRegister, ApplyStop, ApplyKeep, ApplyEnd, SendStep, FreeFinished,
     FreeEnd, EmitItem, EmitEnd, LoopDies, EndPcs

LEMMA StepMaps ==
    ASSUME LifeInv, [EngineNext /\ OneItemEach']_engineVars
    PROVE  [Life!LifeNext]_(Life!lifeVars)
<1>0. EngineInv
  BY DEF LifeInv, OnceInv
<1>1. CASE UNCHANGED engineVars
  <2>1. UNCHANGED <<prompt, stream, known, pc>>
    BY <1>1 DEF engineVars, schedulerVars, poolVars, seqVars, stepVars, requestVars
  <2> QED BY <2>1, StutterMaps DEF Alive, Offered
<1>2. CASE InsideStep
  <2>1. /\ UNCHANGED <<prompt, stream, known>>
        /\ pc \in SchedulePcs /\ pc' \in SchedulePcs
    BY <1>0, <1>2, InsideFrame
  <2>2. Alive' /\ Alive
    BY <2>1 DEF Alive, SchedulePcs, EndPcs
  <2> QED BY <2>1, <2>2, StutterMaps DEF Offered
<1>3. CASE OutsideStep
  <2>1. CASE UNCHANGED <<stream, known>>
    <3>1. prompt' = prompt
      BY <1>0, <1>3, OutsideFrame
    <3>2. ~Alive => ~Alive'
      BY <1>0, <1>3, LoopStaysEnded DEF Alive
    <3>3. \A s \in Seqs : Offered(stream'[s]) = Offered(stream[s])
      BY <2>1
    <3>4. CASE Alive /\ ~Alive'
      BY <2>1, <3>1, <3>4, EndMaps DEF Life!LifeNext
    <3>5. CASE Alive' <=> Alive
      BY <2>1, <3>1, <3>3, <3>5, StutterMaps
    <3> QED BY <3>2, <3>4, <3>5
  <2>2. ASSUME NEW s \in Seqs, AddRequest(s) PROVE Life!LifeNext
    BY <2>2, SubmitMaps DEF Life!LifeNext
  <2>3. ASSUME NEW s \in Seqs, Abort(s) PROVE Life!LifeNext
    BY <1>3, <2>3, AbortMaps DEF Life!LifeNext
  <2>4. CASE EmitItem
    BY <2>4, EmitMaps
  <2> QED BY <1>0, <1>3, <2>1, <2>2, <2>3, <2>4, OutsideFrame
<1>4. EngineNext => InsideStep \/ OutsideStep
  BY DEF EngineNext, LoopStep, InsideStep, OutsideStep, RequestStep, MoveStep, ForwardStep,
     ApplyStep, SendStep
<1> QED BY <1>1, <1>2, <1>3, <1>4

LEMMA InitMaps == EngineInit => Life!LifeInit
<1> SUFFICES ASSUME EngineInit PROVE Life!LifeInit
  OBVIOUS
<1>1. /\ pc = "idle" /\ known = {} /\ stream = [s \in Seqs |-> <<>>]
  BY DEF EngineInit, SchedulerInit, QueuesInit
<1>2. [s \in Seqs |-> AnswerLimit(s)] \in [Seqs -> 1 .. MaxOutput + MaxModelLen + 1]
  <2>1. \A s \in Seqs : AnswerLimit(s) \in 1 .. MaxOutput + MaxModelLen + 1
    BY LifeInitInv, LimitIsTooLong
  <2> QED BY <2>1
<1>3. [s \in Seqs |-> StopTokens] \in [Seqs -> SUBSET Tokens]
  BY EngineConstants
<1>4. [s \in Seqs |-> Offered(stream[s])] = [s \in Seqs |-> <<>>]
  <2>1. Offered(<<>>) = <<>>
    BY EmptySeq DEF Offered
  <2> QED BY <1>1, <2>1
<1> QED BY <1>1, <1>2, <1>3, <1>4 DEF Life!LifeInit

\* The engine implements Lifecycle where no step schedules a sequence twice:
\* each request's stream is a run of tokens, one item each, to its limit, to a
\* stop token or to an abort, and the item that says so is its last, whatever
\* was batched, preempted or aborted under a running step on the way.
THEOREM EngineImplementsLifecycle == OnceSpec => ImplementsLifecycle
<1>1. LifeInv /\ [EngineNext /\ OneItemEach']_engineVars => [Life!LifeNext]_(Life!lifeVars)
  BY StepMaps
<1> QED BY <1>1, InitMaps, StreamInvariant, PTL DEF OnceSpec, ImplementsLifecycle, Life!LifeSpec

\* The same of CleanSpec, under which the runs check it.
THEOREM CleanEngineImplementsLifecycle == CleanSpec => ImplementsLifecycle
  BY EngineImplementsLifecycle, CleanIsOnce, PTL

-----------------------------------------------------------------------------
(***************************************************************************)
(* What a client was sent is the output, whatever the scheduler does: this *)
(* needs no OneItemEach.  A sequence that is scheduled twice is given its  *)
(* token twice and sent it twice.                                          *)
(***************************************************************************)

\* t, n times.
Copies(t, n) == [i \in 1 .. n |-> t]

LEMMA CopiesGrow ==
    ASSUME NEW S, NEW q \in Seq(S), NEW t \in S, NEW n \in Nat
    PROVE  /\ Append(q \o Copies(t, n), t) = q \o Copies(t, n + 1)
           /\ (q \o <<t>>) \o Copies(t, n) = q \o Copies(t, n + 1)
<1>1. \A k \in Nat : Copies(t, k) \in Seq(S) /\ Len(Copies(t, k)) = k
                     /\ \A i \in 1 .. k : Copies(t, k)[i] = t
  BY DEF Copies
<1>2. Copies(t, n) \in Seq(S) /\ <<t>> \in Seq(S)
  BY <1>1
<1>3. Append(Copies(t, n), t) = Copies(t, n + 1) /\ <<t>> \o Copies(t, n) = Copies(t, n + 1)
  BY <1>1 DEF Copies
<1>4. Append(q \o Copies(t, n), t) = (q \o Copies(t, n)) \o <<t>>
  BY <1>2, ConcatProperties, AppendIsConcat
<1>5. Append(Copies(t, n), t) = Copies(t, n) \o <<t>>
  BY <1>2, AppendIsConcat
<1>6. (q \o Copies(t, n)) \o <<t>> = q \o (Copies(t, n) \o <<t>>)
  BY <1>2, ConcatAssociative
<1>7. (q \o <<t>>) \o Copies(t, n) = q \o (<<t>> \o Copies(t, n))
  BY <1>2, ConcatAssociative
<1> QED BY <1>3, <1>4, <1>5, <1>6, <1>7

LEMMA NoCopies == \A t, q, S : q \in Seq(S) => q \o Copies(t, 0) = q
<1>1. \A t : Copies(t, 0) = <<>>
  BY DEF Copies
<1> QED BY <1>1

\* The tokens s was sent.
Said(s) == FlattenSeq([i \in DOMAIN stream[s] |-> stream[s][i].tokens])

LEMMA SaidTyped ==
    ASSUME EngineData, NEW s \in Seqs
    PROVE  Said(s) \in Seq(Tokens)
<1>1. /\ stream[s] \in Seq(StreamItems)
      /\ \A i \in DOMAIN stream[s] : stream[s][i] \in StreamItems
      /\ DOMAIN stream[s] = 1 .. Len(stream[s]) /\ Len(stream[s]) \in Nat
  BY DEF EngineData
<1>2. \A x \in StreamItems : x.tokens \in Seq(Tokens)
  BY DEF StreamItems, Hashes
<1>3. \A i \in 1 .. Len(stream[s]) : stream[s][i].tokens \in Seq(Tokens)
  BY <1>1, <1>2
<1>4. [i \in DOMAIN stream[s] |-> stream[s][i].tokens] \in Seq(Seq(Tokens))
  <2>1. [i \in 1 .. Len(stream[s]) |-> stream[s][i].tokens] \in Seq(Seq(Tokens))
    BY <1>1, <1>3
  <2> QED BY <1>1, <2>1
<1>5. <<>> \in Seq(Tokens)
  OBVIOUS
<1> QED BY <1>4, <1>5, FlattenAppend DEF Said

LEMMA SaidMore ==
    ASSUME EngineData, NEW s \in Seqs, NEW item \in StreamItems, Put(s, item)
    PROVE  /\ Said(s) \in Seq(Tokens)
           /\ Said(s)' = Said(s) \o item.tokens
           /\ \A r \in Seqs \ {s} : Said(r)' = Said(r)
<1>1. /\ stream'[s] = Append(stream[s], item)
      /\ \A r \in Seqs \ {s} : stream'[r] = stream[r]
      /\ stream[s] \in Seq(StreamItems)
  BY PutItem DEF EngineData
<1> DEFINE texts(q) == [i \in DOMAIN q |-> q[i].tokens]
<1>2. /\ item.tokens \in Seq(Tokens)
      /\ \A i \in DOMAIN stream[s] : stream[s][i].tokens \in Seq(Tokens)
  <2>1. \A x \in StreamItems : x.tokens \in Seq(Tokens)
    BY DEF StreamItems, Hashes
  <2>2. \A i \in DOMAIN stream[s] : stream[s][i] \in StreamItems
    BY <1>1
  <2> QED BY <2>1, <2>2
<1>3. texts(stream[s]) \in Seq(Seq(Tokens)) /\ DOMAIN stream[s] = 1 .. Len(stream[s])
      /\ Len(stream[s]) \in Nat
  <2>1. DOMAIN stream[s] = 1 .. Len(stream[s]) /\ Len(stream[s]) \in Nat
    BY <1>1
  <2>2. \A i \in 1 .. Len(stream[s]) : stream[s][i].tokens \in Seq(Tokens)
    BY <1>2, <2>1
  <2>3. [i \in 1 .. Len(stream[s]) |-> stream[s][i].tokens] \in Seq(Seq(Tokens))
    BY <2>1, <2>2
  <2> QED BY <2>1, <2>3
<1>4. texts(Append(stream[s], item)) = Append(texts(stream[s]), item.tokens)
  <2> DEFINE p == Append(stream[s], item)
  <2>1. /\ DOMAIN p = 1 .. Len(stream[s]) + 1
        /\ \A i \in 1 .. Len(stream[s]) : p[i] = stream[s][i]
        /\ p[Len(stream[s]) + 1] = item
    BY <1>1
  <2> HIDE DEF p
  <2>2. /\ DOMAIN texts(p) = 1 .. Len(stream[s]) + 1
        /\ \A i \in 1 .. Len(stream[s]) : texts(p)[i] = texts(stream[s])[i]
        /\ texts(p)[Len(stream[s]) + 1] = item.tokens
    BY <1>3, <2>1
  <2>3. texts(p) = [i \in 1 .. Len(stream[s]) + 1 |-> texts(p)[i]]
    BY <2>2
  <2>4. Len(texts(stream[s])) = Len(stream[s])
    BY <1>3
  <2> HIDE DEF texts
  <2>5. Append(texts(stream[s]), item.tokens) =
           [i \in 1 .. Len(stream[s]) + 1 |->
               IF i = Len(stream[s]) + 1 THEN item.tokens ELSE texts(stream[s])[i]]
    BY <1>3, <2>4
  <2>6. \A i \in 1 .. Len(stream[s]) + 1 : i # Len(stream[s]) + 1 => i \in 1 .. Len(stream[s])
    BY <1>3
  <2>7. [i \in 1 .. Len(stream[s]) + 1 |-> texts(p)[i]] =
           [i \in 1 .. Len(stream[s]) + 1 |->
               IF i = Len(stream[s]) + 1 THEN item.tokens ELSE texts(stream[s])[i]]
    BY <2>2, <2>6
  <2>8. texts(p) = Append(texts(stream[s]), item.tokens)
    BY <2>3, <2>5, <2>7
  <2> QED BY <2>8 DEF p
<1>5. /\ Said(s) = FlattenSeq(texts(stream[s]))
      /\ Said(s)' = FlattenSeq(texts(stream'[s]))
      /\ \A r \in Seqs \ {s} : Said(r)' = FlattenSeq(texts(stream'[r]))
      /\ \A r \in Seqs \ {s} : Said(r) = FlattenSeq(texts(stream[r]))
  BY DEF Said
<1>6. /\ FlattenSeq(texts(stream[s])) \in Seq(Tokens)
      /\ FlattenSeq(Append(texts(stream[s]), item.tokens)) =
            FlattenSeq(texts(stream[s])) \o item.tokens
  BY <1>2, <1>3, FlattenAppend
<1> QED BY <1>1, <1>4, <1>5, <1>6

LEMMA SaidStays ==
    ASSUME stream' = stream
    PROVE  \A s \in Seqs : Said(s)' = Said(s)
BY DEF Said

-----------------------------------------------------------------------------
(* What of a step is applied and what of it is sent. *)

\* rest is what is left of scheduled.
RestIsSuffix ==
    pc \in {"count", "apply", "register", "check", "emit"} =>
        /\ Len(rest) <= Len(scheduled)
        /\ \A i \in 1 .. Len(rest) : rest[i] = scheduled[(Len(scheduled) - Len(rest)) + i]

\* How many items of scheduled the loops have come to.
Applied ==
    IF pc \in {"register", "check"} THEN (Len(scheduled) - Len(rest)) + 1
    ELSE IF pc = "apply" THEN Len(scheduled) - Len(rest)
    ELSE IF pc \in {"free", "emit"} THEN Len(scheduled) ELSE 0

Sent == IF pc = "emit" THEN Len(scheduled) - Len(rest) ELSE 0

\* The items of s whose token is in its output and not yet on its stream.
Unpaid(s) ==
    {k \in Sent + 1 .. Applied : scheduled[k].seq = s /\ s \in DOMAIN newTokens}

OutputOK ==
    pc \notin EndPcs =>
        \A s \in Seqs :
            output[s] = Said(s) \o Copies(newTokens[s], Cardinality(Unpaid(s)))

OutputInv == EngineInv /\ RestIsSuffix /\ OutputOK

LEMMA SuffixSizes ==
    ASSUME EngineInv, RestIsSuffix
    PROVE  /\ rest \in Seq(Items) /\ scheduled \in Seq(Items)
           /\ Len(rest) \in Nat /\ Len(scheduled) \in Nat
           /\ Sent \in Nat /\ Applied \in Nat /\ Applied <= Len(scheduled)
           /\ rest # <<>> => 1 \in 1 .. Len(rest) /\ Head(rest) = rest[1]
           /\ pc = "emit" /\ rest # <<>> => Sent + 1 \in 1 .. Applied
           /\ pc \in {"register", "check"} => rest # <<>>
<1>1. /\ rest \in Seq(Items) /\ scheduled \in Seq(Items)
      /\ Len(rest) \in Nat /\ Len(scheduled) \in Nat
      /\ pc \in {"register", "check"} => rest # <<>>
  BY DEF EngineInv, QueueData, EngineStepOK
<1>2. rest # <<>> => Len(rest) >= 1 /\ Head(rest) = rest[1]
  BY <1>1, EmptySeq, HeadTail
<1>3. Sent \in Nat
  BY <1>1 DEF Sent, RestIsSuffix
<1>4. Applied \in Nat /\ Applied <= Len(scheduled)
  BY <1>1, <1>2 DEF Applied, RestIsSuffix
<1>5. pc = "emit" /\ rest # <<>> => Sent + 1 \in 1 .. Applied
  BY <1>1, <1>2 DEF Sent, Applied, RestIsSuffix
<1> QED BY <1>1, <1>2, <1>3, <1>4, <1>5

\* Taking the head off rest leaves a suffix.
LEMMA SuffixTail ==
    ASSUME EngineInv, RestIsSuffix, rest # <<>>, rest' = Tail(rest),
           scheduled' = scheduled,
           pc \in {"count", "apply", "register", "check", "emit"}
    PROVE  /\ RestIsSuffix'
           /\ Len(rest') = Len(rest) - 1
           /\ scheduled[(Len(scheduled) - Len(rest)) + 1] = Head(rest)
<1>1. /\ rest \in Seq(Items) /\ Len(rest) \in Nat /\ Len(scheduled) \in Nat
      /\ 1 \in 1 .. Len(rest) /\ Head(rest) = rest[1]
  BY SuffixSizes
<1>2. /\ Len(rest') = Len(rest) - 1
      /\ \A i \in 1 .. Len(rest) - 1 : rest'[i] = rest[i + 1]
  BY <1>1
<1>3. /\ Len(rest) <= Len(scheduled)
      /\ \A i \in 1 .. Len(rest) : rest[i] = scheduled[(Len(scheduled) - Len(rest)) + i]
  BY DEF RestIsSuffix
<1>4. \A i \in 1 .. Len(rest) - 1 :
          rest'[i] = scheduled[(Len(scheduled) - (Len(rest) - 1)) + i]
  <2> SUFFICES ASSUME NEW i \in 1 .. Len(rest) - 1
               PROVE  rest'[i] = scheduled[(Len(scheduled) - (Len(rest) - 1)) + i]
    OBVIOUS
  <2>1. /\ i + 1 \in 1 .. Len(rest)
        /\ (Len(scheduled) - Len(rest)) + (i + 1) = (Len(scheduled) - (Len(rest) - 1)) + i
    BY <1>1
  <2> QED BY <1>2, <1>3, <2>1
<1>5. RestIsSuffix'
  BY <1>1, <1>2, <1>3, <1>4 DEF RestIsSuffix
<1> QED BY <1>1, <1>2, <1>3, <1>5

\* A loop over scheduled begins with all of it.
LEMMA SuffixAll ==
    ASSUME scheduled \in Seq(Items), rest' = scheduled, scheduled' = scheduled
    PROVE  RestIsSuffix'
<1>1. Len(scheduled) \in Nat
  OBVIOUS
<1>2. \A i \in 1 .. Len(scheduled) :
          scheduled[i] = scheduled[(Len(scheduled) - Len(scheduled)) + i]
  BY <1>1
<1> QED BY <1>1, <1>2 DEF RestIsSuffix

\* Outside of the two steps that apply and send, both stay.
LEMMA UnpaidStays ==
    ASSUME EngineInv, RestIsSuffix, OutsideStep, ~ApplyToken, ~EmitItem, pc' \notin EndPcs
    PROVE  /\ RestIsSuffix'
           /\ \A s \in Seqs : \/ Unpaid(s)' = Unpaid(s) /\ newTokens' = newTokens
                              \/ Unpaid(s)' = {} /\ Unpaid(s) = {}
<1> DEFINE Same == \A s \in Seqs : \/ Unpaid(s)' = Unpaid(s) /\ newTokens' = newTokens
                                   \/ Unpaid(s)' = {} /\ Unpaid(s) = {}
<1>0. /\ rest \in Seq(Items) /\ scheduled \in Seq(Items)
      /\ Len(rest) \in Nat /\ Len(scheduled) \in Nat
  BY SuffixSizes
<1>1. ASSUME pc \notin ApplyPcs \cup {"count", "free", "emit"},
             pc' \notin ApplyPcs \cup {"count", "free", "emit"}
      PROVE  RestIsSuffix' /\ Same
  <2>1. Applied = 0 /\ Applied' = 0 /\ Sent = 0 /\ Sent' = 0
    BY <1>1 DEF Applied, Sent, ApplyPcs
  <2>2. \A s \in Seqs : Unpaid(s)' = {} /\ Unpaid(s) = {}
    BY <2>1 DEF Unpaid
  <2>3. RestIsSuffix'
    BY <1>1 DEF RestIsSuffix, ApplyPcs
  <2> QED BY <2>2, <2>3
<1>2. ASSUME UNCHANGED <<pc, rest, scheduled, newTokens>> PROVE RestIsSuffix' /\ Same
  BY <1>2 DEF RestIsSuffix, Unpaid, Applied, Sent
<1>3. CASE PoolCall
  BY <1>2, <1>3 DEF PoolCall, stepVars, stepResults
<1>4. CASE RequestStep
  <2>1. pc' = pc /\ pc \in {"forward", "yield", "pause", "waiting", "stopped", "crashed"}
    BY <1>4 DEF RequestStep, AddRequest, Add, Abort, AbortWaiting, AbortRunning, Shutdown,
       RequestsRun, AtAwait, schedulerVars, stepVars
  <2> QED BY <1>1, <2>1 DEF ApplyPcs
<1>5. CASE MoveStep
  <2>1. /\ pc \in {"idle", "waiting", "forward", "yield", "pause", "scheduled"}
        /\ pc' \in {"stopped", "waiting", "idle", "pause"}
    BY <1>5 DEF MoveStep, LoopExit, WaitForWork, Woken, WaitTimeout, ShutdownTimeout,
       AtAwait, Starved, Resume, Goto
  <2> QED BY <1>1, <2>1 DEF ApplyPcs
<1>6. CASE SubmitForward
  <2>1. pc = "scheduled" /\ pc' = "forward"
    BY <1>6 DEF SubmitForward
  <2> QED BY <1>1, <2>1 DEF ApplyPcs
<1>7. CASE ForwardDone
  <2>1. pc = "forward" /\ pc' = "count" /\ rest' = scheduled /\ scheduled' = scheduled
    BY <1>7 DEF ForwardDone
  <2>2. \A s \in Seqs : Unpaid(s)' = {} /\ Unpaid(s) = {}
    BY <2>1 DEF Unpaid, Applied, Sent
  <2> QED BY <1>0, <2>1, <2>2, SuffixAll
<1>8. CASE Count
  <2>1. /\ pc = "count" /\ pc' = "count" /\ rest # <<>> /\ rest' = Tail(rest)
        /\ scheduled' = scheduled
    BY <1>8 DEF Count, CountItem
  <2>2. \A s \in Seqs : Unpaid(s)' = {} /\ Unpaid(s) = {}
    BY <2>1 DEF Unpaid, Applied, Sent
  <2> QED BY <2>1, <2>2, SuffixTail
<1>9. CASE SampleAll
  <2>1. pc = "count" /\ pc' = "apply" /\ rest' = scheduled /\ scheduled' = scheduled
    BY <1>9 DEF SampleAll
  <2>2. \A s \in Seqs : Unpaid(s)' = {} /\ Unpaid(s) = {}
    BY <1>0, <2>1 DEF Unpaid, Applied, Sent
  <2> QED BY <1>0, <2>1, <2>2, SuffixAll
<1>10. CASE ApplyRegister
  <2>1. pc = "register" /\ pc' = "check" /\ UNCHANGED <<rest, scheduled, newTokens>>
    BY <1>10 DEF ApplyRegister, stepVars, stepResults
  <2> QED BY <2>1 DEF RestIsSuffix, Unpaid, Applied, Sent
<1>11. CASE ApplyStop \/ ApplyKeep
  <2>1. /\ pc = "check" /\ pc' = "apply" /\ rest' = Tail(rest)
        /\ scheduled' = scheduled /\ newTokens' = newTokens
    BY <1>11 DEF ApplyStop, ApplyKeep, stepResults
  <2>2. rest # <<>>
    BY <2>1, SuffixSizes
  <2>3. RestIsSuffix' /\ Len(rest') = Len(rest) - 1
    BY <2>1, <2>2, SuffixTail
  <2>4. /\ Applied' = Len(scheduled) - Len(rest')
        /\ Applied = (Len(scheduled) - Len(rest)) + 1
        /\ Sent = 0 /\ Sent' = 0
    BY <2>1 DEF Applied, Sent
  <2>5. Applied' = Applied
    BY <1>0, <2>3, <2>4
  <2> QED BY <2>1, <2>3, <2>4, <2>5 DEF Unpaid
<1>12. CASE ApplyEnd
  <2>1. /\ pc = "apply" /\ pc' = "free" /\ rest = <<>>
        /\ scheduled' = scheduled /\ newTokens' = newTokens
    BY <1>12 DEF ApplyEnd, stepVars
  <2>2. Applied' = Applied /\ Sent' = Sent
    BY <1>0, <2>1, EmptySeq DEF Applied, Sent
  <2> QED BY <2>1, <2>2 DEF Unpaid, RestIsSuffix
<1>13. CASE FreeFinished
  <2>1. pc = "free" /\ UNCHANGED <<pc, rest, scheduled, newTokens>>
    BY <1>13 DEF FreeFinished, stepVars
  <2> QED BY <1>2, <2>1
<1>14. CASE FreeEnd
  <2>1. /\ pc = "free" /\ pc' = "emit" /\ rest' = scheduled
        /\ scheduled' = scheduled /\ newTokens' = newTokens
    BY <1>14 DEF FreeEnd, stepResults
  <2>2. Applied' = Applied /\ Sent' = Sent
    BY <1>0, <2>1 DEF Applied, Sent
  <2> QED BY <1>0, <2>1, <2>2, SuffixAll DEF Unpaid
<1>15. CASE EmitEnd
  <2>1. pc = "emit" /\ rest = <<>> /\ pc' = "yield"
    BY <1>15 DEF EmitEnd
  <2>2. /\ Applied = Len(scheduled) /\ Sent = Len(scheduled)
        /\ Applied' = 0 /\ Sent' = 0
    BY <1>0, <2>1, EmptySeq DEF Applied, Sent
  <2>3. \A s \in Seqs : Unpaid(s)' = {} /\ Unpaid(s) = {}
    BY <1>0, <2>2 DEF Unpaid
  <2> QED BY <2>1, <2>3 DEF RestIsSuffix
<1>16. ~LoopDies
  BY DEF LoopDies, EndPcs
<1> QED BY <1>3, <1>4, <1>5, <1>6, <1>7, <1>8, <1>9, <1>10, <1>11, <1>12, <1>13, <1>14,
           <1>15, <1>16 DEF OutsideStep, ForwardStep, ApplyStep, SendStep

LEMMA ApplyGives ==
    ASSUME EngineInv, RestIsSuffix, ApplyToken
    PROVE  /\ RestIsSuffix' /\ Current \in Seqs
           /\ UNCHANGED <<stream, newTokens>>
           /\ pc \notin EndPcs
           /\ Current \notin DOMAIN newTokens => output' = output
           /\ Current \in DOMAIN newTokens =>
                 /\ newTokens[Current] \in Tokens
                 /\ output' = [output EXCEPT ![Current] = Append(@, newTokens[Current])]
           /\ Applied + 1 \notin Unpaid(Current)
           /\ \A s \in Seqs : Unpaid(s)' =
                 IF s = Current /\ s \in DOMAIN newTokens THEN Unpaid(s) \cup {Applied + 1}
                 ELSE Unpaid(s)
<1>0. /\ rest \in Seq(Items) /\ scheduled \in Seq(Items) /\ Len(rest) \in Nat
      /\ Len(scheduled) \in Nat /\ Applied \in Nat
  BY SuffixSizes
<1>1. /\ pc = "apply" /\ rest # <<>> /\ pc' = "register"
      /\ UNCHANGED <<stream, newTokens, rest, scheduled>>
      /\ IF Current \in DOMAIN newTokens
         THEN output' = [output EXCEPT ![Current] = Append(@, newTokens[Current])]
         ELSE output' = output
  BY DEF ApplyToken, AppendOutputToken, queueVars, stepVars, stepResults, requestVars
<1>2. Current \in Seqs
  BY <1>1, CurrentIsScheduled DEF ApplyPcs
<1>3. Current \in DOMAIN newTokens => newTokens[Current] \in Tokens
  BY DEF EngineInv, EngineData
<1>4. RestIsSuffix'
  BY <1>1 DEF RestIsSuffix
<1>5. Applied' = Applied + 1 /\ Sent = 0 /\ Sent' = 0
  BY <1>0, <1>1 DEF Applied, Sent
<1>6. scheduled[Applied + 1].seq = Current
  <2>1. /\ 1 \in 1 .. Len(rest) /\ Head(rest) = rest[1]
    BY <1>1, SuffixSizes
  <2>2. rest[1] = scheduled[(Len(scheduled) - Len(rest)) + 1]
    BY <1>1, <2>1 DEF RestIsSuffix
  <2> QED BY <1>1, <2>1, <2>2 DEF Applied, Current
<1>7. Applied + 1 \notin Unpaid(Current)
  BY <1>0, <1>5 DEF Unpaid
<1>8. ASSUME NEW s \in Seqs
      PROVE  Unpaid(s)' =
                 IF s = Current /\ s \in DOMAIN newTokens THEN Unpaid(s) \cup {Applied + 1}
                 ELSE Unpaid(s)
  <2>1. \A k : k \in 0 + 1 .. Applied + 1 <=> k \in 0 + 1 .. Applied \/ k = Applied + 1
    BY <1>0
  <2>2. Unpaid(s)' = {k \in 0 + 1 .. Applied + 1 : scheduled[k].seq = s /\ s \in DOMAIN newTokens}
    BY <1>1, <1>5 DEF Unpaid
  <2>3. Unpaid(s) = {k \in 0 + 1 .. Applied : scheduled[k].seq = s /\ s \in DOMAIN newTokens}
    BY <1>5 DEF Unpaid
  <2> QED BY <1>6, <2>1, <2>2, <2>3
<1> QED BY <1>1, <1>2, <1>3, <1>4, <1>7, <1>8 DEF EndPcs

LEMMA EmitGives ==
    ASSUME EngineInv, RestIsSuffix, EmitItem
    PROVE  /\ RestIsSuffix' /\ Sent + 1 \in 1 .. Applied
           /\ Current \in DOMAIN newTokens => Sent + 1 \in Unpaid(Current)
           /\ \A s \in Seqs : Unpaid(s)' =
                 IF s = Current /\ s \in DOMAIN newTokens THEN Unpaid(s) \ {Sent + 1}
                 ELSE Unpaid(s)
<1>1. /\ Current \in Seqs /\ rest \in Seq(Items) /\ rest # <<>> /\ pc = "emit"
      /\ UNCHANGED <<scheduled, newTokens, pc>> /\ rest' = Tail(rest)
  BY EmitPuts
<1>2. /\ Len(rest) \in Nat /\ Len(scheduled) \in Nat /\ Sent \in Nat /\ Applied \in Nat
      /\ Sent + 1 \in 1 .. Applied
  BY <1>1, SuffixSizes
<1>3. RestIsSuffix' /\ Len(rest') = Len(rest) - 1 /\ scheduled[Sent + 1].seq = Current
  BY <1>1, SuffixTail DEF Sent, Current
<1>4. Applied' = Applied /\ Sent' = Sent + 1
  BY <1>1, <1>2, <1>3 DEF Applied, Sent
<1>5. Current \in DOMAIN newTokens => Sent + 1 \in Unpaid(Current)
  BY <1>2, <1>3 DEF Unpaid
<1>6. ASSUME NEW s \in Seqs
      PROVE  Unpaid(s)' =
                 IF s = Current /\ s \in DOMAIN newTokens THEN Unpaid(s) \ {Sent + 1}
                 ELSE Unpaid(s)
  <2>1. \A k : k \in Sent + 1 + 1 .. Applied <=> k \in Sent + 1 .. Applied /\ k # Sent + 1
    BY <1>2
  <2>2. Unpaid(s)' = {k \in Sent + 1 + 1 .. Applied :
                         scheduled[k].seq = s /\ s \in DOMAIN newTokens}
    BY <1>1, <1>4 DEF Unpaid
  <2> QED BY <1>3, <2>1, <2>2 DEF Unpaid
<1> QED BY <1>2, <1>3, <1>5, <1>6

LEMMA UnpaidIsFinite ==
    ASSUME EngineInv, RestIsSuffix, NEW s \in Seqs
    PROVE  IsFiniteSet(Unpaid(s)) /\ Cardinality(Unpaid(s)) \in Nat
<1>1. IsFiniteSet(Sent + 1 .. Applied)
  BY SuffixSizes, FS_Interval
<1>2. IsFiniteSet(Unpaid(s))
  BY <1>1, FS_Subset DEF Unpaid
<1> QED BY <1>2, FS_CardinalityType

\* The text sent and the tokens owed make the output.
SettledUp(s) == output[s] = Said(s) \o Copies(newTokens[s], Cardinality(Unpaid(s)))

LEMMA OutsideOutput ==
    ASSUME OutputInv, OutsideStep, pc' \notin EndPcs, NEW s \in Seqs
    PROVE  SettledUp(s)'
<1>0. /\ EngineInv /\ EngineData /\ RestIsSuffix /\ OutputOK
      /\ output \in [Seqs -> Seq(Tokens)] /\ output[s] \in Seq(Tokens)
  BY DEF OutputInv, EngineInv, PoolInv, PoolTypeOK
<1> DEFINE n == Cardinality(Unpaid(s))
           t == newTokens[s]
<1>1. /\ n \in Nat /\ IsFiniteSet(Unpaid(s))
      /\ pc \notin EndPcs => SettledUp(s)
  BY <1>0, UnpaidIsFinite DEF OutputOK, SettledUp
<1>2. Said(s) \in Seq(Tokens)
  BY <1>0, SaidTyped
<1>3. CASE ApplyToken
  <2>1. /\ pc \notin EndPcs /\ Said(s)' = Said(s) /\ newTokens' = newTokens
    BY <1>0, <1>3, ApplyGives, SaidStays
  <2>2. CASE s = Current /\ s \in DOMAIN newTokens
    <3>1. /\ output'[s] = Append(output[s], t) /\ t \in Tokens
          /\ Unpaid(s)' = Unpaid(s) \cup {Applied + 1} /\ Applied + 1 \notin Unpaid(s)
      BY <1>0, <1>3, <2>2, ApplyGives
    <3>2. Cardinality(Unpaid(s))' = n + 1
      BY <1>1, <3>1, FS_AddElement
    <3>3. output[s] = Said(s) \o Copies(t, n)
      BY <1>1, <2>1 DEF SettledUp
    <3> HIDE DEF n, t
    <3>4. Append(Said(s) \o Copies(t, n), t) = Said(s) \o Copies(t, n + 1)
      BY <1>1, <1>2, <3>1, CopiesGrow
    <3> QED BY <2>1, <3>1, <3>2, <3>3, <3>4 DEF SettledUp, t
  <2>3. CASE ~(s = Current /\ s \in DOMAIN newTokens)
    <3>1. output'[s] = output[s] /\ Unpaid(s)' = Unpaid(s)
      BY <1>0, <1>3, <2>3, ApplyGives
    <3> QED BY <1>1, <2>1, <3>1 DEF SettledUp
  <2> QED BY <2>2, <2>3
<1>4. CASE EmitItem
  <2>1. /\ pc \notin EndPcs /\ output' = output /\ newTokens' = newTokens
    BY <1>0, <1>4, EmitPuts DEF EndPcs
  <2>2. CASE s = Current /\ s \in DOMAIN newTokens
    <3>1. /\ Said(s)' = Said(s) \o <<t>> /\ t \in Tokens
      BY <1>0, <1>4, <2>2, EmitPuts, SaidMore
    <3>2. /\ Unpaid(s)' = Unpaid(s) \ {Sent + 1} /\ Sent + 1 \in Unpaid(s)
      BY <1>0, <1>4, <2>2, EmitGives
    <3>3. /\ Cardinality(Unpaid(s))' = n - 1 /\ n # 0
      BY <1>1, <3>2, FS_RemoveElement, FS_EmptySet
    <3>4. n - 1 \in Nat /\ n = (n - 1) + 1
      BY <1>1, <3>3
    <3> HIDE DEF n, t
    <3>5. output[s] = Said(s) \o Copies(t, (n - 1) + 1)
      BY <1>1, <2>1, <3>4 DEF SettledUp, n, t
    <3>6. output[s] = (Said(s) \o <<t>>) \o Copies(t, n - 1)
      BY <1>2, <3>1, <3>4, <3>5, CopiesGrow
    <3> QED BY <2>1, <3>1, <3>3, <3>6 DEF SettledUp, t
  <2>3. CASE ~(s = Current /\ s \in DOMAIN newTokens)
    <3>1. Said(s)' = Said(s)
      <4>1. CASE Current \in DOMAIN newTokens
        BY <1>0, <1>4, <2>3, <4>1, EmitPuts, SaidMore
      <4>2. CASE Current \notin DOMAIN newTokens
        BY <1>0, <1>4, <4>2, EmitPuts, SaidStays
      <4> QED BY <4>1, <4>2
    <3>2. Unpaid(s)' = Unpaid(s)
      BY <1>0, <1>4, <2>3, EmitGives
    <3> QED BY <1>1, <2>1, <3>1, <3>2 DEF SettledUp
  <2> QED BY <2>2, <2>3
<1>5. CASE ~ApplyToken /\ ~EmitItem
  <2>1. /\ output' = output
        /\ \/ Unpaid(s)' = Unpaid(s) /\ newTokens' = newTokens
           \/ Unpaid(s)' = {} /\ Unpaid(s) = {}
    BY <1>0, <1>5, OutsideFrame, UnpaidStays
  <2>2. pc \notin EndPcs
    BY <1>0, LoopStaysEnded
  <2>3. Said(s)' = Said(s)
    <3>1. ASSUME NEW r \in Seqs, Abort(r) PROVE Said(s)' = Said(s)
      <4>1. StreamItem(<<>>, TRUE, "abort").tokens = <<>>
        BY DEF StreamItem
      <4>2. s = r => Said(s)' = Said(s) \o <<>>
        BY <1>0, <3>1, <4>1, AbortPuts, SaidMore
      <4>3. s # r => Said(s)' = Said(s)
        BY <1>0, <3>1, AbortPuts, SaidMore
      <4>4. Said(s) \o <<>> = Said(s)
        BY <1>2
      <4> QED BY <4>2, <4>3, <4>4
    <3>2. ASSUME NEW r \in Seqs, AddRequest(r) PROVE Said(s)' = Said(s)
      BY <3>2, SaidStays DEF AddRequest
    <3> QED BY <1>0, <1>5, <3>1, <3>2, OutsideFrame, SaidStays
  <2>4. CASE Unpaid(s)' = Unpaid(s) /\ newTokens' = newTokens
    BY <1>1, <2>1, <2>2, <2>3, <2>4 DEF SettledUp
  <2>5. CASE Unpaid(s)' = {} /\ Unpaid(s) = {}
    <3>1. Cardinality(Unpaid(s)) = 0 /\ Cardinality(Unpaid(s))' = 0
      BY <2>5, FS_EmptySet
    <3>2. output[s] = Said(s) \o Copies(newTokens[s], 0)
      BY <1>1, <2>2, <3>1 DEF SettledUp
    <3>3. output'[s] = Said(s)' \o Copies(newTokens'[s], 0)
      BY <1>2, <2>1, <2>3, <3>2, NoCopies
    <3> QED BY <3>1, <3>3 DEF SettledUp
  <2> QED BY <2>1, <2>4, <2>5
<1> QED BY <1>3, <1>4, <1>5

LEMMA OutputStep ==
    ASSUME OutputInv, [EngineNext]_engineVars
    PROVE  OutputInv'
<1>0. EngineInv /\ RestIsSuffix /\ OutputOK
  BY DEF OutputInv
<1>1. EngineInv'
  BY <1>0, EngineStepInv
<1>2. CASE UNCHANGED engineVars
  <2>1. UNCHANGED <<output, stream, newTokens, pc, scheduled, rest>>
    BY <1>2 DEF engineVars, schedulerVars, poolVars, seqVars, stepVars, stepResults,
       requestVars
  <2>2. RestIsSuffix'
    BY <1>0, <2>1 DEF RestIsSuffix
  <2>3. OutputOK'
    BY <1>0, <2>1 DEF OutputOK, Said, Unpaid, Applied, Sent
  <2> QED BY <1>1, <2>2, <2>3 DEF OutputInv
<1>3. CASE InsideStep
  <2>1. /\ UNCHANGED <<output, stream, newTokens>>
        /\ pc \in SchedulePcs /\ pc' \in SchedulePcs
    BY <1>0, <1>3, InsideFrame
  <2>2. RestIsSuffix'
    BY <2>1 DEF RestIsSuffix, SchedulePcs
  <2>3. \A s \in Seqs : Unpaid(s) = {} /\ Unpaid(s)' = {}
    BY <2>1 DEF Unpaid, Applied, Sent, SchedulePcs
  <2>4. \A s \in Seqs : Said(s)' = Said(s)
    BY <2>1, SaidStays
  <2>5. ASSUME NEW s \in Seqs
        PROVE  output'[s] = Said(s)' \o Copies(newTokens'[s], Cardinality(Unpaid(s)'))
    <3>1. output[s] = Said(s) \o Copies(newTokens[s], Cardinality(Unpaid(s)))
      BY <1>0, <2>1 DEF OutputOK, SchedulePcs, EndPcs
    <3> QED BY <2>1, <2>3, <2>4, <3>1
  <2>6. OutputOK'
    BY <2>5 DEF OutputOK
  <2> QED BY <1>1, <2>2, <2>6 DEF OutputInv
<1>4. CASE OutsideStep /\ pc' \notin EndPcs
  <2>1. RestIsSuffix'
    BY <1>0, <1>4, UnpaidStays, ApplyGives, EmitGives
  <2>2. OutputOK'
    <3>1. \A s \in Seqs : SettledUp(s)'
      BY <1>4, OutsideOutput
    <3> QED BY <3>1 DEF OutputOK, SettledUp
  <2> QED BY <1>1, <2>1, <2>2 DEF OutputInv
<1>5. CASE pc' \in EndPcs
  BY <1>1, <1>5 DEF OutputInv, RestIsSuffix, OutputOK, EndPcs
<1>6. EngineNext => InsideStep \/ OutsideStep
  BY DEF EngineNext, LoopStep, InsideStep, OutsideStep, RequestStep, MoveStep, ForwardStep,
     ApplyStep, SendStep
<1> QED BY <1>2, <1>3, <1>4, <1>5, <1>6

LEMMA OutputInit == EngineInit => OutputInv
<1> SUFFICES ASSUME EngineInit PROVE OutputInv
  OBVIOUS
<1>1. /\ EngineInv /\ pc = "idle"
      /\ stream = [s \in Seqs |-> <<>>] /\ output = [s \in Seqs |-> <<>>]
  BY EngineInitInv DEF EngineInit, SchedulerInit, SequenceInit, QueuesInit
<1>2. RestIsSuffix
  BY <1>1 DEF RestIsSuffix
<1>3. ASSUME NEW s \in Seqs PROVE SettledUp(s)
  <2>1. Cardinality(Unpaid(s)) = 0
    <3>1. Unpaid(s) = {}
      BY <1>1 DEF Unpaid, Applied, Sent
    <3> QED BY <3>1, FS_EmptySet
  <2>2. Said(s) = <<>>
    <3>1. [i \in DOMAIN <<>> |-> <<>>[i].tokens] = <<>> /\ Len(<<>>) = 0
      OBVIOUS
    <3>2. Said(s) = FlattenSeq(<<>>)
      BY <1>1, <3>1 DEF Said
    <3> QED BY <3>1, <3>2 DEF FlattenSeq
  <2>3. <<>> \in Seq(Tokens) /\ output[s] = <<>>
    BY <1>1
  <2>4. <<>> \o Copies(newTokens[s], 0) = <<>>
    BY <2>3, NoCopies
  <2> QED BY <2>1, <2>2, <2>3, <2>4 DEF SettledUp
<1> QED BY <1>1, <1>2, <1>3 DEF OutputInv, OutputOK, SettledUp

\* A request's output is the tokens on its stream and those that the step in
\* progress owes it, one for each time it was scheduled.
THEOREM OutputInvariant == EngineSpec => []OutputInv
<1>1. OutputInv /\ [EngineNext]_engineVars => OutputInv'
  BY OutputStep
<1> QED BY <1>1, OutputInit, PTL DEF EngineSpec

\* Whenever a client's code can run, it has been sent every token of its
\* sequence's output, in order and once: no preemption, abort or double
\* scheduling loses or repeats one.
THEOREM ClientsGetTheOutput == EngineSpec => []StreamIsOutput
<1>1. ASSUME OutputInv, AtAwait, NEW s \in Seqs PROVE Said(s) = output[s]
  <2>1. /\ EngineData /\ pc \in {"forward", "yield", "pause", "waiting"}
        /\ output[s] = Said(s) \o Copies(newTokens[s], Cardinality(Unpaid(s)))
    BY <1>1 DEF AtAwait, OutputInv, OutputOK, EndPcs, EngineInv
  <2>2. Cardinality(Unpaid(s)) = 0
    <3>1. Unpaid(s) = {}
      BY <2>1 DEF Unpaid, Applied, Sent
    <3> QED BY <3>1, FS_EmptySet
  <2> QED BY <2>1, <2>2, SaidTyped, NoCopies
<1>2. OutputInv => StreamIsOutput
  BY <1>1 DEF StreamIsOutput, Said
<1> QED BY <1>2, OutputInvariant, PTL
=============================================================================
