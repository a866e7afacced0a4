----------------------------- MODULE CacheProofs -----------------------------
(***************************************************************************)
(* The paged KV cache under CleanSpec: whatever is shared, evicted and     *)
(* used again, what a sequence attends to is its own.  In three parts: who *)
(* writes to a block that is shared (WriterInv); who can find a block that *)
(* is hashed and not yet written (AheadOK); and what the slots hold, for   *)
(* every position a sequence counts on and for every hash (ReachOK and     *)
(* HashOK, of ContentInv).                                                 *)
(***************************************************************************)
EXTENDS EngineProofs

-----------------------------------------------------------------------------
(* Positions, slots and prefixes. *)

\* What the slot of position p of s is to hold.
Prefix(s, p) == SubSeq(AllTokenIds(s), 1, p + 1)

\* Position p is slot p % BlockSize of entry p \div BlockSize + 1.
LEMMA SlotOfPosition ==
    ASSUME PoolTypeOK, NEW s \in Seqs, NEW p \in Nat, p < Room(s)
    PROVE  \E i \in DOMAIN blockTable[s], o \in 0 .. BlockSize - 1 :
              /\ i \in Nat \ {0}
              /\ p = (i - 1) * BlockSize + o
              /\ p < i * BlockSize
              /\ SlotOf(blockTable[s], p) = <<blockTable[s][i], o>>
              /\ blockTable[s][i] \in Blocks
<1> DEFINE q == p \div BlockSize
           o == p % BlockSize
           l == Len(blockTable[s])
<1>1. /\ BlockSize \in Nat \ {0} /\ l \in Nat /\ blockTable[s] \in Seq(Blocks)
      /\ DOMAIN blockTable[s] = 1 .. l
  BY SequenceSizes, BlockConstants DEF PoolTypeOK
<1>2. q \in Nat /\ o \in 0 .. BlockSize - 1 /\ p = BlockSize * q + o
  BY <1>1, DivMod
<1>3. SlotOf(blockTable[s], p) = <<blockTable[s][q + 1], o>>
  BY DEF SlotOf
<1>4. p < l * BlockSize
  BY DEF Room
<1> HIDE DEF q, o, l
<1>5. BlockSize * q = q * BlockSize /\ q * BlockSize \in Nat /\ l * BlockSize \in Nat
      /\ (q + 1) * BlockSize = q * BlockSize + BlockSize
      /\ (l <= q => l * BlockSize <= q * BlockSize)
  BY <1>1, <1>2, Multiples
<1>6. q < l
  BY <1>1, <1>2, <1>4, <1>5
<1>7. q + 1 \in 1 .. l /\ q + 1 \in Nat \ {0} /\ (q + 1) - 1 = q
  BY <1>1, <1>2, <1>6
<1>8. p = q * BlockSize + o /\ p < (q + 1) * BlockSize
  BY <1>1, <1>2, <1>5
<1>9. blockTable[s][q + 1] \in Blocks
  BY <1>1, <1>7
<1> QED BY <1>1, <1>2, <1>3, <1>7, <1>8, <1>9

\* What the slot of a position in entry i of a table is.
LEMMA EntrySlot ==
    ASSUME NEW t \in Seq(Blocks), NEW i \in DOMAIN t,
           NEW o \in 0 .. BlockSize - 1, NEW p, p = (i - 1) * BlockSize + o
    PROVE  /\ p \in Nat /\ i \in Nat \ {0}
           /\ p < Len(t) * BlockSize /\ p < i * BlockSize /\ i * BlockSize \in Nat
           /\ (i - 1) * BlockSize \in Nat
           /\ i * BlockSize = (i - 1) * BlockSize + BlockSize
           /\ i * BlockSize <= Len(t) * BlockSize
           /\ SlotOf(t, p) = <<t[i], o>>
           /\ t[i] \in Blocks
<1> DEFINE l == Len(t)
<1>1. /\ BlockSize \in Nat \ {0} /\ l \in Nat /\ DOMAIN t = 1 .. l
  BY BlockConstants
<1>2. /\ i \in Nat \ {0} /\ i - 1 \in Nat /\ i <= l /\ (i - 1) + 1 = i
      /\ o \in Nat /\ o < BlockSize
  BY <1>1
<1>4. t[i] \in Blocks
  BY <1>1
<1> HIDE DEF l
<1>5. /\ (i - 1) * BlockSize \in Nat /\ i * BlockSize \in Nat /\ l * BlockSize \in Nat
      /\ i * BlockSize <= l * BlockSize
      /\ i * BlockSize = (i - 1) * BlockSize + BlockSize
  <2>1. ((i - 1) + 1) * BlockSize = (i - 1) * BlockSize + BlockSize
    BY <1>1, <1>2, Multiples
  <2> QED BY <1>1, <1>2, <2>1, Multiples
<1>6. p \in Nat /\ p < i * BlockSize /\ p < l * BlockSize
  <2> DEFINE m == (i - 1) * BlockSize
             e == i * BlockSize
             z == l * BlockSize
  <2>1. p = m + o /\ m \in Nat /\ e \in Nat /\ z \in Nat /\ e <= z /\ e = m + BlockSize
    BY <1>5
  <2> HIDE DEF m, e, z
  <2>2. p \in Nat /\ p < e /\ p < z
    BY <1>1, <1>2, <2>1
  <2> QED BY <2>2 DEF e, z
<1>7. p \div BlockSize = i - 1 /\ p % BlockSize = o
  <2>1. p = BlockSize * (i - 1) + o
    BY <1>1, <1>2, <1>5
  <2>2. p \div BlockSize = i - 1
    <3>1. PICK d : d = i - 1
      OBVIOUS
    <3>2. d \in Nat /\ o \in 0 .. BlockSize - 1 /\ p \in Nat /\ p = BlockSize * d + o
      BY <1>2, <1>6, <2>1, <3>1
    <3>3. p \div BlockSize = d
      BY <1>1, <3>2, DivUnique
    <3> QED BY <3>1, <3>3
  <2>3. /\ p = BlockSize * (p \div BlockSize) + (p % BlockSize)
        /\ p % BlockSize \in 0 .. BlockSize - 1
    BY <1>1, <1>6, DivMod
  <2> DEFINE m == BlockSize * (i - 1)
             r == p % BlockSize
  <2>4. p = m + o /\ p = m + r /\ r \in 0 .. BlockSize - 1 /\ m = (i - 1) * BlockSize
    BY <1>1, <1>2, <2>1, <2>2, <2>3
  <2>5. m \in Nat
    BY <1>5, <2>4
  <2> HIDE DEF m, r
  <2>6. r = o
    BY <1>1, <1>2, <2>4, <2>5
  <2> QED BY <2>2, <2>6 DEF r
<1>8. SlotOf(t, p) = <<t[i], o>>
  BY <1>2, <1>7 DEF SlotOf
<1> QED BY <1>2, <1>4, <1>5, <1>6, <1>8 DEF l

\* The same in the table of a sequence.
LEMMA PositionOfSlot ==
    ASSUME PoolTypeOK, NEW s \in Seqs, NEW i \in DOMAIN blockTable[s],
           NEW o \in 0 .. BlockSize - 1, NEW p, p = (i - 1) * BlockSize + o
    PROVE  /\ p \in Nat /\ i \in Nat \ {0}
           /\ p < Room(s) /\ p < i * BlockSize /\ i * BlockSize \in Nat
           /\ (i - 1) * BlockSize \in Nat
           /\ i * BlockSize = (i - 1) * BlockSize + BlockSize
           /\ i * BlockSize <= Room(s)
           /\ SlotOf(blockTable[s], p) = <<blockTable[s][i], o>>
           /\ blockTable[s][i] \in Blocks
<1>1. blockTable[s] \in Seq(Blocks)
  BY DEF PoolTypeOK
<1> QED BY <1>1, EntrySlot DEF Room

\* A prefix of a block's content is a prefix of the sequence.
LEMMA PrefixInBlock ==
    ASSUME PoolTypeOK, NEW s \in Seqs, NEW i \in Nat \ {0}, NEW o \in 0 .. BlockSize - 1,
           i * BlockSize <= TotalLen(s)
    PROVE  LET h == PrefixOf(s, i)
               p == (i - 1) * BlockSize + o
           IN  /\ Len(h) = i * BlockSize
               /\ p \in Nat
               /\ SubSeq(h, 1, Len(h) - BlockSize + o + 1) = Prefix(s, p)
               /\ SubSeq(h, 1, p + 1) = Prefix(s, p)
               /\ p < TotalLen(s)
<1> DEFINE all == AllTokenIds(s)
           m == i * BlockSize
           p == (i - 1) * BlockSize + o
<1>1. /\ all \in Seq(Tokens) /\ Len(all) = TotalLen(s) /\ TotalLen(s) \in Nat
      /\ BlockSize \in Nat \ {0}
  BY SequenceSizes, BlockConstants
<1>2. m \in Nat /\ (i - 1) * BlockSize \in Nat /\ m = (i - 1) * BlockSize + BlockSize
      /\ o \in Nat /\ o < BlockSize
  <2>1. i - 1 \in Nat /\ (i - 1) + 1 = i
    OBVIOUS
  <2>2. ((i - 1) + 1) * BlockSize = (i - 1) * BlockSize + BlockSize
    BY <1>1, <2>1, Multiples
  <2> QED BY <1>1, <2>1, <2>2, Multiples
<1>3. p \in Nat /\ p + 1 <= m /\ m <= Len(all) /\ m - BlockSize + o + 1 = p + 1
  BY <1>1, <1>2
<1>4. PrefixOf(s, i) = SubSeq(all, 1, m)
  BY DEF PrefixOf
<1>5. Prefix(s, p) = SubSeq(all, 1, p + 1)
  BY DEF Prefix
<1> HIDE DEF all, m, p
<1>6. Len(SubSeq(all, 1, m)) = m /\ SubSeq(SubSeq(all, 1, m), 1, p + 1) = SubSeq(all, 1, p + 1)
  BY <1>1, <1>2, <1>3
<1> QED BY <1>1, <1>2, <1>3, <1>4, <1>5, <1>6 DEF m, p

-----------------------------------------------------------------------------
(* Who writes a block: the sequence for which it is not cached. *)

\* The tokens of s that are in the cache, and those that were when it was
\* admitted; admit() has them in call.
Done(s) == IF Admitting(s) THEN call.cached ELSE numComputed[s]
Start(s) == IF Admitting(s) THEN call.cached ELSE numCachedPrefix[s]

\* A block that is shared is cached for all its holders but one, at most.
WriterOK ==
    \A s, r \in Seqs : \A i \in DOMAIN blockTable[s] \cap DOMAIN blockTable[r] :
       (s # r /\ ~Freeing(s) /\ ~Freeing(r) /\ blockTable[s][i] = blockTable[r][i])
         => i * BlockSize <= Start(s) \/ i * BlockSize <= Start(r)

StartOK ==
    \A s \in Seqs :
        /\ Start(s) <= Done(s)
        /\ \E m \in Nat : Start(s) = m * BlockSize

\* A fresh block goes to the end of the table of s.
TakesFresh(s) ==
    /\ blockTable[s] = <<>> => Admitting(s)
    /\ call.op # "free" /\ call'.op # "free"
    /\ NumFree(pool) > 0
    /\ GrowTable(s)
    /\ UNCHANGED <<prompt, output>>

\* What a step does to the tables and the pool.
LEMMA TableSteps ==
    ASSUME EngineInv, EngineNext
    PROVE  \/ UNCHANGED <<blockTable, pool>>
           \/ \E s \in Seqs : TakesFresh(s)
           \/ AdmitHit \/ AdmitMiss \/ FreeRelease \/ FreeClear \/ RegisterBlock
<1>0. /\ PoolTypeOK /\ Idle.op = "none"
      /\ call.op # "none" => call.seq \in Seqs
  BY IdleFields DEF EngineInv, PoolInv, PoolTypeOK
<1>1. CASE CallStep
  <2>1. CASE AdmitFinish
    <3>1. CASE HasTail(call.seq)
      <4>1. TakesFresh(call.seq)
        BY <1>0, <2>1, <3>1 DEF AdmitFinish, TakesFresh, Admitting
      <4> QED BY <1>0, <2>1, <4>1 DEF AdmitFinish
    <3>2. CASE ~HasTail(call.seq)
      BY <2>1, <3>2 DEF AdmitFinish
    <3> QED BY <3>1, <3>2
  <2>2. CASE EnsureTake
    <3>1. TakesFresh(call.seq)
      BY <1>0, <2>2 DEF EnsureTake, TakesFresh, EngineInv, EngineTablesOK
    <3> QED BY <1>0, <2>2, <3>1 DEF EnsureTake
  <2>3. CASE EnsureExit \/ RegisterSkip \/ RegisterReturn
    BY <2>3 DEF EnsureExit, RegisterSkip, RegisterReturn, seqVars
  <2> QED BY <1>1, <2>1, <2>2, <2>3 DEF CallStep
<1>2. CASE DecodeSchedule
  <2>1. call = Idle /\ call' = call /\ UNCHANGED <<prompt, output>>
    BY <1>2 DEF DecodeSchedule, AppendSlot
  <2>2. CASE SlotCovered(Head(todo))
    BY <1>2, <2>2 DEF DecodeSchedule, AppendSlot
  <2>3. CASE ~SlotCovered(Head(todo))
    <3>1. GrowTable(Head(todo)) /\ NumFree(pool) # 0
      BY <1>2, <2>3 DEF DecodeSchedule, AppendSlot, AppendSlotRaises
    <3>2. NumFree(pool) \in Nat
      BY <1>0, TypedFields DEF PoolTypeOK
    <3>3. Head(todo) \in Seqs
      <4>1. todo # <<>> /\ todo \in Seq(Seqs)
        BY <1>2 DEF DecodeSchedule, DecodeTurn, EngineInv, EngineStepOK, QueueData
      <4> QED BY <4>1, HeadTail
    <3>4. blockTable[Head(todo)] # <<>>
      <4>1. status[Head(todo)] = "RUNNING"
        BY <1>2 DEF DecodeSchedule, DecodeTurn, EngineInv, EngineTablesOK
      <4>2. ~Admitting(Head(todo))
        BY <1>0, <2>1 DEF Admitting
      <4> QED BY <3>3, <4>1, <4>2 DEF EngineInv, EngineTablesOK, EngineTableOK
    <3>5. TakesFresh(Head(todo))
      BY <1>0, <2>1, <3>1, <3>2, <3>4 DEF TakesFresh
    <3> QED BY <3>3, <3>5
  <2> QED BY <2>2, <2>3
<1>3. ASSUME Schedule, ~DecodeSchedule PROVE UNCHANGED <<blockTable, pool>>
  BY <1>3 DEF Schedule, StartSchedule, ScheduleStep, DecodeSkip, DecodePreempt,
     DecodeGiveUp, EndDecode, AdmitHead, Admit, PreemptForAdmission, AdmissionGiveUp,
     PlanChunk, EnsureBlocksForChunk, NothingToPrefill, ScheduleChunk, EndPrefill,
     PreemptOne, Free, poolVars, seqVars
<1>4. ASSUME RequestStep \/ MoveStep \/ ForwardStep PROVE UNCHANGED <<blockTable, pool>>
  BY <1>4 DEF RequestStep, AddRequest, Add, Abort, AbortWaiting, AbortRunning, Free,
     Shutdown, schedulerVars, MoveStep, LoopExit, WaitForWork, Woken, WaitTimeout,
     ShutdownTimeout, Starved, Resume, Goto, ForwardStep, SubmitForward, ForwardDone,
     Count, CountItem, SampleAll, poolVars, seqVars
<1>5. ASSUME ApplyStep \/ SendStep \/ LoopDies PROVE UNCHANGED <<blockTable, pool>>
  BY <1>5 DEF ApplyStep, ApplyToken, ApplyRegister, RegisterFilledBlocks, ApplyStop,
     ApplyKeep, ApplyEnd, SendStep, FreeFinished, Free, FreeEnd, EmitItem, EmitEnd,
     LoopDies, poolVars, seqVars
<1>6. EngineNext => \/ CallStep \/ Schedule \/ RequestStep \/ MoveStep \/ ForwardStep
                    \/ ApplyStep \/ SendStep \/ LoopDies
  BY DEF EngineNext, LoopStep, PoolCall, RequestStep, MoveStep, ForwardStep, ApplyStep,
     SendStep
<1> QED BY <1>1, <1>2, <1>3, <1>4, <1>5, <1>6

\* How far a sequence is in the cache changes when its admission starts, when
\* it loses its blocks to another, with a hit and when its tokens are counted.
LEMMA DoneSteps ==
    ASSUME EngineInv, EngineNext, NEW s \in Seqs
    PROVE  \/ Done(s)' = Done(s) /\ Start(s)' = Start(s)
           \/ /\ Done(s)' = 0 /\ Start(s)' = 0
              /\ \/ blockTable'[s] = <<>>
                 \/ Freeing(s)' /\ status'[s] = "PREEMPTED"
           \/ /\ AdmitHit /\ s = call.seq
              /\ Done(s) = call.cached /\ Start(s) = call.cached
              /\ Done(s)' = call.cached + BlockSize /\ Start(s)' = call.cached + BlockSize
              /\ call'.cached = call.cached + BlockSize
           \/ /\ Count /\ s = Head(rest).seq
              /\ Start(s)' = Start(s) /\ Done(s)' = Done(s) + Head(rest).n
<1>0. /\ PoolTypeOK /\ Idle.op = "none" /\ QueueData /\ EngineStepOK
      /\ call.op # "none" => call.seq \in Seqs
      /\ numComputed \in [Seqs -> Nat] /\ numCachedPrefix \in [Seqs -> Nat]
  BY IdleFields DEF EngineInv, PoolInv, PoolTypeOK
<1>q. ASSUME UNCHANGED <<numComputed, numCachedPrefix>>,
             Admitting(s)' <=> Admitting(s), Admitting(s) => call'.cached = call.cached
      PROVE  Done(s)' = Done(s) /\ Start(s)' = Start(s)
  BY <1>q DEF Done, Start
<1>i. ASSUME UNCHANGED <<numComputed, numCachedPrefix>>, call.op # "admit", call'.op # "admit"
      PROVE  Done(s)' = Done(s) /\ Start(s)' = Start(s)
  BY <1>q, <1>i DEF Admitting
<1>1. CASE AdmitHit
  <2>1. /\ call'.op = "admit" /\ call'.seq = call.seq /\ call.op = "admit"
        /\ call'.cached = call.cached + BlockSize
        /\ UNCHANGED <<numComputed, numCachedPrefix>>
    BY <1>1, CallFields DEF AdmitHit, Advance
  <2> QED BY <1>1, <2>1 DEF Done, Start, Admitting
<1>2. CASE AdmitMiss
  <2>1. /\ call'.op = "admit" /\ call'.seq = call.seq /\ call.op = "admit"
        /\ call'.cached = call.cached
        /\ UNCHANGED <<numComputed, numCachedPrefix>>
    BY <1>2, CallFields DEF AdmitMiss, Advance
  <2> QED BY <2>1 DEF Done, Start, Admitting
<1>3. CASE AdmitFinish
  <2>1. /\ call.op = "admit" /\ call'.op = "none" /\ call.seq \in Seqs
        /\ numComputed' = [numComputed EXCEPT ![call.seq] = call.cached]
        /\ numCachedPrefix' = [numCachedPrefix EXCEPT ![call.seq] = call.cached]
    BY <1>0, <1>3 DEF AdmitFinish
  <2> QED BY <1>0, <2>1 DEF Done, Start, Admitting
<1>4. CASE EnsureTake \/ EnsureExit \/ FreeRelease \/ FreeClear \/ RegisterSkip
           \/ RegisterBlock \/ RegisterReturn
  <2>1. UNCHANGED <<numComputed, numCachedPrefix>> /\ call.op # "admit"
    BY <1>4 DEF EnsureTake, EnsureExit, FreeRelease, FreeClear, RegisterSkip,
       RegisterBlock, RegisterReturn, seqVars
  <2>2. call'.op # "admit"
    BY <1>0, <1>4, <2>1, CallFields DEF EnsureTake, EnsureExit, FreeRelease, FreeClear,
       RegisterSkip, RegisterBlock, RegisterReturn, Advance
  <2> QED BY <1>i, <2>1, <2>2
<1>5. CASE running # <<>> /\ PreemptOne
  <2>0. Last(running) \in Seqs
    <3>1. running \in Seq(Seqs) /\ running # <<>>
      BY <1>0, <1>5 DEF QueueData
    <3>2. Last(running) = running[Len(running)] /\ Len(running) \in 1 .. Len(running)
      BY <3>1, FrontEntries
    <3> QED BY <3>1, <3>2
  <2>1. /\ call = Idle /\ call'.op = "free" /\ call'.seq = Last(running)
        /\ status' = [status EXCEPT ![Last(running)] = "PREEMPTED"]
        /\ numComputed' = [numComputed EXCEPT ![Last(running)] = 0]
        /\ numCachedPrefix' = [numCachedPrefix EXCEPT ![Last(running)] = 0]
    BY <1>5, CallFields DEF PreemptOne, Free, Begin, ForgetComputed, SetStatus
  <2>2. CASE s = Last(running)
    <3>1. numComputed'[s] = 0 /\ numCachedPrefix'[s] = 0 /\ status'[s] = "PREEMPTED"
      BY <1>0, <2>0, <2>1, <2>2 DEF QueueData
    <3> QED BY <2>1, <2>2, <3>1 DEF Done, Start, Admitting, Freeing
  <2>3. CASE s # Last(running)
    <3>1. numComputed'[s] = numComputed[s] /\ numCachedPrefix'[s] = numCachedPrefix[s]
      BY <1>0, <2>0, <2>1, <2>3
    <3> QED BY <1>0, <2>1, <3>1 DEF Done, Start, Admitting
  <2> QED BY <2>2, <2>3
<1>6. CASE AdmitHead
  <2>1. /\ call = Idle /\ call'.op = "admit" /\ call'.seq = Head(waiting)
        /\ call'.cached = 0 /\ blockTable[Head(waiting)] = <<>>
        /\ UNCHANGED <<numComputed, numCachedPrefix, blockTable>>
    BY <1>6, CallFields DEF AdmitHead, Admit, Begin, seqVars
  <2> QED BY <1>0, <2>1 DEF Done, Start, Admitting
<1>7. CASE Count
  <2>1. /\ call.op = "none" /\ call' = call /\ rest # <<>>
        /\ numComputed' = [numComputed EXCEPT ![Head(rest).seq] = @ + Head(rest).n]
        /\ UNCHANGED numCachedPrefix
    BY <1>0, <1>7 DEF Count, CountItem, EngineStepOK
  <2>2. Head(rest).seq \in Seqs
    BY <1>0, <2>1, DataHeads
  <2> QED BY <1>0, <1>7, <2>1, <2>2 DEF Done, Start, Admitting
<1>8. ASSUME Schedule, ~AdmitHead, ~(running # <<>> /\ PreemptOne)
      PROVE  /\ UNCHANGED <<numComputed, numCachedPrefix>>
             /\ call.op # "admit" /\ call'.op # "admit"
  <2>1. ASSUME StartSchedule \/ DecodeSkip \/ DecodeSchedule \/ DecodeGiveUp \/ EndDecode
        PROVE  UNCHANGED <<numComputed, numCachedPrefix, call>> /\ call = Idle
    BY <2>1 DEF StartSchedule, DecodeSkip, DecodeSchedule, AppendSlot, DecodeGiveUp,
       EndDecode, poolVars, seqVars
  <2>2. ASSUME AdmissionGiveUp \/ NothingToPrefill \/ ScheduleChunk \/ EndPrefill
        PROVE  UNCHANGED <<numComputed, numCachedPrefix, call>> /\ call = Idle
    BY <2>2 DEF AdmissionGiveUp, NeedsAdmission, PrefillTurn, NothingToPrefill,
       ScheduleChunk, EndPrefill, poolVars, seqVars
  <2>3. ASSUME PlanChunk
        PROVE  /\ UNCHANGED <<numComputed, numCachedPrefix>>
               /\ call = Idle /\ call'.op = "ensure"
    BY <2>3, CallFields DEF PlanChunk, EnsureBlocksForChunk, Begin, seqVars
  <2>4. ~DecodePreempt /\ ~PreemptForAdmission
    BY <1>8 DEF DecodePreempt, PreemptForAdmission
  <2>5. \/ StartSchedule \/ DecodeSkip \/ DecodeSchedule \/ DecodeGiveUp \/ EndDecode
        \/ AdmissionGiveUp \/ NothingToPrefill \/ ScheduleChunk \/ EndPrefill \/ PlanChunk
    BY <1>8, <2>4 DEF Schedule, ScheduleStep
  <2> QED BY <1>0, <2>1, <2>2, <2>3, <2>5
<1>9. ASSUME RequestStep \/ MoveStep \/ (ForwardStep /\ ~Count)
      PROVE  /\ UNCHANGED <<numComputed, numCachedPrefix>>
             /\ call.op # "admit" /\ call'.op # "admit"
  <2>1. ASSUME MoveStep \/ (ForwardStep /\ ~Count)
        PROVE  UNCHANGED <<numComputed, numCachedPrefix, call>> /\ call.op # "admit"
    <3>1. UNCHANGED <<numComputed, numCachedPrefix, call>>
      BY <2>1 DEF MoveStep, LoopExit, WaitForWork, Woken, WaitTimeout, ShutdownTimeout,
         Starved, Resume, Goto, ForwardStep, SubmitForward, ForwardDone, SampleAll,
         poolVars, seqVars
    <3>2. call.op # "admit"
      BY <1>0, <2>1 DEF AtAwait, MoveStep, LoopExit, WaitForWork, Woken, WaitTimeout,
         ShutdownTimeout, Starved, Resume, ForwardStep, SubmitForward, ForwardDone,
         SampleAll, EngineStepOK
    <3> QED BY <3>1, <3>2
  <2>2. ASSUME RequestStep
        PROVE  /\ UNCHANGED <<numComputed, numCachedPrefix>>
               /\ call.op # "admit" /\ call'.op # "admit"
    <3>1. ASSUME NEW r \in Seqs, Abort(r)
          PROVE  UNCHANGED <<numComputed, numCachedPrefix>> /\ (call' = call \/ call'.op = "free")
      BY <3>1, CallFields DEF Abort, AbortWaiting, AbortRunning, Free, Begin, poolVars, seqVars
    <3>2. ASSUME Shutdown \/ \E r \in Seqs : AddRequest(r)
          PROVE  UNCHANGED <<numComputed, numCachedPrefix, call>>
      BY <3>2 DEF Shutdown, AddRequest, Add, schedulerVars, poolVars, seqVars
    <3>3. call = Idle
      BY <2>2 DEF RequestStep, AddRequest, Abort, Shutdown, RequestsRun, AtAwait
    <3> QED BY <1>0, <2>2, <3>1, <3>2, <3>3 DEF RequestStep
  <2> QED BY <1>9, <2>1, <2>2
<1>10. ASSUME ApplyStep \/ SendStep \/ LoopDies
       PROVE  /\ UNCHANGED <<numComputed, numCachedPrefix>>
              /\ call.op # "admit" /\ call'.op # "admit"
  <2>1. /\ UNCHANGED <<numComputed, numCachedPrefix>>
        /\ call' = call \/ call'.op \in {"free", "register", "none"}
    BY <1>0, <1>10, CallFields DEF ApplyStep, ApplyToken, ApplyRegister,
       RegisterFilledBlocks, ApplyStop, ApplyKeep, ApplyEnd, SendStep, FreeFinished, Free,
       Begin, FreeEnd, EmitItem, EmitEnd, LoopDies, poolVars, seqVars
  <2>2. call.op # "admit"
    BY <1>0, <1>10 DEF ApplyStep, ApplyToken, ApplyRegister,
       RegisterFilledBlocks, ApplyStop, ApplyKeep, ApplyEnd, SendStep, FreeFinished, Free,
       FreeEnd, EmitItem, EmitEnd, LoopDies, RegisterIndexError, EngineStepOK, RequestPcs
  <2> QED BY <2>1, <2>2
<1>11. EngineNext => \/ CallStep \/ Schedule \/ RequestStep \/ MoveStep \/ ForwardStep
                     \/ ApplyStep \/ SendStep \/ LoopDies
  BY DEF EngineNext, LoopStep, PoolCall, RequestStep, MoveStep, ForwardStep, ApplyStep,
     SendStep
<1>12. CASE CallStep
  BY <1>1, <1>2, <1>3, <1>4, <1>12 DEF CallStep
<1> QED BY <1>5, <1>6, <1>7, <1>8, <1>9, <1>10, <1>11, <1>12, <1>i

\* free() goes on until it clears the table, which it alone cuts.
LEMMA FreeingSteps ==
    ASSUME EngineInv, EngineNext, NEW s \in Seqs
    PROVE  /\ Freeing(s) => Freeing(s)' \/ blockTable'[s] = <<>>
           /\ \/ FreeClear /\ Freeing(s) /\ blockTable'[s] = <<>> /\ ~Freeing(s)'
              \/ \A i \in DOMAIN blockTable[s] :
                    i \in DOMAIN blockTable'[s] /\ blockTable'[s][i] = blockTable[s][i]
<1>0. /\ PoolTypeOK /\ Idle.op = "none"
      /\ blockTable \in [Seqs -> Seq(Blocks)]
      /\ blockTable[s] \in Seq(Blocks)
  BY IdleFields DEF EngineInv, PoolInv, PoolTypeOK
<1>1. \/ UNCHANGED <<blockTable, pool>>
      \/ \E r \in Seqs : TakesFresh(r)
      \/ AdmitHit \/ AdmitMiss \/ FreeRelease \/ FreeClear \/ RegisterBlock
  BY TableSteps
<1>2. CASE FreeClear
  <2>1. /\ blockTable' = [blockTable EXCEPT ![call.seq] = <<>>]
        /\ call'.op = "none" /\ call.op = "free"
    BY <1>0, <1>2 DEF FreeClear
  <2>2. CASE s = call.seq
    BY <1>0, <1>2, <2>1, <2>2 DEF Freeing
  <2>3. CASE s # call.seq
    BY <1>0, <2>1, <2>3 DEF Freeing
  <2> QED BY <2>2, <2>3
<1>3. ASSUME NEW r, NEW b, blockTable' = [blockTable EXCEPT ![r] = Append(@, b)]
      PROVE  \A i \in DOMAIN blockTable[s] :
                i \in DOMAIN blockTable'[s] /\ blockTable'[s][i] = blockTable[s][i]
  <2>1. CASE s = r
    <3>1. blockTable'[s] = Append(blockTable[s], b)
      BY <1>0, <1>3, <2>1
    <3>2. \A i \in DOMAIN blockTable[s] :
             /\ i \in DOMAIN Append(blockTable[s], b)
             /\ Append(blockTable[s], b)[i] = blockTable[s][i]
      BY <1>0
    <3> QED BY <3>1, <3>2
  <2>2. CASE s # r
    BY <1>0, <1>3, <2>2
  <2> QED BY <2>1, <2>2
<1>4. \/ FreeClear
      \/ \A i \in DOMAIN blockTable[s] :
            i \in DOMAIN blockTable'[s] /\ blockTable'[s][i] = blockTable[s][i]
  <2>1. CASE (\E r \in Seqs : TakesFresh(r)) \/ AdmitHit \/ AdmitMiss
    <3>1. \E r, b : blockTable' = [blockTable EXCEPT ![r] = Append(@, b)]
      BY <2>1 DEF TakesFresh, GrowTable, AdmitHit, AdmitMiss
    <3> QED BY <1>3, <3>1
  <2>2. CASE FreeRelease \/ RegisterBlock \/ UNCHANGED blockTable
    BY <2>2 DEF FreeRelease, RegisterBlock, seqVars
  <2> QED BY <1>1, <2>1, <2>2
<1>5. ASSUME call.op = "free", ~FreeClear
      PROVE  call'.op = "free" /\ call'.seq = call.seq
  <2>1. CASE CallStep
    <3>1. FreeRelease
      BY <1>5, <2>1 DEF CallStep, AdmitHit, AdmitMiss, AdmitFinish, EnsureTake, EnsureExit,
         RegisterSkip, RegisterBlock, RegisterReturn
    <3> QED BY <1>5, <3>1, CallFields DEF FreeRelease, Advance
  <2>2. CASE ~CallStep
    <3>0. call # Idle /\ EngineStepOK
      BY <1>0, <1>5 DEF EngineInv
    <3>1. ~Schedule
      BY <1>5, <3>0 DEF Schedule, StartSchedule, ScheduleStep, DecodeSkip, DecodeSchedule,
         AppendSlot, DecodePreempt, PreemptOne, Free, DecodeGiveUp, EndDecode, AdmitHead,
         Admit, PreemptForAdmission, AdmissionGiveUp, NeedsAdmission, PrefillTurn,
         PlanChunk, NothingToPrefill, ScheduleChunk, EndPrefill
    <3>2. ~RequestStep /\ ~MoveStep
      BY <1>0, <1>5, <3>0 DEF RequestStep, AddRequest, Abort, Shutdown, RequestsRun,
         AtAwait, MoveStep, LoopExit, WaitForWork, Woken, WaitTimeout, ShutdownTimeout,
         Starved, Resume, EngineStepOK
    <3>3. ~ForwardStep /\ ~ApplyStep /\ ~LoopDies /\ ~(SendStep)
      BY <1>0, <1>5, <3>0 DEF ForwardStep, SubmitForward, ForwardDone, Count, CountItem,
         SampleAll, ApplyStep, ApplyToken, ApplyRegister, RegisterFilledBlocks, ApplyStop,
         ApplyKeep, ApplyEnd, LoopDies, RegisterIndexError, EngineStepOK,
         SendStep, FreeFinished, Free, FreeEnd, EmitItem, EmitEnd
    <3> QED BY <2>2, <3>1, <3>2, <3>3 DEF EngineNext, LoopStep, PoolCall, RequestStep,
            MoveStep, ForwardStep, ApplyStep, SendStep
  <2> QED BY <2>1, <2>2
<1>6. CASE ~FreeClear
  BY <1>4, <1>5, <1>6 DEF Freeing
<1> QED BY <1>2, <1>6, <1>0, <1>4 DEF Freeing

\* No table that counts has a block without references.
LEMMA UnheldBlock ==
    ASSUME PoolInv, NEW b \in Blocks, pool.refCount[b] = 0
    PROVE  \A r \in Seqs : \A j \in Held(r) : blockTable[r][j] # b
<1>1. IsFiniteSet(Holders(b)) /\ Cardinality(Holders(b)) = 0
  BY DEF PoolInv, HoldersOK
<1>2. Holders(b) = {}
  BY <1>1, FS_EmptySet
<1> QED BY <1>2, HoldersMembers

\* A table grows by one entry, with a fresh block or with a hit.
LEMMA NewEntry ==
    ASSUME EngineInv, EngineNext, NEW s \in Seqs, NEW i \in DOMAIN blockTable'[s],
           i \notin DOMAIN blockTable[s]
    PROVE  /\ i = Len(blockTable[s]) + 1
           /\ call.op # "free"
           /\ \A r \in Seqs \ {s} : blockTable'[r] = blockTable[r]
           /\ blockTable'[s][i] \in Blocks
           /\ \/ /\ AdmitHit /\ s = call.seq
                 /\ blockTable'[s][i] = pool.cache[AdmitHash]
              \/ /\ TakesFresh(s) \/ (AdmitMiss /\ s = call.seq)
                 /\ blockTable'[s][i] = NextFree(pool)
                 /\ pool.refCount[blockTable'[s][i]] = 0
<1>0. /\ PoolInv /\ PoolOK(pool)
      /\ blockTable \in [Seqs -> Seq(Blocks)]
      /\ blockTable[s] \in Seq(Blocks)
      /\ call.op = "admit" => call.seq \in Seqs
      /\ pool.cache \in [DOMAIN pool.cache -> Blocks]
  BY TypedFields DEF EngineInv, PoolInv, PoolTypeOK
<1>1. PICK r \in Seqs, b \in Blocks :
         /\ blockTable' = [blockTable EXCEPT ![r] = Append(@, b)]
         /\ call.op # "free"
         /\ \/ /\ AdmitHit /\ r = call.seq
               /\ b = pool.cache[AdmitHash]
            \/ /\ TakesFresh(r) \/ (AdmitMiss /\ r = call.seq)
               /\ b = NextFree(pool)
               /\ pool.refCount[b] = 0
  <2>1. CASE AdmitHit
    <3>1. /\ AdmitHash \in DOMAIN pool.cache /\ call.op = "admit" /\ call.seq \in Seqs
          /\ blockTable' = [blockTable EXCEPT ![call.seq] = Append(@, pool.cache[AdmitHash])]
      BY <1>0, <2>1 DEF AdmitHit, IsHit
    <3>2. pool.cache[AdmitHash] \in Blocks
      BY <1>0, <3>1
    <3> QED BY <2>1, <3>1, <3>2
  <2>2. CASE AdmitMiss
    <3>1. /\ call.op = "admit" /\ call.seq \in Seqs /\ NumFree(pool) > 0
          /\ blockTable' = [blockTable EXCEPT ![call.seq] = Append(@, NextFree(pool))]
      BY <1>0, <2>2 DEF AdmitMiss
    <3>2. NextFree(pool) \in Blocks /\ pool.refCount[NextFree(pool)] = 0
      BY <1>0, <3>1, TakeFacts
    <3> QED BY <2>2, <3>1, <3>2
  <2>3. ASSUME NEW r \in Seqs, TakesFresh(r)
        PROVE  /\ blockTable' = [blockTable EXCEPT ![r] = Append(@, NextFree(pool))]
               /\ call.op # "free" /\ NextFree(pool) \in Blocks
               /\ pool.refCount[NextFree(pool)] = 0
    <3>1. NextFree(pool) \in Blocks /\ pool.refCount[NextFree(pool)] = 0
      BY <1>0, <2>3, TakeFacts DEF TakesFresh
    <3> QED BY <2>3, <3>1 DEF TakesFresh, GrowTable
  <2>4. ~(UNCHANGED <<blockTable, pool>> \/ FreeRelease \/ RegisterBlock)
    BY DEF FreeRelease, RegisterBlock, seqVars
  <2>5. ~FreeClear
    <3>1. ASSUME FreeClear PROVE FALSE
      <4>1. blockTable' = [blockTable EXCEPT ![call.seq] = <<>>]
        BY <3>1 DEF FreeClear
      <4>2. blockTable'[s] = blockTable[s] \/ blockTable'[s] = <<>>
        BY <1>0, <4>1
      <4> QED BY <4>2, EmptySeq
    <3> QED BY <3>1
  <2> QED BY <2>1, <2>2, <2>3, <2>4, <2>5, TableSteps
<1>2. r = s
  BY <1>0, <1>1
<1>3. blockTable'[s] = Append(blockTable[s], b)
  BY <1>0, <1>1, <1>2
<1>4. i = Len(blockTable[s]) + 1 /\ blockTable'[s][i] = b
  BY <1>0, <1>3, AppendEntries
<1>5. \A q \in Seqs \ {s} : blockTable'[q] = blockTable[q]
  BY <1>0, <1>1, <1>2
<1> QED BY <1>1, <1>2, <1>4, <1>5

\* What was found in the cache is whole blocks, and counts as computed.
LEMMA StartStep ==
    ASSUME EngineInv, EngineNext, StartOK
    PROVE  StartOK'
<1>1. ASSUME NEW s \in Seqs
      PROVE  Start(s)' <= Done(s)' /\ \E m \in Nat : Start(s)' = m * BlockSize
  <2>0. /\ BlockSize \in Nat \ {0} /\ PoolTypeOK /\ QueueData
        /\ call.cached \in Nat /\ numComputed[s] \in Nat /\ numCachedPrefix[s] \in Nat
    BY BlockConstants DEF EngineInv, PoolInv, PoolTypeOK
  <2>1. Start(s) <= Done(s) /\ Start(s) \in Nat /\ Done(s) \in Nat
    BY <2>0 DEF StartOK, Start, Done
  <2>2. PICK m \in Nat : Start(s) = m * BlockSize
    BY DEF StartOK
  <2>3. CASE Done(s)' = Done(s) /\ Start(s)' = Start(s)
    BY <2>1, <2>2, <2>3
  <2>4. CASE Done(s)' = 0 /\ Start(s)' = 0
    <3>1. 0 = 0 * BlockSize
      BY <2>0
    <3> QED BY <2>4, <3>1
  <2>5. CASE /\ AdmitHit /\ s = call.seq
             /\ Done(s) = call.cached /\ Start(s) = call.cached
             /\ Done(s)' = call.cached + BlockSize /\ Start(s)' = call.cached + BlockSize
    <3>1. (m + 1) * BlockSize = m * BlockSize + BlockSize /\ m + 1 \in Nat
      BY <2>0, Multiples
    <3>2. Start(s)' = (m + 1) * BlockSize /\ Start(s)' <= Done(s)'
      BY <2>0, <2>2, <2>5, <3>1
    <3> QED BY <3>1, <3>2
  <2>6. CASE /\ Count /\ s = Head(rest).seq
             /\ Start(s)' = Start(s) /\ Done(s)' = Done(s) + Head(rest).n
    <3>1. rest # <<>>
      BY <2>6 DEF Count, CountItem
    <3>2. Head(rest).n \in Nat
      BY <2>0, <3>1, DataHeads
    <3>3. Start(s)' <= Done(s)'
      BY <2>1, <2>6, <3>2
    <3> QED BY <2>2, <2>6, <3>3
  <2> QED BY <2>3, <2>4, <2>5, <2>6, DoneSteps
<1> QED BY <1>1 DEF StartOK

\* A hit counts for all the blocks in front of it.
LEMMA HitCovers ==
    ASSUME EngineInv, CleanStep, AdmitHit, NEW s \in Seqs, s = call.seq
    PROVE  /\ call.i \in Nat /\ call.i = Len(blockTable[s])
           /\ call.cached = call.i * BlockSize
           /\ Start(s) = call.i * BlockSize /\ Done(s) = call.i * BlockSize
           /\ Start(s)' = (call.i + 1) * BlockSize
           /\ Done(s)' = (call.i + 1) * BlockSize
<1>1. /\ call.op = "admit" /\ call.cached \in Nat /\ BlockSize \in Nat \ {0}
      /\ call.i \in Nat /\ call.i = Len(blockTable[s])
  BY BlockConstants DEF AdmitHit, EngineInv, PoolInv, PoolTypeOK, CallOK, AdmitOK
<1>2. /\ call'.op = "admit" /\ call'.seq = s /\ call'.cached = call.cached + BlockSize
  BY CallFields DEF AdmitHit, Advance
<1>3. call.cached = call.i * BlockSize
  BY <1>1, <1>2 DEF CleanStep
<1>4. (call.i + 1) * BlockSize = call.i * BlockSize + BlockSize
  BY <1>1, Multiples
<1> QED BY <1>1, <1>2, <1>3, <1>4 DEF Start, Done, Admitting

\* A pair of table entries after a step, where the first was there before.
LEMMA WriterStep ==
    ASSUME EngineInv, EngineNext, CleanStep, StartOK, WriterOK
    PROVE  WriterOK'
<1> DEFINE Pair(s, r, i) ==
              /\ s # r /\ ~Freeing(s) /\ ~Freeing(r)
              /\ i \in DOMAIN blockTable[s] /\ i \in DOMAIN blockTable[r]
              /\ blockTable[s][i] = blockTable[r][i]
           Cached(s, i) == i * BlockSize <= Start(s)
<1>0. PoolInv /\ PoolTypeOK /\ BlockSize \in Nat \ {0}
  BY BlockConstants DEF EngineInv, PoolInv
<1>1. ASSUME NEW s \in Seqs, NEW i \in DOMAIN blockTable'[s], ~Freeing(s)'
      PROVE  /\ ~Freeing(s)
             /\ i \in Nat \ {0}
             /\ i \in DOMAIN blockTable[s] /\ Cached(s, i) => Cached(s, i)'
             /\ i \in DOMAIN blockTable[s] => blockTable'[s][i] = blockTable[s][i]
  <2>1. blockTable'[s] # <<>>
    BY <1>1, EmptySeq
  <2>2. ~Freeing(s)
    BY <1>1, <2>1, FreeingSteps
  <2>3. i \in DOMAIN blockTable[s] => i \in Nat \ {0} /\ blockTable'[s][i] = blockTable[s][i]
    <3>1. blockTable[s] \in Seq(Blocks)
      BY <1>0 DEF PoolTypeOK
    <3> QED BY <2>2, <3>1, FreeingSteps
  <2>4. i \notin DOMAIN blockTable[s] => i \in Nat \ {0}
    <3>1. Len(blockTable[s]) \in Nat
      BY <1>0, SequenceSizes
    <3> QED BY <1>1, <3>1, NewEntry
  <2>5. ASSUME i \in DOMAIN blockTable[s], Cached(s, i) PROVE Cached(s, i)'
    <3>1. Start(s)' >= Start(s)
      <4>1. call.cached \in Nat /\ numCachedPrefix[s] \in Nat
        BY <1>0 DEF PoolTypeOK
      <4>2. Start(s) \in Nat /\ (AdmitHit /\ s = call.seq => Start(s) = call.cached)
        BY <4>1 DEF Start, AdmitHit, Admitting
      <4>3. \/ Start(s)' = Start(s)
            \/ Start(s)' = call.cached + BlockSize /\ AdmitHit /\ s = call.seq
        BY <1>1, <2>1, DoneSteps
      <4> QED BY <1>0, <4>1, <4>2, <4>3
    <3>2. Start(s) \in Nat /\ Start(s)' \in Int /\ i * BlockSize \in Nat
      <4>1. call.cached \in Nat /\ numCachedPrefix[s] \in Nat
        BY <1>0 DEF PoolTypeOK
      <4>2. Start(s)' = Start(s) \/ Start(s)' = call.cached + BlockSize
        BY <1>1, <2>1, DoneSteps
      <4>3. Start(s) \in Nat
        BY <4>1 DEF Start
      <4> QED BY <1>0, <2>3, <2>5, <4>1, <4>2, <4>3, Multiples
    <3> QED BY <2>5, <3>1, <3>2
  <2> QED BY <2>2, <2>3, <2>4, <2>5
<1>2. ASSUME NEW s \in Seqs, NEW r \in Seqs, NEW i, Pair(s, r, i)',
             i \notin DOMAIN blockTable[s]
      PROVE  Cached(s, i)'
  <2>1. /\ i \in DOMAIN blockTable'[s] /\ i \in DOMAIN blockTable'[r]
        /\ s # r /\ ~Freeing(r)' /\ blockTable'[s][i] = blockTable'[r][i]
    BY <1>2
  <2>2. /\ i = Len(blockTable[s]) + 1
        /\ call.op # "free"
        /\ blockTable'[r] = blockTable[r]
        /\ blockTable'[s][i] \in Blocks
        /\ \/ AdmitHit /\ s = call.seq
           \/ pool.refCount[blockTable'[s][i]] = 0
    BY <1>2, <2>1, NewEntry
  <2>3. CASE AdmitHit /\ s = call.seq
    <3>1. i = call.i + 1 /\ Start(s)' = i * BlockSize
      BY <2>2, <2>3, HitCovers
    <3>2. i * BlockSize \in Nat
      <4>1. call.i + 1 \in Nat
        BY <2>3, HitCovers
      <4> QED BY <1>0, <3>1, <4>1, Multiples
    <3> QED BY <3>1, <3>2
  <2>4. CASE pool.refCount[blockTable'[s][i]] = 0
    <3>1. i \in Held(r)
      BY <2>1, <2>2 DEF Held
    <3>2. blockTable[r][i] # blockTable'[s][i]
      BY <1>0, <2>2, <2>4, <3>1, UnheldBlock
    <3> QED BY <2>1, <2>2, <3>2
  <2> QED BY <2>2, <2>3, <2>4
<1>3. ASSUME NEW s \in Seqs, NEW r \in Seqs, NEW i, Pair(s, r, i)'
      PROVE  Cached(s, i)' \/ Cached(r, i)'
  <2>1. /\ i \in DOMAIN blockTable'[s] /\ i \in DOMAIN blockTable'[r]
        /\ s # r /\ ~Freeing(s)' /\ ~Freeing(r)' /\ blockTable'[s][i] = blockTable'[r][i]
    BY <1>3
  <2>2. CASE i \notin DOMAIN blockTable[s]
    BY <1>2, <1>3, <2>2
  <2>3. CASE i \notin DOMAIN blockTable[r]
    <3>1. Pair(r, s, i)'
      BY <2>1
    <3> QED BY <1>2, <2>3, <3>1
  <2>4. CASE i \in DOMAIN blockTable[s] /\ i \in DOMAIN blockTable[r]
    <3>1. ~Freeing(s) /\ ~Freeing(r) /\ blockTable[s][i] = blockTable[r][i]
      BY <1>1, <2>1, <2>4
    <3>2. Cached(s, i) \/ Cached(r, i)
      BY <2>1, <2>4, <3>1 DEF WriterOK
    <3> QED BY <1>1, <2>1, <2>4, <3>2
  <2> QED BY <2>2, <2>3, <2>4
<1> QED BY <1>3 DEF WriterOK

-----------------------------------------------------------------------------
(* The batch. *)

\* What prepare_input makes of an item.
IsInput(seg, s, n) ==
    /\ s \in Seqs
    /\ n \in Nat \ {0}
    /\ numComputed[s] + n <= TotalLen(s)
    /\ numComputed[s] + n <= Room(s)
    /\ seg.table = blockTable[s]
    /\ Len(seg.tokens) = numComputed[s] + n
    /\ Written(seg) = numComputed[s] .. numComputed[s] + n - 1
    /\ \A p \in 0 .. numComputed[s] + n - 1 : SubSeq(seg.tokens, 1, p + 1) = Prefix(s, p)

\* prepare_input gives the executor the sequence's own tokens and table.
LEMMA InputSegments ==
    ASSUME PoolTypeOK, QueueData, SubmitForward, NEW k \in DOMAIN scheduled
    PROVE  /\ DOMAIN modelInput' = DOMAIN scheduled
           /\ IsInput(modelInput'[k], scheduled[k].seq, scheduled[k].n)
<1>1. scheduled[k] \in Items /\ InputFits(scheduled[k])
  BY DEF QueueData, SubmitForward
<1>2. PICK s \in Seqs, n \in Nat \ {0} : s = scheduled[k].seq /\ n = scheduled[k].n
  BY <1>1 DEF Items
<1>3. modelInput' = PrepareInput(scheduled)
  BY DEF SubmitForward
<1>4. DOMAIN modelInput' = DOMAIN scheduled /\ modelInput'[k] = Segment(s, numComputed[s], n)
  BY <1>2, <1>3 DEF PrepareInput
<1>5. /\ numComputed[s] \in Nat /\ AllTokenIds(s) \in Seq(Tokens)
      /\ Len(AllTokenIds(s)) = TotalLen(s) /\ TotalLen(s) \in Nat
      /\ numComputed[s] + n <= TotalLen(s) /\ numComputed[s] + n <= Room(s)
  BY <1>1, <1>2, SequenceSizes DEF InputFits, Room, PoolTypeOK
<1> DEFINE m == numComputed[s] + n
           all == AllTokenIds(s)
<1>6. /\ Segment(s, numComputed[s], n).tokens = SubSeq(all, 1, m)
      /\ Segment(s, numComputed[s], n).start = numComputed[s]
      /\ Segment(s, numComputed[s], n).table = blockTable[s]
  BY DEF Segment
<1>7. m \in Nat /\ m <= Len(all) /\ all \in Seq(Tokens)
  BY <1>5
<1>8. ASSUME NEW p \in 0 .. m - 1 PROVE SubSeq(SubSeq(all, 1, m), 1, p + 1) = SubSeq(all, 1, p + 1)
  <2> HIDE DEF m, all
  <2> QED BY <1>7, <1>8
<1>9. Len(SubSeq(all, 1, m)) = m
  <2> HIDE DEF m, all
  <2> QED BY <1>7
<1>10. Written(modelInput'[k]) = numComputed[s] .. m - 1
  <2> DEFINE seg == Segment(s, numComputed[s], n)
  <2>1. seg.start = numComputed[s] /\ Len(seg.tokens) = m
    BY <1>6, <1>9
  <2>2. modelInput'[k] = seg
    BY <1>4
  <2> HIDE DEF seg, m
  <2>3. Written(seg) = numComputed[s] .. m - 1
    BY <2>1 DEF Written
  <2> QED BY <2>2, <2>3
<1>11. modelInput'[k].table = blockTable[s] /\ Len(modelInput'[k].tokens) = m
  <2> HIDE DEF m, all
  <2> QED BY <1>4, <1>6, <1>9
<1>12. ASSUME NEW p \in 0 .. m - 1
       PROVE  SubSeq(modelInput'[k].tokens, 1, p + 1) = Prefix(s, p)
  <2>1. modelInput'[k].tokens = SubSeq(all, 1, m)
    BY <1>4, <1>6
  <2>2. SubSeq(SubSeq(all, 1, m), 1, p + 1) = SubSeq(all, 1, p + 1)
    BY <1>8
  <2> QED BY <2>1, <2>2 DEF Prefix
<1>13. IsInput(modelInput'[k], s, n)
  BY <1>2, <1>5, <1>10, <1>11, <1>12 DEF IsInput
<1> QED BY <1>2, <1>4, <1>13

\* Two sequences with a slot in common agree up to the token of the slot.
LEMMA SameSlot ==
    ASSUME PoolInv, NEW s \in Seqs, NEW r \in Seqs, ~Freeing(s), ~Freeing(r),
           NEW p \in Nat, NEW q \in Nat, p < Room(s), q < Room(r),
           SlotOf(blockTable[s], p) = SlotOf(blockTable[r], q)
    PROVE  /\ p = q
           /\ Prefix(s, p) = Prefix(r, q)
           /\ \E i \in DOMAIN blockTable[s] \cap DOMAIN blockTable[r] :
                 /\ i \in Nat \ {0}
                 /\ p < i * BlockSize
                 /\ blockTable[s][i] = blockTable[r][i]
<1>0. PoolTypeOK /\ SharedBlocksAgree /\ HashNamesContent
  BY InvImplies DEF PoolInv
<1>1. PICK i \in DOMAIN blockTable[s], o \in 0 .. BlockSize - 1 :
         /\ i \in Nat \ {0}
         /\ p = (i - 1) * BlockSize + o
         /\ p < i * BlockSize
         /\ SlotOf(blockTable[s], p) = <<blockTable[s][i], o>>
         /\ blockTable[s][i] \in Blocks
  BY <1>0, SlotOfPosition
<1>2. PICK j \in DOMAIN blockTable[r], u \in 0 .. BlockSize - 1 :
         /\ j \in Nat \ {0}
         /\ q = (j - 1) * BlockSize + u
         /\ q < j * BlockSize
         /\ SlotOf(blockTable[r], q) = <<blockTable[r][j], u>>
  BY <1>0, SlotOfPosition
<1>3. blockTable[s][i] = blockTable[r][j] /\ o = u
  BY <1>1, <1>2
<1>4. i \in Held(s) /\ j \in Held(r)
  BY DEF Held, Freeing
<1>5. CASE <<s, i>> = <<r, j>>
  <2>1. s = r /\ i = j
    BY <1>5
  <2> QED BY <1>1, <1>2, <1>3, <2>1
<1>6. CASE <<s, i>> # <<r, j>>
  <2>1. /\ i = j /\ PrefixOf(s, i) = PrefixOf(r, i)
        /\ pool.hashKey[blockTable[s][i]] # NoHash
    BY <1>0, <1>3, <1>4, <1>6 DEF SharedBlocksAgree
  <2>2. i * BlockSize <= TotalLen(s) /\ i * BlockSize <= TotalLen(r)
    BY <1>0, <1>3, <1>4, <2>1 DEF HashNamesContent
  <2>3. p = q
    BY <1>1, <1>2, <1>3, <2>1
  <2>4. /\ SubSeq(PrefixOf(s, i), 1, p + 1) = Prefix(s, p)
        /\ SubSeq(PrefixOf(r, i), 1, p + 1) = Prefix(r, p)
    BY <1>0, <1>1, <2>2, PrefixInBlock
  <2> QED BY <1>1, <1>3, <2>1, <2>3, <2>4
<1> QED BY <1>5, <1>6

\* A slot that two sequences of a batch have is cached for one of them.
LEMMA BatchWriters ==
    ASSUME EngineInv, ItemsOK, StartOK, WriterOK, SubmitForward
    PROVE  OneWriterPerSlot'
<1>0. /\ PoolInv /\ PoolTypeOK /\ QueueData /\ call.op = "none" /\ Distinct(scheduled)
      /\ BlockSize \in Nat \ {0}
  BY IdleFields, BlockConstants DEF EngineInv, EngineStepOK, PoolInv, SubmitForward, ItemsOK,
     EndPcs
<1>1. DOMAIN modelInput' = DOMAIN scheduled
  BY DEF SubmitForward, PrepareInput
<1>2. ASSUME NEW j \in DOMAIN scheduled, NEW k \in DOMAIN scheduled, j # k,
             NEW p \in Written(modelInput'[j]), NEW q \in Written(modelInput'[k]),
             SlotOf(modelInput'[j].table, p) = SlotOf(modelInput'[k].table, q)
      PROVE  FALSE
  <2>1. PICK s \in Seqs, m \in Nat : /\ s = scheduled[j].seq /\ m = scheduled[j].n
                                     /\ IsInput(modelInput'[j], s, m)
    BY <1>0, InputSegments DEF IsInput
  <2>2. PICK r \in Seqs, n \in Nat : /\ r = scheduled[k].seq /\ n = scheduled[k].n
                                     /\ IsInput(modelInput'[k], r, n)
    BY <1>0, InputSegments DEF IsInput
  <2>3. s # r
    BY <1>0, <1>2, <2>1, <2>2 DEF Distinct
  <2>4. /\ numComputed[s] \in Nat /\ numComputed[r] \in Nat
        /\ Room(s) \in Nat /\ Room(r) \in Nat
    BY <1>0, RoomFacts
  <2>5. /\ p \in Nat /\ q \in Nat /\ p < Room(s) /\ q < Room(r)
        /\ numComputed[s] <= p /\ numComputed[r] <= q
        /\ SlotOf(blockTable[s], p) = SlotOf(blockTable[r], q)
    <3>1. p \in numComputed[s] .. numComputed[s] + m - 1 /\ numComputed[s] + m <= Room(s)
      BY <2>1 DEF IsInput
    <3>2. q \in numComputed[r] .. numComputed[r] + n - 1 /\ numComputed[r] + n <= Room(r)
      BY <2>2 DEF IsInput
    <3>3. modelInput'[j].table = blockTable[s] /\ modelInput'[k].table = blockTable[r]
      BY <2>1, <2>2 DEF IsInput
    <3> QED BY <1>2, <2>4, <3>1, <3>2, <3>3
  <2>6. ~Freeing(s) /\ ~Freeing(r) /\ ~Admitting(s) /\ ~Admitting(r)
    BY <1>0 DEF Freeing, Admitting
  <2>7. p = q
    BY <1>0, <2>5, <2>6, SameSlot
  <2>8. PICK i \in DOMAIN blockTable[s] \cap DOMAIN blockTable[r] :
           /\ i \in Nat \ {0} /\ p < i * BlockSize /\ blockTable[s][i] = blockTable[r][i]
    BY <1>0, <2>5, <2>6, SameSlot
  <2>9. i * BlockSize <= Start(s) \/ i * BlockSize <= Start(r)
    BY <2>3, <2>6, <2>8 DEF WriterOK
  <2>10. /\ Start(s) <= numComputed[s] /\ Start(r) <= numComputed[r]
         /\ Start(s) \in Nat /\ Start(r) \in Nat /\ i * BlockSize \in Nat
    <3>1. numCachedPrefix[s] \in Nat /\ numCachedPrefix[r] \in Nat
      BY <1>0 DEF PoolTypeOK
    <3> QED BY <1>0, <2>6, <2>8, <3>1, Multiples DEF StartOK, Start, Done
  <2> QED BY <2>4, <2>5, <2>7, <2>8, <2>9, <2>10
<1> QED BY <1>1, <1>2 DEF OneWriterPerSlot

\* The batch stays what it was until the executor is done with it.
LEMMA InputStays ==
    ASSUME EngineNext, ~SubmitForward
    PROVE  modelInput' = modelInput \/ modelInput' = <<>>
<1>1. ASSUME PoolCall \/ Schedule \/ LoopDies
      PROVE  modelInput' = modelInput
  BY <1>1 DEF PoolCall, Schedule, LoopDies, Goto, kvVars
<1>2. ASSUME RequestStep
      PROVE  modelInput' = modelInput
  <2>1. CASE Shutdown
    BY <2>1 DEF Shutdown, kvVars
  <2>2. ASSUME NEW s \in Seqs, AddRequest(s)
        PROVE  modelInput' = modelInput
    BY <2>2 DEF AddRequest, kvVars
  <2>3. ASSUME NEW s \in Seqs, Abort(s)
        PROVE  modelInput' = modelInput
    BY <2>3 DEF Abort, kvVars
  <2> QED BY <1>2, <2>1, <2>2, <2>3 DEF RequestStep
<1>3. ASSUME MoveStep
      PROVE  modelInput' = modelInput
  BY <1>3 DEF MoveStep, LoopExit, WaitForWork, Woken, WaitTimeout, ShutdownTimeout,
     Starved, Resume, Goto, kvVars
<1>4. ASSUME ForwardDone \/ Count \/ SampleAll
      PROVE  modelInput' = modelInput \/ modelInput' = <<>>
  BY <1>4 DEF ForwardDone, Count, SampleAll, kvVars
<1>5. ASSUME ApplyStep
      PROVE  modelInput' = modelInput
  BY <1>5 DEF ApplyStep, ApplyToken, ApplyRegister, ApplyStop, ApplyKeep, ApplyEnd, kvVars
<1>6. ASSUME SendStep
      PROVE  modelInput' = modelInput
  BY <1>6 DEF SendStep, FreeFinished, FreeEnd, EmitItem, EmitEnd, kvVars
<1>7. \/ PoolCall \/ Schedule \/ LoopDies \/ RequestStep \/ MoveStep
      \/ ForwardDone \/ Count \/ SampleAll \/ ApplyStep \/ SendStep
  BY DEF EngineNext, LoopStep, RequestStep, MoveStep, ApplyStep, SendStep
<1> QED BY <1>1, <1>2, <1>3, <1>4, <1>5, <1>6, <1>7

\* The inductive invariant of the cache's writers.
WriterInv == OnceInv /\ StartOK /\ WriterOK /\ OneWriterPerSlot

\* The first state has no tables and no batch.
LEMMA WriterInitInv == EngineInit => WriterInv
<1> SUFFICES ASSUME EngineInit PROVE WriterInv
  OBVIOUS
<1>1. /\ modelInput = <<>> /\ call = Idle
      /\ blockTable = [s \in Seqs |-> <<>>]
      /\ numComputed = [s \in Seqs |-> 0] /\ numCachedPrefix = [s \in Seqs |-> 0]
  BY DEF EngineInit, SchedulerInit, SequenceInit
<1>2. \A s \in Seqs : Start(s) = 0 /\ Done(s) = 0
  <2>1. \A s \in Seqs : ~Admitting(s)
    BY <1>1, IdleFields DEF Admitting
  <2> QED BY <1>1, <2>1 DEF Start, Done
<1>3. \A s \in Seqs : blockTable[s] = <<>>
  BY <1>1
<1>4. StartOK
  <2>1. 0 = 0 * BlockSize /\ 0 \in Nat
    BY BlockConstants
  <2>2. \A s \in Seqs : Start(s) <= Done(s)
    <3>1. 0 <= 0
      OBVIOUS
    <3> QED BY <1>2, <3>1, Zenon
  <2>3. \A s \in Seqs : \E m \in Nat : Start(s) = m * BlockSize
    BY <1>2, <2>1, Zenon
  <2> QED BY <2>2, <2>3 DEF StartOK
<1>5. WriterOK
  BY <1>3, EmptySeq DEF WriterOK
<1>6. OneWriterPerSlot
  BY <1>1, EmptySeq DEF OneWriterPerSlot
<1> QED BY <1>4, <1>5, <1>6, OnceInitInv DEF WriterInv

\* A stutter keeps it.
LEMMA WriterStutter ==
    ASSUME WriterInv, UNCHANGED engineVars
    PROVE  WriterInv'
<1>1. UNCHANGED <<seqVars, call, modelInput>>
  BY DEF engineVars, schedulerVars, poolVars, kvVars
<1>2. StartOK' /\ WriterOK'
  BY <1>1 DEF WriterInv, StartOK, WriterOK, Start, Done, Admitting, Freeing, seqVars
<1>3. OneWriterPerSlot'
  BY <1>1 DEF WriterInv, OneWriterPerSlot, Written, SlotOf
<1> QED BY <1>2, <1>3, OnceStutter DEF WriterInv

\* So does every step of the clean engine.
LEMMA WriterStepInv == WriterInv /\ [EngineNext /\ CleanStep]_engineVars => WriterInv'
<1> SUFFICES ASSUME WriterInv, [EngineNext /\ CleanStep]_engineVars PROVE WriterInv'
  OBVIOUS
<1>1. CASE UNCHANGED engineVars
  BY <1>1, WriterStutter
<1>2. CASE EngineNext /\ CleanStep
  <2>0. OnceInv /\ EngineInv /\ StartOK /\ WriterOK /\ ItemsOK
    BY DEF WriterInv, OnceInv
  <2>1. OnceInv'
    BY <1>2, <2>0, OnceStepInv DEF CleanStep
  <2>2. StartOK' /\ WriterOK'
    BY <1>2, <2>0, StartStep, WriterStep
  <2>3. OneWriterPerSlot'
    <3>1. CASE SubmitForward
      BY <2>0, <3>1, BatchWriters
    <3>2. CASE modelInput' = modelInput
      BY <3>2 DEF WriterInv, OneWriterPerSlot, Written, SlotOf
    <3>3. CASE modelInput' = <<>>
      BY <3>3, EmptySeq DEF OneWriterPerSlot
    <3> QED BY <1>2, <3>1, <3>2, <3>3, InputStays
  <2> QED BY <2>1, <2>2, <2>3 DEF WriterInv
<1> QED BY <1>1, <1>2

\* Two sequences that share a block: one of them at least found it in the
\* prefix cache, and writes past it.
THEOREM WriterInvariant == CleanSpec => []WriterInv
<1> QED BY WriterInitInv, WriterStepInv, PTL DEF CleanSpec

\* In the engine without the three ways in which K and V get lost, no slot of
\* the cache is written for two sequences of a batch: a block that is shared
\* is in the cache already for all its holders but one.
THEOREM SlotsHaveOneWriter == CleanSpec => []OneWriterPerSlot
<1>1. WriterInv => OneWriterPerSlot
  BY DEF WriterInv
<1> QED BY <1>1, WriterInvariant, PTL

-----------------------------------------------------------------------------
(* Which block is hashed and not written yet, and who may find it. *)

\* x is in front of y in the queue q.
Before(q, x, y) == \E m, n \in DOMAIN q : m < n /\ q[m] = x /\ q[n] = y

\* r was admitted before a, or will be.
Ahead(r, a) == status[r] = "RUNNING" \/ Before(waiting, r, a)

\* The order of what stays in a queue stays.
LEMMA OrderStays ==
    ASSUME NEW S, NEW q \in Seq(S), NEW x \in S, NEW y, NEW z
    PROVE  /\ Before(Append(q, x), y, z) => Before(q, y, z) \/ z = x
           /\ Before(<<x>> \o q, y, z) => Before(q, y, z) \/ y = x
           /\ q # <<>> => (Before(Tail(q), y, z) => Before(q, y, z))
           /\ NoDuplicates(q) => (Before(Without(q, x), y, z) => Before(q, y, z))
<1>0. Len(q) \in Nat /\ DOMAIN q = 1 .. Len(q)
  OBVIOUS
<1>1. ASSUME Before(Append(q, x), y, z)
      PROVE  Before(q, y, z) \/ z = x
  <2>1. PICK m \in DOMAIN Append(q, x), n \in DOMAIN Append(q, x) :
           m < n /\ Append(q, x)[m] = y /\ Append(q, x)[n] = z
    BY <1>1 DEF Before
  <2>2. m \in 1 .. Len(q) + 1 /\ n \in 1 .. Len(q) + 1
    BY <1>0, <2>1
  <2>3. CASE n = Len(q) + 1
    BY <1>0, <2>1, <2>3
  <2>4. CASE n # Len(q) + 1
    <3>1. m \in DOMAIN q /\ n \in DOMAIN q
      BY <1>0, <2>1, <2>2, <2>4
    <3>2. q[m] = y /\ q[n] = z
      BY <2>1, <3>1, AppendEntries
    <3> QED BY <2>1, <3>1, <3>2 DEF Before
  <2> QED BY <2>3, <2>4
<1>2. ASSUME Before(<<x>> \o q, y, z)
      PROVE  Before(q, y, z) \/ y = x
  <2>1. PICK m \in DOMAIN (<<x>> \o q), n \in DOMAIN (<<x>> \o q) :
           m < n /\ (<<x>> \o q)[m] = y /\ (<<x>> \o q)[n] = z
    BY <1>2 DEF Before
  <2>2. /\ DOMAIN (<<x>> \o q) = 1 .. Len(q) + 1
        /\ \A i \in 1 .. Len(q) + 1 : (<<x>> \o q)[i] = IF i = 1 THEN x ELSE q[i - 1]
    BY <1>0
  <2>3. CASE m = 1
    BY <1>0, <2>1, <2>2, <2>3
  <2>4. CASE m # 1
    <3>1. m - 1 \in DOMAIN q /\ n - 1 \in DOMAIN q /\ m - 1 < n - 1
      BY <1>0, <2>1, <2>2, <2>4
    <3>2. q[m - 1] = y /\ q[n - 1] = z
      BY <1>0, <2>1, <2>2, <2>4
    <3> QED BY <3>1, <3>2 DEF Before
  <2> QED BY <2>3, <2>4
<1>3. ASSUME q # <<>>, Before(Tail(q), y, z)
      PROVE  Before(q, y, z)
  <2>1. PICK m \in DOMAIN Tail(q), n \in DOMAIN Tail(q) :
           m < n /\ Tail(q)[m] = y /\ Tail(q)[n] = z
    BY <1>3 DEF Before
  <2>2. /\ m \in 1 .. Len(q) - 1 /\ n \in 1 .. Len(q) - 1
        /\ q[m + 1] = y /\ q[n + 1] = z
    BY <1>3, <2>1, HeadTail
  <2>3. m + 1 \in DOMAIN q /\ n + 1 \in DOMAIN q /\ m + 1 < n + 1
    BY <1>0, <2>1, <2>2
  <2> QED BY <2>2, <2>3 DEF Before
<1>4. ASSUME NoDuplicates(q), Before(Without(q, x), y, z)
      PROVE  Before(q, y, z)
  <2>1. CASE ~Contains(q, x)
    BY <1>4, <2>1 DEF Without
  <2>2. CASE Contains(q, x)
    <3> DEFINE at == CHOOSE i \in DOMAIN q : q[i] = x
               w == RemoveAt(q, at)
               old(i) == IF i < at THEN i ELSE i + 1
    <3>1. at \in 1 .. Len(q)
      BY <1>0, <2>2 DEF Contains
    <3>2. Without(q, x) = w
      BY <2>2 DEF Without
    <3> HIDE DEF at
    <3>3. /\ w \in Seq(S) /\ Len(w) = Len(q) - 1
          /\ \A i \in 1 .. Len(q) - 1 : w[i] = IF i < at THEN q[i] ELSE q[i + 1]
      BY <3>1, RemoveAtEntries
    <3> HIDE DEF w
    <3>4. DOMAIN w = 1 .. Len(q) - 1
      BY <3>3
    <3>5. PICK m \in DOMAIN w, n \in DOMAIN w : m < n /\ w[m] = y /\ w[n] = z
      BY <1>4, <3>2 DEF Before
    <3>6. /\ old(m) \in DOMAIN q /\ old(n) \in DOMAIN q /\ old(m) < old(n)
          /\ q[old(m)] = y /\ q[old(n)] = z
      BY <1>0, <3>1, <3>3, <3>4, <3>5
    <3> QED BY <3>6 DEF Before
  <2> QED BY <2>1, <2>2
<1> QED BY <1>1, <1>2, <1>3, <1>4

\* What a step does to waiting and to the statuses.
LEMMA QueueMoves ==
    ASSUME EngineInv, EngineNext
    PROVE  \/ UNCHANGED <<waiting, status>>
           \/ \E s \in Seqs : AddRequest(s) \/ Abort(s)
           \/ ApplyStop
           \/ running # <<>> /\ PreemptOne /\ pc \in SchedulePcs
           \/ AdmitHead
           \/ waiting # <<>> /\ StartRunning /\ (NothingToPrefill \/ ScheduleChunk)
<1>0. QueueData /\ EngineStepOK
  BY DEF EngineInv
<1>1. CASE PoolCall
  BY <1>1 DEF PoolCall, queueVars
<1>2. CASE Schedule
  <2>1. CASE StartSchedule \/ DecodeSkip \/ DecodeSchedule \/ DecodeGiveUp \/ EndDecode
    BY <2>1 DEF StartSchedule, DecodeSkip, DecodeSchedule, DecodeGiveUp, EndDecode, queueVars
  <2>2. CASE AdmissionGiveUp \/ PlanChunk \/ EndPrefill
    BY <2>2 DEF AdmissionGiveUp, PlanChunk, EndPrefill, queueVars
  <2>3. CASE DecodePreempt
    BY <2>3 DEF DecodePreempt, DecodeTurn, SchedulePcs
  <2>4. CASE PreemptForAdmission
    BY <2>4 DEF PreemptForAdmission, NeedsAdmission, PrefillTurn, SchedulePcs
  <2>5. CASE NothingToPrefill
    BY <2>5 DEF NothingToPrefill, PrefillTurn
  <2>6. CASE ScheduleChunk
    <3>1. waiting # <<>>
      BY <1>0, <2>6 DEF ScheduleChunk, EngineStepOK
    <3> QED BY <2>6, <3>1 DEF ScheduleChunk, queueVars
  <2> QED BY <1>2, <2>1, <2>2, <2>3, <2>4, <2>5, <2>6 DEF Schedule, ScheduleStep
<1>3. CASE OutsideStep
  BY <1>3, OutsideMoves DEF FreeFinished
<1> QED BY <1>1, <1>2, <1>3 DEF EngineNext, LoopStep, OutsideStep, RequestStep, MoveStep,
          ForwardStep, ApplyStep, SendStep

\* Whoever is in front of a sequence that is being prefilled was before.
LEMMA AheadStays ==
    ASSUME EngineInv, EngineNext, NEW a \in Seqs, NEW r \in Seqs,
           status'[a] = "PREFILLING", Ahead(r, a)'
    PROVE  \/ status[a] = "PREFILLING" /\ Ahead(r, a)
           \/ AdmitHead /\ a = Head(waiting)
<1>0. /\ QueueData /\ QueuesOK /\ EngineStepOK /\ FinishedNowOK
      /\ waiting \in Seq(Seqs) /\ running \in Seq(Seqs) /\ status \in [Seqs -> Statuses]
      /\ NoDuplicates(waiting) /\ NoDuplicates(running)
      /\ Len(waiting) \in Nat /\ DOMAIN waiting = 1 .. Len(waiting)
  BY DEF EngineInv, QueueData, QueuesOK
<1>1. CASE UNCHANGED <<waiting, status>>
  BY <1>1 DEF Ahead
<1>2. ASSUME NEW s \in Seqs, AddRequest(s)
      PROVE  status[a] = "PREFILLING" /\ Ahead(r, a)
  <2>1. status' = [status EXCEPT ![s] = "WAITING"] /\ waiting' = Append(waiting, s)
    BY <1>2 DEF AddRequest, Add, SetStatus
  <2>2. a # s /\ status[a] = "PREFILLING" /\ (status'[r] = "RUNNING" => status[r] = "RUNNING")
    BY <1>0, <2>1
  <2> QED BY <1>0, <2>1, <2>2, OrderStays DEF Ahead
<1>3. ASSUME NEW s \in Seqs, Abort(s)
      PROVE  status[a] = "PREFILLING" /\ Ahead(r, a)
  <2>1. /\ status' = [status EXCEPT ![s] = "FINISHED"]
        /\ waiting' = waiting \/ waiting' = Without(waiting, s)
    BY <1>3 DEF Abort, AbortWaiting, AbortRunning, Finish, SetStatus
  <2>2. a # s /\ status[a] = "PREFILLING" /\ (status'[r] = "RUNNING" => status[r] = "RUNNING")
    BY <1>0, <2>1
  <2>3. Before(Without(waiting, s), r, a) => Before(waiting, r, a)
    BY <1>0, OrderStays
  <2> QED BY <2>1, <2>2, <2>3 DEF Ahead
<1>4. CASE ApplyStop
  <2>1. /\ status' = [status EXCEPT ![Current] = "FINISHED"] /\ waiting' = waiting
    BY <1>4 DEF ApplyStop, Finish, SetStatus
  <2>2. status[a] = "PREFILLING" /\ (status'[r] = "RUNNING" => status[r] = "RUNNING")
    BY <1>0, <2>1
  <2> QED BY <2>1, <2>2 DEF Ahead
<1>5. CASE running # <<>> /\ PreemptOne /\ pc \in SchedulePcs
  <2> DEFINE v == Last(running)
  <2>1. /\ v \in Seqs /\ Contains(running, v)
        /\ status' = [status EXCEPT ![v] = "PREEMPTED"] /\ waiting' = <<v>> \o waiting
    BY <1>0, <1>5, FrontEntries, ContainsFront DEF PreemptOne, SetStatus
  <2>2. a # v /\ status[a] = "PREFILLING" /\ (status'[r] = "RUNNING" => status[r] = "RUNNING")
    BY <1>0, <2>1
  <2>3. status[v] = "RUNNING"
    <3>1. ~EngineReleasing(v)
      BY <1>5 DEF EngineReleasing, SchedulePcs, ApplyPcs
    <3> QED BY <1>0, <2>1, <3>1 DEF FinishedNowOK, QueuesOK, Statuses
  <2> QED BY <1>0, <2>1, <2>2, <2>3, OrderStays DEF Ahead
<1>6. CASE AdmitHead
  <2>1. status' = [status EXCEPT ![Head(waiting)] = "PREFILLING"] /\ waiting' = waiting
    BY <1>6 DEF AdmitHead, SetStatus
  <2> QED BY <1>0, <1>6, <2>1 DEF Ahead
<1>7. CASE waiting # <<>> /\ StartRunning /\ (NothingToPrefill \/ ScheduleChunk)
  <2> DEFINE h == Head(waiting)
  <2>1. /\ h \in Seqs /\ waiting[1] = h /\ waiting' = Tail(waiting)
        /\ status' = [status EXCEPT ![h] = "RUNNING"]
    BY <1>0, <1>7, HeadTail DEF StartRunning, SetStatus
  <2>2. a # h /\ status[a] = "PREFILLING"
    BY <1>0, <2>1
  <2>3. CASE r = h
    <3>1. Contains(waiting, a)
      BY <1>0, <2>2 DEF QueuesOK
    <3>2. PICK n \in DOMAIN waiting : waiting[n] = a
      BY <3>1 DEF Contains
    <3>3. 1 \in DOMAIN waiting /\ 1 < n
      BY <1>0, <2>1, <2>2, <3>2
    <3> QED BY <2>1, <2>2, <2>3, <3>2, <3>3 DEF Ahead, Before
  <2>4. CASE r # h
    <3>1. status'[r] = "RUNNING" => status[r] = "RUNNING"
      BY <1>0, <2>1, <2>4
    <3> QED BY <1>0, <1>7, <2>1, <2>2, <3>1, OrderStays DEF Ahead
  <2> QED BY <2>3, <2>4
<1> QED BY <1>1, <1>2, <1>3, <1>4, <1>5, <1>6, <1>7, QueueMoves

\* A call that is not free() is alone: nothing else runs before it has returned.
LEMMA BusySteps ==
    ASSUME EngineInv, EngineNext, call.op \in {"admit", "ensure", "register"}
    PROVE  PoolCall \/ (LoopDies /\ call.op = "register")
<1>0. EngineStepOK /\ Idle.op = "none" /\ call # Idle
  BY IdleFields DEF EngineInv
<1>1. ~Schedule
  BY <1>0 DEF Schedule, StartSchedule, ScheduleStep, DecodeSkip, DecodeSchedule,
     AppendSlot, DecodePreempt, PreemptOne, Free, DecodeGiveUp, EndDecode, AdmitHead,
     Admit, PreemptForAdmission, AdmissionGiveUp, PlanChunk, EnsureBlocksForChunk,
     NothingToPrefill, ScheduleChunk, EndPrefill, NeedsAdmission, PrefillTurn
<1>2. ~RequestStep /\ ~MoveStep /\ ~ForwardStep
  BY <1>0 DEF RequestStep, AddRequest, Abort, Shutdown, RequestsRun, AtAwait, MoveStep,
     LoopExit, WaitForWork, Woken, WaitTimeout, ShutdownTimeout, Starved, Resume,
     ForwardStep, SubmitForward, ForwardDone, Count, CountItem, SampleAll, EngineStepOK
<1>3. LoopDies => call.op = "register"
  BY <1>0 DEF LoopDies, RegisterIndexError, EngineStepOK
<1>4. ~ApplyStep /\ ~SendStep
  BY <1>0 DEF ApplyStep, ApplyToken, ApplyRegister, RegisterFilledBlocks, ApplyStop,
     ApplyKeep, ApplyEnd, SendStep, FreeFinished, Free, FreeEnd, EmitItem, EmitEnd,
     EngineStepOK
<1> QED BY <1>1, <1>2, <1>3, <1>4 DEF EngineNext, LoopStep, RequestStep, MoveStep,
          ForwardStep, ApplyStep, SendStep

\* While the pool admits a sequence, nothing else runs.
LEMMA AdmitSteps ==
    ASSUME EngineInv, EngineNext, call.op = "admit"
    PROVE  PoolCall /\ (AdmitHit \/ AdmitMiss \/ AdmitFinish)
<1>1. PoolCall
  BY BusySteps
<1> QED BY <1>1 DEF PoolCall, CallStep, EnsureTake, EnsureExit, FreeRelease, FreeClear,
          RegisterSkip, RegisterBlock, RegisterReturn

\* Which call begins when.
LEMMA CallBegins ==
    ASSUME EngineInv, EngineNext, call.op \notin {"admit", "ensure", "register"}
    PROVE  /\ call'.op = "admit" => AdmitHead
           /\ call'.op = "register" => ApplyRegister
<1>0. Idle.op = "none"
  BY IdleFields
<1>1. ASSUME StartSchedule \/ DecodeSkip \/ DecodeSchedule \/ DecodeGiveUp \/ EndDecode
             \/ AdmissionGiveUp \/ NothingToPrefill \/ ScheduleChunk \/ EndPrefill
      PROVE  call' = call
  BY <1>1 DEF StartSchedule, DecodeSkip, DecodeSchedule, AppendSlot, DecodeGiveUp,
     EndDecode, AdmissionGiveUp, NothingToPrefill, ScheduleChunk, EndPrefill, poolVars
<1>2. ASSUME DecodePreempt \/ PreemptForAdmission \/ PlanChunk
      PROVE  call'.op \in {"free", "ensure"}
  BY <1>2, CallFields DEF DecodePreempt, PreemptForAdmission, PreemptOne, Free, Begin,
     PlanChunk, EnsureBlocksForChunk
<1>3. ASSUME PoolCall
      PROVE  call'.op \in {"none", "free"}
  BY <1>0, <1>3, CallFields DEF PoolCall, CallStep, AdmitHit, AdmitMiss, AdmitFinish,
     EnsureTake, EnsureExit, FreeRelease, FreeClear, Advance, RegisterSkip,
     RegisterBlock, RegisterReturn
<1>4. ASSUME RequestStep
      PROVE  call' = call \/ call'.op = "free"
  <2>1. ASSUME NEW r \in Seqs, Abort(r)
        PROVE  call' = call \/ call'.op = "free"
    BY <2>1, CallFields DEF Abort, AbortWaiting, AbortRunning, Free, Begin, poolVars
  <2>2. ASSUME Shutdown \/ \E r \in Seqs : AddRequest(r)
        PROVE  call' = call
    BY <2>2 DEF Shutdown, AddRequest, Add, schedulerVars, poolVars
  <2> QED BY <1>4, <2>1, <2>2 DEF RequestStep
<1>5. ASSUME MoveStep \/ ForwardStep \/ LoopDies
      PROVE  call' = call \/ call' = Idle
  BY <1>5 DEF MoveStep, LoopExit, WaitForWork, Woken, WaitTimeout, ShutdownTimeout,
     Starved, Resume, Goto, ForwardStep, SubmitForward, ForwardDone, Count, CountItem,
     SampleAll, LoopDies, poolVars
<1>6. ASSUME ApplyStep \/ SendStep, ~ApplyRegister
      PROVE  call' = call \/ call'.op = "free"
  BY <1>6, CallFields DEF ApplyStep, ApplyToken, ApplyStop, ApplyKeep, ApplyEnd,
     SendStep, FreeFinished, Free, Begin, FreeEnd, EmitItem, EmitEnd, poolVars
<1>7. ASSUME Schedule
      PROVE  AdmitHead \/ call' = call \/ call'.op \in {"free", "ensure"}
  BY <1>1, <1>2, <1>7 DEF Schedule, ScheduleStep
<1>8. ApplyRegister => call'.op = "register"
  BY CallFields DEF ApplyRegister, RegisterFilledBlocks, Begin
<1>9. AdmitHead => call'.op = "admit"
  BY CallFields DEF AdmitHead, Admit, Begin
<1>10. \/ PoolCall \/ Schedule \/ RequestStep \/ MoveStep \/ ForwardStep
       \/ ApplyStep \/ SendStep \/ LoopDies
  BY DEF EngineNext, LoopStep, RequestStep, MoveStep, ForwardStep, ApplyStep, SendStep
<1> QED BY <1>0, <1>3, <1>4, <1>5, <1>6, <1>7, <1>8, <1>9, <1>10

\* admit() fills in the table of the head of waiting, which nobody waits
\* in front of.
AdmitsHead ==
    call.op = "admit" => pc = "prefill" /\ waiting # <<>> /\ call.seq = Head(waiting)

\* register_filled_blocks hashes blocks that are in the cache in full.
RegisterDue ==
    call.op = "register" => call.n * BlockSize <= numComputed[call.seq]

\* An admission is of the head of waiting, and a registration is of what has
\* been computed.
LEMMA CallStays ==
    ASSUME EngineInv, EngineNext, AdmitsHead, RegisterDue
    PROVE  AdmitsHead' /\ RegisterDue'
<1>0. /\ PoolTypeOK /\ Idle.op = "none" /\ call.op \in CallOps /\ QueueData
      /\ EngineStepOK
  BY IdleFields DEF EngineInv, PoolInv, PoolTypeOK
<1>1. ASSUME call'.op = "admit"
      PROVE  pc' = "prefill" /\ waiting' # <<>> /\ call'.seq = Head(waiting')
  <2>1. CASE call.op = "admit"
    <3>1. PoolCall /\ (AdmitHit \/ AdmitMiss)
      BY <1>0, <1>1, <2>1, AdmitSteps DEF AdmitFinish
    <3>2. call'.seq = call.seq
      BY <3>1, CallFields DEF AdmitHit, AdmitMiss, Advance
    <3> QED BY <2>1, <3>1, <3>2 DEF AdmitsHead, PoolCall, queueVars
  <2>2. CASE call.op # "admit"
    <3>1. call.op \notin {"ensure", "register"}
      BY <1>0, <1>1, <2>2, BusySteps, CallFields DEF PoolCall, CallStep, EnsureTake,
         EnsureExit, RegisterSkip, RegisterBlock, RegisterReturn, AdmitHit, AdmitMiss,
         AdmitFinish, FreeRelease, FreeClear, Advance, LoopDies
    <3>2. AdmitHead
      BY <1>1, <2>2, <3>1, CallBegins
    <3> QED BY <3>2, CallFields DEF AdmitHead, Admit, Begin, NeedsAdmission, PrefillTurn
  <2> QED BY <2>1, <2>2
<1>2. ASSUME call'.op = "register"
      PROVE  call'.n * BlockSize <= numComputed'[call'.seq]
  <2>1. CASE call.op = "register"
    <3>1. PoolCall /\ (RegisterSkip \/ RegisterBlock)
      BY <1>0, <1>2, <2>1, BusySteps DEF PoolCall, CallStep, LoopDies, RegisterReturn,
         AdmitHit, AdmitMiss, AdmitFinish, EnsureTake, EnsureExit, FreeRelease, FreeClear
    <3>2. call'.seq = call.seq /\ call'.n = call.n /\ numComputed' = numComputed
      BY <3>1, CallFields DEF RegisterSkip, RegisterBlock, Advance, seqVars
    <3> QED BY <2>1, <3>2 DEF RegisterDue
  <2>2. CASE call.op # "register"
    <3>1. call.op \notin {"ensure", "admit"}
      BY <1>0, <1>2, <2>2, BusySteps, CallFields DEF PoolCall, CallStep, EnsureTake,
         EnsureExit, RegisterSkip, RegisterBlock, RegisterReturn, AdmitHit, AdmitMiss,
         AdmitFinish, FreeRelease, FreeClear, Advance
    <3>2. ApplyRegister
      BY <1>2, <2>2, <3>1, CallBegins
    <3> DEFINE s == Current
    <3>3. /\ call'.seq = s /\ numComputed' = numComputed
          /\ call'.n = IF EnablePrefixCaching THEN numComputed[s] \div BlockSize ELSE 0
      BY <3>2, CallFields DEF ApplyRegister, RegisterFilledBlocks, Begin, seqVars
    <3>4. s \in Seqs
      BY <1>0, <3>2, DataHeads DEF ApplyRegister, EngineStepOK, Current
    <3>5. numComputed[s] \in Nat /\ BlockSize \in Nat \ {0}
      BY <1>0, <3>4, BlockConstants DEF PoolTypeOK
    <3> HIDE DEF s
    <3> DEFINE m == numComputed[s]
               d == m \div BlockSize
               o == m % BlockSize
    <3>6. d \in Nat /\ o \in Nat /\ m = BlockSize * d + o
      <4>1. d \in Nat /\ o \in 0 .. BlockSize - 1 /\ m = BlockSize * d + o
        BY <3>5, DivMod
      <4> HIDE DEF m, d, o
      <4> QED BY <3>5, <4>1
    <3>7. d * BlockSize <= m /\ 0 * BlockSize <= m
      <4> HIDE DEF d, o
      <4>1. d * BlockSize = BlockSize * d /\ BlockSize * d \in Nat
        BY <3>5, <3>6
      <4>2. 0 * BlockSize = 0
        BY <3>5
      <4> QED BY <3>5, <3>6, <4>1, <4>2
    <3> QED BY <3>3, <3>7
  <2> QED BY <2>1, <2>2
<1> QED BY <1>1, <1>2 DEF AdmitsHead, RegisterDue

\* The block admit() is at, and what its hash names.
LEMMA AdmitNames ==
    ASSUME PoolInv, call.op = "admit", call.i < call.n
    PROVE  /\ call.seq \in Seqs /\ call.i \in Nat /\ call.cached \in Nat
           /\ call.i = Len(blockTable[call.seq])
           /\ call.cached <= call.i * BlockSize
           /\ (call.i + 1) * BlockSize <= PromptLen(call.seq)
           /\ (call.i + 1) * BlockSize <= TotalLen(call.seq)
           /\ AdmitHash = PrefixOf(call.seq, call.i + 1)
           /\ AdmitHash \in Hashes /\ AdmitHash # NoHash
<1> DEFINE s == call.seq
<1>1. /\ PoolTypeOK /\ AdmitOK /\ s \in Seqs /\ call.i \in Nat /\ call.n \in Nat
      /\ call.cached \in Nat
  BY DEF PoolInv, CallOK, PoolTypeOK
<1>2. /\ call.n = NumFull(s) /\ call.i = Len(blockTable[s])
      /\ call.prev = PrefixOf(s, call.i) /\ call.cached <= call.i * BlockSize
  BY <1>1 DEF AdmitOK
<1>3. /\ NumFull(s) \in Nat /\ NumFull(s) * BlockSize <= PromptLen(s)
      /\ PromptLen(s) \in Nat /\ TotalLen(s) \in Nat /\ PromptLen(s) <= TotalLen(s)
  BY <1>1, PromptBlocks, SequenceSizes
<1>4. (call.i + 1) * BlockSize <= PromptLen(s) /\ (call.i + 1) * BlockSize <= TotalLen(s)
  <2>1. call.i + 1 \in Nat /\ call.i + 1 <= NumFull(s)
    BY <1>1, <1>2, <1>3
  <2>2. /\ (call.i + 1) * BlockSize <= NumFull(s) * BlockSize
        /\ (call.i + 1) * BlockSize \in Nat /\ NumFull(s) * BlockSize \in Nat
    BY <1>3, <2>1, Multiples, BlockConstants
  <2> HIDE DEF s
  <2> QED BY <1>3, <2>2
<1>5. AdmitHash = PrefixOf(s, call.i + 1) /\ AdmitHash \in Hashes /\ AdmitHash # NoHash
  BY <1>1, <1>2, <1>4, ChainStep DEF AdmitHash
<1> QED BY <1>1, <1>2, <1>4, <1>5

\* A table entry that counts is a reference.
LEMMA HeldBlock ==
    ASSUME PoolInv, NEW s \in Seqs, ~Freeing(s), NEW i \in DOMAIN blockTable[s]
    PROVE  /\ i \in Held(s) /\ blockTable[s][i] \in Blocks
           /\ pool.refCount[blockTable[s][i]] # 0
<1>1. PoolTypeOK /\ blockTable[s] \in Seq(Blocks)
  BY DEF PoolInv, PoolTypeOK
<1>2. i \in Held(s)
  BY DEF Held, Freeing
<1>3. blockTable[s][i] \in Blocks
  BY <1>1
<1> QED BY <1>2, <1>3, UnheldBlock

\* The blocks of a sequence at work are not being freed.
LEMMA LiveHolds ==
    ASSUME EngineInv, NEW s \in Seqs, status[s] \in {"RUNNING", "PREFILLING"}
    PROVE  ~Freeing(s)
BY DEF EngineInv, EngineTablesOK, Freeing

\* When a block gets another hash.
LEMMA HashSteps ==
    ASSUME EngineInv, EngineNext, NEW b \in Blocks
    PROVE  \/ pool'.hashKey[b] = pool.hashKey[b]
           \/ pool'.hashKey[b] = NoHash /\ pool.refCount[b] = 0
           \/ /\ AdmitMiss /\ b = NextFree(pool) /\ pool.refCount[b] = 0
              /\ pool'.hashKey[b] = PrefixOf(call.seq, call.i + 1)
           \/ /\ RegisterBlock /\ b = blockTable[call.seq][call.i + 1]
              /\ call.i + 1 \in DOMAIN blockTable[call.seq]
              /\ pool.hashKey[b] = NoHash
              /\ pool'.hashKey[b] = PrefixOf(call.seq, call.i + 1)
<1>0. /\ PoolInv /\ PoolTypeOK /\ PoolOK(pool) /\ CallOK
      /\ pool.hashKey \in [Blocks -> Hashes] /\ pool.refCount \in [Blocks -> Nat]
      /\ blockTable \in [Seqs -> Seq(Blocks)]
      /\ call.op # "none" => call.seq \in Seqs
      /\ call.i \in Nat /\ call.n \in Nat
  BY TypedFields DEF EngineInv, PoolInv, PoolTypeOK
<1>1. CASE UNCHANGED <<blockTable, pool>>
  BY <1>1
<1>2. ASSUME NEW s \in Seqs, TakesFresh(s)
      PROVE  \/ pool'.hashKey[b] = pool.hashKey[b]
             \/ pool'.hashKey[b] = NoHash /\ pool.refCount[b] = 0
  <2>1. pool' = TakeFreeBlock(pool) /\ NumFree(pool) > 0
    BY <1>2 DEF TakesFresh, GrowTable
  <2> QED BY <1>0, <2>1, TakeFacts
<1>3. CASE AdmitHit
  <2>1. /\ AdmitHash \in DOMAIN pool.cache /\ pool' = Share(pool, pool.cache[AdmitHash])
    BY <1>3 DEF AdmitHit, IsHit
  <2>2. Share(pool, pool.cache[AdmitHash]).hashKey = pool.hashKey
    BY PoolFields DEF Share
  <2> QED BY <2>1, <2>2
<1>4. CASE AdmitMiss
  <2> DEFINE f == NextFree(pool)
             q == TakeFreeBlock(pool)
  <2>1. pool' = Register(q, f, AdmitHash) /\ call.op = "admit" /\ call.i < call.n
        /\ NumFree(pool) > 0
    BY <1>4 DEF AdmitMiss
  <2>2. /\ f \in Blocks /\ pool.refCount[f] = 0 /\ PoolOK(q)
        /\ q.hashKey = [pool.hashKey EXCEPT ![f] = NoHash]
        /\ q.refCount = [pool.refCount EXCEPT ![f] = 1]
    BY <1>0, <2>1, TakeFacts
  <2>3. AdmitHash = PrefixOf(call.seq, call.i + 1) /\ AdmitHash \in Hashes /\ AdmitHash # NoHash
    BY <1>0, <2>1, AdmitNames
  <2>4. q.refCount[f] > 0 /\ q.hashKey[f] = NoHash
    BY <1>0, <2>2
  <2> HIDE DEF f, q
  <2>5. pool'.hashKey \in {q.hashKey, [q.hashKey EXCEPT ![f] = AdmitHash]}
    BY <2>1, <2>2, <2>3, <2>4, RegisterFacts
  <2>6. CASE b # f
    BY <1>0, <2>2, <2>5, <2>6
  <2>7. CASE b = f
    <3>1. pool'.hashKey[b] \in {NoHash, AdmitHash}
      BY <1>0, <2>2, <2>5, <2>7
    <3> QED BY <1>4, <2>2, <2>3, <2>7, <3>1 DEF f
  <2> QED BY <2>6, <2>7
<1>5. CASE FreeRelease
  <2>1. pool' = Release(pool, blockTable[call.seq][call.i + 1])
    BY <1>5 DEF FreeRelease
  <2>2. ASSUME NEW x PROVE Release(pool, x).hashKey = pool.hashKey
    <3> DEFINE left == [pool.refCount EXCEPT ![x] = @ - 1]
               cached == pool.hashKey[x] # NoHash /\ EnablePrefixCaching
               fu == IF left[x] = 0 /\ ~cached THEN Append(pool.freeUncached, x)
                                               ELSE pool.freeUncached
               fc == IF left[x] = 0 /\ cached THEN Append(pool.freeCached, x)
                                              ELSE pool.freeCached
    <3>1. Release(pool, x) = Pool(left, pool.hashKey, fu, fc, pool.cache)
      BY DEF Release
    <3> HIDE DEF left, cached, fu, fc
    <3> QED BY <3>1, PoolFields
  <2> QED BY <2>1, <2>2
<1>6. CASE FreeClear
  BY <1>6 DEF FreeClear
<1>7. CASE RegisterBlock
  <2> DEFINE s == call.seq
             c == blockTable[s][call.i + 1]
             h == BlockHash(call.prev, BlockTokens(s, call.i))
  <2>1. /\ call.op = "register" /\ call.i < call.n /\ ~RegisterIndexError
        /\ pool.hashKey[c] = NoHash /\ pool' = Register(pool, c, h)
    BY <1>7 DEF RegisterBlock
  <2>2. /\ s \in Seqs /\ Len(blockTable[s]) \in Nat /\ blockTable[s] \in Seq(Blocks)
        /\ DOMAIN blockTable[s] = 1 .. Len(blockTable[s])
        /\ TotalLen(s) \in Nat
    BY <1>0, <2>1, SequenceSizes
  <2>3. call.i < Len(blockTable[s])
    BY <1>0, <2>1, <2>2 DEF RegisterIndexError
  <2>4. call.i + 1 \in DOMAIN blockTable[s] /\ c \in Blocks
    BY <1>0, <2>2, <2>3
  <2>5. ~(TotalLen(s) < (call.i + 1) * BlockSize)
    BY <2>1, <2>3 DEF RegisterIndexError
  <2>6. (call.i + 1) * BlockSize <= TotalLen(s)
    <3>1. call.i + 1 \in Nat
      BY <1>0
    <3>2. (call.i + 1) * BlockSize \in Nat
      BY <3>1, Multiples, BlockConstants
    <3> HIDE DEF s
    <3> QED BY <2>2, <2>5, <3>2
  <2>7. call.prev = PrefixOf(s, call.i)
    BY <1>0, <2>1 DEF CallOK, RegisterOK
  <2>8. h = PrefixOf(s, call.i + 1) /\ h \in Hashes /\ h # NoHash
    BY <1>0, <2>2, <2>6, <2>7, ChainStep
  <2>9. pool.refCount[c] # 0
    <3>1. ~Freeing(s)
      BY <2>1 DEF Freeing
    <3> QED BY <1>0, <2>2, <2>4, <3>1, HeldBlock
  <2> HIDE DEF c, h
  <2>10. pool'.hashKey \in {pool.hashKey, [pool.hashKey EXCEPT ![c] = h]}
    <3>1. pool.refCount[c] > 0
      BY <1>0, <2>4, <2>9
    <3> QED BY <1>0, <2>1, <2>4, <2>8, <3>1, RegisterFacts
  <2>11. CASE b # c
    BY <1>0, <2>10, <2>11
  <2>12. CASE b = c
    <3>1. pool'.hashKey[b] \in {pool.hashKey[b], h}
      BY <1>0, <2>10, <2>12
    <3> QED BY <1>7, <2>1, <2>4, <2>8, <2>12, <3>1 DEF c
  <2> QED BY <2>11, <2>12
<1> QED BY <1>1, <1>2, <1>3, <1>4, <1>5, <1>6, <1>7, TableSteps

-----------------------------------------------------------------------------
(* The tokens of a sequence only get more. *)

\* A step gives a sequence one more token, or none.
LEMMA TokenSteps ==
    ASSUME EngineInv, EngineNext, NEW s \in Seqs
    PROVE  /\ prompt' = prompt
           /\ \/ output'[s] = output[s]
              \/ \E t \in Tokens : output'[s] = Append(output[s], t)
<1>0. /\ output \in [Seqs -> Seq(Tokens)] /\ QueueData /\ EngineData
      /\ newTokens \in [DOMAIN newTokens -> Tokens] /\ DOMAIN newTokens \subseteq Seqs
  BY DEF EngineInv, PoolInv, PoolTypeOK, EngineData
<1>1. CASE PoolCall
  BY <1>1 DEF PoolCall, CallStep, AdmitHit, AdmitMiss, AdmitFinish, EnsureTake, EnsureExit,
     FreeRelease, FreeClear, RegisterSkip, RegisterBlock, RegisterReturn, seqVars
<1>2. CASE Schedule
  BY <1>2 DEF Schedule, StartSchedule, ScheduleStep, DecodeSkip, DecodeSchedule,
     DecodePreempt, DecodeGiveUp, EndDecode, AdmitHead, PreemptForAdmission,
     AdmissionGiveUp, PlanChunk, NothingToPrefill, ScheduleChunk, EndPrefill, PreemptOne,
     Free, AppendSlot, Admit, EnsureBlocksForChunk, poolVars, seqVars
<1>3. CASE ApplyToken
  <2>1. prompt' = prompt
    BY <1>3 DEF ApplyToken
  <2>2. CASE Current \in DOMAIN newTokens
    <3>1. output' = [output EXCEPT ![Current] = Append(@, newTokens[Current])]
      BY <1>3, <2>2 DEF ApplyToken, AppendOutputToken
    <3>2. newTokens[Current] \in Tokens
      BY <1>0, <2>2
    <3> QED BY <1>0, <2>1, <3>1, <3>2
  <2>3. CASE Current \notin DOMAIN newTokens
    BY <1>3, <2>1, <2>3 DEF ApplyToken
  <2> QED BY <2>2, <2>3
<1>4. ASSUME RequestStep \/ MoveStep \/ ForwardStep
      PROVE  UNCHANGED <<prompt, output>>
  BY <1>4 DEF RequestStep, AddRequest, Add, Abort, AbortWaiting, AbortRunning, Free,
     Shutdown, schedulerVars, MoveStep, LoopExit, WaitForWork, Woken, WaitTimeout,
     ShutdownTimeout, Starved, Resume, Goto, ForwardStep, SubmitForward, ForwardDone,
     Count, CountItem, SampleAll, poolVars, seqVars
<1>5. ASSUME ApplyStep \/ SendStep \/ LoopDies, ~ApplyToken
      PROVE  UNCHANGED <<prompt, output>>
  BY <1>5 DEF ApplyStep, ApplyRegister, RegisterFilledBlocks, ApplyStop,
     ApplyKeep, ApplyEnd, SendStep, FreeFinished, Free, FreeEnd, EmitItem, EmitEnd,
     LoopDies, poolVars, seqVars
<1>6. EngineNext => \/ PoolCall \/ Schedule \/ RequestStep \/ MoveStep \/ ForwardStep
                    \/ ApplyStep \/ SendStep \/ LoopDies
  BY DEF EngineNext, LoopStep, RequestStep, MoveStep, ForwardStep, ApplyStep, SendStep
<1> QED BY <1>1, <1>2, <1>3, <1>4, <1>5, <1>6

\* A token at the end leaves what is before it alone.
LEMMA AppendPrefix ==
    ASSUME NEW S, NEW q \in Seq(S), NEW r \in Seq(S), NEW t \in S
    PROVE  /\ Len(Append(r, t)) = Len(r) + 1 /\ Len(q) + Len(r) \in Nat
           /\ \A m \in Nat : m <= Len(q) + Len(r) =>
                 SubSeq(q \o Append(r, t), 1, m) = SubSeq(q \o r, 1, m)
<1>1. /\ Append(r, t) \in Seq(S) /\ Len(Append(r, t)) = Len(r) + 1
      /\ \A i \in 1 .. Len(r) : Append(r, t)[i] = r[i]
      /\ Len(q) \in Nat /\ Len(r) \in Nat
  OBVIOUS
<1>2. ASSUME NEW m \in Nat, m <= Len(q) + Len(r)
      PROVE  SubSeq(q \o Append(r, t), 1, m) = SubSeq(q \o r, 1, m)
  <2> DEFINE a == q \o Append(r, t)
             b == q \o r
  <2>1. /\ a \in Seq(S) /\ b \in Seq(S)
        /\ Len(a) = Len(q) + Len(r) + 1 /\ Len(b) = Len(q) + Len(r)
        /\ \A i \in 1 .. m : a[i] = b[i]
    BY <1>1, <1>2
  <2> HIDE DEF a, b
  <2> QED BY <1>1, <1>2, <2>1
<1> QED BY <1>1, <1>2

\* What is computed for a position stays what it is.
LEMMA PrefixStays ==
    ASSUME EngineInv, EngineNext, NEW s \in Seqs
    PROVE  /\ TotalLen(s) <= TotalLen(s)' /\ TotalLen(s)' \in Nat
           /\ PromptLen(s)' = PromptLen(s) /\ CapFull(s)' = CapFull(s)
           /\ \A p \in Nat : p < TotalLen(s) => Prefix(s, p)' = Prefix(s, p)
           /\ \A i \in Nat : i * BlockSize <= TotalLen(s) => PrefixOf(s, i)' = PrefixOf(s, i)
<1> DEFINE all == AllTokenIds(s)
<1>0. /\ PoolTypeOK /\ all \in Seq(Tokens) /\ Len(all) = TotalLen(s) /\ TotalLen(s) \in Nat
      /\ prompt[s] \in Seq(Tokens) /\ output[s] \in Seq(Tokens)
      /\ BlockSize \in Nat \ {0}
  BY SequenceSizes, BlockConstants DEF EngineInv, PoolInv
<1>1. /\ PromptLen(s)' = PromptLen(s) /\ CapFull(s)' = CapFull(s)
  BY TokenSteps DEF PromptLen, CapFull, NumFull
<1>2. /\ TotalLen(s)' \in {TotalLen(s), TotalLen(s) + 1}
      /\ \A m \in Nat : m <= TotalLen(s) => SubSeq(AllTokenIds(s)', 1, m) = SubSeq(all, 1, m)
  <2>1. CASE output'[s] = output[s]
    BY <2>1, TokenSteps DEF AllTokenIds, TotalLen
  <2>2. ASSUME NEW t \in Tokens, output'[s] = Append(output[s], t)
        PROVE  /\ TotalLen(s)' = TotalLen(s) + 1
               /\ \A m \in Nat : m <= TotalLen(s) =>
                     SubSeq(AllTokenIds(s)', 1, m) = SubSeq(all, 1, m)
    <3>1. /\ AllTokenIds(s)' = prompt[s] \o Append(output[s], t)
          /\ TotalLen(s)' = Len(prompt[s]) + Len(Append(output[s], t))
      BY <2>2, TokenSteps DEF AllTokenIds, TotalLen
    <3> DEFINE q == prompt[s]
               r == output[s]
    <3>2. q \in Seq(Tokens) /\ r \in Seq(Tokens)
      BY <1>0
    <3>3. all = q \o r /\ TotalLen(s) = Len(q) + Len(r)
      BY DEF AllTokenIds, TotalLen
    <3> HIDE DEF q, r, all
    <3>4. /\ Len(Append(r, t)) = Len(r) + 1 /\ Len(q) + Len(r) \in Nat
          /\ \A m \in Nat : m <= Len(q) + Len(r) =>
                SubSeq(q \o Append(r, t), 1, m) = SubSeq(q \o r, 1, m)
      BY <3>2, AppendPrefix
    <3>5. AllTokenIds(s)' = q \o Append(r, t) /\ TotalLen(s)' = Len(q) + Len(Append(r, t))
      BY <3>1 DEF q, r
    <3> QED BY <3>2, <3>3, <3>4, <3>5
  <2> QED BY <2>1, <2>2, TokenSteps
<1>3. \A m \in Nat : m <= TotalLen(s) => SubSeq(AllTokenIds(s)', 1, m) = SubSeq(all, 1, m)
  BY <1>2
<1>4. TotalLen(s) <= TotalLen(s)' /\ TotalLen(s)' \in Nat
  BY <1>0, <1>2
<1>5. ASSUME NEW p \in Nat, p < TotalLen(s) PROVE Prefix(s, p)' = Prefix(s, p)
  <2>1. p + 1 \in Nat /\ p + 1 <= TotalLen(s)
    BY <1>0, <1>5
  <2> QED BY <1>3, <2>1 DEF Prefix
<1>6. ASSUME NEW i \in Nat, i * BlockSize <= TotalLen(s)
      PROVE  PrefixOf(s, i)' = PrefixOf(s, i)
  <2>1. i * BlockSize \in Nat
    BY <1>0, <1>6, Multiples
  <2> QED BY <1>3, <1>6, <2>1 DEF PrefixOf
<1> QED BY <1>1, <1>4, <1>5, <1>6

\* The blocks of a prompt that are full do not depend on the output.
PromptPrefix(s, i) == SubSeq(prompt[s], 1, i * BlockSize)

\* The hashes an admission gives are of the prompt alone.
LEMMA PromptNames ==
    ASSUME PoolTypeOK, NEW s \in Seqs, NEW i \in Nat
    PROVE  /\ i * BlockSize <= PromptLen(s) => PrefixOf(s, i) = PromptPrefix(s, i)
           /\ i <= CapFull(s) => i * BlockSize <= PromptLen(s)
           /\ CapFull(s) <= NumFull(s)
           /\ CapFull(s) <= NumBlocksNeededFor(PromptLen(s))
<1>0. /\ prompt[s] \in Seq(Tokens) /\ output[s] \in Seq(Tokens) /\ BlockSize \in Nat \ {0}
      /\ i * BlockSize \in Nat /\ PromptLen(s) \in Nat
      /\ CapFull(s) \in Nat /\ NumFull(s) \in Nat /\ CapFull(s) * BlockSize < PromptLen(s)
      /\ NumBlocksNeededFor(PromptLen(s)) = NumFull(s) + (IF HasTail(s) THEN 1 ELSE 0)
  BY SequenceSizes, BlockConstants, Multiples, PromptBlocks
<1>1. i * BlockSize <= PromptLen(s) => PrefixOf(s, i) = PromptPrefix(s, i)
  BY <1>0, PrefixOfConcat DEF PrefixOf, PromptPrefix, AllTokenIds, PromptLen
<1>2. ASSUME i <= CapFull(s) PROVE i * BlockSize <= PromptLen(s)
  <2>1. i * BlockSize <= CapFull(s) * BlockSize /\ CapFull(s) * BlockSize \in Nat
    BY <1>0, <1>2, Multiples
  <2> QED BY <1>0, <2>1
<1>3. CapFull(s) <= NumFull(s)
  BY <1>0 DEF CapFull
<1> QED BY <1>0, <1>1, <1>2, <1>3

-----------------------------------------------------------------------------
(* The hashes of a prompt's blocks. *)

\* A sequence at work was at work, or its admission begins.
LEMMA LiveBefore ==
    ASSUME OnceInv, EngineNext, NEW s \in Seqs, status'[s] \in {"RUNNING", "PREFILLING"}
    PROVE  \/ status[s] \in {"RUNNING", "PREFILLING"}
           \/ UNCHANGED blockTable /\ blockTable[s] = <<>>
<1>0. /\ EngineInv /\ EngineStepOK /\ waiting \in Seq(Seqs) /\ running \in Seq(Seqs)
      /\ status \in [Seqs -> Statuses]
  BY DEF OnceInv, EngineInv, QueueData
<1>1. CASE UNCHANGED <<waiting, status>>
  BY <1>1
<1>2. ASSUME NEW r \in Seqs, AddRequest(r) \/ Abort(r)
      PROVE  status[s] \in {"RUNNING", "PREFILLING"}
  <2>1. \/ status' = [status EXCEPT ![r] = "WAITING"]
        \/ status' = [status EXCEPT ![r] = "FINISHED"]
    BY <1>2 DEF AddRequest, Add, Abort, AbortWaiting, AbortRunning, Finish, SetStatus
  <2> QED BY <1>0, <2>1
<1>3. CASE ApplyStop
  BY <1>0, <1>3 DEF ApplyStop, Finish, SetStatus
<1>4. CASE running # <<>> /\ PreemptOne /\ pc \in SchedulePcs
  BY <1>0, <1>4 DEF PreemptOne, SetStatus
<1>5. CASE AdmitHead
  <2>1. /\ status' = [status EXCEPT ![Head(waiting)] = "PREFILLING"]
        /\ UNCHANGED blockTable /\ blockTable[Head(waiting)] = <<>>
    BY <1>5 DEF AdmitHead, Admit, SetStatus, seqVars
  <2> QED BY <1>0, <2>1
<1>6. CASE waiting # <<>> /\ StartRunning /\ (NothingToPrefill \/ ScheduleChunk)
  <2>1. call = Idle /\ pc \in SchedulePcs /\ blockTable[Head(waiting)] # <<>>
    BY <1>0, <1>6 DEF NothingToPrefill, ScheduleChunk, PrefillTurn, EngineStepOK, SchedulePcs
  <2>2. status[Head(waiting)] = "PREFILLING"
    BY <1>6, <2>1, HeadIsPrefilled
  <2>3. status' = [status EXCEPT ![Head(waiting)] = "RUNNING"]
    BY <1>6 DEF StartRunning, SetStatus
  <2> QED BY <1>0, <2>2, <2>3
<1> QED BY <1>0, <1>1, <1>2, <1>3, <1>4, <1>5, <1>6, QueueMoves

\* An entry of a table that is not being freed stays, and so does its hash.
LEMMA EntryStays ==
    ASSUME EngineInv, EngineNext, NEW s \in Seqs, ~Freeing(s), NEW i \in DOMAIN blockTable[s]
    PROVE  /\ i \in DOMAIN blockTable'[s] /\ blockTable'[s][i] = blockTable[s][i]
           /\ blockTable[s][i] \in Blocks
           /\ pool.hashKey[blockTable[s][i]] # NoHash
                 => pool'.hashKey[blockTable[s][i]] = pool.hashKey[blockTable[s][i]]
<1>1. PoolInv
  BY DEF EngineInv
<1>2. i \in DOMAIN blockTable'[s] /\ blockTable'[s][i] = blockTable[s][i]
  BY FreeingSteps
<1>3. blockTable[s][i] \in Blocks /\ pool.refCount[blockTable[s][i]] # 0
  BY <1>1, HeldBlock
<1>4. pool.hashKey[blockTable[s][i]] # NoHash
         => pool'.hashKey[blockTable[s][i]] = pool.hashKey[blockTable[s][i]]
  BY <1>3, HashSteps
<1> QED BY <1>2, <1>3, <1>4

\* A sequence that is not being admitted has blocks for its prompt.
LEMMA PromptHasBlocks ==
    ASSUME EngineInv, NEW s \in Seqs, status[s] \in {"RUNNING", "PREFILLING"},
           ~Admitting(s), NEW i \in Nat \ {0}, i <= CapFull(s)
    PROVE  i \in DOMAIN blockTable[s]
<1>1. /\ PoolTypeOK /\ EngineTableOK(s) /\ blockTable[s] \in Seq(Blocks)
  BY DEF EngineInv, EngineTablesOK, PoolInv, PoolTypeOK
<1>2. /\ Len(blockTable[s]) >= NumBlocksNeededFor(PromptLen(s))
      /\ Len(blockTable[s]) \in Nat
  BY <1>1, PromptNeedsBlock DEF EngineTableOK
<1>3. /\ CapFull(s) <= NumBlocksNeededFor(PromptLen(s)) /\ CapFull(s) \in Nat
      /\ NumBlocksNeededFor(PromptLen(s)) \in Nat
  BY <1>1, PromptNames, PromptBlocks, PromptNeedsBlock
<1>4. i <= Len(blockTable[s])
  BY <1>2, <1>3
<1> QED BY <1>1, <1>2, <1>4

\* What admit() hashes a fresh block for.
LEMMA MissHash ==
    ASSUME EngineInv, AdmitMiss, NEW b, b = NextFree(pool)
    PROVE  /\ b \in Blocks /\ pool.refCount[b] = 0
           /\ pool'.hashKey[b] \in {NoHash, AdmitHash}
           /\ (EnablePrefixCaching /\ call.i < CapFull(call.seq))
                 => pool'.hashKey[b] = AdmitHash
<1> DEFINE q == TakeFreeBlock(pool)
<1>0. /\ PoolInv /\ PoolOK(pool) /\ NumFree(pool) > 0 /\ call.op = "admit" /\ call.i < call.n
      /\ pool' = Register(q, b, AdmitHash) /\ pool.hashKey \in [Blocks -> Hashes]
      /\ pool.refCount \in [Blocks -> Nat] /\ DOMAIN q.cache \subseteq DOMAIN pool.cache
  <2>1. /\ PoolInv /\ PoolOK(pool) /\ NumFree(pool) > 0 /\ call.op = "admit" /\ call.i < call.n
        /\ pool' = Register(q, b, AdmitHash) /\ pool.hashKey \in [Blocks -> Hashes]
        /\ pool.refCount \in [Blocks -> Nat]
    BY TypedFields DEF EngineInv, PoolInv, PoolOK, AdmitMiss
  <2>2. DOMAIN q.cache \subseteq DOMAIN pool.cache
    BY PoolFields DEF TakeFreeBlock, Restrict
  <2> QED BY <2>1, <2>2
<1>1. /\ b \in Blocks /\ pool.refCount[b] = 0 /\ PoolOK(q)
      /\ q.hashKey = [pool.hashKey EXCEPT ![b] = NoHash]
      /\ q.refCount = [pool.refCount EXCEPT ![b] = 1]
  BY <1>0, TakeFacts
<1>2. AdmitHash \in Hashes /\ AdmitHash # NoHash
  BY <1>0, AdmitNames
<1>3. q.refCount[b] > 0 /\ q.hashKey[b] = NoHash /\ q.hashKey \in [Blocks -> Hashes]
  <2>1. q.refCount[b] > 0 /\ q.hashKey[b] = NoHash
    <3> HIDE DEF q
    <3> QED BY <1>0, <1>1
  <2>2. q.hashKey \in [Blocks -> Hashes]
    <3> HIDE DEF q
    <3> QED BY <1>1, TypedFields DEF PoolOK
  <2> QED BY <2>1, <2>2
<1> HIDE DEF q
<1>4. pool'.hashKey \in {q.hashKey, [q.hashKey EXCEPT ![b] = AdmitHash]}
  BY <1>0, <1>1, <1>2, <1>3, RegisterFacts
<1>5. pool'.hashKey[b] \in {NoHash, AdmitHash}
  BY <1>1, <1>3, <1>4
<1>6. ASSUME EnablePrefixCaching, call.i < CapFull(call.seq)
      PROVE  pool'.hashKey[b] = AdmitHash
  <2>1. AdmitHash \notin DOMAIN pool.cache
    BY <1>6 DEF AdmitMiss, IsHit
  <2>2. AdmitHash \notin DOMAIN q.cache
    BY <1>0, <2>1
  <2>3. pool'.hashKey = [q.hashKey EXCEPT ![b] = AdmitHash]
    BY <1>0, <1>6, <2>2, PoolFields DEF Register
  <2> QED BY <1>1, <1>3, <2>3
<1> QED BY <1>1, <1>5, <1>6

\* The hash of a block that a sequence at work gets.
LEMMA NewEntryHash ==
    ASSUME EngineInv, EngineNext, NEW s \in Seqs, status[s] \in {"RUNNING", "PREFILLING"},
           NEW i \in DOMAIN blockTable'[s], i \notin DOMAIN blockTable[s],
           NEW b, b = blockTable'[s][i]
    PROVE  /\ b \in Blocks
           /\ \/ /\ AdmitHit /\ s = call.seq /\ i = call.i + 1
                 /\ i <= CapFull(s) /\ i * BlockSize <= PromptLen(s)
                 /\ pool.hashKey[b] = PrefixOf(s, i) /\ pool'.hashKey[b] = PrefixOf(s, i)
              \/ /\ AdmitMiss /\ s = call.seq /\ i = call.i + 1
                 /\ i * BlockSize <= PromptLen(s) /\ pool.refCount[b] = 0
                 /\ pool'.hashKey[b] \in {NoHash, PrefixOf(s, i)}
                 /\ (EnablePrefixCaching /\ i <= CapFull(s))
                       => pool'.hashKey[b] = PrefixOf(s, i)
              \/ /\ i > CapFull(s) /\ pool'.hashKey[b] = NoHash
<1>0. /\ PoolInv /\ PoolTypeOK /\ PoolOK(pool) /\ PoolTyped(pool)
      /\ pool.hashKey \in [Blocks -> Hashes] /\ Len(blockTable[s]) \in Nat
      /\ blockTable[s] \in Seq(Blocks) /\ CapFull(s) \in Nat /\ NumFull(s) \in Nat
      /\ CapFull(s) <= NumFull(s)
  <2>1. /\ PoolInv /\ PoolTypeOK /\ PoolOK(pool) /\ PoolTyped(pool)
        /\ blockTable[s] \in Seq(Blocks)
    BY DEF EngineInv, PoolInv, PoolOK, PoolTypeOK
  <2>2. pool.hashKey \in [Blocks -> Hashes]
    BY <2>1, TypedFields
  <2>3. CapFull(s) \in Nat /\ NumFull(s) \in Nat /\ CapFull(s) <= NumFull(s)
    BY <2>1, PromptBlocks, PromptNames
  <2> QED BY <2>1, <2>2, <2>3
<1>1. i = Len(blockTable[s]) + 1 /\ b \in Blocks
  BY NewEntry
<1>2. CASE AdmitHit /\ s = call.seq
  <2>1. /\ call.op = "admit" /\ call.i < call.n /\ AdmitHash \in DOMAIN pool.cache
        /\ call.i < CapFull(s) /\ pool' = Share(pool, pool.cache[AdmitHash])
        /\ blockTable' = [blockTable EXCEPT ![s] = Append(@, pool.cache[AdmitHash])]
    BY <1>2 DEF AdmitHit, IsHit
  <2>2. /\ call.i \in Nat /\ call.i = Len(blockTable[s])
        /\ AdmitHash = PrefixOf(s, call.i + 1)
        /\ (call.i + 1) * BlockSize <= PromptLen(s)
    BY <1>0, <1>2, <2>1, AdmitNames
  <2>3. b = pool.cache[AdmitHash]
    <3>1. blockTable \in [Seqs -> Seq(Blocks)] /\ pool.cache \in [DOMAIN pool.cache -> Blocks]
      BY <1>0, TypedFields DEF PoolTypeOK
    <3>2. pool.cache[AdmitHash] \in Blocks
      BY <2>1, <3>1
    <3>3. blockTable'[s] = Append(blockTable[s], pool.cache[AdmitHash])
      BY <2>1, <3>1
    <3> QED BY <1>0, <1>1, <3>2, <3>3
  <2>4. pool.hashKey[b] = AdmitHash /\ pool'.hashKey = pool.hashKey
    BY <1>0, <2>1, <2>3, PoolFields DEF PoolOK, CacheOK, Share
  <2>5. i <= CapFull(s)
    BY <1>0, <1>1, <2>1, <2>2
  <2>6. i = call.i + 1
    BY <1>1, <2>2
  <2> QED BY <1>1, <1>2, <2>2, <2>4, <2>5, <2>6
<1>3. CASE AdmitMiss /\ s = call.seq
  <2>1. /\ call.op = "admit" /\ call.i < call.n
        /\ blockTable' = [blockTable EXCEPT ![s] = Append(@, NextFree(pool))]
    BY <1>3 DEF AdmitMiss
  <2>2. /\ call.i \in Nat /\ call.i = Len(blockTable[s])
        /\ AdmitHash = PrefixOf(s, call.i + 1)
        /\ (call.i + 1) * BlockSize <= PromptLen(s)
    BY <1>0, <1>3, <2>1, AdmitNames
  <2>3. /\ NextFree(pool) \in Blocks /\ pool.refCount[NextFree(pool)] = 0
        /\ pool'.hashKey[NextFree(pool)] \in {NoHash, AdmitHash}
        /\ (EnablePrefixCaching /\ call.i < CapFull(s))
                 => pool'.hashKey[NextFree(pool)] = AdmitHash
    BY <1>3, MissHash
  <2>4. b = NextFree(pool)
    <3>1. blockTable'[s] = Append(blockTable[s], NextFree(pool))
      BY <1>0, <2>1 DEF PoolTypeOK
    <3> QED BY <1>0, <1>1, <2>3, <3>1
  <2>5. i <= CapFull(s) => call.i < CapFull(s)
    BY <1>0, <1>1, <2>2
  <2>6. i = call.i + 1
    BY <1>1, <2>2
  <2> QED BY <1>1, <1>3, <2>2, <2>3, <2>4, <2>5, <2>6
<1>4. CASE ~(AdmitHit /\ s = call.seq) /\ ~(AdmitMiss /\ s = call.seq)
  <2>1. TakesFresh(s) /\ b = NextFree(pool)
    BY <1>4, NewEntry
  <2>2. pool'.hashKey[b] = NoHash
    <3>1. pool' = TakeFreeBlock(pool) /\ NumFree(pool) > 0
      BY <2>1 DEF TakesFresh, GrowTable
    <3>2. TakeFreeBlock(pool).hashKey = [pool.hashKey EXCEPT ![b] = NoHash]
      BY <1>0, <2>1, <3>1, TakeFacts
    <3> QED BY <1>0, <1>1, <3>1, <3>2
  <2>3. i > CapFull(s)
    <3>1. CASE Admitting(s)
      <4>1. AdmitFinish
        BY <1>4, <3>1, AdmitSteps DEF Admitting
      <4>2. call.i = call.n /\ call.n = NumFull(s) /\ call.i = Len(blockTable[s])
        BY <1>0, <3>1, <4>1 DEF AdmitFinish, Admitting, PoolInv, CallOK, AdmitOK
      <4> QED BY <1>0, <1>1, <4>2
    <3>2. CASE ~Admitting(s)
      <4>1. ASSUME i <= CapFull(s) PROVE FALSE
        <5>1. i \in Nat \ {0}
          BY <1>0, <1>1
        <5> QED BY <3>2, <4>1, <5>1, PromptHasBlocks
      <4> QED BY <1>0, <1>1, <4>1
    <3> QED BY <3>1, <3>2
  <2> QED BY <1>1, <2>2, <2>3
<1> QED BY <1>2, <1>3, <1>4

\* The full blocks of a prompt carry their hashes from its admission on.
HashedOK ==
    EnablePrefixCaching =>
        \A x \in Seqs : status[x] \in {"RUNNING", "PREFILLING"} =>
            \A j \in DOMAIN blockTable[x] :
                j <= CapFull(x) => pool.hashKey[blockTable[x][j]] # NoHash

\* With prefix caching, the full blocks of the prompts in work are all hashed.
LEMMA HashedStep ==
    ASSUME OnceInv, EngineNext, HashedOK
    PROVE  HashedOK'
<1> SUFFICES ASSUME EnablePrefixCaching, NEW x \in Seqs,
                    status'[x] \in {"RUNNING", "PREFILLING"},
                    NEW j \in DOMAIN blockTable'[x], j <= CapFull(x)'
             PROVE  pool'.hashKey[blockTable'[x][j]] # NoHash
  BY DEF HashedOK
<1>0. EngineInv /\ PoolInv /\ PoolTypeOK /\ j <= CapFull(x)
  BY PrefixStays DEF OnceInv, EngineInv, PoolInv
<1>1. status[x] \in {"RUNNING", "PREFILLING"}
  BY LiveBefore
<1>2. CASE j \in DOMAIN blockTable[x]
  <2>1. ~Freeing(x) /\ pool.hashKey[blockTable[x][j]] # NoHash
    BY <1>0, <1>1, <1>2, LiveHolds DEF HashedOK
  <2> QED BY <1>0, <1>2, <2>1, EntryStays
<1>3. CASE j \notin DOMAIN blockTable[x]
  <2> DEFINE b == blockTable'[x][j]
  <2>1. CASE AdmitHit /\ x = call.seq /\ j = call.i + 1 /\ pool'.hashKey[b] = PrefixOf(x, j)
    <3>1. call.op = "admit" /\ call.i < call.n
      BY <2>1 DEF AdmitHit
    <3> QED BY <1>0, <2>1, <3>1, AdmitNames
  <2>2. CASE /\ AdmitMiss /\ x = call.seq /\ j = call.i + 1
             /\ (EnablePrefixCaching /\ j <= CapFull(x)) => pool'.hashKey[b] = PrefixOf(x, j)
    <3>1. call.op = "admit" /\ call.i < call.n
      BY <2>2 DEF AdmitMiss
    <3> QED BY <1>0, <2>2, <3>1, AdmitNames
  <2>3. CASE j > CapFull(x)
    <3>1. j \in Nat /\ CapFull(x) \in Nat
      BY <1>0, <1>3, NewEntry, PromptBlocks, SequenceSizes
    <3> QED BY <1>0, <2>3, <3>1
  <2> QED BY <1>0, <1>1, <1>3, <2>1, <2>2, <2>3, NewEntryHash
<1> QED BY <1>2, <1>3

\* No block that is hashed for tokens of r waits for its K and V in the
\* table of an a behind r: r took its blocks before a did, and a was given
\* those of r.
AheadOK ==
    \A a, r \in Seqs : (status[a] = "PREFILLING" /\ Ahead(r, a)) =>
        \A i \in DOMAIN blockTable[a] :
            LET h == pool.hashKey[blockTable[a][i]]
            IN  (h # NoHash /\ Done(a) < i * BlockSize /\ i <= CapFull(r)) =>
                    h # PromptPrefix(r, i)

\* Who is admitted first comes first: no block that a prefill has yet to write
\* is one that a sequence in front of it would find by its prompt.
LEMMA AheadStep ==
    ASSUME OnceInv, EngineNext, CleanStep, PoolInv', AdmitsHead, RegisterDue, HashedOK,
           StartOK, AheadOK
    PROVE  AheadOK'
<1> SUFFICES ASSUME NEW a \in Seqs, NEW r \in Seqs, status'[a] = "PREFILLING", Ahead(r, a)',
                    NEW i \in DOMAIN blockTable'[a],
                    pool'.hashKey[blockTable'[a][i]] # NoHash,
                    Done(a)' < i * BlockSize, i <= CapFull(r)',
                    pool'.hashKey[blockTable'[a][i]] = PromptPrefix(r, i)'
             PROVE  FALSE
  BY DEF AheadOK
<1> DEFINE b == blockTable'[a][i]
<1>0. /\ EngineInv /\ PoolInv /\ PoolTypeOK /\ i <= CapFull(r)
      /\ PromptPrefix(r, i)' = PromptPrefix(r, i)
      /\ QueuesOK /\ waiting \in Seq(Seqs) /\ BlockSize \in Nat \ {0}
      /\ blockTable'[a] \in Seq(Blocks) /\ i \in Nat \ {0}
  <2>1. EngineInv /\ PoolInv /\ PoolTypeOK /\ QueuesOK /\ waiting \in Seq(Seqs)
    BY DEF OnceInv, EngineInv, PoolInv, QueueData
  <2>2. blockTable'[a] \in Seq(Blocks)
    BY DEF PoolInv, PoolTypeOK
  <2>3. i \in Nat \ {0}
    BY <2>2
  <2> QED BY <2>1, <2>2, <2>3, PrefixStays, TokenSteps, BlockConstants DEF PromptPrefix
<1>1. status[a] = "PREFILLING" /\ Ahead(r, a)
  <2>1. CASE AdmitHead /\ a = Head(waiting)
    <3>1. blockTable'[a] = <<>>
      BY <2>1 DEF AdmitHead, Admit, seqVars
    <3> QED BY <3>1
  <2> QED BY <1>0, <2>1, AheadStays
<1>2. ~Freeing(a)
  BY <1>0, <1>1, LiveHolds
<1>3. CASE i \in DOMAIN blockTable[a]
  <2>1. b = blockTable[a][i] /\ b \in Blocks /\ pool.refCount[b] # 0 /\ i \in Held(a)
    BY <1>0, <1>2, <1>3, EntryStays, HeldBlock
  <2>2. Done(a) < i * BlockSize
    <3>1. Done(a) \in Nat /\ i * BlockSize \in Nat
      BY <1>0, Multiples DEF Done, PoolTypeOK
    <3>2. CASE Done(a)' = Done(a)
      BY <3>2
    <3>3. CASE blockTable'[a] = <<>> \/ (Freeing(a)' /\ status'[a] = "PREEMPTED")
      BY <1>0, <3>3
    <3>4. ASSUME AdmitHit, a = call.seq, Done(a) = call.cached,
                 Done(a)' = call.cached + BlockSize
          PROVE  Done(a) < i * BlockSize
      BY <1>0, <3>1, <3>4
    <3>5. ASSUME Count, a = Head(rest).seq, Done(a)' = Done(a) + Head(rest).n
          PROVE  Done(a) < i * BlockSize
      <4>1. Head(rest).n \in Nat
        BY <1>0, <3>5, DataHeads DEF Count, CountItem, EngineInv
      <4> QED BY <3>1, <3>5, <4>1
    <3> QED BY <1>0, <3>2, <3>3, <3>4, <3>5, DoneSteps
  <2>3. CASE pool'.hashKey[b] = pool.hashKey[b]
    BY <1>0, <1>1, <1>3, <2>1, <2>2, <2>3 DEF AheadOK
  <2>4. CASE /\ RegisterBlock /\ b = blockTable[call.seq][call.i + 1]
             /\ call.i + 1 \in DOMAIN blockTable[call.seq]
             /\ pool.hashKey[b] = NoHash
    <3> DEFINE c == call.seq
               k == call.i + 1
    <3>1. call.op = "register" /\ call.i < call.n /\ c \in Seqs /\ call.i \in Nat /\ call.n \in Nat
      BY <1>0, <2>4 DEF RegisterBlock, PoolTypeOK
    <3>2. ~Freeing(c) /\ ~Admitting(a)
      BY <3>1 DEF Freeing, Admitting
    <3>3. k \in Held(c)
      BY <1>0, <2>4, <3>1, <3>2, HeldBlock
    <3>4. <<a, i>> \in Holders(b) /\ <<c, k>> \in Holders(b)
      BY <2>1, <2>4, <3>1, <3>3, HoldersMembers
    <3>5. <<a, i>> = <<c, k>>
      BY <1>0, <2>1, <2>4, <3>4 DEF PoolInv, UnhashedHasOneHolder
    <3>6. a = c /\ i = k
      BY <3>5
    <3>7. call.n * BlockSize <= numComputed[a] /\ Done(a) = numComputed[a]
      BY <3>1, <3>2, <3>6 DEF RegisterDue, Done
    <3>8. i * BlockSize <= call.n * BlockSize /\ i * BlockSize \in Nat /\ call.n * BlockSize \in Nat
      <4>1. i <= call.n
        BY <1>0, <3>1, <3>6
      <4> HIDE DEF c, k, b
      <4> QED BY <1>0, <3>1, <4>1, Multiples
    <3>9. numComputed[a] \in Nat
      BY <1>0 DEF PoolTypeOK
    <3> QED BY <2>2, <3>7, <3>8, <3>9
  <2> QED BY <1>0, <2>1, <2>3, <2>4, HashSteps
<1>4. CASE i \notin DOMAIN blockTable[a]
  <2>1. CASE AdmitHit /\ a = call.seq /\ i = call.i + 1
    <3>1. Done(a)' = i * BlockSize
      BY <1>0, <2>1, HitCovers
    <3>2. i * BlockSize \in Nat /\ Done(a)' < i * BlockSize
      BY <1>0, Multiples
    <3> HIDE DEF b
    <3> QED BY <3>1, <3>2
  <2>2. CASE /\ AdmitMiss /\ a = call.seq /\ i = call.i + 1 /\ pool.refCount[b] = 0
             /\ pool'.hashKey[b] \in {NoHash, PrefixOf(a, i)}
    <3>1. pc = "prefill" /\ waiting # <<>> /\ a = Head(waiting) /\ call.op = "admit"
      BY <2>2 DEF AdmitMiss, AdmitsHead
    <3>2. status[r] = "RUNNING" /\ r # a
      <4>1. ~Before(waiting, r, a)
        <5>1. waiting[1] = a /\ 1 \in DOMAIN waiting /\ DOMAIN waiting = 1 .. Len(waiting)
              /\ Len(waiting) \in Nat
          BY <1>0, <3>1, HeadTail
        <5> QED BY <1>0, <5>1 DEF Before, QueuesOK, NoDuplicates
      <4> QED BY <1>1, <4>1 DEF Ahead
    <3>3. ~Admitting(r) /\ ~Freeing(r) /\ i \in DOMAIN blockTable[r]
      BY <1>0, <2>2, <3>2, LiveHolds, PromptHasBlocks DEF Admitting
    <3> DEFINE d == blockTable[r][i]
    <3>4. b \in Blocks /\ PoolOK(pool') /\ pool'.hashKey[b] # NoHash
      BY <1>0, <1>4, NewEntry DEF PoolInv
    <3>5. EnablePrefixCaching
      BY <3>4 DEF PoolOK, HashedOnlyIfEnabled
    <3>6. pool.hashKey[d] # NoHash
      BY <1>0, <3>2, <3>3, <3>5 DEF HashedOK
    <3>7. d \in Blocks /\ i \in Held(r) /\ pool.refCount[d] # 0
      BY <1>0, <3>3, HeldBlock
    <3>8. pool.hashKey[d] = PromptPrefix(r, i)
      BY <1>0, <3>3, <3>6, <3>7, PromptNames DEF PoolInv, HashNamesContent
    <3>9. pool'.hashKey[d] = pool'.hashKey[b]
      BY <1>0, <3>3, <3>6, <3>8, EntryStays
    <3>10. d = b
      BY <3>4, <3>7, <3>9 DEF PoolOK, CacheOK
    <3> QED BY <2>2, <3>7, <3>10
  <2>3. CASE pool'.hashKey[b] = NoHash
    BY <2>3
  <2> QED BY <1>0, <1>1, <1>4, <2>1, <2>2, <2>3, NewEntryHash
<1> QED BY <1>3, <1>4

-----------------------------------------------------------------------------
(***************************************************************************)
(* A step that preempts a sequence it has scheduled does not reach the     *)
(* executor: the loop dies on the item, or OneItemEach excludes the step.  *)
(* Until then nothing can be said of what the step would write.            *)
(***************************************************************************)

Spoiled == pc \in PlanPcs /\ \E k \in DOMAIN scheduled : Touched(k)

Sound == pc \notin EndPcs /\ ~Spoiled

\* What leads out of schedule().
LEMMA PlanSteps ==
    ASSUME EngineInv, EngineNext, pc \in PlanPcs
    PROVE  \/ InsideStep /\ pc' \in PlanPcs /\ pc # "scheduled" /\ pc # "idle"
           \/ Starved \/ SubmitForward
           \/ pc' = "crashed"
<1>1. CASE InsideStep
  <2>1. pc \in SchedulePcs \ {"scheduled"} /\ pc' \in SchedulePcs \ {"idle"}
    BY <1>1, InsidePc
  <2> QED BY <1>1, <2>1 DEF SchedulePcs, PlanPcs
<1>2. CASE PoolCall /\ ~InsideStep
  BY <1>2 DEF InsideStep, SchedulePcs, PlanPcs
<1>3. ~RequestStep
  BY DEF RequestStep, AddRequest, Abort, Shutdown, RequestsRun, AtAwait, PlanPcs
<1>4. MoveStep => Starved
  BY DEF MoveStep, LoopExit, WaitForWork, Woken, WaitTimeout, ShutdownTimeout, AtAwait,
     Resume, PlanPcs
<1>5. ForwardStep => SubmitForward
  BY DEF ForwardStep, ForwardDone, Count, CountItem, SampleAll, PlanPcs
<1>6. ~ApplyStep /\ ~SendStep
  BY DEF ApplyStep, ApplyToken, ApplyRegister, ApplyStop, ApplyKeep, ApplyEnd, SendStep,
     FreeFinished, FreeEnd, EmitItem, EmitEnd, PlanPcs
<1>7. LoopDies => pc' = "crashed"
  BY DEF LoopDies
<1>8. Schedule => InsideStep
  BY DEF InsideStep
<1> QED BY <1>1, <1>2, <1>3, <1>4, <1>5, <1>6, <1>7, <1>8 DEF EngineNext, LoopStep,
          RequestStep, MoveStep, ForwardStep, ApplyStep, SendStep

\* The loop does not come back.
LEMMA EndStays ==
    ASSUME EngineInv, EngineNext, pc \in EndPcs
    PROVE  pc' \in EndPcs
<1>0. EngineStepOK /\ call.op \in {"none", "free"}
  BY DEF EngineInv, EngineStepOK, RequestPcs, EndPcs
<1>1. ~Schedule
  BY DEF Schedule, StartSchedule, ScheduleStep, DecodeSkip, DecodeSchedule, DecodeTurn,
     DecodePreempt, DecodeGiveUp, EndDecode, AdmitHead, PreemptForAdmission,
     AdmissionGiveUp, PlanChunk, NothingToPrefill, ScheduleChunk, EndPrefill,
     NeedsAdmission, PrefillTurn, EndPcs
<1>2. PoolCall => pc' = pc
  BY DEF PoolCall
<1>3. RequestStep => pc' = pc
  BY DEF RequestStep, AddRequest, Add, Abort, AbortWaiting, AbortRunning, Shutdown,
     schedulerVars
<1>4. ~MoveStep
  BY DEF MoveStep, LoopExit, WaitForWork, Woken, WaitTimeout, ShutdownTimeout, AtAwait,
     Starved, Resume, EndPcs
<1>5. ~ForwardStep
  BY DEF ForwardStep, SubmitForward, ForwardDone, Count, CountItem, SampleAll, EndPcs
<1>6. ~ApplyStep /\ ~SendStep
  BY DEF ApplyStep, ApplyToken, ApplyRegister, ApplyStop, ApplyKeep, ApplyEnd, SendStep,
     FreeFinished, FreeEnd, EmitItem, EmitEnd, EndPcs
<1>7. LoopDies => pc' \in EndPcs
  BY DEF LoopDies, EndPcs
<1> QED BY <1>1, <1>2, <1>3, <1>4, <1>5, <1>6, <1>7 DEF EngineNext, LoopStep,
          RequestStep, MoveStep, ForwardStep, ApplyStep, SendStep

\* schedule() adds to the items of the step.
LEMMA ItemsGrow ==
    ASSUME EngineInv, InsideStep, pc # "idle"
    PROVE  \A k \in DOMAIN scheduled : k \in DOMAIN scheduled' /\ scheduled'[k] = scheduled[k]
<1>0. scheduled \in Seq(Items) /\ (ScheduleStep \/ PoolCall)
  BY InsidePc DEF EngineInv, QueueData, StartSchedule
<1>1. ASSUME NEW item, scheduled' = Append(scheduled, item)
      PROVE  \A k \in DOMAIN scheduled : k \in DOMAIN scheduled' /\ scheduled'[k] = scheduled[k]
  BY <1>0, <1>1
<1>2. CASE DecodeSchedule
  BY <1>1, <1>2 DEF DecodeSchedule
<1>3. CASE ScheduleChunk
  BY <1>1, <1>3 DEF ScheduleChunk
<1>4. ASSUME ~DecodeSchedule, ~ScheduleChunk PROVE scheduled' = scheduled
  BY <1>0, <1>4 DEF PoolCall, stepVars, ScheduleStep, DecodeSkip, DecodePreempt,
     DecodeGiveUp, EndDecode, AdmitHead, PreemptForAdmission, AdmissionGiveUp, PlanChunk,
     NothingToPrefill, EndPrefill
<1> QED BY <1>2, <1>3, <1>4

\* The executor never sees a step that preempted what it had scheduled.
LEMMA SpoiledDies ==
    ASSUME OnceInv, SubmitForward
    PROVE  ~Spoiled
<1> SUFFICES ASSUME NEW k \in DOMAIN scheduled, Touched(k) PROVE FALSE
  BY DEF Spoiled
<1> DEFINE s == scheduled[k].seq
<1>0. /\ EngineInv /\ PoolTypeOK /\ pc = "scheduled" /\ call = Idle /\ InputFits(scheduled[k])
      /\ Distinct(scheduled) /\ scheduled[k] \in Items /\ Idle.op = "none"
  BY IdleFields DEF OnceInv, EngineInv, EngineStepOK, QueueData, PoolInv, SubmitForward,
     ItemsOK, EndPcs
<1>1. s \in Seqs /\ scheduled[k].n \in Nat \ {0}
  BY <1>0 DEF Items
<1>2. status[s] = "PREEMPTED"
  BY <1>0 DEF Touched, Distinct
<1>3. blockTable[s] = <<>>
  BY <1>0, <1>1, <1>2 DEF EngineInv, EngineTablesOK, EngineTableOK, Freeing
<1>4. Room(s) = 0 /\ numComputed[s] \in Nat
  BY <1>0, <1>1, <1>3, RoomFacts
<1>5. numComputed[s] + scheduled[k].n <= Room(s)
  BY <1>0 DEF InputFits, Room
<1> HIDE DEF s
<1> QED BY <1>1, <1>4, <1>5

\* Nor does a spoiled step become whole again.
LEMMA SoundBefore ==
    ASSUME OnceInv, EngineNext, PoolTypeOK', Sound'
    PROVE  Sound
<1>0. EngineInv /\ pc' \notin EndPcs /\ ~Spoiled'
  BY DEF OnceInv, Sound
<1>1. pc \notin EndPcs
  BY <1>0, EndStays
<1>2. ASSUME Spoiled PROVE FALSE
  <2>1. PICK k \in DOMAIN scheduled : Touched(k)
    BY <1>2 DEF Spoiled
  <2>2. pc \in PlanPcs
    BY <1>2 DEF Spoiled
  <2>3. ~Starved
    BY <2>1 DEF Starved
  <2>4. ~SubmitForward
    BY <1>2, SpoiledDies
  <2>5. pc' # "crashed"
    BY <1>0 DEF EndPcs
  <2>6. InsideStep /\ pc' \in PlanPcs /\ pc # "idle"
    BY <1>0, <2>2, <2>3, <2>4, <2>5, PlanSteps
  <2>7. k \in DOMAIN scheduled' /\ Touched(k)'
    BY <1>0, <2>1, <2>6, ItemsGrow, InsidePlanItems
  <2> QED BY <1>0, <2>6, <2>7 DEF Spoiled
<1> QED BY <1>1, <1>2 DEF Sound

\* A sequence that has been scheduled is what it was when it was scheduled.
LEMMA SoundItem ==
    ASSUME OnceInv, Sound, pc \in PlanPcs, NEW k \in DOMAIN scheduled
    PROVE  /\ Fitting(k)
           /\ scheduled[k].seq \in Seqs /\ scheduled[k].n \in Nat \ {0}
           /\ pc # "scheduled" => status[scheduled[k].seq] = "RUNNING"
           /\ status[scheduled[k].seq] \in {"RUNNING", "PREFILLING"}
<1>1. Fitting(k)
  BY DEF OnceInv, PlanOK, Sound, Spoiled
<1>2. scheduled[k] \in Items
  BY DEF OnceInv, EngineInv, QueueData
<1> QED BY <1>1, <1>2 DEF Fitting, Items

-----------------------------------------------------------------------------
(* How far the K and V of a sequence reach. *)

\* A position keeps its slot as long as its table is there.
LEMMA KeepsSlot ==
    ASSUME EngineInv, EngineNext, PoolTypeOK', NEW s \in Seqs,
           ~Freeing(s) \/ blockTable'[s] # <<>>, NEW p \in Nat, p < Room(s)
    PROVE  /\ p < Room(s)'
           /\ SlotOf(blockTable'[s], p) = SlotOf(blockTable[s], p)
<1> DEFINE t == blockTable[s]
           u == blockTable'[s]
           d == p \div BlockSize
           o == p % BlockSize
<1>1. /\ PoolTypeOK /\ BlockSize \in Nat \ {0} /\ t \in Seq(Blocks) /\ u \in Seq(Blocks)
  BY BlockConstants DEF EngineInv, PoolInv, PoolTypeOK
<1>2. \A i \in DOMAIN t : i \in DOMAIN u /\ u[i] = t[i]
  BY FreeingSteps
<1>3. Len(t) \in Nat /\ Len(u) \in Nat /\ DOMAIN t = 1 .. Len(t) /\ DOMAIN u = 1 .. Len(u)
  BY <1>1
<1>4. d \in Nat /\ o \in 0 .. BlockSize - 1 /\ p = BlockSize * d + o
  BY <1>1, DivMod
<1>5. p < Len(t) * BlockSize /\ Room(s)' = Len(u) * BlockSize
  BY DEF Room
<1>6. SlotOf(t, p) = <<t[d + 1], o>> /\ SlotOf(u, p) = <<u[d + 1], o>>
  BY DEF SlotOf
<1> HIDE DEF t, u, d, o
<1>7. /\ BlockSize * d = d * BlockSize /\ d * BlockSize \in Nat
      /\ Len(t) * BlockSize \in Nat /\ Len(u) * BlockSize \in Nat
      /\ Len(t) <= d => Len(t) * BlockSize <= d * BlockSize
  <2> DEFINE a == Len(t)
             e == Len(u)
  <2>1. BlockSize \in Nat \ {0} /\ a \in Nat /\ e \in Nat /\ d \in Nat
    BY <1>1, <1>3, <1>4
  <2> HIDE DEF a, e
  <2>2. BlockSize * d = d * BlockSize
    BY <2>1
  <2>3. d * BlockSize \in Nat /\ (a <= d => a * BlockSize <= d * BlockSize)
    BY <2>1, Multiples
  <2>4. a * BlockSize \in Nat /\ e * BlockSize \in Nat
    BY <2>1, Multiples
  <2> QED BY <2>2, <2>3, <2>4 DEF a, e
<1>8. d < Len(t)
  <2> DEFINE x == d * BlockSize
             y == Len(t) * BlockSize
  <2>1. x \in Nat /\ y \in Nat /\ p = x + o /\ p < y /\ (Len(t) <= d => y <= x)
    BY <1>4, <1>5, <1>7
  <2> HIDE DEF x, y
  <2>2. ~(y <= x)
    BY <1>1, <1>4, <2>1
  <2> QED BY <1>3, <1>4, <2>1, <2>2
<1>9. d + 1 \in DOMAIN t
  BY <1>3, <1>4, <1>8
<1>10. Len(t) <= Len(u)
  <2>1. CASE Len(t) = 0
    BY <1>3, <2>1
  <2>2. CASE Len(t) # 0
    <3>1. Len(t) \in DOMAIN t
      BY <1>3, <2>2
    <3> QED BY <1>2, <1>3, <3>1
  <2> QED BY <2>1, <2>2
<1>11. Len(t) * BlockSize <= Len(u) * BlockSize
  BY <1>1, <1>3, <1>10, Multiples
<1>12. p < Room(s)'
  BY <1>5, <1>7, <1>11
<1>13. SlotOf(u, p) = SlotOf(t, p)
  BY <1>2, <1>6, <1>9
<1> QED BY <1>12, <1>13 DEF t, u

\* The items that are in the executor, or in the cache and not counted yet.
Forwarded ==
    IF pc = "forward" THEN scheduled ELSE IF pc = "count" THEN rest ELSE <<>>

\* Position p of s is in the cache, or will be when the executor is done.
Reach(s, p) ==
    \/ p < Done(s)
    \/ \E k \in DOMAIN Forwarded :
          Forwarded[k].seq = s /\ p < numComputed[s] + Forwarded[k].n

\* What is in the executor's hands, or left to count.
LEMMA ForwardedSteps ==
    ASSUME EngineInv, EngineNext
    PROVE  \/ Forwarded' = <<>>
           \/ SubmitForward \/ Count
           \/ Forwarded' = Forwarded /\ numComputed' = numComputed
<1>0. /\ EngineStepOK
      /\ pc \in {"forward", "count"} => call.op \in {"none", "free"}
      /\ pc = "count" => call = Idle
  BY IdleFields DEF EngineInv, EngineStepOK, RequestPcs
<1>1. CASE PoolCall
  <2>1. CASE pc \in {"forward", "count"}
    <3>1. call.op = "free" /\ UNCHANGED <<pc, scheduled, rest>> /\ CallStep
      BY <1>0, <1>1, <2>1, CallInProgress DEF PoolCall, stepVars
    <3>2. numComputed' = numComputed
      BY <3>1 DEF CallStep, AdmitHit, AdmitMiss, AdmitFinish, EnsureTake, EnsureExit,
         FreeRelease, FreeClear, RegisterSkip, RegisterBlock, RegisterReturn, seqVars
    <3> QED BY <3>1, <3>2 DEF Forwarded
  <2>2. CASE pc \notin {"forward", "count"}
    BY <1>1, <2>2 DEF PoolCall, Forwarded
  <2> QED BY <2>1, <2>2
<1>2. CASE Schedule
  <2>1. pc' \in SchedulePcs
    BY <1>2, InsidePc DEF InsideStep
  <2> QED BY <2>1 DEF Forwarded, SchedulePcs
<1>3. CASE RequestStep
  BY <1>3 DEF RequestStep, AddRequest, Add, Abort, AbortWaiting, AbortRunning, Shutdown,
     schedulerVars, poolVars, seqVars, stepVars, Forwarded
<1>4. ASSUME MoveStep \/ LoopDies PROVE Forwarded' = <<>>
  BY <1>4 DEF MoveStep, LoopExit, WaitForWork, Woken, WaitTimeout, ShutdownTimeout, Goto,
     Starved, Resume, LoopDies, Forwarded
<1>5. CASE ForwardStep
  <2>1. ForwardDone => Forwarded' = Forwarded /\ numComputed' = numComputed
    BY DEF ForwardDone, Forwarded, poolVars, seqVars
  <2>2. SampleAll => Forwarded' = <<>>
    BY DEF SampleAll, Forwarded
  <2> QED BY <1>5, <2>1, <2>2 DEF ForwardStep
<1>6. ASSUME ApplyStep \/ SendStep PROVE Forwarded' = <<>>
  BY <1>6 DEF ApplyStep, ApplyToken, ApplyRegister, ApplyStop, ApplyKeep, ApplyEnd,
     SendStep, FreeFinished, FreeEnd, EmitItem, EmitEnd, Forwarded
<1> QED BY <1>1, <1>2, <1>3, <1>4, <1>5, <1>6 DEF EngineNext, LoopStep, RequestStep,
          MoveStep, ForwardStep, ApplyStep, SendStep

\* What takes a sequence further: a hit, and a forward.
LEMMA ReachSteps ==
    ASSUME OnceInv, EngineNext, NEW s \in Seqs, NEW p \in Nat, Reach(s, p)'
    PROVE  \/ Reach(s, p)
           \/ /\ AdmitHit /\ s = call.seq
              /\ p < call.cached + BlockSize /\ Done(s) = call.cached
           \/ /\ SubmitForward
              /\ \E k \in DOMAIN scheduled :
                    scheduled[k].seq = s /\ p < numComputed[s] + scheduled[k].n
<1>0. /\ EngineInv /\ ItemsOK /\ QueueData /\ EngineStepOK /\ rest \in Seq(Items)
      /\ numComputed \in [Seqs -> Nat]
  BY DEF OnceInv, EngineInv, QueueData, PoolInv, PoolTypeOK
<1>1. CASE p < Done(s)'
  <2>1. CASE Done(s)' = Done(s)
    BY <1>1, <2>1 DEF Reach
  <2>2. CASE Done(s)' = 0
    BY <1>1, <2>2
  <2>3. CASE AdmitHit /\ s = call.seq /\ Done(s) = call.cached /\ Done(s)' = call.cached + BlockSize
    BY <1>1, <2>3
  <2>4. CASE Count /\ s = Head(rest).seq /\ Done(s)' = Done(s) + Head(rest).n
    <3>1. pc = "count" /\ rest # <<>>
      BY <2>4 DEF Count, CountItem
    <3>2. Done(s) = numComputed[s]
      BY <1>0, <3>1, IdleFields DEF EngineStepOK, Done, Admitting
    <3>3. 1 \in DOMAIN rest /\ rest[1] = Head(rest)
      BY <1>0, <3>1, DataHeads
    <3>4. Forwarded = rest
      BY <3>1 DEF Forwarded
    <3>5. p < numComputed[s] + rest[1].n /\ rest[1].seq = s
      BY <1>1, <2>4, <3>2, <3>3
    <3> QED BY <3>3, <3>4, <3>5 DEF Reach
  <2> QED BY <1>0, <2>1, <2>2, <2>3, <2>4, DoneSteps
<1>2. CASE ~(p < Done(s)')
  <2>1. PICK k \in DOMAIN Forwarded' :
           Forwarded'[k].seq = s /\ p < numComputed'[s] + Forwarded'[k].n
    BY <1>2 DEF Reach
  <2>2. CASE Forwarded' = <<>>
    BY <2>1, <2>2, EmptySeq
  <2>3. CASE SubmitForward
    <3>1. Forwarded' = scheduled /\ numComputed' = numComputed
      BY <2>3 DEF SubmitForward, Forwarded, poolVars, seqVars, stepVars
    <3> QED BY <2>1, <2>3, <3>1
  <2>4. CASE Count
    <3>1. /\ pc = "count" /\ pc' = "count" /\ rest # <<>> /\ rest' = Tail(rest)
          /\ numComputed' = [numComputed EXCEPT ![Head(rest).seq] = @ + Head(rest).n]
      BY <2>4 DEF Count, CountItem
    <3>2. Forwarded = rest /\ Forwarded' = Tail(rest)
      BY <3>1 DEF Forwarded
    <3>3. /\ 1 \in DOMAIN rest /\ rest[1] = Head(rest)
          /\ k + 1 \in DOMAIN rest /\ Tail(rest)[k] = rest[k + 1] /\ k \in DOMAIN Tail(rest)
      BY <1>0, <2>1, <3>1, <3>2, DataHeads
    <3>4. k \in Nat \ {0}
      BY <1>0, <3>1, <3>3, HeadTail
    <3>5. s # Head(rest).seq
      <4>1. Distinct(rest)
        BY <1>0, <3>1 DEF ItemsOK
      <4> QED BY <2>1, <3>2, <3>3, <3>4, <4>1 DEF Distinct
    <3>6. numComputed'[s] = numComputed[s]
      BY <1>0, <3>1, <3>5
    <3> QED BY <2>1, <3>2, <3>3, <3>6 DEF Reach
  <2>5. CASE Forwarded' = Forwarded /\ numComputed' = numComputed
    BY <2>1, <2>5 DEF Reach
  <2> QED BY <1>0, <2>2, <2>3, <2>4, <2>5, ForwardedSteps
<1> QED BY <1>1, <1>2

-----------------------------------------------------------------------------
(* What a slot holds, or will hold when the step has run. *)

\* The step that is being planned computes c for slot.
WillWrite(slot, c) ==
    \E k \in DOMAIN scheduled : \E p \in Nat :
        LET s == scheduled[k].seq
        IN  /\ numComputed[s] <= p
            /\ p < numComputed[s] + scheduled[k].n
            /\ p < Room(s)
            /\ SlotOf(blockTable[s], p) = slot
            /\ c = Prefix(s, p)

Holds(slot, c) ==
    IF pc = "forward" THEN WriteAll(modelInput)[slot] = c
    ELSE kv[slot] = c \/ (pc \in PlanPcs /\ WillWrite(slot, c))

\* Whatever the step computes for slot is c.
Agrees(slot, c) ==
    \A k \in DOMAIN scheduled : \A p \in Nat :
        LET s == scheduled[k].seq
        IN  (/\ numComputed[s] <= p
             /\ p < numComputed[s] + scheduled[k].n
             /\ p < Room(s)
             /\ SlotOf(blockTable[s], p) = slot) => Prefix(s, p) = c

\* A table leads to slots of the cache.
LEMMA SlotsOfTables ==
    ASSUME PoolTypeOK, NEW s \in Seqs, NEW p \in Nat, p < Room(s)
    PROVE  SlotOf(blockTable[s], p) \in Slots
BY SlotOfPosition DEF Slots

\* Two sequences that share a slot compute the same for it.
LEMMA HolderAgrees ==
    ASSUME EngineInv, call = Idle, NEW s \in Seqs, NEW p \in Nat, p < Room(s)
    PROVE  Agrees(SlotOf(blockTable[s], p), Prefix(s, p))
<1> SUFFICES ASSUME NEW k \in DOMAIN scheduled, NEW q \in Nat, NEW r, r = scheduled[k].seq,
                    q < Room(r), SlotOf(blockTable[r], q) = SlotOf(blockTable[s], p)
             PROVE  Prefix(r, q) = Prefix(s, p)
  BY DEF Agrees
<1>1. r \in Seqs
  <2>1. scheduled[k] \in Items
    BY DEF EngineInv, QueueData
  <2> QED BY <2>1 DEF Items
<1>2. PoolInv /\ ~Freeing(s) /\ ~Freeing(r)
  BY IdleFields DEF EngineInv, Freeing
<1> QED BY <1>1, <1>2, SameSlot

\* A hashed block is written with what it is hashed for.
HashContent(b, o) == SubSeq(pool.hashKey[b], 1, Len(pool.hashKey[b]) - BlockSize + o + 1)

\* A holder of a hashed block has the content at the place it was hashed for.
LEMMA HashIsContent ==
    ASSUME PoolInv, NEW s \in Seqs, ~Freeing(s), NEW i \in DOMAIN blockTable[s],
           pool.hashKey[blockTable[s][i]] # NoHash, NEW o \in 0 .. BlockSize - 1,
           NEW p, p = (i - 1) * BlockSize + o
    PROVE  /\ HashContent(blockTable[s][i], o) = Prefix(s, p)
           /\ pool.hashKey[blockTable[s][i]] = PrefixOf(s, i)
           /\ Len(pool.hashKey[blockTable[s][i]]) = i * BlockSize
           /\ i * BlockSize <= TotalLen(s)
<1>0. PoolTypeOK
  BY DEF PoolInv
<1>1. PoolTypeOK /\ i \in Held(s) /\ i \in Nat \ {0}
  BY <1>0, HeldBlock, PositionOfSlot
<1>2. /\ i * BlockSize <= TotalLen(s)
      /\ pool.hashKey[blockTable[s][i]] = PrefixOf(s, i)
  BY <1>1 DEF PoolInv, HashNamesContent
<1> DEFINE h == PrefixOf(s, i)
<1>3. /\ Len(h) = i * BlockSize
      /\ SubSeq(h, 1, Len(h) - BlockSize + o + 1) = Prefix(s, p)
  BY <1>1, <1>2, PrefixInBlock
<1> HIDE DEF h
<1>4. pool.hashKey[blockTable[s][i]] = h
  BY <1>2 DEF h
<1>5. HashContent(blockTable[s][i], o) = Prefix(s, p)
  BY <1>3, <1>4 DEF HashContent
<1> QED BY <1>2, <1>3, <1>4, <1>5

\* Whoever writes to a hashed block writes what it is hashed for.
LEMMA HashAgrees ==
    ASSUME EngineInv, call = Idle, NEW b \in Blocks, pool.hashKey[b] # NoHash,
           NEW o \in 0 .. BlockSize - 1
    PROVE  Agrees(<<b, o>>, HashContent(b, o))
<1> SUFFICES ASSUME NEW k \in DOMAIN scheduled, NEW q \in Nat, NEW r, r = scheduled[k].seq,
                    q < Room(r), SlotOf(blockTable[r], q) = <<b, o>>
             PROVE  Prefix(r, q) = HashContent(b, o)
  BY DEF Agrees
<1>1. r \in Seqs
  <2>1. scheduled[k] \in Items
    BY DEF EngineInv, QueueData
  <2> QED BY <2>1 DEF Items
<1>2. PoolInv /\ PoolTypeOK /\ ~Freeing(r)
  BY IdleFields DEF EngineInv, PoolInv, Freeing
<1>3. PICK i \in DOMAIN blockTable[r], u \in 0 .. BlockSize - 1 :
         /\ q = (i - 1) * BlockSize + u
         /\ SlotOf(blockTable[r], q) = <<blockTable[r][i], u>>
  BY <1>1, <1>2, SlotOfPosition
<1>4. blockTable[r][i] = b /\ u = o
  BY <1>3
<1>5. HashContent(blockTable[r][i], u) = Prefix(r, q)
  <2>1. pool.hashKey[blockTable[r][i]] # NoHash
    BY <1>4
  <2> QED BY <1>1, <1>2, <1>3, <2>1, HashIsContent
<1> QED BY <1>4, <1>5

\* The executor writes what the step was planned to write.
LEMMA SubmitWrites ==
    ASSUME EngineInv, SubmitForward, NEW slot \in Slots, NEW c, Agrees(slot, c),
           kv[slot] = c \/ WillWrite(slot, c)
    PROVE  WriteAll(modelInput')[slot] = c /\ WriteAll(modelInput)'[slot] = c
<1> DEFINE w == WritesTo(modelInput', slot)
<1>0. PoolTypeOK /\ QueueData /\ kv' = kv
  BY DEF EngineInv, PoolInv, SubmitForward
<1>1. ASSUME NEW k \in DOMAIN scheduled
      PROVE  /\ DOMAIN modelInput' = DOMAIN scheduled
             /\ IsInput(modelInput'[k], scheduled[k].seq, scheduled[k].n)
             /\ scheduled[k].seq \in Seqs /\ scheduled[k].n \in Nat
             /\ numComputed[scheduled[k].seq] \in Nat /\ Room(scheduled[k].seq) \in Nat
  <2>1. scheduled[k] \in Items
    BY <1>0 DEF QueueData
  <2>2. scheduled[k].seq \in Seqs /\ scheduled[k].n \in Nat
    BY <2>1 DEF Items
  <2> QED BY <1>0, <2>2, InputSegments, RoomFacts
<1>2. ASSUME NEW x \in w PROVE x = c
  <2>1. PICK k \in DOMAIN modelInput' :
           \E q \in Written(modelInput'[k]) :
              /\ SlotOf(modelInput'[k].table, q) = slot
              /\ x = SubSeq(modelInput'[k].tokens, 1, q + 1)
    BY <1>2 DEF WritesTo
  <2>2. k \in DOMAIN scheduled
    BY <1>0, <2>1 DEF SubmitForward, PrepareInput
  <2> DEFINE s == scheduled[k].seq
             n == scheduled[k].n
  <2>3. PICK q \in Written(modelInput'[k]) :
              /\ SlotOf(modelInput'[k].table, q) = slot
              /\ x = SubSeq(modelInput'[k].tokens, 1, q + 1)
    BY <2>1
  <2>4. /\ q \in numComputed[s] .. numComputed[s] + n - 1
        /\ numComputed[s] \in Nat /\ n \in Nat /\ Room(s) \in Nat
        /\ numComputed[s] + n <= Room(s)
        /\ SlotOf(blockTable[s], q) = slot
        /\ \A p \in 0 .. numComputed[s] + n - 1 :
              SubSeq(modelInput'[k].tokens, 1, p + 1) = Prefix(s, p)
    BY <1>1, <2>2, <2>3 DEF IsInput
  <2>5. /\ q \in Nat /\ numComputed[s] <= q /\ q < numComputed[s] + n /\ q < Room(s)
        /\ q \in 0 .. numComputed[s] + n - 1
    <3> HIDE DEF s, n
    <3> QED BY <2>4
  <2>6. x = Prefix(s, q)
    BY <2>3, <2>4, <2>5
  <2> QED BY <2>2, <2>4, <2>5, <2>6 DEF Agrees
<1>3. WillWrite(slot, c) => w # {}
  <2> SUFFICES ASSUME NEW k \in DOMAIN scheduled, NEW p \in Nat, NEW s, s = scheduled[k].seq,
                      numComputed[s] <= p, p < numComputed[s] + scheduled[k].n,
                      SlotOf(blockTable[s], p) = slot
               PROVE  w # {}
    BY DEF WillWrite
  <2>1. p \in Written(modelInput'[k]) /\ modelInput'[k].table = blockTable[s]
    <3>1. /\ Written(modelInput'[k]) = numComputed[s] .. numComputed[s] + scheduled[k].n - 1
          /\ modelInput'[k].table = blockTable[s]
          /\ numComputed[s] \in Nat /\ scheduled[k].n \in Nat
      BY <1>1 DEF IsInput
    <3> QED BY <3>1
  <2>2. k \in DOMAIN modelInput'
    BY <1>1
  <2>3. SubSeq(modelInput'[k].tokens, 1, p + 1) \in w
    BY <2>1, <2>2 DEF WritesTo
  <2> QED BY <2>3
<1>4. /\ WriteAll(modelInput')[slot] = IF w = {} THEN kv[slot] ELSE CHOOSE x \in w : TRUE
      /\ WriteAll(modelInput)'[slot] = IF w = {} THEN kv'[slot] ELSE CHOOSE x \in w : TRUE
  BY DEF WriteAll
<1>5. w # {} => (CHOOSE x \in w : TRUE) = c
  <2> HIDE DEF w
  <2> QED BY <1>2
<1> HIDE DEF w
<1> QED BY <1>0, <1>3, <1>4, <1>5

\* What is planned stays planned.
LEMMA ItemGrows ==
    ASSUME OnceInv, OnceInv', InsideStep, pc \in PlanPcs, Sound, Sound',
           pc # "scheduled", pc # "idle", NEW k \in DOMAIN scheduled,
           NEW s, s = scheduled[k].seq
    PROVE  /\ k \in DOMAIN scheduled' /\ scheduled'[k] = scheduled[k]
           /\ s \in Seqs /\ ~Freeing(s) /\ scheduled[k].n \in Nat
           /\ Due(s, scheduled[k].n) /\ Grows(s)
<1>0. /\ EngineInv /\ PlanOK' /\ pc' \in PlanPcs /\ EngineTablesOK
  <2>1. pc' \in SchedulePcs \ {"idle"}
    BY InsidePc DEF OnceInv
  <2> QED BY <2>1 DEF OnceInv, EngineInv, SchedulePcs, PlanPcs
<1>1. k \in DOMAIN scheduled' /\ scheduled'[k] = scheduled[k]
  BY <1>0, ItemsGrow
<1>2. /\ s \in Seqs /\ scheduled[k].n \in Nat /\ status[s] = "RUNNING" /\ Fitting(k)
  BY SoundItem
<1>3. Due(s, scheduled[k].n)
  BY <1>2 DEF Fitting
<1>4. status'[s] \in {"RUNNING", "PREFILLING"}
  <2>1. Fitting(k)' \/ Touched(k)'
    BY <1>0, <1>1 DEF PlanOK
  <2>2. ~Touched(k)'
    BY <1>0, <1>1 DEF Sound, Spoiled
  <2>3. Fitting(k)'
    BY <2>1, <2>2
  <2> QED BY <1>1, <2>3 DEF Fitting
<1>5. ~(AdmitFinish /\ call.seq = s)
  BY <1>0, <1>2 DEF EngineTablesOK, AdmitFinish
<1>6. Grows(s)
  BY <1>0, <1>2, <1>4, <1>5, InsideGrows
<1>7. ~Freeing(s)
  BY <1>0, <1>2, LiveHolds
<1> QED BY <1>1, <1>2, <1>3, <1>6, <1>7

\* So does what will be written, and where.
LEMMA WillWriteStays ==
    ASSUME OnceInv, OnceInv', InsideStep, pc \in PlanPcs, Sound, Sound',
           pc # "scheduled", pc # "idle", NEW slot, NEW c, WillWrite(slot, c)
    PROVE  WillWrite(slot, c)'
<1>1. PICK k \in DOMAIN scheduled, p \in Nat :
         /\ numComputed[scheduled[k].seq] <= p
         /\ p < numComputed[scheduled[k].seq] + scheduled[k].n
         /\ p < Room(scheduled[k].seq)
         /\ SlotOf(blockTable[scheduled[k].seq], p) = slot
         /\ c = Prefix(scheduled[k].seq, p)
  BY DEF WillWrite
<1>2. PICK s : s = scheduled[k].seq
  OBVIOUS
<1>0. EngineInv /\ PoolTypeOK /\ PoolTypeOK' /\ EngineNext
  BY DEF OnceInv, EngineInv, PoolInv, InsideStep, EngineNext, LoopStep
<1>3. /\ k \in DOMAIN scheduled' /\ scheduled'[k] = scheduled[k]
      /\ s \in Seqs /\ ~Freeing(s) /\ scheduled[k].n \in Nat
      /\ Due(s, scheduled[k].n) /\ Grows(s)
  BY <1>2, ItemGrows
<1>4. numComputed'[s] = numComputed[s] /\ numComputed[s] \in Nat /\ TotalLen(s) \in Nat
  BY <1>0, <1>3, RoomFacts DEF Grows
<1>5. p < TotalLen(s)
  BY <1>1, <1>2, <1>3, <1>4 DEF Due
<1>6. Prefix(s, p)' = Prefix(s, p)
  BY <1>0, <1>3, <1>5, PrefixStays
<1>7. p < Room(s)' /\ SlotOf(blockTable'[s], p) = SlotOf(blockTable[s], p)
  BY <1>0, <1>1, <1>2, <1>3, KeepsSlot
<1>8. /\ scheduled'[k].seq = s /\ scheduled'[k].n = scheduled[k].n
      /\ numComputed'[s] <= p
      /\ p < numComputed'[s] + scheduled[k].n
      /\ SlotOf(blockTable'[s], p) = slot
      /\ c = Prefix(s, p)'
  BY <1>1, <1>2, <1>3, <1>4, <1>6, <1>7
<1> QED BY <1>3, <1>7, <1>8 DEF WillWrite

\* The cache is written by the executor only.
LEMMA CacheSteps ==
    ASSUME EngineInv, EngineNext
    PROVE  \/ /\ pc = "forward" /\ pc' = "count" /\ kv' = WriteAll(modelInput)
              /\ modelInput' = modelInput
           \/ /\ pc = "forward" /\ pc' \in {"forward"} \cup EndPcs
              /\ kv' = kv /\ modelInput' = modelInput
           \/ SubmitForward
           \/ pc # "forward" /\ pc' # "forward" /\ kv' = kv
<1>1. CASE PoolCall
  BY <1>1 DEF PoolCall, kvVars
<1>2. CASE Schedule
  <2>1. pc \in SchedulePcs /\ pc' \in SchedulePcs
    BY <1>2, InsidePc DEF InsideStep
  <2> QED BY <1>2, <2>1 DEF Schedule, kvVars, SchedulePcs
<1>3. CASE RequestStep
  BY <1>3 DEF RequestStep, AddRequest, Add, Abort, AbortWaiting, AbortRunning, Shutdown,
     schedulerVars, kvVars
<1>4. CASE MoveStep
  BY <1>4 DEF MoveStep, LoopExit, WaitForWork, Woken, WaitTimeout, ShutdownTimeout, Goto,
     Starved, Resume, kvVars, EndPcs
<1>5. CASE LoopDies
  BY <1>5 DEF LoopDies, RegisterIndexError, kvVars, EndPcs, EngineInv, EngineStepOK,
     RequestPcs
<1>6. CASE ForwardDone
  BY <1>6 DEF ForwardDone
<1>7. ASSUME Count \/ SampleAll
      PROVE pc # "forward" /\ pc' # "forward" /\ kv' = kv
  BY <1>7 DEF Count, CountItem, SampleAll, kvVars
<1>8. ASSUME ApplyStep \/ SendStep
      PROVE pc # "forward" /\ pc' # "forward" /\ kv' = kv
  BY <1>8 DEF ApplyStep, ApplyToken, ApplyRegister, ApplyStop, ApplyKeep, ApplyEnd,
     SendStep, FreeFinished, FreeEnd, EmitItem, EmitEnd, kvVars
<1> QED BY <1>1, <1>2, <1>3, <1>4, <1>5, <1>6, <1>7, <1>8 DEF EngineNext, LoopStep,
          RequestStep, MoveStep, ForwardStep, ApplyStep, SendStep

\* What a slot holds, or will, stays there until something else is planned.
LEMMA HoldsStays ==
    ASSUME OnceInv, OnceInv', EngineNext, Sound, Sound', NEW slot \in Slots, NEW c,
           Holds(slot, c), SubmitForward => Agrees(slot, c)
    PROVE  Holds(slot, c)'
<1>0. EngineInv /\ pc' \notin EndPcs
  BY DEF OnceInv, Sound
<1>1. CASE SubmitForward
  <2>1. WriteAll(modelInput)'[slot] = c
    <3>1. pc # "forward"
      BY <1>1 DEF SubmitForward
    <3>2. kv[slot] = c \/ WillWrite(slot, c)
      BY <3>1 DEF Holds
    <3> QED BY <1>0, <1>1, <3>2, SubmitWrites
  <2>2. pc' = "forward"
    BY <1>1 DEF SubmitForward
  <2> QED BY <2>1, <2>2 DEF Holds
<1>2. CASE pc = "forward"
  <2>1. WriteAll(modelInput)[slot] = c
    BY <1>2 DEF Holds
  <2>2. ~SubmitForward
    BY <1>2 DEF SubmitForward
  <2>3. CASE pc' = "count" /\ kv' = WriteAll(modelInput)
    BY <2>1, <2>3 DEF Holds
  <2>4. CASE pc' = "forward" /\ kv' = kv /\ modelInput' = modelInput
    <3>1. WriteAll(modelInput)' = WriteAll(modelInput)
      BY <2>4 DEF WriteAll, WritesTo, Written
    <3> QED BY <2>1, <2>4, <3>1 DEF Holds
  <2> QED BY <1>0, <1>2, <2>2, <2>3, <2>4, CacheSteps
<1>3. CASE pc # "forward" /\ ~SubmitForward
  <2>1. pc' # "forward" /\ kv' = kv
    BY <1>0, <1>3, CacheSteps
  <2>2. CASE kv[slot] = c
    BY <2>1, <2>2 DEF Holds
  <2>3. CASE pc \in PlanPcs /\ WillWrite(slot, c)
    <3>1. CASE InsideStep /\ pc' \in PlanPcs /\ pc # "scheduled" /\ pc # "idle"
      <4>1. WillWrite(slot, c)'
        BY <2>3, <3>1, WillWriteStays
      <4> QED BY <2>1, <3>1, <4>1 DEF Holds
    <3>2. CASE Starved
      <4>1. scheduled = <<>>
        BY <3>2 DEF Starved
      <4> QED BY <2>3, <4>1, EmptySeq DEF WillWrite
    <3>3. pc' # "crashed"
      BY <1>0 DEF EndPcs
    <3> QED BY <1>0, <1>3, <2>3, <3>1, <3>2, <3>3, PlanSteps
  <2> QED BY <1>3, <2>2, <2>3 DEF Holds
<1> QED BY <1>1, <1>2, <1>3

-----------------------------------------------------------------------------
(* What a sequence counts on, and what a hash promises. *)

\* The sequence's table leads to what was computed for its tokens up to p.
Kept(s, p) ==
    /\ p < TotalLen(s)
    /\ p < Room(s)
    /\ Holds(SlotOf(blockTable[s], p), Prefix(s, p))

ReachOK ==
    \A s \in Seqs : \A p \in Nat : (blockTable[s] # <<>> /\ Reach(s, p)) => Kept(s, p)

\* A sequence that is being prefilled will come to the slot.
Unwritten(b, o) ==
    \E a \in Seqs : \E i \in DOMAIN blockTable[a] :
        /\ status[a] = "PREFILLING"
        /\ blockTable[a][i] = b
        /\ ~Reach(a, (i - 1) * BlockSize + o)
        /\ (i - 1) * BlockSize + o < PromptLen(a)

HashOK ==
    \A b \in Blocks : \A o \in 0 .. BlockSize - 1 :
        pool.hashKey[b] # NoHash =>
            Holds(<<b, o>>, HashContent(b, o)) \/ Unwritten(b, o)

\* What a step leaves of the values of a slot is about its new table.
LEMMA KeptThere ==
    ASSUME NEW s, NEW p, NEW slot, NEW c, Holds(slot, c)',
           slot = SlotOf(blockTable'[s], p), c = Prefix(s, p)',
           p < TotalLen(s)', p < Room(s)'
    PROVE  Kept(s, p)'
<1>1. CASE pc' = "forward"
  <2>1. WriteAll(modelInput)'[slot] = c
    BY <1>1 DEF Holds
  <2> QED BY <1>1, <2>1 DEF Kept, Holds
<1>2. CASE pc' # "forward"
  <2>1. CASE kv'[slot] = c
    BY <1>2, <2>1 DEF Kept, Holds
  <2>2. CASE pc' \in PlanPcs /\ WillWrite(slot, c)'
    <3>1. PICK k \in DOMAIN scheduled', q \in Nat :
             /\ numComputed'[scheduled'[k].seq] <= q
             /\ q < numComputed'[scheduled'[k].seq] + scheduled'[k].n
             /\ q < Room(scheduled[k].seq)'
             /\ SlotOf(blockTable'[scheduled'[k].seq], q) = slot
             /\ c = Prefix(scheduled[k].seq, q)'
      BY <2>2 DEF WillWrite
    <3>2. WillWrite(SlotOf(blockTable[s], p), Prefix(s, p))'
      BY <3>1 DEF WillWrite
    <3> QED BY <1>2, <2>2, <3>2 DEF Kept, Holds
  <2> QED BY <1>2, <2>1, <2>2 DEF Holds
<1> QED BY <1>1, <1>2

\* What a sequence counts on stays, as long as it keeps its table.
LEMMA KeptStays ==
    ASSUME OnceInv, OnceInv', EngineNext, Sound, Sound', NEW s \in Seqs,
           blockTable'[s] # <<>>, NEW p \in Nat, Kept(s, p)
    PROVE  Kept(s, p)'
<1>0. /\ EngineInv /\ PoolTypeOK /\ PoolTypeOK' /\ TotalLen(s) \in Nat
      /\ p < TotalLen(s) /\ p < Room(s)
  BY RoomFacts DEF OnceInv, EngineInv, PoolInv, Kept
<1>1. PICK slot : slot = SlotOf(blockTable[s], p)
  OBVIOUS
<1>2. PICK c : c = Prefix(s, p)
  OBVIOUS
<1>3. Holds(slot, c) /\ slot \in Slots
  BY <1>0, <1>1, <1>2, SlotsOfTables DEF Kept
<1>4. SubmitForward => Agrees(slot, c)
  <2>1. SubmitForward => call = Idle
    BY <1>0 DEF SubmitForward, EngineInv, EngineStepOK
  <2> QED BY <1>0, <1>1, <1>2, <2>1, HolderAgrees
<1>5. Holds(slot, c)'
  BY <1>3, <1>4, HoldsStays
<1>6. Prefix(s, p)' = Prefix(s, p) /\ p < TotalLen(s)'
  <2>1. /\ TotalLen(s) <= TotalLen(s)' /\ TotalLen(s)' \in Nat
        /\ Prefix(s, p)' = Prefix(s, p)
    BY <1>0, PrefixStays
  <2> QED BY <1>0, <2>1
<1>7. p < Room(s)' /\ SlotOf(blockTable'[s], p) = SlotOf(blockTable[s], p)
  BY <1>0, KeepsSlot
<1>8. slot = SlotOf(blockTable'[s], p) /\ c = Prefix(s, p)'
  BY <1>1, <1>2, <1>6, <1>7
<1> QED BY <1>5, <1>6, <1>7, <1>8, KeptThere

\* A hit finds a block whose K and V are there: whoever is to write them is
\* not behind the head of the queue.
LEMMA HitHolds ==
    ASSUME OnceInv, EngineNext, CleanStep, AheadOK, AdmitsHead, HashOK, AdmitHit,
           NEW s \in Seqs, s = call.seq, NEW o \in 0 .. BlockSize - 1,
           NEW i, i = call.i + 1
    PROVE  /\ i \in DOMAIN blockTable'[s] /\ i \in Nat \ {0}
           /\ i * BlockSize <= PromptLen(s)
           /\ Holds(<<blockTable'[s][i], o>>, Prefix(s, (i - 1) * BlockSize + o))
<1>0. /\ EngineInv /\ PoolInv /\ PoolTypeOK /\ call.op = "admit"
      /\ call.i = Len(blockTable[s]) /\ call.i \in Nat
      /\ status[s] = "PREFILLING" /\ waiting # <<>> /\ s = Head(waiting)
      /\ BlockSize \in Nat \ {0}
  BY HitCovers, BlockConstants
     DEF OnceInv, EngineInv, PoolInv, AdmitHit, AdmitsHead, EngineTablesOK
<1>1. i \in Nat \ {0} /\ i \notin DOMAIN blockTable[s]
  <2>1. blockTable[s] \in Seq(Blocks)
    BY <1>0 DEF PoolTypeOK
  <2>2. DOMAIN blockTable[s] = 1 .. Len(blockTable[s])
    BY <2>1
  <2> QED BY <1>0, <2>2
<1>2. i \in DOMAIN blockTable'[s]
  <2>1. PICK x : blockTable'[s] = Append(blockTable[s], x)
    <3>1. PICK x : blockTable' = [blockTable EXCEPT ![s] = Append(@, x)]
      BY DEF AdmitHit
    <3>2. DOMAIN blockTable = Seqs
      BY <1>0 DEF PoolTypeOK
    <3> QED BY <3>1, <3>2
  <2>2. blockTable[s] \in Seq(Blocks)
    BY <1>0 DEF PoolTypeOK
  <2> QED BY <1>0, <2>1, <2>2
<1>3. PICK b : b = blockTable'[s][i]
  OBVIOUS
<1>4. /\ b \in Blocks /\ i <= CapFull(s) /\ i * BlockSize <= PromptLen(s)
      /\ pool.hashKey[b] = PrefixOf(s, i) /\ PrefixOf(s, i) # NoHash
  <2>1. ~AdmitMiss
    BY DEF AdmitHit, AdmitMiss
  <2>2. /\ b \in Blocks
        /\ \/ /\ AdmitHit /\ s = call.seq /\ i = call.i + 1
              /\ i <= CapFull(s) /\ i * BlockSize <= PromptLen(s)
              /\ pool.hashKey[b] = PrefixOf(s, i) /\ pool'.hashKey[b] = PrefixOf(s, i)
           \/ i > CapFull(s)
    BY <1>0, <1>1, <1>2, <1>3, <2>1, NewEntryHash
  <2>3. /\ call.i < CapFull(s) /\ CapFull(s) \in Nat
        /\ PrefixOf(s, i) # NoHash
    <3>1. call.i < call.n /\ call.i < CapFull(s)
      BY DEF AdmitHit, IsHit
    <3>2. CapFull(s) \in Nat
      <4>1. NumFull(s) \in Nat
        BY <1>0, RoomFacts, DivMod DEF NumFull
      <4>2. CapFull(s) \in {NumFull(s), NumFull(s) - 1}
        BY DEF CapFull
      <4> QED BY <1>0, <3>1, <4>1, <4>2
    <3> QED BY <1>0, <3>1, <3>2, AdmitNames
  <2> QED BY <1>0, <2>2, <2>3
<1>5. PICK p : p = (i - 1) * BlockSize + o
  OBVIOUS
<1>6. /\ PrefixOf(s, i) = PromptPrefix(s, i)
      /\ i * BlockSize <= TotalLen(s) /\ Len(PrefixOf(s, i)) = i * BlockSize
      /\ HashContent(b, o) = Prefix(s, p)
  <2>1. PrefixOf(s, i) = PromptPrefix(s, i) /\ i * BlockSize <= TotalLen(s)
    <3>1. i * BlockSize \in Nat
      BY <1>0, <1>1, Multiples
    <3>2. PrefixOf(s, i) = PromptPrefix(s, i)
      BY <1>0, <1>1, <1>4, PromptNames
    <3> QED BY <1>0, <1>4, <3>1, <3>2, RoomFacts
  <2> DEFINE h == PrefixOf(s, i)
  <2>2. Len(h) = i * BlockSize /\ SubSeq(h, 1, Len(h) - BlockSize + o + 1) = Prefix(s, p)
    BY <1>0, <1>1, <1>5, <2>1, PrefixInBlock
  <2> HIDE DEF h
  <2>3. pool.hashKey[b] = h
    BY <1>4 DEF h
  <2>4. HashContent(b, o) = Prefix(s, p)
    BY <2>2, <2>3 DEF HashContent
  <2> QED BY <2>1, <2>2, <2>4 DEF h
<1>7. ~Unwritten(b, o)
  <2> SUFFICES ASSUME NEW a \in Seqs, NEW j \in DOMAIN blockTable[a],
                      status[a] = "PREFILLING", blockTable[a][j] = b,
                      ~Reach(a, (j - 1) * BlockSize + o)
               PROVE  FALSE
    BY DEF Unwritten
  <2>1. ~Freeing(a)
    BY <1>0, LiveHolds
  <2>2. pool.hashKey[blockTable[a][j]] # NoHash
    BY <1>4
  <2>3. PICK q : q = (j - 1) * BlockSize + o
    OBVIOUS
  <2>4. /\ Len(pool.hashKey[blockTable[a][j]]) = j * BlockSize
        /\ j \in Nat \ {0} /\ q < j * BlockSize /\ q \in Nat /\ j * BlockSize \in Nat
    <3>1. Len(pool.hashKey[blockTable[a][j]]) = j * BlockSize
      BY <1>0, <2>1, <2>2, <2>3, HashIsContent
    <3>2. /\ j \in Nat \ {0} /\ q < j * BlockSize /\ q \in Nat /\ j * BlockSize \in Nat
      BY <1>0, <2>3, PositionOfSlot
    <3> QED BY <3>1, <3>2
  <2>5. j = i
    <3>1. j * BlockSize = i * BlockSize
      BY <1>4, <1>6, <2>4
    <3>2. j \in Nat /\ i \in Nat /\ BlockSize \in Nat \ {0}
      BY <1>0, <1>1, <2>4
    <3> QED BY <3>1, <3>2, Multiples
  <2>6. a # s
    BY <1>1, <2>5
  <2>7. Before(waiting, s, a)
    <3>1. Contains(waiting, a) /\ waiting \in Seq(Seqs)
      BY <1>0 DEF EngineInv, QueuesOK, QueueData
    <3>2. PICK n \in DOMAIN waiting : waiting[n] = a
      BY <3>1 DEF Contains
    <3>3. 1 \in DOMAIN waiting /\ waiting[1] = s /\ n \in Nat \ {0} /\ n # 1
      BY <1>0, <2>6, <3>1, <3>2
    <3>4. 1 < n
      BY <3>3
    <3> QED BY <3>2, <3>3, <3>4 DEF Before
  <2>8. Done(a) < j * BlockSize
    <3>1. ~(q < Done(a))
      BY <2>3 DEF Reach
    <3>2. Done(a) \in Nat
      BY <1>0 DEF Done, PoolTypeOK, CallOK
    <3> QED BY <2>4, <3>1, <3>2
  <2>9. pool.hashKey[blockTable[a][j]] # PromptPrefix(s, j)
    BY <1>4, <2>2, <2>5, <2>7, <2>8 DEF AheadOK, Ahead
  <2> QED BY <1>4, <1>6, <2>5, <2>9
<1>8. Holds(<<b, o>>, HashContent(b, o))
  BY <1>4, <1>7 DEF HashOK
<1> QED BY <1>1, <1>2, <1>3, <1>4, <1>5, <1>6, <1>8

\* A sequence that gets its first block counts on nothing.
LEMMA FirstBlock ==
    ASSUME OnceInv, OnceInv', EngineNext, AdmitsHead, NEW s \in Seqs,
           blockTable[s] = <<>>, blockTable'[s] # <<>>, NEW p \in Nat
    PROVE  ~Reach(s, p) /\ ~SubmitForward
<1>0. /\ EngineInv /\ PoolTypeOK /\ AdmitOK /\ blockTable'[s] \in Seq(Blocks)
      /\ BlockSize \in Nat \ {0}
  BY BlockConstants DEF OnceInv, EngineInv, PoolInv, CallOK, PoolTypeOK
<1>1. 1 \in DOMAIN blockTable'[s] /\ 1 \notin DOMAIN blockTable[s]
  BY <1>0
<1>2. Admitting(s)
  BY <1>0, <1>1, NewEntry DEF TakesFresh, AdmitHit, AdmitMiss, Admitting
<1>3. call.op = "admit" /\ call.seq = s /\ pc = "prefill"
  BY <1>2 DEF Admitting, AdmitsHead
<1>4. call.i = 0 /\ call.cached <= 0 * BlockSize /\ call.cached \in Nat
  BY <1>0, <1>3 DEF AdmitOK, PoolTypeOK
<1>5. Done(s) = 0
  BY <1>0, <1>2, <1>4 DEF Done
<1>6. Forwarded = <<>>
  BY <1>3 DEF Forwarded
<1> QED BY <1>3, <1>5, <1>6, EmptySeq DEF Reach, SubmitForward

\* What a sequence counts on is in the slots of its table.
LEMMA ReachStep ==
    ASSUME OnceInv, OnceInv', EngineNext, CleanStep, Sound, Sound', AheadOK, AdmitsHead,
           HashOK, ReachOK
    PROVE  ReachOK'
<1> SUFFICES ASSUME NEW s \in Seqs, NEW p \in Nat, blockTable'[s] # <<>>, Reach(s, p)'
             PROVE  Kept(s, p)'
  BY DEF ReachOK
<1>0. /\ EngineInv /\ PoolInv /\ PoolTypeOK /\ PoolTypeOK' /\ BlockSize \in Nat \ {0}
      /\ TotalLen(s) \in Nat /\ PromptLen(s) <= TotalLen(s) /\ PromptLen(s) \in Nat
      /\ TotalLen(s) <= TotalLen(s)' /\ TotalLen(s)' \in Nat
  <2>1. EngineInv /\ PoolInv /\ PoolTypeOK /\ PoolTypeOK' /\ BlockSize \in Nat \ {0}
    BY BlockConstants DEF OnceInv, EngineInv, PoolInv
  <2> QED BY <2>1, RoomFacts, PrefixStays
<1>1. CASE Reach(s, p)
  <2>1. blockTable[s] # <<>>
    BY <1>1, FirstBlock
  <2>2. Kept(s, p)
    BY <1>1, <2>1 DEF ReachOK
  <2> QED BY <2>2, KeptStays
<1>2. CASE ~Reach(s, p) /\ AdmitHit /\ s = call.seq /\ p < call.cached + BlockSize
           /\ Done(s) = call.cached
  <2>1. call.cached = call.i * BlockSize /\ call.i \in Nat /\ ~(p < call.cached)
    BY <1>0, <1>2, HitCovers DEF Reach
  <2>2. PICK i : i = call.i + 1
    OBVIOUS
  <2>3. PICK o \in 0 .. BlockSize - 1 : p = (i - 1) * BlockSize + o
    <3> DEFINE m == call.i * BlockSize
    <3>1. i - 1 = call.i /\ m \in Nat /\ ~(p < m) /\ p < m + BlockSize
      <4>1. i - 1 = call.i
        BY <2>1, <2>2
      <4>2. m \in Nat
        BY <1>0, <2>1, Multiples
      <4>3. ~(p < m) /\ p < m + BlockSize
        BY <1>2, <2>1
      <4> QED BY <4>1, <4>2, <4>3
    <3>2. p = (i - 1) * BlockSize + (p - m)
      BY <3>1
    <3> HIDE DEF m
    <3>3. p - m \in 0 .. BlockSize - 1
      BY <1>0, <3>1
    <3> QED BY <3>2, <3>3
  <2>4. /\ i \in DOMAIN blockTable'[s] /\ i \in Nat \ {0}
        /\ i * BlockSize <= PromptLen(s)
        /\ Holds(<<blockTable'[s][i], o>>, Prefix(s, p))
    BY <1>2, <2>2, <2>3, HitHolds
  <2>5. /\ SlotOf(blockTable'[s], p) = <<blockTable'[s][i], o>>
        /\ p < Len(blockTable'[s]) * BlockSize /\ p < i * BlockSize
        /\ blockTable'[s][i] \in Blocks /\ i * BlockSize \in Nat
    <3>1. blockTable'[s] \in Seq(Blocks)
      BY <1>0 DEF PoolTypeOK
    <3> QED BY <2>3, <2>4, <3>1, EntrySlot
  <2>6. p < Room(s)' /\ p < TotalLen(s)' /\ p < TotalLen(s)
    BY <1>0, <2>4, <2>5 DEF Room
  <2>7. PICK slot : slot = <<blockTable'[s][i], o>>
    OBVIOUS
  <2>8. PICK c : c = Prefix(s, p)
    OBVIOUS
  <2>9. Holds(slot, c)'
    <3>1. Holds(slot, c) /\ slot \in Slots
      BY <2>4, <2>5, <2>7, <2>8 DEF Slots
    <3>2. ~SubmitForward
      BY <1>0, <1>2, IdleFields DEF SubmitForward, AdmitHit, EngineInv, EngineStepOK
    <3> QED BY <3>1, <3>2, HoldsStays
  <2>10. c = Prefix(s, p)'
    BY <1>0, <2>6, <2>8, PrefixStays
  <2> QED BY <2>5, <2>6, <2>7, <2>9, <2>10, KeptThere
<1>3. ASSUME ~Reach(s, p), SubmitForward,
             NEW k \in DOMAIN scheduled, scheduled[k].seq = s,
             p < numComputed[s] + scheduled[k].n
      PROVE  Kept(s, p)'
  <2>1. pc = "scheduled" /\ call = Idle /\ Idle.op = "none"
    BY <1>0, <1>3, IdleFields DEF SubmitForward, EngineInv, EngineStepOK
  <2>2. ~(p < numComputed[s])
    BY <1>3, <2>1 DEF Reach, Done, Admitting
  <2>3. /\ numComputed[s] + scheduled[k].n <= TotalLen(s)
        /\ numComputed[s] + scheduled[k].n <= Room(s)
        /\ scheduled[k].n \in Nat /\ numComputed[s] \in Nat /\ Room(s) \in Nat
    <3>1. IsInput(modelInput'[k], scheduled[k].seq, scheduled[k].n)
      BY <1>0, <1>3, InputSegments DEF EngineInv
    <3> QED BY <1>0, <1>3, <3>1, RoomFacts DEF IsInput
  <2>4. p < TotalLen(s) /\ p < Room(s) /\ numComputed[s] <= p
    BY <1>0, <1>3, <2>2, <2>3
  <2>5. WillWrite(SlotOf(blockTable[s], p), Prefix(s, p))
    BY <1>3, <2>4 DEF WillWrite
  <2>6. Kept(s, p)
    BY <2>1, <2>4, <2>5 DEF Kept, Holds, PlanPcs
  <2> QED BY <2>6, KeptStays
<1> QED BY <1>1, <1>2, <1>3, ReachSteps

-----------------------------------------------------------------------------
(* A block that is hashed is written, or a prefill is on its way to it. *)

\* A prefill ends with its last chunk: nothing else takes a sequence that has
\* blocks out of it, but for an abort.
LEMMA PrefillLeaves ==
    ASSUME OnceInv, EngineNext, CleanStep, NEW a \in Seqs, status[a] = "PREFILLING",
           status'[a] # "PREFILLING", blockTable[a] # <<>>
    PROVE  ScheduleChunk /\ a = Head(waiting) /\ status'[a] = "RUNNING"
<1>0. /\ EngineInv /\ QueueData /\ QueuesOK /\ Contains(waiting, a)
      /\ ~Contains(running, a) /\ status \in [Seqs -> Statuses]
      /\ finishReason \in [Seqs -> FinishReasons]
  BY DEF OnceInv, EngineInv, QueuesOK, QueueData
<1>1. ~(UNCHANGED <<waiting, status>>)
  OBVIOUS
<1>2. ASSUME NEW s \in Seqs, AddRequest(s) PROVE FALSE
  <2>1. status[s] = "NONE" /\ status' = [status EXCEPT ![s] = "WAITING"]
    BY <1>2 DEF AddRequest, Add, SetStatus
  <2> QED BY <1>0, <2>1
<1>3. ASSUME NEW s \in Seqs, Abort(s) PROVE FALSE
  <2>1. /\ status' = [status EXCEPT ![s] = "FINISHED"]
        /\ finishReason' = [finishReason EXCEPT ![s] = "abort"]
    BY <1>3 DEF Abort, AbortWaiting, AbortRunning, Finish, SetStatus
  <2>2. s = a
    BY <1>0, <2>1
  <2>3. finishReason'[a] = "abort"
    BY <1>0, <2>1, <2>2
  <2> QED BY <1>0, <2>3 DEF CleanStep
<1>4. CASE ApplyStop
  <2>1. /\ status' = [status EXCEPT ![Current] = "FINISHED"]
        /\ pc = "check" /\ Current \in DOMAIN newTokens
    BY <1>4 DEF ApplyStop, Finish, SetStatus
  <2>2. Current = a
    BY <1>0, <2>1
  <2>3. status[a] \in {"RUNNING", "FINISHED"}
    BY <2>1, <2>2 DEF OnceInv, BatchOK, ApplyPcs
  <2> QED BY <2>3
<1>5. CASE running # <<>> /\ PreemptOne
  <2>1. status' = [status EXCEPT ![Last(running)] = "PREEMPTED"]
    BY <1>5 DEF PreemptOne, SetStatus
  <2>2. Last(running) = a
    BY <1>0, <2>1
  <2>3. Contains(running, Last(running))
    BY <1>0, <1>5, ContainsFront DEF QueueData, QueuesOK
  <2> QED BY <1>0, <2>2, <2>3
<1>6. CASE AdmitHead
  <2>1. status' = [status EXCEPT ![Head(waiting)] = "PREFILLING"]
    BY <1>6 DEF AdmitHead, SetStatus
  <2> QED BY <1>0, <2>1
<1>7. CASE StartRunning
  <2>1. status' = [status EXCEPT ![Head(waiting)] = "RUNNING"]
    BY <1>7 DEF StartRunning, SetStatus
  <2>2. a = Head(waiting)
    BY <1>0, <2>1
  <2>3. status'[a] = "RUNNING"
    BY <1>0, <2>1, <2>2
  <2>4. CASE NothingToPrefill
    <3>1. /\ call = Idle /\ waiting # <<>> /\ pc = "prefill" /\ budget > 0
          /\ ChunkOf(Head(waiting)) = 0
      BY <2>4 DEF NothingToPrefill, PrefillTurn
    <3>2. NumUncomputedPromptTokens(a) > 0
      BY <2>2, <3>1, HeadHasPrompt
    <3> QED BY <2>2, <3>1, <3>2 DEF ChunkOf
  <2> QED BY <1>0, <1>1, <1>2, <1>3, <1>4, <1>5, <1>6, <2>2, <2>3, <2>4, QueueMoves
<1> QED BY <1>0, <1>1, <1>2, <1>3, <1>4, <1>5, <1>6, <1>7, QueueMoves

\* The same of a hashed block.
LEMMA HeldThere ==
    ASSUME NEW slot, NEW c, Holds(slot, c)', NEW b, NEW o, slot = <<b, o>>,
           c = HashContent(b, o)'
    PROVE  Holds(<<b, o>>, HashContent(b, o))'
<1>1. CASE pc' = "forward"
  <2>1. WriteAll(modelInput)'[slot] = c
    BY <1>1 DEF Holds
  <2> QED BY <1>1, <2>1 DEF Holds
<1>2. CASE pc' # "forward"
  <2>1. CASE kv'[slot] = c
    BY <1>2, <2>1 DEF Holds
  <2>2. CASE pc' \in PlanPcs /\ WillWrite(slot, c)'
    <3>1. PICK k \in DOMAIN scheduled', q \in Nat :
             /\ numComputed'[scheduled'[k].seq] <= q
             /\ q < numComputed'[scheduled'[k].seq] + scheduled'[k].n
             /\ q < Room(scheduled[k].seq)'
             /\ SlotOf(blockTable'[scheduled'[k].seq], q) = slot
             /\ c = Prefix(scheduled[k].seq, q)'
      BY <2>2 DEF WillWrite
    <3>2. WillWrite(<<b, o>>, HashContent(b, o))'
      BY <3>1 DEF WillWrite
    <3> QED BY <1>2, <2>2, <3>2 DEF Holds
  <2> QED BY <1>2, <2>1, <2>2 DEF Holds
<1> QED BY <1>1, <1>2

\* Read the other way.
LEMMA KeptHolds ==
    ASSUME NEW s, NEW p, NEW slot, NEW c, Kept(s, p)',
           slot = SlotOf(blockTable'[s], p), c = Prefix(s, p)'
    PROVE  Holds(slot, c)'
<1>0. Holds(SlotOf(blockTable[s], p), Prefix(s, p))'
  BY DEF Kept
<1>1. CASE pc' = "forward"
  <2>1. WriteAll(modelInput)'[SlotOf(blockTable'[s], p)] = Prefix(s, p)'
    BY <1>0, <1>1 DEF Holds
  <2>2. WriteAll(modelInput)'[slot] = c
    BY <2>1
  <2> QED BY <1>1, <2>2 DEF Holds
<1>2. CASE pc' # "forward"
  <2>1. CASE kv'[SlotOf(blockTable'[s], p)] = Prefix(s, p)'
    BY <1>2, <2>1 DEF Holds
  <2>2. CASE pc' \in PlanPcs /\ WillWrite(SlotOf(blockTable[s], p), Prefix(s, p))'
    <3>1. PICK k \in DOMAIN scheduled', q \in Nat :
             /\ numComputed'[scheduled'[k].seq] <= q
             /\ q < numComputed'[scheduled'[k].seq] + scheduled'[k].n
             /\ q < Room(scheduled[k].seq)'
             /\ SlotOf(blockTable'[scheduled'[k].seq], q) = SlotOf(blockTable'[s], p)
             /\ Prefix(s, p)' = Prefix(scheduled[k].seq, q)'
      BY <2>2 DEF WillWrite
    <3>2. /\ SlotOf(blockTable'[scheduled'[k].seq], q) = slot
          /\ c = Prefix(scheduled[k].seq, q)'
      BY <3>1
    <3>3. WillWrite(slot, c)'
      BY <3>1, <3>2 DEF WillWrite
    <3> QED BY <1>2, <2>2, <3>3 DEF Holds
  <2> QED BY <1>0, <1>2, <2>1, <2>2 DEF Holds
<1> QED BY <1>1, <1>2

\* The last chunk of a prefill takes it to the end of its prompt.
LEMMA LastChunkWrites ==
    ASSUME OnceInv, ScheduleChunk, NEW a \in Seqs, a = Head(waiting),
           status'[a] = "RUNNING", NEW p \in Nat, ~Reach(a, p), p < PromptLen(a),
           NEW slot, slot = SlotOf(blockTable[a], p), NEW c, c = Prefix(a, p)'
    PROVE  Holds(slot, c)'
<1>0. /\ EngineInv /\ PoolTypeOK /\ pc = "ensure" /\ call = Idle /\ Idle.op = "none"
      /\ scheduled \in Seq(Items) /\ pc' \in {"prefill", "scheduled"}
      /\ scheduled' = Append(scheduled, Item(a, ChunkOf(a), TRUE))
      /\ waiting # <<>>
  BY IdleFields DEF OnceInv, EngineInv, PoolInv, QueueData, ScheduleChunk, EngineStepOK
<1>1. /\ PromptLen(a) <= numComputed'[a] + ChunkOf(a)
      /\ numComputed'[a] + ChunkOf(a) <= Room(a)
      /\ UNCHANGED poolVars
  BY ChunkDue DEF ChunkIsDue
<1>2. /\ blockTable' = blockTable /\ numComputed' = numComputed /\ Room(a)' = Room(a)
      /\ numComputed[a] \in Nat /\ PromptLen(a) \in Nat /\ Room(a) \in Nat
  BY <1>0, <1>1, RoomFacts DEF poolVars, seqVars, Room
<1>3. numComputed[a] <= p
  <2>1. ~(p < numComputed[a])
    BY <1>0 DEF Reach, Done, Admitting
  <2> QED BY <1>2, <2>1
<1>4. PICK n : n = ChunkOf(a)
  OBVIOUS
<1>5. n \in Nat \ {0}
  <2>1. PoolTypeOK /\ QueueTypes
    <3>1. SchedulerInv
      BY <1>0, ScheduleInv DEF SchedulePcs
    <3> QED BY <1>0, <3>1 DEF SchedulerInv
  <2>2. ChunkOf(a) > 0
    BY <1>0 DEF EngineInv, EngineStepOK
  <2> QED BY <1>4, <2>1, <2>2, ChunkBounds
<1>6. /\ p < numComputed'[a] + n /\ p < Room(a)'
  BY <1>1, <1>2, <1>4, <1>5
<1>7. PICK k \in DOMAIN scheduled' : scheduled'[k].seq = a /\ scheduled'[k].n = n
  <2>1. PICK item : item = Item(a, n, TRUE)
    OBVIOUS
  <2>2. item.seq = a /\ item.n = n /\ item \in Items
    BY <1>5, <2>1 DEF Item, Items
  <2>3. scheduled' = Append(scheduled, item)
    BY <1>0, <1>4, <2>1
  <2>4. Len(scheduled) + 1 \in DOMAIN scheduled' /\ scheduled'[Len(scheduled) + 1] = item
    <3>1. scheduled \in Seq(Items)
      BY <1>0
    <3>2. /\ Len(scheduled) \in Nat
          /\ Append(scheduled, item)[Len(scheduled) + 1] = item
          /\ DOMAIN Append(scheduled, item) = 1 .. Len(scheduled) + 1
      BY <2>2, <3>1
    <3>3. Len(scheduled) + 1 \in 1 .. Len(scheduled) + 1
      BY <3>2
    <3> QED BY <2>3, <3>2, <3>3
  <2> QED BY <2>2, <2>4
<1>8. WillWrite(slot, c)'
  <2>1. /\ numComputed'[scheduled'[k].seq] <= p
        /\ p < numComputed'[scheduled'[k].seq] + scheduled'[k].n
        /\ p < Room(scheduled[k].seq)'
        /\ SlotOf(blockTable'[scheduled'[k].seq], p) = slot
        /\ c = Prefix(scheduled[k].seq, p)'
    BY <1>2, <1>3, <1>6, <1>7
  <2> QED BY <2>1 DEF WillWrite
<1> QED BY <1>0, <1>8 DEF Holds, PlanPcs

\* Until its prefill ends, a sequence will come to the block; it ends with the
\* chunk that does.
LEMMA UnwrittenStays ==
    ASSUME OnceInv, OnceInv', EngineNext, CleanStep, ReachOK',
           NEW b \in Blocks, NEW o \in 0 .. BlockSize - 1,
           pool.hashKey[b] # NoHash, pool'.hashKey[b] = pool.hashKey[b], Unwritten(b, o)
    PROVE  Unwritten(b, o)' \/ Holds(<<b, o>>, HashContent(b, o))'
<1>0. EngineInv /\ PoolInv /\ PoolTypeOK /\ PoolTypeOK'
  BY DEF OnceInv, EngineInv, PoolInv
<1>a. PICK a \in Seqs : \E i \in DOMAIN blockTable[a] :
         /\ status[a] = "PREFILLING"
         /\ blockTable[a][i] = b
         /\ ~Reach(a, (i - 1) * BlockSize + o)
         /\ (i - 1) * BlockSize + o < PromptLen(a)
  BY DEF Unwritten
<1>1. PICK i \in DOMAIN blockTable[a] :
         /\ status[a] = "PREFILLING"
         /\ blockTable[a][i] = b
         /\ ~Reach(a, (i - 1) * BlockSize + o)
         /\ (i - 1) * BlockSize + o < PromptLen(a)
  BY <1>a
<1>2. PICK p : p = (i - 1) * BlockSize + o
  OBVIOUS
<1>3. PICK c : c = Prefix(a, p)
  OBVIOUS
<1>4. PICK slot : slot = <<b, o>>
  OBVIOUS
<1>5. ~Freeing(a)
  BY <1>0, <1>1, LiveHolds
<1>6. /\ p \in Nat /\ p < PromptLen(a) /\ ~Reach(a, p)
      /\ slot = SlotOf(blockTable[a], p) /\ p < Room(a)
      /\ p < TotalLen(a)
  <2>1. PromptLen(a) \in Nat /\ TotalLen(a) \in Nat /\ PromptLen(a) <= TotalLen(a)
    BY <1>0, RoomFacts
  <2>2. /\ p \in Nat /\ p < Room(a) /\ SlotOf(blockTable[a], p) = <<blockTable[a][i], o>>
    BY <1>0, <1>2, PositionOfSlot
  <2> QED BY <1>1, <1>2, <1>4, <2>1, <2>2
<1>7. /\ i \in DOMAIN blockTable'[a] /\ blockTable'[a][i] = b
      /\ PromptLen(a)' = PromptLen(a) /\ c = Prefix(a, p)'
      /\ slot = SlotOf(blockTable'[a], p)
  <2>1. i \in DOMAIN blockTable'[a] /\ blockTable'[a][i] = b
    BY <1>0, <1>1, <1>5, EntryStays
  <2>2. PromptLen(a)' = PromptLen(a) /\ Prefix(a, p)' = Prefix(a, p)
    BY <1>0, <1>6, PrefixStays
  <2>3. SlotOf(blockTable'[a], p) = SlotOf(blockTable[a], p)
    BY <1>0, <1>5, <1>6, KeepsSlot
  <2> QED BY <1>3, <1>6, <2>1, <2>2, <2>3
<1>8. c = HashContent(b, o)'
  <2>1. HashContent(b, o) = Prefix(a, p)
    BY <1>0, <1>1, <1>2, <1>5, HashIsContent
  <2>2. HashContent(b, o)' = HashContent(b, o)
    BY DEF HashContent
  <2> QED BY <1>3, <2>1, <2>2
<1>9. CASE Reach(a, p)'
  <2>1. blockTable'[a] # <<>>
    BY <1>0, <1>7, EmptySeq DEF PoolTypeOK
  <2>2. Kept(a, p)'
    BY <1>6, <1>9, <2>1 DEF ReachOK
  <2>3. Holds(slot, c)'
    BY <1>7, <2>2, KeptHolds
  <2> QED BY <1>4, <1>8, <2>3, HeldThere
<1>10. CASE ~Reach(a, p)' /\ status'[a] = "PREFILLING"
  <2>1. /\ ~Reach(a, (i - 1) * BlockSize + o)'
        /\ (i - 1) * BlockSize + o < PromptLen(a)'
    BY <1>2, <1>6, <1>7, <1>10
  <2> QED BY <1>7, <1>10, <2>1 DEF Unwritten
<1>11. CASE status'[a] # "PREFILLING"
  <2>1. blockTable[a] # <<>>
    BY EmptySeq
  <2>2. ScheduleChunk /\ a = Head(waiting) /\ status'[a] = "RUNNING"
    BY <1>1, <1>11, <2>1, PrefillLeaves
  <2>3. Holds(slot, c)'
    BY <1>6, <1>7, <2>2, LastChunkWrites
  <2> QED BY <1>4, <1>8, <2>3, HeldThere
<1> QED BY <1>9, <1>10, <1>11

\* A hash is new with its K and V still to come, or with them there.
LEMMA MissUnwritten ==
    ASSUME OnceInv, EngineNext, AdmitsHead, AdmitMiss, NEW b \in Blocks, b = NextFree(pool),
           NEW o \in 0 .. BlockSize - 1
    PROVE  Unwritten(b, o)'
<1>0. /\ EngineInv /\ PoolInv /\ PoolTypeOK /\ call.op = "admit" /\ call.i < call.n
      /\ BlockSize \in Nat \ {0}
  BY BlockConstants DEF OnceInv, EngineInv, PoolInv, AdmitMiss
<1>1. PICK s \in Seqs : s = call.seq
  BY <1>0, AdmitNames
<1>2. PICK i : i = call.i + 1
  OBVIOUS
<1>3. /\ call.i = Len(blockTable[s]) /\ call.i \in Nat /\ call.cached \in Nat
      /\ call.cached <= call.i * BlockSize /\ i * BlockSize <= PromptLen(s)
  BY <1>0, <1>1, <1>2, AdmitNames
<1>4. PICK p : p = (i - 1) * BlockSize + o
  OBVIOUS
<1>5. /\ i \in Nat \ {0} /\ i - 1 = call.i /\ (i - 1) * BlockSize \in Nat
      /\ i * BlockSize = (i - 1) * BlockSize + BlockSize /\ i * BlockSize \in Nat
  <2>1. (call.i + 1) * BlockSize = call.i * BlockSize + BlockSize /\ call.i * BlockSize \in Nat
    BY <1>0, <1>3, Multiples
  <2> QED BY <1>0, <1>2, <1>3, <2>1
<1>6. p \in Nat /\ p < i * BlockSize /\ call.cached <= p
  <2> DEFINE m == (i - 1) * BlockSize
             e == i * BlockSize
  <2>1. m \in Nat /\ e \in Nat /\ e = m + BlockSize /\ p = m + o /\ call.cached <= m
    BY <1>3, <1>4, <1>5
  <2> HIDE DEF m, e
  <2>2. p \in Nat /\ p < e /\ call.cached <= p
    BY <1>0, <1>3, <2>1
  <2> QED BY <2>2 DEF e
<1>7. i \in DOMAIN blockTable'[s] /\ blockTable'[s][i] = b
  <2>1. blockTable' = [blockTable EXCEPT ![s] = Append(@, b)]
    BY <1>1 DEF AdmitMiss
  <2>2. blockTable[s] \in Seq(Blocks) /\ DOMAIN blockTable = Seqs
    BY <1>0 DEF PoolTypeOK
  <2>3. blockTable'[s] = Append(blockTable[s], b)
    BY <2>1, <2>2
  <2> QED BY <1>2, <1>3, <2>2, <2>3
<1>8. status'[s] = "PREFILLING"
  <2>1. PoolCall
    BY <1>0, AdmitSteps
  <2> QED BY <1>0, <1>1, <2>1 DEF EngineInv, EngineTablesOK, PoolCall, queueVars
<1>9. PromptLen(s)' = PromptLen(s) /\ PromptLen(s) \in Nat
  BY <1>0, PrefixStays, RoomFacts
<1>10. ~Reach(s, p)
  <2>1. Done(s) = call.cached
    BY <1>0, <1>1 DEF Done, Admitting
  <2>2. Forwarded = <<>>
    BY <1>0 DEF AdmitsHead, Forwarded
  <2> QED BY <1>3, <1>6, <2>1, <2>2, EmptySeq DEF Reach
<1>11. ~Reach(s, p)'
  <2>1. ~AdmitHit
    BY DEF AdmitHit, AdmitMiss
  <2>2. ~SubmitForward
    BY <1>0 DEF AdmitsHead, SubmitForward
  <2> QED BY <1>6, <1>10, <2>1, <2>2, ReachSteps
<1>12. ~Reach(s, (i - 1) * BlockSize + o)' /\ (i - 1) * BlockSize + o < PromptLen(s)'
  <2>1. p < PromptLen(s)
    BY <1>3, <1>5, <1>6, <1>9
  <2> QED BY <1>4, <1>9, <1>11, <2>1
<1> QED BY <1>7, <1>8, <1>12 DEF Unwritten

\* A block that is registered after a step has been computed.
LEMMA RegisterHolds ==
    ASSUME OnceInv, OnceInv', EngineNext, Sound, Sound', RegisterDue, ReachOK,
           RegisterBlock, NEW b \in Blocks, b = blockTable[call.seq][call.i + 1],
           call.i + 1 \in DOMAIN blockTable[call.seq],
           pool'.hashKey[b] = PrefixOf(call.seq, call.i + 1),
           NEW o \in 0 .. BlockSize - 1
    PROVE  Holds(<<b, o>>, HashContent(b, o))'
<1>0. /\ EngineInv /\ PoolInv /\ PoolTypeOK /\ call.op = "register" /\ call.i < call.n
      /\ call.n * BlockSize <= numComputed[call.seq] /\ BlockSize \in Nat \ {0}
  BY BlockConstants DEF OnceInv, EngineInv, PoolInv, RegisterBlock, RegisterDue
<1>1. PICK s \in Seqs : s = call.seq
  BY <1>0 DEF PoolTypeOK
<1>2. PICK i : i = call.i + 1
  OBVIOUS
<1>3. PICK p : p = (i - 1) * BlockSize + o
  OBVIOUS
<1>4. /\ i \in DOMAIN blockTable[s] /\ blockTable[s][i] = b
      /\ p \in Nat /\ i \in Nat \ {0} /\ p < i * BlockSize
      /\ i * BlockSize \in Nat
      /\ SlotOf(blockTable[s], p) = <<b, o>>
  <2>1. i \in DOMAIN blockTable[s] /\ blockTable[s][i] = b
    BY <1>1, <1>2
  <2> QED BY <1>0, <1>3, <2>1, PositionOfSlot
<1>5. i * BlockSize <= numComputed[s] /\ numComputed[s] \in Nat /\ TotalLen(s) \in Nat
  <2>1. call.n \in Nat /\ call.i \in Nat
    BY <1>0 DEF PoolTypeOK
  <2>2. i <= call.n
    BY <1>0, <1>2, <2>1
  <2>3. i * BlockSize <= call.n * BlockSize /\ call.n * BlockSize \in Nat
    BY <1>0, <1>4, <2>1, <2>2, Multiples
  <2>4. numComputed[s] \in Nat /\ TotalLen(s) \in Nat
    BY <1>0, RoomFacts
  <2> QED BY <1>0, <1>1, <1>4, <2>3, <2>4
<1>6. ASSUME NEW q \in Nat, q < i * BlockSize PROVE Kept(s, q)
  <2>1. Done(s) = numComputed[s]
    BY <1>0 DEF Done, Admitting
  <2>2. q < Done(s)
    BY <1>4, <1>5, <1>6, <2>1
  <2>3. blockTable[s] # <<>>
    BY <1>4, EmptySeq
  <2> QED BY <2>2, <2>3 DEF ReachOK, Reach
<1>7. i * BlockSize <= TotalLen(s)
  <2>1. i * BlockSize # 0
    BY <1>0, <1>4
  <2>2. i * BlockSize - 1 \in Nat /\ i * BlockSize - 1 < i * BlockSize
    BY <1>4, <2>1
  <2>3. i * BlockSize - 1 < TotalLen(s)
    BY <1>6, <2>2 DEF Kept
  <2> QED BY <1>4, <1>5, <2>3
<1>8. PICK c : c = Prefix(s, p)
  OBVIOUS
<1>9. PICK slot : slot = <<b, o>>
  OBVIOUS
<1>10. Holds(slot, c) /\ slot \in Slots
  BY <1>4, <1>6, <1>8, <1>9 DEF Kept, Slots
<1>11. Holds(slot, c)'
  <2>1. ~SubmitForward
    BY <1>0, IdleFields DEF SubmitForward, EngineInv, EngineStepOK
  <2> QED BY <1>10, <2>1, HoldsStays
<1>12. c = HashContent(b, o)'
  <2> DEFINE h == PrefixOf(s, i)
  <2>1. SubSeq(h, 1, Len(h) - BlockSize + o + 1) = Prefix(s, p)
    BY <1>0, <1>3, <1>4, <1>7, PrefixInBlock
  <2>2. pool'.hashKey[b] = h
    BY <1>1, <1>2
  <2> HIDE DEF h
  <2>3. HashContent(b, o)' = SubSeq(h, 1, Len(h) - BlockSize + o + 1)
    BY <2>2 DEF HashContent
  <2> QED BY <1>8, <2>1, <2>3
<1> QED BY <1>9, <1>11, <1>12, HeldThere

\* What is in the prefix cache is there, or is being prefilled.
LEMMA HashStep ==
    ASSUME OnceInv, OnceInv', EngineNext, CleanStep, Sound, Sound', AdmitsHead,
           RegisterDue, ReachOK, ReachOK', HashOK
    PROVE  HashOK'
<1> SUFFICES ASSUME NEW b \in Blocks, NEW o \in 0 .. BlockSize - 1,
                    pool'.hashKey[b] # NoHash
             PROVE  Holds(<<b, o>>, HashContent(b, o))' \/ Unwritten(b, o)'
  BY DEF HashOK
<1>0. EngineInv
  BY DEF OnceInv
<1>1. CASE pool'.hashKey[b] = pool.hashKey[b]
  <2>1. CASE Unwritten(b, o)
    BY <1>1, <2>1, UnwrittenStays
  <2>2. CASE Holds(<<b, o>>, HashContent(b, o))
    <3>1. PICK c : c = HashContent(b, o)
      OBVIOUS
    <3>2. PICK slot : slot = <<b, o>>
      OBVIOUS
    <3>3. Holds(slot, c) /\ slot \in Slots
      BY <2>2, <3>1, <3>2 DEF Slots
    <3>4. SubmitForward => Agrees(slot, c)
      <4>1. SubmitForward => call = Idle
        BY <1>0 DEF SubmitForward, EngineInv, EngineStepOK
      <4> QED BY <1>0, <1>1, <3>1, <3>2, <4>1, HashAgrees
    <3>5. Holds(slot, c)'
      BY <3>3, <3>4, HoldsStays
    <3>6. c = HashContent(b, o)'
      BY <1>1, <3>1 DEF HashContent
    <3> QED BY <3>2, <3>5, <3>6, HeldThere
  <2> QED BY <1>1, <2>1, <2>2 DEF HashOK
<1>2. CASE AdmitMiss /\ b = NextFree(pool)
  BY <1>2, MissUnwritten
<1>3. CASE /\ RegisterBlock /\ b = blockTable[call.seq][call.i + 1]
           /\ call.i + 1 \in DOMAIN blockTable[call.seq]
           /\ pool'.hashKey[b] = PrefixOf(call.seq, call.i + 1)
  BY <1>3, RegisterHolds
<1> QED BY <1>0, <1>1, <1>2, <1>3, HashSteps

-----------------------------------------------------------------------------
(* The batch. *)

\* The batch in the executor's hands, and until its tokens are counted.
InputOK ==
    pc \in {"forward", "count"} =>
        \A k \in DOMAIN modelInput : \A i \in 1 .. Len(modelInput[k].tokens) :
            LET slot == SlotOf(modelInput[k].table, i - 1)
            IN  slot \in Slots /\ Holds(slot, SubSeq(modelInput[k].tokens, 1, i))

\* A batch comes from the plan of its step.
LEMMA InputPcs ==
    ASSUME EngineInv, EngineNext, pc' \in {"forward", "count"}
    PROVE  pc \in {"forward", "count"} \/ SubmitForward
<1>1. PoolCall => pc' = pc
  BY DEF PoolCall
<1>2. CASE Schedule
  <2>1. pc' \in SchedulePcs
    BY <1>2, InsidePc DEF InsideStep
  <2> QED BY <2>1 DEF SchedulePcs
<1>3. RequestStep => pc' = pc
  BY DEF RequestStep, AddRequest, Add, Abort, AbortWaiting, AbortRunning, Shutdown,
     schedulerVars
<1>4. ~MoveStep /\ ~LoopDies
  BY DEF MoveStep, LoopExit, WaitForWork, Woken, WaitTimeout, ShutdownTimeout, Goto,
     Starved, Resume, LoopDies
<1>5. CASE ForwardStep
  BY <1>5 DEF ForwardStep, ForwardDone, Count, CountItem, SampleAll
<1>6. ~ApplyStep
  BY DEF ApplyStep, ApplyToken, ApplyRegister, ApplyStop, ApplyKeep, ApplyEnd
<1>7. ~SendStep
  BY DEF SendStep, FreeFinished, FreeEnd, EmitItem, EmitEnd
<1> QED BY <1>1, <1>2, <1>3, <1>4, <1>5, <1>6, <1>7 DEF EngineNext, LoopStep, RequestStep,
          MoveStep, ForwardStep, ApplyStep, SendStep

\* What a batch attends to is what its sequences count on.
LEMMA InputStep ==
    ASSUME OnceInv, OnceInv', EngineNext, InputOK, Sound' => ReachOK'
    PROVE  InputOK'
<1> SUFFICES ASSUME pc' \in {"forward", "count"}, NEW k \in DOMAIN modelInput',
                    NEW i \in 1 .. Len(modelInput'[k].tokens)
             PROVE  /\ SlotOf(modelInput'[k].table, i - 1) \in Slots
                    /\ Holds(SlotOf(modelInput[k].table, i - 1),
                             SubSeq(modelInput[k].tokens, 1, i))'
  BY DEF InputOK
<1> DEFINE seg == modelInput'[k]
<1>0. EngineInv /\ PoolTypeOK /\ PoolTypeOK' /\ Sound' /\ ReachOK' /\ QueueData
  BY DEF OnceInv, EngineInv, PoolInv, Sound, Spoiled, EndPcs, PlanPcs
<1>1. CASE SubmitForward
  <2>1. /\ DOMAIN modelInput' = DOMAIN scheduled
        /\ IsInput(seg, scheduled[k].seq, scheduled[k].n)
    <3>1. DOMAIN modelInput' = DOMAIN scheduled
      BY <1>1 DEF SubmitForward, PrepareInput
    <3> QED BY <1>0, <1>1, <3>1, InputSegments
  <2>2. PICK s \in Seqs, n \in Nat \ {0} : s = scheduled[k].seq /\ n = scheduled[k].n
    BY <2>1 DEF IsInput
  <2>3. PICK p : p = i - 1
    OBVIOUS
  <2>4. /\ p \in Nat /\ p < numComputed[s] + n /\ p \in 0 .. numComputed[s] + n - 1
        /\ p < Room(s) /\ p < TotalLen(s) /\ i = p + 1
        /\ SubSeq(seg.tokens, 1, i) = Prefix(s, p) /\ seg.table = blockTable[s]
        /\ Room(s) \in Nat
    <3>1. /\ numComputed[s] \in Nat /\ Room(s) \in Nat /\ TotalLen(s) \in Nat
      BY <1>0, RoomFacts
    <3>2. /\ numComputed[s] + n <= TotalLen(s) /\ numComputed[s] + n <= Room(s)
          /\ seg.table = blockTable[s] /\ Len(seg.tokens) = numComputed[s] + n
          /\ \A q \in 0 .. numComputed[s] + n - 1 : SubSeq(seg.tokens, 1, q + 1) = Prefix(s, q)
      BY <2>1, <2>2 DEF IsInput
    <3>3. /\ p \in Nat /\ p < numComputed[s] + n /\ p \in 0 .. numComputed[s] + n - 1
          /\ i = p + 1 /\ p < Room(s) /\ p < TotalLen(s)
      <4> HIDE DEF seg
      <4>1. i \in 1 .. numComputed[s] + n
        BY <3>2 DEF seg
      <4> QED BY <2>3, <3>1, <3>2, <4>1
    <3> QED BY <3>1, <3>2, <3>3
  <2>5. /\ pc' = "forward" /\ scheduled' = scheduled /\ blockTable' = blockTable
        /\ numComputed' = numComputed
    BY <1>1 DEF SubmitForward, stepVars, poolVars, seqVars
  <2>6. Reach(s, p)'
    <3>1. /\ Forwarded' = scheduled
      BY <2>5 DEF Forwarded
    <3> QED BY <2>1, <2>2, <2>4, <2>5, <3>1 DEF Reach
  <2>7. blockTable'[s] # <<>>
    <3>1. Room(s) # 0
      BY <2>4
    <3> QED BY <1>0, <2>5, <3>1, RoomFacts
  <2>8. Kept(s, p)'
    BY <1>0, <2>4, <2>6, <2>7 DEF ReachOK
  <2>9. PICK slot : slot = SlotOf(blockTable'[s], p)
    OBVIOUS
  <2>10. PICK c : c = Prefix(s, p)'
    OBVIOUS
  <2>11. Holds(slot, c)'
    BY <2>8, <2>9, <2>10, KeptHolds
  <2>12. slot = SlotOf(seg.table, i - 1) /\ slot \in Slots
    <3>1. slot = SlotOf(blockTable[s], p)
      BY <2>5, <2>9
    <3> QED BY <1>0, <2>3, <2>4, <3>1, SlotsOfTables
  <2>13. c = SubSeq(seg.tokens, 1, i)
    BY <1>0, <2>4, <2>10, PrefixStays
  <2> QED BY <2>5, <2>11, <2>12, <2>13 DEF Holds
<1>2. CASE pc \in {"forward", "count"} /\ modelInput' = modelInput
  <2>1. PICK slot : slot = SlotOf(modelInput[k].table, i - 1)
    OBVIOUS
  <2>2. PICK c : c = SubSeq(modelInput[k].tokens, 1, i)
    OBVIOUS
  <2>3. slot \in Slots /\ Holds(slot, c)
    BY <1>2, <2>1, <2>2 DEF InputOK
  <2>4. Sound /\ ~SubmitForward
    BY <1>2 DEF Sound, Spoiled, EndPcs, PlanPcs, SubmitForward
  <2>5. Holds(slot, c)'
    BY <1>0, <2>3, <2>4, HoldsStays
  <2>6. slot = SlotOf(seg.table, i - 1) /\ c = SubSeq(seg.tokens, 1, i)
    BY <1>2, <2>1, <2>2
  <2>7. pc' \notin PlanPcs
    BY DEF PlanPcs
  <2> QED BY <2>3, <2>5, <2>6, <2>7 DEF Holds
<1>3. CASE modelInput' = <<>>
  BY <1>3, EmptySeq
<1> QED BY <1>0, <1>1, <1>2, <1>3, InputPcs, InputStays

-----------------------------------------------------------------------------
(***************************************************************************)
(* The invariant of the cache's content.  While a step is being planned    *)
(* its items' K and V count as there already (WillWrite); a step that lost *)
(* an item to a preemption is not carried out, and promises nothing.       *)
(***************************************************************************)
ContentInv ==
    /\ WriterInv
    /\ AdmitsHead
    /\ RegisterDue
    /\ HashedOK
    /\ AheadOK
    /\ Sound => ReachOK /\ HashOK
    /\ InputOK

\* The first state has nothing in the cache and no one who counts on it.
LEMMA ContentInitInv == EngineInit => ContentInv
<1> SUFFICES ASSUME EngineInit PROVE ContentInv
  OBVIOUS
<1>1. /\ pc = "idle" /\ call = Idle /\ call.op = "none"
      /\ blockTable = [s \in Seqs |-> <<>>]
      /\ status = [s \in Seqs |-> "NONE"]
  BY IdleFields DEF EngineInit, SchedulerInit, QueuesInit, SequenceInit
<1>2. \A b \in Blocks : pool.hashKey[b] = NoHash
  BY DEF EngineInit, SchedulerInit, EmptyPool, Pool
<1>3. AdmitsHead /\ RegisterDue /\ InputOK
  BY <1>1 DEF AdmitsHead, RegisterDue, InputOK
<1>4. HashedOK /\ AheadOK
  BY <1>1 DEF HashedOK, AheadOK
<1>5. ReachOK
  BY <1>1 DEF ReachOK
<1>6. HashOK
  BY <1>2 DEF HashOK
<1> QED BY <1>3, <1>4, <1>5, <1>6, WriterInitInv DEF ContentInv

\* A stutter keeps the invariant.
LEMMA ContentStutter ==
    ASSUME ContentInv, UNCHANGED engineVars
    PROVE  ContentInv'
<1>0. /\ UNCHANGED <<seqVars, call, pool, queueVars, pc, stepVars, kv, modelInput>>
  BY DEF engineVars, schedulerVars, poolVars, kvVars
<1>1. WriterInv'
  BY WriterStutter DEF ContentInv
<1>2. AdmitsHead' /\ RegisterDue'
  BY <1>0 DEF ContentInv, AdmitsHead, RegisterDue, seqVars, queueVars
<1>3. HashedOK'
  BY <1>0 DEF ContentInv, HashedOK, seqVars, queueVars, CapFull, NumFull, PromptLen
<1>4. AheadOK'
  BY <1>0 DEF ContentInv, AheadOK, Ahead, Before, Done, Admitting, PromptPrefix, seqVars,
     queueVars, CapFull, NumFull, PromptLen
<1>5. ASSUME NEW slot, NEW c PROVE Holds(slot, c)' <=> Holds(slot, c)
  <2>1. WriteAll(modelInput)' = WriteAll(modelInput)
    BY <1>0 DEF WriteAll, WritesTo, Written
  <2>2. WillWrite(slot, c)' <=> WillWrite(slot, c)
    BY <1>0 DEF WillWrite, Room, Prefix, AllTokenIds, seqVars, stepVars
  <2> QED BY <1>0, <2>1, <2>2 DEF Holds
<1>6. ASSUME NEW s, NEW p PROVE Reach(s, p)' <=> Reach(s, p)
  BY <1>0 DEF Reach, Done, Admitting, Forwarded, seqVars, stepVars
<1>7. Sound' <=> Sound
  BY <1>0 DEF Sound, Spoiled, Touched, queueVars, stepVars
<1>8. ReachOK => ReachOK'
  <2> SUFFICES ASSUME ReachOK, NEW s \in Seqs, NEW p \in Nat, blockTable'[s] # <<>>,
                      Reach(s, p)'
               PROVE  Kept(s, p)'
    BY DEF ReachOK
  <2>1. Kept(s, p)
    BY <1>0, <1>6 DEF ReachOK, seqVars
  <2>2. PICK slot : slot = SlotOf(blockTable[s], p)
    OBVIOUS
  <2>3. PICK c : c = Prefix(s, p)
    OBVIOUS
  <2>4. Holds(slot, c)'
    BY <1>5, <2>1, <2>2, <2>3 DEF Kept
  <2>5. /\ slot = SlotOf(blockTable'[s], p) /\ c = Prefix(s, p)'
        /\ TotalLen(s)' = TotalLen(s) /\ Room(s)' = Room(s)
    BY <1>0, <2>2, <2>3 DEF seqVars, Prefix, AllTokenIds, TotalLen, PromptLen, Room
  <2>6. p < TotalLen(s)' /\ p < Room(s)'
    BY <2>1, <2>5 DEF Kept
  <2> QED BY <2>4, <2>5, <2>6, KeptThere
<1>9. HashOK => HashOK'
  <2> SUFFICES ASSUME HashOK, NEW b \in Blocks, NEW o \in 0 .. BlockSize - 1,
                      pool'.hashKey[b] # NoHash
               PROVE  Holds(<<b, o>>, HashContent(b, o))' \/ Unwritten(b, o)'
    BY DEF HashOK
  <2>1. CASE Unwritten(b, o)
    <3>1. PICK a \in Seqs : \E i \in DOMAIN blockTable[a] :
             /\ status[a] = "PREFILLING"
             /\ blockTable[a][i] = b
             /\ ~Reach(a, (i - 1) * BlockSize + o)
             /\ (i - 1) * BlockSize + o < PromptLen(a)
      BY <2>1 DEF Unwritten
    <3>2. PICK i \in DOMAIN blockTable[a] :
             /\ status[a] = "PREFILLING"
             /\ blockTable[a][i] = b
             /\ ~Reach(a, (i - 1) * BlockSize + o)
             /\ (i - 1) * BlockSize + o < PromptLen(a)
      BY <3>1
    <3>3. /\ i \in DOMAIN blockTable'[a] /\ status'[a] = "PREFILLING"
          /\ blockTable'[a][i] = b /\ PromptLen(a)' = PromptLen(a)
      BY <1>0, <3>2 DEF seqVars, queueVars, PromptLen
    <3>4. /\ ~Reach(a, (i - 1) * BlockSize + o)'
          /\ (i - 1) * BlockSize + o < PromptLen(a)'
      BY <1>6, <3>2, <3>3
    <3> QED BY <3>3, <3>4 DEF Unwritten
  <2>2. CASE Holds(<<b, o>>, HashContent(b, o))
    <3>1. PICK slot : slot = <<b, o>>
      OBVIOUS
    <3>2. PICK c : c = HashContent(b, o)
      OBVIOUS
    <3>3. Holds(slot, c)'
      BY <1>5, <2>2, <3>1, <3>2
    <3>4. c = HashContent(b, o)'
      BY <1>0, <3>2 DEF HashContent
    <3> QED BY <3>1, <3>3, <3>4, HeldThere
  <2> QED BY <1>0, <2>1, <2>2 DEF HashOK
<1>10. InputOK'
  <2> SUFFICES ASSUME pc' \in {"forward", "count"}, NEW k \in DOMAIN modelInput',
                      NEW i \in 1 .. Len(modelInput'[k].tokens)
               PROVE  /\ SlotOf(modelInput'[k].table, i - 1) \in Slots
                      /\ Holds(SlotOf(modelInput[k].table, i - 1),
                               SubSeq(modelInput[k].tokens, 1, i))'
    BY DEF InputOK
  <2>1. PICK slot : slot = SlotOf(modelInput[k].table, i - 1)
    OBVIOUS
  <2>2. PICK c : c = SubSeq(modelInput[k].tokens, 1, i)
    OBVIOUS
  <2>3. slot \in Slots /\ Holds(slot, c)
    BY <1>0, <2>1, <2>2 DEF ContentInv, InputOK
  <2>4. Holds(slot, c)'
    BY <1>5, <2>3
  <2>5. slot = SlotOf(modelInput'[k].table, i - 1) /\ c = SubSeq(modelInput'[k].tokens, 1, i)
    BY <1>0, <2>1, <2>2
  <2>6. pc' \notin PlanPcs
    BY DEF PlanPcs
  <2> QED BY <2>3, <2>4, <2>5, <2>6 DEF Holds
<1> QED BY <1>1, <1>2, <1>3, <1>4, <1>7, <1>8, <1>9, <1>10 DEF ContentInv

\* So does every step of the clean engine.
LEMMA ContentStepInv == ContentInv /\ [EngineNext /\ CleanStep]_engineVars => ContentInv'
<1> SUFFICES ASSUME ContentInv, [EngineNext /\ CleanStep]_engineVars PROVE ContentInv'
  OBVIOUS
<1>1. CASE UNCHANGED engineVars
  BY <1>1, ContentStutter
<1>2. CASE EngineNext /\ CleanStep
  <2>0. /\ OnceInv /\ EngineInv /\ StartOK /\ AdmitsHead /\ RegisterDue /\ HashedOK
        /\ AheadOK /\ InputOK /\ (Sound => ReachOK /\ HashOK)
    BY DEF ContentInv, WriterInv, OnceInv
  <2>1. WriterInv'
    BY <1>2, WriterStepInv DEF ContentInv
  <2>2. OnceInv' /\ PoolInv' /\ PoolTypeOK'
    BY <2>1 DEF WriterInv, OnceInv, EngineInv, PoolInv
  <2>3. AdmitsHead' /\ RegisterDue'
    BY <1>2, <2>0, CallStays
  <2>4. HashedOK'
    BY <1>2, <2>0, HashedStep
  <2>5. AheadOK'
    BY <1>2, <2>0, <2>2, AheadStep
  <2>6. ASSUME Sound' PROVE ReachOK' /\ HashOK'
    <3>1. Sound
      BY <1>2, <2>0, <2>2, <2>6, SoundBefore
    <3>2. ReachOK'
      BY <1>2, <2>0, <2>2, <2>6, <3>1, ReachStep
    <3> QED BY <1>2, <2>0, <2>2, <2>6, <3>1, <3>2, HashStep
  <2>7. InputOK'
    BY <1>2, <2>0, <2>2, <2>6, InputStep
  <2> QED BY <2>1, <2>3, <2>4, <2>5, <2>6, <2>7 DEF ContentInv
<1> QED BY <1>1, <1>2

\* All that follows about the content of the cache.
THEOREM ContentInvariant == CleanSpec => []ContentInv
<1> QED BY ContentInitInv, ContentStepInv, PTL DEF CleanSpec

\* In the engine without the three ways in which K and V get lost, attention
\* reads the K and V of the sequence's own tokens at every position of every
\* scheduled sequence: sharing, eviction and reuse of blocks never put another
\* prefix's there.
THEOREM ContextsAreOwn == CleanSpec => []ContextIsOwn
<1>1. ContentInv => ContextIsOwn
  <2> SUFFICES ASSUME ContentInv, pc = "count", NEW k \in DOMAIN modelInput,
                      NEW i \in 1 .. Len(modelInput[k].tokens)
               PROVE  kv[SlotOf(modelInput[k].table, i - 1)]
                         = SubSeq(modelInput[k].tokens, 1, i)
    BY DEF ContextIsOwn
  <2>1. Holds(SlotOf(modelInput[k].table, i - 1), SubSeq(modelInput[k].tokens, 1, i))
    BY DEF ContentInv, InputOK
  <2> QED BY <2>1 DEF Holds, PlanPcs
<1> QED BY <1>1, ContentInvariant, PTL

\* Between two steps nothing is planned and nothing left to count.
LEMMA BetweenIsSound ==
    ASSUME OnceInv, BetweenSteps
    PROVE  /\ Sound /\ Forwarded = <<>>
           /\ \A s \in Seqs : Done(s) = numComputed[s]
           /\ \A slot, c : Holds(slot, c) <=> kv[slot] = c
<1>1. Sound /\ Forwarded = <<>>
  BY DEF BetweenSteps, Sound, Spoiled, PlanPcs, EndPcs, Forwarded
<1>2. call.op # "admit"
  BY IdleFields DEF BetweenSteps, OnceInv, EngineInv, EngineStepOK, RequestPcs
<1> QED BY <1>1, <1>2 DEF Done, Admitting, Holds, BetweenSteps, PlanPcs

\* Between two steps, the tokens a sequence counts as computed have their K
\* and V in the blocks of its table, whether it computed them itself or found
\* them in the prefix cache.
THEOREM ComputedTokensAreInCache == CleanSpec => []ComputedIsInCache
<1>1. ContentInv => ComputedIsInCache
  <2> SUFFICES ASSUME ContentInv, BetweenSteps, NEW s \in Seqs, blockTable[s] # <<>>,
                      NEW i \in 1 .. numComputed[s]
               PROVE  kv[SlotOf(blockTable[s], i - 1)] = SubSeq(AllTokenIds(s), 1, i)
    BY DEF ComputedIsInCache
  <2>0. OnceInv /\ numComputed[s] \in Nat
    BY DEF ContentInv, WriterInv, OnceInv, EngineInv, PoolInv, PoolTypeOK
  <2>1. PICK p : p = i - 1
    OBVIOUS
  <2>2. p \in Nat /\ p < numComputed[s] /\ p + 1 = i
    BY <2>0, <2>1
  <2>3. Reach(s, p) /\ ReachOK
    BY <2>0, <2>2, BetweenIsSound DEF Reach, ContentInv
  <2>4. Holds(SlotOf(blockTable[s], p), Prefix(s, p))
    BY <2>2, <2>3 DEF ReachOK, Kept
  <2>5. kv[SlotOf(blockTable[s], p)] = Prefix(s, p)
    BY <2>0, <2>4, BetweenIsSound
  <2> QED BY <2>1, <2>2, <2>5 DEF Prefix
<1> QED BY <1>1, ContentInvariant, PTL

\* Between two steps, a block that is in the prefix cache ahead of its K and V
\* is one that a sequence in prefill holds and has not come to.
THEOREM UnwrittenBlocksArePrefilled == CleanSpec => []UnwrittenIsBeingPrefilled
<1>1. ContentInv => UnwrittenIsBeingPrefilled
  <2> SUFFICES ASSUME ContentInv, BetweenSteps, NEW b \in Blocks, ~HashIsTrue(b)
               PROVE  \E s \in Seqs :
                         /\ status[s] = "PREFILLING"
                         /\ \E i \in DOMAIN blockTable[s] :
                               blockTable[s][i] = b /\ i * BlockSize > numComputed[s]
    BY DEF UnwrittenIsBeingPrefilled
  <2>0. OnceInv /\ PoolTypeOK /\ HashOK
    BY BetweenIsSound DEF ContentInv, WriterInv, OnceInv, EngineInv, PoolInv
  <2>1. PICK j \in 1 .. BlockSize :
           /\ pool.hashKey[b] # NoHash
           /\ kv[<<b, j - 1>>] #
                SubSeq(pool.hashKey[b], 1, Len(pool.hashKey[b]) - BlockSize + j)
    BY DEF HashIsTrue
  <2>2. PICK o \in 0 .. BlockSize - 1 : o = j - 1
    BY BlockConstants
  <2>3. Len(pool.hashKey[b]) - BlockSize + o + 1 = Len(pool.hashKey[b]) - BlockSize + j
    <3>1. Len(pool.hashKey[b]) \in Nat /\ BlockSize \in Nat
      BY <2>0, BlockConstants DEF PoolTypeOK, PoolTyped, Hashes
    <3> QED BY <2>2, <3>1
  <2>4. ~Holds(<<b, o>>, HashContent(b, o))
    <3>1. kv[<<b, o>>] # HashContent(b, o)
      BY <2>1, <2>2, <2>3 DEF HashContent
    <3> QED BY <2>0, <3>1, BetweenIsSound
  <2>5. Unwritten(b, o)
    BY <2>0, <2>1, <2>4 DEF HashOK
  <2>6. PICK a \in Seqs : \E i \in DOMAIN blockTable[a] :
           /\ status[a] = "PREFILLING"
           /\ blockTable[a][i] = b
           /\ ~Reach(a, (i - 1) * BlockSize + o)
    BY <2>5 DEF Unwritten
  <2>7. PICK i \in DOMAIN blockTable[a] :
           /\ status[a] = "PREFILLING"
           /\ blockTable[a][i] = b
           /\ ~Reach(a, (i - 1) * BlockSize + o)
    BY <2>6
  <2>8. PICK p : p = (i - 1) * BlockSize + o
    OBVIOUS
  <2>9. p \in Nat /\ p < i * BlockSize /\ i * BlockSize \in Nat
    BY <2>0, <2>8, PositionOfSlot
  <2>10. numComputed[a] \in Nat /\ ~(p < numComputed[a])
    BY <2>0, <2>7, <2>8, BetweenIsSound DEF Reach, PoolTypeOK
  <2>11. i * BlockSize > numComputed[a]
    BY <2>9, <2>10
  <2> QED BY <2>7, <2>11
<1> QED BY <1>1, ContentInvariant, PTL
=============================================================================
