---------------------------- MODULE ServerProofs ----------------------------
(***************************************************************************)
(* Safety of a request's life as LLMEngine promises it, for any number of  *)
(* requests, any tokens and any limits, and of the HTTP server on top of   *)
(* it, for any number of watchers and any length of the event buffers.     *)
(*                                                                         *)
(* The server's invariant has a part for each side: the engine's is        *)
(* LifeInv, since a step of the server is a step of Lifecycle or none.     *)
(***************************************************************************)
EXTENDS Server, QueueProofs

\* The inductive invariant: a request that has not ended has room for a token.
LifeInv ==
    /\ LifeTypeOK
    /\ StreamsEndOnce
    /\ \A r \in known : Len(stream[r]) < limit[r]

-----------------------------------------------------------------------------
\* An item put on the stream of a known request keeps what StreamsEndOnce
\* says of it, if it is the end exactly when the request is forgotten.
LEMMA OneMoreItem ==
    ASSUME LifeInv, NEW r \in Requests, r \in known,
           NEW item \in Items, NEW stays \in BOOLEAN,
           item.finished <=> ~stays
    PROVE  LET longer == Append(stream[r], item)
           IN  /\ longer \in Seq(Items)
               /\ Len(longer) = Len(stream[r]) + 1
               /\ Len(longer) <= limit[r]
               /\ {i \in DOMAIN longer : longer[i].tokens # <<>>} \subseteq 1 .. limit[r]
               /\ \A i \in DOMAIN longer :
                     longer[i].finished <=> (i = Len(longer) /\ ~stays)
<1> DEFINE longer == Append(stream[r], item)
<1>1. stream[r] \in Seq(Items) /\ limit[r] \in Nat /\ Len(stream[r]) < limit[r]
  BY LimitsAssumption DEF LifeInv, LifeTypeOK
<1>2. \A i \in DOMAIN stream[r] : ~stream[r][i].finished
  BY DEF LifeInv, StreamsEndOnce
<1>3. /\ longer \in Seq(Items)
      /\ Len(longer) = Len(stream[r]) + 1
      /\ DOMAIN longer = 1 .. Len(stream[r]) + 1
      /\ \A i \in DOMAIN stream[r] : longer[i] = stream[r][i]
      /\ longer[Len(stream[r]) + 1] = item
      /\ DOMAIN stream[r] = 1 .. Len(stream[r])
  BY <1>1
<1> HIDE DEF longer
<1>4. {i \in DOMAIN longer : longer[i].tokens # <<>>} \subseteq 1 .. limit[r]
  BY <1>1, <1>3
<1>5. ASSUME NEW i \in DOMAIN longer
      PROVE  longer[i].finished <=> (i = Len(longer) /\ ~stays)
  BY <1>1, <1>2, <1>3
<1>6. Len(longer) <= limit[r]
  BY <1>1, <1>3
<1> QED BY <1>3, <1>4, <1>5, <1>6 DEF longer

LEMMA NextItemTyped ==
    ASSUME LifeInv, NEW r \in Requests, NEW t \in Tokens
    PROVE  /\ NextItem(r, t) \in Items
           /\ ~NextItem(r, t).finished => Len(stream[r]) + 1 < limit[r]
<1>1. stream[r] \in Seq(Items) /\ limit[r] \in Nat
  BY LimitsAssumption DEF LifeInv, LifeTypeOK
<1>2. <<t>> \in Seq(Tokens)
  OBVIOUS
<1> DEFINE full == Len(stream[r]) + 1 >= limit[r]
           last == full \/ t \in stops[r]
           reason == IF full THEN "length" ELSE IF t \in stops[r] THEN "stop" ELSE "none"
<1>3. NextItem(r, t) = [tokens |-> <<t>>, finished |-> last, reason |-> reason]
  BY DEF NextItem, StreamItem
<1>4. last \in BOOLEAN /\ reason \in {"none", "length", "stop", "abort"}
  OBVIOUS
<1>5. ~last => Len(stream[r]) + 1 < limit[r]
  <2>1. Len(stream[r]) \in Nat
    BY <1>1
  <2>2. ~full => Len(stream[r]) + 1 < limit[r]
    BY <1>1, <2>1
  <2> QED BY <2>2
<1> HIDE DEF last, reason
<1>6. NextItem(r, t) \in Items
  BY <1>2, <1>3, <1>4 DEF Items
<1>7. NextItem(r, t).finished = last
  BY <1>3
<1> QED BY <1>5, <1>6, <1>7

LEMMA SubmitKeeps ==
    ASSUME LifeInv, NEW r \in Requests, Submit(r)
    PROVE  LifeInv'
<1>1. limit[r] \in Nat \ {0} /\ stream[r] = <<>> /\ r \notin known
  BY LimitsAssumption DEF LifeInv, LifeTypeOK, Submit, Made
<1>2. LifeTypeOK'
  BY DEF LifeInv, LifeTypeOK, Submit
<1>3. StreamsEndOnce'
  BY <1>1 DEF LifeInv, StreamsEndOnce, TokensSent, Submit
<1>4. \A s \in known' : Len(stream'[s]) < limit'[s]
  BY <1>1 DEF LifeInv, Submit
<1> QED BY <1>2, <1>3, <1>4 DEF LifeInv

LEMMA AbortKeeps ==
    ASSUME LifeInv, NEW r \in Requests, AbortRequest(r)
    PROVE  LifeInv'
<1>1. CASE r \notin known
  <2>1. UNCHANGED lifeVars
    BY <1>1 DEF AbortRequest, lifeVars
  <2> QED BY <2>1 DEF lifeVars, LifeInv, LifeTypeOK, StreamsEndOnce, TokensSent
<1>2. CASE r \in known
  <2>1. AbortItem \in Items /\ AbortItem.finished
    BY DEF AbortItem, StreamItem, Items
  <2>2. /\ stream' = [stream EXCEPT ![r] = Append(stream[r], AbortItem)]
        /\ known' = known \ {r}
        /\ UNCHANGED <<limit, stops, alive>>
    BY <1>2 DEF AbortRequest
  <2>3. /\ Append(stream[r], AbortItem) \in Seq(Items)
        /\ {i \in DOMAIN Append(stream[r], AbortItem) :
               Append(stream[r], AbortItem)[i].tokens # <<>>} \subseteq 1 .. limit[r]
        /\ \A i \in DOMAIN Append(stream[r], AbortItem) :
              Append(stream[r], AbortItem)[i].finished
                 <=> (i = Len(Append(stream[r], AbortItem)) /\ ~FALSE)
    BY <1>2, <2>1, OneMoreItem
  <2>4. LifeTypeOK'
    BY <2>2, <2>3 DEF LifeInv, LifeTypeOK
  <2>5. stream \in [Requests -> Seq(Items)]
    BY DEF LifeInv, LifeTypeOK
  <2>6. StreamsEndOnce'
    BY <2>2, <2>3, <2>5 DEF LifeInv, StreamsEndOnce, TokensSent
  <2>7. \A s \in known' : Len(stream'[s]) < limit'[s]
    BY <2>2, <2>5 DEF LifeInv, LifeTypeOK
  <2> QED BY <2>4, <2>6, <2>7 DEF LifeInv
<1> QED BY <1>1, <1>2

LEMMA ServeKeeps ==
    ASSUME LifeInv, NEW served \in SUBSET known, NEW token \in [served -> Tokens],
           Serve(served, token)
    PROVE  LifeInv'
<1>1. /\ stream' = [r \in Requests |->
                       IF r \in served THEN Append(stream[r], NextItem(r, token[r]))
                                       ELSE stream[r]]
      /\ known' = {r \in known : r \in served => ~NextItem(r, token[r]).finished}
      /\ UNCHANGED <<limit, stops, alive>>
      /\ known \subseteq Requests
  BY DEF Serve, LifeInv, LifeTypeOK
<1>2. ASSUME NEW r \in served
      PROVE  /\ stream'[r] \in Seq(Items)
             /\ Len(stream'[r]) = Len(stream[r]) + 1
             /\ {i \in DOMAIN stream'[r] : stream'[r][i].tokens # <<>>} \subseteq 1 .. limit[r]
             /\ \A i \in DOMAIN stream'[r] :
                   stream'[r][i].finished <=> (i = Len(stream'[r]) /\ r \notin known')
             /\ r \in known' => Len(stream'[r]) < limit[r]
  <2> DEFINE item == NextItem(r, token[r])
             stays == r \in known'
  <2>1. r \in Requests /\ r \in known /\ token[r] \in Tokens
    BY <1>1
  <2>2. item \in Items /\ (~item.finished => Len(stream[r]) + 1 < limit[r])
    BY <2>1, NextItemTyped
  <2>3. stays \in BOOLEAN /\ (item.finished <=> ~stays)
    BY <1>1, <2>1, <2>2 DEF Items
  <2>4. stream'[r] = Append(stream[r], item)
    BY <1>1, <2>1
  <2> HIDE DEF item, stays
  <2>5. /\ stream'[r] \in Seq(Items)
        /\ Len(stream'[r]) = Len(stream[r]) + 1
        /\ {i \in DOMAIN stream'[r] : stream'[r][i].tokens # <<>>} \subseteq 1 .. limit[r]
        /\ \A i \in DOMAIN stream'[r] :
              stream'[r][i].finished <=> (i = Len(stream'[r]) /\ ~stays)
    BY <2>1, <2>2, <2>3, <2>4, OneMoreItem
  <2> QED BY <2>2, <2>3, <2>5 DEF stays
<1>3. ASSUME NEW r \in Requests, r \notin served
      PROVE  stream'[r] = stream[r] /\ (r \in known' <=> r \in known)
  BY <1>1, <1>3
<1>4. LifeTypeOK'
  BY <1>1, <1>2, <1>3 DEF LifeInv, LifeTypeOK
<1>5. StreamsEndOnce'
  BY <1>1, <1>2, <1>3 DEF LifeInv, StreamsEndOnce, TokensSent
<1>6. \A r \in known' : Len(stream'[r]) < limit'[r]
  BY <1>1, <1>2, <1>3 DEF LifeInv
<1> QED BY <1>4, <1>5, <1>6 DEF LifeInv

LEMMA LoopEndsKeeps ==
    ASSUME LifeInv, LoopEnds
    PROVE  LifeInv'
BY DEF LoopEnds, LifeInv, LifeTypeOK, StreamsEndOnce, TokensSent

LEMMA LifeStutter ==
    ASSUME LifeInv, UNCHANGED lifeVars
    PROVE  LifeInv'
BY DEF lifeVars, LifeInv, LifeTypeOK, StreamsEndOnce, TokensSent

LEMMA LifeStart ==
    ASSUME LifeInit
    PROVE  LifeInv
<1>1. LifeTypeOK
  BY DEF LifeInit, LifeTypeOK
<1>2. \A r \in Requests : stream[r] = <<>>
  BY DEF LifeInit
<1>3. DOMAIN <<>> = {}
  OBVIOUS
<1>4. StreamsEndOnce
  BY <1>2, <1>3 DEF StreamsEndOnce, TokensSent
<1> QED BY <1>1, <1>4 DEF LifeInit, LifeInv

LEMMA LifeStep ==
    ASSUME LifeInv, [LifeNext]_lifeVars
    PROVE  LifeInv'
BY SubmitKeeps, AbortKeeps, ServeKeeps, LoopEndsKeeps, LifeStutter DEF LifeNext

-----------------------------------------------------------------------------
(* Theorems. *)

\* The invariant holds of every life of every set of requests.
THEOREM LifeInvariant == LifeSpec => []LifeInv
<1>1. LifeInit => LifeInv
  BY LifeStart
<1>2. LifeInv /\ [LifeNext]_lifeVars => LifeInv'
  BY LifeStep
<1> QED BY <1>1, <1>2, PTL DEF LifeSpec

\* A stream ends with one item, exactly when the request is forgotten, and
\* within its limit (engine.py:352-387, 430-442).
THEOREM LifeStreamsEndOnce == LifeSpec => []StreamsEndOnce
<1>1. LifeInv => StreamsEndOnce
  BY DEF LifeInv
<1> QED BY <1>1, LifeInvariant, PTL

HasEnded(r) == stream[r] # <<>> /\ r \notin known

\* A stream only grows, and one that has ended does not even that: no token,
\* and no second end, follows the item at which LLMEngine.stream returns.
StreamsAreFinal ==
    \A r \in Requests :
        /\ HasEnded(r) => stream'[r] = stream[r] /\ HasEnded(r)'
        /\ \A i \in DOMAIN stream[r] : i \in DOMAIN stream'[r] /\ stream'[r][i] = stream[r][i]

\* Every step keeps what is on the streams.
LEMMA StepKeepsItems ==
    ASSUME LifeInv, [LifeNext]_lifeVars
    PROVE  StreamsAreFinal
<1>1. stream \in [Requests -> Seq(Items)] /\ known \subseteq Requests
  BY DEF LifeInv, LifeTypeOK
<1>2. ASSUME NEW r \in Requests, Submit(r) PROVE StreamsAreFinal
  BY <1>1, <1>2 DEF Submit, Made, StreamsAreFinal, HasEnded
<1>3. ASSUME NEW r \in Requests, AbortRequest(r) PROVE StreamsAreFinal
  BY <1>1, <1>3 DEF AbortRequest, StreamsAreFinal, HasEnded
<1>4. ASSUME NEW served \in SUBSET known, NEW token \in [served -> Tokens],
             Serve(served, token)
      PROVE  StreamsAreFinal
  BY <1>1, <1>4 DEF Serve, StreamsAreFinal, HasEnded
<1>5. ASSUME LoopEnds PROVE StreamsAreFinal
  BY <1>1, <1>5 DEF LoopEnds, StreamsAreFinal, HasEnded
<1>6. ASSUME UNCHANGED lifeVars PROVE StreamsAreFinal
  BY <1>6 DEF lifeVars, StreamsAreFinal, HasEnded
<1> QED BY <1>2, <1>3, <1>4, <1>5, <1>6 DEF LifeNext

\* No step takes an item off a stream, or adds one to a stream that has ended
\* (engine.py:352-387, 430-442).
THEOREM EndedStreamsStay == LifeSpec => [][StreamsAreFinal]_lifeVars
<1>1. LifeInv /\ [LifeNext]_lifeVars => [StreamsAreFinal]_lifeVars
  BY StepKeepsItems
<1> QED BY <1>1, LifeInvariant, PTL DEF LifeSpec

-----------------------------------------------------------------------------
HandlerStates == {"none", "start", "read", "check", "send", "collect", "done",
                  "left", "dropped"}

WatcherStates == {"none", "start", "snapshot", "wait", "send", "left", "dropped"}

\* A handler that has an item in hand took it from the queue.
HandlerInv ==
    /\ handler \in [Requests -> HandlerStates]
    /\ taken \in [Requests -> Nat]
    /\ \A r \in Requests :
          /\ taken[r] <= Len(stream[r])
          /\ handler[r] \in {"check", "send"} => taken[r] > 0
    /\ EndedMeansUnknown

EventTypes ==
    /\ emitted \in 0 .. MaxEvents
    /\ subscribers \subseteq Watchers
    /\ buffer \in [Watchers -> Seq(1 .. MaxEvents)]
    /\ watcher \in [Watchers -> WatcherStates]
    /\ since \in [Watchers -> 0 .. MaxEvents]
    /\ seen \in [Watchers -> Seq(1 .. MaxEvents)]

\* What was sent comes before what is buffered, and each event in a buffer
\* leaves room for those behind it up to the last one emitted.
InOrder(w) ==
    /\ \A i, j \in DOMAIN seen[w] : i < j => seen[w][i] < seen[w][j]
    /\ \A i, j \in DOMAIN buffer[w] : i < j => buffer[w][i] < buffer[w][j]
    /\ \A i \in DOMAIN seen[w] : seen[w][i] <= emitted
    /\ \A i \in DOMAIN seen[w] : \A j \in DOMAIN buffer[w] : seen[w][i] < buffer[w][j]
    /\ \A j \in DOMAIN buffer[w] : buffer[w][j] + Len(buffer[w]) <= emitted + j

\* An event since the subscription is there, or older than the buffer is long.
Arrives(w) ==
    \A e \in since[w] + 1 .. emitted :
        \/ \E i \in DOMAIN seen[w] : seen[w][i] = e
        \/ \E j \in DOMAIN buffer[w] : buffer[w][j] = e
        \/ e <= emitted - EventBuffer

WatcherInv ==
    /\ EventTypes
    /\ \A w \in Watchers :
          /\ Len(buffer[w]) <= EventBuffer
          /\ watcher[w] = "none" =>
                w \notin subscribers /\ seen[w] = <<>> /\ buffer[w] = <<>>
          /\ InOrder(w)
          /\ w \in subscribers => Arrives(w)

ServerInv ==
    /\ LifeInv
    /\ HandlerInv
    /\ WatcherInv
    /\ gone \subseteq Requests \cup Watchers

-----------------------------------------------------------------------------
(* The engine's side. *)

\* What the server does to the engine Lifecycle allows.
LEMMA StepOfLife ==
    ASSUME [ServerNext]_serverVars
    PROVE  [LifeNext]_lifeVars
<1>1. EngineStep => LifeNext
  BY DEF EngineStep, LifeNext
<1>2. EngineEnds => LifeNext
  BY DEF EngineEnds, LifeNext
<1>3. ASSUME NEW r \in Requests PROVE Generate(r) => LifeNext
  BY DEF Generate, LifeNext
<1>4. ASSUME NEW r \in Requests PROVE HandlerStep(r) => [LifeNext]_lifeVars
  BY DEF HandlerStep, Start, Read, Collect, LeaveAndAbort, Yield, Sent, LifeNext
<1>5. ASSUME NEW r \in Requests
      PROVE  Cancelled(r) \/ Dropped(r) \/ AbortCall(r) => [LifeNext]_lifeVars
  BY DEF Cancelled, Dropped, AbortCall, LifeNext
<1>6. ASSUME NEW w \in Watchers
      PROVE  Subscribe(w) \/ WatcherStep(w) \/ Closed(w) \/ ClosedEarly(w)
                => UNCHANGED lifeVars
  BY DEF Subscribe, WatcherStep, YieldSnapshot, WaitForEvent, YieldEvent, KeepAlive,
         Leave, Closed, Unsubscribe, ClosedEarly
<1>7. ASSUME NEW c \in Requests \cup Watchers PROVE Disconnect(c) => UNCHANGED lifeVars
  BY DEF Disconnect
<1>8. UNCHANGED serverVars => UNCHANGED lifeVars
  BY DEF serverVars
<1> QED BY <1>1, <1>2, <1>3, <1>4, <1>5, <1>6, <1>7, <1>8 DEF ServerNext

\* Only the handler that submits a request makes it known.
LEMMA KnownShrinks ==
    ASSUME [LifeNext]_lifeVars, \A r \in Requests : ~Submit(r)
    PROVE  known' \subseteq known
BY DEF LifeNext, AbortRequest, Serve, LoopEnds, lifeVars

\* A stream is never shorter than it was.
LEMMA StreamsGrow ==
    ASSUME LifeInv, [LifeNext]_lifeVars, NEW r \in Requests
    PROVE  Len(stream[r]) <= Len(stream'[r])
<1>1. LifeInv' /\ StreamsAreFinal
  BY LifeStep, StepKeepsItems
<1>2. stream[r] \in Seq(Items) /\ stream'[r] \in Seq(Items)
  BY <1>1 DEF LifeInv, LifeTypeOK
<1>3. \A i \in 1 .. Len(stream[r]) : i \in 1 .. Len(stream'[r])
  BY <1>1, <1>2 DEF StreamsAreFinal
<1>4. Len(stream[r]) \in Nat /\ Len(stream'[r]) \in Nat
  BY <1>2
<1> QED BY <1>3, <1>4

-----------------------------------------------------------------------------
(* The handlers. *)

\* What leaves the handlers alone and makes no request known keeps their part.
LEMMA HandlersRest ==
    ASSUME LifeInv, HandlerInv, [LifeNext]_lifeVars, known' \subseteq known,
           UNCHANGED requestSide
    PROVE  HandlerInv'
<1>1. \A r \in Requests : /\ Len(stream[r]) <= Len(stream'[r])
                          /\ Len(stream[r]) \in Nat
                          /\ Len(stream'[r]) \in Nat
  BY StreamsGrow, LifeStep DEF LifeInv, LifeTypeOK
<1>2. \A r \in Requests : taken[r] \in Nat
  BY DEF HandlerInv
<1>3. \A r \in Requests : taken'[r] <= Len(stream'[r])
  BY <1>1, <1>2 DEF HandlerInv, requestSide
<1> QED BY <1>3 DEF HandlerInv, requestSide, EndedMeansUnknown

\* A handler that goes on to another await, and aborts its request at most.
LEMMA HandlerMoves ==
    ASSUME LifeInv, HandlerInv, [LifeNext]_lifeVars, known' \subseteq known,
           NEW r \in Requests, NEW there \in HandlerStates,
           HandlerAt(r, there),
           UNCHANGED taken,
           there \in {"check", "send"} => handler[r] \in {"check", "send"},
           there \in {"done", "left"} => r \notin known'
    PROVE  HandlerInv'
<1>1. \A s \in Requests : /\ Len(stream[s]) <= Len(stream'[s])
                          /\ Len(stream[s]) \in Nat
                          /\ Len(stream'[s]) \in Nat
  BY StreamsGrow, LifeStep DEF LifeInv, LifeTypeOK
<1>2. \A s \in Requests : taken[s] \in Nat
  BY DEF HandlerInv
<1>3. \A s \in Requests : taken'[s] <= Len(stream'[s])
  BY <1>1, <1>2 DEF HandlerInv
<1>4. /\ handler' \in [Requests -> HandlerStates]
      /\ handler'[r] = there
      /\ \A s \in Requests \ {r} : handler'[s] = handler[s]
  BY DEF HandlerAt, HandlerInv
<1>5. EndedMeansUnknown'
  BY <1>4 DEF EndedMeansUnknown, HandlerInv
<1>6. \A s \in Requests : handler'[s] \in {"check", "send"} => taken'[s] > 0
  BY <1>4 DEF HandlerInv
<1> QED BY <1>3, <1>4, <1>5, <1>6 DEF HandlerInv

LEMMA GenerateKeeps ==
    ASSUME LifeInv, HandlerInv, NEW r \in Requests, Generate(r)
    PROVE  HandlerInv'
<1>1. PICK there \in {"start", "collect"} : HandlerAt(r, there)
  BY DEF Generate
<1>2. /\ handler' \in [Requests -> HandlerStates]
      /\ handler'[r] = there
      /\ \A s \in Requests \ {r} : handler'[s] = handler[s]
  BY <1>1 DEF HandlerAt, HandlerInv, HandlerStates
<1>3. known' = known \cup {r} /\ UNCHANGED <<stream, taken>>
  BY DEF Generate, Submit
<1> QED BY <1>2, <1>3 DEF HandlerInv, EndedMeansUnknown

\* q.get() takes the next item; the handler is done if it is the last one.
LEMMA GetItemKeeps ==
    ASSUME LifeInv, HandlerInv, NEW r \in Requests, NEW there \in HandlerStates,
           GetItem(r), HandlerAt(r, there), UNCHANGED lifeVars,
           there = "done" => stream[r][taken[r] + 1].finished,
           there # "left"
    PROVE  HandlerInv'
<1>1. /\ handler' \in [Requests -> HandlerStates]
      /\ handler'[r] = there
      /\ \A s \in Requests \ {r} : handler'[s] = handler[s]
  BY DEF HandlerAt, HandlerInv
<1>2. /\ taken \in [Requests -> Nat]
      /\ taken' = [taken EXCEPT ![r] = taken[r] + 1]
      /\ taken[r] < Len(stream[r])
      /\ stream[r] \in Seq(Items)
  BY DEF HandlerInv, GetItem, LifeInv, LifeTypeOK
<1>3. /\ taken' \in [Requests -> Nat]
      /\ taken'[r] = taken[r] + 1
      /\ \A s \in Requests \ {r} : taken'[s] = taken[s]
  BY <1>2
<1>4. \A s \in Requests : taken'[s] <= Len(stream'[s])
  BY <1>2, <1>3 DEF HandlerInv, lifeVars
<1>5. \A s \in Requests : handler'[s] \in {"check", "send"} => taken'[s] > 0
  BY <1>1, <1>2, <1>3 DEF HandlerInv
<1>6. taken[r] + 1 \in DOMAIN stream[r]
  BY <1>2
<1>7. there = "done" => r \notin known
  BY <1>6 DEF LifeInv, StreamsEndOnce
<1>8. EndedMeansUnknown'
  BY <1>1, <1>7 DEF EndedMeansUnknown, HandlerInv, lifeVars
<1> QED BY <1>1, <1>3, <1>4, <1>5, <1>8 DEF HandlerInv

LEMMA SentKeeps ==
    ASSUME LifeInv, HandlerInv, NEW r \in Requests, Sent(r)
    PROVE  HandlerInv'
<1> DEFINE there == IF Current(r).finished THEN "done" ELSE "read"
<1>1. /\ HandlerAt(r, there)
      /\ handler[r] = "send"
      /\ UNCHANGED lifeVars
      /\ UNCHANGED taken
  BY DEF Sent
<1>2. /\ taken[r] \in Nat /\ taken[r] > 0 /\ taken[r] <= Len(stream[r])
      /\ stream[r] \in Seq(Items)
  BY <1>1 DEF HandlerInv, LifeInv, LifeTypeOK
<1>3. taken[r] \in DOMAIN stream[r]
  BY <1>2
<1>4. Current(r).finished => r \notin known
  BY <1>3 DEF LifeInv, StreamsEndOnce, Current
<1>5. known' = known
  BY <1>1 DEF lifeVars
<1>6. there \in {"done", "read"} /\ (there = "done" => r \notin known')
  BY <1>4, <1>5
<1> HIDE DEF there
<1> QED BY <1>1, <1>5, <1>6, HandlerMoves DEF HandlerStates

\* Each step of the server keeps the handlers' part.
LEMMA HandlersStep ==
    ASSUME LifeInv, HandlerInv, [ServerNext]_serverVars
    PROVE  HandlerInv'
<1>1. [LifeNext]_lifeVars
  BY StepOfLife
<1>2. ASSUME NEW r \in Requests
      PROVE  Generate(r) => HandlerInv'
  BY GenerateKeeps
<1>3. ASSUME NEW r \in Requests, Start(r) \/ Yield(r) \/ Dropped(r)
      PROVE  HandlerInv'
  <2>1. PICK there \in {"read", "send", "dropped"} :
           /\ HandlerAt(r, there)
           /\ there = "send" => handler[r] = "check"
           /\ UNCHANGED <<lifeVars, taken>>
    BY <1>3 DEF Start, Yield, Dropped
  <2>2. known' \subseteq known
    BY <2>1 DEF lifeVars
  <2> QED BY <1>1, <2>1, <2>2, HandlerMoves DEF HandlerStates
<1>4. ASSUME NEW r \in Requests, Read(r) PROVE HandlerInv'
  BY <1>4, GetItemKeeps DEF Read, HandlerStates
<1>5. ASSUME NEW r \in Requests, Collect(r) PROVE HandlerInv'
  <2>1. PICK there \in {"done", "collect"} :
           /\ HandlerAt(r, there)
           /\ there = "done" => stream[r][taken[r] + 1].finished
           /\ GetItem(r)
           /\ UNCHANGED lifeVars
    BY <1>5 DEF Collect
  <2> QED BY <2>1, GetItemKeeps DEF HandlerStates
<1>6. ASSUME NEW r \in Requests PROVE Sent(r) => HandlerInv'
  BY SentKeeps
<1>7. ASSUME NEW r \in Requests, LeaveAndAbort(r) \/ Cancelled(r) PROVE HandlerInv'
  <2>1. /\ HandlerAt(r, "left")
        /\ UNCHANGED taken
        /\ known' = known \ {r}
    BY <1>7 DEF LeaveAndAbort, Cancelled, AbortRequest
  <2> QED BY <1>1, <2>1, HandlerMoves DEF HandlerStates
<1>8. ASSUME NEW r \in Requests, AbortCall(r) PROVE HandlerInv'
  <2>1. UNCHANGED requestSide /\ known' \subseteq known
    BY <1>8 DEF AbortCall, AbortRequest
  <2> QED BY <1>1, <2>1, HandlersRest
<1>9. ASSUME EngineStep \/ EngineEnds PROVE HandlerInv'
  <2>1. UNCHANGED requestSide /\ known' \subseteq known
    BY <1>9 DEF EngineStep, EngineEnds, Serve, LoopEnds
  <2> QED BY <1>1, <2>1, HandlersRest
<1>10. ASSUME UNCHANGED <<lifeVars, requestSide>> PROVE HandlerInv'
  <2>1. known' \subseteq known
    BY <1>10 DEF lifeVars
  <2> QED BY <1>1, <1>10, <2>1, HandlersRest
<1>11. ASSUME NEW w \in Watchers
       PROVE  Subscribe(w) \/ WatcherStep(w) \/ Closed(w) \/ ClosedEarly(w)
                 => UNCHANGED <<lifeVars, requestSide>>
  BY DEF Subscribe, WatcherStep, YieldSnapshot, WaitForEvent, YieldEvent, KeepAlive,
         Leave, Closed, Unsubscribe, ClosedEarly
<1>12. ASSUME NEW c \in Requests \cup Watchers
       PROVE  Disconnect(c) => UNCHANGED <<lifeVars, requestSide>>
  BY DEF Disconnect
<1>13. UNCHANGED serverVars => UNCHANGED <<lifeVars, requestSide>>
  BY DEF serverVars
<1> QED BY <1>2, <1>3, <1>4, <1>5, <1>6, <1>7, <1>8, <1>9, <1>10, <1>11, <1>12, <1>13
        DEF ServerNext, HandlerStep

-----------------------------------------------------------------------------
(* The watchers. *)

LEMMA SeqElements ==
    ASSUME NEW S, NEW q \in Seq(S)
    PROVE  /\ Len(q) \in Nat
           /\ DOMAIN q = 1 .. Len(q)
           /\ \A i \in DOMAIN q : q[i] \in S
OBVIOUS

\* put_nowait on a buffer in order, from which the oldest event may go.
LEMMA OfferKeepsOrder ==
    ASSUME WatcherInv, NEW w \in Watchers, emitted < MaxEvents
    PROVE  LET longer == Offer(buffer[w], emitted + 1)
           IN  /\ longer \in Seq(1 .. MaxEvents)
               /\ longer # <<>>
               /\ Len(longer) <= EventBuffer
               /\ \A i, j \in DOMAIN longer : i < j => longer[i] < longer[j]
               /\ \A i \in DOMAIN seen[w] : \A j \in DOMAIN longer : seen[w][i] < longer[j]
               /\ \A j \in DOMAIN longer : longer[j] + Len(longer) <= emitted + 1 + j
               /\ \E j \in DOMAIN longer : longer[j] = emitted + 1
               /\ \A i \in DOMAIN buffer[w] :
                     \/ \E j \in DOMAIN longer : longer[j] = buffer[w][i]
                     \/ buffer[w][i] <= emitted + 1 - EventBuffer
<1> DEFINE q == buffer[w]
           e == emitted + 1
           n == Len(q)
<1>1. /\ q \in Seq(1 .. MaxEvents)
      /\ n \in Nat
      /\ DOMAIN q = 1 .. n
      /\ \A i \in 1 .. n : q[i] \in 1 .. MaxEvents
      /\ e \in 1 .. MaxEvents
      /\ emitted \in Nat
      /\ EventBuffer \in Nat \ {0}
      /\ n <= EventBuffer
  BY ServerConstants DEF WatcherInv, EventTypes
<1>2. /\ \A i, j \in 1 .. n : i < j => q[i] < q[j]
      /\ \A i \in DOMAIN seen[w] : seen[w][i] \in Nat /\ seen[w][i] < e
      /\ \A i \in DOMAIN seen[w] : \A j \in 1 .. n : seen[w][i] < q[j]
      /\ \A j \in 1 .. n : q[j] + n <= emitted + j
  <2>1. InOrder(w) /\ seen[w] \in Seq(1 .. MaxEvents)
    BY DEF WatcherInv, EventTypes
  <2>2. \A i \in DOMAIN seen[w] : seen[w][i] \in 1 .. MaxEvents
    BY <2>1, SeqElements
  <2>3. \A i \in DOMAIN seen[w] : seen[w][i] \in Nat /\ seen[w][i] <= emitted
    BY <2>1, <2>2 DEF InOrder
  <2>4. \A i \in DOMAIN seen[w] : seen[w][i] \in Nat /\ seen[w][i] < e
    BY <1>1, <2>3 DEF e
  <2>5. DOMAIN buffer[w] = 1 .. n /\ Len(buffer[w]) = n /\ q = buffer[w]
    BY <1>1 DEF q, n
  <2>6. /\ \A i, j \in 1 .. n : i < j => q[i] < q[j]
        /\ \A i \in DOMAIN seen[w] : \A j \in 1 .. n : seen[w][i] < q[j]
        /\ \A j \in 1 .. n : q[j] + n <= emitted + j
    BY <2>1, <2>5 DEF InOrder
  <2> QED BY <2>4, <2>6
<1> HIDE DEF q, e, n
<1>3. CASE n < EventBuffer
  <2> DEFINE longer == Append(q, e)
  <2>1. Offer(q, e) = longer
    BY <1>3 DEF Offer, n
  <2>2. /\ longer \in Seq(1 .. MaxEvents)
        /\ Len(longer) = n + 1
        /\ DOMAIN longer = 1 .. n + 1
        /\ \A i \in 1 .. n : longer[i] = q[i]
        /\ longer[n + 1] = e
    BY <1>1 DEF n
  <2> HIDE DEF longer
  <2>3. longer # <<>>
    BY <2>2, <1>1
  <2>4. \A j \in 1 .. n : q[j] < e
    BY <1>1, <1>2 DEF e
  <2>5. \A i, j \in DOMAIN longer : i < j => longer[i] < longer[j]
    BY <1>1, <1>2, <2>2, <2>4
  <2>6. \A i \in DOMAIN seen[w] : \A j \in DOMAIN longer : seen[w][i] < longer[j]
    BY <1>1, <1>2, <2>2
  <2>7. \A j \in DOMAIN longer : longer[j] + Len(longer) <= e + j
    BY <1>1, <1>2, <2>2 DEF e
  <2>8. n + 1 \in DOMAIN longer /\ Len(longer) <= EventBuffer
    BY <1>1, <1>3, <2>2
  <2>9. \A i \in DOMAIN q : \E j \in DOMAIN longer : longer[j] = q[i]
    BY <1>1, <2>2
  <2> QED BY <2>1, <2>2, <2>3, <2>5, <2>6, <2>7, <2>8, <2>9 DEF q, e
<1>4. CASE n = EventBuffer
  <2> DEFINE longer == Append(Tail(q), e)
  <2>1. Offer(q, e) = longer
    BY <1>1, <1>4 DEF Offer, n
  <2>2. q # <<>>
    BY <1>1, <1>4 DEF n
  <2>3. /\ Tail(q) \in Seq(1 .. MaxEvents)
        /\ Len(Tail(q)) = n - 1
        /\ \A i \in 1 .. n - 1 : Tail(q)[i] = q[i + 1]
    BY <1>1, <2>2 DEF n
  <2>4. /\ longer \in Seq(1 .. MaxEvents)
        /\ Len(longer) = n
        /\ DOMAIN longer = 1 .. n
        /\ \A i \in 1 .. n - 1 : longer[i] = q[i + 1]
        /\ longer[n] = e
    BY <1>1, <1>4, <2>3
  <2> HIDE DEF longer
  <2>5. longer # <<>>
    BY <2>4, <1>1, <1>4
  <2>6. \A j \in 1 .. n : q[j] < e
    BY <1>1, <1>2 DEF e
  <2>7. ASSUME NEW i \in DOMAIN longer, NEW j \in DOMAIN longer, i < j
        PROVE  longer[i] < longer[j]
    <3>1. i \in 1 .. n - 1 /\ longer[i] = q[i + 1] /\ i + 1 \in 1 .. n
      BY <1>1, <2>4, <2>7
    <3>2. CASE j = n
      BY <1>1, <2>4, <2>6, <3>1, <3>2
    <3>3. CASE j # n
      <4>1. n \in Nat /\ i \in 1 .. n /\ j \in 1 .. n
        BY <1>1, <2>4
      <4>2. j \in 1 .. n - 1 /\ j + 1 \in 1 .. n /\ i + 1 < j + 1
        BY <2>7, <3>3, <4>1
      <4>3. longer[j] = q[j + 1]
        BY <2>4, <4>2
      <4> QED BY <1>2, <3>1, <4>2, <4>3
    <3> QED BY <3>2, <3>3
  <2>8. \A i \in DOMAIN seen[w] : \A j \in DOMAIN longer : seen[w][i] < longer[j]
    <3>1. \A j \in 1 .. n - 1 : longer[j] = q[j + 1] /\ j + 1 \in 1 .. n
      BY <1>1, <2>4
    <3>2. \A j \in 1 .. n : j \in 1 .. n - 1 \/ j = n
      BY <1>1
    <3>3. \A i \in DOMAIN seen[w] : \A j \in 1 .. n - 1 : seen[w][i] < longer[j]
      BY <1>2, <3>1
    <3>4. \A i \in DOMAIN seen[w] : seen[w][i] < longer[n]
      BY <1>2, <2>4
    <3> QED BY <2>4, <3>2, <3>3, <3>4
  <2>9. \A j \in DOMAIN longer : longer[j] + Len(longer) <= e + j
    BY <1>1, <1>2, <2>4 DEF e
  <2>10. n \in DOMAIN longer /\ Len(longer) <= EventBuffer
    BY <1>1, <1>4, <2>4
  <2>11. ASSUME NEW i \in 1 .. n
         PROVE  (\E j \in DOMAIN longer : longer[j] = q[i]) \/ q[i] <= e - EventBuffer
    <3>1. CASE i = 1
      BY <1>1, <1>2, <1>4, <3>1 DEF e
    <3>2. CASE i # 1
      <4>1. i - 1 \in 1 .. n - 1 /\ longer[i - 1] = q[i]
        BY <1>1, <2>4, <3>2
      <4>2. i - 1 \in DOMAIN longer
        BY <1>1, <2>4, <4>1
      <4> QED BY <4>1, <4>2
    <3> QED BY <3>1, <3>2
  <2>12. \E j \in DOMAIN longer : longer[j] = e
    BY <2>4, <2>10
  <2>13. \A i, j \in DOMAIN longer : i < j => longer[i] < longer[j]
    BY <2>7
  <2>14. \A i \in DOMAIN q :
            (\E j \in DOMAIN longer : longer[j] = q[i]) \/ q[i] <= e - EventBuffer
    BY <1>1, <2>11
  <2>15. longer \in Seq(1 .. MaxEvents)
    BY <2>4
  <2>16. longer = Offer(buffer[w], emitted + 1)
    BY <2>1 DEF q, e
  <2>17. /\ \A j \in DOMAIN longer : longer[j] + Len(longer) <= emitted + 1 + j
         /\ \E j \in DOMAIN longer : longer[j] = emitted + 1
         /\ \A i \in DOMAIN buffer[w] :
               \/ \E j \in DOMAIN longer : longer[j] = buffer[w][i]
               \/ buffer[w][i] <= emitted + 1 - EventBuffer
    BY <1>1, <2>9, <2>12, <2>14 DEF q, e
  <2> QED BY <2>5, <2>8, <2>10, <2>13, <2>15, <2>16, <2>17
<1> QED BY <1>1, <1>3, <1>4

LEMMA EmitKeeps ==
    ASSUME WatcherInv, Emit, UNCHANGED watcherSide
    PROVE  WatcherInv'
<1> DEFINE longer(w) == Offer(buffer[w], emitted + 1)
<1>1. /\ emitted < MaxEvents
      /\ emitted' = emitted + 1
      /\ buffer' = [w \in Watchers |-> IF w \in subscribers THEN longer(w) ELSE buffer[w]]
      /\ UNCHANGED <<subscribers, watcher, since, seen>>
  BY DEF Emit, watcherSide
<1>2. EventTypes /\ emitted \in Nat /\ MaxEvents \in Nat /\ EventBuffer \in Nat
  BY ServerConstants DEF WatcherInv, EventTypes
<1>3. \A w \in Watchers :
         /\ w \in subscribers => buffer'[w] = longer(w)
         /\ w \notin subscribers => buffer'[w] = buffer[w]
  BY <1>1
<1>4. \A w \in Watchers : longer(w) \in Seq(1 .. MaxEvents)
  BY <1>1, OfferKeepsOrder
<1> HIDE DEF longer
<1>5. EventTypes'
  BY <1>1, <1>2, <1>4 DEF EventTypes
<1>6. ASSUME NEW w \in Watchers, w \in subscribers
      PROVE  /\ Len(buffer'[w]) <= EventBuffer
             /\ watcher[w] # "none"
             /\ InOrder(w)'
             /\ Arrives(w)'
  <2>1. /\ buffer'[w] \in Seq(1 .. MaxEvents)
        /\ Len(buffer'[w]) <= EventBuffer
        /\ \A i, j \in DOMAIN buffer'[w] : i < j => buffer'[w][i] < buffer'[w][j]
        /\ \A i \in DOMAIN seen[w] : \A j \in DOMAIN buffer'[w] : seen[w][i] < buffer'[w][j]
        /\ \A j \in DOMAIN buffer'[w] : buffer'[w][j] + Len(buffer'[w]) <= emitted + 1 + j
        /\ \E j \in DOMAIN buffer'[w] : buffer'[w][j] = emitted + 1
        /\ \A i \in DOMAIN buffer[w] :
              \/ \E j \in DOMAIN buffer'[w] : buffer'[w][j] = buffer[w][i]
              \/ buffer[w][i] <= emitted + 1 - EventBuffer
    BY <1>1, <1>3, <1>6, OfferKeepsOrder DEF longer
  <2>2. seen[w] \in Seq(1 .. MaxEvents) /\ InOrder(w) /\ Arrives(w)
    BY <1>6 DEF WatcherInv, EventTypes
  <2>3. \A i \in DOMAIN seen[w] : seen[w][i] \in Nat
    BY <1>2, <2>2, SeqElements
  <2>4. \A i \in DOMAIN seen[w] : seen[w][i] <= emitted + 1
    BY <1>2, <2>2, <2>3 DEF InOrder
  <2>5. InOrder(w)'
    BY <1>1, <2>1, <2>2, <2>4 DEF InOrder
  <2>6. ASSUME NEW e \in since'[w] + 1 .. emitted'
        PROVE  \/ \E i \in DOMAIN seen'[w] : seen'[w][i] = e
               \/ \E j \in DOMAIN buffer'[w] : buffer'[w][j] = e
               \/ e <= emitted' - EventBuffer
    <3>1. since[w] \in Nat
      BY <1>2 DEF EventTypes
    <3>2. CASE e = emitted + 1
      BY <2>1, <3>2
    <3>3. CASE e # emitted + 1
      <4>1. e \in since[w] + 1 .. emitted
        BY <1>1, <1>2, <3>1, <3>3
      <4>2. \/ \E i \in DOMAIN seen[w] : seen[w][i] = e
            \/ \E j \in DOMAIN buffer[w] : buffer[w][j] = e
            \/ e <= emitted - EventBuffer
        BY <2>2, <4>1 DEF Arrives
      <4>3. CASE e <= emitted - EventBuffer
        BY <1>1, <1>2, <4>1, <4>3
      <4>4. CASE \E j \in DOMAIN buffer[w] : buffer[w][j] = e
        <5>1. PICK j \in DOMAIN buffer[w] : buffer[w][j] = e
          BY <4>4
        <5>2. \/ \E k \in DOMAIN buffer'[w] : buffer'[w][k] = buffer[w][j]
              \/ buffer[w][j] <= emitted + 1 - EventBuffer
          BY <2>1
        <5>3. CASE buffer[w][j] <= emitted + 1 - EventBuffer
          <6>1. emitted' = emitted + 1
            BY <1>1
          <6>2. e <= emitted' - EventBuffer
            BY <1>2, <5>1, <5>3, <6>1
          <6> QED BY <6>2
        <5> QED BY <5>1, <5>2, <5>3
      <4> QED BY <1>1, <4>2, <4>3, <4>4
    <3> QED BY <3>2, <3>3
  <2>7. Arrives(w)'
    BY <2>6 DEF Arrives
  <2>8. watcher[w] # "none"
    BY <1>6 DEF WatcherInv
  <2> QED BY <2>1, <2>5, <2>7, <2>8
<1>7. ASSUME NEW w \in Watchers, w \notin subscribers
      PROVE  Len(buffer'[w]) <= EventBuffer /\ InOrder(w)' /\ buffer'[w] = buffer[w]
  <2>1. buffer'[w] = buffer[w] /\ Len(buffer[w]) <= EventBuffer /\ InOrder(w)
    BY <1>3, <1>7 DEF WatcherInv
  <2>2. seen[w] \in Seq(1 .. MaxEvents) /\ buffer[w] \in Seq(1 .. MaxEvents)
    BY <1>2 DEF EventTypes
  <2>3. /\ \A i \in DOMAIN seen[w] : seen[w][i] \in Nat
        /\ \A j \in DOMAIN buffer[w] : buffer[w][j] \in Nat /\ j \in Nat
        /\ Len(buffer[w]) \in Nat
    BY <1>2, <2>2, SeqElements
  <2>4. InOrder(w)'
    BY <1>1, <1>2, <2>1, <2>3 DEF InOrder
  <2> QED BY <2>1, <2>4
<1> QED BY <1>1, <1>5, <1>6, <1>7 DEF WatcherInv

\* YieldEvent moves the first event of the buffer to the end of what was sent.
LEMMA YieldEventKeeps ==
    ASSUME WatcherInv, NEW w \in Watchers, YieldEvent(w)
    PROVE  WatcherInv'
<1> DEFINE q == buffer[w]
           n == Len(q)
           m == Len(seen[w])
<1>1. /\ q # <<>>
      /\ buffer' = [buffer EXCEPT ![w] = Tail(q)]
      /\ seen' = [seen EXCEPT ![w] = Append(seen[w], Head(q))]
      /\ watcher' = [watcher EXCEPT ![w] = "send"]
      /\ UNCHANGED <<emitted, subscribers, since>>
  BY DEF YieldEvent, WatcherAt
<1>2. /\ EventTypes
      /\ q \in Seq(1 .. MaxEvents) /\ n \in Nat \ {0} /\ DOMAIN q = 1 .. n
      /\ seen[w] \in Seq(1 .. MaxEvents) /\ m \in Nat /\ DOMAIN seen[w] = 1 .. m
      /\ emitted \in Nat /\ EventBuffer \in Nat
  BY <1>1, ServerConstants DEF WatcherInv, EventTypes
<1>3. /\ \A j \in 1 .. n : q[j] \in 1 .. MaxEvents
      /\ \A i \in 1 .. m : seen[w][i] \in 1 .. MaxEvents
  BY <1>2, SeqElements
<1>4. /\ Tail(q) \in Seq(1 .. MaxEvents)
      /\ Len(Tail(q)) = n - 1
      /\ DOMAIN Tail(q) = 1 .. n - 1
      /\ \A j \in 1 .. n - 1 : Tail(q)[j] = q[j + 1]
      /\ Head(q) = q[1]
  BY <1>1, <1>2, HeadTail
<1>5. buffer'[w] = Tail(q) /\ seen'[w] = Append(seen[w], q[1])
  BY <1>1, <1>2, <1>4 DEF EventTypes
<1>6. /\ Append(seen[w], q[1]) \in Seq(1 .. MaxEvents)
      /\ DOMAIN Append(seen[w], q[1]) = 1 .. m + 1
      /\ \A i \in 1 .. m : Append(seen[w], q[1])[i] = seen[w][i]
      /\ Append(seen[w], q[1])[m + 1] = q[1]
  BY <1>2, <1>3
<1>7. EventTypes'
  <2>1. "send" \in WatcherStates
    BY DEF WatcherStates
  <2> QED BY <1>1, <1>2, <1>4, <1>6, <2>1 DEF EventTypes
<1>8. InOrder(w) /\ n <= EventBuffer /\ (w \in subscribers => Arrives(w))
  BY DEF WatcherInv
<1>9. /\ \A i, j \in 1 .. m : i < j => seen[w][i] < seen[w][j]
      /\ \A i, j \in 1 .. n : i < j => q[i] < q[j]
      /\ \A i \in 1 .. m : seen[w][i] <= emitted
      /\ \A i \in 1 .. m : \A j \in 1 .. n : seen[w][i] < q[j]
      /\ \A j \in 1 .. n : q[j] + n <= emitted + j
  BY <1>2, <1>8 DEF InOrder
<1> HIDE DEF q, n, m
<1>10. q[1] <= emitted
  BY <1>2, <1>3, <1>9
<1>11. /\ DOMAIN buffer'[w] = 1 .. n - 1 /\ Len(buffer'[w]) = n - 1
       /\ \A j \in 1 .. n - 1 : buffer'[w][j] = q[j + 1] /\ j + 1 \in 1 .. n
       /\ DOMAIN seen'[w] = 1 .. m + 1
       /\ \A i \in 1 .. m : seen'[w][i] = seen[w][i]
       /\ seen'[w][m + 1] = q[1]
       /\ emitted' = emitted
  <2>1. \A j \in 1 .. n - 1 : j + 1 \in 1 .. n
    BY <1>2
  <2> QED BY <1>1, <1>4, <1>5, <1>6, <2>1
<1>12. InOrder(w)'
  <2>1. \A i, j \in 1 .. m + 1 : i < j => seen'[w][i] < seen'[w][j]
    <3>1. ASSUME NEW i \in 1 .. m + 1, NEW j \in 1 .. m + 1, i < j
          PROVE  seen'[w][i] < seen'[w][j]
      <4>1. i \in 1 .. m /\ 1 \in 1 .. n /\ (j \in 1 .. m \/ j = m + 1)
        BY <1>2, <3>1
      <4>2. seen[w][i] < q[1]
        BY <1>9, <4>1
      <4> QED BY <1>9, <1>11, <3>1, <4>1, <4>2
    <3> QED BY <3>1
  <2>2. \A i, j \in 1 .. n - 1 : i < j => buffer'[w][i] < buffer'[w][j]
    <3>1. ASSUME NEW i \in 1 .. n - 1, NEW j \in 1 .. n - 1, i < j
          PROVE  buffer'[w][i] < buffer'[w][j]
      <4>1. i + 1 < j + 1
        BY <1>2, <3>1
      <4> QED BY <1>9, <1>11, <4>1
    <3> QED BY <3>1
  <2>3. \A i \in 1 .. m + 1 : seen'[w][i] <= emitted'
    BY <1>2, <1>9, <1>10, <1>11
  <2>4. \A i \in 1 .. m + 1 : \A j \in 1 .. n - 1 : seen'[w][i] < buffer'[w][j]
    <3>1. \A j \in 1 .. n - 1 : 1 < j + 1 /\ 1 \in 1 .. n
      BY <1>2
    <3>2. \A j \in 1 .. n - 1 : q[1] < buffer'[w][j]
      BY <1>9, <1>11, <3>1
    <3>3. \A i \in 1 .. m : \A j \in 1 .. n - 1 : seen[w][i] < buffer'[w][j]
      BY <1>9, <1>11
    <3>4. \A i \in 1 .. m + 1 : i \in 1 .. m \/ i = m + 1
      BY <1>2
    <3> QED BY <1>11, <3>2, <3>3, <3>4
  <2>5. \A j \in 1 .. n - 1 : buffer'[w][j] + (n - 1) <= emitted + j
    <3>1. \A j \in 1 .. n - 1 : q[j + 1] + n <= emitted + (j + 1) /\ q[j + 1] \in Nat
      BY <1>3, <1>9, <1>11
    <3> QED BY <1>2, <1>11, <3>1
  <2> QED BY <1>11, <2>1, <2>2, <2>3, <2>4, <2>5 DEF InOrder
<1>13. ASSUME w \in subscribers, NEW e \in since[w] + 1 .. emitted
       PROVE  \/ \E i \in DOMAIN seen'[w] : seen'[w][i] = e
              \/ \E j \in DOMAIN buffer'[w] : buffer'[w][j] = e
              \/ e <= emitted - EventBuffer
  <2>1. \/ \E i \in 1 .. m : seen[w][i] = e
        \/ \E j \in 1 .. n : q[j] = e
        \/ e <= emitted - EventBuffer
    BY <1>2, <1>8, <1>13 DEF Arrives, q
  <2>2. CASE \E i \in 1 .. m : seen[w][i] = e
    <3>1. PICK i \in 1 .. m : seen[w][i] = e
      BY <2>2
    <3>2. i \in DOMAIN seen'[w] /\ seen'[w][i] = e
      BY <1>2, <1>11, <3>1
    <3> QED BY <3>2
  <2>3. CASE \E j \in 1 .. n : q[j] = e
    <3>1. PICK j \in 1 .. n : q[j] = e
      BY <2>3
    <3>2. CASE j = 1
      <4>1. m + 1 \in DOMAIN seen'[w] /\ seen'[w][m + 1] = e
        BY <1>2, <1>11, <3>1, <3>2
      <4> QED BY <4>1
    <3>3. CASE j # 1
      <4>1. j - 1 \in 1 .. n - 1 /\ (j - 1) + 1 = j
        BY <1>2, <3>3
      <4>2. j - 1 \in DOMAIN buffer'[w] /\ buffer'[w][j - 1] = e
        BY <1>11, <3>1, <4>1
      <4> QED BY <4>2
    <3> QED BY <3>2, <3>3
  <2> QED BY <2>1, <2>2, <2>3
<1>14. w \in subscribers' => Arrives(w)'
  BY <1>1, <1>13 DEF Arrives
<1>15. Len(buffer'[w]) <= EventBuffer
  BY <1>2, <1>8, <1>11
<1>16. watcher'[w] # "none"
  BY <1>1, <1>2 DEF EventTypes
<1>17. ASSUME NEW v \in Watchers, v # w
       PROVE  /\ Len(buffer'[v]) <= EventBuffer
              /\ watcher'[v] = "none" =>
                    v \notin subscribers' /\ seen'[v] = <<>> /\ buffer'[v] = <<>>
              /\ InOrder(v)'
              /\ v \in subscribers' => Arrives(v)'
  <2>1. buffer'[v] = buffer[v] /\ seen'[v] = seen[v] /\ watcher'[v] = watcher[v]
    BY <1>1, <1>2, <1>17 DEF EventTypes
  <2>2. since'[v] = since[v] /\ subscribers' = subscribers /\ emitted' = emitted
    BY <1>1
  <2> QED BY <2>1, <2>2 DEF WatcherInv, InOrder, Arrives
<1> QED BY <1>7, <1>12, <1>14, <1>15, <1>16, <1>17 DEF WatcherInv

LEMMA SubscribeKeeps ==
    ASSUME WatcherInv, NEW w \in Watchers, Subscribe(w)
    PROVE  WatcherInv'
<1>1. /\ watcher[w] = "none"
      /\ watcher' = [watcher EXCEPT ![w] = "start"]
      /\ subscribers' = subscribers \cup {w}
      /\ since' = [since EXCEPT ![w] = emitted]
      /\ UNCHANGED <<emitted, buffer, seen>>
  BY DEF Subscribe, WatcherAt
<1>2. EventTypes /\ emitted \in Nat
  BY DEF WatcherInv, EventTypes
<1>3. EventTypes'
  <2>1. "start" \in WatcherStates
    BY DEF WatcherStates
  <2> QED BY <1>1, <1>2, <2>1 DEF EventTypes
<1>4. watcher'[w] # "none" /\ since'[w] = emitted
  BY <1>1, <1>2 DEF EventTypes
<1>5. emitted + 1 .. emitted = {}
  BY <1>2
<1>6. Arrives(w)'
  BY <1>1, <1>4, <1>5 DEF Arrives
<1>7. ASSUME NEW v \in Watchers PROVE Len(buffer'[v]) <= EventBuffer /\ InOrder(v)'
  BY <1>1 DEF WatcherInv, InOrder
<1>8. ASSUME NEW v \in Watchers, v # w
      PROVE  /\ watcher'[v] = "none" =>
                   v \notin subscribers' /\ seen'[v] = <<>> /\ buffer'[v] = <<>>
             /\ v \in subscribers' => Arrives(v)'
  <2>1. watcher'[v] = watcher[v] /\ since'[v] = since[v]
    BY <1>1, <1>2, <1>8 DEF EventTypes
  <2>2. v \in subscribers' <=> v \in subscribers
    BY <1>1, <1>8
  <2> QED BY <1>1, <2>1, <2>2 DEF WatcherInv, Arrives
<1> QED BY <1>3, <1>4, <1>6, <1>7, <1>8 DEF WatcherInv

\* A watcher that goes on to another await, and is unsubscribed at most.
LEMMA WatcherMoves ==
    ASSUME WatcherInv, NEW w \in Watchers, NEW there \in WatcherStates \ {"none"},
           WatcherAt(w, there), subscribers' \subseteq subscribers,
           UNCHANGED <<emitted, buffer, since, seen>>
    PROVE  WatcherInv'
<1>1. EventTypes
  BY DEF WatcherInv
<1>2. /\ watcher' \in [Watchers -> WatcherStates]
      /\ watcher'[w] = there
      /\ \A v \in Watchers \ {w} : watcher'[v] = watcher[v]
  BY <1>1 DEF WatcherAt, EventTypes
<1>3. EventTypes'
  BY <1>1, <1>2 DEF EventTypes
<1>4. ASSUME NEW v \in Watchers PROVE InOrder(v)' /\ (v \in subscribers' => Arrives(v)')
  BY DEF WatcherInv, InOrder, Arrives
<1>5. ASSUME NEW v \in Watchers, watcher'[v] = "none"
      PROVE  v \notin subscribers' /\ seen'[v] = <<>> /\ buffer'[v] = <<>>
  BY <1>2, <1>5 DEF WatcherInv
<1> QED BY <1>3, <1>4, <1>5 DEF WatcherInv

LEMMA WatchersRest ==
    ASSUME WatcherInv, UNCHANGED <<eventVars, watcherSide>>
    PROVE  WatcherInv'
BY DEF WatcherInv, EventTypes, InOrder, Arrives, eventVars, watcherSide

\* Each step of the server keeps the watchers' part.
LEMMA WatchersStep ==
    ASSUME WatcherInv, [ServerNext]_serverVars
    PROVE  WatcherInv'
<1>1. ASSUME EngineStep \/ \E r \in Requests : Generate(r) PROVE WatcherInv'
  BY <1>1, EmitKeeps DEF EngineStep, Generate
<1>2. ASSUME NEW r \in Requests
      PROVE  HandlerStep(r) \/ Cancelled(r) \/ Dropped(r) \/ AbortCall(r)
                => UNCHANGED <<eventVars, watcherSide>>
  BY DEF HandlerStep, Start, Read, Collect, LeaveAndAbort, Yield, Sent, Cancelled,
         Dropped, AbortCall
<1>3. EngineEnds \/ UNCHANGED serverVars => UNCHANGED <<eventVars, watcherSide>>
  BY DEF EngineEnds, serverVars
<1>4. ASSUME NEW c \in Requests \cup Watchers
      PROVE  Disconnect(c) => UNCHANGED <<eventVars, watcherSide>>
  BY DEF Disconnect
<1>5. ASSUME NEW w \in Watchers,
             YieldSnapshot(w) \/ WaitForEvent(w) \/ KeepAlive(w) \/ Leave(w)
                \/ Closed(w) \/ ClosedEarly(w)
      PROVE  WatcherInv'
  <2>1. PICK there \in {"snapshot", "wait", "send", "left", "dropped"} :
           /\ WatcherAt(w, there)
           /\ subscribers' \subseteq subscribers
           /\ UNCHANGED <<emitted, buffer, since, seen>>
    BY <1>5 DEF YieldSnapshot, WaitForEvent, KeepAlive, Leave, Closed, ClosedEarly,
                Unsubscribe, eventVars
  <2> QED BY <2>1, WatcherMoves DEF WatcherStates
<1>6. ASSUME NEW w \in Watchers PROVE Subscribe(w) \/ YieldEvent(w) => WatcherInv'
  BY SubscribeKeeps, YieldEventKeeps
<1> QED BY <1>1, <1>2, <1>3, <1>4, <1>5, <1>6, WatchersRest DEF ServerNext, WatcherStep

-----------------------------------------------------------------------------
(* The whole. *)

LEMMA ServerStart ==
    ASSUME ServerInit
    PROVE  ServerInv
<1>1. LifeInv
  BY LifeStart DEF ServerInit
<1>2. \A r \in Requests : stream[r] = <<>>
  BY DEF ServerInit, LifeInit
<1>3. HandlerInv
  <2>1. Len(<<>>) = 0
    OBVIOUS
  <2> QED BY <1>2, <2>1 DEF ServerInit, HandlerInv, HandlerStates, EndedMeansUnknown
<1>4. EventTypes
  BY ServerConstants DEF ServerInit, EventTypes, WatcherStates
<1>5. Len(<<>>) = 0 /\ DOMAIN <<>> = {}
  OBVIOUS
<1>6. \A w \in Watchers : seen[w] = <<>> /\ buffer[w] = <<>>
  BY DEF ServerInit
<1>7. \A w \in Watchers : InOrder(w)
  BY <1>5, <1>6 DEF InOrder
<1>8. \A w \in Watchers : Len(buffer[w]) <= EventBuffer
  BY <1>5, <1>6, ServerConstants
<1>9. WatcherInv
  BY <1>4, <1>6, <1>7, <1>8 DEF WatcherInv, ServerInit
<1> QED BY <1>1, <1>3, <1>9 DEF ServerInit, ServerInv

LEMMA ServerStep ==
    ASSUME ServerInv, [ServerNext]_serverVars
    PROVE  ServerInv'
<1>1. LifeInv'
  BY StepOfLife, LifeStep DEF ServerInv
<1>2. HandlerInv' /\ WatcherInv'
  BY HandlersStep, WatchersStep DEF ServerInv
<1>3. gone' = gone \/ \E c \in Requests \cup Watchers : gone' = gone \cup {c}
  BY DEF ServerNext, EngineStep, EngineEnds, Generate, HandlerStep, Start, Read,
         Collect, LeaveAndAbort, Yield, Sent, Cancelled, Dropped, AbortCall, Subscribe,
         WatcherStep, YieldSnapshot, WaitForEvent, YieldEvent, KeepAlive, Leave,
         Closed, Unsubscribe, ClosedEarly, Disconnect, serverVars
<1>4. gone' \subseteq Requests \cup Watchers
  BY <1>3 DEF ServerInv
<1> QED BY <1>1, <1>2, <1>4 DEF ServerInv

\* Adjacent elements of what was sent and is buffered are in order.
LEMMA SentThenBuffered ==
    ASSUME WatcherInv, NEW w \in Watchers
    PROVE  LET all == seen[w] \o buffer[w]
           IN  /\ \A i \in 1 .. Len(all) - 1 : all[i] < all[i + 1]
               /\ \A e : (\/ \E i \in DOMAIN seen[w] : seen[w][i] = e
                          \/ \E j \in DOMAIN buffer[w] : buffer[w][j] = e)
                            => Contains(all, e)
<1> DEFINE all == seen[w] \o buffer[w]
           m == Len(seen[w])
           n == Len(buffer[w])
<1>1. /\ seen[w] \in Seq(1 .. MaxEvents)
      /\ buffer[w] \in Seq(1 .. MaxEvents)
      /\ InOrder(w)
  BY DEF WatcherInv, EventTypes
<1>2. /\ m \in Nat /\ DOMAIN seen[w] = 1 .. m
      /\ n \in Nat /\ DOMAIN buffer[w] = 1 .. n
  BY <1>1, SeqElements
<1>3. /\ Len(all) = m + n
      /\ DOMAIN all = 1 .. m + n
      /\ \A i \in 1 .. m : all[i] = seen[w][i]
      /\ \A i \in 1 .. m + n : i > m => all[i] = buffer[w][i - m]
  <2>1. /\ all \in Seq(1 .. MaxEvents)
        /\ Len(all) = m + n
        /\ \A i \in 1 .. m + n : all[i] = IF i <= m THEN seen[w][i] ELSE buffer[w][i - m]
    BY <1>1, ConcatProperties
  <2>2. DOMAIN all = 1 .. m + n
    BY <2>1, SeqElements
  <2> HIDE DEF all, m, n
  <2>3. \A i \in 1 .. m : i \in 1 .. m + n /\ i <= m
    BY <1>2
  <2>4. \A i \in 1 .. m + n : i > m => ~(i <= m)
    BY <1>2
  <2> QED BY <2>1, <2>2, <2>3, <2>4
<1>4. /\ \A i, j \in 1 .. m : i < j => seen[w][i] < seen[w][j]
      /\ \A i, j \in 1 .. n : i < j => buffer[w][i] < buffer[w][j]
      /\ \A i \in 1 .. m : \A j \in 1 .. n : seen[w][i] < buffer[w][j]
  BY <1>1, <1>2 DEF InOrder
<1> HIDE DEF all, m, n
<1>5. ASSUME NEW i \in 1 .. Len(all) - 1 PROVE all[i] < all[i + 1]
  <2>1. CASE i < m
    <3>1. i \in 1 .. m /\ i + 1 \in 1 .. m /\ i < i + 1
      BY <1>2, <1>3, <2>1
    <3>2. all[i] = seen[w][i] /\ all[i + 1] = seen[w][i + 1]
      BY <1>3, <3>1
    <3> QED BY <1>4, <3>1, <3>2
  <2>2. CASE i = m
    <3>1. i \in 1 .. m /\ i + 1 \in 1 .. m + n /\ i + 1 > m /\ i + 1 - m = 1 /\ 1 \in 1 .. n
      BY <1>2, <1>3, <2>2
    <3>2. all[i] = seen[w][i]
      BY <1>3, <3>1
    <3>3. PICK k \in 1 .. m + n : k = i + 1
      BY <3>1
    <3>4. k > m /\ k - m = 1
      BY <1>2, <2>2, <3>3
    <3>5. all[k] = buffer[w][1]
      BY <1>3, <3>4
    <3>6. all[i + 1] = buffer[w][1]
      BY <3>3, <3>5
    <3> QED BY <1>4, <3>1, <3>2, <3>6
  <2>3. CASE i > m
    <3>1. /\ i \in 1 .. m + n /\ i + 1 \in 1 .. m + n /\ i + 1 > m
          /\ i - m \in 1 .. n /\ i + 1 - m \in 1 .. n /\ i - m < i + 1 - m
      BY <1>2, <1>3, <2>3
    <3>2. all[i] = buffer[w][i - m] /\ all[i + 1] = buffer[w][i + 1 - m]
      BY <1>2, <1>3, <2>3, <3>1
    <3> QED BY <1>4, <3>1, <3>2
  <2> QED BY <1>2, <2>1, <2>2, <2>3
<1>6. ASSUME NEW i \in 1 .. m PROVE \E k \in DOMAIN all : all[k] = seen[w][i]
  BY <1>2, <1>3
<1>7. ASSUME NEW j \in 1 .. n PROVE \E k \in DOMAIN all : all[k] = buffer[w][j]
  <2>1. m + j \in 1 .. m + n /\ m + j > m /\ (m + j) - m = j
    BY <1>2
  <2> QED BY <1>3, <2>1
<1>8. ASSUME NEW e,
             \/ \E i \in DOMAIN seen[w] : seen[w][i] = e
             \/ \E j \in DOMAIN buffer[w] : buffer[w][j] = e
      PROVE  Contains(all, e)
  BY <1>2, <1>6, <1>7, <1>8 DEF Contains
<1> QED BY <1>5, <1>8 DEF all

LEMMA ServerInvImplies ==
    ASSUME ServerInv
    PROVE  ServerTypeOK /\ StreamsEndOnce /\ EndedMeansUnknown /\ LatestEventsArrive
<1>1. ServerTypeOK
  BY DEF ServerInv, LifeInv, HandlerInv, HandlerStates, WatcherInv, EventTypes,
         WatcherStates, ServerTypeOK
<1>2. StreamsEndOnce /\ EndedMeansUnknown
  BY DEF ServerInv, LifeInv, HandlerInv
<1>3. ASSUME NEW w \in subscribers
      PROVE  LET all == seen[w] \o buffer[w]
             IN  /\ \A i \in 1 .. Len(all) - 1 : all[i] < all[i + 1]
                 /\ \A e \in since[w] + 1 .. emitted :
                       Contains(all, e) \/ e <= emitted - EventBuffer
  <2>1. w \in Watchers /\ Arrives(w)
    BY DEF ServerInv, WatcherInv, EventTypes
  <2> QED BY <2>1, SentThenBuffered DEF ServerInv, Arrives
<1>4. LatestEventsArrive
  BY <1>3 DEF LatestEventsArrive
<1> QED BY <1>1, <1>2, <1>4

-----------------------------------------------------------------------------
(* Theorems. *)

\* The invariant holds of every behaviour of the server.
THEOREM ServerInvariant == ServerSpec => []ServerInv
<1>1. ServerInit => ServerInv
  BY ServerStart
<1>2. ServerInv /\ [ServerNext]_serverVars => ServerInv'
  BY ServerStep
<1> QED BY <1>1, <1>2, PTL DEF ServerSpec

\* The server uses the engine as LLMEngine allows: what it submits, reads and
\* aborts is a life of each request (server.py:152-330).
THEOREM ServerUsesLifecycle == ServerSpec => LifeSpec
<1>1. ServerInit => LifeInit
  BY DEF ServerInit
<1>2. [ServerNext]_serverVars => [LifeNext]_lifeVars
  BY StepOfLife
<1> QED BY <1>1, <1>2, PTL DEF ServerSpec, LifeSpec

\* Handlers, watchers, buffers and events are what the code means them to be.
THEOREM ServerTypes == ServerSpec => []ServerTypeOK
<1>1. ServerInv => ServerTypeOK
  BY ServerInvImplies
<1> QED BY <1>1, ServerInvariant, PTL

\* Under the server, too, a stream ends once and within its limit.
THEOREM ServerStreamsEndOnce == ServerSpec => []StreamsEndOnce
<1>1. ServerInv => StreamsEndOnce
  BY ServerInvImplies
<1> QED BY <1>1, ServerInvariant, PTL

\* A handler that has come to its end, or has seen its client leave, has no
\* request behind it that the engine goes on with (server.py:152-330).
THEOREM HandlersLeaveNothing == ServerSpec => []EndedMeansUnknown
<1>1. ServerInv => EndedMeansUnknown
  BY ServerInvImplies
<1> QED BY <1>1, ServerInvariant, PTL

\* A slow client of /engine/events loses the oldest events only, and gets the
\* rest in order, each once (engine.py, _emit and subscribe_events).
THEOREM LatestEventsReachWatchers == ServerSpec => []LatestEventsArrive
<1>1. ServerInv => LatestEventsArrive
  BY ServerInvImplies
<1> QED BY <1>1, ServerInvariant, PTL
=============================================================================
