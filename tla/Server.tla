------------------------------- MODULE Server -------------------------------
(***************************************************************************)
(* tiny_vllm/server.py on top of the engine: the request handlers, which   *)
(* read a stream each, and /engine/events, whose clients share every event *)
(* through a bounded queue of their own.                                   *)
(*                                                                         *)
(* The engine is what Lifecycle promises; an event is its number; a        *)
(* handler or a watcher is at one of its awaits.                           *)
(***************************************************************************)
EXTENDS Lifecycle, SequencesExt

CONSTANTS
    Watchers,      \* calls of /engine/events
    EventBuffer,   \* event_buffer
    MaxEvents      \* bound: the events of one behaviour

ASSUME ServerConstants == EventBuffer \in Nat \ {0} /\ MaxEvents \in Nat

VARIABLES
    emitted,       \* how many events _emit has made
    subscribers,   \* _event_subscribers
    buffer,        \* the queue of each subscriber
    handler,       \* where the handler of each request is
    taken,         \* how many items of its queue it has got
    watcher,       \* where each generator of /engine/events is
    since,         \* the last event before the watcher subscribed
    seen,          \* the events the watcher was sent
    gone           \* the clients that have closed their connection

eventVars == <<emitted, subscribers, buffer>>
requestSide == <<handler, taken>>
watcherSide == <<watcher, since, seen>>
serverVars == <<lifeVars, eventVars, requestSide, watcherSide, gone>>

-----------------------------------------------------------------------------
(* The engine's side. *)

\* Mutant: a full queue keeps what it has.
OfferDropsNewest(q, e) == IF Len(q) < EventBuffer THEN Append(q, e) ELSE q

\* Mutant: a queue without a bound.
OfferUnbounded(q, e) == Append(q, e)

\* put_nowait, or get_nowait first when the queue is full.
Offer(q, e) ==
    IF Len(q) < EventBuffer THEN Append(q, e) ELSE Append(Tail(q), e)

\* _emit
Emit ==
    /\ emitted < MaxEvents
    /\ emitted' = emitted + 1
    /\ buffer' = [w \in Watchers |->
                     IF w \in subscribers THEN Offer(buffer[w], emitted + 1)
                                          ELSE buffer[w]]
    /\ UNCHANGED subscribers

\* A step gives tokens to some of the requests; one that was in the executor
\* may be left without any.
EngineStep ==
    /\ \E r \in Requests : Made(r)
    /\ \E served \in SUBSET known : \E token \in [served -> Tokens] : Serve(served, token)
    /\ Emit
    /\ UNCHANGED <<requestSide, watcherSide, gone>>

\* Shutdown, or an exception in a step.
EngineEnds ==
    /\ LoopEnds
    /\ UNCHANGED <<eventVars, requestSide, watcherSide, gone>>

-----------------------------------------------------------------------------
(* /generate and /v1/completions. *)

HandlerAt(r, there) == handler' = [handler EXCEPT ![r] = there]

\* add_request, and what the handler does with the stream: hand it to a
\* response that is sent later, or collect it.
Generate(r) ==
    /\ handler[r] = "none"
    /\ \/ HandlerAt(r, "start")
       \/ HandlerAt(r, "collect")
    /\ Submit(r)
    /\ Emit
    /\ UNCHANGED <<taken, watcherSide, gone>>

Start(r) ==
    /\ handler[r] = "start"
    /\ HandlerAt(r, "read")
    /\ UNCHANGED <<lifeVars, eventVars, taken, watcherSide, gone>>

\* q.get() in LLMEngine.stream.
GetItem(r) ==
    /\ taken[r] < Len(stream[r])
    /\ taken' = [taken EXCEPT ![r] = @ + 1]

Current(r) == stream[r][taken[r]]

Read(r) ==
    /\ handler[r] = "read"
    /\ GetItem(r)
    /\ HandlerAt(r, "check")
    /\ UNCHANGED <<lifeVars, eventVars, watcherSide, gone>>

Collect(r) ==
    /\ handler[r] = "collect"
    /\ GetItem(r)
    /\ HandlerAt(r, IF stream[r][taken[r] + 1].finished THEN "done" ELSE "collect")
    /\ UNCHANGED <<lifeVars, eventVars, watcherSide, gone>>

\* is_disconnected says that the client has left.
LeaveAndAbort(r) ==
    /\ handler[r] = "check"
    /\ r \in gone
    /\ AbortRequest(r)
    /\ HandlerAt(r, "left")
    /\ UNCHANGED <<eventVars, taken, watcherSide, gone>>

\* The generator yields a chunk ...
Yield(r) ==
    /\ handler[r] = "check"
    /\ r \notin gone
    /\ HandlerAt(r, "send")
    /\ UNCHANGED <<lifeVars, eventVars, taken, watcherSide, gone>>

\* ... and goes on once it was sent.
Sent(r) ==
    /\ handler[r] = "send"
    /\ HandlerAt(r, IF Current(r).finished THEN "done" ELSE "read")
    /\ UNCHANGED <<lifeVars, eventVars, taken, watcherSide, gone>>

\* Mutant: the handler swallows the CancelledError.
CancelledQuietly(r) ==
    /\ handler[r] \in {"read", "check"}
    /\ r \in gone
    /\ HandlerAt(r, "left")
    /\ UNCHANGED <<lifeVars, eventVars, taken, watcherSide, gone>>

\* The response is cancelled for a client that left, at an await of the
\* generator: except asyncio.CancelledError.
Cancelled(r) ==
    /\ handler[r] \in {"read", "check"}
    /\ r \in gone
    /\ AbortRequest(r)
    /\ HandlerAt(r, "left")
    /\ UNCHANGED <<eventVars, taken, watcherSide, gone>>

\* The response is cancelled outside the generator, before its start or at a
\* yield: the generator is closed with GeneratorExit and aborts nothing.
Dropped(r) ==
    /\ handler[r] \in {"start", "send"}
    /\ r \in gone
    /\ HandlerAt(r, "dropped")
    /\ UNCHANGED <<lifeVars, eventVars, taken, watcherSide, gone>>

\* POST /abort/{request_id}
AbortCall(r) ==
    /\ r \in known
    /\ AbortRequest(r)
    /\ UNCHANGED <<eventVars, requestSide, watcherSide, gone>>

HandlerStep(r) ==
    \/ Start(r) \/ Read(r) \/ Collect(r) \/ LeaveAndAbort(r) \/ Yield(r) \/ Sent(r)

-----------------------------------------------------------------------------
(* /engine/events. *)

WatcherAt(w, there) == watcher' = [watcher EXCEPT ![w] = there]

\* subscribe_events, when the handler makes the response.
Subscribe(w) ==
    /\ watcher[w] = "none"
    /\ WatcherAt(w, "start")
    /\ subscribers' = subscribers \cup {w}
    /\ since' = [since EXCEPT ![w] = emitted]
    /\ UNCHANGED <<lifeVars, emitted, buffer, requestSide, seen, gone>>

\* The generator's first yield, ahead of its try.
YieldSnapshot(w) ==
    /\ watcher[w] = "start"
    /\ WatcherAt(w, "snapshot")
    /\ UNCHANGED <<lifeVars, eventVars, requestSide, since, seen, gone>>

\* The head of the loop, and the wait for an event.
WaitForEvent(w) ==
    /\ watcher[w] \in {"snapshot", "send"}
    /\ w \notin gone
    /\ WatcherAt(w, "wait")
    /\ UNCHANGED <<lifeVars, eventVars, requestSide, since, seen, gone>>

YieldEvent(w) ==
    /\ watcher[w] = "wait"
    /\ buffer[w] # <<>>
    /\ buffer' = [buffer EXCEPT ![w] = Tail(@)]
    /\ seen' = [seen EXCEPT ![w] = Append(@, Head(buffer[w]))]
    /\ WatcherAt(w, "send")
    /\ UNCHANGED <<lifeVars, emitted, subscribers, requestSide, since, gone>>

\* No event for 15 seconds.
KeepAlive(w) ==
    /\ watcher[w] = "wait"
    /\ buffer[w] = <<>>
    /\ WatcherAt(w, "send")
    /\ UNCHANGED <<lifeVars, eventVars, requestSide, since, seen, gone>>

\* Mutant: the generator ends without its finally.
LeaveSubscribed(w) ==
    /\ watcher[w] \in {"snapshot", "send"}
    /\ w \in gone
    /\ WatcherAt(w, "left")
    /\ UNCHANGED <<lifeVars, eventVars, requestSide, since, seen, gone>>

Unsubscribe(w) ==
    /\ w \in gone
    /\ WatcherAt(w, "left")
    /\ subscribers' = subscribers \ {w}
    /\ UNCHANGED <<lifeVars, emitted, buffer, requestSide, since, seen, gone>>

\* is_disconnected at the head of the loop.
Leave(w) == watcher[w] \in {"snapshot", "send"} /\ Unsubscribe(w)

\* The response is cancelled while the generator is in its try.
Closed(w) == watcher[w] \in {"wait", "send"} /\ Unsubscribe(w)

\* The response is cancelled before the generator has entered its try: its
\* queue stays subscribed.
ClosedEarly(w) ==
    /\ watcher[w] \in {"start", "snapshot"}
    /\ w \in gone
    /\ WatcherAt(w, "dropped")
    /\ UNCHANGED <<lifeVars, eventVars, requestSide, since, seen, gone>>

WatcherStep(w) ==
    YieldSnapshot(w) \/ WaitForEvent(w) \/ YieldEvent(w) \/ KeepAlive(w) \/ Leave(w)

-----------------------------------------------------------------------------
\* A client closes its connection.
Disconnect(c) ==
    /\ c \notin gone
    /\ IF c \in Requests THEN handler[c] # "none" ELSE watcher[c] # "none"
    /\ gone' = gone \cup {c}
    /\ UNCHANGED <<lifeVars, eventVars, requestSide, watcherSide>>

ServerInit ==
    /\ LifeInit
    /\ emitted = 0
    /\ subscribers = {}
    /\ buffer = [w \in Watchers |-> <<>>]
    /\ handler = [r \in Requests |-> "none"]
    /\ taken = [r \in Requests |-> 0]
    /\ watcher = [w \in Watchers |-> "none"]
    /\ since = [w \in Watchers |-> 0]
    /\ seen = [w \in Watchers |-> <<>>]
    /\ gone = {}

ServerNext ==
    \/ EngineStep \/ EngineEnds
    \/ \E r \in Requests : \/ Generate(r) \/ HandlerStep(r)
                           \/ Cancelled(r) \/ Dropped(r) \/ AbortCall(r)
    \/ \E w \in Watchers : \/ Subscribe(w) \/ WatcherStep(w)
                           \/ Closed(w) \/ ClosedEarly(w)
    \/ \E c \in Requests \cup Watchers : Disconnect(c)

\* The event loop runs every handler that can go on, and time passes for a
\* watcher that waits.  The engine and the clients may do nothing.
ServerSpec ==
    /\ ServerInit
    /\ [][ServerNext]_serverVars
    /\ \A r \in Requests : WF_serverVars(HandlerStep(r))
    /\ \A w \in Watchers : WF_serverVars(WatcherStep(w))

-----------------------------------------------------------------------------
(* Properties. *)

ServerTypeOK ==
    /\ LifeTypeOK
    /\ emitted \in 0 .. MaxEvents
    /\ subscribers \subseteq Watchers
    /\ buffer \in [Watchers -> Seq(1 .. MaxEvents)]
    /\ \A w \in Watchers : Len(buffer[w]) <= EventBuffer
    /\ handler \in [Requests -> {"none", "start", "read", "check", "send",
                                 "collect", "done", "left", "dropped"}]
    /\ taken \in [Requests -> Nat]
    /\ \A r \in Requests : taken[r] <= Len(stream[r])
    /\ watcher \in [Watchers -> {"none", "start", "snapshot", "wait", "send",
                                 "left", "dropped"}]
    /\ since \in [Watchers -> 0 .. MaxEvents]
    /\ seen \in [Watchers -> Seq(1 .. MaxEvents)]
    /\ gone \subseteq Requests \cup Watchers

\* What a watcher was sent and will be sent comes in order, each event once,
\* and an event it misses is older than the buffer is long: a slow client
\* loses the oldest events, never the latest (_emit).
LatestEventsArrive ==
    \A w \in subscribers :
        LET all == seen[w] \o buffer[w]
        IN  /\ \A i \in 1 .. Len(all) - 1 : all[i] < all[i + 1]
            /\ \A e \in since[w] + 1 .. emitted :
                  Contains(all, e) \/ e <= emitted - EventBuffer

\* A handler that ended, with its response or because the client had left,
\* leaves no request behind that the engine goes on with.  (One whose
\* response was dropped at a yield does: see Dropped.)
EndedMeansUnknown ==
    \A r \in Requests : handler[r] \in {"done", "left"} => r \notin known

\* A handler whose request the engine has let go comes to its end: the item
\* that finishes a stream is on every queue that is read.
HandlersEnd ==
    \A r \in Requests :
        (handler[r] \in {"start", "read", "check", "send", "collect"} /\ r \notin known)
            ~> handler[r] \in {"done", "left", "dropped"}

\* A watcher whose client leaves after the snapshot was sent is unsubscribed,
\* with events or without (the 15-second timeout).
LeaversUnsubscribe ==
    \A w \in Watchers :
        (watcher[w] \in {"wait", "send"} /\ w \in gone) ~> w \notin subscribers
=============================================================================
