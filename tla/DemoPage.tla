------------------------------ MODULE DemoPage ------------------------------
(***************************************************************************)
(* web/app.js: one visitor of the demo page.                               *)
(*                                                                         *)
(* Live, the page hears of a request from two sides: the events of         *)
(* /engine/events and, when it sent the request itself, the chunks of      *)
(* /generate.  Without a server it replays a recording, one event after    *)
(* the other, each with a timer of its own.                                *)
(*                                                                         *)
(* What the page shows of the request is the sequence of the items whose   *)
(* text it has appended.  Pool, queues and statistics are drawn from the   *)
(* last event alone and are left out.                                      *)
(***************************************************************************)
EXTENDS Generation

CONSTANTS
    Watched,    \* bound: what a request asks for that the visitor watches
    MaxStrays   \* bound: the timers of a Replayer beyond its _timeout

ASSUME DemoPageConstants == Watched \subseteq SamplingParams /\ MaxStrays \in Nat

VARIABLES
    mode,        \* state.mode, "away" before the page is opened
    source,      \* the EventSource: "none", "opening", "open", "closed"
    gotOne,      \* gotOne
    fallback,    \* the two-second timer is pending
    at,          \* how many of the events have gone out to this page
    missed,      \* some of them never got here
    own,         \* the page sent the request
    chunks,      \* how many chunks of its response it has read
    generated,   \* rec.generated
    loading,     \* how many times startReplay awaits the recording
    tape,        \* the recording
    players      \* the Replayers; state.replay is the last

liveVars == <<at, missed, own, chunks>>
replayVars == <<loading, tape, players>>
pageVars == <<mode, source, gotOne, fallback, liveVars, generated, replayVars>>
demoVars == <<generationVars, pageVars>>

\* handleEvent and applyDeltas
Handle(shown, event) ==
    CASE event.type = "request" -> <<>>
      [] event.type = "step" -> Append(shown, event.item)
      [] event.type = "snapshot" -> shown

-----------------------------------------------------------------------------
(* connectLive. *)

\* boot, with ?mode=replay or without; ?mode=live changes nothing.
Visit ==
    /\ mode = "away"
    /\ params \in Watched
    /\ \/ /\ mode' = "connecting"
          /\ source' = "opening"
          /\ fallback' = TRUE
          /\ UNCHANGED loading
       \/ /\ mode' = "replay"
          /\ loading' = 1
          /\ UNCHANGED <<source, fallback>>
    /\ UNCHANGED <<generationVars, gotOne, liveVars, generated, tape, players>>

\* The server has subscribed the page; the snapshot is on its way.
Connect ==
    /\ source = "opening"
    /\ alive
    /\ source' = "open"
    /\ at' = Len(events)
    /\ UNCHANGED <<generationVars, mode, gotOne, fallback, missed, own, chunks,
                   generated, replayVars>>

\* The first message is the snapshot.
FirstMessage ==
    /\ source = "open"
    /\ ~gotOne
    /\ gotOne' = TRUE
    /\ mode' = "live"
    /\ UNCHANGED <<generationVars, source, fallback, liveVars, generated, replayVars>>

Message ==
    /\ source = "open"
    /\ gotOne
    /\ at < Len(events)
    /\ at' = at + 1
    /\ generated' = Handle(generated, events[at + 1])
    /\ UNCHANGED <<generationVars, mode, source, gotOne, fallback, missed, own,
                   chunks, replayVars>>

\* Dropped from a full buffer (Server), or sent before the browser had
\* connected anew after an error.
MissEvent ==
    /\ source = "open"
    /\ gotOne
    /\ at < Len(events)
    /\ at' = at + 1
    /\ missed' = TRUE
    /\ UNCHANGED <<generationVars, mode, source, gotOne, fallback, own, chunks,
                   generated, replayVars>>

FallBack ==
    /\ source' = "closed"
    /\ mode' = "replay"
    /\ loading' = loading + 1

\* onerror before a message has come.
ConnectionFails ==
    /\ source \in {"opening", "open"}
    /\ ~gotOne
    /\ FallBack
    /\ UNCHANGED <<generationVars, gotOne, fallback, liveVars, generated, tape, players>>

\* The two seconds are over.  They are not called off when the connection
\* fails before: the recording is then started a second time.
FallbackTimer ==
    /\ fallback
    /\ fallback' = FALSE
    /\ IF gotOne THEN UNCHANGED <<source, mode, loading>> ELSE FallBack
    /\ UNCHANGED <<generationVars, gotOne, liveVars, generated, tape, players>>

-----------------------------------------------------------------------------
(* sendPrompt. *)

SendPrompt ==
    /\ mode = "live"
    /\ AddRequest
    /\ own' = TRUE
    /\ UNCHANGED <<mode, source, gotOne, fallback, at, missed, chunks, generated,
                   replayVars>>

\* Mutant: every chunk begins a new record.
ShowChunkAlone(item) == generated' = <<item>>

\* The first chunk begins a new record, as the event "request" does.
ShowChunk(item) == generated' = IF item = 1 THEN <<1>> ELSE Append(generated, item)

ReadChunk ==
    /\ own
    /\ chunks < Len(stream)
    /\ chunks > 0 => ~stream[chunks].finished
    /\ chunks' = chunks + 1
    /\ ShowChunk(chunks + 1)
    /\ UNCHANGED <<generationVars, mode, source, gotOne, fallback, at, missed,
                   own, replayVars>>

-----------------------------------------------------------------------------
(* Replayer. *)

current == Len(players)

Put(player) == players' = [players EXCEPT ![current] = player]

\* _schedule: the timer before it, if it is pending, goes on without a name.
Schedule(player) ==
    IF player.idx >= Len(tape) THEN player
    ELSE [player EXCEPT !.timer = TRUE,
                        !.strays = IF player.timer THEN @ + 1 ELSE @]

\* stop
Stop(player) == [player EXCEPT !.timer = FALSE]

\* Mutant: what was shown stays.
ResetIndexOnly == UNCHANGED generated

\* state.requests.clear()
ClearRequests == generated' = <<>>

\* startReplay after its await, for the recording of a session that is over:
\* the first event is the engine's snapshot.
Loaded ==
    /\ loading > 0
    /\ ~alive
    /\ loading' = loading - 1
    /\ tape' = <<Event("snapshot", 0)>> \o events
    /\ players' = Append(players, [idx |-> 0, paused |-> FALSE, timer |-> TRUE, strays |-> 0])
    /\ ClearRequests
    /\ UNCHANGED <<generationVars, mode, source, gotOne, fallback, liveVars>>

Button ==
    /\ current > 0
    /\ UNCHANGED <<generationVars, mode, source, gotOne, fallback, liveVars, loading, tape>>

Pause ==
    /\ Button
    /\ ~players[current].paused
    /\ Put([Stop(players[current]) EXCEPT !.paused = TRUE])
    /\ UNCHANGED generated

Resume ==
    /\ Button
    /\ players[current].paused
    /\ players[current].strays < MaxStrays
    /\ Put(Schedule([players[current] EXCEPT !.paused = FALSE]))
    /\ UNCHANGED generated

SetSpeed ==
    /\ Button
    /\ ~players[current].paused
    /\ Put(Schedule(Stop(players[current])))
    /\ UNCHANGED generated

\* start, which does not end a pause.
Restart ==
    /\ Button
    /\ Put(Schedule([Stop(players[current]) EXCEPT !.idx = 0]))
    /\ ClearRequests

\* The callback of a timer, on the player it belongs to; behind the end of
\* the tape there is an error, which is caught.
Play(k, player) ==
    LET next == [player EXCEPT !.idx = @ + 1]
    IN  /\ players' = [players EXCEPT ![k] = IF player.paused THEN next ELSE Schedule(next)]
        /\ generated' = IF next.idx <= Len(tape) THEN Handle(generated, tape[next.idx])
                                                 ELSE generated
        /\ UNCHANGED <<generationVars, mode, source, gotOne, fallback, liveVars,
                       loading, tape>>

Fire(k) ==
    LET player == players[k]
    IN  \/ player.timer /\ Play(k, Stop(player))
        \/ player.strays > 0 /\ Play(k, [player EXCEPT !.strays = @ - 1])

-----------------------------------------------------------------------------
DemoInit ==
    /\ GenerationInit
    /\ mode = "away"
    /\ source = "none"
    /\ gotOne = FALSE
    /\ fallback = FALSE
    /\ at = 0
    /\ missed = FALSE
    /\ own = FALSE
    /\ chunks = 0
    /\ generated = <<>>
    /\ loading = 0
    /\ tape = <<>>
    /\ players = <<>>

DemoNext ==
    \/ GenerationNext /\ UNCHANGED pageVars
    \/ Visit \/ Connect \/ FirstMessage \/ Message \/ MissEvent
    \/ ConnectionFails \/ FallbackTimer
    \/ SendPrompt \/ ReadChunk
    \/ Loaded \/ Pause \/ Resume \/ SetSpeed \/ Restart
    \/ \E k \in DOMAIN players : Fire(k)

DemoSpec == DemoInit /\ [][DemoNext]_demoVars

-----------------------------------------------------------------------------
(* Properties. *)

\* The items that have reached the page as a chunk and as an event.
CameBothWays ==
    {item \in 1 .. chunks :
        \E i \in 1 .. at : events[i] = Event("step", item)}

\* Both sources append to one record and both begin it anew, in any order.
\* What has come both ways is shown, in order, whichever was first; and since
\* there are two sources the page may show it twice, but not more often.  The
\* timer of the connection does not take a page that is live to the replay.
LivePageLosesNothing ==
    (own /\ ~missed) =>
        /\ mode = "live"
        /\ \E place \in [CameBothWays -> DOMAIN generated] :
              /\ \A item \in CameBothWays : generated[place[item]] = item
              /\ \A i, j \in CameBothWays : i < j => place[i] < place[j]
        /\ \A item \in Range(generated) :
              Cardinality({i \in DOMAIN generated : generated[i] = item}) <= 2

\* As long as there is one Replayer, the page shows the tape up to where it
\* is, whatever was pressed; and it goes on by itself unless it is paused.
\* (Two of them, after a connection that fails at once, show all twice.)
ReplayFollowsTheTape ==
    current = 1 =>
        LET player == players[1]
            played == SubSeq(tape, 1, Min({player.idx, Len(tape)}))
        IN  /\ generated = FoldLeft(Handle, <<>>, played)
            /\ ~player.paused /\ player.idx < Len(tape) => player.timer \/ player.strays > 0
=============================================================================
