# tiny_vLLM in TLA+

A model of the core of tiny_vLLM, model-checked with TLC, and proved with TLAPS:
the block manager, the scheduler, the run loop, the cache, the server, the sampler,
the text of a request and the demo page, for every pool size, block size, prompt,
vocabulary and number of requests. Paths such as `scheduler.py:156` are under
`src/tiny_vllm/`; `web/` is `src/web/`.

## The system

tiny_vLLM serves one language model. Requests become sequences; a run loop
schedules some tokens of some sequences per step, runs the model over them in a
worker thread, samples, and streams tokens back. The K and V of every token
lives in a pool of fixed-size blocks, which sequences with a common prefix
share.

| Component | State it keeps | Operations | Right when |
|---|---|---|---|
| **Sequence** `request.py` | prompt, output, block table, computed and cached counts, status | append a token, lengths | computed tokens are in the cache, sampled tokens come after everything before them |
| **Block manager** `block_manager.py` | `ref_count` and `hash_key` per block, two free lists, `_cache` | `admit`, `append_slot`, `ensure_blocks_for_chunk`, `free`, `register_filled_blocks` | no block is lost, doubly owned or shared by sequences that differ; the cache never names a repurposed block |
| **Scheduler** `scheduler.py` | `waiting`, `running` | `add`, `abort`, `schedule`, `finalize_step` | no request is lost or in two queues; budgets are kept; what is scheduled can be run |
| **Paged KV cache** `paged_kv.py`, addressing in `model_runner.py` | K and V per slot | `prepare_input`, `write`, `gather` | a position attends to the K and V of its own sequence |
| **Engine** `engine.py` | output queues, `_sequences`, `_wake`, `_stop` | `add_request`, `abort`, `shutdown`, `_run_loop` | streams carry the output and end; the loop survives what requests do |
| **Event stream, recorder** `engine.py:189-237` | subscriber queues, file | `subscribe_events`, `_emit`, `_record` | a slow client loses the oldest events only |
| **Server** `server.py` | one generator per connection | `/generate`, `/v1/completions`, `/abort`, `/engine/events` | a client that leaves is aborted and unsubscribed |
| **Sampler** `sampler.py` | none | `sample` | top-k and top-p keep what they say |
| **Detokenization** `model_runner.py:387-392` | `_prev_text_len` | `detokenize_incremental` | the pieces sent add up to the text |
| **Network** `model_runner.py` | weights | `execute` | tensor arithmetic |
| **Demo page** `web/app.js` | mode, the text shown, replay position, timers | `connectLive`, `sendPrompt`, `Replayer` | what was sent is shown; the replay shows the tape |

How they interact: everything but the model's forward pass runs on one asyncio
event loop. `_run_loop` calls the scheduler, which calls the block manager;
these calls are synchronous and nothing interleaves with them. The loop gives
way at four awaits: the executor (`engine.py:293`), `sleep(0)` after a step
(404), `sleep(0.01)` when nothing could be scheduled (288), and the wait for
work (278). There, and only there, handlers call `add_request`, `abort` and
`shutdown`, which change the queues, block tables and statuses the loop is
working with.

What is hard: an abort that lands while the executor works on the aborted
sequence; preemption in two phases of one scheduling step; blocks that are
hashed, and hence shared, before they are filled; free lists that also are the
eviction order; counters (budget, active count, references) that several loops
keep; a wake-up event that must not be lost. `PROJECT.json` lists these under
"hazards", each at its line, with the properties that guard it.

## The modules

    Request ── Queues                                      Sampler
         └──┬──┘                                              │
      BlockManager                                         Generation ─┐
            │                                                 │        │
        Scheduler                                          DemoPage    │
            │                                                          │
         PagedKV                                                       │
            │                                                          │
         Engine ─ ─ ─ implements ─ ─ ─ > Lifecycle < ─ ─ implements ─ ─┘
                                            │
                                         Server

Theorems are in modules of their own, each extending the one before it:

    QueueProofs → BlockManagerProofs → SchedulerProofs → EngineProofs
        → RefinementProofs                         (Engine)
        → CacheProofs                              (Engine)
    QueueProofs → ServerProofs                     (Lifecycle, Server)
    QueueProofs → GenerationProofs                 (Sampler, Generation, DemoPage)

Each module extends the one above it, so that a call of the
code is an action of the callee's module conjoined with what the caller does
around it.

**Request** holds the fields of `Sequence` as functions of the sequence.
Positions are 0-based in the code; element `p + 1` of a TLA+ sequence is
position `p`.

**Queues** has the one deque operation the community modules lack, `remove`.

**BlockManager** keeps the object as a record `pool`; `_take_free_block`,
`_share`, `_release`, `_register` are functions on it. The methods with loops
(`admit`, `ensure_blocks_for_chunk`, `free`, `register_filled_blocks`) run one
iteration per action, with the loop's locals in `call`; no other action is
enabled until `call` is `Idle` again, because the code does not await inside
them. Iterations are separate actions so that the middle of a call, where it
may raise, is a state the properties see. A hash is the sequence of all tokens it
was chained from, `None` the empty sequence: Python's `hash` is taken to have no
collisions. An `IndexError` in `register_filled_blocks` is the condition
`RegisterIndexError`, which the callers turn into the end of the loop. `PoolSpec`
is the block manager alone, under a caller that calls in any order but keeps to
each method's contract (`Call...`): it checks `can_allocate_initial` before
`admit`, uses the other methods for admitted sequences, and computes tokens no
further than blocks reach.

**Scheduler** adds the queues and `schedule()`. `pc` walks through it:

| `pc` | Code |
|---|---|
| `idle` | between two steps |
| `decode`, `retry` | phase 1, and its second `append_slot` after a preemption (105-139) |
| `prefill`, `ensure` | phase 2, and inside `ensure_blocks_for_chunk` (145-202) |
| `scheduled` | `schedule()` has returned |
| `count`, `sample` | what the caller does after the forward pass |
| `finalize`, `release` | `finalize_step` |
| `crashed` | an `IndexError` ended the caller |

`SchedulerSpec` is the scheduler with the block manager under it and a caller
that makes one step after another, aborts and new requests coming between steps.
It finishes a step with `finalize_step`, which documents itself as what follows
the forward pass but is called nowhere in the repository; the engine has its own
copy of that loop. The handler around `ensure_blocks_for_chunk` (179-187) has no
action: `ChunkIsCovered`, a theorem, says it is never entered.

**PagedKV** gives the block ids contents. A slot holds the token prefix whose K
and V it was computed for; a forward pass writes, for each scheduled position,
the prefix that ends there. `prepare_input` copies the block table and the
tokens, as the code does, so a table that changes while the executor runs does
not change the input.

**Engine** replaces the caller of `Scheduler` by `_run_loop`, with the same
scheduling actions. `pc` goes on from `scheduled` through `forward`, `count`,
`apply`, `register`, `check`, `free`, `emit` to `yield`; `pause` is the sleep of
a step without work, `waiting` the wait for `_wake`, `stopped` the end of the
task. `AddRequest`, `Abort`, `Shutdown` are enabled at the awaits, and after the
loop has ended, because nothing in the code keeps them out then. `stream` is the
history of the items put on each output queue.

**Lifecycle** is what the engine promises its callers: a request is made, gets tokens
one item each up to its limit or a stop token, or is aborted; the item that says so
is the last of its stream, and the request is known until then. Blocks, batches,
prefill, preemption and the executor are forgotten; `Serve` gives a token to any set
of known requests at once, as `_run_loop` does between two awaits. Two modules are
shown to implement it:

* `Engine` (`ImplementsLifecycle`), with its own `known`, the stream as a reader gets
  it, `alive` while the task runs, and the limit that `max_tokens`, `max_model_len`
  and the prompt's length amount to;
* `Generation` (`ParamsImplementLifecycle`), where each request has its own limit,
  stop tokens and `ignore_eos`.

An item may follow an abort on the queue, when the aborted request was in the
executor; `LLMEngine.stream` ends at the first item that is finished, so the mapping
cuts the stream there. The engine's steps that lie between two awaits map to
stutters, except the one that puts an item. Items of one step are put one by one, each
a `Serve` of one request.

**Server** models the HTTP handlers and `/engine/events` on top of `Lifecycle`: its
engine side is the actions `Submit`, `AbortRequest`, `Serve` and `LoopEnds`, each
with the event that `_emit` makes of it. An event is its number, so "the latest" and
"missed" can be said. `handler` and `watcher` are the awaits the coroutines are at. A
client may leave at any time; the framework may then cancel its response, which the
code sees as a `CancelledError` inside the generator (`Cancelled`, `Closed`) or, when
the generator is suspended at a `yield` or not yet started, only as its being closed
(`Dropped`, `ClosedEarly`).

**Sampler** gives the set of tokens that `sample` may return for a row of weights:
the `topk` threshold, the sort (any order among equals), the cumulated weights, and
the shifted mask of `sampler.py:41-45`. A weight is a probability times a common
factor, `Whole` parts are 1.0.

**Generation** follows one request with its own `SamplingParams` through sampling,
stopping, detokenization and the events about it. A token is a character, or the
first or second half of one (`"lead"`, `"trail"`), or `"eos"`, which decoding skips; a
half that stands alone is decoded to a placeholder. An abort may come while a step is
in the executor; the item of that step then repeats the text, because
`_prev_text_len` is gone.

**DemoPage** is a visitor of the page while `Generation` runs. Live, it hears of a
request through `/engine/events` and, if it sent it, through the response, in any
order; `generated` is the sequence of items whose text the page has appended. In
replay it plays the recording with timers: `timer` is the one `_timeout` names, and
`strays` counts those it no longer names.

The type invariants that runs check are `PoolTypeOK`, `EngineTypeOK`, which has the
scheduler's queues in it, and `ServerTypeOK` (with `LifeTypeOK`).

## What is checked

`MC*.tla` name the prompts and the symmetry; each `.cfg` is one run. Sequences
are interchangeable, so runs without temporal properties use symmetry. All runs
use blocks of two tokens, the smallest size at which a block can be partly full.

| Run | Bounds | What it shows |
|---|---|---|
| `pool` | 2 sequences, 3 blocks, prompts of 2-5 tokens, 2 token values | Counts, free lists and cache stay exact, sharing is sound, `admit` does not run dry, nothing is evicted early. Three blocks are fewer than two prompts need, so sharing, eviction and re-registration all happen. |
| `engine` | 4 sequences, 5 blocks, 2 output tokens, 3 at a time, budget 5; prompts of 1, 1, 2, 4, of 3, 3, 2, 10 or of 5, 5, 7, 11 tokens, `MaxModelLen` 12 | Queues, budgets and block tables under preemption in both phases and under aborts; streams and `_sequences` agree with them at every await, also at a shutdown; sequences that wait never keep each other from their blocks. The first mix reaches a preemption that frees nothing, because the victim's blocks are shared (`scheduler.py:134-136`); in the second a prompt takes the whole pool; in the third prompts take several steps, compete for the pool, and one never fits. |
| `engine_cache` | 3 sequences, 4 blocks, budget 3, 2 output tokens, stop tokens, prompts of 2, 3 or 5 tokens, `MaxModelLen` 8, `CleanSpec` | Every position attends to its own tokens, every token counted as computed is in the cache, no slot has two writers, a block that is hashed but not filled belongs to a live prefill, what is scheduled can be run, the scheduler forgets what has ended, and the engine implements `Lifecycle`. A prompt that fills its block makes its first decode need a slot. |
| `engine_live` | 2 sequences, 8 blocks, which hold both | Every stream ends; the wake-up is never lost. |
| `server` | 1 request with a limit of 1 or 3 tokens, 1 watcher, buffer of 2, 5 events (`MaxEvents`) | Streams end once, after an abort or a dead loop, too; a slow watcher loses the oldest events only; no handler that ends by itself or is cancelled at a read leaves its request running; every handler ends once its request has; watchers past the snapshot are unsubscribed. Five events overflow the buffer of two before and after a read. Handlers share nothing with each other but the events, so one of each is enough. |
| `page` | 1 request of 76 kinds (`params` and `prompt`): drawing one token from every row of weights 0-3 over three tokens with every top-k and top-p in quarters; or up to 4 sure tokens with `max_tokens` 0, 2 or 4, `ignore_eos` and a stop token; or, watched by a visitor, 3 equal tokens; `MaxModelLen` 5, `MaxStrays` 1 | All of the nucleus can be drawn, and nothing beyond it where the heaviest token leaves room for a second; limits and stop tokens end the stream as `Lifecycle` has it; the text sent is the text decoded, but for placeholders; a live page shows what has come both ways and stays live; one `Replayer` shows the tape up to where it is, whatever is pressed. Three tokens have a first, a boundary and a token behind it; three weights have ties and gaps; three items are enough for a chunk to overtake an event and be overtaken. |

The queues, budgets and tables are checked in the engine's loop, which takes the same
scheduling steps (`ScheduleStep`) and lets more happen between them. `SchedulerSpec`, the
scheduler without an engine, is what three of the runs below and `SchedulerProofs` are
about.

All runs of the scheduler have prefix caching on; the proofs cover both settings
(`EnablePrefixCaching \in BOOLEAN`). Without it no block is ever hashed, so every
property about hashes holds trivially and the rest is a special case.

Bounds in the models: `MaxOutput` limits the output of each sequence of `Scheduler`
and `Engine` (`max_tokens`, the same for all), the prompt sets limit lengths, the
number of sequences limits requests: a sequence is requested once. `MaxEvents` ends
the behaviours of `Server`, whose clients have no other limit. `MaxWeight` and
`Logits` bound what the network computes in `Generation`, `Watched` the requests a
visitor comes for, and `MaxStrays` the timers beside the named one (a second press of
Restart and Resume only adds another of the same). Nothing else is cut: there is no
bound on steps, preemptions or restarts.

Deadlock checking is off where the system may stop: the engine after shutdown, the
caller after an `IndexError`, the server when every client has been served and no
events are left, the page when nothing is left to show.

### Where the code and its comments disagree

Each of these runs finds a behaviour that contradicts the comment its finding in
`PROJECT.json` quotes.

| Run | Property | What happens |
|---|---|---|
| `engine_hits` | `ComputedIsInCache` | `admit` counts hits after a miss as cached prefix (`block_manager.py:182-189`); when the first block of a cached prompt was evicted and its second was not, the tokens of the missed block count as computed and are never run. |
| `scheduled_twice` | `OneItemEach` | Phase 2 preempts a sequence phase 1 has scheduled, and schedules it again (`scheduler.py:156`). |
| `abort_in_prefill` | `AbortedHoldNothing` | An abort in mid-prefill keeps its blocks (`scheduler.py:62-69`). |
| `engine_abort` | `LoopSurvives` | An abort while the executor runs ends the run loop with an `IndexError` (`engine.py:293`, `block_manager.py:254`). |
| `sampler_top_p` | `NothingBeyondTopP` | The second place of the ranking is never dropped, because `drop[0]` is cleared before the roll and again after it (`sampler.py:42-44`): the token behind the heaviest can be drawn although that one alone exceeds top-p, which the comment of lines 39-40 rules out. |
| `resample` | `SampledAtTheEnd` | A preempted sequence keeps its output, recomputes its prompt only, and samples the token after the prompt again (`scheduler.py:94`, `166`). |

The first three rows spoil more than they say. A sequence scheduled twice has its
positions counted twice, attends to slots no one wrote for it and may end its
stream twice. The blocks of an aborted prefill stay hashed, filled or not; a later
request with that prefix hits them, and enough of them starve a preempted sequence
for good. With `EngineSpec` in place of `CleanSpec`, `engine_cache` finds these for
`ContextIsOwn`, `ComputedIsInCache`, `EndedLeaveTheQueues` and `ImplementsLifecycle`:
a sequence scheduled twice may finish while it is in `waiting`, where `engine.py:347`
does not look for it, and the scheduler then runs it once more after its end.
`UntouchedItemsFit` fails, too, in larger pools (blocks of 4, prompts of 5 and 7
tokens): a sequence scheduled three times in one step counts every token it has as
computed, and its next decode has no token to run (`model_runner.py` raises).

`CleanSpec` is the engine restricted to steps without those three causes (a hit
behind a miss, a sequence scheduled twice, an abort in mid-prefill).
`engine_cache` uses it to ask whether these are the only ways to spoil the cache,
and in its bounds they are. All other passing runs use the unrestricted
specifications.

One thing looks like a fault and is none: blocks are hashed at admission, before
their K and V exist, although the comment at `engine.py:332-333` says otherwise. It
is harmless, because prefill is first come, first served and a step writes before
it reads (`UnwrittenIsBeingPrefilled`, `ContextIsOwn`).

The models also contain some behaviour that no comment of the repository speaks
against, and that the properties therefore allow by name:

* `max_tokens` 0 yields one token (`AnswerLimit`).
* The first piece of text contains the prompt's, because `_prev_text_len` starts at
  0 and the whole sequence is decoded; a character completed by a later token stays
  a placeholder in what was sent (`SentIsTextOrPlaceholder`).
* The page appends both the chunks of its own request and the deltas of the events
  to one text, which is then shown doubled (`LivePageLosesNothing` allows twice).
* A response dropped at a `yield` leaves its request running (`Dropped`), a
  watcher dropped before its snapshot stays subscribed (`ClosedEarly`).

Two behaviours of the page do contradict what is written about it. `DemoPage` has them
as transitions, and no run of their own. `?mode=live` forces nothing: it connects as
without it, and falls back to the recording all the same (`Visit`, `FallBack`), where
`app.js:12-13` and the README, line 162, say "Force a mode". And on a static host
`connectLive` falls back at once and again after two seconds; two Replayers then run
side by side and each event is handled twice (`Loaded`), which is not the "original
timing" of `app.js:8`. `ReplayFollowsTheTape` therefore speaks of one Replayer.

### Fairness

`PoolSpec`, `SchedulerSpec`, `EngineSpec` assume weak fairness of the next step of
the running call or loop only: it is one task of the event loop, and a forward
pass ends. Nothing is assumed of clients, of shutdown, or of the one-second
timeout of the wait (`WaitTimeout`), so `StreamsEnd` shows that the loop does not
need it. `ServerSpec` assumes it of each handler and each watcher:
they are tasks of the same loop, and a watcher without events goes on after 15
seconds (`KeepAlive`); not of the engine, of clients, or of cancellation.
`StreamsEnd` excuses an engine that is being shut down or whose loop has
ended. With a pool too small for all requests, a request need not end: a victim
restarts from nothing, which may happen again and again. The liveness run
therefore uses a pool that holds everything, and no more is claimed; of a small
pool, `StarvedByThePool` says that the scheduler is stuck only on a prompt larger
than the pool, or on blocks that aborted prefills leaked.

## What is proved

All statements are for arbitrary constants, from the assumptions the modules name:
`PromptsAssumption` (prompts are not empty: `engine.py:140`), `BlockConstants` and
`SchedulerConstants` (`config.py:32`, the token budget is at least a block),
`EngineConstants` (stop tokens are tokens, `MaxModelLen` is a number),
`LimitsAssumption` (a limit is at least one token) and `ServerConstants` (a buffer holds at
least one event), `SamplerConstants` and `GenerationConstants` (the vocabulary is
finite, a prompt is shorter than the model's context), `DemoPageConstants`. TLC evaluates these in every
run that extends the module. Prefix caching may be on or off; only
`NobodyStarvesUncached` is about a server without it (`enable_prefix_caching = False`).

**QueueProofs**: what `Append`, `Tail`, `Front`, `<<x>> \o q` and `Without` do to
membership, to the absence of duplicates and to what comes before what (`Precedes`); that a set of naturals has a least element,
and what `FlattenSeq` makes of a sequence that is one longer. The least element takes the
place of induction everywhere: the library's induction theorems cannot be used, but the
least counterexample can be picked, which stays first-order.

**BlockManagerProofs**: `PoolSpec => []PoolInv`. The invariant joins

* the types;
* `RefCountsExact`, `FreeLists...` and `CacheOK`, which need each other:
  `_share` is right only if a cached block with no reference is in
  `_free_cached`, and `_release` only if the count was exact;
* `HashNamesContent` together with what the loop locals of `admit` and
  `register_filled_blocks` mean (`prev_hash` is the hash of the tokens before
  block `i`, the table has `i` entries): without it the chain could be continued
  from a hash that is not this sequence's;
* that an unhashed block has one holder, from which `SharedBlocksAgree` follows;
* that `admit` has enough free blocks left for the rest of the prompt
  (`AdmitNeverRunsDry`): each iteration consumes at most one, a hit too.

Ten theorems name the checked properties one by one, two of them action
properties (`EvictOnlyWhenDry`, `HeldHashIsStable`).

**SchedulerProofs**: `SchedulerSpec => []SchedulerInv`, which is `PoolInv` and

* the queues have no duplicates, are disjoint, and the status of a sequence says
  which one it is in;
* the sequence at the head of `rest` or `todo` is what the step says it is, and a
  sequence being freed has left `running` already;
* `active` is at least the length of `running` and at most `MaxNumSeqs` in phase 2;
* a sequence that is prefilling or running has a table that covers its prompt, one
  that is not admitted has none, except in the middle of `admit` or `free`.

`BlockManager`'s own invariant is preserved because each scheduler action is a call
of `PoolSpec` or leaves the pool alone. From it follow `LiveRequestsAreQueued`,
`RunningWithinLimit`, `ChunkIsCovered` (the `except` branch at
`scheduler.py:180-187` is dead code), `BlocksFollowStatus`, `RefCountsExact`
and `AdmitNeverRunsDry`. They hold although the scheduler may schedule a sequence
twice or leak blocks: those faults leave the accounting exact.

A second invariant, `StepInv`, follows one `schedule()`: the tokens of the items and
`budget` add up to `MaxNumBatchedTokens`, and in phase 1 the scheduled sequences come
before those in `todo` in `running`. Hence `TokensWithinBudget`, and
`DecodeKeepsItsSchedule`: a victim is the last of `running`, so phase 1 never preempts
what it has scheduled.

**ServerProofs**: `LifeInv` adds to the types and `StreamsEndOnce` that a known
request of `Lifecycle` has fewer items than its limit; then one more item is never one
too many. With it the action property `EndedStreamsStay`. The engine side of the server takes steps of `LifeNext` or leaves
`lifeVars` alone (`ServerUsesLifecycle`), so `LifeInv` carries over. `ServerInv` adds
what the awaits know: a handler takes no more items than there are; what a watcher has
seen comes before what is in its buffer, both in order; each event since its
subscription is in one of them, or older than the buffer is long. Hence
`EndedMeansUnknown` and `LatestEventsArrive`, for any number of requests, watchers and
events, under every disconnection and cancellation.

**EngineProofs**: `EngineSpec => []EngineInv`. The scheduler's invariant is carried to
the engine, which runs the same scheduling steps but lets requests in at its awaits:
a sequence may be aborted, and its blocks freed, while its item is in the
executor. `EngineInv` is `PoolInv`, the queue part of `SchedulerInv`, and what the
four loops after a forward know: which sequences `rest`, `finishedNow` and `toFree`
name, that what is to be freed is finished and listed once, and that a sequence with a
call in progress is the loop's current one. Hence the types, `KnownIsQueued`,
`RunningWithinLimit`, and the exactness of counts and free lists, without any
restriction on the steps.

In `schedule()` `EngineInv` is the scheduler's invariant (`ScheduleInv`), and a step of the
one a step of the other (`ScheduleIsScheduler`); so what `SchedulerProofs` shows of the
scheduler alone holds in the engine, too: `LiveRequestsAreQueued`, `ChunkIsCovered`,
`BlocksFollowStatus`, `TokensWithinBudget` and `DecodeKeepsItsSchedule`.

Then, under `OnceSpec` (`EngineSpec` restricted to steps that schedule no
sequence twice, `OneItemEach`; `CleanSpec` implies it), `OnceInv` says of every
sequence how far it is: a running one is past its prompt and has one token to run that
has its slot, or is about to get its next one; an item of the step that has not been
preempted since can be run. Each of the phases (scheduled, in the executor, counted,
sampled, applied) needs its own form, because `numComputed` and `output` move at
different times. Hence `UntouchedItemsFit` and `EndedLeaveTheQueues`. Without the
restriction both are false (see "Where the code and its comments disagree").

Last, without the prefix cache, that the sequences in `waiting` never keep each other
from their blocks (`NobodyStarvesUncached: EngineSpec => []StarvedByThePool`).
`running` followed by `waiting` keeps one order: a new request goes to its end, a victim,
the last of `running`, to the front of `waiting`, and the head of `waiting` to the end of
`running`; so nobody is ever put before a sequence in front of it. `OrderFits`: a sequence
in `waiting` that holds blocks fits into the pool together with all that come before it,
and has no more blocks than its prompt needs. It held when the sequence was admitted,
because those in front of it had their blocks then, and what is in front of it only gets
less. When a step comes to nothing with nothing running, the head of `waiting` holds no
block; the last in `waiting` that holds some fits together with everybody before it, the
head among them, so the free blocks are enough for the head unless its prompt alone
exceeds the pool (`HeadFits`). "Fits" is a one-to-one map from the wanted blocks to
those of the pool, so that no set has to be counted.

**RefinementProofs**: `OnceSpec => ImplementsLifecycle`, the refinement mapping of
`Engine` step by step. `LifeInv` of this module ties a request's stream to its sequence:
`RequestsOK` and `ServedOK` say who may still get an item, `SentOK` how many tokens are
sent and owed while the loops of a step run, `FinishOK` that a finished sequence's next
item is its last and carries the reason its length and tokens amount to. Abort, each
`EmitItem`, and the end of the task are steps of `Lifecycle`; all others stutter.

The second half, for the unrestricted `EngineSpec`, proves `StreamIsOutput`. Its
invariant `OutputInv` holds at every step: the output of `s` is the concatenation of its
stream followed by as many copies of its new token as `s` has items whose token is
applied but not sent. A sequence that is scheduled twice gets its token twice, in the
output and on the stream alike, so the two agree in spite of that fault.

**CacheProofs**: under `CleanSpec`, that the cache serves each sequence its own tokens.
Three parts, each resting on the one before:

* *Who writes a shared block.* `WriterInv` adds to `OnceInv` that of two holders of a
  block all but one had it cached when they were admitted (`WriterOK`), and that nothing
  before `num_cached_prefix` is written again (`StartOK`). It rests on two facts about
  `admit`: a fresh block goes to the end of one table only, and a hit is for a block of
  the cached prefix, since no hit follows a miss (`CleanStep`; with such a hit the
  property fails). Hence `OneWriterPerSlot`.
* *Who may find a block that is hashed and not yet written.* `admit` hashes the blocks
  of a prompt before they are computed (`block_manager.py`), so a hit could be for a
  block that holds nothing. `AheadOK`: no sequence in front of another would find, by
  its own prompt, a block that the other has still to write. It needs that the order of
  `waiting` is the order of admission (`AdmitsHead`), that the full blocks of an admitted
  prompt are hashed (`HashedOK`), and that `register_filled_blocks` hashes only what is
  computed (`RegisterDue`).
* *What the slots hold.* `ReachOK`: a position that a sequence counts on (`Reach`) leads
  to a slot with the K and V of its prefix. `HashOK`: a block holds what its hash names,
  or a sequence in prefill will come to it (`Unwritten`). The scheduler counts on blocks
  that a step will write before the executor has run, so what the plan will write counts
  as held (`Holds`, `WillWrite`); a plan that lost an item to a preemption in phase 2
  promises nothing (`Sound`), and never reaches the executor under `CleanSpec`. `InputOK`
  follows the batch through the executor. Hence `ContextIsOwn`, `ComputedIsInCache` and
  `UnwrittenIsBeingPrefilled`.

Every part of these invariants was checked by TLC before it was proved, those of the
content of the cache by simulation of `CleanSpec` with four sequences and five blocks.

**GenerationProofs**, in four parts:

* *What may be drawn.* `Weight` sums in an order `CHOOSE` leaves open; `WeightIs` shows
  that it counts the units of a set (a token `t` has `row[t]` of them), so that it is
  monotone, whatever the order. `KthValueIs` and `RankingExists` show that what the code
  takes for granted is there: a k-th value, and a sorted permutation. `TopKKeeps` and
  `TopPKeeps` say when a token stays, by what is heavier and by what is before it in the
  permutation. Hence `NucleusIsDrawn`, for every vocabulary, row, `top_k` and `top_p`,
  and every order of equal weights. What is drawn has one token before it that is heavier,
  or is left room (`DrawsAreKept`); where the one is the heaviest and leaves room itself
  (`OneHeavier`), the two are the same.
* *The request.* `GenerationInv` says that a step is under way only for a request that is
  known or was aborted, and that a known one has an item for each token. With it every
  step of `Generation` is one of `Lifecycle` or a stutter, under the mapping by which
  `Generation` instantiates it (`GenerationImplementsLifecycle`).
* *The text.* `FoldLeft` is a function on all sets of places, which `FoldExists` and
  `FoldsAgree` show to exist and to be unique; hence one token more is one step more
  (`FoldsOneMore`). `TextOK`: what was sent is as long as the text so far and matches it;
  a later token only completes placeholders (`DecodeOneMore`). Hence `SentIsTextOrPlaceholder`.
* *The page.* `PageOK`: a page that is live has no Replayer and stays live. `EventsOK`:
  "request" comes first, and the steps tell of the items in order. `LiveOK`: what came as
  a chunk is shown in order, or what came as an event is (which of the two depends on
  what cleared the text last), and nothing is shown more often than it came. `ReplayOK`:
  one Replayer shows the fold of what it has played. Each button and timer is one of three
  turns: the Replayer stays, goes back to the beginning, or goes on by one event
  (`ReplayTurns`). Hence `LivePageLosesNothing` and `ReplayFollowsTheTape`. What holds of
  `GenerationSpec` holds of `DemoSpec` (`DemoIsGeneration`).

**Only model-checked**, and why:

* all liveness (`StreamsEnd`, `HandlersEnd` and the like): beyond the prover;
* `StarvedByThePool` with the prefix cache on. A sequence in front may then hold fewer
  blocks of its own than it needs when it is admitted again: it does not share the last
  block of an aligned prompt any more (`cap_full`), and a block it shared may have been
  evicted. "All in front fit together" is no longer preserved, and that the sequences
  behind still leave room depends on how the token budget spreads a prompt over the
  steps. TLC checks it with the cache on (`MCEngineMixed.cfg`).

## What is not modelled

The arithmetic of the network, weights and several layers (they use the same slots,
one after the other); the tokenizer but for what decoding does to halves of a
character and to special tokens; time; hash collisions; the draw of `multinomial`
and its seed (the generator is made anew from the seed at every step,
`engine.py:313-317`, so a seeded request repeats its draws: any allowed token may be
drawn here); the counters `prefix_cache_hits` and `_lookups`, `newly_admitted`,
`total_tokens`, `snapshot()`, which only report; a client-chosen `request_id`, which
no handler passes on; `emit_events = False` and errors of the recording; `startup`,
which runs before any handler; what the page draws from a snapshot, its log and its
"run locally" hints. `examples/`, `scripts/`, `web/*.html`, `web/*.css`, the
Dockerfile and the workflows hold none of the system's logic.

## Plan

The parts of the system that have logic of their own are modelled, and every invariant
the runs check is proved, `StarvedByThePool` only for a server without the prefix
cache. What is left is that one with the cache.
