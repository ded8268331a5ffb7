# GilJobE in TLA+

GilJobE watches the answer of a candidate in a mock interview over LiveKit and
turns it into a stream of records: every 3 s a nonverbal reading and a transcript,
every 16 s a full evaluation, and at the end of the answer one `turn_end` with
the whole transcript and an evaluation of the last stretch. The models behind it
answer late, out of order, or not at all, while the media themselves come late;
what this project specifies and checks is that no stretch of the answer is lost,
doubled or recorded under the wrong heading on the way.

Paths below are relative to `src/giljobe/`.

## 1. Inventory

| Component | State | Operations | Hard about it |
|---|---|---|---|
| Turn windower, internal mode (`pipeline/windowing.py`) | media buffers, two grid counters, starved windows, covered prefix, transcripts, tracked futures, `_closed` | `add_frame`, `add_audio`, `poll`, workers `_do_nv`/`_do_stt`/`_do_eval`/`_do_tail`, `end_turn`, `close` | event loop, seven worker threads and the `end_turn` thread under four locks; late media, failing and hanging calls, a deadline |
| Sentence lane, external mode (`pipeline/sentences.py`, `windowing.py`) | pending deltas by item, start of the running utterance, VAD stop; evaluation anchor | `ingest`, `tick`, `flush`, sentence-aligned evaluations | events out of order with the media, a timeout that races the final text |
| Window assembly (`media/window_assembly.py`) | none | clip and encode the media of a window | sliding caps: the latest 16 s of video, 30 s of audio |
| Signal recorder and sinks (`emit/sink.py`, `models/records.py`) | half-paired windows; SSE subscribers | `on_signal` (pair, merge, sweep), fan-out | completion order, partners that come after the sweep |
| Room subscriber (`server/subscriber.py`) | signal queue, poll/drain/consume tasks, subscribed tracks, clock origin | `start`, `connect`, `_on_track`, poll and drain loops, `aclose` with `_flush_queue` | worker-to-loop hand-over, cancellation in every `await` of `aclose` |
| Analysis service (`server/service.py`) | active and last session, lifecycle lock | `start`, `stop`, `signals`, `ingest_realtime_event` | concurrent, failed and cancelled starts and stops |
| Vision grounding (`analysis/grounding.py`) | rows per lane, pending counts, epoch, timestamps | `add_frame`, three detector lanes, `window_metrics`, `reset`, `close` | back-pressure, results in flight over a reset, monotone timestamps |
| Track ingestion (`media/ingest.py`) | throttle, audio clock | consume video and audio | two clocks: the audio's own and the poll's |
| Hand-off (`emit/handoff.py`) | none | aggregate records into one interviewer hand-off | missing lanes |
| Critic and transcribers (`analysis/critic.py`, `transcriber.py`) | none | one model call per window, JSON repair, clamping | answers that are cut off or of the wrong types |
| Prosody (`analysis/prosody.py`) | none | silences, rate, pitch and energy from contours | windows with too little sound |
| Model client (`llm/`) | none | HTTP; a stream of deltas | lines that are none |
| HTTP server, configuration (`server/http_app.py`, `app.py`, `__main__.py`, `config.py`, `token.py`) | none of their own | requests onto the service; environment to lanes, grids, tokens | settings that contradict one another |
| Mocks (`analysis/mocks.py`), scripts (`.dev/`) | - | stand-ins, harnesses and measurements beside the program | - |

How they interact. LiveKit tracks are consumed on the event loop into the
windower's buffers. The subscriber's poll task calls `poll` every so often; due
windows are cut under `_lock` and submitted to pools outside it. A worker calls
the critic, stores its result (`_tx_lock` for transcripts, `_lock` for the
coverage), and emits: `_closed` is checked under `_out_lock`, and then `on_signal`
runs outside it, which is `call_soon_threadsafe(queue.put_nowait, sig)`. The drain
task hands the queue to the recorder on the loop, and the recorder to the sinks.
`aclose` cancels the poll task, runs `end_turn` on a thread, cancels the drain
task, flushes what is left in the queue, and closes the windower.

What makes each component correct:

* windower: every stretch goes to each lane at most once; none is given up
  because its frames were late; nv and stt windows coincide; the coverage never
  skips a gap, and the tail starts at or before it; `end_turn` returns, and its
  `TurnEnd` comes after, and contains, everything that was not late.
* recorder and subscriber: one window, one record; nothing timely is missing in
  front of the `turn_end`; the `turn_end` arrives unless `aclose` is cancelled.
* sentence lane: every delta goes out once, sentences follow one another and lie
  where they were spoken, and evaluations cut between them and miss nothing.
* service: one live session, none without an owner, the last answer readable,
  every request answered, nothing left running after the cleanup.
* grounding: pending counts return to 0, no row crosses a reset, timestamps grow.
* sinks: every record reaches every sink that works, in one order.
* measures, hand-off, parsing, ingestion, configuration: the functions keep what
  they aggregate, cut, repair, resample or choose.

The hazards, each with its line and the properties aimed at it, are in
`PROJECT.json` under `hazards`.

## 2. Modules

| Module | Models |
|---|---|
| `TurnWindower` | one turn of the windower, internal mode, eval grid "wall" or "off" |
| `SignalRecorder` | the recorder: pairing slots and the sequence of records |
| `TurnPipeline` | `TurnWindower` + `SignalRecorder` + the bridge queue, poll and drain tasks and `aclose` of the subscriber |
| `TurnLog` | abstract: what a consumer of the records may rely on |
| `AnalysisService` | the HTTP handlers, the service with its lifecycle lock, and the life of the subscribers it builds |
| `SentenceLane` | external mode: the sentence tracker, sentence submission and sentence evaluations |
| `DenseLane` | the threads of the vision grounder: back-pressure, epochs, timestamps, close |
| `Sinks` | the fan-out to JSONL, memory and SSE sinks |
| `Grounding`, `Prosody`, `Fractions` | rows and their aggregates, contours and what is made of them, exact fractions |
| `Handoff` | records of a turn to one hand-off, highlights, prompt block and fragment, payload |
| `ModelCalls` | repair, parsing and clamping of answers, fall-back transcriber, SSE deltas |
| `Ingest`, `SentenceMedia` | throttle and media clocks; what the media of a sentence become |
| `Startup` | environment to service |
| `Measures` | the properties of these functions over all inputs of a kind |
| `MCTurnWindower`, `MCTurnPipeline`, `MCAnalysisService`, `MCSentenceLane`, `MCMeasures` | TLC instances (with the `.cfg` files) |
| `TurnWindower_proofs` | proofs of all safety properties of `TurnWindower` |
| `TurnPipeline_proofs` | the pipeline implements the windower, and the record stream is a `TurnLog` |
| `SentenceLane_proofs`, `SentenceWhole_proofs` | the sentence lane: order and deltas; evaluations, transcript and place of the sentences |
| `AnalysisService_proofs`, `DenseLane_proofs`, `Sinks_proofs` | the invariants of those modules |
| `Measures_proofs` | what the functions give for inputs of every length: media, settings, answers, the hand-off, the pauses of a turn |

### TurnWindower

The media time line is `0..MaxT` in abstract units. `frames` are the times of the
frames that have come, in any order and late; audio is gapless, so its buffer is
one number, `audioEnd`, which may lag behind the clock `now`. A window is a
record of its lane, span and the end of the audio it was cut with; a lane submits
a span at most once, so the window itself names the future. `at` holds the phase
of each submitted window.

| Code | Action |
|---|---|
| `poll`, under `_lock` / its submits | `PollCut` / `PollSubmit` |
| a model call raises | `InferRaises` |
| `_do_nv`, `_do_stt`, `_do_eval`, `_do_tail` up to `_emit` | `NvReturns`, `SttReturns`, `EvalReturns`, `TailReturns` |
| `_emit`: the `_closed` check / `on_signal` | `EmitCheck`, `EmitStored` / `EmitBridge` |
| `end_turn`: cut under `_lock` / submits and wait set | `EndCut` / `EndSubmit`, `EndSubmitRaises` |
| `wait` returns / times out | `EndWait` / `EndDeadline` |
| join under `_tx_lock` / tail result and `_emit` | `EndJoin` / `EndEmit`, `EndBridge` |
| `close` | `Close` |

A worker pool is not modelled as such: how long a window waits for a worker is
part of how long its call takes, which is open, so every order of completion the
pools allow is among the behaviours. One submit loop is one step: the tasks it
hands over run at unconstrained times afterwards. `poll` may be called by several
threads (`Pollers`), as its docstring promises; the service has one.

### SignalRecorder, TurnPipeline and TurnLog

The recorder finds the slot of a signal by the middle of its window, as the code
does; a signal of another span with the same middle would be paired wrongly in
the model too. `TurnPipeline` adds the queue to the step that calls `on_signal`
(`Deliver`, `EndTurnDelivers`), the drain task, the flush, and two ends: `SubClose`
and `SubAbort`, a cancelled `aclose`, after which the drain task lives on
(`aborted`) if `end_turn` was still running. A put scheduled with
`call_soon_threadsafe` counts as in the queue: the loop runs those callbacks in
order, and the one of the `TurnEnd` before `aclose` resumes. In this composition
`poll` runs on the loop, so nothing else of the loop runs between `PollCut` and
`PollSubmit`.

`TurnLog` is the contract of the record stream: records are only appended, each
window has at most one window record, with both lanes, or with one lane and then
only in the sorted block directly in front of the `turn_end`; each evaluation has
at most one record; there is at most one `turn_end`. `RecordsAreATurnLog` is the
refinement, with `log` mapped to itself.

### AnalysisService

A start request stands for the subscriber and session it builds. One event loop
runs everything, so a step is what happens between two awaits. `lockq` is the
`asyncio.Lock`: its holder and, in order, its waiters.

| Code | Action |
|---|---|
| a request / a bad body | `Arrive` / `Refuse` |
| `_start_locked`, `_stop_locked` up to the first await | `Enter` (`Build`, `BeginStop`) |
| `end_turn` on its thread is over | `EndTurnOver` |
| `aclose` cancels the drain task / `close()` and the consumers after the flush / its return | `StopDrain` / `CloseSync` / `EndStop`, `EndClean` |
| `connect` returns / raises | `Joined` / `ConnectFailed` |
| `CancelledError` at an await | `Cancel` (`CancelWaiting`, `CancelConnect`, `CancelClose`) |
| `track_subscribed` / a consumer ends | `TrackSubscribed` / `ConsumeDone` |
| `on_cleanup` | `CleanUp` |

A handler is cancelled by the server's shutdown, or by a caller that gives up. A
start that is cancelled in `connect` leaves its subscriber running, since
`except Exception` does not catch `CancelledError`: these are the `Orphans`, which
the properties except and name. `jobs` is what else a subscriber has running: the
drain task from its start on, the thread of `end_turn` from the `aclose` on. An
`aclose` that is cancelled while it awaits that thread closes the windower, but
neither stops the thread, which ends by itself, nor cancels the drain task, which
nobody does any more: `cut` has these subscribers, and `CleanAfterShutdown` and
`OneSubscriber` name them as their other exception. What `end_turn` and the flush do
is in `TurnPipeline`; here they end, as `EndTurnReturns` has it.

### SentenceLane

A text is the set of the deltas it is made of, or the utterance whose whole
transcript it is. Events (`Speak`, `Stop`, `Accumulate`, `Complete`) come once, late
or never (`Lose`), with or without their item id; `TimeoutTick` is `tick`, called by
`poll`; `EndTurn` is `flush` with the tail. Where `_snap_to_pause` moves a boundary,
and where `split_sentences` cuts a text, is a choice within what they can do; a
piece may be rounded to no length. Sentence evaluations and the tail are only
submitted if there are frames and audio for them; those that are not are kept as
"gated". As the buffers only grow, the tail can only be gated if no window within
it was submitted (`HadMedia`). `Overtaken` says whether an utterance may begin
before the last one's `completed` has come: the run that allows it is the one
that refutes `SpokenThere`.

### DenseLane and Sinks

Each lane is a queue, a thread and the detector only that thread uses. A detection
has two steps behind its start: the `finally` that counts it down, and `_append`,
so a reset may fall in between. `reset` is two steps, as it moves the time base
outside the lock. In `Sinks`, workers interleave between the sinks and between
the callbacks of a stream; listeners come, break and leave at any point.

### The functions

`Grounding`, `Prosody`, `Handoff`, `ModelCalls`, `Ingest`, `SentenceMedia` and `Startup`
are operators. Numbers that the code rounds to a few decimals are exact fractions
(`Fractions`), except the detection ratio, whose rounding decides what is weighed
and is kept. What is written about a window is the set of the statements made.
`Measures` lets an input of one kind (the frames of a turn with its cuts, a
contour, records, an answer token by token, settings) grow item by item
and states what the functions must make of it.

An answer is its brackets, colons, commas, quotes and backslashes, "." for a piece of
a number or a word that is none yet (`-`, `0.`, `tru`), "u" for the beginning of an
escape of several characters, and "x" for what makes either whole, or a character of
a string. The parser is as strict as `json.loads`. Building the hand-off may raise:
`PromptBlock` says whether `describe_visual` does, and `Build` and `Payload` then are
`BuildRaised`.

## 3. What the runs show

| Run | Instance | Properties |
|---|---|---|
| `windows` | 2 pollers, windows of 2 units, time line of 4, frames at 0 and 2 late or never, audio lagging, nv and stt calls fail or stall, early close | `TypeOK`, `WindowsOnce`, `WindowsPaired`, `StarvedOrRead`, `TurnEndIsLast`, `TranscriptWhole` |
| `coverage` | three evaluation windows over 6 units, some without frames, any of them failing, plus the tail; one nv window too wide to close | `CoveredPrefix`, `TailMeetsCoverage` |
| `records` | 2 nv/stt windows (one trailing), every stall, cancelled `aclose` | `PipelineTypeOK`, `TimelyRecorded`, `RecordsAreATurnLog` |
| `delivery` | one window, one full evaluation, tail; failing and hanging calls; fairness | `RecordsAreATurnLog`, `TurnEndDelivered`, `CatchUpHappens`, `EndTurnReturns` |
| `requests` | three starts, a stop, the cleanup, two session ids, a track; one start and the stop cancelled at any await; fairness | `ServiceTypeOK`, `OneSubscriber`, `EventsReachOpen`, `NoOrphanConsumer`, `LatestReadable`, `CleanAfterShutdown`, `RequestsEnd` |
| `sentences` | two utterances with a delta each, in up to two pieces, a snap of one unit, timeouts and lost events | `SentencesInOrder`, `DeltasOnce`, `TranscriptHasAll`, `EvaluationsWhole`, `SpokenThere` |
| `measures` | `DenseLane`: two lanes, four frames, backlog 2, a reset and a close, fairness; `Sinks`: two workers, two listeners; the functions on every input up to a length | `PendingExact`, `SheddingEnds`, `RowsOfThisTurn`, `RowsInOrder`, `MsGrows`, `DetectorsOpen`, `StreamsKept`, `VisualAddsUp`, `PausesAddUp`, `HandoffFaithful`, `AnswersSaved`, `MediaKept`, `StartsWhole` |
| `hole`, `caughtup`, `lastrecord`, `overtaken`, `shape` | the smallest instance of each | the five violated statements below |

In `measures` the kind of input is chosen first: the dense lanes run under the kind
"lanes", the sinks under "sinks", and under every other kind one input grows. The
three share a run and nothing else.

Bounds: `MaxT` (length of the turn) and `FrameTimes` (when the camera delivers).
Two closed windows and a trailing one are enough for every pair of neighbours,
for a gap between two covered windows there must be three evaluations, and a
larger grid repeats these. The proofs do not depend on the bounds: they hold for
every `MaxT`, window width, set of frame times and set of pollers.

Two utterances meet every way one can leave something to the next (a stale
stop, held deltas, a boundary beyond the clock); three starts are the least with
one that waits while another is being closed for a third. One start and one stop may
be cancelled, so that each await (the lock, `connect`, `aclose` within a start and
within a stop) is, and a request that is not comes before and after. Poses have two
shoulder widths. The function inputs are
long enough for two cuts (three windows), a blink or a segment over a cut, and for
a JSON answer with two open brackets and a string; `MCMaxItems` bounds each kind.

Fairness: the poll, drain and `aclose` steps of the event loop and the `end_turn`
thread run (`PipelineLive`): asyncio and thread scheduling justify weak fairness
of each. Nothing is assumed of a worker: a model call may hang for ever.
`EndDeadline` is part of `end_turn`, since `wait(timeout=...)` does return. In
`ServiceLive` the handlers proceed, which includes that `room.connect` returns or
raises (it has its own time-out) and `room.disconnect` returns. In `DenseLane` each
lane's thread runs, and a detection, which is local, returns or raises. The runs
switch deadlock checking off because the turn, and with it the system, really ends.

Statements of the repository that the code does not keep (each a run that TLC
must find violated):

* `HoleReheard` - the comment in `_do_eval` says that the tail covers a failed
  evaluation again. The tail starts there, but the model call hears only its
  latest 30 s of audio.
* `CaughtUpIsTranscribed` - the comment in `poll` says that a caught-up window
  has been submitted to stt already. It has not if its audio came late as well.
* `TurnEndRecordLast` - tests say that the `turn_end` is always the last record.
  A full evaluation, or a stalled pair, that completes during the flush follows it.
* `SpokenThere`, when utterances overtake - the docstring of `_complete_utterance`
  says that the end is that of the speech if it is known. If the next utterance has
  begun, the boundary has already moved past it, and the sentence is measured where
  its words were not spoken.
* `AggregateHasWindowShape` - the hand-off says that an aggregate has the shape of a
  window. With a single detected pose in each window it holds `None` where they have
  no key, and describing it raises.

## 4. What is proved

For all values of the constants that satisfy the assumptions of their module:
`WindowAssumption` and `LaneAssumption` (positive window widths, natural bounds;
`FrameTimes` on the time line), `ServiceAssumption`, `SentenceAssumption`,
`DenseAssumption`; `IngestAssumption`, `CapsAssumption`, `AnswerAssumption`,
`HandoffAssumption`, `ProsodyAssumption` and `ItemsAssumption` for the functions (positive
intervals, rates and caps; the shortest silence that counts is no longer than the shortest
pause; what the items of an input are: of a record, that speech that was measured
has some phonation, that frames are counted, and that a face that was seen was
measured, which does not hold of a body); `Sinks` has none, and the one theorem with further
hypotheses, `SpokenCorrect`, names them:

* `TypeCorrect`: `TypeOK` with `EvalInv`. The types alone are not inductive:
  `covered' = FirstGap(...)` is a `CHOOSE`, and a gap exists only because every
  evaluation done lies before `nextEval`, which is what `EvalInv` says.
* `SpansCorrect`, `PairedCorrect`: `SpanInv` puts every nv and stt window on the
  grid before `nextNv`, or makes it the trailing window; two such windows that
  overlap are equal (`OverlapSame`).
* `OnceInvCorrect`, `OnceCorrect`: a window about to be cut ends at or after the
  counter, all known ones before it (`SpanInv`, `EvalInv`), a starved one is known
  to nobody (`StarvedInv`), and there is one tail (`TailInv`).
* `StarvedCorrect`: each step of a running turn keeps "cut or starved, not both".
* `CoverCorrect`, `CoveredCorrect`, `TailCorrect`: `evalDone` is exactly the set of
  evaluations that succeeded (`CoverInv`), so `covered` is their gapless prefix, and
  the tail, cut from an earlier value of it, cannot start beyond the first gap.
* `EndInvCorrect`, `TurnEndCorrect`, `WholeCorrect`: after the wait every nv/stt
  window is finished or stalled, and a finished one was sent unless `close` came;
  no `SttReturns` can then add to what was joined.
* `PipelineImplementsWindower`: each step of the pipeline is a step of the
  windower or leaves it alone, so all of this holds of the pipeline as well.
* `PipelineTypeCorrect` from `PipeInv`: the tail evaluation never takes a step towards
  `on_signal` (`TailQuiet`), so the queue holds signals only; a slot has one lane and
  no other slot its window, because a second signal joins the slot it finds
  (`WindowSlots`).
* `TimelyRecordedCorrect`, and `PipelineIsATurnLog`, the refinement: `StreamInv` follows
  every signal that was sent. What is in the queue, in a slot or in a record was
  sent (`OriginInv`), and is in one of these places only (`PlaceInv`); until the
  `turn_end` is recorded a timely signal is in front of it in the queue, in a slot
  or in a record (`TimelyInv`), which rests on the windower's proof that the `TurnEnd`
  follows all that was not late; and the records have the lanes `TurnLog` allows
  (`RecordsOK`). The sweep writes the slots in the order of `t`: the step takes an
  enumeration in that order (`Leftovers`). That a finite set of slots has one, so
  that the step can be taken, is not proved; `TurnEndDelivered` checks it.

* `ServiceTypeCorrect`, `OneSubscriberCorrect`, `EventsCorrect`, `ConsumersCorrect`,
  `ReadableCorrect`, `ShutdownCorrect`, for any sets of requests, sessions and tracks:
  the inductive `ServiceInv` says of each phase what its handler holds (`HandInv`:
  who stops, stops the session answered last, and nothing is active meanwhile), that
  a live subscriber is active, in the hands of a handler, or an orphan (`LiveInv`),
  and that the session answered last is active, being closed or kept (`LastInv`).
  `JobsInv` adds that what a closed subscriber still has running was left by a
  cancelled `aclose`: after the cleanup nothing else is (`ShutdownCorrect`).
  Mutual exclusion is `LockOK`, part of the types: all handlers in flight but the
  head of the queue wait; it is needed in every step, since whoever is past
  "queued" must be the one who holds the lock.
* `PendingCorrect`, `DetectorsCorrect`, `MsCorrect` from `CountInv`: the closing job is
  last in its queue, once, and only while the detector is open (`CloseInv`), so
  counting it out of the queue is exact. `RowsCorrect` and `RowsOrdered` from
  `OrderInv`: the frames of the running turn in a queue are in order and not before
  the one in the detector, and no frame is of a later epoch.
* `SentencesCorrect`, `UncutCorrect` from `OrderInv`: every sentence ends at or before
  the boundary, every call hands over a chain of sentences from the boundary to the
  next one (`EmissionsChain`), and evaluations end where a call ended.
* `DeltasCorrect` from `OnceInv`: a delta is held under one item or said in the
  sentences of one call, and a delta under an utterance's item is one of that
  utterance, so a whole transcript replaces only its own. `HeldInv` makes the next
  delta of an utterance a new one: its number exceeds how many there are.

* `WholeCorrect` of the sentence lane, from `WholeInv`: no two evaluation windows share
  a start and none is empty (`Apart`). `CoveredUntil` follows the judged ones from 0
  (`Reach`, a recursive function that exists by a least counterexample,
  `ReachSteps`); every moment before it is in one of them (`ReachWhole`), and a
  larger set is followed at least as far (`ReachGrows`), as the two runs agree for
  as long as the smaller one goes on. The tail was cut from an earlier value, so it
  cannot begin beyond the first gap, whatever is judged after it. Where the tail is
  gated, what the theorem promises is that no window within it had media either.
* `TranscriptCorrect` from `FullInv` and `OnceInv`: the sentences of a call that have
  length begin at different places, and at or after all that were there, so no
  later text takes a place in `_transcripts` that is in use; after the flush nothing
  is held.
* `SpokenCorrect` from `SpokenInv`, under two hypotheses. `~Overtaken` is the order of
  the speech service; the run `overtaken` refutes the property without it.
  `MinSentence = 1` says that no speech is shorter than the shortest sentence
  (`MIN_SENTENCE_S`, 0.2 s, one unit): shorter ones in a row each push the boundary a
  little further past the speech, which the code does not take back, and TLC finds
  that with three of them. At most one utterance is under way (`Alone`), the boundary
  is no more than a unit past its first moment unless a timeout moved it, and a
  stop that was heard is still the one that `completed` reads.
* `StreamsCorrect` from `SinksInv`: the stream has taken on what has passed the logs
  (`CountInv`); whoever is in a snapshot came before its record, who left is called
  at most with the record it left at, and who broke is in the snapshot or noted as
  long as it is subscribed (`ListenInv`). An append keeps the order of a worker's own
  records and leaves those of the others alone (`KeptNext`, `KeptOther`).

The functions of `Measures`, for inputs of every length (`MeasuresSpec`: the kind is
chosen and the input grows by an item of it). They are written as recursive
functions over the length read so far. That such a function exists, and follows its
step, is `StepsExist`: without it there would be a least length up to which no run
of steps leads. What holds of it is then shown by going up (`UpTo`), again from a
least counterexample.

* `MediaIsKept`: the throttle takes in exactly the frames that are due, by what was
  taken in before (`VideoStates` against the reference `Due` of the property); the
  resampler is always as far behind as its tail, so that after the flush the chunks
  are the samples of the track in order; a sample of every k-th frame is in order,
  within its cap and ends with the latest (`Slice`, `CapFrames`). Of a sentence the
  media are the frames between its bounds, so a channel is missing only where there
  are none or its own lane failed.
* `StartsAreWhole`: the environment is the last value set of each variable
  (`LastOfEach`), and the choice of lanes, grid, transcriber and token is shown
  consistent by cases over those that matter.
* `AnswersAreSaved`: the repair reads an answer with a scanner of its own, so the proof
  runs it beside the parser: `Followed` says that at every character both are
  inside a string at once and that the scanner's stack is the parser's. What the
  repair appends then brings the parser to its end, whether it was in a string,
  behind a comma or in front of a value (`StringClosed`, `CommaDropped`,
  `ValuePutIn`), and conversely nothing can close an answer cut off inside a key, in
  front of its colon, within a number or a word that is none yet, or within an
  escape (`ClosedInVain`): these are `Lost`. The reader takes the longest
  stretch from the first to the last bracket; the text up to the cut is a prefix of
  it (`BeginsIsPrefix`). The ranges of what is read follow from the clamps
  (`ClampedIn`), and the stream of deltas by going up (`DeltasKept`).
* `HandoffIsFaithful`: sorting by ranks is a permutation that keeps the order of equals
  (`Ranked`, `SortedIs`), so the rows are the sentences one to one (`RowsMeasured`), and
  the first of the order by score are the highest, the earlier first (`TopFound`,
  `StandingOut`). The fragment and the block decide by the same keys of the aggregate:
  the rate is there because there is phonation to divide by (`TotalIs`, `RateThere`).
  A key of the aggregate is a value where some measure that is weighed has it, and
  `None` otherwise (`WeightedIs`, `LaneIs`, `AggregateIs`); so the block is refused
  exactly when bodies were seen, each in a single detection (`WristsThere`,
  `SmilesThere`, `RaisesIs`), and with it the hand-off and the payload (`BuildIs`,
  `WatchedIs`, `BuildRaises`).
* `PausesAreAdded`: the runs collected so far are, at every frame, as many as the
  silences that a sounding frame has ended (`RunsSoFar`, `RunsAre`), and the positions
  are those silences with the one at the start (`PositionsAre`). That a window's
  longest pauses are enough for the turn's is counting: a descending sequence is
  determined by how many members are at least x, for every x (`FallingAlike`), a
  sequence cut to its longest has of these as many as there were but for `TopN` (`LongestIs`),
  and so has the sum over the windows (`TotalLesser`, `LongestOfAll`). The rate is the mediant
  of the windows' rates, which lies between them (`Mediant`).

Only model-checked: liveness (`CatchUpHappens`, `EndTurnReturns`, `TurnEndDelivered`,
`RequestsEnd`, `SheddingEnds`), for which the provers have no rules; and `VisualAddsUp`,
whose functions select and fold with the operators of the libraries (`SelectSeq`,
`FoldLeft`), of which the provers have no definition they can use.

## 5. Not modelled, and why

* Rounding of times to floats, and sample-exact audio: the grid is exact here; the
  values the code reports with a few decimals are fractions.
* Media that arrive after `end_turn` has cut its windows: nothing reads them.
* A cancellation of `aclose` before its `end_turn` has begun on the thread.
* `reset` of a used windower, tracker or recorder: the service makes new ones every
  turn. The grounder's own `reset` is modelled (`DenseLane`), as its module promises
  it for a used one.
* A room that disconnects by itself: the code sets a flag and the session stays.
* What the models say, prompts, pixel and sample formats, encodings; MediaPipe and
  Praat, which are external: their rows and contours are the inputs.
* HTTP serialisation, health checks, LiveKit itself: I/O around the modelled parts.
* Mocks, test helpers (`drain`, `wait_idle`) and the scripts under `.dev/`.

What was noticed on the way and is no property:

* `signals()` answers nothing for a session while its `aclose` is awaited
  (`LatestReadable` excepts that stretch).
* A sentence longer than 16 s is shown to the model without its first frames, after
  they were thinned over its whole length (`MediaKept` states that of a longer one the
  latest are shown, and claims the beginning only of a shorter one).
* `silence_run_positions` counts a silence at the beginning of a window, `_silence_runs`
  does not (`PausesAddUp` states both).
* A blink over a cut between windows is counted twice, a gesture over one not at all;
  a window whose rounded detection rate is 0 is left out (`VisualAddsUp`).
* Gestures are counted in shoulder widths, and the width is the mean of each window:
  as someone moves nearer to the camera, a turn has other gestures than its windows
  together (`VisualAddsUp` adds them up for windows of one mean width, `SameWidth`).
* If every body of a turn was seen in a single detection of its sentence, there is no
  hand-off at all and `GET /signals` fails (`HandoffFaithful` names it).
* An `aclose` that is cancelled leaves its drain task and the `end_turn` thread.
* Frames of the last turn still queued at a reset push the timestamps of the new turn
  ahead, so that its first frames are 1 ms apart for the detector (`MsGrows` holds).
* The docstring of `render_prompt_fragment` says that the fragment carries no quotation
  (`emit/handoff.py:302`). A highlight's line is cut at its first dash; if the sentence
  has one of its own, the rest of the quotation is taken for the reasons and carried.
  The model has this (`Requoted`), and `HandoffFaithful` claims nothing of quotations.
* A neutral reading with high intensity is a highlight without a reason.
* A pre-issued `LIVEKIT_TOKEN` is used for every session, whatever its room.
* Unknown values of `TRANSCRIPT_SOURCE` and `EVAL_GRID` fall back silently, one of
  `GILJOBE_STT` stops the start.

## 6. Plan

Done, in this order: `TurnWindower` with its proofs, `SignalRecorder`, `TurnLog`,
`TurnPipeline`; `AnalysisService`; `SentenceLane`; `DenseLane`; the functions and
`Sinks`; proofs of the three stateful modules.

Then the proofs of the record stream, of what the sentence lane leaves out, and of
the sinks: every safety property of a module with steps is a theorem.

Then the functions: ingestion and the media of a sentence, the settings, the repair
and parsing of answers, the hand-off and the pauses of a turn are theorems for inputs of
every length.

Left: the aggregate of what was seen, which is only model-checked; a composition
of `SentenceLane` with the workers of its sentences, which today take a sentence as a
whole.
