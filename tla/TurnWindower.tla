---------------------------- MODULE TurnWindower ----------------------------
(***************************************************************************)
(* The turn windower of giljobe.pipeline.windowing for one turn in the     *)
(* internal transcription mode (transcript_source = "internal").           *)
(*                                                                         *)
(* Video frames and audio are buffered on one media time line.  A poll     *)
(* cuts that line into nonverbal/transcription windows of NvW units and    *)
(* full-evaluation windows of EvalW units and submits one inference per    *)
(* window to a worker pool, the nv, stt and eval lanes.  The end of the    *)
(* turn submits what is left, evaluates the uncovered tail on a lane of    *)
(* its own, waits for nv, stt and tail up to a deadline and emits one      *)
(* TurnEnd.                                                                *)
(*                                                                         *)
(* Threads: the event loop (media arrival and polls), the worker threads   *)
(* of the four lanes, and the thread that runs end_turn.  An action is     *)
(* what a thread does between two points where another thread can          *)
(* interfere: a block under a lock, or the call outside it.                *)
(***************************************************************************)
EXTENDS Integers

CONSTANTS
  NvW,         \* nonverbal_window_s: width of an nv/stt window
  EvalW,       \* eval_window_s: width of a full-evaluation window
  MinTrail,    \* a trailing nv/stt window must be longer than this (0.5 s)
  MinTail,     \* a tail after full evaluations must be longer (1 s)
  EvalOff,     \* eval_grid = "off"
  AudioCap,    \* the latest audio a model call hears of its window (30 s)
  Pollers,     \* threads that may call poll (the service has one)
  FrameTimes,  \* BOUND: media times at which the camera delivers a frame
  MaxT,        \* BOUND: length of the media time line
  FailLanes,   \* lanes whose inference may raise
  MayAbort     \* may aclose be cancelled, closing the windower in mid end_turn?

Lane == {"nv", "stt", "eval", "tail"}
Time == 0..MaxT

ASSUME WindowAssumption ==
  /\ NvW \in Nat \ {0}
  /\ EvalW \in Nat \ {0}
  /\ MinTrail \in Nat
  /\ MinTail \in Nat
  /\ AudioCap \in Nat
  /\ MaxT \in Nat
ASSUME LaneAssumption ==
  /\ FailLanes \subseteq Lane
  /\ FrameTimes \subseteq Time
  /\ EvalOff \in BOOLEAN
  /\ MayAbort \in BOOLEAN

VARIABLES
  now,          \* media clock, in units
  frames,       \* times of the frames in _frames
  audioEnd,     \* _audio holds the chunks 0 .. audioEnd-1: audio is gapless
  nextNv,       \* _next_nv_end
  nextEval,     \* _next_eval_end
  starved,      \* _nv_starved: starts of windows whose frames had not come
  covered,      \* _eval_covered_until
  evalDone,     \* starts in _eval_done_spans
  transcripts,  \* starts in _transcripts
  batch,        \* windows a poll has cut but not submitted yet
  at,           \* phase of every window ever submitted
  closed,       \* _closed
  endPc,        \* where end_turn stands
  endAt,        \* its argument now_s
  endBatch,     \* windows end_turn has cut but not submitted yet
  waitSet,      \* futures it waits for
  stalled,      \* futures unfinished at its deadline
  full,         \* windows joined into transcript_full
  turnEval,     \* the tail evaluation embedded in the TurnEnd, if any
  sent          \* windows whose signal went to on_signal

media == <<now, frames, audioEnd>>
schedule == <<nextNv, nextEval, starved, batch>>
ending == <<endPc, endAt, endBatch, waitSet, stalled, full, turnEval>>
results == <<covered, evalDone, transcripts>>
vars == <<media, schedule, results, at, closed, ending, sent>>

(***************************************************************************)
(* A window handed to a lane.  pcm is the end of the audio it was cut      *)
(* with: the chunks from start to pcm-1.                                   *)
(***************************************************************************)
Window == [lane : Lane, start : Time, end : Time, pcm : Time]

\* Phases of a submitted window: waiting for a worker or in the model call,
\* result recorded, past the _closed check, and the two ways a future ends.
Phase == {"pending", "emit", "bridge", "done", "failed"}
Finished == {"done", "failed"}
EndPhase ==
  {"idle", "submit", "wait", "join", "emit", "bridge",
   "done",      \* the TurnEnd went to on_signal
   "dropped",   \* the windower was closed: no TurnEnd
   "raised"}    \* the pools were shut down: no TurnEnd

Submitted == DOMAIN at
OfLane(l) == {w \in Submitted : w.lane = l}
Unfinished(ws) == {w \in ws : at[w] \notin Finished}

-----------------------------------------------------------------------------
(* The time line: grid points, and what the buffers hold of [s, e).        *)

Grid(width) == {width * k : k \in 0..(MaxT + 1)}
NvGrid == Grid(NvW)
EvalGrid == Grid(EvalW)

HasFrames(s, e) == \E t \in frames : s <= t /\ t < e
PcmEnd(s, e) ==
  IF audioEnd <= s THEN s ELSE IF audioEnd < e THEN audioEnd ELSE e
HasPcm(s, e) == PcmEnd(s, e) > s

Cut(l, s, e) == [lane |-> l, start |-> s, end |-> e, pcm |-> PcmEnd(s, e)]

\* Faulty variant: the next end counts from the poll, not from the grid.
AdvanceFromNow(next, width, n) == IF next <= n THEN n + width ELSE next

\* The next end of the grid after n, from the current one.  The code moves
\* the counter in steps, before any window of the poll is submitted.
Advance(next, width, n) ==
  IF next <= n THEN CHOOSE g \in Grid(width) : n < g /\ g <= n + width
               ELSE next

Due(next, width, n) ==
  {<<g - width, g>> : g \in {h \in Grid(width) : next <= h /\ h <= n}}

\* nv needs a frame, stt needs audio; both are cut from the same windows.
NvWindows(spans) ==
  {Cut("nv", p[1], p[2]) : p \in {q \in spans : HasFrames(q[1], q[2])}}

\* Faulty variant: the stt window ends where its audio ends.
SttWindowsClipped(spans) ==
  {Cut("stt", p[1], PcmEnd(p[1], p[2])) : p \in {q \in spans : HasPcm(q[1], q[2])}}

SttWindows(spans) ==
  {Cut("stt", p[1], p[2]) : p \in {q \in spans : HasPcm(q[1], q[2])}}

\* A full or a tail evaluation needs both.
EvalWindows(l, spans) ==
  {Cut(l, p[1], p[2]) :
     p \in {q \in spans : HasFrames(q[1], q[2]) /\ HasPcm(q[1], q[2])}}

\* Faulty variants: nothing is caught up; a caught-up window stays starved;
\* a starved window is forgotten at once.
CatchUpNever(starts) == {}
StarvedForEver(starts) == starts
StarvedForgotten(starts) == {}

\* _collect_nv_catch_up: starved windows whose frames have come meanwhile.
CatchUp(starts) == NvWindows({<<s, s + NvW>> : s \in starts})
StillStarved(starts) == {s \in starts : ~ HasFrames(s, s + NvW)}

\* assemble_audio_url: what the model hears of a window.
Heard(w) == {t \in Time : w.start <= t /\ w.pcm - AudioCap <= t /\ t < w.pcm}

Submit(ws) ==
  at' = [w \in Submitted \cup ws |-> IF w \in ws THEN "pending" ELSE at[w]]

-----------------------------------------------------------------------------
(* Media arrival.  Frames may come late and out of order; audio is a       *)
(* gapless stream that may lag behind the clock.  What arrives after       *)
(* end_turn has cut its windows is never read, and is left out.            *)

Tick ==
  /\ now < MaxT
  /\ endPc = "idle"
  /\ now' = now + 1
  /\ UNCHANGED <<frames, audioEnd, schedule, results, at, closed, ending, sent>>

AddFrame(t) ==
  /\ endPc = "idle"
  /\ t <= now
  /\ t \notin frames
  /\ frames' = frames \cup {t}
  /\ UNCHANGED <<now, audioEnd, schedule, results, at, closed, ending, sent>>

AddAudio ==
  /\ endPc = "idle"
  /\ audioEnd < now
  /\ audioEnd' = audioEnd + 1
  /\ UNCHANGED <<now, frames, schedule, results, at, closed, ending, sent>>

-----------------------------------------------------------------------------
(* poll: under _lock, advance the counters and cut every due window; then  *)
(* submit them outside the lock.  The service cancels its poll task before *)
(* it calls end_turn.                                                      *)

PollCut(p) ==
  LET nvDue == Due(nextNv, NvW, now)
      evalDue == IF EvalOff THEN {} ELSE Due(nextEval, EvalW, now)
      hungry == starved \cup {q[1] : q \in nvDue}
  IN  /\ endPc = "idle"
      /\ now > 0
      /\ batch[p] = {}
      /\ nextNv' = Advance(nextNv, NvW, now)
      /\ nextEval' = IF EvalOff THEN nextEval ELSE Advance(nextEval, EvalW, now)
      /\ starved' = StillStarved(hungry)
      /\ batch' = [batch EXCEPT ![p] =
                     NvWindows(nvDue) \cup SttWindows(nvDue)
                       \cup CatchUp(starved) \cup EvalWindows("eval", evalDue)]
      /\ UNCHANGED <<media, results, at, closed, ending, sent>>

PollSubmit(p) ==
  /\ batch[p] # {}
  /\ Submit(batch[p])
  /\ batch' = [batch EXCEPT ![p] = {}]
  /\ UNCHANGED <<media, nextNv, nextEval, starved, results, closed, ending, sent>>

-----------------------------------------------------------------------------
(* The worker threads.  A window waits for a free worker and then for the  *)
(* model; how long is left open, so the pools' sizes and their order make  *)
(* no difference here.  A model call that raises ends the window there.    *)

InferRaises(w) ==
  /\ at[w] = "pending"
  /\ w.lane \in FailLanes
  /\ at' = [at EXCEPT ![w] = "failed"]
  /\ UNCHANGED <<media, schedule, results, closed, ending, sent>>

\* The first half of _emit: the _closed check under _out_lock.
EmitCheck(w) == IF closed THEN "done" ELSE "bridge"

\* _do_nv: the signal goes straight to _emit.
NvReturns(w) ==
  /\ w.lane = "nv" /\ at[w] = "pending"
  /\ at' = [at EXCEPT ![w] = EmitCheck(w)]
  /\ UNCHANGED <<media, schedule, results, closed, ending, sent>>

\* _do_stt: the text goes into _transcripts under _tx_lock, then to _emit.
SttReturns(w) ==
  /\ w.lane = "stt" /\ at[w] = "pending"
  /\ transcripts' = transcripts \cup {w.start}
  /\ at' = [at EXCEPT ![w] = "emit"]
  /\ UNCHANGED <<media, schedule, covered, evalDone, closed, ending, sent>>

\* Faulty variant: covered_until is the latest end, over gaps too.
FirstGapMax(done) ==
  CHOOSE g \in EvalGrid :
    /\ \E s \in done : g = s + EvalW
    /\ \A s \in done : s + EvalW <= g

\* _do_eval: under _lock covered_until moves over the evaluations that have
\* succeeded without a gap; then _emit.
FirstGap(done) ==
  CHOOSE g \in EvalGrid :
    /\ covered <= g /\ g \notin done
    /\ \A s \in EvalGrid : covered <= s /\ s < g => s \in done

EvalReturns(w) ==
  /\ w.lane = "eval" /\ at[w] = "pending"
  /\ evalDone' = evalDone \cup {w.start}
  /\ covered' = FirstGap(evalDone')
  /\ at' = [at EXCEPT ![w] = "emit"]
  /\ UNCHANGED <<media, schedule, transcripts, closed, ending, sent>>

\* _do_tail: the result is only returned to end_turn.
TailReturns(w) ==
  /\ w.lane = "tail" /\ at[w] = "pending"
  /\ at' = [at EXCEPT ![w] = "done"]
  /\ UNCHANGED <<media, schedule, results, closed, ending, sent>>

EmitStored(w) ==
  /\ at[w] = "emit"
  /\ at' = [at EXCEPT ![w] = EmitCheck(w)]
  /\ UNCHANGED <<media, schedule, results, closed, ending, sent>>

\* The second half of _emit: on_signal, outside the lock.
EmitBridge(w) ==
  /\ at[w] = "bridge"
  /\ at' = [at EXCEPT ![w] = "done"]
  /\ sent' = sent \cup {w}
  /\ UNCHANGED <<media, schedule, results, closed, ending>>

Worker(w) ==
  \/ InferRaises(w)
  \/ NvReturns(w)
  \/ SttReturns(w)
  \/ EvalReturns(w)
  \/ TailReturns(w)
  \/ EmitStored(w)
  \/ EmitBridge(w)

-----------------------------------------------------------------------------
(* end_turn, on a thread of its own.                                       *)

\* The trailing partial window, from the last grid point to n.
Trailing(from, n) == IF n - from > MinTrail THEN {<<from, n>>} ELSE {}

\* Faulty variant: the tail starts after the windows submitted, not judged.
TailAfterGrid == nextEval - EvalW

\* The compact tail, from the end of the coverage to n.  A short answer is
\* evaluated whole; after full evaluations a sliver is left out.
TailStart == covered
TailSpans(n) ==
  IF /\ ~ EvalOff
     /\ n - TailStart > 0
     /\ covered = 0 \/ n - TailStart > MinTail
  THEN {<<TailStart, n>>}
  ELSE {}

EndCut ==
  LET nvSpans == Due(nextNv, NvW, now)
                   \cup Trailing(Advance(nextNv, NvW, now) - NvW, now)
  IN  /\ endPc = "idle"
      /\ \A p \in Pollers : batch[p] = {}
      /\ endPc' = "submit"
      /\ endAt' = now
      /\ nextNv' = Advance(nextNv, NvW, now)
      /\ starved' = StillStarved(starved)
      /\ endBatch' = NvWindows(nvSpans) \cup SttWindows(nvSpans)
                       \cup CatchUp(starved) \cup EvalWindows("tail", TailSpans(now))
      /\ UNCHANGED <<media, nextEval, batch, results, at, closed, waitSet,
                     stalled, full, turnEval, sent>>

\* Faulty variants: nv futures, or stt futures, are not tracked.
AwaitedNoNv == {w \in Submitted : w.lane \in {"stt", "tail"}}
AwaitedNoStt == {w \in Submitted : w.lane \in {"nv", "tail"}}

\* The futures end_turn waits for: every nv and stt, and its own tail.
Awaited == {w \in Submitted : w.lane \in {"nv", "stt", "tail"}}

EndSubmit ==
  /\ endPc = "submit"
  /\ Submit(endBatch)
  /\ waitSet' = Unfinished(Awaited)'
  /\ endBatch' = {}
  /\ endPc' = "wait"
  /\ UNCHANGED <<media, schedule, results, closed, endAt, stalled, full,
                 turnEval, sent>>

\* close() has shut the pools down meanwhile: a submit raises, and with it
\* end_turn, after any part of the windows was handed over.
EndSubmitRaises ==
  /\ endPc = "submit"
  /\ closed
  /\ \E ws \in SUBSET endBatch : Submit(ws)
  /\ endBatch' = {}
  /\ endPc' = "raised"
  /\ UNCHANGED <<media, schedule, results, closed, endAt, waitSet, stalled,
                 full, turnEval, sent>>

\* wait() returns when all are done, or at the deadline.
EndWait ==
  /\ endPc = "wait"
  /\ Unfinished(waitSet) = {}
  /\ endPc' = "join"
  /\ UNCHANGED <<media, schedule, results, at, closed, endAt, endBatch,
                 waitSet, stalled, full, turnEval, sent>>

\* Faulty variant: wait() without a timeout.
EndDeadlineNever == FALSE /\ UNCHANGED vars

EndDeadline ==
  /\ endPc = "wait"
  /\ Unfinished(waitSet) # {}
  /\ stalled' = Unfinished(waitSet)
  /\ endPc' = "join"
  /\ UNCHANGED <<media, schedule, results, at, closed, endAt, endBatch,
                 waitSet, full, turnEval, sent>>

\* The join of transcript_full, under _tx_lock.
EndJoin ==
  /\ endPc = "join"
  /\ full' = transcripts
  /\ endPc' = "emit"
  /\ UNCHANGED <<media, schedule, results, at, closed, endAt, endBatch,
                 waitSet, stalled, turnEval, sent>>

\* The tail's result if it is there, and _emit of the TurnEnd.  A closed
\* windower drops the TurnEnd, and end_turn returns.
EndEmit ==
  /\ endPc = "emit"
  /\ turnEval' = {w \in OfLane("tail") : at[w] = "done"}
  /\ endPc' = IF closed THEN "dropped" ELSE "bridge"
  /\ UNCHANGED <<media, schedule, results, at, closed, endAt, endBatch,
                 waitSet, stalled, full, sent>>

EndBridge ==
  /\ endPc = "bridge"
  /\ endPc' = "done"
  /\ UNCHANGED <<media, schedule, results, at, closed, endAt, endBatch,
                 waitSet, stalled, full, turnEval, sent>>

EndTurn ==
  \/ EndSubmit
  \/ EndSubmitRaises
  \/ EndWait
  \/ EndDeadline
  \/ EndJoin
  \/ EndEmit
  \/ EndBridge

\* close(), called when end_turn has returned or the caller was cancelled.
\* Work already queued still runs (shutdown(wait=False)).
Close ==
  /\ ~ closed
  /\ \/ endPc \in {"done", "dropped", "raised"}
     \/ MayAbort /\ endPc # "idle"
  /\ closed' = TRUE
  /\ UNCHANGED <<media, schedule, results, at, ending, sent>>

-----------------------------------------------------------------------------
Init ==
  /\ now = 0 /\ frames = {} /\ audioEnd = 0
  /\ nextNv = NvW /\ nextEval = EvalW /\ starved = {}
  /\ batch = [p \in Pollers |-> {}]
  /\ covered = 0 /\ evalDone = {} /\ transcripts = {}
  /\ at = [w \in {} |-> "pending"]
  /\ closed = FALSE
  /\ endPc = "idle" /\ endAt = 0 /\ endBatch = {}
  /\ waitSet = {} /\ stalled = {} /\ full = {} /\ turnEval = {}
  /\ sent = {}

Next ==
  \/ Tick
  \/ \E t \in FrameTimes : AddFrame(t)
  \/ AddAudio
  \/ \E p \in Pollers : PollCut(p) \/ PollSubmit(p)
  \/ \E w \in Submitted : Worker(w)
  \/ EndCut
  \/ EndTurn
  \/ Close

Spec == Init /\ [][Next]_vars

-----------------------------------------------------------------------------
(* What the windower promises.                                             *)

\* Every variable of the windower stays in its range: windows lie on the time
\* line, counters on their grids.
TypeOK ==
  /\ now \in Time /\ frames \subseteq Time /\ audioEnd \in Time
  /\ nextNv \in NvGrid \ {0} /\ nextEval \in EvalGrid \ {0}
  /\ starved \subseteq {s \in Time : s + NvW \in Time}
  /\ batch \in [Pollers -> SUBSET Window]
  /\ covered \in EvalGrid /\ evalDone \subseteq Time /\ transcripts \subseteq Time
  /\ Submitted \subseteq Window /\ at \in [Submitted -> Phase]
  /\ closed \in BOOLEAN
  /\ endPc \in EndPhase /\ endAt \in Time /\ endBatch \subseteq Window
  /\ waitSet \subseteq Submitted /\ stalled \subseteq Submitted
  /\ full \subseteq transcripts
  /\ turnEval \subseteq OfLane("tail") /\ sent \subseteq Submitted

InBatch == UNION {batch[p] : p \in Pollers}
Known == Submitted \cup endBatch \cup InBatch
Overlap(v, w) == v.start < w.end /\ w.start < v.end
SameSpan(v, w) == v.start = w.start /\ v.end = w.end

\* No stretch of the turn is handed to a lane twice: two windows of one lane
\* never overlap, and what a poll or end_turn is about to submit has not been
\* submitted, whichever threads poll at the same time ("race-free" in the
\* header of windowing.py; the counter moves before the lock is released).
WindowsOnce ==
  /\ \A v, w \in Known : v.lane = w.lane /\ Overlap(v, w) => v = w
  /\ (endBatch \cup InBatch) \cap Submitted = {}
  /\ endBatch \cap InBatch = {}
  /\ \A p, q \in Pollers : p # q => batch[p] \cap batch[q] = {}

\* nv and stt windows that overlap are the same window, so the recorder,
\* which joins the two signals by the window's midpoint, can pair them: also
\* for windows caught up later and for the trailing one.
WindowsPaired ==
  \A v, w \in Known :
    v.lane = "nv" /\ w.lane = "stt" /\ Overlap(v, w) => SameSpan(v, w)

\* Until the turn ends no closed nv window is given up: it has been cut for
\* the nv lane, or it is remembered as starved, and never both.  Giving up a
\* window whose frames came late was the bug behind _nv_starved.
StarvedOrRead ==
  endPc = "idle" =>
    \A g \in NvGrid : 0 < g /\ g < nextNv =>
      ((g - NvW) \in starved
        <=> ~ \E w \in Known : w.lane = "nv" /\ w.start = g - NvW)

\* Once end_turn stops waiting, every nv and stt signal of the turn has gone
\* out, except those of failed calls and those stalled at the deadline: in
\* the consumer's queue the TurnEnd follows all of them.
Timely == {w \in Submitted : w.lane \in {"nv", "stt"}} \ stalled
TurnEndIsLast ==
  endPc \in {"join", "emit", "bridge", "done"} /\ ~ closed =>
    \A w \in Timely : at[w] = "failed" \/ w \in sent

\* transcript_full misses no transcript unless an stt call stalled: no worker
\* adds one after the join.
TranscriptWhole ==
  /\ endPc \in {"emit", "bridge", "done"}
  /\ ~ \E w \in stalled : w.lane = "stt"
  => full = transcripts

Judged(s) == \E w \in OfLane("eval") :
               w.start = s /\ at[w] \in {"emit", "bridge", "done"}

\* covered_until is the end of the gapless run of successful evaluations: it
\* never skips a window that failed or is still running, in whatever order
\* the evaluations finish.
CoveredPrefix ==
  /\ \A s \in EvalGrid : s < covered => Judged(s)
  /\ ~ Judged(covered)

\* The tail and the successful evaluations leave no unit of the turn out: the
\* tail starts no later than the first gap.
TailMeetsCoverage ==
  \A w \in OfLane("tail") : \A t \in 0..(endAt - 1) :
    \/ w.start <= t
    \/ \E s \in EvalGrid : s <= t /\ t < s + EvalW /\ Judged(s)

(* Two statements of comments in windowing.py that the code does not keep. *)

\* "The compact tail covers that unjudged stretch again" (_do_eval): the
\* audio of a full evaluation that failed or is still running is heard by the
\* tail that made it into the TurnEnd.
HoleReheard ==
  \A w \in turnEval : \A v \in OfLane("eval") :
    ~ Judged(v.start) => v.start..(v.pcm - 1) \subseteq Heard(w)

\* "stt has already been submitted with its pcm when the window closed"
\* (poll, on catching up nv only): an nv window that holds audio has its stt
\* window.
CaughtUpIsTranscribed ==
  \A v \in Known : v.lane = "nv" /\ v.start < v.pcm =>
    \E w \in Known : w.lane = "stt" /\ SameSpan(v, w)

-----------------------------------------------------------------------------
(* The inductive strengthening of the invariants above: the parts a proof     *)
(* needs beyond them, each about one mechanism.                            *)

\* The evaluation grid: what was cut lies before the counter, so that the
\* counter is always a gap and covered_until exists.
EvalInv ==
  /\ covered <= nextEval
  /\ \A s \in evalDone : s < nextEval
  /\ \A w \in Known : w.lane = "eval" =>
       w.end \in EvalGrid \ {0} /\ w.end < nextEval /\ w.start = w.end - EvalW

\* There is at most one tail, cut at the end of the turn from the coverage.
TailInv ==
  \A w \in Known : w.lane = "tail" =>
    /\ endPc # "idle"
    /\ w.end = endAt /\ w.start <= covered
    /\ \A v \in Known : v.lane = "tail" => v.start = w.start

\* What WindowsOnce says of equal spans, and who holds a window.
OnceInv ==
  /\ \A v, w \in Known : v.lane = w.lane /\ SameSpan(v, w) => v = w
  /\ (endBatch \cup InBatch) \cap Submitted = {}
  /\ endBatch \cap InBatch = {}
  /\ \A p, q \in Pollers : p # q => batch[p] \cap batch[q] = {}

\* The coverage: evalDone holds exactly the evaluations that succeeded.
CoverInv ==
  /\ \A s \in EvalGrid : s < covered => s \in evalDone
  /\ covered \notin evalDone
  /\ \A s \in Time \cup EvalGrid : s \in evalDone <=> Judged(s)

\* The nv/stt grid: a window of these lanes is a grid window before the
\* counter, or the trailing window, from the last grid point before the
\* counter to the end of the turn.
SpanInv ==
  \A w \in Known : w.lane \in {"nv", "stt"} =>
    \/ w.end \in NvGrid \ {0} /\ w.end < nextNv /\ w.start = w.end - NvW
    \/ /\ endPc # "idle"
       /\ w.end = endAt /\ w.start = nextNv - NvW /\ w.end < nextNv

\* A starved window is a grid window before the counter, and not in play.
StarvedInv ==
  \A s \in starved :
    /\ s + NvW \in NvGrid \ {0} /\ s + NvW < nextNv
    /\ \A w \in Known : w.lane = "nv" => w.start # s

\* The end of the turn: polls are over, what end_turn has waited for is
\* finished or stalled, and a finished signal was sent unless close() came.
EndInv ==
  /\ endPc # "idle" => InBatch = {}
  /\ endPc = "wait" =>
       \A w \in Submitted : w.lane \in {"nv", "stt"} =>
         at[w] \in Finished \/ w \in waitSet
  /\ endPc \in {"join", "emit", "bridge", "done", "dropped"} =>
       \A w \in Submitted : w.lane \in {"nv", "stt"} =>
         at[w] \in Finished \/ w \in stalled
  /\ \A w \in Submitted : at[w] = "done" /\ w.lane # "tail" => w \in sent \/ closed

\* A starved window whose frames arrive is submitted, or the turn is ending.
CatchUpHappens ==
  \A s \in Time :
    s \in starved /\ HasFrames(s, s + NvW)
      ~> (\E w \in OfLane("nv") : w.start = s) \/ endPc # "idle"

\* end_turn returns, though no inference may ever finish.
EndTurnReturns ==
  endPc = "submit" ~> endPc \in {"done", "dropped", "raised"}
=============================================================================
