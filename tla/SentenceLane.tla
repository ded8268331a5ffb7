---------------------------- MODULE SentenceLane ----------------------------
(***************************************************************************)
(* External transcription: giljobe.pipeline.sentences.RealtimeTurnTracker  *)
(* and the sentence lane of TurnWindower it drives.  Transcript and VAD    *)
(* events of a speech service reach the server one by one, late, or not at *)
(* all; poll calls tick, end_turn calls flush.  All of it but flush runs   *)
(* on the event loop, and flush starts when no event can come any more, so *)
(* each call is one step.                                                  *)
(*                                                                         *)
(* A text is the set of deltas it is made of, or the utterance whose whole *)
(* transcript it is; its punctuation, which is not modelled, splits it in  *)
(* at most MaxPieces sentences.                                            *)
(***************************************************************************)
EXTENDS Integers, Sequences, SequencesExt, FiniteSets, FiniteSetsExt

CONSTANTS
  MaxT,        \* bound on the media clock
  NUtt,        \* bound on the utterances
  MaxDeltas,   \* bound on the deltas of one
  MaxPieces,   \* bound on the sentences of one
  MinSentence, MinEmpty, Timeout,   \* MIN_SENTENCE_S, MIN_EMPTY_UTTER_S, timeout_s
  MaxSents, EvalSpan,               \* SENT_EVAL_MAX_SENTS, SENT_EVAL_SPAN_S
  MinTail,     \* the shortest tail that is evaluated
  SnapReach,   \* how far a boundary may be snapped to a pause
  Overtaken    \* whether an utterance may begin before the last one's completed

Utt == 1..NUtt
NoItem == 0          \* "_no_item", and an event without itemId
Keys == Utt \union {NoItem}
Never == -1
Delta == Utt \X (1..MaxDeltas)

ASSUME SentenceAssumption ==
  /\ {MaxT, NUtt, MaxDeltas, MinEmpty, Timeout, MaxSents, EvalSpan, MinTail, SnapReach} \subseteq Nat
  /\ {MinSentence, MaxPieces} \subseteq Nat \ {0}
  /\ Overtaken \in BOOLEAN

VARIABLES
  now,         \* media_now
  items,       \* _items: the deltas held under each itemId
  order,       \* _order
  segStart,    \* _seg_start
  stoppedAt,   \* _speech_stopped_at
  sents,       \* every sentence submitted to the nv lane
  transcripts, \* _transcripts: start of a sentence -> its place in sents
  anchor, pending,   \* _eval_anchor, _eval_pending_sents
  evals,       \* the evaluation windows; "gated" ones lacked frames or pcm
  tail,        \* the window of the tail, if there is one; "gated" as in evals
  ended,       \* end_turn has flushed
  uttered,     \* how far the service is with each utterance (environment)
  speech,      \* when each was spoken (environment)
  deltas       \* those that were sent (environment)

tracker == <<items, order, segStart, stoppedAt>>
lane == <<sents, transcripts, anchor, pending, evals>>
service == <<uttered, speech, deltas>>
xvars == <<now, tracker, lane, tail, ended, service>>

NoText == [deltas |-> {}, whole |-> {}]
Max2(a, b) == IF a > b THEN a ELSE b

-----------------------------------------------------------------------------
\* _snap_to_pause: a pause in the audio near t, or t itself.
Snap(t) == {x \in Max2(0, t - SnapReach)..(t + SnapReach) : x <= now} \union {t}

\* split_sentences: consecutive pieces of [t0, t1].  One that is much shorter
\* than the others is rounded to no length.
Splits(t0, t1) ==
  {c \in UNION {[1..(k + 1) -> t0..t1] : k \in 1..MaxPieces} :
     /\ c[1] = t0 /\ c[Len(c)] = t1
     /\ \A i \in 1..(Len(c) - 1) : c[i] <= c[i + 1]}

\* The sentences of one call: of is the utterance that was completed, em
\* tells the calls apart.
Pieces(cuts, text, of, source) ==
  [i \in 1..(Len(cuts) - 1) |->
     [start |-> cuts[i], end |-> cuts[i + 1], text |-> text, of |-> of,
      em |-> Len(sents), source |-> source]]

Emissions(t0, t1, text, of, source) == {Pieces(c, text, of, source) : c \in Splits(t0, t1)}

\* Faulty variant: an evaluation window ends at the clock.
EvalEndNow(new) == now

EvalEnd(new) == Max({new[i].end : i \in 1..Len(new)})

\* _maybe_submit_sentence_eval.  The anchor moves before the gate.
SubmitEval(new) ==
  LET end == EvalEnd(new)
      span == end - anchor IN
  IF span > 0 /\ (pending + Len(new) >= MaxSents \/ span >= EvalSpan)
  THEN /\ \E st \in {"running", "gated"} :
            evals' = evals \union {[start |-> anchor, end |-> end, st |-> st]}
       /\ anchor' = end
       /\ pending' = 0
  ELSE pending' = pending + Len(new) /\ UNCHANGED <<anchor, evals>>

\* _submit_sentences: every sentence to the nv lane, its text, if it has one,
\* to transcript_full under its start.
Submit(new, allowEval) ==
  /\ sents' = sents \o new
  /\ LET said == {i \in 1..Len(new) : new[i].text # NoText}
         at(t) == {i \in said : new[i].start = t} IN
     transcripts' = [t \in DOMAIN transcripts \union {new[i].start : i \in said} |->
       IF at(t) # {} THEN Len(sents) + Max(at(t)) ELSE transcripts[t]]
  /\ IF allowEval /\ new # <<>> THEN SubmitEval(new) ELSE UNCHANGED <<anchor, pending, evals>>

-----------------------------------------------------------------------------
\* Faulty variant: the boundary follows the event back.
SkipTo(x) == x

\* Silence since the last boundary is skipped.
SkipSilence(x) == Max2(segStart, x)

\* speech_started, if it is not lost.
Speak(u) ==
  /\ ~ended
  /\ uttered[u] = "silent"
  /\ \A v \in 1..(u - 1) :
       uttered[v] \in {"completed", "lost"} \/ (Overtaken /\ uttered[v] = "stopped")
  /\ uttered' = [uttered EXCEPT ![u] = "speaking"]
  /\ speech' = [speech EXCEPT ![u] = [from |-> now, to |-> now, heard |-> FALSE]]
  /\ segStart' \in {SkipSilence(x) : x \in Snap(now)} \union {segStart}
  /\ UNCHANGED <<now, items, order, stoppedAt, lane, tail, ended, deltas>>

\* speech_stopped, if it is not lost.
Stop(u) ==
  /\ ~ended
  /\ uttered[u] = "speaking"
  /\ speech[u].from < now
  /\ uttered' = [uttered EXCEPT ![u] = "stopped"]
  /\ \E heard \in BOOLEAN :
       /\ speech' = [speech EXCEPT ![u].to = now, ![u].heard = heard]
       /\ stoppedAt' = IF heard THEN now ELSE stoppedAt
  /\ UNCHANGED <<now, items, order, segStart, lane, tail, ended, deltas>>

\* _accumulate: transcript.delta, with or without its itemId.
Accumulate(u, key) ==
  /\ ~ended
  /\ uttered[u] \in {"speaking", "stopped"}
  /\ LET n == Cardinality({d \in deltas : d[1] = u}) + 1 IN
       /\ n <= MaxDeltas
       /\ deltas' = deltas \union {<<u, n>>}
       /\ items' = [items EXCEPT ![key] = @ \union {<<u, n>>}]
  /\ order' = IF Contains(order, key) THEN order ELSE Append(order, key)
  /\ UNCHANGED <<now, segStart, stoppedAt, lane, tail, ended, uttered, speech>>

\* An item and its place in _order, where it is once, go.
Drop(key) ==
  /\ items' = [items EXCEPT ![key] = {}]
  /\ \/ \E i \in 1..Len(order) : order[i] = key /\ order' = RemoveAt(order, i)
     \/ ~Contains(order, key) /\ UNCHANGED order

\* _take_text: a whole transcript replaces its item's deltas; without one, the
\* item's deltas are the text, or those that came first of all.
TakenKey(id) ==
  IF id # NoItem /\ Contains(order, id) THEN id
  ELSE IF order # <<>> THEN Head(order) ELSE NoItem

TakeText(u, id, whole) ==
  IF whole THEN [deltas |-> {}, whole |-> {u}]
  ELSE [deltas |-> items[TakenKey(id)], whole |-> {}]

DropTaken(id, whole) ==
  IF ~whole THEN Drop(TakenKey(id))
  ELSE IF id # NoItem THEN Drop(id) ELSE UNCHANGED <<items, order>>

\* _complete_utterance: transcript.completed.  The boundary is the end of the
\* speech if that is known, and moves even when no sentence is made.
Complete(u, id, whole) ==
  /\ ~ended
  /\ uttered[u] = "stopped"
  /\ uttered' = [uttered EXCEPT ![u] = "completed"]
  /\ stoppedAt' = Never
  /\ DropTaken(id, whole)
  /\ \E x \in Snap(IF stoppedAt # Never THEN stoppedAt ELSE now) :
       LET end == Max2(x, segStart + MinSentence)
           text == TakeText(u, id, whole) IN
       /\ segStart' = end
       /\ \/ /\ text # NoText
             /\ \E new \in Emissions(segStart, end, text, u, "punct") : Submit(new, TRUE)
          \/ /\ text = NoText /\ end - segStart >= MinEmpty
             /\ Submit(Pieces(<<segStart, end>>, text, u, "utterance"), TRUE)
          \/ /\ text = NoText /\ end - segStart < MinEmpty
             /\ UNCHANGED lane
  /\ UNCHANGED <<now, tail, ended, speech, deltas>>

\* The completed never comes.
Lose(u) ==
  /\ uttered[u] = "stopped"
  /\ uttered' = [uttered EXCEPT ![u] = "lost"]
  /\ UNCHANGED <<now, tracker, lane, tail, ended, speech, deltas>>

-----------------------------------------------------------------------------
\* Everything held becomes one text, and nothing is held any more.
Held == UNION {items[k] : k \in Keys}

\* Faulty variant: the deltas stay in _items and _order.
KeepAll == UNCHANGED <<items, order>>

DropAll ==
  /\ items' = [k \in Keys |-> {}]
  /\ order' = <<>>

\* Faulty variant: a timeout without text moves the boundary.
ForceSilent(end) ==
  /\ segStart' = end
  /\ DropAll
  /\ IF Held = {} THEN UNCHANGED lane
     ELSE \E new \in Emissions(segStart, end, [deltas |-> Held, whole |-> {}], NoItem, "timeout") :
            Submit(new, TRUE)

ForceEnd(end) ==
  /\ Held # {}
  /\ segStart' = end
  /\ DropAll
  /\ \E new \in Emissions(segStart, end, [deltas |-> Held, whole |-> {}], NoItem, "timeout") :
       Submit(new, TRUE)

\* tick, called by poll: after the timeout what is held is made a sentence.
TimeoutTick ==
  /\ ~ended
  /\ now - segStart > Timeout
  /\ \E x \in Snap(now) : ForceEnd(Max2(x, segStart + MinSentence))
  /\ UNCHANGED <<now, stoppedAt, tail, ended, service>>

\* A worker evaluates a window, or fails to.
EvalDone(e, st) ==
  /\ e.st = "running"
  /\ evals' = (evals \ {e}) \union {[e EXCEPT !.st = st]}
  /\ UNCHANGED <<now, tracker, sents, transcripts, anchor, pending, tail, ended, service>>

Judged == {e \in evals : e.st = "ok"}

\* Faulty variant: the end of the last judged window.
CoveredMax == Max({0} \union {e.end : e \in Judged})

\* _eval_covered_until: the end of the gapless run of judged windows.
Onward(done, t) ==
  IF \E e \in done : e.start = t THEN (CHOOSE e \in done : e.start = t).end ELSE t

Reach(done) ==
  LET reach[n \in 0..Cardinality(done)] == IF n = 0 THEN 0 ELSE Onward(done, reach[n - 1])
  IN  reach

CoveredUntil == Reach(Judged)[Cardinality(Judged)]

\* Faulty variant: what is held is dropped.
FlushNothing ==
  /\ DropAll
  /\ UNCHANGED <<segStart, lane>>

\* flush does not snap and asks for no evaluation.
Flush ==
  \/ Held = {} /\ UNCHANGED <<items, order, segStart, lane>>
  \/ /\ Held # {}
     /\ segStart' = Max2(now, segStart + MinSentence)
     /\ DropAll
     /\ \E new \in Emissions(segStart, segStart', [deltas |-> Held, whole |-> {}], NoItem, "flush") :
          Submit(new, FALSE)

\* The buffers only grow: what a window from here on was submitted with is still
\* there for the tail.
HadMedia(from) == \E e \in evals : e.st # "gated" /\ from <= e.start /\ e.end <= now

\* The tail from the covered prefix to now, if that is long enough; without
\* frames or pcm it is not submitted.
Tails(from) ==
  IF now > from /\ (from = 0 \/ now - from > MinTail)
  THEN {{[start |-> from, end |-> now, st |-> st]} :
          st \in {"running"} \union (IF HadMedia(from) THEN {} ELSE {"gated"})}
  ELSE {{}}

\* end_turn: the tail, and the flush.
EndTurn ==
  /\ ~ended
  /\ now > 0
  /\ ended' = TRUE
  /\ tail' \in Tails(CoveredUntil)
  /\ Flush
  /\ UNCHANGED <<now, stoppedAt, service>>

Clock ==
  /\ ~ended
  /\ now < MaxT
  /\ now' = now + 1
  /\ UNCHANGED <<tracker, lane, tail, ended, service>>

-----------------------------------------------------------------------------
LaneInit ==
  /\ now = 0
  /\ items = [k \in Keys |-> {}] /\ order = <<>>
  /\ segStart = 0 /\ stoppedAt = Never
  /\ sents = <<>> /\ transcripts = <<>>
  /\ anchor = 0 /\ pending = 0 /\ evals = {}
  /\ tail = {} /\ ended = FALSE
  /\ uttered = [u \in Utt |-> "silent"]
  /\ speech = [u \in Utt |-> [from |-> 0, to |-> 0, heard |-> FALSE]]
  /\ deltas = {}

LaneNext ==
  \/ Clock
  \/ TimeoutTick
  \/ EndTurn
  \/ \E e \in evals, st \in {"ok", "failed"} : EvalDone(e, st)
  \/ \E u \in Utt :
       \/ Speak(u)
       \/ Stop(u)
       \/ Lose(u)
       \/ \E id \in {u, NoItem} :
            \/ Accumulate(u, id)
            \/ \E whole \in BOOLEAN : Complete(u, id, whole)

LaneSpec == LaneInit /\ [][LaneNext]_xvars

-----------------------------------------------------------------------------
\* Sentences follow one another without overlap, whatever is late, lost,
\* snapped or forced: no moment is measured twice, and the transcripts, which
\* are sorted by start, come out in the order they were made.
SentencesInOrder ==
  /\ \A i \in 1..Len(sents) : sents[i].start <= sents[i].end
  /\ \A i \in 1..(Len(sents) - 1) : sents[i].end <= sents[i + 1].start
  /\ sents # <<>> => Last(sents).end <= segStart

\* Every delta is held, or in the sentences of one call, and never in two;
\* only a whole transcript of its utterance may replace it.
DeltasOnce ==
  \A d \in deltas :
    LET calls == {sents[i].em : i \in {j \in 1..Len(sents) : d \in sents[j].text.deltas}}
        held == {k \in Keys : d \in items[k]} IN
    /\ Cardinality(calls) + Cardinality(held) <= 1
    /\ \/ Cardinality(calls) + Cardinality(held) = 1
       \/ \E i \in 1..Len(sents) : d[1] \in sents[i].text.whole

\* transcript_full holds all that was said, unless a piece without length
\* gives two sentences the same start.
Crowded == \E i \in 1..Len(sents) : sents[i].start = sents[i].end
InFull(i) ==
  \A j \in 1..Len(sents) :
    sents[j].em = sents[i].em =>
      sents[j].start \in DOMAIN transcripts /\ transcripts[sents[j].start] = j
TranscriptHasAll ==
  ended /\ ~Crowded =>
    \A d \in deltas : \E i \in 1..Len(sents) :
      (d \in sents[i].text.deltas \/ d[1] \in sents[i].text.whole) /\ InFull(i)

\* No evaluation window begins or ends inside a sentence.
NoSentenceCut ==
  \A e \in evals, i \in 1..Len(sents) : sents[i].end <= e.end \/ e.end <= sents[i].start

\* What the windows that succeeded leave unjudged is in the tail, but for MinTail
\* at the end; and the tail is submitted if any window within it was.
NothingUnjudged ==
  ended =>
    \A t \in 0..(now - 1) :
      \/ \E e \in Judged : e.start <= t /\ t < e.end
      \/ \E s \in tail : /\ s.start <= t /\ t < s.end
                         /\ s.st = "running" \/ ~HadMedia(s.start)
      \/ now - CoveredUntil <= MinTail /\ CoveredUntil <= t

\* Evaluation cuts the turn between sentences and leaves nothing of it out,
\* whichever windows fail or are asked for by a forced sentence: what a window
\* was submitted with and did not judge is submitted again.  Only a tail without
\* frames or pcm, after windows that had none either, is judged by nobody.
EvaluationsWhole == NoSentenceCut /\ NothingUnjudged

\* The sentences of a completed utterance lie where it was spoken, within the
\* reach of the snap, unless its end was not heard or a timeout has cut it.
Forced(u) == \E i \in 1..Len(sents) : sents[i].source = "timeout" /\ sents[i].end > speech[u].from
SpokenThere ==
  \A i \in 1..Len(sents) :
    LET u == sents[i].of
        call == {sents[j] : j \in {k \in 1..Len(sents) : sents[k].em = sents[i].em}} IN
    u # NoItem /\ speech[u].heard /\ ~Forced(u) =>
      /\ \E s \in call : s.start <= speech[u].to + SnapReach
      /\ \E s \in call : s.end + SnapReach >= speech[u].from
=============================================================================
