------------------------------- MODULE Measures -------------------------------
(***************************************************************************)
(* The pure functions of the analysis against what they are meant to say.  *)
(* An input of one kind grows item by item; every property is about what   *)
(* the functions make of it.  A turn of face, pose, hand or audio frames   *)
(* is cut into windows at every Cut.                                       *)
(***************************************************************************)
EXTENDS Handoff, Ingest, ModelCalls, SentenceMedia, Startup, FiniteSetsExt

CONSTANTS
  Kinds,       \* the kinds of input
  Items(_),    \* the items of a kind
  MaxItems(_), \* bound on their number
  Cut          \* the item that begins a new window

\* What the lanes measure, if they do: there is some phonation, and so a rate;
\* frames are counted, and shares of them are whole Parts; a face that was seen
\* was measured (a body, only if it was seen twice).
Measured(m) ==
  m # None => /\ "phonation_s" \in DOMAIN m.rate /\ m.rate.phonation_s \in Nat \ {0}
              /\ m.rate.articulation_rate # None
Counting(m) ==
  m # None => /\ \A key \in DOMAIN m \cap {"face_frames", "face_seen_ratio", "pose_frames", "pose_seen_ratio"} :
                   m[key] \in Nat
              /\ Get(m, "face_seen_ratio", 0) > 0 => Get(m, "smile_ratio", None) # None

\* Frames come no earlier than the ones before, and sound has a length; a value
\* that is a number, a list or a text has what belongs to it, and so has a record.
ASSUME ItemsAssumption ==
  /\ Items("video") \subseteq Nat /\ Items("audio") \subseteq Nat
  /\ \A x \in Items("reply") :
       /\ x.value.is = "number" => x.value.n \in Int
       /\ x.value.is \in {"list", "text"} => x.value.of \in Seq({x.value.of[i] : i \in 1..Len(x.value.of)})
  /\ \A r \in Items("record") :
       /\ r.type = "sentence" => r.start_s \in Int /\ Measured(r.speech) /\ Counting(r.visual)
       /\ r.type = "eval" => Measured(r.objective_vocal) /\ Counting(r.objective_visual)

VARIABLES kind, input
mvars == <<kind, input>>

MeasuresInit == kind \in Kinds /\ input = <<>>

\* A model's answer is a JSON object, or the beginning of one; in its strings
\* one kind of bracket stands for all.
Viable(text) ==
  kind = "json" =>
    /\ Parse(text).next # "error"
    /\ Parse(text).next \in {"string", "key string"} => Last(text) \in {"\"", "x", ",", "}"}

Grow ==
  /\ Len(input) < MaxItems(kind)
  /\ \E x \in Items(kind) : input' = Append(input, x)
  /\ Viable(input')
  /\ UNCHANGED kind

MeasuresSpec == MeasuresInit /\ [][Grow]_mvars

\* Of entries under one key the last counts.
LastOfEach ==
  [key \in {input[i].key : i \in 1..Len(input)} |->
     input[Max({i \in 1..Len(input) : input[i].key = key})].value]

-----------------------------------------------------------------------------
\* The turn: each window the indices of its frames, of which the index is the
\* time.
Cuts == Chosen([i \in 1..Len(input) |-> i], {i \in 1..Len(input) : input[i] = Cut})
Windows ==
  LET at == <<0>> \o Cuts \o <<Len(input) + 1>> IN
  [k \in 1..(Len(at) - 1) |-> [i \in 1..(at[k + 1] - at[k] - 1) |-> at[k] + i]]
Frames(window) == [i \in 1..Len(window) |-> input[window[i]]]
Turn == FlattenSeq(Windows)

Rows(window) ==
  [i \in 1..Len(window) |->
     CASE kind = "face"  -> FaceRow(window[i], input[window[i]])
       [] kind = "pose"  -> PoseRow(window[i], input[window[i]])
       [] kind = "hands" -> HandRow(window[i], input[window[i]])]

\* The lanes fail or succeed apart from one another: here one at a time does.
Metrics(window) ==
  LET rows == Rows(window) IN
  WindowMetrics(IF kind = "face" THEN rows ELSE <<>>, IF kind = "pose" THEN rows ELSE <<>>,
                IF kind = "hands" THEN rows ELSE <<>>, kind = "hands", 0, Len(input) + 1)

PerWindow == [k \in 1..Len(Windows) |-> Metrics(Windows[k])]
Aggregated == AggVisual(PerWindow)

\* No window's share of frames is rounded to nothing; or to something else.
SeenIn(window) == Cardinality({i \in 1..Len(window) : input[window[i]] # None})
RatioOf(window) == Rounded(Parts * SeenIn(window), Len(window))
NotDropped == \A k \in 1..Len(Windows) : SeenIn(Windows[k]) > 0 => RatioOf(Windows[k]) > 0
NotRounded == \A k \in 1..Len(Windows) :
  Len(Windows[k]) > 0 => RatioOf(Windows[k]) * Len(Windows[k]) = Parts * SeenIn(Windows[k])

\* A gesture is a move that is fast in shoulder widths, and the width is the
\* mean over the window that is measured: here no window that tells of gestures
\* has another than the turn.
SameWidth ==
  LET seen(window) == SelectSeq(Rows(window), LAMBDA r : r.pose)
      width(window) == Mean(Column(seen(window), "shW")) IN
  \A k \in 1..Len(Windows) : Len(seen(Windows[k])) > 1 => Same(width(Windows[k]), width(Turn))

\* Blinks and gestures are counted window by window and added up: a turn has
\* as many, but for an eye that is shut over a cut, which is counted on both
\* sides, and a gesture over a cut, which is on neither; windows with too few
\* detections to weigh are the only ones left out.  Of gestures that is so as
\* long as the windows share one mean shoulder width.  Means over windows are
\* those over all frames.  And of each window the model is told that it shows
\* no face exactly when no frame does.
CountsAddUp ==
  kind \in {"face", "pose"} /\ Aggregated # None /\ NotDropped =>
    LET whole == Metrics(Turn)
        cuts == Len(Windows) - 1
        told(k) == UNION {s.lines : s \in GroundingBlock(PerWindow[k], None)} IN
    /\ \A k \in 1..Len(Windows) :
         /\ PerWindow[k] # None => ~DescribeVisual(PerWindow[k]).raises
         /\ kind = "face" /\ Windows[k] # <<>> => ("no face" \in told(k)) = (SeenIn(Windows[k]) = 0)
    /\ "blink_count" \in DOMAIN whole =>
         /\ Aggregated.blink_count \in whole.blink_count..(whole.blink_count + cuts)
         /\ NotRounded => Same(Aggregated.smile_mean, whole.smile_mean)
    /\ "gesture_events" \in DOMAIN whole /\ SameWidth =>
         Aggregated.gesture_events \in (whole.gesture_events - cuts)..whole.gesture_events

\* The fingers shown: between two segments the count changes; each begins and
\* ends with a stable run of its count, and every stable run of a window is in
\* one.
Stable(window) ==
  LET seen == SelectSeq(Rows(window), LAMBDA r : r.hands > 0)
      sm == Smoothed(Column(seen, "fingers"))
      run(i, j) == /\ \A k \in i..j : sm[k] = sm[i]
                   /\ (i > 1 => sm[i - 1] # sm[i]) /\ (j < Len(sm) => sm[j + 1] # sm[i]) IN
  {[count |-> sm[p[1]], start_s |-> seen[p[1]].t, end_s |-> seen[p[2]].t] :
     p \in {q \in (1..Len(sm)) \X (1..Len(sm)) :
              q[1] <= q[2] /\ run(q[1], q[2]) /\ seen[q[2]].t - seen[q[1]].t >= SegMin}}

FingersFaithful ==
  kind = "hands" =>
    LET segs == MergeFingers(There(PerWindow))
        stable == UNION {Stable(Windows[k]) : k \in 1..Len(Windows)} IN
    /\ \A k \in 1..(Len(segs) - 1) :
         segs[k].count # segs[k + 1].count /\ segs[k].end_s < segs[k + 1].start_s
    /\ \A k \in 1..Len(segs) :
         /\ \E r \in stable : r.count = segs[k].count /\ r.start_s = segs[k].start_s
         /\ \E r \in stable : r.count = segs[k].count /\ r.end_s = segs[k].end_s
    /\ \A r \in stable : \E k \in 1..Len(segs) :
         segs[k].count = r.count /\ segs[k].start_s <= r.start_s /\ r.end_s <= segs[k].end_s

\* Both of what the face and the body, and of what the hands show.
VisualAddsUp == CountsAddUp /\ FingersFaithful

\* The turn's aggregate has the shape of a window's, so that it can be described
\* as one is ("집계 shape = per-구간 shape", emit/handoff.py:10): no value in it
\* is None.
AggregateHasWindowShape ==
  kind = "pose" /\ Aggregated # None =>
    /\ \A key \in DOMAIN Aggregated \cap {"posture_std", "wrist_visible", "wrist_motion"} : Aggregated[key] # None
    /\ ~DescribeVisual(Aggregated).raises

-----------------------------------------------------------------------------
\* The silences of a window, from their definition.
InnerSilences(silent) ==
  {p \in (1..Len(silent)) \X (1..Len(silent)) :
     /\ p[1] > 1 /\ p[2] < Len(silent) /\ p[2] - p[1] + 1 >= Junction
     /\ \A i \in p[1]..p[2] : silent[i]
     /\ ~silent[p[1] - 1] /\ ~silent[p[2] + 1]}

\* Pauses are those between sounding frames, in both definitions, where the
\* second adds the one a window begins with; a turn has as many as its windows,
\* and the longest of all; its rate lies between theirs.
PausesAddUp ==
  kind = "voice" =>
    LET lane == [k \in 1..Len(Windows) |-> Extract(Frames(Windows[k]))]
        heard == There(lane)
        vocal == AggVocal(lane)
        long == Chosen(Windows, {k \in 1..Len(Windows) : Len(Windows[k]) >= MinDuration})
        runsOf(w) == SilenceRuns(Silent(Column(Frames(w), "db")))
        all == FlattenSeq([k \in 1..Len(long) |-> runsOf(long[k])]) IN
    /\ \A k \in 1..Len(long) :
         LET silent == Silent(Column(Frames(long[k]), "db"))
             inner == InnerSilences(silent)
             positions == Positions(silent) IN
         /\ Len(runsOf(long[k])) = Cardinality(inner)
         /\ {<<p[1] - 1, p[2] - p[1] + 1>> : p \in inner}
              = {<<positions[i].at, positions[i].len>> : i \in {j \in 1..Len(positions) : positions[j].at > 0}}
    /\ vocal # None =>
         /\ vocal.pauses.pause_count + vocal.pauses.short_juncture_count = Len(all)
         /\ vocal.pauses.longest_pauses_s = Longest(all)
         /\ \E j, k \in 1..Len(heard) : /\ AtMost(heard[j].rate.speech_rate, vocal.rate.speech_rate)
                                        /\ AtMost(vocal.rate.speech_rate, heard[k].rate.speech_rate)
         /\ Same(vocal.rate.speech_rate, <<vocal.rate.syllable_nuclei, vocal.duration_s>>)

-----------------------------------------------------------------------------
\* What stands out, what the fragment says, and both of the whole.
Standing(h, hi, score) ==
  LET chosen == {hi[k] : k \in 1..Len(hi)} IN
  /\ Len(hi) <= MaxHighlights
  /\ \A i \in chosen : score[i] > 0
  /\ \A i \in chosen, j \in 1..Len(score) \ chosen :
       score[j] < score[i] \/ (score[j] = score[i] /\ i < j)
  /\ Len(hi) < MaxHighlights => \A j \in 1..Len(score) \ chosen : score[j] = 0
  /\ \A i \in chosen :
       Reasons(h.sentences[i], ArticMean(h.sentences)) = {} => h.sentences[i].nv.state = "neutral"

Retold(h, frag) ==
  /\ h.speech # None => frag.vocal = DescribeVocal(h.speech) \ {"no intonation"}
  /\ h.visual # None /\ h.visual.face_frames > 0 =>
       ("hands unobservable" \in frag.visual <=> "gestures" \notin DescribeVisual(h.visual).lines)

\* The measures of what was seen that a turn's hand-off is made of; and whether
\* a body was seen in some of them, and in all of those too little to tell of
\* its wrists.
Watched(records) ==
  LET of(type) == {i \in 1..Len(records) : records[i].type = type} IN
  IF of("sentence") # {} THEN {records[i].visual : i \in of("sentence")}
  ELSE {records[i].objective_visual : i \in of("eval")}

Glimpsed(visuals) ==
  LET bodies == {v \in visuals \ {None} : Get(v, "pose_frames", 0) * Get(v, "pose_seen_ratio", 0) > 0} IN
  bodies # {} /\ \A v \in bodies : Get(v, "wrist_visible", None) = None

OfTurn(h, answer, ends, sents) ==
  /\ h = None <=> ends = {}
  /\ h = BuildRaised <=> ends # {} /\ Glimpsed(Watched(input))
  /\ answer = BuildRaised <=> h = BuildRaised
  /\ h \notin {None, BuildRaised} =>
       /\ h.t = input[Max(ends)].t
       /\ Len(h.sentences) = Cardinality(sents)
       /\ h.coverage.speech = Cardinality({i \in sents : input[i].speech # None})
       /\ \A i, j \in 1..Len(h.sentences) : i < j => h.sentences[i].start_s <= h.sentences[j].start_s
       /\ Standing(h, Highlights(h.sentences),
                   [i \in 1..Len(h.sentences) |-> Score(h.sentences[i], ArticMean(h.sentences))])
       /\ Retold(h, Fragment(h))
       /\ answer.transcriptFull \in {<<>>, h.transcript}

\* From the first turn_end on there is a hand-off, that of the last one, unless
\* the turn's measures of the body are all of a single detection, when building
\* it raises and GET /signals fails with it (describe_visual,
\* analysis/grounding.py:504, from emit/handoff.py:288): one measure of two
\* detections is enough for the whole turn.  The highlights are the sentences
\* that stand out most, the earlier first among equals, and never one that does
\* not; each measure counts the sentences that have it.  The fragment says of
\* the measures what the block says, and forbids to judge the hands exactly when
\* the block does not report them; a highlight without a reason is one of a
\* neutral state that was read as intense.  The payload's two transcripts agree.
\* Nothing is claimed of quotations in the fragment: its docstring forbids them
\* (emit/handoff.py:302), but it lets through what stands behind a dash of the
\* sentence's own (Requoted).
HandoffFaithful ==
  kind = "record" =>
    OfTurn(Build(input), Payload(input), {i \in 1..Len(input) : input[i].type = "turn_end"},
           {i \in 1..Len(input) : input[i].type = "sentence"})

-----------------------------------------------------------------------------
Answer == LastOfEach

\* Where a cut loses the answer.
Lost == {"key string", "escaped key", "unicode key", ":", "escaped", "unicode", "literal"}

Places(what) == {i \in 1..Len(input) : input[i] = what}

\* An answer that is cut off is saved, whatever brackets and strings are open,
\* except within a key, before its colon, within a number or a word that is none
\* yet, and within an escape; what is saved begins with the answer up to its
\* last comma.  Whatever types its values
\* have, the state is a known one, the intensity in its range, and an
\* evaluation, if it does not fail, keeps a beginning of the critique; a stream
\* loses no delta to a line that is none.
AnswersSaved ==
  /\ kind = "json" /\ input # <<>> =>
       LET next == Parse(input).next
           saved == ExtractJson(input) IN
       IF next \in Lost THEN saved = None
       ELSE saved # None /\ IsPrefix(NoCommas(input), saved)
  /\ kind = "reply" =>
       /\ ReadNonverbal(Answer).state \in States
       /\ ReadNonverbal(Answer).intensity \in 0..MaxLevel
       /\ \A compact \in BOOLEAN :
            LET ev == EvaluateWindow(Answer, compact) IN
            /\ (ev = Failed) => \E key \in DOMAIN Answer : ~Iterable(Answer[key])
            /\ ev # Failed => /\ "critique" \in DOMAIN Answer => IsPrefix(ev.critique, Answer["critique"].of)
                              /\ compact => Len(ev.key_observations) <= 1
  /\ kind = "sse" => Deltas(input) = Deltas(Chosen(input, Places("delta") \union Places("done")))

-----------------------------------------------------------------------------
Sums(s) == [i \in 1..Len(s) |-> Running(s)[i]]

\* A sentence of the media that is input: from "begin" to the end.
Ticks(i) == Cardinality({j \in Places("tick") : j <= i})
Begin == IF Places("begin") = {} THEN 0 ELSE Ticks(Min(Places("begin")))
Media(what) ==
  LET at == Chosen([i \in 1..Len(input) |-> i], Places(what)) IN
  [i \in 1..Len(at) |-> [t |-> Ticks(at[i]), id |-> at[i]]]
Said == [start_s |-> Begin, end_s |-> Ticks(Len(input)), text |-> "said"]
Bytes == [i \in 1..(2 * Len(Media("pcm"))) |-> Media("pcm")[(i + 1) \div 2]]
Result(channel) == IF ("no " \o channel) \in ToSet(input) THEN Raised ELSE [of |-> channel]

SentenceKept ==
  kind = "sentence" =>
    LET frames == Slice(Media("frame"), Begin, Said.end_s)
        rec == SentenceRecord(DoSentence(Said, [frames |-> Media("frame"), pcm |-> Bytes],
                 [vision |-> Result("vision"), prosody |-> Result("prosody"), read |-> Result("read")]))
        every == (Len(frames) + FrameCap - 1) \div FrameCap IN
    /\ (rec.visual = None) = (Result("vision") = Raised)
    /\ (rec.speech = None) = (Result("prosody") = Raised \/ Slice(Bytes, Begin, Said.end_s) = <<>>)
    /\ (rec.nonverbal = None) = (Result("read") = Raised \/ frames = <<>>)
    /\ rec.nonverbal # None =>
         LET shown == rec.nonverbal.video
             place(f) == CHOOSE i \in 1..Len(frames) : frames[i] = f IN
         /\ rec.nonverbal.vision = rec.visual /\ rec.nonverbal.prosody = rec.speech
         /\ \A i \in 1..(Len(shown) - 1) :
              place(shown[i]) < place(shown[i + 1]) /\ place(shown[i + 1]) - place(shown[i]) <= every
         /\ Len(frames) - place(Last(shown)) < every
         /\ Said.end_s - Begin <= 2 * VideoMax =>
              shown[1] = frames[1] /\ Len(shown) = Min({FrameCap, Len(frames)})
         /\ LET heard == rec.nonverbal.audio IN
            \A i \in 1..(Len(heard) \div 2) : heard[2 * i - 1] = heard[2 * i]

\* The windower gets every frame that is due and no two closer than Interval,
\* so a stretch with none is shorter than Interval and one gap; the dense lane
\* gets all.  Of the audio no sample is lost, doubled or out of order, and where
\* the clock is the chunks' own, each begins where the one before it ended.  The
\* model is shown frames of the whole of a sentence that is no longer than a clip
\* may be, of a longer one an even sample of the latest (its beginning is cut
\* off), with the numbers the record has, and every channel of the record is
\* there but for its own failure.
MediaKept ==
  /\ SentenceKept
  /\ kind = "video" /\ input # <<>> =>
       LET times == Sums(input)
           got == ConsumeVideo(times)
           gap == Max({input[i] : i \in 1..Len(input)}) IN
       /\ Len(got.dense) = Len(input)
       /\ got.frames[1] = 0
       /\ \A i \in 1..(Len(got.frames) - 1) :
            Interval <= got.frames[i + 1] - got.frames[i] /\ got.frames[i + 1] - got.frames[i] < Interval + gap
       /\ Last(got.dense) - Last(got.frames) < Interval
  /\ kind = "audio" =>
       LET lk == ConsumeAudioLk(input)
           rtc == ConsumeAudio(input) IN
       /\ \A i \in 1..(Len(lk) - 1) : lk[i].t + lk[i].dur = lk[i + 1].t
       /\ FlattenSeq(Column(rtc, "pcm")) = Upto(Total(input))
       /\ \A i \in 1..(Len(rtc) - 1) : rtc[i].t <= rtc[i + 1].t

-----------------------------------------------------------------------------
\* The settings that were made, the last of each counts.
Env == LastOfEach

\* What becomes of a window's words, with the vLLM up or not.
Hears(env, up) ==
  LET whisper == IF Whisper(env, <<1>>, 16) = "raises" THEN Failed ELSE [text |-> Whisper(env, <<1>>, 16)]
      gemma == IF up THEN [text |-> "text"] ELSE Failed
      chosen == BuildTranscriber(env) IN
  CASE chosen = <<"gemma">> -> gemma
    [] chosen = <<"whisper">> -> whisper
    [] OTHER -> Transcribe(gemma, whisper)

\* Whatever the environment says and lacks, a service that starts has one way
\* to hear a turn's words and at most one to evaluate it, and where it does, it
\* evaluates the end as well; who counts sentences has sentences; every lane has
\* an executor; the detectors are at least those of a face and a body, or none;
\* a token it makes is for the session's room, unseen and mute.  A transcriber
\* chosen wrongly shows at start; with "auto" words are lost only if both fail.
StartsWhole ==
  kind = "settings" =>
    \A given \in SUBSET LaneNames :
      LET sub == BuildSubscriber(Env, "here", given)
          w == sub.windower IN
      /\ BuildTranscriber(Env) = Refused <=> Get(Env, "STT", "gemma") \notin {"gemma", "whisper", "auto"}
      /\ Get(Env, "STT", "gemma") = "auto" =>
           /\ Hears(Env, TRUE) # Failed
           /\ (Hears(Env, FALSE) = Failed) = ~IsSet(Env, "faster_whisper")
      /\ w.executors = Refused <=> given # LaneNames /\ "nv" \in given
      /\ w.executors # Refused => DOMAIN w.executors = LaneNames
      /\ w.tracker = (w.words = {"sentences"})
      /\ "sentence count" \in w.evals => w.tracker
      /\ Cardinality(w.words) = 1 /\ Cardinality(w.evals) <= 1
      /\ (w.evals # {}) = w.tail
      /\ sub.lanes.vision = {} \/ {"face", "pose"} \subseteq sub.lanes.vision
      /\ sub.lanes.vision # {} => Get(Env, "VISION", "auto") # "off"
      /\ \/ IsSet(Env, "TOKEN") \/ sub.config.token = None
         \/ /\ sub.config.token.room = sub.config.room
            /\ sub.config.token.hidden /\ "publish" \notin sub.config.token.grants
=============================================================================
