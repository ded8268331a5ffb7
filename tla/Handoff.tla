------------------------------- MODULE Handoff -------------------------------
(***************************************************************************)
(* giljobe.emit.handoff: the records of a turn made into one hand-off for  *)
(* the interviewer.  A prompt section is the set of its lines, a line the  *)
(* name of what it says.                                                   *)
(***************************************************************************)
EXTENDS Grounding, Prosody

CONSTANTS
  MaxHighlights,               \* MAX_HIGHLIGHTS
  EnergyJump, RateOff,         \* 2.0 dB and 1.0 syllable/s
  MaxNotes                     \* notes that are kept: 3

ASSUME HandoffAssumption == MaxHighlights \in Nat

There(metrics) == Chosen(metrics, {i \in 1..Len(metrics) : metrics[i] # None})
Each(ms, part) == [i \in 1..Len(ms) |-> ms[i][part]]
Sum(ms, key) == Total([i \in 1..Len(ms) |-> Get(ms[i], key, 0)])

\* The weighted mean of a value over windows.
Weigh(ms, key, weight(_)) ==
  WeightedMean([i \in 1..Len(ms) |-> [v |-> Get(ms[i], key, None), w |-> weight(ms[i])]])

\* _agg_pitch: by voiced frames, over the windows that have a pitch; without
\* any, only how much was voiced.
AggPitch(ms) ==
  LET pitches == Each(ms, "pitch")
      valid == SelectSeq(pitches, LAMBDA p : "sd_semitone" \in DOMAIN p)
      long == SelectSeq(ms, LAMBDA m : "sd_semitone" \in DOMAIN m.pitch)
      voicedRatio(of) == WeightedMean([i \in 1..Len(of) |->
                           [v |-> Get(of[i].pitch, "voiced_ratio", None), w |-> of[i].duration_s]])
      frames(p) == p.voiced_frames IN
  IF valid = <<>> THEN [voiced_ratio |-> voicedRatio(ms)]
  ELSE [voiced_frames |-> Sum(valid, "voiced_frames"), voiced_ratio |-> voicedRatio(long),
        mean_hz |-> Weigh(valid, "mean_hz", frames), sd_semitone |-> Weigh(valid, "sd_semitone", frames)]

\* Faulty variant: the mean of the windows' rates.
AggRateMean(ms, dur) ==
  [syllable_nuclei |-> Sum(Each(ms, "rate"), "syllable_nuclei"),
   speech_rate |-> WeightedMean([i \in 1..Len(ms) |-> [v |-> ms[i].rate.speech_rate, w |-> 1]]),
   articulation_rate |-> None, intensity_peak_nuclei |-> 0]

\* _agg_rate: sums, and the rates anew from them.
AggRate(ms, dur) ==
  LET rates == Each(ms, "rate")
      nuclei == Sum(rates, "syllable_nuclei")
      phonation == Sum(rates, "phonation_s") IN
  [syllable_nuclei |-> nuclei,
   speech_rate |-> IF dur = 0 THEN None ELSE <<nuclei, dur>>,
   articulation_rate |-> IF phonation = 0 THEN None ELSE <<nuclei, phonation>>,
   intensity_peak_nuclei |-> Sum(rates, "intensity_peak_nuclei")]

\* _agg_pauses
AggPauses(ms) ==
  LET pauses == Each(ms, "pauses")
      runs(p) == p.pause_count + p.short_juncture_count IN
  [pause_count |-> Sum(pauses, "pause_count"),
   short_juncture_count |-> Sum(pauses, "short_juncture_count"),
   juncture_median_s |-> Weigh(pauses, "juncture_median_s", runs),
   longest_pauses_s |-> Longest(FlattenSeq(Each(pauses, "longest_pauses_s")))]

\* _agg_energy: trends within windows only.
AggEnergy(ms) ==
  LET valid == SelectSeq(ms, LAMBDA m : "half_to_half_delta_db" \in DOMAIN m.energy)
      troughs == [i \in 1..Len(valid) |-> valid[i].energy.sounding_trough_db[1]] IN
  IF valid = <<>> THEN [note |-> "none"]
  ELSE [half_to_half_delta_db |-> WeightedMean([i \in 1..Len(valid) |->
          [v |-> valid[i].energy.half_to_half_delta_db, w |-> valid[i].duration_s]]),
        sounding_trough_db |-> <<Ascending(troughs)[1], 1>>]

AggVocal(metrics) ==
  LET ms == There(metrics)
      dur == Sum(ms, "duration_s") IN
  IF ms = <<>> THEN None
  ELSE [windows |-> Len(ms), duration_s |-> dur, pitch |-> AggPitch(ms), rate |-> AggRate(ms, dur),
        pauses |-> AggPauses(ms), energy |-> AggEnergy(ms)]

-----------------------------------------------------------------------------
\* _agg_lane: means by the frames that were detected, which are worked out
\* from the rounded ratio; a window where that is 0 has no part in it.
AggLane(ms, framesKey, ratioKey, keys, sums, maxes) ==
  LET detected(m) == Get(m, framesKey, 0) * Get(m, ratioKey, 0)
      det == Total([i \in 1..Len(ms) |-> detected(ms[i])])
      seen == SelectSeq(ms, LAMBDA m : detected(m) > 0)
      total == Sum(ms, framesKey)
      coverage == [k \in {framesKey, ratioKey} |->
                     IF k = framesKey THEN total ELSE IF total = 0 THEN 0 ELSE Rounded(det, total)]
      summed == [k \in sums |-> Sum(seen, k)]
      highest == [k \in maxes |-> Highest([i \in 1..Len(seen) |-> Get(seen[i], k, 0)])] IN
  IF det = 0 THEN coverage
  ELSE Merged(coverage, Merged([k \in keys |-> Weigh(ms, k, detected)], Merged(summed, highest)))

\* _merge_finger_segments: those of all windows by their start.
MergeFingers(ms) ==
  LET all == FlattenSeq([i \in 1..Len(ms) |-> Get(ms[i], "finger_segments", <<>>)]) IN
  FoldLeft(Joined, <<>>, SortedBy(all, Column(all, "start_s")))

AggHands(ms) ==
  LET segs == MergeFingers(ms)
      lane == AggLane(ms, "hand_frames", "hand_seen_ratio", {}, {}, {}) IN
  IF segs = <<>> THEN lane ELSE Merged(lane, [finger_segments |-> segs, finger_sequence |-> Shown(segs)])

AggVisual(metrics) ==
  LET ms == There(metrics)
      face == AggLane(ms, "face_frames", "face_seen_ratio", {"smile_mean", "smile_ratio", "lip_motion"},
                      {"blink_count"}, {"smile_max"})
      pose == AggLane(ms, "pose_frames", "pose_seen_ratio", {"posture_std", "wrist_visible", "wrist_motion"},
                      {"gesture_events"}, {})
      both == Merged([windows |-> Len(ms)], Merged(face, pose)) IN
  IF ms = <<>> THEN None
  ELSE IF \E i \in 1..Len(ms) : "hand_frames" \in DOMAIN ms[i] THEN Merged(both, AggHands(ms)) ELSE both

\* agg_nonverbal: how often each state was read, and the last notes.
AggNonverbal(nvs) ==
  LET states == {nvs[i].state : i \in 1..Len(nvs)}
      notes == Column(SelectSeq(nvs, LAMBDA nv : nv.note # ""), "note") IN
  IF nvs = <<>> THEN [windows |-> 0]
  ELSE [windows |-> Len(nvs),
        states |-> [s \in states |-> <<Len(SelectSeq(nvs, LAMBDA nv : nv.state = s)), Len(nvs)>>],
        intensity_mean |-> Mean(Column(nvs, "intensity")),
        notes |-> SubSeq(notes, IF Len(notes) > MaxNotes THEN Len(notes) - MaxNotes + 1 ELSE 1, Len(notes))]

-----------------------------------------------------------------------------
\* _sentence_row: what is handed on of a sentence.
SentenceRow(r) ==
  LET sp == r.speech
      vis == r.visual IN
  [start_s |-> r.start_s, text |-> r.text, nv |-> r.nonverbal,
   artic |-> IF sp = None THEN None ELSE sp.rate.articulation_rate,
   pauses |-> IF sp = None THEN 0 ELSE sp.pauses.pause_count,
   energy |-> IF sp = None THEN None ELSE Get(sp.energy, "half_to_half_delta_db", None),
   smile |-> IF vis = None THEN None ELSE Get(vis, "smile_mean", None)]

Jumps(row) == row.energy # None /\ (AtMost(<<EnergyJump, 1>>, row.energy) \/ AtMost(row.energy, <<-EnergyJump, 1>>))
Halting(row) == row.pauses >= 2
Telling(row) == row.nv # None /\ (row.nv.state # "neutral" \/ row.nv.intensity >= 50)
Offbeat(row, mean) ==
  /\ row.artic # None /\ mean # None
  /\ ~(AtMost(row.artic, Plus(mean, <<RateOff, 1>>)) /\ AtMost(mean, Plus(row.artic, <<RateOff, 1>>)))

\* _highlight_score
Score(row, mean) ==
  Cardinality({k \in 1..4 : \/ k = 1 /\ Jumps(row)
                            \/ k = 2 /\ Halting(row)
                            \/ k = 3 /\ Telling(row)
                            \/ k = 4 /\ Offbeat(row, mean)})

ArticMean(rows) ==
  LET artics == SelectSeq(Column(rows, "artic"), LAMBDA a : a # None) IN
  WeightedMean([i \in 1..Len(artics) |-> [v |-> artics[i], w |-> 1]])

\* Faulty variant: the last ones first among equal scores.
ByScoreLate(rows) ==
  Reverse(SortedBy([i \in 1..Len(rows) |-> i], [i \in 1..Len(rows) |-> Score(rows[i], ArticMean(rows))]))

\* The sort by score is stable.
ByScore(rows) ==
  SortedBy([i \in 1..Len(rows) |-> i], [i \in 1..Len(rows) |-> -Score(rows[i], ArticMean(rows))])

\* _render_highlights: the first few, up to the first without a score.
Highlights(rows) ==
  LET first == SubSeq(ByScore(rows), 1, IF Len(rows) < MaxHighlights THEN Len(rows) ELSE MaxHighlights) IN
  Chosen(first, {k \in 1..Len(first) : Score(rows[first[k]], ArticMean(rows)) > 0})

\* What a highlight's line gives as its reasons.
Reasons(row, mean) ==
  (IF Jumps(row) THEN {"energy"} ELSE {}) \union (IF Halting(row) THEN {"pauses"} ELSE {})
  \union (IF row.nv # None /\ row.nv.state # "neutral" THEN {"state"} ELSE {})
  \union (IF Offbeat(row, mean) THEN {"pace"} ELSE {})

\* render_prompt_block: its sections, the empty ones left out; and whether it
\* raises, as describe_visual does of a value that is None.
PromptBlock(h) ==
  LET section(name, lines) == IF lines = {} THEN <<>> ELSE <<[section |-> name, lines |-> lines]>>
      hi == Highlights(h.sentences) IN
  [sections |-> section("speech", IF h.speech = None THEN {} ELSE DescribeVocal(h.speech))
                \o section("visual", IF h.visual = None THEN {} ELSE DescribeVisual(h.visual).lines)
                \o section("nonverbal", IF h.nonverbal.windows = 0 THEN {} ELSE DOMAIN h.nonverbal.states)
                \o section("highlights", {hi[k] : k \in 1..Len(hi)})
                \o section("rules", {"rules"}),
   raises |-> h.visual # None /\ DescribeVisual(h.visual).raises]

\* render_prompt_fragment: the block on one line.  A highlight's line is cut at
\* its first dash, which is meant to be the one between the quotation and the
\* reasons, and left out if nothing comes after it: of a text with a dash of its
\* own (in what is quoted of it) the words after that dash remain.
Requoted(text) ==
  LET dash == SelectInSeq(text, LAMBDA word : word = "dash") IN
  IF dash = 0 THEN <<>> ELSE SubSeq(text, dash + 1, Len(text))

FragmentHighlights(rows) ==
  LET hi == Highlights(rows)
      line(i) == [said |-> Requoted(rows[i].text), reasons |-> Reasons(rows[i], ArticMean(rows))]
      left(i) == "dash" \in ToSet(rows[i].text) \/ Reasons(rows[i], ArticMean(rows)) # {} IN
  Chosen([k \in 1..Len(hi) |-> line(hi[k])], {k \in 1..Len(hi) : left(hi[k])})

FragmentVocal(m) ==
  (IF m.rate.syllable_nuclei = 0 /\ m.rate.intensity_peak_nuclei > 0 THEN {"unvoiced rate"}
   ELSE IF m.rate.articulation_rate # None THEN {"rate"} ELSE {})
  \union (IF "sd_semitone" \in DOMAIN m.pitch THEN {"intonation"}
          ELSE IF Whisperish(m.pitch) THEN {"whispered"} ELSE {})
  \union {"pauses"}
  \union (IF "half_to_half_delta_db" \in DOMAIN m.energy THEN {"loudness"} ELSE {})

FragmentVisual(m) ==
  LET wrists == Get(m, "wrist_visible", None) IN
  IF m.face_frames = 0 THEN {}
  ELSE {"smile"} \union (IF Get(m, "finger_sequence", <<>>) # <<>> THEN {"fingers"} ELSE {})
       \union (IF wrists = None \/ ~AtMost(<<WristObservable, Parts>>, wrists) THEN {"hands unobservable"} ELSE {})

Fragment(h) ==
  [vocal |-> IF h.speech = None THEN {} ELSE FragmentVocal(h.speech),
   visual |-> IF h.visual = None THEN {} ELSE FragmentVisual(h.visual),
   states |-> IF h.nonverbal.windows = 0 THEN {} ELSE DOMAIN h.nonverbal.states,
   highlights |-> FragmentHighlights(h.sentences)]

-----------------------------------------------------------------------------
OfType(records, type) == Chosen(records, {i \in 1..Len(records) : records[i].type = type})
Or(a, b) == IF a # <<>> THEN a ELSE b

\* What a call that raises comes to: no hand-off, and no answer.
BuildRaised == [raises |-> TRUE]

\* build_turn_handoff: None until there is a turn_end.  Sentences are the
\* source of all measures if there are any; else evaluations and windows.
Build(records) ==
  LET ends == OfType(records, "turn_end")
      sents == OfType(records, "sentence")
      evals == OfType(records, "eval")
      windows == OfType(records, "window")
      rows == SortedBy([i \in 1..Len(sents) |-> SentenceRow(sents[i])], Column(sents, "start_s"))
      h == [t |-> Last(ends).t,
            transcript |-> Or(Last(ends).transcript_full,
                              Column(SelectSeq(windows, LAMBDA w : w.transcript # ""), "transcript")),
            sentences |-> rows,
            speech |-> AggVocal(Or(Column(sents, "speech"), Column(evals, "objective_vocal"))),
            visual |-> AggVisual(Or(Column(sents, "visual"), Column(evals, "objective_visual"))),
            nonverbal |-> AggNonverbal(Or(There(Column(sents, "nonverbal")), There(Column(windows, "nonverbal"))))]
      block == PromptBlock(h) IN
  IF ends = <<>> THEN None
  ELSE IF block.raises THEN BuildRaised
  ELSE Merged(h, [prompt_block |-> block.sections,
                  coverage |-> [speech |-> Cardinality({i \in 1..Len(rows) : rows[i].artic # None}),
                                visual |-> Cardinality({i \in 1..Len(rows) : rows[i].smile # None}),
                                nv |-> Cardinality({i \in 1..Len(rows) : rows[i].nv # None})]])

\* signals_payload: what GET /signals answers of the records it finds; the
\* hand-off is built on the way.
Payload(records) ==
  LET ends == OfType(records, "turn_end")
      handoff == Build(records) IN
  IF handoff = BuildRaised THEN BuildRaised
  ELSE [records |-> records,
        transcriptFull |-> IF ends = <<>> THEN <<>> ELSE Last(ends).transcript_full,
        windowTranscripts |->
          Column(SelectSeq(OfType(records, "window"), LAMBDA w : w.transcript # ""), "transcript"),
        turnHandoff |-> handoff]
=============================================================================
