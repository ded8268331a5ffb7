------------------------------- MODULE Prosody -------------------------------
(***************************************************************************)
(* giljobe.analysis.prosody: what is measured on a window of audio.  The   *)
(* signal is a sequence of frames of one length, each with its level in    *)
(* dB, and with what Praat finds in it (external): whether it is a peak of *)
(* intensity and whether it is voiced, with its pitch.                     *)
(***************************************************************************)
EXTENDS Fractions

CONSTANTS
  MinDuration,       \* MIN_DURATION_S
  Junction, Pause,   \* JUNCTURE_S, PAUSE_S
  Offset,            \* silence_offset_db, and the 18 of silence_run_positions
  MinFrames,         \* the 8 frames a contour needs
  MinVoiced,         \* the 5 voiced frames a pitch needs
  MinSounding,       \* the 4 sounding frames an energy trend needs
  TopN               \* how many pauses are kept: 5

ASSUME ProsodyAssumption ==
  /\ MinDuration \in Nat \ {0} /\ TopN \in Nat
  /\ Junction \in Nat \ {0} /\ Pause \in Nat /\ Junction <= Pause

\* Percentiles of levels, and the level below which a frame is silent.
Threshold(level) == LET p == Percentile(level, 99) IN <<p[1] - Offset * p[2], p[2]>>
Silent(level) ==
  LET least == Threshold(level) IN
  [i \in 1..Len(level) |-> level[i] * least[2] < least[1]]

\* _silence_runs: the lengths of the silences between sounding frames.
Silenced(s, quiet) ==
  IF quiet THEN [s EXCEPT !.run = IF s.begun THEN @ + 1 ELSE 0]
  ELSE [begun |-> TRUE, run |-> 0, runs |-> IF s.run >= Junction THEN Append(s.runs, s.run) ELSE s.runs]

SilenceRuns(silent) ==
  LET upTo[n \in 0..Len(silent)] ==
        IF n = 0 THEN [begun |-> FALSE, run |-> 0, runs |-> <<>>] ELSE Silenced(upTo[n - 1], silent[n]) IN
  upTo[Len(silent)].runs

\* silence_run_positions: where the silences begin that a sounding frame ends,
\* with the one the window begins with.
Placed(s, silent, i) ==
  IF silent[i] THEN [s EXCEPT !.start = IF @ = 0 THEN i ELSE @]
  ELSE [start |-> 0,
        runs |-> IF s.start > 0 /\ i - s.start >= Junction
                 THEN Append(s.runs, [at |-> s.start - 1, len |-> i - s.start]) ELSE s.runs]

Positions(silent) ==
  LET upTo[n \in 0..Len(silent)] ==
        IF n = 0 THEN [start |-> 0, runs |-> <<>>] ELSE Placed(upTo[n - 1], silent, n) IN
  upTo[Len(silent)].runs

SilencePositions(level) == IF Len(level) < MinFrames THEN <<>> ELSE Positions(Silent(level))

-----------------------------------------------------------------------------
Longest(runs) == LET down == Descending(runs) IN
  IF Len(down) > TopN THEN SubSeq(down, 1, TopN) ELSE down

\* _rate_and_pauses: peaks that sound, and those of them that are voiced.
\* phonation_s is never zero.
Rate(frames, silent, runs) ==
  LET dur == Len(frames)
      phonation == dur - Total(runs)
      peaks == {i \in 1..dur : frames[i].peak /\ ~silent[i]}
      nuclei == {i \in peaks : frames[i].f0 > 0} IN
  [syllable_nuclei |-> Cardinality(nuclei),
   speech_rate |-> <<Cardinality(nuclei), dur>>,
   articulation_rate |-> <<Cardinality(nuclei), phonation>>,
   phonation_s |-> phonation,
   intensity_peak_nuclei |-> Cardinality(peaks)]

Pauses(runs) ==
  [pause_count |-> Cardinality({i \in 1..Len(runs) : runs[i] >= Pause}),
   short_juncture_count |-> Cardinality({i \in 1..Len(runs) : Junction <= runs[i] /\ runs[i] < Pause}),
   juncture_median_s |-> IF runs = <<>> THEN None ELSE Median(runs),
   longest_pauses_s |-> Longest(runs)]

\* _pitch_metrics; the other statistics over the voiced frames are like mean_hz.
Pitch(frames) ==
  LET voiced == SelectSeq(frames, LAMBDA f : f.f0 > 0)
      share == [voiced_frames |-> Len(voiced), voiced_ratio |-> <<Len(voiced), Len(frames)>>] IN
  IF Len(voiced) < MinVoiced THEN share
  ELSE Merged(share, [mean_hz |-> Mean(Column(voiced, "f0")), sd_semitone |-> Variance(Column(voiced, "f0"))])

\* _energy_metrics: the louder frames, and their second half against the first.
Energy(level) ==
  LET p40 == Percentile(level, 40)
      sounding == SelectSeq(level, LAMBDA x : x * p40[2] > p40[1])
      half == Len(sounding) \div 2
      first == Median(SubSeq(sounding, 1, half))
      second == Median(SubSeq(sounding, half + 1, Len(sounding))) IN
  IF Len(level) < MinFrames \/ Len(sounding) < MinSounding THEN [note |-> "none"]
  ELSE [half_to_half_delta_db |-> <<second[1] - first[1], 2>>,
        sounding_trough_db |-> <<Ascending(sounding)[1], 1>>]

\* extract: None for a window that is too short.
Extract(frames) ==
  LET level == Column(frames, "db")
      silent == Silent(level)
      runs == SilenceRuns(silent) IN
  IF Len(frames) < MinDuration THEN None
  ELSE [duration_s |-> Len(frames), pitch |-> Pitch(frames), rate |-> Rate(frames, silent, runs),
        pauses |-> Pauses(runs), energy |-> Energy(level)]

-----------------------------------------------------------------------------
Whisperish(pitch) == LET vr == Get(pitch, "voiced_ratio", None) IN
  vr # None /\ ~AtMost(<<15, 100>>, vr)

\* describe_vocal: the lines, each with what is put in it.
DescribeVocal(m) ==
  (IF "sd_semitone" \in DOMAIN m.pitch THEN {"intonation"}
   ELSE {"no intonation"} \union (IF Whisperish(m.pitch) THEN {"whispered"} ELSE {}))
  \union (IF m.rate.syllable_nuclei = 0 /\ Get(m.rate, "intensity_peak_nuclei", 0) > 0
          THEN {"unvoiced rate"} ELSE {"rate"})
  \union {"pauses"}
  \union (IF "half_to_half_delta_db" \in DOMAIN m.energy THEN {"loudness"} ELSE {})
=============================================================================
