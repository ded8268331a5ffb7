------------------------------ MODULE MCMeasures ------------------------------
(***************************************************************************)
(* Finite instances for TLC of the dense lane and of the functions that    *)
(* measure what it sees, and all else that is measured.  A behaviour is    *)
(* one of the lane, or the growth of one input of the functions.           *)
(***************************************************************************)
EXTENDS Measures, DenseLane, Sinks

Face(smile, blink, lips) == [smile |-> smile, blink |-> blink, lips |-> lips]
Pose(x, vis, width) ==
  [shW |-> width, shMid |-> x, wr |-> [l |-> [x |-> 2 * x, vis |-> vis], r |-> [x |-> x, vis |-> 1]]]
Hand(n) == [palm |-> 10, thumb |-> 5, fingers |-> [i \in 1..4 |-> [pip |-> 10, tip |-> IF i <= n THEN 20 ELSE 5]]]
Sound(db, peak, f0) == [db |-> db, peak |-> peak, f0 |-> f0]

Speech(nuclei, delta, pauses) ==
  [duration_s |-> 4, pitch |-> [voiced_frames |-> 2, voiced_ratio |-> <<2, 4>>],
   rate |-> [syllable_nuclei |-> nuclei, speech_rate |-> <<nuclei, 4>>, articulation_rate |-> <<nuclei, 2>>,
             phonation_s |-> 2, intensity_peak_nuclei |-> nuclei],
   pauses |-> [pause_count |-> pauses, short_juncture_count |-> 0, juncture_median_s |-> None,
               longest_pauses_s |-> <<>>],
   energy |-> [half_to_half_delta_db |-> <<delta, 2>>, sounding_trough_db |-> <<-5, 1>>]]
Nv(state, intensity) == [state |-> state, intensity |-> intensity, note |-> "n"]
Visual(wrists) ==
  [face_frames |-> 2, face_seen_ratio |-> 1, smile_mean |-> <<1, 1>>, smile_ratio |-> <<1, 1>>, smile_max |-> 1,
   blink_count |-> 1, lip_motion |-> <<1, 1>>, pose_frames |-> 2, pose_seen_ratio |-> 2,
   posture_std |-> <<1, 1>>, wrist_visible |-> wrists, wrist_motion |-> <<1, 1>>, gesture_events |-> 1]
Glimpse == [face_frames |-> 1, face_seen_ratio |-> 0, pose_frames |-> 2, pose_seen_ratio |-> 1]
Sentence(start, text, speech, visual, nv) ==
  [type |-> "sentence", start_s |-> start, text |-> text, speech |-> speech, visual |-> visual, nonverbal |-> nv]
Entry(key, value) == [key |-> key, value |-> value]
Number(n) == [is |-> "number", n |-> n]

Alphabet ==
  [face  |-> {None, Face(0, 0, 0), Face(2, 2, 1), Cut},
   pose  |-> {None, Pose(0, 2, 1), Pose(1, 2, 1), Pose(1, 0, 1), Pose(1, 2, 3), Cut},
   hands |-> {None, <<Hand(0)>>, <<Hand(2)>>, Cut},
   voice |-> {Sound(-30, FALSE, 0), Sound(-1, TRUE, 120), Sound(0, FALSE, 100), Sound(0, TRUE, 0), Cut},
   record |-> {[type |-> "turn_end", t |-> 7, transcript_full |-> <<"all">>],
               [type |-> "turn_end", t |-> 9, transcript_full |-> <<>>],
               [type |-> "window", transcript |-> "some", nonverbal |-> Nv("hesitant", 70)],
               [type |-> "eval", objective_vocal |-> Speech(2, 0, 1), objective_visual |-> Visual(<<1, 1>>)],
               [type |-> "eval", objective_vocal |-> None, objective_visual |-> Glimpse],
               Sentence(1, <<"word">>, Speech(2, 0, 0), Visual(<<0, 1>>), None),
               Sentence(1, <<"word">>, None, Glimpse, Nv("nervous", 20)),
               Sentence(2, <<"word", "dash", "word">>, Speech(2, -5, 0), None, None),
               Sentence(3, <<"word">>, Speech(0, 0, 0), Visual(<<1, 1>>), Nv("neutral", 50))},
   json  |-> {"{", "}", "[", "]", ":", ",", "\"", "\\", ".", "u", "x"},
   reply |-> {Entry(key, value) : key \in {"state", "intensity", "critique", "summary", "key_observations"},
                value \in {Number(-1), Number(3), [is |-> "NaN"], [is |-> "null"], [is |-> "text", of |-> <<"nervous">>],
                          [is |-> "list", of |-> <<"a", "b", "c">>]}},
   sse   |-> {"delta", "done", "junk", "heartbeat", "no content"},
   sentence |-> {"frame", "pcm", "tick", "begin", "no vision", "no prosody", "no read"},
   settings |->
     {Entry("STT", v) : v \in {"gemma", "whisper", "auto", "wisper"}}
     \union {Entry("TRANSCRIPT_SOURCE", v) : v \in {"internal", "external"}}
     \union {Entry("EVAL_GRID", v) : v \in {"sentence", "off"}}
     \union {Entry("VISION_MODELS_DIR", v) : v \in {{"face"}, {"face", "pose"}, {"face", "pose", "hand"}}}
     \union {Entry(k, "off") : k \in {"VISION", "PROSODY"}}
     \union {Entry(k, TRUE) : k \in {"mediapipe", "parselmouth", "faster_whisper", "API_KEY", "API_SECRET", "TOKEN"}},
   video |-> 0..3,
   audio |-> 1..3]

MCItems(k) == Alphabet[k]
MCMaxItems(k) ==
  CASE k = "hands" -> 7 [] k \in {"face", "voice"} -> 6 [] k = "json" -> 10 [] k \in {"reply", "settings"} -> 3
    [] k = "sentence" -> 6 [] OTHER -> 5

MCInit == MeasuresInit /\ DenseInit /\ SinksInit
MCNext ==
  \/ kind = "lanes" /\ DenseNext /\ UNCHANGED <<mvars, kvars>>
  \/ kind = "sinks" /\ SinksNext /\ UNCHANGED <<mvars, dvars>>
  \/ kind \notin {"lanes", "sinks"} /\ Grow /\ UNCHANGED <<dvars, kvars>>
MCSpec == MCInit /\ [][MCNext]_<<mvars, dvars, kvars>> /\ \A l \in Lanes : WF_dvars(Lane(l))
=============================================================================
