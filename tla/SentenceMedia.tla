---------------------------- MODULE SentenceMedia ----------------------------
(***************************************************************************)
(* What becomes of the media of one sentence: TurnWindower._do_sentence,   *)
(* giljobe.media.window_assembly and the sentence's signal and record.     *)
(* Times are in half seconds; a frame is [t, id], a byte of audio too.     *)
(***************************************************************************)
EXTENDS Fractions

CONSTANTS
  FrameCap,    \* NV_FRAME_CAP
  VideoMax,    \* VIDEO_MAX_SECONDS
  AudioMax     \* bytes of AUDIO_MAX_SECONDS

ASSUME CapsAssumption == FrameCap \in Nat \ {0} /\ VideoMax \in Nat /\ AudioMax \in Nat

Raised == [raised |-> TRUE]
Newest(n, s) == IF n >= Len(s) THEN s ELSE SubSeq(s, Len(s) - n + 1, Len(s))

\* _slice
Slice(media, from, to) ==
  Chosen(media, {i \in 1..Len(media) : from <= media[i].t /\ media[i].t < to})

\* Faulty variant: the first frames of a sentence stand for all.
FirstFrames(frames) == SubSeq(frames, 1, IF Len(frames) < FrameCap THEN Len(frames) ELSE FrameCap)

\* _cap_frames: a sample, evenly over the sentence.
CapFrames(frames) ==
  LET n == Len(frames) IN
  IF n <= FrameCap THEN frames
  ELSE [i \in 1..FrameCap |-> frames[(((i - 1) * n) \div FrameCap) + 1]]

\* assemble_video_url, at fps frames a second: the latest that fit.
AssembleVideo(frames, fps) ==
  LET fit == Rounded(VideoMax * fps[1], fps[2]) IN Newest(IF fit < 1 THEN 1 ELSE fit, frames)

\* assemble_audio_url: the latest bytes, an odd one dropped.
AssembleAudio(pcm) ==
  LET clipped == Newest(AudioMax, pcm) IN IF Len(clipped) % 2 = 1 THEN Tail(clipped) ELSE clipped

\* _window_vision and _window_prosody: what raises gives no numbers.
WindowVision(result) == IF result = Raised THEN None ELSE result
WindowProsody(pcm, result) == IF pcm = <<>> \/ result = Raised THEN None ELSE result

\* The rate a clip is sent with: half a frame a second at least, and no
\* sentence is shorter than half a second.
Rate2(clip, from, to) ==
  LET dur == IF to - from < 1 THEN 1 ELSE to - from IN
  IF 4 * Len(clip) < dur THEN <<1, 2>> ELSE <<2 * Len(clip), dur>>

\* What read_nonverbal sends to the model.
Clip(clip, pcm, fps, vision, prosody) ==
  [video |-> AssembleVideo(clip, fps), audio |-> AssembleAudio(pcm), vision |-> vision, prosody |-> prosody]

\* _do_sentence: each channel is None by itself.  results holds what the
\* grounder, the extractor and the model give; nonverbal is what the model was
\* shown.
DoSentence(s, media, results) ==
  LET frames == CapFrames(Slice(media.frames, s.start_s, s.end_s))
      pcm == Slice(media.pcm, s.start_s, s.end_s)
      vision == WindowVision(results.vision)
      speech == WindowProsody(pcm, results.prosody) IN
  [start_s |-> s.start_s, end_s |-> s.end_s, text |-> s.text, speech |-> speech, visual |-> vision,
   nonverbal |-> IF frames = <<>> \/ results.read = Raised THEN None
                 ELSE Clip(frames, pcm, Rate2(frames, s.start_s, s.end_s), vision, speech)]

\* SentenceRecord.from_signal: under twice the middle of the sentence.
SentenceRecord(sig) ==
  [type |-> "sentence", mid |-> sig.start_s + sig.end_s, start_s |-> sig.start_s, end_s |-> sig.end_s,
   text |-> sig.text, speech |-> sig.speech, visual |-> sig.visual, nonverbal |-> sig.nonverbal]
=============================================================================
