-------------------------------- MODULE Ingest --------------------------------
(***************************************************************************)
(* giljobe.media.ingest: the consumers of a video and of an audio track,   *)
(* step by step over what arrives until it ends.  Times are in units of    *)
(* which Interval make the throttle's second; a frame's JPEG and an audio  *)
(* frame's samples are the place they have in the track.                   *)
(***************************************************************************)
EXTENDS Integers, Sequences

CONSTANTS
  Interval,    \* 1 / target_fps
  Lag          \* samples the resampler holds back

ASSUME IngestAssumption == Interval \in Nat \ {0} /\ Lag \in Nat

\* Faulty variant: the next frame is due on a grid, not after the last one.
DueOnGrid(rel, emitAt) == emitAt + Interval

Due(rel, emitAt) == rel + Interval

\* consume_video_lk and consume_video: times from the first frame on; the
\* dense lane is offered every frame, the windower the first that is due.
VideoStep(s, time) ==
  LET t0 == IF s.seen = 0 THEN time ELSE s.t0
      rel == time - t0
      admit == rel >= s.emitAt IN
  [seen |-> s.seen + 1, t0 |-> t0,
   dense |-> Append(s.dense, rel),
   frames |-> IF admit THEN Append(s.frames, rel) ELSE s.frames,
   emitAt |-> IF admit THEN Due(rel, s.emitAt) ELSE s.emitAt]

VideoStates(times) ==
  LET after[n \in 0..Len(times)] ==
        IF n = 0 THEN [seen |-> 0, t0 |-> 0, dense |-> <<>>, frames |-> <<>>, emitAt |-> 0]
        ELSE VideoStep(after[n - 1], times[n]) IN
  after

ConsumeVideo(times) == VideoStates(times)[Len(times)]

\* consume_audio_lk: events have no time; the media clock is the sum of what
\* has come.
AudioLkStep(s, dur) == [t |-> s.t + dur, chunks |-> Append(s.chunks, [t |-> s.t, dur |-> dur])]

AudioLkStates(durations) ==
  LET after[n \in 0..Len(durations)] ==
        IF n = 0 THEN [t |-> 0, chunks |-> <<>>] ELSE AudioLkStep(after[n - 1], durations[n]) IN
  after

ConsumeAudioLk(durations) == AudioLkStates(durations)[Len(durations)].chunks

Upto(n) == [i \in 1..n |-> i]

\* Faulty variant: nothing is flushed at the end.
NoFlush(s) == s.chunks

\* The tail, under the time of the last frame.
Flush(s) ==
  LET tail == SubSeq(Upto(s.fed), s.out + 1, s.fed) IN
  IF tail = <<>> THEN s.chunks ELSE Append(s.chunks, [t |-> s.last, pcm |-> tail])

\* consume_audio: a chunk is what the resampler gives for a frame, if it gives
\* anything, under the time of that frame.
AudioStep(s, dur) ==
  LET fed == s.fed + dur
      out == IF fed > Lag THEN fed - Lag ELSE 0
      pcm == SubSeq(Upto(fed), s.out + 1, out) IN
  [fed |-> fed, out |-> out, last |-> s.fed,
   chunks |-> IF pcm = <<>> THEN s.chunks ELSE Append(s.chunks, [t |-> s.fed, pcm |-> pcm])]

AudioStates(durations) ==
  LET after[n \in 0..Len(durations)] ==
        IF n = 0 THEN [fed |-> 0, out |-> 0, last |-> 0, chunks |-> <<>>]
        ELSE AudioStep(after[n - 1], durations[n]) IN
  after

ConsumeAudio(durations) == Flush(AudioStates(durations)[Len(durations)])
=============================================================================
