------------------------------ MODULE Grounding ------------------------------
(***************************************************************************)
(* giljobe.analysis.grounding, the pure part: what a detector's result     *)
(* becomes as a row, how the rows of a window are aggregated, and which    *)
(* lines the aggregate is described by.  One number stands for each group  *)
(* that is treated alike: "smile" for every mean over the face rows, a     *)
(* place on a line for a landmark.                                         *)
(***************************************************************************)
EXTENDS Fractions

CONSTANTS
  Parts,                      \* a ratio is rounded to 1/Parts
  BlinkTh, SmileTh, VisTh,    \* BLINK_TH, SMILE_TH, VIS_TH
  GestureVel,                 \* GESTURE_VEL, in shoulder widths
  WristObservable,            \* WRIST_OBSERVABLE, in Parts
  Radial, ThumbAway,          \* FINGER_RADIAL, THUMB_AWAY, in hundredths
  SegMin                      \* FINGER_SEG_MIN_S

FaceRow(t, res) ==
  IF res = None THEN [t |-> t, face |-> FALSE]
  ELSE [t |-> t, face |-> TRUE, smile |-> res.smile, blink |-> res.blink, lips |-> res.lips]

PoseRow(t, res) ==
  IF res = None THEN [t |-> t, pose |-> FALSE]
  ELSE [t |-> t, pose |-> TRUE, shW |-> res.shW, shMid |-> res.shMid, wr |-> res.wr]

\* count_extended_fingers: four fingers by the ratio of distances from the
\* wrist, the thumb by its distance from the middle of the palm.
CountExtended(hand) ==
  LET out == SelectSeq(hand.fingers, LAMBDA f : f.tip * 100 > f.pip * Radial)
      thumb == hand.palm > 0 /\ hand.thumb * 100 > hand.palm * ThumbAway IN
  Len(out) + (IF thumb THEN 1 ELSE 0)

HandRow(t, hands) ==
  IF hands = <<>> THEN [t |-> t, hands |-> 0]
  ELSE [t |-> t, hands |-> Len(hands),
        fingers |-> Total([i \in 1..Len(hands) |-> CountExtended(hands[i])])]

-----------------------------------------------------------------------------
\* Faulty variant: the eye is taken to begin as it first is.
BlinksFromFirst(rows) ==
  FoldLeft(LAMBDA s, r : [n |-> s.n + (IF s.prev < BlinkTh /\ BlinkTh <= r.blink THEN 1 ELSE 0), prev |-> r.blink],
           [n |-> 0, prev |-> IF rows = <<>> THEN 0 ELSE rows[1].blink], rows).n

\* _count_blinks: the crossings of BLINK_TH upwards, from an open eye.
CountBlinks(rows) ==
  FoldLeft(LAMBDA s, r : [n |-> s.n + (IF s.prev < BlinkTh /\ BlinkTh <= r.blink THEN 1 ELSE 0), prev |-> r.blink],
           [n |-> 0, prev |-> 0], rows).n

Dist(a, b) == IF a < b THEN b - a ELSE a - b

\* _lip_velocity
LipVelocity(rows) ==
  IF Len(rows) < 2 THEN <<0, 1>>
  ELSE Mean([i \in 1..(Len(rows) - 1) |-> Dist(rows[i].lips, rows[i + 1].lips)])

\* The ratio of rows that are seen, as it is reported and used as a weight.
SeenRatio(seen, rows) == Rounded(Parts * Len(seen), Len(rows))

AggregateFace(rows) ==
  LET seen == SelectSeq(rows, LAMBDA r : r.face)
      coverage == [face_frames |-> Len(rows), face_seen_ratio |-> SeenRatio(seen, rows)] IN
  IF rows = <<>> THEN [face_frames |-> 0]
  ELSE IF seen = <<>> THEN coverage
  ELSE Merged(coverage,
    [smile_mean |-> Mean(Column(seen, "smile")),
     smile_max |-> Highest(Column(seen, "smile")),
     smile_ratio |-> <<Len(SelectSeq(seen, LAMBDA r : r.smile > SmileTh)), Len(seen)>>,
     blink_count |-> CountBlinks(seen),
     lip_motion |-> LipVelocity(seen)])

\* _wrist_motion: the further of the wrists that are visible in both of two
\* rows, in shoulder widths.
Moves(seen) ==
  LET step(i) == {Dist(seen[i].wr[k].x, seen[i + 1].wr[k].x) :
                    k \in {j \in {"l", "r"} : seen[i].wr[j].vis > VisTh /\ seen[i + 1].wr[j].vis > VisTh}}
      all == [i \in 1..(Len(seen) - 1) |-> step(i)]
      some == SelectSeq(all, LAMBDA ds : ds # {}) IN
  [i \in 1..Len(some) |-> CHOOSE d \in some[i] : \A e \in some[i] : e <= d]

WristMotion(seen, sw) ==
  LET moves == Moves(seen) IN
  [motion |-> IF moves = <<>> THEN <<0, 1>> ELSE <<Total(moves) * sw[2], Len(moves) * sw[1]>>,
   events |-> Len(SelectSeq(moves, LAMBDA d : d * sw[2] > GestureVel * sw[1]))]

Visible(r) == r.wr["l"].vis > VisTh \/ r.wr["r"].vis > VisTh

\* With one row that is seen there is nothing but the coverage.
AggregatePose(rows) ==
  LET seen == SelectSeq(rows, LAMBDA r : r.pose)
      coverage == [pose_frames |-> Len(rows), pose_seen_ratio |-> SeenRatio(seen, rows)]
      wrists == WristMotion(seen, Mean(Column(seen, "shW"))) IN
  IF rows = <<>> THEN [pose_frames |-> 0]
  ELSE IF Len(seen) < 2 THEN coverage
  ELSE Merged(coverage,
    [posture_std |-> Variance(Column(seen, "shMid")),
     wrist_visible |-> <<Len(SelectSeq(seen, Visible)), Len(seen)>>,
     wrist_motion |-> wrists.motion,
     gesture_events |-> wrists.events])

-----------------------------------------------------------------------------
\* The count of each row, smoothed by the median of it and two on each side.
Smoothed(counts) ==
  [i \in 1..Len(counts) |->
     LET near == SubSeq(counts, IF i > 2 THEN i - 2 ELSE 1, IF i + 2 < Len(counts) THEN i + 2 ELSE Len(counts)) IN
     Median(near)[1] \div 2]

\* A segment whose count is that of the last one prolongs it.
Joined(segs, seg) ==
  IF segs # <<>> /\ Last(segs).count = seg.count
  THEN [segs EXCEPT ![Len(segs)].end_s = seg.end_s]
  ELSE Append(segs, seg)

\* _finger_segments: the runs of one count, without those shorter than SegMin.
FingerSegments(seen) ==
  LET sm == Smoothed(Column(seen, "fingers"))
      step(s, i) ==
        IF i < Len(sm) /\ sm[i + 1] = sm[s.start] THEN s
        ELSE [start |-> i + 1,
              segs |-> IF seen[i].t - seen[s.start].t < SegMin THEN s.segs
                       ELSE Joined(s.segs, [count |-> sm[s.start], start_s |-> seen[s.start].t, end_s |-> seen[i].t])]
  IN FoldLeftDomain(step, [start |-> 1, segs |-> <<>>], sm).segs

Shown(segs) == Column(SelectSeq(segs, LAMBDA s : s.count > 0), "count")

AggregateHands(rows) ==
  LET seen == SelectSeq(rows, LAMBDA r : r.hands > 0)
      segs == FingerSegments(seen)
      coverage == [hand_frames |-> Len(rows), hand_seen_ratio |-> SeenRatio(seen, rows)] IN
  IF rows = <<>> THEN [hand_frames |-> 0]
  ELSE IF segs = <<>> THEN coverage
  ELSE Merged(coverage, [finger_segments |-> segs, finger_sequence |-> Shown(segs)])

\* window_metrics: the rows of [start, end) in each lane, and None when there
\* are none.
WindowRows(rows, start, end) == SelectSeq(rows, LAMBDA r : start <= r.t /\ r.t < end)

WindowMetrics(face, pose, hands, handLane, start, end) ==
  LET f == WindowRows(face, start, end)
      p == WindowRows(pose, start, end)
      h == WindowRows(hands, start, end)
      all == Merged(AggregateFace(f), AggregatePose(p)) IN
  IF f = <<>> /\ p = <<>> /\ h = <<>> THEN None
  ELSE IF handLane THEN Merged(all, AggregateHands(h)) ELSE all

-----------------------------------------------------------------------------
\* describe_visual: the lines, and whether a value that is None is multiplied
\* or compared, which raises.
FaceLines(m) ==
  IF Get(m, "face_frames", 0) > 0 /\ Get(m, "face_seen_ratio", 0) > 0
  THEN {"smile", "blinks", "lips"} \union (IF 2 * m.face_seen_ratio < Parts THEN {"face unsure"} ELSE {})
  ELSE IF "face_frames" \in DOMAIN m THEN {"no face"} ELSE {}

HasPose(m) == Get(m, "pose_frames", 0) > 0 /\ "posture_std" \in DOMAIN m

PoseLines(m) ==
  IF ~HasPose(m) THEN {}
  ELSE IF m.wrist_visible # None /\ AtMost(<<WristObservable, Parts>>, m.wrist_visible)
  THEN {"posture", "gestures"} ELSE {"posture", "hands unobservable"}

DescribeVisual(m) ==
  [lines |-> FaceLines(m) \union PoseLines(m) \union
             (IF Get(m, "finger_sequence", <<>>) # <<>> THEN {"fingers"} ELSE {}),
   raises |-> \/ "smile" \in FaceLines(m) /\ m.smile_ratio = None
              \/ HasPose(m) /\ m.wrist_visible = None]
=============================================================================
