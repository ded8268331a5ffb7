------------------------------ MODULE DenseLane ------------------------------
(***************************************************************************)
(* giljobe.analysis.grounding.VisionGrounder: the dense vision lanes.  The *)
(* event loop offers every frame of the video to all lanes, or to none     *)
(* when one is behind; each lane's one thread runs its detector on them in *)
(* order.  add_frame, reset and close are called on the event loop.        *)
(***************************************************************************)
EXTENDS Integers, Sequences

CONSTANTS
  Lanes,        \* "face", "pose" and, if its model is there, "hand"
  MaxBacklog,   \* max_backlog
  Gap,          \* what reset adds to the time base
  Times,        \* media times of frames
  MaxFrames,    \* bound on the frames that are offered
  MaxResets     \* bound on the resets

ASSUME DenseAssumption ==
  /\ Lanes # {} /\ Times \subseteq Nat
  /\ {MaxBacklog, Gap} \subseteq Nat \ {0}
  /\ {MaxFrames, MaxResets} \subseteq Nat

VARIABLES
  queue,      \* each lane's executor: frames and at last the detector's close
  work,       \* what its thread does
  pending,    \* _pending_face, _pending_pose, _pending_hand
  rows,       \* _face_rows, _pose_rows, _hand_rows
  lastMs,     \* _face_last_ms, _pose_last_ms, _hand_last_ms
  detector,   \* whether the detector is open, and used
  epoch, shed, base,   \* _epoch, _shed, _ts_base_ms
  loop,       \* where the event loop is: "free", or inside reset
  closed,     \* _closed
  offered,    \* frames offered so far
  clock       \* the media time of the last one in this turn

threads == <<queue, work, lastMs, detector>>
dvars == <<threads, pending, rows, epoch, shed, base, loop, closed, offered, clock>>

Frame(e, t) == [epoch |-> e, t |-> t]
CloseJob == [epoch |-> -1, t |-> 0]
Idle == [phase |-> "idle", job |-> CloseJob]

Behind == \E l \in Lanes : pending[l] >= MaxBacklog

\* Faulty variant: the newest frame first.
NewestFirst(q, frame) == <<frame>> \o q

Queued(q, frame) == Append(q, frame)

-----------------------------------------------------------------------------
\* add_frame: shed, or submitted to every lane under the current epoch.
AddFrame(t) ==
  /\ loop = "free" /\ ~closed
  /\ offered < MaxFrames /\ t >= clock
  /\ offered' = offered + 1
  /\ clock' = t
  /\ IF Behind
     THEN shed' = shed + 1 /\ UNCHANGED <<pending, queue>>
     ELSE /\ pending' = [l \in Lanes |-> pending[l] + 1]
          /\ queue' = [l \in Lanes |-> Queued(queue[l], Frame(epoch, t))]
          /\ UNCHANGED shed
  /\ UNCHANGED <<work, rows, lastMs, detector, epoch, base, loop, closed>>

\* Faulty variant: the media time alone.
NextMsPlain(l, t) == base + t

\* _next_ms
NextMs(l, t) == IF base + t > lastMs[l] THEN base + t ELSE lastMs[l] + 1

NextJob(l) == Head(queue[l])

\* The thread takes a frame and gives it to the detector with its timestamp.
Detect(l) ==
  /\ work[l].phase = "idle"
  /\ queue[l] # <<>> /\ NextJob(l) # CloseJob
  /\ queue' = [queue EXCEPT ![l] = Tail(@)]
  /\ work' = [work EXCEPT ![l] = [phase |-> "detect", job |-> NextJob(l)]]
  /\ lastMs' = [lastMs EXCEPT ![l] = NextMs(l, NextJob(l).t)]
  /\ detector' = [detector EXCEPT ![l] = IF @ = "closed" THEN "misused" ELSE @]
  /\ UNCHANGED <<pending, rows, epoch, shed, base, loop, closed, offered, clock>>

\* Faulty variant: only a detection that succeeds is counted down.
CountDownOk(l, ok) == [pending EXCEPT ![l] = IF ok THEN @ - 1 ELSE @]

CountDown(l, ok) == [pending EXCEPT ![l] = @ - 1]

\* The finally of _detect_*, whether the detector raised or not.
Detected(l, ok) ==
  /\ work[l].phase = "detect"
  /\ pending' = CountDown(l, ok)
  /\ work' = [work EXCEPT ![l] = IF ok THEN [@ EXCEPT !.phase = "row"] ELSE Idle]
  /\ UNCHANGED <<queue, rows, lastMs, detector, epoch, shed, base, loop, closed, offered, clock>>

\* Faulty variant: no look at the epoch.
AnyEpoch(job) == TRUE

Current(job) == job.epoch = epoch

\* _append
AppendRow(l) ==
  /\ work[l].phase = "row"
  /\ rows' = IF Current(work[l].job) THEN [rows EXCEPT ![l] = Append(@, work[l].job)] ELSE rows
  /\ work' = [work EXCEPT ![l] = Idle]
  /\ UNCHANGED <<queue, pending, lastMs, detector, epoch, shed, base, loop, closed, offered, clock>>

\* The last job of each lane.
CloseDetector(l) ==
  /\ work[l].phase = "idle"
  /\ queue[l] # <<>> /\ NextJob(l) = CloseJob
  /\ queue' = [queue EXCEPT ![l] = Tail(@)]
  /\ detector' = [detector EXCEPT ![l] = "closed"]
  /\ UNCHANGED <<work, pending, rows, lastMs, epoch, shed, base, loop, closed, offered, clock>>

Lane(l) ==
  Detect(l) \/ (\E ok \in BOOLEAN : Detected(l, ok)) \/ AppendRow(l) \/ CloseDetector(l)

-----------------------------------------------------------------------------
\* reset: the rows go and the epoch moves on under one lock; then, without it,
\* the time base moves beyond every timestamp given so far.
ResetRows ==
  /\ loop = "free" /\ ~closed
  /\ epoch < MaxResets
  /\ rows' = [l \in Lanes |-> <<>>]
  /\ epoch' = epoch + 1
  /\ shed' = 0
  /\ loop' = "reset"
  /\ clock' = 0
  /\ UNCHANGED <<threads, pending, base, closed, offered>>

ResetBase ==
  /\ loop = "reset"
  /\ \E l \in Lanes : /\ \A k \in Lanes : lastMs[k] <= lastMs[l]
                      /\ base' = lastMs[l] + Gap
  /\ loop' = "free"
  /\ UNCHANGED <<threads, pending, rows, epoch, shed, closed, offered, clock>>

\* Faulty variant: the detectors are closed at once.
CloseNow ==
  /\ loop = "free" /\ ~closed
  /\ closed' = TRUE
  /\ detector' = [l \in Lanes |-> "closed"]
  /\ UNCHANGED <<queue, work, pending, rows, lastMs, epoch, shed, base, loop, offered, clock>>

\* close: each detector is closed by its own thread, after what is queued.
Close ==
  /\ loop = "free" /\ ~closed
  /\ closed' = TRUE
  /\ queue' = [l \in Lanes |-> Append(queue[l], CloseJob)]
  /\ UNCHANGED <<work, pending, rows, lastMs, detector, epoch, shed, base, loop, offered, clock>>

-----------------------------------------------------------------------------
DenseInit ==
  /\ queue = [l \in Lanes |-> <<>>]
  /\ work = [l \in Lanes |-> Idle]
  /\ pending = [l \in Lanes |-> 0]
  /\ rows = [l \in Lanes |-> <<>>]
  /\ lastMs = [l \in Lanes |-> 0]
  /\ detector = [l \in Lanes |-> "open"]
  /\ epoch = 0 /\ shed = 0 /\ base = 0
  /\ loop = "free" /\ closed = FALSE
  /\ offered = 0 /\ clock = 0

DenseNext ==
  \/ \E t \in Times : AddFrame(t)
  \/ \E l \in Lanes : Lane(l)
  \/ ResetRows \/ ResetBase
  \/ Close

DenseSpec == DenseInit /\ [][DenseNext]_dvars

\* The threads run: a detection returns or raises.
DenseLive == DenseSpec /\ \A l \in Lanes : WF_dvars(Lane(l))

-----------------------------------------------------------------------------
Jobs == {CloseJob} \union [epoch : 0..MaxResets, t : Times]

DenseTypeOK ==
  /\ queue \in [Lanes -> Seq(Jobs)]
  /\ work \in [Lanes -> [phase : {"idle", "detect", "row"}, job : Jobs]]
  /\ pending \in [Lanes -> Nat]
  /\ rows \in [Lanes -> Seq(Jobs)]
  /\ lastMs \in [Lanes -> Nat]
  /\ detector \in [Lanes -> {"open", "closed", "misused"}]
  /\ epoch \in 0..MaxResets /\ shed \in Nat /\ base \in Nat
  /\ loop \in {"free", "reset"} /\ closed \in BOOLEAN
  /\ offered \in 0..MaxFrames /\ clock \in Nat

\* A lane counts exactly the frames that wait or are in its detector, so it
\* neither sheds for ever nor grows beyond the backlog, though detections
\* fail and turns change under it.
PendingExact ==
  \A l \in Lanes :
    LET waiting == IF closed /\ detector[l] = "open" THEN Len(queue[l]) - 1 ELSE Len(queue[l])
        busy == IF work[l].phase = "detect" THEN 1 ELSE 0 IN
    /\ pending[l] = waiting + busy
    /\ pending[l] <= MaxBacklog

\* No row of an earlier turn, or of no turn, is ever among the rows a window
\* is aggregated from.
RowsOfThisTurn == \A l \in Lanes : \A i \in 1..Len(rows[l]) : rows[l][i].epoch = epoch

\* The rows of a lane are in the order of their frames, as blinks and finger
\* segments are counted from neighbours.
RowsInOrder ==
  \A l \in Lanes : \A i, j \in 1..Len(rows[l]) : i < j => rows[l][i].t <= rows[l][j].t

\* A detector is never used after its close.
DetectorsOpen == \A l \in Lanes : detector[l] # "misused"

\* Every frame a detector is given has a greater timestamp than the one before,
\* also when media time starts again at 0 in a new turn and frames of the old
\* one are still queued.
MsGrows ==
  [][\A l \in Lanes : work[l].phase = "idle" /\ work'[l].phase = "detect" => lastMs'[l] > lastMs[l]]_dvars

\* A lane that is behind catches up.
SheddingEnds == \A l \in Lanes : pending[l] >= MaxBacklog ~> pending[l] < MaxBacklog
=============================================================================
