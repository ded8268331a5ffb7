---------------------------- MODULE TurnPipeline ----------------------------
(***************************************************************************)
(* One turn of giljobe.server.subscriber: the windower, the queue its      *)
(* signals cross from the worker threads to the event loop, the drain task *)
(* that hands them to the recorder, and aclose, which ends the turn.       *)
(*                                                                         *)
(* on_signal is make_signal_bridge: call_soon_threadsafe(put_nowait), so   *)
(* the queue holds the signals in the order of the on_signal calls.  poll, *)
(* media arrival and the recorder run on the event loop, one at a time.    *)
(***************************************************************************)
EXTENDS TurnWindower, SignalRecorder

VARIABLES
  queue,   \* _queue, with the put_nowait callbacks still scheduled
  sub      \* where the subscriber stands

SubPhase ==
  {"running",    \* until aclose
   "ending",     \* aclose waits for end_turn; the drain task still runs
   "flushing",   \* the drain task is cancelled; _flush_queue
   "flushed",    \* the queue was seen empty for the last time
   "closed",     \* close() called, the loop reads no more
   "aborted"}    \* aclose cancelled in end_turn: close() called, but the
                 \* drain task goes on

pipeline == <<queue, sub>>
pvars == <<vars, recorder, pipeline>>

\* What crosses the bridge: the lane and the window's place.
Signal(w) == [lane |-> w.lane, mid |-> w.start + w.end, width |-> w.end - w.start]
TurnEndSignal == [lane |-> "end", mid |-> 2 * endAt, width |-> 0]

\* poll runs to its end before the event loop does anything else.
LoopFree == \A p \in Pollers : batch[p] = {}

-----------------------------------------------------------------------------
\* _poll_loop and media arrival, until aclose cancels the poll task.
PollTask(p) ==
  /\ sub = "running"
  /\ (LoopFree /\ PollCut(p)) \/ PollSubmit(p)
  /\ UNCHANGED <<recorder, pipeline>>

Listen ==
  /\ sub = "running"
  /\ Tick \/ (LoopFree /\ (AddAudio \/ \E t \in FrameTimes : AddFrame(t)))
  /\ UNCHANGED <<recorder, pipeline>>

\* A worker thread, in the step that calls on_signal and in the others.
Deliver(w) ==
  /\ EmitBridge(w)
  /\ queue' = Append(queue, Signal(w))
  /\ UNCHANGED <<recorder, sub>>

Work(w) ==
  /\ Worker(w)
  /\ at[w] # "bridge"
  /\ UNCHANGED <<recorder, pipeline>>

\* The head of the queue goes to the recorder.
Consume ==
  /\ queue # <<>>
  /\ OnSignal(Head(queue))
  /\ queue' = Tail(queue)
  /\ UNCHANGED <<vars, sub>>

\* _drain_loop.
Drain ==
  /\ sub \in {"running", "ending", "aborted"}
  /\ LoopFree
  /\ Consume

\* aclose: cancel the poll task and run end_turn on a thread.
SubStop ==
  /\ sub = "running"
  /\ EndCut
  /\ sub' = "ending"
  /\ UNCHANGED <<recorder, queue>>

EndTurnDelivers ==
  /\ EndBridge
  /\ queue' = Append(queue, TurnEndSignal)
  /\ UNCHANGED <<recorder, sub>>

EndTurnGoesOn ==
  /\ EndTurn
  /\ endPc # "bridge"
  /\ UNCHANGED <<recorder, pipeline>>

\* end_turn has returned: cancel the drain task.
SubFlush ==
  /\ sub = "ending"
  /\ endPc \in {"done", "dropped", "raised"}
  /\ sub' = "flushing"
  /\ UNCHANGED <<vars, recorder, queue>>

\* _flush_queue.  It sleeps once more after the queue was empty for the last
\* time, and does not look again.
FlushOne ==
  /\ sub = "flushing"
  /\ Consume

\* Faulty variant: the flush gives the loop no chance to run.
IdleAtOnce == TRUE

Idle == queue = <<>>

FlushIdle ==
  /\ sub = "flushing"
  /\ Idle
  /\ sub' = "flushed"
  /\ UNCHANGED <<vars, recorder, queue>>

SubClose ==
  /\ sub = "flushed"
  /\ Close
  /\ sub' = "closed"
  /\ UNCHANGED <<recorder, queue>>

\* aclose is cancelled: close() runs all the same.
SubAbort ==
  /\ MayAbort
  /\ sub \in {"ending", "flushing", "flushed"}
  /\ Close
  /\ sub' = IF sub = "ending" THEN "aborted" ELSE "closed"
  /\ UNCHANGED <<recorder, queue>>

-----------------------------------------------------------------------------
PipelineInit == Init /\ RecorderInit /\ queue = <<>> /\ sub = "running"

PipelineNext ==
  \/ Listen
  \/ \E p \in Pollers : PollTask(p)
  \/ \E w \in Submitted : Deliver(w) \/ Work(w)
  \/ Drain
  \/ SubStop
  \/ EndTurnDelivers
  \/ EndTurnGoesOn
  \/ SubFlush
  \/ FlushOne
  \/ FlushIdle
  \/ SubClose
  \/ SubAbort

PipelineSpec == PipelineInit /\ [][PipelineNext]_pvars

\* The event loop, its poll task and the end_turn thread keep running; nothing
\* is assumed of the workers.
PipelineLive ==
  /\ PipelineSpec
  /\ \A p \in Pollers : WF_pvars(PollTask(p))
  /\ WF_pvars(Drain)
  /\ WF_pvars(EndTurnDelivers \/ EndTurnGoesOn)
  /\ WF_pvars(SubFlush)
  /\ WF_pvars(FlushOne \/ FlushIdle)

-----------------------------------------------------------------------------
\* The pipeline's variables stay in their ranges, and a slot is a window that
\* has one of its two lanes.
PipelineTypeOK ==
  /\ TypeOK
  /\ sub \in SubPhase
  /\ \A i \in 1..Len(queue) : queue[i].lane \in {"nv", "stt", "eval", "end"}
  /\ \A s \in slots : s.kind = "window" /\ s.lanes \in {{"nv"}, {"stt"}}
  /\ \A s, r \in slots : s.mid = r.mid => s = r

\* The stream of records is a turn's log, whatever order the workers finish
\* in, whatever is late, and even if aclose is cancelled: no window or
\* evaluation is recorded twice and none is split after its record.
TurnLog == INSTANCE TurnLog WITH Mids <- 0..(2 * MaxT), Widths <- Time
RecordsAreATurnLog == TurnLog!LogSpec

Ends == {i \in 1..Len(log) : log[i].kind = "turn_end"}

\* The record of the turn_end follows every nv and stt signal that was not
\* late: each is in a window record of its own window before it, and two
\* signals of one window are in the same one.
Recorded(w, i) ==
  /\ log[i].kind = "window"
  /\ log[i].mid = w.start + w.end /\ log[i].width = w.end - w.start
  /\ w.lane \in log[i].lanes

TimelyRecorded ==
  \A e \in Ends : \A w \in Timely \cap sent :
    \E i \in 1..(e - 1) :
      /\ Recorded(w, i)
      /\ \A v \in Timely \cap sent :
           v.lane # w.lane /\ SameSpan(v, w) => Recorded(v, i)

\* Unless aclose is cancelled, the record of the turn_end is written before
\* the subscriber closes, though no inference may ever finish.
TurnEndDelivered == sub = "ending" ~> Ends # {}

\* "turn_end is always the last record" (tests/test_e2e_mock.py: "whatever
\* the order of completion").
TurnEndRecordLast == \A e \in Ends : e = Len(log)
=============================================================================
