------------------------ MODULE TurnPipeline_proofs -------------------------
(* The pipeline implements the windower, so that what is proved of the     *)
(* windower holds in the pipeline; and what crosses its queue and waits in *)
(* the recorder's slots.                                                   *)
EXTENDS TurnPipeline, TurnWindower_proofs, FiniteSetTheorems, SequenceTheorems

\* Every step of the pipeline is a step of the windower, or leaves the
\* windower alone.
LEMMA PipelineStep ==
  ASSUME PipelineNext
  PROVE  [Next]_vars
<1>1. CASE Listen \/ \E p \in Pollers : PollTask(p)
  BY <1>1 DEF Listen, PollTask, Next
<1>2. CASE \E w \in Submitted : Deliver(w) \/ Work(w)
  BY <1>2 DEF Deliver, Work, Worker, Next
<1>3. CASE Drain
  BY <1>3 DEF Drain, Consume
<1>4. CASE SubStop
  BY <1>4 DEF SubStop, Next
<1>5. CASE EndTurnDelivers
  BY <1>5 DEF EndTurnDelivers, EndTurn, Next
<1>6. CASE EndTurnGoesOn
  BY <1>6 DEF EndTurnGoesOn, Next
<1>7. CASE SubFlush
  BY <1>7 DEF SubFlush
<1>8. CASE FlushOne
  BY <1>8 DEF FlushOne, Consume
<1>9. CASE FlushIdle
  BY <1>9 DEF FlushIdle
<1>10. CASE SubClose
  BY <1>10 DEF SubClose, Next
<1>11. CASE SubAbort
  BY <1>11 DEF SubAbort, Next
<1>12. QED
  BY <1>1, <1>2, <1>3, <1>4, <1>5, <1>6, <1>7, <1>8, <1>9, <1>10, <1>11
     DEF PipelineNext

\* The subscriber runs the windower by its rules: a behaviour of the pipeline
\* is a behaviour of the windower.
THEOREM PipelineImplementsWindower == PipelineSpec => Spec
<1>1. PipelineInit => Init
  BY DEF PipelineInit
<1>2. [PipelineNext]_pvars => [Next]_vars
  <2>1. CASE PipelineNext
    BY <2>1, PipelineStep
  <2>2. CASE UNCHANGED pvars
    BY <2>2 DEF pvars
  <2>3. QED
    BY <2>1, <2>2
<1>3. QED
  BY <1>1, <1>2, PTL DEF PipelineSpec, Spec

(***************************************************************************)
(* What crosses the queue, and what waits in the slots.                    *)
(***************************************************************************)

\* The evaluation of the tail is returned to end_turn: it takes none of the
\* steps that lead to on_signal.
TailQuiet == \A w \in Submitted : at[w] \in {"emit", "bridge"} => w.lane # "tail"

Signals == [lane : {"nv", "stt", "eval", "end"}, mid : Int, width : Int]

\* A slot waits for one of its lanes, and a window has at most one.
SlotsOK(ss) ==
  /\ \A s \in ss : s.kind = "window" /\ s.lanes \in {{"nv"}, {"stt"}}
  /\ \A s, r \in ss : s.mid = r.mid => s = r

PipeInv ==
  /\ TypeOK /\ EvalInv /\ TailQuiet
  /\ sub \in SubPhase
  /\ queue \in Seq(Signals)
  /\ SlotsOK(slots)

\* No step of the windower moves the tail towards on_signal.
LEMMA TailStep ==
  ASSUME TypeOK, TailQuiet, [Next]_vars
  PROVE  TailQuiet'
<1>1. CASE \E w \in Submitted : Worker(w)
  <2>1. PICK w \in Submitted : Worker(w)
    BY <1>1
  <2>2. CASE w.lane = "tail"
    <3>1. at' = [at EXCEPT ![w] = "failed"] \/ at' = [at EXCEPT ![w] = "done"]
      BY <2>1, <2>2
         DEF Worker, InferRaises, NvReturns, SttReturns, EvalReturns, TailReturns,
             EmitStored, EmitBridge, TailQuiet
    <3>2. at'[w] \notin {"emit", "bridge"}
      BY <3>1, PhaseStep DEF Phase
    <3>3. Submitted' = Submitted /\ \A v \in Submitted : v # w => at'[v] = at[v]
      BY <3>1, PhaseStep DEF Phase
    <3>4. QED
      BY <3>2, <3>3 DEF TailQuiet
  <2>3. CASE w.lane # "tail"
    <3>1. \E x \in Phase : at' = [at EXCEPT ![w] = x]
      BY <2>1
         DEF Worker, InferRaises, NvReturns, SttReturns, EvalReturns, TailReturns,
             EmitStored, EmitBridge, EmitCheck, Phase
    <3>2. Submitted' = Submitted /\ \A v \in Submitted : v # w => at'[v] = at[v]
      BY <3>1, PhaseStep
    <3>3. QED
      BY <2>3, <3>2 DEF TailQuiet
  <2>4. QED
    BY <2>2, <2>3
<1>2. ASSUME NEW ws \in SUBSET Window, Submit(ws)
      PROVE  TailQuiet'
  <2>1. /\ Submitted' = Submitted \cup ws
        /\ \A v \in ws : at'[v] = "pending"
        /\ \A v \in Submitted \ ws : at'[v] = at[v]
    BY <1>2, SubmitStep
  <2>2. QED
    BY <2>1 DEF TailQuiet
<1>3. CASE \E p \in Pollers : PollSubmit(p)
  BY <1>2, <1>3 DEF PollSubmit, TypeOK
<1>4. CASE EndSubmit \/ EndSubmitRaises
  BY <1>2, <1>4 DEF EndSubmit, EndSubmitRaises, TypeOK
<1>5. CASE UNCHANGED at
  BY <1>5 DEF TailQuiet, Submitted
<1>6. QED
  BY <1>1, <1>3, <1>4, <1>5
     DEF Next, Tick, AddFrame, AddAudio, PollCut, EndCut, EndTurn, EndWait, EndDeadline,
         EndJoin, EndEmit, EndBridge, Close, vars, results

\* A signal of a window opens its slot, or joins the one that waits and
\* closes it; the other slots stay.
LEMMA WindowSlots ==
  ASSUME SlotsOK(slots), NEW sig \in Signals, OnWindowSignal(sig)
  PROVE  SlotsOK(slots')
<1> DEFINE slot == SlotOf(sig)
           joined == [slot EXCEPT !.lanes = @ \cup {sig.lane}]
<1>1. \/ slot \in slots /\ slot.mid = sig.mid
      \/ /\ slot = [kind |-> "window", mid |-> sig.mid, width |-> sig.width, lanes |-> {}]
         /\ \A s \in slots : s.mid # sig.mid
  BY DEF SlotOf, WindowRecord
<1>2. CASE joined.lanes = Both /\ slots' = slots \ {slot}
  BY <1>2 DEF SlotsOK
<1>3. CASE joined.lanes # Both /\ slots' = (slots \ {slot}) \cup {joined}
  <2>1. sig.lane \in Both
    BY DEF OnWindowSignal
  <2>2. /\ joined.kind = "window" /\ joined.mid = sig.mid
        /\ joined.lanes \in {{"nv"}, {"stt"}}
    BY <1>1, <1>3, <2>1 DEF SlotsOK, Both
  <2>3. \A s \in slots \ {slot} : s.mid # sig.mid
    BY <1>1 DEF SlotsOK
  <2>4. QED
    BY <1>3, <2>2, <2>3 DEF SlotsOK
<1>4. QED
  BY <1>2, <1>3 DEF OnWindowSignal, Without

\* The recorder keeps the slots apart, whatever signal comes.
LEMMA ConsumeStep ==
  ASSUME queue \in Seq(Signals), SlotsOK(slots), Consume
  PROVE  queue' \in Seq(Signals) /\ SlotsOK(slots')
<1>1. /\ queue' \in Seq(Signals)
      /\ Head(queue) \in Signals
      /\ OnSignal(Head(queue))
  BY DEF Consume
<1>2. CASE OnWindowSignal(Head(queue))
  BY <1>1, <1>2, WindowSlots
<1>3. CASE OnEvaluation(Head(queue))
  BY <1>1, <1>3 DEF OnEvaluation
<1>4. CASE OnTurnEnd(Head(queue))
  BY <1>1, <1>4 DEF OnTurnEnd, Swept, SlotsOK
<1>5. QED
  BY <1>1, <1>2, <1>3, <1>4 DEF OnSignal

LEMMA PipeStep ==
  ASSUME PipeInv, [PipelineNext]_pvars
  PROVE  PipeInv'
<1> USE DEF PipeInv
<1>1. /\ TypeOK' /\ EvalInv' /\ TailQuiet'
  <2>1. [Next]_vars
    BY PipelineStep DEF pvars
  <2>2. QED
    BY <2>1, TypeStep, EvalInvStep, TailStep
<1>2. CASE UNCHANGED <<recorder, pipeline>>
  BY <1>1, <1>2 DEF recorder, pipeline
<1>3. ASSUME NEW w \in Submitted, Deliver(w)
      PROVE  PipeInv'
  <2>1. Signal(w) \in Signals
    BY <1>3
       DEF Deliver, EmitBridge, TailQuiet, TypeOK, Window, Lane, Time, Signal, Signals
  <2>2. QED
    BY <1>1, <1>3, <2>1 DEF Deliver, recorder
<1>4. CASE EndTurnDelivers
  <2>1. TurnEndSignal \in Signals
    BY DEF TypeOK, Time, TurnEndSignal, Signals
  <2>2. QED
    BY <1>1, <1>4, <2>1 DEF EndTurnDelivers, recorder
<1>5. CASE Drain \/ FlushOne
  <2>1. Consume /\ sub' = sub
    BY <1>5 DEF Drain, FlushOne, Consume
  <2>2. QED
    BY <1>1, <2>1, ConsumeStep
<1>6. CASE SubStop \/ SubFlush \/ FlushIdle \/ SubClose \/ SubAbort
  BY <1>1, <1>6
     DEF SubStop, SubFlush, FlushIdle, SubClose, SubAbort, SubPhase, recorder
<1>7. QED
  BY <1>2, <1>3, <1>4, <1>5, <1>6
     DEF PipelineNext, Listen, PollTask, Work, EndTurnGoesOn, pvars

\* Whatever order the workers finish in, and wherever aclose is cancelled:
\* what waits in the recorder's pending map is a window with one of its two
\* signals, and no window waits there twice, so a second signal always meets
\* the first one; and the queue holds no evaluation of the tail as a signal.
THEOREM PipelineTypeCorrect == PipelineSpec => []PipelineTypeOK
<1>1. PipelineInit => PipeInv
  <2> SUFFICES ASSUME PipelineInit PROVE PipeInv
    OBVIOUS
  <2>1. TypeOK /\ EvalInv
    BY TypeInit DEF PipelineInit
  <2>2. TailQuiet
    BY DEF PipelineInit, Init, TailQuiet, Submitted
  <2>3. QED
    BY <2>1, <2>2 DEF PipelineInit, RecorderInit, PipeInv, SlotsOK, SubPhase
<1>2. PipeInv /\ [PipelineNext]_pvars => PipeInv'
  BY PipeStep
<1>3. PipeInv => PipelineTypeOK
  <2> SUFFICES ASSUME PipeInv PROVE PipelineTypeOK
    OBVIOUS
  <2>1. \A i \in 1..Len(queue) : queue[i] \in Signals
    BY DEF PipeInv
  <2>2. \A i \in 1..Len(queue) : queue[i].lane \in {"nv", "stt", "eval", "end"}
    BY <2>1 DEF Signals
  <2>3. TypeOK /\ sub \in SubPhase /\ SlotsOK(slots)
    BY DEF PipeInv
  <2>4. QED
    BY <2>2, <2>3 DEF PipelineTypeOK, SlotsOK
<1>4. QED
  BY <1>1, <1>2, <1>3, PTL DEF PipelineSpec

(***************************************************************************)
(* What the pipeline needs to know of the windower.                        *)
(***************************************************************************)

\* A window of the nv or the stt lane has a length.
LongInv == \A w \in Known : w.lane \in Both => w.start < w.end

\* A signal is sent by the last step of its window.
SentInv == \A w \in sent : at[w] = "done" /\ w.lane # "tail"

WinInv ==
  /\ TypeOK /\ EvalInv /\ SpanInv /\ OnceInv /\ EndInv
  /\ TailQuiet /\ LongInv /\ SentInv

\* Windows of no length are not cut.
LEMMA LongStep ==
  ASSUME TypeOK, LongInv, [Next]_vars
  PROVE  LongInv'
<1> SUFFICES ASSUME NEW w \in Known', w.lane \in Both PROVE w.start < w.end
  BY DEF LongInv
<1>1. /\ Known \subseteq Window
      /\ starved \subseteq Time
      /\ NvW \in Nat /\ NvW > 0 /\ NvGrid \subseteq Nat
  BY WindowAssumption, GridType DEF Known, InBatch, TypeOK, NvGrid
<1>2. CASE w \in Known
  BY <1>2 DEF LongInv
<1>3. ASSUME NEW p \in Pollers, PollCut(p), w \in batch'[p]
      PROVE  w.start < w.end
  <2>1. w \in Window
    BY <1>3, PollWindows
  <2>2. \/ w.end \in NvGrid /\ w.start = w.end - NvW
        \/ w.start \in starved /\ w.end = w.start + NvW
    BY <1>3, PollWindows DEF Both
  <2>3. QED
    BY <1>1, <2>1, <2>2 DEF Window, Time
<1>4. ASSUME EndCut, w \in endBatch'
      PROVE  w.start < w.end
  <2>1. w \in Window
    BY <1>4, EndWindows
  <2>2. \/ w.end \in NvGrid /\ w.start = w.end - NvW
        \/ w.start < w.end
        \/ w.start \in starved /\ w.end = w.start + NvW
    BY <1>4, EndWindows DEF Both
  <2>3. QED
    BY <1>1, <2>1, <2>2 DEF Window, Time
<1>5. QED
  BY <1>2, <1>3, <1>4, KnownStep DEF NoCut

\* What is done stays done, and nothing else is sent.
LEMMA SentStep ==
  ASSUME TypeOK, OnceInv, TailQuiet, SentInv, [Next]_vars
  PROVE  SentInv'
<1>1. sent \subseteq Submitted
  BY DEF TypeOK
<1>2. CASE \E w \in Submitted : Worker(w)
  <2>1. PICK w \in Submitted : Worker(w)
    BY <1>2
  <2>2. \E x \in Phase : at' = [at EXCEPT ![w] = x]
    BY <2>1
       DEF Worker, InferRaises, NvReturns, SttReturns, EvalReturns, TailReturns,
           EmitStored, EmitBridge, EmitCheck, Phase
  <2>3. \A v \in Submitted : v # w => at'[v] = at[v]
    BY <2>2, PhaseStep
  <2>4. CASE EmitBridge(w)
    <3>1. at'[w] = "done" /\ sent' = sent \cup {w} /\ w.lane # "tail"
      BY <2>4, PhaseStep DEF EmitBridge, TailQuiet, Phase
    <3>2. QED
      BY <1>1, <2>3, <3>1 DEF SentInv
  <2>5. CASE ~EmitBridge(w)
    <3>1. sent' = sent /\ at[w] # "done"
      BY <2>1, <2>5
         DEF Worker, InferRaises, NvReturns, SttReturns, EvalReturns, TailReturns, EmitStored
    <3>2. QED
      BY <1>1, <2>3, <3>1 DEF SentInv
  <2>6. QED
    BY <2>4, <2>5
<1>3. ASSUME NEW ws \in SUBSET Window, Submit(ws), ws \cap Submitted = {}, sent' = sent
      PROVE  SentInv'
  <2>1. \A v \in Submitted : at'[v] = at[v]
    BY <1>3, SubmitStep
  <2>2. QED
    BY <1>1, <1>3, <2>1 DEF SentInv
<1>4. ASSUME NEW p \in Pollers, PollSubmit(p)
      PROVE  SentInv'
  <2>1. batch[p] \in SUBSET Window /\ batch[p] \cap Submitted = {}
    BY <1>4 DEF OnceInv, InBatch, TypeOK
  <2>2. QED
    BY <1>3, <1>4, <2>1 DEF PollSubmit
<1>5. CASE EndSubmit
  BY <1>3, <1>5 DEF EndSubmit, OnceInv, TypeOK
<1>6. CASE EndSubmitRaises
  <2>1. PICK ws \in SUBSET endBatch : Submit(ws)
    BY <1>6 DEF EndSubmitRaises
  <2>2. ws \in SUBSET Window /\ ws \cap Submitted = {} /\ sent' = sent
    BY <1>6 DEF EndSubmitRaises, OnceInv, TypeOK
  <2>3. QED
    BY <1>3, <2>1, <2>2
<1>7. CASE UNCHANGED <<at, sent>>
  BY <1>7 DEF SentInv
<1>8. QED
  BY <1>2, <1>4, <1>5, <1>6, <1>7
     DEF Next, Tick, AddFrame, AddAudio, PollCut, EndCut, EndTurn, EndWait, EndDeadline,
         EndJoin, EndEmit, EndBridge, Close, vars, results

LEMMA WinCorrect == Spec => []WinInv
<1>1. Init => TailQuiet /\ LongInv /\ SentInv
  BY DEF Init, TailQuiet, LongInv, SentInv, Submitted, Known, InBatch
<1>2. WinInv <=> /\ TypeOK /\ EvalInv /\ SpanInv /\ OnceInv /\ EndInv
                 /\ TailQuiet /\ LongInv /\ SentInv
  BY DEF WinInv
<1>3. QED
  BY <1>1, <1>2, TailStep, LongStep, SentStep, TypeCorrect, SpansCorrect, OnceInvCorrect,
     EndInvCorrect, PTL DEF Spec

\* Once the TurnEnd was handed over, no window is submitted any more and the
\* set of the timely ones is final; only EndBridge hands it over.
LEMMA EndStays ==
  ASSUME WinInv, [Next]_vars
  PROVE  /\ endPc = "done" => endPc' = "done" /\ Timely' = Timely
         /\ endPc' = "done" /\ endPc # "done" => EndBridge
<1>1. TypeOK /\ EndInv
  BY DEF WinInv
<1>2. CASE \E w \in Submitted : Worker(w)
  <2>1. PICK w \in Submitted : Worker(w)
    BY <1>2
  <2>2. \E x \in Phase : at' = [at EXCEPT ![w] = x]
    BY <2>1
       DEF Worker, InferRaises, NvReturns, SttReturns, EvalReturns, TailReturns,
           EmitStored, EmitBridge, EmitCheck, Phase
  <2>3. Submitted' = Submitted
    BY <1>1, <2>2, PhaseStep
  <2>4. UNCHANGED <<endPc, stalled>>
    BY <2>1
       DEF Worker, InferRaises, NvReturns, SttReturns, EvalReturns, TailReturns,
           EmitStored, EmitBridge, ending
  <2>5. QED
    BY <2>3, <2>4 DEF Timely
<1>3. ASSUME NEW p \in Pollers, PollSubmit(p)
      PROVE  endPc = "idle" /\ endPc' = endPc
  BY <1>1, <1>3 DEF PollSubmit, EndInv, InBatch, ending
<1>4. CASE UNCHANGED <<at, endPc, stalled>>
  BY <1>4 DEF Timely, Submitted
<1>5. CASE EndCut \/ EndTurn
  <2>1. endPc # "done"
    BY <1>5
       DEF EndCut, EndTurn, EndSubmit, EndSubmitRaises, EndWait, EndDeadline, EndJoin,
           EndEmit, EndBridge
  <2>2. endPc' = "done" => EndBridge
    BY <1>5
       DEF EndCut, EndTurn, EndSubmit, EndSubmitRaises, EndWait, EndDeadline, EndJoin, EndEmit
  <2>3. QED
    BY <2>1, <2>2
<1>6. QED
  BY <1>2, <1>3, <1>4, <1>5
     DEF Next, Tick, AddFrame, AddAudio, PollCut, Close, vars, results, ending

\* The middle of a window tells which stretch it is, over the nv and the stt
\* lane together and over the eval lane: the key of _pending is sound.
LEMMA SameMiddle ==
  ASSUME WinInv, NEW v \in Known, NEW w \in Known,
         \/ v.lane \in Both /\ w.lane \in Both
         \/ v.lane = "eval" /\ w.lane = "eval",
         v.start + v.end = w.start + w.end
  PROVE  SameSpan(v, w) /\ (v.lane = w.lane => v = w)
<1>1. /\ v.start \in Nat /\ v.end \in Nat /\ w.start \in Nat /\ w.end \in Nat
      /\ EvalW \in Nat
  BY WindowAssumption DEF WinInv, TypeOK, Known, InBatch, Window, Time
<1>2. CASE v.lane \in Both /\ w.lane \in Both
  <2>1. v.start < v.end /\ w.start < w.end
    BY <1>2 DEF WinInv, LongInv
  <2>2. Overlap(v, w)
    BY <1>1, <2>1 DEF Overlap
  <2>3. QED
    BY <1>2, <2>2, OverlapSame DEF WinInv, Both, OnceInv
<1>3. CASE v.lane = "eval" /\ w.lane = "eval"
  <2>1. v.start = v.end - EvalW /\ w.start = w.end - EvalW
    BY <1>3 DEF WinInv, EvalInv
  <2>2. SameSpan(v, w)
    BY <1>1, <2>1 DEF SameSpan
  <2>3. QED
    BY <1>3, <2>2 DEF WinInv, OnceInv
<1>4. QED
  BY <1>2, <1>3

(***************************************************************************)
(* The stream of signals and records.                                      *)
(***************************************************************************)

Lanes3 == Both \cup {"eval"}
Record ==
  [kind : {"window", "eval", "turn_end"}, mid : Int, width : Int, lanes : SUBSET Lanes3]

HasEnd == \E i \in 1..Len(log) : log[i].kind = "turn_end"

\* Records are what the kinds say, and partial only from the turn_end on.
RecordsOK ==
  /\ log \in Seq(Record) /\ slots \subseteq Record /\ IsFiniteSet(slots)
  /\ \A i \in 1..Len(log) :
       /\ log[i].kind = "window" => /\ log[i].lanes \subseteq Both /\ log[i].lanes # {}
                                    /\ HasEnd \/ log[i].lanes = Both
       /\ log[i].kind = "eval" => log[i].lanes = {"eval"}
       /\ log[i].kind = "turn_end" => log[i].lanes = {}

From(w, l, m) == w.lane = l /\ w.start + w.end = m

\* The signal of lane l and middle m has reached the recorder.
Spent(l, m) ==
  \/ \E s \in slots : s.mid = m /\ l \in s.lanes
  \/ \E i \in 1..Len(log) : log[i].mid = m /\ l \in log[i].lanes

\* All that is under way or recorded comes from a window whose signal was sent.
OriginInv ==
  /\ \A i \in 1..Len(queue) :
       queue[i].lane # "end" => \E w \in sent : queue[i] = Signal(w)
  /\ \A s \in slots : \A l \in s.lanes :
       \E w \in sent : From(w, l, s.mid) /\ w.end - w.start = s.width
  /\ \A i \in 1..Len(log) : \A l \in log[i].lanes :
       \E w \in sent : From(w, l, log[i].mid)

\* A signal is in one place only: in the queue, in a slot or in a record.
PlaceInv ==
  /\ \A i, j \in 1..Len(queue) :
       /\ queue[i].lane = queue[j].lane
       /\ queue[i].lane = "end" \/ queue[i].mid = queue[j].mid
       => i = j
  /\ \A i \in 1..Len(queue) : queue[i].lane # "end" => ~Spent(queue[i].lane, queue[i].mid)
  /\ \A s \in slots, i \in 1..Len(log) :
       s.mid = log[i].mid => s.lanes \cap log[i].lanes = {}
  /\ \A i \in 1..Len(queue) : queue[i].lane = "end" => endPc = "done" /\ ~HasEnd
  /\ HasEnd => endPc = "done"

\* The signal of w is in front of the TurnEnd, in a slot or in a record.
Waiting(w) ==
  \/ \E i \in 1..Len(queue) :
       queue[i] = Signal(w) /\ \A j \in 1..i : queue[j].lane # "end"
  \/ \E s \in slots :
       From(w, w.lane, s.mid) /\ w.end - w.start = s.width /\ w.lane \in s.lanes
  \/ \E i \in 1..Len(log) : Recorded(w, i)

TimelyInv ==
  ~HasEnd => \A w \in sent :
    w.lane \in Both /\ (endPc # "done" \/ w \in Timely) => Waiting(w)

StreamInv ==
  /\ queue \in Seq(Signals) /\ SlotsOK(slots)
  /\ RecordsOK /\ OriginInv /\ PlaceInv /\ TimelyInv /\ TimelyRecorded

\* The windows that were sent, and their signals.
LEMMA SentFacts ==
  ASSUME WinInv
  PROVE  /\ sent \subseteq Known /\ sent \subseteq Submitted
         /\ \A w \in Submitted :
              /\ w \in Known /\ w \in Window /\ w.start \in Nat /\ w.end \in Nat
              /\ w.start <= MaxT /\ w.end <= MaxT
              /\ w.lane # "tail" => Signal(w) \in Signals /\ w.lane \in Lanes3
         /\ \A w \in sent : Signal(w) \in Signals /\ w.lane \in Lanes3
BY DEF WinInv, TypeOK, Known, Window, Lane, Time, SentInv, Signals, Signal, Lanes3, Both

\* Two signals of one lane and middle are those of one window.
LEMMA SignalOnce ==
  ASSUME WinInv, NEW v \in Submitted, NEW w \in Submitted,
         v.lane \in Lanes3, From(v, w.lane, w.start + w.end)
  PROVE  v = w
<1>1. v \in Known /\ w \in Known /\ v.lane = w.lane /\ v.start + v.end = w.start + w.end
  BY SentFacts DEF From
<1>2. \/ v.lane \in Both /\ w.lane \in Both
      \/ v.lane = "eval" /\ w.lane = "eval"
  BY <1>1 DEF Lanes3
<1>3. QED
  BY <1>1, <1>2, SameMiddle

\* Steps that hand nothing over leave the stream as it is.
LEMMA QuietStep ==
  ASSUME WinInv, StreamInv, [Next]_vars, sent' = sent, ~EndBridge,
         UNCHANGED <<recorder, queue>>
  PROVE  StreamInv'
<1>1. slots' = slots /\ log' = log /\ queue' = queue
  BY DEF recorder
<1>2. /\ endPc = "done" <=> endPc' = "done"
      /\ endPc = "done" => Timely' = Timely
  BY EndStays
<1>3. RecordsOK' /\ OriginInv' /\ HasEnd' = HasEnd
  BY <1>1 DEF StreamInv, RecordsOK, OriginInv, HasEnd
<1>4. PlaceInv'
  BY <1>1, <1>2, <1>3 DEF StreamInv, PlaceInv, Spent
<1>5. TimelyInv'
  BY <1>1, <1>2, <1>3 DEF StreamInv, TimelyInv, Waiting, Recorded
<1>6. TimelyRecorded'
  <2>1. CASE HasEnd
    <3>1. Timely' = Timely
      BY <1>2, <2>1 DEF StreamInv, PlaceInv
    <3>2. QED
      BY <1>1, <3>1 DEF StreamInv, TimelyRecorded, Recorded, Ends
  <2>2. CASE ~HasEnd
    BY <1>1, <2>2 DEF TimelyRecorded, HasEnd, Ends
  <2>3. QED
    BY <2>1, <2>2
<1>7. QED
  BY <1>1, <1>3, <1>4, <1>5, <1>6 DEF StreamInv

\* A signal that is sent joins the end of the queue; it is the first of its
\* lane and middle, and one after the TurnEnd was late.
LEMMA DeliverStep ==
  ASSUME WinInv, StreamInv, [Next]_vars, NEW w \in Submitted, Deliver(w)
  PROVE  StreamInv'
<1> DEFINE n == Len(queue) + 1
<1>1. /\ at[w] = "bridge" /\ w.lane # "tail" /\ w \notin sent /\ sent' = sent \cup {w}
      /\ Signal(w) \in Signals /\ w.lane \in Lanes3 /\ Signal(w).lane = w.lane /\ w.lane # "end"
      /\ Signal(w).mid = w.start + w.end
  BY SentFacts DEF Deliver, EmitBridge, WinInv, TailQuiet, SentInv, Signal, Lanes3, Both
<1>2. /\ slots' = slots /\ log' = log /\ endPc' = endPc /\ Timely' = Timely
      /\ endPc = "done" /\ w.lane \in Both => w \notin Timely
  <2>1. slots' = slots /\ log' = log /\ endPc' = endPc /\ stalled' = stalled
    BY DEF Deliver, recorder, EmitBridge, ending
  <2>2. Submitted' = Submitted
    BY <1>1, PhaseStep DEF Deliver, EmitBridge, WinInv, Phase
  <2>3. endPc = "done" /\ w.lane \in Both => w \in stalled
    BY <1>1 DEF WinInv, EndInv, Finished, Both
  <2>4. QED
    BY <2>1, <2>2, <2>3 DEF Timely
<1>3. /\ queue \in Seq(Signals) /\ queue' = Append(queue, Signal(w)) /\ queue' \in Seq(Signals)
      /\ Len(queue') = n /\ queue'[n] = Signal(w)
      /\ \A i \in 1..Len(queue) : queue'[i] = queue[i]
      /\ 1..n = 1..Len(queue) \cup {n}
  BY <1>1 DEF Deliver, StreamInv
<1>4. RecordsOK' /\ HasEnd' = HasEnd
  BY <1>2 DEF StreamInv, RecordsOK, HasEnd
<1>5. OriginInv'
  BY <1>1, <1>2, <1>3 DEF StreamInv, OriginInv
<1>6. ~Spent(w.lane, w.start + w.end)
  <2>1. ASSUME NEW v \in sent, From(v, w.lane, w.start + w.end)
        PROVE  FALSE
    BY <1>1, <2>1, SentFacts, SignalOnce
  <2>2. QED
    BY <2>1 DEF Spent, StreamInv, OriginInv
<1>7. \A i \in 1..Len(queue) : ~(queue[i].lane = w.lane /\ queue[i].mid = w.start + w.end)
  <2>1. ASSUME NEW i \in 1..Len(queue), queue[i].lane = w.lane, queue[i].mid = w.start + w.end
        PROVE  FALSE
    <3>1. PICK v \in sent : queue[i] = Signal(v)
      BY <1>1, <2>1 DEF StreamInv, OriginInv
    <3>2. From(v, w.lane, w.start + w.end) /\ v.lane \in Lanes3
      BY <2>1, <3>1, SentFacts DEF Signal, From
    <3>3. QED
      BY <1>1, <3>2, SentFacts, SignalOnce
  <2>2. QED
    BY <2>1
<1>8. PlaceInv'
  <2>1. \A i, j \in 1..Len(queue') :
          /\ queue'[i].lane = queue'[j].lane
          /\ queue'[i].lane = "end" \/ queue'[i].mid = queue'[j].mid
          => i = j
    BY <1>1, <1>3, <1>7 DEF StreamInv, PlaceInv
  <2>2. \A i \in 1..Len(queue') :
          queue'[i].lane # "end" =>
            /\ ~\E s \in slots : s.mid = queue'[i].mid /\ queue'[i].lane \in s.lanes
            /\ ~\E k \in 1..Len(log) : log[k].mid = queue'[i].mid /\ queue'[i].lane \in log[k].lanes
    BY <1>1, <1>3, <1>6 DEF StreamInv, PlaceInv, Spent
  <2>3. \A i \in 1..Len(queue') : queue'[i].lane = "end" => endPc' = "done" /\ ~HasEnd'
    BY <1>1, <1>2, <1>3, <1>4 DEF StreamInv, PlaceInv
  <2>4. QED
    BY <1>2, <1>4, <2>1, <2>2, <2>3 DEF StreamInv, PlaceInv, Spent
<1>9. ASSUME NEW v \in sent, Waiting(v)
      PROVE  Waiting(v)'
  <2>1. CASE \E i \in 1..Len(queue) :
               queue[i] = Signal(v) /\ \A j \in 1..i : queue[j].lane # "end"
    <3>1. PICK i \in 1..Len(queue) :
               queue[i] = Signal(v) /\ \A j \in 1..i : queue[j].lane # "end"
      BY <2>1
    <3>2. i \in 1..Len(queue') /\ queue'[i] = Signal(v) /\ \A j \in 1..i : queue'[j].lane # "end"
      BY <1>3, <3>1
    <3>3. QED
      BY <3>2 DEF Waiting, Signal
  <2>2. CASE ~\E i \in 1..Len(queue) :
               queue[i] = Signal(v) /\ \A j \in 1..i : queue[j].lane # "end"
    BY <1>2, <1>9, <2>2 DEF Waiting, Recorded
  <2>3. QED
    BY <2>1, <2>2
<1>10. endPc # "done" => Waiting(w)'
  <2>1. endPc # "done" => \A j \in 1..n : queue'[j].lane # "end"
    BY <1>1, <1>3 DEF StreamInv, PlaceInv
  <2>2. n \in 1..Len(queue')
    BY <1>3
  <2>3. QED
    BY <1>3, <2>1, <2>2 DEF Waiting, Signal
<1>11. TimelyInv'
  BY <1>1, <1>2, <1>4, <1>9, <1>10 DEF StreamInv, TimelyInv
<1>12. TimelyRecorded'
  <2>1. CASE HasEnd
    <3>1. (Timely \cap sent)' = Timely \cap sent
      <4>1. \A v \in Timely : v.lane \in Both
        BY DEF Timely, Both
      <4>2. QED
        BY <1>1, <1>2, <2>1, <4>1 DEF StreamInv, PlaceInv
    <3>2. QED
      BY <1>2, <3>1 DEF StreamInv, TimelyRecorded, Recorded, Ends
  <2>2. CASE ~HasEnd
    BY <1>2, <2>2 DEF TimelyRecorded, HasEnd, Ends
  <2>3. QED
    BY <2>1, <2>2
<1>13. QED
  BY <1>2, <1>3, <1>4, <1>5, <1>8, <1>11, <1>12 DEF StreamInv

\* The TurnEnd joins the queue behind all signals that were timely.
LEMMA EndStep ==
  ASSUME WinInv, StreamInv, [Next]_vars, EndTurnDelivers
  PROVE  StreamInv'
<1> DEFINE n == Len(queue) + 1
<1>1. /\ endPc = "bridge" /\ endPc' = "done" /\ sent' = sent /\ Timely' = Timely
      /\ slots' = slots /\ log' = log
  BY DEF EndTurnDelivers, EndBridge, recorder, Timely, Submitted
<1>2. TurnEndSignal \in Signals /\ TurnEndSignal.lane = "end"
  BY DEF WinInv, TypeOK, Time, TurnEndSignal, Signals
<1>3. /\ queue \in Seq(Signals) /\ queue' = Append(queue, TurnEndSignal)
      /\ queue' \in Seq(Signals)
      /\ Len(queue') = n /\ queue'[n] = TurnEndSignal
      /\ \A i \in 1..Len(queue) : queue'[i] = queue[i]
      /\ 1..n = 1..Len(queue) \cup {n}
  BY <1>2 DEF EndTurnDelivers, StreamInv
<1>4. /\ RecordsOK' /\ HasEnd' = HasEnd /\ ~HasEnd
      /\ \A i \in 1..Len(queue) : queue[i].lane # "end"
  BY <1>1 DEF StreamInv, RecordsOK, PlaceInv, HasEnd
<1>5. OriginInv'
  BY <1>1, <1>2, <1>3 DEF StreamInv, OriginInv
<1>6. PlaceInv'
  <2>1. \A i, j \in 1..Len(queue') :
          /\ queue'[i].lane = queue'[j].lane
          /\ queue'[i].lane = "end" \/ queue'[i].mid = queue'[j].mid
          => i = j
    BY <1>2, <1>3, <1>4 DEF StreamInv, PlaceInv
  <2>2. \A i \in 1..Len(queue') :
          queue'[i].lane # "end" =>
            /\ ~\E s \in slots : s.mid = queue'[i].mid /\ queue'[i].lane \in s.lanes
            /\ ~\E k \in 1..Len(log) : log[k].mid = queue'[i].mid /\ queue'[i].lane \in log[k].lanes
    BY <1>2, <1>3 DEF StreamInv, PlaceInv, Spent
  <2>3. QED
    BY <1>1, <1>4, <2>1, <2>2 DEF StreamInv, PlaceInv, Spent
<1>7. ASSUME NEW v \in sent, Waiting(v)
      PROVE  Waiting(v)'
  <2>1. CASE \E i \in 1..Len(queue) :
               queue[i] = Signal(v) /\ \A j \in 1..i : queue[j].lane # "end"
    <3>1. PICK i \in 1..Len(queue) :
               queue[i] = Signal(v) /\ \A j \in 1..i : queue[j].lane # "end"
      BY <2>1
    <3>2. i \in 1..Len(queue') /\ queue'[i] = Signal(v) /\ \A j \in 1..i : queue'[j].lane # "end"
      BY <1>3, <3>1
    <3>3. QED
      BY <3>2 DEF Waiting, Signal
  <2>2. CASE ~\E i \in 1..Len(queue) :
               queue[i] = Signal(v) /\ \A j \in 1..i : queue[j].lane # "end"
    BY <1>1, <1>7, <2>2 DEF Waiting, Recorded
  <2>3. QED
    BY <2>1, <2>2
<1>8. TimelyInv'
  BY <1>1, <1>4, <1>7 DEF StreamInv, TimelyInv
<1>9. TimelyRecorded'
  BY <1>1, <1>4 DEF TimelyRecorded, HasEnd, Ends
<1>10. QED
  BY <1>1, <1>3, <1>4, <1>5, <1>6, <1>8, <1>9 DEF StreamInv

\* What Consume takes from the queue, and what it leaves there.
LEMMA ConsumeFacts ==
  ASSUME WinInv, StreamInv, Consume
  PROVE  /\ queue[1] \in Signals /\ Head(queue) = queue[1] /\ OnSignal(queue[1])
         /\ queue' \in Seq(Signals) /\ Len(queue') + 1 = Len(queue) /\ Len(queue') \in Nat
         /\ \A i \in 1..Len(queue') : i + 1 \in 1..Len(queue) /\ queue'[i] = queue[i + 1]
         /\ queue[1].lane # "end" =>
              /\ ~Spent(queue[1].lane, queue[1].mid)
              /\ \E w \in sent : queue[1] = Signal(w)
         /\ sent' = sent /\ endPc' = endPc /\ Timely' = Timely
<1>1. /\ queue \in Seq(Signals) /\ Len(queue) \in Nat /\ 1 \in 1..Len(queue)
      /\ Head(queue) = queue[1]
      /\ queue' = Tail(queue) /\ OnSignal(Head(queue)) /\ UNCHANGED vars
  BY DEF StreamInv, Consume
<1>2. /\ queue' \in Seq(Signals) /\ Len(queue') + 1 = Len(queue) /\ Len(queue') \in Nat
      /\ \A i \in 1..Len(queue') : i + 1 \in 1..Len(queue) /\ queue'[i] = queue[i + 1]
  BY <1>1
<1>3. sent' = sent /\ endPc' = endPc /\ Timely' = Timely
  BY <1>1 DEF vars, ending, Timely, Submitted
<1>4. queue[1] \in Signals
  BY <1>1
<1>5. QED
  BY <1>1, <1>2, <1>3, <1>4 DEF StreamInv, PlaceInv, OriginInv

\* The signal that is recorded is the only one of its lane and middle.
LEMMA ConsumePlaces ==
  ASSUME WinInv, StreamInv, Consume,
         \A l, m : Spent(l, m)' => Spent(l, m) \/ (l = queue[1].lane /\ m = queue[1].mid)
  PROVE  /\ \A i, j \in 1..Len(queue') :
              /\ queue'[i].lane = queue'[j].lane
              /\ queue'[i].lane = "end" \/ queue'[i].mid = queue'[j].mid
              => i = j
         /\ (\A i \in 1..Len(queue) :
               queue[i].lane # "end" => ~Spent(queue[i].lane, queue[i].mid))'
<1>1. /\ 1 \in 1..Len(queue)
      /\ \A i \in 1..Len(queue') : i + 1 \in 1..Len(queue) /\ queue'[i] = queue[i + 1] /\ i # 0
  BY ConsumeFacts
<1>2. ASSUME NEW i \in 1..Len(queue'), NEW j \in 1..Len(queue'),
             queue'[i].lane = queue'[j].lane,
             queue'[i].lane = "end" \/ queue'[i].mid = queue'[j].mid
      PROVE  i = j
  <2> DEFINE a == i + 1
             b == j + 1
  <2>1. /\ a \in 1..Len(queue) /\ b \in 1..Len(queue)
        /\ queue[a].lane = queue[b].lane
        /\ queue[a].lane = "end" \/ queue[a].mid = queue[b].mid
    BY <1>1, <1>2
  <2> HIDE DEF a, b
  <2>2. a = b
    BY <2>1 DEF StreamInv, PlaceInv
  <2>3. QED
    BY <2>2 DEF a, b
<1>3. ASSUME NEW i \in 1..Len(queue'), queue'[i].lane # "end"
      PROVE  /\ ~Spent(queue[i + 1].lane, queue[i + 1].mid)
             /\ ~(queue[i + 1].lane = queue[1].lane /\ queue[i + 1].mid = queue[1].mid)
  <2>1. i + 1 \in 1..Len(queue) /\ i + 1 # 1 /\ queue[i + 1].lane # "end"
    BY <1>1, <1>3
  <2>2. QED
    BY <1>1, <2>1 DEF StreamInv, PlaceInv
<1>4. ASSUME NEW i \in 1..Len(queue'), queue'[i].lane # "end"
      PROVE  /\ ~\E s \in slots' : s.mid = queue'[i].mid /\ queue'[i].lane \in s.lanes
             /\ ~\E k \in 1..Len(log') :
                   log'[k].mid = queue'[i].mid /\ queue'[i].lane \in log'[k].lanes
  <2>1. PICK l, m : l = queue[i + 1].lane /\ m = queue[i + 1].mid
    OBVIOUS
  <2>2. ~Spent(l, m)'
    BY <1>3, <1>4, <2>1
  <2>3. queue'[i].lane = l /\ queue'[i].mid = m
    BY <1>1, <2>1
  <2>4. QED
    BY <2>2, <2>3 DEF Spent
<1>5. QED
  BY <1>2, <1>4 DEF Spent

\* A signal that waits in the queue moves one place, if it is not taken.
LEMMA ShiftWaiting ==
  ASSUME WinInv, StreamInv, Consume, NEW v \in sent,
         \E i \in 1..Len(queue) : queue[i] = Signal(v) /\ \A j \in 1..i : queue[j].lane # "end",
         queue[1] # Signal(v)
  PROVE  Waiting(v)'
<1>1. PICK i \in 1..Len(queue) : queue[i] = Signal(v) /\ \A j \in 1..i : queue[j].lane # "end"
  OBVIOUS
<1>2. /\ Len(queue') \in Nat /\ Len(queue) = Len(queue') + 1
      /\ \A k \in 1..Len(queue') : k + 1 \in 1..Len(queue) /\ queue'[k] = queue[k + 1]
  BY ConsumeFacts
<1> DEFINE k == i - 1
<1>3. k \in 1..Len(queue') /\ k + 1 = i
  BY <1>1, <1>2
<1>4. queue'[k] = Signal(v)
  BY <1>1, <1>2, <1>3
<1>5. \A j \in 1..k : queue'[j].lane # "end"
  BY <1>1, <1>2, <1>3
<1>6. QED
  BY <1>3, <1>4, <1>5 DEF Waiting, Signal

\* A signal of the nv or the stt lane completes the slot of its window, or
\* opens one.
LEMMA WindowCases ==
  ASSUME StreamInv, NEW sig \in Signals, OnWindowSignal(sig), ~Spent(sig.lane, sig.mid)
  PROVE  /\ sig.lane \in Both
         /\ \/ \E s \in slots :
                 /\ s.mid = sig.mid /\ s.lanes \cup {sig.lane} = Both /\ sig.lane \notin s.lanes
                 /\ \E l \in s.lanes : Both = {l, sig.lane}
                 /\ slots' = slots \ {s}
                 /\ log' = Append(log, WindowRecord(sig.mid, s.width, Both))
            \/ /\ \A s \in slots : s.mid # sig.mid
               /\ slots' = slots \cup {WindowRecord(sig.mid, sig.width, {sig.lane})}
               /\ log' = log
<1> DEFINE slot == SlotOf(sig)
           joined == [slot EXCEPT !.lanes = @ \cup {sig.lane}]
<1>1. sig.lane \in Both
  BY DEF OnWindowSignal
<1>2. CASE \E s \in slots : s.mid = sig.mid
  <2>1. slot \in slots /\ slot.mid = sig.mid
    BY <1>2 DEF SlotOf
  <2>2. slot.lanes \in {{"nv"}, {"stt"}} /\ sig.lane \notin slot.lanes
    BY <2>1 DEF StreamInv, SlotsOK, Spent
  <2>3. slot.lanes \cup {sig.lane} = Both /\ \E l \in slot.lanes : Both = {l, sig.lane}
    BY <1>1, <2>2 DEF Both
  <2>4. PICK s \in slots : s = slot
    BY <2>1
  <2>5. joined = WindowRecord(sig.mid, s.width, Both)
    <3>1. s.kind = "window" /\ s = WindowRecord(s.mid, s.width, s.lanes)
      BY DEF StreamInv, SlotsOK, RecordsOK, Record, WindowRecord
    <3>2. QED
      BY <2>1, <2>3, <2>4, <3>1 DEF WindowRecord
  <2>6. slots' = slots \ {s} /\ log' = Append(log, joined)
    BY <2>4, <2>5 DEF OnWindowSignal, Without, WindowRecord
  <2>7. QED
    BY <1>1, <2>1, <2>2, <2>3, <2>4, <2>5, <2>6
<1>3. CASE ~\E s \in slots : s.mid = sig.mid
  <2>1. slot = WindowRecord(sig.mid, sig.width, {})
    BY <1>3 DEF SlotOf
  <2>2. joined = WindowRecord(sig.mid, sig.width, {sig.lane}) /\ slot \notin slots
    BY <1>3, <2>1 DEF WindowRecord
  <2>3. joined.lanes # Both
    BY <2>2 DEF WindowRecord, Both
  <2>4. log' = log /\ slots' = slots \cup {joined}
    BY <2>2, <2>3 DEF OnWindowSignal
  <2>5. QED
    BY <1>1, <1>3, <2>2, <2>4
<1>4. QED
  BY <1>2, <1>3

\* A record more at the end of the log.
LEMMA LogGrows ==
  ASSUME log \in Seq(Record), NEW r \in Record, log' = Append(log, r)
  PROVE  /\ log' \in Seq(Record) /\ Len(log') = Len(log) + 1 /\ log'[Len(log) + 1] = r
         /\ \A i \in 1..Len(log) : i \in 1..Len(log') /\ log'[i] = log[i]
         /\ \A i \in 1..Len(log') : i \in 1..Len(log) \/ i = Len(log) + 1
         /\ Len(log) + 1 \in 1..Len(log') /\ Len(log) \in Nat
OBVIOUS

\* A slot of another window may be added.
LEMMA SlotsAdd ==
  ASSUME NEW ss, SlotsOK(ss), NEW r, r.kind = "window", r.lanes \in {{"nv"}, {"stt"}},
         \A s \in ss : s.mid # r.mid
  PROVE  SlotsOK(ss \cup {r})
BY DEF SlotsOK

\* The first signal of a window opens its slot.
LEMMA OpenStep ==
  ASSUME WinInv, StreamInv, Consume,
         queue[1].lane \in Both, \A s \in slots : s.mid # queue[1].mid,
         slots' = slots \cup {WindowRecord(queue[1].mid, queue[1].width, {queue[1].lane})},
         log' = log
  PROVE  StreamInv'
<1> DEFINE sig == queue[1]
           new == WindowRecord(sig.mid, sig.width, {sig.lane})
<1>1. /\ sig \in Signals /\ sig.lane \in Both /\ sig.lane # "end" /\ ~Spent(sig.lane, sig.mid)
      /\ new.mid = sig.mid /\ new.width = sig.width /\ new.lanes = {sig.lane}
      /\ new.kind = "window" /\ new \in Record
  BY ConsumeFacts DEF WindowRecord, Record, Signals, Both, Lanes3
<1>2. PICK w \in sent : sig = Signal(w)
  BY <1>1, ConsumeFacts
<1>3. /\ From(w, sig.lane, sig.mid) /\ w.end - w.start = sig.width /\ w.lane = sig.lane
  BY <1>2 DEF Signal, From
<1>4. SlotsOK(slots')
  <2>1. sig.lane = "nv" \/ sig.lane = "stt"
    BY <1>1 DEF Both
  <2>2. new.lanes \in {{"nv"}, {"stt"}}
    BY <1>1, <2>1
  <2>3. SlotsOK(slots) /\ slots' = slots \cup {new}
    BY DEF StreamInv
  <2>4. new.kind = "window" /\ \A s \in slots : s.mid # new.mid
    BY <1>1
  <2> HIDE DEF new
  <2>5. SlotsOK(slots \cup {new})
    BY <2>2, <2>3, <2>4, SlotsAdd
  <2>6. QED
    BY <2>3, <2>5
<1>5. HasEnd' = HasEnd
  BY DEF HasEnd
<1>6. RecordsOK'
  <2>1. IsFiniteSet(slots')
    BY FS_AddElement DEF StreamInv, RecordsOK
  <2>2. QED
    BY <1>1, <1>5, <2>1 DEF StreamInv, RecordsOK
<1>7. /\ queue' \in Seq(Signals) /\ sent' = sent /\ endPc' = endPc /\ Timely' = Timely
      /\ Len(queue') \in Nat /\ Len(queue) = Len(queue') + 1
      /\ \A i \in 1..Len(queue') : i + 1 \in 1..Len(queue) /\ queue'[i] = queue[i + 1]
  BY ConsumeFacts
<1>8. OriginInv'
  <2>1. \A i \in 1..Len(queue') :
          queue'[i].lane # "end" => \E v \in sent : queue'[i] = Signal(v)
    BY <1>7 DEF StreamInv, OriginInv
  <2>2. \A s \in slots' : \A l \in s.lanes :
          \E v \in sent : From(v, l, s.mid) /\ v.end - v.start = s.width
    BY <1>1, <1>3 DEF StreamInv, OriginInv
  <2>3. QED
    BY <1>7, <2>1, <2>2 DEF StreamInv, OriginInv, Signal
<1>9. PlaceInv'
  <2>1. \A l, m : Spent(l, m)' => Spent(l, m) \/ (l = sig.lane /\ m = sig.mid)
    BY <1>1 DEF Spent
  <2>2. \A s \in slots', i \in 1..Len(log) : s.mid = log[i].mid => s.lanes \cap log[i].lanes = {}
    BY <1>1 DEF StreamInv, PlaceInv, Spent
  <2>3. \A i \in 1..Len(queue') : queue'[i].lane = "end" => endPc = "done" /\ ~HasEnd
    BY <1>7 DEF StreamInv, PlaceInv
  <2>4. HasEnd => endPc = "done"
    BY DEF StreamInv, PlaceInv
  <2>5. QED
    BY <1>5, <1>7, <2>1, <2>2, <2>3, <2>4, ConsumePlaces DEF PlaceInv
<1>10. ASSUME NEW v \in sent, Waiting(v)
       PROVE  Waiting(v)'
  <2>1. CASE \E i \in 1..Len(queue) :
               queue[i] = Signal(v) /\ \A j \in 1..i : queue[j].lane # "end"
    <3>1. CASE queue[1] = Signal(v)
      <4>1. v.lane = sig.lane /\ v.start + v.end = sig.mid /\ v.end - v.start = sig.width
        BY <3>1 DEF Signal
      <4>2. QED
        BY <1>1, <4>1 DEF Waiting, From
    <3>2. QED
      BY <2>1, <3>1, ShiftWaiting
  <2>2. CASE ~\E i \in 1..Len(queue) :
               queue[i] = Signal(v) /\ \A j \in 1..i : queue[j].lane # "end"
    BY <1>10, <2>2 DEF Waiting, Recorded
  <2>3. QED
    BY <2>1, <2>2
<1>11. TimelyInv'
  BY <1>5, <1>7, <1>10 DEF StreamInv, TimelyInv
<1>12. TimelyRecorded'
  BY <1>7 DEF StreamInv, TimelyRecorded, Recorded, Ends
<1>13. QED
  BY <1>4, <1>6, <1>7, <1>8, <1>9, <1>11, <1>12 DEF StreamInv

\* The second signal of a window closes its slot and makes the record.
LEMMA MergeStep ==
  ASSUME WinInv, StreamInv, Consume, NEW s \in slots,
         queue[1].lane \in Both, s.mid = queue[1].mid,
         queue[1].lane \notin s.lanes, \E l \in s.lanes : Both = {l, queue[1].lane},
         slots' = slots \ {s},
         log' = Append(log, WindowRecord(queue[1].mid, s.width, Both))
  PROVE  /\ StreamInv'
         /\ \A i \in 1..Len(log) : ~(log[i].kind = "window" /\ log[i].mid = s.mid)
         /\ \E w \in sent : s.width = w.end - w.start /\ s.mid = w.start + w.end
<1> DEFINE sig == queue[1]
           new == WindowRecord(sig.mid, s.width, Both)
           n == Len(log) + 1
<1>1. /\ sig \in Signals /\ sig.lane # "end" /\ ~Spent(sig.lane, sig.mid)
      /\ new.mid = sig.mid /\ new.width = s.width /\ new.lanes = Both
      /\ new.kind = "window" /\ new \in Record
  BY ConsumeFacts DEF WindowRecord, Record, Signals, Both, Lanes3, StreamInv, RecordsOK
<1>2. PICK w \in sent : sig = Signal(w)
  BY <1>1, ConsumeFacts
<1>3. PICK l \in s.lanes : Both = {l, sig.lane}
  OBVIOUS
<1>4. PICK u \in sent : From(u, l, s.mid) /\ u.end - u.start = s.width
  BY <1>3 DEF StreamInv, OriginInv
<1>5. \A v \in sent : v.lane \in Both /\ v.start + v.end = s.mid => v.end - v.start = s.width
  <2>1. u.lane \in Both
    BY <1>3, <1>4 DEF From
  <2>2. ASSUME NEW v \in sent, v.lane \in Both, v.start + v.end = s.mid
        PROVE  v.end - v.start = s.width
    <3>1. v \in Known /\ u \in Known /\ v.start + v.end = u.start + u.end
      BY <1>4, <2>2, SentFacts DEF From
    <3>2. SameSpan(u, v)
      BY <2>1, <2>2, <3>1, SameMiddle
    <3>3. QED
      BY <1>4, <3>2 DEF SameSpan
  <2>3. QED
    BY <2>2
<1>6. /\ log' \in Seq(Record) /\ Len(log') = n /\ log'[n] = new
      /\ \A i \in 1..Len(log) : i \in 1..Len(log') /\ log'[i] = log[i]
      /\ \A i \in 1..Len(log') : i \in 1..Len(log) \/ i = n
      /\ n \in 1..Len(log') /\ Len(log) \in Nat
  BY <1>1, LogGrows DEF StreamInv, RecordsOK
<1> HIDE DEF n, new
<1>7. HasEnd' <=> HasEnd
  BY <1>1, <1>6 DEF HasEnd
<1>8. RecordsOK'
  <2>1. IsFiniteSet(slots')
    BY FS_RemoveElement DEF StreamInv, RecordsOK
  <2>2. QED
    BY <1>1, <1>6, <1>7, <2>1 DEF StreamInv, RecordsOK, Both
<1>9. SlotsOK(slots')
  BY DEF StreamInv, SlotsOK
<1>10. /\ queue' \in Seq(Signals) /\ sent' = sent /\ endPc' = endPc /\ Timely' = Timely
       /\ Len(queue') \in Nat /\ Len(queue) = Len(queue') + 1
       /\ \A i \in 1..Len(queue') : i + 1 \in 1..Len(queue) /\ queue'[i] = queue[i + 1]
  BY ConsumeFacts
<1>11. OriginInv'
  <2>1. \A i \in 1..Len(queue') :
          queue'[i].lane # "end" => \E v \in sent : queue'[i] = Signal(v)
    BY <1>10 DEF StreamInv, OriginInv
  <2>2. \A i \in 1..Len(log') : \A k \in log'[i].lanes :
          \E v \in sent : From(v, k, log'[i].mid)
    <3>1. From(w, sig.lane, sig.mid)
      BY <1>2 DEF Signal, From
    <3>2. QED
      BY <1>1, <1>3, <1>4, <1>6, <3>1 DEF StreamInv, OriginInv
  <2>3. QED
    BY <1>10, <2>1, <2>2 DEF StreamInv, OriginInv, Signal
<1>12. PlaceInv'
  <2>1. \A k, m : Spent(k, m)' => Spent(k, m) \/ (k = sig.lane /\ m = sig.mid)
    <3>1. Spent(l, s.mid)
      BY <1>3 DEF Spent
    <3>2. ASSUME NEW k, NEW m, NEW i \in 1..Len(log'), log'[i].mid = m, k \in log'[i].lanes
          PROVE  Spent(k, m) \/ (k = sig.lane /\ m = sig.mid)
      <4>1. CASE i \in 1..Len(log)
        BY <1>6, <3>2, <4>1 DEF Spent
      <4>2. CASE i = n
        BY <1>1, <1>3, <1>6, <3>1, <3>2, <4>2
      <4>3. QED
        BY <1>6, <4>1, <4>2
    <3>3. QED
      BY <3>2 DEF Spent
  <2>2. \A r \in slots', i \in 1..Len(log') :
          r.mid = log'[i].mid => r.lanes \cap log'[i].lanes = {}
    BY <1>1, <1>6 DEF StreamInv, PlaceInv, SlotsOK
  <2>3. \A i \in 1..Len(queue') : queue'[i].lane = "end" => endPc = "done" /\ ~HasEnd
    BY <1>10 DEF StreamInv, PlaceInv
  <2>4. HasEnd => endPc = "done"
    BY DEF StreamInv, PlaceInv
  <2>5. QED
    BY <1>7, <1>10, <2>1, <2>2, <2>3, <2>4, ConsumePlaces DEF PlaceInv
<1>13. \A v, i : i \in 1..Len(log) /\ Recorded(v, i) => Recorded(v, i)'
  BY <1>6 DEF Recorded
<1>14. ASSUME NEW v \in sent, v.lane \in Both, Waiting(v)
       PROVE  Waiting(v)'
  <2>1. v.start + v.end = s.mid => Waiting(v)'
    BY <1>1, <1>5, <1>6, <1>14 DEF Waiting, Recorded
  <2>2. CASE \E i \in 1..Len(queue) :
               queue[i] = Signal(v) /\ \A j \in 1..i : queue[j].lane # "end"
    <3>1. queue[1] = Signal(v) => v.start + v.end = s.mid
      BY DEF Signal
    <3>2. QED
      BY <2>1, <2>2, <3>1, ShiftWaiting
  <2>3. CASE \E r \in slots :
               From(v, v.lane, r.mid) /\ v.end - v.start = r.width /\ v.lane \in r.lanes
    BY <2>1, <2>3 DEF Waiting, From
  <2>4. CASE \E i \in 1..Len(log) : Recorded(v, i)
    BY <1>6, <1>13, <2>4 DEF Waiting
  <2>5. QED
    BY <1>14, <2>2, <2>3, <2>4 DEF Waiting
<1>15. TimelyInv'
  BY <1>7, <1>10, <1>14 DEF StreamInv, TimelyInv
<1>16. Ends' = Ends
  BY <1>1, <1>6 DEF Ends
<1>17. TimelyRecorded'
  <2>1. \A e \in Ends : e \in 1..Len(log) /\ 1..(e - 1) \subseteq 1..Len(log)
    BY <1>6 DEF Ends
  <2>2. ASSUME NEW e \in Ends, NEW v \in Timely \cap sent
        PROVE  \E i \in 1..(e - 1) :
                 /\ Recorded(v, i)'
                 /\ \A r \in Timely \cap sent :
                      r.lane # v.lane /\ SameSpan(r, v) => Recorded(r, i)'
    BY <1>13, <2>1 DEF StreamInv, TimelyRecorded
  <2>3. QED
    BY <1>10, <1>16, <2>2 DEF TimelyRecorded
<1>18. ASSUME NEW i \in 1..Len(log), log[i].kind = "window", log[i].mid = s.mid
       PROVE  FALSE
  <2>1. PICK k \in log[i].lanes : k \in Both
    BY <1>18 DEF StreamInv, RecordsOK
  <2>2. k = l \/ k = sig.lane
    BY <1>3, <2>1
  <2>3. k \notin s.lanes
    BY <1>18 DEF StreamInv, PlaceInv
  <2>4. k # sig.lane
    BY <1>1, <1>18 DEF Spent
  <2>5. QED
    BY <1>3, <2>2, <2>3, <2>4
<1>19. QED
  BY <1>4, <1>8, <1>9, <1>10, <1>11, <1>12, <1>15, <1>17, <1>18 DEF StreamInv, From

\* A full evaluation makes a record of its own.
LEMMA EvaluationStep ==
  ASSUME WinInv, StreamInv, Consume, OnEvaluation(queue[1])
  PROVE  /\ StreamInv'
         /\ \A i \in 1..Len(log) : ~(log[i].kind = "eval" /\ log[i].mid = queue[1].mid)
         /\ \E w \in sent : queue[1] = Signal(w)
<1> DEFINE sig == queue[1]
           new == EvalRecord(sig.mid, sig.width)
           n == Len(log) + 1
<1>1. /\ sig \in Signals /\ sig.lane = "eval" /\ sig.lane # "end" /\ ~Spent(sig.lane, sig.mid)
      /\ slots' = slots /\ log' = Append(log, new)
  BY ConsumeFacts DEF OnEvaluation
<1>2. /\ new.mid = sig.mid /\ new.lanes = {"eval"} /\ new.kind = "eval" /\ new \in Record
  BY <1>1 DEF EvalRecord, Record, Signals, Lanes3
<1>3. PICK w \in sent : sig = Signal(w)
  BY <1>1, ConsumeFacts
<1>4. /\ log' \in Seq(Record) /\ Len(log') = n /\ log'[n] = new
      /\ \A i \in 1..Len(log) : i \in 1..Len(log') /\ log'[i] = log[i]
      /\ \A i \in 1..Len(log') : i \in 1..Len(log) \/ i = n
      /\ n \in 1..Len(log') /\ Len(log) \in Nat
  BY <1>1, <1>2, LogGrows DEF StreamInv, RecordsOK
<1> HIDE DEF n, new
<1>5. HasEnd' <=> HasEnd
  BY <1>2, <1>4 DEF HasEnd
<1>6. RecordsOK' /\ SlotsOK(slots')
  BY <1>1, <1>2, <1>4, <1>5 DEF StreamInv, RecordsOK
<1>7. /\ queue' \in Seq(Signals) /\ sent' = sent /\ endPc' = endPc /\ Timely' = Timely
      /\ Len(queue') \in Nat /\ Len(queue) = Len(queue') + 1
      /\ \A i \in 1..Len(queue') : i + 1 \in 1..Len(queue) /\ queue'[i] = queue[i + 1]
  BY ConsumeFacts
<1>8. OriginInv'
  <2>1. \A i \in 1..Len(queue') :
          queue'[i].lane # "end" => \E v \in sent : queue'[i] = Signal(v)
    BY <1>7 DEF StreamInv, OriginInv
  <2>2. \A i \in 1..Len(log') : \A k \in log'[i].lanes :
          \E v \in sent : From(v, k, log'[i].mid)
    <3>1. From(w, sig.lane, sig.mid)
      BY <1>3 DEF Signal, From
    <3>2. QED
      BY <1>1, <1>2, <1>4, <3>1 DEF StreamInv, OriginInv
  <2>3. QED
    BY <1>1, <1>7, <2>1, <2>2 DEF StreamInv, OriginInv, Signal
<1>9. PlaceInv'
  <2>1. \A k, m : Spent(k, m)' => Spent(k, m) \/ (k = sig.lane /\ m = sig.mid)
    BY <1>1, <1>2, <1>4 DEF Spent
  <2>2. \A r \in slots', i \in 1..Len(log') :
          r.mid = log'[i].mid => r.lanes \cap log'[i].lanes = {}
    BY <1>1, <1>2, <1>4 DEF StreamInv, PlaceInv, SlotsOK
  <2>3. \A i \in 1..Len(queue') : queue'[i].lane = "end" => endPc = "done" /\ ~HasEnd
    BY <1>7 DEF StreamInv, PlaceInv
  <2>4. HasEnd => endPc = "done"
    BY DEF StreamInv, PlaceInv
  <2>5. QED
    BY <1>5, <1>7, <2>1, <2>2, <2>3, <2>4, ConsumePlaces DEF PlaceInv
<1>10. \A v, i : i \in 1..Len(log) /\ Recorded(v, i) => Recorded(v, i)'
  BY <1>4 DEF Recorded
<1>11. ASSUME NEW v \in sent, v.lane \in Both, Waiting(v)
       PROVE  Waiting(v)'
  <2>1. CASE \E i \in 1..Len(queue) :
               queue[i] = Signal(v) /\ \A j \in 1..i : queue[j].lane # "end"
    <3>1. queue[1] # Signal(v)
      BY <1>1, <1>11 DEF Signal, Both
    <3>2. QED
      BY <2>1, <3>1, ShiftWaiting
  <2>2. CASE \E r \in slots :
               From(v, v.lane, r.mid) /\ v.end - v.start = r.width /\ v.lane \in r.lanes
    BY <1>1, <2>2 DEF Waiting
  <2>3. CASE \E i \in 1..Len(log) : Recorded(v, i)
    BY <1>4, <1>10, <2>3 DEF Waiting
  <2>4. QED
    BY <1>11, <2>1, <2>2, <2>3 DEF Waiting
<1>12. TimelyInv'
  BY <1>5, <1>7, <1>11 DEF StreamInv, TimelyInv
<1>13. Ends' = Ends
  BY <1>2, <1>4 DEF Ends
<1>14. TimelyRecorded'
  <2>1. \A e \in Ends : e \in 1..Len(log) /\ 1..(e - 1) \subseteq 1..Len(log)
    BY <1>4 DEF Ends
  <2>2. ASSUME NEW e \in Ends, NEW v \in Timely \cap sent
        PROVE  \E i \in 1..(e - 1) :
                 /\ Recorded(v, i)'
                 /\ \A r \in Timely \cap sent :
                      r.lane # v.lane /\ SameSpan(r, v) => Recorded(r, i)'
    BY <1>10, <2>1 DEF StreamInv, TimelyRecorded
  <2>3. QED
    BY <1>7, <1>13, <2>2 DEF TimelyRecorded
<1>15. \A i \in 1..Len(log) : ~(log[i].kind = "eval" /\ log[i].mid = sig.mid)
  BY <1>1 DEF StreamInv, RecordsOK, Spent
<1>16. StreamInv'
  BY <1>6, <1>7, <1>8, <1>9, <1>12, <1>14 DEF StreamInv
<1>17. QED
  BY <1>3, <1>15, <1>16

\* What is swept is every slot once.
LEMMA LeftoversFacts ==
  ASSUME slots \subseteq Record, IsFiniteSet(slots), NEW rest \in Leftovers
  PROVE  /\ rest \in Seq(Record) /\ Len(rest) \in Nat
         /\ \A i \in 1..Len(rest) : rest[i] \in slots
         /\ \A s \in slots : \E i \in 1..Len(rest) : rest[i] = s
         /\ \A i, j \in 1..Len(rest) :
              i < j => rest[i].mid <= rest[j].mid /\ rest[i] # rest[j]
<1> DEFINE n == Cardinality(slots)
<1>1. n \in Nat
  BY FS_CardinalityType
<1>2. rest \in [1..n -> slots] /\ \A i, j \in 1..n : i # j => rest[i] # rest[j]
  BY DEF Leftovers, SetToSeqs
<1>3. rest \in Seq(slots) /\ Len(rest) = n
  BY <1>1, <1>2
<1>4. \A s \in slots : \E i \in 1..n : rest[i] = s
  <2>1. rest \in Injection(1..n, slots)
    BY <1>2 DEF Injection, IsInjective
  <2>2. IsFiniteSet(1..n) /\ Cardinality(1..n) = n
    BY <1>1, FS_Interval
  <2>3. rest \in Surjection(1..n, slots)
    BY <2>1, <2>2, FS_Injection
  <2>4. QED
    BY <2>3 DEF Surjection
<1>5. rest \in Seq(Record)
  BY <1>3
<1>6. QED
  BY <1>1, <1>2, <1>3, <1>4, <1>5 DEF Leftovers

\* The sweep and the turn_end behind the log.
LEMMA LogSwept ==
  ASSUME log \in Seq(Record), NEW rest \in Seq(Record), NEW r \in Record,
         log' = log \o rest \o <<r>>
  PROVE  /\ log' \in Seq(Record) /\ Len(log') = Len(log) + Len(rest) + 1
         /\ Len(log) \in Nat /\ Len(rest) \in Nat
         /\ \A i \in 1..Len(log) : i \in 1..Len(log') /\ log'[i] = log[i]
         /\ \A i \in 1..Len(rest) :
              Len(log) + i \in 1..Len(log') /\ log'[Len(log) + i] = rest[i]
         /\ log'[Len(log')] = r /\ Len(log') \in 1..Len(log')
         /\ \A i \in 1..Len(log') :
              \/ i \in 1..Len(log)
              \/ \E k \in 1..Len(rest) : i = Len(log) + k
              \/ i = Len(log')
<1>1. Len(log) \in Nat /\ Len(rest) \in Nat
  OBVIOUS
<1> DEFINE l == log \o rest
<1>2. /\ l \in Seq(Record) /\ Len(l) = Len(log) + Len(rest)
      /\ \A i \in 1..Len(log) : l[i] = log[i]
      /\ \A i \in 1..Len(rest) : l[Len(log) + i] = rest[i]
  OBVIOUS
<1> HIDE DEF l
<1>3. log' = l \o <<r>>
  BY DEF l
<1>4. /\ log' \in Seq(Record) /\ Len(log') = Len(l) + 1 /\ log'[Len(l) + 1] = r
      /\ \A i \in 1..Len(l) : log'[i] = l[i]
  <2>1. log' = Append(l, r)
    BY <1>2, <1>3, AppendIsConcat
  <2>2. QED
    BY <1>2, <2>1, AppendProperties
<1>5. \A i \in 1..Len(log') : i > Len(log) /\ i # Len(log') =>
        i - Len(log) \in 1..Len(rest) /\ i = Len(log) + (i - Len(log))
  BY <1>1, <1>2, <1>4
<1>6. /\ \A i \in 1..Len(log) : i \in 1..Len(log') /\ log'[i] = log[i]
      /\ \A i \in 1..Len(rest) :
           Len(log) + i \in 1..Len(log') /\ log'[Len(log) + i] = rest[i]
  BY <1>1, <1>2, <1>4
<1>7. \A i \in 1..Len(log') :
        \/ i \in 1..Len(log)
        \/ \E k \in 1..Len(rest) : i = Len(log) + k
        \/ i = Len(log')
  BY <1>1, <1>4, <1>5
<1>8. log'[Len(log')] = r /\ Len(log') \in 1..Len(log')
  BY <1>1, <1>2, <1>4
<1>9. QED
  BY <1>1, <1>2, <1>4, <1>6, <1>7, <1>8

\* The TurnEnd sweeps the slots into the log.
LEMMA EndRecordStep ==
  ASSUME WinInv, StreamInv, Consume, OnTurnEnd(queue[1])
  PROVE  StreamInv' /\ ~HasEnd
<1> DEFINE sig == queue[1]
           end == TurnEndRecord(sig.mid)
           n == Len(log)
<1>1. /\ sig \in Signals /\ sig.lane = "end" /\ slots' = {} /\ 1 \in 1..Len(queue)
  BY ConsumeFacts DEF OnTurnEnd, Swept
<1>2. PICK rest \in Leftovers : log' = log \o rest \o <<end>>
  BY DEF OnTurnEnd
<1>3. end \in Record /\ end.kind = "turn_end" /\ end.lanes = {}
  BY <1>1 DEF TurnEndRecord, Record, Signals
<1> HIDE DEF end
<1>4. /\ rest \in Seq(Record) /\ Len(rest) \in Nat
      /\ \A i \in 1..Len(rest) : rest[i] \in slots
      /\ \A s \in slots : \E i \in 1..Len(rest) : rest[i] = s
  BY LeftoversFacts DEF StreamInv, RecordsOK
<1> DEFINE last == Len(log')
<1>5. /\ log' \in Seq(Record) /\ last = n + Len(rest) + 1 /\ n \in Nat
      /\ \A i \in 1..n : i \in 1..last /\ log'[i] = log[i]
      /\ \A i \in 1..Len(rest) : n + i \in 1..last /\ log'[n + i] = rest[i]
      /\ log'[last] = end /\ last \in 1..last
      /\ \A i \in 1..last : \/ i \in 1..n
                            \/ \E k \in 1..Len(rest) : i = n + k
                            \/ i = last
  BY <1>2, <1>3, <1>4, LogSwept DEF StreamInv, RecordsOK
<1> HIDE DEF last
<1>6. endPc = "done" /\ ~HasEnd /\ \A i \in 1..n : log[i].kind # "turn_end"
  BY <1>1 DEF StreamInv, PlaceInv, HasEnd
<1>7. HasEnd'
  BY <1>3, <1>5 DEF HasEnd, last
<1>8. /\ queue' \in Seq(Signals) /\ sent' = sent /\ endPc' = endPc /\ Timely' = Timely
      /\ Len(queue') \in Nat /\ Len(queue) = Len(queue') + 1
      /\ \A i \in 1..Len(queue') : i + 1 \in 1..Len(queue) /\ queue'[i] = queue[i + 1]
  BY ConsumeFacts
<1>9. \A s \in slots : s.kind = "window" /\ s.lanes \in {{"nv"}, {"stt"}} /\ s.lanes \subseteq Both
  BY DEF StreamInv, SlotsOK, Both
<1>10. RecordsOK'
  <2>1. IsFiniteSet(slots')
    BY <1>1, FS_EmptySet
  <2>2. \A i \in 1..last :
          /\ log'[i].kind = "window" => log'[i].lanes \subseteq Both /\ log'[i].lanes # {}
          /\ log'[i].kind = "eval" => log'[i].lanes = {"eval"}
          /\ log'[i].kind = "turn_end" => log'[i].lanes = {}
    <3>1. ASSUME NEW i \in 1..n
          PROVE  /\ log'[i].kind = "window" => log'[i].lanes \subseteq Both /\ log'[i].lanes # {}
                 /\ log'[i].kind = "eval" => log'[i].lanes = {"eval"}
                 /\ log'[i].kind = "turn_end" => log'[i].lanes = {}
      BY <1>5 DEF StreamInv, RecordsOK
    <3>2. ASSUME NEW k \in 1..Len(rest)
          PROVE  log'[n + k].kind = "window" /\ log'[n + k].lanes \subseteq Both
                 /\ log'[n + k].lanes # {}
      BY <1>4, <1>5, <1>9
    <3>3. QED
      BY <1>3, <1>5, <3>1, <3>2
  <2>3. QED
    BY <1>1, <1>5, <1>7, <2>1, <2>2 DEF RecordsOK, last
<1>11. OriginInv'
  <2>1. \A i \in 1..Len(queue') :
          queue'[i].lane # "end" => \E v \in sent : queue'[i] = Signal(v)
    BY <1>8 DEF StreamInv, OriginInv
  <2>2. ASSUME NEW i \in 1..last, NEW l \in log'[i].lanes
        PROVE  \E w \in sent : From(w, l, log'[i].mid)
    <3>1. CASE i \in 1..n
      BY <1>5, <2>2, <3>1 DEF StreamInv, OriginInv
    <3>2. ASSUME NEW k \in 1..Len(rest), i = n + k
          PROVE  \E w \in sent : From(w, l, log'[i].mid)
      <4>1. log'[i] = rest[k] /\ rest[k] \in slots
        BY <1>4, <1>5, <3>2
      <4>2. QED
        BY <2>2, <4>1 DEF StreamInv, OriginInv
    <3>3. i # last
      BY <1>3, <1>5, <2>2
    <3>4. QED
      BY <1>5, <3>1, <3>2, <3>3
  <2>3. QED
    BY <1>1, <1>8, <2>1, <2>2 DEF OriginInv, Signal, last
<1>12. PlaceInv'
  <2>1. \A l, m : Spent(l, m)' => Spent(l, m) \/ (l = sig.lane /\ m = sig.mid)
    <3>1. ASSUME NEW l, NEW i \in 1..last, l \in log'[i].lanes
          PROVE  Spent(l, log'[i].mid)
      <4>1. CASE i \in 1..n
        BY <1>5, <3>1, <4>1 DEF Spent
      <4>2. ASSUME NEW k \in 1..Len(rest), i = n + k
            PROVE  Spent(l, log'[i].mid)
        <5>1. log'[i] = rest[k] /\ rest[k] \in slots
          BY <1>4, <1>5, <4>2
        <5>2. QED
          BY <3>1, <5>1 DEF Spent
      <4>3. i # last
        BY <1>3, <1>5, <3>1
      <4>4. QED
        BY <1>5, <4>1, <4>2, <4>3
    <3>2. QED
      BY <1>1, <3>1 DEF Spent, last
  <2>2. \A i \in 1..Len(queue') : queue'[i].lane # "end"
    <3>1. ASSUME NEW i \in 1..Len(queue'), queue'[i].lane = "end"
          PROVE  FALSE
      <4>1. i + 1 \in 1..Len(queue) /\ queue[i + 1].lane = "end"
        BY <1>8, <3>1
      <4>2. i + 1 = 1
        BY <1>1, <4>1 DEF StreamInv, PlaceInv
      <4>3. QED
        BY <1>8, <4>2
    <3>2. QED
      BY <3>1
  <2>3. QED
    BY <1>1, <1>6, <1>8, <2>1, <2>2, ConsumePlaces DEF PlaceInv
<1>13. TimelyInv'
  BY <1>7 DEF TimelyInv
<1>14. Ends' = {last}
  <2>1. \A k \in 1..Len(rest) : log'[n + k].kind = "window"
    BY <1>4, <1>5, <1>9
  <2>2. \A i \in 1..last : log'[i].kind = "turn_end" <=> i = last
    BY <1>3, <1>5, <1>6, <2>1
  <2>3. Ends' = {i \in 1..last : log'[i].kind = "turn_end"}
    BY DEF Ends, last
  <2>4. QED
    BY <1>5, <2>2, <2>3
<1>15. ASSUME NEW v \in Timely \cap sent
       PROVE  /\ v.lane \in Both
              /\ \/ \E s \in slots :
                      From(v, v.lane, s.mid) /\ v.end - v.start = s.width /\ v.lane \in s.lanes
                 \/ \E i \in 1..n : Recorded(v, i)
  <2>1. v.lane \in Both
    BY DEF Timely, Both
  <2>2. Waiting(v)
    BY <1>6, <2>1 DEF StreamInv, TimelyInv
  <2>3. ~\E i \in 1..Len(queue) : queue[i] = Signal(v) /\ \A j \in 1..i : queue[j].lane # "end"
    BY <1>1, <1>8
  <2>4. QED
    BY <2>1, <2>2, <2>3 DEF Waiting
<1>16. \A i \in 1..n : log[i].kind = "window" => log[i].lanes = Both
  BY <1>6 DEF StreamInv, RecordsOK
<1>17. ASSUME NEW w \in Timely \cap sent
       PROVE  \E i \in 1..(last - 1) :
                /\ Recorded(w, i)'
                /\ \A v \in Timely \cap sent :
                     v.lane # w.lane /\ SameSpan(v, w) => Recorded(v, i)'
  <2>1. CASE \E i \in 1..n : Recorded(w, i)
    <3>1. PICK i \in 1..n : Recorded(w, i)
      BY <2>1
    <3>2. log'[i] = log[i] /\ i \in 1..(last - 1) /\ log[i].lanes = Both
      BY <1>4, <1>5, <1>16, <3>1 DEF Recorded
    <3>3. \A v \in Timely \cap sent : SameSpan(v, w) => Recorded(v, i)'
      BY <1>15, <3>1, <3>2 DEF Recorded, SameSpan
    <3>4. QED
      BY <3>1, <3>2, <3>3 DEF Recorded
  <2>2. CASE \E s \in slots :
               From(w, w.lane, s.mid) /\ w.end - w.start = s.width /\ w.lane \in s.lanes
    <3>1. PICK s \in slots :
               From(w, w.lane, s.mid) /\ w.end - w.start = s.width /\ w.lane \in s.lanes
      BY <2>2
    <3>2. PICK k \in 1..Len(rest) : rest[k] = s
      BY <1>4
    <3>3. n + k \in 1..(last - 1) /\ log'[n + k] = s
      BY <1>4, <1>5, <3>2
    <3>4. /\ log'[n + k].kind = "window" /\ log'[n + k].mid = w.start + w.end
          /\ log'[n + k].width = w.end - w.start /\ w.lane \in log'[n + k].lanes
      BY <1>9, <3>1, <3>3 DEF From
    <3>5. ASSUME NEW v \in Timely \cap sent, v.lane # w.lane, SameSpan(v, w)
          PROVE  FALSE
      <4>1. v.start + v.end = s.mid /\ v.lane \notin s.lanes
        BY <1>9, <3>1, <3>5 DEF SameSpan, From
      <4>2. ~\E r \in slots : From(v, v.lane, r.mid) /\ v.lane \in r.lanes
        BY <4>1 DEF StreamInv, SlotsOK, From
      <4>3. PICK i \in 1..n : Recorded(v, i)
        BY <1>15, <4>2
      <4>4. log[i].mid = s.mid /\ w.lane \in log[i].lanes
        BY <1>15, <1>16, <4>1, <4>3 DEF Recorded
      <4>5. QED
        BY <3>1, <4>4 DEF StreamInv, PlaceInv
    <3>6. PICK i \in 1..(last - 1) : i = n + k
      BY <3>3
    <3>7. Recorded(w, i)'
      BY <3>4, <3>6 DEF Recorded
    <3>8. QED
      BY <3>5, <3>7
  <2>3. QED
    BY <1>15, <2>1, <2>2
<1>18. TimelyRecorded'
  BY <1>8, <1>14, <1>17 DEF TimelyRecorded
<1>19. SlotsOK(slots')
  BY <1>1 DEF SlotsOK
<1>20. QED
  BY <1>6, <1>8, <1>10, <1>11, <1>12, <1>13, <1>18, <1>19 DEF StreamInv

\* What a signal says of its window lies in the turn.
LEMMA SentRange ==
  ASSUME WinInv, NEW w \in sent
  PROVE  w.start + w.end \in 0..(2 * MaxT) /\ w.end - w.start \in Time
<1>1. /\ w \in Known /\ w.start \in Nat /\ w.end \in Nat
      /\ w.start <= MaxT /\ w.end <= MaxT /\ w.lane \in Lanes3 /\ MaxT \in Nat
  BY SentFacts, WindowAssumption
<1>2. w.start <= w.end
  <2>1. CASE w.lane \in Both
    BY <1>1, <2>1 DEF WinInv, LongInv
  <2>2. CASE w.lane = "eval"
    <3>1. w.start = w.end - EvalW
      BY <1>1, <2>2 DEF WinInv, EvalInv
    <3>2. QED
      BY <1>1, <3>1, WindowAssumption
  <2>3. QED
    BY <1>1, <2>1, <2>2 DEF Lanes3
<1>3. QED
  BY <1>1, <1>2 DEF Time

\* A sequence that agrees with a longer one is its beginning.
LEMMA Prefix ==
  ASSUME NEW S, NEW a \in Seq(S), NEW b \in Seq(S), Len(a) <= Len(b),
         \A i \in 1..Len(a) : b[i] = a[i]
  PROVE  SubSeq(b, 1, Len(a)) = a
OBVIOUS

\* The record of the turn_end, and the partial ones in front of it, are what
\* the abstract log allows.
LEMMA EndWrites ==
  ASSUME WinInv, StreamInv, Consume, OnTurnEnd(queue[1]), ~HasEnd
  PROVE  TurnLog!LogNext
<1> DEFINE sig == queue[1]
           end == TurnEndRecord(sig.mid)
           n == Len(log)
<1>1. PICK rest \in Leftovers : log' = log \o rest \o <<end>>
  BY DEF OnTurnEnd
<1>2. end \in Record /\ end.kind = "turn_end"
  BY ConsumeFacts DEF TurnEndRecord, Record, Signals
<1> HIDE DEF end
<1>3. /\ rest \in Seq(Record) /\ Len(rest) \in Nat
      /\ \A i \in 1..Len(rest) : rest[i] \in slots
      /\ \A i, j \in 1..Len(rest) : i < j => rest[i].mid <= rest[j].mid /\ rest[i] # rest[j]
  BY LeftoversFacts DEF StreamInv, RecordsOK
<1>4. /\ log' \in Seq(Record) /\ Len(log') = n + Len(rest) + 1 /\ n \in Nat
      /\ \A i \in 1..n : log'[i] = log[i]
      /\ \A i \in 1..Len(rest) : log'[n + i] = rest[i]
      /\ log'[Len(log')] = end
  BY <1>1, <1>2, <1>3, LogSwept DEF StreamInv, RecordsOK
<1>5. ASSUME NEW s \in slots
      PROVE  /\ s.kind = "window" /\ s.mid \in 0..(2 * MaxT) /\ s.width \in Time
             /\ s.lanes \in {{"nv"}, {"stt"}}
             /\ ~TurnLog!Written("window", s.mid)
  <2>1. s.kind = "window" /\ s.lanes \in {{"nv"}, {"stt"}}
    BY DEF StreamInv, SlotsOK
  <2>2. PICK l \in s.lanes : l \in Both
    BY <2>1 DEF Both
  <2>3. PICK w \in sent : From(w, l, s.mid) /\ w.end - w.start = s.width
    BY DEF StreamInv, OriginInv
  <2>4. s.mid \in 0..(2 * MaxT) /\ s.width \in Time
    BY <2>3, SentRange DEF From
  <2>5. ASSUME NEW i \in 1..n, log[i].kind = "window", log[i].mid = s.mid
        PROVE  FALSE
    <3>1. log[i].lanes = Both
      BY <2>5 DEF StreamInv, RecordsOK
    <3>2. QED
      BY <2>2, <2>5, <3>1 DEF StreamInv, PlaceInv
  <2>6. QED
    BY <2>1, <2>4, <2>5 DEF TurnLog!Written
<1>6. SubSeq(log', 1, n) = log
  BY <1>3, <1>4, Prefix DEF StreamInv, RecordsOK
<1>7. ASSUME NEW i \in (n + 1)..(n + Len(rest))
      PROVE  /\ log'[i].kind = "window" /\ log'[i].mid \in 0..(2 * MaxT)
             /\ log'[i].width \in Time /\ log'[i].lanes \in {{"nv"}, {"stt"}}
             /\ ~TurnLog!Written("window", log'[i].mid)
             /\ i > n + 1 => log'[i - 1].mid < log'[i].mid
  <2> DEFINE k == i - n
  <2>1. k \in 1..Len(rest) /\ i = n + k
    BY <1>3, <1>4
  <2>2. log'[i] = rest[k] /\ rest[k] \in slots
    BY <1>3, <1>4, <2>1
  <2>3. i > n + 1 => log'[i - 1].mid < log'[i].mid
    <3>1. SUFFICES ASSUME i > n + 1 PROVE log'[i - 1].mid < log'[i].mid
      OBVIOUS
    <3>2. k - 1 \in 1..Len(rest) /\ i - 1 = n + (k - 1) /\ k - 1 < k
      BY <1>3, <1>4, <2>1, <3>1
    <3>3. log'[i - 1] = rest[k - 1] /\ rest[k - 1] \in slots
      BY <1>3, <1>4, <3>2
    <3>4. rest[k - 1].mid <= rest[k].mid /\ rest[k - 1] # rest[k]
      BY <1>3, <2>1, <3>2
    <3>5. rest[k - 1].mid # rest[k].mid
      BY <2>2, <3>3, <3>4 DEF StreamInv, SlotsOK
    <3>6. rest[k - 1].mid \in Int /\ rest[k].mid \in Int
      BY <2>2, <3>3 DEF StreamInv, RecordsOK, Record
    <3>7. QED
      BY <2>2, <3>3, <3>4, <3>5, <3>6
  <2>4. QED
    BY <1>5, <2>2, <2>3
<1>8. ~TurnLog!Ended
  BY DEF TurnLog!Ended, HasEnd
<1>9. TurnLog!WriteTurnEnd(Len(rest))
  BY <1>2, <1>3, <1>4, <1>6, <1>7, <1>8 DEF TurnLog!WriteTurnEnd
<1>10. Len(rest) \in 0..Len(log')
  BY <1>3, <1>4
<1>11. QED
  BY <1>9, <1>10 DEF TurnLog!LogNext

\* Whatever signal the recorder takes, the stream stays in order and the log
\* grows as the abstract log does.
LEMMA RecordStep ==
  ASSUME WinInv, StreamInv, Consume
  PROVE  StreamInv' /\ [TurnLog!LogNext]_log
<1> DEFINE sig == queue[1]
<1>1. sig \in Signals /\ OnSignal(sig) /\ (sig.lane # "end" => ~Spent(sig.lane, sig.mid))
  BY ConsumeFacts
<1>2. CASE OnWindowSignal(sig)
  <2>1. sig.lane \in Both /\ sig.lane # "end"
    BY <1>2 DEF OnWindowSignal, Both
  <2>2. CASE \E s \in slots :
               /\ s.mid = sig.mid /\ s.lanes \cup {sig.lane} = Both /\ sig.lane \notin s.lanes
               /\ \E l \in s.lanes : Both = {l, sig.lane}
               /\ slots' = slots \ {s}
               /\ log' = Append(log, WindowRecord(sig.mid, s.width, Both))
    <3>1. PICK s \in slots :
               /\ s.mid = sig.mid /\ sig.lane \notin s.lanes
               /\ \E l \in s.lanes : Both = {l, sig.lane}
               /\ slots' = slots \ {s}
               /\ log' = Append(log, WindowRecord(sig.mid, s.width, Both))
      BY <2>2
    <3>2. /\ StreamInv'
          /\ \A i \in 1..Len(log) : ~(log[i].kind = "window" /\ log[i].mid = s.mid)
          /\ \E w \in sent : s.width = w.end - w.start /\ s.mid = w.start + w.end
      BY <2>1, <3>1, MergeStep
    <3>3. s.mid \in 0..(2 * MaxT) /\ s.width \in Time
      BY <3>2, SentRange
    <3>4. TurnLog!WriteMerged(s.mid, s.width)
      BY <3>1, <3>2 DEF TurnLog!WriteMerged, TurnLog!Written, WindowRecord, Both
    <3>5. QED
      BY <3>2, <3>3, <3>4 DEF TurnLog!LogNext
  <2>3. CASE /\ \A s \in slots : s.mid # sig.mid
             /\ slots' = slots \cup {WindowRecord(sig.mid, sig.width, {sig.lane})}
             /\ log' = log
    BY <2>1, <2>3, OpenStep
  <2>4. QED
    BY <1>1, <1>2, <2>1, <2>2, <2>3, WindowCases
<1>3. CASE OnEvaluation(sig)
  <2>1. /\ StreamInv'
        /\ \A i \in 1..Len(log) : ~(log[i].kind = "eval" /\ log[i].mid = sig.mid)
        /\ \E w \in sent : sig = Signal(w)
    BY <1>3, EvaluationStep
  <2>2. PICK w \in sent : sig = Signal(w)
    BY <2>1
  <2>3. sig.mid \in 0..(2 * MaxT) /\ sig.width \in Time
    BY <2>2, SentRange DEF Signal
  <2>4. TurnLog!WriteEval(sig.mid, sig.width)
    BY <1>3, <2>1 DEF OnEvaluation, TurnLog!WriteEval, TurnLog!Written, EvalRecord
  <2>5. QED
    BY <2>1, <2>3, <2>4 DEF TurnLog!LogNext
<1>4. CASE OnTurnEnd(sig)
  <2>1. StreamInv' /\ ~HasEnd
    BY <1>4, EndRecordStep
  <2>2. QED
    BY <1>4, <2>1, EndWrites
<1>5. QED
  BY <1>1, <1>2, <1>3, <1>4 DEF OnSignal

LEMMA StreamStep ==
  ASSUME WinInv, StreamInv, [PipelineNext]_pvars
  PROVE  StreamInv' /\ [TurnLog!LogNext]_log
<1>1. [Next]_vars
  BY PipelineStep DEF pvars
<1>2. CASE Drain \/ FlushOne
  BY <1>2, RecordStep DEF Drain, FlushOne
<1>3. ASSUME NEW w \in Submitted, Deliver(w)
      PROVE  StreamInv' /\ log' = log
  BY <1>1, <1>3, DeliverStep DEF Deliver, recorder
<1>4. CASE EndTurnDelivers
  BY <1>1, <1>4, EndStep DEF EndTurnDelivers, recorder
<1>5. ASSUME UNCHANGED <<recorder, queue>>, sent' = sent, ~EndBridge
      PROVE  StreamInv' /\ log' = log
  BY <1>1, <1>5, QuietStep DEF recorder
<1>6. CASE Listen \/ \E p \in Pollers : PollTask(p)
  BY <1>5, <1>6
     DEF Listen, PollTask, Tick, AddAudio, AddFrame, PollCut, PollSubmit, EndBridge, pipeline,
         ending, results
<1>7. ASSUME NEW w \in Submitted, Work(w)
      PROVE  StreamInv' /\ log' = log
  <2>1. sent' = sent /\ endPc' = endPc /\ UNCHANGED <<recorder, queue>>
    BY <1>7
       DEF Work, Worker, InferRaises, NvReturns, SttReturns, EvalReturns, TailReturns,
           EmitStored, EmitBridge, pipeline, ending
  <2>2. QED
    BY <1>5, <2>1 DEF EndBridge
<1>8. CASE SubStop \/ SubClose \/ SubAbort
  <2>1. endPc' # "done" \/ endPc' = endPc
    BY <1>8 DEF SubStop, SubClose, SubAbort, EndCut, Close, ending
  <2>2. sent' = sent /\ UNCHANGED <<recorder, queue>>
    BY <1>8 DEF SubStop, SubClose, SubAbort, EndCut, Close, results
  <2>3. QED
    BY <1>5, <2>1, <2>2 DEF EndBridge
<1>9. CASE EndTurnGoesOn
  <2>1. sent' = sent /\ UNCHANGED <<recorder, queue>> /\ ~EndBridge
    BY <1>9
       DEF EndTurnGoesOn, EndTurn, EndSubmit, EndSubmitRaises, EndWait, EndDeadline, EndJoin,
           EndEmit, EndBridge, pipeline
  <2>2. QED
    BY <1>5, <2>1
<1>10. CASE SubFlush \/ FlushIdle \/ UNCHANGED pvars
  BY <1>5, <1>10 DEF SubFlush, FlushIdle, EndBridge, pvars, pipeline, vars, ending, results
<1>11. QED
  BY <1>2, <1>3, <1>4, <1>6, <1>7, <1>8, <1>9, <1>10 DEF PipelineNext

LEMMA StreamInit ==
  ASSUME PipelineInit
  PROVE  StreamInv /\ TurnLog!LogInit
<1>1. queue = <<>> /\ slots = {} /\ log = <<>> /\ sent = {}
  BY DEF PipelineInit, RecorderInit, Init
<1>2. RecordsOK /\ SlotsOK(slots) /\ ~HasEnd
  BY <1>1, FS_EmptySet DEF RecordsOK, SlotsOK, HasEnd
<1>3. OriginInv /\ PlaceInv /\ TimelyInv
  BY <1>1, <1>2 DEF OriginInv, PlaceInv, TimelyInv
<1>4. TimelyRecorded /\ TurnLog!LogInit
  BY <1>1 DEF TimelyRecorded, Ends, TurnLog!LogInit
<1>5. QED
  BY <1>1, <1>2, <1>3, <1>4 DEF StreamInv

LEMMA StreamCorrect == PipelineSpec => [](WinInv /\ StreamInv)
<1>1. PipelineInit => StreamInv
  BY StreamInit
<1>2. WinInv /\ StreamInv /\ [PipelineNext]_pvars => StreamInv'
  BY StreamStep
<1>3. QED
  BY <1>1, <1>2, PipelineImplementsWindower, WinCorrect, PTL DEF PipelineSpec

\* Nothing timely is lost between the workers and the log: in front of the
\* turn_end record each window in time has its record, whatever order the
\* inferences finish in and wherever aclose is cancelled.
THEOREM TimelyRecordedCorrect == PipelineSpec => []TimelyRecorded
<1>1. StreamInv => TimelyRecorded
  BY DEF StreamInv
<1>2. QED
  BY <1>1, StreamCorrect, PTL

\* The records of the pipeline are the log of a turn: no window or evaluation
\* is recorded twice, and the turn_end comes at most once, behind what was
\* left, in the order of t.
THEOREM PipelineIsATurnLog == PipelineSpec => RecordsAreATurnLog
<1>1. PipelineInit => TurnLog!LogInit
  BY StreamInit
<1>2. WinInv /\ StreamInv /\ [PipelineNext]_pvars => [TurnLog!LogNext]_log
  BY StreamStep
<1>3. QED
  BY <1>1, <1>2, StreamCorrect, PTL DEF PipelineSpec, RecordsAreATurnLog, TurnLog!LogSpec
=============================================================================
