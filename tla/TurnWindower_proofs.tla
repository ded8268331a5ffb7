------------------------ MODULE TurnWindower_proofs ------------------------
(***************************************************************************)
(* Proofs about TurnWindower, for every width, time line, camera and       *)
(* number of polling threads.                                              *)
(***************************************************************************)
EXTENDS TurnWindower, WellFoundedInduction, TLAPS

(***************************************************************************)
(* Facts about the grids.                                                  *)
(***************************************************************************)

\* Grid points are naturals; 0 and the width are two of them.
LEMMA GridType ==
  ASSUME NEW width \in Nat \ {0}
  PROVE  Grid(width) \subseteq Nat /\ 0 \in Grid(width) /\ width \in Grid(width)
<1>1. 0 = width * 0 /\ width = width * 1
  OBVIOUS
<1>2. 0 \in 0..(MaxT + 1) /\ 1 \in 0..(MaxT + 1)
  BY WindowAssumption
<1>3. QED
  BY <1>1, <1>2, WindowAssumption DEF Grid

\* Below a grid point that is not 0 there is another, one width away.
LEMMA GridBefore ==
  ASSUME NEW width \in Nat \ {0}, NEW g \in Grid(width), g # 0
  PROVE  g - width \in Grid(width) /\ g - width >= 0
<1>1. PICK k \in 0..(MaxT + 1) : g = width * k
  BY DEF Grid
<1>2. k # 0
  BY <1>1
<1>3. k - 1 \in 0..(MaxT + 1) /\ g - width = width * (k - 1)
  BY <1>1, <1>2, WindowAssumption
<1>4. width * (k - 1) >= 0
  BY <1>3, WindowAssumption
<1>5. QED
  BY <1>3, <1>4 DEF Grid

\* Different grid points are at least a width apart.
LEMMA GridGap ==
  ASSUME NEW width \in Nat \ {0}, NEW a \in Grid(width), NEW b \in Grid(width),
         a < b
  PROVE  a + width <= b
<1>1. PICK j \in 0..(MaxT + 1) : a = width * j
  BY DEF Grid
<1>2. PICK k \in 0..(MaxT + 1) : b = width * k
  BY DEF Grid
<1>3. j + 1 <= k
  <2>1. CASE k <= j
    <3>1. width * k <= width * j
      BY <2>1, WindowAssumption
    <3>2. QED
      BY <3>1, <1>1, <1>2, WindowAssumption
  <2>2. QED
    BY <2>1, WindowAssumption
<1>4. PICK d \in Nat : k = j + 1 + d
  <2>1. k - j - 1 \in Nat /\ k = j + 1 + (k - j - 1)
    BY <1>3, WindowAssumption
  <2>2. QED
    BY <2>1
<1>5. width * k = width * j + width + width * d /\ width * d >= 0
  BY <1>4, WindowAssumption
<1>6. QED
  BY <1>1, <1>2, <1>5, WindowAssumption

\* After every instant there is a grid point within one width.
LEMMA GridAfter ==
  ASSUME NEW width \in Nat \ {0}, NEW n \in Time
  PROVE  \E g \in Grid(width) : n < g /\ g <= n + width
<1> DEFINE q == n \div width
<1>1. n = width * q + (n % width) /\ n % width \in 0..(width - 1) /\ q \in Nat
  BY DEF Time
<1> HIDE DEF q
<1>2. n < width * (q + 1) /\ width * (q + 1) <= n + width
  BY <1>1
<1>3. q <= n
  BY <1>1
<1>4. q + 1 \in 0..(MaxT + 1)
  BY <1>1, <1>3, WindowAssumption DEF Time
<1>5. width * (q + 1) \in Grid(width)
  BY <1>4 DEF Grid
<1>6. QED
  BY <1>2, <1>5

\* A nonempty set of naturals has a least element.
LEMMA LeastNatural ==
  ASSUME NEW S \in SUBSET Nat, S # {}
  PROVE  \E m \in S : \A k \in S : m <= k
<1>1. PICK R : /\ IsWellFoundedOn(R, Nat)
               /\ \A k, m \in Nat : k < m => <<k, m>> \in R
  <2>1. IsWellFoundedOn(OpToRel(<, Nat), Nat)
    BY NatLessThanWellFounded
  <2>2. \A k, m \in Nat : k < m => <<k, m>> \in OpToRel(<, Nat)
    BY DEF OpToRel
  <2>3. QED
    BY <2>1, <2>2, Zenon
<1>2. S \subseteq Nat /\ IsWellFoundedOn(R, Nat)
  BY <1>1
<1>3. PICK m \in S : \A k \in S : ~ (<<k, m>> \in R)
  BY <1>2, WFMin
<1>4. ASSUME NEW k \in S
      PROVE  m <= k
  <2>1. k \in Nat /\ m \in Nat /\ ~ (k < m)
    BY <1>1, <1>2, <1>3
  <2>2. QED
    BY <2>1
<1>5. QED
  BY <1>4

(***************************************************************************)
(* What a cut produces.                                                    *)
(***************************************************************************)

\* The next grid end lies beyond n, and never goes back.
LEMMA AdvanceFacts ==
  ASSUME NEW width \in Nat \ {0}, NEW next \in Grid(width) \ {0}, NEW n \in Time
  PROVE  /\ Advance(next, width, n) \in Grid(width) \ {0}
         /\ next <= Advance(next, width, n)
         /\ Advance(next, width, n) = next \/ Advance(next, width, n) <= n + width
         /\ n < Advance(next, width, n)
<1> DEFINE P(g) == n < g /\ g <= n + width
<1>1. CASE next <= n
  <2>1. \E g \in Grid(width) : P(g)
    BY GridAfter
  <2> DEFINE a == CHOOSE g \in Grid(width) : P(g)
  <2>2. a \in Grid(width) /\ P(a)
    BY <2>1
  <2>3. a = Advance(next, width, n)
    BY <1>1 DEF Advance
  <2> HIDE DEF a
  <2>4. a \in Nat /\ next \in Nat
    BY <2>2, GridType
  <2>5. QED
    BY <2>2, <2>3, <2>4, <1>1, WindowAssumption DEF Time
<1>2. CASE ~ (next <= n)
  <2>1. next \in Nat
    BY GridType
  <2>2. Advance(next, width, n) = next
    BY <1>2 DEF Advance
  <2>3. QED
    BY <1>2, <2>1, <2>2 DEF Time
<1>3. QED
  BY <1>1, <1>2

\* A due span ends at a grid point between the counter and n.
LEMMA DueFacts ==
  ASSUME NEW width \in Nat \ {0}, NEW next \in Grid(width) \ {0}, NEW n \in Time,
         NEW p \in Due(next, width, n)
  PROVE  /\ p = <<p[2] - width, p[2]>> /\ p[1] = p[2] - width
         /\ p[2] \in Grid(width) \ {0} /\ next <= p[2] /\ p[2] <= n
         /\ p[1] \in Time /\ p[2] \in Time
<1>1. PICK g \in Grid(width) : p = <<g - width, g>> /\ next <= g /\ g <= n
  BY DEF Due
<1>2. g \in Nat /\ next \in Nat /\ next # 0
  BY GridType
<1>3. g # 0
  BY <1>1, <1>2
<1>4. g - width >= 0
  BY <1>3, GridBefore
<1>5. QED
  BY <1>1, <1>2, <1>3, <1>4, WindowAssumption DEF Time

\* A cut of a lane is a window of that lane and that span.
LEMMA CutFields ==
  ASSUME audioEnd \in Time, NEW l \in Lane, NEW s \in Time, NEW e \in Time
  PROVE  /\ Cut(l, s, e) \in Window
         /\ Cut(l, s, e).lane = l
         /\ Cut(l, s, e).start = s
         /\ Cut(l, s, e).end = e
BY DEF Cut, PcmEnd, Window, Time

\* The windows a lane gets are cuts of the spans it is given.
LEMMA NvSpans ==
  ASSUME audioEnd \in Time, NEW spans,
         \A p \in spans : p[1] \in Time /\ p[2] \in Time,
         NEW w \in NvWindows(spans)
  PROVE  /\ w \in Window /\ w.lane = "nv" /\ HasFrames(w.start, w.end)
         /\ w = Cut(w.lane, w.start, w.end)
         /\ \E p \in spans : w.start = p[1] /\ w.end = p[2]
<1>1. PICK p \in spans : w = Cut("nv", p[1], p[2]) /\ HasFrames(p[1], p[2])
  BY DEF NvWindows
<1>2. "nv" \in Lane
  BY DEF Lane
<1>3. QED
  BY <1>1, <1>2, CutFields

\* The windows of the stt lane are cuts of the spans, too.
LEMMA SttSpans ==
  ASSUME audioEnd \in Time, NEW spans,
         \A p \in spans : p[1] \in Time /\ p[2] \in Time,
         NEW w \in SttWindows(spans)
  PROVE  /\ w \in Window /\ w.lane = "stt" /\ w = Cut(w.lane, w.start, w.end)
         /\ \E p \in spans : w.start = p[1] /\ w.end = p[2]
<1>1. PICK p \in spans : w = Cut("stt", p[1], p[2])
  BY DEF SttWindows
<1>2. "stt" \in Lane
  BY DEF Lane
<1>3. QED
  BY <1>1, <1>2, CutFields

\* And so are the windows of an evaluation.
LEMMA EvalSpans ==
  ASSUME audioEnd \in Time, NEW l \in Lane, NEW spans,
         \A p \in spans : p[1] \in Time /\ p[2] \in Time,
         NEW w \in EvalWindows(l, spans)
  PROVE  /\ w \in Window /\ w.lane = l /\ w = Cut(w.lane, w.start, w.end)
         /\ \E p \in spans : w.start = p[1] /\ w.end = p[2]
<1>1. PICK p \in spans : w = Cut(l, p[1], p[2])
  BY DEF EvalWindows
<1>2. QED
  BY <1>1, CutFields

\* What a poll cuts, lane by lane.
LEMMA PollWindows ==
  ASSUME TypeOK, NEW p \in Pollers, PollCut(p)
  PROVE  \A w \in batch'[p] :
           /\ w \in Window
           /\ w.lane # "tail" /\ w = Cut(w.lane, w.start, w.end)
           /\ w.lane = "nv" => HasFrames(w.start, w.end)
           /\ w.lane \in {"nv", "stt"} =>
                \/ /\ w.end \in NvGrid \ {0} /\ w.start = w.end - NvW
                   /\ nextNv <= w.end /\ w.end <= now
                \/ /\ w.lane = "nv" /\ w.start \in starved
                   /\ w.end = w.start + NvW /\ HasFrames(w.start, w.end)
           /\ w.lane = "eval" =>
                /\ w.end \in EvalGrid \ {0} /\ w.start = w.end - EvalW
                /\ nextEval <= w.end /\ w.end <= now /\ ~ EvalOff
<1> DEFINE nvDue == Due(nextNv, NvW, now)
           evalDue == IF EvalOff THEN {} ELSE Due(nextEval, EvalW, now)
           late == {<<s, s + NvW>> : s \in starved}
<1>1. batch'[p] = NvWindows(nvDue) \cup SttWindows(nvDue)
                    \cup NvWindows(late) \cup EvalWindows("eval", evalDue)
  BY DEF PollCut, CatchUp, TypeOK
<1>2. \A q \in nvDue : /\ q[1] \in Time /\ q[2] \in Time
                       /\ q[1] = q[2] - NvW /\ q[2] \in NvGrid \ {0}
                       /\ nextNv <= q[2] /\ q[2] <= now
  BY DueFacts, WindowAssumption DEF TypeOK, NvGrid
<1>3. \A q \in evalDue : /\ q[1] \in Time /\ q[2] \in Time /\ ~ EvalOff
                         /\ q[1] = q[2] - EvalW /\ q[2] \in EvalGrid \ {0}
                         /\ nextEval <= q[2] /\ q[2] <= now
  BY DueFacts, WindowAssumption DEF TypeOK, EvalGrid
<1>4. \A q \in late : /\ q[1] \in Time /\ q[2] \in Time
                      /\ q[1] \in starved /\ q[2] = q[1] + NvW
  BY DEF TypeOK
<1>5. audioEnd \in Time /\ "eval" \in Lane
  BY DEF TypeOK, Lane
<1> HIDE DEF nvDue, evalDue, late
<1>6. ASSUME NEW w \in batch'[p]
      PROVE  /\ w \in Window
             /\ w.lane # "tail" /\ w = Cut(w.lane, w.start, w.end)
             /\ w.lane = "nv" => HasFrames(w.start, w.end)
             /\ w.lane \in {"nv", "stt"} =>
                  \/ /\ w.end \in NvGrid \ {0} /\ w.start = w.end - NvW
                     /\ nextNv <= w.end /\ w.end <= now
                  \/ /\ w.lane = "nv" /\ w.start \in starved
                     /\ w.end = w.start + NvW /\ HasFrames(w.start, w.end)
             /\ w.lane = "eval" =>
                  /\ w.end \in EvalGrid \ {0} /\ w.start = w.end - EvalW
                  /\ nextEval <= w.end /\ w.end <= now /\ ~ EvalOff
  <2>1. CASE w \in NvWindows(nvDue)
    BY <2>1, <1>2, <1>5, NvSpans
  <2>2. CASE w \in SttWindows(nvDue)
    BY <2>2, <1>2, <1>5, SttSpans
  <2>3. CASE w \in NvWindows(late)
    BY <2>3, <1>4, <1>5, NvSpans
  <2>4. CASE w \in EvalWindows("eval", evalDue)
    BY <2>4, <1>3, <1>5, EvalSpans
  <2>5. QED
    BY <1>1, <2>1, <2>2, <2>3, <2>4
<1>7. QED
  BY <1>6

\* What end_turn cuts, lane by lane.
LEMMA EndWindows ==
  ASSUME TypeOK, EndCut
  PROVE  \A w \in endBatch' :
           /\ w \in Window
           /\ w.lane # "eval" /\ w = Cut(w.lane, w.start, w.end)
           /\ w.lane \in {"nv", "stt"} =>
                \/ /\ w.end \in NvGrid \ {0} /\ w.start = w.end - NvW
                   /\ nextNv <= w.end /\ w.end <= now
                \/ /\ w.start = nextNv' - NvW /\ w.end = now /\ w.start < w.end
                \/ /\ w.lane = "nv" /\ w.start \in starved
                   /\ w.end = w.start + NvW /\ HasFrames(w.start, w.end)
           /\ w.lane = "tail" =>
                w.start = covered /\ w.end = now /\ w.start < w.end
<1> DEFINE nvDue == Due(nextNv, NvW, now)
           rest == Trailing(Advance(nextNv, NvW, now) - NvW, now)
           late == {<<s, s + NvW>> : s \in starved}
           tail == TailSpans(now)
<1>1. endBatch' = NvWindows(nvDue \cup rest) \cup SttWindows(nvDue \cup rest)
                    \cup NvWindows(late) \cup EvalWindows("tail", tail)
  BY DEF EndCut, CatchUp
<1>2. \A q \in nvDue : /\ q[1] \in Time /\ q[2] \in Time
                       /\ q[1] = q[2] - NvW /\ q[2] \in NvGrid \ {0}
                       /\ nextNv <= q[2] /\ q[2] <= now
  BY DueFacts, WindowAssumption DEF TypeOK, NvGrid
<1>3. \A q \in rest : /\ q[1] \in Time /\ q[2] \in Time
                      /\ q[1] = nextNv' - NvW /\ q[2] = now /\ q[1] < q[2]
  <2>1. nextNv' = Advance(nextNv, NvW, now)
    BY DEF EndCut
  <2>2. nextNv' \in NvGrid \ {0}
    BY <2>1, AdvanceFacts, WindowAssumption DEF TypeOK, NvGrid
  <2>3. nextNv' - NvW >= 0 /\ nextNv' \in Nat
    BY <2>2, GridBefore, GridType, WindowAssumption DEF NvGrid
  <2>4. QED
    BY <2>1, <2>3, WindowAssumption DEF Trailing, TypeOK, Time
<1>4. \A q \in late : /\ q[1] \in Time /\ q[2] \in Time
                      /\ q[1] \in starved /\ q[2] = q[1] + NvW
  BY DEF TypeOK
<1>5. \A q \in tail : /\ q[1] \in Time /\ q[2] \in Time
                           /\ q[1] = covered /\ q[2] = now /\ q[1] < q[2]
  BY GridType, WindowAssumption DEF TailSpans, TailStart, TypeOK, Time, EvalGrid
<1>6. audioEnd \in Time /\ "tail" \in Lane
  BY DEF TypeOK, Lane
<1> HIDE DEF nvDue, rest, late, tail
<1>7. ASSUME NEW w \in endBatch'
      PROVE  /\ w \in Window
             /\ w.lane # "eval" /\ w = Cut(w.lane, w.start, w.end)
             /\ w.lane \in {"nv", "stt"} =>
                  \/ /\ w.end \in NvGrid \ {0} /\ w.start = w.end - NvW
                     /\ nextNv <= w.end /\ w.end <= now
                  \/ /\ w.start = nextNv' - NvW /\ w.end = now /\ w.start < w.end
                  \/ /\ w.lane = "nv" /\ w.start \in starved
                     /\ w.end = w.start + NvW /\ HasFrames(w.start, w.end)
             /\ w.lane = "tail" =>
                  w.start = covered /\ w.end = now /\ w.start < w.end
  <2> DEFINE spans == nvDue \cup rest
  <2>1. CASE w \in NvWindows(spans)
    BY <2>1, <1>2, <1>3, <1>6, NvSpans
  <2>2. CASE w \in SttWindows(spans)
    BY <2>2, <1>2, <1>3, <1>6, SttSpans
  <2>3. CASE w \in NvWindows(late)
    BY <2>3, <1>4, <1>6, NvSpans
  <2>4. CASE w \in EvalWindows("tail", tail)
    BY <2>4, <1>5, <1>6, EvalSpans
  <2>5. QED
    BY <1>1, <2>1, <2>2, <2>3, <2>4
<1>8. QED
  BY <1>7


\* covered_until after an evaluation: a gap no later than the counter.
LEMMA FirstGapFacts ==
  ASSUME TypeOK, covered <= nextEval, NEW done \in SUBSET Nat, nextEval \notin done
  PROVE  /\ FirstGap(done) \in EvalGrid /\ FirstGap(done) \notin done
         /\ covered <= FirstGap(done) /\ FirstGap(done) <= nextEval
         /\ \A s \in EvalGrid : covered <= s /\ s < FirstGap(done) => s \in done
<1> DEFINE gaps == {g \in EvalGrid : covered <= g /\ g \notin done}
           P(g) == /\ covered <= g /\ g \notin done
                   /\ \A s \in EvalGrid : covered <= s /\ s < g => s \in done
<1>1. EvalGrid \subseteq Nat /\ nextEval \in EvalGrid /\ covered \in EvalGrid
  BY GridType, WindowAssumption DEF TypeOK, EvalGrid
<1>2. nextEval \in gaps /\ gaps \subseteq Nat
  BY <1>1
<1>3. PICK m \in gaps : \A k \in gaps : m <= k
  BY <1>2, LeastNatural
<1>4. m \in EvalGrid /\ P(m)
  BY <1>1, <1>3
<1>5. FirstGap(done) = CHOOSE g \in EvalGrid : P(g)
  BY DEF FirstGap
<1>6. FirstGap(done) \in EvalGrid /\ P(FirstGap(done))
  <2> HIDE DEF P
  <2>1. QED
    BY <1>4, <1>5
<1>7. ~ (nextEval < FirstGap(done))
  BY <1>1, <1>6
<1>8. FirstGap(done) <= nextEval
  <2>1. FirstGap(done) \in Nat /\ nextEval \in Nat
    BY <1>1, <1>6
  <2>2. QED
    BY <2>1, <1>7
<1>9. QED
  BY <1>6, <1>8

(***************************************************************************)
(* How the windows in play change: at and Known.                           *)
(***************************************************************************)

\* A worker's step moves one window to another phase.
LEMMA PhaseStep ==
  ASSUME TypeOK, NEW w \in Submitted, NEW x \in Phase, at' = [at EXCEPT ![w] = x]
  PROVE  /\ Submitted' = Submitted
         /\ at' \in [Submitted -> Phase]
         /\ at'[w] = x
         /\ \A v \in Submitted : v # w => at'[v] = at[v]
BY DEF TypeOK, Submitted

\* Submitting adds windows, all of them pending.
LEMMA SubmitStep ==
  ASSUME TypeOK, NEW ws \in SUBSET Window, Submit(ws)
  PROVE  /\ Submitted' = Submitted \cup ws
         /\ Submitted' \subseteq Window
         /\ at' \in [Submitted' -> Phase]
         /\ \A v \in ws : at'[v] = "pending"
         /\ \A v \in Submitted \ ws : at'[v] = at[v]
BY DEF TypeOK, Submitted, Submit, Phase


\* A window is known when it was submitted, or a poll or end_turn holds it.
LEMMA BatchKnown ==
  /\ \A w : w \in InBatch <=> \E p \in Pollers : w \in batch[p]
  /\ Known = Submitted \cup endBatch \cup InBatch
BY DEF InBatch, Known

\* No window enters, no counter moves and the turn does not end.
NoCut ==
  /\ Known' \subseteq Known
  /\ UNCHANGED <<nextNv, nextEval, starved, endAt>>
  /\ endPc = "idle" <=> endPc' = "idle"
  /\ endPc = "idle" => Known' = Known

\* Windows enter, and the counters move, only by a cut.
LEMMA KnownStep ==
  ASSUME TypeOK, [Next]_vars
  PROVE  \/ NoCut
         \/ \E p \in Pollers : PollCut(p) /\ Known' = Known \cup batch'[p]
         \/ EndCut /\ Known' \subseteq Known \cup endBatch'
<1> USE DEF Known, InBatch
<1>1. CASE UNCHANGED vars
  BY <1>1 DEF NoCut, vars, schedule, ending, Submitted
<1>2. CASE Tick \/ AddAudio \/ Close \/ \E t \in FrameTimes : AddFrame(t)
  BY <1>2 DEF NoCut, Tick, AddAudio, Close, AddFrame, schedule, ending, Submitted
<1>3. ASSUME NEW p \in Pollers, PollCut(p)
      PROVE  PollCut(p) /\ Known' = Known \cup batch'[p]
  <2>1. /\ at' = at /\ endBatch' = endBatch /\ batch[p] = {}
        /\ \A q \in Pollers : q # p => batch'[q] = batch[q]
    BY <1>3 DEF PollCut, ending, TypeOK
  <2>2. QED
    BY <1>3, <2>1 DEF Submitted
<1>4. ASSUME NEW p \in Pollers, PollSubmit(p)
      PROVE  NoCut
  <2>1. /\ endBatch' = endBatch /\ Submitted' = Submitted \cup batch[p]
        /\ batch'[p] = {} /\ \A q \in Pollers : q # p => batch'[q] = batch[q]
    BY <1>4, SubmitStep DEF PollSubmit, ending, TypeOK
  <2>2. Known' = Known
    BY <2>1
  <2>3. QED
    BY <1>4, <2>2 DEF NoCut, PollSubmit, ending
<1>5. ASSUME NEW w \in Submitted, Worker(w)
      PROVE  NoCut
  <2>1. UNCHANGED <<schedule, endPc, endAt, endBatch>>
    BY <1>5 DEF Worker, InferRaises, NvReturns, SttReturns, EvalReturns,
       TailReturns, EmitStored, EmitBridge, schedule, ending
  <2>2. Submitted' = Submitted
    BY <1>5 DEF Worker, InferRaises, NvReturns, SttReturns, EvalReturns,
       TailReturns, EmitStored, EmitBridge, Submitted, TypeOK
  <2>3. QED
    BY <2>1, <2>2 DEF NoCut, schedule
<1>6. CASE EndCut
  <2>1. at' = at /\ batch' = batch
    BY <1>6 DEF EndCut
  <2>2. QED
    BY <1>6, <2>1 DEF Submitted
<1>7. CASE EndTurn
  <2>1. CASE EndSubmit
    <3>1. Submitted' = Submitted \cup endBatch /\ endBatch' = {} /\ batch' = batch
      BY <2>1, SubmitStep DEF EndSubmit, schedule, TypeOK
    <3>2. QED
      BY <2>1, <3>1 DEF NoCut, EndSubmit, schedule
  <2>2. CASE EndSubmitRaises
    <3>1. PICK ws \in SUBSET endBatch : Submit(ws)
      BY <2>2 DEF EndSubmitRaises
    <3>2. Submitted' = Submitted \cup ws /\ endBatch' = {} /\ batch' = batch
      BY <2>2, <3>1, SubmitStep DEF EndSubmitRaises, schedule, TypeOK
    <3>3. QED
      BY <2>2, <3>2 DEF NoCut, EndSubmitRaises, schedule
  <2>3. CASE EndWait \/ EndDeadline \/ EndJoin \/ EndEmit \/ EndBridge
    BY <2>3 DEF NoCut, EndWait, EndDeadline, EndJoin, EndEmit, EndBridge, schedule,
       Submitted
  <2>4. QED
    BY <1>7, <2>1, <2>2, <2>3 DEF EndTurn
<1>8. QED
  BY <1>1, <1>2, <1>3, <1>4, <1>5, <1>6, <1>7 DEF Next

\* Only a successful evaluation moves the coverage.
LEMMA CoverageStep ==
  ASSUME [Next]_vars
  PROVE  \/ UNCHANGED <<covered, evalDone>>
         \/ \E w \in Submitted : EvalReturns(w)
BY DEF Next, vars, results, Tick, AddFrame, AddAudio, PollCut, PollSubmit, Worker,
   InferRaises, NvReturns, SttReturns, TailReturns, EmitStored, EmitBridge,
   EndCut, EndTurn, EndSubmit, EndSubmitRaises, EndWait, EndDeadline, EndJoin,
   EndEmit, EndBridge, Close

\* The counters never go back.
LEMMA CountersGrow ==
  ASSUME TypeOK, [Next]_vars
  PROVE  nextNv <= nextNv' /\ nextEval <= nextEval'
<1>1. nextNv \in Nat /\ nextEval \in Nat
  BY GridType, WindowAssumption DEF TypeOK, NvGrid, EvalGrid
<1>2. CASE NoCut
  BY <1>1, <1>2 DEF NoCut
<1>3. ASSUME NEW p \in Pollers, PollCut(p)
      PROVE  nextNv <= nextNv' /\ nextEval <= nextEval'
  BY <1>1, <1>3, AdvanceFacts, WindowAssumption DEF PollCut, TypeOK, NvGrid, EvalGrid
<1>4. CASE EndCut
  BY <1>1, <1>4, AdvanceFacts, WindowAssumption DEF EndCut, TypeOK, NvGrid
<1>5. QED
  BY <1>2, <1>3, <1>4, KnownStep

(***************************************************************************)
(* Type correctness.  It rests on EvalInv: covered_until exists because    *)
(* the counter of the evaluation grid is always beyond every evaluation.   *)
(***************************************************************************)

\* A successful evaluation lies before the counter, so the new coverage exists.
LEMMA EvalStep ==
  ASSUME TypeOK, EvalInv, NEW w \in Submitted, EvalReturns(w)
  PROVE  /\ w.start \in Time
         /\ evalDone' = evalDone \cup {w.start}
         /\ \A s \in evalDone' : s \in Nat /\ s < nextEval
         /\ covered' \in EvalGrid /\ covered' \notin evalDone'
         /\ covered <= covered' /\ covered' <= nextEval
         /\ \A s \in EvalGrid : covered <= s /\ s < covered' => s \in evalDone'
<1>1. w \in Known /\ w.lane = "eval" /\ w.start \in Time
  BY DEF EvalReturns, Known, TypeOK, Window
<1>2. w.end \in EvalGrid /\ w.end < nextEval /\ w.start = w.end - EvalW
  BY <1>1 DEF EvalInv
<1>3. w.end \in Nat /\ nextEval \in Nat
  BY <1>2, GridType, WindowAssumption DEF TypeOK, EvalGrid
<1>4. w.start < nextEval
  BY <1>2, <1>3, WindowAssumption
<1>5. evalDone \in SUBSET Nat /\ \A s \in evalDone : s < nextEval
  BY DEF TypeOK, EvalInv, Time
<1>6. evalDone' = evalDone \cup {w.start} /\ covered' = FirstGap(evalDone')
  BY DEF EvalReturns
<1>7. w.start \in Nat
  BY <1>1 DEF Time
<1>8. evalDone' \in SUBSET Nat /\ \A s \in evalDone' : s < nextEval
  BY <1>4, <1>5, <1>6, <1>7
<1>9. nextEval \notin evalDone'
  BY <1>3, <1>8
<1>10. QED
  BY <1>1, <1>6, <1>8, <1>9, FirstGapFacts DEF EvalInv

\* The first state has the right types.
LEMMA TypeInit == Init => TypeOK /\ EvalInv
<1> SUFFICES ASSUME Init PROVE TypeOK /\ EvalInv
  OBVIOUS
<1>1. NvW \in NvGrid \ {0} /\ EvalW \in EvalGrid \ {0} /\ 0 \in EvalGrid
  BY GridType, WindowAssumption DEF NvGrid, EvalGrid
<1>2. Submitted = {} /\ at \in [Submitted -> Phase] /\ OfLane("tail") = {}
  BY DEF Init, Submitted, OfLane
<1>3. TypeOK
  <2>1. 0 \in Time
    BY WindowAssumption DEF Time
  <2>2. batch \in [Pollers -> SUBSET Window]
    BY DEF Init
  <2>3. QED
    BY <1>1, <1>2, <2>1, <2>2 DEF Init, TypeOK, EndPhase
<1>4. Known = {}
  BY <1>2 DEF Init, Known, InBatch
<1>5. QED
  BY <1>3, <1>4, WindowAssumption DEF Init, EvalInv

\* Every step of poll, the workers, end_turn and close keeps the types.
LEMMA TypeStep == TypeOK /\ EvalInv /\ [Next]_vars => TypeOK'
<1> SUFFICES ASSUME TypeOK, EvalInv, [Next]_vars PROVE TypeOK'
  OBVIOUS
<1> USE DEF Submitted, OfLane
<1>1. CASE UNCHANGED vars
  BY <1>1 DEF vars, media, schedule, results, ending, TypeOK
<1>2. CASE Tick
  BY <1>2, WindowAssumption DEF Tick, schedule, results, ending, TypeOK, Time
<1>3. ASSUME NEW t \in FrameTimes, AddFrame(t) PROVE TypeOK'
  BY <1>3, LaneAssumption DEF AddFrame, schedule, results, ending, TypeOK
<1>4. CASE AddAudio
  <2>1. audioEnd' \in Time
    BY <1>4, WindowAssumption DEF AddAudio, TypeOK, Time
  <2>2. QED
    BY <1>4, <2>1 DEF AddAudio, schedule, results, ending, TypeOK
<1>5. ASSUME NEW p \in Pollers, PollCut(p) PROVE TypeOK'
  <2>1. nextNv' \in NvGrid \ {0} /\ nextEval' \in EvalGrid \ {0}
    BY <1>5, AdvanceFacts, WindowAssumption DEF PollCut, TypeOK, NvGrid, EvalGrid
  <2>2. starved' \subseteq {s \in Time : s + NvW \in Time}
    <3>1. \A q \in Due(nextNv, NvW, now) : q[1] \in Time /\ q[1] + NvW \in Time
      BY DueFacts, WindowAssumption DEF TypeOK, NvGrid, Time
    <3>2. QED
      BY <1>5, <3>1 DEF PollCut, StillStarved, TypeOK
  <2>3. batch' \in [Pollers -> SUBSET Window]
    <3>1. batch'[p] \subseteq Window
      BY <1>5, PollWindows
    <3>2. QED
      BY <1>5, <3>1 DEF PollCut, TypeOK
  <2>4. QED
    BY <1>5, <2>1, <2>2, <2>3 DEF PollCut, media, results, ending, TypeOK
<1>6. ASSUME NEW p \in Pollers, PollSubmit(p) PROVE TypeOK'
  <2>1. /\ Submitted \subseteq Submitted' /\ Submitted' \subseteq Window
        /\ at' \in [Submitted' -> Phase]
    BY <1>6, SubmitStep DEF PollSubmit, TypeOK
  <2>2. batch' \in [Pollers -> SUBSET Window]
    BY <1>6 DEF PollSubmit, TypeOK
  <2>3. QED
    BY <1>6, <2>1, <2>2 DEF PollSubmit, media, results, ending, TypeOK
<1>7. ASSUME NEW w \in Submitted, Worker(w) PROVE TypeOK'
  <2>1. w \in Window /\ w.start \in Time
    BY DEF TypeOK, Window
  <2>2. EmitCheck(w) \in Phase /\ {"emit", "done", "failed"} \subseteq Phase
    BY DEF EmitCheck, Phase
  <2>3. CASE InferRaises(w)
    BY <2>2, <2>3 DEF InferRaises, media, schedule, results, ending, TypeOK
  <2>4. CASE NvReturns(w)
    BY <2>2, <2>4 DEF NvReturns, media, schedule, results, ending, TypeOK
  <2>5. CASE SttReturns(w)
    BY <2>1, <2>2, <2>5 DEF SttReturns, media, schedule, ending, TypeOK
  <2>6. CASE EvalReturns(w)
    <3>1. evalDone' \subseteq Time /\ covered' \in EvalGrid
      BY <2>6, EvalStep DEF TypeOK
    <3>2. QED
      BY <2>2, <2>6, <3>1 DEF EvalReturns, media, schedule, ending, TypeOK
  <2>7. CASE TailReturns(w)
    BY <2>2, <2>7 DEF TailReturns, media, schedule, results, ending, TypeOK
  <2>8. CASE EmitStored(w)
    BY <2>2, <2>8 DEF EmitStored, media, schedule, results, ending, TypeOK
  <2>9. CASE EmitBridge(w)
    BY <2>2, <2>9 DEF EmitBridge, media, schedule, results, ending, TypeOK
  <2>10. QED
    BY <1>7, <2>3, <2>4, <2>5, <2>6, <2>7, <2>8, <2>9 DEF Worker
<1>8. CASE EndCut
  <2>1. nextNv' \in NvGrid \ {0}
    BY <1>8, AdvanceFacts, WindowAssumption DEF EndCut, TypeOK, NvGrid
  <2>2. starved' \subseteq starved
    BY <1>8 DEF EndCut, StillStarved
  <2>3. endBatch' \subseteq Window
    BY <1>8, EndWindows
  <2>4. QED
    BY <1>8, <2>1, <2>2, <2>3 DEF EndCut, media, results, TypeOK, EndPhase
<1>9. CASE EndSubmit
  <2>1. /\ Submitted \subseteq Submitted' /\ Submitted' \subseteq Window
        /\ at' \in [Submitted' -> Phase]
    BY <1>9, SubmitStep DEF EndSubmit, TypeOK
  <2>2. waitSet' \subseteq Submitted'
    BY <1>9 DEF EndSubmit, Unfinished, Awaited
  <2>3. QED
    BY <1>9, <2>1, <2>2
       DEF EndSubmit, media, schedule, results, TypeOK, EndPhase
<1>10. CASE EndSubmitRaises
  <2>1. PICK ws \in SUBSET endBatch : Submit(ws)
    BY <1>10 DEF EndSubmitRaises
  <2>2. /\ Submitted \subseteq Submitted' /\ Submitted' \subseteq Window
        /\ at' \in [Submitted' -> Phase]
    BY <2>1, SubmitStep DEF TypeOK
  <2>3. QED
    BY <1>10, <2>2
       DEF EndSubmitRaises, media, schedule, results, TypeOK, EndPhase
<1>11. CASE EndWait
  BY <1>11 DEF EndWait, media, schedule, results, TypeOK, EndPhase
<1>12. CASE EndDeadline
  BY <1>12
     DEF EndDeadline, Unfinished, media, schedule, results, TypeOK, EndPhase
<1>13. CASE EndJoin
  BY <1>13 DEF EndJoin, media, schedule, results, TypeOK, EndPhase
<1>14. CASE EndEmit
  BY <1>14 DEF EndEmit, media, schedule, results, TypeOK, EndPhase
<1>15. CASE EndBridge
  BY <1>15 DEF EndBridge, media, schedule, results, TypeOK, EndPhase
<1>16. CASE Close
  BY <1>16 DEF Close, media, schedule, results, ending, TypeOK
<1>17. QED
  BY <1>1, <1>2, <1>3, <1>4, <1>5, <1>6, <1>7, <1>8, <1>9, <1>10, <1>11,
     <1>12, <1>13, <1>14, <1>15, <1>16 DEF Next, EndTurn

\* Every step keeps what was cut for evaluation before the counter.
LEMMA EvalInvStep == TypeOK /\ EvalInv /\ [Next]_vars => EvalInv'
<1> SUFFICES ASSUME TypeOK, EvalInv, [Next]_vars PROVE EvalInv'
  OBVIOUS
<1>1. TypeOK'
  BY TypeStep
<1>2. /\ nextEval \in Nat /\ nextEval' \in Nat /\ nextEval <= nextEval'
      /\ covered \in Nat /\ covered' \in Nat
      /\ \A g \in EvalGrid : g \in Nat
  BY <1>1, GridType, CountersGrow, WindowAssumption DEF TypeOK, EvalGrid
<1>3. covered' <= nextEval /\ \A s \in evalDone' : s < nextEval
  <2>1. CASE UNCHANGED <<covered, evalDone>>
    BY <2>1 DEF EvalInv
  <2>2. CASE \E w \in Submitted : EvalReturns(w)
    BY <2>2, EvalStep
  <2>3. QED
    BY <2>1, <2>2, CoverageStep
<1>4. \A s \in evalDone' : s \in Nat
  BY <1>1 DEF TypeOK, Time
<1>5. ASSUME NEW w \in Known', w.lane = "eval"
      PROVE  w.end \in EvalGrid \ {0} /\ w.end < nextEval' /\ w.start = w.end - EvalW
  <2>1. CASE w \in Known
    <3>1. w.end \in EvalGrid \ {0} /\ w.end < nextEval /\ w.start = w.end - EvalW
      BY <1>5, <2>1 DEF EvalInv
    <3>2. w.end \in Nat
      BY <1>2, <3>1
    <3>3. QED
      BY <1>2, <3>1, <3>2
  <2>2. ASSUME NEW p \in Pollers, PollCut(p), w \in batch'[p]
        PROVE  w.end \in EvalGrid \ {0} /\ w.end < nextEval' /\ w.start = w.end - EvalW
    <3>1. /\ w.end \in EvalGrid \ {0} /\ w.start = w.end - EvalW
          /\ w.end <= now /\ ~ EvalOff
      BY <1>5, <2>2, PollWindows
    <3>2. now < nextEval'
      BY <2>2, <3>1, AdvanceFacts, WindowAssumption DEF PollCut, TypeOK, EvalGrid
    <3>3. w.end \in Nat
      BY <1>2, <3>1
    <3>4. now \in Nat
      BY DEF TypeOK, Time
    <3>5. QED
      BY <1>2, <3>1, <3>2, <3>3, <3>4
  <2>3. CASE EndCut /\ w \in endBatch'
    BY <1>5, <2>3, EndWindows
  <2>4. QED
    BY <1>5, <2>1, <2>2, <2>3, KnownStep DEF NoCut
<1>6. QED
  BY <1>2, <1>3, <1>4, <1>5 DEF EvalInv

\* Every reachable state of the windower is well typed, whatever the widths,
\* the time line, the camera and the number of polling threads.
THEOREM TypeCorrect == Spec => [](TypeOK /\ EvalInv)
<1>1. Init => TypeOK /\ EvalInv
  BY TypeInit
<1>2. TypeOK /\ EvalInv /\ [Next]_vars => (TypeOK /\ EvalInv)'
  BY TypeStep, EvalInvStep
<1>3. QED
  BY <1>1, <1>2, PTL DEF Spec


(***************************************************************************)
(* The nv/stt grid: where the windows of these lanes lie, and which of     *)
(* them are starved.                                                       *)
(***************************************************************************)

\* Two grid windows that overlap are the same.
LEMMA SpansApart ==
  ASSUME NEW width \in Nat \ {0}, NEW a \in Grid(width), NEW b \in Grid(width),
         a - width < b, b - width < a
  PROVE  a = b
<1>1. a \in Nat /\ b \in Nat
  BY GridType
<1>2. ~ (a < b) /\ ~ (b < a)
  BY <1>1, GridGap
<1>3. QED
  BY <1>1, <1>2

\* The numbers that the arithmetic of the grid is about.
NvNumbers ==
  /\ nextNv \in Nat /\ now \in Nat /\ NvW \in Nat \ {0}
  /\ \A g \in NvGrid : g \in Nat
  /\ \A s \in starved : s \in Nat
  /\ \A w \in Known : w.start \in Nat /\ w.end \in Nat

\* The types make the numbers of the nv grid natural numbers.
LEMMA NvNumbersHold ==
  ASSUME TypeOK
  PROVE  NvNumbers
<1>1. nextNv \in Nat /\ NvW \in Nat \ {0} /\ \A g \in NvGrid : g \in Nat
  BY GridType, WindowAssumption DEF TypeOK, NvGrid
<1>2. now \in Nat /\ \A s \in starved : s \in Nat
  BY DEF TypeOK, Time
<1>3. Known \subseteq Window
  BY DEF Known, InBatch, TypeOK
<1>4. QED
  BY <1>1, <1>2, <1>3 DEF NvNumbers, Window, Time

\* Every step keeps the nv/stt windows on their grid, or trailing.
LEMMA SpanInvStep ==
  TypeOK /\ EvalInv /\ SpanInv /\ StarvedInv /\ [Next]_vars => SpanInv'
<1> SUFFICES ASSUME TypeOK, EvalInv, SpanInv, StarvedInv, [Next]_vars,
                    NEW w \in Known', w.lane \in {"nv", "stt"}
             PROVE  (\/ w.end \in NvGrid \ {0} /\ w.end < nextNv /\ w.start = w.end - NvW
                     \/ /\ endPc # "idle"
                        /\ w.end = endAt /\ w.start = nextNv - NvW
                        /\ w.end < nextNv)'
  BY DEF SpanInv
<1>1. TypeOK'
  BY TypeStep
<1>2. NvNumbers /\ nextNv' \in Nat /\ nextNv <= nextNv'
  <2>1. nextNv' \in Nat
    BY <1>1, GridType, WindowAssumption DEF TypeOK, NvGrid
  <2>2. QED
    BY <2>1, NvNumbersHold, CountersGrow
<1>3. NvGrid' = NvGrid
  OBVIOUS
<1>4. CASE w \in Known
  <2>1. CASE w.end \in NvGrid \ {0} /\ w.end < nextNv /\ w.start = w.end - NvW
    BY <1>2, <2>1, <1>4 DEF NvNumbers
  <2>2. CASE /\ endPc # "idle"
             /\ w.end = endAt /\ w.start = nextNv - NvW /\ w.end < nextNv
    <3>1. NoCut
      BY <2>2, KnownStep DEF EndCut, PollCut
    <3>2. QED
      BY <2>2, <3>1 DEF NoCut
  <2>3. QED
    BY <1>4, <2>1, <2>2 DEF SpanInv
<1>5. ASSUME NEW p \in Pollers, PollCut(p), w \in batch'[p]
      PROVE  w.end \in NvGrid \ {0} /\ w.end < nextNv' /\ w.start = w.end - NvW
  <2>1. now < nextNv'
    BY <1>5, AdvanceFacts, WindowAssumption DEF PollCut, TypeOK, NvGrid
  <2>2. CASE w.end \in NvGrid \ {0} /\ w.start = w.end - NvW /\ w.end <= now
    <3>1. w.end \in Nat
      BY <1>2, <2>2 DEF NvNumbers
    <3>2. QED
      BY <1>2, <2>1, <2>2, <3>1 DEF NvNumbers
  <2>3. CASE w.start \in starved /\ w.end = w.start + NvW
    <3>1. w.start + NvW \in NvGrid \ {0} /\ w.start + NvW < nextNv
      BY <2>3 DEF StarvedInv
    <3>2. w.start \in Nat
      BY <1>2, <2>3 DEF NvNumbers
    <3>3. QED
      BY <1>2, <2>3, <3>1, <3>2 DEF NvNumbers
  <2>4. QED
    BY <1>5, <2>2, <2>3, PollWindows
<1>6. ASSUME EndCut, w \in endBatch'
      PROVE  (\/ w.end \in NvGrid \ {0} /\ w.end < nextNv /\ w.start = w.end - NvW
              \/ /\ endPc # "idle"
                 /\ w.end = endAt /\ w.start = nextNv - NvW
                 /\ w.end < nextNv)'
  <2>1. now < nextNv' /\ endPc' # "idle" /\ endAt' = now
    BY <1>6, AdvanceFacts, WindowAssumption DEF EndCut, TypeOK, NvGrid
  <2>2. CASE w.end \in NvGrid \ {0} /\ w.start = w.end - NvW /\ w.end <= now
    <3>1. w.end \in Nat
      BY <1>2, <2>2 DEF NvNumbers
    <3>2. QED
      BY <1>2, <2>1, <2>2, <3>1 DEF NvNumbers
  <2>3. CASE w.start \in starved /\ w.end = w.start + NvW
    <3>1. w.start + NvW \in NvGrid \ {0} /\ w.start + NvW < nextNv
      BY <2>3 DEF StarvedInv
    <3>2. w.start \in Nat
      BY <1>2, <2>3 DEF NvNumbers
    <3>3. QED
      BY <1>2, <2>3, <3>1, <3>2 DEF NvNumbers
  <2>4. CASE w.start = nextNv' - NvW /\ w.end = now
    BY <2>1, <2>4
  <2>5. QED
    BY <1>6, <2>2, <2>3, <2>4, EndWindows
<1>7. QED
  BY <1>4, <1>5, <1>6, KnownStep DEF NoCut

\* Every step keeps the starved windows closed and out of play.
LEMMA StarvedInvStep ==
  TypeOK /\ EvalInv /\ SpanInv /\ StarvedInv /\ [Next]_vars => StarvedInv'
<1> SUFFICES ASSUME TypeOK, EvalInv, SpanInv, StarvedInv, [Next]_vars,
                    NEW s \in starved'
             PROVE  /\ s + NvW \in NvGrid \ {0} /\ s + NvW < nextNv'
                    /\ \A w \in Known' : w.lane = "nv" => w.start # s
  BY DEF StarvedInv
<1>1. NvNumbers
  BY NvNumbersHold
<1>2. CASE NoCut
  BY <1>2 DEF NoCut, StarvedInv
<1>3. ASSUME NEW p \in Pollers, PollCut(p), Known' = Known \cup batch'[p]
      PROVE  /\ s + NvW \in NvGrid \ {0} /\ s + NvW < nextNv'
             /\ \A w \in Known' : w.lane = "nv" => w.start # s
  <2>1. now < nextNv' /\ nextNv <= nextNv' /\ nextNv' \in NvGrid
    BY <1>3, AdvanceFacts, WindowAssumption DEF PollCut, TypeOK, NvGrid
  <2>2. nextNv' \in Nat
    BY <1>1, <2>1 DEF NvNumbers
  <2>3. endPc = "idle" /\ ~ HasFrames(s, s + NvW)
    BY <1>3 DEF PollCut, StillStarved
  <2>4. \/ s \in starved
        \/ \E q \in Due(nextNv, NvW, now) : s = q[1]
    BY <1>3 DEF PollCut, StillStarved
  <2>5. CASE s \in starved
    <3>1. /\ s + NvW \in NvGrid \ {0} /\ s + NvW < nextNv /\ s \in Nat
          /\ \A w \in Known : w.lane = "nv" => w.start # s
      BY <1>1, <2>5 DEF StarvedInv, NvNumbers
    <3>2. ASSUME NEW w \in batch'[p], w.lane = "nv", w.start = s
          PROVE  FALSE
      <4>1. CASE w.end \in NvGrid \ {0} /\ w.start = w.end - NvW /\ nextNv <= w.end
        <5>1. w.end \in Nat
          BY <1>1, <4>1 DEF NvNumbers
        <5>2. QED
          BY <1>1, <3>1, <3>2, <4>1, <5>1 DEF NvNumbers
      <4>2. CASE w.end = w.start + NvW /\ HasFrames(w.start, w.end)
        BY <2>3, <3>2, <4>2
      <4>3. QED
        BY <1>3, <3>2, <4>1, <4>2, PollWindows
    <3>3. QED
      BY <1>1, <1>3, <2>1, <2>2, <3>1, <3>2 DEF NvNumbers
  <2>6. CASE \E q \in Due(nextNv, NvW, now) : s = q[1]
    <3>1. PICK q \in Due(nextNv, NvW, now) : s = q[1]
      BY <2>6
    <3>2. /\ q[2] \in NvGrid \ {0} /\ nextNv <= q[2] /\ q[2] <= now
          /\ s = q[2] - NvW
      BY <3>1, DueFacts, WindowAssumption DEF TypeOK, NvGrid
    <3>3. q[2] \in Nat
      BY <1>1, <3>2 DEF NvNumbers
    <3>4. s + NvW = q[2]
      BY <1>1, <3>2, <3>3 DEF NvNumbers
    <3>5. s + NvW < nextNv'
      BY <1>1, <2>1, <2>2, <3>2, <3>3, <3>4 DEF NvNumbers
    <3>6. ASSUME NEW w \in Known, w.lane = "nv", w.start = s
          PROVE  FALSE
      <4>1. w.end < nextNv /\ w.start = w.end - NvW
        BY <2>3, <3>6 DEF SpanInv
      <4>2. QED
        BY <1>1, <3>2, <3>3, <3>6, <4>1 DEF NvNumbers
    <3>7. ASSUME NEW w \in batch'[p], w.lane = "nv", w.start = s
          PROVE  FALSE
      <4>1. CASE w.end \in NvGrid \ {0} /\ w.start = w.end - NvW
        <5>1. HasFrames(w.start, w.end)
          BY <1>3, <3>7, PollWindows
        <5>2. w.end \in Nat
          BY <1>1, <4>1 DEF NvNumbers
        <5>3. w.end = s + NvW
          BY <1>1, <3>2, <3>3, <3>7, <4>1, <5>2 DEF NvNumbers
        <5>4. QED
          BY <2>3, <3>7, <5>1, <5>3
      <4>2. CASE w.end = w.start + NvW /\ HasFrames(w.start, w.end)
        BY <2>3, <3>7, <4>2
      <4>3. QED
        BY <1>3, <3>7, <4>1, <4>2, PollWindows
    <3>8. QED
      BY <1>3, <3>2, <3>4, <3>5, <3>6, <3>7
  <2>7. QED
    BY <2>4, <2>5, <2>6
<1>4. ASSUME EndCut, Known' \subseteq Known \cup endBatch'
      PROVE  /\ s + NvW \in NvGrid \ {0} /\ s + NvW < nextNv'
             /\ \A w \in Known' : w.lane = "nv" => w.start # s
  <2>1. nextNv <= nextNv' /\ nextNv' \in NvGrid
    BY <1>4, AdvanceFacts, WindowAssumption DEF EndCut, TypeOK, NvGrid
  <2>2. nextNv' \in Nat
    BY <1>1, <2>1 DEF NvNumbers
  <2>3. s \in starved /\ ~ HasFrames(s, s + NvW)
    BY <1>4 DEF EndCut, StillStarved
  <2>4. /\ s + NvW \in NvGrid \ {0} /\ s + NvW < nextNv /\ s \in Nat
        /\ \A w \in Known : w.lane = "nv" => w.start # s
    BY <1>1, <2>3 DEF StarvedInv, NvNumbers
  <2>5. ASSUME NEW w \in endBatch', w.lane = "nv", w.start = s
        PROVE  FALSE
    <3>1. CASE w.end \in NvGrid \ {0} /\ w.start = w.end - NvW /\ nextNv <= w.end
      <4>1. w.end \in Nat
        BY <1>1, <3>1 DEF NvNumbers
      <4>2. QED
        BY <1>1, <2>4, <2>5, <3>1, <4>1 DEF NvNumbers
    <3>2. CASE w.start = nextNv' - NvW
      <4>1. nextNv \in Nat /\ NvW \in Nat /\ s + NvW < nextNv'
        BY <1>1, <2>1, <2>2, <2>4 DEF NvNumbers
      <4>2. s \in Nat /\ s = nextNv' - NvW
        BY <2>4, <2>5, <3>2
      <4>3. \A a, b, c \in Nat : a = b - c => ~ (a + c < b)
        OBVIOUS
      <4>4. QED
        BY <2>2, <4>1, <4>2, <4>3
    <3>3. CASE w.end = w.start + NvW /\ HasFrames(w.start, w.end)
      BY <2>3, <2>5, <3>3
    <3>4. QED
      BY <1>4, <2>5, <3>1, <3>2, <3>3, EndWindows
  <2>6. QED
    BY <1>1, <1>4, <2>1, <2>2, <2>4, <2>5 DEF NvNumbers
<1>5. QED
  BY <1>2, <1>3, <1>4, KnownStep

\* Every nv and stt window lies on the grid or is the trailing one, and the
\* starved windows are exactly apart from those in play.
THEOREM SpansCorrect == Spec => [](SpanInv /\ StarvedInv)
<1>1. Init => SpanInv /\ StarvedInv
  BY DEF Init, SpanInv, StarvedInv, Known, InBatch, Submitted
<1>2. TypeOK /\ EvalInv /\ SpanInv /\ StarvedInv /\ [Next]_vars
        => (SpanInv /\ StarvedInv)'
  BY SpanInvStep, StarvedInvStep
<1>3. QED
  BY <1>1, <1>2, TypeCorrect, PTL DEF Spec


(***************************************************************************)
(* Pairing: nv and stt windows that overlap have the same span.            *)
(***************************************************************************)

\* Two nv/stt windows with a common unit have the same span.
LEMMA OverlapSame ==
  ASSUME TypeOK, SpanInv,
         NEW v \in Known, NEW w \in Known,
         v.lane \in {"nv", "stt"}, w.lane \in {"nv", "stt"}, Overlap(v, w)
  PROVE  SameSpan(v, w)
<1> DEFINE OnGrid(u) == u.end \in NvGrid \ {0} /\ u.end < nextNv /\ u.start = u.end - NvW
           Rest(u) == u.end = endAt /\ u.start = nextNv - NvW /\ u.end < nextNv
<1>1. NvNumbers /\ nextNv \in NvGrid
  BY NvNumbersHold DEF TypeOK
<1>2. v.start < w.end /\ w.start < v.end
  BY DEF Overlap
<1>3. ASSUME NEW u \in Known, OnGrid(u) PROVE u.end <= nextNv - NvW
  <2>1. u.end + NvW <= nextNv
    BY <1>1, <1>3, GridGap DEF NvNumbers, NvGrid
  <2>2. u.end \in Nat /\ nextNv \in Nat /\ NvW \in Nat
    BY <1>1 DEF NvNumbers
  <2>3. QED
    BY <2>1, <2>2
<1>4. CASE OnGrid(v) /\ OnGrid(w)
  <2>1. v.end = w.end
    BY <1>1, <1>2, <1>4, SpansApart DEF NvNumbers, NvGrid
  <2>2. QED
    BY <1>4, <2>1 DEF SameSpan
<1>5. CASE OnGrid(v) /\ Rest(w)
  <2>1. v.end \in Nat /\ w.start \in Nat
    BY <1>1 DEF NvNumbers
  <2>2. v.end <= w.start
    BY <1>3, <1>5
  <2>3. QED
    BY <1>2, <2>1, <2>2
<1>6. CASE Rest(v) /\ OnGrid(w)
  <2>1. w.end \in Nat /\ v.start \in Nat
    BY <1>1 DEF NvNumbers
  <2>2. w.end <= v.start
    BY <1>3, <1>6
  <2>3. QED
    BY <1>2, <2>1, <2>2
<1>7. CASE Rest(v) /\ Rest(w)
  BY <1>7 DEF SameSpan
<1>8. (OnGrid(v) \/ Rest(v)) /\ (OnGrid(w) \/ Rest(w))
  BY DEF SpanInv
<1>9. QED
  BY <1>4, <1>5, <1>6, <1>7, <1>8

\* The recorder can pair every nv signal with its transcript: an nv and an
\* stt window of the turn that overlap are the same stretch.
THEOREM PairedCorrect == Spec => []WindowsPaired
<1>1. TypeOK /\ SpanInv => WindowsPaired
  BY OverlapSame DEF WindowsPaired
<1>2. QED
  BY <1>1, TypeCorrect, SpansCorrect, PTL


(***************************************************************************)
(* No stretch is submitted twice.                                          *)
(***************************************************************************)

\* covered_until never moves back.
LEMMA CoveredGrows ==
  ASSUME TypeOK, EvalInv, [Next]_vars
  PROVE  covered \in Nat /\ covered' \in Nat /\ covered <= covered'
<1>1. covered \in Nat /\ \A g \in EvalGrid : g \in Nat
  BY GridType, WindowAssumption DEF TypeOK, EvalGrid
<1>2. CASE UNCHANGED <<covered, evalDone>>
  BY <1>1, <1>2
<1>3. CASE \E w \in Submitted : EvalReturns(w)
  <2>1. covered' \in EvalGrid /\ covered <= covered'
    BY <1>3, EvalStep
  <2>2. QED
    BY <1>1, <2>1
<1>4. QED
  BY <1>2, <1>3, CoverageStep

\* Every step keeps the tail unique and cut from the coverage.
LEMMA TailInvStep ==
  TypeOK /\ EvalInv /\ TailInv /\ [Next]_vars => TailInv'
<1> SUFFICES ASSUME TypeOK, EvalInv, TailInv, [Next]_vars,
                    NEW w \in Known', w.lane = "tail"
             PROVE  /\ endPc' # "idle"
                    /\ w.end = endAt' /\ w.start <= covered'
                    /\ \A v \in Known' : v.lane = "tail" => v.start = w.start
  BY DEF TailInv
<1>1. covered \in Nat /\ covered' \in Nat /\ covered <= covered'
  BY CoveredGrows
<1>2. CASE NoCut
  <2>1. w \in Known
    BY <1>2 DEF NoCut
  <2>2. /\ endPc # "idle" /\ w.end = endAt /\ w.start <= covered
        /\ \A v \in Known : v.lane = "tail" => v.start = w.start
    BY <2>1 DEF TailInv
  <2>3. w.start \in Nat
    <3>1. Known \subseteq Window
      BY DEF Known, InBatch, TypeOK
    <3>2. QED
      BY <2>1, <3>1 DEF Window, Time
  <2>4. w.start <= covered'
    BY <1>1, <2>2, <2>3
  <2>5. QED
    BY <1>2, <2>2, <2>4 DEF NoCut
<1>3. ASSUME NEW p \in Pollers, PollCut(p), Known' = Known \cup batch'[p]
      PROVE  FALSE
  <2>1. w \in Known
    BY <1>3, PollWindows
  <2>2. QED
    BY <1>3, <2>1 DEF TailInv, PollCut
<1>4. CASE EndCut /\ Known' \subseteq Known \cup endBatch'
  <2>1. endPc = "idle" /\ endPc' # "idle" /\ endAt' = now /\ covered' = covered
    BY <1>4 DEF EndCut, results
  <2>2. \A v \in Known' : v.lane = "tail" => v \in endBatch'
    BY <1>4, <2>1 DEF TailInv
  <2>3. \A v \in endBatch' : v.lane = "tail" => v.start = covered /\ v.end = now
    BY <1>4, EndWindows
  <2>4. QED
    BY <1>1, <2>1, <2>2, <2>3
<1>5. QED
  BY <1>2, <1>3, <1>4, KnownStep

\* A poll cuts no span that is in play for its lane.
LEMMA PollFresh ==
  ASSUME TypeOK, EvalInv, SpanInv, StarvedInv, TailInv,
         NEW p \in Pollers, PollCut(p), NEW v \in Known, NEW w \in batch'[p],
         v.lane = w.lane
  PROVE  ~ SameSpan(v, w)
<1>1. NvNumbers /\ endPc = "idle"
  BY NvNumbersHold DEF PollCut
<1> SUFFICES ASSUME v.start = w.start, v.end = w.end
             PROVE  FALSE
  BY DEF SameSpan
<1>2. v.end \in Nat
  BY <1>1 DEF NvNumbers
<1>3. CASE w.lane \in {"nv", "stt"}
  <2>1. v.end < nextNv /\ v.start = v.end - NvW
    BY <1>1, <1>3 DEF SpanInv
  <2>2. ~ (nextNv <= w.end)
    BY <1>1, <1>2, <2>1 DEF NvNumbers
  <2>3. w.lane = "nv" /\ w.start \in starved
    BY <1>3, <2>2, PollWindows
  <2>4. QED
    BY <2>3 DEF StarvedInv
<1>4. CASE w.lane = "eval"
  <2>1. v.end < nextEval /\ nextEval <= w.end
    BY <1>4, PollWindows DEF EvalInv
  <2>2. nextEval \in Nat
    BY GridType, WindowAssumption DEF TypeOK, EvalGrid
  <2>3. QED
    BY <1>2, <2>1, <2>2
<1>5. w.lane \in {"nv", "stt", "eval"}
  BY PollWindows DEF Window, Lane
<1>6. QED
  BY <1>3, <1>4, <1>5

\* Neither does the end of the turn.
LEMMA EndFresh ==
  ASSUME TypeOK, EvalInv, SpanInv, StarvedInv, TailInv,
         EndCut, NEW v \in Known, NEW w \in endBatch', v.lane = w.lane
  PROVE  ~ SameSpan(v, w)
<1>1. NvNumbers /\ endPc = "idle"
  BY NvNumbersHold DEF EndCut
<1> SUFFICES ASSUME v.start = w.start, v.end = w.end
             PROVE  FALSE
  BY DEF SameSpan
<1>2. v.end \in Nat /\ nextNv \in Nat /\ NvW \in Nat
  BY <1>1 DEF NvNumbers
<1>3. CASE w.lane \in {"nv", "stt"}
  <2>1. v.end < nextNv /\ v.start = v.end - NvW
    BY <1>1, <1>3 DEF SpanInv
  <2>2. ~ (nextNv <= w.end)
    BY <1>2, <2>1
  <2>3. w.start # nextNv' - NvW
    <3>1. nextNv <= nextNv' /\ nextNv' \in NvGrid
      BY AdvanceFacts, WindowAssumption DEF EndCut, TypeOK, NvGrid
    <3>2. nextNv' \in Nat
      BY <1>1, <3>1 DEF NvNumbers
    <3>3. \A a, b, c, d \in Nat : a < b /\ b <= c => a - d # c - d
      OBVIOUS
    <3>4. QED
      BY <1>2, <2>1, <3>1, <3>2, <3>3
  <2>4. w.lane = "nv" /\ w.start \in starved
    BY <1>3, <2>2, <2>3, EndWindows
  <2>5. QED
    BY <2>4 DEF StarvedInv
<1>4. CASE w.lane = "tail"
  BY <1>1, <1>4 DEF TailInv
<1>5. w.lane \in {"nv", "stt", "tail"}
  BY EndWindows DEF Window, Lane
<1>6. QED
  BY <1>3, <1>4, <1>5

\* Every step keeps windows of one lane and span apart, and their holders.
LEMMA OnceInvStep ==
  /\ TypeOK /\ EvalInv /\ SpanInv /\ StarvedInv /\ TailInv /\ OnceInv
  /\ [Next]_vars
  => OnceInv'
<1> SUFFICES ASSUME TypeOK, EvalInv, SpanInv, StarvedInv, TailInv, OnceInv,
                    [Next]_vars
             PROVE  OnceInv'
  OBVIOUS
<1>1. ASSUME Known' \subseteq Known
      PROVE  (\A v, w \in Known : v.lane = w.lane /\ SameSpan(v, w) => v = w)'
  BY <1>1 DEF OnceInv, SameSpan
<1>2. CASE UNCHANGED <<batch, endBatch, Submitted>>
  <2>1. Known' = Known /\ InBatch' = InBatch
    BY <1>2 DEF Known, InBatch
  <2>2. QED
    BY <1>1, <1>2, <2>1 DEF OnceInv
<1>3. ASSUME NEW p \in Pollers, PollCut(p)
      PROVE  OnceInv'
  <2>1. /\ Submitted' = Submitted /\ endBatch' = endBatch /\ batch[p] = {}
        /\ \A q \in Pollers : q # p => batch'[q] = batch[q]
    BY <1>3 DEF PollCut, ending, TypeOK, Submitted
  <2>2. Known' = Known \cup batch'[p] /\ InBatch' = InBatch \cup batch'[p]
    BY <2>1 DEF Known, InBatch
  <2>3. \A v \in Known : \A w \in batch'[p] :
          ~ (v.lane = w.lane /\ SameSpan(v, w))
    BY <1>3, PollFresh
  <2>4. batch'[p] \cap Known = {}
    BY <2>3 DEF SameSpan
  <2>5. \A v, w \in batch'[p] : v.lane = w.lane /\ SameSpan(v, w) => v = w
    <3>1. \A v \in batch'[p] : v = Cut(v.lane, v.start, v.end)
      BY <1>3, PollWindows
    <3>2. QED
      BY <3>1 DEF SameSpan
  <2>6. (\A v, w \in Known : v.lane = w.lane /\ SameSpan(v, w) => v = w)'
    BY <2>2, <2>3, <2>5 DEF OnceInv, SameSpan
  <2>7. /\ (endBatch' \cup InBatch') \cap Submitted' = {}
        /\ endBatch' \cap InBatch' = {}
    BY <2>1, <2>2, <2>4 DEF OnceInv, Known
  <2>8. \A q, r \in Pollers : q # r => batch'[q] \cap batch'[r] = {}
    <3>1. \A q \in Pollers : batch[q] \subseteq Known
      BY DEF Known, InBatch
    <3>2. QED
      BY <2>1, <2>4, <3>1 DEF OnceInv
  <2>9. QED
    BY <2>6, <2>7, <2>8 DEF OnceInv
<1>4. ASSUME NEW p \in Pollers, PollSubmit(p)
      PROVE  OnceInv'
  <2>1. /\ endBatch' = endBatch /\ Submitted' = Submitted \cup batch[p]
        /\ batch'[p] = {} /\ \A q \in Pollers : q # p => batch'[q] = batch[q]
    BY <1>4, SubmitStep DEF PollSubmit, ending, TypeOK
  <2>2. Known' \subseteq Known
    BY <2>1 DEF Known, InBatch
  <2>3. InBatch' \subseteq InBatch /\ InBatch' \cap batch[p] = {}
        /\ batch[p] \subseteq InBatch
    BY <2>1 DEF OnceInv, InBatch
  <2>4. QED
    BY <1>1, <2>1, <2>2, <2>3 DEF OnceInv
<1>5. CASE EndCut
  <2>1. Submitted' = Submitted /\ batch' = batch /\ InBatch' = InBatch
    BY <1>5 DEF EndCut, Submitted, InBatch
  <2>2. Known' \subseteq Known \cup endBatch'
    BY <2>1 DEF Known
  <2>3. \A v \in Known : \A w \in endBatch' :
          ~ (v.lane = w.lane /\ SameSpan(v, w))
    BY <1>5, EndFresh
  <2>4. endBatch' \cap Known = {}
    BY <2>3 DEF SameSpan
  <2>5. \A v, w \in endBatch' : v.lane = w.lane /\ SameSpan(v, w) => v = w
    <3>1. \A v \in endBatch' : v = Cut(v.lane, v.start, v.end)
      BY <1>5, EndWindows
    <3>2. QED
      BY <3>1 DEF SameSpan
  <2>6. (\A v, w \in Known : v.lane = w.lane /\ SameSpan(v, w) => v = w)'
    BY <2>2, <2>3, <2>5 DEF OnceInv, SameSpan
  <2>7. QED
    BY <2>1, <2>4, <2>6 DEF OnceInv, Known
<1>6. CASE EndSubmit \/ EndSubmitRaises
  <2>1. PICK ws \in SUBSET endBatch : Submit(ws)
    BY <1>6 DEF EndSubmit, EndSubmitRaises
  <2>2. /\ Submitted' = Submitted \cup ws /\ endBatch' = {} /\ batch' = batch
        /\ InBatch' = InBatch
    BY <1>6, <2>1, SubmitStep
       DEF EndSubmit, EndSubmitRaises, schedule, TypeOK, InBatch
  <2>3. Known' \subseteq Known
    BY <2>2 DEF Known
  <2>4. QED
    BY <1>1, <2>2, <2>3 DEF OnceInv
<1>7. ASSUME NEW w \in Submitted, Worker(w)
      PROVE  OnceInv'
  BY <1>2, <1>7 DEF Worker, InferRaises, NvReturns, SttReturns, EvalReturns,
     TailReturns, EmitStored, EmitBridge, schedule, ending, Submitted, TypeOK
<1>8. CASE \/ UNCHANGED vars \/ Tick \/ AddAudio \/ Close
           \/ \E t \in FrameTimes : AddFrame(t)
           \/ EndWait \/ EndDeadline \/ EndJoin \/ EndEmit \/ EndBridge
  BY <1>2, <1>8 DEF vars, Tick, AddAudio, Close, AddFrame, EndWait, EndDeadline,
     EndJoin, EndEmit, EndBridge, schedule, ending, Submitted
<1>9. QED
  BY <1>3, <1>4, <1>5, <1>6, <1>7, <1>8 DEF Next, EndTurn

\* On the grids, distinct windows of one lane do not overlap.
LEMMA OnceFromParts ==
  TypeOK /\ EvalInv /\ SpanInv /\ TailInv /\ OnceInv => WindowsOnce
<1> SUFFICES ASSUME TypeOK, EvalInv, SpanInv, TailInv, OnceInv,
                    NEW v \in Known, NEW w \in Known, v.lane = w.lane, Overlap(v, w)
             PROVE  SameSpan(v, w)
  BY DEF OnceInv, WindowsOnce
<1>1. CASE w.lane \in {"nv", "stt"}
  BY <1>1, OverlapSame
<1>2. CASE w.lane = "eval"
  <2>1. /\ v.end \in EvalGrid /\ v.start = v.end - EvalW
        /\ w.end \in EvalGrid /\ w.start = w.end - EvalW
    BY <1>2 DEF EvalInv
  <2>2. v.end = w.end
    BY <2>1, SpansApart, WindowAssumption DEF EvalGrid, Overlap
  <2>3. QED
    BY <2>1, <2>2 DEF SameSpan
<1>3. CASE w.lane = "tail"
  BY <1>3 DEF TailInv, SameSpan
<1>4. w.lane \in Lane
  BY DEF Known, InBatch, TypeOK, Window
<1>5. QED
  BY <1>1, <1>2, <1>3, <1>4 DEF Lane

\* No span is handed out twice, and there is one tail at most.
LEMMA OnceInvCorrect == Spec => [](TailInv /\ OnceInv)
<1>1. Init => TailInv /\ OnceInv
  BY DEF Init, TailInv, OnceInv, Known, InBatch, Submitted
<1>2. /\ TypeOK /\ EvalInv /\ SpanInv /\ StarvedInv /\ TailInv /\ OnceInv
      /\ [Next]_vars
      => (TailInv /\ OnceInv)'
  BY TailInvStep, OnceInvStep
<1>3. QED
  BY <1>1, <1>2, TypeCorrect, SpansCorrect, PTL DEF Spec

\* However many threads poll, and however late frames and audio come, no
\* stretch of the turn is handed to a lane twice.
THEOREM OnceCorrect == Spec => []WindowsOnce
BY OnceFromParts, TypeCorrect, SpansCorrect, OnceInvCorrect, PTL

(***************************************************************************)
(* No closed nv window is given up before the turn ends.                   *)
(***************************************************************************)

\* A closed window with frames goes to the nv lane at the next poll.
LEMMA PollReads ==
  ASSUME NEW p \in Pollers, TypeOK, PollCut(p), NEW s,
         <<s, s + NvW>> \in Due(nextNv, NvW, now) \/ s \in starved
  PROVE  \/ s \in starved'
         \/ \E w \in batch'[p] : w.lane = "nv" /\ w.start = s
<1>1. CASE ~ HasFrames(s, s + NvW)
  BY <1>1 DEF PollCut, StillStarved
<1>2. CASE HasFrames(s, s + NvW)
  <2>1. Cut("nv", s, s + NvW) \in batch'[p]
    BY <1>2 DEF PollCut, CatchUp, NvWindows, TypeOK
  <2>2. Cut("nv", s, s + NvW).lane = "nv" /\ Cut("nv", s, s + NvW).start = s
    BY DEF Cut
  <2>3. QED
    BY <2>1, <2>2
<1>3. QED
  BY <1>1, <1>2

\* Every step of a running turn keeps each closed nv window cut or starved.
LEMMA StarvedOrReadStep ==
  TypeOK /\ StarvedInv' /\ StarvedOrRead /\ [Next]_vars => StarvedOrRead'
<1> SUFFICES ASSUME TypeOK, StarvedInv', StarvedOrRead, [Next]_vars,
                    endPc' = "idle", NEW g \in NvGrid, 0 < g, g < nextNv'
             PROVE  \/ (g - NvW) \in starved'
                    \/ \E w \in Known' : w.lane = "nv" /\ w.start = g - NvW
  BY DEF StarvedOrRead, StarvedInv
<1>1. NvNumbers /\ g \in Nat /\ nextNv \in NvGrid \ {0}
  BY NvNumbersHold DEF NvNumbers, TypeOK
<1>2. g - NvW + NvW = g
  BY <1>1 DEF NvNumbers
<1>3. CASE NoCut
  BY <1>3 DEF NoCut, StarvedOrRead
<1>4. ASSUME NEW p \in Pollers, PollCut(p), Known' = Known \cup batch'[p]
      PROVE  \/ (g - NvW) \in starved'
             \/ \E w \in Known' : w.lane = "nv" /\ w.start = g - NvW
  <2>1. CASE g < nextNv
    <3>1. \/ (g - NvW) \in starved
          \/ \E w \in Known : w.lane = "nv" /\ w.start = g - NvW
      BY <1>4, <2>1 DEF StarvedOrRead, PollCut
    <3>2. CASE (g - NvW) \in starved
      BY <1>2, <1>4, <3>2, PollReads
    <3>3. QED
      BY <1>4, <3>1, <3>2
  <2>2. CASE nextNv <= g
    <3>1. nextNv' = Advance(nextNv, NvW, now)
      BY <1>4 DEF PollCut
    <3>2. /\ nextNv' \in NvGrid \ {0}
          /\ nextNv' = nextNv \/ nextNv' <= now + NvW
      BY <1>1, <3>1, AdvanceFacts, WindowAssumption DEF TypeOK, NvGrid
    <3>3. nextNv' \in Nat
      BY <1>1, <3>2 DEF NvNumbers
    <3>4. g + NvW <= nextNv'
      BY <3>2, GridGap, WindowAssumption DEF NvGrid
    <3>5. g <= now
      BY <1>1, <2>2, <3>2, <3>3, <3>4 DEF NvNumbers
    <3>6. <<g - NvW, g>> \in Due(nextNv, NvW, now)
      BY <2>2, <3>5 DEF Due, NvGrid
    <3>7. QED
      BY <1>2, <1>4, <3>6, PollReads
  <2>3. g < nextNv \/ nextNv <= g
    BY <1>1 DEF NvNumbers
  <2>4. QED
    BY <2>1, <2>2, <2>3
<1>5. CASE EndCut
  BY <1>5 DEF EndCut
<1>6. QED
  BY <1>3, <1>4, <1>5, KnownStep

\* A closed nv window is read, or remembered until its frames come.
THEOREM StarvedCorrect == Spec => []StarvedOrRead
<1>1. Init => StarvedOrRead
  <2>1. \A g \in NvGrid : 0 < g => ~ (g < NvW)
    <3>1. \A g \in NvGrid : g \in Nat /\ (g # 0 => g - NvW >= 0)
      BY GridType, GridBefore, WindowAssumption DEF NvGrid
    <3>2. QED
      BY <3>1, WindowAssumption
  <2>2. QED
    BY <2>1 DEF Init, StarvedOrRead
<1>2. QED
  BY <1>1, StarvedOrReadStep, TypeCorrect, SpansCorrect, PTL DEF Spec

(***************************************************************************)
(* What a turn leaves behind: the coverage by evaluations, the order of    *)
(* its signals, and the joined transcript.                                 *)
(***************************************************************************)

(***************************************************************************)
(* The coverage.                                                           *)
(***************************************************************************)

JudgedPhase == {"emit", "bridge", "done"}

\* Only a returning evaluation adds to the judged windows.
LEMMA JudgedStep ==
  ASSUME TypeOK, OnceInv, [Next]_vars
  PROVE  \/ \E w \in Submitted : EvalReturns(w)
         \/ \A v : v \in OfLane("eval")' /\ at'[v] \in JudgedPhase
                     <=> v \in OfLane("eval") /\ at[v] \in JudgedPhase
<1> DEFINE Same ==
      \A v : v \in OfLane("eval")' /\ at'[v] \in JudgedPhase
               <=> v \in OfLane("eval") /\ at[v] \in JudgedPhase
<1> USE DEF OfLane
<1>1. CASE at' = at
  BY <1>1 DEF Submitted
<1>2. ASSUME NEW ws \in SUBSET Window, Submit(ws), ws \cap Submitted = {}
      PROVE  Same
  <2>1. /\ Submitted' = Submitted \cup ws
        /\ \A v \in ws : at'[v] = "pending"
        /\ \A v \in Submitted \ ws : at'[v] = at[v]
    BY <1>2, SubmitStep
  <2>2. QED
    BY <1>2, <2>1 DEF JudgedPhase
<1>3. ASSUME NEW p \in Pollers, PollSubmit(p)
      PROVE  Same
  <2>1. batch[p] \in SUBSET Window /\ Submit(batch[p])
    BY <1>3 DEF PollSubmit, TypeOK
  <2>2. batch[p] \cap Submitted = {}
    BY DEF OnceInv, InBatch
  <2>3. QED
    BY <1>2, <2>1, <2>2
<1>4. CASE EndSubmit \/ EndSubmitRaises
  <2>1. PICK ws \in SUBSET endBatch : Submit(ws)
    BY <1>4 DEF EndSubmit, EndSubmitRaises
  <2>2. ws \cap Submitted = {} /\ ws \in SUBSET Window
    BY <2>1 DEF OnceInv, TypeOK
  <2>3. QED
    BY <1>2, <2>1, <2>2
<1>5. ASSUME NEW w \in Submitted, Worker(w), ~ EvalReturns(w)
      PROVE  Same
  <2>1. CASE InferRaises(w)
    BY <2>1 DEF InferRaises, TypeOK, Submitted, JudgedPhase
  <2>2. CASE NvReturns(w) \/ SttReturns(w) \/ TailReturns(w)
    BY <2>2 DEF NvReturns, SttReturns, TailReturns, TypeOK, Submitted
  <2>3. CASE EmitStored(w)
    BY <2>3 DEF EmitStored, EmitCheck, TypeOK, Submitted, JudgedPhase
  <2>4. CASE EmitBridge(w)
    BY <2>4 DEF EmitBridge, TypeOK, Submitted, JudgedPhase
  <2>5. QED
    BY <1>5, <2>1, <2>2, <2>3, <2>4 DEF Worker
<1>6. CASE \/ UNCHANGED vars \/ Tick \/ AddAudio \/ Close \/ EndCut
           \/ \E t \in FrameTimes : AddFrame(t)
           \/ \E p \in Pollers : PollCut(p)
           \/ EndWait \/ EndDeadline \/ EndJoin \/ EndEmit \/ EndBridge
  BY <1>1, <1>6 DEF vars, Tick, AddAudio, Close, AddFrame, EndCut, PollCut,
     EndWait, EndDeadline, EndJoin, EndEmit, EndBridge
<1>7. QED
  BY <1>3, <1>4, <1>5, <1>6 DEF Next, EndTurn

\* Every step keeps covered_until at the first gap of the evaluations done.
LEMMA CoverInvStep ==
  TypeOK /\ EvalInv /\ OnceInv /\ CoverInv /\ [Next]_vars => CoverInv'
<1> SUFFICES ASSUME TypeOK, EvalInv, OnceInv, CoverInv, [Next]_vars
             PROVE  CoverInv'
  OBVIOUS
<1>1. CASE \E w \in Submitted : EvalReturns(w)
  <2>1. PICK w \in Submitted : EvalReturns(w)
    BY <1>1
  <2>2. /\ w.start \in Time
        /\ evalDone' = evalDone \cup {w.start}
        /\ covered' \notin evalDone' /\ covered' \in EvalGrid
        /\ \A s \in EvalGrid : covered <= s /\ s < covered' => s \in evalDone'
    BY <2>1, EvalStep
  <2>3. covered \in Nat /\ \A s \in EvalGrid : s \in Nat
    BY GridType, WindowAssumption DEF TypeOK, EvalGrid
  <2>4. \A s \in EvalGrid : s < covered' => s \in evalDone'
    <3>1. \A s \in EvalGrid : s < covered \/ covered <= s
      BY <2>3
    <3>2. QED
      BY <2>2, <3>1 DEF CoverInv
  <2>5. /\ w.lane = "eval" /\ Submitted' = Submitted
        /\ at[w] = "pending" /\ at'[w] = "emit"
        /\ \A v \in Submitted : v # w => at'[v] = at[v]
    BY <2>1 DEF EvalReturns, TypeOK, Submitted
  <2>6. \A s : Judged(s)' <=> Judged(s) \/ s = w.start
    BY <2>5 DEF Judged, OfLane
  <2>7. \A s \in Time \cup EvalGrid : s \in evalDone' <=> Judged(s)'
    BY <2>2, <2>6 DEF CoverInv
  <2>8. QED
    BY <2>2, <2>4, <2>7 DEF CoverInv
<1>2. CASE ~ \E w \in Submitted : EvalReturns(w)
  <2>1. UNCHANGED <<covered, evalDone>>
    BY <1>2, CoverageStep
  <2>2. \A v : v \in OfLane("eval")' /\ at'[v] \in JudgedPhase
                 <=> v \in OfLane("eval") /\ at[v] \in JudgedPhase
    BY <1>2, JudgedStep
  <2>3. \A s : Judged(s)' <=> Judged(s)
    BY <2>2 DEF Judged, JudgedPhase
  <2>4. QED
    BY <2>1, <2>3 DEF CoverInv
<1>3. QED
  BY <1>1, <1>2

\* The coverage is the gapless run of successful evaluations.
LEMMA CoveredFromParts == TypeOK /\ CoverInv => CoveredPrefix
BY DEF TypeOK, CoverInv, CoveredPrefix

\* covered lies on the grid, so an instant before it is in a judged window.
LEMMA TailFromParts == TypeOK /\ CoverInv /\ TailInv => TailMeetsCoverage
<1> SUFFICES ASSUME TypeOK, CoverInv, TailInv,
                    NEW w \in OfLane("tail"), NEW t \in 0..(endAt - 1),
                    ~ (w.start <= t)
             PROVE  \E s \in EvalGrid : s <= t /\ t < s + EvalW /\ Judged(s)
  BY DEF TailMeetsCoverage
<1>1. w \in Known /\ w \in Window /\ w.lane = "tail"
  BY DEF OfLane, Known, TypeOK
<1>2. w.start <= covered /\ w.start \in Time
  BY <1>1 DEF TailInv, Window
<1>3. covered \in Nat /\ t \in Time /\ w.start \in Nat
  BY <1>2, GridType, WindowAssumption DEF TypeOK, EvalGrid, Time
<1>4. t < covered /\ t \in Nat
  BY <1>2, <1>3 DEF Time
<1>5. PICK g \in EvalGrid : t < g /\ g <= t + EvalW
  BY <1>3, GridAfter, WindowAssumption DEF EvalGrid
<1>6. g \in Nat /\ g # 0 /\ EvalW \in Nat \ {0}
  BY <1>4, <1>5, GridType, WindowAssumption DEF EvalGrid
<1>7. g - EvalW \in EvalGrid /\ g - EvalW >= 0
  BY <1>5, <1>6, GridBefore DEF EvalGrid
<1>8. g - EvalW <= t /\ t < (g - EvalW) + EvalW
  BY <1>4, <1>5, <1>6
<1>9. g - EvalW < covered
  BY <1>3, <1>4, <1>6, <1>8
<1>10. Judged(g - EvalW)
  BY <1>7, <1>9 DEF CoverInv
<1>11. QED
  BY <1>7, <1>8, <1>10

\* _do_eval moves covered_until over exactly the evaluations that succeeded
\* without a gap.
THEOREM CoverCorrect == Spec => []CoverInv
<1>1. Init => CoverInv
  <2>1. \A s \in EvalGrid : s \in Nat
    BY GridType, WindowAssumption DEF EvalGrid
  <2>2. QED
    BY <2>1 DEF Init, CoverInv, Judged, OfLane, Submitted
<1>2. TypeOK /\ EvalInv /\ OnceInv /\ CoverInv /\ [Next]_vars => CoverInv'
  BY CoverInvStep
<1>3. QED
  BY <1>1, <1>2, TypeCorrect, OnceInvCorrect, PTL DEF Spec

\* The coverage grows over successful evaluations only, without gaps.
THEOREM CoveredCorrect == Spec => []CoveredPrefix
BY CoveredFromParts, TypeCorrect, CoverCorrect, PTL

\* The tail and the successful evaluations cover the whole turn.
THEOREM TailCorrect == Spec => []TailMeetsCoverage
BY TailFromParts, TypeCorrect, CoverCorrect, OnceInvCorrect, PTL

(***************************************************************************)
(* The end of the turn.                                                    *)
(***************************************************************************)

\* A worker never revives a finished window; it finishes one by sending its
\* signal, by failing, or by dropping it once the windower is closed.
LEMMA WorkerStep ==
  ASSUME TypeOK, NEW w \in Submitted, Worker(w)
  PROVE  /\ Submitted' = Submitted /\ sent \subseteq sent'
         /\ UNCHANGED <<batch, closed, ending>>
         /\ \A v \in Submitted : at[v] \in Finished => at'[v] = at[v]
         /\ \A v \in Submitted : at'[v] = "done" /\ at[v] # "done" =>
              v \in sent' \/ closed \/ v.lane = "tail"
<1> USE DEF Submitted, TypeOK, Finished
<1>1. CASE InferRaises(w)
  BY <1>1 DEF InferRaises, schedule
<1>2. CASE NvReturns(w)
  BY <1>2 DEF NvReturns, EmitCheck, schedule
<1>3. CASE SttReturns(w)
  BY <1>3 DEF SttReturns, schedule
<1>4. CASE EvalReturns(w)
  BY <1>4 DEF EvalReturns, schedule
<1>5. CASE TailReturns(w)
  BY <1>5 DEF TailReturns, schedule
<1>6. CASE EmitStored(w)
  BY <1>6 DEF EmitStored, EmitCheck, schedule
<1>7. CASE EmitBridge(w)
  BY <1>7 DEF EmitBridge, schedule
<1>8. QED
  BY <1>1, <1>2, <1>3, <1>4, <1>5, <1>6, <1>7 DEF Worker

\* Every step keeps what end_turn has waited for finished, sent or stalled.
LEMMA EndInvStep == TypeOK /\ EndInv /\ [Next]_vars => EndInv'
<1> SUFFICES ASSUME TypeOK, EndInv, [Next]_vars PROVE EndInv'
  OBVIOUS
<1>1. CASE UNCHANGED vars
  BY <1>1 DEF vars, schedule, ending, EndInv, InBatch, Submitted
<1>2. CASE Tick \/ AddAudio \/ Close \/ \E t \in FrameTimes : AddFrame(t)
  BY <1>2 DEF Tick, AddAudio, Close, AddFrame, schedule, ending, EndInv, InBatch,
     Submitted
<1>3. ASSUME NEW p \in Pollers, PollCut(p)
      PROVE  EndInv'
  BY <1>3 DEF PollCut, ending, EndInv, Submitted
<1>4. ASSUME NEW p \in Pollers, PollSubmit(p)
      PROVE  EndInv'
  <2>1. endPc = "idle" /\ endPc' = "idle"
    BY <1>4 DEF PollSubmit, EndInv, InBatch, ending
  <2>2. /\ \A v \in Submitted' : at'[v] = "done" => v \in Submitted /\ at[v] = "done"
        /\ closed' = closed /\ sent' = sent
    BY <1>4, SubmitStep DEF PollSubmit, TypeOK
  <2>3. QED
    BY <2>1, <2>2 DEF EndInv
<1>5. ASSUME NEW w \in Submitted, Worker(w)
      PROVE  EndInv'
  BY <1>5, WorkerStep DEF ending, EndInv, InBatch
<1>6. CASE EndCut
  <2>1. InBatch' = {}
    BY <1>6 DEF EndCut, InBatch
  <2>2. QED
    BY <1>6, <2>1 DEF EndCut, EndInv, Submitted
<1>7. CASE EndSubmit
  <2>1. endBatch \in SUBSET Window /\ Submit(endBatch)
    BY <1>7 DEF EndSubmit, TypeOK
  <2>2. /\ \A v \in Submitted' : at'[v] = "done" => v \in Submitted /\ at[v] = "done"
        /\ closed' = closed /\ sent' = sent /\ InBatch' = InBatch /\ endPc' = "wait"
    BY <1>7, <2>1, SubmitStep DEF EndSubmit, schedule, InBatch
  <2>3. \A v \in Submitted' : v.lane \in {"nv", "stt"} =>
          at'[v] \in Finished \/ v \in waitSet'
    BY <1>7 DEF EndSubmit, Unfinished, Awaited
  <2>4. QED
    BY <1>7, <2>2, <2>3 DEF EndInv, EndSubmit
<1>8. CASE EndSubmitRaises
  <2>1. PICK ws \in SUBSET endBatch : Submit(ws)
    BY <1>8 DEF EndSubmitRaises
  <2>2. /\ \A v \in Submitted' : at'[v] = "done" => v \in Submitted /\ at[v] = "done"
        /\ closed' = closed /\ sent' = sent /\ InBatch' = InBatch
    BY <1>8, <2>1, SubmitStep DEF EndSubmitRaises, schedule, InBatch, TypeOK
  <2>3. QED
    BY <1>8, <2>2 DEF EndInv, EndSubmitRaises
<1>9. CASE EndWait
  BY <1>9 DEF EndWait, Unfinished, schedule, EndInv, InBatch, Submitted
<1>10. CASE EndDeadline
  BY <1>10 DEF EndDeadline, Unfinished, schedule, EndInv, InBatch, Submitted
<1>11. CASE EndJoin \/ EndEmit \/ EndBridge
  BY <1>11 DEF EndJoin, EndEmit, EndBridge, schedule, EndInv, InBatch, Submitted
<1>12. QED
  BY <1>1, <1>2, <1>3, <1>4, <1>5, <1>6, <1>7, <1>8, <1>9, <1>10, <1>11
     DEF Next, EndTurn

\* What end_turn has waited for is finished or stalled, and sent unless closed.
THEOREM EndInvCorrect == Spec => []EndInv
<1>1. Init => EndInv
  BY DEF Init, EndInv, InBatch, Submitted
<1>2. QED
  BY <1>1, EndInvStep, TypeCorrect, PTL DEF Spec

\* After the wait, a signal that is not stalled was sent or its call failed.
LEMMA LastFromParts == EndInv => TurnEndIsLast
BY DEF EndInv, TurnEndIsLast, Timely, Finished

\* The TurnEnd follows every signal of the turn that did not miss the deadline.
THEOREM TurnEndCorrect == Spec => []TurnEndIsLast
BY LastFromParts, EndInvCorrect, PTL

\* Only a window of the stt lane adds a transcript, and once end_turn has
\* stopped waiting such a window has stalled.
LEMMA WholeStep == TypeOK /\ EndInv /\ TranscriptWhole /\ [Next]_vars
                     => TranscriptWhole'
<1> SUFFICES ASSUME TypeOK, EndInv, TranscriptWhole, [Next]_vars
             PROVE  TranscriptWhole'
  OBVIOUS
<1>1. ASSUME UNCHANGED <<transcripts, full, stalled, endPc>>
      PROVE  TranscriptWhole'
  BY <1>1 DEF TranscriptWhole
<1>2. ASSUME NEW w \in Submitted, Worker(w)
      PROVE  TranscriptWhole'
  <2>1. CASE SttReturns(w)
    <3>1. endPc \in {"emit", "bridge", "done"} => w \in stalled
      BY <2>1 DEF SttReturns, EndInv, Finished
    <3>2. UNCHANGED <<full, stalled, endPc>> /\ w.lane = "stt"
      BY <2>1 DEF SttReturns, ending
    <3>3. QED
      BY <3>1, <3>2 DEF TranscriptWhole
  <2>2. CASE ~ SttReturns(w)
    BY <1>1, <1>2, <2>2 DEF Worker, InferRaises, NvReturns, EvalReturns, TailReturns,
       EmitStored, EmitBridge, results, ending
  <2>3. QED
    BY <2>1, <2>2
<1>3. CASE EndJoin
  BY <1>3 DEF EndJoin, results, TranscriptWhole
<1>4. CASE EndEmit \/ EndBridge
  BY <1>4 DEF EndEmit, EndBridge, results, TranscriptWhole
<1>5. CASE EndCut \/ EndSubmit \/ EndSubmitRaises \/ EndWait \/ EndDeadline
  BY <1>5 DEF EndCut, EndSubmit, EndSubmitRaises, EndWait, EndDeadline,
     TranscriptWhole
<1>6. CASE \/ UNCHANGED vars \/ Tick \/ AddAudio \/ Close
           \/ \E t \in FrameTimes : AddFrame(t)
           \/ \E p \in Pollers : PollCut(p) \/ PollSubmit(p)
  BY <1>1, <1>6 DEF vars, Tick, AddAudio, Close, AddFrame, PollCut, PollSubmit,
     results, ending
<1>7. QED
  BY <1>2, <1>3, <1>4, <1>5, <1>6 DEF Next, EndTurn

\* transcript_full lacks a transcript only if its stt call stalled.
THEOREM WholeCorrect == Spec => []TranscriptWhole
<1>1. Init => TranscriptWhole
  BY DEF Init, TranscriptWhole
<1>2. QED
  BY <1>1, WholeStep, TypeCorrect, EndInvCorrect, PTL DEF Spec
=============================================================================
