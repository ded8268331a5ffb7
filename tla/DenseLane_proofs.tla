-------------------------- MODULE DenseLane_proofs --------------------------
(***************************************************************************)
(* The dense vision lanes, proved for every set of lanes, every backlog    *)
(* and every number of frames and resets.                                  *)
(***************************************************************************)
EXTENDS DenseLane, TLAPS

Frames == [epoch : 0..MaxResets, t : Times]

\* The last job of a lane is the close of its detector, once close() was
\* called; it is there until the detector is closed, and nothing after.
CloseInv ==
  \A l \in Lanes :
    /\ \A i \in 1..Len(queue[l]) :
         queue[l][i] = CloseJob => i = Len(queue[l]) /\ closed /\ detector[l] = "open"
    /\ closed /\ detector[l] = "open" => queue[l] # <<>> /\ queue[l][Len(queue[l])] = CloseJob
    /\ detector[l] = "closed" => closed /\ queue[l] = <<>>
    /\ detector[l] # "misused"

\* A frame never looks like the job that closes a detector.
LEMMA FramesAreNoClose == \A f \in Frames : f # CloseJob
BY DEF Frames, CloseJob

\* What a lane may have queued.
LEMMA JobsSplit == Jobs = Frames \union {CloseJob}
BY DEF Jobs, Frames

\* A worker takes the first job of its queue.
LEMMA TailFacts ==
  ASSUME NEW S, NEW s \in Seq(S), s # <<>>
  PROVE  /\ Tail(s) \in Seq(S) /\ Len(Tail(s)) = Len(s) - 1
         /\ Head(s) \in S /\ Head(s) = s[1] /\ 1 \in 1..Len(s)
         /\ \A i \in 1..Len(Tail(s)) : i + 1 \in 1..Len(s) /\ Tail(s)[i] = s[i + 1]
OBVIOUS

\* A job is queued behind the others.
LEMMA AppendFacts ==
  ASSUME NEW S, NEW s \in Seq(S), NEW x \in S
  PROVE  /\ Append(s, x) \in Seq(S) /\ Len(Append(s, x)) = Len(s) + 1
         /\ \A i \in 1..Len(s) : Append(s, x)[i] = s[i]
         /\ Append(s, x)[Len(s) + 1] = x
         /\ Append(s, x) # <<>>
OBVIOUS

\* The queue in the beginning.
LEMMA EmptyFacts == \A S : <<>> \in Seq(S) /\ Len(<<>>) = 0
OBVIOUS

\* A queue of jobs has a length.
LEMMA LenFacts ==
  ASSUME NEW S, NEW s \in Seq(S)
  PROVE  Len(s) \in Nat /\ (Len(s) = 0 <=> s = <<>>)
OBVIOUS

\* The bounds as single facts.
LEMMA Bounds ==
  /\ MaxBacklog \in Nat /\ MaxBacklog > 0 /\ Gap \in Nat /\ Gap > 0
  /\ MaxFrames \in Nat /\ MaxResets \in Nat /\ \A t \in Times : t \in Nat
<1>1. MaxBacklog \in Nat \ {0} /\ Gap \in Nat \ {0}
  BY DenseAssumption
<1>2. QED
  BY <1>1, DenseAssumption

-----------------------------------------------------------------------------
\* What the counts rest on.
CountInv == DenseTypeOK /\ CloseInv /\ PendingExact

\* No frame is on its way in the beginning.
LEMMA CountInit == DenseInit => CountInv
<1> SUFFICES ASSUME DenseInit PROVE CountInv
  OBVIOUS
<1>1. \A l \in Lanes : /\ queue[l] = <<>> /\ rows[l] = <<>> /\ Len(queue[l]) = 0
                         /\ work[l] = Idle /\ detector[l] = "open" /\ pending[l] = 0
  BY EmptyFacts DEF DenseInit
<1>2. DenseTypeOK
  <2>1. queue \in [Lanes -> Seq(Jobs)] /\ rows \in [Lanes -> Seq(Jobs)]
    BY EmptyFacts DEF DenseInit
  <2>2. Idle \in [phase : {"idle", "detect", "row"}, job : Jobs]
    BY DEF Idle, Jobs
  <2>3. work \in [Lanes -> [phase : {"idle", "detect", "row"}, job : Jobs]]
    BY <2>2 DEF DenseInit
  <2>4. /\ pending \in [Lanes -> Nat] /\ lastMs \in [Lanes -> Nat]
        /\ detector \in [Lanes -> {"open", "closed", "misused"}]
    BY DEF DenseInit
  <2>5. /\ epoch \in 0..MaxResets /\ shed \in Nat /\ base \in Nat
        /\ loop \in {"free", "reset"} /\ closed \in BOOLEAN
        /\ offered \in 0..MaxFrames /\ clock \in Nat
    <3>1. 0 \in 0..MaxResets /\ 0 \in 0..MaxFrames
      BY Bounds
    <3>2. QED
      BY <3>1 DEF DenseInit
  <2>6. QED
    BY <2>1, <2>3, <2>4, <2>5 DEF DenseTypeOK
<1>3. CloseInv
  <2> SUFFICES ASSUME NEW l \in Lanes
               PROVE  1..Len(queue[l]) = {} /\ ~closed /\ detector[l] = "open"
    BY DEF CloseInv
  <2>1. QED
    BY <1>1 DEF DenseInit
<1>4. PendingExact
  <2> SUFFICES ASSUME NEW l \in Lanes
               PROVE  /\ pending[l] = (IF closed /\ detector[l] = "open" THEN Len(queue[l]) - 1
                                       ELSE Len(queue[l]))
                                      + (IF work[l].phase = "detect" THEN 1 ELSE 0)
                      /\ pending[l] <= MaxBacklog
    BY DEF PendingExact
  <2>1. pending[l] = 0 /\ Len(queue[l]) = 0 /\ work[l].phase = "idle"
    BY <1>1 DEF Idle
  <2>2. ~(closed /\ detector[l] = "open") /\ ~(work[l].phase = "detect")
    BY <2>1 DEF DenseInit
  <2>3. (IF work[l].phase = "detect" THEN 1 ELSE 0) = 0
    BY <2>2
  <2>4. (IF closed /\ detector[l] = "open" THEN Len(queue[l]) - 1 ELSE Len(queue[l])) = 0
    BY <2>1, <2>2
  <2>5. QED
    BY <2>1, <2>3, <2>4, Bounds
<1>5. QED
  BY <1>2, <1>3, <1>4 DEF CountInv

\* A frame that is taken is counted in each lane that queues it.
LEMMA CountAddFrame ==
  ASSUME CountInv, NEW t \in Times, AddFrame(t)
  PROVE  CountInv'
<1> USE DEF CountInv
<1>1. Frame(epoch, t) \in Frames /\ Frame(epoch, t) \in Jobs /\ Frame(epoch, t) # CloseJob
  BY DEF DenseTypeOK, Frame, Frames, Jobs, CloseJob
<1>2. CASE Behind
  <2>1. UNCHANGED <<queue, work, pending, rows, lastMs, detector, epoch, base, loop, closed>>
    BY <1>2 DEF AddFrame
  <2>2. shed' \in Nat /\ offered' \in 0..MaxFrames /\ clock' \in Nat
    BY <1>2, DenseAssumption DEF AddFrame, DenseTypeOK
  <2>3. QED
    BY <2>1, <2>2 DEF DenseTypeOK, CloseInv, PendingExact
<1>3. CASE ~Behind
  <2>1. /\ ~closed
        /\ queue' = [l \in Lanes |-> Append(queue[l], Frame(epoch, t))]
        /\ pending' = [l \in Lanes |-> pending[l] + 1]
        /\ UNCHANGED <<work, rows, lastMs, detector, epoch, shed, base, loop, closed>>
    BY <1>3 DEF AddFrame, Queued
  <2>2. DenseTypeOK'
    <3>1. queue' \in [Lanes -> Seq(Jobs)]
      BY <1>1, <2>1, AppendFacts DEF DenseTypeOK
    <3>2. offered' \in 0..MaxFrames /\ clock' \in Nat
      BY DenseAssumption DEF AddFrame, DenseTypeOK
    <3>3. pending' \in [Lanes -> Nat]
      BY <2>1 DEF DenseTypeOK
    <3>4. QED
      BY <2>1, <3>1, <3>2, <3>3 DEF DenseTypeOK
  <2>3. ASSUME NEW l \in Lanes
        PROVE  /\ queue[l] \in Seq(Jobs) /\ queue'[l] = Append(queue[l], Frame(epoch, t))
               /\ Len(queue'[l]) = Len(queue[l]) + 1
               /\ \A i \in 1..Len(queue[l]) : queue'[l][i] = queue[l][i] /\ queue[l][i] # CloseJob
               /\ queue'[l][Len(queue[l]) + 1] = Frame(epoch, t)
    BY <1>1, <2>1, AppendFacts DEF DenseTypeOK, CloseInv
  <2>4. CloseInv'
    <3> SUFFICES ASSUME NEW l \in Lanes
                 PROVE  /\ \A i \in 1..Len(queue'[l]) : queue'[l][i] # CloseJob
                        /\ detector'[l] = "open"
      BY <2>1 DEF CloseInv
    <3>1. detector'[l] = "open"
      BY <2>1 DEF CloseInv, DenseTypeOK
    <3>2. QED
      BY <1>1, <2>3, <3>1
  <2>5. PendingExact'
    <3> SUFFICES ASSUME NEW l \in Lanes
                 PROVE  /\ pending'[l] = Len(queue'[l]) + (IF work[l].phase = "detect" THEN 1 ELSE 0)
                        /\ pending'[l] <= MaxBacklog
      BY <2>1 DEF PendingExact
    <3>1. pending[l] = Len(queue[l]) + (IF work[l].phase = "detect" THEN 1 ELSE 0)
      BY <2>1 DEF PendingExact
    <3>2. pending'[l] = pending[l] + 1 /\ pending[l] \in Nat /\ Len(queue[l]) \in Nat
      BY <2>1, <2>3 DEF DenseTypeOK
    <3>3. ~(pending[l] >= MaxBacklog)
      BY <1>3 DEF Behind
    <3>4. Len(queue'[l]) = Len(queue[l]) + 1
      BY <2>3
    <3>5. pending[l] + 1 <= MaxBacklog
      BY <3>2, <3>3, Bounds
    <3>6. CASE work[l].phase = "detect"
      BY <3>1, <3>2, <3>4, <3>5, <3>6
    <3>7. CASE work[l].phase # "detect"
      BY <3>1, <3>2, <3>4, <3>5, <3>7
    <3>8. QED
      BY <3>6, <3>7
  <2>6. QED
    BY <2>2, <2>4, <2>5
<1>4. QED
  BY <1>2, <1>3

\* The frame a worker takes is still on its way, and its timestamp the latest.
LEMMA CountDetect ==
  ASSUME CountInv, NEW l \in Lanes, Detect(l)
  PROVE  CountInv' /\ NextMs(l, NextJob(l).t) > lastMs[l]
<1> USE DEF CountInv
<1>1. /\ queue[l] \in Seq(Jobs) /\ queue[l] # <<>>
      /\ Tail(queue[l]) \in Seq(Jobs) /\ Len(Tail(queue[l])) = Len(queue[l]) - 1
      /\ NextJob(l) \in Jobs /\ NextJob(l) = queue[l][1] /\ 1 \in 1..Len(queue[l])
      /\ \A i \in 1..Len(Tail(queue[l])) : i + 1 \in 1..Len(queue[l]) /\ Tail(queue[l])[i] = queue[l][i + 1]
  BY TailFacts DEF Detect, DenseTypeOK, NextJob
<1>2. NextJob(l) \in Frames
  BY <1>1, JobsSplit DEF Detect
<1>3. detector[l] = "open"
  BY <1>1 DEF CloseInv, DenseTypeOK
<1>4. lastMs[l] \in Nat /\ NextMs(l, NextJob(l).t) \in Nat /\ NextMs(l, NextJob(l).t) > lastMs[l]
  <2>1. NextJob(l).t \in Nat
    BY <1>2, Bounds DEF Frames
  <2>2. lastMs[l] \in Nat /\ base \in Nat
    BY DEF DenseTypeOK
  <2>3. QED
    BY <2>1, <2>2 DEF NextMs
<1>5. /\ queue' = [queue EXCEPT ![l] = Tail(@)]
      /\ work' = [work EXCEPT ![l] = [phase |-> "detect", job |-> NextJob(l)]]
      /\ lastMs' = [lastMs EXCEPT ![l] = NextMs(l, NextJob(l).t)]
      /\ UNCHANGED <<pending, rows, epoch, shed, base, loop, closed, offered, clock>>
      /\ work[l].phase = "idle"
  BY DEF Detect
<1>6. detector' = detector
  BY <1>3 DEF Detect, DenseTypeOK
<1>7. DenseTypeOK'
  BY <1>1, <1>4, <1>5, <1>6 DEF DenseTypeOK
<1>8. CloseInv'
  <2> SUFFICES ASSUME NEW k \in Lanes
               PROVE  /\ \A i \in 1..Len(queue'[k]) :
                           queue'[k][i] = CloseJob =>
                             i = Len(queue'[k]) /\ closed /\ detector[k] = "open"
                      /\ closed /\ detector[k] = "open" =>
                           queue'[k] # <<>> /\ queue'[k][Len(queue'[k])] = CloseJob
                      /\ detector[k] = "closed" => closed /\ queue'[k] = <<>>
                      /\ detector[k] # "misused"
    BY <1>5, <1>6 DEF CloseInv
  <2>1. CASE k # l
    BY <1>5, <2>1 DEF CloseInv, DenseTypeOK
  <2>2. CASE k = l
    <3>1. queue'[l] = Tail(queue[l])
      BY <1>5 DEF DenseTypeOK
    <3>2. closed => Len(queue[l]) > 1
      <4>2. Len(queue[l]) # 1 => Len(queue[l]) > 1
        <5>1. Len(queue[l]) \in Nat /\ Len(queue[l]) # 0
          BY <1>1, LenFacts
        <5>2. \A n \in Nat : n # 0 /\ n # 1 => n > 1
          OBVIOUS
        <5>3. QED
          BY <5>1, <5>2, Zenon
      <4> SUFFICES ASSUME closed PROVE Len(queue[l]) # 1
        BY <4>2, Zenon
      <4>1. queue[l][Len(queue[l])] = CloseJob
        BY <1>3 DEF CloseInv
      <4>3. QED
        BY <1>1, <4>1 DEF Detect
    <3>3. ASSUME NEW i \in 1..Len(queue'[l]), queue'[l][i] = CloseJob
          PROVE  i = Len(queue'[l]) /\ closed
      <4>1. i + 1 = Len(queue[l]) /\ closed
        BY <1>1, <3>1, <3>3 DEF CloseInv
      <4>2. QED
        BY <1>1, <3>1, <4>1
    <3>4. closed => queue'[l] # <<>> /\ queue'[l][Len(queue'[l])] = CloseJob
      <4> SUFFICES ASSUME closed PROVE queue'[l] # <<>> /\ queue'[l][Len(queue'[l])] = CloseJob
        OBVIOUS
      <4>1. Len(queue'[l]) \in 1..Len(Tail(queue[l])) /\ Len(queue'[l]) + 1 = Len(queue[l])
        BY <1>1, <3>1, <3>2
      <4>2. queue[l][Len(queue[l])] = CloseJob
        BY <1>3 DEF CloseInv
      <4>3. QED
        <5>1. Tail(queue[l])[Len(queue'[l])] = queue[l][Len(queue[l])]
          BY <1>1, <4>1
        <5>2. Len(Tail(queue[l])) # 0
          <6>1. \A n : n \in 1..n => n # 0
            OBVIOUS
          <6>2. QED
            BY <4>1, <3>1, <6>1
        <5>3. QED
          BY <1>1, <3>1, <4>2, <5>1, <5>2, LenFacts
    <3>5. QED
      BY <1>3, <2>2, <3>3, <3>4
  <2>3. QED
    BY <2>1, <2>2
<1>9. PendingExact'
  <2> SUFFICES ASSUME NEW k \in Lanes
               PROVE  /\ pending[k] = (IF closed /\ detector[k] = "open" THEN Len(queue'[k]) - 1
                                       ELSE Len(queue'[k]))
                                      + (IF work'[k].phase = "detect" THEN 1 ELSE 0)
                      /\ pending[k] <= MaxBacklog
    BY <1>5, <1>6 DEF PendingExact
  <2>1. CASE k # l
    BY <1>5, <2>1 DEF PendingExact, DenseTypeOK
  <2>2. CASE k = l
    <3>1. queue'[l] = Tail(queue[l]) /\ work'[l].phase = "detect"
      BY <1>5 DEF DenseTypeOK
    <3>2. /\ pending[l] = (IF closed /\ detector[l] = "open" THEN Len(queue[l]) - 1 ELSE Len(queue[l])) + 0
          /\ pending[l] <= MaxBacklog
      BY <1>5 DEF PendingExact
    <3>3. Len(queue[l]) \in Nat
      BY <1>1, LenFacts
    <3>4. QED
      BY <1>1, <2>2, <3>1, <3>2, <3>3
  <2>3. QED
    BY <2>1, <2>2
<1>10. QED
  BY <1>4, <1>7, <1>8, <1>9

\* A detection that has ended, or failed, counts down once.
LEMMA CountDetected ==
  ASSUME CountInv, NEW l \in Lanes, NEW ok \in BOOLEAN, Detected(l, ok)
  PROVE  CountInv'
<1> USE DEF CountInv
<1>1. /\ pending' = [pending EXCEPT ![l] = @ - 1]
      /\ work' = [work EXCEPT ![l] = IF ok THEN [@ EXCEPT !.phase = "row"] ELSE Idle]
      /\ UNCHANGED <<queue, rows, lastMs, detector, epoch, shed, base, loop, closed, offered, clock>>
      /\ work[l].phase = "detect"
  BY DEF Detected, CountDown
<1>2. CloseInv'
  BY <1>1 DEF CloseInv
<1>3. work'[l].phase # "detect" /\ work' \in [Lanes -> [phase : {"idle", "detect", "row"}, job : Jobs]]
  BY <1>1 DEF DenseTypeOK, Idle, Jobs, CloseJob
<1>4. ASSUME NEW k \in Lanes
      PROVE  /\ Len(queue[k]) \in Nat
             /\ closed /\ detector[k] = "open" => Len(queue[k]) >= 1
  BY DEF DenseTypeOK, CloseInv
<1>5. PendingExact' /\ pending' \in [Lanes -> Nat]
  <2>1. ASSUME NEW k \in Lanes
        PROVE  /\ pending'[k] = (IF closed /\ detector[k] = "open" THEN Len(queue[k]) - 1
                                 ELSE Len(queue[k]))
                                + (IF work'[k].phase = "detect" THEN 1 ELSE 0)
               /\ pending'[k] <= MaxBacklog
               /\ pending'[k] \in Nat
    <3>1. CASE k # l
      BY <1>1, <3>1 DEF PendingExact, DenseTypeOK
    <3>2. CASE k = l
      <4>1. pending[l] \in Nat /\ pending'[l] = pending[l] - 1
        BY <1>1 DEF DenseTypeOK
      <4>2. QED
        <5>1. /\ pending[l] = (IF closed /\ detector[l] = "open" THEN Len(queue[l]) - 1 ELSE Len(queue[l])) + 1
              /\ pending[l] <= MaxBacklog
          BY <1>1 DEF PendingExact
        <5>2. QED
          BY <1>3, <1>4, <3>2, <4>1, <5>1, Bounds
    <3>3. QED
      BY <3>1, <3>2
  <2>2. QED
    BY <1>1, <2>1 DEF PendingExact, DenseTypeOK
<1>6. QED
  BY <1>1, <1>2, <1>3, <1>5 DEF DenseTypeOK

\* A row that is stored was counted down before.
LEMMA CountAppendRow ==
  ASSUME CountInv, NEW l \in Lanes, AppendRow(l)
  PROVE  CountInv'
<1> USE DEF CountInv
<1>1. /\ rows' = IF Current(work[l].job) THEN [rows EXCEPT ![l] = Append(@, work[l].job)] ELSE rows
      /\ work' = [work EXCEPT ![l] = Idle]
      /\ UNCHANGED <<queue, pending, lastMs, detector, epoch, shed, base, loop, closed, offered, clock>>
      /\ work[l].phase = "row"
  BY DEF AppendRow
<1>2. CloseInv'
  BY <1>1 DEF CloseInv
<1>3. work' \in [Lanes -> [phase : {"idle", "detect", "row"}, job : Jobs]]
  BY <1>1 DEF DenseTypeOK, Idle, Jobs, CloseJob
<1>4. rows' \in [Lanes -> Seq(Jobs)]
  BY <1>1, AppendFacts DEF DenseTypeOK
<1>5. \A k \in Lanes : work'[k].phase = "detect" <=> work[k].phase = "detect"
  BY <1>1 DEF DenseTypeOK, Idle
<1>6. PendingExact'
  BY <1>1, <1>5 DEF PendingExact
<1>7. QED
  BY <1>1, <1>2, <1>3, <1>4, <1>6 DEF DenseTypeOK

\* The last job closes the detector, and its lane takes no other.
LEMMA CountCloseDetector ==
  ASSUME CountInv, NEW l \in Lanes, CloseDetector(l)
  PROVE  CountInv'
<1> USE DEF CountInv
<1>1. /\ queue' = [queue EXCEPT ![l] = Tail(@)]
      /\ detector' = [detector EXCEPT ![l] = "closed"]
      /\ UNCHANGED <<work, pending, rows, lastMs, epoch, shed, base, loop, closed, offered, clock>>
      /\ work[l].phase = "idle"
  BY DEF CloseDetector
<1>2. /\ queue[l] \in Seq(Jobs) /\ queue[l] # <<>> /\ queue[l][1] = CloseJob /\ 1 \in 1..Len(queue[l])
      /\ Tail(queue[l]) \in Seq(Jobs) /\ Len(Tail(queue[l])) = Len(queue[l]) - 1
  BY TailFacts DEF CloseDetector, DenseTypeOK, NextJob
<1>3. Len(queue[l]) = 1 /\ closed /\ detector[l] = "open"
  BY <1>2 DEF CloseInv
<1>4. queue'[l] = Tail(queue[l]) /\ Tail(queue[l]) = <<>> /\ Len(queue'[l]) = 0 /\ detector'[l] = "closed"
  <2>1. queue'[l] = Tail(queue[l]) /\ detector'[l] = "closed"
    BY <1>1 DEF DenseTypeOK
  <2>2. Len(Tail(queue[l])) = 0
    BY <1>2, <1>3
  <2>3. QED
    BY <1>2, <2>1, <2>2, LenFacts
<1>5. \A k \in Lanes : k # l => queue'[k] = queue[k] /\ detector'[k] = detector[k]
  BY <1>1 DEF DenseTypeOK
<1>6. DenseTypeOK'
  BY <1>1, <1>2 DEF DenseTypeOK
<1>7. CloseInv'
  <2> SUFFICES ASSUME NEW k \in Lanes
               PROVE  /\ \A i \in 1..Len(queue'[k]) :
                           queue'[k][i] = CloseJob =>
                             i = Len(queue'[k]) /\ closed /\ detector'[k] = "open"
                      /\ closed /\ detector'[k] = "open" =>
                           queue'[k] # <<>> /\ queue'[k][Len(queue'[k])] = CloseJob
                      /\ detector'[k] = "closed" => closed /\ queue'[k] = <<>>
                      /\ detector'[k] # "misused"
    BY <1>1 DEF CloseInv
  <2>1. CASE k # l
    BY <1>5, <2>1 DEF CloseInv
  <2>2. CASE k = l
    <3>1. queue'[k] = <<>> /\ Len(queue'[k]) = 0 /\ detector'[k] = "closed"
      BY <1>4, <2>2
    <3>2. QED
      BY <1>3, <3>1
  <2>3. QED
    BY <2>1, <2>2
<1>8. PendingExact'
  <2> SUFFICES ASSUME NEW k \in Lanes
               PROVE  /\ pending[k] = (IF closed /\ detector'[k] = "open" THEN Len(queue'[k]) - 1
                                       ELSE Len(queue'[k]))
                                      + (IF work[k].phase = "detect" THEN 1 ELSE 0)
                      /\ pending[k] <= MaxBacklog
    BY <1>1 DEF PendingExact
  <2>1. CASE k # l
    BY <1>5, <2>1 DEF PendingExact
  <2>2. CASE k = l
    <3>1. queue'[k] = <<>> /\ Len(queue'[k]) = 0 /\ detector'[k] = "closed"
      BY <1>4, <2>2
    <3>2. pending[k] = (1 - 1) + 0 /\ pending[k] <= MaxBacklog /\ work[k].phase = "idle"
      BY <1>1, <1>3, <2>2 DEF PendingExact
    <3>3. QED
      BY <3>1, <3>2
  <2>3. QED
    BY <2>1, <2>2
<1>9. QED
  BY <1>6, <1>7, <1>8

\* A reset leaves the counts alone: the frames it forgets are still queued.
LEMMA CountReset ==
  ASSUME CountInv, ResetRows \/ ResetBase
  PROVE  CountInv'
<1> USE DEF CountInv
<1>1. UNCHANGED <<queue, work, pending, lastMs, detector, closed, offered>>
  BY DEF ResetRows, ResetBase, threads
<1>2. CloseInv' /\ PendingExact'
  BY <1>1 DEF CloseInv, PendingExact
<1>3. CASE ResetRows
  BY <1>1, <1>2, <1>3, DenseAssumption DEF ResetRows, DenseTypeOK
<1>4. CASE ResetBase
  <2>1. PICK l \in Lanes : base' = lastMs[l] + Gap
    BY <1>4 DEF ResetBase
  <2>2. base' \in Nat
    BY <2>1, DenseAssumption DEF DenseTypeOK
  <2>3. QED
    BY <1>1, <1>2, <1>4, <2>2 DEF ResetBase, DenseTypeOK
<1>5. QED
  BY <1>3, <1>4

\* The closing job is queued once, behind every frame.
LEMMA CountClose ==
  ASSUME CountInv, Close
  PROVE  CountInv'
<1> USE DEF CountInv
<1>1. /\ ~closed /\ closed' = TRUE
      /\ queue' = [l \in Lanes |-> Append(queue[l], CloseJob)]
      /\ UNCHANGED <<work, pending, rows, lastMs, detector, epoch, shed, base, loop, offered, clock>>
  BY DEF Close
<1>2. ASSUME NEW l \in Lanes
      PROVE  /\ queue[l] \in Seq(Jobs) /\ queue'[l] \in Seq(Jobs)
             /\ Len(queue'[l]) = Len(queue[l]) + 1 /\ queue'[l] # <<>>
             /\ \A i \in 1..Len(queue[l]) : queue'[l][i] = queue[l][i] /\ queue[l][i] # CloseJob
             /\ queue'[l][Len(queue[l]) + 1] = CloseJob
             /\ detector[l] = "open"
  <2>1. CloseJob \in Jobs
    BY DEF Jobs
  <2>2. QED
    BY <1>1, <2>1, AppendFacts DEF DenseTypeOK, CloseInv
<1>3. DenseTypeOK'
  BY <1>1, <1>2 DEF DenseTypeOK
<1>4. CloseInv'
  BY <1>1, <1>2 DEF CloseInv
<1>5. PendingExact'
  <2> SUFFICES ASSUME NEW l \in Lanes
               PROVE  /\ pending[l] = (Len(queue'[l]) - 1) + (IF work[l].phase = "detect" THEN 1 ELSE 0)
                      /\ pending[l] <= MaxBacklog
    BY <1>1, <1>2 DEF PendingExact
  <2>1. /\ pending[l] = Len(queue[l]) + (IF work[l].phase = "detect" THEN 1 ELSE 0)
        /\ pending[l] <= MaxBacklog
    BY <1>1 DEF PendingExact
  <2>2. Len(queue'[l]) - 1 = Len(queue[l])
    BY <1>2, LenFacts
  <2>3. QED
    BY <2>1, <2>2
<1>6. QED
  BY <1>3, <1>4, <1>5

\* Every action keeps the counts exact.
LEMMA CountStep == CountInv /\ [DenseNext]_dvars => CountInv'
<1> SUFFICES ASSUME CountInv, [DenseNext]_dvars PROVE CountInv'
  OBVIOUS
<1>1. CASE \E t \in Times : AddFrame(t)
  BY <1>1, CountAddFrame
<1>2. CASE \E l \in Lanes : Lane(l)
  BY <1>2, CountDetect, CountDetected, CountAppendRow, CountCloseDetector DEF Lane
<1>3. CASE ResetRows \/ ResetBase
  BY <1>3, CountReset
<1>4. CASE Close
  BY <1>4, CountClose
<1>5. CASE UNCHANGED dvars
  BY <1>5 DEF CountInv, DenseTypeOK, CloseInv, PendingExact, dvars, threads
<1>6. QED
  BY <1>1, <1>2, <1>3, <1>4, <1>5 DEF DenseNext

\* So they always are.
LEMMA CountCorrect == DenseSpec => []CountInv
<1>1. CountInv /\ UNCHANGED dvars => CountInv'
  BY CountStep
<1>2. QED
  BY CountInit, CountStep, PTL DEF DenseSpec

-----------------------------------------------------------------------------
\* Types of the dense lanes: the counts never fall below zero.
THEOREM DenseTypeCorrect == DenseSpec => []DenseTypeOK
<1>1. CountInv => DenseTypeOK
  BY DEF CountInv
<1>2. QED
  BY <1>1, CountCorrect, PTL

\* The back-pressure count of a lane is exact, in every order of detections,
\* failures, resets and the close.
THEOREM PendingCorrect == DenseSpec => []PendingExact
<1>1. CountInv => PendingExact
  BY DEF CountInv
<1>2. QED
  BY <1>1, CountCorrect, PTL

\* No detector is used after its close.
THEOREM DetectorsCorrect == DenseSpec => []DetectorsOpen
<1>1. CountInv => DetectorsOpen
  BY DEF CountInv, CloseInv, DetectorsOpen
<1>2. QED
  BY <1>1, CountCorrect, PTL

\* The timestamps a detector is given grow, whatever epoch a frame is of.
THEOREM MsCorrect == DenseSpec => MsGrows
<1>1. ASSUME CountInv, [DenseNext]_dvars
      PROVE  [\A l \in Lanes : work[l].phase = "idle" /\ work'[l].phase = "detect" =>
                lastMs'[l] > lastMs[l]]_dvars
  <2> SUFFICES ASSUME DenseNext, NEW l \in Lanes, work[l].phase = "idle", work'[l].phase = "detect"
               PROVE  lastMs'[l] > lastMs[l]
    BY <1>1
  <2>1. ASSUME NEW k \in Lanes, Lane(k)
        PROVE  k = l /\ Detect(l)
    <3>1. (work' = [work EXCEPT ![k] = work'[k]] /\ work'[k] # work[k]) \/ work' = work
      BY <1>1, <2>1 DEF Lane, Detect, Detected, AppendRow, CloseDetector, CountInv, DenseTypeOK, Idle
    <3>2. k = l
      BY <1>1, <3>1 DEF CountInv, DenseTypeOK
    <3>3. QED
      BY <1>1, <2>1, <3>2 DEF Lane, Detected, AppendRow, CloseDetector, CountInv, DenseTypeOK
  <2>2. Detect(l)
    <3>1. CASE \E k \in Lanes : Lane(k)
      BY <2>1, <3>1
    <3>2. CASE ~ \E k \in Lanes : Lane(k)
      <4>1. work' = work
        BY <3>2 DEF DenseNext, AddFrame, ResetRows, ResetBase, Close, threads
      <4>2. QED
        BY <4>1
    <3>3. QED
      BY <3>1, <3>2
  <2>3. NextMs(l, NextJob(l).t) > lastMs[l]
    BY <1>1, <2>2, CountDetect
  <2>4. lastMs'[l] = NextMs(l, NextJob(l).t)
    BY <1>1, <2>2 DEF Detect, CountInv, DenseTypeOK
  <2>5. QED
    BY <2>3, <2>4
<1>2. QED
  BY <1>1, CountCorrect, PTL DEF DenseSpec, MsGrows

-----------------------------------------------------------------------------
\* What the rows rest on: the frames of the current turn lie in the order they
\* came, first the rows, then the one in the detector, then the queue; frames
\* of earlier turns may lie in between, but none is ahead of its turn.
FramesOK(l) ==
  /\ \A i \in 1..Len(queue[l]) :
       /\ queue[l][i].epoch <= epoch
       /\ queue[l][i].epoch = epoch => queue[l][i].t <= clock
  /\ \A i, j \in 1..Len(queue[l]) :
       i < j /\ queue[l][i].epoch = epoch /\ queue[l][j].epoch = epoch =>
         queue[l][i].t <= queue[l][j].t

JobOK(l) ==
  /\ work[l].job.epoch <= epoch
  /\ work[l].job.epoch = epoch /\ work[l].phase # "idle" =>
       /\ work[l].job.t <= clock
       /\ \A i \in 1..Len(queue[l]) : queue[l][i].epoch = epoch => work[l].job.t <= queue[l][i].t

RowOK(l, row) ==
  /\ row.epoch = epoch /\ row.t <= clock
  /\ \A j \in 1..Len(queue[l]) : queue[l][j].epoch = epoch => row.t <= queue[l][j].t
  /\ work[l].job.epoch = epoch /\ work[l].phase # "idle" => row.t <= work[l].job.t

OrderInv ==
  \A l \in Lanes :
    /\ FramesOK(l) /\ JobOK(l)
    /\ \A i \in 1..Len(rows[l]) : RowOK(l, rows[l][i])
    /\ \A i, j \in 1..Len(rows[l]) : i < j => rows[l][i].t <= rows[l][j].t

\* The numbers of a job.
LEMMA JobFacts == \A j \in Jobs : j.epoch \in Int /\ j.t \in Int /\ j.epoch <= MaxResets
BY Bounds DEF Jobs, CloseJob

\* No rows in the beginning.
LEMMA OrderInit == DenseInit => OrderInv
<1> SUFFICES ASSUME DenseInit, NEW l \in Lanes
             PROVE  /\ FramesOK(l) /\ JobOK(l)
                    /\ 1..Len(rows[l]) = {}
  BY DEF OrderInv
<1>1. /\ 1..Len(queue[l]) = {} /\ 1..Len(rows[l]) = {}
      /\ work[l].job.epoch = -1 /\ work[l].phase = "idle" /\ epoch = 0
  <2>1. queue[l] = <<>> /\ rows[l] = <<>> /\ work[l] = Idle /\ epoch = 0
    BY DEF DenseInit
  <2>2. QED
    BY <2>1, EmptyFacts DEF Idle, CloseJob
<1>2. FramesOK(l)
  BY <1>1 DEF FramesOK
<1>3. JobOK(l)
  BY <1>1 DEF JobOK
<1>4. QED
  BY <1>1, <1>2, <1>3

\* A frame is queued behind those of the same turn that are earlier.
LEMMA OrderAddFrame ==
  ASSUME CountInv, OrderInv, NEW t \in Times, AddFrame(t)
  PROVE  OrderInv'
<1> DEFINE f == Frame(epoch, t)
<1>1. /\ epoch' = epoch /\ clock' = t /\ clock <= t
      /\ work' = work /\ rows' = rows
      /\ t \in Int /\ clock \in Int /\ epoch \in Int
  BY Bounds DEF AddFrame, CountInv, DenseTypeOK
<1>2. f \in Jobs /\ f.epoch = epoch /\ f.t = t
  BY DEF CountInv, DenseTypeOK, Frame, Jobs
<1> SUFFICES ASSUME NEW l \in Lanes
             PROVE  /\ FramesOK(l)' /\ JobOK(l)'
                    /\ \A i \in 1..Len(rows[l]) : RowOK(l, rows[l][i])'
                    /\ \A i, j \in 1..Len(rows[l]) : i < j => rows[l][i].t <= rows[l][j].t
  BY <1>1 DEF OrderInv
<1>3. /\ queue[l] \in Seq(Jobs) /\ rows[l] \in Seq(Jobs) /\ work[l].job \in Jobs
      /\ \A i \in 1..Len(queue[l]) : queue[l][i] \in Jobs
      /\ \A i \in 1..Len(rows[l]) : rows[l][i] \in Jobs
  BY DEF CountInv, DenseTypeOK
<1>4. \/ queue'[l] = queue[l]
      \/ queue'[l] = Append(queue[l], f)
  BY DEF AddFrame, Queued
<1>5. ASSUME NEW i \in 1..Len(queue'[l])
      PROVE  \/ i \in 1..Len(queue[l]) /\ queue'[l][i] = queue[l][i]
             \/ i = Len(queue[l]) + 1 /\ queue'[l][i] = f
  BY <1>2, <1>3, <1>4, AppendFacts
<1>6. /\ FramesOK(l) /\ JobOK(l)
      /\ \A i \in 1..Len(rows[l]) : RowOK(l, rows[l][i])
      /\ \A i, j \in 1..Len(rows[l]) : i < j => rows[l][i].t <= rows[l][j].t
  BY DEF OrderInv
<1>7. FramesOK(l)'
  <2>1. ASSUME NEW i \in 1..Len(queue'[l])
        PROVE  queue'[l][i].epoch <= epoch /\ (queue'[l][i].epoch = epoch => queue'[l][i].t <= t)
    BY <1>1, <1>2, <1>3, <1>5, <1>6, JobFacts DEF FramesOK
  <2>2. ASSUME NEW i \in 1..Len(queue'[l]), NEW j \in 1..Len(queue'[l]), i < j,
               queue'[l][i].epoch = epoch, queue'[l][j].epoch = epoch
        PROVE  queue'[l][i].t <= queue'[l][j].t
    <3>1. CASE j \in 1..Len(queue[l]) /\ queue'[l][j] = queue[l][j]
      <4>1. i \in 1..Len(queue[l]) /\ queue'[l][i] = queue[l][i]
        BY <1>3, <1>5, <2>2, <3>1, LenFacts
      <4>2. QED
        BY <1>6, <2>2, <3>1, <4>1 DEF FramesOK
    <3>2. CASE queue'[l][j] = f
      BY <1>2, <2>1, <2>2, <3>2
    <3>3. QED
      BY <1>5, <3>1, <3>2
  <2>3. QED
    BY <1>1, <2>1, <2>2 DEF FramesOK
<1>8. JobOK(l)'
  <2>1. work[l].job.epoch = epoch /\ work[l].phase # "idle" => work[l].job.t <= t
    BY <1>1, <1>3, <1>6, JobFacts DEF JobOK
  <2>2. QED
    BY <1>1, <1>2, <1>5, <1>6, <2>1 DEF JobOK
<1>9. ASSUME NEW i \in 1..Len(rows[l]) PROVE RowOK(l, rows[l][i])'
  <2>1. rows[l][i].t <= t
    BY <1>1, <1>3, <1>6, JobFacts DEF RowOK
  <2>2. QED
    BY <1>1, <1>2, <1>5, <1>6, <2>1 DEF RowOK
<1>10. QED
  BY <1>6, <1>7, <1>8, <1>9

\* What is left in a queue keeps its order.
LEMMA OrderTail ==
  ASSUME CountInv, OrderInv, NEW l \in Lanes, queue[l] # <<>>, queue'[l] = Tail(queue[l]),
         epoch' = epoch, clock' = clock, rows'[l] = rows[l],
         \/ work'[l] = work[l]
         \/ work'[l].job = Head(queue[l]) /\ work'[l].phase = "detect"
  PROVE  /\ FramesOK(l)' /\ JobOK(l)'
         /\ \A i \in 1..Len(rows[l]) : RowOK(l, rows[l][i])'
<1>1. /\ queue[l] \in Seq(Jobs) /\ Head(queue[l]) = queue[l][1] /\ 1 \in 1..Len(queue[l])
      /\ \A i \in 1..Len(queue'[l]) : /\ i + 1 \in 1..Len(queue[l]) /\ 1 < i + 1
                                      /\ queue'[l][i] = queue[l][i + 1]
  BY TailFacts DEF CountInv, DenseTypeOK
<1>2. /\ FramesOK(l) /\ JobOK(l)
      /\ \A i \in 1..Len(rows[l]) : RowOK(l, rows[l][i])
  BY DEF OrderInv
<1>3. FramesOK(l)'
  <2>1. \A i, j \in 1..Len(queue'[l]) : i < j => i + 1 < j + 1
    OBVIOUS
  <2>2. QED
    BY <1>1, <1>2, <2>1 DEF FramesOK
<1>4. JobOK(l)'
  BY <1>1, <1>2 DEF FramesOK, JobOK
<1>5. ASSUME NEW i \in 1..Len(rows[l]) PROVE RowOK(l, rows[l][i])'
  BY <1>1, <1>2 DEF RowOK
<1>6. QED
  BY <1>3, <1>4, <1>5

\* A row of this turn is later than those stored.
LEMMA OrderAppendRow ==
  ASSUME CountInv, OrderInv, NEW l \in Lanes, AppendRow(l)
  PROVE  /\ FramesOK(l)' /\ JobOK(l)'
         /\ \A i \in 1..Len(rows'[l]) : RowOK(l, rows[l][i])'
         /\ \A i, j \in 1..Len(rows'[l]) : i < j => rows'[l][i].t <= rows'[l][j].t
<1> DEFINE job == work[l].job
<1>1. /\ queue' = queue /\ epoch' = epoch /\ clock' = clock
      /\ work'[l] = Idle /\ work[l].phase = "row"
      /\ rows'[l] = IF job.epoch = epoch THEN Append(rows[l], job) ELSE rows[l]
      /\ rows[l] \in Seq(Jobs) /\ job \in Jobs /\ epoch \in 0..MaxResets
  BY DEF AppendRow, Current, CountInv, DenseTypeOK
<1>2. ASSUME NEW i \in 1..Len(rows'[l])
      PROVE  \/ i \in 1..Len(rows[l]) /\ rows'[l][i] = rows[l][i]
             \/ i = Len(rows[l]) + 1 /\ rows'[l][i] = job /\ job.epoch = epoch
  BY <1>1, AppendFacts
<1>3. /\ FramesOK(l) /\ JobOK(l)
      /\ \A i \in 1..Len(rows[l]) : RowOK(l, rows[l][i])
      /\ \A i, j \in 1..Len(rows[l]) : i < j => rows[l][i].t <= rows[l][j].t
  BY DEF OrderInv
<1>4. Idle.phase = "idle" /\ Idle.job.epoch = -1 /\ -1 <= epoch
  BY <1>1, Bounds DEF Idle, CloseJob
<1>5. FramesOK(l)' /\ JobOK(l)'
  BY <1>1, <1>3, <1>4 DEF FramesOK, JobOK
<1>6. ASSUME NEW i \in 1..Len(rows'[l]) PROVE RowOK(l, rows[l][i])'
  BY <1>1, <1>2, <1>3, <1>4 DEF RowOK, JobOK
<1>7. ASSUME NEW i \in 1..Len(rows'[l]), NEW j \in 1..Len(rows'[l]), i < j
      PROVE  rows'[l][i].t <= rows'[l][j].t
  <2>1. i \in 1..Len(rows[l]) /\ rows'[l][i] = rows[l][i]
    BY <1>1, <1>2, <1>7, LenFacts
  <2>2. CASE j \in 1..Len(rows[l]) /\ rows'[l][j] = rows[l][j]
    BY <1>3, <1>7, <2>1, <2>2
  <2>3. CASE rows'[l][j] = job /\ job.epoch = epoch
    BY <1>1, <1>3, <2>1, <2>3 DEF RowOK
  <2>4. QED
    BY <1>2, <2>2, <2>3
<1>8. QED
  BY <1>5, <1>6, <1>7

\* After a reset there are no rows, and what is queued is of a turn that is over.
LEMMA OrderReset ==
  ASSUME CountInv, OrderInv, ResetRows
  PROVE  OrderInv'
<1>1. /\ queue' = queue /\ work' = work /\ epoch' = epoch + 1
      /\ rows' = [l \in Lanes |-> <<>>] /\ epoch \in Int
  BY Bounds DEF ResetRows, threads, CountInv, DenseTypeOK
<1> SUFFICES ASSUME NEW l \in Lanes
             PROVE  FramesOK(l)' /\ JobOK(l)' /\ 1..Len(rows'[l]) = {}
  BY DEF OrderInv
<1>2. 1..Len(rows'[l]) = {}
  BY <1>1, EmptyFacts
<1>3. FramesOK(l) /\ JobOK(l)
  BY DEF OrderInv
<1>4. ASSUME NEW i \in 1..Len(queue[l])
      PROVE  queue[l][i].epoch <= epoch + 1 /\ queue[l][i].epoch # epoch + 1
  <2>1. queue[l][i] \in Jobs
    BY DEF CountInv, DenseTypeOK
  <2>2. QED
    BY <1>1, <1>3, <2>1, JobFacts DEF FramesOK
<1>5. work[l].job.epoch <= epoch + 1 /\ work[l].job.epoch # epoch + 1
  <2>1. work[l].job \in Jobs
    BY DEF CountInv, DenseTypeOK
  <2>2. QED
    BY <1>1, <1>3, <2>1, JobFacts DEF JobOK
<1>6. QED
  BY <1>1, <1>2, <1>4, <1>5 DEF FramesOK, JobOK

\* The closing job is of no turn.
LEMMA OrderClose ==
  ASSUME CountInv, OrderInv, Close
  PROVE  OrderInv'
<1>1. /\ epoch' = epoch /\ clock' = clock /\ work' = work /\ rows' = rows /\ epoch \in 0..MaxResets
  BY DEF Close, CountInv, DenseTypeOK
<1> SUFFICES ASSUME NEW l \in Lanes
             PROVE  /\ FramesOK(l)' /\ JobOK(l)'
                    /\ \A i \in 1..Len(rows[l]) : RowOK(l, rows[l][i])'
                    /\ \A i, j \in 1..Len(rows[l]) : i < j => rows[l][i].t <= rows[l][j].t
  BY <1>1 DEF OrderInv
<1>2. /\ FramesOK(l) /\ JobOK(l)
      /\ \A i \in 1..Len(rows[l]) : RowOK(l, rows[l][i])
      /\ \A i, j \in 1..Len(rows[l]) : i < j => rows[l][i].t <= rows[l][j].t
  BY DEF OrderInv
<1>3. ASSUME NEW i \in 1..Len(queue'[l])
      PROVE  \/ i \in 1..Len(queue[l]) /\ queue'[l][i] = queue[l][i]
             \/ queue'[l][i].epoch = -1
  <2>1. queue[l] \in Seq(Jobs) /\ CloseJob \in Jobs /\ queue'[l] = Append(queue[l], CloseJob)
    BY DEF Close, CountInv, DenseTypeOK, Jobs
  <2>2. QED
    BY <2>1, AppendFacts DEF CloseJob
<1>4. -1 <= epoch /\ -1 # epoch
  BY <1>1, Bounds
<1>5. FramesOK(l)'
  <2>1. ASSUME NEW i \in 1..Len(queue'[l])
        PROVE  /\ queue'[l][i].epoch <= epoch
               /\ queue'[l][i].epoch = epoch =>
                    /\ i \in 1..Len(queue[l]) /\ queue'[l][i] = queue[l][i]
                    /\ queue'[l][i].t <= clock
    <3>1. CASE i \in 1..Len(queue[l]) /\ queue'[l][i] = queue[l][i]
      BY <1>2, <3>1 DEF FramesOK
    <3>2. CASE queue'[l][i].epoch = -1
      BY <1>4, <3>2
    <3>3. QED
      BY <1>3, <2>1, <3>1, <3>2
  <2>2. ASSUME NEW i \in 1..Len(queue'[l]), NEW j \in 1..Len(queue'[l]),
               i < j, queue'[l][i].epoch = epoch, queue'[l][j].epoch = epoch
        PROVE  queue'[l][i].t <= queue'[l][j].t
    <3>1. /\ i \in 1..Len(queue[l]) /\ queue'[l][i] = queue[l][i]
          /\ j \in 1..Len(queue[l]) /\ queue'[l][j] = queue[l][j]
      BY <2>1, <2>2
    <3>2. QED
      BY <1>2, <2>2, <3>1 DEF FramesOK
  <2>3. QED
    BY <1>1, <2>1, <2>2 DEF FramesOK
<1>6. JobOK(l)'
  BY <1>1, <1>2, <1>3, <1>4 DEF JobOK
<1>7. ASSUME NEW i \in 1..Len(rows[l]) PROVE RowOK(l, rows[l][i])'
  BY <1>1, <1>2, <1>3, <1>4 DEF RowOK
<1>8. QED
  BY <1>2, <1>5, <1>6, <1>7

\* Every action keeps the order of the rows.
LEMMA OrderStep == CountInv /\ OrderInv /\ [DenseNext]_dvars => OrderInv'
<1> SUFFICES ASSUME CountInv, OrderInv, [DenseNext]_dvars PROVE OrderInv'
  OBVIOUS
<1>1. CASE \E t \in Times : AddFrame(t)
  BY <1>1, OrderAddFrame
<1>2. ASSUME NEW l \in Lanes, Lane(l) PROVE OrderInv'
  <2>1. /\ epoch' = epoch /\ clock' = clock
        /\ \A k \in Lanes \ {l} : queue'[k] = queue[k] /\ work'[k] = work[k] /\ rows'[k] = rows[k]
    BY <1>2 DEF Lane, Detect, Detected, AppendRow, CloseDetector, CountInv, DenseTypeOK
  <2>2. /\ FramesOK(l)' /\ JobOK(l)'
        /\ \A i \in 1..Len(rows'[l]) : RowOK(l, rows[l][i])'
        /\ \A i, j \in 1..Len(rows'[l]) : i < j => rows'[l][i].t <= rows'[l][j].t
    <3>1. CASE Detect(l)
      <4>1. /\ queue[l] # <<>> /\ queue'[l] = Tail(queue[l]) /\ rows'[l] = rows[l]
            /\ work'[l].job = Head(queue[l]) /\ work'[l].phase = "detect"
        BY <3>1 DEF Detect, NextJob, CountInv, DenseTypeOK
      <4>2. QED
        BY <2>1, <4>1, OrderTail DEF OrderInv
    <3>2. CASE CloseDetector(l)
      <4>1. /\ queue[l] # <<>> /\ queue'[l] = Tail(queue[l]) /\ rows'[l] = rows[l]
            /\ work'[l] = work[l]
        BY <3>2 DEF CloseDetector, CountInv, DenseTypeOK
      <4>2. QED
        BY <2>1, <4>1, OrderTail DEF OrderInv
    <3>3. CASE \E ok \in BOOLEAN : Detected(l, ok)
      <4>1. /\ queue'[l] = queue[l] /\ rows'[l] = rows[l] /\ work[l].phase = "detect"
            /\ \/ work'[l].job = work[l].job /\ work'[l].phase = "row"
               \/ work'[l] = Idle
        BY <3>3 DEF Detected, CountInv, DenseTypeOK
      <4>2. Idle.phase = "idle" /\ Idle.job.epoch = -1 /\ -1 <= epoch
        BY Bounds DEF Idle, CloseJob, CountInv, DenseTypeOK
      <4>3. QED
        BY <2>1, <4>1, <4>2 DEF OrderInv, FramesOK, JobOK, RowOK
    <3>4. CASE AppendRow(l)
      BY <3>4, OrderAppendRow
    <3>5. QED
      BY <1>2, <3>1, <3>2, <3>3, <3>4 DEF Lane
  <2>3. ASSUME NEW k \in Lanes, k # l
        PROVE  /\ FramesOK(k)' /\ JobOK(k)'
               /\ \A i \in 1..Len(rows'[k]) : RowOK(k, rows[k][i])'
               /\ \A i, j \in 1..Len(rows'[k]) : i < j => rows'[k][i].t <= rows'[k][j].t
    BY <2>1, <2>3 DEF OrderInv, FramesOK, JobOK, RowOK
  <2>4. QED
    BY <2>2, <2>3 DEF OrderInv
<1>3. CASE ResetRows
  BY <1>3, OrderReset
<1>4. CASE ResetBase
  BY <1>4 DEF ResetBase, threads, OrderInv, FramesOK, JobOK, RowOK
<1>5. CASE Close
  BY <1>5, OrderClose
<1>6. CASE UNCHANGED dvars
  BY <1>6 DEF dvars, threads, OrderInv, FramesOK, JobOK, RowOK
<1>7. QED
  BY <1>1, <1>2, <1>3, <1>4, <1>5, <1>6 DEF DenseNext

\* So they are always in order.
LEMMA OrderCorrect == DenseSpec => []OrderInv
<1>1. QED
  BY OrderInit, OrderStep, CountCorrect, PTL DEF DenseSpec

\* No row outlives the turn its frame belongs to, though detections are in
\* flight when reset comes.
THEOREM RowsCorrect == DenseSpec => []RowsOfThisTurn
<1>1. OrderInv => RowsOfThisTurn
  BY DEF OrderInv, RowOK, RowsOfThisTurn
<1>2. QED
  BY <1>1, OrderCorrect, PTL

\* The rows of a lane lie in the order of their frames.
THEOREM RowsOrdered == DenseSpec => []RowsInOrder
<1>1. OrderInv => RowsInOrder
  BY DEF OrderInv, RowsInOrder
<1>2. QED
  BY <1>1, OrderCorrect, PTL
=============================================================================
