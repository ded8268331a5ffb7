--------------------------- MODULE Measures_proofs ---------------------------
(***************************************************************************)
(* Proofs about the pure functions: what the consumers of the tracks keep  *)
(* of them, what the model is shown of a sentence, what the environment    *)
(* makes of the service, what is read of an answer, what is handed on of a *)
(* turn, and what its pauses add up to, for inputs of every length.        *)
(***************************************************************************)
EXTENDS Measures, FiniteSetTheorems, SequenceTheorems, NaturalsInduction, WellFoundedInduction, TLAPS

(***************************************************************************)
(* Recursion over a sequence.                                              *)
(***************************************************************************)

\* A nonempty set of naturals has a least element.
LEMMA LeastNatural ==
  ASSUME NEW S \in SUBSET Nat, S # {}
  PROVE  \E m \in S : \A k \in S : m <= k
<1>1. PICK R : /\ IsWellFoundedOn(R, Nat)
               /\ \A k, m \in Nat : k < m => <<k, m>> \in R
  <2>1. IsWellFoundedOn(OpToRel(<, Nat), Nat)
    BY NatLessThanWellFounded
  <2>2. \A k, m \in Nat : k < m => <<k, m>> \in OpToRel(<, Nat)
    BY DEF OpToRel
  <2>3. QED
    BY <2>1, <2>2, Zenon
<1>2. S \subseteq Nat /\ IsWellFoundedOn(R, Nat)
  BY <1>1
<1>3. PICK m \in S : \A k \in S : ~ (<<k, m>> \in R)
  BY <1>2, WFMin
<1>4. \A k \in S : k \in Nat /\ m \in Nat /\ ~ (k < m)
  BY <1>1, <1>2, <1>3
<1>5. QED
  BY <1>3, <1>4

\* What holds of a and passes from each number to the next holds up to b.
LEMMA UpTo ==
  ASSUME NEW S, NEW a \in Nat, NEW b \in Nat, a \in S,
         \A n \in Nat : a <= n /\ n < b /\ n \in S => n + 1 \in S
  PROVE  \A n \in a..b : n \in S
<1> DEFINE Bad == {n \in a..b : n \notin S}
<1>1. SUFFICES ASSUME Bad # {} PROVE FALSE
  OBVIOUS
<1>2. PICK m \in Bad : \A k \in Bad : m <= k
  <2>1. Bad \in SUBSET Nat
    OBVIOUS
  <2>2. QED
    BY <1>1, <2>1, LeastNatural
<1>3. m \in a..b /\ m \notin S /\ m # a
  BY <1>2
<1>4. m - 1 \in Nat /\ a <= m - 1 /\ m - 1 < b /\ m - 1 \in a..b /\ (m - 1) + 1 = m
  BY <1>3
<1>5. m - 1 \notin Bad
  BY <1>2, <1>4
<1>6. QED
  BY <1>3, <1>4, <1>5

\* The steps that G makes of the values S, and the values they pass through.
StaysIn(S, k, G) == \A n \in 1..k : \A x \in S : G[n][x] \in S
StepsFrom(base, S, k, G, f) ==
  f \in [0..k -> S] /\ f[0] = base /\ \A n \in 1..k : f[n] = G[n][f[n - 1]]

\* A function that is given by a first value and a step for each place of a
\* sequence of length k exists, if the steps stay among some values.
LEMMA StepsExist ==
  ASSUME NEW S, NEW base \in S, NEW k \in Nat, NEW G, StaysIn(S, k, G)
  PROVE  \E f : StepsFrom(base, S, k, G, f)
<1> DEFINE P(f, j) == StepsFrom(base, S, j, G, f)
           T == {j \in 0..k : \E f : P(f, j)}
<1>1. 0 \in T
  <2>1. P([n \in 0..0 |-> base], 0)
    BY DEF StepsFrom
  <2> HIDE DEF P
  <2>2. QED
    BY <2>1
<1>2. ASSUME NEW j \in Nat, j < k, j \in T
      PROVE  j + 1 \in T
  <2>1. PICK f : P(f, j)
    BY <1>2
  <2>2. f[j] \in S /\ j + 1 \in 1..k
    BY <1>2, <2>1 DEF StepsFrom
  <2>3. G[j + 1][f[j]] \in S
    BY <2>2 DEF StaysIn
  <2> DEFINE g == [n \in 0..(j + 1) |-> IF n = j + 1 THEN G[j + 1][f[j]] ELSE f[n]]
  <2>4. g \in [0..(j + 1) -> S] /\ g[0] = base
    BY <2>1, <2>3 DEF StepsFrom
  <2>5. ASSUME NEW n \in 1..(j + 1)
        PROVE  g[n] = G[n][g[n - 1]]
    <3>1. CASE n \in 1..j
      <4>1. g[n] = f[n] /\ g[n - 1] = f[n - 1]
        BY <3>1
      <4>2. QED
        BY <2>1, <3>1, <4>1 DEF StepsFrom
    <3>2. CASE n = j + 1
      <4>1. g[n] = G[j + 1][f[j]] /\ g[n - 1] = f[j]
        BY <3>2
      <4>2. QED
        BY <3>2, <4>1
    <3>3. QED
      BY <3>1, <3>2
  <2> HIDE DEF g
  <2>6. P(g, j + 1)
    BY <2>4, <2>5 DEF StepsFrom
  <2>7. QED
    BY <2>2, <2>6
<1>3. k \in T
  <2> HIDE DEF T
  <2>1. \A j \in Nat : 0 <= j /\ j < k /\ j \in T => j + 1 \in T
    BY <1>2
  <2>2. \A j \in 0..k : j \in T
    BY <1>1, <2>1, UpTo
  <2>3. QED
    BY <2>2
<1>4. QED
  BY <1>3

-----------------------------------------------------------------------------
(***************************************************************************)
(* The video track.                                                        *)
(***************************************************************************)

\* The running sum of naturals: what its equation says of it is true.
LEMMA RunningSteps ==
  ASSUME NEW s \in Seq(Nat)
  PROVE  /\ Running(s) \in [0..Len(s) -> Nat]
         /\ Running(s)[0] = 0
         /\ \A n \in 1..Len(s) : Running(s)[n] = Running(s)[n - 1] + s[n]
<1> DEFINE N == Len(s)
           F(f) == f = [n \in 0..N |-> IF n = 0 THEN 0 ELSE f[n - 1] + s[n]]
           G == [n \in 1..N |-> [x \in Nat |-> x + s[n]]]
<1>1. N \in Nat /\ \A n \in 1..N : s[n] \in Nat
  BY LenProperties
<1>2. StaysIn(Nat, N, G)
  BY <1>1 DEF StaysIn
<1>3. \A n \in 1..N, x \in Nat : G[n][x] = x + s[n]
  BY <1>1
<1> HIDE DEF G, N
<1>4. PICK g : g \in [0..N -> Nat] /\ g[0] = 0 /\ \A n \in 1..N : g[n] = G[n][g[n - 1]]
  <2>1. 0 \in Nat
    OBVIOUS
  <2>2. PICK g : StepsFrom(0, Nat, N, G, g)
    BY <1>1, <1>2, <2>1, StepsExist, Zenon
  <2>3. QED
    BY <2>2 DEF StepsFrom
<1>5. \A n \in 1..N : g[n] = g[n - 1] + s[n]
  <2>1. \A n \in 1..N : n - 1 \in 0..N
    BY <1>1
  <2>2. \A n \in 1..N : g[n - 1] \in Nat
    BY <1>4, <2>1
  <2>3. QED
    BY <1>3, <1>4, <2>2, Zenon
<1>6. F(g)
  BY <1>1, <1>4, <1>5
<1>7. Running(s) = CHOOSE f : F(f)
  BY DEF Running, N
<1>8. F(Running(s))
  <2> HIDE DEF F
  <2>1. QED
    BY <1>6, <1>7
<1>9. /\ Running(s) = [n \in 0..N |-> Running(s)[n]]
      /\ Running(s)[0] = 0
      /\ \A n \in 1..N : Running(s)[n] = Running(s)[n - 1] + s[n]
  BY <1>1, <1>8 DEF N
<1>10. \A n \in 0..N : Running(s)[n] \in Nat
  <2> DEFINE T == {n \in 0..N : Running(s)[n] \in Nat}
  <2>1. 0 \in T
    BY <1>1, <1>9
  <2>2. ASSUME NEW n \in Nat, n < N, n \in T
        PROVE  n + 1 \in T
    <3>1. n + 1 \in 1..N /\ (n + 1) - 1 = n
      BY <1>1, <2>2
    <3>2. Running(s)[n + 1] = Running(s)[n] + s[n + 1] /\ s[n + 1] \in Nat
      BY <1>1, <1>9, <3>1
    <3>3. QED
      BY <1>1, <2>2, <3>1, <3>2
  <2> HIDE DEF T
  <2>3. \A n \in 0..N : n \in T
    BY <1>1, <2>1, <2>2, UpTo
  <2>4. QED
    BY <2>3 DEF T
<1>11. QED
  BY <1>9, <1>10 DEF N

\* What consume_video keeps from one frame to the next.
VideoState == [seen : Nat, t0 : Int, dense : Seq(Int), frames : Seq(Int), emitAt : Int]

LEMMA VideoStepType ==
  ASSUME NEW s \in VideoState, NEW time \in Int
  PROVE  VideoStep(s, time) \in VideoState
<1> DEFINE t0 == IF s.seen = 0 THEN time ELSE s.t0
           rel == time - t0
<1>1. /\ s.seen \in Nat /\ s.t0 \in Int /\ s.dense \in Seq(Int) /\ s.frames \in Seq(Int)
      /\ s.emitAt \in Int /\ t0 \in Int /\ rel \in Int /\ rel + Interval \in Int
  BY IngestAssumption DEF VideoState
<1>2. Append(s.dense, rel) \in Seq(Int) /\ Append(s.frames, rel) \in Seq(Int)
  BY <1>1, AppendProperties
<1>3. VideoStep(s, time) =
        [seen |-> s.seen + 1, t0 |-> t0, dense |-> Append(s.dense, rel),
         frames |-> IF rel >= s.emitAt THEN Append(s.frames, rel) ELSE s.frames,
         emitAt |-> IF rel >= s.emitAt THEN rel + Interval ELSE s.emitAt]
  BY Zenon DEF VideoStep, Due
<1> HIDE DEF rel, t0
<1>4. QED
  BY <1>1, <1>2, <1>3 DEF VideoState

LEMMA VideoStatesSteps ==
  ASSUME NEW times \in Seq(Int)
  PROVE  /\ \A n \in 0..Len(times) : VideoStates(times)[n] \in VideoState
         /\ VideoStates(times)[0] = [seen |-> 0, t0 |-> 0, dense |-> <<>>, frames |-> <<>>, emitAt |-> 0]
         /\ \A n \in 1..Len(times) :
              VideoStates(times)[n] = VideoStep(VideoStates(times)[n - 1], times[n])
<1> DEFINE N == Len(times)
           start == [seen |-> 0, t0 |-> 0, dense |-> <<>>, frames |-> <<>>, emitAt |-> 0]
           F(f) == f = [n \in 0..N |-> IF n = 0 THEN start ELSE VideoStep(f[n - 1], times[n])]
           G == [n \in 1..N |-> [x \in VideoState |-> VideoStep(x, times[n])]]
<1>1. N \in Nat /\ \A n \in 1..N : times[n] \in Int
  BY LenProperties
<1>2. StaysIn(VideoState, N, G)
  BY <1>1, VideoStepType DEF StaysIn
<1>3. \A n \in 1..N, x \in VideoState : G[n][x] = VideoStep(x, times[n])
  BY <1>1
<1>4. start \in VideoState
  BY EmptySeq DEF VideoState
<1>5. VideoStates(times) = CHOOSE f : F(f)
  BY DEF VideoStates
<1> HIDE DEF G, N, start
<1>6. PICK g : StepsFrom(start, VideoState, N, G, g)
  BY <1>1, <1>2, <1>4, StepsExist, Zenon
<1>7. /\ g \in [0..N -> VideoState] /\ g[0] = start
      /\ \A n \in 1..N : g[n] = VideoStep(g[n - 1], times[n])
  <2>1. /\ g \in [0..N -> VideoState] /\ g[0] = start
        /\ \A n \in 1..N : g[n] = G[n][g[n - 1]]
    BY <1>6 DEF StepsFrom
  <2>2. \A n \in 1..N : g[n - 1] \in VideoState
    BY <1>1, <2>1
  <2>3. QED
    BY <1>3, <2>1, <2>2
<1>8. F(g)
  BY <1>1, <1>7
<1>9. F(VideoStates(times))
  <2> HIDE DEF F
  <2>1. QED
    BY <1>5, <1>8
<1> DEFINE f == VideoStates(times)
<1>10. /\ f = [n \in 0..N |-> f[n]] /\ f[0] = start
       /\ \A n \in 1..N : f[n] = VideoStep(f[n - 1], times[n])
  BY <1>1, <1>9
<1> HIDE DEF f, F
<1>11. \A n \in 0..N : f[n] \in VideoState
  <2> DEFINE T == {n \in 0..N : f[n] \in VideoState}
  <2>1. 0 \in T
    BY <1>1, <1>4, <1>10
  <2>2. ASSUME NEW n \in Nat, n < N, n \in T
        PROVE  n + 1 \in T
    <3>1. n + 1 \in 1..N /\ n + 1 \in 0..N /\ (n + 1) - 1 = n /\ f[n] \in VideoState
      BY <1>1, <2>2
    <3>2. f[n + 1] = VideoStep(f[n], times[n + 1]) /\ times[n + 1] \in Int
      BY <1>1, <1>10, <3>1
    <3>3. f[n + 1] \in VideoState
      BY <3>1, <3>2, VideoStepType
    <3>4. QED
      BY <3>1, <3>3
  <2> HIDE DEF T
  <2>3. \A n \in 0..N : n \in T
    BY <1>1, <2>1, <2>2, UpTo
  <2>4. QED
    BY <2>3 DEF T
<1>12. QED
  BY <1>10, <1>11 DEF f, N, start

\* After n frames, the last at the time rel: the frames that were let through
\* are one Interval apart, and less than that and a gap more; the last of all
\* came before the next was due.
VideoSoFar(x, n, first, rel, gap) ==
  /\ x.seen = n /\ x.t0 = first /\ Len(x.dense) = n /\ x.dense[n] = rel
  /\ Len(x.frames) # 0 /\ x.frames[1] = 0
  /\ x.emitAt = x.frames[Len(x.frames)] + Interval /\ rel < x.emitAt
  /\ \A i \in 1..(Len(x.frames) - 1) :
       Interval <= x.frames[i + 1] - x.frames[i] /\ x.frames[i + 1] - x.frames[i] < Interval + gap

LEMMA VideoFirst ==
  ASSUME NEW x \in VideoState, x.seen = 0, Len(x.dense) = 0, Len(x.frames) = 0, x.emitAt = 0,
         NEW time \in Int, NEW gap \in Nat
  PROVE  VideoSoFar(VideoStep(x, time), 1, time, 0, gap)
<1>1. time - time = 0 /\ 0 >= x.emitAt /\ 0 + Interval \in Int /\ 0 < Interval
  BY IngestAssumption
<1>2. VideoStep(x, time) =
        [seen |-> 1, t0 |-> time, dense |-> Append(x.dense, 0), frames |-> Append(x.frames, 0), emitAt |-> 0 + Interval]
  BY <1>1 DEF VideoStep, Due
<1>3. x.dense \in Seq(Int) /\ x.frames \in Seq(Int)
  BY DEF VideoState
<1>4. /\ Len(Append(x.dense, 0)) = 1 /\ Append(x.dense, 0)[1] = 0
      /\ Len(Append(x.frames, 0)) = 1 /\ Append(x.frames, 0)[1] = 0
  BY <1>3, AppendProperties
<1> DEFINE y == VideoStep(x, time)
<1>5. /\ y.seen = 1 /\ y.t0 = time /\ Len(y.dense) = 1 /\ y.dense[1] = 0
      /\ Len(y.frames) = 1 /\ y.frames[1] = 0 /\ y.emitAt = 0 + Interval
  BY <1>2, <1>4
<1>6. 1..(Len(y.frames) - 1) = {}
  BY <1>5
<1> HIDE DEF y
<1>7. y.emitAt = y.frames[Len(y.frames)] + Interval /\ 0 < y.emitAt /\ Len(y.frames) # 0
  BY <1>1, <1>5, IngestAssumption
<1>8. \A i \in 1..(Len(y.frames) - 1) :
        Interval <= y.frames[i + 1] - y.frames[i] /\ y.frames[i + 1] - y.frames[i] < Interval + gap
  BY <1>6
<1>9. VideoSoFar(y, 1, time, 0, gap)
  BY <1>5, <1>7, <1>8, Zenon DEF VideoSoFar
<1>10. QED
  BY <1>9 DEF y

LEMMA VideoNext ==
  ASSUME NEW x \in VideoState, NEW n \in Nat \ {0}, NEW first \in Int, NEW rel \in Int, NEW gap \in Nat,
         VideoSoFar(x, n, first, rel, gap),
         NEW time \in Int, rel <= time - first, time - first <= rel + gap
  PROVE  VideoSoFar(VideoStep(x, time), n + 1, first, time - first, gap)
<1> DEFINE new == time - first
           L == Len(x.frames)
           y == VideoStep(x, time)
<1>1. /\ x.dense \in Seq(Int) /\ x.frames \in Seq(Int) /\ x.emitAt \in Int /\ new \in Int
      /\ L \in Nat \ {0} /\ x.frames[L] \in Int /\ x.seen # 0
  BY LenProperties DEF VideoState, VideoSoFar
<1>2. y = [seen |-> n + 1, t0 |-> first, dense |-> Append(x.dense, new),
           frames |-> IF new >= x.emitAt THEN Append(x.frames, new) ELSE x.frames,
           emitAt |-> IF new >= x.emitAt THEN new + Interval ELSE x.emitAt]
  BY <1>1 DEF VideoStep, Due, VideoSoFar
<1> HIDE DEF y, new, L
<1>3. Len(y.dense) = n + 1 /\ y.dense[n + 1] = new
  BY <1>1, <1>2, AppendProperties DEF VideoSoFar
<1>4. CASE new >= x.emitAt
  <2>1. y.frames = Append(x.frames, new) /\ y.emitAt = new + Interval
    BY <1>2, <1>4
  <2>2. /\ Len(y.frames) = L + 1 /\ y.frames[L + 1] = new
        /\ \A i \in 1..L : y.frames[i] = x.frames[i]
    BY <1>1, <2>1, AppendProperties DEF L
  <2>3. Interval <= new - x.frames[L] /\ new - x.frames[L] < Interval + gap
    BY <1>1, <1>4, IngestAssumption DEF VideoSoFar, L, new
  <2>4. ASSUME NEW i \in 1..L
        PROVE  Interval <= y.frames[i + 1] - y.frames[i] /\ y.frames[i + 1] - y.frames[i] < Interval + gap
    <3>1. CASE i = L
      BY <1>1, <2>2, <2>3, <3>1
    <3>2. CASE i # L
      <4>1. i \in 1..(L - 1) /\ i + 1 \in 1..L
        BY <1>1, <3>2
      <4>2. y.frames[i] = x.frames[i] /\ y.frames[i + 1] = x.frames[i + 1]
        BY <2>2, <4>1
      <4>3. QED
        BY <4>1, <4>2 DEF VideoSoFar, L
    <3>3. QED
      BY <3>1, <3>2
  <2>5. y.frames[1] = 0 /\ Len(y.frames) # 0
    BY <1>1, <2>2 DEF VideoSoFar, L
  <2>6. y.seen = n + 1 /\ y.t0 = first
    BY <1>2
  <2>7. new < y.emitAt /\ y.emitAt = y.frames[Len(y.frames)] + Interval
    BY <1>1, <2>1, <2>2, IngestAssumption
  <2>8. \A i \in 1..(Len(y.frames) - 1) :
          Interval <= y.frames[i + 1] - y.frames[i] /\ y.frames[i + 1] - y.frames[i] < Interval + gap
    BY <1>1, <2>2, <2>4
  <2>9. QED
    BY <1>3, <2>5, <2>6, <2>7, <2>8 DEF VideoSoFar, y, new
<1>5. CASE ~ (new >= x.emitAt)
  <2>1. y.frames = x.frames /\ y.emitAt = x.emitAt /\ y.seen = n + 1 /\ y.t0 = first
    BY <1>2, <1>5
  <2>2. new < y.emitAt
    BY <1>1, <1>5, <2>1
  <2>3. QED
    BY <1>3, <2>1, <2>2 DEF VideoSoFar, y, new
<1>6. QED
  BY <1>4, <1>5

\* Of a video track whose frames come at most a gap apart.
LEMMA VideoKept ==
  ASSUME NEW s \in Seq(Nat), s # <<>>, NEW gap \in Nat, \A i \in 1..Len(s) : s[i] <= gap
  PROVE  LET got == ConsumeVideo(Sums(s)) IN
         /\ Len(got.dense) = Len(s)
         /\ got.frames[1] = 0
         /\ \A i \in 1..(Len(got.frames) - 1) :
              Interval <= got.frames[i + 1] - got.frames[i] /\ got.frames[i + 1] - got.frames[i] < Interval + gap
         /\ Last(got.dense) - Last(got.frames) < Interval
<1> DEFINE N == Len(s)
           times == Sums(s)
           after == VideoStates(times)
           T == {n \in 1..N : VideoSoFar(after[n], n, times[1], times[n] - times[1], gap)}
<1>1. N \in Nat \ {0} /\ \A n \in 1..N : s[n] \in Nat
  BY EmptySeq, LenProperties
<1>2. /\ \A n \in 1..N : times[n] = Running(s)[n] /\ times[n] \in Nat
      /\ times = [n \in 1..N |-> times[n]]
      /\ \A n \in 1..N : n > 1 => times[n] = times[n - 1] + s[n]
  <2>1. times = [n \in 1..N |-> Running(s)[n]]
    BY DEF Sums
  <2>2. \A n \in 1..N : Running(s)[n] \in Nat /\ Running(s)[n] = Running(s)[n - 1] + s[n]
    BY <1>1, RunningSteps
  <2> HIDE DEF times
  <2>3. QED
    BY <1>1, <2>1, <2>2
<1> HIDE DEF times, N
<1>3. times \in Seq(Int) /\ Len(times) = N
  BY <1>1, <1>2
<1>4. /\ \A n \in 0..N : after[n] \in VideoState
      /\ after[0] = [seen |-> 0, t0 |-> 0, dense |-> <<>>, frames |-> <<>>, emitAt |-> 0]
      /\ \A n \in 1..N : after[n] = VideoStep(after[n - 1], times[n])
  BY <1>3, VideoStatesSteps
<1> HIDE DEF after
<1>5. 1 \in T
  <2>1. 1 \in 1..N /\ 0 \in 0..N /\ times[1] \in Int /\ times[1] - times[1] = 0
    BY <1>1, <1>2
  <2>2. after[1] = VideoStep(after[0], times[1]) /\ after[0] \in VideoState
    BY <1>4, <2>1
  <2>3. after[0].seen = 0 /\ Len(after[0].dense) = 0 /\ Len(after[0].frames) = 0 /\ after[0].emitAt = 0
    BY <1>4
  <2>4. VideoSoFar(after[1], 1, times[1], 0, gap)
    BY <2>1, <2>2, <2>3, VideoFirst
  <2>5. QED
    BY <2>1, <2>4
<1>6. ASSUME NEW n \in Nat, 1 <= n, n < N, n \in T
      PROVE  n + 1 \in T
  <2>1. n \in 1..N /\ n + 1 \in 1..N /\ n \in 0..N /\ 1 \in 1..N /\ n \in Nat \ {0} /\ (n + 1) - 1 = n /\ n + 1 > 1
    BY <1>1, <1>6
  <2>2. after[n + 1] = VideoStep(after[n], times[n + 1]) /\ after[n] \in VideoState
    BY <1>4, <2>1
  <2>3. /\ times[1] \in Int /\ times[n] \in Int /\ times[n + 1] \in Int
        /\ times[n + 1] = times[n] + s[n + 1] /\ s[n + 1] \in Nat /\ s[n + 1] <= gap
    <3>1. times[n + 1] = times[(n + 1) - 1] + s[n + 1]
      BY <1>2, <2>1
    <3>2. s[n + 1] \in Nat /\ s[n + 1] <= gap
      BY <1>1, <2>1 DEF N
    <3>3. QED
      BY <1>2, <2>1, <3>1, <3>2
  <2>4. VideoSoFar(after[n], n, times[1], times[n] - times[1], gap)
    BY <1>6
  <2>5. /\ times[n] - times[1] \in Int
        /\ times[n] - times[1] <= times[n + 1] - times[1]
        /\ times[n + 1] - times[1] <= times[n] - times[1] + gap
    <3>1. \A t, u, v \in Int, d, g \in Nat : v = u + d /\ d <= g => /\ u - t \in Int
                                                                  /\ u - t <= v - t
                                                                  /\ v - t <= u - t + g
      OBVIOUS
    <3> DEFINE t == times[1]
               u == times[n]
               v == times[n + 1]
               d == s[n + 1]
    <3>2. t \in Int /\ u \in Int /\ v \in Int /\ d \in Nat /\ gap \in Nat /\ v = u + d /\ d <= gap
      BY <2>3
    <3> HIDE DEF t, u, v, d
    <3>3. u - t \in Int /\ u - t <= v - t /\ v - t <= u - t + gap
      BY <3>1, <3>2
    <3>4. QED
      BY <3>3 DEF t, u, v
  <2>6. VideoSoFar(after[n + 1], n + 1, times[1], times[n + 1] - times[1], gap)
    BY <2>1, <2>2, <2>3, <2>4, <2>5, VideoNext
  <2>7. QED
    BY <2>1, <2>6
<1>7. VideoSoFar(after[N], N, times[1], times[N] - times[1], gap)
  <2> HIDE DEF T
  <2>1. \A n \in 1..N : n \in T
    BY <1>1, <1>5, <1>6, UpTo
  <2>2. QED
    BY <1>1, <2>1 DEF T
<1> DEFINE got == after[N]
<1>8. ConsumeVideo(Sums(s)) = got
  BY <1>3 DEF ConsumeVideo, after, times
<1>9. N \in 0..N /\ N \in 1..N /\ 1 \in 1..N
  BY <1>1
<1>10. got \in VideoState /\ times[N] \in Int /\ times[1] \in Int
  BY <1>2, <1>4, <1>9
<1>11. Len(got.dense) = N /\ Last(got.dense) - Last(got.frames) < Interval
  <2>1. got.frames \in Seq(Int) /\ got.dense \in Seq(Int) /\ got.frames[Len(got.frames)] \in Int
    BY <1>7, <1>10, LenProperties DEF VideoState, VideoSoFar
  <2>2. QED
    BY <1>7, <1>10, <2>1, IngestAssumption, SMTT(30) DEF VideoSoFar, Last
<1>12. QED
  BY <1>7, <1>8, <1>11 DEF VideoSoFar, N

-----------------------------------------------------------------------------
(***************************************************************************)
(* The audio track.                                                        *)
(***************************************************************************)

\* What consume_audio_lk keeps from one frame to the next.
LkChunk == [t : Nat, dur : Nat]
LkState == [t : Nat, chunks : Seq(LkChunk)]

LEMMA LkStepType ==
  ASSUME NEW x \in LkState, NEW dur \in Nat
  PROVE  AudioLkStep(x, dur) \in LkState
<1>1. x.t \in Nat /\ x.chunks \in Seq(LkChunk) /\ [t |-> x.t, dur |-> dur] \in LkChunk /\ x.t + dur \in Nat
  BY DEF LkState, LkChunk
<1>2. Append(x.chunks, [t |-> x.t, dur |-> dur]) \in Seq(LkChunk)
  BY <1>1, AppendProperties
<1>3. QED
  BY <1>1, <1>2 DEF AudioLkStep, LkState

LEMMA LkStatesSteps ==
  ASSUME NEW s \in Seq(Nat)
  PROVE  /\ \A n \in 0..Len(s) : AudioLkStates(s)[n] \in LkState
         /\ AudioLkStates(s)[0] = [t |-> 0, chunks |-> <<>>]
         /\ \A n \in 1..Len(s) : AudioLkStates(s)[n] = AudioLkStep(AudioLkStates(s)[n - 1], s[n])
<1> DEFINE N == Len(s)
           start == [t |-> 0, chunks |-> <<>>]
           F(f) == f = [n \in 0..N |-> IF n = 0 THEN start ELSE AudioLkStep(f[n - 1], s[n])]
           G == [n \in 1..N |-> [x \in LkState |-> AudioLkStep(x, s[n])]]
<1>1. N \in Nat /\ \A n \in 1..N : s[n] \in Nat
  BY LenProperties
<1>2. StaysIn(LkState, N, G)
  BY <1>1, LkStepType DEF StaysIn
<1>3. \A n \in 1..N, x \in LkState : G[n][x] = AudioLkStep(x, s[n])
  BY <1>1
<1>4. start \in LkState
  BY EmptySeq DEF LkState
<1>5. AudioLkStates(s) = CHOOSE f : F(f)
  BY DEF AudioLkStates
<1> HIDE DEF G, N, start
<1>6. PICK g : StepsFrom(start, LkState, N, G, g)
  BY <1>1, <1>2, <1>4, StepsExist, Zenon
<1>7. /\ g \in [0..N -> LkState] /\ g[0] = start
      /\ \A n \in 1..N : g[n] = AudioLkStep(g[n - 1], s[n])
  <2>1. /\ g \in [0..N -> LkState] /\ g[0] = start
        /\ \A n \in 1..N : g[n] = G[n][g[n - 1]]
    BY <1>6 DEF StepsFrom
  <2>2. \A n \in 1..N : g[n - 1] \in LkState
    BY <1>1, <2>1
  <2>3. QED
    BY <1>3, <2>1, <2>2
<1>8. F(g)
  BY <1>1, <1>7
<1>9. F(AudioLkStates(s))
  <2> HIDE DEF F
  <2>1. QED
    BY <1>5, <1>8
<1> DEFINE f == AudioLkStates(s)
<1>10. /\ f = [n \in 0..N |-> f[n]] /\ f[0] = start
       /\ \A n \in 1..N : f[n] = AudioLkStep(f[n - 1], s[n])
  BY <1>1, <1>9
<1> HIDE DEF f, F
<1>11. \A n \in 0..N : f[n] \in LkState
  <2> DEFINE T == {n \in 0..N : f[n] \in LkState}
  <2>1. 0 \in T
    BY <1>1, <1>4, <1>10
  <2>2. ASSUME NEW n \in Nat, n < N, n \in T
        PROVE  n + 1 \in T
    <3>1. n + 1 \in 1..N /\ n + 1 \in 0..N /\ (n + 1) - 1 = n /\ f[n] \in LkState
      BY <1>1, <2>2
    <3>2. f[n + 1] = AudioLkStep(f[n], s[n + 1]) /\ s[n + 1] \in Nat
      BY <1>1, <1>10, <3>1
    <3>3. f[n + 1] \in LkState
      BY <3>1, <3>2, LkStepType
    <3>4. QED
      BY <3>1, <3>3
  <2> HIDE DEF T
  <2>3. \A n \in 0..N : n \in T
    BY <1>1, <2>1, <2>2, UpTo
  <2>4. QED
    BY <2>3 DEF T
<1>12. QED
  BY <1>10, <1>11 DEF f, N, start

\* Each chunk begins where the one before it ends, and the clock is where the
\* last ends.
LkSoFar(x, n) ==
  /\ Len(x.chunks) = n
  /\ \A i \in 1..(n - 1) : x.chunks[i].t + x.chunks[i].dur = x.chunks[i + 1].t
  /\ n > 0 => x.t = x.chunks[n].t + x.chunks[n].dur

LEMMA LkNext ==
  ASSUME NEW x \in LkState, NEW n \in Nat, LkSoFar(x, n), NEW dur \in Nat
  PROVE  LkSoFar(AudioLkStep(x, dur), n + 1)
<1> DEFINE y == AudioLkStep(x, dur)
           new == [t |-> x.t, dur |-> dur]
<1>1. x.t \in Nat /\ x.chunks \in Seq(LkChunk) /\ new \in LkChunk /\ Len(x.chunks) = n
  BY DEF LkState, LkChunk, LkSoFar
<1>2. y.t = x.t + dur /\ y.chunks = Append(x.chunks, new) /\ new.t = x.t /\ new.dur = dur
  BY DEF AudioLkStep
<1> HIDE DEF y, new
<1>3. /\ Len(y.chunks) = n + 1 /\ y.chunks[n + 1] = new
      /\ \A i \in 1..n : y.chunks[i] = x.chunks[i]
  BY <1>1, <1>2, AppendProperties
<1>4. ASSUME NEW i \in 1..n
      PROVE  y.chunks[i].t + y.chunks[i].dur = y.chunks[i + 1].t
  <2>1. CASE i = n
    BY <1>1, <1>2, <1>3, <2>1 DEF LkSoFar
  <2>2. CASE i # n
    <3>1. i \in 1..(n - 1) /\ i + 1 \in 1..n
      BY <2>2
    <3>2. QED
      BY <1>3, <3>1 DEF LkSoFar
  <2>3. QED
    BY <2>1, <2>2
<1>5. QED
  BY <1>2, <1>3, <1>4 DEF LkSoFar, y

LEMMA LkGapless ==
  ASSUME NEW s \in Seq(Nat)
  PROVE  LET lk == ConsumeAudioLk(s) IN
         \A i \in 1..(Len(lk) - 1) : lk[i].t + lk[i].dur = lk[i + 1].t
<1> DEFINE N == Len(s)
           after == AudioLkStates(s)
           T == {n \in 0..N : LkSoFar(after[n], n)}
<1>1. N \in Nat /\ \A n \in 1..N : s[n] \in Nat
  BY LenProperties
<1>2. /\ \A n \in 0..N : after[n] \in LkState
      /\ after[0] = [t |-> 0, chunks |-> <<>>]
      /\ \A n \in 1..N : after[n] = AudioLkStep(after[n - 1], s[n])
  BY LkStatesSteps
<1> HIDE DEF after, N
<1>3. 0 \in T
  <2>1. after[0].chunks = <<>> /\ Len(<<>>) = 0
    BY <1>2
  <2>2. QED
    BY <1>1, <2>1 DEF LkSoFar
<1>4. ASSUME NEW n \in Nat, n < N, n \in T
      PROVE  n + 1 \in T
  <2>1. n \in 0..N /\ n + 1 \in 1..N /\ n + 1 \in 0..N /\ (n + 1) - 1 = n
    BY <1>1, <1>4
  <2>2. after[n + 1] = AudioLkStep(after[n], s[n + 1]) /\ after[n] \in LkState /\ s[n + 1] \in Nat
    BY <1>1, <1>2, <2>1
  <2>3. QED
    BY <1>4, <2>1, <2>2, LkNext
<1>5. LkSoFar(after[N], N)
  <2> HIDE DEF T
  <2>1. \A n \in 0..N : n \in T
    BY <1>1, <1>3, <1>4, UpTo
  <2>2. QED
    BY <1>1, <2>1 DEF T
<1>6. ConsumeAudioLk(s) = after[N].chunks
  BY DEF ConsumeAudioLk, after, N
<1>7. QED
  BY <1>5, <1>6 DEF LkSoFar

\* What consume_audio keeps from one frame to the next.
RtcChunk == [t : Nat, pcm : Seq(Nat)]
RtcState == [fed : Nat, out : Nat, last : Nat, chunks : Seq(RtcChunk)]

\* The samples after the first a, up to the first b.
Piece(a, b) == [k \in 1..(b - a) |-> a + k]

LEMMA PieceType ==
  ASSUME NEW a \in Nat, NEW b \in Nat, a <= b
  PROVE  /\ Piece(a, b) \in Seq(Nat) /\ Len(Piece(a, b)) = b - a
         /\ \A k \in 1..(b - a) : Piece(a, b)[k] = a + k
         /\ Piece(a, b) = <<>> <=> a = b
<1>1. b - a \in Nat /\ \A k \in 1..(b - a) : a + k \in Nat
  OBVIOUS
<1>2. Piece(a, b) \in Seq(Nat) /\ Len(Piece(a, b)) = b - a
  BY <1>1 DEF Piece
<1>3. Piece(a, b) = <<>> <=> Len(Piece(a, b)) = 0
  BY <1>2, EmptySeq
<1>4. QED
  BY <1>1, <1>2, <1>3 DEF Piece

\* A part of the beginning of the track is a piece.
LEMMA PartIsPiece ==
  ASSUME NEW a \in Nat, NEW b \in Nat, NEW c \in Nat, a <= b, b <= c
  PROVE  SubSeq(Upto(c), a + 1, b) = Piece(a, b)
<1>1. Upto(c) \in Seq(Nat) /\ Len(Upto(c)) = c /\ \A i \in 1..c : Upto(c)[i] = i
  BY DEF Upto
<1>2. \A i \in (a + 1)..b : Upto(c)[i] \in Nat
  BY <1>1
<1>3. /\ SubSeq(Upto(c), a + 1, b) \in Seq(Nat)
      /\ Len(SubSeq(Upto(c), a + 1, b)) = IF a + 1 <= b THEN b - (a + 1) + 1 ELSE 0
      /\ \A i \in 1..(b - (a + 1) + 1) : SubSeq(Upto(c), a + 1, b)[i] = Upto(c)[(a + 1) + i - 1]
  <2>1. a + 1 \in Int /\ b \in Int
    OBVIOUS
  <2> HIDE DEF Upto
  <2>2. QED
    BY <1>2, <2>1, SubSeqProperties
<1>4. b - (a + 1) + 1 = b - a /\ Len(SubSeq(Upto(c), a + 1, b)) = b - a
  BY <1>3
<1>5. ASSUME NEW i \in 1..(b - a)
      PROVE  SubSeq(Upto(c), a + 1, b)[i] = Piece(a, b)[i]
  <2>1. (a + 1) + i - 1 = a + i /\ a + i \in 1..c /\ i \in 1..(b - (a + 1) + 1)
    BY <1>4
  <2>2. SubSeq(Upto(c), a + 1, b)[i] = a + i
    BY <1>1, <1>3, <2>1
  <2>3. QED
    BY <2>2, PieceType
<1>6. Piece(a, b) \in Seq(Nat) /\ Len(Piece(a, b)) = b - a
  BY PieceType
<1> DEFINE part == SubSeq(Upto(c), a + 1, b)
<1>7. part \in Seq(Nat) /\ Len(part) = Len(Piece(a, b)) /\ \A i \in 1..Len(part) : part[i] = Piece(a, b)[i]
  BY <1>3, <1>4, <1>5, <1>6
<1> HIDE DEF part
<1>8. part = Piece(a, b)
  BY <1>6, <1>7, SeqEqual
<1>9. QED
  BY <1>8 DEF part

\* What the resampler gives out of what was fed: all but what it holds back.
Given(fed) == IF fed > Lag THEN fed - Lag ELSE 0

LEMMA AudioStepIs ==
  ASSUME NEW x \in RtcState, NEW dur \in Nat, x.out = Given(x.fed)
  PROVE  LET y == AudioStep(x, dur) IN
         /\ y \in RtcState
         /\ y.fed = x.fed + dur /\ y.last = x.fed /\ y.out = Given(y.fed)
         /\ x.out <= y.out /\ y.out <= y.fed
         /\ y.chunks = IF x.out = y.out THEN x.chunks
                       ELSE Append(x.chunks, [t |-> x.fed, pcm |-> Piece(x.out, y.out)])
<1> DEFINE fed == x.fed + dur
           out == IF fed > Lag THEN fed - Lag ELSE 0
           pcm == SubSeq(Upto(fed), x.out + 1, out)
           y == AudioStep(x, dur)
<1>1. x.fed \in Nat /\ x.out \in Nat /\ x.last \in Nat /\ x.chunks \in Seq(RtcChunk) /\ fed \in Nat /\ out \in Nat
  BY IngestAssumption DEF RtcState
<1>2. x.out <= out /\ out <= fed /\ out = Given(fed)
  BY <1>1, IngestAssumption DEF Given
<1>3. y = [fed |-> fed, out |-> out, last |-> x.fed,
           chunks |-> IF pcm = <<>> THEN x.chunks ELSE Append(x.chunks, [t |-> x.fed, pcm |-> pcm])]
  BY Zenon DEF AudioStep
<1> HIDE DEF y
<1>4. pcm = Piece(x.out, out)
  <2> HIDE DEF fed, out
  <2>1. QED
    BY <1>1, <1>2, PartIsPiece
<1>5. Piece(x.out, out) \in Seq(Nat) /\ (Piece(x.out, out) = <<>> <=> x.out = out)
  <2> HIDE DEF fed, out
  <2>1. QED
    BY <1>1, <1>2, PieceType
<1> HIDE DEF pcm, out
<1>6. Append(x.chunks, [t |-> x.fed, pcm |-> Piece(x.out, out)]) \in Seq(RtcChunk)
  BY <1>1, <1>5, AppendProperties DEF RtcChunk
<1>7. y.chunks = IF x.out = out THEN x.chunks ELSE Append(x.chunks, [t |-> x.fed, pcm |-> Piece(x.out, out)])
  BY <1>3, <1>4, <1>5
<1>8. y \in RtcState
  BY <1>1, <1>3, <1>4, <1>5, <1>6 DEF RtcState
<1>9. y.fed = fed /\ y.out = out /\ y.last = x.fed
  BY <1>3
<1>10. QED
  BY <1>2, <1>7, <1>8, <1>9 DEF y

LEMMA RtcStatesSteps ==
  ASSUME NEW s \in Seq(Nat)
  PROVE  /\ \A n \in 0..Len(s) : AudioStates(s)[n] \in RtcState /\ AudioStates(s)[n].out = Given(AudioStates(s)[n].fed)
         /\ AudioStates(s)[0] = [fed |-> 0, out |-> 0, last |-> 0, chunks |-> <<>>]
         /\ \A n \in 1..Len(s) : AudioStates(s)[n] = AudioStep(AudioStates(s)[n - 1], s[n])
<1> DEFINE N == Len(s)
           Fed == {x \in RtcState : x.out = Given(x.fed)}
           start == [fed |-> 0, out |-> 0, last |-> 0, chunks |-> <<>>]
           F(f) == f = [n \in 0..N |-> IF n = 0 THEN start ELSE AudioStep(f[n - 1], s[n])]
           G == [n \in 1..N |-> [x \in Fed |-> AudioStep(x, s[n])]]
<1>1. N \in Nat /\ \A n \in 1..N : s[n] \in Nat
  BY LenProperties
<1>2. \A x \in Fed, dur \in Nat : AudioStep(x, dur) \in Fed
  BY AudioStepIs
<1>3. start \in Fed
  BY EmptySeq, IngestAssumption DEF RtcState, Given
<1>4. AudioStates(s) = CHOOSE f : F(f)
  BY DEF AudioStates
<1> HIDE DEF N, start, Fed
<1>5. StaysIn(Fed, N, G)
  BY <1>1, <1>2 DEF StaysIn
<1>6. \A n \in 1..N, x \in Fed : G[n][x] = AudioStep(x, s[n])
  BY <1>1
<1> HIDE DEF G
<1>7. PICK g : StepsFrom(start, Fed, N, G, g)
  BY <1>1, <1>3, <1>5, StepsExist, Zenon
<1>8. /\ g \in [0..N -> Fed] /\ g[0] = start
      /\ \A n \in 1..N : g[n] = AudioStep(g[n - 1], s[n])
  <2>1. /\ g \in [0..N -> Fed] /\ g[0] = start
        /\ \A n \in 1..N : g[n] = G[n][g[n - 1]]
    BY <1>7 DEF StepsFrom
  <2>2. \A n \in 1..N : g[n - 1] \in Fed
    BY <1>1, <2>1
  <2>3. QED
    BY <1>6, <2>1, <2>2
<1>9. F(g)
  BY <1>1, <1>8
<1>10. F(AudioStates(s))
  <2> HIDE DEF F
  <2>1. QED
    BY <1>4, <1>9
<1> DEFINE f == AudioStates(s)
<1>11. /\ f = [n \in 0..N |-> f[n]] /\ f[0] = start
       /\ \A n \in 1..N : f[n] = AudioStep(f[n - 1], s[n])
  BY <1>1, <1>10
<1> HIDE DEF f, F
<1>12. \A n \in 0..N : f[n] \in Fed
  <2> DEFINE T == {n \in 0..N : f[n] \in Fed}
  <2>1. 0 \in T
    BY <1>1, <1>3, <1>11
  <2>2. ASSUME NEW n \in Nat, n < N, n \in T
        PROVE  n + 1 \in T
    <3>1. n + 1 \in 1..N /\ n + 1 \in 0..N /\ (n + 1) - 1 = n /\ f[n] \in Fed
      BY <1>1, <2>2
    <3>2. f[n + 1] = AudioStep(f[n], s[n + 1]) /\ s[n + 1] \in Nat
      BY <1>1, <1>11, <3>1
    <3>3. f[n + 1] \in Fed
      BY <1>2, <3>1, <3>2
    <3>4. QED
      BY <3>1, <3>3
  <2> HIDE DEF T
  <2>3. \A n \in 0..N : n \in T
    BY <1>1, <2>1, <2>2, UpTo
  <2>4. QED
    BY <2>3 DEF T
<1>13. QED
  BY <1>11, <1>12 DEF f, N, start, Fed

-----------------------------------------------------------------------------
\* The chunks are the track up to c, cut at the places e.
CutAt(chunks, c, e) ==
  /\ e \in [0..Len(chunks) -> Nat] /\ e[0] = 0 /\ e[Len(chunks)] = c
  /\ \A i \in 1..Len(chunks) : e[i - 1] <= e[i] /\ chunks[i].pcm = Piece(e[i - 1], e[i])
CutUpTo(chunks, c) == \E e : CutAt(chunks, c, e)
InTime(chunks) == \A i \in 1..(Len(chunks) - 1) : chunks[i].t <= chunks[i + 1].t

LEMMA CutOnward ==
  ASSUME NEW chunks \in Seq(RtcChunk), NEW c \in Nat, NEW d \in Nat, c <= d, NEW t \in Nat,
         CutUpTo(chunks, c)
  PROVE  LET new == Append(chunks, [t |-> t, pcm |-> Piece(c, d)]) IN
         new \in Seq(RtcChunk) /\ CutUpTo(new, d)
<1> DEFINE new == Append(chunks, [t |-> t, pcm |-> Piece(c, d)])
           L == Len(chunks)
<1>1. PICK e : CutAt(chunks, c, e)
  BY DEF CutUpTo
<1>2. Piece(c, d) \in Seq(Nat) /\ [t |-> t, pcm |-> Piece(c, d)] \in RtcChunk
  BY PieceType DEF RtcChunk
<1>3. /\ new \in Seq(RtcChunk) /\ Len(new) = L + 1 /\ new[L + 1].pcm = Piece(c, d)
      /\ \A i \in 1..L : new[i] = chunks[i]
  BY <1>2, AppendProperties
<1>4. L \in Nat
  BY LenProperties
<1> HIDE DEF new, L
<1> DEFINE g == [i \in 0..(L + 1) |-> IF i = L + 1 THEN d ELSE e[i]]
<1>5. /\ e \in [0..L -> Nat] /\ e[0] = 0 /\ e[L] = c
      /\ \A i \in 1..L : e[i - 1] <= e[i] /\ chunks[i].pcm = Piece(e[i - 1], e[i])
  BY <1>1 DEF CutAt, L
<1>6. g \in [0..(L + 1) -> Nat] /\ g[0] = 0 /\ g[L + 1] = d
  BY <1>4, <1>5
<1>7. ASSUME NEW i \in 1..(L + 1)
      PROVE  g[i - 1] <= g[i] /\ new[i].pcm = Piece(g[i - 1], g[i])
  <2>1. CASE i = L + 1
    <3>1. g[i] = d /\ g[i - 1] = c
      BY <1>4, <1>5, <2>1
    <3>2. QED
      BY <1>3, <2>1, <3>1
  <2>2. CASE i \in 1..L
    <3>1. g[i] = e[i] /\ g[i - 1] = e[i - 1]
      BY <1>4, <2>2
    <3>2. QED
      BY <1>3, <1>5, <2>2, <3>1
  <2>3. QED
    BY <1>4, <2>1, <2>2
<1> HIDE DEF g
<1>8. CutAt(new, d, g)
  BY <1>3, <1>6, <1>7 DEF CutAt
<1>9. QED
  BY <1>3, <1>8 DEF CutUpTo, new

\* Put together, the chunks are the track.
LEMMA FlattenedIs ==
  ASSUME NEW chunks \in Seq(RtcChunk), NEW c \in Nat, CutUpTo(chunks, c)
  PROVE  FlattenSeq(Column(chunks, "pcm")) = Upto(c)
<1> DEFINE L == Len(chunks)
           parts == Column(chunks, "pcm")
           F(f) == f = [i \in 1..L |-> IF i = 1 THEN parts[i] ELSE f[i - 1] \o parts[i]]
<1>1. PICK e : CutAt(chunks, c, e)
  BY DEF CutUpTo
<1>2. L \in Nat
  BY LenProperties
<1>3. /\ e \in [0..L -> Nat] /\ e[0] = 0 /\ e[L] = c
      /\ \A i \in 1..L : e[i - 1] <= e[i] /\ chunks[i].pcm = Piece(e[i - 1], e[i])
  BY <1>1 DEF CutAt
<1>4. Len(parts) = L /\ parts = [i \in 1..L |-> chunks[i].pcm]
  BY <1>2 DEF Column
<1>5. \A i \in 1..L : parts[i] = Piece(e[i - 1], e[i])
  BY <1>3, <1>4
<1> HIDE DEF parts, L
<1>6. CASE L = 0
  <2>1. parts = <<>> /\ c = 0
    BY <1>3, <1>4, <1>6
  <2>2. FlattenSeq(parts) = parts
    BY <1>4, <1>6 DEF FlattenSeq
  <2>3. Upto(0) = <<>>
    BY DEF Upto
  <2>4. QED
    BY <2>1, <2>2, <2>3 DEF parts
<1>7. CASE L # 0
  <2> DEFINE g == [i \in 1..L |-> Upto(e[i])]
  <2>1. ASSUME NEW a \in Nat, NEW b \in Nat, a <= b
        PROVE  Upto(a) \o Piece(a, b) = Upto(b)
    <3>1. /\ Upto(a) \in Seq(Nat) /\ Len(Upto(a)) = a /\ \A i \in 1..a : Upto(a)[i] = i
          /\ Upto(b) \in Seq(Nat) /\ Len(Upto(b)) = b /\ \A i \in 1..b : Upto(b)[i] = i
      BY DEF Upto
    <3>2. Piece(a, b) \in Seq(Nat) /\ Len(Piece(a, b)) = b - a /\ \A i \in 1..(b - a) : Piece(a, b)[i] = a + i
      BY <2>1, PieceType
    <3>3. /\ Upto(a) \o Piece(a, b) \in Seq(Nat) /\ Len(Upto(a) \o Piece(a, b)) = a + (b - a)
          /\ \A i \in 1..(a + (b - a)) : (Upto(a) \o Piece(a, b))[i] = IF i <= a THEN Upto(a)[i] ELSE Piece(a, b)[i - a]
      BY <3>1, <3>2, ConcatProperties
    <3>4. a + (b - a) = b
      OBVIOUS
    <3>5. ASSUME NEW i \in 1..b
          PROVE  (Upto(a) \o Piece(a, b))[i] = Upto(b)[i]
      <4>1. CASE i <= a
        BY <3>1, <3>3, <3>4, <4>1
      <4>2. CASE ~ (i <= a)
        <5>1. i - a \in 1..(b - a) /\ a + (i - a) = i
          BY <4>2
        <5>2. Piece(a, b)[i - a] = i
          BY <3>2, <5>1
        <5>3. QED
          BY <3>1, <3>3, <3>4, <4>2, <5>2
      <4>3. QED
        BY <4>1, <4>2
    <3>6. QED
      BY <3>1, <3>3, <3>4, <3>5, SeqEqual
  <2>2. 1 \in 1..L /\ 1 - 1 = 0 /\ \A i \in 1..L : e[i] \in Nat /\ e[i - 1] \in Nat
    BY <1>2, <1>3, <1>7
  <2>3. parts[1] = Upto(e[1])
    <3>1. parts[1] = Piece(0, e[1]) /\ e[1] \in Nat
      BY <1>3, <1>5, <2>2
    <3>2. QED
      BY <3>1 DEF Piece, Upto
  <2>4. \A i \in 1..L : i # 1 => Upto(e[i]) = Upto(e[i - 1]) \o parts[i]
    BY <1>3, <1>5, <2>1, <2>2
  <2>5. F(g)
    <3>1. ASSUME NEW i \in 1..L
          PROVE  g[i] = IF i = 1 THEN parts[i] ELSE g[i - 1] \o parts[i]
      <4>1. CASE i = 1
        BY <2>3, <4>1
      <4>2. CASE i # 1
        <5>1. i - 1 \in 1..L
          BY <1>2, <4>2
        <5>2. QED
          BY <2>4, <4>2, <5>1
      <4>3. QED
        BY <4>1, <4>2
    <3>2. QED
      BY <3>1
  <2> DEFINE flat == CHOOSE f : F(f)
  <2>6. F(flat)
    <3> HIDE DEF F, g
    <3>1. QED
      BY <2>5
  <2>7. FlattenSeq(parts) = flat[L]
    BY <1>4, <1>7 DEF FlattenSeq
  <2>8. \A i \in 1..L : flat[i] = IF i = 1 THEN parts[i] ELSE flat[i - 1] \o parts[i]
    <3> HIDE DEF flat
    <3>1. QED
      BY <2>6
  <2> HIDE DEF flat, F, g
  <2> DEFINE T == {i \in 1..L : flat[i] = Upto(e[i])}
  <2>9. 1 \in T
    BY <2>2, <2>3, <2>8
  <2>10. ASSUME NEW i \in Nat, 1 <= i, i < L, i \in T
         PROVE  i + 1 \in T
    <3>1. i + 1 \in 1..L /\ i + 1 # 1 /\ (i + 1) - 1 = i
      BY <1>2, <2>10
    <3>2. flat[i + 1] = flat[i] \o parts[i + 1]
      BY <2>8, <3>1
    <3>3. Upto(e[i + 1]) = Upto(e[i]) \o parts[i + 1]
      BY <2>4, <3>1
    <3>4. QED
      BY <2>10, <3>1, <3>2, <3>3
  <2> HIDE DEF T
  <2>11. \A i \in 1..L : i \in T
    BY <1>2, <2>9, <2>10, UpTo
  <2>12. L \in T
    BY <1>2, <1>7, <2>11
  <2>13. QED
    BY <1>3, <2>7, <2>12 DEF T, parts
<1>8. QED
  BY <1>6, <1>7

\* What was given out is cut into chunks, in the order of their times.
RtcSoFar(x) ==
  /\ CutUpTo(x.chunks, x.out)
  /\ InTime(x.chunks)
  /\ x.last <= x.fed
  /\ Len(x.chunks) > 0 => x.chunks[Len(x.chunks)].t <= x.last

\* One chunk more, no earlier than the last.
LEMMA InTimeOnward ==
  ASSUME NEW chunks \in Seq(RtcChunk), InTime(chunks), NEW new \in RtcChunk,
         Len(chunks) > 0 => chunks[Len(chunks)].t <= new.t
  PROVE  LET more == Append(chunks, new) IN
         /\ InTime(more) /\ Len(more) > 0 /\ more[Len(more)] = new
<1> DEFINE more == Append(chunks, new)
           L == Len(chunks)
<1>1. /\ L \in Nat /\ Len(more) = L + 1 /\ more[L + 1] = new
      /\ \A i \in 1..L : more[i] = chunks[i]
  BY AppendProperties, LenProperties
<1> HIDE DEF more
<1>2. ASSUME NEW i \in 1..L
      PROVE  more[i].t <= more[i + 1].t
  <2>1. CASE i = L
    BY <1>1, <2>1
  <2>2. CASE i # L
    <3>1. i \in 1..(L - 1) /\ i + 1 \in 1..L
      BY <1>1, <2>2
    <3>2. QED
      BY <1>1, <3>1 DEF InTime
  <2>3. QED
    BY <2>1, <2>2
<1>3. QED
  BY <1>1, <1>2 DEF InTime, more

LEMMA RtcNext ==
  ASSUME NEW x \in RtcState, x.out = Given(x.fed), RtcSoFar(x), NEW dur \in Nat
  PROVE  RtcSoFar(AudioStep(x, dur))
<1> DEFINE y == AudioStep(x, dur)
           new == [t |-> x.fed, pcm |-> Piece(x.out, y.out)]
<1>1. /\ y \in RtcState /\ y.fed = x.fed + dur /\ y.last = x.fed
      /\ x.out <= y.out
      /\ y.chunks = IF x.out = y.out THEN x.chunks ELSE Append(x.chunks, new)
  BY AudioStepIs
<1> HIDE DEF y
<1>2. /\ x.fed \in Nat /\ x.out \in Nat /\ x.last \in Nat /\ x.chunks \in Seq(RtcChunk) /\ y.out \in Nat
      /\ y.last <= y.fed
  BY <1>1 DEF RtcState
<1>3. Piece(x.out, y.out) \in Seq(Nat)
  BY <1>1, <1>2, PieceType
<1>4. Len(x.chunks) > 0 => x.chunks[Len(x.chunks)] \in RtcChunk /\ x.chunks[Len(x.chunks)].t <= x.fed
  <2>1. Len(x.chunks) > 0 => x.chunks[Len(x.chunks)] \in RtcChunk
    BY <1>2, LenProperties
  <2>2. QED
    BY <1>2, <2>1 DEF RtcSoFar, RtcChunk
<1>5. CASE x.out = y.out
  BY <1>1, <1>2, <1>4, <1>5 DEF RtcSoFar, y
<1>6. CASE x.out # y.out
  <2>1. y.chunks = Append(x.chunks, new) /\ new \in RtcChunk /\ new.t = x.fed
    BY <1>1, <1>2, <1>3, <1>6 DEF RtcChunk
  <2>2. CutUpTo(y.chunks, y.out)
    BY <1>1, <1>2, <2>1, CutOnward DEF RtcSoFar
  <2> HIDE DEF new
  <2>3. InTime(y.chunks) /\ Len(y.chunks) > 0 /\ y.chunks[Len(y.chunks)] = new
    BY <1>2, <1>4, <2>1, InTimeOnward DEF RtcSoFar
  <2>4. y.chunks[Len(y.chunks)].t <= y.last
    BY <1>1, <1>2, <2>1, <2>3
  <2>5. QED
    BY <1>2, <2>2, <2>3, <2>4 DEF RtcSoFar, y
<1>7. QED
  BY <1>5, <1>6

\* The end of the track, under the time of its last frame.
LEMMA RtcEnd ==
  ASSUME NEW x \in RtcState, x.out = Given(x.fed), RtcSoFar(x)
  PROVE  FlattenSeq(Column(Flush(x), "pcm")) = Upto(x.fed) /\ InTime(Flush(x))
<1> DEFINE new == [t |-> x.last, pcm |-> Piece(x.out, x.fed)]
<1>1. /\ x.fed \in Nat /\ x.out \in Nat /\ x.last \in Nat /\ x.chunks \in Seq(RtcChunk)
      /\ x.out <= x.fed
  BY IngestAssumption DEF RtcState, Given
<1>2. /\ SubSeq(Upto(x.fed), x.out + 1, x.fed) = Piece(x.out, x.fed)
      /\ Piece(x.out, x.fed) \in Seq(Nat) /\ (Piece(x.out, x.fed) = <<>> <=> x.out = x.fed)
  <2>1. PICK b : b = x.fed
    OBVIOUS
  <2>2. b \in Nat /\ x.out <= b /\ b <= x.fed
    BY <1>1, <2>1
  <2>3. SubSeq(Upto(x.fed), x.out + 1, b) = Piece(x.out, b)
    BY <1>1, <2>2, PartIsPiece
  <2>4. QED
    BY <1>1, <2>1, <2>3, PieceType
<1>3. Flush(x) = IF x.out = x.fed THEN x.chunks ELSE Append(x.chunks, new)
  BY <1>2 DEF Flush
<1>4. CASE x.out = x.fed
  BY <1>1, <1>3, <1>4, FlattenedIs DEF RtcSoFar
<1>5. CASE x.out # x.fed
  <2>1. Flush(x) = Append(x.chunks, new) /\ new \in RtcChunk /\ new.t = x.last
    BY <1>1, <1>2, <1>3, <1>5 DEF RtcChunk
  <2>2. Flush(x) \in Seq(RtcChunk) /\ CutUpTo(Flush(x), x.fed)
    BY <1>1, <2>1, CutOnward DEF RtcSoFar
  <2> HIDE DEF new
  <2>3. InTime(Flush(x))
    BY <1>1, <2>1, InTimeOnward DEF RtcSoFar
  <2>4. QED
    BY <1>1, <2>2, <2>3, FlattenedIs
<1>6. QED
  BY <1>4, <1>5

\* Of the samples none is lost, doubled or out of order, and the chunks come
\* in the order of their times.
LEMMA RtcWhole ==
  ASSUME NEW s \in Seq(Nat)
  PROVE  LET rtc == ConsumeAudio(s) IN
         /\ FlattenSeq(Column(rtc, "pcm")) = Upto(Total(s))
         /\ \A i \in 1..(Len(rtc) - 1) : rtc[i].t <= rtc[i + 1].t
<1> DEFINE N == Len(s)
           after == AudioStates(s)
           sum == Running(s)
           T == {n \in 0..N : RtcSoFar(after[n]) /\ after[n].fed = sum[n]}
<1>1. N \in Nat /\ \A n \in 1..N : s[n] \in Nat
  BY LenProperties
<1>2. /\ \A n \in 0..N : after[n] \in RtcState /\ after[n].out = Given(after[n].fed)
      /\ after[0] = [fed |-> 0, out |-> 0, last |-> 0, chunks |-> <<>>]
      /\ \A n \in 1..N : after[n] = AudioStep(after[n - 1], s[n])
  BY RtcStatesSteps
<1>3. sum[0] = 0 /\ \A n \in 1..N : sum[n] = sum[n - 1] + s[n]
  BY RunningSteps
<1> HIDE DEF after, N, sum
<1>4. 0 \in T
  <2>1. /\ after[0].chunks = <<>> /\ Len(<<>>) = 0 /\ after[0].out = 0
        /\ after[0].last = 0 /\ after[0].fed = 0
    BY <1>2
  <2>2. CutAt(<<>>, 0, [i \in 0..0 |-> 0])
    BY <2>1 DEF CutAt
  <2>3. CutUpTo(after[0].chunks, after[0].out)
    BY <2>1, <2>2 DEF CutUpTo
  <2>4. InTime(after[0].chunks)
    BY <2>1 DEF InTime
  <2>5. QED
    BY <1>1, <1>3, <2>1, <2>3, <2>4 DEF RtcSoFar
<1>5. ASSUME NEW n \in Nat, n < N, n \in T
      PROVE  n + 1 \in T
  <2>1. n \in 0..N /\ n + 1 \in 1..N /\ n + 1 \in 0..N /\ (n + 1) - 1 = n
    BY <1>1, <1>5
  <2>2. /\ after[n + 1] = AudioStep(after[n], s[n + 1]) /\ s[n + 1] \in Nat
        /\ after[n] \in RtcState /\ after[n].out = Given(after[n].fed)
        /\ sum[n + 1] = sum[n] + s[n + 1]
    BY <1>1, <1>2, <1>3, <2>1
  <2>3. RtcSoFar(after[n + 1])
    BY <1>5, <2>2, RtcNext
  <2>4. after[n + 1].fed = after[n].fed + s[n + 1]
    <3>1. AudioStep(after[n], s[n + 1]).fed = after[n].fed + s[n + 1]
      BY <2>2, AudioStepIs
    <3>2. QED
      BY <2>2, <3>1
  <2>5. QED
    BY <1>5, <2>1, <2>2, <2>3, <2>4
<1>6. RtcSoFar(after[N]) /\ after[N].fed = sum[N]
  <2> HIDE DEF T
  <2>1. \A n \in 0..N : n \in T
    BY <1>1, <1>4, <1>5, UpTo
  <2>2. QED
    BY <1>1, <2>1 DEF T
<1>7. after[N] \in RtcState /\ after[N].out = Given(after[N].fed)
  BY <1>1, <1>2
<1>8. FlattenSeq(Column(Flush(after[N]), "pcm")) = Upto(sum[N]) /\ InTime(Flush(after[N]))
  BY <1>1, <1>6, <1>7, RtcEnd
<1>9. ConsumeAudio(s) = Flush(after[N]) /\ Total(s) = sum[N]
  BY DEF ConsumeAudio, Total, after, N, sum
<1>10. QED
  BY <1>8, <1>9 DEF InTime

-----------------------------------------------------------------------------
(***************************************************************************)
(* The media of a sentence.                                                *)
(***************************************************************************)

\* The members of s at the places in I, collected place by place.
ChosenUpTo(s, I, V, f) ==
  /\ f \in [0..Len(s) -> Seq(V)] /\ f[0] = <<>>
  /\ \A n \in 1..Len(s) : f[n] = IF n \in I THEN Append(f[n - 1], s[n]) ELSE f[n - 1]

LEMMA ChosenSteps ==
  ASSUME NEW V, NEW s \in Seq(V), NEW I
  PROVE  \E f : ChosenUpTo(s, I, V, f) /\ Chosen(s, I) = f[Len(s)]
<1> DEFINE N == Len(s)
           S == Seq(V)
           Step(x, n) == IF n \in I THEN Append(x, s[n]) ELSE x
           F(f) == f = [n \in 0..N |-> IF n = 0 THEN <<>> ELSE Step(f[n - 1], n)]
           G == [n \in 1..N |-> [x \in S |-> Step(x, n)]]
           f == CHOOSE f : F(f)
<1>1. N \in Nat /\ \A n \in 1..N : s[n] \in V
  BY LenProperties
<1>2. \A n \in 1..N : \A x \in S : Step(x, n) \in S
  BY <1>1, AppendProperties
<1>3. <<>> \in S
  BY EmptySeq
<1>4. Chosen(s, I) = f[N]
  BY DEF Chosen
<1> HIDE DEF N, S, Step
<1>5. StaysIn(S, N, G)
  BY <1>1, <1>2 DEF StaysIn
<1>6. \A n \in 1..N, x \in S : G[n][x] = Step(x, n)
  BY <1>1
<1> HIDE DEF G
<1>7. PICK g : StepsFrom(<<>>, S, N, G, g)
  BY <1>1, <1>3, <1>5, StepsExist, Zenon
<1>8. /\ g \in [0..N -> S] /\ g[0] = <<>>
      /\ \A n \in 1..N : g[n] = Step(g[n - 1], n)
  <2>1. /\ g \in [0..N -> S] /\ g[0] = <<>>
        /\ \A n \in 1..N : g[n] = G[n][g[n - 1]]
    BY <1>7 DEF StepsFrom
  <2>2. \A n \in 1..N : g[n - 1] \in S
    BY <1>1, <2>1
  <2>3. QED
    BY <1>6, <2>1, <2>2
<1>9. F(g)
  BY <1>1, <1>8
<1>10. F(f)
  <2> HIDE DEF F
  <2>1. QED
    BY <1>9
<1> HIDE DEF f
<1>11. /\ f = [n \in 0..N |-> f[n]] /\ f[0] = <<>>
       /\ \A n \in 1..N : f[n] = Step(f[n - 1], n)
  BY <1>1, <1>10
<1> HIDE DEF F
<1>12. \A n \in 0..N : f[n] \in S
  <2> DEFINE T == {n \in 0..N : f[n] \in S}
  <2>1. 0 \in T
    BY <1>1, <1>3, <1>11
  <2>2. ASSUME NEW n \in Nat, n < N, n \in T
        PROVE  n + 1 \in T
    <3>1. n + 1 \in 1..N /\ n + 1 \in 0..N /\ (n + 1) - 1 = n /\ f[n] \in S
      BY <1>1, <2>2
    <3>2. f[n + 1] = Step(f[n], n + 1)
      BY <1>11, <3>1
    <3>3. f[n + 1] \in S
      BY <1>2, <3>1, <3>2
    <3>4. QED
      BY <3>1, <3>3
  <2> HIDE DEF T
  <2>3. \A n \in 0..N : n \in T
    BY <1>1, <2>1, <2>2, UpTo
  <2>4. QED
    BY <2>3 DEF T
<1>13. ChosenUpTo(s, I, V, f)
  BY <1>11, <1>12 DEF ChosenUpTo, N, S, Step
<1>14. QED
  BY <1>4, <1>13 DEF N

\* c holds the members of s at the places e, of which each is in I and each
\* comes behind the one before.
PickedBy(s, I, c, e) ==
  /\ \A k \in 1..Len(c) : e[k] \in 1..Len(s) /\ e[k] \in I /\ c[k] = s[e[k]]
  /\ \A j, k \in 1..Len(c) : j < k => e[j] < e[k]

\* No place in I up to n is left out of e.
Complete(I, n, c, e) == \A i \in 1..n : i \in I => \E k \in 1..Len(c) : e[k] = i

LEMMA ChosenPicked ==
  ASSUME NEW V, NEW s \in Seq(V), NEW I
  PROVE  Chosen(s, I) \in Seq(V) /\ \E e : PickedBy(s, I, Chosen(s, I), e) /\ Complete(I, Len(s), Chosen(s, I), e)
<1>1. PICK f : ChosenUpTo(s, I, V, f) /\ Chosen(s, I) = f[Len(s)]
  BY ChosenSteps
<1> DEFINE N == Len(s)
           Holds(n) == \E e : /\ PickedBy(s, I, f[n], e) /\ Complete(I, n, f[n], e)
                              /\ \A k \in 1..Len(f[n]) : e[k] <= n
           T == {n \in 0..N : Holds(n)}
<1>2. N \in Nat /\ \A n \in 1..N : s[n] \in V
  BY LenProperties
<1>3. /\ \A n \in 0..N : f[n] \in Seq(V)
      /\ f[0] = <<>>
      /\ \A n \in 1..N : f[n] = IF n \in I THEN Append(f[n - 1], s[n]) ELSE f[n - 1]
  BY <1>1 DEF ChosenUpTo
<1>4. 0 \in T
  <2>1. Len(f[0]) = 0
    BY <1>3
  <2>2. PickedBy(s, I, f[0], <<>>) /\ \A k \in 1..Len(f[0]) : <<>>[k] <= 0
    BY <2>1 DEF PickedBy
  <2>3. Complete(I, 0, f[0], <<>>)
    BY DEF Complete
  <2>4. Holds(0)
    BY <2>2, <2>3
  <2>5. QED
    BY <1>2, <2>4
<1>5. ASSUME NEW n \in Nat, n < N, n \in T
      PROVE  n + 1 \in T
  <2>1. n \in 0..N /\ n + 1 \in 1..N /\ n + 1 \in 0..N /\ (n + 1) - 1 = n
    BY <1>2, <1>5
  <2>2. PICK e : PickedBy(s, I, f[n], e) /\ Complete(I, n, f[n], e) /\ \A k \in 1..Len(f[n]) : e[k] <= n
    BY <1>5
  <2>3. f[n] \in Seq(V) /\ Len(f[n]) \in Nat
    BY <1>3, <2>1, LenProperties
  <2>4. CASE n + 1 \notin I
    <3>1. f[n + 1] = f[n]
      BY <1>3, <2>1, <2>4
    <3>2. PickedBy(s, I, f[n + 1], e)
      BY <2>2, <3>1
    <3>3. \A k \in 1..Len(f[n + 1]) : e[k] <= n + 1
      <4>1. \A k \in 1..Len(f[n + 1]) : e[k] \in 1..Len(s) /\ e[k] <= n
        BY <2>2, <3>1 DEF PickedBy
      <4>2. QED
        BY <4>1
    <3>4. Complete(I, n + 1, f[n + 1], e)
      <4>1. \A i \in 1..(n + 1) : i \in I => i \in 1..n
        BY <2>1, <2>4
      <4>2. QED
        BY <2>2, <3>1, <4>1 DEF Complete
    <3>5. Holds(n + 1)
      BY <3>2, <3>3, <3>4
    <3>6. QED
      BY <2>1, <3>5
  <2>5. CASE n + 1 \in I
    <3> DEFINE L == Len(f[n])
               g == [k \in 1..(L + 1) |-> IF k = L + 1 THEN n + 1 ELSE e[k]]
    <3>1. f[n + 1] = Append(f[n], s[n + 1]) /\ s[n + 1] \in V
      BY <1>2, <1>3, <2>1, <2>5
    <3>2. /\ Len(f[n + 1]) = L + 1 /\ f[n + 1][L + 1] = s[n + 1]
          /\ \A k \in 1..L : f[n + 1][k] = f[n][k]
      BY <2>3, <3>1, AppendProperties
    <3>3. \A k \in 1..L : e[k] \in 1..N /\ e[k] \in I /\ f[n][k] = s[e[k]] /\ e[k] <= n
      BY <2>2 DEF PickedBy
    <3>4. \A j, k \in 1..L : j < k => e[j] < e[k]
      BY <2>2 DEF PickedBy
    <3>5. L \in Nat /\ g[L + 1] = n + 1 /\ \A k \in 1..L : g[k] = e[k]
      BY <2>3
    <3> HIDE DEF L, g
    <3>6. ASSUME NEW k \in 1..(L + 1)
          PROVE  g[k] \in 1..N /\ g[k] \in I /\ f[n + 1][k] = s[g[k]] /\ g[k] <= n + 1
      <4>1. CASE k = L + 1
        BY <2>1, <2>5, <3>2, <3>5, <4>1
      <4>2. CASE k \in 1..L
        BY <3>2, <3>3, <3>5, <4>2
      <4>3. QED
        BY <3>5, <4>1, <4>2
    <3>7. ASSUME NEW j \in 1..(L + 1), NEW k \in 1..(L + 1), j < k
          PROVE  g[j] < g[k]
      <4>1. j \in 1..L
        BY <3>5, <3>7
      <4>2. CASE k = L + 1
        BY <3>3, <3>5, <4>1, <4>2
      <4>3. CASE k \in 1..L
        BY <3>4, <3>5, <3>7, <4>1, <4>3
      <4>4. QED
        BY <3>5, <4>2, <4>3
    <3>8. PickedBy(s, I, f[n + 1], g)
      BY <3>2, <3>6, <3>7 DEF PickedBy, N
    <3>9. \A k \in 1..Len(f[n + 1]) : g[k] <= n + 1
      BY <3>2, <3>6
    <3>10. Complete(I, n + 1, f[n + 1], g)
      <4>1. \A i \in 1..(n + 1) : i = n + 1 \/ i \in 1..n
        OBVIOUS
      <4>2. \A k \in 1..L : k \in 1..(L + 1)
        BY <3>5
      <4>3. L + 1 \in 1..(L + 1)
        BY <3>5
      <4>4. \A i \in 1..n : i \in I => \E k \in 1..L : e[k] = i
        BY <2>2 DEF Complete, L
      <4>5. QED
        BY <3>2, <3>5, <4>1, <4>2, <4>3, <4>4 DEF Complete
    <3>11. Holds(n + 1)
      BY <3>8, <3>9, <3>10
    <3>12. QED
      BY <2>1, <3>11
  <2>6. QED
    BY <2>4, <2>5
<1>6. N \in T
  <2> HIDE DEF T
  <2>1. \A n \in 0..N : n \in T
    BY <1>2, <1>4, <1>5, UpTo
  <2>2. QED
    BY <1>2, <2>1
<1>7. N \in 0..N
  BY <1>2
<1>8. QED
  BY <1>1, <1>3, <1>6, <1>7

\* Where the members come in pairs, and the places too, pairs are chosen.
LEMMA ChosenInPairs ==
  ASSUME NEW V, NEW s \in Seq(V), NEW M \in Nat, Len(s) = 2 * M, NEW I,
         \A k \in 1..M : s[2 * k - 1] = s[2 * k] /\ (2 * k - 1 \in I <=> 2 * k \in I)
  PROVE  \E m \in Nat : Len(Chosen(s, I)) = 2 * m /\ \A k \in 1..m : Chosen(s, I)[2 * k - 1] = Chosen(s, I)[2 * k]
<1>1. PICK f : ChosenUpTo(s, I, V, f) /\ Chosen(s, I) = f[Len(s)]
  BY ChosenSteps
<1> DEFINE Paired(c) == \E m \in Nat : Len(c) = 2 * m /\ \A k \in 1..m : c[2 * k - 1] = c[2 * k]
           T == {n \in 0..M : Paired(f[2 * n])}
<1>2. \A n \in 1..(2 * M) : s[n] \in V
  BY LenProperties
<1>3. /\ \A n \in 0..(2 * M) : f[n] \in Seq(V)
      /\ f[0] = <<>>
      /\ \A n \in 1..(2 * M) : f[n] = IF n \in I THEN Append(f[n - 1], s[n]) ELSE f[n - 1]
  BY <1>1 DEF ChosenUpTo
<1>4. 0 \in T
  <2>1. Len(f[2 * 0]) = 2 * 0 /\ 0 \in Nat
    BY <1>3
  <2>2. Paired(f[2 * 0])
    BY <2>1
  <2>3. QED
    BY <2>2
<1>5. ASSUME NEW n \in Nat, n < M, n \in T
      PROVE  n + 1 \in T
  <2>1. /\ 2 * n \in 0..(2 * M) /\ 2 * n + 1 \in 1..(2 * M) /\ 2 * n + 2 \in 1..(2 * M) /\ n + 1 \in 1..M
        /\ (2 * n + 1) - 1 = 2 * n /\ (2 * n + 2) - 1 = 2 * n + 1
        /\ 2 * (n + 1) = 2 * n + 2 /\ 2 * (n + 1) - 1 = 2 * n + 1
    BY <1>5
  <2>2. s[2 * n + 1] = s[2 * n + 2] /\ (2 * n + 1 \in I <=> 2 * n + 2 \in I)
    BY <2>1
  <2>3. /\ f[2 * n + 1] = IF 2 * n + 1 \in I THEN Append(f[2 * n], s[2 * n + 1]) ELSE f[2 * n]
        /\ f[2 * n + 2] = IF 2 * n + 2 \in I THEN Append(f[2 * n + 1], s[2 * n + 2]) ELSE f[2 * n + 1]
    BY <1>3, <2>1
  <2>4. CASE 2 * n + 1 \notin I
    <3>1. f[2 * (n + 1)] = f[2 * n]
      BY <2>1, <2>2, <2>3, <2>4
    <3>2. QED
      BY <1>5, <2>1, <3>1
  <2>5. CASE 2 * n + 1 \in I
    <3> DEFINE c == f[2 * n]
               x == s[2 * n + 1]
               d == f[2 * n + 2]
    <3>1. PICK m \in Nat : Len(c) = 2 * m /\ \A k \in 1..m : c[2 * k - 1] = c[2 * k]
      BY <1>5
    <3>2. c \in Seq(V) /\ x \in V
      BY <1>2, <1>3, <2>1
    <3>3. d = Append(Append(c, x), x)
      BY <2>2, <2>3, <2>5
    <3> HIDE DEF c, x, d
    <3>4. /\ Append(c, x) \in Seq(V) /\ Len(Append(c, x)) = 2 * m + 1 /\ Append(c, x)[2 * m + 1] = x
          /\ \A i \in 1..(2 * m) : Append(c, x)[i] = c[i]
      BY <3>1, <3>2, AppendProperties
    <3>5. /\ Len(d) = 2 * m + 2 /\ d[2 * m + 2] = x
          /\ \A i \in 1..(2 * m + 1) : d[i] = Append(c, x)[i]
      <4>1. PICK b : b = Append(c, x)
        OBVIOUS
      <4>2. b \in Seq(V) /\ Len(b) = 2 * m + 1 /\ d = Append(b, x)
        BY <3>3, <3>4, <4>1
      <4>3. Len(d) = Len(b) + 1 /\ d[Len(b) + 1] = x /\ \A i \in 1..Len(b) : d[i] = b[i]
        BY <3>2, <4>2, AppendProperties
      <4>4. QED
        BY <4>1, <4>2, <4>3
    <3>6. ASSUME NEW k \in 1..(m + 1)
          PROVE  d[2 * k - 1] = d[2 * k]
      <4>1. CASE k = m + 1
        <5>1. 2 * k - 1 = 2 * m + 1 /\ 2 * k = 2 * m + 2 /\ 2 * m + 1 \in 1..(2 * m + 1)
          BY <4>1
        <5>2. QED
          BY <3>4, <3>5, <5>1
      <4>2. CASE k \in 1..m
        <5>1. 2 * k - 1 \in 1..(2 * m) /\ 2 * k \in 1..(2 * m) /\ 2 * k - 1 \in 1..(2 * m + 1) /\ 2 * k \in 1..(2 * m + 1)
          BY <4>2
        <5>2. QED
          BY <3>1, <3>4, <3>5, <4>2, <5>1
      <4>3. QED
        BY <4>1, <4>2
    <3>7. Paired(d)
      <4>1. m + 1 \in Nat /\ Len(d) = 2 * (m + 1)
        BY <3>5
      <4>2. QED
        BY <3>6, <4>1
    <3>8. d = f[2 * (n + 1)] /\ n + 1 \in 0..M
      BY <2>1 DEF d
    <3> HIDE DEF Paired
    <3>9. QED
      BY <3>7, <3>8
  <2>6. QED
    BY <2>4, <2>5
<1>6. M \in T
  <2> HIDE DEF T
  <2>1. \A n \in 0..M : n \in T
    BY <1>4, <1>5, UpTo
  <2>2. QED
    BY <2>1
<1>7. QED
  BY <1>1, <1>6

Frame == [t : Nat, id : Nat]
Rising(frames) == \A j, k \in 1..Len(frames) : j < k => frames[j].id < frames[k].id

\* What is sliced keeps its order and lies within.
LEMMA SliceFacts ==
  ASSUME NEW media \in Seq(Frame), Rising(media), NEW from \in Nat, NEW to \in Nat
  PROVE  /\ Slice(media, from, to) \in Seq(Frame) /\ Rising(Slice(media, from, to))
         /\ Slice(media, from, to) # <<>> => from < to
<1> DEFINE I == {i \in 1..Len(media) : from <= media[i].t /\ media[i].t < to}
           c == Slice(media, from, to)
<1>1. c = Chosen(media, I)
  BY DEF Slice
<1>2. \A i \in 1..Len(media) : media[i].t \in Nat /\ media[i].id \in Nat
  <2>1. \A i \in 1..Len(media) : media[i] \in Frame
    BY LenProperties
  <2>2. QED
    BY <2>1 DEF Frame
<1>3. \A i \in I : i \in 1..Len(media) /\ from < to
  BY <1>2
<1> HIDE DEF I, c
<1>4. c \in Seq(Frame)
  BY <1>1, ChosenPicked
<1>5. PICK e : PickedBy(media, I, c, e)
  BY <1>1, ChosenPicked
<1>6. Rising(c)
  BY <1>5 DEF PickedBy, Rising
<1>7. c # <<>> => from < to
  <2>1. c # <<>> => 1 \in 1..Len(c)
    BY <1>4, EmptySeq
  <2>2. \A k \in 1..Len(c) : e[k] \in I
    BY <1>5 DEF PickedBy
  <2>3. QED
    BY <1>3, <2>1, <2>2
<1>8. QED
  BY <1>4, <1>6, <1>7 DEF c

\* Time is counted in naturals.
LEMMA TicksType ==
  ASSUME NEW V, input \in Seq(V)
  PROVE  /\ Len(input) \in Nat /\ \A i : Ticks(i) \in Nat
         /\ Begin \in Nat
<1>1. Len(input) \in Nat
  BY LenProperties
<1>2. \A i : Ticks(i) \in Nat
  <2>1. IsFiniteSet(1..Len(input))
    BY <1>1, FS_Interval
  <2>2. ASSUME NEW i
        PROVE  Ticks(i) \in Nat
    <3>1. {j \in Places("tick") : j <= i} \subseteq 1..Len(input)
      BY DEF Places
    <3>2. QED
      BY <2>1, <3>1, FS_Subset, FS_CardinalityType DEF Ticks
  <2>3. QED
    BY <2>2
<1>3. Begin \in Nat
  BY <1>2 DEF Begin
<1>4. QED
  BY <1>1, <1>2, <1>3

\* The frames, or the samples, that were put in, each under its own number.
LEMMA MediaFacts ==
  ASSUME NEW V, input \in Seq(V), NEW what
  PROVE  Media(what) \in Seq(Frame) /\ Rising(Media(what))
<1> DEFINE N == Len(input)
           all == [i \in 1..N |-> i]
           at == Chosen(all, Places(what))
<1>1. N \in Nat /\ \A i : Ticks(i) \in Nat
  BY TicksType
<1>2. all \in Seq(Nat) /\ Len(all) = N /\ \A i \in 1..N : all[i] = i
  BY <1>1
<1> HIDE DEF N, all
<1>3. at \in Seq(Nat)
  BY <1>2, ChosenPicked
<1>4. PICK e : PickedBy(all, Places(what), at, e)
  BY <1>2, ChosenPicked
<1>5. Media(what) = [i \in 1..Len(at) |-> [t |-> Ticks(at[i]), id |-> at[i]]]
  BY DEF Media, all, N
<1> HIDE DEF at
<1>6. Len(at) \in Nat /\ \A i \in 1..Len(at) : at[i] \in Nat
  BY <1>3, LenProperties
<1>7. \A i \in 1..Len(at) : [t |-> Ticks(at[i]), id |-> at[i]] \in Frame
  BY <1>1, <1>6 DEF Frame
<1>8. Media(what) \in Seq(Frame) /\ Len(Media(what)) = Len(at)
  BY <1>5, <1>6, <1>7
<1>9. \A j, k \in 1..Len(at) : j < k => at[j] < at[k]
  <2>1. \A k \in 1..Len(at) : e[k] \in 1..N /\ at[k] = e[k]
    BY <1>2, <1>4 DEF PickedBy
  <2>2. \A j, k \in 1..Len(at) : j < k => e[j] < e[k]
    BY <1>4 DEF PickedBy
  <2>3. QED
    BY <2>1, <2>2
<1>10. Rising(Media(what))
  BY <1>5, <1>8, <1>9 DEF Rising
<1>11. QED
  BY <1>8, <1>10

\* The two bytes of a sample are sliced together.
LEMMA BytesInPairs ==
  ASSUME NEW V, input \in Seq(V), NEW from \in Nat, NEW to \in Nat
  PROVE  LET c == Slice(Bytes, from, to) IN
         c \in Seq(Frame) /\ \E m \in Nat : Len(c) = 2 * m /\ \A k \in 1..m : c[2 * k - 1] = c[2 * k]
<1> DEFINE pcm == Media("pcm")
           M == Len(pcm)
           I == {i \in 1..Len(Bytes) : from <= Bytes[i].t /\ Bytes[i].t < to}
<1>1. pcm \in Seq(Frame)
  BY MediaFacts
<1>2. M \in Nat /\ \A i \in 1..M : pcm[i] \in Frame
  BY <1>1, LenProperties
<1> HIDE DEF pcm
<1>3. \A i \in 1..(2 * M) : (i + 1) \div 2 \in 1..M
  BY <1>2
<1>4. Bytes = [i \in 1..(2 * M) |-> pcm[(i + 1) \div 2]]
  BY DEF Bytes, pcm
<1> HIDE DEF M
<1>5. Bytes \in Seq(Frame) /\ Len(Bytes) = 2 * M
  BY <1>2, <1>3, <1>4
<1>6. ASSUME NEW k \in 1..M
      PROVE  Bytes[2 * k - 1] = Bytes[2 * k] /\ (2 * k - 1 \in I <=> 2 * k \in I)
  <2>1. 2 * k - 1 \in 1..(2 * M) /\ 2 * k \in 1..(2 * M)
    BY <1>2
  <2>2. ((2 * k - 1) + 1) \div 2 = k /\ (2 * k + 1) \div 2 = k
    BY <1>2
  <2>3. Bytes[2 * k - 1] = pcm[k] /\ Bytes[2 * k] = pcm[k]
    BY <1>4, <2>1, <2>2
  <2>4. QED
    BY <1>5, <2>1, <2>3
<1>7. Slice(Bytes, from, to) = Chosen(Bytes, I)
  BY DEF Slice
<1> HIDE DEF I
<1>8. Chosen(Bytes, I) \in Seq(Frame)
  BY <1>5, ChosenPicked
<1>9. \E m \in Nat : /\ Len(Chosen(Bytes, I)) = 2 * m
                     /\ \A k \in 1..m : Chosen(Bytes, I)[2 * k - 1] = Chosen(Bytes, I)[2 * k]
  <2>1. PICK b : b = Bytes
    OBVIOUS
  <2>2. b \in Seq(Frame) /\ Len(b) = 2 * M
    BY <1>5, <2>1
  <2>3. \A k \in 1..M : b[2 * k - 1] = b[2 * k] /\ (2 * k - 1 \in I <=> 2 * k \in I)
    BY <1>6, <2>1
  <2>4. \E m \in Nat : Len(Chosen(b, I)) = 2 * m /\ \A k \in 1..m : Chosen(b, I)[2 * k - 1] = Chosen(b, I)[2 * k]
    BY <1>2, <2>2, <2>3, ChosenInPairs
  <2>5. QED
    BY <2>1, <2>4
<1>10. QED
  BY <1>7, <1>8, <1>9

\* The newest members of a sequence, at their places.
LEMMA NewestIs ==
  ASSUME NEW V, NEW s \in Seq(V), NEW n \in Nat
  PROVE  LET L == IF n >= Len(s) THEN Len(s) ELSE n IN
         /\ Newest(n, s) \in Seq(V) /\ Len(Newest(n, s)) = L
         /\ \A k \in 1..L : Newest(n, s)[k] = s[Len(s) - L + k]
<1>1. Len(s) \in Nat /\ \A i \in 1..Len(s) : s[i] \in V
  BY LenProperties
<1>2. CASE n >= Len(s)
  <2>1. Newest(n, s) = s /\ \A k \in 1..Len(s) : Len(s) - Len(s) + k = k
    BY <1>1, <1>2 DEF Newest
  <2>2. QED
    BY <1>2, <2>1
<1>3. CASE ~ (n >= Len(s))
  <2> DEFINE from == Len(s) - n + 1
             sub == SubSeq(s, from, Len(s))
  <2>1. from \in Int /\ Len(s) \in Int /\ \A i \in from..Len(s) : s[i] \in V
    BY <1>1, <1>3
  <2>2. /\ sub \in Seq(V) /\ Len(sub) = IF from <= Len(s) THEN Len(s) - from + 1 ELSE 0
        /\ \A i \in 1..(Len(s) - from + 1) : sub[i] = s[from + i - 1]
    <3> HIDE DEF from
    <3>1. QED
      BY <2>1, SubSeqProperties
  <2>3. Len(s) - from + 1 = n /\ Len(sub) = n /\ \A k \in 1..n : from + k - 1 = Len(s) - n + k
    BY <1>1, <1>3, <2>2
  <2>4. Newest(n, s) = sub
    BY <1>3 DEF Newest
  <2> HIDE DEF from, sub
  <2>5. \A k \in 1..n : sub[k] = s[Len(s) - n + k]
    BY <2>2, <2>3
  <2>6. QED
    BY <1>3, <2>2, <2>3, <2>4, <2>5
<1>4. QED
  BY <1>2, <1>3

LEMMA DivisionIs ==
  ASSUME NEW a \in Int, NEW c \in Nat \ {0}
  PROVE  a \div c \in Int /\ a % c \in 0..(c - 1) /\ a = c * (a \div c) + (a % c)
OBVIOUS

\* What is rounded from at least m is at least m.
LEMMA RoundedAtLeast ==
  ASSUME NEW n \in Nat, NEW d \in Nat \ {0}
  PROVE  Rounded(n, d) \in Nat /\ \A m \in Nat : n >= m * d => Rounded(n, d) >= m
<1>1. PICK q, r : q = n \div d /\ r = n % d
  OBVIOUS
<1>2. q \in Int /\ r \in 0..(d - 1) /\ n = d * q + r
  BY <1>1
<1>3. q \in Nat
  BY <1>2
<1>4. ASSUME NEW m \in Nat, n >= m * d
      PROVE  q >= m
  <2>1. d * m <= d * q + r /\ r < d
    BY <1>2, <1>4
  <2>2. d * (m - q) < d
    BY <1>2, <2>1
  <2>3. ~ (m - q >= 1)
    BY <1>2, <2>2
  <2>4. QED
    BY <1>2, <2>3
<1>5. Rounded(n, d) = q \/ Rounded(n, d) = q + 1
  BY <1>1, Zenon DEF Rounded
<1>6. QED
  BY <1>3, <1>4, <1>5

\* The place in a sentence of n frames of the one that is sampled as the i-th.
Place(n, i) == IF n <= FrameCap THEN i ELSE (((i - 1) * n) \div FrameCap) + 1
Sampled(n) == IF n <= FrameCap THEN n ELSE FrameCap
Every(n) == (n + FrameCap - 1) \div FrameCap

\* The places of two that follow one another lie no further apart than every
\* n / FrameCap, rounded up.
LEMMA SampleStep ==
  ASSUME NEW n \in Nat \ {0}, NEW c \in Nat \ {0}, n > c, NEW i \in Nat
  PROVE  LET e == (n + c - 1) \div c IN
         /\ (i * n) \div c \in Nat
         /\ ((i + 1) * n) \div c - (i * n) \div c <= e
         /\ ((i + 1) * n) \div c > (i * n) \div c
         /\ e \in Nat
<1> DEFINE q == (i * n) \div c
           p == ((i + 1) * n) \div c
           e == (n + c - 1) \div c
           r == (i * n) % c
           u == ((i + 1) * n) % c
           v == (n + c - 1) % c
<1>1. i * n \in Int /\ (i + 1) * n \in Int /\ n + c - 1 \in Int /\ (i + 1) * n = i * n + n
  OBVIOUS
<1>2. q \in Int /\ r \in 0..(c - 1) /\ i * n = c * q + r
  BY <1>1, DivisionIs
<1>3. p \in Int /\ u \in 0..(c - 1) /\ (i + 1) * n = c * p + u
  BY <1>1, DivisionIs
<1>4. e \in Int /\ v \in 0..(c - 1) /\ n + c - 1 = c * e + v
  BY <1>1, DivisionIs
<1> HIDE DEF q, p, e, r, u, v
<1>5. c * (p - q - e) < c
  BY <1>1, <1>2, <1>3, <1>4
<1>6. ~ (p - q - e >= 1)
  BY <1>1, <1>2, <1>3, <1>4, <1>5
<1>7. c * (p - q) > 0
  BY <1>1, <1>2, <1>3
<1>8. p - q > 0
  BY <1>1, <1>2, <1>3, <1>7
<1>9. q >= 0 /\ e >= 0
  <2>1. i * n >= 0 /\ c * (q + 1) > 0 /\ c * (e + 1) > 0
    BY <1>1, <1>2, <1>4
  <2>2. QED
    BY <1>1, <1>2, <1>4, <2>1
<1>10. QED
  BY <1>2, <1>3, <1>4, <1>6, <1>8, <1>9 DEF q, p, e

\* The last that is sampled lies no further from the end.
LEMMA SampleEnd ==
  ASSUME NEW n \in Nat \ {0}, NEW c \in Nat \ {0}, n > c
  PROVE  LET p == ((c - 1) * n) \div c IN
         p < n /\ n - (p + 1) < (n + c - 1) \div c
<1>1. c - 1 \in Nat /\ (c - 1) + 1 = c
  OBVIOUS
<1>2. LET e == (n + c - 1) \div c IN
      /\ ((c - 1) * n) \div c \in Nat
      /\ (((c - 1) + 1) * n) \div c - ((c - 1) * n) \div c <= e
      /\ (((c - 1) + 1) * n) \div c > ((c - 1) * n) \div c
      /\ e \in Nat
  BY <1>1, SampleStep
<1>3. (((c - 1) + 1) * n) \div c = n
  <2>1. ((c - 1) + 1) * n = c * n /\ (c * n) \div c = n
    OBVIOUS
  <2>2. QED
    BY <2>1
<1>4. QED
  BY <1>2, <1>3

\* Where the sampled frames lie.
LEMMA PlaceFacts ==
  ASSUME NEW n \in Nat \ {0}
  PROVE  /\ Sampled(n) \in Nat \ {0} /\ Sampled(n) <= n /\ Every(n) \in Nat
         /\ \A i \in 1..Sampled(n) : Place(n, i) \in 1..n
         /\ \A i \in 1..(Sampled(n) - 1) :
              Place(n, i) < Place(n, i + 1) /\ Place(n, i + 1) - Place(n, i) <= Every(n)
         /\ n - Place(n, Sampled(n)) < Every(n)
         /\ Place(n, 1) = 1
<1>1. FrameCap \in Nat \ {0}
  BY CapsAssumption
<1>2. CASE n <= FrameCap
  <2>1. Sampled(n) = n /\ \A i : Place(n, i) = i
    BY <1>2 DEF Sampled, Place
  <2>2. Every(n) \in Nat /\ Every(n) >= 1
    <3>1. PICK e : e = Every(n)
      OBVIOUS
    <3>2. n + FrameCap - 1 \in Int
      BY <1>1
    <3>3. e \in Int /\ (n + FrameCap - 1) % FrameCap \in 0..(FrameCap - 1)
          /\ n + FrameCap - 1 = FrameCap * e + ((n + FrameCap - 1) % FrameCap)
      BY <1>1, <3>1, <3>2, DivisionIs DEF Every
    <3>4. FrameCap * e > 0
      BY <1>1, <3>3
    <3>5. e > 0
      BY <1>1, <3>3, <3>4
    <3>6. QED
      BY <3>1, <3>3, <3>5
  <2>3. QED
    BY <2>1, <2>2
<1>3. CASE ~ (n <= FrameCap)
  <2> DEFINE c == FrameCap
             at(i) == (i * n) \div c
  <2>1. c \in Nat \ {0} /\ n > c /\ Sampled(n) = c /\ \A i : Place(n, i) = at(i - 1) + 1
    BY <1>1, <1>3 DEF Sampled, Place
  <2>2. Every(n) = (n + c - 1) \div c
    BY DEF Every
  <2>3. \A i \in Nat : at(i) \in Nat /\ at(i + 1) - at(i) <= Every(n) /\ at(i + 1) > at(i) /\ Every(n) \in Nat
    BY <2>1, <2>2, SampleStep
  <2>4. at(c - 1) < n /\ n - (at(c - 1) + 1) < Every(n)
    BY <2>1, <2>2, SampleEnd
  <2>5. at(0) = 0
    BY <2>1
  <2> HIDE DEF c, at
  <2>6. \A i \in 0..(c - 1) : at(i) <= at(c - 1)
    <3> DEFINE T == {k \in 0..(c - 1) : at((c - 1) - k) <= at(c - 1)}
    <3>1. c - 1 \in Nat /\ (c - 1) - 0 = c - 1 /\ at(c - 1) \in Nat
      BY <2>1, <2>3
    <3>2. 0 \in T
      BY <3>1
    <3>3. ASSUME NEW k \in Nat, k < c - 1, k \in T
          PROVE  k + 1 \in T
      <4>1. (c - 1) - (k + 1) \in Nat /\ ((c - 1) - (k + 1)) + 1 = (c - 1) - k /\ k + 1 \in 0..(c - 1) /\ (c - 1) - k \in Nat
        BY <3>1, <3>3
      <4>2. at((c - 1) - (k + 1)) < at((c - 1) - k) /\ at((c - 1) - (k + 1)) \in Nat /\ at((c - 1) - k) \in Nat
        BY <2>3, <4>1
      <4>3. at((c - 1) - k) <= at(c - 1)
        BY <3>3
      <4>4. QED
        BY <3>1, <4>1, <4>2, <4>3
    <3> HIDE DEF T
    <3>4. \A k \in 0..(c - 1) : k \in T
      BY <3>1, <3>2, <3>3, UpTo
    <3>5. ASSUME NEW i \in 0..(c - 1)
          PROVE  at(i) <= at(c - 1)
      <4>1. (c - 1) - i \in 0..(c - 1) /\ (c - 1) - ((c - 1) - i) = i
        BY <3>1
      <4>2. at((c - 1) - ((c - 1) - i)) <= at(c - 1)
        BY <3>4, <4>1 DEF T
      <4>3. QED
        BY <4>1, <4>2
    <3>6. QED
      BY <3>5
  <2>7. ASSUME NEW i \in 1..c
        PROVE  Place(n, i) \in 1..n
    <3>1. i - 1 \in 0..(c - 1) /\ i - 1 \in Nat /\ c - 1 \in Nat
      BY <2>1
    <3>2. at(i - 1) \in Nat /\ at(i - 1) <= at(c - 1) /\ at(c - 1) \in Nat
      BY <2>3, <2>6, <3>1
    <3>3. QED
      BY <2>1, <2>4, <3>2
  <2>8. ASSUME NEW i \in 1..(c - 1)
        PROVE  Place(n, i) < Place(n, i + 1) /\ Place(n, i + 1) - Place(n, i) <= Every(n)
    <3>1. i - 1 \in Nat /\ (i - 1) + 1 = i /\ (i + 1) - 1 = i /\ i \in Nat
      BY <2>1
    <3>2. at(i - 1) \in Nat /\ at(i) \in Nat /\ at(i) - at(i - 1) <= Every(n) /\ at(i) > at(i - 1)
      BY <2>3, <3>1
    <3>3. Place(n, i) = at(i - 1) + 1 /\ Place(n, i + 1) = at(i) + 1
      BY <2>1, <3>1
    <3>4. QED
      BY <3>2, <3>3
  <2>9. Place(n, 1) = 1
    <3>1. 1 - 1 = 0 /\ Place(n, 1) = at(1 - 1) + 1
      BY <2>1
    <3>2. QED
      BY <2>5, <3>1
  <2>10. n - Place(n, c) < Every(n)
    BY <2>1, <2>4
  <2>11. Every(n) \in Nat
    BY <2>3
  <2>12. QED
    BY <2>1, <2>7, <2>8, <2>9, <2>10, <2>11
<1>4. QED
  BY <1>2, <1>3

\* The sample of a sentence's frames.
LEMMA CapIs ==
  ASSUME NEW frames \in Seq(Frame)
  PROVE  LET n == Len(frames)
             clip == CapFrames(frames) IN
         /\ clip = <<>> <=> frames = <<>>
         /\ n # 0 => /\ clip \in Seq(Frame) /\ Len(clip) = Sampled(n)
                     /\ \A i \in 1..Sampled(n) : clip[i] = frames[Place(n, i)]
<1> DEFINE n == Len(frames)
           clip == CapFrames(frames)
<1>1. n \in Nat /\ (n = 0 <=> frames = <<>>) /\ \A i \in 1..n : frames[i] \in Frame
  BY EmptySeq, LenProperties
<1>2. FrameCap \in Nat \ {0}
  BY CapsAssumption
<1>3. CASE n <= FrameCap
  <2>1. clip = frames
    BY <1>3 DEF CapFrames
  <2>2. Sampled(n) = n /\ \A i : Place(n, i) = i
    BY <1>3 DEF Sampled, Place
  <2>3. QED
    BY <1>1, <2>1, <2>2
<1>4. CASE ~ (n <= FrameCap)
  <2>1. clip = [i \in 1..FrameCap |-> frames[(((i - 1) * n) \div FrameCap) + 1]]
    BY <1>4 DEF CapFrames
  <2>2. Sampled(n) = FrameCap /\ \A i : Place(n, i) = (((i - 1) * n) \div FrameCap) + 1
    BY <1>4 DEF Sampled, Place
  <2>3. clip = [i \in 1..FrameCap |-> frames[Place(n, i)]]
    BY <2>1, <2>2
  <2> HIDE DEF n, clip
  <2>4. n \in Nat \ {0} /\ \A i \in 1..FrameCap : Place(n, i) \in 1..n
    <3>1. n \in Nat \ {0}
      BY <1>1, <1>2, <1>4
    <3>2. \A i \in 1..Sampled(n) : Place(n, i) \in 1..n
      BY <3>1, PlaceFacts
    <3>3. QED
      BY <2>2, <3>1, <3>2
  <2>5. \A i \in 1..FrameCap : frames[Place(n, i)] \in Frame
    BY <1>1, <2>4
  <2>6. clip \in Seq(Frame) /\ Len(clip) = FrameCap /\ \A i \in 1..FrameCap : clip[i] = frames[Place(n, i)]
    BY <1>2, <2>3, <2>5
  <2>7. clip # <<>>
    BY <1>2, <2>6, EmptySeq
  <2>8. QED
    BY <1>1, <2>2, <2>4, <2>6, <2>7 DEF n, clip
<1>5. QED
  BY <1>3, <1>4

\* The rate is such that a sentence no longer than a clip may be is sent whole.
LEMMA RateFits ==
  ASSUME NEW clip, Len(clip) \in Nat \ {0}, NEW from \in Nat, NEW to \in Nat, from < to
  PROVE  LET fps == Rate2(clip, from, to) IN
         /\ fps[1] \in Nat /\ fps[2] \in Nat \ {0} /\ VideoMax * fps[1] \in Nat
         /\ to - from <= 2 * VideoMax => VideoMax * fps[1] >= Len(clip) * fps[2]
<1> DEFINE c == Len(clip)
           dur == to - from
           fps == Rate2(clip, from, to)
<1>1. dur \in Nat \ {0} /\ c \in Nat \ {0} /\ VideoMax \in Nat
  BY CapsAssumption
<1>2. fps = IF 4 * c < dur THEN <<1, 2>> ELSE <<2 * c, dur>>
  BY <1>1 DEF Rate2
<1> HIDE DEF c, dur, fps
<1>3. CASE 4 * c < dur
  <2>1. fps[1] = 1 /\ fps[2] = 2
    BY <1>2, <1>3
  <2>2. dur <= 2 * VideoMax => VideoMax * 1 >= c * 2
    BY <1>1, <1>3
  <2>3. QED
    BY <1>1, <2>1, <2>2 DEF c, dur, fps
<1>4. CASE ~ (4 * c < dur)
  <2>1. fps[1] = 2 * c /\ fps[2] = dur
    BY <1>2, <1>4
  <2>2. dur <= 2 * VideoMax => VideoMax * (2 * c) >= c * dur
    <3>1. VideoMax * (2 * c) = c * (2 * VideoMax)
      BY <1>1
    <3>2. dur <= 2 * VideoMax => c * dur <= c * (2 * VideoMax)
      BY <1>1
    <3>3. QED
      BY <3>1, <3>2
  <2>3. VideoMax * (2 * c) \in Nat /\ 2 * c \in Nat
    BY <1>1
  <2>4. QED
    BY <1>1, <2>1, <2>2, <2>3 DEF c, dur, fps
<1>5. QED
  BY <1>3, <1>4

\* What the model is shown of a sentence's frames: of the sample all, or the
\* latest.
LEMMA ShownIs ==
  ASSUME NEW frames \in Seq(Frame), frames # <<>>, NEW from \in Nat, NEW to \in Nat, from < to
  PROVE  LET n == Len(frames)
             clip == CapFrames(frames)
             shown == AssembleVideo(clip, Rate2(clip, from, to)) IN
         \E m \in 0..(Sampled(n) - 1) :
           /\ Len(shown) = Sampled(n) - m
           /\ \A k \in 1..(Sampled(n) - m) : shown[k] = frames[Place(n, m + k)]
           /\ to - from <= 2 * VideoMax => m = 0
<1> DEFINE n == Len(frames)
           clip == CapFrames(frames)
           C == Sampled(n)
           fps == Rate2(clip, from, to)
           rounded == Rounded(VideoMax * fps[1], fps[2])
           fit == IF rounded < 1 THEN 1 ELSE rounded
           shown == AssembleVideo(clip, fps)
<1>1. n \in Nat \ {0}
  BY EmptySeq
<1>2. clip \in Seq(Frame) /\ Len(clip) = C /\ \A i \in 1..C : clip[i] = frames[Place(n, i)]
  BY <1>1, CapIs
<1> HIDE DEF n, clip
<1>3. C \in Nat \ {0}
  BY <1>1, PlaceFacts
<1> HIDE DEF C
<1>4. /\ fps[1] \in Nat /\ fps[2] \in Nat \ {0} /\ VideoMax * fps[1] \in Nat
      /\ to - from <= 2 * VideoMax => VideoMax * fps[1] >= C * fps[2]
  BY <1>2, <1>3, RateFits
<1>5. shown = Newest(fit, clip)
  BY DEF AssembleVideo
<1> HIDE DEF fps, shown
<1>6. rounded \in Nat /\ (to - from <= 2 * VideoMax => rounded >= C)
  <2>1. PICK a, d : a = VideoMax * fps[1] /\ d = fps[2]
    OBVIOUS
  <2>2. a \in Nat /\ d \in Nat \ {0} /\ rounded = Rounded(a, d) /\ (to - from <= 2 * VideoMax => a >= C * d)
    BY <1>4, <2>1
  <2>3. Rounded(a, d) \in Nat /\ \A m \in Nat : a >= m * d => Rounded(a, d) >= m
    BY <2>2, RoundedAtLeast
  <2>4. QED
    BY <1>3, <2>2, <2>3
<1> HIDE DEF rounded
<1>7. fit \in Nat \ {0} /\ (to - from <= 2 * VideoMax => fit >= C)
  BY <1>3, <1>6
<1> HIDE DEF fit
<1> DEFINE L == IF fit >= C THEN C ELSE fit
           m == C - L
<1>8. L \in 1..C /\ m \in 0..(C - 1) /\ C - m = L /\ (to - from <= 2 * VideoMax => m = 0)
  BY <1>3, <1>7
<1>9. Len(shown) = L /\ \A k \in 1..L : shown[k] = clip[C - L + k]
  BY <1>2, <1>5, <1>7, NewestIs
<1> HIDE DEF L
<1>10. \A k \in 1..L : C - L + k \in 1..C /\ m + k = C - L + k
  BY <1>3, <1>8
<1> HIDE DEF m
<1>11. \A k \in 1..L : shown[k] = frames[Place(n, m + k)]
  BY <1>2, <1>9, <1>10
<1>12. /\ Len(shown) = C - m
       /\ \A k \in 1..(C - m) : shown[k] = frames[Place(n, m + k)]
       /\ to - from <= 2 * VideoMax => m = 0
  BY <1>8, <1>9, <1>11
<1>13. QED
  BY <1>8, <1>12 DEF n, clip, C, fps, shown

\* The samples the model hears are whole ones.
LEMMA HeardInPairs ==
  ASSUME NEW V, NEW pcm \in Seq(V), NEW m \in Nat, Len(pcm) = 2 * m,
         \A k \in 1..m : pcm[2 * k - 1] = pcm[2 * k]
  PROVE  LET heard == AssembleAudio(pcm) IN
         \A i \in 1..(Len(heard) \div 2) : heard[2 * i - 1] = heard[2 * i]
<1> DEFINE L == IF AudioMax >= 2 * m THEN 2 * m ELSE AudioMax
           clipped == Newest(AudioMax, pcm)
           heard == AssembleAudio(pcm)
<1>1. AudioMax \in Nat /\ L \in Nat /\ L <= 2 * m
  BY CapsAssumption
<1>2. clipped \in Seq(V) /\ Len(clipped) = L /\ \A k \in 1..L : clipped[k] = pcm[2 * m - L + k]
  <2>1. LET M == IF AudioMax >= Len(pcm) THEN Len(pcm) ELSE AudioMax IN
        /\ clipped \in Seq(V) /\ Len(clipped) = M
        /\ \A k \in 1..M : clipped[k] = pcm[Len(pcm) - M + k]
    BY <1>1, NewestIs
  <2> HIDE DEF clipped
  <2>2. QED
    BY <2>1
<1>3. heard = IF L % 2 = 1 THEN Tail(clipped) ELSE clipped
  BY <1>2 DEF AssembleAudio
<1> HIDE DEF L, clipped, heard
<1>4. \A h \in Nat : (2 * h) % 2 = 0 /\ (2 * h + 1) % 2 = 1 /\ (2 * h) \div 2 = h
  OBVIOUS
<1>5. PICK h \in Nat : L = 2 * h \/ L = 2 * h + 1
  <2>1. L = 2 * (L \div 2) + (L % 2) /\ L \div 2 \in Int /\ L % 2 \in 0..1
    BY <1>1
  <2>2. L \div 2 \in Nat
    BY <1>1, <2>1
  <2>3. QED
    BY <2>1, <2>2
<1>6. CASE L = 2 * h
  <2>1. heard = clipped /\ Len(heard) \div 2 = h
    <3>1. heard = clipped
      BY <1>3, <1>4, <1>6
    <3>2. Len(heard) = 2 * h
      BY <1>2, <1>6, <3>1
    <3>3. QED
      BY <1>4, <3>1, <3>2
  <2>2. ASSUME NEW i \in 1..h
        PROVE  heard[2 * i - 1] = heard[2 * i]
    <3>1. /\ 2 * i - 1 \in 1..L /\ 2 * i \in 1..L /\ m - h + i \in 1..m
          /\ 2 * m - L + (2 * i - 1) = 2 * (m - h + i) - 1 /\ 2 * m - L + 2 * i = 2 * (m - h + i)
      BY <1>1, <1>6
    <3>2. heard[2 * i - 1] = pcm[2 * (m - h + i) - 1] /\ heard[2 * i] = pcm[2 * (m - h + i)]
      BY <1>2, <2>1, <3>1
    <3>3. QED
      BY <3>1, <3>2
  <2>3. QED
    BY <2>1, <2>2 DEF heard
<1>7. CASE L = 2 * h + 1
  <2>1. clipped # <<>>
    BY <1>2, <1>7, EmptySeq
  <2>2. /\ heard = Tail(clipped) /\ Len(heard) = 2 * h
        /\ \A i \in 1..(2 * h) : heard[i] = clipped[i + 1]
    <3>1. heard = Tail(clipped)
      BY <1>3, <1>4, <1>7
    <3>2. /\ Len(Tail(clipped)) = Len(clipped) - 1
          /\ \A i \in 1..Len(Tail(clipped)) : Tail(clipped)[i] = clipped[i + 1]
      BY <1>2, <2>1, HeadTailProperties
    <3>3. Len(clipped) - 1 = 2 * h
      BY <1>2, <1>7
    <3>4. QED
      BY <3>1, <3>2, <3>3
  <2>3. ASSUME NEW i \in 1..h
        PROVE  heard[2 * i - 1] = heard[2 * i]
    <3>1. /\ 2 * i - 1 \in 1..(2 * h) /\ 2 * i \in 1..(2 * h) /\ m - h + i \in 1..m
          /\ (2 * i - 1) + 1 \in 1..L /\ 2 * i + 1 \in 1..L
          /\ 2 * m - L + ((2 * i - 1) + 1) = 2 * (m - h + i) - 1
          /\ 2 * m - L + (2 * i + 1) = 2 * (m - h + i)
      BY <1>1, <1>7
    <3>2. heard[2 * i - 1] = clipped[(2 * i - 1) + 1] /\ heard[2 * i] = clipped[2 * i + 1]
      BY <2>2, <3>1
    <3>3. heard[2 * i - 1] = pcm[2 * (m - h + i) - 1] /\ heard[2 * i] = pcm[2 * (m - h + i)]
      BY <1>2, <3>1, <3>2
    <3>4. QED
      BY <3>1, <3>3
  <2>4. Len(heard) \div 2 = h
    BY <1>4, <2>2
  <2>5. QED
    BY <2>3, <2>4 DEF heard
<1>8. QED
  BY <1>5, <1>6, <1>7

\* A frame is found where it is.
LEMMA FoundAt ==
  ASSUME NEW frames \in Seq(Frame), Rising(frames), NEW j \in 1..Len(frames)
  PROVE  (CHOOSE i \in 1..Len(frames) : frames[i] = frames[j]) = j
<1>1. Len(frames) \in Nat /\ \A i \in 1..Len(frames) : frames[i].id \in Nat
  <2>1. \A i \in 1..Len(frames) : frames[i] \in Frame
    BY LenProperties
  <2>2. QED
    BY <2>1, LenProperties DEF Frame
<1>2. ASSUME NEW i \in 1..Len(frames), frames[i] = frames[j]
      PROVE  i = j
  <2>1. ~ (i < j) /\ ~ (j < i)
    BY <1>1, <1>2 DEF Rising
  <2>2. QED
    BY <1>1, <2>1
<1> DEFINE i == CHOOSE i \in 1..Len(frames) : frames[i] = frames[j]
<1>3. i \in 1..Len(frames) /\ frames[i] = frames[j]
  OBVIOUS
<1> HIDE DEF i
<1>4. i = j
  BY <1>2, <1>3
<1>5. QED
  BY <1>4 DEF i

\* What the model is shown of a sentence, against all of its frames.
LEMMA ShownKept ==
  ASSUME NEW frames \in Seq(Frame), Rising(frames), frames # <<>>,
         NEW from \in Nat, NEW to \in Nat, from < to,
         NEW shown, shown = AssembleVideo(CapFrames(frames), Rate2(CapFrames(frames), from, to))
  PROVE  LET place(f) == CHOOSE i \in 1..Len(frames) : frames[i] = f
             every == (Len(frames) + FrameCap - 1) \div FrameCap IN
         /\ \A i \in 1..(Len(shown) - 1) :
              place(shown[i]) < place(shown[i + 1]) /\ place(shown[i + 1]) - place(shown[i]) <= every
         /\ Len(frames) - place(Last(shown)) < every
         /\ to - from <= 2 * VideoMax =>
              shown[1] = frames[1] /\ Len(shown) = Min({FrameCap, Len(frames)})
<1> DEFINE n == Len(frames)
           C == Sampled(n)
           place(f) == CHOOSE i \in 1..n : frames[i] = f
<1>1. n \in Nat \ {0}
  BY EmptySeq
<1>2. PICK m \in 0..(C - 1) :
        /\ Len(shown) = C - m
        /\ \A k \in 1..(C - m) : shown[k] = frames[Place(n, m + k)]
        /\ to - from <= 2 * VideoMax => m = 0
  BY ShownIs
<1>3. \A j \in 1..n : place(frames[j]) = j
  BY FoundAt
<1>4. /\ C \in Nat \ {0} /\ C <= n
      /\ \A i \in 1..C : Place(n, i) \in 1..n
      /\ \A i \in 1..(C - 1) : Place(n, i) < Place(n, i + 1) /\ Place(n, i + 1) - Place(n, i) <= Every(n)
      /\ n - Place(n, C) < Every(n)
      /\ Place(n, 1) = 1
  BY <1>1, PlaceFacts
<1>5. C = Min({FrameCap, n})
  <2>1. C \in {FrameCap, n} /\ \A x \in {FrameCap, n} : C <= x
    BY <1>1, CapsAssumption DEF Sampled
  <2>2. FrameCap \in Nat /\ n \in Nat
    BY <1>1, CapsAssumption
  <2> HIDE DEF C, n
  <2>3. \A y \in {FrameCap, n} : (\A x \in {FrameCap, n} : y <= x) => y = C
    BY <2>1, <2>2
  <2>4. QED
    BY <2>1, <2>3 DEF Min
<1> HIDE DEF n, C, place
<1>6. ASSUME NEW k \in 1..(C - m)
      PROVE  place(shown[k]) = Place(n, m + k)
  <2>1. m + k \in 1..C
    BY <1>2, <1>4
  <2>2. Place(n, m + k) \in 1..n
    BY <1>4, <2>1
  <2>3. shown[k] = frames[Place(n, m + k)]
    BY <1>2
  <2>4. place(frames[Place(n, m + k)]) = Place(n, m + k)
    BY <1>3, <2>2
  <2>5. QED
    BY <2>3, <2>4
<1>7. ASSUME NEW i \in 1..(Len(shown) - 1)
      PROVE  place(shown[i]) < place(shown[i + 1]) /\ place(shown[i + 1]) - place(shown[i]) <= Every(n)
  <2>1. i \in 1..(C - m) /\ i + 1 \in 1..(C - m) /\ m + i \in 1..(C - 1) /\ m + (i + 1) = (m + i) + 1
    BY <1>2, <1>4
  <2>2. place(shown[i]) = Place(n, m + i) /\ place(shown[i + 1]) = Place(n, (m + i) + 1)
    BY <1>6, <2>1
  <2>3. QED
    BY <1>4, <2>1, <2>2
<1>8. n - place(Last(shown)) < Every(n)
  <2>1. C - m \in 1..(C - m) /\ m + (C - m) = C /\ Len(shown) = C - m
    BY <1>2, <1>4
  <2>2. place(shown[C - m]) = Place(n, C)
    BY <1>6, <2>1
  <2>3. QED
    BY <1>4, <2>1, <2>2 DEF Last
<1>9. ASSUME to - from <= 2 * VideoMax
      PROVE  shown[1] = frames[1] /\ Len(shown) = Min({FrameCap, n})
  <2>1. m = 0 /\ 1 \in 1..(C - m) /\ m + 1 = 1 /\ C - m = C
    BY <1>2, <1>4, <1>9
  <2>2. shown[1] = frames[Place(n, m + 1)] /\ Len(shown) = C - m
    BY <1>2, <2>1
  <2>3. Place(n, m + 1) = 1
    BY <1>4, <2>1
  <2>4. QED
    BY <1>5, <2>1, <2>2, <2>3
<1>10. QED
  BY <1>7, <1>8, <1>9 DEF n, place, Every

\* What a channel failed with is not there; what it gave is.
LEMMA ResultIs ==
  ASSUME NEW channel
  PROVE  Result(channel) # None /\ None # Raised
<1>1. Raised # None /\ [of |-> channel] # None
  BY DEF Raised, None
<1>2. Result(channel) = Raised \/ Result(channel) = [of |-> channel]
  BY Zenon DEF Result
<1>3. QED
  BY <1>1, <1>2

LEMMA SentenceCorrect ==
  ASSUME NEW V, input \in Seq(V)
  PROVE  SentenceKept
<1> DEFINE from == Begin
           to == Said.end_s
           frames == Slice(Media("frame"), from, to)
           pcm == Slice(Bytes, from, to)
           clip == CapFrames(frames)
           vision == WindowVision(Result("vision"))
           speech == WindowProsody(pcm, Result("prosody"))
           shown == AssembleVideo(clip, Rate2(clip, from, to))
           heard == AssembleAudio(pcm)
           read == [video |-> shown, audio |-> heard, vision |-> vision, prosody |-> speech]
           rec == SentenceRecord(DoSentence(Said, [frames |-> Media("frame"), pcm |-> Bytes],
                    [vision |-> Result("vision"), prosody |-> Result("prosody"), read |-> Result("read")]))
<1>1. from \in Nat /\ to \in Nat
  BY TicksType DEF Said
<1>2. frames \in Seq(Frame) /\ Rising(frames) /\ (frames # <<>> => from < to)
  BY <1>1, MediaFacts, SliceFacts
<1>3. PICK m \in Nat : pcm \in Seq(Frame) /\ Len(pcm) = 2 * m /\ \A k \in 1..m : pcm[2 * k - 1] = pcm[2 * k]
  BY <1>1, BytesInPairs
<1>4. Said.start_s = from
  BY DEF Said
<1>5. /\ rec.visual = vision /\ rec.speech = speech
      /\ rec.nonverbal = IF clip = <<>> \/ Result("read") = Raised THEN None ELSE read
  <2>1. DoSentence(Said, [frames |-> Media("frame"), pcm |-> Bytes],
          [vision |-> Result("vision"), prosody |-> Result("prosody"), read |-> Result("read")])
        = [start_s |-> Said.start_s, end_s |-> Said.end_s, text |-> Said.text, speech |-> speech, visual |-> vision,
           nonverbal |-> IF clip = <<>> \/ Result("read") = Raised THEN None ELSE read]
    BY <1>4, Zenon DEF DoSentence, Clip
  <2>2. QED
    BY <2>1 DEF SentenceRecord
<1> HIDE DEF rec, from, to, frames, pcm, clip, shown, heard
<1>6. (rec.visual = None) = (Result("vision") = Raised)
  BY <1>5, ResultIs DEF WindowVision
<1>7. (rec.speech = None) = (Result("prosody") = Raised \/ pcm = <<>>)
  BY <1>5, ResultIs DEF WindowProsody
<1>8. read # None
  BY DEF None
<1>9. clip = <<>> <=> frames = <<>>
  BY <1>2, CapIs DEF clip
<1>10. (rec.nonverbal = None) = (Result("read") = Raised \/ frames = <<>>)
  BY <1>5, <1>8, <1>9
<1>11. rec.nonverbal # None =>
         frames # <<>> /\ rec.nonverbal.video = shown /\ rec.nonverbal.audio = heard
         /\ rec.nonverbal.vision = rec.visual /\ rec.nonverbal.prosody = rec.speech
  BY <1>5, <1>8, <1>9
<1>12. ASSUME rec.nonverbal # None
       PROVE  LET place(f) == CHOOSE i \in 1..Len(frames) : frames[i] = f
                  every == (Len(frames) + FrameCap - 1) \div FrameCap IN
              /\ \A i \in 1..(Len(rec.nonverbal.video) - 1) :
                   /\ place(rec.nonverbal.video[i]) < place(rec.nonverbal.video[i + 1])
                   /\ place(rec.nonverbal.video[i + 1]) - place(rec.nonverbal.video[i]) <= every
              /\ Len(frames) - place(Last(rec.nonverbal.video)) < every
              /\ to - from <= 2 * VideoMax =>
                   /\ rec.nonverbal.video[1] = frames[1]
                   /\ Len(rec.nonverbal.video) = Min({FrameCap, Len(frames)})
  <2>1. rec.nonverbal.video = AssembleVideo(CapFrames(frames), Rate2(CapFrames(frames), from, to))
    BY <1>11, <1>12 DEF shown, clip
  <2>2. from < to /\ frames # <<>>
    BY <1>2, <1>11, <1>12
  <2>3. QED
    BY <1>1, <1>2, <2>1, <2>2, ShownKept, ZenonT(60)
<1>13. rec.nonverbal # None =>
         \A i \in 1..(Len(rec.nonverbal.audio) \div 2) :
           rec.nonverbal.audio[2 * i - 1] = rec.nonverbal.audio[2 * i]
  <2>1. \A i \in 1..(Len(heard) \div 2) : heard[2 * i - 1] = heard[2 * i]
    BY <1>3, HeardInPairs DEF heard
  <2>2. QED
    BY <1>11, <2>1
<1>14. QED
  BY <1>6, <1>7, <1>10, <1>11, <1>12, <1>13, Zenon DEF SentenceKept, rec, from, to, frames, pcm

(***************************************************************************)
(* The media.                                                              *)
(***************************************************************************)

\* The longest gap between two frames bounds them all.
LEMMA LongestGap ==
  ASSUME NEW s \in Seq(Nat), s # <<>>
  PROVE  LET gap == Max({s[i] : i \in 1..Len(s)}) IN
         gap \in Nat /\ \A i \in 1..Len(s) : s[i] <= gap
<1> DEFINE N == Len(s)
           Gaps == {s[i] : i \in 1..N}
           T == {n \in 1..N : \E k \in 1..n : \A i \in 1..n : s[i] <= s[k]}
<1>1. N \in Nat \ {0} /\ \A i \in 1..N : s[i] \in Nat
  BY EmptySeq, LenProperties
<1>2. 1 \in T
  <2>1. \A i \in 1..1 : s[i] <= s[1]
    BY <1>1
  <2>2. QED
    BY <1>1, <2>1
<1>3. ASSUME NEW n \in Nat, 1 <= n, n < N, n \in T
      PROVE  n + 1 \in T
  <2>1. PICK k \in 1..n : \A i \in 1..n : s[i] <= s[k]
    BY <1>3
  <2>2. s[k] \in Nat /\ s[n + 1] \in Nat /\ n + 1 \in 1..N
    BY <1>1, <1>3
  <2>3. CASE s[n + 1] <= s[k]
    <3>1. k \in 1..(n + 1) /\ \A i \in 1..(n + 1) : i \in 1..n \/ i = n + 1
      BY <1>3
    <3>2. \A i \in 1..(n + 1) : s[i] <= s[k]
      BY <2>1, <2>3, <3>1
    <3>3. QED
      BY <2>2, <3>1, <3>2
  <2>4. CASE s[k] < s[n + 1]
    <3>1. \A i \in 1..(n + 1) : s[i] <= s[n + 1]
      BY <1>1, <1>3, <2>1, <2>2, <2>4
    <3>2. QED
      BY <1>3, <2>2, <3>1
  <2>5. s[n + 1] <= s[k] \/ s[k] < s[n + 1]
    BY <2>2
  <2>6. QED
    BY <2>3, <2>4, <2>5
<1> HIDE DEF T
<1>4. N \in T
  <2>1. PICK b \in Nat : b = 1
    OBVIOUS
  <2>2. \A n \in b..N : n \in T
    BY <1>1, <1>2, <1>3, <2>1, UpTo
  <2>3. QED
    BY <1>1, <2>1, <2>2
<1>5. PICK k \in 1..N : \A i \in 1..N : s[i] <= s[k]
  BY <1>4 DEF T
<1>6. s[k] \in Gaps /\ \A y \in Gaps : s[k] >= y
  BY <1>1, <1>5
<1>7. Max(Gaps) \in Gaps /\ \A y \in Gaps : Max(Gaps) >= y
  <2> HIDE DEF Gaps
  <2>1. \E x \in Gaps : \A y \in Gaps : x >= y
    BY <1>6
  <2>2. QED
    BY <2>1 DEF Max
<1>8. QED
  BY <1>1, <1>7

\* What MediaKept says of the input of each kind holds of every input.
LEMMA MediaCorrect ==
  ASSUME NEW V, input \in Seq(V), kind \in {"video", "audio"} => V \subseteq Nat
  PROVE  MediaKept
<1>1. SentenceKept
  BY SentenceCorrect
<1>2. ASSUME kind = "video", input # <<>>
      PROVE  LET times == Sums(input)
                 got == ConsumeVideo(times)
                 gap == Max({input[i] : i \in 1..Len(input)}) IN
             /\ Len(got.dense) = Len(input)
             /\ got.frames[1] = 0
             /\ \A i \in 1..(Len(got.frames) - 1) :
                  Interval <= got.frames[i + 1] - got.frames[i] /\ got.frames[i + 1] - got.frames[i] < Interval + gap
             /\ Last(got.dense) - Last(got.frames) < Interval
  <2>1. input \in Seq(Nat)
    BY <1>2
  <2>2. PICK gap : gap = Max({input[i] : i \in 1..Len(input)})
    OBVIOUS
  <2>3. gap \in Nat /\ \A i \in 1..Len(input) : input[i] <= gap
    BY <1>2, <2>1, <2>2, LongestGap
  <2>4. QED
    BY <1>2, <2>1, <2>2, <2>3, VideoKept, Zenon
<1>3. ASSUME kind = "audio"
      PROVE  LET lk == ConsumeAudioLk(input)
                 rtc == ConsumeAudio(input) IN
             /\ \A i \in 1..(Len(lk) - 1) : lk[i].t + lk[i].dur = lk[i + 1].t
             /\ FlattenSeq(Column(rtc, "pcm")) = Upto(Total(input))
             /\ \A i \in 1..(Len(rtc) - 1) : rtc[i].t <= rtc[i + 1].t
  <2>1. input \in Seq(Nat)
    BY <1>3
  <2>2. QED
    BY <2>1, LkGapless, RtcWhole, Zenon
<1>4. QED
  BY <1>1, <1>2, <1>3, Zenon DEF MediaKept

\* The input is of its kind, which stays the same.
InputType == input \in Seq(Items(kind))

LEMMA InputTyped == MeasuresSpec => []InputType
<1>1. MeasuresInit => InputType
  BY DEF MeasuresInit, InputType
<1>2. InputType /\ [Grow]_mvars => InputType'
  <2> SUFFICES ASSUME InputType, [Grow]_mvars PROVE InputType'
    OBVIOUS
  <2>1. CASE Grow
    BY <2>1, AppendProperties DEF Grow, InputType
  <2>2. CASE UNCHANGED mvars
    BY <2>2 DEF mvars, InputType
  <2>3. QED
    BY <2>1, <2>2
<1>3. QED
  BY <1>1, <1>2, PTL DEF MeasuresSpec

\* MediaKept for media of every length, frames any gaps apart, sound of any
\* length of frames, every interval, lag and cap: what the consumers keep of
\* the tracks (media/ingest.py) and what the model is shown of a sentence
\* (TurnWindower._do_sentence, media/window_assembly.py).
THEOREM MediaIsKept == MeasuresSpec => []MediaKept
<1>1. InputType => MediaKept
  <2> SUFFICES ASSUME InputType PROVE MediaKept
    OBVIOUS
  <2>1. kind \in {"video", "audio"} => Items(kind) \subseteq Nat
    BY ItemsAssumption
  <2>2. QED
    BY <2>1, MediaCorrect DEF InputType
<1>2. QED
  BY <1>1, InputTyped, PTL

(***************************************************************************)
(* The environment.                                                        *)
(***************************************************************************)

\* Who hears the words is chosen, or the choice is refused.
LEMMA TranscriberChosen ==
  ASSUME NEW env
  PROVE  LET stt == Get(env, "STT", "gemma") IN
         /\ BuildTranscriber(env) = Refused <=> stt \notin {"gemma", "whisper", "auto"}
         /\ stt = "auto" =>
              /\ Hears(env, TRUE) # Failed
              /\ (Hears(env, FALSE) = Failed) = ~IsSet(env, "faster_whisper")
<1> DEFINE stt == Get(env, "STT", "gemma")
<1>1. /\ <<"gemma">> # Refused /\ <<"whisper">> # Refused /\ <<"gemma", "whisper">> # Refused
      /\ <<"gemma", "whisper">> # <<"gemma">> /\ <<"gemma", "whisper">> # <<"whisper">>
  BY DEF Refused
<1>2. \A t : [text |-> t] # Failed
  BY DEF Failed
<1>3. BuildTranscriber(env) = CASE stt = "gemma" -> <<"gemma">>
                                [] stt = "whisper" -> <<"whisper">>
                                [] stt = "auto" -> <<"gemma", "whisper">>
                                [] OTHER -> Refused
  BY DEF BuildTranscriber
<1> HIDE DEF stt
<1>4. BuildTranscriber(env) = Refused <=> stt \notin {"gemma", "whisper", "auto"}
  BY <1>1, <1>3
<1>5. ASSUME stt = "auto"
      PROVE  /\ Hears(env, TRUE) # Failed
             /\ (Hears(env, FALSE) = Failed) = ~IsSet(env, "faster_whisper")
  <2> DEFINE heard == Whisper(env, <<1>>, 16)
  <2>1. BuildTranscriber(env) = <<"gemma", "whisper">>
    BY <1>3, <1>5
  <2>2. heard = IF ~IsSet(env, "faster_whisper") THEN "raises" ELSE "text"
    <3>1. <<1>> # <<>>
      OBVIOUS
    <3>2. QED
      BY <3>1 DEF Whisper
  <2>3. Hears(env, TRUE) = [text |-> "text"]
    BY <1>1, <1>2, <2>1 DEF Hears, Transcribe
  <2>4. Hears(env, FALSE) = IF heard = "raises" THEN Failed ELSE [text |-> heard]
    BY <1>1, <1>2, <2>1 DEF Hears, Transcribe
  <2>5. QED
    BY <1>2, <2>2, <2>3, <2>4
<1>6. QED
  BY <1>4, <1>5 DEF stt

\* The executors of all lanes are there, or the windower does not start.
LEMMA ExecutorsWhole ==
  ASSUME NEW given \in SUBSET LaneNames
  PROVE  /\ Executors(given) = Refused <=> given # LaneNames /\ "nv" \in given
         /\ Executors(given) # Refused => DOMAIN Executors(given) = LaneNames
<1>1. ASSUME NEW f, DOMAIN f = LaneNames
      PROVE  f # Refused
  <2>1. "nv" \in DOMAIN f /\ DOMAIN Refused = {}
    BY <1>1 DEF LaneNames, Refused
  <2>2. QED
    BY <2>1
<1>2. "nv" \in LaneNames
  BY DEF LaneNames
<1>3. CASE "nv" \notin given
  BY <1>1, <1>3 DEF Executors
<1>4. CASE "nv" \in given /\ given # LaneNames
  BY <1>4 DEF Executors
<1>5. CASE given = LaneNames
  BY <1>1, <1>2, <1>5 DEF Executors
<1>6. QED
  BY <1>3, <1>4, <1>5

\* The modes of a windower fit each other.
LEMMA ModesFit ==
  ASSUME NEW source, NEW grid, NEW given
  PROVE  LET w == Windower(source, grid, given) IN
         /\ w.executors = Executors(given)
         /\ w.tracker \in BOOLEAN /\ (w.tracker <=> w.words = {"sentences"})
         /\ "sentence count" \in w.evals => w.tracker
         /\ Cardinality(w.words) = 1 /\ Cardinality(w.evals) <= 1
         /\ w.tail \in BOOLEAN /\ (w.tail <=> w.evals # {})
<1> DEFINE w == Windower(source, grid, given)
<1>1. /\ w.executors = Executors(given)
      /\ w.tracker = (source = "external")
      /\ w.words = IF source = "external" THEN {"sentences"} ELSE {"nv and stt grid"}
      /\ w.tail = (grid # "off")
      /\ w.evals = (IF SentenceEval(source = "external", grid) \/ grid = "off" THEN {} ELSE {"wall grid"})
                    \union (IF SentenceEval(source = "external", grid) THEN {"sentence count"} ELSE {})
  BY DEF Windower
<1>2. w.evals = IF grid = "off" THEN {}
                ELSE IF source = "external" /\ grid = "sentence" THEN {"sentence count"} ELSE {"wall grid"}
  BY <1>1 DEF SentenceEval
<1> HIDE DEF w
<1>3. \A x : Cardinality({x}) = 1
  BY FS_Singleton
<1>4. Cardinality({}) = 0
  BY FS_EmptySet
<1>5. Cardinality(w.words) = 1
  BY <1>1, <1>3
<1>6. Cardinality(w.evals) <= 1
  <2>1. w.evals = {} \/ \E x : w.evals = {x}
    BY <1>2
  <2>2. Cardinality(w.evals) \in {0, 1}
    BY <1>3, <1>4, <2>1
  <2>3. QED
    BY <2>2
<1>7. QED
  BY <1>1, <1>2, <1>5, <1>6 DEF w

\* The detectors and the token of a subscriber.
LEMMA LanesAndToken ==
  ASSUME NEW env, NEW session
  PROVE  LET vision == VisionLane(env)
             config == FromEnv(env, session) IN
         /\ vision = {} \/ {"face", "pose"} \subseteq vision
         /\ vision # {} => Get(env, "VISION", "auto") # "off"
         /\ \/ IsSet(env, "TOKEN") \/ config.token = None
            \/ /\ config.token.room = config.room
               /\ config.token.hidden /\ "publish" \notin config.token.grants
<1>1. VisionLane(env) = {} \/ {"face", "pose"} \subseteq VisionLane(env)
  BY DEF VisionLane
<1>2. VisionLane(env) # {} => Get(env, "VISION", "auto") # "off"
  BY DEF VisionLane
<1>3. ~IsSet(env, "TOKEN") => FromEnv(env, session).token \in {None, SubscriberToken(FromEnv(env, session).room)}
  BY DEF FromEnv, ResolveToken
<1>4. \A room : /\ SubscriberToken(room).room = room
                /\ SubscriberToken(room).hidden /\ "publish" \notin SubscriberToken(room).grants
  BY DEF SubscriberToken
<1>5. QED
  BY <1>1, <1>2, <1>3, <1>4

\* StartsWhole for every environment, whatever its variables are set to, and
\* whatever executors are given: what __main__, build_subscriber and
\* TurnWindower.__init__ make of it.
THEOREM StartsAreWhole == MeasuresSpec => []StartsWhole
<1>1. StartsWhole
  <2> SUFFICES ASSUME NEW given \in SUBSET LaneNames
               PROVE  LET sub == BuildSubscriber(Env, "here", given)
                          w == sub.windower IN
                      /\ BuildTranscriber(Env) = Refused <=> Get(Env, "STT", "gemma") \notin {"gemma", "whisper", "auto"}
                      /\ Get(Env, "STT", "gemma") = "auto" =>
                           /\ Hears(Env, TRUE) # Failed
                           /\ (Hears(Env, FALSE) = Failed) = ~IsSet(Env, "faster_whisper")
                      /\ w.executors = Refused <=> given # LaneNames /\ "nv" \in given
                      /\ w.executors # Refused => DOMAIN w.executors = LaneNames
                      /\ w.tracker = (w.words = {"sentences"})
                      /\ "sentence count" \in w.evals => w.tracker
                      /\ Cardinality(w.words) = 1 /\ Cardinality(w.evals) <= 1
                      /\ (w.evals # {}) = w.tail
                      /\ sub.lanes.vision = {} \/ {"face", "pose"} \subseteq sub.lanes.vision
                      /\ sub.lanes.vision # {} => Get(Env, "VISION", "auto") # "off"
                      /\ \/ IsSet(Env, "TOKEN") \/ sub.config.token = None
                         \/ /\ sub.config.token.room = sub.config.room
                            /\ sub.config.token.hidden /\ "publish" \notin sub.config.token.grants
    BY Zenon DEF StartsWhole
  <2> DEFINE sub == BuildSubscriber(Env, "here", given)
             source == Get(Env, "TRANSCRIPT_SOURCE", "internal")
             grid == Get(Env, "EVAL_GRID", "wall")
  <2>1. /\ sub.windower = Windower(source, grid, given)
        /\ sub.lanes.vision = VisionLane(Env)
        /\ sub.config = FromEnv(Env, "here")
    BY DEF BuildSubscriber, MakeLanes
  <2> HIDE DEF sub
  <2>2. /\ BuildTranscriber(Env) = Refused <=> Get(Env, "STT", "gemma") \notin {"gemma", "whisper", "auto"}
        /\ Get(Env, "STT", "gemma") = "auto" =>
             /\ Hears(Env, TRUE) # Failed
             /\ (Hears(Env, FALSE) = Failed) = ~IsSet(Env, "faster_whisper")
    BY TranscriberChosen, Zenon
  <2>3. LET w == Windower(source, grid, given) IN
        /\ w.executors = Refused <=> given # LaneNames /\ "nv" \in given
        /\ w.executors # Refused => DOMAIN w.executors = LaneNames
        /\ w.tracker = (w.words = {"sentences"})
        /\ "sentence count" \in w.evals => w.tracker
        /\ Cardinality(w.words) = 1 /\ Cardinality(w.evals) <= 1
        /\ (w.evals # {}) = w.tail
    <3> DEFINE w == Windower(source, grid, given)
    <3>1. /\ w.executors = Executors(given)
          /\ w.tracker \in BOOLEAN /\ (w.tracker <=> w.words = {"sentences"})
          /\ "sentence count" \in w.evals => w.tracker
          /\ Cardinality(w.words) = 1 /\ Cardinality(w.evals) <= 1
          /\ w.tail \in BOOLEAN /\ (w.tail <=> w.evals # {})
      BY ModesFit, Zenon
    <3>2. /\ Executors(given) = Refused <=> given # LaneNames /\ "nv" \in given
          /\ Executors(given) # Refused => DOMAIN Executors(given) = LaneNames
      BY ExecutorsWhole, Zenon
    <3> HIDE DEF w
    <3>3. w.tracker = (w.words = {"sentences"}) /\ (w.evals # {}) = w.tail
      BY <3>1
    <3>4. QED
      BY <3>1, <3>2, <3>3 DEF w
  <2>4. /\ VisionLane(Env) = {} \/ {"face", "pose"} \subseteq VisionLane(Env)
        /\ VisionLane(Env) # {} => Get(Env, "VISION", "auto") # "off"
        /\ \/ IsSet(Env, "TOKEN") \/ FromEnv(Env, "here").token = None
           \/ /\ FromEnv(Env, "here").token.room = FromEnv(Env, "here").room
              /\ FromEnv(Env, "here").token.hidden /\ "publish" \notin FromEnv(Env, "here").token.grants
    BY LanesAndToken, Zenon
  <2>5. QED
    BY <2>1, <2>2, <2>3, <2>4 DEF sub
<1>2. QED
  BY <1>1, PTL

(***************************************************************************)
(* Answers.                                                                *)
(***************************************************************************)

LEMMA SeqWider ==
  ASSUME NEW W, NEW V, W \subseteq V, NEW r \in Seq(W)
  PROVE  r \in Seq(V)
<1>1. Len(r) \in Nat /\ \A i \in 1..Len(r) : r[i] \in V
  BY LenProperties
<1>2. r = [i \in 1..Len(r) |-> r[i]]
  BY LenProperties
<1>3. QED
  BY <1>1, <1>2

\* A member put in front.
LEMMA ConsFacts ==
  ASSUME NEW X, NEW x \in X, NEW q \in Seq(X)
  PROVE  /\ <<x>> \o q \in Seq(X) /\ Len(<<x>> \o q) = Len(q) + 1
         /\ (<<x>> \o q)[1] = x /\ \A i \in 1..Len(q) : (<<x>> \o q)[i + 1] = q[i]
<1>1. <<x>> \in Seq(X) /\ Len(<<x>>) = 1 /\ <<x>>[1] = x /\ Len(q) \in Nat
  BY LenProperties
<1>2. /\ <<x>> \o q \in Seq(X) /\ Len(<<x>> \o q) = 1 + Len(q)
      /\ \A i \in 1..(1 + Len(q)) : (<<x>> \o q)[i] = IF i <= 1 THEN <<x>>[i] ELSE q[i - 1]
  BY <1>1, ConcatProperties
<1>3. \A i \in 1..Len(q) : i + 1 \in 1..(1 + Len(q)) /\ ~ (i + 1 <= 1) /\ (i + 1) - 1 = i
  BY <1>1
<1>4. 1 \in 1..(1 + Len(q)) /\ 1 <= 1
  BY <1>1
<1>5. QED
  BY <1>1, <1>2, <1>3, <1>4

Brackets == {"{", "["}
Closings == {"}", "]"}
InString == {"string", "key string", "escaped", "escaped key", "unicode", "unicode key"}
Nexts == {"start", "end", "error", "key", "key or }", ":", "value", "value or ]", "literal", ", or }"} \union InString
ScanState == [owed : Seq(Closings), str : BOOLEAN, esc : BOOLEAN]
ParseState == [open : Seq(Brackets), next : Nexts]

\* The contexts fit what may come next.
Shape(p) ==
  /\ p.next \in {"start", "end"} => p.open = <<>>
  /\ p.next \notin {"start", "end", "error"} => p.open # <<>>
  /\ p.next \in {"key", "key or }", ":", "key string", "escaped key", "unicode key"} => p.open[1] = "{"
  /\ p.next = "value or ]" => p.open[1] = "["

\* The steps of the parser that are no error: within a context, into one, and
\* out of one.
Within(p, ch, y) ==
  /\ y.open = p.open
  /\ \/ p.next = "escaped" /\ ch \in {"\"", "\\", "x"} /\ y.next = "string"
     \/ p.next = "escaped key" /\ ch \in {"\"", "\\", "x"} /\ y.next = "key string"
     \/ p.next = "unicode" /\ ch = "x" /\ y.next = "string"
     \/ p.next = "unicode key" /\ ch = "x" /\ y.next = "key string"
     \/ p.next = "escaped" /\ ch = "u" /\ y.next = "unicode"
     \/ p.next = "escaped key" /\ ch = "u" /\ y.next = "unicode key"
     \/ p.next = "string" /\ ch = "\\" /\ y.next = "escaped"
     \/ p.next = "key string" /\ ch = "\\" /\ y.next = "escaped key"
     \/ p.next \in {"string", "key string"} /\ ch \notin {"\"", "\\"} /\ y.next = p.next
     \/ p.next = "string" /\ ch = "\"" /\ y.next = ", or }"
     \/ p.next = "key string" /\ ch = "\"" /\ y.next = ":"
     \/ p.next \in {"key", "key or }"} /\ ch = "\"" /\ y.next = "key string"
     \/ p.next \in {"value", "value or ]"} /\ ch = "\"" /\ y.next = "string"
     \/ p.next \in {"value", "value or ]", "literal"} /\ ch = "." /\ y.next = "literal"
     \/ p.next \in {"value", "value or ]", "literal"} /\ ch = "x" /\ y.next = ", or }"
     \/ p.next = ":" /\ ch = ":" /\ y.next = "value"
     \/ p.next = ", or }" /\ ch = "," /\ y.next = IF p.open[1] = "{" THEN "key" ELSE "value"
Into(p, ch, y) ==
  \/ p.next \in {"value", "value or ]", "start"} /\ ch = "{" /\ y.open = <<"{">> \o p.open /\ y.next = "key or }"
  \/ p.next \in {"value", "value or ]"} /\ ch = "[" /\ y.open = <<"[">> \o p.open /\ y.next = "value or ]"
OutOf(p, ch, y) ==
  /\ p.open # <<>> /\ ch = Closer(p.open[1]) /\ p.next \in {", or }", "key or }", "value or ]"}
  /\ p.next = "key or }" => p.open[1] = "{"
  /\ p.next = "value or ]" => p.open[1] = "["
  /\ y.open = Tail(p.open) /\ y.next = IF Len(p.open) = 1 THEN "end" ELSE ", or }"

Move(p, ch, y) ==
  /\ y = [open |-> y.open, next |-> y.next]
  /\ Within(p, ch, y) \/ Into(p, ch, y) \/ OutOf(p, ch, y)

LEMMA ParseMoves ==
  ASSUME NEW p \in ParseState, NEW ch, ParseStep(p, ch).next # "error"
  PROVE  Move(p, ch, ParseStep(p, ch))
<1>1. p = [open |-> p.open, next |-> p.next] /\ p.open \in Seq(Brackets) /\ p.next \in Nexts
  BY DEF ParseState
<1>2. p.open # <<>> => p.open[1] \in Brackets
  BY <1>1, EmptySeq, LenProperties
<1>3. CASE p.next \in InString
  <2>1. CASE p.next \in {"escaped", "unicode"}
    BY <1>1, <2>1 DEF ParseStep, Move, Within
  <2>2. CASE p.next \in {"escaped key", "unicode key"}
    BY <1>1, <2>2 DEF ParseStep, Move, Within
  <2>3. CASE p.next \in {"string", "key string"}
    BY <1>1, <2>3 DEF ParseStep, Move, Within
  <2>4. QED
    BY <1>3, <2>1, <2>2, <2>3 DEF InString
<1>4. CASE p.next \in {"key", "key or }"}
  BY <1>1, <1>2, <1>4 DEF ParseStep, Move, Within, Into, OutOf, Closer, Brackets
<1>5. CASE p.next \in {"value", "value or ]"}
  <2>1. CASE ch \in {"\"", ".", "x"}
    BY <1>1, <1>5, <2>1 DEF ParseStep, Move, Within, Into
  <2>2. CASE ch \in {"{", "["}
    BY <1>1, <1>5, <2>2 DEF ParseStep, Move, Within, Into
  <2>3. CASE ch \notin {"\"", ".", "x", "{", "["}
    <3>1. p.next = "value or ]" /\ ch = "]" /\ p.open # <<>> /\ p.open[1] = "["
      BY <1>1, <1>5, <2>3 DEF ParseStep
    <3>2. QED
      BY <1>1, <3>1 DEF ParseStep, Move, OutOf, Closer
  <2>4. QED
    BY <2>1, <2>2, <2>3
<1>6. CASE p.next \in {":", "literal", ", or }"}
  BY <1>1, <1>2, <1>6 DEF ParseStep, Move, Within, Into, OutOf, Closer, Brackets
<1>7. CASE p.next \in {"start", "end", "error"}
  BY <1>1, <1>2, <1>7 DEF ParseStep, Move, Within, Into, OutOf, Closer, Brackets
<1>8. QED
  BY <1>1, <1>3, <1>4, <1>5, <1>6, <1>7 DEF Nexts

LEMMA ParseStepType ==
  ASSUME NEW p \in ParseState, NEW ch
  PROVE  ParseStep(p, ch) \in ParseState
<1>1. p = [open |-> p.open, next |-> p.next] /\ p.open \in Seq(Brackets) /\ p.next \in Nexts
  BY DEF ParseState
<1> DEFINE y == ParseStep(p, ch)
<1>2. CASE y.next = "error"
  <2>1. y = [open |-> p.open, next |-> "error"]
    BY <1>1, <1>2 DEF ParseStep
  <2>2. "error" \in Nexts
    BY DEF Nexts
  <2> HIDE DEF y
  <2>3. y \in ParseState
    BY <1>1, <2>1, <2>2 DEF ParseState
  <2>4. QED
    BY <2>3 DEF y
<1>3. CASE y.next # "error"
  <2>1. Move(p, ch, y)
    BY <1>3, ParseMoves
  <2>2. <<"{">> \o p.open \in Seq(Brackets) /\ <<"[">> \o p.open \in Seq(Brackets)
    <3>1. "{" \in Brackets /\ "[" \in Brackets
      BY DEF Brackets
    <3>2. QED
      BY <1>1, <3>1, ConsFacts
  <2>3. p.open # <<>> => Tail(p.open) \in Seq(Brackets)
    BY <1>1, HeadTailProperties
  <2> HIDE DEF y
  <2>4. y.open \in Seq(Brackets)
    BY <1>1, <2>1, <2>2, <2>3 DEF Move, Within, Into, OutOf
  <2>5. y.next \in Nexts
    BY <1>1, <2>1 DEF Move, Within, Into, OutOf, Nexts, InString
  <2>6. y \in ParseState
    BY <2>1, <2>4, <2>5 DEF Move, ParseState
  <2>7. QED
    BY <2>6 DEF y
<1>4. QED
  BY <1>2, <1>3

\* What may come next fits the contexts after a step, too.
LEMMA ShapeOnward ==
  ASSUME NEW p \in ParseState, Shape(p), NEW ch, ParseStep(p, ch).next # "error"
  PROVE  Shape(ParseStep(p, ch))
<1> DEFINE y == ParseStep(p, ch)
<1>1. p.open \in Seq(Brackets) /\ p.next \in Nexts
  BY DEF ParseState
<1>2. Move(p, ch, y)
  BY ParseMoves
<1>3. /\ (<<"{">> \o p.open)[1] = "{" /\ <<"{">> \o p.open # <<>>
      /\ (<<"[">> \o p.open)[1] = "[" /\ <<"[">> \o p.open # <<>>
  <2>1. "{" \in Brackets /\ "[" \in Brackets
    BY DEF Brackets
  <2>2. ASSUME NEW b \in Brackets
        PROVE  (<<b>> \o p.open)[1] = b /\ <<b>> \o p.open # <<>>
    <3>1. (<<b>> \o p.open)[1] = b /\ Len(<<b>> \o p.open) = Len(p.open) + 1 /\ Len(p.open) \in Nat
      BY <1>1, ConsFacts, LenProperties
    <3>2. Len(<<b>> \o p.open) # 0
      BY <3>1
    <3>3. QED
      BY <3>1, <3>2, EmptySeq
  <2>3. QED
    BY <2>1, <2>2
<1>4. p.open # <<>> => (Tail(p.open) = <<>> <=> Len(p.open) = 1)
  <2>1. SUFFICES ASSUME p.open # <<>> PROVE Tail(p.open) = <<>> <=> Len(p.open) = 1
    OBVIOUS
  <2>2. Tail(p.open) \in Seq(Brackets) /\ Len(Tail(p.open)) = Len(p.open) - 1 /\ Len(p.open) \in Nat
    BY <1>1, <2>1, HeadTailProperties, LenProperties
  <2>3. Tail(p.open) = <<>> <=> Len(Tail(p.open)) = 0
    BY <2>2, EmptySeq
  <2>4. QED
    BY <2>2, <2>3
<1>5. p.open # <<>> => p.open[1] \in Brackets
  BY <1>1, EmptySeq, LenProperties
<1> SUFFICES Shape(y)
  OBVIOUS
<1> HIDE DEF y
<1>6. CASE Within(p, ch, y)
  BY <1>5, <1>6 DEF Within, Shape, Brackets
<1>7. CASE Into(p, ch, y)
  BY <1>3, <1>7 DEF Into, Shape
<1>8. CASE OutOf(p, ch, y)
  BY <1>4, <1>8 DEF OutOf, Shape
<1>9. QED
  BY <1>2, <1>6, <1>7, <1>8 DEF Move

\* What the last character tells of the step.
Told(p, ch, y) ==
  /\ y.next # "start"
  /\ y.next = "key" => ch = "," /\ p.next = ", or }" /\ y.open = p.open
  /\ y.next = "value" /\ y.open[1] # "{" => ch = "," /\ p.next = ", or }" /\ y.open = p.open
  /\ y.next = "value" /\ y.open[1] = "{" => ch = ":"
  /\ y.next \in {", or }", "end", "key or }", "value or ]", "literal", ":"} => ch \notin {",", ":"}

LEMMA LastTold ==
  ASSUME NEW p \in ParseState, Shape(p), NEW ch, ParseStep(p, ch).next # "error"
  PROVE  Told(p, ch, ParseStep(p, ch))
<1> DEFINE y == ParseStep(p, ch)
<1>1. p.open \in Seq(Brackets) /\ p.next \in Nexts
  BY DEF ParseState
<1>2. Move(p, ch, y)
  BY ParseMoves
<1> SUFFICES Told(p, ch, y)
  OBVIOUS
<1> HIDE DEF y
<1>3. p.open # <<>> => p.open[1] \in Brackets
  BY <1>1, EmptySeq, LenProperties
<1>4. \A b : Closer(b) \notin {",", ":"}
  BY DEF Closer
<1>5. CASE Within(p, ch, y)
  BY <1>3, <1>5 DEF Within, Shape, Brackets, Told
<1>6. CASE Into(p, ch, y)
  BY <1>6 DEF Into, Told
<1>7. CASE OutOf(p, ch, y)
  BY <1>4, <1>7 DEF OutOf, Told
<1>8. QED
  BY <1>2, <1>5, <1>6, <1>7 DEF Move

\* A scanner and a parser that have read the same.
Agree(x, p) ==
  /\ x.esc <=> p.next \in {"escaped", "escaped key"}
  /\ x.str <=> p.next \in InString
  /\ Len(x.owed) = Len(p.open) /\ \A k \in 1..Len(p.open) : x.owed[k] = Closer(p.open[k])

LEMMA ScanStepType ==
  ASSUME NEW x \in ScanState, NEW ch
  PROVE  ScanStep(x, ch) \in ScanState
<1>1. /\ x = [owed |-> x.owed, str |-> x.str, esc |-> x.esc]
      /\ x.owed \in Seq(Closings) /\ x.str \in BOOLEAN /\ x.esc \in BOOLEAN
  BY DEF ScanState
<1>2. <<Closer(ch)>> \o x.owed \in Seq(Closings)
  <2>1. Closer(ch) \in Closings
    BY DEF Closer, Closings
  <2>2. QED
    BY <1>1, <2>1, ConsFacts
<1>3. x.owed # <<>> => Tail(x.owed) \in Seq(Closings)
  BY <1>1, HeadTailProperties
<1>4. QED
  BY <1>1, <1>2, <1>3 DEF ScanStep, ScanState

LEMMA AgreeOnward ==
  ASSUME NEW x \in ScanState, NEW p \in ParseState, Shape(p), Agree(x, p), NEW ch, ParseStep(p, ch).next # "error"
  PROVE  Agree(ScanStep(x, ch), ParseStep(p, ch))
<1> DEFINE y == ParseStep(p, ch)
           z == ScanStep(x, ch)
<1>1. p.open \in Seq(Brackets) /\ p.next \in Nexts
  BY DEF ParseState
<1>2. /\ x = [owed |-> x.owed, str |-> x.str, esc |-> x.esc]
      /\ x.owed \in Seq(Closings) /\ x.str \in BOOLEAN /\ x.esc \in BOOLEAN
  BY DEF ScanState
<1>3. Move(p, ch, y)
  BY ParseMoves
<1>4. ASSUME NEW b \in Brackets
      PROVE  /\ Len(<<Closer(b)>> \o x.owed) = Len(<<b>> \o p.open)
             /\ \A k \in 1..Len(<<b>> \o p.open) :
                  (<<Closer(b)>> \o x.owed)[k] = Closer((<<b>> \o p.open)[k])
  <2>1. Closer(b) \in Closings
    BY DEF Closer, Closings
  <2>2. /\ Len(<<b>> \o p.open) = Len(p.open) + 1 /\ (<<b>> \o p.open)[1] = b
        /\ \A i \in 1..Len(p.open) : (<<b>> \o p.open)[i + 1] = p.open[i]
    BY <1>1, ConsFacts
  <2>3. /\ Len(<<Closer(b)>> \o x.owed) = Len(x.owed) + 1 /\ (<<Closer(b)>> \o x.owed)[1] = Closer(b)
        /\ \A i \in 1..Len(x.owed) : (<<Closer(b)>> \o x.owed)[i + 1] = x.owed[i]
    BY <1>2, <2>1, ConsFacts
  <2>4. Len(x.owed) = Len(p.open) /\ Len(p.open) \in Nat
    BY <1>1, LenProperties DEF Agree
  <2>5. ASSUME NEW k \in 1..(Len(p.open) + 1)
        PROVE  (<<Closer(b)>> \o x.owed)[k] = Closer((<<b>> \o p.open)[k])
    <3>1. CASE k = 1
      BY <2>2, <2>3, <3>1
    <3>2. CASE k # 1
      <4>1. k - 1 \in 1..Len(p.open) /\ (k - 1) + 1 = k
        BY <2>4, <3>2
      <4>2. (<<Closer(b)>> \o x.owed)[k] = x.owed[k - 1] /\ (<<b>> \o p.open)[k] = p.open[k - 1]
        BY <2>2, <2>3, <2>4, <4>1
      <4>3. x.owed[k - 1] = Closer(p.open[k - 1])
        BY <4>1 DEF Agree
      <4>4. QED
        BY <4>2, <4>3
    <3>3. QED
      BY <3>1, <3>2
  <2>6. QED
    BY <2>2, <2>3, <2>4, <2>5
<1>5. ASSUME p.open # <<>>
      PROVE  /\ x.owed # <<>> /\ Len(Tail(x.owed)) = Len(Tail(p.open))
             /\ \A k \in 1..Len(Tail(p.open)) : Tail(x.owed)[k] = Closer(Tail(p.open)[k])
  <2>1. Len(x.owed) = Len(p.open) /\ Len(p.open) \in Nat \ {0}
    BY <1>1, <1>5, EmptySeq, LenProperties DEF Agree
  <2>2. x.owed # <<>>
    BY <1>2, <2>1, EmptySeq
  <2>3. /\ Len(Tail(p.open)) = Len(p.open) - 1
        /\ \A k \in 1..Len(Tail(p.open)) : Tail(p.open)[k] = p.open[k + 1]
    BY <1>1, <1>5, HeadTailProperties
  <2>4. /\ Len(Tail(x.owed)) = Len(x.owed) - 1
        /\ \A k \in 1..Len(Tail(x.owed)) : Tail(x.owed)[k] = x.owed[k + 1]
    BY <1>2, <2>2, HeadTailProperties
  <2>5. \A k \in 1..(Len(p.open) - 1) : k + 1 \in 1..Len(p.open)
    BY <2>1
  <2>6. \A k \in 1..(Len(p.open) - 1) : x.owed[k + 1] = Closer(p.open[k + 1])
    BY <2>5 DEF Agree
  <2>7. QED
    BY <2>1, <2>2, <2>3, <2>4, <2>6
<1> SUFFICES Agree(z, y)
  OBVIOUS
<1> HIDE DEF y, z
<1>6. CASE p.next \in InString
  <2>1. Within(p, ch, y)
    BY <1>3, <1>6 DEF Move, Into, OutOf, InString
  <2>2. z.owed = x.owed
    BY <1>2, <1>6 DEF Agree, ScanStep, z
  <2>3. /\ x.esc <=> p.next \in {"escaped", "escaped key"}
        /\ x.str
    BY <1>6 DEF Agree
  <2>4. /\ z.esc <=> ~x.esc /\ ch = "\\"
        /\ z.str <=> x.esc \/ ch # "\""
    BY <1>2, <2>3 DEF ScanStep, z
  <2>7. /\ z.esc <=> y.next \in {"escaped", "escaped key"}
        /\ z.str <=> y.next \in InString
    <3>1. CASE p.next \in {"escaped", "escaped key"}
      BY <2>1, <2>3, <2>4, <3>1 DEF Within, InString
    <3>2. CASE p.next \in {"unicode", "unicode key"}
      BY <2>1, <2>3, <2>4, <3>2 DEF Within, InString
    <3>3. CASE p.next \in {"string", "key string"}
      BY <2>1, <2>3, <2>4, <3>3 DEF Within, InString
    <3>4. QED
      BY <1>6, <3>1, <3>2, <3>3 DEF InString
  <2>5. y.open = p.open
    BY <2>1 DEF Within
  <2>6. QED
    BY <2>2, <2>5, <2>7 DEF Agree
<1>7. CASE p.next \notin InString /\ ch \in {"{", "["}
  <2>1. Into(p, ch, y)
    BY <1>1, <1>3, <1>7 DEF Move, Within, OutOf, Closer, InString
  <2>2. ch \in Brackets /\ y.open = <<ch>> \o p.open /\ y.next \notin InString
    BY <2>1 DEF Into, InString, Brackets
  <2>3. z = [owed |-> <<Closer(ch)>> \o x.owed, str |-> FALSE, esc |-> FALSE]
    BY <1>2, <1>7 DEF Agree, ScanStep, InString, z
  <2>4. /\ Len(<<Closer(ch)>> \o x.owed) = Len(y.open)
        /\ \A k \in 1..Len(y.open) : (<<Closer(ch)>> \o x.owed)[k] = Closer(y.open[k])
    BY <1>4, <2>2
  <2>5. QED
    BY <2>2, <2>3, <2>4 DEF Agree, InString
<1>8. CASE p.next \notin InString /\ ch \in {"}", "]"}
  <2>1. OutOf(p, ch, y)
    BY <1>3, <1>8 DEF Move, Within, Into, InString
  <2>2. p.open # <<>> /\ y.open = Tail(p.open) /\ y.next \notin InString
    BY <2>1 DEF OutOf, InString
  <2>3. z = [owed |-> Tail(x.owed), str |-> FALSE, esc |-> FALSE]
    BY <1>2, <1>5, <1>8, <2>2 DEF Agree, ScanStep, InString, z
  <2>4. /\ Len(Tail(x.owed)) = Len(y.open)
        /\ \A k \in 1..Len(y.open) : Tail(x.owed)[k] = Closer(y.open[k])
    BY <1>5, <2>2
  <2>5. QED
    BY <2>2, <2>3, <2>4 DEF Agree, InString
<1>9. CASE p.next \notin InString /\ ch \notin {"{", "[", "}", "]"}
  <2>1. Within(p, ch, y)
    BY <1>3, <1>9 DEF Move, Into, OutOf, Closer
  <2>2. y.open = p.open /\ (y.next \in InString <=> ch = "\"") /\ y.next \notin {"escaped", "escaped key"}
    BY <1>9, <2>1 DEF Within, InString
  <2>3. z = [owed |-> x.owed, str |-> ch = "\"", esc |-> FALSE]
    BY <1>2, <1>9 DEF Agree, ScanStep, InString, z
  <2>4. QED
    BY <2>2, <2>3 DEF Agree
<1>10. QED
  BY <1>6, <1>7, <1>8, <1>9

LEMMA ParseStatesSteps ==
  ASSUME NEW V, NEW text \in Seq(V)
  PROVE  /\ \A n \in 0..Len(text) : ParseStates(text)[n] \in ParseState
         /\ ParseStates(text)[0] = [open |-> <<>>, next |-> "start"]
         /\ \A n \in 1..Len(text) : ParseStates(text)[n] = ParseStep(ParseStates(text)[n - 1], text[n])
<1> DEFINE N == Len(text)
           start == [open |-> <<>>, next |-> "start"]
           F(f) == f = [n \in 0..N |-> IF n = 0 THEN start ELSE ParseStep(f[n - 1], text[n])]
           G == [n \in 1..N |-> [x \in ParseState |-> ParseStep(x, text[n])]]
<1>1. N \in Nat
  BY LenProperties
<1>2. StaysIn(ParseState, N, G)
  BY <1>1, ParseStepType DEF StaysIn
<1>3. \A n \in 1..N, x \in ParseState : G[n][x] = ParseStep(x, text[n])
  BY <1>1
<1>4. start \in ParseState
  BY EmptySeq DEF ParseState, Nexts
<1>5. ParseStates(text) = CHOOSE f : F(f)
  BY DEF ParseStates
<1> HIDE DEF G, N, start
<1>6. PICK g : StepsFrom(start, ParseState, N, G, g)
  BY <1>1, <1>2, <1>4, StepsExist, Zenon
<1>7. /\ g \in [0..N -> ParseState] /\ g[0] = start
      /\ \A n \in 1..N : g[n] = ParseStep(g[n - 1], text[n])
  <2>1. /\ g \in [0..N -> ParseState] /\ g[0] = start
        /\ \A n \in 1..N : g[n] = G[n][g[n - 1]]
    BY <1>6 DEF StepsFrom
  <2>2. \A n \in 1..N : g[n - 1] \in ParseState
    BY <1>1, <2>1
  <2>3. QED
    BY <1>3, <2>1, <2>2
<1>8. F(g)
  BY <1>1, <1>7
<1>9. F(ParseStates(text))
  <2> HIDE DEF F
  <2>1. QED
    BY <1>5, <1>8
<1> DEFINE f == ParseStates(text)
<1>10. /\ f = [n \in 0..N |-> f[n]] /\ f[0] = start
       /\ \A n \in 1..N : f[n] = ParseStep(f[n - 1], text[n])
  BY <1>1, <1>9
<1> HIDE DEF f, F
<1>11. \A n \in 0..N : f[n] \in ParseState
  <2> DEFINE T == {n \in 0..N : f[n] \in ParseState}
  <2>1. 0 \in T
    BY <1>1, <1>4, <1>10
  <2>2. ASSUME NEW n \in Nat, n < N, n \in T
        PROVE  n + 1 \in T
    <3>1. n + 1 \in 1..N /\ n + 1 \in 0..N /\ (n + 1) - 1 = n /\ f[n] \in ParseState
      BY <1>1, <2>2
    <3>2. f[n + 1] = ParseStep(f[n], text[n + 1])
      BY <1>10, <3>1
    <3>3. f[n + 1] \in ParseState
      BY <3>1, <3>2, ParseStepType
    <3>4. QED
      BY <3>1, <3>3
  <2> HIDE DEF T
  <2>3. \A n \in 0..N : n \in T
    BY <1>1, <2>1, <2>2, UpTo
  <2>4. QED
    BY <2>3 DEF T
<1>12. QED
  BY <1>10, <1>11 DEF f, N, start

LEMMA ScanStatesSteps ==
  ASSUME NEW V, NEW text \in Seq(V)
  PROVE  /\ \A n \in 0..Len(text) : ScanStates(text)[n] \in ScanState
         /\ ScanStates(text)[0] = [owed |-> <<>>, str |-> FALSE, esc |-> FALSE]
         /\ \A n \in 1..Len(text) : ScanStates(text)[n] = ScanStep(ScanStates(text)[n - 1], text[n])
<1> DEFINE N == Len(text)
           start == [owed |-> <<>>, str |-> FALSE, esc |-> FALSE]
           F(f) == f = [n \in 0..N |-> IF n = 0 THEN start ELSE ScanStep(f[n - 1], text[n])]
           G == [n \in 1..N |-> [x \in ScanState |-> ScanStep(x, text[n])]]
<1>1. N \in Nat
  BY LenProperties
<1>2. StaysIn(ScanState, N, G)
  BY <1>1, ScanStepType DEF StaysIn
<1>3. \A n \in 1..N, x \in ScanState : G[n][x] = ScanStep(x, text[n])
  BY <1>1
<1>4. start \in ScanState
  BY EmptySeq DEF ScanState
<1>5. ScanStates(text) = CHOOSE f : F(f)
  BY DEF ScanStates
<1> HIDE DEF G, N, start
<1>6. PICK g : StepsFrom(start, ScanState, N, G, g)
  BY <1>1, <1>2, <1>4, StepsExist, Zenon
<1>7. /\ g \in [0..N -> ScanState] /\ g[0] = start
      /\ \A n \in 1..N : g[n] = ScanStep(g[n - 1], text[n])
  <2>1. /\ g \in [0..N -> ScanState] /\ g[0] = start
        /\ \A n \in 1..N : g[n] = G[n][g[n - 1]]
    BY <1>6 DEF StepsFrom
  <2>2. \A n \in 1..N : g[n - 1] \in ScanState
    BY <1>1, <2>1
  <2>3. QED
    BY <1>3, <2>1, <2>2
<1>8. F(g)
  BY <1>1, <1>7
<1>9. F(ScanStates(text))
  <2> HIDE DEF F
  <2>1. QED
    BY <1>5, <1>8
<1> DEFINE f == ScanStates(text)
<1>10. /\ f = [n \in 0..N |-> f[n]] /\ f[0] = start
       /\ \A n \in 1..N : f[n] = ScanStep(f[n - 1], text[n])
  BY <1>1, <1>9
<1> HIDE DEF f, F
<1>11. \A n \in 0..N : f[n] \in ScanState
  <2> DEFINE T == {n \in 0..N : f[n] \in ScanState}
  <2>1. 0 \in T
    BY <1>1, <1>4, <1>10
  <2>2. ASSUME NEW n \in Nat, n < N, n \in T
        PROVE  n + 1 \in T
    <3>1. n + 1 \in 1..N /\ n + 1 \in 0..N /\ (n + 1) - 1 = n /\ f[n] \in ScanState
      BY <1>1, <2>2
    <3>2. f[n + 1] = ScanStep(f[n], text[n + 1])
      BY <1>10, <3>1
    <3>3. f[n + 1] \in ScanState
      BY <3>1, <3>2, ScanStepType
    <3>4. QED
      BY <3>1, <3>3
  <2> HIDE DEF T
  <2>3. \A n \in 0..N : n \in T
    BY <1>1, <2>1, <2>2, UpTo
  <2>4. QED
    BY <2>3 DEF T
<1>12. QED
  BY <1>10, <1>11 DEF f, N, start

\* What has gone wrong stays so, and in a string brackets change nothing.
Idle(e, text, i) == e = "error" \/ (e \in {"string", "key string"} /\ text[i] \in Closings)

LEMMA NextStays ==
  ASSUME NEW V, NEW text \in Seq(V), NEW a \in Nat, NEW b \in Nat, a <= b, b <= Len(text), NEW e,
         ParseStates(text)[a].next = e,
         \A i \in (a + 1)..b : Idle(e, text, i)
  PROVE  ParseStates(text)[b].next = e
<1> DEFINE N == Len(text)
           f == ParseStates(text)
           T == {n \in a..b : f[n].next = e}
<1>1. N \in Nat /\ \A n \in 0..N : f[n] \in ParseState
  BY LenProperties, ParseStatesSteps
<1>2. \A n \in 1..N : f[n] = ParseStep(f[n - 1], text[n])
  BY ParseStatesSteps
<1>0. b <= N /\ f[a].next = e
  OBVIOUS
<1> SUFFICES f[b].next = e
  OBVIOUS
<1> HIDE DEF f, N
<1>3. a \in T
  BY <1>0
<1>4. ASSUME NEW n \in Nat, a <= n, n < b, n \in T
      PROVE  n + 1 \in T
  <2>1. n + 1 \in 1..N /\ (n + 1) - 1 = n /\ n \in 0..N /\ n + 1 \in (a + 1)..b /\ n + 1 \in a..b
    BY <1>0, <1>1, <1>4
  <2>2. f[n + 1] = ParseStep(f[n], text[n + 1]) /\ f[n].next = e /\ f[n] \in ParseState
    BY <1>1, <1>2, <1>4, <2>1
  <2>3. CASE e = "error"
    <3>1. ~ Move(f[n], text[n + 1], f[n + 1])
      BY <2>2, <2>3 DEF Move, Within, Into, OutOf
    <3>2. f[n + 1].next = "error"
      BY <2>2, <3>1, ParseMoves
    <3>3. QED
      BY <2>1, <2>3, <3>2
  <2>4. CASE e \in {"string", "key string"} /\ text[n + 1] \in Closings
    <3>1. ParseStep(f[n], text[n + 1]) = f[n]
      BY <2>2, <2>4 DEF ParseStep, Closings
    <3>2. QED
      BY <2>1, <2>2, <3>1
  <2>5. Idle(e, text, n + 1)
    BY <2>1
  <2>6. QED
    BY <2>1, <2>3, <2>4, <2>5 DEF Idle
<1> HIDE DEF T
<1>5. \A n \in a..b : n \in T
  BY <1>3, <1>4, UpTo
<1>6. b \in a..b
  OBVIOUS
<1>7. QED
  BY <1>5, <1>6 DEF T

\* A text that begins with another is read the same that far.
LEMMA ParseBegins ==
  ASSUME NEW V, NEW s \in Seq(V), NEW t \in Seq(V), Len(s) <= Len(t), \A i \in 1..Len(s) : t[i] = s[i]
  PROVE  \A n \in 0..Len(s) : ParseStates(t)[n] = ParseStates(s)[n]
<1> DEFINE N == Len(s)
           f == ParseStates(s)
           g == ParseStates(t)
           T == {n \in 0..N : g[n] = f[n]}
<1>1. N \in Nat /\ Len(t) \in Nat
  BY LenProperties
<1>2. f[0] = g[0] /\ \A n \in 1..N : f[n] = ParseStep(f[n - 1], s[n])
  BY ParseStatesSteps
<1>3. \A n \in 1..N : g[n] = ParseStep(g[n - 1], t[n])
  <2>1. \A n \in 1..Len(t) : g[n] = ParseStep(g[n - 1], t[n])
    BY ParseStatesSteps
  <2>2. \A n \in 1..N : n \in 1..Len(t)
    BY <1>1
  <2>3. QED
    BY <2>1, <2>2
<1>4. \A n \in 1..N : t[n] = s[n]
  OBVIOUS
<1> HIDE DEF f, g, N
<1>5. 0 \in T
  BY <1>1, <1>2
<1>6. ASSUME NEW n \in Nat, n < N, n \in T
      PROVE  n + 1 \in T
  <2>1. n + 1 \in 1..N /\ n + 1 \in 0..N /\ (n + 1) - 1 = n
    BY <1>1, <1>6
  <2>2. QED
    BY <1>2, <1>3, <1>4, <1>6, <2>1
<1> HIDE DEF T
<1>7. \A n \in 0..N : n \in T
  BY <1>1, <1>5, <1>6, UpTo
<1>8. QED
  BY <1>7 DEF T, f, g, N

LEMMA ParseAppended ==
  ASSUME NEW V, NEW s \in Seq(V), NEW c \in V
  PROVE  Parse(Append(s, c)) = ParseStep(Parse(s), c) /\ Parse(s) \in ParseState
<1> DEFINE t == Append(s, c)
           N == Len(s)
<1>1. N \in Nat /\ t \in Seq(V) /\ Len(t) = N + 1 /\ t[N + 1] = c /\ \A i \in 1..N : t[i] = s[i]
  BY LenProperties, AppendProperties
<1>2. ParseStates(t)[N + 1] = ParseStep(ParseStates(t)[N], c)
  <2>1. \A n \in 1..Len(t) : ParseStates(t)[n] = ParseStep(ParseStates(t)[n - 1], t[n])
    BY <1>1, ParseStatesSteps
  <2>2. N + 1 \in 1..Len(t) /\ (N + 1) - 1 = N
    BY <1>1
  <2> HIDE DEF t, N
  <2>3. QED
    BY <1>1, <2>1, <2>2
<1>3. ParseStates(t)[N] = ParseStates(s)[N]
  <2>1. N <= Len(t) /\ N \in 0..N
    BY <1>1
  <2>2. QED
    BY <1>1, <2>1, ParseBegins
<1>4. Parse(s) \in ParseState
  <2>1. N \in 0..N
    BY <1>1
  <2>2. QED
    BY <2>1, ParseStatesSteps DEF Parse
<1>5. QED
  BY <1>1, <1>2, <1>3, <1>4 DEF Parse

\* A text that is no error has never been one, and the scanner follows.
LEMMA Followed ==
  ASSUME NEW V, NEW text \in Seq(V), Parse(text).next # "error"
  PROVE  \A n \in 0..Len(text) :
           LET p == ParseStates(text)[n] IN
           p \in ParseState /\ p.next # "error" /\ Shape(p) /\ Agree(ScanStates(text)[n], p)
<1> DEFINE N == Len(text)
           f == ParseStates(text)
           g == ScanStates(text)
           T == {n \in 0..N : Shape(f[n]) /\ Agree(g[n], f[n])}
<1>1. N \in Nat
  BY LenProperties
<1>2. /\ \A n \in 0..N : f[n] \in ParseState
      /\ f[0] = [open |-> <<>>, next |-> "start"]
      /\ \A n \in 1..N : f[n] = ParseStep(f[n - 1], text[n])
  BY ParseStatesSteps
<1>3. /\ \A n \in 0..N : g[n] \in ScanState
      /\ g[0] = [owed |-> <<>>, str |-> FALSE, esc |-> FALSE]
      /\ \A n \in 1..N : g[n] = ScanStep(g[n - 1], text[n])
  BY ScanStatesSteps
<1>4. \A n \in 0..N : f[n].next # "error"
  <2>1. SUFFICES ASSUME NEW n \in 0..N, f[n].next = "error" PROVE FALSE
    OBVIOUS
  <2>2. n \in Nat /\ n <= N /\ N <= Len(text) /\ \A i \in (n + 1)..N : Idle("error", text, i)
    BY <1>1 DEF Idle
  <2>3. f[N].next = "error"
    BY <1>1, <2>1, <2>2, NextStays
  <2>4. QED
    BY <2>3 DEF Parse
<1> HIDE DEF f, g, N
<1>5. 0 \in T
  <2>1. Shape(f[0])
    BY <1>2 DEF Shape
  <2>2. Agree(g[0], f[0])
    <3>1. Len(<<>>) = 0
      OBVIOUS
    <3>2. QED
      BY <1>2, <1>3, <3>1 DEF Agree, InString
  <2>3. QED
    BY <1>1, <2>1, <2>2
<1>6. ASSUME NEW n \in Nat, n < N, n \in T
      PROVE  n + 1 \in T
  <2>1. n + 1 \in 1..N /\ (n + 1) - 1 = n /\ n \in 0..N /\ n + 1 \in 0..N
    BY <1>1, <1>6
  <2>2. f[n + 1] = ParseStep(f[n], text[n + 1]) /\ g[n + 1] = ScanStep(g[n], text[n + 1])
    BY <1>2, <1>3, <2>1
  <2>3. /\ f[n] \in ParseState /\ g[n] \in ScanState /\ ParseStep(f[n], text[n + 1]).next # "error"
        /\ Shape(f[n]) /\ Agree(g[n], f[n])
    BY <1>2, <1>3, <1>4, <1>6, <2>1, <2>2
  <2>4. Shape(f[n + 1]) /\ Agree(g[n + 1], f[n + 1])
    BY <2>2, <2>3, ShapeOnward, AgreeOnward
  <2>5. QED
    BY <2>1, <2>4
<1> HIDE DEF T
<1>7. \A n \in 0..N : n \in T
  BY <1>1, <1>5, <1>6, UpTo
<1>8. QED
  BY <1>2, <1>4, <1>7 DEF T, f, g, N

Closable == {", or }", "key or }", "value or ]"}

LEMMA CloseStep ==
  ASSUME NEW p \in ParseState, Shape(p), p.next \in Closable
  PROVE  /\ p.open # <<>>
         /\ ParseStep(p, Closer(p.open[1])) = [open |-> Tail(p.open), next |-> IF Len(p.open) = 1 THEN "end" ELSE ", or }"]
<1>1. p.open \in Seq(Brackets) /\ p.open # <<>>
  BY DEF ParseState, Shape, Closable
<1>2. p.open[1] \in Brackets
  BY <1>1, EmptySeq, LenProperties
<1>3. CASE p.open[1] = "{"
  <2>1. p.next # "value or ]"
    BY <1>3 DEF Shape
  <2>2. QED
    BY <1>1, <1>3, <2>1 DEF ParseStep, Closer, Closable
<1>4. CASE p.open[1] = "["
  <2>1. p.next # "key or }"
    BY <1>4 DEF Shape
  <2>2. QED
    BY <1>1, <1>4, <2>1 DEF ParseStep, Closer, Closable
<1>5. QED
  BY <1>2, <1>3, <1>4 DEF Brackets

\* The closers of the contexts that are open end a text that may be closed.
LEMMA ClosedWell ==
  ASSUME NEW V, Closings \subseteq V, NEW s \in Seq(V), Shape(Parse(s)), Parse(s).next \in Closable,
         NEW owed \in Seq(Closings), Len(owed) = Len(Parse(s).open),
         \A k \in 1..Len(owed) : owed[k] = Closer(Parse(s).open[k])
  PROVE  Parse(s \o owed).next = "end"
<1> DEFINE N == Len(s)
           C == Len(owed)
           t == s \o owed
           f == ParseStates(t)
           p == Parse(s)
           Left(k, q) == /\ Len(q.open) = C - k
                         /\ \A i \in 1..(C - k) : q.open[i] = p.open[i + k]
                         /\ k = C => q.next = "end"
                         /\ k < C => q.next \in Closable /\ Shape(q)
           T == {k \in 0..C : Left(k, f[N + k])}
<1>1. N \in Nat /\ C \in Nat /\ owed \in Seq(V)
  BY SeqWider, LenProperties
<1>2. /\ t \in Seq(V) /\ Len(t) = N + C /\ \A i \in 1..N : t[i] = s[i]
      /\ \A k \in 1..C : t[N + k] = owed[k]
  <2>1. t \in Seq(V) /\ Len(t) = N + C /\ \A i \in 1..(N + C) : t[i] = IF i <= N THEN s[i] ELSE owed[i - N]
    BY <1>1, ConcatProperties
  <2>2. \A i \in 1..N : i \in 1..(N + C) /\ i <= N
    BY <1>1
  <2>3. \A k \in 1..C : N + k \in 1..(N + C) /\ ~ (N + k <= N) /\ (N + k) - N = k
    BY <1>1
  <2> HIDE DEF t, N, C
  <2>4. QED
    BY <2>1, <2>2, <2>3
<1>3. \A n \in 0..(N + C) : f[n] \in ParseState
  BY <1>2, ParseStatesSteps
<1>4. \A k \in 1..C : f[N + k] = ParseStep(f[N + (k - 1)], owed[k])
  <2>1. \A n \in 1..Len(t) : f[n] = ParseStep(f[n - 1], t[n])
    BY <1>2, ParseStatesSteps
  <2>2. \A k \in 1..C : N + k \in 1..Len(t) /\ (N + k) - 1 = N + (k - 1)
    BY <1>1, <1>2
  <2> HIDE DEF f, t, N, C
  <2>3. QED
    BY <1>2, <2>1, <2>2
<1>5. f[N] = p
  <2>1. N <= Len(t) /\ N \in 0..N
    BY <1>1, <1>2
  <2>2. QED
    BY <1>2, <2>1, ParseBegins DEF Parse
<1>6. /\ Shape(p) /\ p.next \in Closable /\ C = Len(p.open) /\ \A k \in 1..C : owed[k] = Closer(p.open[k])
      /\ Parse(t) = f[N + C]
  BY <1>2 DEF Parse
<1>7. C # 0 /\ p.open \in Seq(Brackets)
  <2>1. p \in ParseState
    BY <1>1, <1>3, <1>5
  <2>2. QED
    BY <1>6, <2>1, EmptySeq DEF ParseState, Shape, Closable
<1> SUFFICES Parse(t).next = "end"
  OBVIOUS
<1> HIDE DEF f, t, N, C, p
<1>8. 0 \in T
  <2>1. N + 0 = N /\ \A i \in 1..(C - 0) : i + 0 = i
    BY <1>1
  <2>2. Left(0, f[N + 0])
    BY <1>1, <1>5, <1>6, <1>7, <2>1
  <2>3. QED
    BY <1>1, <2>2
<1>9. ASSUME NEW k \in Nat, k < C, k \in T
      PROVE  k + 1 \in T
  <2> DEFINE q == f[N + k]
             y == f[N + (k + 1)]
  <2>0. C \in Nat /\ k \in Nat /\ k < C
    BY <1>1, <1>9
  <2>1. k + 1 \in 1..C /\ k + 1 \in 0..C /\ (k + 1) - 1 = k /\ N + k \in 0..(N + C)
    BY <1>1, <2>0
  <2>2. Left(k, q) /\ q \in ParseState
    BY <1>3, <1>9, <2>1
  <2>3. y = ParseStep(q, owed[k + 1])
    BY <1>4, <2>1
  <2> HIDE DEF q, y
  <2>4. q.next \in Closable /\ Shape(q) /\ q.open[1] = p.open[1 + k] /\ 1 + k = k + 1
    <3>1. 1 \in 1..(C - k)
      BY <1>1, <1>9
    <3>2. QED
      BY <1>9, <2>2, <3>1
  <2>5. owed[k + 1] = Closer(q.open[1])
    BY <1>6, <2>1, <2>4
  <2>6. q.open # <<>> /\ y = [open |-> Tail(q.open), next |-> IF Len(q.open) = 1 THEN "end" ELSE ", or }"]
    BY <2>2, <2>3, <2>4, <2>5, CloseStep
  <2>7. /\ Len(Tail(q.open)) = (C - k) - 1 /\ (C - k) - 1 = C - (k + 1) /\ Len(q.open) = C - k
        /\ Tail(q.open) \in Seq(Brackets)
        /\ \A i \in 1..(C - (k + 1)) : Tail(q.open)[i] = q.open[i + 1]
    <3>1. q.open \in Seq(Brackets) /\ Len(q.open) = C - k
      BY <2>2 DEF ParseState
    <3>2. (C - k) - 1 = C - (k + 1)
      BY <1>1, <1>9
    <3>3. QED
      BY <2>6, <3>1, <3>2, HeadTailProperties
  <2>8. \A i \in 1..(C - (k + 1)) : y.open[i] = p.open[i + (k + 1)]
    <3>1. \A i \in 1..(C - (k + 1)) : i + 1 \in 1..(C - k) /\ (i + 1) + k = i + (k + 1)
      BY <2>0
    <3>2. \A i \in 1..(C - k) : q.open[i] = p.open[i + k]
      BY <2>2
    <3>3. QED
      BY <2>6, <2>7, <3>1, <3>2
  <2>9. /\ k + 1 = C => y.next = "end"
        /\ k + 1 < C => y.next = ", or }"
    <3>1. Len(q.open) = 1 <=> k + 1 = C
      BY <2>0, <2>7
    <3>2. k + 1 < C => k + 1 # C
      BY <2>0
    <3>3. y.next = IF k + 1 = C THEN "end" ELSE ", or }"
      BY <2>6, <3>1
    <3>4. QED
      BY <3>2, <3>3
  <2>10. k + 1 < C => Shape(y)
    <3>1. SUFFICES ASSUME k + 1 < C PROVE Shape(y)
      OBVIOUS
    <3>2. Len(y.open) # 0 /\ y.open \in Seq(Brackets)
      <4>1. (C - k) - 1 # 0
        BY <2>0, <3>1
      <4>2. y.open = Tail(q.open)
        BY <2>6
      <4>3. QED
        BY <2>7, <4>1, <4>2
    <3>3. y.open # <<>>
      BY <3>2, EmptySeq
    <3>4. QED
      BY <2>9, <3>1, <3>3 DEF Shape
  <2>11. Left(k + 1, y)
    BY <2>6, <2>7, <2>8, <2>9, <2>10 DEF Closable
  <2>12. QED
    BY <2>1, <2>11 DEF y
<1> HIDE DEF T
<1>10. \A k \in 0..C : k \in T
  BY <1>1, <1>8, <1>9, UpTo
<1>11. C \in 0..C
  BY <1>1
<1>12. Left(C, f[N + C])
  BY <1>10, <1>11 DEF T
<1>13. QED
  BY <1>6, <1>12

\* Places in a sequence have a last one.
LEMMA GreatestPlace ==
  ASSUME NEW n \in Nat, NEW I \in SUBSET (1..n), I # {}
  PROVE  Max(I) \in I /\ \A i \in I : i <= Max(I)
<1> DEFINE Rest == {n - i : i \in I}
<1>0. \A i \in I : i \in Nat /\ n - i \in Nat
  <2>1. \A i \in I : i \in 1..n
    OBVIOUS
  <2>2. QED
    BY <2>1
<1>1. Rest \in SUBSET Nat /\ Rest # {}
  BY <1>0
<1>2. PICK m \in Rest : \A k \in Rest : m <= k
  <2> HIDE DEF Rest
  <2>1. QED
    BY <1>1, LeastNatural
<1>3. PICK j \in I : m = n - j
  BY <1>2
<1>4. ASSUME NEW i \in I
      PROVE  i <= j
  <2>1. n - i \in Rest
    OBVIOUS
  <2>2. n - j <= n - i /\ i \in Int /\ j \in Int
    BY <1>0, <1>2, <1>3, <2>1
  <2>3. QED
    BY <2>2
<1>5. \E x \in I : \A y \in I : x >= y
  BY <1>4
<1>6. Max(I) \in I /\ \A y \in I : Max(I) >= y
  BY <1>5 DEF Max
<1>7. QED
  BY <1>6

LEMMA GreatestIs ==
  ASSUME NEW n \in Nat, NEW I \in SUBSET (1..n), NEW m \in I, \A i \in I : i <= m
  PROVE  Max(I) = m
<1>1. Max(I) \in I /\ m <= Max(I)
  BY GreatestPlace
<1>2. Max(I) \in 1..n /\ m \in 1..n /\ Max(I) <= m
  BY <1>1
<1>3. QED
  BY <1>1, <1>2

\* The first members of a sequence.
LEMMA FrontFacts ==
  ASSUME NEW V, NEW s \in Seq(V), NEW m \in 0..Len(s)
  PROVE  /\ SubSeq(s, 1, m) \in Seq(V) /\ Len(SubSeq(s, 1, m)) = m
         /\ \A i \in 1..m : SubSeq(s, 1, m)[i] = s[i]
         /\ m = Len(s) => SubSeq(s, 1, m) = s
<1>1. Len(s) \in Nat /\ m \in Nat /\ m <= Len(s) /\ \A i \in 1..Len(s) : s[i] \in V
  BY LenProperties
<1>2. SubSeq(s, 1, m) = [i \in 1..m |-> s[i]]
  BY <1>1
<1>3. \A i \in 1..m : s[i] \in V
  BY <1>1
<1>4. [i \in 1..m |-> s[i]] \in Seq(V) /\ Len([i \in 1..m |-> s[i]]) = m
  BY <1>1, <1>3
<1>5. m = Len(s) => [i \in 1..m |-> s[i]] = s
  BY <1>1, LenProperties
<1>6. QED
  BY <1>2, <1>4, <1>5

\* What rstrip(",") leaves.
LEMMA NoCommasIs ==
  ASSUME NEW V, NEW text \in Seq(V), NEW N, N = Len(text), N # 0
  PROVE  /\ \E m \in 0..N : NoCommas(text) = SubSeq(text, 1, m)
         /\ text[N] # "," => NoCommas(text) = text
         /\ text[N] = "," /\ N # 1 /\ text[N - 1] # "," => NoCommas(text) = SubSeq(text, 1, N - 1)
<1> DEFINE I == {i \in 1..N : text[i] # ","}
<1>0. N \in Nat /\ N # 0
  BY LenProperties
<1>1. /\ I \in SUBSET (1..N)
      /\ N \in 1..N
      /\ N # 1 => N - 1 \in 1..N
      /\ \A i \in 1..N : i <= N /\ (i # N => i <= N - 1)
  <2>1. \A i \in I : i \in 1..N
    OBVIOUS
  <2> HIDE DEF I
  <2>2. QED
    BY <1>0, <2>1
<1>2. NoCommas(text) = SubSeq(text, 1, IF I # {} THEN Max(I) ELSE 0)
  BY DEF NoCommas, SelectLastInSeq
<1>3. I # {} => Max(I) \in 1..N
  BY <1>0, <1>1, GreatestPlace
<1>4. ASSUME text[N] # ","
      PROVE  NoCommas(text) = text
  <2>1. N \in I /\ \A i \in I : i <= N
    BY <1>1, <1>4
  <2> HIDE DEF I
  <2>2. Max(I) = N /\ I # {}
    BY <1>0, <1>1, <2>1, GreatestIs
  <2>3. SubSeq(text, 1, N) = text
    BY <1>0, FrontFacts
  <2>4. QED
    BY <1>2, <2>2, <2>3
<1>5. ASSUME text[N] = ",", N # 1, text[N - 1] # ","
      PROVE  NoCommas(text) = SubSeq(text, 1, N - 1)
  <2>1. N - 1 \in I
    BY <1>1, <1>5
  <2>2. \A i \in I : i <= N - 1
    <3>1. \A i \in I : i \in 1..N /\ i # N
      BY <1>5
    <3>2. QED
      BY <1>1, <3>1
  <2> HIDE DEF I
  <2>3. Max(I) = N - 1 /\ I # {}
    BY <1>0, <1>1, <2>1, <2>2, GreatestIs
  <2>4. QED
    BY <1>2, <2>3
<1> HIDE DEF I
<1>6. (IF I # {} THEN Max(I) ELSE 0) \in 0..N
  BY <1>0, <1>1, <1>3
<1>7. QED
  BY <1>2, <1>4, <1>5, <1>6

\* A text that is read on.
LEMMA ReadOn ==
  ASSUME NEW V, NEW s \in Seq(V), NEW r \in Seq(V)
  PROVE  /\ s \o r \in Seq(V) /\ Len(s \o r) = Len(s) + Len(r)
         /\ \A i \in 1..Len(s) : (s \o r)[i] = s[i]
         /\ \A k \in 1..Len(r) : (s \o r)[Len(s) + k] = r[k]
         /\ ParseStates(s \o r)[Len(s)] = Parse(s)
<1> DEFINE N == Len(s)
           C == Len(r)
           t == s \o r
<1>1. N \in Nat /\ C \in Nat
  BY LenProperties
<1>2. t \in Seq(V) /\ Len(t) = N + C /\ \A i \in 1..(N + C) : t[i] = IF i <= N THEN s[i] ELSE r[i - N]
  BY ConcatProperties
<1> HIDE DEF N, C, t
<1>3. \A i \in 1..N : t[i] = s[i]
  <2>1. \A i \in 1..N : i \in 1..(N + C) /\ i <= N
    BY <1>1
  <2>2. QED
    BY <1>2, <2>1
<1>4. \A k \in 1..C : t[N + k] = r[k]
  <2>1. \A k \in 1..C : N + k \in 1..(N + C) /\ ~ (N + k <= N) /\ (N + k) - N = k
    BY <1>1
  <2>2. QED
    BY <1>2, <2>1
<1>5. ParseStates(t)[N] = ParseStates(s)[N]
  <2>1. N <= Len(t) /\ N \in 0..N
    BY <1>1, <1>2
  <2>2. QED
    BY <1>2, <1>3, <2>1, ParseBegins DEF N
<1>6. QED
  BY <1>2, <1>3, <1>4, <1>5 DEF N, C, t, Parse

Vain == {"string", "key string", ":", "literal", "error"}

\* Closers alone do not end a text in a string, before the colon of a key or
\* within a word, and one that is wrong stays so.
LEMMA ClosedInVain ==
  ASSUME NEW V, Closings \subseteq V, NEW s \in Seq(V), Parse(s).next \in Vain,
         NEW owed \in Seq(Closings), owed # <<>>
  PROVE  Parse(s \o owed).next # "end"
<1> DEFINE N == Len(s)
           C == Len(owed)
           t == s \o owed
           f == ParseStates(t)
<1>1. /\ N \in Nat /\ C \in Nat \ {0} /\ owed \in Seq(V)
      /\ \A k \in 1..C : owed[k] \in Closings
  <2>1. C \in Nat /\ C # 0 /\ N \in Nat
    BY LenProperties, EmptySeq
  <2>2. \A i \in 1..C : owed[i] \in Closings
    BY LenProperties
  <2>4. owed \in Seq(V)
    BY SeqWider
  <2> HIDE DEF C
  <2>5. QED
    BY <2>1, <2>2, <2>4
<1>2. /\ t \in Seq(V) /\ Len(t) = N + C /\ f[N] = Parse(s)
      /\ \A k \in 1..C : t[N + k] = owed[k]
  BY <1>1, ReadOn
<1>3. \A i \in (N + 1)..(N + C) : t[i] \in Closings
  <2>1. \A i \in (N + 1)..(N + C) : i - N \in 1..C /\ N + (i - N) = i
    BY <1>1
  <2> HIDE DEF t, N, C, f
  <2>2. QED
    BY <1>1, <1>2, <2>1
<1>4. Parse(t) = f[N + C]
  BY <1>2 DEF Parse
<1>5. N <= N + C /\ N + C <= Len(t) /\ N + 1 <= N + C /\ N + 1 \in Nat /\ N + C \in Nat
  BY <1>1, <1>2
<1>6. CASE Parse(s).next \in {"string", "key string", "error"}
  <2>1. \A i \in (N + 1)..(N + C) : Idle(Parse(s).next, t, i)
    BY <1>3, <1>6 DEF Idle
  <2>2. f[N + C].next = Parse(s).next
    BY <1>1, <1>2, <1>5, <2>1, NextStays
  <2>3. QED
    BY <1>4, <1>6, <2>2
<1>7. CASE Parse(s).next \in {":", "literal"}
  <2>1. f[N + 1] = ParseStep(f[N], t[N + 1]) /\ f[N] \in ParseState /\ t[N + 1] \in Closings
    <3>1. N + 1 \in 1..Len(t) /\ (N + 1) - 1 = N /\ N \in 0..Len(t) /\ N + 1 \in (N + 1)..(N + C)
      BY <1>1, <1>2
    <3>2. /\ \A n \in 0..Len(t) : f[n] \in ParseState
          /\ \A n \in 1..Len(t) : f[n] = ParseStep(f[n - 1], t[n])
      BY <1>2, ParseStatesSteps
    <3> HIDE DEF f, t, N, C
    <3>3. QED
      BY <1>3, <3>1, <3>2
  <2>2. f[N + 1].next = "error"
    <3>1. ~ Move(f[N], t[N + 1], f[N + 1])
      BY <1>2, <1>7, <2>1 DEF Move, Within, Into, OutOf, Closings
    <3>2. QED
      BY <2>1, <3>1, ParseMoves
  <2>3. \A i \in ((N + 1) + 1)..(N + C) : Idle("error", t, i)
    BY DEF Idle
  <2>4. f[N + C].next = "error"
    BY <1>2, <1>5, <2>2, <2>3, NextStays
  <2>5. QED
    BY <1>4, <2>4
<1>8. QED
  BY <1>6, <1>7 DEF Vain

\* A sequence that another begins with.
LEMMA BeginsIsPrefix ==
  ASSUME NEW V, NEW u \in Seq(V), NEW v \in Seq(V), Len(u) <= Len(v), \A i \in 1..Len(u) : u[i] = v[i]
  PROVE  IsPrefix(u, v)
<1> DEFINE m == Len(u)
<1>1. m \in Nat /\ Len(v) \in Nat /\ m <= Len(v)
  BY LenProperties
<1>2. m \in 0..Len(u) /\ m \in 0..Len(v)
  BY <1>1
<1>3. SubSeq(u, 1, m) = [i \in 1..m |-> u[i]] /\ SubSeq(v, 1, m) = [i \in 1..m |-> v[i]]
  BY <1>1
<1>4. [i \in 1..m |-> u[i]] = [i \in 1..m |-> v[i]]
  BY <1>1
<1>5. QED
  BY <1>1, <1>3, <1>4 DEF IsPrefix

\* The first bracket of an object is its first character.
LEMMA OpensFirst ==
  ASSUME NEW V, NEW text \in Seq(V), text # <<>>, Parse(text).next # "error"
  PROVE  text[1] = "{" /\ Len(text) \in Nat \ {0}
<1> DEFINE f == ParseStates(text)
           N == Len(text)
<1>1. N \in Nat /\ N # 0
  BY LenProperties, EmptySeq
<1>2. 1 \in 1..N /\ 1 \in 0..N /\ 1 - 1 = 0 /\ 0 \in 0..N
  BY <1>1
<1>3. f[1] = ParseStep(f[0], text[1]) /\ f[0] \in ParseState /\ f[0].next = "start"
  <2>1. /\ \A n \in 0..N : f[n] \in ParseState
        /\ f[0] = [open |-> <<>>, next |-> "start"]
        /\ \A n \in 1..N : f[n] = ParseStep(f[n - 1], text[n])
    BY ParseStatesSteps
  <2> HIDE DEF f, N
  <2>2. QED
    BY <1>2, <2>1
<1>4. f[1].next # "error"
  BY <1>2, Followed
<1>5. Move(f[0], text[1], f[1])
  BY <1>3, <1>4, ParseMoves
<1> HIDE DEF f
<1>6. text[1] = "{"
  BY <1>3, <1>5 DEF Move, Within, Into, OutOf
<1>7. QED
  BY <1>1, <1>6

\* What lies between the brackets of an answer that is cut off is no answer.
LEMMA NotBetween ==
  ASSUME NEW V, NEW text \in Seq(V), text # <<>>, Parse(text).next # "error", ~ Valid(text)
  PROVE  /\ LET I == {i \in 1..Len(text) : text[i] = "{"} IN I # {} /\ Min(I) = 1
         /\ ~ Valid(Between(text))
<1> DEFINE f == ParseStates(text)
           N == Len(text)
           I == {i \in 1..N : text[i] = "{"}
           J == {i \in 1..N : text[i] = "}"}
           to == IF J # {} THEN Max(J) ELSE 0
<1>0. text[1] = "{"
  BY OpensFirst
<1>1. N \in Nat /\ N # 0 /\ 1 \in 1..N /\ \A i \in 1..N : i \in Int /\ 1 <= i
  <2>1. N \in Nat \ {0}
    BY OpensFirst
  <2> HIDE DEF N
  <2>2. QED
    BY <2>1
<1>2. 1 \in I /\ \A i \in I : i \in Int /\ 1 <= i
  <2> HIDE DEF N
  <2>2. QED
    BY <1>0, <1>1
<1>3. Min(I) = 1
  <2>1. \E x \in I : \A y \in I : x <= y
    BY <1>2
  <2>2. Min(I) \in I /\ \A y \in I : Min(I) <= y
    BY <2>1 DEF Min
  <2> HIDE DEF I
  <2>3. Min(I) \in Int /\ 1 <= Min(I) /\ Min(I) <= 1
    BY <1>2, <2>2
  <2>4. QED
    BY <2>3
<1>5. Between(text) = IF to < 1 THEN <<>> ELSE SubSeq(text, 1, to)
  <2>1. SelectInSeq(text, LAMBDA ch : ch = "{") = 1
    <3>1. SelectInSeq(text, LAMBDA ch : ch = "{") = IF I # {} THEN Min(I) ELSE 0
      BY DEF SelectInSeq
    <3> HIDE DEF I
    <3>2. QED
      BY <1>2, <1>3, <3>1
  <2>2. SelectLastInSeq(text, LAMBDA ch : ch = "}") = to
    BY DEF SelectLastInSeq
  <2> HIDE DEF to
  <2>3. ~ (1 = 0)
    OBVIOUS
  <2>4. Between(text) = IF 1 = 0 \/ to < 1 THEN <<>> ELSE SubSeq(text, 1, to)
    BY <2>1, <2>2, Zenon DEF Between
  <2>5. QED
    BY <2>3, <2>4
<1>6. to \in 0..N
  <2>1. J \in SUBSET (1..N)
    OBVIOUS
  <2>2. J # {} => Max(J) \in 1..N
    <3> HIDE DEF J, N
    <3>1. QED
      BY <1>1, <2>1, GreatestPlace
  <2> HIDE DEF J, N
  <2>3. QED
    BY <1>1, <2>2
<1> HIDE DEF to
<1>7. ~ Valid(<<>>)
  <2>1. <<>> \in Seq(V) /\ Len(<<>>) = 0
    BY EmptySeq
  <2>2. ParseStates(<<>>)[0] = [open |-> <<>>, next |-> "start"]
    BY <2>1, ParseStatesSteps
  <2>3. QED
    BY <2>1, <2>2 DEF Valid, Parse
<1>8. Parse(SubSeq(text, 1, to)) = f[to]
  <2>1. /\ SubSeq(text, 1, to) \in Seq(V) /\ Len(SubSeq(text, 1, to)) = to
        /\ \A i \in 1..to : text[i] = SubSeq(text, 1, to)[i]
    BY <1>6, FrontFacts
  <2>2. to <= Len(text) /\ to \in 0..to
    <3>1. to <= N /\ to \in 0..to
      <4> HIDE DEF N
      <4>1. QED
        BY <1>1, <1>6
    <3>2. QED
      BY <3>1
  <2>3. ParseStates(text)[to] = ParseStates(SubSeq(text, 1, to))[to]
    BY <2>1, <2>2, ParseBegins
  <2>4. QED
    BY <2>1, <2>3 DEF Parse
<1>9. f[to].next # "end"
  <2>1. SUFFICES ASSUME f[to].next = "end" PROVE FALSE
    OBVIOUS
  <2>2. to # N
    BY <2>1 DEF Parse, Valid
  <2>3. to + 1 \in 1..N /\ to + 1 \in 0..N /\ (to + 1) - 1 = to /\ to \in 0..N
    <3> HIDE DEF N, f
    <3>1. QED
      BY <1>1, <1>6, <2>2
  <2>4. /\ \A n \in 0..N : f[n] \in ParseState
        /\ \A n \in 1..N : f[n] = ParseStep(f[n - 1], text[n])
    BY ParseStatesSteps
  <2>5. f[to + 1].next # "error"
    BY <2>3, Followed
  <2> HIDE DEF f, N
  <2>6. f[to + 1] = ParseStep(f[to], text[to + 1]) /\ f[to] \in ParseState
    BY <2>3, <2>4
  <2>7. Move(f[to], text[to + 1], f[to + 1])
    BY <2>5, <2>6, ParseMoves
  <2>8. QED
    BY <2>1, <2>7 DEF Move, Within, Into, OutOf
<1>10. ~ Valid(Between(text))
  BY <1>5, <1>7, <1>8, <1>9 DEF Valid
<1>11. QED
  BY <1>2, <1>3, <1>10

LEMMA Extracted ==
  ASSUME NEW V, NEW text \in Seq(V), text # <<>>, Parse(text).next # "error", ~ Valid(text)
  PROVE  ExtractJson(text) = IF Valid(Repaired(text)) THEN Repaired(text) ELSE <<>>
<1> DEFINE I == {i \in 1..Len(text) : text[i] = "{"}
<1>1. I # {} /\ Min(I) = 1 /\ ~ Valid(Between(text))
  BY NotBetween
<1>2. SubSeq(text, 1, Len(text)) = text
  <2>1. Len(text) \in 0..Len(text)
    BY LenProperties
  <2>2. QED
    BY <2>1, FrontFacts
<1>3. ExtractJson(text) =
        LET from == IF I # {} THEN Min(I) ELSE 0
            repaired == IF from = 0 THEN <<>> ELSE Repaired(SubSeq(text, from, Len(text))) IN
        IF Valid(text) THEN text
        ELSE IF Valid(Between(text)) THEN Between(text)
        ELSE IF Valid(repaired) THEN repaired
        ELSE <<>>
  BY Zenon DEF ExtractJson, SelectInSeq
<1> HIDE DEF I
<1>4. ~ (1 = 0)
  OBVIOUS
<1>5. QED
  BY <1>1, <1>2, <1>3, <1>4, Zenon

\* A text and what it is made of when it is cut off.
Stands(V, text, v) ==
  /\ v \in Seq(V) /\ NoCommas(text) \in Seq(V) /\ Len(NoCommas(text)) <= Len(v)
  /\ \A i \in 1..Len(NoCommas(text)) : NoCommas(text)[i] = v[i]
  /\ Repaired(text) = v \o Scan(text).owed
  /\ Shape(Parse(v)) /\ Parse(v).open = Parse(text).open
  /\ Parse(text).next \in Lost => Parse(v).next \in Vain
  /\ Parse(text).next \notin Lost => Parse(v).next \in Closable

LEMMA TextRead ==
  ASSUME NEW V, NEW text \in Seq(V), Parse(text).next # "error"
  PROVE  /\ Parse(text) \in ParseState /\ Shape(Parse(text))
         /\ Agree(Scan(text), Parse(text)) /\ Scan(text) \in ScanState
<1>1. Len(text) \in 0..Len(text)
  BY LenProperties
<1>2. QED
  BY <1>1, Followed, ScanStatesSteps DEF Parse, Scan

\* What is left without its commas.
LEMMA LeftOf ==
  ASSUME NEW V, NEW text \in Seq(V), text # <<>>
  PROVE  /\ NoCommas(text) \in Seq(V) /\ Len(NoCommas(text)) <= Len(text)
         /\ \A i \in 1..Len(NoCommas(text)) : i \in 1..Len(text) /\ NoCommas(text)[i] = text[i]
<1> DEFINE N == Len(text)
<1>1. N \in Nat /\ N # 0
  BY LenProperties, EmptySeq
<1>2. PICK m \in 0..N : NoCommas(text) = SubSeq(text, 1, m)
  BY <1>1, NoCommasIs
<1>3. /\ SubSeq(text, 1, m) \in Seq(V) /\ Len(SubSeq(text, 1, m)) = m
      /\ \A i \in 1..m : SubSeq(text, 1, m)[i] = text[i]
  BY FrontFacts
<1>4. m <= N /\ \A i \in 1..m : i \in 1..N
  <2> HIDE DEF N
  <2>1. QED
    BY <1>1
<1> HIDE DEF N
<1>5. QED
  BY <1>2, <1>3, <1>4 DEF N

\* A member put behind.
LEMMA Appended ==
  ASSUME NEW V, NEW s \in Seq(V), NEW c \in V
  PROVE  /\ Append(s, c) \in Seq(V) /\ Append(s, c) # <<>> /\ Last(Append(s, c)) = c
         /\ \A i \in 1..Len(s) : Append(s, c)[i] = s[i]
         /\ \A n \in Nat : n <= Len(s) => n <= Len(Append(s, c))
<1>1. /\ Len(s) \in Nat /\ Append(s, c) \in Seq(V) /\ Len(Append(s, c)) = Len(s) + 1
      /\ Append(s, c)[Len(s) + 1] = c /\ \A i \in 1..Len(s) : Append(s, c)[i] = s[i]
  BY LenProperties, AppendProperties
<1>2. Len(Append(s, c)) # 0 /\ \A n \in Nat : n <= Len(s) => n <= Len(Append(s, c))
  BY <1>1
<1>3. Append(s, c) # <<>>
  BY <1>1, <1>2, EmptySeq
<1>4. QED
  BY <1>1, <1>2, <1>3 DEF Last

\* What is repaired, a quote or a value put in or not.
LEMMA RepairedIs ==
  ASSUME NEW V, NEW text \in Seq(V), NEW whole, NEW closed \in Seq(V), closed # <<>>,
         whole = IF Scan(text).str THEN Append(text, "\"") ELSE text,
         closed = NoCommas(whole)
  PROVE  /\ Last(closed) # ":" => Repaired(text) = closed \o Scan(text).owed
         /\ Last(closed) = ":" => Repaired(text) = Append(closed, "x") \o Scan(text).owed
<1>1. Repaired(text) = LET s == Scan(text)
                           c == NoCommas(IF s.str THEN Append(text, "\"") ELSE text)
                           valued == IF c # <<>> /\ Last(c) = ":" THEN Append(c, "x") ELSE c IN
                       valued \o s.owed
  BY DEF Repaired, Owed
<1>2. QED
  BY <1>1

\* Cut off in a string: it is closed.
LEMMA StringClosed ==
  ASSUME NEW V, "\"" \in V, NEW text \in Seq(V), text # <<>>,
         Parse(text).next \in InString
  PROVE  Stands(V, text, Append(text, "\""))
<1> DEFINE N == Len(text)
           v == Append(text, "\"")
           p == Parse(text)
<1>0. p.next # "error"
  BY DEF InString
<1>1. p \in ParseState /\ Shape(p) /\ Agree(Scan(text), p) /\ p.next \in InString
  BY <1>0, TextRead
<1>2. Scan(text).str
  BY <1>1 DEF Agree
<1>4. /\ v \in Seq(V) /\ v # <<>> /\ Last(v) = "\"" /\ \A i \in 1..N : v[i] = text[i]
      /\ \A n \in Nat : n <= N => n <= Len(v)
  BY Appended
<1>6. v[Len(v)] # "," /\ Last(v) # ":"
  BY <1>4 DEF Last
<1>7. NoCommas(v) = v
  <2> HIDE DEF v
  <2>1. Len(v) # 0
    BY <1>4, EmptySeq
  <2>2. QED
    BY <1>4, <1>6, <2>1, NoCommasIs
<1>8. Repaired(text) = v \o Scan(text).owed
  <2>1. v = IF Scan(text).str THEN Append(text, "\"") ELSE text
    BY <1>2
  <2> HIDE DEF v
  <2>2. QED
    BY <1>4, <1>6, <1>7, <2>1, RepairedIs
<1>9. Parse(v) = ParseStep(p, "\"")
  BY ParseAppended
<1>10. /\ Parse(v).open = p.open
       /\ p.next \in Lost => Parse(v).next \in Vain
       /\ p.next \notin Lost => Parse(v).next \in Closable
  <2>1. p = [open |-> p.open, next |-> p.next]
    BY <1>1 DEF ParseState
  <2> HIDE DEF p, v
  <2>2. QED
    BY <1>1, <1>9, <2>1 DEF ParseStep, InString, Lost, Vain, Closable
<1>11. Shape(Parse(v))
  <2>1. CASE Parse(v).next = "error"
    BY <2>1 DEF Shape
  <2>2. CASE Parse(v).next # "error"
    BY <1>1, <1>9, <2>2, ShapeOnward
  <2>3. QED
    BY <2>1, <2>2
<1>12. /\ NoCommas(text) \in Seq(V) /\ Len(NoCommas(text)) <= N /\ Len(NoCommas(text)) \in Nat
       /\ \A i \in 1..Len(NoCommas(text)) : i \in 1..N /\ NoCommas(text)[i] = text[i]
  BY LeftOf, LenProperties
<1> HIDE DEF v, N
<1>13. Len(NoCommas(text)) <= Len(v)
  BY <1>4, <1>12
<1>14. Stands(V, text, v)
  BY <1>4, <1>8, <1>10, <1>11, <1>12, <1>13 DEF Stands
<1>15. QED
  BY <1>14 DEF v

\* A text is what precedes its last character, and that character.
LEMMA LastRead ==
  ASSUME NEW V, NEW text \in Seq(V), text # <<>>, Parse(text).next # "error",
         NEW front, front = SubSeq(text, 1, Len(text) - 1)
  PROVE  /\ front \in Seq(V) /\ Len(front) = Len(text) - 1 /\ Len(text) \in Nat \ {0}
         /\ Parse(front) \in ParseState /\ Shape(Parse(front)) /\ Parse(front).next # "error"
         /\ Agree(Scan(text), Parse(text))
         /\ Parse(text) = ParseStep(Parse(front), Last(text))
         /\ \A i \in 1..Len(front) : i \in 1..Len(text) /\ front[i] = text[i]
<1> DEFINE N == Len(text)
           f == ParseStates(text)
<1>1. N \in Nat /\ N # 0
  BY LenProperties, EmptySeq
<1>2. N - 1 \in 0..N /\ N \in 1..N /\ N - 1 <= N /\ \A i \in 1..(N - 1) : i \in 1..N
  <2> HIDE DEF N
  <2>1. QED
    BY <1>1
<1>3. front \in Seq(V) /\ Len(front) = N - 1 /\ \A i \in 1..(N - 1) : front[i] = text[i]
  BY <1>2, FrontFacts
<1>4. Parse(front) = f[N - 1]
  <2>1. N - 1 \in 0..(N - 1)
    <3> HIDE DEF N
    <3>1. QED
      BY <1>1
  <2>2. \A n \in 0..Len(front) : f[n] = ParseStates(front)[n]
    BY <1>2, <1>3, ParseBegins
  <2>3. QED
    BY <1>3, <2>1, <2>2 DEF Parse
<1>5. f[N] = ParseStep(f[N - 1], text[N])
  BY <1>2, ParseStatesSteps
<1>6. f[N - 1] \in ParseState /\ Shape(f[N - 1]) /\ f[N - 1].next # "error"
  BY <1>2, Followed
<1>7. Agree(Scan(text), Parse(text))
  BY TextRead
<1>8. QED
  BY <1>1, <1>2, <1>3, <1>4, <1>5, <1>6, <1>7 DEF Parse, Last

LEMMA LastCharacter ==
  ASSUME NEW V, NEW text \in Seq(V), text # <<>>, Parse(text).next # "error",
         NEW front, front = SubSeq(text, 1, Len(text) - 1)
  PROVE  LET p == Parse(text) IN
         /\ p.next # "start"
         /\ p.next = "key" => Last(text) = "," /\ Parse(front).next = ", or }" /\ p.open = Parse(front).open
         /\ p.next = "value" /\ p.open[1] # "{" =>
              Last(text) = "," /\ Parse(front).next = ", or }" /\ p.open = Parse(front).open
         /\ p.next = "value" /\ p.open[1] = "{" => Last(text) = ":"
         /\ p.next \in {", or }", "end", "key or }", "value or ]", "literal", ":"} => Last(text) \notin {",", ":"}
<1> DEFINE p == Parse(text)
           q == Parse(front)
           ch == Last(text)
<1>1. q \in ParseState /\ Shape(q) /\ p = ParseStep(q, ch) /\ p.next # "error"
  BY LastRead
<1> HIDE DEF p, q, ch
<1>2. /\ p.next # "start"
      /\ p.next = "key" => ch = "," /\ q.next = ", or }" /\ p.open = q.open
      /\ p.next = "value" /\ p.open[1] # "{" => ch = "," /\ q.next = ", or }" /\ p.open = q.open
      /\ p.next = "value" /\ p.open[1] = "{" => ch = ":"
      /\ p.next \in {", or }", "end", "key or }", "value or ]", "literal", ":"} => ch \notin {",", ":"}
  BY <1>1, LastTold DEF Told
<1>3. QED
  BY <1>2 DEF p, q, ch

LEMMA LenSelf ==
  ASSUME NEW V, NEW s \in Seq(V)
  PROVE  Len(s) \in Nat /\ Len(s) <= Len(s)
BY LenProperties

Hanging(p) == p.next = "key" \/ (p.next = "value" /\ p.open[1] # "{")

\* What is repaired of a text that is not cut off in a string.
LEMMA LeftAlone ==
  ASSUME NEW V, NEW text \in Seq(V), text # <<>>, Parse(text).next \notin {"error"} \union InString,
         Last(text) # ","
  PROVE  /\ NoCommas(text) = text
         /\ Last(text) # ":" => Repaired(text) = text \o Scan(text).owed
         /\ Last(text) = ":" => Repaired(text) = Append(text, "x") \o Scan(text).owed
<1>1. ~ Scan(text).str
  <2>1. Parse(text).next # "error" /\ Parse(text).next \notin InString
    OBVIOUS
  <2>2. QED
    BY <2>1, TextRead DEF Agree
<1>2. Len(text) # 0
  BY EmptySeq
<1>3. NoCommas(text) = text
  <2>1. text[Len(text)] # ","
    BY DEF Last
  <2>2. QED
    BY <1>2, <2>1, NoCommasIs
<1>4. text = IF Scan(text).str THEN Append(text, "\"") ELSE text
  BY <1>1
<1>5. QED
  BY <1>3, <1>4, RepairedIs

LEMMA SameStands ==
  ASSUME NEW V, NEW text \in Seq(V), text # <<>>,
         Parse(text).next \in Closable \union {":", "literal"}
  PROVE  Stands(V, text, text)
<1>1. Parse(text).next # "error" /\ Parse(text).next \notin InString
  BY DEF Closable, InString
<1>2. Last(text) \notin {",", ":"}
  BY <1>1, LastCharacter DEF Closable
<1>3. NoCommas(text) = text /\ Repaired(text) = text \o Scan(text).owed
  BY <1>1, <1>2, LeftAlone
<1>4. Shape(Parse(text))
  BY <1>1, TextRead
<1>5. /\ Parse(text).next \in Lost => Parse(text).next \in Vain
      /\ Parse(text).next \notin Lost => Parse(text).next \in Closable
  BY DEF Lost, Vain, Closable
<1>6. Len(text) <= Len(text)
  BY LenProperties
<1>7. QED
  BY <1>3, <1>4, <1>5, <1>6 DEF Stands

LEMMA ValuePutIn ==
  ASSUME NEW V, "x" \in V, NEW text \in Seq(V), text # <<>>,
         Parse(text).next = "value", Parse(text).open[1] = "{"
  PROVE  Stands(V, text, Append(text, "x"))
<1> DEFINE v == Append(text, "x")
           p == Parse(text)
<1>1. p.next # "error" /\ p.next \notin InString
  BY DEF InString
<1>2. Last(text) = ":"
  BY <1>1, LastCharacter
<1>3. NoCommas(text) = text /\ Repaired(text) = v \o Scan(text).owed
  BY <1>1, <1>2, LeftAlone
<1>4. p \in ParseState /\ Shape(p)
  BY <1>1, TextRead
<1>5. Parse(v) = ParseStep(p, "x")
  BY ParseAppended
<1>6. Parse(v).next = ", or }" /\ Parse(v).open = p.open
  <2>1. p = [open |-> p.open, next |-> p.next] /\ p.next = "value"
    BY <1>4 DEF ParseState
  <2> HIDE DEF p, v
  <2>2. QED
    BY <1>5, <2>1 DEF ParseStep
<1>7. Shape(Parse(v))
  BY <1>4, <1>5, <1>6, ShapeOnward
<1>8. /\ v \in Seq(V) /\ Len(text) <= Len(v)
      /\ \A i \in 1..Len(text) : v[i] = text[i]
  <2>1. Len(text) \in Nat /\ Len(text) <= Len(text)
    BY LenSelf
  <2>2. QED
    BY <2>1, Appended
<1>9. p.next \notin Lost /\ Parse(v).next \in Closable
  BY <1>6 DEF Lost, Closable
<1> HIDE DEF v
<1>10. Stands(V, text, v)
  BY <1>3, <1>6, <1>7, <1>8, <1>9 DEF Stands
<1>11. QED
  BY <1>10 DEF v

LEMMA CommaDropped ==
  ASSUME NEW V, NEW text \in Seq(V), text # <<>>,
         Hanging(Parse(text)),
         NEW front, front = SubSeq(text, 1, Len(text) - 1)
  PROVE  Stands(V, text, front)
<1>0. Parse(text).next # "error"
  BY DEF Hanging
<1>2. /\ front \in Seq(V) /\ Len(front) = Len(text) - 1 /\ Len(text) \in Nat \ {0}
      /\ Parse(front) \in ParseState /\ Shape(Parse(front)) /\ Parse(front).next # "error"
      /\ Agree(Scan(text), Parse(text))
      /\ \A i \in 1..Len(front) : i \in 1..Len(text) /\ front[i] = text[i]
  <2>1. front \in Seq(V) /\ Len(front) = Len(text) - 1 /\ Len(text) \in Nat \ {0}
    BY <1>0, LastRead
  <2>2. Parse(front) \in ParseState /\ Shape(Parse(front)) /\ Parse(front).next # "error"
    BY <1>0, LastRead
  <2>3. Agree(Scan(text), Parse(text))
    BY <1>0, LastRead
  <2>4. \A i \in 1..Len(front) : i \in 1..Len(text) /\ front[i] = text[i]
    BY <1>0, LastRead
  <2>5. QED
    BY <2>1, <2>2, <2>3, <2>4
<1> DEFINE p == Parse(text)
           q == Parse(front)
<1>1. p.next # "error" /\ p.next \notin InString /\ p.next \notin Lost
  BY DEF Hanging, InString, Lost
<1>3. Last(text) = "," /\ q.next = ", or }" /\ q.open = p.open
  BY <1>1, LastCharacter DEF Hanging
<1>4. front # <<>>
  <2>1. SUFFICES ASSUME front = <<>> PROVE FALSE
    OBVIOUS
  <2>2. q = [open |-> <<>>, next |-> "start"]
    <3>1. <<>> \in Seq(V) /\ Len(<<>>) = 0
      BY EmptySeq
    <3>2. ParseStates(<<>>)[0] = [open |-> <<>>, next |-> "start"]
      BY <3>1, ParseStatesSteps
    <3>3. QED
      BY <2>1, <3>1, <3>2 DEF Parse
  <2>3. q.next = "start"
    BY <2>2
  <2>4. QED
    BY <1>3, <2>3
<1>5. Last(front) \notin {",", ":"}
  BY <1>2, <1>3, <1>4, LastCharacter
<1>6. NoCommas(text) = front
  <2>1. Len(text) # 0 /\ Len(text) # 1
    <3>1. Len(front) # 0
      BY <1>2, <1>4, EmptySeq
    <3>2. Len(front) = Len(text) - 1 /\ Len(text) \in Nat \ {0}
      BY <1>2
    <3>3. QED
      BY <3>1, <3>2
  <2>2. Len(front) \in 1..Len(front) /\ Len(front) = Len(text) - 1
    BY <1>2, <2>1
  <2>3. text[Len(text)] = "," /\ text[Len(text) - 1] # ","
    BY <1>2, <1>3, <1>5, <2>2 DEF Last
  <2>4. QED
    BY <2>1, <2>3, NoCommasIs
<1>7. Repaired(text) = front \o Scan(text).owed
  <2>1. ~ Scan(text).str
    BY <1>1, <1>2 DEF Agree
  <2>2. text = IF Scan(text).str THEN Append(text, "\"") ELSE text
    BY <2>1
  <2>3. QED
    BY <1>2, <1>4, <1>5, <1>6, <2>2, RepairedIs
<1>8. Len(front) <= Len(front)
  BY <1>2, LenSelf
<1>9. q.next \in Closable
  BY <1>3 DEF Closable
<1>10. QED
  BY <1>1, <1>2, <1>3, <1>6, <1>7, <1>8, <1>9 DEF Stands

LEMMA CutOffStands ==
  ASSUME NEW V, "\"" \in V, "x" \in V, NEW text \in Seq(V), text # <<>>,
         Parse(text).next # "error", ~ Valid(text)
  PROVE  \E v : Stands(V, text, v)
<1> DEFINE p == Parse(text)
<1>1. p.next \in Nexts /\ p.next # "start" /\ p.next # "end" /\ p.next # "error"
  BY TextRead, LastCharacter DEF ParseState, Valid
<1>2. CASE p.next \in InString
  BY <1>2, StringClosed
<1>3. CASE p.next \in Closable \union {":", "literal"}
  BY <1>3, SameStands
<1>4. CASE p.next = "value" /\ p.open[1] = "{"
  BY <1>4, ValuePutIn
<1>5. CASE Hanging(p)
  <2> DEFINE front == SubSeq(text, 1, Len(text) - 1)
  <2>1. Stands(V, text, front)
    BY <1>5, CommaDropped
  <2>2. QED
    BY <2>1
<1>6. p.next \in InString \/ p.next \in Closable \union {":", "literal"} \/ (p.next = "value" /\ p.open[1] = "{") \/ Hanging(p)
  <2> HIDE DEF p
  <2>1. QED
    BY <1>1 DEF Nexts, Closable, Hanging
<1>7. QED
  BY <1>2, <1>3, <1>4, <1>5, <1>6

\* What a sequence begins with, the longer one does.
LEMMA BeginsOnward ==
  ASSUME NEW V, NEW W, W \subseteq V, NEW u \in Seq(V), NEW v \in Seq(V), NEW r \in Seq(W), r # <<>>,
         Len(u) <= Len(v), \A i \in 1..Len(u) : u[i] = v[i]
  PROVE  IsPrefix(u, v \o r) /\ v \o r # <<>>
<1>1. Len(r) \in Nat /\ Len(r) # 0 /\ Len(u) \in Nat /\ Len(v) \in Nat
  BY LenProperties, EmptySeq
<1>2. r \in Seq(V)
  BY SeqWider
<1>3. /\ v \o r \in Seq(V) /\ Len(v \o r) = Len(v) + Len(r)
      /\ \A i \in 1..Len(v) : (v \o r)[i] = v[i]
  BY <1>2, ReadOn
<1>4. /\ Len(u) <= Len(v \o r) /\ Len(v \o r) # 0
      /\ \A i \in 1..Len(u) : i \in 1..Len(v)
  BY <1>1, <1>3
<1>5. \A i \in 1..Len(u) : u[i] = (v \o r)[i]
  BY <1>3, <1>4
<1>6. QED
  BY <1>3, <1>4, <1>5, BeginsIsPrefix, EmptySeq

\* An answer that is cut off is saved, except where it cannot be.
LEMMA JsonSaved ==
  ASSUME NEW V, "\"" \in V, "x" \in V, Closings \subseteq V, NEW text \in Seq(V), text # <<>>,
         Parse(text).next # "error"
  PROVE  IF Parse(text).next \in Lost THEN ExtractJson(text) = None
         ELSE ExtractJson(text) # None /\ IsPrefix(NoCommas(text), ExtractJson(text))
<1> DEFINE p == Parse(text)
           owed == Scan(text).owed
<1>1. /\ NoCommas(text) \in Seq(V) /\ Len(NoCommas(text)) <= Len(text)
      /\ \A i \in 1..Len(NoCommas(text)) : i \in 1..Len(text) /\ NoCommas(text)[i] = text[i]
  BY LeftOf
<1>2. CASE Valid(text)
  <2>1. p.next \notin Lost
    BY <1>2 DEF Valid, Lost
  <2>2. ExtractJson(text) = text
    BY <1>2, Zenon DEF ExtractJson
  <2>3. IsPrefix(NoCommas(text), text)
    BY <1>1, BeginsIsPrefix
  <2>4. QED
    BY <2>1, <2>2, <2>3 DEF None
<1>3. CASE ~ Valid(text)
  <2>1. PICK v : Stands(V, text, v)
    BY <1>3, CutOffStands
  <2>2. /\ p \in ParseState /\ Shape(p) /\ Agree(Scan(text), p) /\ Scan(text) \in ScanState
        /\ p.next # "start" /\ p.next # "end" /\ p.next # "error"
    BY <1>3, TextRead, LastCharacter DEF Valid
  <2>3. p.open # <<>> /\ p.open \in Seq(Brackets)
    BY <2>2 DEF Shape, ParseState
  <2>4. /\ owed \in Seq(Closings) /\ Len(owed) = Len(p.open)
        /\ \A k \in 1..Len(owed) : owed[k] = Closer(p.open[k])
    <3>1. owed \in Seq(Closings)
      BY <2>2 DEF ScanState
    <3>2. Len(owed) = Len(p.open) /\ \A k \in 1..Len(p.open) : owed[k] = Closer(p.open[k])
      BY <2>2 DEF Agree
    <3> HIDE DEF owed, p
    <3>3. QED
      BY <3>1, <3>2
  <2>5. owed # <<>>
    BY <2>3, <2>4, EmptySeq
  <2>6. /\ v \in Seq(V) /\ Repaired(text) = v \o owed
        /\ Shape(Parse(v)) /\ Parse(v).open = p.open
        /\ p.next \in Lost => Parse(v).next \in Vain
        /\ p.next \notin Lost => Parse(v).next \in Closable
    BY <2>1 DEF Stands
  <2>7. ExtractJson(text) = IF Valid(v \o owed) THEN v \o owed ELSE <<>>
    BY <1>3, <2>6, Extracted
  <2>8. CASE p.next \in Lost
    <3>1. Parse(v \o owed).next # "end"
      <4> HIDE DEF owed, p
      <4>1. QED
        BY <2>4, <2>5, <2>6, <2>8, ClosedInVain
    <3>2. QED
      BY <2>7, <2>8, <3>1 DEF Valid, None
  <2>9. CASE p.next \notin Lost
    <3> HIDE DEF owed, p
    <3>1. Parse(v \o owed).next = "end"
      BY <2>4, <2>6, <2>9, ClosedWell
    <3>2. /\ Len(NoCommas(text)) <= Len(v)
          /\ \A i \in 1..Len(NoCommas(text)) : NoCommas(text)[i] = v[i]
      BY <2>1 DEF Stands
    <3>3. IsPrefix(NoCommas(text), v \o owed) /\ v \o owed # <<>>
      BY <1>1, <2>4, <2>5, <2>6, <3>2, BeginsOnward
    <3>8. ExtractJson(text) = v \o owed
      BY <2>7, <3>1 DEF Valid
    <3>9. QED
      BY <2>9, <3>3, <3>8 DEF None, p
  <2>10. QED
    BY <2>8, <2>9
<1>4. QED
  BY <1>2, <1>3

\* Of a sequence a beginning is kept.
LEMMA KeptIsPrefix ==
  ASSUME NEW V, NEW s \in Seq(V), NEW n \in Nat
  PROVE  IsPrefix(Upto2(n, s), s)
<1> DEFINE m == IF Len(s) < n THEN Len(s) ELSE n
<1>1. Len(s) \in Nat
  BY LenProperties
<1>2. m \in 0..Len(s) /\ m <= Len(s)
  BY <1>1
<1>3. Upto2(n, s) = SubSeq(s, 1, m)
  BY DEF Upto2
<1> HIDE DEF m
<1>4. /\ SubSeq(s, 1, m) \in Seq(V) /\ Len(SubSeq(s, 1, m)) = m
      /\ \A i \in 1..m : SubSeq(s, 1, m)[i] = s[i]
  BY <1>2, FrontFacts
<1>5. QED
  BY <1>2, <1>3, <1>4, BeginsIsPrefix

Parsed(v) ==
  /\ v.is = "number" => v.n \in Int
  /\ v.is \in {"list", "text"} => v.of \in Seq({v.of[i] : i \in 1..Len(v.of)})

LEMMA ClampedIn ==
  ASSUME NEW v, v.is = "number" => v.n \in Int
  PROVE  Clamped(v) \in 0..MaxLevel
<1>1. MaxLevel \in Nat
  BY AnswerAssumption
<1>2. ASSUME NEW n \in Int
      PROVE  (IF n < 0 THEN 0 ELSE IF n > MaxLevel THEN MaxLevel ELSE n) \in 0..MaxLevel
  BY <1>1, <1>2
<1>3. 0 \in 0..MaxLevel /\ MaxLevel \in 0..MaxLevel
  BY <1>1
<1>4. CASE v.is = "number"
  <2>1. Clamped(v) = IF v.n < 0 THEN 0 ELSE IF v.n > MaxLevel THEN MaxLevel ELSE v.n
    BY <1>4 DEF Clamped
  <2>2. QED
    BY <1>2, <1>4, <2>1
<1>5. CASE v.is # "number"
  BY <1>3, <1>5 DEF Clamped
<1>6. QED
  BY <1>4, <1>5

LEMMA NonverbalRead ==
  ASSUME NEW data, \A key \in DOMAIN data : Parsed(data[key])
  PROVE  ReadNonverbal(data).state \in States /\ ReadNonverbal(data).intensity \in 0..MaxLevel
<1> DEFINE state == Value(data, "state", [is |-> "text", of |-> <<"neutral">>])
           level == Value(data, "intensity", [is |-> "number", n |-> 0])
<1>1. ReadNonverbal(data) =
        [state |-> IF state.is = "text" /\ state.of \in {<<s>> : s \in States} THEN state.of[1] ELSE "neutral",
         intensity |-> Clamped(level)]
  BY DEF ReadNonverbal
<1>2. level.is = "number" => level.n \in Int
  <2>1. CASE "intensity" \in DOMAIN data
    BY <2>1 DEF Value, Parsed
  <2>2. CASE "intensity" \notin DOMAIN data
    <3>1. level = [is |-> "number", n |-> 0]
      BY <2>2 DEF Value
    <3>2. 0 \in Int
      OBVIOUS
    <3>3. QED
      BY <3>1, <3>2
  <2>3. QED
    BY <2>1, <2>2
<1> HIDE DEF state, level
<1>3. ReadNonverbal(data).state \in States
  <2>1. "neutral" \in States
    BY AnswerAssumption
  <2>2. ASSUME state.of \in {<<s>> : s \in States}
        PROVE  state.of[1] \in States
    <3>1. PICK s \in States : state.of = <<s>>
      BY <2>2
    <3>2. QED
      BY <3>1
  <2>3. QED
    BY <1>1, <2>1, <2>2
<1>4. QED
  BY <1>1, <1>2, <1>3, ClampedIn

LEMMA EvaluationRead ==
  ASSUME NEW data, \A key \in DOMAIN data : Parsed(data[key]), NEW compact \in BOOLEAN
  PROVE  LET ev == EvaluateWindow(data, compact) IN
         /\ (ev = Failed) => \E key \in DOMAIN data : ~Iterable(data[key])
         /\ ev # Failed => /\ "critique" \in DOMAIN data => IsPrefix(ev.critique, data["critique"].of)
                           /\ compact => Len(ev.key_observations) <= 1
<1> DEFINE critique == Value(data, "critique", [is |-> "list", of |-> <<>>])
           seen == Value(data, "key_observations", [is |-> "list", of |-> <<>>])
           summary == Value(data, "summary", [is |-> "text", of |-> <<>>])
           n == IF compact THEN MaxTail ELSE MaxCritique
           ev == EvaluateWindow(data, compact)
           kept == IF ~compact THEN Upto2(MaxObservations, seen.of)
                   ELSE IF summary = [is |-> "text", of |-> <<>>] THEN <<>> ELSE <<summary>>
           full == [compact |-> compact, critique |-> Upto2(n, critique.of), key_observations |-> kept]
<1>1. ev = IF ~Iterable(critique) \/ (~compact /\ ~Iterable(seen)) THEN Failed ELSE full
  BY DEF EvaluateWindow
<1>2. full # Failed
  <2>1. "compact" \in DOMAIN full /\ "compact" \notin DOMAIN Failed
    BY DEF Failed
  <2>2. QED
    BY <2>1
<1>3. n \in Nat
  BY AnswerAssumption
<1>4. compact => Len(kept) <= 1
  BY EmptySeq
<1>5. /\ ~Iterable(critique) => \E key \in DOMAIN data : ~Iterable(data[key])
      /\ ~Iterable(seen) => \E key \in DOMAIN data : ~Iterable(data[key])
  BY DEF Value, Iterable
<1>6. ASSUME Iterable(critique), "critique" \in DOMAIN data
      PROVE  IsPrefix(Upto2(n, critique.of), data["critique"].of)
  <2>1. critique = data["critique"]
    BY <1>6 DEF Value
  <2> HIDE DEF critique, n
  <2>2. critique.of \in Seq({critique.of[i] : i \in 1..Len(critique.of)})
    BY <1>6, <2>1 DEF Parsed, Iterable
  <2>3. QED
    BY <1>3, <2>1, <2>2, KeptIsPrefix
<1>7. full.critique = Upto2(n, critique.of) /\ full.key_observations = kept
  OBVIOUS
<1> HIDE DEF ev, full, kept, critique, seen, summary, n
<1>8. /\ (ev = Failed) => \E key \in DOMAIN data : ~Iterable(data[key])
      /\ ev # Failed => /\ "critique" \in DOMAIN data => IsPrefix(ev.critique, data["critique"].of)
                        /\ compact => Len(ev.key_observations) <= 1
  BY <1>1, <1>2, <1>4, <1>5, <1>6, <1>7
<1>9. QED
  BY <1>8 DEF ev

\* The values of an answer are those of items.
LEMMA AnswerParsed ==
  ASSUME input \in Seq(Items("reply"))
  PROVE  \A key \in DOMAIN Answer : Parsed(Answer[key])
<1> SUFFICES ASSUME NEW key \in DOMAIN Answer PROVE Parsed(Answer[key])
  OBVIOUS
<1> DEFINE I == {i \in 1..Len(input) : input[i].key = key}
<1>1. Len(input) \in Nat /\ \A i \in 1..Len(input) : input[i] \in Items("reply")
  BY LenProperties
<1>2. Answer = [k \in {input[i].key : i \in 1..Len(input)} |->
                  input[Max({i \in 1..Len(input) : input[i].key = k})].value]
  BY DEF Answer, LastOfEach
<1>3. key \in {input[i].key : i \in 1..Len(input)} /\ Answer[key] = input[Max(I)].value
  BY <1>2
<1>4. I # {} /\ I \in SUBSET (1..Len(input))
  BY <1>3
<1> HIDE DEF I
<1>5. Max(I) \in 1..Len(input)
  BY <1>1, <1>4, GreatestPlace
<1>6. PICK x \in Items("reply") : Answer[key] = x.value
  BY <1>1, <1>3, <1>5
<1>7. /\ x.value.is = "number" => x.value.n \in Int
      /\ x.value.is \in {"list", "text"} => x.value.of \in Seq({x.value.of[i] : i \in 1..Len(x.value.of)})
  BY ItemsAssumption
<1>8. QED
  BY <1>6, <1>7 DEF Parsed

\* The places of deltas that come before the end of the stream.
Counted(lines) == {i \in 1..Len(lines) : lines[i] = "delta" /\ \A j \in 1..(i - 1) : lines[j] # "done"}

\* Lines that are no event do not matter to what is counted.
LEMMA DeltasKept ==
  ASSUME NEW V, NEW s \in Seq(V), NEW I, NEW c, c = Chosen(s, I),
         \A i \in 1..Len(s) : s[i] \in {"delta", "done"} => i \in I
  PROVE  Deltas(s) = Deltas(c)
<1> DEFINE A == Counted(s)
           B == Counted(c)
<1>1. c \in Seq(V) /\ \E e : PickedBy(s, I, c, e) /\ Complete(I, Len(s), c, e)
  BY ChosenPicked
<1>2. PICK e : PickedBy(s, I, c, e) /\ Complete(I, Len(s), c, e)
  BY <1>1
<1>3. Len(s) \in Nat /\ Len(c) \in Nat
  BY <1>1, LenProperties
<1>4. \A k \in 1..Len(c) : e[k] \in 1..Len(s) /\ c[k] = s[e[k]]
  BY <1>2 DEF PickedBy
<1>5. \A i \in 1..Len(s) : s[i] \in {"delta", "done"} => \E k \in 1..Len(c) : e[k] = i
  BY <1>2 DEF Complete
<1>6. \A j, k \in 1..Len(c) : j < k <=> e[j] < e[k]
  <2>1. SUFFICES ASSUME NEW j \in 1..Len(c), NEW k \in 1..Len(c) PROVE j < k <=> e[j] < e[k]
    OBVIOUS
  <2>2. j < k => e[j] < e[k]
    BY <1>2 DEF PickedBy
  <2>3. k < j => e[k] < e[j]
    BY <1>2 DEF PickedBy
  <2>4. e[j] \in Int /\ e[k] \in Int /\ j \in Int /\ k \in Int
    BY <1>4
  <2>5. j = k => e[j] = e[k]
    OBVIOUS
  <2>6. QED
    BY <2>2, <2>3, <2>4, <2>5
<1>7. \A i, j \in Nat : j \in 1..(i - 1) <=> 1 <= j /\ j < i
  OBVIOUS
<1>8. /\ A = {i \in 1..Len(s) : s[i] = "delta" /\ \A j \in 1..Len(s) : j < i => s[j] # "done"}
      /\ B = {k \in 1..Len(c) : c[k] = "delta" /\ \A j \in 1..Len(c) : j < k => c[j] # "done"}
  <2>1. ASSUME NEW n \in Nat, NEW i \in 1..n
        PROVE  \A j : j \in 1..(i - 1) <=> j \in 1..n /\ j < i
    BY <2>1
  <2>2. \A i \in 1..Len(s) : \A j : j \in 1..(i - 1) <=> j \in 1..Len(s) /\ j < i
    BY <1>3, <2>1
  <2>3. \A i \in 1..Len(c) : \A j : j \in 1..(i - 1) <=> j \in 1..Len(c) /\ j < i
    BY <1>3, <2>1
  <2>4. QED
    BY <2>2, <2>3 DEF Counted
<1> HIDE DEF A, B
<1> DEFINE m == [k \in B |-> e[k]]
<1>9. ASSUME NEW k \in B
      PROVE  e[k] \in A
  <2>1. k \in 1..Len(c) /\ e[k] \in 1..Len(s) /\ s[e[k]] = "delta"
    BY <1>4, <1>8
  <2>2. ASSUME NEW j \in 1..Len(s), j < e[k], s[j] = "done"
        PROVE  FALSE
    <3>1. PICK l \in 1..Len(c) : e[l] = j
      BY <1>5, <2>2
    <3>2. l < k
      BY <1>6, <2>1, <2>2, <3>1
    <3>3. c[l] = "done"
      BY <1>4, <2>2, <3>1
    <3>4. QED
      BY <1>8, <3>2, <3>3
  <2>3. QED
    BY <1>8, <2>1, <2>2
<1>10. ASSUME NEW i \in A
       PROVE  \E k \in B : e[k] = i
  <2>1. i \in 1..Len(s) /\ s[i] = "delta" /\ \A j \in 1..Len(s) : j < i => s[j] # "done"
    BY <1>8
  <2>2. PICK k \in 1..Len(c) : e[k] = i
    BY <1>5, <2>1
  <2>3. ASSUME NEW j \in 1..Len(c), j < k
        PROVE  c[j] # "done"
    <3>1. e[j] < i /\ e[j] \in 1..Len(s) /\ c[j] = s[e[j]]
      BY <1>4, <1>6, <2>2, <2>3
    <3>2. QED
      BY <2>1, <3>1
  <2>4. c[k] = "delta"
    BY <1>4, <2>1, <2>2
  <2>5. QED
    BY <1>8, <2>2, <2>3, <2>4
<1>11. \A j, k \in B : m[j] = m[k] => j = k
  <2>1. SUFFICES ASSUME NEW j \in B, NEW k \in B, e[j] = e[k] PROVE j = k
    OBVIOUS
  <2>2. j \in 1..Len(c) /\ k \in 1..Len(c)
    BY <1>8
  <2>3. e[j] \in Int /\ e[k] \in Int /\ j \in Int /\ k \in Int
    BY <1>4, <2>2
  <2>4. (j < k <=> e[j] < e[k]) /\ (k < j <=> e[k] < e[j])
    BY <1>6, <2>2
  <2>5. QED
    BY <2>1, <2>3, <2>4
<1>12. m \in [B -> A] /\ \A i \in A : \E k \in B : m[k] = i
  BY <1>9, <1>10
<1>13. ExistsBijection(B, A)
  <2>1. m \in Bijection(B, A)
    <3> HIDE DEF m
    <3>1. QED
      BY <1>11, <1>12 DEF Bijection, Injection, Surjection, IsInjective
  <2>2. QED
    BY <2>1 DEF ExistsBijection
<1>14. IsFiniteSet(B)
  <2>1. IsFiniteSet(1..Len(c))
    BY <1>3, FS_Interval
  <2>2. B \subseteq 1..Len(c)
    BY <1>8
  <2>3. QED
    BY <2>1, <2>2, FS_Subset
<1>15. Cardinality(A) = Cardinality(B)
  BY <1>13, <1>14, FS_Bijection
<1>16. QED
  BY <1>15 DEF A, B, Counted, Deltas

\* An answer that grows is one or the beginning of one.
AnswerType == InputType /\ (kind = "json" => Parse(input).next # "error")

LEMMA AnswerTyped == MeasuresSpec => []AnswerType
<1>1. MeasuresInit => AnswerType
  <2>1. SUFFICES ASSUME MeasuresInit PROVE AnswerType
    OBVIOUS
  <2>2. input = <<>> /\ <<>> \in Seq(Items(kind)) /\ Len(<<>>) = 0
    BY <2>1, EmptySeq DEF MeasuresInit
  <2>3. ParseStates(<<>>)[0].next = "start"
    <3>1. ParseStates(<<>>)[0] = [open |-> <<>>, next |-> "start"]
      BY <2>2, ParseStatesSteps
    <3>2. QED
      BY <3>1
  <2>4. QED
    BY <2>2, <2>3 DEF AnswerType, InputType, Parse
<1>2. AnswerType /\ InputType' /\ [Grow]_mvars => AnswerType'
  <2>1. SUFFICES ASSUME AnswerType, InputType', [Grow]_mvars PROVE AnswerType'
    OBVIOUS
  <2>2. CASE Grow
    BY <2>1, <2>2 DEF AnswerType, Grow, Viable
  <2>3. CASE UNCHANGED mvars
    BY <2>1, <2>3 DEF AnswerType, mvars
  <2>4. QED
    BY <2>1, <2>2, <2>3
<1>3. QED
  BY <1>1, <1>2, InputTyped, PTL DEF MeasuresSpec

\* What is made of a model's answer: one that is cut off is saved wherever that
\* is possible and begins as the answer did; whatever types its values have, the
\* state, the intensity and the critique are what they may be; and a stream
\* loses no delta.
THEOREM AnswersAreSaved == MeasuresSpec => []AnswersSaved
<1>1. AnswerType => AnswersSaved
  <2>1. SUFFICES ASSUME AnswerType PROVE AnswersSaved
    OBVIOUS
  <2>2. input \in Seq(Items(kind)) /\ (kind = "json" => Parse(input).next # "error")
    BY <2>1 DEF AnswerType, InputType
  <2>3. ASSUME kind = "json", input # <<>>
        PROVE  IF Parse(input).next \in Lost THEN ExtractJson(input) = None
               ELSE ExtractJson(input) # None /\ IsPrefix(NoCommas(input), ExtractJson(input))
    <3> DEFINE V == Items(kind) \union {"\"", "x"} \union Closings
    <3>1. "\"" \in V /\ "x" \in V /\ Closings \subseteq V /\ Items(kind) \subseteq V
      OBVIOUS
    <3> HIDE DEF V
    <3>2. input \in Seq(V)
      BY <2>2, <3>1, SeqWider
    <3>3. QED
      BY <2>2, <2>3, <3>1, <3>2, JsonSaved
  <2>4. ASSUME kind = "reply"
        PROVE  /\ ReadNonverbal(Answer).state \in States
               /\ ReadNonverbal(Answer).intensity \in 0..MaxLevel
               /\ \A compact \in BOOLEAN :
                    LET ev == EvaluateWindow(Answer, compact) IN
                    /\ (ev = Failed) => \E key \in DOMAIN Answer : ~Iterable(Answer[key])
                    /\ ev # Failed => /\ "critique" \in DOMAIN Answer => IsPrefix(ev.critique, Answer["critique"].of)
                                      /\ compact => Len(ev.key_observations) <= 1
    <3>1. \A key \in DOMAIN Answer : Parsed(Answer[key])
      BY <2>2, <2>4, AnswerParsed
    <3>2. QED
      BY <3>1, NonverbalRead, EvaluationRead
  <2>5. Deltas(input) = Deltas(Chosen(input, Places("delta") \union Places("done")))
    <3> DEFINE I == Places("delta") \union Places("done")
    <3>1. \A i \in 1..Len(input) : input[i] \in {"delta", "done"} => i \in I
      BY DEF Places
    <3> HIDE DEF I
    <3>2. Deltas(input) = Deltas(Chosen(input, I))
      BY <2>2, <3>1, DeltasKept
    <3>3. QED
      BY <3>2 DEF I
  <2>6. QED
    BY <2>3, <2>4, <2>5 DEF AnswersSaved, Lost
<1>2. QED
  BY <1>1, AnswerTyped, PTL

(***************************************************************************)
(* Sorting, choosing and adding up.                                        *)
(***************************************************************************)

\* The places that come no later than i when n keys are sorted.
Ahead(keys, n, i) == {j \in 1..n : keys[j] < keys[i] \/ (keys[j] = keys[i] /\ j <= i)}

\* Every place has a rank of its own, and every rank a place: the ranks order
\* the places by their keys, and equal ones as they were.
LEMMA Ranked ==
  ASSUME NEW n \in Nat, NEW keys, \A i \in 1..n : keys[i] \in Int
  PROVE  /\ \A i \in 1..n : Cardinality(Ahead(keys, n, i)) \in 1..n
         /\ \A i, j \in 1..n : Cardinality(Ahead(keys, n, i)) < Cardinality(Ahead(keys, n, j))
                                 => keys[i] < keys[j] \/ (keys[i] = keys[j] /\ i < j)
         /\ \A i, j \in 1..n : Cardinality(Ahead(keys, n, i)) = Cardinality(Ahead(keys, n, j)) => i = j
         /\ \A k \in 1..n : \E i \in 1..n : Cardinality(Ahead(keys, n, i)) = k
<1> DEFINE A(i) == Ahead(keys, n, i)
           Less(i, j) == keys[i] < keys[j] \/ (keys[i] = keys[j] /\ i < j)
<1>1. IsFiniteSet(1..n) /\ Cardinality(1..n) = n
  BY FS_Interval
<1>2. \A i \in 1..n : A(i) \in SUBSET (1..n) /\ i \in A(i)
  BY DEF Ahead
<1>3. \A i, j \in 1..n : i = j \/ Less(i, j) \/ Less(j, i)
  OBVIOUS
<1>4. ASSUME NEW i \in 1..n, NEW j \in 1..n, Less(i, j)
      PROVE  A(i) \in SUBSET A(j) /\ j \notin A(i)
  BY <1>4 DEF Ahead
<1> HIDE DEF A, Less
<1>5. \A i \in 1..n : IsFiniteSet(A(i)) /\ Cardinality(A(i)) \in Nat /\ Cardinality(A(i)) <= n
  <2>1. TAKE i \in 1..n
  <2>2. A(i) \in SUBSET (1..n)
    BY <1>2
  <2>3. IsFiniteSet(A(i)) /\ Cardinality(A(i)) <= n
    BY <1>1, <2>2, FS_Subset
  <2>4. QED
    BY <2>3, FS_CardinalityType
<1>6. ASSUME NEW i \in 1..n, NEW j \in 1..n, Less(i, j)
      PROVE  Cardinality(A(i)) < Cardinality(A(j))
  <2>1. A(i) \in SUBSET A(j) /\ j \notin A(i) /\ j \in A(j)
    BY <1>2, <1>4, <1>6
  <2>2. Cardinality(A(i)) <= Cardinality(A(j)) /\ (Cardinality(A(j)) = Cardinality(A(i)) => A(j) = A(i))
    BY <1>5, <2>1, FS_Subset
  <2>3. QED
    BY <1>5, <2>1, <2>2
<1>7. \A i \in 1..n : Cardinality(A(i)) \in 1..n
  <2>1. TAKE i \in 1..n
  <2>2. Cardinality(A(i)) # 0
    BY <1>2, <1>5, FS_EmptySet
  <2>3. QED
    BY <1>5, <2>2
<1>8. \A i, j \in 1..n : Cardinality(A(i)) < Cardinality(A(j)) => Less(i, j)
  <2>1. TAKE i \in 1..n, j \in 1..n
  <2>2. ~ (Less(j, i) /\ Cardinality(A(i)) < Cardinality(A(j)))
    BY <1>5, <1>6
  <2>3. ~ (i = j /\ Cardinality(A(i)) < Cardinality(A(j)))
    BY <1>5
  <2>4. QED
    BY <1>3, <2>2, <2>3
<1>9. \A i, j \in 1..n : Cardinality(A(i)) = Cardinality(A(j)) => i = j
  BY <1>3, <1>5, <1>6
<1>10. \A k \in 1..n : \E i \in 1..n : Cardinality(A(i)) = k
  <2> DEFINE f == [i \in 1..n |-> Cardinality(A(i))]
  <2>1. f \in Injection(1..n, 1..n)
    BY <1>7, <1>9 DEF Injection, IsInjective
  <2>2. f \in Surjection(1..n, 1..n)
    BY <1>1, <2>1, FS_Injection
  <2>3. QED
    BY <2>2 DEF Surjection
<1>11. QED
  BY <1>7, <1>8, <1>9, <1>10 DEF A, Less

\* t is s put in the order p: every place comes once, by its key, and equal
\* ones as they were.
InOrder(s, keys, t, p) ==
  /\ Len(t) = Len(s)
  /\ \A k \in 1..Len(s) : p[k] \in 1..Len(s) /\ t[k] = s[p[k]]
  /\ \A i \in 1..Len(s) : \E k \in 1..Len(s) : p[k] = i
  /\ \A k, l \in 1..Len(s) : k < l => keys[p[k]] < keys[p[l]] \/ (keys[p[k]] = keys[p[l]] /\ p[k] < p[l])

LEMMA SortedIs ==
  ASSUME NEW V, NEW s \in Seq(V), NEW keys, \A i \in 1..Len(s) : keys[i] \in Int
  PROVE  SortedBy(s, keys) \in Seq(V) /\ \E p : InOrder(s, keys, SortedBy(s, keys), p)
<1> DEFINE n == Len(s)
           rank == [i \in 1..n |-> Cardinality(Ahead(keys, n, i))]
           r(i) == rank[i]
           p == [k \in 1..n |-> CHOOSE i \in 1..n : r(i) = k]
<1>1. n \in Nat /\ \A i \in 1..n : s[i] \in V
  BY LenProperties
<1>2. SortedBy(s, keys) = [k \in 1..n |-> s[CHOOSE i \in 1..n : r(i) = k]]
  BY DEF SortedBy, Ahead
<1>3. /\ \A i \in 1..n : r(i) \in 1..n
      /\ \A i, j \in 1..n : r(i) < r(j) => keys[i] < keys[j] \/ (keys[i] = keys[j] /\ i < j)
      /\ \A i, j \in 1..n : r(i) = r(j) => i = j
      /\ \A k \in 1..n : \E i \in 1..n : r(i) = k
  <2>1. (\A i \in 1..n : keys[i] \in Int) /\ \A i \in 1..n : r(i) = Cardinality(Ahead(keys, n, i))
    OBVIOUS
  <2> HIDE DEF n, r
  <2>2. /\ \A i \in 1..n : Cardinality(Ahead(keys, n, i)) \in 1..n
        /\ \A i, j \in 1..n : Cardinality(Ahead(keys, n, i)) < Cardinality(Ahead(keys, n, j))
                               => keys[i] < keys[j] \/ (keys[i] = keys[j] /\ i < j)
        /\ \A i, j \in 1..n : Cardinality(Ahead(keys, n, i)) = Cardinality(Ahead(keys, n, j)) => i = j
        /\ \A k \in 1..n : \E i \in 1..n : Cardinality(Ahead(keys, n, i)) = k
    BY <1>1, <2>1, Ranked
  <2>3. QED
    BY <2>1, <2>2
<1> HIDE DEF n, rank, r
<1>4. \A k \in 1..n : p[k] \in 1..n /\ r(p[k]) = k
  BY <1>3
<1>5. \A k \in 1..n : SortedBy(s, keys)[k] = s[p[k]]
  BY <1>2
<1> HIDE DEF p
<1>6. \A k \in 1..n : s[p[k]] \in V
  BY <1>1, <1>4
<1>7. /\ SortedBy(s, keys) \in Seq(V) /\ Len(SortedBy(s, keys)) = n
  <2> DEFINE t == SortedBy(s, keys)
  <2>1. t = [k \in 1..n |-> t[k]] /\ \A k \in 1..n : t[k] \in V
    BY <1>2, <1>5, <1>6
  <2> HIDE DEF t
  <2>2. t \in [1..n -> V]
    BY <2>1
  <2>3. t \in Seq(V) /\ Len(t) = n
    BY <1>1, <2>2, SeqDef, LenProperties
  <2>4. QED
    BY <2>3 DEF t
<1>8. \A i \in 1..n : \E k \in 1..n : p[k] = i
  <2>1. TAKE i \in 1..n
  <2>2. r(i) \in 1..n
    BY <1>3
  <2>3. r(p[r(i)]) = r(i) /\ p[r(i)] \in 1..n
    BY <1>4, <2>2
  <2>4. QED
    BY <1>3, <2>2, <2>3
<1>9. \A k, l \in 1..n : k < l => keys[p[k]] < keys[p[l]] \/ (keys[p[k]] = keys[p[l]] /\ p[k] < p[l])
  <2>1. TAKE k \in 1..n, l \in 1..n
  <2>2. HAVE k < l
  <2>3. p[k] \in 1..n /\ p[l] \in 1..n /\ r(p[k]) < r(p[l])
    BY <1>4, <2>2
  <2>4. QED
    BY <1>3, <2>3
<1>10. InOrder(s, keys, SortedBy(s, keys), p)
  BY <1>4, <1>5, <1>7, <1>8, <1>9 DEF InOrder, n
<1>11. QED
  BY <1>7, <1>10

\* As many members are chosen as there are places to choose, and the last of
\* them is that of the last place.
LEMMA ChosenCount ==
  ASSUME NEW V, NEW s \in Seq(V), NEW I \in SUBSET (1..Len(s))
  PROVE  /\ IsFiniteSet(I) /\ Len(Chosen(s, I)) = Cardinality(I)
         /\ I # {} => /\ \A i \in I : i <= Max(I)
                      /\ Max(I) \in I /\ Last(Chosen(s, I)) = s[Max(I)]
<1> DEFINE c == Chosen(s, I)
           n == Len(c)
<1>1. c \in Seq(V) /\ n \in Nat
  BY ChosenPicked, LenProperties
<1>2. PICK e : PickedBy(s, I, c, e) /\ Complete(I, Len(s), c, e)
  BY ChosenPicked
<1>3. /\ \A k \in 1..n : e[k] \in 1..Len(s) /\ e[k] \in I /\ c[k] = s[e[k]]
      /\ \A j, k \in 1..n : j < k => e[j] < e[k]
      /\ \A i \in I : \E k \in 1..n : e[k] = i
  BY <1>2 DEF PickedBy, Complete
<1> HIDE DEF c, n
<1> DEFINE f == [k \in 1..n |-> e[k]]
<1>4. f \in Bijection(1..n, I)
  <2>1. f \in [1..n -> I]
    BY <1>3
  <2>2. \A j, k \in 1..n : f[j] = f[k] => j = k
    <3>1. TAKE j \in 1..n, k \in 1..n
    <3>2. HAVE f[j] = f[k]
    <3>3. e[j] \in 1..Len(s) /\ e[k] \in 1..Len(s) /\ e[j] = e[k] /\ Len(s) \in Nat
      BY <1>3, <3>2, LenProperties
    <3>4. ~ (e[j] < e[k]) /\ ~ (e[k] < e[j])
      BY <3>3
    <3>5. QED
      BY <1>1, <1>3, <3>4
  <2>3. \A i \in I : \E k \in 1..n : f[k] = i
    BY <1>3
  <2>4. QED
    BY <2>1, <2>2, <2>3, Zenon DEF Bijection, Injection, Surjection, IsInjective
<1>5. IsFiniteSet(1..n) /\ Cardinality(1..n) = n
  BY <1>1, FS_Interval
<1>6. IsFiniteSet(I) /\ Cardinality(I) = n
  <2> HIDE DEF f
  <2>1. ExistsBijection(1..n, I)
    BY <1>4 DEF ExistsBijection
  <2>2. QED
    BY <1>5, <2>1, FS_Bijection
<1>7. ASSUME I # {}
      PROVE  (\A i \in I : i <= Max(I)) /\ Max(I) \in I /\ Last(c) = s[Max(I)]
  <2>1. n # 0
    <3>1. PICK i : i \in I
      BY <1>7
    <3>2. PICK k \in 1..n : e[k] = i
      BY <1>3, <3>1
    <3>3. QED
      BY <1>1, <3>2
  <2>2. n \in 1..n /\ e[n] \in I
    BY <1>1, <1>3, <2>1
  <2>3. \A i \in I : i \in Int /\ i <= e[n]
    <3>1. TAKE i \in I
    <3>2. PICK k \in 1..n : e[k] = i
      BY <1>3
    <3>3. i \in 1..Len(s) /\ e[n] \in 1..Len(s) /\ Len(s) \in Nat
      BY <1>3, <2>2, LenProperties
    <3>4. k = n \/ e[k] < e[n]
      BY <1>1, <1>3, <2>2
    <3>5. QED
      BY <3>2, <3>3, <3>4
  <2>4. Max(I) = e[n]
    <3>1. \A i \in I : e[n] >= i
      BY <2>2, <2>3
    <3>2. Max(I) \in I /\ \A i \in I : Max(I) >= i
      BY <2>2, <3>1 DEF Max
    <3>3. Max(I) >= e[n] /\ e[n] >= Max(I)
      BY <2>2, <3>1, <3>2
    <3>4. Max(I) \in Int /\ e[n] \in Int
      BY <2>2, <2>3, <3>2
    <3>5. QED
      BY <3>3, <3>4
  <2>5. Last(c) = s[e[n]]
    BY <1>3, <2>2 DEF Last, n
  <2>6. QED
    BY <2>2, <2>3, <2>4, <2>5
<1>8. QED
  BY <1>6, <1>7 DEF c, n

\* A sum of naturals is none less than any of them, and 0 if all are.
LEMMA TotalIs ==
  ASSUME NEW s \in Seq(Nat)
  PROVE  /\ Total(s) \in Nat
         /\ \A i \in 1..Len(s) : s[i] <= Total(s)
         /\ (\A i \in 1..Len(s) : s[i] = 0) => Total(s) = 0
<1> DEFINE N == Len(s)
           sum == Running(s)
           T == {n \in 0..N : /\ \A i \in 1..n : s[i] <= sum[n]
                              /\ (\A i \in 1..n : s[i] = 0) => sum[n] = 0}
<1>1. N \in Nat /\ \A n \in 1..N : s[n] \in Nat
  BY LenProperties
<1>2. /\ \A n \in 0..N : sum[n] \in Nat
      /\ sum[0] = 0
      /\ \A n \in 1..N : sum[n] = sum[n - 1] + s[n]
  BY RunningSteps
<1>3. Total(s) = sum[N]
  BY DEF Total
<1> HIDE DEF N, sum
<1>4. 0 \in T
  BY <1>1, <1>2
<1>5. ASSUME NEW n \in Nat, n < N, n \in T
      PROVE  n + 1 \in T
  <2>1. n + 1 \in 1..N /\ n + 1 \in 0..N /\ n \in 0..N /\ (n + 1) - 1 = n
    BY <1>1, <1>5
  <2>2. sum[n + 1] = sum[n] + s[n + 1] /\ sum[n] \in Nat /\ s[n + 1] \in Nat
    BY <1>1, <1>2, <2>1
  <2>3. \A i \in 1..(n + 1) : i = n + 1 \/ i \in 1..n
    BY <1>5
  <2>4. \A i \in 1..n : i \in 1..N /\ i \in 1..(n + 1) /\ s[i] \in Nat /\ s[i] <= sum[n]
    BY <1>1, <1>5, <2>1
  <2>5. \A i \in 1..(n + 1) : s[i] <= sum[n + 1]
    BY <2>2, <2>3, <2>4
  <2>6. ASSUME \A i \in 1..(n + 1) : s[i] = 0
        PROVE  sum[n + 1] = 0
    <3>1. n + 1 \in 1..(n + 1) /\ \A i \in 1..n : s[i] = 0
      BY <2>4, <2>6
    <3>2. sum[n] = 0 /\ s[n + 1] = 0
      BY <1>5, <2>6, <3>1
    <3>3. QED
      BY <2>2, <3>2
  <2>7. QED
    BY <2>1, <2>5, <2>6
<1>6. N \in T
  <2> HIDE DEF T
  <2>1. \A n \in 0..N : n \in T
    BY <1>1, <1>4, <1>5, UpTo
  <2>2. QED
    BY <1>1, <2>1
<1>7. N \in 0..N
  BY <1>1
<1>8. QED
  BY <1>2, <1>3, <1>6, <1>7 DEF N

\* What there is of measures, and nothing that is not there.
LEMMA ThereIs ==
  ASSUME NEW V, NEW ms \in Seq(V)
  PROVE  /\ There(ms) \in Seq(V) /\ Len(There(ms)) \in Nat
         /\ \A i \in 1..Len(There(ms)) : There(ms)[i] \in V /\ There(ms)[i] # None
<1> DEFINE I == {i \in 1..Len(ms) : ms[i] # None}
           t == There(ms)
<1>1. t = Chosen(ms, I)
  BY DEF There
<1> HIDE DEF I, t
<1>2. t \in Seq(V) /\ \E e : PickedBy(ms, I, t, e)
  BY <1>1, ChosenPicked
<1>3. Len(t) \in Nat /\ \A i \in 1..Len(t) : t[i] \in V
  BY <1>2, LenProperties
<1>4. \A i \in 1..Len(t) : t[i] # None
  <2>1. PICK e : PickedBy(ms, I, t, e)
    BY <1>2
  <2>2. \A i \in 1..Len(t) : e[i] \in I /\ t[i] = ms[e[i]]
    BY <2>1 DEF PickedBy
  <2>3. \A j \in I : ms[j] # None
    BY DEF I
  <2>4. QED
    BY <2>2, <2>3
<1>5. QED
  BY <1>2, <1>3, <1>4 DEF t

\* A sum of naturals over measures, of which some may have none.
LEMMA SumIs ==
  ASSUME NEW n \in Nat, NEW f, \A i \in 1..n : f[i] \in Nat
  PROVE  LET s == [i \in 1..n |-> f[i]] IN
         /\ Total(s) \in Nat
         /\ \A i \in 1..n : f[i] <= Total(s)
         /\ (\A i \in 1..n : f[i] = 0) => Total(s) = 0
<1> DEFINE s == [i \in 1..n |-> f[i]]
<1>1. s \in [1..n -> Nat] /\ \A i \in 1..n : s[i] = f[i]
  OBVIOUS
<1> HIDE DEF s
<1>2. s \in Seq(Nat) /\ Len(s) = n
  BY <1>1, SeqDef, LenProperties
<1>3. /\ Total(s) \in Nat
      /\ \A i \in 1..n : s[i] <= Total(s)
      /\ (\A i \in 1..n : s[i] = 0) => Total(s) = 0
  BY <1>2, TotalIs
<1>4. QED
  BY <1>1, <1>3 DEF s

\* Whatever was heard, the aggregate has a rate.
LEMMA RateThere ==
  ASSUME NEW V, \A m \in V : Measured(m), NEW ms \in Seq(V), NEW dur,
         Len(ms) # 0, \A i \in 1..Len(ms) : ms[i] # None
  PROVE  AggRate(ms, dur).articulation_rate # None
<1> DEFINE rates == Each(ms, "rate")
           n == Len(ms)
           phon(i) == Get(rates[i], "phonation_s", 0)
           f == [i \in 1..n |-> phon(i)]
<1>1. n \in Nat /\ n # 0 /\ \A i \in 1..n : ms[i] \in V
  BY LenProperties
<1>2. \A i \in 1..n : rates[i] = ms[i].rate
  BY DEF Each
<1>3. Len(rates) = n
  <2>1. rates = [i \in 1..n |-> ms[i]["rate"]]
    BY DEF Each
  <2>2. QED
    BY <1>1, <2>1
<1>4. \A i \in 1..n : phon(i) \in Nat \ {0}
  <2>1. TAKE i \in 1..n
  <2>2. Measured(ms[i]) /\ ms[i] # None
    BY <1>1
  <2>3. "phonation_s" \in DOMAIN rates[i] /\ rates[i].phonation_s \in Nat \ {0}
    BY <1>2, <2>2 DEF Measured
  <2>4. QED
    BY <2>3 DEF Get
<1>5. Sum(rates, "phonation_s") = Total(f)
  BY <1>3 DEF Sum
<1>6. Sum(rates, "phonation_s") # 0
  <2> HIDE DEF n, rates
  <2>1. \A i \in 1..n : f[i] = phon(i) /\ f[i] \in Nat /\ f[i] # 0
    BY <1>4
  <2> HIDE DEF phon
  <2>2. f = [i \in 1..n |-> f[i]]
    OBVIOUS
  <2> HIDE DEF f
  <2>3. LET s == [i \in 1..n |-> f[i]] IN Total(s) \in Nat /\ \A i \in 1..n : f[i] <= Total(s)
    BY <1>1, <2>1, SumIs
  <2>4. Total(f) \in Nat /\ \A i \in 1..n : f[i] <= Total(f)
    BY <2>2, <2>3, Zenon
  <2>5. 1 \in 1..n
    BY <1>1
  <2>6. f[1] \in Nat /\ f[1] # 0 /\ f[1] <= Total(f)
    BY <2>1, <2>4, <2>5
  <2>7. QED
    BY <1>5, <2>4, <2>6
<1>7. AggRate(ms, dur).articulation_rate = <<Sum(rates, "syllable_nuclei"), Sum(rates, "phonation_s")>>
  BY <1>6 DEF AggRate
<1>8. QED
  BY <1>7 DEF None

\* The fragment says of the voice what the block says.
LEMMA VocalRetold ==
  ASSUME NEW V, \A m \in V : Measured(m), NEW ms \in Seq(V), AggVocal(ms) # None
  PROVE  FragmentVocal(AggVocal(ms)) = DescribeVocal(AggVocal(ms)) \ {"no intonation"}
<1> DEFINE t == There(ms)
           dur == Sum(t, "duration_s")
           m == AggVocal(ms)
           rate == AggRate(t, dur)
<1>1. t # <<>>
  BY DEF AggVocal
<1>2. m = [windows |-> Len(t), duration_s |-> dur, pitch |-> AggPitch(t), rate |-> rate,
           pauses |-> AggPauses(t), energy |-> AggEnergy(t)]
  BY <1>1 DEF AggVocal
<1>3. t \in Seq(V) /\ Len(t) \in Nat /\ \A i \in 1..Len(t) : t[i] # None
  BY ThereIs
<1> HIDE DEF t, dur, m
<1>4. Len(t) # 0
  BY <1>1, <1>3, EmptySeq
<1>5. rate.articulation_rate # None
  BY <1>3, <1>4, RateThere
<1>6. m.rate = rate
  BY <1>2
<1>7. Get(rate, "intensity_peak_nuclei", 0) = rate.intensity_peak_nuclei
  <2>1. "intensity_peak_nuclei" \in DOMAIN rate
    BY DEF AggRate
  <2>2. QED
    BY <2>1 DEF Get
<1> HIDE DEF rate
<1>8. FragmentVocal(m) = DescribeVocal(m) \ {"no intonation"}
  BY <1>5, <1>6, <1>7 DEF FragmentVocal, DescribeVocal
<1>9. QED
  BY <1>8 DEF m

(***************************************************************************)
(* What the hand-off retells.                                              *)
(***************************************************************************)

\* A weighted mean is None exactly when nothing that is there has weight.
LEMMA WeightedIs ==
  ASSUME NEW P, NEW pairs \in Seq(P)
  PROVE  WeightedMean(pairs) = None <=> \A i \in 1..Len(pairs) : pairs[i].v # None => ~ (pairs[i].w > 0)
<1> DEFINE I == {i \in 1..Len(pairs) : pairs[i].v # None /\ pairs[i].w > 0}
           valid == Chosen(pairs, I)
<1>1. valid \in Seq(P) /\ \E e : PickedBy(pairs, I, valid, e) /\ Complete(I, Len(pairs), valid, e)
  BY ChosenPicked
<1>2. WeightedMean(pairs) = None <=> valid = <<>>
  <2>1. \E x, y : WeightedMean(pairs) = IF valid = <<>> THEN None ELSE <<x, y>>
    BY Zenon DEF WeightedMean
  <2> HIDE DEF valid
  <2>2. \A x, y : <<x, y>> # None
    BY DEF None
  <2>3. QED
    BY <2>1, <2>2
<1>3. \A i \in 1..Len(pairs) : i \in I <=> pairs[i].v # None /\ pairs[i].w > 0
  OBVIOUS
<1>4. \A i \in I : i \in 1..Len(pairs)
  OBVIOUS
<1> HIDE DEF I, valid
<1>5. PICK e : PickedBy(pairs, I, valid, e) /\ Complete(I, Len(pairs), valid, e)
  BY <1>1
<1>6. valid = <<>> <=> Len(valid) = 0
  BY <1>1, EmptySeq
<1>7. Len(valid) \in Nat
  BY <1>1, LenProperties
<1>8. Len(valid) = 0 <=> \A i \in 1..Len(pairs) : i \notin I
  <2>1. Len(valid) # 0 => e[1] \in I /\ e[1] \in 1..Len(pairs)
    BY <1>5, <1>7 DEF PickedBy
  <2>2. ASSUME NEW i \in 1..Len(pairs), i \in I PROVE Len(valid) # 0
    BY <1>5, <1>7, <2>2 DEF Complete
  <2>3. QED
    BY <2>1, <2>2
<1>9. QED
  BY <1>2, <1>3, <1>6, <1>8

\* The weight of a window in a lane, and its frames.
Share(m, framesKey, ratioKey) == Get(m, framesKey, 0) * Get(m, ratioKey, 0)

WeighedIn(ms, framesKey, ratioKey, key) ==
  WeightedMean([i \in 1..Len(ms) |-> [v |-> Get(ms[i], key, None), w |-> Share(ms[i], framesKey, ratioKey)]])

LEMMA WeighedIs ==
  ASSUME NEW V, NEW ms \in Seq(V), NEW framesKey, NEW ratioKey, NEW key
  PROVE  WeighedIn(ms, framesKey, ratioKey, key) = None
           <=> \A i \in 1..Len(ms) : Get(ms[i], key, None) # None => ~ (Share(ms[i], framesKey, ratioKey) > 0)
<1> DEFINE pair(i) == [v |-> Get(ms[i], key, None), w |-> Share(ms[i], framesKey, ratioKey)]
           pairs == [i \in 1..Len(ms) |-> pair(i)]
           P == {pair(i) : i \in 1..Len(ms)}
<1>1. pairs \in [1..Len(ms) -> P]
  OBVIOUS
<1>2. \A i \in 1..Len(ms) : pairs[i] = pair(i)
  OBVIOUS
<1>3. \A i \in 1..Len(ms) : pair(i).v = Get(ms[i], key, None) /\ pair(i).w = Share(ms[i], framesKey, ratioKey)
  OBVIOUS
<1>4. WeighedIn(ms, framesKey, ratioKey, key) = WeightedMean(pairs)
  BY Zenon DEF WeighedIn
<1> HIDE DEF pair, P, pairs
<1>5. pairs \in Seq(P) /\ Len(pairs) = Len(ms)
  <2>1. Len(ms) \in Nat
    BY LenProperties
  <2>2. pairs \in Seq(P)
    BY <1>1, <2>1, SeqDef
  <2>3. QED
    BY <1>1, <2>1, <2>2, LenProperties
<1>6. WeightedMean(pairs) = None <=> \A i \in 1..Len(pairs) : pairs[i].v # None => ~ (pairs[i].w > 0)
  BY <1>5, WeightedIs
<1>7. QED
  BY <1>2, <1>3, <1>4, <1>5, <1>6

\* What a lane's aggregate has: its frames and their share, and the rest if
\* anything was detected.
Detections(ms, framesKey, ratioKey) == Total([i \in 1..Len(ms) |-> Share(ms[i], framesKey, ratioKey)])

LaneKeys(ms, framesKey, ratioKey, others) ==
  IF Detections(ms, framesKey, ratioKey) = 0 THEN {framesKey, ratioKey} ELSE {framesKey, ratioKey} \union others

LaneFacts(lane, ms, framesKey, ratioKey, keys, others) ==
  /\ lane[framesKey] = Sum(ms, framesKey)
  /\ DOMAIN lane = LaneKeys(ms, framesKey, ratioKey, keys \union others)
  /\ Detections(ms, framesKey, ratioKey) = 0 /\ framesKey # ratioKey =>
       lane[ratioKey] = IF Sum(ms, framesKey) = 0 THEN 0 ELSE Rounded(0, Sum(ms, framesKey))
  /\ Detections(ms, framesKey, ratioKey) # 0 =>
       \A k \in keys \ {framesKey, ratioKey} : lane[k] = WeighedIn(ms, framesKey, ratioKey, k)

LEMMA LaneIs ==
  ASSUME NEW ms, NEW framesKey, NEW ratioKey, NEW keys, NEW sums, NEW maxes
  PROVE  LaneFacts(AggLane(ms, framesKey, ratioKey, keys, sums, maxes), ms, framesKey, ratioKey, keys, sums \union maxes)
<1> DEFINE detected(m) == Get(m, framesKey, 0) * Get(m, ratioKey, 0)
           det == Total([i \in 1..Len(ms) |-> detected(ms[i])])
           seen == SelectSeq(ms, LAMBDA m : detected(m) > 0)
           total == Sum(ms, framesKey)
           coverage == [k \in {framesKey, ratioKey} |->
                          IF k = framesKey THEN total ELSE IF total = 0 THEN 0 ELSE Rounded(det, total)]
           summed == [k \in sums |-> Sum(seen, k)]
           highest == [k \in maxes |-> Highest([i \in 1..Len(seen) |-> Get(seen[i], k, 0)])]
           means == [k \in keys |-> Weigh(ms, k, detected)]
           lane == AggLane(ms, framesKey, ratioKey, keys, sums, maxes)
<1>1. lane = IF det = 0 THEN coverage ELSE Merged(coverage, Merged(means, Merged(summed, highest)))
  BY Zenon DEF AggLane
<1>2. det = Detections(ms, framesKey, ratioKey)
  BY Zenon DEF Detections, Share
<1>3. /\ DOMAIN coverage = {framesKey, ratioKey} /\ coverage[framesKey] = total
      /\ framesKey # ratioKey => coverage[ratioKey] = IF total = 0 THEN 0 ELSE Rounded(det, total)
  OBVIOUS
<1>4. DOMAIN summed = sums /\ DOMAIN highest = maxes /\ DOMAIN means = keys
  OBVIOUS
<1>4a. \A k \in keys : means[k] = WeighedIn(ms, framesKey, ratioKey, k)
  <2>1. TAKE k \in keys
  <2>2. means[k] = Weigh(ms, k, detected)
    OBVIOUS
  <2>3. Weigh(ms, k, detected) = WeighedIn(ms, framesKey, ratioKey, k)
    BY Zenon DEF Weigh, WeighedIn, Share
  <2>4. QED
    BY <2>2, <2>3, Zenon
<1> HIDE DEF lane, det, coverage, summed, highest, means, total
<1>5. DOMAIN Merged(summed, highest) = sums \union maxes
  BY <1>4 DEF Merged
<1>6. /\ DOMAIN Merged(means, Merged(summed, highest)) = keys \union sums \union maxes
      /\ \A k \in keys : Merged(means, Merged(summed, highest))[k] = means[k]
  BY <1>4, <1>5, Zenon DEF Merged
<1> DEFINE rest == Merged(means, Merged(summed, highest))
<1> HIDE DEF rest
<1>7. /\ Merged(coverage, rest)[framesKey] = total
      /\ DOMAIN Merged(coverage, rest) = {framesKey, ratioKey} \union keys \union sums \union maxes
      /\ \A k \in keys \ {framesKey, ratioKey} : Merged(coverage, rest)[k] = means[k]
  BY <1>3, <1>6 DEF Merged, rest
<1>8. /\ lane[framesKey] = total
      /\ DOMAIN lane = IF det = 0 THEN {framesKey, ratioKey} ELSE {framesKey, ratioKey} \union keys \union sums \union maxes
      /\ det # 0 => \A k \in keys \ {framesKey, ratioKey} : lane[k] = means[k]
  BY <1>1, <1>3, <1>7 DEF rest
<1>9. det = 0 /\ framesKey # ratioKey => lane[ratioKey] = IF total = 0 THEN 0 ELSE Rounded(0, total)
  BY <1>1, <1>3
<1>10. det # 0 => \A k \in keys \ {framesKey, ratioKey} : lane[k] = WeighedIn(ms, framesKey, ratioKey, k)
  BY <1>4a, <1>8
<1>11. QED
  BY <1>2, <1>8, <1>9, <1>10 DEF lane, total, LaneKeys, LaneFacts

\* Something was detected exactly when a window has a share in it, and then
\* there were frames.
LaneOf == {<<"face_frames", "face_seen_ratio">>, <<"pose_frames", "pose_seen_ratio">>}

LEMMA DetectedInFrames ==
  ASSUME NEW V, \A m \in V : Counting(m), NEW ms \in Seq(V), \A i \in 1..Len(ms) : ms[i] # None,
         NEW lane \in LaneOf
  PROVE  /\ Sum(ms, lane[1]) \in Nat
         /\ \A i \in 1..Len(ms) : Share(ms[i], lane[1], lane[2]) \in Nat
         /\ Detections(ms, lane[1], lane[2]) # 0 => Sum(ms, lane[1]) > 0
         /\ Detections(ms, lane[1], lane[2]) # 0 <=> \E i \in 1..Len(ms) : Share(ms[i], lane[1], lane[2]) > 0
<1> DEFINE n == Len(ms)
           a(i) == Get(ms[i], lane[1], 0)
           b(i) == Get(ms[i], lane[2], 0)
           f == [i \in 1..n |-> a(i)]
           g == [i \in 1..n |-> a(i) * b(i)]
<1>1. n \in Nat /\ \A i \in 1..n : ms[i] \in V
  BY LenProperties
<1>2. \A i \in 1..n : a(i) \in Nat /\ b(i) \in Nat
  <2>1. TAKE i \in 1..n
  <2>2. \A key \in DOMAIN ms[i] \cap {"face_frames", "face_seen_ratio", "pose_frames", "pose_seen_ratio"} :
          ms[i][key] \in Nat
    BY <1>1 DEF Counting
  <2>3. \A key \in {"face_frames", "face_seen_ratio", "pose_frames", "pose_seen_ratio"} : Get(ms[i], key, 0) \in Nat
    BY <2>2 DEF Get
  <2>4. {lane[1], lane[2]} \subseteq {"face_frames", "face_seen_ratio", "pose_frames", "pose_seen_ratio"}
    BY DEF LaneOf
  <2>5. QED
    BY <2>3, <2>4
<1>3. Sum(ms, lane[1]) = Total(f)
  BY Zenon DEF Sum
<1>4. Detections(ms, lane[1], lane[2]) = Total(g)
  BY Zenon DEF Detections, Share
<1>4a. \A i \in 1..n : Share(ms[i], lane[1], lane[2]) = a(i) * b(i)
  BY DEF Share
<1> HIDE DEF n, a, b
<1>5. \A i \in 1..n : f[i] = a(i) /\ g[i] = a(i) * b(i) /\ f[i] \in Nat /\ g[i] \in Nat /\ (f[i] = 0 => g[i] = 0)
  BY <1>2
<1>6. f = [i \in 1..n |-> f[i]] /\ g = [i \in 1..n |-> g[i]]
  OBVIOUS
<1> HIDE DEF f, g
<1>7. Total(f) \in Nat /\ \A i \in 1..n : f[i] <= Total(f)
  <2>1. LET s == [i \in 1..n |-> f[i]] IN Total(s) \in Nat /\ \A i \in 1..n : f[i] <= Total(s)
    BY <1>1, <1>5, SumIs
  <2>2. QED
    BY <1>6, <2>1, Zenon
<1>8. /\ Total(g) \in Nat /\ \A i \in 1..n : g[i] <= Total(g)
      /\ (\A i \in 1..n : g[i] = 0) => Total(g) = 0
  <2>1. LET s == [i \in 1..n |-> g[i]] IN /\ Total(s) \in Nat /\ \A i \in 1..n : g[i] <= Total(s)
                                          /\ (\A i \in 1..n : g[i] = 0) => Total(s) = 0
    BY <1>1, <1>5, SumIs
  <2>2. QED
    BY <1>6, <2>1, Zenon
<1>9. Total(g) # 0 => \E i \in 1..n : g[i] > 0
  BY <1>5, <1>8
<1>10. (\E i \in 1..n : g[i] > 0) => Total(g) # 0
  BY <1>5, <1>8
<1>11. (\E i \in 1..n : g[i] > 0) => Total(f) > 0
  BY <1>5, <1>7
<1>12. \A i \in 1..n : Share(ms[i], lane[1], lane[2]) = g[i]
  BY <1>4a, <1>5
<1>13. QED
  BY <1>3, <1>4, <1>5, <1>7, <1>9, <1>10, <1>11, <1>12 DEF n

FaceKeys == {"face_frames", "face_seen_ratio", "smile_mean", "smile_ratio", "lip_motion", "blink_count", "smile_max"}
HandKeys == {"hand_frames", "hand_seen_ratio", "finger_segments", "finger_sequence"}
PoseKeys == {"pose_frames", "pose_seen_ratio", "posture_std", "wrist_visible", "wrist_motion", "gesture_events"}

FaceLane(t) == AggLane(t, "face_frames", "face_seen_ratio", {"smile_mean", "smile_ratio", "lip_motion"},
                       {"blink_count"}, {"smile_max"})
PoseLane(t) == AggLane(t, "pose_frames", "pose_seen_ratio", {"posture_std", "wrist_visible", "wrist_motion"},
                       {"gesture_events"}, {})

\* An aggregate has what the lanes of face and body have.
LEMMA AggregateIs ==
  ASSUME NEW ms, AggVisual(ms) # None
  PROVE  /\ \A key \in FaceKeys : /\ key \in DOMAIN AggVisual(ms) <=> key \in DOMAIN FaceLane(There(ms))
                                  /\ key \in DOMAIN AggVisual(ms) => AggVisual(ms)[key] = FaceLane(There(ms))[key]
         /\ \A key \in PoseKeys : /\ key \in DOMAIN AggVisual(ms) <=> key \in DOMAIN PoseLane(There(ms))
                                  /\ key \in DOMAIN AggVisual(ms) => AggVisual(ms)[key] = PoseLane(There(ms))[key]
<1> DEFINE t == There(ms)
           face == FaceLane(t)
           pose == PoseLane(t)
           windows == [windows |-> Len(t)]
           both == Merged(windows, Merged(face, pose))
           hands == AggHands(t)
           m == AggVisual(ms)
<1>1. m = both \/ m = Merged(both, hands)
  BY Zenon DEF AggVisual, FaceLane, PoseLane
<1>2. DOMAIN face \subseteq FaceKeys
  <2>1. DOMAIN face = LaneKeys(t, "face_frames", "face_seen_ratio",
                               {"smile_mean", "smile_ratio", "lip_motion"} \union ({"blink_count"} \union {"smile_max"}))
    BY LaneIs DEF FaceLane, LaneFacts
  <2> HIDE DEF face, t
  <2>2. QED
    BY <2>1 DEF FaceKeys, LaneKeys
<1>3. DOMAIN hands \subseteq HandKeys
  <2> DEFINE lane == AggLane(t, "hand_frames", "hand_seen_ratio", {}, {}, {})
  <2>1. DOMAIN lane \subseteq {"hand_frames", "hand_seen_ratio"}
    <3>1. DOMAIN lane = LaneKeys(t, "hand_frames", "hand_seen_ratio", {} \union ({} \union {}))
      BY LaneIs DEF LaneFacts
    <3> HIDE DEF lane, t
    <3>2. QED
      BY <3>1 DEF LaneKeys
  <2>2. hands = lane \/ \E x, y : hands = Merged(lane, [finger_segments |-> x, finger_sequence |-> y])
    BY Zenon DEF AggHands
  <2> HIDE DEF lane, hands
  <2>3. \A x, y : DOMAIN Merged(lane, [finger_segments |-> x, finger_sequence |-> y])
                    = DOMAIN lane \union {"finger_segments", "finger_sequence"}
    BY DEF Merged
  <2>4. QED
    BY <2>1, <2>2, <2>3 DEF HandKeys
<1>4. DOMAIN pose \subseteq PoseKeys
  <2>1. DOMAIN pose = LaneKeys(t, "pose_frames", "pose_seen_ratio",
                               {"posture_std", "wrist_visible", "wrist_motion"} \union ({"gesture_events"} \union {}))
    BY LaneIs DEF PoseLane, LaneFacts
  <2> HIDE DEF pose, t
  <2>2. QED
    BY <2>1 DEF PoseKeys, LaneKeys
<1> HIDE DEF face, pose, hands, m, t
<1>5. DOMAIN windows = {"windows"}
  OBVIOUS
<1> HIDE DEF windows
<1>6. /\ \A key \in FaceKeys : key \notin {"windows"} \union PoseKeys \union HandKeys
      /\ \A key \in PoseKeys : key \notin {"windows"} \union FaceKeys \union HandKeys
  BY DEF FaceKeys, PoseKeys, HandKeys
<1>7. /\ \A key \in FaceKeys : /\ key \in DOMAIN both <=> key \in DOMAIN face
                               /\ key \in DOMAIN both => both[key] = face[key]
      /\ \A key \in PoseKeys : /\ key \in DOMAIN both <=> key \in DOMAIN pose
                               /\ key \in DOMAIN both => both[key] = pose[key]
  BY <1>2, <1>4, <1>5, <1>6 DEF Merged
<1> HIDE DEF both
<1>8. /\ \A key : key \notin HandKeys => (key \in DOMAIN m <=> key \in DOMAIN both)
      /\ \A key \in DOMAIN both : m[key] = both[key] /\ key \in DOMAIN m
  BY <1>1, <1>3 DEF Merged
<1>9. QED
  BY <1>6, <1>7, <1>8 DEF face, pose, t, m

\* The wrists are in an aggregate exactly when the posture is, which is when a
\* body was seen, and then so are frames of the body; they have no value when
\* no measure of a body that was seen has.
LEMMA WristsThere ==
  ASSUME NEW V, \A m \in V : Counting(m), NEW ms \in Seq(V), AggVisual(ms) # None
  PROVE  LET m == AggVisual(ms)
             t == There(ms)
             share(i) == Share(t[i], "pose_frames", "pose_seen_ratio") IN
         /\ "wrist_visible" \in DOMAIN m <=> "posture_std" \in DOMAIN m
         /\ "wrist_visible" \in DOMAIN m => "pose_frames" \in DOMAIN m /\ m["pose_frames"] > 0
         /\ "wrist_visible" \in DOMAIN m <=> \E i \in 1..Len(t) : share(i) > 0
         /\ "wrist_visible" \in DOMAIN m =>
              (m["wrist_visible"] = None <=>
                 \A i \in 1..Len(t) : Get(t[i], "wrist_visible", None) # None => ~ (share(i) > 0))
<1> DEFINE t == There(ms)
           pose == PoseLane(t)
           m == AggVisual(ms)
           keys == {"posture_std", "wrist_visible", "wrist_motion"}
           sums == {"gesture_events"}
           det == Detections(t, "pose_frames", "pose_seen_ratio")
           share(i) == Share(t[i], "pose_frames", "pose_seen_ratio")
<1>1. t \in Seq(V) /\ \A i \in 1..Len(t) : t[i] # None
  BY ThereIs
<1>2. LaneFacts(pose, t, "pose_frames", "pose_seen_ratio", keys, sums \union {})
  BY LaneIs DEF PoseLane
<1> HIDE DEF t
<1>3. /\ det # 0 => Sum(t, "pose_frames") > 0
      /\ det # 0 <=> \E i \in 1..Len(t) : share(i) > 0
  <2> DEFINE lane == <<"pose_frames", "pose_seen_ratio">>
  <2>1. lane \in LaneOf /\ lane[1] = "pose_frames" /\ lane[2] = "pose_seen_ratio"
    BY DEF LaneOf
  <2> HIDE DEF lane
  <2>2. /\ Detections(t, lane[1], lane[2]) # 0 => Sum(t, lane[1]) > 0
        /\ Detections(t, lane[1], lane[2]) # 0 <=> \E i \in 1..Len(t) : Share(t[i], lane[1], lane[2]) > 0
    BY <1>1, <2>1, DetectedInFrames
  <2>3. QED
    BY <2>1, <2>2
<1>4. WeighedIn(t, "pose_frames", "pose_seen_ratio", "wrist_visible") = None
        <=> \A i \in 1..Len(t) : Get(t[i], "wrist_visible", None) # None => ~ (share(i) > 0)
  BY <1>1, WeighedIs
<1>5. \A key \in PoseKeys : /\ key \in DOMAIN m <=> key \in DOMAIN pose
                            /\ key \in DOMAIN m => m[key] = pose[key]
  BY AggregateIs DEF t
<1> HIDE DEF pose, m, det, share
<1>6. /\ "wrist_visible" \in DOMAIN pose <=> det # 0
      /\ "posture_std" \in DOMAIN pose <=> det # 0
      /\ "pose_frames" \in DOMAIN pose
      /\ det # 0 => pose["wrist_visible"] = WeighedIn(t, "pose_frames", "pose_seen_ratio", "wrist_visible")
  BY <1>2 DEF LaneFacts, LaneKeys, det
<1>7. "wrist_visible" \in PoseKeys /\ "posture_std" \in PoseKeys /\ "pose_frames" \in PoseKeys
  BY DEF PoseKeys
<1> HIDE DEF PoseKeys
<1>8. pose["pose_frames"] = Sum(t, "pose_frames")
  BY <1>2 DEF LaneFacts
<1>9. QED
  BY <1>8, <1>3, <1>4, <1>5, <1>6, <1>7 DEF m, share, t

\* A face that is told of is measured.
LEMMA SmilesThere ==
  ASSUME NEW V, \A m \in V : Counting(m), NEW ms \in Seq(V), AggVisual(ms) # None,
         "smile" \in FaceLines(AggVisual(ms))
  PROVE  AggVisual(ms).smile_ratio # None
<1> DEFINE t == There(ms)
           face == FaceLane(t)
           m == AggVisual(ms)
           keys == {"smile_mean", "smile_ratio", "lip_motion"}
           sums == {"blink_count"}
           maxes == {"smile_max"}
           det == Detections(t, "face_frames", "face_seen_ratio")
           total == Sum(t, "face_frames")
           share(i) == Share(t[i], "face_frames", "face_seen_ratio")
<1>1. t \in Seq(V) /\ \A i \in 1..Len(t) : t[i] \in V /\ t[i] # None
  BY ThereIs
<1>2. LaneFacts(face, t, "face_frames", "face_seen_ratio", keys, sums \union maxes)
  BY LaneIs DEF FaceLane
<1> HIDE DEF t
<1>3. /\ total \in Nat
      /\ \A i \in 1..Len(t) : share(i) \in Nat
      /\ det # 0 <=> \E i \in 1..Len(t) : share(i) > 0
  <2> DEFINE lane == <<"face_frames", "face_seen_ratio">>
  <2>1. lane \in LaneOf /\ lane[1] = "face_frames" /\ lane[2] = "face_seen_ratio"
    BY DEF LaneOf
  <2> HIDE DEF lane
  <2>2. /\ Sum(t, lane[1]) \in Nat
        /\ \A i \in 1..Len(t) : Share(t[i], lane[1], lane[2]) \in Nat
        /\ Detections(t, lane[1], lane[2]) # 0 <=> \E i \in 1..Len(t) : Share(t[i], lane[1], lane[2]) > 0
    BY <1>1, <2>1, DetectedInFrames
  <2>3. QED
    BY <2>1, <2>2
<1>4. WeighedIn(t, "face_frames", "face_seen_ratio", "smile_ratio") = None
        <=> \A i \in 1..Len(t) : Get(t[i], "smile_ratio", None) # None => ~ (share(i) > 0)
  BY <1>1, WeighedIs
<1>5. \A key \in FaceKeys : /\ key \in DOMAIN m <=> key \in DOMAIN face
                            /\ key \in DOMAIN m => m[key] = face[key]
  BY AggregateIs DEF t
<1>6. \A i \in 1..Len(t) : share(i) > 0 => Get(t[i], "smile_ratio", None) # None
  <2>1. TAKE i \in 1..Len(t)
  <2>2. HAVE share(i) > 0
  <2>3. Counting(t[i]) /\ t[i] # None
    BY <1>1
  <2>4. Get(t[i], "face_frames", 0) \in Nat /\ Get(t[i], "face_seen_ratio", 0) \in Nat
    BY <2>3 DEF Counting, Get
  <2>5. Get(t[i], "face_seen_ratio", 0) > 0
    BY <2>2, <2>4 DEF Share
  <2>6. QED
    BY <2>3, <2>5 DEF Counting
<1>7. Get(m, "face_seen_ratio", 0) > 0
  BY DEF FaceLines
<1> HIDE DEF face, m, det, share, total
<1>8. "face_seen_ratio" \in FaceKeys /\ "smile_ratio" \in FaceKeys
  BY DEF FaceKeys
<1>9. face["face_seen_ratio"] > 0
  <2>1. "face_seen_ratio" \in DOMAIN face
    BY <1>2 DEF LaneFacts, LaneKeys
  <2>2. QED
    BY <1>5, <1>7, <1>8, <2>1 DEF Get
<1>10. \A d \in Nat \ {0} : Rounded(0, d) = 0
  <2>1. TAKE d \in Nat \ {0}
  <2>2. 0 \div d = 0 /\ 0 % d = 0
    OBVIOUS
  <2>3. QED
    BY <2>2 DEF Rounded
<1>11. det # 0
  BY <1>2, <1>3, <1>9, <1>10 DEF LaneFacts, det, total
<1>12. "smile_ratio" \in DOMAIN face /\ face["smile_ratio"] = WeighedIn(t, "face_frames", "face_seen_ratio", "smile_ratio")
  BY <1>2, <1>11 DEF LaneFacts, LaneKeys, det
<1>13. QED
  BY <1>3, <1>4, <1>5, <1>6, <1>8, <1>11, <1>12 DEF m

\* Describing an aggregate raises exactly when all that was seen of a body are
\* glimpses.
LEMMA RaisesIs ==
  ASSUME NEW V, \A m \in V : Counting(m), NEW ms \in Seq(V), AggVisual(ms) # None
  PROVE  DescribeVisual(AggVisual(ms)).raises <=> Glimpsed({There(ms)[i] : i \in 1..Len(There(ms))})
<1> DEFINE m == AggVisual(ms)
           t == There(ms)
           share(i) == Share(t[i], "pose_frames", "pose_seen_ratio")
           T == {t[i] : i \in 1..Len(t)}
<1>1. /\ "wrist_visible" \in DOMAIN m <=> "posture_std" \in DOMAIN m
      /\ "wrist_visible" \in DOMAIN m => "pose_frames" \in DOMAIN m /\ m["pose_frames"] > 0
      /\ "wrist_visible" \in DOMAIN m <=> \E i \in 1..Len(t) : share(i) > 0
      /\ "wrist_visible" \in DOMAIN m =>
           (m["wrist_visible"] = None <=>
              \A i \in 1..Len(t) : Get(t[i], "wrist_visible", None) # None => ~ (share(i) > 0))
  BY WristsThere
<1>2. "smile" \in FaceLines(m) => m.smile_ratio # None
  BY SmilesThere
<1>3. \A i \in 1..Len(t) : t[i] # None
  BY ThereIs
<1> HIDE DEF m, t
<1>4. HasPose(m) <=> "wrist_visible" \in DOMAIN m
  BY <1>1 DEF HasPose, Get
<1>5. DescribeVisual(m).raises <=> ("smile" \in FaceLines(m) /\ m.smile_ratio = None) \/ (HasPose(m) /\ m.wrist_visible = None)
  BY DEF DescribeVisual
<1>6. \A i \in 1..Len(t) : share(i) = Get(t[i], "pose_frames", 0) * Get(t[i], "pose_seen_ratio", 0)
  BY DEF Share
<1> HIDE DEF share
<1>7. Glimpsed(T) <=> /\ \E i \in 1..Len(t) : share(i) > 0
                      /\ \A i \in 1..Len(t) : share(i) > 0 => Get(t[i], "wrist_visible", None) = None
  BY <1>3, <1>6 DEF Glimpsed
<1>8. QED
  BY <1>1, <1>2, <1>4, <1>5, <1>7 DEF m, t

\* The fragment forbids to judge the hands when the block does not report them.
LEMMA VisualRetold ==
  ASSUME NEW V, \A m \in V : Counting(m), NEW ms \in Seq(V), AggVisual(ms) # None, AggVisual(ms).face_frames > 0
  PROVE  "hands unobservable" \in FragmentVisual(AggVisual(ms))
           <=> "gestures" \notin DescribeVisual(AggVisual(ms)).lines
<1> DEFINE m == AggVisual(ms)
           clear == AtMost(<<WristObservable, Parts>>, m.wrist_visible)
<1>1. /\ "wrist_visible" \in DOMAIN m <=> "posture_std" \in DOMAIN m
      /\ "wrist_visible" \in DOMAIN m => "pose_frames" \in DOMAIN m /\ m["pose_frames"] > 0
  BY WristsThere
<1>2. m.face_frames # 0
  OBVIOUS
<1> HIDE DEF m
<1>3. "hands unobservable" \in FragmentVisual(m)
        <=> (Get(m, "wrist_visible", None) = None \/ ~AtMost(<<WristObservable, Parts>>, Get(m, "wrist_visible", None)))
  BY <1>2 DEF FragmentVisual
<1>4. "gestures" \in DescribeVisual(m).lines <=> HasPose(m) /\ m.wrist_visible # None /\ clear
  <2>1. "gestures" \notin FaceLines(m)
    BY DEF FaceLines
  <2>2. "gestures" \in PoseLines(m) <=> HasPose(m) /\ m.wrist_visible # None /\ clear
    BY DEF PoseLines
  <2>3. DescribeVisual(m).lines = FaceLines(m) \union PoseLines(m) \union
          (IF Get(m, "finger_sequence", <<>>) # <<>> THEN {"fingers"} ELSE {})
    BY DEF DescribeVisual
  <2>4. QED
    BY <2>1, <2>2, <2>3
<1>5. HasPose(m) <=> "wrist_visible" \in DOMAIN m
  BY <1>1 DEF HasPose, Get
<1>6. CASE "wrist_visible" \in DOMAIN m
  <2>1. Get(m, "wrist_visible", None) = m.wrist_visible
    BY <1>6 DEF Get
  <2>2. "hands unobservable" \in FragmentVisual(m) <=> "gestures" \notin DescribeVisual(m).lines
    <3>1. "hands unobservable" \in FragmentVisual(m) <=> (m.wrist_visible = None \/ ~clear)
      BY <1>3, <2>1, Zenon
    <3>2. "gestures" \in DescribeVisual(m).lines <=> m.wrist_visible # None /\ clear
      BY <1>4, <1>5, <1>6, Zenon
    <3>3. QED
      BY <3>1, <3>2, Zenon
  <2>3. QED
    BY <2>2 DEF m
<1>7. CASE "wrist_visible" \notin DOMAIN m
  <2>1. Get(m, "wrist_visible", None) = None
    BY <1>7 DEF Get
  <2>2. "hands unobservable" \in FragmentVisual(m) <=> "gestures" \notin DescribeVisual(m).lines
    BY <1>3, <1>4, <1>5, <1>7, <2>1
  <2>3. QED
    BY <2>2 DEF m
<1>8. QED
  BY <1>6, <1>7

\* A row stands out by its score, for a reason of which each counts once.
LEMMA ScoreIs ==
  ASSUME NEW row, NEW mean
  PROVE  /\ Score(row, mean) \in Nat
         /\ Score(row, mean) > 0 => Jumps(row) \/ Halting(row) \/ Telling(row) \/ Offbeat(row, mean)
<1> DEFINE I == {k \in 1..4 : \/ k = 1 /\ Jumps(row)
                              \/ k = 2 /\ Halting(row)
                              \/ k = 3 /\ Telling(row)
                              \/ k = 4 /\ Offbeat(row, mean)}
<1>1. Score(row, mean) = Cardinality(I)
  BY DEF Score
<1>2. IsFiniteSet(1..4) /\ I \in SUBSET (1..4)
  <2>1. \A k \in I : k \in 1..4
    OBVIOUS
  <2> HIDE DEF I
  <2>2. I \in SUBSET (1..4)
    BY <2>1
  <2>3. 1 \in Int /\ 4 \in Int
    OBVIOUS
  <2>4. QED
    BY <2>2, <2>3, FS_Interval
<1>3. ~ (Jumps(row) \/ Halting(row) \/ Telling(row) \/ Offbeat(row, mean)) => I = {}
  OBVIOUS
<1> HIDE DEF I
<1>4. IsFiniteSet(I)
  BY <1>2, FS_Subset
<1>5. Cardinality(I) \in Nat /\ (I = {} => Cardinality(I) = 0)
  BY <1>4, FS_CardinalityType, FS_EmptySet
<1>6. QED
  BY <1>1, <1>3, <1>5

\* Without a reason only an intense neutral state stands out.
LEMMA ReasonsAre ==
  ASSUME NEW row, NEW mean, Score(row, mean) > 0, Reasons(row, mean) = {}
  PROVE  row.nv.state = "neutral"
<1>1. Jumps(row) \/ Halting(row) \/ Telling(row) \/ Offbeat(row, mean)
  BY ScoreIs
<1>2. ~ Jumps(row) /\ ~ Halting(row) /\ ~ Offbeat(row, mean) /\ ~ (row.nv # None /\ row.nv.state # "neutral")
  BY DEF Reasons
<1>3. row.nv # None
  BY <1>1, <1>2 DEF Telling
<1>4. QED
  BY <1>2, <1>3

\* The places with the greatest scores come first, equal ones as they were.
ByScoreIn(n, score, by) ==
  /\ by \in Seq(1..n) /\ Len(by) = n
  /\ \A i \in 1..n : \E k \in 1..n : by[k] = i
  /\ \A k, l \in 1..n : k < l =>
       score[by[l]] < score[by[k]] \/ (score[by[l]] = score[by[k]] /\ by[k] < by[l])

LEMMA ByScoreIs ==
  ASSUME NEW S, NEW rows \in Seq(S)
  PROVE  ByScoreIn(Len(rows), [i \in 1..Len(rows) |-> Score(rows[i], ArticMean(rows))], ByScore(rows))
<1> DEFINE n == Len(rows)
           score == [i \in 1..n |-> Score(rows[i], ArticMean(rows))]
           keys == [i \in 1..n |-> -Score(rows[i], ArticMean(rows))]
           all == [i \in 1..n |-> i]
           by == SortedBy(all, keys)
<1>1. ByScore(rows) = by
  BY DEF ByScore
<1>2. n \in Nat
  BY LenProperties
<1>3. \A i \in 1..n : score[i] \in Nat /\ keys[i] = -score[i]
  BY ScoreIs
<1> HIDE DEF n, keys, score
<1>4. all \in [1..n -> 1..n] /\ \A i \in 1..n : all[i] = i
  OBVIOUS
<1> HIDE DEF all
<1>5. all \in Seq(1..n) /\ Len(all) = n
  BY <1>2, <1>4, SeqDef, LenProperties
<1>6. \A i \in 1..Len(all) : keys[i] \in Int
  BY <1>3, <1>5
<1>7. by \in Seq(1..n) /\ \E p : InOrder(all, keys, by, p)
  BY <1>5, <1>6, SortedIs
<1> HIDE DEF by
<1>8. PICK p : InOrder(all, keys, by, p)
  BY <1>7
<1>9. /\ Len(by) = n
      /\ \A k \in 1..n : p[k] \in 1..n /\ by[k] = all[p[k]]
      /\ \A i \in 1..n : \E k \in 1..n : p[k] = i
      /\ \A k, l \in 1..n : k < l => keys[p[k]] < keys[p[l]] \/ (keys[p[k]] = keys[p[l]] /\ p[k] < p[l])
  BY <1>5, <1>8 DEF InOrder
<1>10. \A k \in 1..n : by[k] = p[k]
  BY <1>4, <1>9
<1>11. \A i \in 1..n : \E k \in 1..n : by[k] = i
  <2>1. TAKE i \in 1..n
  <2>2. PICK k \in 1..n : p[k] = i
    BY <1>9
  <2>3. by[k] = i
    BY <1>10, <2>2
  <2>4. QED
    BY <2>3
<1>12. \A k, l \in 1..n : k < l =>
         score[by[l]] < score[by[k]] \/ (score[by[l]] = score[by[k]] /\ by[k] < by[l])
  <2>1. TAKE k \in 1..n, l \in 1..n
  <2>2. HAVE k < l
  <2>3. /\ score[by[k]] \in Nat /\ keys[p[k]] = -score[by[k]]
        /\ score[by[l]] \in Nat /\ keys[p[l]] = -score[by[l]]
    BY <1>3, <1>9, <1>10
  <2>4. keys[p[k]] < keys[p[l]] \/ (keys[p[k]] = keys[p[l]] /\ by[k] < by[l])
    BY <1>9, <1>10, <2>2
  <2>5. QED
    BY <2>3, <2>4
<1>13. ByScoreIn(n, score, by)
  BY <1>7, <1>9, <1>11, <1>12 DEF ByScoreIn
<1>14. QED
  BY <1>1, <1>13 DEF n, score

\* The members that score among the first k places are the highlights: the
\* first few of ByScore, as far as there are enough.
TopOf(n, score, hi) ==
  /\ hi \in Seq(1..n) /\ Len(hi) <= MaxHighlights
  /\ \A k \in 1..Len(hi) : score[hi[k]] > 0
  /\ \A a \in 1..Len(hi), j \in 1..n : (\A k \in 1..Len(hi) : hi[k] # j) =>
       score[j] < score[hi[a]] \/ (score[j] = score[hi[a]] /\ hi[a] < j)
  /\ Len(hi) < MaxHighlights => \A j \in 1..n : (\A k \in 1..Len(hi) : hi[k] # j) => score[j] = 0

LEMMA TopFound ==
  ASSUME NEW n \in Nat, NEW score, \A i \in 1..n : score[i] \in Nat,
         NEW by, ByScoreIn(n, score, by)
  PROVE  LET first == SubSeq(by, 1, IF n < MaxHighlights THEN n ELSE MaxHighlights) IN
         TopOf(n, score, Chosen(first, {k \in 1..Len(first) : score[first[k]] > 0}))
<1> DEFINE m == IF n < MaxHighlights THEN n ELSE MaxHighlights
           first == SubSeq(by, 1, m)
           I == {k \in 1..Len(first) : score[first[k]] > 0}
           hi == Chosen(first, I)
<1>1. m \in Nat /\ m <= n /\ m <= MaxHighlights /\ (m = n \/ m = MaxHighlights)
  BY HandoffAssumption
<1>2. /\ by \in Seq(1..n) /\ Len(by) = n
      /\ \A i \in 1..n : \E k \in 1..n : by[k] = i
      /\ \A k, l \in 1..n : k < l =>
           score[by[l]] < score[by[k]] \/ (score[by[l]] = score[by[k]] /\ by[k] < by[l])
  BY DEF ByScoreIn
<1> HIDE DEF m
<1>3. first \in Seq(1..n) /\ Len(first) = m /\ \A k \in 1..m : first[k] = by[k] /\ k \in 1..n /\ by[k] \in 1..n
  <2>1. 1 \in 1..(Len(by) + 1) /\ m \in 0..Len(by)
    BY <1>1, <1>2
  <2>2. \A k \in 1..n : by[k] \in 1..n
    BY <1>2, ElementOfSeq
  <2>3. first = [k \in 1..m |-> by[k]]
    BY <1>1, <1>2
  <2>4. \A k \in 1..m : k \in 1..n
    BY <1>1
  <2>5. first \in [1..m -> 1..n]
    BY <2>2, <2>3, <2>4
  <2> HIDE DEF first
  <2>6. first \in Seq(1..n) /\ Len(first) = m
    BY <1>1, <2>5, SeqDef, LenProperties
  <2>7. QED
    BY <2>2, <2>3, <2>4, <2>6
<1>4. I \in SUBSET (1..m) /\ \A k \in 1..m : k \in I <=> score[by[k]] > 0
  <2>1. \A k \in I : k \in 1..m
    BY <1>3
  <2>2. I \in SUBSET (1..m)
    BY <2>1, Zenon
  <2>3. \A k \in 1..m : k \in I <=> score[by[k]] > 0
    BY <1>3
  <2>4. QED
    BY <2>2, <2>3
<1> HIDE DEF first, I
<1>5. hi \in Seq(1..n) /\ Len(hi) \in Nat /\ Len(hi) = Cardinality(I) /\ IsFiniteSet(I)
  BY <1>3, <1>4, ChosenPicked, ChosenCount, LenProperties
<1>6. PICK e : PickedBy(first, I, hi, e) /\ Complete(I, Len(first), hi, e)
  BY <1>3, ChosenPicked
<1>7. /\ \A k \in 1..Len(hi) : e[k] \in 1..m /\ e[k] \in I /\ hi[k] = by[e[k]]
      /\ \A i \in I : \E k \in 1..Len(hi) : e[k] = i
  <2>1. \A k \in 1..Len(hi) : e[k] \in 1..m /\ e[k] \in I /\ hi[k] = first[e[k]]
    BY <1>3, <1>6 DEF PickedBy
  <2>2. \A i \in 1..m : i \in I => \E k \in 1..Len(hi) : e[k] = i
    BY <1>3, <1>6 DEF Complete
  <2>3. \A i \in I : i \in 1..m
    BY <1>4
  <2>4. QED
    BY <1>3, <2>1, <2>2, <2>3
<1> HIDE DEF hi
<1>8. IsFiniteSet(1..m) /\ Cardinality(1..m) = m
  <2>1. 1 \in Int /\ m \in Int
    BY <1>1
  <2>2. QED
    BY <1>1, <2>1, FS_Interval
<1>9. Cardinality(I) <= m /\ (Cardinality(I) = m => I = 1..m)
  BY <1>4, <1>8, FS_Subset
<1>10. \A k \in 1..Len(hi) : score[hi[k]] > 0
  BY <1>4, <1>7
\* Which places are left over.
<1>11. ASSUME NEW j \in 1..n, \A k \in 1..Len(hi) : hi[k] # j
       PROVE  \E b \in 1..n : by[b] = j /\ (b \in 1..m => score[j] = 0)
  <2>1. PICK b \in 1..n : by[b] = j
    BY <1>2
  <2>2. ASSUME b \in 1..m
        PROVE  score[j] = 0
    <3>1. b \notin I
      BY <1>7, <1>11, <2>1
    <3>2. ~ (score[j] > 0) /\ score[j] \in Nat
      BY <1>4, <2>1, <2>2, <3>1
    <3>3. QED
      BY <3>2
  <2>3. QED
    BY <2>1, <2>2
<1>12. ASSUME NEW a \in 1..Len(hi), NEW j \in 1..n, \A k \in 1..Len(hi) : hi[k] # j
       PROVE  score[j] < score[hi[a]] \/ (score[j] = score[hi[a]] /\ hi[a] < j)
  <2>1. PICK b \in 1..n : by[b] = j /\ (b \in 1..m => score[j] = 0)
    BY <1>11, <1>12
  <2>2. e[a] \in 1..m /\ hi[a] = by[e[a]] /\ score[hi[a]] > 0
    BY <1>7, <1>10
  <2>3. CASE b \in 1..m
    BY <2>1, <2>2, <2>3
  <2>4. CASE b \notin 1..m
    <3>1. e[a] \in 1..n /\ e[a] < b
      BY <1>1, <2>1, <2>2, <2>4
    <3>2. score[by[b]] < score[by[e[a]]] \/ (score[by[b]] = score[by[e[a]]] /\ by[e[a]] < by[b])
      BY <1>2, <2>1, <3>1
    <3>3. QED
      BY <2>1, <2>2, <3>2
  <2>5. QED
    BY <2>3, <2>4
<1>13. ASSUME Len(hi) < MaxHighlights, NEW j \in 1..n, \A k \in 1..Len(hi) : hi[k] # j
       PROVE  score[j] = 0
  <2>1. PICK b \in 1..n : by[b] = j /\ (b \in 1..m => score[j] = 0)
    BY <1>11, <1>13
  <2>2. CASE b \in 1..m
    BY <2>1, <2>2
  <2>3. CASE b \notin 1..m
    <3>1. m < b /\ m = MaxHighlights
      BY <1>1, <2>1, <2>3
    <3>2. I # 1..m
      BY <1>5, <1>8, <1>13, <3>1
    <3>3. PICK c \in 1..m : c \notin I
      BY <1>4, <3>2
    <3>4. by[c] \in 1..n /\ c \in 1..n /\ c < b
      BY <1>3, <3>1, <3>3
    <3>5. ~ (score[by[c]] > 0) /\ score[by[c]] \in Nat
      BY <1>4, <3>3, <3>4
    <3>6. score[j] \in Nat /\ (score[j] < score[by[c]] \/ score[j] = score[by[c]])
      BY <1>2, <2>1, <3>4
    <3>7. QED
      BY <3>5, <3>6
  <2>4. QED
    BY <2>2, <2>3
<1>14. Len(hi) <= MaxHighlights
  BY <1>1, <1>5, <1>9, HandoffAssumption
<1>15. TopOf(n, score, hi)
  BY <1>5, <1>10, <1>12, <1>13, <1>14 DEF TopOf
<1>16. QED
  BY <1>15 DEF hi, I, first, m

ScoresOf(rows) == [i \in 1..Len(rows) |-> Score(rows[i], ArticMean(rows))]

LEMMA HighlightsAre ==
  ASSUME NEW S, NEW rows \in Seq(S)
  PROVE  TopOf(Len(rows), ScoresOf(rows), Highlights(rows))
<1> DEFINE n == Len(rows)
           score == ScoresOf(rows)
           by == ByScore(rows)
           first == SubSeq(by, 1, IF n < MaxHighlights THEN n ELSE MaxHighlights)
<1>1. ByScoreIn(n, score, by)
  BY ByScoreIs DEF ScoresOf
<1>2. n \in Nat /\ \A i \in 1..n : score[i] \in Nat /\ score[i] = Score(rows[i], ArticMean(rows))
  BY LenProperties, ScoreIs DEF ScoresOf
<1>3. \A k \in 1..Len(first) : first[k] \in 1..n
  <2>1. by \in Seq(1..n) /\ Len(by) = n
    BY <1>1 DEF ByScoreIn
  <2> HIDE DEF by
  <2>2. \A k \in 1..n : by[k] \in 1..n
    BY <2>1, ElementOfSeq
  <2> DEFINE m == IF n < MaxHighlights THEN n ELSE MaxHighlights
  <2>3. m \in Nat /\ m <= n
    BY <1>2, HandoffAssumption
  <2> HIDE DEF m
  <2>4. Len(SubSeq(by, 1, m)) = m /\ \A k \in 1..m : SubSeq(by, 1, m)[k] = by[k]
    BY <2>1, <2>3, SubSeqProperties
  <2>5. \A k \in 1..m : k \in 1..n
    BY <1>2, <2>3
  <2>6. QED
    BY <2>2, <2>4, <2>5 DEF m
<1>4. Highlights(rows) = Chosen(first, {k \in 1..Len(first) : Score(rows[first[k]], ArticMean(rows)) > 0})
  BY DEF Highlights
<1> HIDE DEF score, by, first
<1>5. {k \in 1..Len(first) : Score(rows[first[k]], ArticMean(rows)) > 0} = {k \in 1..Len(first) : score[first[k]] > 0}
  BY <1>2, <1>3
<1>6. TopOf(n, score, Chosen(first, {k \in 1..Len(first) : score[first[k]] > 0}))
  <2>1. n \in Nat /\ \A i \in 1..n : score[i] \in Nat
    BY <1>2
  <2>2. QED
    BY <1>1, <2>1, TopFound DEF first
<1>7. QED
  BY <1>4, <1>5, <1>6 DEF score

\* What stands out of a turn's sentences does, and for a reason.
LEMMA StandingOut ==
  ASSUME NEW S, NEW h, h.sentences \in Seq(S)
  PROVE  Standing(h, Highlights(h.sentences),
                  [i \in 1..Len(h.sentences) |-> Score(h.sentences[i], ArticMean(h.sentences))])
<1> DEFINE rows == h.sentences
           n == Len(rows)
           score == ScoresOf(rows)
           hi == Highlights(rows)
           chosen == {hi[k] : k \in 1..Len(hi)}
<1>1. TopOf(n, score, hi)
  BY HighlightsAre
<1>2. Len(score) = n /\ n \in Nat /\ \A i \in 1..n : score[i] = Score(rows[i], ArticMean(rows))
  BY LenProperties DEF ScoresOf
<1>3. score = [i \in 1..n |-> Score(rows[i], ArticMean(rows))]
  BY DEF ScoresOf
<1> HIDE DEF score, hi, n
<1>4. /\ \A k \in 1..Len(hi) : hi[k] \in 1..n
      /\ Len(hi) <= MaxHighlights
      /\ \A k \in 1..Len(hi) : score[hi[k]] > 0
      /\ \A a \in 1..Len(hi), j \in 1..n : (\A k \in 1..Len(hi) : hi[k] # j) =>
           score[j] < score[hi[a]] \/ (score[j] = score[hi[a]] /\ hi[a] < j)
      /\ Len(hi) < MaxHighlights => \A j \in 1..n : (\A k \in 1..Len(hi) : hi[k] # j) => score[j] = 0
  BY <1>1, ElementOfSeq DEF TopOf
<1>5. \A i \in chosen : \E a \in 1..Len(hi) : hi[a] = i
  OBVIOUS
<1>6. \A j \in 1..n : j \notin chosen => \A k \in 1..Len(hi) : hi[k] # j
  OBVIOUS
<1> HIDE DEF chosen
<1>7. \A i \in chosen : score[i] > 0
  BY <1>4, <1>5
<1>8. \A i \in chosen, j \in 1..Len(score) \ chosen : score[j] < score[i] \/ (score[j] = score[i] /\ i < j)
  <2>1. TAKE i \in chosen, j \in 1..Len(score) \ chosen
  <2>2. PICK a \in 1..Len(hi) : hi[a] = i
    BY <1>5
  <2>3. j \in 1..n /\ \A k \in 1..Len(hi) : hi[k] # j
    BY <1>2, <1>6
  <2>4. score[j] < score[hi[a]] \/ (score[j] = score[hi[a]] /\ hi[a] < j)
    BY <1>4, <2>3, Zenon
  <2>5. QED
    BY <2>2, <2>4
<1>9. Len(hi) < MaxHighlights => \A j \in 1..Len(score) \ chosen : score[j] = 0
  BY <1>2, <1>4, <1>6
<1>10. \A i \in chosen : Reasons(rows[i], ArticMean(rows)) = {} => rows[i].nv.state = "neutral"
  <2>1. TAKE i \in chosen
  <2>2. HAVE Reasons(rows[i], ArticMean(rows)) = {}
  <2>3. i \in 1..n
    BY <1>4, <1>5
  <2>4. Score(rows[i], ArticMean(rows)) > 0
    BY <1>2, <1>7, <2>3
  <2>5. QED
    BY <2>2, <2>4, ReasonsAre
<1>11. Standing(h, hi, score)
  BY <1>4, <1>7, <1>8, <1>9, <1>10 DEF Standing, chosen
<1>12. QED
  BY <1>3, <1>11 DEF hi, n

\* The places of the records of a type.
PlacesOf(records, type) == {i \in 1..Len(records) : records[i].type = type}

LEMMA OfTypeIs ==
  ASSUME NEW R, NEW records \in Seq(R), NEW type
  PROVE  /\ OfType(records, type) \in Seq({r \in R : r.type = type})
         /\ \E e : /\ PickedBy(records, PlacesOf(records, type), OfType(records, type), e)
                   /\ Complete(PlacesOf(records, type), Len(records), OfType(records, type), e)
         /\ IsFiniteSet(PlacesOf(records, type))
         /\ Len(OfType(records, type)) = Cardinality(PlacesOf(records, type))
         /\ PlacesOf(records, type) # {} => /\ Last(OfType(records, type)) = records[Max(PlacesOf(records, type))]
                                            /\ Max(PlacesOf(records, type)) \in PlacesOf(records, type)
<1> DEFINE I == PlacesOf(records, type)
           t == OfType(records, type)
           Q == {r \in R : r.type = type}
<1>1. t = Chosen(records, I)
  BY Zenon DEF OfType, PlacesOf
<1>2. I \in SUBSET (1..Len(records)) /\ \A i \in I : records[i].type = type
  <2>1. \A i \in I : i \in 1..Len(records) /\ records[i].type = type
    BY DEF PlacesOf
  <2> HIDE DEF I
  <2>2. QED
    BY <2>1
<1> HIDE DEF I, t
<1>3. PICK e : PickedBy(records, I, t, e) /\ Complete(I, Len(records), t, e)
  BY <1>1, ChosenPicked
<1>4. t \in Seq(R) /\ Len(t) \in Nat
  BY <1>1, ChosenPicked, LenProperties
<1>5. \A k \in 1..Len(t) : t[k] \in Q
  <2>1. TAKE k \in 1..Len(t)
  <2>2. e[k] \in I /\ t[k] = records[e[k]]
    BY <1>3 DEF PickedBy
  <2>3. t[k] \in R
    BY <1>4, ElementOfSeq
  <2>4. QED
    BY <1>2, <2>2, <2>3
<1> HIDE DEF Q
<1>6. t \in Seq(Q)
  <2>1. t \in [1..Len(t) -> R]
    BY <1>4, LenProperties
  <2>2. t \in [1..Len(t) -> Q]
    BY <1>5, <2>1
  <2>3. QED
    BY <1>4, <2>2, SeqDef
<1>7. IsFiniteSet(I) /\ Len(t) = Cardinality(I) /\ (I # {} => Max(I) \in I /\ Last(t) = records[Max(I)])
  BY <1>1, <1>2, ChosenCount
<1>8. QED
  BY <1>3, <1>6, <1>7 DEF I, t, Q

\* The rows of a turn: those of its sentences, by their starts.
RowsBy(rows, sents, p) ==
  /\ Len(rows) = Len(sents)
  /\ \A k \in 1..Len(sents) : p[k] \in 1..Len(sents) /\ rows[k] = SentenceRow(sents[p[k]])
  /\ \A i \in 1..Len(sents) : \E k \in 1..Len(sents) : p[k] = i
  /\ \A k, l \in 1..Len(sents) : k < l => p[k] # p[l] /\ rows[k].start_s <= rows[l].start_s

RowsOf(sents) == SortedBy([i \in 1..Len(sents) |-> SentenceRow(sents[i])], Column(sents, "start_s"))

LEMMA RowsSorted ==
  ASSUME NEW Q, \A r \in Q : r.start_s \in Int, NEW sents \in Seq(Q)
  PROVE  RowsOf(sents) \in Seq({SentenceRow(r) : r \in Q}) /\ \E p : RowsBy(RowsOf(sents), sents, p)
<1> DEFINE n == Len(sents)
           S == {SentenceRow(r) : r \in Q}
           rs == [i \in 1..n |-> SentenceRow(sents[i])]
           keys == Column(sents, "start_s")
           rows == RowsOf(sents)
<1>1. n \in Nat /\ \A i \in 1..n : sents[i] \in Q
  BY LenProperties, ElementOfSeq
<1>2. rows = SortedBy(rs, keys)
  BY Zenon DEF RowsOf
<1>3. \A i \in 1..n : rs[i] = SentenceRow(sents[i])
  OBVIOUS
<1>4. rs \in [1..n -> S]
  BY <1>1
<1>5. \A i \in 1..n : keys[i] = sents[i].start_s /\ keys[i] \in Int
  BY <1>1 DEF Column
<1>6. \A i \in 1..n : SentenceRow(sents[i]).start_s = keys[i]
  BY <1>5 DEF SentenceRow
<1> HIDE DEF n, S, rs, keys, rows
<1>7. rs \in Seq(S) /\ Len(rs) = n
  BY <1>1, <1>4, SeqDef, LenProperties
<1>8. rows \in Seq(S) /\ \E p : InOrder(rs, keys, rows, p)
  <2>1. \A i \in 1..Len(rs) : keys[i] \in Int
    BY <1>5, <1>7
  <2>2. QED
    BY <1>2, <1>7, <2>1, SortedIs
<1>9. PICK p : InOrder(rs, keys, rows, p)
  BY <1>8
<1>10. /\ Len(rows) = n
       /\ \A k \in 1..n : p[k] \in 1..n /\ rows[k] = rs[p[k]]
       /\ \A i \in 1..n : \E k \in 1..n : p[k] = i
       /\ \A k, l \in 1..n : k < l => keys[p[k]] < keys[p[l]] \/ (keys[p[k]] = keys[p[l]] /\ p[k] < p[l])
  BY <1>7, <1>9 DEF InOrder
<1>11. \A k \in 1..n : p[k] \in 1..n /\ rows[k] = SentenceRow(sents[p[k]]) /\ rows[k].start_s = keys[p[k]]
  <2>1. TAKE k \in 1..n
  <2>2. p[k] \in 1..n /\ rows[k] = rs[p[k]]
    BY <1>10
  <2>3. rows[k] = SentenceRow(sents[p[k]])
    BY <1>3, <2>2
  <2>4. SentenceRow(sents[p[k]]).start_s = keys[p[k]]
    BY <1>6, <2>2
  <2>5. QED
    BY <2>2, <2>3, <2>4
<1>12. \A k, l \in 1..n : k < l => p[k] # p[l] /\ rows[k].start_s <= rows[l].start_s
  <2>1. TAKE k \in 1..n, l \in 1..n
  <2>2. HAVE k < l
  <2>3. keys[p[k]] \in Int /\ keys[p[l]] \in Int /\ p[k] \in Int /\ p[l] \in Int
    BY <1>1, <1>5, <1>11
  <2>4. keys[p[k]] < keys[p[l]] \/ (keys[p[k]] = keys[p[l]] /\ p[k] < p[l])
    BY <1>10, <2>2
  <2>5. p[k] # p[l] /\ keys[p[k]] <= keys[p[l]]
    BY <2>3, <2>4
  <2>6. QED
    BY <1>11, <2>5
<1>13. RowsBy(rows, sents, p)
  BY <1>10, <1>11, <1>12 DEF RowsBy, n
<1>14. QED
  BY <1>8, <1>13 DEF S, rows

\* As many rows have a rate as sentences have measures of speech.
LEMMA RowsMeasured ==
  ASSUME NEW R, NEW records \in Seq(R),
         \A r \in R : r.type = "sentence" => r.start_s \in Int /\ Measured(r.speech)
  PROVE  LET rows == RowsOf(OfType(records, "sentence")) IN
         Cardinality({k \in 1..Len(rows) : rows[k].artic # None})
           = Cardinality({i \in PlacesOf(records, "sentence") : records[i].speech # None})
<1> DEFINE sents == OfType(records, "sentence")
           Q == {r \in R : r.type = "sentence"}
           I == PlacesOf(records, "sentence")
           rows == RowsOf(sents)
           n == Len(sents)
           A == {k \in 1..Len(rows) : rows[k].artic # None}
           B == {i \in I : records[i].speech # None}
<1>1. sents \in Seq(Q) /\ IsFiniteSet(I)
  BY OfTypeIs
<1>2. PICK e : PickedBy(records, I, sents, e) /\ Complete(I, Len(records), sents, e)
  BY OfTypeIs
<1>3. \A r \in Q : r.start_s \in Int /\ Measured(r.speech)
  OBVIOUS
<1>4. \A i \in I : i \in 1..Len(records)
  BY DEF PlacesOf
<1> HIDE DEF sents, Q, I
<1>5. PICK p : RowsBy(rows, sents, p)
  BY <1>1, <1>3, RowsSorted
<1> HIDE DEF rows
<1>6. n \in Nat /\ \A k \in 1..n : sents[k] \in Q
  BY <1>1, LenProperties, ElementOfSeq
<1>7. /\ Len(rows) = n
      /\ \A k \in 1..n : p[k] \in 1..n /\ rows[k] = SentenceRow(sents[p[k]])
      /\ \A i \in 1..n : \E k \in 1..n : p[k] = i
      /\ \A k, l \in 1..n : k < l => p[k] # p[l]
  BY <1>5 DEF RowsBy
<1>8. /\ \A j \in 1..n : e[j] \in I /\ sents[j] = records[e[j]] /\ e[j] \in 1..Len(records)
      /\ \A j, k \in 1..n : j < k => e[j] < e[k]
      /\ \A i \in I : \E j \in 1..n : e[j] = i
  BY <1>2, <1>4 DEF PickedBy, Complete
<1>9. \A r \in Q : SentenceRow(r).artic # None <=> r.speech # None
  <2>1. TAKE r \in Q
  <2>2. SentenceRow(r).artic = IF r.speech = None THEN None ELSE r.speech.rate.articulation_rate
    BY DEF SentenceRow
  <2>3. r.speech # None => r.speech.rate.articulation_rate # None
    BY <1>3 DEF Measured
  <2>4. QED
    BY <2>2, <2>3
<1> HIDE DEF n
<1>10. \A k \in 1..n : k \in A <=> e[p[k]] \in B
  <2>1. TAKE k \in 1..n
  <2>2. rows[k] = SentenceRow(sents[p[k]]) /\ sents[p[k]] \in Q /\ sents[p[k]] = records[e[p[k]]] /\ e[p[k]] \in I
    BY <1>6, <1>7, <1>8
  <2>3. k \in A <=> rows[k].artic # None
    BY <1>7
  <2>4. e[p[k]] \in B <=> records[e[p[k]]].speech # None
    BY <2>2
  <2>5. rows[k].artic # None <=> records[e[p[k]]].speech # None
    BY <1>9, <2>2
  <2>6. QED
    BY <2>3, <2>4, <2>5, Zenon
<1>11. (\A k \in A : k \in 1..n) /\ (\A i \in B : i \in I)
  BY <1>7
<1>12. IsFiniteSet(B)
  <2>1. B \in SUBSET I
    BY <1>11, Zenon
  <2>2. QED
    BY <1>1, <2>1, FS_Subset
<1> HIDE DEF A, B
<1> DEFINE f == [k \in A |-> e[p[k]]]
<1>13. f \in Bijection(A, B)
  <2>1. f \in [A -> B]
    BY <1>10, <1>11
  <2>2. \A j, k \in A : f[j] = f[k] => j = k
    <3>1. TAKE j \in A, k \in A
    <3>2. HAVE f[j] = f[k]
    <3>3. j \in 1..n /\ k \in 1..n /\ e[p[j]] = e[p[k]] /\ p[j] \in 1..n /\ p[k] \in 1..n
      BY <1>7, <1>11, <3>2
    <3>4. e[p[j]] \in 1..Len(records) /\ Len(records) \in Nat
      BY <1>8, <3>3, LenProperties
    <3>5. ~ (p[j] < p[k]) /\ ~ (p[k] < p[j])
      BY <1>8, <3>3, <3>4
    <3>6. p[j] = p[k]
      BY <1>6, <3>3, <3>5
    <3>7. ~ (j < k) /\ ~ (k < j)
      BY <1>7, <3>3, <3>6
    <3>8. QED
      BY <1>6, <3>3, <3>7
  <2>3. \A i \in B : \E k \in A : f[k] = i
    <3>1. TAKE i \in B
    <3>2. PICK j \in 1..n : e[j] = i
      BY <1>8, <1>11
    <3>3. PICK k \in 1..n : p[k] = j
      BY <1>7
    <3>4. k \in A /\ f[k] = i
      BY <1>10, <3>2, <3>3
    <3>5. QED
      BY <3>4
  <2> HIDE DEF f
  <2>4. QED
    BY <2>1, <2>2, <2>3, Zenon DEF Bijection, Injection, Surjection, IsInjective
<1>14. IsFiniteSet(A)
  <2>1. A \in SUBSET (1..n)
    BY <1>11, Zenon
  <2>2. IsFiniteSet(1..n)
    <3>1. 1 \in Int /\ n \in Int
      BY <1>6
    <3>2. QED
      BY <3>1, FS_Interval
  <2>3. QED
    BY <2>1, <2>2, FS_Subset
<1>15. Cardinality(A) = Cardinality(B)
  <2> HIDE DEF f
  <2>1. ExistsBijection(A, B)
    BY <1>13 DEF ExistsBijection
  <2>2. QED
    BY <1>14, <2>1, FS_Bijection
<1>16. QED
  BY <1>15 DEF A, B, rows, sents, I

\* What a list of records of one or of another type holds under two keys.
LEMMA EitherColumn ==
  ASSUME NEW Q, NEW a \in Seq(Q), NEW k, NEW P, NEW b \in Seq(P), NEW l,
         NEW V, \A r \in Q : r[k] \in V, \A r \in P : r[l] \in V
  PROVE  Or(Column(a, k), Column(b, l)) \in Seq(V)
<1>1. Column(a, k) \in Seq(V)
  <2>1. Len(a) \in Nat /\ \A i \in 1..Len(a) : a[i][k] \in V
    BY LenProperties, ElementOfSeq
  <2>2. Column(a, k) \in [1..Len(a) -> V]
    BY <2>1 DEF Column
  <2>3. QED
    BY <2>1, <2>2, SeqDef
<1>2. Column(b, l) \in Seq(V)
  <2>1. Len(b) \in Nat /\ \A i \in 1..Len(b) : b[i][l] \in V
    BY LenProperties, ElementOfSeq
  <2>2. Column(b, l) \in [1..Len(b) -> V]
    BY <2>1 DEF Column
  <2>3. QED
    BY <2>1, <2>2, SeqDef
<1>3. QED
  BY <1>1, <1>2 DEF Or

\* The hand-off of records with a turn_end.
LEMMA BuildIs ==
  ASSUME NEW records, OfType(records, "turn_end") # <<>>
  PROVE  LET h == Build(records)
             sents == OfType(records, "sentence")
             evals == OfType(records, "eval")
             rows == RowsOf(sents)
             visual == AggVisual(Or(Column(sents, "visual"), Column(evals, "objective_visual"))) IN
         /\ h # None
         /\ h = BuildRaised <=> visual # None /\ DescribeVisual(visual).raises
         /\ h # BuildRaised =>
              /\ h.t = Last(OfType(records, "turn_end")).t
              /\ Last(OfType(records, "turn_end")).transcript_full \in {<<>>, h.transcript}
              /\ h.sentences = rows
              /\ h.speech = AggVocal(Or(Column(sents, "speech"), Column(evals, "objective_vocal")))
              /\ h.visual = visual
              /\ h.coverage.speech = Cardinality({k \in 1..Len(rows) : rows[k].artic # None})
<1> DEFINE ends == OfType(records, "turn_end")
           sents == OfType(records, "sentence")
           evals == OfType(records, "eval")
           windows == OfType(records, "window")
           rows == RowsOf(sents)
           said == Or(Last(ends).transcript_full,
                      Column(SelectSeq(windows, LAMBDA w : w.transcript # ""), "transcript"))
           speech == AggVocal(Or(Column(sents, "speech"), Column(evals, "objective_vocal")))
           visual == AggVisual(Or(Column(sents, "visual"), Column(evals, "objective_visual")))
           nonverbal == AggNonverbal(Or(There(Column(sents, "nonverbal")), There(Column(windows, "nonverbal"))))
           h == [t |-> Last(ends).t, transcript |-> said, sentences |-> rows,
                 speech |-> speech, visual |-> visual, nonverbal |-> nonverbal]
           coverage == [speech |-> Cardinality({i \in 1..Len(rows) : rows[i].artic # None}),
                        visual |-> Cardinality({i \in 1..Len(rows) : rows[i].smile # None}),
                        nv |-> Cardinality({i \in 1..Len(rows) : rows[i].nv # None})]
           more == [prompt_block |-> PromptBlock(h).sections, coverage |-> coverage]
<1>1. Build(records) = IF PromptBlock(h).raises THEN BuildRaised ELSE Merged(h, more)
  BY Zenon DEF Build, RowsOf
<1>2. /\ DOMAIN h = {"t", "transcript", "sentences", "speech", "visual", "nonverbal"}
      /\ DOMAIN more = {"prompt_block", "coverage"} /\ more["coverage"] = coverage
      /\ coverage.speech = Cardinality({i \in 1..Len(rows) : rows[i].artic # None})
  OBVIOUS
<1>3. /\ h["t"] = Last(ends).t /\ h["transcript"] = said /\ h["sentences"] = rows
      /\ h["speech"] = speech /\ h["visual"] = visual
  OBVIOUS
<1>4. Last(ends).transcript_full \in {<<>>, said}
  BY DEF Or
<1> HIDE DEF h, more, coverage, said, speech, visual
<1>5. /\ \A key \in DOMAIN h : key \in DOMAIN Merged(h, more) /\ Merged(h, more)[key] = h[key]
      /\ \A key \in DOMAIN more : key \notin DOMAIN h => Merged(h, more)[key] = more[key]
  BY DEF Merged
<1>6. Merged(h, more) # None /\ Merged(h, more) # BuildRaised /\ BuildRaised # None
  <2>1. "t" \in DOMAIN Merged(h, more)
    BY <1>2, <1>5
  <2>2. DOMAIN None = {}
    BY EmptySeq, LenProperties DEF None
  <2>3. DOMAIN BuildRaised = {"raises"}
    BY DEF BuildRaised
  <2>4. QED
    BY <2>1, <2>2, <2>3
<1>7. Merged(h, more)["coverage"] = coverage
  BY <1>2, <1>5
<1>8. /\ Merged(h, more)["t"] = Last(ends).t /\ Merged(h, more)["transcript"] = said /\ Merged(h, more)["sentences"] = rows
      /\ Merged(h, more)["speech"] = speech /\ Merged(h, more)["visual"] = visual
  BY <1>2, <1>3, <1>5
<1>9. PromptBlock(h).raises <=> visual # None /\ DescribeVisual(visual).raises
  <2>1. PromptBlock(h).raises <=> h.visual # None /\ DescribeVisual(h.visual).raises
    BY DEF PromptBlock
  <2>2. h.visual = visual
    BY <1>3
  <2>3. QED
    BY <2>1, <2>2, Zenon
<1>10. QED
  BY <1>1, <1>2, <1>4, <1>6, <1>7, <1>8, <1>9 DEF speech, visual

\* What Chosen keeps of a list, and so what the measures of a turn are.
LEMMA ThereMembers ==
  ASSUME NEW V, NEW ms \in Seq(V)
  PROVE  {There(ms)[i] : i \in 1..Len(There(ms))} = {ms[i] : i \in 1..Len(ms)} \ {None}
<1> DEFINE I == {i \in 1..Len(ms) : ms[i] # None}
           t == There(ms)
<1>1. t = Chosen(ms, I)
  BY DEF There
<1>2. \A i \in 1..Len(ms) : i \in I <=> ms[i] # None
  OBVIOUS
<1> HIDE DEF I, t
<1>3. PICK e : PickedBy(ms, I, t, e) /\ Complete(I, Len(ms), t, e)
  BY <1>1, ChosenPicked
<1>4. \A k \in 1..Len(t) : e[k] \in 1..Len(ms) /\ t[k] = ms[e[k]] /\ ms[e[k]] # None
  BY <1>2, <1>3 DEF PickedBy
<1>5. \A i \in 1..Len(ms) : ms[i] # None => \E k \in 1..Len(t) : t[k] = ms[i]
  <2>1. TAKE i \in 1..Len(ms)
  <2>2. HAVE ms[i] # None
  <2>3. PICK k \in 1..Len(t) : e[k] = i
    BY <1>2, <1>3, <2>2 DEF Complete
  <2>4. QED
    BY <1>4, <2>3
<1>6. QED
  BY <1>4, <1>5 DEF t

ValuesOf(t, key) == {t[k][key] : k \in 1..Len(t)}
ValuesAt(records, places, key) == {records[i][key] : i \in places}

LEMMA OfTypeMembers ==
  ASSUME NEW R, NEW records \in Seq(R), NEW type, NEW key
  PROVE  /\ ValuesOf(OfType(records, type), key) = ValuesAt(records, PlacesOf(records, type), key)
         /\ OfType(records, type) = <<>> <=> PlacesOf(records, type) = {}
<1> DEFINE I == PlacesOf(records, type)
           t == OfType(records, type)
<1>1. t \in Seq({r \in R : r.type = type})
  BY OfTypeIs
<1>2. PICK e : PickedBy(records, I, t, e) /\ Complete(I, Len(records), t, e)
  BY OfTypeIs
<1>3. \A i \in I : i \in 1..Len(records)
  BY DEF PlacesOf
<1> HIDE DEF I, t
<1>4. Len(t) \in Nat /\ (t = <<>> <=> Len(t) = 0)
  BY <1>1, EmptySeq, LenProperties
<1>5. /\ \A k \in 1..Len(t) : e[k] \in I /\ t[k] = records[e[k]]
      /\ \A i \in I : \E k \in 1..Len(t) : e[k] = i
  BY <1>2, <1>3 DEF PickedBy, Complete
<1>6. t = <<>> <=> I = {}
  BY <1>4, <1>5
<1>7. ValuesOf(t, key) = ValuesAt(records, I, key)
  BY <1>5 DEF ValuesOf, ValuesAt
<1>8. QED
  BY <1>6, <1>7 DEF I, t

LEMMA WatchedIs ==
  ASSUME NEW R, NEW records \in Seq(R)
  PROVE  LET ms == Or(Column(OfType(records, "sentence"), "visual"), Column(OfType(records, "eval"), "objective_visual")) IN
         {ms[i] : i \in 1..Len(ms)} = Watched(records)
<1> DEFINE sents == OfType(records, "sentence")
           evals == OfType(records, "eval")
           a == Column(sents, "visual")
           b == Column(evals, "objective_visual")
           ms == Or(a, b)
           S == PlacesOf(records, "sentence")
           E == PlacesOf(records, "eval")
<1>1. /\ ValuesOf(sents, "visual") = ValuesAt(records, S, "visual")
      /\ sents = <<>> <=> S = {}
  BY OfTypeMembers, Zenon
<1>2. ValuesOf(evals, "objective_visual") = ValuesAt(records, E, "objective_visual")
  BY OfTypeMembers, Zenon
<1>3. Watched(records) = IF S # {} THEN ValuesAt(records, S, "visual") ELSE ValuesAt(records, E, "objective_visual")
  BY DEF Watched, PlacesOf, ValuesAt
<1>4. sents \in Seq(R) /\ evals \in Seq(R)
  <2>1. /\ sents \in Seq({r \in R : r.type = "sentence"}) /\ evals \in Seq({r \in R : r.type = "eval"})
    BY OfTypeIs
  <2> HIDE DEF sents, evals
  <2>2. /\ Len(sents) \in Nat /\ sents \in [1..Len(sents) -> {r \in R : r.type = "sentence"}]
        /\ Len(evals) \in Nat /\ evals \in [1..Len(evals) -> {r \in R : r.type = "eval"}]
    BY <2>1, LenProperties
  <2>3. sents \in [1..Len(sents) -> R] /\ evals \in [1..Len(evals) -> R]
    BY <2>2
  <2>4. QED
    BY <2>2, <2>3, SeqDef
<1> HIDE DEF sents, evals, S, E
<1>5. /\ Len(a) = Len(sents) /\ \A k \in 1..Len(sents) : a[k] = sents[k]["visual"]
      /\ a = <<>> <=> sents = <<>>
  <2>1. a \in [1..Len(sents) -> {sents[k]["visual"] : k \in 1..Len(sents)}] /\ Len(sents) \in Nat
    BY <1>4, LenProperties DEF Column
  <2>2. a \in Seq({sents[k]["visual"] : k \in 1..Len(sents)})
    BY <2>1, SeqDef
  <2>3. Len(a) = Len(sents)
    BY <2>1, <2>2, LenProperties
  <2>4. (a = <<>> <=> Len(a) = 0) /\ (sents = <<>> <=> Len(sents) = 0)
    BY <1>4, <2>2, EmptySeq
  <2>5. QED
    BY <2>3, <2>4 DEF Column
<1>6. Len(b) = Len(evals) /\ \A k \in 1..Len(evals) : b[k] = evals[k]["objective_visual"]
  <2>1. b \in [1..Len(evals) -> {evals[k]["objective_visual"] : k \in 1..Len(evals)}] /\ Len(evals) \in Nat
    BY <1>4, LenProperties DEF Column
  <2>2. b \in Seq({evals[k]["objective_visual"] : k \in 1..Len(evals)})
    BY <2>1, SeqDef
  <2>3. Len(b) = Len(evals)
    BY <2>1, <2>2, LenProperties
  <2>4. QED
    BY <2>3 DEF Column
<1> HIDE DEF a, b
<1>7. CASE a # <<>>
  <2>1. ms = a /\ S # {}
    BY <1>1, <1>5, <1>7 DEF Or
  <2>2. {a[i] : i \in 1..Len(a)} = ValuesOf(sents, "visual")
    BY <1>5 DEF ValuesOf
  <2>3. {a[i] : i \in 1..Len(a)} = Watched(records)
    BY <1>1, <1>3, <2>1, <2>2
  <2>4. QED
    BY <2>1, <2>3 DEF a, b, sents, evals
<1>8. CASE a = <<>>
  <2>1. ms = b /\ S = {}
    BY <1>1, <1>5, <1>8 DEF Or
  <2>2. {b[i] : i \in 1..Len(b)} = ValuesOf(evals, "objective_visual")
    BY <1>6 DEF ValuesOf
  <2>3. {b[i] : i \in 1..Len(b)} = Watched(records)
    BY <1>2, <1>3, <2>1, <2>2
  <2>4. QED
    BY <2>1, <2>3 DEF a, b, sents, evals
<1>9. QED
  BY <1>7, <1>8

\* Building raises exactly when all that was seen of a body are glimpses.
LEMMA BuildRaises ==
  ASSUME NEW V, \A m \in V : Counting(m), NEW ms \in Seq(V)
  PROVE  AggVisual(ms) # None /\ DescribeVisual(AggVisual(ms)).raises <=> Glimpsed({ms[i] : i \in 1..Len(ms)})
<1> DEFINE t == There(ms)
           T == {t[i] : i \in 1..Len(t)}
           M == {ms[i] : i \in 1..Len(ms)}
<1>1. T = M \ {None}
  BY ThereMembers
<1>2. Glimpsed(M) <=> Glimpsed(T)
  <2>1. M \ {None} = T \ {None}
    BY <1>1
  <2> HIDE DEF M, T
  <2>2. QED
    BY <2>1, Zenon DEF Glimpsed
<1>3. CASE AggVisual(ms) = None
  <2>1. t = <<>>
    <3> DEFINE both == Merged([windows |-> Len(t)], Merged(FaceLane(t), PoseLane(t)))
               hands == AggHands(t)
    <3>1. AggVisual(ms) = IF t = <<>> THEN None
                          ELSE IF \E i \in 1..Len(t) : "hand_frames" \in DOMAIN t[i] THEN Merged(both, hands) ELSE both
      BY Zenon DEF AggVisual, FaceLane, PoseLane
    <3>2. "windows" \in DOMAIN both
      BY DEF Merged
    <3>3. DOMAIN None = {}
      BY EmptySeq, LenProperties DEF None
    <3> HIDE DEF both, hands, t
    <3>4. "windows" \in DOMAIN Merged(both, hands)
      BY <3>2 DEF Merged
    <3>5. QED
      BY <1>3, <3>1, <3>2, <3>3, <3>4
  <2>2. Len(t) = 0
    BY <2>1, EmptySeq
  <2> HIDE DEF t
  <2>3. T = {}
    BY <2>2
  <2>4. ~ Glimpsed(T)
    BY <2>3 DEF Glimpsed
  <2>5. QED
    BY <1>2, <1>3, <2>4
<1>4. CASE AggVisual(ms) # None
  <2>1. DescribeVisual(AggVisual(ms)).raises <=> Glimpsed(T)
    BY <1>4, RaisesIs
  <2>2. QED
    BY <1>2, <1>4, <2>1
<1>5. QED
  BY <1>3, <1>4

LEMMA HandoffCorrect ==
  ASSUME NEW R, NEW records \in Seq(R),
         \A r \in R :
           /\ r.type = "sentence" => r.start_s \in Int /\ Measured(r.speech) /\ Counting(r.visual)
           /\ r.type = "eval" => Measured(r.objective_vocal) /\ Counting(r.objective_visual)
  PROVE  LET h == Build(records)
             answer == Payload(records)
             hi == Highlights(h.sentences)
             ends == PlacesOf(records, "turn_end")
             sents == PlacesOf(records, "sentence") IN
         /\ h = None <=> ends = {}
         /\ h = BuildRaised <=> ends # {} /\ Glimpsed(Watched(records))
         /\ answer = BuildRaised <=> h = BuildRaised
         /\ h \notin {None, BuildRaised} =>
              /\ h.t = records[Max(ends)].t
              /\ Len(h.sentences) = Cardinality(sents)
              /\ h.coverage.speech = Cardinality({i \in sents : records[i].speech # None})
              /\ \A i, j \in 1..Len(h.sentences) : i < j => h.sentences[i].start_s <= h.sentences[j].start_s
              /\ Standing(h, hi, [i \in 1..Len(h.sentences) |-> Score(h.sentences[i], ArticMean(h.sentences))])
              /\ Retold(h, Fragment(h))
              /\ answer.transcriptFull \in {<<>>, h.transcript}
<1> DEFINE h == Build(records)
           answer == Payload(records)
           built == h \notin {None, BuildRaised}
           ends == OfType(records, "turn_end")
           sents == OfType(records, "sentence")
           evals == OfType(records, "eval")
           ms == Or(Column(sents, "visual"), Column(evals, "objective_visual"))
           E == PlacesOf(records, "turn_end")
           I == PlacesOf(records, "sentence")
           Q == {r \in R : r.type = "sentence"}
           P == {r \in R : r.type = "eval"}
           rows == RowsOf(sents)
<1>1. ends \in Seq({r \in R : r.type = "turn_end"}) /\ IsFiniteSet(E) /\ Len(ends) = Cardinality(E)
      /\ (E # {} => Last(ends) = records[Max(E)])
  BY OfTypeIs
<1>2. sents \in Seq(Q) /\ Len(sents) = Cardinality(I)
  BY OfTypeIs
<1>3. evals \in Seq(P)
  BY OfTypeIs
<1>4. /\ \A r \in Q : r.start_s \in Int /\ Measured(r.speech) /\ Counting(r.visual)
      /\ \A r \in P : Measured(r.objective_vocal) /\ Counting(r.objective_visual)
  OBVIOUS
<1>5. ends = <<>> <=> E = {}
  <2> HIDE DEF ends, E
  <2>1. Len(ends) = 0 <=> E = {}
    BY <1>1, FS_EmptySet
  <2>2. Len(ends) = 0 <=> ends = <<>>
    BY <1>1, EmptySeq
  <2>3. QED
    BY <2>1, <2>2
<1>6. ends = <<>> => h = None
  BY Zenon DEF Build
<1>7. ends # <<>> =>
        /\ h # None
        /\ h = BuildRaised <=> AggVisual(ms) # None /\ DescribeVisual(AggVisual(ms)).raises
        /\ h # BuildRaised =>
             /\ h.t = Last(ends).t
             /\ Last(ends).transcript_full \in {<<>>, h.transcript}
             /\ h.sentences = rows
             /\ h.speech = AggVocal(Or(Column(sents, "speech"), Column(evals, "objective_vocal")))
             /\ h.visual = AggVisual(ms)
             /\ h.coverage.speech = Cardinality({k \in 1..Len(rows) : rows[k].artic # None})
  BY BuildIs
<1>7a. None # BuildRaised
  <2>1. DOMAIN None = {}
    BY EmptySeq, LenProperties DEF None
  <2>2. DOMAIN BuildRaised = {"raises"}
    BY DEF BuildRaised
  <2>3. QED
    BY <2>1, <2>2
<1>8. /\ answer = BuildRaised <=> h = BuildRaised
      /\ h # BuildRaised /\ ends # <<>> => answer.transcriptFull = Last(ends).transcript_full
  <2> DEFINE full == IF ends = <<>> THEN <<>> ELSE Last(ends).transcript_full
             tail == Column(SelectSeq(OfType(records, "window"), LAMBDA w : w.transcript # ""), "transcript")
             whole == [records |-> records, transcriptFull |-> full, windowTranscripts |-> tail, turnHandoff |-> h]
  <2>1. answer = IF h = BuildRaised THEN BuildRaised ELSE whole
    BY Zenon DEF Payload
  <2>2. "records" \in DOMAIN whole /\ whole.transcriptFull = full
    OBVIOUS
  <2>3. DOMAIN BuildRaised = {"raises"}
    BY DEF BuildRaised
  <2>4. ends # <<>> => full = Last(ends).transcript_full
    OBVIOUS
  <2> HIDE DEF whole, answer, h, full, ends
  <2>5. whole # BuildRaised
    BY <2>2, <2>3
  <2>6. QED
    BY <2>1, <2>2, <2>4, <2>5
<1>9. Cardinality({k \in 1..Len(rows) : rows[k].artic # None}) = Cardinality({i \in I : records[i].speech # None})
  BY RowsMeasured
<1> HIDE DEF h, answer, ends, sents, evals, E, I, Q, P, rows
<1>10. rows \in Seq({SentenceRow(r) : r \in Q}) /\ \E p : RowsBy(rows, sents, p)
  BY <1>2, <1>4, RowsSorted DEF rows
<1>11. Len(rows) = Len(sents) /\ \A k, l \in 1..Len(rows) : k < l => rows[k].start_s <= rows[l].start_s
  BY <1>10 DEF RowsBy
<1>12. built => ends # <<>>
  BY <1>6
<1> DEFINE V == {r.visual : r \in Q} \union {r.objective_visual : r \in P}
<1>12a. (\A m \in V : Counting(m)) /\ ms \in Seq(V)
  <2>1. \A m \in V : Counting(m)
    BY <1>4
  <2>2. (\A r \in Q : r["visual"] \in V) /\ \A r \in P : r["objective_visual"] \in V
    OBVIOUS
  <2> HIDE DEF V
  <2>3. ms \in Seq(V)
    BY <1>2, <1>3, <2>2, EitherColumn
  <2>4. QED
    BY <2>1, <2>3
<1> HIDE DEF V
<1>12b. h = BuildRaised <=> E # {} /\ Glimpsed(Watched(records))
  <2>1. {ms[i] : i \in 1..Len(ms)} = Watched(records)
    BY WatchedIs DEF ms, sents, evals
  <2> HIDE DEF ms
  <2>2. AggVisual(ms) # None /\ DescribeVisual(AggVisual(ms)).raises <=> Glimpsed({ms[i] : i \in 1..Len(ms)})
    BY <1>12a, BuildRaises
  <2>3. QED
    BY <1>5, <1>6, <1>7, <1>7a, <2>1, <2>2
<1>13. ASSUME built
       PROVE  Standing(h, Highlights(h.sentences),
                       [i \in 1..Len(h.sentences) |-> Score(h.sentences[i], ArticMean(h.sentences))])
  <2>1. h.sentences \in Seq({SentenceRow(r) : r \in Q})
    BY <1>7, <1>10, <1>12, <1>13
  <2>2. QED
    BY <2>1, StandingOut
<1>14. ASSUME built, h.speech # None
       PROVE  Fragment(h).vocal = DescribeVocal(h.speech) \ {"no intonation"}
  <2> DEFINE Spoken == {r.speech : r \in Q} \union {r.objective_vocal : r \in P}
             vs == Or(Column(sents, "speech"), Column(evals, "objective_vocal"))
  <2>1. \A m \in Spoken : Measured(m)
    BY <1>4
  <2>2. (\A r \in Q : r["speech"] \in Spoken) /\ \A r \in P : r["objective_vocal"] \in Spoken
    OBVIOUS
  <2> HIDE DEF Spoken
  <2>3. vs \in Seq(Spoken)
    BY <1>2, <1>3, <2>2, EitherColumn
  <2>4. h.speech = AggVocal(vs)
    BY <1>7, <1>12, <1>14
  <2> HIDE DEF vs
  <2>5. FragmentVocal(AggVocal(vs)) = DescribeVocal(AggVocal(vs)) \ {"no intonation"}
    BY <1>14, <2>1, <2>3, <2>4, VocalRetold
  <2>6. Fragment(h).vocal = FragmentVocal(h.speech)
    BY <1>14 DEF Fragment
  <2>7. QED
    BY <2>4, <2>5, <2>6
<1>15. ASSUME built, h.visual # None, h.visual.face_frames > 0
       PROVE  "hands unobservable" \in Fragment(h).visual <=> "gestures" \notin DescribeVisual(h.visual).lines
  <2>1. h.visual = AggVisual(ms)
    BY <1>7, <1>12, <1>15
  <2> HIDE DEF ms
  <2>2. "hands unobservable" \in FragmentVisual(AggVisual(ms)) <=> "gestures" \notin DescribeVisual(AggVisual(ms)).lines
    BY <1>12a, <1>15, <2>1, VisualRetold
  <2>3. Fragment(h).visual = FragmentVisual(h.visual)
    BY <1>15 DEF Fragment
  <2>4. QED
    BY <2>1, <2>2, <2>3
<1>17. built => Retold(h, Fragment(h))
  BY <1>14, <1>15 DEF Retold
<1>18. built => /\ h.t = records[Max(E)].t
                /\ Len(h.sentences) = Cardinality(I)
                /\ h.coverage.speech = Cardinality({i \in I : records[i].speech # None})
                /\ \A i, j \in 1..Len(h.sentences) : i < j => h.sentences[i].start_s <= h.sentences[j].start_s
                /\ answer.transcriptFull \in {<<>>, h.transcript}
  BY <1>1, <1>2, <1>5, <1>7, <1>8, <1>9, <1>11, <1>12
<1>19. QED
  BY <1>5, <1>6, <1>7, <1>8, <1>12b, <1>13, <1>17, <1>18 DEF h, answer, E, I

\* HandoffFaithful holds of every log of records and every number of
\* highlights: build_turn_handoff, what fragment it makes for the interviewer
\* (emit/handoff.py) and the payload it is polled in (server/service.py) say of
\* a turn what its records say.
THEOREM HandoffIsFaithful == MeasuresSpec => []HandoffFaithful
<1>1. InputType => HandoffFaithful
  <2> SUFFICES ASSUME InputType, kind = "record" PROVE HandoffFaithful
    BY DEF HandoffFaithful
  <2> DEFINE R == Items("record")
             ends == PlacesOf(input, "turn_end")
             sents == PlacesOf(input, "sentence")
             h == Build(input)
             answer == Payload(input)
             hi == Highlights(h.sentences)
             score == [i \in 1..Len(h.sentences) |-> Score(h.sentences[i], ArticMean(h.sentences))]
  <2>1. input \in Seq(R)
    BY DEF InputType
  <2>2. \A r \in R :
          /\ r.type = "sentence" => r.start_s \in Int /\ Measured(r.speech) /\ Counting(r.visual)
          /\ r.type = "eval" => Measured(r.objective_vocal) /\ Counting(r.objective_visual)
    BY ItemsAssumption
  <2> HIDE DEF R
  <2>3. /\ h = None <=> ends = {}
        /\ h = BuildRaised <=> ends # {} /\ Glimpsed(Watched(input))
        /\ answer = BuildRaised <=> h = BuildRaised
        /\ h \notin {None, BuildRaised} =>
             /\ h.t = input[Max(ends)].t
             /\ Len(h.sentences) = Cardinality(sents)
             /\ h.coverage.speech = Cardinality({i \in sents : input[i].speech # None})
             /\ \A i, j \in 1..Len(h.sentences) : i < j => h.sentences[i].start_s <= h.sentences[j].start_s
             /\ Standing(h, hi, score)
             /\ Retold(h, Fragment(h))
             /\ answer.transcriptFull \in {<<>>, h.transcript}
    BY <2>1, <2>2, HandoffCorrect
  <2>4. OfTurn(h, answer, ends, sents)
    <3> HIDE DEF h, answer, ends, sents
    <3>1. QED
      BY <2>3 DEF OfTurn
  <2>5. QED
    BY <2>4 DEF HandoffFaithful, PlacesOf
<1>2. QED
  BY <1>1, InputTyped, PTL


-----------------------------------------------------------------------------
(***************************************************************************)
(* The silences of a window.                                               *)
(***************************************************************************)

\* Those that a sounding frame up to n has ended.
Ended(silent, n) == {p \in InnerSilences(silent) : p[2] < n}

\* A frame that sounds ends the silence from a on, if there is one and it is
\* long enough; one that is silent ends none.
LEMMA EndedNext ==
  ASSUME NEW silent, Len(silent) \in Nat, NEW n \in Nat, n < Len(silent)
  PROVE  /\ silent[n + 1] => Ended(silent, n + 1) = Ended(silent, n)
         /\ ~silent[n + 1] => \A a \in 1..(n + 1) :
              (\A i \in a..n : silent[i]) /\ (a > 1 => ~silent[a - 1]) =>
                Ended(silent, n + 1) = Ended(silent, n) \union
                                         (IF a > 1 /\ n + 1 - a >= Junction THEN {<<a, n>>} ELSE {})
<1> DEFINE N == Len(silent)
           Is(p) == /\ p[1] > 1 /\ p[2] < N /\ p[2] - p[1] + 1 >= Junction
                    /\ \A i \in p[1]..p[2] : silent[i]
                    /\ ~silent[p[1] - 1] /\ ~silent[p[2] + 1]
<1>1. \A m : Ended(silent, m) = {p \in (1..N) \X (1..N) : Is(p) /\ p[2] < m}
  BY DEF Ended, InnerSilences
<1>2. \A p \in (1..N) \X (1..N) : p[2] < n + 1 <=> p[2] < n \/ p[2] = n
  OBVIOUS
<1>3. Ended(silent, n + 1) = Ended(silent, n) \union {p \in (1..N) \X (1..N) : Is(p) /\ p[2] = n}
  <2> HIDE DEF Is
  <2>1. QED
    BY <1>1, <1>2
<1>4. ASSUME silent[n + 1]
      PROVE  {p \in (1..N) \X (1..N) : Is(p) /\ p[2] = n} = {}
  BY <1>4
<1>5. ASSUME ~silent[n + 1], NEW a \in 1..(n + 1), \A i \in a..n : silent[i], a > 1 => ~silent[a - 1]
      PROVE  {p \in (1..N) \X (1..N) : Is(p) /\ p[2] = n}
               = IF a > 1 /\ n + 1 - a >= Junction THEN {<<a, n>>} ELSE {}
  <2>1. Junction \in Nat \ {0}
    BY ProsodyAssumption
  <2>2. ASSUME NEW p \in (1..N) \X (1..N), Is(p), p[2] = n
        PROVE  p = <<a, n>> /\ a > 1 /\ n + 1 - a >= Junction
    <3>1. p = <<p[1], p[2]>> /\ p[1] \in 1..N /\ p[1] > 1 /\ p[1] - 1 \in Nat
      BY <2>2
    <3>2. n - p[1] + 1 >= Junction /\ (\A i \in p[1]..n : silent[i]) /\ ~silent[p[1] - 1]
      BY <2>2
    <3>3. ~ (p[1] < a)
      <4>1. SUFFICES ASSUME p[1] < a PROVE FALSE
        OBVIOUS
      <4>2. a - 1 \in p[1]..n /\ a > 1
        BY <3>1, <4>1
      <4>3. QED
        BY <1>5, <3>2, <4>2
    <3>4. ~ (a < p[1])
      <4>1. SUFFICES ASSUME a < p[1] PROVE FALSE
        OBVIOUS
      <4>2. p[1] - 1 \in a..n
        BY <2>1, <3>1, <3>2, <4>1
      <4>3. QED
        BY <1>5, <3>2, <4>2
    <3>5. p[1] = a
      BY <3>1, <3>3, <3>4
    <3>6. QED
      BY <2>1, <2>2, <3>1, <3>2, <3>5
  <2>3. ASSUME a > 1, n + 1 - a >= Junction
        PROVE  <<a, n>> \in (1..N) \X (1..N) /\ Is(<<a, n>>) /\ <<a, n>>[2] = n
    <3>1. a \in 1..N /\ n \in 1..N /\ n < N /\ n - a + 1 >= Junction
      BY <2>1, <2>3
    <3>2. QED
      BY <1>5, <2>3, <3>1
  <2> HIDE DEF Is, N
  <2>4. QED
    BY <2>2, <2>3
<1> HIDE DEF Is, N
<1>6. QED
  BY <1>3, <1>4, <1>5

RunState == [begun : BOOLEAN, run : Nat, runs : Seq(Nat)]

LEMMA RunsSteps ==
  ASSUME NEW silent, Len(silent) \in Nat
  PROVE  \E f : /\ \A n \in 0..Len(silent) : f[n] \in RunState
                /\ f[0] = [begun |-> FALSE, run |-> 0, runs |-> <<>>]
                /\ \A n \in 1..Len(silent) : f[n] = Silenced(f[n - 1], silent[n])
                /\ SilenceRuns(silent) = f[Len(silent)].runs
<1> DEFINE N == Len(silent)
           start == [begun |-> FALSE, run |-> 0, runs |-> <<>>]
           F(f) == f = [n \in 0..N |-> IF n = 0 THEN start ELSE Silenced(f[n - 1], silent[n])]
           G == [n \in 1..N |-> [x \in RunState |-> Silenced(x, silent[n])]]
           f == CHOOSE f : F(f)
<1>1. N \in Nat
  OBVIOUS
<1>2. SilenceRuns(silent) = f[N].runs
  BY DEF SilenceRuns
<1> HIDE DEF N
<1>3. \A n : \A x \in RunState : Silenced(x, silent[n]) \in RunState
  <2>1. TAKE n
  <2> TAKE x \in RunState
  <2>2. x.begun \in BOOLEAN /\ x.run \in Nat /\ x.runs \in Seq(Nat) /\ Append(x.runs, x.run) \in Seq(Nat)
    BY AppendProperties DEF RunState
  <2>3. QED
    BY <2>2 DEF Silenced, RunState
<1>4. start \in RunState
  BY EmptySeq DEF RunState
<1>5. StaysIn(RunState, N, G)
  BY <1>3 DEF StaysIn
<1>6. \A n \in 1..N, x \in RunState : G[n][x] = Silenced(x, silent[n])
  OBVIOUS
<1> HIDE DEF G, start
<1>7. PICK g : StepsFrom(start, RunState, N, G, g)
  BY <1>1, <1>4, <1>5, StepsExist, Zenon
<1>8. /\ g \in [0..N -> RunState] /\ g[0] = start
      /\ \A n \in 1..N : g[n] = Silenced(g[n - 1], silent[n])
  <2>1. /\ g \in [0..N -> RunState] /\ g[0] = start
        /\ \A n \in 1..N : g[n] = G[n][g[n - 1]]
    BY <1>7 DEF StepsFrom
  <2>2. \A n \in 1..N : g[n - 1] \in RunState
    BY <1>1, <2>1
  <2>3. QED
    BY <1>6, <2>1, <2>2
<1>9. F(g)
  BY <1>1, <1>8
<1>10. F(f)
  <2> HIDE DEF F
  <2>1. QED
    BY <1>9
<1> HIDE DEF f
<1>11. /\ f[0] = start
       /\ \A n \in 1..N : f[n] = Silenced(f[n - 1], silent[n])
  BY <1>1, <1>10
<1> HIDE DEF F
<1>12. \A n \in 0..N : f[n] \in RunState
  <2> DEFINE T == {n \in 0..N : f[n] \in RunState}
  <2>1. 0 \in T
    BY <1>1, <1>4, <1>11
  <2>2. ASSUME NEW n \in Nat, n < N, n \in T
        PROVE  n + 1 \in T
    <3>1. n + 1 \in 1..N /\ n + 1 \in 0..N /\ (n + 1) - 1 = n /\ f[n] \in RunState
      BY <1>1, <2>2
    <3>2. f[n + 1] = Silenced(f[n], silent[n + 1])
      BY <1>11, <3>1
    <3>3. QED
      BY <1>3, <3>1, <3>2
  <2> HIDE DEF T
  <2>3. \A n \in 0..N : n \in T
    BY <1>1, <2>1, <2>2, UpTo
  <2>4. QED
    BY <2>3 DEF T
<1>13. QED
  BY <1>2, <1>11, <1>12 DEF start, N

\* What _silence_runs has found up to n: each silence that has ended, and how
\* long the one it is in has been.
RunsSoFar(silent, x, n) ==
  /\ ~x.begun => x.run = 0 /\ \A i \in 1..n : silent[i]
  /\ x.begun => x.run < n /\ ~silent[n - x.run] /\ \A i \in (n - x.run + 1)..n : silent[i]
  /\ IsFiniteSet(Ended(silent, n)) /\ Len(x.runs) = Cardinality(Ended(silent, n))
  /\ \A i \in 1..Len(x.runs) : x.runs[i] >= Junction

LEMMA RunsNext ==
  ASSUME NEW silent, Len(silent) \in Nat, NEW n \in Nat, n < Len(silent), NEW x \in RunState, RunsSoFar(silent, x, n)
  PROVE  RunsSoFar(silent, Silenced(x, silent[n + 1]), n + 1)
<1> DEFINE y == Silenced(x, silent[n + 1])
<1>1. x.begun \in BOOLEAN /\ x.run \in Nat /\ x.runs \in Seq(Nat) /\ Len(x.runs) \in Nat
  BY LenProperties DEF RunState
<1>2. CASE silent[n + 1]
  <2>1. Ended(silent, n + 1) = Ended(silent, n)
    BY <1>2, EndedNext
  <2>2. y.begun = x.begun /\ y.runs = x.runs /\ y.run = IF x.begun THEN x.run + 1 ELSE 0
    BY <1>1, <1>2 DEF Silenced, RunState
  <2> HIDE DEF y
  <2>3. ~y.begun => y.run = 0 /\ \A i \in 1..(n + 1) : silent[i]
    <3>1. \A i \in 1..(n + 1) : i = n + 1 \/ i \in 1..n
      OBVIOUS
    <3>2. QED
      BY <1>2, <2>2, <3>1 DEF RunsSoFar
  <2>4. ASSUME x.begun
        PROVE  y.run < n + 1 /\ ~silent[(n + 1) - y.run] /\ \A i \in ((n + 1) - y.run + 1)..(n + 1) : silent[i]
    <3>1. x.run < n /\ ~silent[n - x.run] /\ \A i \in (n - x.run + 1)..n : silent[i]
      BY <2>4 DEF RunsSoFar
    <3>2. y.run = x.run + 1 /\ (n + 1) - y.run = n - x.run
      BY <1>1, <2>2, <2>4
    <3>3. \A i \in (n - x.run + 1)..(n + 1) : i = n + 1 \/ i \in (n - x.run + 1)..n
      BY <1>1
    <3>4. QED
      BY <1>1, <1>2, <3>1, <3>2, <3>3
  <2>5. /\ IsFiniteSet(Ended(silent, n + 1)) /\ Len(y.runs) = Cardinality(Ended(silent, n + 1))
        /\ \A i \in 1..Len(y.runs) : y.runs[i] >= Junction
    BY <2>1, <2>2 DEF RunsSoFar
  <2>6. y.begun => x.begun
    BY <2>2
  <2>7. RunsSoFar(silent, y, n + 1)
    BY <2>3, <2>4, <2>5, <2>6, Zenon DEF RunsSoFar
  <2>8. QED
    BY <2>7 DEF y
<1>3. CASE ~silent[n + 1]
  <2> DEFINE a == IF x.begun THEN n - x.run + 1 ELSE 1
             more == IF x.run >= Junction THEN Append(x.runs, x.run) ELSE x.runs
  <2>1. y = [begun |-> TRUE, run |-> 0, runs |-> more]
    BY <1>3 DEF Silenced
  <2>2. a \in 1..(n + 1) /\ (\A i \in a..n : silent[i]) /\ (a > 1 => ~silent[a - 1])
    BY <1>1 DEF RunsSoFar
  <2>3. Ended(silent, n + 1) = Ended(silent, n) \union (IF a > 1 /\ n + 1 - a >= Junction THEN {<<a, n>>} ELSE {})
    <3> HIDE DEF a
    <3>1. QED
      BY <1>3, <2>2, EndedNext
  <2>4. <<a, n>> \notin Ended(silent, n)
    BY DEF Ended
  <2>5. Junction \in Nat \ {0}
    BY ProsodyAssumption
  <2>6. y.begun /\ y.run < n + 1 /\ ~silent[(n + 1) - y.run] /\ \A i \in ((n + 1) - y.run + 1)..(n + 1) : silent[i]
    BY <1>3, <2>1
  <2>7. x.run >= Junction <=> a > 1 /\ n + 1 - a >= Junction
    <3>1. CASE x.begun
      <4>1. x.run < n /\ a = n - x.run + 1 /\ n + 1 - a = x.run
        BY <1>1, <3>1 DEF RunsSoFar
      <4>2. QED
        BY <1>1, <4>1
    <3>2. CASE ~x.begun
      <4>1. x.run = 0
        BY <3>2 DEF RunsSoFar
      <4>2. QED
        BY <2>5, <3>2, <4>1
    <3>3. QED
      BY <1>1, <3>1, <3>2
  <2>8. IsFiniteSet(Ended(silent, n)) /\ Len(x.runs) = Cardinality(Ended(silent, n))
    BY DEF RunsSoFar
  <2> HIDE DEF a, y
  <2>9. CASE x.run >= Junction
    <3>1. Ended(silent, n + 1) = Ended(silent, n) \union {<<a, n>>}
      BY <2>3, <2>7, <2>9
    <3>2. y.runs = Append(x.runs, x.run)
      BY <2>1, <2>9
    <3>3. IsFiniteSet(Ended(silent, n + 1)) /\ Cardinality(Ended(silent, n + 1)) = Cardinality(Ended(silent, n)) + 1
      BY <2>4, <2>8, <3>1, FS_AddElement
    <3>4. /\ Len(y.runs) = Len(x.runs) + 1 /\ y.runs[Len(x.runs) + 1] = x.run
          /\ \A i \in 1..Len(x.runs) : y.runs[i] = x.runs[i]
      BY <1>1, <3>2, AppendProperties
    <3>5. \A i \in 1..(Len(x.runs) + 1) : i = Len(x.runs) + 1 \/ i \in 1..Len(x.runs)
      BY <1>1
    <3>6. \A i \in 1..Len(y.runs) : y.runs[i] >= Junction
      BY <2>9, <3>4, <3>5 DEF RunsSoFar
    <3>7. Len(y.runs) = Cardinality(Ended(silent, n + 1))
      BY <2>8, <3>3, <3>4
    <3>8. RunsSoFar(silent, y, n + 1)
      BY <2>6, <3>3, <3>6, <3>7, Zenon DEF RunsSoFar
    <3>9. QED
      BY <3>8 DEF y
  <2>10. CASE ~ (x.run >= Junction)
    <3>1. Ended(silent, n + 1) = Ended(silent, n)
      BY <2>3, <2>7, <2>10
    <3>2. y.runs = x.runs
      BY <2>1, <2>10
    <3>3. /\ IsFiniteSet(Ended(silent, n + 1)) /\ Len(y.runs) = Cardinality(Ended(silent, n + 1))
          /\ \A i \in 1..Len(y.runs) : y.runs[i] >= Junction
      BY <2>8, <3>1, <3>2 DEF RunsSoFar
    <3>4. RunsSoFar(silent, y, n + 1)
      BY <2>6, <3>3, Zenon DEF RunsSoFar
    <3>5. QED
      BY <3>4 DEF y
  <2>11. QED
    BY <2>9, <2>10
<1>4. QED
  BY <1>2, <1>3

LEMMA RunsAre ==
  ASSUME NEW silent, Len(silent) \in Nat
  PROVE  LET runs == SilenceRuns(silent) IN
         /\ runs \in Seq(Nat)
         /\ IsFiniteSet(InnerSilences(silent)) /\ Len(runs) = Cardinality(InnerSilences(silent))
         /\ \A i \in 1..Len(runs) : runs[i] >= Junction
<1> DEFINE N == Len(silent)
<1>1. PICK f : /\ \A n \in 0..N : f[n] \in RunState
               /\ f[0] = [begun |-> FALSE, run |-> 0, runs |-> <<>>]
               /\ \A n \in 1..N : f[n] = Silenced(f[n - 1], silent[n])
               /\ SilenceRuns(silent) = f[N].runs
  BY RunsSteps
<1> DEFINE T == {n \in 0..N : RunsSoFar(silent, f[n], n)}
<1>2. 0 \in T
  <2>1. Ended(silent, 0) = {}
    BY DEF Ended, InnerSilences
  <2>2. IsFiniteSet({}) /\ Cardinality({}) = 0
    BY FS_EmptySet
  <2>3. ~f[0].begun /\ f[0].run = 0 /\ f[0].runs = <<>>
    BY <1>1
  <2>4. RunsSoFar(silent, f[0], 0)
    BY <2>1, <2>2, <2>3 DEF RunsSoFar
  <2>5. QED
    BY <2>4
<1>3. ASSUME NEW n \in Nat, n < N, n \in T
      PROVE  n + 1 \in T
  <2>1. n \in 0..N /\ n + 1 \in 0..N /\ n + 1 \in 1..N /\ (n + 1) - 1 = n
    BY <1>3
  <2>2. f[n + 1] = Silenced(f[n], silent[n + 1]) /\ f[n] \in RunState
    BY <1>1, <2>1
  <2>3. RunsSoFar(silent, f[n + 1], n + 1)
    BY <1>3, <2>2, RunsNext
  <2>4. QED
    BY <2>1, <2>3
<1>4. \A n \in 0..N : n \in T
  <2> HIDE DEF T
  <2>1. QED
    BY <1>2, <1>3, UpTo
<1>5. RunsSoFar(silent, f[N], N) /\ f[N] \in RunState
  BY <1>1, <1>4
<1>6. Ended(silent, N) = InnerSilences(silent)
  BY DEF Ended, InnerSilences
<1>7. QED
  BY <1>1, <1>5, <1>6 DEF RunsSoFar, RunState

Run == [at : Int, len : Int]
PlacedState == [start : Nat, runs : Seq(Run)]

LEMMA PositionsSteps ==
  ASSUME NEW silent, Len(silent) \in Nat
  PROVE  \E f : /\ \A n \in 0..Len(silent) : f[n] \in PlacedState
                /\ f[0] = [start |-> 0, runs |-> <<>>]
                /\ \A n \in 1..Len(silent) : f[n] = Placed(f[n - 1], silent, n)
                /\ Positions(silent) = f[Len(silent)].runs
<1> DEFINE N == Len(silent)
           start == [start |-> 0, runs |-> <<>>]
           F(f) == f = [n \in 0..N |-> IF n = 0 THEN start ELSE Placed(f[n - 1], silent, n)]
           G == [n \in 1..N |-> [x \in PlacedState |-> Placed(x, silent, n)]]
           f == CHOOSE f : F(f)
<1>1. N \in Nat
  OBVIOUS
<1>2. Positions(silent) = f[N].runs
  BY DEF Positions
<1> HIDE DEF N
<1>3. \A n \in Nat : \A x \in PlacedState : Placed(x, silent, n) \in PlacedState
  <2>1. TAKE n \in Nat
  <2> TAKE x \in PlacedState
  <2> DEFINE new == [at |-> x.start - 1, len |-> n - x.start]
  <2>2. x.start \in Nat /\ x.runs \in Seq(Run) /\ new \in Run
    BY DEF PlacedState, Run
  <2>3. Append(x.runs, new) \in Seq(Run)
    BY <2>2, AppendProperties
  <2>4. Placed(x, silent, n) = IF silent[n] THEN [x EXCEPT !.start = IF x.start = 0 THEN n ELSE x.start]
                               ELSE [start |-> 0, runs |-> IF x.start > 0 /\ n - x.start >= Junction
                                                           THEN Append(x.runs, new) ELSE x.runs]
    BY DEF Placed
  <2> HIDE DEF new
  <2>5. QED
    BY <2>2, <2>3, <2>4 DEF PlacedState
<1>4. start \in PlacedState
  BY EmptySeq DEF PlacedState
<1>5. StaysIn(PlacedState, N, G)
  BY <1>1, <1>3 DEF StaysIn
<1>6. \A n \in 1..N, x \in PlacedState : G[n][x] = Placed(x, silent, n)
  OBVIOUS
<1> HIDE DEF G, start
<1>7. PICK g : StepsFrom(start, PlacedState, N, G, g)
  BY <1>1, <1>4, <1>5, StepsExist, Zenon
<1>8. /\ g \in [0..N -> PlacedState] /\ g[0] = start
      /\ \A n \in 1..N : g[n] = Placed(g[n - 1], silent, n)
  <2>1. /\ g \in [0..N -> PlacedState] /\ g[0] = start
        /\ \A n \in 1..N : g[n] = G[n][g[n - 1]]
    BY <1>7 DEF StepsFrom
  <2>2. \A n \in 1..N : g[n - 1] \in PlacedState
    BY <1>1, <2>1
  <2>3. QED
    BY <1>6, <2>1, <2>2
<1>9. F(g)
  BY <1>1, <1>8
<1>10. F(f)
  <2> HIDE DEF F
  <2>1. QED
    BY <1>9
<1> HIDE DEF f
<1>11. /\ f[0] = start
       /\ \A n \in 1..N : f[n] = Placed(f[n - 1], silent, n)
  BY <1>1, <1>10
<1> HIDE DEF F
<1>12. \A n \in 0..N : f[n] \in PlacedState
  <2> DEFINE T == {n \in 0..N : f[n] \in PlacedState}
  <2>1. 0 \in T
    BY <1>1, <1>4, <1>11
  <2>2. ASSUME NEW n \in Nat, n < N, n \in T
        PROVE  n + 1 \in T
    <3>1. n + 1 \in 1..N /\ n + 1 \in 0..N /\ (n + 1) - 1 = n /\ f[n] \in PlacedState
      BY <1>1, <2>2
    <3>2. f[n + 1] = Placed(f[n], silent, n + 1)
      BY <1>11, <3>1
    <3>3. QED
      BY <1>3, <3>1, <3>2
  <2> HIDE DEF T
  <2>3. \A n \in 0..N : n \in T
    BY <1>1, <2>1, <2>2, UpTo
  <2>4. QED
    BY <2>3 DEF T
<1>13. QED
  BY <1>2, <1>11, <1>12 DEF start, N

\* What silence_run_positions has found up to n.
PositionsSoFar(silent, x, n) ==
  /\ x.start = 0 => n = 0 \/ ~silent[n]
  /\ x.start > 0 => /\ x.start <= n /\ \A i \in x.start..n : silent[i]
                    /\ x.start > 1 => ~silent[x.start - 1]
  /\ {<<p[1] - 1, p[2] - p[1] + 1>> : p \in Ended(silent, n)}
       = {<<x.runs[i].at, x.runs[i].len>> : i \in {j \in 1..Len(x.runs) : x.runs[j].at > 0}}

LEMMA PositionsNext ==
  ASSUME NEW silent, Len(silent) \in Nat, NEW n \in Nat, n < Len(silent),
         NEW x \in PlacedState, PositionsSoFar(silent, x, n)
  PROVE  PositionsSoFar(silent, Placed(x, silent, n + 1), n + 1)
<1> DEFINE y == Placed(x, silent, n + 1)
           Inside(m) == {<<p[1] - 1, p[2] - p[1] + 1>> : p \in Ended(silent, m)}
           Found(runs) == {<<runs[i].at, runs[i].len>> : i \in {j \in 1..Len(runs) : runs[j].at > 0}}
<1>1. x.start \in Nat /\ x.runs \in Seq(Run) /\ Len(x.runs) \in Nat
  BY LenProperties DEF PlacedState
<1>2. /\ x.start = 0 => n = 0 \/ ~silent[n]
      /\ x.start > 0 => /\ x.start <= n /\ \A i \in x.start..n : silent[i]
                        /\ x.start > 1 => ~silent[x.start - 1]
      /\ Inside(n) = Found(x.runs)
  BY DEF PositionsSoFar
<1>3. Junction \in Nat \ {0}
  BY ProsodyAssumption
<1>4. CASE silent[n + 1]
  <2>1. Ended(silent, n + 1) = Ended(silent, n)
    BY <1>4, EndedNext
  <2>2. y.runs = x.runs /\ y.start = IF x.start = 0 THEN n + 1 ELSE x.start
    BY <1>1, <1>4 DEF Placed, PlacedState
  <2> HIDE DEF y
  <2>3. y.start > 0 /\ y.start <= n + 1 /\ (y.start > 1 => ~silent[y.start - 1])
    BY <1>1, <1>2, <2>2
  <2>4. \A i \in y.start..(n + 1) : silent[i]
    <3>1. \A i \in y.start..(n + 1) : i = n + 1 \/ (x.start > 0 /\ i \in x.start..n)
      BY <1>1, <1>2, <2>2
    <3>2. QED
      BY <1>2, <1>4, <3>1
  <2>5. Inside(n + 1) = Found(y.runs)
    <3>1. Inside(n + 1) = Inside(n) /\ Found(y.runs) = Found(x.runs)
      BY <2>1, <2>2
    <3>2. QED
      BY <1>2, <3>1
  <2>6. y.start # 0
    BY <2>3
  <2>7. PositionsSoFar(silent, y, n + 1)
    BY <2>3, <2>4, <2>5, <2>6, Zenon DEF PositionsSoFar
  <2>8. QED
    BY <2>7 DEF y
<1>5. CASE ~silent[n + 1]
  <2> DEFINE a == IF x.start > 0 THEN x.start ELSE n + 1
             new == [at |-> x.start - 1, len |-> (n + 1) - x.start]
             more == IF x.start > 0 /\ (n + 1) - x.start >= Junction THEN Append(x.runs, new) ELSE x.runs
  <2>1. y = [start |-> 0, runs |-> more]
    BY <1>5 DEF Placed
  <2>2. a \in 1..(n + 1) /\ (\A i \in a..n : silent[i]) /\ (a > 1 => ~silent[a - 1])
    BY <1>1, <1>2
  <2>3. Ended(silent, n + 1) = Ended(silent, n) \union (IF a > 1 /\ n + 1 - a >= Junction THEN {<<a, n>>} ELSE {})
    <3> HIDE DEF a
    <3>1. QED
      BY <1>5, <2>2, EndedNext
  <2>4. y.start = 0 /\ y.runs = more
    <3> HIDE DEF y, more
    <3>1. QED
      BY <2>1
  <2>5. CASE x.start > 0 /\ (n + 1) - x.start >= Junction
    <3>1. /\ Len(more) = Len(x.runs) + 1 /\ more[Len(x.runs) + 1] = new
          /\ \A i \in 1..Len(x.runs) : more[i] = x.runs[i]
      BY <1>1, <2>5, AppendProperties DEF Run
    <3> DEFINE s == <<x.start - 1, (n + 1) - x.start>>
    <3>2. new.at = x.start - 1 /\ new.len = (n + 1) - x.start
      OBVIOUS
    <3> DEFINE L == Len(x.runs)
    <3>3. L \in Nat /\ \A i \in 1..(L + 1) : i = L + 1 \/ i \in 1..L
      BY <1>1
    <3> HIDE DEF more, new, L
    <3>4. Found(more) = Found(x.runs) \union (IF x.start > 1 THEN {s} ELSE {})
      <4>1. ASSUME NEW i \in 1..(L + 1), more[i].at > 0
            PROVE  <<more[i].at, more[i].len>> \in Found(x.runs) \union (IF x.start > 1 THEN {s} ELSE {})
        <5>1. CASE i = L + 1
          BY <1>1, <3>1, <3>2, <4>1, <5>1 DEF L
        <5>2. CASE i \in 1..L
          BY <3>1, <4>1, <5>2 DEF L
        <5>3. QED
          BY <3>3, <5>1, <5>2
      <4>2. ASSUME NEW i \in 1..L, x.runs[i].at > 0
            PROVE  <<x.runs[i].at, x.runs[i].len>> \in Found(more)
        <5>1. i \in 1..Len(more) /\ more[i] = x.runs[i]
          BY <3>1, <3>3, <4>2 DEF L
        <5>2. QED
          BY <4>2, <5>1
      <4>3. ASSUME x.start > 1
            PROVE  s \in Found(more)
        <5>1. L + 1 \in 1..Len(more) /\ more[L + 1] = new /\ new.at > 0
          BY <1>1, <3>1, <3>2, <3>3, <4>3 DEF L
        <5>2. QED
          BY <3>2, <5>1
      <4>4. Len(more) = L + 1
        BY <3>1 DEF L
      <4>5. QED
        BY <4>1, <4>2, <4>3, <4>4 DEF L
    <3>5. Inside(n + 1) = Inside(n) \union (IF x.start > 1 THEN {s} ELSE {})
      <4>1. a = x.start /\ a > 0
        BY <2>5
      <4> HIDE DEF a
      <4>2. <<a, n>>[1] - 1 = x.start - 1 /\ <<a, n>>[2] - <<a, n>>[1] + 1 = (n + 1) - x.start
        BY <1>1, <4>1
      <4>3. Ended(silent, n + 1) = Ended(silent, n) \union (IF x.start > 1 THEN {<<a, n>>} ELSE {})
        BY <1>1, <2>3, <2>5, <4>1
      <4>4. QED
        BY <4>2, <4>3
    <3> HIDE DEF Found, Inside, s
    <3>6. Inside(n + 1) = Found(y.runs)
      BY <1>2, <2>4, <3>4, <3>5
    <3> HIDE DEF y
    <3>7. PositionsSoFar(silent, y, n + 1)
      BY <1>5, <2>4, <3>6 DEF PositionsSoFar, Found, Inside
    <3>8. QED
      BY <3>7 DEF y
  <2>6. CASE ~ (x.start > 0 /\ (n + 1) - x.start >= Junction)
    <3>1. ~ (a > 1 /\ n + 1 - a >= Junction) /\ more = x.runs
      BY <1>1, <1>3, <2>6
    <3>2. Inside(n + 1) = Inside(n)
      BY <2>3, <3>1
    <3> HIDE DEF Found, Inside, more
    <3>3. Inside(n + 1) = Found(y.runs)
      BY <1>2, <2>4, <3>1, <3>2
    <3> HIDE DEF y
    <3>4. PositionsSoFar(silent, y, n + 1)
      BY <1>5, <2>4, <3>3 DEF PositionsSoFar, Found, Inside
    <3>5. QED
      BY <3>4 DEF y
  <2>7. QED
    BY <2>5, <2>6
<1>6. QED
  BY <1>4, <1>5

LEMMA PositionsAre ==
  ASSUME NEW silent, Len(silent) \in Nat
  PROVE  LET positions == Positions(silent) IN
         {<<p[1] - 1, p[2] - p[1] + 1>> : p \in InnerSilences(silent)}
           = {<<positions[i].at, positions[i].len>> : i \in {j \in 1..Len(positions) : positions[j].at > 0}}
<1> DEFINE N == Len(silent)
<1>1. PICK f : /\ \A n \in 0..N : f[n] \in PlacedState
               /\ f[0] = [start |-> 0, runs |-> <<>>]
               /\ \A n \in 1..N : f[n] = Placed(f[n - 1], silent, n)
               /\ Positions(silent) = f[N].runs
  BY PositionsSteps
<1> DEFINE T == {n \in 0..N : PositionsSoFar(silent, f[n], n)}
<1>2. 0 \in T
  <2>1. Ended(silent, 0) = {}
    BY DEF Ended, InnerSilences
  <2>2. f[0].start = 0 /\ f[0].runs = <<>>
    BY <1>1
  <2>3. PositionsSoFar(silent, f[0], 0)
    BY <2>1, <2>2 DEF PositionsSoFar
  <2>4. QED
    BY <2>3
<1>3. ASSUME NEW n \in Nat, n < N, n \in T
      PROVE  n + 1 \in T
  <2>1. n \in 0..N /\ n + 1 \in 0..N /\ n + 1 \in 1..N /\ (n + 1) - 1 = n
    BY <1>3
  <2>2. f[n + 1] = Placed(f[n], silent, n + 1) /\ f[n] \in PlacedState
    BY <1>1, <2>1
  <2>3. PositionsSoFar(silent, f[n + 1], n + 1)
    BY <1>3, <2>2, PositionsNext
  <2>4. QED
    BY <2>1, <2>3
<1>4. \A n \in 0..N : n \in T
  <2> HIDE DEF T
  <2>1. QED
    BY <1>2, <1>3, UpTo
<1>5. PositionsSoFar(silent, f[N], N)
  BY <1>4
<1>6. Ended(silent, N) = InnerSilences(silent)
  BY DEF Ended, InnerSilences
<1>7. QED
  BY <1>1, <1>5, <1>6 DEF PositionsSoFar

-----------------------------------------------------------------------------
(***************************************************************************)
(* The longest of all, and how many are at least as long.                  *)
(***************************************************************************)

AtLeast(s, x) == Cardinality({i \in 1..Len(s) : s[i] >= x})
Lesser(a, b) == IF a < b THEN a ELSE b
Falling(s) == \A k, l \in 1..Len(s) : k < l => s[l] <= s[k]

\* A set that has with every place the ones before it is an interval.
LEMMA FromTheFirst ==
  ASSUME NEW n \in Nat, NEW S \in SUBSET (1..n), \A j \in S : \A i \in 1..j : i \in S
  PROVE  IsFiniteSet(S) /\ Cardinality(S) \in Nat /\ S = 1..Cardinality(S)
<1> DEFINE U == {k \in Nat \ {0} : k \notin S}
<1>1. n + 1 \in U /\ U \in SUBSET Nat
  OBVIOUS
<1>2. PICK m \in U : \A k \in U : m <= k
  BY <1>1, LeastNatural
<1>3. m \in Nat \ {0} /\ m \notin S /\ m - 1 \in Nat
  BY <1>2
<1>4. \A i \in 1..(m - 1) : i \in S
  BY <1>2, <1>3
<1>5. \A i \in S : i \in 1..(m - 1)
  BY <1>3
<1>6. S = 1..(m - 1)
  BY <1>4, <1>5
<1>7. IsFiniteSet(1..(m - 1)) /\ Cardinality(1..(m - 1)) = m - 1
  BY <1>3, FS_Interval
<1>8. QED
  BY <1>3, <1>6, <1>7

LEMMA AtLeastType ==
  ASSUME NEW s \in Seq(Nat), NEW x \in Nat
  PROVE  /\ IsFiniteSet({i \in 1..Len(s) : s[i] >= x}) /\ AtLeast(s, x) \in Nat
         /\ x = 0 => AtLeast(s, x) = Len(s)
<1>1. Len(s) \in Nat /\ \A i \in 1..Len(s) : s[i] \in Nat
  BY LenProperties
<1>2. IsFiniteSet(1..Len(s)) /\ Cardinality(1..Len(s)) = Len(s)
  BY <1>1, FS_Interval
<1>3. {i \in 1..Len(s) : s[i] >= x} \in SUBSET (1..Len(s))
  OBVIOUS
<1>4. IsFiniteSet({i \in 1..Len(s) : s[i] >= x})
  BY <1>2, <1>3, FS_Subset
<1>5. x = 0 => {i \in 1..Len(s) : s[i] >= x} = 1..Len(s)
  BY <1>1
<1>6. QED
  BY <1>2, <1>4, <1>5, FS_CardinalityType DEF AtLeast

\* In a falling sequence those come first that are at least x.
LEMMA FallingIs ==
  ASSUME NEW s \in Seq(Nat), Falling(s), NEW x \in Nat
  PROVE  \A i \in 1..Len(s) : s[i] >= x <=> i <= AtLeast(s, x)
<1> DEFINE S == {i \in 1..Len(s) : s[i] >= x}
<1>1. Len(s) \in Nat /\ \A i \in 1..Len(s) : s[i] \in Nat
  BY LenProperties
<1>2. \A j \in S : \A i \in 1..j : i \in S
  <2>1. TAKE j \in S
  <2>2. TAKE i \in 1..j
  <2>3. j \in 1..Len(s) /\ s[j] >= x /\ i \in 1..Len(s) /\ (i = j \/ i < j)
    BY <1>1
  <2>4. i < j => s[j] <= s[i]
    BY <2>3 DEF Falling
  <2>5. QED
    BY <1>1, <2>3, <2>4
<1>3. S \in SUBSET (1..Len(s))
  OBVIOUS
<1>4. AtLeast(s, x) = Cardinality(S)
  BY DEF AtLeast
<1>5. \A i \in 1..Len(s) : s[i] >= x <=> i \in S
  OBVIOUS
<1> HIDE DEF S
<1>6. S = 1..Cardinality(S) /\ Cardinality(S) \in Nat
  BY <1>1, <1>2, <1>3, FromTheFirst
<1>7. QED
  BY <1>1, <1>4, <1>5, <1>6

\* A falling sequence is known from how many are at least each number.
LEMMA FallingAlike ==
  ASSUME NEW s \in Seq(Nat), NEW t \in Seq(Nat), Falling(s), Falling(t),
         \A x \in Nat : AtLeast(s, x) = AtLeast(t, x)
  PROVE  s = t
<1>1. /\ Len(s) \in Nat /\ \A i \in 1..Len(s) : s[i] \in Nat
      /\ \A i \in 1..Len(t) : t[i] \in Nat
  BY LenProperties
<1>2. Len(s) = Len(t)
  <2>1. 0 \in Nat
    OBVIOUS
  <2>2. QED
    BY <2>1, AtLeastType
<1>3. \A i \in 1..Len(s) : s[i] = t[i]
  <2>1. TAKE i \in 1..Len(s)
  <2>2. i \in 1..Len(t) /\ s[i] \in Nat /\ t[i] \in Nat
    BY <1>1, <1>2
  <2>3. s[i] >= s[i] <=> i <= AtLeast(s, s[i])
    BY <2>2, FallingIs
  <2>4. t[i] >= s[i] <=> i <= AtLeast(t, s[i])
    BY <2>2, FallingIs
  <2>5. t[i] >= t[i] <=> i <= AtLeast(t, t[i])
    BY <2>2, FallingIs
  <2>6. s[i] >= t[i] <=> i <= AtLeast(s, t[i])
    BY <2>2, FallingIs
  <2>7. AtLeast(s, s[i]) = AtLeast(t, s[i]) /\ AtLeast(s, t[i]) = AtLeast(t, t[i])
    BY <2>2
  <2>8. t[i] >= s[i] /\ s[i] >= t[i]
    BY <2>2, <2>3, <2>4, <2>5, <2>6, <2>7
  <2>9. QED
    BY <2>2, <2>8
<1>4. QED
  BY <1>2, <1>3, SeqEqual

\* Those that are at least x are as many in every order.
LEMMA OrderedCount ==
  ASSUME NEW s \in Seq(Nat), NEW keys, \A i \in 1..Len(s) : keys[i] \in Int,
         NEW t, NEW p, InOrder(s, keys, t, p), NEW x \in Nat
  PROVE  AtLeast(t, x) = AtLeast(s, x)
<1> DEFINE n == Len(s)
           A == {k \in 1..n : t[k] >= x}
           B == {i \in 1..n : s[i] >= x}
           f == [k \in A |-> p[k]]
<1>1. n \in Nat
  BY LenProperties
<1>2. /\ Len(t) = n
      /\ \A k \in 1..n : p[k] \in 1..n /\ t[k] = s[p[k]]
      /\ \A i \in 1..n : \E k \in 1..n : p[k] = i
      /\ \A k, l \in 1..n : k < l => keys[p[k]] < keys[p[l]] \/ (keys[p[k]] = keys[p[l]] /\ p[k] < p[l])
  BY DEF InOrder
<1>3. \A i \in 1..n : keys[i] \in Int
  OBVIOUS
<1> HIDE DEF n
<1>4. \A k, l \in 1..n : p[k] = p[l] => k = l
  <2>1. TAKE k \in 1..n, l \in 1..n
  <2>2. HAVE p[k] = p[l]
  <2>3. p[k] \in 1..n /\ keys[p[k]] \in Int /\ p[k] \in Int /\ k \in Int /\ l \in Int
    BY <1>1, <1>2, <1>3, SMTT(30)
  <2>4. ~ (keys[p[k]] < keys[p[l]]) /\ ~ (keys[p[l]] < keys[p[k]]) /\ ~ (p[k] < p[l]) /\ ~ (p[l] < p[k])
    BY <2>2, <2>3
  <2>5. ~ (k < l) /\ ~ (l < k)
    BY <1>2, <2>4
  <2>6. QED
    BY <2>3, <2>5
<1>5. f \in Bijection(A, B)
  <2>1. f \in [A -> B]
    BY <1>2
  <2>2. \A k, l \in A : f[k] = f[l] => k = l
    BY <1>4
  <2>3. \A i \in B : \E k \in A : f[k] = i
    <3>1. TAKE i \in B
    <3>2. PICK k \in 1..n : p[k] = i
      BY <1>2
    <3>3. k \in A /\ f[k] = i
      BY <1>2, <3>2
    <3>4. QED
      BY <3>3
  <2> HIDE DEF A, B, f
  <2>4. QED
    BY <2>1, <2>2, <2>3, Zenon DEF Bijection, Injection, Surjection, IsInjective
<1>6. IsFiniteSet(B) /\ IsFiniteSet(A)
  <2>1. IsFiniteSet(1..n)
    BY <1>1, FS_Interval
  <2>2. A \in SUBSET (1..n) /\ B \in SUBSET (1..n)
    OBVIOUS
  <2>3. QED
    BY <2>1, <2>2, FS_Subset
<1>7. Cardinality(A) = Cardinality(B)
  <2> HIDE DEF A, B, f
  <2>1. ExistsBijection(A, B)
    BY <1>5 DEF ExistsBijection
  <2>2. QED
    BY <1>6, <2>1, FS_Bijection
<1>8. QED
  BY <1>2, <1>7 DEF AtLeast, n

\* The longest fall, and are those of the TopN longest.
LEMMA LongestIs ==
  ASSUME NEW s \in Seq(Nat)
  PROVE  /\ Longest(s) \in Seq(Nat) /\ Falling(Longest(s))
         /\ \A x \in Nat : AtLeast(Longest(s), x) = Lesser(TopN, AtLeast(s, x))
<1> DEFINE keys == [i \in 1..Len(s) |-> -s[i]]
           down == Descending(s)
           L == Len(down)
           t == Longest(s)
           M == IF L > TopN THEN TopN ELSE L
<1>1. Len(s) \in Nat /\ \A i \in 1..Len(s) : s[i] \in Nat /\ keys[i] = -s[i] /\ keys[i] \in Int
  BY LenProperties
<1>2. TopN \in Nat
  BY ProsodyAssumption
<1>3. down = SortedBy(s, keys)
  BY DEF Descending
<1>4. t = IF L > TopN THEN SubSeq(down, 1, TopN) ELSE down
  BY DEF Longest
<1> HIDE DEF keys, down
<1>5. PICK p : InOrder(s, keys, down, p)
  BY <1>1, <1>3, SortedIs
<1>6. down \in Seq(Nat)
  BY <1>1, <1>3, SortedIs
<1>7. L = Len(s) /\ L \in Nat /\ \A k \in 1..L : down[k] \in Nat
  BY <1>1, <1>5, <1>6, LenProperties DEF InOrder
<1>8. Falling(down)
  <2>1. SUFFICES ASSUME NEW k \in 1..L, NEW l \in 1..L, k < l PROVE down[l] <= down[k]
    BY DEF Falling
  <2>2. p[k] \in 1..Len(s) /\ p[l] \in 1..Len(s) /\ down[k] = s[p[k]] /\ down[l] = s[p[l]]
    BY <1>5, <1>7 DEF InOrder
  <2>3. keys[p[k]] < keys[p[l]] \/ keys[p[k]] = keys[p[l]]
    BY <1>5, <1>7, <2>1 DEF InOrder
  <2>4. s[p[k]] \in Nat /\ s[p[l]] \in Nat /\ keys[p[k]] = -s[p[k]] /\ keys[p[l]] = -s[p[l]]
    BY <1>1, <2>2
  <2>5. QED
    BY <2>2, <2>3, <2>4, SMTT(30)
<1>9. \A x \in Nat : AtLeast(down, x) = AtLeast(s, x)
  BY <1>1, <1>5, OrderedCount
<1>10. t \in Seq(Nat) /\ Len(t) = M /\ M \in Nat /\ M <= L /\ \A k \in 1..M : t[k] = down[k]
  <2>1. CASE L > TopN
    <3>1. t = SubSeq(down, 1, TopN) /\ M = TopN
      BY <1>4, <2>1
    <3>2. \A k \in 1..TopN : k \in 1..L /\ 1 + k - 1 = k
      BY <1>2, <1>7, <2>1
    <3>3. Len(SubSeq(down, 1, TopN)) = TopN /\ SubSeq(down, 1, TopN) \in Seq(Nat)
          /\ \A k \in 1..TopN : SubSeq(down, 1, TopN)[k] = down[k]
      BY <1>2, <1>6, <1>7, <2>1, <3>2, SubSeqProperties
    <3>4. QED
      BY <1>2, <1>7, <2>1, <3>1, <3>3
  <2>2. CASE ~ (L > TopN)
    BY <1>4, <1>6, <1>7, <2>2
  <2>3. QED
    BY <2>1, <2>2
<1> HIDE DEF L, M, t
<1>11. Falling(t)
  <2>1. \A k \in 1..M : k \in 1..L
    BY <1>7, <1>10
  <2>2. QED
    BY <1>8, <1>10, <2>1 DEF Falling, L
<1>12. ASSUME NEW x \in Nat
       PROVE  AtLeast(t, x) = Lesser(TopN, AtLeast(s, x))
  <2> DEFINE c == AtLeast(s, x)
             d == Lesser(TopN, c)
  <2>1. c \in Nat /\ c <= L
    <3>1. IsFiniteSet(1..Len(s)) /\ Cardinality(1..Len(s)) = Len(s)
      <4>1. PICK n \in Nat : n = Len(s)
        BY <1>1
      <4>2. IsFiniteSet(1..n) /\ Cardinality(1..n) = n
        BY FS_Interval
      <4>3. QED
        BY <4>1, <4>2
    <3>2. {i \in 1..Len(s) : s[i] >= x} \in SUBSET (1..Len(s))
      OBVIOUS
    <3>3. Cardinality({i \in 1..Len(s) : s[i] >= x}) <= Len(s)
      BY <3>1, <3>2, FS_Subset
    <3>4. QED
      BY <1>7, <3>3, AtLeastType DEF AtLeast
  <2>2. \A i \in 1..L : down[i] >= x <=> i <= c
    BY <1>6, <1>8, <1>9, FallingIs DEF L
  <2> HIDE DEF c
  <2>3. d \in Nat /\ \A i \in 1..M : i <= c <=> i <= d
    BY <1>2, <1>7, <2>1 DEF M, Lesser
  <2>4. d <= M
    BY <1>2, <1>7, <2>1 DEF M, Lesser
  <2> HIDE DEF d
  <2>5. \A i \in 1..M : i \in 1..L /\ t[i] = down[i]
    BY <1>7, <1>10
  <2>6. \A i \in 1..M : t[i] >= x <=> i <= d
    BY <2>2, <2>3, <2>5
  <2>7. {i \in 1..Len(t) : t[i] >= x} = 1..d
    BY <1>10, <2>3, <2>4, <2>6
  <2>8. Cardinality(1..d) = d
    BY <2>3, FS_Interval
  <2>9. QED
    BY <2>7, <2>8 DEF AtLeast, c, d
<1>13. QED
  BY <1>10, <1>11, <1>12 DEF t

-----------------------------------------------------------------------------
(***************************************************************************)
(* Sums over windows, and what is put together of them.                    *)
(***************************************************************************)

\* The members of a sequence of sequences, one sequence after the other.
FlatSteps(ss, V, f) ==
  /\ f[0] = <<>>
  /\ \A n \in 1..Len(ss) : f[n] \in Seq(V) /\ f[n] = f[n - 1] \o ss[n]
  /\ FlattenSeq(ss) = f[Len(ss)]

LEMMA FlattenSteps ==
  ASSUME NEW V, NEW ss \in Seq(Seq(V))
  PROVE  \E f : FlatSteps(ss, V, f)
<1> DEFINE L == Len(ss)
           F(f) == f = [i \in 1..L |-> IF i = 1 THEN ss[i] ELSE f[i - 1] \o ss[i]]
           G == [n \in 1..L |-> [x \in Seq(V) |-> x \o ss[n]]]
           flat == CHOOSE f : F(f)
           h == [n \in 0..L |-> IF n = 0 THEN <<>> ELSE flat[n]]
<1>1. L \in Nat /\ \A i \in 1..L : ss[i] \in Seq(V)
  BY LenProperties
<1>2. <<>> \in Seq(V) /\ \A i \in 1..L : <<>> \o ss[i] = ss[i]
  BY <1>1, EmptySeq, ConcatEmptySeq
<1>3. \A n \in 1..L : \A x \in Seq(V) : x \o ss[n] \in Seq(V)
  BY <1>1, ConcatProperties
<1>4. FlattenSeq(ss) = IF L = 0 THEN ss ELSE flat[L]
  BY DEF FlattenSeq
<1>5. L = 0 => ss = <<>>
  BY EmptySeq
<1> HIDE DEF L
<1>6. StaysIn(Seq(V), L, G)
  BY <1>3 DEF StaysIn
<1>7. \A n \in 1..L, x \in Seq(V) : G[n][x] = x \o ss[n]
  OBVIOUS
<1> HIDE DEF G
<1>8. PICK g : StepsFrom(<<>>, Seq(V), L, G, g)
  BY <1>1, <1>2, <1>6, StepsExist, Zenon
<1>9. /\ g \in [0..L -> Seq(V)] /\ g[0] = <<>>
      /\ \A n \in 1..L : g[n] = g[n - 1] \o ss[n]
  <2>1. /\ g \in [0..L -> Seq(V)] /\ g[0] = <<>>
        /\ \A n \in 1..L : g[n] = G[n][g[n - 1]]
    BY <1>8 DEF StepsFrom
  <2>2. \A n \in 1..L : g[n - 1] \in Seq(V)
    BY <1>1, <2>1
  <2>3. QED
    BY <1>7, <2>1, <2>2
<1>10. F([i \in 1..L |-> g[i]])
  <2> DEFINE g1 == [i \in 1..L |-> g[i]]
  <2>1. ASSUME NEW i \in 1..L
        PROVE  g1[i] = IF i = 1 THEN ss[i] ELSE g1[i - 1] \o ss[i]
    <3>1. CASE i = 1
      <4> DEFINE before == i - 1
      <4>1. before = 0 /\ i \in 1..L /\ g1[i] = g[i]
        BY <1>1, <3>1
      <4>2. g[i] = g[before] \o ss[i]
        BY <1>9
      <4> HIDE DEF before
      <4>3. g[i] = <<>> \o ss[i]
        BY <1>9, <4>1, <4>2
      <4>4. QED
        BY <1>2, <3>1, <4>1, <4>3
    <3>2. CASE i # 1
      <4>1. i - 1 \in 1..L
        BY <1>1, <3>2
      <4>2. QED
        BY <1>9, <3>2, <4>1
    <3>3. QED
      BY <3>1, <3>2
  <2>2. QED
    BY <2>1
<1>11. F(flat)
  <2> HIDE DEF F
  <2>1. QED
    BY <1>10
<1>12. \A i \in 1..L : flat[i] = IF i = 1 THEN ss[i] ELSE flat[i - 1] \o ss[i]
  <2> HIDE DEF flat
  <2>1. QED
    BY <1>11
<1> HIDE DEF flat, F
<1>13. \A n \in 1..L : h[n] = h[n - 1] \o ss[n]
  <2>1. TAKE n \in 1..L
  <2>2. n \in 0..L /\ n - 1 \in 0..L /\ n # 0 /\ (n = 1 <=> n - 1 = 0)
    BY <1>1
  <2>3. h[n] = flat[n] /\ h[n - 1] = IF n = 1 THEN <<>> ELSE flat[n - 1]
    BY <2>2
  <2> HIDE DEF h
  <2>4. QED
    BY <1>2, <1>12, <2>3
<1>14. h[0] = <<>> /\ h[L] = IF L = 0 THEN <<>> ELSE flat[L]
  BY <1>1
<1> HIDE DEF h
<1>15. \A n \in 1..L : h[n] \in Seq(V)
  <2> DEFINE T == {n \in 0..L : h[n] \in Seq(V)}
  <2>1. 0 \in T
    <3>1. 0 \in 0..L /\ h[0] \in Seq(V)
      BY <1>1, <1>2, <1>14
    <3>2. QED
      BY <3>1
  <2>2. ASSUME NEW n \in Nat, n < L, n \in T
        PROVE  n + 1 \in T
    <3>1. n + 1 \in 1..L /\ n + 1 \in 0..L /\ (n + 1) - 1 = n /\ h[n] \in Seq(V)
      BY <1>1, <2>2
    <3>2. h[n + 1] = h[n] \o ss[n + 1]
      BY <1>13, <3>1
    <3>3. QED
      BY <1>3, <3>1, <3>2
  <2> HIDE DEF T
  <2>3. \A n \in 0..L : n \in T
    BY <1>1, <2>1, <2>2, UpTo
  <2>4. QED
    BY <1>1, <2>3 DEF T
<1>16. FlattenSeq(ss) = h[L]
  BY <1>4, <1>5, <1>14
<1>17. FlatSteps(ss, V, h)
  BY <1>13, <1>14, <1>15, <1>16 DEF FlatSteps, L
<1>18. QED
  BY <1>17

LEMMA ConcatCount ==
  ASSUME NEW a \in Seq(Nat), NEW b \in Seq(Nat), NEW x \in Nat
  PROVE  AtLeast(a \o b, x) = AtLeast(a, x) + AtLeast(b, x)
<1> DEFINE m == Len(a)
           n == Len(b)
           A == {i \in 1..m : a[i] >= x}
           B == {i \in 1..n : b[i] >= x}
           D == {i \in 1..(m + n) : i > m /\ b[i - m] >= x}
           f == [i \in B |-> m + i]
<1>1. m \in Nat /\ n \in Nat
  BY LenProperties
<1>2. /\ Len(a \o b) = m + n
      /\ \A i \in 1..(m + n) : (a \o b)[i] = IF i <= m THEN a[i] ELSE b[i - m]
  BY ConcatProperties
<1>3. {i \in 1..Len(a \o b) : (a \o b)[i] >= x} = A \union D
  <2> DEFINE G == {i \in 1..Len(a \o b) : (a \o b)[i] >= x}
  <2>1. ASSUME NEW i
        PROVE  i \in G <=> i \in A \union D
    <3> HIDE DEF m, n
    <3>1. i \in G <=> i \in 1..(m + n) /\ (a \o b)[i] >= x
      BY <1>2
    <3>2. i \in A <=> i \in 1..(m + n) /\ i <= m /\ a[i] >= x
      BY <1>1
    <3>3. i \in D <=> i \in 1..(m + n) /\ i > m /\ b[i - m] >= x
      BY <1>1
    <3>4. i \in 1..(m + n) => (a \o b)[i] = IF i <= m THEN a[i] ELSE b[i - m]
      BY <1>2
    <3>5. i \in 1..(m + n) => (i > m <=> ~(i <= m))
      BY <1>1
    <3> HIDE DEF A, D, G
    <3>6. QED
      BY <3>1, <3>2, <3>3, <3>4, <3>5
  <2> HIDE DEF A, D, G
  <2>2. G = A \union D
    BY <2>1
  <2>3. QED
    BY <2>2 DEF G
<1>4. IsFiniteSet(A) /\ IsFiniteSet(B) /\ Cardinality(A) \in Nat /\ Cardinality(B) \in Nat
  BY AtLeastType DEF AtLeast
<1>5. AtLeast(a, x) = Cardinality(A) /\ AtLeast(b, x) = Cardinality(B)
  BY DEF AtLeast
<1> HIDE DEF m, n
<1>6. f \in Bijection(B, D)
  <2>1. f \in [B -> D]
    <3>1. \A i \in B : m + i \in D
      <4>1. TAKE i \in B
      <4>2. i \in 1..n /\ (m + i) - m = i /\ m + i > m /\ m + i \in 1..(m + n) /\ b[i] >= x
        BY <1>1
      <4>3. QED
        BY <4>2
    <3>2. QED
      BY <3>1
  <2>2. \A i, j \in B : f[i] = f[j] => i = j
    BY <1>1
  <2>3. \A d \in D : \E i \in B : f[i] = d
    <3>1. TAKE d \in D
    <3>2. d - m \in B /\ f[d - m] = d
      BY <1>1
    <3>3. QED
      BY <3>2
  <2> HIDE DEF B, D, f
  <2>4. QED
    BY <2>1, <2>2, <2>3, Zenon DEF Bijection, Injection, Surjection, IsInjective
<1>7. A \cap D = {}
  BY <1>1
<1> HIDE DEF A, B, D, f
<1>8. IsFiniteSet(D) /\ Cardinality(D) = Cardinality(B)
  <2>1. ExistsBijection(B, D)
    BY <1>6 DEF ExistsBijection
  <2>2. QED
    BY <1>4, <2>1, FS_Bijection
<1>9. Cardinality(A \union D) = Cardinality(A) + Cardinality(D)
  <2>1. Cardinality(A \cap D) = 0
    BY <1>7, FS_EmptySet
  <2>2. Cardinality(A \union D) = Cardinality(A) + Cardinality(D) - Cardinality(A \cap D)
    BY <1>4, <1>8, FS_Union
  <2>3. QED
    BY <1>4, <1>8, <2>1, <2>2
<1>10. QED
  BY <1>3, <1>5, <1>8, <1>9 DEF AtLeast

LEMMA FlattenedCount ==
  ASSUME NEW ss \in Seq(Seq(Nat)), NEW x \in Nat
  PROVE  /\ FlattenSeq(ss) \in Seq(Nat)
         /\ [i \in 1..Len(ss) |-> AtLeast(ss[i], x)] \in Seq(Nat)
         /\ AtLeast(FlattenSeq(ss), x) = Total([i \in 1..Len(ss) |-> AtLeast(ss[i], x)])
<1> DEFINE L == Len(ss)
           c == [i \in 1..L |-> AtLeast(ss[i], x)]
           sum == Running(c)
<1>1. L \in Nat /\ \A i \in 1..L : ss[i] \in Seq(Nat)
  BY LenProperties
<1>2. PICK f : FlatSteps(ss, Nat, f)
  BY FlattenSteps
<1>3. /\ f[0] = <<>> /\ FlattenSeq(ss) = f[L]
      /\ \A n \in 1..L : f[n] \in Seq(Nat) /\ f[n] = f[n - 1] \o ss[n]
  BY <1>2 DEF FlatSteps
<1> HIDE DEF L
<1>4. c \in Seq(Nat) /\ Len(c) = L /\ \A i \in 1..L : c[i] = AtLeast(ss[i], x)
  <2>1. \A i \in 1..L : AtLeast(ss[i], x) \in Nat
    BY <1>1, AtLeastType
  <2>2. c \in [1..L -> Nat]
    BY <2>1
  <2>3. QED
    BY <1>1, <2>2, SeqDef, LenProperties
<1> HIDE DEF c
<1>5. sum[0] = 0 /\ \A n \in 1..L : sum[n] = sum[n - 1] + c[n]
  BY <1>4, RunningSteps
<1>6. Total(c) = sum[L]
  BY <1>4 DEF Total
<1>7. <<>> \in Seq(Nat) /\ AtLeast(<<>>, x) = 0
  <2>1. <<>> \in Seq(Nat) /\ Len(<<>>) = 0
    BY EmptySeq
  <2>2. {i \in 1..Len(<<>>) : <<>>[i] >= x} = {}
    BY <2>1
  <2>3. QED
    BY <2>1, <2>2, FS_EmptySet DEF AtLeast
<1> DEFINE T == {n \in 0..L : f[n] \in Seq(Nat) /\ AtLeast(f[n], x) = sum[n]}
<1> HIDE DEF sum
<1>8. 0 \in T
  <2>1. 0 \in 0..L /\ f[0] \in Seq(Nat) /\ AtLeast(f[0], x) = sum[0]
    BY <1>1, <1>3, <1>5, <1>7
  <2>2. QED
    BY <2>1
<1>9. ASSUME NEW n \in Nat, n < L, n \in T
      PROVE  n + 1 \in T
  <2>1. n + 1 \in 1..L /\ n + 1 \in 0..L /\ (n + 1) - 1 = n
    BY <1>1, <1>9
  <2>2. f[n + 1] = f[n] \o ss[n + 1] /\ f[n + 1] \in Seq(Nat) /\ ss[n + 1] \in Seq(Nat) /\ f[n] \in Seq(Nat)
    BY <1>1, <1>3, <1>9, <2>1
  <2>3. AtLeast(f[n + 1], x) = AtLeast(f[n], x) + AtLeast(ss[n + 1], x)
    BY <2>2, ConcatCount
  <2>4. sum[n + 1] = sum[n] + c[n + 1] /\ c[n + 1] = AtLeast(ss[n + 1], x) /\ AtLeast(f[n], x) = sum[n]
    BY <1>4, <1>5, <1>9, <2>1
  <2>5. QED
    BY <2>1, <2>2, <2>3, <2>4
<1>10. L \in T
  <2> HIDE DEF T
  <2>1. \A n \in 0..L : n \in T
    BY <1>1, <1>8, <1>9, UpTo
  <2>2. QED
    BY <1>1, <2>1
<1>11. QED
  BY <1>3, <1>4, <1>6, <1>10 DEF c, L

\* A sum of sums.
LEMMA TotalPlus ==
  ASSUME NEW a \in Seq(Nat), NEW b \in Seq(Nat), NEW c \in Seq(Nat), Len(a) = Len(c), Len(b) = Len(c),
         \A i \in 1..Len(c) : c[i] = a[i] + b[i]
  PROVE  Total(c) = Total(a) + Total(b)
<1> DEFINE n == Len(c)
           A == Running(a)
           B == Running(b)
           C == Running(c)
           T == {m \in 0..n : C[m] = A[m] + B[m]}
<1>1. /\ n \in Nat
      /\ \A m \in 0..n : A[m] \in Nat /\ B[m] \in Nat /\ C[m] \in Nat
      /\ A[0] = 0 /\ B[0] = 0 /\ C[0] = 0
      /\ \A m \in 1..n : A[m] = A[m - 1] + a[m] /\ B[m] = B[m - 1] + b[m] /\ C[m] = C[m - 1] + c[m]
  BY RunningSteps, LenProperties
<1>2. \A m \in 1..n : a[m] \in Nat /\ b[m] \in Nat /\ c[m] = a[m] + b[m]
  BY ElementOfSeq
<1>3. Total(a) = A[n] /\ Total(b) = B[n] /\ Total(c) = C[n]
  BY DEF Total
<1> HIDE DEF n, A, B, C
<1>4. 0 \in T
  BY <1>1
<1>5. ASSUME NEW m \in Nat, m < n, m \in T
      PROVE  m + 1 \in T
  <2>1. m \in 0..n /\ m + 1 \in 1..n /\ m + 1 \in 0..n /\ (m + 1) - 1 = m /\ C[m] = A[m] + B[m]
    BY <1>1, <1>5
  <2>2. A[m + 1] = A[m] + a[m + 1] /\ B[m + 1] = B[m] + b[m + 1] /\ C[m + 1] = C[m] + c[m + 1]
    BY <1>1, <2>1
  <2>3. A[m] \in Nat /\ B[m] \in Nat /\ a[m + 1] \in Nat /\ b[m + 1] \in Nat /\ c[m + 1] = a[m + 1] + b[m + 1]
    BY <1>1, <1>2, <2>1
  <2>4. \A w, x, y, z \in Nat : (w + x) + (y + z) = (w + y) + (x + z)
    OBVIOUS
  <2>5. C[m + 1] = (A[m] + B[m]) + (a[m + 1] + b[m + 1])
    BY <2>1, <2>2, <2>3
  <2>6. C[m + 1] = A[m + 1] + B[m + 1]
    <3>1. (A[m] + B[m]) + (a[m + 1] + b[m + 1]) = (A[m] + a[m + 1]) + (B[m] + b[m + 1])
      BY <2>3, <2>4
    <3>2. QED
      BY <2>2, <2>5, <3>1
  <2>7. QED
    BY <2>1, <2>6
<1>6. n \in T
  <2> HIDE DEF T
  <2>1. \A m \in 0..n : m \in T
    BY <1>1, <1>4, <1>5, UpTo
  <2>2. QED
    BY <1>1, <2>1
<1>7. QED
  BY <1>3, <1>6

\* What is cut off at t member by member is cut off at t in sum.
LEMMA TotalLesser ==
  ASSUME NEW t \in Nat, NEW a \in Seq(Nat), NEW b \in Seq(Nat), Len(a) = Len(b),
         \A i \in 1..Len(b) : b[i] = Lesser(t, a[i])
  PROVE  Lesser(t, Total(b)) = Lesser(t, Total(a))
<1> DEFINE n == Len(b)
           A == Running(a)
           B == Running(b)
           T == {m \in 0..n : Lesser(t, B[m]) = Lesser(t, A[m])}
<1>1. /\ n \in Nat
      /\ \A m \in 0..n : A[m] \in Nat /\ B[m] \in Nat
      /\ A[0] = 0 /\ B[0] = 0
      /\ \A m \in 1..n : A[m] = A[m - 1] + a[m] /\ B[m] = B[m - 1] + b[m]
  BY RunningSteps, LenProperties
<1>2. \A m \in 1..n : a[m] \in Nat /\ b[m] \in Nat /\ b[m] = Lesser(t, a[m])
  BY ElementOfSeq
<1>3. Total(a) = A[n] /\ Total(b) = B[n]
  BY DEF Total
<1> HIDE DEF n, A, B
<1>4. 0 \in T
  BY <1>1
<1>5. ASSUME NEW m \in Nat, m < n, m \in T
      PROVE  m + 1 \in T
  <2>1. m \in 0..n /\ m + 1 \in 1..n /\ m + 1 \in 0..n /\ (m + 1) - 1 = m /\ Lesser(t, B[m]) = Lesser(t, A[m])
    BY <1>1, <1>5
  <2>2. A[m + 1] = A[m] + a[m + 1] /\ B[m + 1] = B[m] + b[m + 1]
    BY <1>1, <2>1
  <2>3. A[m] \in Nat /\ B[m] \in Nat /\ a[m + 1] \in Nat /\ b[m + 1] = Lesser(t, a[m + 1])
    BY <1>1, <1>2, <2>1
  <2>4. Lesser(t, B[m + 1]) = Lesser(t, A[m + 1])
    BY <2>1, <2>2, <2>3, SMTT(30) DEF Lesser
  <2>5. QED
    BY <2>1, <2>4
<1>6. n \in T
  <2> HIDE DEF T
  <2>1. \A m \in 0..n : m \in T
    BY <1>1, <1>4, <1>5, UpTo
  <2>2. QED
    BY <1>1, <2>1
<1>7. QED
  BY <1>3, <1>6

\* Fractions that are all less than one are so in sum.
LEMMA TotalLess ==
  ASSUME NEW a \in Seq(Nat), NEW b \in Seq(Nat), Len(a) = Len(b), Len(b) # 0, NEW p \in Nat, NEW q \in Nat,
         \A i \in 1..Len(b) : a[i] * p < b[i] * q
  PROVE  Total(a) * p < Total(b) * q
<1> DEFINE n == Len(b)
           A == Running(a)
           B == Running(b)
           T == {m \in 1..n : A[m] * p < B[m] * q}
<1>1. /\ n \in Nat /\ n # 0
      /\ \A m \in 0..n : A[m] \in Nat /\ B[m] \in Nat
      /\ A[0] = 0 /\ B[0] = 0
      /\ \A m \in 1..n : A[m] = A[m - 1] + a[m] /\ B[m] = B[m - 1] + b[m]
  BY RunningSteps, LenProperties
<1>2. \A m \in 1..n : a[m] \in Nat /\ b[m] \in Nat /\ a[m] * p < b[m] * q
  BY ElementOfSeq
<1>3. Total(a) = A[n] /\ Total(b) = B[n]
  BY DEF Total
<1> HIDE DEF n, A, B
<1>4. ASSUME NEW x \in Nat, NEW y \in Nat, NEW v \in Nat, NEW w \in Nat, x * p <= y * q, v * p < w * q
      PROVE  (x + v) * p < (y + w) * q
  <2>1. (x + v) * p = x * p + v * p /\ (y + w) * q = y * q + w * q
    OBVIOUS
  <2>2. x * p \in Nat /\ y * q \in Nat /\ v * p \in Nat /\ w * q \in Nat
    OBVIOUS
  <2>3. QED
    BY <1>4, <2>1, <2>2
<1>5. 1 \in T
  <2>1. 1 \in 1..n /\ 0 \in 0..n /\ 1 - 1 = 0
    BY <1>1
  <2>2. A[1] = 0 + a[1] /\ B[1] = 0 + b[1]
    BY <1>1, <2>1
  <2>3. a[1] \in Nat /\ b[1] \in Nat /\ a[1] * p < b[1] * q
    BY <1>2, <2>1
  <2>4. 0 * p <= 0 * q
    OBVIOUS
  <2>5. A[1] * p < B[1] * q
    BY <1>4, <2>2, <2>3, <2>4
  <2>6. QED
    BY <2>1, <2>5
<1>6. ASSUME NEW m \in Nat, 1 <= m, m < n, m \in T
      PROVE  m + 1 \in T
  <2>1. m \in 0..n /\ m + 1 \in 1..n /\ (m + 1) - 1 = m /\ A[m] * p < B[m] * q
    BY <1>1, <1>6
  <2>2. A[m + 1] = A[m] + a[m + 1] /\ B[m + 1] = B[m] + b[m + 1]
    BY <1>1, <2>1
  <2>3. /\ A[m] \in Nat /\ B[m] \in Nat /\ a[m + 1] \in Nat /\ b[m + 1] \in Nat
        /\ a[m + 1] * p < b[m + 1] * q
    BY <1>1, <1>2, <2>1
  <2>4. \A x, y \in Nat : x * y \in Nat
    OBVIOUS
  <2>5. A[m] * p <= B[m] * q
    <3>1. A[m] * p \in Nat /\ B[m] * q \in Nat
      BY <2>3, <2>4
    <3>2. QED
      BY <2>1, <3>1
  <2>6. A[m + 1] * p < B[m + 1] * q
    BY <1>4, <2>2, <2>3, <2>5
  <2>7. QED
    BY <2>1, <2>6
<1>7. n \in T
  <2> HIDE DEF T
  <2>1. \A m \in 1..n : m \in T
    BY <1>1, <1>5, <1>6, UpTo
  <2>2. QED
    BY <1>1, <2>1
<1>8. QED
  BY <1>3, <1>7

\* The whole's fraction lies between those of the parts.
LEMMA Mediant ==
  ASSUME NEW a \in Seq(Nat), NEW b \in Seq(Nat), Len(a) = Len(b), Len(b) # 0
  PROVE  \E j, k \in 1..Len(b) : a[j] * Total(b) <= Total(a) * b[j] /\ Total(a) * b[k] <= a[k] * Total(b)
<1> DEFINE A == Total(a)
           B == Total(b)
           n == Len(b)
<1>1. A \in Nat /\ B \in Nat
  BY TotalIs
<1>2. \A i \in 1..n : a[i] \in Nat /\ b[i] \in Nat
  BY ElementOfSeq
<1> HIDE DEF A, B
<1>3. \E j \in 1..n : a[j] * B <= A * b[j]
  <2>1. SUFFICES ASSUME \A j \in 1..n : ~(a[j] * B <= A * b[j])
                 PROVE  FALSE
    OBVIOUS
  <2>2. \A j \in 1..n : b[j] * A < a[j] * B
    <3>1. TAKE j \in 1..n
    <3>2. a[j] \in Nat /\ b[j] \in Nat /\ ~(a[j] * B <= A * b[j])
      BY <1>2, <2>1
    <3>3. a[j] * B \in Nat /\ b[j] * A \in Nat /\ A * b[j] = b[j] * A
      BY <1>1, <3>2
    <3>4. QED
      BY <3>2, <3>3
  <2>3. Total(b) * A < Total(a) * B
    BY <1>1, <2>2, TotalLess
  <2>4. B * A < A * B
    BY <2>3 DEF A, B
  <2>5. QED
    BY <1>1, <2>4
<1>4. \E k \in 1..n : A * b[k] <= a[k] * B
  <2>1. SUFFICES ASSUME \A k \in 1..n : ~(A * b[k] <= a[k] * B)
                 PROVE  FALSE
    OBVIOUS
  <2>2. \A k \in 1..n : a[k] * B < b[k] * A
    <3>1. TAKE k \in 1..n
    <3>2. a[k] \in Nat /\ b[k] \in Nat /\ ~(A * b[k] <= a[k] * B)
      BY <1>2, <2>1
    <3>3. a[k] * B \in Nat /\ b[k] * A \in Nat /\ A * b[k] = b[k] * A
      BY <1>1, <3>2
    <3>4. QED
      BY <3>2, <3>3
  <2>3. Total(a) * B < Total(b) * A
    BY <1>1, <2>2, TotalLess
  <2>4. A * B < B * A
    BY <2>3 DEF A, B
  <2>5. QED
    BY <1>1, <2>4
<1>5. QED
  BY <1>3, <1>4 DEF A, B

\* The longest of the windows' longest are the longest of all; and there are as
\* many of all as of the windows'.
LEMMA LongestOfAll ==
  ASSUME NEW ss \in Seq(Seq(Nat))
  PROVE  Longest(FlattenSeq([i \in 1..Len(ss) |-> Longest(ss[i])])) = Longest(FlattenSeq(ss))
<1> DEFINE n == Len(ss)
           ls == [i \in 1..n |-> Longest(ss[i])]
           of == FlattenSeq(ss)
           fl == FlattenSeq(ls)
<1>1. n \in Nat /\ \A i \in 1..n : ss[i] \in Seq(Nat)
  BY LenProperties, ElementOfSeq
<1>2. /\ \A i \in 1..n : Longest(ss[i]) \in Seq(Nat)
      /\ \A i \in 1..n : \A x \in Nat : AtLeast(Longest(ss[i]), x) = Lesser(TopN, AtLeast(ss[i], x))
  BY <1>1, LongestIs
<1>3. ls \in Seq(Seq(Nat)) /\ Len(ls) = n /\ \A i \in 1..n : ls[i] = Longest(ss[i])
  <2>1. ls \in [1..n -> Seq(Nat)] /\ \A i \in 1..n : ls[i] = Longest(ss[i])
    BY <1>2
  <2> HIDE DEF ls, n
  <2>2. QED
    BY <1>1, <2>1, SeqDef, LenProperties
<1> HIDE DEF n, ls
<1>4. of \in Seq(Nat) /\ fl \in Seq(Nat)
  <2>1. 0 \in Nat
    OBVIOUS
  <2>2. QED
    BY <1>3, <2>1, FlattenedCount
<1>5. ASSUME NEW x \in Nat
      PROVE  AtLeast(Longest(fl), x) = AtLeast(Longest(of), x)
  <2> DEFINE a == [i \in 1..n |-> AtLeast(ss[i], x)]
             b == [i \in 1..n |-> AtLeast(ls[i], x)]
  <2>1. a \in Seq(Nat) /\ AtLeast(of, x) = Total(a)
    BY FlattenedCount DEF n
  <2>2. b \in Seq(Nat) /\ AtLeast(fl, x) = Total(b)
    <3> DEFINE c == [i \in 1..Len(ls) |-> AtLeast(ls[i], x)]
    <3>1. c \in Seq(Nat) /\ AtLeast(fl, x) = Total(c)
      BY <1>3, FlattenedCount
    <3>2. c = b
      BY <1>3
    <3> HIDE DEF b, c
    <3>3. QED
      BY <3>1, <3>2
  <2>3. Len(a) = n /\ Len(b) = n /\ \A i \in 1..n : b[i] = Lesser(TopN, a[i])
    <3>1. \A i \in 1..n : a[i] = AtLeast(ss[i], x) /\ b[i] = AtLeast(ls[i], x)
      OBVIOUS
    <3>2. DOMAIN a = 1..n /\ DOMAIN b = 1..n
      OBVIOUS
    <3> HIDE DEF a, b
    <3>3. Len(a) = n /\ Len(b) = n
      BY <1>1, <2>1, <2>2, <3>2, LenProperties
    <3>4. \A i \in 1..n : b[i] = Lesser(TopN, a[i])
      BY <1>2, <1>3, <3>1
    <3>5. QED
      BY <3>3, <3>4
  <2> HIDE DEF a, b, of, fl
  <2>4. TopN \in Nat
    BY ProsodyAssumption
  <2>5. Lesser(TopN, Total(b)) = Lesser(TopN, Total(a))
    BY <2>1, <2>2, <2>3, <2>4, TotalLesser
  <2>6. /\ AtLeast(Longest(fl), x) = Lesser(TopN, AtLeast(fl, x))
        /\ AtLeast(Longest(of), x) = Lesser(TopN, AtLeast(of, x))
    BY <1>4, LongestIs
  <2>7. QED
    BY <2>1, <2>2, <2>5, <2>6
<1> HIDE DEF of, fl
<1>6. Longest(fl) \in Seq(Nat) /\ Falling(Longest(fl)) /\ Longest(of) \in Seq(Nat) /\ Falling(Longest(of))
  BY <1>4, LongestIs
<1>7. Longest(fl) = Longest(of)
  BY <1>5, <1>6, FallingAlike
<1>8. QED
  BY <1>7 DEF of, fl, ls, n

LEMMA FlattenedLen ==
  ASSUME NEW ss \in Seq(Seq(Nat))
  PROVE  /\ FlattenSeq(ss) \in Seq(Nat)
         /\ [i \in 1..Len(ss) |-> Len(ss[i])] \in Seq(Nat)
         /\ Len(FlattenSeq(ss)) = Total([i \in 1..Len(ss) |-> Len(ss[i])])
<1> DEFINE a == [i \in 1..Len(ss) |-> AtLeast(ss[i], 0)]
           b == [i \in 1..Len(ss) |-> Len(ss[i])]
           of == FlattenSeq(ss)
<1>1. 0 \in Nat
  OBVIOUS
<1>2. of \in Seq(Nat) /\ a \in Seq(Nat) /\ AtLeast(of, 0) = Total(a)
  BY <1>1, FlattenedCount
<1>3. \A i \in 1..Len(ss) : AtLeast(ss[i], 0) = Len(ss[i])
  <2>1. TAKE i \in 1..Len(ss)
  <2>2. ss[i] \in Seq(Nat)
    BY ElementOfSeq
  <2>3. QED
    BY <1>1, <2>2, AtLeastType
<1>4. a = b
  BY <1>3
<1> HIDE DEF a, b, of
<1>5. AtLeast(of, 0) = Len(of)
  BY <1>1, <1>2, AtLeastType
<1>6. of \in Seq(Nat) /\ b \in Seq(Nat) /\ Len(of) = Total(b)
  BY <1>2, <1>4, <1>5
<1>7. QED
  BY <1>6 DEF b, of

\* The windows are sequences of indices, and those kept by their length are
\* those that were measured.
LEMMA WindowsAre ==
  ASSUME InputType
  PROVE  Windows \in Seq(Seq(Int))
<1> DEFINE N == Len(input)
           own == [i \in 1..N |-> i]
           at == <<0>> \o Cuts \o <<N + 1>>
           n == Len(at) - 1
           part(k) == [i \in 1..(at[k + 1] - at[k] - 1) |-> at[k] + i]
<1>1. N \in Nat
  BY LenProperties DEF InputType
<1>2. Cuts \in Seq(Nat)
  <2>1. own \in Seq(Nat)
    BY <1>1
  <2> DEFINE I == {i \in 1..N : input[i] = Cut}
  <2>2. Cuts = Chosen(own, I)
    BY DEF Cuts
  <2> HIDE DEF own, I
  <2>3. QED
    BY <2>1, <2>2, ChosenPicked
<1>3. at \in Seq(Nat) /\ Len(at) >= 2
  <2> HIDE DEF N
  <2>1. <<0>> \in Seq(Nat) /\ Len(<<0>>) = 1 /\ <<N + 1>> \in Seq(Nat) /\ Len(<<N + 1>>) = 1
    BY <1>1
  <2>2. <<0>> \o Cuts \in Seq(Nat) /\ Len(<<0>> \o Cuts) = 1 + Len(Cuts) /\ Len(Cuts) \in Nat
    BY <1>2, <2>1, ConcatProperties, LenProperties
  <2>3. at \in Seq(Nat) /\ Len(at) = Len(<<0>> \o Cuts) + 1
    BY <2>1, <2>2, ConcatProperties
  <2>4. QED
    BY <2>2, <2>3
<1>4. Windows = [k \in 1..n |-> part(k)]
  BY DEF Windows
<1> HIDE DEF at
<1>5. n \in Nat /\ \A k \in 1..n : at[k] \in Nat /\ at[k + 1] \in Nat
  <2>1. Len(at) \in Nat /\ n \in Nat
    BY <1>3, LenProperties
  <2>2. \A k \in 1..n : k \in 1..Len(at) /\ k + 1 \in 1..Len(at)
    BY <2>1
  <2>3. QED
    BY <1>3, <2>1, <2>2, ElementOfSeq
<1>6. \A k \in 1..n : part(k) \in Seq(Int)
  <2>1. TAKE k \in 1..n
  <2> DEFINE x == at[k]
             d == at[k + 1] - at[k] - 1
             p == [i \in 1..d |-> x + i]
  <2>2. x \in Nat /\ d \in Int
    BY <1>5
  <2> HIDE DEF d, x
  <2>3. CASE d >= 0
    <3>1. d \in Nat /\ p \in [1..d -> Int]
      BY <2>2, <2>3
    <3> HIDE DEF p
    <3>2. p \in Seq(Int)
      BY <3>1, SeqDef
    <3>3. QED
      BY <3>2 DEF p, d, x
  <2>4. CASE ~(d >= 0)
    <3>1. 1..d = 1..0 /\ 0 \in Nat
      BY <2>2, <2>4
    <3>2. p \in [1..0 -> Int]
      BY <3>1
    <3> HIDE DEF p
    <3>3. p \in Seq(Int)
      BY <3>1, <3>2, SeqDef
    <3>4. QED
      BY <3>3 DEF p, d, x
  <2>5. QED
    BY <2>3, <2>4
<1> HIDE DEF n, part
<1>7. Windows \in [1..n -> Seq(Int)]
  BY <1>4, <1>6
<1>8. QED
  BY <1>5, <1>7, SeqDef

RunsOf(w) == SilenceRuns(Silent(Column(Frames(w), "db")))

\* What is measured on a window that is long enough.
LEMMA WindowMeasured ==
  ASSUME NEW w \in Seq(Int)
  PROVE  LET e == Extract(Frames(w)) IN
         /\ Len(Silent(Column(Frames(w), "db"))) \in Nat /\ RunsOf(w) \in Seq(Nat)
         /\ e # None <=> Len(w) >= MinDuration
         /\ e # None =>
              /\ e.duration_s = Len(w) /\ e.duration_s \in Nat \ {0}
              /\ {"duration_s", "rate", "pauses"} \subseteq DOMAIN e
              /\ "syllable_nuclei" \in DOMAIN e.rate /\ e.rate.syllable_nuclei \in Nat
              /\ e.rate.speech_rate = <<e.rate.syllable_nuclei, Len(w)>>
              /\ {"pause_count", "short_juncture_count"} \subseteq DOMAIN e.pauses
              /\ e.pauses.pause_count \in Nat /\ e.pauses.short_juncture_count \in Nat
              /\ e.pauses.pause_count + e.pauses.short_juncture_count = Len(RunsOf(w))
              /\ e.pauses.longest_pauses_s = Longest(RunsOf(w))
<1> DEFINE frames == Frames(w)
           level == Column(frames, "db")
           silent == Silent(level)
           runs == SilenceRuns(silent)
           e == Extract(frames)
           n == Len(w)
<1>1. n \in Nat
  BY LenProperties
<1>2. Len(frames) = n
  <2>1. frames = [i \in 1..n |-> input[w[i]]]
    BY DEF Frames
  <2> HIDE DEF frames, n
  <2>2. QED
    BY <1>1, <2>1
<1> HIDE DEF frames, n
<1>3. Len(level) = n
  <2>1. level = [i \in 1..n |-> frames[i].db]
    BY <1>2 DEF Column
  <2> HIDE DEF level
  <2>2. QED
    BY <1>1, <2>1
<1> HIDE DEF level
<1>4. Len(silent) = n
  <2>1. silent = [i \in 1..n |-> level[i] * Threshold(level)[2] < Threshold(level)[1]]
    BY <1>3 DEF Silent
  <2> HIDE DEF silent
  <2>2. QED
    BY <1>1, <2>1
<1> HIDE DEF silent
<1>5. runs \in Seq(Nat) /\ \A i \in 1..Len(runs) : runs[i] >= Junction
  BY <1>1, <1>4, RunsAre
<1> HIDE DEF runs
<1>6. e = IF n < MinDuration THEN None
          ELSE [duration_s |-> n, pitch |-> Pitch(frames), rate |-> Rate(frames, silent, runs),
                pauses |-> Pauses(runs), energy |-> Energy(level)]
  BY <1>2 DEF Extract, level, silent, runs
<1>7. MinDuration \in Nat \ {0} /\ Junction \in Nat \ {0} /\ Pause \in Nat /\ Junction <= Pause
  BY ProsodyAssumption
<1> DEFINE m == [duration_s |-> n, pitch |-> Pitch(frames), rate |-> Rate(frames, silent, runs),
                pauses |-> Pauses(runs), energy |-> Energy(level)]
<1>8. m # None
  <2>1. "rate" \in DOMAIN m /\ "rate" \notin DOMAIN None
    BY DEF None
  <2> HIDE DEF m
  <2>2. QED
    BY <2>1
<1>9. e # None <=> n >= MinDuration
  <2> HIDE DEF m, e
  <2>1. e = IF n < MinDuration THEN None ELSE m
    BY <1>6 DEF m
  <2>2. QED
    BY <1>1, <1>7, <1>8, <2>1
<1>10. ASSUME e # None
       PROVE  e = m /\ n \in Nat \ {0}
  <2> HIDE DEF m, e
  <2>1. e = IF n < MinDuration THEN None ELSE m
    BY <1>6 DEF m
  <2>2. QED
    BY <1>1, <1>7, <1>9, <1>10, <2>1
<1>11. LET r == Rate(frames, silent, runs) IN
       "syllable_nuclei" \in DOMAIN r /\ r.syllable_nuclei \in Nat /\ r.speech_rate = <<r.syllable_nuclei, n>>
  <2> DEFINE nuclei == {i \in {j \in 1..n : frames[j].peak /\ ~silent[j]} : frames[i].f0 > 0}
             r == Rate(frames, silent, runs)
  <2>1. /\ "syllable_nuclei" \in DOMAIN r /\ r.syllable_nuclei = Cardinality(nuclei)
        /\ r.speech_rate = <<Cardinality(nuclei), n>>
    BY <1>2 DEF Rate
  <2>2. nuclei \in SUBSET (1..n)
    OBVIOUS
  <2> HIDE DEF nuclei, r
  <2>3. Cardinality(nuclei) \in Nat
    <3>1. IsFiniteSet(1..n)
      BY <1>1, FS_Interval
    <3>2. IsFiniteSet(nuclei)
      BY <2>2, <3>1, FS_Subset
    <3>3. QED
      BY <3>2, FS_CardinalityType
  <2>4. r.syllable_nuclei \in Nat /\ r.speech_rate = <<r.syllable_nuclei, n>>
    BY <2>1, <2>3
  <2>5. QED
    BY <2>1, <2>4 DEF r
<1>12. LET p == Pauses(runs) IN
       /\ {"pause_count", "short_juncture_count"} \subseteq DOMAIN p
       /\ p.pause_count \in Nat /\ p.short_juncture_count \in Nat
       /\ p.pause_count + p.short_juncture_count = Len(runs)
       /\ p.longest_pauses_s = Longest(runs)
  <2> DEFINE p == Pauses(runs)
             L == Len(runs)
             P == {i \in 1..L : runs[i] >= Pause}
             Q == {i \in 1..L : Junction <= runs[i] /\ runs[i] < Pause}
  <2>1. /\ {"pause_count", "short_juncture_count"} \subseteq DOMAIN p
        /\ p.pause_count = Cardinality(P) /\ p.short_juncture_count = Cardinality(Q)
        /\ p.longest_pauses_s = Longest(runs)
    BY DEF Pauses
  <2> HIDE DEF p
  <2>2. L \in Nat /\ \A i \in 1..L : runs[i] \in Nat /\ runs[i] >= Junction
    BY <1>5, LenProperties, ElementOfSeq
  <2> HIDE DEF L
  <2>3. P \cap Q = {} /\ P \union Q = 1..L /\ P \in SUBSET (1..L) /\ Q \in SUBSET (1..L)
    BY <1>7, <2>2
  <2> HIDE DEF P, Q
  <2>4. IsFiniteSet(1..L) /\ Cardinality(1..L) = L
    BY <2>2, FS_Interval
  <2>5. IsFiniteSet(P) /\ IsFiniteSet(Q)
    BY <2>3, <2>4, FS_Subset
  <2>6. Cardinality(P) \in Nat /\ Cardinality(Q) \in Nat
    BY <2>5, FS_CardinalityType
  <2>7. Cardinality(P \union Q) = Cardinality(P) + Cardinality(Q) - Cardinality(P \cap Q)
    BY <2>5, FS_Union
  <2>8. Cardinality(P \cap Q) = 0
    BY <2>3, FS_EmptySet
  <2>9. Cardinality(P) + Cardinality(Q) = L
    <3>1. Cardinality(P \union Q) = L
      BY <2>3, <2>4, Zenon
    <3>2. QED
      BY <2>6, <2>7, <2>8, <3>1
  <2>10. QED
    BY <2>1, <2>6, <2>9 DEF p, L
<1>13. RunsOf(w) = runs
  BY DEF RunsOf, runs, silent, level, frames
<1>14. Silent(Column(Frames(w), "db")) = silent
  BY DEF silent, level, frames
<1>15. ASSUME e # None
       PROVE  /\ e.duration_s = n /\ n \in Nat \ {0} /\ {"duration_s", "rate", "pauses"} \subseteq DOMAIN e
              /\ e.rate = Rate(frames, silent, runs) /\ e.pauses = Pauses(runs)
  BY <1>10, <1>15
<1>16. e = Extract(Frames(w)) /\ n = Len(w)
  BY DEF frames, n
<1> HIDE DEF e, m
<1>17. QED
  BY <1>1, <1>4, <1>5, <1>9, <1>11, <1>12, <1>13, <1>14, <1>15, <1>16

\* What is chosen of two sequences by one set of places belongs together.
LEMMA ChosenAlike ==
  ASSUME NEW V, NEW W, NEW s \in Seq(V), NEW t \in Seq(W), Len(s) = Len(t), NEW I, NEW R,
         \A i \in 1..Len(s) : i \in I => <<s[i], t[i]>> \in R
  PROVE  /\ Len(Chosen(s, I)) = Len(Chosen(t, I))
         /\ \A k \in 1..Len(Chosen(s, I)) : <<Chosen(s, I)[k], Chosen(t, I)[k]>> \in R
<1>1. PICK f : ChosenUpTo(s, I, V, f) /\ Chosen(s, I) = f[Len(s)]
  BY ChosenSteps
<1>2. PICK g : ChosenUpTo(t, I, W, g) /\ Chosen(t, I) = g[Len(t)]
  BY ChosenSteps
<1> DEFINE N == Len(s)
           Alike(x, y) == Len(x) = Len(y) /\ \A k \in 1..Len(x) : <<x[k], y[k]>> \in R
           T == {n \in 0..N : Alike(f[n], g[n])}
<1>3. N \in Nat /\ \A n \in 1..N : s[n] \in V /\ t[n] \in W
  BY LenProperties, ElementOfSeq
<1>4. /\ \A n \in 0..N : f[n] \in Seq(V) /\ g[n] \in Seq(W)
      /\ f[0] = <<>> /\ g[0] = <<>>
      /\ \A n \in 1..N : /\ f[n] = IF n \in I THEN Append(f[n - 1], s[n]) ELSE f[n - 1]
                         /\ g[n] = IF n \in I THEN Append(g[n - 1], t[n]) ELSE g[n - 1]
  BY <1>1, <1>2 DEF ChosenUpTo
<1>5. Len(t) = N /\ \A i \in 1..N : i \in I => <<s[i], t[i]>> \in R
  OBVIOUS
<1> HIDE DEF N
<1>6. 0 \in T
  <2>1. Len(<<>>) = 0
    BY EmptySeq
  <2>2. Alike(<<>>, <<>>)
    BY <2>1
  <2>3. Alike(f[0], g[0])
    BY <1>4, <2>2
  <2>4. 0 \in 0..N
    BY <1>3
  <2>5. QED
    BY <2>3, <2>4
<1>7. ASSUME NEW n \in Nat, n < N, n \in T
      PROVE  n + 1 \in T
  <2>1. n \in 0..N /\ n + 1 \in 1..N /\ n + 1 \in 0..N /\ (n + 1) - 1 = n
    BY <1>3, <1>7
  <2> DEFINE x == f[n]
             y == g[n]
             a == s[n + 1]
             b == t[n + 1]
  <2>2. /\ f[n + 1] = IF n + 1 \in I THEN Append(x, a) ELSE x
        /\ g[n + 1] = IF n + 1 \in I THEN Append(y, b) ELSE y
    BY <1>4, <2>1
  <2>3. x \in Seq(V) /\ y \in Seq(W) /\ a \in V /\ b \in W
    BY <1>3, <1>4, <2>1
  <2>4. Len(x) = Len(y) /\ \A k \in 1..Len(x) : <<x[k], y[k]>> \in R
    BY <1>7
  <2>5. n + 1 \in I => <<a, b>> \in R
    BY <1>5, <2>1
  <2> HIDE DEF x, y, a, b
  <2>6. CASE n + 1 \in I
    <3>1. PICK l \in Nat : l = Len(x) /\ l = Len(y)
      BY <2>3, <2>4, LenProperties
    <3> DEFINE u == Append(x, a)
               v == Append(y, b)
    <3>2. /\ Len(u) = l + 1 /\ Len(v) = l + 1
          /\ \A k \in 1..l : u[k] = x[k] /\ v[k] = y[k]
          /\ u[l + 1] = a /\ v[l + 1] = b
      <4>1. Len(u) = l + 1 /\ u[l + 1] = a /\ \A k \in 1..l : u[k] = x[k]
        <5>1. Len(u) = Len(x) + 1 /\ u[Len(x) + 1] = a /\ \A k \in 1..Len(x) : u[k] = x[k]
          BY <2>3, AppendProperties
        <5> HIDE DEF u
        <5>2. QED
          BY <3>1, <5>1
      <4>2. Len(v) = l + 1 /\ v[l + 1] = b /\ \A k \in 1..l : v[k] = y[k]
        BY <2>3, <3>1, AppendProperties
      <4> HIDE DEF u, v
      <4>3. QED
        BY <4>1, <4>2
    <3>3. \A k \in 1..(l + 1) : k \in 1..l \/ k = l + 1
      BY <3>1
    <3> HIDE DEF u, v
    <3>4. \A k \in 1..(l + 1) : <<u[k], v[k]>> \in R
      BY <2>4, <2>5, <2>6, <3>1, <3>2, <3>3
    <3>5. Alike(u, v)
      BY <3>2, <3>4
    <3>6. f[n + 1] = u /\ g[n + 1] = v
      BY <2>2, <2>6 DEF u, v
    <3>7. QED
      BY <2>1, <3>5, <3>6
  <2>7. CASE n + 1 \notin I
    <3>1. f[n + 1] = x /\ g[n + 1] = y
      BY <2>2, <2>7
    <3>2. Alike(x, y)
      BY <2>4
    <3>3. QED
      BY <2>1, <3>1, <3>2
  <2>8. QED
    BY <2>6, <2>7
<1>8. N \in T
  <2> HIDE DEF T
  <2>1. \A n \in 0..N : n \in T
    BY <1>3, <1>6, <1>7, UpTo
  <2>2. QED
    BY <1>3, <2>1
<1>9. QED
  BY <1>1, <1>2, <1>5, <1>8 DEF N

LEMMA SumOf ==
  ASSUME NEW v \in Seq(Nat), NEW ms, Len(ms) = Len(v), NEW key,
         \A i \in 1..Len(v) : key \in DOMAIN ms[i] /\ ms[i][key] = v[i]
  PROVE  Sum(ms, key) = Total(v)
<1> DEFINE n == Len(v)
           f == [i \in 1..n |-> Get(ms[i], key, 0)]
<1>1. n \in Nat /\ v = [i \in 1..n |-> v[i]]
  BY LenProperties
<1>2. \A i \in 1..n : Get(ms[i], key, 0) = v[i]
  BY DEF Get
<1>3. f = v
  BY <1>1, <1>2
<1> HIDE DEF f
<1>4. Sum(ms, key) = Total(f)
  BY DEF Sum, f
<1>5. QED
  BY <1>3, <1>4

\* Windows that were all measured: how long each is, what was heard in it, and
\* its silences.
Apart(n, heard, rr, dd, aa, pp, qq) ==
  /\ n \in Nat \ {0} /\ Len(heard) = n
  /\ rr \in Seq(Seq(Nat)) /\ Len(rr) = n
  /\ dd \in Seq(Nat) /\ Len(dd) = n /\ aa \in Seq(Nat) /\ Len(aa) = n
  /\ pp \in Seq(Nat) /\ Len(pp) = n /\ qq \in Seq(Nat) /\ Len(qq) = n
  /\ \A i \in 1..n :
       /\ "duration_s" \in DOMAIN heard[i] /\ heard[i].duration_s = dd[i] /\ dd[i] # 0
       /\ "syllable_nuclei" \in DOMAIN heard[i].rate /\ heard[i].rate.syllable_nuclei = aa[i]
       /\ "pause_count" \in DOMAIN heard[i].pauses /\ heard[i].pauses.pause_count = pp[i]
       /\ "short_juncture_count" \in DOMAIN heard[i].pauses /\ heard[i].pauses.short_juncture_count = qq[i]
       /\ pp[i] + qq[i] = Len(rr[i])
       /\ heard[i].pauses.longest_pauses_s = Longest(rr[i])

\* What is put together of them.
LEMMA AddedUp ==
  ASSUME NEW n, NEW heard, NEW rr, NEW dd, NEW aa, NEW pp, NEW qq, Apart(n, heard, rr, dd, aa, pp, qq)
  PROVE  LET dur == Sum(heard, "duration_s")
             rate == AggRate(heard, dur)
             pauses == AggPauses(heard)
             all == FlattenSeq(rr) IN
         /\ dur \in Nat \ {0}
         /\ pauses.pause_count + pauses.short_juncture_count = Len(all)
         /\ pauses.longest_pauses_s = Longest(all)
         /\ rate.speech_rate = <<rate.syllable_nuclei, dur>>
         /\ \E j, k \in 1..n : /\ aa[j] * dur <= rate.syllable_nuclei * dd[j]
                               /\ rate.syllable_nuclei * dd[k] <= aa[k] * dur
<1> DEFINE dur == Sum(heard, "duration_s")
           rates == Each(heard, "rate")
           paused == Each(heard, "pauses")
           rate == AggRate(heard, dur)
           pauses == AggPauses(heard)
           all == FlattenSeq(rr)
<1>0. /\ n \in Nat \ {0} /\ Len(heard) = n
      /\ rr \in Seq(Seq(Nat)) /\ Len(rr) = n
      /\ dd \in Seq(Nat) /\ Len(dd) = n /\ aa \in Seq(Nat) /\ Len(aa) = n
      /\ pp \in Seq(Nat) /\ Len(pp) = n /\ qq \in Seq(Nat) /\ Len(qq) = n
      /\ \A i \in 1..n :
           /\ "duration_s" \in DOMAIN heard[i] /\ heard[i].duration_s = dd[i] /\ dd[i] # 0
           /\ "syllable_nuclei" \in DOMAIN heard[i].rate /\ heard[i].rate.syllable_nuclei = aa[i]
           /\ "pause_count" \in DOMAIN heard[i].pauses /\ heard[i].pauses.pause_count = pp[i]
           /\ "short_juncture_count" \in DOMAIN heard[i].pauses /\ heard[i].pauses.short_juncture_count = qq[i]
           /\ pp[i] + qq[i] = Len(rr[i])
           /\ heard[i].pauses.longest_pauses_s = Longest(rr[i])
  BY DEF Apart
<1> USE <1>0
<1>1. \A i \in 1..n : rates[i] = heard[i].rate /\ paused[i] = heard[i].pauses
  BY DEF Each
<1>2. Len(rates) = n /\ Len(paused) = n
  <2>1. rates = [i \in 1..n |-> heard[i]["rate"]] /\ paused = [i \in 1..n |-> heard[i]["pauses"]]
    BY DEF Each
  <2> HIDE DEF rates, paused
  <2>2. QED
    BY <2>1
<1>3. dur = Total(dd)
  BY SumOf
<1>4. Sum(rates, "syllable_nuclei") = Total(aa)
  <2> HIDE DEF rates
  <2>1. \A i \in 1..n : "syllable_nuclei" \in DOMAIN rates[i] /\ rates[i]["syllable_nuclei"] = aa[i]
    BY <1>1
  <2>2. QED
    BY <1>2, <2>1, SumOf
<1>5. Sum(paused, "pause_count") = Total(pp) /\ Sum(paused, "short_juncture_count") = Total(qq)
  <2> HIDE DEF paused
  <2>1. \A i \in 1..n : "pause_count" \in DOMAIN paused[i] /\ paused[i]["pause_count"] = pp[i]
    BY <1>1
  <2>2. \A i \in 1..n : "short_juncture_count" \in DOMAIN paused[i] /\ paused[i]["short_juncture_count"] = qq[i]
    BY <1>1
  <2>3. QED
    BY <1>2, <2>1, <2>2, SumOf
<1>6. dur \in Nat \ {0}
  <2>1. Total(dd) \in Nat /\ \A i \in 1..Len(dd) : dd[i] <= Total(dd)
    BY TotalIs
  <2>2. 1 \in 1..n
    OBVIOUS
  <2>3. dd[1] \in Nat /\ dd[1] # 0 /\ dd[1] <= Total(dd)
    BY <2>1, <2>2, ElementOfSeq
  <2> HIDE DEF dur
  <2>4. QED
    BY <1>3, <2>1, <2>3
<1> HIDE DEF dur
<1>7. rate.syllable_nuclei = Total(aa) /\ rate.speech_rate = <<Total(aa), dur>>
  BY <1>4, <1>6 DEF AggRate
<1>8. pauses.pause_count + pauses.short_juncture_count = Len(all)
  <2> DEFINE ll == [i \in 1..Len(rr) |-> Len(rr[i])]
  <2>1. ll \in Seq(Nat) /\ Len(all) = Total(ll)
    BY FlattenedLen
  <2>2. Len(ll) = n /\ \A i \in 1..n : ll[i] = pp[i] + qq[i]
    OBVIOUS
  <2> HIDE DEF ll, all
  <2>3. Total(ll) = Total(pp) + Total(qq)
    <3>1. Len(pp) = Len(ll) /\ Len(qq) = Len(ll) /\ \A i \in 1..Len(ll) : ll[i] = pp[i] + qq[i]
      BY <2>2
    <3>2. QED
      BY <2>1, <3>1, TotalPlus
  <2>4. pauses.pause_count = Total(pp) /\ pauses.short_juncture_count = Total(qq)
    BY <1>5 DEF AggPauses
  <2> HIDE DEF pauses
  <2>5. QED
    BY <2>1, <2>3, <2>4
<1>9. pauses.longest_pauses_s = Longest(all)
  <2> DEFINE ls == [i \in 1..Len(rr) |-> Longest(rr[i])]
             es == Each(paused, "longest_pauses_s")
  <2>1. es = [i \in 1..n |-> paused[i].longest_pauses_s]
    <3>1. es = [i \in 1..Len(paused) |-> paused[i]["longest_pauses_s"]]
      BY DEF Each
    <3>2. QED
      BY <1>2, <3>1
  <2>2. es = ls
    <3>1. \A i \in 1..n : paused[i].longest_pauses_s = Longest(rr[i])
      BY <1>1
    <3> HIDE DEF paused, es
    <3>2. QED
      BY <2>1, <3>1
  <2>3. pauses.longest_pauses_s = Longest(FlattenSeq(es))
    BY DEF AggPauses
  <2>4. Longest(FlattenSeq(ls)) = Longest(all)
    BY LongestOfAll
  <2> HIDE DEF es, ls, pauses, all
  <2>5. QED
    BY <2>2, <2>3, <2>4
<1>10. \E j, k \in 1..n : aa[j] * Total(dd) <= Total(aa) * dd[j] /\ Total(aa) * dd[k] <= aa[k] * Total(dd)
  BY Mediant
<1> HIDE DEF rate, pauses, all
<1>11. /\ rate.speech_rate = <<rate.syllable_nuclei, dur>>
       /\ \E j, k \in 1..n : /\ aa[j] * dur <= rate.syllable_nuclei * dd[j]
                             /\ rate.syllable_nuclei * dd[k] <= aa[k] * dur
  BY <1>3, <1>7, <1>10
<1>12. QED
  BY <1>6, <1>8, <1>9, <1>11 DEF dur, rate, pauses, all

\* The windows that are long enough, and what is measured on each of them.
LEMMA HeardIs ==
  ASSUME InputType
  PROVE  LET lane == [k \in 1..Len(Windows) |-> Extract(Frames(Windows[k]))]
             heard == There(lane)
             long == Chosen(Windows, {k \in 1..Len(Windows) : Len(Windows[k]) >= MinDuration}) IN
         /\ long \in Seq(Seq(Int)) /\ Len(heard) = Len(long)
         /\ heard # <<>> => Len(heard) # 0
         /\ \A k \in 1..Len(long) : heard[k] = Extract(Frames(long[k])) /\ heard[k] # None
<1> DEFINE W == Windows
           n == Len(W)
           lane == [k \in 1..n |-> Extract(Frames(W[k]))]
           heard == There(lane)
           I == {k \in 1..n : Len(W[k]) >= MinDuration}
           J == {k \in 1..Len(lane) : lane[k] # None}
           V == {Extract(Frames(w)) : w \in Seq(Int)}
           R == {p \in Seq(Int) \X V : p[2] = Extract(Frames(p[1])) /\ p[2] # None}
           long == Chosen(W, I)
<1>1. W \in Seq(Seq(Int)) /\ n \in Nat /\ \A k \in 1..n : W[k] \in Seq(Int)
  BY WindowsAre, LenProperties, ElementOfSeq
<1> HIDE DEF W, n
<1>2. lane \in Seq(V) /\ Len(lane) = n /\ \A k \in 1..n : lane[k] = Extract(Frames(W[k])) /\ lane[k] \in V
  <2>1. lane \in [1..n -> V] /\ \A k \in 1..n : lane[k] = Extract(Frames(W[k]))
    BY <1>1
  <2> HIDE DEF lane, V
  <2>2. QED
    BY <1>1, <2>1, SeqDef, LenProperties
<1>3. heard = Chosen(lane, J)
  BY DEF There
<1> HIDE DEF lane, heard, V
<1>4. \A k \in 1..n : lane[k] # None <=> Len(W[k]) >= MinDuration
  <2>1. TAKE k \in 1..n
  <2> DEFINE w == W[k]
             e == Extract(Frames(w))
  <2>2. w \in Seq(Int)
    BY <1>1
  <2>3. e # None <=> Len(w) >= MinDuration
    <3> HIDE DEF w
    <3>1. QED
      BY <2>2, WindowMeasured
  <2>4. lane[k] = e
    BY <1>2
  <2>5. QED
    BY <2>3, <2>4
<1>5. I = J
  BY <1>2, <1>4
<1>6. \A k \in 1..Len(W) : k \in J => <<W[k], lane[k]>> \in R
  <2>1. \A k \in 1..n : W[k] \in Seq(Int) /\ lane[k] \in V /\ lane[k] = Extract(Frames(W[k]))
    BY <1>1, <1>2
  <2>2. \A k \in J : k \in 1..n /\ lane[k] # None
    BY <1>2
  <2> HIDE DEF J
  <2>3. QED
    BY <2>1, <2>2 DEF n
<1>7. Len(W) = Len(lane)
  BY <1>2 DEF n
<1> HIDE DEF I, J, R, long
<1>8. /\ Len(Chosen(W, J)) = Len(Chosen(lane, J))
      /\ \A k \in 1..Len(Chosen(W, J)) : <<Chosen(W, J)[k], Chosen(lane, J)[k]>> \in R
  BY <1>1, <1>2, <1>6, <1>7, ChosenAlike
<1>9. long = Chosen(W, J) /\ Chosen(W, J) \in Seq(Seq(Int))
  BY <1>1, <1>5, ChosenPicked DEF long
<1>10. \A k \in 1..Len(long) : <<long[k], heard[k]>> \in R
  BY <1>3, <1>8, <1>9
<1>11. /\ long \in Seq(Seq(Int)) /\ Len(heard) = Len(long)
       /\ \A k \in 1..Len(long) : heard[k] = Extract(Frames(long[k])) /\ heard[k] # None
  <2>1. \A k \in 1..Len(long) : heard[k] = Extract(Frames(long[k])) /\ heard[k] # None
    BY <1>10 DEF R
  <2>2. QED
    BY <1>3, <1>8, <1>9, <2>1
<1>12. heard # <<>> => Len(heard) # 0
  <2>1. heard \in Seq(V)
    BY <1>2, <1>3, ChosenPicked
  <2>2. QED
    BY <2>1, EmptySeq
<1>13. QED
  BY <1>11, <1>12 DEF long, heard, lane, I, n, W

\* The pauses of a turn and its rate are put together right, whatever was said:
\* _silence_runs finds every silence between sounding frames and no other, and
\* so does silence_run_positions; _agg_pauses counts as many as there are in the
\* windows that were measured and keeps the longest of all; and the rate that
\* _agg_rate works out anew lies between those of the windows.
THEOREM PausesAreAdded == MeasuresSpec => []PausesAddUp
<1>1. InputType => PausesAddUp
  <2> SUFFICES ASSUME InputType, kind = "voice" PROVE PausesAddUp
    BY DEF PausesAddUp
  <2> DEFINE lane == [k \in 1..Len(Windows) |-> Extract(Frames(Windows[k]))]
             heard == There(lane)
             vocal == AggVocal(lane)
             long == Chosen(Windows, {k \in 1..Len(Windows) : Len(Windows[k]) >= MinDuration})
             rr == [k \in 1..Len(long) |-> RunsOf(long[k])]
             n == Len(long)
             silent(k) == Silent(Column(Frames(long[k]), "db"))
             all == FlattenSeq(rr)
  <2>1. /\ long \in Seq(Seq(Int)) /\ Len(heard) = n
        /\ heard # <<>> => Len(heard) # 0
        /\ \A k \in 1..n : heard[k] = Extract(Frames(long[k])) /\ heard[k] # None
    BY HeardIs
  <2>2. vocal = IF heard = <<>> THEN None
                ELSE [windows |-> Len(heard), duration_s |-> Sum(heard, "duration_s"), pitch |-> AggPitch(heard),
                      rate |-> AggRate(heard, Sum(heard, "duration_s")), pauses |-> AggPauses(heard),
                      energy |-> AggEnergy(heard)]
    BY DEF AggVocal
  <2> HIDE DEF lane, heard, vocal, long
  <2>3. n \in Nat /\ \A k \in 1..n : long[k] \in Seq(Int)
    BY <2>1, LenProperties, ElementOfSeq
  <2>4. ASSUME NEW k \in 1..n
        PROVE  /\ Len(silent(k)) \in Nat /\ RunsOf(long[k]) \in Seq(Nat)
               /\ heard[k].duration_s = Len(long[k]) /\ Len(long[k]) \in Nat \ {0}
               /\ {"duration_s", "rate", "pauses"} \subseteq DOMAIN heard[k]
               /\ "syllable_nuclei" \in DOMAIN heard[k].rate /\ heard[k].rate.syllable_nuclei \in Nat
               /\ heard[k].rate.speech_rate = <<heard[k].rate.syllable_nuclei, Len(long[k])>>
               /\ {"pause_count", "short_juncture_count"} \subseteq DOMAIN heard[k].pauses
               /\ heard[k].pauses.pause_count \in Nat /\ heard[k].pauses.short_juncture_count \in Nat
               /\ heard[k].pauses.pause_count + heard[k].pauses.short_juncture_count = Len(RunsOf(long[k]))
               /\ heard[k].pauses.longest_pauses_s = Longest(RunsOf(long[k]))
    <3> DEFINE w == long[k]
    <3>1. w \in Seq(Int)
      BY <2>3
    <3>2. heard[k] = Extract(Frames(w)) /\ heard[k] # None
      BY <2>1
    <3> HIDE DEF w
    <3>3. /\ Len(Silent(Column(Frames(w), "db"))) \in Nat /\ RunsOf(w) \in Seq(Nat)
          /\ heard[k].duration_s = Len(w) /\ Len(w) \in Nat \ {0}
          /\ {"duration_s", "rate", "pauses"} \subseteq DOMAIN heard[k]
          /\ "syllable_nuclei" \in DOMAIN heard[k].rate /\ heard[k].rate.syllable_nuclei \in Nat
          /\ heard[k].rate.speech_rate = <<heard[k].rate.syllable_nuclei, Len(w)>>
          /\ {"pause_count", "short_juncture_count"} \subseteq DOMAIN heard[k].pauses
          /\ heard[k].pauses.pause_count \in Nat /\ heard[k].pauses.short_juncture_count \in Nat
          /\ heard[k].pauses.pause_count + heard[k].pauses.short_juncture_count = Len(RunsOf(w))
          /\ heard[k].pauses.longest_pauses_s = Longest(RunsOf(w))
      BY <3>1, <3>2, WindowMeasured
    <3>4. QED
      BY <3>3 DEF w
  <2>5. \A k \in 1..n :
          /\ Len(SilenceRuns(silent(k))) = Cardinality(InnerSilences(silent(k)))
          /\ {<<p[1] - 1, p[2] - p[1] + 1>> : p \in InnerSilences(silent(k))}
               = {<<Positions(silent(k))[i].at, Positions(silent(k))[i].len>> :
                    i \in {j \in 1..Len(Positions(silent(k))) : Positions(silent(k))[j].at > 0}}
    <3>1. TAKE k \in 1..n
    <3> DEFINE s == silent(k)
    <3>2. Len(s) \in Nat
      BY <2>4
    <3> HIDE DEF s
    <3>3. Len(SilenceRuns(s)) = Cardinality(InnerSilences(s))
      BY <3>2, RunsAre
    <3>4. {<<p[1] - 1, p[2] - p[1] + 1>> : p \in InnerSilences(s)}
            = {<<Positions(s)[i].at, Positions(s)[i].len>> : i \in {j \in 1..Len(Positions(s)) : Positions(s)[j].at > 0}}
      BY <3>2, PositionsAre
    <3>5. QED
      BY <3>3, <3>4 DEF s
  <2>6. ASSUME vocal # None
        PROVE  /\ vocal.pauses.pause_count + vocal.pauses.short_juncture_count = Len(all)
               /\ vocal.pauses.longest_pauses_s = Longest(all)
               /\ \E j, k \in 1..Len(heard) : /\ AtMost(heard[j].rate.speech_rate, vocal.rate.speech_rate)
                                              /\ AtMost(vocal.rate.speech_rate, heard[k].rate.speech_rate)
               /\ Same(vocal.rate.speech_rate, <<vocal.rate.syllable_nuclei, vocal.duration_s>>)
    <3> DEFINE dur == Sum(heard, "duration_s")
               rate == AggRate(heard, dur)
               pauses == AggPauses(heard)
               dd == [k \in 1..n |-> Len(long[k])]
               aa == [k \in 1..n |-> heard[k].rate.syllable_nuclei]
               pp == [k \in 1..n |-> heard[k].pauses.pause_count]
               qq == [k \in 1..n |-> heard[k].pauses.short_juncture_count]
    <3>1. heard # <<>>
      BY <2>2, <2>6
    <3>2. vocal.duration_s = dur /\ vocal.rate = rate /\ vocal.pauses = pauses
      BY <2>2, <3>1
    <3>3. n \in Nat \ {0}
      BY <2>1, <2>3, <3>1
    <3> HIDE DEF n
    <3>4. rr \in Seq(Seq(Nat)) /\ Len(rr) = n /\ \A k \in 1..n : rr[k] = RunsOf(long[k])
      <4>1. rr \in [1..n -> Seq(Nat)] /\ \A k \in 1..n : rr[k] = RunsOf(long[k])
        BY <2>4 DEF n
      <4> HIDE DEF rr
      <4>2. QED
        BY <2>3, <4>1, SeqDef, LenProperties
    <3>5. /\ dd \in Seq(Nat) /\ Len(dd) = n /\ aa \in Seq(Nat) /\ Len(aa) = n
          /\ pp \in Seq(Nat) /\ Len(pp) = n /\ qq \in Seq(Nat) /\ Len(qq) = n
      <4>1. dd \in [1..n -> Nat] /\ aa \in [1..n -> Nat] /\ pp \in [1..n -> Nat] /\ qq \in [1..n -> Nat]
        BY <2>4
      <4> HIDE DEF dd, aa, pp, qq
      <4>2. QED
        BY <2>3, <4>1, SeqDef, LenProperties
    <3>6. \A k \in 1..n : dd[k] = Len(long[k]) /\ aa[k] = heard[k].rate.syllable_nuclei
                          /\ pp[k] = heard[k].pauses.pause_count /\ qq[k] = heard[k].pauses.short_juncture_count
      OBVIOUS
    <3> HIDE DEF dd, aa, pp, qq, rr
    <3>7. \A i \in 1..n :
            /\ "duration_s" \in DOMAIN heard[i] /\ heard[i].duration_s = dd[i] /\ dd[i] # 0
            /\ "syllable_nuclei" \in DOMAIN heard[i].rate /\ heard[i].rate.syllable_nuclei = aa[i]
            /\ "pause_count" \in DOMAIN heard[i].pauses /\ heard[i].pauses.pause_count = pp[i]
            /\ "short_juncture_count" \in DOMAIN heard[i].pauses /\ heard[i].pauses.short_juncture_count = qq[i]
            /\ pp[i] + qq[i] = Len(rr[i])
            /\ heard[i].pauses.longest_pauses_s = Longest(rr[i])
      BY <2>4, <3>4, <3>6
    <3>8. /\ dur \in Nat \ {0}
          /\ pauses.pause_count + pauses.short_juncture_count = Len(all)
          /\ pauses.longest_pauses_s = Longest(all)
          /\ rate.speech_rate = <<rate.syllable_nuclei, dur>>
          /\ \E j, k \in 1..n : /\ aa[j] * dur <= rate.syllable_nuclei * dd[j]
                                /\ rate.syllable_nuclei * dd[k] <= aa[k] * dur
      <4>1. Len(heard) = n
        BY <2>1
      <4> HIDE DEF heard, n, rr, dd, aa, pp, qq
      <4>2. QED
        <5>1. Apart(n, heard, rr, dd, aa, pp, qq)
          BY <3>3, <3>4, <3>5, <3>7, <4>1 DEF Apart
        <5>2. QED
          BY <5>1, AddedUp
    <3>9. \A k \in 1..n : heard[k].rate.speech_rate = <<aa[k], dd[k]>>
      BY <2>4, <3>6
    <3> HIDE DEF dur, rate, pauses, all
    <3>10. \E j, k \in 1..n : /\ AtMost(heard[j].rate.speech_rate, rate.speech_rate)
                              /\ AtMost(rate.speech_rate, heard[k].rate.speech_rate)
      BY <3>8, <3>9 DEF AtMost
    <3>11. Same(rate.speech_rate, <<rate.syllable_nuclei, dur>>)
      BY <3>8 DEF Same
    <3>12. QED
      BY <2>1, <3>2, <3>8, <3>10, <3>11
  <2>7. QED
    BY <2>5, <2>6 DEF PausesAddUp, RunsOf, lane, heard, vocal, long, n
<1>2. QED
  BY <1>1, InputTyped, PTL
=============================================================================
