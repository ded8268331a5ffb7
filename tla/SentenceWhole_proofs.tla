------------------------ MODULE SentenceWhole_proofs ------------------------
(***************************************************************************)
(* What the sentence lane leaves out of the turn: nothing of it stays      *)
(* without an evaluation, nothing that was said without a place in the     *)
(* transcript, and the sentences lie where they were spoken.               *)
(***************************************************************************)
EXTENDS SentenceLane_proofs, NaturalsInduction, WellFoundedInduction

\* A nonempty set of naturals has a least element.
LEMMA LeastNatural ==
  ASSUME NEW S \in SUBSET Nat, S # {}
  PROVE  \E m \in S : \A k \in S : m <= k
<1>1. PICK R : /\ IsWellFoundedOn(R, Nat)
               /\ \A k, m \in Nat : k < m => <<k, m>> \in R
  <2>1. IsWellFoundedOn(OpToRel(<, Nat), Nat)
    BY NatLessThanWellFounded
  <2>2. \A k, m \in Nat : k < m => <<k, m>> \in OpToRel(<, Nat)
    BY DEF OpToRel
  <2>3. QED
    BY <2>1, <2>2, Zenon
<1>2. S \subseteq Nat /\ IsWellFoundedOn(R, Nat)
  BY <1>1
<1>3. PICK m \in S : \A k \in S : ~ (<<k, m>> \in R)
  BY <1>2, WFMin
<1>4. \A k \in S : k \in Nat /\ m \in Nat /\ ~ (k < m)
  BY <1>1, <1>2, <1>3
<1>5. QED
  BY <1>3, <1>4

\* What holds at a and passes from each number to the next holds up to b.
LEMMA UpTo ==
  ASSUME NEW S, NEW a \in Nat, NEW b \in Nat, a \in S,
         \A n \in Nat : a <= n /\ n < b /\ n \in S => n + 1 \in S
  PROVE  \A n \in a..b : n \in S
<1> DEFINE Bad == {n \in a..b : n \notin S}
<1>1. SUFFICES ASSUME Bad # {} PROVE FALSE
  OBVIOUS
<1>2. Bad \in SUBSET Nat
  OBVIOUS
<1>3. PICK m \in Bad : \A k \in Bad : m <= k
  BY <1>1, <1>2, LeastNatural
<1>4. m \in a..b /\ m \notin S /\ m # a
  BY <1>3
<1>5. m - 1 \in Nat /\ a <= m - 1 /\ m - 1 < b /\ m - 1 \in a..b /\ (m - 1) + 1 = m
  BY <1>4
<1>6. m - 1 \notin Bad
  BY <1>3, <1>5
<1>7. QED
  BY <1>4, <1>5, <1>6

-----------------------------------------------------------------------------
\* The gapless run of judged windows.  Evaluation windows have a length, and
\* no two begin at the same place.
Apart(es) ==
  /\ es \subseteq Window
  /\ \A e \in es : e.start < e.end
  /\ \A e, f \in es : e.start = f.start => e = f

\* The run goes on by a whole window, or not at all.
LEMMA OnwardFacts ==
  ASSUME NEW es, Apart(es), NEW t \in Nat
  PROVE  /\ Onward(es, t) \in Nat /\ t <= Onward(es, t)
         /\ \A e \in es : e.start = t => Onward(es, t) = e.end
         /\ (~\E e \in es : e.start = t) => Onward(es, t) = t
<1>1. CASE \E e \in es : e.start = t
  <2>1. PICK e \in es : e.start = t /\ e = CHOOSE f \in es : f.start = t
    BY <1>1
  <2>2. Onward(es, t) = e.end
    BY <1>1, <2>1 DEF Onward
  <2>3. QED
    BY <1>1, <2>1, <2>2 DEF Apart, Window
<1>2. CASE ~\E e \in es : e.start = t
  BY <1>2 DEF Onward
<1>3. QED
  BY <1>1, <1>2

\* The recursive function exists: what its equation says of it is true.
LEMMA ReachSteps ==
  ASSUME NEW es, IsFiniteSet(es)
  PROVE  /\ Cardinality(es) \in Nat
         /\ Reach(es)[0] = 0
         /\ \A n \in 1..Cardinality(es) : Reach(es)[n] = Onward(es, Reach(es)[n - 1])
<1> DEFINE F(f, k) == f = [n \in 0..k |-> IF n = 0 THEN 0 ELSE Onward(es, f[n - 1])]
           S == {k \in Nat : \E f : F(f, k)}
           K == Cardinality(es)
<1>1. K \in Nat
  BY FS_CardinalityType
<1>2. 0 \in S
  <2>1. F([n \in 0..0 |-> 0], 0)
    OBVIOUS
  <2>2. QED
    BY <2>1
<1>3. ASSUME NEW k \in Nat, k \in S
      PROVE  k + 1 \in S
  <2>1. PICK f : F(f, k)
    BY <1>3
  <2>2. f[0] = 0 /\ \A n \in 1..k : f[n] = Onward(es, f[n - 1])
    BY <2>1
  <2> DEFINE g == [n \in 0..(k + 1) |-> IF n = k + 1 THEN Onward(es, f[k]) ELSE f[n]]
  <2>3. ASSUME NEW n \in 0..(k + 1)
        PROVE  g[n] = IF n = 0 THEN 0 ELSE Onward(es, g[n - 1])
    <3>1. CASE n = 0
      BY <2>2, <3>1
    <3>2. CASE n \in 1..k
      <4>1. g[n] = f[n] /\ g[n - 1] = f[n - 1] /\ n # 0
        BY <3>2
      <4>2. QED
        BY <2>2, <3>2, <4>1
    <3>3. CASE n = k + 1
      <4>1. g[n] = Onward(es, f[k]) /\ g[n - 1] = f[k] /\ n # 0
        BY <3>3
      <4>2. QED
        BY <4>1
    <3>4. QED
      BY <3>1, <3>2, <3>3
  <2>4. F(g, k + 1)
    BY <2>3
  <2> HIDE DEF F, g
  <2>5. \E h : F(h, k + 1)
    BY <2>4
  <2>6. QED
    BY <2>5
<1>4. K \in S
  <2> HIDE DEF S
  <2>1. \A n \in 0..K : n \in S
    BY <1>1, <1>2, <1>3, UpTo
  <2>2. QED
    BY <1>1, <2>1
<1>5. Reach(es) = CHOOSE f : F(f, K)
  BY DEF Reach
<1>6. F(Reach(es), K)
  <2>1. \E f : F(f, K)
    BY <1>4
  <2> HIDE DEF F
  <2>2. QED
    BY <1>5, <2>1
<1>7. QED
  BY <1>1, <1>6

\* All of the turn up to a place the run reaches is judged.
LEMMA ReachWhole ==
  ASSUME NEW es, Apart(es), IsFiniteSet(es)
  PROVE  \A n \in 0..Cardinality(es) :
           /\ Reach(es)[n] \in Nat
           /\ \A t \in Nat : t < Reach(es)[n] => \E e \in es : e.start <= t /\ t < e.end
<1> DEFINE K == Cardinality(es)
           Whole(c) == c \in Nat /\ \A t \in Nat : t < c => \E e \in es : e.start <= t /\ t < e.end
           S == {n \in 0..K : Whole(Reach(es)[n])}
<1>1. /\ K \in Nat /\ Reach(es)[0] = 0
      /\ \A n \in 1..K : Reach(es)[n] = Onward(es, Reach(es)[n - 1])
  BY ReachSteps
<1>2. 0 \in S
  BY <1>1
<1>3. ASSUME NEW n \in Nat, n < K, n \in S
      PROVE  n + 1 \in S
  <2> DEFINE c == Reach(es)[n]
  <2>1. n + 1 \in 1..K /\ (n + 1) - 1 = n /\ Whole(c)
    BY <1>1, <1>3
  <2>2. Reach(es)[n + 1] = Onward(es, c)
    BY <1>1, <2>1
  <2> HIDE DEF c
  <2>3. Onward(es, c) \in Nat /\ c \in Nat
    BY <2>1, OnwardFacts
  <2>4. CASE \E e \in es : e.start = c
    <3>1. PICK e \in es : e.start = c
      BY <2>4
    <3>2. Onward(es, c) = e.end
      BY <2>3, <3>1, OnwardFacts
    <3>3. \A t \in Nat : t < e.end => t < c \/ (e.start <= t /\ t < e.end)
      BY <2>3, <3>1
    <3>4. Whole(Onward(es, c))
      BY <2>1, <2>3, <3>2, <3>3
    <3>5. QED
      BY <2>1, <2>2, <3>4
  <2>5. CASE ~\E e \in es : e.start = c
    <3>1. Onward(es, c) = c
      BY <2>3, <2>5, OnwardFacts
    <3>2. QED
      BY <2>1, <2>2, <3>1
  <2>6. QED
    BY <2>4, <2>5
<1>4. \A n \in 0..K : n \in S
  <2> HIDE DEF S
  <2>1. \A n \in Nat : 0 <= n /\ n < K /\ n \in S => n + 1 \in S
    BY <1>3
  <2>2. QED
    BY <1>1, <1>2, <2>1, UpTo
<1>5. QED
  BY <1>4

\* Where more windows are judged the run reaches as far.
LEMMA ReachGrows ==
  ASSUME NEW es, NEW fs, Apart(fs), IsFiniteSet(fs), es \subseteq fs
  PROVE  Reach(es)[Cardinality(es)] <= Reach(fs)[Cardinality(fs)]
<1> DEFINE K == Cardinality(es)
           M == Cardinality(fs)
           r == Reach(es)
           q == Reach(fs)
           S == {n \in 0..K : r[n] <= q[n] /\ (r[n] = q[n] \/ ~\E e \in es : e.start = r[n])}
           T == {n \in K..M : q[K] <= q[n]}
<1>1. IsFiniteSet(es) /\ Apart(es) /\ K \in Nat /\ M \in Nat /\ K <= M
  BY FS_Subset, FS_CardinalityType DEF Apart
<1>2. /\ r[0] = 0 /\ \A n \in 1..K : r[n] = Onward(es, r[n - 1])
      /\ q[0] = 0 /\ \A n \in 1..M : q[n] = Onward(fs, q[n - 1])
  BY <1>1, ReachSteps
<1>3. /\ \A n \in 0..K : r[n] \in Nat
      /\ \A n \in 0..M : q[n] \in Nat
  BY <1>1, ReachWhole
<1> HIDE DEF K, M, r, q
<1>4. 0 \in S
  BY <1>1, <1>2
<1>5. ASSUME NEW n \in Nat, n < K, n \in S
      PROVE  n + 1 \in S
  <2>1. /\ n + 1 \in 0..K /\ n + 1 \in 1..K /\ n + 1 \in 1..M /\ (n + 1) - 1 = n
        /\ n \in 0..K /\ n \in 0..M
    BY <1>1, <1>5
  <2>2. PICK c, d : c = r[n] /\ d = q[n]
    OBVIOUS
  <2>3. /\ r[n + 1] = Onward(es, c) /\ q[n + 1] = Onward(fs, d)
        /\ c \in Nat /\ d \in Nat /\ c <= d
        /\ c = d \/ ~\E e \in es : e.start = c
    BY <1>2, <1>3, <1>5, <2>1, <2>2
  <2>4. CASE \E e \in es : e.start = c
    <3>1. PICK e \in es : e.start = c
      BY <2>4
    <3>2. Onward(es, c) = e.end /\ Onward(fs, c) = e.end /\ c = d /\ e.end \in Nat
      BY <1>1, <2>3, <3>1, OnwardFacts
    <3>3. r[n + 1] = q[n + 1] /\ r[n + 1] \in Nat
      BY <2>3, <3>2
    <3>4. QED
      BY <2>1, <3>3
  <2>5. CASE ~\E e \in es : e.start = c
    <3>1. Onward(es, c) = c
      BY <1>1, <2>3, <2>5, OnwardFacts
    <3>2. d <= Onward(fs, d) /\ Onward(fs, d) \in Nat
      BY <2>3, OnwardFacts
    <3>3. r[n + 1] = c /\ r[n + 1] <= q[n + 1]
      BY <2>3, <3>1, <3>2
    <3>4. QED
      BY <2>1, <2>5, <3>3
  <2>6. QED
    BY <2>4, <2>5
<1>6. K \in S
  <2> HIDE DEF S
  <2>1. \A n \in Nat : 0 <= n /\ n < K /\ n \in S => n + 1 \in S
    BY <1>5
  <2>2. \A n \in 0..K : n \in S
    BY <1>1, <1>4, <2>1, UpTo
  <2>3. QED
    BY <1>1, <2>2
<1>7. K \in T
  BY <1>1, <1>3
<1>8. ASSUME NEW n \in Nat, K <= n, n < M, n \in T
      PROVE  n + 1 \in T
  <2>1. n + 1 \in K..M /\ n + 1 \in 1..M /\ (n + 1) - 1 = n /\ n \in 0..M /\ K \in 0..M
    BY <1>1, <1>8
  <2>2. q[n] \in Nat /\ q[K] \in Nat /\ q[n + 1] = Onward(fs, q[n])
    BY <1>2, <1>3, <2>1
  <2>3. q[n] <= q[n + 1] /\ q[n + 1] \in Nat
    BY <2>2, OnwardFacts
  <2>4. QED
    BY <1>8, <2>1, <2>2, <2>3
<1>9. M \in T
  <2> HIDE DEF T
  <2>1. \A n \in K..M : n \in T
    BY <1>1, <1>7, <1>8, UpTo
  <2>2. QED
    BY <1>1, <2>1
<1>10. K \in 0..K /\ K \in 0..M /\ M \in 0..M
  BY <1>1
<1>11. r[K] \in Nat /\ q[K] \in Nat /\ q[M] \in Nat /\ r[K] <= q[K] /\ q[K] <= q[M]
  BY <1>3, <1>6, <1>9, <1>10
<1>12. QED
  BY <1>11 DEF K, M, r, q

-----------------------------------------------------------------------------
\* The evaluation windows are cut one behind the other, and what end_turn
\* took for its tail began where the run then ended.
WholeInv ==
  /\ Apart(evals) /\ IsFiniteSet(evals) /\ anchor \in Nat
  /\ \A e \in evals : e.end <= anchor
  /\ ended => \E c \in Nat :
       /\ c <= CoveredUntil
       /\ tail \in Tails(c)

\* The judged windows are some of the windows.
LEMMA JudgedFacts ==
  ASSUME Apart(evals), IsFiniteSet(evals)
  PROVE  Apart(Judged) /\ IsFiniteSet(Judged) /\ CoveredUntil \in Nat
<1>1. Judged \subseteq evals
  BY DEF Judged
<1>2. Apart(Judged) /\ IsFiniteSet(Judged)
  BY <1>1, FS_Subset DEF Apart
<1>3. Cardinality(Judged) \in 0..Cardinality(Judged)
  BY <1>2, FS_CardinalityType
<1>4. QED
  BY <1>2, <1>3, ReachWhole DEF CoveredUntil

\* A window more, behind all others.
LEMMA ApartSubmit ==
  ASSUME WholeInv, NEW b \in Nat, NEW new, NEW a \in Nat, Chain(new, a, b),
         Submit(new, TRUE) \/ Submit(new, FALSE), ended' = ended, ~ended
  PROVE  WholeInv'
<1>1. CASE evals' = evals /\ anchor' = anchor
  BY <1>1 DEF WholeInv
<1>2. CASE /\ b - anchor > 0 /\ anchor' = b
           /\ \E st \in {"running", "gated"} :
                evals' = evals \union {[start |-> anchor, end |-> b, st |-> st]}
  <2>1. PICK st \in {"running", "gated"} :
          evals' = evals \union {[start |-> anchor, end |-> b, st |-> st]}
    BY <1>2
  <2> DEFINE e == [start |-> anchor, end |-> b, st |-> st]
  <2>2. e \in Window /\ e.start = anchor /\ e.end = b /\ anchor < b /\ anchor \in Nat
    BY <1>2 DEF WholeInv, Window
  <2>3. evals' = evals \union {e}
    BY <2>1
  <2> HIDE DEF e
  <2>4. \A f \in evals : f.start < f.end /\ f.end <= anchor /\ f.start \in Nat /\ f.end \in Nat
    BY DEF WholeInv, Apart, Window
  <2>5. \A f \in evals : f.start # anchor /\ f.end <= b
    BY <2>2, <2>4
  <2>6. Apart(evals')
    BY <2>2, <2>3, <2>5 DEF WholeInv, Apart
  <2>7. IsFiniteSet(evals')
    BY <2>3, FS_AddElement DEF WholeInv
  <2>8. \A f \in evals' : f.end <= anchor'
    BY <1>2, <2>2, <2>3, <2>5
  <2>9. QED
    BY <1>2, <2>6, <2>7, <2>8 DEF WholeInv
<1>3. EvalEnd(new) = b
  BY EvalEndIs
<1>4. QED
  BY <1>1, <1>2, <1>3 DEF Submit, SubmitEval

-----------------------------------------------------------------------------
\* One call of _submit_sentences: the sentences of one text, from the boundary
\* to b.
Call(new, b, text, of, source, allowEval) ==
  /\ b \in Nat /\ text \in Texts /\ Chain(new, segStart, b)
  /\ \A i \in 1..Len(new) :
       /\ new[i].text = text /\ new[i].em = Len(sents)
       /\ new[i].of = of /\ new[i].source = source
  /\ Submit(new, allowEval)
  /\ segStart' = b

LEMMA EmissionsCall ==
  ASSUME segStart \in Nat, sents \in Seq(Sentence), NEW b \in Nat, segStart' = b,
         NEW text \in Texts, NEW of \in Keys,
         NEW source \in {"punct", "utterance", "timeout", "flush"}, NEW allowEval,
         NEW new \in Emissions(segStart, b, text, of, source), Submit(new, allowEval)
  PROVE  Call(new, b, text, of, source, allowEval)
<1>1. /\ Chain(new, segStart, b)
      /\ \A i \in 1..Len(new) : new[i].text = text /\ new[i].em = Len(sents)
  BY EmissionsChain
<1>2. \A i \in DOMAIN new : new[i].of = of /\ new[i].source = source
  BY DEF Emissions, Pieces
<1>3. DOMAIN new = 1..Len(new)
  BY <1>1, LenProperties DEF Chain
<1>4. QED
  BY <1>1, <1>2, <1>3 DEF Call

\* A completed utterance: its sentences, if any, end where it is heard to end.
LEMMA CompleteCall ==
  ASSUME HeldInv, OrderInv, NEW u \in Utt, NEW id \in {u, NoItem}, NEW whole \in BOOLEAN,
         Complete(u, id, whole)
  PROVE  \E x \in Snap(IF stoppedAt # Never THEN stoppedAt ELSE now) :
           /\ segStart' = Max2(x, segStart + MinSentence) /\ segStart' \in Nat /\ x \in Nat
           /\ \/ UNCHANGED lane
              \/ \E new, source :
                   /\ source \in {"punct", "utterance"}
                   /\ Call(new, segStart', TakeText(u, id, whole), u, source, TRUE)
<1> DEFINE from == IF stoppedAt # Never THEN stoppedAt ELSE now
           text == TakeText(u, id, whole)
<1>1. segStart \in Nat /\ from \in Nat /\ sents \in Seq(Sentence) /\ u \in Keys
  BY DEF OrderInv, Placed, Keys
<1>2. text \in Texts
  BY TakenKeyType DEF HeldInv, TakeText, Texts
<1> HIDE DEF from, text
<1>3. PICK x \in Snap(from) :
        LET end == Max2(x, segStart + MinSentence) IN
        /\ segStart' = end
        /\ \/ \E new \in Emissions(segStart, end, text, u, "punct") : Submit(new, TRUE)
           \/ text = NoText /\ Submit(Pieces(<<segStart, end>>, NoText, u, "utterance"), TRUE)
           \/ UNCHANGED lane
  BY DEF Complete, from, text
<1>4. x \in Nat /\ segStart' = Max2(x, segStart + MinSentence) /\ segStart' \in Nat
      /\ segStart <= segStart'
  BY <1>1, <1>3, SnapType, BoundaryMoves
<1>5. PICK end \in Nat : end = segStart'
  BY <1>4
<1>6. ASSUME NEW new \in Emissions(segStart, end, text, u, "punct"), Submit(new, TRUE)
      PROVE  Call(new, segStart', text, u, "punct", TRUE)
  BY <1>1, <1>2, <1>5, <1>6, EmissionsCall
<1>7. ASSUME text = NoText, Submit(Pieces(<<segStart, end>>, NoText, u, "utterance"), TRUE)
      PROVE  Call(Pieces(<<segStart, end>>, NoText, u, "utterance"), segStart', text, u,
                  "utterance", TRUE)
  <2> DEFINE new == Pieces(<<segStart, end>>, NoText, u, "utterance")
  <2>1. Chain(new, segStart, end) /\ \A i \in 1..Len(new) : new[i].text = NoText
    BY <1>1, <1>4, <1>5, UtteranceChain
  <2>2. \A i \in DOMAIN new : new[i].em = Len(sents) /\ new[i].of = u /\ new[i].source = "utterance"
    BY DEF Pieces
  <2> HIDE DEF new
  <2>3. DOMAIN new = 1..Len(new)
    BY <2>1, LenProperties DEF Chain
  <2>4. Submit(new, TRUE)
    BY <1>7 DEF new
  <2>5. Call(new, segStart', text, u, "utterance", TRUE)
    BY <1>2, <1>5, <1>7, <2>1, <2>2, <2>3, <2>4 DEF Call
  <2>6. QED
    BY <2>5 DEF new
<1>8. \/ UNCHANGED lane
      \/ \E new, source :
           source \in {"punct", "utterance"} /\ Call(new, segStart', text, u, source, TRUE)
  BY <1>3, <1>4, <1>5, <1>6, <1>7
<1>9. QED
  BY <1>3, <1>4, <1>8 DEF from, text

\* A timeout: one sentence or more of all that is held, up to the clock.
LEMMA TickCall ==
  ASSUME HeldInv, OrderInv, TimeoutTick
  PROVE  \E x \in Snap(now) :
           /\ x \in Nat /\ segStart' = Max2(x, segStart + MinSentence)
           /\ \E new :
                Call(new, segStart', [deltas |-> Held, whole |-> {}], NoItem, "timeout", TRUE)
<1>1. /\ now \in Nat /\ segStart \in Nat /\ sents \in Seq(Sentence) /\ NoItem \in Keys
      /\ [deltas |-> Held, whole |-> {}] \in Texts
  BY HeldText DEF HeldInv, OrderInv, Placed, Keys
<1>2. PICK x \in Snap(now) : ForceEnd(Max2(x, segStart + MinSentence))
  BY DEF TimeoutTick
<1>3. x \in Nat /\ Max2(x, segStart + MinSentence) \in Nat
  BY <1>1, SnapType, BoundaryMoves
<1>4. PICK b \in Nat : b = Max2(x, segStart + MinSentence)
  BY <1>3
<1>5. /\ segStart' = b
      /\ \E new \in Emissions(segStart, b, [deltas |-> Held, whole |-> {}], NoItem, "timeout") :
           Submit(new, TRUE)
  BY <1>2, <1>4 DEF ForceEnd
<1>6. PICK new \in Emissions(segStart, b, [deltas |-> Held, whole |-> {}], NoItem, "timeout") :
        Submit(new, TRUE)
  BY <1>5
<1>7. Call(new, b, [deltas |-> Held, whole |-> {}], NoItem, "timeout", TRUE)
  BY <1>1, <1>5, <1>6, EmissionsCall
<1>8. QED
  BY <1>3, <1>4, <1>5, <1>7

\* The end of the turn: what is held, up to the clock, and no evaluation.
LEMMA FlushCall ==
  ASSUME HeldInv, OrderInv, Flush
  PROVE  \/ Held = {} /\ UNCHANGED <<items, order, segStart, lane>>
         \/ /\ DropAll /\ segStart' = Max2(now, segStart + MinSentence)
            /\ \E new :
                 Call(new, segStart', [deltas |-> Held, whole |-> {}], NoItem, "flush", FALSE)
<1>1. /\ now \in Nat /\ segStart \in Nat /\ sents \in Seq(Sentence) /\ NoItem \in Keys
      /\ [deltas |-> Held, whole |-> {}] \in Texts
  BY HeldText DEF HeldInv, OrderInv, Placed, Keys
<1>2. CASE ~(Held = {} /\ UNCHANGED <<items, order, segStart, lane>>)
  <2>1. PICK b \in Nat : b = segStart'
    BY <1>1, <1>2, BoundaryMoves DEF Flush
  <2>2. PICK new \in Emissions(segStart, b, [deltas |-> Held, whole |-> {}], NoItem, "flush") :
          Submit(new, FALSE)
    BY <1>2, <2>1 DEF Flush
  <2>3. Call(new, b, [deltas |-> Held, whole |-> {}], NoItem, "flush", FALSE)
    BY <1>1, <2>1, <2>2, EmissionsCall
  <2>4. QED
    BY <1>2, <2>1, <2>3 DEF Flush
<1>3. QED
  BY <1>2

-----------------------------------------------------------------------------
\* Every action keeps what is judged and the tail together.
LEMMA WholeStep ==
  ASSUME HeldInv, OrderInv, WholeInv, [LaneNext]_xvars
  PROVE  WholeInv'
<1>0. segStart \in Nat
  BY DEF OrderInv, Placed
<1>1. ASSUME UNCHANGED <<evals, anchor, tail, ended>>, now' = now \/ ~ended
      PROVE  WholeInv'
  BY <1>1 DEF WholeInv, CoveredUntil, Judged, Tails, HadMedia
<1>2. CASE Clock \/ UNCHANGED xvars
  BY <1>1, <1>2 DEF Clock, xvars, tracker, lane, service
<1>3. ASSUME NEW e \in evals, NEW st \in {"ok", "failed"}, EvalDone(e, st)
      PROVE  WholeInv'
  <2> DEFINE f == [e EXCEPT !.st = st]
  <2>1. /\ e \in Window /\ f \in Window /\ f.start = e.start /\ f.end = e.end /\ f.st = st
        /\ e.st = "running"
        /\ evals' = (evals \ {e}) \union {f}
        /\ anchor' = anchor /\ tail' = tail /\ ended' = ended /\ now' = now
    BY <1>3 DEF EvalDone, WholeInv, Apart, Window
  <2> HIDE DEF f
  <2>2. Apart(evals') /\ \A g \in evals' : g.end <= anchor
    BY <2>1 DEF WholeInv, Apart
  <2>3. IsFiniteSet(evals')
    BY <2>1, FS_RemoveElement, FS_AddElement DEF WholeInv
  <2>4. Judged \subseteq Judged'
    BY <2>1 DEF Judged
  <2>5. PICK fs : fs = Judged'
    OBVIOUS
  <2>6. Judged' \subseteq evals'
    BY DEF Judged
  <2>7. Apart(fs) /\ IsFiniteSet(fs)
    BY <2>2, <2>3, <2>5, <2>6, FS_Subset DEF Apart
  <2>8. CoveredUntil <= CoveredUntil'
    BY <2>4, <2>5, <2>7, ReachGrows DEF CoveredUntil
  <2>9. CoveredUntil \in Nat /\ CoveredUntil' \in Nat
    <3>1. CoveredUntil' = Reach(fs)[Cardinality(fs)]
      BY <2>5 DEF CoveredUntil
    <3>2. Cardinality(fs) \in 0..Cardinality(fs)
      BY <2>7, FS_CardinalityType
    <3>3. QED
      BY <2>7, <3>1, <3>2, ReachWhole, JudgedFacts DEF WholeInv
  <2>10. ASSUME NEW c \in Nat
         PROVE  Tails(c)' = Tails(c)
    <3>1. \A g \in evals : g.st # "gated" => \E h \in evals' : h.st # "gated" /\ h.start = g.start /\ h.end = g.end
      BY <2>1
    <3>2. \A h \in evals' : h.st # "gated" => \E g \in evals : g.st # "gated" /\ h.start = g.start /\ h.end = g.end
      BY <2>1
    <3>3. HadMedia(c)' <=> HadMedia(c)
      BY <2>1, <3>1, <3>2 DEF HadMedia
    <3>4. QED
      BY <2>1, <3>3 DEF Tails
  <2>11. ASSUME ended
         PROVE  \E c \in Nat : c <= CoveredUntil' /\ tail' \in Tails(c)'
    <3>1. PICK c \in Nat : c <= CoveredUntil /\ tail \in Tails(c)
      BY <2>11 DEF WholeInv
    <3>2. c <= CoveredUntil'
      BY <2>8, <2>9, <3>1
    <3>3. tail' \in Tails(c)'
      BY <2>1, <2>10, <3>1
    <3>4. QED
      BY <3>2, <3>3
  <2>12. QED
    BY <2>1, <2>2, <2>3, <2>11 DEF WholeInv
<1>4. ASSUME NEW u \in Utt, Speak(u) \/ Stop(u) \/ Lose(u)
      PROVE  WholeInv'
  BY <1>1, <1>4 DEF Speak, Stop, Lose, lane
<1>5. ASSUME NEW u \in Utt, NEW id \in {u, NoItem}, Accumulate(u, id)
      PROVE  WholeInv'
  BY <1>1, <1>5 DEF Accumulate, lane
<1>6. ASSUME NEW u \in Utt, NEW id \in {u, NoItem}, NEW whole \in BOOLEAN, Complete(u, id, whole)
      PROVE  WholeInv'
  <2>1. ~ended /\ ended' = ended /\ tail' = tail
    BY <1>6 DEF Complete
  <2>2. CASE UNCHANGED lane
    BY <1>1, <2>1, <2>2 DEF lane
  <2>3. ASSUME NEW new, NEW source, NEW text, Call(new, segStart', text, u, source, TRUE)
        PROVE  WholeInv'
    BY <1>0, <2>1, <2>3, ApartSubmit DEF Call
  <2>4. QED
    BY <1>6, <2>2, <2>3, CompleteCall
<1>7. CASE TimeoutTick
  <2>1. ~ended /\ ended' = ended
    BY <1>7 DEF TimeoutTick
  <2>2. ASSUME NEW new, NEW text, Call(new, segStart', text, NoItem, "timeout", TRUE)
        PROVE  WholeInv'
    BY <1>0, <2>1, <2>2, ApartSubmit DEF Call
  <2>3. QED
    BY <1>7, <2>2, TickCall
<1>8. CASE EndTurn
  <2>1. evals' = evals /\ anchor' = anchor
    BY <1>8 DEF EndTurn, Flush, Submit, lane
  <2>2. CoveredUntil' = CoveredUntil /\ CoveredUntil \in Nat
    BY <2>1, JudgedFacts DEF WholeInv, CoveredUntil, Judged
  <2>3. now' = now /\ tail' \in Tails(CoveredUntil)
    BY <1>8 DEF EndTurn
  <2>4. PICK c \in Nat : c = CoveredUntil
    BY <2>2
  <2>5. Tails(c)' = Tails(c)
    BY <2>1, <2>3 DEF Tails, HadMedia
  <2>6. c <= CoveredUntil' /\ tail' \in Tails(c)'
    BY <2>2, <2>3, <2>4, <2>5
  <2>7. QED
    BY <2>1, <2>6 DEF WholeInv
<1>9. QED
  BY <1>2, <1>3, <1>4, <1>5, <1>6, <1>7, <1>8 DEF LaneNext

\* Nothing is cut and nothing judged in the beginning.
LEMMA WholeInit == LaneInit => WholeInv
BY FS_EmptySet DEF LaneInit, WholeInv, Apart

\* Whichever evaluations fail or are still running at the end, and whatever they
\* judge later, what the judged windows leave out of the turn is in the tail, but
\* for MinTail at the end; the tail is submitted if it holds a window that was;
\* and no window cuts a sentence.
THEOREM WholeCorrect == LaneSpec => []EvaluationsWhole
<1>1. LaneSpec => []WholeInv
  BY HeldCorrect, OrderCorrect, WholeInit, WholeStep, PTL DEF LaneSpec
<1>2. OrderInv /\ WholeInv => NothingUnjudged
  <2> SUFFICES ASSUME OrderInv, WholeInv, ended, NEW t \in 0..(now - 1)
               PROVE  \/ \E e \in Judged : e.start <= t /\ t < e.end
                      \/ \E s \in tail : /\ s.start <= t /\ t < s.end
                                         /\ s.st = "running" \/ ~HadMedia(s.start)
                      \/ now - CoveredUntil <= MinTail /\ CoveredUntil <= t
    BY DEF NothingUnjudged
  <2>1. now \in Nat /\ MinTail \in Nat /\ t \in Nat /\ t < now
    BY SentenceAssumption DEF OrderInv, Placed
  <2>2. PICK c \in Nat : c <= CoveredUntil /\ tail \in Tails(c)
    BY DEF WholeInv
  <2>3. CoveredUntil \in Nat
    BY JudgedFacts DEF WholeInv
  <2>4. CASE t < CoveredUntil
    <3>1. Apart(Judged) /\ IsFiniteSet(Judged)
      BY JudgedFacts DEF WholeInv
    <3>2. Cardinality(Judged) \in 0..Cardinality(Judged)
      BY <3>1, FS_CardinalityType
    <3>3. QED
      BY <2>1, <2>4, <3>1, <3>2, ReachWhole DEF CoveredUntil
  <2>5. CASE ~(t < CoveredUntil) /\ (c = 0 \/ now - c > MinTail)
    <3>1. c <= t /\ t < now /\ now > c
      BY <2>1, <2>2, <2>3, <2>5
    <3>2. PICK st \in {"running"} \union (IF HadMedia(c) THEN {} ELSE {"gated"}) :
            tail = {[start |-> c, end |-> now, st |-> st]}
      BY <2>2, <2>5, <3>1 DEF Tails
    <3>3. st = "running" \/ ~HadMedia(c)
      BY <3>2
    <3>4. QED
      BY <3>1, <3>2, <3>3
  <2>6. CASE ~(t < CoveredUntil) /\ ~(c = 0 \/ now - c > MinTail)
    BY <2>1, <2>2, <2>3, <2>6
  <2>7. QED
    BY <2>4, <2>5, <2>6
<1>3. OrderInv /\ WholeInv => EvaluationsWhole
  BY <1>2 DEF EvaluationsWhole, NoSentenceCut, OrderInv
<1>4. QED
  BY <1>1, <1>3, OrderCorrect, PTL

-----------------------------------------------------------------------------
\* The transcript: a call has one text, and while no two sentences begin at
\* one place, each that has a text is found under its start.
FullInv ==
  /\ ended => \A k \in Keys : items[k] = {}
  /\ \A i, j \in 1..Len(sents) : sents[i].em = sents[j].em => sents[i].text = sents[j].text
  /\ \A i \in 1..Len(sents) : sents[i].em < i
  /\ ~Crowded => \A j \in 1..Len(sents) :
       sents[j].text # NoText =>
         sents[j].start \in DOMAIN transcripts /\ transcripts[sents[j].start] = j

\* In a chain every sentence ends before all that follow.
LEMMA ChainOrder ==
  ASSUME NEW new, NEW a \in Nat, NEW b \in Nat, Chain(new, a, b),
         NEW i \in 1..Len(new), NEW j \in 1..Len(new), i < j
  PROVE  new[i].end <= new[j].start
<1> DEFINE n == Len(new)
           S == {k \in (i + 1)..n : new[i].end <= new[k].start}
<1>1. /\ n \in Nat /\ \A k \in 1..n : new[k].start \in Nat /\ new[k].end \in Nat
      /\ \A k \in 1..n : new[k].start <= new[k].end /\ (k + 1 <= n => new[k].end = new[k + 1].start)
  BY ChainFacts DEF Chain
<1>2. i + 1 \in Nat /\ i + 1 <= n /\ i + 1 \in 1..n
  BY <1>1
<1>3. i + 1 \in S
  BY <1>1, <1>2
<1>4. ASSUME NEW k \in Nat, i + 1 <= k, k < n, k \in S
      PROVE  k + 1 \in S
  <2>1. k \in 1..n /\ k + 1 \in 1..n /\ k + 1 <= n /\ k + 1 \in (i + 1)..n
    BY <1>1, <1>4
  <2>2. /\ new[i].end <= new[k].start /\ new[k].start <= new[k].end
        /\ new[k].end = new[k + 1].start
        /\ new[i].end \in Nat /\ new[k].start \in Nat /\ new[k + 1].start \in Nat
    BY <1>1, <1>4, <2>1
  <2>3. QED
    BY <2>1, <2>2
<1>5. \A k \in (i + 1)..n : k \in S
  <2> HIDE DEF S
  <2>1. QED
    BY <1>1, <1>2, <1>3, <1>4, UpTo
<1>6. QED
  BY <1>1, <1>5

\* The sentences of a call, behind those that were there.
LEMMA CallPlaces ==
  ASSUME OrderInv, NEW new, NEW b, NEW text, NEW of, NEW source, NEW allowEval,
         Call(new, b, text, of, source, allowEval)
  PROVE  /\ Len(sents) \in Nat /\ Len(new) \in Nat /\ Len(new) >= 1
         /\ Len(sents') = Len(sents) + Len(new) /\ sents' = sents \o new
         /\ \A i \in 1..Len(sents) : i \in 1..Len(sents') /\ sents'[i] = sents[i]
         /\ \A k \in 1..Len(new) :
              Len(sents) + k \in 1..Len(sents') /\ sents'[Len(sents) + k] = new[k]
         /\ \A i \in 1..Len(sents') :
              i \in 1..Len(sents) \/ \E k \in 1..Len(new) : i = Len(sents) + k
<1>1. /\ sents \in Seq(Sentence) /\ new \in Seq(Sentence) /\ Len(new) >= 1
      /\ sents' = sents \o new
  BY DEF OrderInv, Placed, Call, Chain, Submit
<1>2. /\ Len(sents') = Len(sents) + Len(new) /\ Len(sents) \in Nat /\ Len(new) \in Nat
      /\ \A i \in 1..(Len(sents) + Len(new)) :
           sents'[i] = IF i <= Len(sents) THEN sents[i] ELSE new[i - Len(sents)]
  BY <1>1, ConcatProperties, LenProperties
<1>3. \A k \in 1..Len(new) :
        /\ Len(sents) + k \in 1..Len(sents') /\ ~(Len(sents) + k <= Len(sents))
        /\ (Len(sents) + k) - Len(sents) = k
  BY <1>2
<1>4. \A i \in 1..Len(sents') :
        i \in 1..Len(sents) \/ (i - Len(sents) \in 1..Len(new) /\ i = Len(sents) + (i - Len(sents)))
  BY <1>2
<1>5. \A i \in 1..Len(sents) : i \in 1..Len(sents') /\ sents'[i] = sents[i]
  BY <1>2
<1>6. \A k \in 1..Len(new) :
        Len(sents) + k \in 1..Len(sents') /\ sents'[Len(sents) + k] = new[k]
  BY <1>2, <1>3
<1>7. QED
  BY <1>1, <1>2, <1>4, <1>5, <1>6

\* A call keeps what is said of the texts.
LEMMA FullCall ==
  ASSUME OrderInv, FullInv, NEW new, NEW b, NEW text, NEW of, NEW source, NEW allowEval,
         Call(new, b, text, of, source, allowEval),
         ended' => \A k \in Keys : items'[k] = {}
  PROVE  FullInv'
<1> DEFINE n == Len(sents)
<1>1. /\ n \in Nat /\ Len(new) \in Nat /\ Len(new) >= 1
      /\ Len(sents') = n + Len(new)
      /\ \A i \in 1..n : i \in 1..Len(sents') /\ sents'[i] = sents[i]
      /\ \A k \in 1..Len(new) : n + k \in 1..Len(sents') /\ sents'[n + k] = new[k]
      /\ \A i \in 1..Len(sents') : i \in 1..n \/ \E k \in 1..Len(new) : i = n + k
  BY CallPlaces
<1>2. /\ segStart \in Nat /\ b \in Nat /\ Chain(new, segStart, b)
      /\ \A k \in 1..Len(new) : new[k].text = text /\ new[k].em = n
  BY DEF OrderInv, Placed, Call
<1>3. /\ \A k \in 1..Len(new) : /\ new[k].start \in Nat /\ new[k].end \in Nat
                                /\ segStart <= new[k].start
  BY <1>2, ChainFacts DEF Chain
<1>4. \A i \in 1..n : /\ sents[i].start \in Nat /\ sents[i].end \in Nat
                      /\ sents[i].start <= sents[i].end /\ sents[i].end <= segStart
                      /\ sents[i].em \in Nat /\ sents[i].em < n
  <2>1. \A i \in 1..n : sents[i] \in Sentence
    BY DEF OrderInv, Placed
  <2>2. \A i \in 1..n : sents[i].em < i
    BY DEF FullInv
  <2>3. QED
    BY <1>1, <2>1, <2>2 DEF OrderInv, SentencesInOrder, Sentence
<1>5. ASSUME NEW i \in 1..Len(sents')
      PROVE  /\ sents'[i].em < i
             /\ \/ i \in 1..n /\ sents'[i] = sents[i] /\ sents'[i].em < n
                \/ sents'[i].em = n /\ sents'[i].text = text
  <2>1. CASE i \in 1..n
    <3>1. sents'[i] = sents[i] /\ sents[i].em < n
      BY <1>1, <1>4, <2>1
    <3>2. QED
      BY <2>1, <3>1 DEF FullInv
  <2>2. ASSUME NEW k \in 1..Len(new), i = n + k
        PROVE  sents'[i].em = n /\ sents'[i].text = text /\ n < i
    <3>1. sents'[i] = new[k] /\ n < i
      BY <1>1, <2>2
    <3>2. QED
      BY <1>2, <3>1
  <2>3. QED
    BY <1>1, <2>1, <2>2
<1>6. ASSUME NEW i \in 1..Len(sents'), NEW j \in 1..Len(sents'), sents'[i].em = sents'[j].em
      PROVE  sents'[i].text = sents'[j].text
  <2>1. \A h \in 1..Len(sents') :
          \/ h \in 1..n /\ sents'[h] = sents[h] /\ sents'[h].em < n
          \/ sents'[h].em = n /\ sents'[h].text = text
    BY <1>5
  <2>2. CASE i \in 1..n /\ sents'[i] = sents[i] /\ sents'[i].em < n
    <3>1. j \in 1..n /\ sents'[j] = sents[j]
      BY <1>1, <1>4, <1>6, <2>1, <2>2
    <3>2. QED
      BY <1>6, <2>2, <3>1 DEF FullInv
  <2>3. CASE sents'[i].em = n /\ sents'[i].text = text
    <3>1. sents'[j].em = n /\ ~(n < n)
      BY <1>1, <1>6, <2>3
    <3>2. sents'[j].text = text
      BY <2>1, <3>1
    <3>3. QED
      BY <2>3, <3>2
  <2>4. QED
    BY <2>1, <2>2, <2>3
<1> DEFINE said == {k \in 1..Len(new) : new[k].text # NoText}
           under(t) == {k \in said : new[k].start = t}
<1>7. transcripts' = [t \in DOMAIN transcripts \union {new[k].start : k \in said} |->
                        IF under(t) # {} THEN n + Max(under(t)) ELSE transcripts[t]]
  BY DEF Call, Submit
<1>8. ASSUME ~Crowded', NEW j \in 1..Len(sents'), sents'[j].text # NoText
      PROVE  sents'[j].start \in DOMAIN transcripts' /\ transcripts'[sents'[j].start] = j
  <2>1. /\ \A i \in 1..n : sents[i].start # sents[i].end
        /\ \A k \in 1..Len(new) : new[k].start # new[k].end
    BY <1>1, <1>8 DEF Crowded
  <2>2. CASE j \in 1..n
    <3>1. sents'[j] = sents[j] /\ sents[j].text # NoText /\ ~Crowded
      BY <1>1, <1>8, <2>1, <2>2 DEF Crowded
    <3>2. sents[j].start \in DOMAIN transcripts /\ transcripts[sents[j].start] = j
      BY <2>2, <3>1 DEF FullInv
    <3>3. \A k \in said : new[k].start # sents[j].start
      BY <1>2, <1>3, <1>4, <2>1, <2>2
    <3>4. under(sents[j].start) = {}
      BY <3>3
    <3> HIDE DEF said
    <3>5. QED
      BY <1>7, <3>1, <3>2, <3>4
  <2>3. ASSUME NEW k \in 1..Len(new), j = n + k
        PROVE  sents'[j].start \in DOMAIN transcripts' /\ transcripts'[sents'[j].start] = j
    <3>1. sents'[j] = new[k] /\ k \in said
      BY <1>1, <1>8, <2>3
    <3>2. ASSUME NEW h \in 1..Len(new), new[h].start = new[k].start
          PROVE  h = k
      <4>1. /\ h < k => new[h].end <= new[k].start
            /\ k < h => new[k].end <= new[h].start
        BY <1>2, ChainOrder
      <4>2. new[h].start <= new[h].end /\ new[k].start <= new[k].end
        BY <1>2 DEF Chain
      <4>3. QED
        BY <1>1, <1>3, <2>1, <3>2, <4>1, <4>2
    <3>3. under(new[k].start) = {k}
      BY <3>1, <3>2
    <3>4. Max({k}) = k
      <4>1. k \in Int /\ \E x \in {k} : \A y \in {k} : x >= y
        BY <1>1
      <4>2. Max({k}) \in {k}
        BY <4>1 DEF Max
      <4>3. QED
        BY <4>2
    <3>5. new[k].start \in {new[h].start : h \in said}
      BY <3>1
    <3> HIDE DEF said
    <3>6. transcripts'[new[k].start] = n + k
      BY <1>7, <3>3, <3>4, <3>5
    <3>7. QED
      BY <1>7, <2>3, <3>1, <3>5, <3>6
  <2>4. QED
    BY <1>1, <2>2, <2>3
<1>9. QED
  BY <1>5, <1>6, <1>8 DEF FullInv

\* Every action keeps them.
LEMMA FullStep ==
  ASSUME HeldInv, OrderInv, FullInv, [LaneNext]_xvars
  PROVE  FullInv'
<1>1. ASSUME UNCHANGED <<sents, transcripts>>, ended' => \A k \in Keys : items'[k] = {}
      PROVE  FullInv'
  BY <1>1 DEF FullInv, Crowded
<1>2. ASSUME UNCHANGED <<sents, transcripts, items, ended>>
      PROVE  FullInv'
  BY <1>1, <1>2 DEF FullInv
<1>3. CASE Clock \/ UNCHANGED xvars
  BY <1>2, <1>3 DEF Clock, xvars, tracker, lane
<1>4. ASSUME NEW e \in evals, NEW st \in {"ok", "failed"}, EvalDone(e, st)
      PROVE  FullInv'
  BY <1>2, <1>4 DEF EvalDone, tracker
<1>5. ASSUME NEW u \in Utt, Speak(u) \/ Stop(u) \/ Lose(u)
      PROVE  FullInv'
  BY <1>2, <1>5 DEF Speak, Stop, Lose, tracker, lane
<1>6. ASSUME NEW u \in Utt, NEW id \in {u, NoItem}, Accumulate(u, id)
      PROVE  FullInv'
  BY <1>1, <1>6 DEF Accumulate, lane
<1>7. ASSUME NEW u \in Utt, NEW id \in {u, NoItem}, NEW whole \in BOOLEAN, Complete(u, id, whole)
      PROVE  FullInv'
  <2>1. ~ended'
    BY <1>7 DEF Complete
  <2>2. CASE UNCHANGED lane
    BY <1>1, <2>1, <2>2 DEF lane
  <2>3. ASSUME NEW new, NEW source, NEW text, Call(new, segStart', text, u, source, TRUE)
        PROVE  FullInv'
    <3>1. PICK b : b = segStart'
      OBVIOUS
    <3>2. QED
      BY <2>1, <2>3, <3>1, FullCall
  <2>4. QED
    BY <1>7, <2>2, <2>3, CompleteCall
<1>8. CASE TimeoutTick
  <2>1. ~ended'
    BY <1>8 DEF TimeoutTick
  <2>2. PICK new, b, text : Call(new, b, text, NoItem, "timeout", TRUE)
    BY <1>8, TickCall
  <2>3. QED
    BY <2>1, <2>2, FullCall
<1>9. CASE EndTurn
  <2>1. Flush
    BY <1>9 DEF EndTurn
  <2>2. CASE Held = {} /\ UNCHANGED <<items, order, segStart, lane>>
    <3>1. \A k \in Keys : items[k] = {}
      BY <2>2 DEF Held
    <3>2. QED
      BY <1>1, <2>2, <3>1 DEF lane
  <2>3. ASSUME DropAll, NEW new, NEW b, NEW text, Call(new, b, text, NoItem, "flush", FALSE)
        PROVE  FullInv'
    <3>1. \A k \in Keys : items'[k] = {}
      BY <2>3 DEF DropAll
    <3>2. QED
      BY <2>3, <3>1, FullCall
  <2>4. QED
    BY <2>1, <2>2, <2>3, FlushCall
<1>10. QED
  BY <1>3, <1>4, <1>5, <1>6, <1>7, <1>8, <1>9 DEF LaneNext

\* There is no sentence in the beginning.
LEMMA FullInit == LaneInit => FullInv
<1> SUFFICES ASSUME LaneInit PROVE FullInv
  OBVIOUS
<1>1. 1..Len(sents) = {} /\ ~ended
  BY DEF LaneInit
<1>2. QED
  BY <1>1 DEF FullInv

\* However the deltas were held, named, replaced or forced out: at the end of
\* the turn each is in a sentence, or replaced by the whole transcript of its
\* utterance, and all sentences of that call are in transcript_full, unless
\* two begin at one place.
THEOREM TranscriptCorrect == LaneSpec => []TranscriptHasAll
<1>1. LaneSpec => []FullInv
  BY HeldCorrect, OrderCorrect, FullInit, FullStep, PTL DEF LaneSpec
<1>2. LaneSpec => []OnceInv
  BY HeldCorrect, OrderCorrect, OnceInit, OnceStep, PTL DEF LaneSpec
<1>3. FullInv /\ OnceInv => TranscriptHasAll
  <2> SUFFICES ASSUME FullInv, OnceInv, ended, ~Crowded, NEW d \in deltas
               PROVE  \E i \in 1..Len(sents) :
                        (d \in sents[i].text.deltas \/ d[1] \in sents[i].text.whole) /\ InFull(i)
    BY DEF TranscriptHasAll
  <2>1. PICK i \in 1..Len(sents) : d \in sents[i].text.deltas \/ d[1] \in sents[i].text.whole
    BY DEF FullInv, OnceInv
  <2>2. sents[i].text # NoText
    BY <2>1 DEF NoText
  <2>3. ASSUME NEW j \in 1..Len(sents), sents[j].em = sents[i].em
        PROVE  sents[j].start \in DOMAIN transcripts /\ transcripts[sents[j].start] = j
    BY <2>2, <2>3 DEF FullInv
  <2>4. QED
    BY <2>1, <2>3 DEF InFull
<1>4. QED
  BY <1>1, <1>2, <1>3, PTL

-----------------------------------------------------------------------------
\* Where the sentences of an utterance lie.  Only one utterance is under way,
\* the boundary has not passed its first moment unless a timeout moved it, and
\* the sentences that are named after it come with its completion.
Underway(u) == uttered[u] \in {"speaking", "stopped"}

ServiceInv ==
  /\ uttered \in [Utt -> {"silent", "speaking", "stopped", "completed", "lost"}]
  /\ speech \in [Utt -> [from : Nat, to : Nat, heard : BOOLEAN]]
  /\ stoppedAt # Never => stoppedAt <= now
  /\ \A u, v \in Utt : v < u /\ uttered[u] # "silent" => uttered[v] \in {"completed", "lost"}
  /\ \A u \in Utt : uttered[u] = "speaking" => speech[u].from <= now
  /\ \A u \in Utt : uttered[u] = "stopped" =>
       /\ speech[u].from < speech[u].to /\ speech[u].to <= now
       /\ speech[u].heard => stoppedAt = speech[u].to

Spoken(i) ==
  LET u == sents[i].of IN
  u # NoItem /\ speech[u].heard /\ ~Forced(u) =>
    /\ \E k \in 1..Len(sents) :
         sents[k].em = sents[i].em /\ sents[k].start <= speech[u].to + SnapReach
    /\ \E k \in 1..Len(sents) :
         sents[k].em = sents[i].em /\ sents[k].end + SnapReach >= speech[u].from

SpokenInv ==
  /\ ServiceInv
  /\ ~ended => segStart <= now + 1
  /\ \A u \in Utt : ~ended /\ Underway(u) =>
       segStart <= speech[u].from + 1 \/ (Forced(u) /\ segStart <= now)
  /\ \A i \in 1..Len(sents) : sents[i].of # NoItem => uttered[sents[i].of] = "completed"
  /\ \A i \in 1..Len(sents) : Spoken(i)

\* What is said of the service when an event, the clock or a call changes it.
LEMMA ServiceStep ==
  ASSUME ~Overtaken, OrderInv, ServiceInv, [LaneNext]_xvars
  PROVE  ServiceInv'
<1>0. now \in Nat /\ stoppedAt \in Nat \union {Never} /\ Utt \subseteq Nat
  BY Bounds DEF OrderInv, Placed, Utt
<1>1. ASSUME UNCHANGED <<now, stoppedAt, uttered, speech>>
      PROVE  ServiceInv'
  BY <1>1 DEF ServiceInv
<1>2. CASE Clock
  <2>1. now' = now + 1 /\ UNCHANGED <<stoppedAt, uttered, speech>>
    BY <1>2 DEF Clock, tracker, service
  <2>2. \A u \in Utt : speech[u].from \in Nat /\ speech[u].to \in Nat
    BY DEF ServiceInv
  <2>3. QED
    BY <1>0, <2>1, <2>2 DEF ServiceInv
<1>3. CASE TimeoutTick \/ EndTurn \/ UNCHANGED xvars
  BY <1>1, <1>3 DEF TimeoutTick, EndTurn, xvars, tracker, service
<1>4. ASSUME NEW e \in evals, NEW st \in {"ok", "failed"}, EvalDone(e, st)
      PROVE  ServiceInv'
  BY <1>1, <1>4 DEF EvalDone, tracker, service
<1>5. ASSUME NEW u \in Utt, NEW id \in {u, NoItem}, Accumulate(u, id)
      PROVE  ServiceInv'
  BY <1>1, <1>5 DEF Accumulate
<1>6. ASSUME NEW u \in Utt, Speak(u)
      PROVE  ServiceInv'
  <2>1. /\ uttered[u] = "silent" /\ uttered' = [uttered EXCEPT ![u] = "speaking"]
        /\ speech' = [speech EXCEPT ![u] = [from |-> now, to |-> now, heard |-> FALSE]]
        /\ now' = now /\ stoppedAt' = stoppedAt
    BY <1>6 DEF Speak
  <2>2. \A v \in Utt : v < u => uttered[v] \in {"completed", "lost"}
    <3>1. \A v \in Utt : v < u => v \in 1..(u - 1)
      BY <1>0 DEF Utt
    <3>2. QED
      BY <1>6, <3>1 DEF Speak
  <2>3. \A v \in Utt : u < v => uttered[v] = "silent"
    BY <2>1 DEF ServiceInv
  <2>4. uttered' \in [Utt -> {"silent", "speaking", "stopped", "completed", "lost"}]
        /\ speech' \in [Utt -> [from : Nat, to : Nat, heard : BOOLEAN]]
    BY <1>0, <2>1 DEF ServiceInv
  <2>5. ASSUME NEW v \in Utt, NEW w \in Utt, w < v, uttered'[v] # "silent"
        PROVE  uttered'[w] \in {"completed", "lost"}
    <3>1. w # u
      BY <1>0, <2>1, <2>3, <2>5 DEF ServiceInv
    <3>2. QED
      BY <2>1, <2>2, <2>5, <3>1 DEF ServiceInv
  <2>6. QED
    BY <1>0, <2>1, <2>4, <2>5 DEF ServiceInv
<1>7. ASSUME NEW u \in Utt, Stop(u)
      PROVE  ServiceInv'
  <2>1. PICK heard \in BOOLEAN :
          /\ speech' = [speech EXCEPT ![u].to = now, ![u].heard = heard]
          /\ stoppedAt' = IF heard THEN now ELSE stoppedAt
    BY <1>7 DEF Stop
  <2>2. /\ uttered[u] = "speaking" /\ speech[u].from < now /\ now' = now
        /\ uttered' = [uttered EXCEPT ![u] = "stopped"]
    BY <1>7 DEF Stop
  <2>3. \A v \in Utt : v # u => uttered[v] \notin {"speaking", "stopped"}
    BY <1>0, <2>2 DEF ServiceInv
  <2>4. uttered' \in [Utt -> {"silent", "speaking", "stopped", "completed", "lost"}]
        /\ speech' \in [Utt -> [from : Nat, to : Nat, heard : BOOLEAN]]
    BY <1>0, <2>1, <2>2 DEF ServiceInv
  <2>5. /\ speech'[u].from = speech[u].from /\ speech'[u].to = now /\ speech'[u].heard = heard
        /\ uttered'[u] = "stopped"
        /\ \A v \in Utt : v # u => speech'[v] = speech[v] /\ uttered'[v] = uttered[v]
    BY <2>1, <2>2 DEF ServiceInv
  <2>6. \A v, w \in Utt : w < v /\ uttered'[v] # "silent" => uttered'[w] \in {"completed", "lost"}
    BY <1>0, <2>2, <2>3, <2>5 DEF ServiceInv
  <2>7. stoppedAt' # Never => stoppedAt' <= now'
    BY <1>0, <2>1, <2>2 DEF ServiceInv
  <2>8. \A v \in Utt : uttered'[v] = "speaking" => speech'[v].from <= now'
    BY <2>2, <2>5 DEF ServiceInv
  <2>9. ASSUME NEW v \in Utt, uttered'[v] = "stopped"
        PROVE  /\ speech'[v].from < speech'[v].to /\ speech'[v].to <= now'
               /\ speech'[v].heard => stoppedAt' = speech'[v].to
    <3>1. v = u
      BY <2>3, <2>5, <2>9
    <3>2. heard => stoppedAt' = now
      BY <2>1
    <3>3. now <= now
      BY <1>0
    <3>4. QED
      BY <2>2, <2>5, <3>1, <3>2, <3>3
  <2>10. QED
    BY <2>4, <2>6, <2>7, <2>8, <2>9 DEF ServiceInv
<1>8. ASSUME NEW u \in Utt, uttered[u] = "stopped", NEW st \in {"completed", "lost"},
             uttered' = [uttered EXCEPT ![u] = st], now' = now, speech' = speech,
             stoppedAt' = stoppedAt \/ stoppedAt' = Never
      PROVE  ServiceInv'
  <2>1. \A v \in Utt : v # u => uttered[v] \notin {"speaking", "stopped"}
    BY <1>0, <1>8 DEF ServiceInv
  <2>2. uttered' \in [Utt -> {"silent", "speaking", "stopped", "completed", "lost"}]
        /\ uttered'[u] = st /\ \A v \in Utt : v # u => uttered'[v] = uttered[v]
    BY <1>8 DEF ServiceInv
  <2>3. QED
    BY <1>0, <1>8, <2>1, <2>2 DEF ServiceInv
<1>9. ASSUME NEW u \in Utt, NEW id \in {u, NoItem}, NEW whole \in BOOLEAN, Complete(u, id, whole)
      PROVE  ServiceInv'
  BY <1>8, <1>9 DEF Complete
<1>10. ASSUME NEW u \in Utt, Lose(u)
       PROVE  ServiceInv'
  BY <1>8, <1>10 DEF Lose, tracker
<1>11. QED
  BY <1>2, <1>3, <1>4, <1>5, <1>6, <1>7, <1>9, <1>10 DEF LaneNext

\* No two utterances are under way.
LEMMA Alone ==
  ASSUME ServiceInv, NEW u \in Utt, Underway(u), NEW v \in Utt, v # u
  PROVE  ~Underway(v)
<1>1. u < v \/ v < u
  BY Bounds DEF Utt
<1>2. QED
  BY <1>1 DEF ServiceInv, Underway

\* What is forced stays so, and a sentence stays where it is.
LEMMA SentencesStay ==
  ASSUME \A i \in 1..Len(sents) : i \in 1..Len(sents') /\ sents'[i] = sents[i]
  PROVE  /\ \A u \in Utt : speech'[u] = speech[u] /\ Forced(u) => Forced(u)'
         /\ \A i \in 1..Len(sents) :
              sents[i].of \in Keys /\ (sents[i].of \in Utt => speech'[sents[i].of] = speech[sents[i].of])
              /\ Spoken(i) => Spoken(i)'
<1>1. ASSUME NEW u, speech'[u] = speech[u], Forced(u)
      PROVE  Forced(u)'
  BY <1>1 DEF Forced
<1>2. ASSUME NEW i \in 1..Len(sents), NEW u, sents[i].of = u, u # NoItem => speech'[u] = speech[u],
             Spoken(i)
      PROVE  Spoken(i)'
  <2> SUFFICES ASSUME u # NoItem, speech'[u].heard, ~Forced(u)'
               PROVE  /\ \E k \in 1..Len(sents') :
                           sents'[k].em = sents'[i].em /\ sents'[k].start <= speech'[u].to + SnapReach
                      /\ \E k \in 1..Len(sents') :
                           sents'[k].em = sents'[i].em /\ sents'[k].end + SnapReach >= speech'[u].from
    BY <1>2 DEF Spoken
  <2>1. speech[u].heard /\ ~Forced(u) /\ speech'[u] = speech[u] /\ sents'[i] = sents[i]
    BY <1>1, <1>2
  <2>2. /\ \E k \in 1..Len(sents) :
             sents[k].em = sents[i].em /\ sents[k].start <= speech[u].to + SnapReach
        /\ \E k \in 1..Len(sents) :
             sents[k].em = sents[i].em /\ sents[k].end + SnapReach >= speech[u].from
    BY <1>2, <2>1 DEF Spoken
  <2>3. QED
    BY <2>1, <2>2
<1>3. \A i \in 1..Len(sents) : sents[i].of \in Keys /\ sents[i].of # NoItem => sents[i].of \in Utt
  BY DEF Keys
<1>4. QED
  BY <1>1, <1>2, <1>3

\* A call whose sentences belong to no utterance, in a turn that goes on
\* below the clock, or that a timeout has cut.
LEMMA SpokenNone ==
  ASSUME OrderInv, SpokenInv, ServiceInv', UNCHANGED <<uttered, speech>>,
         NEW new, NEW b, NEW text, NEW source, NEW allowEval,
         Call(new, b, text, NoItem, source, allowEval),
         ~ended' => ~ended /\ now' = now /\ source = "timeout" /\ b <= now
  PROVE  SpokenInv'
<1> DEFINE n == Len(sents)
<1>1. /\ n \in Nat /\ Len(new) \in Nat /\ Len(new) >= 1
      /\ \A i \in 1..n : i \in 1..Len(sents') /\ sents'[i] = sents[i]
      /\ \A k \in 1..Len(new) : n + k \in 1..Len(sents') /\ sents'[n + k] = new[k]
      /\ \A i \in 1..Len(sents') : i \in 1..n \/ \E k \in 1..Len(new) : i = n + k
  BY CallPlaces
<1>2. /\ segStart \in Nat /\ now \in Nat /\ b \in Nat /\ Chain(new, segStart, b) /\ segStart' = b
      /\ \A k \in 1..Len(new) : new[k].of = NoItem /\ new[k].source = source
  BY DEF OrderInv, Placed, Call
<1>3. Len(new) \in 1..Len(new) /\ new[Len(new)].end = b
  BY <1>1, <1>2 DEF Chain
<1>4. \A i \in 1..n : sents[i].of \in Keys /\ (sents[i].of # NoItem => sents[i].of \in Utt)
  <2>1. \A i \in 1..n : sents[i] \in Sentence
    BY DEF OrderInv, Placed
  <2>2. QED
    BY <2>1 DEF Sentence, Keys
<1>5. /\ \A u \in Utt : Forced(u) => Forced(u)'
      /\ \A i \in 1..n : Spoken(i)'
  BY <1>1, <1>4, SentencesStay DEF SpokenInv
<1>6. ASSUME NEW i \in 1..Len(sents')
      PROVE  /\ sents'[i].of # NoItem => uttered'[sents'[i].of] = "completed"
             /\ Spoken(i)'
  <2>1. CASE i \in 1..n
    BY <1>1, <1>5, <2>1 DEF SpokenInv
  <2>2. ASSUME NEW k \in 1..Len(new), i = n + k
        PROVE  sents'[i].of = NoItem
    BY <1>1, <1>2, <2>2
  <2>3. QED
    BY <1>1, <2>1, <2>2 DEF Spoken
<1>7. ASSUME NEW u \in Utt, ~ended', Underway(u)'
      PROVE  segStart' <= speech'[u].from + 1 \/ (Forced(u)' /\ segStart' <= now')
  <2>1. speech[u].from \in Nat /\ b <= now /\ source = "timeout" /\ now' = now
    BY <1>7 DEF SpokenInv, ServiceInv
  <2>2. CASE b <= speech[u].from
    BY <1>2, <2>1, <2>2
  <2>3. CASE b > speech[u].from
    <3>1. PICK i : i = n + Len(new)
      OBVIOUS
    <3>2. i \in 1..Len(sents') /\ sents'[i].source = "timeout" /\ sents'[i].end > speech'[u].from
      BY <1>1, <1>2, <1>3, <2>1, <2>3, <3>1
    <3>3. Forced(u)'
      BY <3>2 DEF Forced
    <3>4. QED
      BY <1>2, <2>1, <3>3
  <2>4. QED
    BY <1>2, <2>1, <2>2, <2>3
<1>8. ~ended' => segStart' <= now' + 1
  BY <1>2
<1>9. QED
  BY <1>6, <1>7, <1>8 DEF SpokenInv

\* The call of a completed utterance, when nothing else is under way.
LEMMA SpokenSome ==
  ASSUME OrderInv, SpokenInv, ServiceInv', speech' = speech,
         NEW u \in Utt, uttered[u] = "stopped", uttered' = [uttered EXCEPT ![u] = "completed"],
         now' = now, ~ended, MinSentence = 1,
         NEW x \in Nat, x \in Snap(IF stoppedAt # Never THEN stoppedAt ELSE now),
         segStart' = Max2(x, segStart + MinSentence),
         \/ UNCHANGED lane
         \/ \E new, text, source : Call(new, segStart', text, u, source, TRUE)
  PROVE  SpokenInv'
<1> DEFINE n == Len(sents)
<1>1. /\ segStart \in Nat /\ now \in Nat /\ stoppedAt \in Nat \union {Never}
      /\ speech[u].from \in Nat /\ speech[u].to \in Nat
      /\ speech[u].from < speech[u].to /\ speech[u].to <= now
      /\ speech[u].heard => stoppedAt = speech[u].to
  BY DEF OrderInv, Placed, SpokenInv, ServiceInv
<1>2. x <= now /\ (speech[u].heard => x + SnapReach >= speech[u].to)
  <2>1. PICK t \in Nat : t = IF stoppedAt # Never THEN stoppedAt ELSE now
    BY <1>1
  <2>2. t <= now
    BY <1>1, <2>1 DEF SpokenInv, ServiceInv
  <2>3. x = t \/ (x <= now /\ x \in Max2(0, t - SnapReach)..(t + SnapReach))
    BY <2>1 DEF Snap
  <2>4. x <= now /\ x + SnapReach >= t
    BY <1>1, <2>2, <2>3, Bounds DEF Max2
  <2>5. speech[u].heard => t = speech[u].to
    BY <1>1, <2>1 DEF Never
  <2>6. QED
    BY <2>4, <2>5
<1>3. segStart <= now /\ (segStart <= speech[u].from + 1 \/ Forced(u))
  BY <1>1 DEF SpokenInv, Underway
<1>4. segStart' \in Nat /\ segStart' <= now + 1 /\ segStart' >= x
  BY <1>1, <1>2, <1>3 DEF Max2
<1>5. \A v \in Utt : ~Underway(v)'
  <2>1. \A v \in Utt : v # u => ~Underway(v)
    BY Alone DEF SpokenInv, Underway
  <2>2. QED
    BY <2>1 DEF Underway, SpokenInv, ServiceInv
<1>6. uttered'[u] = "completed" /\ \A v \in Utt : uttered[v] = "completed" => uttered'[v] = "completed"
  BY DEF SpokenInv, ServiceInv
<1>7. \A i \in 1..n : sents[i].of \in Keys /\ (sents[i].of # NoItem => sents[i].of \in Utt)
  <2>1. \A i \in 1..n : sents[i] \in Sentence
    BY DEF OrderInv, Placed
  <2>2. QED
    BY <2>1 DEF Sentence, Keys
<1>8. ASSUME \A i \in 1..Len(sents') : /\ sents'[i].of # NoItem => uttered'[sents'[i].of] = "completed"
                                       /\ Spoken(i)'
      PROVE  SpokenInv'
  BY <1>4, <1>5, <1>8 DEF SpokenInv
<1>9. CASE UNCHANGED lane
  <2>1. sents' = sents
    BY <1>9 DEF lane
  <2>2. ASSUME NEW i \in 1..n PROVE Spoken(i)'
    BY <2>1, <1>7, SentencesStay DEF SpokenInv
  <2>3. QED
    BY <1>6, <1>7, <1>8, <2>1, <2>2 DEF SpokenInv
<1>10. ASSUME NEW new, NEW text, NEW source, Call(new, segStart', text, u, source, TRUE)
       PROVE  SpokenInv'
  <2>1. PICK b : b = segStart'
    OBVIOUS
  <2>2. Call(new, b, text, u, source, TRUE)
    BY <1>10, <2>1
  <2>3. /\ n \in Nat /\ Len(new) \in Nat /\ Len(new) >= 1
        /\ \A i \in 1..n : i \in 1..Len(sents') /\ sents'[i] = sents[i]
        /\ \A k \in 1..Len(new) : n + k \in 1..Len(sents') /\ sents'[n + k] = new[k]
        /\ \A i \in 1..Len(sents') : i \in 1..n \/ \E k \in 1..Len(new) : i = n + k
    BY <2>2, CallPlaces
  <2>4. /\ Chain(new, segStart, b)
        /\ \A k \in 1..Len(new) : new[k].of = u /\ new[k].em = n
    BY <2>2 DEF Call
  <2>5. /\ 1 \in 1..Len(new) /\ new[1].start = segStart
        /\ Len(new) \in 1..Len(new) /\ new[Len(new)].end = b
    BY <2>3, <2>4 DEF Chain
  <2>6. PICK first, last \in 1..Len(sents') :
          /\ sents'[first].start = segStart /\ sents'[first].em = n
          /\ sents'[last].end = b /\ sents'[last].em = n
    <3>1. n + 1 \in 1..Len(sents') /\ n + Len(new) \in 1..Len(sents')
      BY <2>3, <2>5
    <3>2. sents'[n + 1] = new[1] /\ sents'[n + Len(new)] = new[Len(new)]
      BY <2>3, <2>5
    <3>3. QED
      BY <2>4, <2>5, <3>1, <3>2
  <2>7. /\ \A i \in 1..n : Spoken(i)'
        /\ Forced(u) => Forced(u)'
    BY <1>7, <2>3, SentencesStay DEF SpokenInv
  <2>8. ASSUME NEW i \in 1..Len(sents'), sents'[i].of = u, sents'[i].em = n
        PROVE  Spoken(i)'
    <3> SUFFICES ASSUME speech[u].heard, ~Forced(u)'
                 PROVE  /\ \E k \in 1..Len(sents') :
                             sents'[k].em = n /\ sents'[k].start <= speech[u].to + SnapReach
                        /\ \E k \in 1..Len(sents') :
                             sents'[k].em = n /\ sents'[k].end + SnapReach >= speech[u].from
      BY <2>8 DEF Spoken
    <3>1. segStart <= speech[u].to + SnapReach
      BY <1>1, <1>3, <2>7, Bounds
    <3>2. b + SnapReach >= speech[u].from
      BY <1>1, <1>2, <1>4, <2>1, Bounds
    <3>3. QED
      BY <2>6, <3>1, <3>2
  <2>9. ASSUME NEW i \in 1..Len(sents')
        PROVE  /\ sents'[i].of # NoItem => uttered'[sents'[i].of] = "completed"
               /\ Spoken(i)'
    <3>1. CASE i \in 1..n
      <4>1. sents'[i] = sents[i] /\ Spoken(i)'
        BY <2>3, <2>7, <3>1
      <4>2. sents[i].of # NoItem => uttered[sents[i].of] = "completed" /\ sents[i].of \in Utt
        BY <1>7, <3>1 DEF SpokenInv
      <4>3. QED
        BY <1>6, <4>1, <4>2
    <3>2. ASSUME NEW k \in 1..Len(new), i = n + k
          PROVE  sents'[i].of = u /\ sents'[i].em = n
      BY <2>3, <2>4, <3>2
    <3>3. QED
      BY <1>6, <2>3, <2>8, <3>1, <3>2
  <2>10. QED
    BY <1>8, <2>9
<1>11. QED
  BY <1>9, <1>10

\* Every action keeps the sentences where they were spoken.
LEMMA SpokenStep ==
  ASSUME ~Overtaken, MinSentence = 1, HeldInv, OrderInv, SpokenInv, [LaneNext]_xvars
  PROVE  SpokenInv'
<1>0. ServiceInv'
  BY ServiceStep DEF SpokenInv
<1>1. /\ now \in Nat /\ segStart \in Nat /\ Timeout \in Nat
      /\ \A u \in Utt : speech[u].from \in Nat /\ speech[u].to \in Nat
  BY SentenceAssumption DEF OrderInv, Placed, SpokenInv, ServiceInv
<1>2. \A i \in 1..Len(sents) : sents[i].of # NoItem => sents[i].of \in Utt
  <2>1. \A i \in 1..Len(sents) : sents[i] \in Sentence
    BY DEF OrderInv, Placed
  <2>2. QED
    BY <2>1 DEF Sentence, Keys
<1>3. ASSUME sents' = sents, ~ended' => ~ended /\ now' \in Nat /\ now <= now',
             \A i \in 1..Len(sents) : sents[i].of # NoItem =>
               uttered'[sents[i].of] = "completed" /\ speech'[sents[i].of] = speech[sents[i].of],
             ~ended' => segStart' <= now' + 1,
             \A u \in Utt : ~ended' /\ Underway(u)' =>
               \/ Underway(u) /\ speech'[u].from = speech[u].from /\ segStart' = segStart
               \/ segStart' <= speech'[u].from + 1
      PROVE  SpokenInv'
  <2>1. ASSUME NEW i \in 1..Len(sents)
        PROVE  Spoken(i)'
    <3>1. /\ sents[i].of \in Keys /\ Spoken(i)
          /\ sents[i].of \in Utt => sents[i].of # NoItem
      BY <1>2, Bounds DEF SpokenInv, Keys, Utt, NoItem
    <3>2. sents[i].of \in Utt => speech'[sents[i].of] = speech[sents[i].of]
      BY <1>3, <3>1
    <3>3. QED
      BY <1>3, <3>1, <3>2, SentencesStay
  <2>2. ASSUME NEW u \in Utt, ~ended', Underway(u)'
        PROVE  segStart' <= speech'[u].from + 1 \/ (Forced(u)' /\ segStart' <= now')
    <3>1. CASE Underway(u) /\ speech'[u].from = speech[u].from /\ segStart' = segStart
      <4>1. segStart <= speech[u].from + 1 \/ (Forced(u) /\ segStart <= now)
        BY <1>3, <2>2, <3>1 DEF SpokenInv
      <4>2. Forced(u) => Forced(u)'
        BY <1>3, <3>1 DEF Forced
      <4>3. QED
        BY <1>1, <1>3, <2>2, <3>1, <4>1, <4>2
    <3>2. QED
      BY <1>3, <2>2, <3>1
  <2>3. QED
    BY <1>0, <1>3, <2>1, <2>2 DEF SpokenInv
<1>4. ASSUME UNCHANGED <<sents, segStart, ended, uttered, speech>>, now' = now \/ now' = now + 1
      PROVE  SpokenInv'
  BY <1>1, <1>3, <1>4 DEF SpokenInv, Underway
<1>5. CASE Clock \/ UNCHANGED xvars
  BY <1>4, <1>5 DEF Clock, xvars, tracker, lane, service
<1>6. ASSUME NEW e \in evals, NEW st \in {"ok", "failed"}, EvalDone(e, st)
      PROVE  SpokenInv'
  BY <1>4, <1>6 DEF EvalDone, tracker, service
<1>7. ASSUME NEW u \in Utt, NEW id \in {u, NoItem}, Accumulate(u, id)
      PROVE  SpokenInv'
  BY <1>4, <1>7 DEF Accumulate, lane
<1>8. ASSUME NEW u \in Utt, Speak(u)
      PROVE  SpokenInv'
  <2>1. /\ uttered[u] = "silent" /\ uttered' = [uttered EXCEPT ![u] = "speaking"]
        /\ speech' = [speech EXCEPT ![u] = [from |-> now, to |-> now, heard |-> FALSE]]
        /\ sents' = sents /\ ended' = ended /\ now' = now /\ ~ended
        /\ segStart' \in {SkipSilence(x) : x \in Snap(now)} \union {segStart}
    BY <1>8 DEF Speak, lane
  <2>2. segStart' <= now + 1
    <3>1. \A x \in Snap(now) : x <= now
      BY <1>1 DEF Snap
    <3>2. ASSUME NEW x \in Snap(now), segStart' = SkipSilence(x)
          PROVE  segStart' = segStart \/ segStart' <= now
      BY <3>1, <3>2 DEF SkipSilence, Max2
    <3>3. segStart <= now + 1
      BY <2>1 DEF SpokenInv
    <3>4. segStart' = segStart \/ segStart' <= now
      BY <2>1, <3>2
    <3>5. CASE segStart' <= now
      <4>1. PICK x \in Nat : segStart' = x
        <5>1. \A x \in Snap(now) : x \in Nat
          BY <1>1, SnapType
        <5>2. QED
          BY <1>1, <2>1, <5>1 DEF SkipSilence, Max2
      <4>2. QED
        BY <1>1, <3>5, <4>1
    <3>6. QED
      BY <3>3, <3>4, <3>5
  <2>3. /\ speech'[u].from = now
        /\ \A v \in Utt : v # u => speech'[v] = speech[v] /\ uttered'[v] = uttered[v]
    BY <2>1 DEF SpokenInv, ServiceInv
  <2>4. \A i \in 1..Len(sents) : sents[i].of # NoItem =>
          uttered[sents[i].of] = "completed" /\ sents[i].of # u /\ sents[i].of \in Utt
    BY <1>2, <2>1 DEF SpokenInv
  <2>5. Underway(u)'
    BY <2>1 DEF Underway, SpokenInv, ServiceInv
  <2>6. ASSUME NEW v \in Utt, v # u
        PROVE  ~Underway(v)'
    <3>1. v < u \/ u < v
      BY <2>6, Bounds DEF Utt
    <3>2. QED
      BY <1>0, <2>5, <3>1 DEF ServiceInv, Underway
  <2>7. QED
    BY <1>1, <1>3, <2>1, <2>2, <2>3, <2>4, <2>6
<1>9. ASSUME NEW u \in Utt, Stop(u)
      PROVE  SpokenInv'
  <2>1. /\ uttered[u] = "speaking" /\ uttered' = [uttered EXCEPT ![u] = "stopped"]
        /\ \E heard \in BOOLEAN : speech' = [speech EXCEPT ![u].to = now, ![u].heard = heard]
        /\ sents' = sents /\ ended' = ended /\ now' = now /\ segStart' = segStart
    BY <1>9 DEF Stop, lane
  <2>2. /\ Underway(u) /\ \A v \in Utt : Underway(v)' => Underway(v)
    BY <2>1 DEF Underway, SpokenInv, ServiceInv
  <2>3. /\ \A v \in Utt : speech'[v].from = speech[v].from
        /\ \A v \in Utt : v # u => speech'[v] = speech[v] /\ uttered'[v] = uttered[v]
    BY <2>1 DEF SpokenInv, ServiceInv
  <2>4. \A i \in 1..Len(sents) : sents[i].of # NoItem =>
          uttered[sents[i].of] = "completed" /\ sents[i].of # u /\ sents[i].of \in Utt
    BY <1>2, <2>1 DEF SpokenInv
  <2>5. ~ended => segStart <= now + 1
    BY DEF SpokenInv
  <2>6. \A i \in 1..Len(sents) : sents[i].of # NoItem =>
          uttered'[sents[i].of] = "completed" /\ speech'[sents[i].of] = speech[sents[i].of]
    BY <2>3, <2>4
  <2>7. now' \in Nat /\ now <= now'
    BY <1>1, <2>1
  <2>8. QED
    BY <1>3, <2>1, <2>2, <2>3, <2>5, <2>6, <2>7
<1>10. ASSUME NEW u \in Utt, Lose(u)
       PROVE  SpokenInv'
  <2>1. /\ uttered[u] = "stopped" /\ uttered' = [uttered EXCEPT ![u] = "lost"]
        /\ speech' = speech
        /\ sents' = sents /\ ended' = ended /\ now' = now /\ segStart' = segStart
    BY <1>10 DEF Lose, lane, tracker
  <2>2. \A v \in Utt : Underway(v)' => Underway(v)
    BY <2>1 DEF Underway, SpokenInv, ServiceInv
  <2>3. \A v \in Utt : v # u => uttered'[v] = uttered[v]
    BY <2>1 DEF SpokenInv, ServiceInv
  <2>4. \A i \in 1..Len(sents) : sents[i].of # NoItem =>
          uttered[sents[i].of] = "completed" /\ sents[i].of # u /\ sents[i].of \in Utt
    BY <1>2, <2>1 DEF SpokenInv
  <2>5. ~ended => segStart <= now + 1
    BY DEF SpokenInv
  <2>6. QED
    BY <1>1, <1>3, <2>1, <2>2, <2>3, <2>4, <2>5
<1>11. ASSUME NEW u \in Utt, NEW id \in {u, NoItem}, NEW whole \in BOOLEAN, Complete(u, id, whole)
       PROVE  SpokenInv'
  <2>1. /\ uttered[u] = "stopped" /\ uttered' = [uttered EXCEPT ![u] = "completed"]
        /\ speech' = speech /\ now' = now /\ ~ended
    BY <1>11 DEF Complete
  <2>2. PICK x \in Snap(IF stoppedAt # Never THEN stoppedAt ELSE now) :
          /\ segStart' = Max2(x, segStart + MinSentence) /\ x \in Nat
          /\ \/ UNCHANGED lane
             \/ \E new, text, source : Call(new, segStart', text, u, source, TRUE)
    <3> USE <1>11
    <3>1. PICK x \in Snap(IF stoppedAt # Never THEN stoppedAt ELSE now) :
            /\ segStart' = Max2(x, segStart + MinSentence) /\ x \in Nat
            /\ \/ UNCHANGED lane
               \/ \E new, source : Call(new, segStart', TakeText(u, id, whole), u, source, TRUE)
      BY CompleteCall
    <3>2. QED
      BY <3>1
  <2>3. QED
    BY <1>0, <2>1, <2>2, SpokenSome
<1>12. CASE TimeoutTick
  <2>1. /\ ~ended /\ ended' = ended /\ now' = now /\ UNCHANGED <<uttered, speech>>
        /\ now - segStart > Timeout
    BY <1>12 DEF TimeoutTick, service
  <2>2. PICK x \in Snap(now) :
          /\ x \in Nat /\ segStart' = Max2(x, segStart + MinSentence)
          /\ \E new :
               Call(new, segStart', [deltas |-> Held, whole |-> {}], NoItem, "timeout", TRUE)
    BY <1>12, TickCall
  <2>3. PICK b : b = segStart'
    OBVIOUS
  <2>4. b <= now
    <3>1. x <= now /\ segStart + 1 <= now
      BY <1>1, <2>1 DEF Snap
    <3>2. QED
      BY <2>2, <2>3, <3>1 DEF Max2
  <2>5. PICK new, text : Call(new, b, text, NoItem, "timeout", TRUE)
    BY <2>2, <2>3
  <2>6. QED
    BY <1>0, <2>1, <2>4, <2>5, SpokenNone
<1>13. CASE EndTurn
  <2>1. ended' /\ UNCHANGED <<uttered, speech>> /\ Flush
    BY <1>13 DEF EndTurn, service
  <2>2. CASE UNCHANGED lane
    <3>1. sents' = sents
      BY <2>2 DEF lane
    <3>2. QED
      BY <1>3, <2>1, <3>1 DEF SpokenInv
  <2>3. ASSUME NEW new, NEW b, NEW text, Call(new, b, text, NoItem, "flush", FALSE)
        PROVE  SpokenInv'
    BY <1>0, <2>1, <2>3, SpokenNone
  <2>4. QED
    BY <2>1, <2>2, <2>3, FlushCall
<1>14. QED
  BY <1>5, <1>6, <1>7, <1>8, <1>9, <1>10, <1>11, <1>12, <1>13 DEF LaneNext

\* Nobody has spoken in the beginning.
LEMMA SpokenInit == LaneInit => SpokenInv
<1> SUFFICES ASSUME LaneInit PROVE SpokenInv
  OBVIOUS
<1>1. 1..Len(sents) = {} /\ \A u \in Utt : uttered[u] = "silent"
  BY DEF LaneInit
<1>2. ServiceInv
  BY <1>1 DEF LaneInit, ServiceInv
<1>3. QED
  BY <1>1, <1>2 DEF LaneInit, SpokenInv, Underway

\* Whatever VAD events are lost, whatever is snapped to a pause and whatever
\* completed comes late or never: while each utterance waits for the end of the
\* one before, and none is shorter than the shortest sentence, the sentences
\* of one whose end was heard lie where it was spoken.
THEOREM SpokenCorrect ==
  ASSUME ~Overtaken, MinSentence = 1
  PROVE  LaneSpec => []SpokenThere
<1>1. HeldInv /\ OrderInv /\ SpokenInv /\ [LaneNext]_xvars => SpokenInv'
  BY SpokenStep
<1>2. SpokenInv => SpokenThere
  <2> SUFFICES ASSUME SpokenInv, NEW i \in 1..Len(sents), sents[i].of # NoItem,
                      speech[sents[i].of].heard, ~Forced(sents[i].of)
               PROVE  LET call == {sents[j] : j \in {k \in 1..Len(sents) : sents[k].em = sents[i].em}} IN
                      /\ \E s \in call : s.start <= speech[sents[i].of].to + SnapReach
                      /\ \E s \in call : s.end + SnapReach >= speech[sents[i].of].from
    BY DEF SpokenThere
  <2>1. /\ \E k \in 1..Len(sents) :
             sents[k].em = sents[i].em /\ sents[k].start <= speech[sents[i].of].to + SnapReach
        /\ \E k \in 1..Len(sents) :
             sents[k].em = sents[i].em /\ sents[k].end + SnapReach >= speech[sents[i].of].from
    BY DEF SpokenInv, Spoken
  <2>2. QED
    BY <2>1
<1>3. QED
  BY <1>1, <1>2, HeldCorrect, OrderCorrect, SpokenInit, PTL DEF LaneSpec
=============================================================================
