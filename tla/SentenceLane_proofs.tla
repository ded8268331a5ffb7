------------------------ MODULE SentenceLane_proofs ------------------------
(***************************************************************************)
(* The sentence lane, proved for every turn length, every number of        *)
(* utterances and deltas and every reach of the snap.                      *)
(***************************************************************************)
EXTENDS SentenceLane, FiniteSetTheorems, SequenceTheorems, TLAPS

Texts == [deltas : SUBSET Delta, whole : SUBSET Utt]
Sentence == [start : Nat, end : Nat, text : Texts, of : Keys, em : Nat,
             source : {"punct", "utterance", "timeout", "flush"}]

Window == [start : Nat, end : Nat, st : {"running", "gated", "ok", "failed"}]

\* Where the boundary, the sentences and the evaluation windows are.
Placed ==
  /\ now \in Nat /\ segStart \in Nat /\ stoppedAt \in Nat \union {Never}
  /\ sents \in Seq(Sentence)
  /\ anchor \in Nat /\ evals \subseteq Window

\* The bounds as single facts.
LEMMA Bounds ==
  /\ MaxT \in Nat /\ MinSentence \in Nat /\ MinSentence > 0 /\ SnapReach \in Nat
  /\ MaxPieces \in Nat /\ MaxPieces > 0 /\ NUtt \in Nat /\ MaxDeltas \in Nat
BY SentenceAssumption

\* A snapped time is a time.
LEMMA SnapType ==
  ASSUME NEW t \in Nat, NEW x \in Snap(t)
  PROVE  x \in Nat
<1>1. CASE x = t
  BY <1>1
<1>2. CASE x \in Max2(0, t - SnapReach)..(t + SnapReach)
  <2>1. Max2(0, t - SnapReach) \in Nat
    BY Bounds DEF Max2
  <2>2. t + SnapReach \in Nat
    BY Bounds
  <2>3. QED
    BY <1>2, <2>1, <2>2
<1>3. QED
  BY <1>1, <1>2 DEF Snap

\* What a call hands to the lane: sentences in order from a to b.
Chain(new, a, b) ==
  /\ new \in Seq(Sentence) /\ Len(new) >= 1
  /\ new[1].start = a /\ new[Len(new)].end = b
  /\ \A i \in 1..Len(new) : a <= new[i].start /\ new[i].start <= new[i].end /\ new[i].end <= b
  /\ \A i \in 1..Len(new) : i + 1 <= Len(new) => new[i].end = new[i + 1].start

\* Types of its parts.
LEMMA ChainFacts ==
  ASSUME NEW new, NEW a \in Nat, NEW b \in Nat, Chain(new, a, b)
  PROVE  /\ Len(new) \in Nat /\ 1 \in 1..Len(new) /\ Len(new) \in 1..Len(new)
         /\ \A i \in 1..Len(new) : new[i] \in Sentence /\ new[i].start \in Nat /\ new[i].end \in Nat
         /\ a <= b
<1>1. Len(new) \in Nat /\ Len(new) >= 1
  BY DEF Chain
<1>2. 1 \in 1..Len(new) /\ Len(new) \in 1..Len(new)
  BY <1>1
<1>3. \A i \in 1..Len(new) : new[i] \in Sentence
  BY DEF Chain
<1>4. \A i \in 1..Len(new) : new[i].start \in Nat /\ new[i].end \in Nat
  BY <1>3 DEF Sentence
<1>5. new[1].start = a /\ new[1].start <= new[1].end /\ new[1].end <= b
  BY <1>2 DEF Chain
<1>6. a <= b
  BY <1>2, <1>4, <1>5
<1>7. QED
  BY <1>1, <1>2, <1>3, <1>4, <1>6

\* split_sentences gives such a chain.
LEMMA EmissionsChain ==
  ASSUME NEW a \in Nat, NEW b \in Nat, NEW text \in Texts, NEW of \in Keys,
         NEW source \in {"punct", "utterance", "timeout", "flush"},
         sents \in Seq(Sentence),
         NEW new \in Emissions(a, b, text, of, source)
  PROVE  /\ Chain(new, a, b)
         /\ \A i \in 1..Len(new) : new[i].text = text /\ new[i].em = Len(sents)
<1>1. PICK c \in Splits(a, b) : new = Pieces(c, text, of, source)
  BY DEF Emissions
<1>2. PICK k \in 1..MaxPieces : c \in [1..(k + 1) -> a..b]
  BY <1>1 DEF Splits
<1>3. /\ k \in Nat /\ k >= 1 /\ k + 1 \in Nat
      /\ \A i \in 1..(k + 1) : c[i] \in Nat /\ a <= c[i] /\ c[i] <= b
  BY <1>2, Bounds
<1>4. Len(c) = k + 1
  BY <1>2, <1>3
<1>5. /\ c[1] = a /\ c[k + 1] = b
      /\ \A i \in 1..k : c[i] <= c[i + 1]
  <2>1. Len(c) - 1 = k
    BY <1>3, <1>4
  <2>2. QED
    BY <1>1, <1>4, <2>1 DEF Splits
<1>6. new = [i \in 1..k |->
               [start |-> c[i], end |-> c[i + 1], text |-> text, of |-> of,
                em |-> Len(sents), source |-> source]]
  <2>1. Len(c) - 1 = k
    BY <1>3, <1>4
  <2>2. QED
    BY <1>1, <2>1 DEF Pieces
<1>7. \A i \in 1..k : i \in 1..(k + 1) /\ i + 1 \in 1..(k + 1)
  BY <1>3
<1>8. \A i \in 1..k : /\ new[i] \in Sentence
                      /\ new[i].start = c[i] /\ new[i].end = c[i + 1]
                      /\ new[i].text = text /\ new[i].em = Len(sents)
  BY <1>3, <1>6, <1>7 DEF Sentence
<1>9. new \in Seq(Sentence) /\ Len(new) = k
  BY <1>3, <1>6, <1>8
<1>10. 1 \in 1..k /\ k \in 1..k
  BY <1>3
<1>11. \A i \in 1..k : i + 1 <= k => i + 1 \in 1..k
  BY <1>3
<1>12. \A i \in 1..k : /\ a <= new[i].start /\ new[i].start <= new[i].end /\ new[i].end <= b
                       /\ i + 1 <= k => new[i].end = new[i + 1].start
  BY <1>3, <1>5, <1>7, <1>8, <1>11
<1>13. new[1].start = a /\ new[k].end = b
  BY <1>5, <1>8, <1>10
<1>14. Chain(new, a, b)
  BY <1>3, <1>9, <1>12, <1>13 DEF Chain
<1>15. QED
  BY <1>8, <1>9, <1>14

\* So does an utterance without text.
LEMMA UtteranceChain ==
  ASSUME NEW a \in Nat, NEW b \in Nat, a <= b, NEW of \in Keys, sents \in Seq(Sentence)
  PROVE  /\ Chain(Pieces(<<a, b>>, NoText, of, "utterance"), a, b)
         /\ \A i \in 1..Len(Pieces(<<a, b>>, NoText, of, "utterance")) :
              Pieces(<<a, b>>, NoText, of, "utterance")[i].text = NoText
<1>1. Pieces(<<a, b>>, NoText, of, "utterance") =
        [i \in 1..1 |-> [start |-> a, end |-> b, text |-> NoText, of |-> of,
                         em |-> Len(sents), source |-> "utterance"]]
  BY DEF Pieces
<1>2. NoText \in Texts
  BY DEF NoText, Texts
<1>3. [start |-> a, end |-> b, text |-> NoText, of |-> of,
       em |-> Len(sents), source |-> "utterance"] \in Sentence
  BY <1>2 DEF Sentence
<1> DEFINE p == Pieces(<<a, b>>, NoText, of, "utterance")
<1>4. /\ p \in Seq(Sentence) /\ Len(p) = 1 /\ p[1].start = a /\ p[1].end = b /\ p[1].text = NoText
  BY <1>1, <1>3
<1> HIDE DEF p
<1>5. \A i \in 1..Len(p) : i = 1
  BY <1>4
<1>6. Chain(p, a, b) /\ \A i \in 1..Len(p) : p[i].text = NoText
  BY <1>4, <1>5 DEF Chain
<1>7. QED
  BY <1>6 DEF p

-----------------------------------------------------------------------------
\* What is held, and that the next delta of an utterance is a new one.
Sent(u) == {d \in deltas : d[1] = u}

HeldInv ==
  /\ items \in [Keys -> SUBSET Delta] /\ order \in Seq(Keys)
  /\ deltas \subseteq Delta /\ IsFiniteSet(deltas)
  /\ \A d \in deltas : d[2] <= Cardinality(Sent(d[1]))

\* Deltas that are dropped leave the types as they are.
LEMMA DropType ==
  ASSUME items \in [Keys -> SUBSET Delta], order \in Seq(Keys), NEW key, Drop(key)
  PROVE  items' \in [Keys -> SUBSET Delta] /\ order' \in Seq(Keys)
<1>1. items' \in [Keys -> SUBSET Delta]
  BY DEF Drop
<1>2. ASSUME NEW i \in 1..Len(order), order' = RemoveAt(order, i)
      PROVE  order' \in Seq(Keys)
  <2>1. SubSeq(order, 1, i - 1) \in Seq(Keys) /\ SubSeq(order, i + 1, Len(order)) \in Seq(Keys)
    OBVIOUS
  <2>2. QED
    BY <1>2, <2>1, ConcatProperties DEF RemoveAt
<1>3. QED
  BY <1>1, <1>2 DEF Drop

\* The key whose deltas are taken is a key.
LEMMA TakenKeyType ==
  ASSUME order \in Seq(Keys), NEW id
  PROVE  TakenKey(id) \in Keys
<1>1. NoItem \in Keys
  BY DEF Keys
<1>2. order # <<>> => Head(order) \in Keys
  OBVIOUS
<1>3. \A i \in 1..Len(order) : order[i] \in Keys
  OBVIOUS
<1>4. Contains(order, id) => id \in Keys
  BY <1>3 DEF Contains
<1>5. QED
  BY <1>1, <1>2, <1>4 DEF TakenKey

\* Everything held is a text.
LEMMA HeldText ==
  ASSUME items \in [Keys -> SUBSET Delta]
  PROVE  [deltas |-> Held, whole |-> {}] \in Texts
BY DEF Held, Texts

\* Nothing is held in the beginning.
LEMMA HeldInit == LaneInit => HeldInv
BY FS_EmptySet DEF LaneInit, HeldInv

\* A delta that is sent is a new one, held under its key.
LEMMA HeldAccumulate ==
  ASSUME HeldInv, NEW u \in Utt, NEW id \in {u, NoItem}, Accumulate(u, id)
  PROVE  HeldInv' /\ \E n \in Nat : /\ deltas' = deltas \union {<<u, n>>} /\ <<u, n>> \notin deltas
                                    /\ items' = [items EXCEPT ![id] = @ \union {<<u, n>>}]
<1> DEFINE n == Cardinality(Sent(u)) + 1
<1>1. id \in Keys /\ u \in Utt
  BY DEF Keys
<1>2. /\ n <= MaxDeltas
      /\ deltas' = deltas \union {<<u, n>>}
      /\ items' = [items EXCEPT ![id] = @ \union {<<u, n>>}]
      /\ order' = order \/ order' = Append(order, id)
  BY DEF Accumulate, Sent
<1>3. IsFiniteSet(Sent(u)) /\ Cardinality(Sent(u)) \in Nat
  <2>1. Sent(u) \subseteq deltas
    BY DEF Sent
  <2>2. QED
    BY <2>1, FS_Subset, FS_CardinalityType DEF HeldInv
<1>4. n \in 1..MaxDeltas
  BY <1>2, <1>3, Bounds
<1> HIDE DEF n
<1>5. <<u, n>> \in Delta /\ n \in Nat
  BY <1>4 DEF Delta
<1>6. <<u, n>> \notin deltas
  <2>1. \A d \in deltas : d[1] = u => d[2] <= Cardinality(Sent(u))
    BY DEF HeldInv
  <2>2. ~(n <= Cardinality(Sent(u)))
    BY <1>3 DEF n
  <2>3. QED
    BY <2>1, <2>2
<1>7. Sent(u)' = Sent(u) \union {<<u, n>>} /\ Cardinality(Sent(u)') = n
  <2>1. Sent(u)' = Sent(u) \union {<<u, n>>}
    BY <1>2 DEF Sent
  <2>2. <<u, n>> \notin Sent(u)
    BY <1>6 DEF Sent
  <2>3. Cardinality(Sent(u)') = Cardinality(Sent(u)) + 1
    BY <1>3, <2>1, <2>2, FS_AddElement
  <2>4. QED
    BY <2>1, <2>3 DEF n
<1>8. ASSUME NEW d \in deltas' PROVE d[2] <= Cardinality(Sent(d[1])')
  <2>1. CASE d = <<u, n>>
    BY <1>4, <1>7, <2>1
  <2>2. CASE d \in deltas /\ d[1] = u
    <3>1. d[2] <= Cardinality(Sent(u)) /\ d[2] \in Nat
      BY <2>2 DEF HeldInv, Delta
    <3>2. d[2] <= n
      BY <1>3, <3>1 DEF n
    <3>3. QED
      BY <1>7, <2>2, <3>2
  <2>3. CASE d \in deltas /\ d[1] # u
    <3>1. Sent(d[1])' = Sent(d[1])
      BY <1>2, <2>3 DEF Sent
    <3>2. QED
      BY <2>3, <3>1 DEF HeldInv
  <2>4. QED
    BY <1>2, <2>1, <2>2, <2>3
<1>9. IsFiniteSet(deltas') /\ deltas' \subseteq Delta
  BY <1>2, <1>5, FS_AddElement DEF HeldInv
<1>10. items' \in [Keys -> SUBSET Delta] /\ order' \in Seq(Keys)
  BY <1>1, <1>2, <1>5 DEF HeldInv
<1>11. QED
  BY <1>2, <1>5, <1>6, <1>8, <1>9, <1>10 DEF HeldInv

\* Every action keeps the types of what is held.
LEMMA HeldStep == HeldInv /\ [LaneNext]_xvars => HeldInv'
<1> SUFFICES ASSUME HeldInv, [LaneNext]_xvars PROVE HeldInv'
  OBVIOUS
<1>1. ASSUME deltas' = deltas, items' \in [Keys -> SUBSET Delta], order' \in Seq(Keys)
      PROVE  HeldInv'
  BY <1>1 DEF HeldInv, Sent
<1>2. CASE Clock
  BY <1>1, <1>2 DEF Clock, tracker, service, HeldInv
<1>3. CASE TimeoutTick
  BY <1>1, <1>3 DEF TimeoutTick, ForceEnd, DropAll, service
<1>4. CASE EndTurn
  <2>1. (items' = items /\ order' = order) \/ DropAll
    BY <1>4 DEF EndTurn, Flush
  <2>2. deltas' = deltas
    BY <1>4 DEF EndTurn, service
  <2>3. CASE items' = items /\ order' = order
    BY <1>1, <2>2, <2>3 DEF HeldInv
  <2>4. CASE DropAll
    <3>1. items' \in [Keys -> SUBSET Delta] /\ order' \in Seq(Keys)
      BY <2>4 DEF DropAll
    <3>2. QED
      BY <1>1, <2>2, <3>1
  <2>5. QED
    BY <2>1, <2>3, <2>4
<1>5. ASSUME NEW e \in evals, NEW st \in {"ok", "failed"}, EvalDone(e, st) PROVE HeldInv'
  BY <1>1, <1>5 DEF EvalDone, tracker, service, HeldInv
<1>6. ASSUME NEW u \in Utt, Speak(u) \/ Stop(u) \/ Lose(u) PROVE HeldInv'
  BY <1>1, <1>6 DEF Speak, Stop, Lose, tracker, HeldInv
<1>7. ASSUME NEW u \in Utt, NEW id \in {u, NoItem}, NEW whole \in BOOLEAN, Complete(u, id, whole)
      PROVE  HeldInv'
  BY <1>1, <1>7, DropType DEF Complete, DropTaken, HeldInv
<1>8. CASE UNCHANGED xvars
  BY <1>1, <1>8 DEF xvars, tracker, service, HeldInv
<1>9. QED
  BY <1>2, <1>3, <1>4, <1>5, <1>6, <1>7, <1>8, HeldAccumulate DEF LaneNext

\* So they always hold.
LEMMA HeldCorrect == LaneSpec => []HeldInv
<1>1. QED
  BY HeldInit, HeldStep, PTL DEF LaneSpec

-----------------------------------------------------------------------------
\* No sentence reaches beyond the boundary, and no evaluation ends inside one.
OrderInv ==
  /\ Placed /\ SentencesInOrder
  /\ \A i \in 1..Len(sents) : sents[i].end <= segStart
  /\ \A e \in evals :
       /\ e.end \in Nat /\ e.end <= segStart
       /\ \A i \in 1..Len(sents) : sents[i].end <= e.end \/ e.end <= sents[i].start

\* The end of the last sentence of a chain is the end of all.
LEMMA EvalEndIs ==
  ASSUME NEW new, NEW a \in Nat, NEW b \in Nat, Chain(new, a, b)
  PROVE  EvalEnd(new) = b
<1> DEFINE S == {new[i].end : i \in 1..Len(new)}
<1>1. Len(new) \in 1..Len(new) /\ \A i \in 1..Len(new) : new[i].end \in Nat /\ new[i].end <= b
  BY ChainFacts DEF Chain
<1>2. b \in S /\ \A y \in S : y \in Nat /\ b >= y
  BY <1>1 DEF Chain
<1> HIDE DEF S
<1>3. Max(S) \in S /\ \A y \in S : Max(S) >= y
  BY <1>2 DEF Max
<1>4. Max(S) = b
  <2>1. Max(S) \in Nat /\ b >= Max(S) /\ Max(S) >= b
    BY <1>2, <1>3
  <2>2. QED
    BY <2>1
<1>5. QED
  BY <1>4 DEF EvalEnd, S

\* What every call does that moves the boundary from segStart to b.
LEMMA OrderSubmit ==
  ASSUME OrderInv, NEW b \in Nat, NEW new, Chain(new, segStart, b),
         segStart' = b, Submit(new, TRUE) \/ Submit(new, FALSE),
         now' = now, stoppedAt' \in Nat \union {Never}
  PROVE  OrderInv'
<1>1. /\ sents \in Seq(Sentence) /\ segStart \in Nat /\ new \in Seq(Sentence)
      /\ sents' = sents \o new
  BY DEF OrderInv, Placed, Chain, Submit
<1>2. /\ sents' \in Seq(Sentence) /\ Len(sents') = Len(sents) + Len(new)
      /\ \A i \in 1..Len(sents') : sents'[i] = IF i <= Len(sents) THEN sents[i] ELSE new[i - Len(sents)]
      /\ Len(sents) \in Nat /\ Len(new) \in Nat /\ Len(new) >= 1
  BY <1>1, ConcatProperties, LenProperties DEF Chain
<1>3. /\ segStart <= b
      /\ \A i \in 1..Len(new) : new[i].start \in Nat /\ new[i].end \in Nat
  BY <1>1, ChainFacts
<1>4. ASSUME NEW i \in 1..Len(sents')
      PROVE  \/ i \in 1..Len(sents) /\ sents'[i] = sents[i]
             \/ /\ i - Len(sents) \in 1..Len(new) /\ sents'[i] = new[i - Len(sents)]
                /\ i > Len(sents)
  <2>1. CASE i <= Len(sents)
    BY <1>2, <2>1
  <2>2. CASE ~(i <= Len(sents))
    BY <1>2, <2>2
  <2>3. QED
    BY <2>1, <2>2
<1>5. ASSUME NEW i \in 1..Len(sents')
      PROVE  sents'[i].start <= sents'[i].end /\ sents'[i].end <= b
             /\ (sents'[i].end <= segStart \/ segStart <= sents'[i].start)
  <2>1. CASE i \in 1..Len(sents) /\ sents'[i] = sents[i]
    <3>1. sents[i] \in Sentence
      BY <1>1, <2>1
    <3>2. sents[i].end <= segStart /\ sents[i].start <= sents[i].end
      BY <2>1 DEF OrderInv, SentencesInOrder
    <3>3. QED
      BY <1>1, <1>3, <2>1, <3>1, <3>2 DEF Sentence
  <2>2. CASE i - Len(sents) \in 1..Len(new) /\ sents'[i] = new[i - Len(sents)]
    BY <2>2 DEF Chain
  <2>3. QED
    BY <1>4, <2>1, <2>2
<1>6. ASSUME NEW i \in 1..(Len(sents') - 1)
      PROVE  sents'[i].end <= sents'[i + 1].start
  <2>0. i \in 1..Len(sents') /\ i + 1 \in 1..Len(sents') /\ i \in Int
    BY <1>2
  <2>1. CASE i + 1 <= Len(sents)
    <3>1. i \in 1..(Len(sents) - 1) /\ i <= Len(sents)
      BY <1>2, <2>0, <2>1
    <3>2. sents[i].end <= sents[i + 1].start
      BY <3>1 DEF OrderInv, SentencesInOrder
    <3>3. QED
      BY <1>2, <2>0, <2>1, <3>1, <3>2
  <2>2. CASE i = Len(sents)
    <3>1. sents'[i] = sents[i] /\ i \in 1..Len(sents) /\ ~(i + 1 <= Len(sents)) /\ (i + 1) - Len(sents) = 1
      BY <1>2, <2>0, <2>2
    <3>2. sents'[i + 1] = new[1]
      BY <1>2, <2>0, <3>1
    <3>3. sents[i].end <= segStart /\ new[1].start = segStart
      BY <3>1 DEF OrderInv, Chain
    <3>4. QED
      BY <3>1, <3>2, <3>3
  <2>3. CASE i > Len(sents)
    <3> DEFINE j == i - Len(sents)
    <3>1. /\ ~(i <= Len(sents)) /\ ~(i + 1 <= Len(sents)) /\ (i + 1) - Len(sents) = j + 1
          /\ j \in 1..Len(new) /\ j + 1 <= Len(new)
      BY <1>2, <2>0, <2>3
    <3>2. sents'[i] = new[j] /\ sents'[i + 1] = new[j + 1]
      BY <1>2, <2>0, <3>1
    <3> HIDE DEF j
    <3>3. new[j].end = new[j + 1].start
      BY <3>1 DEF Chain
    <3>4. new[j].end \in Nat
      BY <1>3, <3>1
    <3>5. QED
      BY <3>2, <3>3, <3>4
  <2>4. QED
    BY <1>2, <2>0, <2>1, <2>2, <2>3
<1>7. sents' # <<>> => Last(sents').end <= b
  <2>1. Len(sents') \in 1..Len(sents')
    BY <1>2
  <2>2. QED
    BY <1>5, <2>1 DEF Last
<1>8. \/ evals' = evals /\ anchor' = anchor
      \/ /\ \E st \in {"running", "gated"} : evals' = evals \union {[start |-> anchor, end |-> b, st |-> st]}
         /\ anchor' = b
  <2>1. EvalEnd(new) = b
    BY <1>1, EvalEndIs
  <2>2. QED
    BY <2>1 DEF Submit, SubmitEval
<1>11. anchor' \in Nat /\ evals' \subseteq Window
  BY <1>8 DEF OrderInv, Placed, Window
<1>9. ASSUME NEW e \in evals'
      PROVE  /\ e.end \in Nat /\ e.end <= b
             /\ \A i \in 1..Len(sents') : sents'[i].end <= e.end \/ e.end <= sents'[i].start
  <2>1. CASE e \in evals
    <3>1. e.end \in Nat /\ e.end <= segStart
      BY <2>1 DEF OrderInv
    <3>2. ASSUME NEW i \in 1..Len(sents')
          PROVE  sents'[i].end <= e.end \/ e.end <= sents'[i].start
      <4>1. CASE i \in 1..Len(sents) /\ sents'[i] = sents[i]
        BY <2>1, <4>1 DEF OrderInv
      <4>2. CASE i - Len(sents) \in 1..Len(new) /\ sents'[i] = new[i - Len(sents)]
        <5>1. segStart <= sents'[i].start /\ sents'[i].start \in Nat
          BY <1>3, <4>2 DEF Chain
        <5>2. QED
          BY <1>1, <3>1, <5>1
      <4>3. QED
        BY <1>4, <4>1, <4>2
    <3>3. e.end <= b
      BY <1>1, <1>3, <3>1
    <3>4. QED
      BY <3>1, <3>2, <3>3
  <2>2. CASE e.end = b
    BY <1>5, <2>2
  <2>3. QED
    BY <1>8, <2>1, <2>2
<1>10. QED
  BY <1>2, <1>5, <1>6, <1>7, <1>9, <1>11 DEF OrderInv, Placed, SentencesInOrder

\* What every call does that moves the boundary, if at all, without a sentence.
LEMMA OrderMove ==
  ASSUME OrderInv, sents' = sents, now' \in Nat, stoppedAt' \in Nat \union {Never},
         segStart' \in Nat, segStart <= segStart', anchor' = anchor, evals' \subseteq Window,
         \A e \in evals' : \E f \in evals : e.end = f.end
  PROVE  OrderInv'
<1>1. /\ sents \in Seq(Sentence) /\ segStart \in Nat /\ Len(sents) \in Nat
      /\ \A i \in 1..Len(sents) : sents[i] \in Sentence
  BY LenProperties DEF OrderInv, Placed
<1>2. \A i \in 1..Len(sents) : sents[i].end \in Nat /\ sents[i].end <= segStart'
  BY <1>1 DEF OrderInv, Sentence
<1>3. sents # <<>> => Last(sents).end <= segStart'
  <2>1. sents # <<>> => Len(sents) \in 1..Len(sents)
    BY <1>1
  <2>2. QED
    BY <1>2, <2>1 DEF Last
<1>4. \A e \in evals' :
        /\ e.end \in Nat /\ e.end <= segStart'
        /\ \A i \in 1..Len(sents) : sents[i].end <= e.end \/ e.end <= sents[i].start
  BY <1>1 DEF OrderInv
<1>5. QED
  BY <1>2, <1>3, <1>4 DEF OrderInv, Placed, SentencesInOrder

\* The boundary is at 0 in the beginning.
LEMMA OrderInit == LaneInit => OrderInv
<1> SUFFICES ASSUME LaneInit PROVE OrderInv
  OBVIOUS
<1>1. /\ sents = <<>> /\ sents \in Seq(Sentence) /\ Len(sents) = 0
  BY DEF LaneInit
<1>2. now = 0 /\ segStart = 0 /\ stoppedAt = Never /\ evals = {} /\ anchor = 0
  BY DEF LaneInit
<1>3. 1..Len(sents) = {} /\ 1..(Len(sents) - 1) = {}
  BY <1>1
<1>4. QED
  BY <1>1, <1>2, <1>3 DEF OrderInv, Placed, SentencesInOrder

\* A boundary of at least the minimum length is later than the last one.
LEMMA BoundaryMoves ==
  ASSUME segStart \in Nat, NEW x \in Nat
  PROVE  /\ Max2(x, segStart + MinSentence) \in Nat
         /\ segStart <= Max2(x, segStart + MinSentence)
BY Bounds DEF Max2

\* Speech, silence, deltas and results of workers.
LEMMA OrderQuiet ==
  ASSUME HeldInv, OrderInv,
         \/ Clock
         \/ \E e \in evals, st \in {"ok", "failed"} : EvalDone(e, st)
         \/ \E u \in Utt : Stop(u) \/ Lose(u)
         \/ \E u \in Utt : \E id \in {u, NoItem} : Accumulate(u, id)
  PROVE  OrderInv'
<1>0. now \in Nat /\ segStart \in Nat /\ Placed
  BY DEF OrderInv, Placed
<1>1. CASE Clock
  BY <1>0, <1>1, OrderMove DEF Clock, tracker, lane, Placed
<1>2. ASSUME NEW e \in evals, NEW st \in {"ok", "failed"}, EvalDone(e, st) PROVE OrderInv'
  <2>1. e \in Window /\ [e EXCEPT !.st = st] \in Window /\ [e EXCEPT !.st = st].end = e.end
    BY <1>0 DEF Placed, Window
  <2>2. /\ \A f \in evals' : f \in evals \/ f = [e EXCEPT !.st = st]
    BY <1>2 DEF EvalDone
  <2>3. evals' \subseteq Window /\ \A f \in evals' : \E g \in evals : f.end = g.end
    BY <1>0, <2>1, <2>2 DEF Placed
  <2>4. QED
    BY <1>0, <1>2, <2>3, OrderMove DEF EvalDone, tracker, Placed
<1>3. ASSUME NEW u \in Utt, Stop(u) PROVE OrderInv'
  BY <1>0, <1>3, OrderMove DEF Stop, lane, Placed
<1>4. ASSUME NEW u \in Utt, Lose(u) PROVE OrderInv'
  BY <1>0, <1>4, OrderMove DEF Lose, tracker, lane, Placed
<1>5. ASSUME NEW u \in Utt, NEW id \in {u, NoItem}, Accumulate(u, id) PROVE OrderInv'
  BY <1>0, <1>5, OrderMove DEF Accumulate, lane, Placed
<1>6. QED
  BY <1>1, <1>2, <1>3, <1>4, <1>5

\* Silence that is skipped moves the boundary forward.
LEMMA OrderSpeak ==
  ASSUME HeldInv, OrderInv, NEW u \in Utt, Speak(u)
  PROVE  OrderInv'
<1>1. now \in Nat /\ segStart \in Nat /\ Placed
  BY DEF OrderInv, Placed
<1>2. \A x \in Snap(now) : SkipSilence(x) \in Nat /\ segStart <= SkipSilence(x)
  BY <1>1, SnapType DEF SkipSilence, Max2
<1>3. segStart' \in Nat /\ segStart <= segStart'
  BY <1>1, <1>2 DEF Speak
<1>4. QED
  BY <1>1, <1>3, OrderMove DEF Speak, lane, Placed

\* A completed utterance moves it to its end.
LEMMA OrderComplete ==
  ASSUME HeldInv, OrderInv, NEW u \in Utt, NEW id \in {u, NoItem}, NEW whole \in BOOLEAN,
         Complete(u, id, whole)
  PROVE  OrderInv'
<1> DEFINE from == IF stoppedAt # Never THEN stoppedAt ELSE now
           text == TakeText(u, id, whole)
<1>1. Placed /\ now \in Nat /\ segStart \in Nat /\ from \in Nat
  BY DEF OrderInv, Placed
<1>2. stoppedAt' \in Nat \union {Never} /\ now' = now
  BY DEF Complete
<1>3. evals \subseteq Window /\ "punct" \in {"punct", "utterance", "timeout", "flush"}
  BY <1>1 DEF Placed
<1>4. text \in Texts
  BY TakenKeyType DEF HeldInv, TakeText, Texts
<1>5. u \in Keys /\ sents \in Seq(Sentence)
  BY <1>1 DEF Keys, Placed
<1> HIDE DEF from, text
<1>6. PICK x \in Snap(from) :
        LET end == Max2(x, segStart + MinSentence) IN
        /\ segStart' = end
        /\ \/ /\ text # NoText
              /\ \E new \in Emissions(segStart, end, text, u, "punct") : Submit(new, TRUE)
           \/ Submit(Pieces(<<segStart, end>>, NoText, u, "utterance"), TRUE)
           \/ UNCHANGED lane
  BY DEF Complete, from, text
<1>7. /\ Max2(x, segStart + MinSentence) \in Nat
      /\ segStart <= Max2(x, segStart + MinSentence)
  BY <1>1, SnapType, BoundaryMoves
<1> DEFINE end == Max2(x, segStart + MinSentence)
<1> HIDE DEF end
<1>8. end \in Nat /\ segStart <= end /\ segStart' = end
  BY <1>6, <1>7 DEF end
<1>9. ASSUME NEW new \in Emissions(segStart, end, text, u, "punct"), Submit(new, TRUE)
      PROVE  OrderInv'
  <2>1. Chain(new, segStart, end)
    BY <1>1, <1>3, <1>4, <1>5, <1>8, <1>9, EmissionsChain
  <2>2. QED
    BY <1>2, <1>8, <1>9, <2>1, OrderSubmit
<1>10. ASSUME Submit(Pieces(<<segStart, end>>, NoText, u, "utterance"), TRUE)
       PROVE  OrderInv'
  <2>1. Chain(Pieces(<<segStart, end>>, NoText, u, "utterance"), segStart, end)
    BY <1>1, <1>5, <1>8, UtteranceChain
  <2>2. QED
    BY <1>2, <1>8, <1>10, <2>1, OrderSubmit
<1>11. ASSUME UNCHANGED lane
       PROVE  OrderInv'
  <2>1. sents' = sents /\ anchor' = anchor /\ evals' = evals
    BY <1>11 DEF lane
  <2>2. QED
    BY <1>1, <1>2, <1>3, <1>8, <2>1, OrderMove
<1>12. QED
  BY <1>6, <1>9, <1>10, <1>11 DEF end

\* A timeout moves it to the clock.
LEMMA OrderTick ==
  ASSUME HeldInv, OrderInv, TimeoutTick
  PROVE  OrderInv'
<1>1. Placed /\ now \in Nat /\ segStart \in Nat /\ sents \in Seq(Sentence) /\ NoItem \in Keys
      /\ [deltas |-> Held, whole |-> {}] \in Texts
  BY HeldText DEF HeldInv, OrderInv, Placed, Keys
<1>2. PICK x \in Snap(now) : ForceEnd(Max2(x, segStart + MinSentence))
  BY DEF TimeoutTick
<1> DEFINE end == Max2(x, segStart + MinSentence)
<1>3. end \in Nat /\ segStart <= end /\ ForceEnd(end)
  BY <1>1, <1>2, SnapType, BoundaryMoves
<1> HIDE DEF end
<1>4. PICK new \in Emissions(segStart, end, [deltas |-> Held, whole |-> {}], NoItem, "timeout") :
        Submit(new, TRUE)
  BY <1>3 DEF ForceEnd
<1>5. Chain(new, segStart, end)
  BY <1>1, <1>3, <1>4, EmissionsChain
<1>6. segStart' = end /\ now' = now /\ stoppedAt' \in Nat \union {Never}
  BY <1>1, <1>3 DEF ForceEnd, TimeoutTick, Placed
<1>7. QED
  BY <1>1, <1>3, <1>4, <1>5, <1>6, OrderSubmit

\* So does the end of the turn, if something is held.
LEMMA OrderEndTurn ==
  ASSUME HeldInv, OrderInv, EndTurn
  PROVE  OrderInv'
<1>1. Placed /\ now \in Nat /\ segStart \in Nat /\ sents \in Seq(Sentence) /\ NoItem \in Keys
      /\ [deltas |-> Held, whole |-> {}] \in Texts
  BY HeldText DEF HeldInv, OrderInv, Placed, Keys
<1>2. Flush /\ now' = now /\ stoppedAt' = stoppedAt
  BY DEF EndTurn
<1>3. CASE Held = {} /\ UNCHANGED <<items, order, segStart, lane>>
  BY <1>1, <1>2, <1>3, OrderMove DEF lane, Placed
<1>4. CASE ~(Held = {} /\ UNCHANGED <<items, order, segStart, lane>>)
  <2> DEFINE end == Max2(now, segStart + MinSentence)
  <2>1. end \in Nat /\ segStart <= end
    BY <1>1, BoundaryMoves
  <2>2. PICK new \in Emissions(segStart, end, [deltas |-> Held, whole |-> {}], NoItem, "flush") :
          Submit(new, FALSE)
    BY <1>2, <1>4 DEF Flush
  <2>3. segStart' = end /\ DropAll
    BY <1>2, <1>4 DEF Flush
  <2> HIDE DEF end
  <2>4. Chain(new, segStart, end)
    BY <1>1, <2>1, <2>2, EmissionsChain
  <2>5. QED
    BY <1>1, <1>2, <2>1, <2>2, <2>3, <2>4, OrderSubmit DEF Placed
<1>5. QED
  BY <1>3, <1>4

\* Every action keeps the order of the sentences.
LEMMA OrderStep == HeldInv /\ OrderInv /\ [LaneNext]_xvars => OrderInv'
<1> SUFFICES ASSUME HeldInv, OrderInv, [LaneNext]_xvars PROVE OrderInv'
  OBVIOUS
<1>1. CASE UNCHANGED xvars
  <2>1. UNCHANGED <<now, segStart, stoppedAt, sents, anchor, evals>>
    BY <1>1 DEF xvars, tracker, lane
  <2>2. QED
    BY <2>1 DEF OrderInv, Placed, SentencesInOrder
<1>2. CASE LaneNext
  <2>1. ASSUME NEW u \in Utt, NEW id \in {u, NoItem}, NEW whole \in BOOLEAN, Complete(u, id, whole)
        PROVE  OrderInv'
    BY <2>1, OrderComplete
  <2>2. QED
    BY <1>2, <2>1, OrderQuiet, OrderSpeak, OrderTick, OrderEndTurn DEF LaneNext
<1>3. QED
  BY <1>1, <1>2

\* So they are always in order.
LEMMA OrderCorrect == LaneSpec => []OrderInv
<1>1. QED
  BY HeldCorrect, OrderInit, OrderStep, PTL DEF LaneSpec

\* However late, lost, snapped or forced the boundaries are, the sentences
\* follow one another without overlap.
THEOREM SentencesCorrect == LaneSpec => []SentencesInOrder
<1>1. OrderInv => SentencesInOrder
  BY DEF OrderInv
<1>2. QED
  BY <1>1, OrderCorrect, PTL

\* No evaluation window begins or ends inside a sentence.
THEOREM UncutCorrect == LaneSpec => []NoSentenceCut
<1>1. OrderInv => NoSentenceCut
  BY DEF OrderInv, NoSentenceCut
<1>2. QED
  BY <1>1, OrderCorrect, PTL
-----------------------------------------------------------------------------
\* What was sent is held under one item, or in the sentences of one call, or
\* has been replaced by the whole transcript of its utterance.
OnceInv ==
  /\ sents \in Seq(Sentence)
  /\ \A k \in Keys, l \in Keys, d \in deltas : d \in items[k] /\ d \in items[l] => k = l
  /\ \A k \in Keys, i \in 1..Len(sents), d \in deltas : ~(d \in items[k] /\ d \in sents[i].text.deltas)
  /\ \A i \in 1..Len(sents), j \in 1..Len(sents), d \in deltas :
       d \in sents[i].text.deltas /\ d \in sents[j].text.deltas => sents[i].em = sents[j].em
  /\ \A d \in deltas :
       \/ \E k \in Keys : d \in items[k]
       \/ \E i \in 1..Len(sents) : d \in sents[i].text.deltas \/ d[1] \in sents[i].text.whole
  /\ \A k \in Keys : items[k] \subseteq deltas
  /\ \A i \in 1..Len(sents) : sents[i].text.deltas \subseteq deltas
  /\ \A u \in Utt, d \in deltas : d \in items[u] => d[1] = u

\* Nothing is held and nothing is said in the beginning.
LEMMA OnceInit == LaneInit => OnceInv
<1> SUFFICES ASSUME LaneInit PROVE OnceInv
  OBVIOUS
<1>1. sents = <<>> /\ sents \in Seq(Sentence) /\ 1..Len(sents) = {}
  BY DEF LaneInit
<1>2. deltas = {} /\ \A k \in Keys : items[k] = {}
  BY DEF LaneInit
<1>3. Utt \subseteq Keys
  BY DEF Keys
<1>4. QED
  BY <1>1, <1>2, <1>3 DEF OnceInv

\* A call that makes sentences of what it takes from the items.
LEMMA OnceSubmit ==
  ASSUME OnceInv, NEW text \in Texts, NEW new \in Seq(Sentence), Len(new) >= 1,
         \A i \in 1..Len(new) : new[i].text = text /\ new[i].em = Len(sents),
         sents' = sents \o new, deltas' = deltas,
         \A k \in Keys : items'[k] \subseteq items[k],
         \A d \in text.deltas : /\ \E k \in Keys : d \in items[k]
                                /\ \A k \in Keys : d \notin items'[k],
         \A k \in Keys, d \in deltas :
           d \in items[k] /\ d \notin items'[k] => d \in text.deltas \/ d[1] \in text.whole
  PROVE  OnceInv'
<1>1. /\ sents' \in Seq(Sentence) /\ Len(sents') = Len(sents) + Len(new)
      /\ \A i \in 1..Len(sents') : sents'[i] = IF i <= Len(sents) THEN sents[i] ELSE new[i - Len(sents)]
      /\ Len(sents) \in Nat /\ Len(new) \in Nat
  BY ConcatProperties, LenProperties DEF OnceInv
<1>2. ASSUME NEW i \in 1..Len(sents')
      PROVE  \/ i \in 1..Len(sents) /\ sents'[i] = sents[i]
             \/ sents'[i].text = text /\ sents'[i].em = Len(sents)
  <2>1. CASE i <= Len(sents)
    BY <1>1, <2>1
  <2>2. CASE ~(i <= Len(sents))
    <3>1. i - Len(sents) \in 1..Len(new) /\ sents'[i] = new[i - Len(sents)]
      BY <1>1, <2>2
    <3>2. QED
      BY <3>1
  <2>3. QED
    BY <2>1, <2>2
<1>3. \A i \in 1..Len(sents) : i \in 1..Len(sents') /\ sents'[i] = sents[i]
  BY <1>1
<1>4. \E i \in 1..Len(sents') : sents'[i].text = text
  <2>1. Len(sents') \in 1..Len(sents') /\ ~(Len(sents') <= Len(sents))
        /\ Len(sents') - Len(sents) = Len(new) /\ Len(new) \in 1..Len(new)
    BY <1>1
  <2>2. sents'[Len(sents')] = new[Len(new)]
    BY <1>1, <2>1
  <2>3. QED
    BY <2>1, <2>2
<1>5. \A d \in text.deltas : d \in deltas /\ \A i \in 1..Len(sents) : d \notin sents[i].text.deltas
  BY DEF OnceInv
<1>6. \A k \in Keys, l \in Keys, d \in deltas : d \in items'[k] /\ d \in items'[l] => k = l
  BY DEF OnceInv
<1>7. \A k \in Keys, i \in 1..Len(sents'), d \in deltas :
        ~(d \in items'[k] /\ d \in sents'[i].text.deltas)
  BY <1>2 DEF OnceInv
<1>8. ASSUME NEW i \in 1..Len(sents'), NEW j \in 1..Len(sents'), NEW d \in deltas,
             d \in sents'[i].text.deltas, d \in sents'[j].text.deltas
      PROVE  sents'[i].em = sents'[j].em
  <2>1. CASE d \in text.deltas
    BY <1>2, <1>5, <1>8, <2>1
  <2>2. CASE d \notin text.deltas
    BY <1>2, <1>8, <2>2 DEF OnceInv
  <2>3. QED
    BY <2>1, <2>2
<1>9. ASSUME NEW d \in deltas
      PROVE  \/ \E k \in Keys : d \in items'[k]
             \/ \E i \in 1..Len(sents') : d \in sents'[i].text.deltas \/ d[1] \in sents'[i].text.whole
  <2>1. CASE \E k \in Keys : d \in items[k]
    BY <1>4, <2>1
  <2>2. CASE \E i \in 1..Len(sents) : d \in sents[i].text.deltas \/ d[1] \in sents[i].text.whole
    BY <1>3, <2>2
  <2>3. QED
    BY <2>1, <2>2 DEF OnceInv
<1>10. \A k \in Keys : items'[k] \subseteq deltas
  BY DEF OnceInv
<1>11. \A i \in 1..Len(sents') : sents'[i].text.deltas \subseteq deltas
  BY <1>2, <1>5 DEF OnceInv
<1>12. \A u \in Utt, d \in deltas : d \in items'[u] => d[1] = u
  BY DEF OnceInv, Keys
<1>13. sents' \in Seq(Sentence)
  BY <1>1
<1>14. deltas' = deltas
  OBVIOUS
<1>15. QED
  BY ONLY <1>6, <1>7, <1>8, <1>9, <1>10, <1>11, <1>12, <1>13, <1>14 DEF OnceInv

\* A step that neither takes nor says anything.
LEMMA OnceKeep ==
  ASSUME OnceInv, sents' = sents, deltas' = deltas, \A k \in Keys : items'[k] = items[k]
  PROVE  OnceInv'
<1>1. Utt \subseteq Keys
  BY DEF Keys
<1>2. QED
  BY <1>1 DEF OnceInv

\* A new delta is held under the one item it came with.
LEMMA OnceAccumulate ==
  ASSUME HeldInv, OnceInv, NEW u \in Utt, NEW id \in {u, NoItem}, Accumulate(u, id)
  PROVE  OnceInv'
<1>1. PICK n \in Nat : /\ deltas' = deltas \union {<<u, n>>} /\ <<u, n>> \notin deltas
                       /\ items' = [items EXCEPT ![id] = @ \union {<<u, n>>}]
  BY HeldAccumulate
<1>2. sents' = sents
  BY DEF Accumulate, lane
<1>3. id \in Keys /\ Utt \subseteq Keys /\ u \notin {NoItem}
  BY Bounds DEF Keys, Utt, NoItem
<1>4. \A k \in Keys : items'[k] = IF k = id THEN items[k] \union {<<u, n>>} ELSE items[k]
  BY <1>1, <1>3 DEF HeldInv
<1>5. \A k \in Keys : <<u, n>> \notin items[k]
  BY <1>1 DEF OnceInv
<1>6. \A i \in 1..Len(sents) : <<u, n>> \notin sents[i].text.deltas
  BY <1>1 DEF OnceInv
<1>7. \A k \in Keys, l \in Keys, d \in deltas' : d \in items'[k] /\ d \in items'[l] => k = l
  BY <1>1, <1>4, <1>5 DEF OnceInv
<1>8. \A k \in Keys, i \in 1..Len(sents), d \in deltas' :
        ~(d \in items'[k] /\ d \in sents[i].text.deltas)
  BY <1>1, <1>4, <1>6 DEF OnceInv
<1>9. \A i \in 1..Len(sents), j \in 1..Len(sents), d \in deltas' :
        d \in sents[i].text.deltas /\ d \in sents[j].text.deltas => sents[i].em = sents[j].em
  BY <1>1, <1>6 DEF OnceInv
<1>10. \A d \in deltas' :
         \/ \E k \in Keys : d \in items'[k]
         \/ \E i \in 1..Len(sents) : d \in sents[i].text.deltas \/ d[1] \in sents[i].text.whole
  <2>1. <<u, n>> \in items'[id]
    BY <1>3, <1>4
  <2>2. QED
    BY <1>1, <1>3, <1>4, <2>1 DEF OnceInv
<1>11. /\ \A k \in Keys : items'[k] \subseteq deltas'
       /\ \A i \in 1..Len(sents) : sents[i].text.deltas \subseteq deltas'
  BY <1>1, <1>4 DEF OnceInv
<1>12. \A v \in Utt, d \in deltas' : d \in items'[v] => d[1] = v
  <2>1. \A v \in Utt : v \in Keys /\ v # NoItem
    BY Bounds DEF Keys, Utt, NoItem
  <2>2. \A v \in Utt : v = id => v = u
    BY <2>1
  <2>3. QED
    BY <1>1, <1>4, <2>1, <2>2 DEF OnceInv
<1>13. QED
  BY <1>2, <1>7, <1>8, <1>9, <1>10, <1>11, <1>12 DEF OnceInv

\* All that is held becomes the text of one call.
LEMMA OnceDropAll ==
  ASSUME HeldInv, OnceInv, NEW a \in Nat, NEW b \in Nat,
         NEW source \in {"punct", "utterance", "timeout", "flush"},
         NEW new \in Emissions(a, b, [deltas |-> Held, whole |-> {}], NoItem, source),
         sents' = sents \o new, deltas' = deltas, DropAll
  PROVE  OnceInv'
<1> DEFINE text == [deltas |-> Held, whole |-> {}]
<1>1. text \in Texts /\ NoItem \in Keys /\ sents \in Seq(Sentence)
  BY HeldText DEF HeldInv, OnceInv, Keys
<1>2. text.deltas = Held
  OBVIOUS
<1> HIDE DEF text
<1>3. new \in Emissions(a, b, text, NoItem, source)
  BY DEF text
<1>4. /\ Chain(new, a, b)
      /\ \A i \in 1..Len(new) : new[i].text = text /\ new[i].em = Len(sents)
  BY <1>1, <1>3, EmissionsChain
<1>5. \A k \in Keys : items'[k] = {}
  BY DEF DropAll
<1>6. \A d \in text.deltas : \E k \in Keys : d \in items[k]
  BY <1>2 DEF Held
<1>7. \A k \in Keys, d \in deltas : d \in items[k] => d \in text.deltas
  BY <1>2 DEF Held
<1>8. new \in Seq(Sentence) /\ Len(new) >= 1
  BY <1>4 DEF Chain
<1>9. QED
  BY <1>1, <1>4, <1>5, <1>6, <1>7, <1>8, OnceSubmit

\* A completed utterance says the deltas of one item, or its whole transcript
\* takes their place.
LEMMA OnceComplete ==
  ASSUME HeldInv, OrderInv, OnceInv, NEW u \in Utt, NEW id \in {u, NoItem}, NEW whole \in BOOLEAN,
         Complete(u, id, whole)
  PROVE  OnceInv'
<1> DEFINE from == IF stoppedAt # Never THEN stoppedAt ELSE now
           text == TakeText(u, id, whole)
           k0 == TakenKey(id)
<1>1. /\ now \in Nat /\ segStart \in Nat /\ from \in Nat /\ sents \in Seq(Sentence)
  BY DEF OrderInv, Placed
<1>2. k0 \in Keys /\ u \in Keys /\ id \in Keys
  BY TakenKeyType DEF HeldInv, Keys
<1>3. text \in Texts
  BY <1>2 DEF HeldInv, TakeText, Texts
<1>4. deltas' = deltas
  BY DEF Complete
<1>5. /\ ~whole => text.deltas = items[k0] /\ items' = [items EXCEPT ![k0] = {}]
      /\ whole => text.deltas = {} /\ text.whole = {u}
      /\ whole => items' = items \/ (id # NoItem /\ items' = [items EXCEPT ![id] = {}])
  <2>1. DropTaken(id, whole)
    BY DEF Complete
  <2>2. CASE whole
    <3>1. text.deltas = {} /\ text.whole = {u}
      BY <2>2 DEF TakeText
    <3>2. items' = items \/ (id # NoItem /\ items' = [items EXCEPT ![id] = {}])
      BY <2>1, <2>2 DEF DropTaken, Drop
    <3>3. QED
      BY <2>2, <3>1, <3>2
  <2>3. CASE ~whole
    <3>1. text.deltas = items[k0]
      BY <2>3 DEF TakeText
    <3>2. items' = [items EXCEPT ![k0] = {}]
      BY <2>1, <2>3 DEF DropTaken, Drop
    <3>3. QED
      BY <2>3, <3>1, <3>2
  <2>4. QED
    BY <2>2, <2>3
<1>6. /\ \A k \in Keys : items'[k] \subseteq items[k]
      /\ \A d \in text.deltas : /\ \E k \in Keys : d \in items[k]
                                /\ \A k \in Keys : d \notin items'[k]
      /\ \A k \in Keys, d \in deltas :
           d \in items[k] /\ d \notin items'[k] => d \in text.deltas \/ d[1] \in text.whole
  <2>1. CASE ~whole
    <3>1. \A k \in Keys : items'[k] = IF k = k0 THEN {} ELSE items[k]
      BY <1>2, <1>5, <2>1 DEF HeldInv
    <3>2. \A d \in text.deltas : d \in items[k0] /\ d \in deltas
      BY <1>2, <1>5, <2>1 DEF OnceInv
    <3>3. \A d \in text.deltas : \A k \in Keys : d \notin items'[k]
      BY <1>2, <3>1, <3>2 DEF OnceInv
    <3>4. QED
      BY <1>2, <1>5, <2>1, <3>1, <3>2, <3>3
  <2>2. CASE whole /\ items' = items
    BY <1>5, <2>2
  <2>3. CASE whole /\ id # NoItem /\ items' = [items EXCEPT ![id] = {}]
    <3>1. id = u
      BY <2>3
    <3>2. \A k \in Keys : items'[k] = IF k = u THEN {} ELSE items[k]
      BY <1>2, <2>3, <3>1 DEF HeldInv
    <3>3. \A d \in deltas : d \in items[u] => d[1] = u
      BY DEF OnceInv
    <3>4. QED
      BY <1>5, <2>3, <3>2, <3>3
  <2>4. QED
    BY <1>5, <2>1, <2>2, <2>3
<1> HIDE DEF from, text, k0
<1>7. PICK x \in Snap(from) :
        LET end == Max2(x, segStart + MinSentence) IN
        \/ \E new \in Emissions(segStart, end, text, u, "punct") : Submit(new, TRUE)
        \/ text = NoText /\ Submit(Pieces(<<segStart, end>>, NoText, u, "utterance"), TRUE)
        \/ text = NoText /\ UNCHANGED lane
  BY DEF Complete, from, text
<1> DEFINE end == Max2(x, segStart + MinSentence)
<1>8. end \in Nat /\ segStart <= end
  BY <1>1, SnapType, BoundaryMoves
<1> HIDE DEF end
<1>9. ASSUME NEW new \in Emissions(segStart, end, text, u, "punct"), Submit(new, TRUE)
      PROVE  OnceInv'
  <2>1. /\ Chain(new, segStart, end)
        /\ \A i \in 1..Len(new) : new[i].text = text /\ new[i].em = Len(sents)
    BY <1>1, <1>2, <1>3, <1>8, EmissionsChain
  <2>2. new \in Seq(Sentence) /\ Len(new) >= 1 /\ sents' = sents \o new
    BY <1>9, <2>1 DEF Chain, Submit
  <2>3. QED
    BY <1>3, <1>4, <1>6, <2>1, <2>2, OnceSubmit
<1>10. ASSUME text = NoText, Submit(Pieces(<<segStart, end>>, NoText, u, "utterance"), TRUE)
       PROVE  OnceInv'
  <2> DEFINE new == Pieces(<<segStart, end>>, NoText, u, "utterance")
  <2>1. Chain(new, segStart, end) /\ \A i \in 1..Len(new) : new[i].text = text
    BY <1>1, <1>2, <1>8, <1>10, UtteranceChain
  <2>2. \A i \in 1..Len(new) : new[i].em = Len(sents)
    BY DEF Pieces
  <2>3. sents' = sents \o new
    BY <1>10 DEF Submit
  <2> HIDE DEF new
  <2>4. new \in Seq(Sentence) /\ Len(new) >= 1
    BY <2>1 DEF Chain
  <2>5. QED
    BY <1>3, <1>4, <1>6, <2>1, <2>2, <2>3, <2>4, OnceSubmit
<1>11. ASSUME text = NoText, UNCHANGED lane
       PROVE  OnceInv'
  <2>1. sents' = sents /\ text.deltas = {} /\ text.whole = {}
    BY <1>11 DEF lane, NoText
  <2>2. \A k \in Keys : items'[k] = items[k]
    <3>1. ASSUME NEW k \in Keys, NEW d \in items[k] PROVE d \in items'[k]
      <4>1. d \in deltas
        BY DEF OnceInv
      <4>2. QED
        BY <1>6, <2>1, <4>1
    <3>2. \A k \in Keys : items'[k] \subseteq items[k] /\ items[k] \subseteq items'[k]
      BY <1>6, <3>1
    <3>3. QED
      BY <3>2
  <2>3. QED
    BY <1>4, <2>1, <2>2, OnceKeep
<1>12. QED
  BY <1>7, <1>9, <1>10, <1>11 DEF end

\* No call takes what another has said.
LEMMA OnceStep == HeldInv /\ OrderInv /\ OnceInv /\ [LaneNext]_xvars => OnceInv'
<1> SUFFICES ASSUME HeldInv, OrderInv, OnceInv, [LaneNext]_xvars PROVE OnceInv'
  OBVIOUS
<1>0. now \in Nat /\ segStart \in Nat
  BY DEF OrderInv, Placed
<1>1. ASSUME sents' = sents, deltas' = deltas, items' = items PROVE OnceInv'
  BY <1>1, OnceKeep
<1>2. CASE Clock \/ UNCHANGED xvars
  BY <1>1, <1>2 DEF Clock, xvars, tracker, lane, service
<1>3. ASSUME NEW e \in evals, NEW st \in {"ok", "failed"}, EvalDone(e, st) PROVE OnceInv'
  BY <1>1, <1>3 DEF EvalDone, tracker, service
<1>4. ASSUME NEW u \in Utt, Speak(u) \/ Stop(u) \/ Lose(u) PROVE OnceInv'
  BY <1>1, <1>4 DEF Speak, Stop, Lose, tracker, lane
<1>5. ASSUME NEW u \in Utt, NEW id \in {u, NoItem}, NEW whole \in BOOLEAN, Complete(u, id, whole)
      PROVE  OnceInv'
  BY <1>5, OnceComplete
<1>6. CASE TimeoutTick
  <2>1. PICK x \in Snap(now) : ForceEnd(Max2(x, segStart + MinSentence))
    BY <1>6 DEF TimeoutTick
  <2>2. Max2(x, segStart + MinSentence) \in Nat
    BY <1>0, SnapType, BoundaryMoves
  <2>3. PICK new \in Emissions(segStart, Max2(x, segStart + MinSentence),
                               [deltas |-> Held, whole |-> {}], NoItem, "timeout") :
          Submit(new, TRUE)
    BY <2>1 DEF ForceEnd
  <2>4. sents' = sents \o new /\ DropAll /\ deltas' = deltas
    BY <1>6, <2>1, <2>3 DEF Submit, ForceEnd, TimeoutTick, service
  <2>5. QED
    BY <1>0, <2>2, <2>3, <2>4, OnceDropAll
<1>7. CASE EndTurn
  <2>1. deltas' = deltas /\ Flush
    BY <1>7 DEF EndTurn, service
  <2>2. CASE UNCHANGED <<items, order, segStart, lane>>
    BY <1>1, <2>1, <2>2 DEF lane
  <2>3. CASE ~UNCHANGED <<items, order, segStart, lane>>
    <3>1. segStart' = Max2(now, segStart + MinSentence) /\ DropAll
      BY <2>1, <2>3 DEF Flush
    <3>2. segStart' \in Nat
      BY <1>0, <3>1, BoundaryMoves
    <3>3. PICK new \in Emissions(segStart, segStart', [deltas |-> Held, whole |-> {}], NoItem, "flush") :
            Submit(new, FALSE)
      BY <2>1, <2>3 DEF Flush
    <3>4. sents' = sents \o new
      BY <3>3 DEF Submit
    <3>5. QED
      BY <1>0, <2>1, <3>1, <3>2, <3>3, <3>4, OnceDropAll
  <2>4. QED
    BY <2>2, <2>3
<1>8. QED
  BY <1>2, <1>3, <1>4, <1>5, <1>6, <1>7, OnceAccumulate DEF LaneNext

\* At most one call, or one item, has a delta.
LEMMA OnceIsOnce == OnceInv => DeltasOnce
<1> SUFFICES ASSUME OnceInv, NEW d \in deltas
             PROVE  LET calls == {sents[i].em : i \in {j \in 1..Len(sents) : d \in sents[j].text.deltas}}
                        held == {k \in Keys : d \in items[k]} IN
                    /\ Cardinality(calls) + Cardinality(held) <= 1
                    /\ \/ Cardinality(calls) + Cardinality(held) = 1
                       \/ \E i \in 1..Len(sents) : d[1] \in sents[i].text.whole
  BY DEF DeltasOnce
<1> DEFINE calls == {sents[i].em : i \in {j \in 1..Len(sents) : d \in sents[j].text.deltas}}
           held == {k \in Keys : d \in items[k]}
<1>1. Cardinality({}) = 0 /\ \A x : Cardinality({x}) = 1
  BY FS_EmptySet, FS_Singleton
<1>2. \A i, j : i \in {x \in 1..Len(sents) : d \in sents[x].text.deltas}
                /\ j \in {x \in 1..Len(sents) : d \in sents[x].text.deltas} => sents[i].em = sents[j].em
  BY DEF OnceInv
<1>3. calls = {} \/ \E x : calls = {x}
  <2> DEFINE at == {j \in 1..Len(sents) : d \in sents[j].text.deltas}
  <2>1. calls = {sents[i].em : i \in at} /\ \A i, j \in at : sents[i].em = sents[j].em
    BY <1>2
  <2> HIDE DEF at, calls
  <2>2. CASE at = {}
    BY <2>1, <2>2
  <2>3. ASSUME NEW i \in at
        PROVE  calls = {sents[i].em}
    BY <2>1, <2>3
  <2>4. QED
    BY <2>2, <2>3
<1>4. held = {} \/ \E x : held = {x}
  BY DEF OnceInv
<1>5. calls = {} \/ held = {}
  BY DEF OnceInv
<1>6. calls # {} \/ held # {} \/ \E i \in 1..Len(sents) : d[1] \in sents[i].text.whole
  <2>1. CASE \E k \in Keys : d \in items[k]
    <3>1. \A k \in Keys : d \in items[k] => k \in held
      OBVIOUS
    <3>2. QED
      BY <2>1, <3>1
  <2>2. CASE \E i \in 1..Len(sents) : d \in sents[i].text.deltas
    <3>1. \A i \in 1..Len(sents) : d \in sents[i].text.deltas => sents[i].em \in calls
      OBVIOUS
    <3>2. QED
      BY <2>2, <3>1
  <2>3. QED
    BY <2>1, <2>2 DEF OnceInv
<1> HIDE DEF calls, held
<1>7. /\ Cardinality(calls) + Cardinality(held) <= 1
      /\ \/ Cardinality(calls) + Cardinality(held) = 1
         \/ \E i \in 1..Len(sents) : d[1] \in sents[i].text.whole
  <2>1. CASE calls = {} /\ held = {}
    BY <1>1, <1>6, <2>1
  <2>2. CASE calls = {} /\ held # {}
    BY <1>1, <1>4, <2>2
  <2>3. CASE calls # {} /\ held = {}
    BY <1>1, <1>3, <2>3
  <2>4. QED
    BY <1>5, <2>1, <2>2, <2>3
<1>8. QED
  BY <1>7 DEF calls, held

\* Whatever is late, lost, named or replaced, no delta is said by two calls
\* and none is lost but to the whole transcript of its utterance.
THEOREM DeltasCorrect == LaneSpec => []DeltasOnce
<1>1. LaneSpec => []OnceInv
  BY HeldCorrect, OrderCorrect, OnceInit, OnceStep, PTL DEF LaneSpec
<1>2. QED
  BY <1>1, OnceIsOnce, PTL
=============================================================================
