----------------------------- MODULE Sinks_proofs -----------------------------
(***************************************************************************)
(* The sinks, proved for every number of workers, of listeners and of      *)
(* records.                                                                *)
(***************************************************************************)
EXTENDS Sinks, TLAPS

Records == Workers \X Nat
Places == {"idle", "file", "memory", "stream", "calling"}

SinksTypes ==
  /\ at \in [Workers -> Places] /\ made \in [Workers -> Nat] /\ sent \in [Workers -> Nat]
  /\ todo \in [Workers -> SUBSET Listeners] /\ dead \in [Workers -> SUBSET Listeners]
  /\ file \in Seq(Records) /\ memory \in Seq(Records) /\ open \in BOOLEAN
  /\ subs \subseteq Listeners
  /\ life \in [Listeners -> {"new", "live", "left", "broken"}]
  /\ since \in [Listeners -> [Workers -> Nat]] /\ upto \in [Listeners -> [Workers -> Nat]]
  /\ heard \in [Listeners -> Seq(Records)]

\* The stream has taken on all records that have passed the logs.
CountInv ==
  \A w \in Workers :
    /\ sent[w] = Passed(w, {"file", "memory", "stream"})
    /\ at[w] # "idle" => made[w] >= 1

\* Who is called has come before the record; who has gone is at most called
\* with the record it went at, and who broke will be taken out.
ListenInv ==
  \A w \in Workers, l \in Listeners :
    /\ life[l] = "new" => l \notin subs /\ l \notin todo[w]
    /\ life[l] # "new" => since[l][w] <= sent[w]
    /\ life[l] \in {"left", "broken"} => since[l][w] <= upto[l][w] /\ upto[l][w] <= sent[w]
    /\ life[l] = "left" => l \notin subs
    /\ Calls(w, l) => since[l][w] < sent[w]
    /\ Calls(w, l) /\ life[l] = "left" => upto[l][w] = sent[w]
    /\ l \in dead[w] => life[l] = "broken"
    /\ life[l] = "broken" /\ sent[w] > upto[l][w] /\ l \in subs =>
         at[w] = "calling" /\ l \in todo[w] \union dead[w]

\* What of StreamsKept is about the records of w in the logs, and at l.
LogsKept(w) ==
  /\ Kept(w, memory, 0, Passed(w, {"file", "memory"}))
  /\ open => Kept(w, file, 0, Passed(w, {"file"}))
  /\ \E n \in 0..made[w] : Kept(w, file, 0, n)

StreamKept(w, l) ==
  /\ life[l] = "new" => heard[l] = <<>>
  /\ life[l] = "live" => l \in subs /\ Heard(w, l, sent[w])
  /\ life[l] = "left" => Heard(w, l, upto[l][w])
  /\ life[l] = "broken" =>
       \E n \in {upto[l][w] - 1, upto[l][w]} : Kept(w, heard[l], since[l][w], n)

-----------------------------------------------------------------------------
\* A record that is appended is the last one.
LEMMA AppendFacts ==
  ASSUME NEW S, NEW s \in Seq(S), NEW x \in S
  PROVE  /\ Append(s, x) \in Seq(S) /\ Len(s) \in Nat /\ Len(Append(s, x)) = Len(s) + 1
         /\ \A i \in 1..Len(s) : Append(s, x)[i] = s[i]
         /\ Append(s, x)[Len(s) + 1] = x
OBVIOUS

\* Nothing is kept in no records.
LEMMA KeptNone ==
  ASSUME NEW w, NEW m \in Nat, NEW n \in Int, n <= m
  PROVE  Kept(w, <<>>, m, n)
<1>1. (m + 1)..n = {} /\ 1..Len(<<>>) = {}
  OBVIOUS
<1>2. QED
  BY <1>1 DEF Kept

\* The next record of w is kept behind the others of w.
LEMMA KeptNext ==
  ASSUME NEW w \in Workers, NEW s \in Seq(Records), NEW m \in Nat, NEW n \in Nat, m <= n,
         Kept(w, s, m, n)
  PROVE  Kept(w, Append(s, <<w, n + 1>>), m, n + 1)
<1> DEFINE x == <<w, n + 1>>
           t == Append(s, x)
           of == {i \in 1..Len(s) : s[i][1] = w}
           ofT == {i \in 1..Len(t) : t[i][1] = w}
<1>1. x \in Records /\ x[1] = w /\ x[2] = n + 1
  BY DEF Records
<1> HIDE DEF x
<1>2. /\ Len(s) \in Nat /\ Len(t) = Len(s) + 1
      /\ \A i \in 1..Len(s) : t[i] = s[i]
      /\ t[Len(s) + 1] = x
  BY <1>1, AppendFacts
<1> HIDE DEF t
<1>3. /\ {s[i][2] : i \in of} = (m + 1)..n
      /\ \A i, j \in of : i < j => s[i][2] < s[j][2]
  BY DEF Kept
<1>4. ofT = of \union {Len(s) + 1} /\ \A k \in of : k \in 1..Len(s)
  BY <1>1, <1>2
<1>5. \A i \in of : t[i] = s[i] /\ s[i][2] \in (m + 1)..n
  BY <1>2, <1>3
<1> HIDE DEF of, ofT
<1>6. {t[i][2] : i \in ofT} = (m + 1)..(n + 1)
  <2>1. (m + 1)..(n + 1) = ((m + 1)..n) \union {n + 1}
    OBVIOUS
  <2>2. {t[i][2] : i \in of} = (m + 1)..n
    BY <1>3, <1>5
  <2>3. QED
    BY <1>1, <1>2, <1>4, <2>1, <2>2
<1>7. ASSUME NEW i \in ofT, NEW j \in ofT, i < j
      PROVE  t[i][2] < t[j][2]
  <2>1. i \in of
    <3>1. i \in of \/ i = Len(s) + 1
      BY <1>4
    <3>2. j \in 1..Len(s) \/ j = Len(s) + 1
      BY <1>4
    <3>3. QED
      BY <1>2, <1>7, <3>1, <3>2
  <2>2. CASE j \in of
    <3>1. s[i][2] < s[j][2]
      BY <1>3, <1>7, <2>1, <2>2
    <3>2. t[i] = s[i] /\ t[j] = s[j]
      BY <1>5, <2>1, <2>2
    <3>3. QED
      BY <3>1, <3>2
  <2>3. CASE j = Len(s) + 1
    BY <1>1, <1>2, <1>5, <2>1, <2>3
  <2>4. QED
    BY <1>4, <2>2, <2>3
<1>8. QED
  BY <1>6, <1>7 DEF Kept, ofT, t, x

\* Those of the other workers stay.
LEMMA KeptOther ==
  ASSUME NEW w \in Workers, NEW s \in Seq(Records), NEW x \in Records, x[1] # w, NEW m, NEW n,
         Kept(w, s, m, n)
  PROVE  Kept(w, Append(s, x), m, n)
<1> DEFINE t == Append(s, x)
           of == {i \in 1..Len(s) : s[i][1] = w}
           ofT == {i \in 1..Len(t) : t[i][1] = w}
<1>1. /\ Len(s) \in Nat /\ Len(t) = Len(s) + 1
      /\ \A i \in 1..Len(s) : t[i] = s[i]
      /\ t[Len(s) + 1] = x
  BY AppendFacts
<1> HIDE DEF t
<1>2. ofT = of
  BY <1>1
<1>3. \A i \in of : t[i] = s[i]
  BY <1>1
<1>4. /\ {s[i][2] : i \in of} = (m + 1)..n
      /\ \A i, j \in of : i < j => s[i][2] < s[j][2]
  BY DEF Kept
<1> HIDE DEF of, ofT
<1>5. {t[i][2] : i \in ofT} = (m + 1)..n /\ \A i, j \in ofT : i < j => t[i][2] < t[j][2]
  BY <1>2, <1>3, <1>4
<1>6. QED
  BY <1>5 DEF Kept, ofT, t

\* A record is one.
LEMMA RecordType ==
  ASSUME SinksTypes, NEW w \in Workers
  PROVE  Record(w) \in Records /\ Record(w)[1] = w /\ Record(w) = <<w, made[w]>> /\ made[w] \in Nat
BY DEF SinksTypes, Record, Records

\* A record is made, whatever bounds their number.
LEMMA SignalFacts ==
  ASSUME NEW w \in Workers, Signal(w)
  PROVE  /\ at[w] = "idle" /\ made' = [made EXCEPT ![w] = @ + 1] /\ Goes(w, "file")
         /\ UNCHANGED <<sent, todo, dead, logs, streams>>
BY Zenon DEF Signal

-----------------------------------------------------------------------------
\* Every action keeps the types.
LEMMA TypesStep == SinksTypes /\ [SinksNext]_kvars => SinksTypes'
<1> SUFFICES ASSUME SinksTypes, [SinksNext]_kvars PROVE SinksTypes'
  OBVIOUS
<1>1. ASSUME NEW w \in Workers, Signal(w) PROVE SinksTypes'
  <2>1. /\ made' = [made EXCEPT ![w] = @ + 1] /\ at' = [at EXCEPT ![w] = "file"]
        /\ UNCHANGED <<sent, todo, dead, logs, streams>>
    BY <1>1, SignalFacts DEF Goes
  <2>2. made' \in [Workers -> Nat] /\ at' \in [Workers -> Places]
    BY <2>1 DEF SinksTypes, Places
  <2>3. QED
    BY <2>1, <2>2 DEF logs, streams, SinksTypes
<1>2. ASSUME NEW w \in Workers, Write(w) PROVE SinksTypes'
  <2>1. file' \in Seq(Records)
    BY <1>2, RecordType, AppendFacts DEF Write, SinksTypes
  <2>2. QED
    BY <1>2, <2>1 DEF Write, Goes, streams, SinksTypes, Places
<1>3. ASSUME NEW w \in Workers, Store(w) PROVE SinksTypes'
  <2>1. memory' \in Seq(Records)
    BY <1>3, RecordType, AppendFacts DEF Store, SinksTypes
  <2>2. QED
    BY <1>3, <2>1 DEF Store, Goes, streams, SinksTypes, Places
<1>4. ASSUME NEW w \in Workers, Snapshot(w) PROVE SinksTypes'
  BY <1>4 DEF Snapshot, Goes, logs, streams, SinksTypes, Places
<1>5. ASSUME NEW w \in Workers, Prune(w) PROVE SinksTypes'
  BY <1>5 DEF Prune, Goes, logs, SinksTypes, Places
<1>6. ASSUME NEW w \in Workers, NEW l \in Listeners, Call(w, l) PROVE SinksTypes'
  <2>1. heard' \in [Listeners -> Seq(Records)]
    <3>1. Append(heard[l], Record(w)) \in Seq(Records)
      BY RecordType, AppendFacts DEF SinksTypes
    <3>2. QED
      BY <1>6, <3>1 DEF Call, SinksTypes
  <2>2. dead' \in [Workers -> SUBSET Listeners] /\ todo' \in [Workers -> SUBSET Listeners]
    BY <1>6 DEF Call, Rest, SinksTypes
  <2>3. QED
    BY <1>6, <2>1, <2>2 DEF Call, logs, SinksTypes
<1>7. ASSUME NEW l \in Listeners, Subscribe(l) \/ Unsubscribe(l) \/ Break(l) PROVE SinksTypes'
  BY <1>7 DEF Subscribe, Unsubscribe, Break, logs, SinksTypes
<1>8. CASE CloseFile \/ UNCHANGED kvars
  BY <1>8 DEF CloseFile, kvars, streams, SinksTypes
<1>9. QED
  BY <1>1, <1>2, <1>3, <1>4, <1>5, <1>6, <1>7, <1>8 DEF SinksNext

\* A step in the fan-out of one worker, as the others see it.
LEMMA CountStep == SinksTypes /\ CountInv /\ [SinksNext]_kvars => CountInv'
<1> SUFFICES ASSUME SinksTypes, CountInv, [SinksNext]_kvars PROVE CountInv'
  OBVIOUS
<1>1. ASSUME UNCHANGED <<at, made, sent>> PROVE CountInv'
  BY <1>1 DEF CountInv, Passed
<1>2. ASSUME NEW w \in Workers, at'[w] # at[w],
             \A v \in Workers : v # w => at'[v] = at[v] /\ made'[v] = made[v] /\ sent'[v] = sent[v],
             /\ sent'[w] = IF at'[w] \in {"file", "memory", "stream"} THEN made'[w] - 1 ELSE made'[w]
             /\ made'[w] >= 1
      PROVE  CountInv'
  BY <1>2 DEF CountInv, Passed
<1>3. ASSUME NEW w \in Workers, Signal(w) \/ Write(w) \/ Store(w) \/ Snapshot(w) \/ Prune(w)
      PROVE CountInv'
  <2>1. made[w] \in Nat /\ sent[w] \in Nat /\ w \in DOMAIN at /\ w \in DOMAIN made /\ w \in DOMAIN sent
    BY DEF SinksTypes
  <2>2. CASE Signal(w)
    <3>1. /\ at[w] = "idle" /\ made' = [made EXCEPT ![w] = @ + 1] /\ at' = [at EXCEPT ![w] = "file"]
          /\ sent' = sent
      BY <2>2, SignalFacts DEF Goes
    <3>2. sent[w] = made[w]
      BY <3>1 DEF CountInv, Passed
    <3>3. QED
      BY <1>2, <2>1, <3>1, <3>2
  <2>3. CASE Write(w) \/ Store(w)
    <3>1. /\ at[w] \in {"file", "memory"} /\ made' = made /\ sent' = sent
          /\ at' = [at EXCEPT ![w] = IF at[w] = "file" THEN "memory" ELSE "stream"]
      BY <2>3 DEF Write, Store, Goes
    <3>2. sent[w] = made[w] - 1 /\ made[w] >= 1
      BY <3>1 DEF CountInv, Passed
    <3>3. QED
      BY <1>2, <2>1, <3>1, <3>2
  <2>4. CASE Snapshot(w)
    <3>1. /\ at[w] = "stream" /\ made' = made /\ sent' = [sent EXCEPT ![w] = @ + 1]
          /\ at' = [at EXCEPT ![w] = "calling"]
      BY <2>4 DEF Snapshot, Goes
    <3>2. sent[w] = made[w] - 1 /\ made[w] >= 1
      BY <3>1 DEF CountInv, Passed
    <3>3. QED
      BY <1>2, <2>1, <3>1, <3>2
  <2>5. CASE Prune(w)
    <3>1. /\ at[w] = "calling" /\ made' = made /\ sent' = sent /\ at' = [at EXCEPT ![w] = "idle"]
      BY <2>5 DEF Prune, Goes
    <3>2. sent[w] = made[w] /\ made[w] >= 1
      BY <3>1 DEF CountInv, Passed
    <3>3. QED
      BY <1>2, <2>1, <3>1, <3>2
  <2>6. QED
    BY <1>3, <2>2, <2>3, <2>4, <2>5
<1>4. ASSUME NEW w \in Workers, NEW l \in Listeners, Call(w, l) PROVE CountInv'
  BY <1>1, <1>4 DEF Call
<1>5. ASSUME NEW l \in Listeners, Subscribe(l) \/ Unsubscribe(l) \/ Break(l) PROVE CountInv'
  BY <1>1, <1>5 DEF Subscribe, Unsubscribe, Break
<1>6. CASE CloseFile \/ UNCHANGED kvars
  BY <1>1, <1>6 DEF CloseFile, kvars
<1>7. QED
  BY <1>3, <1>4, <1>5, <1>6 DEF SinksNext

-----------------------------------------------------------------------------
\* Whoever comes, goes or breaks is in its place among the listeners.
LEMMA ListenStep ==
  ASSUME SinksTypes, CountInv, ListenInv, \A w \in Workers, l \in Listeners : StreamKept(w, l),
         [SinksNext]_kvars
  PROVE  ListenInv'
<1>1. ASSUME UNCHANGED <<sent, todo, dead, subs, life, since, upto>>,
             \A w \in Workers : at'[w] = at[w] \/ (at[w] # "calling" /\ at'[w] # "calling")
      PROVE  ListenInv'
  BY <1>1 DEF ListenInv, Calls
<1>2. ASSUME NEW w \in Workers, Signal(w) PROVE ListenInv'
  BY <1>1, <1>2, SignalFacts DEF Goes, streams, SinksTypes
<1>3. ASSUME NEW w \in Workers, Write(w) \/ Store(w) PROVE ListenInv'
  BY <1>1, <1>3 DEF Write, Store, Goes, streams, SinksTypes
<1>4. CASE CloseFile \/ UNCHANGED kvars
  BY <1>1, <1>4 DEF CloseFile, kvars, streams
<1>5. ASSUME NEW w \in Workers, Snapshot(w) PROVE ListenInv'
  <2>1. /\ at[w] = "stream" /\ at' = [at EXCEPT ![w] = "calling"]
        /\ todo' = [todo EXCEPT ![w] = subs] /\ dead' = [dead EXCEPT ![w] = {}]
        /\ sent' = [sent EXCEPT ![w] = @ + 1]
        /\ UNCHANGED <<subs, life, since, upto>>
    BY <1>5 DEF Snapshot, Goes, streams
  <2>2. /\ at'[w] = "calling" /\ todo'[w] = subs /\ dead'[w] = {} /\ sent'[w] = sent[w] + 1
        /\ \A v \in Workers : v # w => /\ at'[v] = at[v] /\ todo'[v] = todo[v]
                                       /\ dead'[v] = dead[v] /\ sent'[v] = sent[v]
    BY <2>1 DEF SinksTypes
  <2>3. \A l \in Listeners : /\ since[l][w] \in Nat /\ upto[l][w] \in Nat /\ sent[w] \in Nat
                             /\ life[l] \in {"new", "live", "left", "broken"}
    BY DEF SinksTypes
  <2>4. ASSUME NEW v \in Workers, NEW l \in Listeners
        PROVE  /\ life[l] = "new" => l \notin subs /\ l \notin todo'[v]
               /\ life[l] # "new" => since[l][v] <= sent'[v]
               /\ life[l] \in {"left", "broken"} => since[l][v] <= upto[l][v] /\ upto[l][v] <= sent'[v]
               /\ life[l] = "left" => l \notin subs
               /\ at'[v] = "calling" /\ l \in todo'[v] => since[l][v] < sent'[v]
               /\ at'[v] = "calling" /\ l \in todo'[v] /\ life[l] = "left" => upto[l][v] = sent'[v]
               /\ l \in dead'[v] => life[l] = "broken"
               /\ life[l] = "broken" /\ sent'[v] > upto[l][v] /\ l \in subs =>
                    at'[v] = "calling" /\ l \in todo'[v] \union dead'[v]
    <3>1. CASE v = w
      BY <2>2, <2>3, <3>1 DEF ListenInv
    <3>2. CASE v # w
      BY <2>2, <3>2 DEF ListenInv, Calls
    <3>3. QED
      BY <3>1, <3>2
  <2>5. QED
    BY <2>1, <2>4 DEF ListenInv, Calls
<1>6. ASSUME NEW w \in Workers, Prune(w) PROVE ListenInv'
  <2>1. /\ at[w] = "calling" /\ todo[w] = {} /\ subs' = subs \ dead[w]
        /\ at' = [at EXCEPT ![w] = "idle"]
        /\ UNCHANGED <<sent, todo, dead, life, since, upto>>
    BY <1>6 DEF Prune, Goes
  <2>2. at'[w] = "idle" /\ \A v \in Workers : v # w => at'[v] = at[v]
    BY <2>1 DEF SinksTypes
  <2>3. \A v \in Workers, l \in Listeners :
          life[l] = "broken" /\ sent[v] > upto[l][v] /\ l \in subs' =>
            at'[v] = "calling" /\ l \in todo[v] \union dead[v]
    BY <2>1, <2>2 DEF ListenInv
  <2>4. QED
    BY <2>1, <2>2, <2>3 DEF ListenInv, Calls
<1>7. ASSUME NEW w \in Workers, NEW l \in Listeners, Call(w, l) PROVE ListenInv'
  <2>1. /\ at[w] = "calling" /\ l \in todo[w]
        /\ todo' = [todo EXCEPT ![w] = @ \ {l}]
        /\ \/ life[l] = "broken" /\ dead' = [dead EXCEPT ![w] = @ \union {l}]
           \/ life[l] # "broken" /\ dead' = dead
        /\ UNCHANGED <<at, sent, subs, life, since, upto>>
    BY <1>7 DEF Call, Rest
  <2>2. /\ todo'[w] = todo[w] \ {l}
        /\ dead'[w] = IF life[l] = "broken" THEN dead[w] \union {l} ELSE dead[w]
        /\ \A v \in Workers : v # w => todo'[v] = todo[v] /\ dead'[v] = dead[v]
    BY <2>1 DEF SinksTypes
  <2>3. \A v \in Workers, k \in Listeners :
          /\ k \in todo'[v] => k \in todo[v]
          /\ k \in dead'[v] => k \in dead[v] \/ life[k] = "broken"
          /\ life[k] = "broken" /\ k \in todo[v] \union dead[v] => k \in todo'[v] \union dead'[v]
    BY <2>2
  <2>4. QED
    BY <2>1, <2>3 DEF ListenInv, Calls
<1>8. ASSUME NEW l \in Listeners, Subscribe(l) PROVE ListenInv'
  <2>1. /\ life[l] = "new" /\ life' = [life EXCEPT ![l] = "live"] /\ subs' = subs \union {l}
        /\ since' = [since EXCEPT ![l] = sent]
        /\ UNCHANGED <<at, sent, todo, dead, upto>>
    BY <1>8 DEF Subscribe
  <2>2. /\ life'[l] = "live" /\ since'[l] = sent
        /\ \A k \in Listeners : k # l => life'[k] = life[k] /\ since'[k] = since[k]
    BY <2>1 DEF SinksTypes
  <2>3. \A w \in Workers : sent[w] \in Nat /\ l \notin todo[w] /\ l \notin dead[w]
    BY <2>1 DEF SinksTypes, ListenInv
  <2>4. QED
    BY <2>1, <2>2, <2>3 DEF ListenInv, Calls
<1>9. ASSUME NEW l \in Listeners, Unsubscribe(l) PROVE ListenInv'
  <2>1. /\ life[l] = "live" /\ life' = [life EXCEPT ![l] = "left"] /\ subs' = subs \ {l}
        /\ upto' = [upto EXCEPT ![l] = sent]
        /\ UNCHANGED <<at, sent, todo, dead, since>>
    BY <1>9 DEF Unsubscribe
  <2>2. /\ life'[l] = "left" /\ upto'[l] = sent
        /\ \A k \in Listeners : k # l => life'[k] = life[k] /\ upto'[k] = upto[k]
    BY <2>1 DEF SinksTypes
  <2>3. \A w \in Workers : sent[w] \in Nat /\ l \notin dead[w] /\ since[l][w] <= sent[w]
    BY <2>1 DEF SinksTypes, ListenInv
  <2>4. QED
    BY <2>1, <2>2, <2>3 DEF ListenInv, Calls
<1>10. ASSUME NEW l \in Listeners, Break(l) PROVE ListenInv'
  <2>1. /\ life[l] = "live" /\ life' = [life EXCEPT ![l] = "broken"]
        /\ upto' = [upto EXCEPT ![l] = sent]
        /\ UNCHANGED <<at, sent, todo, dead, subs, since>>
    BY <1>10 DEF Break
  <2>2. /\ life'[l] = "broken" /\ upto'[l] = sent
        /\ \A k \in Listeners : k # l => life'[k] = life[k] /\ upto'[k] = upto[k]
    BY <2>1 DEF SinksTypes
  <2>3. \A w \in Workers : sent[w] \in Nat /\ ~(sent[w] > sent[w]) /\ since[l][w] <= sent[w]
    BY <2>1 DEF SinksTypes, ListenInv
  <2>4. QED
    BY <2>1, <2>2, <2>3 DEF ListenInv, Calls
<1>11. QED
  BY <1>2, <1>3, <1>4, <1>5, <1>6, <1>7, <1>8, <1>9, <1>10 DEF SinksNext

-----------------------------------------------------------------------------
\* Each record goes to each log once, in the order they were made.
LEMMA LogsStep ==
  ASSUME SinksTypes, CountInv, \A w \in Workers : LogsKept(w), [SinksNext]_kvars
  PROVE  \A w \in Workers : LogsKept(w)'
<1>1. ASSUME UNCHANGED <<made, file, memory>>, open' => open,
             \A w \in Workers : Passed(w, {"file", "memory"})' = Passed(w, {"file", "memory"})
                                /\ Passed(w, {"file"})' = Passed(w, {"file"})
      PROVE  \A w \in Workers : LogsKept(w)'
  BY <1>1 DEF LogsKept
<1>2. ASSUME NEW w \in Workers, Signal(w)
      PROVE  \A v \in Workers : LogsKept(v)'
  <2>1. /\ at[w] = "idle" /\ made' = [made EXCEPT ![w] = @ + 1] /\ at' = [at EXCEPT ![w] = "file"]
        /\ UNCHANGED <<file, memory, open>>
    BY <1>2, SignalFacts DEF Goes, logs
  <2>2. /\ at'[w] = "file" /\ made'[w] = made[w] + 1 /\ made[w] \in Nat
        /\ \A v \in Workers : v # w => at'[v] = at[v] /\ made'[v] = made[v]
    BY <2>1 DEF SinksTypes
  <2>3. \A v \in Workers : Passed(v, {"file", "memory"})' = Passed(v, {"file", "memory"})
                           /\ Passed(v, {"file"})' = Passed(v, {"file"})
    BY <2>1, <2>2 DEF Passed
  <2>4. \A v \in Workers : made[v] \in Nat /\ made'[v] \in Nat /\ made[v] <= made'[v]
    BY <2>2 DEF SinksTypes
  <2>5. ASSUME NEW v \in Workers
        PROVE  \E n \in 0..made'[v] : Kept(v, file, 0, n)
    <3>1. PICK n \in 0..made[v] : Kept(v, file, 0, n)
      BY DEF LogsKept
    <3>2. n \in 0..made'[v]
      BY <2>4
    <3>3. QED
      BY <3>1, <3>2
  <2>6. QED
    BY <2>1, <2>3, <2>5 DEF LogsKept
<1>3. ASSUME NEW w \in Workers, Write(w)
      PROVE  \A v \in Workers : LogsKept(v)'
  <2>1. /\ at[w] = "file" /\ file' = IF open THEN Append(file, Record(w)) ELSE file
        /\ at' = [at EXCEPT ![w] = "memory"] /\ UNCHANGED <<made, memory, open>>
    BY <1>3 DEF Write, Goes
  <2>2. /\ at'[w] = "memory" /\ made[w] \in Nat /\ made[w] >= 1
        /\ \A v \in Workers : v # w => at'[v] = at[v]
    BY <2>1 DEF SinksTypes, CountInv
  <2>3. /\ \A v \in Workers : Passed(v, {"file", "memory"})' = Passed(v, {"file", "memory"})
        /\ \A v \in Workers : v # w => Passed(v, {"file"})' = Passed(v, {"file"})
        /\ Passed(w, {"file"}) = made[w] - 1 /\ Passed(w, {"file"})' = made[w]
    BY <2>1, <2>2 DEF Passed
  <2>4. CASE ~open
    <3>1. file' = file /\ ~open'
      BY <2>1, <2>4
    <3>2. QED
      BY <2>1, <2>3, <3>1 DEF LogsKept
  <2>5. CASE open
    <3>1. file' = Append(file, Record(w)) /\ file \in Seq(Records) /\ Record(w) \in Records
          /\ Record(w)[1] = w /\ Record(w) = <<w, made[w]>>
      BY <2>1, <2>5, RecordType DEF SinksTypes
    <3>2. Kept(w, file', 0, made[w])
      <4>1. PICK n \in Nat : n = made[w] - 1
        BY <2>2
      <4>2. Kept(w, file, 0, n) /\ n + 1 = made[w]
        BY <2>2, <2>3, <2>5, <4>1 DEF LogsKept
      <4>3. Kept(w, Append(file, <<w, n + 1>>), 0, n + 1)
        BY <3>1, <4>2, KeptNext
      <4>4. QED
        BY <3>1, <4>2, <4>3
    <3>3. ASSUME NEW v \in Workers, v # w, NEW n, Kept(v, file, 0, n)
          PROVE  Kept(v, file', 0, n)
      BY <3>1, <3>3, KeptOther
    <3>4. ASSUME NEW v \in Workers, v # w
          PROVE  LogsKept(v)'
      <4>1. PICK n \in 0..made[v] : Kept(v, file, 0, n)
        BY DEF LogsKept
      <4>2. Kept(v, file', 0, n) /\ Kept(v, file', 0, Passed(v, {"file"}))
        BY <2>5, <3>3, <3>4, <4>1 DEF LogsKept
      <4>3. QED
        BY <2>1, <2>3, <3>4, <4>2 DEF LogsKept
    <3>5. LogsKept(w)'
      <4>1. made[w] \in 0..made[w]
        BY <2>2
      <4>2. QED
        BY <2>1, <2>3, <3>2, <4>1 DEF LogsKept
    <3>6. QED
      BY <3>4, <3>5
  <2>6. QED
    BY <2>4, <2>5
<1>4. ASSUME NEW w \in Workers, Store(w)
      PROVE  \A v \in Workers : LogsKept(v)'
  <2>1. /\ at[w] = "memory" /\ memory' = Append(memory, Record(w))
        /\ at' = [at EXCEPT ![w] = "stream"] /\ UNCHANGED <<made, file, open>>
    BY <1>4 DEF Store, Goes
  <2>2. /\ at'[w] = "stream" /\ made[w] \in Nat /\ made[w] >= 1
        /\ \A v \in Workers : v # w => at'[v] = at[v]
    BY <2>1 DEF SinksTypes, CountInv
  <2>3. /\ \A v \in Workers : Passed(v, {"file"})' = Passed(v, {"file"})
        /\ \A v \in Workers : v # w => Passed(v, {"file", "memory"})' = Passed(v, {"file", "memory"})
        /\ Passed(w, {"file", "memory"}) = made[w] - 1 /\ Passed(w, {"file", "memory"})' = made[w]
    BY <2>1, <2>2 DEF Passed
  <2>4. memory \in Seq(Records) /\ Record(w) \in Records /\ Record(w)[1] = w /\ Record(w) = <<w, made[w]>>
    BY RecordType DEF SinksTypes
  <2>5. Kept(w, memory', 0, made[w])
    <3>1. PICK n \in Nat : n = made[w] - 1
      BY <2>2
    <3>2. Kept(w, memory, 0, n) /\ n + 1 = made[w]
      BY <2>2, <2>3, <3>1 DEF LogsKept
    <3>3. Kept(w, Append(memory, <<w, n + 1>>), 0, n + 1)
      BY <2>4, <3>2, KeptNext
    <3>4. QED
      BY <2>1, <2>4, <3>2, <3>3
  <2>6. ASSUME NEW v \in Workers, v # w
        PROVE  LogsKept(v)'
    <3>1. Kept(v, memory', 0, Passed(v, {"file", "memory"}))
      BY <2>1, <2>4, <2>6, KeptOther DEF LogsKept
    <3>2. QED
      BY <2>1, <2>3, <2>6, <3>1 DEF LogsKept
  <2>7. QED
    BY <2>1, <2>3, <2>5, <2>6 DEF LogsKept
<1>5. ASSUME NEW w \in Workers, Snapshot(w) \/ Prune(w)
      PROVE  \A v \in Workers : LogsKept(v)'
  <2>1. /\ at[w] \in {"stream", "calling"} /\ UNCHANGED <<made, file, memory, open>>
        /\ at' = [at EXCEPT ![w] = IF at[w] = "stream" THEN "calling" ELSE "idle"]
    BY <1>5 DEF Snapshot, Prune, Goes, logs
  <2>2. at'[w] \in {"calling", "idle"} /\ \A v \in Workers : v # w => at'[v] = at[v]
    BY <2>1 DEF SinksTypes
  <2>3. QED
    BY <1>1, <2>1, <2>2 DEF Passed
<1>6. ASSUME NEW w \in Workers, NEW l \in Listeners, Call(w, l)
      PROVE  \A v \in Workers : LogsKept(v)'
  BY <1>1, <1>6 DEF Call, logs, Passed
<1>7. ASSUME NEW l \in Listeners, Subscribe(l) \/ Unsubscribe(l) \/ Break(l)
      PROVE  \A v \in Workers : LogsKept(v)'
  BY <1>1, <1>7 DEF Subscribe, Unsubscribe, Break, logs, Passed
<1>8. CASE CloseFile \/ UNCHANGED kvars
  BY <1>1, <1>8 DEF CloseFile, kvars, Passed
<1>9. QED
  BY <1>2, <1>3, <1>4, <1>5, <1>6, <1>7, <1>8 DEF SinksNext

-----------------------------------------------------------------------------
\* A listener hears every record from when it comes to when it goes.
LEMMA StreamsStep ==
  ASSUME SinksTypes, CountInv, ListenInv, \A w \in Workers, l \in Listeners : StreamKept(w, l),
         [SinksNext]_kvars
  PROVE  \A w \in Workers, l \in Listeners : StreamKept(w, l)'
<1>1. ASSUME UNCHANGED <<sent, life, since, upto, heard>>,
             \A l \in Listeners : life[l] = "live" /\ l \in subs => l \in subs',
             \A w \in Workers, l \in Listeners :
               Heard(w, l, sent[w])' = Heard(w, l, sent[w]) /\ Heard(w, l, upto[l][w])' = Heard(w, l, upto[l][w])
      PROVE  \A w \in Workers, l \in Listeners : StreamKept(w, l)'
  BY <1>1 DEF StreamKept
<1>2. ASSUME UNCHANGED <<sent, subs, life, since, upto, heard>>,
             \A w \in Workers, l \in Listeners : Calls(w, l)' = Calls(w, l)
      PROVE  \A w \in Workers, l \in Listeners : StreamKept(w, l)'
  BY <1>1, <1>2 DEF Heard
<1>3. ASSUME NEW w \in Workers, Signal(w) \/ Write(w) \/ Store(w)
      PROVE  \A v \in Workers, l \in Listeners : StreamKept(v, l)'
  <2>1. /\ at[w] # "calling" /\ UNCHANGED <<sent, todo, subs, life, since, upto, heard>>
        /\ \E p \in {"file", "memory", "stream"} : at' = [at EXCEPT ![w] = p]
    BY <1>3, SignalFacts DEF Write, Store, Goes, streams
  <2>2. at'[w] # "calling" /\ \A v \in Workers : v # w => at'[v] = at[v]
    BY <2>1 DEF SinksTypes
  <2>3. \A v \in Workers, l \in Listeners : Calls(v, l)' = Calls(v, l)
    BY <2>1, <2>2 DEF Calls
  <2>4. QED
    BY <1>2, <2>1, <2>3
<1>4. CASE CloseFile \/ UNCHANGED kvars
  BY <1>2, <1>4 DEF CloseFile, kvars, streams, Calls
<1>5. ASSUME NEW w \in Workers, Snapshot(w)
      PROVE  \A v \in Workers, l \in Listeners : StreamKept(v, l)'
  <2>1. /\ at[w] = "stream" /\ at' = [at EXCEPT ![w] = "calling"]
        /\ todo' = [todo EXCEPT ![w] = subs] /\ sent' = [sent EXCEPT ![w] = @ + 1]
        /\ UNCHANGED <<subs, life, since, upto, heard>>
    BY <1>5 DEF Snapshot, Goes, streams
  <2>2. /\ at'[w] = "calling" /\ todo'[w] = subs /\ sent'[w] = sent[w] + 1 /\ sent[w] \in Nat
        /\ \A v \in Workers : v # w => at'[v] = at[v] /\ todo'[v] = todo[v] /\ sent'[v] = sent[v]
    BY <2>1 DEF SinksTypes
  <2>3. \A v \in Workers, l \in Listeners : v # w => Calls(v, l)' = Calls(v, l)
    BY <2>2 DEF Calls
  <2>4. \A l \in Listeners : ~Calls(w, l) /\ Calls(w, l)' = (l \in subs)
    BY <2>1, <2>2 DEF Calls
  <2>5. ASSUME NEW l \in Listeners
        PROVE  StreamKept(w, l)'
    <3>1. CASE life[l] = "live"
      <4>1. l \in subs /\ Kept(w, heard[l], since[l][w], sent[w])
        BY <2>4, <3>1 DEF StreamKept, Heard
      <4>2. sent'[w] - 1 = sent[w]
        BY <2>2
      <4>3. Heard(w, l, sent[w])'
        BY <2>1, <2>4, <4>1, <4>2 DEF Heard
      <4>4. QED
        BY <2>1, <3>1, <4>1, <4>3 DEF StreamKept
    <3>2. CASE life[l] = "left"
      <4>1. l \notin subs /\ Kept(w, heard[l], since[l][w], upto[l][w])
        BY <2>4, <3>2 DEF StreamKept, Heard, ListenInv
      <4>2. Heard(w, l, upto[l][w])'
        BY <2>1, <2>4, <4>1 DEF Heard
      <4>3. QED
        BY <2>1, <3>2, <4>2 DEF StreamKept
    <3>3. CASE life[l] \notin {"live", "left"}
      BY <2>1, <3>3 DEF StreamKept
    <3>4. QED
      BY <3>1, <3>2, <3>3
  <2>6. ASSUME NEW v \in Workers, v # w, NEW l \in Listeners
        PROVE  StreamKept(v, l)'
    <3>1. Heard(v, l, sent[v])' = Heard(v, l, sent[v]) /\ Heard(v, l, upto[l][v])' = Heard(v, l, upto[l][v])
      BY <2>1, <2>2, <2>3, <2>6 DEF Heard
    <3>2. QED
      BY <2>1, <3>1 DEF StreamKept
  <2>7. QED
    BY <2>5, <2>6
<1>6. ASSUME NEW w \in Workers, Prune(w)
      PROVE  \A v \in Workers, l \in Listeners : StreamKept(v, l)'
  <2>1. /\ at[w] = "calling" /\ todo[w] = {} /\ subs' = subs \ dead[w]
        /\ at' = [at EXCEPT ![w] = "idle"]
        /\ UNCHANGED <<sent, todo, life, since, upto, heard>>
    BY <1>6 DEF Prune, Goes
  <2>2. at'[w] = "idle" /\ \A v \in Workers : v # w => at'[v] = at[v]
    BY <2>1 DEF SinksTypes
  <2>3. \A v \in Workers, l \in Listeners : Calls(v, l)' = Calls(v, l)
    BY <2>1, <2>2 DEF Calls
  <2>4. \A l \in Listeners : life[l] = "live" /\ l \in subs => l \in subs'
    BY <2>1 DEF ListenInv
  <2>5. \A v \in Workers, l \in Listeners :
          Heard(v, l, sent[v])' = Heard(v, l, sent[v]) /\ Heard(v, l, upto[l][v])' = Heard(v, l, upto[l][v])
    BY <2>1, <2>3 DEF Heard
  <2>6. QED
    BY <1>1, <2>1, <2>4, <2>5
<1>7. ASSUME NEW w \in Workers, NEW l \in Listeners, Call(w, l)
      PROVE  \A v \in Workers, k \in Listeners : StreamKept(v, k)'
  <2>1. /\ at[w] = "calling" /\ l \in todo[w] /\ todo' = [todo EXCEPT ![w] = @ \ {l}]
        /\ \/ life[l] = "broken" /\ heard' = heard
           \/ life[l] # "broken" /\ heard' = [heard EXCEPT ![l] = Append(@, Record(w))]
        /\ UNCHANGED <<at, sent, subs, life, since, upto>>
    BY <1>7 DEF Call, Rest
  <2>2. /\ todo'[w] = todo[w] \ {l} /\ \A v \in Workers : v # w => todo'[v] = todo[v]
        /\ \A k \in Listeners : k # l => heard'[k] = heard[k]
        /\ life[l] # "broken" => heard'[l] = Append(heard[l], Record(w))
        /\ life[l] = "broken" => heard'[l] = heard[l]
    BY <2>1 DEF SinksTypes
  <2>3. /\ Calls(w, l) /\ ~Calls(w, l)'
        /\ \A v \in Workers, k \in Listeners : v # w \/ k # l => Calls(v, k)' = Calls(v, k)
    BY <2>1, <2>2 DEF Calls
  <2>4. /\ heard[l] \in Seq(Records) /\ Record(w) \in Records /\ Record(w)[1] = w
        /\ Record(w) = <<w, made[w]>> /\ made[w] = sent[w] /\ sent[w] \in Nat
        /\ since[l][w] \in Nat /\ since[l][w] < sent[w]
    <3>1. heard[l] \in Seq(Records) /\ sent[w] \in Nat /\ since[l][w] \in Nat
      BY DEF SinksTypes
    <3>2. made[w] = sent[w]
      BY <2>1 DEF CountInv, Passed
    <3>3. since[l][w] < sent[w]
      BY <2>3 DEF ListenInv
    <3>4. QED
      BY <3>1, <3>2, <3>3, RecordType
  <2>5. ASSUME NEW v \in Workers, NEW k \in Listeners, k # l
        PROVE  StreamKept(v, k)'
    <3>1. Heard(v, k, sent[v])' = Heard(v, k, sent[v]) /\ Heard(v, k, upto[k][v])' = Heard(v, k, upto[k][v])
      BY <2>1, <2>2, <2>3, <2>5 DEF Heard
    <3>2. QED
      BY <2>1, <2>2, <2>5, <3>1 DEF StreamKept
  <2>6. ASSUME NEW v \in Workers, v # w, life[l] # "broken"
        PROVE  StreamKept(v, l)'
    <3>1. ASSUME NEW m, NEW n, Kept(v, heard[l], m, n)
          PROVE  Kept(v, heard'[l], m, n)
      <4>1. PICK x \in Records : x = Record(w) /\ x[1] # v
        BY <2>4, <2>6
      <4>2. Kept(v, Append(heard[l], x), m, n)
        BY <2>4, <3>1, <4>1, KeptOther
      <4>3. QED
        BY <2>2, <2>6, <4>1, <4>2
    <3>2. /\ Heard(v, l, sent[v]) => Heard(v, l, sent[v])'
          /\ Heard(v, l, upto[l][v]) => Heard(v, l, upto[l][v])'
      BY <2>1, <2>3, <2>6, <3>1 DEF Heard
    <3>3. life[l] # "new"
      BY <2>1 DEF ListenInv
    <3>4. QED
      BY <2>1, <2>6, <3>2, <3>3 DEF StreamKept
  <2>7. CASE life[l] = "broken"
    <3>1. \A v \in Workers : StreamKept(v, l)'
      BY <2>1, <2>2, <2>7 DEF StreamKept
    <3>2. QED
      BY <2>5, <3>1
  <2>8. CASE life[l] # "broken"
    <3>1. life[l] \in {"live", "left"} /\ (life[l] = "left" => upto[l][w] = sent[w])
      BY <2>1, <2>3, <2>8 DEF SinksTypes, ListenInv
    <3>2. Kept(w, heard[l], since[l][w], sent[w] - 1)
      BY <2>3, <3>1 DEF StreamKept, Heard
    <3>3. PICK n \in Nat : n = sent[w] - 1
      BY <2>4
    <3>4. n + 1 = sent[w] /\ since[l][w] <= n
      BY <2>4, <3>3
    <3>5. Kept(w, Append(heard[l], <<w, n + 1>>), since[l][w], n + 1)
      BY <2>4, <3>2, <3>3, <3>4, KeptNext
    <3>6. Kept(w, heard'[l], since[l][w], sent[w])
      BY <2>2, <2>4, <2>8, <3>4, <3>5
    <3>7. life[l] = "live" => l \in subs
      BY DEF StreamKept
    <3>8. StreamKept(w, l)'
      BY <2>1, <2>3, <3>1, <3>6, <3>7 DEF StreamKept, Heard
    <3>9. QED
      BY <2>5, <2>6, <2>8, <3>8
  <2>9. QED
    BY <2>7, <2>8
<1>8. ASSUME NEW l \in Listeners, Subscribe(l)
      PROVE  \A v \in Workers, k \in Listeners : StreamKept(v, k)'
  <2>1. /\ life[l] = "new" /\ life' = [life EXCEPT ![l] = "live"] /\ subs' = subs \union {l}
        /\ since' = [since EXCEPT ![l] = sent]
        /\ UNCHANGED <<at, sent, todo, upto, heard>>
    BY <1>8 DEF Subscribe
  <2>2. /\ life'[l] = "live" /\ since'[l] = sent
        /\ \A k \in Listeners : k # l => life'[k] = life[k] /\ since'[k] = since[k]
    BY <2>1 DEF SinksTypes
  <2>3. \A v \in Workers, k \in Listeners : Calls(v, k)' = Calls(v, k)
    BY <2>1 DEF Calls
  <2>4. ASSUME NEW v \in Workers, NEW k \in Listeners, k # l
        PROVE  StreamKept(v, k)'
    <3>1. Heard(v, k, sent[v])' = Heard(v, k, sent[v]) /\ Heard(v, k, upto[k][v])' = Heard(v, k, upto[k][v])
      BY <2>1, <2>2, <2>3, <2>4 DEF Heard
    <3>2. k \in subs' <=> k \in subs
      BY <2>1, <2>4
    <3>3. QED
      BY <2>1, <2>2, <2>4, <3>1, <3>2 DEF StreamKept
  <2>5. ASSUME NEW v \in Workers
        PROVE  StreamKept(v, l)'
    <3>1. heard[l] = <<>> /\ ~Calls(v, l) /\ sent[v] \in Nat
      BY <2>1 DEF StreamKept, Calls, ListenInv, SinksTypes
    <3>2. Kept(v, <<>>, sent[v], sent[v])
      BY <3>1, KeptNone
    <3>3. Heard(v, l, sent[v])'
      BY <2>1, <2>2, <2>3, <3>1, <3>2 DEF Heard
    <3>4. QED
      BY <2>1, <2>2, <3>3 DEF StreamKept
  <2>6. QED
    BY <2>4, <2>5
<1>9. ASSUME NEW l \in Listeners, Unsubscribe(l) \/ Break(l)
      PROVE  \A v \in Workers, k \in Listeners : StreamKept(v, k)'
  <2>1. PICK st \in {"left", "broken"} :
          /\ life[l] = "live" /\ life' = [life EXCEPT ![l] = st]
          /\ \A k \in Listeners : k # l => (k \in subs' <=> k \in subs)
          /\ upto' = [upto EXCEPT ![l] = sent]
          /\ UNCHANGED <<at, sent, todo, since, heard>>
    BY <1>9 DEF Unsubscribe, Break
  <2>2. /\ life'[l] = st /\ upto'[l] = sent
        /\ \A k \in Listeners : k # l => life'[k] = life[k] /\ upto'[k] = upto[k]
    BY <2>1 DEF SinksTypes
  <2>3. \A v \in Workers, k \in Listeners : Calls(v, k)' = Calls(v, k)
    BY <2>1 DEF Calls
  <2>4. ASSUME NEW v \in Workers, NEW k \in Listeners, k # l
        PROVE  StreamKept(v, k)'
    <3>1. Heard(v, k, sent[v])' = Heard(v, k, sent[v]) /\ Heard(v, k, upto[k][v])' = Heard(v, k, upto[k][v])
      BY <2>1, <2>2, <2>3, <2>4 DEF Heard
    <3>2. QED
      BY <2>1, <2>2, <2>4, <3>1 DEF StreamKept
  <2>5. ASSUME NEW v \in Workers
        PROVE  StreamKept(v, l)'
    <3>1. Heard(v, l, sent[v])
      BY <2>1 DEF StreamKept
    <3>2. CASE st = "left"
      <4>1. Heard(v, l, upto[l][v])'
        BY <2>1, <2>2, <2>3, <3>1 DEF Heard
      <4>2. QED
        BY <2>2, <3>2, <4>1 DEF StreamKept
    <3>3. CASE st = "broken"
      <4>1. \E n \in {sent[v] - 1, sent[v]} : Kept(v, heard[l], since[l][v], n)
        BY <3>1 DEF Heard
      <4>2. QED
        BY <2>1, <2>2, <3>3, <4>1 DEF StreamKept
    <3>4. QED
      BY <3>2, <3>3
  <2>6. QED
    BY <2>4, <2>5
<1>10. QED
  BY <1>3, <1>4, <1>5, <1>6, <1>7, <1>8, <1>9 DEF SinksNext

-----------------------------------------------------------------------------
\* All of it, together.
SinksInv ==
  /\ SinksTypes /\ CountInv /\ ListenInv
  /\ \A w \in Workers : LogsKept(w)
  /\ \A w \in Workers, l \in Listeners : StreamKept(w, l)

LEMMA SinksInvInit == SinksInit => SinksInv
<1> SUFFICES ASSUME SinksInit PROVE SinksInv
  OBVIOUS
<1>1. SinksTypes
  BY DEF SinksInit, SinksTypes, Places
<1>2. CountInv /\ ListenInv
  BY DEF SinksInit, CountInv, ListenInv, Passed, Calls
<1>3. ASSUME NEW w \in Workers PROVE LogsKept(w)
  <2>1. made[w] = 0 /\ at[w] = "idle" /\ file = <<>> /\ memory = <<>>
    BY DEF SinksInit
  <2>2. Kept(w, <<>>, 0, 0)
    BY KeptNone
  <2>3. QED
    BY <2>1, <2>2 DEF LogsKept, Passed
<1>4. ASSUME NEW w \in Workers, NEW l \in Listeners PROVE StreamKept(w, l)
  BY DEF SinksInit, StreamKept
<1>5. QED
  BY <1>1, <1>2, <1>3, <1>4 DEF SinksInv

\* Whoever emits, comes, goes or breaks between two steps of a fan-out: each
\* record is in the memory, in the file while that is open, and at each
\* listener that is there, once and in its worker's order.
THEOREM StreamsCorrect == SinksSpec => []StreamsKept
<1>1. SinksInv /\ [SinksNext]_kvars => SinksInv'
  <2> SUFFICES ASSUME SinksInv, [SinksNext]_kvars PROVE SinksInv'
    OBVIOUS
  <2>1. SinksTypes' /\ CountInv' /\ ListenInv'
    BY TypesStep, CountStep, ListenStep DEF SinksInv
  <2>2. \A w \in Workers : LogsKept(w)'
    BY LogsStep DEF SinksInv
  <2>3. \A w \in Workers, l \in Listeners : StreamKept(w, l)'
    BY StreamsStep DEF SinksInv
  <2>4. QED
    BY <2>1, <2>2, <2>3 DEF SinksInv
<1>2. SinksInv => StreamsKept
  <2> SUFFICES ASSUME SinksInv, NEW w \in Workers, NEW l \in Listeners
               PROVE  /\ life[l] = "left" => l \notin subs
                      /\ life[l] = "broken" /\ sent[w] > upto[l][w] /\ at[w] # "calling" => l \notin subs
    BY DEF SinksInv, StreamsKept, LogsKept, StreamKept
  <2>1. QED
    BY DEF SinksInv, ListenInv
<1>3. QED
  BY <1>1, <1>2, SinksInvInit, PTL DEF SinksSpec
=============================================================================
