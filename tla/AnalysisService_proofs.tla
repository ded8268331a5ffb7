----------------------- MODULE AnalysisService_proofs -----------------------
(***************************************************************************)
(* The lifecycle of the analysis service, proved for every set of          *)
(* requests, sessions and tracks.                                          *)
(***************************************************************************)
EXTENDS AnalysisService, FiniteSetTheorems, SequenceTheorems, TLAPS

(***************************************************************************)
(* The queue of the lock holds each handler once.                          *)
(***************************************************************************)

\* A handler that is not in the queue yet goes to its end.
LEMMA QueueAppend ==
  ASSUME NEW S, NEW q \in Seq(S), IsInjective(q), NEW x \in S, x \notin ToSet(q)
  PROVE  /\ Append(q, x) \in Seq(S) /\ IsInjective(Append(q, x))
         /\ ToSet(Append(q, x)) = ToSet(q) \union {x}
         /\ q # <<>> => Head(Append(q, x)) = Head(q)
<1> DEFINE a == Append(q, x)
<1>1. /\ a \in Seq(S) /\ Len(a) = Len(q) + 1 /\ a[Len(q) + 1] = x
      /\ \A i \in 1..Len(q) : a[i] = q[i]
      /\ DOMAIN a = 1..(Len(q) + 1) /\ DOMAIN q = 1..Len(q) /\ Len(q) \in Nat
      /\ q # <<>> => Head(a) = Head(q)
  OBVIOUS
<1>2. \A i \in DOMAIN a : i \in 1..Len(q) \/ i = Len(q) + 1
  BY <1>1
<1>3. \A i \in 1..Len(q) : q[i] # x
  BY <1>1 DEF ToSet
<1> HIDE DEF a
<1>4. IsInjective(a)
  BY <1>1, <1>2, <1>3 DEF IsInjective
<1>5. ToSet(a) = ToSet(q) \union {x}
  BY <1>1, <1>2 DEF ToSet
<1>6. QED
  BY <1>1, <1>4, <1>5 DEF a

\* The holder leaves the front of it.
LEMMA QueueTail ==
  ASSUME NEW S, NEW q \in Seq(S), IsInjective(q), q # <<>>
  PROVE  /\ Tail(q) \in Seq(S) /\ IsInjective(Tail(q))
         /\ ToSet(Tail(q)) = ToSet(q) \ {Head(q)}
         /\ Head(q) \in ToSet(q)
<1> DEFINE b == Tail(q)
<1>1. /\ b \in Seq(S) /\ Len(b) = Len(q) - 1 /\ Head(q) = q[1] /\ Len(q) \in Nat /\ Len(q) # 0
      /\ DOMAIN b = 1..(Len(q) - 1) /\ DOMAIN q = 1..Len(q)
      /\ \A i \in 1..(Len(q) - 1) : b[i] = q[i + 1]
  OBVIOUS
<1>2. \A i \in DOMAIN q : i = 1 \/ (i - 1 \in DOMAIN b /\ b[i - 1] = q[i])
  BY <1>1
<1>3. \A i \in DOMAIN b : i + 1 \in DOMAIN q /\ b[i] = q[i + 1] /\ i + 1 # 1
  BY <1>1
<1>4. 1 \in DOMAIN q
  BY <1>1
<1> HIDE DEF b
<1>5. IsInjective(b)
  <2> SUFFICES ASSUME NEW i \in DOMAIN b, NEW j \in DOMAIN b, b[i] = b[j] PROVE i = j
    BY DEF IsInjective
  <2>1. i + 1 = j + 1
    BY <1>3 DEF IsInjective
  <2>2. QED
    BY <1>1, <2>1
<1>6. ToSet(b) = ToSet(q) \ {Head(q)}
  <2>1. \A x, y \in DOMAIN q : q[x] = q[y] => x = y
    BY DEF IsInjective
  <2>2. \A i \in DOMAIN b : b[i] \in ToSet(q) \ {q[1]}
    BY <1>3, <1>4, <2>1 DEF ToSet
  <2>3. \A i \in DOMAIN q : q[i] = q[1] \/ q[i] \in ToSet(b)
    BY <1>2 DEF ToSet
  <2>4. QED
    BY <1>1, <2>2, <2>3 DEF ToSet
<1>7. QED
  BY <1>1, <1>4, <1>5, <1>6 DEF ToSet, b

\* A cancelled waiter leaves the place where it stands.
LEMMA QueueRemove ==
  ASSUME NEW S, NEW q \in Seq(S), IsInjective(q), NEW k \in 1..Len(q)
  PROVE  /\ RemoveAt(q, k) \in Seq(S) /\ IsInjective(RemoveAt(q, k))
         /\ ToSet(RemoveAt(q, k)) = ToSet(q) \ {q[k]}
         /\ Head(q) # q[k] => Head(RemoveAt(q, k)) = Head(q)
<1> DEFINE a == SubSeq(q, 1, k - 1)
           b == SubSeq(q, k + 1, Len(q))
           c == a \o b
<1>1. /\ a \in Seq(S) /\ Len(a) = k - 1 /\ \A i \in 1..(k - 1) : a[i] = q[i]
      /\ b \in Seq(S) /\ Len(b) = Len(q) - k /\ \A i \in 1..(Len(q) - k) : b[i] = q[k + i]
      /\ Len(q) \in Nat /\ DOMAIN q = 1..Len(q)
  OBVIOUS
<1>2. /\ c \in Seq(S) /\ Len(c) = Len(q) - 1 /\ DOMAIN c = 1..(Len(q) - 1)
      /\ \A i \in 1..(Len(q) - 1) :
           /\ i < k => i \in 1..(k - 1) /\ c[i] = a[i]
           /\ i >= k => i - (k - 1) \in 1..(Len(q) - k) /\ c[i] = b[i - (k - 1)]
  <2>0. k \in Nat /\ k >= 1 /\ k <= Len(q)
    BY <1>1
  <2> HIDE DEF a, b
  <2>1. c \in Seq(S) /\ Len(c) = Len(a) + Len(b)
    BY <1>1, ConcatProperties
  <2>2. \A i \in 1..(Len(a) + Len(b)) : c[i] = IF i <= Len(a) THEN a[i] ELSE b[i - Len(a)]
    BY <1>1, ConcatProperties
  <2>3. Len(a) + Len(b) = Len(q) - 1
    BY <1>1, <2>0
  <2>4. DOMAIN c = 1..Len(c)
    BY <2>1
  <2> HIDE DEF c
  <2>5. ASSUME NEW i \in 1..(Len(q) - 1)
        PROVE  /\ i < k => i \in 1..(k - 1) /\ c[i] = a[i]
               /\ i >= k => i - (k - 1) \in 1..(Len(q) - k) /\ c[i] = b[i - (k - 1)]
    <3>1. i < k => i <= k - 1 /\ i \in 1..(k - 1)
      BY <1>1, <2>0
    <3>2. i >= k => ~(i <= k - 1) /\ i - (k - 1) \in 1..(Len(q) - k)
      BY <1>1, <2>0
    <3>3. c[i] = IF i <= k - 1 THEN a[i] ELSE b[i - (k - 1)]
      BY <1>1, <2>2, <2>3
    <3>4. QED
      BY <3>1, <3>2, <3>3
  <2>6. QED
    BY <2>1, <2>3, <2>4, <2>5
<1> HIDE DEF a, b, c
<1>3. \A i \in DOMAIN c : \/ i < k /\ i \in DOMAIN q /\ c[i] = q[i]
                          \/ i >= k /\ i + 1 \in DOMAIN q /\ c[i] = q[i + 1]
  <2> SUFFICES ASSUME NEW i \in 1..(Len(q) - 1)
               PROVE  \/ i < k /\ i \in 1..Len(q) /\ c[i] = q[i]
                      \/ i >= k /\ i + 1 \in 1..Len(q) /\ c[i] = q[i + 1]
    BY <1>1, <1>2
  <2>1. i \in 1..Len(q) /\ i + 1 \in 1..Len(q) /\ k + (i - (k - 1)) = i + 1 /\ (i < k \/ i >= k)
    BY <1>1
  <2>2. CASE i < k
    BY <1>1, <1>2, <2>1, <2>2
  <2>3. CASE i >= k
    <3>1. c[i] = b[i - (k - 1)] /\ i - (k - 1) \in 1..(Len(q) - k)
      BY <1>2, <2>3
    <3>2. b[i - (k - 1)] = q[k + (i - (k - 1))]
      BY <1>1, <3>1
    <3>3. QED
      BY <2>1, <2>3, <3>1, <3>2
  <2>4. QED
    BY <2>1, <2>2, <2>3
<1>4. \A i \in DOMAIN q : \/ i = k
                          \/ i < k /\ i \in DOMAIN c /\ c[i] = q[i]
                          \/ i > k /\ i - 1 \in DOMAIN c /\ c[i - 1] = q[i]
  <2> SUFFICES ASSUME NEW i \in 1..Len(q), i # k
               PROVE  \/ i < k /\ i \in 1..(Len(q) - 1) /\ c[i] = q[i]
                      \/ i > k /\ i - 1 \in 1..(Len(q) - 1) /\ c[i - 1] = q[i]
    BY <1>1, <1>2
  <2>1. CASE i < k
    <3>1. i \in 1..(Len(q) - 1) /\ ~(i >= k)
      BY <1>1, <2>1
    <3>2. QED
      BY <1>2, <1>3, <2>1, <3>1
  <2>2. CASE i > k
    <3>1. i - 1 \in 1..(Len(q) - 1) /\ ~(i - 1 < k) /\ (i - 1) + 1 = i
      BY <1>1, <2>2
    <3>2. c[i - 1] = q[(i - 1) + 1]
      BY <1>2, <1>3, <3>1
    <3>3. QED
      BY <2>2, <3>1, <3>2
  <2>3. QED
    BY <1>1, <2>1, <2>2
<1>5. IsInjective(c)
  <2> SUFFICES ASSUME NEW i \in DOMAIN c, NEW j \in DOMAIN c, c[i] = c[j] PROVE i = j
    BY DEF IsInjective
  <2>1. i \in Int /\ j \in Int /\ k \in Int
    BY <1>2
  <2>2. \A x, y \in DOMAIN q : q[x] = q[y] => x = y
    BY DEF IsInjective
  <2>3. QED
    BY <1>3, <2>1, <2>2
<1>6. ToSet(c) = ToSet(q) \ {q[k]}
  <2>1. \A x, y \in DOMAIN q : q[x] = q[y] => x = y
    BY DEF IsInjective
  <2>2. k \in DOMAIN q /\ k \in Int /\ \A i \in DOMAIN c : i \in Int /\ (i >= k => i + 1 # k) /\ (i < k => i # k)
    BY <1>1, <1>2
  <2>3. \A i \in DOMAIN c : c[i] \in ToSet(q) \ {q[k]}
    BY <1>3, <2>1, <2>2 DEF ToSet
  <2>4. \A i \in DOMAIN q : i # k => q[i] \in ToSet(c)
    BY <1>4 DEF ToSet
  <2>5. QED
    BY <2>3, <2>4 DEF ToSet
<1>7. Head(q) # q[k] => Head(c) = Head(q)
  <2> SUFFICES ASSUME Head(q) # q[k] PROVE Head(c) = Head(q)
    OBVIOUS
  <2>1. k # 1 /\ Head(q) = q[1]
    OBVIOUS
  <2>2. 1 < k /\ 1 \in DOMAIN c /\ Len(c) # 0
    BY <1>2, <2>1
  <2>3. c[1] = q[1]
    BY <1>3, <2>2
  <2>4. Head(c) = c[1]
    BY <1>2, <2>2
  <2>5. QED
    BY <2>1, <2>3, <2>4
<1>8. RemoveAt(q, k) = c
  BY DEF RemoveAt, a, b, c
<1>9. QED
  BY <1>2, <1>5, <1>6, <1>7, <1>8

(***************************************************************************)
(* The lock.                                                               *)
(***************************************************************************)

Busy == {"stopping", "connecting", "cleaning"}

\* The sets of requests the constants separate.
LEMMA Kinds ==
  /\ Starts \subseteq Requests /\ Cleanup \in Requests /\ Cleanup \notin Starts
  /\ None \notin Starts /\ Cleanup \notin MayCancel
BY ServiceAssumption DEF Requests

\* The phases a handler is in flight in are those that are neither new nor over.
LEMMA Phases ==
  /\ \A p \in Phase : p \notin Ended \union {"new"} <=> p \in Busy \union {"queued"}
  /\ Ended \subseteq Phase /\ Busy \subseteq Phase
  /\ "new" \in Phase /\ "queued" \in Phase
BY DEF Phase, Ended, Busy

\* Who has passed the lock holds it, and nobody else has passed it.
LEMMA BusyHolds ==
  ASSUME HandlerTypeOK, NEW r \in Requests, phase[r] \in Busy
  PROVE  /\ Holds(r) /\ lockq # <<>>
         /\ \A q \in Requests : phase[q] \in Busy => q = r
<1>1. \A q \in Requests : phase[q] \in Busy => q \in InFlight /\ phase[q] # "queued"
  BY DEF InFlight, Busy, Ended
<1>2. lockq \in Seq(Requests) /\ DOMAIN lockq = 1..Len(lockq)
  BY DEF HandlerTypeOK
<1>3. r \in ToSet(lockq)
  BY <1>1 DEF HandlerTypeOK, LockOK
<1>4. lockq # <<>>
  BY <1>2, <1>3 DEF ToSet
<1>5. QED
  BY <1>1, <1>4 DEF HandlerTypeOK, LockOK, Holds

\* The holder is queued or busy, and the others wait.
LEMMA HolderInFlight ==
  ASSUME HandlerTypeOK, NEW r, Holds(r)
  PROVE  /\ r \in Requests /\ r \in InFlight /\ lockq # <<>> /\ Head(lockq) = r
         /\ \A q \in Requests : q # r => phase[q] \notin Busy
<1>1. lockq \in Seq(Requests) /\ IsInjective(lockq) /\ lockq # <<>> /\ Head(lockq) = r
  BY DEF HandlerTypeOK, LockOK, Holds
<1>2. r \in ToSet(lockq)
  BY <1>1, QueueTail
<1>3. r \in InFlight /\ r \in Requests
  BY <1>2 DEF HandlerTypeOK, LockOK, InFlight
<1>4. QED
  BY <1>1, <1>3, BusyHolds DEF Holds

\* The holder goes on.
LEMMA LockGoesOn ==
  ASSUME HandlerTypeOK, NEW r \in Requests, Holds(r), NEW p \in Busy,
         phase' = [phase EXCEPT ![r] = p], lockq' = lockq
  PROVE  LockOK'
<1>1. /\ r \in InFlight /\ Head(lockq) = r
      /\ \A q \in Requests : q # r => phase[q] \notin Busy
      /\ phase \in [Requests -> Phase]
  BY HolderInFlight DEF HandlerTypeOK
<1>2. p \notin Ended \union {"new"}
  BY Phases
<1>3. InFlight' = InFlight
  BY <1>1, <1>2 DEF InFlight
<1>4. \A q \in InFlight : phase'[q] # "queued" => q = Head(lockq)
  BY <1>1 DEF HandlerTypeOK, LockOK, InFlight
<1>5. QED
  BY <1>3, <1>4 DEF HandlerTypeOK, LockOK

\* The holder ends and gives the lock to the next.
LEMMA LockReleased ==
  ASSUME HandlerTypeOK, NEW r \in Requests, Holds(r), NEW p \in Ended,
         phase' = [phase EXCEPT ![r] = p], Release
  PROVE  LockOK' /\ lockq' \in Seq(Requests)
<1>1. /\ r \in InFlight /\ Head(lockq) = r /\ lockq # <<>>
      /\ \A q \in Requests : q # r => phase[q] \notin Busy
      /\ phase \in [Requests -> Phase] /\ lockq \in Seq(Requests) /\ IsInjective(lockq)
      /\ ToSet(lockq) = InFlight
  BY HolderInFlight DEF HandlerTypeOK, LockOK
<1>2. InFlight' = InFlight \ {r}
  BY <1>1 DEF InFlight
<1>3. /\ lockq' \in Seq(Requests) /\ IsInjective(lockq') /\ ToSet(lockq') = InFlight \ {r}
  BY <1>1, QueueTail DEF Release
<1>4. \A q \in InFlight \ {r} : phase'[q] = "queued"
  BY <1>1, Phases DEF InFlight
<1>5. QED
  BY <1>2, <1>3, <1>4 DEF LockOK

\* A handler that comes waits at the end.
LEMMA LockJoined ==
  ASSUME HandlerTypeOK, NEW r \in Requests, phase[r] = "new",
         phase' = [phase EXCEPT ![r] = "queued"], lockq' = Append(lockq, r)
  PROVE  LockOK' /\ lockq' \in Seq(Requests)
<1>1. /\ phase \in [Requests -> Phase] /\ lockq \in Seq(Requests) /\ IsInjective(lockq)
      /\ ToSet(lockq) = InFlight /\ r \notin InFlight
  BY DEF HandlerTypeOK, LockOK, InFlight
<1>2. InFlight' = InFlight \union {r}
  BY <1>1 DEF InFlight, Ended
<1>3. /\ lockq' \in Seq(Requests) /\ IsInjective(lockq') /\ ToSet(lockq') = InFlight'
      /\ lockq # <<>> => Head(lockq') = Head(lockq)
  BY <1>1, <1>2, QueueAppend
<1>4. ASSUME NEW q \in InFlight', phase'[q] # "queued" PROVE q = Head(lockq')
  <2>1. q \in InFlight /\ phase[q] # "queued"
    BY <1>1, <1>2, <1>4 DEF InFlight
  <2>2. q \in Requests /\ phase[q] \in Busy
    BY <1>1, <2>1, Phases DEF InFlight
  <2>3. QED
    BY <1>3, <2>2, BusyHolds DEF Holds
<1>5. QED
  BY <1>3, <1>4 DEF LockOK

\* One that waits is cancelled.
LEMMA LockLeft ==
  ASSUME HandlerTypeOK, NEW r \in Requests, phase[r] = "queued",
         phase' = [phase EXCEPT ![r] = "cancelled"],
         NEW k \in 1..Len(lockq), lockq[k] = r, lockq' = RemoveAt(lockq, k)
  PROVE  LockOK' /\ lockq' \in Seq(Requests)
<1>1. /\ phase \in [Requests -> Phase] /\ lockq \in Seq(Requests) /\ IsInjective(lockq)
      /\ ToSet(lockq) = InFlight
  BY DEF HandlerTypeOK, LockOK
<1>2. InFlight' = InFlight \ {r}
  BY <1>1 DEF InFlight, Ended
<1>3. /\ lockq' \in Seq(Requests) /\ IsInjective(lockq') /\ ToSet(lockq') = InFlight'
      /\ Head(lockq) # r => Head(lockq') = Head(lockq)
  BY <1>1, <1>2, QueueRemove
<1>4. ASSUME NEW q \in InFlight', phase'[q] # "queued" PROVE q = Head(lockq')
  <2>1. q \in InFlight /\ q # r /\ phase[q] # "queued"
    BY <1>1, <1>2, <1>4 DEF InFlight
  <2>2. q \in Requests /\ phase[q] \in Busy
    BY <1>1, <2>1, Phases DEF InFlight
  <2>3. QED
    BY <1>3, <2>1, <2>2, BusyHolds DEF Holds
<1>5. QED
  BY <1>3, <1>4 DEF LockOK

\* One that never waits leaves the queue as it is.
LEMMA LockPassed ==
  ASSUME HandlerTypeOK, NEW r \in Requests, phase[r] = "new", NEW p \in Ended,
         phase' = [phase EXCEPT ![r] = p], lockq' = lockq
  PROVE  LockOK'
<1>1. phase \in [Requests -> Phase] /\ r \notin InFlight
  BY DEF HandlerTypeOK, InFlight
<1>2. InFlight' = InFlight /\ \A q \in InFlight : phase'[q] = phase[q]
  BY <1>1 DEF InFlight
<1>3. QED
  BY <1>2 DEF HandlerTypeOK, LockOK

(***************************************************************************)
(* What the lifecycle rests on.                                            *)
(***************************************************************************)

\* What a handler past the lock has in its hands, and where that stands.
HandInv ==
  \A r \in Requests :
    /\ phase[r] = "stopping" =>
         /\ victim[r] \in Starts /\ victim[r] = latest /\ active = None
         /\ phase[victim[r]] = "202" /\ sub[victim[r]] \in {"closing", "leaving"}
    /\ phase[r] = "connecting" => r \in Starts /\ active = None /\ sub[r] = "started"
    /\ phase[r] = "cleaning" => r \in Starts /\ active = None /\ sub[r] \in {"closing", "leaving"}

\* A start that has not connected yet has no subscriber.
FreshInv ==
  \A r \in Starts : phase[r] \in {"new", "queued", "stopping", "400"} => sub[r] = "none"

\* The active session is connected, and was answered last.
ActiveInv ==
  active # None => active = latest /\ phase[active] = "202" /\ sub[active] = "running"

Hand(s) ==
  \E r \in Requests : \/ phase[r] = "stopping" /\ victim[r] = s
                      \/ phase[r] \in {"connecting", "cleaning"} /\ r = s

\* No subscriber is left to itself but by a cancelled connect.
LiveInv ==
  \A s \in Starts :
    sub[s] \notin {"none", "closed"} =>
      s = active \/ Hand(s) \/ (phase[s] = "cancelled" /\ sub[s] = "started")

\* The session that was answered last is active, being closed or kept.
LastInv ==
  latest # None =>
    \/ active = latest
    \/ active = None /\ last = latest
    \/ \E r \in Requests : phase[r] = "stopping" /\ victim[r] = latest

\* Once the cleanup runs nobody else does, and then nothing is active.
EndInv ==
  phase[Cleanup] # "new" =>
    /\ \A r \in Requests : r # Cleanup => phase[r] \in Ended \union {"new"}
    /\ phase[Cleanup] \in Ended => active = None

ServiceInv ==
  /\ HandlerTypeOK /\ HandInv /\ FreshInv /\ ActiveInv
  /\ LiveInv /\ LastInv /\ NoOrphanConsumer /\ EndInv

\* Nothing is open in the beginning.
LEMMA InvInit == ServiceInit => ServiceInv
<1> SUFFICES ASSUME ServiceInit PROVE ServiceInv
  OBVIOUS
<1>1. InFlight = {} /\ lockq = <<>>
  BY DEF ServiceInit, InFlight
<1>2. LockOK
  BY <1>1 DEF LockOK, IsInjective, ToSet
<1>3. HandlerTypeOK
  BY <1>2 DEF ServiceInit, HandlerTypeOK, Phase, SubState
<1>4. HandInv /\ FreshInv /\ ActiveInv /\ LiveInv /\ LastInv /\ NoOrphanConsumer /\ EndInv
  BY Kinds DEF ServiceInit, HandInv, FreshInv, ActiveInv, LiveInv, LastInv, NoOrphanConsumer, EndInv
<1>5. QED
  BY <1>3, <1>4 DEF ServiceInv

\* A bad request is refused.
LEMMA StepRefuse ==
  ASSUME ServiceInv, NEW r \in Requests, Refuse(r)
  PROVE  ServiceInv'
<1> USE DEF ServiceInv
<1>1. /\ r \in Starts /\ phase[r] = "new" /\ phase[Cleanup] = "new"
      /\ phase' = [phase EXCEPT ![r] = "400"] /\ lockq' = lockq
      /\ UNCHANGED <<session, gone, victim, active, last, latest, sub, tasks, consumed>>
      /\ phase \in [Requests -> Phase]
      /\ lockq \in Seq(Requests)
  BY DEF Refuse, sessions, subscribers, HandlerTypeOK
<1>2. LockOK' /\ lockq' \in Seq(Requests)
  BY <1>1, LockPassed DEF Ended
<1>3. HandlerTypeOK'
  BY <1>1, <1>2, Kinds DEF HandlerTypeOK, Phase, SubState
<1>4. HandInv'
  BY <1>1, Kinds DEF HandInv
<1>5. FreshInv'
  BY <1>1, Kinds DEF FreshInv
<1>6. ActiveInv'
  BY <1>1, Kinds DEF ActiveInv
<1>7. LiveInv'
  BY <1>1, Kinds DEF LiveInv, Hand
<1>8. LastInv'
  BY <1>1, Kinds DEF LastInv
<1>9. NoOrphanConsumer'
  BY <1>1, Kinds DEF NoOrphanConsumer
<1>10. EndInv'
  BY <1>1, Kinds DEF EndInv, Ended
<1>11. QED
  BY <1>3, <1>4, <1>5, <1>6, <1>7, <1>8, <1>9, <1>10

\* A handler is called.
LEMMA StepArrive ==
  ASSUME ServiceInv, NEW r \in Requests, Arrive(r)
  PROVE  ServiceInv'
<1> USE DEF ServiceInv
<1>1. /\ r # Cleanup /\ phase[r] = "new" /\ phase[Cleanup] = "new"
      /\ phase' = [phase EXCEPT ![r] = "queued"] /\ lockq' = Append(lockq, r)
      /\ UNCHANGED <<session, gone, victim, active, last, latest, sub, tasks, consumed>>
      /\ phase \in [Requests -> Phase]
  BY DEF Arrive, sessions, subscribers, HandlerTypeOK
<1>2. LockOK' /\ lockq' \in Seq(Requests)
  BY <1>1, LockJoined
<1>3. HandlerTypeOK'
  BY <1>1, <1>2, Kinds DEF HandlerTypeOK, Phase, SubState
<1>4. HandInv'
  BY <1>1, Kinds DEF HandInv
<1>5. FreshInv'
  BY <1>1, Kinds DEF FreshInv
<1>6. ActiveInv'
  BY <1>1, Kinds DEF ActiveInv
<1>7. LiveInv'
  BY <1>1, Kinds DEF LiveInv, Hand
<1>8. LastInv'
  BY <1>1, Kinds DEF LastInv
<1>9. NoOrphanConsumer'
  BY <1>1, Kinds DEF NoOrphanConsumer
<1>10. EndInv'
  BY <1>1, Kinds DEF EndInv, Ended
<1>11. QED
  BY <1>3, <1>4, <1>5, <1>6, <1>7, <1>8, <1>9, <1>10

\* The cleanup asks for a stop.
LEMMA StepCleanUpStops ==
  ASSUME ServiceInv, CleanUp, active # None
  PROVE  ServiceInv'
<1> USE DEF ServiceInv
<1>1. /\ phase[Cleanup] = "new"
      /\ \A r \in Requests : phase[r] \in Ended \union {"new"}
      /\ phase' = [phase EXCEPT ![Cleanup] = "queued"] /\ lockq' = Append(lockq, Cleanup)
      /\ UNCHANGED <<session, gone, victim, active, last, latest, sub, tasks, consumed>>
      /\ phase \in [Requests -> Phase]
  BY DEF CleanUp, sessions, subscribers, HandlerTypeOK
<1>2. LockOK' /\ lockq' \in Seq(Requests)
  BY <1>1, Kinds, LockJoined
<1>3. HandlerTypeOK'
  BY <1>1, <1>2, Kinds DEF HandlerTypeOK, Phase, SubState
<1>4. HandInv'
  BY <1>1, Kinds DEF HandInv
<1>5. FreshInv'
  BY <1>1, Kinds DEF FreshInv
<1>6. ActiveInv'
  BY <1>1, Kinds DEF ActiveInv
<1>7. LiveInv'
  BY <1>1, Kinds DEF LiveInv, Hand
<1>8. LastInv'
  BY <1>1, Kinds DEF LastInv
<1>9. NoOrphanConsumer'
  BY <1>1, Kinds DEF NoOrphanConsumer
<1>10. EndInv'
  BY <1>1, Kinds DEF EndInv, Ended
<1>11. QED
  BY <1>3, <1>4, <1>5, <1>6, <1>7, <1>8, <1>9, <1>10

\* The cleanup has nothing to stop.
LEMMA StepCleanUpIdle ==
  ASSUME ServiceInv, CleanUp, active = None
  PROVE  ServiceInv'
<1> USE DEF ServiceInv
<1>1. /\ phase[Cleanup] = "new"
      /\ \A r \in Requests : phase[r] \in Ended \union {"new"}
      /\ phase' = [phase EXCEPT ![Cleanup] = "idle"] /\ lockq' = lockq
      /\ UNCHANGED <<session, gone, victim, active, last, latest, sub, tasks, consumed>>
      /\ phase \in [Requests -> Phase]
      /\ lockq \in Seq(Requests)
  BY DEF CleanUp, sessions, subscribers, HandlerTypeOK
<1>2. LockOK' /\ lockq' \in Seq(Requests)
  BY <1>1, Kinds, LockPassed DEF Ended
<1>3. HandlerTypeOK'
  BY <1>1, <1>2, Kinds DEF HandlerTypeOK, Phase, SubState
<1>4. HandInv'
  BY <1>1, Kinds DEF HandInv
<1>5. FreshInv'
  BY <1>1, Kinds DEF FreshInv
<1>6. ActiveInv'
  BY <1>1, Kinds DEF ActiveInv
<1>7. LiveInv'
  BY <1>1, Kinds DEF LiveInv, Hand
<1>8. LastInv'
  BY <1>1, Kinds DEF LastInv
<1>9. NoOrphanConsumer'
  BY <1>1, Kinds DEF NoOrphanConsumer
<1>10. EndInv'
  BY <1>1, Kinds DEF EndInv, Ended
<1>11. QED
  BY <1>3, <1>4, <1>5, <1>6, <1>7, <1>8, <1>9, <1>10

\* A handler begins to close the active session.
LEMMA StepBeginStop ==
  ASSUME ServiceInv, NEW r \in Requests, Enter(r), active # None
  PROVE  ServiceInv'
<1> USE DEF ServiceInv
<1>1. /\ Holds(r) /\ phase[r] = "queued"
      /\ phase' = [phase EXCEPT ![r] = "stopping"] /\ lockq' = lockq
      /\ victim' = [victim EXCEPT ![r] = active] /\ sub' = [sub EXCEPT ![active] = "closing"] /\ active' = None
      /\ UNCHANGED <<session, gone, last, latest, tasks, consumed>>
      /\ phase \in [Requests -> Phase]
      /\ sub \in [Starts -> SubState]
      /\ victim \in [Requests -> Starts \union {None}]
      /\ active \in Starts
      /\ lockq \in Seq(Requests)
  BY DEF Enter, BeginStop, Closing, HandlerTypeOK
<1>2. /\ active = latest /\ phase[active] = "202" /\ sub[active] = "running" /\ active # r
      /\ \A q \in Requests : phase[q] \notin {"stopping", "connecting", "cleaning"}
  BY <1>1, HolderInFlight DEF ActiveInv, Busy
<1>3. LockOK' /\ lockq' \in Seq(Requests)
  BY <1>1, <1>2, LockGoesOn DEF Busy
<1>4. HandlerTypeOK'
  BY <1>1, <1>2, <1>3, Kinds DEF HandlerTypeOK, Phase, SubState
<1>5. HandInv'
  BY <1>1, <1>2, Kinds DEF HandInv
<1>6. FreshInv'
  BY <1>1, <1>2, Kinds DEF FreshInv
<1>7. ActiveInv'
  BY <1>1, <1>2, Kinds DEF ActiveInv
<1>8. LiveInv'
  BY <1>1, <1>2, Kinds DEF LiveInv, Hand
<1>9. LastInv'
  BY <1>1, <1>2, Kinds DEF LastInv
<1>10. NoOrphanConsumer'
  BY <1>1, <1>2, Kinds DEF NoOrphanConsumer
<1>11. EndInv'
  BY <1>1, <1>2, Kinds DEF EndInv, Ended
<1>12. QED
  BY <1>4, <1>5, <1>6, <1>7, <1>8, <1>9, <1>10, <1>11

\* A stop finds no session.
LEMMA StepEnterIdle ==
  ASSUME ServiceInv, NEW r \in Requests, Enter(r), active = None, phase'[r] = "idle"
  PROVE  ServiceInv'
<1> USE DEF ServiceInv
<1>1. /\ r \notin Starts /\ Holds(r) /\ phase[r] = "queued"
      /\ phase' = [phase EXCEPT ![r] = "idle"] /\ Release
      /\ UNCHANGED <<session, gone, victim, active, last, latest, sub, tasks, consumed>>
      /\ phase \in [Requests -> Phase]
  BY DEF Enter, Build, HandlerTypeOK
<1>2. LockOK' /\ lockq' \in Seq(Requests)
  BY <1>1, LockReleased DEF Ended
<1>3. HandlerTypeOK'
  BY <1>1, <1>2, Kinds DEF HandlerTypeOK, Phase, SubState
<1>4. HandInv'
  BY <1>1, Kinds DEF HandInv
<1>5. FreshInv'
  BY <1>1, Kinds DEF FreshInv
<1>6. ActiveInv'
  BY <1>1, Kinds DEF ActiveInv
<1>7. LiveInv'
  BY <1>1, Kinds DEF LiveInv, Hand
<1>8. LastInv'
  BY <1>1, Kinds DEF LastInv
<1>9. NoOrphanConsumer'
  BY <1>1, Kinds DEF NoOrphanConsumer
<1>10. EndInv'
  BY <1>1, Kinds DEF EndInv, Ended
<1>11. QED
  BY <1>3, <1>4, <1>5, <1>6, <1>7, <1>8, <1>9, <1>10

\* A start has no token.
LEMMA StepEnterRefused ==
  ASSUME ServiceInv, NEW r \in Requests, Enter(r), active = None, phase'[r] = "503"
  PROVE  ServiceInv'
<1> USE DEF ServiceInv
<1>1. /\ r \in Starts /\ Holds(r) /\ phase[r] = "queued"
      /\ phase' = [phase EXCEPT ![r] = "503"] /\ Release
      /\ UNCHANGED <<session, gone, victim, active, last, latest, sub, tasks, consumed>>
      /\ phase \in [Requests -> Phase]
  BY DEF Enter, Build, HandlerTypeOK
<1>2. LockOK' /\ lockq' \in Seq(Requests)
  BY <1>1, LockReleased DEF Ended
<1>3. HandlerTypeOK'
  BY <1>1, <1>2, Kinds DEF HandlerTypeOK, Phase, SubState
<1>4. HandInv'
  BY <1>1, Kinds DEF HandInv
<1>5. FreshInv'
  BY <1>1, Kinds DEF FreshInv
<1>6. ActiveInv'
  BY <1>1, Kinds DEF ActiveInv
<1>7. LiveInv'
  BY <1>1, Kinds DEF LiveInv, Hand
<1>8. LastInv'
  BY <1>1, Kinds DEF LastInv
<1>9. NoOrphanConsumer'
  BY <1>1, Kinds DEF NoOrphanConsumer
<1>10. EndInv'
  BY <1>1, Kinds DEF EndInv, Ended
<1>11. QED
  BY <1>3, <1>4, <1>5, <1>6, <1>7, <1>8, <1>9, <1>10

\* A start builds its subscriber and connects.
LEMMA StepEnterBuilds ==
  ASSUME ServiceInv, NEW r \in Requests, Enter(r), active = None, phase'[r] = "connecting"
  PROVE  ServiceInv'
<1> USE DEF ServiceInv
<1>1. /\ r \in Starts /\ Holds(r) /\ phase[r] = "queued"
      /\ phase' = [phase EXCEPT ![r] = "connecting"] /\ lockq' = lockq
      /\ sub' = [sub EXCEPT ![r] = "started"]
      /\ UNCHANGED <<session, gone, victim, active, last, latest, tasks, consumed>>
      /\ phase \in [Requests -> Phase]
      /\ sub \in [Starts -> SubState]
      /\ lockq \in Seq(Requests)
  BY DEF Enter, Build, HandlerTypeOK
<1>2. /\ \A q \in Requests : phase[q] \notin {"stopping", "connecting", "cleaning"}
  BY <1>1, HolderInFlight DEF Busy
<1>3. LockOK' /\ lockq' \in Seq(Requests)
  BY <1>1, <1>2, LockGoesOn DEF Busy
<1>4. HandlerTypeOK'
  BY <1>1, <1>2, <1>3, Kinds DEF HandlerTypeOK, Phase, SubState
<1>5. HandInv'
  BY <1>1, <1>2, Kinds DEF HandInv
<1>6. FreshInv'
  BY <1>1, <1>2, Kinds DEF FreshInv
<1>7. ActiveInv'
  BY <1>1, <1>2, Kinds DEF ActiveInv
<1>8. LiveInv'
  BY <1>1, <1>2, Kinds DEF LiveInv, Hand
<1>9. LastInv'
  BY <1>1, <1>2, Kinds DEF LastInv
<1>10. NoOrphanConsumer'
  BY <1>1, <1>2, Kinds DEF NoOrphanConsumer
<1>11. EndInv'
  BY <1>1, <1>2, Kinds DEF EndInv, Ended
<1>12. QED
  BY <1>4, <1>5, <1>6, <1>7, <1>8, <1>9, <1>10, <1>11

\* aclose closes the windower.
LEMMA StepCloseSync ==
  ASSUME ServiceInv, NEW s \in Starts, CloseSync(s)
  PROVE  ServiceInv'
<1> USE DEF ServiceInv
<1>1. /\ sub[s] = "closing"
      /\ sub' = [sub EXCEPT ![s] = "leaving"] /\ tasks' = [tasks EXCEPT ![s] = {}]
      /\ UNCHANGED <<session, lockq, phase, gone, victim, active, last, latest, consumed>>
      /\ phase \in [Requests -> Phase]
      /\ sub \in [Starts -> SubState]
      /\ tasks \in [Starts -> SUBSET Tracks]
  BY DEF CloseSync, requests, sessions, HandlerTypeOK
<1>2. LockOK' /\ lockq' \in Seq(Requests)
  BY <1>1 DEF HandlerTypeOK, LockOK, InFlight
<1>3. HandlerTypeOK'
  BY <1>1, <1>2, Kinds DEF HandlerTypeOK, Phase, SubState
<1>4. HandInv'
  BY <1>1, Kinds DEF HandInv
<1>5. FreshInv'
  BY <1>1, Kinds DEF FreshInv
<1>6. ActiveInv'
  BY <1>1, Kinds DEF ActiveInv
<1>7. LiveInv'
  BY <1>1, Kinds DEF LiveInv, Hand
<1>8. LastInv'
  BY <1>1, Kinds DEF LastInv
<1>9. NoOrphanConsumer'
  BY <1>1, Kinds DEF NoOrphanConsumer
<1>10. EndInv'
  BY <1>1, Kinds DEF EndInv, Ended
<1>11. QED
  BY <1>3, <1>4, <1>5, <1>6, <1>7, <1>8, <1>9, <1>10

\* A stop is over.
LEMMA StepEndStop ==
  ASSUME ServiceInv, NEW r \in Requests, EndStop(r), phase'[r] \in {"cancelled", "stopped"}
  PROVE  ServiceInv'
<1> USE DEF ServiceInv
<1>1. /\ phase[r] = "stopping" /\ Holds(r) /\ sub[victim[r]] = "leaving"
      /\ phase'[r] \in Ended /\ phase' = [phase EXCEPT ![r] = phase'[r]] /\ Release
      /\ last' = victim[r] /\ victim' = [victim EXCEPT ![r] = None] /\ sub' = [sub EXCEPT ![victim[r]] = "closed"]
      /\ UNCHANGED <<session, gone, active, latest, tasks, consumed>>
      /\ phase \in [Requests -> Phase]
      /\ sub \in [Starts -> SubState]
      /\ victim \in [Requests -> Starts \union {None}]
  BY BusyHolds DEF EndStop, Build, Keeps, Left, HandlerTypeOK, Ended, Busy
<1>2. \A q \in Requests : q # r => phase[q] \notin {"stopping", "connecting", "cleaning"}
  BY <1>1, BusyHolds DEF Busy
<1>3. /\ victim[r] \in Starts /\ victim[r] = latest /\ active = None /\ victim[r] # r
      /\ phase[victim[r]] = "202"
  BY <1>1 DEF HandInv
<1>4. LockOK' /\ lockq' \in Seq(Requests)
  BY <1>1, <1>2, <1>3, LockReleased
<1>5. HandlerTypeOK'
  BY <1>1, <1>2, <1>3, <1>4, Kinds DEF HandlerTypeOK, Phase, SubState
<1>6. HandInv'
  BY <1>1, <1>2, <1>3, Kinds DEF HandInv
<1>7. FreshInv'
  BY <1>1, <1>2, <1>3, Kinds DEF FreshInv
<1>8. ActiveInv'
  BY <1>1, <1>2, <1>3, Kinds DEF ActiveInv
<1>9. LiveInv'
  BY <1>1, <1>2, <1>3, Kinds DEF LiveInv, Hand
<1>10. LastInv'
  BY <1>1, <1>2, <1>3, Kinds DEF LastInv
<1>11. NoOrphanConsumer'
  BY <1>1, <1>2, <1>3, Kinds DEF NoOrphanConsumer
<1>12. EndInv'
  BY <1>1, <1>2, <1>3, Kinds DEF EndInv, Ended
<1>13. QED
  BY <1>5, <1>6, <1>7, <1>8, <1>9, <1>10, <1>11, <1>12

\* A start has closed the session before it, and has no token.
LEMMA StepEndStopRefused ==
  ASSUME ServiceInv, NEW r \in Requests, EndStop(r), phase'[r] = "503"
  PROVE  ServiceInv'
<1> USE DEF ServiceInv
<1>1. /\ phase[r] = "stopping" /\ Holds(r) /\ sub[victim[r]] = "leaving"
      /\ r \in Starts /\ phase' = [phase EXCEPT ![r] = "503"] /\ Release
      /\ last' = victim[r] /\ victim' = [victim EXCEPT ![r] = None] /\ sub' = [sub EXCEPT ![victim[r]] = "closed"]
      /\ UNCHANGED <<session, gone, active, latest, tasks, consumed>>
      /\ phase \in [Requests -> Phase]
      /\ sub \in [Starts -> SubState]
      /\ victim \in [Requests -> Starts \union {None}]
  BY BusyHolds DEF EndStop, Build, Keeps, Left, HandlerTypeOK, Busy
<1>2. \A q \in Requests : q # r => phase[q] \notin {"stopping", "connecting", "cleaning"}
  BY <1>1, BusyHolds DEF Busy
<1>3. /\ victim[r] \in Starts /\ victim[r] = latest /\ active = None /\ victim[r] # r
      /\ phase[victim[r]] = "202"
  BY <1>1 DEF HandInv
<1>4. LockOK' /\ lockq' \in Seq(Requests)
  BY <1>1, <1>2, <1>3, LockReleased DEF Ended
<1>5. HandlerTypeOK'
  BY <1>1, <1>2, <1>3, <1>4, Kinds DEF HandlerTypeOK, Phase, SubState
<1>6. HandInv'
  BY <1>1, <1>2, <1>3, Kinds DEF HandInv
<1>7. FreshInv'
  BY <1>1, <1>2, <1>3, Kinds DEF FreshInv
<1>8. ActiveInv'
  BY <1>1, <1>2, <1>3, Kinds DEF ActiveInv
<1>9. LiveInv'
  BY <1>1, <1>2, <1>3, Kinds DEF LiveInv, Hand
<1>10. LastInv'
  BY <1>1, <1>2, <1>3, Kinds DEF LastInv
<1>11. NoOrphanConsumer'
  BY <1>1, <1>2, <1>3, Kinds DEF NoOrphanConsumer
<1>12. EndInv'
  BY <1>1, <1>2, <1>3, Kinds DEF EndInv, Ended
<1>13. QED
  BY <1>5, <1>6, <1>7, <1>8, <1>9, <1>10, <1>11, <1>12

\* A start has closed the session before it, and connects.
LEMMA StepEndStopBuilds ==
  ASSUME ServiceInv, NEW r \in Requests, EndStop(r), phase'[r] = "connecting"
  PROVE  ServiceInv'
<1> USE DEF ServiceInv
<1>1. /\ phase[r] = "stopping" /\ Holds(r) /\ sub[victim[r]] = "leaving"
      /\ r \in Starts /\ phase' = [phase EXCEPT ![r] = "connecting"] /\ lockq' = lockq
      /\ last' = victim[r] /\ victim' = [victim EXCEPT ![r] = None]
      /\ sub' = [[sub EXCEPT ![victim[r]] = "closed"] EXCEPT ![r] = "started"]
      /\ UNCHANGED <<session, gone, active, latest, tasks, consumed>>
      /\ phase \in [Requests -> Phase]
      /\ sub \in [Starts -> SubState]
      /\ victim \in [Requests -> Starts \union {None}]
      /\ lockq \in Seq(Requests)
  BY BusyHolds DEF EndStop, Build, Keeps, Left, HandlerTypeOK, Busy
<1>2. \A q \in Requests : q # r => phase[q] \notin {"stopping", "connecting", "cleaning"}
  BY <1>1, BusyHolds DEF Busy
<1>3. /\ victim[r] \in Starts /\ victim[r] = latest /\ active = None /\ victim[r] # r
      /\ phase[victim[r]] = "202"
  BY <1>1 DEF HandInv
<1>4. LockOK' /\ lockq' \in Seq(Requests)
  BY <1>1, <1>2, <1>3, LockGoesOn DEF Busy
<1>5. HandlerTypeOK'
  BY <1>1, <1>2, <1>3, <1>4, Kinds DEF HandlerTypeOK, Phase, SubState
<1>6. HandInv'
  BY <1>1, <1>2, <1>3, Kinds DEF HandInv
<1>7. FreshInv'
  BY <1>1, <1>2, <1>3, Kinds DEF FreshInv
<1>8. ActiveInv'
  BY <1>1, <1>2, <1>3, Kinds DEF ActiveInv
<1>9. LiveInv'
  BY <1>1, <1>2, <1>3, Kinds DEF LiveInv, Hand
<1>10. LastInv'
  BY <1>1, <1>2, <1>3, Kinds DEF LastInv
<1>11. NoOrphanConsumer'
  BY <1>1, <1>2, <1>3, Kinds DEF NoOrphanConsumer
<1>12. EndInv'
  BY <1>1, <1>2, <1>3, Kinds DEF EndInv, Ended
<1>13. QED
  BY <1>5, <1>6, <1>7, <1>8, <1>9, <1>10, <1>11, <1>12

\* A start is connected.
LEMMA StepJoined ==
  ASSUME ServiceInv, NEW r \in Requests, Joined(r)
  PROVE  ServiceInv'
<1> USE DEF ServiceInv
<1>1. /\ phase[r] = "connecting" /\ Holds(r)
      /\ phase' = [phase EXCEPT ![r] = "202"] /\ Release
      /\ sub' = [sub EXCEPT ![r] = "running"] /\ active' = r /\ latest' = r
      /\ tasks' \in [Starts -> SUBSET Tracks] /\ consumed' \in [Starts -> SUBSET Tracks]
      /\ \A s \in Starts : s # r => tasks'[s] = tasks[s]
      /\ UNCHANGED <<session, gone, victim, last>>
      /\ phase \in [Requests -> Phase]
      /\ sub \in [Starts -> SubState]
  BY BusyHolds DEF Joined, SubscribeExisting, HandlerTypeOK, Busy
<1>2. \A q \in Requests : q # r => phase[q] \notin {"stopping", "connecting", "cleaning"}
  BY <1>1, BusyHolds DEF Busy
<1>3. r \in Starts /\ active = None /\ sub[r] = "started"
  BY <1>1 DEF HandInv
<1>4. LockOK' /\ lockq' \in Seq(Requests)
  BY <1>1, <1>2, <1>3, LockReleased DEF Ended
<1>5. HandlerTypeOK'
  BY <1>1, <1>2, <1>3, <1>4, Kinds DEF HandlerTypeOK, Phase, SubState
<1>6. HandInv'
  BY <1>1, <1>2, <1>3, Kinds DEF HandInv
<1>7. FreshInv'
  BY <1>1, <1>2, <1>3, Kinds DEF FreshInv
<1>8. ActiveInv'
  BY <1>1, <1>2, <1>3, Kinds DEF ActiveInv
<1>9. LiveInv'
  BY <1>1, <1>2, <1>3, Kinds DEF LiveInv, Hand
<1>10. LastInv'
  BY <1>1, <1>2, <1>3, Kinds DEF LastInv
<1>11. NoOrphanConsumer'
  BY <1>1, <1>2, <1>3, Kinds DEF NoOrphanConsumer
<1>12. EndInv'
  BY <1>1, <1>2, <1>3, Kinds DEF EndInv, Ended
<1>13. QED
  BY <1>5, <1>6, <1>7, <1>8, <1>9, <1>10, <1>11, <1>12

\* A connect fails.
LEMMA StepConnectFailed ==
  ASSUME ServiceInv, NEW r \in Requests, ConnectFailed(r)
  PROVE  ServiceInv'
<1> USE DEF ServiceInv
<1>1. /\ phase[r] = "connecting" /\ Holds(r)
      /\ phase' = [phase EXCEPT ![r] = "cleaning"] /\ lockq' = lockq
      /\ sub' = [sub EXCEPT ![r] = "closing"]
      /\ UNCHANGED <<session, gone, victim, active, last, latest, tasks, consumed>>
      /\ phase \in [Requests -> Phase]
      /\ sub \in [Starts -> SubState]
      /\ lockq \in Seq(Requests)
  BY BusyHolds DEF ConnectFailed, Closing, sessions, HandlerTypeOK, Busy
<1>2. \A q \in Requests : q # r => phase[q] \notin {"stopping", "connecting", "cleaning"}
  BY <1>1, BusyHolds DEF Busy
<1>3. r \in Starts /\ active = None /\ sub[r] = "started"
  BY <1>1 DEF HandInv
<1>4. LockOK' /\ lockq' \in Seq(Requests)
  BY <1>1, <1>2, <1>3, LockGoesOn DEF Busy
<1>5. HandlerTypeOK'
  BY <1>1, <1>2, <1>3, <1>4, Kinds DEF HandlerTypeOK, Phase, SubState
<1>6. HandInv'
  BY <1>1, <1>2, <1>3, Kinds DEF HandInv
<1>7. FreshInv'
  BY <1>1, <1>2, <1>3, Kinds DEF FreshInv
<1>8. ActiveInv'
  BY <1>1, <1>2, <1>3, Kinds DEF ActiveInv
<1>9. LiveInv'
  BY <1>1, <1>2, <1>3, Kinds DEF LiveInv, Hand
<1>10. LastInv'
  BY <1>1, <1>2, <1>3, Kinds DEF LastInv
<1>11. NoOrphanConsumer'
  BY <1>1, <1>2, <1>3, Kinds DEF NoOrphanConsumer
<1>12. EndInv'
  BY <1>1, <1>2, <1>3, Kinds DEF EndInv, Ended
<1>13. QED
  BY <1>5, <1>6, <1>7, <1>8, <1>9, <1>10, <1>11, <1>12

\* The subscriber of a failed connect is gone.
LEMMA StepEndClean ==
  ASSUME ServiceInv, NEW r \in Requests, EndClean(r)
  PROVE  ServiceInv'
<1> USE DEF ServiceInv
<1>1. /\ phase[r] = "cleaning" /\ sub[r] = "leaving" /\ Holds(r)
      /\ phase'[r] \in {"cancelled", "503"} /\ phase' = [phase EXCEPT ![r] = phase'[r]] /\ Release
      /\ sub' = [sub EXCEPT ![r] = "closed"]
      /\ UNCHANGED <<session, gone, victim, active, last, latest, tasks, consumed>>
      /\ phase \in [Requests -> Phase]
      /\ sub \in [Starts -> SubState]
  BY BusyHolds DEF EndClean, Left, sessions, HandlerTypeOK, Busy
<1>2. \A q \in Requests : q # r => phase[q] \notin {"stopping", "connecting", "cleaning"}
  BY <1>1, BusyHolds DEF Busy
<1>3. r \in Starts /\ active = None
  BY <1>1 DEF HandInv
<1>4. LockOK' /\ lockq' \in Seq(Requests)
  BY <1>1, <1>2, <1>3, LockReleased DEF Ended
<1>5. HandlerTypeOK'
  BY <1>1, <1>2, <1>3, <1>4, Kinds DEF HandlerTypeOK, Phase, SubState
<1>6. HandInv'
  BY <1>1, <1>2, <1>3, Kinds DEF HandInv
<1>7. FreshInv'
  BY <1>1, <1>2, <1>3, Kinds DEF FreshInv
<1>8. ActiveInv'
  BY <1>1, <1>2, <1>3, Kinds DEF ActiveInv
<1>9. LiveInv'
  BY <1>1, <1>2, <1>3, Kinds DEF LiveInv, Hand
<1>10. LastInv'
  BY <1>1, <1>2, <1>3, Kinds DEF LastInv
<1>11. NoOrphanConsumer'
  BY <1>1, <1>2, <1>3, Kinds DEF NoOrphanConsumer
<1>12. EndInv'
  BY <1>1, <1>2, <1>3, Kinds DEF EndInv, Ended
<1>13. QED
  BY <1>5, <1>6, <1>7, <1>8, <1>9, <1>10, <1>11, <1>12

\* One that waits for the lock is cancelled.
LEMMA StepCancelWaiting ==
  ASSUME ServiceInv, NEW r \in Requests, Cancel(r), CancelWaiting(r)
  PROVE  ServiceInv'
<1> USE DEF ServiceInv
<1>1. /\ phase[r] = "queued" /\ r # Cleanup
      /\ phase' = [phase EXCEPT ![r] = "cancelled"]
      /\ \E i \in 1..Len(lockq) : lockq[i] = r /\ lockq' = RemoveAt(lockq, i)
      /\ gone' \subseteq MayCancel
      /\ UNCHANGED <<session, victim, active, last, latest, sub, tasks, consumed>>
      /\ phase \in [Requests -> Phase]
  BY Kinds DEF Cancel, CancelWaiting, sessions, subscribers, HandlerTypeOK
<1>2. LockOK' /\ lockq' \in Seq(Requests)
  BY <1>1, LockLeft
<1>3. HandlerTypeOK'
  BY <1>1, <1>2, Kinds DEF HandlerTypeOK, Phase, SubState
<1>4. HandInv'
  BY <1>1, Kinds DEF HandInv
<1>5. FreshInv'
  BY <1>1, Kinds DEF FreshInv
<1>6. ActiveInv'
  BY <1>1, Kinds DEF ActiveInv
<1>7. LiveInv'
  BY <1>1, Kinds DEF LiveInv, Hand
<1>8. LastInv'
  BY <1>1, Kinds DEF LastInv
<1>9. NoOrphanConsumer'
  BY <1>1, Kinds DEF NoOrphanConsumer
<1>10. EndInv'
  BY <1>1, Kinds DEF EndInv, Ended
<1>11. QED
  BY <1>3, <1>4, <1>5, <1>6, <1>7, <1>8, <1>9, <1>10

\* One that connects is cancelled.
LEMMA StepCancelConnect ==
  ASSUME ServiceInv, NEW r \in Requests, Cancel(r), CancelConnect(r)
  PROVE  ServiceInv'
<1> USE DEF ServiceInv
<1>1. /\ phase[r] = "connecting" /\ r # Cleanup /\ Holds(r)
      /\ phase' = [phase EXCEPT ![r] = "cancelled"] /\ Release
      /\ gone' \subseteq MayCancel
      /\ UNCHANGED <<session, victim, active, last, latest, sub, tasks, consumed>>
      /\ phase \in [Requests -> Phase]
  BY Kinds, BusyHolds DEF Cancel, CancelConnect, sessions, subscribers, HandlerTypeOK, Busy
<1>2. \A q \in Requests : q # r => phase[q] \notin {"stopping", "connecting", "cleaning"}
  BY <1>1, BusyHolds DEF Busy
<1>3. r \in Starts /\ active = None /\ sub[r] = "started"
  BY <1>1 DEF HandInv
<1>4. LockOK' /\ lockq' \in Seq(Requests)
  BY <1>1, <1>2, <1>3, LockReleased DEF Ended
<1>5. HandlerTypeOK'
  BY <1>1, <1>2, <1>3, <1>4, Kinds DEF HandlerTypeOK, Phase, SubState
<1>6. HandInv'
  BY <1>1, <1>2, <1>3, Kinds DEF HandInv
<1>7. FreshInv'
  BY <1>1, <1>2, <1>3, Kinds DEF FreshInv
<1>8. ActiveInv'
  BY <1>1, <1>2, <1>3, Kinds DEF ActiveInv
<1>9. LiveInv'
  BY <1>1, <1>2, <1>3, Kinds DEF LiveInv, Hand
<1>10. LastInv'
  BY <1>1, <1>2, <1>3, Kinds DEF LastInv
<1>11. NoOrphanConsumer'
  BY <1>1, <1>2, <1>3, Kinds DEF NoOrphanConsumer
<1>12. EndInv'
  BY <1>1, <1>2, <1>3, Kinds DEF EndInv, Ended
<1>13. QED
  BY <1>5, <1>6, <1>7, <1>8, <1>9, <1>10, <1>11, <1>12

\* One that closes a session is cancelled.
LEMMA StepCancelClose ==
  ASSUME ServiceInv, NEW r \in Requests, Cancel(r), CancelClose(r)
  PROVE  ServiceInv'
<1> USE DEF ServiceInv
<1>1. /\ phase[r] \in {"stopping", "cleaning"}
      /\ gone' \subseteq MayCancel
      /\ sub' = [sub EXCEPT ![IF phase[r] = "stopping" THEN victim[r] ELSE r] = "leaving"]
      /\ tasks' = [tasks EXCEPT ![IF phase[r] = "stopping" THEN victim[r] ELSE r] = {}]
      /\ UNCHANGED <<session, lockq, phase, victim, active, last, latest, consumed>>
      /\ phase \in [Requests -> Phase]
      /\ sub \in [Starts -> SubState]
      /\ tasks \in [Starts -> SUBSET Tracks]
  BY DEF Cancel, CancelClose, sessions, HandlerTypeOK
<1>2. \A q \in Requests : q # r => phase[q] \notin {"stopping", "connecting", "cleaning"}
  BY <1>1, BusyHolds DEF Busy
<1>3. /\ phase[r] = "stopping" => victim[r] \in Starts /\ sub[victim[r]] \in {"closing", "leaving"} /\ phase[victim[r]] = "202"
      /\ phase[r] = "cleaning" => r \in Starts /\ sub[r] \in {"closing", "leaving"}
      /\ active = None
  BY <1>1 DEF HandInv
<1>4. LockOK' /\ lockq' \in Seq(Requests)
  BY <1>1 DEF HandlerTypeOK, LockOK, InFlight
<1>5. HandlerTypeOK'
  BY <1>1, <1>2, <1>3, <1>4, Kinds DEF HandlerTypeOK, Phase, SubState
<1>6. HandInv'
  BY <1>1, <1>2, <1>3, Kinds DEF HandInv
<1>7. FreshInv'
  BY <1>1, <1>2, <1>3, Kinds DEF FreshInv
<1>8. ActiveInv'
  BY <1>1, <1>2, <1>3, Kinds DEF ActiveInv
<1>9. LiveInv'
  BY <1>1, <1>2, <1>3, Kinds DEF LiveInv, Hand
<1>10. LastInv'
  BY <1>1, <1>2, <1>3, Kinds DEF LastInv
<1>11. NoOrphanConsumer'
  BY <1>1, <1>2, <1>3, Kinds DEF NoOrphanConsumer
<1>12. EndInv'
  BY <1>1, <1>2, <1>3, Kinds DEF EndInv, Ended
<1>13. QED
  BY <1>5, <1>6, <1>7, <1>8, <1>9, <1>10, <1>11, <1>12

\* A consumer begins or ends.
LEMMA StepTracks ==
  ASSUME ServiceInv, NEW s \in Starts, NEW t \in Tracks, TrackSubscribed(s, t) \/ ConsumeDone(s, t)
  PROVE  ServiceInv'
<1> USE DEF ServiceInv
<1>1. /\ tasks' \in [Starts -> SUBSET Tracks] /\ consumed' \in [Starts -> SUBSET Tracks]
      /\ \A k \in Starts : tasks'[k] # {} => tasks[k] # {} \/ sub[k] \in {"started", "running"}
      /\ UNCHANGED <<session, lockq, phase, gone, victim, active, last, latest, sub>>
  BY DEF TrackSubscribed, ConsumeDone, Takes, Open, requests, sessions, HandlerTypeOK
<1>2. LockOK' /\ lockq' \in Seq(Requests)
  BY <1>1 DEF HandlerTypeOK, LockOK, InFlight
<1>3. HandlerTypeOK'
  BY <1>1, <1>2, Kinds DEF HandlerTypeOK, Phase, SubState
<1>4. HandInv'
  BY <1>1, Kinds DEF HandInv
<1>5. FreshInv'
  BY <1>1, Kinds DEF FreshInv
<1>6. ActiveInv'
  BY <1>1, Kinds DEF ActiveInv
<1>7. LiveInv'
  BY <1>1, Kinds DEF LiveInv, Hand
<1>8. LastInv'
  BY <1>1, Kinds DEF LastInv
<1>9. NoOrphanConsumer'
  BY <1>1, Kinds DEF NoOrphanConsumer
<1>10. EndInv'
  BY <1>1, Kinds DEF EndInv, Ended
<1>11. QED
  BY <1>3, <1>4, <1>5, <1>6, <1>7, <1>8, <1>9, <1>10

\* Every action keeps the invariant.
LEMMA InvStep == ServiceInv /\ [ServiceNext]_svars => ServiceInv'
<1> SUFFICES ASSUME ServiceInv, [ServiceNext]_svars PROVE ServiceInv'
  OBVIOUS
<1>1. CASE CleanUp
  BY <1>1, StepCleanUpStops, StepCleanUpIdle
<1>2. ASSUME NEW r \in Requests, Refuse(r) \/ Arrive(r) PROVE ServiceInv'
  BY <1>2, StepRefuse, StepArrive
<1>3. ASSUME NEW r \in Requests, Enter(r) PROVE ServiceInv'
  <2>1. active = None => phase'[r] \in {"idle", "503", "connecting"}
    BY <1>3 DEF Enter, Build, ServiceInv, HandlerTypeOK
  <2>2. QED
    BY <1>3, <2>1, StepBeginStop, StepEnterIdle, StepEnterRefused, StepEnterBuilds
<1>4. ASSUME NEW r \in Requests, EndStop(r) PROVE ServiceInv'
  <2>1. phase'[r] \in {"cancelled", "stopped", "503", "connecting"}
    BY <1>4 DEF EndStop, Build, ServiceInv, HandlerTypeOK
  <2>2. QED
    BY <1>4, <2>1, StepEndStop, StepEndStopRefused, StepEndStopBuilds
<1>5. ASSUME NEW r \in Requests, EndClean(r) \/ Joined(r) \/ ConnectFailed(r) PROVE ServiceInv'
  BY <1>5, StepEndClean, StepJoined, StepConnectFailed
<1>6. ASSUME NEW r \in Requests, Cancel(r) PROVE ServiceInv'
  BY <1>6, StepCancelWaiting, StepCancelConnect, StepCancelClose DEF Cancel
<1>7. ASSUME NEW s \in Starts, CloseSync(s) PROVE ServiceInv'
  BY <1>7, StepCloseSync
<1>8. ASSUME NEW s \in Starts, NEW t \in Tracks, TrackSubscribed(s, t) \/ ConsumeDone(s, t)
      PROVE  ServiceInv'
  BY <1>8, StepTracks
<1>9. ASSUME UNCHANGED svars \/ \E s \in Starts : EndTurnOver(s) \/ StopDrain(s) PROVE ServiceInv'
  <2>1. /\ UNCHANGED <<session, lockq, phase, gone, victim, active, last, latest, sub, tasks, consumed>>
    BY <1>9 DEF svars, requests, sessions, subscribers, EndTurnOver, StopDrain
  <2>2. HandlerTypeOK'
    BY <2>1 DEF ServiceInv, HandlerTypeOK, LockOK, InFlight
  <2>3. QED
    BY <2>1, <2>2 DEF ServiceInv, HandInv, FreshInv, ActiveInv, LiveInv, Hand, LastInv, NoOrphanConsumer, EndInv
<1>10. QED
  BY <1>1, <1>2, <1>3, <1>4, <1>5, <1>6, <1>7, <1>8, <1>9 DEF ServiceNext, Handler

\* So it always holds.
LEMMA InvCorrect == ServiceSpec => []ServiceInv
<1>1. QED
  BY InvInit, InvStep, PTL DEF ServiceSpec

(***************************************************************************)
(* The drain tasks and the threads of end_turn.                            *)
(***************************************************************************)

\* A subscriber whose windower is not there yet, or closed, has no consumer, and
\* nothing else running unless its aclose was cut short.
JobsInv ==
  /\ jobs \in [Starts -> SUBSET {"drain", "end_turn"}]
  /\ cut \subseteq Starts
  /\ \A s \in Starts :
       /\ sub[s] \in {"none", "leaving", "closed"} /\ jobs[s] # {} => s \in cut
       /\ sub[s] = "none" => tasks[s] = {}

\* The subscribers and their jobs, as every step leaves them.
Subscribed ==
  /\ sub \in [Starts -> SubState] /\ tasks \in [Starts -> SUBSET Tracks]
  /\ JobsInv

\* A subscriber is built, behind one that has been closed or not.
LEMMA JobsBuilt ==
  ASSUME Subscribed, NEW r \in Starts, NEW s, Build(r, s), tasks' = tasks, cut' = cut,
         s = sub \/ \E v \in Starts : sub[v] = "leaving" /\ s = Left(v)
  PROVE  JobsInv'
BY DEF Subscribed, JobsInv, Build, Left, SubState

\* Every action keeps it.
LEMMA JobsStep == ServiceInv /\ JobsInv /\ [ServiceNext]_svars => JobsInv'
<1> SUFFICES ASSUME ServiceInv, JobsInv, [ServiceNext]_svars PROVE JobsInv'
  OBVIOUS
<1>0. Subscribed
  BY DEF ServiceInv, HandlerTypeOK, Subscribed
<1>1. ASSUME CleanUp \/ (\E r \in Requests : Refuse(r) \/ Arrive(r)) \/ UNCHANGED svars PROVE JobsInv'
  BY <1>1 DEF JobsInv, CleanUp, Refuse, Arrive, svars, subscribers
<1>2. ASSUME NEW r \in Requests, Enter(r) PROVE JobsInv'
  <2>1. CASE active # None /\ BeginStop(r)
    <3>1. active \in Starts
      BY <2>1 DEF ServiceInv, HandlerTypeOK
    <3>2. QED
      BY <1>0, <1>2, <2>1, <3>1 DEF Subscribed, JobsInv, Enter, BeginStop, Closing, SubState
  <2>2. CASE active = None /\ r \in Starts /\ Build(r, sub)
    BY <1>0, <1>2, <2>2, JobsBuilt DEF Enter
  <2>3. CASE UNCHANGED <<sub, jobs>>
    BY <1>2, <2>3 DEF JobsInv, Enter
  <2>4. QED
    BY <1>2, <2>1, <2>2, <2>3 DEF Enter
<1>3. ASSUME NEW r \in Requests, EndStop(r) PROVE JobsInv'
  <2>1. victim[r] \in Starts /\ sub[victim[r]] = "leaving" /\ tasks' = tasks /\ cut' = cut
    BY <1>3 DEF ServiceInv, HandInv, EndStop
  <2>2. CASE r \in Starts /\ Build(r, Left(victim[r]))
    BY <1>0, <2>1, <2>2, JobsBuilt
  <2>3. CASE sub' = Left(victim[r]) /\ UNCHANGED jobs
    BY <1>0, <2>1, <2>3 DEF Subscribed, JobsInv, Left, SubState
  <2>4. QED
    BY <1>3, <2>2, <2>3 DEF EndStop
<1>4. ASSUME NEW r \in Requests, EndClean(r) PROVE JobsInv'
  BY <1>0, <1>4 DEF ServiceInv, HandInv, Subscribed, JobsInv, EndClean, Left, SubState
<1>5. ASSUME NEW r \in Requests, Joined(r) PROVE JobsInv'
  BY <1>0, <1>5 DEF ServiceInv, HandInv, Subscribed, JobsInv, Joined, SubscribeExisting, SubState
<1>6. ASSUME NEW r \in Requests, ConnectFailed(r) PROVE JobsInv'
  BY <1>0, <1>6 DEF ServiceInv, HandInv, Subscribed, JobsInv, ConnectFailed, Closing, SubState
<1>7. ASSUME NEW r \in Requests, Cancel(r) PROVE JobsInv'
  <2>1. CASE CancelWaiting(r) \/ CancelConnect(r)
    BY <2>1 DEF JobsInv, CancelWaiting, CancelConnect, subscribers
  <2>2. CASE CancelClose(r)
    <3> DEFINE s == IF phase[r] = "stopping" THEN victim[r] ELSE r
    <3>1. /\ sub' = [sub EXCEPT ![s] = "leaving"] /\ tasks' = [tasks EXCEPT ![s] = {}]
          /\ cut' = IF jobs[s] = {} THEN cut ELSE cut \union {s}
          /\ jobs' = jobs /\ s \in Starts
      BY <2>2 DEF CancelClose, ServiceInv, HandInv
    <3> HIDE DEF s
    <3>2. QED
      BY <1>0, <3>1 DEF Subscribed, JobsInv, SubState
  <2>3. QED
    BY <1>7, <2>1, <2>2 DEF Cancel
<1>8. ASSUME NEW s \in Starts, EndTurnOver(s) \/ StopDrain(s) \/ CloseSync(s) PROVE JobsInv'
  BY <1>0, <1>8 DEF Subscribed, JobsInv, EndTurnOver, StopDrain, CloseSync, SubState
<1>9. ASSUME NEW s \in Starts, NEW t \in Tracks, TrackSubscribed(s, t) \/ ConsumeDone(s, t)
      PROVE  JobsInv'
  BY <1>0, <1>9 DEF Subscribed, JobsInv, TrackSubscribed, ConsumeDone, Registered, SubState
<1>10. QED
  BY <1>1, <1>2, <1>3, <1>4, <1>5, <1>6, <1>7, <1>8, <1>9 DEF ServiceNext, Handler

\* So both always hold.
LEMMA JobsCorrect == ServiceSpec => [](ServiceInv /\ JobsInv)
<1>1. ServiceInit => JobsInv
  BY DEF ServiceInit, JobsInv
<1>2. QED
  BY <1>1, InvInit, InvStep, JobsStep, PTL DEF ServiceSpec

(***************************************************************************)
(* The theorems.                                                           *)
(***************************************************************************)

\* The ranges of the service's variables, and the discipline of its lock: its
\* queue is the handlers in flight, once each, and only the first has passed.
THEOREM ServiceTypeCorrect == ServiceSpec => []ServiceTypeOK
<1>1. ServiceInv /\ JobsInv => ServiceTypeOK
  BY DEF ServiceInv, JobsInv, ServiceTypeOK
<1>2. QED
  BY <1>1, JobsCorrect, PTL

\* What the lock holder has in its hands.
LEMMA InHandIs ==
  ASSUME ServiceInv
  PROVE  /\ \A s \in Starts : s \in InHand <=> Hand(s)
         /\ InHand \subseteq Starts
         /\ InHand # {} => active = None
         /\ \A x, y \in InHand : x = y
         /\ \A s \in InHand : /\ sub[s] \notin {"none", "closed"}
                              /\ phase[s] # "cancelled" \/ sub[s] \notin {"started", "running"}
<1> USE DEF ServiceInv
<1>1. CASE lockq = <<>>
  <2>1. \A r \in Requests : phase[r] \notin {"stopping", "connecting", "cleaning"}
    BY <1>1, BusyHolds DEF Busy
  <2>2. QED
    BY <1>1, <2>1 DEF InHand, Hand
<1>2. CASE lockq # <<>>
  <2> DEFINE h == Head(lockq)
  <2>1. Holds(h) /\ h \in Requests
    BY <1>2, HolderInFlight DEF Holds
  <2>2. \A r \in Requests : r # h => phase[r] \notin {"stopping", "connecting", "cleaning"}
    BY <2>1, HolderInFlight DEF Busy
  <2>3. InHand = IF phase[h] = "stopping" THEN {victim[h]}
                 ELSE IF phase[h] \in {"connecting", "cleaning"} THEN {h} ELSE {}
    BY <1>2 DEF InHand
  <2> HIDE DEF h
  <2>4. \A s : Hand(s) <=> \/ phase[h] = "stopping" /\ victim[h] = s
                           \/ phase[h] \in {"connecting", "cleaning"} /\ h = s
    BY <2>1, <2>2 DEF Hand
  <2>5. QED
    BY <2>1, <2>3, <2>4 DEF HandInv
<1>3. QED
  BY <1>1, <1>2

\* At any time at most one subscriber lives, its drain task and end_turn
\* included, and it is the active session or in the hands of the handler that
\* holds the lock; only a cancelled connect, and the jobs of a cancelled aclose,
\* are left behind.
THEOREM OneSubscriberCorrect == ServiceSpec => []OneSubscriber
<1>1. ASSUME ServiceInv, JobsInv PROVE OneSubscriber
  <2> DEFINE live == {s \in Starts :
                        \/ sub[s] \notin {"none", "closed"}
                        \/ jobs[s] # {} /\ s \notin cut} \ Orphans
  <2>1. /\ \A s \in Starts : s \in InHand <=> Hand(s)
        /\ InHand \subseteq Starts
        /\ InHand # {} => active = None
        /\ \A x, y \in InHand : x = y
        /\ \A s \in InHand : /\ sub[s] \notin {"none", "closed"}
                             /\ phase[s] # "cancelled" \/ sub[s] \notin {"started", "running"}
    BY <1>1, InHandIs
  <2>2. active # None => /\ active \in Starts /\ sub[active] = "running"
                         /\ phase[active] # "cancelled"
    BY <1>1 DEF ServiceInv, HandlerTypeOK, ActiveInv
  <2>3. live = InHand \union ({active} \ {None})
    <3>1. ASSUME NEW s \in live PROVE s \in InHand \union ({active} \ {None})
      <4>1. s \in Starts /\ sub[s] \notin {"none", "closed"} /\ ~(phase[s] = "cancelled" /\ sub[s] = "started")
        BY <1>1, <3>1 DEF Orphans, Open, JobsInv
      <4>2. s = active \/ Hand(s)
        BY <1>1, <4>1 DEF ServiceInv, LiveInv
      <4>3. QED
        BY <2>1, <4>1, <4>2, Kinds
    <3>2. ASSUME NEW s \in InHand \union ({active} \ {None}) PROVE s \in live
      BY <2>1, <2>2, <3>2 DEF Orphans, Open
    <3>3. QED
      BY <3>1, <3>2
  <2>4. Cardinality(live) <= 1
    <3>1. live = {} \/ \E x : live = {x}
      BY <2>1, <2>3
    <3>2. Cardinality({}) = 0 /\ \A x : Cardinality({x}) = 1
      BY FS_EmptySet, FS_Singleton
    <3>3. Cardinality(live) \in {0, 1}
      <4> HIDE DEF live
      <4>1. QED
        BY <3>1, <3>2
    <3>4. \A n \in {0, 1} : n <= 1
      OBVIOUS
    <3>5. QED
      BY <3>3, <3>4
  <2>5. QED
    BY <2>1, <2>3, <2>4 DEF OneSubscriber
<1>2. QED
  BY <1>1, JobsCorrect, PTL

\* Realtime events go to a subscriber that is connected and not closing.
THEOREM EventsCorrect == ServiceSpec => []EventsReachOpen
<1>1. ServiceInv => EventsReachOpen
  BY DEF ServiceInv, ActiveInv, EventsReachOpen, EventTarget
<1>2. QED
  BY <1>1, InvCorrect, PTL

\* No consumer outlives the windower it feeds.
THEOREM ConsumersCorrect == ServiceSpec => []NoOrphanConsumer
<1>1. ServiceInv => NoOrphanConsumer
  BY DEF ServiceInv
<1>2. QED
  BY <1>1, InvCorrect, PTL

\* The last session can be read, whatever failed or was cancelled since.
THEOREM ReadableCorrect == ServiceSpec => []LatestReadable
<1>1. ASSUME ServiceInv PROVE LatestReadable
  <2> SUFFICES ASSUME latest # None, latest \notin InHand PROVE Lookup(session[latest]) = latest
    BY DEF LatestReadable
  <2>1. latest \in Starts
    BY <1>1 DEF ServiceInv, HandlerTypeOK
  <2>2. ~Hand(latest)
    BY <1>1, <2>1, InHandIs
  <2>3. active = latest \/ (active = None /\ last = latest)
    BY <1>1, <2>2 DEF ServiceInv, LastInv, Hand
  <2>4. QED
    BY <2>3 DEF Lookup, Matches
<1>2. QED
  BY <1>1, InvCorrect, PTL

\* The cleanup leaves every subscriber closed, with no consumer and no job, but
\* for what a cancelled connect and a cancelled aclose leave behind.
THEOREM ShutdownCorrect == ServiceSpec => []CleanAfterShutdown
<1>1. ASSUME ServiceInv, JobsInv PROVE CleanAfterShutdown
  <2> SUFFICES ASSUME phase[Cleanup] \in Ended, NEW s \in Starts, s \notin Orphans
               PROVE  /\ sub[s] \in {"none", "closed"}
                      /\ tasks[s] = {}
                      /\ jobs[s] # {} => s \in cut
    BY DEF CleanAfterShutdown
  <2>1. active = None /\ \A r \in Requests : phase[r] \in Ended \union {"new"}
    BY <1>1 DEF ServiceInv, EndInv, Ended
  <2>2. ~Hand(s)
    BY <2>1 DEF Hand, Ended
  <2>3. s # active /\ ~(phase[s] = "cancelled" /\ sub[s] = "started")
    BY <2>1, Kinds DEF Orphans, Open
  <2>4. sub[s] \in {"none", "closed"}
    BY <1>1, <2>2, <2>3 DEF ServiceInv, LiveInv
  <2>5. tasks[s] = {}
    BY <1>1, <2>4 DEF ServiceInv, NoOrphanConsumer, JobsInv
  <2>6. jobs[s] # {} => s \in cut
    BY <1>1, <2>4 DEF JobsInv
  <2>7. QED
    BY <2>4, <2>5, <2>6
<1>2. QED
  BY <1>1, JobsCorrect, PTL
=============================================================================
