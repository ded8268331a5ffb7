-------------------------------- MODULE Sinks --------------------------------
(***************************************************************************)
(* The fan-out of giljobe.emit.sink and its sinks: threads that hand a     *)
(* record each to a log file, a memory and the listeners of an SSE stream, *)
(* one after the other.  Locks are held within one sink only, so that the  *)
(* threads, and listeners that come and go, interleave between the sinks   *)
(* and between the callbacks of the stream.                                *)
(***************************************************************************)
EXTENDS Integers, Sequences, SequencesExt

CONSTANTS
  Workers,      \* threads that call on_signal
  Listeners,    \* callbacks, one per connection
  MaxRecords    \* bound on the records of all workers

VARIABLES
  at,           \* where each worker is in its fan-out
  made,         \* how many records each has made; the n-th of w is <<w, n>>
  sent,         \* how many of them SSESink.emit took on (history)
  todo, dead,   \* the snapshot still to be called, and those that failed
  file, memory, \* what the JSONLSink and the MemorySink hold
  open,         \* the file is
  subs,         \* SSESink._subscribers
  life,         \* of each listener: new, live, broken (its callback fails), left
  since, upto,  \* sent when it came, and when it broke or left (history)
  heard         \* the frames it has got

kvars == <<at, made, sent, todo, dead, file, memory, open, subs, life, since, upto, heard>>

Record(w) == <<w, made[w]>>
Goes(w, place) == at' = [at EXCEPT ![w] = place]
logs == <<file, memory, open>>
streams == <<subs, life, since, upto, heard>>

\* on_signal, then _fanout: the sinks in their order.
Signal(w) ==
  /\ at[w] = "idle" /\ FoldFunction(LAMBDA a, b : a + b, 0, made) < MaxRecords
  /\ made' = [made EXCEPT ![w] = @ + 1]
  /\ Goes(w, "file")
  /\ UNCHANGED <<sent, todo, dead, logs, streams>>

\* JSONLSink.emit: line and flush under its lock; a closed file raises, which
\* _fanout keeps from the other sinks.
Write(w) ==
  /\ at[w] = "file"
  /\ file' = IF open THEN Append(file, Record(w)) ELSE file
  /\ Goes(w, "memory")
  /\ UNCHANGED <<made, sent, todo, dead, memory, open, streams>>

CloseFile ==
  /\ open
  /\ open' = FALSE
  /\ UNCHANGED <<at, made, sent, todo, dead, file, memory, streams>>

\* MemorySink.emit.
Store(w) ==
  /\ at[w] = "memory"
  /\ memory' = Append(memory, Record(w))
  /\ Goes(w, "stream")
  /\ UNCHANGED <<made, sent, todo, dead, file, open, streams>>

\* SSESink.emit: the listeners as they are now, called without the lock.
Snapshot(w) ==
  /\ at[w] = "stream"
  /\ todo' = [todo EXCEPT ![w] = subs]
  /\ dead' = [dead EXCEPT ![w] = {}]
  /\ sent' = [sent EXCEPT ![w] = @ + 1]
  /\ Goes(w, "calling")
  /\ UNCHANGED <<made, logs, streams>>

\* Faulty variant: a callback that fails ends the loop.
NextOnly(w, l) == IF life[l] = "broken" THEN {} ELSE todo[w] \ {l}

Rest(w, l) == todo[w] \ {l}

\* One callback: one that fails is noted, the others are still called.
Call(w, l) ==
  /\ at[w] = "calling" /\ l \in todo[w]
  /\ todo' = [todo EXCEPT ![w] = Rest(w, l)]
  /\ \/ /\ life[l] = "broken"
        /\ dead' = [dead EXCEPT ![w] = @ \union {l}]
        /\ UNCHANGED heard
     \/ /\ life[l] # "broken"
        /\ heard' = [heard EXCEPT ![l] = Append(@, Record(w))]
        /\ UNCHANGED dead
  /\ UNCHANGED <<at, made, sent, logs, subs, life, since, upto>>

\* Those that failed are taken out.
Prune(w) ==
  /\ at[w] = "calling" /\ todo[w] = {}
  /\ subs' = subs \ dead[w]
  /\ Goes(w, "idle")
  /\ UNCHANGED <<made, sent, todo, dead, logs, life, since, upto, heard>>

Subscribe(l) ==
  /\ life[l] = "new"
  /\ life' = [life EXCEPT ![l] = "live"]
  /\ subs' = subs \union {l}
  /\ since' = [since EXCEPT ![l] = sent]
  /\ UNCHANGED <<at, made, sent, todo, dead, logs, upto, heard>>

Unsubscribe(l) ==
  /\ life[l] = "live"
  /\ life' = [life EXCEPT ![l] = "left"]
  /\ subs' = subs \ {l}
  /\ upto' = [upto EXCEPT ![l] = sent]
  /\ UNCHANGED <<at, made, sent, todo, dead, logs, since, heard>>

\* The connection of a listener closes: from now on its callback fails.
Break(l) ==
  /\ life[l] = "live"
  /\ life' = [life EXCEPT ![l] = "broken"]
  /\ upto' = [upto EXCEPT ![l] = sent]
  /\ UNCHANGED <<at, made, sent, todo, dead, logs, subs, since, heard>>

SinksInit ==
  /\ at = [w \in Workers |-> "idle"]
  /\ made = [w \in Workers |-> 0] /\ sent = made
  /\ todo = [w \in Workers |-> {}] /\ dead = todo
  /\ file = <<>> /\ memory = <<>> /\ open = TRUE
  /\ subs = {}
  /\ life = [l \in Listeners |-> "new"]
  /\ since = [l \in Listeners |-> sent] /\ upto = since
  /\ heard = [l \in Listeners |-> <<>>]

SinksNext ==
  \/ \E w \in Workers :
       \/ Signal(w) \/ Write(w) \/ Store(w) \/ Snapshot(w) \/ Prune(w)
       \/ \E l \in Listeners : Call(w, l)
  \/ \E l \in Listeners : Subscribe(l) \/ Unsubscribe(l) \/ Break(l)
  \/ CloseFile

SinksSpec == SinksInit /\ [][SinksNext]_kvars

-----------------------------------------------------------------------------
\* Of the records of w, those from m to n are there, each once, in their order.
Kept(w, records, m, n) ==
  LET of == {i \in 1..Len(records) : records[i][1] = w} IN
  /\ {records[i][2] : i \in of} = (m + 1)..n
  /\ \A i, j \in of : i < j => records[i][2] < records[j][2]

\* How many records of w have passed the places before these.
Passed(w, places) == IF at[w] \in places THEN made[w] - 1 ELSE made[w]
Calls(w, l) == at[w] = "calling" /\ l \in todo[w]
Heard(w, l, end) == Kept(w, heard[l], since[l][w], IF Calls(w, l) THEN end - 1 ELSE end)

\* Every worker's records are, each once and in their order, in the memory, in
\* the file until that is closed, and at every listener from when it comes to
\* when it goes, whoever else breaks, comes or goes meanwhile; and a listener
\* that broke has missed at most the last of them, and is taken out by the next
\* record (_fanout, SSESink.emit).
StreamsKept ==
  \A w \in Workers :
    /\ Kept(w, memory, 0, Passed(w, {"file", "memory"}))
    /\ open => Kept(w, file, 0, Passed(w, {"file"}))
    /\ \E n \in 0..made[w] : Kept(w, file, 0, n)
    /\ \A l \in Listeners :
         /\ life[l] = "new" => heard[l] = <<>>
         /\ life[l] = "live" => l \in subs /\ Heard(w, l, sent[w])
         /\ life[l] = "left" => l \notin subs /\ Heard(w, l, upto[l][w])
         /\ life[l] = "broken" =>
              /\ \E n \in {upto[l][w] - 1, upto[l][w]} : Kept(w, heard[l], since[l][w], n)
              /\ sent[w] > upto[l][w] /\ at[w] # "calling" => l \notin subs
=============================================================================
