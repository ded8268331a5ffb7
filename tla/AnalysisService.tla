--------------------------- MODULE AnalysisService ---------------------------
(***************************************************************************)
(* giljobe.server: the HTTP handlers, AnalysisService and the life of the  *)
(* LiveKitSubscriber each start builds.  One event loop runs everything;   *)
(* a step below is what it does between two awaits, so handlers interleave *)
(* only there.  start and stop take the lifecycle lock, an asyncio.Lock:   *)
(* its waiters are served in order, and lockq holds the holder and them.   *)
(*                                                                         *)
(* A start request stands for the subscriber and the _Session it builds.   *)
(* A handler may be cancelled at any await, by the server's shutdown or by *)
(* a caller that gives up.                                                 *)
(***************************************************************************)
EXTENDS Integers, Sequences, FiniteSets, SequencesExt

CONSTANTS
  Starts, Stops,   \* the requests; Cleanup is the on_cleanup handler's stop
  Cleanup,
  Sessions,        \* sessionIds
  Tracks,          \* sids of the tracks that are published
  MayCancel,       \* the requests whose handlers may be cancelled
  None

Requests == Starts \union Stops \union {Cleanup}

ASSUME ServiceAssumption ==
  /\ None \notin Requests \union Sessions
  /\ Starts \cap (Stops \union {Cleanup}) = {}
  /\ Cleanup \notin Stops
  /\ MayCancel \subseteq Starts \union Stops

VARIABLES
  session,   \* the sessionId a start asks for
  lockq,     \* _lifecycle_lock: its holder, then its waiters
  phase,     \* where the handler of each request stands
  gone,      \* requests that were cancelled
  victim,    \* the session whose aclose a request awaits
  active,    \* _active
  last,      \* _last
  latest,    \* the start that was answered last (history)
  sub,       \* where each subscriber stands
  tasks,     \* its _consume_tasks, by track
  consumed,  \* its _consumed_sids
  jobs,      \* what else it has running: the drain task, the thread of end_turn
  cut        \* subscribers whose aclose was cancelled before it had cancelled
             \* the drain task (history)

requests == <<session, lockq, phase, gone, victim>>
sessions == <<active, last, latest>>
subscribers == <<sub, tasks, consumed, jobs, cut>>
svars == <<requests, sessions, subscribers>>

Phase ==
  {"new", "queued",
   "stopping",     \* awaits the aclose of the active session
   "connecting",   \* awaits room.connect
   "cleaning",     \* awaits the aclose after a failed connect
   "202", "400", "503", "stopped", "idle", "cancelled"}

Ended == {"202", "400", "503", "stopped", "idle", "cancelled"}

SubState ==
  {"none",
   "started",    \* handlers, drain and poll tasks, no room yet
   "running",    \* connected
   "closing",    \* aclose awaits end_turn and the flush
   "leaving",    \* the windower is closed; room.disconnect is awaited
   "closed"}

\* lockq is the handlers in flight, once each, and all but its head wait.
InFlight == {r \in Requests : phase[r] \notin Ended \union {"new"}}

LockOK ==
  /\ IsInjective(lockq)
  /\ ToSet(lockq) = InFlight
  /\ \A r \in InFlight : phase[r] # "queued" => r = Head(lockq)

HandlerTypeOK ==
  /\ session \in [Starts -> Sessions]
  /\ lockq \in Seq(Requests)
  /\ phase \in [Requests -> Phase]
  /\ gone \subseteq MayCancel
  /\ victim \in [Requests -> Starts \union {None}]
  /\ {active, last, latest} \subseteq Starts \union {None}
  /\ sub \in [Starts -> SubState]
  /\ tasks \in [Starts -> SUBSET Tracks]
  /\ consumed \in [Starts -> SUBSET Tracks]
  /\ LockOK

\* The variables' ranges and the lock's discipline.
ServiceTypeOK ==
  /\ HandlerTypeOK
  /\ jobs \in [Starts -> SUBSET {"drain", "end_turn"}]
  /\ cut \subseteq Starts

\* Faulty variant: no lock.
QueuedAtAll(r) == r \in ToSet(lockq)

Holds(r) == lockq # <<>> /\ Head(lockq) = r
Release == lockq' = Tail(lockq)

\* _started
Open(s) == sub[s] \in {"started", "running"}

-----------------------------------------------------------------------------
\* aclose up to its first await: _started is cleared, the poll task cancelled
\* and end_turn handed to a thread.
Closing(s) ==
  /\ sub' = [sub EXCEPT ![s] = "closing"]
  /\ jobs' = [jobs EXCEPT ![s] = @ \union {"end_turn"}]

\* A body that is no JSON, or has no sessionId.
Refuse(r) ==
  /\ r \in Starts
  /\ phase[Cleanup] = "new"
  /\ phase[r] = "new"
  /\ phase' = [phase EXCEPT ![r] = "400"]
  /\ UNCHANGED <<session, lockq, gone, victim, sessions, subscribers>>

\* A handler is called, and waits for the lock.
Arrive(r) ==
  /\ r # Cleanup
  /\ phase[Cleanup] = "new"
  /\ phase[r] = "new"
  /\ phase' = [phase EXCEPT ![r] = "queued"]
  /\ lockq' = Append(lockq, r)
  /\ UNCHANGED <<session, gone, victim, sessions, subscribers>>

\* Faulty variant: on_cleanup stops nothing.
CleanUpForgets ==
  /\ phase[Cleanup] = "new"
  /\ \A r \in Requests : phase[r] \in Ended \union {"new"}
  /\ phase' = [phase EXCEPT ![Cleanup] = "idle"]
  /\ UNCHANGED <<session, lockq, gone, victim, sessions, subscribers>>

\* on_cleanup, when no handler runs any more: a stop if a session is active.
CleanUp ==
  /\ phase[Cleanup] = "new"
  /\ \A r \in Requests : phase[r] \in Ended \union {"new"}
  /\ IF active # None
     THEN phase' = [phase EXCEPT ![Cleanup] = "queued"] /\ lockq' = Append(lockq, Cleanup)
     ELSE phase' = [phase EXCEPT ![Cleanup] = "idle"] /\ UNCHANGED lockq
  /\ UNCHANGED <<session, gone, victim, sessions, subscribers>>

\* _start_locked once no session is active, s being the subscribers by then.
\* Without a token it raises; otherwise the subscriber is built and started,
\* none of which suspends, and connect is awaited.
Build(r, s) ==
  \/ phase' = [phase EXCEPT ![r] = "503"] /\ Release /\ sub' = s /\ UNCHANGED jobs
  \/ /\ phase' = [phase EXCEPT ![r] = "connecting"]
     /\ sub' = [s EXCEPT ![r] = "started"]
     /\ jobs' = [jobs EXCEPT ![r] = {"drain"}]
     /\ UNCHANGED lockq

\* Faulty variant: the session stays active while it is closed.
BeginStopActive(r) ==
  /\ victim' = [victim EXCEPT ![r] = active]
  /\ Closing(active)
  /\ phase' = [phase EXCEPT ![r] = "stopping"]
  /\ UNCHANGED <<lockq, active, last>>

\* _stop_locked up to its await.
BeginStop(r) ==
  /\ victim' = [victim EXCEPT ![r] = active]
  /\ Closing(active)
  /\ active' = None
  /\ phase' = [phase EXCEPT ![r] = "stopping"]
  /\ UNCHANGED <<lockq, last>>

\* The lock is free for r.
Enter(r) ==
  /\ Holds(r)
  /\ phase[r] = "queued"
  /\ \/ active # None /\ BeginStop(r)
     \/ active = None /\ r \in Starts /\ Build(r, sub) /\ UNCHANGED <<active, last, victim>>
     \/ /\ active = None /\ r \notin Starts
        /\ phase' = [phase EXCEPT ![r] = "idle"]
        /\ Release
        /\ UNCHANGED <<sub, jobs, active, last, victim>>
  /\ UNCHANGED <<session, gone, latest, tasks, consumed, cut>>

\* The thread of end_turn is done, whether aclose still awaits it or not.
EndTurnOver(s) ==
  /\ "end_turn" \in jobs[s]
  /\ jobs' = [jobs EXCEPT ![s] = @ \ {"end_turn"}]
  /\ UNCHANGED <<requests, sessions, sub, tasks, consumed, cut>>

\* aclose goes on after it: the drain task is cancelled, the flush awaited.
StopDrain(s) ==
  /\ sub[s] = "closing"
  /\ jobs[s] = {"drain"}
  /\ jobs' = [jobs EXCEPT ![s] = {}]
  /\ UNCHANGED <<requests, sessions, sub, tasks, consumed, cut>>

\* Faulty variant: the drain task is not cancelled.
CloseSyncDrains(s) ==
  /\ sub[s] = "closing"
  /\ "end_turn" \notin jobs[s]
  /\ sub' = [sub EXCEPT ![s] = "leaving"]
  /\ tasks' = [tasks EXCEPT ![s] = {}]
  /\ UNCHANGED <<requests, sessions, consumed, jobs, cut>>

\* The flush is over, or raised: close(), and the consumers are cancelled.
CloseSync(s) ==
  /\ sub[s] = "closing"
  /\ jobs[s] = {}
  /\ sub' = [sub EXCEPT ![s] = "leaving"]
  /\ tasks' = [tasks EXCEPT ![s] = {}]
  /\ UNCHANGED <<requests, sessions, consumed, jobs, cut>>

Left(s) == [sub EXCEPT ![s] = "closed"]

\* Faulty variant: _last is kept only if aclose was not cancelled.
KeepsUncancelled(r) == r \notin gone

\* The finally of _stop_locked.
Keeps(r) == TRUE

\* room.disconnect is over and aclose returns to _stop_locked, which keeps the
\* session.  A start goes on unless it was cancelled.
EndStop(r) ==
  /\ phase[r] = "stopping"
  /\ sub[victim[r]] = "leaving"
  /\ last' = IF Keeps(r) THEN victim[r] ELSE last
  /\ victim' = [victim EXCEPT ![r] = None]
  /\ IF r \in Starts \ gone
     THEN Build(r, Left(victim[r]))
     ELSE /\ phase' = [phase EXCEPT ![r] = IF r \in gone THEN "cancelled" ELSE "stopped"]
          /\ sub' = Left(victim[r])
          /\ Release
          /\ UNCHANGED jobs
  /\ UNCHANGED <<session, gone, active, latest, tasks, consumed, cut>>

\* The tracks that are already subscribed get their consumers; the others are
\* asked for, and come by track_subscribed.
SubscribeExisting(s, seen) ==
  /\ tasks' = [tasks EXCEPT ![s] = @ \union (seen \ consumed[s])]
  /\ consumed' = [consumed EXCEPT ![s] = @ \union seen]

\* room.connect returns.
Joined(r) ==
  /\ phase[r] = "connecting"
  /\ \E seen \in SUBSET Tracks : SubscribeExisting(r, seen)
  /\ sub' = [sub EXCEPT ![r] = "running"]
  /\ active' = r
  /\ latest' = r
  /\ phase' = [phase EXCEPT ![r] = "202"]
  /\ Release
  /\ UNCHANGED <<session, gone, victim, last, jobs, cut>>

\* Faulty variant: the subscriber of a failed connect is left alone.
ConnectFailedLeaves(r) ==
  /\ phase[r] = "connecting"
  /\ phase' = [phase EXCEPT ![r] = "503"]
  /\ Release
  /\ UNCHANGED <<session, gone, victim, sessions, subscribers>>

\* connect raises.
ConnectFailed(r) ==
  /\ phase[r] = "connecting"
  /\ phase' = [phase EXCEPT ![r] = "cleaning"]
  /\ Closing(r)
  /\ UNCHANGED <<session, lockq, gone, victim, sessions, tasks, consumed, cut>>

EndClean(r) ==
  /\ phase[r] = "cleaning"
  /\ sub[r] = "leaving"
  /\ phase' = [phase EXCEPT ![r] = IF r \in gone THEN "cancelled" ELSE "503"]
  /\ sub' = Left(r)
  /\ Release
  /\ UNCHANGED <<session, gone, victim, sessions, tasks, consumed, jobs, cut>>

-----------------------------------------------------------------------------
\* The handler's task is cancelled at the await where it stands.  aclose still
\* closes the windower and leaves the room, but the drain task is only cancelled
\* behind the await of end_turn, whose thread goes on; a cancelled connect is
\* caught by nobody, as CancelledError is no Exception.
CancelWaiting(r) ==
  /\ phase[r] = "queued"
  /\ phase' = [phase EXCEPT ![r] = "cancelled"]
  /\ \E i \in 1..Len(lockq) : lockq[i] = r /\ lockq' = RemoveAt(lockq, i)
  /\ UNCHANGED <<victim, subscribers>>

\* Faulty variant: the cancelled handler does not give the lock back.
CancelConnectKeeps(r) ==
  /\ phase[r] = "connecting"
  /\ phase' = [phase EXCEPT ![r] = "cancelled"]
  /\ UNCHANGED <<lockq, victim, subscribers>>

CancelConnect(r) ==
  /\ phase[r] = "connecting"
  /\ phase' = [phase EXCEPT ![r] = "cancelled"]
  /\ Release
  /\ UNCHANGED <<victim, subscribers>>

CancelClose(r) ==
  /\ phase[r] \in {"stopping", "cleaning"}
  /\ LET s == IF phase[r] = "stopping" THEN victim[r] ELSE r IN
       /\ sub' = [sub EXCEPT ![s] = "leaving"]
       /\ tasks' = [tasks EXCEPT ![s] = {}]
       /\ cut' = IF jobs[s] = {} THEN cut ELSE cut \union {s}
  /\ UNCHANGED <<phase, lockq, victim, consumed, jobs>>

Cancel(r) ==
  /\ r \in MayCancel \ gone
  /\ gone' = gone \union {r}
  /\ CancelWaiting(r) \/ CancelConnect(r) \/ CancelClose(r)
  /\ UNCHANGED <<session, sessions>>

-----------------------------------------------------------------------------
\* Faulty variant: _on_track does not look at _started.
AlwaysOpen(s) == sub[s] # "none"

Takes(s) == Open(s)

\* start registers the room's handlers, and nothing takes them away.
Registered(s) == sub[s] # "none"

\* The room calls the handler of track_subscribed: a consumer for a track that
\* is not known, unless aclose has begun.
TrackSubscribed(s, t) ==
  /\ Registered(s)
  /\ Takes(s) /\ t \notin consumed[s]
  /\ consumed' = [consumed EXCEPT ![s] = @ \union {t}]
  /\ tasks' = [tasks EXCEPT ![s] = @ \union {t}]
  /\ UNCHANGED <<requests, sessions, sub, jobs, cut>>

\* A consumer ends, with the stream or with an exception; _on_consume_done.
ConsumeDone(s, t) ==
  /\ t \in tasks[s]
  /\ tasks' = [tasks EXCEPT ![s] = @ \ {t}]
  /\ UNCHANGED <<requests, sessions, sub, consumed, jobs, cut>>

-----------------------------------------------------------------------------
\* signals: the session whose records are answered, None for no records.
Matches(s, q) == s # None /\ (q = None \/ session[s] = q)
Lookup(q) ==
  IF Matches(active, q) THEN active ELSE IF Matches(last, q) THEN last ELSE None

\* ingest_realtime_event: the subscriber that takes the event.
EventTarget == active

-----------------------------------------------------------------------------
ServiceInit ==
  /\ session \in [Starts -> Sessions]
  /\ lockq = <<>>
  /\ phase = [r \in Requests |-> "new"]
  /\ gone = {}
  /\ victim = [r \in Requests |-> None]
  /\ active = None /\ last = None /\ latest = None
  /\ sub = [s \in Starts |-> "none"]
  /\ tasks = [s \in Starts |-> {}]
  /\ consumed = [s \in Starts |-> {}]
  /\ jobs = [s \in Starts |-> {}]
  /\ cut = {}

Handler(r) == Enter(r) \/ EndStop(r) \/ EndClean(r) \/ (Joined(r) \/ ConnectFailed(r))

ServiceNext ==
  \/ CleanUp
  \/ \E r \in Requests : Refuse(r) \/ Arrive(r) \/ Handler(r) \/ Cancel(r)
  \/ \E s \in Starts : EndTurnOver(s) \/ StopDrain(s) \/ CloseSync(s)
  \/ \E s \in Starts, t \in Tracks : TrackSubscribed(s, t) \/ ConsumeDone(s, t)

ServiceSpec == ServiceInit /\ [][ServiceNext]_svars

\* The loop runs, connect returns or raises, end_turn returns (EndTurnReturns
\* of TurnWindower) and the room lets go.
ServiceLive ==
  /\ ServiceSpec
  /\ \A r \in Requests : WF_svars(Handler(r))
  /\ \A s \in Starts :
       WF_svars(EndTurnOver(s)) /\ WF_svars(StopDrain(s)) /\ WF_svars(CloseSync(s))

-----------------------------------------------------------------------------
\* Subscribers whose start was cancelled in connect.
Orphans == {s \in Starts : phase[s] = "cancelled" /\ Open(s)}

\* Whose aclose, or whose connect, the lock holder awaits.
InHand ==
  IF lockq = <<>> THEN {}
  ELSE LET h == Head(lockq) IN
       IF phase[h] = "stopping" THEN {victim[h]}
       ELSE IF phase[h] \in {"connecting", "cleaning"} THEN {h} ELSE {}

\* A subscriber that is not closed, or that has its drain task or end_turn
\* running, is the active session or in the hands of the lock holder, never
\* both, and it is the only one: no interleaving of starts, stops, failures and
\* cancellations leaves another.  There are two exceptions: the orphans of a
\* cancelled connect, and the jobs that a cancelled aclose leaves behind.
OneSubscriber ==
  LET live == {s \in Starts :
                 \/ sub[s] \notin {"none", "closed"}
                 \/ jobs[s] # {} /\ s \notin cut} \ Orphans
  IN
  /\ Cardinality(live) <= 1
  /\ live = InHand \union ({active} \ {None})
  /\ active # None => InHand = {}

\* A realtime event is only handed to a subscriber that is connected and whose
\* windower is open, never to one that still connects or is being closed.
EventsReachOpen == EventTarget # None => sub[EventTarget] = "running"

\* No track is consumed for a windower that has been closed, whenever the
\* room's late events come.
NoOrphanConsumer == \A s \in Starts : tasks[s] # {} => sub[s] \notin {"leaving", "closed"}

\* The turn that was started last can be read under its sessionId, running or
\* over, whatever became of its stop and of the starts after it, except while
\* its aclose is awaited.
LatestReadable ==
  latest # None /\ latest \notin InHand => Lookup(session[latest]) = latest

\* After the server's cleanup every subscriber that was built is closed, no track
\* is consumed and no job runs.  What is left is left by a cancellation: all of
\* the subscriber whose connect was cancelled, and of one whose aclose was
\* cancelled before the end of end_turn the drain task, which nobody cancels any
\* more, and that thread.
CleanAfterShutdown ==
  phase[Cleanup] \in Ended =>
    \A s \in Starts \ Orphans :
      /\ sub[s] \in {"none", "closed"}
      /\ tasks[s] = {}
      /\ jobs[s] # {} => s \in cut

\* Every start and stop is answered: the lock is given back on each way out.
RequestsEnd == \A r \in Requests : phase[r] = "queued" ~> phase[r] \in Ended
=============================================================================
