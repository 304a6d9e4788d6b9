----------------------------- MODULE PostgresStore -----------------------------
(***************************************************************************)
(* postgres_store.PostgresStore: threads that record events, a bounded     *)
(* queue, the postgres-writer thread that commits them one unit at a time, *)
(* and close().                                                            *)
(*                                                                         *)
(* _enqueue makes up to four calls on shared objects (the stop event and   *)
(* the queue); each is a step, and so is each call of the writer on the    *)
(* queue, the server or the stop event.  Units are numbered as they enter  *)
(* the queue.                                                              *)
(***************************************************************************)
EXTENDS Naturals, FiniteSets, Sequences

CONSTANTS Producers,
          QueueSize,        \* queue_size
          ConnectAttempts,  \* attempts of one _connect(); 5 in the code
          Flaky,            \* whether a statement can raise on a healthy connection
          MaxUnits,         \* bound: units offered
          MaxOutages,       \* bound: times the server goes away
          MaxPrunes         \* bound: retention runs

ASSUME StoreAssumption ==
  /\ QueueSize \in Nat \ {0} /\ ConnectAttempts \in Nat \ {0}
  /\ Flaky \in BOOLEAN
  /\ MaxUnits \in Nat /\ MaxOutages \in Nat /\ MaxPrunes \in Nat

Units == 1..MaxUnits
Shutdown == 0          \* the marker in the queue; for the writer, no work
Prune == MaxUnits + 1  \* retention, which the writer also executes

VARIABLES offered,     \* units the threads have called _enqueue with, before close()
          pc,          \* pc[t]: where thread t is in _enqueue
          enqueued,    \* metrics.enqueued, which also numbers the units
          queue,
          stopping,    \* the stop event
          closer,      \* where close() is
          writer,      \* where the postgres-writer thread is
          work,        \* what it executes
          attempt,     \* attempt of _execute
          connects,    \* attempts of this _connect
          draining,    \* it has met the shutdown marker
          conn,        \* _connection: "none" also if closed, "stale" if its peer is gone
          connected,   \* the _connected event
          settled,     \* the sum of StoreMetrics' written, failed and dropped
          db,          \* the units committed, in commit order
          dbUp,        \* external: whether the server accepts connections
          outages, prunes

producers == <<offered, pc, enqueued>>
execution == <<writer, work, attempt, connects, draining>>
session == <<conn, connected>>
server == <<db, dbUp, outages>>
vars == <<producers, queue, stopping, closer, execution, session, settled, server, prunes>>

TypeOK ==
  /\ offered \in 0..MaxUnits /\ enqueued \in 0..MaxUnits
  /\ pc \in [Producers -> {"idle", "put", "evict", "reput"}]
  /\ queue \in Seq(Units \cup {Shutdown}) /\ Len(queue) <= QueueSize
  /\ stopping \in BOOLEAN /\ closer \in {"none", "stopping", "joining", "returned"}
  /\ writer \in {"getting", "connecting", "backoff", "executing", "stopped"}
  /\ work \in Units \cup {Prune, Shutdown} /\ attempt \in {1, 2}
  /\ connects \in 0..ConnectAttempts /\ draining \in BOOLEAN
  /\ conn \in {"none", "open", "stale"} /\ connected \in BOOLEAN
  /\ settled \in Nat
  /\ db \in Seq(Units) /\ dbUp \in BOOLEAN
  /\ outages \in 0..MaxOutages /\ prunes \in 0..MaxPrunes

Init ==
  /\ offered = 0 /\ enqueued = 0
  /\ pc = [t \in Producers |-> "idle"]
  /\ queue = <<>> /\ stopping = FALSE /\ closer = "none"
  /\ writer = "getting" /\ work = Shutdown /\ attempt = 1 /\ connects = 0 /\ draining = FALSE
  /\ conn = "none" /\ connected = FALSE
  /\ settled = 0
  /\ db = <<>> /\ dbUp = TRUE /\ outages = 0 /\ prunes = 0

\* One of the three counters moves.
Count == settled' = settled + 1

HasRoom == Len(queue) < QueueSize

(***************************************************************************)
(* _enqueue                                                                *)
(***************************************************************************)
Goto(t, place) == pc' = [pc EXCEPT ![t] = place]
OutsideEnqueue == UNCHANGED <<stopping, closer, execution, session, server, prunes>>

PutUnit == queue' = Append(queue, enqueued + 1) /\ enqueued' = enqueued + 1

\* An alarm, a breach or a transition is made into a unit and offered.  A call that finds
\* the stop event set returns at once and is not modelled.
Enter(t) ==
  /\ pc[t] = "idle" /\ ~stopping /\ offered < MaxUnits
  /\ offered' = offered + 1
  /\ Goto(t, "put")
  /\ UNCHANGED <<enqueued, queue, settled>> /\ OutsideEnqueue

Put(t) ==
  /\ pc[t] = "put"
  /\ IF HasRoom
     THEN PutUnit /\ Goto(t, "idle")
     ELSE Goto(t, "evict") /\ UNCHANGED <<enqueued, queue>>
  /\ UNCHANGED <<offered, settled>> /\ OutsideEnqueue

\* Defect: the evicted unit is not counted.
MutEvictUncounted(t) ==
  /\ pc[t] = "evict"
  /\ IF queue = <<>> THEN Goto(t, "idle") /\ Count /\ UNCHANGED queue
     ELSE Goto(t, "reput") /\ queue' = Tail(queue) /\ UNCHANGED settled
  /\ UNCHANGED <<offered, enqueued>> /\ OutsideEnqueue

\* get_nowait() removes the oldest element, whatever it is.
Evict(t) ==
  /\ pc[t] = "evict"
  /\ Count
  /\ IF queue = <<>> THEN Goto(t, "idle") /\ UNCHANGED queue
     ELSE Goto(t, "reput") /\ queue' = Tail(queue)
  /\ UNCHANGED <<offered, enqueued>> /\ OutsideEnqueue

Reput(t) ==
  /\ pc[t] = "reput" /\ Goto(t, "idle")
  /\ IF HasRoom
     THEN PutUnit /\ UNCHANGED settled
     ELSE Count /\ UNCHANGED <<enqueued, queue>>
  /\ UNCHANGED offered /\ OutsideEnqueue

(***************************************************************************)
(* The writer thread: _run, _drain, _connect, _execute, _prune             *)
(***************************************************************************)
OutsideWriter == UNCHANGED <<producers, stopping, closer>>

\* An open connection is used as it is, also if its peer has gone; a closed or
\* missing one is replaced.
Begin(w, n) ==
  /\ work' = w /\ attempt' = n /\ connects' = 0
  /\ writer' = IF conn = "none" THEN "connecting" ELSE "executing"

\* Defect: the newest unit first.
MutGetNewest ==
  /\ writer = "getting" /\ queue # <<>>
  /\ queue' = SubSeq(queue, 1, Len(queue) - 1)
  /\ IF queue[Len(queue)] = Shutdown
     THEN draining' = TRUE /\ UNCHANGED <<writer, work, attempt, connects>>
     ELSE Begin(queue[Len(queue)], 1) /\ UNCHANGED draining
  /\ UNCHANGED <<session, settled, server, prunes>> /\ OutsideWriter

\* Defect: the marker is taken for an empty unit.
MutGetSkipsMarker ==
  /\ writer = "getting" /\ queue # <<>>
  /\ queue' = Tail(queue)
  /\ IF Head(queue) = Shutdown
     THEN UNCHANGED <<writer, work, attempt, connects, draining>>
     ELSE Begin(Head(queue), 1) /\ UNCHANGED draining
  /\ UNCHANGED <<session, settled, server, prunes>> /\ OutsideWriter

Get ==
  /\ writer = "getting" /\ queue # <<>>
  /\ queue' = Tail(queue)
  /\ IF Head(queue) = Shutdown
     THEN draining' = TRUE /\ UNCHANGED <<writer, work, attempt, connects>>
     ELSE Begin(Head(queue), 1) /\ UNCHANGED draining
  /\ UNCHANGED <<session, settled, server, prunes>> /\ OutsideWriter

DrainEnds ==
  /\ writer = "getting" /\ draining /\ queue = <<>>
  /\ writer' = "stopped"
  /\ UNCHANGED <<queue, work, attempt, connects, draining, session, settled, server, prunes>>
  /\ OutsideWriter

GetTimesOut == writer = "getting" /\ ~draining /\ queue = <<>> /\ UNCHANGED vars

\* After a unit or a second of waiting, when the interval has passed.
StartPrune ==
  /\ writer = "getting" /\ ~draining /\ prunes < MaxPrunes
  /\ prunes' = prunes + 1 /\ Begin(Prune, 2)
  /\ UNCHANGED <<queue, draining, session, settled, server>> /\ OutsideWriter

Finish == writer' = "getting" /\ work' = Shutdown /\ attempt' = 1 /\ connects' = 0

ConnectOk ==
  /\ writer = "connecting" /\ dbUp
  /\ conn' = "open" /\ connected' = TRUE /\ writer' = "executing"
  /\ UNCHANGED <<queue, work, attempt, connects, draining, settled, server, prunes>>
  /\ OutsideWriter

ConnectFails ==
  /\ writer = "connecting" /\ ~dbUp
  /\ connected' = FALSE /\ connects' = connects + 1
  /\ writer' = "backoff"
  /\ UNCHANGED <<queue, work, attempt, draining, conn, settled, server, prunes>> /\ OutsideWriter

\* The except clauses of _execute: one more attempt on a new connection, then the
\* unit has failed.  _prune has one attempt, and no counter.
Raised(discard) ==
  /\ conn' = IF discard \/ attempt = 1 \/ work = Prune THEN "none" ELSE conn
  /\ connected' = IF attempt = 1 \/ work = Prune THEN FALSE ELSE connected
  /\ IF attempt = 1
     THEN /\ attempt' = 2 /\ writer' = "connecting" /\ connects' = 0
          /\ UNCHANGED <<work, settled>>
     ELSE /\ Finish
          /\ IF work = Prune THEN UNCHANGED settled ELSE Count

\* Defect: the RuntimeError after the last attempt ends the thread.
MutBackoffKillsWriter ==
  /\ writer = "backoff"
  /\ IF stopping THEN Finish
     ELSE /\ writer' = IF connects < ConnectAttempts THEN "connecting" ELSE "stopped"
          /\ UNCHANGED <<work, attempt, connects>>
  /\ UNCHANGED <<queue, draining, settled, session, server, prunes>> /\ OutsideWriter

\* The wait ends by itself or by the stop event.  ConnectionError: the unit is
\* given up without a trace; RuntimeError after the last attempt is one of
\* _execute's failures.
BackoffEnds ==
  /\ writer = "backoff"
  /\ IF stopping THEN Finish /\ UNCHANGED <<settled, session>>
     ELSE IF connects < ConnectAttempts
          THEN writer' = "connecting" /\ UNCHANGED <<work, attempt, connects, settled, session>>
          ELSE Raised(TRUE)
  /\ UNCHANGED <<queue, draining, server, prunes>> /\ OutsideWriter

Commit == db' = IF work = Prune THEN db ELSE Append(db, work)

Execute ==
  /\ writer = "executing" /\ conn = "open"
  /\ Commit /\ Finish
  /\ IF work = Prune THEN UNCHANGED settled ELSE Count
  /\ UNCHANGED <<queue, draining, session, dbUp, outages, prunes>> /\ OutsideWriter

\* An error on a healthy connection, or on one that is gone.  It may be the reply to
\* a commit that is lost.
ExecuteRaises ==
  /\ writer = "executing"
  /\ \/ conn = "stale" /\ UNCHANGED db
     \/ conn = "open" /\ Flaky /\ (Commit \/ UNCHANGED db)
  /\ Raised(conn = "stale")
  /\ UNCHANGED <<queue, draining, dbUp, outages, prunes>> /\ OutsideWriter

(***************************************************************************)
(* close                                                                   *)
(***************************************************************************)
CloseStops ==
  /\ closer = "none" /\ closer' = "stopping" /\ stopping' = TRUE
  /\ UNCHANGED <<producers, queue, execution, session, settled, server, prunes>>

\* put_nowait() of the marker, for which there may be no room.
CloseMarks ==
  /\ closer = "stopping" /\ closer' = "joining"
  /\ queue' = IF HasRoom THEN Append(queue, Shutdown) ELSE queue
  /\ UNCHANGED <<producers, stopping, execution, session, settled, server, prunes>>

\* join() returns because the thread has ended, or after its timeout; either way
\* the connection is closed.
JoinReturns ==
  /\ closer = "joining" /\ closer' = "returned"
  /\ conn' = IF conn # "none" /\ writer = "executing" THEN "stale" ELSE "none"
  /\ UNCHANGED <<producers, queue, stopping, execution, connected, settled, server, prunes>>

(***************************************************************************)
(* The server                                                              *)
(***************************************************************************)
ServerGoes ==
  /\ dbUp /\ outages < MaxOutages
  /\ dbUp' = FALSE /\ outages' = outages + 1
  /\ conn' = IF conn = "open" THEN "stale" ELSE conn
  /\ UNCHANGED <<producers, queue, stopping, closer, execution, connected, settled, db, prunes>>

ServerComes ==
  /\ ~dbUp /\ dbUp' = TRUE
  /\ UNCHANGED <<producers, queue, stopping, closer, execution, session, settled, db, outages, prunes>>

Enqueueing(t) == Put(t) \/ Evict(t) \/ Reput(t)
Writing ==
  Get \/ DrainEnds \/ ConnectOk \/ ConnectFails \/ BackoffEnds \/ Execute \/ ExecuteRaises

Next ==
  \/ \E t \in Producers : Enter(t) \/ Put(t) \/ Evict(t) \/ Reput(t)
  \/ Get \/ GetTimesOut \/ DrainEnds \/ StartPrune \/ ConnectOk \/ ConnectFails \/ BackoffEnds
  \/ Execute \/ ExecuteRaises
  \/ CloseStops \/ CloseMarks \/ JoinReturns
  \/ ServerGoes \/ ServerComes

Spec == Init /\ [][Next]_vars

\* Both kinds of thread run on; nothing is assumed of the server or of new events.
Fairness == WF_vars(Writing) /\ \A t \in Producers : WF_vars(Enqueueing(t))

FairSpec == Spec /\ Fairness

(***************************************************************************)
(* Safety                                                                  *)
(***************************************************************************)
UnitsIn(q) == Cardinality({k \in DOMAIN q : q[k] # Shutdown})
InHand == Cardinality({t \in Producers : pc[t] # "idle"})
Executing == IF work \in Units THEN 1 ELSE 0

\* StoreMetrics accounts for every unit, whatever threads do to the queue between the
\* calls of _enqueue: until close() each one offered is on its way, written, failed or
\* dropped, and counted once.  Afterwards a unit that a backoff gives up is in no counter
\* (postgres_store.py:448), and still none is counted twice: at most one too many is, the
\* marker, which a thread that entered before close() may evict as a unit dropped.
EveryUnitIsCounted ==
  LET known == InHand + UnitsIn(queue) + Executing + settled IN
  /\ ~stopping => known = offered
  /\ known <= offered + 1

\* Units reach the database in the order in which they entered the queue, across
\* evictions, retries and reconnections: those of one thread in the order in which it
\* recorded them.  The close-then-open statements of turbine_states rely on it.
WrittenInOrder == \A i, j \in DOMAIN db : i < j => db[i] <= db[j]

(***************************************************************************)
(* Liveness                                                                *)
(***************************************************************************)

\* A writer that has lost its server works the queue off once the server stays up;
\* no outage, eviction or retention run leaves it stuck.
QueueIsWorkedOff ==
  <>[](dbUp /\ ~stopping) => <>[](queue = <<>> /\ writer = "getting")

\* close(): "shut down the background thread".  A writer that is told to stop does
\* stop, also in a backoff or while the server is away, when close() finds room
\* for the shutdown marker and no thread is inside _enqueue, which may evict it.
CloseStopsWriter ==
  (InHand = 0 /\ \E k \in DOMAIN queue : queue[k] = Shutdown) ~> (writer = "stopped")
===============================================================================
