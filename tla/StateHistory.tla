----------------------------- MODULE StateHistory -----------------------------
(***************************************************************************)
(* The path of a state transition from the tracker to the turbine_states   *)
(* table, for one turbine (tracker, statements and the partial unique      *)
(* index all work per turbine).                                            *)
(*                                                                         *)
(* StateTracker yields transitions; PostgresStore.record_state_transition  *)
(* queues, for each, a unit that closes the open row and opens a new one;  *)
(* the writer thread runs the units in order, each in one transaction;     *)
(* prune_retention deletes old closed rows.  The detector that owns        *)
(* tracker and queue can be restarted, the table stays.                    *)
(***************************************************************************)
EXTENDS TimelineOps, Sequences

CONSTANTS QueueSize,     \* queue_size
          MaxRestarts,   \* bound: restarts of the detector
          MaxPrunes,     \* bound: retention runs
          MaxIds         \* bound: the writer takes no unit beyond this state_id

ASSUME HistoryAssumption ==
  QueueSize \in Nat \ {0} /\ MaxRestarts \in Nat /\ MaxPrunes \in Nat /\ MaxIds \in Nat

VARIABLES timeline,   \* the tracker's timeline of the turbine
          fed,        \* the latest timestamp any life of the detector has been fed
          pending,    \* <<>>, or <<tr>>: _enqueue has found the queue full
          queue,      \* transitions whose unit waits for the writer
          inflight,   \* <<>>, or <<tr>>: the unit in _execute
          attempt,    \* its attempt number
          rows,       \* the turbine's rows in turbine_states
          nextId,     \* state_id of the next row
          calm,       \* history: no sample has come late, no unit was evicted or given up
          restarts, prunes

detector == <<timeline, fed, pending>>
writer == <<inflight, attempt>>
table == <<rows, nextId>>
bounds == <<restarts, prunes>>
vars == <<detector, queue, writer, table, calm, bounds>>

\* `end' counts only when the row is not open (end_time IS NOT NULL).
Row == [id : Nat, state : KnownStates, start : Nat, open : BOOLEAN, end : Nat]

TypeOK ==
  /\ timeline \in Timeline /\ fed \in Nat
  /\ pending \in Seq(Transition) /\ Len(pending) <= 1
  /\ queue \in Seq(Transition) /\ Len(queue) <= QueueSize
  /\ inflight \in Seq(Transition) /\ Len(inflight) <= 1 /\ attempt \in {1, 2}
  /\ rows \subseteq Row /\ nextId \in Nat /\ calm \in BOOLEAN
  /\ restarts \in 0..MaxRestarts /\ prunes \in 0..MaxPrunes

Init ==
  /\ timeline = NewTimeline /\ fed = 0 /\ pending = <<>>
  /\ queue = <<>> /\ inflight = <<>> /\ attempt = 1
  /\ rows = {} /\ nextId = 0 /\ calm = TRUE
  /\ restarts = 0 /\ prunes = 0

(***************************************************************************)
(* The two statements of a unit                                            *)
(***************************************************************************)

\* Defect: without the start_time condition.
MutCloseAnyOpen(rs, at) ==
  {IF r.open THEN [r EXCEPT !.open = FALSE, !.end = at] ELSE r : r \in rs}

\* _CLOSE_STATE: ... WHERE end_time IS NULL AND start_time <= changed_at.
CloseState(rs, at) ==
  {IF r.open /\ r.start <= at THEN [r EXCEPT !.open = FALSE, !.end = at] ELSE r : r \in rs}

\* Defect: without the ON CONFLICT clause and its index.
MutOpenAlways(rs, tr, id) ==
  rs \cup {[id |-> id, state |-> tr.new, start |-> tr.at, open |-> TRUE, end |-> 0]}

\* _OPEN_STATE: ON CONFLICT with the open row DO NOTHING.
OpenState(rs, tr, id) ==
  IF \E r \in rs : r.open THEN rs
  ELSE rs \cup {[id |-> id, state |-> tr.new, start |-> tr.at, open |-> TRUE, end |-> 0]}

\* Defect: the statements of the unit swapped.
MutOpenThenClose(rs, tr, id) == CloseState(OpenState(rs, tr, id), tr.at)

RunUnit(rs, tr, id) == OpenState(CloseState(rs, tr.at), tr, id)

(***************************************************************************)
(* Detector                                                                *)
(***************************************************************************)

\* _enqueue puts the unit, or finds the queue full and goes on in MakeRoom.
Enqueue(tr) ==
  IF Len(queue) < QueueSize
  THEN queue' = Append(queue, tr) /\ UNCHANGED pending
  ELSE pending' = <<tr>> /\ UNCHANGED queue

DetectorObserves(s, ts) ==
  /\ pending = <<>>
  /\ timeline' = AfterObserve(timeline, s, ts)
  /\ fed' = Later(fed, ts) /\ calm' = (calm /\ ts >= fed)
  /\ IF Stabilises(timeline, s, ts)
     THEN Enqueue(Emitted(timeline, s, timeline.since))
     ELSE UNCHANGED <<pending, queue>>
  /\ UNCHANGED <<writer, table, bounds>>

\* tick() walks the turbines that have been observed.
DetectorTicks(now) ==
  /\ pending = <<>> /\ timeline.candidate # NoState /\ GoneSilent(timeline, now)
  /\ timeline' = AfterTick(timeline, now)
  /\ Enqueue(Emitted(timeline, "DOWN", timeline.seen))
  /\ UNCHANGED <<fed, writer, table, calm, bounds>>

\* The oldest unit is given up for the new one, unless the writer has emptied the
\* queue since: then get_nowait() raises Empty and the new unit is the one lost.
MakeRoom ==
  /\ pending # <<>> /\ pending' = <<>> /\ calm' = FALSE
  /\ queue' = IF queue = <<>> THEN <<>> ELSE Tail(queue) \o pending
  /\ UNCHANGED <<timeline, fed, writer, table, bounds>>

\* A restarted detector knows no timeline; what was queued or in flight is gone.
Restart ==
  /\ restarts < MaxRestarts /\ restarts' = restarts + 1
  /\ timeline' = NewTimeline /\ pending' = <<>>
  /\ queue' = <<>> /\ inflight' = <<>> /\ attempt' = 1
  /\ UNCHANGED <<fed, table, calm, prunes>>

(***************************************************************************)
(* Writer thread and retention                                             *)
(***************************************************************************)
Take ==
  /\ inflight = <<>> /\ queue # <<>> /\ nextId < MaxIds
  /\ inflight' = <<Head(queue)>> /\ queue' = Tail(queue)
  /\ UNCHANGED <<detector, attempt, table, calm, bounds>>

Committed ==
  /\ rows' = RunUnit(rows, Head(inflight), nextId)
  /\ nextId' = nextId + 1

Done == inflight' = <<>> /\ attempt' = 1

Write ==
  /\ inflight # <<>>
  /\ Committed /\ Done
  /\ UNCHANGED <<detector, queue, calm, bounds>>

\* The attempt raises; its transaction may have been committed nevertheless, when
\* the connection breaks before the reply.
AttemptFails ==
  /\ inflight # <<>>
  /\ Committed \/ UNCHANGED table
  /\ \/ attempt = 1 /\ attempt' = 2 /\ UNCHANGED <<inflight, calm>>
     \/ attempt = 2 /\ Done /\ calm' = FALSE
  /\ UNCHANGED <<detector, queue, bounds>>

\* Defect: the comparison the wrong way round.
MutPruneRecent(cutoff) ==
  /\ inflight = <<>> /\ prunes < MaxPrunes /\ prunes' = prunes + 1
  /\ rows' = {r \in rows : r.open \/ r.end < cutoff}
  /\ UNCHANGED <<detector, queue, writer, nextId, calm, restarts>>

\* prune_retention: closed rows that ended before the cutoff.
Prune(cutoff) ==
  /\ inflight = <<>> /\ prunes < MaxPrunes /\ prunes' = prunes + 1
  /\ rows' = {r \in rows : r.open \/ r.end >= cutoff}
  /\ UNCHANGED <<detector, queue, writer, nextId, calm, restarts>>

Next ==
  \/ \E s \in Observable, ts \in Times : DetectorObserves(s, ts)
  \/ \E now \in Times : DetectorTicks(now)
  \/ MakeRoom \/ Restart \/ Take \/ Write \/ AttemptFails
  \/ \E cutoff \in Times : Prune(cutoff)

Spec == Init /\ [][Next]_vars

(***************************************************************************)
(* Safety                                                                  *)
(***************************************************************************)

\* postgres-schema.sql: the open row is "exactly one row per turbine", as soon as
\* the turbine has a row at all, and it is the youngest.
OneOpenRow ==
  rows # {} => \E r \in rows : r.open /\ \A q \in rows \ {r} : q.id < r.id /\ ~q.open

\* postgres-schema.sql: a restarted detector "cannot silently create two
\* overlapping timelines".  Rows follow each other without overlap, whatever the
\* order of transitions, lost units, repeated units, restarts and pruning.
NoOverlap ==
  \A r, q \in rows : r.id < q.id => ~r.open /\ r.start <= r.end /\ r.end <= q.start

\* ... and without a gap: a state ends where the next recorded one starts, also
\* next to units that were lost.
NoGap ==
  \A r \in rows : ~r.open => \E q \in rows : q.id > r.id /\ q.start = r.end

\* postgres-schema.sql: "the currently-open state is always WHERE end_time IS
\* NULL": once the writer has caught up, the open row is the tracker's state, as
\* long as no sample came late and no unit was lost other than by a restart.
OpenRowIsCurrent ==
  calm /\ pending = <<>> /\ queue = <<>> /\ inflight = <<>> /\ timeline.confirmed # NoState =>
    \E r \in rows : r.open /\ r.state = timeline.confirmed
===============================================================================
