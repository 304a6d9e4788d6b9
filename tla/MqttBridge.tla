------------------------------ MODULE MqttBridge ------------------------------
(***************************************************************************)
(* kafka_mqtt_bridge.py: one loop reads telemetry records from Kafka and   *)
(* publishes each on the MQTT session of its device; paho-mqtt keeps one   *)
(* thread per session that delivers, reconnects and calls back; a health   *)
(* server reads the metrics.                                               *)
(*                                                                         *)
(* The topic has one partition, Log is what is produced to it.  Kinds:     *)
(*   "bound"      has a device in the token map                            *)
(*   "unknown"    has none                                                 *)
(*   "anonymous"  without customer_id or turbine_id                        *)
(*   "malformed"  makes _publish_message raise                             *)
(*                                                                         *)
(* Two history variables say what became of the records, through all the   *)
(* processes: `handled' have been through _publish_message, `forgone' were *)
(* passed over by a start or an interrupt.                                 *)
(***************************************************************************)
EXTENDS Integers, FiniteSets, Sequences

CONSTANTS Devices,
          Log,          \* the records, in the order they are produced
          BatchSize,    \* config.batch_size
          QueueLimit,   \* max_queued_messages_set
          Window,       \* publications the library has in flight at a time
          Stall,        \* stall_threshold_s, in ticks
          Grace,        \* the 300 seconds of is_healthy, in ticks
          MaxDrops,     \* bound: sessions lost
          MaxStops      \* bound: kills and interrupts of the process

Entry == [dev : Devices, kind : {"bound", "unknown", "anonymous", "malformed"}]

ASSUME BridgeAssumption ==
  /\ Log \in Seq(Entry)
  /\ BatchSize \in Nat \ {0} /\ QueueLimit \in Nat \ {0} /\ Window \in Nat \ {0}
  /\ Stall \in Nat \ {0} /\ Grace \in Nat /\ Stall < Grace
  /\ MaxDrops \in Nat /\ MaxStops \in Nat

VARIABLES produced,   \* records in the topic
          committed,  \* the group's offset at the broker, NoOffset before the first commit
          pc,         \* "down", "polling", "publishing"
          origin,     \* the position this process started from
          position,   \* records below it have been polled
          done,       \* records below it have been through _publish_message
          accepted,   \* published_count of the batch
          link,       \* link[d]: the session of d: "none" (not in _clients), "up", "down"
          outbox,     \* outbox[d]: records in the library's queue, unacknowledged
          delivered,  \* records ThingsBoard has received
          count,      \* BridgeMetrics
          quiet,      \* ticks since last_delivery_time, or since bridge_start_time
          heard,      \* last_delivery_time is not None
          dark,       \* history: ticks since a session was last up
          handled, forgone,
          drops, stops

topic == <<produced, committed>>
loop == <<pc, origin, position, done, accepted>>
sessions == <<link, outbox, delivered>>
clock == <<quiet, heard, dark>>
past == <<handled, forgone>>
bounds == <<drops, stops>>
vars == <<topic, loop, sessions, count, clock, past, bounds>>

NoOffset == -1
NoCounts == [consumed |-> 0, published |-> 0, acked |-> 0, errors |-> 0, unknown |-> 0]

Kind(m) == Log[m].kind
DeviceOf(m) == Log[m].dev
Waiting(d) == {outbox[d][k] : k \in DOMAIN outbox[d]}

TypeOK ==
  /\ produced \in 0..Len(Log) /\ committed \in -1..Len(Log)
  /\ pc \in {"down", "polling", "publishing"}
  /\ origin \in 0..Len(Log) /\ position \in 0..Len(Log) /\ done \in 0..Len(Log)
  /\ accepted \in Nat
  /\ link \in [Devices -> {"none", "up", "down"}]
  /\ outbox \in [Devices -> Seq(1..Len(Log))] /\ delivered \subseteq 1..Len(Log)
  /\ count \in [consumed : Nat, published : Nat, acked : Nat, errors : Nat, unknown : Nat]
  /\ quiet \in 0..Grace /\ dark \in 0..Grace /\ heard \in BOOLEAN
  /\ handled \subseteq 1..Len(Log) /\ forgone \subseteq 1..Len(Log)
  /\ drops \in 0..MaxDrops /\ stops \in 0..MaxStops

FreshProcess ==
  /\ accepted' = 0 /\ count' = NoCounts
  /\ link' = [d \in Devices |-> "none"] /\ outbox' = [d \in Devices |-> <<>>]
  /\ quiet' = 0 /\ heard' = FALSE /\ dark' = 0

Init ==
  /\ produced = 0 /\ committed = NoOffset
  /\ pc = "down" /\ origin = 0 /\ position = 0 /\ done = 0 /\ accepted = 0
  /\ link = [d \in Devices |-> "none"] /\ outbox = [d \in Devices |-> <<>>]
  /\ delivered = {} /\ count = NoCounts
  /\ quiet = 0 /\ heard = FALSE /\ dark = 0 /\ handled = {} /\ forgone = {} /\ drops = 0 /\ stops = 0

\* The replay appends the next record.
Produce ==
  /\ produced < Len(Log) /\ produced' = produced + 1
  /\ UNCHANGED <<committed, loop, sessions, count, clock, past, bounds>>

(***************************************************************************)
(* The process: main, start, run, stop                                     *)
(***************************************************************************)

\* auto_offset_reset "latest": without an offset the group begins at the end, whatever a
\* process before it has polled.
Start ==
  /\ pc = "down" /\ pc' = "polling"
  /\ origin' = IF committed = NoOffset THEN produced ELSE committed
  /\ position' = origin' /\ done' = origin'
  /\ forgone' = IF committed = NoOffset THEN forgone \cup 1..produced ELSE forgone
  /\ FreshProcess
  /\ UNCHANGED <<topic, delivered, handled, bounds>>

\* Defect: the offsets of the records this very poll returns are committed.
MutPollCommitsAhead(n) ==
  /\ pc = "polling" /\ position + n <= produced /\ n <= BatchSize
  /\ committed' \in {committed, position + n}
  /\ position' = position + n
  /\ accepted' = 0 /\ pc' = IF n > 0 THEN "publishing" ELSE "polling"
  /\ UNCHANGED <<produced, origin, done, sessions, count, clock, past, bounds>>

\* consume_batch; enable_auto_commit: a poll may commit what earlier polls returned.
Poll(n) ==
  /\ pc = "polling" /\ position + n <= produced /\ n <= BatchSize
  /\ committed' \in {committed, position}
  /\ position' = position + n
  /\ accepted' = 0 /\ pc' = IF n > 0 THEN "publishing" ELSE "polling"
  /\ UNCHANGED <<produced, origin, done, sessions, count, clock, past, bounds>>

\* The end of an iteration of run(): a publication has been counted by
\* publish_telemetry, and is counted once more when the batch is complete.
Tally(ok, c) ==
  /\ done' = done + 1
  /\ handled' = handled \cup {done'}
  /\ accepted' = IF ok THEN accepted + 1 ELSE accepted
  /\ IF done' = position
     THEN /\ pc' = "polling"
          /\ count' = [c EXCEPT !.consumed = @ + 1, !.published = @ + accepted']
     ELSE pc' = pc /\ count' = [c EXCEPT !.consumed = @ + 1]
  /\ UNCHANGED <<origin, position, forgone>>

\* Defect: an error of the library leaves the counters alone.
MutFailed == Tally(FALSE, count)

Failed == Tally(FALSE, [count EXCEPT !.errors = @ + 1])

Publishing(m) == pc = "publishing" /\ m = done + 1

\* _publish_message drops the record before there is a publication.
Discard(m) ==
  /\ Publishing(m) /\ Kind(m) # "bound"
  /\ Tally(FALSE, IF Kind(m) = "unknown" THEN [count EXCEPT !.unknown = @ + 1] ELSE count)
  /\ UNCHANGED <<topic, sessions, clock, bounds>>

\* _connect_device: no connection, or no CONNACK with code 0 within five seconds.
ConnectFails(m) ==
  /\ Publishing(m) /\ Kind(m) = "bound" /\ link[DeviceOf(m)] = "none"
  /\ Failed
  /\ UNCHANGED <<topic, sessions, clock, bounds>>

\* publish() on the session of d, which is "up" or "down" by then.  What the library
\* cannot send now it queues all the same: with an error, or without one when as many
\* as it sends at a time may be in flight already.
Hand(m, state) ==
  LET d == DeviceOf(m) IN
  \/ Len(outbox[d]) >= QueueLimit /\ Failed /\ UNCHANGED outbox
  \/ /\ Len(outbox[d]) < QueueLimit
     /\ outbox' = [outbox EXCEPT ![d] = Append(@, m)]
     /\ \/ state = "down" /\ Failed
        \/ /\ state = "up" \/ Len(outbox[d]) >= Window
           /\ Tally(TRUE, [count EXCEPT !.published = @ + 1])

\* The session is opened by the first record of its device and kept for good.
ConnectAndPublish(m) ==
  /\ Publishing(m) /\ Kind(m) = "bound" /\ link[DeviceOf(m)] = "none"
  /\ link' = [link EXCEPT ![DeviceOf(m)] = "up"] /\ dark' = 0
  /\ Hand(m, "up")
  /\ UNCHANGED <<topic, delivered, quiet, heard, bounds>>

Publish(m) ==
  /\ Publishing(m) /\ Kind(m) = "bound" /\ link[DeviceOf(m)] # "none"
  /\ Hand(m, link[DeviceOf(m)])
  /\ UNCHANGED <<topic, link, delivered, clock, bounds>>

Gone == pc' = "down" /\ origin' = 0 /\ position' = 0 /\ done' = 0 /\ FreshProcess

\* KeyboardInterrupt, wherever the loop is: stop() closes the consumer, which may
\* commit the whole polled batch, and drops the sessions with their queues.
Interrupt ==
  /\ pc # "down" /\ stops < MaxStops /\ stops' = stops + 1
  /\ committed' \in {committed, position}
  /\ forgone' = forgone \cup {m \in (done + 1)..position : m <= committed'}
  /\ Gone
  /\ UNCHANGED <<produced, delivered, handled, drops>>

\* SIGTERM has no handler: the process is gone, as after a crash.
Kill ==
  /\ pc # "down" /\ stops < MaxStops /\ stops' = stops + 1
  /\ Gone
  /\ UNCHANGED <<topic, delivered, past, drops>>

(***************************************************************************)
(* The library's threads                                                   *)
(***************************************************************************)

\* The oldest record of the queue is acknowledged: on_publish.
Deliver(d) ==
  /\ link[d] = "up" /\ outbox[d] # <<>>
  /\ delivered' = delivered \cup {Head(outbox[d])}
  /\ outbox' = [outbox EXCEPT ![d] = Tail(@)]
  /\ count' = [count EXCEPT !.acked = @ + 1]
  /\ quiet' = 0 /\ heard' = TRUE
  /\ UNCHANGED <<topic, loop, link, dark, past, bounds>>

\* Defect: a session that reconnects starts with an empty queue (clean_session).
MutReconnectForgets(d) ==
  /\ link[d] = "down" /\ link' = [link EXCEPT ![d] = "up"] /\ dark' = 0
  /\ outbox' = [outbox EXCEPT ![d] = <<>>]
  /\ UNCHANGED <<topic, loop, delivered, count, quiet, heard, past, bounds>>

\* The library reconnects by itself and resends its queue.
Reconnect(d) ==
  /\ link[d] = "down" /\ link' = [link EXCEPT ![d] = "up"] /\ dark' = 0
  /\ UNCHANGED <<topic, loop, outbox, delivered, count, quiet, heard, past, bounds>>

\* The session breaks; what is on its way may arrive without its acknowledgement.
Drop(d) ==
  /\ link[d] = "up" /\ drops < MaxDrops /\ drops' = drops + 1
  /\ link' = [link EXCEPT ![d] = "down"]
  /\ delivered' \in {delivered, delivered \cup Waiting(d)}
  /\ UNCHANGED <<topic, loop, outbox, count, clock, past, stops>>

(***************************************************************************)
(* Time and health                                                         *)
(***************************************************************************)

SomeUp == \E d \in Devices : link[d] = "up"
Later(n) == IF n < Grace THEN n + 1 ELSE n

Tick ==
  /\ pc # "down"
  /\ quiet' = Later(quiet)
  /\ dark' = IF SomeUp THEN 0 ELSE Later(dark)
  /\ UNCHANGED <<topic, loop, sessions, count, heard, past, bounds>>

\* Defect: a bridge that has delivered once is given the whole grace period again.
MutIsHealthy == quiet < Grace

\* is_healthy, what /ready answers: the last delivery of any device is recent.
IsHealthy == IF heard THEN quiet < Stall ELSE quiet < Grace

Next ==
  \/ Produce \/ Start \/ Interrupt \/ Kill \/ Tick
  \/ \E n \in 0..BatchSize : Poll(n)
  \/ \E m \in 1..Len(Log) :
       Discard(m) \/ ConnectFails(m) \/ ConnectAndPublish(m) \/ Publish(m)
  \/ \E d \in Devices : Deliver(d) \/ Reconnect(d) \/ Drop(d)

Spec == Init /\ [][Next]_vars

\* The library's threads run on, and the broker takes a session back.
Fairness == \A d \in Devices : WF_vars(Deliver(d)) /\ WF_vars(Reconnect(d))

FairSpec == Spec /\ Fairness

(***************************************************************************)
(* Properties                                                              *)
(***************************************************************************)
Through == {m \in 1..Len(Log) : origin < m /\ m <= done}

\* BridgeMetrics is what an operator has to find lost telemetry: every record of a
\* bound device that was handed to publish_telemetry has reached ThingsBoard, waits in
\* a session's queue, or is one of those counted in mqtt_errors.  (A record for which
\* _publish_message raises is only logged.)
EveryLossIsCounted ==
  pc # "down" =>
    Cardinality({m \in Through : /\ Kind(m) = "bound" /\ m \notin delivered
                                 /\ m \notin Waiting(DeviceOf(m))}) <= count.errors

\* Automatic commits trail the loop: no process, and no start of the next one, is past a
\* record that none has been through with, so that a kill costs a repetition and not a
\* record.  Excepted is what was `forgone': a process that finds no committed offset
\* begins at the end of the topic, even if one before it was killed with records in
\* hand, and an interrupt in the middle of a batch commits the rest of it.
AutoCommitTrails ==
  \A m \in 1..Len(Log) : m <= committed \/ m <= done => m \in handled \cup forgone

\* docs/ALARM_THRESHOLD_INVENTORY.md: the stall threshold "marks MQTT delivery
\* unhealthy": no session for that long, and /ready says so.
OutageIsNoticed ==
  (heard /\ dark >= Stall) \/ dark >= Grace => ~IsHealthy

\* A record in a session's queue, also one that was reported as an error, reaches
\* ThingsBoard unless the process ends, however often the session breaks.
QueuedIsDelivered ==
  \A m \in {k \in 1..Len(Log) : Kind(k) = "bound"} :
    m \in Waiting(DeviceOf(m)) ~> (m \in delivered \/ pc = "down")
===============================================================================
