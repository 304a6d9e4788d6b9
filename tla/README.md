# Verification of the wind turbine digital twin

TLA+ models of the telemetry pipeline of this repository, TLC configurations that
check them on small instances, and TLAPS proofs of what matters most for every
instance. Paths are relative to the repository root; `K:461` style references name a
file of `app/src/` and a line.

## 1. The system

A recorded test run of a turbine is replayed to Kafka at 1 Hz (or up to 50 times
faster). Consumers store it in IoTDB, show it in ThingsBoard, and look for anomalies. Two
libraries date the operating states of turbines and keep their history, with the alerts, in
PostgreSQL; the first yields what the second records (`record_state_transition`), but no
program of the repository connects them yet. A chat backend answers
questions about it with tools. Commands run by `deploy.sh` set ThingsBoard up and write the
token map the MQTT bridge reads.

    replay_daq_to_kafka.py --Kafka topic--> kafka_consumer.py --CircuitBreaker--> IoTDB
            |   ^ HTTP: pause,                      \--> dead letter topic
            |   | resume, seek       --> kafka_mqtt_bridge.py --MQTT--> ThingsBoard
            |                        --> anomaly_detection.py --> alert topic
            \--> ThingsBoard
    turbine_state.py        library: debounced operating states (no process feeds it)
    postgres_store.py       library: queue and writer thread --> PostgreSQL
    browser --> copilot backend --> model gateway, ThingsBoard tools, anomaly service
    deploy.sh --> administration commands --REST--> ThingsBoard; device-tokens.json --> bridge

### Inventory

| component | state it keeps | operations | what is hard | what makes it correct |
|---|---|---|---|---|
| circuit breaker `resilience.py` | state, failure count, time of opening, a lock | `call`, `state` | the lock is released while the call runs; time | never CLOSED over its threshold; sheds load while cooling down; recovers |
| ingest consumer `kafka_consumer.py` | position, batch, breaker, offsets at the broker | poll, validate, flush per device, dead letter, commit | kill between write and commit, partial failure of a batch, retries against the breaker | at least once: what is committed is stored or dead-lettered; every record ends up in one of the two; no record blocks the others |
| state tracker `turbine_state.py` | per turbine: candidate, confirmed state, last sample | `observe`, `tick` | late samples, silence, back-dated transitions | history is monotone and chained; no state shorter than the stability window |
| Postgres store `postgres_store.py` | bounded queue, writer thread, connection, counters, stop event | `_enqueue`, `_run`, `_execute`, `_connect`, `_prune`, `close` | several recording threads without a lock around get and put; outages; shutdown | units are written in order, none is lost uncounted before `close`; the queue is worked off; `close` stops the thread |
| `turbine_states` table (`app/config/postgres-schema.sql`) | rows, one open one per turbine | close-then-open, `prune_retention` | lost, repeated and late units, restarts, pruning between two units | one unbroken timeline with one open row |
| anomaly detector `anomaly_detection.py` | reading histories, confirmation counts, grace periods | seven detections, `_create_alert`, `publish_alert` | counts and silences that span readings, sensors and restarts | a lasting fault is reported; alerts are spaced; stuck means stuck for the time configured |
| replay server `replay_daq_to_kafka.py` | `ReplayState` under a lock, shutdown flag | replay loop; pause, resume, seek, speed, status | requests between the three critical sections of a round | no sample skipped; a seek lands; a pause holds; a shutdown ends it |
| subsystem updater (same file) | token and expiry, threshold cache, last pushed state | authenticate, poll thresholds, push from 8 threads | cache written before the write it stands for | every change reaches ThingsBoard |
| MQTT bridge `kafka_mqtt_bridge.py` | position, MQTT session per device, its queue, counters, last delivery | poll, connect, publish, callbacks, health | callbacks on other threads, publications queued while disconnected, automatic commits, kills | every loss is counted; commits trail the work; an outage shows; what is queued arrives |
| administration commands `app/tools/commands/`, `thingsboard_client.py` | the session's token, swapped by `impersonate`; what the command has found | `auth secure`, `entity provision`, `auth export-tokens` | repeated calls, races between runs, tokens that expire inside a borrowed session, swallowed failures | a failure has a cause of its own; success means complete; the exported map has every device |
| chat orchestrator `app/copilot_backend/orchestrator.py`, `model_gateway.py` | messages of a turn, think filter, accumulated tool calls | two model calls around at most three tool calls | tags split over chunks, stream errors, cut answers | no reasoning reaches the user; a turn never ends silently |
| copilot tools, backend, anomaly service | cached client, cached models (6 h) | turbine resolution, tool dispatch, scoring | failures of tools in a turn, models kept by failed analyses | a tool's failure is an answer for the model; a model is trained once in its life |
| ThingsBoard session and HTTP client `app/tools/thingsboard_core/` | token, refresh token, credentials, a lock | login, refresh, request with retries | repeated non-idempotent requests | a request ends with an answer or an error |
| health server | named checks, ready flag | set, snapshot | readers on other threads | ready only when all checks are |
| configuration, fleet, profiles, other administration tools, widgets, MCP server, report generator, deployment | no state of interest to concurrency | loading, look-ups, request sequences, rendering, shell scripts | | |

## 2. Modules

Each component has a module with its state, `Init`, one action per operation or step,
and `Next`; pure parts are in an `Ops` module of their own; proofs are in a `_proofs`
module, one for each component and what it is composed with; an `MC` module exists where the constants need definitions. Operators whose
name begins with `Mut` are defects of the definition that follows them: replacing the
one by the other makes a property fail, which shows that the property depends on it.

| module | models |
|---|---|
| `BreakerOps` | the breaker as a record and its transitions, as pure operators; used by `CircuitBreaker` and `TelemetryIngest` |
| `CircuitBreaker` | threads that call through one breaker: admitting, executing and recording are three steps, as in `call` (resilience.py:73-110) |
| `LoadShedding` | abstract: a breaker as its user sees it (healthy, shedding for a cooldown, one trial) |
| `TelemetryIngest` | the consumer loop (`run_consumer`, `flush_current_batch`, `flush_batch_to_iotdb`, `send_to_dlq`); `MCTelemetryIngest` has the topics |
| `AtLeastOnce` | abstract: consumption whose committed marks only move forward over handled records |
| `TimelineOps` | `_TurbineTimeline` and what `observe` and `tick` do to it |
| `TurbineTimeline` | the tracker fed with samples of several turbines |
| `StateHistory` | composition: tracker, bounded queue, writer, `turbine_states`, pruning and restarts of the process; the wiring the two libraries are written for |
| `PostgresStore` | queue, writer thread and `close`, every call on a shared object a step |
| `DetectorOps` | the seven detections over histories of readings |
| `AnomalyDetector` | messages, confirmation counts, grace periods, publishing, restarts; `MCAnomalyDetector` has the rules |
| `ReplayServer` | the replay loop and the HTTP threads |
| `MqttBridge` | the bridge's loop, paho-mqtt's sessions with their threads, metrics and health; `MCMqttBridge` has the topic |
| `AdminCommands` | three commands as lists of REST calls on one client, several operators, the server; `MCAdminCommands` has the tenants |
| `ThinkFilter` | `_ThinkTagFilter`, and what it is for, said of the whole text (`Outside`) |
| `ChatTurn` | composition: a turn from the stream to the user through filter, tools, anomaly service and summary |

How state and actions correspond to the code:

* **Breaker.** `_opened_at` and the clock are one number, `cool`, the remaining
  cooldown, that `Tick` lowers. `Admit`/`Reject` is the first critical section of
  `call`, `Execute` the call itself, `FinishOk`/`FinishError` the second one. The
  service behind it goes up and down by itself.
* **Ingest.** Records are `<<partition, index>>`; a payload is reduced to its kind:
  valid, unwritable (validated, but refused by IoTDB), invalid (one of the exceptions
  the loop catches), poison (another one, which ends the process). `batch_full` is computed
  before the record is appended, as in K:479. A flush is one write per device group and
  attempt, then one commit; an interrupt flushes again; a kill forgets everything but
  broker and IoTDB. Writes to IoTDB are upserts, so a repetition leaves no trace.
  `Overtaken` are the records behind which a malformed one of their partition has been
  committed, `Unspoilt` the partitions without one.
* **Tracker.** `AfterObserve` and `AfterTick` are the whole methods. Milliseconds are
  small numbers. One transition is recorded as the generator yields it.
* **State history.** `RunUnit` is the transaction of close and open with the partial
  unique index. A repeated unit stands for a commit whose reply was lost. `Restart`
  empties tracker and queue and keeps the table.
* **Store.** `_enqueue` is `Enter` (stop event), `Put`, `Evict`, `Reput`; the writer
  is `Get`, `ConnectOk`/`ConnectFails`/`BackoffEnds`, `Execute`/`ExecuteRaises`,
  `DrainEnds`; `close` is `CloseStops` (stop event), `CloseMarks` (marker) and
  `JoinReturns`. A server that goes away leaves a
  stale connection. `GetTimesOut` is the idle second, `StartPrune` the retention.
* **Detector.** One turbine, as every table is keyed by turbine. There is one rule per
  kind, one pair and one multi-sensor rule, as in `anomaly_thresholds.json`. A reading
  is one step (`process_reading` and the publishing of its alerts, each of which may be
  lost); the process has one thread. Severities and texts are left out. `Second` is the unit
  of time against which the stuck detection compares a number of readings, so that a message
  may come more often than once a second. `unbroken` and `setbacks` follow a fault through
  lost alerts and restarts.
* **Bridge.** One partition. A session is opened by the first record of its device and is
  then up or down for good; its queue holds what is not acknowledged. `Hand` is
  `client.publish` with its result: on a broken session the record is queued and reported
  as an error, or as a success if `Window` others may be in flight already; in a full queue it
  is refused. `handled` and `forgone` follow the records through successive processes: what
  one of them has been through with, and what a start at the end of the topic or an interrupt
  has passed over. `Tally` is the end of an iteration of
  `run()`. `Deliver`, `Drop` and `Reconnect` are the library's threads and callbacks.
  Automatic commits happen inside `poll` and `close`.
* **Commands.** A command is the list of calls it still has to make; `After` is what it
  does with an answer, one operator per method. `_request` is `Answered`, `Lost` (no
  answer, or 429, 502, 503 or 504) and `Unauthorized` (401), whose new login can itself fail
  (`ReloginFails`). The server is a set of facts; entity
  ids, JSON bodies and pages are left out. `refused` are the assets the server would not
  create at all. `excused` marks a run that had to give a call up
  after its retries, or whose token ran out inside a borrowed session or could not be renewed.
* **Chat.** A text is a sequence of characters; the two tags are reduced to `<t` and `</t`,
  which share their beginning and their end as `<think>` and `</think>` do. A chunk
  is any non-empty piece. A tool is what can become of a call: its arguments are JSON or cut,
  have the right types, name something, hold acceptable values, and ThingsBoard answers
  or does not. A turn runs on the event loop without a pause, so turns do not interleave;
  they share the model cache.
* **Replay.** One round is `BeginRound`, `Show`, `Send`, `Advance`, the stretches
  between the lock's critical sections. Requests are one step under the lock except
  the status, which is answered with the lock held. `--loop` is always on
  (`store_true` with default True), so the branch without it is not modelled.

## 3. Runs

Bounds are named in the modules as "bound"; everything else is a parameter of the code.

| configuration | question | instance, and why it is enough |
|---|---|---|
| `MCBreaker` | is the breaker consistent and does it recover when shared, and does it shed load for its one user? | every choice of 1 to 3 threads, threshold 2, cooldown 2: two calls overlap a third one's opening; whole cycles of opening, trial and reopening |
| `MCIngest` | is consumption at least once, and is every record handled in the end? | 2 partitions: a malformed record behind one good record and in front of another, an unwritable record and a tombstone; 2 turbines, batches of one and two records, flaky IoTDB, lost commits, two kills or interrupts: the loss of `MCIngest_CrashReplays` happens here, and has to be told apart |
| `MCIngest_CrashReplays` | can a kill lose a record? (it can, see 6) | one good and one malformed record |
| `MCIngest_NeverBlocks` | can one record hold up the others for ever? (it can, see 6) | a tombstone between two good records, no faults, no kills |
| `MCTimelineInOrder` | is the debounced history sound? | 8 instants, window 2, silence after 3: states, spikes, DOWN and return |
| `MCHistory` | is the table one timeline whatever happens, and its open row the confirmed state if nothing went wrong? | late samples over 3 instants, queue of 1, lost and repeated units, restart, pruning, 4 rows; `calm` remembers whether a sample was late or a unit lost |
| `MCStore` | order, accounting, progress and shutdown of the queue | 2 threads, 4 units, queue of 2: both threads are between get and put at once; errors, 2 connect attempts, an outage, a pruning, `close` at any point of the threads' calls |
| `MCAnomaly` | do alerts, grace periods and counts fit together? | 3 sensors with all seven detections, 4 instants of half a second, confirmation 2, grace 2, a restart, any alert lost |
| `MCReplay` | do requests and loop interleave soundly? | 4 rows, start in the middle, 2 seeks (also beyond the end), limit 0 or 2 |
| `MCBridge` | are losses counted, commits safe, outages seen, queues emptied? | 3 records of one device and one of an unknown one, queue of 2, 1 in flight: refused, queued and delivered publications, queued ones with an error and without; the session breaks twice, a kill or an interrupt; stall threshold 1 and grace 2 ticks. One session only: several are covered by the theorems, and `QueuedIsDelivered` is a statement about each by itself |
| `MCAdmin` | do side-by-side, repeated and killed commands reach what they report? | 2 operators, 2 tenants with a device each, a rig and a subsystem, 1 retry, 2 lost calls or expired tokens: both are needed to lose a call for good, a call and its 401, or a token and the login for a new one |
| `MCChat` | does the user see the right text, and something in every turn? | every text of at most 6 characters over `<`, `/`, `t` in every cut: both tags, a tag inside the other, every start of a tag; up to 4 calls, one over the limit; 2 components |

Properties, by module:

* `CircuitBreaker`: `ClosedBelowThreshold` (a CLOSED breaker has a failure to spare),
  `QuietCooldown` (no call in flight during the cooldown), `ShedsLoad` (refinement of
  `LoadShedding`), `RecoversForGood`.
* `TelemetryIngest`: `CommittedIsDurable`, `PolledIsAccounted`, `BufferBounded` (a
  batch has at most `BATCH_SIZE + 1` records), `ImplementsAtLeastOnce` (on the partitions
  without malformed records), `EveryRecordHandled` (with two exceptions, which are the two
  violations: `CrashReplays`, `NeverBlocks`).
* `TurbineTimeline`: `HistoryIsMonotone`, `StatesOutlastSpikes`, `HistoryIsChained`.
* `StateHistory`: `OneOpenRow`, `NoOverlap`, `NoGap`, `OpenRowIsCurrent`.
* `PostgresStore`: `EveryUnitIsCounted` (exact until `close`, then at most the marker too
  high), `WrittenInOrder`, `QueueIsWorkedOff`,
  `CloseStopsWriter`.
* `AnomalyDetector`: `AlertsAreSpaced` (in one life), `PersistentFaultIsReported` (through
  lost alerts and restarts, which it counts), `StuckTakesTime` (what the number of readings
  is worth at any rate of messages).
* `ReplayServer`: `PauseHolds`, `NoSampleSkipped`, `SeekLands`, `EveryRowIsReplayed`,
  `ShutdownStops`.
* `MqttBridge`: `EveryLossIsCounted`, `AutoCommitTrails` (no process and no commit is past a
  record that no process handled, but for those `forgone`), `OutageIsNoticed`,
  `QueuedIsDelivered`.
* `AdminCommands`: `FailureIsExplained` (lost answers, races and kills fail no provisioning
  and no export, but they do fail a rotation), `SuccessIsComplete` (but for refused assets and
  relations of what was not seen), `ExportIsComplete` (the devices of every tenant); the three
  speak of commands that gave no call up and whose token lasted.
* `ChatTurn`: `ThinkingIsHidden` (the filter against `Outside`, at every chunk),
  `NoSilentTurn`, `TrainedOnce`.

`QuietCooldown` and `ShedsLoad` are about one caller, which is how the repository uses the
breaker; the run checks them where `MCBreaker` chose one thread. The type invariants
(`TypeOK`, `BreakerTypeOK`, `TrackerTypeOK`) are proved, and not run again; the types of a
command are the first part of `AdmInv` (section 4).

Fairness, and why the code has it:

* breaker: time passes and a thread that is in a call goes on (`WF` of `Tick`, `Call`);
* ingest: the container is restarted (`restart: unless-stopped`), the loop runs on, a
  partition with records is polled again and again (`SF`, since polling alternates with
  flushing in one thread). Of a poison record nothing is assumed in `FairSpec`: it may be
  polled early, late or never, so that `EveryRecordHandled` has to hold either way;
  `FairPollSpec`, for `NeverBlocks` only, polls it as fairly as the others. Nothing is
  assumed of IoTDB: a write may fail for ever;
* store: recording threads and writer run on; nothing is assumed of the server, the
  property assumes that it stays up;
* replay: the main thread gets the lock again and again although status requests
  compete for it (`SF`), and a client takes the answer it asked for;
* bridge: paho-mqtt's threads run on and ThingsBoard takes a session back (`WF` of
  `Deliver`, `Reconnect` per device). Nothing is assumed of the loop or of Kafka;
* commands and chat: no liveness is stated, each is over when its calls are.

`CHECK_DEADLOCK FALSE` is used where the program ends: the writer after `close`, the
replay after a signal, at its limit, or when `produce` raises.

## 4. Proofs

All proofs are for every value of the constants, under the assumptions named in the
modules (`BreakerAssumption`, `IngestAssumption`, `TimelineAssumption`,
`InstanceAssumption`, `TrackerAssumption`, `HistoryAssumption`, `StoreAssumption`,
`DetectorOpsAssumption`, `DetectorAssumption`, `OrderAssumption`, `ReplayAssumption`,
`BridgeAssumption`, `AdminAssumption`, `ChatAssumption`), which TLC evaluates on the
instances. They give the constants their types, and besides say that a turbine is
reported silent later than a state is confirmed (`TimelineAssumption`), that no sensor is
listed twice (`OrderAssumption`), and that provisioning asks for devices of its own tenant
and that the rig is none of its subsystems (`AdminAssumption`).

| module | theorems | argument |
|---|---|---|
| `Ingest_proofs`, the breaker | `TypeCorrect`, `ClosedHasFailuresToSpare`, `OneCallerIsQuiet`, `OneCallerShedsLoad` | the first two are inductive for any set of threads. The other two hold of runs with one caller: `QuietInv`, a call in flight excludes a running cooldown; `OneCallerInv` makes each step one of `LoadShedding` or a stutter |
| `Ingest_proofs`, its user | `IngestTypeCorrect`, `BatchStaysBounded`, `CommitsAreDurable`, `PolledIsAlwaysAccounted`, `UnspoiltIsAtLeastOnce` | for every topic; the last three assume a reliable dead letter queue (`DlqReliable`) and nothing else. `DurableInv` says where every polled record is in each phase of the loop: stored, dead-lettered, in the batch, or in a group still to be flushed; a commit of a batch covers only the first two, and the commit of a malformed record overtakes the rest (`Passed`). `BatchStaysBounded` needs no assumption: `RoomToPoll` says that between two polls the buffer has room for one more record |
| `Timeline_proofs`, the tracker | `TimelineTypeCorrect`, `InOrderHistoryIsMonotone`, `InOrderStatesOutlastSpikes`, `InOrderHistoryIsChained` | assuming samples in time order. The invariant relates the candidate's start, the last sample and the last transition of each turbine |
| `Timeline_proofs`, the table | `HistoryTypeCorrect`, `OneOpenRowAlways`, `NoOverlapAlways`, `NoGapAlways`, `OpenRowIsAlwaysCurrent` | no assumption on order or reliability for the first four. `TableInv` strengthens the three with: the open row is the youngest, and closed rows end where a younger one starts. A unit keeps it whatever its date, which is why losing or repeating units does no harm. The last one is about calm runs: `CalmInv` says that what is on its way to the table is in the order of its dates, that the open row, also one from before a restart, started before all of it, and that the newest of it has the tracker's state |
| `AnomalyDetector_proofs` | `DetectorTypeCorrect`, `PersistentFaultsAreReported`, `AlertsAreAlwaysSpaced`, `StuckAlwaysTakesTime` | the detections are opaque in the first three: the results hold for any rules, and with any alerts lost. `CountsKeepUp`: the run of firing readings is no longer than the count and a confirmation count for each setback. `SpacingInv` (in time order): a sensor's latest alert is covered by its grace period or the period has run out. `ReadingsSpaced`: the readings kept of a sensor are a period of the messages apart at least, so that enough equal ones span as many periods; the last two assume messages in time order (`InOrder`) |
| `PostgresStore_proofs` | `StoreTypeCorrect`, `EveryUnitIsAlwaysCounted`, `DatabaseIsInOrder` | any number of threads and any queue. `Sound` adds to the types what program points imply (the marker is not in the queue before the stop event, the numbers do not run ahead of the calls). `Ledger`: what is offered and neither with a thread, nor in the queue, nor with the writer, nor settled (`Missing`) is nothing before `close` and at least minus one, the marker, afterwards; the marker's place in the books is kept until it is put (`ToCome`), and only a backoff given up at the stop makes more missing. `Ascending`: the database, then the writer's unit, then the queue are in the order in which units entered; a unit put back after an eviction is the newest |
| `ReplayServer_proofs` | `ReplayTypeCorrect`, `PauseAlwaysHolds`, `SamplesAreConsecutive`, `SeeksLand` | `IInv`: between two critical sections, the position is the row of the round unless a seek came, which `aim` and `late` record |
| `MqttBridge_proofs` | `BridgeTypeCorrect`, `CommitsTrail`, `OutagesAreNoticed`, `LossesAreCounted` | `OffsetsInOrder`: a process is not past what it has polled, and between two batches all that is polled has been through, which is when a poll commits; every record below the offset it starts from or commits was handled by a process or forgone (`TallyCovers`, `CoverStep`). `QuietOutlastsDark`: the time without a delivery is never shorter than the time without a session, as only a session that is up delivers. A step loses at most one record, and then adds one to the errors (`OneLost`); a queue loses its head only by delivering it (`DeliverLoss`) |
| `AdminCommands_proofs` | `FailuresAreExplained`, `SuccessIsAlwaysComplete`, `ExportIsAlwaysComplete` | any operators, tenants, devices and subsystems, any number of attempts and faults. None of the three is inductive, since each is about the last step of a command. `AdmInv` follows a command on its way (`OnCourse`), unless it is excused: the calls it still has to make obey the rules of what may follow what (`Provisioning`, `Exporting`, `Securing`); all it is there for is done or still owed by one of those calls (`ProvisionOwes`, `ExportOwes`); and the call in hand is made with the token it was meant for (`ProvisionSeat`, `ExportSeat`, `SecureSeat`), the one of the block `impersonate` is in or, outside of one, the administrator's. There is one lemma for the answer to each kind of call (`Answered...`). Rivals only add facts, which takes no command off its course (`SoundGrows`), so a step of one operator is proved with the others out of sight (`OneRun`) |
| `ChatTurn_proofs` | `NoTurnIsSilent`, `ModelsAreTrainedOnce`, `ThinkingIsAlwaysHidden` | `MarkIsTrue`: what is marked as emitted was sent in this turn and phase. `CacheIsCharged`: a model that is not cached has not been trained since the cache expired. `FilterFollows`, for texts of any length and any chunks: however the answer goes on, what was shown is the beginning of what is outside of the thinking, and buffer and flag are enough to go on from there; so a tag cut in two is never shown |

`Scan` and `Outside` are recursive functions. The library's induction takes an operator as a
parameter, which the provers cannot instantiate; `ChatTurn_proofs` goes by the smallest
counterexample instead (`LeastNumber`), first to show that a function with the equation of
`Outside` exists, then for what the rounds of `Scan` do.

Only model-checked is what must happen eventually (`RecoversForGood`,
`EveryRecordHandled`, `QueueIsWorkedOff`, `CloseStopsWriter`, `EveryRowIsReplayed`,
`ShutdownStops`, `QueuedIsDelivered`): fairness speaks of `ENABLED`, which is out of the
prover's reach. Every other property of a passing run is a theorem.

## 5. Plan

Done, in this order: breaker, ingest, tracker, history, store, detector, replay, bridge,
administration commands, think filter and chat turn. The abstract specifications are
`LoadShedding`, `AtLeastOnce` and `Outside`.

What would come next: the replay composed with the detector's intake; the subsystem updater
with its change cache; the safety lemmas that the liveness properties rest on (what is
never disabled again, what only decreases).

## 6. Where code and documentation differ

`MCIngest_CrashReplays` demonstrates one that loses data: committing past a
malformed record (K:503) commits the valid records before it that are still in the
buffer; a kill then loses them, although `app/README.md:20-21` says that a crash replays
them. `MCIngest_NeverBlocks` demonstrates one that stops consumption: a record that raises
something other than the three exceptions caught (K:499), such as a tombstone or an infinite
timestamp, ends the process before anything is committed and is read again after every
restart, although `app/README.md:26` says that the consumer never blocks forever on one bad
record. The properties and theorems about the consumer name both as exceptions.

Others met while modelling, which the models follow as the code has them:

* the breaker admits every caller in HALF_OPEN, `app/README.md:175-176` speaks of a
  trial call; a success that started before the opening closes it (resilience.py:116);
  "five consecutive failed batches" (`app/README.md:545`) are attempts, not batches;
* a batch can have `BATCH_SIZE + 1` records (K:479); a commit covers only the partition
  of the batch's last record (K:461);
* a transition dated before the open row is not written although the tracker has
  confirmed it (postgres_store.py:74);
* `close` cannot put its marker into a full queue, and another thread's `_enqueue` can
  evict it; the writer then waits for ever (postgres_store.py:191, 364), and the marker is
  counted as a unit dropped; a unit that a backoff gives up after `close` is in no counter
  (448);
* confirmation counts are not reset by nominal readings, while
  `app/docs/ANOMALY_DETECTION.md:613-614` speaks of consecutive readings;
* the stuck detection compares a number of readings with a number of seconds
  (anomaly_detection.py:464): `app/docs/ANOMALY_DETECTION.md:313-317` documents the 80 % at
  1 Hz, while `app/config/anomaly_thresholds.json:76` says "unchanged for 5+ minutes"; at one
  message a second it takes four, and a replay at fifty times the speed, whose timestamps
  are wall-clock ones, is called stuck within seconds. `StuckTakesTime` states what the
  count is worth;
* `messages_published` of the bridge counts every publication twice
  (kafka_mqtt_bridge.py:555 and 778; line 194 calls it the total count of telemetry messages
  published; no property is about this counter), and one that was queued on a broken session counts as an error although it
  is delivered later (550); the health verdict is about the last delivery of any device;
* an interrupted bridge commits the whole polled batch (848), and without a committed
  offset a restarted one begins at the end of the topic (140), so that a process killed before
  its first commit takes the records it had polled with it: these are `forgone`;
* provisioning cannot create a device: `create_device` is called with the arguments of
  another signature (entity_command.py:203, thingsboard_client.py:1019), so that a turbine
  without a device fails the command;
* a 401 inside `impersonate` replaces the borrowed token by the administrator's
  (thingsboard_client.py:263); what follows in the block is refused;
* `entity provision` reports `SUCCESS` although assets or relations could not be created
  (entity_command.py:217-230), and lists that could not be read count as empty
  (thingsboard_client.py:498), so that an export may overwrite the map with fewer devices;
* `auth secure` fails when the answer to a change that was made is lost and the call
  repeated, and when another run was faster (`FailureIsExplained` says so);
* more than three tool calls end the turn without a summary of those that ran
  (orchestrator.py:576), and "I couldn't find that turbine" is also said when ThingsBoard
  does not answer; an assistant's answer that is broken off is not persisted;
* arguments of a tool call that are cut by the token budget reach the executor, although
  model_gateway.py:42-43 says callers never see partial JSON; arguments that are JSON but
  no object end the turn with an exception (tool_executor.py:97);
* `get_telemetry_range` promises at most `max_points` values per key (thingsboard_tools.py:228),
  but with an `interval_ms` it asks for raw ones (274);
* a publish failure silences a sensor for a grace period without an alert
  (anomaly_detection.py:972); `PersistentFaultIsReported` bounds what that costs;
* `rapid_increase` fires on a falling value when the mean is negative (591);
* `--max-samples N` sends N + 1 samples (replay_daq_to_kafka.py:762), `--start-row` is
  clamped for the display only (638), and a seek that races with the end of a round
  skips the row sought (753).

## 7. Not modelled, and why

* The subsystem updater: scores are numerical and posts are fire-and-forget; its one
  hazard is the cache written before the post (replay_daq_to_kafka.py:355).
* The anomaly consumer (it reads a payload no producer of the repository sends), the
  health server (single critical sections), the second HTTP client and the commands on
  it: one thread each, a sequence of calls.
* Of `ThingsboardClient`: deletions, data sources, `force_recreate`, dashboards, device
  attributes and the validator, which the three commands do not use; lists of more than
  one page; the temporary password, which `create_user` invents but never sets, so that
  the login with it always fails.
* Of the bridge: a record that is no JSON, which makes the deserializer raise inside the
  library's `poll` (619); several partitions; the registry's key without the site.
* Of the copilot: persistence of messages, API keys, start-up, prompts, the contents of
  answers.
* Numerical code (the isolation forest, health scores), rendering (widgets, reports),
  configuration loading and look-up tables, shell scripts and container configuration.
* Of all parts: wording, logging, severities; Kafka rebalancing between several consumers
  (the deployment has one); broker errors that only set a health flag.
