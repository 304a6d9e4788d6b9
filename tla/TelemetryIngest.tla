---------------------------- MODULE TelemetryIngest ----------------------------
(***************************************************************************)
(* kafka_consumer.py: the loop that reads telemetry from Kafka, batches    *)
(* it, writes each device's rows to IoTDB through the circuit breaker, and *)
(* routes what it cannot use to the dead letter queue.                     *)
(*                                                                         *)
(* The topic is a constant: Log[p][i] is the i-th record of partition p.   *)
(* A record is identified by <<p, i>>; the payload is reduced to what the  *)
(* code can tell apart, its kind and the device it belongs to:             *)
(*   "valid"       parsed, validated and buffered                          *)
(*   "unwritable"  passes validation, but insert_tablet always raises for  *)
(*                 its tablet (a seq_no that is no INT32: validate_payload *)
(*                 only checks that the field is there)                    *)
(*   "invalid"     raises JSONDecodeError, ValueError or KeyError          *)
(*   "poison"      raises anything else: json.loads(None) of a tombstone,  *)
(*                 int(float("inf")) of an infinite event_time_ms          *)
(***************************************************************************)
EXTENDS BreakerOps, FiniteSets, Sequences

CONSTANTS Partitions, Devices,
          Log,             \* Log[p] : sequence of [kind, dev]
          BatchSize,       \* Config.BATCH_SIZE
          MaxRetries,      \* Config.IOTDB_WRITE_MAX_RETRIES
          MaxCrashes,      \* bound: kills and interrupts of the process
          DlqReliable,     \* whether every DLQ produce is delivered
          CommitReliable,  \* whether every asynchronous commit reaches the broker
          IotdbReliable    \* whether IoTDB accepts every writable tablet

Record == [kind : {"valid", "unwritable", "invalid", "poison"}, dev : Devices]

ASSUME IngestAssumption ==
  /\ Log \in [Partitions -> Seq(Record)]
  /\ BatchSize \in Nat \ {0} /\ MaxRetries \in Nat \ {0} /\ MaxCrashes \in Nat
  /\ DlqReliable \in BOOLEAN /\ CommitReliable \in BOOLEAN /\ IotdbReliable \in BOOLEAN

VARIABLES committed,  \* broker: committed[p] records of p will not be redelivered
          dlq,        \* broker: the records the dead letter topic holds
          stored,     \* IoTDB: the records whose rows are there (writes are upserts)
          pc,         \* where the process is; "down" between two runs of it
          origin,     \* origin[p]: the offset this process was started from
          position,   \* position[p]: records of p polled, by this process or before
          buffer,     \* buffered records, in polling order
          todo,       \* devices of the batch whose group is still to be flushed
          attempt,    \* attempt number in flush_batch_to_iotdb
          diverting,  \* records of the current group still to be sent to the DLQ
          breaker,    \* the breaker of this process
          closing,    \* the batch is flushed for the last time, after an interrupt
          crashes     \* kills and interrupts so far

broker == <<committed, dlq>>
flush == <<todo, attempt, diverting>>
process == <<pc, origin, position, buffer, flush, breaker, closing>>
vars == <<broker, stored, process, crashes>>

Messages == UNION {{p} \X (1..Len(Log[p])) : p \in Partitions}
Kind(m) == Log[m[1]][m[2]].kind
DeviceOf(m) == Log[m[1]][m[2]].dev

Buffered == {buffer[k] : k \in DOMAIN buffer}
GroupOf(d) == {m \in Buffered : DeviceOf(m) = d}
Handled == stored \cup dlq

\* Records behind which a malformed record of their partition has been committed.
Overtaken ==
  {m \in Messages : \E j \in (m[2] + 1)..committed[m[1]] : Kind(<<m[1], j>>) = "invalid"}

TypeOK ==
  /\ committed \in [Partitions -> Nat] /\ position \in [Partitions -> Nat]
  /\ origin \in [Partitions -> Nat]
  /\ \A p \in Partitions : committed[p] <= Len(Log[p]) /\ position[p] <= Len(Log[p])
  /\ dlq \subseteq Messages /\ stored \subseteq Messages
  /\ pc \in {"down", "polling", "writing", "diverting", "committing"}
  /\ buffer \in Seq(Messages)
  /\ todo \subseteq Devices /\ diverting \subseteq Messages
  /\ attempt \in 1..MaxRetries
  /\ breaker \in Breaker
  /\ closing \in BOOLEAN /\ crashes \in 0..MaxCrashes

Init ==
  /\ committed = [p \in Partitions |-> 0]
  /\ dlq = {} /\ stored = {}
  /\ pc = "down"
  /\ origin = [p \in Partitions |-> 0] /\ position = [p \in Partitions |-> 0]
  /\ buffer = <<>> /\ todo = {} /\ attempt = 1 /\ diverting = {}
  /\ breaker = NewBreaker /\ closing = FALSE /\ crashes = 0

\* The process is gone, and with it everything but the broker's and IoTDB's state.
Exit ==
  /\ pc' = "down"
  /\ origin' = [p \in Partitions |-> 0] /\ position' = [p \in Partitions |-> 0]
  /\ buffer' = <<>> /\ todo' = {} /\ attempt' = 1 /\ diverting' = {}
  /\ breaker' = NewBreaker /\ closing' = FALSE

(***************************************************************************)
(* run_consumer: start-up and the polling loop                             *)
(***************************************************************************)

\* A new process waits for IoTDB, subscribes, and reads on from the committed
\* offsets with an empty buffer and a fresh breaker.
Start ==
  /\ pc = "down"
  /\ pc' = "polling"
  /\ origin' = committed /\ position' = committed
  /\ UNCHANGED <<broker, stored, buffer, flush, breaker, closing, crashes>>

HasNext(p) == pc = "polling" /\ position[p] < Len(Log[p])
NextOf(p) == <<p, position[p] + 1>>

\* Defect: off by one.
MutBatchFullLater == Len(buffer) > BatchSize

\* Both conditions are evaluated before the polled record is looked at, so the
\* record that fills the batch is appended without flushing it.
BatchFull == Len(buffer) >= BatchSize
FlushDue(timedOut) == BatchFull \/ (timedOut /\ buffer # <<>>)

\* flush_current_batch is entered with the buffer b; if it is empty, it returns.
EnterFlush(b) ==
  /\ pc' = "writing"
  /\ todo' = {DeviceOf(b[k]) : k \in DOMAIN b}
  /\ attempt' = 1 /\ diverting' = {}

StayPolling == pc' = "polling" /\ UNCHANGED flush

TakeRecord(p) ==
  /\ HasNext(p) /\ Kind(NextOf(p)) \in {"valid", "unwritable"}
  /\ position' = [position EXCEPT ![p] = @ + 1]
  /\ buffer' = Append(buffer, NextOf(p))
  /\ \E timedOut \in BOOLEAN :
       IF FlushDue(timedOut) THEN EnterFlush(buffer') ELSE StayPolling
  /\ UNCHANGED <<broker, stored, origin, breaker, closing, crashes>>

\* produce() may raise, or flush(10) may give up: neither stops the caller.
Produced(m) == IF DlqReliable THEN {{m}} ELSE {{}, {m}}

\* Defect: off by one, the offset after the next record.
MutCommitOneMore(m) ==
  \/ committed' = [committed EXCEPT ![m[1]] = m[2] + 1]
  \/ ~CommitReliable /\ UNCHANGED committed

\* The commit is asynchronous: it takes effect, or is lost with the process.
CommitUpTo(m) ==
  \/ committed' = [committed EXCEPT ![m[1]] = m[2]]
  \/ ~CommitReliable /\ UNCHANGED committed

\* Defect: the loop seeks back to the record it could not parse.
MutTakeInvalidAgain(p) ==
  /\ HasNext(p) /\ Kind(NextOf(p)) = "invalid"
  /\ \E sent \in Produced(NextOf(p)) : dlq' = dlq \cup sent
  /\ StayPolling
  /\ UNCHANGED <<committed, origin, position, stored, buffer, breaker, closing, crashes>>

TakeInvalid(p) ==
  /\ HasNext(p) /\ Kind(NextOf(p)) = "invalid"
  /\ position' = [position EXCEPT ![p] = @ + 1]
  /\ \E sent \in Produced(NextOf(p)) : dlq' = dlq \cup sent
  /\ CommitUpTo(NextOf(p))
  /\ \E timedOut \in BOOLEAN :
       IF FlushDue(timedOut) /\ buffer # <<>> THEN EnterFlush(buffer) ELSE StayPolling
  /\ UNCHANGED <<stored, origin, buffer, breaker, closing, crashes>>

\* An exception the loop does not catch ends the process through `finally'.
TakePoison(p) ==
  /\ HasNext(p) /\ Kind(NextOf(p)) = "poison"
  /\ Exit
  /\ UNCHANGED <<broker, stored, crashes>>

\* poll() returns None: whatever is buffered is flushed.
PollNothing ==
  /\ pc = "polling" /\ buffer # <<>>
  /\ EnterFlush(buffer)
  /\ UNCHANGED <<broker, stored, origin, position, buffer, breaker, closing, crashes>>

PollIdle == pc = "polling" /\ buffer = <<>> /\ UNCHANGED vars

(***************************************************************************)
(* flush_current_batch and flush_batch_to_iotdb                            *)
(***************************************************************************)

\* Groups are flushed in the order in which their device was first buffered.
Current(d) ==
  /\ pc = "writing" /\ d \in todo
  /\ \E k \in DOMAIN buffer :
       DeviceOf(buffer[k]) = d /\ \A j \in 1..(k - 1) : DeviceOf(buffer[j]) \notin todo

AfterGroup(d) ==
  /\ todo' = todo \ {d} /\ attempt' = 1 /\ diverting' = {}
  /\ pc' = IF todo' = {} THEN "committing" ELSE "writing"

Divert(d) ==
  /\ pc' = "diverting" /\ diverting' = GroupOf(d)
  /\ UNCHANGED <<todo, attempt>>

WriteSucceeds(d) ==
  /\ Current(d) /\ ~Rejects(breaker)
  /\ \A m \in GroupOf(d) : Kind(m) = "valid"
  /\ stored' = stored \cup GroupOf(d)
  /\ breaker' = RecordSuccess(Resolve(breaker))
  /\ AfterGroup(d)
  /\ UNCHANGED <<broker, origin, position, buffer, closing, crashes>>

\* Defect: a group that has used its attempts is skipped.
MutWriteFailsSkips(d) ==
  /\ Current(d) /\ ~Rejects(breaker) /\ ~IotdbReliable
  /\ breaker' = RecordFailure(Resolve(breaker))
  /\ IF attempt < MaxRetries
     THEN attempt' = attempt + 1 /\ UNCHANGED <<pc, todo, diverting>>
     ELSE AfterGroup(d)
  /\ UNCHANGED <<broker, stored, origin, position, buffer, closing, crashes>>

\* insert_tablet raises; the rows may be stored nevertheless (a lost reply).
WriteFails(d) ==
  /\ Current(d) /\ ~Rejects(breaker)
  /\ \/ /\ \E m \in GroupOf(d) : Kind(m) = "unwritable"
        /\ UNCHANGED stored
     \/ /\ \A m \in GroupOf(d) : Kind(m) = "valid"
        /\ ~IotdbReliable
        /\ stored' \in {stored, stored \cup GroupOf(d)}
  /\ breaker' = RecordFailure(Resolve(breaker))
  /\ IF attempt < MaxRetries
     THEN attempt' = attempt + 1 /\ UNCHANGED <<pc, todo, diverting>>
     ELSE Divert(d)
  /\ UNCHANGED <<broker, origin, position, buffer, closing, crashes>>

\* Defect: the open breaker skips the group.
MutWriteRejectedSkips(d) ==
  /\ Current(d) /\ Rejects(breaker)
  /\ AfterGroup(d)
  /\ UNCHANGED <<broker, stored, origin, position, buffer, breaker, closing, crashes>>

\* CircuitBreakerOpenError: the group is given up without another attempt.
WriteRejected(d) ==
  /\ Current(d) /\ Rejects(breaker)
  /\ Divert(d)
  /\ UNCHANGED <<broker, stored, origin, position, buffer, breaker, closing, crashes>>

\* send_to_dlq: one record of the failed group at a time.
SendToDlq(m) ==
  /\ pc = "diverting" /\ m \in diverting
  /\ \E sent \in Produced(m) : dlq' = dlq \cup sent
  /\ IF diverting = {m}
     THEN AfterGroup(DeviceOf(m))
     ELSE diverting' = diverting \ {m} /\ UNCHANGED <<pc, todo, attempt>>
  /\ UNCHANGED <<committed, stored, origin, position, buffer, breaker, closing, crashes>>

LastBuffered == buffer[Len(buffer)]

\* The health check reads breaker.state; then the offset of the last buffered
\* record is committed, and with it only that record's partition.
CommitBatch ==
  /\ pc = "committing"
  /\ CommitUpTo(LastBuffered)
  /\ IF closing
     THEN Exit
     ELSE /\ breaker' = Resolve(breaker)
          /\ buffer' = <<>> /\ pc' = "polling"
          /\ UNCHANGED <<origin, position, flush, closing>>
  /\ UNCHANGED <<dlq, stored, crashes>>

(***************************************************************************)
(* Interrupts, kills and time                                              *)
(***************************************************************************)

\* KeyboardInterrupt, wherever the loop is: the whole buffer is flushed (again).
Interrupt ==
  /\ pc # "down" /\ ~closing /\ crashes < MaxCrashes
  /\ crashes' = crashes + 1
  /\ IF buffer = <<>>
     THEN Exit
     ELSE /\ EnterFlush(buffer) /\ closing' = TRUE
          /\ UNCHANGED <<origin, position, buffer, breaker>>
  /\ UNCHANGED <<broker, stored>>

\* SIGTERM (docker stop), SIGKILL or a crash: nothing of the process is kept.
Kill ==
  /\ pc # "down" /\ crashes < MaxCrashes
  /\ crashes' = crashes + 1
  /\ Exit
  /\ UNCHANGED <<broker, stored>>

Tick ==
  /\ breaker.cool > 0
  /\ breaker' = Elapse(breaker)
  /\ UNCHANGED <<broker, stored, pc, origin, position, buffer, flush, closing, crashes>>

Poll(p) == TakeRecord(p) \/ TakeInvalid(p)
Write(d) == WriteSucceeds(d) \/ WriteFails(d) \/ WriteRejected(d)

Next ==
  \/ Start
  \/ \E p \in Partitions : TakeRecord(p) \/ TakeInvalid(p) \/ TakePoison(p)
  \/ PollNothing \/ PollIdle
  \/ \E d \in Devices : WriteSucceeds(d) \/ WriteFails(d) \/ WriteRejected(d)
  \/ \E m \in diverting : SendToDlq(m)
  \/ CommitBatch \/ Interrupt \/ Kill \/ Tick

Spec == Init /\ [][Next]_vars

\* The container is restarted (restart: unless-stopped) and the loop runs on.
\* Polling serves every partition that has records again and again, but it
\* competes with the flushes of the same loop, hence strong fairness.  Of a record
\* that ends the process nothing is assumed: it may be polled early, late or never.
Fairness ==
  /\ WF_vars(Start) /\ WF_vars(PollNothing) /\ WF_vars(CommitBatch)
  /\ \A p \in Partitions : SF_vars(Poll(p))
  /\ \A d \in Devices : WF_vars(Write(d))
  /\ WF_vars(\E m \in diverting : SendToDlq(m))

FairSpec == Spec /\ Fairness

\* The records that end the process are polled as fairly as any other.
FairPollSpec == FairSpec /\ \A p \in Partitions : SF_vars(TakePoison(p))

(***************************************************************************)
(* Safety                                                                  *)
(***************************************************************************)

\* docs/ARCHITECTURE.md: "Kafka offsets commit only after a successful IoTDB
\* write (manual commit)", or after the dead letter queue has the record: what
\* a restart will not read again is in IoTDB or in the dead letter queue, across
\* lost commits, kills and processes that end on a poison record.  The one exception
\* is the records a malformed one of their partition has overtaken (see CrashReplays).
CommittedIsDurable ==
  \A p \in Partitions : \A i \in 1..committed[p] : <<p, i>> \in Handled \cup Overtaken

\* Nothing falls between the poll, the buffer and the two destinations: while the
\* process runs, every record it polled itself is buffered or dealt with, whatever
\* malformed records were committed in between and whatever a former process lost.
PolledIsAccounted ==
  pc # "down" =>
    \A p \in Partitions : \A i \in (origin[p] + 1)..position[p] : <<p, i>> \in Handled \cup Buffered

\* The batch a flush has to write is bounded, through retries and interrupts:
\* the loop appends at most one record to a full buffer before it flushes it.
BufferBounded == Len(buffer) <= BatchSize + 1

(***************************************************************************)
(* Liveness                                                                *)
(***************************************************************************)

\* The loss of CrashReplays: a process ended while it had the record in its buffer,
\* behind which a malformed one was committed.
Lost(m) == pc = "down" /\ m \in Overtaken \ Handled

\* app/README.md: "Messages that can't be written ... go to the DLQ topic".  Every
\* record the loop survives ends up in IoTDB or in the dead letter queue, across
\* write failures, malformed records in front of it and behind it, unwritable
\* neighbours, an open breaker, lost commits, kills and interrupts, with two
\* exceptions: the loss of CrashReplays, and a process that a poison record ends again
\* and again (NeverBlocks), as long as it does.
EveryRecordHandled ==
  \A m \in Messages :
    Kind(m) # "poison" =>
      \/ <>(m \in Handled \/ Lost(m))
      \/ []<><<\E p \in Partitions : TakePoison(p)>>_vars

(***************************************************************************)
(* Refinement                                                              *)
(***************************************************************************)

\* The partitions without a malformed record.
Unspoilt == {p \in Partitions : \A i \in 1..Len(Log[p]) : Kind(<<p, i>>) # "invalid"}

Contract == INSTANCE AtLeastOnce
  WITH Partitions <- Unspoilt, done <- Handled, mark <- [p \in Unspoilt |-> committed[p]]

\* On its partitions without malformed records the consumer implements at-least-once
\* consumption, whatever the other partitions of the same batch hold: committed
\* offsets move forward only, and only over records stored or dead-lettered.
ImplementsAtLeastOnce == Contract!Spec

(***************************************************************************)
(* What the documentation says and the code does not do                    *)
(***************************************************************************)

\* app/README.md: "a crash mid-batch replays those messages rather than dropping
\* them".  No record behind the committed offset is missing once the process is
\* down, when the dead letter queue can be relied on.
CrashReplays ==
  pc = "down" => \A p \in Partitions : \A i \in 1..committed[p] : <<p, i>> \in Handled

\* app/README.md: "Messages that can't be written ... go to the DLQ topic ... and the
\* offset is committed past them.  The consumer never blocks forever on one bad
\* record": with nothing failing and nobody killing the process, every record is
\* stored or dead-lettered in the end.
NeverBlocks == \A m \in Messages : <>(m \in Handled)
===============================================================================
