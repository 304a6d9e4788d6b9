----------------------------- MODULE Ingest_proofs -----------------------------
(***************************************************************************)
(* Proofs about CircuitBreaker, for any set of threads, any threshold and  *)
(* any cooldown, and about TelemetryIngest, which calls the breaker from   *)
(* one thread, for any topic, batch size, retry count and number of kills. *)
(* That committed records are durable needs a dead letter queue that can   *)
(* be relied on, and excepts what a malformed record has overtaken: a run  *)
(* shows that one is enough to lose the records in front of it.            *)
(***************************************************************************)
EXTENDS CircuitBreaker, TelemetryIngest, TLAPS

(***************************************************************************)
(* The circuit breaker                                                     *)
(***************************************************************************)

\* A new breaker is well formed.
LEMMA NewBreakerTyping == NewBreaker \in Breaker
  BY BreakerAssumption DEF Breaker, NewBreaker

\* The critical sections keep the breaker well formed.
LEMMA BreakerTyping ==
  ASSUME NEW b \in Breaker
  PROVE  /\ Resolve(b) \in Breaker
         /\ RecordSuccess(b) \in Breaker
         /\ RecordFailure(b) \in Breaker
         /\ Elapse(b) \in Breaker
<1> USE BreakerAssumption DEF Breaker
<1>2. Resolve(b) \in Breaker
  BY DEF Resolve
<1>3. RecordSuccess(b) \in Breaker
  BY DEF RecordSuccess
<1>4. OneMoreFailure(b) \in 0..FailureThreshold
  BY DEF OneMoreFailure
<1>5. RecordFailure(b) \in Breaker
  BY <1>4 DEF RecordFailure
<1>6. Elapse(b) \in Breaker
  BY DEF Elapse
<1> QED BY <1>2, <1>3, <1>5, <1>6

\* Only the outcome of a call closes or opens a breaker; looking at it or waiting
\* leaves a CLOSED breaker, and its count, alone.
LEMMA ClosedIsStable ==
  ASSUME NEW b \in Breaker
  PROVE  /\ Resolve(b).state = "CLOSED" <=> b.state = "CLOSED"
         /\ Resolve(b).failures = b.failures
         /\ Elapse(b).state = b.state
         /\ Elapse(b).failures = b.failures
  BY DEF Breaker, Resolve, Elapse

\* Every step keeps the types: the count never passes the threshold and the
\* remaining cooldown never leaves its range.
THEOREM TypeCorrect == BreakerSpec => []BreakerTypeOK
<1>1. BreakerInit => BreakerTypeOK
  BY NewBreakerTyping, BreakerAssumption
     DEF BreakerInit, BreakerTypeOK, Breaker, NewBreaker, InFunc, Recording
<1>2. BreakerTypeOK /\ [BreakerNext]_breakerVars => BreakerTypeOK'
  <2> SUFFICES ASSUME BreakerTypeOK, [BreakerNext]_breakerVars PROVE BreakerTypeOK'
    OBVIOUS
  <2>1. ASSUME NEW t \in Threads, Call(t) PROVE BreakerTypeOK'
    BY <2>1, BreakerTyping
       DEF Call, Admit, Reject, Execute, FinishOk, FinishError, BreakerTypeOK, InFunc, Recording
  <2>2. CASE ReadState
    BY <2>2, BreakerTyping DEF ReadState, BreakerTypeOK
  <2>3. CASE CooldownTicks
    BY <2>3, BreakerTyping DEF CooldownTicks, BreakerTypeOK
  <2>4. CASE ServiceChanges
    BY <2>4 DEF ServiceChanges, BreakerTypeOK
  <2>5. CASE UNCHANGED breakerVars
    BY <2>5 DEF breakerVars, BreakerTypeOK
  <2> QED BY <2>1, <2>2, <2>3, <2>4, <2>5 DEF BreakerNext
<1> QED BY <1>1, <1>2, PTL DEF BreakerSpec

\* However many threads record outcomes, and in whatever order, the breaker is
\* never CLOSED with a count that has reached the threshold.
THEOREM ClosedHasFailuresToSpare == BreakerSpec => []ClosedBelowThreshold
<1>1. BreakerInit => ClosedBelowThreshold
  BY BreakerAssumption DEF BreakerInit, NewBreaker, ClosedBelowThreshold
<1>2. BreakerTypeOK /\ ClosedBelowThreshold /\ [BreakerNext]_breakerVars => ClosedBelowThreshold'
  <2> SUFFICES ASSUME BreakerTypeOK, ClosedBelowThreshold, [BreakerNext]_breakerVars
               PROVE  ClosedBelowThreshold'
    OBVIOUS
  <2>0. shared \in Breaker
    BY DEF BreakerTypeOK
  <2>1. ASSUME NEW t \in Threads, Admit(t) \/ Reject(t) \/ Execute(t)
        PROVE  ClosedBelowThreshold'
    BY <2>0, <2>1, ClosedIsStable DEF Admit, Reject, Execute, ClosedBelowThreshold
  <2>2. ASSUME NEW t \in Threads, FinishOk(t) PROVE ClosedBelowThreshold'
    BY <2>0, <2>2, BreakerAssumption
       DEF FinishOk, RecordSuccess, Breaker, ClosedBelowThreshold
  <2>3. ASSUME NEW t \in Threads, FinishError(t) PROVE ClosedBelowThreshold'
    BY <2>0, <2>3, BreakerAssumption
       DEF FinishError, RecordFailure, OneMoreFailure, Breaker, ClosedBelowThreshold
  <2>4. CASE ReadState \/ CooldownTicks
    BY <2>0, <2>4, ClosedIsStable DEF ReadState, CooldownTicks, ClosedBelowThreshold
  <2>5. CASE ServiceChanges \/ UNCHANGED breakerVars
    BY <2>5 DEF ServiceChanges, breakerVars, ClosedBelowThreshold
  <2> QED BY <2>1, <2>2, <2>3, <2>4, <2>5 DEF BreakerNext, Call
<1> QED BY <1>1, <1>2, TypeCorrect, PTL DEF BreakerSpec

(***************************************************************************)
(* One caller.  QuietCooldown is not inductive: that nobody is calling     *)
(* while the cooldown runs rests on nobody being in the function while the *)
(* breaker is OPEN at all, which one caller guarantees because it is the   *)
(* one that opened it.                                                     *)
(***************************************************************************)
Quiet ==
  /\ shared.cool > 0 => shared.state = "OPEN"
  /\ shared.state = "OPEN" => \A t \in Threads : at[t] = "idle"

QuietInv == OneCaller => Quiet

\* A thread that does not use the breaker is never in call().
OthersIdle == \A t \in Threads \ callers : at[t] = "idle"

LEMMA OthersStayIdle == BreakerSpec => []OthersIdle
<1>1. BreakerInit => OthersIdle
  BY DEF BreakerInit, OthersIdle
<1>2. BreakerTypeOK /\ OthersIdle /\ [BreakerNext]_breakerVars => OthersIdle'
  <2> SUFFICES ASSUME BreakerTypeOK, OthersIdle, [BreakerNext]_breakerVars PROVE OthersIdle'
    OBVIOUS
  <2>1. callers' = callers /\ \A t \in Threads \ callers : at'[t] = at[t]
    BY DEF BreakerTypeOK, BreakerNext, Call, Admit, Reject, Execute, FinishOk, FinishError, ReadState, CooldownTicks,
           ServiceChanges, breakerVars
  <2> QED BY <2>1 DEF OthersIdle
<1> QED BY <1>1, <1>2, TypeCorrect, PTL DEF BreakerSpec

LEMMA CallersAreFixed == [BreakerNext]_breakerVars => callers' = callers
BY DEF BreakerNext, Call, Admit, Reject, Execute, FinishOk, FinishError, ReadState, CooldownTicks,
       ServiceChanges, breakerVars

LEMMA QuietInvariant == BreakerSpec => []QuietInv
<1>1. BreakerInit => QuietInv
  BY DEF BreakerInit, NewBreaker, QuietInv, Quiet
<1>2. BreakerTypeOK /\ OthersIdle /\ QuietInv /\ [BreakerNext]_breakerVars => QuietInv'
  <2> SUFFICES ASSUME BreakerTypeOK, OthersIdle, OneCaller, Quiet, [BreakerNext]_breakerVars PROVE Quiet'
    BY CallersAreFixed DEF QuietInv, OneCaller
  <2>0. shared \in Breaker /\ at \in [Threads -> {"idle"} \cup InFunc \cup Recording]
    BY DEF BreakerTypeOK
  <2>1. ASSUME NEW t \in Threads, t \in callers, Admit(t) PROVE Quiet'
    BY <2>0, <2>1 DEF Admit, Rejects, Resolve, Quiet, Breaker
  <2>2. ASSUME NEW t \in Threads, t \in callers, Reject(t) PROVE Quiet'
    BY <2>2 DEF Reject, Quiet
  <2>3. ASSUME NEW t \in Threads, t \in callers, Execute(t) PROVE Quiet'
    BY <2>0, <2>3 DEF Execute, InFunc, Quiet
  <2>4. ASSUME NEW t \in Threads, t \in callers, FinishOk(t) PROVE Quiet'
    <3>1. shared.state # "OPEN" /\ shared.cool = 0
      BY <2>0, <2>4 DEF FinishOk, Quiet, Breaker
    <3> QED BY <2>0, <2>4, <3>1 DEF FinishOk, RecordSuccess, Quiet, Breaker
  <2>5. ASSUME NEW t \in Threads, t \in callers, FinishError(t) PROVE Quiet'
    <3>1. shared.state # "OPEN" /\ shared.cool = 0
      BY <2>0, <2>5 DEF FinishError, Quiet, Breaker
    <3>2. \A u \in Threads : at'[u] = "idle"
      BY <2>0, <2>5 DEF FinishError, OneCaller, OthersIdle
    <3>3. shared'.cool > 0 => shared'.state = "OPEN"
      BY <2>0, <2>5, <3>1 DEF FinishError, RecordFailure, Breaker
    <3> QED BY <3>2, <3>3 DEF Quiet
  <2>6. CASE ReadState
    BY <2>0, <2>6 DEF ReadState, Resolve, Quiet, Breaker
  <2>7. CASE CooldownTicks
    BY <2>0, <2>7 DEF CooldownTicks, Elapse, Quiet, Breaker
  <2>8. CASE ServiceChanges \/ UNCHANGED breakerVars
    BY <2>8 DEF ServiceChanges, breakerVars, Quiet
  <2> QED BY <2>1, <2>2, <2>3, <2>4, <2>5, <2>6, <2>7, <2>8 DEF BreakerNext, Call
<1> QED BY <1>1, <1>2, TypeCorrect, OthersStayIdle, PTL DEF BreakerSpec

\* With one caller, a tripped breaker leaves the service alone for the whole
\* cooldown: it is OPEN and no call is in flight.
THEOREM OneCallerIsQuiet == BreakerSpec => []QuietCooldown
<1>1. QuietInv => QuietCooldown
  BY DEF QuietInv, Quiet, QuietCooldown
<1> QED BY <1>1, QuietInvariant, PTL

(***************************************************************************)
(* One caller implements LoadShedding.  Each step of call() is a step of   *)
(* the abstract gate or a stutter; the budget left is FailureThreshold     *)
(* minus the count, which ClosedBelowThreshold keeps positive.             *)
(***************************************************************************)
OneCallerInv == BreakerTypeOK /\ ClosedBelowThreshold /\ OthersIdle /\ QuietInv

LEMMA OneCallerInvariant == BreakerSpec => []OneCallerInv
BY QuietInvariant, TypeCorrect, ClosedHasFailuresToSpare, OthersStayIdle, PTL DEF OneCallerInv

\* With one caller, what the service experiences is what LoadShedding allows.
THEOREM OneCallerShedsLoad == BreakerSpec => ShedsLoad
<1>1. BreakerInit => Shedding!Init
  BY BreakerAssumption DEF BreakerInit, NewBreaker, Shedding!Init, Alone
<1>2. OneCallerInv /\ OneCallerInv' /\ [BreakerNext]_breakerVars => [Shedding!Next]_(Shedding!vars)
  <2> SUFFICES ASSUME OneCallerInv, OneCallerInv', [BreakerNext]_breakerVars
               PROVE  [Shedding!Next]_(Shedding!vars)
    OBVIOUS
  <2> OneCaller' <=> OneCaller
    BY CallersAreFixed DEF OneCaller
  <2> SUFFICES ASSUME OneCaller, OneCaller' PROVE [Shedding!Next]_(Shedding!vars)
    BY DEF Alone, Shedding!vars
  <2> USE DEF OneCallerInv, QuietInv, Quiet, Alone
  <2>0. /\ shared \in Breaker /\ shared' \in Breaker
        /\ at \in [Threads -> {"idle"} \cup InFunc \cup Recording]
    BY DEF BreakerTypeOK
  <2>1. ASSUME NEW t \in Threads, t \in callers, Admit(t) PROVE Shedding!Next \/ UNCHANGED Shedding!vars
    <3>1. ~Busy /\ Busy'
      BY <2>0, <2>1 DEF Admit, Busy, OneCaller, OthersIdle
    <3>2. CASE shared.state = "CLOSED"
      BY <2>0, <2>1, <3>2, ClosedIsStable DEF Admit, Resolve, Shedding!vars
    <3>3. CASE shared.state # "CLOSED"
      <4>1. shared'.state = "HALF_OPEN" /\ shared'.cool = 0 /\ shared.cool = 0
        BY <2>0, <2>1, <3>3 DEF Admit, Rejects, Resolve, Breaker
      <4>2. Shedding!Probe
        BY <3>1, <3>3, <4>1 DEF Shedding!Probe
      <4> QED BY <4>2 DEF Shedding!Next
    <3> QED BY <3>2, <3>3
  <2>2. ASSUME NEW t \in Threads, t \in callers, Reject(t) PROVE UNCHANGED Shedding!vars
    BY <2>2 DEF Reject, Busy, Shedding!vars
  <2>3. ASSUME NEW t \in Threads, t \in callers, Execute(t) PROVE UNCHANGED Shedding!vars
    <3>1. Busy /\ Busy'
      BY <2>0, <2>3 DEF Execute, Busy, InFunc
    <3> QED BY <2>3, <3>1 DEF Execute, Shedding!vars
  <2>4. ASSUME NEW t \in Threads, t \in callers, FinishOk(t) PROVE Shedding!Next
    <3>1. Busy
      BY <2>4 DEF FinishOk, Busy
    <3>2. shared.state \in {"CLOSED", "HALF_OPEN"}
      BY <2>0, <3>1 DEF Breaker, Busy
    <3>3. shared' = [state |-> "CLOSED", failures |-> 0, cool |-> shared.cool]
      BY <2>4 DEF FinishOk, RecordSuccess
    <3>4. Shedding!Succeed
      BY <3>1, <3>2, <3>3, BreakerAssumption DEF Shedding!Succeed
    <3> QED BY <3>4 DEF Shedding!Next
  <2>5. ASSUME NEW t \in Threads, t \in callers, FinishError(t) PROVE Shedding!Next
    <3>1. Busy /\ ~Busy'
      BY <2>0, <2>5 DEF FinishError, Busy, OneCaller, OthersIdle
    <3>2. shared.state \in {"CLOSED", "HALF_OPEN"}
      BY <2>0, <3>1 DEF Breaker, Busy
    <3>3. CASE shared.state = "CLOSED" /\ shared.failures + 1 < FailureThreshold
      <4>1. shared'.state = "CLOSED" /\ shared'.failures = shared.failures + 1
            /\ shared'.cool = shared.cool
        BY <2>0, <2>5, <3>3, BreakerAssumption
           DEF FinishError, RecordFailure, OneMoreFailure, Breaker
      <4>2. Shedding!Tolerate
        BY <2>0, <3>3, <4>1, BreakerAssumption DEF Shedding!Tolerate, Breaker
      <4> QED BY <4>2 DEF Shedding!Next
    <3>4. CASE shared.state = "HALF_OPEN" \/ ~(shared.failures + 1 < FailureThreshold)
      <4>1. shared'.state = "OPEN" /\ shared'.cool = ResetTimeout
        BY <2>0, <2>5, <3>2, <3>4, BreakerAssumption
           DEF FinishError, RecordFailure, OneMoreFailure, Breaker, ClosedBelowThreshold
      <4>2. shared.state = "CLOSED" => FailureThreshold - shared.failures = 1
        BY <2>0, <3>2, <3>4, BreakerAssumption DEF ClosedBelowThreshold, Breaker
      <4>3. Shedding!Trip
        BY <3>1, <3>2, <4>1, <4>2 DEF Shedding!Trip
      <4> QED BY <4>3 DEF Shedding!Next
    <3> QED BY <3>2, <3>3, <3>4
  <2>6. CASE ReadState
    <3>1. Busy <=> Busy'
      BY <2>6 DEF ReadState, Busy
    <3>2. CASE shared.state = "OPEN" /\ shared.cool = 0
      BY <2>0, <2>6, <3>1, <3>2 DEF ReadState, Resolve, Breaker, Busy, Shedding!vars
    <3>3. CASE ~(shared.state = "OPEN" /\ shared.cool = 0)
      BY <2>6, <3>1, <3>3 DEF ReadState, Resolve, Shedding!vars
    <3> QED BY <3>2, <3>3
  <2>7. CASE CooldownTicks
    <3>1. (Busy <=> Busy') /\ shared'.state = shared.state
          /\ shared'.failures = shared.failures /\ shared'.cool = shared.cool - 1
      BY <2>0, <2>7 DEF CooldownTicks, Elapse, Busy, Breaker
    <3>2. Shedding!Pass
      BY <2>7, <3>1 DEF CooldownTicks, Shedding!Pass
    <3> QED BY <3>2 DEF Shedding!Next
  <2>8. CASE ServiceChanges \/ UNCHANGED breakerVars
    BY <2>8 DEF ServiceChanges, breakerVars, Busy, Shedding!vars
  <2> QED BY <2>1, <2>2, <2>3, <2>4, <2>5, <2>6, <2>7, <2>8 DEF BreakerNext, Call
<1> QED BY <1>1, <1>2, OneCallerInvariant, PTL DEF BreakerSpec, ShedsLoad, Shedding!Spec

(***************************************************************************)
(* The ingest consumer                                                     *)
(***************************************************************************)

LEMMA MessageIntro ==
  ASSUME NEW p \in Partitions, NEW i \in 1..Len(Log[p])
  PROVE  <<p, i>> \in Messages
  BY DEF Messages

LEMMA MessageElim ==
  ASSUME NEW m \in Messages
  PROVE  /\ m = <<m[1], m[2]>> /\ m[1] \in Partitions
         /\ m[2] \in 1..Len(Log[m[1]])
  BY DEF Messages

LEMMA LogTyping ==
  ASSUME NEW p \in Partitions
  PROVE  /\ Len(Log[p]) \in Nat
         /\ \A i \in 1..Len(Log[p]) : Log[p][i] \in Record
<1>1. Log[p] \in Seq(Record)
  BY IngestAssumption
<1> QED BY <1>1

LEMMA DeviceTyping ==
  ASSUME NEW m \in Messages
  PROVE  DeviceOf(m) \in Devices
  BY MessageElim, LogTyping DEF DeviceOf, Record

\* Appending a record adds it, and nothing else, to what is buffered.
LEMMA BufferedAppend ==
  ASSUME buffer \in Seq(Messages), NEW m \in Messages, buffer' = Append(buffer, m)
  PROVE  /\ buffer' \in Seq(Messages)
         /\ Buffered' = Buffered \cup {m}
  BY DEF Buffered

LEMMA BufferedTyping ==
  ASSUME buffer \in Seq(Messages)
  PROVE  /\ Buffered \subseteq Messages
         /\ buffer # <<>> => LastBuffered \in Buffered
         /\ \A k \in DOMAIN buffer : buffer[k] \in Buffered
  BY DEF Buffered, LastBuffered

(***************************************************************************)
(* Type correctness, one conjunct at a time                                *)
(***************************************************************************)
BrokerTypes ==
  /\ committed \in [Partitions -> Nat]
  /\ \A p \in Partitions : committed[p] <= Len(Log[p])
  /\ dlq \subseteq Messages /\ stored \subseteq Messages

PollTypes ==
  /\ origin \in [Partitions -> Nat] /\ position \in [Partitions -> Nat]
  /\ \A p \in Partitions : position[p] <= Len(Log[p])
  /\ buffer \in Seq(Messages)

FlushTypes ==
  /\ pc \in {"down", "polling", "writing", "diverting", "committing"}
  /\ todo \subseteq Devices /\ diverting \subseteq Messages
  /\ attempt \in 1..MaxRetries
  /\ breaker \in Breaker
  /\ closing \in BOOLEAN /\ crashes \in 0..MaxCrashes

\* A batch that is being flushed is not empty, and the group being diverted is
\* part of it.
FlushShape ==
  /\ pc \in {"writing", "diverting", "committing"} => buffer # <<>>
  /\ pc = "diverting" => diverting # {}
  /\ pc # "diverting" => diverting = {}
  /\ diverting \subseteq Buffered

LEMMA TypesSplit == TypeOK <=> BrokerTypes /\ PollTypes /\ FlushTypes
  BY DEF TypeOK, BrokerTypes, PollTypes, FlushTypes

TypeInv == BrokerTypes /\ PollTypes /\ FlushTypes /\ FlushShape

LEMMA InitTypes == Init => TypeInv
<1> SUFFICES ASSUME Init PROVE TypeInv
  OBVIOUS
<1>1. BrokerTypes
  BY LogTyping DEF Init, BrokerTypes
<1>2. PollTypes
  BY LogTyping DEF Init, PollTypes
<1>3. FlushTypes
  <2>1. 1 \in 1..MaxRetries /\ 0 \in 0..MaxCrashes
    BY IngestAssumption
  <2> QED BY <2>1, NewBreakerTyping DEF Init, FlushTypes
<1>4. FlushShape
  BY DEF Init, FlushShape
<1> QED BY <1>1, <1>2, <1>3, <1>4 DEF TypeInv

LEMMA EnterFlushTypes ==
  ASSUME NEW b \in Seq(Messages), EnterFlush(b)
  PROVE  pc' = "writing" /\ todo' \subseteq Devices /\ diverting' = {} /\ attempt' = 1
<1>1. \A k \in DOMAIN b : b[k] \in Messages
  OBVIOUS
<1> QED BY <1>1, DeviceTyping DEF EnterFlush

LEMMA ExitTypes ==
  ASSUME Exit, UNCHANGED <<broker, stored>>, TypeInv, crashes' \in 0..MaxCrashes
  PROVE  TypeInv'
<1> USE DEF TypeInv
<1>1. BrokerTypes'
  BY DEF BrokerTypes, broker
<1>2. PollTypes'
  BY LogTyping DEF Exit, PollTypes
<1>3. FlushTypes'
  <2>1. 1 \in 1..MaxRetries
    BY IngestAssumption
  <2> QED BY <2>1, NewBreakerTyping DEF Exit, FlushTypes
<1>4. FlushShape'
  BY DEF Exit, FlushShape
<1> QED BY <1>1, <1>2, <1>3, <1>4

LEMMA CommitTypes ==
  ASSUME TypeInv, NEW m \in Messages, CommitUpTo(m)
  PROVE  /\ committed' \in [Partitions -> Nat]
         /\ \A p \in Partitions : committed'[p] <= Len(Log[p])
  BY MessageElim, LogTyping DEF CommitUpTo, TypeInv, BrokerTypes

LEMMA ProducedTypes ==
  ASSUME NEW m \in Messages, NEW sent \in Produced(m)
  PROVE  sent \subseteq {m} /\ (DlqReliable => sent = {m})
  BY DEF Produced

LEMMA NextOfMessage ==
  ASSUME TypeInv, NEW p \in Partitions, HasNext(p)
  PROVE  /\ NextOf(p) \in Messages
         /\ NextOf(p)[1] = p /\ NextOf(p)[2] = position[p] + 1
         /\ pc = "polling"
<1>1. position[p] + 1 \in 1..Len(Log[p])
  BY LogTyping DEF TypeInv, PollTypes, HasNext
<1> QED BY <1>1, MessageIntro DEF NextOf, HasNext

LEMMA PositionTypes ==
  ASSUME TypeInv, NEW p \in Partitions, HasNext(p),
         position' = [position EXCEPT ![p] = @ + 1]
  PROVE  /\ position' \in [Partitions -> Nat]
         /\ \A q \in Partitions : position'[q] <= Len(Log[q])
  BY LogTyping DEF TypeInv, PollTypes, HasNext

LEMMA GroupTypes ==
  ASSUME TypeInv, NEW d \in Devices
  PROVE  GroupOf(d) \subseteq Buffered /\ GroupOf(d) \subseteq Messages
  BY BufferedTyping DEF GroupOf, TypeInv, PollTypes

LEMMA CurrentGroup ==
  ASSUME TypeInv, NEW d \in Devices, Current(d)
  PROVE  pc = "writing" /\ d \in todo /\ GroupOf(d) # {} /\ buffer # <<>>
  BY BufferedTyping DEF Current, GroupOf, TypeInv, PollTypes, FlushShape

LEMMA StepTypes == TypeInv /\ [Next]_vars => TypeInv'
<1> SUFFICES ASSUME TypeInv, [Next]_vars PROVE TypeInv'
  OBVIOUS
<1> USE DEF TypeInv
<1>0. /\ breaker \in Breaker /\ Buffered \subseteq Messages
      /\ 1 \in 1..MaxRetries /\ MaxRetries \in Nat /\ MaxCrashes \in Nat
  BY BufferedTyping, IngestAssumption DEF FlushTypes, PollTypes
<1>1. CASE Start
  BY <1>1 DEF Start, broker, flush, BrokerTypes, PollTypes, FlushTypes, FlushShape, Buffered
<1>2. ASSUME NEW p \in Partitions, TakeRecord(p) PROVE TypeInv'
  <2>1. HasNext(p) /\ NextOf(p) \in Messages /\ pc = "polling"
    BY <1>2, NextOfMessage DEF TakeRecord
  <2>2. buffer' \in Seq(Messages) /\ Buffered' = Buffered \cup {NextOf(p)}
    BY <1>2, <2>1, BufferedAppend DEF TakeRecord, PollTypes
  <2>3. buffer' # <<>>
    BY <1>2 DEF TakeRecord, PollTypes
  <2>4. PollTypes'
    BY <1>2, <2>1, <2>2, PositionTypes DEF TakeRecord, PollTypes
  <2>5. \/ pc' = "writing" /\ todo' \subseteq Devices /\ diverting' = {} /\ attempt' = 1
        \/ pc' = "polling" /\ UNCHANGED <<todo, attempt, diverting>>
    BY <1>2, <2>2, EnterFlushTypes DEF TakeRecord, StayPolling, flush
  <2>6. UNCHANGED <<committed, dlq, stored, breaker, closing, crashes>>
    BY <1>2 DEF TakeRecord, broker
  <2> QED BY <1>0, <2>1, <2>2, <2>3, <2>4, <2>5, <2>6 DEF BrokerTypes, FlushTypes, FlushShape
<1>3. ASSUME NEW p \in Partitions, TakeInvalid(p) PROVE TypeInv'
  <2>1. HasNext(p) /\ NextOf(p) \in Messages /\ pc = "polling"
    BY <1>3, NextOfMessage DEF TakeInvalid
  <2>2. UNCHANGED <<stored, origin, buffer, breaker, closing, crashes>> /\ Buffered' = Buffered
    BY <1>3 DEF TakeInvalid, Buffered
  <2>3. PollTypes'
    BY <1>3, <2>1, <2>2, PositionTypes DEF TakeInvalid, PollTypes
  <2>4. BrokerTypes'
    <3>1. dlq' \subseteq Messages
      BY <1>3, <2>1, ProducedTypes DEF TakeInvalid, BrokerTypes
    <3> QED BY <1>3, <2>1, <2>2, <3>1, CommitTypes DEF TakeInvalid, BrokerTypes
  <2>5. \/ /\ pc' = "writing" /\ todo' \subseteq Devices /\ diverting' = {} /\ attempt' = 1
           /\ buffer # <<>>
        \/ pc' = "polling" /\ UNCHANGED <<todo, attempt, diverting>>
    BY <1>3, EnterFlushTypes DEF TakeInvalid, StayPolling, flush, PollTypes
  <2> QED BY <1>0, <2>1, <2>2, <2>3, <2>4, <2>5 DEF FlushTypes, FlushShape
<1>4. ASSUME NEW p \in Partitions, TakePoison(p) PROVE TypeInv'
  BY <1>4, ExitTypes DEF TakePoison, FlushTypes
<1>5. CASE PollNothing
  <2>1. pc' = "writing" /\ todo' \subseteq Devices /\ diverting' = {} /\ attempt' = 1
    BY <1>5, EnterFlushTypes DEF PollNothing, PollTypes
  <2>2. buffer # <<>> /\ UNCHANGED <<broker, stored, origin, position, buffer, breaker, closing, crashes>>
    BY <1>5 DEF PollNothing
  <2> QED BY <1>0, <2>1, <2>2
          DEF broker, BrokerTypes, PollTypes, FlushTypes, FlushShape, Buffered
<1>6. ASSUME NEW d \in Devices, Write(d) PROVE TypeInv'
  <2>1. UNCHANGED <<committed, dlq, origin, position, buffer, closing, crashes>> /\ Buffered' = Buffered
    BY <1>6 DEF Write, WriteSucceeds, WriteFails, WriteRejected, broker, Buffered
  <2>2. stored' \subseteq Messages /\ breaker' \in Breaker
    BY <1>0, <1>6, BreakerTyping, GroupTypes
       DEF Write, WriteSucceeds, WriteFails, WriteRejected, BrokerTypes
  <2>3. pc = "writing" /\ d \in todo /\ GroupOf(d) # {} /\ buffer # <<>>
    BY <1>6, CurrentGroup DEF Write, WriteSucceeds, WriteFails, WriteRejected
  <2>4. /\ pc' \in {"writing", "diverting", "committing"} /\ todo' \subseteq Devices
        /\ attempt' \in 1..MaxRetries
        /\ diverting' \subseteq Messages /\ diverting' \subseteq Buffered
        /\ pc' = "diverting" <=> diverting' # {}
    <3>1. CASE WriteSucceeds(d)
      BY <1>0, <2>3, <3>1 DEF WriteSucceeds, AfterGroup, FlushTypes
    <3>2. CASE WriteRejected(d)
      BY <1>0, <2>3, <3>2, GroupTypes DEF WriteRejected, Divert, FlushTypes
    <3>3. CASE WriteFails(d) /\ attempt < MaxRetries
      BY <1>0, <2>3, <3>3 DEF WriteFails, FlushTypes, FlushShape
    <3>4. CASE WriteFails(d) /\ ~(attempt < MaxRetries)
      BY <1>0, <2>3, <3>4, GroupTypes DEF WriteFails, Divert, FlushTypes
    <3> QED BY <1>6, <3>1, <3>2, <3>3, <3>4 DEF Write
  <2> QED BY <2>1, <2>2, <2>3, <2>4 DEF BrokerTypes, PollTypes, FlushTypes, FlushShape
<1>7. ASSUME NEW m \in diverting, SendToDlq(m) PROVE TypeInv'
  <2>1. m \in Messages /\ pc = "diverting" /\ buffer # <<>>
    BY <1>7 DEF SendToDlq, FlushTypes, FlushShape
  <2>2. dlq' \subseteq Messages
    BY <1>7, <2>1, ProducedTypes DEF SendToDlq, BrokerTypes
  <2>3. UNCHANGED <<committed, stored, origin, position, buffer, breaker, closing, crashes>>
        /\ Buffered' = Buffered
    BY <1>7 DEF SendToDlq, Buffered
  <2>4. /\ pc' \in {"writing", "diverting", "committing"} /\ todo' \subseteq Devices
        /\ attempt' \in 1..MaxRetries /\ diverting' \subseteq diverting
        /\ pc' = "diverting" <=> diverting' # {}
    <3>1. CASE diverting = {m}
      BY <1>0, <1>7, <3>1 DEF SendToDlq, AfterGroup, FlushTypes
    <3>2. CASE diverting # {m}
      BY <1>7, <2>1, <3>2 DEF SendToDlq, FlushTypes
    <3> QED BY <3>1, <3>2
  <2> QED BY <2>1, <2>2, <2>3, <2>4 DEF BrokerTypes, PollTypes, FlushTypes, FlushShape
<1>8. CASE CommitBatch
  <2>1. LastBuffered \in Messages
    BY <1>0, <1>8, BufferedTyping DEF CommitBatch, PollTypes, FlushShape
  <2>2. BrokerTypes'
    BY <1>8, <2>1, CommitTypes DEF CommitBatch, BrokerTypes
  <2>3. CASE closing
    <3>1. Exit
      BY <1>8, <2>3 DEF CommitBatch
    <3>2. PollTypes' /\ FlushShape'
      BY <3>1, LogTyping DEF Exit, PollTypes, FlushShape
    <3>3. FlushTypes'
      BY <1>0, <1>8, <3>1, NewBreakerTyping DEF CommitBatch, Exit, FlushTypes
    <3> QED BY <2>2, <3>2, <3>3
  <2>4. CASE ~closing
    <3>1. /\ pc' = "polling" /\ buffer' = <<>>
          /\ UNCHANGED <<origin, position, todo, attempt, diverting, closing, crashes>>
          /\ breaker' \in Breaker
      BY <1>0, <1>8, <2>4, BreakerTyping DEF CommitBatch, flush
    <3>2. diverting = {}
      BY <1>8 DEF CommitBatch, FlushShape
    <3> QED BY <2>2, <3>1, <3>2 DEF PollTypes, FlushTypes, FlushShape
  <2> QED BY <2>3, <2>4
<1>9. CASE Interrupt
  <2>1. crashes' \in 0..MaxCrashes /\ UNCHANGED <<broker, stored>>
    BY <1>0, <1>9 DEF Interrupt, FlushTypes
  <2>2. CASE buffer = <<>>
    BY <1>9, <2>1, <2>2, ExitTypes DEF Interrupt
  <2>3. CASE buffer # <<>>
    <3>1. /\ EnterFlush(buffer) /\ closing' = TRUE
          /\ UNCHANGED <<origin, position, buffer, breaker>> /\ Buffered' = Buffered
      BY <1>9, <2>3 DEF Interrupt, Buffered
    <3>2. pc' = "writing" /\ todo' \subseteq Devices /\ diverting' = {} /\ attempt' = 1
      BY <3>1, EnterFlushTypes DEF PollTypes
    <3> QED BY <1>0, <2>1, <2>3, <3>1, <3>2
            DEF broker, BrokerTypes, PollTypes, FlushTypes, FlushShape
  <2> QED BY <2>2, <2>3
<1>10. CASE Kill
  BY <1>0, <1>10, ExitTypes DEF Kill, FlushTypes
<1>11. CASE Tick
  BY <1>0, <1>11, BreakerTyping
     DEF Tick, broker, flush, BrokerTypes, PollTypes, FlushTypes, FlushShape, Buffered
<1>12. CASE PollIdle \/ UNCHANGED vars
  BY <1>12 DEF PollIdle, vars, process, broker, flush,
               BrokerTypes, PollTypes, FlushTypes, FlushShape, Buffered
<1> QED BY <1>1, <1>2, <1>3, <1>4, <1>5, <1>6, <1>7, <1>8, <1>9, <1>10, <1>11, <1>12
        DEF Next, Write

\* Every step keeps the types, for every topic, bound and environment: offsets stay
\* within their partition, and what is buffered, stored or diverted is a record of
\* the topic.
THEOREM IngestTypeCorrect == Spec => []TypeOK
<1>1. TypeInv => TypeOK
  BY TypesSplit DEF TypeInv
<1>2. Spec => []TypeInv
  BY InitTypes, StepTypes, PTL DEF Spec
<1> QED BY <1>1, <1>2, PTL

(***************************************************************************)
(* The size of a batch.  BufferBounded is not inductive: between two polls *)
(* the buffer must have room for the record that fills it up.              *)
(***************************************************************************)
RoomToPoll ==
  /\ Len(buffer) <= BatchSize + 1
  /\ pc = "polling" => Len(buffer) <= BatchSize
  /\ pc = "down" => buffer = <<>>

LEMMA ExitKeepsRoom ==
  ASSUME Exit
  PROVE  RoomToPoll'
<1>1. BatchSize \in Nat /\ pc' = "down" /\ buffer' = <<>>
  BY IngestAssumption DEF Exit
<1> QED
  BY <1>1 DEF RoomToPoll

LEMMA StepKeepsRoom == TypeInv /\ RoomToPoll /\ [Next]_vars => RoomToPoll'
<1> SUFFICES ASSUME TypeInv, RoomToPoll, [Next]_vars
             PROVE  RoomToPoll'
  OBVIOUS
<1>0. BatchSize \in Nat /\ buffer \in Seq(Messages) /\ Len(buffer) \in Nat
  BY IngestAssumption DEF TypeInv, PollTypes
<1>1. CASE Start
  BY <1>0, <1>1 DEF Start, RoomToPoll
<1>2. ASSUME NEW p \in Partitions, TakeRecord(p)
      PROVE  RoomToPoll'
  <2>1. pc = "polling" /\ buffer' = Append(buffer, NextOf(p))
    BY <1>2 DEF TakeRecord, HasNext
  <2>2. Len(buffer') = Len(buffer) + 1
    BY <1>0, <2>1
  <2>3. pc' = "writing" \/ (pc' = "polling" /\ ~BatchFull)
    BY <1>2 DEF TakeRecord, FlushDue, EnterFlush, StayPolling
  <2> QED
    BY <1>0, <2>1, <2>2, <2>3 DEF RoomToPoll, BatchFull
<1>3. ASSUME NEW p \in Partitions, TakeInvalid(p)
      PROVE  RoomToPoll'
  <2>1. pc = "polling" /\ buffer' = buffer /\ pc' \in {"polling", "writing"}
    BY <1>3 DEF TakeInvalid, HasNext, EnterFlush, StayPolling
  <2> QED
    BY <2>1 DEF RoomToPoll
<1>4. ASSUME NEW p \in Partitions, TakePoison(p)
      PROVE  RoomToPoll'
  BY <1>4, ExitKeepsRoom DEF TakePoison
<1>5. CASE PollNothing
  BY <1>5 DEF PollNothing, EnterFlush, RoomToPoll
<1>6. ASSUME NEW d \in Devices, WriteSucceeds(d) \/ WriteFails(d) \/ WriteRejected(d)
      PROVE  RoomToPoll'
  <2>1. pc = "writing" /\ buffer' = buffer /\ pc' \in {"writing", "diverting", "committing"}
    BY <1>6 DEF WriteSucceeds, WriteFails, WriteRejected, Current, AfterGroup, Divert
  <2> QED
    BY <2>1 DEF RoomToPoll
<1>7. ASSUME NEW m \in diverting, SendToDlq(m)
      PROVE  RoomToPoll'
  <2>1. buffer' = buffer /\ pc' \in {"writing", "diverting", "committing"}
    BY <1>7 DEF SendToDlq, AfterGroup
  <2> QED
    BY <2>1 DEF RoomToPoll
<1>8. CASE CommitBatch
  <2>1. Exit \/ (pc' = "polling" /\ buffer' = <<>>)
    BY <1>8 DEF CommitBatch
  <2> QED
    BY <1>0, <2>1, ExitKeepsRoom DEF RoomToPoll
<1>9. CASE Interrupt
  <2>1. Exit \/ (pc' = "writing" /\ buffer' = buffer)
    BY <1>9 DEF Interrupt, EnterFlush
  <2> QED
    BY <2>1, ExitKeepsRoom DEF RoomToPoll
<1>10. CASE Kill
  BY <1>10, ExitKeepsRoom DEF Kill
<1>11. CASE PollIdle \/ Tick \/ UNCHANGED vars
  <2>1. pc' = pc /\ buffer' = buffer
    BY <1>11 DEF PollIdle, Tick, vars, process
  <2> QED
    BY <2>1 DEF RoomToPoll
<1> QED
  BY <1>1, <1>2, <1>3, <1>4, <1>5, <1>6, <1>7, <1>8, <1>9, <1>10, <1>11 DEF Next

\* However retries, interrupts and malformed records fall, a flush never has more than
\* one record over the batch size to write: the loop tests the buffer before it appends
\* (kafka_consumer.py:479).
THEOREM BatchStaysBounded == Spec => []BufferBounded
<1>1. Init => RoomToPoll
  BY IngestAssumption DEF Init, RoomToPoll
<1>2. RoomToPoll => BufferBounded
  BY DEF RoomToPoll, BufferBounded
<1>3. Spec => []TypeInv
  BY InitTypes, StepTypes, PTL DEF Spec
<1> QED
  BY <1>1, <1>2, <1>3, StepKeepsRoom, PTL DEF Spec

(***************************************************************************)
(* Durability                                                              *)
(*                                                                         *)
(* CommittedIsDurable is not inductive: a commit moves over every record   *)
(* of its partition up to the committed one, so the invariant has to say   *)
(* that each of those was settled when the process started                 *)
(* (OriginDurable) or is dealt with or buffered (Accounted), that a        *)
(* committed batch is dealt with (FlushProgress), and that the committed   *)
(* record is one this process polled (BufferRange).  A commit may move an  *)
(* offset back, behind a malformed record, but never behind the origin.    *)
(***************************************************************************)

\* A malformed record of p lies behind its i-th record, at n at the latest.
Passed(p, i, n) == \E j \in (i + 1)..n : Kind(<<p, j>>) = "invalid"

OriginDurable ==
  \A p \in Partitions : \A i \in 1..origin[p] : <<p, i>> \in Handled \/ Passed(p, i, origin[p])

Accounted ==
  \A p \in Partitions : \A i \in (origin[p] + 1)..position[p] : <<p, i>> \in Handled \cup Buffered

BufferRange ==
  /\ \A m \in Buffered : origin[m[1]] < m[2] /\ m[2] <= position[m[1]]
  /\ \A m \in Buffered : m[1] \in Unspoilt => committed[m[1]] < m[2]
  /\ pc # "down" => \A p \in Partitions : origin[p] <= committed[p] /\ committed[p] <= position[p]
  /\ pc = "down" => buffer = <<>>

FlushProgress ==
  /\ pc \in {"writing", "diverting", "committing"} =>
       \A m \in Buffered : DeviceOf(m) \in todo \/ m \in Handled
  /\ pc = "committing" => todo = {}
  /\ pc = "diverting" =>
       \A m \in diverting :
         /\ DeviceOf(m) \in todo
         /\ \A n \in GroupOf(DeviceOf(m)) : n \in diverting \/ n \in Handled

DurableInv == CommittedIsDurable /\ OriginDurable /\ Accounted /\ BufferRange /\ FlushProgress

LEMMA InitDurable == Init => DurableInv
  BY DEF Init, DurableInv, CommittedIsDurable, OriginDurable, Accounted, BufferRange,
         FlushProgress, Buffered

\* The exception of CommittedIsDurable, without the set.
LEMMA DurableUnfolds ==
  ASSUME BrokerTypes, CommittedIsDurable, NEW p \in Partitions, NEW i \in 1..committed[p]
  PROVE  <<p, i>> \in Handled \/ Passed(p, i, committed[p])
  BY DEF CommittedIsDurable, Overtaken, Passed

LEMMA DurableFolds ==
  ASSUME BrokerTypes',
         \A p \in Partitions : \A i \in 1..committed'[p] :
           <<p, i>> \in Handled' \/ Passed(p, i, committed'[p])
  PROVE  CommittedIsDurable'
<1> SUFFICES ASSUME NEW p \in Partitions, NEW i \in 1..committed'[p], Passed(p, i, committed'[p])
             PROVE  <<p, i>> \in Overtaken'
  BY DEF CommittedIsDurable
<1>1. i \in 1..Len(Log[p])
  BY LogTyping DEF BrokerTypes
<1>2. <<p, i>> \in Messages
  BY <1>1, MessageIntro
<1> QED BY <1>2 DEF Overtaken, Passed

\* A commit of a polled record up to which everything this process polled is dealt with
\* or overtaken.
LEMMA CommitIsSafe ==
  ASSUME TypeInv, DurableInv, BrokerTypes', pc # "down", NEW m \in Messages, CommitUpTo(m),
         Handled \subseteq Handled', origin[m[1]] < m[2],
         \A i \in (origin[m[1]] + 1)..m[2] : <<m[1], i>> \in Handled' \/ Passed(m[1], i, m[2])
  PROVE  CommittedIsDurable' /\ \A p \in Partitions : origin[p] <= committed'[p]
<1>1. m[1] \in Partitions /\ m[2] \in Nat
  BY MessageElim, LogTyping
<1>2. /\ committed \in [Partitions -> Nat] /\ origin \in [Partitions -> Nat]
      /\ \A p \in Partitions : origin[p] <= committed[p]
  BY DEF TypeInv, BrokerTypes, PollTypes, DurableInv, BufferRange
<1>3. \A p \in Partitions : origin[p] <= committed'[p]
  BY <1>1, <1>2 DEF CommitUpTo
<1>4. ASSUME NEW p \in Partitions, NEW i \in 1..committed'[p]
      PROVE  <<p, i>> \in Handled' \/ Passed(p, i, committed'[p])
  <2>1. CASE committed'[p] = committed[p]
    BY <1>4, <2>1, DurableUnfolds DEF TypeInv, DurableInv
  <2>2. CASE committed'[p] # committed[p]
    <3>1. p = m[1] /\ committed'[p] = m[2]
      BY <1>1, <1>2, <2>2 DEF CommitUpTo
    <3>2. CASE i \in 1..origin[p]
      <4>1. <<p, i>> \in Handled \/ Passed(p, i, origin[p])
        BY <3>2 DEF DurableInv, OriginDurable
      <4> QED BY <1>1, <1>2, <3>1, <4>1 DEF Passed
    <3>3. CASE i \notin 1..origin[p]
      BY <1>1, <1>2, <1>4, <3>1, <3>3
    <3> QED BY <3>2, <3>3
  <2> QED BY <2>1, <2>2
<1> QED BY <1>3, <1>4, DurableFolds

LEMMA ExitDurable ==
  ASSUME TypeInv, Exit, CommittedIsDurable'
  PROVE  DurableInv'
  BY DEF Exit, DurableInv, OriginDurable, Accounted, BufferRange, FlushProgress, Buffered

\* A step that moves neither the offsets nor the buffer and forgets nothing
\* disturbs only the progress of the flush.
LEMMA QuietStepDurable ==
  ASSUME TypeInv, DurableInv, UNCHANGED <<committed, origin, position, buffer>>,
         Handled \subseteq Handled', pc # "down", pc' # "down", FlushProgress'
  PROVE  DurableInv'
<1>1. Buffered' = Buffered /\ Overtaken' = Overtaken
  BY DEF Buffered, Overtaken
<1>2. CommittedIsDurable'
  BY <1>1 DEF DurableInv, CommittedIsDurable
<1>3. OriginDurable' /\ Accounted' /\ BufferRange'
  BY <1>1 DEF DurableInv, OriginDurable, Accounted, BufferRange
<1> QED BY <1>2, <1>3 DEF DurableInv

LEMMA EnterFlushProgress ==
  ASSUME buffer \in Seq(Messages), EnterFlush(buffer), UNCHANGED buffer
  PROVE  FlushProgress'
<1>1. \A m \in Buffered' : DeviceOf(m) \in todo'
  BY DEF EnterFlush, Buffered
<1> QED BY <1>1 DEF EnterFlush, FlushProgress

\* What a step does to the abstract restart points when it commits nothing, or only a
\* partition that has a malformed record.
LEMMA MarksStay ==
  ASSUME Handled \subseteq Handled', \A p \in Unspoilt : committed'[p] = committed[p]
  PROVE  Contract!Next
<1>1. [p \in Unspoilt |-> committed[p]]' = [p \in Unspoilt |-> committed[p]]
  BY DEF Unspoilt, Kind
<1> QED BY <1>1 DEF Contract!Next, Contract!Deal

LEMMA TakeInvalidDurable ==
  ASSUME DlqReliable, TypeInv, TypeInv', DurableInv, NEW p \in Partitions, TakeInvalid(p)
  PROVE  DurableInv' /\ Contract!Next
<1> DEFINE n == NextOf(p)
<1>1. /\ n \in Messages /\ n = <<p, position[p] + 1>> /\ n[1] = p /\ n[2] = position[p] + 1
      /\ pc = "polling" /\ Kind(n) = "invalid"
  BY NextOfMessage DEF TakeInvalid, NextOf
<1>2. dlq' = dlq \cup {n} /\ UNCHANGED <<stored, origin, buffer>> /\ CommitUpTo(n)
      /\ position' = [position EXCEPT ![p] = @ + 1]
  BY <1>1, ProducedTypes DEF TakeInvalid
<1>3. Handled' = Handled \cup {n} /\ Buffered' = Buffered
  BY <1>2 DEF Handled, Buffered
<1>4. /\ committed \in [Partitions -> Nat] /\ position \in [Partitions -> Nat]
      /\ origin \in [Partitions -> Nat] /\ origin[p] <= position[p]
      /\ Buffered \subseteq Messages /\ buffer \in Seq(Messages)
  BY <1>1, BufferedTyping DEF TypeInv, BrokerTypes, PollTypes, DurableInv, BufferRange
<1>5. \A i \in (origin[p] + 1)..(position[p] + 1) : <<p, i>> \in Handled' \/ Passed(p, i, position[p] + 1)
  <2> SUFFICES ASSUME NEW i \in (origin[p] + 1)..(position[p] + 1)
               PROVE  <<p, i>> \in Handled' \/ Passed(p, i, position[p] + 1)
    OBVIOUS
  <2>1. CASE i = position[p] + 1
    BY <1>1, <1>3, <2>1
  <2>2. CASE i # position[p] + 1
    <3>1. position[p] + 1 \in (i + 1)..(position[p] + 1)
      BY <1>4, <2>2
    <3> QED BY <1>1, <3>1 DEF Passed
  <2> QED BY <2>1, <2>2
<1>6. CommittedIsDurable' /\ \A q \in Partitions : origin[q] <= committed'[q]
  <2>1. \A i \in (origin[n[1]] + 1)..n[2] : <<n[1], i>> \in Handled' \/ Passed(n[1], i, n[2])
    BY <1>1, <1>5
  <2>2. origin[n[1]] < n[2] /\ pc # "down" /\ Handled \subseteq Handled' /\ BrokerTypes'
    BY <1>1, <1>3, <1>4 DEF TypeInv
  <2> QED BY <1>1, <1>2, <2>1, <2>2, CommitIsSafe
<1>7. OriginDurable'
  BY <1>2, <1>3 DEF DurableInv, OriginDurable
<1>8. Accounted'
  <2> SUFFICES ASSUME NEW q \in Partitions, NEW i \in (origin[q] + 1)..position'[q]
               PROVE  <<q, i>> \in Handled' \cup Buffered
    BY <1>2, <1>3 DEF Accounted
  <2>1. i \in (origin[q] + 1)..position[q] \/ (q = p /\ i = position[p] + 1)
    BY <1>2, <1>4
  <2> QED BY <1>1, <1>3, <2>1 DEF DurableInv, Accounted
<1>9. p \notin Unspoilt
  <2>1. position[p] + 1 \in 1..Len(Log[p])
    BY <1>1, MessageElim
  <2> QED BY <1>1, <2>1 DEF Unspoilt
<1>10. \A q \in Partitions : q # p => committed'[q] = committed[q]
  BY <1>1, <1>2, <1>4 DEF CommitUpTo
<1>11. \A q \in Partitions : committed'[q] <= position'[q] /\ position[q] <= position'[q]
  BY <1>1, <1>2, <1>4 DEF CommitUpTo, DurableInv, BufferRange
<1>12. pc' \in {"polling", "writing"}
  BY DEF TakeInvalid, EnterFlush, StayPolling
<1>13. BufferRange'
  <2>1. ASSUME NEW m \in Buffered
        PROVE  /\ origin[m[1]] < m[2] /\ m[2] <= position'[m[1]]
               /\ m[1] \in Unspoilt => committed'[m[1]] < m[2]
    <3>1. m[1] \in Partitions /\ m[2] \in Nat
      BY <1>4, MessageElim, LogTyping
    <3>2. m[2] <= position[m[1]] /\ position[m[1]] <= position'[m[1]]
      BY <1>11, <3>1 DEF DurableInv, BufferRange
    <3>3. position[m[1]] \in Nat /\ position'[m[1]] \in Nat
      BY <1>2, <1>4, <3>1
    <3> QED BY <1>9, <1>10, <3>1, <3>2, <3>3 DEF DurableInv, BufferRange
  <2>2. Unspoilt' = Unspoilt
    BY DEF Unspoilt, Kind
  <2> QED BY <1>2, <1>3, <1>6, <1>11, <1>12, <2>1, <2>2 DEF BufferRange
<1>14. FlushProgress'
  <2>1. CASE pc' = "polling"
    BY <2>1 DEF FlushProgress
  <2>2. CASE pc' # "polling"
    <3>1. EnterFlush(buffer)
      BY <2>2 DEF TakeInvalid, StayPolling
    <3> QED BY <1>2, <1>4, <3>1, EnterFlushProgress
  <2> QED BY <2>1, <2>2
<1>15. Contract!Next
  BY <1>3, <1>9, <1>10, MarksStay DEF Unspoilt
<1> QED BY <1>6, <1>7, <1>8, <1>13, <1>14, <1>15 DEF DurableInv

LEMMA StepDurable ==
  ASSUME DlqReliable
  PROVE  TypeInv /\ DurableInv /\ [Next]_vars =>
           DurableInv' /\ Contract!Next
<1> SUFFICES ASSUME TypeInv, DurableInv, [Next]_vars, TypeInv'
             PROVE  DurableInv' /\ Contract!Next
  BY StepTypes
<1>0. /\ Buffered \subseteq Messages /\ buffer \in Seq(Messages)
      /\ committed \in [Partitions -> Nat] /\ position \in [Partitions -> Nat]
      /\ origin \in [Partitions -> Nat]
  BY BufferedTyping DEF TypeInv, PollTypes, BrokerTypes
<1>a. ASSUME UNCHANGED committed, Handled \subseteq Handled'
      PROVE  Contract!Next
  BY <1>a, MarksStay
<1>b. ASSUME UNCHANGED <<broker, stored>>
      PROVE  UNCHANGED committed /\ Handled' = Handled /\ CommittedIsDurable'
  BY <1>b DEF broker, Handled, Overtaken, DurableInv, CommittedIsDurable
<1>1. CASE Start
  <2>1. /\ UNCHANGED <<broker, stored>> /\ Handled' = Handled /\ CommittedIsDurable'
        /\ UNCHANGED committed
    BY <1>1, <1>b DEF Start
  <2>2. buffer = <<>> /\ buffer' = <<>> /\ Buffered' = {}
    BY <1>1 DEF Start, DurableInv, BufferRange, Buffered
  <2>3. Accounted' /\ BufferRange'
    BY <1>0, <1>1, <2>1, <2>2 DEF Start, Accounted, BufferRange
  <2>a. OriginDurable'
    BY <1>1, <2>1, DurableUnfolds DEF Start, TypeInv, DurableInv, OriginDurable
  <2>4. FlushProgress'
    BY <1>1 DEF Start, FlushProgress
  <2> QED BY <1>a, <2>1, <2>3, <2>4, <2>a DEF DurableInv
<1>2. ASSUME NEW p \in Partitions, TakeRecord(p)
      PROVE  DurableInv' /\ Contract!Next
  <2>1. /\ NextOf(p) \in Messages /\ NextOf(p) = <<p, position[p] + 1>> /\ pc = "polling"
    BY <1>2, NextOfMessage DEF TakeRecord, NextOf
  <2>2. Buffered' = Buffered \cup {NextOf(p)}
    BY <1>0, <1>2, <2>1, BufferedAppend DEF TakeRecord
  <2>3. UNCHANGED committed /\ Handled' = Handled /\ CommittedIsDurable'
    BY <1>2, <1>b DEF TakeRecord
  <2>4. position' = [position EXCEPT ![p] = @ + 1] /\ origin' = origin
    BY <1>2 DEF TakeRecord
  <2>5. Accounted'
    <3> SUFFICES ASSUME NEW q \in Partitions, NEW i \in (origin[q] + 1)..position'[q]
                 PROVE  <<q, i>> \in Handled \cup Buffered'
      BY <2>3, <2>4 DEF Accounted
    <3>1. i \in (origin[q] + 1)..position[q] \/ (q = p /\ i = position[p] + 1)
      BY <1>0, <2>4
    <3> QED BY <2>1, <2>2, <3>1 DEF DurableInv, Accounted
  <2>6. pc' \in {"polling", "writing"}
    BY <1>2 DEF TakeRecord, EnterFlush, StayPolling
  <2>7. BufferRange'
    <3>1. \A q \in Partitions : /\ position[q] <= position'[q] /\ committed[q] <= position[q]
                                /\ origin[q] <= committed[q]
      BY <1>0, <2>1, <2>4 DEF DurableInv, BufferRange
    <3>2. ASSUME NEW m \in Buffered'
          PROVE  /\ origin[m[1]] < m[2] /\ m[2] <= position'[m[1]]
                 /\ m[1] \in Unspoilt => committed[m[1]] < m[2]
      <4>1. CASE m \in Buffered
        <5>1. m[1] \in Partitions /\ m[2] \in Nat
          BY <1>0, <4>1, MessageElim, LogTyping
        <5> QED BY <1>0, <2>4, <3>1, <4>1, <5>1 DEF DurableInv, BufferRange
      <4>2. CASE m = <<p, position[p] + 1>>
        BY <1>0, <2>4, <3>1, <4>2
      <4> QED BY <2>1, <2>2, <4>1, <4>2
    <3>3. \A q \in Partitions : committed[q] <= position'[q]
      BY <1>0, <2>4, <3>1
    <3>4. Unspoilt' = Unspoilt
      BY DEF Unspoilt, Kind
    <3> QED BY <2>3, <2>4, <2>6, <3>1, <3>2, <3>3, <3>4 DEF BufferRange
  <2>9. OriginDurable'
    BY <2>3, <2>4 DEF DurableInv, OriginDurable
  <2>8. FlushProgress'
    <3>1. CASE pc' = "polling"
      BY <3>1 DEF FlushProgress
    <3>2. CASE pc' # "polling"
      <4>1. EnterFlush(buffer')
        BY <1>2, <3>2 DEF TakeRecord, StayPolling
      <4>2. \A m \in Buffered' : DeviceOf(m) \in todo'
        BY <4>1 DEF EnterFlush, Buffered
      <4> QED BY <4>1, <4>2 DEF EnterFlush, FlushProgress
    <3> QED BY <3>1, <3>2
  <2> QED BY <1>a, <2>3, <2>5, <2>7, <2>8, <2>9 DEF DurableInv
<1>3. ASSUME NEW p \in Partitions, TakeInvalid(p)
      PROVE  DurableInv' /\ Contract!Next
  BY <1>3, TakeInvalidDurable
<1>4. ASSUME NEW p \in Partitions, TakePoison(p)
      PROVE  DurableInv' /\ Contract!Next
  BY <1>4, <1>a, <1>b, ExitDurable DEF TakePoison
<1>5. CASE PollNothing
  <2>1. UNCHANGED committed /\ Handled' = Handled
    BY <1>5, <1>b DEF PollNothing
  <2>2. FlushProgress' /\ pc # "down" /\ pc' # "down" /\ UNCHANGED <<origin, position, buffer>>
    BY <1>0, <1>5, EnterFlushProgress DEF PollNothing, EnterFlush
  <2> QED BY <1>a, <2>1, <2>2, QuietStepDurable
<1>6. ASSUME NEW d \in Devices, Write(d)
      PROVE  DurableInv' /\ Contract!Next
  <2>1. UNCHANGED <<committed, dlq, origin, position, buffer>> /\ Buffered' = Buffered
    BY <1>6 DEF Write, WriteSucceeds, WriteFails, WriteRejected, broker, Buffered
  <2>2. stored \subseteq stored' /\ Handled \subseteq Handled'
    BY <1>6, <2>1 DEF Write, WriteSucceeds, WriteFails, WriteRejected, Handled
  <2>3. pc = "writing" /\ d \in todo
    BY <1>6, CurrentGroup DEF Write, WriteSucceeds, WriteFails, WriteRejected
  <2>4. \A m \in Buffered : DeviceOf(m) \in todo \/ m \in Handled'
    BY <2>2, <2>3 DEF DurableInv, FlushProgress
  <2>5. \A e : GroupOf(e)' = GroupOf(e)
    BY <2>1 DEF GroupOf
  <2>6. pc' # "down" /\ FlushProgress'
    <3>1. CASE WriteSucceeds(d)
      <4>1. GroupOf(d) \subseteq Handled'
        BY <3>1 DEF WriteSucceeds, Handled
      <4>2. \A m \in Buffered : DeviceOf(m) \in todo \ {d} \/ m \in Handled'
        BY <2>4, <4>1 DEF GroupOf
      <4>3. todo' = todo \ {d} /\ pc' = IF todo' = {} THEN "committing" ELSE "writing"
        BY <3>1 DEF WriteSucceeds, AfterGroup
      <4> QED BY <2>1, <4>2, <4>3 DEF FlushProgress
    <3>2. CASE (WriteFails(d) \/ WriteRejected(d)) /\ Divert(d)
      <4>1. pc' = "diverting" /\ diverting' = GroupOf(d) /\ todo' = todo
        BY <3>2 DEF Divert
      <4>2. \A m \in diverting' : DeviceOf(m) = d
        BY <4>1 DEF GroupOf
      <4> QED BY <2>1, <2>3, <2>4, <2>5, <4>1, <4>2 DEF FlushProgress
    <3>3. CASE WriteFails(d) /\ ~Divert(d)
      <4>1. UNCHANGED <<pc, todo>>
        BY <3>3 DEF WriteFails
      <4> QED BY <2>1, <2>3, <2>4, <4>1 DEF FlushProgress
    <3> QED BY <1>6, <3>1, <3>2, <3>3 DEF Write, WriteRejected
  <2> QED BY <1>a, <2>1, <2>2, <2>3, <2>6, QuietStepDurable
<1>7. ASSUME NEW m \in diverting, SendToDlq(m)
      PROVE  DurableInv' /\ Contract!Next
  <2>0. m \in Messages
    BY DEF TypeInv, FlushTypes
  <2>1. UNCHANGED <<committed, stored, origin, position, buffer>> /\ Buffered' = Buffered
        /\ pc = "diverting"
    BY <1>7 DEF SendToDlq, Buffered
  <2>2. dlq' = dlq \cup {m}
    BY <1>7, <2>0, ProducedTypes DEF SendToDlq
  <2>3. Handled' = Handled \cup {m}
    BY <2>1, <2>2 DEF Handled
  <2>4. \A e : GroupOf(e)' = GroupOf(e)
    BY <2>1 DEF GroupOf
  <2>5. /\ \A n \in Buffered : DeviceOf(n) \in todo \/ n \in Handled'
        /\ \A k \in diverting :
             /\ DeviceOf(k) \in todo
             /\ \A n \in GroupOf(DeviceOf(k)) : n \in diverting \ {m} \/ n \in Handled'
    BY <2>1, <2>3 DEF DurableInv, FlushProgress
  <2>6. pc' # "down" /\ FlushProgress'
    <3>1. CASE diverting = {m}
      <4>1. GroupOf(DeviceOf(m)) \subseteq Handled'
        BY <2>5, <3>1
      <4>2. \A n \in Buffered : DeviceOf(n) \in todo \ {DeviceOf(m)} \/ n \in Handled'
        BY <2>5, <4>1 DEF GroupOf
      <4>3. todo' = todo \ {DeviceOf(m)}
            /\ pc' = IF todo' = {} THEN "committing" ELSE "writing"
        BY <1>7, <3>1 DEF SendToDlq, AfterGroup
      <4> QED BY <2>1, <4>2, <4>3 DEF FlushProgress
    <3>2. CASE diverting # {m}
      <4>1. diverting' = diverting \ {m} /\ UNCHANGED <<pc, todo>>
        BY <1>7, <3>2 DEF SendToDlq
      <4> QED BY <2>1, <2>4, <2>5, <4>1 DEF FlushProgress
    <3> QED BY <3>1, <3>2
  <2> QED BY <1>a, <2>1, <2>3, <2>6, QuietStepDurable
<1>8. CASE CommitBatch
  <2> DEFINE m == LastBuffered
  <2>1. /\ pc = "committing" /\ CommitUpTo(m) /\ UNCHANGED <<dlq, stored>>
    BY <1>8 DEF CommitBatch
  <2>2. m \in Buffered /\ m \in Messages /\ m[1] \in Partitions /\ m[2] \in Nat
    BY <1>0, <2>1, BufferedTyping, MessageElim, LogTyping DEF TypeInv, FlushShape
  <2>3. Handled' = Handled /\ Buffered \subseteq Handled
    BY <2>1 DEF Handled, DurableInv, FlushProgress
  <2>4. origin[m[1]] < m[2] /\ m[2] <= position[m[1]]
    BY <2>2 DEF DurableInv, BufferRange
  <2>5. \A i \in (origin[m[1]] + 1)..m[2] : <<m[1], i>> \in Handled
    BY <1>0, <2>2, <2>3, <2>4 DEF DurableInv, Accounted
  <2>6. CommittedIsDurable' /\ \A p \in Partitions : origin[p] <= committed'[p]
    BY <2>1, <2>2, <2>3, <2>4, <2>5, CommitIsSafe DEF TypeInv
  <2>7. Contract!Next
    <3>1. CASE m[1] \notin Unspoilt \/ UNCHANGED committed
      <4>1. \A p \in Unspoilt : committed'[p] = committed[p]
        BY <1>0, <2>1, <2>2, <3>1 DEF CommitUpTo, Unspoilt
      <4> QED BY <2>3, <4>1, MarksStay
    <3>2. CASE m[1] \in Unspoilt /\ ~UNCHANGED committed
      <4> DEFINE mark == [p \in Unspoilt |-> committed[p]]
      <4>1. committed' = [committed EXCEPT ![m[1]] = m[2]] /\ committed[m[1]] < m[2]
        BY <2>1, <2>2, <3>2 DEF CommitUpTo, DurableInv, BufferRange
      <4>2. committed'[m[1]] = m[2] /\ \A p \in Partitions : p # m[1] => committed'[p] = committed[p]
        BY <1>0, <2>2, <4>1
      <4>3. mark' = [p \in Unspoilt |-> committed'[p]]
        BY DEF Unspoilt, Kind
      <4>4. mark' = [mark EXCEPT ![m[1]] = mark'[m[1]]] /\ mark'[m[1]] = m[2] /\ mark[m[1]] = committed[m[1]]
        BY <2>2, <3>2, <4>2, <4>3 DEF Unspoilt
      <4>5. ~Passed(m[1], 0, m[2])
        <5>1. m[2] <= Len(Log[m[1]])
          BY <2>2, MessageElim
        <5>2. \A j \in 1..Len(Log[m[1]]) : Kind(<<m[1], j>>) # "invalid"
          BY <3>2 DEF Unspoilt
        <5>3. \A j \in (0 + 1)..m[2] : j \in 1..Len(Log[m[1]])
          BY <2>2, <5>1, LogTyping
        <5> QED BY <5>2, <5>3 DEF Passed
      <4>6. ASSUME NEW i \in 1..m[2] PROVE <<m[1], i>> \in Handled
        <5>1. CASE i \in 1..origin[m[1]]
          <6>1. <<m[1], i>> \in Handled \/ Passed(m[1], i, origin[m[1]])
            BY <2>2, <5>1 DEF DurableInv, OriginDurable
          <6>2. Passed(m[1], i, origin[m[1]]) => Passed(m[1], 0, m[2])
            <7>1. origin[m[1]] \in Nat /\ i \in Nat
              BY <1>0, <2>2
            <7>2. \A j \in (i + 1)..origin[m[1]] : j \in (0 + 1)..m[2]
              BY <2>2, <2>4, <7>1
            <7> QED BY <7>2 DEF Passed
          <6> QED BY <4>5, <6>1, <6>2
        <5>2. CASE i \notin 1..origin[m[1]]
          BY <1>0, <2>2, <2>5, <4>6, <5>2
        <5> QED BY <5>1, <5>2
      <4>7. PICK p \in Unspoilt : p = m[1]
        BY <3>2
      <4>8. mark'[p] \in Nat /\ mark'[p] > mark[p] /\ mark' = [mark EXCEPT ![p] = mark'[p]]
        BY <1>0, <2>2, <4>1, <4>4, <4>7
      <4>9. \A i \in 1..mark'[p] : <<p, i>> \in Handled
        BY <4>4, <4>6, <4>7
      <4>10. Contract!Advance(p)
        BY ONLY <2>3, <4>8, <4>9 DEF Contract!Advance
      <4> QED BY <4>10 DEF Contract!Next
    <3> QED BY <3>1, <3>2
  <2>8. CASE closing
    BY <1>8, <2>6, <2>7, <2>8, ExitDurable DEF CommitBatch
  <2>9. CASE ~closing
    <3>1. pc' = "polling" /\ buffer' = <<>> /\ UNCHANGED <<origin, position>>
      BY <1>8, <2>9 DEF CommitBatch
    <3>2. Buffered' = {}
      BY <3>1 DEF Buffered
    <3>3. Accounted' /\ OriginDurable'
      BY <2>3, <3>1, <3>2 DEF DurableInv, Accounted, OriginDurable
    <3>4. \A p \in Partitions : committed'[p] <= position[p]
      BY <1>0, <2>1, <2>2, <2>4 DEF CommitUpTo, DurableInv, BufferRange
    <3>5. BufferRange' /\ FlushProgress'
      BY <2>6, <3>1, <3>2, <3>4 DEF BufferRange, FlushProgress
    <3> QED BY <2>6, <2>7, <3>3, <3>5 DEF DurableInv
  <2> QED BY <2>8, <2>9
<1>9. CASE Interrupt
  <2>1. UNCHANGED committed /\ Handled' = Handled /\ CommittedIsDurable'
    BY <1>9, <1>b DEF Interrupt
  <2>2. CASE buffer = <<>>
    BY <1>9, <1>a, <2>1, <2>2, ExitDurable DEF Interrupt
  <2>3. CASE buffer # <<>>
    <3>1. FlushProgress' /\ pc # "down" /\ pc' # "down" /\ UNCHANGED <<origin, position, buffer>>
      BY <1>0, <1>9, <2>3, EnterFlushProgress DEF Interrupt, EnterFlush
    <3> QED BY <1>a, <2>1, <3>1, QuietStepDurable
  <2> QED BY <2>2, <2>3
<1>10. CASE Kill
  BY <1>10, <1>a, <1>b, ExitDurable DEF Kill
<1>11. CASE Tick \/ PollIdle \/ UNCHANGED vars
  <2>1. UNCHANGED <<committed, dlq, stored, pc, origin, position, buffer, todo, diverting>>
    BY <1>11 DEF Tick, PollIdle, vars, process, broker, flush
  <2>2. Handled' = Handled /\ Buffered' = Buffered /\ Overtaken' = Overtaken
        /\ Unspoilt' = Unspoilt
    BY <2>1 DEF Handled, Buffered, Overtaken, Unspoilt, Kind
  <2>3. \A e : GroupOf(e)' = GroupOf(e)
    BY <2>2 DEF GroupOf
  <2>4. CommittedIsDurable' /\ OriginDurable' /\ Accounted'
    BY <2>1, <2>2 DEF DurableInv, CommittedIsDurable, OriginDurable, Accounted
  <2>5. BufferRange' /\ FlushProgress'
    BY <2>1, <2>2, <2>3 DEF DurableInv, BufferRange, FlushProgress
  <2> QED BY <1>a, <2>1, <2>2, <2>4, <2>5 DEF DurableInv
<1> QED BY <1>1, <1>2, <1>3, <1>4, <1>5, <1>6, <1>7, <1>8, <1>9, <1>10, <1>11
        DEF Next, Write

\* A record behind the committed offset is in IoTDB or in the dead letter queue, at
\* every step, after every kill and every poison record, if the dead letter queue can
\* be relied on; unless a malformed record of its partition was committed behind it.
THEOREM CommitsAreDurable == ASSUME DlqReliable PROVE Spec => []CommittedIsDurable
<1>1. DurableInv => CommittedIsDurable
  BY DEF DurableInv
<1> QED BY <1>1, InitTypes, StepTypes, InitDurable, StepDurable, PTL DEF Spec

\* While the process runs, every record it has polled is buffered or dealt with, also
\* when malformed records are committed ahead of it.
THEOREM PolledIsAlwaysAccounted == ASSUME DlqReliable PROVE Spec => []PolledIsAccounted
<1>1. DurableInv => PolledIsAccounted
  BY DEF DurableInv, Accounted, PolledIsAccounted
<1> QED BY <1>1, InitTypes, StepTypes, InitDurable, StepDurable, PTL DEF Spec

\* On the partitions without malformed records the consumer implements at-least-once
\* consumption, whatever the others hold.
THEOREM UnspoiltIsAtLeastOnce == ASSUME DlqReliable PROVE Spec => ImplementsAtLeastOnce
<1>1. Init => Contract!Init
  BY DEF Init, Contract!Init, Handled, Unspoilt
<1> QED BY <1>1, InitTypes, StepTypes, InitDurable, StepDurable, PTL
        DEF Spec, ImplementsAtLeastOnce, Contract!Spec
===============================================================================
