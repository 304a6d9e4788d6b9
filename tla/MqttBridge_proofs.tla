--------------------------- MODULE MqttBridge_proofs ---------------------------
(***************************************************************************)
(* AutoCommitTrails, OutageIsNoticed and EveryLossIsCounted hold of every  *)
(* behaviour of the bridge, for every topic, batch size, queue limit,      *)
(* window and threshold.                                                   *)
(***************************************************************************)
EXTENDS MqttBridge, TLAPS, SequenceTheorems, FiniteSetTheorems

LEMMA LogTyping ==
  /\ Len(Log) \in Nat
  /\ \A m \in 1..Len(Log) : DeviceOf(m) \in Devices
<1>1. Log \in Seq(Entry)
  BY BridgeAssumption
<1>2. Len(Log) \in Nat
  BY <1>1, LenProperties
<1>3. ASSUME NEW m \in 1..Len(Log)
      PROVE  DeviceOf(m) \in Devices
  <2>1. Log[m] \in Entry
    BY <1>1, <1>3, ElementOfSeq
  <2> QED
    BY <2>1 DEF Entry, DeviceOf
<1> QED
  BY <1>2, <1>3

(***************************************************************************)
(* The offsets: what is committed has been handled, what is handled has    *)
(* been polled, what is polled has been produced; between two batches      *)
(* nothing polled is unhandled.                                            *)
(***************************************************************************)
OffsetsInOrder ==
  /\ produced \in Nat /\ committed \in Nat \cup {NoOffset} /\ committed <= produced
  /\ pc \in {"down", "polling", "publishing"}
  /\ position \in Nat /\ done \in Nat /\ origin \in Nat /\ origin <= done
  /\ pc # "down" => committed <= done /\ position <= produced
  /\ pc = "polling" => done = position
  /\ pc = "publishing" => done < position

\* Whether the record was published, refused or dropped, the loop moves on by one.
LEMMA TallyMovesOn ==
  ASSUME OffsetsInOrder, pc = "publishing", NEW ok, NEW c, Tally(ok, c), UNCHANGED topic
  PROVE  OffsetsInOrder'
<1>1. /\ done' = done + 1 /\ position' = position /\ origin' = origin /\ produced' = produced /\ committed' = committed
      /\ \/ done' = position /\ pc' = "polling"
         \/ done' # position /\ pc' = pc
  BY DEF Tally, topic
<1> QED
  BY <1>1 DEF OffsetsInOrder, NoOffset

LEMMA OffsetsStep ==
  ASSUME OffsetsInOrder, [Next]_vars
  PROVE  OffsetsInOrder'
<1>1. CASE Produce
  BY <1>1 DEF OffsetsInOrder, NoOffset, Produce, loop
<1>2. CASE Start
  BY <1>2 DEF OffsetsInOrder, NoOffset, Start, topic
<1>3. ASSUME NEW n \in 0..BatchSize, Poll(n)
      PROVE  OffsetsInOrder'
  <2>1. n \in Nat
    BY <1>3, BridgeAssumption
  <2> QED
    BY <1>3, <2>1 DEF OffsetsInOrder, NoOffset, Poll
<1>4. CASE Interrupt \/ Kill
  <2>1. /\ pc' = "down" /\ position' = 0 /\ done' = 0 /\ origin' = 0 /\ produced' = produced
        /\ committed' \in {committed, position} /\ pc # "down"
    BY <1>4 DEF Interrupt, Kill, Gone, topic
  <2> QED
    BY <2>1 DEF OffsetsInOrder, NoOffset
<1>5. ASSUME NEW m \in 1..Len(Log),
             Discard(m) \/ ConnectFails(m) \/ ConnectAndPublish(m) \/ Publish(m)
      PROVE  OffsetsInOrder'
  <2>1. pc = "publishing" /\ UNCHANGED topic
    BY <1>5 DEF Discard, ConnectFails, ConnectAndPublish, Publish, Publishing
  <2>2. CASE Discard(m)
    BY <2>1, <2>2, TallyMovesOn DEF Discard
  <2>3. CASE ConnectFails(m)
    BY <2>1, <2>3, TallyMovesOn DEF ConnectFails, Failed
  <2>4. ASSUME NEW state, Hand(m, state)
        PROVE  OffsetsInOrder'
    BY <2>1, <2>4, TallyMovesOn DEF Hand, Failed
  <2> QED
    BY <1>5, <2>2, <2>3, <2>4 DEF ConnectAndPublish, Publish
<1>6. CASE Tick \/ (\E d \in Devices : Deliver(d) \/ Reconnect(d) \/ Drop(d)) \/ UNCHANGED vars
  <2>1. UNCHANGED <<topic, pc, origin, position, done>>
    BY <1>6 DEF Tick, Deliver, Reconnect, Drop, vars, loop, topic
  <2> QED
    BY <2>1 DEF OffsetsInOrder, topic
<1> QED
  BY <1>1, <1>2, <1>3, <1>4, <1>5, <1>6 DEF Next

\* What the loop has been through with joins the handled, and nothing leaves them.
LEMMA TallyCovers ==
  ASSUME OffsetsInOrder, AutoCommitTrails, pc = "publishing", NEW ok, NEW c, Tally(ok, c),
         UNCHANGED topic
  PROVE  AutoCommitTrails'
<1>1. /\ done \in Nat /\ done' = done + 1 /\ committed' = committed
      /\ handled' = handled \cup {done + 1} /\ forgone' = forgone
  BY DEF Tally, topic, OffsetsInOrder
<1>2. ASSUME NEW m \in 1..Len(Log), m <= committed \/ m <= done'
      PROVE  m \in (handled \cup forgone)'
  <2>1. m <= committed \/ m <= done \/ m = done + 1
    BY <1>1, <1>2, LogTyping
  <2> QED
    BY <1>1, <2>1 DEF AutoCommitTrails
<1> QED
  BY <1>1, <1>2 DEF AutoCommitTrails

LEMMA CoverStep ==
  ASSUME OffsetsInOrder, AutoCommitTrails, [Next]_vars
  PROVE  AutoCommitTrails'
<1>1. CASE Start
  <2>1. /\ done' = IF committed = NoOffset THEN produced ELSE committed
        /\ committed' = committed /\ handled' = handled
        /\ forgone' = IF committed = NoOffset THEN forgone \cup 1..produced ELSE forgone
    BY <1>1 DEF Start, topic
  <2>2. /\ produced \in Nat /\ committed \in Nat \cup {NoOffset} /\ NoOffset = -1
    BY DEF OffsetsInOrder, NoOffset
  <2>3. ASSUME NEW m \in 1..Len(Log), m <= committed \/ m <= done'
        PROVE  m \in handled \cup forgone'
    <3>1. CASE committed = NoOffset
      BY <2>1, <2>2, <2>3, <3>1, LogTyping
    <3>2. CASE committed # NoOffset
      BY <2>1, <2>3, <3>2 DEF AutoCommitTrails
    <3> QED
      BY <3>1, <3>2
  <2> QED
    BY <2>1, <2>3 DEF AutoCommitTrails
<1>2. ASSUME NEW n \in 0..BatchSize, Poll(n)
      PROVE  AutoCommitTrails'
  <2>1. UNCHANGED <<done, past>> /\ done = position /\ committed' \in {committed, position}
    BY <1>2 DEF Poll, OffsetsInOrder
  <2> QED
    BY <2>1 DEF AutoCommitTrails, past
<1>3. CASE Interrupt
  <2>1. /\ done' = 0 /\ committed' \in {committed, position} /\ handled' = handled
        /\ forgone' = forgone \cup {m \in (done + 1)..position : m <= committed'}
    BY <1>3 DEF Interrupt, Gone
  <2>2. done \in Nat /\ position \in Nat
    BY DEF OffsetsInOrder
  <2>3. ASSUME NEW m \in 1..Len(Log), m <= committed' \/ m <= done'
        PROVE  m \in handled \cup forgone'
    <3>1. CASE committed' = committed
      BY <2>1, <2>2, <2>3, <3>1, LogTyping DEF AutoCommitTrails
    <3>2. CASE committed' = position /\ m <= done
      BY <2>1, <3>2 DEF AutoCommitTrails
    <3>3. CASE committed' = position /\ ~(m <= done)
      <4>1. m \in Nat /\ m > 0 /\ m <= position
        BY <2>1, <2>2, <2>3, <3>3, LogTyping
      <4> QED
        BY <2>1, <2>2, <3>3, <4>1
    <3> QED
      BY <2>1, <3>1, <3>2, <3>3
  <2> QED
    BY <2>1, <2>3 DEF AutoCommitTrails
<1>4. CASE Kill
  <2>1. done' = 0 /\ UNCHANGED <<committed, handled, forgone>>
    BY <1>4 DEF Kill, Gone, topic, past
  <2>2. \A m \in 1..Len(Log) : ~(m <= 0)
    BY LogTyping
  <2> QED
    BY <2>1, <2>2 DEF AutoCommitTrails
<1>5. ASSUME NEW m \in 1..Len(Log),
             Discard(m) \/ ConnectFails(m) \/ ConnectAndPublish(m) \/ Publish(m)
      PROVE  AutoCommitTrails'
  <2>1. pc = "publishing" /\ UNCHANGED topic
    BY <1>5 DEF Discard, ConnectFails, ConnectAndPublish, Publish, Publishing
  <2>2. CASE Discard(m)
    BY <2>1, <2>2, TallyCovers DEF Discard
  <2>3. CASE ConnectFails(m)
    BY <2>1, <2>3, TallyCovers DEF ConnectFails, Failed
  <2>4. ASSUME NEW state, Hand(m, state)
        PROVE  AutoCommitTrails'
    BY <2>1, <2>4, TallyCovers DEF Hand, Failed
  <2> QED
    BY <1>5, <2>2, <2>3, <2>4 DEF ConnectAndPublish, Publish
<1>6. CASE \/ Produce \/ Tick \/ UNCHANGED vars
           \/ \E d \in Devices : Deliver(d) \/ Reconnect(d) \/ Drop(d)
  <2>1. UNCHANGED <<committed, done, handled, forgone>>
    BY <1>6 DEF Produce, Tick, Deliver, Reconnect, Drop, vars, loop, topic, past
  <2> QED
    BY <2>1 DEF AutoCommitTrails
<1> QED
  BY <1>1, <1>2, <1>3, <1>4, <1>5, <1>6 DEF Next

\* Neither the committed offset nor a process that starts from it is past a record that
\* no process has been through with, through any kills and automatic commits, but for
\* those forgone: at a start without a committed offset, and at an interrupt in the
\* middle of a batch (kafka_mqtt_bridge.py:604, 848).
THEOREM CommitsTrail == Spec => []AutoCommitTrails
<1>1. Init => OffsetsInOrder /\ AutoCommitTrails
  <2>1. \A m \in 1..Len(Log) : ~(m <= -1) /\ ~(m <= 0)
    BY LogTyping
  <2> QED
    BY <2>1 DEF Init, OffsetsInOrder, NoOffset, AutoCommitTrails
<1>2. (OffsetsInOrder /\ AutoCommitTrails) /\ [Next]_vars => (OffsetsInOrder /\ AutoCommitTrails)'
  BY OffsetsStep, CoverStep
<1> QED
  BY <1>1, <1>2, PTL DEF Spec

(***************************************************************************)
(* The clocks: while a session is up it is not dark, and it has never been *)
(* dark for longer than it has been quiet, because only a session that is  *)
(* up delivers.                                                            *)
(***************************************************************************)
QuietOutlastsDark ==
  /\ quiet \in Nat /\ dark \in Nat /\ dark <= quiet
  /\ SomeUp => dark = 0

\* A clock that is not reset never runs backwards.
LEMMA LaterIsLater ==
  ASSUME NEW i \in Nat, NEW j \in Nat, i <= j
  PROVE  Later(i) \in Nat /\ Later(i) <= Later(j)
<1>1. Grace \in Nat
  BY BridgeAssumption
<1> QED
  BY <1>1 DEF Later

LEMMA ClocksStep ==
  ASSUME QuietOutlastsDark, [Next]_vars
  PROVE  QuietOutlastsDark'
<1>1. CASE Start \/ Interrupt \/ Kill
  <2>1. quiet' = 0 /\ dark' = 0
    BY <1>1 DEF Start, Interrupt, Kill, Gone, FreshProcess
  <2> QED
    BY <2>1 DEF QuietOutlastsDark
<1>2. CASE Tick
  <2>1. UNCHANGED link /\ quiet' = Later(quiet) /\ dark' = IF SomeUp THEN 0 ELSE Later(dark)
    BY <1>2 DEF Tick, sessions
  <2>2. quiet' \in Nat /\ Later(dark) \in Nat /\ Later(dark) <= quiet'
    BY <2>1, LaterIsLater DEF QuietOutlastsDark
  <2>3. CASE SomeUp
    BY <2>1, <2>2, <2>3 DEF QuietOutlastsDark
  <2>4. CASE ~SomeUp
    <3>1. ~SomeUp'
      BY <2>1, <2>4 DEF SomeUp
    <3> QED
      BY <2>1, <2>2, <2>4, <3>1 DEF QuietOutlastsDark
  <2> QED
    BY <2>3, <2>4
<1>3. ASSUME NEW d \in Devices, Deliver(d)
      PROVE  QuietOutlastsDark'
  <2>1. SomeUp /\ UNCHANGED <<link, dark>> /\ quiet' = 0
    BY <1>3 DEF Deliver, SomeUp
  <2> QED
    BY <2>1 DEF QuietOutlastsDark
<1>4. ASSUME NEW d \in Devices, Reconnect(d)
      PROVE  QuietOutlastsDark'
  BY <1>4 DEF QuietOutlastsDark, Reconnect
<1>5. ASSUME NEW m \in 1..Len(Log), ConnectAndPublish(m)
      PROVE  QuietOutlastsDark'
  BY <1>5 DEF QuietOutlastsDark, ConnectAndPublish
<1>6. ASSUME NEW d \in Devices, Drop(d)
      PROVE  QuietOutlastsDark'
  <2>1. UNCHANGED <<quiet, dark>> /\ SomeUp
    BY <1>6 DEF Drop, clock, SomeUp
  <2> QED
    BY <2>1 DEF QuietOutlastsDark
<1>7. CASE \/ Produce \/ UNCHANGED vars
           \/ \E n \in 0..BatchSize : Poll(n)
           \/ \E m \in 1..Len(Log) : Discard(m) \/ ConnectFails(m) \/ Publish(m)
  <2>1. UNCHANGED <<quiet, dark, link>>
    BY <1>7 DEF Produce, Poll, Discard, ConnectFails, Publish, vars, clock, sessions
  <2> QED
    BY <2>1 DEF QuietOutlastsDark, SomeUp
<1> QED
  BY <1>1, <1>2, <1>3, <1>4, <1>5, <1>6, <1>7 DEF Next

\* With no session up for the stall threshold after a delivery, or for the grace period
\* before the first, /ready does not say healthy, whatever else the sessions went
\* through (kafka_mqtt_bridge.py:221).
THEOREM OutagesAreNoticed == Spec => []OutageIsNoticed
<1>1. Init => QuietOutlastsDark
  BY DEF Init, QuietOutlastsDark, SomeUp
<1>2. QuietOutlastsDark => OutageIsNoticed
  BY BridgeAssumption DEF QuietOutlastsDark, OutageIsNoticed, IsHealthy
<1> QED
  BY <1>1, <1>2, ClocksStep, PTL DEF Spec

(***************************************************************************)
(* Types.                                                                  *)
(***************************************************************************)
Counts == [consumed : Nat, published : Nat, acked : Nat, errors : Nat, unknown : Nat]
LoopType ==
  /\ origin \in 0..Len(Log) /\ position \in 0..Len(Log) /\ done \in 0..Len(Log)
  /\ pc \in {"down", "polling", "publishing"} /\ accepted \in Nat /\ count \in Counts
  /\ handled \subseteq 1..Len(Log) /\ forgone \subseteq 1..Len(Log)
SessionType ==
  /\ link \in [Devices -> {"none", "up", "down"}]
  /\ outbox \in [Devices -> Seq(1..Len(Log))] /\ delivered \subseteq 1..Len(Log)
OtherType ==
  /\ produced \in 0..Len(Log) /\ committed \in -1..Len(Log)
  /\ quiet \in 0..Grace /\ dark \in 0..Grace /\ heard \in BOOLEAN
  /\ drops \in 0..MaxDrops /\ stops \in 0..MaxStops

LEMMA TypeParts == TypeOK <=> LoopType /\ SessionType /\ OtherType
  BY DEF TypeOK, LoopType, SessionType, OtherType, Counts

LEMMA ConstantTyping == Grace \in Nat /\ MaxDrops \in Nat /\ MaxStops \in Nat
  BY BridgeAssumption

LEMMA CountTyping ==
  ASSUME NEW c \in Counts, NEW i \in Nat
  PROVE  /\ [c EXCEPT !.consumed = @ + 1] \in Counts
         /\ [c EXCEPT !.errors = @ + 1] \in Counts
         /\ [c EXCEPT !.unknown = @ + 1] \in Counts
         /\ [c EXCEPT !.acked = @ + 1] \in Counts
         /\ [c EXCEPT !.published = @ + 1] \in Counts
         /\ [c EXCEPT !.consumed = @ + 1, !.published = @ + i] \in Counts
<1>1. c.consumed + 1 \in Nat /\ c.errors + 1 \in Nat /\ c.unknown + 1 \in Nat
      /\ c.acked + 1 \in Nat /\ c.published + 1 \in Nat /\ c.published + i \in Nat
  BY DEF Counts
<1>2. [c EXCEPT !.consumed = @ + 1, !.published = @ + i] \in Counts
  BY <1>1 DEF Counts
<1> QED
  BY <1>1, <1>2 DEF Counts

LEMMA TallyTyping ==
  ASSUME LoopType, OffsetsInOrder, pc = "publishing",
         NEW ok \in BOOLEAN, NEW c \in Counts, Tally(ok, c)
  PROVE  LoopType'
<1>1. accepted' \in Nat
  BY DEF Tally, LoopType
<1>2. done' \in 0..Len(Log) /\ UNCHANGED <<origin, position>> /\ pc' \in {"polling", pc}
  <2>1. done \in Nat /\ done < position /\ position \in 0..Len(Log) /\ Len(Log) \in Nat
    BY LogTyping DEF OffsetsInOrder, LoopType
  <2>2. done' = done + 1
    BY DEF Tally
  <2> QED
    BY <2>1, <2>2 DEF Tally
<1>3. count' \in Counts
  BY <1>1, CountTyping DEF Tally
<1>4. handled' \subseteq 1..Len(Log) /\ forgone' \subseteq 1..Len(Log)
  <2>1. done' \in 1..Len(Log)
    BY <1>2 DEF Tally, OffsetsInOrder
  <2> QED
    BY <2>1 DEF Tally, LoopType
<1> QED
  BY <1>1, <1>2, <1>3, <1>4 DEF LoopType

LEMMA FailedTyping ==
  ASSUME LoopType, OffsetsInOrder, pc = "publishing", Failed
  PROVE  LoopType'
<1>1. [count EXCEPT !.errors = @ + 1] \in Counts
  BY CountTyping DEF LoopType
<1> QED
  BY <1>1, TallyTyping DEF Failed

LEMMA HandTyping ==
  ASSUME LoopType, SessionType, OffsetsInOrder, pc = "publishing",
         NEW m \in 1..Len(Log), NEW state, Hand(m, state)
  PROVE  LoopType' /\ outbox' \in [Devices -> Seq(1..Len(Log))]
<1> DEFINE d == DeviceOf(m)
<1>1. d \in Devices
  BY LogTyping
<1>2. outbox' \in {outbox, [outbox EXCEPT ![d] = Append(@, m)]}
  BY DEF Hand
<1>3. outbox' \in [Devices -> Seq(1..Len(Log))]
  <2>1. outbox \in [Devices -> Seq(1..Len(Log))]
    BY DEF SessionType
  <2>2. Append(outbox[d], m) \in Seq(1..Len(Log))
    BY <1>1, <2>1, AppendProperties
  <2> QED
    BY <1>1, <1>2, <2>1, <2>2
<1>4. [count EXCEPT !.published = @ + 1] \in Counts
  BY CountTyping DEF LoopType
<1>5. Failed \/ Tally(TRUE, [count EXCEPT !.published = @ + 1])
  BY DEF Hand
<1>6. LoopType'
  BY <1>4, <1>5, TallyTyping, FailedTyping
<1> QED
  BY <1>3, <1>6

LEMMA FreshTyping ==
  ASSUME FreshProcess
  PROVE  /\ accepted' \in Nat /\ count' \in Counts
         /\ link' \in [Devices -> {"none", "up", "down"}]
         /\ outbox' \in [Devices -> Seq(1..Len(Log))]
         /\ quiet' \in 0..Grace /\ dark' \in 0..Grace /\ heard' \in BOOLEAN
<1>1. outbox' \in [Devices -> Seq(1..Len(Log))]
  BY DEF FreshProcess
<1>2. count' \in Counts
  BY DEF FreshProcess, NoCounts, Counts
<1>3. link' \in [Devices -> {"none", "up", "down"}] /\ accepted' \in Nat
  BY DEF FreshProcess
<1>4. 0 \in 0..Grace
  BY ConstantTyping
<1>5. quiet' \in 0..Grace /\ dark' \in 0..Grace /\ heard' \in BOOLEAN
  BY <1>4, Zenon DEF FreshProcess
<1> QED
  BY <1>1, <1>2, <1>3, <1>5

LEMMA TypeStep ==
  ASSUME TypeOK, OffsetsInOrder, [Next]_vars
  PROVE  TypeOK'
<1> USE DEF topic, loop, sessions, clock, past, bounds
<1>0. LoopType /\ SessionType /\ OtherType
  BY TypeParts
<1>11. LoopType' /\ SessionType' /\ OtherType' => TypeOK'
  BY DEF TypeOK, LoopType, SessionType, OtherType, Counts
<1>1. CASE Produce
  <2>1. produced' \in 0..Len(Log)
    BY <1>1, LogTyping DEF TypeOK, Produce
  <2> QED BY <1>1, <2>1 DEF TypeOK, Produce
<1>2. CASE Start
  <2>1. origin' \in 0..Len(Log) /\ position' = origin' /\ done' = origin'
    BY <1>2, LogTyping DEF Start, TypeOK, NoOffset
  <2>2. forgone' \subseteq 1..Len(Log)
    BY <1>2, LogTyping DEF Start, TypeOK
  <2> QED
    BY <1>0, <1>2, <1>11, <2>1, <2>2, FreshTyping DEF Start, LoopType, SessionType, OtherType
<1>3. ASSUME NEW n \in 0..BatchSize, Poll(n)
      PROVE  TypeOK'
  <2>1. position' \in 0..Len(Log) /\ pc' \in {"polling", "publishing"} /\ accepted' = 0
        /\ committed' \in -1..Len(Log)
    BY <1>3, LogTyping, BridgeAssumption DEF Poll, TypeOK
  <2>2. LoopType'
    BY <1>0, <1>3, <2>1 DEF Poll, LoopType
  <2>3. SessionType' /\ OtherType'
    BY <1>0, <1>3, <2>1 DEF Poll, SessionType, OtherType
  <2> QED BY <1>11, <2>2, <2>3
<1>4. CASE Interrupt \/ Kill
  <2>1. FreshProcess /\ pc' = "down" /\ origin' = 0 /\ position' = 0 /\ done' = 0
        /\ UNCHANGED <<produced, delivered, drops>> /\ stops' \in 0..MaxStops
        /\ committed' \in -1..Len(Log)
    <3>1. stops < MaxStops /\ stops' = stops + 1 /\ Gone /\ UNCHANGED <<produced, delivered, drops>>
          /\ committed' \in {committed, position}
      BY <1>4 DEF Interrupt, Kill, topic, past
    <3>2. stops' \in 0..MaxStops
      BY <1>0, <3>1, ConstantTyping DEF OtherType
    <3>3. committed' \in -1..Len(Log)
      BY <1>0, <3>1, LogTyping DEF OtherType, LoopType
    <3> QED BY <3>1, <3>2, <3>3 DEF Gone
  <2>2. handled' = handled /\ forgone' \subseteq 1..Len(Log)
    <3>0. /\ done \in 0..Len(Log) /\ position \in 0..Len(Log) /\ Len(Log) \in Nat
          /\ forgone \subseteq 1..Len(Log)
      BY <1>0, LogTyping DEF LoopType
    <3>1. {m \in (done + 1)..position : m <= committed'} \subseteq 1..Len(Log)
      BY <3>0
    <3>2. CASE Interrupt
      <4>1. /\ handled' = handled
            /\ forgone' = forgone \cup {m \in (done + 1)..position : m <= committed'}
        BY <3>2 DEF Interrupt
      <4> QED BY <3>0, <3>1, <4>1, Zenon
    <3>3. CASE Kill
      BY <3>0, <3>3 DEF Kill, past
    <3> QED
      BY <1>4, <3>2, <3>3
  <2> QED
    <3>1. LoopType'
      BY <1>0, <2>1, <2>2, FreshTyping, LogTyping DEF LoopType
    <3>3. SessionType'
      BY <1>0, <2>1, FreshTyping DEF SessionType
    <3>2. OtherType'
      BY <1>0, <2>1, FreshTyping DEF OtherType
    <3> QED
      BY <1>11, <3>1, <3>2, <3>3
<1>5. ASSUME NEW m \in 1..Len(Log), Discard(m) \/ ConnectFails(m)
      PROVE  TypeOK'
  <2>1. pc = "publishing" /\ UNCHANGED <<topic, sessions, clock, bounds>>
    BY <1>5 DEF Discard, ConnectFails, Publishing
  <2>2. count \in Counts /\ [count EXCEPT !.unknown = @ + 1] \in Counts
    BY <1>0, CountTyping DEF LoopType
  <2>3. LoopType'
    BY <1>0, <1>5, <2>1, <2>2, TallyTyping, FailedTyping DEF Discard, ConnectFails
  <2>4. SessionType' /\ OtherType'
    BY <1>0, <2>1 DEF SessionType, OtherType
  <2> QED
    BY <2>3, <2>4, <1>11
<1>6. ASSUME NEW m \in 1..Len(Log), ConnectAndPublish(m) \/ Publish(m)
      PROVE  TypeOK'
  <2>1. pc = "publishing" /\ UNCHANGED <<topic, delivered, quiet, heard, bounds>>
        /\ \E state : Hand(m, state)
    BY <1>6 DEF ConnectAndPublish, Publish, Publishing
  <2>2. LoopType' /\ outbox' \in [Devices -> Seq(1..Len(Log))]
    BY <1>0, <2>1, HandTyping
  <2>3. link' \in [Devices -> {"none", "up", "down"}] /\ dark' \in 0..Grace
    <3>1. CASE ConnectAndPublish(m)
      BY <1>0, <3>1, ConstantTyping, LogTyping DEF ConnectAndPublish, SessionType
    <3>2. CASE Publish(m)
      BY <1>0, <3>2 DEF Publish, SessionType, OtherType
    <3> QED
      BY <1>6, <3>1, <3>2
  <2>4. SessionType' /\ OtherType'
    BY <1>0, <2>1, <2>2, <2>3 DEF SessionType, OtherType
  <2> QED
    BY <2>2, <2>4, <1>11
<1>7. ASSUME NEW d \in Devices, Deliver(d)
      PROVE  TypeOK'
  <2>1. outbox[d] \in Seq(1..Len(Log)) /\ outbox[d] # <<>>
    BY <1>7 DEF Deliver, TypeOK
  <2>2. Head(outbox[d]) \in 1..Len(Log) /\ Tail(outbox[d]) \in Seq(1..Len(Log))
    BY <2>1, HeadTailProperties
  <2>3. SessionType'
    BY <1>7, <2>2 DEF Deliver, SessionType, TypeOK
  <2>4. count' \in Counts
    <3>1. count' = [count EXCEPT !.acked = @ + 1]
      BY <1>7 DEF Deliver
    <3> QED
      BY <1>0, <3>1, CountTyping DEF LoopType
  <2>5. quiet' \in 0..Grace /\ heard' \in BOOLEAN
    BY <1>7, BridgeAssumption DEF Deliver
  <2>6. LoopType' /\ OtherType'
    BY <1>0, <1>7, <2>4, <2>5 DEF Deliver, LoopType, OtherType
  <2> QED
    BY <2>3, <2>6, <1>11
<1>8. ASSUME NEW d \in Devices, Reconnect(d) \/ Drop(d)
      PROVE  TypeOK'
  <2>1. Waiting(d) \subseteq 1..Len(Log)
    <3>1. outbox[d] \in Seq(1..Len(Log))
      BY DEF TypeOK
    <3> QED
      BY <3>1 DEF Waiting
  <2>2. SessionType'
    BY <1>8, <2>1 DEF Reconnect, Drop, SessionType, TypeOK
  <2>3. LoopType' /\ OtherType'
    <3>1. CASE Reconnect(d)
      BY <1>0, <3>1, BridgeAssumption DEF Reconnect, LoopType, OtherType
    <3>2. CASE Drop(d)
      BY <1>0, <3>2, BridgeAssumption DEF Drop, LoopType, OtherType
    <3> QED
      BY <1>8, <3>1, <3>2
  <2> QED
    BY <2>2, <2>3, <1>11
<1>9. CASE Tick
  BY <1>9, BridgeAssumption DEF Tick, TypeOK, Later
<1>10. CASE UNCHANGED vars
  BY <1>10 DEF vars, TypeOK
<1> QED
  BY <1>1, <1>2, <1>3, <1>4, <1>5, <1>6, <1>7, <1>8, <1>9, <1>10 DEF Next

BridgeInv == TypeOK /\ OffsetsInOrder

LEMMA BridgeStays == Spec => []BridgeInv
<1>1. Init => TypeOK
  <2> SUFFICES ASSUME Init
               PROVE  TypeOK
    OBVIOUS
  <2>1. SessionType
    BY DEF Init, SessionType
  <2>2. count \in Counts
    BY DEF Init, NoCounts, Counts
  <2>3. LoopType
    BY <2>2, LogTyping DEF Init, LoopType
  <2>4. OtherType
    <3>1. heard \in BOOLEAN
      BY Zenon DEF Init
    <3>2. /\ produced = 0 /\ committed = -1 /\ quiet = 0 /\ dark = 0
          /\ drops = 0 /\ stops = 0
      BY DEF Init, NoOffset
    <3> QED
      BY <3>1, <3>2, ConstantTyping, LogTyping DEF OtherType
  <2> QED
    BY <2>1, <2>3, <2>4, TypeParts
<1>2. Init => OffsetsInOrder
  BY DEF Init, OffsetsInOrder, NoOffset
<1>3. BridgeInv /\ [Next]_vars => BridgeInv'
  BY TypeStep, OffsetsStep DEF BridgeInv
<1> QED
  BY <1>1, <1>2, <1>3, PTL DEF Spec, BridgeInv

\* Every variable of the bridge keeps its type: no queue holds anything but records of
\* the topic, no counter leaves the naturals, no offset runs past the topic's end.
THEOREM BridgeTypeCorrect == Spec => []TypeOK
<1>1. BridgeInv => TypeOK
  BY DEF BridgeInv
<1> QED
  BY <1>1, BridgeStays, PTL

(***************************************************************************)
(* The losses: a record leaves the loop without a queue or an error to its *)
(* name only if it is not of a bound device.                               *)
(***************************************************************************)
LEMMA ThroughFinite ==
  ASSUME NEW S, S \subseteq Through
  PROVE  IsFiniteSet(S) /\ Cardinality(S) \in Nat
<1>1. IsFiniteSet(1..Len(Log))
  BY LogTyping, FS_Interval
<1>2. S \in SUBSET (1..Len(Log))
  BY DEF Through
<1> QED
  BY <1>1, <1>2, FS_Subset, FS_CardinalityType

\* A record that the loop is through with joins Through, and nothing else does.
LEMMA ThroughGrows ==
  ASSUME OffsetsInOrder, NEW m \in 1..Len(Log), Publishing(m),
         done' = done + 1, origin' = origin
  PROVE  m \notin Through /\ Through' = Through \cup {m}
<1>1. m = done + 1 /\ done \in Nat /\ origin \in Nat /\ origin <= done
  BY DEF Publishing, OffsetsInOrder
<1> QED
  BY <1>1, LogTyping DEF Through

LEMMA Units == 0 \in Int /\ 1 \in Int /\ TRUE \in BOOLEAN /\ FALSE \in BOOLEAN
  OBVIOUS

Lost == {m \in Through : /\ Kind(m) = "bound" /\ m \notin delivered
                         /\ m \notin Waiting(DeviceOf(m))}

LEMMA FewerLost ==
  ASSUME LoopType, LoopType', Lost' \subseteq Lost, EveryLossIsCounted, pc # "down",
         count'.errors >= count.errors
  PROVE  EveryLossIsCounted'
<1>1. IsFiniteSet(Lost) /\ Cardinality(Lost) \in Nat
  BY ThroughFinite DEF Lost
<1>2. Cardinality(Lost') <= Cardinality(Lost) /\ Cardinality(Lost') \in Nat
  BY <1>1, FS_Subset, FS_CardinalityType
<1>3. count.errors \in Nat /\ count'.errors \in Nat
  BY DEF LoopType, Counts
<1>4. Cardinality(Lost) <= count.errors
  BY DEF EveryLossIsCounted, Lost
<1>5. Cardinality(Lost') <= count'.errors
  BY <1>2, <1>3, <1>4, <1>1
<1> QED
  BY <1>5 DEF EveryLossIsCounted, Lost

LEMMA OneLost ==
  ASSUME LoopType, LoopType', NEW m, Lost' \subseteq Lost \cup {m}, EveryLossIsCounted,
         pc # "down", count'.errors = count.errors + 1
  PROVE  EveryLossIsCounted'
<1>1. IsFiniteSet(Lost) /\ Cardinality(Lost) \in Nat
  BY ThroughFinite DEF Lost
<1>2. /\ IsFiniteSet(Lost \cup {m})
      /\ Cardinality(Lost \cup {m}) <= Cardinality(Lost) + 1
      /\ Cardinality(Lost \cup {m}) \in Nat
  <2>1. /\ IsFiniteSet(Lost \cup {m})
        /\ Cardinality(Lost \cup {m}) = IF m \in Lost THEN Cardinality(Lost) ELSE Cardinality(Lost) + 1
    BY <1>1, FS_AddElement
  <2> QED
    BY <1>1, <2>1
<1>3. Cardinality(Lost') <= Cardinality(Lost \cup {m}) /\ Cardinality(Lost') \in Nat
  BY <1>2, FS_Subset, FS_CardinalityType
<1>4. count.errors \in Nat
  BY DEF LoopType, Counts
<1>5. Cardinality(Lost) <= count.errors
  BY DEF EveryLossIsCounted, Lost
<1>6. Cardinality(Lost') <= count'.errors
  BY <1>1, <1>2, <1>3, <1>4, <1>5
<1> QED
  BY <1>6 DEF EveryLossIsCounted, Lost

LEMMA TallyThrough ==
  ASSUME OffsetsInOrder, NEW m \in 1..Len(Log), Publishing(m), NEW ok, NEW c, Tally(ok, c)
  PROVE  Through' = Through \cup {m} /\ pc = "publishing"
<1>1. done' = done + 1 /\ origin' = origin
  BY DEF Tally
<1> QED
  BY <1>1, ThroughGrows DEF Publishing

\* A queue that gains a record at its end holds it, and keeps the others.
LEMMA AppendKeeps ==
  ASSUME SessionType, NEW m \in 1..Len(Log),
         outbox' = [outbox EXCEPT ![DeviceOf(m)] = Append(@, m)]
  PROVE  /\ m \in Waiting(DeviceOf(m))'
         /\ \A d \in Devices : Waiting(d) \subseteq Waiting(d)'
<1> DEFINE at == DeviceOf(m)
<1>1. outbox \in [Devices -> Seq(1..Len(Log))] /\ at \in Devices
  BY LogTyping DEF SessionType
<1>2. outbox'[at] = Append(outbox[at], m) /\ outbox[at] \in Seq(1..Len(Log))
  BY <1>1
<1>3. /\ Len(outbox'[at]) = Len(outbox[at]) + 1 /\ Len(outbox[at]) \in Nat
      /\ DOMAIN outbox[at] = 1..Len(outbox[at]) /\ DOMAIN outbox'[at] = 1..Len(outbox'[at])
      /\ \A k \in 1..Len(outbox[at]) : outbox'[at][k] = outbox[at][k]
      /\ outbox'[at][Len(outbox[at]) + 1] = m
  BY <1>2, AppendProperties, LenProperties
<1>4. m \in Waiting(at)' /\ Waiting(at) \subseteq Waiting(at)'
  BY <1>3 DEF Waiting
<1>5. ASSUME NEW d \in Devices, d # at
      PROVE  Waiting(d) \subseteq Waiting(d)'
  <2>1. outbox'[d] = outbox[d]
    BY <1>1, <1>5
  <2> QED
    BY <2>1 DEF Waiting
<1> QED
  BY <1>4, <1>5

LEMMA FailedLoss ==
  ASSUME LoopType, OffsetsInOrder, EveryLossIsCounted, NEW m \in 1..Len(Log), Publishing(m),
         Failed, UNCHANGED delivered,
         \A d \in Devices : Waiting(d) \subseteq Waiting(d)'
  PROVE  EveryLossIsCounted'
<1>1. pc = "publishing" /\ Through' = Through \cup {m}
  BY TallyThrough DEF Failed
<1>2. Lost' \subseteq Lost \cup {m}
  <2>1. \A r \in Through : DeviceOf(r) \in Devices
    BY LogTyping DEF Through
  <2> QED
    BY <1>1, <2>1 DEF Lost, Kind, DeviceOf
<1>3. count'.errors = count.errors + 1
  BY DEF Failed, Tally, LoopType, Counts
<1>4. LoopType'
  BY <1>1, FailedTyping
<1> QED
  BY <1>1, <1>2, <1>3, <1>4, OneLost

LEMMA HandLoss ==
  ASSUME LoopType, SessionType, OffsetsInOrder, EveryLossIsCounted,
         NEW m \in 1..Len(Log), Publishing(m), NEW state, Hand(m, state), UNCHANGED delivered
  PROVE  EveryLossIsCounted'
<1>1. CASE UNCHANGED outbox /\ Failed
  <2>1. \A d \in Devices : Waiting(d) \subseteq Waiting(d)'
    BY <1>1 DEF Waiting
  <2> QED
    BY <1>1, <2>1, FailedLoss
<1>2. CASE outbox' = [outbox EXCEPT ![DeviceOf(m)] = Append(@, m)] /\ Failed
  BY <1>2, AppendKeeps, FailedLoss
<1>3. CASE /\ outbox' = [outbox EXCEPT ![DeviceOf(m)] = Append(@, m)]
           /\ Tally(TRUE, [count EXCEPT !.published = @ + 1])
  <2>1. pc = "publishing" /\ Through' = Through \cup {m}
    BY <1>3, TallyThrough
  <2>2. m \in Waiting(DeviceOf(m))' /\ \A d \in Devices : Waiting(d) \subseteq Waiting(d)'
    BY <1>3, AppendKeeps
  <2>3. Lost' \subseteq Lost
    <3>1. \A r \in Through : DeviceOf(r) \in Devices
      BY LogTyping DEF Through
    <3> QED
      BY <2>1, <2>2, <3>1 DEF Lost, Kind, DeviceOf
  <2>4. count'.errors = count.errors /\ count.errors \in Nat
    BY <1>3 DEF Tally, LoopType, Counts
  <2>5. LoopType'
    BY <2>1, HandTyping
  <2> QED
    BY <2>1, <2>3, <2>4, <2>5, FewerLost
<1> QED
  BY <1>1, <1>2, <1>3 DEF Hand

LEMMA DiscardLoss ==
  ASSUME LoopType, OffsetsInOrder, EveryLossIsCounted, NEW m \in 1..Len(Log), Discard(m)
  PROVE  EveryLossIsCounted'
<1>1. Publishing(m) /\ Kind(m) # "bound" /\ UNCHANGED <<delivered, outbox>>
  BY DEF Discard, sessions
<1>2. PICK c : Tally(FALSE, c) /\ c \in {count, [count EXCEPT !.unknown = @ + 1]}
  BY DEF Discard
<1>3. pc = "publishing" /\ Through' = Through \cup {m}
  BY <1>1, <1>2, TallyThrough
<1>4. Lost' \subseteq Lost
  BY <1>1, <1>3 DEF Lost, Kind, DeviceOf, Waiting
<1>5. c \in Counts /\ c.errors = count.errors
  BY <1>2, CountTyping DEF LoopType, Counts
<1>6. count'.errors = count.errors /\ count.errors \in Nat
  BY <1>2, <1>5 DEF Tally, LoopType, Counts
<1>7. LoopType'
  BY <1>2, <1>3, <1>5, TallyTyping, Units, Zenon
<1> QED
  BY <1>3, <1>4, <1>6, <1>7, FewerLost

\* What the library delivers leaves its queue; the rest of the queue stays.
LEMMA DeliverLoss ==
  ASSUME LoopType, SessionType, EveryLossIsCounted, NEW d \in Devices, Deliver(d), pc # "down"
  PROVE  EveryLossIsCounted'
<1>1. outbox \in [Devices -> Seq(1..Len(Log))] /\ outbox[d] \in Seq(1..Len(Log)) /\ outbox[d] # <<>>
  BY DEF SessionType, Deliver
<1>2. outbox' = [outbox EXCEPT ![d] = Tail(@)] /\ delivered' = delivered \cup {Head(outbox[d])}
      /\ UNCHANGED <<pc, origin, done>> /\ UNCHANGED <<loop, handled, forgone>>
  BY DEF Deliver, loop, past
<1>3. Waiting(d) \subseteq Waiting(d)' \cup {Head(outbox[d])}
  <2> DEFINE s == outbox[d]
  <2>1. /\ outbox'[d] = Tail(s) /\ Len(s) \in Nat /\ DOMAIN s = 1..Len(s)
        /\ Len(Tail(s)) = Len(s) - 1 /\ Tail(s) \in Seq(1..Len(Log))
        /\ \A k \in 1..Len(Tail(s)) : Tail(s)[k] = s[k + 1]
    BY <1>1, <1>2, HeadTailProperties, LenProperties
  <2>2. DOMAIN Tail(s) = 1..Len(Tail(s))
    BY <2>1, LenProperties
  <2>3. Head(s) = s[1]
    BY <1>1
  <2>4. ASSUME NEW k \in 1..Len(s)
        PROVE  s[k] \in Waiting(d)' \cup {Head(s)}
    <3>1. CASE k = 1
      BY <2>3, <3>1
    <3>2. CASE k # 1
      <4>1. k - 1 \in 1..Len(Tail(s)) /\ (k - 1) + 1 = k
        BY <2>1, <2>4, <3>2
      <4>2. Tail(s)[k - 1] = s[k]
        BY <2>1, <4>1
      <4> QED
        BY <2>1, <2>2, <4>1, <4>2 DEF Waiting
    <3> QED
      BY <3>1, <3>2
  <2> QED
    BY <2>1, <2>4 DEF Waiting
<1>4. \A e \in Devices : e # d => Waiting(e)' = Waiting(e)
  BY <1>1, <1>2 DEF Waiting
<1>5. Lost' \subseteq Lost
  <2>1. Through' = Through /\ \A r \in Through : DeviceOf(r) \in Devices
    BY <1>2, LogTyping DEF Through
  <2> QED
    BY <1>2, <1>3, <1>4, <2>1 DEF Lost, Kind, DeviceOf
<1>6. count' = [count EXCEPT !.acked = @ + 1] /\ count' \in Counts
  BY CountTyping DEF Deliver, LoopType
<1>7. LoopType' /\ count'.errors = count.errors /\ count.errors \in Nat
  BY <1>2, <1>6 DEF LoopType, Counts, loop
<1> QED
  BY <1>5, <1>7, FewerLost

LEMMA LossStep ==
  ASSUME BridgeInv, BridgeInv', EveryLossIsCounted, [Next]_vars
  PROVE  EveryLossIsCounted'
<1>0. LoopType /\ LoopType' /\ SessionType /\ OffsetsInOrder
  BY DEF BridgeInv, TypeOK, LoopType, SessionType, Counts
<1>1. CASE Start
  <2>1. count' = NoCounts /\ done' = origin' /\ done' \in Int
    BY <1>0, <1>1 DEF Start, FreshProcess, OffsetsInOrder, NoOffset
  <2>2. Lost' = {}
    BY <2>1, LogTyping DEF Lost, Through
  <2> QED
    BY <2>1, <2>2, FS_EmptySet DEF EveryLossIsCounted, Lost, NoCounts
<1>2. CASE Interrupt \/ Kill
  BY <1>2 DEF Interrupt, Kill, Gone, EveryLossIsCounted
<1>3. ASSUME NEW m \in 1..Len(Log),
             Discard(m) \/ ConnectFails(m) \/ ConnectAndPublish(m) \/ Publish(m)
      PROVE  EveryLossIsCounted'
  <2>1. CASE Discard(m)
    BY <1>0, <2>1, DiscardLoss
  <2>2. CASE ConnectFails(m)
    <3>1. UNCHANGED <<delivered, outbox>> /\ Failed /\ Publishing(m)
      BY <2>2 DEF ConnectFails, sessions
    <3>2. \A d \in Devices : Waiting(d) \subseteq Waiting(d)'
      BY <3>1 DEF Waiting
    <3> QED
      BY <1>0, <3>1, <3>2, FailedLoss
  <2>3. CASE ConnectAndPublish(m) \/ Publish(m)
    <3>1. Publishing(m) /\ UNCHANGED delivered /\ \E state : Hand(m, state)
      BY <2>3 DEF ConnectAndPublish, Publish
    <3> QED
      BY <1>0, <3>1, HandLoss
  <2> QED
    BY <1>3, <2>1, <2>2, <2>3
<1>4. ASSUME NEW d \in Devices, Deliver(d)
      PROVE  EveryLossIsCounted'
  <2>1. CASE pc = "down"
    BY <1>4, <2>1 DEF Deliver, loop, EveryLossIsCounted
  <2>2. CASE pc # "down"
    BY <1>0, <1>4, <2>2, DeliverLoss
  <2> QED
    BY <2>1, <2>2
<1>5. CASE \/ Produce \/ Tick \/ UNCHANGED vars
           \/ \E n \in 0..BatchSize : Poll(n)
           \/ \E d \in Devices : Reconnect(d) \/ Drop(d)
  <2>1. /\ UNCHANGED <<origin, done, outbox, count>> /\ delivered \subseteq delivered'
        /\ pc' # "down" => pc # "down"
    BY <1>5 DEF Produce, Tick, vars, Poll, Reconnect, Drop, loop, sessions
  <2>2. CASE pc' = "down"
    BY <2>2 DEF EveryLossIsCounted
  <2>3. CASE pc' # "down"
    <3>1. Lost' \subseteq Lost
      BY <2>1 DEF Lost, Through, Waiting
    <3>2. count.errors \in Nat
      BY <1>0 DEF LoopType, Counts
    <3> QED
      BY <1>0, <2>1, <2>3, <3>1, <3>2, FewerLost
  <2> QED
    BY <2>2, <2>3
<1> QED
  BY <1>1, <1>2, <1>3, <1>4, <1>5 DEF Next

\* Every record of a bound device that the loop is through with has been delivered, is in
\* a queue, or is one of those counted in mqtt_errors, whatever sessions break and
\* whatever queues are full (kafka_mqtt_bridge.py:547).
THEOREM LossesAreCounted == Spec => []EveryLossIsCounted
<1>1. Init => EveryLossIsCounted
  BY DEF Init, EveryLossIsCounted
<1>2. BridgeInv /\ BridgeInv' /\ EveryLossIsCounted /\ [Next]_vars => EveryLossIsCounted'
  BY LossStep
<1> QED
  BY <1>1, <1>2, BridgeStays, PTL DEF Spec
===============================================================================
