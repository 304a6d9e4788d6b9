---------------------------- MODULE AnomalyDetector ----------------------------
(***************************************************************************)
(* anomaly_detection.run_detector for one turbine (every key of the        *)
(* detector's tables names the turbine): messages are parsed into readings *)
(* of several sensors, each reading is run through the detections, and     *)
(* what is confirmed is published and silences its sensor for a while.     *)
(*                                                                         *)
(* Two history variables are kept for the properties: `unbroken' counts    *)
(* the evaluated readings in a row for which a detection fires without     *)
(* being reported, in this life of the detector and the lives before it,   *)
(* and `setbacks' the alerts lost and the restarts since the first of them.*)
(***************************************************************************)
EXTENDS DetectorOps

CONSTANTS Order,            \* the sensors in the order of a message's metrics
          Choices,          \* bound: Choices[s], the values s can report
          Times,            \* bound: the timestamps
          Period,           \* least distance of two timestamps, when in order
          InOrder,          \* whether messages arrive in time order
          Grace,            \* grace_period_minutes
          ConfirmationCount,
          MaxRestarts       \* bound: restarts of the detector

ASSUME DetectorAssumption ==
  /\ Order \in Seq(Sensors) /\ Choices \in [Sensors -> SUBSET Int]
  /\ Times \subseteq Nat \ {0} /\ Period \in Nat \ {0} /\ InOrder \in BOOLEAN
  /\ Grace \in Nat \ {0} /\ ConfirmationCount \in Nat \ {0}
  /\ MaxRestarts \in Nat

\* The metrics of a message are a dict: it reports a sensor once.
ASSUME OrderAssumption == \A i, j \in DOMAIN Order : Order[i] = Order[j] => i = j

VARIABLES histories,   \* sensor_history
          counts,      \* alert_tracking: the count of each sensor and detection
          grace,       \* grace_periods; 0 is no entry
          message,     \* the message in hand
          todo,        \* its readings that are not processed yet
          latest,      \* the latest timestamp received
          topic,       \* the alerts published
          unbroken, setbacks,
          restarts

detector == <<histories, counts, grace>>
reported == <<unbroken, setbacks>>
vars == <<detector, message, todo, latest, topic, reported, restarts>>

NotInGrace == 0
PerDetection == [Sensors -> [Detections -> Nat]]
Alert == [sensor : Sensors, detection : Detections, at : Nat, life : Nat]
Message == [at : Nat, values : [Sensors -> Int]]

TypeOK ==
  /\ histories \in [Sensors -> Seq(Reading)]
  /\ \A s \in Sensors : Len(histories[s]) <= HistoryLen
  /\ counts \in PerDetection
  /\ \A s \in Sensors, d \in Detections : counts[s][d] < ConfirmationCount
  /\ grace \in [Sensors -> Nat]
  /\ message \in Message /\ todo \in Seq(Sensors)
  /\ latest \in Nat /\ topic \subseteq Alert
  /\ unbroken \in PerDetection /\ setbacks \in PerDetection
  /\ restarts \in 0..MaxRestarts

Reportable ==
  {values \in [Sensors -> UNION {Choices[s] : s \in Sensors}] :
     \A s \in Sensors : values[s] \in Choices[s]}

None == [s \in Sensors |-> [d \in Detections |-> 0]]

Init ==
  /\ histories = [s \in Sensors |-> <<>>] /\ counts = None
  /\ grace = [s \in Sensors |-> NotInGrace]
  /\ message = [at |-> 0, values |-> [s \in Sensors |-> 0]] /\ todo = <<>>
  /\ latest = 0 /\ topic = {} /\ unbroken = None /\ setbacks = None /\ restarts = 0

(***************************************************************************)
(* The consumer loop                                                       *)
(***************************************************************************)

\* parse_telemetry_message; the timestamp is the same for all readings.
Receive(at, values) ==
  /\ todo = <<>>
  /\ InOrder => at >= latest + Period
  /\ message' = [at |-> at, values |-> values] /\ todo' = Order
  /\ latest' = IF at > latest THEN at ELSE latest
  /\ UNCHANGED <<detector, topic, reported, restarts>>

\* A message without readings or with a falsy field, such as the sequence number 0
\* that every producer starts with, is skipped.
Skip(at) ==
  /\ todo = <<>> /\ InOrder => at >= latest + Period
  /\ latest' = IF at > latest THEN at ELSE latest
  /\ UNCHANGED <<detector, message, todo, topic, reported, restarts>>

\* poll() returns None.
PollNothing == todo = <<>> /\ UNCHANGED vars

(***************************************************************************)
(* process_reading                                                         *)
(***************************************************************************)

\* Defect: the grace period ends one second early.
MutInGrace(s, at) == grace[s] # NotInGrace /\ at + 1 < grace[s]

InGrace(s, at) == grace[s] # NotInGrace /\ at < grace[s]

\* Defect: an alert resets the counts of all detections of its sensor.
MutCountsAfter(s, fires, confirmed) ==
  [d \in Detections |->
     IF confirmed # {} THEN 0 ELSE counts[s][d] + (IF d \in fires THEN 1 ELSE 0)]

\* _create_alert for each detection that fires; a count that is not confirmed stays
\* where it is through readings that are nominal.
CountsAfter(s, fires, confirmed) ==
  [d \in Detections |->
     IF d \in confirmed THEN 0 ELSE counts[s][d] + (IF d \in fires THEN 1 ELSE 0)]

\* publish_alert: the alerts of a reading are sent one by one; one for which produce()
\* raises is lost, and nobody asks.
Publish(s, sent) ==
  topic' = topic \cup
    {[sensor |-> s, detection |-> d, at |-> message.at, life |-> restarts] : d \in sent}

\* The reading is remembered in any case.
Recall(s) ==
  histories' = [histories EXCEPT ![s] =
                  Remember(@, [at |-> message.at, value |-> message.values[s]])]

Silent(s) ==
  /\ InGrace(s, message.at)
  /\ UNCHANGED <<counts, grace, topic, reported>>

Evaluate(s) ==
  LET fires == Firing(s, histories')
      confirmed == {d \in fires : counts[s][d] + 1 >= ConfirmationCount}
  IN /\ ~InGrace(s, message.at)
     /\ counts' = [counts EXCEPT ![s] = CountsAfter(s, fires, confirmed)]
     /\ grace' = [grace EXCEPT ![s] = IF confirmed = {} THEN NotInGrace ELSE message.at + Grace]
     /\ \E sent \in SUBSET confirmed :
          /\ Publish(s, sent)
          /\ unbroken' = [unbroken EXCEPT ![s] =
               [d \in Detections |-> IF d \in fires \ sent THEN @[d] + 1 ELSE 0]]
          /\ setbacks' = [setbacks EXCEPT ![s] =
               [d \in Detections |-> IF d \notin fires \ sent THEN 0
                                     ELSE @[d] + (IF d \in confirmed THEN 1 ELSE 0)]]

ProcessReading ==
  /\ todo # <<>> /\ todo' = Tail(todo)
  /\ Recall(Head(todo))
  /\ Silent(Head(todo)) \/ Evaluate(Head(todo))
  /\ UNCHANGED <<message, latest, restarts>>

\* A new process knows nothing; the rest of the message in hand is not read again
\* when its offset was committed.
Restart ==
  /\ restarts < MaxRestarts /\ restarts' = restarts + 1
  /\ histories' = [s \in Sensors |-> <<>>] /\ counts' = None
  /\ grace' = [s \in Sensors |-> NotInGrace] /\ todo' = <<>>
  /\ setbacks' = [s \in Sensors |-> [d \in Detections |->
                   IF unbroken[s][d] = 0 THEN 0 ELSE setbacks[s][d] + 1]]
  /\ UNCHANGED <<message, latest, topic, unbroken>>

Next ==
  \/ \E at \in Times, values \in Reportable : Receive(at, values)
  \/ \E at \in Times : Skip(at)
  \/ PollNothing
  \/ ProcessReading \/ Restart

Spec == Init /\ [][Next]_vars

(***************************************************************************)
(* Safety                                                                  *)
(***************************************************************************)

\* _enter_grace_period, "cooldown grace period for a sensor after an alert fires": two
\* alerts of a sensor come from one reading or are a grace period apart, whichever
\* detections raised them, within a life of the detector.
AlertsAreSpaced ==
  \A a, b \in topic :
    a.sensor = b.sensor /\ a.life = b.life /\ a.at < b.at => b.at >= a.at + Grace

\* _create_alert, "confirmation count": a detection that fires for every reading of a
\* sensor is reported with the reading that reaches the count.  An alert that is lost
\* (publish_alert swallows the error when the count is already reset) and a restart
\* (which forgets the counts) cost it that many readings again, and nothing else sets
\* it back: no grace period, no other sensor, no other detection's alert.
PersistentFaultIsReported ==
  \A s \in Sensors, d \in Detections :
    unbroken[s][d] < ConfirmationCount * (1 + setbacks[s][d])

\* app/docs/ANOMALY_DETECTION.md: "at 1 Hz, a 600-second rule needs more than 480 matching
\* samples".  Whatever the rate of the messages, a sensor that counts as stuck has
\* reported its value over more than 0.8 times as many periods as the duration has
\* seconds, however full its history is.  That is the time documented at one message a
\* second only: a replay at fifty times the speed takes a fiftieth of it.
StuckTakesTime ==
  \A s \in Sensors : StuckValue(histories[s]) =>
    \E k \in DOMAIN histories[s] :
      /\ histories[s][k].value = Newest(histories[s]).value
      /\ 5 * (Newest(histories[s]).at - histories[s][k].at + Period) > 4 * StuckDuration * Period
===============================================================================
