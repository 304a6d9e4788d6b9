------------------------- MODULE AnomalyDetector_proofs -------------------------
(***************************************************************************)
(* Proofs about AnomalyDetector, for any sensors, rules and parameters.    *)
(* Nothing is used of the detections but that they are Detections, except  *)
(* in the last section, which is about one of them.                        *)
(***************************************************************************)
EXTENDS AnomalyDetector, TLAPS, SequenceTheorems, FiniteSetTheorems

(***************************************************************************)
(* Types                                                                   *)
(***************************************************************************)
LEMMA RememberTypes ==
  ASSUME NEW h \in Seq(Reading), Len(h) <= HistoryLen, NEW r \in Reading
  PROVE  Remember(h, r) \in Seq(Reading) /\ Len(Remember(h, r)) <= HistoryLen
BY DetectorOpsAssumption DEF Remember

LEMMA FiringTypes == ASSUME NEW s, NEW hs PROVE Firing(s, hs) \subseteq Detections
BY DEF Firing

LEMMA InitTypes == Init => TypeOK
<1> SUFFICES ASSUME Init PROVE TypeOK
  OBVIOUS
<1>1. Rpm \in Sensors /\ None \in PerDetection
  BY DetectorOpsAssumption DEF None, PerDetection
<1>2. histories \in [Sensors -> Seq(Reading)] /\ \A s \in Sensors : Len(histories[s]) <= HistoryLen
  BY DetectorOpsAssumption DEF Init
<1>3. \A s \in Sensors, d \in Detections : counts[s][d] < ConfirmationCount
  BY DetectorAssumption DEF Init, None
<1> QED
  BY <1>1, <1>2, <1>3, DetectorAssumption DEF Init, TypeOK, NotInGrace, Message

LEMMA EvaluateTypes ==
  ASSUME TypeOK, NEW s \in Sensors, Evaluate(s), message.at \in Nat
  PROVE  /\ counts' \in PerDetection
         /\ \A t \in Sensors, d \in Detections : counts'[t][d] < ConfirmationCount
         /\ grace' \in [Sensors -> Nat] /\ topic' \subseteq Alert
         /\ unbroken' \in PerDetection /\ setbacks' \in PerDetection
<1> DEFINE fires == Firing(s, histories')
           confirmed == {d \in fires : counts[s][d] + 1 >= ConfirmationCount}
<1>1. fires \subseteq Detections /\ confirmed \subseteq Detections
  BY FiringTypes
<1>2. counts' = [counts EXCEPT ![s] = CountsAfter(s, fires, confirmed)]
  BY DEF Evaluate
<1>3. /\ CountsAfter(s, fires, confirmed) \in [Detections -> Nat]
      /\ \A d \in Detections : CountsAfter(s, fires, confirmed)[d] < ConfirmationCount
  <2> SUFFICES ASSUME NEW d \in Detections
               PROVE  /\ CountsAfter(s, fires, confirmed)[d] \in Nat
                      /\ CountsAfter(s, fires, confirmed)[d] < ConfirmationCount
    BY DEF CountsAfter
  <2>1. counts[s][d] \in Nat /\ counts[s][d] < ConfirmationCount
    BY DEF TypeOK, PerDetection
  <2> HIDE DEF fires
  <2> QED
    BY <2>1, DetectorAssumption DEF CountsAfter
<1>4. /\ counts' \in PerDetection
      /\ \A t \in Sensors, d \in Detections : counts'[t][d] < ConfirmationCount
  <2> HIDE DEF fires, confirmed
  <2> QED
    BY <1>2, <1>3 DEF TypeOK, PerDetection
<1>5. grace' \in [Sensors -> Nat]
  <2>1. NotInGrace \in Nat /\ message.at + Grace \in Nat
    BY DetectorAssumption DEF NotInGrace
  <2> QED
    BY <2>1 DEF Evaluate, TypeOK
<1>s. PICK sent \in SUBSET confirmed :
        /\ topic' = topic \cup
             {[sensor |-> s, detection |-> d, at |-> message.at, life |-> restarts] : d \in sent}
        /\ unbroken' = [unbroken EXCEPT ![s] =
             [d \in Detections |-> IF d \in fires \ sent THEN @[d] + 1 ELSE 0]]
        /\ setbacks' = [setbacks EXCEPT ![s] =
             [d \in Detections |-> IF d \notin fires \ sent THEN 0
                                   ELSE @[d] + (IF d \in confirmed THEN 1 ELSE 0)]]
  BY DEF Evaluate, Publish
<1>6. topic' \subseteq Alert
  <2>1. restarts \in Nat
    BY DetectorAssumption DEF TypeOK
  <2> HIDE DEF confirmed
  <2> QED
    BY <2>1, <1>s, <1>1 DEF TypeOK, Alert
<1>7. unbroken' \in PerDetection /\ setbacks' \in PerDetection
  <2>1. \A d \in Detections : unbroken[s][d] \in Nat /\ setbacks[s][d] \in Nat
    BY DEF TypeOK, PerDetection
  <2> HIDE DEF fires, confirmed
  <2>2. [d \in Detections |-> IF d \in fires \ sent THEN unbroken[s][d] + 1 ELSE 0]
          \in [Detections -> Nat]
    BY <2>1
  <2>3. [d \in Detections |-> IF d \notin fires \ sent THEN 0
                              ELSE setbacks[s][d] + (IF d \in confirmed THEN 1 ELSE 0)]
          \in [Detections -> Nat]
    BY <2>1
  <2> QED
    BY <1>s, <2>2, <2>3 DEF TypeOK, PerDetection
<1> QED
  BY <1>4, <1>5, <1>6, <1>7

LEMMA ProcessTypes == ASSUME TypeOK, ProcessReading PROVE TypeOK'
<1> DEFINE s == Head(todo)
<1>1. s \in Sensors /\ todo' \in Seq(Sensors)
  BY DEF ProcessReading, TypeOK
<1>2. message.at \in Nat /\ message.values[s] \in Int
  BY <1>1 DEF TypeOK, Message
<1>3. /\ histories' \in [Sensors -> Seq(Reading)]
      /\ \A t \in Sensors : Len(histories'[t]) <= HistoryLen
  <2> DEFINE r == [at |-> message.at, value |-> message.values[s]]
  <2>1. r \in Reading
    BY <1>2 DEF Reading
  <2>2. Remember(histories[s], r) \in Seq(Reading) /\ Len(Remember(histories[s], r)) <= HistoryLen
    BY <1>1, <2>1, RememberTypes DEF TypeOK
  <2>3. histories' = [histories EXCEPT ![s] = Remember(histories[s], r)]
    BY DEF ProcessReading, Recall
  <2> HIDE DEF s, r
  <2> QED
    BY <1>1, <2>2, <2>3 DEF TypeOK
<1>4. /\ counts' \in PerDetection
      /\ \A t \in Sensors, d \in Detections : counts'[t][d] < ConfirmationCount
      /\ grace' \in [Sensors -> Nat] /\ topic' \subseteq Alert
      /\ unbroken' \in PerDetection /\ setbacks' \in PerDetection
  <2>1. CASE Silent(s)
    BY <2>1 DEF Silent, TypeOK, reported
  <2>2. CASE Evaluate(s)
    BY <1>1, <1>2, <2>2, EvaluateTypes
  <2> QED
    BY <2>1, <2>2 DEF ProcessReading
<1> QED
  BY <1>1, <1>3, <1>4 DEF ProcessReading, TypeOK

LEMMA NextTypes == TypeOK /\ [Next]_vars => TypeOK'
<1> SUFFICES ASSUME TypeOK, [Next]_vars PROVE TypeOK'
  OBVIOUS
<1>1. ASSUME NEW at \in Times, NEW values \in Reportable, Receive(at, values) PROVE TypeOK'
  <2>1. [at |-> at, values |-> values] \in Message /\ at \in Nat
    BY DetectorAssumption DEF Message, Reportable
  <2> QED
    BY <1>1, <2>1, DetectorAssumption DEF Receive, TypeOK, detector, reported
<1>2. ASSUME NEW at \in Times, Skip(at) PROVE TypeOK'
  BY <1>2, DetectorAssumption DEF Skip, TypeOK, detector, reported
<1>3. CASE ProcessReading
  BY <1>3, ProcessTypes
<1>4. CASE Restart
  <2>1. None \in PerDetection /\ \A s \in Sensors, d \in Detections : None[s][d] < ConfirmationCount
    BY DetectorAssumption DEF None, PerDetection
  <2>2. setbacks' \in PerDetection
    BY <1>4 DEF Restart, TypeOK, PerDetection
  <2> QED
    BY <1>4, <2>1, <2>2, DetectorOpsAssumption, DetectorAssumption DEF Restart, TypeOK, NotInGrace
<1>5. CASE UNCHANGED vars
  BY <1>5 DEF vars, detector, reported, TypeOK
<1> QED
  BY <1>1, <1>2, <1>3, <1>4, <1>5 DEF Next, PollNothing

\* The detector's tables, whatever the rules and the order of messages, stay what
\* they are read as; histories keep their bound and no count passes its limit.
THEOREM DetectorTypeCorrect == Spec => []TypeOK
<1>1. Init => TypeOK
  BY InitTypes
<1>2. TypeOK /\ [Next]_vars => TypeOK'
  BY NextTypes
<1> QED
  BY <1>1, <1>2, PTL DEF Spec

(***************************************************************************)
(* Confirmation                                                            *)
(***************************************************************************)

LEMMA OneMoreTime ==
  ASSUME NEW a \in Nat, NEW b \in Nat
  PROVE  a * b \in Nat /\ a * (b + 1) = a * b + a /\ a * (1 + b) = a + a * b
  OBVIOUS

\* The count of a detection falls behind the readings in a row it fires for only by
\* ConfirmationCount for each setback.
CountsKeepUp ==
  \A s \in Sensors, d \in Detections :
    unbroken[s][d] <= counts[s][d] + ConfirmationCount * setbacks[s][d]

LEMMA EvaluateKeepsUp ==
  ASSUME TypeOK, CountsKeepUp, NEW s \in Sensors, Evaluate(s)
  PROVE  CountsKeepUp'
<1> DEFINE fires == Firing(s, histories')
           confirmed == {d \in fires : counts[s][d] + 1 >= ConfirmationCount}
<1>1. counts' = [counts EXCEPT ![s] = CountsAfter(s, fires, confirmed)]
  BY DEF Evaluate
<1>2. PICK sent \in SUBSET confirmed :
        /\ unbroken' = [unbroken EXCEPT ![s] =
             [d \in Detections |-> IF d \in fires \ sent THEN @[d] + 1 ELSE 0]]
        /\ setbacks' = [setbacks EXCEPT ![s] =
             [d \in Detections |-> IF d \notin fires \ sent THEN 0
                                   ELSE @[d] + (IF d \in confirmed THEN 1 ELSE 0)]]
  BY DEF Evaluate
<1>c. \A d : d \in confirmed => d \in fires /\ counts[s][d] + 1 >= ConfirmationCount
  OBVIOUS
<1> HIDE DEF fires, confirmed
<1> SUFFICES ASSUME NEW t \in Sensors, NEW d \in Detections
             PROVE  unbroken'[t][d] <= counts'[t][d] + ConfirmationCount * setbacks'[t][d]
  BY DEF CountsKeepUp
<1>3. /\ counts[t][d] \in Nat /\ unbroken[t][d] \in Nat /\ setbacks[t][d] \in Nat
      /\ ConfirmationCount \in Nat
      /\ unbroken[t][d] <= counts[t][d] + ConfirmationCount * setbacks[t][d]
  BY DetectorAssumption DEF TypeOK, PerDetection, CountsKeepUp
<1>4. CASE t # s
  BY <1>1, <1>2, <1>3, <1>4 DEF TypeOK
<1>5. CASE t = s
  <2>1. counts'[t][d] = IF d \in confirmed THEN 0 ELSE counts[s][d] + (IF d \in fires THEN 1 ELSE 0)
    BY <1>1, <1>5 DEF TypeOK, PerDetection, CountsAfter
  <2>2. /\ unbroken'[t][d] = IF d \in fires \ sent THEN unbroken[s][d] + 1 ELSE 0
        /\ setbacks'[t][d] = IF d \notin fires \ sent THEN 0
                             ELSE setbacks[s][d] + (IF d \in confirmed THEN 1 ELSE 0)
    BY <1>2, <1>5 DEF TypeOK, PerDetection
  <2>3. CASE d \notin fires \ sent
    BY <2>1, <2>2, <2>3, <1>3, <1>5
  <2>4. CASE d \in fires \ sent /\ d \notin confirmed
    BY <2>1, <2>2, <2>4, <1>3, <1>5
  <2>5. CASE d \in (fires \cap confirmed) \ sent
    <3>1. ConfirmationCount * setbacks'[t][d] = ConfirmationCount * setbacks[t][d] + ConfirmationCount
      BY <2>2, <2>5, <1>3, <1>5, OneMoreTime
    <3>2. counts[t][d] + 1 <= ConfirmationCount
      BY <1>3, DetectorAssumption DEF TypeOK
    <3>3. ConfirmationCount * setbacks[t][d] \in Nat
      BY <1>3, OneMoreTime
    <3> QED
      BY <2>1, <2>2, <2>5, <3>1, <3>2, <3>3, <1>3, <1>5
  <2> QED
    BY <2>3, <2>4, <2>5
<1> QED
  BY <1>4, <1>5

LEMMA NextKeepsUp == TypeOK /\ CountsKeepUp /\ [Next]_vars => CountsKeepUp'
<1> SUFFICES ASSUME TypeOK, CountsKeepUp, [Next]_vars PROVE CountsKeepUp'
  OBVIOUS
<1>1. CASE UNCHANGED <<counts, unbroken, setbacks>>
  BY <1>1 DEF CountsKeepUp
<1>2. CASE ProcessReading
  <2>1. Head(todo) \in Sensors
    BY <1>2 DEF ProcessReading, TypeOK
  <2>2. CASE Silent(Head(todo))
    BY <2>2, <1>1 DEF Silent, reported
  <2>3. CASE Evaluate(Head(todo))
    BY <2>1, <2>3, EvaluateKeepsUp
  <2> QED
    BY <1>2, <2>2, <2>3 DEF ProcessReading
<1>3. CASE Restart
  <2> SUFFICES ASSUME NEW s \in Sensors, NEW d \in Detections
               PROVE  unbroken'[s][d] <= counts'[s][d] + ConfirmationCount * setbacks'[s][d]
    BY DEF CountsKeepUp
  <2>1. /\ unbroken'[s][d] = unbroken[s][d] /\ counts'[s][d] = 0
        /\ setbacks'[s][d] = IF unbroken[s][d] = 0 THEN 0 ELSE setbacks[s][d] + 1
    BY <1>3 DEF Restart, None
  <2>2. /\ unbroken[s][d] \in Nat /\ setbacks[s][d] \in Nat /\ counts[s][d] \in Nat
        /\ ConfirmationCount \in Nat /\ counts[s][d] < ConfirmationCount
        /\ unbroken[s][d] <= counts[s][d] + ConfirmationCount * setbacks[s][d]
    BY DetectorAssumption DEF TypeOK, PerDetection, CountsKeepUp
  <2>3. CASE unbroken[s][d] = 0
    BY <2>1, <2>2, <2>3
  <2>4. CASE unbroken[s][d] # 0
    <3>1. ConfirmationCount * setbacks'[s][d] = ConfirmationCount * setbacks[s][d] + ConfirmationCount
          /\ ConfirmationCount * setbacks[s][d] \in Nat
      BY <2>1, <2>2, <2>4, OneMoreTime
    <3>2. PICK before \in Nat : before = ConfirmationCount * setbacks[s][d]
      BY <3>1
    <3>3. ConfirmationCount * setbacks'[s][d] = before + ConfirmationCount
      BY <3>1, <3>2
    <3>4. unbroken[s][d] <= counts[s][d] + before
      BY <2>2, <3>2
    <3> QED
      BY <2>1, <2>2, <3>3, <3>4
  <2> QED
    BY <2>3, <2>4
<1> QED
  BY <1>1, <1>2, <1>3 DEF Next, Receive, Skip, PollNothing, vars, detector, reported

\* Whatever the rules, the order of messages, the alerts lost and the restarts, a
\* detection is reported at the latest with the reading that makes it fire
\* ConfirmationCount times in a row, and as many times more for each alert of it that
\* is lost and each restart since it began.
THEOREM PersistentFaultsAreReported == Spec => []PersistentFaultIsReported
<1>1. Init => TypeOK /\ CountsKeepUp
  <2>1. ConfirmationCount * 0 = 0
    BY DetectorAssumption
  <2> QED
    BY <2>1, InitTypes DEF Init, None, CountsKeepUp
<1>2. (TypeOK /\ CountsKeepUp) /\ [Next]_vars => (TypeOK /\ CountsKeepUp)'
  BY NextTypes, NextKeepsUp
<1>3. TypeOK /\ CountsKeepUp => PersistentFaultIsReported
  <2> SUFFICES ASSUME TypeOK, CountsKeepUp, NEW s \in Sensors, NEW d \in Detections
               PROVE  unbroken[s][d] < ConfirmationCount * (1 + setbacks[s][d])
    BY DEF PersistentFaultIsReported
  <2>1. /\ unbroken[s][d] \in Nat /\ setbacks[s][d] \in Nat /\ counts[s][d] \in Nat
        /\ ConfirmationCount \in Nat /\ counts[s][d] < ConfirmationCount
        /\ unbroken[s][d] <= counts[s][d] + ConfirmationCount * setbacks[s][d]
    BY DetectorAssumption DEF TypeOK, PerDetection, CountsKeepUp
  <2>2. /\ ConfirmationCount * (1 + setbacks[s][d]) = ConfirmationCount + ConfirmationCount * setbacks[s][d]
        /\ ConfirmationCount * setbacks[s][d] \in Nat
    BY <2>1, OneMoreTime
  <2> QED
    BY <2>1, <2>2
<1> QED
  BY <1>1, <1>2, <1>3, PTL DEF Spec

(***************************************************************************)
(* Spacing of the alerts                                                   *)
(***************************************************************************)

\* Messages in order never date from before the latest one.
InTime == message.at <= latest

\* What a sensor has published in this life is covered by its grace period, or that
\* is over at the time of the message in hand.
GraceCovers ==
  \A a \in topic :
    /\ a.life <= restarts
    /\ a.life = restarts =>
         /\ a.at <= message.at
         /\ IF grace[a.sensor] = NotInGrace THEN a.at + Grace <= message.at
            ELSE a.at + Grace <= grace[a.sensor]

SpacingInv == TypeOK /\ InTime /\ GraceCovers /\ AlertsAreSpaced

LEMMA EvaluateSpaces ==
  ASSUME SpacingInv, NEW s \in Sensors, Evaluate(s), UNCHANGED <<message, latest, restarts>>
  PROVE  GraceCovers' /\ AlertsAreSpaced'
<1> DEFINE fires == Firing(s, histories')
           confirmed == {d \in fires : counts[s][d] + 1 >= ConfirmationCount}
           new(d) == [sensor |-> s, detection |-> d, at |-> message.at, life |-> restarts]
<1>1. PICK sent \in SUBSET confirmed : topic' = topic \cup {new(d) : d \in sent}
  BY DEF Evaluate, Publish
<1>2. grace' = [grace EXCEPT ![s] = IF confirmed = {} THEN NotInGrace ELSE message.at + Grace]
  BY DEF Evaluate
<1> HIDE DEF fires, confirmed
<1>3. /\ message.at \in Nat /\ Grace \in Nat /\ Grace > 0 /\ restarts \in Nat
      /\ \A t \in Sensors : grace[t] \in Nat
      /\ \A a \in topic : a.at \in Nat /\ a.life \in Nat /\ a.sensor \in Sensors
  <2>1. /\ message \in Message /\ restarts \in Nat /\ grace \in [Sensors -> Nat]
        /\ topic \subseteq Alert
    BY DEF SpacingInv, TypeOK
  <2>2. message.at \in Nat
    BY <2>1 DEF Message
  <2>3. Grace \in Nat /\ Grace > 0
    BY DetectorAssumption
  <2>4. \A a \in topic : a.at \in Nat /\ a.life \in Nat /\ a.sensor \in Sensors
    BY <2>1 DEF Alert
  <2> QED BY <2>1, <2>2, <2>3, <2>4
<1>4. \A a \in topic : a.sensor = s /\ a.life = restarts => a.at + Grace <= message.at
  <2>1. grace[s] = NotInGrace \/ ~(message.at < grace[s])
    BY DEF Evaluate, InGrace
  <2>2. GraceCovers
    BY DEF SpacingInv
  <2> SUFFICES ASSUME NEW a \in topic, a.sensor = s, a.life = restarts
               PROVE  a.at + Grace <= message.at
    OBVIOUS
  <2>3. IF grace[s] = NotInGrace THEN a.at + Grace <= message.at
        ELSE a.at + Grace <= grace[s]
    BY <2>2 DEF GraceCovers
  <2>4. a.at \in Nat /\ grace[s] \in Nat
    BY <1>3
  <2> QED BY <1>3, <2>1, <2>3, <2>4
<1>5. GraceCovers'
  <2> SUFFICES ASSUME NEW a \in topic'
               PROVE  /\ a.life <= restarts
                      /\ a.life = restarts =>
                           /\ a.at <= message.at
                           /\ IF grace'[a.sensor] = NotInGrace THEN a.at + Grace <= message.at
                              ELSE a.at + Grace <= grace'[a.sensor]
    BY DEF GraceCovers
  <2>1. CASE a \in topic /\ a.sensor = s
    BY <2>1, <1>2, <1>3, <1>4 DEF SpacingInv, TypeOK, GraceCovers
  <2>2. CASE a \in topic /\ a.sensor # s
    BY <2>2, <1>2, <1>3 DEF SpacingInv, TypeOK, GraceCovers
  <2>3. CASE a \notin topic
    <3>1. PICK d \in sent : a = new(d)
      BY <1>1, <2>3
    <3>2. confirmed # {}
      BY <3>1
    <3>3. grace'[s] = message.at + Grace
      BY <1>2, <3>2 DEF SpacingInv, TypeOK
    <3> QED
      BY <3>1, <3>3, <1>3 DEF NotInGrace
  <2> QED
    BY <2>1, <2>2, <2>3
<1>6. AlertsAreSpaced'
  <2> SUFFICES ASSUME NEW a \in topic', NEW b \in topic',
                      a.sensor = b.sensor, a.life = b.life, a.at < b.at
               PROVE  b.at >= a.at + Grace
    BY DEF AlertsAreSpaced
  <2>1. CASE a \in topic /\ b \in topic
    BY <2>1 DEF SpacingInv, AlertsAreSpaced
  <2>2. CASE a \in topic /\ b \notin topic
    <3>1. PICK d \in sent : b = new(d)
      BY <1>1, <2>2
    <3> QED
      BY <3>1, <2>2, <1>4
  <2>3. CASE a \notin topic
    <3>1. PICK d \in sent : a = new(d)
      BY <1>1, <2>3
    <3>2. CASE b \in topic
      BY <3>1, <3>2, <1>3 DEF SpacingInv, GraceCovers
    <3>3. CASE b \notin topic
      <4>1. PICK e \in sent : b = new(e)
        BY <1>1, <3>3
      <4> QED
        BY <3>1, <4>1, <1>3
    <3> QED
      BY <3>2, <3>3
  <2> QED
    BY <2>1, <2>2, <2>3
<1> QED
  BY <1>5, <1>6

LEMMA NextSpaces == InOrder /\ SpacingInv /\ [Next]_vars => SpacingInv'
<1> SUFFICES ASSUME InOrder, SpacingInv, [Next]_vars PROVE SpacingInv'
  OBVIOUS
<1>0. TypeOK'
  BY NextTypes DEF SpacingInv
<1>1. ASSUME NEW at \in Times, NEW values \in Reportable, Receive(at, values) PROVE SpacingInv'
  <2>1. /\ at \in Nat /\ latest \in Nat /\ message.at \in Nat /\ Grace \in Nat
        /\ at >= latest /\ message'.at = at /\ latest' >= at
        /\ \A a \in topic : a.at \in Nat
    BY <1>1, DetectorAssumption DEF SpacingInv, TypeOK, Message, Alert, Receive
  <2>2. InTime'
    BY <2>1, <1>0 DEF InTime, TypeOK
  <2>3. UNCHANGED <<topic, grace, restarts>>
    BY <1>1 DEF Receive, detector
  <2>4. GraceCovers'
    BY <2>1, <2>3 DEF SpacingInv, GraceCovers, InTime
  <2> QED
    BY <1>0, <2>2, <2>3, <2>4 DEF SpacingInv, AlertsAreSpaced
<1>2. ASSUME NEW at \in Times, Skip(at) PROVE SpacingInv'
  <2>1. UNCHANGED <<topic, grace, message, restarts>> /\ latest' >= latest
    BY <1>2, DetectorAssumption DEF Skip, detector, SpacingInv, TypeOK
  <2>2. message.at \in Nat /\ latest \in Nat /\ latest' \in Nat
    BY <1>0 DEF SpacingInv, TypeOK, Message
  <2> QED
    BY <1>0, <2>1, <2>2 DEF SpacingInv, InTime, GraceCovers, AlertsAreSpaced
<1>3. CASE ProcessReading
  <2>1. UNCHANGED <<message, latest, restarts>> /\ Head(todo) \in Sensors
    BY <1>3 DEF ProcessReading, SpacingInv, TypeOK
  <2>2. CASE Silent(Head(todo))
    BY <1>0, <2>1, <2>2 DEF Silent, SpacingInv, InTime, GraceCovers, AlertsAreSpaced
  <2>3. CASE Evaluate(Head(todo))
    BY <1>0, <2>1, <2>3, EvaluateSpaces DEF SpacingInv, InTime
  <2> QED
    BY <1>3, <2>2, <2>3 DEF ProcessReading
<1>4. CASE Restart
  <2>1. restarts \in Nat /\ \A a \in topic : a.life \in Nat
    BY DetectorAssumption DEF SpacingInv, TypeOK, Alert
  <2> QED
    BY <1>0, <1>4, <2>1 DEF Restart, SpacingInv, InTime, GraceCovers, AlertsAreSpaced
<1>5. CASE UNCHANGED vars
  BY <1>0, <1>5 DEF vars, detector, SpacingInv, InTime, GraceCovers, AlertsAreSpaced
<1> QED
  BY <1>1, <1>2, <1>3, <1>4, <1>5 DEF Next, PollNothing

\* When messages arrive in time order, a life of the detector publishes alerts of a
\* sensor from one reading or at least a grace period apart, for any rules and
\* also when publishing fails.
THEOREM AlertsAreAlwaysSpaced == ASSUME InOrder PROVE Spec => []AlertsAreSpaced
<1>1. Init => SpacingInv
  BY InitTypes DEF Init, SpacingInv, InTime, GraceCovers, AlertsAreSpaced
<1>2. SpacingInv /\ [Next]_vars => SpacingInv'
  BY NextSpaces
<1>3. SpacingInv => AlertsAreSpaced
  BY DEF SpacingInv
<1> QED
  BY <1>1, <1>2, <1>3, PTL DEF Spec

(***************************************************************************)
(* What a sensor that counts as stuck has reported                         *)
(***************************************************************************)

\* Readings are a period apart at least.
Spaced(h) == \A j, k \in DOMAIN h : j < k => h[k].at - h[j].at >= Period * (k - j)

LEMMA Multiples ==
  ASSUME NEW a \in Int, NEW b \in Int
  PROVE  /\ Period \in Nat /\ Period > 0 /\ Period * a \in Int
         /\ Period * (a + 1) = Period * a + Period
         /\ a <= b => Period * a <= Period * b
         /\ a < b => Period * a + Period <= Period * b
<1>1. Period \in Nat /\ Period > 0
  BY DetectorAssumption
<1>2. Period * a \in Int /\ Period * (a + 1) = Period * a + Period
  BY <1>1
<1>3. \A n \in Nat : Period * n \in Nat
  BY <1>1
<1>4. ASSUME a <= b PROVE Period * a <= Period * b
  <2>1. b - a \in Nat /\ Period * (b - a) \in Nat
    BY <1>3, <1>4
  <2>2. Period * (b - a) = Period * b - Period * a
    BY <1>1
  <2> QED BY <1>1, <2>1, <2>2
<1>5. ASSUME a < b PROVE Period * a + Period <= Period * b
  <2>1. b - (a + 1) \in Nat /\ Period * (b - (a + 1)) \in Nat
    BY <1>3, <1>5
  <2>2. Period * (b - (a + 1)) = Period * b - Period * a - Period
    BY <1>1
  <2> QED BY <1>1, <2>1, <2>2
<1> QED BY <1>1, <1>2, <1>4, <1>5

LEMMA HistoryFacts ==
  ASSUME NEW h \in Seq(Reading)
  PROVE  /\ Len(h) \in Nat /\ DOMAIN h = 1..Len(h)
         /\ \A k \in 1..Len(h) : h[k].at \in Nat
<1>1. Len(h) \in Nat /\ DOMAIN h = 1..Len(h)
  BY LenProperties
<1>2. \A k \in 1..Len(h) : h[k] \in Reading
  BY ElementOfSeq
<1>3. \A r \in Reading : r.at \in Nat
  BY DEF Reading
<1> QED BY <1>1, <1>2, <1>3

\* How long ago a reading was, seen from the last one.
LEMMA SpacedSpan ==
  ASSUME NEW h \in Seq(Reading), Spaced(h)
  PROVE  \A j \in 1..Len(h) : h[Len(h)].at - h[j].at >= Period * (Len(h) - j)
<1> SUFFICES ASSUME NEW j \in 1..Len(h) PROVE h[Len(h)].at - h[j].at >= Period * (Len(h) - j)
  OBVIOUS
<1> DEFINE k == Len(h)
<1>1. /\ k \in Nat /\ DOMAIN h = 1..k /\ j \in 1..k /\ k \in 1..k
      /\ h[j].at \in Nat /\ h[k].at \in Nat
  BY HistoryFacts
<1> HIDE DEF k
<1>2. ASSUME j < k
      PROVE  h[k].at - h[j].at >= Period * (k - j)
  BY <1>1, <1>2 DEF Spaced
<1>3. ASSUME ~(j < k)
      PROVE  h[k].at - h[j].at >= Period * (k - j)
  <2>1. j = k /\ k - j = 0
    BY <1>1, <1>3
  <2>2. Period * 0 = 0
    BY DetectorAssumption
  <2> QED BY <1>1, <2>1, <2>2
<1>4. h[k].at - h[j].at >= Period * (k - j)
  BY <1>2, <1>3
<1> QED BY <1>4 DEF k

\* A fifth of a number, without its remainder.
LEMMA Fifths ==
  ASSUME NEW x \in Nat
  PROVE  \E m \in Nat : 5 * m <= x /\ x < 5 * (m + 1)
<1>1. x \div 5 \in Nat /\ 5 * (x \div 5) <= x /\ x < 5 * ((x \div 5) + 1)
  OBVIOUS
<1> QED BY <1>1

\* As many readings with one value as StuckValue asks for reach back over most of the
\* duration: between the first of them and the newest there is a period for each.
LEMMA StuckReachesBack ==
  ASSUME NEW h \in Seq(Reading), Spaced(h), StuckValue(h)
  PROVE  \E k \in DOMAIN h : /\ h[k].value = Newest(h).value
                             /\ 5 * (Newest(h).at - h[k].at + Period) > 4 * StuckDuration * Period
<1> DEFINE same == {k \in Window(h, StuckDuration * Second) : h[k].value = Newest(h).value}
           n == Len(h)
<1>1. n \in Nat /\ DOMAIN h = 1..n /\ \A k \in 1..n : h[k].at \in Nat
  BY HistoryFacts
<1>2. n >= 2 /\ 5 * Cardinality(same) > 4 * StuckDuration
  BY DEF StuckValue
<1>3. same \subseteq 1..n /\ \A k \in same : h[k].value = Newest(h).value
  BY <1>1 DEF Window
<1>4. StuckDuration \in Nat
  BY DetectorOpsAssumption
<1>5. Newest(h) = h[n]
  BY DEF Newest
<1> HIDE DEF same, n
<1> SUFFICES ASSUME \A k \in same :
                      ~(5 * (h[n].at - h[k].at + Period) > 4 * StuckDuration * Period)
             PROVE  FALSE
  BY <1>1, <1>3, <1>5
<1>6. PICK m \in Nat : 5 * m <= 4 * StuckDuration /\ 4 * StuckDuration < 5 * (m + 1)
  <2>1. 4 * StuckDuration \in Nat
    BY <1>4
  <2> QED BY <2>1, Fifths
<1>7. same \subseteq (n - m + 1)..n
  <2> SUFFICES ASSUME NEW k \in same PROVE k \in (n - m + 1)..n
    OBVIOUS
  <2>1. k \in 1..n /\ n \in 1..n /\ h[k].at \in Nat /\ h[n].at \in Nat /\ n \in Nat
    BY <1>1, <1>2, <1>3
  <2>2. PICK old \in Nat, new \in Nat : old = h[k].at /\ new = h[n].at
    BY <2>1
  <2>3. new - old >= Period * (n - k)
    <3>1. h[n].at - h[k].at >= Period * (n - k)
      BY <2>1, SpacedSpan DEF n
    <3> QED BY <2>2, <3>1
  <2>4. ~(5 * (new - old + Period) > 4 * StuckDuration * Period)
    BY <2>2
  <2>5. 5 * (n - k + 1) < 5 * (m + 1)
    <3> DEFINE a == n - k + 1
               c == 4 * StuckDuration
    <3>1. a \in Int /\ c \in Int /\ 5 * a \in Int /\ Period \in Nat
      BY <1>4, <2>1, Multiples
    <3>2. Period * a = Period * (n - k) + Period /\ Period * (n - k) \in Int
      <4>1. n - k \in Int /\ a = (n - k) + 1
        BY <2>1
      <4> HIDE DEF a
      <4> QED BY <4>1, Multiples
    <3>3. c * Period = Period * c /\ Period * (5 * a) = 5 * (Period * a)
      BY <3>1
    <3>4. 5 * (Period * a) <= Period * c
      <4>1. ~(5 * (new - old + Period) > Period * c)
        BY <2>4, <3>3
      <4>2. Period * c \in Int
        BY <3>1
      <4> HIDE DEF a, c
      <4> QED BY <2>3, <3>1, <3>2, <4>1, <4>2
    <3>5. ~(c < 5 * a)
      <4>1. c < 5 * a => Period * c + Period <= Period * (5 * a)
        BY <3>1, Multiples
      <4>2. Period > 0 /\ Period * c \in Int /\ Period * (5 * a) \in Int
        BY <3>1, Multiples
      <4> HIDE DEF a, c
      <4> QED BY <3>1, <3>3, <3>4, <4>1, <4>2
    <3> QED BY <1>4, <1>6, <2>1, <3>1, <3>5
  <2>6. n - k < m
    BY <1>6, <2>1, <2>5
  <2> QED BY <1>6, <2>1, <2>6
<1>8. IsFiniteSet((n - m + 1)..n) /\ Cardinality((n - m + 1)..n) = m
  <2>1. n - m + 1 \in Int /\ n \in Int
    BY <1>1, <1>6
  <2>2. /\ IsFiniteSet((n - m + 1)..n)
        /\ Cardinality((n - m + 1)..n) = IF n - m + 1 > n THEN 0 ELSE n - (n - m + 1) + 1
    BY <2>1, FS_Interval
  <2> QED BY <1>1, <1>6, <2>2
<1>9. Cardinality(same) \in Nat /\ Cardinality(same) <= m
  BY <1>7, <1>8, FS_Subset, FS_CardinalityType
<1> QED BY <1>2, <1>4, <1>6, <1>9

\* A reading that is a period younger than those remembered keeps them apart.
LEMMA RememberSpaces ==
  ASSUME NEW h \in Seq(Reading), NEW r \in Reading, Spaced(h),
         \A k \in DOMAIN h : h[k].at + Period <= r.at
  PROVE  /\ Spaced(Remember(h, r))
         /\ \A k \in DOMAIN Remember(h, r) : Remember(h, r)[k].at <= r.at
<1>0. r.at \in Nat
  BY DEF Reading
<1>1. ASSUME NEW g \in Seq(Reading), Spaced(g), \A k \in DOMAIN g : g[k].at + Period <= r.at
      PROVE  /\ Spaced(Append(g, r))
             /\ \A k \in DOMAIN Append(g, r) : Append(g, r)[k].at <= r.at
  <2>1. Len(g) \in Nat /\ DOMAIN g = 1..Len(g) /\ \A k \in 1..Len(g) : g[k].at \in Nat
    BY HistoryFacts
  <2>2. /\ Append(g, r) \in Seq(Reading) /\ Len(Append(g, r)) = Len(g) + 1
        /\ \A k \in 1..Len(g) : Append(g, r)[k] = g[k]
        /\ Append(g, r)[Len(g) + 1] = r
    BY AppendProperties
  <2>3. DOMAIN Append(g, r) = 1..Len(g) + 1
    BY <2>2, LenProperties
  <2>4. \A k \in 1..Len(g) : r.at - g[k].at >= Period * (Len(g) + 1 - k)
    <3> SUFFICES ASSUME NEW k \in 1..Len(g) PROVE r.at - g[k].at >= Period * (Len(g) + 1 - k)
      OBVIOUS
    <3>1. Len(g) \in 1..Len(g) /\ g[Len(g)].at + Period <= r.at
      BY <1>1, <2>1
    <3>2. g[Len(g)].at - g[k].at >= Period * (Len(g) - k)
      BY <1>1, SpacedSpan
    <3>3. PICK old \in Nat, last \in Nat : old = g[k].at /\ last = g[Len(g)].at
      BY <2>1, <3>1
    <3>4. last + Period <= r.at /\ last - old >= Period * (Len(g) - k)
      BY <3>1, <3>2, <3>3
    <3>5. /\ Period * (Len(g) - k + 1) = Period * (Len(g) - k) + Period
          /\ Period * (Len(g) - k) \in Int /\ Period \in Nat /\ Len(g) - k + 1 = Len(g) + 1 - k
      <4>1. Len(g) - k \in Int /\ Len(g) - k + 1 = Len(g) + 1 - k
        BY <2>1
      <4> QED BY <4>1, Multiples
    <3>6. r.at - old >= Period * (Len(g) + 1 - k)
      BY <1>0, <3>4, <3>5
    <3> QED BY <3>3, <3>6
  <2>5. \A k \in 1..Len(g) + 1 : (k \in 1..Len(g) /\ Append(g, r)[k] = g[k])
                                \/ (k = Len(g) + 1 /\ Append(g, r)[k] = r)
    BY <2>1, <2>2
  <2>6. Spaced(Append(g, r))
    <3> SUFFICES ASSUME NEW j \in 1..Len(g) + 1, NEW k \in 1..Len(g) + 1, j < k
                 PROVE  Append(g, r)[k].at - Append(g, r)[j].at >= Period * (k - j)
      BY <2>3 DEF Spaced
    <3>1. j \in 1..Len(g) /\ Append(g, r)[j] = g[j]
      BY <2>1, <2>5
    <3>2. CASE k \in 1..Len(g)
      BY <1>1, <2>1, <2>2, <3>1, <3>2 DEF Spaced
    <3>3. CASE k = Len(g) + 1
      BY <2>2, <2>4, <3>1, <3>3
    <3> QED BY <2>5, <3>2, <3>3
  <2> QED BY <1>0, <1>1, <2>1, <2>3, <2>5, <2>6, DetectorAssumption
<1>2. CASE Len(h) < HistoryLen
  BY <1>1, <1>2 DEF Remember
<1>3. CASE ~(Len(h) < HistoryLen)
  <2>1. Len(h) \in Nat /\ DOMAIN h = 1..Len(h) /\ Len(h) # 0
    BY <1>3, HistoryFacts, DetectorOpsAssumption
  <2>2. h # <<>>
    BY <2>1, EmptySeq
  <2>3. /\ Tail(h) \in Seq(Reading) /\ Len(Tail(h)) = Len(h) - 1
        /\ \A k \in 1..Len(Tail(h)) : Tail(h)[k] = h[k + 1]
    BY <2>2, HeadTailProperties
  <2>4. DOMAIN Tail(h) = 1..Len(h) - 1
    BY <2>3, LenProperties
  <2>5. \A k \in DOMAIN Tail(h) : k \in Int /\ k + 1 \in DOMAIN h /\ Tail(h)[k] = h[k + 1]
    BY <2>1, <2>3, <2>4
  <2>6. Spaced(Tail(h))
    <3> SUFFICES ASSUME NEW j \in DOMAIN Tail(h), NEW k \in DOMAIN Tail(h), j < k
                 PROVE  Tail(h)[k].at - Tail(h)[j].at >= Period * (k - j)
      BY DEF Spaced
    <3>1. h[k + 1].at - h[j + 1].at >= Period * ((k + 1) - (j + 1))
      BY <2>5 DEF Spaced
    <3>2. (k + 1) - (j + 1) = k - j
      BY <2>5
    <3> QED BY <2>5, <3>1, <3>2
  <2>7. \A k \in DOMAIN Tail(h) : Tail(h)[k].at + Period <= r.at
    BY <2>5
  <2> QED BY <1>1, <1>3, <2>3, <2>6, <2>7 DEF Remember
<1> QED BY <1>2, <1>3

\* Each sensor's history is spaced, reaches up to the message in hand at most, and ends
\* before it for the sensors that are still to be processed, each of them once.
ReadingsSpaced ==
  /\ message.at <= latest
  /\ \A s \in Sensors : /\ Spaced(histories[s])
                        /\ \A k \in DOMAIN histories[s] : histories[s][k].at <= message.at
  /\ \A i \in DOMAIN todo : \A k \in DOMAIN histories[todo[i]] :
       histories[todo[i]][k].at + Period <= message.at
  /\ \A i, j \in DOMAIN todo : todo[i] = todo[j] => i = j

LEMMA ReceiveSpaces ==
  ASSUME InOrder, TypeOK, ReadingsSpaced,
         NEW at \in Times, NEW values \in Reportable, Receive(at, values)
  PROVE  ReadingsSpaced'
<1>1. /\ message'.at = at /\ todo' = Order /\ UNCHANGED histories
      /\ latest' = IF at > latest THEN at ELSE latest
  BY DEF Receive, detector
<1>2. at \in Nat /\ Period \in Nat /\ latest \in Nat /\ message.at \in Nat /\ at >= message.at + Period
  BY DetectorAssumption DEF Receive, ReadingsSpaced, TypeOK, Message
<1>3. \A s \in Sensors : \A k \in DOMAIN histories[s] :
        histories[s][k].at \in Nat /\ histories[s][k].at + Period <= at
  <2> SUFFICES ASSUME NEW s \in Sensors, NEW k \in DOMAIN histories[s]
               PROVE  histories[s][k].at \in Nat /\ histories[s][k].at + Period <= at
    OBVIOUS
  <2>1. histories[s] \in Seq(Reading)
    BY DEF TypeOK
  <2>2. histories[s][k].at \in Nat
    BY <2>1, HistoryFacts
  <2>3. histories[s][k].at <= message.at
    BY DEF ReadingsSpaced
  <2> QED BY <1>2, <2>2, <2>3
<1>4. \A i \in DOMAIN Order : Order[i] \in Sensors
  BY DetectorAssumption, LenProperties, ElementOfSeq
<1>5. message'.at <= latest'
  BY <1>1, <1>2
<1> QED BY <1>1, <1>2, <1>3, <1>4, <1>5, OrderAssumption DEF ReadingsSpaced

LEMMA ProcessSpaces ==
  ASSUME TypeOK, ReadingsSpaced, ProcessReading
  PROVE  ReadingsSpaced'
<1> DEFINE s == Head(todo)
           r == [at |-> message.at, value |-> message.values[s]]
<1>1. /\ todo' = Tail(todo) /\ UNCHANGED <<message, latest>> /\ todo # <<>>
      /\ histories' = [histories EXCEPT ![s] = Remember(@, r)]
  BY DEF ProcessReading, Recall
<1>2. /\ Len(todo) \in Nat /\ DOMAIN todo = 1..Len(todo) /\ Len(todo) # 0
      /\ s = todo[1] /\ s \in Sensors
      /\ DOMAIN todo' = 1..Len(todo) - 1
      /\ \A i \in 1..Len(todo) - 1 : todo'[i] = todo[i + 1]
  <2>1. todo \in Seq(Sensors)
    BY DEF TypeOK
  <2>2. Len(todo) \in Nat /\ DOMAIN todo = 1..Len(todo) /\ Len(todo) # 0
    BY <1>1, <2>1, LenProperties, EmptySeq
  <2>3. /\ Tail(todo) \in Seq(Sensors) /\ Len(Tail(todo)) = Len(todo) - 1 /\ s \in Sensors
        /\ \A i \in 1..Len(Tail(todo)) : Tail(todo)[i] = todo[i + 1]
    BY <1>1, <2>1, HeadTailProperties
  <2>4. s = todo[1]
    BY <2>1, <2>2
  <2>5. DOMAIN Tail(todo) = 1..Len(Tail(todo))
    BY <2>3, LenProperties
  <2> QED BY <1>1, <2>2, <2>3, <2>4, <2>5
<1>3. r \in Reading /\ r.at = message.at
  BY <1>2 DEF TypeOK, Message, Reading
<1>4. histories[s] \in Seq(Reading) /\ histories \in [Sensors -> Seq(Reading)]
  BY <1>2 DEF TypeOK
<1> HIDE DEF s, r
<1>5. Spaced(histories[s]) /\ \A k \in DOMAIN histories[s] : histories[s][k].at + Period <= message.at
  BY <1>2 DEF ReadingsSpaced
<1>6. /\ Spaced(Remember(histories[s], r))
      /\ \A k \in DOMAIN Remember(histories[s], r) : Remember(histories[s], r)[k].at <= message.at
  BY <1>3, <1>4, <1>5, RememberSpaces
<1>7. \A t \in Sensors : histories'[t] = IF t = s THEN Remember(histories[s], r) ELSE histories[t]
  BY <1>1, <1>4
<1>8. \A t \in Sensors : /\ Spaced(histories'[t])
                         /\ \A k \in DOMAIN histories'[t] : histories'[t][k].at <= message.at
  BY <1>6, <1>7 DEF ReadingsSpaced
<1>9. \A i \in DOMAIN todo' : /\ i + 1 \in DOMAIN todo /\ todo'[i] = todo[i + 1]
                             /\ todo'[i] # s /\ todo'[i] \in Sensors /\ i \in Int
  <2> SUFFICES ASSUME NEW i \in 1..Len(todo) - 1
               PROVE  i + 1 \in DOMAIN todo /\ todo[i + 1] # s /\ todo[i + 1] \in Sensors
    BY <1>2
  <2>1. i + 1 \in DOMAIN todo /\ 1 \in DOMAIN todo /\ i + 1 # 1
    BY <1>2
  <2>2. todo[i + 1] \in Sensors
    BY <1>2, <2>1, ElementOfSeq DEF TypeOK
  <2> QED BY <1>2, <2>1, <2>2 DEF ReadingsSpaced
<1>10. \A i \in DOMAIN todo' : \A k \in DOMAIN histories'[todo'[i]] :
         histories'[todo'[i]][k].at + Period <= message.at
  BY <1>7, <1>9 DEF ReadingsSpaced
<1>11. \A i, j \in DOMAIN todo' : todo'[i] = todo'[j] => i = j
  <2> SUFFICES ASSUME NEW i \in DOMAIN todo', NEW j \in DOMAIN todo', todo'[i] = todo'[j]
               PROVE  i = j
    OBVIOUS
  <2>1. i + 1 = j + 1
    BY <1>9 DEF ReadingsSpaced
  <2> QED BY <1>9, <2>1
<1>12. message.at <= latest
  BY DEF ReadingsSpaced
<1> QED BY <1>1, <1>8, <1>10, <1>11, <1>12 DEF ReadingsSpaced

LEMMA NextKeepsSpaced == InOrder /\ TypeOK /\ ReadingsSpaced /\ [Next]_vars => ReadingsSpaced'
<1> SUFFICES ASSUME InOrder, TypeOK, ReadingsSpaced, [Next]_vars PROVE ReadingsSpaced'
  OBVIOUS
<1>1. ASSUME NEW at \in Times, NEW values \in Reportable, Receive(at, values) PROVE ReadingsSpaced'
  BY <1>1, ReceiveSpaces
<1>2. ASSUME NEW at \in Times, Skip(at) PROVE ReadingsSpaced'
  <2>1. UNCHANGED <<histories, message, todo>> /\ latest' = IF at > latest THEN at ELSE latest
    BY <1>2 DEF Skip, detector
  <2>2. at \in Nat /\ latest \in Nat /\ message.at \in Nat /\ message.at <= latest
    BY DetectorAssumption DEF TypeOK, Message, ReadingsSpaced
  <2>3. message.at <= latest'
    BY <2>1, <2>2
  <2> QED BY <2>1, <2>3 DEF ReadingsSpaced
<1>3. CASE ProcessReading
  BY <1>3, ProcessSpaces
<1>4. CASE Restart
  <2>1. \A s \in Sensors : histories'[s] = <<>>
    BY <1>4 DEF Restart
  <2>2. todo' = <<>> /\ UNCHANGED <<message, latest>>
    BY <1>4 DEF Restart
  <2> QED BY <2>1, <2>2 DEF ReadingsSpaced, Spaced
<1>5. CASE UNCHANGED vars
  BY <1>5 DEF vars, detector, ReadingsSpaced
<1> QED BY <1>1, <1>2, <1>3, <1>4, <1>5 DEF Next, PollNothing

\* When messages arrive in order, at any rate, a sensor counts as stuck only after it has
\* reported its value over more than 0.8 times as many periods as the duration has
\* seconds, for any length of the history and whatever the other sensors report.  At
\* one message a second these are seconds; at a higher rate it is a shorter time.
THEOREM StuckAlwaysTakesTime ==
  ASSUME InOrder PROVE Spec => []StuckTakesTime
<1>1. Init => TypeOK /\ ReadingsSpaced
  BY InitTypes DEF Init, ReadingsSpaced, Spaced
<1>2. (TypeOK /\ ReadingsSpaced) /\ [Next]_vars => (TypeOK /\ ReadingsSpaced)'
  BY NextTypes, NextKeepsSpaced
<1>3. TypeOK /\ ReadingsSpaced => StuckTakesTime
  BY StuckReachesBack DEF TypeOK, ReadingsSpaced, StuckTakesTime
<1> QED BY <1>1, <1>2, <1>3, PTL DEF Spec
===============================================================================
