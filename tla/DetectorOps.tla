------------------------------ MODULE DetectorOps ------------------------------
(***************************************************************************)
(* The seven detections of anomaly_detection.AnomalyDetector: whether one  *)
(* fires for the newest reading, as operators on the sensors' histories.   *)
(*                                                                         *)
(* Timestamps count `Second' units a second, as do all durations but       *)
(* StuckDuration.  Each kind of rule has one set of parameters, and there  *)
(* is one rule per pair of sensors and one rule over several, as in        *)
(* anomaly_thresholds.json.  Severity and wording of an alert are left out.*)
(***************************************************************************)
EXTENDS Integers, Sequences, FiniteSets, Functions

CONSTANTS Sensors,
          Rpm,              \* TURBINE_SPEED_RPM
          Rules,            \* the enabled anomaly_rules of each sensor
          Limits,           \* Limits[s][state]: the ranges a value should be in
          HistoryLen,       \* maxlen of a history; 3600 in the code
          Second,           \* timestamp units in a second; 1000 in the code
          StuckDuration,    \* stuck_duration_seconds
          RiseLimit,        \* rise_threshold_per_minute * duration_minutes
          RiseWindow,       \* duration_minutes
          IncreasePercent,  \* increase_threshold_percent
          BaselineWindow,   \* baseline_window_minutes
          DriftPerHour,     \* drift_threshold_per_hour
          Hour,             \* 3600 seconds
          DriftReadings,    \* 60 readings and
          DriftElapsed,     \* 600 seconds at least
          TrackPair, MaxDivergence,  \* the should_track rule
          Conditions        \* the rule with sensor_conditions

SensorDetections == {"out_of_range", "stuck_value", "rapid_rise", "rapid_increase", "drift"}
Detections == SensorDetections \cup {"correlation_break", "multi_sensor"}
OperatingStates == {"IDLE", "RAMP_UP", "STEADY_STATE", "RAMP_DOWN"}

ASSUME DetectorOpsAssumption ==
  /\ Rpm \in Sensors /\ TrackPair \subseteq Sensors
  /\ Rules \in [Sensors -> SUBSET SensorDetections]
  /\ HistoryLen \in Nat \ {0} /\ StuckDuration \in Nat /\ Second \in Nat \ {0}

Reading == [at : Nat, value : Int]

Newest(h) == h[Len(h)]
Gap(a, b) == IF a >= b THEN a - b ELSE b - a

\* deque(maxlen=...).append
Remember(h, r) == Append(IF Len(h) < HistoryLen THEN h ELSE Tail(h), r)

\* _infer_turbine_state, from the last speed that was reported, however old it is.
TurbineState(hs) ==
  IF hs[Rpm] = <<>> THEN "STEADY_STATE"
  ELSE LET rpm == Newest(hs[Rpm]).value IN
       CASE rpm < 500 -> "IDLE"
         [] rpm > 12500 -> "RAMP_DOWN"
         [] rpm \in 11000..12500 -> "STEADY_STATE"
         [] OTHER -> "RAMP_UP"

\* The critical and the warning range of the state; a sensor without thresholds for
\* a state has no range there.
OutOfRange(s, hs) ==
  \E range \in Limits[s][TurbineState(hs)] :
    Newest(hs[s]).value < range.min \/ Newest(hs[s]).value > range.max

\* The readings of the last `span', whose sampling rate the code does not ask.
Window(h, span) == {k \in DOMAIN h : h[k].at >= Newest(h).at - span}

\* Defect: half of the duration will do.
MutStuckValue(h) ==
  /\ Len(h) >= 2
  /\ 2 * Cardinality({k \in Window(h, StuckDuration * Second) : h[k].value = Newest(h).value})
       > StuckDuration

\* The readings of the duration that have the newest value are more than 0.8 times its
\* seconds: a number of readings is compared with a time.
StuckValue(h) ==
  /\ Len(h) >= 2
  /\ 5 * Cardinality({k \in Window(h, StuckDuration * Second) : h[k].value = Newest(h).value})
       > 4 * StuckDuration

\* Compared is the first reading of the window in arrival order.
RapidRise(h) ==
  /\ Len(h) >= 2
  /\ \E k \in Window(h, RiseWindow) :
       /\ \A j \in Window(h, RiseWindow) : k <= j
       /\ Newest(h).value - h[k].value > RiseLimit

\* The newest value against the mean of the window, which it is part of; a negative
\* mean turns the comparison round.
RapidIncrease(h) ==
  LET window == Window(h, BaselineWindow)
      values == [k \in window |-> h[k].value]
      total == FoldFunctionOnSet(+, 0, values, window)
      above == 100 * (Newest(h).value * Cardinality(window) - total)
  IN /\ Len(h) >= 2
     /\ CASE total = 0 -> Newest(h).value > 0 /\ 100 > IncreasePercent
          [] total > 0 -> above > IncreasePercent * total
          [] total < 0 -> above < IncreasePercent * total

\* One and a half times the drift that the time since the oldest reading allows.
Drift(h) ==
  LET elapsed == Newest(h).at - h[1].at
  IN /\ Len(h) >= DriftReadings /\ elapsed >= DriftElapsed
     /\ 2 * Gap(Newest(h).value, h[1].value) * Hour > 3 * DriftPerHour * elapsed

\* The other sensor's last reading may be one message older.
CorrelationBreak(s, hs) ==
  /\ s \in TrackPair
  /\ \E other \in TrackPair \ {s} :
       hs[other] # <<>> /\ Gap(Newest(hs[s]).value, Newest(hs[other]).value) > MaxDivergence

Compare(value, operator, threshold) ==
  CASE operator = ">" -> value > threshold   [] operator = "<" -> value < threshold
    [] operator = ">=" -> value >= threshold [] operator = "<=" -> value <= threshold
    [] operator = "==" -> value = threshold  [] operator = "!=" -> value # threshold

\* Evaluated for a reading of any sensor.
MultiSensor(hs) ==
  /\ Conditions # {}
  /\ \A c \in Conditions :
       hs[c.sensor] # <<>> /\ Compare(Newest(hs[c.sensor]).value, c.operator, c.threshold)

\* The detections that fire for the newest reading of s.
Fires(d, s, hs) ==
  \/ d = "correlation_break" /\ CorrelationBreak(s, hs)
  \/ d = "multi_sensor" /\ MultiSensor(hs)
  \/ /\ d \in Rules[s]
     /\ \/ d = "out_of_range" /\ OutOfRange(s, hs)
        \/ d = "stuck_value" /\ StuckValue(hs[s])
        \/ d = "rapid_rise" /\ RapidRise(hs[s])
        \/ d = "rapid_increase" /\ RapidIncrease(hs[s])
        \/ d = "drift" /\ Drift(hs[s])

Firing(s, hs) == {d \in Detections : Fires(d, s, hs)}
===============================================================================
