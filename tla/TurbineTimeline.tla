---------------------------- MODULE TurbineTimeline ----------------------------
(***************************************************************************)
(* turbine_state.StateTracker over a fleet: every turbine has a timeline   *)
(* of its own, created by its first observation; tick() walks all of them. *)
(* The transitions the tracker yields are kept in `history'.               *)
(***************************************************************************)
EXTENDS TimelineOps, Sequences

CONSTANTS Turbines,
          InOrder       \* whether each turbine's observations arrive in time order

ASSUME TrackerAssumption == InOrder \in BOOLEAN

VARIABLES known,      \* the keys of _timelines
          timelines,
          history     \* history[t]: the transitions yielded for t, in order

trackerVars == <<known, timelines, history>>

TrackerTypeOK ==
  /\ known \subseteq Turbines
  /\ timelines \in [Turbines -> Timeline]
  /\ history \in [Turbines -> Seq(Transition)]

TrackerInit ==
  /\ known = {}
  /\ timelines = [t \in Turbines |-> NewTimeline]
  /\ history = [t \in Turbines |-> <<>>]

Observe(t, s, ts) ==
  /\ InOrder => ts >= timelines[t].seen
  /\ known' = known \cup {t}
  /\ timelines' = [timelines EXCEPT ![t] = AfterObserve(@, s, ts)]
  /\ history' = IF Stabilises(timelines[t], s, ts)
                THEN [history EXCEPT ![t] = Append(@, Emitted(timelines[t], s, timelines[t].since))]
                ELSE history

Tick(now) ==
  /\ timelines' = [t \in Turbines |->
                     IF t \in known THEN AfterTick(timelines[t], now) ELSE timelines[t]]
  /\ history' = [t \in Turbines |->
                   IF t \in known /\ GoneSilent(timelines[t], now)
                   THEN Append(history[t], Emitted(timelines[t], "DOWN", timelines[t].seen))
                   ELSE history[t]]
  /\ UNCHANGED known

TrackerNext ==
  \/ \E t \in Turbines, s \in Observable, ts \in Times : Observe(t, s, ts)
  \/ \E now \in Times : Tick(now)

TrackerSpec == TrackerInit /\ [][TrackerNext]_trackerVars

(***************************************************************************)
(* Safety                                                                  *)
(***************************************************************************)
Consecutive(t) == {k \in DOMAIN history[t] : k + 1 \in DOMAIN history[t]}

\* turbine_state.py: "monotonic timestamp timeline": a turbine's transitions are
\* dated in the order in which they are yielded, although a stable state is dated
\* back to its first sample and silence to the last one.
HistoryIsMonotone ==
  \A t \in Turbines : \A k \in Consecutive(t) : history[t][k].at <= history[t][k + 1].at

\* turbine_state.py: "debounces transient spikes": a state other than DOWN that
\* makes it into the history holds for at least the stability window.
StatesOutlastSpikes ==
  \A t \in Turbines : \A k \in Consecutive(t) :
    history[t][k].new # "DOWN" => history[t][k + 1].at >= history[t][k].at + Stability

\* Each transition leaves the state the previous one entered, for another one: a
\* consumer that replays the history never sees a state entered twice in a row.
HistoryIsChained ==
  \A t \in Turbines : \A k \in Consecutive(t) :
    /\ history[t][k + 1].prev = history[t][k].new
    /\ history[t][k + 1].new # history[t][k].new

===============================================================================
