\* One turbine whose samples arrive in time order; the detector may infer DOWN.
CONSTANTS
  Turbines = {w1}
  Observable = {"IDLE", "RAMP_UP", "DOWN"}
  Times = {0, 1, 2, 3, 4, 5, 6, 7}
  Stability = 2
  Stale = 3
  InOrder = TRUE
SPECIFICATION TrackerSpec
INVARIANTS HistoryIsMonotone StatesOutlastSpikes HistoryIsChained
