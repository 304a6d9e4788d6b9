\* Messages in time order, at up to two a second; alerts lost, a restart.
CONSTANTS
  tt109 = tt109
  tt110 = tt110
  rotor = rotor
  Sensors = {tt109, tt110, rotor}
  Rpm = rotor
  Rules <- MCRules
  Limits <- MCLimits
  HistoryLen = 3
  Second = 2
  StuckDuration = 3
  RiseLimit = 5
  RiseWindow = 2
  IncreasePercent = 50
  BaselineWindow = 2
  DriftPerHour = 1
  Hour = 2
  DriftReadings = 3
  DriftElapsed = 2
  TrackPair <- MCTrackPair
  MaxDivergence = 3
  Conditions <- MCConditions
  Order <- MCOrder
  Choices <- MCChoices
  Times = {1, 2, 3, 4}
  Period = 1
  InOrder = TRUE
  Grace = 2
  ConfirmationCount = 2
  MaxRestarts = 1
SPECIFICATION Spec
INVARIANTS AlertsAreSpaced PersistentFaultIsReported StuckTakesTime
