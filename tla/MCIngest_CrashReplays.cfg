\* A malformed record behind a buffered one, then a kill.
CONSTANTS
  p1 = p1
  p2 = p2
  d1 = d1
  d2 = d2
  Partitions = {p1}
  Devices = {d1, d2}
  Log <- InvalidLog
  BatchSize = 2
  MaxRetries = 1
  MaxCrashes = 1
  DlqReliable = TRUE
  CommitReliable = TRUE
  IotdbReliable = TRUE
  FailureThreshold = 2
  ResetTimeout = 1
SPECIFICATION Spec
INVARIANT CrashReplays
