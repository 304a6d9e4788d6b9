\* A tombstone between two good records; nothing fails and nobody kills the process.
CONSTANTS
  p1 = p1
  p2 = p2
  d1 = d1
  d2 = d2
  Partitions = {p1}
  Devices = {d1, d2}
  Log <- PoisonLog
  BatchSize = 2
  MaxRetries = 1
  MaxCrashes = 0
  DlqReliable = TRUE
  CommitReliable = TRUE
  IotdbReliable = TRUE
  FailureThreshold = 2
  ResetTimeout = 1
SPECIFICATION FairPollSpec
PROPERTY NeverBlocks
