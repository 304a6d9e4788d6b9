\* Every kind of record, a flaky IoTDB, lost commits, two kills or interrupts.
CONSTANTS
  p1 = p1
  p2 = p2
  d1 = d1
  d2 = d2
  Partitions = {p1, p2}
  Devices = {d1, d2}
  Log <- MixedLog
  BatchSize = 1
  MaxRetries = 2
  MaxCrashes = 2
  DlqReliable = TRUE
  CommitReliable = FALSE
  IotdbReliable = FALSE
  FailureThreshold = 3
  ResetTimeout = 1
SPECIFICATION FairSpec
INVARIANTS CommittedIsDurable PolledIsAccounted BufferBounded
PROPERTIES ImplementsAtLeastOnce EveryRecordHandled
