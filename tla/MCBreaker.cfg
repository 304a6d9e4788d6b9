\* Every choice of one to three callers; the ingest consumer is the choice of one.
CONSTANTS
  Threads = {t1, t2, t3}
  FailureThreshold = 2
  ResetTimeout = 2
SPECIFICATION FairBreakerSpec
INVARIANTS ClosedBelowThreshold QuietCooldown
PROPERTIES ShedsLoad RecoversForGood
