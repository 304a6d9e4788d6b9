\* One session, a record of an unknown turbine; a batch of two, a queue of two of which
\* one may be in flight.
CONSTANTS
  d1 = d1
  d2 = d2
  Devices = {d1, d2}
  Log <- MixedTelemetry
  BatchSize = 2
  QueueLimit = 2
  Window = 1
  Stall = 1
  Grace = 2
  MaxDrops = 2
  MaxStops = 1
SPECIFICATION FairSpec
INVARIANTS EveryLossIsCounted AutoCommitTrails OutageIsNoticed
PROPERTIES QueuedIsDelivered
