\* Two recording threads, a queue of two, errors, an outage, a retention run and
\* close(), which really stops the writer: the run ends there.
CONSTANTS
  Producers = {a, b}
  QueueSize = 2
  ConnectAttempts = 2
  Flaky = TRUE
  MaxUnits = 4
  MaxOutages = 1
  MaxPrunes = 1
SPECIFICATION FairSpec
INVARIANTS WrittenInOrder EveryUnitIsCounted
PROPERTIES QueueIsWorkedOff CloseStopsWriter
CHECK_DEADLOCK FALSE
