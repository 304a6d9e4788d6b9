\* Four rows, two seeks.  The main thread ends on a signal, at the limit of samples
\* or when sending raises: the run ends there.
CONSTANTS
  Rows = 4
  StartRows = {2}
  MaxSamples = 2
  Speeds = {1, 50}
  SeekTo = {0, 2, 4}
  MaxSeeks = 2
  SeqBound = 5
SPECIFICATION FairSpec
INVARIANTS PauseHolds
PROPERTIES NoSampleSkipped SeekLands EveryRowIsReplayed ShutdownStops
CHECK_DEADLOCK FALSE
