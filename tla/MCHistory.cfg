\* Late samples, lost and repeated units, a small queue, a restart and a pruning.
CONSTANTS
  Observable = {"IDLE", "RAMP_UP"}
  Times = {0, 1, 2}
  Stability = 1
  Stale = 2
  QueueSize = 1
  MaxRestarts = 1
  MaxPrunes = 1
  MaxIds = 4
SPECIFICATION Spec
INVARIANTS OneOpenRow NoOverlap NoGap OpenRowIsCurrent
