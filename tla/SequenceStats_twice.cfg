SPECIFICATION Spec
CONSTANTS
  WindowSize = 4
  Every = 2
  MaxSeq = 5
  MaxPerf = 2
  MaxLosses = 2
  MaxEvents = 0
  None = None
INVARIANT
  NonFreshSpentOnce
CHECK_DEADLOCK FALSE
