SPECIFICATION Spec
CONSTANTS
  Modes = {CAP, VOLT}
  CAP = CAP
  MIXED = MIXED
  NRows = 2
  SeqRestarts = FALSE
  MaxChanges = 1
  MaxSeq = 2
  MaxInFlight = 1
  MaxConnections = 1
  None = None
INVARIANT LiveIsApplied
CHECK_DEADLOCK FALSE
