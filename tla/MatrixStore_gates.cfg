SPECIFICATION Spec
CONSTANTS
  Modes = {CAP, VOLT}
  CAP = CAP
  MIXED = MIXED
  NRows = 2
  SeqRestarts = FALSE
  MaxChanges = 2
  MaxSeq = 1
  MaxInFlight = 1
  MaxConnections = 2
  None = None
INVARIANTS TypeOK  LiveIsKnown
 
CHECK_DEADLOCK FALSE
