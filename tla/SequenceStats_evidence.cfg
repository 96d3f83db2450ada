SPECIFICATION Spec
CONSTANTS
  WindowSize = 4
  Every = 2
  MaxSeq = 5
  MaxPerf = 2
  MaxLosses = 1
  MaxEvents = 1
  None = None
INVARIANTS
  TypeOK
  OpenGapsAreMissing
  
  WindowsExplain
CHECK_DEADLOCK FALSE
