SPECIFICATION Spec
CONSTANTS
  Source = "serial"
  Skipped = {"BUILD?", "FDCISO?", "BAT?", "RAIL?", "CAL?", "ST=AUTO"}
  Default <- MCDefault
  Wants <- MCWants
  Others <- MCOthers
  MaxRetries = 1
  MaxPolls = 1
  MaxConnections = 1
  MaxBoots = 1
  MaxRequests = 1
  MaxTakeovers = 0
  None = None
\* The bounds stop the environment, and a device need not answer.
CHECK_DEADLOCK FALSE
INVARIANTS TypeOK
PROPERTIES BootstrapEnds 
