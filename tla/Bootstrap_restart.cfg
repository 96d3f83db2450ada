SPECIFICATION Spec
CONSTANTS
  Source = "serial"
  Skipped = {"BUILD?", "FDCISO?", "BAT?", "RAIL?", "CAL?", "ST=AUTO"}
  Default <- MCDefault
  Wants <- MCWants
  Others <- MCOthers
  MaxRetries = 1
  MaxPolls = 1
  MaxConnections = 2
  MaxBoots = 2
  MaxRequests = 0
  MaxTakeovers = 1
  None = None
\* The bounds stop the environment, and a device need not answer.
CHECK_DEADLOCK FALSE
INVARIANTS KnowsTheDevice NeverOverwrites
PROPERTIES CompleteMeansApplied
