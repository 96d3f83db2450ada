SPECIFICATION FairSpec
CONSTANTS
  Api = {a1, a2}
  Capacity = 2
  MaxSessions = 1
  MaxFrames = 3
  MaxItems = 3
INVARIANTS TypeOK AccountedInOrder CleanIsComplete CountersConserved
PROPERTY StopReturns
CHECK_DEADLOCK FALSE
