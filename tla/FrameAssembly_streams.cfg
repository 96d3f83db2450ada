SPECIFICATION Spec
CONSTANTS
  Kinds = {"C", "V", "M"}
  Chunks = 2
  MaxFrames = 3
  MaxFaults = 2
  MaxWire = 2
  None = None
INVARIANTS TypeOK ActiveOwnsPending IntactDelivered
PROPERTY ImplementsChannel
