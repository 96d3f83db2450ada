SPECIFICATION Spec
CONSTANTS
  Devices = {d1, d2}
  Mixes = {{d1, d2, "battery"}, {d1, d2, "rail"}, {d1, "frame", "change", "request"}}
  MaxSessions = 2
  MaxConns = 2
  MaxRequests = 1
  MaxLines = 2
  MaxEvents = 1
  MaxChanges = 1
  MaxQueue = 1
  None = None
INVARIANTS TypeOK FreshIsLive BaselineOfConfiguration
PROPERTY CaptureEnds
CHECK_DEADLOCK FALSE
