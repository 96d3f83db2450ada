SPECIFICATION Spec
CONSTANTS
  Kinds = {"serial", "ble"}
  AutoReconnect = TRUE
  QueueSize = 1
  BacklogSize = 1
  MaxSessions = 2
  MaxConns = 2
  MaxInputs = 3
  MaxFaults = 1
  None = None
INVARIANTS
  TypeOK
PROPERTIES
  SerialTextContiguous
  SessionOrder
  MeasurementsInOrder
  ControlArrives
  WorkerStops
CHECK_DEADLOCK FALSE
