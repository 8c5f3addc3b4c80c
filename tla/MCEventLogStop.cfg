SPECIFICATION MCSpec
CONSTANTS
  MaxQueue = 2
  MaxRows = 2
  Terminals = {"t1"}
  Streams = {"s1", "s2"}
  MaxRevision = 2
  MaxOut = 2
  MaxFaults = 2
CHECK_DEADLOCK FALSE
PROPERTIES
  StopReturns
