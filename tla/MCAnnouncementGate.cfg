\* No deadlock check: stop() of the server may hang in the window that
\* StopReturnsOutsideWindow leaves out.
SPECIFICATION MCSpec
CONSTANTS
  RiseConfirm = 3
  FallConfirm = 7
  Gaps <- MCGaps
  Streams = {"s1", "s2"}
  Capacity = 2
  MaxEvents = 5
  FrameLen = 3
  Heartbeat = 2
  Watchdog = 4
  TickModulus = 5
  FifoDepth = 1
INVARIANTS
  Safety
  ServerSafety
  RelaySafety
PROPERTIES
  ChangedOnlyWhenConfirmed
  StopReturnsOutsideWindow
CHECK_DEADLOCK FALSE
