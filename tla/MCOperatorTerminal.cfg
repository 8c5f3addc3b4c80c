\* No deadlock check: the driver may be unloaded, or the rangings used up.
SPECIFICATION MCSpec
CONSTANTS
  Cameras = {a, b, c}
  FirstCamera = a
  Unknown = unknown
  Risks = {safe, danger}
  Safe = safe
  Threshold = 2
  Grace = 3
  SwapDeadline = 2
  Linger = 2
  ReconnectDelay = 4
  FpgaTimeout = 1
  Varying = {"framing_error", "effective_risk"}
  EventRisks = {0, 2}
  Depth = 2
  SeqCount = 2
  FrameBytes = 2
  ByteClocks = 1
  HeartbeatPeriod = 4
  Readers = {"r1", "r2"}
  MaxRanged = 3
  MaxFaults = 2
INVARIANTS
  Safety
  EventSafety
  DriverSafety
PROPERTIES
  FrameCarriesShownRisk
CHECK_DEADLOCK FALSE
