\* No deadlock check: a camera may be excluded, and stop() ends its worker.
SPECIFICATION MCSpec
CONSTANTS
  Streams = {c1, c2, c3}
  NoStream = none
  Areas <- MCAreas
  Freshness = 2
  Grace = 2
  MaxGap = 2
  Parts = 3
  SeqModulus = 4
  MaxLost = 2
  MaxDocs = 3
  max_retries = 2
  Terminals = {"t1"}
  Strangers = {"x"}
  Sensors = {"tof"}
  MaxValue = 1
  Timeout = 1
  MaxInFlight = 1
INVARIANTS
  Safety
  InputSafety
  UplinkSafety
PROPERTIES
  ViewFollowsForklift
  DeathIsFelt
CHECK_DEADLOCK FALSE
