SPECIFICATION MCSpec
CONSTANTS
  Streams = {c1, c2}
  NoStream = none
  Areas <- MCAreas
  Freshness = 1
  Grace = 1
  MaxGap = 4
  Parts = 3
  SeqModulus = 4
  MaxLost = 2
  MaxDocs = 3
  max_retries = 2
  Terminals = {"t1"}
  Strangers = {"x"}
  Sensors = {"tof"}
  MaxValue = 1
  Timeout = 1
  MaxInFlight = 1
INVARIANTS
  PositionExpires
