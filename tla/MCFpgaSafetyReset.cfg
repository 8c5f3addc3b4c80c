SPECIFICATION MCSpec
CONSTANTS
  Risks <- MCQuietRisks
  SelfTestModes <- MCModes
  DebounceCount = 2
  ReleaseCount = 2
  HoldCount = 2
  TimeoutCount = 2
  AutoStopCount = 2
  TICK = 3
  Tenth = 2
  HALF_TONE = 2
  TICK_50MS = 2
  CLKS_PER_BIT = 8
  TxClks = {8}
  DataBits = 2
  Disturbed = TRUE
  InterbyteTimeout = 3
  Sent <- MCSent
  Corruption = {0, 1, 3, 4, 5, 8}
PROPERTIES
  OneResetReleasesBoth
