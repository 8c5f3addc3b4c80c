SPECIFICATION MCSpec
CONSTANTS
  Risks <- MCRisks
  SelfTestModes <- MCModes
  DebounceCount = 3
  ReleaseCount = 3
  HoldCount = 3
  TimeoutCount = 3
  AutoStopCount = 3
  TICK = 3
  Tenth = 2
  HALF_TONE = 2
  TICK_50MS = 2
  CLKS_PER_BIT = 8
  TxClks = {8}
  DataBits = 2
  Disturbed = TRUE
  InterbyteTimeout = 3
  Sent <- MCSent
  Corruption = {0, 1, 3, 4, 5, 8}
INVARIANTS
  Safety
  SerialSafety
  AlarmSafety
PROPERTIES
  WholePacketIsObeyed
  RiskFallsOnlyAfterHold
  CutoffOutlastsItsCause
  SafeIsShownInTheEnd
