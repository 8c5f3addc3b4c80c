\* No deadlock check: an alignment, and the last start of the server, end.
SPECIFICATION MCSpec
CONSTANTS
  ReceiverStreams = {"s1", "s2"}
  MaxWorkers = 3
  JobStreams = {1, 2}
  MaxCaptures = 2
  MaxRuns = 2
  Solvers = {1, 2}
  SiteStreams = {1, 2, 3, 4}
  Poses <- MCPoses
  Channels = {1, 2}
  Boards = {"a", "b"}
  Sizes = {1, 2}
  MinCaptures = 2
  MaxShots = 4
  PhotoThreads = {1, 2}
  CalibrationThreads = {1}
  MaxNumber = 2
  MaxViewers = 1
  MinViews = 3
  kReconnectBaseDelayMs = 1
  kInitialReconnectMaxDelayMs = 2
  kReconnectMaxDelayMs = 4
  Slots = {"frame", "metadata"}
  MaxQueue = 2
  Levels = {0, 1}
  MaxChanges = 2
  Ids = {1, 2}
  MaxStarts = 3
  MaxBirths = 2
INVARIANTS
  WebSafety
  CalibrationSafety
  ScreenSafety
  StatusSafety
CHECK_DEADLOCK FALSE
