SPECIFICATION MCSpec
CONSTANTS
  Streams = {s1, s2}
  NoStream = none
  Distances <- MCDistances
  SensorInputs <- MCSensorInputs
  CautionMm = 15
  DangerMm = 11
  EmergencyMm = 7
  MarginMm = 2
  CollisionRadiusMm = 1
  TofCautionMm = 15
  TofDangerMm = 11
  ImpactG = 2
  ReleaseGrace = 2
  IgnoreSensorInput = FALSE
  DetectorChannels = {1, 2}
  Workers = {w1, w2}
  Putters = {event_thread, test_thread}
  Configs <- MCConfigs
  PoolSize = 4
  TestChannels = {1}
  Settings = {"a", "b", "off"}
  Disabled = {"off"}
  TestPoolSize = 2
  Trials <- MCTrials
  Modes = {"camera", "marker"}
  Warmup = 1
  Cycles = 2
  MaxGeneration = 3
  MaxRuns = 2
SYMMETRY MCSymmetry
PROPERTIES
  OcclusionDegradesEmergencyToDanger
