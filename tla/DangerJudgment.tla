--------------------------- MODULE DangerJudgment ---------------------------
(***************************************************************************)
(* The central server's risk judgment for one forklift terminal:           *)
(* DangerJudgmentEngine::evaluate and the state it keeps between frames,   *)
(* driven by JudgmentPipeline (processFrame, setActiveStream).             *)
(*                                                                         *)
(* A frame is one call of evaluate.  Coordinates are abstracted to the     *)
(* forklift-person distance, the accelerometer to its magnitude and the    *)
(* wall clock to the ticks since the last frame that lost the position.    *)
(***************************************************************************)
EXTENDS Integers

CONSTANTS
  Streams,            \* camera streams the server may assign to the terminal
  NoStream,           \* active_stream_id_ before the first assignment
  Distances,          \* forklift-person distances a frame may measure (mm)
  SensorInputs,       \* IMU / ToF samples a frame may be judged with
  CautionMm, DangerMm, EmergencyMm,  \* entry thresholds of the three levels
  MarginMm,           \* emergency_release_margin_mm, used at every border
  CollisionRadiusMm,  \* forklift_collision_radius_mm
  TofCautionMm, TofDangerMm,         \* entry thresholds of the ToF levels
  ImpactG,            \* impact_accel_threshold_g
  ReleaseGrace,       \* dead_reckoning_release_grace_ms, in ticks
  IgnoreSensorInput   \* ignore_sensor_input_ (camera-only test mode)

\* safety_server_config.cpp refuses a configuration without this order.
ASSUME ThresholdAssumption ==
  /\ EmergencyMm \in Nat /\ DangerMm \in Nat /\ CautionMm \in Nat
  /\ 0 < EmergencyMm /\ EmergencyMm < DangerMm /\ DangerMm < CautionMm
  /\ MarginMm \in Nat /\ CollisionRadiusMm \in Nat
  /\ TofCautionMm \in Nat /\ TofDangerMm \in Nat

ASSUME InputAssumption ==
  /\ Distances \subseteq Nat
  /\ SensorInputs \subseteq [imu_ok : BOOLEAN, tof_ok : BOOLEAN,
                             tof_distance_mm : Nat, imu_accel_g : Nat,
                             is_dead_reckoning : BOOLEAN]
  /\ ImpactG \in Nat /\ ReleaseGrace \in Nat
  /\ IgnoreSensorInput \in BOOLEAN
  /\ NoStream \notin Streams

\* enum class RiskLevel: the value is the severity and the wire value.
SAFE == 0
CAUTION == 1
DANGER == 2
EMERGENCY == 3
RiskLevel == SAFE .. EMERGENCY

ExceptionState ==
  {"NONE", "SENSOR_FAULT", "DEAD_RECKONING", "EMERGENCY_IMPACT",
   "UNCONFIRMED_PROXIMITY"}

NoDistance == -1

\* CameraInput: the distance means something only in the first kind of frame.
CameraInputs ==
  [forklift_localized : {TRUE}, person_detected : {TRUE}, dist : Distances]
    \cup [forklift_localized : {TRUE}, person_detected : {FALSE}, dist : {NoDistance}]
    \cup [forklift_localized : {FALSE}, person_detected : BOOLEAN, dist : {NoDistance}]

VARIABLES
  in_emergency_, last_camera_level_, has_last_camera_measurement_,
  last_distance_mm_, dead_reckoning_active_,
  since_dead_reckoning,   \* now - last_dead_reckoning_time_, up to ReleaseGrace
  active_stream_id_,
  result,                 \* the JudgmentResult of the latest frame
  judged_since_reset,     \* history: a frame was judged since resetHysteresis
  dead_reckoning_reported \* history: DEAD_RECKONING was reported and not withdrawn since

engineVars == <<in_emergency_, last_camera_level_, has_last_camera_measurement_,
                last_distance_mm_, dead_reckoning_active_>>
vars == <<engineVars, since_dead_reckoning, active_stream_id_, result,
          judged_since_reset, dead_reckoning_reported>>

-----------------------------------------------------------------------------
(* Camera stage                                                            *)

Measured(cam) == cam.forklift_localized /\ cam.person_detected

Effective(dist) ==
  IF dist > CollisionRadiusMm THEN dist - CollisionRadiusMm ELSE 0

\* Bug: the latch is never released.
BugNeverReleases(d) == in_emergency_ \/ d <= EmergencyMm

WithinEmergency(d) ==
  d <= EmergencyMm + (IF in_emergency_ THEN MarginMm ELSE 0)

\* Bug: no release margin below EMERGENCY (the code before 2026-08-25).
BugNoMargin(level, threshold, d) == d <= threshold

\* A level is entered at its threshold and left only past threshold + margin.
Holds(level, threshold, d) ==
  d <= threshold + (IF last_camera_level_ = level THEN MarginMm ELSE 0)

BandLevel(d) ==
  IF Holds(DANGER, DangerMm, d) THEN DANGER
  ELSE IF Holds(CAUTION, CautionMm, d) THEN CAUTION
  ELSE SAFE

classifyByDistance(d) == IF WithinEmergency(d) THEN EMERGENCY ELSE BandLevel(d)

\* The level kept while the marker is hidden.
HeldLevel ==
  IF last_camera_level_ = EMERGENCY THEN DANGER ELSE last_camera_level_

Occluded(cam) == ~cam.forklift_localized /\ has_last_camera_measurement_

\* Bug: a hidden marker clears the level to SAFE (the code before the hold).
BugOcclusionClears(cam) ==
  IF Measured(cam) THEN classifyByDistance(Effective(cam.dist)) ELSE SAFE

CameraRisk(cam) ==
  IF Measured(cam) THEN classifyByDistance(Effective(cam.dist))
  ELSE IF Occluded(cam) THEN HeldLevel
  ELSE SAFE

ReportedDistance(cam) ==
  IF Measured(cam) THEN cam.dist
  ELSE IF Occluded(cam) THEN last_distance_mm_
  ELSE NoDistance

\* An EMERGENCY verdict returns before last_camera_level_ is assigned.
MeasureDistance(cam) ==
  LET d == Effective(cam.dist) IN
  /\ Measured(cam)
  /\ in_emergency_' = WithinEmergency(d)
  /\ last_camera_level_' =
       IF WithinEmergency(d) THEN last_camera_level_ ELSE BandLevel(d)
  /\ has_last_camera_measurement_' = TRUE
  /\ last_distance_mm_' = cam.dist

HoldLastLevel(cam) ==
  /\ Occluded(cam)
  /\ in_emergency_' = FALSE
  /\ last_camera_level_' = HeldLevel
  /\ UNCHANGED <<has_last_camera_measurement_, last_distance_mm_>>

ForgetPerson(cam) ==
  /\ ~Measured(cam) /\ ~Occluded(cam)
  /\ in_emergency_' = FALSE
  /\ last_camera_level_' = SAFE
  /\ last_distance_mm_' = NoDistance
  /\ UNCHANGED has_last_camera_measurement_

CameraStage(cam) == MeasureDistance(cam) \/ HoldLastLevel(cam) \/ ForgetPerson(cam)

-----------------------------------------------------------------------------
(* Sensor stage and exceptions                                             *)

classifyByTof(d) ==
  IF d <= TofDangerMm THEN DANGER
  ELSE IF d <= TofCautionMm THEN CAUTION
  ELSE SAFE

TofRisk(sen) ==
  IF ~IgnoreSensorInput /\ sen.tof_ok THEN classifyByTof(sen.tof_distance_mm)
  ELSE SAFE

Impact(sen) == ~IgnoreSensorInput /\ sen.imu_accel_g >= ImpactG
Fault(sen) == ~IgnoreSensorInput /\ (~sen.imu_ok \/ ~sen.tof_ok)
PositionLost(cam, sen) ==
  ~cam.forklift_localized \/ (~IgnoreSensorInput /\ sen.is_dead_reckoning)

GraceRunning == dead_reckoning_active_ /\ since_dead_reckoning < ReleaseGrace

\* Priority: impact, sensor fault, dead reckoning, unconfirmed proximity.
detectException(cam, sen) ==
  IF Impact(sen) THEN "EMERGENCY_IMPACT"
  ELSE IF Fault(sen) THEN "SENSOR_FAULT"
  ELSE IF PositionLost(cam, sen) \/ GraceRunning THEN "DEAD_RECKONING"
  ELSE IF ~IgnoreSensorInput /\ ~cam.person_detected /\ TofRisk(sen) # SAFE
    THEN "UNCONFIRMED_PROXIMITY"
  ELSE "NONE"

\* Bug: an impact or a fault drops the latch instead of leaving it alone.
BugExceptionReleases(cam, sen) ==
  LET skipped == Impact(sen) \/ Fault(sen) IN
  /\ dead_reckoning_active_' = (~skipped /\ (PositionLost(cam, sen) \/ GraceRunning))
  /\ since_dead_reckoning' = IF ~skipped /\ PositionLost(cam, sen) THEN 0 ELSE since_dead_reckoning

\* An impact or a fault returns before the dead-reckoning latch is looked at.
DeadReckoningLatch(cam, sen) ==
  \/ /\ Impact(sen) \/ Fault(sen)
     /\ UNCHANGED <<dead_reckoning_active_, since_dead_reckoning>>
  \/ /\ ~Impact(sen) /\ ~Fault(sen) /\ PositionLost(cam, sen)
     /\ dead_reckoning_active_' = TRUE
     /\ since_dead_reckoning' = 0
  \/ /\ ~Impact(sen) /\ ~Fault(sen) /\ ~PositionLost(cam, sen)
     /\ dead_reckoning_active_' = GraceRunning
     /\ UNCHANGED since_dead_reckoning

worstOf(a, b) == IF a >= b THEN a ELSE b

\* The least final risk an exception guarantees.
ExceptionFloor(cam, sen) ==
  LET e == detectException(cam, sen) IN
  IF e = "EMERGENCY_IMPACT" THEN DANGER
  ELSE IF e = "SENSOR_FAULT" THEN CAUTION
  ELSE IF e = "DEAD_RECKONING" /\ ~Measured(cam) /\ ~has_last_camera_measurement_
    THEN CAUTION
  ELSE SAFE

FinalRisk(cam, sen) ==
  worstOf(worstOf(CameraRisk(cam), TofRisk(sen)), ExceptionFloor(cam, sen))

-----------------------------------------------------------------------------
(* Operations                                                              *)

\* processFrame: map the frame, read the sensors, judge.
Evaluate(cam, sen) ==
  /\ CameraStage(cam)
  /\ DeadReckoningLatch(cam, sen)
  /\ result' = [localized   |-> cam.forklift_localized,
                measured    |-> Measured(cam),
                distance_mm |-> ReportedDistance(cam),
                camera_risk |-> CameraRisk(cam),
                exception   |-> detectException(cam, sen),
                final_risk  |-> FinalRisk(cam, sen)]
  /\ judged_since_reset' = TRUE
  /\ dead_reckoning_reported' =
       CASE detectException(cam, sen) = "DEAD_RECKONING" -> TRUE
         [] detectException(cam, sen) \in {"NONE", "UNCONFIRMED_PROXIMITY"} -> FALSE
         [] OTHER -> dead_reckoning_reported
  /\ UNCHANGED active_stream_id_

\* Bug: the held measurement survives a change of stream.
BugKeepsMeasurement ==
  /\ in_emergency_' = FALSE
  /\ dead_reckoning_active_' = FALSE
  /\ UNCHANGED <<last_camera_level_, has_last_camera_measurement_, last_distance_mm_>>

resetHysteresis ==
  /\ in_emergency_' = FALSE
  /\ dead_reckoning_active_' = FALSE
  /\ last_camera_level_' = SAFE
  /\ has_last_camera_measurement_' = FALSE
  /\ last_distance_mm_' = NoDistance

\* Assigning the stream that is already active keeps the hysteresis.
setActiveStream(s) ==
  /\ s # active_stream_id_
  /\ active_stream_id_' = s
  /\ resetHysteresis
  /\ judged_since_reset' = FALSE /\ dead_reckoning_reported' = FALSE
  /\ UNCHANGED <<since_dead_reckoning, result>>

\* The steady clock: a tick counts only until the grace period is over.
Elapse ==
  /\ since_dead_reckoning < ReleaseGrace
  /\ since_dead_reckoning' = since_dead_reckoning + 1
  /\ UNCHANGED <<engineVars, active_stream_id_, result, judged_since_reset,
                 dead_reckoning_reported>>

Init ==
  /\ in_emergency_ = FALSE
  /\ last_camera_level_ = SAFE
  /\ has_last_camera_measurement_ = FALSE
  /\ last_distance_mm_ = NoDistance
  /\ dead_reckoning_active_ = FALSE
  /\ since_dead_reckoning = ReleaseGrace
  /\ active_stream_id_ = NoStream
  /\ result = [localized |-> FALSE, measured |-> FALSE, distance_mm |-> NoDistance,
               camera_risk |-> SAFE, exception |-> "NONE", final_risk |-> SAFE]
  /\ judged_since_reset = FALSE /\ dead_reckoning_reported = FALSE

Next ==
  \/ \E cam \in CameraInputs, sen \in SensorInputs : Evaluate(cam, sen)
  \/ \E s \in Streams : setActiveStream(s)
  \/ Elapse

Spec == Init /\ [][Next]_vars

-----------------------------------------------------------------------------
(* Properties                                                              *)

\* Every variable has the type of the C++ member it stands for.
TypeOK ==
  /\ in_emergency_ \in BOOLEAN
  /\ last_camera_level_ \in {SAFE, CAUTION, DANGER}
  /\ has_last_camera_measurement_ \in BOOLEAN
  /\ last_distance_mm_ \in Distances \cup {NoDistance}
  /\ dead_reckoning_active_ \in BOOLEAN
  /\ since_dead_reckoning \in 0 .. ReleaseGrace
  /\ active_stream_id_ \in Streams \cup {NoStream}
  /\ result \in [localized : BOOLEAN, measured : BOOLEAN,
                 distance_mm : Distances \cup {NoDistance},
                 camera_risk : RiskLevel, exception : ExceptionState,
                 final_risk : RiskLevel]
  /\ judged_since_reset \in BOOLEAN /\ dead_reckoning_reported \in BOOLEAN

\* The engine's memory agrees with the verdict it gave last: the level a frame
\* was judged with is the one the next frame's hysteresis starts from, and
\* nothing is remembered without a measurement in this stream.  An EMERGENCY
\* leaves last_camera_level_ behind, so in_emergency_ alone records it.
MemoryAgreesWithVerdict ==
  /\ ~has_last_camera_measurement_ =>
       last_camera_level_ = SAFE /\ last_distance_mm_ = NoDistance
  /\ ~judged_since_reset => ~has_last_camera_measurement_
  /\ judged_since_reset /\ result.measured =>
       /\ has_last_camera_measurement_
       /\ in_emergency_ <=> (result.camera_risk = EMERGENCY)
       /\ ~in_emergency_ => last_camera_level_ = result.camera_risk
  /\ judged_since_reset /\ ~result.measured =>
       ~in_emergency_ /\ last_camera_level_ = result.camera_risk
  /\ dead_reckoning_reported => dead_reckoning_active_

\* EMERGENCY cuts the forklift's movement.  It is only ever decided on a
\* distance measured in that very frame, inside the release distance: no
\* sensor reading, exception or remembered level may raise or keep it, or the
\* cutoff could not be released while the marker is hidden.
CutoffOnlyOnMeasuredDistance ==
  result.final_risk = EMERGENCY =>
    /\ result.measured
    /\ Effective(result.distance_mm) <= EmergencyMm + MarginMm

\* What the announcement gate and the clients rely on: no exception other than
\* a lost position comes with a risk the clients may ignore.
ExceptionHasFloor ==
  /\ result.exception = "EMERGENCY_IMPACT" => result.final_risk >= DANGER
  /\ result.exception \in {"SENSOR_FAULT", "UNCONFIRMED_PROXIMITY"}
       => result.final_risk >= CAUTION

\* Between two consecutive measured frames of a stream the camera level falls
\* only when the person is past the old level's threshold by the margin: a
\* person standing at a border cannot make the level flicker.
EntryThreshold(level) ==
  CASE level = EMERGENCY -> EmergencyMm
    [] level = DANGER    -> DangerMm
    [] level = CAUTION   -> CautionMm
    [] OTHER             -> 0

FallsOnlyPastMargin ==
  [][ /\ judged_since_reset /\ judged_since_reset'
      /\ result.measured /\ result'.measured
      /\ result'.camera_risk < result.camera_risk
      => Effective(result'.distance_mm)
           > EntryThreshold(result.camera_risk) + MarginMm ]_vars

\* While the marker is hidden the level of the frame before is carried on
\* unchanged, neither lowered to SAFE nor raised (levels below EMERGENCY).
OcclusionHoldsLevel ==
  [][ /\ judged_since_reset /\ judged_since_reset'
      /\ ~result'.localized
      /\ result.camera_risk < EMERGENCY
      => result'.camera_risk = result.camera_risk ]_vars

\* What danger_judgment_engine.cpp:64-73 says of the level above those: an
\* EMERGENCY is not held while the marker is hidden, it becomes DANGER.
OcclusionDegradesEmergencyToDanger ==
  [][ /\ judged_since_reset /\ judged_since_reset'
      /\ ~result'.localized
      /\ result.camera_risk = EMERGENCY
      => result'.camera_risk = DANGER ]_vars

\* Nothing is inherited from the stream watched before: when the first frame
\* after a switch cannot see the marker, it reports no distance, no camera
\* level of the other stream, and at least CAUTION whatever the sensors say.
FirstBlindFrameIsCautious ==
  [][ /\ ~judged_since_reset /\ judged_since_reset'
      /\ ~result'.localized
      => /\ result'.distance_mm = NoDistance
         /\ result'.camera_risk = SAFE
         /\ result'.final_risk >= CAUTION ]_vars

\* A reported DEAD_RECKONING is withdrawn, by a verdict without an exception,
\* only when the grace period has passed since the frame that last latched it:
\* across any number of frames and ticks, and also when impacts and sensor
\* faults, whose verdicts leave the latch alone, were reported in between.
ReleasedOnlyAfterGrace ==
  [][ /\ dead_reckoning_reported /\ ~dead_reckoning_reported'
      /\ judged_since_reset'
      => since_dead_reckoning >= ReleaseGrace ]_vars

\* The invariants of the judgment: its memory agrees with its verdict, the cutoff
\* rests on a distance measured in the frame, and exceptions have their floor.
Safety ==
  /\ TypeOK
  /\ MemoryAgreesWithVerdict
  /\ CutoffOnlyOnMeasuredDistance
  /\ ExceptionHasFloor

=============================================================================
