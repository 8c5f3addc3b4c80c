------------------------ MODULE DangerJudgmentProofs ------------------------
(***************************************************************************)
(* Proofs about what is judged and what the judgment is fed with: the risk *)
(* judgment, for every threshold order, margin, collision radius, grace    *)
(* period and set of streams; the camera's detector, for any channels and  *)
(* workers; its performance test, for any settings, variants and cycles.   *)
(***************************************************************************)
EXTENDS MCDangerJudgment, Sequences, FiniteSets, FiniteSetTheorems, TLAPS

\* The inductive invariant.
IInv == TypeOK /\ MemoryAgreesWithVerdict

USE DEF SAFE, CAUTION, DANGER, EMERGENCY, RiskLevel, NoDistance

-----------------------------------------------------------------------------
(* What the operators return                                               *)

\* The collision radius never makes a distance negative.
LEMMA EffectiveNat ==
  ASSUME NEW d \in Nat
  PROVE  Effective(d) \in Nat
BY ThresholdAssumption DEF Effective

\* The three camera branches exclude each other, and each level they return is
\* a risk level; only a measured frame returns EMERGENCY.
LEMMA CameraRiskType ==
  ASSUME TypeOK, NEW cam \in CameraInputs
  PROVE  /\ CameraRisk(cam) \in RiskLevel
         /\ CameraRisk(cam) = EMERGENCY =>
              Measured(cam) /\ WithinEmergency(Effective(cam.dist))
BY DEF TypeOK, CameraRisk, classifyByDistance, BandLevel, HeldLevel

\* The ToF alone never reaches EMERGENCY.
LEMMA TofRiskType ==
  ASSUME NEW sen \in SensorInputs
  PROVE  TofRisk(sen) \in SAFE .. DANGER
BY DEF TofRisk, classifyByTof

\* Nor does the correction for an exception.
LEMMA ExceptionFloorType ==
  ASSUME NEW cam, NEW sen
  PROVE  ExceptionFloor(cam, sen) \in SAFE .. DANGER
BY DEF ExceptionFloor

LEMMA ExceptionType ==
  ASSUME NEW cam, NEW sen
  PROVE  detectException(cam, sen) \in ExceptionState
BY DEF detectException, ExceptionState

LEMMA DistanceType ==
  ASSUME TypeOK, NEW cam \in CameraInputs
  PROVE  ReportedDistance(cam) \in Distances \cup {NoDistance}
BY DEF TypeOK, CameraInputs, ReportedDistance, Measured

\* The final risk is a level, at least every contribution, and EMERGENCY only
\* when the camera stage said so.
LEMMA FinalRiskType ==
  ASSUME TypeOK, NEW cam \in CameraInputs, NEW sen \in SensorInputs
  PROVE  /\ FinalRisk(cam, sen) \in RiskLevel
         /\ FinalRisk(cam, sen) >= ExceptionFloor(cam, sen)
         /\ FinalRisk(cam, sen) = EMERGENCY => CameraRisk(cam) = EMERGENCY
BY CameraRiskType, TofRiskType, ExceptionFloorType DEF FinalRisk, worstOf

-----------------------------------------------------------------------------
(* The invariant                                                           *)

LEMMA InitIInv == Init => IInv
<1> SUFFICES ASSUME Init PROVE IInv
  OBVIOUS
<1>1. since_dead_reckoning \in 0 .. ReleaseGrace
  BY InputAssumption DEF Init
<1>2. result \in [localized : BOOLEAN, measured : BOOLEAN,
                  distance_mm : Distances \cup {NoDistance},
                  camera_risk : RiskLevel, exception : ExceptionState,
                  final_risk : RiskLevel]
  BY DEF Init, ExceptionState
<1>3. TypeOK
  BY <1>1, <1>2 DEF Init, TypeOK
<1>4. MemoryAgreesWithVerdict
  BY DEF Init, MemoryAgreesWithVerdict
<1> QED BY <1>3, <1>4 DEF IInv

LEMMA EvaluateTypeOK ==
  ASSUME TypeOK, NEW cam \in CameraInputs, NEW sen \in SensorInputs,
         Evaluate(cam, sen)
  PROVE  TypeOK'
<1>1. /\ in_emergency_' \in BOOLEAN
      /\ last_camera_level_' \in {SAFE, CAUTION, DANGER}
      /\ has_last_camera_measurement_' \in BOOLEAN
      /\ last_distance_mm_' \in Distances \cup {NoDistance}
  <2>1. CASE MeasureDistance(cam)
    <3>1. cam.dist \in Distances
      BY <2>1 DEF MeasureDistance, Measured, CameraInputs
    <3>2. in_emergency_' \in BOOLEAN
      BY <2>1 DEF MeasureDistance, WithinEmergency
    <3>3. last_camera_level_' \in {SAFE, CAUTION, DANGER}
      BY <2>1 DEF MeasureDistance, TypeOK, BandLevel
    <3> QED BY <2>1, <3>1, <3>2, <3>3 DEF MeasureDistance
  <2>2. CASE HoldLastLevel(cam)
    BY <2>2 DEF HoldLastLevel, HeldLevel, TypeOK
  <2>3. CASE ForgetPerson(cam)
    BY <2>3 DEF ForgetPerson, TypeOK
  <2> QED BY <2>1, <2>2, <2>3 DEF Evaluate, CameraStage
<1>2. /\ dead_reckoning_active_' \in BOOLEAN
      /\ since_dead_reckoning' \in 0 .. ReleaseGrace
  <2>1. CASE Impact(sen) \/ Fault(sen)
    <3>1. /\ dead_reckoning_active_' = dead_reckoning_active_
          /\ since_dead_reckoning' = since_dead_reckoning
      BY <2>1 DEF Evaluate, DeadReckoningLatch
    <3> QED BY <3>1 DEF TypeOK
  <2>2. CASE PositionLost(cam, sen) /\ ~(Impact(sen) \/ Fault(sen))
    <3>1. dead_reckoning_active_' = TRUE /\ since_dead_reckoning' = 0
      BY <2>2 DEF Evaluate, DeadReckoningLatch
    <3> QED BY <3>1, InputAssumption
  <2>3. CASE ~PositionLost(cam, sen) /\ ~(Impact(sen) \/ Fault(sen))
    <3>1. GraceRunning \in BOOLEAN
      BY DEF GraceRunning
    <3>2. /\ dead_reckoning_active_' = GraceRunning
          /\ since_dead_reckoning' = since_dead_reckoning
      BY <2>3 DEF Evaluate, DeadReckoningLatch
    <3> QED BY <3>1, <3>2 DEF TypeOK
  <2> QED BY <2>1, <2>2, <2>3
<1>3. result' \in [localized : BOOLEAN, measured : BOOLEAN,
                   distance_mm : Distances \cup {NoDistance},
                   camera_risk : RiskLevel, exception : ExceptionState,
                   final_risk : RiskLevel]
  BY CameraRiskType, DistanceType, ExceptionType, FinalRiskType
     DEF Evaluate, CameraInputs, Measured
<1> QED BY <1>1, <1>2, <1>3 DEF Evaluate, TypeOK

LEMMA EvaluateMemory ==
  ASSUME IInv, NEW cam \in CameraInputs, NEW sen \in SensorInputs,
         Evaluate(cam, sen)
  PROVE  MemoryAgreesWithVerdict'
<1>1. /\ judged_since_reset' = TRUE
      /\ result'.localized = cam.forklift_localized
      /\ result'.measured = Measured(cam)
      /\ result'.camera_risk = CameraRisk(cam)
      /\ result'.exception = detectException(cam, sen)
  BY DEF Evaluate
<1>2. dead_reckoning_reported' => dead_reckoning_active_'
  <2>1. CASE Impact(sen) \/ Fault(sen)
    <3>1. /\ dead_reckoning_active_' = dead_reckoning_active_
          /\ dead_reckoning_reported' = dead_reckoning_reported
      BY <2>1 DEF Evaluate, DeadReckoningLatch, detectException
    <3> QED BY <3>1 DEF IInv, MemoryAgreesWithVerdict
  <2>2. CASE ~(Impact(sen) \/ Fault(sen))
    <3>1. detectException(cam, sen) # "EMERGENCY_IMPACT" /\ detectException(cam, sen) # "SENSOR_FAULT"
      BY <2>2 DEF detectException
    <3>2. dead_reckoning_reported' => detectException(cam, sen) = "DEAD_RECKONING"
      BY <3>1, ExceptionType DEF Evaluate, ExceptionState
    <3>3. detectException(cam, sen) = "DEAD_RECKONING" => dead_reckoning_active_'
      BY <2>2 DEF Evaluate, DeadReckoningLatch, detectException, GraceRunning
    <3> QED BY <3>2, <3>3
  <2> QED BY <2>1, <2>2
<1>3. CASE MeasureDistance(cam)
  <2> DEFINE d == Effective(cam.dist)
  <2>1. CameraRisk(cam) = IF WithinEmergency(d) THEN EMERGENCY ELSE BandLevel(d)
    BY <1>3 DEF MeasureDistance, CameraRisk, classifyByDistance
  <2>2. BandLevel(d) # EMERGENCY
    BY DEF BandLevel
  <2>3. in_emergency_' <=> (CameraRisk(cam) = EMERGENCY)
    BY <1>3, <2>1, <2>2 DEF MeasureDistance
  <2>4. ~in_emergency_' => last_camera_level_' = CameraRisk(cam)
    BY <1>3, <2>1 DEF MeasureDistance
  <2> QED
    BY <1>1, <1>2, <1>3, <2>3, <2>4 DEF MeasureDistance, MemoryAgreesWithVerdict
<1>4. CASE HoldLastLevel(cam)
  BY <1>1, <1>2, <1>4
     DEF HoldLastLevel, IInv, MemoryAgreesWithVerdict, CameraRisk, Occluded,
         Measured
<1>5. CASE ForgetPerson(cam)
  BY <1>1, <1>2, <1>5
     DEF ForgetPerson, IInv, MemoryAgreesWithVerdict, CameraRisk
<1> QED BY <1>3, <1>4, <1>5 DEF Evaluate, CameraStage

LEMMA NextIInv == IInv /\ [Next]_vars => IInv'
<1> SUFFICES ASSUME IInv, [Next]_vars PROVE IInv'
  OBVIOUS
<1>1. ASSUME NEW cam \in CameraInputs, NEW sen \in SensorInputs,
             Evaluate(cam, sen)
      PROVE  IInv'
  BY <1>1, EvaluateTypeOK, EvaluateMemory DEF IInv
<1>2. ASSUME NEW s \in Streams, setActiveStream(s)
      PROVE  IInv'
  BY <1>2 DEF IInv, TypeOK, MemoryAgreesWithVerdict, setActiveStream,
              resetHysteresis
<1>3. CASE Elapse
  <2>1. since_dead_reckoning' \in 0 .. ReleaseGrace
    BY <1>3, InputAssumption DEF Elapse, IInv, TypeOK
  <2> QED
    BY <1>3, <2>1 DEF IInv, TypeOK, MemoryAgreesWithVerdict, Elapse, engineVars
<1>4. CASE UNCHANGED vars
  BY <1>4 DEF IInv, TypeOK, MemoryAgreesWithVerdict, vars, engineVars
<1> QED BY <1>1, <1>2, <1>3, <1>4 DEF Next

\* The memory of the engine and its last verdict agree in every reachable state.
THEOREM InductiveInvariant == Spec => []IInv
BY InitIInv, NextIInv, PTL DEF Spec

\* Every variable keeps the type of the member it models; in particular
\* last_camera_level_ is never EMERGENCY.
THEOREM TypeCorrect == Spec => []TypeOK
<1>1. IInv => TypeOK BY DEF IInv
<1> QED BY InductiveInvariant, <1>1, PTL

\* What the next frame's hysteresis starts from is what the last frame reported.
THEOREM MemoryIsFaithful == Spec => []MemoryAgreesWithVerdict
<1>1. IInv => MemoryAgreesWithVerdict BY DEF IInv
<1> QED BY InductiveInvariant, <1>1, PTL

-----------------------------------------------------------------------------
(* The verdict and its changes                                             *)

\* A new verdict of EMERGENCY comes from a distance measured in its own frame.
LEMMA EvaluateCutoff ==
  ASSUME TypeOK, NEW cam \in CameraInputs, NEW sen \in SensorInputs,
         Evaluate(cam, sen)
  PROVE  CutoffOnlyOnMeasuredDistance'
<1> SUFFICES ASSUME FinalRisk(cam, sen) = EMERGENCY
             PROVE  /\ Measured(cam)
                    /\ Effective(ReportedDistance(cam)) <= EmergencyMm + MarginMm
  BY DEF Evaluate, CutoffOnlyOnMeasuredDistance, Effective
<1>1. Measured(cam) /\ WithinEmergency(Effective(cam.dist))
  BY FinalRiskType, CameraRiskType
<1>2. Effective(cam.dist) \in Nat
  BY <1>1, InputAssumption, EffectiveNat DEF CameraInputs, Measured
<1> QED BY <1>1, <1>2, ThresholdAssumption DEF WithinEmergency, ReportedDistance

\* The terminal's movement is cut off only by a measured distance: no sensor
\* sample, exception or remembered level can decide EMERGENCY.
THEOREM CutoffIsMeasured == Spec => []CutoffOnlyOnMeasuredDistance
<1>1. Init => CutoffOnlyOnMeasuredDistance
  BY DEF Init, CutoffOnlyOnMeasuredDistance
<1>2. /\ IInv /\ CutoffOnlyOnMeasuredDistance
      /\ [Next]_vars
      => CutoffOnlyOnMeasuredDistance'
  <2> SUFFICES ASSUME IInv, CutoffOnlyOnMeasuredDistance, [Next]_vars
               PROVE  CutoffOnlyOnMeasuredDistance'
    OBVIOUS
  <2>1. ASSUME NEW cam \in CameraInputs, NEW sen \in SensorInputs,
               Evaluate(cam, sen)
        PROVE  CutoffOnlyOnMeasuredDistance'
    BY <2>1, EvaluateCutoff DEF IInv
  <2>2. CASE result' = result
    BY <2>2 DEF CutoffOnlyOnMeasuredDistance, Effective
  <2> QED BY <2>1, <2>2 DEF Next, setActiveStream, Elapse, vars
<1> QED BY InductiveInvariant, <1>1, <1>2, PTL DEF Spec

\* Every exception but DEAD_RECKONING comes with a risk that is shown.
LEMMA EvaluateFloor ==
  ASSUME TypeOK, NEW cam \in CameraInputs, NEW sen \in SensorInputs,
         Evaluate(cam, sen)
  PROVE  ExceptionHasFloor'
<1> DEFINE e == detectException(cam, sen)
<1>1. /\ result'.exception = e
      /\ result'.final_risk = FinalRisk(cam, sen)
  BY DEF Evaluate
<1>2. FinalRisk(cam, sen) \in RiskLevel /\ TofRisk(sen) \in SAFE .. DANGER
  BY FinalRiskType, TofRiskType
<1>3. e = "EMERGENCY_IMPACT" => FinalRisk(cam, sen) >= DANGER
  BY FinalRiskType DEF ExceptionFloor
<1>4. e = "SENSOR_FAULT" => FinalRisk(cam, sen) >= CAUTION
  BY FinalRiskType DEF ExceptionFloor
<1>5. e = "UNCONFIRMED_PROXIMITY" => FinalRisk(cam, sen) >= CAUTION
  <2>1. e = "UNCONFIRMED_PROXIMITY" => TofRisk(sen) # SAFE
    BY DEF detectException
  <2>2. FinalRisk(cam, sen) >= TofRisk(sen)
    BY <1>2, CameraRiskType, ExceptionFloorType DEF FinalRisk, worstOf
  <2> QED BY <1>2, <2>1, <2>2
<1> QED BY <1>1, <1>3, <1>4, <1>5 DEF ExceptionHasFloor

\* An exception the clients raise an alarm for is never judged SAFE.
THEOREM ExceptionsAreShown == Spec => []ExceptionHasFloor
<1>1. Init => ExceptionHasFloor
  BY DEF Init, ExceptionHasFloor
<1>2. IInv /\ ExceptionHasFloor /\ [Next]_vars => ExceptionHasFloor'
  <2> SUFFICES ASSUME IInv, ExceptionHasFloor, [Next]_vars
               PROVE  ExceptionHasFloor'
    OBVIOUS
  <2>1. ASSUME NEW cam \in CameraInputs, NEW sen \in SensorInputs,
               Evaluate(cam, sen)
        PROVE  ExceptionHasFloor'
    BY <2>1, EvaluateFloor DEF IInv
  <2>2. CASE result' = result
    BY <2>2 DEF ExceptionHasFloor
  <2> QED BY <2>1, <2>2 DEF Next, setActiveStream, Elapse, vars
<1> QED BY InductiveInvariant, <1>1, <1>2, PTL DEF Spec

\* Only a frame gives a new verdict; the other steps keep the old one, and
\* after a change of stream no frame has been judged.
LEMMA OtherStepsKeepVerdict ==
  ASSUME [Next]_vars,
         ~ \E cam \in CameraInputs, sen \in SensorInputs : Evaluate(cam, sen)
  PROVE  /\ result' = result
         /\ judged_since_reset' => judged_since_reset' = judged_since_reset
BY DEF Next, setActiveStream, Elapse, vars

\* The memory of a judged frame, as the next frame's hysteresis reads it.
LEMMA Remembered ==
  ASSUME IInv, judged_since_reset
  PROVE  /\ result.camera_risk \in RiskLevel
         /\ result.camera_risk = EMERGENCY => in_emergency_
         /\ result.camera_risk # EMERGENCY =>
              ~in_emergency_ /\ last_camera_level_ = result.camera_risk
         /\ result.measured => has_last_camera_measurement_
<1>1. /\ result.camera_risk \in RiskLevel
      /\ last_camera_level_ \in {SAFE, CAUTION, DANGER}
      /\ result.measured \in BOOLEAN
  BY DEF IInv, TypeOK
<1>2. CASE result.measured
  BY <1>1, <1>2 DEF IInv, MemoryAgreesWithVerdict
<1>3. CASE ~result.measured
  BY <1>1, <1>3 DEF IInv, MemoryAgreesWithVerdict
<1> QED BY <1>1, <1>2, <1>3

\* A person at a border cannot make the level flicker, for every set of
\* thresholds the configuration accepts.
THEOREM NoFlicker == Spec => FallsOnlyPastMargin
<1> DEFINE A == /\ judged_since_reset /\ judged_since_reset'
                /\ result.measured /\ result'.measured
                /\ result'.camera_risk < result.camera_risk
                => Effective(result'.distance_mm)
                     > EntryThreshold(result.camera_risk) + MarginMm
<1>1. IInv /\ [Next]_vars => [A]_vars
  <2> SUFFICES ASSUME IInv, [Next]_vars,
                      judged_since_reset, judged_since_reset',
                      result.measured, result'.measured,
                      result'.camera_risk < result.camera_risk
               PROVE  Effective(result'.distance_mm)
                        > EntryThreshold(result.camera_risk) + MarginMm
    OBVIOUS
  <2>1. result.camera_risk \in RiskLevel
    BY Remembered
  <2>2. PICK cam \in CameraInputs, sen \in SensorInputs : Evaluate(cam, sen)
    BY <2>1, OtherStepsKeepVerdict
  <2> DEFINE d == Effective(cam.dist)
  <2>3. /\ Measured(cam)
        /\ result'.camera_risk = classifyByDistance(d)
        /\ result'.distance_mm = cam.dist
    BY <2>2 DEF Evaluate, CameraRisk, ReportedDistance
  <2>4. d \in Nat
    BY <2>3, InputAssumption, EffectiveNat DEF CameraInputs, Measured
  <2>5. CASE result.camera_risk = EMERGENCY
    <3>1. in_emergency_ /\ ~WithinEmergency(d)
      BY <2>3, <2>5, Remembered DEF classifyByDistance
    <3> QED
      BY <2>3, <2>4, <2>5, <3>1, ThresholdAssumption
         DEF WithinEmergency, EntryThreshold
  <2>6. CASE result.camera_risk = DANGER
    <3>1. last_camera_level_ = DANGER /\ ~Holds(DANGER, DangerMm, d)
      BY <2>3, <2>6, Remembered DEF classifyByDistance, BandLevel
    <3> QED
      BY <2>3, <2>4, <2>6, <3>1, ThresholdAssumption DEF Holds, EntryThreshold
  <2>7. CASE result.camera_risk = CAUTION
    <3>1. last_camera_level_ = CAUTION /\ ~Holds(CAUTION, CautionMm, d)
      BY <2>3, <2>7, Remembered DEF classifyByDistance, BandLevel
    <3> QED
      BY <2>3, <2>4, <2>7, <3>1, ThresholdAssumption DEF Holds, EntryThreshold
  <2>8. result.camera_risk # SAFE
    <3>1. result'.camera_risk \in RiskLevel
      BY <2>2, CameraRiskType DEF Evaluate, IInv
    <3> QED BY <3>1
  <2> QED BY <2>1, <2>5, <2>6, <2>7, <2>8
<1> QED BY InductiveInvariant, <1>1, PTL DEF Spec, FallsOnlyPastMargin

\* Hiding the marker neither lowers nor raises a level below EMERGENCY.
THEOREM OcclusionIsStable == Spec => OcclusionHoldsLevel
<1> DEFINE A == /\ judged_since_reset /\ judged_since_reset'
                /\ ~result'.localized
                /\ result.camera_risk < EMERGENCY
                => result'.camera_risk = result.camera_risk
<1>1. IInv /\ [Next]_vars => [A]_vars
  <2> SUFFICES ASSUME IInv, [Next]_vars,
                      judged_since_reset, judged_since_reset',
                      ~result'.localized, result.camera_risk < EMERGENCY,
                      NEW cam \in CameraInputs, NEW sen \in SensorInputs,
                      Evaluate(cam, sen)
               PROVE  result'.camera_risk = result.camera_risk
    BY OtherStepsKeepVerdict
  <2>1. ~cam.forklift_localized /\ result'.camera_risk = CameraRisk(cam)
    BY DEF Evaluate
  <2>2. last_camera_level_ = result.camera_risk
    BY Remembered
  <2>3. CASE has_last_camera_measurement_
    BY <2>1, <2>2, <2>3 DEF CameraRisk, Measured, Occluded, HeldLevel
  <2>4. CASE ~has_last_camera_measurement_
    <3>1. last_camera_level_ = SAFE
      BY <2>4 DEF IInv, MemoryAgreesWithVerdict
    <3> QED BY <2>1, <2>2, <2>4, <3>1 DEF CameraRisk, Measured, Occluded
  <2> QED BY <2>3, <2>4
<1> QED BY InductiveInvariant, <1>1, PTL DEF Spec, OcclusionHoldsLevel

\* A switch of stream inherits nothing, and a first frame without the marker is
\* judged at least CAUTION whatever the sensors say.
THEOREM BlindStartIsCautious == Spec => FirstBlindFrameIsCautious
<1> DEFINE A == /\ ~judged_since_reset /\ judged_since_reset'
                /\ ~result'.localized
                => /\ result'.distance_mm = NoDistance
                   /\ result'.camera_risk = SAFE
                   /\ result'.final_risk >= CAUTION
<1>1. IInv /\ [Next]_vars => [A]_vars
  <2> SUFFICES ASSUME IInv, [Next]_vars,
                      ~judged_since_reset, judged_since_reset',
                      ~result'.localized,
                      NEW cam \in CameraInputs, NEW sen \in SensorInputs,
                      Evaluate(cam, sen)
               PROVE  /\ result'.distance_mm = NoDistance
                      /\ result'.camera_risk = SAFE
                      /\ result'.final_risk >= CAUTION
    BY OtherStepsKeepVerdict
  <2>1. ~has_last_camera_measurement_
    BY DEF IInv, MemoryAgreesWithVerdict
  <2>2. ~cam.forklift_localized /\ ~Measured(cam) /\ ~Occluded(cam)
    BY <2>1 DEF Evaluate, Measured, Occluded
  <2>3. ExceptionFloor(cam, sen) >= CAUTION
    BY <2>1, <2>2 DEF ExceptionFloor, detectException, PositionLost
  <2>4. FinalRisk(cam, sen) >= CAUTION
    BY <2>3, FinalRiskType, ExceptionFloorType DEF IInv
  <2> QED
    BY <2>2, <2>4 DEF Evaluate, CameraRisk, ReportedDistance
<1> QED BY InductiveInvariant, <1>1, PTL DEF Spec, FirstBlindFrameIsCautious

\* DEAD_RECKONING is withdrawn only when the whole grace period has passed since
\* the frame that last latched it, for every length of the period and whatever
\* exceptions were reported in between.
THEOREM GraceIsWaited == Spec => ReleasedOnlyAfterGrace
<1> DEFINE A == /\ dead_reckoning_reported /\ ~dead_reckoning_reported'
                /\ judged_since_reset'
                => since_dead_reckoning >= ReleaseGrace
<1>1. IInv /\ [Next]_vars => [A]_vars
  <2> SUFFICES ASSUME IInv, [Next]_vars,
                      dead_reckoning_reported, ~dead_reckoning_reported',
                      judged_since_reset'
               PROVE  since_dead_reckoning >= ReleaseGrace
    OBVIOUS
  <2>1. PICK cam \in CameraInputs, sen \in SensorInputs : Evaluate(cam, sen)
    BY DEF Next, setActiveStream, Elapse, vars
  <2>2. dead_reckoning_active_
    BY DEF IInv, MemoryAgreesWithVerdict
  <2>3. detectException(cam, sen) \in {"NONE", "UNCONFIRMED_PROXIMITY"}
    BY <2>1, ExceptionType DEF Evaluate
  <2>4. ~GraceRunning
    BY <2>3 DEF detectException
  <2> QED BY <2>2, <2>4, InputAssumption DEF GraceRunning, IInv, TypeOK
<1> QED BY InductiveInvariant, <1>1, PTL DEF Spec, ReleasedOnlyAfterGrace

\* The invariants of the module together, as its run checks them.
THEOREM SafetyHolds == Spec => []Safety
<1> QED BY TypeCorrect, MemoryIsFaithful, CutoffIsMeasured, ExceptionsAreShown, PTL DEF Safety

-----------------------------------------------------------------------------
(* The camera's detector                                                   *)

WorkerStates ==
  {"scan", "scanning", "waiting", "detecting", "updated", "completed", "kept",
   "dropped", "exited"}
PutterStates == {"idle", "choosing", "copying", "notifying"}
ManagerStates == {"idle", "notifying", "swapping", "joining", "stopped", "spawning"}

DetectorTypes ==
  /\ active_channels \in Configs /\ active_channels \in Seq(DetectorChannels)
  /\ cursor \in Nat /\ in_flight_channels \subseteq DetectorChannels
  /\ running \in BOOLEAN
  /\ pending \in [DetectorChannels -> BOOLEAN] /\ in_flight \in [DetectorChannels -> BOOLEAN]
  /\ copying \in [DetectorChannels -> BOOLEAN]
  /\ worker \in [Workers -> WorkerStates] /\ channel \in [Workers -> DetectorChannels]
  /\ offset \in [Workers -> Nat]
  /\ putter \in [Putters -> PutterStates] /\ put_channel \in [Putters -> DetectorChannels]
  /\ manager \in ManagerStates /\ mutex \in Workers \cup {Detector!None}
  /\ mutex # Detector!None => worker[mutex] = "scanning"
  /\ running => cursor < Len(active_channels)
  /\ kept \in [DetectorChannels -> Nat]

\* A worker has the channel it is busy with to itself, and the store knows.
Busy(w, c) == worker[w] \in {"detecting", "updated"} /\ channel[w] = c
FlightInv ==
  /\ \A w \in Workers, c \in DetectorChannels : Busy(w, c) => in_flight[c]
  /\ \A c \in DetectorChannels : in_flight[c] => \E w \in Workers : Busy(w, c)
  /\ \A v, w \in Workers, c \in DetectorChannels : Busy(v, c) /\ Busy(w, c) => v = w

\* So has a thread that stores a frame.
Copies(p, c) == putter[p] \in {"choosing", "copying"} /\ put_channel[p] = c
CopyInv ==
  /\ \A p \in Putters, c \in DetectorChannels : Copies(p, c) => copying[c]
  /\ \A p, q \in Putters, c \in DetectorChannels : Copies(p, c) /\ Copies(q, c) => p = q

\* New settings come when every worker has left.
RestartInv == manager \in {"stopped", "spawning"} => \A w \in Workers : worker[w] = "exited"

DetectorInv == DetectorTypes /\ FlightInv /\ CopyInv /\ RestartInv

LEMMA DetectorConstants ==
  /\ DetectorChannels # {} /\ \A s \in Configs : s \in Seq(DetectorChannels)
  /\ <<>> \in Configs /\ IsFiniteSet(Workers) /\ PoolSize \in Nat
  /\ Cardinality(Workers) + 1 < PoolSize
  /\ \A S : Detector!Cardinality(S) = Cardinality(S)
<1>1. \A S : Detector!Cardinality(S) = Cardinality(S)
  BY Zenon DEF Detector!Cardinality, Cardinality
<1>2. Detector!IsFiniteSet(Workers)
  BY DetectorAssumption, Zenon DEF Detector!ConstantAssumption
<1>3. IsFiniteSet(Workers)
  BY <1>2, Zenon DEF Detector!IsFiniteSet, IsFiniteSet
<1>4. PoolSize \in Nat /\ Cardinality(Workers) + 1 < PoolSize
  BY <1>1, DetectorAssumption DEF Detector!ConstantAssumption
<1> QED
  BY <1>1, <1>3, <1>4, DetectorAssumption DEF Detector!ConstantAssumption

LEMMA Remainder ==
  ASSUME NEW a \in Nat, NEW n \in Nat, n > 0
  PROVE  a % n \in Nat /\ a % n < n
  OBVIOUS

LEMMA AnyChannelType == Detector!AnyChannel \in DetectorChannels
  BY DetectorConstants DEF Detector!AnyChannel

LEMMA DetectorInit == Detector!Init => DetectorInv
<1> SUFFICES ASSUME Detector!Init PROVE DetectorInv
  OBVIOUS
<1> DEFINE first == Detector!AnyChannel
<1>1. first \in DetectorChannels
  BY AnyChannelType
<1>2. /\ channel \in [Workers -> {first}] /\ put_channel \in [Putters -> {first}]
  BY DEF Detector!Init
<1> HIDE DEF first
<1>3. channel \in [Workers -> DetectorChannels] /\ put_channel \in [Putters -> DetectorChannels]
  BY <1>1, <1>2
<1>4. /\ running = FALSE /\ active_channels = <<>> /\ cursor = 0 /\ in_flight_channels = {}
      /\ pending = [c \in DetectorChannels |-> FALSE] /\ in_flight = pending /\ copying = pending
      /\ worker = [w \in Workers |-> "exited"] /\ offset = [w \in Workers |-> 0]
      /\ putter = [p \in Putters |-> "idle"] /\ manager = "stopped" /\ mutex = Detector!None
      /\ kept \in [DetectorChannels -> Nat]
  BY DEF Detector!Init
<1>5. <<>> \in Seq(DetectorChannels) /\ <<>> \in Configs
  BY DetectorConstants
<1>6. pending \in [DetectorChannels -> BOOLEAN] /\ running \in BOOLEAN /\ ~running
  BY <1>4, Zenon
<1>7. /\ worker \in [Workers -> WorkerStates] /\ offset \in [Workers -> Nat]
      /\ putter \in [Putters -> PutterStates]
  BY <1>4 DEF WorkerStates, PutterStates
<1>8. DetectorTypes
  BY <1>3, <1>4, <1>5, <1>6, <1>7 DEF DetectorTypes, ManagerStates
<1>9. \A c \in DetectorChannels : ~in_flight[c]
  BY <1>4, Zenon
<1>10. FlightInv /\ CopyInv /\ RestartInv
  BY <1>4, <1>9 DEF FlightInv, CopyInv, RestartInv, Busy, Copies
<1> QED
  BY <1>8, <1>10 DEF DetectorInv

\* A frame is stored beside the workers.
LEMMA PutInv ==
  ASSUME DetectorInv, NEW p \in Putters,
         \/ \E c \in DetectorChannels : Detector!PutFrame(p, c)
         \/ Detector!ChooseBuffer(p) \/ Detector!StoreFrame(p)
  PROVE  DetectorInv'
<1>1. UNCHANGED <<running, active_channels, cursor, in_flight_channels, in_flight, worker,
                  channel, offset, manager, mutex, kept>>
  BY DEF Detector!PutFrame, Detector!ChooseBuffer, Detector!StoreFrame,
     Detector!dispatcherVars, Detector!workerVars, Detector!testVars
<1>2. PICK c \in DetectorChannels, a \in DetectorChannels, b \in BOOLEAN, s \in PutterStates :
        /\ copying' = copying \/ copying' = [copying EXCEPT ![c] = b]
        /\ putter' = [putter EXCEPT ![p] = s]
        /\ put_channel' = [put_channel EXCEPT ![p] = a]
        /\ s \in {"choosing", "copying"} => a = c
        /\ pending' = pending \/ pending' = [pending EXCEPT ![c] = TRUE]
        /\ \/ ~copying[c] /\ copying'[c] /\ s = "choosing"
           \/ Copies(p, c) /\ copying' = copying /\ s = "copying"
           \/ /\ Copies(p, c) /\ copying' = [copying EXCEPT ![c] = FALSE]
              /\ s \in {"idle", "notifying"}
  <2>1. CASE \E c \in DetectorChannels : Detector!PutFrame(p, c)
    <3>1. PICK c \in DetectorChannels : Detector!PutFrame(p, c)
      BY <2>1
    <3>2. /\ ~copying[c] /\ copying' = [copying EXCEPT ![c] = TRUE] /\ pending' = pending
          /\ putter' = [putter EXCEPT ![p] = "choosing"]
          /\ put_channel' = [put_channel EXCEPT ![p] = c]
      BY <3>1 DEF Detector!PutFrame, Detector!WantsCopy
    <3>3. copying'[c]
      BY <3>2, Zenon DEF DetectorInv, DetectorTypes
    <3> QED
      BY <3>2, <3>3 DEF PutterStates
  <2>2. CASE Detector!ChooseBuffer(p) \/ Detector!StoreFrame(p)
    <3> DEFINE c == put_channel[p]
    <3>1. /\ c \in DetectorChannels /\ Copies(p, c)
          /\ put_channel = [put_channel EXCEPT ![p] = c]
      BY <2>2 DEF DetectorInv, DetectorTypes, Copies, Detector!ChooseBuffer,
         Detector!StoreFrame
    <3>2. /\ pending' = pending \/ pending' = [pending EXCEPT ![c] = TRUE]
          /\ \/ /\ putter' = [putter EXCEPT ![p] = "copying"] /\ copying' = copying
                /\ put_channel' = put_channel
             \/ \E s \in {"idle", "notifying"} :
                  /\ putter' = [putter EXCEPT ![p] = s]
                  /\ copying' = [copying EXCEPT ![c] = FALSE]
                  /\ put_channel' = [put_channel EXCEPT ![p] = Detector!AnyChannel]
      BY <2>2 DEF Detector!ChooseBuffer, Detector!StoreFrame
    <3> HIDE DEF c
    <3> QED
      BY <3>1, <3>2, AnyChannelType DEF PutterStates
  <2> QED
    BY <2>1, <2>2
<1>3. copying' \in [DetectorChannels -> BOOLEAN] /\ pending' \in [DetectorChannels -> BOOLEAN]
  BY <1>2, Zenon DEF DetectorInv, DetectorTypes
<1>4. /\ putter' \in [Putters -> PutterStates] /\ put_channel' \in [Putters -> DetectorChannels]
      /\ \A q \in Putters : q # p => putter'[q] = putter[q] /\ put_channel'[q] = put_channel[q]
      /\ putter'[p] = s /\ put_channel'[p] = a
  BY <1>2 DEF DetectorInv, DetectorTypes
<1>5. \A d \in DetectorChannels : d # c => (copying'[d] <=> copying[d])
  BY <1>2, Zenon DEF DetectorInv, DetectorTypes
<1>6. s \in {"idle", "notifying"} \/ copying'[c]
  BY <1>2 DEF DetectorInv, CopyInv
<1>7. \A q \in Putters, d \in DetectorChannels : q # p => (Copies(q, d)' <=> Copies(q, d))
  BY <1>4 DEF Copies
<1>8. \A d \in DetectorChannels : Copies(p, d)' <=> d = c /\ s \in {"choosing", "copying"}
  BY <1>2, <1>4 DEF Copies
<1>9. \A q \in Putters : q # p => ~Copies(q, c)
  BY <1>2 DEF DetectorInv, CopyInv
<1>10. CopyInv'
  <2>1. ASSUME NEW q \in Putters, NEW d \in DetectorChannels, Copies(q, d)'
        PROVE  copying'[d]
    BY <1>5, <1>6, <1>7, <1>8, <1>9, <2>1 DEF DetectorInv, CopyInv
  <2>2. ASSUME NEW q \in Putters, NEW r \in Putters, NEW d \in DetectorChannels,
               Copies(q, d)', Copies(r, d)'
        PROVE  q = r
    BY <1>7, <1>8, <1>9, <2>2 DEF DetectorInv, CopyInv
  <2> QED
    BY <2>1, <2>2 DEF CopyInv
<1>11. DetectorTypes'
  BY <1>1, <1>3, <1>4 DEF DetectorInv, DetectorTypes
<1>12. FlightInv' /\ RestartInv'
  BY <1>1 DEF DetectorInv, FlightInv, RestartInv, Busy
<1> QED
  BY <1>10, <1>11, <1>12 DEF DetectorInv

\* Workers that are not busy move, and nobody enters or leaves a frame.
LEMMA IdleMove ==
  ASSUME DetectorInv, worker' \in [Workers -> WorkerStates],
         UNCHANGED <<active_channels, pending, in_flight, copying, channel, putter,
                     put_channel>>,
         \A w \in Workers :
           \/ worker'[w] = worker[w]
           \/ /\ worker[w] \notin {"detecting", "updated"}
              /\ worker'[w] \notin {"detecting", "updated"}
  PROVE  FlightInv' /\ CopyInv'
<1>1. \A w \in Workers, c \in DetectorChannels : Busy(w, c)' <=> Busy(w, c)
  BY DEF Busy
<1>2. CopyInv'
  BY DEF DetectorInv, CopyInv, Copies
<1> QED
  BY <1>1, <1>2 DEF DetectorInv, FlightInv

\* A notification wakes who waits.
LEMMA NotifyMoves ==
  ASSUME DetectorInv, Detector!NotifyAll
  PROVE  /\ worker' \in [Workers -> WorkerStates]
         /\ \A w \in Workers :
              \/ worker'[w] = worker[w]
              \/ worker[w] = "waiting" /\ worker'[w] = "scan"
  BY DEF Detector!NotifyAll, DetectorInv, DetectorTypes, WorkerStates

LEMMA FrameReadyInv ==
  ASSUME DetectorInv, NEW p \in Putters, Detector!OnFrameReady(p)
  PROVE  DetectorInv'
<1>1. /\ putter[p] = "notifying" /\ Detector!NotifyAll
      /\ putter' = [putter EXCEPT ![p] = "idle"]
      /\ UNCHANGED <<running, active_channels, cursor, in_flight_channels, pending, in_flight,
                     copying, channel, offset, put_channel, manager, mutex, kept>>
  BY DEF Detector!OnFrameReady, Detector!dispatcherVars, Detector!storeVars, Detector!testVars
<1>2. /\ worker' \in [Workers -> WorkerStates]
      /\ \A w \in Workers :
           \/ worker'[w] = worker[w]
           \/ worker[w] = "waiting" /\ worker'[w] = "scan"
  BY <1>1, NotifyMoves
<1>3. \A w \in Workers, c \in DetectorChannels : Busy(w, c)' <=> Busy(w, c)
  BY <1>1, <1>2 DEF Busy
<1>4. FlightInv'
  BY <1>1, <1>3 DEF DetectorInv, FlightInv
<1>5. \A q \in Putters, c \in DetectorChannels : Copies(q, c)' <=> Copies(q, c)
  BY <1>1 DEF Copies, DetectorInv, DetectorTypes
<1>6. CopyInv'
  BY <1>1, <1>5 DEF DetectorInv, CopyInv
<1>7. DetectorTypes'
  BY <1>1, <1>2 DEF DetectorInv, DetectorTypes, PutterStates
<1>8. RestartInv'
  BY <1>1, <1>2 DEF DetectorInv, RestartInv
<1> QED
  BY <1>4, <1>6, <1>7, <1>8 DEF DetectorInv

\* A worker takes the mutex, finds nothing and waits, or leaves.
LEMMA ScanInv ==
  ASSUME DetectorInv, NEW w \in Workers,
         Detector!BeginScan(w) \/ Detector!WaitForFrame(w)
  PROVE  DetectorInv'
<1>1. /\ UNCHANGED <<running, active_channels, cursor, in_flight_channels, pending, in_flight,
                     copying, channel, putter, put_channel, manager, kept>>
      /\ worker[w] \in {"scan", "scanning"}
      /\ \/ /\ worker[w] = "scan" /\ mutex' = w /\ offset' = [offset EXCEPT ![w] = 0]
            /\ worker' = [worker EXCEPT ![w] = "scanning"]
         \/ /\ worker[w] = "scan" /\ mutex = Detector!None /\ mutex' = mutex /\ offset' = offset
            /\ worker' = [worker EXCEPT ![w] = "exited"]
         \/ /\ mutex' = Detector!None /\ offset' = [offset EXCEPT ![w] = 0]
            /\ worker' = [worker EXCEPT ![w] = "waiting"]
  BY DEF Detector!BeginScan, Detector!WaitForFrame, Detector!dispatcherVars,
     Detector!storeVars, Detector!putVars, Detector!testVars
<1>2. worker' \in [Workers -> WorkerStates] /\ offset' \in [Workers -> Nat]
  <2>1. offset' = offset \/ offset' = [offset EXCEPT ![w] = 0]
    BY <1>1
  <2>2. offset' \in [Workers -> Nat]
    <3>1. offset \in [Workers -> Nat]
      BY DEF DetectorInv, DetectorTypes
    <3>2. [offset EXCEPT ![w] = 0] \in [Workers -> Nat]
      BY <3>1
    <3> QED
      BY <2>1, <3>1, <3>2
  <2>3. \E s \in WorkerStates : worker' = [worker EXCEPT ![w] = s]
    BY <1>1 DEF WorkerStates
  <2>4. worker' \in [Workers -> WorkerStates]
    BY <2>3 DEF DetectorInv, DetectorTypes
  <2> QED
    BY <2>2, <2>4
<1>3. FlightInv' /\ CopyInv'
  <2>1. \A v \in Workers :
          \/ worker'[v] = worker[v]
          \/ /\ worker[v] \notin {"detecting", "updated"}
             /\ worker'[v] \notin {"detecting", "updated"}
    BY <1>1 DEF DetectorInv, DetectorTypes
  <2> QED
    BY <1>1, <1>2, <2>1, IdleMove
<1>4. /\ mutex' \in Workers \cup {Detector!None}
      /\ mutex' # Detector!None => worker'[mutex'] = "scanning"
  BY <1>1 DEF DetectorInv, DetectorTypes
<1>5. DetectorTypes'
  BY <1>1, <1>2, <1>4 DEF DetectorInv, DetectorTypes
<1>6. RestartInv'
  BY <1>1 DEF DetectorInv, RestartInv
<1> QED
  BY <1>3, <1>5, <1>6 DEF DetectorInv

\* A worker passes a channel over, or takes its frame.
LEMMA ScanChannelInv ==
  ASSUME DetectorInv, NEW w \in Workers, Detector!ScanChannel(w)
  PROVE  DetectorInv'
<1> DEFINE n == Len(active_channels)
           a == cursor + offset[w]
           i == a % n
           c == active_channels[i + 1]
<1>1. /\ n \in Nat /\ a \in Nat /\ n > 0 /\ offset[w] \in Nat /\ worker[w] = "scanning"
      /\ active_channels \in Seq(DetectorChannels)
  BY DEF DetectorInv, DetectorTypes, Detector!ScanChannel
<1>2. i \in Nat /\ i < n
  BY <1>1, Remainder
<1>3. c \in DetectorChannels
  <2> HIDE DEF i
  <2> QED
    BY <1>1, <1>2
<1>4. /\ UNCHANGED <<running, active_channels, copying, putter, put_channel, manager, kept>>
      /\ \/ /\ offset' = [offset EXCEPT ![w] = @ + 1]
            /\ UNCHANGED <<cursor, in_flight_channels, pending, in_flight, worker, channel, mutex>>
         \/ /\ ~in_flight[c] /\ in_flight' = [in_flight EXCEPT ![c] = TRUE]
            /\ pending' = [pending EXCEPT ![c] = FALSE]
            /\ cursor' = (i + 1) % n
            /\ in_flight_channels' = in_flight_channels \cup {c}
            /\ worker' = [worker EXCEPT ![w] = "detecting"]
            /\ channel' = [channel EXCEPT ![w] = c]
            /\ mutex' = Detector!None /\ offset' = [offset EXCEPT ![w] = 0]
  BY DEF Detector!ScanChannel, Detector!Available, Detector!Index, Detector!NextCursor,
     Detector!dispatcherVars, Detector!storeVars, Detector!putVars, Detector!testVars
<1>5. (i + 1) % n \in Nat /\ (i + 1) % n < n
  BY <1>1, <1>2, Remainder
<1> DEFINE k == (i + 1) % n
<1> HIDE DEF i, c, k
<1>6. CASE /\ offset' = [offset EXCEPT ![w] = @ + 1]
           /\ UNCHANGED <<cursor, in_flight_channels, pending, in_flight, worker, channel, mutex>>
  <2>1. offset' \in [Workers -> Nat]
    BY <1>1, <1>6 DEF DetectorInv, DetectorTypes
  <2> QED
    BY <1>4, <1>6, <2>1 DEF DetectorInv, DetectorTypes, FlightInv, CopyInv, RestartInv,
       Busy, Copies
<1>7. CASE /\ ~in_flight[c] /\ in_flight' = [in_flight EXCEPT ![c] = TRUE]
           /\ pending' = [pending EXCEPT ![c] = FALSE]
           /\ cursor' = k
           /\ in_flight_channels' = in_flight_channels \cup {c}
           /\ worker' = [worker EXCEPT ![w] = "detecting"]
           /\ channel' = [channel EXCEPT ![w] = c]
           /\ mutex' = Detector!None /\ offset' = [offset EXCEPT ![w] = 0]
  <2>1. /\ in_flight' \in [DetectorChannels -> BOOLEAN]
        /\ pending' \in [DetectorChannels -> BOOLEAN] /\ in_flight'[c]
        /\ \A d \in DetectorChannels : d # c => (in_flight'[d] <=> in_flight[d])
    BY <1>3, <1>7, Zenon DEF DetectorInv, DetectorTypes
  <2>2. /\ worker' \in [Workers -> WorkerStates] /\ channel' \in [Workers -> DetectorChannels]
        /\ in_flight_channels' \subseteq DetectorChannels /\ offset' \in [Workers -> Nat]
    BY <1>3, <1>7 DEF DetectorInv, DetectorTypes, WorkerStates
  <2>3. cursor' \in Nat /\ cursor' < n
    BY <1>5, <1>7 DEF k
  <2>4. DetectorTypes'
    BY <1>4, <1>7, <2>1, <2>2, <2>3 DEF DetectorInv, DetectorTypes
  <2>5. /\ \A v \in Workers, d \in DetectorChannels : v # w => (Busy(v, d)' <=> Busy(v, d))
        /\ \A d \in DetectorChannels : (Busy(w, d)' <=> d = c) /\ ~Busy(w, d)
        /\ \A v \in Workers : ~Busy(v, c)
    BY <1>1, <1>7 DEF DetectorInv, DetectorTypes, FlightInv, Busy
  <2>6. FlightInv'
    <3>1. ASSUME NEW v \in Workers, NEW d \in DetectorChannels, Busy(v, d)'
          PROVE  in_flight'[d]
      BY <2>1, <2>5, <3>1 DEF DetectorInv, FlightInv
    <3>2. ASSUME NEW d \in DetectorChannels, in_flight'[d]
          PROVE  \E v \in Workers : Busy(v, d)'
      BY <1>3, <2>1, <2>5, <3>2 DEF DetectorInv, FlightInv
    <3>3. ASSUME NEW u \in Workers, NEW v \in Workers, NEW d \in DetectorChannels,
                 Busy(u, d)', Busy(v, d)'
          PROVE  u = v
      BY <2>5, <3>3 DEF DetectorInv, FlightInv
    <3> QED
      BY <3>1, <3>2, <3>3 DEF FlightInv
  <2>7. CopyInv' /\ RestartInv'
    BY <1>1, <1>4, <1>7 DEF DetectorInv, CopyInv, RestartInv, Copies
  <2> QED
    BY <2>4, <2>6, <2>7 DEF DetectorInv
<1> QED
  BY <1>4, <1>6, <1>7 DEF k

\* The dispatcher forgets the task, the test has its completion, and the worker
\* ends its round.
LEMMA RoundInv ==
  ASSUME DetectorInv, NEW w \in Workers,
         Detector!UpdateStatus(w) \/ Detector!ReportCompletion(w) \/ Detector!EndOfRound(w)
  PROVE  DetectorInv'
<1>1. /\ UNCHANGED <<running, active_channels, cursor, pending, in_flight, copying,
                     offset, putter, put_channel, manager, mutex>>
      /\ in_flight_channels' \subseteq in_flight_channels
      /\ \/ /\ worker[w] = "detecting" /\ worker' = [worker EXCEPT ![w] = "updated"]
            /\ channel' = channel
         \/ /\ worker[w] = "completed" /\ channel' = channel
            /\ \E s \in {"kept", "dropped"} : worker' = [worker EXCEPT ![w] = s]
         \/ /\ worker[w] \in {"kept", "dropped"}
            /\ channel' = [channel EXCEPT ![w] = Detector!AnyChannel]
            /\ worker' = [v \in Workers |->
                            IF v = w \/ worker[v] = "waiting" THEN "scan" ELSE worker[v]]
  BY DEF Detector!UpdateStatus, Detector!ReportCompletion, Detector!EndOfRound,
     Detector!dispatcherVars, Detector!storeVars, Detector!putVars, Detector!testVars
<1>2. kept' \in [DetectorChannels -> Nat]
  <2>1. kept' = kept \/ kept' = [kept EXCEPT ![channel[w]] = @ + 1]
    BY DEF Detector!UpdateStatus, Detector!ReportCompletion, Detector!EndOfRound, Detector!testVars
  <2>2. kept \in [DetectorChannels -> Nat] /\ channel[w] \in DetectorChannels
    BY DEF DetectorInv, DetectorTypes
  <2> QED
    BY <2>1, <2>2
<1>3. /\ worker' \in [Workers -> WorkerStates] /\ worker[w] # "exited"
      /\ channel' \in [Workers -> DetectorChannels]
      /\ \A v \in Workers, c \in DetectorChannels : Busy(v, c)' <=> Busy(v, c)
      /\ \A v \in Workers : worker[v] = "scanning" => worker'[v] = "scanning"
  BY <1>1, AnyChannelType DEF DetectorInv, DetectorTypes, WorkerStates, Busy
<1>4. DetectorTypes'
  BY <1>1, <1>2, <1>3 DEF DetectorInv, DetectorTypes
<1>5. FlightInv' /\ CopyInv' /\ RestartInv'
  BY <1>1, <1>3 DEF DetectorInv, FlightInv, CopyInv, RestartInv, Copies
<1> QED
  BY <1>4, <1>5 DEF DetectorInv

\* The store forgets the frame in flight.
LEMMA CompleteInv ==
  ASSUME DetectorInv, NEW w \in Workers, Detector!Complete(w)
  PROVE  DetectorInv'
<1> DEFINE c == channel[w]
<1>1. /\ worker[w] = "updated" /\ in_flight' = [in_flight EXCEPT ![c] = FALSE]
      /\ worker' = [worker EXCEPT ![w] = "completed"]
      /\ UNCHANGED <<running, active_channels, cursor, in_flight_channels, pending, copying,
                     channel, offset, putter, put_channel, manager, mutex, kept>>
  BY DEF Detector!Complete, Detector!dispatcherVars, Detector!putVars, Detector!testVars
<1>2. c \in DetectorChannels /\ Busy(w, c)
  BY <1>1 DEF DetectorInv, DetectorTypes, Busy
<1>3. /\ in_flight' \in [DetectorChannels -> BOOLEAN] /\ ~in_flight'[c]
      /\ \A d \in DetectorChannels : d # c => (in_flight'[d] <=> in_flight[d])
  BY <1>1, <1>2, Zenon DEF DetectorInv, DetectorTypes
<1>4. /\ worker' \in [Workers -> WorkerStates]
      /\ \A v \in Workers, d \in DetectorChannels : v # w => (Busy(v, d)' <=> Busy(v, d))
      /\ \A d \in DetectorChannels : ~Busy(w, d)' /\ (Busy(w, d) => d = c)
  BY <1>1 DEF DetectorInv, DetectorTypes, WorkerStates, Busy
<1> HIDE DEF c
<1>5. DetectorTypes'
  BY <1>1, <1>3, <1>4 DEF DetectorInv, DetectorTypes
<1>6. \A v \in Workers : v # w => ~Busy(v, c)
  BY <1>2 DEF DetectorInv, FlightInv
<1>7. FlightInv'
  <2>1. ASSUME NEW v \in Workers, NEW d \in DetectorChannels, Busy(v, d)'
        PROVE  in_flight'[d]
    BY <1>3, <1>4, <1>6, <2>1 DEF DetectorInv, FlightInv
  <2>2. ASSUME NEW d \in DetectorChannels, in_flight'[d]
        PROVE  \E v \in Workers : Busy(v, d)'
    <3>1. d # c /\ in_flight[d]
      BY <1>3, <2>2
    <3>2. PICK v \in Workers : Busy(v, d)
      BY <3>1 DEF DetectorInv, FlightInv
    <3> QED
      BY <1>4, <3>1, <3>2
  <2>3. ASSUME NEW u \in Workers, NEW v \in Workers, NEW d \in DetectorChannels,
               Busy(u, d)', Busy(v, d)'
        PROVE  u = v
    BY <1>4, <2>3 DEF DetectorInv, FlightInv
  <2> QED
    BY <2>1, <2>2, <2>3 DEF FlightInv
<1>8. CopyInv' /\ RestartInv'
  BY <1>1 DEF DetectorInv, CopyInv, RestartInv, Copies
<1> QED
  BY <1>5, <1>7, <1>8 DEF DetectorInv

\* Stop and Start.
LEMMA ManagerInv ==
  ASSUME DetectorInv, Detector!StopStep \/ Detector!StopRunning
  PROVE  DetectorInv'
<1>1. UNCHANGED <<pending, in_flight, copying, channel, offset, putter, put_channel, mutex, kept>>
  BY DEF Detector!testVars, Detector!StopStep, Detector!StopRunning, Detector!StopNotifies,
     Detector!StopForgetsTasks, Detector!StopJoins, Detector!Start, Detector!SpawnWorkers,
     Detector!storeVars, Detector!workerVars, Detector!putVars
<1>2. CopyInv'
  BY <1>1 DEF DetectorInv, CopyInv, Copies
<1>3. CASE Detector!StopRunning \/ Detector!StopForgetsTasks \/ Detector!StopJoins
  <2>1. /\ UNCHANGED <<active_channels, cursor, worker>>
        /\ in_flight_channels' \subseteq in_flight_channels
        /\ manager' \in {"notifying", "joining", "stopped"}
        /\ manager' = "stopped" => \A w \in Workers : worker[w] = "exited"
    BY <1>3 DEF Detector!StopRunning, Detector!StopForgetsTasks, Detector!StopJoins,
       Detector!AllJoined, Detector!dispatcherVars, Detector!storeVars, Detector!workerVars
  <2>2. running' \in BOOLEAN /\ (running' => running)
    <3>1. running' = FALSE \/ running' = running
      <4>1. CASE Detector!StopRunning
        BY <4>1, Zenon DEF Detector!StopRunning
      <4>2. CASE Detector!StopForgetsTasks \/ Detector!StopJoins
        BY <4>2, Zenon DEF Detector!StopForgetsTasks, Detector!StopJoins, Detector!dispatcherVars
      <4> QED
        BY <1>3, <4>1, <4>2
    <3>2. running \in BOOLEAN
      BY DEF DetectorInv, DetectorTypes
    <3>3. CASE running' = FALSE
      BY <3>3, Zenon
    <3>4. CASE running' = running
      BY <3>2, <3>4, Zenon
    <3> QED
      BY <3>1, <3>3, <3>4
  <2>3. DetectorTypes'
    BY <1>1, <2>1, <2>2 DEF DetectorInv, DetectorTypes, ManagerStates
  <2>4. FlightInv' /\ RestartInv'
    BY <1>1, <2>1 DEF DetectorInv, FlightInv, RestartInv, Busy
  <2> QED
    BY <1>2, <2>3, <2>4 DEF DetectorInv
<1>4. CASE Detector!StopNotifies
  <2>1. /\ Detector!NotifyAll /\ manager' = "swapping"
        /\ UNCHANGED <<running, active_channels, cursor, in_flight_channels>>
    BY <1>4 DEF Detector!StopNotifies, Detector!dispatcherVars
  <2>2. /\ worker' \in [Workers -> WorkerStates]
        /\ \A w \in Workers :
             \/ worker'[w] = worker[w]
             \/ worker[w] = "waiting" /\ worker'[w] = "scan"
    BY <2>1, NotifyMoves
  <2>3. FlightInv'
    BY <1>1, <2>1, <2>2, IdleMove
  <2>4. DetectorTypes'
    BY <1>1, <2>1, <2>2 DEF DetectorInv, DetectorTypes, ManagerStates
  <2>5. RestartInv'
    BY <2>1 DEF RestartInv
  <2> QED
    BY <1>2, <2>3, <2>4, <2>5 DEF DetectorInv
<1>5. CASE Detector!Start
  <2>1. PICK config \in Configs :
          /\ manager = "stopped" /\ active_channels' = config
          /\ running' = (config # <<>>)
          /\ manager' = IF config = <<>> THEN "idle" ELSE "spawning"
    BY <1>5 DEF Detector!Start
  <2>2. cursor' = 0 /\ in_flight_channels' = {} /\ worker' = worker
    BY <1>5 DEF Detector!Start, Detector!workerVars
  <2>3. config \in Seq(DetectorChannels)
    BY DetectorConstants
  <2>4. running' \in BOOLEAN /\ (running' => config # <<>>)
    BY <2>1, Zenon
  <2>5. config # <<>> => Len(config) \in Nat /\ 0 < Len(config)
    BY <2>3
  <2>6. DetectorTypes'
    BY <1>1, <2>1, <2>2, <2>3, <2>4, <2>5 DEF DetectorInv, DetectorTypes, ManagerStates
  <2>7. FlightInv' /\ RestartInv'
    BY <1>1, <2>1, <2>2 DEF DetectorInv, FlightInv, RestartInv, Busy
  <2> QED
    BY <1>2, <2>6, <2>7 DEF DetectorInv
<1>6. CASE Detector!SpawnWorkers
  <2>1. /\ manager = "spawning" /\ worker' = [w \in Workers |-> "scan"] /\ manager' = "idle"
        /\ UNCHANGED <<running, active_channels, cursor, in_flight_channels>>
    BY <1>6 DEF Detector!SpawnWorkers, Detector!dispatcherVars
  <2>2. /\ worker' \in [Workers -> WorkerStates]
        /\ \A w \in Workers : worker[w] = "exited" /\ worker'[w] = "scan"
    BY <2>1 DEF DetectorInv, RestartInv, WorkerStates
  <2>3. FlightInv'
    BY <1>1, <2>1, <2>2, IdleMove
  <2>4. DetectorTypes'
    BY <1>1, <2>1, <2>2 DEF DetectorInv, DetectorTypes, ManagerStates
  <2>5. RestartInv'
    BY <2>1 DEF RestartInv
  <2> QED
    BY <1>2, <2>3, <2>4, <2>5 DEF DetectorInv
<1> QED
  BY <1>3, <1>4, <1>5, <1>6 DEF Detector!StopStep

\* The test observes, or forgets what it has kept.
LEMMA ObserverInv ==
  ASSUME DetectorInv, Detector!SetCompletionObserver \/ Detector!ForgetCompletions
  PROVE  DetectorInv'
<1>1. UNCHANGED <<running, active_channels, cursor, in_flight_channels, pending, in_flight,
                  copying, channel, offset, putter, put_channel, manager, mutex>>
  BY DEF Detector!SetCompletionObserver, Detector!ForgetCompletions, Detector!dispatcherVars,
     Detector!storeVars, Detector!workerVars, Detector!putVars
<1>2. /\ worker' \in [Workers -> WorkerStates]
      /\ \A w \in Workers :
           \/ worker'[w] = worker[w]
           \/ worker[w] = "kept" /\ worker'[w] = "dropped"
  BY DEF Detector!SetCompletionObserver, Detector!ForgetCompletions, Detector!workerVars,
     DetectorInv, DetectorTypes, WorkerStates
<1>3. kept' \in [DetectorChannels -> Nat]
  BY DEF Detector!SetCompletionObserver, Detector!ForgetCompletions, DetectorInv, DetectorTypes
<1>4. FlightInv' /\ CopyInv'
  BY <1>1, <1>2, IdleMove
<1>5. DetectorTypes'
  BY <1>1, <1>2, <1>3 DEF DetectorInv, DetectorTypes
<1>6. RestartInv'
  BY <1>1, <1>2 DEF DetectorInv, RestartInv
<1> QED
  BY <1>4, <1>5, <1>6 DEF DetectorInv

LEMMA DetectorStep == DetectorInv /\ [Detector!Next]_(Detector!vars) => DetectorInv'
<1> SUFFICES ASSUME DetectorInv, [Detector!Next]_(Detector!vars) PROVE DetectorInv'
  OBVIOUS
<1>1. CASE UNCHANGED Detector!vars
  BY <1>1 DEF DetectorInv, DetectorTypes, FlightInv, CopyInv, RestartInv, Busy, Copies,
     Detector!vars, Detector!dispatcherVars, Detector!storeVars, Detector!workerVars,
     Detector!putVars, Detector!testVars
<1> QED
  BY <1>1, PutInv, FrameReadyInv, ScanInv, ScanChannelInv, RoundInv, CompleteInv, ManagerInv,
     ObserverInv
  DEF Detector!Next, Detector!WorkerStep, Detector!PutStep

\* Of a channel at most one buffer waits, and as many as there are workers are
\* in their hands, beside those a test has kept.
LEMMA BuffersInUse ==
  ASSUME DetectorInv, NEW p \in Putters, putter[p] = "choosing"
  PROVE  Detector!InUse(put_channel[p]) - kept[put_channel[p]] < PoolSize
<1> DEFINE c == put_channel[p]
           held == {w \in Workers : worker[w] \in Detector!Finished /\ channel[w] = c}
           copied == {q \in Putters : putter[q] = "copying" /\ put_channel[q] = c}
           a == IF pending[c] THEN 1 ELSE 0
           b == IF in_flight[c] THEN 1 ELSE 0
<1>1. c \in DetectorChannels /\ Copies(p, c)
  BY DEF DetectorInv, DetectorTypes, Copies
<1>2. copied = {}
  BY <1>1 DEF DetectorInv, CopyInv, Copies
<1>3. Cardinality(copied) = 0
  BY <1>2, FS_EmptySet
<1>4. /\ IsFiniteSet(Workers) /\ Cardinality(Workers) \in Nat
      /\ PoolSize \in Nat /\ Cardinality(Workers) + 1 < PoolSize
  BY DetectorConstants, FS_CardinalityType
<1>5. a \in 0 .. 1 /\ b \in 0 .. 1
  OBVIOUS
<1>6. Cardinality(held) \in Nat /\ Cardinality(held) + b <= Cardinality(Workers)
  <2>1. CASE in_flight[c]
    <3>1. PICK w \in Workers : Busy(w, c)
      BY <1>1, <2>1 DEF DetectorInv, FlightInv
    <3>2. held \subseteq Workers \ {w}
      BY <3>1 DEF Busy, Detector!Finished
    <3>3. IsFiniteSet(Workers \ {w}) /\ Cardinality(Workers \ {w}) = Cardinality(Workers) - 1
      BY <1>4, FS_RemoveElement
    <3>4. Cardinality(held) \in Nat /\ Cardinality(held) <= Cardinality(Workers) - 1
      <4>1. IsFiniteSet(held) /\ Cardinality(held) <= Cardinality(Workers \ {w})
        BY <3>2, <3>3, FS_Subset
      <4> HIDE DEF held
      <4> QED
        BY <3>3, <4>1, FS_CardinalityType
    <3> HIDE DEF held
    <3> QED
      BY <1>4, <2>1, <3>4
  <2>2. CASE ~in_flight[c]
    <3>1. held \subseteq Workers
      OBVIOUS
    <3>2. IsFiniteSet(held) /\ Cardinality(held) <= Cardinality(Workers)
      BY <1>4, <3>1, FS_Subset
    <3> HIDE DEF held
    <3>3. Cardinality(held) \in Nat
      BY <3>2, FS_CardinalityType
    <3> QED
      BY <1>4, <2>2, <3>2, <3>3
  <2> QED
    BY <2>1, <2>2
<1>7. Detector!InUse(c) = a + b + Cardinality(held) + Cardinality(copied) + kept[c]
  BY DetectorConstants DEF Detector!InUse
<1>8. kept[c] \in Nat
  BY <1>1 DEF DetectorInv, DetectorTypes
<1> HIDE DEF a, b, held, copied, c
<1>9. Detector!InUse(c) - kept[c] < PoolSize
  BY <1>3, <1>4, <1>5, <1>6, <1>7, <1>8
<1> QED
  BY <1>9 DEF c

LEMMA DetectorIsSafe == DetectorInv => Detector!Safety
<1> SUFFICES ASSUME DetectorInv PROVE Detector!Safety
  OBVIOUS
<1>1. Detector!TypeOK
  BY DEF DetectorInv, DetectorTypes, Detector!TypeOK
<1>2. Detector!OneWorkerPerChannel
  BY DEF DetectorInv, DetectorTypes, FlightInv, Busy, Detector!OneWorkerPerChannel
<1>3. Detector!PoolSuffices
  BY BuffersInUse DEF Detector!PoolSuffices
<1>4. Detector!RestartIsClean
  BY DEF DetectorInv, FlightInv, RestartInv, Busy, Detector!RestartIsClean
<1> QED
  BY <1>1, <1>2, <1>3, <1>4 DEF Detector!Safety

-----------------------------------------------------------------------------
(* The performance test                                                    *)

RunStages == {"variant", "cycle", "request", "wait", "nextVariant", "restore", "finish"}
VariantStages == {"cycle", "request", "wait", "nextVariant"}
Statuses == {"idle", "running", "error", "cancelled", "completed"}

\* Samples of all channels in the first variants of a run and n cycles of the next.
Samples(v, n) == ((v - 1) * Cycles + n) * Cardinality(TestChannels)

CountInv ==
  /\ variant \in 1 .. Len(Trials) /\ cycle \in 0 .. Cycles
  /\ completed_samples \in 0 .. Test!Total /\ executed \in 0 .. completed_samples
  /\ thread = "variant" => completed_samples = Samples(variant, 0)
  /\ thread \in VariantStages => completed_samples = Samples(variant, cycle)
  /\ thread \in {"cycle", "request", "wait"} => cycle < Cycles
  /\ thread = "nextVariant" => cycle = Cycles
  /\ thread \in {"restore", "finish"} /\ ~run_error /\ ~cancelled =>
       completed_samples = Test!Total

\* Who runs, and what a run gives back.  Requests that change the settings and
\* runs exclude each other.
RestoreInv ==
  /\ status \in Statuses /\ thread \in RunStages \cup {Test!None}
  /\ thread # Test!None <=> status = "running"
  /\ event \in {"idle", "written", "saved"}
  /\ file \in Settings \cup {Test!None} /\ (event = "written" => temporary \in Settings)
  /\ status = "running" =>
       event = "idle" /\ previous_settings = Test!Stored /\ previous_mode = "camera"
  /\ status # "running" => mode = "camera" /\ observed = FALSE
  /\ (status # "running" /\ event # "saved") \/ thread = "finish" =>
       /\ tested_running = Test!Detects(settings) /\ settings = Test!Stored
       /\ mode = "camera" /\ observed = FALSE

Frames == [generation : Nat, mode : Modes \cup {Test!None}]
FrameInv ==
  /\ generation \in [TestChannels -> Nat] /\ generation_before \in [TestChannels -> Nat]
  /\ DOMAIN tested_pending = TestChannels
  /\ \A c \in TestChannels :
       tested_pending[c].generation \in Nat /\ tested_pending[c].generation <= generation[c]
  /\ waiting_for \subseteq TestChannels
  /\ thread \in RunStages \ {"finish"} => mode = run_mode

\* What may be counted was made in the mode of the run.
FreshInv ==
  thread \in {"request", "wait"} =>
    /\ \A c \in TestChannels :
         tested_pending[c].generation > generation_before[c] => tested_pending[c].mode = run_mode
    /\ \A x \in completions : Test!IsFresh(x) => x.frame.mode = run_mode

CompletedInv ==
  status = "completed" =>
    completed_samples = Test!Total /\ executed > 0 /\ cancel_requested = FALSE

TestInv == CountInv /\ RestoreInv /\ FrameInv /\ FreshInv /\ CompletedInv

LEMMA TestConstants ==
  /\ IsFiniteSet(TestChannels) /\ Cardinality(TestChannels) \in Nat
  /\ Test!Default \in Settings
  /\ Cycles \in Nat /\ Cycles > 0 /\ Len(Trials) \in Nat /\ Len(Trials) > 0
  /\ \A S : Test!Cardinality(S) = Cardinality(S)
<1>1. \A S : Test!Cardinality(S) = Cardinality(S)
  BY Zenon DEF Test!Cardinality, Cardinality
<1>2. Test!IsFiniteSet(TestChannels)
  BY TestAssumption, Zenon DEF Test!ConstantAssumption
<1>3. IsFiniteSet(TestChannels)
  BY <1>2, Zenon DEF Test!IsFiniteSet, IsFiniteSet
<1>4. Cardinality(TestChannels) \in Nat
  BY <1>3, FS_CardinalityType
<1>5. Cycles \in Nat \ {0} /\ Len(Trials) \in Nat \ {0}
  BY TestAssumption DEF Test!ConstantAssumption
<1>6. \E s \in Settings : s \notin Disabled
  BY TestAssumption DEF Test!ConstantAssumption
<1>7. Test!Default \in Settings
  BY <1>6, Zenon DEF Test!Default
<1> QED
  BY <1>1, <1>3, <1>4, <1>5, <1>7

LEMMA Products ==
  ASSUME NEW a \in Nat, NEW b \in Nat, NEW c \in Nat, a <= b
  PROVE  a * c \in Nat /\ a * c <= b * c /\ (a + 1) * c = a * c + c
  OBVIOUS

\* A cycle adds a sample of each channel, and the cycles of all variants are all.
LEMMA SampleCounts ==
  ASSUME NEW v \in 1 .. Len(Trials), NEW n \in 0 .. Cycles
  PROVE  /\ Samples(v, n) \in 0 .. Test!Total
         /\ n < Cycles => Samples(v, n + 1) = Samples(v, n) + Cardinality(TestChannels)
                          /\ Samples(v, n + 1) \in 0 .. Test!Total
         /\ Samples(v, Cycles) = Samples(v + 1, 0)
         /\ Samples(Len(Trials), Cycles) = Test!Total
         /\ Samples(1, 0) = 0
<1> DEFINE k == Cardinality(TestChannels)
           l == Len(Trials)
           all == l * Cycles
           before == (v - 1) * Cycles
<1>1. k \in Nat /\ l \in Nat /\ Cycles \in Nat /\ v - 1 \in Nat /\ v \in Nat /\ n \in Nat
  BY TestConstants
<1>2. Test!Total = all * k
  BY TestConstants DEF Test!Total
<1>3. Samples(v, n) = (before + n) * k /\ Samples(v, n + 1) = (before + (n + 1)) * k
  BY DEF Samples
<1>4. before \in Nat /\ before + Cycles = v * Cycles /\ v * Cycles <= all /\ all \in Nat
  <2>1. l \in Nat /\ v <= l
    BY <1>1
  <2> HIDE DEF l
  <2>2. before \in Nat /\ ((v - 1) + 1) * Cycles = before + Cycles
    BY <1>1, Products
  <2>3. v * Cycles <= all
    BY <1>1, <2>1, Products
  <2>4. all \in Nat
    BY <1>1, <2>1, Products
  <2>5. (v - 1) + 1 = v
    BY <1>1
  <2> QED
    BY <2>2, <2>3, <2>4, <2>5
<1>5. Samples(v, Cycles) = (v * Cycles) * k /\ Samples(v + 1, 0) = (((v + 1) - 1) * Cycles + 0) * k
  BY <1>4 DEF Samples
<1>6. (v + 1) - 1 = v
  BY <1>1
<1>7. v * Cycles \in Nat
  BY <1>1, Products
<1>8. Samples(v, Cycles) = Samples(v + 1, 0)
  <2> DEFINE y == v * Cycles
  <2>1. Samples(v + 1, 0) = (y + 0) * k
    BY <1>5, <1>6
  <2>2. y + 0 = y
    BY <1>7
  <2> QED
    BY <1>5, <2>1, <2>2
<1>9. Samples(Len(Trials), Cycles) = all * k
  <2> DEFINE b == (l - 1) * Cycles
  <2>1. l - 1 \in Nat /\ (l - 1) + 1 = l
    BY TestConstants
  <2>2. ((l - 1) + 1) * Cycles = b + Cycles
    BY <1>1, <2>1, Products
  <2>3. b + Cycles = all
    BY <2>1, <2>2
  <2>4. Samples(l, Cycles) = (b + Cycles) * k
    BY DEF Samples
  <2> HIDE DEF b, all
  <2> QED
    BY <2>3, <2>4
<1>10. Samples(1, 0) = 0
  <2>1. 1 - 1 = 0 /\ 0 * Cycles = 0 /\ 0 + 0 = 0 /\ 0 * k = 0
    BY <1>1
  <2> QED
    BY <2>1 DEF Samples
<1> DEFINE x == before + n
<1>11. x \in Nat /\ x <= all /\ (n < Cycles => x + 1 <= all /\ before + (n + 1) = x + 1)
  <2> HIDE DEF before, all
  <2> QED
    BY <1>1, <1>4, <1>7
<1> HIDE DEF x, before, all, k, l
<1>12. x * k \in Nat /\ x * k <= all * k /\ (x + 1) * k = x * k + k
  BY <1>1, <1>4, <1>11, Products
<1>13. all * k \in Nat
  BY <1>1, <1>4, Products
<1>14. n < Cycles => (x + 1) * k \in Nat /\ (x + 1) * k <= all * k
  BY <1>1, <1>4, <1>11, Products
<1>15. Samples(v, n) = x * k /\ (n < Cycles => Samples(v, n + 1) = (x + 1) * k)
  BY <1>3, <1>11 DEF x
<1>16. Samples(v, n) \in 0 .. Test!Total
  BY <1>2, <1>12, <1>13, <1>15
<1>17. n < Cycles => Samples(v, n + 1) = Samples(v, n) + k /\ Samples(v, n + 1) \in 0 .. Test!Total
  BY <1>2, <1>12, <1>13, <1>14, <1>15
<1> QED
  BY <1>2, <1>8, <1>9, <1>10, <1>16, <1>17 DEF k

LEMMA StoredIsValid == RestoreInv => Test!Stored \in Settings
  BY TestConstants DEF RestoreInv, Test!Stored

LEMMA ZeroCounts ==
  0 \in 0 .. Test!Total /\ 0 \in 0 .. 0 /\ 1 \in 1 .. Len(Trials) /\ 0 \in 0 .. Cycles
<1>1. 1 \in 1 .. Len(Trials) /\ 0 \in 0 .. Cycles
  BY TestConstants
<1>2. Samples(1, 0) \in 0 .. Test!Total /\ Samples(1, 0) = 0
  BY <1>1, SampleCounts
<1> QED
  BY <1>1, <1>2

LEMMA TestInit == Test!Init => TestInv
<1> SUFFICES ASSUME Test!Init PROVE TestInv
  OBVIOUS
<1>1. CountInv
  BY TestConstants, SampleCounts DEF Test!Init, CountInv, VariantStages, Test!None, Test!Total
<1>2. RestoreInv
  BY DEF Test!Init, RestoreInv, Statuses, RunStages, Test!None
<1>3. FrameInv
  BY DEF Test!Init, FrameInv, RunStages, Test!None, Test!NoFrame
<1>4. FreshInv /\ CompletedInv
  BY DEF Test!Init, FreshInv, CompletedInv, Test!None
<1> QED
  BY <1>1, <1>2, <1>3, <1>4 DEF TestInv

LEMMA CrashInv == TestInv /\ Test!Crash => TestInv'
<1> SUFFICES ASSUME TestInv, Test!Crash PROVE TestInv'
  OBVIOUS
<1>1. CountInv'
  <2> QED
    BY ZeroCounts DEF Test!Crash, CountInv, VariantStages, Test!None
<1>2. RestoreInv'
  BY DEF TestInv, Test!Crash, RestoreInv, Statuses, RunStages, Test!None, Test!fileVars
<1>3. FrameInv'
  BY DEF Test!Crash, FrameInv, RunStages, Test!None, Test!NoFrame
<1>4. FreshInv' /\ CompletedInv'
  BY DEF Test!Crash, FreshInv, CompletedInv, Test!None
<1> QED
  BY <1>1, <1>2, <1>3, <1>4 DEF TestInv

\* A frame is stored: newer than all before, and in the mode of now.
LEMMA PutFresh ==
  ASSUME FrameInv, FreshInv, NEW c, Test!Put(c),
         UNCHANGED <<generation_before, completions, run_mode, thread>>
  PROVE  /\ mode' = mode
         /\ generation' \in [TestChannels -> Nat] /\ DOMAIN tested_pending' = TestChannels
         /\ \A d \in TestChannels :
              tested_pending'[d].generation \in Nat /\ tested_pending'[d].generation <= generation'[d]
         /\ FreshInv'
<1>1. /\ generation' = [generation EXCEPT ![c] = @ + 1] /\ mode' = mode
      /\ tested_pending' = [tested_pending EXCEPT ![c] =
                              [generation |-> generation[c] + 1, mode |-> mode]]
  BY DEF Test!Put
<1>2. /\ generation' \in [TestChannels -> Nat] /\ DOMAIN tested_pending' = TestChannels
      /\ \A d \in TestChannels :
           \/ /\ d = c /\ generation'[d] = generation[d] + 1
              /\ tested_pending'[d] = [generation |-> generation[d] + 1, mode |-> mode]
           \/ d # c /\ generation'[d] = generation[d] /\ tested_pending'[d] = tested_pending[d]
  <2>1. generation \in [TestChannels -> Nat] /\ DOMAIN tested_pending = TestChannels
    BY DEF FrameInv
  <2> DEFINE g == generation[c] + 1
             r == [generation |-> g, mode |-> mode]
  <2>2. c \in TestChannels => g \in Nat
    BY <2>1
  <2>3. generation' = [generation EXCEPT ![c] = g] /\ tested_pending' = [tested_pending EXCEPT ![c] = r]
    BY <1>1
  <2>4. \A d \in TestChannels : d = c => g = generation[d] + 1
    OBVIOUS
  <2> HIDE DEF g
  <2>5. generation' \in [TestChannels -> Nat]
    BY <2>1, <2>2, <2>3
  <2>6. DOMAIN tested_pending' = TestChannels
    BY <2>1, <2>3
  <2>7. \A d \in TestChannels :
          /\ generation'[d] = IF d = c THEN g ELSE generation[d]
          /\ tested_pending'[d] = IF d = c THEN r ELSE tested_pending[d]
    BY <2>1, <2>3
  <2> QED
    BY <2>4, <2>5, <2>6, <2>7
<1>4. \A d \in TestChannels :
        tested_pending'[d].generation \in Nat /\ tested_pending'[d].generation <= generation'[d]
  <2> TAKE d \in TestChannels
  <2>1. generation[d] \in Nat
    BY DEF FrameInv
  <2>2. CASE d = c
    <3>1. tested_pending'[d].generation = generation[d] + 1 /\ generation'[d] = generation[d] + 1
      BY <1>2, <2>2
    <3> QED
      BY <2>1, <3>1
  <2>3. CASE d # c
    BY <1>2, <2>3 DEF FrameInv
  <2> QED
    BY <2>2, <2>3
<1>5. FreshInv'
  <2>1. thread \in {"request", "wait"} => mode = run_mode
    BY DEF FrameInv, RunStages
  <2>2. ASSUME thread \in {"request", "wait"}, NEW d \in TestChannels,
               tested_pending'[d].generation > generation_before[d]
        PROVE  tested_pending'[d].mode = run_mode
    <3>1. CASE d = c
      BY <1>2, <2>1, <2>2, <3>1
    <3>2. CASE d # c
      BY <1>2, <2>2, <3>2 DEF FreshInv
    <3> QED
      BY <3>1, <3>2
  <2> QED
    BY <2>2 DEF FreshInv, Test!IsFresh
<1> QED
  BY <1>1, <1>2, <1>4, <1>5

LEMMA CameraFrameInv ==
  ASSUME TestInv, NEW c \in TestChannels, Test!ProcessRawVideo(c)
  PROVE  TestInv'
<1>1. /\ Test!Put(c)
      /\ UNCHANGED <<file, temporary, settings, tested_running, event, posted, status,
                     cancel_requested, run_mode, previous_settings, previous_mode, observed,
                     completed_samples, executed, thread, variant, cycle, generation_before,
                     completions, run_error, cancelled, waiting_for, runs>>
  BY DEF Test!ProcessRawVideo, Test!NoTestChange, Test!fileVars, Test!dispatcherVars,
     Test!eventVars, Test!stateVars, Test!configVars, Test!threadVars
<1>2. /\ mode' = mode
      /\ generation' \in [TestChannels -> Nat] /\ DOMAIN tested_pending' = TestChannels
      /\ \A d \in TestChannels :
           tested_pending'[d].generation \in Nat /\ tested_pending'[d].generation <= generation'[d]
      /\ FreshInv'
  BY <1>1, PutFresh DEF TestInv
<1> QED
  BY <1>1, <1>2 DEF TestInv, CountInv, RestoreInv, FrameInv, CompletedInv, Test!Stored

LEMMA CompletionInv ==
  ASSUME TestInv, NEW c \in TestChannels, Test!OnDispatcherCompletion(c)
  PROVE  TestInv'
<1>1. UNCHANGED <<file, temporary, settings, tested_running, event, posted, status,
                  cancel_requested, run_mode, previous_settings, previous_mode, observed,
                  completed_samples, executed, thread, variant, cycle, generation_before,
                  run_error, cancelled, waiting_for, runs, mode, generation>>
  BY DEF Test!OnDispatcherCompletion, Test!fileVars, Test!dispatcherVars,
     Test!eventVars, Test!stateVars, Test!configVars
<1>2. /\ tested_pending' = [tested_pending EXCEPT ![c] = Test!NoFrame]
      /\ completions' \subseteq completions \cup {[channel |-> c, frame |-> tested_pending[c]]}
  BY DEF Test!OnDispatcherCompletion
<1>3. /\ DOMAIN tested_pending' = TestChannels
      /\ \A d \in TestChannels : tested_pending'[d] = tested_pending[d]
                                   \/ tested_pending'[d] = Test!NoFrame
  BY <1>2 DEF TestInv, FrameInv
<1>4. Test!NoFrame.generation = 0
  BY DEF Test!NoFrame
<1>5. FrameInv'
  BY <1>1, <1>3, <1>4 DEF TestInv, FrameInv
<1>6. FreshInv'
  <2> SUFFICES ASSUME thread \in {"request", "wait"} PROVE FreshInv'
    BY <1>1 DEF FreshInv
  <2>1. \A d \in TestChannels :
          tested_pending'[d].generation > generation_before[d] => tested_pending'[d].mode = run_mode
    BY <1>3, <1>4 DEF TestInv, FrameInv, FreshInv
  <2>2. \A x \in completions' : x.frame.generation > generation_before[x.channel] =>
          x.frame.mode = run_mode
    BY <1>2 DEF TestInv, FreshInv, Test!IsFresh
  <2> QED
    BY <1>1, <2>1, <2>2 DEF FreshInv, Test!IsFresh
<1> QED
  BY <1>1, <1>5, <1>6 DEF TestInv, CountInv, RestoreInv, CompletedInv, Test!Stored

\* Settings arrive, are saved and read back.
LEMMA SettingsInv ==
  ASSUME TestInv, Test!PostSettings \/ Test!RenameSettings \/ Test!RestartWorkers
  PROVE  TestInv'
<1>1. UNCHANGED <<mode, generation, tested_pending, status,
                  cancel_requested, run_mode, previous_settings, previous_mode, observed,
                  completed_samples, executed, thread, variant, cycle, generation_before,
                  completions, run_error, cancelled, waiting_for, runs>>
  BY DEF Test!PostSettings, Test!RenameSettings, Test!RestartWorkers, Test!NoTestChange,
     Test!storeVars, Test!stateVars, Test!configVars, Test!threadVars
<1>2. status # "running" /\ thread = Test!None
  BY DEF TestInv, RestoreInv, Test!PostSettings, Test!RenameSettings, Test!RestartWorkers
<1>3. CountInv' /\ FrameInv' /\ FreshInv' /\ CompletedInv'
  BY <1>1 DEF TestInv, CountInv, FrameInv, FreshInv, CompletedInv, Test!IsFresh
<1>4. CASE Test!PostSettings
  <2>1. RestoreInv'
    BY <1>1, <1>2, <1>4 DEF TestInv, RestoreInv, Test!PostSettings, Test!dispatcherVars,
       Test!Stored, RunStages, Test!None
  <2> QED
    BY <1>3, <2>1 DEF TestInv
<1>5. CASE Test!RenameSettings
  <2>1. RestoreInv'
    BY <1>1, <1>2, <1>5 DEF TestInv, RestoreInv, Test!RenameSettings, Test!dispatcherVars,
       Test!Stored, RunStages, Test!None
  <2> QED
    BY <1>3, <2>1 DEF TestInv
<1>6. CASE Test!RestartWorkers
  <2>1. Test!Stored \in Settings
    BY StoredIsValid DEF TestInv
  <2>2. /\ file' \in {file, Test!Stored} /\ settings' = Test!Stored /\ event' = "idle"
        /\ tested_running' = Test!Detects(Test!Stored)
    BY <1>6 DEF Test!RestartWorkers
  <2>3. Test!Stored' = Test!Stored /\ file' \in Settings \cup {Test!None}
    BY <2>1, <2>2 DEF TestInv, RestoreInv, Test!Stored
  <2>4. RestoreInv'
    BY <1>1, <1>2, <2>2, <2>3 DEF TestInv, RestoreInv, RunStages, Test!None, Test!Detects
  <2> QED
    BY <1>3, <2>4 DEF TestInv
<1> QED
  BY <1>4, <1>5, <1>6

\* A run is begun, cannot be begun, or is to be cancelled.
LEMMA StartRunInv == TestInv /\ Test!StartRun => TestInv'
<1> SUFFICES ASSUME TestInv, Test!StartRun PROVE TestInv'
  OBVIOUS
<1>1. /\ UNCHANGED <<file, temporary, settings, generation, tested_pending, event, posted,
                     generation_before, completions, waiting_for>>
      /\ event = "idle" /\ status # "running"
      /\ previous_settings' = settings /\ previous_mode' = mode
      /\ status' = "running" /\ completed_samples' = 0 /\ executed' = 0
      /\ mode' = run_mode' /\ thread' = "variant" /\ variant' = 1 /\ cycle' = 0
  BY DEF Test!StartRun, Test!fileVars, Test!eventVars
<1>2. CountInv'
  <2>1. Samples(1, 0) = 0 /\ 1 \in 1 .. Len(Trials) /\ 0 \in 0 .. Cycles
    BY TestConstants, SampleCounts
  <2>2. 0 \in 0 .. Test!Total /\ 0 \in 0 .. 0
    BY ZeroCounts
  <2> QED
    BY <1>1, <2>1, <2>2 DEF CountInv, VariantStages
<1>3. RestoreInv'
  BY <1>1 DEF TestInv, RestoreInv, Test!Stored, RunStages, Statuses, Test!None
<1>4. FrameInv' /\ FreshInv' /\ CompletedInv'
  BY <1>1 DEF TestInv, FrameInv, FreshInv, CompletedInv
<1> QED
  BY <1>2, <1>3, <1>4 DEF TestInv

LEMMA RequestInv == TestInv /\ (Test!StartFails \/ Test!Cancel) => TestInv'
<1> SUFFICES ASSUME TestInv, Test!StartFails \/ Test!Cancel PROVE TestInv'
  OBVIOUS
<1>1. /\ UNCHANGED <<file, temporary, settings, tested_running, mode, generation, tested_pending,
                     event, posted, run_mode, previous_settings, previous_mode, observed, thread,
                     variant, cycle, generation_before, completions, run_error, cancelled,
                     waiting_for>>
      /\ \/ /\ status # "running" /\ thread = Test!None /\ status' = "error"
            /\ completed_samples' = 0 /\ executed' = 0
         \/ status = "running" /\ UNCHANGED <<status, completed_samples, executed>>
  BY DEF Test!StartFails, Test!Cancel, Test!fileVars, Test!dispatcherVars, Test!storeVars,
     Test!eventVars, Test!configVars, Test!threadVars
<1>2. CountInv'
  <2>1. 0 \in 0 .. Test!Total /\ 0 \in 0 .. 0
    BY ZeroCounts
  <2> QED
    BY <1>1, <2>1 DEF TestInv, CountInv, VariantStages, Test!None
<1>3. RestoreInv'
  BY <1>1 DEF TestInv, RestoreInv, Test!Stored, RunStages, Statuses, Test!None
<1>4. FrameInv' /\ FreshInv' /\ CompletedInv'
  BY <1>1 DEF TestInv, FrameInv, FreshInv, CompletedInv, Test!IsFresh
<1> QED
  BY <1>2, <1>3, <1>4 DEF TestInv

\* A variant begins, or the run goes back.
LEMMA StartVariantInv == TestInv /\ Test!StartVariant => TestInv'
<1> SUFFICES ASSUME TestInv, Test!StartVariant PROVE TestInv'
  OBVIOUS
<1>1. /\ UNCHANGED <<file, temporary, event, posted, run_mode, previous_settings, previous_mode,
                     runs, mode, generation, tested_pending, status, cancel_requested,
                     completed_samples, executed, observed, variant, generation_before,
                     completions, waiting_for>>
      /\ thread = "variant" /\ cycle' = 0
      /\ \/ thread' = "restore" /\ (cancelled' = TRUE \/ run_error' = TRUE)
         \/ thread' = "cycle" /\ UNCHANGED <<cancelled, run_error>>
  BY DEF Test!StartVariant, Test!ThreadLeaves, Test!fileVars, Test!eventVars, Test!configVars,
     Test!storeVars, Test!stateVars
<1>2. CountInv'
  <2>1. 0 \in 0 .. Cycles /\ 0 < Cycles
    BY TestConstants
  <2> QED
    BY <1>1, <2>1 DEF TestInv, CountInv, VariantStages
<1>3. RestoreInv'
  BY <1>1 DEF TestInv, RestoreInv, Test!Stored, RunStages, Test!None
<1>4. FrameInv' /\ FreshInv' /\ CompletedInv'
  BY <1>1 DEF TestInv, FrameInv, FreshInv, CompletedInv, RunStages, RestoreInv, Test!None
<1> QED
  BY <1>2, <1>3, <1>4 DEF TestInv

\* A cycle begins: nothing stored so far is fresh.
LEMMA BeginCycleInv == TestInv /\ Test!BeginCycle => TestInv'
<1> SUFFICES ASSUME TestInv, Test!BeginCycle PROVE TestInv'
  OBVIOUS
<1>1. /\ UNCHANGED <<file, temporary, event, posted, run_mode, previous_settings, previous_mode,
                     runs, settings, tested_running, mode, generation, tested_pending, status,
                     cancel_requested, completed_samples, executed, observed, variant, cycle,
                     run_error>>
      /\ thread = "cycle"
      /\ \/ /\ thread' = "restore" /\ cancelled' = TRUE
            /\ UNCHANGED <<generation_before, completions, waiting_for>>
         \/ /\ thread' = "request" /\ UNCHANGED cancelled /\ generation_before' = generation
            /\ completions' = {} /\ waiting_for' \in {{}, TestChannels}
  BY DEF Test!BeginCycle, Test!ThreadLeaves, Test!fileVars, Test!eventVars, Test!configVars,
     Test!dispatcherVars, Test!storeVars, Test!stateVars
<1>2. CountInv'
  BY <1>1 DEF TestInv, CountInv, VariantStages
<1>3. RestoreInv'
  BY <1>1 DEF TestInv, RestoreInv, Test!Stored, RunStages, Test!None
<1>4. FrameInv' /\ CompletedInv'
  BY <1>1 DEF TestInv, FrameInv, CompletedInv, RunStages, RestoreInv, Test!None
<1>5. FreshInv'
  <2>1. CASE thread' = "restore"
    BY <2>1 DEF FreshInv
  <2>2. CASE thread' = "request"
    <3>1. generation_before' = generation /\ completions' = {} /\ tested_pending' = tested_pending
      BY <1>1, <2>2
    <3>2. \A c \in TestChannels : ~(tested_pending[c].generation > generation[c])
      BY DEF TestInv, FrameInv
    <3> QED
      BY <3>1, <3>2 DEF FreshInv
  <2> QED
    BY <1>1, <2>1, <2>2
<1> QED
  BY <1>2, <1>3, <1>4, <1>5 DEF TestInv

\* A synthetic frame is put, or refused.
LEMMA PutSyntheticInv == TestInv /\ Test!PutSynthetic => TestInv'
<1> SUFFICES ASSUME TestInv, Test!PutSynthetic PROVE TestInv'
  OBVIOUS
<1>1. /\ UNCHANGED <<file, temporary, event, posted, run_mode, previous_settings, previous_mode,
                     runs, settings, tested_running, status, cancel_requested,
                     completed_samples, executed, observed, variant, cycle, generation_before,
                     completions, cancelled>>
      /\ thread = "request"
      /\ \/ waiting_for # {} /\ UNCHANGED <<thread, run_error>>
         \/ thread' = "restore" /\ run_error' = TRUE
         \/ thread' = "wait" /\ UNCHANGED run_error
  BY DEF Test!PutSynthetic, Test!ThreadLeaves, Test!fileVars, Test!eventVars, Test!configVars,
     Test!dispatcherVars, Test!stateVars
<1>2. /\ waiting_for' \subseteq TestChannels
      /\ \/ \E c : Test!Put(c) /\ UNCHANGED thread
         \/ UNCHANGED <<mode, generation, tested_pending>>
  BY DEF TestInv, FrameInv, Test!PutSynthetic, Test!storeVars
<1>3. CountInv'
  BY <1>1 DEF TestInv, CountInv, VariantStages
<1>4. /\ mode' = mode
      /\ generation' \in [TestChannels -> Nat] /\ DOMAIN tested_pending' = TestChannels
      /\ \A d \in TestChannels :
           tested_pending'[d].generation \in Nat /\ tested_pending'[d].generation <= generation'[d]
      /\ FreshInv'
  <2>1. CASE \E c : Test!Put(c) /\ UNCHANGED thread
    BY <1>1, <2>1, PutFresh DEF TestInv
  <2>2. CASE UNCHANGED <<mode, generation, tested_pending>>
    BY <1>1, <2>2 DEF TestInv, FrameInv, FreshInv, Test!IsFresh
  <2> QED
    BY <1>2, <2>1, <2>2
<1>5. RestoreInv'
  BY <1>1, <1>4 DEF TestInv, RestoreInv, Test!Stored, RunStages, Test!None
<1>6. FrameInv' /\ CompletedInv'
  BY <1>1, <1>2, <1>4 DEF TestInv, FrameInv, CompletedInv, RunStages, RestoreInv, Test!None
<1> QED
  BY <1>3, <1>4, <1>5, <1>6 DEF TestInv

\* A sample of every channel is counted, answered or not.
LEMMA RecordInv == TestInv /\ Test!RecordSamples => TestInv'
<1> SUFFICES ASSUME TestInv, Test!RecordSamples PROVE TestInv'
  OBVIOUS
<1> DEFINE k == Cardinality(TestChannels)
<1>1. /\ UNCHANGED <<file, temporary, event, posted, run_mode, previous_settings, previous_mode,
                     runs, settings, tested_running, mode, generation, tested_pending, status,
                     cancel_requested, observed, variant, generation_before, completions,
                     run_error, cancelled, waiting_for>>
      /\ thread = "wait" /\ cycle' = cycle + 1
      /\ thread' = IF cycle + 1 = Cycles THEN "nextVariant" ELSE "cycle"
      /\ completed_samples' = completed_samples + k
  BY TestConstants DEF Test!RecordSamples, Test!IsLastCycle, Test!ThreadLeaves, Test!fileVars,
     Test!eventVars, Test!configVars, Test!dispatcherVars, Test!storeVars
<1>2. \E e \in 0 .. k : executed' = executed + e
  <2>1. PICK detected \in SUBSET Test!Answered :
          executed' = executed + (IF cycle < Warmup THEN 0 ELSE Test!Cardinality(detected))
    BY DEF Test!RecordSamples
  <2>2. detected \subseteq TestChannels
    BY DEF Test!Answered
  <2>3. IsFiniteSet(detected) /\ Cardinality(detected) <= k
    BY <2>2, TestConstants, FS_Subset
  <2>4. Cardinality(detected) \in 0 .. k /\ 0 \in 0 .. k
    BY <2>3, TestConstants, FS_CardinalityType
  <2>5. Test!Cardinality(detected) = Cardinality(detected)
    BY TestConstants
  <2> QED
    BY <2>1, <2>4, <2>5
<1>3. CountInv'
  <2>1. /\ variant \in 1 .. Len(Trials) /\ cycle \in 0 .. Cycles /\ cycle < Cycles /\ k \in Nat
        /\ completed_samples = Samples(variant, cycle) /\ Cycles \in Nat
        /\ completed_samples \in Nat /\ executed \in 0 .. completed_samples
    BY <1>1, TestConstants, SampleCounts DEF TestInv, CountInv, VariantStages
  <2>2. /\ Samples(variant, cycle + 1) = completed_samples + k
        /\ Samples(variant, cycle + 1) \in 0 .. Test!Total
    BY <2>1, SampleCounts
  <2>3. /\ completed_samples' = Samples(variant, cycle + 1)
        /\ completed_samples' \in 0 .. Test!Total
    BY <1>1, <2>2
  <2>4. executed' \in 0 .. completed_samples'
    BY <1>1, <1>2, <2>1
  <2>5. cycle + 1 \in 0 .. Cycles /\ (cycle + 1 # Cycles => cycle + 1 < Cycles)
    BY <2>1
  <2> HIDE DEF k
  <2> QED
    BY <1>1, <2>1, <2>3, <2>4, <2>5 DEF CountInv, VariantStages
<1>4. RestoreInv'
  BY <1>1 DEF TestInv, RestoreInv, Test!Stored, RunStages, Test!None
<1>5. FrameInv' /\ FreshInv' /\ CompletedInv'
  BY <1>1 DEF TestInv, FrameInv, FreshInv, CompletedInv, RunStages, RestoreInv, Test!None
<1> QED
  BY <1>3, <1>4, <1>5 DEF TestInv

\* The next variant, or the end.
LEMMA NextVariantInv == TestInv /\ Test!NextVariant => TestInv'
<1> SUFFICES ASSUME TestInv, Test!NextVariant PROVE TestInv'
  OBVIOUS
<1>1. /\ UNCHANGED <<file, temporary, event, posted, run_mode, previous_settings, previous_mode,
                     runs, settings, mode, generation, tested_pending, status,
                     cancel_requested, completed_samples, executed, observed, cycle,
                     generation_before, completions, run_error, cancelled, waiting_for>>
      /\ thread = "nextVariant"
      /\ \/ variant < Len(Trials) /\ variant' = variant + 1 /\ thread' = "variant"
         \/ ~(variant < Len(Trials)) /\ variant' = variant /\ thread' = "restore"
  BY DEF Test!NextVariant, Test!ThreadLeaves, Test!fileVars, Test!eventVars, Test!configVars,
     Test!storeVars, Test!stateVars
<1>2. CountInv'
  <2>1. /\ variant \in 1 .. Len(Trials) /\ cycle \in 0 .. Cycles /\ cycle = Cycles
        /\ completed_samples = Samples(variant, Cycles) /\ Len(Trials) \in Nat
    BY <1>1, TestConstants DEF TestInv, CountInv, VariantStages
  <2>2. /\ completed_samples = Samples(variant + 1, 0)
        /\ ~(variant < Len(Trials)) => completed_samples = Test!Total
    <3>1. ~(variant < Len(Trials)) => variant = Len(Trials)
      BY <2>1
    <3> QED
      BY <2>1, <3>1, SampleCounts
  <2>3. variant' \in 1 .. Len(Trials)
    BY <1>1, <2>1
  <2> QED
    BY <1>1, <2>2, <2>3 DEF TestInv, CountInv, VariantStages
<1>3. RestoreInv'
  BY <1>1 DEF TestInv, RestoreInv, Test!Stored, RunStages, Test!None
<1>4. FrameInv' /\ FreshInv' /\ CompletedInv'
  BY <1>1 DEF TestInv, FrameInv, FreshInv, CompletedInv, RunStages, RestoreInv, Test!None
<1> QED
  BY <1>2, <1>3, <1>4 DEF TestInv

\* The operation as it was before.
LEMMA GiveBackInv == TestInv /\ (Test!Restore \/ Test!Finish) => TestInv'
<1> SUFFICES ASSUME TestInv, Test!Restore \/ Test!Finish PROVE TestInv'
  OBVIOUS
<1>1. UNCHANGED <<file, temporary, event, posted, run_mode, previous_settings, previous_mode,
                  runs, generation, tested_pending, cancel_requested, completed_samples,
                  executed, variant, cycle, generation_before, completions, cancelled,
                  waiting_for>>
  BY DEF Test!Restore, Test!Finish, Test!ThreadLeaves, Test!fileVars, Test!eventVars,
     Test!configVars, Test!storeVars, Test!stateVars
<1>2. CASE Test!Restore
  <2>1. /\ thread = "restore" /\ thread' = "finish" /\ status' = status
        /\ observed' = FALSE /\ mode' = previous_mode
        /\ settings' = previous_settings /\ tested_running' = Test!Detects(previous_settings)
        /\ run_error' \in {run_error, TRUE}
    BY <1>2 DEF Test!Restore, Test!RestoredSettings, Test!stateVars
  <2>2. CountInv'
    BY <1>1, <2>1 DEF TestInv, CountInv, VariantStages
  <2>3. RestoreInv'
    BY <1>1, <2>1 DEF TestInv, RestoreInv, Test!Stored, RunStages, Test!None, Test!Detects
  <2>4. FrameInv' /\ FreshInv' /\ CompletedInv'
    BY <1>1, <2>1 DEF TestInv, FrameInv, FreshInv, CompletedInv, RunStages, RestoreInv, Test!None
  <2> QED
    BY <2>2, <2>3, <2>4 DEF TestInv
<1>3. CASE Test!Finish
  <2>1. /\ thread = "finish" /\ thread' = Test!None
        /\ UNCHANGED <<settings, tested_running, mode, observed, run_error>>
        /\ status' \in {"error", "cancelled", "completed"}
        /\ status' = "completed" =>
             ~run_error /\ ~cancelled /\ ~cancel_requested /\ executed # 0
    BY <1>3 DEF Test!Finish, Test!IsCancelled, Test!dispatcherVars, Test!storeVars
  <2>2. CountInv'
    BY <1>1, <2>1 DEF TestInv, CountInv, VariantStages, Test!None
  <2>3. RestoreInv'
    BY <1>1, <2>1 DEF TestInv, RestoreInv, Test!Stored, RunStages, Statuses, Test!None
  <2>4. FrameInv' /\ FreshInv'
    BY <1>1, <2>1 DEF TestInv, FrameInv, FreshInv, RunStages, Test!None
  <2>5. CompletedInv'
    BY <1>1, <2>1 DEF TestInv, CountInv, CompletedInv
  <2> QED
    BY <2>2, <2>3, <2>4, <2>5 DEF TestInv
<1> QED
  BY <1>2, <1>3

LEMMA TestStep == TestInv /\ [Test!Next]_(Test!vars) => TestInv'
<1> SUFFICES ASSUME TestInv, [Test!Next]_(Test!vars) PROVE TestInv'
  OBVIOUS
<1>1. CASE UNCHANGED Test!vars
  BY <1>1 DEF TestInv, CountInv, RestoreInv, FrameInv, FreshInv, CompletedInv, Test!IsFresh,
     Test!Stored, Test!vars, Test!fileVars, Test!dispatcherVars, Test!storeVars,
     Test!eventVars, Test!stateVars, Test!configVars, Test!threadVars
<1> QED
  BY <1>1, CameraFrameInv, CompletionInv, SettingsInv, StartRunInv, RequestInv, StartVariantInv,
     BeginCycleInv, PutSyntheticInv, RecordInv, NextVariantInv, GiveBackInv, CrashInv
  DEF Test!Next, Test!EventStep, Test!RunStep

LEMMA TestIsSafe == TestInv => Test!Safety
<1> SUFFICES ASSUME TestInv PROVE Test!Safety
  OBVIOUS
<1>1. Test!TypeOK
  BY DEF TestInv, CountInv, RestoreInv, FrameInv, Test!TypeOK, Statuses, RunStages
<1>2. Test!OperationRestored
  <2>1. CASE event = "idle" /\ status # "running"
    <3>1. /\ tested_running = Test!Detects(settings) /\ settings = Test!Stored
          /\ mode = "camera" /\ observed = FALSE
      BY <2>1 DEF TestInv, RestoreInv
    <3>2. (tested_running <=> Test!Detects(settings)) /\ ~observed
      BY <3>1, Zenon
    <3> QED
      BY <3>1, <3>2, StoredIsValid DEF TestInv, Test!OperationRestored
  <2> QED
    BY <2>1 DEF Test!OperationRestored
<1>3. Test!SamplesAreFresh
  BY DEF TestInv, FreshInv, Test!SamplesAreFresh, Test!Fresh
<1>4. Test!CompletedIsWhole
  BY DEF TestInv, CompletedInv, Test!CompletedIsWhole
<1> QED
  BY <1>1, <1>2, <1>3, <1>4 DEF Test!Safety

-----------------------------------------------------------------------------
(* The parts together                                                      *)

\* A channel has one worker at a time, its pool of snapshots suffices but for
\* those a test keeps, and a restart finds nothing of the run before
\* (detection_dispatcher.cc, raw_frame_store.h), for any
\* channels, storing threads and settings, and workers the pool has room for.
THEOREM DetectorSafetyHolds == MCSpec => []DetectorSafety
<1>1. MCInit => DetectorInv
  BY DetectorInit DEF MCInit
<1>2. [Judges \/ Detects \/ Tests]_allVars => [Detector!Next]_(Detector!vars)
  BY DEF Judges, Detects, Tests, allVars, detectorVars, Detector!vars,
     Detector!dispatcherVars, Detector!storeVars, Detector!workerVars, Detector!putVars,
     Detector!testVars
<1>3. DetectorInv /\ [Detector!Next]_(Detector!vars) => DetectorInv'
  BY DetectorStep
<1>4. DetectorInv => DetectorSafety
  BY DetectorIsSafe DEF DetectorSafety
<1> QED
  BY <1>1, <1>2, <1>3, <1>4, PTL DEF MCSpec

\* After a test the operational settings are back, every sample it counted was
\* of a frame stored after its request, and a completed run is whole
\* (test_run_controller.cc), for any channels, settings, variants and cycles.
THEOREM TestSafetyHolds == MCSpec => []TestSafety
<1>1. MCInit => TestInv
  BY TestInit DEF MCInit
<1>2. [Judges \/ Detects \/ Tests]_allVars => [Test!Next]_(Test!vars)
  BY DEF Judges, Detects, Tests, allVars, testVars, Test!vars, Test!fileVars,
     Test!dispatcherVars, Test!storeVars, Test!eventVars, Test!stateVars,
     Test!configVars, Test!threadVars
<1>3. TestInv /\ [Test!Next]_(Test!vars) => TestInv'
  BY TestStep
<1>4. TestInv => TestSafety
  BY TestIsSafe DEF TestSafety
<1> QED
  BY <1>1, <1>2, <1>3, <1>4, PTL DEF MCSpec
=============================================================================
