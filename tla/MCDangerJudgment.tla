-------------------------- MODULE MCDangerJudgment --------------------------
(***************************************************************************)
(* Instances for TLC.  The camera's detector, its performance test and the *)
(* server's judgment share no state: the first step of a behaviour is taken*)
(* by one of them, and by it are all the others.                           *)
(*                                                                         *)
(* Judgment: distances are in units of 50 mm, with the production          *)
(* thresholds 350 / 550 / 750 mm and margin 100 mm, and a collision radius *)
(* of one unit; they hit every band, both sides of every threshold and of  *)
(* every release distance.  Detector: the two workers of the default       *)
(* settings on two channels.  Test: one channel of two buffers, settings   *)
(* with and without an enabled channel, two variants of a warm-up and a    *)
(* measured cycle, a synthetic mode, two runs.                             *)
(***************************************************************************)
EXTENDS DangerJudgment, TLC

MCDistances == {0, 8, 9, 10, 11, 12, 13, 14, 15, 16, 17, 18, 19}

Sample(imu, tof, mm, g, dr) ==
  [imu_ok |-> imu, tof_ok |-> tof, tof_distance_mm |-> mm, imu_accel_g |-> g,
   is_dead_reckoning |-> dr]

\* A healthy far sample, the two ToF levels, an impact with and without a
\* working IMU, the all-default sample a stale uplink yields, and a sample of
\* a reader that reports dead reckoning itself.
MCSensorInputs ==
  {Sample(TRUE, TRUE, 100, 0, FALSE), Sample(TRUE, TRUE, 15, 0, FALSE),
   Sample(TRUE, TRUE, 11, 0, FALSE), Sample(TRUE, TRUE, 100, 2, FALSE),
   Sample(FALSE, TRUE, 100, 2, FALSE), Sample(FALSE, FALSE, 0, 0, FALSE),
   Sample(TRUE, TRUE, 100, 0, TRUE)}

\* Constants of the detector and of its test, as their modules declare them.
CONSTANTS
  DetectorChannels, Workers, Putters, Configs, PoolSize,
  TestChannels, Settings, Disabled, TestPoolSize, Trials, Modes, Warmup, Cycles, MaxGeneration, MaxRuns

MCConfigs == {<<>>, <<1>>, <<1, 2>>}
\* The detector's workers are alike, and so are the threads that store frames.
MCSymmetry == Permutations(Workers) \cup Permutations(Putters)
MCTrials == <<"one", "two">>

VARIABLES
  running, active_channels, cursor, in_flight_channels,
  pending, in_flight, requested, copying,
  worker, channel, offset, putter, put_channel, manager, mutex,
  test_observes, kept

detectorVars ==
  <<running, active_channels, cursor, in_flight_channels,
    pending, in_flight, requested, copying,
    worker, channel, offset, putter, put_channel, manager, mutex,
    test_observes, kept>>

Detector == INSTANCE DetectionDispatcher WITH
  Channels <- DetectorChannels, observed <- test_observes

ASSUME DetectorAssumption == Detector!ConstantAssumption

VARIABLES
  file, temporary, settings, tested_running, mode, generation, tested_pending,
  event, posted, status, cancel_requested, run_mode, previous_settings,
  previous_mode, observed, completed_samples, executed, thread, variant, cycle,
  generation_before, completions, run_error, cancelled, waiting_for, runs

testVars ==
  <<file, temporary, settings, tested_running, mode, generation, tested_pending,
    event, posted, status, cancel_requested, run_mode, previous_settings,
    previous_mode, observed, completed_samples, executed, thread, variant, cycle,
    generation_before, completions, run_error, cancelled, waiting_for, runs>>

Test == INSTANCE TestRun WITH
  Channels <- TestChannels, PoolSize <- TestPoolSize, running <- tested_running, pending <- tested_pending

ASSUME TestAssumption == Test!ConstantAssumption

VARIABLE machine

allVars == <<machine, vars, detectorVars, testVars>>

Judges == machine = "judgment" /\ Next /\ UNCHANGED <<machine, detectorVars, testVars>>
Detects == machine = "detector" /\ Detector!Next /\ UNCHANGED <<machine, vars, testVars>>
Tests == machine = "test" /\ Test!Next /\ UNCHANGED <<machine, vars, detectorVars>>

MCInit ==
  /\ Init /\ Detector!Init /\ Test!Init
  /\ machine \in {"judgment", "detector", "test"}

MCSpec ==
  /\ MCInit
  /\ [][Judges \/ Detects \/ Tests]_allVars

\* A channel has one worker at a time, its pool of snapshots suffices, and a
\* restart finds nothing of the run before (detection_dispatcher.cc).
DetectorSafety == machine = "detector" => Detector!Safety

\* After a test the operational settings are back, and every sample it counted
\* was of a frame stored after its request (test_run_controller.cc).
TestSafety == machine = "test" => Test!Safety
=============================================================================
