---------------------------- MODULE MCSideParts ----------------------------
(***************************************************************************)
(* Instances for TLC: the parts beside the path from the cameras to the    *)
(* FPGA.  What turns pixels into places is computed by the apps of         *)
(* calibration and homography; the terminal shows the video and records    *)
(* its latencies; the server tells that it is alive.  The parts share no   *)
(* state; only one of them runs in a behaviour.                            *)
(*                                                                         *)
(* Homography: three workers of the camera stream; two threads that solve, *)
(* or two alignments; four streams joined in every way, whose maps do not  *)
(* commute.  Calibration: four captures of two channels in the camera; on  *)
(* the server two photos at a time; or a photo, which then is not deleted  *)
(* while it is looked at, a calibration and a request that shows a photo   *)
(* undistorted.  Video: waits of 1, 2 and 4, queues of two.  Latency: two  *)
(* changes of two levels.                                                  *)
(* Status: three starts of the server with two client ids, two births each.*)
(***************************************************************************)
EXTENDS Integers

\* Constants of the parts, as their modules declare them but for the names.
CONSTANTS
  ReceiverStreams, MaxWorkers,
  JobStreams, MaxCaptures, MaxRuns, Solvers,
  SiteStreams, Poses,
  Channels, Boards, Sizes, MinCaptures, MaxShots,
  PhotoThreads, CalibrationThreads, MaxNumber, MaxViewers, MinViews,
  kReconnectBaseDelayMs, kInitialReconnectMaxDelayMs, kReconnectMaxDelayMs, Slots, MaxQueue,
  Levels, MaxChanges,
  Ids, MaxStarts, MaxBirths

MCPoses == {<<2, 3, 1>>, <<2, 1, 3>>}

VARIABLES
  active_stream_id, worker, process, frames, pc, stream, stop_event, ffmpeg, ousted, late,
  job, solver, run, operational, last, broken,
  pose, joined, anchor, transforms, pending, outcome

receiverVars ==
  <<active_stream_id, worker, process, frames, pc, stream, stop_event, ffmpeg, ousted, late>>
jobVars == <<job, solver, run, operational, last, broken>>
alignmentVars == <<pose, joined, anchor, transforms, pending, outcome>>
webVars == <<receiverVars, jobVars, alignmentVars>>

Receiver == INSTANCE CameraStream WITH Streams <- ReceiverStreams
Jobs == INSTANCE HomographyJobs WITH Streams <- JobStreams
Global == INSTANCE GlobalAlignment WITH Streams <- SiteStreams

VARIABLES
  board_config_, sessions_, file, camera_size, shots,
  raw, json, preview, intrinsics, saved, capture, calibration, temporary, viewer,
  unchecked, disturbed

cameraVars == <<board_config_, sessions_, file, camera_size, shots>>
sessionVars ==
  <<raw, json, preview, intrinsics, saved, capture, calibration, temporary, viewer,
    unchecked, disturbed>>
calibrationVars == <<cameraVars, sessionVars>>

Camera == INSTANCE CameraCalibration
Session == INSTANCE CalibrationSession WITH
  Captures <- PhotoThreads, Runs <- CalibrationThreads

VARIABLES
  pipeline, connectionState, m_userStopped, connectTimer, reconnectTimer,
  m_reconnectDelayMs, m_everConnected, stopTimer, graph, bus, posted, m_pending,
  m_deliveryQueued, deliverer, streamer, fooled,
  m, rows, dropped, m_lastRiskLevel, m_lastTransmittedRiskLevel, suspended, frame, own

videoVars ==
  <<pipeline, connectionState, m_userStopped, connectTimer, reconnectTimer,
    m_reconnectDelayMs, m_everConnected, stopTimer, graph, bus, posted, m_pending,
    m_deliveryQueued, deliverer, streamer, fooled>>
latencyVars ==
  <<m, rows, dropped, m_lastRiskLevel, m_lastTransmittedRiskLevel, suspended, frame, own>>
terminalVars == <<videoVars, latencyVars>>

Video == INSTANCE TerminalVideo
Latency == INSTANCE LatencyTracker WITH MaxSeq <- MaxChanges

VARIABLES
  start, id, phase, mosq, state, status_seq_, socket, out, ack, session, retained,
  crossed, overtaken

statusVars ==
  <<start, id, phase, mosq, state, status_seq_, socket, out, ack, session, retained,
    crossed, overtaken>>

Status == INSTANCE ServerStatus WITH run <- start, MaxRuns <- MaxStarts, MaxSeq <- MaxBirths

ASSUME ReceiverAssumption == Receiver!ConstantAssumption
ASSUME JobAssumption == Jobs!ConstantAssumption
ASSUME GlobalAssumption == Global!ConstantAssumption
ASSUME CameraAssumption == Camera!ConstantAssumption
ASSUME SessionAssumption == Session!ConstantAssumption
ASSUME VideoAssumption == Video!ConstantAssumption
ASSUME LatencyAssumption == Latency!ConstantAssumption
ASSUME StatusAssumption == Status!ConstantAssumption

VARIABLE machine

allVars == <<machine, webVars, calibrationVars, terminalVars, statusVars>>

Web ==
  /\ \/ machine = "receiver" /\ Receiver!Next /\ UNCHANGED <<jobVars, alignmentVars>>
     \/ /\ machine \in {"solves", "alignments"} /\ Jobs!Next
        /\ machine = "solves" => \A r \in Jobs!Runs : r > 1 => run'[r] = run[r]
        /\ machine = "alignments" => \A v \in Solvers : v > 1 => solver'[v] = solver[v]
        /\ UNCHANGED <<receiverVars, alignmentVars>>
     \/ machine = "global" /\ Global!Next /\ UNCHANGED <<receiverVars, jobVars>>
  /\ UNCHANGED <<machine, calibrationVars, terminalVars, statusVars>>

Calibrates ==
  /\ \/ machine = "camera" /\ Camera!Next /\ UNCHANGED sessionVars
     \/ /\ machine \in {"photos", "session"} /\ Session!Next
        /\ machine = "photos" => calibration' = calibration /\ viewer' = viewer
        /\ machine = "session" =>
             /\ \A c \in PhotoThreads : c > 1 => capture'[c] = capture[c]
             /\ unchecked' = unchecked /\ disturbed' = disturbed
        /\ UNCHANGED cameraVars
  /\ UNCHANGED <<machine, webVars, terminalVars, statusVars>>

Shows ==
  /\ \/ machine = "video" /\ Video!Next /\ UNCHANGED latencyVars
     \/ machine = "latency" /\ Latency!Next /\ UNCHANGED videoVars
  /\ UNCHANGED <<machine, webVars, calibrationVars, statusVars>>

Tells ==
  /\ machine = "status" /\ Status!Next
  /\ UNCHANGED <<machine, webVars, calibrationVars, terminalVars>>

\* A part with more than one initial state has one of them while another runs.
MCInit ==
  /\ machine \in {"receiver", "solves", "alignments", "global", "camera", "photos",
                  "session", "video", "latency", "status"}
  /\ Receiver!Init /\ Jobs!Init /\ Global!Init /\ Camera!Init /\ Session!Init
  /\ Video!Init /\ Latency!Init /\ Status!Init
  /\ machine # "global" =>
       /\ pose = [s \in SiteStreams |-> CHOOSE p \in Poses : TRUE]
       /\ anchor = (CHOOSE s \in SiteStreams : TRUE) /\ joined = {}
  /\ machine # "camera" => camera_size = [ch \in Channels |-> CHOOSE size \in Sizes : TRUE]
  /\ machine # "latency" => m.enabled
  /\ machine # "status" => id = CHOOSE i \in Ids : TRUE

MCSpec == MCInit /\ [][Web \/ Calibrates \/ Shows \/ Tells]_allVars

\* One frame source at a time, operational homographies that belong together, and
\* one map for all streams or none (homography_app/web/server.py).
WebSafety ==
  /\ machine = "receiver" => Receiver!Safety
  /\ machine \in {"solves", "alignments"} => Jobs!Safety
  /\ machine = "global" => Global!Safety

\* Results are computed from captures of one board and size, and from photos that
\* were checked (ArUCoCalibration, calibration_app/server.py).
CalibrationSafety ==
  /\ machine = "camera" => Camera!Safety
  /\ machine \in {"photos", "session"} => Session!Safety

\* On the terminal, a video source tries again, stays stopped and delivers; each
\* change of the level has its row, with the times of its own frame and frame to
\* the FPGA (RtspVideoSource.cpp, LatencyTracker.cpp).
ScreenSafety ==
  /\ machine = "video" => Video!Safety
  /\ machine = "latency" => Latency!Safety

\* The server is told to be online while it is, but for late wills, and not after
\* (result_publisher.hpp).
StatusSafety == machine = "status" => Status!Safety
=============================================================================
