-------------------------- MODULE OperatorTerminal --------------------------
(***************************************************************************)
(* The forklift terminal between the risk channel and the FPGA:            *)
(* RiskEventSource (broker callbacks and silence watchdog),                *)
(* MetadataDistributor (newest risk of every camera),                      *)
(* ActiveCameraController (which camera is shown, and a change of it that  *)
(* waits for the first frame), VideoSourceManager (streams that run and    *)
(* those that linger) and the sending half of SerialWarningDevice.         *)
(*                                                                         *)
(* All of it runs in one Qt event loop, so one action is one event: a      *)
(* queued callback, a timer, a frame.  Time counts polls of the watchdog   *)
(* (100 ms, the period of the SET_RISK timer too).  Cameras go by their    *)
(* stream id, as in config/terminal.json.example.  Exceptions of the server *)
(* make no difference here and are all "None".                             *)
(***************************************************************************)
EXTENDS Integers, FiniteSets

CONSTANTS
  Cameras,          \* stream ids of cameras.json
  FirstCamera,      \* default_camera_id
  Unknown,          \* an id cameras.json does not have
  Risks, Safe,      \* risk levels
  Threshold,        \* kWatchdogThresholdMs, in polls
  Grace,            \* kStartupGracePeriodMs
  SwapDeadline,     \* kSwapDeadlineMs
  Linger,           \* kCameraLingerMs
  ReconnectDelay,   \* kReconnectDelayBaseSec, the shortest wait of libmosquitto
  FpgaTimeout       \* 500 ms of the FPGA's watchdog

ASSUME ConstantAssumption ==
  /\ FirstCamera \in Cameras /\ Unknown \notin Cameras
  /\ Safe \in Risks
  /\ Threshold \in Nat \ {0} /\ Grace \in Nat \ {0}
  /\ SwapDeadline \in Nat \ {0} /\ Linger \in Nat \ {0}
  /\ ReconnectDelay \in Nat /\ ReconnectDelay > Threshold + 1
  /\ FpgaTimeout \in Nat \ {0}

None == Unknown     \* no camera: an empty id
Off == -1           \* a timer that does not run

\* What the terminal keeps of a RiskMetadata.
Lost == "NetworkDisconnected"
Metadata == [risk : Risks, exceptionState : {"None", Lost}]
FromServer(risk) == [risk |-> risk, exceptionState |-> "None"]
Standby == FromServer(Safe)
Disconnected == [risk |-> Safe, exceptionState |-> Lost]

VARIABLES
  reconnect,                   \* RiskEventSource: Off when connected, else the
                               \*   polls libmosquitto still waits at least
  m_hasReceivedFirstMessage,
  m_staleCheckArmed,
  m_lastMessage,               \* polls since m_lastMessageTimer was restarted
  m_latestOf,                  \* MetadataDistributor::m_latest, by camera
  m_linkLostState,
  m_activeCameraId,            \* ActiveCameraController
  m_pendingCameraId,
  m_swapDeadline,              \* polls left, or Off
  m_latest,                    \*   what the driver sees
  playing,                     \* VideoSourceManager: streams that were started
  m_stopTimers,                \*   polls left until they are stopped, or Off
  m_lastRiskLevel,             \* SerialWarningDevice
  riskTx,                      \*   "sending" or "suspended"
  port,                        \*   "open", or "error" until it is reopened
  due,                         \* 100 ms timers that have run out: "watchdog" of
                               \*   the risk source, "tx" of the serial device
  fpga_risk,                   \* FPGA: the newest SET_RISK, and the polls
  fpga_silence                 \*   since it came

\* History, for the properties only.
VARIABLE
  silence                      \* polls since a risk message was accepted, up
                               \*   to Horizon, or Off before the first

sourceVars == <<reconnect, m_hasReceivedFirstMessage, m_staleCheckArmed, m_lastMessage>>
distributorVars == <<m_latestOf, m_linkLostState>>
swapVars == <<m_activeCameraId, m_pendingCameraId, m_swapDeadline>>
videoVars == <<playing, m_stopTimers>>
riskVars == <<m_latest, m_lastRiskLevel, riskTx>>
fpgaVars == <<fpga_risk, fpga_silence>>
vars == <<sourceVars, distributorVars, swapVars, videoVars, riskVars, port, due,
          fpgaVars, silence>>

-----------------------------------------------------------------------------
(* SerialWarningDevice                                                     *)

Frame(level) == fpga_risk' = level /\ fpga_silence' = 0

\* sendFrame.  After a port error the bytes may or may not still get through.
SendFrame(level) ==
  \/ Frame(level)
  \/ port = "error" /\ UNCHANGED fpgaVars

\* The 100 ms timer.
handleWatchdogTxTimer ==
  /\ "tx" \in due /\ due' = due \ {"tx"}
  /\ IF riskTx = "sending" THEN SendFrame(m_lastRiskLevel) ELSE UNCHANGED fpgaVars
  /\ UNCHANGED <<sourceVars, distributorVars, swapVars, videoVars, riskVars, port,
                 silence>>

\* handleSerialError, and the timers scheduleReconnect stops.
handleSerialError ==
  /\ port = "open" /\ port' = "error"
  /\ due' = due \ {"tx"}
  /\ UNCHANGED <<sourceVars, distributorVars, swapVars, videoVars, riskVars, fpgaVars,
                 silence>>

\* openPort succeeds: the first frame goes out at once, unless suspended.
openPort ==
  /\ port = "error" /\ port' = "open"
  /\ IF riskTx = "sending" THEN Frame(m_lastRiskLevel) ELSE UNCHANGED fpgaVars
  /\ UNCHANGED <<sourceVars, distributorVars, swapVars, videoVars, riskVars, due,
                 silence>>

\* onRiskTxSuspendedChanged: a frame at once, if sending was suspended.
onRiskTxResumed(level) ==
  IF riskTx = "suspended" THEN SendFrame(level) ELSE UNCHANGED fpgaVars

-----------------------------------------------------------------------------
(* ActiveCameraController                                                  *)

\* Bug: sending resumes before the new risk is set.
BugResumeFirst(meta) == m_lastRiskLevel

ResumedWith(meta) == meta.risk

\* applyRiskToWarningDevice: a lost link suspends SET_RISK, anything else sets
\* the level, then resumes.
applyRiskToWarningDevice(meta) ==
  IF meta.exceptionState = Lost
  THEN riskTx' = "suspended" /\ UNCHANGED <<m_lastRiskLevel, fpgaVars>>
  ELSE /\ m_lastRiskLevel' = meta.risk
       /\ riskTx' = "sending"
       /\ onRiskTxResumed(ResumedWith(meta))

Shows(meta) == m_latest' = meta /\ applyRiskToWarningDevice(meta)

\* requestStart of some cameras, requestStopAfter of others.
StopTimers(started, left) ==
  m_stopTimers' = [c \in Cameras |->
    IF c \in started THEN Off
    ELSE IF c \in left /\ m_stopTimers[c] = Off THEN Linger ELSE m_stopTimers[c]]

\* The camera that was waited for and is no longer wanted.
Abandoned(c) == {m_pendingCameraId} \ {None, m_activeCameraId, c}

\* setActiveCameraId with the camera that is shown: a change under way is off.
KeepActive ==
  /\ m_pendingCameraId' = None /\ m_swapDeadline' = Off
  /\ playing' = playing \cup {m_activeCameraId}
  /\ StopTimers({m_activeCameraId}, Abandoned(m_activeCameraId))
  /\ UNCHANGED <<sourceVars, distributorVars, m_activeCameraId, riskVars, port, due,
                 fpgaVars, silence>>

\* With an id that has no video source: ignored, after a change under way was
\* given up.
RefuseUnknown ==
  /\ m_pendingCameraId' = None /\ m_swapDeadline' = Off
  /\ StopTimers({}, Abandoned(Unknown))
  /\ UNCHANGED <<sourceVars, distributorVars, m_activeCameraId, playing, riskVars, port,
                 due, fpgaVars, silence>>

\* With another camera: it is started, and its first frame awaited.
AwaitFirstFrame(c) ==
  /\ c \in Cameras \ {m_activeCameraId, m_pendingCameraId}
  /\ m_pendingCameraId' = c /\ m_swapDeadline' = SwapDeadline
  /\ playing' = playing \cup {c}
  /\ StopTimers({c}, Abandoned(c))
  /\ UNCHANGED <<sourceVars, distributorVars, m_activeCameraId, riskVars, port, due,
                 fpgaVars, silence>>

\* An assignment of the server.  The camera already awaited changes nothing.
processAssignment ==
  KeepActive \/ RefuseUnknown \/ \E c \in Cameras : AwaitFirstFrame(c)

\* The camera awaited is shown with the newest risk heard of it; the one shown
\* before lingers.
commitCameraSwap ==
  /\ m_pendingCameraId # None
  /\ m_activeCameraId' = m_pendingCameraId
  /\ m_pendingCameraId' = None /\ m_swapDeadline' = Off
  /\ Shows(m_latestOf[m_pendingCameraId])
  /\ StopTimers({}, {m_activeCameraId})
  /\ UNCHANGED <<sourceVars, distributorVars, playing, port, due, silence>>

\* frameReady of the awaited camera.
FirstFrame == commitCameraSwap

\* No frame came in time.
SwapDeadlineExpires == m_swapDeadline = 0 /\ commitCameraSwap

\* VideoSourceManager: a camera has lingered long enough.
StopStream(c) ==
  /\ m_stopTimers[c] = 0
  /\ playing' = playing \ {c}
  /\ m_stopTimers' = [m_stopTimers EXCEPT ![c] = Off]
  /\ UNCHANGED <<sourceVars, distributorVars, swapVars, riskVars, port, due, fpgaVars,
                 silence>>


-----------------------------------------------------------------------------
(* MetadataDistributor and RiskEventSource                                 *)

\* A message about no camera of cameras.json is kept under its own name and
\* shown nowhere.
Stored(c, meta) == [d \in Cameras |->
  IF d = c THEN meta ELSE IF m_linkLostState THEN Standby ELSE m_latestOf[d]]

\* handleMetadata.  The first message after a loss puts every other camera on
\* standby, and each entry that is written for the active camera is shown.
handleMetadata(c, meta) ==
  /\ m_latestOf' = Stored(c, meta)
  /\ m_linkLostState' = FALSE
  /\ IF m_linkLostState \/ c = m_activeCameraId
     THEN Shows(m_latestOf'[m_activeCameraId])
     ELSE UNCHANGED <<riskVars, fpgaVars>>

\* Bug: only the camera on the screen is told that the link is lost.
BugLoseActiveOnly == [m_latestOf EXCEPT ![m_activeCameraId] = Disconnected]

AllLost == [c \in Cameras |-> Disconnected]

handleLinkLost ==
  IF m_linkLostState
  THEN UNCHANGED <<distributorVars, riskVars, fpgaVars>>
  ELSE /\ m_linkLostState' = TRUE
       /\ m_latestOf' = AllLost
       /\ Shows(Disconnected)

\* The broker accepts the connection.  A retained message may follow.
onConnect ==
  /\ reconnect = 0 /\ reconnect' = Off
  /\ m_lastMessage' = 0
  /\ m_staleCheckArmed' = TRUE
  /\ UNCHANGED <<m_hasReceivedFirstMessage, distributorVars, swapVars, videoVars,
                 riskVars, port, due, fpgaVars, silence>>

onDisconnect ==
  /\ reconnect = Off /\ reconnect' = ReconnectDelay
  /\ UNCHANGED <<m_hasReceivedFirstMessage, m_staleCheckArmed, m_lastMessage,
                 distributorVars, swapVars, videoVars, riskVars, port, due,
                 fpgaVars, silence>>

\* processPayload: the first message of a connection is dropped if it is old.
DiscardStale ==
  /\ reconnect = Off /\ m_staleCheckArmed
  /\ m_staleCheckArmed' = FALSE
  /\ UNCHANGED <<reconnect, m_hasReceivedFirstMessage, m_lastMessage, distributorVars,
                 swapVars, videoVars, riskVars, port, due, fpgaVars, silence>>

\* Any other is taken, whatever its age.
processPayload(c, risk) ==
  /\ reconnect = Off
  /\ m_staleCheckArmed' = FALSE
  /\ m_hasReceivedFirstMessage' = TRUE
  /\ m_lastMessage' = 0 /\ silence' = 0
  /\ handleMetadata(c, FromServer(risk))
  /\ UNCHANGED <<reconnect, swapVars, videoVars, port, due>>

-----------------------------------------------------------------------------
(* Time                                                                    *)

Horizon == Threshold + FpgaTimeout + 2

Left(timer) == IF timer > 0 THEN timer - 1 ELSE timer
Older(n, horizon) == IF n < horizon THEN n + 1 ELSE n

\* 100 ms.  Timers that have run out are served first.
TimePasses ==
  /\ due = {} /\ m_swapDeadline # 0 /\ \A c \in Cameras : m_stopTimers[c] # 0
  /\ due' = {"watchdog"} \cup IF port = "open" THEN {"tx"} ELSE {}
  /\ m_swapDeadline' = Left(m_swapDeadline)
  /\ m_stopTimers' = [c \in Cameras |-> Left(m_stopTimers[c])]
  /\ reconnect' = Left(reconnect)
  /\ m_lastMessage' = m_lastMessage + 1
  /\ fpga_silence' = Older(fpga_silence, FpgaTimeout + 1)
  /\ silence' = IF silence = Off THEN Off ELSE Older(silence, Horizon)
  /\ UNCHANGED <<m_activeCameraId, m_pendingCameraId, playing, m_staleCheckArmed,
                 m_hasReceivedFirstMessage, distributorVars, riskVars, port, fpga_risk>>

threshold == IF m_hasReceivedFirstMessage THEN Threshold ELSE Grace

\* evaluateWatchdog.  The time since the last message is between m_lastMessage
\* - 1 and m_lastMessage polls, so at the threshold it may answer either way.
StillFresh ==
  /\ "watchdog" \in due /\ due' = due \ {"watchdog"}
  /\ m_lastMessage <= threshold
  /\ UNCHANGED <<sourceVars, distributorVars, swapVars, videoVars, riskVars, port,
                 fpgaVars, silence>>

LinkLost ==
  /\ "watchdog" \in due /\ due' = due \ {"watchdog"}
  /\ m_lastMessage >= threshold
  /\ m_hasReceivedFirstMessage' = TRUE
  /\ m_lastMessage' = 0
  /\ handleLinkLost
  /\ UNCHANGED <<reconnect, m_staleCheckArmed, swapVars, videoVars, port, silence>>

-----------------------------------------------------------------------------
(* The terminal                                                            *)

\* main has started everything and no event has been served yet.
Init ==
  /\ reconnect = 0 /\ m_hasReceivedFirstMessage = FALSE
  /\ m_staleCheckArmed = FALSE /\ m_lastMessage = 0
  /\ m_latestOf = [c \in Cameras |-> Standby] /\ m_linkLostState = FALSE
  /\ m_activeCameraId = FirstCamera
  /\ m_pendingCameraId = None /\ m_swapDeadline = Off
  /\ m_latest = Standby /\ m_lastRiskLevel = Safe /\ riskTx = "sending"
  /\ playing = {FirstCamera} /\ m_stopTimers = [c \in Cameras |-> Off]
  /\ port = "open" /\ due = {}
  /\ fpga_risk = Safe /\ fpga_silence = 0
  /\ silence = Off

Next ==
  \/ onConnect \/ onDisconnect \/ DiscardStale
  \/ \E c \in Cameras \cup {None}, risk \in Risks : processPayload(c, risk)
  \/ StillFresh \/ LinkLost
  \/ processAssignment \/ FirstFrame \/ SwapDeadlineExpires
  \/ \E c \in Cameras : StopStream(c)
  \/ handleWatchdogTxTimer \/ handleSerialError \/ openPort
  \/ TimePasses

Spec == Init /\ [][Next]_vars

-----------------------------------------------------------------------------
(* Properties                                                              *)

Timers(length) == -1 .. length

\* Types, and the ranges of the counters: no timer outlives its length.
TypeOK ==
  /\ reconnect \in Timers(ReconnectDelay)
  /\ m_hasReceivedFirstMessage \in BOOLEAN /\ m_staleCheckArmed \in BOOLEAN
  /\ m_lastMessage \in 0 .. threshold + 1
  /\ m_latestOf \in [Cameras -> Metadata] /\ m_linkLostState \in BOOLEAN
  /\ m_activeCameraId \in Cameras /\ m_pendingCameraId \in Cameras \cup {None}
  /\ m_swapDeadline \in Timers(SwapDeadline)
  /\ m_latest \in Metadata /\ m_lastRiskLevel \in Risks
  /\ riskTx \in {"sending", "suspended"}
  /\ playing \subseteq Cameras /\ m_stopTimers \in [Cameras -> Timers(Linger)]
  /\ port \in {"open", "error"} /\ due \subseteq {"watchdog", "tx"}
  /\ fpga_risk \in Risks /\ fpga_silence \in 0 .. FpgaTimeout + 1
  /\ silence \in Timers(Horizon)

\* A server that goes silent is shown by the FPGA: at the latest two polls after
\* both timeouts its watchdog has fired, whatever camera changes, reconnects of
\* the broker and of the serial port came in between.  The terminal must not
\* feed it with the level it remembers (applyRiskToWarningDevice,
\* handleWatchdogTxTimer).
SilenceReachesFpga == silence = Horizon => fpga_silence > FpgaTimeout

\* Every SET_RISK carries the newest risk of the camera on the screen, and none
\* is sent while the link is lost: not the level from before the loss, nor that
\* of the camera shown before.
FrameSent == fpga_silence' = 0 /\ (fpga_silence' # fpga_silence \/ fpga_risk' # fpga_risk)
FrameCarriesShownRisk ==
  [][FrameSent => m_latestOf'[m_activeCameraId'] = FromServer(fpga_risk')]_vars

\* The camera shown and the one awaited play and are not due to be stopped;
\* every other stream that plays is, so none is forgotten, however handovers,
\* first frames and deadlines interleave.
StreamsAccounted ==
  LET wanted == {m_activeCameraId, m_pendingCameraId} \ {None} IN
  /\ wanted \subseteq playing
  /\ \A c \in Cameras : m_stopTimers[c] = Off <=> c \in wanted \/ c \notin playing

\* The invariants of the terminal: silence reaches the FPGA in time, and every
\* stream is accounted for.
Safety == TypeOK /\ SilenceReachesFpga /\ StreamsAccounted

=============================================================================
