------------------------ MODULE OperatorTerminalProofs ------------------------
(***************************************************************************)
(* Proofs about the forklift terminal: what it shows and sends is what it  *)
(* heard, a lost server reaches the FPGA, and no stream is forgotten.      *)
(* About what hangs on its lines: the FPGA's event queue, for every depth  *)
(* and every choice of signals, and the distance sensor's driver, for every*)
(* number of readers and faults.                                           *)
(***************************************************************************)
EXTENDS MCOperatorTerminal, Sequences, TLAPS

\* The driver sees, and the serial device repeats, the newest risk of the camera
\* on the screen; the link is lost for all cameras or for none.
ShownInv ==
  /\ m_latest = m_latestOf[m_activeCameraId]
  /\ m_linkLostState => m_latestOf = AllLost
  /\ ~m_linkLostState => \A c \in Cameras : m_latestOf[c].exceptionState = "None"
  /\ riskTx = "sending" => ~m_linkLostState /\ m_lastRiskLevel = m_latest.risk
  /\ riskTx = "suspended" => m_linkLostState

\* A change of camera under way has its deadline running.
SwapInv ==
  /\ StreamsAccounted
  /\ m_pendingCameraId # m_activeCameraId
  /\ m_pendingCameraId # None <=> m_swapDeadline # Off

\* Until the loss is noticed the watchdog measures the silence, or no message was
\* heard; the delay of a reconnect is longer than the watchdog takes.  From then
\* on the FPGA measures it.
SilenceInv ==
  /\ "watchdog" \notin due => m_lastMessage <= threshold
  /\ m_linkLostState => m_hasReceivedFirstMessage
  /\ silence # Off => m_hasReceivedFirstMessage
  /\ silence # Off /\ ~m_linkLostState => silence <= m_lastMessage
  /\ silence # Off /\ ~m_linkLostState /\ reconnect # Off
       => m_lastMessage >= ReconnectDelay - reconnect
  /\ silence # Off /\ m_linkLostState => silence <= fpga_silence + Threshold + 1

IInv == TypeOK /\ ShownInv /\ SwapInv /\ SilenceInv

-----------------------------------------------------------------------------
(* Initial states                                                          *)

LEMMA InitIInv == Init => IInv
<1> SUFFICES ASSUME Init PROVE IInv
  OBVIOUS
<1> USE ConstantAssumption DEF Init, None, Off, Timers, Standby, FromServer
<1>0. /\ m_hasReceivedFirstMessage \in BOOLEAN /\ m_staleCheckArmed \in BOOLEAN
      /\ m_linkLostState \in BOOLEAN
  BY Zenon
<1>1. TypeOK
  BY <1>0 DEF TypeOK, threshold, Metadata, Horizon
<1>2. ShownInv
  BY DEF ShownInv
<1>3. SwapInv
  BY DEF SwapInv, StreamsAccounted
<1>4. SilenceInv
  BY DEF SilenceInv, threshold
<1> QED
  BY <1>1, <1>2, <1>3, <1>4 DEF IInv

-----------------------------------------------------------------------------
(* What is shown and sent                                                  *)

\* What is stored of a message is of the type of metadata, and none of it says
\* that the link is lost.
LEMMA StoredType ==
  ASSUME TypeOK, ShownInv, NEW c, NEW risk \in Risks
  PROVE  /\ Stored(c, FromServer(risk)) \in [Cameras -> Metadata]
         /\ \A d \in Cameras : Stored(c, FromServer(risk))[d].exceptionState = "None"
  BY ConstantAssumption
     DEF TypeOK, ShownInv, Stored, FromServer, Standby, Metadata

\* Showing metadata keeps the types, and makes the serial device repeat it, or
\* be silent if it says that the link is lost.
LEMMA ShowsStep ==
  ASSUME TypeOK, NEW meta \in Metadata, Shows(meta)
  PROVE  /\ m_latest' = meta
         /\ m_lastRiskLevel' \in Risks /\ riskTx' \in {"sending", "suspended"}
         /\ fpga_risk' \in Risks /\ fpga_silence' \in 0 .. FpgaTimeout + 1
         /\ riskTx' = "suspended" <=> meta.exceptionState = Lost
         /\ riskTx' = "sending" => m_lastRiskLevel' = meta.risk
         /\ FrameSent => riskTx' = "sending" /\ fpga_risk' = meta.risk
         /\ meta.exceptionState = Lost => fpga_silence' = fpga_silence
<1> USE ConstantAssumption DEF TypeOK, Metadata
<1>1. CASE meta.exceptionState = Lost
  BY <1>1 DEF Shows, applyRiskToWarningDevice, Lost, fpgaVars, FrameSent
<1>2. CASE meta.exceptionState # Lost
  BY <1>2 DEF Shows, applyRiskToWarningDevice, Lost, fpgaVars, FrameSent, SendFrame,
              Frame, ResumedWith, onRiskTxResumed
<1> QED
  BY <1>1, <1>2

\* The types of what is shown and sent.
ShownType ==
  /\ m_latestOf \in [Cameras -> Metadata] /\ m_linkLostState \in BOOLEAN
  /\ m_latest \in Metadata /\ m_lastRiskLevel \in Risks
  /\ riskTx \in {"sending", "suspended"}
  /\ fpga_risk \in Risks /\ fpga_silence \in 0 .. FpgaTimeout + 1

\* A message keeps them.
LEMMA MetadataStep ==
  ASSUME IInv, NEW c, NEW risk \in Risks, handleMetadata(c, FromServer(risk)),
         m_activeCameraId' = m_activeCameraId
  PROVE  ShownType' /\ ShownInv'
<1> DEFINE stored == Stored(c, FromServer(risk))
<1>1. /\ stored \in [Cameras -> Metadata]
      /\ \A d \in Cameras : stored[d].exceptionState = "None"
  BY StoredType DEF IInv
<1>2. m_linkLostState' \in BOOLEAN
  BY Zenon DEF handleMetadata
<1>3. m_latestOf' = stored /\ ~m_linkLostState'
  BY DEF handleMetadata
<1>4. m_activeCameraId \in Cameras
  BY DEF IInv, TypeOK
<1> HIDE DEF stored
<1>5. CASE m_linkLostState \/ c = m_activeCameraId
  <2>1. Shows(stored[m_activeCameraId]) /\ stored[m_activeCameraId] \in Metadata
    BY <1>1, <1>3, <1>4, <1>5 DEF handleMetadata
  <2>2. QED
    BY <1>1, <1>2, <1>3, <1>4, <2>1, ShowsStep DEF IInv, ShownType, ShownInv, Lost
<1>6. CASE ~(m_linkLostState \/ c = m_activeCameraId)
  <2>1. UNCHANGED <<riskVars, fpgaVars>>
    BY <1>6 DEF handleMetadata
  <2>2. stored[m_activeCameraId] = m_latestOf[m_activeCameraId]
    BY <1>4, <1>6 DEF stored, Stored
  <2>3. QED
    BY <1>1, <1>2, <1>3, <1>4, <1>6, <2>1, <2>2
       DEF IInv, TypeOK, ShownType, ShownInv, riskVars, fpgaVars
<1> QED
  BY <1>5, <1>6

\* So does the loss of the link, which sends nothing.
LEMMA LinkLostStep ==
  ASSUME IInv, handleLinkLost, m_activeCameraId' = m_activeCameraId
  PROVE  ShownType' /\ ShownInv' /\ m_linkLostState' /\ fpga_silence' = fpga_silence
<1>1. CASE m_linkLostState
  BY <1>1, Zenon DEF handleLinkLost, IInv, TypeOK, ShownType, ShownInv, distributorVars,
     riskVars, fpgaVars, AllLost
<1>2. CASE ~m_linkLostState
  <2>1. m_linkLostState' \in BOOLEAN
    BY <1>2, Zenon DEF handleLinkLost
  <2>2. m_linkLostState' /\ m_latestOf' = AllLost /\ Shows(Disconnected)
    BY <1>2 DEF handleLinkLost
  <2>3. AllLost \in [Cameras -> Metadata] /\ Disconnected \in Metadata
    BY ConstantAssumption DEF AllLost, Disconnected, Metadata
  <2>4. m_activeCameraId \in Cameras /\ AllLost[m_activeCameraId] = Disconnected
    BY DEF IInv, TypeOK, AllLost
  <2>5. Disconnected.exceptionState = Lost
    BY DEF Disconnected
  <2>6. QED
    BY <2>1, <2>2, <2>3, <2>4, <2>5, ShowsStep DEF IInv, ShownType, ShownInv
<1> QED
  BY <1>1, <1>2

\* And so does every step.
LEMMA ShownStep == IInv /\ [Next]_vars => ShownType' /\ ShownInv'
<1> SUFFICES ASSUME IInv, [Next]_vars PROVE ShownType' /\ ShownInv'
  OBVIOUS
<1>0. ShownType /\ ShownInv
  BY DEF IInv, TypeOK, ShownType
<1>1. ASSUME UNCHANGED <<distributorVars, riskVars, fpgaVars, m_activeCameraId>>
      PROVE  ShownType' /\ ShownInv'
  BY <1>0, <1>1, Zenon DEF ShownType, ShownInv, distributorVars, riskVars, fpgaVars, AllLost
<1>2. ASSUME UNCHANGED <<distributorVars, riskVars, m_activeCameraId>>,
             fpga_risk' \in Risks /\ fpga_silence' \in 0 .. FpgaTimeout + 1
      PROVE  ShownType' /\ ShownInv'
  BY <1>0, <1>2, Zenon DEF ShownType, ShownInv, distributorVars, riskVars, AllLost
<1>3. ASSUME NEW c \in Cameras \cup {None}, NEW risk \in Risks, processPayload(c, risk)
      PROVE  ShownType' /\ ShownInv'
  BY <1>3, MetadataStep DEF processPayload, swapVars
<1>4. CASE LinkLost
  BY <1>4, LinkLostStep DEF LinkLost, swapVars
<1>5. CASE commitCameraSwap
  <2>1. m_pendingCameraId \in Cameras /\ m_activeCameraId' = m_pendingCameraId
    BY <1>5 DEF commitCameraSwap, IInv, TypeOK
  <2>2. Shows(m_latestOf[m_pendingCameraId]) /\ UNCHANGED distributorVars
    BY <1>5 DEF commitCameraSwap
  <2>3. m_latestOf[m_pendingCameraId] \in Metadata
    BY <1>0, <2>1 DEF ShownType
  <2>4. m_linkLostState' \in BOOLEAN
    BY <1>0, <2>2, Zenon DEF ShownType, distributorVars
  <2>5. /\ m_latest' = m_latestOf[m_pendingCameraId]
        /\ m_lastRiskLevel' \in Risks /\ riskTx' \in {"sending", "suspended"}
        /\ fpga_risk' \in Risks /\ fpga_silence' \in 0 .. FpgaTimeout + 1
        /\ riskTx' = "suspended" <=> m_latestOf[m_pendingCameraId].exceptionState = Lost
        /\ riskTx' = "sending" => m_lastRiskLevel' = m_latestOf[m_pendingCameraId].risk
    BY <2>2, <2>3, ShowsStep DEF IInv
  <2>6. m_linkLostState => m_latestOf[m_pendingCameraId].exceptionState = Lost
    BY <1>0, <2>1 DEF ShownInv, AllLost, Disconnected
  <2>7. ~m_linkLostState => m_latestOf[m_pendingCameraId].exceptionState # Lost
    BY <1>0, <2>1 DEF ShownInv, Lost
  <2>8. QED
    BY <1>0, <2>1, <2>2, <2>3, <2>4, <2>5, <2>6, <2>7
       DEF ShownType, ShownInv, distributorVars, AllLost
<1>6. ASSUME Frame(m_lastRiskLevel) \/ UNCHANGED fpgaVars
      PROVE  fpga_risk' \in Risks /\ fpga_silence' \in 0 .. FpgaTimeout + 1
  BY <1>0, <1>6, ConstantAssumption DEF ShownType, Frame, fpgaVars
<1>7. CASE handleWatchdogTxTimer
  BY <1>2, <1>6, <1>7 DEF handleWatchdogTxTimer, SendFrame, swapVars
<1>8. CASE openPort
  BY <1>2, <1>6, <1>8 DEF openPort, swapVars
<1>9. CASE TimePasses
  <2>1. fpga_risk' \in Risks /\ fpga_silence' \in 0 .. FpgaTimeout + 1
    BY <1>0, <1>9, ConstantAssumption DEF TimePasses, Older, ShownType
  <2>2. QED
    BY <1>2, <1>9, <2>1 DEF TimePasses
<1>10. CASE onConnect \/ onDisconnect \/ DiscardStale \/ StillFresh
  BY <1>1, <1>10 DEF onConnect, onDisconnect, DiscardStale, StillFresh, swapVars
<1>11. CASE processAssignment
  BY <1>1, <1>11 DEF processAssignment, KeepActive, RefuseUnknown, AwaitFirstFrame
<1>12. CASE handleSerialError \/ \E c \in Cameras : StopStream(c)
  BY <1>1, <1>12 DEF handleSerialError, StopStream, swapVars
<1>13. CASE UNCHANGED vars
  BY <1>1, <1>13 DEF vars, swapVars
<1> QED
  BY <1>3, <1>4, <1>5, <1>7, <1>8, <1>9, <1>10, <1>11, <1>12, <1>13
     DEF Next, FirstFrame, SwapDeadlineExpires

-----------------------------------------------------------------------------
(* Changes of camera, and the streams they leave playing                   *)

\* The types of the change under way.
SwapType ==
  /\ m_activeCameraId \in Cameras /\ m_pendingCameraId \in Cameras \cup {None}
  /\ m_swapDeadline \in Timers(SwapDeadline)
  /\ playing \subseteq Cameras /\ m_stopTimers \in [Cameras -> Timers(Linger)]

LEMMA SwapStep == IInv /\ [Next]_vars => SwapType' /\ SwapInv'
<1> SUFFICES ASSUME IInv, [Next]_vars PROVE SwapType' /\ SwapInv'
  OBVIOUS
<1>0. SwapType /\ SwapInv
  BY DEF IInv, TypeOK, SwapType
<1> USE ConstantAssumption DEF SwapType, SwapInv, StreamsAccounted, Timers, Off, None
<1>1. ASSUME UNCHANGED <<swapVars, videoVars>> PROVE SwapType' /\ SwapInv'
  BY <1>0, <1>1 DEF swapVars, videoVars
<1>2. CASE KeepActive
  BY <1>0, <1>2 DEF KeepActive, StopTimers, Abandoned
<1>3. CASE RefuseUnknown
  BY <1>0, <1>3 DEF RefuseUnknown, StopTimers, Abandoned
<1>4. ASSUME NEW c \in Cameras, AwaitFirstFrame(c) PROVE SwapType' /\ SwapInv'
  BY <1>0, <1>4 DEF AwaitFirstFrame, StopTimers, Abandoned
<1>5. CASE commitCameraSwap
  BY <1>0, <1>5 DEF commitCameraSwap, StopTimers
<1>6. ASSUME NEW c \in Cameras, StopStream(c) PROVE SwapType' /\ SwapInv'
  BY <1>0, <1>6 DEF StopStream, swapVars
<1>7. CASE TimePasses
  BY <1>0, <1>7 DEF TimePasses, Left
<1>8. CASE onConnect \/ onDisconnect \/ DiscardStale \/ StillFresh \/ LinkLost
  BY <1>1, <1>8 DEF onConnect, onDisconnect, DiscardStale, StillFresh, LinkLost
<1>9. CASE handleWatchdogTxTimer \/ handleSerialError \/ openPort
  BY <1>1, <1>9 DEF handleWatchdogTxTimer, handleSerialError, openPort
<1>10. CASE \E c \in Cameras \cup {None}, risk \in Risks : processPayload(c, risk)
  BY <1>1, <1>10 DEF processPayload
<1>11. CASE UNCHANGED vars
  BY <1>1, <1>11 DEF vars
<1> QED
  BY <1>2, <1>3, <1>4, <1>5, <1>6, <1>7, <1>8, <1>9, <1>10, <1>11
     DEF Next, processAssignment, FirstFrame, SwapDeadlineExpires

-----------------------------------------------------------------------------
(* Silence                                                                 *)

\* The types of the timers.
ClockType ==
  /\ reconnect \in Timers(ReconnectDelay)
  /\ m_hasReceivedFirstMessage \in BOOLEAN /\ m_staleCheckArmed \in BOOLEAN
  /\ m_lastMessage \in 0 .. threshold + 1
  /\ port \in {"open", "error"} /\ due \subseteq {"watchdog", "tx"}
  /\ silence \in Timers(Horizon)

\* While the link is lost nothing is sent, by any handler but that of a message.
LEMMA LostSendsNothing ==
  ASSUME IInv, m_linkLostState, UNCHANGED m_linkLostState, [Next]_vars
  PROVE  TimePasses \/ fpga_silence' = fpga_silence
<1>1. riskTx = "suspended"
  BY DEF IInv, TypeOK, ShownInv
<1>2. m_latestOf = AllLost
  BY DEF IInv, ShownInv
<1>3. CASE handleWatchdogTxTimer \/ openPort
  BY <1>1, <1>3 DEF handleWatchdogTxTimer, openPort, fpgaVars
<1>4. CASE commitCameraSwap
  <2>1. m_latestOf[m_pendingCameraId] = Disconnected
    BY <1>2, <1>4 DEF commitCameraSwap, IInv, TypeOK, AllLost
  <2>2. Shows(Disconnected)
    BY <1>4, <2>1 DEF commitCameraSwap
  <2>3. QED
    BY <2>2 DEF Shows, applyRiskToWarningDevice, Disconnected, fpgaVars
<1>5. CASE LinkLost
  BY <1>5 DEF LinkLost, handleLinkLost, fpgaVars
<1>6. ASSUME NEW c, NEW risk, processPayload(c, risk) PROVE FALSE
  BY <1>6 DEF processPayload, handleMetadata
<1>7. CASE onConnect \/ onDisconnect \/ DiscardStale \/ StillFresh \/ processAssignment
           \/ handleSerialError \/ (\E c \in Cameras : StopStream(c)) \/ UNCHANGED vars
  BY <1>7 DEF onConnect, onDisconnect, DiscardStale, StillFresh, processAssignment,
              KeepActive, RefuseUnknown, AwaitFirstFrame, handleSerialError, StopStream,
              vars, fpgaVars
<1> QED
  BY <1>3, <1>4, <1>5, <1>6, <1>7 DEF Next, FirstFrame, SwapDeadlineExpires

LEMMA SilenceStep == IInv /\ [Next]_vars => ClockType' /\ SilenceInv'
<1> SUFFICES ASSUME IInv, [Next]_vars PROVE ClockType' /\ SilenceInv'
  OBVIOUS
<1>0. ClockType /\ SilenceInv /\ fpga_silence \in 0 .. FpgaTimeout + 1
      /\ m_linkLostState \in BOOLEAN
  BY DEF IInv, TypeOK, ClockType
<1> USE ConstantAssumption DEF ClockType, SilenceInv, Timers, Off, threshold, Horizon
<1>1. ASSUME UNCHANGED <<sourceVars, m_linkLostState, silence>>,
             port' \in {"open", "error"}, due' \subseteq {"watchdog", "tx"},
             "watchdog" \in due' <=> "watchdog" \in due, ~TimePasses
      PROVE  ClockType' /\ SilenceInv'
  <2>1. /\ reconnect' = reconnect /\ m_hasReceivedFirstMessage' = m_hasReceivedFirstMessage
        /\ m_staleCheckArmed' = m_staleCheckArmed /\ m_lastMessage' = m_lastMessage
        /\ m_linkLostState' = m_linkLostState /\ silence' = silence
    BY <1>1 DEF sourceVars
  <2>2. m_linkLostState => fpga_silence' = fpga_silence
    BY <1>1, LostSendsNothing
  <2>3. m_hasReceivedFirstMessage' \in BOOLEAN /\ m_staleCheckArmed' \in BOOLEAN
    BY <1>0, <2>1, Zenon
  <2>4. ClockType'
    BY <1>0, <1>1, <2>1, <2>3
  <2>5. SilenceInv'
    BY <1>0, <1>1, <2>1, <2>2
  <2>6. QED
    BY <2>4, <2>5
<1>2. CASE onConnect
  \* While a message is remembered, the loss is noticed before a reconnect.
  <2>1. ~(silence # Off /\ ~m_linkLostState)
    BY <1>0, <1>2 DEF onConnect
  <2>2. /\ reconnect' = Off /\ m_lastMessage' = 0 /\ due' = due /\ port' = port
        /\ m_hasReceivedFirstMessage' = m_hasReceivedFirstMessage
        /\ m_linkLostState' = m_linkLostState /\ silence' = silence
        /\ fpga_silence' = fpga_silence
    BY <1>2 DEF onConnect, distributorVars, fpgaVars
  <2>3. m_hasReceivedFirstMessage' \in BOOLEAN /\ m_staleCheckArmed' \in BOOLEAN
    BY <1>0, <1>2, Zenon DEF onConnect
  <2>4. QED
    BY <1>0, <2>1, <2>2, <2>3
<1>3. CASE onDisconnect
  <2>1. /\ reconnect = Off /\ reconnect' = ReconnectDelay /\ due' = due /\ port' = port
        /\ m_lastMessage' = m_lastMessage
        /\ m_hasReceivedFirstMessage' = m_hasReceivedFirstMessage
        /\ m_linkLostState' = m_linkLostState /\ silence' = silence
        /\ fpga_silence' = fpga_silence
    BY <1>3 DEF onDisconnect, distributorVars, fpgaVars
  <2>2. m_hasReceivedFirstMessage' \in BOOLEAN /\ m_staleCheckArmed' \in BOOLEAN
    BY <1>0, <1>3, Zenon DEF onDisconnect
  <2>3. QED
    BY <1>0, <2>1, <2>2
<1>4. CASE DiscardStale
  <2>1. /\ reconnect' = reconnect /\ due' = due /\ port' = port
        /\ m_lastMessage' = m_lastMessage
        /\ m_hasReceivedFirstMessage' = m_hasReceivedFirstMessage
        /\ m_linkLostState' = m_linkLostState /\ silence' = silence
        /\ fpga_silence' = fpga_silence
    BY <1>4 DEF DiscardStale, distributorVars, fpgaVars
  <2>2. m_hasReceivedFirstMessage' \in BOOLEAN /\ m_staleCheckArmed' \in BOOLEAN
    BY <1>0, <1>4, Zenon DEF DiscardStale
  <2>3. QED
    BY <1>0, <2>1, <2>2
<1>5. ASSUME NEW c, NEW risk, processPayload(c, risk)
      PROVE  ClockType' /\ SilenceInv'
  <2>1. /\ reconnect' = Off /\ m_lastMessage' = 0 /\ silence' = 0 /\ due' = due
        /\ port' = port /\ m_hasReceivedFirstMessage' /\ ~m_linkLostState'
    BY <1>5 DEF processPayload, handleMetadata
  <2>2. m_hasReceivedFirstMessage' \in BOOLEAN /\ m_staleCheckArmed' \in BOOLEAN
    BY <1>5, Zenon DEF processPayload
  <2>3. QED
    BY <1>0, <2>1, <2>2
<1>6. CASE LinkLost
  <2>1. m_linkLostState' /\ fpga_silence' = fpga_silence
    BY <1>6, LinkLostStep DEF LinkLost, swapVars
  <2>2. /\ reconnect' = reconnect /\ m_lastMessage' = 0 /\ silence' = silence
        /\ due' = due \ {"watchdog"} /\ port' = port /\ m_hasReceivedFirstMessage'
    BY <1>6 DEF LinkLost
  <2>3. m_hasReceivedFirstMessage' \in BOOLEAN /\ m_staleCheckArmed' \in BOOLEAN
    BY <1>0, <1>6, Zenon DEF LinkLost
  <2>4. ClockType'
    BY <1>0, <2>2, <2>3
  <2>5. SilenceInv'
    BY <1>0, <2>1, <2>2
  <2>6. QED
    BY <2>4, <2>5
<1>7. CASE StillFresh
  <2>1. /\ UNCHANGED <<reconnect, m_lastMessage, m_hasReceivedFirstMessage,
                       m_linkLostState, silence, port, fpga_silence>>
        /\ due' = due \ {"watchdog"} /\ m_lastMessage <= threshold
    BY <1>7 DEF StillFresh, sourceVars, distributorVars, fpgaVars
  <2>2. m_hasReceivedFirstMessage' \in BOOLEAN /\ m_staleCheckArmed' \in BOOLEAN
    BY <1>0, <1>7, Zenon DEF StillFresh, sourceVars
  <2>3. ClockType'
    BY <1>0, <2>1, <2>2
  <2>4. SilenceInv'
    BY <1>0, <2>1
  <2>5. QED
    BY <2>3, <2>4
<1>8. CASE TimePasses
  <2>1. /\ UNCHANGED <<m_hasReceivedFirstMessage, m_linkLostState, port>>
        /\ due = {} /\ due' \subseteq {"watchdog", "tx"} /\ "watchdog" \in due'
        /\ reconnect' = IF reconnect > 0 THEN reconnect - 1 ELSE reconnect
        /\ m_lastMessage' = m_lastMessage + 1
        /\ fpga_silence' = Older(fpga_silence, FpgaTimeout + 1)
        /\ silence' = IF silence = Off THEN Off ELSE Older(silence, Horizon)
    BY <1>8 DEF TimePasses, Left, distributorVars
  <2>2. m_hasReceivedFirstMessage' \in BOOLEAN /\ m_staleCheckArmed' \in BOOLEAN
    BY <1>0, <1>8, Zenon DEF TimePasses
  <2>3. ClockType'
    BY <1>0, <2>1, <2>2 DEF Older
  <2>4. SilenceInv'
    BY <1>0, <2>1 DEF Older
  <2>5. QED
    BY <2>3, <2>4
<1>9. CASE commitCameraSwap
  BY <1>0, <1>1, <1>9 DEF commitCameraSwap, distributorVars, TimePasses
<1>10. CASE processAssignment
  BY <1>0, <1>1, <1>10 DEF processAssignment, KeepActive, RefuseUnknown, AwaitFirstFrame,
     distributorVars, TimePasses
<1>11. CASE handleWatchdogTxTimer \/ handleSerialError \/ openPort
  BY <1>0, <1>1, <1>11 DEF handleWatchdogTxTimer, handleSerialError, openPort,
     distributorVars, TimePasses
<1>12. CASE (\E c \in Cameras : StopStream(c)) \/ UNCHANGED vars
  BY <1>0, <1>1, <1>12 DEF StopStream, vars, distributorVars, TimePasses
<1> QED
  BY <1>2, <1>3, <1>4, <1>5, <1>6, <1>7, <1>8, <1>9, <1>10, <1>11, <1>12
     DEF Next, FirstFrame, SwapDeadlineExpires

-----------------------------------------------------------------------------
(* Frames                                                                  *)

\* A frame carries the level the serial device has after the step that sends it.
LEMMA FrameRepeatsLevel ==
  ASSUME IInv, [Next]_vars, FrameSent
  PROVE  riskTx' = "sending" /\ fpga_risk' = m_lastRiskLevel'
<1>1. fpga_silence' = 0 /\ ~UNCHANGED fpgaVars
  BY DEF FrameSent, fpgaVars
<1>2. ASSUME NEW meta \in Metadata, Shows(meta)
      PROVE  riskTx' = "sending" /\ fpga_risk' = m_lastRiskLevel'
  BY <1>2, ShowsStep DEF IInv
<1>3. CASE handleWatchdogTxTimer \/ openPort
  BY <1>1, <1>3 DEF handleWatchdogTxTimer, openPort, SendFrame, Frame, riskVars
<1>4. ASSUME NEW c, NEW risk \in Risks, processPayload(c, risk)
      PROVE  riskTx' = "sending" /\ fpga_risk' = m_lastRiskLevel'
  <2>1. Stored(c, FromServer(risk)) \in [Cameras -> Metadata]
    BY StoredType DEF IInv
  <2>2. m_latestOf' = Stored(c, FromServer(risk)) /\ Shows(m_latestOf'[m_activeCameraId])
    BY <1>1, <1>4 DEF processPayload, handleMetadata
  <2>3. m_activeCameraId \in Cameras
    BY DEF IInv, TypeOK
  <2>4. QED
    BY <1>2, <2>1, <2>2, <2>3
<1>5. CASE LinkLost
  <2>1. fpga_silence' = fpga_silence /\ Shows(Disconnected)
    BY <1>1, <1>5 DEF LinkLost, handleLinkLost, Shows, applyRiskToWarningDevice,
       Disconnected, fpgaVars
  <2>2. fpga_risk' = fpga_risk
    BY <2>1 DEF Shows, applyRiskToWarningDevice, Disconnected, fpgaVars
  <2>3. QED
    BY <1>1, <2>1, <2>2 DEF fpgaVars
<1>6. CASE commitCameraSwap
  BY <1>2, <1>6 DEF commitCameraSwap, IInv, TypeOK
<1>7. CASE TimePasses
  BY <1>1, <1>7, ConstantAssumption DEF TimePasses, Older, IInv, TypeOK
<1>8. CASE onConnect \/ onDisconnect \/ DiscardStale \/ StillFresh \/ processAssignment
           \/ handleSerialError \/ (\E c \in Cameras : StopStream(c)) \/ UNCHANGED vars
  BY <1>1, <1>8 DEF onConnect, onDisconnect, DiscardStale, StillFresh, processAssignment,
     KeepActive, RefuseUnknown, AwaitFirstFrame, handleSerialError, StopStream, vars
<1> QED
  BY <1>3, <1>4, <1>5, <1>6, <1>7, <1>8 DEF Next, FirstFrame, SwapDeadlineExpires

-----------------------------------------------------------------------------
(* Theorems                                                                *)

LEMMA StepIInv == IInv /\ [Next]_vars => IInv'
  BY ShownStep, SwapStep, SilenceStep
     DEF IInv, TypeOK, ShownType, SwapType, ClockType

LEMMA Invariant == Spec => []IInv
  BY InitIInv, StepIInv, PTL DEF Spec

\* Every variable of the terminal keeps its type, and no timer exceeds
\* its length.
THEOREM TypeCorrect == Spec => []TypeOK
<1>1. IInv => TypeOK
  BY DEF IInv
<1> QED
  BY <1>1, Invariant, PTL

\* A server that goes silent is shown by the FPGA after the two timeouts and two
\* polls: evaluateWatchdog notices it before a reconnect can hide it, and from
\* then on no handler feeds the FPGA.
THEOREM SilenceIsShown == Spec => []SilenceReachesFpga
<1>1. IInv => SilenceReachesFpga
  BY ConstantAssumption
     DEF IInv, TypeOK, SilenceInv, SilenceReachesFpga, Horizon, Timers, Off, threshold
<1> QED
  BY <1>1, Invariant, PTL

\* The stream shown and the one awaited play on, and every other one that plays
\* is going to be stopped.
THEOREM StreamsKept == Spec => []StreamsAccounted
<1>1. IInv => StreamsAccounted
  BY DEF IInv, SwapInv
<1> QED
  BY <1>1, Invariant, PTL

\* A SET_RISK frame carries the newest risk of the camera on the screen.
THEOREM FrameIsShownRisk == Spec => FrameCarriesShownRisk
<1>1. ASSUME IInv, [Next]_vars, FrameSent
      PROVE  m_latestOf'[m_activeCameraId'] = FromServer(fpga_risk')
  <2>1. riskTx' = "sending" /\ fpga_risk' = m_lastRiskLevel'
    BY <1>1, FrameRepeatsLevel
  <2>2. IInv'
    BY <1>1, StepIInv
  <2>3. /\ m_activeCameraId' \in Cameras /\ m_latestOf' \in [Cameras -> Metadata]
        /\ m_latestOf'[m_activeCameraId'].exceptionState = "None"
        /\ m_latestOf'[m_activeCameraId'].risk = fpga_risk'
    BY <2>1, <2>2 DEF IInv, TypeOK, ShownInv
  <2>4. QED
    BY <2>3 DEF FromServer, Metadata
<1>2. IInv /\ [Next]_vars
        => [FrameSent => m_latestOf'[m_activeCameraId'] = FromServer(fpga_risk')]_vars
  BY <1>1
<1> QED
  BY <1>2, Invariant, PTL DEF Spec, FrameCarriesShownRisk

\* The invariants of the module together, as its run checks them.
THEOREM SafetyHolds == Spec => []Safety
<1> QED BY TypeCorrect, SilenceIsShown, StreamsKept, PTL DEF Safety

-----------------------------------------------------------------------------
(* The event path of the FPGA                                              *)

\* What each register holds; a level is one of its signal's.
LevelTypes ==
  /\ \A s \in Events!Levels : level[s] \in Events!Values(s)
  /\ level \in [Events!Levels -> 0 .. 3] /\ previous \in [Events!Levels -> 0 .. 3]
  /\ told \in [Events!Levels -> 0 .. 3]
  /\ pulses \subseteq Events!Pulses /\ event \in Events!Events

RingTypes ==
  /\ mem \in [0 .. Depth - 1 -> Events!Events]
  /\ wr_ptr \in 0 .. Depth - 1 /\ rd_ptr \in 0 .. Depth - 1 /\ count \in 0 .. Depth
  /\ seq_reg \in 0 .. SeqCount - 1 /\ overflow_sticky \in BOOLEAN
  /\ line \in Seq(Events!Events)

SenderTypes ==
  /\ period_counter \in 0 .. HeartbeatPeriod - 1 /\ heartbeat_valid \in BOOLEAN
  /\ tx_state \in {"IDLE", "SEND_BYTE", "WAIT_DONE"} /\ byte_index \in 0 .. FrameBytes - 1
  /\ fifo_pop \in BOOLEAN /\ frame.event \in Events!Events /\ tx_start \in BOOLEAN
  /\ tx_busy \in BOOLEAN /\ tx_done \in BOOLEAN /\ bits_left \in 0 .. ByteClocks - 1

\* The place of the i-th entry of the ring.
Slot(ptr, i) == IF ptr + i < Depth THEN ptr + i ELSE ptr + i - Depth

RingInv ==
  /\ count = Len(line) /\ wr_ptr = Slot(rd_ptr, count)
  /\ \A i \in 1 .. Len(line) : mem[Slot(rd_ptr, i - 1)] = line[i]

\* A pop is requested while the first byte is being sent.
PopInv == (fifo_pop => tx_state = "SEND_BYTE") /\ Events!PopTakesWhatWasSent

\* An event that waits to be pushed tells the level the detector compares with.
ToldInv ==
  /\ \A s \in Events!Levels : event.source = s => event.value = previous[s]
  /\ Events!ToldUnlessMissed

EventInv == LevelTypes /\ RingTypes /\ SenderTypes /\ RingInv /\ PopInv /\ ToldInv

LEMMA EventConstants ==
  /\ Depth \in Nat /\ Depth >= 1 /\ SeqCount \in Nat /\ SeqCount >= 1
  /\ FrameBytes \in Nat /\ FrameBytes >= 1 /\ ByteClocks \in Nat /\ ByteClocks >= 1
  /\ HeartbeatPeriod \in Nat /\ HeartbeatPeriod >= 1
  /\ EventRisks \subseteq 0 .. 3 /\ 0 \in EventRisks
  /\ Varying \subseteq Events!Pulses \cup Events!Levels
BY EventAssumption DEF Events!ConstantAssumption

LEMMA SlotIsRemainder ==
  ASSUME NEW ptr \in 0 .. Depth - 1, NEW i \in 0 .. Depth
  PROVE  (ptr + i) % Depth = Slot(ptr, i) /\ Slot(ptr, i) \in 0 .. Depth - 1
<1>1. CASE ptr + i < Depth
  BY <1>1, EventConstants DEF Slot
<1>2. CASE ptr + i >= Depth
  <2>1. (ptr + i) % Depth = ptr + i - Depth
    BY <1>2, EventConstants
  <2> QED BY <1>2, <2>1, EventConstants DEF Slot
<1> QED BY <1>1, <1>2, EventConstants

LEMMA SuccessorType ==
  ASSUME NEW m \in Nat, m >= 1, NEW x \in 0 .. m - 1
  PROVE  (x + 1) % m \in 0 .. m - 1
OBVIOUS

\* The first in the order of priority.
LEMMA SmallestExists ==
  ASSUME NEW S \in SUBSET (1 .. 11), S # {}
  PROVE  Events!Min(S) \in S
<1>1. \E x \in S : \A y \in S : x =< y
  <2>1. CASE S \cap (1 .. 4) # {}
    BY <2>1
  <2>2. CASE S \cap (1 .. 4) = {} /\ S \cap (5 .. 8) # {}
    BY <2>2
  <2>3. CASE S \cap (1 .. 4) = {} /\ S \cap (5 .. 8) = {}
    <3>1. S \subseteq 9 .. 11
      BY <2>3
    <3>2. 9 \in S \/ 10 \in S \/ 11 \in S
      <4>1. PICK x \in S : TRUE
        OBVIOUS
      <4>2. x = 9 \/ x = 10 \/ x = 11
        BY <3>1, <4>1
      <4> QED BY <4>2
    <3> QED BY <3>1, <3>2
  <2> QED BY <2>1, <2>2, <2>3
<1> QED BY <1>1 DEF Events!Min

LEMMA EventInit == Events!Init => EventInv
<1> SUFFICES ASSUME Events!Init PROVE EventInv
  OBVIOUS
<1> USE EventConstants DEF Events!Init
<1>1. LevelTypes
  BY DEF LevelTypes, Events!Levels, Events!Values, Events!Events, Events!NoEvent
<1>2. RingTypes
  <2>1. Events!NoEvent \in Events!Events
    BY DEF Events!Events
  <2>2. overflow_sticky \in BOOLEAN
    BY Zenon
  <2>3. line \in Seq(Events!Events)
    BY DEF Events!Init
  <2> QED BY <2>1, <2>2, <2>3 DEF RingTypes
<1>3. SenderTypes
  <2>1. frame.event \in Events!Events
    BY DEF Events!Events
  <2>2. heartbeat_valid \in BOOLEAN /\ fifo_pop \in BOOLEAN /\ tx_start \in BOOLEAN
        /\ tx_busy \in BOOLEAN /\ tx_done \in BOOLEAN
    BY Zenon
  <2> QED BY <2>1, <2>2 DEF SenderTypes
<1>4. RingInv
  BY DEF RingInv, Slot
<1>5. PopInv /\ ToldInv
  BY DEF PopInv, ToldInv, Events!PopTakesWhatWasSent, Events!ToldUnlessMissed, Events!NoEvent,
         Events!Levels
<1> QED BY <1>1, <1>2, <1>3, <1>4, <1>5 DEF EventInv

\* event_detector: at most one event, of the signal that is compared anew.
LEMMA DetectorFacts ==
  ASSUME LevelTypes, Events!EventDetector
  PROVE  /\ event' \in Events!Events /\ previous' \in [Events!Levels -> 0 .. 3]
         /\ \A s \in Events!Levels :
              /\ event'.source = s => event'.value = previous'[s]
              /\ event'.source # s => previous'[s] = previous[s]
<1> DEFINE waiting == {i \in DOMAIN Events!Priority : Events!Requested(Events!Priority[i])}
           winner == IF waiting = {} THEN "none" ELSE Events!Priority[Events!Min(waiting)]
<1>1. /\ event' = CASE winner = "none" -> Events!NoEvent
                     [] winner \in Events!Pulses -> [source |-> winner, value |-> 0]
                     [] OTHER -> [source |-> winner, value |-> level[winner]]
      /\ previous' = [s \in Events!Levels |-> IF s = winner THEN level[s] ELSE previous[s]]
  BY DEF Events!EventDetector, Events!RecordTold
<1>2. winner \in {"none"} \cup Events!Pulses \cup Events!Levels
  <2>1. waiting \in SUBSET (1 .. 11)
    BY DEF Events!Priority
  <2>2. waiting # {} => Events!Min(waiting) \in 1 .. 11
    BY <2>1, SmallestExists
  <2>3. \A i \in 1 .. 11 : Events!Priority[i] \in Events!Pulses \cup Events!Levels
    BY DEF Events!Priority, Events!Pulses, Events!Levels
  <2> QED BY <2>2, <2>3
<1> HIDE DEF winner
<1>3. Events!Pulses \cap Events!Levels = {} /\ "none" \notin Events!Levels \cup Events!Pulses
  BY DEF Events!Pulses, Events!Levels
<1>4. CASE winner = "none"
  BY <1>1, <1>3, <1>4 DEF LevelTypes, Events!NoEvent, Events!Events
<1>5. CASE winner \in Events!Pulses
  BY <1>1, <1>3, <1>5 DEF LevelTypes, Events!Events
<1>6. CASE winner \in Events!Levels
  <2>1. event' = [source |-> winner, value |-> level[winner]]
    BY <1>1, <1>3, <1>6
  <2>2. event' \in Events!Events
    BY <1>6, <2>1 DEF LevelTypes, Events!Events
  <2> QED BY <1>1, <1>6, <2>1, <2>2 DEF LevelTypes
<1> QED BY <1>2, <1>4, <1>5, <1>6

LEMMA SlotNext ==
  ASSUME NEW ptr \in 0 .. Depth - 1, NEW i \in 0 .. Depth - 1
  PROVE  /\ Slot(Slot(ptr, i), 1) = Slot(ptr, i + 1) /\ Slot(Slot(ptr, 1), i) = Slot(ptr, i + 1)
         /\ \A j \in 0 .. Depth - 1 : Slot(ptr, i) = Slot(ptr, j) => i = j
BY EventConstants DEF Slot

LEMMA LongerFacts ==
  ASSUME NEW S, NEW q \in Seq(S), NEW x \in S
  PROVE  /\ Len(q \o <<x>>) = Len(q) + 1 /\ q \o <<x>> \in Seq(S) /\ q \o <<x>> # <<>>
         /\ \A i \in 1 .. Len(q) : (q \o <<x>>)[i] = q[i]
         /\ (q \o <<x>>)[Len(q) + 1] = x
OBVIOUS

\* event_tx_fifo: push, pop, both or neither.
LEMMA FifoFacts ==
  ASSUME LevelTypes, RingTypes, RingInv, SenderTypes, Events!EventTxFifo,
         line' = (IF Events!do_pop /\ line # <<>> THEN Tail(line) ELSE line)
                   \o (IF Events!do_push THEN <<Events!pushed>> ELSE <<>>)
  PROVE  /\ RingTypes' /\ RingInv'
         /\ Events!do_pop => line # <<>>
         /\ ~Events!do_pop /\ line # <<>> => line' # <<>> /\ line'[1] = line[1]
<1> USE EventConstants
<1> DEFINE Es == Events!Events
           kept == IF Events!do_pop THEN Tail(line) ELSE line
           head == IF Events!do_pop THEN Slot(rd_ptr, 1) ELSE rd_ptr
           held == Len(kept)
<1>1. line \in Seq(Es) /\ count = Len(line) /\ count \in 0 .. Depth /\ rd_ptr \in 0 .. Depth - 1
      /\ wr_ptr \in 0 .. Depth - 1 /\ wr_ptr = Slot(rd_ptr, count) /\ mem \in [0 .. Depth - 1 -> Es]
  BY DEF RingTypes, RingInv
<1>2. Events!pushed \in Es
  BY DEF Events!pushed, Events!Heartbeat, Events!Events, LevelTypes
<1> HIDE DEF Es
<1>3. Events!do_pop => line # <<>>
  BY <1>1 DEF Events!do_pop
<1>4. /\ kept \in Seq(Es) /\ held = (IF Events!do_pop THEN count - 1 ELSE count)
      /\ held \in 0 .. Depth
  BY <1>1, <1>3 DEF Events!do_pop
<1>5. head \in 0 .. Depth - 1 /\ wr_ptr = Slot(head, held)
  <2>1. CASE Events!do_pop
    <3>1. count - 1 \in 0 .. Depth - 1 /\ held = count - 1
      BY <1>1, <1>4, <2>1 DEF Events!do_pop
    <3>2. Slot(Slot(rd_ptr, 1), count - 1) = Slot(rd_ptr, (count - 1) + 1)
      BY <1>1, <3>1, SlotNext
    <3>3. Slot(rd_ptr, 1) \in 0 .. Depth - 1
      BY <1>1, SlotIsRemainder
    <3> QED BY <1>1, <2>1, <3>1, <3>2, <3>3
  <2>2. CASE ~Events!do_pop
    BY <1>1, <1>4, <2>2
  <2> QED BY <2>1, <2>2
<1>6. \A i \in 1 .. held : mem[Slot(head, i - 1)] = kept[i]
  <2>1. CASE Events!do_pop
    <3> SUFFICES ASSUME NEW i \in 1 .. held
                 PROVE  mem[Slot(head, i - 1)] = kept[i]
      OBVIOUS
    <3>1. held = count - 1 /\ i - 1 \in 0 .. Depth - 1 /\ i + 1 \in 1 .. Len(line)
      BY <1>1, <1>4, <2>1
    <3>2. Slot(head, i - 1) = Slot(rd_ptr, (i - 1) + 1)
      BY <1>1, <2>1, <3>1, SlotNext
    <3>3. kept[i] = line[i + 1]
      BY <1>1, <1>3, <2>1, <3>1
    <3>4. mem[Slot(rd_ptr, (i + 1) - 1)] = line[i + 1]
      BY <3>1 DEF RingInv
    <3>5. (i + 1) - 1 = (i - 1) + 1
      BY <3>1
    <3> QED BY <3>2, <3>3, <3>4, <3>5
  <2>2. CASE ~Events!do_pop
    BY <2>2 DEF RingInv
  <2> QED BY <2>1, <2>2
<1>7. rd_ptr' = head
  BY <1>1, SlotIsRemainder DEF Events!EventTxFifo
<1>8. seq_reg' \in 0 .. SeqCount - 1
  BY SuccessorType DEF RingTypes, Events!EventTxFifo
<1>9. overflow_sticky' \in BOOLEAN
  BY Zenon DEF Events!EventTxFifo
<1>10. line' = kept \o (IF Events!do_push THEN <<Events!pushed>> ELSE <<>>)
  BY <1>3
<1>11. CASE Events!do_push
  <2>1. held < Depth
    BY <1>1, <1>4, <1>11 DEF Events!do_push, Events!fifo_full
  <2>2. mem' = [mem EXCEPT ![wr_ptr] = Events!pushed] /\ wr_ptr' = (wr_ptr + 1) % Depth
    BY <1>11 DEF Events!EventTxFifo
  <2>3. line' = kept \o <<Events!pushed>>
    BY <1>10, <1>11
  <2> HIDE DEF kept, head
  <2>4. /\ Len(line') = held + 1 /\ line' \in Seq(Es) /\ line' # <<>>
        /\ \A i \in 1 .. held : line'[i] = kept[i]
        /\ line'[held + 1] = Events!pushed
    <3>1. kept \in Seq(Es) /\ Events!pushed \in Es
      BY <1>2, <1>4 DEF Es
    <3> DEFINE longer == kept \o <<Events!pushed>>
    <3>2. /\ Len(longer) = held + 1 /\ longer \in Seq(Es) /\ longer # <<>>
          /\ \A i \in 1 .. held : longer[i] = kept[i]
          /\ longer[held + 1] = Events!pushed
      BY <3>1, LongerFacts
    <3> QED BY Zenon, <2>3, <3>2
  <2>5. wr_ptr' = Slot(head, held + 1) /\ wr_ptr' \in 0 .. Depth - 1
    <3>1. (wr_ptr + 1) % Depth = Slot(wr_ptr, 1) /\ Slot(wr_ptr, 1) \in 0 .. Depth - 1
      <4>1. 1 \in 0 .. Depth /\ wr_ptr \in 0 .. Depth - 1
        BY <1>1
      <4> QED BY <4>1, SlotIsRemainder
    <3>2. Slot(Slot(head, held), 1) = Slot(head, held + 1)
      BY <1>4, <1>5, <2>1, SlotNext
    <3> QED BY <1>5, <2>2, <3>1, <3>2
  <2>6. count' = held + 1
    BY <1>1, <1>4, <1>11 DEF Events!EventTxFifo, Events!CountEntries
  <2>7. mem' \in [0 .. Depth - 1 -> Es]
    BY <1>1, <1>2, <2>2
  <2>8. ASSUME NEW i \in 1 .. held + 1
        PROVE  mem'[Slot(head, i - 1)] = line'[i]
    <3>1. i - 1 \in 0 .. Depth - 1 /\ held \in 0 .. Depth - 1
      BY <1>4, <2>1
    <3>2. CASE i = held + 1
      <4>1. Slot(head, i - 1) = wr_ptr
        BY <1>4, <1>5, <3>2
      <4> QED BY <1>1, <2>2, <2>4, <3>2, <4>1
    <3>3. CASE i # held + 1
      <4>1. i \in 1 .. held /\ i - 1 # held
        BY <1>4, <3>3
      <4>2. Slot(head, i - 1) # wr_ptr /\ Slot(head, i - 1) \in 0 .. Depth - 1
        <5>1. head \in 0 .. Depth - 1 /\ wr_ptr = Slot(head, held) /\ i - 1 \in 0 .. Depth
          BY <1>5, <3>1
        <5>2. Slot(head, i - 1) \in 0 .. Depth - 1
          BY <5>1, SlotIsRemainder
        <5>3. Slot(head, i - 1) = Slot(head, held) => i - 1 = held
          BY <3>1, <5>1, SlotNext
        <5> QED BY <4>1, <5>1, <5>2, <5>3
      <4> QED BY <1>1, <1>6, <2>2, <2>4, <4>1, <4>2
    <3> QED BY <3>2, <3>3
  <2>9. RingInv'
    BY <1>7, <2>4, <2>5, <2>6, <2>8 DEF RingInv
  <2>10. RingTypes'
    BY <1>4, <1>5, <1>7, <1>8, <1>9, <2>1, <2>4, <2>5, <2>6, <2>7 DEF RingTypes, Es
  <2>11. ~Events!do_pop /\ line # <<>> => line' # <<>> /\ line'[1] = line[1]
    BY <1>1, <1>4, <2>4 DEF kept
  <2> QED BY <1>3, <2>9, <2>10, <2>11
<1>12. CASE ~Events!do_push
  <2>1. line' = kept
    BY <1>4, <1>10, <1>12
  <2>2. mem' = mem /\ wr_ptr' = wr_ptr
    BY <1>12 DEF Events!EventTxFifo
  <2>3. count' = held
    BY <1>1, <1>4, <1>12 DEF Events!EventTxFifo, Events!CountEntries
  <2>4. ~Events!do_pop /\ line # <<>> => line' # <<>> /\ line'[1] = line[1]
    BY <2>1
  <2> HIDE DEF kept, head
  <2>5. RingInv'
    BY <1>5, <1>6, <1>7, <2>1, <2>2, <2>3 DEF RingInv
  <2>6. RingTypes'
    BY <1>1, <1>4, <1>5, <1>7, <1>8, <1>9, <2>1, <2>2, <2>3 DEF RingTypes, Es
  <2> QED BY <1>3, <2>4, <2>5, <2>6
<1> QED BY <1>11, <1>12

LEMMA EventFacts ==
  ASSUME NEW e \in Events!Events
  PROVE  e.source \in Events!Levels => e.value \in Events!Values(e.source) /\ e.value \in 0 .. 3
<1>1. CASE e \in {Events!NoEvent, Events!Heartbeat}
  BY <1>1 DEF Events!NoEvent, Events!Heartbeat, Events!Levels
<1>2. CASE e \in [source : Events!Pulses, value : {0}]
  BY <1>2 DEF Events!Pulses, Events!Levels
<1>3. CASE e \in UNION {[source : {s}, value : Events!Values(s)] : s \in Events!Levels}
  <2>1. PICK s \in Events!Levels : e \in [source : {s}, value : Events!Values(s)]
    BY <1>3
  <2>2. e.source = s /\ e.value \in Events!Values(s)
    BY <2>1
  <2>3. Events!Values(s) \subseteq 0 .. 3
    BY EventConstants DEF Events!Values
  <2> QED BY <2>2, <2>3
<1> QED BY <1>1, <1>2, <1>3 DEF Events!Events

LEMMA SenderTypesHold ==
  ASSUME RingTypes, SenderTypes, Events!HeartbeatGen, Events!EventUartTx, Events!UartTx
  PROVE  SenderTypes'
<1> USE EventConstants DEF SenderTypes
<1>1. period_counter' \in 0 .. HeartbeatPeriod - 1
  <2>1. CASE period_counter >= HeartbeatPeriod - 1
    <3>1. heartbeat_valid' = (period_counter >= HeartbeatPeriod - 1)
      BY DEF Events!HeartbeatGen
    <3>2. period_counter' = 0
      BY Zenon, <2>1, <3>1 DEF Events!HeartbeatGen
    <3> QED BY <3>2
  <2>2. CASE ~(period_counter >= HeartbeatPeriod - 1)
    BY <2>2 DEF Events!HeartbeatGen
  <2> QED BY <2>1, <2>2
<1>2. heartbeat_valid' \in BOOLEAN /\ fifo_pop' \in BOOLEAN /\ tx_start' \in BOOLEAN
  <2>1. heartbeat_valid' = (period_counter >= HeartbeatPeriod - 1)
    BY DEF Events!HeartbeatGen
  <2>2. /\ fifo_pop' = (tx_state = "IDLE" /\ count > 0)
        /\ tx_start' = (tx_state = "SEND_BYTE" /\ ~tx_busy)
    BY DEF Events!EventUartTx, Events!PopRequest, Events!Snapshots
  <2>3. \A x, y : (x /\ y) \in BOOLEAN
    BY Zenon
  <2>4. (period_counter >= HeartbeatPeriod - 1) \in BOOLEAN
    OBVIOUS
  <2> QED BY Zenon, <2>1, <2>2, <2>3, <2>4
<1>3. tx_state' \in {"IDLE", "SEND_BYTE", "WAIT_DONE"} /\ byte_index' \in 0 .. FrameBytes - 1
  BY DEF Events!EventUartTx, Events!LastByte
<1>4. frame'.event \in Events!Events
  <2>1. CASE Events!Snapshots
    <3>1. frame'.event = mem[rd_ptr]
      BY <2>1 DEF Events!EventUartTx
    <3> QED BY <3>1 DEF RingTypes
  <2>2. CASE ~Events!Snapshots
    BY <2>2 DEF Events!EventUartTx
  <2> QED BY <2>1, <2>2
<1>5. bits_left' \in 0 .. ByteClocks - 1
  BY DEF Events!UartTx
<1>6. tx_busy' \in BOOLEAN /\ tx_done' \in BOOLEAN
  <2>1. CASE ~tx_busy
    <3>1. tx_busy' = tx_start /\ tx_done' = FALSE
      BY <2>1 DEF Events!UartTx
    <3> QED BY Zenon, <3>1
  <2>2. CASE tx_busy
    <3>1. tx_busy' = (bits_left > 0) /\ tx_done' = (bits_left = 0)
      BY <2>2 DEF Events!UartTx
    <3>2. (bits_left > 0) \in BOOLEAN /\ (bits_left = 0) \in BOOLEAN
      OBVIOUS
    <3> QED BY Zenon, <3>1, <3>2
  <2> QED BY Zenon, <2>1, <2>2
<1> QED BY <1>1, <1>2, <1>3, <1>4, <1>5, <1>6

\* What is popped one clock later is what the frame was filled with.
LEMMA PopHolds ==
  ASSUME EventInv, Events!EventTxFifo, Events!EventUartTx,
         ~Events!do_pop /\ line # <<>> => line' # <<>> /\ line'[1] = line[1],
         line' \in Seq(Events!Events)
  PROVE  PopInv'
<1>1. fifo_pop' = (tx_state = "IDLE" /\ count > 0)
  BY DEF Events!EventUartTx, Events!PopRequest, Events!Snapshots
<1>2. CASE tx_state = "IDLE" /\ count > 0
  <2>1. ~Events!do_pop /\ Events!Snapshots
    BY <1>2 DEF EventInv, PopInv, Events!do_pop, Events!Snapshots
  <2>2. tx_state' = "SEND_BYTE" /\ frame'.event = mem[rd_ptr] /\ frame'.seq = seq_reg
    BY <1>2, <2>1 DEF Events!EventUartTx, Events!Snapshots
  <2>3. seq_reg' = seq_reg
    BY <2>1 DEF Events!EventTxFifo, Events!SeqCounts
  <2>4. Len(line) > 0 /\ line # <<>> /\ line \in Seq(Events!Events)
    BY <1>2 DEF EventInv, RingInv, RingTypes
  <2>5. mem[rd_ptr] = line[1]
    <3>1. Slot(rd_ptr, 1 - 1) = rd_ptr
      BY EventConstants DEF EventInv, RingTypes, Slot
    <3>2. 1 \in 1 .. Len(line)
      BY <2>4
    <3> QED BY <3>1, <3>2 DEF EventInv, RingInv
  <2>6. Head(line') = line'[1] /\ line' # <<>> /\ line'[1] = line[1]
    BY <2>1, <2>4
  <2>7. frame'.event = Head(line') /\ frame'.seq = seq_reg'
    BY <2>2, <2>3, <2>5, <2>6
  <2> QED BY Zenon, <2>2, <2>6, <2>7 DEF PopInv, Events!PopTakesWhatWasSent
<1>3. CASE ~(tx_state = "IDLE" /\ count > 0)
  BY <1>1, <1>3 DEF PopInv, Events!PopTakesWhatWasSent
<1> QED BY <1>2, <1>3

LEMMA ToldHolds ==
  ASSUME LevelTypes, ToldInv, Events!EventDetector, Events!Observe
  PROVE  ToldInv' /\ told' \in [Events!Levels -> 0 .. 3]
<1>1. /\ event' \in Events!Events /\ previous' \in [Events!Levels -> 0 .. 3]
      /\ \A s \in Events!Levels :
              /\ event'.source = s => event'.value = previous'[s]
              /\ event'.source # s => previous'[s] = previous[s]
  BY DetectorFacts
<1> DEFINE accepted == Events!do_push /\ Events!pushed.source \in Events!Levels
           dropped == Events!push_valid /\ ~Events!do_push
<1>2. /\ told' = IF accepted THEN [told EXCEPT ![Events!pushed.source] = Events!pushed.value]
                  ELSE told
      /\ missed' = CASE accepted -> missed \ {Events!pushed.source}
                     [] dropped -> missed \cup ({Events!pushed.source} \cap Events!Levels)
                     [] OTHER -> missed
  BY DEF Events!Observe
<1>3. Events!pushed \in Events!Events
  BY DEF Events!pushed, Events!Heartbeat, Events!Events, LevelTypes
<1>4. told' \in [Events!Levels -> 0 .. 3]
  BY <1>2, <1>3, EventFacts DEF LevelTypes
<1>5. ASSUME NEW s \in Events!Levels, s \notin missed', event'.source # s
      PROVE  told'[s] = previous'[s]
  <2>1. previous'[s] = previous[s]
    BY <1>1, <1>5
  <2>2. CASE event.source = s
    <3>1. event # Events!NoEvent /\ Events!pushed = event /\ Events!push_valid
      BY <2>2 DEF Events!NoEvent, Events!pushed, Events!push_valid, Events!Levels
    <3>2. Events!do_push
      BY <1>2, <1>5, <2>2, <3>1
    <3>3. told'[s] = event.value
      BY <1>2, <2>2, <3>1, <3>2 DEF LevelTypes
    <3> QED BY <2>1, <2>2, <3>3 DEF ToldInv
  <2>3. CASE event.source # s
    <3>1. Events!pushed.source # s
      BY <2>3 DEF Events!pushed, Events!Heartbeat, Events!Levels
    <3>2. s \notin missed /\ told'[s] = told[s]
      BY <1>2, <1>5, <3>1 DEF LevelTypes
    <3> QED BY <2>1, <2>3, <3>2 DEF ToldInv, Events!ToldUnlessMissed
  <2> QED BY <2>2, <2>3
<1>6. Events!ToldUnlessMissed'
  BY <1>5 DEF Events!ToldUnlessMissed
<1> QED BY <1>1, <1>4, <1>6 DEF ToldInv

LEMMA EventStep == EventInv /\ [Events!Next]_(Events!vars) => EventInv'
<1> SUFFICES ASSUME EventInv, [Events!Next]_(Events!vars)
             PROVE  EventInv'
  OBVIOUS
<1> USE DEF EventInv
<1>1. CASE Events!Next
  <2>1. PICK lv \in [Events!Levels \cap Varying -> 0 .. 3], ps \in SUBSET (Events!Pulses \cap Varying) :
          /\ \A s \in DOMAIN lv : lv[s] \in Events!Values(s)
          /\ Events!Clock([s \in Events!Levels |-> IF s \in Varying THEN lv[s] ELSE level[s]], ps)
    BY <1>1 DEF Events!Next
  <2>2. /\ level' = [s \in Events!Levels |-> IF s \in Varying THEN lv[s] ELSE level[s]]
        /\ pulses' = ps
        /\ Events!EventDetector /\ Events!HeartbeatGen /\ Events!EventTxFifo
        /\ Events!EventUartTx /\ Events!UartTx /\ Events!Observe
    BY <2>1 DEF Events!Clock
  <2>3. line' = (IF Events!do_pop /\ line # <<>> THEN Tail(line) ELSE line)
                  \o (IF Events!do_push THEN <<Events!pushed>> ELSE <<>>)
    BY <2>2 DEF Events!Observe
  <2>4. RingTypes' /\ RingInv' /\ (~Events!do_pop /\ line # <<>> => line' # <<>> /\ line'[1] = line[1])
    BY <2>2, <2>3, FifoFacts
  <2>5. SenderTypes'
    BY <2>2, SenderTypesHold
  <2>6. line' \in Seq(Events!Events)
    BY <2>4 DEF RingTypes
  <2>7. PopInv'
    BY <2>2, <2>4, <2>6, PopHolds
  <2>8. ToldInv' /\ told' \in [Events!Levels -> 0 .. 3]
    BY <2>2, ToldHolds
  <2>9. event' \in Events!Events /\ previous' \in [Events!Levels -> 0 .. 3]
    BY <2>2, DetectorFacts
  <2>10. level' \in [Events!Levels -> 0 .. 3] /\ \A s \in Events!Levels : level'[s] \in Events!Values(s)
    BY <2>1, <2>2 DEF LevelTypes
  <2>11. pulses' \subseteq Events!Pulses
    BY <2>2
  <2>12. LevelTypes'
    BY <2>8, <2>9, <2>10, <2>11 DEF LevelTypes
  <2> QED BY <2>4, <2>5, <2>7, <2>8, <2>12
<1>2. CASE UNCHANGED Events!vars
  <2>1. UNCHANGED <<level, pulses, previous, event, period_counter, heartbeat_valid, mem, wr_ptr,
                    rd_ptr, count, seq_reg, overflow_sticky, tx_state, byte_index, fifo_pop, frame,
                    tx_start, tx_busy, tx_done, bits_left, line, told, missed, lost, last_seq>>
    BY <1>2 DEF Events!vars, Events!inputVars, Events!detectorVars, Events!heartbeatVars,
       Events!fifoVars, Events!frameVars, Events!uartVars, Events!historyVars
  <2>2. LevelTypes' /\ RingInv'
    BY Zenon, <2>1 DEF LevelTypes, RingInv
  <2>3. RingTypes' /\ SenderTypes'
    BY Zenon, <2>1 DEF RingTypes, SenderTypes
  <2>4. PopInv' /\ ToldInv'
    BY Zenon, <2>1 DEF PopInv, ToldInv, Events!PopTakesWhatWasSent, Events!ToldUnlessMissed
  <2> QED BY <2>2, <2>3, <2>4
<1> QED BY <1>1, <1>2

LEMMA EventConclusion == EventInv => Events!Safety
<1> SUFFICES ASSUME EventInv PROVE Events!Safety
  OBVIOUS
<1> USE DEF EventInv
<1>1. Events!TypeOK
  BY DEF LevelTypes, RingTypes, SenderTypes, Events!TypeOK
<1>2. Events!RingHoldsLine
  <2> SUFFICES ASSUME NEW i \in 1 .. Len(line)
               PROVE  mem[(rd_ptr + i - 1) % Depth] = line[i]
    BY DEF Events!RingHoldsLine, RingInv, RingTypes
  <2>1. rd_ptr \in 0 .. Depth - 1 /\ i - 1 \in 0 .. Depth /\ rd_ptr + i - 1 = rd_ptr + (i - 1)
    BY EventConstants DEF RingTypes, RingInv
  <2>2. (rd_ptr + (i - 1)) % Depth = Slot(rd_ptr, i - 1)
    BY <2>1, SlotIsRemainder
  <2> QED BY <2>1, <2>2 DEF RingInv
<1> QED BY <1>1, <1>2 DEF PopInv, ToldInv, Events!Safety

\* The queue's ring holds the line, a pop takes what was sent, and a change is
\* told unless the queue dropped it (event_tx_fifo.v, event_detector.v).
THEOREM EventSafetyHolds == MCSpec => []EventSafety
<1>1. MCInit => EventInv
  BY EventInit DEF MCInit
<1>2. EventInv /\ [Operates \/ Tells \/ Ranges]_allVars => EventInv'
  <2> SUFFICES ASSUME EventInv, [Operates \/ Tells \/ Ranges]_allVars PROVE EventInv'
    OBVIOUS
  <2>1. [Events!Next]_(Events!vars)
    BY DEF Operates, Tells, Ranges, allVars, eventVars, Events!vars, Events!inputVars,
           Events!detectorVars, Events!heartbeatVars, Events!fifoVars, Events!frameVars,
           Events!uartVars, Events!historyVars
  <2> QED BY <2>1, EventStep
<1>3. EventInv => EventSafety
  BY EventConclusion DEF EventSafety
<1> QED BY <1>1, <1>2, <1>3, PTL DEF MCSpec

-----------------------------------------------------------------------------
(* The distance sensor's driver                                            *)

\* What the registrations have come to.
LoadInv ==
  /\ stage \in -2 .. 8
  /\ stage \in 1 .. 8 => registered \subseteq {Driver!Order[j] : j \in 1 .. stage - 1}
  /\ stage = 2 => registered = {"region"}
  /\ stage = Driver!Failed => registered = {}
  /\ stage = Driver!Oopsed => registered = {"region"}
  /\ stage = Driver!Unloaded => registered \subseteq {"adapter"}
  /\ stage \in 1 .. 7 => ~client

ReaderTypes ==
  /\ pc \in [Readers -> {"closed", "open", "oops", "wait", "status", "range", "clear", "stop"}]
  /\ ret \in [Readers -> Int] /\ began \in [Readers -> Int]
  /\ ranged \in Nat /\ faults \in Nat /\ stale \in Nat
  /\ \A r \in Readers : ret[r] \in -1 .. ranged /\ began[r] \in 0 .. ranged
  /\ \A r \in Readers : Driver!Measuring(r) => client

\* While no two readers measured at once: one measures at a time, and what its
\* place says of the sensor.
TurnInv ==
  ~overlapped =>
  /\ \A q, r \in Readers : Driver!Measuring(q) /\ Driver!Measuring(r) => q = r
  /\ \A r \in Readers : pc[r] \in {"status", "range", "clear"} => ready

\* A ranging that no read began with waits, or will, to be taken for one's own.
Owes(r) ==
  ready /\ (pc[r] = "stop" \/ (pc[r] \in {"wait", "status", "range"} /\ began[r] = ranged))

Owed ==
  \/ \E r \in Readers : Owes(r)
  \/ (ready \/ ranging) /\ \A r \in Readers : ~Driver!Measuring(r)

DebtInv == ~overlapped => stale <= faults /\ (Owed => stale + 1 <= faults)

DriverInv == LoadInv /\ ReaderTypes /\ TurnInv /\ DebtInv

LEMMA DriverConstants == MaxRanged \in Nat /\ MaxFaults \in Nat
BY DriverAssumption DEF Driver!ConstantAssumption

LEMMA DriverInit == Driver!Init => DriverInv
<1> SUFFICES ASSUME Driver!Init PROVE DriverInv
  OBVIOUS
<1> USE DEF Driver!Init
<1>1. LoadInv
  BY DEF LoadInv, Driver!Failed, Driver!Unloaded, Driver!Oopsed
<1>2. ReaderTypes /\ TurnInv
  BY DEF ReaderTypes, TurnInv, Driver!Measuring
<1>3. DebtInv
  BY DEF DebtInv, Owed, Owes, Driver!Measuring
<1> QED BY <1>1, <1>2, <1>3 DEF DriverInv

LEMMA RegisterLoads ==
  ASSUME DriverInv, NEW i \in 1 .. 7, Driver!Register(i)
  PROVE  LoadInv'
<1> USE DEF DriverInv, LoadInv, Driver!Failed, Driver!Unloaded, Driver!Oopsed
<1>1. /\ stage = i /\ i < 7 /\ client' = client /\ ~client
      /\ registered \subseteq {Driver!Order[j] : j \in 1 .. i - 1}
      /\ i = 2 => registered = {"region"}
  BY DEF Driver!Register, Driver!Order
<1>2. CASE registered' = registered \cup {Driver!Order[i]} /\ stage' = i + 1
  <2>1. 1 .. (i + 1) - 1 = (1 .. i - 1) \cup {i}
    OBVIOUS
  <2>2. registered' \subseteq {Driver!Order[j] : j \in 1 .. (i + 1) - 1}
    BY <1>1, <1>2, <2>1
  <2>3. i = 1 => registered' = {"region"}
    BY <1>1, <1>2 DEF Driver!Order
  <2> QED BY <1>1, <1>2, <2>2, <2>3
<1>3. CASE Driver!Order[i] \in Driver!Unnoticed /\ registered' = registered /\ stage' = i + 1
  <2>1. i # 1
    BY <1>3 DEF Driver!Order, Driver!Unnoticed
  <2>2. registered' \subseteq {Driver!Order[j] : j \in 1 .. (i + 1) - 1}
    BY <1>1, <1>3
  <2> QED BY <1>1, <1>3, <2>1, <2>2
<1>4. CASE Driver!Order[i] = "class" /\ registered' = registered /\ stage' = Driver!Oopsed
  <2>1. i = 2
    <3>1. i = 1 \/ i = 2 \/ i = 3 \/ i = 4 \/ i = 5 \/ i = 6
      BY <1>1
    <3> QED BY <1>4, <3>1 DEF Driver!Order
  <2> QED BY <1>1, <1>4, <2>1
<1>5. CASE /\ Driver!Order[i] \in {"region", "adapter"}
           /\ registered' = registered \ Driver!Undone(Driver!Order[i])
           /\ stage' = Driver!Failed
  <2>1. registered' = {}
    <3>1. i = 1 \/ i = 5
      <4>1. i = 1 \/ i = 2 \/ i = 3 \/ i = 4 \/ i = 5 \/ i = 6
        BY <1>1
      <4> QED BY <1>5, <4>1 DEF Driver!Order
    <3>2. \A j \in 1 .. i - 1 : Driver!Order[j] \in Driver!Undone(Driver!Order[i])
      <4>1. CASE i = 1
        BY <4>1
      <4>2. CASE i = 5
        <5>1. \A j \in 1 .. i - 1 : j = 1 \/ j = 2 \/ j = 3 \/ j = 4
          BY <4>2
        <5> QED BY <4>2, <5>1 DEF Driver!Order, Driver!Undone, Driver!err_cdev
      <4> QED BY <3>1, <4>1, <4>2
    <3> QED BY <1>1, <1>5, <3>2
  <2> QED BY <1>1, <1>5, <2>1
<1> QED BY <1>2, <1>3, <1>4, <1>5 DEF Driver!Register

\* An action that leaves the readers and the sensor alone.
LEMMA SensorStands ==
  ASSUME DriverInv, UNCHANGED <<pc, ret, began, stale, overlapped, ready, ranging, ranged>>,
         faults' \in Nat, faults' >= faults, client => client'
  PROVE  ReaderTypes' /\ TurnInv' /\ DebtInv'
<1> USE DEF DriverInv
<1>1. \A r \in Readers : Driver!Measuring(r)' = Driver!Measuring(r) /\ Owes(r)' = Owes(r)
  BY Zenon DEF Driver!Measuring, Owes
<1>2. Owed' = Owed
  BY Zenon, <1>1 DEF Owed
<1>3. ReaderTypes'
  BY <1>1 DEF ReaderTypes
<1>4. TurnInv'
  BY Zenon, <1>1 DEF TurnInv
<1>5. DebtInv'
  <2>1. stale \in Nat /\ faults \in Nat
    BY DEF ReaderTypes
  <2> QED BY <1>2, <2>1 DEF DebtInv
<1> QED BY <1>3, <1>4, <1>5

LEMMA AddDriverInv == ASSUME DriverInv, Driver!AddDriver PROVE DriverInv'
<1> USE DriverConstants DEF DriverInv
<1>1. stage = 7 /\ ~client /\ UNCHANGED <<pc, ret, began, stale, overlapped>>
  BY DEF Driver!AddDriver, Driver!readerVars, Driver!Order, LoadInv
<1>2. \A r \in Readers : ~Driver!Measuring(r) /\ ~Driver!Measuring(r)'
  BY <1>1 DEF ReaderTypes, Driver!Measuring
<1>3. faults' \in Nat /\ (faults' = faults \/ faults' = faults + 1)
  BY DEF Driver!AddDriver, Driver!Works, Driver!Fails, ReaderTypes
<1>4. LoadInv'
  <2>1. CASE registered' = registered \cup {"driver"} /\ stage' = Driver!Loaded
    <3>1. 1 .. 8 - 1 = (1 .. 7 - 1) \cup {7} /\ Driver!Order[7] = "driver" /\ Driver!Loaded = 8
      BY DEF Driver!Order, Driver!Loaded
    <3> QED BY <1>1, <2>1, <3>1 DEF LoadInv, Driver!Failed, Driver!Unloaded, Driver!Oopsed
  <2>2. CASE registered' = registered \ Driver!Undone("driver") /\ stage' = Driver!Failed
    <3>1. \A j \in 1 .. 7 - 1 : Driver!Order[j] \in Driver!Undone("driver")
      <4>1. \A j \in 1 .. 7 - 1 : j = 1 \/ j = 2 \/ j = 3 \/ j = 4 \/ j = 5 \/ j = 6
        OBVIOUS
      <4> QED BY <4>1 DEF Driver!Order, Driver!Undone, Driver!err_cdev
    <3>2. registered' = {}
      BY <1>1, <2>2, <3>1 DEF LoadInv
    <3> QED BY <2>2, <3>2 DEF LoadInv, Driver!Failed, Driver!Unloaded, Driver!Oopsed
  <2> QED BY <1>1, <2>1, <2>2 DEF Driver!AddDriver
<1>5. ReaderTypes'
  <2>1. ranged' = ranged
    BY DEF Driver!AddDriver, Driver!sensorVars
  <2> QED BY <1>1, <1>2, <1>3, <2>1 DEF ReaderTypes
<1>6. TurnInv'
  <2>1. \A r \in Readers : pc'[r] \notin {"status", "range", "clear"}
    BY <1>2 DEF Driver!Measuring
  <2> QED BY <1>2, <2>1 DEF TurnInv
<1>7. DebtInv'
  <2>1. stale' = stale /\ overlapped' = overlapped /\ stale \in Nat /\ faults \in Nat
    BY <1>1 DEF ReaderTypes
  <2>2. CASE faults' = faults + 1
    BY <2>1, <2>2 DEF DebtInv
  <2>3. CASE faults' = faults
    <3>1. ready' = ready /\ ranging' = ranging
      BY <2>3 DEF Driver!AddDriver, Driver!Fails, Driver!sensorVars, ReaderTypes
    <3>2. Owed' => Owed
      BY <1>2, <3>1 DEF Owed, Owes, Driver!Measuring
    <3> QED BY <2>1, <2>3, <3>2 DEF DebtInv
  <2> QED BY <1>3, <2>2, <2>3
<1> QED BY <1>4, <1>5, <1>6, <1>7

LEMMA RangeInv == ASSUME DriverInv, Driver!Range PROVE DriverInv'
<1> USE DriverConstants DEF DriverInv
<1>1. /\ ranging /\ ~ready /\ ready' = TRUE /\ ranged' = ranged + 1
      /\ UNCHANGED <<stage, registered, client, initialised, ranging, pc, ret, began, stale, overlapped>>
  BY DEF Driver!Range, Driver!moduleVars, Driver!readerVars
<1>2. /\ faults' \in Nat /\ (faults' = faults \/ faults' = faults + 1)
      /\ faults' = faults => \A r \in Readers : pc[r] # "stop"
  BY DEF Driver!Range, Driver!Works, Driver!Fails, ReaderTypes
<1>3. LoadInv'
  BY <1>1 DEF LoadInv
<1>4. ReaderTypes'
  BY <1>1, <1>2 DEF ReaderTypes, Driver!Measuring
<1>5. TurnInv'
  BY Zenon, <1>1 DEF TurnInv, Driver!Measuring
<1>6. DebtInv'
  <2>1. stale' = stale /\ overlapped' = overlapped /\ stale \in Nat /\ faults \in Nat
    BY <1>1 DEF ReaderTypes
  <2>2. CASE faults' = faults + 1
    BY <2>1, <2>2 DEF DebtInv
  <2>3. CASE faults' = faults
    <3>1. \A r \in Readers : began[r] # ranged + 1 /\ pc[r] # "stop"
      BY <1>2, <2>3 DEF ReaderTypes
    <3>2. Owed' => Owed
      BY <1>1, <3>1 DEF Owed, Owes, Driver!Measuring
    <3> QED BY <2>1, <2>3, <3>2 DEF DebtInv
  <2> QED BY <1>2, <2>2, <2>3
<1> QED BY <1>3, <1>4, <1>5, <1>6

LEMMA OpenInv == ASSUME DriverInv, NEW r \in Readers, Driver!Open(r) PROVE DriverInv'
<1> USE DEF DriverInv
<1>1. /\ pc[r] = "closed" /\ pc' = [pc EXCEPT ![r] = "open"]
      /\ UNCHANGED <<stage, registered, client, initialised, ranging, ready, ranged, ret, began,
                     stale, overlapped, faults>>
  BY DEF Driver!Open, Driver!moduleVars, Driver!sensorVars
<1>2. LoadInv'
  BY <1>1 DEF LoadInv
<1>3. \A q \in Readers : Driver!Measuring(q)' <=> Driver!Measuring(q)
  BY <1>1 DEF ReaderTypes, Driver!Measuring
<1>4. ReaderTypes'
  BY <1>1, <1>3 DEF ReaderTypes
<1>5. TurnInv'
  BY <1>1, <1>3 DEF TurnInv, ReaderTypes
<1>6. DebtInv'
  <2>1. Owed' => Owed
    BY <1>1, <1>3 DEF Owed, Owes, ReaderTypes
  <2> QED BY <1>1, <2>1 DEF DebtInv, ReaderTypes
<1> QED BY <1>2, <1>4, <1>5, <1>6

LEMMA StartInv == ASSUME DriverInv, NEW r \in Readers, Driver!Start(r) PROVE DriverInv'
<1> USE DEF DriverInv
<1>1. /\ pc[r] = "open"
      /\ UNCHANGED <<stage, registered, client, initialised, ready, ranged, stale>>
  BY DEF Driver!Start, Driver!moduleVars
<1>2. LoadInv'
  BY <1>1 DEF LoadInv
<1>3. CASE /\ client /\ faults' = faults /\ ranging' = TRUE
           /\ pc' = [pc EXCEPT ![r] = "wait"] /\ ret' = [ret EXCEPT ![r] = -1]
           /\ began' = [began EXCEPT ![r] = ranged]
           /\ overlapped' = (overlapped \/ \E q \in Readers \ {r} : Driver!Measuring(q))
  <2>1. \A q \in Readers : q # r => (Driver!Measuring(q)' <=> Driver!Measuring(q))
    BY <1>3 DEF ReaderTypes, Driver!Measuring
  <2>2. ReaderTypes'
    BY <1>1, <1>3 DEF ReaderTypes
  <2>3. CASE overlapped \/ \E q \in Readers \ {r} : Driver!Measuring(q)
    BY <1>2, <1>3, <2>2, <2>3 DEF TurnInv, DebtInv
  <2>4. CASE ~(overlapped \/ \E q \in Readers \ {r} : Driver!Measuring(q))
    <3>1. \A q \in Readers : ~Driver!Measuring(q)
      BY <1>1, <2>4 DEF Driver!Measuring
    <3>2. TurnInv'
      BY <1>1, <1>3, <2>1, <3>1 DEF TurnInv, ReaderTypes, Driver!Measuring
    <3>3. Owed' => Owed
      BY <1>1, <1>3, <2>1, <3>1 DEF Owed, Owes, ReaderTypes, Driver!Measuring
    <3>4. DebtInv'
      BY <1>1, <1>3, <2>4, <3>3 DEF DebtInv, ReaderTypes
    <3> QED BY <1>2, <2>2, <3>2, <3>4
  <2> QED BY <2>3, <2>4
<1>4. CASE /\ ret' = [ret EXCEPT ![r] = -1] /\ UNCHANGED <<ranging, began, overlapped>>
           /\ \/ pc' = [pc EXCEPT ![r] = "oops"] /\ faults' = faults
              \/ pc' = [pc EXCEPT ![r] = "closed"] /\ faults' = faults + 1
  <2>1. \A q \in Readers : Driver!Measuring(q)' <=> Driver!Measuring(q)
    BY <1>1, <1>4 DEF ReaderTypes, Driver!Measuring
  <2>2. ReaderTypes'
    BY <1>1, <1>4, <2>1 DEF ReaderTypes
  <2>3. TurnInv'
    BY <1>1, <1>4, <2>1 DEF TurnInv, ReaderTypes
  <2>4. Owed' => Owed
    BY <1>1, <1>4, <2>1 DEF Owed, Owes, ReaderTypes
  <2>5. DebtInv'
    BY <1>1, <1>4, <2>4 DEF DebtInv, ReaderTypes
  <2> QED BY <1>2, <2>2, <2>3, <2>5
<1> QED BY <1>3, <1>4 DEF Driver!Start, Driver!Goto, Driver!Works, Driver!Fails

\* The reader that measures goes on, by a transfer that works or a fault.
LEMMA GoesOn ==
  ASSUME DriverInv, NEW r \in Readers, Driver!Measuring(r),
         NEW place \in {"closed", "status", "range", "clear", "stop"},
         pc' = [pc EXCEPT ![r] = place],
         UNCHANGED <<stage, registered, client, began, overlapped, ranged>>,
         ret' \in [Readers -> Int], \A q \in Readers : ret'[q] \in -1 .. ranged,
         faults' \in Nat, stale' \in Nat,
         ~overlapped /\ place \in {"status", "range", "clear"} => ready',
         \A q \in Readers : Driver!Measuring(q) => q = r \/ overlapped,
         ~overlapped => stale' <= faults',
         ~overlapped /\ (IF place = "closed" THEN ready' \/ ranging'
                         ELSE ready' /\ (place = "stop" \/ (place # "clear" /\ began[r] = ranged)))
           => stale' + 1 <= faults'
  PROVE  DriverInv'
<1> USE DEF DriverInv
<1>1. \A q \in Readers : q # r => (Driver!Measuring(q)' <=> Driver!Measuring(q)) /\ pc'[q] = pc[q]
  BY DEF ReaderTypes, Driver!Measuring
<1>2. LoadInv'
  BY DEF LoadInv
<1>3. ReaderTypes'
  BY <1>1 DEF ReaderTypes
<1>4. ~overlapped => \A q \in Readers : q # r => ~Driver!Measuring(q)
  OBVIOUS
<1>5. pc'[r] = place
  BY DEF ReaderTypes
<1>6. TurnInv'
  BY <1>1, <1>4, <1>5 DEF TurnInv, Driver!Measuring
<1>7. DebtInv'
  <2> SUFFICES ASSUME ~overlapped PROVE stale' <= faults' /\ (Owed' => stale' + 1 <= faults')
    BY DEF DebtInv
  <2>1. \A q \in Readers : Owes(q)' => q = r
    BY <1>1, <1>4 DEF Owes, Driver!Measuring
  <2>2. CASE place = "closed"
    <3>1. Owed' => ready' \/ ranging'
      BY DEF Owed, Owes
    <3> QED BY <2>2, <3>1
  <2>3. CASE place # "closed"
    <3>1. Driver!Measuring(r)'
      BY <1>5, <2>3 DEF Driver!Measuring
    <3>2. Owed' => Owes(r)'
      BY <2>1, <3>1 DEF Owed
    <3>3. Owes(r)' => ready' /\ (place = "stop" \/ (place # "clear" /\ began[r] = ranged))
      BY <1>5 DEF Owes
    <3> QED BY <2>3, <3>2, <3>3
  <2> QED BY <2>2, <2>3
<1> QED BY <1>2, <1>3, <1>6, <1>7

LEMMA OneMeasures ==
  ASSUME DriverInv, NEW r \in Readers, Driver!Measuring(r)
  PROVE  /\ \A q \in Readers : Driver!Measuring(q) => q = r \/ overlapped
         /\ ~overlapped => stale <= faults /\ (Owes(r) => stale + 1 <= faults)
         /\ ~overlapped /\ pc[r] \in {"status", "range", "clear"} => ready
         /\ stale \in Nat /\ faults \in Nat
BY DEF DriverInv, TurnInv, DebtInv, Owed, ReaderTypes

LEMMA ReturnType ==
  ASSUME DriverInv, NEW r \in Readers, NEW v \in -1 .. ranged, ret' = [ret EXCEPT ![r] = v]
  PROVE  ret' \in [Readers -> Int] /\ \A q \in Readers : ret'[q] \in -1 .. ranged
BY DEF DriverInv, ReaderTypes

LEMMA WaitInv == ASSUME DriverInv, NEW r \in Readers, Driver!WaitDataReady(r) PROVE DriverInv'
<1>1. /\ pc[r] = "wait" /\ ret' = [ret EXCEPT ![r] = -1]
      /\ UNCHANGED <<stage, registered, client, initialised, ranging, ready, ranged, began, stale,
                     overlapped>>
  BY DEF Driver!WaitDataReady, Driver!moduleVars, Driver!sensorVars, Driver!Goto
<1>2. Driver!Measuring(r)
  BY <1>1 DEF Driver!Measuring
<1>3. ret' \in [Readers -> Int] /\ \A q \in Readers : ret'[q] \in -1 .. ranged
  BY <1>1, ReturnType DEF DriverInv, ReaderTypes
<1>4. CASE ready /\ faults' = faults /\ pc' = [pc EXCEPT ![r] = "status"]
  <2>1. began[r] = ranged => Owes(r)
    BY <1>1, <1>4 DEF Owes
  <2>2. ~overlapped => ready' /\ (began[r] = ranged => stale' + 1 <= faults')
    BY <1>1, <1>2, <1>4, <2>1, OneMeasures
  <2> QED BY <1>1, <1>2, <1>3, <1>4, <2>2, OneMeasures, GoesOn
<1>5. CASE faults' = faults + 1 /\ pc' = [pc EXCEPT ![r] = "stop"]
  <2>1. faults' \in Nat /\ (~overlapped => stale' <= faults' /\ stale' + 1 <= faults')
    BY <1>1, <1>2, <1>5, OneMeasures
  <2> QED BY <1>1, <1>2, <1>3, <1>5, <2>1, OneMeasures, GoesOn
<1>6. CASE ~ready /\ faults' = faults /\ pc' = [pc EXCEPT ![r] = "stop"]
  BY <1>1, <1>2, <1>3, <1>6, OneMeasures, GoesOn
<1> QED
  BY <1>4, <1>5, <1>6 DEF Driver!WaitDataReady, Driver!Goto, Driver!Works, Driver!Fails

LEMMA StatusInv == ASSUME DriverInv, NEW r \in Readers, Driver!ReadStatus(r) PROVE DriverInv'
<1>1. /\ pc[r] = "status"
      /\ UNCHANGED <<stage, registered, client, initialised, ranging, ready, ranged, began, stale,
                     overlapped>>
  BY DEF Driver!ReadStatus, Driver!moduleVars, Driver!sensorVars
<1>2. Driver!Measuring(r)
  BY <1>1 DEF Driver!Measuring
<1>3. CASE faults' = faults /\ Driver!Goto(r, "range", -1)
  <2>1. ready /\ began[r] = ranged => Owes(r)
    BY <1>1 DEF Owes
  <2>2. ret' = [ret EXCEPT ![r] = -1] /\ pc' = [pc EXCEPT ![r] = "range"]
    BY <1>3 DEF Driver!Goto
  <2>3. ret' \in [Readers -> Int] /\ \A q \in Readers : ret'[q] \in -1 .. ranged
    BY <2>2, ReturnType DEF DriverInv, ReaderTypes
  <2>4. ~overlapped => ready' /\ (began[r] = ranged => stale' + 1 <= faults')
    BY <1>1, <1>2, <1>3, <2>1, OneMeasures
  <2> QED BY <1>1, <1>2, <1>3, <2>2, <2>3, <2>4, OneMeasures, GoesOn
<1>4. CASE faults' = faults /\ Driver!Goto(r, "clear", 0)
  <2>2. ret' = [ret EXCEPT ![r] = 0] /\ pc' = [pc EXCEPT ![r] = "clear"]
    BY <1>4 DEF Driver!Goto
  <2>3. ret' \in [Readers -> Int] /\ \A q \in Readers : ret'[q] \in -1 .. ranged
    BY <2>2, ReturnType DEF DriverInv, ReaderTypes
  <2> QED BY <1>1, <1>2, <1>4, <2>2, <2>3, OneMeasures, GoesOn
<1>5. CASE faults' = faults + 1 /\ Driver!Goto(r, "stop", -1)
  <2>2. ret' = [ret EXCEPT ![r] = -1] /\ pc' = [pc EXCEPT ![r] = "stop"]
    BY <1>5 DEF Driver!Goto
  <2>3. ret' \in [Readers -> Int] /\ \A q \in Readers : ret'[q] \in -1 .. ranged
    BY <2>2, ReturnType DEF DriverInv, ReaderTypes
  <2>4. faults' \in Nat /\ (~overlapped => stale' <= faults' /\ stale' + 1 <= faults')
    BY <1>1, <1>2, <1>5, OneMeasures
  <2> QED BY <1>1, <1>2, <1>5, <2>2, <2>3, <2>4, OneMeasures, GoesOn
<1> QED BY <1>3, <1>4, <1>5 DEF Driver!ReadStatus, Driver!Works, Driver!Fails

LEMMA RangeReadInv == ASSUME DriverInv, NEW r \in Readers, Driver!ReadRange(r) PROVE DriverInv'
<1>1. /\ pc[r] = "range"
      /\ UNCHANGED <<stage, registered, client, initialised, ranging, ready, ranged, began,
                     overlapped>>
  BY DEF Driver!ReadRange, Driver!moduleVars, Driver!sensorVars
<1>2. Driver!Measuring(r)
  BY <1>1 DEF Driver!Measuring
<1>3. CASE /\ faults' = faults /\ Driver!Goto(r, "clear", ranged)
           /\ stale' = IF ranged = began[r] THEN stale + 1 ELSE stale
  <2>1. ret' = [ret EXCEPT ![r] = ranged] /\ pc' = [pc EXCEPT ![r] = "clear"]
    BY <1>3 DEF Driver!Goto
  <2>2. ret' \in [Readers -> Int] /\ \A q \in Readers : ret'[q] \in -1 .. ranged
    BY <2>1, ReturnType DEF DriverInv, ReaderTypes
  <2>3. ~overlapped => ready /\ (ranged = began[r] => Owes(r))
    BY <1>1, <1>2, OneMeasures DEF Owes
  <2>4. stale' \in Nat /\ faults' \in Nat /\ (~overlapped => ready' /\ stale' <= faults')
    BY <1>1, <1>2, <1>3, <2>3, OneMeasures
  <2> QED BY <1>1, <1>2, <2>1, <2>2, <2>4, OneMeasures, GoesOn
<1>4. CASE faults' = faults + 1 /\ Driver!Goto(r, "clear", -1) /\ stale' = stale
  <2>1. ret' = [ret EXCEPT ![r] = -1] /\ pc' = [pc EXCEPT ![r] = "clear"]
    BY <1>4 DEF Driver!Goto
  <2>2. ret' \in [Readers -> Int] /\ \A q \in Readers : ret'[q] \in -1 .. ranged
    BY <2>1, ReturnType DEF DriverInv, ReaderTypes
  <2>3. stale' \in Nat /\ faults' \in Nat /\ (~overlapped => ready' /\ stale' <= faults')
    BY <1>1, <1>2, <1>4, OneMeasures
  <2> QED BY <1>1, <1>2, <2>1, <2>2, <2>3, OneMeasures, GoesOn
<1> QED
  BY <1>3, <1>4 DEF Driver!ReadRange, Driver!AfterRange, Driver!Works, Driver!Fails

LEMMA ClearInv == ASSUME DriverInv, NEW r \in Readers, Driver!ClearInterrupt(r) PROVE DriverInv'
<1>1. /\ pc[r] = "clear" /\ pc' = [pc EXCEPT ![r] = "stop"]
      /\ UNCHANGED <<stage, registered, client, initialised, ranging, ranged, ret, began, stale,
                     overlapped>>
      /\ \/ faults' = faults /\ ready' = FALSE
         \/ faults' = faults + 1 /\ ready' = ready
  BY DEF Driver!ClearInterrupt, Driver!moduleVars, Driver!Works, Driver!Fails
<1>2. Driver!Measuring(r)
  BY <1>1 DEF Driver!Measuring
<1>3. ret' \in [Readers -> Int] /\ \A q \in Readers : ret'[q] \in -1 .. ranged
  BY <1>1 DEF DriverInv, ReaderTypes
<1>4. /\ faults' \in Nat /\ stale' \in Nat
      /\ ~overlapped => stale' <= faults' /\ (ready' => stale' + 1 <= faults')
  BY <1>1, <1>2, OneMeasures
<1> QED BY <1>1, <1>2, <1>3, <1>4, OneMeasures, GoesOn

LEMMA StopInv == ASSUME DriverInv, NEW r \in Readers, Driver!StopRanging(r) PROVE DriverInv'
<1>1. /\ pc[r] = "stop" /\ pc' = [pc EXCEPT ![r] = "closed"]
      /\ UNCHANGED <<stage, registered, client, initialised, ready, ranged, ret, began, stale,
                     overlapped>>
      /\ \/ faults' = faults /\ ranging' = FALSE
         \/ faults' = faults + 1 /\ ranging' = ranging
  BY DEF Driver!StopRanging, Driver!moduleVars, Driver!Works, Driver!Fails
<1>2. Driver!Measuring(r) /\ (ready => Owes(r))
  BY <1>1 DEF Driver!Measuring, Owes
<1>3. ret' \in [Readers -> Int] /\ \A q \in Readers : ret'[q] \in -1 .. ranged
  BY <1>1 DEF DriverInv, ReaderTypes
<1>4. /\ faults' \in Nat /\ stale' \in Nat
      /\ ~overlapped => stale' <= faults' /\ (ready' \/ ranging' => stale' + 1 <= faults')
  BY <1>1, <1>2, OneMeasures
<1> QED BY <1>1, <1>2, <1>3, <1>4, OneMeasures, GoesOn

LEMMA DriverStep == DriverInv /\ [Driver!Next]_(Driver!vars) => DriverInv'
<1> SUFFICES ASSUME DriverInv, [Driver!Next]_(Driver!vars)
             PROVE  DriverInv'
  OBVIOUS
<1>1. ASSUME NEW i \in 1 .. 7, Driver!Register(i) PROVE DriverInv'
  <2>1. LoadInv'
    BY <1>1, RegisterLoads
  <2>2. /\ UNCHANGED <<client, pc, ret, began, stale, overlapped, ready, ranging, ranged>>
        /\ faults' = faults \/ faults' = faults + 1
    BY <1>1 DEF Driver!Register, Driver!sensorVars, Driver!readerVars, Driver!Works, Driver!Fails
  <2>3. faults' \in Nat /\ faults' >= faults
    BY <2>2 DEF DriverInv, ReaderTypes
  <2> QED BY <2>1, <2>2, <2>3, SensorStands DEF DriverInv
<1>2. CASE Driver!AddDriver
  BY <1>2, AddDriverInv
<1>3. CASE Driver!Unload \/ UNCHANGED Driver!vars
  <2>1. LoadInv'
    BY <1>3 DEF DriverInv, LoadInv, Driver!Unload, Driver!vars, Driver!moduleVars, Driver!Failed,
                Driver!Unloaded, Driver!Oopsed, Driver!Loaded, Driver!Order
  <2>2. UNCHANGED <<client, pc, ret, began, stale, overlapped, ready, ranging, ranged, faults>>
    BY <1>3 DEF Driver!Unload, Driver!sensorVars, Driver!readerVars, Driver!vars, Driver!moduleVars
  <2>3. faults' \in Nat /\ faults' >= faults
    BY <2>2 DEF DriverInv, ReaderTypes
  <2> QED BY <2>1, <2>2, <2>3, SensorStands DEF DriverInv
<1>4. CASE Driver!Range
  BY <1>4, RangeInv
<1>5. ASSUME NEW r \in Readers, Driver!Open(r) \/ Driver!driver_read(r)
      PROVE  DriverInv'
  BY <1>5, OpenInv, StartInv, WaitInv, StatusInv, RangeReadInv, ClearInv, StopInv
  DEF Driver!driver_read
<1>6. Len(Driver!Order) = 7
  BY DEF Driver!Order
<1> QED BY <1>1, <1>2, <1>3, <1>4, <1>5, <1>6 DEF Driver!Next

LEMMA DriverConclusion == DriverInv => Driver!Safety
<1> SUFFICES ASSUME DriverInv PROVE Driver!Safety
  OBVIOUS
<1> USE DEF DriverInv
<1>1. Driver!Loaded = 8 /\ Driver!Oopsed = -2
  BY DEF Driver!Order, Driver!Loaded, Driver!Oopsed
<1>2. stage > 0 => stage \in 1 .. 8
  BY DEF LoadInv
<1>3. Driver!TypeOK
  BY <1>1, <1>2 DEF Driver!TypeOK, LoadInv, ReaderTypes
<1>4. Driver!FailedLoadLeavesNothing
  BY DEF LoadInv, Driver!FailedLoadLeavesNothing
<1>5. Driver!EachFaultOneStaleRead
  BY DEF DebtInv, Driver!EachFaultOneStaleRead
<1> QED BY <1>3, <1>4, <1>5 DEF Driver!Safety

\* A failed load leaves nothing behind, and a fault of the bus makes at most
\* one read stale while readers take turns (vl53l1x_driver.c).
THEOREM DriverSafetyHolds == MCSpec => []DriverSafety
<1>1. MCInit => DriverInv
  BY DriverInit DEF MCInit
<1>2. DriverInv /\ [Operates \/ Tells \/ Ranges]_allVars => DriverInv'
  <2> SUFFICES ASSUME DriverInv, [Operates \/ Tells \/ Ranges]_allVars PROVE DriverInv'
    OBVIOUS
  <2>1. [Driver!Next]_(Driver!vars)
    BY DEF Operates, Tells, Ranges, allVars, driverVars, Driver!vars, Driver!moduleVars,
           Driver!sensorVars, Driver!readerVars
  <2> QED BY <2>1, DriverStep
<1>3. DriverInv => DriverSafety
  BY DriverConclusion DEF DriverSafety
<1> QED BY <1>1, <1>2, <1>3, PTL DEF MCSpec
=============================================================================
