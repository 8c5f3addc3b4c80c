--------------------------- MODULE LatencyTracker ---------------------------
(***************************************************************************)
(* The latency record of the operator terminal (services/LatencyTracker):  *)
(* one row per change of the risk level, with the time the message came    *)
(* (T1), its frame was on the screen (T2) and it went to the FPGA (T3).    *)
(*                                                                         *)
(* T1 and T3 come from the main thread, T2 from the render thread, which   *)
(* synchronises while the main thread waits and swaps at any time.  What   *)
(* calls the tracker is here as far as it decides when it does: the level  *)
(* SerialWarningDevice sends each 100 ms, and its suspension.  A time is   *)
(* told by the change that was the newest then.                            *)
(***************************************************************************)
EXTENDS Integers, Sequences

CONSTANTS
  Levels,     \* 0 is Safe
  MaxSeq      \* bound: changes of the level

ConstantAssumption == 0 \in Levels /\ Levels \subseteq Nat /\ MaxSeq \in Nat

None == -1

VARIABLES
  m,             \* the members of LatencyTracker
  rows,          \* written to the file
  dropped,       \* history: numbers of the rows that could not be written
  m_lastRiskLevel, m_lastTransmittedRiskLevel, suspended,    \* SerialWarningDevice
  frame,         \* the newest change in the frame being rendered, or None
  own            \* history: the level last received is the one of the device

vars == <<m, rows, dropped, m_lastRiskLevel, m_lastTransmittedRiskLevel, suspended, frame, own>>

NoMeasurement ==
  [seq |-> 0, riskLevel |-> 0, t2 |-> None, sent |-> None, t3 |-> "INCOMPLETE", own |-> TRUE]

-----------------------------------------------------------------------------
(* LatencyTracker, each under its mutex                                    *)

checkAndEnqueue(t) ==
  IF t.current.seq > 0 /\ t.current.t2 # None /\ t.current.t3 # "INCOMPLETE"
  THEN [t EXCEPT !.pending = Append(@, t.current), !.current = NoMeasurement]
  ELSE t

Unfinished(t) == IF t.current.seq > 0 THEN <<t.current>> ELSE <<>>

Armed(t, l) ==
  [t EXCEPT !.pending = @ \o Unfinished(t), !.last = l, !.counter = @ + 1,
            !.current = [NoMeasurement EXCEPT !.seq = t.counter + 1, !.riskLevel = l],
            !.awaitingSync = TRUE, !.t2Armed = FALSE, !.t3Armed = TRUE]

\* Bug: the frame being rendered still counts.
BugT1(t, l) ==
  IF t.enabled /\ l # t.last THEN [Armed(t, l) EXCEPT !.t2Armed = t.t2Armed] ELSE t

onT1RiskEventReceived(t, l) == IF t.enabled /\ l # t.last THEN Armed(t, l) ELSE t

onAfterSynchronizing(t) ==
  IF t.enabled /\ t.awaitingSync /\ t.current.seq # 0
  THEN [t EXCEPT !.awaitingSync = FALSE, !.t2Armed = TRUE] ELSE t

onT2FrameSwapped(t) ==
  IF t.enabled /\ t.t2Armed /\ t.current.seq # 0
  THEN checkAndEnqueue([t EXCEPT !.current.t2 = frame, !.t2Armed = FALSE]) ELSE t

\* Transmitted, suspended or without a port; the level is only for the history.
onT3(t, status, l, o) ==
  IF t.enabled /\ t.t3Armed /\ t.current.seq # 0
  THEN checkAndEnqueue([t EXCEPT !.current.t3 = status, !.current.sent = l, !.current.own = o,
                                 !.t3Armed = FALSE])
  ELSE t

Write(some) ==
  \/ rows' = rows \o some /\ UNCHANGED dropped
  \/ dropped' = dropped \cup {some[i].seq : i \in DOMAIN some} /\ UNCHANGED rows

\* Once a second; the file is opened again if need be, or the rows are lost.
flushPendingRows ==
  /\ m.pending # <<>> /\ Write(m.pending) /\ m' = [m EXCEPT !.pending = <<>>]
  /\ UNCHANGED <<m_lastRiskLevel, m_lastTransmittedRiskLevel, suspended, frame, own>>

\* At the end of the process, with the one that is not finished.
flush ==
  LET some == m.pending \o Unfinished(m) IN
  /\ m.enabled /\ some # <<>> /\ Write(some)
  /\ m' = [m EXCEPT !.pending = <<>>, !.current = NoMeasurement, !.enabled = FALSE]
  /\ UNCHANGED <<m_lastRiskLevel, m_lastTransmittedRiskLevel, suspended, frame, own>>

-----------------------------------------------------------------------------
(* SerialWarningDevice                                                     *)

\* A write that fails leaves m_lastTransmittedRiskLevel, to be told of later.
Transmit(t, l, last, o) ==
  IF l = last THEN m' = t /\ m_lastTransmittedRiskLevel' = last
  ELSE \/ m' = onT3(t, "OK", l, o) /\ m_lastTransmittedRiskLevel' = l
       \/ m' = onT3(t, "PORT_CLOSED", l, o) /\ m_lastTransmittedRiskLevel' = last

handleWatchdogTxTimer ==
  /\ IF suspended
     THEN m' = onT3(m, "TX_SUSPENDED", None, own) /\ UNCHANGED m_lastTransmittedRiskLevel
     ELSE Transmit(m, m_lastRiskLevel, m_lastTransmittedRiskLevel, own)
  /\ UNCHANGED <<rows, dropped, m_lastRiskLevel, suspended, frame, own>>

\* The level of the camera shown; the first one after a loss is sent at once.
Apply(t, l, o) ==
  /\ m_lastRiskLevel' = l /\ suspended' = FALSE /\ own' = o
  /\ IF suspended THEN Transmit(t, l, m_lastTransmittedRiskLevel, o)
     ELSE m' = t /\ UNCHANGED m_lastTransmittedRiskLevel

\* A message of the camera shown, or of another, which ends a loss with Safe.
processPayload(l, shown) ==
  LET t == onT1RiskEventReceived(m, l) IN
  /\ m.counter < MaxSeq
  /\ IF shown THEN Apply(t, l, TRUE)
     ELSE IF suspended THEN Apply(t, 0, l = 0)
     ELSE /\ m' = t /\ own' = (l = m_lastRiskLevel)
          /\ UNCHANGED <<m_lastRiskLevel, m_lastTransmittedRiskLevel, suspended>>
  /\ UNCHANGED <<rows, dropped, frame>>

\* Another camera comes on the screen, with the level it had last.
commitCameraSwap(l) ==
  /\ Apply(m, l, l = m.last)
  /\ UNCHANGED <<rows, dropped, frame>>

LinkLost ==
  /\ ~ suspended /\ suspended' = TRUE /\ m_lastTransmittedRiskLevel' = None
  /\ m' = onT3(m, "TX_SUSPENDED", None, own)
  /\ UNCHANGED <<rows, dropped, m_lastRiskLevel, frame, own>>

-----------------------------------------------------------------------------
(* The render thread                                                       *)

Synchronize ==
  /\ frame = None /\ frame' = m.counter /\ m' = onAfterSynchronizing(m)
  /\ UNCHANGED <<rows, dropped, m_lastRiskLevel, m_lastTransmittedRiskLevel, suspended, own>>

Swap ==
  /\ frame # None /\ frame' = None /\ m' = onT2FrameSwapped(m)
  /\ UNCHANGED <<rows, dropped, m_lastRiskLevel, m_lastTransmittedRiskLevel, suspended, own>>

-----------------------------------------------------------------------------
\* Without a path, or a file that can be opened, nothing is recorded.
Init ==
  /\ \E e \in BOOLEAN :
       m = [enabled |-> e, last |-> None, counter |-> 0, current |-> NoMeasurement,
            awaitingSync |-> FALSE, t2Armed |-> FALSE, t3Armed |-> FALSE, pending |-> <<>>]
  /\ rows = <<>> /\ dropped = {}
  /\ m_lastRiskLevel = 0 /\ m_lastTransmittedRiskLevel = None /\ suspended = FALSE
  /\ frame = None /\ own = FALSE

Next ==
  \/ \E l \in Levels : processPayload(l, TRUE) \/ processPayload(l, FALSE) \/ commitCameraSwap(l)
  \/ handleWatchdogTxTimer \/ LinkLost \/ Synchronize \/ Swap
  \/ flushPendingRows \/ flush

Spec == Init /\ [][Next]_vars

-----------------------------------------------------------------------------
Measured == rows \o m.pending \o Unfinished(m)

TypeOK ==
  /\ m.last \in Levels \cup {None} /\ m.counter \in 0 .. MaxSeq
  /\ \A i \in DOMAIN Measured : Measured[i].seq \in 1 .. MaxSeq
  /\ m_lastRiskLevel \in Levels /\ m_lastTransmittedRiskLevel \in Levels \cup {None}
  /\ dropped \subseteq 1 .. MaxSeq /\ suspended \in BOOLEAN

\* Each change of the level has one row, in the order they came, or was lost with
\* the file: whatever the two threads do, none is written twice.
EachChangeOnce ==
  /\ \A i, j \in DOMAIN Measured : i < j => Measured[i].seq < Measured[j].seq
  /\ {Measured[i].seq : i \in DOMAIN Measured} = (1 .. m.counter) \ dropped

\* The frame that T2 is the time of was synchronised after the change, and before
\* the next one: never the frame that was being rendered when the message came.
T2IsOwnFrame ==
  \A i \in DOMAIN Measured : Measured[i].t2 \in {None, Measured[i].seq}

\* OK means that the level itself was sent; unless the device had another level by
\* then, of the camera on the screen and not of the message.
T3IsOwnLevel ==
  \A i \in DOMAIN Measured :
    LET row == Measured[i] IN row.t3 = "OK" /\ row.own => row.sent = row.riskLevel

\* The invariants of the latency record.
Safety == TypeOK /\ EachChangeOnce /\ T2IsOwnFrame /\ T3IsOwnLevel

=============================================================================
