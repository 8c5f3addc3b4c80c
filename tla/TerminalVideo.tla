--------------------------- MODULE TerminalVideo ---------------------------
(***************************************************************************)
(* One RTSP source of the forklift terminal (RtspVideoSource) under the    *)
(* manager that starts it and stops it late (VideoSourceManager).  The     *)
(* GStreamer graph posts messages on its bus; a thread of the source takes *)
(* them and posts calls to the main thread; the streaming threads leave    *)
(* frames and metadata in slots the main thread empties.                   *)
(*                                                                         *)
(* A message or call is good if what it says is still true: a "Connected"  *)
(* of a session that was stopped since, or that failed before, is not.     *)
(* Timers fire at any time while they run.                                 *)
(***************************************************************************)
EXTENDS Integers, Sequences, SequencesExt

CONSTANTS
  kReconnectBaseDelayMs, kInitialReconnectMaxDelayMs, kReconnectMaxDelayMs,
  Slots,         \* m_pendingFrame, m_pendingMetadata
  MaxQueue       \* bound: messages on the bus, and calls they have posted

ConstantAssumption ==
  /\ {kReconnectBaseDelayMs, kReconnectMaxDelayMs, MaxQueue} \subseteq Nat \ {0}
  /\ kInitialReconnectMaxDelayMs \in kReconnectBaseDelayMs .. kReconnectMaxDelayMs

VARIABLES
  pipeline, connectionState, m_userStopped,          \* main thread
  connectTimer, reconnectTimer, m_reconnectDelayMs, m_everConnected,
  stopTimer,                                         \* the manager's
  graph, bus, posted,                                \* graph, its bus, the main thread's calls
  m_pending, m_deliveryQueued, deliverer, streamer,  \* slots and who is at them
  fooled         \* history: the session was taken for connected by a call that is not good

slotVars == <<m_pending, m_deliveryQueued, deliverer, streamer>>
retryVars == <<reconnectTimer, m_reconnectDelayMs>>
sessionVars == <<pipeline, m_userStopped, connectTimer>>
vars == <<sessionVars, connectionState, retryVars, m_everConnected, stopTimer,
          graph, bus, posted, slotVars, fooled>>

Smaller(a, b) == IF a < b THEN a ELSE b
Tells(what) == [what |-> what, good |-> TRUE]
TellsWrongly(what) == [what |-> what, good |-> FALSE]
Room(q) == Len(q) < MaxQueue

-----------------------------------------------------------------------------
(* The graph, and the thread at its bus                                    *)

Posts(to, message) ==
  /\ Room(bus) /\ graph' = to /\ bus' = Append(bus, message)
  /\ UNCHANGED <<sessionVars, connectionState, retryVars, m_everConnected, stopTimer,
                 posted, slotVars, fooled>>

\* READY and PAUSED are told before PLAYING; an error may come at any time,
\* before PLAYING is told too.
Opening == graph = "opening" /\ Posts("paused", Tells("Connecting"))
Plays == graph = "paused" /\ Posts("playing", Tells("Connected"))
Fails == graph = "playing" /\ Posts("failed", Tells("Failed"))
FailsEarly == graph \in {"opening", "paused"} /\ Posts("failing", Tells("Failed"))
PlaysLate == graph = "failing" /\ Posts("failed", TellsWrongly("Connected"))

\* busLoop: a message becomes a call in the main thread.
BusLoop ==
  /\ bus # <<>> /\ Room(posted)
  /\ posted' = Append(posted, Head(bus)) /\ bus' = Tail(bus)
  /\ UNCHANGED <<sessionVars, connectionState, retryVars, m_everConnected, stopTimer,
                 graph, slotVars, fooled>>

-----------------------------------------------------------------------------
(* Frames and metadata                                                     *)

\* pushFrame, pushMetadata: the newest replaces what waits ...
Push(s) ==
  /\ graph = "playing" /\ streamer[s] = "idle"
  /\ m_pending' = [m_pending EXCEPT ![s] = "current"]
  /\ streamer' = [streamer EXCEPT ![s] = "stored"]
  /\ UNCHANGED <<sessionVars, connectionState, retryVars, m_everConnected, stopTimer,
                 graph, bus, posted, m_deliveryQueued, deliverer, fooled>>

\* ... scheduleDelivery: and is fetched by one call, however many wait.
ScheduleDelivery(s) ==
  /\ streamer[s] = "stored" /\ streamer' = [streamer EXCEPT ![s] = "idle"]
  /\ m_deliveryQueued' = TRUE
  /\ posted' = IF m_deliveryQueued THEN posted ELSE Append(posted, Tells("Deliver"))
  /\ UNCHANGED <<sessionVars, connectionState, retryVars, m_everConnected, stopTimer,
                 graph, bus, m_pending, deliverer, fooled>>

\* Bug: the flag is lowered after the slots were emptied.
BugLowersLate(step) == IF step = "take" THEN FALSE ELSE m_deliveryQueued

\* deliverPending lowers the flag before it empties the slots.
FlagAfter(step) == IF step = "lower" THEN FALSE ELSE m_deliveryQueued

DeliverPending ==
  /\ \/ /\ deliverer = "idle" /\ posted # <<>> /\ Head(posted).what = "Deliver"
        /\ deliverer' = "lowered" /\ posted' = Tail(posted)
        /\ m_deliveryQueued' = FlagAfter("lower") /\ UNCHANGED m_pending
     \/ /\ deliverer = "lowered" /\ deliverer' = "idle"
        /\ m_pending' = [s \in Slots |-> "none"]
        /\ m_deliveryQueued' = FlagAfter("take") /\ UNCHANGED posted
  /\ UNCHANGED <<sessionVars, connectionState, retryVars, m_everConnected, stopTimer,
                 graph, bus, streamer, fooled>>

-----------------------------------------------------------------------------
(* Start, stop and retry, in the main thread                               *)

\* scheduleReconnect: one retry is planned at a time, and the wait doubles.
maxDelay == IF m_everConnected THEN kReconnectMaxDelayMs ELSE kInitialReconnectMaxDelayMs
CurrentDelay == IF m_reconnectDelayMs = 0 THEN kReconnectBaseDelayMs ELSE m_reconnectDelayMs

ScheduleReconnect ==
  IF m_userStopped THEN UNCHANGED <<connectionState, retryVars>>
  ELSE /\ connectionState' = "Disconnected"
       /\ IF reconnectTimer > 0 THEN UNCHANGED retryVars
          ELSE /\ reconnectTimer' = Smaller(CurrentDelay, maxDelay)
               /\ m_reconnectDelayMs' = Smaller(2 * CurrentDelay, maxDelay)

\* start() without a pipeline.  A description that is not parsed is not tried
\* again.
Started(parses) ==
  /\ m_userStopped' = FALSE /\ pipeline' = parses /\ connectTimer' = parses
  /\ connectionState' = IF parses THEN "Connecting" ELSE "Disconnected"
  /\ graph' = IF parses THEN "opening" ELSE "none"

\* stop() joins the thread of the bus, which may post one more call; calls that
\* are posted stay, "Deliver" among them.  The graph and its threads end.
Stopping(last) ==
  /\ \A s \in Slots : streamer[s] = "idle"
  /\ last # <<>> => bus # <<>> /\ last = <<Head(bus)>> /\ Room(posted)
  /\ posted' = [i \in 1 .. Len(posted \o last) |->
                  [(posted \o last)[i] EXCEPT !.good = @ /\ (posted \o last)[i].what = "Deliver"]]
  /\ bus' = <<>> /\ m_pending' = [s \in Slots |-> "none"] /\ fooled' = FALSE
  /\ UNCHANGED <<m_reconnectDelayMs, m_everConnected, m_deliveryQueued, deliverer, streamer>>

\* requestStart cancels a stop that is planned; a source that runs is left alone.
RequestStart ==
  /\ deliverer = "idle" /\ stopTimer' = FALSE
  /\ IF pipeline THEN UNCHANGED <<sessionVars, connectionState, graph>>
     ELSE \E parses \in BOOLEAN : Started(parses)
  /\ UNCHANGED <<retryVars, m_everConnected, bus, posted, slotVars, fooled>>

RequestStopAfter ==
  /\ deliverer = "idle" /\ ~ stopTimer /\ stopTimer' = TRUE
  /\ UNCHANGED <<sessionVars, connectionState, retryVars, m_everConnected, graph,
                 bus, posted, slotVars, fooled>>

StopTimeout(last) ==
  /\ deliverer = "idle" /\ stopTimer /\ stopTimer' = FALSE
  /\ Stopping(last)
  /\ m_userStopped' = TRUE /\ pipeline' = FALSE /\ graph' = "none"
  /\ connectTimer' = FALSE /\ reconnectTimer' = 0 /\ connectionState' = "Disconnected"

HandleConnectTimeout ==
  /\ deliverer = "idle" /\ connectTimer /\ connectTimer' = FALSE
  /\ IF pipeline /\ connectionState = "Connecting" THEN ScheduleReconnect
     ELSE UNCHANGED <<connectionState, retryVars>>
  /\ UNCHANGED <<pipeline, m_userStopped, m_everConnected, stopTimer, graph, bus,
                 posted, slotVars, fooled>>

\* A stream that connected while the retry was waiting is left alone.
HandleReconnectTimeout(last) ==
  /\ deliverer = "idle" /\ reconnectTimer > 0 /\ reconnectTimer' = 0
  /\ IF m_userStopped \/ connectionState = "Connected"
     THEN /\ last = <<>>
          /\ UNCHANGED <<sessionVars, connectionState, m_reconnectDelayMs,
                         m_everConnected, graph, bus, posted, slotVars, fooled>>
     ELSE Stopping(last) /\ \E parses \in BOOLEAN : Started(parses)
  /\ UNCHANGED stopTimer

\* The calls busLoop posted, whatever session they came from.
Execute ==
  /\ deliverer = "idle" /\ posted # <<>> /\ posted' = Tail(posted)
  /\ LET call == Head(posted) IN
     \/ call.what = "Failed" /\ ScheduleReconnect /\ UNCHANGED <<m_everConnected, fooled>>
     \/ /\ call.what = "Connecting" /\ connectionState' = call.what
        /\ UNCHANGED <<retryVars, m_everConnected, fooled>>
     \/ /\ call.what = "Connected" /\ connectionState' = call.what
        /\ m_reconnectDelayMs' = 0 /\ m_everConnected' = TRUE
        /\ fooled' = (fooled \/ ~ call.good) /\ UNCHANGED reconnectTimer
  /\ UNCHANGED <<sessionVars, stopTimer, graph, bus, slotVars>>

-----------------------------------------------------------------------------
Init ==
  /\ pipeline = FALSE /\ connectionState = "Disconnected" /\ m_userStopped = FALSE
  /\ connectTimer = FALSE /\ reconnectTimer = 0
  /\ m_reconnectDelayMs = 0 /\ m_everConnected = FALSE /\ stopTimer = FALSE
  /\ graph = "none" /\ bus = <<>> /\ posted = <<>>
  /\ m_pending = [s \in Slots |-> "none"] /\ m_deliveryQueued = FALSE
  /\ deliverer = "idle" /\ streamer = [s \in Slots |-> "idle"] /\ fooled = FALSE

Next ==
  \/ Opening \/ Plays \/ Fails \/ FailsEarly \/ PlaysLate \/ BusLoop
  \/ \E s \in Slots : Push(s) \/ ScheduleDelivery(s)
  \/ DeliverPending \/ RequestStart \/ RequestStopAfter \/ HandleConnectTimeout \/ Execute
  \/ \E last \in {<<>>} \cup {<<m>> : m \in ToSet(bus)} :
       StopTimeout(last) \/ HandleReconnectTimeout(last)

Spec == Init /\ [][Next]_vars

-----------------------------------------------------------------------------
Calls == [what : {"Connecting", "Connected", "Failed", "Deliver"}, good : BOOLEAN]

TypeOK ==
  /\ {pipeline, m_userStopped, connectTimer, m_everConnected, stopTimer,
      m_deliveryQueued, fooled} \subseteq BOOLEAN
  /\ connectionState \in {"Disconnected", "Connecting", "Connected"}
  /\ reconnectTimer \in 0 .. kReconnectMaxDelayMs
  /\ m_reconnectDelayMs \in 0 .. maxDelay
  /\ graph \in {"none", "opening", "paused", "playing", "failing", "failed"}
  /\ bus \in Seq(Calls) /\ posted \in Seq(Calls)
  /\ m_pending \in [Slots -> {"none", "current"}]
  /\ deliverer \in {"idle", "lowered"} /\ streamer \in [Slots -> {"idle", "stored"}]

\* A session that is not playing, all of whose messages were heard, is watched
\* by a timer that will try again, in whatever order errors, timeouts, stops
\* and starts came.  Two calls can fool the source into giving up: a
\* "Connected" left over from the session before, and one told after an error.
RetryIsArmed ==
  /\ pipeline /\ graph # "playing" /\ ~ fooled
  /\ bus = <<>> /\ \A i \in DOMAIN posted : posted[i].what = "Deliver"
  => connectTimer \/ reconnectTimer > 0

\* A source that was stopped does not come back by itself, whatever calls of its
\* last session are still executed.
StoppedStaysStopped ==
  m_userStopped => ~ pipeline /\ ~ connectTimer /\ reconnectTimer = 0

\* The flag says exactly whether one delivery is on its way, and nothing is
\* left in a slot without one.
DeliveryIsPlanned ==
  /\ m_deliveryQueued <=> \E i \in DOMAIN posted : posted[i].what = "Deliver"
  /\ \A i, j \in DOMAIN posted :
       posted[i].what = "Deliver" /\ posted[j].what = "Deliver" => i = j
  /\ \A s \in Slots : m_pending[s] # "none" =>
       \/ m_deliveryQueued \/ deliverer = "lowered" \/ streamer[s] = "stored"

\* The invariants of a video source: it retries, stays stopped, and delivers
\* what it received.
Safety == TypeOK /\ RetryIsArmed /\ StoppedStaysStopped /\ DeliveryIsPlanned

=============================================================================
