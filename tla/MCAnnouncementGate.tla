------------------------- MODULE MCAnnouncementGate -------------------------
(***************************************************************************)
(* Instances for TLC: the announcement gate, the server loop that feeds it *)
(* and the radio link of the cutoff relay.  Only one of them runs in a     *)
(* behaviour.                                                              *)
(*                                                                         *)
(* Gate: one unit of time is a third of the rise confirmation; a judgment  *)
(* may come in the same unit as the one before, or up to two later.        *)
(* Server: two streams, a queue of two events, five events.                *)
(* Relay: frames of three bytes, a heartbeat every two units, a watchdog of*)
(* four, a clock that wraps after five, a radio that holds one payload.    *)
(***************************************************************************)
EXTENDS AnnouncementGate

MCGaps == 0 .. 2

\* Constants of the server and of the relay, as their modules declare them.
CONSTANTS
  Streams, Capacity, MaxEvents,
  FrameLen, Heartbeat, Watchdog, TickModulus, FifoDepth

VARIABLES
  queue, running, process, woken, worker, ticker, stopper, services,
  status_file, dropped, enqueued

serverVars ==
  <<queue, running, process, woken, worker, ticker, stopper, services,
    status_file, dropped, enqueued>>

Server == INSTANCE CentralServer

ASSUME ServerAssumption == Server!ConstantAssumption

VARIABLES
  cutoff, since_frame, looked, s_frame_idx, s_frame_ready, s_frame_ready_copy,
  sender, payload, overwritten, blocked, fifo, got_first_frame, elapsed,
  cutoff_bit_cached, watch, timer, wrapped

relayVars ==
  <<cutoff, since_frame, looked, s_frame_idx, s_frame_ready, s_frame_ready_copy,
    sender, payload, overwritten, blocked, fifo, got_first_frame, elapsed,
    cutoff_bit_cached, watch, timer, wrapped>>

Relay == INSTANCE WirelessRelay

ASSUME RelayAssumption == Relay!ConstantAssumption

VARIABLE machine

allVars == <<machine, vars, serverVars, relayVars>>

Announces == machine = "gate" /\ Next /\ UNCHANGED <<machine, serverVars, relayVars>>
Serves(A) == machine = "server" /\ A /\ UNCHANGED <<machine, vars, relayVars>>
Cuts == machine = "relay" /\ Relay!Next /\ UNCHANGED <<machine, vars, serverVars>>

MCInit ==
  /\ Init /\ Server!Init /\ Relay!Init /\ machine \in {"gate", "server", "relay"}
  /\ (machine # "relay" => ~ cutoff /\ watch = "calm")

MCSpec ==
  /\ MCInit
  /\ [][Announces \/ Serves(Server!Next) \/ Cuts]_allVars
  /\ WF_allVars(Serves(Server!ProcessStep)) /\ WF_allVars(Serves(Server!TickerLooks))
  /\ WF_allVars(Serves(Server!TickerActs)) /\ WF_allVars(Serves(Server!StopStep))

\* Services outlive the judging that uses them, and a stopped server says so
\* in its status file (safety_server.cpp, stop).
ServerSafety == machine = "server" => Server!Safety

\* A cutoff that lasts reaches the relay over the radio, or the watchdog cuts;
\* and the relay follows when nothing is lost (rx_node main.c).
RelaySafety == machine = "relay" => Relay!Safety

\* stop() returns whenever the judging thread was not just between its look
\* at the predicate and its wait (bounded_queue.hpp, notifyAll).
StopReturnsOutsideWindow == Server!StopReturnsOutsideWindow
=============================================================================
