------------------------- MODULE MCOperatorTerminal -------------------------
(***************************************************************************)
(* Instances for TLC: the operator terminal, and side by side with it what *)
(* hangs on its lines: the FPGA's event path and the distance sensor's     *)
(* driver, each under every input it may be given.  Only one of them runs  *)
(* in a behaviour.                                                         *)
(*                                                                         *)
(* Terminal: the third camera lets a handover abandon another one.         *)
(* Events: a level and an error pulse that come in one clock, and          *)
(* heartbeats faster than frames, so that a queue of two overflows.        *)
(* Driver: two readers, three rangings, two faults.                        *)
(***************************************************************************)
EXTENDS OperatorTerminal

\* Constants of the event path and of the driver, as their modules declare them.
CONSTANTS
  Varying, EventRisks, Depth, SeqCount, FrameBytes, ByteClocks, HeartbeatPeriod,
  Readers, MaxRanged, MaxFaults

VARIABLES
  level, pulses, previous, event, period_counter, heartbeat_valid, mem, wr_ptr,
  rd_ptr, count, seq_reg, overflow_sticky, tx_state, byte_index, fifo_pop, frame,
  tx_start, tx_busy, tx_done, bits_left, line, told, missed, lost, last_seq

eventVars ==
  <<level, pulses, previous, event, period_counter, heartbeat_valid, mem, wr_ptr,
    rd_ptr, count, seq_reg, overflow_sticky, tx_state, byte_index, fifo_pop, frame,
    tx_start, tx_busy, tx_done, bits_left, line, told, missed, lost, last_seq>>

Events == INSTANCE FpgaEvents WITH Risks <- EventRisks

ASSUME EventAssumption == Events!ConstantAssumption

VARIABLES
  stage, registered, client, pc, ret, initialised, ranging, ready, ranged, faults,
  began, stale, overlapped

driverVars ==
  <<stage, registered, client, pc, ret, initialised, ranging, ready, ranged, faults,
    began, stale, overlapped>>

Driver == INSTANCE TofDriver

ASSUME DriverAssumption == Driver!ConstantAssumption

VARIABLE machine

allVars == <<machine, vars, eventVars, driverVars>>

Operates ==
  /\ machine = "terminal" /\ Next
  /\ UNCHANGED <<machine, eventVars, driverVars>>
Tells ==
  /\ machine = "events" /\ Events!Next
  /\ UNCHANGED <<machine, vars, driverVars>>
Ranges ==
  /\ machine = "driver" /\ Driver!Next
  /\ UNCHANGED <<machine, vars, eventVars>>

MCInit ==
  /\ Init /\ Events!Init /\ Driver!Init
  /\ machine \in {"terminal", "events", "driver"}

MCSpec ==
  /\ MCInit
  /\ [][Operates \/ Tells \/ Ranges]_allVars

\* The queue's ring holds the line, a pop takes what was sent, and a change is
\* told unless the queue dropped it (event_tx_fifo.v).
EventSafety == machine = "events" => Events!Safety

\* A load that returns an error leaves nothing behind, and a fault of the bus
\* makes at most one read stale (vl53l1x_driver.c).
DriverSafety == machine = "driver" => Driver!Safety
=============================================================================
