----------------------------- MODULE FpgaEvents -----------------------------
(***************************************************************************)
(* The way of an event from the FPGA to the terminal: event_detector.v     *)
(* turns pulses and changes of levels into one event per clock,            *)
(* heartbeat_gen.v adds a heartbeat, top.v joins the two, event_tx_fifo.v  *)
(* queues them, event_uart_tx.v makes frames and uart_tx.v sends bytes.    *)
(*                                                                         *)
(* All registers share one clock, so one action, Clock, is the conjunction *)
(* of one action per Verilog module, each reading the registers as they    *)
(* were before the edge.  An event is its source and the level it tells.   *)
(* Levels and pulses come from the modules that FpgaSafety and             *)
(* FpgaReceiver describe; here they may do anything.                       *)
(***************************************************************************)
EXTENDS Integers, Sequences, FiniteSetsExt

CONSTANTS
  Varying,         \* the signals that occur in an instance
  Risks,           \* levels of effective_risk
  Depth,           \* DEPTH of the queue
  SeqCount,        \* 2^3, numbers of the 3-bit sequence number
  FrameBytes,      \* bytes of a frame
  ByteClocks,      \* clocks uart_tx needs for the ten bits of a byte
  HeartbeatPeriod  \* PERIOD_COUNT

Pulses == {"checksum_error", "protocol_error", "interbyte_timeout_error",
           "framing_error", "self_test_rejected", "clear_error_req"}
Levels == {"comm_error", "estop_active", "movement_cutoff_active",
           "effective_risk", "self_test_active"}

\* The else-if chain of event_detector.
Priority == <<"checksum_error", "protocol_error", "interbyte_timeout_error",
              "framing_error", "self_test_rejected", "comm_error",
              "estop_active", "movement_cutoff_active", "effective_risk",
              "self_test_active", "clear_error_req">>

ConstantAssumption ==
  /\ Varying \subseteq Pulses \cup Levels
  /\ Risks \subseteq 0 .. 3 /\ 0 \in Risks
  /\ {Depth, SeqCount, FrameBytes, ByteClocks, HeartbeatPeriod} \subseteq Nat \ {0}

VARIABLES
  level, pulses,                     \* inputs of the event detector
  previous, event,                   \* event_detector
  period_counter, heartbeat_valid,   \* heartbeat_gen
  mem, wr_ptr, rd_ptr, count, seq_reg, overflow_sticky,      \* event_tx_fifo
  tx_state, byte_index, fifo_pop, frame, tx_start,           \* event_uart_tx
  tx_busy, tx_done, bits_left,                               \* uart_tx
  \* history
  line,     \* events accepted and not yet popped
  told,     \* level told by the last accepted event of each signal
  missed,   \* signals with a change dropped since the last accepted one
  lost,     \* an event was dropped and no frame with the flag followed
  last_seq  \* number of the last frame completed

inputVars == <<level, pulses>>
detectorVars == <<previous, event>>
heartbeatVars == <<period_counter, heartbeat_valid>>
fifoVars == <<mem, wr_ptr, rd_ptr, count, seq_reg, overflow_sticky>>
frameVars == <<tx_state, byte_index, fifo_pop, frame, tx_start>>
uartVars == <<tx_busy, tx_done, bits_left>>
historyVars == <<line, told, missed, lost, last_seq>>
vars == <<inputVars, detectorVars, heartbeatVars, fifoVars, frameVars, uartVars,
          historyVars>>

NoEvent == [source |-> "none", value |-> 0]
Heartbeat == [source |-> "heartbeat", value |-> 0]
Values(s) == IF s = "effective_risk" THEN Risks ELSE {0, 1}
Events == {NoEvent, Heartbeat} \cup [source : Pulses, value : {0}]
            \cup UNION {[source : {s}, value : Values(s)] : s \in Levels}

-----------------------------------------------------------------------------
(* event_detector and heartbeat_gen                                        *)

Requested(s) == IF s \in Pulses THEN s \in pulses ELSE level[s] # previous[s]

\* A level whose event has to wait keeps its old comparison value.
RecordTold(winner) ==
  previous' = [s \in Levels |-> IF s = winner THEN level[s] ELSE previous[s]]

EventDetector ==
  LET waiting == {i \in DOMAIN Priority : Requested(Priority[i])}
      winner == IF waiting = {} THEN "none" ELSE Priority[Min(waiting)]
  IN /\ event' = CASE winner = "none" -> NoEvent
                   [] winner \in Pulses -> [source |-> winner, value |-> 0]
                   [] OTHER -> [source |-> winner, value |-> level[winner]]
     /\ RecordTold(winner)

HeartbeatGen ==
  /\ heartbeat_valid' = (period_counter >= HeartbeatPeriod - 1)
  /\ period_counter' = IF heartbeat_valid' THEN 0 ELSE period_counter + 1

-----------------------------------------------------------------------------
(* top.v: one push port for both                                           *)

push_valid == event # NoEvent \/ heartbeat_valid

pushed == IF event # NoEvent THEN event ELSE Heartbeat

-----------------------------------------------------------------------------
(* event_tx_fifo                                                           *)

fifo_full == count = Depth
do_push == push_valid /\ ~fifo_full
do_pop == fifo_pop /\ count > 0

SeqCounts == do_pop

CountEntries ==
  count' = CASE do_push /\ ~do_pop -> count + 1
             [] do_pop /\ ~do_push -> count - 1
             [] OTHER -> count

EventTxFifo ==
  /\ IF do_push THEN /\ mem' = [mem EXCEPT ![wr_ptr] = pushed]
                     /\ wr_ptr' = (wr_ptr + 1) % Depth
                ELSE UNCHANGED <<mem, wr_ptr>>
  /\ rd_ptr' = IF do_pop THEN (rd_ptr + 1) % Depth ELSE rd_ptr
  /\ seq_reg' = IF SeqCounts THEN (seq_reg + 1) % SeqCount ELSE seq_reg
  /\ CountEntries
  /\ overflow_sticky' = \/ push_valid /\ fifo_full
                        \/ overflow_sticky /\ ~do_pop

-----------------------------------------------------------------------------
(* event_uart_tx and uart_tx                                               *)

Snapshots == tx_state = "IDLE" /\ count > 0

\* Bug: the first byte pops another entry.
BugPopsTwice == Snapshots \/ (tx_state = "SEND_BYTE" /\ byte_index = 0)

PopRequest == Snapshots

LastByte == byte_index = FrameBytes - 1

\* The head of the queue is copied now and popped by the queue one clock later.
EventUartTx ==
  /\ tx_state' = CASE Snapshots -> "SEND_BYTE"
                   [] tx_state = "SEND_BYTE" /\ ~tx_busy -> "WAIT_DONE"
                   [] tx_state = "WAIT_DONE" /\ tx_done ->
                        IF LastByte THEN "IDLE" ELSE "SEND_BYTE"
                   [] OTHER -> tx_state
  /\ byte_index' = CASE tx_state = "IDLE" -> 0
                     [] tx_state = "WAIT_DONE" /\ tx_done /\ ~LastByte -> byte_index + 1
                     [] OTHER -> byte_index
  /\ fifo_pop' = PopRequest
  /\ frame' = IF Snapshots
                THEN [event |-> mem[rd_ptr], seq |-> seq_reg, overflow |-> overflow_sticky,
                      cutoff |-> level["movement_cutoff_active"]]
                ELSE frame
  /\ tx_start' = (tx_state = "SEND_BYTE" /\ ~tx_busy)

\* Start bit, data bits and stop bit are counted as one time.
UartTx ==
  \/ /\ ~tx_busy
     /\ tx_busy' = tx_start
     /\ bits_left' = IF tx_start THEN ByteClocks - 1 ELSE 0
     /\ tx_done' = FALSE
  \/ /\ tx_busy
     /\ tx_busy' = (bits_left > 0)
     /\ bits_left' = IF bits_left > 0 THEN bits_left - 1 ELSE 0
     /\ tx_done' = (bits_left = 0)

-----------------------------------------------------------------------------
(* Inputs, history and the clock                                           *)

FrameEnds == tx_state = "WAIT_DONE" /\ tx_done /\ LastByte

Observe ==
  LET accepted == do_push /\ pushed.source \in Levels
      dropped == push_valid /\ ~do_push
  IN /\ line' = (IF do_pop /\ line # <<>> THEN Tail(line) ELSE line)
                  \o (IF do_push THEN <<pushed>> ELSE <<>>)
     /\ told' = IF accepted THEN [told EXCEPT ![pushed.source] = pushed.value] ELSE told
     /\ missed' = CASE accepted -> missed \ {pushed.source}
                    [] dropped -> missed \cup ({pushed.source} \cap Levels)
                    [] OTHER -> missed
     /\ lost' = (dropped \/ (lost /\ ~(Snapshots /\ overflow_sticky)))
     /\ last_seq' = IF FrameEnds THEN frame.seq ELSE last_seq

Clock(lv, ps) ==
  /\ level' = lv /\ pulses' = ps
  /\ EventDetector /\ HeartbeatGen /\ EventTxFifo /\ EventUartTx /\ UartTx
  /\ Observe

\* rst_n; the watchdog comes up with comm_error set.
Init ==
  /\ level = [s \in Levels |-> IF s = "comm_error" THEN 1 ELSE 0] /\ pulses = {}
  /\ previous = level /\ event = NoEvent
  /\ period_counter = 0 /\ heartbeat_valid = FALSE
  /\ mem = [i \in 0 .. Depth - 1 |-> NoEvent]
  /\ wr_ptr = 0 /\ rd_ptr = 0 /\ count = 0 /\ seq_reg = 0 /\ overflow_sticky = FALSE
  /\ tx_state = "IDLE" /\ byte_index = 0 /\ fifo_pop = FALSE /\ tx_start = FALSE
  /\ frame = [event |-> NoEvent, seq |-> 0, overflow |-> FALSE, cutoff |-> 0]
  /\ tx_busy = FALSE /\ tx_done = FALSE /\ bits_left = 0
  /\ line = <<>> /\ told = level /\ missed = {} /\ lost = FALSE
  /\ last_seq = SeqCount - 1

\* The levels that do not occur in an instance stay as they are.
Next ==
  \E lv \in [Levels \cap Varying -> 0 .. 3], ps \in SUBSET (Pulses \cap Varying) :
    /\ \A s \in DOMAIN lv : lv[s] \in Values(s)
    /\ Clock([s \in Levels |-> IF s \in Varying THEN lv[s] ELSE level[s]], ps)

Spec == Init /\ [][Next]_vars

-----------------------------------------------------------------------------
(* Properties                                                              *)

\* Every register holds a value of its width; the queue never holds more than
\* its depth (event_tx_fifo.v:45, "0~8").
TypeOK ==
  /\ level \in [Levels -> 0 .. 3] /\ previous \in [Levels -> 0 .. 3]
  /\ pulses \subseteq Pulses
  /\ event \in Events /\ period_counter \in 0 .. HeartbeatPeriod - 1
  /\ heartbeat_valid \in BOOLEAN /\ mem \in [0 .. Depth - 1 -> Events]
  /\ wr_ptr \in 0 .. Depth - 1 /\ rd_ptr \in 0 .. Depth - 1 /\ count \in 0 .. Depth
  /\ seq_reg \in 0 .. SeqCount - 1 /\ overflow_sticky \in BOOLEAN
  /\ tx_state \in {"IDLE", "SEND_BYTE", "WAIT_DONE"} /\ byte_index \in 0 .. FrameBytes - 1
  /\ fifo_pop \in BOOLEAN /\ frame.event \in Events /\ tx_start \in BOOLEAN
  /\ tx_busy \in BOOLEAN /\ tx_done \in BOOLEAN /\ bits_left \in 0 .. ByteClocks - 1

\* Pointers, counter and memory describe the line of accepted events in the
\* order they were accepted, also when push, pop and a full queue meet.
RingHoldsLine ==
  /\ count = Len(line)
  /\ \A i \in DOMAIN line : mem[(rd_ptr + i - 1) % Depth] = line[i]

\* The frame is filled one clock before the queue pops: what is popped is what
\* the frame carries, no entry is skipped and none is sent twice.
PopTakesWhatWasSent ==
  fifo_pop => /\ line # <<>> /\ frame.event = Head(line)
              /\ frame.seq = seq_reg

\* A level that changed under an event of higher priority, or twice, is not
\* forgotten: the last accepted event of each signal tells the level the
\* detector compares with, unless that event was dropped by a full queue.
ToldUnlessMissed ==
  \A s \in Levels \ missed : event.source = s \/ told[s] = previous[s]

\* The invariants of the event path: the ring holds the line, a pop takes what was
\* sent, and a change is told unless it was missed.
Safety == TypeOK /\ RingHoldsLine /\ PopTakesWhatWasSent /\ ToldUnlessMissed

=============================================================================
