------------------------------- MODULE UartLink -------------------------------
(***************************************************************************)
(* uart_tx.v driving a wire into uart_rx.v: how bytes cross the wire, what *)
(* a disturbance of it destroys, and when the receiver is good again.      *)
(*                                                                         *)
(* One step is one clock of the receiver.  The sender, with its own clock, *)
(* holds each bit for tx_clks of them.  The wire is asynchronous: the      *)
(* first flip-flop, sampling it while it changes, takes either value.      *)
(***************************************************************************)
EXTENDS Integers

CONSTANTS
  CLKS_PER_BIT,   \* of the receiver
  TxClks,         \* possible lengths of the sender's bits
  DataBits,       \* 8 in the code
  Disturbed       \* whether the wire may be pulled low from outside

ConstantAssumption ==
  /\ CLKS_PER_BIT \in Nat /\ CLKS_PER_BIT >= 8
  /\ TxClks \subseteq Nat \ {0}
  /\ DataBits \in Nat \ {0}
  /\ Disturbed \in BOOLEAN

Last == DataBits - 1
Byte == [0 .. Last -> {0, 1}]
NoByte == [i \in 0 .. Last |-> 0]
HalfBit == CLKS_PER_BIT \div 2
\* Clocks until the receiver has seen a whole frame out, and the three clocks
\* between the wire and its state.
FrameClocks == (DataBits + 2) * CLKS_PER_BIT + 3

\* The clocks of the two ends differ so little that the middle of every bit, as
\* the receiver counts and with the delay of its flip-flops, lies in that bit.
SkewAssumption ==
  \A t \in TxClks, n \in 0 .. DataBits + 1 :
    /\ n * t < n * CLKS_PER_BIT + HalfBit
    /\ n * CLKS_PER_BIT + HalfBit + 3 <= (n + 1) * t

VARIABLES
  tx_clks,
  tx_state, clk_counter, tx_bit, tx_data_reg, uart_tx_o, tx_done,
  uart_rx_meta, uart_rx_sync,
  state, clk_count, bit_index, rx_shift, rx_data, rx_valid, framing_error,
  \* the wire
  wire,       \* its level
  low,        \* clocks it has been pulled low for, cut off at HalfBit
  needed,     \* clocks of quiet still needed for the receiver to be ready
  clean,      \* the byte being sent began with none needed, and was undisturbed
  delivered   \* how often the byte being sent came out, cut off at 2

txVars == <<tx_clks, tx_state, clk_counter, tx_bit, tx_data_reg, uart_tx_o, tx_done>>
rxVars == <<uart_rx_meta, uart_rx_sync, state, clk_count, bit_index, rx_shift,
            rx_data, rx_valid, framing_error>>
wireVars == <<wire, low, needed, clean, delivered>>
vars == <<txVars, rxVars, wireVars>>

-----------------------------------------------------------------------------
(* uart_tx.v                                                               *)

BitIsOver == clk_counter >= tx_clks - 1

TxIdle ==
  /\ tx_state = "IDLE"
  /\ clk_counter' = 0 /\ tx_bit' = 0 /\ tx_done' = FALSE
  /\ \/ /\ tx_data_reg' \in Byte
        /\ uart_tx_o' = 0 /\ tx_state' = "START"
     \/ uart_tx_o' = 1 /\ UNCHANGED <<tx_data_reg, tx_state>>

TxWaits ==
  /\ tx_state # "IDLE" /\ ~BitIsOver
  /\ clk_counter' = clk_counter + 1 /\ tx_done' = FALSE
  /\ UNCHANGED <<tx_state, tx_bit, tx_data_reg, uart_tx_o>>

TxNextBit ==
  /\ tx_state # "IDLE" /\ BitIsOver
  /\ clk_counter' = 0 /\ tx_done' = (tx_state = "STOP")
  /\ UNCHANGED tx_data_reg
  /\ \/ /\ tx_state = "START"
        /\ tx_state' = "DATA" /\ tx_bit' = 0 /\ uart_tx_o' = tx_data_reg[0]
     \/ /\ tx_state = "DATA" /\ tx_bit < Last
        /\ tx_bit' = tx_bit + 1 /\ uart_tx_o' = tx_data_reg[tx_bit + 1]
        /\ UNCHANGED tx_state
     \/ /\ tx_state = "DATA" /\ tx_bit = Last
        /\ tx_state' = "STOP" /\ uart_tx_o' = 1 /\ UNCHANGED tx_bit
     \/ /\ tx_state = "STOP"
        /\ tx_state' = "IDLE" /\ uart_tx_o' = 1 /\ UNCHANGED tx_bit

UartTx == tx_clks' = tx_clks /\ (TxIdle \/ TxWaits \/ TxNextBit)

-----------------------------------------------------------------------------
(* uart_rx.v                                                               *)

\* The first flip-flop takes the level of the wire before or after the clock.
Synchronise ==
  /\ uart_rx_meta' \in {wire, wire'}
  /\ uart_rx_sync' = uart_rx_meta

RxIdle ==
  /\ state = "IDLE"
  /\ clk_count' = 0 /\ bit_index' = 0
  /\ state' = IF uart_rx_sync = 0 THEN "START" ELSE "IDLE"
  /\ rx_valid' = FALSE /\ framing_error' = FALSE
  /\ UNCHANGED <<rx_shift, rx_data>>

\* Bug: the middle of the start bit is not looked at again.
BugTrustsStart == "DATA"

\* The middle of the start bit must still be low.
AfterStart == IF uart_rx_sync = 0 THEN "DATA" ELSE "IDLE"

\* Where the start bit is sampled, and with it every bit after it.
SampleAt == HalfBit

RxStart ==
  /\ state = "START"
  /\ IF clk_count = SampleAt - 1
       THEN clk_count' = 0 /\ state' = AfterStart
       ELSE clk_count' = clk_count + 1 /\ UNCHANGED state
  /\ rx_valid' = FALSE /\ framing_error' = FALSE
  /\ UNCHANGED <<bit_index, rx_shift, rx_data>>

RxWaits ==
  /\ state \in {"DATA", "STOP"} /\ clk_count # CLKS_PER_BIT - 1
  /\ clk_count' = clk_count + 1
  /\ rx_valid' = FALSE /\ framing_error' = FALSE
  /\ UNCHANGED <<state, bit_index, rx_shift, rx_data>>

IsLastBit == bit_index = Last

RxBit ==
  /\ state = "DATA" /\ clk_count = CLKS_PER_BIT - 1
  /\ clk_count' = 0
  /\ rx_shift' = [rx_shift EXCEPT ![bit_index] = uart_rx_sync]
  /\ IF IsLastBit
       THEN bit_index' = 0 /\ state' = "STOP"
       ELSE bit_index' = bit_index + 1 /\ state' = "DATA"
  /\ rx_valid' = FALSE /\ framing_error' = FALSE
  /\ UNCHANGED rx_data

StopIsGood == uart_rx_sync = 1

RxStop ==
  /\ state = "STOP" /\ clk_count = CLKS_PER_BIT - 1
  /\ clk_count' = 0 /\ state' = "IDLE"
  /\ rx_valid' = StopIsGood /\ framing_error' = ~StopIsGood
  /\ rx_data' = IF StopIsGood THEN rx_shift ELSE rx_data
  /\ UNCHANGED <<bit_index, rx_shift>>

UartRx == Synchronise /\ (RxIdle \/ RxStart \/ RxWaits \/ RxBit \/ RxStop)

-----------------------------------------------------------------------------
(* The wire                                                                *)

\* A pulse on an idle line that the middle of the start bit no longer sees
\* costs half a bit of quiet, every other disturbance a frame.
Wire(pulled) ==
  LET starts == tx_state = "IDLE" /\ tx_state' = "START"
      short == /\ tx_state = "IDLE" /\ ~starts
               /\ \/ needed = 0
                  \/ low \in 1 .. HalfBit - 3 /\ needed = HalfBit + 3
  IN /\ wire' = IF pulled THEN 0 ELSE uart_tx_o'
     /\ low' = IF ~pulled THEN 0 ELSE IF low < HalfBit THEN low + 1 ELSE low
     /\ needed' = IF pulled THEN (IF short THEN HalfBit + 3 ELSE FrameClocks)
                  ELSE IF needed > 0 /\ wire' = 1 THEN needed - 1
                  ELSE IF needed > 0 THEN FrameClocks ELSE 0
     /\ clean' = IF starts THEN needed = 0 /\ ~pulled ELSE clean /\ ~pulled

CountDelivered ==
  delivered' = IF tx_state = "IDLE" THEN 0
               ELSE IF rx_valid' /\ delivered < 2 THEN delivered + 1 ELSE delivered

Clock ==
  \E pulled \in {FALSE, Disturbed} :
    UartTx /\ Wire(pulled) /\ UartRx /\ CountDelivered

Init ==
  /\ tx_clks \in TxClks
  /\ tx_state = "IDLE" /\ clk_counter = 0 /\ tx_bit = 0 /\ tx_data_reg = NoByte
  /\ uart_tx_o = 1 /\ tx_done = FALSE
  /\ uart_rx_meta = 1 /\ uart_rx_sync = 1
  /\ state = "IDLE" /\ clk_count = 0 /\ bit_index = 0 /\ rx_shift = NoByte
  /\ rx_data = NoByte /\ rx_valid = FALSE /\ framing_error = FALSE
  /\ wire = 1 /\ low = 0 /\ needed = 0 /\ clean = FALSE /\ delivered = 0

Next == Clock

Spec == Init /\ [][Next]_vars

-----------------------------------------------------------------------------
(* Properties                                                              *)

\* Counters and indices stay within the frame.
TypeOK ==
  /\ state \in {"IDLE", "START", "DATA", "STOP"}
  /\ clk_count \in 0 .. CLKS_PER_BIT - 1
  /\ bit_index \in 0 .. Last /\ tx_bit \in 0 .. Last
  /\ rx_shift \in Byte /\ rx_data \in Byte
  /\ ~(rx_valid /\ framing_error)

\* A byte sent over a quiet wire has come out, once and unchanged, when its
\* stop bit is over, whatever the flip-flops took from the edges and however
\* the wire was disturbed before the quiet.
CleanByteArrives ==
  tx_done /\ clean => delivered = 1 /\ rx_data = tx_data_reg

\* A framing error, reported to the terminal as an event, means that the wire
\* was disturbed; neither skewed clocks nor bytes back to back cause one.
FramingErrorMeansFault == framing_error => ~clean

\* The invariants of the line: an undisturbed byte arrives, once and as it was
\* sent, and a framing error means a disturbance.
Safety == TypeOK /\ CleanByteArrives /\ FramingErrorMeansFault

=============================================================================
