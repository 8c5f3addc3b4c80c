---------------------------- MODULE MCFpgaSafety ----------------------------
(***************************************************************************)
(* Instances for TLC.  The safety logic, buzzer, light, serial wire and    *)
(* receiver of the FPGA are checked side by side, each under every input   *)
(* the others may give it: one runs in a behaviour, the others stand still.*)
(*                                                                         *)
(* Every count is small, but long enough for a bounce, a packet or a press *)
(* to fall inside, at and after each of them.  For the buzzer a tenth of a *)
(* second is two pattern ticks of three clocks; for the light there are two*)
(* clocks in 50 ms.  Wire: disturbed, between equal clocks.  Receiver:     *)
(* SET_RISK with a checksum equal to the header, a level above and below   *)
(* it, and a self test; a damaged byte may become any kind.                *)
(***************************************************************************)
EXTENDS FpgaSafety

MCRisks == 0 .. 3
MCQuietRisks == {0, 1}
MCModes == {0, 3}
MCSent == {<<1, 0>>, <<1, 1>>, <<2, 0>>, <<3, 3>>}

\* Constants of the buzzer, the light, the serial wire and the receiver, as
\* their modules declare them.
CONSTANTS
  TICK, Tenth, HALF_TONE, TICK_50MS,
  CLKS_PER_BIT, TxClks, DataBits, Disturbed,
  InterbyteTimeout, Sent, Corruption

VARIABLES
  buzzer_risk, buzzer_comm_error, buzzer_estop, buzzer_test,
  buzzer_test_counter, buzzer_tick_count, buzzer_phase, tick_10ms_counter,
  pattern_counter, previous_state, previous_test_override, tone_counter,
  tone_phase, silence, buzzer_steady

buzzerVars ==
  <<buzzer_risk, buzzer_comm_error, buzzer_estop, buzzer_test,
    buzzer_test_counter, buzzer_tick_count, buzzer_phase, tick_10ms_counter,
    pattern_counter, previous_state, previous_test_override, tone_counter,
    tone_phase, silence, buzzer_steady>>

Buzzer == INSTANCE FpgaBuzzer WITH
  effective_risk <- buzzer_risk, comm_error <- buzzer_comm_error,
  estop_active <- buzzer_estop, self_test_active <- buzzer_test,
  test_counter <- buzzer_test_counter, steady <- buzzer_steady

VARIABLES
  warning_state, light_test, test_shows_led, light_test_counter,
  led_tick_counter, led_phase, tick_100ms_counter, tick_50ms_counter,
  slow_tick_counter, slow_phase, fast_phase, estop_phase, dark, light_steady

lightVars ==
  <<warning_state, light_test, test_shows_led, light_test_counter,
    led_tick_counter, led_phase, tick_100ms_counter, tick_50ms_counter,
    slow_tick_counter, slow_phase, fast_phase, estop_phase, dark, light_steady>>

Light == INSTANCE FpgaLed WITH
  self_test_active <- light_test, test_counter <- light_test_counter,
  steady <- light_steady

VARIABLES
  tx_clks, wire_tx_state, clk_counter, tx_bit, tx_data_reg, uart_tx_o, wire_tx_done,
  uart_rx_meta, uart_rx_sync, wire_state, clk_count, bit_index, rx_shift, rx_data,
  rx_valid, framing_error, wire, low, needed, clean, delivered

wireVars ==
  <<tx_clks, wire_tx_state, clk_counter, tx_bit, tx_data_reg, uart_tx_o, wire_tx_done,
    uart_rx_meta, uart_rx_sync, wire_state, clk_count, bit_index, rx_shift, rx_data,
    rx_valid, framing_error, wire, low, needed, clean, delivered>>

Wire == INSTANCE UartLink WITH
  tx_state <- wire_tx_state, tx_done <- wire_tx_done, state <- wire_state

VARIABLES
  state, command_reg, data_reg, interbyte_counter, accepted, error, latched,
  packet, position, intact, previous_packet, previous_intact, since_byte, single

receiverVars ==
  <<state, command_reg, data_reg, interbyte_counter, accepted, error, latched,
    packet, position, intact, previous_packet, previous_intact, since_byte, single>>

Receiver == INSTANCE FpgaReceiver WITH TimeoutCount <- InterbyteTimeout

ASSUME AlarmAssumption == Buzzer!ConstantAssumption /\ Light!ConstantAssumption
ASSUME SerialAssumption ==
  Wire!ConstantAssumption /\ Wire!SkewAssumption /\ Receiver!ConstantAssumption

VARIABLE machine

allVars == <<machine, vars, buzzerVars, lightVars, wireVars, receiverVars>>

Decides ==
  /\ machine = "safety" /\ Next
  /\ UNCHANGED <<machine, buzzerVars, lightVars, wireVars, receiverVars>>
Sounds ==
  /\ machine = "buzzer" /\ Buzzer!Next
  /\ UNCHANGED <<machine, vars, lightVars, wireVars, receiverVars>>
Shines ==
  /\ machine = "light" /\ Light!Next
  /\ UNCHANGED <<machine, vars, buzzerVars, wireVars, receiverVars>>
Transmits ==
  /\ machine = "wire" /\ Wire!Next
  /\ UNCHANGED <<machine, vars, buzzerVars, lightVars, receiverVars>>
Obeys ==
  /\ machine = "receiver" /\ Receiver!Next
  /\ UNCHANGED <<machine, vars, buzzerVars, lightVars, wireVars>>

MCInit ==
  /\ Init /\ Buzzer!Init /\ Light!Init /\ Wire!Init /\ Receiver!Init
  /\ machine \in {"safety", "buzzer", "light", "wire", "receiver"}
  /\ machine # "receiver" => packet = <<1, 0>>

MCSpec ==
  /\ MCInit
  /\ [][Decides \/ Sounds \/ Shines \/ Transmits \/ Obeys]_allVars
  /\ WF_allVars(Decides)

\* An undisturbed byte arrives, once and as it was sent, and a framing error
\* means a disturbance (uart_rx.v); what the FPGA obeys was sent, and what is
\* broken off is forgotten in time (packet_parser.v).
SerialSafety ==
  /\ machine = "wire" => Wire!Safety
  /\ machine = "receiver" => Receiver!Safety

\* Of whole packets the second is obeyed after any damage, the next after
\* single faults (packet_parser.v).
WholePacketIsObeyed == Receiver!WholePacketIsObeyed

\* An alarm sounds and shines at once, and is never silent or dark for longer
\* than its pattern (buzzer_ctrl.v, led_pattern.v).
AlarmSafety ==
  /\ machine = "buzzer" => Buzzer!Safety
  /\ machine = "light" => Light!Safety
=============================================================================
