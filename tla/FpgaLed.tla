------------------------------- MODULE FpgaLed -------------------------------
(***************************************************************************)
(* The visible half of the FPGA's outputs, clock by clock: led_pattern.v   *)
(* blinks for the state warning_fsm.v names, and top.v shows the pattern   *)
(* of self_test_controller.v instead while there is nothing to warn of.    *)
(* Its phases run freely, so a state may come up in the dark half of one.  *)
(***************************************************************************)
EXTENDS Integers, FiniteSetsExt

CONSTANT TICK_50MS    \* TICK_50MS_COUNT, clocks

ConstantAssumption == TICK_50MS \in Nat \ {0}

TICK_100MS == 2 * TICK_50MS
States == {"SAFE", "CAUTION", "DANGER", "CRITICAL", "COMM_ERROR", "ESTOP"}
Off == <<FALSE, FALSE>>

VARIABLES
  \* registers of other modules
  warning_state, self_test_active, test_shows_led,
  \* the rhythm of the self test
  test_counter, led_tick_counter, led_phase,
  \* led_pattern.v
  tick_100ms_counter, tick_50ms_counter, slow_tick_counter,
  slow_phase, fast_phase, estop_phase,
  \* history: clocks for which an alarm has shown no light, and clocks for
  \* which the same state has been shown
  dark, steady

inputs == <<warning_state, self_test_active, test_shows_led>>
testVars == <<test_counter, led_tick_counter, led_phase>>
ledVars == <<tick_100ms_counter, tick_50ms_counter, slow_tick_counter,
             slow_phase, fast_phase, estop_phase>>
vars == <<inputs, testVars, ledVars, dark, steady>>

-----------------------------------------------------------------------------
(* Combinational logic                                                     *)

\* The pair is LED 1, LED 0.
led_pattern_out ==
  CASE warning_state = "SAFE" -> Off
    [] warning_state = "CAUTION" -> <<FALSE, slow_phase>>
    [] warning_state = "DANGER" -> <<fast_phase, ~fast_phase>>
    [] warning_state = "CRITICAL" -> <<TRUE, TRUE>>
    [] warning_state = "COMM_ERROR" -> <<fast_phase, fast_phase>>
    [] warning_state = "ESTOP" -> <<estop_phase, estop_phase>>

test_led_out ==
  IF ~self_test_active \/ ~test_shows_led THEN Off
  ELSE <<led_phase \in {1, 2}, led_phase \in {0, 2}>>

safety_override == warning_state # "SAFE"

self_test_output_enable == self_test_active /\ ~safety_override

selected_led_pattern ==
  IF self_test_output_enable THEN test_led_out ELSE led_pattern_out

-----------------------------------------------------------------------------
(* Registers                                                               *)

SelfTestRhythm ==
  \/ ~self_test_active /\ test_counter' = 0 /\ led_tick_counter' = 0 /\ led_phase' = 0
  \/ /\ self_test_active /\ test_counter < TICK_100MS - 1
     /\ test_counter' = test_counter + 1 /\ UNCHANGED <<led_tick_counter, led_phase>>
  \/ /\ self_test_active /\ test_counter >= TICK_100MS - 1
     /\ test_counter' = 0
     /\ led_tick_counter' = (led_tick_counter + 1) % 5
     /\ led_phase' = IF led_tick_counter = 4 THEN (led_phase + 1) % 4 ELSE led_phase

SlowIsOver == slow_tick_counter = 4

Phases100ms ==
  IF tick_100ms_counter >= TICK_100MS - 1
    THEN /\ tick_100ms_counter' = 0
         /\ fast_phase' = ~fast_phase
         /\ slow_tick_counter' = IF SlowIsOver THEN 0 ELSE slow_tick_counter + 1
         /\ slow_phase' = IF SlowIsOver THEN ~slow_phase ELSE slow_phase
    ELSE /\ tick_100ms_counter' = tick_100ms_counter + 1
         /\ UNCHANGED <<fast_phase, slow_tick_counter, slow_phase>>

Phase50ms ==
  IF tick_50ms_counter >= TICK_50MS - 1
    THEN tick_50ms_counter' = 0 /\ estop_phase' = ~estop_phase
    ELSE tick_50ms_counter' = tick_50ms_counter + 1 /\ UNCHANGED estop_phase

-----------------------------------------------------------------------------
(* The rest of the FPGA, and the history                                   *)

\* A self test starts while all is safe and ends in the clock after it is not.
Inputs ==
  /\ warning_state' \in States
  /\ self_test_active' \in {FALSE, ~safety_override}
  /\ IF self_test_active /\ self_test_active'
       THEN UNCHANGED test_shows_led ELSE test_shows_led' \in BOOLEAN

LongestDark == 6 * TICK_100MS

History ==
  /\ steady' = IF warning_state' # warning_state THEN 0
               ELSE Min({steady + 1, 5 * TICK_100MS})
  /\ dark' = IF warning_state' = "SAFE" \/ selected_led_pattern' # Off THEN 0
             ELSE Min({dark + 1, LongestDark + 1})

Clock == SelfTestRhythm /\ Phases100ms /\ Phase50ms /\ Inputs /\ History

Init ==
  /\ warning_state = "SAFE" /\ self_test_active = FALSE /\ test_shows_led = FALSE
  /\ test_counter = 0 /\ led_tick_counter = 0 /\ led_phase = 0
  /\ tick_100ms_counter = 0 /\ tick_50ms_counter = 0 /\ slow_tick_counter = 0
  /\ slow_phase = FALSE /\ fast_phase = FALSE /\ estop_phase = FALSE
  /\ dark = 0 /\ steady = 0

Next == Clock

Spec == Init /\ [][Next]_vars

-----------------------------------------------------------------------------
(* Properties                                                              *)

\* The counters stay within their periods.
TypeOK ==
  /\ tick_100ms_counter \in 0 .. TICK_100MS - 1
  /\ tick_50ms_counter \in 0 .. TICK_50MS - 1
  /\ slow_tick_counter \in 0 .. 4 /\ led_tick_counter \in 0 .. 4 /\ led_phase \in 0 .. 3

\* A state that is shown steadily has been lit after half a second at most,
\* in whichever half of its phase it came up, and every half second again.
AlarmIsSeen ==
  warning_state # "SAFE" /\ steady >= 5 * TICK_100MS => dark <= 5 * TICK_100MS

\* However the alarms change among each other, the lights are never dark for
\* more than 600 ms: the three rhythms never leave them dark together longer.
DarkIsBounded == dark <= LongestDark

\* The invariants of the light: an alarm is seen, and never dark for longer than
\* its pattern.
Safety == TypeOK /\ AlarmIsSeen /\ DarkIsBounded

=============================================================================
