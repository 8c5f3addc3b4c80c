----------------------------- MODULE FpgaBuzzer -----------------------------
(***************************************************************************)
(* The audible half of the FPGA's outputs, clock by clock: warning_fsm.v   *)
(* names the state, buzzer_ctrl.v turns it into a pattern and a tone, and  *)
(* the self test of self_test_controller.v may take the buzzer over while  *)
(* there is nothing to warn of.  Risk, communication error and emergency   *)
(* stop come from the registers of FpgaSafety and may change at any clock. *)
(***************************************************************************)
EXTENDS Integers, FiniteSetsExt

CONSTANTS
  TICK,        \* TICK_10MS_COUNT, clocks
  Tenth,       \* pattern ticks in 100 ms: 10 in the code
  HALF_TONE    \* HALF_TONE_COUNT, clocks

ConstantAssumption ==
  /\ TICK \in Nat \ {0, 1} /\ Tenth \in Nat \ {0}
  /\ HALF_TONE \in Nat \ {0, 1} /\ HALF_TONE < TICK * Tenth

States == {"SAFE", "CAUTION", "DANGER", "CRITICAL", "COMM_ERROR", "ESTOP"}

VARIABLES
  \* registers of other modules
  effective_risk, comm_error, estop_active, self_test_active,
  \* the 200 ms rhythm of the self test
  test_counter, buzzer_tick_count, buzzer_phase,
  \* buzzer_ctrl.v
  tick_10ms_counter, pattern_counter, previous_state, previous_test_override,
  tone_counter, tone_phase,
  \* history: clocks for which an alarm has been on without sound, and clocks
  \* for which the same state has been shown
  silence, steady

inputs == <<effective_risk, comm_error, estop_active, self_test_active>>
testVars == <<test_counter, buzzer_tick_count, buzzer_phase>>
buzzerVars == <<tick_10ms_counter, pattern_counter, previous_state,
                previous_test_override, tone_counter, tone_phase>>
vars == <<inputs, testVars, buzzerVars, silence, steady>>

-----------------------------------------------------------------------------
(* Combinational logic                                                     *)

warning_state ==
  IF estop_active THEN "ESTOP" ELSE IF comm_error THEN "COMM_ERROR" ELSE effective_risk

safety_override == warning_state # "SAFE"

test_override == self_test_active /\ ~safety_override

pattern_limit ==
  CASE warning_state \in {"SAFE", "ESTOP"} -> 1
    [] warning_state \in {"DANGER", "CRITICAL"} -> 4 * Tenth
    [] warning_state \in {"CAUTION", "COMM_ERROR"} -> 10 * Tenth

\* Ticks of its pattern in which a state sounds.
Sounding(s) ==
  CASE s = "SAFE" -> {}
    [] s = "CAUTION" -> 0 .. Tenth - 1
    [] s = "DANGER" -> 0 .. 2 * Tenth - 1
    [] s = "CRITICAL" -> 0 .. 3 * Tenth - 1
    [] s = "COMM_ERROR" -> 0 .. Tenth - 1 \cup 2 * Tenth .. 3 * Tenth - 1
    [] s = "ESTOP" -> {pattern_counter}

buzzer_enable ==
  IF test_override THEN buzzer_phase ELSE pattern_counter \in Sounding(warning_state)

buzzer_out == buzzer_enable /\ tone_phase

-----------------------------------------------------------------------------
(* Registers                                                               *)

SelfTestRhythm ==
  \/ /\ ~self_test_active
     /\ test_counter' = 0 /\ buzzer_tick_count' = 0 /\ buzzer_phase' = TRUE
  \/ /\ self_test_active /\ test_counter < TICK * Tenth - 1
     /\ test_counter' = test_counter + 1
     /\ UNCHANGED <<buzzer_tick_count, buzzer_phase>>
  \/ /\ self_test_active /\ test_counter >= TICK * Tenth - 1
     /\ test_counter' = 0
     /\ buzzer_tick_count' = 1 - buzzer_tick_count
     /\ buzzer_phase' = IF buzzer_tick_count = 1 THEN ~buzzer_phase ELSE buzzer_phase

\* A new state, or the end of a self test, starts its pattern from the front.
StartsOver == warning_state # previous_state \/ test_override # previous_test_override

PatternIsOver == pattern_counter >= pattern_limit - 1

Pattern ==
  \/ /\ StartsOver
     /\ tick_10ms_counter' = 0 /\ pattern_counter' = 0
     /\ previous_state' = warning_state /\ previous_test_override' = test_override
  \/ /\ ~StartsOver /\ tick_10ms_counter < TICK - 1
     /\ tick_10ms_counter' = tick_10ms_counter + 1
     /\ UNCHANGED <<pattern_counter, previous_state, previous_test_override>>
  \/ /\ ~StartsOver /\ tick_10ms_counter >= TICK - 1
     /\ tick_10ms_counter' = 0
     /\ pattern_counter' = IF PatternIsOver THEN 0 ELSE pattern_counter + 1
     /\ UNCHANGED <<previous_state, previous_test_override>>

\* Bug: the tone starts again with every new state.
BugToneRestarts == buzzer_enable /\ ~StartsOver

ToneRuns == buzzer_enable

Tone ==
  \/ ~ToneRuns /\ tone_counter' = 0 /\ tone_phase' = FALSE
  \/ /\ ToneRuns /\ tone_counter < HALF_TONE - 1
     /\ tone_counter' = tone_counter + 1 /\ UNCHANGED tone_phase
  \/ /\ ToneRuns /\ tone_counter >= HALF_TONE - 1
     /\ tone_counter' = 0 /\ tone_phase' = ~tone_phase

-----------------------------------------------------------------------------
(* The rest of the FPGA, and the history                                   *)

\* A self test starts while all is safe and ends in the clock after it is not.
Inputs ==
  /\ effective_risk' \in {"SAFE", "CAUTION", "DANGER", "CRITICAL"}
  /\ comm_error' \in BOOLEAN /\ estop_active' \in BOOLEAN
  /\ self_test_active' \in {FALSE, ~safety_override}

LongestSteady == 3 * Tenth * TICK
LongestSilence == 9 * Tenth * TICK + 2 * HALF_TONE

History ==
  /\ steady' = IF warning_state' # warning_state \/ test_override' # test_override THEN 0
               ELSE Min({steady + 1, LongestSteady})
  /\ silence' = IF warning_state' = "SAFE" \/ buzzer_out' THEN 0
                ELSE Min({silence + 1, LongestSilence + 1})

Clock == SelfTestRhythm /\ Pattern /\ Tone /\ Inputs /\ History

Init ==
  /\ effective_risk = "SAFE" /\ comm_error = FALSE /\ estop_active = FALSE
  /\ self_test_active = FALSE
  /\ test_counter = 0 /\ buzzer_tick_count = 0 /\ buzzer_phase = TRUE
  /\ tick_10ms_counter = 0 /\ pattern_counter = 0
  /\ previous_state = "SAFE" /\ previous_test_override = FALSE
  /\ tone_counter = 0 /\ tone_phase = FALSE
  /\ silence = 0 /\ steady = 0

Next == Clock

Spec == Init /\ [][Next]_vars

-----------------------------------------------------------------------------
(* Properties                                                              *)

\* Counters stay within their patterns.
TypeOK ==
  /\ tick_10ms_counter \in 0 .. TICK - 1
  /\ pattern_counter \in 0 .. 10 * Tenth - 1
  /\ tone_counter \in 0 .. HALF_TONE - 1
  /\ test_counter \in 0 .. TICK * Tenth - 1

\* However the alarms change among each other, the buzzer is never silent for
\* longer than the pause of the slowest pattern.
AlarmIsHeard == silence <= LongestSilence

\* A new alarm sounds from its first full clock on, for as long as its pattern
\* says, whatever was sounding, or being tested, before.
AlarmSoundsAtOnce ==
  warning_state # "SAFE" /\ steady \in 1 .. TICK * Tenth => buzzer_enable

\* The invariants of the buzzer: an alarm sounds at once, and is never silent for
\* longer than its pattern.
Safety == TypeOK /\ AlarmIsHeard /\ AlarmSoundsAtOnce

=============================================================================
