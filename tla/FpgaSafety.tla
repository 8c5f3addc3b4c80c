----------------------------- MODULE FpgaSafety -----------------------------
(***************************************************************************)
(* The safety logic of the forklift's FPGA (gpio-control/src, top.v): the  *)
(* emergency stop, the forward cutoff, the warning latch, the watchdog on  *)
(* the terminal computer and the self test.                                *)
(*                                                                         *)
(* Every register is clocked by the same edge, so one action, Clock, is    *)
(* the conjunction of one action per Verilog module, each reading the      *)
(* registers as they were before the edge.  The inputs of an edge are the  *)
(* synchronised switch and button levels and what the packet parser        *)
(* decoded, if anything.  The counts are those of the millisecond          *)
(* parameters in clocks.                                                   *)
(***************************************************************************)
EXTENDS Integers

CONSTANTS
  Risks,           \* risk levels the terminal sends in SET_RISK
  SelfTestModes,   \* modes the terminal sends in SELF_TEST, 0 = STOP
  DebounceCount,   \* button_debounce: DEBOUNCE_COUNT
  ReleaseCount,    \* estop_filter: RELEASE_COUNT
  HoldCount,       \* warning_latch: HOLD_COUNT
  TimeoutCount,    \* watchdog: TIMEOUT_COUNT
  AutoStopCount    \* self_test_controller: AUTO_STOP_COUNT

SAFE == 0
CRITICAL == 3
TEST_STOP == 0

\* top.v debounces the reset button and the release of the stop switch over
\* the same 20 ms; the reset of a stop rests on the button not being quicker.
ASSUME CountAssumption ==
  /\ DebounceCount \in Nat \ {0} /\ ReleaseCount \in Nat \ {0}
  /\ DebounceCount <= ReleaseCount
  /\ HoldCount \in Nat \ {0} /\ TimeoutCount \in Nat \ {0}
  /\ AutoStopCount \in Nat \ {0}

ASSUME InputAssumption ==
  /\ Risks \subseteq SAFE .. CRITICAL
  /\ SelfTestModes \subseteq 0 .. 3

\* What the packet parser reports in one clock.
NoCommand == [kind |-> "none", data |-> 0]
Commands ==
  {NoCommand} \cup [kind : {"SET_RISK"}, data : Risks]
              \cup [kind : {"SELF_TEST"}, data : SelfTestModes]

VARIABLES
  button_pressed, press_pulse, debounce_counter,           \* button_debounce
  estop_pressed, release_counter,                          \* estop_filter
  estop_active,                                            \* estop_latch
  movement_cutoff_active,                                  \* movement_cutoff_latch
  effective_risk, pending_risk, hold_counter, latch_active, \* warning_latch
  comm_error, watchdog_count,                              \* watchdog
  self_test_active, active_mode, auto_stop_counter         \* self_test_controller

\* History, for the properties only: for how many clocks, up to a bound, the
\* switch has been up, the button down, and how long ago the commands came.
VARIABLES
  switch_up, button_down,
  since_set_risk, since_holding_risk, since_critical, since_start_test,
  reported_risk            \* the level in the latest SET_RISK

resetVars == <<button_pressed, press_pulse, debounce_counter>>
estopVars == <<estop_pressed, release_counter>>
riskVars == <<effective_risk, pending_risk, hold_counter, latch_active>>
commVars == <<comm_error, watchdog_count>>
testVars == <<self_test_active, active_mode, auto_stop_counter>>
historyVars == <<switch_up, button_down, since_set_risk, since_holding_risk,
                 since_critical, since_start_test, reported_risk>>
vars == <<resetVars, estopVars, estop_active, movement_cutoff_active, riskVars,
          commVars, testVars, historyVars>>

-----------------------------------------------------------------------------
(* Emergency stop and manual reset                                         *)

\* button_debounce: a level counts once it was stable for DebounceCount clocks.
Debounce(down) ==
  LET stable == down <=> button_pressed
      settled == ~stable /\ debounce_counter >= DebounceCount - 1
  IN
  /\ debounce_counter' = IF stable \/ settled THEN 0 ELSE debounce_counter + 1
  /\ button_pressed' = IF settled THEN down ELSE button_pressed
  /\ press_pulse' = (settled /\ down)

ReleaseSettled == release_counter >= ReleaseCount - 1

\* estop_filter: a press counts at once, only the release is debounced.
EstopFilter(stop) ==
  /\ estop_pressed' = (stop \/ (estop_pressed /\ ~ReleaseSettled))
  /\ release_counter' =
       IF ~stop /\ estop_pressed /\ ~ReleaseSettled THEN release_counter + 1 ELSE 0

\* estop_latch: a pressed switch wins over the reset.
EstopLatch ==
  estop_active' = (estop_pressed \/ (estop_active /\ ~press_pulse))

\* Bug: the raw level of the latest command replaces the latched one.
BugUnlatchedTrigger == estop_active \/ pending_risk = CRITICAL

movement_cutoff_trigger == estop_active \/ effective_risk = CRITICAL

\* movement_cutoff_latch: the relay that blocks the forward button.
MovementCutoffLatch ==
  movement_cutoff_active' =
    (movement_cutoff_trigger \/ (movement_cutoff_active /\ ~press_pulse))

-----------------------------------------------------------------------------
(* Warning latch, watchdog, self test                                      *)

RiskArrives(cmd) == cmd.kind = "SET_RISK"
HoldsOrRaises(cmd) == RiskArrives(cmd) /\ cmd.data >= effective_risk
Lowers(cmd) == RiskArrives(cmd) /\ cmd.data < effective_risk

RaiseRisk(cmd) ==
  /\ HoldsOrRaises(cmd)
  /\ effective_risk' = cmd.data
  /\ pending_risk' = cmd.data
  /\ hold_counter' = 0
  /\ latch_active' = FALSE

\* Bug: every lower packet starts the hold again.
BugHoldRestarts(cmd) ==
  IF Lowers(cmd) /\ hold_counter < HoldCount - 1 THEN 0
  ELSE IF hold_counter >= HoldCount - 1 THEN 0 ELSE hold_counter + 1

\* A lower packet replaces the level fallen to, but does not restart the hold.
NextHold(cmd) ==
  IF hold_counter >= HoldCount - 1 THEN 0 ELSE hold_counter + 1

\* Bug: the hold ends a clock early.
BugShortHold(cmd) ==
  LET fallTo == IF Lowers(cmd) THEN cmd.data ELSE pending_risk IN
  /\ ~HoldsOrRaises(cmd) /\ latch_active
  /\ pending_risk' = fallTo
  /\ hold_counter' = NextHold(cmd)
  /\ latch_active' = (hold_counter + 1 < HoldCount - 1)
  /\ effective_risk' = IF latch_active' THEN effective_risk ELSE fallTo

HoldRisk(cmd) ==
  LET fallTo == IF Lowers(cmd) THEN cmd.data ELSE pending_risk IN
  /\ ~HoldsOrRaises(cmd) /\ latch_active
  /\ pending_risk' = fallTo
  /\ hold_counter' = NextHold(cmd)
  /\ latch_active' = (hold_counter < HoldCount - 1)
  /\ effective_risk' = IF latch_active' THEN effective_risk ELSE fallTo

StartHold(cmd) ==
  /\ Lowers(cmd) /\ ~latch_active
  /\ pending_risk' = cmd.data
  /\ hold_counter' = 0
  /\ latch_active' = TRUE
  /\ UNCHANGED effective_risk

KeepRisk(cmd) ==
  /\ ~RiskArrives(cmd) /\ ~latch_active
  /\ UNCHANGED riskVars

WarningLatch(cmd) ==
  RaiseRisk(cmd) \/ HoldRisk(cmd) \/ StartHold(cmd) \/ KeepRisk(cmd)

\* Bug: any command of the terminal feeds the watchdog.
BugFedByAnyCommand(cmd) ==
  /\ comm_error' = (cmd = NoCommand /\ (comm_error \/ watchdog_count >= TimeoutCount - 1))
  /\ watchdog_count' =
       IF cmd # NoCommand \/ comm_error THEN 0
       ELSE IF watchdog_count >= TimeoutCount - 1 THEN watchdog_count
       ELSE watchdog_count + 1

\* watchdog: only SET_RISK feeds it; an error lasts until the next SET_RISK.
Watchdog(cmd) ==
  LET expired == watchdog_count >= TimeoutCount - 1 IN
  /\ comm_error' = (~RiskArrives(cmd) /\ (comm_error \/ expired))
  /\ watchdog_count' =
       IF RiskArrives(cmd) \/ comm_error THEN 0
       ELSE IF expired THEN watchdog_count
       ELSE watchdog_count + 1

self_test_allowed == effective_risk = SAFE /\ ~comm_error /\ ~estop_active

StartsTest(cmd) == cmd.kind = "SELF_TEST" /\ cmd.data # TEST_STOP

EndTest ==
  /\ self_test_active' = FALSE
  /\ active_mode' = TEST_STOP
  /\ auto_stop_counter' = 0

AutoStops == auto_stop_counter >= AutoStopCount - 1

\* self_test_controller: the mode and its end (the LED phases are left out).
SelfTest(cmd) ==
  \/ /\ \/ ~self_test_allowed
        \/ cmd.kind = "SELF_TEST" /\ cmd.data = TEST_STOP
        \/ cmd.kind # "SELF_TEST" /\ (self_test_active => AutoStops)
     /\ EndTest
  \/ /\ self_test_allowed /\ StartsTest(cmd)
     /\ self_test_active' = TRUE
     /\ active_mode' = cmd.data
     /\ auto_stop_counter' = 0
  \/ /\ self_test_allowed /\ cmd.kind # "SELF_TEST"
     /\ self_test_active /\ ~AutoStops
     /\ auto_stop_counter' = auto_stop_counter + 1
     /\ UNCHANGED <<self_test_active, active_mode>>

-----------------------------------------------------------------------------
(* The clock                                                               *)

Tick(n, bound) == IF n < bound THEN n + 1 ELSE bound

Observe(stop, down, cmd) ==
  /\ switch_up' = IF stop THEN 0 ELSE Tick(switch_up, ReleaseCount)
  /\ button_down' = IF down THEN Tick(button_down, ReleaseCount) ELSE 0
  /\ since_set_risk' =
       IF RiskArrives(cmd) THEN 0 ELSE Tick(since_set_risk, TimeoutCount)
  /\ since_holding_risk' =
       IF HoldsOrRaises(cmd) THEN 0 ELSE Tick(since_holding_risk, HoldCount)
  /\ since_critical' =
       IF RiskArrives(cmd) /\ cmd.data = CRITICAL THEN 0
       ELSE Tick(since_critical, HoldCount + 1)
  /\ since_start_test' =
       IF StartsTest(cmd) THEN 0 ELSE Tick(since_start_test, AutoStopCount)
  /\ reported_risk' = IF RiskArrives(cmd) THEN cmd.data ELSE reported_risk

Clock(stop, down, cmd) ==
  /\ Debounce(down)
  /\ EstopFilter(stop)
  /\ EstopLatch
  /\ MovementCutoffLatch
  /\ WarningLatch(cmd)
  /\ Watchdog(cmd)
  /\ SelfTest(cmd)
  /\ Observe(stop, down, cmd)

\* rst_n.  The switch is up and the button released while the board powers up.
Init ==
  /\ button_pressed = FALSE /\ press_pulse = FALSE /\ debounce_counter = 0
  /\ estop_pressed = FALSE /\ release_counter = 0
  /\ estop_active = FALSE /\ movement_cutoff_active = FALSE
  /\ effective_risk = SAFE /\ pending_risk = SAFE
  /\ hold_counter = 0 /\ latch_active = FALSE
  /\ comm_error = TRUE /\ watchdog_count = 0
  /\ self_test_active = FALSE /\ active_mode = TEST_STOP
  /\ auto_stop_counter = 0
  /\ switch_up = ReleaseCount /\ button_down = 0
  /\ since_set_risk = TimeoutCount /\ since_holding_risk = HoldCount
  /\ since_critical = HoldCount + 1 /\ since_start_test = AutoStopCount
  /\ reported_risk = SAFE

Next == \E stop, down \in BOOLEAN, cmd \in Commands : Clock(stop, down, cmd)

Spec == Init /\ [][Next]_vars

\* The oscillator does not stop.
FairSpec == Spec /\ WF_vars(Next)

-----------------------------------------------------------------------------
(* Properties                                                              *)

\* Every register holds a value of its width and every counter stays below
\* the count it is compared with.
TypeOK ==
  /\ button_pressed \in BOOLEAN /\ press_pulse \in BOOLEAN
  /\ debounce_counter \in 0 .. DebounceCount - 1
  /\ estop_pressed \in BOOLEAN /\ release_counter \in 0 .. ReleaseCount - 1
  /\ estop_active \in BOOLEAN /\ movement_cutoff_active \in BOOLEAN
  /\ effective_risk \in SAFE .. CRITICAL /\ pending_risk \in SAFE .. CRITICAL
  /\ hold_counter \in 0 .. HoldCount - 1 /\ latch_active \in BOOLEAN
  /\ comm_error \in BOOLEAN /\ watchdog_count \in 0 .. TimeoutCount - 1
  /\ self_test_active \in BOOLEAN /\ active_mode \in 0 .. 3
  /\ auto_stop_counter \in 0 .. AutoStopCount - 1
  /\ switch_up \in 0 .. ReleaseCount /\ button_down \in 0 .. ReleaseCount
  /\ since_set_risk \in 0 .. TimeoutCount
  /\ since_holding_risk \in 0 .. HoldCount
  /\ since_critical \in 0 .. HoldCount + 1
  /\ since_start_test \in 0 .. AutoStopCount
  /\ reported_risk \in SAFE .. CRITICAL

\* The warning shown never lies below the level last reported, and it lies
\* above it exactly while a fall is being held: no order of packets, not even
\* one that meets the end of a hold, leaves a stale level behind.
WarningCoversReport ==
  /\ effective_risk >= reported_risk
  /\ latch_active <=> effective_risk > reported_risk

\* The warning falls only when for the whole hold time no packet reported the
\* shown level or more (one lost frame of the camera must not clear it).
RiskFallsOnlyAfterHold ==
  [][effective_risk' < effective_risk => since_holding_risk >= HoldCount]_vars

\* Whenever the reset button is pressed, the forward cutoff outlasts the last
\* CRITICAL report by the hold time: a press while the risk is shown, or while
\* its fall is being held, does not free the forklift.
CutoffOutlastsItsCause ==
  [][movement_cutoff_active /\ ~movement_cutoff_active'
     => since_critical > HoldCount]_vars

\* The stop is cleared only by a press of the reset button that began after
\* the stop switch was let go: a button held down or pressed before that, with
\* any bouncing of the two contacts, clears nothing.
ResetPressedAfterSwitchReleased ==
  [][estop_active /\ ~estop_active' => 0 < button_down /\ button_down <= switch_up]_vars

\* The communication error is on exactly when no SET_RISK came during the
\* timeout; no other command hides the loss of the risk reports.
CommErrorIsExact == comm_error <=> since_set_risk >= TimeoutCount

\* A self test never runs longer than the auto-stop time after the command
\* that started it.
SelfTestBounded == self_test_active => since_start_test < AutoStopCount

\* A risk that stays SAFE in the reports is in the end shown as SAFE, however
\* often the reports are repeated.
SafeIsShownInTheEnd ==
  <>[](reported_risk = SAFE) => <>[](effective_risk = SAFE)

\* PROTOCOL.md:268: the stop and the cutoff are always released together by
\* one operation of the reset button.  Here, for a terminal that never reports
\* CRITICAL: once the button is let go and the stop is clear, so is the cutoff.
OneResetReleasesBoth ==
  [][ /\ button_pressed /\ ~button_pressed'
      /\ ~estop_active /\ ~estop_active'
      /\ effective_risk < CRITICAL
      => ~movement_cutoff_active' ]_vars

\* The invariants of the board: the warning covers the report, the watchdog is
\* exact, and a self test ends.
Safety == TypeOK /\ WarningCoversReport /\ CommErrorIsExact /\ SelfTestBounded

=============================================================================
