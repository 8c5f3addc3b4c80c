-------------------------- MODULE FpgaSafetyProofs --------------------------
(***************************************************************************)
(* Proofs about the FPGA: its safety logic, for every debounce, hold,      *)
(* timeout and auto-stop count; its buzzer and its light, for every length *)
(* of their ticks; the serial wire, for every bit length and byte size     *)
(* whose ends agree about the middle of a bit; and the receiver, for every *)
(* set of packets and every gap that breaks one off.                       *)
(***************************************************************************)
EXTENDS MCFpgaSafety, TLAPS

\* A level that is falling is the one reported last, and the hold counter
\* never runs ahead of the clocks since a packet held the shown level.
HoldInv ==
  /\ WarningCoversReport
  /\ latch_active => pending_risk = reported_risk
                     /\ hold_counter + 1 <= since_holding_risk

\* A level below CRITICAL means CRITICAL was last reported a whole hold ago.
CriticalInv ==
  /\ effective_risk < CRITICAL => since_critical = HoldCount + 1
  /\ effective_risk = CRITICAL => since_holding_risk <= since_critical

\* The two debounce counters measure how long the contacts have been stable.
ContactInv ==
  /\ estop_pressed => release_counter <= switch_up
  /\ ~estop_pressed => switch_up = ReleaseCount
  /\ ~button_pressed => debounce_counter = button_down
  /\ press_pulse => button_down = DebounceCount

WatchdogInv ==
  /\ comm_error => since_set_risk = TimeoutCount
  /\ ~comm_error => watchdog_count = since_set_risk

TestInv == self_test_active => since_start_test = auto_stop_counter

IInv == TypeOK /\ HoldInv /\ CriticalInv /\ ContactInv /\ WatchdogInv /\ TestInv

USE DEF SAFE, CRITICAL, TEST_STOP

\* The assumption on the counts, as inequalities.
LEMMA Counts ==
  /\ DebounceCount \in Nat /\ ReleaseCount \in Nat /\ HoldCount \in Nat
  /\ TimeoutCount \in Nat /\ AutoStopCount \in Nat
  /\ DebounceCount >= 1 /\ ReleaseCount >= 1 /\ HoldCount >= 1
  /\ TimeoutCount >= 1 /\ AutoStopCount >= 1
  /\ DebounceCount <= ReleaseCount
BY CountAssumption

LEMMA InitIInv == Init => IInv
<1> SUFFICES ASSUME Init PROVE IInv
  OBVIOUS
<1>1. TypeOK
  <2>1. /\ button_pressed \in BOOLEAN /\ press_pulse \in BOOLEAN
        /\ estop_pressed \in BOOLEAN /\ estop_active \in BOOLEAN
        /\ movement_cutoff_active \in BOOLEAN /\ latch_active \in BOOLEAN
        /\ comm_error \in BOOLEAN /\ self_test_active \in BOOLEAN
    BY Zenon DEF Init
  <2>2. /\ debounce_counter = 0 /\ release_counter = 0 /\ hold_counter = 0
        /\ watchdog_count = 0 /\ auto_stop_counter = 0 /\ active_mode = 0
        /\ effective_risk = 0 /\ pending_risk = 0 /\ reported_risk = 0
        /\ switch_up = ReleaseCount /\ button_down = 0
        /\ since_set_risk = TimeoutCount /\ since_holding_risk = HoldCount
        /\ since_critical = HoldCount + 1 /\ since_start_test = AutoStopCount
    BY DEF Init
  <2> QED BY <2>1, <2>2, Counts DEF TypeOK
<1>2. HoldInv /\ CriticalInv
  BY DEF Init, HoldInv, WarningCoversReport, CriticalInv
<1>3. ContactInv /\ WatchdogInv /\ TestInv
  BY DEF Init, ContactInv, WatchdogInv, TestInv
<1> QED BY <1>1, <1>2, <1>3 DEF IInv

-----------------------------------------------------------------------------
(* One step, module by module                                              *)

\* A counted history never exceeds its bound.
LEMMA TickType ==
  ASSUME NEW b \in Nat, NEW n \in 0 .. b
  PROVE  /\ Tick(n, b) \in 0 .. b
         /\ n < b => Tick(n, b) = n + 1
         /\ n = b => Tick(n, b) = b
BY DEF Tick

\* The level in a command is one the parser accepts.
LEMMA CommandType ==
  ASSUME NEW cmd \in Commands
  PROVE  /\ RiskArrives(cmd) => cmd.data \in SAFE .. CRITICAL
         /\ StartsTest(cmd) => cmd.data \in 1 .. 3
<1>1. CASE cmd = NoCommand
  BY <1>1 DEF NoCommand, RiskArrives, StartsTest
<1>2. CASE cmd \in [kind : {"SET_RISK"}, data : Risks]
  BY <1>2, InputAssumption DEF RiskArrives, StartsTest
<1>3. CASE cmd \in [kind : {"SELF_TEST"}, data : SelfTestModes]
  <2>1. cmd.kind = "SELF_TEST" /\ cmd.data \in 0 .. 3
    BY <1>3, InputAssumption
  <2> QED BY <2>1 DEF RiskArrives, StartsTest
<1> QED BY <1>1, <1>2, <1>3 DEF Commands

LEMMA DebounceStep ==
  ASSUME IInv, NEW stop \in BOOLEAN, NEW down \in BOOLEAN, NEW cmd,
         Debounce(down), Observe(stop, down, cmd)
  PROVE  /\ button_pressed' \in BOOLEAN /\ press_pulse' \in BOOLEAN
         /\ debounce_counter' \in 0 .. DebounceCount - 1
         /\ button_down' \in 0 .. ReleaseCount
         /\ ~button_pressed' => debounce_counter' = button_down'
         /\ press_pulse' => button_down' = DebounceCount
<1>1. /\ button_pressed \in BOOLEAN
      /\ debounce_counter \in 0 .. DebounceCount - 1
      /\ button_down \in 0 .. ReleaseCount
      /\ ~button_pressed => debounce_counter = button_down
  BY DEF IInv, TypeOK, ContactInv
<1>2. /\ button_down' = IF down THEN Tick(button_down, ReleaseCount) ELSE 0
      /\ button_pressed' \in BOOLEAN /\ press_pulse' \in BOOLEAN
  BY <1>1 DEF Observe, Debounce
<1>3. CASE (down <=> button_pressed)
  <2>1. /\ debounce_counter' = 0
        /\ button_pressed' = button_pressed
        /\ ~press_pulse'
    BY <1>3 DEF Debounce
  <2> QED BY <1>1, <1>2, <1>3, <2>1, Counts DEF Tick
<1>4. CASE ~(down <=> button_pressed) /\ debounce_counter < DebounceCount - 1
  <2>1. /\ debounce_counter' = debounce_counter + 1
        /\ button_pressed' = button_pressed
        /\ ~press_pulse'
    BY <1>1, <1>4, Counts DEF Debounce
  <2> QED BY <1>1, <1>2, <1>4, <2>1, Counts DEF Tick
<1>5. CASE ~(down <=> button_pressed) /\ debounce_counter >= DebounceCount - 1
  <2>1. /\ debounce_counter' = 0
        /\ button_pressed' = down
        /\ press_pulse' => down
    BY <1>5 DEF Debounce
  <2> QED BY <1>1, <1>2, <1>5, <2>1, Counts DEF Tick
<1> QED BY <1>1, <1>3, <1>4, <1>5, Counts

LEMMA EstopFilterStep ==
  ASSUME IInv, NEW stop \in BOOLEAN, NEW down \in BOOLEAN, NEW cmd,
         EstopFilter(stop), Observe(stop, down, cmd)
  PROVE  /\ estop_pressed' \in BOOLEAN
         /\ release_counter' \in 0 .. ReleaseCount - 1
         /\ switch_up' \in 0 .. ReleaseCount
         /\ estop_pressed' => release_counter' <= switch_up'
         /\ ~estop_pressed' => switch_up' = ReleaseCount
<1>1. /\ estop_pressed \in BOOLEAN
      /\ release_counter \in 0 .. ReleaseCount - 1
      /\ switch_up \in 0 .. ReleaseCount
      /\ estop_pressed => release_counter <= switch_up
      /\ ~estop_pressed => switch_up = ReleaseCount
  BY DEF IInv, TypeOK, ContactInv
<1>a. estop_pressed' \in BOOLEAN
  BY Zenon DEF EstopFilter
<1>b. ReleaseSettled <=> release_counter >= ReleaseCount - 1
  BY DEF ReleaseSettled
<1>c. switch_up' = IF stop THEN 0 ELSE Tick(switch_up, ReleaseCount)
  BY DEF Observe
<1>2. CASE stop
  <2>1. estop_pressed' /\ release_counter' = 0 /\ switch_up' = 0
    BY <1>2, <1>c DEF EstopFilter
  <2> QED BY <1>a, <2>1, Counts
<1>3. CASE ~stop /\ estop_pressed /\ release_counter < ReleaseCount - 1
  <2>1. estop_pressed' /\ release_counter' = release_counter + 1
    <3>1. ~ReleaseSettled
      BY <1>1, <1>3, <1>b, Counts
    <3> QED BY <1>3, <3>1 DEF EstopFilter
  <2> QED BY <1>1, <1>3, <1>a, <1>c, <2>1, Counts DEF Tick
<1>4. CASE ~stop /\ ~(estop_pressed /\ release_counter < ReleaseCount - 1)
  <2>1. ~estop_pressed' /\ release_counter' = 0
    <3>1. ~estop_pressed \/ ReleaseSettled
      BY <1>1, <1>4, <1>b, Counts
    <3> QED BY <1>4, <3>1 DEF EstopFilter
  <2> QED BY <1>1, <1>4, <1>a, <1>b, <1>c, <2>1, Counts DEF Tick
<1> QED BY <1>2, <1>3, <1>4

LEMMA WarningLatchStep ==
  ASSUME IInv, NEW stop, NEW down, NEW cmd \in Commands,
         WarningLatch(cmd), Observe(stop, down, cmd)
  PROVE  /\ effective_risk' \in SAFE .. CRITICAL
         /\ pending_risk' \in SAFE .. CRITICAL
         /\ hold_counter' \in 0 .. HoldCount - 1 /\ latch_active' \in BOOLEAN
         /\ reported_risk' \in SAFE .. CRITICAL
         /\ since_holding_risk' \in 0 .. HoldCount
         /\ since_critical' \in 0 .. HoldCount + 1
         /\ HoldInv'
         /\ CriticalInv'
<1>1. /\ effective_risk \in SAFE .. CRITICAL /\ pending_risk \in SAFE .. CRITICAL
      /\ hold_counter \in 0 .. HoldCount - 1 /\ latch_active \in BOOLEAN
      /\ reported_risk \in SAFE .. CRITICAL
      /\ since_holding_risk \in 0 .. HoldCount
      /\ since_critical \in 0 .. HoldCount + 1
      /\ HoldInv /\ CriticalInv
  BY DEF IInv, TypeOK
<1>2. RiskArrives(cmd) => cmd.data \in SAFE .. CRITICAL
  BY CommandType
<1>3. /\ since_holding_risk' =
           IF HoldsOrRaises(cmd) THEN 0 ELSE Tick(since_holding_risk, HoldCount)
      /\ since_critical' = IF RiskArrives(cmd) /\ cmd.data = CRITICAL THEN 0
                           ELSE Tick(since_critical, HoldCount + 1)
      /\ reported_risk' = IF RiskArrives(cmd) THEN cmd.data ELSE reported_risk
      /\ HoldsOrRaises(cmd) <=> RiskArrives(cmd) /\ cmd.data >= effective_risk
      /\ Lowers(cmd) <=> RiskArrives(cmd) /\ cmd.data < effective_risk
  BY DEF Observe, HoldsOrRaises, Lowers
<1>4. /\ since_holding_risk' \in 0 .. HoldCount
      /\ since_critical' \in 0 .. HoldCount + 1
      /\ reported_risk' \in SAFE .. CRITICAL
      /\ HoldsOrRaises(cmd) => since_holding_risk' = 0
      /\ ~HoldsOrRaises(cmd) /\ since_holding_risk < HoldCount
           => since_holding_risk' = since_holding_risk + 1
      /\ ~HoldsOrRaises(cmd) /\ since_holding_risk = HoldCount
           => since_holding_risk' = HoldCount
  BY <1>1, <1>2, <1>3, Counts DEF Tick
<1>5. latch_active' \in BOOLEAN
  <2>1. RaiseRisk(cmd) => latch_active' = FALSE
    BY DEF RaiseRisk
  <2>2. HoldRisk(cmd) => latch_active' \in BOOLEAN
    <3>1. (hold_counter < HoldCount - 1) \in BOOLEAN
      BY <1>1, Counts
    <3> QED BY <3>1, Zenon DEF HoldRisk
  <2>3. StartHold(cmd) => latch_active' = TRUE
    BY DEF StartHold
  <2>4. KeepRisk(cmd) => latch_active' = latch_active
    BY DEF KeepRisk, riskVars
  <2> QED BY <1>1, <2>1, <2>2, <2>3, <2>4, Zenon DEF WarningLatch
<1>6. CASE RaiseRisk(cmd)
  <2>1. /\ RiskArrives(cmd) /\ cmd.data >= effective_risk
        /\ effective_risk' = cmd.data /\ pending_risk' = cmd.data
        /\ hold_counter' = 0 /\ ~latch_active'
    BY <1>3, <1>6 DEF RaiseRisk
  <2>2. HoldInv'
    BY <1>2, <1>3, <2>1 DEF HoldInv, WarningCoversReport
  <2>3. CriticalInv'
    BY <1>1, <1>2, <1>3, <2>1, Counts DEF CriticalInv, Tick
  <2> QED BY <1>2, <1>4, <1>5, <2>1, <2>2, <2>3, Counts
<1>7. CASE HoldRisk(cmd)
  <2>1. /\ ~HoldsOrRaises(cmd) /\ latch_active
        /\ pending_risk' = IF Lowers(cmd) THEN cmd.data ELSE pending_risk
        /\ hold_counter' = NextHold(cmd)
        /\ latch_active' <=> (hold_counter < HoldCount - 1)
        /\ effective_risk' = IF latch_active' THEN effective_risk ELSE pending_risk'
    BY <1>7 DEF HoldRisk
  <2>2. pending_risk' \in SAFE .. CRITICAL /\ pending_risk' = reported_risk'
    BY <1>1, <1>2, <1>3, <2>1 DEF HoldInv
  <2>3. /\ effective_risk > reported_risk'
        /\ effective_risk' \in SAFE .. CRITICAL
        /\ hold_counter' \in 0 .. HoldCount - 1
    BY <1>1, <1>2, <1>3, <2>1, <2>2, Counts
       DEF HoldInv, WarningCoversReport, NextHold
  <2>4. HoldInv'
    BY <1>1, <1>4, <2>1, <2>2, <2>3, Counts
       DEF HoldInv, WarningCoversReport, NextHold
  <2>5. CriticalInv'
    <3>1. CASE latch_active'
      BY <1>1, <1>2, <1>3, <1>4, <2>1, <3>1, Counts DEF CriticalInv, Tick
    <3>2. CASE ~latch_active'
      <4>1. since_holding_risk = HoldCount /\ effective_risk' < effective_risk
        BY <1>1, <2>1, <2>2, <2>3, <3>2, Counts DEF HoldInv
      <4>2. since_critical >= HoldCount
        BY <1>1, <4>1, Counts DEF CriticalInv
      <4> QED
        BY <1>1, <1>2, <1>3, <2>1, <2>3, <4>1, <4>2, Counts DEF CriticalInv, Tick
    <3> QED BY <3>1, <3>2
  <2> QED BY <1>4, <1>5, <2>2, <2>3, <2>4, <2>5
<1>8. CASE StartHold(cmd)
  <2>1. /\ Lowers(cmd) /\ ~HoldsOrRaises(cmd)
        /\ pending_risk' = cmd.data /\ hold_counter' = 0
        /\ latch_active' /\ effective_risk' = effective_risk
    BY <1>1, <1>2, <1>3, <1>8 DEF StartHold
  <2>2. HoldInv'
    BY <1>1, <1>2, <1>3, <1>4, <2>1, Counts DEF HoldInv, WarningCoversReport
  <2>3. CriticalInv'
    BY <1>1, <1>2, <1>3, <1>4, <2>1, Counts DEF CriticalInv, Tick
  <2> QED BY <1>1, <1>2, <1>3, <1>4, <1>5, <2>1, <2>2, <2>3, Counts
<1>9. CASE KeepRisk(cmd)
  <2>1. /\ ~RiskArrives(cmd) /\ ~latch_active /\ ~latch_active'
        /\ effective_risk' = effective_risk /\ pending_risk' = pending_risk
        /\ hold_counter' = hold_counter
    BY <1>9 DEF KeepRisk, riskVars
  <2>2. HoldInv'
    BY <1>1, <1>3, <2>1 DEF HoldInv, WarningCoversReport
  <2>3. CriticalInv'
    BY <1>1, <1>3, <1>4, <2>1, Counts DEF CriticalInv, Tick
  <2> QED BY <1>1, <1>4, <1>5, <2>1, <2>2, <2>3
<1> QED BY <1>6, <1>7, <1>8, <1>9 DEF WarningLatch

LEMMA WatchdogStep ==
  ASSUME IInv, NEW stop, NEW down, NEW cmd \in Commands,
         Watchdog(cmd), Observe(stop, down, cmd)
  PROVE  /\ comm_error' \in BOOLEAN
         /\ watchdog_count' \in 0 .. TimeoutCount - 1
         /\ since_set_risk' \in 0 .. TimeoutCount
         /\ WatchdogInv'
<1>1. /\ comm_error \in BOOLEAN
      /\ watchdog_count \in 0 .. TimeoutCount - 1
      /\ since_set_risk \in 0 .. TimeoutCount
      /\ WatchdogInv
  BY DEF IInv, TypeOK
<1>a. comm_error' \in BOOLEAN
  BY Zenon DEF Watchdog
<1>2. CASE RiskArrives(cmd)
  <2>1. ~comm_error' /\ watchdog_count' = 0 /\ since_set_risk' = 0
    BY <1>2 DEF Watchdog, Observe
  <2> QED BY <1>a, <2>1, Counts DEF WatchdogInv
<1>3. CASE ~RiskArrives(cmd) /\ comm_error
  <2>1. /\ comm_error' /\ watchdog_count' = 0
        /\ since_set_risk' = Tick(since_set_risk, TimeoutCount)
    BY <1>3 DEF Watchdog, Observe
  <2> QED BY <1>1, <1>3, <1>a, <2>1, Counts DEF Tick, WatchdogInv
<1>4. CASE ~RiskArrives(cmd) /\ ~comm_error /\ watchdog_count < TimeoutCount - 1
  <2>1. /\ ~comm_error' /\ watchdog_count' = watchdog_count + 1
        /\ since_set_risk' = Tick(since_set_risk, TimeoutCount)
    BY <1>1, <1>4, Counts DEF Watchdog, Observe
  <2> QED BY <1>1, <1>4, <1>a, <2>1, Counts DEF Tick, WatchdogInv
<1>5. CASE ~RiskArrives(cmd) /\ ~comm_error /\ watchdog_count >= TimeoutCount - 1
  <2>1. /\ comm_error' /\ watchdog_count' = watchdog_count
        /\ since_set_risk' = Tick(since_set_risk, TimeoutCount)
    BY <1>1, <1>5, Counts DEF Watchdog, Observe
  <2> QED BY <1>1, <1>5, <1>a, <2>1, Counts DEF Tick, WatchdogInv
<1> QED BY <1>1, <1>2, <1>3, <1>4, <1>5, Counts

LEMMA SelfTestStep ==
  ASSUME IInv, NEW stop, NEW down, NEW cmd \in Commands,
         SelfTest(cmd), Observe(stop, down, cmd)
  PROVE  /\ self_test_active' \in BOOLEAN /\ active_mode' \in 0 .. 3
         /\ auto_stop_counter' \in 0 .. AutoStopCount - 1
         /\ since_start_test' \in 0 .. AutoStopCount
         /\ TestInv'
<1>1. /\ self_test_active \in BOOLEAN /\ active_mode \in 0 .. 3
      /\ auto_stop_counter \in 0 .. AutoStopCount - 1
      /\ since_start_test \in 0 .. AutoStopCount
      /\ TestInv
  BY DEF IInv, TypeOK
<1>2. since_start_test' \in 0 .. AutoStopCount
  BY <1>1, Counts DEF Observe, Tick
<1>3. CASE EndTest
  <2>1. /\ self_test_active' \in BOOLEAN /\ ~self_test_active'
        /\ active_mode' = 0 /\ auto_stop_counter' = 0
    BY <1>3, Zenon DEF EndTest
  <2> QED BY <1>2, <2>1, Counts DEF TestInv
<1>4. CASE /\ StartsTest(cmd)
           /\ self_test_active' = TRUE
           /\ active_mode' = cmd.data
           /\ auto_stop_counter' = 0
  BY <1>2, <1>4, CommandType, Counts DEF Observe, TestInv
<1>5. CASE /\ cmd.kind # "SELF_TEST" /\ self_test_active /\ ~AutoStops
           /\ auto_stop_counter' = auto_stop_counter + 1
           /\ UNCHANGED <<self_test_active, active_mode>>
  BY <1>1, <1>2, <1>5, Counts
     DEF AutoStops, Observe, StartsTest, Tick, TestInv
<1> QED BY <1>3, <1>4, <1>5 DEF SelfTest

LEMMA NextIInv == IInv /\ [Next]_vars => IInv'
<1>1. ASSUME IInv, NEW stop \in BOOLEAN, NEW down \in BOOLEAN,
             NEW cmd \in Commands, Clock(stop, down, cmd)
      PROVE  IInv'
  <2>1. /\ Debounce(down) /\ EstopFilter(stop) /\ WarningLatch(cmd)
        /\ Watchdog(cmd) /\ SelfTest(cmd) /\ Observe(stop, down, cmd)
    BY <1>1 DEF Clock
  <2>2. estop_active' \in BOOLEAN /\ movement_cutoff_active' \in BOOLEAN
    BY <1>1 DEF Clock, EstopLatch, MovementCutoffLatch
  <2>3. ContactInv'
    BY <1>1, <2>1, DebounceStep, EstopFilterStep DEF ContactInv
  <2>4. HoldInv' /\ CriticalInv' /\ WatchdogInv' /\ TestInv'
    BY <1>1, <2>1, WarningLatchStep, WatchdogStep, SelfTestStep
  <2>5. TypeOK'
    BY <1>1, <2>1, <2>2, DebounceStep, EstopFilterStep, WarningLatchStep,
       WatchdogStep, SelfTestStep DEF TypeOK
  <2> QED BY <2>3, <2>4, <2>5 DEF IInv
<1>2. ASSUME IInv, UNCHANGED vars
      PROVE  IInv'
  BY <1>2 DEF IInv, TypeOK, HoldInv, WarningCoversReport, CriticalInv,
              ContactInv, WatchdogInv, TestInv, vars, resetVars, estopVars,
              riskVars, commVars, testVars, historyVars
<1> QED BY <1>1, <1>2 DEF Next

-----------------------------------------------------------------------------
(* The theorems                                                            *)

\* The counters agree with the real time since the events they time.
THEOREM InductiveInvariant == Spec => []IInv
BY InitIInv, NextIInv, PTL DEF Spec

\* No register leaves its range, whatever the counts.
THEOREM TypeCorrect == Spec => []TypeOK
<1>1. IInv => TypeOK BY DEF IInv
<1> QED BY InductiveInvariant, <1>1, PTL

\* The warning shown is never below the reported level, and above it exactly
\* during a hold.
THEOREM WarningIsCurrent == Spec => []WarningCoversReport
<1>1. IInv => WarningCoversReport BY DEF IInv, HoldInv
<1> QED BY InductiveInvariant, <1>1, PTL

\* The watchdog reports the loss of the risk reports, neither early nor late.
THEOREM WatchdogIsExact == Spec => []CommErrorIsExact
<1>1. IInv => CommErrorIsExact
  BY Counts DEF IInv, TypeOK, WatchdogInv, CommErrorIsExact
<1> QED BY InductiveInvariant, <1>1, PTL

\* A self test ends in time.
THEOREM SelfTestEnds == Spec => []SelfTestBounded
<1>1. IInv => SelfTestBounded
  BY Counts DEF IInv, TypeOK, TestInv, SelfTestBounded
<1> QED BY InductiveInvariant, <1>1, PTL

\* No warning falls before its hold time is over.
THEOREM HoldIsKept == Spec => RiskFallsOnlyAfterHold
<1>1. IInv /\ [Next]_vars
      => [effective_risk' < effective_risk => since_holding_risk >= HoldCount]_vars
  <2> SUFFICES ASSUME IInv, NEW cmd \in Commands, WarningLatch(cmd),
                      effective_risk' < effective_risk
               PROVE  since_holding_risk >= HoldCount
    BY DEF Next, Clock
  <2>1. effective_risk \in SAFE .. CRITICAL
    BY DEF IInv, TypeOK
  <2>2. ~RaiseRisk(cmd)
    BY <2>1, CommandType DEF RaiseRisk, HoldsOrRaises
  <2>3. ~StartHold(cmd) /\ ~KeepRisk(cmd)
    BY <2>1 DEF StartHold, KeepRisk, riskVars
  <2>4. HoldRisk(cmd)
    BY <2>2, <2>3 DEF WarningLatch
  <2>5. latch_active /\ ~(hold_counter < HoldCount - 1)
    <3>1. latch_active' <=> (hold_counter < HoldCount - 1)
      BY <2>4 DEF HoldRisk
    <3> QED BY <2>1, <2>4, <3>1 DEF HoldRisk
  <2> QED
    BY <2>5, Counts DEF IInv, TypeOK, HoldInv
<1> QED BY InductiveInvariant, <1>1, PTL DEF Spec, RiskFallsOnlyAfterHold

\* The cutoff survives every reset pressed before the CRITICAL hold is over.
THEOREM CutoffIsHeld == Spec => CutoffOutlastsItsCause
<1>1. IInv /\ [Next]_vars
      => [movement_cutoff_active /\ ~movement_cutoff_active'
          => since_critical > HoldCount]_vars
  <2> SUFFICES ASSUME IInv, MovementCutoffLatch,
                      movement_cutoff_active, ~movement_cutoff_active'
               PROVE  since_critical > HoldCount
    BY DEF Next, Clock
  <2>1. effective_risk # CRITICAL
    BY DEF MovementCutoffLatch, movement_cutoff_trigger
  <2> QED
    BY <2>1, Counts DEF IInv, TypeOK, CriticalInv
<1> QED BY InductiveInvariant, <1>1, PTL DEF Spec, CutoffOutlastsItsCause

\* Only a press that begins after the switch is let go clears the stop, for
\* every pair of debounce times of which the button's is not the longer.
THEOREM ResetIsDeliberate == Spec => ResetPressedAfterSwitchReleased
<1>1. IInv /\ [Next]_vars
      => [estop_active /\ ~estop_active'
          => 0 < button_down /\ button_down <= switch_up]_vars
  <2> SUFFICES ASSUME IInv, EstopLatch, estop_active, ~estop_active'
               PROVE  0 < button_down /\ button_down <= switch_up
    BY DEF Next, Clock
  <2>1. ~estop_pressed /\ press_pulse
    BY DEF EstopLatch
  <2>2. button_down = DebounceCount /\ switch_up = ReleaseCount
    BY <2>1 DEF IInv, ContactInv
  <2> QED BY <2>2, Counts
<1> QED BY InductiveInvariant, <1>1, PTL DEF Spec, ResetPressedAfterSwitchReleased

\* The invariants of the module together, as its run checks them.
THEOREM SafetyHolds == Spec => []Safety
<1> QED BY TypeCorrect, WarningIsCurrent, WatchdogIsExact, SelfTestEnds, PTL DEF Safety

-----------------------------------------------------------------------------
(* The buzzer                                                              *)

\* Clocks since the pattern began, and clocks in a tenth of a second.
Clocks == pattern_counter * TICK + tick_10ms_counter
TenthClocks == TICK * Tenth

BuzzerTypes ==
  /\ Buzzer!TypeOK
  /\ tone_phase \in BOOLEAN /\ buzzer_test \in BOOLEAN
  /\ buzzer_risk \in {"SAFE", "CAUTION", "DANGER", "CRITICAL"}
  /\ silence \in Nat /\ buzzer_steady \in Nat

\* A state shown from one clock to the next has its pattern from the front.
AtOnceInv ==
  Buzzer!warning_state # "SAFE" =>
    /\ buzzer_steady = 0 => Buzzer!StartsOver
    /\ buzzer_steady \in 1 .. TenthClocks => Clocks <= buzzer_steady - 1

SteadyInv ==
  buzzer_steady >= 1 =>
    /\ previous_state = Buzzer!warning_state
    /\ previous_test_override = Buzzer!test_override

\* Silence ends with the first half tone of a pattern, and the longest one
\* began in its first tenth.
SilenceInv ==
  /\ Buzzer!warning_state = "SAFE" => silence = 0
  /\ Buzzer!warning_state # "SAFE" /\ Clocks >= TenthClocks =>
       silence <= HALF_TONE + Clocks + 1 - TenthClocks
  /\ Buzzer!warning_state # "SAFE" /\ Clocks < TenthClocks =>
       /\ tone_phase => silence = 0
       /\ ~tone_phase =>
            \/ silence <= tone_counter + 1
            \/ /\ tone_counter >= Clocks
               /\ silence <= HALF_TONE + 9 * TenthClocks + tone_counter + 1

BuzzerInv == BuzzerTypes /\ AtOnceInv /\ SteadyInv /\ SilenceInv

LEMMA BuzzerConstants ==
  /\ TICK \in Nat /\ TICK >= 2 /\ Tenth \in Nat /\ Tenth >= 1
  /\ HALF_TONE \in Nat /\ HALF_TONE >= 2 /\ HALF_TONE < TICK * Tenth
BY AlarmAssumption DEF Buzzer!ConstantAssumption

LEMMA BuzzerMin ==
  ASSUME NEW a \in Int, NEW b \in Int
  PROVE  /\ Buzzer!Min({a, b}) = (IF a <= b THEN a ELSE b)
         /\ Buzzer!Min({a, b}) \in Int
         /\ Buzzer!Min({a, b}) <= a /\ Buzzer!Min({a, b}) <= b
<1>1. Buzzer!Min({a, b}) = (IF a <= b THEN a ELSE b)
  <2>1. \E x \in {a, b} : \A y \in {a, b} : x <= y
    OBVIOUS
  <2>2. Buzzer!Min({a, b}) = CHOOSE x \in {a, b} : \A y \in {a, b} : x <= y
    BY Zenon DEF Buzzer!Min
  <2>3. Buzzer!Min({a, b}) \in {a, b} /\ \A y \in {a, b} : Buzzer!Min({a, b}) <= y
    BY <2>1, <2>2, Zenon
  <2> QED
    BY <2>3
<1> QED
  BY <1>1

LEMMA Multiples ==
  ASSUME NEW a \in Nat, NEW b \in Nat, NEW c \in Nat
  PROVE  /\ a * c \in Nat
         /\ a <= b => a * c <= b * c
         /\ (a + 1) * c = a * c + c
         /\ a * c = c * a
         /\ (10 * a) * c = 10 * (a * c)
<1>1. a <= b => a * c <= b * c
  <2> SUFFICES ASSUME a <= b PROVE a * c <= b * c
    OBVIOUS
  <2> DEFINE d == b - a
  <2>1. d \in Nat /\ b = a + d
    OBVIOUS
  <2>2. d * c \in Nat /\ a * c \in Nat
    BY <2>1
  <2>3. b * c = a * c + d * c
    BY <2>1
  <2> QED
    BY <2>2, <2>3
<1> QED
  BY <1>1

\* Where in its pattern the buzzer is, as a count of clocks.
LEMMA ClocksFacts ==
  ASSUME pattern_counter \in 0 .. 10 * Tenth - 1, tick_10ms_counter \in 0 .. TICK - 1
  PROVE  /\ Clocks \in Nat /\ TenthClocks \in Nat /\ HALF_TONE < TenthClocks
         /\ Clocks < 10 * TenthClocks
         /\ Clocks < TenthClocks => pattern_counter < Tenth
         /\ Clocks >= pattern_counter * TICK
<1>1. /\ TICK \in Nat /\ Tenth \in Nat /\ pattern_counter \in Nat
      /\ pattern_counter + 1 \in Nat /\ 10 * Tenth \in Nat
      /\ pattern_counter + 1 <= 10 * Tenth
      /\ tick_10ms_counter \in Nat /\ tick_10ms_counter < TICK
  BY BuzzerConstants
<1>2. /\ pattern_counter * TICK \in Nat /\ Tenth * TICK \in Nat
      /\ (pattern_counter + 1) * TICK = pattern_counter * TICK + TICK
      /\ (pattern_counter + 1) * TICK <= (10 * Tenth) * TICK
      /\ (10 * Tenth) * TICK = 10 * (Tenth * TICK)
      /\ Tenth * TICK = TICK * Tenth
      /\ Tenth <= pattern_counter => Tenth * TICK <= pattern_counter * TICK
  BY <1>1, Multiples
<1> DEFINE p == pattern_counter * TICK
           t == Tenth * TICK
<1>3. Clocks = p + tick_10ms_counter /\ TenthClocks = t
  BY <1>2 DEF Clocks, TenthClocks
<1>4. p \in Nat /\ t \in Nat /\ p + TICK <= 10 * t
      /\ (Tenth <= pattern_counter => t <= p)
  BY <1>1, <1>2
<1>5. HALF_TONE < t
  BY <1>2, BuzzerConstants
<1> HIDE DEF p, t
<1>6. pattern_counter >= Tenth \/ pattern_counter < Tenth
  BY <1>1
<1>7. Clocks >= p
  BY <1>1, <1>3, <1>4
<1> QED
  BY <1>1, <1>3, <1>4, <1>5, <1>6, <1>7 DEF p

LEMMA BuzzerInit == Buzzer!Init => BuzzerInv
<1> SUFFICES ASSUME Buzzer!Init PROVE BuzzerInv
  OBVIOUS
<1>1. /\ buzzer_risk = "SAFE" /\ ~buzzer_comm_error /\ ~buzzer_estop
      /\ silence = 0 /\ buzzer_steady = 0 /\ tick_10ms_counter = 0
      /\ pattern_counter = 0 /\ tone_counter = 0 /\ buzzer_test_counter = 0
  BY DEF Buzzer!Init
<1>2. tone_phase \in BOOLEAN /\ buzzer_test \in BOOLEAN
  BY Zenon DEF Buzzer!Init
<1>3. Buzzer!warning_state = "SAFE"
  BY <1>1 DEF Buzzer!warning_state
<1>4. TICK * Tenth >= 1 /\ TICK * Tenth \in Nat
  BY BuzzerConstants
<1>5. Buzzer!TypeOK
  BY <1>1, <1>4, BuzzerConstants DEF Buzzer!TypeOK
<1> QED
  BY <1>1, <1>2, <1>3, <1>5 DEF BuzzerInv, BuzzerTypes, AtOnceInv, SteadyInv, SilenceInv

\* How the pattern goes on.
LEMMA PatternStep ==
  ASSUME BuzzerTypes, Buzzer!Clock
  PROVE  /\ tick_10ms_counter' \in 0 .. TICK - 1
         /\ pattern_counter' \in 0 .. 10 * Tenth - 1
         /\ Clocks' = 0 \/ Clocks' = Clocks + 1
         /\ Buzzer!StartsOver => Clocks' = 0
         /\ previous_state' = Buzzer!warning_state
         /\ previous_test_override' = Buzzer!test_override
<1>1. /\ tick_10ms_counter \in 0 .. TICK - 1
      /\ pattern_counter \in 0 .. 10 * Tenth - 1
  BY DEF BuzzerTypes, Buzzer!TypeOK
<1>2. Buzzer!Pattern
  BY DEF Buzzer!Clock
<1>3. /\ previous_state' = Buzzer!warning_state
      /\ previous_test_override' = Buzzer!test_override
  BY <1>2, Zenon DEF Buzzer!Pattern, Buzzer!StartsOver
<1>4. Buzzer!pattern_limit - 1 <= 10 * Tenth - 1
      /\ Buzzer!pattern_limit \in Int
  <2>1. Buzzer!warning_state \in Buzzer!States
    BY DEF Buzzer!warning_state, BuzzerTypes, Buzzer!States
  <2> QED
    BY <2>1, BuzzerConstants DEF Buzzer!pattern_limit, Buzzer!States
<1>5. CASE Buzzer!StartsOver
  <2>1. tick_10ms_counter' = 0 /\ pattern_counter' = 0
    BY <1>2, <1>5 DEF Buzzer!Pattern
  <2>2. Clocks' = 0
    BY <2>1, BuzzerConstants DEF Clocks
  <2> QED
    BY <1>3, <2>1, <2>2, BuzzerConstants
<1>6. CASE ~Buzzer!StartsOver /\ tick_10ms_counter < TICK - 1
  <2>1. tick_10ms_counter' = tick_10ms_counter + 1 /\ pattern_counter' = pattern_counter
    BY <1>1, <1>2, <1>6, BuzzerConstants DEF Buzzer!Pattern
  <2>2. pattern_counter * TICK \in Nat
    BY <1>1, Multiples, BuzzerConstants
  <2>3. Clocks' = Clocks + 1
    BY <1>1, <2>1, <2>2 DEF Clocks
  <2> QED
    BY <1>1, <1>3, <1>6, <2>1, <2>3, BuzzerConstants
<1>7. CASE ~Buzzer!StartsOver /\ ~(tick_10ms_counter < TICK - 1)
  <2>1. /\ tick_10ms_counter' = 0 /\ tick_10ms_counter = TICK - 1
        /\ pattern_counter' = (IF Buzzer!PatternIsOver THEN 0 ELSE pattern_counter + 1)
    BY <1>1, <1>2, <1>7, BuzzerConstants DEF Buzzer!Pattern
  <2>2. CASE Buzzer!PatternIsOver
    <3>1. Clocks' = 0
      BY <2>1, <2>2, BuzzerConstants DEF Clocks
    <3> QED
      BY <1>3, <1>7, <2>1, <2>2, <3>1, BuzzerConstants
  <2>3. CASE ~Buzzer!PatternIsOver
    <3>1. pattern_counter' = pattern_counter + 1 /\ pattern_counter < 10 * Tenth - 1
      BY <1>1, <1>4, <2>1, <2>3, BuzzerConstants DEF Buzzer!PatternIsOver
    <3>2. (pattern_counter + 1) * TICK = pattern_counter * TICK + TICK
          /\ pattern_counter * TICK \in Nat
      BY <1>1, Multiples, BuzzerConstants
    <3>3. Clocks' = (pattern_counter + 1) * TICK + 0
      BY <2>1, <3>1 DEF Clocks
    <3>4. Clocks' = Clocks + 1
      BY <2>1, <3>2, <3>3, BuzzerConstants DEF Clocks
    <3> QED
      BY <1>1, <1>3, <1>7, <2>1, <3>1, <3>4, BuzzerConstants
  <2> QED
    BY <2>2, <2>3
<1> QED
  BY <1>5, <1>6, <1>7

\* In the first tenth of its pattern every alarm sounds.
LEMMA EnabledEarly ==
  BuzzerTypes /\ Buzzer!warning_state # "SAFE" /\ Clocks < TenthClocks
    => Buzzer!buzzer_enable
<1> SUFFICES ASSUME BuzzerTypes, Buzzer!warning_state # "SAFE", Clocks < TenthClocks
             PROVE  Buzzer!buzzer_enable
  OBVIOUS
<1>1. pattern_counter \in Nat /\ pattern_counter < Tenth
  BY ClocksFacts DEF BuzzerTypes, Buzzer!TypeOK
<1>2. Buzzer!warning_state \in Buzzer!States
  BY DEF Buzzer!warning_state, BuzzerTypes, Buzzer!States
<1>3. pattern_counter \in Buzzer!Sounding(Buzzer!warning_state)
  BY <1>1, <1>2, BuzzerConstants DEF Buzzer!Sounding, Buzzer!States
<1>4. ~Buzzer!test_override
  BY DEF Buzzer!test_override, Buzzer!safety_override
<1> QED
  BY <1>3, <1>4, Zenon DEF Buzzer!buzzer_enable

LEMMA EnabledEarlyNext ==
  (BuzzerTypes /\ Buzzer!warning_state # "SAFE" /\ Clocks < TenthClocks)'
    => Buzzer!buzzer_enable'
BY EnabledEarly, PTL

LEMMA ToneStep ==
  ASSUME BuzzerTypes, Buzzer!Clock
  PROVE  /\ tone_counter' \in 0 .. HALF_TONE - 1 /\ tone_phase' \in BOOLEAN
         /\ Buzzer!buzzer_enable /\ ~tone_phase =>
              tone_phase' \/ tone_counter' = tone_counter + 1
<1>1. tone_counter \in 0 .. HALF_TONE - 1 /\ tone_phase \in BOOLEAN
  BY DEF BuzzerTypes, Buzzer!TypeOK
<1>2. Buzzer!Tone
  BY DEF Buzzer!Clock
<1>3. tone_counter' \in 0 .. HALF_TONE - 1
  BY <1>1, <1>2, BuzzerConstants DEF Buzzer!Tone
<1>4. tone_phase' = FALSE \/ tone_phase' = tone_phase \/ tone_phase' = ~tone_phase
  BY <1>2, Zenon DEF Buzzer!Tone
<1>5. tone_phase' \in BOOLEAN
  BY <1>1, <1>4, Zenon
<1>6. Buzzer!buzzer_enable /\ ~tone_phase => tone_phase' \/ tone_counter' = tone_counter + 1
  BY <1>1, <1>2, BuzzerConstants DEF Buzzer!Tone, Buzzer!ToneRuns
<1> QED
  BY <1>3, <1>5, <1>6

LEMMA BuzzerTypesKept ==
  ASSUME BuzzerTypes, Buzzer!Clock
  PROVE  /\ BuzzerTypes'
         /\ silence' <= silence + 1 /\ buzzer_steady' <= buzzer_steady + 1
         /\ Buzzer!warning_state' = "SAFE" \/ Buzzer!buzzer_out' => silence' = 0
         /\ IF \/ Buzzer!warning_state' # Buzzer!warning_state
               \/ Buzzer!test_override' # Buzzer!test_override
              THEN buzzer_steady' = 0
              ELSE buzzer_steady' >= 1
<1> DEFINE changes == \/ Buzzer!warning_state' # Buzzer!warning_state
                      \/ Buzzer!test_override' # Buzzer!test_override
           quiet == Buzzer!warning_state' = "SAFE" \/ Buzzer!buzzer_out'
           a == buzzer_steady + 1
           b == Buzzer!LongestSteady
           c == silence + 1
           d == Buzzer!LongestSilence + 1
<1>1. /\ buzzer_steady' = (IF changes THEN 0 ELSE Buzzer!Min({a, b}))
      /\ silence' = (IF quiet THEN 0 ELSE Buzzer!Min({c, d}))
  BY Zenon DEF Buzzer!Clock, Buzzer!History
<1>2. silence \in Nat /\ buzzer_steady \in Nat
  BY DEF BuzzerTypes
<1>3. a \in Int /\ a >= 1 /\ c \in Int /\ c >= 1
  BY <1>2
<1>4. Tenth * TICK \in Nat /\ Tenth * TICK >= 1 /\ HALF_TONE \in Nat
  BY BuzzerConstants
<1>5. b \in Int /\ b >= 1 /\ d \in Int /\ d >= 1
  <2>1. b = 3 * (Tenth * TICK)
    BY BuzzerConstants DEF Buzzer!LongestSteady
  <2>2. d = 9 * (Tenth * TICK) + 2 * HALF_TONE + 1
    BY BuzzerConstants DEF Buzzer!LongestSilence
  <2> DEFINE t == Tenth * TICK
  <2> HIDE DEF t
  <2>3. b = 3 * t /\ d = 9 * t + 2 * HALF_TONE + 1 /\ t \in Nat /\ t >= 1
    BY <2>1, <2>2, <1>4 DEF t
  <2> HIDE DEF b, d
  <2> QED
    BY <2>3, <1>4
<1> HIDE DEF changes, quiet, a, b, c, d
<1>6. /\ Buzzer!Min({a, b}) \in Int /\ Buzzer!Min({a, b}) <= a
      /\ Buzzer!Min({a, b}) = a \/ Buzzer!Min({a, b}) = b
  BY <1>3, <1>5, BuzzerMin
<1>7. /\ Buzzer!Min({c, d}) \in Int /\ Buzzer!Min({c, d}) <= c
      /\ Buzzer!Min({c, d}) = c \/ Buzzer!Min({c, d}) = d
  BY <1>3, <1>5, BuzzerMin
<1>8. /\ buzzer_steady' \in Nat /\ buzzer_steady' <= a
      /\ changes => buzzer_steady' = 0
      /\ ~changes => buzzer_steady' >= 1
  BY <1>1, <1>3, <1>5, <1>6
<1>9. silence' \in Nat /\ silence' <= c /\ (quiet => silence' = 0)
  BY <1>1, <1>3, <1>5, <1>7
<1>10. Buzzer!TypeOK'
  <2>1. buzzer_test_counter \in 0 .. TICK * Tenth - 1 /\ TICK * Tenth \in Nat
        /\ TICK * Tenth >= 1
    BY BuzzerConstants DEF BuzzerTypes, Buzzer!TypeOK
  <2> DEFINE t == TICK * Tenth
  <2>2. \/ buzzer_test_counter' = 0
        \/ buzzer_test_counter < t - 1 /\ buzzer_test_counter' = buzzer_test_counter + 1
    BY Zenon DEF Buzzer!Clock, Buzzer!SelfTestRhythm
  <2> HIDE DEF t
  <2>3. buzzer_test_counter \in 0 .. t - 1 /\ t \in Nat /\ t >= 1
    BY <2>1 DEF t
  <2>4. buzzer_test_counter' \in 0 .. t - 1
    BY <2>2, <2>3
  <2> QED
    BY <2>4, PatternStep, ToneStep DEF Buzzer!TypeOK, t
<1>11. /\ tone_phase' \in BOOLEAN
       /\ buzzer_risk' \in {"SAFE", "CAUTION", "DANGER", "CRITICAL"}
  BY ToneStep DEF Buzzer!Clock, Buzzer!Inputs
<1>12. buzzer_test' \in BOOLEAN
  <2>1. buzzer_test' = FALSE \/ buzzer_test' = (~Buzzer!safety_override)
    BY Zenon DEF Buzzer!Clock, Buzzer!Inputs
  <2> QED
    BY <2>1, Zenon
<1>13. BuzzerTypes'
  BY <1>8, <1>9, <1>10, <1>11, <1>12 DEF BuzzerTypes
<1> QED
  BY <1>8, <1>9, <1>13 DEF changes, quiet, a, c

LEMMA AtOnceKept ==
  ASSUME BuzzerInv, Buzzer!Clock
  PROVE  SteadyInv' /\ AtOnceInv'
<1>1. /\ previous_state' = Buzzer!warning_state
      /\ previous_test_override' = Buzzer!test_override
      /\ Clocks' = 0 \/ Clocks' = Clocks + 1
      /\ Buzzer!StartsOver => Clocks' = 0
  BY PatternStep DEF BuzzerInv
<1>2. /\ buzzer_steady' \in Nat /\ buzzer_steady' <= buzzer_steady + 1
      /\ buzzer_steady \in Nat
  BY BuzzerTypesKept DEF BuzzerInv, BuzzerTypes
<1> DEFINE changes == \/ Buzzer!warning_state' # Buzzer!warning_state
                      \/ Buzzer!test_override' # Buzzer!test_override
<1>3. /\ changes => buzzer_steady' = 0
      /\ ~changes => buzzer_steady' >= 1
  BY BuzzerTypesKept, Zenon DEF BuzzerInv
<1>4. ~changes => /\ previous_state' = Buzzer!warning_state'
                  /\ previous_test_override' = Buzzer!test_override'
  BY <1>1, Zenon
<1>5. changes => Buzzer!StartsOver'
  BY <1>1, Zenon DEF Buzzer!StartsOver
<1>6. Clocks \in Nat /\ TenthClocks \in Nat
  BY ClocksFacts DEF BuzzerInv, BuzzerTypes, Buzzer!TypeOK
<1>7. ~changes => Buzzer!warning_state' = Buzzer!warning_state
  BY Zenon
<1> HIDE DEF changes
<1>8. SteadyInv'
  BY <1>2, <1>3, <1>4 DEF SteadyInv
<1>9. ASSUME Buzzer!warning_state' # "SAFE", buzzer_steady' \in 1 .. TenthClocks
      PROVE  Clocks' <= buzzer_steady' - 1
  <2>1. Buzzer!warning_state # "SAFE" /\ ~changes
    BY <1>2, <1>3, <1>7, <1>9
  <2>2. CASE buzzer_steady = 0
    <3>1. Buzzer!StartsOver
      BY <2>1, <2>2 DEF BuzzerInv, AtOnceInv
    <3>2. Clocks' = 0
      BY <3>1, <1>1
    <3> DEFINE n == buzzer_steady'
    <3>3. n \in Nat /\ n >= 1
      BY <1>2, <1>3, <2>1
    <3> HIDE DEF n
    <3>4. 0 <= n - 1
      BY <3>3
    <3> QED
      BY <3>2, <3>4 DEF n
  <2>3. CASE buzzer_steady >= 1
    <3>1. buzzer_steady' = buzzer_steady + 1
      <4> DEFINE a == buzzer_steady + 1
                 b == Buzzer!LongestSteady
      <4>1. buzzer_steady' = Buzzer!Min({a, b})
        BY <2>1, Zenon DEF Buzzer!Clock, Buzzer!History, changes
      <4>2. b \in Int /\ b > TenthClocks
        <5>1. b = 3 * (TICK * Tenth) /\ TICK * Tenth \in Nat /\ TICK * Tenth >= 1
          BY BuzzerConstants DEF Buzzer!LongestSteady
        <5> QED
          BY <5>1 DEF TenthClocks
      <4>3. a \in Int
        BY <1>2
      <4> HIDE DEF b, a
      <4>4. buzzer_steady' = a \/ buzzer_steady' = b
        BY <4>1, <4>2, <4>3, BuzzerMin
      <4> QED
        BY <4>2, <4>4, <1>6, <1>9 DEF a
    <3>2. Clocks <= buzzer_steady - 1
      BY <1>2, <1>6, <1>9, <2>1, <2>3, <3>1 DEF BuzzerInv, AtOnceInv
    <3> QED
      BY <1>1, <1>2, <1>6, <3>1, <3>2, <2>3
  <2> QED
    BY <1>2, <2>2, <2>3
<1>10. AtOnceInv'
  <2>1. buzzer_steady' = 0 => Buzzer!StartsOver'
    BY <1>2, <1>3, <1>5
  <2>2. TenthClocks' = TenthClocks
    BY DEF TenthClocks
  <2> QED
    BY <1>9, <2>1, <2>2 DEF AtOnceInv
<1> QED
  BY <1>8, <1>10

LEMMA SilenceKept ==
  ASSUME BuzzerInv, Buzzer!Clock
  PROVE  SilenceInv'
<1> DEFINE w == Buzzer!warning_state
           c == Clocks
           t == TenthClocks
           wn == Buzzer!warning_state'
           cn == Clocks'
           sn == silence'
           kn == tone_counter'
<1>1. /\ c \in Nat /\ t \in Nat /\ HALF_TONE < t /\ c < 10 * t
      /\ HALF_TONE \in Nat /\ HALF_TONE >= 2
  BY ClocksFacts, BuzzerConstants DEF BuzzerInv, BuzzerTypes, Buzzer!TypeOK
<1>2. cn = 0 \/ cn = c + 1
  BY PatternStep DEF BuzzerInv
<1>3. /\ silence \in Nat /\ tone_counter \in 0 .. HALF_TONE - 1 /\ tone_phase \in BOOLEAN
      /\ sn \in Nat /\ sn <= silence + 1
      /\ kn \in 0 .. HALF_TONE - 1 /\ tone_phase' \in BOOLEAN
      /\ BuzzerTypes' /\ BuzzerTypes
  BY BuzzerTypesKept, ToneStep DEF BuzzerInv, BuzzerTypes, Buzzer!TypeOK
<1>4. TenthClocks' = t
  BY DEF TenthClocks
<1>5. wn = "SAFE" => sn = 0
  BY BuzzerTypesKept DEF BuzzerInv
<1>6. wn # "SAFE" /\ cn < t /\ tone_phase' => sn = 0
  <2>1. wn # "SAFE" /\ cn < t /\ tone_phase' => Buzzer!buzzer_out'
    BY <1>3, <1>4, EnabledEarlyNext DEF Buzzer!buzzer_out
  <2> QED
    BY <2>1, BuzzerTypesKept DEF BuzzerInv
<1>7. w # "SAFE" /\ c < t /\ ~tone_phase => tone_phase' \/ kn = tone_counter + 1
  <2>1. w # "SAFE" /\ c < t => Buzzer!buzzer_enable
    BY <1>3, EnabledEarly
  <2> QED
    BY <2>1, <1>3, ToneStep
<1>8. /\ w = "SAFE" => silence = 0
      /\ w # "SAFE" /\ c >= t => silence <= HALF_TONE + c + 1 - t
      /\ w # "SAFE" /\ c < t /\ tone_phase => silence = 0
      /\ w # "SAFE" /\ c < t /\ ~tone_phase =>
           \/ silence <= tone_counter + 1
           \/ /\ tone_counter >= c
              /\ silence <= HALF_TONE + 9 * t + tone_counter + 1
  BY DEF BuzzerInv, SilenceInv
<1> HIDE DEF w, c, t, wn, cn, sn, kn
<1>9. wn # "SAFE" /\ cn >= t => sn <= HALF_TONE + cn + 1 - t
  <2> SUFFICES ASSUME wn # "SAFE", cn >= t PROVE sn <= HALF_TONE + cn + 1 - t
    OBVIOUS
  <2>1. cn = c + 1
    BY <1>1, <1>2
  <2>2. CASE silence = 0
    BY <1>1, <1>3, <2>1, <2>2
  <2>3. CASE w # "SAFE" /\ c >= t
    BY <1>1, <1>3, <1>8, <2>1, <2>3
  <2>4. CASE w # "SAFE" /\ c < t /\ ~tone_phase
    <3>1. silence <= tone_counter + 1
      BY <1>1, <1>3, <1>8, <2>1, <2>4
    <3> QED
      BY <1>1, <1>3, <2>1, <3>1
  <2> QED
    BY <1>1, <1>8, <2>2, <2>3, <2>4
<1>10. wn # "SAFE" /\ cn < t /\ ~tone_phase' =>
         \/ sn <= kn + 1
         \/ kn >= cn /\ sn <= HALF_TONE + 9 * t + kn + 1
  <2> SUFFICES ASSUME wn # "SAFE", cn < t, ~tone_phase'
               PROVE  \/ sn <= kn + 1
                      \/ kn >= cn /\ sn <= HALF_TONE + 9 * t + kn + 1
    OBVIOUS
  <2>1. CASE silence = 0
    BY <1>1, <1>3, <2>1
  <2>2. CASE w # "SAFE" /\ c >= t
    <3>1. cn = 0
      BY <1>1, <1>2, <2>2
    <3> QED
      BY <1>1, <1>3, <1>8, <2>2, <3>1
  <2>3. CASE w # "SAFE" /\ c < t /\ ~tone_phase
    <3>1. kn = tone_counter + 1
      BY <1>7, <2>3
    <3> QED
      BY <1>1, <1>2, <1>3, <1>8, <2>3, <3>1
  <2> QED
    BY <1>1, <1>8, <2>1, <2>2, <2>3
<1> QED
  BY <1>4, <1>5, <1>6, <1>9, <1>10 DEF SilenceInv, wn, cn, sn, kn, t

LEMMA BuzzerStep == BuzzerInv /\ [Buzzer!Next]_(Buzzer!vars) => BuzzerInv'
<1> SUFFICES ASSUME BuzzerInv, [Buzzer!Next]_(Buzzer!vars) PROVE BuzzerInv'
  OBVIOUS
<1>1. CASE Buzzer!Next
  <2>1. BuzzerTypes'
    BY <1>1, BuzzerTypesKept DEF Buzzer!Next, BuzzerInv
  <2> QED
    BY <1>1, <2>1, AtOnceKept, SilenceKept DEF Buzzer!Next, BuzzerInv
<1>2. CASE UNCHANGED Buzzer!vars
  BY <1>2 DEF Buzzer!vars, Buzzer!inputs, Buzzer!testVars, Buzzer!buzzerVars, BuzzerInv,
     BuzzerTypes, AtOnceInv, SteadyInv, SilenceInv, Buzzer!TypeOK, Clocks, TenthClocks,
     Buzzer!StartsOver, Buzzer!warning_state, Buzzer!test_override, Buzzer!safety_override
<1> QED
  BY <1>1, <1>2

\* An alarm sounds as soon as it is shown; the longest silence is the pause of
\* the slowest pattern between two halves of its tone.
LEMMA BuzzerIsSafe == BuzzerInv => Buzzer!Safety
<1> SUFFICES ASSUME BuzzerInv PROVE Buzzer!Safety
  OBVIOUS
<1> DEFINE t == TenthClocks
<1>1. /\ Clocks \in Nat /\ t \in Nat /\ HALF_TONE < t /\ Clocks < 10 * t
      /\ HALF_TONE \in Nat
  BY ClocksFacts, BuzzerConstants DEF BuzzerInv, BuzzerTypes, Buzzer!TypeOK
<1>2. Buzzer!LongestSilence = 9 * t + 2 * HALF_TONE
  BY BuzzerConstants DEF Buzzer!LongestSilence, TenthClocks
<1>3. /\ silence \in Nat /\ tone_counter \in 0 .. HALF_TONE - 1 /\ tone_phase \in BOOLEAN
      /\ buzzer_steady \in Nat
  BY DEF BuzzerInv, BuzzerTypes, Buzzer!TypeOK
<1>4. /\ Buzzer!warning_state = "SAFE" => silence = 0
      /\ Buzzer!warning_state # "SAFE" /\ Clocks >= t =>
           silence <= HALF_TONE + Clocks + 1 - t
      /\ Buzzer!warning_state # "SAFE" /\ Clocks < t /\ tone_phase => silence = 0
      /\ Buzzer!warning_state # "SAFE" /\ Clocks < t /\ ~tone_phase =>
           \/ silence <= tone_counter + 1
           \/ silence <= HALF_TONE + 9 * t + tone_counter + 1
  BY DEF BuzzerInv, SilenceInv
<1> HIDE DEF t
<1>5. Buzzer!AlarmIsHeard
  <2>1. silence <= 9 * t + 2 * HALF_TONE
    BY <1>1, <1>3, <1>4
  <2> QED
    BY <1>2, <2>1 DEF Buzzer!AlarmIsHeard
<1>6. ASSUME Buzzer!warning_state # "SAFE", buzzer_steady \in 1 .. t
      PROVE  Buzzer!buzzer_enable
  <2>1. Clocks <= buzzer_steady - 1
    BY <1>6 DEF BuzzerInv, AtOnceInv, t
  <2>2. Clocks < t
    BY <1>1, <1>3, <1>6, <2>1
  <2> QED
    BY <1>6, <2>2, EnabledEarly DEF BuzzerInv, t
<1> QED
  BY <1>5, <1>6 DEF Buzzer!Safety, Buzzer!AlarmSoundsAtOnce, BuzzerInv, BuzzerTypes,
     TenthClocks, t

-----------------------------------------------------------------------------
(* The light                                                               *)

\* The three phases come from counters that run together.
PhaseInv ==
  /\ Light!TypeOK
  /\ slow_phase \in BOOLEAN /\ fast_phase \in BOOLEAN /\ estop_phase \in BOOLEAN
  /\ estop_phase => tick_100ms_counter = tick_50ms_counter + TICK_50MS
  /\ ~estop_phase => tick_100ms_counter = tick_50ms_counter
  /\ IF slow_phase
       THEN IF fast_phase THEN slow_tick_counter \in {0, 2, 4}
            ELSE slow_tick_counter \in {1, 3}
       ELSE IF fast_phase THEN slow_tick_counter \in {1, 3}
            ELSE slow_tick_counter \in {0, 2, 4}

\* How long the lights may have been dark in the current state.
ShownInv ==
  /\ warning_state \in Light!States
  /\ dark \in Nat /\ light_steady \in Nat
  /\ warning_state \in {"SAFE", "DANGER", "CRITICAL"} => dark = 0
  /\ warning_state = "CAUTION" /\ slow_phase => dark = 0
  /\ warning_state = "COMM_ERROR" =>
       IF fast_phase THEN dark = 0
       ELSE dark <= tick_100ms_counter + 1 \/ light_steady <= tick_100ms_counter
  /\ warning_state = "ESTOP" =>
       IF estop_phase THEN dark = 0
       ELSE dark <= tick_50ms_counter + 1 \/ light_steady <= tick_50ms_counter

\* How long they may have been dark since all three phases were lit.
DarkInv ==
  LET T == 2 * TICK_50MS
      phase == tick_100ms_counter + 1
  IN /\ slow_phase /\ fast_phase /\ estop_phase => dark = 0
     /\ ~slow_phase => dark <= slow_tick_counter * T + phase
     /\ slow_phase /\ slow_tick_counter = 0 => dark <= 5 * T + phase
     /\ slow_phase /\ slow_tick_counter \in {1, 3} => dark <= phase
     /\ slow_phase /\ slow_tick_counter \in {2, 4} => dark <= T + phase

LightInv == PhaseInv /\ ShownInv /\ DarkInv

LEMMA LightConstants == TICK_50MS \in Nat /\ TICK_50MS >= 1
BY AlarmAssumption DEF Light!ConstantAssumption

LEMMA LightMin ==
  ASSUME NEW a \in Int, NEW b \in Int
  PROVE  /\ Light!Min({a, b}) = (IF a <= b THEN a ELSE b)
         /\ Light!Min({a, b}) \in Int
         /\ Light!Min({a, b}) <= a /\ Light!Min({a, b}) <= b
<1>1. Light!Min({a, b}) = (IF a <= b THEN a ELSE b)
  <2>1. \E x \in {a, b} : \A y \in {a, b} : x <= y
    OBVIOUS
  <2>2. Light!Min({a, b}) = CHOOSE x \in {a, b} : \A y \in {a, b} : x <= y
    BY Zenon DEF Light!Min
  <2>3. Light!Min({a, b}) \in {a, b} /\ \A y \in {a, b} : Light!Min({a, b}) <= y
    BY <2>1, <2>2, Zenon
  <2> QED
    BY <2>3
<1> QED
  BY <1>1

LEMMA LightInit == Light!Init => LightInv
<1> SUFFICES ASSUME Light!Init PROVE LightInv
  OBVIOUS
<1>1. /\ ~slow_phase /\ ~fast_phase /\ ~estop_phase
      /\ slow_phase \in BOOLEAN /\ fast_phase \in BOOLEAN /\ estop_phase \in BOOLEAN
      /\ warning_state = "SAFE" /\ dark = 0 /\ light_steady = 0
      /\ tick_100ms_counter = 0 /\ tick_50ms_counter = 0 /\ slow_tick_counter = 0
      /\ led_tick_counter = 0 /\ led_phase = 0
  BY Zenon DEF Light!Init
<1>2. PhaseInv
  BY <1>1, LightConstants DEF PhaseInv, Light!TypeOK, Light!TICK_100MS
<1>3. ShownInv
  BY <1>1 DEF ShownInv, Light!States
<1>4. DarkInv
  BY <1>1, LightConstants DEF DarkInv
<1> QED
  BY <1>2, <1>3, <1>4 DEF LightInv

\* How the phases go on.
PhaseStep ==
  /\ tick_50ms_counter = TICK_50MS - 1 =>
       tick_50ms_counter' = 0 /\ (estop_phase' <=> ~estop_phase)
  /\ tick_50ms_counter # TICK_50MS - 1 =>
       tick_50ms_counter' = tick_50ms_counter + 1 /\ (estop_phase' <=> estop_phase)
  /\ tick_100ms_counter = 2 * TICK_50MS - 1 =>
       /\ tick_100ms_counter' = 0
       /\ fast_phase' <=> ~fast_phase
       /\ slow_tick_counter = 4 => slow_tick_counter' = 0 /\ (slow_phase' <=> ~slow_phase)
       /\ slow_tick_counter # 4 =>
            slow_tick_counter' = slow_tick_counter + 1 /\ (slow_phase' <=> slow_phase)
  /\ tick_100ms_counter # 2 * TICK_50MS - 1 =>
       /\ tick_100ms_counter' = tick_100ms_counter + 1
       /\ (fast_phase' <=> fast_phase) /\ (slow_phase' <=> slow_phase)
       /\ slow_tick_counter' = slow_tick_counter

LEMMA PhasesGoOn ==
  ASSUME PhaseInv, Light!Clock
  PROVE  /\ PhaseStep
         /\ slow_phase' \in BOOLEAN /\ fast_phase' \in BOOLEAN /\ estop_phase' \in BOOLEAN
<1>1. /\ tick_100ms_counter \in 0 .. 2 * TICK_50MS - 1
      /\ tick_50ms_counter \in 0 .. TICK_50MS - 1
      /\ tick_100ms_counter >= 2 * TICK_50MS - 1 <=> tick_100ms_counter = 2 * TICK_50MS - 1
      /\ tick_50ms_counter >= TICK_50MS - 1 <=> tick_50ms_counter = TICK_50MS - 1
  BY LightConstants DEF PhaseInv, Light!TypeOK, Light!TICK_100MS
<1>2. slow_phase \in BOOLEAN /\ fast_phase \in BOOLEAN /\ estop_phase \in BOOLEAN
  BY DEF PhaseInv
<1>3. Light!Phases100ms /\ Light!Phase50ms
  BY DEF Light!Clock
<1>4. (estop_phase' = estop_phase \/ estop_phase' = ~estop_phase)
  BY <1>3, Zenon DEF Light!Phase50ms
<1>5. (fast_phase' = fast_phase \/ fast_phase' = ~fast_phase)
      /\ (slow_phase' = slow_phase \/ slow_phase' = ~slow_phase)
  BY <1>3, Zenon DEF Light!Phases100ms
<1>6. slow_phase' \in BOOLEAN /\ fast_phase' \in BOOLEAN /\ estop_phase' \in BOOLEAN
  BY <1>2, <1>4, <1>5, Zenon
<1>7. PhaseStep
  BY <1>1, <1>3, Zenon
     DEF PhaseStep, Light!Phases100ms, Light!Phase50ms, Light!SlowIsOver, Light!TICK_100MS
<1> QED
  BY <1>6, <1>7

LEMMA PhaseKept ==
  ASSUME PhaseInv, Light!Clock
  PROVE  PhaseInv'
<1>1. PhaseStep /\ slow_phase' \in BOOLEAN /\ fast_phase' \in BOOLEAN /\ estop_phase' \in BOOLEAN
  BY PhasesGoOn
<1>2. /\ slow_phase \in BOOLEAN /\ fast_phase \in BOOLEAN /\ estop_phase \in BOOLEAN
      /\ tick_100ms_counter \in 0 .. 2 * TICK_50MS - 1
      /\ tick_50ms_counter \in 0 .. TICK_50MS - 1
      /\ slow_tick_counter \in 0 .. 4 /\ led_tick_counter \in 0 .. 4 /\ led_phase \in 0 .. 3
  BY DEF PhaseInv, Light!TypeOK, Light!TICK_100MS
<1>3. /\ slow_tick_counter' \in 0 .. 4
      /\ IF slow_phase'
           THEN IF fast_phase' THEN slow_tick_counter' \in {0, 2, 4}
                ELSE slow_tick_counter' \in {1, 3}
           ELSE IF fast_phase' THEN slow_tick_counter' \in {1, 3}
                ELSE slow_tick_counter' \in {0, 2, 4}
  BY <1>1, <1>2 DEF PhaseStep, PhaseInv
<1>4. /\ tick_100ms_counter' \in 0 .. 2 * TICK_50MS - 1
      /\ tick_50ms_counter' \in 0 .. TICK_50MS - 1
      /\ estop_phase' => tick_100ms_counter' = tick_50ms_counter' + TICK_50MS
      /\ ~estop_phase' => tick_100ms_counter' = tick_50ms_counter'
  <2>1. estop_phase => tick_100ms_counter = tick_50ms_counter + TICK_50MS
    BY DEF PhaseInv
  <2>2. ~estop_phase => tick_100ms_counter = tick_50ms_counter
    BY DEF PhaseInv
  <2>3. CASE estop_phase
    BY <1>1, <1>2, <2>1, <2>3, LightConstants DEF PhaseStep
  <2>4. CASE ~estop_phase
    BY <1>1, <1>2, <2>2, <2>4, LightConstants DEF PhaseStep
  <2> QED
    BY <2>3, <2>4
<1>5. led_tick_counter' \in 0 .. 4 /\ led_phase' \in 0 .. 3
  BY <1>2 DEF Light!Clock, Light!SelfTestRhythm
<1> QED
  BY <1>1, <1>3, <1>4, <1>5 DEF PhaseInv, Light!TypeOK, Light!TICK_100MS

\* What is lit, and what the history makes of it.
LEMMA ShownStep ==
  ASSUME LightInv, Light!Clock
  PROVE  /\ warning_state' \in Light!States
         /\ dark' \in Nat /\ dark' <= dark + 1
         /\ light_steady' \in Nat /\ light_steady' <= light_steady + 1
         /\ warning_state' # warning_state => light_steady' = 0
         /\ \/ warning_state' \in {"SAFE", "DANGER", "CRITICAL"}
            \/ warning_state' = "CAUTION" /\ slow_phase'
            \/ warning_state' = "COMM_ERROR" /\ fast_phase'
            \/ warning_state' = "ESTOP" /\ estop_phase'
            => dark' = 0
<1>1. /\ warning_state \in Light!States /\ dark \in Nat /\ light_steady \in Nat
      /\ dark + 1 \in Int /\ light_steady + 1 \in Int
      /\ 5 * Light!TICK_100MS \in Int /\ Light!LongestDark + 1 \in Int
      /\ 5 * Light!TICK_100MS >= 0 /\ Light!LongestDark + 1 >= 0
  BY LightConstants DEF LightInv, ShownInv, Light!TICK_100MS, Light!LongestDark
<1>2. warning_state' \in Light!States
  BY DEF Light!Clock, Light!Inputs
<1>3. slow_phase' \in BOOLEAN /\ fast_phase' \in BOOLEAN /\ estop_phase' \in BOOLEAN
  BY PhasesGoOn DEF LightInv
<1>4. /\ light_steady' = (IF warning_state' # warning_state THEN 0
                          ELSE Light!Min({light_steady + 1, 5 * Light!TICK_100MS}))
      /\ dark' = (IF warning_state' = "SAFE" \/ Light!selected_led_pattern' # Light!Off THEN 0
                  ELSE Light!Min({dark + 1, Light!LongestDark + 1}))
  BY Zenon DEF Light!Clock, Light!History
<1>5. /\ light_steady' \in Nat /\ light_steady' <= light_steady + 1
      /\ warning_state' # warning_state => light_steady' = 0
  <2>1. CASE warning_state' # warning_state
    BY <1>1, <1>4, <2>1
  <2>2. CASE warning_state' = warning_state
    <3> DEFINE a == light_steady + 1
               b == 5 * Light!TICK_100MS
    <3>1. light_steady' = Light!Min({a, b})
      BY <1>4, <2>2, Zenon
    <3>2. a \in Int /\ b \in Int /\ a >= 0 /\ b >= 0
      BY <1>1
    <3> HIDE DEF a, b
    <3>3. light_steady' = (IF a <= b THEN a ELSE b) /\ light_steady' <= a
      BY <3>1, <3>2, LightMin, Zenon
    <3>4. light_steady' \in Nat /\ light_steady' <= a
      BY <3>2, <3>3
    <3> QED
      BY <1>1, <2>2, <3>4 DEF a
  <2> QED
    BY <2>1, <2>2
<1>6. dark' \in Nat /\ dark' <= dark + 1
  BY <1>1, <1>4, LightMin
<1>7. warning_state' # "SAFE" => Light!selected_led_pattern' = Light!led_pattern_out'
  BY Zenon DEF Light!selected_led_pattern, Light!self_test_output_enable, Light!safety_override
<1>8. ASSUME \/ warning_state' \in {"DANGER", "CRITICAL"}
             \/ warning_state' = "CAUTION" /\ slow_phase'
             \/ warning_state' = "COMM_ERROR" /\ fast_phase'
             \/ warning_state' = "ESTOP" /\ estop_phase'
      PROVE  Light!led_pattern_out' # Light!Off
  <2>1. CASE warning_state' = "DANGER"
    <3>1. Light!led_pattern_out' = <<fast_phase', ~fast_phase'>>
      BY <2>1 DEF Light!led_pattern_out
    <3> QED
      BY <3>1, <1>3 DEF Light!Off
  <2>2. CASE warning_state' = "CRITICAL"
    BY <2>2 DEF Light!led_pattern_out, Light!Off
  <2>3. CASE warning_state' = "CAUTION"
    <3>1. Light!led_pattern_out' = <<FALSE, slow_phase'>>
      BY <2>3 DEF Light!led_pattern_out
    <3> QED
      BY <1>8, <2>3, <3>1, <1>3 DEF Light!Off
  <2>4. CASE warning_state' = "COMM_ERROR"
    <3>1. Light!led_pattern_out' = <<fast_phase', fast_phase'>>
      BY <2>4 DEF Light!led_pattern_out
    <3> QED
      BY <1>8, <2>4, <3>1, <1>3 DEF Light!Off
  <2>5. CASE warning_state' = "ESTOP"
    <3>1. Light!led_pattern_out' = <<estop_phase', estop_phase'>>
      BY <2>5 DEF Light!led_pattern_out
    <3> QED
      BY <1>8, <2>5, <3>1, <1>3 DEF Light!Off
  <2> QED
    BY <1>8, <2>1, <2>2, <2>3, <2>4, <2>5
<1> QED
  BY <1>2, <1>4, <1>5, <1>6, <1>7, <1>8

LEMMA ShownKept ==
  ASSUME LightInv, Light!Clock
  PROVE  ShownInv'
<1>1. PhaseStep
  BY PhasesGoOn DEF LightInv
<1>2. /\ slow_phase \in BOOLEAN /\ fast_phase \in BOOLEAN /\ estop_phase \in BOOLEAN
      /\ tick_100ms_counter \in 0 .. 2 * TICK_50MS - 1
      /\ tick_50ms_counter \in 0 .. TICK_50MS - 1
  BY DEF LightInv, PhaseInv, Light!TypeOK, Light!TICK_100MS
<1>3. /\ slow_phase' \in BOOLEAN /\ fast_phase' \in BOOLEAN /\ estop_phase' \in BOOLEAN
      /\ tick_100ms_counter' \in Nat /\ tick_50ms_counter' \in Nat
  BY PhaseKept DEF LightInv, PhaseInv, Light!TypeOK, Light!TICK_100MS
<1>4. ASSUME warning_state' = "COMM_ERROR", ~fast_phase'
      PROVE  dark' <= tick_100ms_counter' + 1 \/ light_steady' <= tick_100ms_counter'
  <2>1. CASE warning_state # "COMM_ERROR"
    <3>1. light_steady' = 0
      BY <1>4, <2>1, ShownStep
    <3> QED
      BY <1>3, <3>1
  <2>2. CASE warning_state = "COMM_ERROR" /\ fast_phase
    <3>1. dark = 0
      BY <2>2 DEF LightInv, ShownInv
    <3>2. dark' <= 1
      BY <3>1, ShownStep
    <3> QED
      BY <1>3, <3>2, ShownStep
  <2>3. CASE warning_state = "COMM_ERROR" /\ ~fast_phase
    <3>1. dark <= tick_100ms_counter + 1 \/ light_steady <= tick_100ms_counter
      BY <2>3 DEF LightInv, ShownInv
    <3>2. tick_100ms_counter' = tick_100ms_counter + 1
      BY <1>1, <1>4, <2>3 DEF PhaseStep
    <3>3. /\ dark \in Nat /\ light_steady \in Nat
          /\ dark' \in Nat /\ dark' <= dark + 1
          /\ light_steady' \in Nat /\ light_steady' <= light_steady + 1
      BY ShownStep DEF LightInv, ShownInv
    <3> QED
      BY <1>2, <3>1, <3>2, <3>3
  <2> QED
    BY <2>1, <2>2, <2>3
<1>5. ASSUME warning_state' = "ESTOP", ~estop_phase'
      PROVE  dark' <= tick_50ms_counter' + 1 \/ light_steady' <= tick_50ms_counter'
  <2>1. CASE warning_state # "ESTOP"
    <3>1. light_steady' = 0
      BY <1>5, <2>1, ShownStep
    <3> QED
      BY <1>3, <3>1
  <2>2. CASE warning_state = "ESTOP" /\ estop_phase
    <3>1. dark = 0
      BY <2>2 DEF LightInv, ShownInv
    <3>2. dark' <= 1
      BY <3>1, ShownStep
    <3> QED
      BY <1>3, <3>2, ShownStep
  <2>3. CASE warning_state = "ESTOP" /\ ~estop_phase
    <3>1. dark <= tick_50ms_counter + 1 \/ light_steady <= tick_50ms_counter
      BY <2>3 DEF LightInv, ShownInv
    <3>2. tick_50ms_counter' = tick_50ms_counter + 1
      BY <1>1, <1>5, <2>3 DEF PhaseStep
    <3>3. /\ dark \in Nat /\ light_steady \in Nat
          /\ dark' \in Nat /\ dark' <= dark + 1
          /\ light_steady' \in Nat /\ light_steady' <= light_steady + 1
      BY ShownStep DEF LightInv, ShownInv
    <3> QED
      BY <1>2, <3>1, <3>2, <3>3
  <2> QED
    BY <2>1, <2>2, <2>3
<1> QED
  BY <1>4, <1>5, ShownStep DEF ShownInv

LEMMA DarkKept ==
  ASSUME LightInv, Light!Clock
  PROVE  DarkInv'
<1> DEFINE T == 2 * TICK_50MS
<1>1. PhaseStep
  BY PhasesGoOn DEF LightInv
<1>2. /\ slow_phase \in BOOLEAN /\ fast_phase \in BOOLEAN /\ estop_phase \in BOOLEAN
      /\ tick_100ms_counter \in 0 .. T - 1
      /\ slow_tick_counter \in 0 .. 4 /\ T \in Nat
  BY LightConstants DEF LightInv, PhaseInv, Light!TypeOK, Light!TICK_100MS
<1>3. /\ slow_phase' \in BOOLEAN /\ fast_phase' \in BOOLEAN /\ estop_phase' \in BOOLEAN
      /\ tick_100ms_counter' \in 0 .. T - 1 /\ slow_tick_counter' \in 0 .. 4
  BY PhaseKept DEF LightInv, PhaseInv, Light!TypeOK, Light!TICK_100MS
<1>4. dark \in Nat /\ dark' \in Nat /\ dark' <= dark + 1
  BY ShownStep DEF LightInv, ShownInv
<1>5. slow_phase' /\ fast_phase' /\ estop_phase' => dark' = 0
  BY ShownStep DEF Light!States
<1>6. /\ ~slow_phase => dark <= slow_tick_counter * T + tick_100ms_counter + 1
      /\ slow_phase /\ slow_tick_counter = 0 => dark <= 5 * T + tick_100ms_counter + 1
      /\ slow_phase /\ slow_tick_counter \in {1, 3} => dark <= tick_100ms_counter + 1
      /\ slow_phase /\ slow_tick_counter \in {2, 4} => dark <= T + tick_100ms_counter + 1
  BY <1>2, <1>4 DEF LightInv, DarkInv
<1>7. CASE tick_100ms_counter # T - 1
  <2>1. /\ tick_100ms_counter' = tick_100ms_counter + 1
        /\ slow_tick_counter' = slow_tick_counter /\ (slow_phase' <=> slow_phase)
    BY <1>1, <1>7 DEF PhaseStep
  <2> QED
    BY <1>2, <1>3, <1>4, <1>5, <1>6, <2>1 DEF DarkInv
<1>8. CASE tick_100ms_counter = T - 1
  <2>1. slow_phase /\ slow_tick_counter \in {0, 2, 4} => dark = 0
    <3>1. slow_phase /\ slow_tick_counter \in {0, 2, 4} => fast_phase
      BY DEF LightInv, PhaseInv
    <3>2. estop_phase
      BY <1>2, <1>8, LightConstants DEF LightInv, PhaseInv, Light!TypeOK
    <3> QED
      BY <3>1, <3>2 DEF LightInv, DarkInv
  <2>2. /\ tick_100ms_counter' = 0
        /\ slow_tick_counter = 4 => slow_tick_counter' = 0 /\ (slow_phase' <=> ~slow_phase)
        /\ slow_tick_counter # 4 =>
             slow_tick_counter' = slow_tick_counter + 1 /\ (slow_phase' <=> slow_phase)
    BY <1>1, <1>8 DEF PhaseStep
  <2>3. ~slow_phase' => dark' <= slow_tick_counter' * T + 1
    <3>1. CASE slow_tick_counter = 4
      BY <1>2, <1>4, <2>1, <2>2, <3>1
    <3>2. CASE slow_tick_counter = 0
      BY <1>2, <1>4, <1>6, <1>8, <2>2, <3>2
    <3>3. CASE slow_tick_counter = 1
      BY <1>2, <1>4, <1>6, <1>8, <2>2, <3>3
    <3>4. CASE slow_tick_counter = 2
      BY <1>2, <1>4, <1>6, <1>8, <2>2, <3>4
    <3>5. CASE slow_tick_counter = 3
      BY <1>2, <1>4, <1>6, <1>8, <2>2, <3>5
    <3> QED
      BY <1>2, <3>1, <3>2, <3>3, <3>4, <3>5
  <2>4. /\ slow_phase' /\ slow_tick_counter' = 0 => dark' <= 5 * T + 1
        /\ slow_phase' /\ slow_tick_counter' \in {1, 3} => dark' <= 1
        /\ slow_phase' /\ slow_tick_counter' \in {2, 4} => dark' <= T + 1
    BY <1>2, <1>4, <1>6, <1>8, <2>1, <2>2
  <2> QED
    BY <1>5, <2>2, <2>3, <2>4, <1>2, <1>3, <1>4 DEF DarkInv
<1> QED
  BY <1>7, <1>8

LEMMA LightStep == LightInv /\ [Light!Next]_(Light!vars) => LightInv'
<1> SUFFICES ASSUME LightInv, [Light!Next]_(Light!vars) PROVE LightInv'
  OBVIOUS
<1>1. CASE Light!Next
  BY <1>1, PhaseKept, ShownKept, DarkKept DEF Light!Next, LightInv
<1>2. CASE UNCHANGED Light!vars
  BY <1>2 DEF Light!vars, Light!inputs, Light!testVars, Light!ledVars, LightInv, PhaseInv,
     ShownInv, DarkInv, Light!TypeOK
<1> QED
  BY <1>1, <1>2

\* What is dark is at most the slow phase, the wait for the fast one, and the
\* wait for the phase of the emergency stop.
LEMMA LightIsSafe == LightInv => Light!Safety
<1> SUFFICES ASSUME LightInv PROVE Light!Safety
  OBVIOUS
<1> DEFINE T == 2 * TICK_50MS
<1>1. /\ slow_phase \in BOOLEAN /\ fast_phase \in BOOLEAN /\ estop_phase \in BOOLEAN
      /\ tick_100ms_counter \in 0 .. T - 1 /\ tick_50ms_counter \in 0 .. TICK_50MS - 1
      /\ slow_tick_counter \in 0 .. 4 /\ T \in Nat /\ TICK_50MS \in Nat /\ TICK_50MS >= 1
      /\ dark \in Nat /\ light_steady \in Nat /\ warning_state \in Light!States
  BY LightConstants DEF LightInv, PhaseInv, ShownInv, Light!TypeOK, Light!TICK_100MS
<1>2. /\ ~slow_phase => dark <= slow_tick_counter * T + tick_100ms_counter + 1
      /\ slow_phase /\ slow_tick_counter = 0 => dark <= 5 * T + tick_100ms_counter + 1
      /\ slow_phase /\ slow_tick_counter \in {1, 3} => dark <= tick_100ms_counter + 1
      /\ slow_phase /\ slow_tick_counter \in {2, 4} => dark <= T + tick_100ms_counter + 1
  BY <1>1 DEF LightInv, DarkInv
<1>3. slow_tick_counter * T <= 4 * T
  BY <1>1
<1>4. Light!DarkIsBounded
  <2>1. CASE slow_phase /\ slow_tick_counter = 0
    BY <1>1, <1>2, <2>1 DEF Light!DarkIsBounded, Light!LongestDark, Light!TICK_100MS
  <2>2. CASE ~(slow_phase /\ slow_tick_counter = 0)
    <3>1. dark <= 4 * T + tick_100ms_counter + 1
      BY <1>1, <1>2, <1>3, <2>2
    <3> QED
      BY <1>1, <3>1 DEF Light!DarkIsBounded, Light!LongestDark, Light!TICK_100MS
  <2> QED
    BY <2>1, <2>2
<1>5. ASSUME warning_state # "SAFE", light_steady >= 5 * T
      PROVE  dark <= 5 * T
  <2>1. CASE warning_state = "CAUTION"
    <3>1. slow_phase => dark = 0
      BY <2>1 DEF LightInv, ShownInv
    <3>2. ~slow_phase => dark <= 4 * T + tick_100ms_counter + 1
      BY <1>1, <1>2, <1>3
    <3> QED
      BY <1>1, <3>1, <3>2
  <2>2. CASE warning_state = "COMM_ERROR"
    BY <1>1, <1>5, <2>2 DEF LightInv, ShownInv
  <2>3. CASE warning_state = "ESTOP"
    BY <1>1, <1>5, <2>3 DEF LightInv, ShownInv
  <2>4. CASE warning_state \in {"DANGER", "CRITICAL"}
    BY <1>1, <2>4 DEF LightInv, ShownInv
  <2> QED
    BY <1>1, <1>5, <2>1, <2>2, <2>3, <2>4 DEF Light!States
<1> QED
  BY <1>4, <1>5 DEF Light!Safety, Light!AlarmIsSeen, Light!TICK_100MS, LightInv, PhaseInv

-----------------------------------------------------------------------------
(* The serial wire                                                         *)

Half == Wire!HalfBit
Frame == Wire!FrameClocks

\* The bit of the frame that is sent, counted from the start bit, its level, and
\* the clocks since the frame began.
TxIndex ==
  IF wire_tx_state = "START" THEN 0
  ELSE IF wire_tx_state = "DATA" THEN tx_bit + 1 ELSE DataBits + 1
Level(n) == IF n = 0 THEN 0 ELSE IF n \in 1 .. DataBits THEN tx_data_reg[n - 1] ELSE 1
TxPos == TxIndex * tx_clks + clk_counter

\* The bits the receiver has sampled, and the clocks it has counted.
RxIndex ==
  IF wire_state = "START" THEN 0
  ELSE IF wire_state = "DATA" THEN bit_index + 1 ELSE DataBits + 1
RxPos ==
  IF wire_state = "START" THEN clk_count
  ELSE Half + (RxIndex - 1) * CLKS_PER_BIT + clk_count

\* A level that was on the line in one of the clocks first and last of a frame.
SeenIn(level, first, last) ==
  \E n \in -1 .. DataBits + 1 :
    level = Level(n) /\ n * tx_clks <= last /\ first < (n + 1) * tx_clks

WireTypes ==
  /\ Wire!TypeOK
  /\ wire_tx_state \in {"IDLE", "START", "DATA", "STOP"}
  /\ tx_clks \in TxClks /\ clk_counter \in 0 .. tx_clks - 1
  /\ tx_data_reg \in Wire!Byte
  /\ wire \in {0, 1} /\ uart_rx_meta \in {0, 1} /\ uart_rx_sync \in {0, 1}
  /\ low \in 0 .. Half /\ needed \in 0 .. Frame /\ delivered \in 0 .. 2
  /\ clean \in BOOLEAN
  /\ uart_tx_o = (IF wire_tx_state = "IDLE" THEN 1 ELSE Level(TxIndex))
  /\ wire = (IF low > 0 THEN 0 ELSE uart_tx_o)
  /\ wire_state = "START" => clk_count < Half /\ bit_index = 0

\* Where the receiver may be while a byte that has been undisturbed is sent.
Waiting == wire_state = "IDLE" /\ delivered = 0 /\ TxPos <= 2
Receiving ==
  /\ wire_state # "IDLE" /\ delivered = 0
  /\ TxPos - RxPos \in {2, 3}
  /\ \A i \in 0 .. RxIndex - 2 : rx_shift[i] = tx_data_reg[i]
Done ==
  /\ wire_state = "IDLE" /\ delivered = 1 /\ rx_data = tx_data_reg
  /\ TxPos >= Half + (DataBits + 1) * CLKS_PER_BIT + 2

CleanInv ==
  clean =>
    /\ needed = 0 /\ low = 0
    /\ wire_tx_state # "IDLE" =>
         /\ SeenIn(uart_rx_meta, TxPos - 1, TxPos)
         /\ SeenIn(uart_rx_sync, TxPos - 2, TxPos - 1)
         /\ Waiting \/ Receiving \/ Done

\* The line is quiet and the receiver ready.
ReadyInv ==
  needed = 0 /\ wire_tx_state = "IDLE" =>
    wire_state = "IDLE" /\ low = 0 /\ uart_rx_meta = 1 /\ uart_rx_sync = 1

\* After a disturbance the receiver is through with whatever it takes for a
\* frame before the quiet that is needed is over.
Recovering ==
  /\ low > 0 => needed = Frame
  /\ wire = 0 => needed = Frame
  /\ uart_rx_meta = 0 => needed >= Frame - 1
  /\ uart_rx_sync = 0 => needed >= Frame - 2
  /\ wire_state # "IDLE" => needed + RxPos >= Half + (DataBits + 1) * CLKS_PER_BIT

\* After a short pulse on an idle line it is in the start bit at most.
ShortPulse ==
  /\ wire_tx_state = "IDLE" /\ wire_state \in {"IDLE", "START"}
  /\ low > 0 =>
       /\ needed = Half + 3 /\ low <= Half - 2
       /\ uart_rx_sync = 0 => low >= 2
       /\ wire_state = "START" => clk_count + 3 <= low
  /\ low = 0 =>
       /\ needed < Half + 3
       /\ uart_rx_meta = 0 => needed >= Half + 2
       /\ uart_rx_sync = 0 => needed >= Half + 1
       /\ wire_state = "START" => clk_count + needed \in Half .. 2 * Half - 2

DisturbedInv ==
  /\ needed > 0 => Recovering \/ ShortPulse
  /\ ~clean /\ wire_tx_state # "IDLE" =>
       /\ Recovering
       /\ needed = Frame \/ needed + TxPos + 1 >= Frame + tx_clks

OutcomeInv == Wire!CleanByteArrives /\ Wire!FramingErrorMeansFault

WireInv == WireTypes /\ CleanInv /\ ReadyInv /\ DisturbedInv /\ OutcomeInv

LEMMA WireConstants ==
  /\ CLKS_PER_BIT \in Nat /\ CLKS_PER_BIT >= 8
  /\ DataBits \in Nat /\ DataBits >= 1
  /\ Half \in Nat /\ Half >= 4 /\ 2 * Half <= CLKS_PER_BIT
  /\ (DataBits + 1) * CLKS_PER_BIT \in Nat
  /\ Frame = (DataBits + 1) * CLKS_PER_BIT + CLKS_PER_BIT + 3 /\ Frame \in Nat
  /\ Disturbed \in BOOLEAN
<1>1. /\ CLKS_PER_BIT \in Nat /\ CLKS_PER_BIT >= 8
      /\ DataBits \in Nat /\ DataBits >= 1 /\ Disturbed \in BOOLEAN
  BY SerialAssumption DEF Wire!ConstantAssumption
<1>2. Half = CLKS_PER_BIT \div 2
  BY DEF Half, Wire!HalfBit
<1>3. Half \in Nat /\ Half >= 4 /\ 2 * Half <= CLKS_PER_BIT
  BY <1>1, <1>2
<1>4. (DataBits + 1) * CLKS_PER_BIT \in Nat
  BY <1>1
<1>5. Frame = (DataBits + 1) * CLKS_PER_BIT + CLKS_PER_BIT + 3
  BY <1>1 DEF Frame, Wire!FrameClocks
<1> QED
  BY <1>1, <1>3, <1>4, <1>5

LEMMA Skew ==
  ASSUME NEW t \in TxClks, NEW n \in 0 .. DataBits + 1
  PROVE  /\ t \in Nat /\ t >= 7
         /\ n * t \in Nat /\ n * CLKS_PER_BIT \in Nat
         /\ n * t < n * CLKS_PER_BIT + Half
         /\ n * CLKS_PER_BIT + Half + 3 <= (n + 1) * t
         /\ (n + 1) * t = n * t + t
<1>1. t \in Nat
  BY SerialAssumption DEF Wire!ConstantAssumption
<1>2. /\ n * t < n * CLKS_PER_BIT + Half
      /\ n * CLKS_PER_BIT + Half + 3 <= (n + 1) * t
  BY SerialAssumption DEF Wire!SkewAssumption, Half
<1>3. 0 * CLKS_PER_BIT + Half + 3 <= (0 + 1) * t
  BY SerialAssumption, WireConstants DEF Wire!SkewAssumption, Half
<1>4. t >= 7
  BY <1>1, <1>3, WireConstants
<1>5. n \in Nat /\ n * t \in Nat /\ n * CLKS_PER_BIT \in Nat
  BY <1>1, WireConstants
<1> QED
  BY <1>1, <1>2, <1>4, <1>5

LEMMA Ordered ==
  ASSUME NEW a \in Int, NEW b \in Int, NEW t \in Nat, a * t < b * t
  PROVE  a < b
<1> SUFFICES ASSUME a >= b PROVE FALSE
  OBVIOUS
<1> DEFINE d == a - b
<1>1. d \in Nat /\ a = b + d
  OBVIOUS
<1>2. d * t \in Nat /\ b * t \in Int
  BY <1>1
<1>3. a * t = b * t + d * t
  BY <1>1
<1> QED
  BY <1>2, <1>3

\* What the flip-flops have seen within one bit is the level of that bit.
LEMMA SeenIsLevel ==
  ASSUME WireTypes, NEW level, NEW first \in Int, NEW last \in Int,
         SeenIn(level, first, last),
         NEW n \in -1 .. DataBits + 1,
         n * tx_clks <= first, last < (n + 1) * tx_clks
  PROVE  level = Level(n)
<1>1. PICK k \in -1 .. DataBits + 1 :
        level = Level(k) /\ k * tx_clks <= last /\ first < (k + 1) * tx_clks
  BY DEF SeenIn
<1>2. tx_clks \in Nat /\ k \in Int /\ n \in Int
  BY Skew, WireConstants DEF WireTypes
<1>3. k * tx_clks \in Int /\ n * tx_clks \in Int
      /\ (k + 1) * tx_clks \in Int /\ (n + 1) * tx_clks \in Int
  BY <1>2
<1>4. k * tx_clks < (n + 1) * tx_clks /\ n * tx_clks < (k + 1) * tx_clks
  BY <1>1, <1>3
<1>5. k < n + 1 /\ n < k + 1
  BY <1>2, <1>4, Ordered
<1>6. k = n
  BY <1>2, <1>5
<1> QED
  BY <1>1, <1>6

LEMMA TxBounds ==
  ASSUME WireTypes, wire_tx_state # "IDLE"
  PROVE  /\ TxIndex \in 0 .. DataBits + 1 /\ TxPos \in Nat
         /\ TxIndex * tx_clks <= TxPos /\ TxPos < (TxIndex + 1) * tx_clks
         /\ TxPos = TxIndex * tx_clks + clk_counter
<1>1. TxIndex \in 0 .. DataBits + 1
  BY WireConstants DEF WireTypes, Wire!TypeOK, Wire!Last, TxIndex
<1>2. tx_clks \in TxClks /\ clk_counter \in 0 .. tx_clks - 1
  BY DEF WireTypes
<1>3. /\ tx_clks \in Nat /\ TxIndex * tx_clks \in Nat
      /\ (TxIndex + 1) * tx_clks = TxIndex * tx_clks + tx_clks
  BY <1>1, <1>2, Skew
<1>4. TxPos = TxIndex * tx_clks + clk_counter
  BY DEF TxPos
<1> DEFINE p == TxIndex * tx_clks
           q == (TxIndex + 1) * tx_clks
<1> HIDE DEF p, q
<1>5. TxPos = p + clk_counter /\ p \in Nat /\ q = p + tx_clks
  BY <1>3, <1>4 DEF p, q
<1>6. TxPos \in Nat /\ p <= TxPos /\ TxPos < q
  BY <1>2, <1>3, <1>5
<1> QED
  BY <1>1, <1>4, <1>6 DEF p, q

Samples ==
  \/ wire_state = "START" /\ clk_count = Half - 1
  \/ wire_state \in {"DATA", "STOP"} /\ clk_count = CLKS_PER_BIT - 1

LEMMA RxBounds ==
  ASSUME WireTypes, wire_state # "IDLE"
  PROVE  /\ RxIndex \in 0 .. DataBits + 1 /\ RxPos \in Nat
         /\ RxIndex * CLKS_PER_BIT \in Nat
         /\ RxPos + 1 <= Half + RxIndex * CLKS_PER_BIT
         /\ Samples <=> RxPos + 1 = Half + RxIndex * CLKS_PER_BIT
<1>1. RxIndex \in 0 .. DataBits + 1
  BY WireConstants DEF WireTypes, Wire!TypeOK, Wire!Last, RxIndex
<1>2. /\ clk_count \in 0 .. CLKS_PER_BIT - 1
      /\ wire_state = "START" => clk_count < Half
      /\ wire_state \in {"START", "DATA", "STOP"}
  BY DEF WireTypes, Wire!TypeOK
<1>3. CASE wire_state = "START"
  <2>1. RxIndex = 0 /\ RxPos = clk_count
    BY <1>3 DEF RxIndex, RxPos
  <2>2. RxIndex * CLKS_PER_BIT = 0
    BY <2>1, WireConstants
  <2> QED
    BY <1>1, <1>2, <1>3, <2>1, <2>2, WireConstants DEF Samples
<1>4. CASE wire_state \in {"DATA", "STOP"}
  <2>1. RxIndex >= 1 /\ RxPos = Half + (RxIndex - 1) * CLKS_PER_BIT + clk_count
    BY <1>1, <1>4, WireConstants DEF RxIndex, RxPos, WireTypes, Wire!TypeOK, Wire!Last
  <2> DEFINE a == RxIndex - 1
             p == a * CLKS_PER_BIT
             q == RxIndex * CLKS_PER_BIT
  <2>2. a \in Nat
    BY <1>1, <2>1
  <2>3. p \in Nat /\ q = p + CLKS_PER_BIT
    BY <1>1, <2>2, WireConstants
  <2>4. RxPos = Half + p + clk_count
    BY <2>1
  <2> HIDE DEF p, q
  <2>5. /\ RxPos \in Nat /\ q \in Nat /\ RxPos + 1 <= Half + q
        /\ clk_count = CLKS_PER_BIT - 1 <=> RxPos + 1 = Half + q
    BY <1>2, <2>3, <2>4, WireConstants
  <2> QED
    BY <1>1, <1>4, <2>5 DEF Samples, q
<1> QED
  BY <1>2, <1>3, <1>4

\* A receiver at the end of the stop bit is about to be idle.
LEMMA LastSample ==
  ASSUME WireTypes, wire_state # "IDLE",
         RxPos + 1 >= Half + (DataBits + 1) * CLKS_PER_BIT
  PROVE  wire_state = "STOP" /\ Samples
<1> DEFINE m == RxIndex
           p == m * CLKS_PER_BIT
           q == (DataBits + 1) * CLKS_PER_BIT
<1>1. /\ m \in 0 .. DataBits + 1 /\ p \in Nat /\ q \in Nat /\ RxPos \in Nat
      /\ RxPos + 1 <= Half + p
      /\ Samples <=> RxPos + 1 = Half + p
  BY RxBounds, WireConstants
<1>2. p >= q
  BY <1>1, WireConstants
<1>3. m = DataBits + 1
  <2> SUFFICES ASSUME m # DataBits + 1 PROVE FALSE
    OBVIOUS
  <2> DEFINE d == DataBits + 1 - m
  <2>1. d \in Nat /\ d >= 1 /\ DataBits + 1 = m + d
    BY <1>1, WireConstants
  <2>2. q = p + d * CLKS_PER_BIT
    BY <1>1, <2>1, WireConstants
  <2>3. d * CLKS_PER_BIT = (d - 1) * CLKS_PER_BIT + CLKS_PER_BIT
        /\ (d - 1) * CLKS_PER_BIT \in Nat
    BY <2>1, WireConstants
  <2> HIDE DEF p, q, d
  <2> QED
    BY <1>1, <1>2, <2>2, <2>3, WireConstants
<1>4. wire_state = "STOP"
  BY <1>3, WireConstants DEF RxIndex, WireTypes, Wire!TypeOK, Wire!Last
<1>5. RxPos + 1 = Half + p
  <2>1. p = q
    BY <1>3
  <2> HIDE DEF p, q
  <2> QED
    BY <1>1, <2>1, WireConstants DEF q
<1> QED
  BY <1>1, <1>4, <1>5

TxMoves ==
  /\ tx_clks' = tx_clks
  /\ wire_tx_state = "IDLE" /\ wire_tx_state' # "IDLE" =>
       wire_tx_state' = "START" /\ TxPos' = 0
  /\ wire_tx_state # "IDLE" /\ wire_tx_state' # "IDLE" =>
       TxPos' = TxPos + 1 /\ tx_data_reg' = tx_data_reg
  /\ wire_tx_state # "IDLE" /\ wire_tx_state' = "IDLE" =>
       /\ TxPos + 1 = (DataBits + 2) * tx_clks /\ wire_tx_state = "STOP"
       /\ tx_data_reg' = tx_data_reg
  /\ wire_tx_done' => wire_tx_state # "IDLE" /\ wire_tx_state' = "IDLE"

LEMMA TxStep ==
  ASSUME WireTypes, Wire!UartTx
  PROVE  /\ TxMoves
         /\ wire_tx_state' \in {"IDLE", "START", "DATA", "STOP"}
         /\ tx_bit' \in 0 .. Wire!Last /\ clk_counter' \in 0 .. tx_clks - 1
         /\ tx_data_reg' \in Wire!Byte
         /\ uart_tx_o' = (IF wire_tx_state' = "IDLE" THEN 1 ELSE Level(TxIndex)')
<1>1. /\ wire_tx_state \in {"IDLE", "START", "DATA", "STOP"}
      /\ tx_bit \in 0 .. DataBits - 1 /\ clk_counter \in 0 .. tx_clks - 1
      /\ tx_data_reg \in Wire!Byte /\ tx_clks \in Nat /\ tx_clks >= 7
      /\ tx_clks \in TxClks
      /\ uart_tx_o = (IF wire_tx_state = "IDLE" THEN 1 ELSE Level(TxIndex))
  BY Skew, WireConstants DEF WireTypes, Wire!TypeOK, Wire!Last
<1>2. tx_clks' = tx_clks
  BY DEF Wire!UartTx
<1>3. CASE Wire!TxIdle
  <2>1. /\ wire_tx_state = "IDLE" /\ clk_counter' = 0 /\ tx_bit' = 0 /\ wire_tx_done' = FALSE
        /\ \/ tx_data_reg' \in Wire!Byte /\ uart_tx_o' = 0 /\ wire_tx_state' = "START"
           \/ /\ uart_tx_o' = 1 /\ tx_data_reg' = tx_data_reg
              /\ wire_tx_state' = wire_tx_state
    BY <1>3 DEF Wire!TxIdle
  <2>2. wire_tx_state' = "START" => TxIndex' = 0 /\ TxPos' = 0 * tx_clks + 0
    BY <1>2, <2>1 DEF TxIndex, TxPos
  <2>3. 0 * tx_clks + 0 = 0
    BY <1>1
  <2>4. wire_tx_state' = "START" => Level(TxIndex)' = 0
    BY <2>2 DEF Level
  <2> QED
    BY <1>1, <1>2, <2>1, <2>2, <2>3, <2>4, WireConstants DEF TxMoves, Wire!Last
<1>4. CASE Wire!TxWaits
  <2>1. /\ wire_tx_state # "IDLE" /\ clk_counter < tx_clks - 1
        /\ clk_counter' = clk_counter + 1 /\ wire_tx_done' = FALSE
        /\ wire_tx_state' = wire_tx_state /\ tx_bit' = tx_bit
        /\ tx_data_reg' = tx_data_reg /\ uart_tx_o' = uart_tx_o
    BY <1>1, <1>4 DEF Wire!TxWaits, Wire!BitIsOver
  <2>2. TxIndex' = TxIndex
    BY <2>1 DEF TxIndex
  <2>3. TxPos' = TxIndex * tx_clks + (clk_counter + 1)
    BY <1>2, <2>1, <2>2 DEF TxPos
  <2>4. TxPos' = TxPos + 1
    <3>1. TxIndex * tx_clks \in Nat /\ TxPos = TxIndex * tx_clks + clk_counter
      BY <1>1, <2>1, TxBounds, Skew
    <3> QED
      BY <1>1, <2>3, <3>1
  <2>5. Level(TxIndex)' = Level(TxIndex)
    BY <2>1, <2>2 DEF Level
  <2> QED
    BY <1>1, <1>2, <2>1, <2>4, <2>5, WireConstants DEF TxMoves, Wire!Last
<1>5. CASE Wire!TxNextBit
  <2>1. /\ wire_tx_state # "IDLE" /\ clk_counter = tx_clks - 1
        /\ clk_counter' = 0 /\ tx_data_reg' = tx_data_reg
    BY <1>1, <1>5 DEF Wire!TxNextBit, Wire!BitIsOver
  <2>0. wire_tx_done' => wire_tx_state = "STOP"
    BY <1>5, Zenon DEF Wire!TxNextBit
  <2>2. /\ TxPos = TxIndex * tx_clks + clk_counter /\ TxIndex * tx_clks \in Nat
        /\ (TxIndex + 1) * tx_clks = TxIndex * tx_clks + tx_clks
        /\ TxIndex \in 0 .. DataBits + 1
    BY <1>1, <2>1, TxBounds, Skew
  <2>3. TxPos + 1 = (TxIndex + 1) * tx_clks
    BY <1>1, <2>1, <2>2
  <2>4. CASE wire_tx_state = "STOP"
    <3>1. wire_tx_state' = "IDLE" /\ uart_tx_o' = 1 /\ tx_bit' = tx_bit
      BY <1>5, <2>4 DEF Wire!TxNextBit
    <3>2. TxIndex + 1 = DataBits + 2
      BY <2>4, WireConstants DEF TxIndex
    <3>3. TxPos + 1 = (DataBits + 2) * tx_clks
      BY <2>3, <3>2
    <3> QED
      BY <1>1, <1>2, <2>0, <2>1, <2>4, <3>1, <3>3, WireConstants DEF TxMoves, Wire!Last
  <2>5. CASE wire_tx_state # "STOP"
    <3>1. /\ wire_tx_state' # "IDLE" /\ wire_tx_state' \in {"DATA", "STOP"}
          /\ TxIndex' = TxIndex + 1 /\ uart_tx_o' = Level(TxIndex)'
          /\ tx_bit' \in 0 .. DataBits - 1
      <4>1. CASE wire_tx_state = "START"
        <5>1. wire_tx_state' = "DATA" /\ tx_bit' = 0 /\ uart_tx_o' = tx_data_reg[0]
          BY <1>5, <4>1 DEF Wire!TxNextBit
        <5>2. TxIndex = 0 /\ TxIndex' = 1
          BY <4>1, <5>1 DEF TxIndex
        <5>3. Level(TxIndex)' = tx_data_reg[0]
          BY <2>1, <5>2, WireConstants DEF Level
        <5> QED
          BY <5>1, <5>2, <5>3, WireConstants
      <4>2. CASE wire_tx_state = "DATA" /\ tx_bit < Wire!Last
        <5>1. /\ wire_tx_state' = "DATA" /\ tx_bit' = tx_bit + 1
              /\ uart_tx_o' = tx_data_reg[tx_bit + 1]
          BY <1>1, <1>5, <4>2, WireConstants DEF Wire!TxNextBit, Wire!Last
        <5>2. TxIndex = tx_bit + 1 /\ TxIndex' = tx_bit + 2
          BY <1>1, <4>2, <5>1 DEF TxIndex
        <5>3. Level(TxIndex)' = tx_data_reg[tx_bit + 1]
          BY <1>1, <2>1, <4>2, <5>2, WireConstants DEF Level, Wire!Last
        <5> QED
          BY <1>1, <4>2, <5>1, <5>2, <5>3, WireConstants DEF Wire!Last
      <4>3. CASE wire_tx_state = "DATA" /\ tx_bit = Wire!Last
        <5>1. wire_tx_state' = "STOP" /\ uart_tx_o' = 1 /\ tx_bit' = tx_bit
          BY <1>1, <1>5, <4>3, WireConstants DEF Wire!TxNextBit, Wire!Last
        <5>2. TxIndex = DataBits /\ TxIndex' = DataBits + 1
          BY <1>1, <4>3, <5>1, WireConstants DEF TxIndex, Wire!Last
        <5>3. Level(TxIndex)' = 1
          BY <5>2, WireConstants DEF Level
        <5> QED
          BY <1>1, <5>1, <5>2, <5>3, WireConstants
      <4> QED
        BY <1>1, <2>1, <2>5, <4>1, <4>2, <4>3, WireConstants DEF Wire!Last
    <3>2. TxPos' = (TxIndex + 1) * tx_clks + 0
      BY <1>2, <2>1, <3>1 DEF TxPos
    <3>3. TxPos' = TxPos + 1
      BY <1>1, <2>2, <2>3, <3>2
    <3>4. ~wire_tx_done'
      BY <2>0, <2>5
    <3> QED
      BY <1>1, <1>2, <2>1, <2>5, <3>1, <3>3, <3>4, WireConstants DEF TxMoves, Wire!Last
  <2> QED
    BY <2>4, <2>5
<1> QED
  BY <1>3, <1>4, <1>5 DEF Wire!UartTx

RxMoves ==
  /\ wire_state = "IDLE" =>
       /\ uart_rx_sync = 0 => wire_state' = "START" /\ RxPos' = 0 /\ RxIndex' = 0
       /\ uart_rx_sync = 1 => wire_state' = "IDLE"
       /\ ~rx_valid' /\ ~framing_error' /\ rx_data' = rx_data
  /\ wire_state # "IDLE" /\ ~Samples =>
       /\ wire_state' = wire_state /\ RxPos' = RxPos + 1 /\ RxIndex' = RxIndex
       /\ ~rx_valid' /\ ~framing_error' /\ rx_data' = rx_data /\ rx_shift' = rx_shift
  /\ Samples /\ wire_state = "START" =>
       /\ uart_rx_sync = 0 => wire_state' = "DATA" /\ RxPos' = RxPos + 1 /\ RxIndex' = 1
       /\ uart_rx_sync = 1 => wire_state' = "IDLE"
       /\ ~rx_valid' /\ ~framing_error' /\ rx_data' = rx_data
  /\ Samples /\ wire_state = "DATA" =>
       /\ wire_state' # "IDLE" /\ RxPos' = RxPos + 1 /\ RxIndex' = RxIndex + 1
       /\ rx_shift' = [rx_shift EXCEPT ![RxIndex - 1] = uart_rx_sync]
       /\ ~rx_valid' /\ ~framing_error' /\ rx_data' = rx_data
  /\ Samples /\ wire_state = "STOP" =>
       /\ wire_state' = "IDLE"
       /\ uart_rx_sync = 1 => rx_valid' /\ ~framing_error' /\ rx_data' = rx_shift
       /\ uart_rx_sync = 0 => ~rx_valid' /\ rx_data' = rx_data

LEMMA RxStep ==
  ASSUME WireTypes, Wire!UartRx
  PROVE  /\ RxMoves
         /\ wire_state' \in {"IDLE", "START", "DATA", "STOP"}
         /\ clk_count' \in 0 .. CLKS_PER_BIT - 1 /\ bit_index' \in 0 .. Wire!Last
         /\ wire_state' = "START" => clk_count' < Half /\ bit_index' = 0
         /\ rx_shift' \in Wire!Byte /\ rx_data' \in Wire!Byte
         /\ ~(rx_valid' /\ framing_error')
<1>1. /\ wire_state \in {"IDLE", "START", "DATA", "STOP"}
      /\ clk_count \in 0 .. CLKS_PER_BIT - 1 /\ bit_index \in 0 .. DataBits - 1
      /\ wire_state = "START" => clk_count < Half /\ bit_index = 0
      /\ uart_rx_sync \in {0, 1}
      /\ rx_shift \in Wire!Byte /\ rx_data \in Wire!Byte
      /\ Wire!Last = DataBits - 1
  BY DEF WireTypes, Wire!TypeOK, Wire!Last
<1> USE WireConstants
<1>2. CASE Wire!RxIdle
  <2>1. /\ wire_state = "IDLE" /\ clk_count' = 0 /\ bit_index' = 0
        /\ uart_rx_sync = 0 => wire_state' = "START"
        /\ uart_rx_sync # 0 => wire_state' = "IDLE"
        /\ ~rx_valid' /\ ~framing_error'
        /\ rx_shift' = rx_shift /\ rx_data' = rx_data
    BY <1>2 DEF Wire!RxIdle
  <2>2. wire_state' = "START" => RxPos' = 0 /\ RxIndex' = 0
    BY <2>1 DEF RxPos, RxIndex
  <2>3. ~Samples
    BY <2>1 DEF Samples
  <2> QED
    BY <1>1, <2>1, <2>2, <2>3 DEF RxMoves
<1>3. CASE Wire!RxStart
  <2>1. /\ wire_state = "START" /\ ~rx_valid' /\ ~framing_error'
        /\ bit_index' = bit_index /\ rx_shift' = rx_shift /\ rx_data' = rx_data
    BY <1>3 DEF Wire!RxStart
  <2>2. RxPos = clk_count /\ RxIndex = 0
    BY <2>1 DEF RxPos, RxIndex
  <2>3. CASE clk_count = Half - 1
    <3>1. clk_count' = 0 /\ wire_state' = (IF uart_rx_sync = 0 THEN "DATA" ELSE "IDLE")
      BY <1>3, <2>3 DEF Wire!RxStart, Wire!SampleAt, Wire!AfterStart, Half
    <3>2. uart_rx_sync = 0 => RxIndex' = 1 /\ RxPos' = Half + (1 - 1) * CLKS_PER_BIT + 0
      BY <1>1, <2>1, <3>1 DEF RxPos, RxIndex, Half, Wire!HalfBit
    <3>3. uart_rx_sync = 0 => RxPos' = RxPos + 1
      BY <2>2, <2>3, <3>2
    <3> QED
      BY <1>1, <2>1, <2>3, <3>1, <3>2, <3>3 DEF RxMoves, Samples
  <2>4. CASE clk_count # Half - 1
    <3>1. clk_count' = clk_count + 1 /\ wire_state' = wire_state
      BY <1>3, <2>4 DEF Wire!RxStart, Wire!SampleAt, Half
    <3>2. RxPos' = RxPos + 1 /\ RxIndex' = RxIndex /\ ~Samples
      BY <2>1, <2>2, <2>4, <3>1 DEF RxPos, RxIndex, Samples
    <3> QED
      BY <1>1, <2>1, <2>4, <3>1, <3>2 DEF RxMoves
  <2> QED
    BY <2>3, <2>4
<1>4. CASE Wire!RxWaits
  <2>1. /\ wire_state \in {"DATA", "STOP"} /\ clk_count # CLKS_PER_BIT - 1
        /\ clk_count' = clk_count + 1 /\ wire_state' = wire_state
        /\ ~rx_valid' /\ ~framing_error'
        /\ bit_index' = bit_index /\ rx_shift' = rx_shift /\ rx_data' = rx_data
    BY <1>4 DEF Wire!RxWaits
  <2>2. RxIndex' = RxIndex /\ ~Samples
    BY <2>1 DEF RxIndex, Samples
  <2>3. /\ RxPos = Half + (RxIndex - 1) * CLKS_PER_BIT + clk_count
        /\ RxPos' = Half + (RxIndex - 1) * CLKS_PER_BIT + (clk_count + 1)
    BY <2>1, <2>2 DEF RxPos, Half, Wire!HalfBit
  <2>4. (RxIndex - 1) * CLKS_PER_BIT \in Int
    BY <2>1, RxBounds
  <2>5. RxPos' = RxPos + 1
    BY <1>1, <2>3, <2>4
  <2> QED
    BY <1>1, <2>1, <2>2, <2>5 DEF RxMoves
<1>5. CASE Wire!RxBit
  <2>1. /\ wire_state = "DATA" /\ clk_count = CLKS_PER_BIT - 1 /\ clk_count' = 0
        /\ rx_shift' = [rx_shift EXCEPT ![bit_index] = uart_rx_sync]
        /\ ~rx_valid' /\ ~framing_error' /\ rx_data' = rx_data
        /\ bit_index = Wire!Last => bit_index' = 0 /\ wire_state' = "STOP"
        /\ bit_index # Wire!Last => bit_index' = bit_index + 1 /\ wire_state' = "DATA"
    BY <1>5 DEF Wire!RxBit, Wire!IsLastBit
  <2>2. RxIndex = bit_index + 1 /\ RxIndex' = RxIndex + 1 /\ RxIndex - 1 = bit_index
    BY <1>1, <2>1 DEF RxIndex
  <2>3. Samples
    BY <2>1 DEF Samples
  <2>4. RxPos' = Half + (RxIndex' - 1) * CLKS_PER_BIT + 0
    BY <1>1, <2>1 DEF RxPos, Half, Wire!HalfBit
  <2>5. RxIndex' - 1 = RxIndex
    BY <1>1, <2>2
  <2>6. RxPos' = Half + RxIndex * CLKS_PER_BIT + 0
    BY <2>4, <2>5
  <2>7. /\ RxPos + 1 = Half + RxIndex * CLKS_PER_BIT
        /\ RxIndex * CLKS_PER_BIT \in Nat
    BY <2>1, <2>3, RxBounds
  <2>8. RxPos' = RxPos + 1
    BY <2>6, <2>7
  <2>9. rx_shift' \in Wire!Byte
    BY <1>1, <2>1 DEF Wire!Byte
  <2> QED
    BY <1>1, <2>1, <2>2, <2>3, <2>8, <2>9 DEF RxMoves
<1>6. CASE Wire!RxStop
  <2>1. /\ wire_state = "STOP" /\ clk_count = CLKS_PER_BIT - 1 /\ clk_count' = 0
        /\ wire_state' = "IDLE"
        /\ bit_index' = bit_index /\ rx_shift' = rx_shift
    BY <1>6 DEF Wire!RxStop
  <2>2. /\ rx_valid' = (uart_rx_sync = 1) /\ framing_error' = ~(uart_rx_sync = 1)
        /\ rx_data' = IF uart_rx_sync = 1 THEN rx_shift ELSE rx_data
    BY <1>6, Zenon DEF Wire!RxStop, Wire!StopIsGood
  <2>3. /\ uart_rx_sync = 1 => rx_valid' /\ ~framing_error' /\ rx_data' = rx_shift
        /\ uart_rx_sync # 1 => ~rx_valid' /\ framing_error' /\ rx_data' = rx_data
    BY <2>2, Zenon
  <2>4. Samples
    BY <2>1 DEF Samples
  <2> QED
    BY <1>1, <2>1, <2>3, <2>4 DEF RxMoves
<1> QED
  BY <1>2, <1>3, <1>4, <1>5, <1>6 DEF Wire!UartRx

\* What the wire and the history do in one clock.
LineMoves(pulled) ==
  /\ wire' = (IF pulled THEN 0 ELSE uart_tx_o')
  /\ pulled => low' = (IF low < Half THEN low + 1 ELSE low)
  /\ ~pulled => low' = 0
  /\ pulled => \/ needed' = Frame
               \/ /\ needed' = Half + 3
                  /\ wire_tx_state = "IDLE" /\ wire_tx_state' = "IDLE"
                  /\ \/ needed = 0
                     \/ low \in 1 .. Half - 3 /\ needed = Half + 3
  /\ ~pulled /\ needed > 0 => needed' = (IF wire' = 1 THEN needed - 1 ELSE Frame)
  /\ ~pulled /\ needed = 0 => needed' = 0
  /\ clean' => ~pulled
  /\ wire_tx_state = "IDLE" /\ wire_tx_state' # "IDLE" =>
       (clean' <=> needed = 0 /\ ~pulled)
  /\ ~(wire_tx_state = "IDLE" /\ wire_tx_state' # "IDLE") =>
       (clean' <=> clean /\ ~pulled)
  /\ uart_rx_meta' \in {wire, wire'} /\ uart_rx_sync' = uart_rx_meta
  /\ wire_tx_state = "IDLE" => delivered' = 0
  /\ wire_tx_state # "IDLE" /\ rx_valid' /\ delivered < 2 => delivered' = delivered + 1
  /\ wire_tx_state # "IDLE" /\ ~rx_valid' => delivered' = delivered

LEMMA LineStep2 ==
  ASSUME WireTypes, NEW pulled \in {FALSE, Disturbed}, Wire!UartTx, Wire!Wire(pulled),
         Wire!UartRx, Wire!CountDelivered
  PROVE  /\ LineMoves(pulled) /\ pulled \in BOOLEAN
         /\ wire' \in {0, 1} /\ uart_rx_meta' \in {0, 1} /\ uart_rx_sync' \in {0, 1}
         /\ low' \in 0 .. Half /\ needed' \in 0 .. Frame /\ delivered' \in 0 .. 2
         /\ clean' \in BOOLEAN /\ (low' > 0 <=> pulled)
<1>1. pulled \in BOOLEAN
  BY WireConstants
<1>2. /\ wire \in {0, 1} /\ uart_rx_meta \in {0, 1} /\ uart_rx_sync \in {0, 1}
      /\ low \in 0 .. Half /\ needed \in 0 .. Frame /\ delivered \in 0 .. 2
      /\ clean \in BOOLEAN /\ uart_tx_o \in {0, 1}
      /\ wire_tx_state \in {"IDLE", "START", "DATA", "STOP"}
  <2>1. uart_tx_o \in {0, 1}
    BY WireConstants DEF WireTypes, Level, Wire!Byte, Wire!Last
  <2> QED
    BY <2>1 DEF WireTypes
<1>3. uart_tx_o' \in {0, 1} /\ wire_tx_state' \in {"IDLE", "START", "DATA", "STOP"}
  <2>1. /\ uart_tx_o' = (IF wire_tx_state' = "IDLE" THEN 1 ELSE Level(TxIndex)')
        /\ tx_data_reg' \in Wire!Byte
        /\ wire_tx_state' \in {"IDLE", "START", "DATA", "STOP"}
    BY TxStep
  <2>2. Level(TxIndex)' \in {0, 1}
    BY <2>1, WireConstants DEF Level, Wire!Byte, Wire!Last
  <2> QED
    BY <2>1, <2>2
<1> DEFINE starts == wire_tx_state = "IDLE" /\ wire_tx_state' = "START"
           short == /\ wire_tx_state = "IDLE" /\ ~starts
                    /\ \/ needed = 0
                       \/ low \in 1 .. Half - 3 /\ needed = Half + 3
<1>4. /\ wire' = IF pulled THEN 0 ELSE uart_tx_o'
      /\ low' = IF ~pulled THEN 0 ELSE IF low < Half THEN low + 1 ELSE low
      /\ needed' = IF pulled THEN (IF short THEN Half + 3 ELSE Frame)
                   ELSE IF needed > 0 /\ wire' = 1 THEN needed - 1
                   ELSE IF needed > 0 THEN Frame ELSE 0
      /\ clean' = IF starts THEN needed = 0 /\ ~pulled ELSE clean /\ ~pulled
  BY Zenon DEF Wire!Wire, Half, Frame
<1>5. starts <=> wire_tx_state = "IDLE" /\ wire_tx_state' # "IDLE"
  BY TxStep DEF TxMoves
<1>51. short => /\ wire_tx_state = "IDLE" /\ ~starts
                /\ \/ needed = 0
                   \/ low \in 1 .. Half - 3 /\ needed = Half + 3
  BY Zenon
<1> HIDE DEF starts, short
<1>6. clean' \in BOOLEAN
  BY <1>2, <1>4, Zenon
<1>7. /\ clean' => ~pulled
      /\ starts => (clean' <=> needed = 0 /\ ~pulled)
      /\ ~starts => (clean' <=> clean /\ ~pulled)
  BY <1>4, Zenon
<1>8. pulled => (needed' = Frame \/ (needed' = Half + 3 /\ short))
  <2>1. CASE pulled /\ short
    <3>1. needed' = Half + 3
      BY <1>4, <2>1, Zenon
    <3> QED
      BY <2>1, <3>1, Zenon
  <2>2. CASE pulled /\ ~short
    <3>1. needed' = Frame
      BY <1>4, <2>2, Zenon
    <3> QED
      BY <3>1, Zenon
  <2> QED
    BY <2>1, <2>2
<1>9. /\ ~pulled /\ needed > 0 => needed' = (IF wire' = 1 THEN needed - 1 ELSE Frame)
      /\ ~pulled /\ ~(needed > 0) => needed' = 0
  BY <1>4, Zenon
<1>10. uart_rx_meta' \in {wire, wire'} /\ uart_rx_sync' = uart_rx_meta
  BY DEF Wire!UartRx, Wire!Synchronise
<1>11. /\ wire_tx_state = "IDLE" => delivered' = 0
       /\ wire_tx_state # "IDLE" /\ rx_valid' /\ delivered < 2 => delivered' = delivered + 1
       /\ wire_tx_state # "IDLE" /\ ~(rx_valid' /\ delivered < 2) => delivered' = delivered
  BY Zenon DEF Wire!CountDelivered
<1>12. /\ pulled => wire' = 0 /\ low' = (IF low < Half THEN low + 1 ELSE low)
       /\ ~pulled => wire' = uart_tx_o' /\ low' = 0
  BY <1>4, Zenon
<1>13. short => /\ wire_tx_state = "IDLE" /\ wire_tx_state' = "IDLE"
                /\ \/ needed = 0
                   \/ low \in 1 .. Half - 3 /\ needed = Half + 3
  BY <1>5, <1>51
<1>14. LineMoves(pulled)
  BY <1>1, <1>2, <1>5, <1>7, <1>8, <1>9, <1>10, <1>11, <1>12, <1>13, WireConstants
     DEF LineMoves
<1>15. wire' \in {0, 1} /\ uart_rx_meta' \in {0, 1} /\ uart_rx_sync' \in {0, 1}
       /\ low' \in 0 .. Half /\ (low' > 0 <=> pulled)
  BY <1>1, <1>2, <1>3, <1>10, <1>12, WireConstants
<1>16. needed' \in 0 .. Frame
  BY <1>1, <1>2, <1>8, <1>9, WireConstants
<1>17. delivered' \in 0 .. 2
  BY <1>2, <1>11
<1> QED
  BY <1>1, <1>6, <1>14, <1>15, <1>16, <1>17

TxBounded ==
  /\ TxIndex \in 0 .. DataBits + 1 /\ TxPos \in Nat
  /\ TxIndex * tx_clks <= TxPos /\ TxPos < (TxIndex + 1) * tx_clks

LEMMA TxBoundedAlways == WireTypes /\ wire_tx_state # "IDLE" => TxBounded
BY TxBounds DEF TxBounded

LEMMA TxBoundedNext == (WireTypes /\ wire_tx_state # "IDLE")' => TxBounded'
BY TxBoundedAlways, PTL

\* The line within a frame that nobody disturbs, seen through the flip-flops.
LEMMA SeenStep ==
  ASSUME WireTypes, WireTypes', low = 0, low' = 0, TxMoves,
         wire_tx_state # "IDLE", wire_tx_state' # "IDLE",
         uart_rx_meta' \in {wire, wire'}, uart_rx_sync' = uart_rx_meta,
         SeenIn(uart_rx_meta, TxPos - 1, TxPos)
  PROVE  /\ SeenIn(uart_rx_meta, TxPos - 1, TxPos)'
         /\ SeenIn(uart_rx_sync, TxPos - 2, TxPos - 1)'
<1>1. tx_clks' = tx_clks /\ tx_data_reg' = tx_data_reg /\ TxPos' = TxPos + 1
  BY DEF TxMoves
<1>2. \A n : Level(n)' = Level(n)
  BY <1>1 DEF Level
<1>3. /\ TxIndex \in 0 .. DataBits + 1 /\ TxPos \in Nat
      /\ TxIndex * tx_clks <= TxPos /\ TxPos < (TxIndex + 1) * tx_clks
  BY TxBounds
<1>4. /\ TxIndex' \in 0 .. DataBits + 1
      /\ TxIndex' * tx_clks <= TxPos + 1 /\ TxPos + 1 < (TxIndex' + 1) * tx_clks
  BY <1>1, TxBoundedNext DEF TxBounded
<1>5. wire = Level(TxIndex)
  BY DEF WireTypes
<1>6. wire' = Level(TxIndex)'
  BY DEF WireTypes
<1>7. wire' = Level(TxIndex')
  BY <1>1, <1>6 DEF Level
<1>8. tx_clks \in Nat
  BY Skew, WireConstants DEF WireTypes
<1> DEFINE k == TxIndex
           kn == TxIndex'
           pos == TxPos
<1>9. /\ k * tx_clks \in Nat /\ (k + 1) * tx_clks \in Nat
      /\ kn * tx_clks \in Nat /\ (kn + 1) * tx_clks \in Nat
      /\ k \in -1 .. DataBits + 1 /\ kn \in -1 .. DataBits + 1
  <2>1. k \in 0 .. DataBits + 1 /\ kn \in 0 .. DataBits + 1
    BY <1>3, <1>4
  <2> HIDE DEF k, kn
  <2>2. k \in Nat /\ kn \in Nat
    BY <2>1, WireConstants
  <2> QED
    BY <2>1, <2>2, <1>8, WireConstants
<1>10. \E n \in -1 .. DataBits + 1 :
         uart_rx_meta' = Level(n) /\ n * tx_clks <= pos + 1 /\ pos < (n + 1) * tx_clks
  <2>1. CASE uart_rx_meta' = wire
    <3>1. k * tx_clks <= pos + 1 /\ pos < (k + 1) * tx_clks
      BY <1>3, <1>9
    <3> QED
      BY <1>5, <1>9, <2>1, <3>1
  <2>2. CASE uart_rx_meta' = wire'
    <3>1. kn * tx_clks <= pos + 1 /\ pos < (kn + 1) * tx_clks
      BY <1>3, <1>4, <1>9
    <3> QED
      BY <1>7, <1>9, <2>2, <3>1
  <2> QED
    BY <2>1, <2>2
<1>11. \E n \in -1 .. DataBits + 1 :
         uart_rx_sync' = Level(n) /\ n * tx_clks <= pos /\ pos - 1 < (n + 1) * tx_clks
  BY DEF SeenIn
<1>12. TxPos' - 1 = pos /\ TxPos' - 2 = pos - 1 /\ TxPos' = pos + 1
  BY <1>1, <1>3
<1> HIDE DEF k, kn, pos
<1>13. SeenIn(uart_rx_meta, TxPos - 1, TxPos)'
  <2>1. \E n \in -1 .. DataBits + 1 :
          uart_rx_meta' = Level(n)' /\ n * tx_clks' <= TxPos' /\ TxPos' - 1 < (n + 1) * tx_clks'
    BY <1>1, <1>2, <1>10, <1>12
  <2> QED
    BY <2>1 DEF SeenIn
<1>14. SeenIn(uart_rx_sync, TxPos - 2, TxPos - 1)'
  <2>1. \E n \in -1 .. DataBits + 1 :
          uart_rx_sync' = Level(n)' /\ n * tx_clks' <= TxPos' - 1
          /\ TxPos' - 2 < (n + 1) * tx_clks'
    BY <1>1, <1>2, <1>11, <1>12
  <2> QED
    BY <2>1 DEF SeenIn
<1> QED
  BY <1>13, <1>14

\* Where the receiver samples, it sees the bit it means to.
LEMMA SampleIsTrue ==
  ASSUME WireTypes, wire_tx_state # "IDLE", wire_state # "IDLE",
         TxPos - RxPos \in {2, 3}, SeenIn(uart_rx_sync, TxPos - 2, TxPos - 1), Samples
  PROVE  uart_rx_sync = Level(RxIndex)
<1>1. /\ RxIndex \in 0 .. DataBits + 1 /\ RxPos \in Nat /\ TxPos \in Nat
      /\ RxIndex * CLKS_PER_BIT \in Nat
      /\ RxPos + 1 = Half + RxIndex * CLKS_PER_BIT
  BY RxBounds, TxBounds
<1>2. /\ RxIndex * tx_clks < RxIndex * CLKS_PER_BIT + Half
      /\ RxIndex * CLKS_PER_BIT + Half + 3 <= (RxIndex + 1) * tx_clks
      /\ RxIndex * tx_clks \in Nat /\ tx_clks \in Nat
      /\ (RxIndex + 1) * tx_clks = RxIndex * tx_clks + tx_clks
  BY <1>1, Skew DEF WireTypes
<1> DEFINE a == RxIndex * tx_clks
           b == (RxIndex + 1) * tx_clks
           c == RxIndex * CLKS_PER_BIT
<1>3. /\ a < c + Half /\ c + Half + 3 <= b /\ a \in Nat /\ b \in Nat /\ c \in Nat
      /\ RxPos + 1 = Half + c
  BY <1>1, <1>2
<1> HIDE DEF a, b, c
<1>4. a <= TxPos - 2 /\ TxPos - 1 < b
  BY <1>1, <1>3, WireConstants
<1> QED
  BY <1>1, <1>4, SeenIsLevel DEF a, b

LEMMA WireTypesNext ==
  ASSUME WireTypes, Wire!Clock
  PROVE  /\ WireTypes' /\ TxMoves /\ RxMoves
         /\ \E pulled \in BOOLEAN : LineMoves(pulled) /\ (low' > 0 <=> pulled)
<1>1. PICK pulled \in {FALSE, Disturbed} :
        Wire!UartTx /\ Wire!Wire(pulled) /\ Wire!UartRx /\ Wire!CountDelivered
  BY DEF Wire!Clock
<1>2. /\ LineMoves(pulled) /\ pulled \in BOOLEAN
      /\ wire' \in {0, 1} /\ uart_rx_meta' \in {0, 1} /\ uart_rx_sync' \in {0, 1}
      /\ low' \in 0 .. Half /\ needed' \in 0 .. Frame /\ delivered' \in 0 .. 2
      /\ clean' \in BOOLEAN /\ (low' > 0 <=> pulled)
  BY <1>1, LineStep2
<1>3. /\ TxMoves
      /\ wire_tx_state' \in {"IDLE", "START", "DATA", "STOP"}
      /\ tx_bit' \in 0 .. Wire!Last /\ clk_counter' \in 0 .. tx_clks - 1
      /\ tx_data_reg' \in Wire!Byte
      /\ uart_tx_o' = (IF wire_tx_state' = "IDLE" THEN 1 ELSE Level(TxIndex)')
  BY <1>1, TxStep
<1>4. /\ RxMoves
      /\ wire_state' \in {"IDLE", "START", "DATA", "STOP"}
      /\ clk_count' \in 0 .. CLKS_PER_BIT - 1 /\ bit_index' \in 0 .. Wire!Last
      /\ wire_state' = "START" => clk_count' < Half /\ bit_index' = 0
      /\ rx_shift' \in Wire!Byte /\ rx_data' \in Wire!Byte
      /\ ~(rx_valid' /\ framing_error')
  BY <1>1, RxStep
<1>5. /\ tx_clks' = tx_clks /\ tx_clks \in TxClks
      /\ Half' = Half /\ Frame' = Frame
  BY <1>3 DEF TxMoves, WireTypes, Half, Frame, Wire!HalfBit, Wire!FrameClocks
<1>6. wire' = (IF low' > 0 THEN 0 ELSE uart_tx_o')
  BY <1>2 DEF LineMoves
<1>7. Wire!TypeOK'
  BY <1>3, <1>4 DEF Wire!TypeOK
<1>8. /\ tx_clks' \in TxClks /\ clk_counter' \in 0 .. tx_clks' - 1
  BY <1>3, <1>5
<1>9. WireTypes'
  BY <1>2, <1>3, <1>4, <1>5, <1>6, <1>7, <1>8 DEF WireTypes
<1> QED
  BY <1>2, <1>3, <1>4, <1>9

Moves(pulled) ==
  WireTypes' /\ TxMoves /\ RxMoves /\ LineMoves(pulled) /\ (low' > 0 <=> pulled)

\* What the receiver sees of an undisturbed frame when it matters.
LEMMA CleanSync ==
  ASSUME WireInv, clean, wire_tx_state # "IDLE"
  PROVE  /\ Waiting /\ TxPos = 0 => uart_rx_sync = 1
         /\ Waiting /\ TxPos = 2 => uart_rx_sync = 0
         /\ Receiving /\ Samples => uart_rx_sync = Level(RxIndex)
         /\ Done => uart_rx_sync = 1
         /\ Waiting \/ Receiving \/ Done
         /\ TxPos \in Nat /\ TxPos < (DataBits + 2) * tx_clks
<1>1. /\ WireTypes /\ SeenIn(uart_rx_sync, TxPos - 2, TxPos - 1)
      /\ Waiting \/ Receiving \/ Done
  BY DEF WireInv, CleanInv
<1>2. TxPos \in Nat /\ TxIndex \in 0 .. DataBits + 1 /\ TxPos < (TxIndex + 1) * tx_clks
  BY <1>1, TxBounds
<1>3. tx_clks \in TxClks /\ tx_clks \in Nat /\ tx_clks >= 7
  BY <1>1, Skew, WireConstants DEF WireTypes
<1>4. Waiting /\ TxPos = 0 => uart_rx_sync = 1
  <2>1. /\ TxPos = 0 => SeenIn(uart_rx_sync, -2, -1)
    BY <1>1
  <2>3. (-1) * tx_clks = 0 - tx_clks /\ (-1 + 1) * tx_clks = 0
    BY <1>3
  <2>4. (-1) * tx_clks <= -2 /\ -1 < (-1 + 1) * tx_clks
    BY <1>3, <2>3
  <2>5. TxPos = 0 => uart_rx_sync = Level(-1)
    BY <1>1, <2>1, <2>4, SeenIsLevel, WireConstants
  <2> QED
    BY <2>5, WireConstants DEF Level
<1>5. Waiting /\ TxPos = 2 => uart_rx_sync = 0
  <2>1. TxPos = 2 => SeenIn(uart_rx_sync, 0, 1)
    BY <1>1
  <2>2. 0 * tx_clks <= 0 /\ 1 < (0 + 1) * tx_clks
    BY <1>3
  <2>3. TxPos = 2 => uart_rx_sync = Level(0)
    BY <1>1, <2>1, <2>2, SeenIsLevel, WireConstants
  <2> QED
    BY <2>3 DEF Level
<1>6. Receiving /\ Samples => uart_rx_sync = Level(RxIndex)
  BY <1>1, SampleIsTrue DEF Receiving
<1>7. TxPos < (DataBits + 2) * tx_clks
  <2> DEFINE d == DataBits + 1 - TxIndex
  <2>1. d \in Nat /\ DataBits + 2 = TxIndex + 1 + d
    BY <1>2, WireConstants
  <2>2. (DataBits + 2) * tx_clks = (TxIndex + 1) * tx_clks + d * tx_clks
        /\ d * tx_clks \in Nat /\ (TxIndex + 1) * tx_clks \in Int
    BY <1>2, <1>3, <2>1, WireConstants
  <2> DEFINE a == (DataBits + 2) * tx_clks
             b == (TxIndex + 1) * tx_clks
             c == d * tx_clks
  <2>3. a = b + c /\ c \in Nat /\ b \in Int /\ TxPos < b
    BY <1>2, <2>2
  <2> HIDE DEF a, b, c
  <2>4. TxPos < a
    BY <1>2, <2>3
  <2> QED
    BY <2>4 DEF a
<1>8. Done => uart_rx_sync = 1
  <2> SUFFICES ASSUME Done PROVE uart_rx_sync = 1
    OBVIOUS
  <2> DEFINE n == DataBits + 1
             a == n * tx_clks
             c == n * CLKS_PER_BIT
  <2>1. /\ n * tx_clks < n * CLKS_PER_BIT + Half /\ n * tx_clks \in Nat
        /\ n * CLKS_PER_BIT \in Nat
    BY <1>3, Skew, WireConstants
  <2>2. TxPos >= Half + c + 2
    BY DEF Done
  <2>3. (n + 1) * tx_clks = (DataBits + 2) * tx_clks
        /\ (DataBits + 2) * tx_clks \in Nat
    BY <1>3, WireConstants
  <2>4. a <= TxPos - 2
    BY <1>2, <2>1, <2>2, WireConstants
  <2>5. TxPos - 1 < (n + 1) * tx_clks
    BY <1>2, <1>7, <2>3
  <2>6. uart_rx_sync = Level(n)
    BY <1>1, <1>2, <2>4, <2>5, SeenIsLevel, WireConstants
  <2> QED
    BY <2>6, WireConstants DEF Level
<1> QED
  BY <1>1, <1>2, <1>4, <1>5, <1>6, <1>7, <1>8

\* The receiver in the next clock of an undisturbed frame.
LEMMA CleanReceiverStep ==
  ASSUME WireInv, clean, wire_tx_state # "IDLE", NEW pulled, Moves(pulled)
  PROVE  /\ Waiting =>
              \/ wire_state' = "IDLE" /\ TxPos + 1 <= 2
              \/ /\ wire_state' = "START" /\ RxPos' = 0 /\ RxIndex' = 0
                 /\ TxPos + 1 \in {2, 3}
         /\ Receiving =>
              \/ /\ wire_state' # "IDLE" /\ RxPos' = RxPos + 1
                 /\ \A i \in 0 .. RxIndex' - 2 : rx_shift'[i] = tx_data_reg[i]
              \/ /\ wire_state = "STOP" /\ Samples /\ wire_state' = "IDLE"
                 /\ rx_valid' /\ rx_data' = tx_data_reg
         /\ Receiving /\ wire_state' # "IDLE" => ~rx_valid'
         /\ Done => wire_state' = "IDLE"
         /\ Waiting \/ Done => ~rx_valid' /\ rx_data' = rx_data
         /\ ~framing_error'
<1>1. /\ WireTypes /\ RxMoves
      /\ wire_state \in {"IDLE", "START", "DATA", "STOP"}
      /\ uart_rx_sync \in {0, 1} /\ tx_data_reg \in Wire!Byte
      /\ rx_shift \in Wire!Byte
  BY DEF WireInv, WireTypes, Moves, Wire!TypeOK
<1>2. /\ Waiting /\ TxPos = 0 => uart_rx_sync = 1
      /\ Waiting /\ TxPos = 2 => uart_rx_sync = 0
      /\ Receiving /\ Samples => uart_rx_sync = Level(RxIndex)
      /\ Done => uart_rx_sync = 1
      /\ Waiting \/ Receiving \/ Done
      /\ TxPos \in Nat
  BY CleanSync
<1>3. CASE Waiting
  <2>1. wire_state = "IDLE" /\ TxPos \in 0 .. 2
    BY <1>2, <1>3 DEF Waiting
  <2> QED
    BY <1>1, <1>2, <1>3, <2>1 DEF RxMoves, Receiving, Done
<1>4. CASE Done
  <2>1. wire_state = "IDLE" /\ uart_rx_sync = 1
    BY <1>2, <1>4 DEF Done
  <2>2. ~Waiting
    BY <1>4 DEF Waiting, Done
  <2> QED
    BY <1>1, <1>4, <2>1, <2>2 DEF RxMoves, Receiving
<1>5. CASE Receiving
  <2>1. wire_state # "IDLE" /\ ~Waiting /\ ~Done
    BY <1>5 DEF Receiving, Waiting, Done
  <2>2. \A i \in 0 .. RxIndex - 2 : rx_shift[i] = tx_data_reg[i]
    BY <1>5 DEF Receiving
  <2>3. RxIndex \in 0 .. DataBits + 1
    BY <1>1, <2>1, RxBounds
  <2>4. CASE ~Samples
    BY <1>1, <2>1, <2>2, <2>4 DEF RxMoves
  <2>5. CASE Samples /\ wire_state = "START"
    <3>1. uart_rx_sync = 0
      BY <1>2, <1>5, <2>5 DEF RxIndex, Level
    <3> QED
      BY <1>1, <2>1, <2>5, <3>1 DEF RxMoves
  <2>6. CASE Samples /\ wire_state = "DATA"
    <3>1. RxIndex \in 1 .. DataBits
      BY <1>1, <2>6, WireConstants DEF RxIndex, WireTypes, Wire!TypeOK, Wire!Last
    <3>2. uart_rx_sync = tx_data_reg[RxIndex - 1]
      BY <1>2, <1>5, <2>6, <3>1 DEF Level
    <3>3. /\ RxIndex' = RxIndex + 1 /\ wire_state' # "IDLE" /\ RxPos' = RxPos + 1
          /\ rx_shift' = [rx_shift EXCEPT ![RxIndex - 1] = uart_rx_sync]
          /\ ~rx_valid' /\ ~framing_error'
      BY <1>1, <2>6 DEF RxMoves
    <3>4. RxIndex - 1 \in 0 .. DataBits - 1
      BY <3>1, WireConstants
    <3>5. rx_shift \in [0 .. DataBits - 1 -> {0, 1}]
      BY <1>1 DEF Wire!Byte, Wire!Last
    <3>6. \A i \in 0 .. RxIndex - 1 :
            rx_shift'[i] = IF i = RxIndex - 1 THEN uart_rx_sync ELSE rx_shift[i]
      <4> DEFINE k == RxIndex - 1
      <4>1. k \in 0 .. DataBits - 1 /\ rx_shift' = [rx_shift EXCEPT ![k] = uart_rx_sync]
        BY <3>3, <3>4
      <4> HIDE DEF k
      <4>2. \A i \in 0 .. k : rx_shift'[i] = IF i = k THEN uart_rx_sync ELSE rx_shift[i]
        BY <3>5, <4>1, WireConstants
      <4> QED
        BY <4>2 DEF k
    <3>7. \A i \in 0 .. RxIndex - 1 : rx_shift'[i] = tx_data_reg[i]
      BY <2>2, <3>1, <3>2, <3>6
    <3>8. RxIndex' - 2 = RxIndex - 1
      BY <3>1, <3>3
    <3> QED
      BY <2>1, <3>3, <3>7, <3>8
  <2>7. CASE Samples /\ wire_state = "STOP"
    <3>1. RxIndex = DataBits + 1
      BY <2>7 DEF RxIndex
    <3>2. uart_rx_sync = 1
      BY <1>2, <1>5, <2>7, <3>1, WireConstants DEF Level
    <3>3. \A i \in 0 .. DataBits - 1 : rx_shift[i] = tx_data_reg[i]
      BY <2>2, <3>1, WireConstants
    <3>4. rx_shift = tx_data_reg
      <4> DEFINE S == 0 .. DataBits - 1
      <4>1. rx_shift \in [S -> {0, 1}] /\ tx_data_reg \in [S -> {0, 1}]
        BY <1>1 DEF Wire!Byte, Wire!Last
      <4>2. \A i \in S : rx_shift[i] = tx_data_reg[i]
        BY <3>3
      <4> HIDE DEF S
      <4> QED
        BY <4>1, <4>2
    <3> QED
      BY <1>1, <2>1, <2>7, <3>2, <3>4 DEF RxMoves
  <2> QED
    BY <1>1, <2>1, <2>4, <2>5, <2>6, <2>7
<1> QED
  BY <1>2, <1>3, <1>4, <1>5

LEMMA CleanFrameGoesOn ==
  ASSUME WireInv, clean, wire_tx_state # "IDLE", wire_tx_state' # "IDLE",
         Moves(FALSE)
  PROVE  /\ SeenIn(uart_rx_meta, TxPos - 1, TxPos)'
         /\ SeenIn(uart_rx_sync, TxPos - 2, TxPos - 1)'
         /\ Waiting' \/ Receiving' \/ Done'
<1>1. /\ WireTypes /\ low = 0 /\ SeenIn(uart_rx_meta, TxPos - 1, TxPos)
      /\ low' \in Nat /\ low' = 0
  BY DEF WireInv, CleanInv, Moves, LineMoves
<1>2. /\ SeenIn(uart_rx_meta, TxPos - 1, TxPos)'
      /\ SeenIn(uart_rx_sync, TxPos - 2, TxPos - 1)'
  BY <1>1, SeenStep DEF Moves, LineMoves
<1>3. /\ TxPos' = TxPos + 1 /\ TxPos \in Nat /\ tx_data_reg' = tx_data_reg
      /\ Half' = Half
  BY CleanSync DEF Moves, TxMoves, Half, Wire!HalfBit
<1>4. delivered \in 0 .. 2
      /\ (rx_valid' /\ delivered < 2 => delivered' = delivered + 1)
      /\ (~rx_valid' => delivered' = delivered)
  BY DEF Moves, LineMoves, WireInv, WireTypes
<1>5. CASE Waiting
  <2>1. delivered' = 0
    BY <1>4, <1>5, CleanReceiverStep DEF Waiting
  <2>2. CASE wire_state' = "IDLE" /\ TxPos + 1 <= 2
    <3>1. Waiting'
      BY <1>3, <2>1, <2>2 DEF Waiting
    <3> QED
      BY <1>2, <3>1
  <2>3. CASE wire_state' = "START" /\ RxPos' = 0 /\ RxIndex' = 0 /\ TxPos + 1 \in {2, 3}
    <3>1. TxPos' - RxPos' \in {2, 3}
      BY <1>3, <2>3
    <3>2. \A i \in 0 .. RxIndex' - 2 : rx_shift'[i] = tx_data_reg'[i]
      BY <2>3
    <3>3. Receiving'
      BY <2>1, <2>3, <3>1, <3>2 DEF Receiving
    <3> QED
      BY <1>2, <3>3
  <2> QED
    BY <1>5, <2>2, <2>3, CleanReceiverStep
<1>6. CASE Receiving
  <2>1. /\ wire_state # "IDLE" /\ delivered = 0 /\ TxPos - RxPos \in {2, 3}
    BY <1>6 DEF Receiving
  <2>2. RxPos \in Nat
    BY <1>1, <2>1, RxBounds
  <2>3. CASE /\ wire_state' # "IDLE" /\ RxPos' = RxPos + 1
             /\ \A i \in 0 .. RxIndex' - 2 : rx_shift'[i] = tx_data_reg[i]
    <3>1. delivered' = 0
      BY <1>4, <1>6, <2>1, <2>3, CleanReceiverStep
    <3>2. TxPos' - RxPos' \in {2, 3}
      BY <1>3, <2>1, <2>2, <2>3
    <3>3. Receiving'
      BY <1>3, <2>3, <3>1, <3>2 DEF Receiving
    <3> QED
      BY <1>2, <3>3
  <2>4. CASE /\ wire_state = "STOP" /\ Samples /\ wire_state' = "IDLE"
             /\ rx_valid' /\ rx_data' = tx_data_reg
    <3>1. RxIndex = DataBits + 1 /\ RxPos + 1 = Half + RxIndex * CLKS_PER_BIT
      BY <1>1, <2>1, <2>4, RxBounds DEF RxIndex
    <3>2. TxPos + 1 >= Half + (DataBits + 1) * CLKS_PER_BIT + 2
      <4> DEFINE c == (DataBits + 1) * CLKS_PER_BIT
      <4>1. c \in Nat /\ RxPos + 1 = Half + c
        BY <3>1, WireConstants
      <4> HIDE DEF c
      <4>2. TxPos + 1 >= Half + c + 2
        BY <1>3, <2>1, <2>2, <4>1, WireConstants
      <4> QED
        BY <4>2 DEF c
    <3>3. delivered' = 1
      BY <1>4, <2>1, <2>4
    <3>4. Done'
      BY <1>3, <2>4, <3>2, <3>3 DEF Done
    <3> QED
      BY <1>2, <3>4
  <2> QED
    BY <1>6, <2>3, <2>4, CleanReceiverStep
<1>7. CASE Done
  <2>1. delivered' = 1 /\ rx_data' = tx_data_reg /\ wire_state' = "IDLE"
    BY <1>4, <1>7, CleanReceiverStep DEF Done
  <2>2. TxPos + 1 >= Half + (DataBits + 1) * CLKS_PER_BIT + 2
    BY <1>3, <1>7, WireConstants DEF Done
  <2>3. Done'
    BY <1>3, <2>1, <2>2 DEF Done
  <2> QED
    BY <1>2, <2>3
<1> QED
  BY <1>2, <1>5, <1>6, <1>7, CleanSync

LEMMA CleanFrameEnds ==
  ASSUME WireInv, clean, wire_tx_state # "IDLE", wire_tx_state' = "IDLE",
         Moves(FALSE)
  PROVE  /\ wire_state' = "IDLE" /\ uart_rx_meta' = 1 /\ uart_rx_sync' = 1
         /\ delivered' = 1 /\ rx_data' = tx_data_reg'
<1> DEFINE n == DataBits + 1
           a == n * tx_clks
           b == (DataBits + 2) * tx_clks
           c == n * CLKS_PER_BIT
<1>1. /\ WireTypes /\ low = 0 /\ SeenIn(uart_rx_meta, TxPos - 1, TxPos)
      /\ low' = 0 /\ tx_clks \in TxClks /\ n \in 0 .. DataBits + 1
  BY WireConstants DEF WireInv, CleanInv, Moves, LineMoves, WireTypes
<1>2. /\ tx_clks \in Nat /\ tx_clks >= 7 /\ a \in Nat /\ c \in Nat
      /\ a < c + Half /\ c + Half + 3 <= (n + 1) * tx_clks
      /\ (n + 1) * tx_clks = a + tx_clks
  BY <1>1, Skew
<1>3. /\ b = a + tx_clks /\ n + 1 = DataBits + 2
  BY <1>2, WireConstants
<1>4. /\ TxPos + 1 = b /\ TxPos \in Nat /\ wire_tx_state = "STOP"
      /\ tx_data_reg' = tx_data_reg
  BY CleanSync DEF Moves, TxMoves
<1>5. /\ a <= TxPos - 1 /\ TxPos < (n + 1) * tx_clks
      /\ TxPos + 1 >= c + Half + 3 /\ TxPos >= 6
  <2> HIDE DEF a, b, c, n
  <2> QED
    BY <1>2, <1>3, <1>4
<1>6. uart_rx_meta = 1
  <2>1. uart_rx_meta = Level(n)
    BY <1>1, <1>4, <1>5, SeenIsLevel
  <2> QED
    BY <2>1, WireConstants DEF Level
<1>7. wire = 1 /\ wire' = 1
  <2>1. wire = Level(TxIndex) /\ TxIndex = n
    BY <1>1, <1>4 DEF WireTypes, TxIndex
  <2>2. wire' = uart_tx_o' /\ uart_tx_o' = 1
    BY DEF Moves, LineMoves, WireTypes
  <2> QED
    BY <2>1, <2>2, WireConstants DEF Level
<1>8. uart_rx_meta' = 1 /\ uart_rx_sync' = 1
  BY <1>6, <1>7 DEF Moves, LineMoves
<1>9. delivered \in 0 .. 2
      /\ (rx_valid' /\ delivered < 2 => delivered' = delivered + 1)
      /\ (~rx_valid' => delivered' = delivered)
  BY DEF Moves, LineMoves, WireInv, WireTypes
<1>10. ~Waiting
  BY <1>4, <1>5 DEF Waiting
<1>11. CASE Receiving
  <2>1. wire_state # "IDLE" /\ TxPos - RxPos \in {2, 3} /\ delivered = 0
    BY <1>11 DEF Receiving
  <2>2. RxPos \in Nat
    BY <1>1, <2>1, RxBounds
  <2>3. RxPos + 1 >= Half + c
    <3> HIDE DEF c
    <3> QED
      BY <1>2, <1>4, <1>5, <2>1, <2>2, WireConstants
  <2>4. wire_state = "STOP" /\ Samples
    BY <1>1, <2>1, <2>3, LastSample
  <2>5. wire_state' = "IDLE"
    BY <2>4 DEF Moves, RxMoves
  <2>6. rx_valid' /\ rx_data' = tx_data_reg
    BY <1>11, <2>5, CleanReceiverStep
  <2> QED
    BY <1>4, <1>8, <1>9, <2>1, <2>5, <2>6
<1>12. CASE Done
  BY <1>4, <1>8, <1>9, <1>12, CleanReceiverStep DEF Done
<1> QED
  BY <1>10, <1>11, <1>12, CleanSync

\* A frame begins on a line that is quiet, before a receiver that is ready.
LEMMA CleanFrameBegins ==
  ASSUME WireInv, needed = 0, wire_tx_state = "IDLE", wire_tx_state' # "IDLE",
         Moves(FALSE)
  PROVE  /\ SeenIn(uart_rx_meta, TxPos - 1, TxPos)'
         /\ SeenIn(uart_rx_sync, TxPos - 2, TxPos - 1)'
         /\ Waiting' /\ ~framing_error'
<1>1. /\ WireTypes /\ wire_state = "IDLE" /\ low = 0
      /\ uart_rx_meta = 1 /\ uart_rx_sync = 1
  BY DEF WireInv, ReadyInv
<1>2. TxPos' = 0 /\ tx_clks' = tx_clks /\ wire_tx_state' = "START"
  BY DEF Moves, TxMoves
<1>3. wire_state' = "IDLE" /\ ~framing_error' /\ delivered' = 0
  BY <1>1 DEF Moves, RxMoves, LineMoves
<1>4. wire = 1
  BY <1>1 DEF WireTypes
<1>5. wire' = 0
  <2>1. wire' = uart_tx_o' /\ uart_tx_o' = Level(TxIndex)'
    BY <1>2 DEF Moves, LineMoves, WireTypes
  <2>2. TxIndex' = 0
    BY <1>2 DEF TxIndex
  <2> QED
    BY <2>1, <2>2 DEF Level
<1>6. uart_rx_meta' \in {0, 1} /\ uart_rx_sync' = 1
  BY <1>1, <1>4, <1>5 DEF Moves, LineMoves
<1>7. Level(-1)' = 1 /\ Level(0)' = 0
  BY WireConstants DEF Level
<1>8. tx_clks \in Nat /\ tx_clks >= 7
  BY <1>1, Skew, WireConstants DEF WireTypes
<1>9. /\ (-1) * tx_clks <= 0 /\ -1 < (-1 + 1) * tx_clks
      /\ 0 * tx_clks <= 0 /\ -1 < (0 + 1) * tx_clks
      /\ (-1) * tx_clks <= -1 /\ -2 < (-1 + 1) * tx_clks
  BY <1>8
<1>10. TxPos' - 1 = -1 /\ TxPos' - 2 = -2
  BY <1>2
<1>11. -1 \in -1 .. DataBits + 1 /\ 0 \in -1 .. DataBits + 1
  BY WireConstants
<1>12. \E k \in -1 .. DataBits + 1 :
         uart_rx_meta' = Level(k)' /\ k * tx_clks <= 0 /\ -1 < (k + 1) * tx_clks
  <2>1. CASE uart_rx_meta' = 1
    BY <1>7, <1>9, <1>11, <2>1
  <2>2. CASE uart_rx_meta' = 0
    BY <1>7, <1>9, <1>11, <2>2
  <2> QED
    BY <1>6, <2>1, <2>2
<1>13. \E k \in -1 .. DataBits + 1 :
         uart_rx_sync' = Level(k)' /\ k * tx_clks <= -1 /\ -2 < (k + 1) * tx_clks
  BY <1>6, <1>7, <1>9, <1>11
<1>14. SeenIn(uart_rx_meta, TxPos - 1, TxPos)'
  BY <1>2, <1>10, <1>12 DEF SeenIn
<1>15. SeenIn(uart_rx_sync, TxPos - 2, TxPos - 1)'
  BY <1>2, <1>10, <1>13 DEF SeenIn
<1>16. Waiting'
  BY <1>2, <1>3 DEF Waiting
<1> QED
  BY <1>3, <1>14, <1>15, <1>16

\* When the quiet that was needed is over, the receiver is ready.
LEMMA Recovered ==
  ASSUME WireInv, needed = 1, needed' = 0, Moves(FALSE),
         Recovering \/ ShortPulse
  PROVE  /\ wire_state' = "IDLE" /\ low' = 0
         /\ uart_rx_meta' = 1 /\ uart_rx_sync' = 1
<1>1. /\ WireTypes /\ low \in Nat /\ wire \in {0, 1} /\ uart_rx_meta \in {0, 1}
      /\ uart_rx_sync \in {0, 1} /\ wire' = 1 /\ low' = 0
      /\ uart_rx_meta' \in {wire, wire'} /\ uart_rx_sync' = uart_rx_meta
      /\ wire_state \in {"IDLE", "START", "DATA", "STOP"}
  <2>1. wire' = 1
    <3>1. needed' = (IF wire' = 1 THEN needed - 1 ELSE Frame)
      BY DEF Moves, LineMoves
    <3> QED
      BY <3>1, WireConstants
  <2> QED
    BY <2>1 DEF WireInv, WireTypes, Wire!TypeOK, Moves, LineMoves
<1>2. RxMoves
  BY DEF Moves
<1>3. CASE Recovering
  <2>1. wire = 1 /\ uart_rx_meta = 1 /\ uart_rx_sync = 1
    BY <1>1, <1>3, WireConstants DEF Recovering
  <2>2. wire_state' = "IDLE"
    <3>1. CASE wire_state = "IDLE"
      BY <1>2, <2>1, <3>1 DEF RxMoves
    <3>2. CASE wire_state # "IDLE"
      <4>1. RxPos \in Nat /\ needed + RxPos >= Half + (DataBits + 1) * CLKS_PER_BIT
        BY <1>1, <1>3, <3>2, RxBounds DEF Recovering
      <4>2. RxPos + 1 >= Half + (DataBits + 1) * CLKS_PER_BIT
        BY <4>1, WireConstants
      <4>3. wire_state = "STOP" /\ Samples
        BY <1>1, <3>2, <4>2, LastSample
      <4> QED
        BY <1>2, <4>3 DEF RxMoves
    <3> QED
      BY <3>1, <3>2
  <2> QED
    BY <1>1, <2>1, <2>2
<1>4. CASE ShortPulse
  <2>1. low = 0
    BY <1>1, <1>4, WireConstants DEF ShortPulse
  <2>2. wire = 1
    BY <1>1, <1>4, <2>1 DEF WireTypes, ShortPulse
  <2>3. uart_rx_meta = 1 /\ uart_rx_sync = 1
    BY <1>1, <1>4, <2>1, WireConstants DEF ShortPulse
  <2>4. wire_state' = "IDLE"
    <3>1. CASE wire_state = "IDLE"
      BY <1>2, <2>3, <3>1 DEF RxMoves
    <3>2. CASE wire_state = "START"
      <4>1. clk_count \in Nat /\ clk_count < Half /\ clk_count + needed >= Half
        BY <1>1, <1>4, <2>1, <3>2, WireConstants DEF ShortPulse, WireTypes, Wire!TypeOK
      <4>2. Samples
        BY <3>2, <4>1, WireConstants DEF Samples
      <4> QED
        BY <1>2, <2>3, <3>2, <4>2 DEF RxMoves
    <3> QED
      BY <1>4, <3>1, <3>2 DEF ShortPulse
  <2> QED
    BY <1>1, <2>2, <2>3, <2>4
<1> QED
  BY <1>3, <1>4

\* Any disturbance but a short pulse asks for a frame of quiet.
LEMMA WholeFrameNeeded ==
  ASSUME WireInv, NEW pulled \in BOOLEAN, Moves(pulled), needed' = Frame
  PROVE  Recovering'
<1>1. Frame' = Frame /\ Half' = Half
  BY DEF Frame, Half, Wire!FrameClocks, Wire!HalfBit
<1>2. wire_state' # "IDLE" => RxPos' \in Nat
  <2>1. WireTypes /\ RxMoves
    BY DEF WireInv, Moves
  <2>2. wire_state # "IDLE" => RxPos \in Nat
    BY <2>1, RxBounds
  <2>3. wire_state' # "IDLE" => RxPos' = 0 \/ (wire_state # "IDLE" /\ RxPos' = RxPos + 1)
    <3>1. /\ wire_state \in {"IDLE", "START", "DATA", "STOP"} /\ uart_rx_sync \in {0, 1}
      BY <2>1 DEF WireTypes, Wire!TypeOK
    <3> QED
      BY <2>1, <3>1 DEF RxMoves, Samples
  <2> QED
    BY <2>2, <2>3
<1> DEFINE f == Frame
           c == (DataBits + 1) * CLKS_PER_BIT
           p == RxPos'
<1>3. /\ f = c + CLKS_PER_BIT + 3 /\ c \in Nat /\ f \in Nat
  BY WireConstants
<1>4. needed' = f /\ (wire_state' # "IDLE" => p \in Nat)
  BY <1>2
<1> HIDE DEF f, c, p
<1>5. wire_state' # "IDLE" => f + p >= Half + c
  BY <1>3, <1>4, WireConstants
<1>6. f >= f - 1 /\ f >= f - 2
  BY <1>3
<1> QED
  BY <1>1, <1>4, <1>5, <1>6 DEF Recovering, f, c, p

\* A clock of quiet brings the receiver a clock nearer to its end.
LEMMA RecoveryGoesOn ==
  ASSUME WireInv, Moves(FALSE), Recovering, needed > 0, wire' = 1
  PROVE  Recovering'
<1>1. Frame' = Frame /\ Half' = Half
  BY DEF Frame, Half, Wire!FrameClocks, Wire!HalfBit
<1>2. /\ WireTypes /\ RxMoves /\ needed \in 0 .. Frame
      /\ wire \in {0, 1} /\ uart_rx_meta \in {0, 1} /\ uart_rx_sync \in {0, 1}
      /\ wire_state \in {"IDLE", "START", "DATA", "STOP"}
  BY DEF WireInv, Moves, WireTypes, Wire!TypeOK
<1>3. /\ needed' = needed - 1 /\ low' = 0
      /\ uart_rx_meta' \in {wire, wire'} /\ uart_rx_sync' = uart_rx_meta
  BY DEF Moves, LineMoves
<1> DEFINE f == Frame
           c == (DataBits + 1) * CLKS_PER_BIT
<1>4. /\ f = c + CLKS_PER_BIT + 3 /\ c \in Nat /\ f \in Nat
  BY WireConstants
<1>5. /\ wire = 0 => needed = f
      /\ uart_rx_meta = 0 => needed >= f - 1
      /\ uart_rx_sync = 0 => needed >= f - 2
      /\ wire_state # "IDLE" => needed + RxPos >= Half + c
  BY DEF Recovering
<1>6. wire_state # "IDLE" => RxPos \in Nat
  BY <1>2, RxBounds
<1>7. wire_state' # "IDLE" =>
        \/ wire_state = "IDLE" /\ uart_rx_sync = 0 /\ RxPos' = 0
        \/ wire_state # "IDLE" /\ RxPos' = RxPos + 1
  BY <1>2 DEF RxMoves, Samples
<1> HIDE DEF f, c
<1>8. uart_rx_meta' = 0 => needed - 1 >= f - 1
  BY <1>2, <1>3, <1>4, <1>5
<1>9. uart_rx_sync' = 0 => needed - 1 >= f - 2
  BY <1>2, <1>3, <1>4, <1>5
<1>10. wire_state' # "IDLE" => (needed - 1) + RxPos' >= Half + c
  <2>1. CASE wire_state = "IDLE" /\ uart_rx_sync = 0 /\ RxPos' = 0
    BY <1>2, <1>4, <1>5, <2>1, WireConstants
  <2>2. CASE wire_state # "IDLE" /\ RxPos' = RxPos + 1
    BY <1>2, <1>4, <1>5, <1>6, <2>2, WireConstants
  <2> QED
    BY <1>7, <2>1, <2>2
<1> QED
  BY <1>1, <1>3, <1>8, <1>9, <1>10 DEF Recovering, f, c

\* A short pulse begins or goes on.
LEMMA PulseGoesOn ==
  ASSUME WireInv, Moves(TRUE), needed' = Half + 3, needed' # Frame
  PROVE  ShortPulse'
<1>1. Half' = Half
  BY DEF Half, Wire!HalfBit
<1>2. /\ WireTypes /\ RxMoves /\ low \in 0 .. Half
      /\ wire \in {0, 1} /\ uart_rx_meta \in {0, 1} /\ uart_rx_sync \in {0, 1}
      /\ uart_rx_sync' = uart_rx_meta /\ clk_count \in Nat
      /\ wire_state \in {"IDLE", "START", "DATA", "STOP"}
      /\ wire_tx_state = "IDLE" /\ wire_tx_state' = "IDLE"
      /\ low' = (IF low < Half THEN low + 1 ELSE low)
      /\ (needed = 0 \/ (low \in 1 .. Half - 3 /\ needed = Half + 3))
  BY DEF WireInv, Moves, WireTypes, Wire!TypeOK, LineMoves
<1>3. CASE needed = 0
  <2>1. /\ wire_state = "IDLE" /\ low = 0 /\ uart_rx_meta = 1 /\ uart_rx_sync = 1
    BY <1>2, <1>3 DEF WireInv, ReadyInv
  <2>2. wire_state' = "IDLE" /\ low' = 1 /\ uart_rx_sync' = 1
    BY <1>2, <2>1, WireConstants DEF RxMoves
  <2> QED
    BY <1>1, <1>2, <2>2, WireConstants DEF ShortPulse
<1>4. CASE low \in 1 .. Half - 3 /\ needed = Half + 3
  <2>1. ShortPulse
    <3>1. Half + 3 # Frame /\ Half + 3 > 0
      BY WireConstants
    <3> QED
      BY <1>4, <3>1 DEF WireInv, DisturbedInv, Recovering
  <2>2. /\ low' = low + 1
        /\ uart_rx_sync = 0 => low >= 2
        /\ wire_state \in {"IDLE", "START"}
        /\ wire_state = "START" => clk_count + 3 <= low
    BY <1>2, <1>4, <2>1, WireConstants DEF ShortPulse
  <2>3. /\ wire_state' \in {"IDLE", "START"}
        /\ wire_state' = "START" => clk_count' + 3 <= low + 1
    <3>1. CASE wire_state = "IDLE" /\ uart_rx_sync = 1
      BY <1>2, <3>1 DEF RxMoves
    <3>2. CASE wire_state = "IDLE" /\ uart_rx_sync = 0
      <4>1. wire_state' = "START" /\ RxPos' = 0
        BY <1>2, <3>2 DEF RxMoves
      <4>2. clk_count' = 0
        BY <4>1 DEF RxPos
      <4> QED
        BY <1>2, <2>2, <3>2, <4>1, <4>2
    <3>3. CASE wire_state = "START"
      <4>1. clk_count + 3 <= low
        BY <2>2, <3>3
      <4>2. ~Samples
        BY <1>2, <1>4, <3>3, <4>1, WireConstants DEF Samples
      <4>3. wire_state' = "START" /\ RxPos' = RxPos + 1
        BY <1>2, <3>3, <4>2 DEF RxMoves
      <4>4. clk_count' = clk_count + 1
        BY <3>3, <4>3 DEF RxPos
      <4> QED
        BY <1>2, <4>1, <4>3, <4>4
    <3> QED
      BY <1>2, <2>2, <3>1, <3>2, <3>3
  <2>4. uart_rx_sync' = 0 => low + 1 >= 2
    BY <1>2, <1>4, WireConstants
  <2>5. low + 1 <= Half - 2 /\ low + 1 > 0
    BY <1>2, <1>4, WireConstants
  <2> QED
    BY <1>1, <1>2, <2>2, <2>3, <2>4, <2>5 DEF ShortPulse
<1> QED
  BY <1>2, <1>3, <1>4

\* After it the receiver gives up at the middle of the start bit.
LEMMA PulseFades ==
  ASSUME WireInv, Moves(FALSE), ShortPulse, needed > 0, wire' = 1, wire_tx_state' = "IDLE"
  PROVE  ShortPulse'
<1>1. Half' = Half
  BY DEF Half, Wire!HalfBit
<1>2. /\ WireTypes /\ RxMoves /\ low \in 0 .. Half /\ needed \in Nat
      /\ wire \in {0, 1} /\ uart_rx_meta \in {0, 1} /\ uart_rx_sync \in {0, 1}
      /\ uart_rx_sync' = uart_rx_meta /\ uart_rx_meta' \in {wire, wire'}
      /\ clk_count \in Nat /\ wire_state \in {"IDLE", "START"}
      /\ needed' = needed - 1 /\ low' = 0
      /\ wire = (IF low > 0 THEN 0 ELSE 1)
      /\ wire_state = "START" => clk_count < Half
  BY WireConstants DEF WireInv, Moves, WireTypes, Wire!TypeOK, LineMoves, ShortPulse
<1>3. \/ /\ low > 0 /\ needed = Half + 3 /\ low <= Half - 2
         /\ uart_rx_sync = 0 => low >= 2
         /\ wire_state = "START" => clk_count + 3 <= low
      \/ /\ low = 0 /\ needed < Half + 3
         /\ uart_rx_meta = 0 => needed >= Half + 2
         /\ uart_rx_sync = 0 => needed >= Half + 1
         /\ wire_state = "START" => clk_count + needed \in Half .. 2 * Half - 2
  BY <1>2 DEF ShortPulse
<1>4. /\ uart_rx_meta' = 0 => needed - 1 >= Half + 2
      /\ uart_rx_sync' = 0 => needed - 1 >= Half + 1
      /\ needed - 1 < Half + 3
  BY <1>2, <1>3, WireConstants
<1>5. /\ wire_state' \in {"IDLE", "START"}
      /\ wire_state' = "START" => clk_count' + (needed - 1) \in Half .. 2 * Half - 2
  <2>1. CASE wire_state = "IDLE" /\ uart_rx_sync = 1
    BY <1>2, <2>1 DEF RxMoves
  <2>2. CASE wire_state = "IDLE" /\ uart_rx_sync = 0
    <3>1. wire_state' = "START" /\ RxPos' = 0
      BY <1>2, <2>2 DEF RxMoves
    <3>2. clk_count' = 0
      BY <3>1 DEF RxPos
    <3> QED
      BY <1>2, <1>3, <2>2, <3>1, <3>2, WireConstants
  <2>3. CASE wire_state = "START" /\ ~Samples
    <3>1. wire_state' = "START" /\ RxPos' = RxPos + 1
      BY <1>2, <2>3 DEF RxMoves
    <3>2. clk_count' = clk_count + 1
      BY <2>3, <3>1 DEF RxPos
    <3> QED
      BY <1>2, <1>3, <2>3, <3>1, <3>2, WireConstants
  <2>4. CASE wire_state = "START" /\ Samples
    <3>1. clk_count = Half - 1
      BY <2>4 DEF Samples
    <3>2. uart_rx_sync = 1
      BY <1>2, <1>3, <2>4, <3>1, WireConstants
    <3>3. wire_state' = "IDLE"
      BY <1>2, <2>4, <3>2 DEF RxMoves
    <3> QED
      BY <3>3
  <2> QED
    BY <1>2, <2>1, <2>2, <2>3, <2>4
<1> QED
  BY <1>1, <1>2, <1>4, <1>5 DEF ShortPulse

\* A frame that was disturbed is over before the quiet that is needed.
LEMMA DisturbedFrame ==
  ASSUME WireInv, ~clean, wire_tx_state # "IDLE"
  PROVE  needed \in Nat /\ needed > 0
<1> DEFINE a == (DataBits + 1) * tx_clks
           c == (DataBits + 1) * CLKS_PER_BIT
           f == Frame
<1>1. /\ WireTypes /\ needed \in 0 .. Frame /\ tx_clks \in TxClks
      /\ needed = Frame \/ needed + TxPos + 1 >= Frame + tx_clks
  BY DEF WireInv, WireTypes, DisturbedInv
<1>2. /\ TxIndex \in 0 .. DataBits + 1 /\ TxPos \in Nat
      /\ TxPos = TxIndex * tx_clks + clk_counter /\ clk_counter \in 0 .. tx_clks - 1
  BY <1>1, TxBounds DEF WireTypes
<1>3. tx_clks \in Nat /\ tx_clks >= 7 /\ a \in Nat /\ c \in Nat /\ a < c + Half
  <2>1. DataBits + 1 \in 0 .. DataBits + 1
    BY WireConstants
  <2> QED
    BY <1>1, <2>1, Skew
<1>4. TxIndex * tx_clks <= a
  <2> DEFINE d == DataBits + 1 - TxIndex
  <2>1. d \in Nat /\ DataBits + 1 = TxIndex + d
    BY <1>2, WireConstants
  <2>2. d * tx_clks \in Nat /\ TxIndex * tx_clks \in Nat
    BY <1>2, <1>3, <2>1
  <2>3. a = TxIndex * tx_clks + d * tx_clks
    BY <1>2, <1>3, <2>1
  <2> QED
    BY <2>2, <2>3
<1>5. f = c + CLKS_PER_BIT + 3 /\ f \in Nat /\ TxIndex * tx_clks \in Nat
  BY <1>2, <1>3, WireConstants
<1> DEFINE p == TxIndex * tx_clks
<1>6. /\ TxPos = p + clk_counter /\ p <= a /\ p \in Nat
      /\ needed \in 0 .. f /\ (needed = f \/ needed + TxPos + 1 >= f + tx_clks)
  BY <1>1, <1>2, <1>4, <1>5
<1> HIDE DEF a, c, f, p
<1> QED
  BY <1>2, <1>3, <1>5, <1>6, WireConstants

LEMMA CleanNext ==
  ASSUME WireInv, NEW pulled \in BOOLEAN, Moves(pulled)
  PROVE  CleanInv'
<1> SUFFICES ASSUME clean' PROVE
      /\ needed' = 0 /\ low' = 0
      /\ wire_tx_state' # "IDLE" =>
           /\ SeenIn(uart_rx_meta, TxPos - 1, TxPos)'
           /\ SeenIn(uart_rx_sync, TxPos - 2, TxPos - 1)'
           /\ Waiting' \/ Receiving' \/ Done'
  BY DEF CleanInv
<1>1. pulled = FALSE
  BY DEF Moves, LineMoves
<1>2. Moves(FALSE)
  BY <1>1
<1>3. needed = 0
  BY DEF Moves, LineMoves, WireInv, CleanInv
<1>4. needed' = 0 /\ low' = 0
  BY <1>2, <1>3 DEF Moves, LineMoves
<1>5. CASE wire_tx_state = "IDLE"
  BY <1>2, <1>3, <1>4, <1>5, CleanFrameBegins
<1>6. CASE wire_tx_state # "IDLE"
  <2>1. clean
    BY <1>2, <1>6 DEF Moves, LineMoves
  <2> QED
    BY <1>2, <1>4, <1>6, <2>1, CleanFrameGoesOn
<1> QED
  BY <1>5, <1>6

LEMMA ReadyNext ==
  ASSUME WireInv, NEW pulled \in BOOLEAN, Moves(pulled)
  PROVE  ReadyInv'
<1> SUFFICES ASSUME needed' = 0, wire_tx_state' = "IDLE"
             PROVE  /\ wire_state' = "IDLE" /\ low' = 0
                    /\ uart_rx_meta' = 1 /\ uart_rx_sync' = 1
  BY DEF ReadyInv
<1>1. pulled = FALSE
  BY WireConstants DEF Moves, LineMoves
<1>2. Moves(FALSE) /\ low' = 0 /\ WireTypes /\ needed \in Nat
  BY <1>1, WireConstants DEF Moves, LineMoves, WireInv, WireTypes
<1>3. CASE needed > 0
  <2>1. needed = 1
    BY <1>2, <1>3, WireConstants DEF Moves, LineMoves
  <2>2. Recovering \/ ShortPulse
    BY <1>3 DEF WireInv, DisturbedInv
  <2> QED
    BY <1>2, <2>1, <2>2, Recovered
<1>4. CASE needed = 0 /\ wire_tx_state = "IDLE"
  <2>1. /\ wire_state = "IDLE" /\ low = 0 /\ uart_rx_meta = 1 /\ uart_rx_sync = 1
    BY <1>4 DEF WireInv, ReadyInv
  <2>2. wire = 1 /\ wire' = 1
    BY <1>2, <1>4, <2>1 DEF WireTypes, Moves, LineMoves
  <2> QED
    BY <1>2, <2>1, <2>2 DEF Moves, RxMoves, LineMoves
<1>5. CASE needed = 0 /\ wire_tx_state # "IDLE"
  <2>1. clean
    BY <1>5, DisturbedFrame
  <2> QED
    BY <1>2, <1>5, <2>1, CleanFrameEnds
<1> QED
  BY <1>2, <1>3, <1>4, <1>5

\* A start bit is on the line as long as nothing else is sent.
LEMMA StartIsLow ==
  ASSUME WireInv, NEW pulled \in BOOLEAN, Moves(pulled), wire' = 1,
         wire_tx_state' # "IDLE"
  PROVE  wire_tx_state # "IDLE" /\ tx_clks \in Nat /\ TxPos' \in Nat /\ TxPos' >= tx_clks
<1>1. tx_clks' = tx_clks /\ tx_clks \in TxClks
  BY DEF Moves, TxMoves, WireInv, WireTypes
<1>2. uart_tx_o' = Level(TxIndex)' /\ wire' = uart_tx_o'
  BY DEF Moves, WireTypes
<1>3. TxIndex' # 0
  BY <1>2 DEF Level
<1>4. /\ TxIndex' \in 0 .. DataBits + 1 /\ TxPos' \in Nat
      /\ TxIndex' * tx_clks <= TxPos'
  BY <1>1, TxBoundedNext DEF Moves, TxBounded
<1>5. tx_clks \in Nat
  BY <1>1, Skew, WireConstants
<1>6. TxPos' >= tx_clks
  <2> DEFINE i == TxIndex'
             d == i - 1
             p == TxPos'
  <2>0. i \in 0 .. DataBits + 1 /\ i # 0 /\ p \in Nat /\ i * tx_clks <= p
    BY <1>3, <1>4
  <2> HIDE DEF i, p
  <2>1. i \in Nat /\ d \in Nat /\ i = d + 1
    BY <2>0, WireConstants
  <2>2. d * tx_clks \in Nat /\ i * tx_clks = d * tx_clks + tx_clks
    BY <1>5, <2>1
  <2>3. p >= tx_clks
    BY <1>5, <2>0, <2>1, <2>2
  <2> QED
    BY <2>3 DEF p
<1>7. wire_tx_state # "IDLE"
  <2> SUFFICES ASSUME wire_tx_state = "IDLE" PROVE FALSE
    OBVIOUS
  <2>1. TxPos' = 0
    BY DEF Moves, TxMoves
  <2>2. tx_clks >= 7
    BY <1>1, Skew, WireConstants
  <2>3. 0 >= tx_clks
    BY <1>6, <2>1
  <2> QED
    BY <1>5, <2>2, <2>3
<1> QED
  BY <1>4, <1>5, <1>6, <1>7

LEMMA DisturbedNext ==
  ASSUME WireInv, NEW pulled \in BOOLEAN, Moves(pulled)
  PROVE  DisturbedInv'
<1>1. /\ WireTypes /\ needed \in Nat /\ Half + 3 # Frame /\ Frame' = Frame
      /\ Half + 3 > 0 /\ Frame > 0 /\ wire' \in {0, 1}
  BY WireConstants DEF WireInv, WireTypes, Moves, Frame, Wire!FrameClocks
<1>2. needed' = Frame => Recovering'
  BY WholeFrameNeeded
<1>3. needed' > 0 => Recovering' \/ ShortPulse'
  <2>1. CASE pulled = TRUE
    <3>1. Moves(TRUE) /\ (needed' = Frame \/ needed' = Half + 3)
      BY <2>1 DEF Moves, LineMoves
    <3> QED
      BY <1>1, <1>2, <3>1, PulseGoesOn
  <2>2. CASE pulled = FALSE
    <3>1. /\ Moves(FALSE)
          /\ needed = 0 => needed' = 0
          /\ needed > 0 => needed' = (IF wire' = 1 THEN needed - 1 ELSE Frame)
      BY <2>2 DEF Moves, LineMoves
    <3>2. needed > 0 /\ wire' = 1 => Recovering' \/ ShortPulse'
      <4> SUFFICES ASSUME needed > 0, wire' = 1 PROVE Recovering' \/ ShortPulse'
        OBVIOUS
      <4>1. Recovering \/ ShortPulse
        BY DEF WireInv, DisturbedInv
      <4>2. CASE Recovering
        BY <3>1, <4>2, RecoveryGoesOn
      <4>3. CASE ShortPulse
        <5>1. wire_tx_state' = "IDLE"
          BY <4>3, StartIsLow DEF ShortPulse
        <5> QED
          BY <3>1, <4>3, <5>1, PulseFades
      <4> QED
        BY <4>1, <4>2, <4>3
    <3> QED
      BY <1>1, <1>2, <3>1, <3>2
  <2> QED
    BY <2>1, <2>2
<1>4. ~clean' /\ wire_tx_state' # "IDLE" =>
        /\ Recovering'
        /\ needed' = Frame \/ needed' + TxPos' + 1 >= Frame + tx_clks
  <2> SUFFICES ASSUME ~clean', wire_tx_state' # "IDLE", needed' # Frame
               PROVE  Recovering' /\ needed' + TxPos' + 1 >= Frame + tx_clks
    BY <1>2
  <2>1. pulled = FALSE
    BY DEF Moves, LineMoves
  <2>2. Moves(FALSE)
    BY <2>1
  <2>3. needed > 0
    <3>1. CASE wire_tx_state = "IDLE"
      BY <1>1, <2>2, <3>1 DEF Moves, LineMoves
    <3>2. CASE wire_tx_state # "IDLE"
      <4>1. ~clean
        BY <2>2, <3>2 DEF Moves, LineMoves
      <4> QED
        BY <3>2, <4>1, DisturbedFrame
    <3> QED
      BY <3>1, <3>2
  <2>4. wire' = 1 /\ needed' = needed - 1
    BY <1>1, <2>2, <2>3 DEF Moves, LineMoves
  <2>5. wire_tx_state # "IDLE" /\ TxPos' \in Nat /\ TxPos' >= tx_clks /\ tx_clks \in Nat
    BY <2>2, <2>4, StartIsLow
  <2>6. TxPos' = TxPos + 1 /\ TxPos \in Nat
    BY <1>1, <2>2, <2>5, TxBounds DEF Moves, TxMoves
  <2>7. ~clean
    BY <2>2, <2>5 DEF Moves, LineMoves
  <2>8. Recovering /\ (needed = Frame \/ needed + TxPos + 1 >= Frame + tx_clks)
    BY <2>5, <2>7 DEF WireInv, DisturbedInv
  <2>9. Recovering'
    BY <2>2, <2>3, <2>4, <2>8, RecoveryGoesOn
  <2>10. needed' + TxPos' + 1 >= Frame + tx_clks
    BY <1>1, <2>4, <2>5, <2>6, <2>8, WireConstants
  <2> QED
    BY <2>9, <2>10
<1>5. tx_clks' = tx_clks
  BY DEF Moves, TxMoves
<1> QED
  BY <1>1, <1>3, <1>4, <1>5 DEF DisturbedInv

LEMMA OutcomeNext ==
  ASSUME WireInv, NEW pulled \in BOOLEAN, Moves(pulled)
  PROVE  OutcomeInv'
<1>1. wire_tx_done' /\ clean' => delivered' = 1 /\ rx_data' = tx_data_reg'
  <2> SUFFICES ASSUME wire_tx_done', clean'
               PROVE  delivered' = 1 /\ rx_data' = tx_data_reg'
    OBVIOUS
  <2>1. wire_tx_state # "IDLE" /\ wire_tx_state' = "IDLE"
    BY DEF Moves, TxMoves
  <2>2. pulled = FALSE /\ clean
    BY <2>1 DEF Moves, LineMoves
  <2>3. Moves(FALSE)
    BY <2>2
  <2> QED
    BY <2>1, <2>2, <2>3, CleanFrameEnds
<1>2. framing_error' => ~clean'
  <2> SUFFICES ASSUME clean' PROVE ~framing_error'
    OBVIOUS
  <2>1. pulled = FALSE
    BY DEF Moves, LineMoves
  <2>2. Moves(FALSE)
    BY <2>1
  <2>3. CASE wire_tx_state = "IDLE"
    <3>1. needed = 0
      BY <2>2, <2>3 DEF Moves, LineMoves, WireInv, CleanInv
    <3>2. wire_state = "IDLE"
      BY <2>3, <3>1 DEF WireInv, ReadyInv
    <3> QED
      BY <2>2, <3>2 DEF Moves, RxMoves
  <2>4. CASE wire_tx_state # "IDLE"
    <3>1. clean
      BY <2>2, <2>4 DEF Moves, LineMoves
    <3> QED
      BY <2>2, <2>4, <3>1, CleanReceiverStep
  <2> QED
    BY <2>3, <2>4
<1> QED
  BY <1>1, <1>2 DEF OutcomeInv, Wire!CleanByteArrives, Wire!FramingErrorMeansFault

LEMMA WireInit == Wire!Init => WireInv
<1> SUFFICES ASSUME Wire!Init PROVE WireInv
  OBVIOUS
<1>1. /\ tx_clks \in TxClks
      /\ wire_tx_state = "IDLE" /\ clk_counter = 0 /\ tx_bit = 0 /\ tx_data_reg = Wire!NoByte
      /\ uart_tx_o = 1 /\ uart_rx_meta = 1 /\ uart_rx_sync = 1
      /\ wire_state = "IDLE" /\ clk_count = 0 /\ bit_index = 0 /\ rx_shift = Wire!NoByte
      /\ rx_data = Wire!NoByte
      /\ wire = 1 /\ low = 0 /\ needed = 0 /\ delivered = 0
  BY DEF Wire!Init
<1>2. wire_tx_done = FALSE /\ rx_valid = FALSE /\ framing_error = FALSE /\ clean = FALSE
  BY Zenon DEF Wire!Init
<1>3. Wire!NoByte \in Wire!Byte /\ Wire!Last \in Nat /\ 0 \in 0 .. Wire!Last
  BY WireConstants DEF Wire!NoByte, Wire!Byte, Wire!Last
<1>4. tx_clks \in Nat /\ tx_clks >= 7
  BY <1>1, Skew, WireConstants
<1>5. Wire!TypeOK
  BY <1>1, <1>2, <1>3, WireConstants DEF Wire!TypeOK
<1>6. WireTypes
  <2>1. clean \in BOOLEAN
    BY <1>2, Zenon
  <2>2. /\ clk_counter \in 0 .. tx_clks - 1 /\ low \in 0 .. Half
        /\ needed \in 0 .. Frame /\ delivered \in 0 .. 2
    BY <1>1, <1>4, WireConstants
  <2> QED
    BY <1>1, <1>3, <1>5, <2>1, <2>2, WireConstants DEF WireTypes
<1> QED
  BY <1>1, <1>2, <1>6 DEF WireInv, CleanInv, ReadyInv, DisturbedInv, OutcomeInv,
     Wire!CleanByteArrives, Wire!FramingErrorMeansFault

\* A clock of the two machines preserves the invariant of the line.
LEMMA WireStep == WireInv /\ [Wire!Next]_(Wire!vars) => WireInv'
<1> SUFFICES ASSUME WireInv, [Wire!Next]_(Wire!vars) PROVE WireInv'
  OBVIOUS
<1>1. CASE Wire!Next
  <2>1. PICK pulled \in BOOLEAN : Moves(pulled)
    BY <1>1, WireTypesNext DEF WireInv, Wire!Next, Moves
  <2> QED
    BY <2>1, CleanNext, ReadyNext, DisturbedNext, OutcomeNext DEF WireInv, Moves
<1>2. CASE UNCHANGED Wire!vars
  <2>1. UNCHANGED <<tx_clks, wire_tx_state, clk_counter, tx_bit, tx_data_reg, uart_tx_o>>
    BY <1>2 DEF Wire!vars, Wire!txVars
  <2>2. UNCHANGED <<uart_rx_meta, uart_rx_sync, wire_state, clk_count, bit_index, rx_shift,
                    rx_data, rx_valid, framing_error, wire_tx_done>>
    BY <1>2 DEF Wire!vars, Wire!txVars, Wire!rxVars
  <2>3. UNCHANGED <<wire, low, needed, clean, delivered>>
    BY <1>2 DEF Wire!vars, Wire!wireVars
  <2>4. UNCHANGED <<TxIndex, RxIndex, Half, Frame>>
    BY <2>1, <2>2 DEF TxIndex, RxIndex, Half, Wire!HalfBit, Frame, Wire!FrameClocks
  <2>5. UNCHANGED <<TxPos, RxPos, Level(TxIndex)>>
    BY <2>1, <2>2, <2>4 DEF TxPos, RxPos, Level
  <2>6. WireTypes'
    BY <2>1, <2>2, <2>3, <2>4, <2>5 DEF WireInv, WireTypes, Wire!TypeOK
  <2>7. CleanInv'
    <3>1. \A n : Level(n)' = Level(n)
      BY <2>1 DEF Level
    <3>2. \A level, first, last : SeenIn(level, first, last) =
            \E n \in -1 .. DataBits + 1 :
              level = Level(n)' /\ n * tx_clks' <= last /\ first < (n + 1) * tx_clks'
      BY <2>1, <3>1 DEF SeenIn
    <3>3. /\ SeenIn(uart_rx_meta, TxPos - 1, TxPos)' <=> SeenIn(uart_rx_meta, TxPos - 1, TxPos)
          /\ SeenIn(uart_rx_sync, TxPos - 2, TxPos - 1)' <=> SeenIn(uart_rx_sync, TxPos - 2, TxPos - 1)
      BY <2>1, <2>2, <2>5, <3>1 DEF SeenIn
    <3>4. (Waiting' <=> Waiting) /\ (Receiving' <=> Receiving) /\ (Done' <=> Done)
      BY <2>1, <2>2, <2>3, <2>4, <2>5 DEF Waiting, Receiving, Done
    <3> QED
      BY <2>1, <2>3, <3>3, <3>4 DEF WireInv, CleanInv
  <2>8. ReadyInv'
    BY <2>1, <2>2, <2>3 DEF WireInv, ReadyInv
  <2>9. DisturbedInv'
    <3>1. (Recovering' <=> Recovering) /\ (ShortPulse' <=> ShortPulse)
      BY <2>1, <2>2, <2>3, <2>4, <2>5 DEF Recovering, ShortPulse
    <3> QED
      BY <2>1, <2>3, <2>4, <2>5, <3>1 DEF WireInv, DisturbedInv
  <2>10. OutcomeInv'
    BY <2>1, <2>2, <2>3 DEF WireInv, OutcomeInv, Wire!CleanByteArrives,
       Wire!FramingErrorMeansFault
  <2> QED
    BY <2>6, <2>7, <2>8, <2>9, <2>10 DEF WireInv
<1> QED
  BY <1>1, <1>2

LEMMA WireIsSafe == WireInv => Wire!Safety
BY DEF WireInv, WireTypes, OutcomeInv, Wire!Safety

-----------------------------------------------------------------------------
(* The receiver                                                            *)

Full(p) == Receiver!Checksum(p[1], p[2])

\* What the line and the parser hold, and the watch over the gap between bytes.
LineInv ==
  /\ packet \in Sent /\ previous_packet \in Sent \cup {Receiver!None}
  /\ position \in 0 .. 3 /\ since_byte \in 0 .. InterbyteTimeout
  /\ intact \in BOOLEAN /\ previous_intact \in BOOLEAN /\ single \in BOOLEAN
  /\ position = 0 => intact
  /\ state \in {"DATA", "CHECKSUM"} => command_reg \in 1 .. 3
  /\ state # "HEADER" => interbyte_counter = since_byte

\* The parser has taken the first n bytes of the packet being sent.
Follows(n) ==
  \/ n = 1 /\ state = "COMMAND"
  \/ n = 2 /\ state = "DATA" /\ command_reg = packet[1]
  \/ n = 3 /\ state = "CHECKSUM" /\ command_reg = packet[1] /\ data_reg = packet[2]

\* It follows a packet that has come whole so far, unless it took the header for
\* the checksum of the one before.
WholeInv ==
  intact =>
    /\ position = 0 /\ previous_intact => state \in {"HEADER", "COMMAND"}
    /\ position > 0 =>
         \/ Follows(position)
         \/ /\ ~previous_intact /\ state = "HEADER"
            /\ single => Full(previous_packet) = Receiver!H(0)

\* Where one damaged packet after whole ones leaves the parser.
SingleInv ==
  single =>
    /\ ~intact => previous_intact
    /\ position = 0 /\ ~previous_intact =>
         \/ state \in {"HEADER", "COMMAND"}
         \/ state = "CHECKSUM" /\ <<command_reg, data_reg>> = previous_packet
    /\ ~intact /\ position = 1 => state # "CHECKSUM"
    /\ ~intact /\ position = 3 /\ state = "CHECKSUM" =>
         \/ command_reg = packet[1] /\ data_reg = packet[2]
         \/ Receiver!Checksum(command_reg, data_reg) # Full(packet)

ReceiverInv ==
  /\ Receiver!TypeOK /\ LineInv /\ WholeInv /\ SingleInv
  /\ Receiver!AcceptedWasSent

LEMMA ReceiverConstants ==
  /\ InterbyteTimeout \in Nat /\ InterbyteTimeout >= 2
  /\ Sent \subseteq {1, 2, 3} \X (0 .. 3)
  /\ \A p \in Sent : p[1] \in 1 .. 3 /\ p[2] \in 0 .. 3
                     /\ Receiver!DataIsValid(p[1], p[2])
  /\ Corruption \subseteq 0 .. 8
BY SerialAssumption DEF Receiver!ConstantAssumption, Receiver!SET_RISK,
   Receiver!CLEAR_ERROR, Receiver!SELF_TEST, Receiver!Bytes, Receiver!Other

LEMMA XorByCases ==
  \A a, b \in 0 .. 3 :
    Receiver!Xor(a, b) =
      CASE a = 0 -> b
        [] a = 1 -> (CASE b = 0 -> 1 [] b = 1 -> 0 [] b = 2 -> 3 [] b = 3 -> 2)
        [] a = 2 -> (CASE b = 0 -> 2 [] b = 1 -> 3 [] b = 2 -> 0 [] b = 3 -> 1)
        [] a = 3 -> 3 - b
BY DEF Receiver!Xor

\* A checksum is told from commands and data, and tells commands and data apart.
LEMMA ChecksumFacts ==
  /\ \A a, b \in 0 .. 3 : Receiver!Checksum(a, b) \in 4 .. 7
  /\ \A a, b, c \in 0 .. 3 :
       /\ Receiver!Checksum(a, b) = Receiver!Checksum(a, c) => b = c
       /\ Receiver!Checksum(a, b) = Receiver!Checksum(c, b) => a = c
BY XorByCases DEF Receiver!Checksum, Receiver!H

LEMMA PacketFacts ==
  ASSUME NEW p \in Sent
  PROVE  /\ Full(p) \in 4 .. 7
         /\ Receiver!ByteOf(p, 0) = 4
         /\ Receiver!ByteOf(p, 1) = p[1] /\ Receiver!ByteOf(p, 2) = p[2]
         /\ Receiver!ByteOf(p, 3) = Full(p)
         /\ p = <<p[1], p[2]>>
BY ReceiverConstants, ChecksumFacts DEF Receiver!ByteOf, Full, Receiver!H

LEMMA ReceiverInit == Receiver!Init => ReceiverInv
BY ReceiverConstants
   DEF Receiver!Init, ReceiverInv, Receiver!TypeOK, LineInv, WholeInv, SingleInv,
       Receiver!AcceptedWasSent, Receiver!None

LEMMA ReceiveTypes ==
  ASSUME Receiver!TypeOK, NEW byte \in 0 .. 8, Receiver!Receive(byte),
         state \in {"DATA", "CHECKSUM"} => command_reg \in 1 .. 3
  PROVE  /\ Receiver!TypeOK'
         /\ state' \in {"DATA", "CHECKSUM"} => command_reg' \in 1 .. 3
         /\ interbyte_counter' = 0
<1> USE DEF Receiver!H, Receiver!SET_RISK, Receiver!CLEAR_ERROR, Receiver!SELF_TEST
<1>1. /\ state' \in {"HEADER", "COMMAND", "DATA", "CHECKSUM"}
      /\ command_reg' \in 0 .. 3 /\ data_reg' \in 0 .. 3
      /\ state' \in {"DATA", "CHECKSUM"} => command_reg' \in 1 .. 3
  BY DEF Receiver!Receive, Receiver!InHeader, Receiver!InCommand, Receiver!InData,
     Receiver!InChecksum, Receiver!TypeOK, Receiver!AfterRepeatedHeader,
     Receiver!Resynchronise, Receiver!DataIsValid
<1>2. interbyte_counter' = 0 /\ interbyte_counter' \in 0 .. InterbyteTimeout - 1
  BY ReceiverConstants DEF Receiver!Receive
<1>3. accepted' \in (0 .. 3) \X (0 .. 3)
  BY DEF Receiver!Receive, Receiver!InHeader, Receiver!InCommand, Receiver!InData,
     Receiver!InChecksum, Receiver!TypeOK, Receiver!None
<1>4. /\ error' \in {"none", "protocol", "checksum", "timeout"}
      /\ latched' \subseteq {"protocol", "checksum", "timeout"}
  BY DEF Receiver!Receive, Receiver!InHeader, Receiver!InCommand, Receiver!InData,
     Receiver!InChecksum, Receiver!TypeOK, Receiver!NoError, Receiver!Raise
<1> QED
  BY <1>1, <1>2, <1>3, <1>4 DEF Receiver!TypeOK

\* A clock without a byte: within a packet that is not paused too long, nothing
\* is forgotten.
LEMMA NoByteTypes ==
  ASSUME Receiver!TypeOK, LineInv, Receiver!NoByte, Receiver!CountClock
  PROVE  /\ Receiver!TypeOK'
         /\ since_byte' \in 0 .. InterbyteTimeout
         /\ state' # "HEADER" => interbyte_counter' = since_byte'
         /\ state' \in {"HEADER", state} /\ accepted' = Receiver!None
         /\ UNCHANGED <<command_reg, data_reg>>
         /\ since_byte < InterbyteTimeout - 1 => state' = state
<1>1. /\ state' \in {"HEADER", state} /\ accepted' = Receiver!None
      /\ UNCHANGED <<command_reg, data_reg>>
      /\ since_byte < InterbyteTimeout - 1 => state' = state
  BY ReceiverConstants DEF Receiver!NoByte, LineInv, Receiver!TimesOut
<1>2. /\ error' \in {"none", "protocol", "checksum", "timeout"}
      /\ latched' \subseteq {"protocol", "checksum", "timeout"}
  BY DEF Receiver!NoByte, Receiver!TypeOK, Receiver!NoError, Receiver!Raise
<1>3. interbyte_counter' \in 0 .. InterbyteTimeout - 1
  BY ReceiverConstants DEF Receiver!NoByte, Receiver!TypeOK, Receiver!TimesOut
<1>4. /\ since_byte' \in 0 .. InterbyteTimeout
      /\ state' # "HEADER" => interbyte_counter' = since_byte'
  BY ReceiverConstants
     DEF Receiver!NoByte, Receiver!TypeOK, Receiver!TimesOut, LineInv, Receiver!CountClock
<1> QED
  BY <1>1, <1>2, <1>3, <1>4 DEF Receiver!TypeOK, Receiver!None

LEMMA AdvanceTypes ==
  ASSUME LineInv, NEW whole \in BOOLEAN, Receiver!Advance(whole)
  PROVE  /\ packet' \in Sent /\ previous_packet' \in Sent \cup {Receiver!None}
         /\ position' \in 0 .. 3
         /\ intact' \in BOOLEAN /\ previous_intact' \in BOOLEAN
         /\ position' = 0 => intact'
<1>1. CASE position < 3
  BY <1>1 DEF LineInv, Receiver!Advance
<1>2. CASE ~(position < 3)
  <2>1. position' = 0 /\ intact' = TRUE /\ packet' \in Sent /\ previous_packet' = packet
    BY <1>2 DEF Receiver!Advance
  <2>2. previous_intact' = (intact /\ whole) /\ (intact /\ whole) \in BOOLEAN
    BY <1>2, Zenon DEF Receiver!Advance
  <2> QED
    BY <2>1, <2>2 DEF LineInv
<1> QED
  BY <1>1, <1>2

LEMMA ByteIsTyped ==
  ASSUME LineInv
  PROVE  Receiver!ByteOf(packet, position) \in 0 .. 8
<1>1. packet \in Sent /\ position \in 0 .. 3
  BY DEF LineInv
<1> QED
  BY <1>1, PacketFacts, ReceiverConstants

LEMMA LineStep ==
  ASSUME ReceiverInv, Receiver!Next
  PROVE  Receiver!TypeOK' /\ LineInv'
<1> USE DEF ReceiverInv
<1>1. CASE Receiver!Arrives
  <2>1. Receiver!TypeOK' /\ interbyte_counter' = 0
        /\ (state' \in {"DATA", "CHECKSUM"} => command_reg' \in 1 .. 3)
    BY <1>1, ByteIsTyped, ReceiveTypes DEF Receiver!Arrives, LineInv
  <2>2. since_byte' = 0 /\ single' \in BOOLEAN
    BY <1>1, Zenon DEF Receiver!Arrives, LineInv
  <2>3. Receiver!Advance(TRUE)
    BY <1>1 DEF Receiver!Arrives
  <2>4. /\ packet' \in Sent /\ previous_packet' \in Sent \cup {Receiver!None}
        /\ position' \in 0 .. 3
        /\ intact' \in BOOLEAN /\ previous_intact' \in BOOLEAN
        /\ position' = 0 => intact'
    BY <2>3, AdvanceTypes, Zenon
  <2>5. since_byte' \in 0 .. InterbyteTimeout /\ interbyte_counter' = since_byte'
    BY <2>1, <2>2, ReceiverConstants
  <2> QED
    BY <2>1, <2>2, <2>4, <2>5, Zenon DEF LineInv
<1>2. CASE Receiver!Damaged
  <2>1. Receiver!TypeOK' /\ interbyte_counter' = 0
        /\ (state' \in {"DATA", "CHECKSUM"} => command_reg' \in 1 .. 3)
    BY <1>2, ReceiverConstants, ReceiveTypes DEF Receiver!Damaged, LineInv
  <2>2. since_byte' = 0
    BY <1>2 DEF Receiver!Damaged
  <2>3. Receiver!Advance(FALSE)
    BY <1>2 DEF Receiver!Damaged
  <2>4. single' \in BOOLEAN
    BY <1>2, Zenon DEF Receiver!Damaged, Receiver!Fault, LineInv
  <2>5. /\ packet' \in Sent /\ previous_packet' \in Sent \cup {Receiver!None}
        /\ position' \in 0 .. 3
        /\ intact' \in BOOLEAN /\ previous_intact' \in BOOLEAN
        /\ position' = 0 => intact'
    BY <2>3, AdvanceTypes, Zenon
  <2>6. since_byte' \in 0 .. InterbyteTimeout /\ interbyte_counter' = since_byte'
    BY <2>1, <2>2, ReceiverConstants
  <2> QED
    BY <2>1, <2>4, <2>5, <2>6, Zenon DEF LineInv
<1>3. CASE Receiver!Lost
  <2>1. Receiver!NoByte /\ Receiver!CountClock /\ Receiver!Advance(FALSE)
    BY <1>3 DEF Receiver!Lost
  <2>2. single' \in BOOLEAN
    BY <1>3, Zenon DEF Receiver!Lost, Receiver!Fault, LineInv
  <2> QED
    BY <2>1, <2>2, NoByteTypes, AdvanceTypes DEF LineInv
<1>4. CASE Receiver!Pause
  <2>1. Receiver!NoByte /\ Receiver!CountClock
    BY <1>4 DEF Receiver!Pause
  <2> QED
    BY <1>4, <2>1, NoByteTypes DEF LineInv, Receiver!Pause
<1> QED
  BY <1>1, <1>2, <1>3, <1>4 DEF Receiver!Next

\* What the parser does with a byte, without its flags.
LEMMA ReceiveByState ==
  ASSUME Receiver!TypeOK, NEW byte \in 0 .. 8, Receiver!Receive(byte)
  PROVE  /\ state = "HEADER" =>
              /\ state' = (IF byte = 4 THEN "COMMAND" ELSE "HEADER")
              /\ accepted' = Receiver!None
              /\ UNCHANGED <<command_reg, data_reg>>
         /\ state = "COMMAND" =>
              /\ accepted' = Receiver!None /\ UNCHANGED data_reg
              /\ byte = 4 => state' = "COMMAND"
              /\ byte \in 1 .. 3 => state' = "DATA" /\ command_reg' = byte
              /\ byte \notin 1 .. 4 => state' = "HEADER"
         /\ state = "DATA" =>
              /\ accepted' = Receiver!None /\ UNCHANGED command_reg
              /\ Receiver!DataIsValid(command_reg, byte) =>
                   state' = "CHECKSUM" /\ data_reg' = byte
              /\ ~Receiver!DataIsValid(command_reg, byte) =>
                   state' = (IF byte = 4 THEN "COMMAND" ELSE "HEADER")
         /\ state = "CHECKSUM" =>
              /\ UNCHANGED <<command_reg, data_reg>>
              /\ byte = Receiver!Checksum(command_reg, data_reg) =>
                   state' = "HEADER" /\ accepted' = <<command_reg, data_reg>>
              /\ byte # Receiver!Checksum(command_reg, data_reg) =>
                   /\ state' = (IF byte = 4 THEN "COMMAND" ELSE "HEADER")
                   /\ accepted' = Receiver!None
BY DEF Receiver!Receive, Receiver!InHeader, Receiver!InCommand, Receiver!InData,
   Receiver!InChecksum, Receiver!TypeOK, Receiver!AfterRepeatedHeader,
   Receiver!Resynchronise, Receiver!ChecksumMatches, Receiver!H, Receiver!SET_RISK,
   Receiver!CLEAR_ERROR, Receiver!SELF_TEST

LEMMA ValidData ==
  /\ \A c \in 0 .. 3, b \in 4 .. 8 : ~Receiver!DataIsValid(c, b)
  /\ \A c \in 0 .. 3, b \in 0 .. 8 : Receiver!DataIsValid(c, b) => b \in 0 .. 3
BY DEF Receiver!DataIsValid, Receiver!CLEAR_ERROR

FollowInv == WholeInv /\ SingleInv /\ Receiver!AcceptedWasSent

LEMMA ArrivesFollows ==
  ASSUME ReceiverInv, Receiver!Arrives
  PROVE  FollowInv'
<1> DEFINE b == Receiver!ByteOf(packet, position)
           sum == Receiver!Checksum(command_reg, data_reg)
<1>1. /\ packet \in Sent /\ position \in 0 .. 3
      /\ intact \in BOOLEAN /\ previous_intact \in BOOLEAN /\ single \in BOOLEAN
      /\ state \in {"HEADER", "COMMAND", "DATA", "CHECKSUM"}
      /\ command_reg \in 0 .. 3 /\ data_reg \in 0 .. 3
      /\ position = 0 => intact
      /\ previous_packet \in Sent \cup {Receiver!None}
  BY DEF ReceiverInv, LineInv, Receiver!TypeOK
<1>2. /\ sum \in 4 .. 7
      /\ Full(packet) \in 4 .. 7 /\ packet[1] \in 1 .. 3 /\ packet[2] \in 0 .. 3
      /\ packet = <<packet[1], packet[2]>>
      /\ Receiver!DataIsValid(packet[1], packet[2])
  BY <1>1, ChecksumFacts, PacketFacts, ReceiverConstants
<1>3. Receiver!TypeOK /\ Receiver!Receive(b) /\ b \in 0 .. 8 /\ single' = single
  BY ByteIsTyped DEF ReceiverInv, Receiver!Arrives
<1>4. position < 3 =>
        /\ position' = position + 1 /\ intact' = intact
        /\ packet' = packet /\ previous_packet' = previous_packet
        /\ previous_intact' = previous_intact
  BY <1>1 DEF Receiver!Arrives, Receiver!Advance
<1>5. position = 3 =>
        /\ position' = 0 /\ intact' = TRUE
        /\ previous_packet' = packet /\ previous_intact' = intact
  BY <1>1 DEF Receiver!Arrives, Receiver!Advance
<1>6. WholeInv /\ SingleInv /\ Receiver!AcceptedWasSent
  BY DEF ReceiverInv
<1>7. CASE position = 0
  <2>1. b = 4
    BY <1>1, <1>7, PacketFacts
  <2>2. /\ position' = 1 /\ intact' = intact /\ intact
        /\ packet' = packet /\ previous_packet' = previous_packet
        /\ previous_intact' = previous_intact /\ single' = single
    BY <1>1, <1>3, <1>4, <1>7
  <2>3. \/ state' = "COMMAND" /\ accepted' = Receiver!None
        \/ /\ state = "CHECKSUM" /\ state' = "HEADER"
           /\ accepted' = <<command_reg, data_reg>> /\ sum = 4
    BY <1>1, <1>3, <2>1, ReceiveByState, ValidData
  <2>4. state = "CHECKSUM" => ~previous_intact
    BY <1>6, <1>7, <2>2 DEF WholeInv
  <2>5. state = "CHECKSUM" /\ single => <<command_reg, data_reg>> = previous_packet
    BY <1>6, <1>7, <2>4 DEF SingleInv
  <2>6. state = "CHECKSUM" /\ single => Full(previous_packet) = sum
    BY <2>5 DEF Full
  <2>7. WholeInv'
    BY <2>2, <2>3, <2>4, <2>6 DEF WholeInv, Follows, Full, Receiver!H
  <2>8. SingleInv'
    BY <2>2, <2>3, <1>6 DEF SingleInv
  <2>9. Receiver!AcceptedWasSent'
    BY <2>2, <2>3, <2>5 DEF Receiver!AcceptedWasSent
  <2> QED
    BY <2>7, <2>8, <2>9 DEF FollowInv
<1>8. CASE position = 1
  <2>1. b = packet[1]
    BY <1>1, <1>8, PacketFacts
  <2>2. /\ position' = 2 /\ intact' = intact
        /\ packet' = packet /\ previous_packet' = previous_packet
        /\ previous_intact' = previous_intact /\ single' = single
    BY <1>1, <1>3, <1>4, <1>8
  <2>3. WholeInv'
    BY <1>1, <1>2, <1>3, <1>6, <1>8, <2>1, <2>2, ReceiveByState DEF WholeInv, Follows, Full
  <2>4. SingleInv'
    BY <2>2, <1>6 DEF SingleInv
  <2>5. accepted' = Receiver!None
    BY <1>1, <1>2, <1>3, <2>1, ReceiveByState
  <2>6. Receiver!AcceptedWasSent'
    BY <2>5 DEF Receiver!AcceptedWasSent, Receiver!None
  <2> QED
    BY <2>3, <2>4, <2>6 DEF FollowInv
<1>9. CASE position = 2
  <2>1. b = packet[2]
    BY <1>1, <1>9, PacketFacts
  <2>2. /\ position' = 3 /\ intact' = intact
        /\ packet' = packet /\ previous_packet' = previous_packet
        /\ previous_intact' = previous_intact /\ single' = single
    BY <1>1, <1>3, <1>4, <1>9
  <2>3. WholeInv'
    BY <1>1, <1>2, <1>3, <1>6, <1>9, <2>1, <2>2, ReceiveByState DEF WholeInv, Follows, Full
  <2>4. state' = "CHECKSUM" =>
          state = "DATA" /\ command_reg' = command_reg /\ data_reg' = packet[2]
    BY <1>1, <1>2, <1>3, <2>1, ReceiveByState
  <2>5. state' = "CHECKSUM" /\ command_reg # packet[1] =>
          Receiver!Checksum(command_reg', data_reg') # Full(packet)
    BY <1>1, <1>2, <2>4, ChecksumFacts DEF Full
  <2>6. SingleInv'
    BY <2>2, <2>4, <2>5, <1>6 DEF SingleInv, Full
  <2>7. accepted' = Receiver!None
    BY <1>1, <1>2, <1>3, <2>1, ReceiveByState
  <2>8. Receiver!AcceptedWasSent'
    BY <2>7 DEF Receiver!AcceptedWasSent, Receiver!None
  <2> QED
    BY <2>3, <2>6, <2>8 DEF FollowInv
<1>10. CASE position = 3
  <2>1. b = Full(packet)
    BY <1>1, <1>10, PacketFacts
  <2>2. /\ position' = 0 /\ intact' = TRUE
        /\ previous_packet' = packet /\ previous_intact' = intact /\ single' = single
    BY <1>3, <1>5, <1>10
  <2>3. state' \in {"HEADER", "COMMAND"}
    BY <1>1, <1>2, <1>3, <2>1, ReceiveByState, ValidData
  <2>4. WholeInv' /\ SingleInv'
    BY <2>2, <2>3 DEF WholeInv, SingleInv
  <2>5. accepted' # Receiver!None =>
          state = "CHECKSUM" /\ accepted' = <<command_reg, data_reg>> /\ sum = Full(packet)
    BY <1>1, <1>3, <2>1, ReceiveByState
  <2>6. single /\ state = "CHECKSUM" /\ sum = Full(packet) =>
          command_reg = packet[1] /\ data_reg = packet[2]
    BY <1>6, <1>10 DEF WholeInv, SingleInv, Follows
  <2>7. Receiver!AcceptedWasSent'
    BY <1>2, <2>2, <2>5, <2>6 DEF Receiver!AcceptedWasSent, Receiver!None
  <2> QED
    BY <2>4, <2>7 DEF FollowInv
<1> QED
  BY <1>1, <1>7, <1>8, <1>9, <1>10

\* A single fault hits an intact packet that the parser follows.
LEMMA FaultMeetsFollower ==
  ASSUME ReceiverInv, Receiver!Fault
  PROVE  single' =>
           /\ single /\ intact /\ previous_intact
           /\ position = 0 => state \in {"HEADER", "COMMAND"}
           /\ position > 0 => Follows(position)
BY DEF ReceiverInv, WholeInv, Receiver!Fault, LineInv

LEMMA LastByte ==
  ASSUME position = 3, NEW whole \in BOOLEAN, Receiver!Advance(whole)
  PROVE  /\ position' = 0 /\ intact' = TRUE /\ previous_packet' = packet
         /\ previous_intact' = (intact /\ whole)
         /\ ~whole => previous_intact' = FALSE
<1>1. ~(position < 3)
  OBVIOUS
<1>2. /\ position' = 0 /\ intact' = TRUE /\ previous_packet' = packet
      /\ previous_intact' = (intact /\ whole)
  BY <1>1, Zenon DEF Receiver!Advance
<1> QED
  BY <1>2, Zenon

LEMMA DamagedFollows ==
  ASSUME ReceiverInv, Receiver!Damaged
  PROVE  FollowInv'
<1>1. PICK byte \in Corruption \ {Receiver!ByteOf(packet, position)} : Receiver!Receive(byte)
  BY DEF Receiver!Damaged
<1>2. /\ packet \in Sent /\ position \in 0 .. 3
      /\ state \in {"HEADER", "COMMAND", "DATA", "CHECKSUM"}
      /\ command_reg \in 0 .. 3 /\ data_reg \in 0 .. 3
      /\ Receiver!TypeOK /\ byte \in 0 .. 8
  BY ReceiverConstants DEF ReceiverInv, LineInv, Receiver!TypeOK
<1>3. /\ Full(packet) \in 4 .. 7 /\ packet[1] \in 1 .. 3 /\ packet[2] \in 0 .. 3
  BY <1>2, PacketFacts, ReceiverConstants
<1>4. single' =>
        /\ intact /\ previous_intact
        /\ position = 0 => state \in {"HEADER", "COMMAND"}
        /\ position > 0 => Follows(position)
  BY FaultMeetsFollower DEF Receiver!Damaged
<1>5. CASE position < 3
  <2>1. /\ position' = position + 1 /\ intact' = FALSE
        /\ packet' = packet /\ previous_packet' = previous_packet
        /\ previous_intact' = previous_intact
    BY <1>5 DEF Receiver!Damaged, Receiver!Advance
  <2>2. WholeInv'
    BY <2>1 DEF WholeInv
  <2>3. single' /\ position = 0 => state' # "CHECKSUM"
    BY <1>1, <1>2, <1>4, ReceiveByState
  <2>4. position = 2 => byte # packet[2]
    BY <1>1, <1>2, PacketFacts
  <2>5. single' /\ position = 2 /\ state' = "CHECKSUM" =>
          command_reg' = packet[1] /\ data_reg' = byte /\ byte \in 0 .. 3
    BY <1>1, <1>2, <1>4, ReceiveByState, ValidData DEF Follows
  <2>6. single' /\ position = 2 /\ state' = "CHECKSUM" =>
          Receiver!Checksum(command_reg', data_reg') # Full(packet)
    BY <1>3, <2>4, <2>5, ChecksumFacts DEF Full
  <2>7. SingleInv'
    BY <1>2, <1>4, <2>1, <2>3, <2>6 DEF SingleInv, Full
  <2>8. single' => accepted' = Receiver!None
    BY <1>1, <1>2, <1>4, <1>5, ReceiveByState DEF Follows
  <2>9. Receiver!AcceptedWasSent'
    BY <2>8 DEF Receiver!AcceptedWasSent, Receiver!None
  <2> QED
    BY <2>2, <2>7, <2>9 DEF FollowInv
<1>6. CASE position = 3
  <2>1. /\ position' = 0 /\ previous_packet' = packet /\ previous_intact' = FALSE
        /\ intact' = TRUE
    BY <1>6, LastByte DEF Receiver!Damaged
  <2>2. byte # Full(packet)
    BY <1>1, <1>2, <1>6, PacketFacts
  <2>3. single' => state' \in {"HEADER", "COMMAND"} /\ accepted' = Receiver!None
    BY <1>1, <1>2, <1>4, <1>6, <2>2, ReceiveByState DEF Follows, Full
  <2>4. WholeInv'
    BY <2>1 DEF WholeInv
  <2>5. SingleInv'
    BY <2>1, <2>3 DEF SingleInv
  <2>6. Receiver!AcceptedWasSent'
    BY <2>3 DEF Receiver!AcceptedWasSent, Receiver!None
  <2> QED
    BY <2>4, <2>5, <2>6 DEF FollowInv
<1> QED
  BY <1>2, <1>5, <1>6

LEMMA LostFollows ==
  ASSUME ReceiverInv, Receiver!Lost
  PROVE  FollowInv'
<1>1. /\ packet \in Sent /\ position \in 0 .. 3 /\ Receiver!TypeOK /\ LineInv
      /\ packet = <<packet[1], packet[2]>>
  BY PacketFacts DEF ReceiverInv, LineInv
<1>2. state' \in {"HEADER", state} /\ accepted' = Receiver!None
      /\ UNCHANGED <<command_reg, data_reg>>
  BY <1>1, NoByteTypes DEF Receiver!Lost
<1>3. single' =>
        /\ intact /\ previous_intact
        /\ position = 0 => state \in {"HEADER", "COMMAND"}
        /\ position > 0 => Follows(position)
  BY FaultMeetsFollower DEF Receiver!Lost
<1>4. Receiver!AcceptedWasSent'
  BY <1>2 DEF Receiver!AcceptedWasSent, Receiver!None
<1>5. CASE position < 3
  <2>1. /\ position' = position + 1 /\ intact' = FALSE
        /\ packet' = packet /\ previous_packet' = previous_packet
        /\ previous_intact' = previous_intact
    BY <1>5 DEF Receiver!Lost, Receiver!Advance
  <2>2. WholeInv'
    BY <2>1 DEF WholeInv
  <2>3. SingleInv'
    BY <1>1, <1>2, <1>3, <1>5, <2>1 DEF SingleInv, Follows
  <2> QED
    BY <1>4, <2>2, <2>3 DEF FollowInv
<1>6. CASE position = 3
  <2>1. /\ position' = 0 /\ previous_packet' = packet /\ previous_intact' = FALSE
        /\ intact' = TRUE
    BY <1>6, LastByte DEF Receiver!Lost
  <2>2. WholeInv'
    BY <2>1 DEF WholeInv
  <2>3. SingleInv'
    BY <1>1, <1>2, <1>3, <1>6, <2>1 DEF SingleInv, Follows
  <2> QED
    BY <1>4, <2>2, <2>3 DEF FollowInv
<1> QED
  BY <1>1, <1>5, <1>6

LEMMA PauseFollows ==
  ASSUME ReceiverInv, Receiver!Pause
  PROVE  FollowInv'
<1>1. /\ state' \in {"HEADER", state} /\ accepted' = Receiver!None
      /\ UNCHANGED <<command_reg, data_reg>>
      /\ since_byte < InterbyteTimeout - 1 => state' = state
  BY NoByteTypes DEF ReceiverInv, Receiver!Pause
<1>2. /\ UNCHANGED <<packet, position, intact, previous_packet, previous_intact, single>>
      /\ position = 0 \/ since_byte < InterbyteTimeout - 1
  BY DEF Receiver!Pause
<1>3. Receiver!AcceptedWasSent'
  BY <1>1 DEF Receiver!AcceptedWasSent, Receiver!None
<1>4. CASE position = 0
  BY <1>1, <1>2, <1>3, <1>4 DEF ReceiverInv, FollowInv, WholeInv, SingleInv
<1>5. CASE position # 0
  BY <1>1, <1>2, <1>3, <1>5 DEF ReceiverInv, FollowInv, WholeInv, SingleInv, Follows, LineInv, Full
<1> QED
  BY <1>4, <1>5

LEMMA ReceiverStep == ReceiverInv /\ [Receiver!Next]_(Receiver!vars) => ReceiverInv'
<1> SUFFICES ASSUME ReceiverInv, [Receiver!Next]_(Receiver!vars) PROVE ReceiverInv'
  OBVIOUS
<1>1. CASE Receiver!Next
  <2>1. FollowInv'
    BY <1>1, ArrivesFollows, DamagedFollows, LostFollows, PauseFollows DEF Receiver!Next
  <2> QED
    BY <1>1, <2>1, LineStep DEF FollowInv, ReceiverInv
<1>2. CASE UNCHANGED Receiver!vars
  BY <1>2 DEF Receiver!vars, Receiver!parserVars, Receiver!lineVars, ReceiverInv,
     Receiver!TypeOK, LineInv, WholeInv, SingleInv, Receiver!AcceptedWasSent, Follows, Full
<1> QED
  BY <1>1, <1>2

LEMMA ReceiverIsSafe == ReceiverInv => Receiver!Safety
BY ReceiverConstants
   DEF ReceiverInv, Receiver!Safety, Receiver!BrokenOffIsForgotten, LineInv, Receiver!TypeOK

\* The packet that comes whole after a whole one is taken.
LEMMA WholePacketStep ==
  ASSUME ReceiverInv, Receiver!Next, position = 3, position' = 0, previous_intact',
         \/ previous_intact
         \/ single /\ Full(previous_packet) # Receiver!H(0)
  PROVE  accepted' = packet
<1>1. Receiver!Arrives /\ intact
  <2>1. ~Receiver!Pause
    BY DEF Receiver!Pause
  <2>2. ~Receiver!Advance(FALSE)
    BY LastByte, Zenon
  <2>3. Receiver!Arrives /\ Receiver!Advance(TRUE)
    BY <2>1, <2>2 DEF Receiver!Next, Receiver!Arrives, Receiver!Damaged, Receiver!Lost
  <2> QED
    BY <2>3, LastByte, Zenon
<1>2. Follows(3)
  BY <1>1 DEF ReceiverInv, WholeInv
<1>3. /\ packet \in Sent /\ Receiver!TypeOK
  BY DEF ReceiverInv, LineInv
<1>4. Receiver!Receive(Full(packet)) /\ Full(packet) \in 0 .. 8
  BY <1>1, <1>3, PacketFacts DEF Receiver!Arrives
<1>5. packet = <<packet[1], packet[2]>>
  BY <1>3, PacketFacts
<1> QED
  BY <1>2, <1>3, <1>4, <1>5, ReceiveByState DEF Follows, Full

\* Of whole packets the second is obeyed after any damage, the next after single
\* faults (packet_parser.v).
THEOREM WholePacketIsTaken == MCSpec => WholePacketIsObeyed
<1>1. MCInit => ReceiverInv
  BY ReceiverInit DEF MCInit
<1>2. [Decides \/ Sounds \/ Shines \/ Transmits \/ Obeys]_allVars
        => [Receiver!Next]_(Receiver!vars)
  BY DEF allVars, receiverVars, Receiver!vars, Receiver!parserVars, Receiver!lineVars,
     Decides, Sounds, Shines, Transmits, Obeys
<1>3. ReceiverInv /\ [Receiver!Next]_(Receiver!vars) => ReceiverInv'
  BY ReceiverStep
<1>4. ReceiverInv /\ [Receiver!Next]_(Receiver!vars)
        => [(/\ position = 3 /\ position' = 0 /\ previous_intact'
             /\ \/ previous_intact
                \/ /\ single
                   /\ Receiver!Checksum(previous_packet[1], previous_packet[2]) # Receiver!H(0))
            => accepted' = packet]_(Receiver!vars)
  BY WholePacketStep DEF Full
<1> QED
  BY <1>1, <1>2, <1>3, <1>4, PTL DEF MCSpec, WholePacketIsObeyed, Receiver!WholePacketIsObeyed

-----------------------------------------------------------------------------
(* The machines together                                                   *)

\* An alarm sounds and shines at once, and is never silent or dark for longer
\* than its pattern (buzzer_ctrl.v, led_pattern.v).
THEOREM AlarmSafetyHolds == MCSpec => []AlarmSafety
<1>1. MCInit => BuzzerInv /\ LightInv
  BY BuzzerInit, LightInit DEF MCInit
<1>2. [Decides \/ Sounds \/ Shines \/ Transmits \/ Obeys]_allVars
        => [Buzzer!Next]_(Buzzer!vars)
  BY DEF allVars, buzzerVars, Buzzer!vars, Buzzer!inputs, Buzzer!testVars, Buzzer!buzzerVars,
     Decides, Sounds, Shines, Transmits, Obeys
<1>3. [Decides \/ Sounds \/ Shines \/ Transmits \/ Obeys]_allVars
        => [Light!Next]_(Light!vars)
  BY DEF allVars, lightVars, Light!vars, Light!inputs, Light!testVars, Light!ledVars,
     Decides, Sounds, Shines, Transmits, Obeys
<1>4. BuzzerInv /\ [Buzzer!Next]_(Buzzer!vars) => BuzzerInv'
  BY BuzzerStep
<1>5. LightInv /\ [Light!Next]_(Light!vars) => LightInv'
  BY LightStep
<1>6. BuzzerInv /\ LightInv => AlarmSafety
  BY BuzzerIsSafe, LightIsSafe DEF AlarmSafety
<1> QED
  BY <1>1, <1>2, <1>3, <1>4, <1>5, <1>6, PTL DEF MCSpec

\* An undisturbed byte arrives, once and as it was sent, and a framing error
\* means a disturbance (uart_rx.v); what the FPGA obeys was sent, and what is
\* broken off is forgotten in time (packet_parser.v).
THEOREM SerialSafetyHolds == MCSpec => []SerialSafety
<1>1. MCInit => WireInv /\ ReceiverInv
  BY WireInit, ReceiverInit DEF MCInit
<1>2. [Decides \/ Sounds \/ Shines \/ Transmits \/ Obeys]_allVars
        => [Wire!Next]_(Wire!vars)
  BY DEF allVars, wireVars, Wire!vars, Wire!txVars, Wire!rxVars, Wire!wireVars,
     Decides, Sounds, Shines, Transmits, Obeys
<1>3. [Decides \/ Sounds \/ Shines \/ Transmits \/ Obeys]_allVars
        => [Receiver!Next]_(Receiver!vars)
  BY DEF allVars, receiverVars, Receiver!vars, Receiver!parserVars, Receiver!lineVars,
     Decides, Sounds, Shines, Transmits, Obeys
<1>4. WireInv /\ [Wire!Next]_(Wire!vars) => WireInv'
  BY WireStep
<1>5. ReceiverInv /\ [Receiver!Next]_(Receiver!vars) => ReceiverInv'
  BY ReceiverStep
<1>6. WireInv /\ ReceiverInv => SerialSafety
  BY WireIsSafe, ReceiverIsSafe DEF SerialSafety
<1> QED
  BY <1>1, <1>2, <1>3, <1>4, <1>5, <1>6, PTL DEF MCSpec
=============================================================================
