-------------------------- MODULE AnnouncementGate --------------------------
(***************************************************************************)
(* AnnouncementGate (announcement_gate.hpp): what the server announces of  *)
(* the judgments of one terminal.  A rise is announced once it was         *)
(* confirmed, EMERGENCY at once, a fall after a longer time; the exception *)
(* DEAD_RECKONING never leaves the server.                                 *)
(*                                                                         *)
(* A judgment comes with the time since the one before (100 ms for the     *)
(* periodic tick of the server), so pending_since_ is kept as an age.      *)
(***************************************************************************)
EXTENDS Integers

CONSTANTS
  RiseConfirm,   \* rise_confirm_ms_, in units of time
  FallConfirm,   \* fall_confirm_ms_
  Gaps           \* times that may pass between two judgments

ASSUME ConfirmAssumption ==
  RiseConfirm \in Nat /\ FallConfirm \in Nat /\ Gaps \subseteq Nat

SAFE == 0
CAUTION == 1
DANGER == 2
EMERGENCY == 3
RiskLevel == SAFE .. EMERGENCY

ExceptionState ==
  {"NONE", "SENSOR_FAULT", "DEAD_RECKONING", "EMERGENCY_IMPACT",
   "UNCONFIRMED_PROXIMITY"}

\* What the engine may hand over; DangerJudgment!ExceptionHasFloor shows it.
Judgments ==
  {j \in [final_risk : RiskLevel, exception : ExceptionState, measured : BOOLEAN] :
     /\ j.exception = "EMERGENCY_IMPACT" => j.final_risk >= DANGER
     /\ j.exception \in {"SENSOR_FAULT", "UNCONFIRMED_PROXIMITY"}
          => j.final_risk >= CAUTION}

VARIABLES
  has_published_, published_risk_, published_exception_, pending_risk_,
  pending_age,     \* now - pending_since_, up to Horizon
  announced,       \* what apply returned last
  judged_risk,     \* history: the level of the latest judgment, sanitised,
  judged_age,      \* and how long every judgment has had it, up to Horizon
  new_stream       \* history: no judgment yet since the start or a reset

gateVars == <<has_published_, published_risk_, published_exception_,
              pending_risk_, pending_age>>
vars == <<gateVars, announced, judged_risk, judged_age, new_stream>>

Horizon == RiseConfirm + FallConfirm
Later(age, gap) == IF age + gap <= Horizon THEN age + gap ELSE Horizon

-----------------------------------------------------------------------------
\* sanitizeForClients: a blind CAUTION is the engine's way to say "unknown".
Sanitized(j) ==
  IF j.exception # "DEAD_RECKONING" THEN j
  ELSE [final_risk |-> IF ~j.measured /\ j.final_risk = CAUTION THEN SAFE
                       ELSE j.final_risk,
        exception  |-> "NONE",
        measured   |-> j.measured]

\* Bug: EMERGENCY is confirmed like any other rise.
BugSlowEmergency(level) == IF level > published_risk_ THEN RiseConfirm ELSE FallConfirm

\* riseDelay and fall_confirm_ms_.
ConfirmTime(level) ==
  IF level = EMERGENCY THEN 0
  ELSE IF level > published_risk_ THEN RiseConfirm
  ELSE FallConfirm

holdException(exception) ==
  IF published_risk_ = SAFE THEN published_exception_ ELSE exception

\* Bug: the timer runs on when the level being confirmed changes.
BugTimerRunsOn(level, gap) == Later(pending_age, gap)

\* The age of the level being confirmed; it starts again with every new level.
PendingAge(level, gap) ==
  IF pending_risk_ = level THEN Later(pending_age, gap) ELSE 0

Publish(j) ==
  /\ has_published_' = TRUE
  /\ published_risk_' = j.final_risk
  /\ published_exception_' = j.exception
  /\ pending_risk_' = j.final_risk
  /\ announced' = [risk |-> j.final_risk, exception |-> j.exception]

Hold(j) ==
  /\ pending_risk_' = j.final_risk
  /\ announced' = [risk |-> published_risk_, exception |-> holdException(j.exception)]
  /\ UNCHANGED <<has_published_, published_risk_, published_exception_>>

First(j, gap) ==
  /\ ~has_published_
  /\ Publish(j)
  /\ pending_age' = Later(pending_age, gap)

SameLevel(j) ==
  /\ has_published_ /\ j.final_risk = published_risk_
  /\ Hold(j)
  /\ pending_age' = 0

OtherLevel(j, gap) ==
  /\ has_published_ /\ j.final_risk # published_risk_
  /\ pending_age' = PendingAge(j.final_risk, gap)
  /\ IF PendingAge(j.final_risk, gap) < ConfirmTime(j.final_risk)
     THEN Hold(j) ELSE Publish(j)

Observe(j, gap) ==
  /\ judged_risk' = j.final_risk
  /\ judged_age' =
       IF ~new_stream /\ judged_risk = j.final_risk THEN Later(judged_age, gap) ELSE 0
  /\ new_stream' = FALSE

Announce(j, gap) ==
  /\ First(j, gap) \/ SameLevel(j) \/ OtherLevel(j, gap)
  /\ Observe(j, gap)

apply(judgment, gap) == Announce(Sanitized(judgment), gap)

\* reset: the terminal was given another stream.
ForgetPublished ==
  /\ has_published_' = FALSE
  /\ published_risk_' = SAFE
  /\ published_exception_' = "NONE"
  /\ pending_risk_' = SAFE
  /\ pending_age' = Horizon

reset ==
  /\ ForgetPublished
  /\ new_stream' = TRUE
  /\ UNCHANGED <<announced, judged_risk, judged_age>>

Init ==
  /\ has_published_ = FALSE
  /\ published_risk_ = SAFE /\ published_exception_ = "NONE"
  /\ pending_risk_ = SAFE /\ pending_age = Horizon
  /\ announced = [risk |-> SAFE, exception |-> "NONE"]
  /\ judged_risk = SAFE /\ judged_age = 0 /\ new_stream = TRUE

Next == reset \/ \E j \in Judgments, gap \in Gaps : apply(j, gap)

Spec == Init /\ [][Next]_vars

-----------------------------------------------------------------------------
(* Properties                                                              *)

\* Every member has its type; the ages stay within their bound.
TypeOK ==
  /\ has_published_ \in BOOLEAN
  /\ published_risk_ \in RiskLevel /\ published_exception_ \in ExceptionState
  /\ pending_risk_ \in RiskLevel /\ pending_age \in 0 .. Horizon
  /\ announced \in [risk : RiskLevel, exception : ExceptionState]
  /\ judged_risk \in RiskLevel /\ judged_age \in 0 .. Horizon
  /\ new_stream \in BOOLEAN

\* Within a stream the announced level moves only to the level every judgment
\* has had for the whole confirmation time of that move; only EMERGENCY is
\* announced unconfirmed.  No sequence of levels adds its times up.
ChangedOnlyWhenConfirmed ==
  [][~new_stream /\ ~new_stream' =>
       /\ announced'.risk > announced.risk /\ announced'.risk # EMERGENCY
            => judged_risk' = announced'.risk /\ judged_age' >= RiseConfirm
       /\ announced'.risk < announced.risk
            => judged_risk' = announced'.risk /\ judged_age' >= FallConfirm]_vars

\* Nor is it later than that: a level the judgments have kept for its
\* confirmation time is announced, EMERGENCY with its first judgment.  A level
\* that was forgotten with the stream does not delay the next one.
AnnouncedWhenConfirmed ==
  ~new_stream =>
    /\ judged_risk = EMERGENCY => announced.risk = EMERGENCY
    /\ judged_risk > announced.risk => judged_age < RiseConfirm
    /\ judged_risk < announced.risk => judged_age < FallConfirm

\* The clients show an alarm for every exception, whatever the level.  So what
\* is announced as SAFE carries no exception, also while a rise that has one
\* waits for its confirmation, and lost positions are never announced.
SafeShowsNoAlarm ==
  /\ announced.risk = SAFE => announced.exception = "NONE"
  /\ announced.exception # "DEAD_RECKONING"

\* After a change of stream the first judgment is announced as it is: neither
\* the level nor the waiting time of the stream before holds it back.
NewStreamIsAnnouncedAtOnce ==
  [][new_stream /\ ~new_stream' => announced'.risk = judged_risk']_vars

\* The invariants of the gate: what is confirmed is announced, and SAFE shows no
\* alarm.
Safety == TypeOK /\ AnnouncedWhenConfirmed /\ SafeShowsNoAlarm

=============================================================================
