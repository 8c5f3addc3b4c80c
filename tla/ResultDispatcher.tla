-------------------------- MODULE ResultDispatcher --------------------------
(***************************************************************************)
(* The risk channel from the server to one terminal: ResultDispatcher (the *)
(* judgment thread's submit, the heartbeat thread) and the ResultPublisher *)
(* behind its sink (FIFO queue, worker thread, broker link).               *)
(*                                                                         *)
(* One action is one critical section or one call made outside the lock,   *)
(* so the two threads race for the queue as they do in the code.  A        *)
(* judgment is the state sameState compares and one detail it does not     *)
(* (the distance).  publish_seq_, which nobody reads, is left out.         *)
(***************************************************************************)
EXTENDS Integers, Sequences, SequencesExt

CONSTANTS
  States,         \* what sameState compares: risk, exception, camera, zone
  IdleState,      \* the state of idleResult
  Details,        \* what it does not compare
  NoDetail,
  Period,         \* heartbeat period, in ticks
  MaxQueue,       \* max_queue_size_
  MaxDecisions,   \* bound: changes of state judged
  MaxFaults       \* bound: failed publications and lost broker links

kNoPreviousRisk == "no previous"

ASSUME ConstantAssumption ==
  /\ IdleState \in States /\ kNoPreviousRisk \notin States
  /\ NoDetail \notin Details
  /\ Period \in Nat \ {0} /\ MaxQueue \in Nat \ {0}
  /\ MaxDecisions \in Nat /\ MaxFaults \in Nat

\* A message: a judgment, its decision number (0 for the idle one), the reason.
Reasons == {"change", "heartbeat"}
Message == [state : States, detail : Details \cup {NoDetail},
            decision : 0 .. MaxDecisions, reason : Reasons]
Payload(m) == <<m.state, m.detail, m.decision>>

VARIABLES
  last_,             \* the latest judgment, as a message without a reason yet
  last_is_idle_,
  until_heartbeat,   \* next_heartbeat_ - now, in ticks
  decision_seq_,
  judge,             \* judgment thread: "ready", "sink" or "event", and its
  outbound,          \*   message with the previous state it found, or <<>>
  beat, snapshot,    \* heartbeat thread: "ready" or "sink", and its copy, or <<>>
  queue_,            \* ResultPublisher: messages not yet taken
  state_,            \* LinkState of its broker connection
  sending,           \* what its worker has taken, <<>> or <<message>>
  retained,          \* what the broker keeps for the terminal, likewise
  faults             \* bound: faults so far

\* History, for the properties only.
VARIABLES
  event,             \* the latest row handed to the event log
  newest             \* the latest message put into the queue, <<>> or <<m>>

dispatcherVars == <<last_, last_is_idle_, until_heartbeat, decision_seq_>>
judgeVars == <<judge, outbound>>
beatVars == <<beat, snapshot>>
publisherVars == <<state_, sending, retained, faults>>
sinkVars == <<queue_, newest>>
vars == <<dispatcherVars, judgeVars, beatVars, publisherVars, sinkVars, event>>

IdleResult ==
  [state |-> IdleState, detail |-> NoDetail, decision |-> 0, reason |-> "heartbeat"]
NoEvent == [state |-> kNoPreviousRisk, prev |-> kNoPreviousRisk, decision |-> 0]

-----------------------------------------------------------------------------
(* ResultPublisher::publish, the sink of both threads                      *)

Enqueued(m) ==
  Append(IF Len(queue_) >= MaxQueue THEN Tail(queue_) ELSE queue_, m)

Sink(m) ==
  /\ queue_' = Enqueued(m)
  /\ newest' = <<m>>

-----------------------------------------------------------------------------
(* Judgment thread                                                         *)

\* Bug: the idle result counts as a judgment like any other.
BugIdleIsAState(s) == last_.state # s

Changed(s) == last_is_idle_ \/ last_.state # s

PreviousState(s) == IF last_is_idle_ THEN kNoPreviousRisk ELSE last_.state

\* Bug: every judgment moves the heartbeat, not only a change.
BugTimerOnEverySubmit(s) == until_heartbeat' = Period

NextHeartbeat(s) ==
  until_heartbeat' = IF Changed(s) THEN Period ELSE until_heartbeat

\* submit, under the lock.  An unchanged judgment keeps its decision number.
Submit(s, d) ==
  LET decision == IF Changed(s) THEN decision_seq_ + 1 ELSE last_.decision IN
  /\ judge = "ready"
  /\ Changed(s) => decision_seq_ < MaxDecisions
  /\ decision_seq_' = IF Changed(s) THEN decision_seq_ + 1 ELSE decision_seq_
  /\ last_' = [state |-> s, detail |-> d, decision |-> decision, reason |-> "change"]
  /\ last_is_idle_' = FALSE
  /\ NextHeartbeat(s)
  /\ IF Changed(s)
     THEN /\ judge' = "sink"
          /\ outbound' = <<last_', PreviousState(s)>>
     ELSE UNCHANGED judgeVars
  /\ UNCHANGED <<beatVars, publisherVars, sinkVars, event>>

\* sink_(toJson(outbound)), outside the lock.
SendChange ==
  /\ judge = "sink"
  /\ Sink(outbound[1])
  /\ judge' = "event"
  /\ UNCHANGED <<dispatcherVars, outbound, beatVars, publisherVars, event>>

\* event_sink_(current, prev_risk), after the message was sent.
LogEvent ==
  /\ judge = "event"
  /\ event' = [state |-> outbound[1].state, prev |-> outbound[2],
               decision |-> outbound[1].decision]
  /\ judge' = "ready" /\ outbound' = <<>>
  /\ UNCHANGED <<dispatcherVars, beatVars, publisherVars, sinkVars>>

-----------------------------------------------------------------------------
(* Heartbeat thread                                                        *)

Elapse ==
  /\ until_heartbeat > 0
  /\ until_heartbeat' = until_heartbeat - 1
  /\ UNCHANGED <<last_, last_is_idle_, decision_seq_, judgeVars, beatVars,
                 publisherVars, sinkVars, event>>

\* run, under the lock: copy the latest judgment when its time has come.
CopyLast ==
  /\ beat = "ready" /\ until_heartbeat = 0
  /\ snapshot' = <<[last_ EXCEPT !.reason = "heartbeat"]>>
  /\ until_heartbeat' = Period
  /\ beat' = "sink"
  /\ UNCHANGED <<last_, last_is_idle_, decision_seq_, judgeVars, publisherVars,
                 sinkVars, event>>

\* run, with the lock released.
SendHeartbeat ==
  /\ beat = "sink"
  /\ Sink(snapshot[1])
  /\ beat' = "ready" /\ snapshot' = <<>>
  /\ UNCHANGED <<dispatcherVars, judgeVars, publisherVars, event>>

-----------------------------------------------------------------------------
(* ResultPublisher::run and the broker                                     *)

\* The worker waits while there is no connection, then takes the oldest.
TakeOldest ==
  /\ state_ = "CONNECTED" /\ sending = <<>> /\ queue_ # <<>>
  /\ sending' = <<Head(queue_)>>
  /\ queue_' = Tail(queue_)
  /\ UNCHANGED <<dispatcherVars, judgeVars, beatVars, state_, retained, faults,
                 newest, event>>

\* publishOnce succeeds: the broker replaces the retained message.
PublishSucceeds ==
  /\ sending # <<>>
  /\ retained' = sending
  /\ sending' = <<>>
  /\ UNCHANGED <<dispatcherVars, judgeVars, beatVars, state_, faults, sinkVars, event>>

\* Bug: a message that could not be sent is put back into the queue.
BugRequeue == queue_' = Append(queue_, sending[1])

GiveUp == UNCHANGED queue_

\* publishOnce fails: the message is lost.
PublishFails ==
  /\ sending # <<>> /\ faults < MaxFaults
  /\ GiveUp
  /\ sending' = <<>>
  /\ faults' = faults + 1
  /\ UNCHANGED <<dispatcherVars, judgeVars, beatVars, state_, retained, newest,
                 event>>

onConnectCb ==
  /\ state_ # "CONNECTED"
  /\ state_' = "CONNECTED"
  /\ UNCHANGED <<dispatcherVars, judgeVars, beatVars, sending, retained, faults,
                 sinkVars, event>>

onDisconnectCb ==
  /\ state_ = "CONNECTED" /\ faults < MaxFaults
  /\ state_' = "CONNECTING"
  /\ faults' = faults + 1
  /\ UNCHANGED <<dispatcherVars, judgeVars, beatVars, sending, retained, sinkVars, event>>

-----------------------------------------------------------------------------
\* CentralServer::start: primed with the idle result, both threads running.
Init ==
  /\ last_ = IdleResult /\ last_is_idle_ = TRUE
  /\ until_heartbeat = Period /\ decision_seq_ = 0
  /\ judge = "ready" /\ outbound = <<>>
  /\ beat = "ready" /\ snapshot = <<>>
  /\ queue_ = <<>> /\ state_ = "CONNECTING" /\ sending = <<>>
  /\ retained = <<>> /\ faults = 0
  /\ event = NoEvent /\ newest = <<>>

Heartbeat == CopyLast \/ SendHeartbeat
JudgeSends == SendChange \/ LogEvent
Publisher == TakeOldest \/ PublishSucceeds

Next ==
  \/ \E s \in States, d \in Details : Submit(s, d)
  \/ JudgeSends \/ Elapse \/ Heartbeat
  \/ Publisher \/ PublishFails \/ onConnectCb \/ onDisconnectCb

Spec == Init /\ [][Next]_vars

\* Threads and time go on, and libmosquitto reconnects; no judgment need come.
\* Faults are finitely many, so the link holds in the end.
FairSpec ==
  /\ Spec
  /\ WF_vars(JudgeSends) /\ WF_vars(Elapse) /\ WF_vars(Heartbeat)
  /\ WF_vars(Publisher) /\ WF_vars(onConnectCb)

-----------------------------------------------------------------------------
(* Properties                                                              *)

\* Every variable has its type, and the queue its bound.
TypeOK ==
  /\ last_ \in Message /\ last_is_idle_ \in BOOLEAN
  /\ until_heartbeat \in 0 .. Period /\ decision_seq_ \in 0 .. MaxDecisions
  /\ judge \in {"ready", "sink", "event"}
  /\ IF judge = "ready" THEN outbound = <<>>
     ELSE outbound \in Message \X (States \cup {kNoPreviousRisk})
  /\ IF beat = "ready" THEN snapshot = <<>> ELSE snapshot \in {<<m>> : m \in Message}
  /\ queue_ \in Seq(Message) /\ Len(queue_) <= MaxQueue
  /\ state_ \in {"CONNECTING", "CONNECTED"}
  /\ sending \in {<<>>} \cup {<<m>> : m \in Message}
  /\ retained \in {<<>>} \cup {<<m>> : m \in Message}
  /\ faults \in 0 .. MaxFaults
  /\ event \in [state : States \cup {kNoPreviousRisk}, prev : States \cup {kNoPreviousRisk},
               decision : 0 .. MaxDecisions]
  /\ newest \in {<<>>} \cup {<<m>> : m \in Message}

\* Everything on its way to the terminal, oldest first.
Line == retained \o sending \o queue_

\* What the terminal is shown may go back to an older decision only by one
\* heartbeat that was copied before the change it follows: changes reach it in
\* the order they were decided, heartbeats too, and between a change and an
\* older heartbeat behind it there is no other heartbeat.
StaleOnlyByRacingHeartbeat ==
  \A i, j \in DOMAIN Line : i < j =>
    /\ Line[i].reason = Line[j].reason => Line[i].decision <= Line[j].decision
    /\ Line[j].decision < Line[i].decision =>
         /\ Line[j].reason = "heartbeat"
         /\ \A k \in i .. j - 1 : Line[k].reason = "change"

\* Back-pressure never costs the newest message: what was put into the queue
\* last is still at its end, as long as anything is left in the queue.
NewestIsKept == queue_ # <<>> => <<Last(queue_)>> = newest

\* The event log is a chain: every row names the state of the row before it as
\* its previous state, the first one none, and no decision is missing or
\* repeated, whatever happens to its message.
EventLogIsChain ==
  [][event' # event =>
       /\ event'.prev = event.state
       /\ event'.decision = event.decision + 1
       /\ event'.prev # event'.state]_vars

\* Once the judgment no longer changes, the broker keeps exactly that judgment
\* for the terminal, its details included: heartbeats repair what a lost
\* message, an overflow or a racing heartbeat left behind.
TerminalSeesLastJudgment ==
  \A p \in {Payload(IdleResult)} \cup (States \X Details \X (1 .. MaxDecisions)) :
    <>[](Payload(last_) = p) => <>[](retained # <<>> /\ Payload(retained[1]) = p)

\* The invariants of the channel: only a heartbeat in flight ages a message, and
\* the newest is never the one dropped.
Safety == TypeOK /\ StaleOnlyByRacingHeartbeat /\ NewestIsKept

=============================================================================
