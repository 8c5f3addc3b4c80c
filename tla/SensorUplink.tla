--------------------------- MODULE SensorUplink ---------------------------
(***************************************************************************)
(* Sensor values on their way from the forklifts to a judgment: the loop   *)
(* of sensor_uplink_publisher, MQTT at QoS 0, SensorUplinkReceiver's cache *)
(* of the latest sample per terminal, and NetworkSensorReader.             *)
(*                                                                         *)
(* A sensor value is a number; 0 is the placeholder before the first good  *)
(* reading, and a failed reading.  Time passes in ticks; Timeout stands    *)
(* for stale_timeout_ms.  A message keeps what its poll really read, for   *)
(* the properties.                                                         *)
(***************************************************************************)
EXTENDS Integers, Sequences

CONSTANTS
  Terminals,     \* configured_terminal_ids_
  Strangers,     \* other topics something publishes on
  Sensors,       \* {"imu", "tof"}
  MaxValue,
  Timeout,
  MaxInFlight    \* bound: messages under way

ConstantAssumption ==
  /\ MaxValue \in Nat \ {0} /\ Timeout \in Nat /\ MaxInFlight \in Nat \ {0}
  /\ Terminals \cap Strangers = {}

None == [camera |-> "none"]
Bad == [camera |-> "bad"]    \* a payload that does not parse

VARIABLES
  alive,        \* the publishers running
  last_valid,   \* each publisher's last_valid
  inFlight,
  connected_,   \* the receiver's session
  latest_by_terminal_,
  reader,       \* read(): the sample it has copied, if between the two locks
  input         \* whether read() last returned values, and for whom
VARIABLES
  age,          \* ticks since received_at of the latest sample
  silence       \* history: ticks since a whole sample of the terminal arrived

publisherVars == <<alive, last_valid>>
receiverVars == <<latest_by_terminal_, age, silence>>
readerVars == <<reader, input>>
vars == <<publisherVars, inFlight, connected_, receiverVars, readerVars>>

Idle == [terminal |-> "idle"]
Reading == [valid : BOOLEAN, value : 0 .. MaxValue]

-----------------------------------------------------------------------------
(* sensor_uplink_publisher                                                 *)

\* A failed reading keeps the last good value as a placeholder.
Updated(last, polled) ==
  IF polled # 0 THEN [valid |-> TRUE, value |-> polled] ELSE [last EXCEPT !.valid = FALSE]

\* One turn of the loop.  At QoS 0 a message may be lost, or not be sent.
Publish(t) ==
  /\ alive[t]
  /\ \E polled \in [Sensors -> 0 .. MaxValue] :
       LET now == [s \in Sensors |-> Updated(last_valid[t][s], polled[s])] IN
       /\ last_valid' = [last_valid EXCEPT ![t] = now]
       /\ \/ /\ Len(inFlight) < MaxInFlight
             /\ inFlight' = Append(inFlight, [topic |-> t, body |-> [camera |-> t, readings |-> now, polled |-> polled]])
          \/ UNCHANGED inFlight
  /\ UNCHANGED <<alive, connected_, receiverVars, readerVars>>

Dies(t) ==
  /\ alive[t] /\ alive' = [alive EXCEPT ![t] = FALSE]
  /\ UNCHANGED <<last_valid, inFlight, connected_, receiverVars, readerVars>>

\* main() again: last_valid is zeroed.
Restarts(t) ==
  /\ ~alive[t]
  /\ alive' = [alive EXCEPT ![t] = TRUE]
  /\ last_valid' = [last_valid EXCEPT ![t] = [s \in Sensors |-> [valid |-> FALSE, value |-> 0]]]
  /\ UNCHANGED <<inFlight, connected_, receiverVars, readerVars>>

\* A sample of a machine that is not configured.
Foreign ==
  LET high == [s \in Sensors |-> MaxValue] IN
  [camera |-> "foreign", readings |-> [s \in Sensors |-> [valid |-> TRUE, value |-> MaxValue]], polled |-> high]

\* Something else publishes: garbage on any topic, a sample on one of its own.
Stray ==
  /\ Len(inFlight) < MaxInFlight
  /\ \E topic \in Terminals \cup Strangers, body \in {Bad, Foreign} :
       /\ body = Bad \/ topic \in Strangers
       /\ inFlight' = Append(inFlight, [topic |-> topic, body |-> body])
  /\ UNCHANGED <<publisherVars, connected_, receiverVars, readerVars>>

-----------------------------------------------------------------------------
(* SensorUplinkReceiver                                                    *)

\* operator[] of a map: a new key is inserted.
Assigned(map, key, value) ==
  [k \in DOMAIN map \cup {key} |-> IF k = key THEN value ELSE map[k]]

\* Bug: a message that does not parse still counts as a sign of life.
BugAnySignOfLife(m) == m.topic \in Terminals

\* The terminal is configured and the payload has every field.
Usable(m) == m.topic \in Terminals /\ m.body # Bad

onMessage ==
  /\ connected_ /\ inFlight # <<>>
  /\ inFlight' = Tail(inFlight)
  /\ LET m == Head(inFlight) IN
       /\ IF Usable(m)
          THEN /\ latest_by_terminal_' = IF m.body = Bad THEN latest_by_terminal_
                                         ELSE Assigned(latest_by_terminal_, m.topic, m.body)
               /\ age' = Assigned(age, m.topic, 0)
          ELSE UNCHANGED <<latest_by_terminal_, age>>
       /\ silence' = IF m.topic \in Terminals /\ m.body # Bad THEN [silence EXCEPT ![m.topic] = 0] ELSE silence
  /\ UNCHANGED <<publisherVars, connected_, readerVars>>

\* The session ends: what was under way is gone.
onDisconnect ==
  /\ connected_ /\ connected_' = FALSE /\ inFlight' = <<>>
  /\ UNCHANGED <<publisherVars, receiverVars, readerVars>>

onConnect ==
  /\ ~connected_ /\ connected_' = TRUE
  /\ inFlight' = <<>>
  /\ UNCHANGED <<publisherVars, receiverVars, readerVars>>

isStale(t) == latest_by_terminal_[t] = None \/ age[t] > Timeout

-----------------------------------------------------------------------------
(* NetworkSensorReader::read, by the judging thread                        *)

Fault(t) == [terminal |-> t, values |-> FALSE]

getLatest(t) ==
  /\ reader = Idle
  /\ IF latest_by_terminal_[t] = None
     THEN input' = Fault(t) /\ UNCHANGED reader
     ELSE reader' = [terminal |-> t, sample |-> latest_by_terminal_[t], stale |-> isStale(t), silence |-> silence[t]]
          /\ UNCHANGED input
  /\ UNCHANGED <<publisherVars, inFlight, connected_, receiverVars>>

\* Bug: the answer of isStale is not used.
BugNeverStale(t) == FALSE

LooksStale(t) == isStale(t)

\* The sensors judged as good when the second lock, under which the latest
\* sample may not be the one copied, is taken now.
ReadGood == IF LooksStale(reader.terminal) THEN {} ELSE {s \in Sensors : reader.sample.readings[s].valid}

Judge ==
  /\ reader # Idle /\ reader' = Idle
  /\ input' = [terminal |-> reader.terminal, values |-> ~ LooksStale(reader.terminal)]
  /\ UNCHANGED <<publisherVars, inFlight, connected_, receiverVars>>

Tick ==
  /\ age' = [t \in Terminals |-> IF age[t] > Timeout THEN age[t] ELSE age[t] + 1]
  /\ silence' = [t \in Terminals |-> IF silence[t] > Timeout THEN silence[t] ELSE silence[t] + 1]
  /\ UNCHANGED <<publisherVars, inFlight, connected_, latest_by_terminal_, readerVars>>

-----------------------------------------------------------------------------

Init ==
  /\ alive = [t \in Terminals |-> TRUE]
  /\ last_valid = [t \in Terminals |-> [s \in Sensors |-> [valid |-> FALSE, value |-> 0]]]
  /\ inFlight = <<>> /\ connected_ = FALSE
  /\ latest_by_terminal_ = [t \in Terminals |-> None]
  /\ age = [t \in Terminals |-> Timeout + 1] /\ silence = [t \in Terminals |-> Timeout + 1]
  /\ reader = Idle /\ input = [terminal |-> "none", values |-> FALSE]

Next ==
  \/ Stray \/ onMessage \/ onDisconnect \/ onConnect \/ Judge \/ Tick
  \/ \E t \in Terminals : Publish(t) \/ Dies(t) \/ Restarts(t) \/ getLatest(t)

Spec ==
  /\ Init /\ [][Next]_vars
  /\ WF_vars(onMessage) /\ WF_vars(Judge) /\ WF_vars(onConnect) /\ WF_vars(Tick)
  /\ \A t \in Terminals : SF_vars(getLatest(t))

-----------------------------------------------------------------------------
(* Properties                                                              *)


\* The cache holds configured terminals only, whatever is published.
TypeOK ==
  /\ last_valid \in [Terminals -> [Sensors -> Reading]] /\ Len(inFlight) <= MaxInFlight
  /\ DOMAIN latest_by_terminal_ = Terminals
  /\ \A t \in Terminals : age[t] \in 0 .. Timeout + 1 /\ silence[t] \in 0 .. Timeout + 1

\* A value judged as good was read by a sensor of that very forklift in the
\* poll of the message: never a placeholder, never another terminal's.
TrueReadings ==
  reader # Idle => \A s \in ReadGood :
    /\ reader.sample.camera = reader.terminal
    /\ reader.sample.polled[s] # 0 /\ reader.sample.readings[s].value = reader.sample.polled[s]

\* A sample used although it was stale when it was copied has been replaced
\* by a newer one in the same read: a read is never behind by more than one.
StaleOnlyWhenReplaced ==
  reader # Idle => (ReadGood # {} /\ reader.stale => silence[reader.terminal] < reader.silence)

\* The cache's age is the age of a whole sample: garbage refreshes nothing.
SilenceIsSeen == \A t \in Terminals : silence[t] > Timeout => isStale(t)

\* Once a publisher is dead for good its terminal is judged a sensor fault
\* again and again.
DeathIsFelt ==
  \A t \in Terminals :
    <>[](~alive[t]) => []<>(input = Fault(t))

\* The invariants of the uplink: values are readings of that terminal, and silence
\* is seen but for a sample replaced between the two locks.
Safety == TypeOK /\ TrueReadings /\ StaleOnlyWhenReplaced /\ SilenceIsSeen

=============================================================================
