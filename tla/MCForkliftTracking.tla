------------------------- MODULE MCForkliftTracking -------------------------
(***************************************************************************)
(* Instances for TLC: what comes into the server.  Tracking, a camera's    *)
(* metadata stream and the sensors' uplink have inputs of their own; only  *)
(* one of them runs in a behaviour.                                        *)
(*                                                                         *)
(* Tracking: three sizes of the marker, of which only the first and the    *)
(* last are 1.3 apart.  Metadata: documents of three packets, two losses in*)
(* a row, two failures allowed.  Uplink: one forklift, whose publisher may *)
(* die, a stranger and garbage.                                            *)
(***************************************************************************)
EXTENDS ForkliftTracking

MCAreas == {10, 12, 14}

\* Constants of the metadata stream and of the sensor uplink, as their modules
\* declare them.
CONSTANTS
  Parts, SeqModulus, MaxLost, MaxDocs, max_retries,
  Terminals, Strangers, Sensors, MaxValue, Timeout, MaxInFlight

VARIABLES
  running, stage, reached_playing, failures, saw_metadata, retry_needed, graph,
  pipeline, stopper, held, buffer_, lastSeq_, hasLastSeq_, doc, part, seq, bare,
  completed, enqueued

inputVars ==
  <<running, stage, reached_playing, failures, saw_metadata, retry_needed, graph,
    pipeline, stopper, held, buffer_, lastSeq_, hasLastSeq_, doc, part, seq, bare,
    completed, enqueued>>

Input == INSTANCE MetadataStream

VARIABLES
  alive, last_valid, inFlight, connected_, latest_by_terminal_, reader, input,
  age, silence

uplinkVars ==
  <<alive, last_valid, inFlight, connected_, latest_by_terminal_, reader, input,
    age, silence>>

Uplink == INSTANCE SensorUplink

ASSUME InputAssumption == Input!ConstantAssumption /\ Uplink!ConstantAssumption

VARIABLE machine

allVars == <<machine, vars, inputVars, uplinkVars>>

Tracks(A) == machine = "tracking" /\ A /\ UNCHANGED <<machine, inputVars, uplinkVars>>
Receives(A) == machine = "input" /\ A /\ UNCHANGED <<machine, vars, uplinkVars>>
Reads(A) == machine = "uplink" /\ A /\ UNCHANGED <<machine, vars, inputVars>>

MCInit ==
  /\ Init /\ Input!Init /\ Uplink!Init /\ machine \in {"tracking", "input", "uplink"}

MCSpec ==
  /\ MCInit
  /\ [][Tracks(Next) \/ Receives(Input!Next) \/ Reads(Uplink!Next)]_allVars
  /\ WF_allVars(Tracks(Elapse)) /\ WF_allVars(Tracks(Frame))
  /\ WF_allVars(Receives(Input!RunStep)) /\ WF_allVars(Receives(Input!StopStep))
  /\ WF_allVars(Reads(Uplink!onMessage)) /\ WF_allVars(Reads(Uplink!Judge))
  /\ WF_allVars(Reads(Uplink!onConnect)) /\ WF_allVars(Reads(Uplink!Tick))
  /\ \A t \in Terminals : SF_allVars(Reads(Uplink!getLatest(t)))

\* Documents are never spliced, a camera that played in its last session is not
\* given up, and stop() touches a live graph and is final (main.cpp,
\* rtp_metadata_receiver.cpp).
InputSafety == machine = "input" => Input!Safety

\* Values are readings of that terminal's sensors, and silence is seen but for
\* a sample replaced between the two locks (network_sensor_reader.cpp).
UplinkSafety == machine = "uplink" => Uplink!Safety

\* Once a publisher is dead for good its terminal is judged a sensor fault
\* again and again (sensor_uplink_receiver.cpp).
DeathIsFelt == Uplink!DeathIsFelt
=============================================================================
