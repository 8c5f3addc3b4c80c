----------------------------- MODULE MCEventLog -----------------------------
(***************************************************************************)
(* Instances for TLC: what the server writes down and what it tells the    *)
(* terminals.  The event log and the assignment channel share no state;    *)
(* only one of them runs in a behaviour.                                   *)
(*                                                                         *)
(* Log: a queue of two rows that overflows while a batch of two is written,*)
(* and batches before and after stop().  Assignments: one terminal, two    *)
(* streams, two faults.                                                    *)
(***************************************************************************)
EXTENDS EventLog

\* Constants of the assignment channel, as its module declares them.
CONSTANTS Terminals, Streams, MaxRevision, MaxOut, MaxFaults

VARIABLES
  wanted, server_run_id_, revision_, assignments, connected_, assigner, out, sent,
  retained, online, shown, library_runs, loop, faults, accepted

assignmentVars ==
  <<wanted, server_run_id_, revision_, assignments, connected_, assigner, out, sent,
    retained, online, shown, library_runs, loop, faults, accepted>>

Assignment == INSTANCE AssignmentChannel WITH
  queue_ <- assignments, worker <- assigner

ASSUME AssignmentAssumption == Assignment!ConstantAssumption

VARIABLE machine

allVars == <<machine, vars, assignmentVars>>

Logs(A) == machine = "log" /\ A /\ UNCHANGED <<machine, assignmentVars>>
Assigns(A) == machine = "assignments" /\ A /\ UNCHANGED <<machine, vars>>

MCInit ==
  /\ Init /\ Assignment!Init /\ machine \in {"log", "assignments"}
  /\ machine = "log" => library_runs /\ wanted = [t \in Terminals |-> CHOOSE s \in Streams : TRUE]

MCSpec ==
  /\ MCInit
  /\ [][Logs(Next) \/ Assigns(Assignment!Next)]_allVars
  /\ WF_allVars(Logs(NotifyRow)) /\ WF_allVars(Logs(NotifyStop \/ JoinAndClose))
  /\ WF_allVars(Logs(Worker))
  /\ SF_allVars(Assigns(Assignment!TakeMessage))
  /\ SF_allVars(Assigns(Assignment!PublishMessage))
  /\ WF_allVars(Assigns(Assignment!onConnect))
  /\ SF_allVars(Assigns(Assignment!Deliver)) /\ SF_allVars(Assigns(Assignment!Acknowledge))
  /\ \A t \in Terminals :
       /\ WF_allVars(Assigns(Assignment!Frame(t)))
       /\ WF_allVars(Assigns(Assignment!connectToServer(t)))
       /\ WF_allVars(Assigns(Assignment!TerminalConnects(t)))

\* Assignments of a topic stay in order, and none the library accepted is lost
\* (assignment_publisher.cpp).
AssignmentSafety == machine = "assignments" => Assignment!Safety

\* With frames still coming, the terminal ends on the stream it was last
\* assigned, whatever failed before, if both ends could start their MQTT client
\* (assignment_publisher.cpp, HandoverClient.cpp).
ScreenSettles == machine = "log" \/ Assignment!ScreenSettles
=============================================================================
