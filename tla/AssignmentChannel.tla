------------------------- MODULE AssignmentChannel -------------------------
(***************************************************************************)
(* Which camera a terminal shows: the assignments the judging thread gives *)
(* AssignmentPublisher, its queue and worker, libmosquitto's messages of   *)
(* QoS 1, the broker's retained value, and the terminal's HandoverClient.  *)
(*                                                                         *)
(* A message is its topic, the terminal and stream in its payload, its     *)
(* server run and its revision.  Every ArUco frame with an assignment      *)
(* publishes, the same one again too.  The library keeps a message until   *)
(* it is acknowledged and sends all it keeps again after a reconnect.      *)
(***************************************************************************)
EXTENDS Integers, Sequences, FiniteSets

CONSTANTS
  Terminals, Streams,
  MaxRevision,   \* bound: revisions counted; later frames repeat the last
  MaxOut,        \* bound: messages the library keeps
  MaxFaults      \* bound: links lost, publications failed, server crashes, stray payloads

ConstantAssumption ==
  /\ IsFiniteSet(Terminals)
  /\ MaxRevision \in Nat /\ MaxOut \in Nat \ {0} /\ MaxFaults \in Nat

None == [topic |-> "none"]

VARIABLES
  wanted,       \* the stream the tracking last assigned to each terminal
  server_run_id_, revision_, queue_, connected_,
  worker,       \* the message run() has taken from the queue
  out, sent,    \* the library: kept messages, and how many this connection has carried
  retained,     \* the broker: per topic
  online, shown,\* the terminals: connection, and the last message acted on
  library_runs, \* connect() of this server run has started the library's thread
  loop,         \* the terminals' connectToServer: not called, "running" or "failed"
  faults
\* History: the newest message of each topic the library accepted.
VARIABLE accepted

publisherVars == <<server_run_id_, revision_, queue_, connected_>>
libraryVars == <<out, sent, accepted>>
terminalVars == <<online, shown>>
startVars == <<library_runs, loop>>
vars == <<wanted, startVars, publisherVars, worker, libraryVars, retained, terminalVars, faults>>

topicFor(t) == t

-----------------------------------------------------------------------------
(* The judging thread                                                      *)

\* Of a topic at most one message waits.
WithoutTopic(q, t) ==
  LET waiting == {i \in 1 .. Len(q) : q[i].topic = topicFor(t)}
      here == CHOOSE i \in waiting : TRUE
  IN IF waiting = {} THEN q
     ELSE [n \in 1 .. Len(q) - 1 |-> q[IF n < here THEN n ELSE n + 1]]

publish(t, s) ==
  LET next == IF revision_ < MaxRevision THEN revision_ + 1 ELSE revision_ IN
  /\ revision_' = next
  /\ queue_' = Append(WithoutTopic(queue_, t),
       [topic |-> topicFor(t), terminal |-> t, stream |-> s, run |-> server_run_id_, revision |-> next])
  /\ UNCHANGED <<server_run_id_, connected_>>

\* Another stream is assigned; counted by the revision bound.
Handover ==
  \E t \in Terminals, s \in Streams :
    /\ s # wanted[t] /\ revision_ < MaxRevision
    /\ wanted' = [wanted EXCEPT ![t] = s]
    /\ publish(t, s)
    /\ UNCHANGED <<startVars, worker, libraryVars, retained, terminalVars, faults>>

\* A frame that assigns the same stream again.
Frame(t) ==
  /\ publish(t, wanted[t])
  /\ UNCHANGED <<startVars, wanted, worker, libraryVars, retained, terminalVars, faults>>

-----------------------------------------------------------------------------
(* run()                                                                   *)

TakeMessage ==
  /\ worker = None /\ queue_ # <<>> /\ connected_
  /\ worker' = Head(queue_) /\ queue_' = Tail(queue_)
  /\ UNCHANGED <<startVars, wanted, server_run_id_, revision_, connected_, libraryVars, retained, terminalVars, faults>>

Accept ==
  /\ out' = Append(out, worker)
  /\ accepted' = [accepted EXCEPT ![worker.topic] = worker]
  /\ UNCHANGED sent

\* Bug: a publication that failed is put back, to be tried again.
BugPutsBack(m) == Append(queue_, m)

AfterFailure(m) == queue_

\* A refused publication is not tried again; the library may have kept it or not.
PublishMessage ==
  /\ worker # None /\ Len(out) < MaxOut
  /\ worker' = None
  /\ \/ Accept /\ UNCHANGED <<queue_, faults>>
     \/ faults < MaxFaults /\ faults' = faults + 1 /\ queue_' = AfterFailure(worker) /\ UNCHANGED libraryVars
  /\ UNCHANGED <<startVars, wanted, server_run_id_, revision_, connected_, retained, terminalVars>>

-----------------------------------------------------------------------------
(* The library and the broker                                              *)

link == IF sent >= 0 THEN "up" ELSE "down"

\* Bug: HandoverClient takes the first assignment and no other.
BugFirstOnly(t, m) == IF shown[t] = None THEN m ELSE shown[t]

\* The terminal named in the payload is not looked at.
processPayload(t, m) == m

Deliver ==
  /\ link = "up" /\ sent < Len(out)
  /\ LET m == out[sent + 1] IN
       /\ retained' = [retained EXCEPT ![m.topic] = m]
       /\ shown' = IF online[m.topic] THEN [shown EXCEPT ![m.topic] = processPayload(m.topic, m)] ELSE shown
  /\ sent' = sent + 1
  /\ UNCHANGED <<startVars, wanted, publisherVars, worker, out, accepted, online, faults>>

\* onPublish: an acknowledgement; what it records is only logged.
Acknowledge ==
  /\ link = "up" /\ sent > 0
  /\ out' = Tail(out) /\ sent' = sent - 1
  /\ UNCHANGED <<startVars, wanted, publisherVars, worker, accepted, retained, terminalVars, faults>>

\* QoS 1: what is in flight stays with the library.
onDisconnect ==
  /\ link = "up" /\ faults < MaxFaults
  /\ faults' = faults + 1 /\ sent' = -1 /\ connected_' = FALSE
  /\ UNCHANGED <<startVars, wanted, server_run_id_, revision_, queue_, worker, out, accepted, retained, terminalVars>>

\* The library's thread connects again and again, also when the first attempt
\* failed; without a client, TLS or that thread connect() has given up.
onConnect ==
  /\ link = "down" /\ library_runs /\ sent' = 0 /\ connected_' = TRUE
  /\ UNCHANGED <<startVars, wanted, server_run_id_, revision_, queue_, worker, out, accepted, retained, terminalVars, faults>>

\* The server dies and comes back, with a run identifier of its own.
Crash ==
  /\ faults < MaxFaults /\ faults' = faults + 1
  /\ server_run_id_' = server_run_id_ + 1 /\ revision_' = 0 /\ queue_' = <<>> /\ connected_' = FALSE
  /\ worker' = None /\ out' = <<>> /\ sent' = -1
  /\ accepted' = retained
  /\ library_runs' \in BOOLEAN
  /\ UNCHANGED <<wanted, retained, terminalVars, loop>>

-----------------------------------------------------------------------------
(* HandoverClient                                                          *)

\* main() calls it once.  mosquitto_connect_async makes the first attempt: when
\* that fails, no thread is started and nobody tries again.
connectToServer(t) ==
  /\ loop[t] = "none"
  /\ \E outcome \in {"running", "failed"} : loop' = [loop EXCEPT ![t] = outcome]
  /\ UNCHANGED <<library_runs, wanted, publisherVars, worker, libraryVars, retained, terminalVars, faults>>

\* The library's thread connects, subscribes and is sent the retained message.
TerminalConnects(t) ==
  /\ loop[t] = "running" /\ ~online[t]
  /\ online' = [online EXCEPT ![t] = TRUE]
  /\ shown' = IF retained[t] # None THEN [shown EXCEPT ![t] = processPayload(t, retained[t])] ELSE shown
  /\ UNCHANGED <<startVars, wanted, publisherVars, worker, libraryVars, retained, faults>>

TerminalDrops(t) ==
  /\ online[t] /\ faults < MaxFaults
  /\ faults' = faults + 1 /\ online' = [online EXCEPT ![t] = FALSE]
  /\ UNCHANGED <<startVars, wanted, publisherVars, worker, libraryVars, retained, shown>>

-----------------------------------------------------------------------------

Init ==
  /\ wanted \in [Terminals -> Streams]
  /\ server_run_id_ = 1 /\ revision_ = 0 /\ queue_ = <<>> /\ connected_ = FALSE
  /\ worker = None /\ out = <<>> /\ sent = -1
  /\ retained = [t \in Terminals |-> None] /\ accepted = [t \in Terminals |-> None]
  /\ online = [t \in Terminals |-> FALSE] /\ shown = [t \in Terminals |-> None]
  /\ faults = 0
  /\ library_runs \in BOOLEAN /\ loop = [t \in Terminals |-> "none"]

PublisherStep == TakeMessage \/ PublishMessage
BrokerStep == onConnect \/ Deliver \/ Acknowledge

Next ==
  \/ Handover \/ PublisherStep \/ BrokerStep \/ onDisconnect \/ Crash
  \/ \E t \in Terminals : Frame(t) \/ connectToServer(t) \/ TerminalConnects(t) \/ TerminalDrops(t)

Spec ==
  /\ Init /\ [][Next]_vars
  /\ SF_vars(TakeMessage) /\ SF_vars(PublishMessage)
  /\ WF_vars(onConnect) /\ SF_vars(Deliver) /\ SF_vars(Acknowledge)
  /\ \A t \in Terminals :
       WF_vars(Frame(t)) /\ WF_vars(connectToServer(t)) /\ WF_vars(TerminalConnects(t))

-----------------------------------------------------------------------------
(* Properties                                                              *)

Older(m, n) == m # None /\ n # None /\ m.run = n.run /\ m.revision < n.revision

\* What is waiting to leave the server, oldest first.
Pipeline == out \o (IF worker = None THEN <<>> ELSE <<worker>>) \o queue_

\* The queue holds one message of a terminal, the newest.
TypeOK ==
  /\ wanted \in [Terminals -> Streams] /\ revision_ \in 0 .. MaxRevision
  /\ Len(queue_) <= Cardinality(Terminals) /\ Len(out) <= MaxOut /\ sent \in -1 .. Len(out)
  /\ online \in [Terminals -> BOOLEAN]

\* From the library to the queue, no assignment of a terminal is behind an
\* older one, whatever failed in between.
InOrder ==
  \A i, j \in 1 .. Len(Pipeline) :
    i < j /\ Pipeline[i].topic = Pipeline[j].topic => ~ Older(Pipeline[j], Pipeline[i])

\* Once a connection has carried all that was in flight, repeats included, the
\* broker retains the newest assignment the library was given.
CaughtUp ==
  link = "up" /\ sent = Len(out) => \A t \in Terminals : retained[t] = accepted[t]

\* With frames still coming, every terminal ends on the stream it was last
\* assigned, though publications fail, links and terminals drop and the server
\* restarts - unless the terminal's one connectToServer failed, or the running
\* server could not start its library: neither is ever tried again.
ScreenSettles ==
  \A t \in Terminals :
    \/ <>[](shown[t] # None /\ shown[t].stream = wanted[t])
    \/ <>(loop[t] = "failed") \/ <>[]~library_runs

\* The invariants of the channel: assignments of a topic stay in order, and none
\* accepted is lost.
Safety == TypeOK /\ InOrder /\ CaughtUp

=============================================================================
