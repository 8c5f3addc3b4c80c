---------------------------- MODULE ServerStatus ----------------------------
(***************************************************************************)
(* The publisher that tells on forklift/status/server whether the server   *)
(* is alive (network/result_publisher.hpp in the role ServerStatus): the   *)
(* birth it publishes at each connection, the offline it leaves when it    *)
(* stops, and the will that the broker publishes when it falls silent.     *)
(* All three are retained in one place.                                    *)
(*                                                                         *)
(* The main thread stops while the network thread of libmosquitto goes on  *)
(* with connecting; a process may die at any moment, and the next one      *)
(* start before the broker has noticed.                                    *)
(***************************************************************************)
EXTENDS Integers, Sequences

CONSTANTS
  Ids,        \* client ids: they hold the number of the process
  MaxRuns,    \* bound: starts of the server
  MaxSeq      \* bound: of status_seq_ when a connection is tried

ConstantAssumption == {MaxRuns, MaxSeq} \subseteq Nat

VARIABLES
  run, id,       \* which start this is, and its client id
  phase,         \* of the main thread: "off", "running", or a step of stop()
  mosq,          \* there is a handle
  state,         \* LinkState
  status_seq_,
  socket,        \* "none", "connecting" until the broker's answer is read, "open"
  out,           \* packets of this connection the broker has not read
  ack,           \* the broker's answer is on its way
  session,       \* per id, in the broker: the run it belongs to, 0 if none, and
                 \* whether its connection is alive
  retained,
  crossed,       \* history: the birth came between two steps of stop()
  overtaken      \* history: the will of another id came after the birth

vars == <<run, id, phase, mosq, state, status_seq_, socket, out, ack, session, retained,
          crossed, overtaken>>
processVars == <<run, id, mosq>>
historyVars == <<crossed, overtaken>>

NoSession == [run |-> 0, live |-> FALSE]
Packet(kind, r, s, n) == [kind |-> kind, run |-> r, state |-> s, seq |-> n]
CONNECT == Packet("CONNECT", run, "", 0)
DISCONNECT == Packet("DISCONNECT", run, "", 0)
NoStatus == Packet("PUBLISH", 0, "", 0)

\* Set before the first connection, with the number of the first birth.
Will(r) == Packet("PUBLISH", r, "offline", 1)

\* publishStatus counts, and fails without a connection.
PublishStatus(queue, s) ==
  IF socket = "none" THEN queue
  ELSE Append(queue, Packet("PUBLISH", run, s, status_seq_ + 1))

-----------------------------------------------------------------------------
(* The process                                                             *)

\* No handle, a certificate that cannot be read or no thread: no status at all.
Start ==
  /\ phase = "off" /\ run < MaxRuns /\ run' = run + 1
  /\ id' \in Ids /\ mosq' \in BOOLEAN
  /\ phase' = "running" /\ status_seq_' = 0
  /\ state' = IF mosq' THEN "CONNECTING" ELSE "DISCONNECTED"
  /\ overtaken' = FALSE
  /\ UNCHANGED <<socket, out, ack, session, retained, crossed>>

\* The network thread dials at the start, and again after each failure.
Dial ==
  /\ phase \in {"running", "publish", "disconnect"} /\ mosq /\ socket = "none"
  /\ status_seq_ < MaxSeq
  /\ socket' = "connecting" /\ out' = <<CONNECT>> /\ ack' = FALSE
  /\ UNCHANGED <<processVars, phase, state, status_seq_, session, retained, historyVars>>

\* onConnectCb; running_ is not looked at.
onConnectCb ==
  /\ socket = "connecting" /\ ack /\ ack' = FALSE
  /\ socket' = "open" /\ state' = "CONNECTED"
  /\ status_seq_' = status_seq_ + 1 /\ out' = PublishStatus(out, "online")
  /\ crossed' = IF phase = "disconnect" THEN crossed \cup {run} ELSE crossed
  /\ UNCHANGED <<processVars, phase, session, retained, overtaken>>

Gone(live) == [session EXCEPT ![id] = IF @.run = run THEN [@ EXCEPT !.live = live] ELSE @]

\* onDisconnectCb, or onConnectCb with a refusal: the packets are lost.
Break ==
  /\ socket # "none" /\ socket' = "none" /\ out' = <<>> /\ ack' = FALSE
  /\ state' = IF phase = "running" THEN "CONNECTING" ELSE "DISCONNECTED"
  /\ session' = Gone(FALSE)
  /\ UNCHANGED <<processVars, phase, status_seq_, retained, historyVars>>

StopBegins ==
  /\ phase = "running" /\ phase' = IF mosq THEN "publish" ELSE "off"
  /\ UNCHANGED <<processVars, state, status_seq_, socket, out, ack, session, retained, historyVars>>

\* Bug: the process leaves without a word.
BugFarewell(queue) == queue

Farewell(queue) == PublishStatus(queue, "offline")

StopPublishes ==
  /\ phase = "publish" /\ phase' = "disconnect"
  /\ status_seq_' = status_seq_ + 1 /\ out' = Farewell(out)
  /\ UNCHANGED <<processVars, state, socket, ack, session, retained, historyVars>>

StopDisconnects ==
  /\ phase = "disconnect" /\ phase' = "destroy"
  /\ out' = IF socket = "none" THEN out ELSE Append(out, DISCONNECT)
  /\ UNCHANGED <<processVars, state, status_seq_, socket, ack, session, retained, historyVars>>

\* The last step of stop(): the thread is cancelled with whatever it has not sent.
\* Or the process dies, at any step.
Ends ==
  /\ phase # "off" /\ phase' = "off" /\ mosq' = FALSE /\ state' = "DISCONNECTED"
  /\ socket' = "none" /\ out' = <<>> /\ ack' = FALSE /\ session' = Gone(FALSE)
  /\ UNCHANGED <<run, id, status_seq_, retained, historyVars>>

-----------------------------------------------------------------------------
(* The broker                                                              *)

\* A second connection of an id ends the first, and that publishes its will.
Accept ==
  /\ session' = [session EXCEPT ![id] = [run |-> run, live |-> TRUE]] /\ ack' = TRUE
  /\ retained' = IF session[id].run # 0 THEN Will(session[id].run) ELSE retained
  /\ UNCHANGED overtaken

\* The next packet of the connection.
Read ==
  /\ out # <<>> /\ out' = Tail(out)
  /\ \/ Head(out).kind = "CONNECT" /\ Accept
     \/ /\ Head(out).kind = "PUBLISH" /\ session[id].live
        /\ retained' = Head(out) /\ overtaken' = FALSE /\ UNCHANGED <<session, ack>>
     \/ /\ Head(out).kind = "DISCONNECT"
        /\ session' = [session EXCEPT ![id] = NoSession]
        /\ UNCHANGED <<retained, ack, overtaken>>
     \* Nothing is read after DISCONNECT.
     \/ Head(out).kind = "PUBLISH" /\ ~ session[id].live
        /\ UNCHANGED <<session, retained, ack, overtaken>>
  /\ UNCHANGED <<processVars, phase, state, status_seq_, socket, crossed>>

\* The connection is closed, or the keepalive time has passed.
Notice(i) ==
  /\ session[i].run # 0 /\ ~ session[i].live
  /\ session' = [session EXCEPT ![i] = NoSession] /\ retained' = Will(session[i].run)
  /\ overtaken' = (overtaken \/ session[i].run # run)
  /\ UNCHANGED <<processVars, phase, state, status_seq_, socket, out, ack, crossed>>

-----------------------------------------------------------------------------
Init ==
  /\ run = 0 /\ id \in Ids /\ phase = "off" /\ mosq = FALSE /\ state = "DISCONNECTED"
  /\ status_seq_ = 0 /\ socket = "none" /\ out = <<>> /\ ack = FALSE
  /\ session = [i \in Ids |-> NoSession] /\ retained = NoStatus
  /\ crossed = {} /\ overtaken = FALSE

Next ==
  \/ Start \/ Dial \/ onConnectCb \/ Break
  \/ StopBegins \/ StopPublishes \/ StopDisconnects \/ Ends
  \/ Read \/ \E i \in Ids : Notice(i)

Spec == Init /\ [][Next]_vars

-----------------------------------------------------------------------------
TypeOK ==
  /\ run \in 0 .. MaxRuns /\ id \in Ids
  /\ phase \in {"off", "running", "publish", "disconnect", "destroy"}
  /\ state \in {"DISCONNECTED", "CONNECTING", "CONNECTED"} /\ status_seq_ \in Nat
  /\ socket \in {"none", "connecting", "open"}
  /\ session \in [Ids -> [run : 0 .. MaxRuns, live : BOOLEAN]]

\* Whatever is lost and whenever a process dies, "online" does not stay behind: the
\* broker holds the will of the run it is of.  Except where the birth is published
\* between the two steps of stop(): "offline", "online", DISCONNECT.
OnlineHasWill ==
  retained.state = "online" =>
    (\E i \in Ids : session[i].run = retained.run) \/ retained.run \in crossed

\* A server that is connected, and whose birth has been read, is shown online; except
\* that the will of an earlier process with another client id may come after it.
LiveIsOnline ==
  (phase = "running" /\ socket = "open" /\ out = <<>>) =>
    \/ retained.state = "online" /\ retained.run = run
    \/ overtaken

\* The invariants of the server status.
Safety == TypeOK /\ OnlineHasWill /\ LiveIsOnline

=============================================================================
