-------------------------- MODULE SidePartsProofs --------------------------
(***************************************************************************)
(* Proofs about the parts beside the path from the cameras to the FPGA,    *)
(* for every value of their constants.  Each part has an inductive         *)
(* invariant of its own; the composition runs one part at a time, so a     *)
(* step of it is a step of that part and a stutter of the others, and a    *)
(* theorem about the composition follows from the part's three lemmas.     *)
(***************************************************************************)
EXTENDS MCSideParts, Sequences, FiniteSets, FiniteSetTheorems, SequenceTheorems,
        WellFoundedInduction, TLAPS

-----------------------------------------------------------------------------
\* The server's status (ServerStatus).

Packets ==
  [kind : {"CONNECT", "DISCONNECT", "PUBLISH"}, run : Nat,
   state : {"", "online", "offline"}, seq : Nat]

Dialling == Len(out) > 0 /\ out[1].kind = "CONNECT"
IsBirth(p) == p.kind = "PUBLISH" /\ p.state = "online"
IsBye(p) == p.kind = "PUBLISH" /\ p.state = "offline"
Closed == session[id] = Status!NoSession /\ ~ Dialling

Answered(q, k) ==
  \E j \in 1 .. Len(q) :
    /\ j > k /\ IsBye(q[j])
    /\ \A l \in 1 .. Len(q) : l < j => q[l].kind # "DISCONNECT"

Parted(q, k) == \E l \in 1 .. Len(q) : l < k /\ q[l].kind = "DISCONNECT"

StatusTypes ==
  /\ Status!TypeOK
  /\ mosq \in BOOLEAN /\ ack \in BOOLEAN /\ overtaken \in BOOLEAN
  /\ out \in Seq(Packets)
  /\ retained \in Packets
  /\ MaxStarts \in Nat

LinkInv ==
  /\ phase = "off" => socket = "none"
  /\ phase # "off" => start > 0
  /\ socket = "none" => out = <<>> /\ ~ ack
  /\ \A k \in 1 .. Len(out) :
       /\ out[k].run = start
       /\ out[k].kind = "CONNECT" => k = 1 /\ socket = "connecting" /\ ~ ack
       /\ out[k].kind = "DISCONNECT" => phase = "destroy"
  /\ ack => socket = "connecting"
  /\ socket # "none" => mosq

SessionInv ==
  /\ \A i \in Ids :
       /\ session[i].run <= start
       /\ (session[i].run = start /\ start > 0) => i = id
       /\ session[i].live => i = id /\ session[i].run = start /\ socket # "none"
  /\ (socket # "none" /\ ~ Dialling) =>
       \/ session[id] = [run |-> start, live |-> TRUE]
       \/ session[id] = Status!NoSession /\ phase = "destroy"

RunningInv ==
  (phase = "running" /\ socket # "none") =>
    /\ Len(out) \in {0, 1}
    /\ Len(out) = 1 => Dialling \/ (IsBirth(out[1]) /\ socket = "open")
    /\ (Len(out) = 0 /\ socket = "open") =>
         (retained.state = "online" /\ retained.run = start) \/ overtaken

WillInv ==
  /\ Status!OnlineHasWill
  /\ retained.state = "online" => retained.run > 0

ByeInv ==
  (phase \in {"disconnect", "destroy"} /\ start \notin crossed) =>
    /\ \A k \in 1 .. Len(out) :
         IsBirth(out[k]) => Answered(out, k) \/ Parted(out, k) \/ Closed
    /\ (retained.state = "online" /\ retained.run = start
        /\ socket # "none" /\ ~ Dialling) => Answered(out, 0)

PartedInv ==
  (phase = "destroy" /\ socket # "none") =>
    (\E l \in 1 .. Len(out) : out[l].kind = "DISCONNECT") \/ Closed

StatusInv ==
  /\ StatusTypes /\ LinkInv /\ SessionInv /\ RunningInv /\ WillInv /\ ByeInv /\ PartedInv

-----------------------------------------------------------------------------
(* Queues                                                                  *)

LEMMA QueueGrows ==
  ASSUME NEW q \in Seq(Packets), NEW p \in Packets
  PROVE  /\ Append(q, p) \in Seq(Packets)
         /\ Len(q) \in Nat
         /\ Len(Append(q, p)) = Len(q) + 1
         /\ Append(q, p)[Len(q) + 1] = p
         /\ \A k \in 1 .. Len(q) : Append(q, p)[k] = q[k]
  OBVIOUS

LEMMA QueueShrinks ==
  ASSUME NEW q \in Seq(Packets), q # <<>>
  PROVE  /\ Tail(q) \in Seq(Packets)
         /\ Head(q) = q[1]
         /\ Len(q) \in Nat
         /\ Len(q) > 0
         /\ Len(Tail(q)) = Len(q) - 1
         /\ \A k \in 1 .. Len(q) - 1 : Tail(q)[k] = q[k + 1]
         /\ \A k \in 1 .. Len(q) : q[k] \in Packets
  OBVIOUS

\* What answers a birth, or ends the connection before it, still does so when more
\* is sent, and when what came before it is read.
LEMMA AnswerStays ==
  ASSUME NEW q \in Seq(Packets), NEW p \in Packets, NEW k \in Nat
  PROVE  /\ Answered(q, k) => Answered(Append(q, p), k)
         /\ Parted(q, k) => Parted(Append(q, p), k)
  <1>1. \A l \in 1 .. Len(Append(q, p)) : l < Len(q) + 1 => l \in 1 .. Len(q)
    BY QueueGrows
  <1>2. 1 .. Len(q) \subseteq 1 .. Len(Append(q, p))  BY QueueGrows
  <1>3. ASSUME Answered(q, k) PROVE Answered(Append(q, p), k)
    <2>1. PICK j \in 1 .. Len(q) :
            /\ j > k /\ IsBye(q[j])
            /\ \A l \in 1 .. Len(q) : l < j => q[l].kind # "DISCONNECT"
      BY <1>3 DEF Answered
    <2>2. \A l \in 1 .. Len(Append(q, p)) : l < j => l \in 1 .. Len(q)
      BY QueueGrows
    <2> QED  BY <2>1, <2>2, <1>2, QueueGrows DEF Answered
  <1> QED  BY <1>2, <1>3, QueueGrows DEF Parted

LEMMA AnswerNears ==
  ASSUME NEW q \in Seq(Packets), q # <<>>, NEW k \in Nat
  PROVE  /\ Answered(q, k + 1) => Answered(Tail(q), k)
         /\ (Parted(q, k + 1) /\ q[1].kind # "DISCONNECT") => Parted(Tail(q), k)
  <1>1. ASSUME Answered(q, k + 1) PROVE Answered(Tail(q), k)
    <2>1. PICK j \in 1 .. Len(q) :
            /\ j > k + 1 /\ IsBye(q[j])
            /\ \A l \in 1 .. Len(q) : l < j => q[l].kind # "DISCONNECT"
      BY <1>1 DEF Answered
    <2>2. j - 1 \in 1 .. Len(Tail(q)) /\ j - 1 > k  BY <2>1, QueueShrinks
    <2>3. IsBye(Tail(q)[j - 1])  BY <2>1, <2>2, QueueShrinks
    <2>4. ASSUME NEW l \in 1 .. Len(Tail(q)), l < j - 1
          PROVE  Tail(q)[l].kind # "DISCONNECT"
      <3>1. l + 1 \in 1 .. Len(q) /\ l + 1 < j /\ Tail(q)[l] = q[l + 1]
        BY <2>4, QueueShrinks
      <3> QED  BY <3>1, <2>1
    <2> QED  BY <2>2, <2>3, <2>4 DEF Answered
  <1>2. ASSUME Parted(q, k + 1), q[1].kind # "DISCONNECT" PROVE Parted(Tail(q), k)
    <2>1. PICK l \in 1 .. Len(q) : l < k + 1 /\ q[l].kind = "DISCONNECT"
      BY <1>2 DEF Parted
    <2>2. l - 1 \in 1 .. Len(Tail(q)) /\ l - 1 < k /\ Tail(q)[l - 1] = q[l]
      BY <2>1, <1>2, QueueShrinks
    <2> QED  BY <2>1, <2>2 DEF Parted
  <1> QED  BY <1>1, <1>2

LEMMA StatusNumbers ==
  StatusTypes => start \in Nat /\ status_seq_ \in Nat /\ status_seq_ + 1 \in Nat /\ 0 \in Nat
  BY DEF StatusTypes, Status!TypeOK

-----------------------------------------------------------------------------
(* The process                                                             *)

USE StatusAssumption DEF Status!ConstantAssumption

LEMMA StatusStart == StatusInv /\ Status!Start => StatusInv'
  <1> SUFFICES ASSUME StatusInv, Status!Start PROVE StatusInv'  OBVIOUS
  <1> USE DEF StatusInv
  <1>1. start' = start + 1 /\ start \in Nat /\ phase = "off" /\ socket = "none" /\ out = <<>>
        /\ start' \in 0 .. MaxStarts
    BY DEF Status!Start, StatusTypes, Status!TypeOK, LinkInv
  <1>2. StatusTypes'
    BY <1>1 DEF Status!Start, StatusTypes, Status!TypeOK
  <1>3. LinkInv'  BY <1>1 DEF Status!Start, LinkInv
  <1>4. SessionInv'
    BY <1>1 DEF Status!Start, SessionInv, StatusTypes, Status!TypeOK
  <1>5. RunningInv' /\ ByeInv' /\ PartedInv'
    BY <1>1 DEF Status!Start, RunningInv, ByeInv, PartedInv
  <1>6. WillInv'
    BY DEF Status!Start, WillInv, Status!OnlineHasWill
  <1> QED  BY <1>2, <1>3, <1>4, <1>5, <1>6

LEMMA StatusDial == StatusInv /\ Status!Dial => StatusInv'
  <1> SUFFICES ASSUME StatusInv, Status!Dial PROVE StatusInv'  OBVIOUS
  <1> USE DEF StatusInv
  <1> DEFINE c == Status!CONNECT
  <1>1. c \in Packets /\ c.run = start /\ c.kind = "CONNECT"
    <2>1. c = [kind |-> "CONNECT", run |-> start, state |-> "", seq |-> 0]
      BY DEF Status!CONNECT, Status!Packet
    <2>2. start \in Nat  BY StatusNumbers
    <2> HIDE DEF c
    <2> QED  BY <2>1, <2>2 DEF Packets
  <1>2. out' = <<c>> /\ Len(out') = 1 /\ out'[1] = c /\ out' \in Seq(Packets)
        /\ \A k \in 1 .. Len(out') : k = 1
    BY <1>1 DEF Status!Dial
  <1> HIDE DEF c
  <1>3. StatusTypes'
    BY <1>2 DEF Status!Dial, StatusTypes, Status!TypeOK, Status!processVars, Status!historyVars
  <1>4. LinkInv'
    BY <1>1, <1>2
    DEF Status!Dial, LinkInv, Status!processVars
  <1>5. Dialling'  BY <1>1, <1>2 DEF Dialling
  <1>6. SessionInv'
    BY <1>5 DEF Status!Dial, SessionInv, Status!processVars
  <1>7. RunningInv'
    BY <1>2, <1>5 DEF Status!Dial, RunningInv
  <1>8. ByeInv' /\ PartedInv'
    BY <1>1, <1>2, <1>5 DEF Status!Dial, ByeInv, PartedInv, IsBirth
  <1>9. WillInv'
    BY DEF Status!Dial, WillInv, Status!OnlineHasWill, Status!historyVars
  <1> QED  BY <1>3, <1>4, <1>6, <1>7, <1>8, <1>9

LEMMA StatusConnected == StatusInv /\ Status!onConnectCb => StatusInv'
  <1> SUFFICES ASSUME StatusInv, Status!onConnectCb PROVE StatusInv'  OBVIOUS
  <1> USE DEF StatusInv
  <1> DEFINE p == Status!Packet("PUBLISH", start, "online", status_seq_ + 1)
             q == out
  <1>1. p \in Packets /\ p.run = start /\ p.kind = "PUBLISH" /\ p.state = "online"
    <2>1. p = [kind |-> "PUBLISH", run |-> start, state |-> "online", seq |-> status_seq_ + 1]
      BY DEF Status!Packet
    <2>2. start \in Nat /\ status_seq_ + 1 \in Nat  BY StatusNumbers
    <2> HIDE DEF p
    <2> QED  BY <2>1, <2>2 DEF Packets
  <1>2. out' = Append(out, p) /\ out \in Seq(Packets)
    BY DEF Status!onConnectCb, Status!PublishStatus, StatusTypes
  <1> HIDE DEF p
  <1>3. /\ out' \in Seq(Packets) /\ Len(out) \in Nat
        /\ Len(out') = Len(out) + 1
        /\ out'[Len(out) + 1] = p
        /\ \A k \in 1 .. Len(out) : out'[k] = out[k]
    BY <1>1, <1>2, QueueGrows
  <1>4. ~ Dialling
    BY <1>3 DEF Dialling, LinkInv, Status!onConnectCb
  <1>5. ~ Dialling'
    <2>1. CASE Len(out) = 0  BY <2>1, <1>1, <1>3 DEF Dialling
    <2>2. CASE Len(out) > 0
      <3>1. out'[1] = out[1]  BY <2>2, <1>3
      <3> QED  BY <3>1, <2>2, <1>4 DEF Dialling
    <2> QED  BY <2>1, <2>2, <1>3
  <1>6. StatusTypes'
    <2>1. status_seq_' \in Nat /\ ack' \in BOOLEAN /\ socket' = "open" /\ state' = "CONNECTED"
          /\ start' = start /\ id' = id /\ mosq' = mosq /\ phase' = phase /\ session' = session
          /\ retained' = retained /\ overtaken' = overtaken
      BY StatusNumbers DEF Status!onConnectCb, Status!processVars
    <2> QED  BY <2>1, <1>3 DEF StatusTypes, Status!TypeOK
  <1>7. ASSUME NEW k \in 1 .. Len(out')
        PROVE  \/ k = Len(out) + 1 /\ out'[k] = p
               \/ k \in 1 .. Len(out) /\ out'[k] = out[k]
    <2> DEFINE n == Len(out')
    <2>1. n = Len(out) + 1 /\ n \in Nat /\ k \in 1 .. n  BY <1>3
    <2> HIDE DEF n
    <2>2. k = Len(out) + 1 \/ k \in 1 .. Len(out)  BY <2>1, <1>3
    <2> QED  BY <2>2, <1>3
  <1>8. LinkInv'
    BY <1>1, <1>3, <1>4, <1>7 DEF Status!onConnectCb, LinkInv, Status!processVars, Dialling
  <1>9. SessionInv'
    BY <1>4, <1>5 DEF Status!onConnectCb, SessionInv, Status!processVars, Status!NoSession
  <1>10. RunningInv'
    <2> SUFFICES ASSUME phase' = "running" PROVE RunningInv'  BY DEF RunningInv
    <2>1. phase = "running" /\ socket = "connecting"  BY DEF Status!onConnectCb
    <2>2. Len(out) = 0  BY <2>1, <1>3, <1>4 DEF RunningInv
    <2>3. Len(out') = 1 /\ out'[1] = p  BY <2>2, <1>3
    <2> QED  BY <2>3, <1>1 DEF Status!onConnectCb, RunningInv, IsBirth
  <1>11. WillInv'
    BY DEF Status!onConnectCb, WillInv, Status!OnlineHasWill, Status!processVars
  <1>12. PartedInv'
    BY <1>3, <1>4, <1>5 DEF Status!onConnectCb, PartedInv, Closed, Status!processVars
  <1>13. ByeInv'
    <2> SUFFICES ASSUME phase' \in {"disconnect", "destroy"}, start' \notin crossed'
                 PROVE  ByeInv'
      BY DEF ByeInv
    <2>1. phase = "destroy" /\ start' = start /\ crossed' = crossed /\ id' = id
          /\ session' = session /\ retained' = retained /\ socket # "none" /\ start \notin crossed
      BY DEF Status!onConnectCb, Status!processVars
    <2>2. ASSUME NEW k \in 1 .. Len(out'), IsBirth(out'[k])
          PROVE  Answered(out', k) \/ Parted(out', k) \/ Closed'
      <3>1. CASE k = Len(out) + 1
        <4>1. CASE \E l \in 1 .. Len(out) : out[l].kind = "DISCONNECT"
          BY <4>1, <3>1, <1>3 DEF Parted
        <4>2. CASE Closed
          BY <4>2, <2>1, <1>5 DEF Closed
        <4> QED  BY <4>1, <4>2, <2>1 DEF PartedInv
      <3>2. CASE k \in 1 .. Len(out)
        <4>1. Answered(out, k) \/ Parted(out, k) \/ Closed
          BY <3>2, <2>1, <2>2, <1>3 DEF ByeInv
        <4>2. k \in Nat  BY <3>2
        <4> QED  BY <4>1, <4>2, <1>1, <1>2, <2>1, <1>5, AnswerStays DEF Closed
      <3> QED  BY <3>1, <3>2, <1>3
    <2>3. ASSUME retained.state = "online", retained.run = start
          PROVE  Answered(out', 0)
      <3>1. Answered(out, 0)  BY <2>1, <2>3, <1>4 DEF ByeInv
      <3> QED  BY <3>1, <1>1, <1>2, AnswerStays
    <2> QED  BY <2>1, <2>2, <2>3 DEF ByeInv
  <1> QED  BY <1>6, <1>8, <1>9, <1>10, <1>11, <1>12, <1>13

\* When the socket ends, no session is alive.
LEMMA SessionsEnd ==
  ASSUME StatusTypes, SessionInv
  PROVE  /\ Status!Gone(FALSE) \in [Ids -> [run : 0 .. MaxStarts, live : BOOLEAN]]
         /\ \A i \in Ids :
              /\ Status!Gone(FALSE)[i].run = session[i].run
              /\ ~ Status!Gone(FALSE)[i].live
  <1> DEFINE next == [session[id] EXCEPT !.live = FALSE]
             gone == Status!Gone(FALSE)
  <1>1. session \in [Ids -> [run : 0 .. MaxStarts, live : BOOLEAN]] /\ id \in Ids
    BY DEF StatusTypes, Status!TypeOK
  <1>2. session[id] \in [run : 0 .. MaxStarts, live : BOOLEAN]  BY <1>1
  <1>3. /\ next \in [run : 0 .. MaxStarts, live : BOOLEAN]
        /\ next.run = session[id].run /\ next.live = FALSE
    BY <1>2
  <1>4. gone = [session EXCEPT ![id] = IF session[id].run = start THEN next ELSE session[id]]
    BY DEF Status!Gone
  <1> HIDE DEF next
  <1>5. CASE session[id].run = start
    <2>1. gone = [session EXCEPT ![id] = next]  BY <1>4, <1>5
    <2> HIDE DEF gone
    <2>2. gone \in [Ids -> [run : 0 .. MaxStarts, live : BOOLEAN]]  BY <2>1, <1>1, <1>3
    <2>3. ASSUME NEW i \in Ids PROVE gone[i].run = session[i].run /\ ~ gone[i].live
      <3>1. CASE i = id  BY <3>1, <2>1, <1>1, <1>3
      <3>2. CASE i # id
        <4>1. gone[i] = session[i]  BY <3>2, <2>1, <1>1
        <4> QED  BY <4>1, <3>2 DEF SessionInv
      <3> QED  BY <3>1, <3>2
    <2>4. QED  BY <2>2, <2>3 DEF gone
  <1>6. CASE session[id].run # start
    <2>1. gone = session  BY <1>4, <1>6, <1>1
    <2> HIDE DEF gone
    <2>2. \A i \in Ids : ~ session[i].live  BY <1>6, <1>1 DEF SessionInv
    <2>3. QED  BY <2>1, <2>2, <1>1 DEF gone
  <1> QED  BY <1>5, <1>6

LEMMA StatusBreak == StatusInv /\ Status!Break => StatusInv'
  <1> SUFFICES ASSUME StatusInv, Status!Break PROVE StatusInv'  OBVIOUS
  <1> USE DEF StatusInv
  <1>1. /\ start' = start /\ id' = id /\ mosq' = mosq /\ phase' = phase
        /\ status_seq_' = status_seq_ /\ retained' = retained /\ crossed' = crossed
        /\ overtaken' = overtaken /\ socket' = "none" /\ out' = <<>> /\ ack' = FALSE
        /\ state' \in {"DISCONNECTED", "CONNECTING", "CONNECTED"}
        /\ session' = Status!Gone(FALSE) /\ socket # "none"
    BY DEF Status!Break, Status!processVars, Status!historyVars
  <1>2. /\ session' \in [Ids -> [run : 0 .. MaxStarts, live : BOOLEAN]]
        /\ \A i \in Ids : session'[i].run = session[i].run /\ ~ session'[i].live
    BY <1>1, SessionsEnd
  <1>3. StatusTypes'
    <2>1. out' \in Seq(Packets)  BY <1>1
    <2>2. ack' \in BOOLEAN  BY Zenon, <1>1
    <2> QED  BY <2>1, <2>2, <1>1, <1>2 DEF StatusTypes, Status!TypeOK
  <1>4. LinkInv'  BY <1>1 DEF LinkInv
  <1>5. SessionInv'  BY <1>1, <1>2 DEF SessionInv
  <1>6. RunningInv' /\ PartedInv'  BY <1>1 DEF RunningInv, PartedInv
  <1>7. ByeInv'  BY <1>1 DEF ByeInv
  <1>8. WillInv'  BY <1>1, <1>2 DEF WillInv, Status!OnlineHasWill
  <1> QED  BY <1>3, <1>4, <1>5, <1>6, <1>7, <1>8

LEMMA StatusEnds == StatusInv /\ Status!Ends => StatusInv'
  <1> SUFFICES ASSUME StatusInv, Status!Ends PROVE StatusInv'  OBVIOUS
  <1> USE DEF StatusInv
  <1>1. /\ start' = start /\ id' = id /\ mosq' = FALSE /\ phase' = "off"
        /\ status_seq_' = status_seq_ /\ retained' = retained /\ crossed' = crossed
        /\ overtaken' = overtaken /\ socket' = "none" /\ out' = <<>> /\ ack' = FALSE
        /\ state' = "DISCONNECTED" /\ session' = Status!Gone(FALSE)
    BY DEF Status!Ends, Status!historyVars
  <1>2. /\ session' \in [Ids -> [run : 0 .. MaxStarts, live : BOOLEAN]]
        /\ \A i \in Ids : session'[i].run = session[i].run /\ ~ session'[i].live
    BY <1>1, SessionsEnd
  <1>3. StatusTypes'
    <2>1. out' \in Seq(Packets)  BY <1>1
    <2>2. ack' \in BOOLEAN /\ mosq' \in BOOLEAN  BY Zenon, <1>1
    <2> QED  BY <2>1, <2>2, <1>1, <1>2 DEF StatusTypes, Status!TypeOK
  <1>4. LinkInv'  BY <1>1 DEF LinkInv
  <1>5. SessionInv'  BY <1>1, <1>2 DEF SessionInv
  <1>6. RunningInv' /\ PartedInv'  BY <1>1 DEF RunningInv, PartedInv
  <1>7. ByeInv'  BY <1>1 DEF ByeInv
  <1>8. WillInv'  BY <1>1, <1>2 DEF WillInv, Status!OnlineHasWill
  <1> QED  BY <1>3, <1>4, <1>5, <1>6, <1>7, <1>8

LEMMA StatusStopBegins == StatusInv /\ Status!StopBegins => StatusInv'
  <1> SUFFICES ASSUME StatusInv, Status!StopBegins PROVE StatusInv'  OBVIOUS
  <1> USE DEF StatusInv
  <1>1. /\ start' = start /\ id' = id /\ mosq' = mosq /\ state' = state
        /\ status_seq_' = status_seq_ /\ socket' = socket /\ out' = out /\ ack' = ack
        /\ session' = session /\ retained' = retained /\ crossed' = crossed
        /\ overtaken' = overtaken
        /\ phase = "running" /\ phase' \in {"publish", "off"} /\ (phase' = "off" => ~ mosq)
    BY DEF Status!StopBegins, Status!processVars, Status!historyVars
  <1>2. StatusTypes'  BY <1>1 DEF StatusTypes, Status!TypeOK
  <1>3. LinkInv'  BY <1>1 DEF LinkInv
  <1>4. SessionInv'  BY <1>1 DEF SessionInv, Dialling
  <1>5. RunningInv' /\ PartedInv' /\ ByeInv'  BY <1>1 DEF RunningInv, PartedInv, ByeInv
  <1>6. WillInv'  BY <1>1 DEF WillInv, Status!OnlineHasWill
  <1> QED  BY <1>2, <1>3, <1>4, <1>5, <1>6

LEMMA StatusStopPublishes == StatusInv /\ Status!StopPublishes => StatusInv'
  <1> SUFFICES ASSUME StatusInv, Status!StopPublishes PROVE StatusInv'  OBVIOUS
  <1> USE DEF StatusInv
  <1> DEFINE p == Status!Packet("PUBLISH", start, "offline", status_seq_ + 1)
  <1>1. p \in Packets /\ p.run = start /\ p.kind = "PUBLISH" /\ p.state = "offline"
    <2>1. p = [kind |-> "PUBLISH", run |-> start, state |-> "offline", seq |-> status_seq_ + 1]
      BY DEF Status!Packet
    <2>2. start \in Nat /\ status_seq_ + 1 \in Nat  BY StatusNumbers
    <2> HIDE DEF p
    <2> QED  BY <2>1, <2>2 DEF Packets
  <1>2. /\ start' = start /\ id' = id /\ mosq' = mosq /\ state' = state
        /\ status_seq_' = status_seq_ + 1 /\ socket' = socket /\ ack' = ack
        /\ session' = session /\ retained' = retained /\ crossed' = crossed
        /\ overtaken' = overtaken /\ phase = "publish" /\ phase' = "disconnect"
        /\ out' = IF socket = "none" THEN out ELSE Append(out, p)
    BY DEF Status!StopPublishes, Status!Farewell, Status!PublishStatus,
           Status!processVars, Status!historyVars
  <1>3. out \in Seq(Packets)  BY DEF StatusTypes
  <1> HIDE DEF p
  <1>4. CASE socket = "none"
    <2>1. out' = out  BY <1>2, <1>4
    <2>2. StatusTypes'
      BY <1>2, <2>1, StatusNumbers DEF StatusTypes, Status!TypeOK
    <2>3. LinkInv'  BY <1>2, <2>1, <1>4 DEF LinkInv
    <2>4. SessionInv'  BY <1>2, <1>4 DEF SessionInv
    <2>5. RunningInv' /\ PartedInv'  BY <1>2 DEF RunningInv, PartedInv
    <2>6. ByeInv'
      <3>1. Len(out') = 0  BY <2>1, <1>4 DEF LinkInv
      <3> QED  BY <3>1, <1>2, <1>4 DEF ByeInv
    <2>7. WillInv'  BY <1>2 DEF WillInv, Status!OnlineHasWill
    <2> QED  BY <2>2, <2>3, <2>4, <2>5, <2>6, <2>7
  <1>5. CASE socket # "none"
    <2>1. out' = Append(out, p)  BY <1>2, <1>5
    <2>2. /\ out' \in Seq(Packets) /\ Len(out) \in Nat
          /\ Len(out') = Len(out) + 1
          /\ out'[Len(out) + 1] = p
          /\ \A k \in 1 .. Len(out) : out'[k] = out[k]
      BY <1>1, <1>3, <2>1, QueueGrows
    <2>3. ASSUME NEW k \in 1 .. Len(out')
          PROVE  \/ k = Len(out) + 1 /\ out'[k] = p
                 \/ k \in 1 .. Len(out) /\ out'[k] = out[k]
      <3> DEFINE n == Len(out')
      <3>1. n = Len(out) + 1 /\ n \in Nat /\ k \in 1 .. n  BY <2>2
      <3> HIDE DEF n
      <3>2. k = Len(out) + 1 \/ k \in 1 .. Len(out)  BY <3>1, <2>2
      <3> QED  BY <3>2, <2>2
    <2>4. Dialling' <=> Dialling
      <3>1. CASE Len(out) = 0  BY <3>1, <1>1, <2>2 DEF Dialling
      <3>2. CASE Len(out) > 0
        <4>1. out'[1] = out[1]  BY <3>2, <2>2
        <4> QED  BY <4>1, <3>2, <2>2 DEF Dialling
      <3> QED  BY <3>1, <3>2, <2>2
    <2>5. StatusTypes'
      BY <1>2, <2>2, StatusNumbers DEF StatusTypes, Status!TypeOK
    <2>6. LinkInv'
      <3>1. \A k \in 1 .. Len(out') :
              /\ out'[k].run = start
              /\ out'[k].kind = "CONNECT" => k = 1 /\ socket = "connecting" /\ ~ ack
              /\ out'[k].kind # "DISCONNECT"
        BY <1>1, <1>2, <2>3 DEF LinkInv
      <3> QED  BY <3>1, <1>2, <1>5 DEF LinkInv
    <2>7. SessionInv'  BY <1>2, <2>4 DEF SessionInv, Status!NoSession
    <2>8. RunningInv' /\ PartedInv'  BY <1>2 DEF RunningInv, PartedInv
    <2>9. ByeInv'
      <3>1. \A l \in 1 .. Len(out') : out'[l].kind # "DISCONNECT"
        BY <1>1, <1>2, <2>3 DEF LinkInv
      <3>2. Len(out) + 1 \in 1 .. Len(out') /\ IsBye(out'[Len(out) + 1])
        BY <2>2, <1>1 DEF IsBye
      <3>3. \A k \in 0 .. Len(out) : Answered(out', k)
        BY <3>1, <3>2, <2>2 DEF Answered
      <3>4. \A k \in 1 .. Len(out') : IsBirth(out'[k]) => k \in 0 .. Len(out)
        BY <2>3, <1>1, <2>2 DEF IsBirth
      <3>5. 0 \in 0 .. Len(out)  BY <2>2
      <3> QED  BY <3>3, <3>4, <3>5 DEF ByeInv
    <2>10. WillInv'  BY <1>2 DEF WillInv, Status!OnlineHasWill
    <2> QED  BY <2>5, <2>6, <2>7, <2>8, <2>9, <2>10
  <1> QED  BY <1>4, <1>5

LEMMA StatusStopDisconnects == StatusInv /\ Status!StopDisconnects => StatusInv'
  <1> SUFFICES ASSUME StatusInv, Status!StopDisconnects PROVE StatusInv'  OBVIOUS
  <1> USE DEF StatusInv
  <1> DEFINE p == Status!DISCONNECT
  <1>1. p \in Packets /\ p.run = start /\ p.kind = "DISCONNECT"
    <2>1. p = [kind |-> "DISCONNECT", run |-> start, state |-> "", seq |-> 0]
      BY DEF Status!DISCONNECT, Status!Packet
    <2>2. start \in Nat  BY StatusNumbers
    <2> HIDE DEF p
    <2> QED  BY <2>1, <2>2 DEF Packets
  <1>2. /\ start' = start /\ id' = id /\ mosq' = mosq /\ state' = state
        /\ status_seq_' = status_seq_ /\ socket' = socket /\ ack' = ack
        /\ session' = session /\ retained' = retained /\ crossed' = crossed
        /\ overtaken' = overtaken /\ phase = "disconnect" /\ phase' = "destroy"
        /\ out' = IF socket = "none" THEN out ELSE Append(out, p)
    BY DEF Status!StopDisconnects, Status!processVars, Status!historyVars
  <1>3. out \in Seq(Packets)  BY DEF StatusTypes
  <1> HIDE DEF p
  <1>4. CASE socket = "none"
    <2>1. out' = out  BY <1>2, <1>4
    <2>2. StatusTypes'  BY <1>2, <2>1 DEF StatusTypes, Status!TypeOK
    <2>3. LinkInv'  BY <1>2, <2>1, <1>4 DEF LinkInv
    <2>4. SessionInv'  BY <1>2, <1>4 DEF SessionInv
    <2>5. RunningInv' /\ PartedInv'  BY <1>2, <1>4 DEF RunningInv, PartedInv
    <2>6. ByeInv'
      <3>1. Len(out') = 0  BY <2>1, <1>4 DEF LinkInv
      <3> QED  BY <3>1, <1>2, <1>4 DEF ByeInv
    <2>7. WillInv'  BY <1>2 DEF WillInv, Status!OnlineHasWill
    <2> QED  BY <2>2, <2>3, <2>4, <2>5, <2>6, <2>7
  <1>5. CASE socket # "none"
    <2>1. out' = Append(out, p)  BY <1>2, <1>5
    <2>2. /\ out' \in Seq(Packets) /\ Len(out) \in Nat
          /\ Len(out') = Len(out) + 1
          /\ out'[Len(out) + 1] = p
          /\ \A k \in 1 .. Len(out) : out'[k] = out[k]
      BY <1>1, <1>3, <2>1, QueueGrows
    <2>3. ASSUME NEW k \in 1 .. Len(out')
          PROVE  \/ k = Len(out) + 1 /\ out'[k] = p
                 \/ k \in 1 .. Len(out) /\ out'[k] = out[k]
      <3> DEFINE n == Len(out')
      <3>1. n = Len(out) + 1 /\ n \in Nat /\ k \in 1 .. n  BY <2>2
      <3> HIDE DEF n
      <3>2. k = Len(out) + 1 \/ k \in 1 .. Len(out)  BY <3>1, <2>2
      <3> QED  BY <3>2, <2>2
    <2>4. Dialling' <=> Dialling
      <3>1. CASE Len(out) = 0  BY <3>1, <1>1, <2>2 DEF Dialling
      <3>2. CASE Len(out) > 0
        <4>1. out'[1] = out[1]  BY <3>2, <2>2
        <4> QED  BY <4>1, <3>2, <2>2 DEF Dialling
      <3> QED  BY <3>1, <3>2, <2>2
    <2>5. StatusTypes'
      BY <1>2, <2>2 DEF StatusTypes, Status!TypeOK
    <2>6. LinkInv'
      <3>1. \A k \in 1 .. Len(out') :
              /\ out'[k].run = start
              /\ out'[k].kind = "CONNECT" => k = 1 /\ socket = "connecting" /\ ~ ack
        BY <1>1, <2>3 DEF LinkInv
      <3> QED  BY <3>1, <1>2, <1>5 DEF LinkInv
    <2>7. SessionInv'  BY <1>2, <2>4 DEF SessionInv, Status!NoSession
    <2>8. RunningInv'  BY <1>2 DEF RunningInv
    <2>9. PartedInv'
      <3>1. Len(out) + 1 \in 1 .. Len(out')  BY <2>2
      <3> QED  BY <3>1, <2>2, <1>1 DEF PartedInv
    <2>10. ByeInv'
      <3> SUFFICES ASSUME start \notin crossed PROVE ByeInv'  BY <1>2 DEF ByeInv
      <3>1. ASSUME NEW k \in 1 .. Len(out'), IsBirth(out'[k])
            PROVE  Answered(out', k) \/ Parted(out', k) \/ Closed'
        <4>1. k \in 1 .. Len(out) /\ out'[k] = out[k] /\ k \in Nat
          BY <2>3, <3>1, <1>1 DEF IsBirth
        <4>2. Answered(out, k) \/ Parted(out, k) \/ Closed
          BY <4>1, <3>1, <1>2 DEF ByeInv
        <4>3. Closed => Closed'  BY <2>4, <1>2 DEF Closed, Status!NoSession
        <4> QED  BY <4>1, <4>2, <4>3, <2>1, <1>1, <1>3, AnswerStays
      <3>2. ASSUME retained.state = "online", retained.run = start, ~ Dialling
            PROVE  Answered(out', 0)
        <4>1. Answered(out, 0)  BY <3>2, <1>2, <1>5 DEF ByeInv
        <4> QED  BY <4>1, <2>1, <1>1, <1>3, AnswerStays
      <3> QED  BY <3>1, <3>2, <2>4, <1>2 DEF ByeInv
    <2>11. WillInv'  BY <1>2 DEF WillInv, Status!OnlineHasWill
    <2> QED  BY <2>5, <2>6, <2>7, <2>8, <2>9, <2>10, <2>11
  <1> QED  BY <1>4, <1>5

-----------------------------------------------------------------------------
(* The broker                                                              *)

\* What every packet that is read leaves behind.
LEMMA StatusRead ==
  ASSUME StatusInv, Status!Read
  PROVE  /\ start' = start /\ id' = id /\ mosq' = mosq /\ phase' = phase /\ state' = state
         /\ status_seq_' = status_seq_ /\ socket' = socket /\ crossed' = crossed
         /\ socket # "none" /\ phase # "off" /\ start > 0 /\ mosq
         /\ out \in Seq(Packets) /\ out # <<>> /\ out' = Tail(out)
         /\ out' \in Seq(Packets)
         /\ Len(out) \in Nat /\ Len(out) > 0 /\ Len(out') = Len(out) - 1
         /\ \A k \in 1 .. Len(out') :
              k + 1 \in 1 .. Len(out) /\ k \in Nat /\ out'[k] = out[k + 1]
         /\ Head(out) = out[1] /\ out[1] \in Packets
         /\ out[1].run = start
         /\ ~ Dialling'
         /\ \A k \in 1 .. Len(out') :
              /\ out'[k].run = start
              /\ out'[k].kind # "CONNECT"
              /\ out'[k].kind = "DISCONNECT" => phase = "destroy"
  <1> USE DEF StatusInv
  <1>1. /\ start' = start /\ id' = id /\ mosq' = mosq /\ phase' = phase /\ state' = state
        /\ status_seq_' = status_seq_ /\ socket' = socket /\ crossed' = crossed
        /\ out # <<>> /\ out' = Tail(out)
    BY DEF Status!Read, Status!processVars
  <1>2. out \in Seq(Packets)  BY DEF StatusTypes
  <1>3. socket # "none" /\ phase # "off" /\ start > 0 /\ mosq  BY <1>1 DEF LinkInv
  <1>4. /\ out' \in Seq(Packets) /\ Head(out) = out[1]
        /\ Len(out) \in Nat /\ Len(out) > 0 /\ Len(out') = Len(out) - 1
        /\ \A k \in 1 .. Len(out) - 1 : out'[k] = out[k + 1]
        /\ out[1] \in Packets
    BY <1>1, <1>2, QueueShrinks
  <1>5. \A k \in 1 .. Len(out') : k + 1 \in 1 .. Len(out) /\ k \in Nat /\ out'[k] = out[k + 1]
    BY <1>4
  <1>6. 1 \in 1 .. Len(out)  BY <1>4
  <1>7. out[1].run = start  BY <1>6 DEF LinkInv
  <1>8. ASSUME NEW k \in 1 .. Len(out')
        PROVE  /\ out'[k].run = start
               /\ out'[k].kind # "CONNECT"
               /\ out'[k].kind = "DISCONNECT" => phase = "destroy"
    <2>1. k + 1 \in 1 .. Len(out) /\ k + 1 # 1 /\ out'[k] = out[k + 1]  BY <1>5
    <2> QED  BY <2>1 DEF LinkInv
  <1>9. ~ Dialling'
    <2>1. ASSUME Len(out') > 0 PROVE out'[1].kind # "CONNECT"
      <3>1. 1 \in 1 .. Len(out')  BY <2>1, <1>4
      <3> QED  BY <3>1, <1>8
    <2> QED  BY <2>1 DEF Dialling
  <1> QED  BY <1>1, <1>2, <1>3, <1>4, <1>5, <1>7, <1>8, <1>9

LEMMA StatusAccept ==
  ASSUME StatusInv, Status!Read, out[1].kind = "CONNECT", Status!Accept
  PROVE  StatusInv'
  <1> USE DEF StatusInv
  <1> USE StatusRead
  <1> DEFINE w == Status!Will(session[id].run)
             s == [run |-> start, live |-> TRUE]
  <1>1. /\ session' = [session EXCEPT ![id] = s] /\ ack' = TRUE /\ overtaken' = overtaken
        /\ retained' = IF session[id].run # 0 THEN w ELSE retained
    BY DEF Status!Accept
  <1>2. /\ session \in [Ids -> [run : 0 .. MaxStarts, live : BOOLEAN]] /\ id \in Ids
        /\ start \in 0 .. MaxStarts /\ session[id].run \in Nat /\ retained \in Packets
    BY DEF StatusTypes, Status!TypeOK
  <1>3. w \in Packets /\ w.state = "offline"
    <2>1. w = [kind |-> "PUBLISH", run |-> session[id].run, state |-> "offline", seq |-> 1]
      BY DEF Status!Will, Status!Packet
    <2> HIDE DEF w
    <2> QED  BY <2>1, <1>2 DEF Packets
  <1>4. s \in [run : 0 .. MaxStarts, live : BOOLEAN] /\ s.run = start /\ s.live = TRUE
    BY <1>2
  <1>5. Dialling /\ socket = "connecting"
    <2>1. 1 \in 1 .. Len(out)  OBVIOUS
    <2> QED  BY <2>1 DEF Dialling, LinkInv
  <1> HIDE DEF w
  <1>6. /\ session' \in [Ids -> [run : 0 .. MaxStarts, live : BOOLEAN]]
        /\ session'[id] = s
        /\ \A i \in Ids : i # id => session'[i] = session[i]
    <2> HIDE DEF s
    <2> QED  BY <1>1, <1>2, <1>4
  <1>7. retained' \in Packets  BY <1>1, <1>2, <1>3
  <1>8. StatusTypes'
    <2>1. ack' \in BOOLEAN  BY Zenon, <1>1
    <2> QED  BY <2>1, <1>1, <1>6, <1>7 DEF StatusTypes, Status!TypeOK
  <1>9. LinkInv'  BY <1>1, <1>5 DEF LinkInv
  <1>10. SessionInv'
    <2>1. ASSUME NEW i \in Ids
          PROVE  /\ session'[i].run <= start
                 /\ session'[i].run = start => i = id
                 /\ session'[i].live => i = id /\ session'[i].run = start
      <3>1. CASE i = id
        BY <3>1, <1>6, <1>4, <1>2
      <3>2. CASE i # id
        BY <3>2, <1>6 DEF SessionInv
      <3> QED  BY <3>1, <3>2
    <2> QED  BY <2>1, <1>6, <1>2 DEF SessionInv
  <1>11. RunningInv'
    <2>1. phase = "running" => Len(out') = 0  BY DEF RunningInv
    <2> QED  BY <2>1, <1>5 DEF RunningInv
  <1>12. WillInv'
    <2> SUFFICES ASSUME retained'.state = "online" PROVE WillInv'
      BY DEF WillInv, Status!OnlineHasWill
    <2>1. session[id].run = 0 /\ retained' = retained  BY <1>1, <1>3
    <2>2. retained.run > 0 /\ Status!OnlineHasWill  BY <2>1 DEF WillInv
    <2>3. CASE retained.run \in crossed
      BY <2>1, <2>2, <2>3 DEF WillInv, Status!OnlineHasWill
    <2>4. CASE retained.run \notin crossed
      <3>1. PICK i \in Ids : session[i].run = retained.run
        BY <2>1, <2>2, <2>4 DEF Status!OnlineHasWill
      <3>2. session'[i].run = retained.run  BY <3>1, <2>1, <2>2, <1>6
      <3> QED  BY <3>2, <2>1, <2>2 DEF WillInv, Status!OnlineHasWill
    <2> QED  BY <2>3, <2>4
  <1>13. ByeInv'
    <2> SUFFICES ASSUME phase \in {"disconnect", "destroy"}, start \notin crossed
                 PROVE  ByeInv'
      BY DEF ByeInv
    <2>1. ASSUME NEW k \in 1 .. Len(out'), IsBirth(out'[k])
          PROVE  Answered(out', k) \/ Parted(out', k)
      <3>1. k + 1 \in 1 .. Len(out) /\ k \in Nat /\ IsBirth(out[k + 1])  BY <2>1
      <3>2. Answered(out, k + 1) \/ Parted(out, k + 1)
        BY <3>1, <1>5 DEF ByeInv, Closed
      <3> QED  BY <3>1, <3>2, AnswerNears
    <2>2. ~ (retained'.state = "online" /\ retained'.run = start)
      <3> SUFFICES ASSUME retained'.state = "online", retained'.run = start PROVE FALSE
        OBVIOUS
      <3>1. session[id].run = 0 /\ retained' = retained  BY <1>1, <1>3
      <3>2. PICK i \in Ids : session[i].run = start
        BY <3>1 DEF WillInv, Status!OnlineHasWill
      <3>3. i = id  BY <3>2 DEF SessionInv
      <3> QED  BY <3>1, <3>2, <3>3
    <2> QED  BY <2>1, <2>2 DEF ByeInv
  <1>14. PartedInv'
    <2> SUFFICES ASSUME phase = "destroy" PROVE PartedInv'  BY DEF PartedInv
    <2>1. PICK l \in 1 .. Len(out) : out[l].kind = "DISCONNECT"
      BY <1>5 DEF PartedInv, Closed
    <2>2. l - 1 \in 1 .. Len(out') /\ out'[l - 1] = out[l]
      BY <2>1
    <2> QED  BY <2>1, <2>2 DEF PartedInv
  <1> QED  BY <1>8, <1>9, <1>10, <1>11, <1>12, <1>13, <1>14

\* What is read with the connection established: what is left of it.
LEMMA StatusReadOn ==
  ASSUME StatusInv, Status!Read, out[1].kind # "CONNECT"
  PROVE  /\ ~ Dialling
         /\ \A k \in Nat : Answered(out, k + 1) => Answered(out', k)
         /\ \A k \in Nat :
              (Parted(out, k + 1) /\ out[1].kind # "DISCONNECT") => Parted(out', k)
         /\ (Answered(out, 0) /\ ~ IsBye(out[1])) => Answered(out', 0)
  <1> USE StatusRead
  <1>1. ~ Dialling  BY DEF Dialling
  <1>2. ASSUME NEW k \in Nat
        PROVE  /\ Answered(out, k + 1) => Answered(out', k)
               /\ (Parted(out, k + 1) /\ out[1].kind # "DISCONNECT") => Parted(out', k)
    BY AnswerNears
  <1>3. ASSUME Answered(out, 0), ~ IsBye(out[1]) PROVE Answered(out', 0)
    <2>1. PICK j \in 1 .. Len(out) :
            /\ j > 0 /\ IsBye(out[j])
            /\ \A l \in 1 .. Len(out) : l < j => out[l].kind # "DISCONNECT"
      BY <1>3 DEF Answered
    <2>2. j > 0 + 1  BY <2>1, <1>3
    <2>3. Answered(out, 0 + 1)  BY <2>1, <2>2 DEF Answered
    <2> QED  BY <2>3, <1>2
  <1> QED  BY <1>1, <1>2, <1>3

LEMMA StatusReadStatus ==
  ASSUME StatusInv, Status!Read, out[1].kind = "PUBLISH", session[id].live,
         retained' = out[1], overtaken' = FALSE, session' = session, ack' = ack
  PROVE  StatusInv'
  <1> USE DEF StatusInv
  <1> USE StatusRead
  <1>1. id \in Ids /\ session[id].run = start /\ start \in Nat /\ ~ Dialling
    BY StatusReadOn, StatusNumbers DEF SessionInv, StatusTypes, Status!TypeOK
  <1>2. 1 \in 1 .. Len(out)  OBVIOUS
  <1>3. session[id] # Status!NoSession
    BY <1>1 DEF Status!NoSession
  <1>4. StatusTypes'
    <2>1. overtaken' \in BOOLEAN  BY Zenon
    <2> QED  BY <2>1 DEF StatusTypes, Status!TypeOK
  <1>5. LinkInv'  BY DEF LinkInv
  <1>6. SessionInv'  BY <1>1 DEF SessionInv, Status!NoSession
  <1>7. RunningInv'
    <2> SUFFICES ASSUME phase = "running" PROVE RunningInv'  BY DEF RunningInv
    <2>1. Len(out) = 1 /\ IsBirth(out[1])  BY <1>1 DEF RunningInv
    <2> QED  BY <2>1 DEF RunningInv, IsBirth
  <1>8. WillInv'  BY <1>1 DEF WillInv, Status!OnlineHasWill
  <1>9. ByeInv'
    <2> SUFFICES ASSUME phase \in {"disconnect", "destroy"}, start \notin crossed
                 PROVE  ByeInv'
      BY DEF ByeInv
    <2>1. \A k \in 1 .. Len(out) : IsBirth(out[k]) => Answered(out, k) \/ Parted(out, k)
      BY <1>3 DEF ByeInv, Closed
    <2>2. ASSUME NEW k \in 1 .. Len(out'), IsBirth(out'[k])
          PROVE  Answered(out', k) \/ Parted(out', k)
      <3>1. k + 1 \in 1 .. Len(out) /\ k \in Nat /\ IsBirth(out[k + 1])  BY <2>2
      <3>2. Answered(out, k + 1) \/ Parted(out, k + 1)  BY <3>1, <2>1
      <3> QED  BY <3>1, <3>2, StatusReadOn
    <2>3. ASSUME out[1].state = "online" PROVE Answered(out', 0)
      <3>1. IsBirth(out[1])  BY <2>3 DEF IsBirth
      <3>2. ~ Parted(out, 1)  BY DEF Parted
      <3>3. Answered(out, 0 + 1)  BY <3>1, <3>2, <2>1, <1>2
      <3> QED  BY <3>3, StatusReadOn
    <2> QED  BY <2>2, <2>3 DEF ByeInv
  <1>10. PartedInv'
    <2> SUFFICES ASSUME phase = "destroy" PROVE PartedInv'  BY DEF PartedInv
    <2>1. PICK l \in 1 .. Len(out) : out[l].kind = "DISCONNECT"
      BY <1>3 DEF PartedInv, Closed
    <2>2. l - 1 \in 1 .. Len(out') /\ out'[l - 1] = out[l]  BY <2>1
    <2> QED  BY <2>1, <2>2 DEF PartedInv
  <1> QED  BY <1>4, <1>5, <1>6, <1>7, <1>8, <1>9, <1>10

LEMMA StatusReadLast ==
  ASSUME StatusInv, Status!Read, out[1].kind = "DISCONNECT",
         session' = [session EXCEPT ![id] = Status!NoSession],
         retained' = retained, ack' = ack, overtaken' = overtaken
  PROVE  StatusInv'
  <1> USE DEF StatusInv
  <1> USE StatusRead
  <1>1. 1 \in 1 .. Len(out)  OBVIOUS
  <1>2. phase = "destroy" /\ ~ Dialling  BY <1>1, StatusReadOn DEF LinkInv
  <1>3. /\ session \in [Ids -> [run : 0 .. MaxStarts, live : BOOLEAN]] /\ id \in Ids
        /\ start \in Nat /\ MaxStarts \in Nat
    BY StatusNumbers DEF StatusTypes, Status!TypeOK
  <1> DEFINE s == Status!NoSession
  <1>4. s \in [run : 0 .. MaxStarts, live : BOOLEAN] /\ s.run = 0 /\ s.live = FALSE
    BY <1>3 DEF Status!NoSession
  <1> HIDE DEF s
  <1>5. /\ session' \in [Ids -> [run : 0 .. MaxStarts, live : BOOLEAN]]
        /\ session'[id] = s
        /\ \A i \in Ids : i # id => session'[i] = session[i]
    <2>1. session' = [session EXCEPT ![id] = s]  BY DEF s
    <2> QED  BY <2>1, <1>3, <1>4
  <1>6. StatusTypes'  BY <1>5 DEF StatusTypes, Status!TypeOK
  <1>7. LinkInv'  BY DEF LinkInv
  <1>8. Closed'  BY <1>5 DEF Closed, s, Status!NoSession
  <1>9. SessionInv'
    <2>1. ASSUME NEW i \in Ids
          PROVE  /\ session'[i].run <= start
                 /\ session'[i].run = start => i = id
                 /\ session'[i].live => i = id /\ session'[i].run = start
      <3>1. CASE i = id  BY <3>1, <1>5, <1>4, <1>3
      <3>2. CASE i # id  BY <3>2, <1>5 DEF SessionInv
      <3> QED  BY <3>1, <3>2
    <2> QED  BY <2>1, <1>2, <1>8 DEF SessionInv, Closed
  <1>10. RunningInv'  BY <1>2 DEF RunningInv
  <1>11. start \notin crossed => ~ (retained.state = "online" /\ retained.run = start)
    <2> SUFFICES ASSUME start \notin crossed, retained.state = "online", retained.run = start
                 PROVE  FALSE
      OBVIOUS
    <2>1. Answered(out, 0)  BY <1>2 DEF ByeInv
    <2> QED  BY <2>1, <1>1 DEF Answered, IsBye
  <1>12. WillInv'
    <2> SUFFICES ASSUME retained.state = "online" PROVE WillInv'
      BY DEF WillInv, Status!OnlineHasWill
    <2>1. retained.run > 0 /\ Status!OnlineHasWill  BY DEF WillInv
    <2>2. CASE retained.run \in crossed
      BY <2>1, <2>2 DEF WillInv, Status!OnlineHasWill
    <2>3. CASE retained.run \notin crossed
      <3>1. PICK i \in Ids : session[i].run = retained.run
        BY <2>1, <2>3 DEF Status!OnlineHasWill
      <3>2. i # id
        <4>1. retained.run # start  BY <1>11, <2>3
        <4>2. session[id] = [run |-> start, live |-> TRUE] \/ session[id] = Status!NoSession
          BY <1>2 DEF SessionInv
        <4>3. session[id].run = start \/ session[id].run = 0
          BY <4>2 DEF Status!NoSession
        <4> QED  BY <4>1, <4>3, <3>1, <2>1
      <3> QED  BY <3>1, <3>2, <2>1, <1>5 DEF WillInv, Status!OnlineHasWill
    <2> QED  BY <2>2, <2>3
  <1>13. ByeInv' /\ PartedInv'  BY <1>8, <1>11 DEF ByeInv, PartedInv
  <1> QED  BY <1>6, <1>7, <1>9, <1>10, <1>12, <1>13

\* Nothing is read after DISCONNECT.
LEMMA StatusReadNothing ==
  ASSUME StatusInv, Status!Read, out[1].kind = "PUBLISH", ~ session[id].live,
         session' = session, retained' = retained, ack' = ack, overtaken' = overtaken
  PROVE  StatusInv'
  <1> USE DEF StatusInv
  <1> USE StatusRead
  <1>1. ~ Dialling  BY StatusReadOn
  <1>2. session[id] = Status!NoSession /\ phase = "destroy"
    BY <1>1 DEF SessionInv
  <1>3. Closed /\ Closed'  BY <1>1, <1>2 DEF Closed, Status!NoSession
  <1>4. StatusTypes'  BY DEF StatusTypes, Status!TypeOK
  <1>5. LinkInv'  BY DEF LinkInv
  <1>6. SessionInv'  BY <1>1 DEF SessionInv, Status!NoSession
  <1>7. RunningInv'  BY <1>2 DEF RunningInv
  <1>8. WillInv'  BY DEF WillInv, Status!OnlineHasWill
  <1>9. PartedInv'  BY <1>3 DEF PartedInv
  <1>10. ByeInv'
    <2>1. start \notin crossed => ~ (retained.state = "online" /\ retained.run = start)
      <3>1. \A i \in Ids : session[i].run # start
        BY <1>2 DEF SessionInv, Status!NoSession
      <3> QED  BY <3>1 DEF WillInv, Status!OnlineHasWill
    <2> QED  BY <2>1, <1>3 DEF ByeInv
  <1> QED  BY <1>4, <1>5, <1>6, <1>7, <1>8, <1>9, <1>10

\* The will of a session that is gone.
LEMMA StatusNotice ==
  ASSUME NEW i \in Ids, StatusInv, Status!Notice(i)
  PROVE  StatusInv'
  <1> USE DEF StatusInv
  <1> DEFINE w == Status!Will(session[i].run)
             s == Status!NoSession
  <1>1. /\ start' = start /\ id' = id /\ mosq' = mosq /\ phase' = phase /\ state' = state
        /\ status_seq_' = status_seq_ /\ socket' = socket /\ out' = out /\ ack' = ack
        /\ crossed' = crossed
        /\ session[i].run # 0 /\ ~ session[i].live
        /\ session' = [session EXCEPT ![i] = s] /\ retained' = w
        /\ overtaken' = (overtaken \/ session[i].run # start)
    BY DEF Status!Notice, Status!processVars
  <1>2. /\ session \in [Ids -> [run : 0 .. MaxStarts, live : BOOLEAN]] /\ id \in Ids
        /\ start \in Nat /\ MaxStarts \in Nat /\ session[i].run \in Nat
    BY StatusNumbers DEF StatusTypes, Status!TypeOK
  <1>3. w \in Packets /\ w.state = "offline"
    <2>1. w = [kind |-> "PUBLISH", run |-> session[i].run, state |-> "offline", seq |-> 1]
      BY DEF Status!Will, Status!Packet
    <2> HIDE DEF w
    <2> QED  BY <2>1, <1>2 DEF Packets
  <1>4. s \in [run : 0 .. MaxStarts, live : BOOLEAN] /\ s.run = 0 /\ s.live = FALSE
    BY <1>2 DEF Status!NoSession
  <1> HIDE DEF w, s
  <1>5. /\ session' \in [Ids -> [run : 0 .. MaxStarts, live : BOOLEAN]]
        /\ session'[i] = s
        /\ \A j \in Ids : j # i => session'[j] = session[j]
    BY <1>1, <1>2, <1>4
  <1>6. Dialling' <=> Dialling  BY <1>1 DEF Dialling
  <1>7. (socket # "none" /\ ~ Dialling /\ i = id) => FALSE
    <2> SUFFICES ASSUME socket # "none", ~ Dialling, i = id PROVE FALSE  OBVIOUS
    <2>1. session[id] = [run |-> start, live |-> TRUE] \/ session[id] = Status!NoSession
      BY DEF SessionInv
    <2> QED  BY <2>1, <1>1 DEF Status!NoSession
  <1>8. StatusTypes'
    <2>1. overtaken' \in BOOLEAN  BY Zenon, <1>1
    <2> QED  BY <2>1, <1>1, <1>3, <1>5 DEF StatusTypes, Status!TypeOK
  <1>9. LinkInv'  BY <1>1 DEF LinkInv
  <1>10. SessionInv'
    <2>1. ASSUME NEW j \in Ids
          PROVE  /\ session'[j].run <= start
                 /\ (session'[j].run = start /\ start > 0) => j = id
                 /\ session'[j].live => j = id /\ session'[j].run = start /\ socket # "none"
      <3>1. CASE j = i  BY <3>1, <1>5, <1>4, <1>2
      <3>2. CASE j # i  BY <3>2, <1>5 DEF SessionInv
      <3> QED  BY <3>1, <3>2
    <2>2. (socket # "none" /\ ~ Dialling) => session'[id] = session[id]
      BY <1>7, <1>5, <1>2
    <2> QED  BY <2>1, <2>2, <1>1, <1>6 DEF SessionInv, Status!NoSession
  <1>11. RunningInv'
    <2>1. (Len(out) = 0 /\ phase = "running" /\ socket = "open") => overtaken'
      <3> SUFFICES ASSUME Len(out) = 0, phase = "running", socket = "open" PROVE overtaken'
        OBVIOUS
      <3>1. ~ Dialling  BY DEF Dialling
      <3>2. i # id  BY <3>1, <1>7
      <3>3. session[i].run # start  BY <3>2, <1>1, <1>2 DEF SessionInv
      <3> QED  BY <3>3, <1>1
    <2> QED  BY <2>1, <1>1, <1>6 DEF RunningInv
  <1>12. WillInv'  BY <1>1, <1>3 DEF WillInv, Status!OnlineHasWill
  <1>13. Closed => Closed'
    <2> SUFFICES ASSUME Closed PROVE Closed'  OBVIOUS
    <2>1. i # id  BY <1>1 DEF Closed, Status!NoSession
    <2> QED  BY <2>1, <1>1, <1>2, <1>5, <1>6 DEF Closed, Status!NoSession
  <1>14. ByeInv'  BY <1>1, <1>3, <1>13 DEF ByeInv
  <1>15. PartedInv'  BY <1>1, <1>13 DEF PartedInv
  <1> QED  BY <1>8, <1>9, <1>10, <1>11, <1>12, <1>14, <1>15

-----------------------------------------------------------------------------
LEMMA StatusReads == StatusInv /\ Status!Read => StatusInv'
  <1> SUFFICES ASSUME StatusInv, Status!Read PROVE StatusInv'  OBVIOUS
  <1>1. Head(out) = out[1]  BY StatusRead
  <1>2. CASE Head(out).kind = "CONNECT" /\ Status!Accept
    BY <1>1, <1>2, StatusAccept
  <1>3. CASE Head(out).kind = "PUBLISH" /\ session[id].live /\ retained' = Head(out)
             /\ overtaken' = FALSE /\ UNCHANGED <<session, ack>>
    BY <1>1, <1>3, StatusReadStatus
  <1>4. CASE Head(out).kind = "DISCONNECT"
             /\ session' = [session EXCEPT ![id] = Status!NoSession]
             /\ UNCHANGED <<retained, ack, overtaken>>
    BY <1>1, <1>4, StatusReadLast
  <1>5. CASE Head(out).kind = "PUBLISH" /\ ~ session[id].live
             /\ UNCHANGED <<session, retained, ack, overtaken>>
    BY <1>1, <1>5, StatusReadNothing
  <1> QED  BY <1>2, <1>3, <1>4, <1>5 DEF Status!Read

LEMMA StatusInitially == Status!Init => StatusInv
  <1> SUFFICES ASSUME Status!Init PROVE StatusInv  OBVIOUS
  <1>1. Status!NoStatus \in Packets /\ Status!NoStatus.state = ""
    BY DEF Status!NoStatus, Status!Packet, Packets
  <1>2. Status!NoSession \in [run : 0 .. MaxStarts, live : BOOLEAN]
        /\ Status!NoSession.run = 0 /\ ~ Status!NoSession.live
    BY DEF Status!NoSession
  <1>3. out = <<>> /\ start = 0 /\ socket = "none" /\ phase = "off" /\ ~ ack
        /\ retained = Status!NoStatus /\ \A i \in Ids : session[i] = Status!NoSession
    BY DEF Status!Init
  <1>4. StatusTypes
    <2>1. session \in [Ids -> [run : 0 .. MaxStarts, live : BOOLEAN]]
      BY <1>2 DEF Status!Init
    <2>2. mosq \in BOOLEAN /\ ack \in BOOLEAN /\ overtaken \in BOOLEAN
      BY Zenon DEF Status!Init
    <2>3. out \in Seq(Packets)  BY <1>3
    <2>4. MaxStarts \in Nat  OBVIOUS
    <2>5. /\ id \in Ids /\ state = "DISCONNECTED" /\ status_seq_ = 0 /\ retained \in Packets
      BY <1>1, <1>3 DEF Status!Init
    <2>6. start \in 0 .. MaxStarts  BY <1>3, <2>4
    <2> QED  BY <2>1, <2>2, <2>3, <2>4, <2>5, <2>6, <1>3 DEF StatusTypes, Status!TypeOK
  <1>5. LinkInv  BY <1>3 DEF LinkInv
  <1>6. SessionInv  BY <1>2, <1>3 DEF SessionInv
  <1>7. RunningInv /\ ByeInv /\ PartedInv  BY <1>3 DEF RunningInv, ByeInv, PartedInv
  <1>8. WillInv  BY <1>1, <1>3 DEF WillInv, Status!OnlineHasWill
  <1> QED  BY <1>4, <1>5, <1>6, <1>7, <1>8 DEF StatusInv

LEMMA StatusInductive == StatusInv /\ [Status!Next]_(Status!vars) => StatusInv'
  <1> SUFFICES ASSUME StatusInv, [Status!Next]_(Status!vars) PROVE StatusInv'  OBVIOUS
  <1>1. CASE Status!Next
    BY <1>1, StatusStart, StatusDial, StatusConnected, StatusBreak, StatusStopBegins,
       StatusStopPublishes, StatusStopDisconnects, StatusEnds, StatusReads, StatusNotice
    DEF Status!Next
  <1>2. CASE UNCHANGED Status!vars
    <2>1. /\ start' = start /\ id' = id /\ mosq' = mosq /\ phase' = phase /\ state' = state
          /\ status_seq_' = status_seq_ /\ socket' = socket /\ out' = out /\ ack' = ack
          /\ session' = session /\ retained' = retained /\ crossed' = crossed
          /\ overtaken' = overtaken
      BY <1>2 DEF Status!vars
    <2>2. Dialling' <=> Dialling  BY <2>1 DEF Dialling
    <2>3. Closed' <=> Closed  BY <2>1, <2>2 DEF Closed, Status!NoSession
    <2>4. StatusTypes' /\ LinkInv'
      BY <2>1 DEF StatusInv, StatusTypes, Status!TypeOK, LinkInv
    <2>5. SessionInv' /\ RunningInv'
      BY <2>1, <2>2 DEF StatusInv, SessionInv, RunningInv, Status!NoSession
    <2>6. WillInv' /\ ByeInv' /\ PartedInv'
      BY <2>1, <2>2, <2>3 DEF StatusInv, WillInv, Status!OnlineHasWill, ByeInv, PartedInv
    <2> QED  BY <2>4, <2>5, <2>6 DEF StatusInv
  <1> QED  BY <1>1, <1>2

\* The server is told to be online while it is, but for late wills, and not after:
\* in every behaviour of the composition, for any number of starts, births and ids.
THEOREM StatusSafetyHolds == MCSpec => []StatusSafety
  <1>1. MCInit => StatusInv  BY StatusInitially DEF MCInit
  <1>2. [Web \/ Calibrates \/ Shows \/ Tells]_allVars => [Status!Next]_(Status!vars)
    BY DEF allVars, statusVars, Status!vars, Web, Calibrates, Shows, Tells
  <1>3. StatusInv => StatusSafety
    <2> SUFFICES ASSUME StatusInv PROVE Status!Safety  BY DEF StatusSafety
    <2>1. Status!LiveIsOnline
      <3> SUFFICES ASSUME phase = "running", socket = "open", out = <<>>
                   PROVE  (retained.state = "online" /\ retained.run = start) \/ overtaken
        BY DEF Status!LiveIsOnline
      <3> QED  BY DEF StatusInv, RunningInv
    <2> QED  BY <2>1 DEF StatusInv, StatusTypes, WillInv, Status!Safety
  <1> QED  BY <1>1, <1>2, <1>3, StatusInductive, PTL DEF MCSpec

HIDE StatusAssumption DEF Status!ConstantAssumption

-----------------------------------------------------------------------------
\* The calibration of the cameras (CameraCalibration).

Pictures == Camera!Captures
Results == [valid : BOOLEAN, of : SUBSET Pictures, loaded : BOOLEAN]
Sessions == [captures : SUBSET Pictures, last_result : Results]
Files == [readable : BOOLEAN, of : SUBSET Pictures]

CameraTypes ==
  /\ board_config_ \in Boards \cup {"none"} /\ shots \in 0 .. MaxShots
  /\ camera_size \in [Channels -> Sizes]
  /\ sessions_ \in [Channels -> Sessions]
  /\ file \in [Channels -> Files]

\* A session s with its file f, where board b is configured and n captures were taken.
ChannelFits(s, f, b, n) ==
  /\ Camera!OneKind(s.captures) /\ Camera!OneKind(f.of) /\ Camera!OneKind(s.last_result.of)
  /\ \A c \in s.captures : c.board = b /\ c.id < n
  /\ \A c \in f.of : c.id < n
  /\ s.last_result.valid =>
       IF s.last_result.loaded THEN f = Camera!Written(s.last_result.of)
       ELSE /\ s.last_result.of = s.captures
            /\ Camera!Cardinality(s.last_result.of) >= MinCaptures

CameraInv ==
  /\ CameraTypes
  /\ \A ch \in Channels : ChannelFits(sessions_[ch], file[ch], board_config_, shots)
  /\ Camera!ChannelsApart

-----------------------------------------------------------------------------
(* One session, whatever is done to it                                     *)

LEMMA EmptyIsOneKind == Camera!OneKind({})
  BY DEF Camera!OneKind

LEMMA PlainResults ==
  /\ Camera!NoResult \in Results /\ ~ Camera!NoResult.valid /\ Camera!NoResult.of = {}
  /\ Camera!NewSession \in Sessions
  /\ Camera!NewSession.captures = {}
  /\ Camera!NewSession.last_result = Camera!NoResult
  /\ Camera!Absent \in Files /\ Camera!Absent.of = {} /\ ~ Camera!Absent.readable
  BY DEF Camera!NoResult, Camera!NewSession, Camera!Absent, Results, Sessions, Files

LEMMA FitsFresh ==
  ASSUME NEW s, NEW f, NEW b, NEW n, NEW other, ChannelFits(s, f, b, n)
  PROVE  ChannelFits(Camera!NewSession, f, other, n)
  BY PlainResults, EmptyIsOneKind DEF ChannelFits

LEMMA FitsCaptured ==
  ASSUME NEW s \in Sessions, NEW f \in Files, NEW b, NEW n \in Nat, NEW c \in Pictures,
         ChannelFits(s, f, b, n),
         c.id = n, c.board = b, \A d \in s.captures : d.size = c.size,
         NEW t \in Sessions, t.captures = s.captures \cup {c}, t.last_result = Camera!NoResult
  PROVE  ChannelFits(t, f, b, n + 1)
  <1>1. \A d \in Pictures : d.id \in Nat  BY DEF Pictures, Camera!Captures
  <1>2. s.captures \subseteq Pictures /\ f.of \subseteq Pictures  BY DEF Sessions, Files
  <1>3. \A d \in s.captures \cup f.of : d.id < n + 1
    BY <1>1, <1>2 DEF ChannelFits
  <1>4. Camera!OneKind(t.captures)
    BY DEF ChannelFits, Camera!OneKind
  <1>5. \A d \in t.captures : d.board = b /\ d.id < n + 1
    BY <1>3 DEF ChannelFits
  <1> QED  BY <1>3, <1>4, <1>5, PlainResults, EmptyIsOneKind DEF ChannelFits

LEMMA FitsLater ==
  ASSUME NEW s \in Sessions, NEW f \in Files, NEW b, NEW n \in Nat, ChannelFits(s, f, b, n)
  PROVE  ChannelFits(s, f, b, n + 1)
  <1>1. \A d \in Pictures : d.id \in Nat  BY DEF Pictures, Camera!Captures
  <1>2. s.captures \subseteq Pictures /\ f.of \subseteq Pictures  BY DEF Sessions, Files
  <1>3. \A d \in s.captures \cup f.of : d.id < n + 1
    BY <1>1, <1>2 DEF ChannelFits
  <1> QED  BY <1>3 DEF ChannelFits

LEMMA FitsDiscarded ==
  ASSUME NEW s \in Sessions, NEW f, NEW b, NEW n, ChannelFits(s, f, b, n),
         NEW t \in Sessions, t.captures \subseteq s.captures, t.last_result = Camera!NoResult
  PROVE  ChannelFits(t, f, b, n)
  BY PlainResults, EmptyIsOneKind DEF ChannelFits, Camera!OneKind

LEMMA FitsCalibrated ==
  ASSUME NEW s \in Sessions, NEW f, NEW b, NEW n, ChannelFits(s, f, b, n),
         Camera!Cardinality(s.captures) >= MinCaptures,
         NEW t \in Sessions, t.captures = s.captures,
         t.last_result = Camera!Result(s.captures),
         NEW g, g \in {Camera!Written(s.captures), f, Camera!Absent}
  PROVE  ChannelFits(t, g, b, n) /\ (g.of \subseteq f.of \/ g.of = s.captures)
  <1>1. /\ Camera!Result(s.captures).of = s.captures /\ ~ Camera!Result(s.captures).loaded
        /\ Camera!Written(s.captures).of = s.captures
    BY DEF Camera!Result, Camera!Written
  <1>2. CASE g = Camera!Written(s.captures)
    BY <1>1, <1>2 DEF ChannelFits
  <1>3. CASE g = f
    BY <1>1, <1>3 DEF ChannelFits
  <1>4. CASE g = Camera!Absent
    BY <1>1, <1>4, PlainResults, EmptyIsOneKind DEF ChannelFits
  <1> QED  BY <1>2, <1>3, <1>4

LEMMA FitsLoaded ==
  ASSUME NEW s \in Sessions, NEW f \in Files, NEW b, NEW n, ChannelFits(s, f, b, n),
         f.readable,
         NEW t \in Sessions, t.captures = s.captures,
         t.last_result = [valid |-> TRUE, of |-> f.of, loaded |-> TRUE]
  PROVE  ChannelFits(t, f, b, n)
  <1>1. t.last_result.of = f.of /\ t.last_result.loaded  OBVIOUS
  <1>2. f = [readable |-> TRUE, of |-> f.of]  BY DEF Files
  <1>3. f = Camera!Written(f.of)  BY <1>2 DEF Camera!Written
  <1> QED  BY <1>1, <1>3 DEF ChannelFits

-----------------------------------------------------------------------------
(* The steps                                                               *)

USE CameraAssumption DEF Camera!ConstantAssumption

\* Captures of different channels stay apart as long as none is taken.
LEMMA StayApart ==
  ASSUME Camera!ChannelsApart,
         \A ch \in Channels :
           sessions_'[ch].captures \cup file'[ch].of
             \subseteq sessions_[ch].captures \cup file[ch].of
  PROVE  Camera!ChannelsApart'
  BY DEF Camera!ChannelsApart

LEMMA CameraSetBoard ==
  ASSUME NEW b \in Boards, CameraInv, Camera!HandleSetBoard(b)
  PROVE  CameraInv'
  <1> USE DEF CameraInv
  <1>1. /\ board_config_' = b /\ file' = file /\ camera_size' = camera_size /\ shots' = shots
        /\ \A ch \in Channels : sessions_'[ch] = Camera!NewSession
        /\ sessions_' \in [Channels -> Sessions]
    BY PlainResults DEF Camera!HandleSetBoard
  <1>2. CameraTypes'  BY <1>1 DEF CameraTypes
  <1>3. \A ch \in Channels : ChannelFits(sessions_[ch], file[ch], board_config_, shots)
    OBVIOUS
  <1>4. \A ch \in Channels : ChannelFits(sessions_'[ch], file'[ch], board_config_', shots')
    BY <1>1, <1>3, FitsFresh
  <1>5. Camera!ChannelsApart'  BY <1>1, PlainResults, StayApart
  <1> QED  BY <1>2, <1>4, <1>5

LEMMA CameraCapture ==
  ASSUME NEW ch \in Channels, CameraInv, Camera!HandleCapture(ch)
  PROVE  CameraInv'
  <1> USE DEF CameraInv
  <1> DEFINE c == Camera!Shot(ch)
             s == sessions_[ch]
             t == [captures |-> s.captures \cup {c}, last_result |-> Camera!NoResult]
  <1>1. /\ board_config_' = board_config_ /\ file' = file /\ camera_size' = camera_size
        /\ shots' = shots + 1 /\ shots \in Nat /\ shots < MaxShots
        /\ board_config_ \in Boards
        /\ sessions_' = [sessions_ EXCEPT ![ch] = t]
        /\ \A d \in s.captures : d.size = camera_size[ch]
        /\ s \in Sessions /\ file[ch] \in Files /\ camera_size[ch] \in Sizes
        /\ sessions_ \in [Channels -> Sessions] /\ file \in [Channels -> Files]
        /\ shots \in 0 .. MaxShots /\ MaxShots \in Nat
    BY DEF Camera!HandleCapture, Camera!AfterChange, CameraTypes, Camera!Fits
  <1>2. c = [id |-> shots, board |-> board_config_, size |-> camera_size[ch]]
    BY DEF Camera!Shot
  <1> HIDE DEF c
  <1>3. /\ c \in Pictures /\ c.id = shots /\ c.board = board_config_
        /\ c.size = camera_size[ch]
    BY <1>1, <1>2 DEF Pictures, Camera!Captures
  <1>4. t \in Sessions /\ t.captures = s.captures \cup {c} /\ t.last_result = Camera!NoResult
    BY <1>1, <1>3, PlainResults DEF Sessions
  <1> HIDE DEF s, t
  <1>5. /\ sessions_' \in [Channels -> Sessions]
        /\ sessions_'[ch] = t
        /\ \A d \in Channels : d # ch => sessions_'[d] = sessions_[d]
    BY <1>1, <1>4
  <1>6. CameraTypes'
    <2>1. shots + 1 \in 0 .. MaxShots  BY <1>1
    <2> QED  BY <2>1, <1>1, <1>5 DEF CameraTypes
  <1>7. ChannelFits(s, file[ch], board_config_, shots)  BY DEF s
  <1>8. ChannelFits(t, file[ch], board_config_, shots + 1)
    BY <1>1, <1>3, <1>4, <1>7, FitsCaptured
  <1>9. ASSUME NEW d \in Channels
        PROVE  ChannelFits(sessions_'[d], file'[d], board_config_', shots')
    <2>1. CASE d = ch  BY <2>1, <1>8, <1>5, <1>1
    <2>2. CASE d # ch
      <3>1. ChannelFits(sessions_[d], file[d], board_config_, shots)
            /\ sessions_[d] \in Sessions /\ file[d] \in Files
        BY <1>1
      <3>2. ChannelFits(sessions_[d], file[d], board_config_, shots + 1)
        BY <3>1, <1>1, FitsLater
      <3> QED  BY <2>2, <3>2, <1>1, <1>5
    <2> QED  BY <2>1, <2>2
  <1>10. \A d \in Channels : c \notin sessions_[d].captures \cup file[d].of
    BY <1>1, <1>3 DEF ChannelFits
  <1>11. Camera!ChannelsApart'
    <2>1. \A d \in Channels :
            sessions_'[d].captures \cup file'[d].of
              = (sessions_[d].captures \cup file[d].of) \cup (IF d = ch THEN {c} ELSE {})
      BY <1>1, <1>4, <1>5 DEF s
    <2> QED  BY <2>1, <1>10 DEF Camera!ChannelsApart
  <1> QED  BY <1>6, <1>9, <1>11

\* The session of one channel changes, and its captures only become fewer.
LEMMA OneSession ==
  ASSUME NEW ch \in Channels, NEW t \in Sessions, NEW g \in Files, CameraInv,
         board_config_' = board_config_, camera_size' = camera_size, shots' = shots,
         sessions_' = [sessions_ EXCEPT ![ch] = t],
         file' = [file EXCEPT ![ch] = g],
         ChannelFits(t, g, board_config_, shots),
         t.captures \subseteq sessions_[ch].captures,
         g.of \subseteq file[ch].of \cup sessions_[ch].captures
  PROVE  CameraInv'
  <1> USE DEF CameraInv
  <1>1. sessions_ \in [Channels -> Sessions] /\ file \in [Channels -> Files]
    BY DEF CameraTypes
  <1>2. /\ sessions_' \in [Channels -> Sessions] /\ file' \in [Channels -> Files]
        /\ sessions_'[ch] = t /\ file'[ch] = g
        /\ \A d \in Channels : d # ch => sessions_'[d] = sessions_[d] /\ file'[d] = file[d]
    BY <1>1
  <1>3. CameraTypes'  BY <1>2 DEF CameraTypes
  <1>4. \A d \in Channels : ChannelFits(sessions_'[d], file'[d], board_config_', shots')
    BY <1>2
  <1>5. \A d \in Channels :
          sessions_'[d].captures \cup file'[d].of
            \subseteq sessions_[d].captures \cup file[d].of
    BY <1>2
  <1>6. Camera!ChannelsApart'  BY <1>5, StayApart
  <1> QED  BY <1>3, <1>4, <1>6

LEMMA CameraOneSession ==
  ASSUME NEW ch \in Channels, CameraInv,
         \/ Camera!HandleReset(ch)
         \/ \E c \in sessions_[ch].captures : Camera!HandleDiscard(ch, c)
         \/ Camera!HandleCalibrate(ch)
         \/ Camera!HandleResult(ch)
  PROVE  CameraInv'
  <1> DEFINE s == sessions_[ch]
             f == file[ch]
  <1>1. /\ s \in Sessions /\ f \in Files /\ sessions_ \in [Channels -> Sessions]
        /\ file \in [Channels -> Files]
        /\ ChannelFits(s, f, board_config_, shots)
        /\ s.captures \subseteq Pictures /\ f.of \subseteq Pictures /\ s.last_result \in Results
    BY DEF CameraInv, CameraTypes, Sessions, Files
  <1>2. [file EXCEPT ![ch] = f] = file  BY <1>1
  <1>3. CASE Camera!HandleReset(ch)
    <2>1. /\ board_config_' = board_config_ /\ camera_size' = camera_size /\ shots' = shots
          /\ file' = file /\ sessions_' = [sessions_ EXCEPT ![ch] = Camera!NewSession]
      BY <1>3 DEF Camera!HandleReset
    <2>2. ChannelFits(Camera!NewSession, f, board_config_, shots)  BY <1>1, FitsFresh
    <2> QED  BY <2>1, <2>2, <1>1, <1>2, PlainResults, OneSession
  <1>4. CASE \E c \in s.captures : Camera!HandleDiscard(ch, c)
    <2>1. PICK c \in s.captures : Camera!HandleDiscard(ch, c)  BY <1>4
    <2> DEFINE t == [captures |-> s.captures \ {c}, last_result |-> Camera!NoResult]
    <2>2. /\ board_config_' = board_config_ /\ camera_size' = camera_size /\ shots' = shots
          /\ file' = file /\ sessions_' = [sessions_ EXCEPT ![ch] = t]
      BY <2>1 DEF Camera!HandleDiscard, Camera!AfterChange
    <2>3. /\ t \in Sessions /\ t.captures \subseteq s.captures
          /\ t.last_result = Camera!NoResult
      BY <1>1, PlainResults DEF Sessions
    <2> HIDE DEF t, s, f
    <2>4. ChannelFits(t, f, board_config_, shots)  BY <2>3, <1>1, FitsDiscarded
    <2> QED  BY <2>2, <2>3, <2>4, <1>1, <1>2, OneSession DEF s, f
  <1>5. CASE Camera!HandleCalibrate(ch)
    <2> DEFINE t == [captures |-> s.captures, last_result |-> Camera!Result(s.captures)]
    <2>1. PICK g \in {Camera!Written(s.captures), f, Camera!Absent} :
            file' = [file EXCEPT ![ch] = g]
      BY <1>5 DEF Camera!HandleCalibrate, Camera!AfterSave
    <2>2. /\ board_config_' = board_config_ /\ camera_size' = camera_size /\ shots' = shots
          /\ sessions_' = [sessions_ EXCEPT ![ch].last_result = Camera!Result(s.captures)]
          /\ Camera!Cardinality(s.captures) >= MinCaptures
      BY <1>5 DEF Camera!HandleCalibrate
    <2>3. s = [captures |-> s.captures, last_result |-> s.last_result]
      BY <1>1 DEF Sessions
    <2>4. sessions_' = [sessions_ EXCEPT ![ch] = t]
      <3> DEFINE u == [s EXCEPT !.last_result = Camera!Result(s.captures)]
      <3>1. u = t  BY <2>3
      <3>2. sessions_' = [sessions_ EXCEPT ![ch] = u]  BY <2>2
      <3> QED  BY <3>1, <3>2
    <2>5. /\ Camera!Result(s.captures) \in Results /\ Camera!Written(s.captures) \in Files
      BY <1>1 DEF Camera!Result, Camera!Written, Results, Files
    <2>6. /\ t \in Sessions /\ t.captures = s.captures
          /\ t.last_result = Camera!Result(s.captures) /\ g \in Files
      BY <1>1, <2>1, <2>5, PlainResults DEF Sessions
    <2> HIDE DEF t, s, f
    <2>7. ChannelFits(t, g, board_config_, shots) /\ (g.of \subseteq f.of \/ g.of = s.captures)
      BY <2>1, <2>2, <2>6, <1>1, FitsCalibrated
    <2> QED  BY <2>1, <2>2, <2>4, <2>6, <2>7, OneSession DEF s, f
  <1>6. CASE Camera!HandleResult(ch)
    <2> DEFINE r == Camera!WithFile(ch, s.last_result)
               t == [captures |-> s.captures, last_result |-> r]
    <2>1. /\ board_config_' = board_config_ /\ camera_size' = camera_size /\ shots' = shots
          /\ file' = file
          /\ sessions_' = [sessions_ EXCEPT ![ch].last_result = r]
      BY <1>6 DEF Camera!HandleResult
    <2>2. s = [captures |-> s.captures, last_result |-> s.last_result]
      BY <1>1 DEF Sessions
    <2>3. sessions_' = [sessions_ EXCEPT ![ch] = t]
      <3> DEFINE u == [s EXCEPT !.last_result = r]
      <3>1. u = t  BY <2>2
      <3>2. sessions_' = [sessions_ EXCEPT ![ch] = u]  BY <2>1
      <3> QED  BY <3>1, <3>2
    <2>4. r = IF f.readable THEN [valid |-> TRUE, of |-> f.of, loaded |-> TRUE]
              ELSE s.last_result
      BY DEF Camera!WithFile
    <2>5. r \in Results  BY <2>4, <1>1 DEF Results
    <2>6. t \in Sessions /\ t.captures = s.captures /\ t.last_result = r
      BY <1>1, <2>5 DEF Sessions
    <2> HIDE DEF t, s, f, r
    <2>7. ChannelFits(t, f, board_config_, shots)
      <3>1. CASE f.readable
        BY <3>1, <2>4, <2>6, <1>1, FitsLoaded
      <3>2. CASE ~ f.readable
        BY <3>2, <2>4, <2>6, <1>1 DEF ChannelFits
      <3> QED  BY <3>1, <3>2
    <2> QED  BY <2>1, <2>3, <2>6, <2>7, <1>1, <1>2, OneSession DEF s, f
  <1> QED  BY <1>3, <1>4, <1>5, <1>6

LEMMA CameraRestart ==
  ASSUME NEW torn \in SUBSET Channels, CameraInv, Camera!Restart(torn)
  PROVE  CameraInv'
  <1> USE DEF CameraInv
  <1>1. /\ board_config_' = "none" /\ camera_size' = camera_size /\ shots' = shots
        /\ file' = [ch \in Channels |-> IF ch \in torn THEN Camera!Absent ELSE file[ch]]
        /\ sessions_' = [ch \in Channels |-> [Camera!NewSession EXCEPT
             !.last_result = IF ch \in torn THEN @ ELSE Camera!WithFile(ch, @)]]
    BY DEF Camera!Restart
  <1>2. ASSUME NEW ch \in Channels
        PROVE  /\ sessions_'[ch] \in Sessions /\ file'[ch] \in Files
               /\ ChannelFits(sessions_'[ch], file'[ch], "none", shots)
               /\ sessions_'[ch].captures = {}
               /\ file'[ch].of \subseteq file[ch].of
    <2> DEFINE f == file[ch]
               t == sessions_'[ch]
    <2>1. /\ ChannelFits(sessions_[ch], f, board_config_, shots) /\ f \in Files
          /\ f.of \subseteq Pictures
      BY DEF CameraTypes, Files
    <2>2. ChannelFits(Camera!NewSession, f, "none", shots)  BY <2>1, FitsFresh
    <2>3. CASE ch \in torn \/ ~ f.readable
      <3>1. t = Camera!NewSession
        BY <2>3, <1>1 DEF Camera!WithFile, Camera!NewSession
      <3>2. file'[ch] = Camera!Absent \/ file'[ch] = f  BY <1>1
      <3> HIDE DEF f, t
      <3>3. ChannelFits(t, Camera!Absent, "none", shots)
        BY <3>1, PlainResults, EmptyIsOneKind DEF ChannelFits
      <3> QED  BY <3>1, <3>2, <3>3, <2>1, <2>2, PlainResults DEF f, t
    <2>4. CASE ch \notin torn /\ f.readable
      <3>1. file'[ch] = f  BY <2>4, <1>1
      <3>2. t = [captures |-> {}, last_result |->
                   [valid |-> TRUE, of |-> f.of, loaded |-> TRUE]]
        BY <2>4, <1>1 DEF Camera!WithFile, Camera!NewSession
      <3> HIDE DEF f, t
      <3>3. /\ t \in Sessions /\ t.captures = {}
            /\ t.last_result = [valid |-> TRUE, of |-> f.of, loaded |-> TRUE]
        BY <3>2, <2>1 DEF Sessions, Results
      <3>4. ChannelFits(t, f, "none", shots)
        BY <3>3, <2>1, <2>2, <2>4, PlainResults, FitsLoaded
      <3> QED  BY <3>1, <3>3, <3>4, <2>1 DEF f, t
    <2> QED  BY <2>3, <2>4
  <1>3. sessions_' \in [Channels -> Sessions] /\ file' \in [Channels -> Files]
    BY <1>1, <1>2
  <1>4. CameraTypes'  BY <1>1, <1>3 DEF CameraTypes
  <1>5. Camera!ChannelsApart'  BY <1>2, StayApart
  <1> QED  BY <1>1, <1>2, <1>4, <1>5

LEMMA CameraInductive == CameraInv /\ [Camera!Next]_(Camera!vars) => CameraInv'
  <1> SUFFICES ASSUME CameraInv, [Camera!Next]_(Camera!vars) PROVE CameraInv'  OBVIOUS
  <1>1. ASSUME NEW ch \in Channels, NEW size \in Sizes, Camera!Zoom(ch, size)
        PROVE  CameraInv'
    <2>1. /\ board_config_' = board_config_ /\ sessions_' = sessions_ /\ file' = file
          /\ shots' = shots /\ camera_size' = [camera_size EXCEPT ![ch] = size]
      BY <1>1 DEF Camera!Zoom
    <2>2. camera_size' \in [Channels -> Sizes]  BY <2>1 DEF CameraInv, CameraTypes
    <2>3. CameraTypes'  BY <2>1, <2>2 DEF CameraInv, CameraTypes
    <2>4. Camera!ChannelsApart'  BY <2>1 DEF CameraInv, Camera!ChannelsApart
    <2> QED  BY <2>1, <2>3, <2>4 DEF CameraInv
  <1>2. CASE Camera!Next
    BY <1>1, <1>2, CameraSetBoard, CameraCapture, CameraOneSession, CameraRestart
    DEF Camera!Next, Camera!HandleUndistort
  <1>3. CASE UNCHANGED Camera!vars
    BY <1>3 DEF Camera!vars, CameraInv, CameraTypes, Camera!ChannelsApart
  <1> QED  BY <1>2, <1>3

LEMMA CameraInitially == Camera!Init => CameraInv
  <1> SUFFICES ASSUME Camera!Init PROVE CameraInv  OBVIOUS
  <1>1. /\ \A ch \in Channels : sessions_[ch] = Camera!NewSession /\ file[ch] = Camera!Absent
        /\ sessions_ \in [Channels -> Sessions] /\ file \in [Channels -> Files]
    BY PlainResults DEF Camera!Init
  <1>2. shots \in 0 .. MaxShots  BY DEF Camera!Init
  <1>3. CameraTypes  BY <1>1, <1>2 DEF CameraTypes, Camera!Init
  <1>4. Camera!ChannelsApart  BY <1>1, PlainResults DEF Camera!ChannelsApart
  <1>5. \A ch \in Channels : ChannelFits(sessions_[ch], file[ch], board_config_, shots)
    BY <1>1, PlainResults, EmptyIsOneKind DEF ChannelFits
  <1> QED  BY <1>3, <1>4, <1>5 DEF CameraInv

LEMMA CameraSafe == CameraInv => Camera!Safety
  <1> SUFFICES ASSUME CameraInv PROVE Camera!Safety  OBVIOUS
  <1>1. Camera!TypeOK
    BY DEF CameraInv, CameraTypes, Camera!TypeOK, Sessions, Files, Results, Pictures
  <1>2. Camera!SessionIsUniform
    BY DEF CameraInv, ChannelFits, Camera!SessionIsUniform
  <1>3. Camera!ResultIsCurrent
    BY DEF CameraInv, ChannelFits, Camera!ResultIsCurrent
  <1> QED  BY <1>1, <1>2, <1>3 DEF CameraInv, Camera!Safety

HIDE CameraAssumption DEF Camera!ConstantAssumption

-----------------------------------------------------------------------------
\* The photos of a calibration (CalibrationSession).

\* A set of numbers below a bound has a largest and a smallest member.
LEMMA Extremes ==
  ASSUME NEW M \in Nat, NEW S, S \subseteq 0 .. M, S # {}
  PROVE  /\ \E e \in S : \A n \in S : e >= n
         /\ \E e \in S : \A n \in S : e <= n
  <1> DEFINE U == 0 .. M
             R == StrictSubsetOrdering(U)
  <1>1. IsWellFoundedOn(R, FiniteSubsetsOf(U))  BY FS_StrictSubsetOrderingWellFounded
  <1>2. \A T \in SUBSET U : T \in FiniteSubsetsOf(U)
    <2>1. 0 \in Int /\ M \in Int  OBVIOUS
    <2>2. IsFiniteSet(U)  BY <2>1, FS_Interval
    <2>3. ASSUME NEW T \in SUBSET U PROVE IsFiniteSet(T)  BY <2>2, FS_Subset
    <2> QED  BY <2>3, Zenon DEF FiniteSubsetsOf
  <1>3. \A T, V \in SUBSET U : T \subseteq V /\ T # V => <<T, V>> \in R
    BY DEF StrictSubsetOrdering
  <1> HIDE DEF R
  <1>4. \E e \in S : \A n \in S : e >= n
    <2> DEFINE F == {x .. M : x \in S}
    <2>1. F \subseteq SUBSET U /\ F # {}
      <3>1. ASSUME NEW x \in S PROVE x .. M \in SUBSET U  OBVIOUS
      <3>2. PICK x \in S : TRUE  OBVIOUS
      <3>3. x .. M \in F  OBVIOUS
      <3> QED  BY <3>1, <3>3
    <2>2. PICK V \in F : \A T \in F : ~ (<<T, V>> \in R)
      <3>1. F \subseteq FiniteSubsetsOf(U)  BY <2>1, <1>2
      <3> HIDE DEF F
      <3> QED  BY <3>1, <2>1, <1>1, WFMin
    <2>3. PICK e \in S : V = e .. M  OBVIOUS
    <2>4. ASSUME NEW n \in S, ~ (e >= n) PROVE FALSE
      <3>1. n .. M \subseteq e .. M /\ e \in e .. M /\ e \notin n .. M  BY <2>4
      <3>2. n .. M \in F /\ n .. M \in SUBSET U /\ V \in SUBSET U  BY <2>1
      <3>3. <<n .. M, V>> \in R  BY <3>1, <3>2, <1>3, <2>3
      <3> QED  BY <3>2, <3>3, <2>2
    <2> QED  BY <2>4
  <1>5. \E e \in S : \A n \in S : e <= n
    <2> DEFINE F == {0 .. x : x \in S}
    <2>1. F \subseteq SUBSET U /\ F # {}
      <3>1. ASSUME NEW x \in S PROVE 0 .. x \in SUBSET U  OBVIOUS
      <3>2. PICK x \in S : TRUE  OBVIOUS
      <3>3. 0 .. x \in F  OBVIOUS
      <3> QED  BY <3>1, <3>3
    <2>2. PICK V \in F : \A T \in F : ~ (<<T, V>> \in R)
      <3>1. F \subseteq FiniteSubsetsOf(U)  BY <2>1, <1>2
      <3> HIDE DEF F
      <3> QED  BY <3>1, <2>1, <1>1, WFMin
    <2>3. PICK e \in S : V = 0 .. e  OBVIOUS
    <2>4. ASSUME NEW n \in S, ~ (e <= n) PROVE FALSE
      <3>1. 0 .. n \subseteq 0 .. e /\ e \in 0 .. e /\ e \notin 0 .. n  BY <2>4
      <3>2. 0 .. n \in F /\ 0 .. n \in SUBSET U /\ V \in SUBSET U  BY <2>1
      <3>3. <<0 .. n, V>> \in R  BY <3>1, <3>2, <1>3, <2>3
      <3> QED  BY <3>2, <3>3, <2>2
    <2> QED  BY <2>4
  <1> QED  BY <1>4, <1>5

-----------------------------------------------------------------------------
Good == {"good", "poor"}
Maybe == Good \cup {"absent"}
Threads ==
  [pc : {"idle", "write", "detect", "read", "judge"}, n : Session!Numbers,
   shot : Maybe, count : Maybe]

Busy(c, n) == capture[c].pc # "idle" /\ capture[c].n = n

PhotoTypes ==
  /\ raw \in [Session!Numbers -> Maybe]
  /\ json \in [Session!Numbers -> Maybe]
  /\ preview \in Maybe
  /\ temporary \in [Session!Viewers -> Maybe]
  /\ viewer \in [Session!Viewers -> {"idle", "asked", "shown"}]
  /\ capture \in [PhotoThreads -> Threads]
  /\ unchecked \subseteq Session!Numbers /\ disturbed \subseteq Session!Numbers

\* Thread p at a photo r with answer a, where the tool failed on the photos us.
OnTrack(p, r, a, us) ==
  /\ p.pc = "write" => r = "absent" /\ a = "absent" /\ p.shot \in Good
  /\ p.pc = "detect" => r \in Good /\ a = "absent"
  /\ p.pc = "read" => r \in Good /\ (a = r \/ (a = "absent" /\ p.n \in us))
  /\ p.pc = "judge" => r \in Good /\ p.count = r

AnswerInv ==
  \A n \in Session!Numbers :
    json[n] # "absent" =>
      \E c \in PhotoThreads : capture[c].n = n /\ capture[c].pc \in {"read", "judge"}

TrackInv ==
  \A c \in PhotoThreads :
    LET n == capture[c].n IN
    (capture[c].pc # "idle" /\ n \notin disturbed) =>
      /\ OnTrack(capture[c], raw[n], json[n], unchecked)
      /\ \A d \in PhotoThreads : Busy(d, n) => d = c

LeftInv ==
  \A n \in Session!Numbers :
    (raw[n] = "poor" /\ \A c \in PhotoThreads : ~ Busy(c, n)) =>
      n \in unchecked \cup disturbed

Whole(views) ==
  views # {} =>
    /\ Session!Cardinality(views) >= MinViews
    /\ Session!Cardinality(views \cap Session!Numbers) >= MinViews - 1 - MaxViewers

ResultInv ==
  /\ \A r \in CalibrationThreads :
       calibration[r].pc = "tool" =>
         /\ calibration[r].views \subseteq Session!Views
         /\ calibration[r].views \cap Session!Numbers # {}
  /\ calibration \in [CalibrationThreads -> [pc : {"idle", "tool", "copy"}, views : SUBSET Session!Views]]
  /\ Whole(intrinsics) /\ Whole(saved)

ShownInv == \A v \in Session!Viewers : temporary[v] # "absent" => viewer[v] = "shown"

PhotosInv == PhotoTypes /\ AnswerInv /\ TrackInv /\ LeftInv /\ ResultInv /\ ShownInv

-----------------------------------------------------------------------------
(* Photos                                                                  *)

USE SessionAssumption DEF Session!ConstantAssumption

LEMMA PlainPhotos ==
  /\ 0 \in Session!Numbers /\ Session!Numbers = 0 .. MaxNumber
  /\ MaxNumber \in Nat /\ MinViews \in Nat /\ MaxViewers \in Nat
  /\ Session!Absent = "absent" /\ Session!Quality = Good
  /\ Session!Idle \in Threads /\ Session!Idle.pc = "idle"
  BY DEF Session!Numbers, Session!Absent, Session!Quality, Session!Idle, Good, Maybe, Threads

LEMMA HoldersAreBusy ==
  \A n : Session!Holders(n) = {c \in PhotoThreads : Busy(c, n)}
  BY DEF Session!Holders, Busy

\* The number after the largest is no photo's.
LEMMA NumberIsFree ==
  ASSUME PhotoTypes, Session!NextNumber(Session!Taken) \in Session!Numbers
  PROVE  raw[Session!NextNumber(Session!Taken)] = "absent"
  <1> DEFINE T == Session!Taken
             n == Session!NextNumber(T)
  <1>1. T \subseteq 0 .. MaxNumber
        /\ \A i \in Session!Numbers : i \notin T => raw[i] = "absent"
    BY PlainPhotos DEF Session!Taken
  <1>2. n = IF T = {} THEN 0 ELSE Session!Max(T) + 1
    BY DEF Session!NextNumber
  <1> HIDE DEF T, n
  <1>3. CASE T = {}
    BY <1>1, <1>2, <1>3, PlainPhotos DEF n, T
  <1>4. CASE T # {}
    <2>1. \E e \in T : \A i \in T : e >= i  BY <1>1, <1>4, PlainPhotos, Extremes
    <2>2. Session!Max(T) \in T /\ \A i \in T : Session!Max(T) >= i
      BY <2>1 DEF Session!Max
    <2> DEFINE top == Session!Max(T)
    <2>3. n = top + 1  BY <1>2, <1>4
    <2>4. top \in T /\ \A i \in T : top >= i  BY <2>2
    <2> HIDE DEF top
    <2>5. \A i \in T : i \in Int  BY <1>1, PlainPhotos
    <2>6. n \notin T  BY <2>3, <2>4, <2>5
    <2> QED  BY <2>6, <1>1 DEF n, T
  <1> QED  BY <1>3, <1>4

\* Thread c becomes p, and leaves photo x and answer y at its number.
PhotoMoves(c, p, x, y) ==
  LET n == capture[c].n IN
  /\ capture[c].pc # "idle" /\ p \in Threads /\ x \in Maybe /\ y \in Maybe
  /\ p.pc = "idle" \/ p.n = n
  /\ capture' = [capture EXCEPT ![c] = p]
  /\ raw' = [raw EXCEPT ![n] = x]
  /\ json' = [json EXCEPT ![n] = y]
  /\ unchecked' = unchecked \/ unchecked' = unchecked \cup {n}
  /\ disturbed' = disturbed
  /\ preview' = preview /\ intrinsics' = intrinsics /\ saved' = saved
  /\ calibration' = calibration /\ temporary' = temporary /\ viewer' = viewer
  /\ (n \notin disturbed /\ p.pc # "idle") => OnTrack(p, x, y, unchecked')
  /\ (n \notin disturbed /\ p.pc = "idle" /\ x = "poor") => n \in unchecked'
  /\ y # "absent" =>
       \/ p.pc \in {"read", "judge"}
       \/ y = json[n] /\ capture[c].pc \notin {"read", "judge"}

LEMMA PhotoStep ==
  ASSUME PhotosInv, NEW c \in PhotoThreads, NEW p, NEW x, NEW y, PhotoMoves(c, p, x, y)
  PROVE  PhotosInv'
  <1> DEFINE n == capture[c].n
  <1> USE DEF PhotoMoves
  <1> USE DEF PhotosInv
  <1>1. /\ raw \in [Session!Numbers -> Maybe] /\ json \in [Session!Numbers -> Maybe]
        /\ capture \in [PhotoThreads -> Threads] /\ capture[c] \in Threads
        /\ n \in Session!Numbers
    BY DEF PhotoTypes, Threads
  <1>2. /\ capture' \in [PhotoThreads -> Threads] /\ capture'[c] = p
        /\ \A d \in PhotoThreads : d # c => capture'[d] = capture[d]
    BY <1>1
  <1>3. /\ raw' \in [Session!Numbers -> Maybe] /\ raw'[n] = x
        /\ \A i \in Session!Numbers : i # n => raw'[i] = raw[i]
    BY <1>1
  <1>4. /\ json' \in [Session!Numbers -> Maybe] /\ json'[n] = y
        /\ \A i \in Session!Numbers : i # n => json'[i] = json[i]
    BY <1>1
  <1>5. /\ unchecked' \subseteq Session!Numbers
        /\ \A i \in Session!Numbers : i # n => (i \in unchecked' <=> i \in unchecked)
        /\ unchecked \subseteq unchecked'
    BY <1>1 DEF PhotoTypes
  <1>6. PhotoTypes'  BY <1>2, <1>3, <1>4, <1>5 DEF PhotoTypes
  <1>7. AnswerInv'
    <2> SUFFICES ASSUME NEW i \in Session!Numbers, json'[i] # "absent"
                 PROVE  \E d \in PhotoThreads :
                          capture'[d].n = i /\ capture'[d].pc \in {"read", "judge"}
      BY DEF AnswerInv
    <2>1. CASE i = n /\ p.pc \in {"read", "judge"}  BY <2>1, <1>2
    <2>2. CASE i = n /\ p.pc \notin {"read", "judge"}
      <3>1. json[n] # "absent" /\ capture[c].pc \notin {"read", "judge"}
        BY <2>2, <1>4
      <3>2. PICK d \in PhotoThreads : capture[d].n = n /\ capture[d].pc \in {"read", "judge"}
        BY <3>1, <1>1 DEF AnswerInv
      <3>3. d # c  BY <3>1, <3>2
      <3> QED  BY <3>2, <3>3, <1>2, <2>2
    <2>3. CASE i # n
      <3>1. json[i] # "absent"  BY <2>3, <1>4
      <3>2. PICK d \in PhotoThreads : capture[d].n = i /\ capture[d].pc \in {"read", "judge"}
        BY <3>1 DEF AnswerInv
      <3>3. d # c  BY <3>2, <2>3
      <3> QED  BY <3>2, <3>3, <1>2
    <2> QED  BY <2>1, <2>2, <2>3
  <1>8. ASSUME NEW d \in PhotoThreads, NEW i PROVE Busy(d, i)' => Busy(d, i)
    BY <1>2 DEF Busy
  <1>9. TrackInv'
    <2> SUFFICES ASSUME NEW d \in PhotoThreads, NEW i, i = capture'[d].n,
                        capture'[d].pc # "idle", i \notin disturbed
                 PROVE  /\ OnTrack(capture'[d], raw'[i], json'[i], unchecked')
                        /\ \A e \in PhotoThreads : Busy(e, i)' => e = d
      BY DEF TrackInv, Busy
    <2>1. capture[d].pc # "idle" /\ i = capture[d].n /\ i \in Session!Numbers
      BY <1>1, <1>2 DEF Threads
    <2>2. /\ OnTrack(capture[d], raw[i], json[i], unchecked)
          /\ \A e \in PhotoThreads : Busy(e, i) => e = d
      BY <2>1 DEF TrackInv
    <2>3. CASE d = c  BY <2>1, <2>2, <2>3, <1>2, <1>3, <1>4, <1>8
    <2>4. CASE d # c
      <3>1. i # n
        <4>1. Busy(c, n)  BY DEF Busy
        <4> QED  BY <4>1, <2>2, <2>4
      <3>2. capture'[d] = capture[d] /\ raw'[i] = raw[i] /\ json'[i] = json[i]
            /\ (i \in unchecked' <=> i \in unchecked)
        BY <2>1, <2>4, <3>1, <1>2, <1>3, <1>4, <1>5
      <3>3. OnTrack(capture'[d], raw'[i], json'[i], unchecked')
        BY <3>2, <2>2 DEF OnTrack
      <3> QED  BY <3>3, <2>2, <1>8
    <2> QED  BY <2>3, <2>4
  <1>10. LeftInv'
    <2> SUFFICES ASSUME NEW i \in Session!Numbers, raw'[i] = "poor",
                        \A d \in PhotoThreads : ~ Busy(d, i)', i \notin disturbed
                 PROVE  i \in unchecked'
      BY DEF LeftInv
    <2>1. CASE i = n
      <3>1. p.pc = "idle"  BY <2>1, <1>2 DEF Busy
      <3> QED  BY <3>1, <2>1, <1>3
    <2>2. CASE i # n
      <3>1. \A d \in PhotoThreads : ~ Busy(d, i)
        <4>1. ~ Busy(c, i)  BY <2>2 DEF Busy
        <4>2. \A d \in PhotoThreads : d # c => (Busy(d, i)' <=> Busy(d, i))
          BY <1>2 DEF Busy
        <4> QED  BY <4>1, <4>2
      <3>2. raw[i] = "poor"  BY <2>2, <1>3
      <3> QED  BY <3>1, <3>2, <1>5 DEF LeftInv
    <2> QED  BY <2>1, <2>2
  <1>11. ResultInv' /\ ShownInv'  BY DEF ResultInv, Whole, ShownInv
  <1> QED  BY <1>6, <1>7, <1>9, <1>10, <1>11

LEMMA PhotoNumber ==
  ASSUME NEW c \in PhotoThreads, NEW q \in Session!Quality, PhotosInv, Session!Number(c, q)
  PROVE  PhotosInv'
  <1> USE DEF PhotosInv
  <1> DEFINE n == Session!NextNumber(Session!Taken)
             p == [pc |-> "write", n |-> n, shot |-> q, count |-> "absent"]
             alone == \A d \in PhotoThreads : ~ Busy(d, n)
  <1>1. /\ capture[c].pc = "idle" /\ n \in Session!Numbers /\ q \in Good
        /\ capture' = [capture EXCEPT ![c] = p]
        /\ raw' = raw /\ json' = json /\ preview' = preview /\ intrinsics' = intrinsics
        /\ saved' = saved /\ calibration' = calibration
        /\ temporary' = temporary /\ viewer' = viewer
        /\ raw[n] = "absent"
    BY PlainPhotos, NumberIsFree DEF Session!Number, Session!resultVars
  <1>2. /\ disturbed' = IF alone THEN disturbed \ {n} ELSE disturbed \cup {n}
        /\ unchecked' = IF alone THEN unchecked \ {n} ELSE unchecked
    BY HoldersAreBusy DEF Session!Number
  <1>3. /\ raw \in [Session!Numbers -> Maybe] /\ json \in [Session!Numbers -> Maybe]
        /\ capture \in [PhotoThreads -> Threads]
        /\ unchecked \subseteq Session!Numbers /\ disturbed \subseteq Session!Numbers
    BY DEF PhotoTypes
  <1> HIDE DEF n
  <1>4. p \in Threads /\ p.pc = "write" /\ p.n = n /\ p.shot \in Good
    BY <1>1 DEF Threads, Maybe, Good
  <1> HIDE DEF p
  <1>5. /\ capture' \in [PhotoThreads -> Threads] /\ capture'[c] = p
        /\ \A d \in PhotoThreads : d # c => capture'[d] = capture[d]
    BY <1>1, <1>3, <1>4
  <1>6. PhotoTypes'  BY <1>1, <1>2, <1>3, <1>5 DEF PhotoTypes
  <1>7. AnswerInv'
    <2> SUFFICES ASSUME NEW i \in Session!Numbers, json[i] # "absent"
                 PROVE  \E d \in PhotoThreads :
                          capture'[d].n = i /\ capture'[d].pc \in {"read", "judge"}
      BY <1>1 DEF AnswerInv
    <2>1. PICK d \in PhotoThreads : capture[d].n = i /\ capture[d].pc \in {"read", "judge"}
      BY DEF AnswerInv
    <2>2. d # c  BY <2>1, <1>1
    <2> QED  BY <2>1, <2>2, <1>5
  <1>8. alone => json[n] = "absent"
    BY <1>1 DEF AnswerInv, Busy
  <1>9. \A i : i # n => \A d \in PhotoThreads : Busy(d, i)' <=> Busy(d, i)
    BY <1>1, <1>4, <1>5 DEF Busy
  <1>10. TrackInv'
    <2> SUFFICES ASSUME NEW d \in PhotoThreads, NEW i, i = capture'[d].n,
                        capture'[d].pc # "idle", i \notin disturbed'
                 PROVE  /\ OnTrack(capture'[d], raw'[i], json'[i], unchecked')
                        /\ \A e \in PhotoThreads : Busy(e, i)' => e = d
      BY DEF TrackInv, Busy
    <2>1. CASE i = n
      <3>1. alone  BY <2>1, <1>2
      <3>2. d = c
        BY <2>1, <3>1, <1>5 DEF Busy
      <3>3. OnTrack(p, raw[n], json[n], unchecked')
        <4>1. raw[n] = "absent" /\ json[n] = "absent"  BY <3>1, <1>1, <1>8
        <4> QED  BY <4>1, <1>4 DEF OnTrack
      <3>4. \A e \in PhotoThreads : Busy(e, i)' => e = c
        BY <2>1, <3>1, <1>5 DEF Busy
      <3>5. capture'[d] = p /\ raw'[i] = raw[n] /\ json'[i] = json[n]
        BY <2>1, <3>2, <1>1, <1>5
      <3> QED  BY <2>1, <3>2, <3>3, <3>4, <3>5
    <2>2. CASE i # n
      <3>1. d # c  BY <2>2, <1>4, <1>5
      <3>2. /\ OnTrack(capture[d], raw[i], json[i], unchecked)
            /\ \A e \in PhotoThreads : Busy(e, i) => e = d
        BY <3>1, <2>2, <1>2, <1>5 DEF TrackInv
      <3>3. i \in unchecked' <=> i \in unchecked  BY <2>2, <1>2
      <3>4. OnTrack(capture'[d], raw'[i], json'[i], unchecked')
        BY <3>1, <3>2, <3>3, <1>1, <1>5 DEF OnTrack
      <3> QED  BY <3>2, <3>4, <2>2, <1>9
    <2> QED  BY <2>1, <2>2
  <1>11. LeftInv'
    <2> SUFFICES ASSUME NEW i \in Session!Numbers, raw[i] = "poor",
                        \A d \in PhotoThreads : ~ Busy(d, i)'
                 PROVE  i \in unchecked' \cup disturbed'
      BY <1>1 DEF LeftInv
    <2>1. i # n  BY <1>1
    <2>2. \A d \in PhotoThreads : ~ Busy(d, i)  BY <2>1, <1>9
    <2> QED  BY <2>1, <2>2, <1>2 DEF LeftInv
  <1>12. ResultInv' /\ ShownInv'  BY <1>1 DEF ResultInv, Whole, ShownInv
  <1> QED  BY <1>6, <1>7, <1>10, <1>11, <1>12

\* What PhotoStep asks of the thread that is not alone with its number.
LEMMA OwnPhoto ==
  ASSUME PhotosInv, NEW c \in PhotoThreads, capture[c].pc # "idle"
  PROVE  LET n == capture[c].n IN
         /\ n \in Session!Numbers /\ raw[n] \in Maybe /\ json[n] \in Maybe
         /\ capture[c] \in Threads
         /\ [raw EXCEPT ![n] = raw[n]] = raw /\ [json EXCEPT ![n] = json[n]] = json
         /\ n \notin disturbed => OnTrack(capture[c], raw[n], json[n], unchecked)
  <1>1. /\ raw \in [Session!Numbers -> Maybe] /\ json \in [Session!Numbers -> Maybe]
        /\ capture[c] \in Threads
    BY DEF PhotosInv, PhotoTypes
  <1>2. capture[c].n \in Session!Numbers  BY <1>1 DEF Threads
  <1> QED  BY <1>1, <1>2 DEF PhotosInv, TrackInv

LEMMA PhotoWrite ==
  ASSUME NEW c \in PhotoThreads, PhotosInv, Session!Write(c)
  PROVE  PhotosInv'
  <1> DEFINE n == capture[c].n
             o == capture[c]
             p == [pc |-> "detect", n |-> o.n, shot |-> "absent", count |-> o.count]
  <1>1. o.pc = "write"  BY DEF Session!Write
  <1>2. /\ n \in Session!Numbers /\ raw[n] \in Maybe /\ json[n] \in Maybe /\ o \in Threads
        /\ [json EXCEPT ![n] = json[n]] = json
        /\ n \notin disturbed => OnTrack(o, raw[n], json[n], unchecked)
    BY <1>1, OwnPhoto
  <1>3. o = [pc |-> o.pc, n |-> o.n, shot |-> o.shot, count |-> o.count]  BY <1>2 DEF Threads
  <1>4. /\ raw' = [raw EXCEPT ![n] = o.shot] /\ json' = json /\ unchecked' = unchecked
        /\ disturbed' = disturbed /\ preview' = preview /\ intrinsics' = intrinsics
        /\ saved' = saved /\ calibration' = calibration
        /\ temporary' = temporary /\ viewer' = viewer
        /\ capture' = [capture EXCEPT ![c].pc = "detect", ![c].shot = "absent"]
    BY PlainPhotos DEF Session!Write, Session!resultVars
  <1>5. capture' = [capture EXCEPT ![c] = p]
    <2>1. capture \in [PhotoThreads -> Threads]  BY DEF PhotosInv, PhotoTypes
    <2> DEFINE f == [capture EXCEPT ![c].pc = "detect"]
    <2>2. f = [capture EXCEPT ![c] = [o EXCEPT !.pc = "detect"]]  OBVIOUS
    <2>3. f[c] = [o EXCEPT !.pc = "detect"]  BY <2>1, <2>2
    <2>4. capture' = [f EXCEPT ![c] = [f[c] EXCEPT !.shot = "absent"]]  BY <1>4
    <2>5. [f[c] EXCEPT !.shot = "absent"] = p  BY <2>3, <1>3
    <2>6. [f EXCEPT ![c] = p] = [capture EXCEPT ![c] = p]
      <3>1. DOMAIN f = PhotoThreads /\ \A d \in PhotoThreads : d # c => f[d] = capture[d]
        BY <2>1, <2>2
      <3> HIDE DEF f, p
      <3> QED  BY <3>1, <2>1, <2>2
    <2> QED  BY <2>4, <2>5, <2>6
  <1>6. p \in Threads /\ p.pc = "detect" /\ p.n = n /\ o.shot \in Maybe
    BY <1>2 DEF Threads, Maybe
  <1> HIDE DEF p, o
  <1>7. n \notin disturbed => OnTrack(p, o.shot, json[n], unchecked)
    BY <1>1, <1>2, <1>6 DEF OnTrack
  <1> HIDE DEF n
  <1> QED
    <2>1. PhotoMoves(c, p, o.shot, json[n])
      BY <1>1, <1>2, <1>4, <1>5, <1>6, <1>7 DEF PhotoMoves, n, o
    <2> QED  BY <2>1, PhotoStep

LEMMA PhotoDetect ==
  ASSUME NEW c \in PhotoThreads, PhotosInv, Session!Detect(c)
  PROVE  PhotosInv'
  <1> DEFINE n == capture[c].n
             o == capture[c]
             p == [pc |-> "read", n |-> o.n, shot |-> o.shot, count |-> o.count]
  <1>1. o.pc = "detect"  BY DEF Session!Detect
  <1>2. /\ n \in Session!Numbers /\ raw[n] \in Maybe /\ json[n] \in Maybe /\ o \in Threads
        /\ [json EXCEPT ![n] = json[n]] = json /\ [raw EXCEPT ![n] = raw[n]] = raw
        /\ n \notin disturbed => OnTrack(o, raw[n], json[n], unchecked)
    BY <1>1, OwnPhoto
  <1>3. o = [pc |-> o.pc, n |-> o.n, shot |-> o.shot, count |-> o.count]  BY <1>2 DEF Threads
  <1>4. /\ raw' = raw
        /\ disturbed' = disturbed /\ preview' = preview /\ intrinsics' = intrinsics
        /\ saved' = saved /\ calibration' = calibration
        /\ temporary' = temporary /\ viewer' = viewer
        /\ capture' = [capture EXCEPT ![c].pc = "read"]
        /\ \/ raw[n] # "absent" /\ json' = [json EXCEPT ![n] = raw[n]] /\ unchecked' = unchecked
           \/ unchecked' = unchecked \cup {n} /\ json' = json
    BY PlainPhotos DEF Session!Detect, Session!resultVars
  <1>5. capture' = [capture EXCEPT ![c] = p]
    <2>1. capture' = [capture EXCEPT ![c] = [o EXCEPT !.pc = "read"]]  BY <1>4
    <2>2. [o EXCEPT !.pc = "read"] = p  BY <1>3
    <2> QED  BY <2>1, <2>2
  <1>6. p \in Threads /\ p.pc = "read" /\ p.n = n
    BY <1>2 DEF Threads
  <1> HIDE DEF p
  <1>7. n \notin disturbed =>
          OnTrack(p, raw[n], raw[n], unchecked) /\ OnTrack(p, raw[n], json[n], unchecked \cup {n})
    BY <1>1, <1>2, <1>6 DEF OnTrack
  <1>8. CASE raw[n] # "absent" /\ json' = [json EXCEPT ![n] = raw[n]] /\ unchecked' = unchecked
    <2>1. raw' = [raw EXCEPT ![n] = raw[n]]
      BY <1>2, <1>4, <1>8
    <2>2. n \notin disturbed => OnTrack(p, raw[n], raw[n], unchecked')
      BY <1>7, <1>8
    <2> HIDE DEF n, o
    <2>3. PhotoMoves(c, p, raw[n], raw[n])
      BY <1>1, <1>2, <1>4, <1>5, <1>6, <1>8, <2>1, <2>2 DEF PhotoMoves, n, o
    <2> QED  BY <2>3, PhotoStep
  <1>9. CASE unchecked' = unchecked \cup {n} /\ json' = json
    <2>1. n \in unchecked'  BY <1>9
    <2>2. n \notin disturbed => OnTrack(p, raw[n], json[n], unchecked')
      BY <1>9, <1>7
    <2>3. /\ raw' = [raw EXCEPT ![n] = raw[n]] /\ json' = [json EXCEPT ![n] = json[n]]
      BY <1>2, <1>4, <1>9
    <2>4. o.pc \notin {"read", "judge"}  BY <1>1
    <2> HIDE DEF n, o
    <2>5. PhotoMoves(c, p, raw[n], json[n])
      BY <1>1, <1>2, <1>4, <1>5, <1>6, <2>2, <2>3, <2>4 DEF PhotoMoves, n, o
    <2> QED  BY <2>5, PhotoStep
  <1> QED  BY <1>4, <1>8, <1>9

LEMMA PhotoRead ==
  ASSUME NEW c \in PhotoThreads, PhotosInv, Session!Read(c)
  PROVE  PhotosInv'
  <1> DEFINE n == capture[c].n
             o == capture[c]
             p == [pc |-> "judge", n |-> o.n, shot |-> o.shot, count |-> json[n]]
  <1>1. o.pc = "read"  BY DEF Session!Read
  <1>2. /\ n \in Session!Numbers /\ raw[n] \in Maybe /\ json[n] \in Maybe /\ o \in Threads
        /\ [json EXCEPT ![n] = json[n]] = json /\ [raw EXCEPT ![n] = raw[n]] = raw
        /\ n \notin disturbed => OnTrack(o, raw[n], json[n], unchecked)
    BY <1>1, OwnPhoto
  <1>3. o = [pc |-> o.pc, n |-> o.n, shot |-> o.shot, count |-> o.count]  BY <1>2 DEF Threads
  <1>4. /\ raw' = raw /\ json' = json /\ unchecked' = unchecked
        /\ disturbed' = disturbed /\ preview' = preview /\ intrinsics' = intrinsics
        /\ saved' = saved /\ calibration' = calibration
        /\ temporary' = temporary /\ viewer' = viewer
        /\ capture' = [capture EXCEPT ![c] =
             IF json[n] = "absent" THEN Session!Idle
             ELSE [o EXCEPT !.pc = "judge", !.count = json[n]]]
    BY PlainPhotos DEF Session!Read, Session!resultVars
  <1>5. CASE json[n] = "absent"
    <2>1. capture' = [capture EXCEPT ![c] = Session!Idle]  BY <1>4, <1>5
    <2>2. (n \notin disturbed /\ raw[n] = "poor") => n \in unchecked
      BY <1>1, <1>2, <1>5 DEF OnTrack
    <2>3. /\ raw' = [raw EXCEPT ![n] = raw[n]] /\ json' = [json EXCEPT ![n] = json[n]]
      BY <1>2, <1>4
    <2> HIDE DEF n, o
    <2>4. PhotoMoves(c, Session!Idle, raw[n], json[n])
      BY <1>1, <1>2, <1>4, <1>5, <2>1, <2>2, <2>3, PlainPhotos DEF PhotoMoves, n, o
    <2> QED  BY <2>4, PhotoStep
  <1>6. CASE json[n] # "absent"
    <2>1. capture' = [capture EXCEPT ![c] = p]
      <3> DEFINE e == [o EXCEPT !.pc = "judge", !.count = json[n]]
      <3>1. e = p
        <4> DEFINE j == json[n]
                   a == [o EXCEPT !.pc = "judge"]
        <4>1. a = [pc |-> "judge", n |-> o.n, shot |-> o.shot, count |-> o.count]  BY <1>3
        <4>2. [a EXCEPT !.count = j]
                = [pc |-> "judge", n |-> o.n, shot |-> o.shot, count |-> j]
          <5> HIDE DEF j, a
          <5> QED  BY <4>1
        <4>3. e = [a EXCEPT !.count = j]  OBVIOUS
        <4> QED  BY <4>2, <4>3
      <3>2. capture' = [capture EXCEPT ![c] = e]  BY <1>4, <1>6
      <3> HIDE DEF e, p
      <3> QED  BY <3>1, <3>2
    <2>2. p \in Threads /\ p.pc = "judge" /\ p.n = n /\ p.count = json[n]
      BY <1>2 DEF Threads
    <2> HIDE DEF p
    <2>3. n \notin disturbed => OnTrack(p, raw[n], json[n], unchecked)
      BY <1>1, <1>2, <1>6, <2>2 DEF OnTrack
    <2>4. /\ raw' = [raw EXCEPT ![n] = raw[n]] /\ json' = [json EXCEPT ![n] = json[n]]
      BY <1>2, <1>4
    <2>5. n \notin disturbed => OnTrack(p, raw[n], json[n], unchecked')
      BY <2>3, <1>4
    <2> HIDE DEF n, o
    <2>6. PhotoMoves(c, p, raw[n], json[n])
      BY <1>1, <1>2, <1>4, <2>1, <2>2, <2>4, <2>5 DEF PhotoMoves, n, o
    <2> QED  BY <2>6, PhotoStep
  <1> QED  BY <1>5, <1>6

LEMMA PhotoJudge ==
  ASSUME NEW c \in PhotoThreads, PhotosInv, Session!Judge(c)
  PROVE  PhotosInv'
  <1> DEFINE n == capture[c].n
             o == capture[c]
             x == IF o.count = "poor" THEN "absent" ELSE raw[n]
  <1>1. o.pc = "judge"  BY DEF Session!Judge
  <1>2. /\ n \in Session!Numbers /\ raw[n] \in Maybe /\ json[n] \in Maybe /\ o \in Threads
        /\ [raw EXCEPT ![n] = raw[n]] = raw
        /\ n \notin disturbed => OnTrack(o, raw[n], json[n], unchecked)
    BY <1>1, OwnPhoto
  <1>3. /\ json' = [json EXCEPT ![n] = "absent"] /\ unchecked' = unchecked
        /\ disturbed' = disturbed /\ preview' = preview /\ intrinsics' = intrinsics
        /\ saved' = saved /\ calibration' = calibration
        /\ temporary' = temporary /\ viewer' = viewer
        /\ capture' = [capture EXCEPT ![c] = Session!Idle]
        /\ raw' = IF o.count = "poor" THEN [raw EXCEPT ![n] = "absent"] ELSE raw
    BY PlainPhotos DEF Session!Judge, Session!resultVars
  <1>4. raw' = [raw EXCEPT ![n] = x]  BY <1>2, <1>3
  <1>5. x \in Maybe  BY <1>2 DEF Maybe
  <1>6. n \notin disturbed => x # "poor"
    BY <1>1, <1>2 DEF OnTrack
  <1>7. "absent" \in Maybe  BY DEF Maybe
  <1> HIDE DEF x
  <1>8. PhotoMoves(c, Session!Idle, x, "absent")
    BY <1>1, <1>2, <1>3, <1>4, <1>5, <1>6, <1>7, PlainPhotos DEF PhotoMoves
  <1> QED  BY <1>8, PhotoStep

LEMMA PhotoDelete ==
  ASSUME NEW n \in Session!Numbers, PhotosInv, Session!Delete(n)
  PROVE  PhotosInv'
  <1> USE DEF PhotosInv
  <1> DEFINE alone == \A d \in PhotoThreads : ~ Busy(d, n)
  <1>1. /\ raw' = [raw EXCEPT ![n] = "absent"] /\ json' = json /\ capture' = capture
        /\ unchecked' = unchecked /\ preview' = preview /\ intrinsics' = intrinsics
        /\ saved' = saved /\ calibration' = calibration
        /\ temporary' = temporary /\ viewer' = viewer
        /\ disturbed' = IF alone THEN disturbed ELSE disturbed \cup {n}
    BY PlainPhotos, HoldersAreBusy DEF Session!Delete, Session!resultVars
  <1>2. /\ raw \in [Session!Numbers -> Maybe] /\ "absent" \in Maybe
    BY DEF PhotoTypes, Maybe
  <1>3. /\ raw' \in [Session!Numbers -> Maybe] /\ raw'[n] = "absent"
        /\ \A i \in Session!Numbers : i # n => raw'[i] = raw[i]
    BY <1>1, <1>2
  <1>4. PhotoTypes'  BY <1>1, <1>3 DEF PhotoTypes
  <1>5. AnswerInv'  BY <1>1 DEF AnswerInv
  <1>6. TrackInv'
    <2> SUFFICES ASSUME NEW d \in PhotoThreads, NEW i, i = capture[d].n,
                        capture[d].pc # "idle", i \notin disturbed'
                 PROVE  /\ OnTrack(capture[d], raw'[i], json[i], unchecked)
                        /\ \A e \in PhotoThreads : Busy(e, i) => e = d
      BY <1>1 DEF TrackInv, Busy
    <2>1. Busy(d, i)  BY DEF Busy
    <2>2. i # n /\ i \notin disturbed  BY <2>1, <1>1
    <2>3. i \in Session!Numbers  BY DEF PhotoTypes, Threads
    <2>4. raw'[i] = raw[i]  BY <2>2, <2>3, <1>3
    <2> QED  BY <2>2, <2>4 DEF TrackInv
  <1>7. LeftInv'
    <2> SUFFICES ASSUME NEW i \in Session!Numbers, raw'[i] = "poor",
                        \A d \in PhotoThreads : ~ Busy(d, i)
                 PROVE  i \in unchecked \cup disturbed'
      BY <1>1 DEF LeftInv, Busy
    <2>1. raw[i] = "poor"  BY <1>3
    <2> QED  BY <2>1, <1>1 DEF LeftInv
  <1>8. ResultInv' /\ ShownInv'  BY <1>1 DEF ResultInv, Whole, ShownInv
  <1> QED  BY <1>4, <1>5, <1>6, <1>7, <1>8

LEMMA PhotoReset ==
  ASSUME PhotosInv, Session!Reset
  PROVE  PhotosInv'
  <1> USE DEF PhotosInv
  <1>1. /\ raw' = [n \in Session!Numbers |-> "absent"]
        /\ json' = [n \in Session!Numbers |-> "absent"] /\ capture' = capture
        /\ unchecked' = unchecked /\ preview' = "absent" /\ intrinsics' = {}
        /\ saved' = saved /\ calibration' = calibration
        /\ temporary' = [v \in Session!Viewers |-> "absent"] /\ viewer' = viewer
        /\ disturbed' = disturbed \cup
             {n \in Session!Numbers : ~ \A d \in PhotoThreads : ~ Busy(d, n)}
    BY PlainPhotos, HoldersAreBusy DEF Session!Reset, Session!NoResult
  <1>2. "absent" \in Maybe  BY DEF Maybe
  <1>3. PhotoTypes'  BY <1>1, <1>2 DEF PhotoTypes
  <1>4. AnswerInv' /\ LeftInv'  BY <1>1 DEF AnswerInv, LeftInv
  <1>5. TrackInv'
    <2> SUFFICES ASSUME NEW d \in PhotoThreads, capture[d].pc # "idle"
                 PROVE  capture[d].n \in disturbed'
      BY <1>1 DEF TrackInv
    <2>1. capture[d].n \in Session!Numbers /\ Busy(d, capture[d].n)
      BY DEF PhotoTypes, Threads, Busy
    <2> QED  BY <2>1, <1>1
  <1>6. ResultInv' /\ ShownInv'  BY <1>1 DEF ResultInv, Whole, ShownInv
  <1> QED  BY <1>3, <1>4, <1>5, <1>6

-----------------------------------------------------------------------------
(* The calibration                                                         *)

LEMMA SameCount ==
  \A S : Session!Cardinality(S) = Cardinality(S) /\ Session!IsFiniteSet(S) = IsFiniteSet(S)
  BY Zenon DEF Session!Cardinality, Cardinality, Session!IsFiniteSet, IsFiniteSet

\* But for the preview and a file of each viewer, the views are photos.
LEMMA UsableIsWhole ==
  ASSUME NEW views \in SUBSET Session!Views, Session!Cardinality(views) >= MinViews
  PROVE  Whole(views)
  <1> DEFINE photos == views \cap Session!Numbers
             others == views \ Session!Numbers
             most == Session!Viewers \cup {Session!Preview}
  <1>1. IsFiniteSet(Session!Numbers)
    <2>1. 0 \in Int /\ MaxNumber \in Int  BY PlainPhotos
    <2> QED  BY <2>1, FS_Interval, PlainPhotos
  <1>2. IsFiniteSet(Session!Viewers) /\ Cardinality(Session!Viewers) = MaxViewers
    <2>1. - MaxViewers \in Int /\ -1 \in Int /\ Session!Viewers = - MaxViewers .. -1
      BY PlainPhotos DEF Session!Viewers
    <2>2. /\ IsFiniteSet(- MaxViewers .. -1)
          /\ Cardinality(- MaxViewers .. -1) =
               IF - MaxViewers > -1 THEN 0 ELSE -1 - (- MaxViewers) + 1
      BY <2>1, FS_Interval
    <2>3. (IF - MaxViewers > -1 THEN 0 ELSE -1 - (- MaxViewers) + 1) = MaxViewers
      BY PlainPhotos
    <2> QED  BY <2>1, <2>2, <2>3
  <1>3. Session!Preview \notin Session!Viewers /\ Session!Preview \notin Session!Numbers
    BY PlainPhotos DEF Session!Preview, Session!Viewers
  <1>4. IsFiniteSet(most) /\ Cardinality(most) = MaxViewers + 1
    BY <1>2, <1>3, FS_AddElement
  <1>5. IsFiniteSet(views)
    <2>1. IsFiniteSet(most \cup Session!Numbers)  BY <1>1, <1>4, FS_Union
    <2>2. views \subseteq most \cup Session!Numbers  BY DEF Session!Views
    <2> QED  BY <2>1, <2>2, FS_Subset
  <1>6. Cardinality(others) = Cardinality(views) - Cardinality(photos)
    BY <1>5, FS_Difference
  <1>7. Cardinality(others) <= MaxViewers + 1
    <2>1. others \subseteq most  BY DEF Session!Views
    <2> HIDE DEF most, others
    <2> QED  BY <2>1, <1>4, FS_Subset
  <1>8. IsFiniteSet(photos)  BY <1>5, FS_Subset
  <1> HIDE DEF photos, others, most
  <1>9. Cardinality(views) \in Nat /\ Cardinality(photos) \in Nat
    BY <1>5, <1>8, FS_CardinalityType
  <1>10. Cardinality(views) >= MinViews  BY SameCount
  <1>11. Cardinality(photos) >= MinViews - 1 - MaxViewers
    BY <1>6, <1>7, <1>9, <1>10, PlainPhotos
  <1> QED  BY <1>10, <1>11, SameCount DEF Whole, photos

\* A set of images has a first one.
LEMMA FirstImage ==
  ASSUME NEW images \in SUBSET Session!Views, images # {}
  PROVE  Session!Min(images) \in images
  <1> DEFINE M == MaxViewers + MaxNumber + 1
             T == {i + MaxViewers : i \in images}
  <1>1. Session!Views \subseteq - MaxViewers .. (MaxNumber + 1)
    BY PlainPhotos DEF Session!Views, Session!Viewers, Session!Preview
  <1>2. \A i \in images : i \in Int /\ - MaxViewers <= i /\ i <= MaxNumber + 1
    BY <1>1, PlainPhotos
  <1>3. M \in Nat /\ T \subseteq 0 .. M /\ T # {}
    <2>1. \A i \in images : i + MaxViewers \in 0 .. M  BY <1>2, PlainPhotos
    <2>2. M \in Nat  BY PlainPhotos
    <2> QED  BY <2>1, <2>2
  <1> HIDE DEF M, T
  <1>4. PICK e \in T : \A n \in T : e <= n  BY <1>3, Extremes
  <1>5. PICK first \in images : e = first + MaxViewers  BY <1>4 DEF T
  <1>6. \A i \in images : first <= i
    <2> TAKE i \in images
    <2>1. first + MaxViewers <= i + MaxViewers  BY <1>4, <1>5 DEF T
    <2> QED  BY <2>1, <1>2, PlainPhotos
  <1> QED  BY <1>6 DEF Session!Min

LEMMA ShowsPhoto ==
  ASSUME NEW i \in Session!Numbers
  PROVE  Session!Shows(i) = raw[i]
  <1>1. i # Session!Preview /\ i \notin Session!Viewers
    BY PlainPhotos DEF Session!Preview, Session!Viewers
  <1> QED  BY <1>1 DEF Session!Shows

\* An image of the listing is as good as an image is.
LEMMA ShowsQuality ==
  ASSUME PhotosInv, NEW i \in Session!Views
  PROVE  Session!Shows(i) \in Maybe
  <1>1. /\ raw \in [Session!Numbers -> Maybe] /\ preview \in Maybe
        /\ temporary \in [Session!Viewers -> Maybe]
    BY DEF PhotosInv, PhotoTypes
  <1>2. CASE i \in Session!Numbers
    BY <1>1, <1>2, ShowsPhoto
  <1>3. CASE i = Session!Preview
    <2>1. i \notin Session!Numbers /\ i \notin Session!Viewers
      BY <1>3, PlainPhotos DEF Session!Preview, Session!Viewers
    <2> QED  BY <1>1, <1>3, <2>1 DEF Session!Shows
  <1>4. CASE i \in Session!Viewers
    <2>1. i \notin Session!Numbers /\ i # Session!Preview
      BY <1>4, PlainPhotos DEF Session!Preview, Session!Viewers
    <2> QED  BY <1>1, <1>4, <2>1 DEF Session!Shows
  <1> QED  BY <1>2, <1>3, <1>4 DEF Session!Views

LEMMA CalibrationStep ==
  ASSUME PhotosInv, NEW r \in CalibrationThreads,
         Session!Start(r) \/ Session!Tool(r) \/ Session!Copy(r)
  PROVE  PhotosInv'
  <1> USE DEF PhotosInv
  <1> DEFINE Runs == [pc : {"idle", "tool", "copy"}, views : SUBSET Session!Views]
  <1>1. /\ raw' = raw /\ json' = json /\ capture' = capture
        /\ unchecked' = unchecked /\ disturbed' = disturbed
        /\ temporary' = temporary /\ viewer' = viewer
    BY DEF Session!Start, Session!Tool, Session!Copy, Session!captureVars
  <1>2. AnswerInv' /\ TrackInv' /\ LeftInv' /\ ShownInv'
    BY <1>1 DEF AnswerInv, TrackInv, LeftInv, Busy, ShownInv
  <1>3. /\ calibration \in [CalibrationThreads -> Runs]
        /\ Whole(intrinsics) /\ Whole(saved)
        /\ \A s \in CalibrationThreads :
             calibration[s].pc = "tool" => calibration[s].views \cap Session!Numbers # {}
    BY DEF ResultInv
  <1>4. Session!IdleRun \in Runs /\ Session!IdleRun.pc = "idle"
    BY DEF Session!IdleRun
  <1>5. ASSUME NEW p \in Runs, calibration' = [calibration EXCEPT ![r] = p],
               p.pc = "tool" => p.views \cap Session!Numbers # {},
               Whole(intrinsics'), Whole(saved'), preview' \in Maybe
        PROVE  PhotosInv'
    <2> HIDE DEF Runs
    <2>1. /\ calibration' \in [CalibrationThreads -> Runs] /\ calibration'[r] = p
          /\ \A s \in CalibrationThreads : s # r => calibration'[s] = calibration[s]
      BY <1>3, <1>5
    <2>2. \A s \in CalibrationThreads :
            calibration'[s].pc = "tool" => calibration'[s].views \cap Session!Numbers # {}
      BY <1>3, <1>5, <2>1
    <2>3. ResultInv'
      BY <1>5, <2>1, <2>2 DEF ResultInv, Runs
    <2>4. PhotoTypes'  BY <1>1, <1>5 DEF PhotoTypes
    <2> QED  BY <2>3, <2>4, <1>2
  <1>6. preview \in Maybe /\ Session!Taken \subseteq Session!Numbers
    BY DEF Session!Taken, PhotoTypes
  <1>7. Session!Images \subseteq Session!Views /\ Session!Taken \subseteq Session!Images
    <2>1. \A i \in Session!Taken : Session!Shows(i) # Session!Absent
      BY ShowsPhoto DEF Session!Taken
    <2> QED  BY <2>1, <1>6 DEF Session!Images, Session!Views
  <1>8. CASE Session!Start(r)
    <2> DEFINE p == [pc |-> "tool", views |-> Session!Images]
    <2>1. /\ Session!Taken # {} /\ calibration' = [calibration EXCEPT ![r] = p]
          /\ preview' = preview /\ intrinsics' = intrinsics /\ saved' = saved
      BY <1>8 DEF Session!Start
    <2>2. p \in Runs /\ p.views \cap Session!Numbers # {}
      BY <1>6, <1>7, <2>1
    <2> HIDE DEF p, Runs
    <2> QED  BY <2>1, <2>2, <1>3, <1>5, <1>6 DEF Whole
  <1>9. CASE Session!Copy(r)
    <2>1. /\ calibration' = [calibration EXCEPT ![r] = Session!IdleRun]
          /\ preview' = preview /\ intrinsics' = intrinsics
          /\ saved' = saved \/ saved' = intrinsics
      BY <1>9 DEF Session!Copy
    <2> HIDE DEF Runs
    <2> QED  BY <2>1, <1>3, <1>4, <1>5, <1>6 DEF Whole
  <1>10. CASE Session!Tool(r)
    <2> DEFINE images == calibration[r].views
               usable == Session!Usable(images)
               p == [pc |-> "copy", views |-> {}]
    <2>1. saved' = saved /\ calibration[r].pc = "tool"  BY <1>10 DEF Session!Tool
    <2>2. CASE /\ calibration' = [calibration EXCEPT ![r] = Session!IdleRun]
               /\ preview' = preview /\ intrinsics' = intrinsics
      <3> HIDE DEF Runs
      <3> QED  BY <2>1, <2>2, <1>3, <1>4, <1>5, <1>6 DEF Whole
    <2>3. CASE /\ images \subseteq Session!Images
               /\ Session!Cardinality(usable) >= MinViews
               /\ preview' = Session!Shows(Session!Min(images))
               /\ intrinsics' = usable
               /\ calibration' = [calibration EXCEPT ![r] = p]
      <3>1. p \in Runs /\ p.pc = "copy"  OBVIOUS
      <3>2. usable \in SUBSET Session!Views  BY <2>3, <1>7 DEF Session!Usable
      <3>3. Whole(usable)  BY <3>2, <2>3, UsableIsWhole
      <3>4. preview' \in Maybe
        <4>1. images \in SUBSET Session!Views /\ images # {}  BY <2>1, <2>3, <1>3, <1>7
        <4>2. Session!Min(images) \in Session!Views
          <5> HIDE DEF images
          <5> QED  BY <4>1, FirstImage
        <4>3. Session!Shows(Session!Min(images)) \in Maybe  BY <4>2, ShowsQuality
        <4> QED  BY <4>3, <2>3
      <3> HIDE DEF usable, p, Runs
      <3> QED  BY <3>1, <3>3, <3>4, <2>1, <2>3, <1>3, <1>5 DEF Whole
    <2> QED  BY <1>10, <2>2, <2>3 DEF Session!Tool
  <1> QED  BY <1>8, <1>9, <1>10

LEMMA ViewerStep ==
  ASSUME PhotosInv, NEW v \in Session!Viewers,
         Session!Ask(v) \/ Session!Undistort(v) \/ Session!Remove(v)
  PROVE  PhotosInv'
  <1> USE DEF PhotosInv
  <1>1. /\ raw' = raw /\ json' = json /\ capture' = capture
        /\ unchecked' = unchecked /\ disturbed' = disturbed
        /\ preview' = preview /\ intrinsics' = intrinsics /\ saved' = saved
        /\ calibration' = calibration
    BY DEF Session!Ask, Session!Undistort, Session!Remove, Session!viewedVars,
           Session!captureVars
  <1>2. AnswerInv' /\ TrackInv' /\ LeftInv' /\ ResultInv'
    BY <1>1 DEF AnswerInv, TrackInv, LeftInv, Busy, ResultInv, Whole
  <1>3. /\ temporary \in [Session!Viewers -> Maybe]
        /\ viewer \in [Session!Viewers -> {"idle", "asked", "shown"}]
    BY DEF PhotoTypes
  <1>4. PICK t \in Maybe, w \in {"idle", "asked", "shown"} :
          /\ temporary' = [temporary EXCEPT ![v] = t] /\ viewer' = [viewer EXCEPT ![v] = w]
          /\ t # "absent" => w = "shown"
    <2>1. CASE Session!Ask(v)
      <3>1. temporary[v] = "absent"  BY <2>1 DEF Session!Ask, ShownInv
      <3>2. temporary' = [temporary EXCEPT ![v] = "absent"]
        BY <2>1, <3>1, <1>3 DEF Session!Ask
      <3> QED  BY <2>1, <3>2 DEF Session!Ask, Maybe
    <2>2. CASE Session!Undistort(v)
      <3>1. temporary[v] = "absent"  BY <2>2 DEF Session!Undistort, ShownInv
      <3>2. [temporary EXCEPT ![v] = "absent"] = temporary  BY <3>1, <1>3
      <3> QED  BY <2>2, <3>2, PlainPhotos DEF Session!Undistort, Maybe
    <2>3. CASE Session!Remove(v)
      BY <2>3, PlainPhotos DEF Session!Remove, Maybe
    <2> QED  BY <2>1, <2>2, <2>3
  <1>5. /\ temporary' \in [Session!Viewers -> Maybe] /\ temporary'[v] = t
        /\ viewer' \in [Session!Viewers -> {"idle", "asked", "shown"}] /\ viewer'[v] = w
        /\ \A u \in Session!Viewers : u # v =>
             temporary'[u] = temporary[u] /\ viewer'[u] = viewer[u]
    BY <1>3, <1>4
  <1>6. PhotoTypes'  BY <1>1, <1>5 DEF PhotoTypes
  <1>7. ShownInv'  BY <1>4, <1>5 DEF ShownInv
  <1> QED  BY <1>2, <1>6, <1>7

-----------------------------------------------------------------------------
LEMMA PhotosInductive == PhotosInv /\ [Session!Next]_(Session!vars) => PhotosInv'
  <1> SUFFICES ASSUME PhotosInv, [Session!Next]_(Session!vars) PROVE PhotosInv'  OBVIOUS
  <1>1. CASE Session!Next
    BY <1>1, PhotoNumber, PhotoWrite, PhotoDetect, PhotoRead, PhotoJudge, PhotoDelete,
       PhotoReset, CalibrationStep, ViewerStep
    DEF Session!Next
  <1>2. CASE UNCHANGED Session!vars
    <2>1. /\ raw' = raw /\ json' = json /\ capture' = capture
          /\ unchecked' = unchecked /\ disturbed' = disturbed
          /\ preview' = preview /\ intrinsics' = intrinsics /\ saved' = saved
          /\ calibration' = calibration /\ temporary' = temporary /\ viewer' = viewer
      BY <1>2 DEF Session!vars, Session!captureVars, Session!resultVars
    <2> QED
      BY <2>1 DEF PhotosInv, PhotoTypes, AnswerInv, TrackInv, LeftInv, Busy, ResultInv,
                  Whole, ShownInv
  <1> QED  BY <1>1, <1>2

LEMMA PhotosInitially == Session!Init => PhotosInv
  <1> SUFFICES ASSUME Session!Init PROVE PhotosInv  OBVIOUS
  <1>1. "absent" \in Maybe /\ Session!Absent = "absent"  BY PlainPhotos DEF Maybe
  <1>2. \A c \in PhotoThreads : capture[c] = Session!Idle  BY DEF Session!Init
  <1>3. PhotoTypes  BY <1>1, PlainPhotos DEF Session!Init, PhotoTypes
  <1>4. AnswerInv /\ LeftInv  BY <1>1 DEF Session!Init, AnswerInv, LeftInv
  <1>5. TrackInv  BY <1>2, PlainPhotos DEF TrackInv
  <1>6. ResultInv
    <2>1. Session!IdleRun = [pc |-> "idle", views |-> {}]  BY DEF Session!IdleRun
    <2>2. /\ Session!IdleRun \in [pc : {"idle", "tool", "copy"}, views : SUBSET Session!Views]
          /\ Session!IdleRun.pc = "idle"
      BY <2>1
    <2>3. \A r \in CalibrationThreads : calibration[r] = Session!IdleRun
      BY DEF Session!Init
    <2>4. calibration \in
            [CalibrationThreads -> [pc : {"idle", "tool", "copy"}, views : SUBSET Session!Views]]
      BY <2>2 DEF Session!Init
    <2>5. intrinsics = {} /\ saved = {}  BY DEF Session!Init, Session!NoResult
    <2> QED  BY <2>2, <2>3, <2>4, <2>5 DEF ResultInv, Whole
  <1>7. ShownInv  BY <1>1 DEF Session!Init, ShownInv
  <1> QED  BY <1>3, <1>4, <1>5, <1>6, <1>7 DEF PhotosInv

LEMMA PhotosSafe == PhotosInv => Session!Safety
  <1> SUFFICES ASSUME PhotosInv PROVE Session!Safety  OBVIOUS
  <1> USE DEF PhotosInv
  <1>1. Session!TypeOK
    <2>1. Session!Quality \cup {Session!Absent} = Maybe  BY PlainPhotos DEF Maybe
    <2>2. \A c \in PhotoThreads : capture[c].n \in Session!Numbers
      BY DEF PhotoTypes, Threads
    <2>3. \A r \in CalibrationThreads : calibration[r].pc \in {"idle", "tool", "copy"}
      BY DEF ResultInv
    <2> QED  BY <2>1, <2>2, <2>3 DEF PhotoTypes, Session!TypeOK
  <1>2. Session!KeptIsGood
    BY HoldersAreBusy DEF Session!KeptIsGood, LeftInv, Session!Taken
  <1>3. Session!NoOldAnswer
    <2> SUFFICES ASSUME NEW n \in Session!Numbers, json[n] # "absent"
                 PROVE  Session!Holders(n) # {}
      BY PlainPhotos DEF Session!NoOldAnswer
    <2>1. PICK c \in PhotoThreads : capture[c].n = n /\ capture[c].pc \in {"read", "judge"}
      BY DEF AnswerInv
    <2>2. Busy(c, n)  BY <2>1 DEF Busy
    <2> QED  BY <2>2, HoldersAreBusy
  <1>4. Session!OneNumberOnePhoto
    BY PlainPhotos DEF Session!OneNumberOnePhoto, TrackInv, OnTrack
  <1>5. Session!SavedIsWhole
    BY DEF Session!SavedIsWhole, ResultInv, Whole, Session!NoResult
  <1>6. Session!TemporariesAreRemoved
    BY PlainPhotos DEF Session!TemporariesAreRemoved, ShownInv
  <1> QED  BY <1>1, <1>2, <1>3, <1>4, <1>5, <1>6 DEF Session!Safety

HIDE SessionAssumption DEF Session!ConstantAssumption

\* Results are computed from captures of one board and size that the camera still
\* had, and from photos that were checked: in every behaviour of the composition,
\* for any number of channels, boards, captures, photos and calibrations.
THEOREM CalibrationSafetyHolds == MCSpec => []CalibrationSafety
  <1>1. MCInit => CameraInv /\ PhotosInv  BY CameraInitially, PhotosInitially DEF MCInit
  <1>2. [Web \/ Calibrates \/ Shows \/ Tells]_allVars => [Camera!Next]_(Camera!vars)
    BY DEF allVars, calibrationVars, cameraVars, Camera!vars, Web, Calibrates, Shows, Tells
  <1>3. [Web \/ Calibrates \/ Shows \/ Tells]_allVars => [Session!Next]_(Session!vars)
    BY DEF allVars, calibrationVars, sessionVars, Session!vars, Session!captureVars,
           Session!resultVars, Web, Calibrates, Shows, Tells
  <1>4. CameraInv /\ PhotosInv => CalibrationSafety
    BY CameraSafe, PhotosSafe DEF CalibrationSafety
  <1> QED  BY <1>1, <1>2, <1>3, <1>4, CameraInductive, PhotosInductive, PTL DEF MCSpec

-----------------------------------------------------------------------------
\* The video source of the terminal (TerminalVideo).

\* A call or message of that kind is on its way, behind the first k calls.
Follows(what, k) ==
  \/ \E j \in 1 .. Len(posted) : j > k /\ posted[j].what = what
  \/ \E j \in 1 .. Len(bus) : bus[j].what = what

\* The session plays, or has failed and its failure is on its way behind k calls.
PlayedOrTold(k) == graph = "playing" \/ (graph = "failed" /\ Follows("Failed", k))

VideoTypes ==
  /\ Video!TypeOK
  /\ \A i \in 1 .. Len(bus) : bus[i].what # "Deliver"
  /\ graph # "none" => pipeline

PlannedInv ==
  /\ m_deliveryQueued <=> \E i \in 1 .. Len(posted) : posted[i].what = "Deliver"
  /\ \A i, j \in 1 .. Len(posted) :
       posted[i].what = "Deliver" /\ posted[j].what = "Deliver" => i = j
  /\ \A s \in Slots : m_pending[s] # "none" =>
       m_deliveryQueued \/ deliverer = "lowered" \/ streamer[s] = "stored"

RetryInv ==
  /\ m_userStopped => ~ pipeline /\ ~ connectTimer /\ reconnectTimer = 0
  /\ pipeline /\ connectionState = "Disconnected" => reconnectTimer > 0
  /\ pipeline /\ ~ fooled /\ ~ connectTimer /\ reconnectTimer = 0 =>
       connectionState = "Connected"

ConnectedInv ==
  pipeline /\ ~ fooled /\ connectionState = "Connected" =>
    ~ Follows("Connecting", 0) /\ PlayedOrTold(0)

PostedInv ==
  \A i \in 1 .. Len(posted) : posted[i].what = "Connected" /\ posted[i].good =>
    ~ Follows("Connecting", i) /\ PlayedOrTold(i)

BusInv ==
  \A i \in 1 .. Len(bus) : bus[i].what = "Connected" /\ bus[i].good =>
    /\ \A j \in 1 .. Len(bus) : j > i => bus[j].what # "Connecting"
    /\ \/ graph = "playing"
       \/ graph = "failed" /\ \E j \in 1 .. Len(bus) : j > i /\ bus[j].what = "Failed"

VideoInv == VideoTypes /\ PlannedInv /\ RetryInv /\ ConnectedInv /\ PostedInv /\ BusInv

USE VideoAssumption DEF Video!ConstantAssumption

\* What a step on the bus leaves alone.
BusOnly ==
  /\ pipeline' = pipeline /\ m_userStopped' = m_userStopped /\ connectTimer' = connectTimer
  /\ connectionState' = connectionState /\ reconnectTimer' = reconnectTimer
  /\ m_reconnectDelayMs' = m_reconnectDelayMs /\ m_everConnected' = m_everConnected
  /\ stopTimer' = stopTimer /\ m_pending' = m_pending
  /\ m_deliveryQueued' = m_deliveryQueued /\ deliverer' = deliverer /\ streamer' = streamer
  /\ fooled' = fooled

LEMMA TypesHold ==
  ASSUME VideoTypes
  PROVE  /\ pipeline \in BOOLEAN /\ m_userStopped \in BOOLEAN /\ connectTimer \in BOOLEAN
         /\ m_everConnected \in BOOLEAN /\ stopTimer \in BOOLEAN
         /\ m_deliveryQueued \in BOOLEAN /\ fooled \in BOOLEAN
         /\ connectionState \in {"Disconnected", "Connecting", "Connected"}
         /\ reconnectTimer \in 0 .. kReconnectMaxDelayMs
         /\ m_reconnectDelayMs \in 0 .. Video!maxDelay
         /\ graph \in {"none", "opening", "paused", "playing", "failing", "failed"}
         /\ bus \in Seq(Video!Calls) /\ posted \in Seq(Video!Calls)
         /\ graph # "none" => pipeline
         /\ m_pending \in [Slots -> {"none", "current"}]
         /\ deliverer \in {"idle", "lowered"} /\ streamer \in [Slots -> {"idle", "stored"}]
  BY DEF VideoTypes, Video!TypeOK

\* Before a session plays or has failed after it played, nothing says it connected.
LEMMA QuietBefore ==
  ASSUME VideoInv, graph \notin {"playing", "failed"}
  PROVE  /\ \A i \in 1 .. Len(posted) : ~ (posted[i].what = "Connected" /\ posted[i].good)
         /\ \A i \in 1 .. Len(bus) : ~ (bus[i].what = "Connected" /\ bus[i].good)
         /\ ~ (pipeline /\ ~ fooled /\ connectionState = "Connected")
  BY DEF VideoInv, ConnectedInv, PostedInv, BusInv, PlayedOrTold

LEMMA VideoPosts ==
  ASSUME VideoInv, NEW to, NEW message, Video!Posts(to, message),
         to \in {"paused", "playing", "failing", "failed"},
         message \in Video!Calls, message.what # "Deliver", graph # "none"
  PROVE  /\ VideoTypes' /\ PlannedInv' /\ RetryInv'
         /\ posted' = posted /\ graph' = to /\ fooled' = fooled /\ pipeline' = pipeline
         /\ connectionState' = connectionState
         /\ bus \in Seq(Video!Calls) /\ Len(bus') = Len(bus) + 1 /\ Len(bus) \in Nat
         /\ \A i \in 1 .. Len(bus) : bus'[i] = bus[i]
         /\ bus'[Len(bus) + 1] = message
         /\ posted \in Seq(Video!Calls) /\ Len(posted) \in Nat
  <1>1. BusOnly /\ posted' = posted /\ graph' = to /\ bus' = Append(bus, message)
    BY DEF Video!Posts, Video!sessionVars, Video!retryVars, Video!slotVars, BusOnly
  <1>2. VideoTypes  BY DEF VideoInv
  <1>3. /\ bus \in Seq(Video!Calls) /\ Len(bus) \in Nat
        /\ posted \in Seq(Video!Calls) /\ Len(posted) \in Nat
    BY <1>2, TypesHold
  <1>4. /\ bus' \in Seq(Video!Calls) /\ Len(bus') = Len(bus) + 1
        /\ \A i \in 1 .. Len(bus) : bus'[i] = bus[i]
        /\ bus'[Len(bus) + 1] = message
    BY <1>1, <1>3
  <1>5. /\ \A i \in 1 .. Len(bus') : bus'[i].what # "Deliver"
        /\ graph' # "none" => pipeline'
    <2>1. \A i \in 1 .. Len(bus) : bus[i].what # "Deliver"  BY <1>2 DEF VideoTypes
    <2>2. pipeline'  BY <1>1, <1>2, TypesHold DEF BusOnly
    <2>3. ASSUME NEW i \in 1 .. Len(bus) + 1 PROVE bus'[i].what # "Deliver"
      BY <1>3, <1>4, <2>1, <2>3
    <2> QED  BY <1>4, <2>2, <2>3
  <1>6. Video!TypeOK'
    BY <1>1, <1>2, <1>4 DEF VideoTypes, Video!TypeOK, BusOnly, Video!maxDelay
  <1>7. PlannedInv'  BY <1>1 DEF VideoInv, PlannedInv, BusOnly
  <1>8. RetryInv'  BY <1>1 DEF VideoInv, RetryInv, BusOnly
  <1> QED  BY <1>1, <1>3, <1>4, <1>5, <1>6, <1>7, <1>8 DEF VideoTypes, BusOnly

LEMMA MessagesAreCalls ==
  \A w \in {"Connecting", "Connected", "Failed", "Deliver"} :
    /\ Video!Tells(w) \in Video!Calls /\ Video!TellsWrongly(w) \in Video!Calls
    /\ Video!Tells(w).what = w /\ Video!Tells(w).good = TRUE
    /\ Video!TellsWrongly(w).what = w /\ Video!TellsWrongly(w).good = FALSE
  BY DEF Video!Tells, Video!TellsWrongly, Video!Calls

\* A message of a session that has not played: nothing in flight says it connected.
LEMMA VideoEarly ==
  ASSUME VideoInv, Video!Opening \/ Video!FailsEarly \/ Video!PlaysLate
  PROVE  VideoInv'
  <1>1. graph \notin {"playing", "failed"} /\ graph # "none"
    BY DEF Video!Opening, Video!FailsEarly, Video!PlaysLate
  <1>2. PICK to \in {"paused", "failing", "failed"}, message \in Video!Calls :
          /\ Video!Posts(to, message) /\ message.what # "Deliver"
          /\ ~ (message.what = "Connected" /\ message.good)
    BY MessagesAreCalls, Zenon DEF Video!Opening, Video!FailsEarly, Video!PlaysLate
  <1> DEFINE b == Len(bus)
  <1>3. /\ VideoTypes' /\ PlannedInv' /\ RetryInv'
        /\ posted' = posted /\ fooled' = fooled /\ pipeline' = pipeline
        /\ connectionState' = connectionState
        /\ b \in Nat /\ Len(bus') = b + 1
        /\ \A i \in 1 .. b : bus'[i] = bus[i]
        /\ bus'[b + 1] = message
    BY <1>1, <1>2, VideoPosts
  <1>4. /\ \A i \in 1 .. Len(posted) : ~ (posted[i].what = "Connected" /\ posted[i].good)
        /\ \A i \in 1 .. b : ~ (bus[i].what = "Connected" /\ bus[i].good)
        /\ ~ (pipeline /\ ~ fooled /\ connectionState = "Connected")
    BY <1>1, QuietBefore
  <1> HIDE DEF b
  <1>5. ConnectedInv'  BY <1>3, <1>4 DEF ConnectedInv
  <1>6. PostedInv'  BY <1>3, <1>4 DEF PostedInv
  <1>7. \A i \in 1 .. b + 1 : ~ (bus'[i].what = "Connected" /\ bus'[i].good)
    BY <1>2, <1>3, <1>4
  <1>8. BusInv'  BY <1>3, <1>7 DEF BusInv
  <1> QED  BY <1>3, <1>5, <1>6, <1>8 DEF VideoInv

LEMMA VideoPlays == VideoInv /\ Video!Plays => VideoInv'
  <1> SUFFICES ASSUME VideoInv, Video!Plays PROVE VideoInv'  OBVIOUS
  <1>1. graph = "paused"  BY DEF Video!Plays
  <1> DEFINE message == Video!Tells("Connected")
             b == Len(bus)
  <1>2. message \in Video!Calls /\ message.what = "Connected"
    BY MessagesAreCalls
  <1>3. /\ VideoTypes' /\ PlannedInv' /\ RetryInv'
        /\ posted' = posted /\ fooled' = fooled /\ pipeline' = pipeline
        /\ connectionState' = connectionState /\ graph' = "playing"
        /\ b \in Nat /\ Len(bus') = b + 1
        /\ \A i \in 1 .. b : bus'[i] = bus[i]
        /\ bus'[b + 1] = message
    BY <1>1, <1>2, VideoPosts DEF Video!Plays
  <1>4. /\ \A i \in 1 .. Len(posted) : ~ (posted[i].what = "Connected" /\ posted[i].good)
        /\ \A i \in 1 .. b : ~ (bus[i].what = "Connected" /\ bus[i].good)
        /\ ~ (pipeline /\ ~ fooled /\ connectionState = "Connected")
    BY <1>1, QuietBefore
  <1> HIDE DEF b, message
  <1>5. ConnectedInv'  BY <1>3, <1>4 DEF ConnectedInv
  <1>6. PostedInv'  BY <1>3, <1>4 DEF PostedInv
  <1>7. BusInv'
    <2> SUFFICES ASSUME NEW i \in 1 .. b + 1, bus'[i].what = "Connected" /\ bus'[i].good
                 PROVE  \A j \in 1 .. b + 1 : j > i => bus'[j].what # "Connecting"
      BY <1>3 DEF BusInv
    <2>1. i = b + 1  BY <1>3, <1>4
    <2> QED  BY <1>3, <2>1
  <1> QED  BY <1>3, <1>5, <1>6, <1>7 DEF VideoInv

LEMMA VideoFails == VideoInv /\ Video!Fails => VideoInv'
  <1> SUFFICES ASSUME VideoInv, Video!Fails PROVE VideoInv'  OBVIOUS
  <1>1. graph = "playing"  BY DEF Video!Fails
  <1> DEFINE message == Video!Tells("Failed")
             b == Len(bus)
  <1>2. message \in Video!Calls /\ message.what = "Failed"
    BY MessagesAreCalls
  <1>3. /\ VideoTypes' /\ PlannedInv' /\ RetryInv'
        /\ posted' = posted /\ fooled' = fooled /\ pipeline' = pipeline
        /\ connectionState' = connectionState /\ graph' = "failed"
        /\ b \in Nat /\ Len(bus') = b + 1
        /\ \A i \in 1 .. b : bus'[i] = bus[i]
        /\ bus'[b + 1] = message
    BY <1>1, <1>2, VideoPosts DEF Video!Fails
  <1> HIDE DEF b, message
  <1>4. b = Len(bus)  BY DEF b
  <1>5. /\ \A k \in Nat : Follows("Failed", k)'
        /\ \A k \in Nat : Follows("Connecting", k)' => Follows("Connecting", k)
    BY <1>2, <1>3, <1>4 DEF Follows
  <1>6. ConnectedInv'  BY <1>3, <1>5 DEF VideoInv, ConnectedInv, PlayedOrTold
  <1>7. PostedInv'  BY <1>3, <1>5 DEF VideoInv, PostedInv, PlayedOrTold
  <1>8. BusInv'
    <2> SUFFICES ASSUME NEW i \in 1 .. b + 1, bus'[i].what = "Connected" /\ bus'[i].good
                 PROVE  /\ \A j \in 1 .. b + 1 : j > i => bus'[j].what # "Connecting"
                        /\ \E j \in 1 .. b + 1 : j > i /\ bus'[j].what = "Failed"
      BY <1>3 DEF BusInv
    <2>1. i \in 1 .. b  BY <1>2, <1>3
    <2>2. \A j \in 1 .. b : j > i => bus[j].what # "Connecting"
      BY <1>3, <1>4, <2>1 DEF VideoInv, BusInv
    <2> QED  BY <1>2, <1>3, <2>1, <2>2
  <1> QED  BY <1>3, <1>6, <1>7, <1>8 DEF VideoInv

\* The calls in flight, when the first of them is executed and nothing else moves.
LEMMA FirstCallTaken ==
  ASSUME VideoTypes, posted # <<>>, posted' = Tail(posted), bus' = bus
  PROVE  /\ posted' \in Seq(Video!Calls) /\ Len(posted) \in Nat \ {0}
         /\ Len(posted') = Len(posted) - 1
         /\ \A i \in 1 .. Len(posted) - 1 : posted'[i] = posted[i + 1]
         /\ Head(posted) = posted[1]
         /\ \A w, k : k \in Nat => (Follows(w, k)' <=> Follows(w, k + 1))
  <1>1. posted \in Seq(Video!Calls)  BY TypesHold
  <1> DEFINE p == Len(posted)
  <1>2. /\ posted' \in Seq(Video!Calls) /\ p \in Nat \ {0} /\ Len(posted') = p - 1
        /\ \A i \in 1 .. p - 1 : posted'[i] = posted[i + 1]
        /\ Head(posted) = posted[1]
    BY <1>1
  <1> HIDE DEF p
  <1>3. ASSUME NEW w, NEW k \in Nat PROVE Follows(w, k)' <=> Follows(w, k + 1)
    <2> DEFINE later(n) == \E j \in 1 .. p : j > n /\ posted[j].what = w
    <2>0. p = Len(posted)  BY DEF p
    <2>1. (\E j \in 1 .. p - 1 : j > k /\ posted'[j].what = w) <=> later(k + 1)
      <3>1. ASSUME NEW j \in 1 .. p - 1, j > k, posted'[j].what = w PROVE later(k + 1)
        BY <1>2, <3>1
      <3>2. ASSUME NEW j \in 1 .. p, j > k + 1, posted[j].what = w
            PROVE  \E i \in 1 .. p - 1 : i > k /\ posted'[i].what = w
        <4>1. j - 1 \in 1 .. p - 1 /\ j - 1 > k /\ (j - 1) + 1 = j  BY <3>2, <1>2
        <4>2. posted'[j - 1] = posted[j]  BY <4>1, <1>2
        <4> QED  BY <3>2, <4>1, <4>2
      <3> QED  BY <3>1, <3>2
    <2> QED  BY <1>2, <2>0, <2>1 DEF Follows
  <1> QED  BY <1>2, <1>3 DEF p

\* The invariants about the calls in flight outlive a call that is taken.
LEMMA PostedAfterTaken ==
  ASSUME VideoTypes, PostedInv, BusInv, posted # <<>>, posted' = Tail(posted), bus' = bus,
         graph' = graph
  PROVE  PostedInv' /\ BusInv'
  <1> DEFINE p == Len(posted)
  <1>1. /\ p \in Nat \ {0} /\ Len(posted') = p - 1
        /\ \A i \in 1 .. p - 1 : posted'[i] = posted[i + 1]
        /\ \A w, k : k \in Nat => (Follows(w, k)' <=> Follows(w, k + 1))
    BY FirstCallTaken
  <1> HIDE DEF p
  <1>2. PostedInv'
    <2> SUFFICES ASSUME NEW i \in 1 .. p - 1, posted'[i].what = "Connected", posted'[i].good
                 PROVE  ~ Follows("Connecting", i)' /\ PlayedOrTold(i)'
      BY <1>1 DEF PostedInv
    <2>1. i + 1 \in 1 .. p /\ i \in Nat /\ posted'[i] = posted[i + 1]  BY <1>1
    <2>2. ~ Follows("Connecting", i + 1) /\ PlayedOrTold(i + 1)
      BY <2>1 DEF PostedInv, p
    <2> QED  BY <1>1, <2>1, <2>2 DEF PlayedOrTold
  <1>3. BusInv'  BY DEF BusInv
  <1> QED  BY <1>2, <1>3

LEMMA VideoBusLoop == VideoInv /\ Video!BusLoop => VideoInv'
  <1> SUFFICES ASSUME VideoInv, Video!BusLoop PROVE VideoInv'  OBVIOUS
  <1>1. /\ BusOnly /\ graph' = graph /\ bus # <<>>
        /\ posted' = Append(posted, Head(bus)) /\ bus' = Tail(bus)
    BY DEF Video!BusLoop, Video!sessionVars, Video!retryVars, Video!slotVars, BusOnly
  <1>2. VideoTypes  BY DEF VideoInv
  <1> DEFINE p == Len(posted)
             b == Len(bus)
  <1>3. posted \in Seq(Video!Calls) /\ bus \in Seq(Video!Calls)  BY <1>2, TypesHold
  <1>4. /\ p \in Nat /\ b \in Nat \ {0}
        /\ posted' \in Seq(Video!Calls) /\ Len(posted') = p + 1
        /\ \A i \in 1 .. p : posted'[i] = posted[i]
        /\ posted'[p + 1] = bus[1]
        /\ bus' \in Seq(Video!Calls) /\ Len(bus') = b - 1
        /\ \A i \in 1 .. b - 1 : bus'[i] = bus[i + 1]
    BY <1>1, <1>3
  <1> HIDE DEF p, b
  <1>5. p = Len(posted) /\ b = Len(bus)  BY DEF p, b
  <1>6. VideoTypes'
    <2>1. Video!TypeOK'
      BY <1>1, <1>2, <1>4 DEF VideoTypes, Video!TypeOK, BusOnly, Video!maxDelay
    <2>2. ASSUME NEW i \in 1 .. b - 1 PROVE bus'[i].what # "Deliver"
      <3>1. i + 1 \in 1 .. b /\ bus'[i] = bus[i + 1]  BY <1>4
      <3> QED  BY <3>1, <1>2, <1>5 DEF VideoTypes
    <2>3. graph' # "none" => pipeline'  BY <1>1, <1>2, TypesHold DEF BusOnly
    <2> QED  BY <1>4, <2>1, <2>2, <2>3 DEF VideoTypes
  <1>7. PlannedInv'
    <2>1. posted'[p + 1].what # "Deliver"  BY <1>2, <1>4, <1>5 DEF VideoTypes
    <2> QED  BY <1>1, <1>4, <1>5, <2>1 DEF VideoInv, PlannedInv, BusOnly
  <1>8. RetryInv'  BY <1>1 DEF VideoInv, RetryInv, BusOnly
  <1>9. ASSUME NEW w PROVE \A k \in 0 .. p : Follows(w, k)' <=> Follows(w, k)
    <2> SUFFICES ASSUME NEW k \in 0 .. p PROVE Follows(w, k)' <=> Follows(w, k)  OBVIOUS
    <2>1. ASSUME Follows(w, k)' PROVE Follows(w, k)
      <3>1. CASE \E j \in 1 .. p + 1 : j > k /\ posted'[j].what = w
        <4>1. PICK j \in 1 .. p + 1 : j > k /\ posted'[j].what = w  BY <3>1
        <4>2. CASE j = p + 1
          <5>1. 1 \in 1 .. b /\ bus[1].what = w  BY <4>1, <4>2, <1>4
          <5> QED  BY <5>1, <1>5 DEF Follows
        <4>3. CASE j # p + 1
          <5>1. j \in 1 .. p /\ posted[j].what = w  BY <4>1, <4>3, <1>4
          <5> QED  BY <4>1, <5>1, <1>5 DEF Follows
        <4> QED  BY <4>2, <4>3
      <3>2. CASE \E j \in 1 .. b - 1 : bus'[j].what = w
        <4>1. PICK j \in 1 .. b - 1 : bus'[j].what = w  BY <3>2
        <4>2. j + 1 \in 1 .. b /\ bus[j + 1].what = w  BY <4>1, <1>4
        <4> QED  BY <4>2, <1>5 DEF Follows
      <3> QED  BY <2>1, <3>1, <3>2, <1>4 DEF Follows
    <2>2. ASSUME Follows(w, k) PROVE Follows(w, k)'
      <3>1. CASE \E j \in 1 .. p : j > k /\ posted[j].what = w
        BY <3>1, <1>4 DEF Follows
      <3>2. CASE \E j \in 1 .. b : bus[j].what = w
        <4>1. PICK j \in 1 .. b : bus[j].what = w  BY <3>2
        <4>2. CASE j = 1
          <5>1. p + 1 \in 1 .. p + 1 /\ p + 1 > k /\ posted'[p + 1].what = w
            BY <4>1, <4>2, <1>4
          <5> QED  BY <5>1, <1>4 DEF Follows
        <4>3. CASE j # 1
          <5>1. j - 1 \in 1 .. b - 1 /\ (j - 1) + 1 = j  BY <4>3, <1>4
          <5>2. bus'[j - 1].what = w  BY <4>1, <5>1, <1>4
          <5> QED  BY <5>1, <5>2, <1>4 DEF Follows
        <4> QED  BY <4>2, <4>3
      <3> QED  BY <2>2, <3>1, <3>2, <1>5 DEF Follows
    <2> QED  BY <2>1, <2>2
  <1>10. ConnectedInv'
    <2>1. 0 \in 0 .. p  BY <1>4
    <2> QED  BY <1>1, <1>9, <2>1 DEF VideoInv, ConnectedInv, PlayedOrTold, BusOnly
  <1>11. PostedInv'
    <2> SUFFICES ASSUME NEW i \in 1 .. p + 1, posted'[i].what = "Connected", posted'[i].good
                 PROVE  ~ Follows("Connecting", i)' /\ PlayedOrTold(i)'
      BY <1>4 DEF PostedInv
    <2>1. CASE i \in 1 .. p
      <3>1. posted'[i] = posted[i] /\ i \in 0 .. p  BY <2>1, <1>4
      <3>2. ~ Follows("Connecting", i) /\ PlayedOrTold(i)
        BY <2>1, <3>1, <1>5 DEF VideoInv, PostedInv
      <3> QED  BY <1>1, <1>9, <3>1, <3>2 DEF PlayedOrTold
    <2>2. CASE i = p + 1
      <3>1. 1 \in 1 .. b /\ bus[1].what = "Connected" /\ bus[1].good  BY <2>2, <1>4
      <3>2. /\ \A j \in 1 .. b : j > 1 => bus[j].what # "Connecting"
            /\ \/ graph = "playing"
               \/ graph = "failed" /\ \E j \in 1 .. b : j > 1 /\ bus[j].what = "Failed"
        BY <3>1, <1>5 DEF VideoInv, BusInv
      <3>3. \A w : Follows(w, i)' <=> \E j \in 1 .. b - 1 : bus'[j].what = w
        BY <2>2, <1>4 DEF Follows
      <3>4. \A w : (\E j \in 1 .. b : j > 1 /\ bus[j].what = w) <=>
                      \E j \in 1 .. b - 1 : bus'[j].what = w
        <4>1. ASSUME NEW w, NEW j \in 1 .. b, j > 1, bus[j].what = w
              PROVE  \E k \in 1 .. b - 1 : bus'[k].what = w
          <5>1. j - 1 \in 1 .. b - 1 /\ (j - 1) + 1 = j  BY <4>1, <1>4
          <5>2. bus'[j - 1].what = w  BY <4>1, <5>1, <1>4
          <5> QED  BY <5>1, <5>2
        <4>2. ASSUME NEW w, NEW j \in 1 .. b - 1, bus'[j].what = w
              PROVE  \E k \in 1 .. b : k > 1 /\ bus[k].what = w
          <5>1. j + 1 \in 1 .. b /\ j + 1 > 1 /\ bus[j + 1].what = w  BY <4>2, <1>4
          <5> QED  BY <5>1
        <4> QED  BY <4>1, <4>2
      <3> QED  BY <1>1, <3>2, <3>3, <3>4 DEF PlayedOrTold
    <2> QED  BY <2>1, <2>2, <1>4
  <1>12. BusInv'
    <2> SUFFICES ASSUME NEW i \in 1 .. b - 1, bus'[i].what = "Connected", bus'[i].good
                 PROVE  /\ \A j \in 1 .. b - 1 : j > i => bus'[j].what # "Connecting"
                        /\ \/ graph = "playing"
                           \/ /\ graph = "failed"
                              /\ \E j \in 1 .. b - 1 : j > i /\ bus'[j].what = "Failed"
      BY <1>1, <1>4 DEF BusInv
    <2>0. b \in Nat /\ \A j \in 1 .. b - 1 : bus'[j] = bus[j + 1]  BY <1>4
    <2>1. i + 1 \in 1 .. b /\ bus'[i] = bus[i + 1]  BY <2>0
    <2>2. /\ \A j \in 1 .. b : j > i + 1 => bus[j].what # "Connecting"
          /\ \/ graph = "playing"
             \/ graph = "failed" /\ \E j \in 1 .. b : j > i + 1 /\ bus[j].what = "Failed"
      BY <2>1, <1>5 DEF VideoInv, BusInv
    <2>3. \A j \in 1 .. b - 1 : j > i => bus'[j].what # "Connecting"
      <3> SUFFICES ASSUME NEW j \in 1 .. b - 1, j > i PROVE bus'[j].what # "Connecting"
        OBVIOUS
      <3>1. j + 1 \in 1 .. b /\ j + 1 > i + 1 /\ bus'[j] = bus[j + 1]  BY <1>4
      <3> QED  BY <2>2, <3>1
    <2>4. ASSUME NEW j \in 1 .. b, j > i + 1, bus[j].what = "Failed"
          PROVE  \E k \in 1 .. b - 1 : k > i /\ bus'[k].what = "Failed"
      <3>1. j - 1 \in 1 .. b - 1 /\ j - 1 > i /\ (j - 1) + 1 = j  BY <2>4, <1>4
      <3>2. bus'[j - 1].what = "Failed"  BY <2>4, <3>1, <1>4
      <3> QED  BY <3>1, <3>2
    <2> QED  BY <2>2, <2>3, <2>4
  <1> QED  BY <1>6, <1>7, <1>8, <1>10, <1>11, <1>12 DEF VideoInv

\* What a step of the slots leaves alone.
SlotsOnly ==
  /\ pipeline' = pipeline /\ m_userStopped' = m_userStopped /\ connectTimer' = connectTimer
  /\ connectionState' = connectionState /\ reconnectTimer' = reconnectTimer
  /\ m_reconnectDelayMs' = m_reconnectDelayMs /\ m_everConnected' = m_everConnected
  /\ stopTimer' = stopTimer /\ graph' = graph /\ bus' = bus /\ fooled' = fooled

LEMMA VideoPush ==
  ASSUME VideoInv, NEW s \in Slots, Video!Push(s) PROVE VideoInv'
  <1>1. /\ SlotsOnly /\ posted' = posted /\ m_deliveryQueued' = m_deliveryQueued
        /\ deliverer' = deliverer
        /\ m_pending' = [m_pending EXCEPT ![s] = "current"]
        /\ streamer' = [streamer EXCEPT ![s] = "stored"]
    BY DEF Video!Push, Video!sessionVars, Video!retryVars, SlotsOnly
  <1>2. VideoTypes  BY DEF VideoInv
  <1>3. VideoTypes'
    BY <1>1, <1>2 DEF VideoTypes, Video!TypeOK, SlotsOnly, Video!maxDelay
  <1>4. PlannedInv'
    <2>1. \A t \in Slots :
            /\ m_pending'[t] = IF t = s THEN "current" ELSE m_pending[t]
            /\ streamer'[t] = IF t = s THEN "stored" ELSE streamer[t]
      BY <1>1, <1>2, TypesHold
    <2>2. \A t \in Slots : m_pending'[t] # "none" =>
            m_deliveryQueued \/ deliverer = "lowered" \/ streamer'[t] = "stored"
      BY <2>1 DEF VideoInv, PlannedInv
    <2> QED  BY <1>1, <2>2 DEF VideoInv, PlannedInv
  <1>5. RetryInv' /\ ConnectedInv' /\ PostedInv' /\ BusInv'
    BY <1>1 DEF VideoInv, RetryInv, ConnectedInv, PostedInv, BusInv, Follows, PlayedOrTold,
                SlotsOnly
  <1> QED  BY <1>3, <1>4, <1>5 DEF VideoInv

LEMMA VideoScheduleDelivery ==
  ASSUME VideoInv, NEW s \in Slots, Video!ScheduleDelivery(s) PROVE VideoInv'
  <1> DEFINE message == Video!Tells("Deliver")
             p == Len(posted)
  <1>1. /\ SlotsOnly /\ m_deliveryQueued' = TRUE /\ m_pending' = m_pending
        /\ deliverer' = deliverer /\ streamer' = [streamer EXCEPT ![s] = "idle"]
        /\ posted' = IF m_deliveryQueued THEN posted ELSE Append(posted, message)
    BY DEF Video!ScheduleDelivery, Video!sessionVars, Video!retryVars, SlotsOnly
  <1>2. VideoTypes /\ posted \in Seq(Video!Calls)  BY TypesHold DEF VideoInv
  <1>3. message \in Video!Calls /\ message.what = "Deliver"  BY MessagesAreCalls
  <1>4. RetryInv'  BY <1>1 DEF VideoInv, RetryInv, SlotsOnly
  <1> HIDE DEF message
  <1>5. CASE m_deliveryQueued
    <2>1. posted' = posted  BY <1>1, <1>5
    <2>2. VideoTypes'
      BY <1>1, <1>2, <2>1 DEF VideoTypes, Video!TypeOK, SlotsOnly, Video!maxDelay
    <2>3. PlannedInv'  BY <1>1, <1>5, <2>1 DEF VideoInv, PlannedInv
    <2>4. /\ bus' = bus /\ graph' = graph /\ fooled' = fooled /\ pipeline' = pipeline
          /\ connectionState' = connectionState
      BY <1>1 DEF SlotsOnly
    <2>5. ConnectedInv' /\ PostedInv' /\ BusInv'
      <3>1. ConnectedInv'  BY <2>1, <2>4 DEF VideoInv, ConnectedInv, Follows, PlayedOrTold
      <3>2. PostedInv'  BY <2>1, <2>4 DEF VideoInv, PostedInv, Follows, PlayedOrTold
      <3>3. BusInv'  BY <2>4 DEF VideoInv, BusInv
      <3> QED  BY <3>1, <3>2, <3>3
    <2> QED  BY <1>4, <2>2, <2>3, <2>5 DEF VideoInv
  <1>6. CASE ~ m_deliveryQueued
    <2>1. /\ p \in Nat /\ posted' \in Seq(Video!Calls) /\ Len(posted') = p + 1
          /\ \A i \in 1 .. p : posted'[i] = posted[i]
          /\ posted'[p + 1] = message
      BY <1>1, <1>2, <1>3, <1>6
    <2> HIDE DEF p
    <2>2. p = Len(posted)  BY DEF p
    <2>3. VideoTypes'
      BY <1>1, <1>2, <2>1 DEF VideoTypes, Video!TypeOK, SlotsOnly, Video!maxDelay
    <2>4. PlannedInv'
      <3>1. \A i \in 1 .. p : posted'[i].what # "Deliver"
        BY <1>6, <2>1, <2>2 DEF VideoInv, PlannedInv
      <3>2. p + 1 \in 1 .. Len(posted') /\ posted'[p + 1].what = "Deliver"  BY <1>3, <2>1
      <3>3. \A i \in 1 .. Len(posted') : posted'[i].what = "Deliver" => i = p + 1
        BY <2>1, <3>1
      <3> QED  BY <1>1, <3>2, <3>3 DEF PlannedInv
    <2>5. ASSUME NEW w, w # "Deliver"
          PROVE  \A k \in Nat : Follows(w, k)' <=> Follows(w, k)
      <3>1. \A j \in 1 .. p + 1 : posted'[j].what = w => j \in 1 .. p
        BY <1>3, <2>1, <2>5
      <3> QED  BY <1>1, <2>1, <2>2, <3>1 DEF Follows, SlotsOnly
    <2>6. ConnectedInv'
      BY <1>1, <2>5 DEF VideoInv, ConnectedInv, PlayedOrTold, SlotsOnly
    <2>7. PostedInv'
      <3> SUFFICES ASSUME NEW i \in 1 .. p + 1, posted'[i].what = "Connected", posted'[i].good
                   PROVE  ~ Follows("Connecting", i)' /\ PlayedOrTold(i)'
        BY <2>1 DEF PostedInv
      <3>1. i \in 1 .. p /\ i \in Nat /\ posted'[i] = posted[i]  BY <1>3, <2>1
      <3>2. ~ Follows("Connecting", i) /\ PlayedOrTold(i)
        BY <2>2, <3>1 DEF VideoInv, PostedInv
      <3> QED  BY <1>1, <2>5, <3>1, <3>2 DEF PlayedOrTold, SlotsOnly
    <2>8. BusInv'  BY <1>1 DEF VideoInv, BusInv, SlotsOnly
    <2> QED  BY <1>4, <2>3, <2>4, <2>6, <2>7, <2>8 DEF VideoInv
  <1> QED  BY <1>5, <1>6

LEMMA VideoDeliverPending == VideoInv /\ Video!DeliverPending => VideoInv'
  <1> SUFFICES ASSUME VideoInv, Video!DeliverPending PROVE VideoInv'  OBVIOUS
  <1>1. SlotsOnly /\ streamer' = streamer
    BY DEF Video!DeliverPending, Video!sessionVars, Video!retryVars, SlotsOnly
  <1>2. VideoTypes /\ posted \in Seq(Video!Calls)  BY TypesHold DEF VideoInv
  <1>3. RetryInv'  BY <1>1 DEF VideoInv, RetryInv, SlotsOnly
  <1>4. CASE /\ posted # <<>> /\ Head(posted).what = "Deliver"
             /\ deliverer' = "lowered" /\ posted' = Tail(posted)
             /\ m_deliveryQueued' = FALSE /\ m_pending' = m_pending
    <2> DEFINE p == Len(posted)
    <2>1. /\ posted' \in Seq(Video!Calls) /\ p \in Nat \ {0} /\ Len(posted') = p - 1
          /\ \A i \in 1 .. p - 1 : posted'[i] = posted[i + 1]
          /\ Head(posted) = posted[1]
          /\ \A w, k : k \in Nat => (Follows(w, k)' <=> Follows(w, k + 1))
      BY <1>1, <1>2, <1>4, FirstCallTaken DEF SlotsOnly
    <2> HIDE DEF p
    <2>2. p = Len(posted)  BY DEF p
    <2>3. VideoTypes'
      BY <1>1, <1>2, <1>4, <2>1 DEF VideoTypes, Video!TypeOK, SlotsOnly, Video!maxDelay
    <2>4. PlannedInv'
      <3>1. ASSUME NEW i \in 1 .. p - 1 PROVE posted'[i].what # "Deliver"
        <4>1. i + 1 \in 1 .. p /\ 1 \in 1 .. p /\ i + 1 # 1  BY <2>1
        <4>2. posted[i + 1].what # "Deliver"
          BY <1>4, <2>1, <2>2, <4>1 DEF VideoInv, PlannedInv
        <4> QED  BY <2>1, <4>2
      <3> QED  BY <1>4, <2>1, <3>1 DEF PlannedInv
    <2>5. PostedInv' /\ BusInv'
      BY <1>1, <1>2, <1>4, PostedAfterTaken DEF VideoInv, SlotsOnly
    <2>6. ConnectedInv'
      <3>1. ASSUME NEW w, w # "Deliver" PROVE Follows(w, 0)' <=> Follows(w, 0)
        <4>1. Follows(w, 0)' <=> Follows(w, 1)  BY <2>1
        <4>2. posted[1].what # w  BY <1>4, <2>1, <3>1
        <4>3. Follows(w, 1) <=> Follows(w, 0)  BY <2>1, <2>2, <4>2 DEF Follows
        <4> QED  BY <4>1, <4>3
      <3> QED  BY <1>1, <3>1 DEF VideoInv, ConnectedInv, PlayedOrTold, SlotsOnly
    <2> QED  BY <1>3, <2>3, <2>4, <2>5, <2>6 DEF VideoInv
  <1>5. CASE /\ deliverer = "lowered" /\ deliverer' = "idle"
             /\ m_pending' = [s \in Slots |-> "none"]
             /\ m_deliveryQueued' = m_deliveryQueued /\ posted' = posted
    <2>1. VideoTypes'
      BY <1>1, <1>2, <1>5 DEF VideoTypes, Video!TypeOK, SlotsOnly, Video!maxDelay
    <2>2. PlannedInv'  BY <1>5 DEF VideoInv, PlannedInv
    <2>3. ConnectedInv' /\ PostedInv' /\ BusInv'
      BY <1>1, <1>5 DEF VideoInv, ConnectedInv, PostedInv, BusInv, Follows, PlayedOrTold,
                        SlotsOnly
    <2> QED  BY <1>3, <2>1, <2>2, <2>3 DEF VideoInv
  <1> QED  BY <1>4, <1>5 DEF Video!DeliverPending, Video!FlagAfter

\* A planned retry waits at least the base delay, and at most the longest one.
LEMMA VideoSchedules ==
  ASSUME VideoTypes, Video!ScheduleReconnect, ~ m_userStopped,
         m_everConnected' = m_everConnected
  PROVE  /\ connectionState' = "Disconnected" /\ reconnectTimer' > 0
         /\ reconnectTimer' \in 0 .. kReconnectMaxDelayMs
         /\ m_reconnectDelayMs' \in 0 .. Video!maxDelay'
  <1> DEFINE now == Video!CurrentDelay
             most == Video!maxDelay
             wait == Video!Smaller(now, most)
             next == Video!Smaller(2 * now, most)
  <1>1. most \in 1 .. kReconnectMaxDelayMs /\ most \in Nat  BY DEF Video!maxDelay
  <1>2. now \in Nat /\ now >= 1  BY <1>1, TypesHold DEF Video!CurrentDelay
  <1> HIDE DEF now, most
  <1>3. wait \in 1 .. kReconnectMaxDelayMs /\ next \in 0 .. most
    BY <1>1, <1>2 DEF Video!Smaller
  <1>4. Video!maxDelay' = most  BY DEF Video!maxDelay, most
  <1>5. /\ connectionState' = "Disconnected"
        /\ \/ reconnectTimer > 0 /\ reconnectTimer' = reconnectTimer
              /\ m_reconnectDelayMs' = m_reconnectDelayMs
           \/ reconnectTimer' = wait /\ m_reconnectDelayMs' = next
    BY DEF Video!ScheduleReconnect, Video!retryVars, now, most
  <1> HIDE DEF wait, next
  <1>6. reconnectTimer' > 0 /\ reconnectTimer' \in 0 .. kReconnectMaxDelayMs
    BY <1>3, <1>5, TypesHold
  <1>7. m_reconnectDelayMs' \in 0 .. most
    BY <1>3, <1>5, TypesHold DEF most
  <1> QED  BY <1>4, <1>5, <1>6, <1>7

LEMMA VideoRequests ==
  VideoInv /\ (Video!RequestStart \/ Video!RequestStopAfter) => VideoInv'
  <1> SUFFICES ASSUME VideoInv, Video!RequestStart \/ Video!RequestStopAfter PROVE VideoInv'
    OBVIOUS
  <1>1. /\ reconnectTimer' = reconnectTimer /\ m_reconnectDelayMs' = m_reconnectDelayMs
        /\ m_everConnected' = m_everConnected /\ bus' = bus /\ posted' = posted
        /\ m_pending' = m_pending /\ m_deliveryQueued' = m_deliveryQueued
        /\ deliverer' = deliverer /\ streamer' = streamer /\ fooled' = fooled
    BY DEF Video!RequestStart, Video!RequestStopAfter, Video!retryVars, Video!slotVars
  <1>2. stopTimer' \in BOOLEAN
    BY Zenon DEF Video!RequestStart, Video!RequestStopAfter
  <1>3. VideoTypes  BY DEF VideoInv
  <1>4. PlannedInv'  BY <1>1 DEF VideoInv, PlannedInv
  <1>5. CASE /\ pipeline' = pipeline /\ m_userStopped' = m_userStopped
             /\ connectTimer' = connectTimer /\ connectionState' = connectionState
             /\ graph' = graph
    <2>1. VideoTypes'
      BY <1>1, <1>2, <1>3, <1>5 DEF VideoTypes, Video!TypeOK, Video!maxDelay
    <2>2. RetryInv' /\ ConnectedInv' /\ PostedInv' /\ BusInv'
      BY <1>1, <1>5 DEF VideoInv, RetryInv, ConnectedInv, PostedInv, BusInv, Follows,
                        PlayedOrTold
    <2> QED  BY <1>4, <2>1, <2>2 DEF VideoInv
  <1>6. ASSUME ~ pipeline, NEW parses \in BOOLEAN, Video!Started(parses) PROVE VideoInv'
    <2>1. /\ m_userStopped' = FALSE /\ pipeline' = parses /\ connectTimer' = parses
          /\ connectionState' = IF parses THEN "Connecting" ELSE "Disconnected"
          /\ graph' = IF parses THEN "opening" ELSE "none"
      BY <1>6 DEF Video!Started
    <2>2. graph = "none"  BY <1>3, <1>6, TypesHold
    <2>3. VideoTypes'
      <3>1. parses => graph' = "opening" /\ connectionState' = "Connecting"  BY <2>1
      <3>2. ~ parses => graph' = "none" /\ connectionState' = "Disconnected"  BY <2>1
      <3>3. /\ graph' \in {"none", "opening"}
            /\ connectionState' \in {"Connecting", "Disconnected"}
            /\ graph' # "none" => pipeline'
        BY <2>1, <3>1, <3>2
      <3> QED
        BY <1>1, <1>2, <1>3, <2>1, <3>3 DEF VideoTypes, Video!TypeOK, Video!maxDelay
    <2>4. RetryInv'  BY <2>1 DEF RetryInv
    <2>5. ConnectedInv'  BY <2>1 DEF ConnectedInv
    <2>6. PostedInv' /\ BusInv'  BY <1>1, <2>2, QuietBefore DEF PostedInv, BusInv
    <2> QED  BY <1>4, <2>3, <2>4, <2>5, <2>6 DEF VideoInv
  <1> QED
    BY <1>5, <1>6, Zenon DEF Video!RequestStart, Video!RequestStopAfter, Video!sessionVars

LEMMA VideoConnectTimeout == VideoInv /\ Video!HandleConnectTimeout => VideoInv'
  <1> SUFFICES ASSUME VideoInv, Video!HandleConnectTimeout PROVE VideoInv'  OBVIOUS
  <1>1. /\ connectTimer' = FALSE /\ pipeline' = pipeline /\ m_userStopped' = m_userStopped
        /\ m_everConnected' = m_everConnected /\ stopTimer' = stopTimer /\ graph' = graph
        /\ bus' = bus /\ posted' = posted
        /\ m_pending' = m_pending /\ m_deliveryQueued' = m_deliveryQueued
        /\ deliverer' = deliverer /\ streamer' = streamer /\ fooled' = fooled
    BY DEF Video!HandleConnectTimeout, Video!slotVars
  <1>2. VideoTypes  BY DEF VideoInv
  <1>3. PlannedInv'  BY <1>1 DEF VideoInv, PlannedInv
  <1>4. PostedInv' /\ BusInv'
    BY <1>1 DEF VideoInv, PostedInv, BusInv, Follows, PlayedOrTold
  <1>5. CASE pipeline /\ connectionState = "Connecting" /\ Video!ScheduleReconnect
    <2>1. ~ m_userStopped  BY <1>5 DEF VideoInv, RetryInv
    <2>2. /\ connectionState' = "Disconnected" /\ reconnectTimer' > 0
          /\ reconnectTimer' \in 0 .. kReconnectMaxDelayMs
          /\ m_reconnectDelayMs' \in 0 .. Video!maxDelay'
      BY <1>1, <1>2, <1>5, <2>1, VideoSchedules
    <2>3. VideoTypes'  BY <1>1, <1>2, <2>2 DEF VideoTypes, Video!TypeOK
    <2>4. RetryInv'  BY <1>1, <2>1, <2>2 DEF RetryInv
    <2>5. ConnectedInv'  BY <2>2 DEF ConnectedInv
    <2> QED  BY <1>3, <1>4, <2>3, <2>4, <2>5 DEF VideoInv
  <1>6. CASE /\ ~ (pipeline /\ connectionState = "Connecting")
             /\ connectionState' = connectionState /\ reconnectTimer' = reconnectTimer
             /\ m_reconnectDelayMs' = m_reconnectDelayMs
    <2>1. VideoTypes'  BY <1>1, <1>2, <1>6 DEF VideoTypes, Video!TypeOK, Video!maxDelay
    <2>2. RetryInv'
      <3>1. pipeline => connectionState \in {"Connected", "Disconnected"}
        BY <1>2, <1>6, TypesHold
      <3> QED  BY <1>1, <1>6, <3>1 DEF VideoInv, RetryInv
    <2>3. ConnectedInv'
      BY <1>1, <1>6 DEF VideoInv, ConnectedInv, Follows, PlayedOrTold
    <2> QED  BY <1>3, <1>4, <2>1, <2>2, <2>3 DEF VideoInv
  <1> QED  BY <1>5, <1>6 DEF Video!HandleConnectTimeout, Video!retryVars

LEMMA VideoExecute == VideoInv /\ Video!Execute => VideoInv'
  <1> SUFFICES ASSUME VideoInv, Video!Execute PROVE VideoInv'  OBVIOUS
  <1>1. /\ pipeline' = pipeline /\ m_userStopped' = m_userStopped
        /\ connectTimer' = connectTimer /\ stopTimer' = stopTimer
        /\ graph' = graph /\ bus' = bus /\ posted # <<>> /\ posted' = Tail(posted)
        /\ m_pending' = m_pending /\ m_deliveryQueued' = m_deliveryQueued
        /\ deliverer' = deliverer /\ streamer' = streamer
    BY DEF Video!Execute, Video!sessionVars, Video!slotVars
  <1>2. VideoTypes  BY DEF VideoInv
  <1> DEFINE p == Len(posted)
  <1>3. /\ posted' \in Seq(Video!Calls) /\ p \in Nat \ {0} /\ Len(posted') = p - 1
        /\ \A i \in 1 .. p - 1 : posted'[i] = posted[i + 1]
        /\ Head(posted) = posted[1]
        /\ \A w, k : k \in Nat => (Follows(w, k)' <=> Follows(w, k + 1))
    BY <1>1, <1>2, FirstCallTaken
  <1> HIDE DEF p
  <1>4. p = Len(posted)  BY DEF p
  <1>5. PostedInv' /\ BusInv'  BY <1>1, <1>2, PostedAfterTaken DEF VideoInv
  <1>6. posted[1].what # "Deliver"  BY <1>3 DEF Video!Execute
  <1>7. PlannedInv'
    <2>1. (\E i \in 1 .. p : posted[i].what = "Deliver")
            <=> (\E i \in 1 .. p - 1 : posted'[i].what = "Deliver")
      <3>1. ASSUME NEW i \in 1 .. p, posted[i].what = "Deliver"
            PROVE  \E j \in 1 .. p - 1 : posted'[j].what = "Deliver"
        <4>1. i - 1 \in 1 .. p - 1 /\ (i - 1) + 1 = i  BY <1>3, <1>6, <3>1
        <4>2. posted'[i - 1].what = "Deliver"  BY <1>3, <3>1, <4>1
        <4> QED  BY <4>1, <4>2
      <3>2. ASSUME NEW i \in 1 .. p - 1, posted'[i].what = "Deliver"
            PROVE  \E j \in 1 .. p : posted[j].what = "Deliver"
        <4>1. i + 1 \in 1 .. p /\ posted[i + 1].what = "Deliver"  BY <1>3, <3>2
        <4> QED  BY <4>1
      <3> QED  BY <3>1, <3>2
    <2>2. ASSUME NEW i \in 1 .. p - 1, NEW j \in 1 .. p - 1,
                 posted'[i].what = "Deliver", posted'[j].what = "Deliver"
          PROVE  i = j
      <3>1. /\ i + 1 \in 1 .. p /\ posted[i + 1].what = "Deliver"
            /\ j + 1 \in 1 .. p /\ posted[j + 1].what = "Deliver"
        BY <1>3, <2>2
      <3>2. i + 1 = j + 1  BY <1>4, <3>1 DEF VideoInv, PlannedInv
      <3> QED  BY <1>3, <3>2
    <2> QED  BY <1>1, <1>3, <1>4, <2>1, <2>2 DEF VideoInv, PlannedInv
  <1>8. CASE /\ Head(posted).what = "Failed" /\ Video!ScheduleReconnect
             /\ m_everConnected' = m_everConnected /\ fooled' = fooled
    <2>1. CASE m_userStopped
      <3>1. /\ connectionState' = connectionState /\ reconnectTimer' = reconnectTimer
            /\ m_reconnectDelayMs' = m_reconnectDelayMs
        BY <1>8, <2>1 DEF Video!ScheduleReconnect, Video!retryVars
      <3>2. VideoTypes'
        BY <1>1, <1>2, <1>3, <1>8, <3>1 DEF VideoTypes, Video!TypeOK, Video!maxDelay
      <3>3. RetryInv'  BY <1>1, <1>8, <3>1 DEF VideoInv, RetryInv
      <3>4. ConnectedInv'  BY <1>1, <2>1 DEF VideoInv, RetryInv, ConnectedInv
      <3> QED  BY <1>5, <1>7, <3>2, <3>3, <3>4 DEF VideoInv
    <2>2. CASE ~ m_userStopped
      <3>1. /\ connectionState' = "Disconnected" /\ reconnectTimer' > 0
            /\ reconnectTimer' \in 0 .. kReconnectMaxDelayMs
            /\ m_reconnectDelayMs' \in 0 .. Video!maxDelay'
        BY <1>2, <1>8, <2>2, VideoSchedules
      <3>2. VideoTypes'
        BY <1>1, <1>2, <1>3, <1>8, <3>1 DEF VideoTypes, Video!TypeOK
      <3>3. RetryInv'  BY <1>1, <2>2, <3>1 DEF RetryInv
      <3>4. ConnectedInv'  BY <3>1 DEF ConnectedInv
      <3> QED  BY <1>5, <1>7, <3>2, <3>3, <3>4 DEF VideoInv
    <2> QED  BY <2>1, <2>2
  <1>9. CASE /\ Head(posted).what = "Connecting" /\ connectionState' = "Connecting"
             /\ reconnectTimer' = reconnectTimer /\ m_reconnectDelayMs' = m_reconnectDelayMs
             /\ m_everConnected' = m_everConnected /\ fooled' = fooled
    <2>1. VideoTypes'
      BY <1>1, <1>2, <1>3, <1>9 DEF VideoTypes, Video!TypeOK, Video!maxDelay
    <2>2. RetryInv'
      <3>1. Follows("Connecting", 0)  BY <1>3, <1>4, <1>9 DEF Follows
      <3>2. ~ (pipeline /\ ~ fooled /\ connectionState = "Connected")
        BY <3>1 DEF VideoInv, ConnectedInv
      <3> QED  BY <1>1, <1>9, <3>2 DEF VideoInv, RetryInv
    <2>3. ConnectedInv'  BY <1>9 DEF ConnectedInv
    <2> QED  BY <1>5, <1>7, <2>1, <2>2, <2>3 DEF VideoInv
  <1>10. CASE /\ Head(posted).what = "Connected" /\ connectionState' = "Connected"
              /\ m_reconnectDelayMs' = 0 /\ m_everConnected' = TRUE
              /\ fooled' = (fooled \/ ~ Head(posted).good)
              /\ reconnectTimer' = reconnectTimer
    <2>0. fooled' \in BOOLEAN /\ (~ fooled' => posted[1].good)
      BY <1>3, <1>10
    <2>1. VideoTypes'
      <3>1. Video!maxDelay' \in Nat  BY <1>10 DEF Video!maxDelay
      <3>2. m_reconnectDelayMs' \in 0 .. Video!maxDelay'  BY <1>10, <3>1
      <3> QED  BY <1>1, <1>2, <1>3, <1>10, <2>0, <3>2 DEF VideoTypes, Video!TypeOK
    <2>2. RetryInv'  BY <1>1, <1>10 DEF VideoInv, RetryInv
    <2>3. ConnectedInv'
      <3> SUFFICES ASSUME posted[1].good
                   PROVE  ~ Follows("Connecting", 0)' /\ PlayedOrTold(0)'
        BY <2>0 DEF ConnectedInv
      <3>1. 1 \in 1 .. p /\ posted[1].what = "Connected"  BY <1>3, <1>10
      <3>2. ~ Follows("Connecting", 1) /\ PlayedOrTold(1)
        BY <1>4, <3>1 DEF VideoInv, PostedInv
      <3>3. \A w : Follows(w, 0)' <=> Follows(w, 1)  BY <1>3
      <3> QED  BY <1>1, <3>2, <3>3 DEF PlayedOrTold
    <2> QED  BY <1>5, <1>7, <2>1, <2>2, <2>3 DEF VideoInv
  <1> QED  BY <1>8, <1>9, <1>10 DEF Video!Execute, Video!retryVars

\* A call that outlives its session is good only if it is the delivery.
Outlived(c) == [c EXCEPT !.good = @ /\ c.what = "Deliver"]

LEMMA OutlivedCall ==
  ASSUME NEW c \in Video!Calls
  PROVE  /\ Outlived(c) \in Video!Calls /\ Outlived(c).what = c.what
         /\ ~ (Outlived(c).what = "Connected" /\ Outlived(c).good)
  <1> DEFINE g == c.good /\ c.what = "Deliver"
  <1>1. g \in BOOLEAN /\ (c.what = "Connected" => g = FALSE)
    <2>1. g \in BOOLEAN  BY Zenon
    <2>2. c.what = "Connected" => c.what # "Deliver"  OBVIOUS
    <2> QED  BY <2>1, <2>2, Zenon
  <1>2. Outlived(c) = [c EXCEPT !.good = g]  BY Zenon DEF Outlived
  <1> HIDE DEF g
  <1>3. [c EXCEPT !.good = g] = [what |-> c.what, good |-> g]  BY DEF Video!Calls
  <1>4. c.what \in {"Connecting", "Connected", "Failed", "Deliver"}  BY DEF Video!Calls
  <1>5. /\ Outlived(c) \in Video!Calls /\ Outlived(c).what = c.what /\ Outlived(c).good = g
    BY <1>1, <1>2, <1>3, <1>4 DEF Video!Calls
  <1> QED  BY <1>1, <1>5

\* stop() leaves no message, and no good call but the delivery.
LEMMA VideoStopping ==
  ASSUME VideoInv, NEW e \in {<<>>} \cup {<<a>> : a \in Video!ToSet(bus)}, Video!Stopping(e)
  PROVE  /\ posted' \in Seq(Video!Calls) /\ bus' = <<>> /\ fooled' = FALSE
         /\ m_pending' = [s \in Slots |-> "none"]
         /\ m_reconnectDelayMs' = m_reconnectDelayMs /\ m_everConnected' = m_everConnected
         /\ m_deliveryQueued' = m_deliveryQueued /\ deliverer' = deliverer
         /\ streamer' = streamer
         /\ PlannedInv'
         /\ PostedInv' /\ BusInv'
  <1>1. /\ e # <<>> => bus # <<>> /\ e = <<Head(bus)>>
        /\ bus' = <<>> /\ fooled' = FALSE
        /\ m_pending' = [s \in Slots |-> "none"]
        /\ m_reconnectDelayMs' = m_reconnectDelayMs /\ m_everConnected' = m_everConnected
        /\ m_deliveryQueued' = m_deliveryQueued /\ deliverer' = deliverer
        /\ streamer' = streamer
    BY DEF Video!Stopping
  <1>2. VideoTypes /\ posted \in Seq(Video!Calls) /\ bus \in Seq(Video!Calls)
    BY TypesHold DEF VideoInv
  <1>3. e \in Seq(Video!Calls) /\ \A i \in 1 .. Len(e) : e[i].what # "Deliver"
    <2>1. CASE e = <<>>  BY <2>1
    <2>2. CASE e # <<>>
      <3>1. e = <<Head(bus)>> /\ Head(bus) = bus[1] /\ 1 \in 1 .. Len(bus)
        BY <1>1, <1>2, <2>2
      <3>2. Head(bus) \in Video!Calls /\ Head(bus).what # "Deliver"
        BY <1>2, <3>1 DEF VideoTypes
      <3> QED  BY <3>1, <3>2
    <2> QED  BY <2>1, <2>2
  <1> DEFINE all == posted \o e
             p == Len(posted)
  <1>4. /\ all \in Seq(Video!Calls) /\ p \in Nat /\ Len(all) = p + Len(e) /\ Len(e) \in Nat
        /\ \A i \in 1 .. p : all[i] = posted[i]
        /\ \A i \in 1 .. Len(all) : i > p => all[i].what # "Deliver"
    <2>1. /\ all \in Seq(Video!Calls) /\ p \in Nat /\ Len(all) = p + Len(e) /\ Len(e) \in Nat
          /\ \A i \in 1 .. p : all[i] = posted[i]
      BY <1>2, <1>3
    <2>2. ASSUME NEW i \in 1 .. Len(all), i > p PROVE all[i].what # "Deliver"
      <3>1. i - p \in 1 .. Len(e) /\ all[i] = e[i - p]  BY <1>2, <1>3, <2>1, <2>2
      <3> QED  BY <1>3, <3>1
    <2> QED  BY <2>1, <2>2
  <1>5. posted' = [i \in 1 .. Len(all) |-> Outlived(all[i])]
    BY Zenon DEF Video!Stopping, Outlived
  <1> HIDE DEF all, p
  <1>6. p = Len(posted)  BY DEF p
  <1>7. /\ posted' \in Seq(Video!Calls) /\ Len(posted') = Len(all)
        /\ \A i \in 1 .. Len(all) :
             /\ posted'[i].what = all[i].what
             /\ ~ (posted'[i].what = "Connected" /\ posted'[i].good)
    <2>1. \A i \in 1 .. Len(all) : all[i] \in Video!Calls  BY <1>4
    <2>2. \A i \in 1 .. Len(all) :
            /\ Outlived(all[i]) \in Video!Calls /\ Outlived(all[i]).what = all[i].what
            /\ ~ (Outlived(all[i]).what = "Connected" /\ Outlived(all[i]).good)
      BY <2>1, OutlivedCall
    <2> QED  BY <1>4, <1>5, <2>2
  <1>8. PlannedInv'
    <2>1. ASSUME NEW i \in 1 .. Len(all), posted'[i].what = "Deliver"
          PROVE  i \in 1 .. p /\ posted[i].what = "Deliver"
      BY <1>4, <1>7, <2>1
    <2>2. ASSUME NEW i \in 1 .. p, posted[i].what = "Deliver"
          PROVE  i \in 1 .. Len(all) /\ posted'[i].what = "Deliver"
      <3>1. i \in 1 .. Len(all) /\ all[i] = posted[i]  BY <1>4
      <3> QED  BY <1>7, <2>2, <3>1
    <2> QED  BY <1>1, <1>6, <1>7, <2>1, <2>2 DEF VideoInv, PlannedInv
  <1>9. PostedInv'  BY <1>7 DEF PostedInv
  <1>10. BusInv'  BY <1>1 DEF BusInv
  <1> QED  BY <1>1, <1>7, <1>8, <1>9, <1>10

LEMMA VideoStopTimeout ==
  ASSUME VideoInv, NEW e \in {<<>>} \cup {<<a>> : a \in Video!ToSet(bus)},
         Video!StopTimeout(e)
  PROVE  VideoInv'
  <1>1. /\ stopTimer' = FALSE /\ m_userStopped' = TRUE /\ pipeline' = FALSE
        /\ graph' = "none" /\ connectTimer' = FALSE /\ reconnectTimer' = 0
        /\ connectionState' = "Disconnected"
    BY DEF Video!StopTimeout
  <1>2. /\ posted' \in Seq(Video!Calls) /\ bus' = <<>> /\ fooled' = FALSE
        /\ m_pending' = [s \in Slots |-> "none"]
        /\ m_reconnectDelayMs' = m_reconnectDelayMs /\ m_everConnected' = m_everConnected
        /\ m_deliveryQueued' = m_deliveryQueued /\ deliverer' = deliverer
        /\ streamer' = streamer
        /\ PlannedInv' /\ PostedInv' /\ BusInv'
    BY VideoStopping DEF Video!StopTimeout
  <1>3. VideoTypes  BY DEF VideoInv
  <1>4. VideoTypes'
    <2>1. /\ bus' \in Seq(Video!Calls)
          /\ \A i \in 1 .. Len(bus') : bus'[i].what # "Deliver"
      BY <1>2
    <2>2. m_reconnectDelayMs' \in 0 .. Video!maxDelay'
      BY <1>2, <1>3, TypesHold DEF Video!maxDelay
    <2>3. m_pending' \in [Slots -> {"none", "current"}] /\ streamer' = streamer
      BY <1>2
    <2>4. /\ deliverer' = deliverer /\ m_deliveryQueued' = m_deliveryQueued
          /\ m_everConnected' = m_everConnected /\ fooled' = FALSE
          /\ posted' \in Seq(Video!Calls)
      BY <1>2
    <2>5. reconnectTimer' \in 0 .. kReconnectMaxDelayMs  BY <1>1
    <2> QED  BY <1>1, <1>3, <2>1, <2>2, <2>3, <2>4, <2>5 DEF VideoTypes, Video!TypeOK
  <1>5. RetryInv'  BY <1>1 DEF RetryInv
  <1>6. ConnectedInv'  BY <1>1 DEF ConnectedInv
  <1> QED  BY <1>2, <1>4, <1>5, <1>6 DEF VideoInv

LEMMA VideoReconnectTimeout ==
  ASSUME VideoInv, NEW e \in {<<>>} \cup {<<a>> : a \in Video!ToSet(bus)},
         Video!HandleReconnectTimeout(e)
  PROVE  VideoInv'
  <1>1. reconnectTimer' = 0 /\ stopTimer' = stopTimer
    BY DEF Video!HandleReconnectTimeout
  <1>2. VideoTypes  BY DEF VideoInv
  <1>3. CASE /\ m_userStopped \/ connectionState = "Connected"
             /\ UNCHANGED <<Video!sessionVars, connectionState, m_reconnectDelayMs,
                            m_everConnected, graph, bus, posted, Video!slotVars, fooled>>
    <2>1. /\ pipeline' = pipeline /\ m_userStopped' = m_userStopped
          /\ connectTimer' = connectTimer /\ connectionState' = connectionState
          /\ m_reconnectDelayMs' = m_reconnectDelayMs /\ m_everConnected' = m_everConnected
          /\ graph' = graph /\ bus' = bus /\ posted' = posted
          /\ m_pending' = m_pending /\ m_deliveryQueued' = m_deliveryQueued
          /\ deliverer' = deliverer /\ streamer' = streamer /\ fooled' = fooled
      BY <1>3 DEF Video!sessionVars, Video!slotVars
    <2>2. VideoTypes'
      BY <1>1, <1>2, <2>1 DEF VideoTypes, Video!TypeOK, Video!maxDelay
    <2>3. PlannedInv'  BY <2>1 DEF VideoInv, PlannedInv
    <2>4. RetryInv'
      <3>1. pipeline => connectionState = "Connected"  BY <1>3 DEF VideoInv, RetryInv
      <3> QED  BY <1>1, <2>1, <3>1 DEF VideoInv, RetryInv
    <2>5. ConnectedInv' /\ PostedInv' /\ BusInv'
      BY <2>1 DEF VideoInv, ConnectedInv, PostedInv, BusInv, Follows, PlayedOrTold
    <2> QED  BY <2>2, <2>3, <2>4, <2>5 DEF VideoInv
  <1>4. ASSUME Video!Stopping(e), NEW parses \in BOOLEAN, Video!Started(parses)
        PROVE  VideoInv'
    <2>1. /\ m_userStopped' = FALSE /\ pipeline' = parses /\ connectTimer' = parses
          /\ connectionState' = IF parses THEN "Connecting" ELSE "Disconnected"
          /\ graph' = IF parses THEN "opening" ELSE "none"
      BY <1>4 DEF Video!Started
    <2>2. /\ posted' \in Seq(Video!Calls) /\ bus' = <<>> /\ fooled' = FALSE
          /\ m_pending' = [s \in Slots |-> "none"]
          /\ m_reconnectDelayMs' = m_reconnectDelayMs /\ m_everConnected' = m_everConnected
          /\ m_deliveryQueued' = m_deliveryQueued /\ deliverer' = deliverer
          /\ streamer' = streamer
          /\ PlannedInv' /\ PostedInv' /\ BusInv'
      BY <1>4, VideoStopping
    <2>3. VideoTypes'
      <3>1. parses => graph' = "opening" /\ connectionState' = "Connecting"  BY <2>1
      <3>2. ~ parses => graph' = "none" /\ connectionState' = "Disconnected"  BY <2>1
      <3>3. /\ graph' \in {"none", "opening"}
            /\ connectionState' \in {"Connecting", "Disconnected"}
            /\ graph' # "none" => pipeline'
        BY <2>1, <3>1, <3>2
      <3>4. /\ bus' \in Seq(Video!Calls)
            /\ \A i \in 1 .. Len(bus') : bus'[i].what # "Deliver"
        BY <2>2
      <3>5. m_reconnectDelayMs' \in 0 .. Video!maxDelay'
        BY <1>2, <2>2, TypesHold DEF Video!maxDelay
      <3>6. m_pending' \in [Slots -> {"none", "current"}] /\ streamer' = streamer
        BY <2>2
      <3>7. /\ deliverer' = deliverer /\ m_deliveryQueued' = m_deliveryQueued
            /\ m_everConnected' = m_everConnected /\ fooled' = FALSE
            /\ posted' \in Seq(Video!Calls)
        BY <2>2
      <3>8. reconnectTimer' \in 0 .. kReconnectMaxDelayMs  BY <1>1
      <3> QED
        BY <1>1, <1>2, <2>1, <3>3, <3>4, <3>5, <3>6, <3>7, <3>8
        DEF VideoTypes, Video!TypeOK
    <2>4. RetryInv'  BY <2>1 DEF RetryInv
    <2>5. ConnectedInv'  BY <2>1 DEF ConnectedInv
    <2> QED  BY <2>2, <2>3, <2>4, <2>5 DEF VideoInv
  <1> QED  BY <1>3, <1>4 DEF Video!HandleReconnectTimeout

LEMMA VideoInductive == VideoInv /\ [Video!Next]_(Video!vars) => VideoInv'
  <1> SUFFICES ASSUME VideoInv, [Video!Next]_(Video!vars) PROVE VideoInv'  OBVIOUS
  <1>1. CASE Video!Next
    BY <1>1, VideoEarly, VideoPlays, VideoFails, VideoBusLoop, VideoPush,
       VideoScheduleDelivery, VideoDeliverPending, VideoRequests, VideoConnectTimeout,
       VideoExecute, VideoStopTimeout, VideoReconnectTimeout
    DEF Video!Next
  <1>2. CASE UNCHANGED Video!vars
    <2>1. /\ pipeline' = pipeline /\ m_userStopped' = m_userStopped
          /\ connectTimer' = connectTimer /\ connectionState' = connectionState
          /\ reconnectTimer' = reconnectTimer /\ stopTimer' = stopTimer
          /\ m_reconnectDelayMs' = m_reconnectDelayMs /\ m_everConnected' = m_everConnected
          /\ graph' = graph /\ bus' = bus /\ posted' = posted
          /\ m_pending' = m_pending /\ m_deliveryQueued' = m_deliveryQueued
          /\ deliverer' = deliverer /\ streamer' = streamer /\ fooled' = fooled
      BY <1>2 DEF Video!vars, Video!sessionVars, Video!retryVars, Video!slotVars
    <2>2. VideoTypes' /\ PlannedInv' /\ RetryInv'
      BY <2>1 DEF VideoInv, VideoTypes, Video!TypeOK, Video!maxDelay, PlannedInv, RetryInv
    <2>3. ConnectedInv' /\ PostedInv' /\ BusInv'
      BY <2>1 DEF VideoInv, ConnectedInv, PostedInv, BusInv, Follows, PlayedOrTold
    <2> QED  BY <2>2, <2>3 DEF VideoInv
  <1> QED  BY <1>1, <1>2

LEMMA VideoInitially == Video!Init => VideoInv
  <1> SUFFICES ASSUME Video!Init PROVE VideoInv  OBVIOUS
  <1>1. bus = <<>> /\ posted = <<>>  BY DEF Video!Init
  <1>2. VideoTypes
    <2>1. /\ bus \in Seq(Video!Calls) /\ posted \in Seq(Video!Calls)
          /\ \A i \in 1 .. Len(bus) : bus[i].what # "Deliver"
      BY <1>1
    <2>2. Video!maxDelay \in Nat  BY DEF Video!maxDelay
    <2>3. m_reconnectDelayMs \in 0 .. Video!maxDelay  BY <2>2 DEF Video!Init
    <2>4. reconnectTimer \in 0 .. kReconnectMaxDelayMs  BY DEF Video!Init
    <2> QED  BY <2>1, <2>3, <2>4 DEF Video!Init, VideoTypes, Video!TypeOK
  <1>3. PlannedInv /\ RetryInv  BY <1>1 DEF Video!Init, PlannedInv, RetryInv
  <1>4. ConnectedInv /\ PostedInv /\ BusInv
    BY <1>1 DEF Video!Init, ConnectedInv, PostedInv, BusInv
  <1> QED  BY <1>2, <1>3, <1>4 DEF VideoInv

LEMMA VideoSafe == VideoInv => Video!Safety
  <1> SUFFICES ASSUME VideoInv PROVE Video!Safety  OBVIOUS
  <1>1. VideoTypes /\ posted \in Seq(Video!Calls)  BY TypesHold DEF VideoInv
  <1>2. DOMAIN posted = 1 .. Len(posted)  BY <1>1
  <1>3. Video!RetryIsArmed
    <2> SUFFICES ASSUME pipeline, graph # "playing", ~ fooled, bus = <<>>,
                        \A i \in DOMAIN posted : posted[i].what = "Deliver"
                 PROVE  connectTimer \/ reconnectTimer > 0
      BY DEF Video!RetryIsArmed
    <2>1. ~ Follows("Failed", 0)  BY <1>2 DEF Follows
    <2>2. connectionState # "Connected"
      BY <2>1 DEF VideoInv, ConnectedInv, PlayedOrTold
    <2> QED  BY <1>1, <2>2, TypesHold DEF VideoInv, RetryInv
  <1>4. Video!StoppedStaysStopped  BY DEF VideoInv, RetryInv, Video!StoppedStaysStopped
  <1>5. Video!DeliveryIsPlanned
    BY <1>2 DEF VideoInv, PlannedInv, Video!DeliveryIsPlanned
  <1> QED  BY <1>1, <1>3, <1>4, <1>5 DEF VideoTypes, Video!Safety

HIDE VideoAssumption DEF Video!ConstantAssumption

-----------------------------------------------------------------------------
\* The latency record of the terminal (LatencyTracker).

None == Latency!None
Times == Nat \cup {None}
Told == {"INCOMPLETE", "OK", "PORT_CLOSED", "TX_SUSPENDED"}
Rows ==
  [seq : Nat, riskLevel : Levels, t2 : Times, sent : Levels \cup {None}, t3 : Told,
   own : BOOLEAN]

\* A row of a change, with the time of its own frame, and of its own level.
TrueRows ==
  {r \in Rows : /\ r.seq > 0 /\ r.t2 \in {None, r.seq}
                /\ r.t3 = "OK" /\ r.own => r.sent = r.riskLevel}

Trackers ==
  [enabled : BOOLEAN, last : Levels \cup {None}, counter : Nat, current : Rows,
   awaitingSync : BOOLEAN, t2Armed : BOOLEAN, t3Armed : BOOLEAN, pending : Seq(TrueRows)]

Numbers(q) == {q[i].seq : i \in 1 .. Len(q)}
Rising(q) == \A i, j \in 1 .. Len(q) : i < j => q[i].seq < q[j].seq
Current(t) == IF t.current.seq > 0 THEN {t.current.seq} ELSE {}
Below(A, B) == \A x \in A, y \in B : x < y

\* What tracker t holds, with the rows q that were written and the numbers d lost.
TrackerFits(t, q, d) ==
  /\ t \in Trackers /\ q \in Seq(TrueRows)
  /\ t.current = Latency!NoMeasurement \/ t.current \in TrueRows
  /\ t.current.seq > 0 => t.current.seq = t.counter /\ t.current.riskLevel = t.last
  /\ ~ t.enabled => t.current.seq = 0
  /\ Rising(q) /\ Rising(t.pending)
  /\ Below(Numbers(q), Numbers(t.pending))
  /\ Below(Numbers(q) \cup Numbers(t.pending), Current(t))
  /\ Numbers(q) \cup Numbers(t.pending) \cup Current(t) = (1 .. t.counter) \ d
  /\ d \subseteq 1 .. t.counter

\* The frame f that is being rendered is the one T2 waits for.
FrameFits(t, f) == t.t2Armed /\ t.current.seq # 0 => f = t.current.seq

LatencyInv ==
  /\ TrackerFits(m, rows, dropped) /\ FrameFits(m, frame)
  /\ m.counter <= MaxChanges
  /\ m_lastRiskLevel \in Levels /\ m_lastTransmittedRiskLevel \in Levels \cup {None}
  /\ suspended \in BOOLEAN /\ own \in BOOLEAN /\ frame \in Times
  /\ m.enabled /\ own => m_lastRiskLevel = m.last

USE LatencyAssumption DEF Latency!ConstantAssumption

\* Rows behind rows with smaller numbers.
LEMMA RowsBehind ==
  ASSUME NEW a \in Seq(TrueRows), NEW b \in Seq(TrueRows), Rising(a), Rising(b),
         Below(Numbers(a), Numbers(b))
  PROVE  /\ a \o b \in Seq(TrueRows) /\ Rising(a \o b)
         /\ Numbers(a \o b) = Numbers(a) \cup Numbers(b)
  <1> DEFINE c == a \o b
             n == Len(a)
             k == Len(b)
  <1>1. /\ c \in Seq(TrueRows) /\ n \in Nat /\ k \in Nat /\ Len(c) = n + k
        /\ \A i \in 1 .. n : c[i] = a[i]
        /\ \A i \in 1 .. n + k : i > n => c[i] = b[i - n]
    OBVIOUS
  <1>2. \A i \in 1 .. n + k : c[i].seq \in Nat  BY <1>1 DEF TrueRows, Rows
  <1> HIDE DEF c, n, k
  <1>3. n = Len(a) /\ k = Len(b)  BY DEF n, k
  <1>4. ASSUME NEW i \in 1 .. n + k, i > n
        PROVE  i - n \in 1 .. k /\ c[i] = b[i - n] /\ c[i].seq \in Numbers(b)
    <2>1. i - n \in 1 .. k /\ c[i] = b[i - n]  BY <1>1, <1>4
    <2> QED  BY <1>3, <2>1 DEF Numbers
  <1>5. \A i \in 1 .. n : c[i].seq \in Numbers(a)  BY <1>1, <1>3 DEF Numbers
  <1>6. Rising(c)
    <2> SUFFICES ASSUME NEW i \in 1 .. n + k, NEW j \in 1 .. n + k, i < j
                 PROVE  c[i].seq < c[j].seq
      BY <1>1 DEF Rising
    <2>1. CASE j <= n
      <3>1. i \in 1 .. n /\ j \in 1 .. n /\ c[i] = a[i] /\ c[j] = a[j]  BY <1>1, <2>1
      <3> QED  BY <1>3, <3>1 DEF Rising
    <2>2. CASE i <= n /\ j > n
      <3>1. c[i].seq \in Numbers(a) /\ c[j].seq \in Numbers(b)  BY <1>1, <1>4, <1>5, <2>2
      <3> QED  BY <3>1 DEF Below
    <2>3. CASE i > n
      <3>1. j > n  BY <1>1, <2>3
      <3>2. /\ i - n \in 1 .. k /\ j - n \in 1 .. k /\ i - n < j - n
            /\ c[i] = b[i - n] /\ c[j] = b[j - n]
        BY <1>1, <1>4, <2>3, <3>1
      <3> QED  BY <1>3, <3>2 DEF Rising
    <2> QED  BY <1>1, <2>1, <2>2, <2>3
  <1>7. Numbers(c) = Numbers(a) \cup Numbers(b)
    <2>1. ASSUME NEW x \in Numbers(c) PROVE x \in Numbers(a) \cup Numbers(b)
      <3>1. PICK i \in 1 .. n + k : x = c[i].seq  BY <1>1, <2>1 DEF Numbers
      <3> QED  BY <1>1, <1>4, <1>5, <3>1
    <2>2. ASSUME NEW x \in Numbers(a) PROVE x \in Numbers(c)
      <3>1. PICK i \in 1 .. n : x = a[i].seq  BY <1>3, <2>2 DEF Numbers
      <3>2. i \in 1 .. n + k /\ x = c[i].seq  BY <1>1, <3>1
      <3> QED  BY <1>1, <3>2 DEF Numbers
    <2>3. ASSUME NEW x \in Numbers(b) PROVE x \in Numbers(c)
      <3>1. PICK i \in 1 .. k : x = b[i].seq  BY <1>3, <2>3 DEF Numbers
      <3>2. i + n \in 1 .. n + k /\ i + n > n /\ (i + n) - n = i  BY <1>1
      <3>3. x = c[i + n].seq  BY <1>1, <3>1, <3>2
      <3> QED  BY <1>1, <3>2, <3>3 DEF Numbers
    <2> QED  BY <2>1, <2>2, <2>3
  <1> QED  BY <1>1, <1>6, <1>7 DEF c

LEMMA OneRow ==
  ASSUME NEW r \in TrueRows
  PROVE  <<r>> \in Seq(TrueRows) /\ Rising(<<r>>) /\ Numbers(<<r>>) = {r.seq}
  BY DEF Rising, Numbers

LEMMA NoRow ==
  <<>> \in Seq(TrueRows) /\ Rising(<<>>) /\ Numbers(<<>>) = {}
  BY DEF Rising, Numbers

LEMMA RowAdded ==
  ASSUME NEW a \in Seq(TrueRows), NEW r \in TrueRows
  PROVE  Append(a, r) = a \o <<r>>
  OBVIOUS

LEMMA NumbersAreNat ==
  ASSUME NEW a \in Seq(TrueRows) PROVE Numbers(a) \subseteq Nat \ {0}
  BY DEF Numbers, TrueRows, Rows

LEMMA PlainRow ==
  /\ Latency!NoMeasurement \in Rows /\ Latency!NoMeasurement.seq = 0
  /\ None = -1 /\ None \notin Nat
  BY DEF Latency!NoMeasurement, Rows, Times, Told, None, Latency!None

\* Members of a tracker.
LEMMA TrackerParts ==
  ASSUME NEW t \in Trackers
  PROVE  /\ t.enabled \in BOOLEAN /\ t.last \in Levels \cup {None} /\ t.counter \in Nat
         /\ t.current \in Rows /\ t.awaitingSync \in BOOLEAN /\ t.t2Armed \in BOOLEAN
         /\ t.t3Armed \in BOOLEAN /\ t.pending \in Seq(TrueRows)
         /\ t.current.seq \in Nat
  BY DEF Trackers, Rows

\* What may move between the members of a tracker, and its rows, is the same numbers.
LEMMA SameNumbers ==
  ASSUME NEW t, NEW u, NEW q, NEW d, TrackerFits(t, q, d), u \in Trackers,
         u.counter = t.counter, u.enabled = t.enabled, u.last = t.last,
         u.pending = t.pending, u.current.seq = t.current.seq,
         u.current.riskLevel = t.current.riskLevel,
         u.current = Latency!NoMeasurement \/ u.current \in TrueRows
  PROVE  TrackerFits(u, q, d)
  BY DEF TrackerFits, Current

\* checkAndEnqueue moves a measurement that is complete behind the pending ones.
LEMMA Enqueued ==
  ASSUME NEW t, NEW q, NEW d, TrackerFits(t, q, d)
  PROVE  LET u == Latency!checkAndEnqueue(t) IN
         /\ TrackerFits(u, q, d)
         /\ u.enabled = t.enabled /\ u.last = t.last /\ u.counter = t.counter
         /\ u.t2Armed = t.t2Armed /\ u.current.seq \in {0, t.current.seq}
  <1> DEFINE u == Latency!checkAndEnqueue(t)
  <1>1. t \in Trackers  BY DEF TrackerFits
  <1>2. CASE u = t  BY <1>1, <1>2
  <1>3. CASE /\ t.current.seq > 0
             /\ u = [t EXCEPT !.pending = Append(@, t.current), !.current = Latency!NoMeasurement]
    <2>1. t.current \in TrueRows  BY <1>3, PlainRow DEF TrackerFits
    <2>2. /\ t.pending \in Seq(TrueRows) /\ Rising(t.pending)
          /\ Below(Numbers(t.pending), {t.current.seq})
      BY <1>1, <1>3, TrackerParts DEF TrackerFits, Below, Current
    <2> DEFINE p == Append(t.pending, t.current)
    <2>3. /\ p \in Seq(TrueRows) /\ Rising(p)
          /\ Numbers(p) = Numbers(t.pending) \cup {t.current.seq}
      BY <2>1, <2>2, RowsBehind, RowAdded, OneRow
    <2> HIDE DEF p
    <2>4. /\ u \in Trackers /\ u.pending = p /\ u.current = Latency!NoMeasurement
          /\ u.enabled = t.enabled /\ u.last = t.last /\ u.counter = t.counter
          /\ u.t2Armed = t.t2Armed
      BY <1>1, <1>3, <2>3, PlainRow DEF Trackers, p
    <2> HIDE DEF u
    <2>5. u.current.seq = 0  BY <2>4, PlainRow
    <2>6. Current(t) = {t.current.seq} /\ Current(u) = {}  BY <1>3, <2>5 DEF Current
    <2>7. /\ Below(Numbers(q), Numbers(p))
          /\ Below(Numbers(q) \cup Numbers(p), Current(u))
          /\ Numbers(q) \cup Numbers(p) \cup Current(u) = (1 .. t.counter) \ d
      BY <2>3, <2>6 DEF TrackerFits, Below
    <2>8. TrackerFits(u, q, d)
      <3>1. /\ Numbers(u.pending) = Numbers(p) /\ Rising(u.pending)
            /\ u.counter = t.counter /\ ~ (u.current.seq > 0)
        BY <2>3, <2>4, <2>5
      <3>2. /\ q \in Seq(TrueRows) /\ Rising(q) /\ d \subseteq 1 .. t.counter
        BY DEF TrackerFits
      <3> QED  BY <2>4, <2>5, <2>7, <3>1, <3>2 DEF TrackerFits
    <2> QED  BY <2>4, <2>5, <2>8 DEF u
  <1> QED  BY <1>1, <1>2, <1>3, TrackerParts DEF Latency!checkAndEnqueue

\* A row that is told its T3, where OK is told of the level of the tracker.
LEMMA T3Told ==
  ASSUME NEW t, NEW q, NEW d, NEW status \in Told, NEW l \in Levels \cup {None},
         NEW o \in BOOLEAN, TrackerFits(t, q, d),
         status = "OK" /\ t.enabled /\ o => l = t.last
  PROVE  LET u == Latency!onT3(t, status, l, o) IN
         /\ TrackerFits(u, q, d)
         /\ u.enabled = t.enabled /\ u.last = t.last /\ u.counter = t.counter
         /\ u.t2Armed = t.t2Armed /\ u.current.seq \in {0, t.current.seq}
  <1> DEFINE u == Latency!onT3(t, status, l, o)
             c == [t.current EXCEPT !.t3 = status, !.sent = l, !.own = o]
             v == [t EXCEPT !.current = c, !.t3Armed = FALSE]
             w == [t EXCEPT !.current.t3 = status, !.current.sent = l, !.current.own = o,
                            !.t3Armed = FALSE]
  <1>1. t \in Trackers  BY DEF TrackerFits
  <1>2. CASE u = t  BY <1>1, <1>2
  <1>3. CASE t.enabled /\ t.current.seq # 0 /\ u = Latency!checkAndEnqueue(w)
    <2>1. w = v  BY <1>1 DEF Trackers, Rows
    <2>2. t.current \in TrueRows /\ t.current.seq > 0 /\ t.current.riskLevel = t.last
      BY <1>1, <1>3, PlainRow, TrackerParts DEF TrackerFits
    <2>3. /\ c.seq = t.current.seq /\ c.riskLevel = t.current.riskLevel
          /\ c.t2 = t.current.t2 /\ c.t3 = status /\ c.sent = l /\ c.own = o
          /\ c \in Rows
      BY <2>2 DEF TrueRows, Rows
    <2> HIDE DEF c
    <2>4. c \in TrueRows
      <3>1. c.seq > 0 /\ c.t2 \in {None, c.seq}  BY <2>2, <2>3 DEF TrueRows
      <3>2. c.t3 = "OK" /\ c.own => c.sent = c.riskLevel
        BY <1>3, <2>2, <2>3
      <3> QED  BY <2>3, <3>1, <3>2 DEF TrueRows
    <2>5. /\ v \in Trackers /\ v.current = c /\ v.enabled = t.enabled /\ v.last = t.last
          /\ v.counter = t.counter /\ v.t2Armed = t.t2Armed /\ v.pending = t.pending
      BY <1>1, <2>3 DEF Trackers
    <2> HIDE DEF v
    <2>6. TrackerFits(v, q, d)  BY <2>3, <2>4, <2>5, SameNumbers
    <2> HIDE DEF w, u
    <2>7. u = Latency!checkAndEnqueue(v)  BY <1>3, <2>1
    <2> DEFINE x == Latency!checkAndEnqueue(v)
    <2>8. /\ TrackerFits(x, q, d)
          /\ x.enabled = v.enabled /\ x.last = v.last /\ x.counter = v.counter
          /\ x.t2Armed = v.t2Armed /\ x.current.seq \in {0, v.current.seq}
      BY <2>6, Enqueued
    <2> HIDE DEF x
    <2>9. u = x  BY <2>7 DEF x
    <2> QED  BY <2>3, <2>5, <2>8, <2>9 DEF u
  <1> QED  BY <1>2, <1>3, Zenon DEF Latency!onT3

LEMMA T2Told ==
  ASSUME NEW t, NEW q, NEW d, NEW f \in Times, TrackerFits(t, q, d), FrameFits(t, f), f = frame
  PROVE  LET u == Latency!onT2FrameSwapped(t) IN
         /\ TrackerFits(u, q, d)
         /\ u.enabled = t.enabled /\ u.last = t.last /\ u.counter = t.counter
         /\ ~ (u.t2Armed /\ u.current.seq # 0)
  <1> DEFINE u == Latency!onT2FrameSwapped(t)
             c == [t.current EXCEPT !.t2 = f]
             v == [t EXCEPT !.current = c, !.t2Armed = FALSE]
             w == [t EXCEPT !.current.t2 = frame, !.t2Armed = FALSE]
  <1>1. t \in Trackers  BY DEF TrackerFits
  <1>2. CASE u = t /\ ~ (t.enabled /\ t.t2Armed /\ t.current.seq # 0)
    BY <1>1, <1>2 DEF TrackerFits
  <1>3. CASE t.enabled /\ t.t2Armed /\ t.current.seq # 0 /\ u = Latency!checkAndEnqueue(w)
    <2>1. w = v  BY <1>1 DEF Trackers, Rows
    <2>2. t.current \in TrueRows /\ t.current.seq > 0 /\ f = t.current.seq
      BY <1>1, <1>3, PlainRow, TrackerParts DEF TrackerFits, FrameFits
    <2>3. /\ c.seq = t.current.seq /\ c.riskLevel = t.current.riskLevel
          /\ c.t2 = f /\ c.t3 = t.current.t3 /\ c.sent = t.current.sent
          /\ c.own = t.current.own /\ c \in Rows
      BY <2>2 DEF TrueRows, Rows
    <2> HIDE DEF c
    <2>4. c \in TrueRows  BY <2>2, <2>3 DEF TrueRows
    <2>5. /\ v \in Trackers /\ v.current = c /\ v.enabled = t.enabled /\ v.last = t.last
          /\ v.counter = t.counter /\ v.t2Armed = FALSE /\ v.pending = t.pending
      BY <1>1, <2>3 DEF Trackers
    <2> HIDE DEF v
    <2>6. TrackerFits(v, q, d)  BY <2>3, <2>4, <2>5, SameNumbers
    <2> HIDE DEF w, u
    <2>7. u = Latency!checkAndEnqueue(v)  BY <1>3, <2>1
    <2> DEFINE x == Latency!checkAndEnqueue(v)
    <2>8. /\ TrackerFits(x, q, d)
          /\ x.enabled = v.enabled /\ x.last = v.last /\ x.counter = v.counter
          /\ x.t2Armed = v.t2Armed
      BY <2>6, Enqueued
    <2> HIDE DEF x
    <2>9. u = x  BY <2>7 DEF x
    <2> QED  BY <2>5, <2>8, <2>9 DEF u
  <1> QED  BY <1>2, <1>3, Zenon DEF Latency!onT2FrameSwapped

\* The measurement that is not finished goes behind the pending ones.
LEMMA UnfinishedBehind ==
  ASSUME NEW t, NEW q, NEW d, TrackerFits(t, q, d)
  PROVE  LET p == t.pending \o Latency!Unfinished(t) IN
         /\ p \in Seq(TrueRows) /\ Rising(p)
         /\ Numbers(p) = Numbers(t.pending) \cup Current(t)
  <1> DEFINE p == t.pending \o Latency!Unfinished(t)
  <1>1. t.pending \in Seq(TrueRows) /\ Rising(t.pending)  BY TrackerParts DEF TrackerFits
  <1>2. CASE t.current.seq > 0
    <2>1. t.current \in TrueRows  BY <1>2, PlainRow DEF TrackerFits
    <2>2. p = t.pending \o <<t.current>> /\ Current(t) = {t.current.seq}
      BY <1>2 DEF Latency!Unfinished, Current
    <2>3. Below(Numbers(t.pending), {t.current.seq})
      BY <2>2 DEF TrackerFits, Below
    <2>4. /\ <<t.current>> \in Seq(TrueRows) /\ Rising(<<t.current>>)
          /\ Numbers(<<t.current>>) = {t.current.seq}
      BY <2>1, OneRow
    <2>5. Below(Numbers(t.pending), Numbers(<<t.current>>))  BY <2>3, <2>4
    <2> QED  BY <1>1, <2>2, <2>4, <2>5, RowsBehind
  <1>3. CASE ~ (t.current.seq > 0)
    <2>1. p = t.pending \o <<>> /\ Current(t) = {}
      BY <1>3 DEF Latency!Unfinished, Current
    <2>2. t.pending \o <<>> = t.pending  BY <1>1
    <2> QED  BY <1>1, <2>1, <2>2
  <1> QED  BY <1>2, <1>3

LEMMA FreshRow ==
  ASSUME NEW n \in Nat, NEW l \in Levels
  PROVE  LET c == [Latency!NoMeasurement EXCEPT !.seq = n, !.riskLevel = l] IN
         /\ c.seq = n /\ c.riskLevel = l /\ c.t2 = None /\ c.t3 = "INCOMPLETE"
         /\ c \in Rows
  <1> DEFINE e == Latency!NoMeasurement
  <1>1. e \in Rows /\ e.t2 = None /\ e.t3 = "INCOMPLETE"
    BY PlainRow DEF Latency!NoMeasurement, None
  <1> HIDE DEF e
  <1>2. LET c == [e EXCEPT !.seq = n, !.riskLevel = l] IN
        /\ c.seq = n /\ c.riskLevel = l /\ c.t2 = None /\ c.t3 = "INCOMPLETE"
        /\ c \in Rows
    BY <1>1 DEF Rows
  <1> QED  BY <1>2 DEF e

\* A change of the level puts the measurement that was not finished behind the others.
LEMMA T1Told ==
  ASSUME NEW t, NEW q, NEW d, NEW l \in Levels, TrackerFits(t, q, d)
  PROVE  LET u == Latency!onT1RiskEventReceived(t, l) IN
         /\ TrackerFits(u, q, d)
         /\ u.enabled = t.enabled /\ (u.enabled => u.last = l)
         /\ u.counter \in {t.counter, t.counter + 1}
         /\ u = t \/ u.t2Armed = FALSE
  <1> DEFINE u == Latency!onT1RiskEventReceived(t, l)
             n == t.counter + 1
             c == [Latency!NoMeasurement EXCEPT !.seq = t.counter + 1, !.riskLevel = l]
             p == t.pending \o Latency!Unfinished(t)
  <1>1. t \in Trackers /\ t.counter \in Nat  BY TrackerParts DEF TrackerFits
  <1>2. CASE u = t /\ ~ (t.enabled /\ l # t.last)  BY <1>1, <1>2
  <1>3. CASE t.enabled /\ l # t.last /\ u = Latency!Armed(t, l)
    <2>1. /\ c.seq = n /\ c.riskLevel = l /\ c.t2 = None /\ c.t3 = "INCOMPLETE"
          /\ c \in Rows
      <3>1. n \in Nat  BY <1>1
      <3> QED  BY <3>1, FreshRow
    <2>2. n \in Nat /\ n > 0 /\ n > t.counter  BY <1>1
    <2> HIDE DEF c, n
    <2>3. c \in TrueRows  BY <2>1, <2>2 DEF TrueRows
    <2>4. /\ p \in Seq(TrueRows) /\ Rising(p)
          /\ Numbers(p) = Numbers(t.pending) \cup Current(t)
      BY UnfinishedBehind
    <2>5. u = [t EXCEPT !.pending = p, !.last = l, !.counter = n,
                        !.current = c, !.awaitingSync = TRUE, !.t2Armed = FALSE,
                        !.t3Armed = TRUE]
      BY <1>3 DEF Latency!Armed, n, c
    <2> HIDE DEF p, u
    <2>6. /\ u \in Trackers /\ u.pending = p /\ u.last = l /\ u.counter = n
          /\ u.current = c /\ u.t2Armed = FALSE /\ u.enabled = t.enabled
      BY <1>1, <2>1, <2>2, <2>4, <2>5 DEF Trackers
    <2>7. Current(u) = {n} /\ Numbers(u.pending) = Numbers(t.pending) \cup Current(t)
      BY <2>1, <2>2, <2>4, <2>6 DEF Current
    <2>8. /\ Numbers(q) \cup Numbers(t.pending) \cup Current(t) = (1 .. t.counter) \ d
          /\ d \subseteq 1 .. t.counter
          /\ q \in Seq(TrueRows) /\ Rising(q)
          /\ Below(Numbers(q), Numbers(t.pending))
          /\ Below(Numbers(q), Current(t))
      BY DEF TrackerFits, Below
    <2>9. /\ Below(Numbers(q), Numbers(u.pending))
          /\ Below(Numbers(q) \cup Numbers(u.pending), Current(u))
      <3>1. \A x \in Numbers(q) \cup Numbers(u.pending) : x \in 1 .. t.counter
        BY <2>7, <2>8
      <3>2. \A x \in 1 .. t.counter : x < n  BY <1>1, <2>2
      <3> QED  BY <2>7, <2>8, <3>1, <3>2 DEF Below
    <2>10. /\ Numbers(q) \cup Numbers(u.pending) \cup Current(u) = (1 .. n) \ d
           /\ d \subseteq 1 .. n
      <3>1. 1 .. n = (1 .. t.counter) \cup {n} /\ n \notin 1 .. t.counter
        BY <1>1 DEF n
      <3> QED  BY <2>7, <2>8, <3>1
    <2>11. TrackerFits(u, q, d)
      BY <1>3, <2>1, <2>3, <2>4, <2>6, <2>8, <2>9, <2>10 DEF TrackerFits
    <2> QED  BY <2>6, <2>11, <1>3 DEF u, n
  <1> QED  BY <1>2, <1>3, Zenon DEF Latency!onT1RiskEventReceived

LEMMA SyncTold ==
  ASSUME NEW t, NEW q, NEW d, TrackerFits(t, q, d), ~ (t.t2Armed /\ t.current.seq # 0)
  PROVE  LET u == Latency!onAfterSynchronizing(t) IN
         /\ TrackerFits(u, q, d) /\ FrameFits(u, t.counter)
         /\ u.enabled = t.enabled /\ u.last = t.last /\ u.counter = t.counter
  <1> DEFINE u == Latency!onAfterSynchronizing(t)
             v == [t EXCEPT !.awaitingSync = FALSE, !.t2Armed = TRUE]
  <1>1. t \in Trackers  BY DEF TrackerFits
  <1>2. CASE u = t  BY <1>1, <1>2 DEF FrameFits
  <1>3. CASE t.current.seq # 0 /\ u = v
    <2>1. /\ v \in Trackers /\ v.current = t.current /\ v.enabled = t.enabled
          /\ v.last = t.last /\ v.counter = t.counter /\ v.pending = t.pending
      BY <1>1 DEF Trackers
    <2> HIDE DEF v
    <2>2. v.current = Latency!NoMeasurement \/ v.current \in TrueRows
      BY <2>1 DEF TrackerFits
    <2>4. TrackerFits(v, q, d)
      <3>1. /\ v.current.seq = t.current.seq
            /\ v.current.riskLevel = t.current.riskLevel
        BY <2>1
      <3> QED  BY <2>1, <2>2, <3>1, SameNumbers
    <2>3. FrameFits(v, t.counter)
      BY <1>1, <1>3, <2>1, TrackerParts DEF FrameFits, TrackerFits
    <2> QED  BY <1>3, <2>1, <2>4, <2>3
  <1> QED  BY <1>2, <1>3, Zenon DEF Latency!onAfterSynchronizing

\* Rows w that are written go behind those in the file, or are lost with it.
LEMMA RowsWritten ==
  ASSUME NEW t, NEW q, NEW d, NEW u, NEW w \in Seq(TrueRows), NEW e, NEW f,
         TrackerFits(t, q, d), u \in Trackers,
         u.counter = t.counter, u.pending = <<>>, u.last = t.last,
         Rising(w), Below(Numbers(q), Numbers(w)), Below(Numbers(w), Current(u)),
         Numbers(w) \cup Current(u) = Numbers(t.pending) \cup Current(t),
         u.current = Latency!NoMeasurement \/ u.current = t.current,
         ~ u.enabled => u.current.seq = 0,
         \/ e = q \o w /\ f = d
         \/ e = q /\ f = d \cup {w[i].seq : i \in DOMAIN w}
  PROVE  TrackerFits(u, e, f)
  <1>1. t \in Trackers /\ q \in Seq(TrueRows) /\ Rising(q) /\ d \subseteq 1 .. t.counter
    BY DEF TrackerFits
  <1>2. Numbers(q) \cup Numbers(w) \cup Current(u) = (1 .. t.counter) \ d
    BY DEF TrackerFits
  <1>3. Below(Numbers(q), Current(u))
    BY PlainRow DEF TrackerFits, Below, Current
  <1>4. Numbers(<<>>) = {} /\ Rising(<<>>)  BY NoRow
  <1>5. /\ u.current = Latency!NoMeasurement \/ u.current \in TrueRows
        /\ u.current.seq > 0 => u.current.seq = u.counter /\ u.current.riskLevel = u.last
    BY PlainRow DEF TrackerFits
  <1>6. CASE e = q \o w /\ f = d
    <2>1. e \in Seq(TrueRows) /\ Rising(e) /\ Numbers(e) = Numbers(q) \cup Numbers(w)
      BY <1>1, <1>6, RowsBehind
    <2>2. /\ Below(Numbers(e), Numbers(u.pending))
          /\ Below(Numbers(e) \cup Numbers(u.pending), Current(u))
          /\ Numbers(e) \cup Numbers(u.pending) \cup Current(u) = (1 .. u.counter) \ f
      BY <1>2, <1>3, <1>4, <1>6, <2>1 DEF Below
    <2> QED  BY <1>1, <1>4, <1>5, <1>6, <2>1, <2>2 DEF TrackerFits
  <1>7. CASE e = q /\ f = d \cup {w[i].seq : i \in DOMAIN w}
    <2>1. f = d \cup Numbers(w)  BY <1>7 DEF Numbers
    <2>2. Numbers(q) \cap Numbers(w) = {} /\ Current(u) \cap Numbers(w) = {}
      <3>1. /\ Numbers(q) \subseteq Nat /\ Numbers(w) \subseteq Nat
        BY <1>1, NumbersAreNat
      <3>2. \A x \in Nat : ~ (x < x)  OBVIOUS
      <3> QED  BY <3>1, <3>2 DEF Below
    <2>3. /\ Below(Numbers(e), Numbers(u.pending))
          /\ Below(Numbers(e) \cup Numbers(u.pending), Current(u))
      BY <1>3, <1>4, <1>7 DEF Below
    <2>4. /\ Numbers(e) \cup Numbers(u.pending) \cup Current(u) = (1 .. u.counter) \ f
          /\ f \subseteq 1 .. u.counter
      BY <1>1, <1>2, <1>4, <1>7, <2>1, <2>2
    <2> QED  BY <1>1, <1>4, <1>5, <1>7, <2>3, <2>4 DEF TrackerFits
  <1> QED  BY <1>6, <1>7

LEMMA Transmits ==
  ASSUME NEW t, NEW l \in Levels, NEW e \in Levels \cup {None}, NEW o \in BOOLEAN,
         TrackerFits(t, rows, dropped), FrameFits(t, frame),
         t.enabled /\ o => l = t.last,
         Latency!Transmit(t, l, e, o)
  PROVE  /\ TrackerFits(m', rows, dropped) /\ FrameFits(m', frame)
         /\ m'.enabled = t.enabled /\ m'.last = t.last /\ m'.counter = t.counter
         /\ m_lastTransmittedRiskLevel' \in Levels \cup {None}
  <1>1. CASE m' = t /\ m_lastTransmittedRiskLevel' = e  BY <1>1
  <1>2. ASSUME NEW status \in {"OK", "PORT_CLOSED"}, m' = Latency!onT3(t, status, l, o)
        PROVE  /\ TrackerFits(m', rows, dropped) /\ FrameFits(m', frame)
               /\ m'.enabled = t.enabled /\ m'.last = t.last /\ m'.counter = t.counter
    <2> DEFINE u == Latency!onT3(t, status, l, o)
    <2>1. status \in Told  BY DEF Told
    <2>2. /\ TrackerFits(u, rows, dropped)
          /\ u.enabled = t.enabled /\ u.last = t.last /\ u.counter = t.counter
          /\ u.t2Armed = t.t2Armed /\ u.current.seq \in {0, t.current.seq}
      BY <2>1, T3Told
    <2> HIDE DEF u
    <2>3. m' = u  BY <1>2 DEF u
    <2>4. FrameFits(u, frame)  BY <2>2 DEF FrameFits
    <2> QED  BY <2>2, <2>3, <2>4
  <1>3. m_lastTransmittedRiskLevel' \in {l, e}  BY DEF Latency!Transmit
  <1>4. \/ m' = t /\ m_lastTransmittedRiskLevel' = e
        \/ \E status \in {"OK", "PORT_CLOSED"} : m' = Latency!onT3(t, status, l, o)
    <2>1. l = e \/ l # e  OBVIOUS
    <2>2. CASE l = e
      BY <2>2, Zenon DEF Latency!Transmit
    <2>3. CASE l # e
      <3>1. \/ m' = Latency!onT3(t, "OK", l, o)
            \/ m' = Latency!onT3(t, "PORT_CLOSED", l, o)
        BY <2>3, Zenon DEF Latency!Transmit
      <3> QED  BY <3>1, Zenon
    <2> QED  BY <2>1, <2>2, <2>3
  <1> QED  BY <1>1, <1>2, <1>3, <1>4

LEMMA T3Suspended ==
  ASSUME NEW t, NEW q, NEW d, NEW o \in BOOLEAN, TrackerFits(t, q, d)
  PROVE  LET u == Latency!onT3(t, "TX_SUSPENDED", None, o) IN
         /\ TrackerFits(u, q, d)
         /\ u.enabled = t.enabled /\ u.last = t.last /\ u.counter = t.counter
         /\ u.t2Armed = t.t2Armed /\ u.current.seq \in {0, t.current.seq}
  <1> DEFINE status == "TX_SUSPENDED"
             l == None
             u == Latency!onT3(t, status, l, o)
  <1>1. status \in Told /\ l \in Levels \cup {None} /\ status # "OK"  BY DEF Told
  <1> HIDE DEF status, l
  <1>2. status = "OK" /\ t.enabled /\ o => l = t.last  BY <1>1, Zenon
  <1>3. /\ TrackerFits(u, q, d)
        /\ u.enabled = t.enabled /\ u.last = t.last /\ u.counter = t.counter
        /\ u.t2Armed = t.t2Armed /\ u.current.seq \in {0, t.current.seq}
    BY <1>1, <1>2, T3Told
  <1> QED  BY <1>3, Zenon DEF status, l

LEMMA Suspends ==
  ASSUME TrackerFits(m, rows, dropped), FrameFits(m, frame), own \in BOOLEAN,
         m' = Latency!onT3(m, "TX_SUSPENDED", None, own)
  PROVE  /\ TrackerFits(m', rows, dropped) /\ FrameFits(m', frame)
         /\ m'.enabled = m.enabled /\ m'.last = m.last /\ m'.counter = m.counter
  <1> DEFINE u == Latency!onT3(m, "TX_SUSPENDED", None, own)
  <1>1. /\ TrackerFits(u, rows, dropped)
        /\ u.enabled = m.enabled /\ u.last = m.last /\ u.counter = m.counter
        /\ u.t2Armed = m.t2Armed /\ u.current.seq \in {0, m.current.seq}
    BY T3Suspended
  <1>2. m' = u  OBVIOUS
  <1> HIDE DEF u
  <1>3. FrameFits(u, frame)  BY <1>1 DEF FrameFits
  <1> QED  BY <1>1, <1>2, <1>3

\* The level that is applied is the tracker's, where the history says so.
LEMMA Applies ==
  ASSUME NEW t, NEW l \in Levels, NEW o \in BOOLEAN,
         TrackerFits(t, rows, dropped), FrameFits(t, frame),
         t.counter <= MaxChanges, t.counter \in Nat,
         t.enabled /\ o => l = t.last,
         m_lastTransmittedRiskLevel \in Levels \cup {None}, frame \in Times,
         rows' = rows, dropped' = dropped, frame' = frame,
         Latency!Apply(t, l, o)
  PROVE  LatencyInv'
  <1>1. m_lastRiskLevel' = l /\ suspended' = FALSE /\ own' = o  BY DEF Latency!Apply
  <1>2. /\ TrackerFits(m', rows, dropped) /\ FrameFits(m', frame)
        /\ m'.enabled = t.enabled /\ m'.last = t.last /\ m'.counter = t.counter
        /\ m_lastTransmittedRiskLevel' \in Levels \cup {None}
    <2>1. CASE suspended
      <3>1. Latency!Transmit(t, l, m_lastTransmittedRiskLevel, o)
        BY <2>1 DEF Latency!Apply
      <3> QED  BY <3>1, Transmits
    <2>2. CASE ~ suspended
      <3>1. m' = t /\ m_lastTransmittedRiskLevel' = m_lastTransmittedRiskLevel
        BY <2>2 DEF Latency!Apply
      <3> QED  BY <3>1
    <2> QED  BY <2>1, <2>2
  <1> QED  BY <1>1, <1>2 DEF LatencyInv

LEMMA LatencyPayload ==
  ASSUME LatencyInv, NEW l \in Levels, NEW shown \in BOOLEAN,
         Latency!processPayload(l, shown)
  PROVE  LatencyInv'
  <1> DEFINE t == Latency!onT1RiskEventReceived(m, l)
  <1>1. /\ m.counter < MaxChanges /\ rows' = rows /\ dropped' = dropped /\ frame' = frame
    BY DEF Latency!processPayload
  <1>2. /\ TrackerFits(m, rows, dropped) /\ FrameFits(m, frame) /\ m.counter \in Nat
        /\ frame \in Times
        /\ m_lastTransmittedRiskLevel \in Levels \cup {None} /\ m_lastRiskLevel \in Levels
        /\ suspended \in BOOLEAN
    BY TrackerParts DEF LatencyInv, TrackerFits
  <1>3. /\ TrackerFits(t, rows, dropped)
        /\ t.enabled = m.enabled /\ (t.enabled => t.last = l)
        /\ t.counter \in {m.counter, m.counter + 1}
        /\ t = m \/ t.t2Armed = FALSE
    BY <1>2, T1Told
  <1>4. \/ shown /\ Latency!Apply(t, l, TRUE)
        \/ ~ shown /\ suspended /\ Latency!Apply(t, 0, l = 0)
        \/ /\ m' = t /\ own' = (l = m_lastRiskLevel) /\ m_lastRiskLevel' = m_lastRiskLevel
           /\ m_lastTransmittedRiskLevel' = m_lastTransmittedRiskLevel
           /\ suspended' = suspended
    BY DEF Latency!processPayload
  <1> HIDE DEF t
  <1>5. t.counter \in Nat /\ t.counter <= MaxChanges  BY <1>1, <1>2, <1>3
  <1>6. FrameFits(t, frame)  BY <1>2, <1>3 DEF FrameFits
  <1>7. CASE Latency!Apply(t, l, TRUE)
    BY <1>1, <1>2, <1>3, <1>5, <1>6, <1>7, Applies
  <1>8. CASE Latency!Apply(t, 0, l = 0)
    <2> DEFINE o == l = 0
    <2>1. o \in BOOLEAN /\ (o => l = 0)  BY Zenon
    <2>2. Latency!Apply(t, 0, o)  BY <1>8
    <2> HIDE DEF o
    <2>3. t.enabled /\ o => 0 = t.last  BY <1>3, <2>1
    <2> QED  BY <1>1, <1>2, <1>3, <1>5, <1>6, <2>1, <2>2, <2>3, Applies
  <1>9. CASE /\ m' = t /\ own' = (l = m_lastRiskLevel) /\ m_lastRiskLevel' = m_lastRiskLevel
             /\ m_lastTransmittedRiskLevel' = m_lastTransmittedRiskLevel
             /\ suspended' = suspended
    BY <1>1, <1>2, <1>3, <1>5, <1>6, <1>9 DEF LatencyInv
  <1> QED  BY <1>4, <1>7, <1>8, <1>9

LEMMA LatencySwapsCamera ==
  ASSUME LatencyInv, NEW l \in Levels, Latency!commitCameraSwap(l) PROVE LatencyInv'
  <1> DEFINE o == l = m.last
  <1>1. o \in BOOLEAN /\ (o => l = m.last)  BY Zenon
  <1>2. /\ Latency!Apply(m, l, o) /\ rows' = rows /\ dropped' = dropped /\ frame' = frame
    BY DEF Latency!commitCameraSwap
  <1> HIDE DEF o
  <1>3. /\ TrackerFits(m, rows, dropped) /\ FrameFits(m, frame) /\ m.counter \in Nat
        /\ frame \in Times /\ m.counter <= MaxChanges
        /\ m_lastTransmittedRiskLevel \in Levels \cup {None}
    BY TrackerParts DEF LatencyInv, TrackerFits
  <1> QED  BY <1>1, <1>2, <1>3, Applies

LEMMA LatencyWatchdog == LatencyInv /\ Latency!handleWatchdogTxTimer => LatencyInv'
  <1> SUFFICES ASSUME LatencyInv, Latency!handleWatchdogTxTimer PROVE LatencyInv'  OBVIOUS
  <1>1. /\ rows' = rows /\ dropped' = dropped /\ m_lastRiskLevel' = m_lastRiskLevel
        /\ suspended' = suspended /\ frame' = frame /\ own' = own
    BY DEF Latency!handleWatchdogTxTimer
  <1>2. /\ TrackerFits(m, rows, dropped) /\ FrameFits(m, frame)
        /\ m_lastTransmittedRiskLevel \in Levels \cup {None} /\ m_lastRiskLevel \in Levels
        /\ own \in BOOLEAN /\ (m.enabled /\ own => m_lastRiskLevel = m.last)
    BY DEF LatencyInv
  <1>3. /\ TrackerFits(m', rows, dropped) /\ FrameFits(m', frame)
        /\ m'.enabled = m.enabled /\ m'.last = m.last /\ m'.counter = m.counter
        /\ m_lastTransmittedRiskLevel' \in Levels \cup {None}
    <2>1. CASE suspended
      <3>1. /\ m' = Latency!onT3(m, "TX_SUSPENDED", None, own)
            /\ m_lastTransmittedRiskLevel' = m_lastTransmittedRiskLevel
        BY <2>1 DEF Latency!handleWatchdogTxTimer, None
      <3> QED  BY <1>2, <3>1, Suspends
    <2>2. CASE ~ suspended
      <3>1. Latency!Transmit(m, m_lastRiskLevel, m_lastTransmittedRiskLevel, own)
        BY <2>2 DEF Latency!handleWatchdogTxTimer
      <3> QED  BY <1>2, <3>1, Transmits
    <2> QED  BY <2>1, <2>2
  <1> QED  BY <1>1, <1>3 DEF LatencyInv

LEMMA LatencyLoses == LatencyInv /\ Latency!LinkLost => LatencyInv'
  <1> SUFFICES ASSUME LatencyInv, Latency!LinkLost PROVE LatencyInv'  OBVIOUS
  <1>1. /\ rows' = rows /\ dropped' = dropped /\ m_lastRiskLevel' = m_lastRiskLevel
        /\ suspended' = TRUE /\ frame' = frame /\ own' = own
        /\ m_lastTransmittedRiskLevel' = None
        /\ m' = Latency!onT3(m, "TX_SUSPENDED", None, own)
    BY DEF Latency!LinkLost, None
  <1>2. /\ TrackerFits(m', rows, dropped) /\ FrameFits(m', frame)
        /\ m'.enabled = m.enabled /\ m'.last = m.last /\ m'.counter = m.counter
    BY <1>1, Suspends DEF LatencyInv
  <1> QED  BY <1>1, <1>2 DEF LatencyInv

LEMMA LatencyRenders ==
  LatencyInv /\ (Latency!Synchronize \/ Latency!Swap) => LatencyInv'
  <1> SUFFICES ASSUME LatencyInv, Latency!Synchronize \/ Latency!Swap PROVE LatencyInv'
    OBVIOUS
  <1>1. /\ rows' = rows /\ dropped' = dropped /\ m_lastRiskLevel' = m_lastRiskLevel
        /\ suspended' = suspended /\ own' = own
        /\ m_lastTransmittedRiskLevel' = m_lastTransmittedRiskLevel
    BY DEF Latency!Synchronize, Latency!Swap
  <1>2. TrackerFits(m, rows, dropped) /\ FrameFits(m, frame) /\ frame \in Times
    BY DEF LatencyInv
  <1>3. m \in Trackers  BY <1>2 DEF TrackerFits
  <1>4. m.current.seq \in Nat /\ m.counter \in Nat /\ m.counter \in Times
    BY <1>3, TrackerParts DEF Times
  <1>5. CASE Latency!Synchronize
    <2> DEFINE u == Latency!onAfterSynchronizing(m)
    <2>1. frame = None /\ frame' = m.counter /\ m' = u
      BY <1>5 DEF Latency!Synchronize, None
    <2>2. ~ (m.t2Armed /\ m.current.seq # 0)
      BY <1>2, <1>4, <2>1, PlainRow DEF FrameFits
    <2>3. /\ TrackerFits(u, rows, dropped) /\ FrameFits(u, m.counter)
          /\ u.enabled = m.enabled /\ u.last = m.last /\ u.counter = m.counter
      BY <1>2, <2>2, SyncTold
    <2> HIDE DEF u
    <2> QED  BY <1>1, <1>4, <2>1, <2>3 DEF LatencyInv
  <1>6. CASE Latency!Swap
    <2> DEFINE u == Latency!onT2FrameSwapped(m)
    <2>1. frame' = None /\ m' = u  BY <1>6 DEF Latency!Swap, None
    <2>2. /\ TrackerFits(u, rows, dropped)
          /\ u.enabled = m.enabled /\ u.last = m.last /\ u.counter = m.counter
          /\ ~ (u.t2Armed /\ u.current.seq # 0)
      BY <1>2, T2Told
    <2> HIDE DEF u
    <2>3. FrameFits(u, frame') /\ frame' \in Times  BY <2>1, <2>2 DEF FrameFits, Times
    <2> QED  BY <1>1, <2>1, <2>2, <2>3 DEF LatencyInv
  <1> QED  BY <1>5, <1>6

LEMMA LatencyFlushesPending == LatencyInv /\ Latency!flushPendingRows => LatencyInv'
  <1> SUFFICES ASSUME LatencyInv, Latency!flushPendingRows PROVE LatencyInv'  OBVIOUS
  <1> DEFINE w == m.pending
             u == [m EXCEPT !.pending = <<>>]
  <1>1. /\ m' = u /\ Latency!Write(w) /\ m_lastRiskLevel' = m_lastRiskLevel
        /\ suspended' = suspended /\ own' = own /\ frame' = frame
        /\ m_lastTransmittedRiskLevel' = m_lastTransmittedRiskLevel
    BY DEF Latency!flushPendingRows
  <1>2. TrackerFits(m, rows, dropped) /\ m \in Trackers  BY DEF LatencyInv, TrackerFits
  <1>3. /\ u \in Trackers /\ u.pending = <<>> /\ u.current = m.current
        /\ u.counter = m.counter /\ u.last = m.last /\ u.enabled = m.enabled
        /\ u.t2Armed = m.t2Armed
    BY <1>2, NoRow DEF Trackers
  <1> HIDE DEF u
  <1>4. w \in Seq(TrueRows)  BY <1>2, TrackerParts
  <1>5. /\ Rising(w) /\ Below(Numbers(rows), Numbers(w)) /\ Below(Numbers(w), Current(m))
        /\ ~ m.enabled => m.current.seq = 0
    BY <1>2 DEF TrackerFits, Below
  <1>6. Current(u) = Current(m)  BY <1>3 DEF Current
  <1>7. \/ rows' = rows \o w /\ dropped' = dropped
        \/ rows' = rows /\ dropped' = dropped \cup {w[i].seq : i \in DOMAIN w}
    BY <1>1 DEF Latency!Write
  <1>8. Below(Numbers(w), Current(u))  BY <1>5, <1>6
  <1>9. Numbers(w) \cup Current(u) = Numbers(m.pending) \cup Current(m)  BY <1>6
  <1>10. ~ u.enabled => u.current.seq = 0  BY <1>3, <1>5
  <1> HIDE DEF w
  <1>11. TrackerFits(u, rows', dropped')
    BY <1>2, <1>3, <1>4, <1>5, <1>7, <1>8, <1>9, <1>10, RowsWritten
  <1>12. FrameFits(u, frame)  BY <1>3 DEF LatencyInv, FrameFits
  <1> QED  BY <1>1, <1>3, <1>11, <1>12 DEF LatencyInv

LEMMA LatencyFlushes == LatencyInv /\ Latency!flush => LatencyInv'
  <1> SUFFICES ASSUME LatencyInv, Latency!flush PROVE LatencyInv'  OBVIOUS
  <1> DEFINE w == m.pending \o Latency!Unfinished(m)
             u == [m EXCEPT !.pending = <<>>, !.current = Latency!NoMeasurement,
                            !.enabled = FALSE]
  <1>1. /\ m' = u /\ Latency!Write(w) /\ m_lastRiskLevel' = m_lastRiskLevel
        /\ suspended' = suspended /\ own' = own /\ frame' = frame
        /\ m_lastTransmittedRiskLevel' = m_lastTransmittedRiskLevel
    BY DEF Latency!flush
  <1>2. TrackerFits(m, rows, dropped) /\ m \in Trackers  BY DEF LatencyInv, TrackerFits
  <1>3. /\ u \in Trackers /\ u.pending = <<>> /\ u.current = Latency!NoMeasurement
        /\ u.counter = m.counter /\ u.last = m.last /\ u.enabled = FALSE
    BY <1>2, NoRow, PlainRow DEF Trackers
  <1> HIDE DEF u
  <1>4. m.pending \in Seq(TrueRows) /\ Rising(m.pending)
    BY <1>2, TrackerParts DEF TrackerFits
  <1>5. /\ w \in Seq(TrueRows) /\ Rising(w)
        /\ Numbers(w) = Numbers(m.pending) \cup Current(m)
    BY <1>2, UnfinishedBehind
  <1>6. Below(Numbers(rows), Numbers(w))
    BY <1>2, <1>5 DEF TrackerFits, Below
  <1>7. Current(u) = {}  BY <1>3, PlainRow DEF Current
  <1>8. \/ rows' = rows \o w /\ dropped' = dropped
        \/ rows' = rows /\ dropped' = dropped \cup {w[i].seq : i \in DOMAIN w}
    BY <1>1 DEF Latency!Write
  <1> HIDE DEF w
  <1>9. Below(Numbers(w), Current(u))  BY <1>7 DEF Below
  <1>10. Numbers(w) \cup Current(u) = Numbers(m.pending) \cup Current(m)  BY <1>5, <1>7
  <1>11. u.current.seq = 0  BY <1>3, PlainRow
  <1>12. TrackerFits(u, rows', dropped')
    BY <1>2, <1>3, <1>5, <1>6, <1>8, <1>9, <1>10, <1>11, RowsWritten
  <1>13. FrameFits(u, frame)  BY <1>11 DEF FrameFits
  <1> QED  BY <1>1, <1>3, <1>12, <1>13 DEF LatencyInv

LEMMA LatencyInductive == LatencyInv /\ [Latency!Next]_(Latency!vars) => LatencyInv'
  <1> SUFFICES ASSUME LatencyInv, [Latency!Next]_(Latency!vars) PROVE LatencyInv'  OBVIOUS
  <1>1. CASE Latency!Next
    <2>1. TRUE \in BOOLEAN /\ FALSE \in BOOLEAN  OBVIOUS
    <2> QED
      BY <1>1, <2>1, LatencyPayload, LatencySwapsCamera, LatencyWatchdog, LatencyLoses,
         LatencyRenders, LatencyFlushesPending, LatencyFlushes
      DEF Latency!Next
  <1>2. CASE UNCHANGED Latency!vars
    BY <1>2 DEF Latency!vars, LatencyInv
  <1> QED  BY <1>1, <1>2

LEMMA LatencyInitially == Latency!Init => LatencyInv
  <1> SUFFICES ASSUME Latency!Init PROVE LatencyInv  OBVIOUS
  <1>1. PICK e \in BOOLEAN :
          m = [enabled |-> e, last |-> None, counter |-> 0, current |-> Latency!NoMeasurement,
               awaitingSync |-> FALSE, t2Armed |-> FALSE, t3Armed |-> FALSE, pending |-> <<>>]
    BY DEF Latency!Init, None
  <1>2. /\ m \in Trackers /\ m.current = Latency!NoMeasurement /\ m.pending = <<>>
        /\ m.counter = 0 /\ m.t2Armed = FALSE
    BY <1>1, PlainRow, NoRow DEF Trackers
  <1>3. /\ rows = <<>> /\ dropped = {} /\ m_lastRiskLevel = 0
        /\ m_lastTransmittedRiskLevel = None /\ suspended = FALSE /\ frame = None
        /\ own = FALSE
    BY DEF Latency!Init, None
  <1>4. m.current.seq = 0 /\ Current(m) = {}  BY <1>2, PlainRow DEF Current
  <1>5. /\ rows \in Seq(TrueRows) /\ Rising(rows) /\ Rising(m.pending)
        /\ Numbers(rows) = {} /\ Numbers(m.pending) = {}
    BY <1>2, <1>3, NoRow
  <1>6. TrackerFits(m, rows, dropped)
    BY <1>2, <1>3, <1>4, <1>5 DEF TrackerFits, Below
  <1>7. FrameFits(m, frame)  BY <1>2 DEF FrameFits
  <1>8. frame \in Times  BY <1>3 DEF Times
  <1>9. m.counter <= MaxChanges  BY <1>2
  <1>10. ~ (m.enabled /\ own)  BY <1>3, Zenon
  <1>11. /\ suspended \in BOOLEAN /\ own \in BOOLEAN /\ m_lastRiskLevel \in Levels
         /\ m_lastTransmittedRiskLevel \in Levels \cup {None}
    BY <1>3
  <1> QED  BY <1>6, <1>7, <1>8, <1>9, <1>10, <1>11, Zenon DEF LatencyInv

LEMMA LatencySafe == LatencyInv => Latency!Safety
  <1> SUFFICES ASSUME LatencyInv PROVE Latency!Safety  OBVIOUS
  <1> DEFINE p == m.pending \o Latency!Unfinished(m)
             all == rows \o p
  <1>1. TrackerFits(m, rows, dropped) /\ m \in Trackers  BY DEF LatencyInv, TrackerFits
  <1>2. /\ rows \in Seq(TrueRows) /\ Rising(rows) /\ m.counter \in Nat
        /\ m.pending \in Seq(TrueRows) /\ m.last \in Levels \cup {None}
        /\ m.counter <= MaxChanges /\ dropped \subseteq 1 .. m.counter
    BY <1>1, TrackerParts DEF LatencyInv, TrackerFits
  <1>3. /\ p \in Seq(TrueRows) /\ Rising(p)
        /\ Numbers(p) = Numbers(m.pending) \cup Current(m)
    BY <1>1, UnfinishedBehind
  <1>4. Latency!Measured = all
    <2>1. Latency!Unfinished(m) \in Seq(TrueRows)
      BY <1>1, OneRow, NoRow, PlainRow DEF Latency!Unfinished, TrackerFits
    <2>2. (rows \o m.pending) \o Latency!Unfinished(m) = rows \o p
      <3> DEFINE a == m.pending
                 b == Latency!Unfinished(m)
      <3>1. a \in Seq(TrueRows) /\ b \in Seq(TrueRows)  BY <1>2, <2>1
      <3> HIDE DEF a, b
      <3>2. (rows \o a) \o b = rows \o (a \o b)  BY <1>2, <3>1, ConcatAssociative
      <3> QED  BY <3>2 DEF a, b
    <2> QED  BY <2>2 DEF Latency!Measured
  <1> HIDE DEF p
  <1>5. Below(Numbers(rows), Numbers(p))  BY <1>1, <1>3 DEF TrackerFits, Below
  <1>6. /\ all \in Seq(TrueRows) /\ Rising(all)
        /\ Numbers(all) = Numbers(rows) \cup Numbers(p)
    BY <1>2, <1>3, <1>5, RowsBehind
  <1> HIDE DEF all
  <1>7. Numbers(all) = (1 .. m.counter) \ dropped  BY <1>1, <1>3, <1>6 DEF TrackerFits
  <1>8. DOMAIN all = 1 .. Len(all) /\ \A i \in 1 .. Len(all) : all[i] \in TrueRows
    BY <1>6
  <1>9. \A i \in 1 .. Len(all) : all[i].seq \in 1 .. m.counter
    BY <1>7 DEF Numbers
  <1>10. Latency!TypeOK
    <2>1. m.counter \in 0 .. MaxChanges /\ 1 .. m.counter \subseteq 1 .. MaxChanges
      BY <1>2
    <2> QED
      BY <1>2, <1>4, <1>8, <1>9, <2>1 DEF Latency!TypeOK, LatencyInv, None
  <1>11. Latency!EachChangeOnce
    BY <1>4, <1>6, <1>7, <1>8 DEF Latency!EachChangeOnce, Rising, Numbers
  <1>12. Latency!T2IsOwnFrame
    BY <1>4, <1>8 DEF Latency!T2IsOwnFrame, TrueRows, None
  <1>13. Latency!T3IsOwnLevel
    BY <1>4, <1>8 DEF Latency!T3IsOwnLevel, TrueRows
  <1> QED  BY <1>10, <1>11, <1>12, <1>13 DEF Latency!Safety

HIDE LatencyAssumption DEF Latency!ConstantAssumption


\* On the terminal, a video source tries again, stays stopped and delivers, and each
\* change of the level has its row once, with the times of its own frame and level:
\* in every behaviour of the composition, for any waits, slots, levels and lengths.
THEOREM ScreenSafetyHolds == MCSpec => []ScreenSafety
  <1>1. MCInit => VideoInv /\ LatencyInv  BY VideoInitially, LatencyInitially DEF MCInit
  <1>2. [Web \/ Calibrates \/ Shows \/ Tells]_allVars => [Video!Next]_(Video!vars)
    BY DEF allVars, terminalVars, videoVars, Video!vars, Video!sessionVars,
           Video!retryVars, Video!slotVars, Web, Calibrates, Shows, Tells
  <1>3. [Web \/ Calibrates \/ Shows \/ Tells]_allVars => [Latency!Next]_(Latency!vars)
    BY DEF allVars, terminalVars, latencyVars, Latency!vars, Web, Calibrates, Shows, Tells
  <1>4. VideoInv /\ LatencyInv => ScreenSafety
    BY VideoSafe, LatencySafe DEF ScreenSafety
  <1> QED  BY <1>1, <1>2, <1>3, <1>4, VideoInductive, LatencyInductive, PTL DEF MCSpec

-----------------------------------------------------------------------------
\* The camera stream of the web server (CameraStream).

USE ReceiverAssumption DEF Receiver!ConstantAssumption

\* A worker that reads is the one whose ffmpeg is registered, or was ousted.
Registered ==
  \A w \in Receiver!Workers : pc[w] \in {"read", "blocked", "chunk"} /\ w \notin ousted => process = w

\* Who reads although it was told to stop was reading then.
LateInv ==
  \A w \in Receiver!Workers : Receiver!Reading(w) /\ stop_event[w] => w \in late

ReceiverInv == Receiver!Safety /\ Registered /\ LateInv

LEMMA ReceiverWorks ==
  ASSUME ReceiverInv, NEW w \in Receiver!Workers,
         \/ Receiver!Dies(w) \/ Receiver!Begins(w)
         \/ Receiver!Popen(w) \/ Receiver!Register(w) \/ Receiver!ReadsOn(w)
         \/ Receiver!ReadChunk(w) \/ Receiver!SetFrame(w) \/ Receiver!ChunkDone(w)
         \/ Receiver!EndOfFile(w) \/ Receiver!Kill(w) \/ Receiver!Finally(w)
         \/ Receiver!GetSnapshot(w) \/ Receiver!Answered(w) \/ Receiver!SetSnapshot(w)
  PROVE  ReceiverInv'
  <1> USE DEF ReceiverInv, Receiver!Safety, Receiver!TypeOK, Receiver!Goes, Receiver!fieldVars,
              Receiver!workerVars, Receiver!historyVars
  <1>0. w # 0 /\ w \in 0 .. MaxWorkers /\ 0 \in 0 .. MaxWorkers
    BY DEF Receiver!Workers
  <1>1. Receiver!TypeOK'
    <2>1. CASE Receiver!Popen(w)  BY <2>1 DEF Receiver!Popen
    <2>2. CASE Receiver!Register(w)
      <3>1. ousted' \subseteq Receiver!Workers
        <4>1. process # 0 => process \in Receiver!Workers
          BY DEF Receiver!Workers
        <4>2. ousted' = (ousted \cup ({process} \ {0, w})) \ {w} /\ ousted \subseteq Receiver!Workers
          BY <2>2 DEF Receiver!Register
        <4> QED  BY <4>1, <4>2
      <3> QED  BY <1>0, <2>2, <3>1 DEF Receiver!Register
    <2>3. CASE Receiver!ReadsOn(w)  BY <2>3 DEF Receiver!ReadsOn
    <2>4. CASE Receiver!ReadChunk(w)  BY <2>4 DEF Receiver!ReadChunk
    <2>5. CASE Receiver!SetFrame(w)
      <3>1. frames' \in [ReceiverStreams -> 0 .. MaxWorkers]
        BY <1>0, <2>5 DEF Receiver!SetFrame, Receiver!Stored
      <3> QED  BY <2>5, <3>1 DEF Receiver!SetFrame
    <2>6. CASE Receiver!ChunkDone(w)  BY <2>6 DEF Receiver!ChunkDone
    <2>7. CASE Receiver!EndOfFile(w)  BY <2>7 DEF Receiver!EndOfFile
    <2>8. CASE Receiver!Kill(w)  BY <2>8 DEF Receiver!Kill
    <2>9. CASE Receiver!Finally(w)
      BY <1>0, <2>9 DEF Receiver!Finally, Receiver!Deregistered
    <2>10. CASE Receiver!Dies(w)  BY <2>10 DEF Receiver!Dies
    <2>11. CASE Receiver!Begins(w)  BY <2>11 DEF Receiver!Begins
    <2>12. CASE Receiver!GetSnapshot(w)  BY <2>12 DEF Receiver!GetSnapshot
    <2>13. CASE Receiver!Answered(w)  BY <2>13 DEF Receiver!Answered
    <2>14. CASE Receiver!SetSnapshot(w)
      <3>1. frames' \in [ReceiverStreams -> 0 .. MaxWorkers]
        BY <1>0, <2>14 DEF Receiver!SetSnapshot, Receiver!Stored
      <3> QED  BY <2>14, <3>1 DEF Receiver!SetSnapshot
    <2> QED  BY <2>1, <2>2, <2>3, <2>4, <2>5, <2>6, <2>7, <2>8, <2>9, <2>10, <2>11, <2>12, <2>13, <2>14
  <1>2. Receiver!OneReceiver'
    BY DEF Receiver!OneReceiver, Receiver!Popen, Receiver!Register, Receiver!ReadsOn,
           Receiver!ReadChunk, Receiver!SetFrame, Receiver!ChunkDone, Receiver!EndOfFile,
           Receiver!Kill, Receiver!Finally, Receiver!Dies, Receiver!Begins,
           Receiver!GetSnapshot, Receiver!Answered, Receiver!SetSnapshot
  <1>3. Receiver!StoppedIsFreed'
    BY DEF Receiver!StoppedIsFreed, Receiver!Popen, Receiver!Register, Receiver!ReadsOn,
           Receiver!ReadChunk, Receiver!SetFrame, Receiver!ChunkDone, Receiver!EndOfFile,
           Receiver!Kill, Receiver!Finally, Receiver!Dies, Receiver!Begins,
           Receiver!GetSnapshot, Receiver!Answered, Receiver!SetSnapshot
  <1>4. LateInv'
    BY DEF LateInv, Receiver!Reading, Receiver!Popen, Receiver!Register, Receiver!ReadsOn,
           Receiver!ReadChunk, Receiver!SetFrame, Receiver!ChunkDone, Receiver!EndOfFile,
           Receiver!Kill, Receiver!Finally, Receiver!Dies, Receiver!Begins,
           Receiver!GetSnapshot, Receiver!Answered, Receiver!SetSnapshot
  <1>5. Receiver!FrameIsFresh'
    <2>1. UNCHANGED <<active_stream_id, worker, stream, late>>
      BY DEF Receiver!Popen, Receiver!Register, Receiver!ReadsOn, Receiver!ReadChunk,
             Receiver!SetFrame, Receiver!ChunkDone, Receiver!EndOfFile, Receiver!Kill,
             Receiver!Finally, Receiver!Dies, Receiver!Begins, Receiver!GetSnapshot,
             Receiver!Answered, Receiver!SetSnapshot
    <2>2. CASE Receiver!SetFrame(w) \/ Receiver!SetSnapshot(w)
      <3>1. frames' = Receiver!Stored(w) /\ Receiver!Reading(w)
        BY <2>2 DEF Receiver!SetFrame, Receiver!SetSnapshot, Receiver!Reading
      <3>2. w = worker \/ w \in late
        BY <3>1 DEF LateInv, Receiver!OneReceiver, Receiver!Reading
      <3>3. CASE active_stream_id = stream[w] /\ active_stream_id # "none"
        <4>1. frames'[active_stream_id] = w
          BY <3>1, <3>3 DEF Receiver!Stored
        <4> QED  BY <2>1, <3>2, <3>3, <4>1 DEF Receiver!FrameIsFresh
      <3>4. CASE active_stream_id # stream[w] \/ active_stream_id = "none"
        <4>1. active_stream_id # "none" => frames' = frames
          BY <3>1, <3>4 DEF Receiver!Stored
        <4> QED  BY <2>1, <4>1 DEF Receiver!FrameIsFresh
      <3> QED  BY <3>3, <3>4
    <2>3. CASE ~ (Receiver!SetFrame(w) \/ Receiver!SetSnapshot(w))
      <3>1. frames' = frames
        BY <2>3 DEF Receiver!Popen, Receiver!Register, Receiver!ReadsOn, Receiver!ReadChunk,
               Receiver!ChunkDone, Receiver!EndOfFile, Receiver!Kill, Receiver!Finally,
               Receiver!Dies, Receiver!Begins, Receiver!GetSnapshot, Receiver!Answered
      <3> QED  BY <2>1, <3>1 DEF Receiver!FrameIsFresh
    <2> QED  BY <2>2, <2>3
  <1>6. Registered'
    <2>1. CASE Receiver!Register(w)
      BY <1>0, <2>1 DEF Registered, Receiver!Register, Receiver!Workers
    <2>2. CASE Receiver!Finally(w)
      BY <1>0, <2>2 DEF Registered, Receiver!Finally, Receiver!Deregistered
    <2>3. CASE ~ (Receiver!Register(w) \/ Receiver!Finally(w))
      BY <2>3 DEF Registered, Receiver!Popen, Receiver!ReadsOn, Receiver!ReadChunk,
             Receiver!SetFrame, Receiver!ChunkDone, Receiver!EndOfFile, Receiver!Kill,
             Receiver!Dies, Receiver!Begins, Receiver!GetSnapshot, Receiver!Answered,
             Receiver!SetSnapshot
    <2> QED  BY <2>1, <2>2, <2>3
  <1> QED  BY <1>1, <1>2, <1>3, <1>4, <1>5, <1>6

\* A stop reaches the worker at hand, whose ffmpeg is registered unless it was ousted.
LEMMA ReceiverStops ==
  ASSUME ReceiverInv, stop_event' = Receiver!StoppedNow, ffmpeg' = Receiver!KilledNow
  PROVE  \A w \in Receiver!Workers :
           /\ stop_event'[w] <=> (stop_event[w] \/ w = worker)
           /\ stop_event'[w] \in BOOLEAN
           /\ ffmpeg'[w] \in {"runs", "killed", "ended"}
           /\ stop_event'[w] /\ pc[w] = "blocked" /\ w \notin ousted => ffmpeg'[w] # "runs"
  <1> SUFFICES ASSUME NEW w \in Receiver!Workers
               PROVE  /\ stop_event'[w] <=> (stop_event[w] \/ w = worker)
                      /\ stop_event'[w] \in BOOLEAN
                      /\ ffmpeg'[w] \in {"runs", "killed", "ended"}
                      /\ stop_event'[w] /\ pc[w] = "blocked" /\ w \notin ousted =>
                           ffmpeg'[w] # "runs"
    OBVIOUS
  <1>1. stop_event[w] \in BOOLEAN /\ ffmpeg[w] \in {"runs", "killed", "ended"}
    BY DEF ReceiverInv, Receiver!Safety, Receiver!TypeOK
  <1>2. /\ stop_event'[w] <=> (stop_event[w] \/ w = worker)
        /\ stop_event'[w] \in BOOLEAN
    BY <1>1, Zenon DEF Receiver!StoppedNow
  <1>3. ffmpeg'[w] = IF w = process /\ ffmpeg[w] = "runs" THEN "killed" ELSE ffmpeg[w]
    BY DEF Receiver!KilledNow
  <1>4. /\ stop_event[w] /\ pc[w] = "blocked" /\ w \notin ousted => ffmpeg[w] # "runs"
        /\ pc[w] = "blocked" /\ ~ stop_event[w] => w = worker
        /\ pc[w] = "blocked" /\ w \notin ousted => process = w
    BY DEF ReceiverInv, Receiver!Safety, Receiver!StoppedIsFreed, Receiver!OneReceiver,
           Registered
  <1>5. ASSUME stop_event'[w], pc[w] = "blocked", w \notin ousted PROVE ffmpeg'[w] # "runs"
    BY <1>1, <1>3, <1>4, <1>5
  <1> QED  BY <1>1, <1>2, <1>3, <1>5

LEMMA ReceiverSwitches ==
  ASSUME ReceiverInv, NEW s \in ReceiverStreams, Receiver!EnsureWorker(s)
  PROVE  ReceiverInv'
  <1> DEFINE n == worker + 1
  <1>1. /\ n \in Receiver!Workers /\ n \in 0 .. MaxWorkers /\ n # worker
    BY DEF ReceiverInv, Receiver!Safety, Receiver!TypeOK, Receiver!EnsureWorker,
           Receiver!StartWorker, Receiver!Workers
  <1>2. /\ active_stream_id' = s /\ worker' = n /\ frames' = [frames EXCEPT ![s] = 0]
        /\ stop_event' = Receiver!StoppedNow /\ ffmpeg' = Receiver!KilledNow
        /\ pc' = [pc EXCEPT ![n] = "new"] /\ stream' = [stream EXCEPT ![n] = s]
        /\ process' = process /\ ousted' = ousted /\ late' = Receiver!LateNow
    BY DEF Receiver!EnsureWorker, Receiver!StartWorker
  <1> HIDE DEF n
  <1>3. \A w \in Receiver!Workers :
           /\ stop_event'[w] <=> (stop_event[w] \/ w = worker)
           /\ stop_event'[w] \in BOOLEAN
           /\ ffmpeg'[w] \in {"runs", "killed", "ended"}
           /\ stop_event'[w] /\ pc[w] = "blocked" /\ w \notin ousted => ffmpeg'[w] # "runs"
    BY <1>2, ReceiverStops
  <1>4. /\ Receiver!TypeOK /\ s # "none" /\ 0 \in 0 .. MaxWorkers
    BY DEF ReceiverInv, Receiver!Safety
  <1>5. /\ stop_event' \in [Receiver!Workers -> BOOLEAN]
        /\ ffmpeg' \in [Receiver!Workers -> {"runs", "killed", "ended"}]
    BY <1>2, <1>3 DEF Receiver!StoppedNow, Receiver!KilledNow
  <1>6. Receiver!TypeOK'
    BY <1>1, <1>2, <1>4, <1>5 DEF Receiver!TypeOK, Receiver!LateNow
  <1>7. Receiver!OneReceiver'
    BY <1>1, <1>2, <1>3, <1>4
    DEF ReceiverInv, Receiver!Safety, Receiver!OneReceiver, Receiver!TypeOK
  <1>8. Receiver!StoppedIsFreed'
    BY <1>1, <1>2, <1>3, <1>4 DEF Receiver!StoppedIsFreed, Receiver!TypeOK
  <1>9. Receiver!FrameIsFresh'  BY <1>2, <1>4 DEF Receiver!FrameIsFresh, Receiver!TypeOK
  <1>10. Registered'
    BY <1>1, <1>2, <1>4 DEF ReceiverInv, Registered, Receiver!TypeOK
  <1>11. LateInv'
    BY <1>1, <1>2, <1>3, <1>4
    DEF ReceiverInv, LateInv, Receiver!TypeOK, Receiver!Reading, Receiver!LateNow
  <1> QED  BY <1>6, <1>7, <1>8, <1>9, <1>10, <1>11 DEF ReceiverInv, Receiver!Safety

LEMMA ReceiverStop == ReceiverInv /\ Receiver!Stop => ReceiverInv'
  <1> SUFFICES ASSUME ReceiverInv, Receiver!Stop PROVE ReceiverInv'  OBVIOUS
  <1>1. /\ stop_event' = Receiver!StoppedNow /\ ffmpeg' = Receiver!KilledNow
        /\ active_stream_id' = "none" /\ frames' = [s \in ReceiverStreams |-> 0]
        /\ worker' = worker /\ process' = process /\ pc' = pc /\ stream' = stream
        /\ ousted' = ousted /\ late' = Receiver!LateNow
    BY DEF Receiver!Stop
  <1>2. \A w \in Receiver!Workers :
           /\ stop_event'[w] <=> (stop_event[w] \/ w = worker)
           /\ stop_event'[w] \in BOOLEAN
           /\ ffmpeg'[w] \in {"runs", "killed", "ended"}
           /\ stop_event'[w] /\ pc[w] = "blocked" /\ w \notin ousted => ffmpeg'[w] # "runs"
    BY <1>1, ReceiverStops
  <1>3. /\ stop_event' \in [Receiver!Workers -> BOOLEAN]
        /\ ffmpeg' \in [Receiver!Workers -> {"runs", "killed", "ended"}]
    BY <1>1, <1>2 DEF Receiver!StoppedNow, Receiver!KilledNow
  <1>4. 0 \in 0 .. MaxWorkers  OBVIOUS
  <1>5. Receiver!TypeOK'
    BY <1>1, <1>3, <1>4 DEF ReceiverInv, Receiver!Safety, Receiver!TypeOK, Receiver!LateNow
  <1>6. Receiver!OneReceiver'
    BY <1>1, <1>2 DEF ReceiverInv, Receiver!Safety, Receiver!OneReceiver
  <1>7. Receiver!StoppedIsFreed'  BY <1>1, <1>2 DEF Receiver!StoppedIsFreed
  <1>8. Receiver!FrameIsFresh'  BY <1>1 DEF Receiver!FrameIsFresh
  <1>9. Registered'  BY <1>1 DEF ReceiverInv, Registered
  <1>10. LateInv'
    BY <1>1, <1>2 DEF ReceiverInv, LateInv, Receiver!Reading, Receiver!LateNow
  <1> QED  BY <1>5, <1>6, <1>7, <1>8, <1>9, <1>10 DEF ReceiverInv, Receiver!Safety

LEMMA ReceiverInductive == ReceiverInv /\ [Receiver!Next]_(Receiver!vars) => ReceiverInv'
  <1> SUFFICES ASSUME ReceiverInv, [Receiver!Next]_(Receiver!vars) PROVE ReceiverInv'
    OBVIOUS
  <1>1. CASE Receiver!Next
    BY <1>1, ReceiverWorks, ReceiverSwitches, ReceiverStop DEF Receiver!Next
  <1>2. CASE UNCHANGED Receiver!vars
    <2>1. /\ active_stream_id' = active_stream_id /\ worker' = worker /\ process' = process
          /\ frames' = frames /\ pc' = pc /\ stream' = stream /\ stop_event' = stop_event
          /\ ffmpeg' = ffmpeg /\ ousted' = ousted /\ late' = late
      BY <1>2 DEF Receiver!vars, Receiver!fieldVars, Receiver!workerVars, Receiver!historyVars
    <2> QED
      BY <2>1 DEF ReceiverInv, Receiver!Safety, Receiver!TypeOK, Receiver!OneReceiver,
                  Receiver!StoppedIsFreed, Receiver!FrameIsFresh, Registered,
                  LateInv, Receiver!Reading
  <1> QED  BY <1>1, <1>2

LEMMA ReceiverInitially == Receiver!Init => ReceiverInv
  <1> SUFFICES ASSUME Receiver!Init PROVE ReceiverInv  OBVIOUS
  <1>1. \A w \in Receiver!Workers : pc[w] = "none" /\ stop_event[w] = FALSE
    BY DEF Receiver!Init
  <1>2. Receiver!TypeOK  BY DEF Receiver!Init, Receiver!TypeOK
  <1> QED
    BY <1>1, <1>2 DEF Receiver!Init, ReceiverInv, Receiver!Safety, Receiver!OneReceiver,
                      Receiver!StoppedIsFreed, Receiver!FrameIsFresh, Registered, LateInv

HIDE ReceiverAssumption DEF Receiver!ConstantAssumption

-----------------------------------------------------------------------------
\* The jobs of the web server (HomographyJobs).

Layouts == Solvers \cup {0}

\* A capture whose result was computed with a layout, the one at hand if it is settled.
SoundJobs ==
  {j \in [there : BOOLEAN, stream : JobStreams \cup {0}, layout : Layouts,
          kind : {"none", "raw", "complete"}, of : Layouts, settled : BOOLEAN] :
     /\ j.kind # "none" => j.of # 0
     /\ j.settled => j.layout = j.of
     /\ j.stream = 0 => ~ j.there}

\* A homography of stream s, aligned by the corners of its own layout if it is settled.
OwnMaps(s) ==
  {h \in [run : 0 .. MaxRuns, stream : JobStreams \cup {0}, of : Layouts,
          corners : Layouts, settled : BOOLEAN] :
     /\ h.run # 0 => h.stream = s /\ h.of # 0
     /\ h.settled => h.corners = h.of}

SolverStates ==
  [pc : {"idle", "tool", "read", "write"}, capture : 0 .. MaxCaptures, value : Layouts,
   alone : BOOLEAN]

RunStates ==
  [pc : {"none", "saving", "saved", "failed"}, streams : SUBSET JobStreams,
   todo : SUBSET JobStreams, values : [JobStreams -> UNION {OwnMaps(s) : s \in JobStreams}]]

JobTypes ==
  /\ job \in [Jobs!Captures -> SoundJobs] /\ solver \in [Solvers -> SolverStates]
  /\ run \in [Jobs!Runs -> RunStates]
  /\ \A r \in Jobs!Runs : \A s \in JobStreams : run[r].values[s] \in OwnMaps(s)
  /\ operational \in [JobStreams -> UNION {OwnMaps(s) : s \in JobStreams}]
  /\ \A s \in JobStreams : operational[s] \in OwnMaps(s)
  /\ last \in 0 .. MaxRuns /\ broken \in BOOLEAN

\* Captures and alignments get their numbers in order.
InOrderInv ==
  /\ \A c, d \in Jobs!Captures : c < d /\ job[d].stream # 0 => job[c].stream # 0
  /\ \A p, q \in Jobs!Runs : p < q /\ run[q].pc # "none" => run[p].pc # "none"

\* A thread that solves, in state t, where j is its capture and others say who else
\* is at it.
SolverFits(v, t, j) ==
  /\ j.stream # 0
  /\ j.there => j.layout # 0 /\ (t.pc = "read" => j.kind # "none")
  /\ t.pc = "write" => t.value # 0
  /\ t.alone /\ j.there =>
       /\ j.layout = v
       /\ t.pc = "read" => j.of = v
       /\ t.pc = "write" => t.value = v

SolvesInv ==
  \A v \in Solvers : solver[v].pc # "idle" =>
    /\ solver[v].capture \in Jobs!Captures
    /\ SolverFits(v, solver[v], job[solver[v].capture])
    /\ solver[v].alone =>
         \A w \in Solvers :
           solver[w].pc # "idle" /\ solver[w].capture = solver[v].capture => w = v

SavesInv ==
  /\ \A r \in Jobs!Saving :
       /\ run[r].todo # {} /\ run[r].todo \subseteq run[r].streams
       /\ \A s \in run[r].todo : run[r].values[s].run = r
  /\ ~ broken =>
       /\ \A p, q \in Jobs!Saving : p = q
       /\ \A r \in Jobs!Saving :
            \A s \in run[r].streams \ run[r].todo : operational[s].run = r
  /\ last # 0 => run[last].pc = "saved"

JobsInv == JobTypes /\ InOrderInv /\ SolvesInv /\ SavesInv /\ Jobs!AlignmentIsWhole


USE JobAssumption DEF Jobs!ConstantAssumption

\* A set of numbers given in order: the next number is one more than their count.
LEMMA NextInOrder ==
  ASSUME NEW M \in Nat, NEW K \in SUBSET (1 .. M), NEW r \in 1 .. M,
         \A i, j \in 1 .. M : i < j /\ j \in K => i \in K,
         r = Cardinality(K) + 1
  PROVE  r \notin K /\ \A i \in 1 .. M : i < r => i \in K
  <1>1. ASSUME NEW a \in 0 .. M PROVE IsFiniteSet(1 .. a) /\ Cardinality(1 .. a) = a
    <2>1. a \in Int /\ 1 \in Int  OBVIOUS
    <2>2. IsFiniteSet(1 .. a) /\ Cardinality(1 .. a) = IF 1 > a THEN 0 ELSE a - 1 + 1
      BY <2>1, FS_Interval
    <2> QED  BY <2>2
  <1>2. IsFiniteSet(K) /\ Cardinality(K) \in Nat
    <2>1. IsFiniteSet(1 .. M)  BY <1>1
    <2> QED  BY <2>1, FS_Subset, FS_CardinalityType
  <1>3. r \notin K
    <2> SUFFICES ASSUME r \in K PROVE FALSE  OBVIOUS
    <2>1. 1 .. r \in SUBSET K /\ r \in 0 .. M  OBVIOUS
    <2>2. Cardinality(1 .. r) <= Cardinality(K)  BY <1>2, <2>1, FS_Subset
    <2> QED  BY <1>1, <1>2, <2>1, <2>2
  <1>4. ASSUME NEW i \in 1 .. M, i < r, i \notin K PROVE FALSE
    <2>1. K \in SUBSET (1 .. i - 1) /\ i - 1 \in 0 .. M
      <3>1. ASSUME NEW k \in K PROVE k \in 1 .. i - 1
        <4>1. k \in 1 .. M /\ k # i /\ ~ (i < k)  BY <1>4
        <4> QED  BY <4>1
      <3> QED  BY <3>1
    <2>2. Cardinality(K) <= i - 1
      <3> DEFINE b == i - 1
                 U == 1 .. b
      <3>1. b \in 0 .. M /\ K \in SUBSET U  BY <2>1
      <3>2. IsFiniteSet(U) /\ Cardinality(U) = b
        <4> HIDE DEF b
        <4> QED  BY <1>1, <3>1
      <3>3. Cardinality(K) <= Cardinality(U)
        <4> HIDE DEF U
        <4> QED  BY <3>1, <3>2, FS_Subset
      <3> QED  BY <3>2, <3>3
    <2> QED  BY <1>2, <1>4, <2>2
  <1> QED  BY <1>3, <1>4

LEMMA JobCardinality == \A S : Jobs!Cardinality(S) = Cardinality(S)
  BY Zenon DEF Jobs!Cardinality, Cardinality

LEMMA LowestStream ==
  ASSUME NEW S \in SUBSET JobStreams, S # {}
  PROVE  Jobs!Min(S) \in S
  <1>1. S \subseteq Nat  OBVIOUS
  <1>2. PICK x \in S : TRUE  OBVIOUS
  <1> DEFINE T == {y \in S : y <= x}
  <1>3. x \in Nat /\ T \subseteq 0 .. x /\ T # {}
    <2>1. x \in Nat /\ x <= x  BY <1>1, <1>2
    <2>2. x \in T  BY <1>2, <2>1
    <2>3. ASSUME NEW y \in T PROVE y \in 0 .. x
      <3>1. y \in Nat /\ y <= x  BY <1>1
      <3> QED  BY <2>1, <3>1
    <2> QED  BY <2>1, <2>2, <2>3
  <1>4. PICK e \in T : \A n \in T : e <= n  BY <1>3, Extremes
  <1>5. e \in S /\ \A y \in S : e =< y
    <2>1. ASSUME NEW y \in S PROVE e =< y
      <3>1. CASE y <= x  BY <1>4, <3>1
      <3>2. CASE ~ (y <= x)  BY <1>1, <1>3, <1>4, <3>2
      <3> QED  BY <3>1, <3>2
    <2> QED  BY <1>4, <2>1
  <1> QED  BY <1>5, Zenon DEF Jobs!Min

LEMMA PlainJobs ==
  /\ Jobs!NoJob \in SoundJobs /\ Jobs!NoJob.stream = 0 /\ Jobs!NoJob.there = FALSE
  /\ Jobs!Idle \in SolverStates /\ Jobs!Idle.pc = "idle"
  /\ \A s \in JobStreams : Jobs!NoH \in OwnMaps(s)
  /\ Jobs!NoH.run = 0
  /\ Jobs!NoRun \in RunStates /\ Jobs!NoRun.pc = "none"
  /\ Jobs!NoValues \in [JobStreams -> UNION {OwnMaps(s) : s \in JobStreams}]
  /\ \A s \in JobStreams : Jobs!NoValues[s] = Jobs!NoH
  /\ Jobs!NoRun.values = Jobs!NoValues
  <1>1. Jobs!NoJob \in SoundJobs /\ Jobs!NoJob.stream = 0 /\ Jobs!NoJob.there = FALSE
    BY DEF Jobs!NoJob, SoundJobs, Layouts
  <1>2. Jobs!Idle \in SolverStates /\ Jobs!Idle.pc = "idle"
    <2>1. 0 \in 0 .. MaxCaptures  OBVIOUS
    <2> QED  BY <2>1 DEF Jobs!Idle, SolverStates, Layouts
  <1>3. \A s \in JobStreams : Jobs!NoH \in OwnMaps(s)
    <2>1. 0 \in 0 .. MaxRuns  OBVIOUS
    <2> QED  BY <2>1 DEF Jobs!NoH, OwnMaps, Layouts
  <1>4. Jobs!NoH.run = 0  BY DEF Jobs!NoH
  <1>5. /\ Jobs!NoValues \in [JobStreams -> UNION {OwnMaps(s) : s \in JobStreams}]
        /\ \A s \in JobStreams : Jobs!NoValues[s] = Jobs!NoH
    BY <1>3 DEF Jobs!NoValues
  <1>6. /\ Jobs!NoRun \in RunStates /\ Jobs!NoRun.pc = "none"
        /\ Jobs!NoRun.values = Jobs!NoValues
    BY <1>5 DEF Jobs!NoRun, RunStates
  <1> QED  BY <1>1, <1>2, <1>3, <1>4, <1>5, <1>6

\* What the steps of the captures leave alone.
NoAlignment ==
  run' = run /\ operational' = operational /\ last' = last /\ broken' = broken

LEMMA AlignmentsStay ==
  ASSUME JobsInv, NoAlignment
  PROVE  /\ SavesInv' /\ Jobs!AlignmentIsWhole'
         /\ \A p, q \in Jobs!Runs : p < q /\ run'[q].pc # "none" => run'[p].pc # "none"
         /\ run' \in [Jobs!Runs -> RunStates]
         /\ \A r \in Jobs!Runs : \A s \in JobStreams : run'[r].values[s] \in OwnMaps(s)
         /\ operational' \in [JobStreams -> UNION {OwnMaps(s) : s \in JobStreams}]
         /\ \A s \in JobStreams : operational'[s] \in OwnMaps(s)
         /\ last' \in 0 .. MaxRuns /\ broken' \in BOOLEAN
  BY DEF NoAlignment, JobsInv, SavesInv, Jobs!AlignmentIsWhole, Jobs!Saving, InOrderInv,
         JobTypes

LEMMA JobDetect ==
  ASSUME JobsInv, NEW c \in Jobs!Captures, NEW s \in JobStreams,
         NEW old \in SUBSET Jobs!Captures, Jobs!Detect(c, s, old)
  PROVE  JobsInv'
  <1> DEFINE K == {d \in Jobs!Captures : job[d].stream # 0}
             new == [Jobs!NoJob EXCEPT !.there = TRUE, !.stream = s]
             gone(d) == [Jobs!NoJob EXCEPT !.stream = job[d].stream]
  <1>1. /\ NoAlignment /\ solver' = solver
        /\ c = Cardinality(K) + 1
        /\ job' = [d \in Jobs!Captures |->
                     IF d = c THEN new ELSE IF d \in old THEN gone(d) ELSE job[d]]
    BY JobCardinality DEF Jobs!Detect, NoAlignment
  <1>2. JobTypes /\ InOrderInv /\ SolvesInv  BY DEF JobsInv
  <1>3. c \notin K /\ \A d \in Jobs!Captures : d < c => d \in K
    <2>1. /\ K \in SUBSET (1 .. MaxCaptures) /\ c \in 1 .. MaxCaptures
          /\ \A i, j \in 1 .. MaxCaptures : i < j /\ j \in K => i \in K
      BY <1>2 DEF Jobs!Captures, InOrderInv
    <2> HIDE DEF K
    <2> QED  BY <1>1, <2>1, NextInOrder DEF Jobs!Captures
  <1>4. new \in SoundJobs /\ new.stream = s /\ s # 0
    BY PlainJobs DEF SoundJobs, Jobs!NoJob
  <1>5. \A d \in Jobs!Captures :
          gone(d) \in SoundJobs /\ gone(d).stream = job[d].stream /\ gone(d).there = FALSE
    <2> SUFFICES ASSUME NEW d \in Jobs!Captures
                 PROVE  /\ gone(d) \in SoundJobs /\ gone(d).stream = job[d].stream
                        /\ gone(d).there = FALSE
      OBVIOUS
    <2>1. job[d].stream \in JobStreams \cup {0}  BY <1>2 DEF JobTypes, SoundJobs
    <2> QED  BY <2>1, PlainJobs DEF SoundJobs, Jobs!NoJob
  <1> HIDE DEF new, gone
  <1>6. /\ job' \in [Jobs!Captures -> SoundJobs] /\ job'[c].stream # 0
        /\ \A d \in Jobs!Captures : d # c =>
             /\ job'[d].stream = job[d].stream
             /\ job'[d] = job[d] \/ job'[d].there = FALSE
    BY <1>1, <1>2, <1>4, <1>5 DEF JobTypes
  <1>7. JobTypes'  BY <1>1, <1>2, <1>6, AlignmentsStay DEF JobTypes
  <1>8. InOrderInv'
    <2>1. ASSUME NEW a \in Jobs!Captures, NEW d \in Jobs!Captures, a < d, job'[d].stream # 0
          PROVE  job'[a].stream # 0
      <3>1. a \in Nat /\ d \in Nat  BY DEF Jobs!Captures
      <3>2. CASE d = c  BY <1>3, <1>6, <2>1, <3>2
      <3>3. CASE d # c
        <4>1. job[a].stream # 0  BY <1>2, <1>6, <2>1, <3>3 DEF InOrderInv
        <4> QED  BY <1>6, <4>1
      <3> QED  BY <3>2, <3>3
    <2> QED  BY <1>1, <2>1, AlignmentsStay DEF InOrderInv
  <1>9. SolvesInv'
    <2> SUFFICES ASSUME NEW v \in Solvers, solver[v].pc # "idle"
                 PROVE  /\ solver[v].capture \in Jobs!Captures
                        /\ SolverFits(v, solver[v], job'[solver[v].capture])
                        /\ solver[v].alone =>
                             \A w \in Solvers :
                               solver[w].pc # "idle" /\ solver[w].capture = solver[v].capture
                               => w = v
      BY <1>1 DEF SolvesInv
    <2> DEFINE b == solver[v].capture
    <2>1. /\ b \in Jobs!Captures /\ SolverFits(v, solver[v], job[b])
          /\ solver[v].alone =>
               \A w \in Solvers : solver[w].pc # "idle" /\ solver[w].capture = b => w = v
      BY <1>2 DEF SolvesInv
    <2>2. b # c  BY <1>3, <2>1 DEF SolverFits
    <2>3. SolverFits(v, solver[v], job'[b])  BY <1>6, <2>1, <2>2 DEF SolverFits
    <2> QED  BY <2>1, <2>3
  <1> QED  BY <1>1, <1>7, <1>8, <1>9, AlignmentsStay DEF JobsInv
\* What a step of a solving thread does: its own thread moves, one capture changes.
LEMMA JobSolves ==
  ASSUME JobsInv, NoAlignment, NEW v \in Solvers, NEW c \in Jobs!Captures,
         solver[v].pc # "idle", solver[v].capture = c,
         NEW t \in SolverStates, NEW j \in SoundJobs,
         solver' = [solver EXCEPT ![v] = t], job' = [job EXCEPT ![c] = j],
         t.pc # "idle" => t.capture = c /\ t.alone = solver[v].alone /\ SolverFits(v, t, j),
         j.stream = job[c].stream, j.there = job[c].there, j.layout = job[c].layout,
         j.kind = "none" => job[c].kind = "none",
         job[c] # j /\ job[c].there => j.of # 0 /\ j.kind # "none",
         job[c] # j => job[c].there
  PROVE  JobsInv'
  <1>1. JobTypes /\ InOrderInv /\ SolvesInv  BY DEF JobsInv
  <1>2. job \in [Jobs!Captures -> SoundJobs] /\ solver \in [Solvers -> SolverStates]
    BY <1>1 DEF JobTypes
  <1>3. /\ job' \in [Jobs!Captures -> SoundJobs] /\ solver' \in [Solvers -> SolverStates]
        /\ job'[c] = j /\ \A d \in Jobs!Captures : d # c => job'[d] = job[d]
        /\ solver'[v] = t /\ \A u \in Solvers : u # v => solver'[u] = solver[u]
    BY <1>2
  <1>4. JobTypes'  BY <1>3, AlignmentsStay DEF JobTypes
  <1>5. InOrderInv'
    <2>1. \A d \in Jobs!Captures : job'[d].stream = job[d].stream  BY <1>3
    <2>2. \A a, d \in Jobs!Captures : a < d /\ job'[d].stream # 0 => job'[a].stream # 0
      BY <1>1, <2>1 DEF InOrderInv
    <2> QED  BY <2>2, AlignmentsStay DEF InOrderInv
  <1>6. SolvesInv'
    <2> SUFFICES ASSUME NEW u \in Solvers, solver'[u].pc # "idle"
                 PROVE  /\ solver'[u].capture \in Jobs!Captures
                        /\ SolverFits(u, solver'[u], job'[solver'[u].capture])
                        /\ solver'[u].alone =>
                             \A w \in Solvers :
                               /\ solver'[w].pc # "idle"
                               /\ solver'[w].capture = solver'[u].capture
                               => w = u
      BY Zenon DEF SolvesInv
    <2>1. /\ solver[u].pc # "idle" /\ solver'[u].capture = solver[u].capture
          /\ solver'[u].alone = solver[u].alone
      BY <1>3
    <2> DEFINE b == solver[u].capture
    <2>2. /\ b \in Jobs!Captures /\ SolverFits(u, solver[u], job[b])
          /\ solver[u].alone =>
               \A w \in Solvers : solver[w].pc # "idle" /\ solver[w].capture = b => w = u
      BY <1>1, <2>1 DEF SolvesInv
    <2>3. solver[u].alone =>
            \A w \in Solvers : solver'[w].pc # "idle" /\ solver'[w].capture = b => w = u
      BY <1>3, <2>2
    <2>4. SolverFits(u, solver'[u], job'[b])
      <3>1. CASE u = v  BY <1>3, <2>1, <3>1
      <3>2. CASE u # v
        <4>1. CASE b # c  BY <1>3, <2>2, <3>2, <4>1
        <4>2. CASE b = c
          <5>1. solver'[u] = solver[u]  BY <1>3, <3>2
          <5>2. ~ solver[u].alone  BY <2>2, <3>2, <4>2
          <5> QED  BY <1>3, <2>2, <4>2, <5>1, <5>2 DEF SolverFits
        <4> QED  BY <4>1, <4>2
      <3> QED  BY <3>1, <3>2
    <2> QED  BY <2>1, <2>2, <2>3, <2>4
  <1> QED  BY <1>4, <1>5, <1>6, AlignmentsStay DEF JobsInv

LEMMA JobRunTool ==
  ASSUME JobsInv, NEW v \in Solvers, Jobs!RunTool(v)
  PROVE  JobsInv'
  <1> DEFINE c == solver[v].capture
  <1>1. NoAlignment /\ solver[v].pc = "tool"  BY DEF Jobs!RunTool, NoAlignment
  <1>2. JobTypes /\ SolvesInv  BY DEF JobsInv
  <1>3. c \in Jobs!Captures /\ SolverFits(v, solver[v], job[c])
    BY <1>1, <1>2 DEF SolvesInv
  <1>4. job[c] \in SoundJobs /\ solver[v] \in SolverStates
    BY <1>2, <1>3 DEF JobTypes
  <1>5. CASE /\ job[c].there /\ solver' = [solver EXCEPT ![v].pc = "read"]
             /\ job' = [job EXCEPT ![c].kind = "raw", ![c].of = job[c].layout]
    <2> DEFINE j == [job[c] EXCEPT !.kind = "raw", !.of = job[c].layout]
               t == [solver[v] EXCEPT !.pc = "read"]
    <2>1. solver' = [solver EXCEPT ![v] = t]  BY <1>2, <1>5 DEF JobTypes, SolverStates
    <2>2. /\ j \in SoundJobs /\ j.stream = job[c].stream /\ j.there = job[c].there
          /\ j.layout = job[c].layout /\ j.kind = "raw" /\ j.of = job[c].layout
      BY <1>3, <1>4, <1>5 DEF SoundJobs, SolverFits
    <2>3. t \in SolverStates /\ t.pc = "read" /\ t.capture = c /\ t.alone = solver[v].alone
      BY <1>4 DEF SolverStates
    <2>6. job' = [job EXCEPT ![c] = j]
      BY <1>2, <1>3, <1>5 DEF JobTypes, SoundJobs
    <2> HIDE DEF j, t
    <2>4. SolverFits(v, t, j)  BY <1>3, <1>5, <2>2, <2>3 DEF SolverFits
    <2>5. j.of # 0  BY <1>3, <1>5, <2>2 DEF SolverFits
    <2>7. solver[v].capture = c /\ solver[v].pc # "idle"  BY <1>1
    <2>8. t.pc # "idle" => t.capture = c /\ t.alone = solver[v].alone /\ SolverFits(v, t, j)
      BY <2>3, <2>4
    <2>9. /\ j.kind = "none" => job[c].kind = "none"
          /\ job[c] # j /\ job[c].there => j.of # 0 /\ j.kind # "none"
          /\ job[c] # j => job[c].there
      BY <1>5, <2>2, <2>5
    <2> HIDE DEF c
    <2> QED
      BY <1>1, <1>3, <2>1, <2>2, <2>3, <2>6, <2>7, <2>8, <2>9, JobSolves
  <1>6. CASE solver' = [solver EXCEPT ![v] = Jobs!Idle] /\ job' = job
    <2>1. job' = [job EXCEPT ![c] = job[c]]  BY <1>2, <1>6 DEF JobTypes
    <2> QED  BY <1>1, <1>3, <1>4, <1>6, <2>1, PlainJobs, JobSolves
  <1> QED  BY <1>5, <1>6 DEF Jobs!RunTool

LEMMA JobReadResult ==
  ASSUME JobsInv, NEW v \in Solvers, Jobs!ReadResult(v)
  PROVE  JobsInv'
  <1> DEFINE c == solver[v].capture
             t == IF job[c].there
                  THEN [solver[v] EXCEPT !.pc = "write", !.value = job[c].of] ELSE Jobs!Idle
  <1>1. NoAlignment /\ solver[v].pc = "read"  BY DEF Jobs!ReadResult, NoAlignment
  <1>2. JobTypes /\ SolvesInv  BY DEF JobsInv
  <1>3. c \in Jobs!Captures /\ SolverFits(v, solver[v], job[c])
    BY <1>1, <1>2 DEF SolvesInv
  <1>4. job[c] \in SoundJobs /\ solver[v] \in SolverStates
    BY <1>2, <1>3 DEF JobTypes
  <1>5. job' = [job EXCEPT ![c] = job[c]] /\ solver' = [solver EXCEPT ![v] = t]
    BY <1>2 DEF JobTypes, Jobs!ReadResult
  <1>6. /\ t \in SolverStates
        /\ t.pc # "idle" => /\ t.pc = "write" /\ job[c].there /\ t.value = job[c].of
                            /\ t.capture = c /\ t.alone = solver[v].alone
    <2>1. CASE job[c].there
      <3> DEFINE z == job[c].of
      <3>1. z \in Layouts  BY <1>4 DEF SoundJobs
      <3> HIDE DEF z
      <3>2. t = [solver[v] EXCEPT !.pc = "write", !.value = z]  BY <2>1 DEF z
      <3>3. /\ t \in SolverStates /\ t.pc = "write" /\ t.value = z /\ t.capture = c
            /\ t.alone = solver[v].alone
        <4> HIDE DEF t
        <4> QED  BY <1>4, <3>1, <3>2 DEF SolverStates
      <3> QED  BY <2>1, <3>3 DEF z
    <2>2. CASE ~ job[c].there  BY <2>2, PlainJobs
    <2> QED  BY <2>1, <2>2
  <1> HIDE DEF t
  <1>7. t.pc # "idle" => SolverFits(v, t, job[c])
    BY <1>1, <1>3, <1>4, <1>6 DEF SolverFits, SoundJobs
  <1> QED  BY <1>1, <1>3, <1>4, <1>5, <1>6, <1>7, JobSolves

LEMMA JobWriteResult ==
  ASSUME JobsInv, NEW v \in Solvers, Jobs!WriteResult(v)
  PROVE  JobsInv'
  <1> DEFINE c == solver[v].capture
  <1>1. NoAlignment /\ solver[v].pc = "write" /\ solver' = [solver EXCEPT ![v] = Jobs!Idle]
    BY DEF Jobs!WriteResult, NoAlignment
  <1>2. JobTypes /\ SolvesInv  BY DEF JobsInv
  <1>3. c \in Jobs!Captures /\ SolverFits(v, solver[v], job[c])
    BY <1>1, <1>2 DEF SolvesInv
  <1>4. job[c] \in SoundJobs /\ solver[v] \in SolverStates
    BY <1>2, <1>3 DEF JobTypes
  <1>5. CASE job[c].there
    <2> DEFINE z == solver[v].value
               a == solver[v].alone
               j == [job[c] EXCEPT !.kind = "complete", !.of = z, !.settled = a]
    <2>1. job' = [job EXCEPT ![c] = j]
      BY <1>2, <1>5 DEF JobTypes, SoundJobs, Jobs!WriteResult
    <2>2. z \in Layouts /\ a \in BOOLEAN /\ z # 0 /\ (a => job[c].layout = v /\ z = v)
      BY <1>1, <1>3, <1>4, <1>5 DEF SolverFits, SolverStates
    <2> HIDE DEF z, a
    <2>3. /\ j \in SoundJobs /\ j.stream = job[c].stream /\ j.there = job[c].there
          /\ j.layout = job[c].layout /\ j.kind = "complete" /\ j.of = z
      BY <1>4, <1>5, <2>2 DEF SoundJobs
    <2> HIDE DEF j
    <2> QED  BY <1>1, <1>3, <1>5, <2>1, <2>2, <2>3, PlainJobs, JobSolves
  <1>6. CASE ~ job[c].there
    <2>1. job' = [job EXCEPT ![c] = job[c]]  BY <1>2, <1>6 DEF JobTypes, Jobs!WriteResult
    <2> QED  BY <1>1, <1>3, <1>4, <2>1, PlainJobs, JobSolves
  <1> QED  BY <1>5, <1>6

LEMMA JobWriteLayout ==
  ASSUME JobsInv, NEW v \in Solvers, NEW c \in Jobs!Captures, Jobs!WriteLayout(v, c)
  PROVE  JobsInv'
  <1> DEFINE j == [job[c] EXCEPT !.layout = v, !.settled = FALSE]
             others == Jobs!Busy(c)
             t == [pc |-> "tool", capture |-> c, value |-> 0, alone |-> others = {}]
             off(u) == [solver[u] EXCEPT !.alone = FALSE]
  <1>1. NoAlignment /\ solver[v].pc = "idle" /\ job[c].there
    BY DEF Jobs!WriteLayout, NoAlignment
  <1>2. JobTypes /\ InOrderInv /\ SolvesInv  BY DEF JobsInv
  <1>3. job[c] \in SoundJobs /\ v \notin others /\ c \in 0 .. MaxCaptures
    BY <1>1, <1>2 DEF JobTypes, Jobs!Busy, Jobs!Captures
  <1>4. /\ job' = [job EXCEPT ![c] = j]
        /\ solver' = [u \in Solvers |->
                        IF u = v THEN t ELSE IF u \in others THEN off(u) ELSE solver[u]]
    BY <1>2 DEF JobTypes, SoundJobs, Jobs!WriteLayout
  <1>5. /\ j \in SoundJobs /\ j.stream = job[c].stream /\ j.there /\ j.layout = v
        /\ j.kind = job[c].kind /\ j.of = job[c].of /\ v # 0
    BY <1>1, <1>3 DEF SoundJobs, Layouts
  <1>6. /\ t \in SolverStates /\ t.pc = "tool" /\ t.capture = c
        /\ t.alone => others = {}
    BY <1>3 DEF SolverStates, Layouts
  <1>7. ASSUME NEW u \in Solvers
        PROVE  /\ off(u) \in SolverStates /\ off(u).pc = solver[u].pc
               /\ off(u).capture = solver[u].capture /\ off(u).value = solver[u].value
               /\ off(u).alone = FALSE
    <2>1. solver[u] \in SolverStates  BY <1>2 DEF JobTypes
    <2> QED  BY <2>1 DEF SolverStates
  <1> HIDE DEF j, t, off
  <1>8. /\ job' \in [Jobs!Captures -> SoundJobs] /\ job'[c] = j
        /\ \A d \in Jobs!Captures : d # c => job'[d] = job[d]
    BY <1>2, <1>4, <1>5 DEF JobTypes
  <1>9. /\ solver' \in [Solvers -> SolverStates] /\ solver'[v] = t
        /\ \A u \in Solvers : u # v =>
             solver'[u] = IF u \in others THEN off(u) ELSE solver[u]
    BY <1>2, <1>4, <1>6, <1>7 DEF JobTypes
  <1>10. JobTypes'  BY <1>1, <1>8, <1>9, AlignmentsStay DEF JobTypes
  <1>11. InOrderInv'
    <2>1. \A d \in Jobs!Captures : job'[d].stream = job[d].stream  BY <1>5, <1>8
    <2>2. \A a, d \in Jobs!Captures : a < d /\ job'[d].stream # 0 => job'[a].stream # 0
      BY <1>2, <2>1 DEF InOrderInv
    <2> QED  BY <1>1, <2>2, AlignmentsStay DEF InOrderInv
  <1>12. SolvesInv'
    <2> SUFFICES ASSUME NEW u \in Solvers, solver'[u].pc # "idle"
                 PROVE  /\ solver'[u].capture \in Jobs!Captures
                        /\ SolverFits(u, solver'[u], job'[solver'[u].capture])
                        /\ solver'[u].alone =>
                             \A w \in Solvers :
                               /\ solver'[w].pc # "idle"
                               /\ solver'[w].capture = solver'[u].capture
                               => w = u
      BY Zenon DEF SolvesInv
    <2>1. CASE u = v
      <3>1. solver'[u] = t /\ t.capture = c /\ t.pc = "tool"  BY <1>6, <1>9, <2>1
      <3>2. SolverFits(u, t, j)
        <4>1. j.stream # 0  BY <1>1, <1>3, <1>5 DEF SoundJobs
        <4> QED  BY <1>5, <2>1, <3>1, <4>1 DEF SolverFits
      <3>3. ASSUME t.alone, NEW w \in Solvers, solver'[w].pc # "idle",
                   solver'[w].capture = c, w # v
            PROVE  FALSE
        <4>1. solver[w].pc # "idle" /\ solver[w].capture = c  BY <1>7, <1>9, <3>3
        <4> QED  BY <1>6, <3>3, <4>1 DEF Jobs!Busy
      <3> QED  BY <1>8, <2>1, <3>1, <3>2, <3>3
    <2>2. CASE u # v
      <3> DEFINE b == solver[u].capture
      <3>1. /\ solver'[u].pc = solver[u].pc /\ solver'[u].capture = b
            /\ solver'[u].value = solver[u].value
            /\ solver'[u].alone => solver[u].alone /\ u \notin others
        BY <1>7, <1>9, <2>2
      <3>2. /\ b \in Jobs!Captures /\ SolverFits(u, solver[u], job[b])
            /\ solver[u].alone =>
                 \A w \in Solvers : solver[w].pc # "idle" /\ solver[w].capture = b => w = u
        BY <1>2, <3>1 DEF SolvesInv
      <3>3. CASE b # c
        <4>1. SolverFits(u, solver'[u], job'[b])  BY <1>8, <3>1, <3>2, <3>3 DEF SolverFits
        <4>2. ASSUME solver'[u].alone, NEW w \in Solvers, solver'[w].pc # "idle",
                     solver'[w].capture = b
              PROVE  w = u
          <5>1. w # v  BY <1>6, <1>9, <3>3, <4>2
          <5>2. solver[w].pc # "idle" /\ solver[w].capture = b  BY <1>7, <1>9, <4>2, <5>1
          <5> QED  BY <3>1, <3>2, <4>2, <5>2
        <4> QED  BY <3>1, <3>2, <4>1, <4>2
      <3>4. CASE b = c
        <4>1. u \in others  BY <3>1, <3>4 DEF Jobs!Busy
        <4>2. ~ solver'[u].alone  BY <3>1, <4>1
        <4>3. SolverFits(u, solver'[u], job'[b])
          <5>1. job[c].kind = j.kind /\ job[c].of = j.of  BY <1>3, <1>5
          <5> QED  BY <1>1, <1>5, <1>8, <3>1, <3>2, <3>4, <4>2, <5>1 DEF SolverFits
        <4> QED  BY <3>1, <3>2, <4>2, <4>3
      <3> QED  BY <3>3, <3>4
    <2> QED  BY <2>1, <2>2
  <1> QED  BY <1>1, <1>10, <1>11, <1>12, AlignmentsStay DEF JobsInv

\* What the steps of the alignments leave alone.
NoSolving == job' = job /\ solver' = solver

LEMMA SolvesStay ==
  ASSUME JobsInv, NoSolving
  PROVE  /\ SolvesInv' /\ job' \in [Jobs!Captures -> SoundJobs]
         /\ solver' \in [Solvers -> SolverStates]
         /\ \A c, d \in Jobs!Captures : c < d /\ job'[d].stream # 0 => job'[c].stream # 0
  BY DEF NoSolving, JobsInv, SolvesInv, InOrderInv, JobTypes

\* One alignment changes: what it leaves for its own entry to show.
LEMMA OneRun ==
  ASSUME JobsInv, NEW r \in Jobs!Runs, NEW e \in RunStates, e.pc # "none",
         \A s \in JobStreams : e.values[s] \in OwnMaps(s),
         run' = [run EXCEPT ![r] = e],
         \A q \in Jobs!Runs : q < r => run[q].pc # "none"
  PROVE  /\ run' \in [Jobs!Runs -> RunStates]
         /\ \A q \in Jobs!Runs : \A s \in JobStreams : run'[q].values[s] \in OwnMaps(s)
         /\ \A p, q \in Jobs!Runs : p < q /\ run'[q].pc # "none" => run'[p].pc # "none"
         /\ run'[r] = e /\ \A q \in Jobs!Runs : q # r => run'[q] = run[q]
         /\ Jobs!Saving' = IF e.pc = "saving" THEN Jobs!Saving \cup {r} ELSE Jobs!Saving \ {r}
  <1>1. JobTypes /\ InOrderInv  BY DEF JobsInv
  <1>2. run'[r] = e /\ \A q \in Jobs!Runs : q # r => run'[q] = run[q]
    BY <1>1 DEF JobTypes
  <1>3. run' \in [Jobs!Runs -> RunStates]  BY <1>1 DEF JobTypes
  <1>4. \A q \in Jobs!Runs : \A s \in JobStreams : run'[q].values[s] \in OwnMaps(s)
    BY <1>1, <1>2 DEF JobTypes
  <1>5. \A p, q \in Jobs!Runs : p < q /\ run'[q].pc # "none" => run'[p].pc # "none"
    BY <1>1, <1>2 DEF InOrderInv
  <1>6. Jobs!Saving' = IF e.pc = "saving" THEN Jobs!Saving \cup {r} ELSE Jobs!Saving \ {r}
    BY <1>2 DEF Jobs!Saving
  <1> QED  BY <1>2, <1>3, <1>4, <1>5, <1>6

LEMMA EndedRuns ==
  ASSUME JobsInv, NEW r \in Jobs!Saving, NEW how \in {"saved", "failed"}
  PROVE  /\ Jobs!Ended(r, how) \in RunStates /\ Jobs!Ended(r, how).pc = how
         /\ Jobs!Ended(r, how).streams = run[r].streams
         /\ \A s \in JobStreams : Jobs!Ended(r, how).values[s] \in OwnMaps(s)
  <1>1. run[r] \in RunStates  BY DEF JobsInv, JobTypes, Jobs!Saving
  <1> DEFINE z == Jobs!NoValues
  <1>2. /\ z \in [JobStreams -> UNION {OwnMaps(s) : s \in JobStreams}]
        /\ \A s \in JobStreams : z[s] \in OwnMaps(s)
    BY PlainJobs
  <1>3. Jobs!Ended(r, how) = [run[r] EXCEPT !.pc = how, !.todo = {}, !.values = z]
    BY DEF Jobs!Ended
  <1> HIDE DEF z
  <1>4. {} \in SUBSET JobStreams  OBVIOUS
  <1>5. /\ Jobs!Ended(r, how) \in RunStates /\ Jobs!Ended(r, how).pc = how
        /\ Jobs!Ended(r, how).streams = run[r].streams /\ Jobs!Ended(r, how).values = z
    BY <1>1, <1>2, <1>3, <1>4 DEF RunStates
  <1> QED  BY <1>2, <1>5

LEMMA JobAlign ==
  ASSUME JobsInv, NEW r \in Jobs!Runs, NEW some \in SUBSET JobStreams,
         NEW chosen \in [some -> Jobs!Captures], Jobs!Align(r, chosen)
  PROVE  JobsInv'
  <1> DEFINE K == {q \in Jobs!Runs : run[q].pc # "none"}
             w == [s \in JobStreams |->
                     IF s \in some THEN Jobs!Aligned(r, chosen[s]) ELSE Jobs!NoH]
             e == [pc |-> "saving", streams |-> some, todo |-> some, values |-> w]
  <1>1. /\ NoSolving /\ DOMAIN chosen = some
        /\ r = Cardinality(K) + 1 /\ Cardinality(some) >= 2
        /\ \A s \in some : Jobs!Usable(chosen[s], s)
        /\ run' = [run EXCEPT ![r] = e]
        /\ broken' = (broken \/ Jobs!Saving # {})
        /\ operational' = operational /\ last' = last
    BY JobCardinality DEF Jobs!Align, NoSolving
  <1>2. JobTypes /\ InOrderInv /\ SavesInv  BY DEF JobsInv
  <1>3. r \notin K /\ \A q \in Jobs!Runs : q < r => q \in K
    <2>1. /\ K \in SUBSET (1 .. MaxRuns) /\ r \in 1 .. MaxRuns
          /\ \A i, j \in 1 .. MaxRuns : i < j /\ j \in K => i \in K
      BY <1>2 DEF Jobs!Runs, InOrderInv
    <2> HIDE DEF K
    <2> QED  BY <1>1, <2>1, NextInOrder DEF Jobs!Runs
  <1>4. /\ w \in [JobStreams -> UNION {OwnMaps(s) : s \in JobStreams}]
        /\ \A s \in JobStreams : w[s] \in OwnMaps(s)
        /\ \A s \in some : w[s].run = r
    <2>1. ASSUME NEW s \in some
          PROVE  /\ Jobs!Aligned(r, chosen[s]) \in OwnMaps(s)
                 /\ Jobs!Aligned(r, chosen[s]).run = r
      <3> DEFINE j == job[chosen[s]]
      <3>1. /\ j \in SoundJobs /\ j.stream = s /\ j.of # 0
        BY <1>1, <1>2, <2>1 DEF JobTypes, Jobs!Usable, SoundJobs
      <3>2. Jobs!Aligned(r, chosen[s]) =
              [run |-> r, stream |-> j.stream, of |-> j.of, corners |-> j.layout,
               settled |-> j.settled]
        BY DEF Jobs!Aligned
      <3>3. r \in 0 .. MaxRuns  BY DEF Jobs!Runs
      <3> HIDE DEF j
      <3> QED  BY <3>1, <3>2, <3>3 DEF SoundJobs, OwnMaps
    <2>2. \A s \in JobStreams : w[s] \in OwnMaps(s)  BY <2>1, PlainJobs
    <2>3. w \in [JobStreams -> UNION {OwnMaps(s) : s \in JobStreams}]  BY <2>2
    <2> QED  BY <2>1, <2>2, <2>3
  <1> HIDE DEF w
  <1>5. /\ e \in RunStates /\ e.pc = "saving" /\ e.streams = some /\ e.todo = some
        /\ e.values = w
    BY <1>4 DEF RunStates
  <1>6. some # {}
    <2>1. Cardinality({}) = 0  BY FS_EmptySet
    <2>2. Cardinality(some) >= 2  BY <1>1
    <2> SUFFICES ASSUME some = {} PROVE FALSE  OBVIOUS
    <2> QED  BY <2>1, <2>2
  <1> HIDE DEF e, K
  <1>7. \A q \in Jobs!Runs : q < r => run[q].pc # "none"  BY <1>3 DEF K
  <1>8. /\ run' \in [Jobs!Runs -> RunStates]
        /\ \A q \in Jobs!Runs : \A s \in JobStreams : run'[q].values[s] \in OwnMaps(s)
        /\ \A p, q \in Jobs!Runs : p < q /\ run'[q].pc # "none" => run'[p].pc # "none"
        /\ run'[r] = e /\ \A q \in Jobs!Runs : q # r => run'[q] = run[q]
        /\ Jobs!Saving' = Jobs!Saving \cup {r}
    <2>1. /\ e \in RunStates /\ e.pc # "none" /\ run' = [run EXCEPT ![r] = e]
          /\ \A s \in JobStreams : e.values[s] \in OwnMaps(s)
      BY <1>1, <1>4, <1>5
    <2> QED  BY <1>5, <1>7, <2>1, OneRun
  <1>9. JobTypes'
    <2>1. broken' \in BOOLEAN  BY <1>1
    <2> QED  BY <1>1, <1>2, <1>8, <2>1, SolvesStay DEF JobTypes
  <1>10. InOrderInv'  BY <1>1, <1>8, SolvesStay DEF InOrderInv
  <1>11. SavesInv'
    <2>1. ASSUME NEW q \in Jobs!Saving'
          PROVE  /\ run'[q].todo # {} /\ run'[q].todo \subseteq run'[q].streams
                 /\ \A s \in run'[q].todo : run'[q].values[s].run = q
      <3>1. CASE q = r  BY <1>4, <1>5, <1>6, <1>8, <3>1
      <3>2. CASE q # r
        <4>1. q \in Jobs!Saving /\ run'[q] = run[q]  BY <1>8, <3>2 DEF Jobs!Saving
        <4> QED  BY <1>2, <4>1 DEF SavesInv
      <3> QED  BY <3>1, <3>2
    <2>2. ASSUME ~ broken'
          PROVE  /\ \A p, q \in Jobs!Saving' : p = q
                 /\ \A q \in Jobs!Saving' :
                      \A s \in run'[q].streams \ run'[q].todo : operational'[s].run = q
      <3>1. Jobs!Saving' = {r}  BY <1>1, <1>8, <2>2
      <3> QED  BY <1>5, <1>8, <3>1
    <2>3. last' # 0 => run'[last'].pc = "saved"
      <3>1. CASE last = 0  BY <1>1, <3>1
      <3>2. CASE last # 0
        <4>1. last \in Jobs!Runs /\ run[last].pc = "saved"
          BY <1>2, <3>2 DEF SavesInv, JobTypes, Jobs!Runs
        <4>2. last # r  BY <1>3, <4>1 DEF K
        <4> QED  BY <1>1, <1>8, <4>1, <4>2
      <3> QED  BY <3>1, <3>2
    <2> QED  BY <2>1, <2>2, <2>3 DEF SavesInv
  <1>12. Jobs!AlignmentIsWhole'  BY <1>8 DEF Jobs!AlignmentIsWhole
  <1> QED  BY <1>1, <1>9, <1>10, <1>11, <1>12, SolvesStay DEF JobsInv

LEMMA JobSave ==
  ASSUME JobsInv, NEW r \in Jobs!Runs, Jobs!Save(r)
  PROVE  JobsInv'
  <1> DEFINE s == Jobs!Min(run[r].todo)
             h == run[r].values[s]
             e == IF run[r].todo = {s} THEN Jobs!Ended(r, "saved")
                  ELSE [run[r] EXCEPT !.todo = run[r].todo \ {s}]
  <1>1. JobTypes /\ InOrderInv /\ SavesInv  BY DEF JobsInv
  <1>2. r \in Jobs!Saving /\ run[r].pc = "saving"  BY DEF Jobs!Save, Jobs!Saving
  <1>3. run[r] \in RunStates /\ \A x \in JobStreams : run[r].values[x] \in OwnMaps(x)
    BY <1>1 DEF JobTypes
  <1>4. s \in run[r].todo
    <2> DEFINE T == run[r].todo
    <2>1. T \in SUBSET JobStreams /\ T # {}  BY <1>1, <1>2, <1>3 DEF RunStates, SavesInv
    <2> HIDE DEF T
    <2>2. Jobs!Min(T) \in T  BY <2>1, LowestStream
    <2> QED  BY <2>2 DEF T
  <1>5. s \in JobStreams /\ h \in OwnMaps(s) /\ h.run = r /\ s \in run[r].streams
    BY <1>1, <1>2, <1>3, <1>4 DEF RunStates, SavesInv
  <1>6. NoSolving /\ operational' = [operational EXCEPT ![s] = h]
    BY DEF Jobs!Save, NoSolving
  <1>7. run' = [run EXCEPT ![r] = e]  BY DEF Jobs!Save
  <1>8. IF run[r].todo = {s} /\ Jobs!Saving = {r}
        THEN /\ last' = r
             /\ broken' = (broken /\ \E q \in JobStreams : operational'[q].run # r)
        ELSE last' = last /\ broken' = broken
    BY DEF Jobs!Save
  <1>9. /\ e \in RunStates /\ e.pc # "none" /\ \A x \in JobStreams : e.values[x] \in OwnMaps(x)
        /\ run[r].todo = {s} => e.pc = "saved" /\ e.streams = run[r].streams
        /\ run[r].todo # {s} =>
             /\ e.pc = "saving" /\ e.streams = run[r].streams
             /\ e.todo = run[r].todo \ {s} /\ e.values = run[r].values
    <2>1. CASE run[r].todo = {s}  BY <1>2, <2>1, EndedRuns
    <2>2. CASE run[r].todo # {s}
      <3> DEFINE rest == run[r].todo \ {s}
      <3>1. rest \in SUBSET JobStreams  BY <1>3 DEF RunStates
      <3>2. e = [run[r] EXCEPT !.todo = rest]  BY <2>2
      <3> HIDE DEF rest, e
      <3>3. /\ e \in RunStates /\ e.pc = run[r].pc /\ e.streams = run[r].streams
            /\ e.todo = rest /\ e.values = run[r].values
        BY <1>3, <3>1, <3>2 DEF RunStates
      <3> QED  BY <1>2, <1>3, <2>2, <3>3 DEF rest
    <2> QED  BY <2>1, <2>2
  <1> HIDE DEF e, h
  <1>10. /\ operational' \in [JobStreams -> UNION {OwnMaps(x) : x \in JobStreams}]
         /\ operational'[s] = h /\ \A x \in JobStreams : x # s => operational'[x] = operational[x]
         /\ \A x \in JobStreams : operational'[x] \in OwnMaps(x)
    BY <1>1, <1>5, <1>6 DEF JobTypes
  <1>11. \A q \in Jobs!Runs : q < r => run[q].pc # "none"
    BY <1>1, <1>2 DEF InOrderInv
  <1>12. /\ run' \in [Jobs!Runs -> RunStates]
         /\ \A q \in Jobs!Runs : \A x \in JobStreams : run'[q].values[x] \in OwnMaps(x)
         /\ \A p, q \in Jobs!Runs : p < q /\ run'[q].pc # "none" => run'[p].pc # "none"
         /\ run'[r] = e /\ \A q \in Jobs!Runs : q # r => run'[q] = run[q]
         /\ Jobs!Saving' = IF e.pc = "saving" THEN Jobs!Saving \cup {r} ELSE Jobs!Saving \ {r}
    BY <1>7, <1>9, <1>11, OneRun
  <1>13. JobTypes'
    <2>1. broken' \in BOOLEAN  BY <1>1, <1>8 DEF JobTypes
    <2>2. last' \in 0 .. MaxRuns  BY <1>1, <1>8 DEF JobTypes, Jobs!Runs
    <2> QED  BY <1>6, <1>10, <1>12, <2>1, <2>2, SolvesStay DEF JobTypes
  <1>14. InOrderInv'  BY <1>6, <1>12, SolvesStay DEF InOrderInv
  <1>15. last # 0 => last \in Jobs!Runs /\ run[last].pc = "saved" /\ last # r
    BY <1>1, <1>2 DEF SavesInv, JobTypes, Jobs!Runs
  <1>16. \A q \in Jobs!Saving : q # r =>
           /\ run'[q] = run[q] /\ run[q].todo # {} /\ run[q].todo \subseteq run[q].streams
           /\ \A x \in run[q].todo : run[q].values[x].run = q
    BY <1>1, <1>12 DEF SavesInv, Jobs!Saving
  <1>17. ~ broken => /\ Jobs!Saving = {r}
                     /\ \A x \in run[r].streams \ run[r].todo : operational[x].run = r
    BY <1>1, <1>2 DEF SavesInv
  <1>18. run[r].streams \subseteq JobStreams  BY <1>3 DEF RunStates
  <1>19. CASE run[r].todo = {s}
    <2>1. Jobs!Saving' = Jobs!Saving \ {r} /\ run'[r].pc = "saved"
          /\ run'[r].streams = run[r].streams
      BY <1>9, <1>12, <1>19
    <2>2. CASE Jobs!Saving = {r}
      <3>1. /\ Jobs!Saving' = {} /\ last' = r
            /\ broken' = (broken /\ \E q \in JobStreams : operational'[q].run # r)
        BY <1>8, <1>19, <2>1, <2>2
      <3>2. SavesInv'  BY <2>1, <3>1 DEF SavesInv
      <3>3. ASSUME ~ broken', NEW x \in run[r].streams PROVE operational'[x].run = r
        <4>1. CASE broken  BY <1>18, <3>1, <3>3, <4>1
        <4>2. CASE ~ broken
          <5>1. x = s \/ operational[x].run = r  BY <1>17, <1>19, <4>2
          <5> QED  BY <1>5, <1>10, <1>18, <5>1
        <4> QED  BY <4>1, <4>2
      <3>4. Jobs!AlignmentIsWhole'  BY <2>1, <3>1, <3>3 DEF Jobs!AlignmentIsWhole
      <3> QED  BY <1>6, <1>13, <1>14, <3>2, <3>4, SolvesStay DEF JobsInv
    <2>3. CASE Jobs!Saving # {r}
      <3>1. broken' /\ last' = last  BY <1>8, <1>17, <2>3
      <3>2. SavesInv'
        <4>1. \A q \in Jobs!Saving' :
                /\ run'[q].todo # {} /\ run'[q].todo \subseteq run'[q].streams
                /\ \A x \in run'[q].todo : run'[q].values[x].run = q
          BY <1>16, <2>1
        <4>2. last' # 0 => run'[last'].pc = "saved"  BY <1>12, <1>15, <3>1
        <4> QED  BY <3>1, <4>1, <4>2 DEF SavesInv
      <3>3. Jobs!AlignmentIsWhole'  BY <3>1 DEF Jobs!AlignmentIsWhole
      <3> QED  BY <1>6, <1>13, <1>14, <3>2, <3>3, SolvesStay DEF JobsInv
    <2> QED  BY <2>2, <2>3
  <1>20. CASE run[r].todo # {s}
    <2>1. /\ Jobs!Saving' = Jobs!Saving /\ run'[r].streams = run[r].streams
          /\ run'[r].todo = run[r].todo \ {s} /\ run'[r].values = run[r].values
          /\ last' = last /\ broken' = broken
      BY <1>2, <1>8, <1>9, <1>12, <1>20
    <2>2. SavesInv'
      <3>1. /\ run'[r].todo # {} /\ run'[r].todo \subseteq run'[r].streams
            /\ \A x \in run'[r].todo : run'[r].values[x].run = r
        BY <1>1, <1>2, <1>4, <1>20, <2>1 DEF SavesInv
      <3>2. \A q \in Jobs!Saving' :
              /\ run'[q].todo # {} /\ run'[q].todo \subseteq run'[q].streams
              /\ \A x \in run'[q].todo : run'[q].values[x].run = q
        BY <1>16, <2>1, <3>1
      <3>3. ASSUME ~ broken', NEW q \in Jobs!Saving',
                   NEW x \in run'[q].streams \ run'[q].todo
            PROVE  operational'[x].run = q
        <4>1. q = r  BY <1>17, <2>1, <3>3
        <4>2. x = s \/ operational[x].run = r  BY <1>17, <2>1, <3>3, <4>1
        <4>3. x \in JobStreams  BY <1>18, <2>1, <3>3, <4>1
        <4> QED  BY <1>5, <1>10, <4>1, <4>2, <4>3
      <3>4. ~ broken' => \A p, q \in Jobs!Saving' : p = q  BY <1>17, <2>1
      <3>5. last' # 0 => run'[last'].pc = "saved"  BY <1>12, <1>15, <2>1
      <3> QED  BY <3>2, <3>3, <3>4, <3>5 DEF SavesInv
    <2>3. Jobs!AlignmentIsWhole'  BY <1>2, <2>1 DEF Jobs!AlignmentIsWhole
    <2> QED  BY <1>6, <1>13, <1>14, <2>2, <2>3, SolvesStay DEF JobsInv
  <1> QED  BY <1>19, <1>20

LEMMA JobSaveFails ==
  ASSUME JobsInv, NEW r \in Jobs!Runs, Jobs!SaveFails(r)
  PROVE  JobsInv'
  <1> DEFINE e == Jobs!Ended(r, "failed")
  <1>1. JobTypes /\ InOrderInv /\ SavesInv  BY DEF JobsInv
  <1>2. /\ r \in Jobs!Saving /\ run[r].pc = "saving" /\ NoSolving
        /\ run' = [run EXCEPT ![r] = e] /\ broken' = TRUE
        /\ operational' = operational /\ last' = last
    BY DEF Jobs!SaveFails, Jobs!Saving, NoSolving
  <1>3. /\ e \in RunStates /\ e.pc = "failed" /\ \A x \in JobStreams : e.values[x] \in OwnMaps(x)
    BY <1>2, EndedRuns
  <1> HIDE DEF e
  <1>4. \A q \in Jobs!Runs : q < r => run[q].pc # "none"
    BY <1>1, <1>2 DEF InOrderInv
  <1>5. /\ run' \in [Jobs!Runs -> RunStates]
        /\ \A q \in Jobs!Runs : \A x \in JobStreams : run'[q].values[x] \in OwnMaps(x)
        /\ \A p, q \in Jobs!Runs : p < q /\ run'[q].pc # "none" => run'[p].pc # "none"
        /\ run'[r] = e /\ \A q \in Jobs!Runs : q # r => run'[q] = run[q]
        /\ Jobs!Saving' = Jobs!Saving \ {r}
    <2>1. e.pc # "none"  BY <1>3
    <2> QED  BY <1>2, <1>3, <1>4, <2>1, OneRun
  <1>6. JobTypes'
    <2>1. broken' \in BOOLEAN  BY <1>2
    <2> QED  BY <1>1, <1>2, <1>5, <2>1, SolvesStay DEF JobTypes
  <1>7. InOrderInv'  BY <1>2, <1>5, SolvesStay DEF InOrderInv
  <1>8. SavesInv'
    <2>1. \A q \in Jobs!Saving' :
            /\ run'[q].todo # {} /\ run'[q].todo \subseteq run'[q].streams
            /\ \A x \in run'[q].todo : run'[q].values[x].run = q
      BY <1>1, <1>5 DEF SavesInv, Jobs!Saving
    <2>2. last' # 0 => run'[last'].pc = "saved"
      BY <1>1, <1>2, <1>5 DEF SavesInv, JobTypes, Jobs!Runs
    <2> QED  BY <1>2, <2>1, <2>2 DEF SavesInv
  <1>9. Jobs!AlignmentIsWhole'  BY <1>2 DEF Jobs!AlignmentIsWhole
  <1> QED  BY <1>2, <1>6, <1>7, <1>8, <1>9, SolvesStay DEF JobsInv

LEMMA JobCrash ==
  ASSUME JobsInv, Jobs!Crash
  PROVE  JobsInv'
  <1>1. JobTypes /\ InOrderInv /\ SavesInv /\ Jobs!AlignmentIsWhole  BY DEF JobsInv
  <1>2. /\ solver' = [v \in Solvers |-> Jobs!Idle]
        /\ run' = [r \in Jobs!Runs |->
                     IF r \in Jobs!Saving THEN Jobs!Ended(r, "failed") ELSE run[r]]
        /\ broken' = (broken \/ Jobs!Saving # {})
        /\ job' = job /\ operational' = operational /\ last' = last
    BY DEF Jobs!Crash
  <1>3. /\ solver' \in [Solvers -> SolverStates] /\ \A v \in Solvers : solver'[v].pc = "idle"
    BY <1>2, PlainJobs
  <1>4. ASSUME NEW r \in Jobs!Runs
        PROVE  /\ run'[r] \in RunStates /\ \A x \in JobStreams : run'[r].values[x] \in OwnMaps(x)
               /\ run'[r].pc = IF r \in Jobs!Saving THEN "failed" ELSE run[r].pc
               /\ r \notin Jobs!Saving => run'[r] = run[r]
    <2>1. CASE r \in Jobs!Saving
      <3>1. run'[r] = Jobs!Ended(r, "failed")  BY <1>2, <2>1
      <3> QED  BY <2>1, <3>1, EndedRuns
    <2>2. CASE r \notin Jobs!Saving  BY <1>1, <1>2, <2>2 DEF JobTypes
    <2> QED  BY <2>1, <2>2
  <1>5. run' \in [Jobs!Runs -> RunStates]  BY <1>2, <1>4
  <1>6. JobTypes'
    <2>1. broken' \in BOOLEAN  BY <1>1, <1>2 DEF JobTypes
    <2> QED  BY <1>1, <1>2, <1>3, <1>4, <1>5, <2>1 DEF JobTypes
  <1>7. InOrderInv'
    <2>1. \A p, q \in Jobs!Runs : p < q /\ run'[q].pc # "none" => run'[p].pc # "none"
      BY <1>1, <1>4 DEF InOrderInv, Jobs!Saving
    <2> QED  BY <1>1, <1>2, <2>1 DEF InOrderInv
  <1>8. SolvesInv'  BY <1>3 DEF SolvesInv
  <1>9. Jobs!Saving' = {}  BY <1>4 DEF Jobs!Saving
  <1>10. last # 0 => last \in Jobs!Runs /\ run'[last] = run[last] /\ run[last].pc = "saved"
    BY <1>1, <1>4 DEF SavesInv, JobTypes, Jobs!Runs, Jobs!Saving
  <1>11. SavesInv'  BY <1>2, <1>9, <1>10 DEF SavesInv
  <1>12. Jobs!AlignmentIsWhole'  BY <1>1, <1>2, <1>9, <1>10 DEF Jobs!AlignmentIsWhole
  <1> QED  BY <1>6, <1>7, <1>8, <1>11, <1>12 DEF JobsInv

\* Whatever a request does, or the end of the server.
LEMMA JobsInductive == JobsInv /\ [Jobs!Next]_(Jobs!vars) => JobsInv'
  <1>1. ASSUME JobsInv, Jobs!Next PROVE JobsInv'
    <2>1. CASE \E c \in Jobs!Captures, s \in JobStreams, old \in SUBSET Jobs!Captures :
                 Jobs!Detect(c, s, old)
      BY <1>1, <2>1, JobDetect
    <2>2. ASSUME NEW v \in Solvers,
                 \/ \E c \in Jobs!Captures : Jobs!WriteLayout(v, c)
                 \/ Jobs!RunTool(v) \/ Jobs!ReadResult(v) \/ Jobs!WriteResult(v)
          PROVE  JobsInv'
      BY <1>1, <2>2, JobWriteLayout, JobRunTool, JobReadResult, JobWriteResult
    <2>3. ASSUME NEW r \in Jobs!Runs,
                 \/ \E some \in SUBSET JobStreams : \E chosen \in [some -> Jobs!Captures] :
                      Jobs!Align(r, chosen)
                 \/ Jobs!Save(r) \/ Jobs!SaveFails(r)
          PROVE  JobsInv'
      BY <1>1, <2>3, JobAlign, JobSave, JobSaveFails
    <2>4. CASE Jobs!Crash  BY <1>1, <2>4, JobCrash
    <2> QED  BY <1>1, <2>1, <2>2, <2>3, <2>4 DEF Jobs!Next
  <1>2. ASSUME JobsInv, UNCHANGED Jobs!vars PROVE JobsInv'
    <2>1. NoAlignment /\ NoSolving  BY <1>2 DEF Jobs!vars, NoAlignment, NoSolving
    <2>2. JobTypes' /\ InOrderInv'
      BY <1>2, <2>1, AlignmentsStay, SolvesStay DEF JobTypes, InOrderInv
    <2> QED  BY <1>2, <2>1, <2>2, AlignmentsStay, SolvesStay DEF JobsInv
  <1> QED  BY <1>1, <1>2

LEMMA JobsInitially == Jobs!Init => JobsInv
  <1> SUFFICES ASSUME Jobs!Init PROVE JobsInv  OBVIOUS
  <1>1. /\ job = [c \in Jobs!Captures |-> Jobs!NoJob]
        /\ solver = [v \in Solvers |-> Jobs!Idle]
        /\ run = [r \in Jobs!Runs |-> Jobs!NoRun]
        /\ operational = [s \in JobStreams |-> Jobs!NoH]
        /\ last = 0 /\ broken = FALSE
    BY DEF Jobs!Init
  <1>2. /\ \A c \in Jobs!Captures : job[c] = Jobs!NoJob
        /\ \A v \in Solvers : solver[v] = Jobs!Idle
        /\ \A r \in Jobs!Runs : run[r] = Jobs!NoRun
        /\ \A s \in JobStreams : operational[s] = Jobs!NoH
    BY <1>1
  <1>3. JobTypes
    <2>1. /\ job \in [Jobs!Captures -> SoundJobs] /\ solver \in [Solvers -> SolverStates]
          /\ run \in [Jobs!Runs -> RunStates]
      BY <1>1, PlainJobs
    <2>2. /\ \A r \in Jobs!Runs : \A s \in JobStreams : run[r].values[s] \in OwnMaps(s)
          /\ operational \in [JobStreams -> UNION {OwnMaps(s) : s \in JobStreams}]
          /\ \A s \in JobStreams : operational[s] \in OwnMaps(s)
      <3>1. \A r \in Jobs!Runs : \A s \in JobStreams : run[r].values[s] = Jobs!NoH
        BY <1>2, PlainJobs
      <3>2. \A s \in JobStreams : operational[s] \in OwnMaps(s)  BY <1>2, PlainJobs
      <3>3. operational \in [JobStreams -> UNION {OwnMaps(s) : s \in JobStreams}]
        BY <1>1, PlainJobs
      <3> QED  BY <3>1, <3>2, <3>3, PlainJobs
    <2>3. last \in 0 .. MaxRuns /\ broken \in BOOLEAN
      <3>1. 0 \in 0 .. MaxRuns  OBVIOUS
      <3> QED  BY <1>1, <3>1
    <2> QED  BY <2>1, <2>2, <2>3 DEF JobTypes
  <1>4. InOrderInv  BY <1>2, PlainJobs DEF InOrderInv
  <1>5. SolvesInv  BY <1>2, PlainJobs DEF SolvesInv
  <1>6. Jobs!Saving = {}  BY <1>2, PlainJobs DEF Jobs!Saving
  <1>7. SavesInv /\ Jobs!AlignmentIsWhole  BY <1>1, <1>6 DEF SavesInv, Jobs!AlignmentIsWhole
  <1> QED  BY <1>3, <1>4, <1>5, <1>7 DEF JobsInv

LEMMA JobsSafe == JobsInv => Jobs!Safety
  <1> SUFFICES ASSUME JobsInv PROVE Jobs!Safety  OBVIOUS
  <1>1. JobTypes  BY DEF JobsInv
  <1>2. Jobs!TypeOK
    <2>1. \A c \in Jobs!Captures :
            /\ job[c].stream \in JobStreams \cup {0} /\ job[c].kind \in {"none", "raw", "complete"}
            /\ {job[c].layout, job[c].of} \subseteq Solvers \cup {0}
      BY <1>1 DEF JobTypes, SoundJobs, Layouts
    <2>2. \A v \in Solvers : solver[v].pc \in {"idle", "tool", "read", "write"}
      BY <1>1 DEF JobTypes, SolverStates
    <2>3. \A r \in Jobs!Runs : run[r].pc \in {"none", "saving", "saved", "failed"}
      BY <1>1 DEF JobTypes, RunStates
    <2> QED  BY <1>1, <2>1, <2>2, <2>3 DEF JobTypes, Jobs!TypeOK
  <1>3. Jobs!OperationalIsOwn  BY <1>1 DEF JobTypes, OwnMaps, Jobs!OperationalIsOwn
  <1>4. Jobs!CornersMatchResult  BY <1>1 DEF JobTypes, OwnMaps, Jobs!CornersMatchResult
  <1> QED  BY <1>2, <1>3, <1>4 DEF JobsInv, Jobs!Safety

HIDE JobAssumption DEF Jobs!ConstantAssumption

-----------------------------------------------------------------------------
\* The alignment of the streams (GlobalAlignment).

\* The permutations of the points.
Perms == {p \in [1 .. 3 -> 1 .. 3] : \A y \in 1 .. 3 : \E x \in 1 .. 3 : p[x] = y}

AlignmentTypes ==
  /\ pose \in [SiteStreams -> Perms] /\ anchor \in SiteStreams
  /\ DOMAIN transforms \subseteq SiteStreams /\ anchor \in DOMAIN transforms
  /\ transforms \in [DOMAIN transforms -> Perms]
  /\ pending \in Seq(DOMAIN transforms)
  /\ outcome \in {"joining", "aligned", "refused"}

\* Every transform is the one by way of the site.
MapsInv ==
  /\ \A s \in DOMAIN transforms :
       transforms[s] = Global!matrix_multiply(Global!invert_matrix(pose[anchor]), pose[s])
  /\ transforms[anchor] = Global!Identity

\* The joins of a stream that was reached are pending, or were followed.
FollowedInv ==
  \A s \in DOMAIN transforms :
    \/ \E i \in 1 .. Len(pending) : pending[i] = s
    \/ \A t \in SiteStreams : Global!Joined(s, t) => t \in DOMAIN transforms

\* Only what the joins lead to is reached.
ReachedInv ==
  \A part \in SUBSET SiteStreams :
    /\ anchor \in part
    /\ \A s \in part, t \in SiteStreams : Global!Joined(s, t) => t \in part
    => DOMAIN transforms \subseteq part

OutcomeInv ==
  /\ outcome = "aligned" => DOMAIN transforms = SiteStreams
  /\ outcome = "refused" => pending = <<>> /\ DOMAIN transforms # SiteStreams

AlignmentInv == AlignmentTypes /\ MapsInv /\ FollowedInv /\ ReachedInv /\ OutcomeInv
USE GlobalAssumption DEF Global!ConstantAssumption, Global!Points

LEMMA InversePerm ==
  ASSUME NEW p \in Perms
  PROVE  /\ Global!invert_matrix(p) \in Perms
         /\ \A x \in 1 .. 3 : Global!invert_matrix(p)[p[x]] = x
         /\ \A x \in 1 .. 3 : p[Global!invert_matrix(p)[x]] = x
  <1> DEFINE w == Global!invert_matrix(p)
  <1>1. \A x \in 1 .. 3 : p[x] \in 1 .. 3  BY DEF Perms
  <1>2. \A x, y \in 1 .. 3 : p[x] = p[y] => x = y
    <2>1. p[1] \in 1 .. 3 /\ p[2] \in 1 .. 3 /\ p[3] \in 1 .. 3  BY <1>1
    <2>2. \A y \in {1, 2, 3} : p[1] = y \/ p[2] = y \/ p[3] = y
      <3>1. ASSUME NEW y \in 1 .. 3 PROVE p[1] = y \/ p[2] = y \/ p[3] = y
        <4>1. PICK x \in 1 .. 3 : p[x] = y  BY DEF Perms
        <4>2. x = 1 \/ x = 2 \/ x = 3  OBVIOUS
        <4> QED  BY <4>1, <4>2
      <3> QED  BY <3>1
    <2>3. p[1] # p[2] /\ p[1] # p[3] /\ p[2] # p[3]  BY <2>1, <2>2
    <2> QED  BY <2>3
  <1>3. ASSUME NEW y \in 1 .. 3 PROVE w[y] \in 1 .. 3 /\ p[w[y]] = y
    <2>1. \E x \in 1 .. 3 : p[x] = y  BY DEF Perms
    <2>2. w[y] = CHOOSE x \in 1 .. 3 : p[x] = y  BY DEF Global!invert_matrix
    <2> QED  BY <2>1, <2>2
  <1>4. w \in [1 .. 3 -> 1 .. 3]
    <2>1. w = [x \in 1 .. 3 |-> CHOOSE y \in 1 .. 3 : p[y] = x]
      BY DEF Global!invert_matrix
    <2> HIDE DEF w
    <2> QED  BY <1>3, <2>1
  <1> HIDE DEF w
  <1>5. \A x \in 1 .. 3 : w[p[x]] = x  BY <1>1, <1>2, <1>3
  <1>6. w \in Perms  BY <1>1, <1>4, <1>5 DEF Perms
  <1> QED  BY <1>3, <1>5, <1>6 DEF w

LEMMA ProductPerm ==
  ASSUME NEW p \in Perms, NEW q \in Perms
  PROVE  /\ Global!matrix_multiply(p, q) \in Perms
         /\ \A x \in 1 .. 3 : Global!matrix_multiply(p, q)[x] = p[q[x]]
  <1> DEFINE w == Global!matrix_multiply(p, q)
  <1>1. w = [x \in 1 .. 3 |-> p[q[x]]]  BY DEF Global!matrix_multiply
  <1>2. \A x \in 1 .. 3 : p[x] \in 1 .. 3 /\ q[x] \in 1 .. 3  BY DEF Perms
  <1> HIDE DEF w
  <1>3. w \in [1 .. 3 -> 1 .. 3] /\ \A x \in 1 .. 3 : w[x] = p[q[x]]  BY <1>1, <1>2
  <1>4. ASSUME NEW y \in 1 .. 3 PROVE \E x \in 1 .. 3 : w[x] = y
    <2>1. PICK u \in 1 .. 3 : p[u] = y  BY DEF Perms
    <2>2. PICK x \in 1 .. 3 : q[x] = u  BY DEF Perms
    <2> QED  BY <1>3, <2>1, <2>2
  <1> QED  BY <1>3, <1>4 DEF Perms, w

LEMMA SamePerm ==
  ASSUME NEW p \in Perms, NEW q \in Perms, \A x \in 1 .. 3 : p[x] = q[x]
  PROVE  p = q
  BY DEF Perms

\* By way of s, and either way round, t gets the same transform.
LEMMA OnwardBySite ==
  ASSUME AlignmentTypes, MapsInv, NEW s \in DOMAIN transforms, NEW t \in SiteStreams, s # t
  PROVE  Global!Onward(s, t) =
           Global!matrix_multiply(Global!invert_matrix(pose[anchor]), pose[t])
  <1> DEFINE a == pose[anchor]
             p == pose[s]
             q == pose[t]
             ia == Global!invert_matrix(a)
             ip == Global!invert_matrix(p)
             iq == Global!invert_matrix(q)
             there == Global!matrix_multiply(iq, p)
             back == Global!matrix_multiply(ip, q)
             ithere == Global!invert_matrix(there)
             iback == Global!invert_matrix(back)
             e == Global!SourceToDestination(s, t)
             ie == Global!invert_matrix(e)
             f == Global!matrix_multiply(ia, p)
             g == Global!matrix_multiply(f, ie)
             h == Global!matrix_multiply(ia, q)
  <1>1. a \in Perms /\ p \in Perms /\ q \in Perms  BY DEF AlignmentTypes
  <1>2. Global!Onward(s, t) = g  BY DEF Global!Onward, MapsInv
  <1>3. e = IF s < t THEN there ELSE iback
    BY DEF Global!SourceToDestination, Global!Measured
  <1> HIDE DEF a, p, q
  <1>4. /\ ia \in Perms /\ ip \in Perms /\ iq \in Perms
        /\ \A x \in 1 .. 3 : ip[p[x]] = x /\ p[ip[x]] = x
        /\ \A x \in 1 .. 3 : iq[q[x]] = x /\ q[iq[x]] = x
    BY <1>1, InversePerm
  <1> HIDE DEF ia, ip, iq
  <1>5. /\ there \in Perms /\ \A x \in 1 .. 3 : there[x] = iq[p[x]]
        /\ back \in Perms /\ \A x \in 1 .. 3 : back[x] = ip[q[x]]
        /\ f \in Perms /\ \A x \in 1 .. 3 : f[x] = ia[p[x]]
        /\ h \in Perms /\ \A x \in 1 .. 3 : h[x] = ia[q[x]]
    BY <1>1, <1>4, ProductPerm
  <1> HIDE DEF there, back, f, h
  <1>6. /\ iback \in Perms /\ \A x \in 1 .. 3 : iback[back[x]] = x /\ back[iback[x]] = x
    BY <1>5, InversePerm
  <1> HIDE DEF iback
  <1>7. \A x \in 1 .. 3 : /\ p[x] \in 1 .. 3 /\ q[x] \in 1 .. 3 /\ ip[x] \in 1 .. 3
                          /\ iq[x] \in 1 .. 3 /\ iback[x] \in 1 .. 3
    BY <1>1, <1>4, <1>6 DEF Perms
  <1>8. e \in Perms /\ \A x \in 1 .. 3 : e[x] = iq[p[x]]
    <2>1. CASE s < t  BY <1>3, <1>5, <2>1
    <2>2. CASE ~ (s < t)
      <3>1. e = iback  BY <1>3, <2>2
      <3>2. ASSUME NEW x \in 1 .. 3 PROVE iback[x] = iq[p[x]]
        <4> DEFINE y == iq[p[x]]
        <4>1. y \in 1 .. 3 /\ q[y] = p[x]  BY <1>4, <1>7
        <4> HIDE DEF y
        <4>2. back[y] = x  BY <1>4, <1>5, <4>1
        <4>3. iback[x] = y  BY <1>6, <4>1, <4>2
        <4> QED  BY <4>3 DEF y
      <3> QED  BY <1>6, <3>1, <3>2
    <2> QED  BY <2>1, <2>2
  <1> HIDE DEF e
  <1>9. ie \in Perms /\ \A x \in 1 .. 3 : ie[e[x]] = x /\ e[ie[x]] = x
    BY <1>8, InversePerm
  <1> HIDE DEF ie
  <1>10. g \in Perms /\ \A x \in 1 .. 3 : g[x] = f[ie[x]]
    BY <1>5, <1>9, ProductPerm
  <1> HIDE DEF g
  <1>11. ASSUME NEW x \in 1 .. 3 PROVE g[x] = h[x]
    <2> DEFINE y == ie[x]
    <2>1. y \in 1 .. 3 /\ e[y] = x  BY <1>9 DEF Perms
    <2>2. g[x] = ia[p[y]]  BY <1>5, <1>10, <2>1
    <2> HIDE DEF y
    <2>3. x = iq[p[y]]  BY <1>8, <2>1
    <2>4. q[x] = p[y]  BY <1>4, <1>7, <2>1, <2>3
    <2> QED  BY <1>5, <2>2, <2>4
  <1>12. g = h  BY <1>5, <1>10, <1>11, SamePerm
  <1> QED  BY <1>2, <1>12 DEF h, ia, a, q

LEMMA GlobalCardinality == \A S : Global!Cardinality(S) = Cardinality(S)
  BY Zenon DEF Global!Cardinality, Cardinality

LEMMA GlobalFinite == IsFiniteSet(SiteStreams)
  BY Zenon DEF Global!IsFiniteSet, IsFiniteSet

LEMMA QueueOfAll ==
  ASSUME NEW S \in SUBSET SiteStreams, NEW u \in Global!InOrder(S)
  PROVE  u \in Seq(S) /\ \A t \in S : \E i \in 1 .. Len(u) : u[i] = t
  <1> DEFINE k == Cardinality(S)
  <1>1. k \in Nat
    <2>1. IsFiniteSet(S)  BY GlobalFinite, FS_Subset
    <2> QED  BY <2>1, FS_CardinalityType
  <1>2. u \in [1 .. k -> S] /\ Global!Range(u) = S
    BY GlobalCardinality DEF Global!InOrder
  <1> HIDE DEF k
  <1>3. u \in Seq(S) /\ Len(u) = k  BY <1>1, <1>2
  <1>4. ASSUME NEW t \in S PROVE \E i \in 1 .. k : u[i] = t
    BY <1>2 DEF Global!Range
  <1> QED  BY <1>3, <1>4

LEMMA AlignFollow ==
  ASSUME AlignmentInv, Global!Follow
  PROVE  AlignmentInv'
  <1> DEFINE s == Head(pending)
             R == DOMAIN transforms
             new == {t \in SiteStreams : Global!Joined(s, t) /\ t \notin R}
             by(t) == Global!matrix_multiply(Global!invert_matrix(pose[anchor]), pose[t])
  <1>1. PICK u \in Global!InOrder(new) : pending' = Tail(pending) \o u
    BY DEF Global!Follow
  <1>2. /\ outcome = "joining" /\ pending # <<>>
        /\ transforms' = [t \in R \cup new |->
                            IF t \in R THEN transforms[t] ELSE Global!Onward(s, t)]
        /\ pose' = pose /\ joined' = joined /\ anchor' = anchor /\ outcome' = outcome
    BY DEF Global!Follow
  <1>3. AlignmentTypes /\ MapsInv /\ FollowedInv /\ ReachedInv  BY DEF AlignmentInv
  <1>4. pending \in Seq(R) /\ R \subseteq SiteStreams /\ anchor \in R
    BY <1>3 DEF AlignmentTypes
  <1>5. s \in R /\ s = pending[1] /\ Tail(pending) \in Seq(R)  BY <1>2, <1>4
  <1>6. u \in Seq(new) /\ \A t \in new : \E i \in 1 .. Len(u) : u[i] = t
    <2>1. new \in SUBSET SiteStreams  OBVIOUS
    <2> HIDE DEF new
    <2> QED  BY <2>1, QueueOfAll
  <1>7. \A t \in R : by(t) \in Perms /\ transforms[t] = by(t)
    BY <1>3 DEF AlignmentTypes, MapsInv
  <1>8. \A t \in SiteStreams : by(t) \in Perms
    <2>1. ASSUME NEW t \in SiteStreams PROVE by(t) \in Perms
      <3>1. pose[anchor] \in Perms /\ pose[t] \in Perms  BY <1>3 DEF AlignmentTypes
      <3> QED  BY <3>1, InversePerm, ProductPerm
    <2> QED  BY <2>1
  <1>9. \A t \in new : Global!Onward(s, t) = by(t)
    <2>1. ASSUME NEW t \in new PROVE Global!Onward(s, t) = by(t)
      <3>1. t \in SiteStreams /\ s # t  BY <1>5
      <3> QED  BY <1>3, <1>5, <3>1, OnwardBySite
    <2> QED  BY <2>1
  <1> DEFINE D == R \cup new
  <1>10. D \subseteq SiteStreams /\ R \subseteq D /\ \A t \in D : t \in R \/ t \in new
    BY <1>4
  <1>11. /\ DOMAIN transforms' = D
         /\ \A t \in D : transforms'[t] = by(t) /\ by(t) \in Perms
         /\ \A t \in R : transforms'[t] = transforms[t]
    <2>1. transforms' = [t \in D |-> IF t \in R THEN transforms[t] ELSE Global!Onward(s, t)]
      BY <1>2
    <2> HIDE DEF by, D, R, new
    <2> QED  BY <1>7, <1>8, <1>9, <1>10, <2>1
  <1>12. ASSUME NEW t \in SiteStreams, NEW r \in SiteStreams
         PROVE  Global!Joined(t, r)' <=> Global!Joined(t, r)
    BY <1>2 DEF Global!Joined
  <1>13. /\ pending' \in Seq(D)
         /\ \A t \in R : t # s /\ (\E i \in 1 .. Len(pending) : pending[i] = t)
              => \E i \in 1 .. Len(pending') : pending'[i] = t
         /\ \A t \in new : \E i \in 1 .. Len(pending') : pending'[i] = t
    <2> DEFINE a == Tail(pending)
    <2>1. a \in Seq(D) /\ u \in Seq(D)
      <3> HIDE DEF D, R, new
      <3>1. R \subseteq D /\ new \subseteq D  BY DEF D
      <3> QED  BY <1>5, <1>6, <3>1
    <2>2. /\ Len(a) = Len(pending) - 1 /\ Len(pending) \in Nat /\ Len(pending) >= 1
          /\ \A i \in 1 .. Len(a) : a[i] = pending[i + 1]
      BY <1>2, <1>4
    <2> HIDE DEF a, D, R, new, s
    <2>3. /\ pending' = a \o u /\ Len(a) \in Nat /\ Len(u) \in Nat  BY <1>1, <2>1 DEF a
    <2>4. /\ pending' \in Seq(D) /\ Len(pending') = Len(a) + Len(u)
          /\ \A i \in 1 .. Len(a) : pending'[i] = a[i]
          /\ \A i \in 1 .. Len(u) : pending'[Len(a) + i] = u[i]
      BY <2>1, <2>3
    <2>5. ASSUME NEW t \in R, t # s, NEW i \in 1 .. Len(pending), pending[i] = t
          PROVE  \E j \in 1 .. Len(pending') : pending'[j] = t
      <3>1. i # 1  BY <1>5, <2>5
      <3>2. i - 1 \in 1 .. Len(a) /\ (i - 1) + 1 = i  BY <2>2, <3>1
      <3>3. a[i - 1] = t  BY <2>2, <2>5, <3>2
      <3>4. i - 1 \in 1 .. Len(a) + Len(u)  BY <2>3, <3>2
      <3> QED  BY <2>4, <3>2, <3>3, <3>4
    <2>6. ASSUME NEW t \in new PROVE \E j \in 1 .. Len(pending') : pending'[j] = t
      <3>1. PICK i \in 1 .. Len(u) : u[i] = t  BY <1>6
      <3>2. Len(a) + i \in 1 .. Len(a) + Len(u)  BY <2>3
      <3> QED  BY <2>4, <3>1, <3>2
    <2> QED  BY <2>4, <2>5, <2>6
  <1>14. AlignmentTypes'
    <2>1. transforms' \in [D -> Perms]
      <3>1. transforms' = [t \in D |-> transforms'[t]]  BY <1>2
      <3> HIDE DEF D, by
      <3> QED  BY <1>11, <3>1
    <2> HIDE DEF D
    <2>2. anchor \in D  BY <1>4, <1>10
    <2> QED  BY <1>2, <1>3, <1>10, <1>11, <1>13, <2>1, <2>2 DEF AlignmentTypes
  <1>15. MapsInv'
    <2>1. \A t \in D : transforms'[t]
                         = Global!matrix_multiply(Global!invert_matrix(pose'[anchor']), pose'[t])
      BY <1>2, <1>11
    <2>2. transforms'[anchor'] = Global!Identity'
      <3>1. Global!Identity' = Global!Identity  BY DEF Global!Identity
      <3> QED  BY <1>2, <1>3, <1>4, <1>11, <3>1 DEF MapsInv
    <2> HIDE DEF D
    <2> QED  BY <1>11, <2>1, <2>2 DEF MapsInv, Global!matrix_multiply, Global!invert_matrix
  <1>16. FollowedInv'
    <2> SUFFICES ASSUME NEW t \in D
                 PROVE  \/ \E i \in 1 .. Len(pending') : pending'[i] = t
                        \/ \A r \in SiteStreams : Global!Joined(t, r) => r \in D
      <3> HIDE DEF D
      <3> QED  BY <1>10, <1>11, <1>12 DEF FollowedInv
    <2>1. CASE t \in new  BY <1>13, <2>1
    <2>2. CASE t \in R /\ t # s
      <3>1. \/ \E i \in 1 .. Len(pending) : pending[i] = t
            \/ \A r \in SiteStreams : Global!Joined(t, r) => r \in R
        BY <1>3, <2>2 DEF FollowedInv
      <3> HIDE DEF R, D, s, new
      <3> QED  BY <1>10, <1>13, <2>2, <3>1
    <2>3. CASE t = s
      <3>1. ASSUME NEW r \in SiteStreams, Global!Joined(s, r) PROVE r \in D
        BY <3>1
      <3> QED  BY <2>3, <3>1
    <2> QED  BY <1>10, <2>1, <2>2, <2>3
  <1>17. ReachedInv'
    <2> SUFFICES ASSUME NEW part \in SUBSET SiteStreams, anchor \in part,
                        \A t \in part, r \in SiteStreams : Global!Joined(t, r) => r \in part
                 PROVE  D \subseteq part
      <3> HIDE DEF D
      <3> QED  BY <1>2, <1>11, <1>12 DEF ReachedInv
    <2>1. R \subseteq part  BY <1>3 DEF ReachedInv
    <2>2. new \subseteq part  BY <1>5, <2>1
    <2> QED  BY <2>1, <2>2
  <1>18. OutcomeInv'  BY <1>2 DEF OutcomeInv
  <1> QED  BY <1>14, <1>15, <1>16, <1>17, <1>18 DEF AlignmentInv

\* What a step does that reaches no stream.
LEMMA AlignStays ==
  ASSUME AlignmentInv, pose' = pose, joined' = joined, anchor' = anchor,
         transforms' = transforms, pending' = pending,
         outcome' \in {"joining", "aligned", "refused"}
  PROVE  AlignmentTypes' /\ MapsInv' /\ FollowedInv' /\ ReachedInv'
  <1>1. AlignmentTypes /\ MapsInv /\ FollowedInv /\ ReachedInv  BY DEF AlignmentInv
  <1>2. AlignmentTypes'  BY <1>1 DEF AlignmentTypes
  <1>3. MapsInv'
    BY <1>1 DEF MapsInv, Global!matrix_multiply, Global!invert_matrix, Global!Identity
  <1>4. FollowedInv'  BY <1>1 DEF FollowedInv, Global!Joined
  <1>5. ReachedInv'  BY <1>1 DEF ReachedInv, Global!Joined
  <1> QED  BY <1>2, <1>3, <1>4, <1>5

LEMMA AlignSettle ==
  ASSUME AlignmentInv, Global!Settle
  PROVE  AlignmentInv'
  <1>1. /\ pending = <<>> /\ pose' = pose /\ joined' = joined /\ anchor' = anchor
        /\ transforms' = transforms /\ pending' = pending
        /\ outcome' = IF DOMAIN transforms = SiteStreams THEN "aligned" ELSE "refused"
    BY DEF Global!Settle
  <1>2. outcome' \in {"joining", "aligned", "refused"}  BY <1>1
  <1>3. OutcomeInv'  BY <1>1 DEF OutcomeInv
  <1> QED  BY <1>1, <1>2, <1>3, AlignStays DEF AlignmentInv

\* One turn of the loop, or its end.
LEMMA AlignmentInductive == AlignmentInv /\ [Global!Next]_(Global!vars) => AlignmentInv'
  <1>1. ASSUME AlignmentInv, UNCHANGED Global!vars PROVE AlignmentInv'
    <2>1. /\ pose' = pose /\ joined' = joined /\ anchor' = anchor
          /\ transforms' = transforms /\ pending' = pending /\ outcome' = outcome
      BY <1>1 DEF Global!vars
    <2>2. outcome' \in {"joining", "aligned", "refused"}
      BY <1>1, <2>1 DEF AlignmentInv, AlignmentTypes
    <2>3. OutcomeInv'  BY <1>1, <2>1 DEF AlignmentInv, OutcomeInv
    <2> QED  BY <1>1, <2>1, <2>2, <2>3, AlignStays DEF AlignmentInv
  <1> QED  BY <1>1, AlignFollow, AlignSettle DEF Global!Next

LEMMA AlignmentInitially == Global!Init => AlignmentInv
  <1> SUFFICES ASSUME Global!Init PROVE AlignmentInv  OBVIOUS
  <1>1. /\ pose \in [SiteStreams -> Poses] /\ anchor \in SiteStreams
        /\ transforms = [t \in {anchor} |-> Global!Identity]
        /\ pending = <<anchor>> /\ outcome = "joining"
    BY DEF Global!Init
  <1>2. Poses \subseteq Perms
    <2>1. ASSUME NEW p \in Poses PROVE p \in Perms
      <3>1. p \in [1 .. 3 -> 1 .. 3] /\ Global!Range(p) = 1 .. 3  OBVIOUS
      <3> QED  BY <3>1 DEF Perms, Global!Range
    <2> QED  BY <2>1
  <1>3. Global!Identity \in Perms /\ \A x \in 1 .. 3 : Global!Identity[x] = x
    BY DEF Global!Identity, Perms
  <1>4. DOMAIN transforms = {anchor} /\ transforms[anchor] = Global!Identity  BY <1>1
  <1>5. AlignmentTypes
    <2>1. pose \in [SiteStreams -> Perms]  BY <1>1, <1>2
    <2>2. transforms \in [{anchor} -> Perms]
      <3> DEFINE e == Global!Identity
      <3>1. e \in Perms /\ transforms = [t \in {anchor} |-> e]  BY <1>1, <1>3
      <3> HIDE DEF e
      <3> QED  BY <3>1
    <2>3. pending \in Seq({anchor})  BY <1>1
    <2> QED  BY <1>1, <1>4, <2>1, <2>2, <2>3 DEF AlignmentTypes
  <1>6. MapsInv
    <2> DEFINE a == pose[anchor]
               ia == Global!invert_matrix(a)
               f == Global!matrix_multiply(ia, a)
               e == Global!Identity
    <2>1. a \in Perms  BY <1>1, <1>5 DEF AlignmentTypes
    <2>2. e \in Perms /\ \A x \in 1 .. 3 : e[x] = x  BY <1>3
    <2> HIDE DEF a, e
    <2>3. ia \in Perms /\ \A x \in 1 .. 3 : ia[a[x]] = x  BY <2>1, InversePerm
    <2> HIDE DEF ia
    <2>4. f \in Perms /\ \A x \in 1 .. 3 : f[x] = ia[a[x]]  BY <2>1, <2>3, ProductPerm
    <2> HIDE DEF f
    <2>5. f = e  BY <2>2, <2>3, <2>4, SamePerm
    <2> QED  BY <1>4, <2>5 DEF MapsInv, f, ia, a, e
  <1>7. FollowedInv
    <2>1. Len(pending) = 1 /\ pending[1] = anchor  BY <1>1
    <2> QED  BY <1>4, <2>1 DEF FollowedInv
  <1>8. ReachedInv /\ OutcomeInv  BY <1>1, <1>4 DEF ReachedInv, OutcomeInv
  <1> QED  BY <1>5, <1>6, <1>7, <1>8 DEF AlignmentInv

LEMMA AlignmentSafe == AlignmentInv => Global!Safety
  <1> SUFFICES ASSUME AlignmentInv PROVE Global!Safety  OBVIOUS
  <1>1. AlignmentTypes /\ MapsInv /\ FollowedInv /\ ReachedInv /\ OutcomeInv
    BY DEF AlignmentInv
  <1>2. Global!TypeOK
    <2>1. ASSUME NEW s \in DOMAIN transforms PROVE Global!Range(transforms[s]) = 1 .. 3
      <3> DEFINE p == transforms[s]
      <3>1. p \in Perms  BY <1>1 DEF AlignmentTypes
      <3> HIDE DEF p
      <3>2. Global!Range(p) = 1 .. 3  BY <3>1 DEF Perms, Global!Range
      <3> QED  BY <3>2 DEF p
    <2> QED  BY <1>1, <2>1 DEF AlignmentTypes, Global!TypeOK
  <1>3. Global!StreamsAgree
    <2> DEFINE a == pose[anchor]
               ia == Global!invert_matrix(a)
    <2>1. a \in Perms /\ ia \in Perms  BY <1>1, InversePerm DEF AlignmentTypes
    <2> HIDE DEF ia
    <2>2. ASSUME NEW s \in DOMAIN transforms
          PROVE  Global!matrix_multiply(transforms[s], Global!invert_matrix(pose[s])) = ia
      <3> DEFINE p == pose[s]
                 ip == Global!invert_matrix(p)
                 f == Global!matrix_multiply(ia, p)
                 g == Global!matrix_multiply(f, ip)
      <3>1. p \in Perms /\ transforms[s] = f  BY <1>1 DEF AlignmentTypes, MapsInv, ia
      <3> HIDE DEF p
      <3>2. ip \in Perms /\ \A x \in 1 .. 3 : p[ip[x]] = x  BY <3>1, InversePerm
      <3> HIDE DEF ip
      <3>3. f \in Perms /\ \A x \in 1 .. 3 : f[x] = ia[p[x]]  BY <2>1, <3>1, ProductPerm
      <3> HIDE DEF f
      <3>4. g \in Perms /\ \A x \in 1 .. 3 : g[x] = f[ip[x]]  BY <3>2, <3>3, ProductPerm
      <3> HIDE DEF g
      <3>5. ASSUME NEW x \in 1 .. 3 PROVE g[x] = ia[x]
        <4>1. ip[x] \in 1 .. 3  BY <3>2 DEF Perms
        <4> QED  BY <3>2, <3>3, <3>4, <4>1
      <3>6. g = ia  BY <2>1, <3>4, <3>5, SamePerm
      <3> QED  BY <3>1, <3>6 DEF g, ip, p
    <2> QED  BY <2>2 DEF Global!StreamsAgree
  <1>4. outcome = "aligned" => Global!Connected
    <2> SUFFICES ASSUME outcome = "aligned", NEW part \in SUBSET SiteStreams,
                        anchor \in part, part # SiteStreams,
                        \A s \in part, t \in SiteStreams \ part : ~ Global!Joined(s, t)
                 PROVE  FALSE
      BY DEF Global!Connected
    <2>1. DOMAIN transforms \subseteq part  BY <1>1 DEF ReachedInv
    <2>2. DOMAIN transforms = SiteStreams  BY <1>1 DEF OutcomeInv
    <2> QED  BY <2>1, <2>2
  <1>5. outcome = "refused" => ~ Global!Connected
    <2> SUFFICES ASSUME outcome = "refused", Global!Connected PROVE FALSE  OBVIOUS
    <2>1. pending = <<>> /\ DOMAIN transforms # SiteStreams /\ Len(pending) = 0
      BY <1>1 DEF OutcomeInv
    <2>2. DOMAIN transforms \in SUBSET SiteStreams /\ anchor \in DOMAIN transforms
      BY <1>1 DEF AlignmentTypes
    <2>3. PICK s \in DOMAIN transforms, t \in SiteStreams \ DOMAIN transforms :
            Global!Joined(s, t)
      BY <2>1, <2>2 DEF Global!Connected
    <2>4. ~ \E i \in 1 .. Len(pending) : pending[i] = s  BY <2>1
    <2> QED  BY <1>1, <2>3, <2>4 DEF FollowedInv
  <1>6. transforms[anchor] = Global!Identity  BY <1>1 DEF MapsInv
  <1> QED  BY <1>2, <1>3, <1>4, <1>5, <1>6 DEF Global!RefusedIfApart, Global!Safety

HIDE GlobalAssumption DEF Global!ConstantAssumption, Global!Points


\* One frame source at a time, operational homographies of their own stream, from one
\* layout and of one alignment, and one map for all streams or none: in every behaviour
\* of the composition, for any workers, captures, threads, streams and poses.
THEOREM WebSafetyHolds == MCSpec => []WebSafety
  <1>1. MCInit => ReceiverInv /\ JobsInv /\ AlignmentInv
    BY ReceiverInitially, JobsInitially, AlignmentInitially DEF MCInit
  <1>2. [Web \/ Calibrates \/ Shows \/ Tells]_allVars => [Receiver!Next]_(Receiver!vars)
    BY DEF allVars, webVars, receiverVars, Receiver!vars, Receiver!fieldVars,
           Receiver!workerVars, Receiver!historyVars, Web, Calibrates, Shows, Tells
  <1>3. [Web \/ Calibrates \/ Shows \/ Tells]_allVars => [Jobs!Next]_(Jobs!vars)
    BY DEF allVars, webVars, jobVars, Jobs!vars, Web, Calibrates, Shows, Tells
  <1>4. [Web \/ Calibrates \/ Shows \/ Tells]_allVars => [Global!Next]_(Global!vars)
    BY DEF allVars, webVars, alignmentVars, Global!vars, Web, Calibrates, Shows, Tells
  <1>5. ReceiverInv /\ JobsInv /\ AlignmentInv => WebSafety
    BY JobsSafe, AlignmentSafe DEF WebSafety, ReceiverInv
  <1> QED
    BY <1>1, <1>2, <1>3, <1>4, <1>5, ReceiverInductive, JobsInductive, AlignmentInductive,
       PTL DEF MCSpec
=============================================================================
