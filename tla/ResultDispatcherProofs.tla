----------------------- MODULE ResultDispatcherProofs -----------------------
(***************************************************************************)
(* Proofs about ResultDispatcher, for any states, queue length, period and *)
(* number of decisions and faults: the event log is a chain, the newest    *)
(* message survives back-pressure, and a stale judgment reaches the        *)
(* terminal only as one heartbeat that lost its race with a change.        *)
(***************************************************************************)
EXTENDS ResultDispatcher, TLAPS, SequenceTheorems

\* What the judgment thread knows while it is outside the lock, and what the
\* event log has seen when it is not.
JudgeInv ==
  /\ last_is_idle_ => judge = "ready" /\ decision_seq_ = 0 /\ event = NoEvent
  /\ last_.decision = decision_seq_
  /\ judge = "ready" =>
       /\ event.decision = decision_seq_
       /\ ~last_is_idle_ => event.state = last_.state
  /\ judge # "ready" =>
       /\ outbound[1].reason = "change"
       /\ outbound[1].decision = decision_seq_
       /\ outbound[1].state = last_.state
       /\ outbound[2] = event.state
       /\ outbound[2] # outbound[1].state
       /\ event.decision + 1 = decision_seq_

\* A line of messages is in order but for racing heartbeats.
InOrder(line) ==
  \A i, j \in DOMAIN line : i < j =>
    /\ line[i].reason = line[j].reason => line[i].decision <= line[j].decision
    /\ line[j].decision < line[i].decision =>
         /\ line[j].reason = "heartbeat"
         /\ \A k \in i .. j - 1 : line[k].reason = "change"

\* No message is newer than decision d.
UpTo(line, d) == \A i \in DOMAIN line : line[i].decision <= d

\* No heartbeat, and nothing before a heartbeat, is newer than decision d.
HeardUpTo(line, d) ==
  \A i, k \in DOMAIN line :
    i <= k /\ line[k].reason = "heartbeat" => line[i].decision <= d

\* The inductive invariant: nothing on the line is newer than the judgment, and
\* a heartbeat that is being sent is as new as everything that stood on the
\* line when it was copied, hence as new as every earlier heartbeat and all
\* that this heartbeat followed.
LineInv ==
  /\ InOrder(Line)
  /\ UpTo(Line, decision_seq_)
  /\ beat = "sink" =>
       /\ snapshot[1].reason = "heartbeat"
       /\ snapshot[1].decision <= decision_seq_
       /\ HeardUpTo(Line, snapshot[1].decision)

-----------------------------------------------------------------------------
(* Lines of messages                                                       *)

\* t is s without one of its elements.
Without(s, t) ==
  /\ Len(s) = Len(t) + 1
  /\ \E n \in 1 .. Len(s) : \A i \in 1 .. Len(t) : t[i] = s[IF i < n THEN i ELSE i + 1]

LEMMA WithoutKeepsOrder ==
  ASSUME NEW s \in Seq(Message), NEW t \in Seq(Message), Without(s, t)
  PROVE  /\ InOrder(s) => InOrder(t)
         /\ \A d \in Nat : UpTo(s, d) => UpTo(t, d)
         /\ \A d \in Nat : HeardUpTo(s, d) => HeardUpTo(t, d)
<1> PICK n \in 1 .. Len(s) :
      \A i \in 1 .. Len(t) : t[i] = s[IF i < n THEN i ELSE i + 1]
  BY DEF Without
<1> DEFINE at(i) == IF i < n THEN i ELSE i + 1
<1>1. /\ Len(s) \in Nat /\ Len(t) \in Nat /\ Len(s) = Len(t) + 1
      /\ DOMAIN s = 1 .. Len(s) /\ DOMAIN t = 1 .. Len(t)
  BY DEF Without
<1>2. /\ \A i \in DOMAIN t : at(i) \in DOMAIN s /\ t[i] = s[at(i)]
      /\ \A i, j \in DOMAIN t : i < j => at(i) < at(j)
      /\ \A i, j \in DOMAIN t : i <= j => at(i) <= at(j)
  BY <1>1
<1>3. ASSUME InOrder(s), NEW i \in DOMAIN t, NEW j \in DOMAIN t, i < j
      PROVE  /\ t[i].reason = t[j].reason => t[i].decision <= t[j].decision
             /\ t[j].decision < t[i].decision =>
                  /\ t[j].reason = "heartbeat"
                  /\ \A k \in i .. j - 1 : t[k].reason = "change"
  <2>1. at(i) \in DOMAIN s /\ at(j) \in DOMAIN s /\ at(i) < at(j)
    BY <1>2, <1>3
  <2>2. /\ s[at(i)].reason = s[at(j)].reason => s[at(i)].decision <= s[at(j)].decision
        /\ s[at(j)].decision < s[at(i)].decision =>
             /\ s[at(j)].reason = "heartbeat"
             /\ \A k \in at(i) .. at(j) - 1 : s[k].reason = "change"
    BY <1>3, <2>1 DEF InOrder
  <2>3. \A k \in i .. j - 1 : k \in DOMAIN t /\ at(k) \in at(i) .. at(j) - 1
    BY <1>1
  <2>4. t[i] = s[at(i)] /\ t[j] = s[at(j)]
    BY <1>2
  <2>5. ASSUME t[j].decision < t[i].decision, NEW k \in i .. j - 1
        PROVE  t[k].reason = "change"
    <3>1. t[k] = s[at(k)] /\ at(k) \in at(i) .. at(j) - 1
      BY <1>2, <2>3
    <3> HIDE DEF at
    <3> QED
      BY <2>2, <2>4, <2>5, <3>1
  <2> HIDE DEF at
  <2> QED
    BY <2>2, <2>4, <2>5
<1> HIDE DEF at
<1>4. InOrder(s) => InOrder(t)
  BY <1>3 DEF InOrder
<1>5. \A d \in Nat : UpTo(s, d) => UpTo(t, d)
  BY <1>2 DEF UpTo
<1>6. \A d \in Nat : HeardUpTo(s, d) => HeardUpTo(t, d)
  BY <1>2 DEF HeardUpTo
<1> QED
  BY <1>4, <1>5, <1>6

LEMMA FirstIsWithout ==
  ASSUME NEW S, NEW s \in Seq(S), NEW x \in S
  PROVE  <<x>> \o s \in Seq(S) /\ Without(<<x>> \o s, s)
<1>1. /\ <<x>> \in Seq(S) /\ Len(<<x>>) = 1 /\ Len(s) \in Nat
  OBVIOUS
<1>2. /\ <<x>> \o s \in Seq(S) /\ Len(<<x>> \o s) = 1 + Len(s)
      /\ \A i \in 1 .. 1 + Len(s) :
           (<<x>> \o s)[i] = IF i <= 1 THEN <<x>>[i] ELSE s[i - 1]
  BY <1>1, ConcatProperties
<1>3. ASSUME NEW i \in 1 .. Len(s)
      PROVE  s[i] = (<<x>> \o s)[IF i < 1 THEN i ELSE i + 1]
  <2>1. i + 1 \in 1 .. 1 + Len(s) /\ ~(i + 1 <= 1) /\ i + 1 - 1 = i /\ ~(i < 1)
    BY <1>1
  <2> QED
    BY <2>1, <1>2
<1> DEFINE w == <<x>> \o s
<1>4. w \in Seq(S) /\ 1 \in 1 .. Len(w) /\ Len(w) = Len(s) + 1
  BY <1>1, <1>2
<1>5. \A i \in 1 .. Len(s) : s[i] = w[IF i < 1 THEN i ELSE i + 1]
  BY <1>3
<1> HIDE DEF w
<1>6. Without(w, s)
  BY <1>4, <1>5 DEF Without
<1> QED
  BY <1>4, <1>6 DEF w

LEMMA WithoutAfter ==
  ASSUME NEW S, NEW p \in Seq(S), NEW s \in Seq(S), NEW t \in Seq(S), Without(s, t)
  PROVE  p \o s \in Seq(S) /\ p \o t \in Seq(S) /\ Without(p \o s, p \o t)
<1> PICK n \in 1 .. Len(s) :
      \A i \in 1 .. Len(t) : t[i] = s[IF i < n THEN i ELSE i + 1]
  BY DEF Without
<1>0. /\ Len(s) \in Nat /\ Len(t) \in Nat /\ Len(p) \in Nat /\ Len(s) = Len(t) + 1
  BY DEF Without
<1>1. /\ p \o s \in Seq(S) /\ p \o t \in Seq(S)
      /\ Len(p \o s) = Len(p) + Len(s) /\ Len(p \o t) = Len(p) + Len(t)
      /\ \A i \in 1 .. Len(p) + Len(s) :
           (p \o s)[i] = IF i <= Len(p) THEN p[i] ELSE s[i - Len(p)]
      /\ \A i \in 1 .. Len(p) + Len(t) :
           (p \o t)[i] = IF i <= Len(p) THEN p[i] ELSE t[i - Len(p)]
  BY ConcatProperties
<1> DEFINE m == Len(p) + n
<1>2. m \in 1 .. Len(p \o s)
  BY <1>0, <1>1
<1>3. ASSUME NEW i \in 1 .. Len(p \o t)
      PROVE  (p \o t)[i] = (p \o s)[IF i < m THEN i ELSE i + 1]
  <2>1. CASE i <= Len(p)
    <3>1. i < m /\ i \in 1 .. Len(p) + Len(s) /\ i \in 1 .. Len(p) + Len(t)
      BY <2>1, <1>0, <1>1
    <3> QED
      BY <3>1, <2>1, <1>1
  <2>2. CASE i > Len(p)
    <3> DEFINE h == i - Len(p)
    <3>1. h \in 1 .. Len(t) /\ t[h] = s[IF h < n THEN h ELSE h + 1] /\ (i < m <=> h < n)
      BY <2>2, <1>0, <1>1
    <3>2. (p \o t)[i] = t[h]
      BY <2>2, <1>0, <1>1
    <3>3. CASE h < n
      <4>1. (p \o s)[i] = s[h]
        BY <2>2, <3>3, <1>0, <1>1
      <4> QED
        BY <4>1, <3>1, <3>2, <3>3
    <3>4. CASE ~(h < n)
      <4>1. i + 1 \in 1 .. Len(p) + Len(s) /\ ~(i + 1 <= Len(p)) /\ i + 1 - Len(p) = h + 1
        BY <2>2, <1>0, <1>1
      <4>2. (p \o s)[i + 1] = s[h + 1]
        BY <4>1, <1>1
      <4> QED
        BY <4>2, <3>1, <3>2, <3>4
    <3> QED
      BY <3>3, <3>4
  <2> QED
    BY <2>1, <2>2, <1>0, <1>1
<1>4. Len(p \o s) = Len(p \o t) + 1
  BY <1>0, <1>1
<1> HIDE DEF m
<1>5. Without(p \o s, p \o t)
  BY <1>2, <1>3, <1>4 DEF Without
<1> QED
  BY <1>1, <1>5

LEMMA TailIsWithout ==
  ASSUME NEW S, NEW s \in Seq(S), s # <<>>
  PROVE  /\ Head(s) \in S /\ Tail(s) \in Seq(S) /\ s = <<Head(s)>> \o Tail(s)
         /\ Without(s, Tail(s))
<1>1. Head(s) \in S /\ Tail(s) \in Seq(S) /\ s = <<Head(s)>> \o Tail(s)
  OBVIOUS
<1>2. Without(<<Head(s)>> \o Tail(s), Tail(s))
  BY <1>1, FirstIsWithout
<1> QED
  BY <1>1, <1>2

LEMMA MessageType ==
  ASSUME NEW m \in Message
  PROVE  m.decision \in Nat /\ m.reason \in Reasons
BY ConstantAssumption DEF Message

\* A change that is as new as everything on the line is appended in order.
LEMMA AppendChange ==
  ASSUME NEW s \in Seq(Message), NEW m \in Message,
         InOrder(s), UpTo(s, m.decision), m.reason = "change"
  PROVE  /\ InOrder(Append(s, m)) /\ UpTo(Append(s, m), m.decision)
         /\ \A d \in Nat : HeardUpTo(s, d) => HeardUpTo(Append(s, m), d)
<1> DEFINE t == Append(s, m)
<1>0. /\ Len(s) \in Nat /\ DOMAIN s = 1 .. Len(s) /\ DOMAIN t = 1 .. Len(s) + 1
      /\ \A i \in 1 .. Len(s) : t[i] = s[i] /\ s[i] \in Message
      /\ t[Len(s) + 1] = m
  OBVIOUS
<1> HIDE DEF t
<1>1. /\ Len(s) \in Nat /\ DOMAIN s = 1 .. Len(s) /\ DOMAIN t = 1 .. Len(s) + 1
      /\ \A i \in 1 .. Len(s) :
           t[i] = s[i] /\ s[i].decision \in Nat /\ s[i].reason \in Reasons
      /\ t[Len(s) + 1] = m /\ m.decision \in Nat
  BY <1>0, MessageType
<1>2. InOrder(t)
  <2> SUFFICES ASSUME NEW i \in DOMAIN t, NEW j \in DOMAIN t, i < j
               PROVE  /\ t[i].reason = t[j].reason => t[i].decision <= t[j].decision
                      /\ t[j].decision < t[i].decision =>
                           /\ t[j].reason = "heartbeat"
                           /\ \A k \in i .. j - 1 : t[k].reason = "change"
    BY DEF InOrder
  <2>1. CASE j = Len(s) + 1
    BY <1>1, <2>1 DEF UpTo
  <2>2. CASE j # Len(s) + 1
    <3>1. i \in DOMAIN s /\ j \in DOMAIN s
      BY <1>1, <2>2
    <3>2. \A k \in i .. j - 1 : t[k] = s[k]
      BY <1>1, <2>2
    <3>3. t[i] = s[i] /\ t[j] = s[j]
      BY <1>1, <3>1
    <3> QED
      BY <3>1, <3>2, <3>3 DEF InOrder
  <2> QED
    BY <2>1, <2>2
<1>3. UpTo(t, m.decision)
  BY <1>1 DEF UpTo
<1>4. ASSUME NEW d \in Nat, HeardUpTo(s, d)
      PROVE  HeardUpTo(t, d)
  <2> SUFFICES ASSUME NEW i \in DOMAIN t, NEW k \in DOMAIN t,
                      i <= k, t[k].reason = "heartbeat"
               PROVE  t[i].decision <= d
    BY DEF HeardUpTo
  <2>1. k \in DOMAIN s /\ i \in DOMAIN s
    BY <1>1
  <2> QED
    BY <2>1, <1>1, <1>4 DEF HeardUpTo
<1> QED
  BY <1>2, <1>3, <1>4 DEF t

\* A heartbeat as new as every earlier one, and as all those follow, too.
LEMMA AppendHeartbeat ==
  ASSUME NEW s \in Seq(Message), NEW m \in Message,
         InOrder(s), HeardUpTo(s, m.decision), m.reason = "heartbeat"
  PROVE  /\ InOrder(Append(s, m))
         /\ \A d \in Nat : UpTo(s, d) /\ m.decision <= d => UpTo(Append(s, m), d)
<1> DEFINE t == Append(s, m)
<1>0. /\ Len(s) \in Nat /\ DOMAIN s = 1 .. Len(s) /\ DOMAIN t = 1 .. Len(s) + 1
      /\ \A i \in 1 .. Len(s) : t[i] = s[i] /\ s[i] \in Message
      /\ t[Len(s) + 1] = m
  OBVIOUS
<1> HIDE DEF t
<1>1. /\ Len(s) \in Nat /\ DOMAIN s = 1 .. Len(s) /\ DOMAIN t = 1 .. Len(s) + 1
      /\ \A i \in 1 .. Len(s) :
           t[i] = s[i] /\ s[i].decision \in Nat /\ s[i].reason \in Reasons
      /\ t[Len(s) + 1] = m /\ m.decision \in Nat
  BY <1>0, MessageType
<1>2. InOrder(t)
  <2> SUFFICES ASSUME NEW i \in DOMAIN t, NEW j \in DOMAIN t, i < j
               PROVE  /\ t[i].reason = t[j].reason => t[i].decision <= t[j].decision
                      /\ t[j].decision < t[i].decision =>
                           /\ t[j].reason = "heartbeat"
                           /\ \A k \in i .. j - 1 : t[k].reason = "change"
    BY DEF InOrder
  <2>1. CASE j = Len(s) + 1
    <3>1. i \in DOMAIN s /\ t[i] = s[i] /\ t[j] = m
      BY <1>1, <2>1
    <3>2. s[i].reason = "heartbeat" => s[i].decision <= m.decision
      BY <3>1, <1>1 DEF HeardUpTo
    <3>3. ASSUME m.decision < s[i].decision, NEW k \in i .. j - 1
          PROVE  t[k].reason = "change"
      <4>1. k \in DOMAIN s /\ i <= k /\ t[k] = s[k]
        BY <1>1, <2>1, <3>1
      <4>2. s[k].reason # "heartbeat"
        BY <4>1, <3>1, <3>3, <1>1 DEF HeardUpTo
      <4> QED
        BY <4>1, <4>2, <1>1 DEF Reasons
    <3> QED
      BY <3>1, <3>2, <3>3
  <2>2. CASE j # Len(s) + 1
    <3>1. i \in DOMAIN s /\ j \in DOMAIN s
      BY <1>1, <2>2
    <3>2. \A k \in i .. j - 1 : t[k] = s[k]
      BY <1>1, <2>2
    <3>3. t[i] = s[i] /\ t[j] = s[j]
      BY <1>1, <3>1
    <3> QED
      BY <3>1, <3>2, <3>3 DEF InOrder
  <2> QED
    BY <2>1, <2>2
<1>3. \A d \in Nat : UpTo(s, d) /\ m.decision <= d => UpTo(t, d)
  BY <1>1 DEF UpTo
<1> QED
  BY <1>2, <1>3 DEF t

\* Whatever is on the line is heard up to the newest decision.
LEMMA HeardFromUpTo ==
  ASSUME NEW s \in Seq(Message), NEW d \in Nat, UpTo(s, d)
  PROVE  HeardUpTo(s, d)
BY DEF UpTo, HeardUpTo

-----------------------------------------------------------------------------
(* Types                                                                   *)

THEOREM InitTypeOK == Init => TypeOK
BY ConstantAssumption DEF Init, TypeOK, Message, Reasons, IdleResult, NoEvent

LEMMA EnqueuedType ==
  ASSUME TypeOK, NEW m \in Message
  PROVE  /\ Enqueued(m) \in Seq(Message) /\ Len(Enqueued(m)) <= MaxQueue
         /\ Enqueued(m) # <<>> /\ Last(Enqueued(m)) = m
<1>1. queue_ \in Seq(Message) /\ Len(queue_) \in Nat /\ Len(queue_) <= MaxQueue
      /\ MaxQueue \in Nat \ {0}
  BY ConstantAssumption DEF TypeOK
<1>2. \A q \in Seq(Message) :
        /\ Append(q, m) \in Seq(Message) /\ Len(Append(q, m)) = Len(q) + 1
        /\ Append(q, m) # <<>> /\ Last(Append(q, m)) = m
  BY DEF Last
<1>3. CASE Len(queue_) >= MaxQueue
  <2>1. /\ Tail(queue_) \in Seq(Message) /\ Len(Tail(queue_)) \in Nat
        /\ Len(Tail(queue_)) + 1 <= MaxQueue
    BY <1>1, <1>3
  <2> QED
    BY <2>1, <1>2, <1>3 DEF Enqueued
<1>4. CASE ~(Len(queue_) >= MaxQueue)
  <2>1. Enqueued(m) = Append(queue_, m) /\ Len(queue_) + 1 <= MaxQueue
    BY <1>1, <1>4 DEF Enqueued
  <2> QED
    BY <2>1, <1>1, <1>2
<1> QED
  BY <1>3, <1>4

LEMMA SinkType ==
  ASSUME TypeOK, NEW m \in Message, Sink(m)
  PROVE  /\ queue_' \in Seq(Message) /\ Len(queue_') <= MaxQueue
         /\ newest' \in {<<>>} \cup {<<k>> : k \in Message}
  BY EnqueuedType DEF Sink, TypeOK, Message

LEMMA StepTypeOK == TypeOK /\ [Next]_vars => TypeOK'
<1> SUFFICES ASSUME TypeOK, [Next]_vars
             PROVE  TypeOK'
  OBVIOUS
<1> USE ConstantAssumption
<1>1. ASSUME NEW s \in States, NEW d \in Details, Submit(s, d)
      PROVE  TypeOK'
  <2>0. last_is_idle_' \in BOOLEAN
    BY <1>1, Zenon DEF Submit
  <2>1. /\ decision_seq_' \in 0 .. MaxDecisions
        /\ until_heartbeat' \in 0 .. Period
    <3>1. /\ decision_seq_ \in 0 .. MaxDecisions /\ until_heartbeat \in 0 .. Period
          /\ Period \in Nat /\ MaxDecisions \in Nat
      BY DEF TypeOK
    <3>2. CASE Changed(s)
      BY <1>1, <3>1, <3>2 DEF Submit, NextHeartbeat
    <3>3. CASE ~Changed(s)
      BY <1>1, <3>1, <3>3 DEF Submit, NextHeartbeat
    <3> QED
      BY <3>2, <3>3
  <2>2. last_' \in Message
    <3>1. last_.decision \in 0 .. MaxDecisions /\ decision_seq_ \in 0 .. MaxDecisions
      BY DEF TypeOK, Message
    <3>2. (IF Changed(s) THEN decision_seq_ + 1 ELSE last_.decision) \in 0 .. MaxDecisions
      BY <1>1, <3>1 DEF Submit
    <3> QED
      BY <1>1, <3>2 DEF Submit, Message, Reasons
  <2>3. PreviousState(s) \in States \cup {kNoPreviousRisk}
    BY DEF PreviousState, TypeOK, Message
  <2>4. /\ judge' \in {"ready", "sink", "event"}
        /\ IF judge' = "ready" THEN outbound' = <<>>
           ELSE outbound' \in Message \X (States \cup {kNoPreviousRisk})
    <3>1. CASE Changed(s)
      BY <1>1, <2>2, <2>3, <3>1 DEF Submit
    <3>2. CASE ~Changed(s)
      BY <1>1, <3>2 DEF Submit, TypeOK, judgeVars
    <3> QED
      BY <3>1, <3>2
  <2>5. /\ UNCHANGED beatVars /\ UNCHANGED publisherVars
        /\ UNCHANGED sinkVars /\ event' = event
    BY <1>1 DEF Submit
  <2> QED
    BY <2>0, <2>1, <2>2, <2>4, <2>5 DEF TypeOK, beatVars, publisherVars, sinkVars
<1>2. CASE SendChange
  <2>1. outbound[1] \in Message
    BY <1>2 DEF SendChange, TypeOK
  <2>2. Sink(outbound[1])
    BY <1>2 DEF SendChange
  <2> QED
    BY <1>2, <2>1, <2>2, SinkType
    DEF SendChange, TypeOK, dispatcherVars, beatVars, publisherVars
<1>3. CASE LogEvent
  <2>1. outbound \in Message \X (States \cup {kNoPreviousRisk})
    BY <1>3 DEF LogEvent, TypeOK
  <2>2. event' \in [state : States \cup {kNoPreviousRisk},
                    prev : States \cup {kNoPreviousRisk}, decision : 0 .. MaxDecisions]
    BY <1>3, <2>1 DEF LogEvent, Message
  <2> QED
    BY <1>3, <2>2
    DEF LogEvent, TypeOK, dispatcherVars, beatVars, publisherVars, sinkVars
<1>4. CASE Elapse
  BY <1>4 DEF Elapse, TypeOK, judgeVars, beatVars, publisherVars, sinkVars
<1>5. CASE CopyLast
  <2>1. [last_ EXCEPT !.reason = "heartbeat"] \in Message
    BY DEF TypeOK, Message, Reasons
  <2> QED
    BY <1>5, <2>1 DEF CopyLast, TypeOK, judgeVars, publisherVars, sinkVars
<1>6. CASE SendHeartbeat
  <2>1. snapshot[1] \in Message
    BY <1>6 DEF SendHeartbeat, TypeOK
  <2>2. Sink(snapshot[1])
    BY <1>6 DEF SendHeartbeat
  <2> QED
    BY <1>6, <2>1, <2>2, SinkType
    DEF SendHeartbeat, TypeOK, dispatcherVars, judgeVars, publisherVars
<1>7. CASE TakeOldest
  <2>1. /\ Head(queue_) \in Message /\ Tail(queue_) \in Seq(Message)
        /\ Len(Tail(queue_)) <= MaxQueue
    BY <1>7 DEF TakeOldest, TypeOK
  <2> QED
    BY <1>7, <2>1 DEF TakeOldest, TypeOK, dispatcherVars, judgeVars, beatVars
<1>8. CASE PublishSucceeds
  BY <1>8 DEF PublishSucceeds, TypeOK, dispatcherVars, judgeVars, beatVars, sinkVars
<1>9. CASE PublishFails
  BY <1>9 DEF PublishFails, GiveUp, TypeOK, dispatcherVars, judgeVars, beatVars
<1>10. CASE onConnectCb
  BY <1>10 DEF onConnectCb, TypeOK, dispatcherVars, judgeVars, beatVars, sinkVars
<1>11. CASE onDisconnectCb
  BY <1>11 DEF onDisconnectCb, TypeOK, dispatcherVars, judgeVars, beatVars, sinkVars
<1>12. CASE UNCHANGED vars
  BY <1>12 DEF vars, TypeOK, dispatcherVars, judgeVars, beatVars, publisherVars, sinkVars
<1> QED
  BY <1>1, <1>2, <1>3, <1>4, <1>5, <1>6, <1>7, <1>8, <1>9, <1>10, <1>11, <1>12
  DEF Next, JudgeSends, Heartbeat, Publisher

\* In every reachable state every variable has its type, and the queue holds at
\* most MaxQueue messages.
THEOREM TypeCorrect == Spec => []TypeOK
<1>1. Init => TypeOK
  BY InitTypeOK
<1> QED
  BY <1>1, StepTypeOK, PTL DEF Spec

-----------------------------------------------------------------------------
(* The event log                                                           *)

LEMMA InitJudgeInv == Init => JudgeInv
BY DEF Init, JudgeInv, IdleResult, NoEvent

LEMMA StepJudgeInv == TypeOK /\ JudgeInv /\ [Next]_vars => JudgeInv'
<1> SUFFICES ASSUME TypeOK, JudgeInv, [Next]_vars
             PROVE  JudgeInv'
  OBVIOUS
<1>1. ASSUME NEW s \in States, NEW d \in Details, Submit(s, d)
      PROVE  JudgeInv'
  <2>1. /\ judge = "ready" /\ ~last_is_idle_' /\ last_is_idle_' \in BOOLEAN
        /\ last_'.state = s /\ last_'.decision = decision_seq_' /\ event' = event
        /\ last_'.reason = "change"
    BY <1>1 DEF Submit, JudgeInv
  <2>2. CASE Changed(s)
    <3>1. /\ judge' = "sink" /\ outbound' = <<last_', PreviousState(s)>>
          /\ decision_seq_' = decision_seq_ + 1
      BY <1>1, <2>2 DEF Submit
    <3>2. PreviousState(s) = event.state /\ event.decision = decision_seq_
      BY <2>1 DEF PreviousState, JudgeInv, NoEvent
    <3>3. PreviousState(s) # s
      BY <2>2, ConstantAssumption DEF PreviousState, Changed
    <3> QED
      BY <2>1, <3>1, <3>2, <3>3 DEF JudgeInv
  <2>3. CASE ~Changed(s)
    <3>1. judge' = judge /\ decision_seq_' = decision_seq_ /\ last_.state = s /\ ~last_is_idle_
      BY <1>1, <2>3 DEF Submit, judgeVars, Changed
    <3> QED
      BY <2>1, <3>1 DEF JudgeInv
  <2> QED
    BY <2>2, <2>3
<1>2. CASE SendChange
  BY <1>2 DEF SendChange, JudgeInv, dispatcherVars
<1>3. CASE LogEvent
  BY <1>3 DEF LogEvent, JudgeInv, dispatcherVars
<1>4. CASE Elapse
  BY <1>4 DEF Elapse, JudgeInv, judgeVars
<1>5. CASE CopyLast
  BY <1>5 DEF CopyLast, JudgeInv, judgeVars
<1>6. CASE SendHeartbeat
  BY <1>6 DEF SendHeartbeat, JudgeInv, dispatcherVars, judgeVars
<1>7. CASE TakeOldest
  BY <1>7 DEF TakeOldest, JudgeInv, dispatcherVars, judgeVars
<1>8. CASE PublishSucceeds
  BY <1>8 DEF PublishSucceeds, JudgeInv, dispatcherVars, judgeVars
<1>9. CASE PublishFails
  BY <1>9 DEF PublishFails, JudgeInv, dispatcherVars, judgeVars
<1>10. CASE onConnectCb
  BY <1>10 DEF onConnectCb, JudgeInv, dispatcherVars, judgeVars
<1>11. CASE onDisconnectCb
  BY <1>11 DEF onDisconnectCb, JudgeInv, dispatcherVars, judgeVars
<1>12. CASE UNCHANGED vars
  BY <1>12 DEF vars, JudgeInv, dispatcherVars, judgeVars
<1> QED
  BY <1>1, <1>2, <1>3, <1>4, <1>5, <1>6, <1>7, <1>8, <1>9, <1>10, <1>11, <1>12
  DEF Next, JudgeSends, Heartbeat, Publisher

LEMMA StepIsChain ==
  JudgeInv /\ [Next]_vars =>
    [event' # event =>
       /\ event'.prev = event.state
       /\ event'.decision = event.decision + 1
       /\ event'.prev # event'.state]_vars
<1> SUFFICES ASSUME JudgeInv, Next, event' # event
             PROVE  /\ event'.prev = event.state
                    /\ event'.decision = event.decision + 1
                    /\ event'.prev # event'.state
  BY DEF vars
<1>1. LogEvent
  BY DEF Next, JudgeSends, Heartbeat, Publisher, Submit, SendChange, Elapse, CopyLast,
         SendHeartbeat, TakeOldest, PublishSucceeds, PublishFails, onConnectCb,
         onDisconnectCb
<1> QED
  BY <1>1 DEF LogEvent, JudgeInv

\* The event log is a chain: each row continues the one before it, and no
\* decision is missing or logged twice.
THEOREM EventLogChain == Spec => EventLogIsChain
<1>1. Init => TypeOK /\ JudgeInv
  BY InitTypeOK, InitJudgeInv
<1>2. TypeOK /\ JudgeInv /\ [Next]_vars => (TypeOK /\ JudgeInv)'
  BY StepTypeOK, StepJudgeInv
<1> QED
  BY <1>1, <1>2, StepIsChain, PTL DEF Spec, EventLogIsChain

-----------------------------------------------------------------------------
(* The newest message                                                      *)

LEMMA InitNewest == Init => NewestIsKept
BY DEF Init, NewestIsKept

LEMMA StepNewest == TypeOK /\ NewestIsKept /\ [Next]_vars => NewestIsKept'
<1> SUFFICES ASSUME TypeOK, NewestIsKept, [Next]_vars
             PROVE  NewestIsKept'
  OBVIOUS
<1>1. ASSUME NEW m \in Message, Sink(m)
      PROVE  NewestIsKept'
  BY <1>1, EnqueuedType DEF Sink, NewestIsKept
<1>2. CASE SendChange
  <2>1. outbound[1] \in Message /\ Sink(outbound[1])
    BY <1>2 DEF SendChange, TypeOK
  <2> QED
    BY <2>1, <1>1
<1>3. CASE SendHeartbeat
  <2>1. snapshot[1] \in Message /\ Sink(snapshot[1])
    BY <1>3 DEF SendHeartbeat, TypeOK
  <2> QED
    BY <2>1, <1>1
<1>4. CASE TakeOldest
  <2> SUFFICES ASSUME Tail(queue_) # <<>>
               PROVE  Last(Tail(queue_)) = Last(queue_)
    BY <1>4 DEF TakeOldest, NewestIsKept
  <2>1. /\ queue_ \in Seq(Message) /\ Len(queue_) \in Nat /\ Len(queue_) # 0
        /\ Len(Tail(queue_)) = Len(queue_) - 1 /\ Tail(queue_) \in Seq(Message)
        /\ \A i \in 1 .. Len(queue_) - 1 : Tail(queue_)[i] = queue_[i + 1]
    BY <1>4 DEF TakeOldest, TypeOK
  <2>2. Len(Tail(queue_)) # 0
    BY <2>1
  <2> QED
    BY <2>1, <2>2 DEF Last
<1>5. CASE UNCHANGED <<queue_, newest>>
  BY <1>5 DEF NewestIsKept
<1> QED
  BY <1>2, <1>3, <1>4, <1>5
  DEF Next, vars, sinkVars, JudgeSends, Heartbeat, Publisher, Submit, LogEvent, Elapse,
      CopyLast, PublishSucceeds, PublishFails, GiveUp, onConnectCb, onDisconnectCb

\* Back-pressure never costs the newest message.
THEOREM NewestKept == Spec => []NewestIsKept
<1>1. Init => TypeOK /\ NewestIsKept
  BY InitTypeOK, InitNewest
<1>2. TypeOK /\ NewestIsKept /\ [Next]_vars => (TypeOK /\ NewestIsKept)'
  BY StepTypeOK, StepNewest
<1> QED
  BY <1>1, <1>2, PTL DEF Spec

-----------------------------------------------------------------------------
(* The line to the terminal                                                *)

LEMMA AtMostOne ==
  ASSUME NEW S, NEW s \in {<<>>} \cup {<<m>> : m \in S}
  PROVE  s \in Seq(S)
<1>1. CASE s = <<>>
  BY <1>1
<1>2. CASE \E m \in S : s = <<m>>
  BY <1>2
<1> QED
  BY <1>1, <1>2

LEMMA LineType ==
  ASSUME TypeOK
  PROVE  /\ retained \in Seq(Message) /\ sending \in Seq(Message)
         /\ queue_ \in Seq(Message) /\ retained \o sending \in Seq(Message)
         /\ Line \in Seq(Message) /\ Line = (retained \o sending) \o queue_
<1>1. \A s \in {<<>>} \cup {<<m>> : m \in Message} : s \in Seq(Message)
  BY AtMostOne
<1>2. retained \in Seq(Message) /\ sending \in Seq(Message) /\ queue_ \in Seq(Message)
  BY <1>1 DEF TypeOK
<1> QED
  BY <1>2 DEF Line

LEMMA LineTypePrime ==
  ASSUME TypeOK'
  PROVE  Line' \in Seq(Message)
<1>1. \A s \in {<<>>} \cup {<<m>> : m \in Message} : s \in Seq(Message)
  BY AtMostOne
<1>2. retained' \in Seq(Message) /\ sending' \in Seq(Message) /\ queue_' \in Seq(Message)
  BY <1>1 DEF TypeOK
<1> QED
  BY <1>2 DEF Line

LEMMA SentTypes ==
  ASSUME TypeOK
  PROVE  decision_seq_ \in Nat /\ (beat = "sink" => snapshot[1].decision \in Nat)
<1>1. beat = "sink" => snapshot[1] \in Message
  BY DEF TypeOK
<1> QED
  BY <1>1, MessageType, ConstantAssumption DEF TypeOK

\* What is proved of a line stays true when an element is taken out of it.
LEMMA ThinnedLine ==
  ASSUME NEW s \in Seq(Message), NEW t \in Seq(Message), t = s \/ Without(s, t)
  PROVE  /\ InOrder(s) => InOrder(t)
         /\ \A d \in Nat : UpTo(s, d) => UpTo(t, d)
         /\ \A d \in Nat : HeardUpTo(s, d) => HeardUpTo(t, d)
BY WithoutKeepsOrder

LEMMA AppendAfter ==
  ASSUME NEW p \in Seq(Message), NEW q \in Seq(Message), NEW m \in Message
  PROVE  p \o Append(q, m) = Append(p \o q, m)
OBVIOUS

\* The sink puts a message behind the line, from which the oldest of a full
\* queue is gone.
LEMMA SinkAppends ==
  ASSUME TypeOK, NEW m \in Message, Sink(m), UNCHANGED <<retained, sending>>
  PROVE  \E s \in Seq(Message) :
           (s = Line \/ Without(Line, s)) /\ Line' = Append(s, m)
<1> DEFINE p == retained \o sending
<1>1. /\ p \in Seq(Message) /\ queue_ \in Seq(Message) /\ Line = p \o queue_
      /\ Line \in Seq(Message)
  BY LineType
<1>2. Line' = p \o Enqueued(m)
  BY DEF Sink, Line
<1> HIDE DEF p
<1>3. CASE Len(queue_) >= MaxQueue
  <2>1. queue_ # <<>>
    BY <1>1, <1>3, ConstantAssumption
  <2>2. Tail(queue_) \in Seq(Message) /\ Without(queue_, Tail(queue_))
    BY <1>1, <2>1, TailIsWithout
  <2>3. p \o Tail(queue_) \in Seq(Message) /\ Without(Line, p \o Tail(queue_))
    BY <1>1, <2>2, WithoutAfter
  <2>4. Line' = Append(p \o Tail(queue_), m)
    BY <1>1, <1>2, <1>3, <2>2, AppendAfter DEF Enqueued
  <2> QED
    BY <2>3, <2>4
<1>4. CASE ~(Len(queue_) >= MaxQueue)
  <2>1. Line' = Append(Line, m)
    BY <1>1, <1>2, <1>4, AppendAfter DEF Enqueued
  <2> QED
    BY <1>1, <2>1
<1> QED
  BY <1>3, <1>4

\* Taking the oldest message does not change the line; a message that was sent
\* replaces the retained one, and one that was not is gone.
LEMMA PublisherThinsLine ==
  ASSUME TypeOK, TakeOldest \/ PublishSucceeds \/ PublishFails
  PROVE  Line' = Line \/ Without(Line, Line')
<1>1. /\ retained \in Seq(Message) /\ sending \in Seq(Message) /\ queue_ \in Seq(Message)
      /\ Line = (retained \o sending) \o queue_
      /\ Line' = (retained' \o sending') \o queue_'
  BY LineType DEF Line
<1>2. CASE TakeOldest
  <2>1. /\ sending = <<>> /\ retained' = retained
        /\ sending' = <<Head(queue_)>> /\ queue_' = Tail(queue_)
        /\ Head(queue_) \in Message /\ Tail(queue_) \in Seq(Message)
        /\ queue_ = <<Head(queue_)>> \o Tail(queue_)
    BY <1>1, <1>2, TailIsWithout DEF TakeOldest
  <2>2. (retained \o <<Head(queue_)>>) \o Tail(queue_)
          = retained \o (<<Head(queue_)>> \o Tail(queue_))
    BY <1>1, <2>1, ConcatAssociative
  <2>3. retained \o <<>> = retained
    BY <1>1, ConcatEmptySeq
  <2> QED
    BY <1>1, <2>1, <2>2, <2>3
<1>3. CASE PublishSucceeds
  <2>1. /\ sending # <<>> /\ retained' = sending /\ sending' = <<>> /\ queue_' = queue_
    BY <1>3 DEF PublishSucceeds, sinkVars
  <2>2. Line' = sending \o queue_ /\ sending \o queue_ \in Seq(Message)
    BY <1>1, <2>1, ConcatEmptySeq
  <2>3. CASE retained = <<>>
    BY <1>1, <2>2, <2>3, ConcatEmptySeq
  <2>4. CASE retained # <<>>
    <3>1. PICK x \in Message : retained = <<x>>
      BY <2>4 DEF TypeOK
    <3>2. Line = <<x>> \o (sending \o queue_)
      BY <1>1, <3>1, ConcatAssociative
    <3> QED
      BY <2>2, <3>1, <3>2, FirstIsWithout
  <2> QED
    BY <2>3, <2>4
<1>4. CASE PublishFails
  <2>1. /\ retained' = retained /\ sending' = <<>> /\ queue_' = queue_
    BY <1>4 DEF PublishFails, GiveUp
  <2>2. PICK x \in Message : sending = <<x>>
    BY <1>4 DEF PublishFails, TypeOK
  <2>3. <<x>> \o queue_ \in Seq(Message) /\ Without(<<x>> \o queue_, queue_)
    BY <1>1, <2>2, FirstIsWithout
  <2>4. Line = retained \o (<<x>> \o queue_)
    BY <1>1, <2>2, ConcatAssociative
  <2>5. Line' = retained \o queue_
    BY <1>1, <2>1, ConcatEmptySeq
  <2>6. Without(retained \o (<<x>> \o queue_), retained \o queue_)
    BY <1>1, <2>3, WithoutAfter
  <2> QED
    BY <2>4, <2>5, <2>6
<1> QED
  BY <1>2, <1>3, <1>4

LEMMA InitLineInv == Init => LineInv
<1> SUFFICES ASSUME Init
             PROVE  LineInv
  OBVIOUS
<1>1. Line = <<>> /\ beat = "ready"
  BY DEF Init, Line
<1> QED
  BY <1>1 DEF LineInv, InOrder, UpTo, HeardUpTo

\* A message leaves the line, and nothing else that counts changes.
LEMMA ThinningKeepsLineInv ==
  ASSUME TypeOK, TypeOK', LineInv, Line' = Line \/ Without(Line, Line'),
         UNCHANGED <<decision_seq_, beat, snapshot>>
  PROVE  LineInv'
<1>1. Line \in Seq(Message) /\ Line' \in Seq(Message)
  BY LineType, LineTypePrime
<1>2. /\ InOrder(Line) => InOrder(Line')
      /\ \A d \in Nat : UpTo(Line, d) => UpTo(Line', d)
      /\ \A d \in Nat : HeardUpTo(Line, d) => HeardUpTo(Line', d)
  BY <1>1, ThinnedLine
<1>3. /\ decision_seq_ \in Nat
      /\ beat = "sink" => snapshot[1].decision \in Nat
  BY SentTypes
<1> QED
  BY <1>2, <1>3 DEF LineInv

LEMMA StepLineInv == TypeOK /\ JudgeInv /\ LineInv /\ [Next]_vars => LineInv'
<1> SUFFICES ASSUME TypeOK, JudgeInv, LineInv, [Next]_vars
             PROVE  LineInv'
  OBVIOUS
<1>0. TypeOK'
  BY StepTypeOK
<1>1. ASSUME NEW s \in States, NEW d \in Details, Submit(s, d)
      PROVE  LineInv'
  <2>1. /\ decision_seq_ \in Nat /\ decision_seq_' \in Nat /\ decision_seq_ <= decision_seq_'
        /\ beat = "sink" => snapshot[1].decision \in Nat
    <3>1. decision_seq_' = decision_seq_ \/ decision_seq_' = decision_seq_ + 1
      BY <1>1 DEF Submit
    <3> QED
      BY <3>1, SentTypes
  <2>2. UNCHANGED <<Line, beat, snapshot>>
    BY <1>1 DEF Submit, beatVars, publisherVars, sinkVars, Line
  <2>3. UpTo(Line, decision_seq_) => UpTo(Line, decision_seq_')
    <3>1. \A i \in DOMAIN Line : Line[i] \in Message
      BY LineType
    <3>2. \A i \in DOMAIN Line : Line[i].decision \in Nat
      BY <3>1, MessageType
    <3> QED
      BY <2>1, <3>2 DEF UpTo
  <2> QED
    BY <2>1, <2>2, <2>3 DEF LineInv
<1>2. CASE SendChange
  <2>1. /\ outbound[1] \in Message /\ outbound[1].reason = "change"
        /\ outbound[1].decision = decision_seq_ /\ Sink(outbound[1])
        /\ UNCHANGED <<retained, sending, decision_seq_, beat, snapshot>>
    BY <1>2 DEF SendChange, TypeOK, JudgeInv, dispatcherVars, beatVars, publisherVars
  <2>2. PICK s \in Seq(Message) :
          (s = Line \/ Without(Line, s)) /\ Line' = Append(s, outbound[1])
    BY <2>1, SinkAppends
  <2>3. /\ decision_seq_ \in Nat
        /\ beat = "sink" => snapshot[1].decision \in Nat
    BY SentTypes
  <2>4. /\ InOrder(s) /\ UpTo(s, decision_seq_)
        /\ beat = "sink" => HeardUpTo(s, snapshot[1].decision)
    <3>1. /\ InOrder(Line) => InOrder(s)
          /\ \A d \in Nat : UpTo(Line, d) => UpTo(s, d)
          /\ \A d \in Nat : HeardUpTo(Line, d) => HeardUpTo(s, d)
      BY <2>2, LineType, ThinnedLine
    <3> QED
      BY <3>1, <2>3 DEF LineInv
  <2>5. /\ InOrder(Line') /\ UpTo(Line', decision_seq_)
        /\ \A d \in Nat : HeardUpTo(s, d) => HeardUpTo(Line', d)
    BY <2>1, <2>2, <2>4, AppendChange
  <2> QED
    BY <2>1, <2>3, <2>4, <2>5 DEF LineInv
<1>3. CASE CopyLast
  <2>1. /\ snapshot'[1].reason = "heartbeat" /\ snapshot'[1].decision = decision_seq_
        /\ UNCHANGED <<Line, decision_seq_>>
    BY <1>3 DEF CopyLast, TypeOK, Message, JudgeInv, publisherVars, sinkVars, Line
  <2>2. decision_seq_ \in Nat
    BY SentTypes
  <2>3. HeardUpTo(Line, decision_seq_)
    BY <2>2, LineType, HeardFromUpTo DEF LineInv
  <2> QED
    BY <2>1, <2>2, <2>3 DEF LineInv
<1>4. CASE SendHeartbeat
  <2>1. /\ beat = "sink" /\ beat' = "ready" /\ snapshot[1] \in Message
        /\ snapshot[1].reason = "heartbeat" /\ Sink(snapshot[1])
        /\ snapshot[1].decision <= decision_seq_
        /\ UNCHANGED <<retained, sending, decision_seq_>>
    BY <1>4 DEF SendHeartbeat, TypeOK, LineInv, dispatcherVars, publisherVars
  <2>2. PICK s \in Seq(Message) :
          (s = Line \/ Without(Line, s)) /\ Line' = Append(s, snapshot[1])
    BY <2>1, SinkAppends
  <2>3. decision_seq_ \in Nat /\ snapshot[1].decision \in Nat
    BY <2>1, SentTypes
  <2>4. InOrder(s) /\ UpTo(s, decision_seq_) /\ HeardUpTo(s, snapshot[1].decision)
    <3>1. /\ InOrder(Line) => InOrder(s)
          /\ \A d \in Nat : UpTo(Line, d) => UpTo(s, d)
          /\ \A d \in Nat : HeardUpTo(Line, d) => HeardUpTo(s, d)
      BY <2>2, LineType, ThinnedLine
    <3> QED
      BY <2>1, <3>1, <2>3 DEF LineInv
  <2>5. InOrder(Line') /\ UpTo(Line', decision_seq_)
    BY <2>1, <2>2, <2>3, <2>4, AppendHeartbeat
  <2> QED
    BY <2>1, <2>5 DEF LineInv
<1>5. CASE TakeOldest \/ PublishSucceeds \/ PublishFails
  <2>1. UNCHANGED <<decision_seq_, beat, snapshot>>
    BY <1>5 DEF TakeOldest, PublishSucceeds, PublishFails, dispatcherVars, beatVars
  <2> QED
    BY <1>0, <1>5, <2>1, PublisherThinsLine, ThinningKeepsLineInv
<1>6. CASE LogEvent \/ Elapse \/ onConnectCb \/ onDisconnectCb \/ UNCHANGED vars
  <2>1. UNCHANGED <<Line, decision_seq_, beat, snapshot>>
    BY <1>6 DEF LogEvent, Elapse, onConnectCb, onDisconnectCb, vars, dispatcherVars,
                beatVars, publisherVars, sinkVars, Line
  <2> QED
    BY <2>1 DEF LineInv
<1> QED
  BY <1>1, <1>2, <1>3, <1>4, <1>5, <1>6 DEF Next, JudgeSends, Heartbeat, Publisher

\* What the terminal is shown goes back to an older decision only by a heartbeat
\* that was copied before the change it follows.
THEOREM StaleOnlyRacing == Spec => []StaleOnlyByRacingHeartbeat
<1> DEFINE Inv == TypeOK /\ JudgeInv /\ LineInv
<1>1. Init => Inv
  BY InitTypeOK, InitJudgeInv, InitLineInv
<1>2. Inv /\ [Next]_vars => Inv'
  BY StepTypeOK, StepJudgeInv, StepLineInv
<1>3. Inv => StaleOnlyByRacingHeartbeat
  BY DEF LineInv, InOrder, StaleOnlyByRacingHeartbeat
<1> HIDE DEF Inv
<1> QED
  BY <1>1, <1>2, <1>3, PTL DEF Spec

\* The invariants of the module together, as its run checks them.
THEOREM SafetyHolds == Spec => []Safety
<1> QED BY TypeCorrect, StaleOnlyRacing, NewestKept, PTL DEF Safety
=============================================================================
