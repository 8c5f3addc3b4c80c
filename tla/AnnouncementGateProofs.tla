----------------------- MODULE AnnouncementGateProofs -----------------------
(***************************************************************************)
(* Proofs about the announcement gate, for every pair of confirmation      *)
(* times and every spacing of the judgments; about the server loop that    *)
(* feeds it, for every number of streams and every capacity of its queue;  *)
(* and about the radio link of the cutoff relay, for every length of a     *)
(* frame, heartbeat, watchdog, tick modulus and depth of the radio.        *)
(***************************************************************************)
EXTENDS MCAnnouncementGate, Sequences, FiniteSetTheorems, TLAPS

\* What was announced last is what was published; the level being confirmed is
\* the one judged last, and its age is how long the judgments have had it.
PublishedIsAnnounced ==
  /\ has_published_ <=> ~new_stream
  /\ has_published_ =>
       announced.risk = published_risk_ /\ pending_risk_ = judged_risk
  /\ has_published_ /\ judged_risk # published_risk_ => pending_age = judged_age

\* The published pair never is an alarm at SAFE.
PublishedIsSafe ==
  /\ published_risk_ = SAFE => published_exception_ = "NONE"
  /\ published_exception_ # "DEAD_RECKONING"

\* The inductive invariant.
IInv ==
  /\ TypeOK
  /\ PublishedIsAnnounced
  /\ PublishedIsSafe
  /\ SafeShowsNoAlarm
  /\ AnnouncedWhenConfirmed

USE DEF SAFE, CAUTION, DANGER, EMERGENCY, RiskLevel

-----------------------------------------------------------------------------
(* Operators                                                               *)

LEMMA HorizonNat == Horizon \in Nat /\ RiseConfirm <= Horizon /\ FallConfirm <= Horizon
BY ConfirmAssumption DEF Horizon

LEMMA LaterType ==
  ASSUME NEW age \in 0 .. Horizon, NEW gap \in Gaps
  PROVE  Later(age, gap) \in 0 .. Horizon
BY ConfirmAssumption, HorizonNat DEF Later

\* What may be announced: never a lost position, and no alarm at SAFE.
Announceable ==
  {j \in [final_risk : RiskLevel, exception : ExceptionState, measured : BOOLEAN] :
     /\ j.exception # "DEAD_RECKONING"
     /\ j.final_risk = SAFE => j.exception = "NONE"}

LEMMA SanitizedIsAnnounceable ==
  ASSUME NEW judgment \in Judgments
  PROVE  Sanitized(judgment) \in Announceable
BY DEF Judgments, Sanitized, ExceptionState, Announceable

-----------------------------------------------------------------------------
(* The invariant                                                           *)

LEMMA InitIInv == Init => IInv
<1> SUFFICES ASSUME Init PROVE IInv
  OBVIOUS
<1>1. TypeOK
  <2>1. pending_age \in 0 .. Horizon /\ judged_age \in 0 .. Horizon
    BY HorizonNat DEF Init
  <2>2. announced \in [risk : RiskLevel, exception : ExceptionState]
    BY DEF Init, ExceptionState
  <2> QED BY <2>1, <2>2 DEF Init, TypeOK, ExceptionState
<1>2. PublishedIsAnnounced /\ PublishedIsSafe /\ SafeShowsNoAlarm
  BY DEF Init, PublishedIsAnnounced, PublishedIsSafe, SafeShowsNoAlarm
<1>3. AnnouncedWhenConfirmed
  BY DEF Init, AnnouncedWhenConfirmed
<1> QED BY <1>1, <1>2, <1>3 DEF IInv

\* What one judgment does, whichever of the three branches it takes.
LEMMA ApplyFacts ==
  ASSUME IInv, NEW j \in Announceable, NEW gap \in Gaps,
         Announce(j, gap)
  PROVE  /\ has_published_' /\ ~new_stream'
         /\ has_published_' \in BOOLEAN /\ new_stream' \in BOOLEAN
         /\ pending_risk_' = j.final_risk /\ judged_risk' = j.final_risk
         /\ pending_age' \in 0 .. Horizon /\ judged_age' \in 0 .. Horizon
         /\ \/ /\ published_risk_' = j.final_risk
               /\ published_exception_' = j.exception
               /\ announced' = [risk |-> j.final_risk, exception |-> j.exception]
            \/ /\ has_published_
               /\ published_risk_' = published_risk_
               /\ published_exception_' = published_exception_
               /\ announced' = [risk |-> published_risk_,
                                exception |-> holdException(j.exception)]
<1>1. /\ judged_risk' = j.final_risk
      /\ ~new_stream' /\ new_stream' \in BOOLEAN
      /\ judged_age' \in 0 .. Horizon
  <2>1. judged_risk' = j.final_risk /\ ~new_stream' /\ new_stream' \in BOOLEAN
    BY DEF Announce, Observe
  <2>2. judged_age' = Later(judged_age, gap) \/ judged_age' = 0
    BY DEF Announce, Observe
  <2>3. judged_age' \in 0 .. Horizon
    BY <2>2, LaterType, HorizonNat DEF IInv, TypeOK
  <2> QED BY <2>1, <2>3
<1>2. PendingAge(j.final_risk, gap) \in 0 .. Horizon
  BY LaterType, HorizonNat DEF PendingAge, IInv, TypeOK
<1>3. pending_age' \in 0 .. Horizon
  BY <1>2, LaterType, HorizonNat
     DEF Announce, First, SameLevel, OtherLevel, IInv, TypeOK
<1>4. CASE First(j, gap)
  BY <1>1, <1>3, <1>4 DEF First, Publish
<1>5. CASE SameLevel(j)
  BY <1>1, <1>3, <1>5 DEF SameLevel, Hold, IInv, TypeOK
<1>6. CASE OtherLevel(j, gap)
  BY <1>1, <1>3, <1>6 DEF OtherLevel, Publish, Hold, IInv, TypeOK
<1> QED BY <1>4, <1>5, <1>6 DEF Announce

LEMMA ApplyTypeOK ==
  ASSUME IInv, NEW j \in Announceable, NEW gap \in Gaps,
         Announce(j, gap)
  PROVE  TypeOK' /\ PublishedIsSafe' /\ SafeShowsNoAlarm'
<1>1. j.final_risk \in RiskLevel /\ j.exception \in ExceptionState
  BY DEF Announceable
<1>2. /\ published_risk_' \in RiskLevel
      /\ published_exception_' \in ExceptionState
      /\ announced' \in [risk : RiskLevel, exception : ExceptionState]
  BY <1>1, ApplyFacts DEF IInv, TypeOK, holdException
<1>3. TypeOK'
  BY <1>1, <1>2, ApplyFacts DEF TypeOK
<1>4. PublishedIsSafe'
  BY ApplyFacts DEF IInv, PublishedIsSafe, Announceable
<1>5. SafeShowsNoAlarm'
  BY ApplyFacts DEF IInv, PublishedIsSafe, SafeShowsNoAlarm, holdException,
                    Announceable
<1> QED BY <1>3, <1>4, <1>5

LEMMA ApplyAnnounced ==
  ASSUME IInv, NEW j \in Announceable, NEW gap \in Gaps,
         Announce(j, gap)
  PROVE  PublishedIsAnnounced' /\ AnnouncedWhenConfirmed'
<1> j.final_risk \in RiskLevel
  BY DEF Announceable
<1>1. /\ has_published_' <=> ~new_stream'
      /\ announced'.risk = published_risk_' /\ pending_risk_' = judged_risk'
  BY ApplyFacts
<1>2. CASE First(j, gap)
  BY <1>1, <1>2 DEF First, Publish, Announce, Observe, PublishedIsAnnounced,
                    AnnouncedWhenConfirmed, IInv, TypeOK
<1>3. CASE SameLevel(j)
  BY <1>1, <1>3 DEF SameLevel, Hold, Announce, Observe, PublishedIsAnnounced,
                    AnnouncedWhenConfirmed, IInv, TypeOK
<1>4. CASE OtherLevel(j, gap)
  <2>1. judged_risk' = j.final_risk /\ pending_age' = PendingAge(j.final_risk, gap)
    BY <1>4 DEF OtherLevel, Announce, Observe
  <2>2. pending_age' = judged_age'
    BY <1>4, <2>1 DEF OtherLevel, PendingAge, Announce, Observe, IInv,
                      PublishedIsAnnounced
  <2>3. pending_age' \in Nat
    BY ApplyFacts, HorizonNat
  <2>4. CASE PendingAge(j.final_risk, gap) < ConfirmTime(j.final_risk)
    <3>1. published_risk_' = published_risk_
      BY <1>4, <2>4 DEF OtherLevel, Hold
    <3>2. judged_age' < ConfirmTime(j.final_risk)
      BY <2>1, <2>2, <2>4
    <3>3. published_risk_ \in RiskLevel /\ j.final_risk # published_risk_
      BY <1>4 DEF OtherLevel, IInv, TypeOK
    <3>4. j.final_risk # EMERGENCY
      BY <2>2, <2>3, <3>2 DEF ConfirmTime
    <3> QED
      BY <1>1, <2>1, <2>2, <3>1, <3>2, <3>3, <3>4
         DEF ConfirmTime, PublishedIsAnnounced, AnnouncedWhenConfirmed
  <2>5. CASE ~(PendingAge(j.final_risk, gap) < ConfirmTime(j.final_risk))
    <3>1. published_risk_' = j.final_risk
      BY <1>4, <2>5 DEF OtherLevel, Publish
    <3> QED
      BY <1>1, <2>1, <2>2, <3>1 DEF PublishedIsAnnounced, AnnouncedWhenConfirmed
  <2> QED BY <2>4, <2>5
<1> QED BY <1>2, <1>3, <1>4 DEF Announce

LEMMA NextIInv == IInv /\ [Next]_vars => IInv'
<1> SUFFICES ASSUME IInv, [Next]_vars PROVE IInv'
  OBVIOUS
<1>1. ASSUME NEW j \in Judgments, NEW gap \in Gaps, apply(j, gap)
      PROVE  IInv'
  BY <1>1, SanitizedIsAnnounceable, ApplyTypeOK, ApplyAnnounced DEF IInv, apply
<1>2. CASE reset
  <2>1. /\ ~has_published_' /\ has_published_' \in BOOLEAN
        /\ new_stream' /\ new_stream' \in BOOLEAN
    BY <1>2 DEF reset, ForgetPublished
  <2>2. /\ published_risk_' = SAFE /\ published_exception_' = "NONE"
        /\ pending_risk_' = SAFE /\ pending_age' = Horizon
        /\ UNCHANGED <<announced, judged_risk, judged_age>>
    BY <1>2 DEF reset, ForgetPublished
  <2>3. TypeOK' /\ PublishedIsSafe'
    BY <2>1, <2>2, HorizonNat
       DEF IInv, TypeOK, PublishedIsSafe, ExceptionState
  <2>4. PublishedIsAnnounced' /\ AnnouncedWhenConfirmed' /\ SafeShowsNoAlarm'
    BY <2>1, <2>2
       DEF IInv, PublishedIsAnnounced, SafeShowsNoAlarm, AnnouncedWhenConfirmed
  <2> QED BY <2>3, <2>4 DEF IInv
<1>3. CASE UNCHANGED vars
  BY <1>3 DEF vars, gateVars, IInv, TypeOK, PublishedIsAnnounced,
              PublishedIsSafe, SafeShowsNoAlarm, AnnouncedWhenConfirmed
<1> QED BY <1>1, <1>2, <1>3 DEF Next

\* The gate's memory and what it announced agree in every reachable state.
THEOREM InductiveInvariant == Spec => []IInv
BY InitIInv, NextIInv, PTL DEF Spec

\* Every member keeps its type.
THEOREM TypeCorrect == Spec => []TypeOK
<1>1. IInv => TypeOK BY DEF IInv
<1> QED BY InductiveInvariant, <1>1, PTL

\* A level kept for its confirmation time is announced, EMERGENCY at once.
THEOREM ConfirmedIsAnnounced == Spec => []AnnouncedWhenConfirmed
<1>1. IInv => AnnouncedWhenConfirmed BY DEF IInv
<1> QED BY InductiveInvariant, <1>1, PTL

\* No alarm is announced together with SAFE, and no lost position ever.
THEOREM NoAlarmAtSafe == Spec => []SafeShowsNoAlarm
<1>1. IInv => SafeShowsNoAlarm BY DEF IInv
<1> QED BY InductiveInvariant, <1>1, PTL

-----------------------------------------------------------------------------
(* What a step may announce                                                *)

\* Only a judgment ends the state in which the stream is new, and only a
\* judgment announces something.
LEMMA OnlyJudgmentsAnnounce ==
  ASSUME [Next]_vars,
         ~ \E j \in Judgments, gap \in Gaps : apply(j, gap)
  PROVE  announced' = announced /\ (new_stream => new_stream')
BY DEF Next, reset, vars

\* A judgment that changes the announced level was confirmed.
LEMMA ChangeIsConfirmed ==
  ASSUME IInv, [Next]_vars, ~new_stream, announced'.risk # announced.risk
  PROVE  /\ judged_risk' = announced'.risk
         /\ judged_age' >= ConfirmTime(announced'.risk)
         /\ announced.risk = published_risk_
<1>1. PICK j \in Announceable, gap \in Gaps : Announce(j, gap)
  <2>1. announced' # announced
    OBVIOUS
  <2>2. PICK judgment \in Judgments, gap \in Gaps : apply(judgment, gap)
    BY <2>1, OnlyJudgmentsAnnounce
  <2> QED BY <2>2, SanitizedIsAnnounceable DEF apply
<1>2. announced.risk = published_risk_ /\ has_published_
  BY DEF IInv, PublishedIsAnnounced
<1>3. ~Hold(j)
  <2>1. Hold(j) => announced'.risk = published_risk_
    BY DEF Hold
  <2> QED BY <1>2, <2>1
<1>4. OtherLevel(j, gap)
  BY <1>1, <1>2, <1>3 DEF Announce, First, SameLevel
<1>5. /\ announced'.risk = j.final_risk /\ judged_risk' = j.final_risk
      /\ ~(PendingAge(j.final_risk, gap) < ConfirmTime(j.final_risk))
  <2>1. Publish(j) => announced'.risk = j.final_risk
    BY DEF Publish
  <2>2. judged_risk' = j.final_risk
    BY <1>1 DEF Announce, Observe
  <2> QED BY <1>3, <1>4, <2>1, <2>2 DEF OtherLevel
<1>6. judged_age' = PendingAge(j.final_risk, gap)
  BY <1>1, <1>2, <1>4
     DEF OtherLevel, PendingAge, Announce, Observe, IInv, PublishedIsAnnounced
<1>7. ConfirmTime(j.final_risk) \in Int /\ judged_age' \in Int
  BY <1>1, ApplyFacts, ConfirmAssumption, HorizonNat DEF ConfirmTime
<1> QED BY <1>2, <1>6, <1>7, <1>5

\* Within a stream, the announced level changes only to a confirmed one.
THEOREM ChangesAreConfirmed == Spec => ChangedOnlyWhenConfirmed
<1> DEFINE A ==
      ~new_stream /\ ~new_stream' =>
        /\ announced'.risk > announced.risk /\ announced'.risk # EMERGENCY
             => judged_risk' = announced'.risk /\ judged_age' >= RiseConfirm
        /\ announced'.risk < announced.risk
             => judged_risk' = announced'.risk /\ judged_age' >= FallConfirm
<1>1. IInv /\ [Next]_vars => [A]_vars
  <2> SUFFICES ASSUME IInv, [Next]_vars, ~new_stream, ~new_stream'
               PROVE  A
    OBVIOUS
  <2>1. announced.risk \in RiskLevel /\ announced'.risk \in RiskLevel
    BY NextIInv DEF IInv, TypeOK
  <2>2. CASE announced'.risk = announced.risk
    BY <2>1, <2>2
  <2>3. CASE announced'.risk # announced.risk
    <3>1. /\ judged_risk' = announced'.risk
          /\ judged_age' >= ConfirmTime(announced'.risk)
          /\ announced.risk = published_risk_
      BY <2>3, ChangeIsConfirmed
    <3>2. announced'.risk > announced.risk /\ announced'.risk # EMERGENCY
            => ConfirmTime(announced'.risk) = RiseConfirm
      BY <3>1 DEF ConfirmTime
    <3>3. announced'.risk < announced.risk
            => ConfirmTime(announced'.risk) = FallConfirm
      BY <2>1, <3>1 DEF ConfirmTime
    <3> QED BY <3>1, <3>2, <3>3
  <2> QED BY <2>2, <2>3
<1> QED BY InductiveInvariant, <1>1, PTL DEF Spec, ChangedOnlyWhenConfirmed

\* The first judgment of a stream is announced as it is.
THEOREM NewStreamIsHeard == Spec => NewStreamIsAnnouncedAtOnce
<1> DEFINE A == new_stream /\ ~new_stream' => announced'.risk = judged_risk'
<1>1. IInv /\ [Next]_vars => [A]_vars
  <2> SUFFICES ASSUME IInv, [Next]_vars, new_stream, ~new_stream'
               PROVE  announced'.risk = judged_risk'
    OBVIOUS
  <2>1. PICK j \in Announceable, gap \in Gaps : Announce(j, gap)
    BY OnlyJudgmentsAnnounce, SanitizedIsAnnounceable DEF apply
  <2>2. ~has_published_
    BY DEF IInv, PublishedIsAnnounced
  <2> QED BY <2>1, <2>2, ApplyFacts
<1> QED BY InductiveInvariant, <1>1, PTL DEF Spec, NewStreamIsAnnouncedAtOnce

\* The invariants of the module together, as its run checks them.
THEOREM SafetyHolds == Spec => []Safety
<1> QED BY TypeCorrect, ConfirmedIsAnnounced, NoAlarmAtSafe, PTL DEF Safety

-----------------------------------------------------------------------------
(* The server loop                                                         *)

\* What the server's threads may be doing.
ServerThreads ==
  /\ queue \in Seq(Server!Kinds) /\ Len(queue) <= Capacity
  /\ dropped \in Nat /\ enqueued \in Nat /\ Len(queue) + dropped <= enqueued
  /\ process \in Server!Kinds \cup {"off", "ready", "decided", "waiting", "exited"}
  /\ stopper \in {"starting", "idle", "workers", "join", "services", "done"}

\* Services run from before the judging thread does until after it has been
\* joined, and both threads that are joined have left for good.
ServerOrder ==
  /\ stopper = "starting" => process = "off"
  /\ stopper \in {"idle", "workers", "join"} => services = Server!AllServices
  /\ stopper \in {"services", "done"} =>
       process = "exited" /\ ticker = "exited" /\ status_file = "offline"

ServerInv == ServerThreads /\ ServerOrder

LEMMA ServerInit == Server!Init => ServerInv
BY ServerAssumption DEF Server!ConstantAssumption, Server!Init, ServerInv, ServerThreads, ServerOrder, Server!Kinds

LEMMA EnqueueInv ==
  ASSUME ServerInv, NEW kind \in Server!Kinds, Server!Enqueue(kind)
  PROVE  /\ queue' \in Seq(Server!Kinds) /\ Len(queue') <= Capacity
         /\ dropped' \in Nat /\ enqueued' \in Nat
         /\ Len(queue') + dropped' <= enqueued'
<1>1. CASE Len(queue) >= Capacity
  <2>1. queue # <<>> BY <1>1, ServerAssumption DEF Server!ConstantAssumption
  <2>2. Tail(queue) \in Seq(Server!Kinds) /\ Len(Tail(queue)) = Len(queue) - 1
    BY <2>1 DEF ServerInv, ServerThreads
  <2> QED BY <1>1, <2>2 DEF Server!Enqueue, Server!Room, ServerInv, ServerThreads
<1>2. CASE ~(Len(queue) >= Capacity)
  BY <1>2, ServerAssumption DEF Server!ConstantAssumption, Server!Enqueue, Server!Room, ServerInv, ServerThreads
<1> QED BY <1>1, <1>2

LEMMA ServerStep == ServerInv /\ [Server!Next]_serverVars => ServerInv'
<1> SUFFICES ASSUME ServerInv, [Server!Next]_serverVars
             PROVE  ServerInv'
  OBVIOUS
<1> USE DEF ServerInv, ServerThreads, ServerOrder
<1>1. CASE Server!WaitPop
  <2>1. /\ queue' \in Seq(Server!Kinds) /\ Len(queue') <= Len(queue)
        /\ process' \in Server!Kinds \cup {"decided", "exited"}
        /\ Len(queue') \in Nat /\ Len(queue) \in Nat
    BY <1>1 DEF Server!WaitPop
  <2>2. process = "ready" /\ UNCHANGED <<dropped, enqueued, stopper, services, ticker, status_file>>
    BY <1>1 DEF Server!WaitPop
  <2>3. Capacity \in Nat
    BY ServerAssumption DEF Server!ConstantAssumption
  <2> QED BY <2>1, <2>2, <2>3
<1>2. CASE Server!Wait \/ Server!Wake \/ Server!Process
  BY <1>2 DEF Server!Wait, Server!Wake, Server!Process, Server!Kinds
<1>3. ASSUME NEW s \in Streams, Server!HandleXml(s)
      PROVE  ServerInv'
  <2>1. PICK kind \in {"object", "aruco"} : Server!Enqueue(kind)
    BY <1>3 DEF Server!HandleXml
  <2> QED BY <1>3, <2>1, EnqueueInv DEF Server!HandleXml, Server!Kinds
<1>4. CASE Server!TickerLooks
  BY <1>4 DEF Server!TickerLooks
<1>5. CASE Server!TickerActs
  <2>1. CASE Server!Enqueue("tick")
    BY <1>5, <2>1, EnqueueInv DEF Server!TickerActs, Server!Kinds, Server!WriteRuntimeStatus
  <2>2. CASE ~Server!Enqueue("tick")
    BY <1>5, <2>2 DEF Server!TickerActs, Server!WriteRuntimeStatus
  <2> QED BY <2>1, <2>2
<1>6. CASE Server!Start
  BY <1>6 DEF Server!Start, Server!AllServices
<1>7. ASSUME NEW s \in Streams, Server!StartWorker(s) \/ Server!StopWorker(s)
      PROVE  ServerInv'
  BY <1>7 DEF Server!StartWorker, Server!StopWorker
<1>8. CASE Server!StopBegins \/ Server!NotifyAll
  BY <1>8 DEF Server!StopBegins, Server!NotifyAll
<1>9. CASE Server!StopJoins
  BY <1>9 DEF Server!StopJoins, Server!Joined, Server!WriteRuntimeStatus
<1>10. CASE Server!StopServices
  BY <1>10 DEF Server!StopServices
<1>11. CASE UNCHANGED serverVars
  BY <1>11 DEF serverVars
<1> QED
  BY <1>1, <1>2, <1>3, <1>4, <1>5, <1>6, <1>7, <1>8, <1>9, <1>10, <1>11
  DEF Server!Next, Server!ProcessStep, Server!StopStep, Server!Done, Server!vars, serverVars

LEMMA ServerInvSafe == ServerInv => Server!Safety
<1> SUFFICES ASSUME ServerInv PROVE Server!Safety
  OBVIOUS
<1> USE DEF ServerInv, ServerThreads, ServerOrder
<1>1. Server!TypeOK
  BY DEF Server!TypeOK
<1>2. Server!ServicesOutliveJudging
  <2>1. ASSUME process \in Server!Kinds PROVE services = Server!AllServices
    BY <2>1 DEF Server!Kinds
  <2> QED BY <2>1 DEF Server!ServicesOutliveJudging
<1>3. Server!StoppedIsOffline
  BY DEF Server!StoppedIsOffline
<1> QED BY <1>1, <1>2, <1>3 DEF Server!Safety

\* The queue is bounded and counts what it drops, the services outlive the
\* judging that uses them, a stopped server says so in its status file.
THEOREM ServerSafetyHolds == MCSpec => []ServerSafety
<1>1. MCInit => ServerInv
  BY ServerInit DEF MCInit
<1>2. ServerInv /\ [Announces \/ Serves(Server!Next) \/ Cuts]_allVars => ServerInv'
  BY ServerStep DEF Announces, Serves, Cuts, allVars, serverVars
<1>3. ServerInv => ServerSafety
  BY ServerInvSafe DEF ServerSafety
<1> QED BY <1>1, <1>2, <1>3, PTL DEF MCSpec

-----------------------------------------------------------------------------
(* The radio link of the cutoff relay                                      *)

\* What has arrived at the relay, or else when something will, if nothing is lost.
Larger(a, b) == IF a > b THEN a ELSE b

DueOf(arrived, doing, waited, since, ready) ==
  IF arrived THEN 0
  ELSE IF doing = "air" THEN 1 - waited
  ELSE IF doing \in {"load", "checksum"} THEN 1
  ELSE IF doing = "wait" /\ ready THEN 2 - waited
  ELSE IF doing = "wait" THEN Larger(Heartbeat - since, 1 - waited) + 1
  ELSE IF ready THEN 1
  ELSE Heartbeat - since + 1

Due == DueOf(fifo # <<>>, sender, blocked, since_frame, s_frame_ready)

Linked == got_first_frame /\ ~wrapped /\ elapsed + Due <= Heartbeat + 1

RelayFlags ==
  /\ cutoff \in BOOLEAN /\ looked \in BOOLEAN /\ overwritten \in BOOLEAN
  /\ s_frame_ready \in BOOLEAN /\ s_frame_ready_copy \in BOOLEAN
  /\ got_first_frame \in BOOLEAN /\ cutoff_bit_cached \in BOOLEAN
  /\ wrapped \in BOOLEAN

RelayTypes ==
  /\ RelayFlags
  /\ since_frame \in 0 .. Heartbeat /\ s_frame_idx \in 0 .. FrameLen - 1
  /\ sender \in {"idle", "load", "checksum", "air", "wait"}
  /\ payload \in [cut : BOOLEAN, valid : BOOLEAN]
  /\ blocked \in 0 .. 1
  /\ fifo \in Seq([cut : BOOLEAN, valid : BOOLEAN]) /\ Len(fifo) <= FifoDepth
  /\ elapsed \in 0 .. TickModulus - 1
  /\ watch \in {"cutoff", "calm"}
  /\ timer \in Nat
  /\ watch = "calm" => timer <= 3 * Heartbeat + 3
  /\ watch = "cutoff" => timer <= Watchdog + 2
  /\ watch = "cutoff" /\ ~cutoff => timer = 0

\* While the timer counts, what still carries the other level is at most as old
\* as the way it has come.
Stale ==
  watch = "calm" \/ cutoff =>
  /\ s_frame_ready /\ s_frame_ready_copy # cutoff =>
       timer <= IF sender \in {"load", "checksum"} THEN 0
                ELSE IF sender \in {"air", "wait"} THEN blocked ELSE 1
  /\ sender = "load" /\ s_frame_ready_copy # cutoff => timer <= 1
  /\ sender = "checksum" /\ payload.cut # cutoff => timer <= 1
  /\ sender = "air" /\ payload.cut # cutoff => timer <= 1 + blocked
  /\ \A i \in 1 .. Len(fifo) : fifo[i].cut # cutoff => timer <= 2
  /\ got_first_frame /\ cutoff_bit_cached # cutoff /\ ~wrapped => timer <= elapsed + 2

\* So is a damaged payload, ...
Damaged ==
  watch = "calm" =>
  /\ sender = "air" /\ ~payload.valid => timer <= blocked
  /\ \A i \in 1 .. Len(fifo) : ~fifo[i].valid => timer <= 1

\* ... and when nothing is lost, the assembly finds a header after two frames,
\* and from then on a frame is under way.
Searching == timer <= (IF looked THEN Heartbeat ELSE 0) + since_frame

OnTime == timer + Due <= 3 * Heartbeat + 2

Progress ==
  watch = "calm" =>
  /\ s_frame_idx > 0 => Searching
  /\ s_frame_idx = 0 => Linked \/ OnTime

RelayInv == RelayTypes /\ Stale /\ Damaged /\ Progress

LEMMA RelayConstants ==
  /\ FrameLen \in Nat /\ FrameLen > 2 /\ Heartbeat \in Nat /\ Heartbeat >= 1
  /\ FifoDepth \in Nat /\ FifoDepth >= 1
  /\ Watchdog \in Int /\ Watchdog >= Heartbeat + 2 /\ TickModulus \in Int
  /\ TickModulus > Watchdog
BY RelayAssumption DEF Relay!ConstantAssumption, Relay!Transit

LEMMA RelayCardinality == \A S : Relay!Cardinality(S) = Cardinality(S)
BY DEF Relay!Cardinality, Cardinality

LEMMA AssembledType ==
  ASSUME RelayTypes, NEW lost \in SUBSET (1 .. FrameLen), NEW looks \in BOOLEAN
  PROVE  /\ Relay!Assembled(lost, looks) \in 0 .. FrameLen - 1
         /\ lost = {} =>
              Relay!Assembled(lost, looks) = IF s_frame_idx > 0 /\ looks THEN 1 ELSE 0
<1>1. Cardinality(lost) \in 0 .. FrameLen /\ (lost = {} => Cardinality(lost) = 0)
  <2>1. IsFiniteSet(1 .. FrameLen) /\ Cardinality(1 .. FrameLen) = FrameLen
    BY RelayConstants, FS_Interval
  <2>2. IsFiniteSet(lost) /\ Cardinality(lost) <= FrameLen
    BY <2>1, FS_Subset
  <2>3. Cardinality(lost) \in Nat
    BY <2>2, FS_CardinalityType
  <2>4. lost = {} => Cardinality(lost) = 0
    BY FS_EmptySet
  <2> QED BY <2>2, <2>3, <2>4, RelayConstants
<1> DEFINE after == s_frame_idx + FrameLen - Cardinality(lost)
<1>2. after \in Int /\ (after % FrameLen) \in 0 .. FrameLen - 1
  <2>1. after \in Int
    BY <1>1, RelayConstants DEF RelayTypes
  <2> HIDE DEF after
  <2> QED BY <2>1, RelayConstants
<1>3. lost = {} /\ s_frame_idx = 0 => after % FrameLen = 0
  <2>1. FrameLen % FrameLen = 0
    BY RelayConstants
  <2>2. lost = {} /\ s_frame_idx = 0 => after = FrameLen
    BY <1>1, RelayConstants
  <2> QED BY <2>1, <2>2
<1>4. lost = {} => FrameLen \notin lost /\ 1 \notin lost /\ (s_frame_idx > 0 => ~(after <= FrameLen))
  BY <1>1, RelayConstants DEF RelayTypes
<1>5. Relay!Assembled(lost, looks) =
        IF (IF s_frame_idx > 0 THEN after <= FrameLen ELSE 1 \notin lost)
        THEN after % FrameLen
        ELSE IF looks /\ FrameLen \notin lost THEN 1 ELSE 0
  BY RelayCardinality DEF Relay!Assembled
<1> HIDE DEF after
<1> QED BY <1>2, <1>3, <1>4, <1>5, RelayConstants DEF RelayTypes

LEMMA DueOfType ==
  ASSUME NEW arrived, NEW doing, NEW waited \in 0 .. 1, NEW since \in 0 .. Heartbeat, NEW ready
  PROVE  DueOf(arrived, doing, waited, since, ready) \in 0 .. Heartbeat + 1
BY RelayConstants DEF DueOf, Larger

LEMMA DueType == RelayTypes => Due \in 0 .. Heartbeat + 1
BY DueOfType DEF RelayTypes, Due

LEMMA DueTypeNext == RelayTypes' => Due' \in 0 .. Heartbeat + 1
BY DueOfType DEF RelayTypes, Due

\* What is due is in time when the timer has not gone far.
LEMMA DueInTime ==
  ASSUME NEW t \in Int, t <= 2 * Heartbeat, NEW due \in 0 .. Heartbeat + 1
  PROVE  t + due <= 3 * Heartbeat + 2
BY RelayConstants

LEMMA SoonerIsInTime ==
  ASSUME NEW t \in Int, NEW due \in Int, NEW sooner \in Int, sooner <= due, NEW limit \in Int,
         t + due <= limit
  PROVE  t + sooner <= limit
OBVIOUS

LEMMA RelayInit == Relay!Init => RelayInv
<1> SUFFICES ASSUME Relay!Init PROVE RelayInv
  OBVIOUS
<1> USE RelayConstants DEF Relay!Init
<1>1. RelayTypes
  <2>1. payload \in [cut : BOOLEAN, valid : BOOLEAN]
    BY DEF Relay!NoPayload
  <2>2. fifo \in Seq([cut : BOOLEAN, valid : BOOLEAN]) /\ Len(fifo) <= FifoDepth
    BY DEF Relay!Init
  <2>3. timer = 0 /\ elapsed \in 0 .. TickModulus - 1 /\ blocked \in 0 .. 1
        /\ since_frame \in 0 .. Heartbeat /\ s_frame_idx \in 0 .. FrameLen - 1
    BY DEF Relay!Init
  <2>4. RelayFlags
    BY Zenon DEF RelayFlags, Relay!Init
  <2>5. watch \in {"cutoff", "calm"} /\ sender = "idle"
    BY DEF Relay!Init
  <2> QED BY <2>1, <2>2, <2>3, <2>4, <2>5 DEF RelayTypes
<1>2. Stale /\ Damaged
  BY <1>1 DEF Stale, Damaged, RelayTypes
<1>3. Progress
  <2>1. timer = 0 /\ s_frame_idx = 0 /\ Due <= Heartbeat + 1 /\ Due \in Nat
    BY <1>1, DueType
  <2> QED BY <2>1 DEF Progress, OnTime, Searching, OnTime, Linked
<1> QED BY <1>1, <1>2, <1>3 DEF RelayInv

LEMMA LevelInv == ASSUME RelayInv, Relay!LevelChanges PROVE RelayInv'
<1> USE RelayConstants DEF RelayInv
<1>1. /\ UNCHANGED <<since_frame, looked, s_frame_idx, s_frame_ready, s_frame_ready_copy, sender,
                    payload, overwritten, blocked, fifo, got_first_frame, elapsed,
                    cutoff_bit_cached, watch, wrapped>>
      /\ timer' = 0
  BY DEF Relay!LevelChanges, Relay!isrVars, Relay!rxVars, Relay!loopVars
<1>2. cutoff' \in BOOLEAN
  BY Zenon DEF Relay!LevelChanges
<1>3. RelayTypes'
  <2>1. RelayFlags'
    BY Zenon, <1>1, <1>2 DEF RelayTypes, RelayFlags
  <2> QED BY <1>1, <2>1 DEF RelayTypes
<1>4. Stale' /\ Damaged'
  BY <1>1 DEF RelayTypes, Stale, Damaged
<1>5. Progress'
  <2>1. Due' = Due /\ Due \in 0 .. Heartbeat + 1
    BY <1>1, DueType DEF Due
  <2> QED BY <1>1, <2>1 DEF Progress, Searching, OnTime, RelayTypes
<1> QED BY <1>3, <1>4, <1>5

LEMMA FrameInv ==
  ASSUME RelayInv, NEW lost \in SUBSET (1 .. FrameLen), NEW looks \in BOOLEAN,
         Relay!Frame(lost, looks)
  PROVE  RelayInv'
<1> USE RelayConstants DEF RelayInv
<1>1. /\ UNCHANGED <<cutoff, sender, payload, blocked, fifo, got_first_frame, elapsed,
                     cutoff_bit_cached, watch, wrapped>>
      /\ looks => ~looked
      /\ looked' = looks /\ since_frame' = 0
      /\ s_frame_idx' = Relay!Assembled(lost, looks)
  BY DEF Relay!Frame, Relay!rxVars
<1>2. CASE s_frame_idx = 0 /\ lost = {} /\ ~s_frame_ready
  <2>1. /\ s_frame_ready' = TRUE /\ s_frame_ready_copy' = cutoff /\ timer' = timer
        /\ s_frame_idx' = 0 /\ overwritten' \in BOOLEAN
    BY <1>2, AssembledType DEF Relay!Frame
  <2>2. RelayTypes'
    BY <1>1, <2>1 DEF RelayTypes, RelayFlags
  <2>3. Stale' /\ Damaged'
    BY <1>1, <1>2, <2>1 DEF RelayTypes, Stale, Damaged
  <2>4. Progress'
    BY <1>1, <1>2, <2>1 DEF Progress, Searching, OnTime, Linked, RelayTypes, Due, DueOf, Larger
  <2> QED BY <2>2, <2>3, <2>4
<1>3. CASE ~(s_frame_idx = 0 /\ lost = {} /\ ~s_frame_ready)
  <2>1. /\ UNCHANGED <<s_frame_ready, s_frame_ready_copy, overwritten>>
        /\ lost # {} /\ watch = "calm" => timer' = 0
        /\ ~(lost # {} /\ watch = "calm") => timer' = timer
        /\ s_frame_idx' \in 0 .. FrameLen - 1
        /\ lost = {} => s_frame_idx' = IF s_frame_idx > 0 /\ looks THEN 1 ELSE 0
    BY <1>1, <1>3, AssembledType DEF Relay!Frame, Relay!Disturbed
  <2>2. RelayTypes'
    BY <1>1, <2>1 DEF RelayTypes, RelayFlags
  <2>3. Stale' /\ Damaged'
    BY <1>1, <1>3, <2>1 DEF RelayTypes, Stale, Damaged
  <2>4. Due' \in 0 .. Heartbeat + 1
    BY <2>2, DueTypeNext
  <2>5. CASE lost = {} /\ s_frame_idx = 0
    <3>1. Due' = Due /\ timer' = timer /\ s_frame_idx' = 0
      BY <1>1, <1>3, <2>1, <2>5 DEF RelayTypes, Due, DueOf
    <3>2. Linked' = Linked /\ OnTime' = OnTime
      BY Zenon, <1>1, <3>1 DEF Linked, OnTime
    <3>3. watch' = watch
      BY <1>1
    <3>4. ~(s_frame_idx' > 0)
      BY <3>1
    <3> QED BY Zenon, <2>2, <2>3, <2>5, <3>2, <3>3, <3>4 DEF Progress
  <2>6. CASE lost = {} /\ s_frame_idx > 0 /\ looks
    <3>1. looked' = TRUE /\ since_frame' = 0 /\ s_frame_idx' = 1 /\ timer' = timer /\ watch' = watch
      BY <1>1, <2>1, <2>6
    <3>2. watch = "calm" => timer <= Heartbeat
      BY <1>1, <2>6 DEF Progress, Searching, RelayTypes
    <3>3. Progress'
      BY <3>1, <3>2 DEF Progress, Searching, RelayTypes
    <3> QED BY <2>2, <2>3, <3>3
  <2>7. CASE lost # {} \/ (s_frame_idx > 0 /\ ~looks)
    <3>1. ASSUME watch = "calm"
          PROVE  OnTime'
      <4>1. timer' \in Int /\ timer' <= 2 * Heartbeat
        BY <2>1, <2>7, <3>1 DEF Progress, Searching, RelayTypes
      <4> QED BY <4>1, <2>4, DueInTime DEF OnTime
    <3>2. watch = "calm" /\ s_frame_idx' > 0 => timer' = 0 /\ since_frame' = 0
      BY <1>1, <2>1, <2>7
    <3>3. watch = "calm" /\ s_frame_idx' > 0 => Searching'
      BY <3>2, <2>2 DEF Searching, RelayTypes
    <3>4. watch' = watch
      BY <1>1
    <3> QED BY Zenon, <2>2, <2>3, <3>1, <3>3, <3>4 DEF Progress
  <2>8. s_frame_idx = 0 \/ s_frame_idx > 0
    BY DEF RelayTypes
  <2> QED BY <2>2, <2>3, <2>5, <2>6, <2>7, <2>8
<1> QED BY <1>2, <1>3

LEMMA SendInv ==
  ASSUME RelayInv, Relay!Take \/ Relay!LoadStatus \/ Relay!Return
  PROVE  RelayInv'
<1> USE RelayConstants DEF RelayInv
<1>1. /\ UNCHANGED <<cutoff, since_frame, looked, s_frame_idx, s_frame_ready_copy, overwritten,
                     blocked, fifo, got_first_frame, elapsed, cutoff_bit_cached, watch,
                     timer, wrapped>>
  BY DEF Relay!Take, Relay!LoadStatus, Relay!Return, Relay!fpgaVars, Relay!rxVars,
         Relay!historyVars, Relay!isrVars
<1>2. \/ /\ sender = "idle" /\ s_frame_ready /\ sender' = "load"
         /\ s_frame_ready' = FALSE /\ payload' = payload
      \/ /\ sender = "load" /\ sender' = "checksum" /\ s_frame_ready' = s_frame_ready
         /\ payload' = [cut |-> s_frame_ready_copy, valid |-> TRUE]
      \/ /\ sender = "wait" /\ sender' = "idle" /\ s_frame_ready' = s_frame_ready
         /\ payload' = payload
  BY DEF Relay!Take, Relay!LoadStatus, Relay!Return, Relay!isrVars
<1>3. payload' \in [cut : BOOLEAN, valid : BOOLEAN]
  <2>1. s_frame_ready_copy \in BOOLEAN /\ payload \in [cut : BOOLEAN, valid : BOOLEAN]
    BY DEF RelayTypes, RelayFlags
  <2>2. payload' = [cut |-> s_frame_ready_copy, valid |-> TRUE] \/ payload' = payload
    BY <1>2
  <2>3. [cut |-> s_frame_ready_copy, valid |-> TRUE] \in [cut : BOOLEAN, valid : BOOLEAN]
    BY <2>1
  <2> QED BY Zenon, <2>1, <2>2, <2>3
<1>4. s_frame_ready' \in BOOLEAN
  <2>1. s_frame_ready' = FALSE \/ s_frame_ready' = s_frame_ready
    BY <1>2
  <2> QED BY Zenon, <2>1 DEF RelayTypes, RelayFlags
<1>5. RelayTypes'
  BY <1>1, <1>2, <1>3, <1>4 DEF RelayTypes, RelayFlags
<1>6. Stale'
  <2>1. payload'.cut = IF sender = "load" THEN s_frame_ready_copy ELSE payload.cut
    BY <1>2
  <2>2. timer \in Nat /\ blocked \in 0 .. 1
    BY DEF RelayTypes
  <2> QED BY <1>1, <1>2, <2>1, <2>2 DEF Stale
<1>7. Damaged'
  BY <1>1, <1>2 DEF RelayTypes, Damaged
<1>8. Progress'
  <2>1. Due' <= Due /\ Due' \in Int
    BY <1>1, <1>2 DEF RelayTypes, Due, DueOf, Larger
  <2>2. Due \in Int
    BY DueType
  <2>3. elapsed \in Int /\ timer \in Int
    BY DEF RelayTypes
  <2>4. (Linked => Linked') /\ (OnTime => OnTime')
    <3> DEFINE sooner == Due'
    <3>0. sooner \in Int /\ sooner <= Due
      BY <2>1
    <3>1. /\ elapsed + Due <= Heartbeat + 1 => elapsed + Due' <= Heartbeat + 1
          /\ timer + Due <= 3 * Heartbeat + 2 => timer + Due' <= 3 * Heartbeat + 2
      <4> HIDE DEF sooner
      <4>1. /\ elapsed + Due <= Heartbeat + 1 => elapsed + sooner <= Heartbeat + 1
            /\ timer + Due <= 3 * Heartbeat + 2 => timer + sooner <= 3 * Heartbeat + 2
        BY <3>0, <2>2, <2>3
      <4> QED BY <4>1 DEF sooner
    <3> QED BY Zenon, <1>1, <3>1 DEF Linked, OnTime
  <2>5. Searching' = Searching
    BY Zenon, <1>1 DEF Searching
  <2> QED BY Zenon, <1>1, <2>4, <2>5 DEF Progress
<1> QED BY <1>5, <1>6, <1>7, <1>8

LEMMA LoadChecksumInv == ASSUME RelayInv, Relay!LoadChecksum PROVE RelayInv'
<1> USE RelayConstants DEF RelayInv
<1>1. /\ UNCHANGED <<cutoff, since_frame, looked, s_frame_idx, s_frame_ready, s_frame_ready_copy,
                     fifo, got_first_frame, elapsed, cutoff_bit_cached, watch, wrapped>>
      /\ sender = "checksum" /\ sender' = "air" /\ blocked' = 0 /\ overwritten' = FALSE
  BY DEF Relay!LoadChecksum, Relay!fpgaVars, Relay!rxVars, Relay!isrVars
<1>2. PICK valid \in BOOLEAN :
        /\ payload' = [payload EXCEPT !.valid = valid]
        /\ IF valid THEN UNCHANGED timer ELSE Relay!Disturbed
  BY DEF Relay!LoadChecksum
<1>3. /\ payload' \in [cut : BOOLEAN, valid : BOOLEAN]
      /\ payload'.cut = payload.cut /\ payload'.valid = valid
  BY <1>2 DEF RelayTypes
<1>4. /\ timer' = timer \/ timer' = 0
      /\ valid => timer' = timer
      /\ watch = "calm" /\ ~valid => timer' = 0
  BY <1>2 DEF Relay!Disturbed
<1>5. RelayTypes'
  <2>1. RelayFlags'
    BY Zenon, <1>1 DEF RelayTypes, RelayFlags
  <2> QED BY <1>1, <1>3, <1>4, <2>1 DEF RelayTypes
<1>6. Stale'
  BY <1>1, <1>3, <1>4 DEF RelayTypes, Stale
<1>7. Damaged'
  BY <1>1, <1>3, <1>4 DEF RelayTypes, Damaged
<1>8. Progress'
  <2>1. Due' = Due
    BY <1>1 DEF RelayTypes, Due, DueOf
  <2>2. Due \in 0 .. Heartbeat + 1
    BY DueType
  <2>3. CASE timer' = timer
    BY Zenon, <1>1, <2>1, <2>3 DEF Progress, Linked, OnTime, Searching
  <2>4. CASE timer' = 0
    <3>1. 0 + Due <= 3 * Heartbeat + 2 /\ 0 <= (IF looked THEN Heartbeat ELSE 0) + since_frame
      BY <2>2 DEF RelayTypes
    <3>2. OnTime' /\ Searching'
      BY Zenon, <1>1, <2>1, <2>4, <3>1 DEF OnTime, Searching
    <3> QED BY Zenon, <3>2 DEF Progress
  <2> QED BY <1>4, <2>3, <2>4
<1> QED BY <1>5, <1>6, <1>7, <1>8

LEMMA ResetTxInv == ASSUME RelayInv, Relay!ResetTx PROVE RelayInv'
<1> USE RelayConstants DEF RelayInv
<1>1. /\ UNCHANGED <<cutoff, since_frame, looked, s_frame_ready_copy, payload, blocked,
                     fifo, got_first_frame, elapsed, cutoff_bit_cached, watch, wrapped>>
      /\ s_frame_idx' = 0 /\ s_frame_ready' = FALSE /\ sender' = "idle" /\ overwritten' = FALSE
      /\ timer' = IF watch = "calm" THEN 0 ELSE timer
  BY DEF Relay!ResetTx, Relay!fpgaVars, Relay!rxVars, Relay!Disturbed
<1>2. RelayTypes'
  <2>1. RelayFlags'
    BY Zenon, <1>1 DEF RelayTypes, RelayFlags
  <2> QED BY <1>1, <2>1 DEF RelayTypes
<1>3. Stale'
  BY <1>1 DEF RelayTypes, Stale
<1>4. Damaged'
  BY <1>1 DEF RelayTypes, Damaged
<1>5. Progress'
  <2>1. Due' = DueOf(fifo # <<>>, "idle", blocked, since_frame, FALSE)
    BY Zenon, <1>1 DEF Due
  <2>2. DueOf(fifo # <<>>, "idle", blocked, since_frame, FALSE) \in 0 .. Heartbeat + 1
    BY DueOfType DEF RelayTypes
  <2>3. watch = "calm" => OnTime'
    <3>1. watch = "calm" => timer' = 0
      BY <1>1
    <3>2. 0 + DueOf(fifo # <<>>, "idle", blocked, since_frame, FALSE) <= 3 * Heartbeat + 2
      <4>1. 0 \in Int /\ 0 <= 2 * Heartbeat
        OBVIOUS
      <4> QED BY Zenon, <4>1, <2>2, DueInTime
    <3> QED BY Zenon, <2>1, <3>1, <3>2 DEF OnTime
  <2> QED BY <1>1, <2>3 DEF Progress
<1> QED BY <1>2, <1>3, <1>4, <1>5

LEMMA AirInv ==
  ASSUME RelayInv, NEW arrives \in BOOLEAN, Relay!Air(arrives) PROVE RelayInv'
<1> USE RelayConstants DEF RelayInv
<1>1. /\ UNCHANGED <<cutoff, since_frame, looked, s_frame_idx, s_frame_ready, s_frame_ready_copy,
                     overwritten, blocked, got_first_frame, elapsed, cutoff_bit_cached, watch,
                     wrapped>>
      /\ sender = "air" /\ sender' = "wait" /\ payload' = [cut |-> FALSE, valid |-> TRUE]
  BY DEF Relay!Air, Relay!fpgaVars, Relay!isrVars, Relay!rxVars, Relay!NoPayload
<1>2. CASE arrives /\ Len(fifo) < FifoDepth
  <2>1. fifo' = Append(fifo, payload) /\ timer' = timer
    BY <1>2 DEF Relay!Air
  <2>2. /\ Len(fifo') = Len(fifo) + 1 /\ fifo' \in Seq([cut : BOOLEAN, valid : BOOLEAN])
        /\ \A i \in 1 .. Len(fifo') : fifo'[i] = IF i <= Len(fifo) THEN fifo[i] ELSE payload
        /\ fifo' # <<>>
    BY <2>1 DEF RelayTypes
  <2>3. RelayTypes'
    <3>1. RelayFlags'
      BY Zenon, <1>1 DEF RelayTypes, RelayFlags
    <3> QED BY <1>1, <1>2, <2>1, <2>2, <3>1 DEF RelayTypes
  <2>4. Stale'
    BY <1>1, <2>1, <2>2 DEF RelayTypes, Stale
  <2>5. Damaged'
    BY <1>1, <2>1, <2>2 DEF RelayTypes, Damaged
  <2>6. Progress'
    <3>1. Due' = 0
      BY <2>2 DEF Due, DueOf
    <3>2. Due \in 0 .. Heartbeat + 1
      BY DueType
    <3>3. (Linked => Linked') /\ (OnTime => OnTime')
      BY <1>1, <2>1, <3>1, <3>2 DEF Linked, OnTime, RelayTypes
    <3> QED BY <1>1, <2>1, <3>3 DEF Progress, Searching
  <2> QED BY <2>3, <2>4, <2>5, <2>6
<1>3. CASE ~(arrives /\ Len(fifo) < FifoDepth)
  <2>1. /\ fifo' = fifo /\ (watch = "calm" => timer' = 0)
        /\ timer' = 0 \/ timer' = timer
    BY <1>3 DEF Relay!Air, Relay!Disturbed
  <2>2. RelayTypes'
    <3>1. RelayFlags'
      BY Zenon, <1>1 DEF RelayTypes, RelayFlags
    <3> QED BY <1>1, <2>1, <3>1 DEF RelayTypes
  <2>3. Stale'
    BY <1>1, <2>1 DEF RelayTypes, Stale
  <2>4. Damaged'
    BY <1>1, <2>1 DEF RelayTypes, Damaged
  <2>5. Progress'
    <3>1. Due' \in 0 .. Heartbeat + 1
      BY <2>2, DueTypeNext
    <3>2. watch = "calm" => OnTime'
      <4>1. watch = "calm" => timer' \in Int /\ timer' <= 2 * Heartbeat
        BY <2>1
      <4> QED BY <3>1, <4>1, DueInTime DEF OnTime
    <3>3. watch = "calm" => Searching'
      BY <1>1, <2>1 DEF Searching, RelayTypes
    <3>4. watch' = watch
      BY <1>1
    <3> QED BY Zenon, <3>2, <3>3, <3>4 DEF Progress
  <2> QED BY <2>2, <2>3, <2>4, <2>5
<1> QED BY <1>2, <1>3

LEMMA ReceiveInv == ASSUME RelayInv, Relay!Receive PROVE RelayInv'
<1> USE RelayConstants DEF RelayInv
<1>1. /\ UNCHANGED <<cutoff, since_frame, looked, s_frame_idx, s_frame_ready, s_frame_ready_copy,
                     sender, payload, overwritten, blocked, watch, timer>>
      /\ fifo # <<>> /\ fifo' = Tail(fifo)
  BY DEF Relay!Receive, Relay!fpgaVars, Relay!isrVars, Relay!loopVars
<1>2. /\ Len(fifo) \in Nat /\ Len(fifo) > 0 /\ Len(fifo') = Len(fifo) - 1
      /\ fifo' \in Seq([cut : BOOLEAN, valid : BOOLEAN])
      /\ \A i \in 1 .. Len(fifo') : i + 1 \in 1 .. Len(fifo) /\ fifo'[i] = fifo[i + 1]
      /\ Head(fifo) = fifo[1] /\ fifo[1] \in [cut : BOOLEAN, valid : BOOLEAN]
  <2> DEFINE Pairs == [cut : BOOLEAN, valid : BOOLEAN]
  <2>1. fifo \in Seq(Pairs)
    BY DEF RelayTypes
  <2> HIDE DEF Pairs
  <2>2. Len(fifo) \in Nat /\ Len(fifo) > 0
    BY <1>1, <2>1
  <2>3. /\ Len(Tail(fifo)) = Len(fifo) - 1
        /\ Tail(fifo) \in Seq(Pairs)
        /\ \A i \in 1 .. Len(fifo) - 1 : Tail(fifo)[i] = fifo[i + 1]
    BY <2>1, <2>2
  <2>4. Head(fifo) = fifo[1] /\ fifo[1] \in Pairs
    BY <2>1, <2>2
  <2>5. fifo' = Tail(fifo)
    BY <1>1
  <2>6. Len(fifo') = Len(fifo) - 1 /\ fifo' \in Seq(Pairs)
    BY Zenon, <2>3, <2>5
  <2>7. \A i \in 1 .. Len(fifo') : i + 1 \in 1 .. Len(fifo) /\ fifo'[i] = fifo[i + 1]
    BY <2>2, <2>3, <2>5
  <2> QED BY <2>2, <2>4, <2>6, <2>7 DEF Pairs
<1>3. CASE Head(fifo).valid
  <2>1. /\ got_first_frame' = TRUE /\ elapsed' = 0 /\ wrapped' = FALSE
        /\ cutoff_bit_cached' = fifo[1].cut
    BY <1>2, <1>3 DEF Relay!Receive
  <2>2. RelayTypes'
    <3>1. fifo[1].cut \in BOOLEAN
      BY <1>2
    <3>2. RelayFlags'
      BY Zenon, <1>1, <2>1, <3>1 DEF RelayTypes, RelayFlags
    <3> QED BY <1>1, <1>2, <2>1, <3>2 DEF RelayTypes
  <2>3. Stale'
    BY <1>1, <1>2, <2>1 DEF RelayTypes, Stale
  <2>4. Damaged'
    BY <1>1, <1>2, <2>1 DEF RelayTypes, Damaged
  <2>5. Progress'
    <3>1. Due' \in 0 .. Heartbeat + 1
      BY <2>2, DueTypeNext
    <3>2. elapsed' + Due' <= Heartbeat + 1
      <4>1. \A due \in 0 .. Heartbeat + 1 : 0 + due <= Heartbeat + 1
        OBVIOUS
      <4> QED BY Zenon, <2>1, <3>1, <4>1
    <3>3. Linked'
      BY Zenon, <2>1, <3>2 DEF Linked
    <3>4. Searching' = Searching /\ watch' = watch /\ s_frame_idx' = s_frame_idx
      BY Zenon, <1>1 DEF Searching
    <3> QED BY Zenon, <3>3, <3>4 DEF Progress
  <2> QED BY <2>2, <2>3, <2>4, <2>5
<1>4. CASE ~Head(fifo).valid
  <2>1. UNCHANGED <<got_first_frame, elapsed, wrapped, cutoff_bit_cached>>
    BY <1>4 DEF Relay!Receive
  <2>2. RelayTypes'
    <3>2. RelayFlags'
      BY Zenon, <1>1, <2>1 DEF RelayTypes, RelayFlags
    <3> QED BY <1>1, <1>2, <2>1, <3>2 DEF RelayTypes
  <2>3. Stale'
    BY <1>1, <1>2, <2>1 DEF RelayTypes, Stale
  <2>4. Damaged'
    BY <1>1, <1>2, <2>1 DEF RelayTypes, Damaged
  <2>5. Progress'
    <3>1. Due' \in 0 .. Heartbeat + 1
      BY <2>2, DueTypeNext
    <3>2. watch = "calm" => timer' <= 2 * Heartbeat /\ timer' \in Int
      BY <1>1, <1>2, <1>4 DEF Damaged, RelayTypes
    <3>3. watch = "calm" => OnTime'
      BY <3>1, <3>2, DueInTime DEF OnTime
    <3>4. Searching' = Searching /\ watch' = watch /\ s_frame_idx' = s_frame_idx
      BY Zenon, <1>1 DEF Searching
    <3> QED BY Zenon, <3>3, <3>4 DEF Progress
  <2> QED BY <2>2, <2>3, <2>4, <2>5
<1> QED BY <1>3, <1>4

LEMMA ResetRxInv == ASSUME RelayInv, Relay!ResetRx PROVE RelayInv'
<1> USE RelayConstants DEF RelayInv
<1>1. /\ UNCHANGED <<cutoff, since_frame, looked, s_frame_idx, s_frame_ready, s_frame_ready_copy,
                     sender, payload, overwritten, blocked, watch>>
      /\ fifo' = <<>> /\ got_first_frame' = FALSE /\ elapsed' = 0 /\ cutoff_bit_cached' = TRUE
      /\ wrapped' = FALSE /\ (watch = "calm" => timer' = 0) /\ (timer' = 0 \/ timer' = timer)
  BY DEF Relay!ResetRx, Relay!fpgaVars, Relay!isrVars, Relay!loopVars, Relay!Disturbed
<1>2. RelayTypes'
  <2>1. RelayFlags'
    BY Zenon, <1>1 DEF RelayTypes, RelayFlags
  <2> QED BY <1>1, <2>1 DEF RelayTypes
<1>3. Stale'
  <2>1. Len(fifo') = 0 /\ timer \in Nat
    BY <1>1 DEF RelayTypes
  <2>2. ~got_first_frame'
    BY <1>1
  <2>3. 1 .. Len(fifo') = {}
    BY <2>1
  <2>4. CASE timer' = timer
    BY Zenon, <1>1, <2>2, <2>3, <2>4 DEF Stale
  <2>5. CASE timer' = 0
    <3>1. 0 <= 0 /\ 0 <= blocked /\ 0 <= 1 + blocked /\ 0 <= 1 /\ 0 <= 2
      BY DEF RelayTypes
    <3> QED BY Zenon, <1>1, <2>2, <2>3, <2>5, <3>1 DEF Stale
  <2> QED BY <1>1, <2>4, <2>5
<1>4. Damaged'
  BY <1>1 DEF RelayTypes, Damaged
<1>5. Progress'
  <2>1. Due' \in 0 .. Heartbeat + 1
    BY <1>2, DueTypeNext
  <2>2. watch = "calm" => OnTime'
    <3>1. watch = "calm" => timer' \in Int /\ timer' <= 2 * Heartbeat
      BY <1>1
    <3> QED BY <2>1, <3>1, DueInTime DEF OnTime
  <2>3. watch = "calm" => Searching'
    BY <1>1 DEF Searching, RelayTypes
  <2>4. watch' = watch
    BY <1>1
  <2> QED BY Zenon, <2>2, <2>3, <2>4 DEF Progress
<1> QED BY <1>2, <1>3, <1>4, <1>5

LEMMA NextTick ==
  ASSUME NEW e \in 0 .. TickModulus - 1
  PROVE  (e + 1) % TickModulus = IF e + 1 = TickModulus THEN 0 ELSE e + 1
<1>1. CASE e + 1 = TickModulus
  <2>1. TickModulus % TickModulus = 0
    BY RelayConstants
  <2> QED BY <1>1, <2>1
<1>2. CASE e + 1 # TickModulus
  BY <1>2, RelayConstants
<1> QED BY <1>1, <1>2

LEMMA TickInv == ASSUME RelayInv, Relay!Tick PROVE RelayInv'
<1> USE RelayConstants DEF RelayInv
<1>1. /\ UNCHANGED <<cutoff, looked, s_frame_idx, s_frame_ready, s_frame_ready_copy, sender,
                     payload, overwritten, fifo, got_first_frame, cutoff_bit_cached, watch>>
      /\ since_frame < Heartbeat /\ since_frame' = since_frame + 1 /\ fifo = <<>>
  BY DEF Relay!Tick, Relay!isrVars
<1>2. \/ sender = "idle" /\ ~s_frame_ready /\ blocked' = blocked
      \/ sender \in {"air", "wait"} /\ blocked = 0 /\ blocked' = 1
  BY DEF Relay!Tick
<1>3. /\ got_first_frame => elapsed' = IF elapsed + 1 = TickModulus THEN 0 ELSE elapsed + 1
      /\ got_first_frame /\ ~wrapped' => elapsed + 1 # TickModulus /\ ~wrapped
      /\ got_first_frame /\ ~wrapped /\ elapsed + 1 # TickModulus => ~wrapped'
      /\ ~got_first_frame => elapsed' = elapsed /\ wrapped' = wrapped
      /\ wrapped' \in BOOLEAN
  <2>1. elapsed \in 0 .. TickModulus - 1
    BY DEF RelayTypes
  <2>2. (elapsed + 1) % TickModulus = IF elapsed + 1 = TickModulus THEN 0 ELSE elapsed + 1
    BY <2>1, NextTick
  <2>3. CASE got_first_frame
    <3>1. /\ elapsed' = IF elapsed + 1 = TickModulus THEN 0 ELSE elapsed + 1
          /\ wrapped' = (wrapped \/ elapsed' = 0)
      BY <2>2, <2>3 DEF Relay!Tick
    <3>2. elapsed' = 0 <=> elapsed + 1 = TickModulus
      BY <2>1, <3>1
    <3> QED BY <2>3, <3>1, <3>2
  <2>4. CASE ~got_first_frame
    <3>1. elapsed' = elapsed /\ wrapped' = wrapped
      BY <2>4 DEF Relay!Tick
    <3> QED BY Zenon, <2>4, <3>1 DEF RelayTypes, RelayFlags
  <2> QED BY <2>3, <2>4
<1>4. /\ timer' \in Nat
      /\ timer' <= timer + 1
      /\ watch = "calm" => timer' <= 3 * Heartbeat + 3
      /\ watch = "cutoff" => timer' <= Watchdog + 2
      /\ watch = "cutoff" /\ ~cutoff => timer' = 0
  BY DEF RelayTypes, Relay!Tick, Relay!Smaller, Relay!Settled, Relay!Missed, Relay!Overdue,
         Relay!Transit
<1>5. RelayTypes'
  <2>1. RelayFlags'
    BY Zenon, <1>1, <1>3 DEF RelayTypes, RelayFlags
  <2>2. elapsed' \in 0 .. TickModulus - 1
    BY <1>3 DEF RelayTypes
  <2>3. blocked' \in 0 .. 1
    BY <1>2 DEF RelayTypes
  <2> QED BY <1>1, <1>4, <2>1, <2>2, <2>3 DEF RelayTypes
<1>6. Stale'
  BY <1>1, <1>2, <1>3, <1>4 DEF RelayTypes, Stale
<1>7. Damaged'
  BY <1>1, <1>2, <1>4 DEF RelayTypes, Damaged
<1>8. Progress'
  <2>1. Due >= 1 /\ Due \in 0 .. Heartbeat + 1 /\ Due' = Due - 1
    BY <1>1, <1>2 DEF RelayTypes, Due, DueOf, Larger
  <2>2. watch = "calm" /\ OnTime => OnTime'
    <3> DEFINE later == timer'
    <3>1. later \in Nat /\ later <= timer + 1 /\ timer \in Nat
      BY <1>4 DEF RelayTypes
    <3>2. timer + Due <= 3 * Heartbeat + 2 => later + (Due - 1) <= 3 * Heartbeat + 2
      <4> HIDE DEF later
      <4> QED BY <2>1, <3>1
    <3> QED BY Zenon, <2>1, <3>2 DEF OnTime
  <2>3. Linked => Linked'
    BY <1>1, <1>3, <2>1 DEF Linked, RelayTypes
  <2>4. Searching => Searching'
    BY <1>1, <1>4 DEF Searching, RelayTypes
  <2>5. watch' = watch /\ s_frame_idx' = s_frame_idx
    BY <1>1
  <2> QED BY Zenon, <2>2, <2>3, <2>4, <2>5 DEF Progress
<1> QED BY <1>5, <1>6, <1>7, <1>8

LEMMA RelayStutter == ASSUME RelayInv, UNCHANGED Relay!vars PROVE RelayInv'
<1>1. UNCHANGED <<cutoff, since_frame, looked, s_frame_idx, s_frame_ready, s_frame_ready_copy,
                  sender, payload, overwritten, blocked, fifo, got_first_frame, elapsed,
                  cutoff_bit_cached, watch, timer, wrapped>>
  BY DEF Relay!vars, Relay!fpgaVars, Relay!isrVars, Relay!loopVars, Relay!rxVars,
         Relay!historyVars
<1>2. RelayTypes'
  <2>1. RelayFlags'
    BY Zenon, <1>1 DEF RelayInv, RelayTypes, RelayFlags
  <2> QED BY <1>1, <2>1 DEF RelayInv, RelayTypes
<1>3. Stale'
  BY Zenon, <1>1 DEF RelayInv, Stale
<1>4. Damaged'
  BY Zenon, <1>1 DEF RelayInv, Damaged
<1>5. Due' = Due
  BY Zenon, <1>1 DEF Due
<1>6. Linked' = Linked /\ OnTime' = OnTime /\ Searching' = Searching
  BY Zenon, <1>1, <1>5 DEF Linked, OnTime, Searching
<1>7. Progress'
  BY Zenon, <1>1, <1>6 DEF RelayInv, Progress
<1> QED BY <1>2, <1>3, <1>4, <1>7 DEF RelayInv

LEMMA RelayStep == RelayInv /\ [Relay!Next]_(Relay!vars) => RelayInv'
<1> SUFFICES ASSUME RelayInv, [Relay!Next]_(Relay!vars)
             PROVE  RelayInv'
  OBVIOUS
<1>1. CASE Relay!LevelChanges
  BY <1>1, LevelInv
<1>2. CASE \E lost \in SUBSET (1 .. FrameLen), looks \in BOOLEAN : Relay!Frame(lost, looks)
  BY <1>2, FrameInv
<1>3. CASE Relay!Take \/ Relay!LoadStatus \/ Relay!Return
  BY <1>3, SendInv
<1>4. CASE Relay!LoadChecksum
  BY <1>4, LoadChecksumInv
<1>5. CASE Relay!ResetTx
  BY <1>5, ResetTxInv
<1>6. CASE \E arrives \in BOOLEAN : Relay!Air(arrives)
  BY <1>6, AirInv
<1>7. CASE Relay!Receive
  BY <1>7, ReceiveInv
<1>8. CASE Relay!ResetRx
  BY <1>8, ResetRxInv
<1>9. CASE Relay!Tick
  BY <1>9, TickInv
<1>10. CASE UNCHANGED Relay!vars
  BY <1>10, RelayStutter
<1> QED
  BY <1>1, <1>2, <1>3, <1>4, <1>5, <1>6, <1>7, <1>8, <1>9, <1>10 DEF Relay!Next

LEMMA RelayConclusion == RelayInv => Relay!Safety
<1> SUFFICES ASSUME RelayInv PROVE Relay!Safety
  OBVIOUS
<1> USE RelayConstants DEF RelayInv
<1>1. Relay!TypeOK
  <2>1. {looked, s_frame_ready, s_frame_ready_copy, overwritten} \subseteq BOOLEAN
        /\ {got_first_frame, cutoff_bit_cached, wrapped} \subseteq BOOLEAN /\ cutoff \in BOOLEAN
    BY Zenon DEF RelayTypes, RelayFlags
  <2>2. timer \in 0 .. Relay!Settled \cup 0 .. Relay!Overdue
    BY DEF RelayTypes, Relay!Settled, Relay!Missed, Relay!Overdue, Relay!Transit
  <2> QED BY <2>1, <2>2 DEF Relay!TypeOK, RelayTypes, Relay!Payloads
<1>2. Relay!CutoffReachesRelay
  BY DEF RelayTypes, RelayFlags, Stale, Relay!CutoffReachesRelay, Relay!Overdue, Relay!Transit,
         Relay!relay_cutoff, Relay!link_ok
<1>3. Relay!RelayFollows
  BY DueType DEF RelayTypes, RelayFlags, Stale, Progress, Linked, OnTime, Searching,
         Relay!RelayFollows, Relay!Settled, Relay!Missed, Relay!Transit, Relay!relay_cutoff,
         Relay!link_ok
<1> QED BY <1>1, <1>2, <1>3 DEF Relay!Safety

\* A lasting cutoff reaches the relay, and the relay follows when nothing is
\* lost (rx_node main.c), whatever is lost, torn or reset before.
THEOREM RelaySafetyHolds == MCSpec => []RelaySafety
<1> DEFINE Inv == machine = "relay" => RelayInv
<1>1. MCInit => Inv
  BY RelayInit DEF MCInit
<1>2. Inv /\ [Announces \/ Serves(Server!Next) \/ Cuts]_allVars => Inv'
  <2> SUFFICES ASSUME Inv, [Announces \/ Serves(Server!Next) \/ Cuts]_allVars,
                      machine' = "relay"
               PROVE  RelayInv'
    OBVIOUS
  <2>1. [Relay!Next]_(Relay!vars) /\ machine' = machine
    BY DEF Announces, Serves, Cuts, allVars, relayVars, Relay!vars, Relay!fpgaVars, Relay!isrVars,
           Relay!loopVars, Relay!rxVars, Relay!historyVars
  <2> QED BY <2>1, RelayStep
<1>3. Inv => RelaySafety
  BY RelayConclusion DEF RelaySafety
<1> QED BY <1>1, <1>2, <1>3, PTL DEF MCSpec
=============================================================================
