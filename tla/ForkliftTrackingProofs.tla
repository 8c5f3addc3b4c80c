----------------------- MODULE ForkliftTrackingProofs -----------------------
(***************************************************************************)
(* Proofs about what comes into the server: the tracking, for any streams, *)
(* areas and times, a camera's metadata, for any packets, losses and       *)
(* retries, and the sensors' uplink, for any terminals, sensors, values    *)
(* and timeout.                                                            *)
(***************************************************************************)
EXTENDS MCForkliftTracking, Sequences, TLAPS

\* While the marker counts as visible no grace time runs, and while it runs it
\* began at most one gap after the position was last fresh.
GraceBoundsAge ==
  /\ any_target_ => marker_missing_since_ = NotMissing
  /\ ~any_target_ /\ marker_missing_since_ = NotMissing =>
       forklift_sighting_.stream = NoStream
  /\ ~any_target_ /\ marker_missing_since_ \in 0 .. Grace
       /\ forklift_sighting_.stream # NoStream =>
       forklift_sighting_.age <= Freshness + MaxGap + marker_missing_since_

\* An entry of stream_sightings_ is what its stream's latest frame showed.
SightingsAreLatest == \A s \in Streams : shows[s] <=> stream_sightings_[s].area > 0

IInv ==
  TypeOK /\ SightingsAreLatest /\ PositionIsLargestView /\ AssignedViewIsGood
    /\ GraceBoundsAge

LEMMA InitHolds == Init => IInv
<1> SUFFICES ASSUME Init PROVE IInv
  OBVIOUS
<1>1. /\ any_target_ \in BOOLEAN /\ ~any_target_
      /\ \A t \in Streams : shows[t] \in BOOLEAN /\ ~shows[t]
  BY DEF Init
<1>2. /\ stream_sightings_ = [t \in Streams |-> NoSighting]
      /\ forklift_sighting_ = [stream |-> NoStream, age |-> Horizon]
      /\ marker_missing_since_ = NotMissing /\ active_stream_ = NoStream
      /\ frame_age = 0 /\ last_frame = [stream |-> NoStream, visible |-> FALSE]
      /\ shows = [t \in Streams |-> FALSE]
  BY DEF Init
<1>3. 0 \in Age /\ Horizon \in Age /\ 0 \in 0 .. MaxGap
  BY ConfigAssumption DEF Age, Horizon
<1>4. last_frame \in [stream : Streams \cup {NoStream}, visible : BOOLEAN]
      /\ shows \in [Streams -> BOOLEAN]
  BY <1>2, Zenon
<1>5. stream_sightings_ \in [Streams -> [area : Areas \cup {0}, age : Age]]
      /\ forklift_sighting_ \in [stream : Streams \cup {NoStream}, age : Age]
  BY <1>2, <1>3 DEF NoSighting
<1>6. TypeOK
  BY <1>1, <1>2, <1>3, <1>4, <1>5 DEF TypeOK
<1>7. \A t \in Streams : stream_sightings_[t].area = 0
  BY <1>2 DEF NoSighting
<1>8. CandidateViews = {}
  BY <1>7 DEF CandidateViews
<1>9. SightingsAreLatest /\ GraceBoundsAge
  BY <1>1, <1>2, <1>7 DEF SightingsAreLatest, GraceBoundsAge, NotMissing
<1>10. PositionIsLargestView /\ AssignedViewIsGood
  BY <1>1, <1>2, <1>8 DEF PositionIsLargestView, AssignedViewIsGood
<1> QED
  BY <1>6, <1>9, <1>10 DEF IInv

\* What an elapsed tick does to an age.
LEMMA OlderIsCapped ==
  \A a \in Age : Older(a) \in Age /\ Older(a) >= a
                     /\ (Older(a) = a + 1 \/ (a = Horizon /\ Older(a) = a))
  BY ConfigAssumption DEF Age, Horizon, Older

\* What an elapsed tick does to the sightings.
LEMMA ElapsedSightings ==
  ASSUME TypeOK, Elapse, NEW s \in Streams
  PROVE  /\ stream_sightings_'[s] \in [area : Areas \cup {0}, age : Age]
         /\ stream_sightings_'[s].area = stream_sightings_[s].area
         /\ stream_sightings_[s].area # 0 =>
              stream_sightings_'[s].age = Older(stream_sightings_[s].age)
<1>1. stream_sightings_[s] \in [area : Areas \cup {0}, age : Age]
  BY DEF TypeOK
<1>2. stream_sightings_'[s] =
        IF stream_sightings_[s].area = 0 THEN NoSighting
        ELSE [stream_sightings_[s] EXCEPT !.age = Older(stream_sightings_[s].age)]
  BY DEF Elapse
<1>3. 0 \in Age
  BY ConfigAssumption DEF Age, Horizon
<1>4. Older(stream_sightings_[s].age) \in Age
  BY <1>1, OlderIsCapped
<1> QED
  BY <1>1, <1>2, <1>3, <1>4 DEF NoSighting

\* Time alone changes no candidate: an age and the age of the latest frame
\* grow together.
LEMMA ElapsedCandidates ==
  ASSUME TypeOK, Elapse
  PROVE  CandidateViews' = CandidateViews
<1>1. /\ frame_age \in 0 .. MaxGap /\ frame_age' = frame_age + 1
      /\ frame_age < MaxGap
  BY DEF TypeOK, Elapse
<1> SUFFICES ASSUME NEW s \in Streams
             PROVE  s \in CandidateViews' <=> s \in CandidateViews
  BY DEF CandidateViews
<1>2. stream_sightings_[s].area \in Areas \cup {0} /\ stream_sightings_[s].age \in Age
  BY DEF TypeOK
<1>3. CASE stream_sightings_[s].area = 0
  BY <1>3, ElapsedSightings DEF CandidateViews
<1>4. CASE stream_sightings_[s].area # 0
  <2>1. stream_sightings_'[s].age = Older(stream_sightings_[s].age)
    BY <1>4, ElapsedSightings
  <2>2. stream_sightings_'[s].age - frame_age' <= Freshness
          <=> stream_sightings_[s].age - frame_age <= Freshness
    BY <1>1, <1>2, <2>1, OlderIsCapped, ConfigAssumption DEF Age, Horizon
  <2> QED
    BY <2>2, ElapsedSightings DEF CandidateViews
<1> QED
  BY <1>3, <1>4

\* Elapse keeps the invariant.
LEMMA ElapseKeepsInvariant ==
  ASSUME IInv, Elapse
  PROVE  IInv'
<1>0. TypeOK
  BY DEF IInv
<1>1. TypeOK'
  <2>1. stream_sightings_' \in [Streams -> [area : Areas \cup {0}, age : Age]]
    BY <1>0, ElapsedSightings DEF Elapse
  <2>2. forklift_sighting_' \in [stream : Streams \cup {NoStream}, age : Age]
    BY <1>0, OlderIsCapped DEF TypeOK, Elapse
  <2>3. marker_missing_since_' \in Age \cup {NotMissing}
    BY <1>0, OlderIsCapped DEF TypeOK, Elapse
  <2>4. frame_age' \in 0 .. MaxGap
    BY <1>0, ConfigAssumption DEF TypeOK, Elapse
  <2> QED
    BY <1>0, <2>1, <2>2, <2>3, <2>4 DEF TypeOK, Elapse
<1>2. SightingsAreLatest'
  BY <1>0, ElapsedSightings DEF IInv, SightingsAreLatest, Elapse
<1>3. /\ forklift_sighting_'.stream = forklift_sighting_.stream
      /\ forklift_sighting_'.age = Older(forklift_sighting_.age)
  BY <1>0 DEF TypeOK, Elapse
<1>4. CandidateViews' = CandidateViews
  BY <1>0, ElapsedCandidates
<1>5. \A s \in CandidateViews :
        /\ s \in Streams
        /\ stream_sightings_'[s].area = stream_sightings_[s].area
        /\ stream_sightings_'[s].age = Older(stream_sightings_[s].age)
  BY <1>0, ElapsedSightings DEF CandidateViews
<1>6. UNCHANGED <<any_target_, active_stream_, last_frame, shows>>
  BY DEF Elapse
<1>7. marker_missing_since_ = NotMissing <=> marker_missing_since_' = NotMissing
  BY <1>0, OlderIsCapped DEF TypeOK, Elapse, NotMissing, Age
<1>8. PositionIsLargestView'
  BY <1>3, <1>4, <1>5, <1>6, <1>7 DEF IInv, PositionIsLargestView
<1>9. AssignedViewIsGood'
  BY <1>4, <1>5, <1>6 DEF IInv, AssignedViewIsGood
<1>10. GraceBoundsAge'
  <2>1. ASSUME ~any_target_, marker_missing_since_' \in 0 .. Grace,
               forklift_sighting_.stream # NoStream
        PROVE  forklift_sighting_'.age <= Freshness + MaxGap + marker_missing_since_'
    <3>1. /\ marker_missing_since_ \in Age
          /\ marker_missing_since_' = Older(marker_missing_since_)
      BY <1>0, <2>1 DEF TypeOK, Elapse, NotMissing
    <3>2. /\ marker_missing_since_' = marker_missing_since_ + 1
          /\ marker_missing_since_ \in 0 .. Grace
      BY <2>1, <3>1, OlderIsCapped, ConfigAssumption DEF Age, Horizon
    <3>3. forklift_sighting_.age <= Freshness + MaxGap + marker_missing_since_
      BY <2>1, <3>2 DEF IInv, GraceBoundsAge
    <3>4. forklift_sighting_.age \in Age
      BY <1>0 DEF TypeOK
    <3> QED
      BY <1>3, <3>1, <3>2, <3>3, <3>4, OlderIsCapped, ConfigAssumption DEF Age, Horizon
  <2> QED
    BY <1>3, <1>6, <1>7, <2>1 DEF IInv, GraceBoundsAge
<1> QED
  BY <1>1, <1>2, <1>8, <1>9, <1>10 DEF IInv

\* The state after a frame, of whichever stream, and the candidates it leaves.
LEMMA FrameSightings ==
  ASSUME IInv, NEW stream \in Streams, NEW area \in Areas \cup {0},
         processArucoStreamFrame(stream, area)
  PROVE  /\ stream_sightings_' \in [Streams -> [area : Areas \cup {0}, age : Age]]
         /\ stream_sightings_' = RecordSighting(stream, area)
         /\ SightingsAreLatest'
         /\ shows' \in [Streams -> BOOLEAN]
         /\ last_frame' \in [stream : Streams \cup {NoStream}, visible : BOOLEAN]
         /\ last_frame'.stream # NoStream
         /\ frame_age' = 0
         /\ CandidateViews' = FreshViews(stream_sightings_')
<1>1. stream_sightings_' = RecordSighting(stream, area)
  BY DEF processArucoStreamFrame
<1>2. stream_sightings_ \in [Streams -> [area : Areas \cup {0}, age : Age]]
      /\ shows \in [Streams -> BOOLEAN]
  BY DEF IInv, TypeOK
<1>3. 0 \in Age
  BY ConfigAssumption DEF Age, Horizon
<1>4. stream_sightings_' \in [Streams -> [area : Areas \cup {0}, age : Age]]
  BY <1>1, <1>2, <1>3 DEF RecordSighting
<1>5. shows' = [shows EXCEPT ![stream] = area > 0] /\ frame_age' = 0
      /\ last_frame' = [stream |-> stream, visible |-> area > 0]
  BY DEF processArucoStreamFrame
<1>6. (area > 0) \in BOOLEAN
  BY ConfigAssumption
<1>7. \A s \in Streams : shows'[s] <=> stream_sightings_'[s].area > 0
  BY <1>1, <1>2, <1>5 DEF RecordSighting, IInv, SightingsAreLatest
<1>8. CandidateViews' = FreshViews(stream_sightings_')
  <2>1. \A s \in Streams : stream_sightings_'[s].age - frame_age' = stream_sightings_'[s].age
    BY <1>4, <1>5, ConfigAssumption DEF Age, Horizon
  <2> QED
    BY <2>1 DEF CandidateViews, FreshViews, Fresh
<1> QED
  BY <1>1, <1>2, <1>4, <1>5, <1>6, <1>7, <1>8, ConfigAssumption DEF SightingsAreLatest

\* A frame keeps the invariant.
LEMMA FrameKeepsInvariant ==
  ASSUME IInv, NEW stream \in Streams, NEW area \in Areas \cup {0},
         processArucoStreamFrame(stream, area)
  PROVE  IInv'
<1> DEFINE sightings == stream_sightings_'
<1>1. /\ sightings \in [Streams -> [area : Areas \cup {0}, age : Age]]
      /\ SightingsAreLatest' /\ last_frame'.stream # NoStream
      /\ CandidateViews' = FreshViews(sightings)
      /\ shows' \in [Streams -> BOOLEAN] /\ frame_age' = 0
      /\ last_frame' \in [stream : Streams \cup {NoStream}, visible : BOOLEAN]
  BY FrameSightings
<1>2. /\ FreshViews(sightings) # {} => Localize(sightings)
      /\ FreshViews(sightings) = {} => MissMarker
  BY FrameSightings DEF processArucoStreamFrame
<1>3. frame_age' \in 0 .. MaxGap
  BY <1>1, ConfigAssumption
<1>4. CASE FreshViews(sightings) # {}
  <2>1. PICK best \in BestViews(sightings) :
          /\ forklift_sighting_' = [stream |-> best, age |-> sightings[best].age]
          /\ any_target_' = TRUE
          /\ marker_missing_since_' = NotMissing
          /\ selectAssignment(sightings, best)
    BY <1>2, <1>4 DEF Localize
  <2>2. /\ best \in FreshViews(sightings) /\ best \in Streams
        /\ \A t \in FreshViews(sightings) : sightings[t].area <= sightings[best].area
    BY <2>1 DEF BestViews, FreshViews
  <2>3. any_target_'
    BY <2>1
  <2>4. /\ active_stream_' \in FreshViews(sightings)
        /\ \A t \in FreshViews(sightings) :
             10 * sightings[t].area <= 13 * sightings[active_stream_'].area
    <3>0. \A x \in Areas \cup {0} : x \in Nat
      BY ConfigAssumption
    <3>1. \A t \in Streams : sightings[t].area \in Nat
      <4> SUFFICES ASSUME NEW t \in Streams PROVE sightings[t].area \in Nat
        OBVIOUS
      <4>1. sightings[t] \in [area : Areas \cup {0}, age : Age]
        BY <1>1
      <4>2. sightings[t].area \in Areas \cup {0}
        BY <4>1
      <4> QED
        BY <3>0, <4>2
    <3>2. CASE KeepsActive(sightings, best)
      <4>1. /\ active_stream_' = active_stream_ /\ active_stream_ \in FreshViews(sightings)
            /\ 10 * sightings[best].area < 13 * sightings[active_stream_].area
        BY <2>1, <3>2 DEF selectAssignment, KeepsActive
      <4> QED
        BY <2>2, <3>1, <4>1 DEF FreshViews
    <3>3. CASE ~KeepsActive(sightings, best)
      <4>1. active_stream_' = best
        BY <2>1, <3>3 DEF selectAssignment
      <4> QED
        BY <2>2, <3>1, <4>1 DEF FreshViews
    <3> QED
      BY <3>2, <3>3
  <2>5. TypeOK'
    <3>1. any_target_' \in BOOLEAN
      BY <2>1
    <3>2. forklift_sighting_' \in [stream : Streams \cup {NoStream}, age : Age]
      BY <1>1, <2>1, <2>2
    <3>3. active_stream_' \in Streams
      BY <2>4 DEF FreshViews
    <3> QED
      BY <1>1, <1>3, <2>1, <3>1, <3>2, <3>3 DEF TypeOK
  <2>6. PositionIsLargestView'
    <3>1. shows'[best]
      BY <1>1, <2>2 DEF SightingsAreLatest, FreshViews, Fresh
    <3>2. forklift_sighting_'.stream = best /\ forklift_sighting_'.age = sightings[best].age
      BY <2>1
    <3> QED
      BY <1>1, <2>2, <2>3, <3>1, <3>2 DEF PositionIsLargestView
  <2>7. AssignedViewIsGood'
    BY <1>1, <2>4 DEF AssignedViewIsGood
  <2>8. GraceBoundsAge'
    BY <2>1, <2>3 DEF GraceBoundsAge
  <2> QED
    BY <1>1, <2>5, <2>6, <2>7, <2>8 DEF IInv
<1>5. CASE FreshViews(sightings) = {}
  <2>1. /\ any_target_' = FALSE /\ StartGrace
        /\ UNCHANGED <<forklift_sighting_, active_stream_>>
    BY <1>2, <1>5 DEF MissMarker
  <2>2. ~any_target_' /\ any_target_' \in BOOLEAN
    BY <2>1
  <2>3. 0 \in Age /\ 0 # NotMissing
    BY ConfigAssumption DEF Age, Horizon, NotMissing
  <2>4. marker_missing_since_' \in Age
    BY <2>1, <2>3 DEF IInv, TypeOK, StartGrace
  <2>5. TypeOK'
    BY <1>1, <1>3, <2>1, <2>2, <2>4 DEF IInv, TypeOK
  <2>6. PositionIsLargestView'
    BY <1>1, <1>5, <2>2, <2>4 DEF PositionIsLargestView, NotMissing, Age
  <2>7. AssignedViewIsGood'
    BY <2>2 DEF AssignedViewIsGood
  <2>8. ASSUME marker_missing_since_' \in 0 .. Grace, forklift_sighting_.stream # NoStream
        PROVE  forklift_sighting_.age <= Freshness + MaxGap + marker_missing_since_'
    <3>1. CASE marker_missing_since_ = NotMissing
      <4>1. marker_missing_since_' = 0
        BY <2>1, <3>1 DEF StartGrace
      <4>2. any_target_
        BY <2>8, <3>1 DEF IInv, GraceBoundsAge
      <4>3. /\ forklift_sighting_.stream \in CandidateViews
            /\ forklift_sighting_.age = stream_sightings_[forklift_sighting_.stream].age
        BY <4>2 DEF IInv, PositionIsLargestView
      <4>4. forklift_sighting_.age - frame_age <= Freshness
        BY <4>3 DEF CandidateViews
      <4>5. forklift_sighting_.age \in Int /\ frame_age \in 0 .. MaxGap
        BY DEF IInv, TypeOK, Age
      <4> QED
        BY <4>1, <4>4, <4>5, ConfigAssumption
    <3>2. CASE marker_missing_since_ # NotMissing
      <4>1. marker_missing_since_' = marker_missing_since_
        BY <2>1, <3>2 DEF StartGrace
      <4>2. ~any_target_
        BY <3>2 DEF IInv, GraceBoundsAge
      <4> QED
        BY <2>8, <4>1, <4>2 DEF IInv, GraceBoundsAge
    <3> QED
      BY <3>1, <3>2
  <2>9. GraceBoundsAge'
    BY <2>1, <2>2, <2>3, <2>4, <2>8 DEF GraceBoundsAge, NotMissing, Age
  <2> QED
    BY <1>1, <2>5, <2>6, <2>7, <2>9 DEF IInv
<1> QED
  BY <1>4, <1>5

\* The inductive invariant holds in every reachable state.
THEOREM InductiveInvariant == Spec => []IInv
<1>1. IInv /\ [Next]_vars => IInv'
  <2> SUFFICES ASSUME IInv, [Next]_vars
               PROVE  IInv'
    OBVIOUS
  <2>1. CASE Frame
    BY <2>1, FrameKeepsInvariant DEF Frame
  <2>2. CASE Elapse
    BY <2>2, ElapseKeepsInvariant
  <2>3. CASE UNCHANGED vars
    BY <2>3 DEF vars, pipelineVars, IInv, TypeOK, SightingsAreLatest,
                PositionIsLargestView, AssignedViewIsGood, GraceBoundsAge,
                CandidateViews
  <2> QED
    BY <2>1, <2>2, <2>3 DEF Next
<1> QED
  BY <1>1, InitHolds, PTL DEF Spec

\* Every member keeps its type.
THEOREM TypeCorrect == Spec => []TypeOK
  BY InductiveInvariant, PTL DEF IInv

\* The position in use is that of the largest view, one not withdrawn.
THEOREM PositionIsCurrent == Spec => []PositionIsLargestView
  BY InductiveInvariant, PTL DEF IInv

\* The operator is shown a view as good as any, up to the factor 1.3.
THEOREM ViewIsGood == Spec => []AssignedViewIsGood
  BY InductiveInvariant, PTL DEF IInv

\* No judgment uses a position older than freshness, gap and grace together.
THEOREM PositionAgeIsBounded == Spec => []PositionIsRecent
<1>1. IInv => PositionIsRecent
  <2> SUFFICES ASSUME IInv, Localized
               PROVE  forklift_sighting_.age <= Freshness + MaxGap + Grace
    BY DEF PositionIsRecent
  <2>1. forklift_sighting_.age \in Int /\ frame_age \in 0 .. MaxGap
    BY DEF IInv, TypeOK, Age
  <2>2. CASE any_target_
    <3>1. forklift_sighting_.age - frame_age <= Freshness
      BY <2>2 DEF IInv, PositionIsLargestView, CandidateViews
    <3> QED
      BY <2>1, <3>1, ConfigAssumption
  <2>3. CASE ~any_target_
    <3>1. /\ marker_missing_since_ \in 0 .. Grace
          /\ forklift_sighting_.age <= Freshness + MaxGap + marker_missing_since_
      BY <2>3 DEF Localized, IInv, GraceBoundsAge
    <3> QED
      BY <2>1, <3>1, ConfigAssumption
  <2> QED
    BY <2>2, <2>3
<1> QED
  BY <1>1, InductiveInvariant, PTL

\* The invariants of the module together, as its run checks them.
THEOREM SafetyHolds == Spec => []Safety
<1> QED BY TypeCorrect, PositionIsCurrent, ViewIsGood, PositionAgeIsBounded, PTL DEF Safety

-----------------------------------------------------------------------------
(* A camera's metadata                                                     *)

\* Where run() and stop() are, what the graph is meanwhile, and the failures.
StageInv ==
  /\ stage \in {"launch", "register", "play", "session", "close", "release",
                "retry", "excluded", "ended"}
  /\ graph \in {"none", "ready", "playing", "null", "freed"}
  /\ running \in BOOLEAN /\ pipeline \in BOOLEAN /\ held \in BOOLEAN
  /\ stopper \in {"idle", "take", "lower", "join", "done"}
  /\ failures \in 0 .. max_retries
  /\ stage \in {"launch", "register", "play", "session", "retry"} => failures < max_retries
  /\ stage = "excluded" => failures = max_retries
  /\ stage \in {"register", "play"} => ~reached_playing
  /\ reached_playing => failures <= 1 /\ (stage = "session" => failures = 0)
  /\ pipeline <=> stage \in {"play", "session", "close"}
  /\ pipeline => graph \in {"ready", "playing", "null"}
  /\ stage = "register" => graph \in {"ready", "null"}
  /\ held <=> stopper = "lower"
  /\ held => graph # "freed"
  /\ stopper # "idle" => ~running
  /\ ~held /\ Input!WorkerReleased => graph \in {"none", "freed"}
  /\ stopper = "done" => Input!Joinable

\* The end of a document, up to its part p.
EndsAt(text, d, p) ==
  /\ text \in Seq(Nat \X Nat) /\ Len(text) <= p
  /\ \A i \in 1 .. Len(text) : text[i] = <<d, p - Len(text) + i>>

\* What handleXml was given is the end of a document, or one bare packet.
TextInv ==
  IF completed.bare THEN Len(completed.text) = 1
  ELSE \E d \in Nat : EndsAt(completed.text, d, Parts)

\* The buffer ends where the camera goes on, if the next packet is not lost;
\* bare packets never reach it.
DocInv ==
  /\ doc \in Nat /\ part \in 1 .. Parts
  /\ seq \in 0 .. SeqModulus - 1 /\ lastSeq_ \in 0 .. SeqModulus - 1
  /\ hasLastSeq_ \in BOOLEAN /\ (hasLastSeq_ => seq = (lastSeq_ + 1) % SeqModulus)
  /\ buffer_ # <<>> => hasLastSeq_
  /\ EndsAt(buffer_, doc, part - 1)
  /\ bare => ~hasLastSeq_
  /\ TextInv

InputInv == StageInv /\ DocInv

LEMMA InputConstants ==
  /\ Parts \in Nat /\ Parts >= 1 /\ SeqModulus \in Nat /\ SeqModulus >= 1
  /\ MaxLost \in 0 .. SeqModulus - 1
  /\ max_retries \in Nat /\ max_retries >= 1
BY InputAssumption DEF Input!ConstantAssumption

LEMMA InputInit == Input!Init => InputInv
<1> SUFFICES ASSUME Input!Init PROVE InputInv
  OBVIOUS
<1>1. /\ running \in BOOLEAN /\ pipeline \in BOOLEAN /\ held \in BOOLEAN
      /\ hasLastSeq_ \in BOOLEAN /\ ~pipeline /\ ~held /\ ~hasLastSeq_ /\ ~reached_playing
  BY Zenon DEF Input!Init
<1>2. /\ stage = "launch" /\ failures = 0 /\ graph = "none"
      /\ stopper = "idle" /\ buffer_ = <<>> /\ lastSeq_ = 0
      /\ doc = 1 /\ part = 1 /\ seq = 0 /\ completed = [text |-> <<>>, bare |-> FALSE]
  BY DEF Input!Init
<1>3. StageInv
  BY <1>1, <1>2, InputConstants DEF StageInv, Input!WorkerReleased, Input!Joinable
<1>4. EndsAt(<<>>, 1, 1 - 1) /\ EndsAt(<<>>, 1, Parts)
  BY InputConstants DEF EndsAt
<1>5. DocInv
  BY <1>1, <1>2, <1>4, InputConstants DEF DocInv, TextInv
<1> QED
  BY <1>3, <1>5 DEF InputInv

\* The quotient and remainder of a number and of the next.
LEMMA Quotient ==
  ASSUME NEW m \in Nat, m >= 1, NEW x \in Nat
  PROVE  /\ x % m \in 0 .. m - 1 /\ x \div m \in Nat
         /\ x < m => x % m = x /\ x \div m = 0
         /\ m <= x /\ x < 2 * m => x % m = x - m
         /\ x % m < m - 1 => (x + 1) % m = (x % m) + 1 /\ (x + 1) \div m = x \div m
         /\ x % m = m - 1 => (x + 1) % m = 0
OBVIOUS

LEMMA NextRemainder ==
  ASSUME NEW m \in Nat, m >= 1, NEW x \in Nat
  PROVE  ((x % m) + 1) % m = (x + 1) % m
<1> DEFINE r == x % m
           y == r + 1
<1>1. r \in 0 .. m - 1 /\ y \in Nat
  BY Quotient
<1>2. /\ r < m - 1 => (x + 1) % m = y
      /\ r = m - 1 => (x + 1) % m = 0
  BY Quotient
<1> HIDE DEF r
<1>3. y = r + 1
  OBVIOUS
<1> HIDE DEF y
<1>4. /\ y < m => y % m = y
      /\ m <= y /\ y < 2 * m => y % m = y - m
  BY <1>1, Quotient
<1>5. y % m = (x + 1) % m
  BY <1>1, <1>2, <1>3, <1>4
<1> QED
  BY <1>3, <1>5 DEF r

\* A packet that continues the buffer, or begins it anew.
LEMMA Feeding ==
  ASSUME InputInv, NEW lost \in 0 .. MaxLost,
         NEW d, NEW p, d = Input!Ahead(lost).doc, p = Input!Ahead(lost).part
  PROVE  /\ d \in Nat /\ p \in 1 .. Parts
         /\ EndsAt(Append(Input!Kept((seq + lost) % SeqModulus), <<d, p>>), d, p)
         /\ p < Parts => Input!Ahead(lost + 1) = [doc |-> d, part |-> p + 1]
<1> USE InputConstants
<1>1. /\ doc \in Nat /\ part \in 1 .. Parts /\ seq \in 0 .. SeqModulus - 1
      /\ lost \in Nat /\ lost < SeqModulus
  BY DEF InputInv, DocInv
<1> DEFINE n == part - 1 + lost
<1>2. n \in Nat /\ d = doc + n \div Parts /\ p = (n % Parts) + 1
  BY <1>1 DEF Input!Ahead
<1>3. d \in Nat /\ p \in 1 .. Parts
  BY <1>1, <1>2, Quotient
<1>4. p < Parts => Input!Ahead(lost + 1) = [doc |-> d, part |-> p + 1]
  <2> SUFFICES ASSUME p < Parts PROVE Input!Ahead(lost + 1) = [doc |-> d, part |-> p + 1]
    OBVIOUS
  <2>1. Input!Ahead(lost + 1) =
          [doc |-> doc + (n + 1) \div Parts, part |-> ((n + 1) % Parts) + 1]
    <3>1. part - 1 + (lost + 1) = n + 1
      BY <1>1
    <3> QED
      BY <3>1, Zenon DEF Input!Ahead
  <2> HIDE DEF n
  <2>2. n % Parts \in 0 .. Parts - 1
    BY <1>2, Quotient
  <2>3. n % Parts < Parts - 1
    BY <1>2, <2>2
  <2>4. (n + 1) % Parts = (n % Parts) + 1 /\ (n + 1) \div Parts = n \div Parts
    BY <1>2, <2>3, Quotient
  <2> QED
    BY <1>2, <2>1, <2>4
<1> DEFINE s == (seq + lost) % SeqModulus
<1>5. Input!Kept(s) = <<>> \/ (Input!Kept(s) = buffer_ /\ (buffer_ = <<>> \/ lost = 0))
  <2> SUFFICES ASSUME buffer_ # <<>>, Input!Kept(s) # <<>>
               PROVE  Input!Kept(s) = buffer_ /\ lost = 0
    BY DEF Input!Kept
  <2>1. hasLastSeq_ /\ seq = (lastSeq_ + 1) % SeqModulus
    BY DEF InputInv, DocInv
  <2>2. Input!Kept(s) = buffer_ /\ s = seq
    BY <2>1 DEF Input!Kept
  <2>3. lost = 0
    <3> SUFFICES ASSUME lost >= 1 PROVE FALSE
      BY <1>1
    <3> DEFINE x == seq + lost
    <3>1. x \in Nat /\ x < 2 * SeqModulus /\ x # seq /\ x - SeqModulus # seq /\ s = x % SeqModulus
      BY <1>1
    <3> HIDE DEF x, s
    <3>2. /\ x < SeqModulus => x % SeqModulus = x
          /\ SeqModulus <= x /\ x < 2 * SeqModulus => x % SeqModulus = x - SeqModulus
      BY <3>1, Quotient
    <3> QED
      BY <2>2, <3>1, <3>2
  <2> QED
    BY <2>2, <2>3
<1> HIDE DEF s, n
<1>6. EndsAt(Append(<<>>, <<d, p>>), d, p)
  BY <1>3 DEF EndsAt
<1>7. ASSUME lost = 0
      PROVE  EndsAt(Append(buffer_, <<d, p>>), d, p)
  <2>1. n = part - 1
    BY <1>1, <1>7 DEF n
  <2>2. d = doc /\ p = part
    <3>1. n < Parts
      BY <1>1, <2>1
    <3>2. n % Parts = n /\ n \div Parts = 0
      BY <1>2, <3>1, Quotient
    <3> QED
      BY <1>1, <1>2, <2>1, <3>2
  <2>3. EndsAt(buffer_, doc, part - 1)
    BY DEF InputInv, DocInv
  <2> DEFINE b == buffer_
  <2>4. /\ b \in Seq(Nat \X Nat) /\ Len(b) <= p - 1
        /\ \A i \in 1 .. Len(b) : b[i] = <<d, (p - 1) - Len(b) + i>>
    BY <2>2, <2>3 DEF EndsAt
  <2> HIDE DEF b
  <2> DEFINE text == Append(b, <<d, p>>)
  <2>5. /\ text \in Seq(Nat \X Nat) /\ Len(text) = Len(b) + 1 /\ Len(b) \in Nat
        /\ text[Len(b) + 1] = <<d, p>>
        /\ \A i \in 1 .. Len(b) : text[i] = b[i]
    BY <1>3, <2>4
  <2> HIDE DEF text
  <2>6. \A i \in 1 .. Len(text) : text[i] = <<d, p - Len(text) + i>>
    <3> TAKE i \in 1 .. Len(text)
    <3>1. CASE i = Len(b) + 1
      <4>1. p - Len(text) + i = p
        BY <1>3, <2>5, <3>1
      <4> QED
        BY <2>5, <3>1, <4>1
    <3>2. CASE i \in 1 .. Len(b)
      <4>1. p - Len(text) + i = (p - 1) - Len(b) + i
        <5>1. Len(b) \in Nat /\ Len(text) = Len(b) + 1
          BY <2>5
        <5>2. p \in Nat
          BY <1>3
        <5>3. i \in Nat
          BY <3>2, <5>1
        <5> HIDE DEF b, text
        <5> QED
          BY <5>1, <5>2, <5>3
      <4> QED
        BY <2>4, <2>5, <3>2, <4>1
    <3> QED
      BY <2>5, <3>1, <3>2
  <2>7. Len(text) <= p
    BY <1>3, <2>4, <2>5
  <2> QED
    BY <2>5, <2>6, <2>7 DEF EndsAt, text, b
<1>8. EndsAt(Append(Input!Kept(s), <<d, p>>), d, p)
  <2>1. CASE Input!Kept(s) = <<>>
    BY <1>6, <2>1
  <2>2. CASE Input!Kept(s) = buffer_ /\ buffer_ = <<>>
    BY <1>6, <2>2
  <2>3. CASE Input!Kept(s) = buffer_ /\ lost = 0
    BY <1>7, <2>3
  <2> QED
    BY <1>5, <2>1, <2>2, <2>3
<1> QED
  BY <1>3, <1>4, <1>8 DEF s

LEMMA ReceiveInv == InputInv /\ Input!Receive => InputInv'
<1> SUFFICES ASSUME InputInv, Input!Receive PROVE InputInv'
  OBVIOUS
<1> USE InputConstants
<1>1. StageInv'
  BY DEF InputInv, StageInv, Input!Receive, Input!graphVars, Input!stopVars,
     Input!WorkerReleased, Input!Joinable
<1>2. PICK lost \in 0 .. MaxLost :
        /\ IF bare THEN Input!FeedBare(Input!Ahead(lost).doc, Input!Ahead(lost).part)
                   ELSE Input!Feed(Input!Ahead(lost).doc, Input!Ahead(lost).part,
                                   (seq + lost) % SeqModulus)
        /\ doc' = Input!Ahead(lost + 1).doc /\ part' = Input!Ahead(lost + 1).part
        /\ seq' = (seq + lost + 1) % SeqModulus /\ bare' = bare
  BY DEF Input!Receive
<1> DEFINE d == Input!Ahead(lost).doc
           p == Input!Ahead(lost).part
           s == (seq + lost) % SeqModulus
           text == Append(Input!Kept(s), <<d, p>>)
<1>3. /\ d \in Nat /\ p \in 1 .. Parts /\ EndsAt(text, d, p)
      /\ p < Parts => Input!Ahead(lost + 1) = [doc |-> d, part |-> p + 1]
  BY Feeding
<1>4. ASSUME ~bare
      PROVE  /\ lastSeq_' = s /\ hasLastSeq_' = TRUE
             /\ p = Parts => buffer_' = <<>> /\ completed' = [text |-> text, bare |-> bare]
             /\ p # Parts => buffer_' = text /\ completed' = completed
  <2>1. Input!Feed(d, p, s)
    BY <1>2, <1>4
  <2> HIDE DEF d, p, s
  <2> QED
    BY <2>1 DEF Input!Feed, Input!handleXml
<1>4b. ASSUME bare
       PROVE  /\ UNCHANGED <<buffer_, lastSeq_, hasLastSeq_>>
              /\ \/ completed' = [text |-> <<<<d, p>>>>, bare |-> bare]
                 \/ completed' = completed
  <2>1. Input!FeedBare(d, p)
    BY <1>2, <1>4b
  <2> HIDE DEF d, p, s
  <2> QED
    BY <2>1 DEF Input!FeedBare, Input!handleXml, Input!reassemblerVars
<1>5. /\ lost \in Nat /\ doc \in Nat /\ part \in 1 .. Parts /\ seq \in 0 .. SeqModulus - 1
      /\ TextInv
  BY DEF InputInv, DocInv
<1>6. doc' \in Nat /\ part' \in 1 .. Parts
  <2> DEFINE m == part - 1 + (lost + 1)
  <2>1. m \in Nat /\ doc' = doc + m \div Parts /\ part' = (m % Parts) + 1
    BY <1>2, <1>5 DEF Input!Ahead
  <2>2. m \div Parts \in Nat /\ m % Parts \in 0 .. Parts - 1
    BY <2>1, Quotient
  <2> HIDE DEF m
  <2>3. doc + m \div Parts \in Nat /\ (m % Parts) + 1 \in 1 .. Parts
    BY <1>5, <2>2
  <2> QED
    BY <2>1, <2>3
<1>7. /\ s \in 0 .. SeqModulus - 1 /\ seq' \in 0 .. SeqModulus - 1
      /\ seq' = (s + 1) % SeqModulus
  <2> DEFINE x == seq + lost
  <2>1. x \in Nat /\ s = x % SeqModulus /\ seq' = (x + 1) % SeqModulus /\ x + 1 \in Nat
    BY <1>2, <1>5
  <2> HIDE DEF x, s
  <2> QED
    BY <2>1, Quotient, NextRemainder
<1> HIDE DEF d, p, s, text
<1>8. ASSUME NEW q \in Nat PROVE EndsAt(<<>>, doc', q)
  BY DEF EndsAt
<1>9. part' - 1 \in Nat
  <2> DEFINE q == part'
  <2>1. q \in 1 .. Parts
    BY <1>6
  <2> HIDE DEF q
  <2>2. q - 1 \in Nat
    BY <2>1
  <2> QED
    BY <2>2 DEF q
<1>10. CASE ~bare
  <2>1. EndsAt(buffer_', doc', part' - 1) /\ TextInv'
    <3>1. CASE p = Parts
      <4>1. completed'.text = text /\ completed'.bare = bare
        BY <1>4, <1>10, <3>1
      <4>2. EndsAt(completed'.text, d, Parts)
        BY <1>3, <3>1, <4>1
      <4> QED
        BY <1>3, <1>4, <1>8, <1>9, <1>10, <3>1, <4>1, <4>2 DEF TextInv
    <3>2. CASE p # Parts
      <4>1. doc' = d /\ part' = p + 1
        BY <1>2, <1>3, <3>2
      <4>2. part' - 1 = p
        BY <1>3, <4>1
      <4> QED
        BY <1>3, <1>4, <1>5, <1>10, <3>2, <4>1, <4>2 DEF TextInv
    <3> QED
      BY <3>1, <3>2
  <2>2. ~bare'
    BY <1>2, <1>10
  <2>3. DocInv'
    BY <1>4, <1>6, <1>7, <1>10, <2>1, <2>2 DEF DocInv
  <2> QED
    BY <1>1, <2>3 DEF InputInv
<1>11. CASE bare
  <2>1. /\ ~hasLastSeq_' /\ buffer_' = <<>> /\ hasLastSeq_' \in BOOLEAN
        /\ lastSeq_' \in 0 .. SeqModulus - 1
    BY <1>4b, <1>11 DEF InputInv, DocInv
  <2>2. EndsAt(buffer_', doc', part' - 1)
    BY <1>8, <1>9, <2>1
  <2>3. TextInv'
    <3>1. Len(<<<<d, p>>>>) = 1
      OBVIOUS
    <3> QED
      BY <1>4b, <1>5, <1>11, <3>1 DEF TextInv
  <2>4. DocInv'
    BY <1>6, <1>7, <2>1, <2>2, <2>3 DEF DocInv
  <2> QED
    BY <1>1, <2>4 DEF InputInv
<1> QED
  BY <1>10, <1>11

\* The next attempt reads a stream of its own.
LEMMA LaunchInv == InputInv /\ Input!Launch => InputInv'
<1> SUFFICES ASSUME InputInv, Input!Launch PROVE InputInv'
  OBVIOUS
<1> USE InputConstants
<1>1. StageInv'
  BY DEF InputInv, StageInv, Input!Launch, Input!graphVars, Input!stopVars, Input!sessionVars,
     Input!WorkerReleased, Input!Joinable, Input!GivenUp
<1>2. DocInv'
  <2>1. doc' = doc /\ part' = part /\ completed' = completed
    BY DEF Input!Launch
  <2>2. CASE running
    <3>1. /\ buffer_' = <<>> /\ lastSeq_' = 0 /\ ~hasLastSeq_' /\ hasLastSeq_' \in BOOLEAN
          /\ seq' \in 0 .. SeqModulus - 1
      BY <2>2 DEF Input!Launch, Input!Fresh
    <3>2. EndsAt(<<>>, doc, part - 1)
      <4>1. part - 1 \in Nat
        BY DEF InputInv, DocInv
      <4> QED
        BY <4>1 DEF EndsAt
    <3>3. EndsAt(buffer_', doc', part' - 1)
      BY <2>1, <3>1, <3>2
    <3>4. TextInv' /\ doc' \in Nat /\ part' \in 1 .. Parts
      BY <2>1 DEF InputInv, DocInv, TextInv
    <3>5. 0 \in 0 .. SeqModulus - 1
      OBVIOUS
    <3> QED
      BY <3>1, <3>3, <3>4, <3>5 DEF DocInv, EndsAt
  <2>3. CASE ~running
    BY <2>1, <2>3 DEF InputInv, DocInv, TextInv, EndsAt, Input!Launch, Input!reassemblerVars
  <2> QED
    BY <2>2, <2>3
<1> QED
  BY <1>1, <1>2 DEF InputInv

\* Every other step leaves the documents alone.
LEMMA RunInv ==
  InputInv /\ (\/ Input!Register \/ Input!Play \/ Input!Close \/ Input!Release \/ Input!Retry
               \/ Input!GiveUpSilence \/ Input!SessionStops \/ Input!LogConnected
               \/ Input!EndSession \/ Input!StopBegins \/ Input!StopStep \/ UNCHANGED Input!vars)
    => InputInv'
<1> SUFFICES ASSUME InputInv,
        \/ Input!Register \/ Input!Play \/ Input!Close \/ Input!Release \/ Input!Retry
        \/ Input!GiveUpSilence \/ Input!SessionStops \/ Input!LogConnected
        \/ Input!EndSession \/ Input!StopBegins \/ Input!StopStep \/ UNCHANGED Input!vars
             PROVE  InputInv'
  OBVIOUS
<1> USE InputConstants
<1>1. UNCHANGED <<doc, part, seq, bare, buffer_, lastSeq_, hasLastSeq_, completed>>
  BY DEF Input!Register, Input!Play, Input!Close, Input!Release, Input!Retry,
     Input!GiveUpSilence, Input!SessionStops, Input!LogConnected, Input!EndSession,
     Input!StopBegins, Input!StopStep, Input!TakeReference, Input!Lower, Input!StopJoins,
     Input!vars, Input!cameraVars, Input!reassemblerVars
<1>2. DocInv'
  BY <1>1 DEF InputInv, DocInv, TextInv, EndsAt
<1> USE DEF InputInv, StageInv, Input!graphVars, Input!stopVars, Input!sessionVars,
     Input!WorkerReleased, Input!Joinable
<1>3. CASE Input!Register \/ Input!Play \/ Input!Close \/ Input!Retry \/ Input!SessionStops
  <2>1. CASE Input!Register
    BY <1>2, <2>1 DEF Input!Register
  <2>2. CASE Input!Play
    BY <1>2, <2>2 DEF Input!Play
  <2>3. CASE Input!Close
    BY <1>2, <2>3 DEF Input!Close
  <2>4. CASE Input!Retry \/ Input!SessionStops
    BY <1>2, <2>4 DEF Input!Retry, Input!SessionStops
  <2> QED
    BY <1>3, <2>1, <2>2, <2>3, <2>4
<1>4. CASE Input!Release
  BY <1>2, <1>4 DEF Input!Release, Input!Released, Input!GivenUp
<1>5. CASE Input!GiveUpSilence \/ Input!LogConnected \/ Input!EndSession
  BY <1>2, <1>5 DEF Input!GiveUpSilence, Input!LogConnected, Input!EndSession
<1>6. CASE Input!StopBegins
  BY <1>2, <1>6 DEF Input!StopBegins
<1>7. CASE Input!StopStep
  <2>1. CASE Input!TakeReference
    BY <1>2, <2>1 DEF Input!TakeReference
  <2>2. CASE Input!Lower
    BY <1>2, <2>2 DEF Input!Lower
  <2>3. CASE Input!StopJoins
    BY <1>2, <2>3 DEF Input!StopJoins
  <2> QED
    BY <1>7, <2>1, <2>2, <2>3 DEF Input!StopStep
<1>8. CASE UNCHANGED Input!vars
  BY <1>2, <1>8 DEF Input!vars
<1> QED
  BY <1>3, <1>4, <1>5, <1>6, <1>7, <1>8

LEMMA InputStep == InputInv /\ [Input!Next]_(Input!vars) => InputInv'
BY ReceiveInv, LaunchInv, RunInv DEF Input!Next, Input!RunStep

LEMMA InputIsSafe == InputInv => Input!Safety
<1> SUFFICES ASSUME InputInv PROVE Input!Safety
  OBVIOUS
<1> USE InputConstants
<1>1. Input!TypeOK
  BY DEF InputInv, StageInv, DocInv, EndsAt, Input!TypeOK
<1>2. Input!NeverSpliced
  <2> DEFINE text == completed.text
             n == Len(text)
  <2>1. TextInv
    BY DEF InputInv, DocInv
  <2>2. CASE completed.bare
    BY <2>1, <2>2 DEF TextInv, Input!NeverSpliced
  <2>3. CASE ~completed.bare
    <3>1. PICK d \in Nat : EndsAt(text, d, Parts)
      BY <2>1, <2>3 DEF TextInv
    <3> SUFFICES ASSUME NEW i \in 1 .. n PROVE text[i] = <<text[n][1], Parts - n + i>>
      BY <2>3 DEF Input!NeverSpliced
    <3> HIDE DEF text
    <3>2. text[i] = <<d, Parts - n + i>> /\ n \in Nat
      BY <3>1 DEF EndsAt
    <3>3. text[n] = <<d, Parts - n + n>>
      BY <3>1, <3>2 DEF EndsAt
    <3> QED
      BY <3>2, <3>3
  <2> QED
    BY <2>2, <2>3
<1>3. Input!PlayingIsForgiven /\ Input!StopTouchesLiveGraph /\ Input!StoppedIsSilent
  BY DEF InputInv, StageInv, Input!PlayingIsForgiven, Input!StopTouchesLiveGraph,
     Input!StoppedIsSilent, Input!WorkerReleased, Input!Joinable
<1> QED
  BY <1>1, <1>2, <1>3 DEF Input!Safety

-----------------------------------------------------------------------------
(* The sensors' uplink                                                     *)

Values == [Sensors -> 0 .. MaxValue]
Readings == [Sensors -> Uplink!Reading]

\* A sample of the terminal, in which what is valid was polled.
Sample(t, body) ==
  /\ body.camera = t
  /\ \A s \in Sensors : body.readings[s].valid =>
       body.polled[s] # 0 /\ body.readings[s].value = body.polled[s]

\* What is under way to a terminal's topic is garbage, or that terminal's sample.
Bodies ==
  {Uplink!Bad, Uplink!Foreign} \cup [camera : Terminals, readings : Readings, polled : Values]
Messages ==
  {m \in [topic : Terminals \cup Strangers, body : Bodies] :
     m.topic \in Terminals /\ m.body # Uplink!Bad => Sample(m.topic, m.body)}

UplinkInv ==
  /\ last_valid \in [Terminals -> Readings]
  /\ inFlight \in Seq(Messages) /\ Len(inFlight) <= MaxInFlight
  /\ DOMAIN latest_by_terminal_ = Terminals
  /\ \A t \in Terminals :
       latest_by_terminal_[t] # Uplink!None => Sample(t, latest_by_terminal_[t])
  /\ age \in [Terminals -> 0 .. Timeout + 1] /\ silence = age
  /\ reader # Uplink!Idle =>
       /\ reader.terminal \in Terminals /\ Sample(reader.terminal, reader.sample)
       /\ reader.stale => reader.silence = Timeout + 1

LEMMA UplinkConstants ==
  /\ MaxValue \in Nat /\ Timeout \in Nat /\ MaxInFlight \in Nat /\ MaxInFlight >= 1
  /\ \A t \in Terminals : t \notin Strangers
BY InputAssumption DEF Uplink!ConstantAssumption

LEMMA UplinkInit == Uplink!Init => UplinkInv
<1> SUFFICES ASSUME Uplink!Init PROVE UplinkInv
  OBVIOUS
<1>1. /\ last_valid = [t \in Terminals |-> [s \in Sensors |-> [valid |-> FALSE, value |-> 0]]]
      /\ inFlight = <<>> /\ reader = Uplink!Idle
      /\ latest_by_terminal_ = [t \in Terminals |-> Uplink!None]
      /\ age = [t \in Terminals |-> Timeout + 1] /\ silence = age
  BY DEF Uplink!Init
<1>2. [valid |-> FALSE, value |-> 0] \in Uplink!Reading
  BY UplinkConstants DEF Uplink!Reading
<1>3. last_valid \in [Terminals -> Readings]
  BY <1>1, <1>2 DEF Readings
<1>4. age \in [Terminals -> 0 .. Timeout + 1]
  BY <1>1, UplinkConstants
<1>5. <<>> \in Seq(Messages) /\ Len(<<>>) <= MaxInFlight
  BY UplinkConstants
<1> QED
  BY <1>1, <1>3, <1>4, <1>5 DEF UplinkInv

LEMMA PublishInv == ASSUME NEW t \in Terminals, UplinkInv, Uplink!Publish(t) PROVE UplinkInv'
<1>1. PICK polled \in Values :
        LET now == [s \in Sensors |-> Uplink!Updated(last_valid[t][s], polled[s])] IN
        /\ last_valid' = [last_valid EXCEPT ![t] = now]
        /\ \/ /\ Len(inFlight) < MaxInFlight
              /\ inFlight' = Append(inFlight, [topic |-> t, body |-> [camera |-> t, readings |-> now, polled |-> polled]])
           \/ UNCHANGED inFlight
  BY DEF Uplink!Publish, Values
<1> DEFINE now == [s \in Sensors |-> Uplink!Updated(last_valid[t][s], polled[s])]
           body == [camera |-> t, readings |-> now, polled |-> polled]
           m == [topic |-> t, body |-> body]
<1>2. \A s \in Sensors :
        /\ Uplink!Updated(last_valid[t][s], polled[s]) \in Uplink!Reading
        /\ Uplink!Updated(last_valid[t][s], polled[s]).valid =>
             polled[s] # 0 /\ Uplink!Updated(last_valid[t][s], polled[s]).value = polled[s]
  <2> TAKE s \in Sensors
  <2>1. last_valid[t][s] \in [valid : BOOLEAN, value : 0 .. MaxValue] /\ polled[s] \in 0 .. MaxValue
    BY DEF UplinkInv, Readings, Values, Uplink!Reading
  <2>2. CASE polled[s] # 0
    BY <2>1, <2>2 DEF Uplink!Updated, Uplink!Reading
  <2>3. CASE polled[s] = 0
    BY <2>1, <2>3 DEF Uplink!Updated, Uplink!Reading
  <2> QED
    BY <2>2, <2>3
<1>3. now \in Readings
  BY <1>2 DEF Readings
<1>4. Sample(t, body)
  BY <1>2 DEF Sample
<1>5. m \in Messages
  <2>1. body \in Bodies
    BY <1>3 DEF Bodies
  <2> QED
    BY <1>4, <2>1 DEF Messages
<1>6. /\ last_valid' = [last_valid EXCEPT ![t] = now]
      /\ \/ Len(inFlight) < MaxInFlight /\ inFlight' = Append(inFlight, m)
         \/ UNCHANGED inFlight
  BY <1>1
<1> HIDE DEF now, body, m
<1>7. last_valid' \in [Terminals -> Readings]
  BY <1>3, <1>6 DEF UplinkInv
<1>8. inFlight' \in Seq(Messages) /\ Len(inFlight') <= MaxInFlight
  <2>1. inFlight \in Seq(Messages) /\ Len(inFlight) <= MaxInFlight
    BY DEF UplinkInv
  <2>2. CASE Len(inFlight) < MaxInFlight /\ inFlight' = Append(inFlight, m)
    BY <1>5, <2>1, <2>2, UplinkConstants
  <2> QED
    BY <1>6, <2>1, <2>2
<1>9. UNCHANGED <<latest_by_terminal_, age, silence, reader>>
  BY DEF Uplink!Publish, Uplink!receiverVars, Uplink!readerVars
<1> QED
  BY <1>7, <1>8, <1>9 DEF UplinkInv, Sample

LEMMA onMessageInv == UplinkInv /\ Uplink!onMessage => UplinkInv'
<1> SUFFICES ASSUME UplinkInv, Uplink!onMessage PROVE UplinkInv'
  OBVIOUS
<1> DEFINE m == Head(inFlight)
           t == m.topic
<1>1. /\ inFlight # <<>> /\ inFlight' = Tail(inFlight)
      /\ last_valid' = last_valid /\ reader' = reader
  BY DEF Uplink!onMessage, Uplink!publisherVars, Uplink!readerVars
<1>2. m \in Messages /\ Tail(inFlight) \in Seq(Messages)
      /\ Len(Tail(inFlight)) <= MaxInFlight
  BY <1>1, UplinkConstants DEF UplinkInv
<1>3. CASE Uplink!Usable(m)
  <2>1. t \in Terminals /\ m.body # Uplink!Bad /\ Sample(t, m.body)
    BY <1>2, <1>3 DEF Uplink!Usable, Messages
  <2>2. /\ latest_by_terminal_' = Uplink!Assigned(latest_by_terminal_, t, m.body)
        /\ age' = Uplink!Assigned(age, t, 0)
        /\ silence' = [silence EXCEPT ![t] = 0]
    BY <1>3, <2>1 DEF Uplink!onMessage
  <2> HIDE DEF m
  <2>3. Terminals \cup {t} = Terminals
    BY <2>1
  <2>4. age \in [Terminals -> 0 .. Timeout + 1] /\ DOMAIN age = Terminals /\ silence = age
        /\ DOMAIN latest_by_terminal_ = Terminals
    BY DEF UplinkInv
  <2>5. age' = [k \in Terminals |-> IF k = t THEN 0 ELSE age[k]]
    BY <2>2, <2>3, <2>4 DEF Uplink!Assigned
  <2>9. silence' = [k \in Terminals |-> IF k = t THEN 0 ELSE age[k]]
    BY <2>1, <2>2, <2>4
  <2>10. [k \in Terminals |-> IF k = t THEN 0 ELSE age[k]] \in [Terminals -> 0 .. Timeout + 1]
    BY <2>4, UplinkConstants
  <2>6. silence' = age' /\ age' \in [Terminals -> 0 .. Timeout + 1]
    BY <2>5, <2>9, <2>10
  <2>7. latest_by_terminal_' = [k \in Terminals |-> IF k = t THEN m.body ELSE latest_by_terminal_[k]]
    BY <2>2, <2>3, <2>4 DEF Uplink!Assigned
  <2>8. /\ DOMAIN latest_by_terminal_' = Terminals
        /\ \A k \in Terminals :
             latest_by_terminal_'[k] # Uplink!None => Sample(k, latest_by_terminal_'[k])
    BY <2>1, <2>7 DEF UplinkInv
  <2> QED
    BY <1>1, <1>2, <2>6, <2>8 DEF UplinkInv, Sample, Uplink!None
<1>4. CASE ~Uplink!Usable(m)
  <2>1. UNCHANGED <<latest_by_terminal_, age>>
    BY <1>4 DEF Uplink!onMessage
  <2>2. silence' = silence
    BY <1>4 DEF Uplink!onMessage, Uplink!Usable
  <2> HIDE DEF m
  <2> QED
    BY <1>1, <1>2, <2>1, <2>2 DEF UplinkInv, Sample
<1> QED
  BY <1>3, <1>4

LEMMA ReaderInv ==
  ASSUME UplinkInv, (\E t \in Terminals : Uplink!getLatest(t)) \/ Uplink!Judge
  PROVE  UplinkInv'
<1>1. UNCHANGED <<last_valid, inFlight, latest_by_terminal_, age, silence>>
  BY DEF Uplink!getLatest, Uplink!Judge, Uplink!publisherVars, Uplink!receiverVars
<1>2. reader' # Uplink!Idle =>
        /\ reader'.terminal \in Terminals /\ Sample(reader'.terminal, reader'.sample)
        /\ reader'.stale => reader'.silence = Timeout + 1
  <2>1. CASE Uplink!Judge
    BY <2>1 DEF Uplink!Judge
  <2>2. ASSUME NEW t \in Terminals, Uplink!getLatest(t)
        PROVE  reader' # Uplink!Idle =>
                 /\ reader'.terminal \in Terminals /\ Sample(reader'.terminal, reader'.sample)
                 /\ reader'.stale => reader'.silence = Timeout + 1
    <3>1. CASE latest_by_terminal_[t] = Uplink!None
      BY <2>2, <3>1 DEF Uplink!getLatest
    <3>2. CASE latest_by_terminal_[t] # Uplink!None
      <4>1. reader' = [terminal |-> t, sample |-> latest_by_terminal_[t],
                       stale |-> Uplink!isStale(t), silence |-> silence[t]]
        BY <2>2, <3>2 DEF Uplink!getLatest
      <4>2. /\ reader'.terminal = t /\ reader'.sample = latest_by_terminal_[t]
            /\ reader'.silence = silence[t] /\ (reader'.stale <=> Uplink!isStale(t))
        BY <4>1
      <4>3. Uplink!isStale(t) => silence[t] = Timeout + 1
        BY <3>2, UplinkConstants DEF UplinkInv, Uplink!isStale
      <4> QED
        BY <3>2, <4>2, <4>3 DEF UplinkInv
    <3> QED
      BY <3>1, <3>2
  <2> QED
    BY <2>1, <2>2
<1> QED
  BY <1>1, <1>2 DEF UplinkInv, Sample, Uplink!Idle

LEMMA UplinkStep == UplinkInv /\ [Uplink!Next]_(Uplink!vars) => UplinkInv'
<1> SUFFICES ASSUME UplinkInv, [Uplink!Next]_(Uplink!vars) PROVE UplinkInv'
  OBVIOUS
<1>1. ASSUME NEW t \in Terminals, Uplink!Publish(t) PROVE UplinkInv'
  BY <1>1, PublishInv
<1>2. ASSUME NEW t \in Terminals, Uplink!Dies(t) PROVE UplinkInv'
  BY <1>2 DEF UplinkInv, Sample, Uplink!Dies, Uplink!receiverVars, Uplink!readerVars
<1>3. ASSUME NEW t \in Terminals, Uplink!Restarts(t) PROVE UplinkInv'
  <2>1. [s \in Sensors |-> [valid |-> FALSE, value |-> 0]] \in Readings
    BY UplinkConstants DEF Readings, Uplink!Reading
  <2>2. last_valid' \in [Terminals -> Readings]
    BY <1>3, <2>1 DEF UplinkInv, Uplink!Restarts
  <2> QED
    BY <1>3, <2>2 DEF UplinkInv, Sample, Uplink!Restarts, Uplink!receiverVars,
       Uplink!readerVars
<1>4. CASE Uplink!Stray
  <2>1. PICK topic \in Terminals \cup Strangers, body \in {Uplink!Bad, Uplink!Foreign} :
          /\ body = Uplink!Bad \/ topic \in Strangers
          /\ inFlight' = Append(inFlight, [topic |-> topic, body |-> body])
    BY <1>4 DEF Uplink!Stray
  <2>2. [topic |-> topic, body |-> body] \in Messages
    <3>1. body \in Bodies
      BY DEF Bodies
    <3> QED
      BY <2>1, <3>1, UplinkConstants DEF Messages
  <2>3. inFlight' \in Seq(Messages) /\ Len(inFlight') <= MaxInFlight
    BY <1>4, <2>1, <2>2, UplinkConstants DEF UplinkInv, Uplink!Stray
  <2> QED
    BY <1>4, <2>3 DEF UplinkInv, Sample, Uplink!Stray, Uplink!publisherVars,
       Uplink!receiverVars, Uplink!readerVars
<1>5. CASE Uplink!onMessage
  BY <1>5, onMessageInv
<1>6. CASE Uplink!onDisconnect \/ Uplink!onConnect
  <2>1. <<>> \in Seq(Messages) /\ Len(<<>>) <= MaxInFlight
    BY UplinkConstants
  <2>2. inFlight' = <<>> /\ UNCHANGED <<last_valid, latest_by_terminal_, age, silence, reader>>
    BY <1>6 DEF Uplink!onDisconnect, Uplink!onConnect, Uplink!publisherVars,
       Uplink!receiverVars, Uplink!readerVars
  <2>3. inFlight' \in Seq(Messages) /\ Len(inFlight') <= MaxInFlight
    BY <2>1, <2>2
  <2> QED
    BY <2>2, <2>3 DEF UplinkInv, Sample
<1>7. CASE (\E t \in Terminals : Uplink!getLatest(t)) \/ Uplink!Judge
  BY <1>7, ReaderInv
<1>8. CASE Uplink!Tick
  <2>1. age' \in [Terminals -> 0 .. Timeout + 1] /\ silence' = age'
    BY <1>8, UplinkConstants DEF UplinkInv, Uplink!Tick
  <2> QED
    BY <1>8, <2>1 DEF UplinkInv, Sample, Uplink!Tick, Uplink!publisherVars, Uplink!readerVars
<1>9. CASE UNCHANGED Uplink!vars
  BY <1>9 DEF UplinkInv, Sample, Uplink!vars, Uplink!publisherVars, Uplink!receiverVars,
     Uplink!readerVars
<1> QED
  BY <1>1, <1>2, <1>3, <1>4, <1>5, <1>6, <1>7, <1>8, <1>9 DEF Uplink!Next

LEMMA UplinkIsSafe == UplinkInv => Uplink!Safety
<1> SUFFICES ASSUME UplinkInv PROVE Uplink!Safety
  OBVIOUS
<1>1. Uplink!TypeOK
  BY UplinkConstants DEF UplinkInv, Uplink!TypeOK, Readings
<1>2. Uplink!TrueReadings
  BY DEF UplinkInv, Uplink!TrueReadings, Uplink!ReadGood, Sample
<1>3. Uplink!StaleOnlyWhenReplaced
  <2> SUFFICES ASSUME reader # Uplink!Idle, Uplink!ReadGood # {}, reader.stale
               PROVE  silence[reader.terminal] < reader.silence
    BY DEF Uplink!StaleOnlyWhenReplaced
  <2>1. reader.terminal \in Terminals /\ reader.silence = Timeout + 1
    BY DEF UplinkInv
  <2>2. ~(age[reader.terminal] > Timeout)
    BY DEF Uplink!ReadGood, Uplink!LooksStale, Uplink!isStale
  <2> QED
    BY <2>1, <2>2, UplinkConstants DEF UplinkInv
<1>4. Uplink!SilenceIsSeen
  BY DEF UplinkInv, Uplink!SilenceIsSeen, Uplink!isStale
<1> QED
  BY <1>1, <1>2, <1>3, <1>4 DEF Uplink!Safety

-----------------------------------------------------------------------------
(* The parts together                                                      *)

\* Documents are never spliced, a camera is excluded only for failures in a
\* row, and stop() touches a live graph and is final (rtsp_metadata_worker.cpp),
\* for any number of packets, retries and losses short of a sequence wrap.
THEOREM InputSafetyHolds == MCSpec => []InputSafety
<1>1. MCInit => InputInv
  BY InputInit DEF MCInit
<1>2. [Tracks(Next) \/ Receives(Input!Next) \/ Reads(Uplink!Next)]_allVars
        => [Input!Next]_(Input!vars)
  BY DEF Tracks, Receives, Reads, allVars, inputVars, Input!vars, Input!sessionVars,
     Input!graphVars, Input!stopVars, Input!reassemblerVars, Input!cameraVars
<1>3. InputInv /\ [Input!Next]_(Input!vars) => InputInv'
  BY InputStep
<1>4. InputInv => InputSafety
  BY InputIsSafe DEF InputSafety
<1> QED
  BY <1>1, <1>2, <1>3, <1>4, PTL DEF MCSpec

\* Values are readings of that terminal's sensors, and silence is seen but for
\* a sample replaced between the two locks (network_sensor_reader.cpp), for any
\* terminals, sensors and timeout.
THEOREM UplinkSafetyHolds == MCSpec => []UplinkSafety
<1>1. MCInit => UplinkInv
  BY UplinkInit DEF MCInit
<1>2. [Tracks(Next) \/ Receives(Input!Next) \/ Reads(Uplink!Next)]_allVars
        => [Uplink!Next]_(Uplink!vars)
  BY DEF Tracks, Receives, Reads, allVars, uplinkVars, Uplink!vars, Uplink!publisherVars,
     Uplink!receiverVars, Uplink!readerVars
<1>3. UplinkInv /\ [Uplink!Next]_(Uplink!vars) => UplinkInv'
  BY UplinkStep
<1>4. UplinkInv => UplinkSafety
  BY UplinkIsSafe DEF UplinkSafety
<1> QED
  BY <1>1, <1>2, <1>3, <1>4, PTL DEF MCSpec
=============================================================================
