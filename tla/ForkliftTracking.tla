-------------------------- MODULE ForkliftTracking --------------------------
(***************************************************************************)
(* SafetyFramePipeline (safety_frame_pipeline.cpp): where the server holds *)
(* the forklift to be, and which camera stream it assigns to the operator, *)
(* from the ArUco frames of all streams.                                   *)
(*                                                                         *)
(* A frame is its stream and the pixel area of the forklift's marker, 0    *)
(* when it shows none that maps to the floor.  A time point is kept as its *)
(* age in ticks, up to Horizon.  Ticks of the judgment read this state and *)
(* leave it as it is.                                                      *)
(***************************************************************************)
EXTENDS Integers

CONSTANTS
  Streams,     \* stream_identity_: the configured streams
  NoStream,    \* no value of active_stream_, or of a sighting's stream
  Areas,       \* pixel areas a marker may have
  Freshness,   \* track_freshness_ms, in ticks
  Grace,       \* lost_grace_ms, in ticks
  MaxGap       \* bound: ticks without an ArUco frame of any stream

\* safety_server_config.cpp:441-445.
ASSUME ConfigAssumption ==
  /\ Freshness \in Nat \ {0} /\ Grace \in Nat /\ MaxGap \in Nat \ {0}
  /\ Areas \subseteq Nat \ {0}
  /\ NoStream \notin Streams

Horizon == Freshness + Grace + MaxGap + 1
Age == 0 .. Horizon
Older(age) == IF age < Horizon THEN age + 1 ELSE age

NotMissing == -1
NoSighting == [area |-> 0, age |-> 0]

VARIABLES
  stream_sightings_,      \* per stream, area 0 without an entry
  forklift_sighting_,     \* stream and age of the position in use
  any_target_,            \* any_target_marker_visible_, any_target_with_homography_
  marker_missing_since_,  \* its age, or NotMissing
  active_stream_

\* History, for the properties only.
VARIABLES
  last_frame,   \* stream of the latest frame, and whether it showed the marker
  shows,        \* per stream, whether its latest frame showed it
  frame_age     \* its age

pipelineVars == <<stream_sightings_, forklift_sighting_, any_target_,
                  marker_missing_since_, active_stream_>>
vars == <<pipelineVars, last_frame, shows, frame_age>>

-----------------------------------------------------------------------------
\* Bug: a sighting is never too old.
BugNeverStale(sighting) == sighting.area > 0

Fresh(sighting) == sighting.area > 0 /\ sighting.age <= Freshness

FreshViews(sightings) == {s \in Streams : Fresh(sightings[s])}

\* bestFreshSighting: the largest view; of equal ones the active stream, or
\* the newest.  Which of two seen in one tick is newer is left open.
BestViews(sightings) ==
  LET largest == {s \in FreshViews(sightings) :
                    \A t \in FreshViews(sightings) : sightings[t].area <= sightings[s].area}
  IN IF active_stream_ \in largest THEN {active_stream_}
     ELSE {s \in largest : \A t \in largest : sightings[s].age <= sightings[t].age}

\* The active stream is kept unless the best view is 1.3 times as large.
KeepsActive(sightings, best) ==
  /\ active_stream_ \in FreshViews(sightings)
  /\ 10 * sightings[best].area < 13 * sightings[active_stream_].area

selectAssignment(sightings, best) ==
  active_stream_' = IF KeepsActive(sightings, best) THEN active_stream_ ELSE best

\* refreshGlobalForkliftSighting and selectAssignment, with a fresh sighting.
Localize(sightings) ==
  \E best \in BestViews(sightings) :
    /\ forklift_sighting_' = [stream |-> best, age |-> sightings[best].age]
    /\ any_target_' = TRUE
    /\ marker_missing_since_' = NotMissing
    /\ selectAssignment(sightings, best)

\* Bug: the grace time starts again with every frame that misses the marker.
BugRestartsGrace == marker_missing_since_' = 0

StartGrace ==
  marker_missing_since_' =
    IF marker_missing_since_ = NotMissing THEN 0 ELSE marker_missing_since_

\* The same without one: the position stays, the grace time runs.
MissMarker ==
  /\ any_target_' = FALSE
  /\ StartGrace
  /\ UNCHANGED <<forklift_sighting_, active_stream_>>

\* The frame replaces, or erases, the sighting of its own stream only.
RecordSighting(stream, area) ==
  [stream_sightings_ EXCEPT ![stream] = [area |-> area, age |-> 0]]

processArucoStreamFrame(stream, area) ==
  LET sightings == RecordSighting(stream, area) IN
  /\ stream_sightings_' = sightings
  /\ IF FreshViews(sightings) # {} THEN Localize(sightings) ELSE MissMarker
  /\ last_frame' = [stream |-> stream, visible |-> area > 0]
  /\ shows' = [shows EXCEPT ![stream] = area > 0]
  /\ frame_age' = 0

Elapse ==
  /\ frame_age < MaxGap
  /\ stream_sightings_' =
       [s \in Streams |-> IF stream_sightings_[s].area = 0 THEN NoSighting
                          ELSE [stream_sightings_[s] EXCEPT !.age = Older(@)]]
  /\ forklift_sighting_' = [forklift_sighting_ EXCEPT !.age = Older(@)]
  /\ marker_missing_since_' =
       IF marker_missing_since_ = NotMissing THEN NotMissing
       ELSE Older(marker_missing_since_)
  /\ frame_age' = frame_age + 1
  /\ UNCHANGED <<any_target_, active_stream_, last_frame, shows>>

Init ==
  /\ stream_sightings_ = [s \in Streams |-> NoSighting]
  /\ forklift_sighting_ = [stream |-> NoStream, age |-> Horizon]
  /\ any_target_ = FALSE
  /\ marker_missing_since_ = NotMissing
  /\ active_stream_ = NoStream
  /\ last_frame = [stream |-> NoStream, visible |-> FALSE]
  /\ shows = [s \in Streams |-> FALSE]
  /\ frame_age = 0

Frame == \E s \in Streams, area \in Areas \cup {0} : processArucoStreamFrame(s, area)

Next == Frame \/ Elapse

Spec == Init /\ [][Next]_vars

\* Time passes, and some camera goes on sending frames.
FairSpec == Spec /\ WF_vars(Elapse) /\ WF_vars(Frame)

-----------------------------------------------------------------------------
(* Properties                                                              *)

\* Every member has its type.
TypeOK ==
  /\ stream_sightings_ \in [Streams -> [area : Areas \cup {0}, age : Age]]
  /\ forklift_sighting_ \in [stream : Streams \cup {NoStream}, age : Age]
  /\ any_target_ \in BOOLEAN
  /\ marker_missing_since_ \in Age \cup {NotMissing}
  /\ active_stream_ \in Streams \cup {NoStream}
  /\ last_frame \in [stream : Streams \cup {NoStream}, visible : BOOLEAN]
  /\ shows \in [Streams -> BOOLEAN] /\ frame_age \in 0 .. MaxGap

\* resolvedForkliftWorld: the judgment has a position.
Localized ==
  /\ forklift_sighting_.stream # NoStream
  /\ any_target_ \/ marker_missing_since_ \in 0 .. Grace

\* The streams whose sighting was fresh when the latest frame was processed.
CandidateViews ==
  {s \in Streams : /\ stream_sightings_[s].area > 0
                   /\ stream_sightings_[s].age - frame_age <= Freshness}

\* While the marker counts as visible the position is that of the largest view
\* there is, one that its own stream has not withdrawn by a later frame; when
\* it does not, no stream has a view and the grace time is running.
PositionIsLargestView ==
  /\ any_target_ =>
       LET s == forklift_sighting_.stream IN
       /\ s \in CandidateViews /\ shows[s]
       /\ forklift_sighting_.age = stream_sightings_[s].age
       /\ \A t \in CandidateViews : stream_sightings_[t].area <= stream_sightings_[s].area
  /\ ~any_target_ =>
       /\ CandidateViews = {}
       /\ marker_missing_since_ = NotMissing => last_frame.stream = NoStream

\* The operator is shown a view of the forklift as good as any, up to the
\* factor 1.3 that keeps the screen steady: never a stream that lost the
\* marker or died while another one sees it.
AssignedViewIsGood ==
  any_target_ =>
    /\ active_stream_ \in CandidateViews
    /\ \A t \in CandidateViews :
         10 * stream_sightings_[t].area <= 13 * stream_sightings_[active_stream_].area

\* While frames keep coming, of whichever stream, no judgment is made with a
\* position older than the freshness, one gap between frames and the grace
\* time together.
PositionIsRecent == Localized => forklift_sighting_.age <= Freshness + MaxGap + Grace

\* test_fov_handover.cpp:179: also without new frames an old sighting of the
\* marker expires.
PositionExpires == Localized => frame_age <= Freshness + Grace

\* When in the end only one stream sends frames and they show the marker, the
\* operator is given that stream, however large the marker was last seen in a
\* stream that has died.
ViewFollowsForklift ==
  \A s \in Streams :
    <>[](last_frame = [stream |-> s, visible |-> TRUE]) => <>[](active_stream_ = s)

\* The invariants of the tracking: the position is the largest fresh view and
\* recent, and the assigned view is good.
Safety == TypeOK /\ PositionIsLargestView /\ AssignedViewIsGood /\ PositionIsRecent

=============================================================================
