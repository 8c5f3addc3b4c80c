-------------------------- MODULE MetadataStream --------------------------
(***************************************************************************)
(* One camera's metadata on its way into the server: the StreamWorker of   *)
(* main.cpp with its RTSP session, retries and stop(), and the reassembly  *)
(* of XML documents from RTP packets (rtp_metadata_receiver.cpp).          *)
(*                                                                         *)
(* A packet is a part of a document with a sequence number; the camera     *)
(* loses fewer packets at a time than the sequence numbers wrap after      *)
(* (MaxLost).  A session's packets arrive with their RTP headers or all    *)
(* without, and are ASCII text.  GStreamer is its messages; times are      *)
(* choices.                                                                *)
(***************************************************************************)
EXTENDS Integers, Sequences

CONSTANTS
  Parts,        \* packets of a document; the last one has the marker bit
  SeqModulus,   \* 2^16
  MaxLost,      \* bound: packets lost between two received
  MaxDocs,      \* bound: documents sent
  max_retries

ConstantAssumption ==
  /\ Parts \in Nat \ {0} /\ SeqModulus \in Nat /\ MaxLost \in 0 .. SeqModulus - 1
  /\ MaxDocs \in Nat /\ max_retries \in Nat \ {0}

VARIABLES
  running, stage,          \* the worker: its flag, and where run() is
  reached_playing, failures, saw_metadata, retry_needed,
  graph,                   \* the GStreamer pipeline: "none", "ready", "playing", "null", "freed"
  pipeline,                \* whether the shared pointer names it
  stopper, held,           \* stop(): what is next, and whether it holds a reference
  buffer_, lastSeq_, hasLastSeq_,
  doc, part, seq, bare,    \* the camera's next packet, and whether headers are stripped
  completed,               \* the latest text given to handleXml, and whether it came bare
  enqueued                 \* documents that became events

sessionVars == <<reached_playing, failures, saw_metadata, retry_needed>>
graphVars == <<graph, pipeline>>
stopVars == <<stopper, held>>
reassemblerVars == <<buffer_, lastSeq_, hasLastSeq_>>
cameraVars == <<doc, part, seq, bare>>
vars == <<running, stage, sessionVars, graphVars, stopVars, reassemblerVars, cameraVars, completed, enqueued>>

-----------------------------------------------------------------------------
(* The reassembler                                                         *)

\* Bug: a gap goes unnoticed.
BugIgnoresGap(s) == buffer_

Kept(s) == IF hasLastSeq_ /\ s # (lastSeq_ + 1) % SeqModulus THEN <<>> ELSE buffer_

Whole(text) == Len(text) = Parts

\* A piece of a document does not parse, and is dropped.
handleXml(d, text) ==
  /\ completed' = [text |-> text, bare |-> bare]
  /\ saw_metadata' = (saw_metadata \/ Whole(text))
  /\ enqueued' = IF Whole(text) THEN enqueued \cup {d} ELSE enqueued

\* feed: one packet; the marker completes a text.
Feed(d, p, s) ==
  LET text == Append(Kept(s), <<d, p>>) IN
  /\ lastSeq_' = s /\ hasLastSeq_' = TRUE
  /\ IF p = Parts
     THEN buffer_' = <<>> /\ handleXml(d, text)
     ELSE buffer_' = text /\ UNCHANGED <<completed, saw_metadata, enqueued>>

\* A packet without a header counts as a document when it begins with a tag: the
\* first does, a later one if the cut is there.  Others are only counted.
FeedBare(d, p) ==
  /\ \/ handleXml(d, <<<<d, p>>>>)
     \/ p # 1 /\ UNCHANGED <<completed, saw_metadata, enqueued>>
  /\ UNCHANGED reassemblerVars

\* Position of the packet n after the next one, in documents and parts.
Ahead(n) == [doc |-> doc + (part - 1 + n) \div Parts, part |-> ((part - 1 + n) % Parts) + 1]

Receive ==
  /\ stage = "session" /\ graph = "playing"
  /\ \E lost \in 0 .. MaxLost :
       LET here == Ahead(lost) IN
       /\ here.doc <= MaxDocs
       /\ IF bare THEN FeedBare(here.doc, here.part)
                  ELSE Feed(here.doc, here.part, (seq + lost) % SeqModulus)
       /\ doc' = Ahead(lost + 1).doc /\ part' = Ahead(lost + 1).part
       /\ seq' = (seq + lost + 1) % SeqModulus
  /\ UNCHANGED <<running, stage, reached_playing, failures, retry_needed, graphVars, stopVars, bare>>

-----------------------------------------------------------------------------
(* run()                                                                   *)

Fresh == <<>>

GivenUp(n) == n >= max_retries

\* The loop begins anew; the graph may fail to build.
Launch ==
  /\ stage = "launch"
  /\ IF running
     THEN /\ buffer_' = Fresh /\ lastSeq_' = 0 /\ hasLastSeq_' = FALSE
          /\ saw_metadata' = FALSE /\ reached_playing' = FALSE /\ retry_needed' = FALSE
          /\ seq' \in 0 .. SeqModulus - 1 /\ bare' \in BOOLEAN    \* of the new session
          /\ \/ /\ graph' = "ready" /\ stage' = "register"
                /\ UNCHANGED failures
             \/ /\ failures' = failures + 1
                /\ stage' = IF GivenUp(failures + 1) THEN "excluded" ELSE "retry"
                /\ UNCHANGED graph
     ELSE stage' = "ended" /\ UNCHANGED <<reassemblerVars, sessionVars, seq, bare, graph>>
  /\ UNCHANGED <<running, pipeline, stopVars, doc, part, completed, enqueued>>

Register ==
  /\ stage = "register"
  /\ pipeline' = TRUE /\ stage' = "play"
  /\ UNCHANGED <<running, sessionVars, graph, stopVars, reassemblerVars, cameraVars, completed, enqueued>>

\* PLAYING is requested, even if stop() has lowered the graph just before.
Play ==
  /\ stage = "play"
  /\ graph' = "playing" /\ stage' = "session"
  /\ UNCHANGED <<running, sessionVars, pipeline, stopVars, reassemblerVars, cameraVars, completed, enqueued>>

LogConnected ==
  /\ stage = "session" /\ running /\ graph = "playing" /\ ~reached_playing
  /\ reached_playing' = TRUE /\ failures' = 0
  /\ UNCHANGED <<running, stage, saw_metadata, retry_needed, graphVars, stopVars, reassemblerVars, cameraVars, completed, enqueued>>

SilentTooLong == reached_playing /\ ~saw_metadata

StopSeen == ~running

SessionStops ==
  /\ stage = "session" /\ StopSeen /\ stage' = "close"
  /\ UNCHANGED <<running, sessionVars, graphVars, stopVars, reassemblerVars, cameraVars, completed, enqueued>>

\* An error or no answer in time is a failure; the end of the session, or 8 s
\* of PLAYING without metadata, is only a reason to reconnect.
EndSession ==
  /\ stage = "session" /\ running /\ stage' = "close"
  /\ retry_needed' = TRUE /\ failures' \in {failures, failures + 1}
  /\ UNCHANGED <<running, reached_playing, saw_metadata, graphVars, stopVars, reassemblerVars, cameraVars, completed, enqueued>>

GiveUpSilence ==
  /\ stage = "session" /\ running /\ SilentTooLong
  /\ retry_needed' = TRUE /\ stage' = "close"
  /\ UNCHANGED <<running, reached_playing, failures, saw_metadata, graphVars, stopVars, reassemblerVars, cameraVars, completed, enqueued>>

Released == IF held THEN "null" ELSE "freed"

Close ==
  /\ stage = "close"
  /\ pipeline' = FALSE /\ graph' = "null"
  /\ stage' = "release"
  /\ UNCHANGED <<running, sessionVars, stopVars, reassemblerVars, cameraVars, completed, enqueued>>

Release ==
  /\ stage = "release"
  /\ graph' = Released
  /\ stage' = IF ~retry_needed THEN "ended" ELSE IF GivenUp(failures) THEN "excluded" ELSE "retry"
  /\ UNCHANGED <<running, sessionVars, pipeline, stopVars, reassemblerVars, cameraVars, completed, enqueued>>

Retry ==
  /\ stage = "retry" /\ stage' = "launch"
  /\ UNCHANGED <<running, sessionVars, graphVars, stopVars, reassemblerVars, cameraVars, completed, enqueued>>

-----------------------------------------------------------------------------
(* stop(), from another thread                                             *)

StopBegins ==
  /\ stopper = "idle" /\ running' = FALSE /\ stopper' = "take"
  /\ UNCHANGED <<stage, sessionVars, graphVars, held, reassemblerVars, cameraVars, completed, enqueued>>

TakeReference ==
  /\ stopper = "take"
  /\ held' = pipeline
  /\ stopper' = IF pipeline THEN "lower" ELSE "join"
  /\ UNCHANGED <<running, stage, sessionVars, graphVars, reassemblerVars, cameraVars, completed, enqueued>>

WorkerReleased == stage \in {"retry", "launch", "ended", "excluded"}

Lower ==
  /\ stopper = "lower"
  /\ held' = FALSE /\ stopper' = "join"
  /\ graph' = IF WorkerReleased THEN "freed" ELSE "null"
  /\ UNCHANGED <<running, stage, sessionVars, pipeline, reassemblerVars, cameraVars, completed, enqueued>>

Joinable == stage \in {"ended", "excluded"}

StopJoins ==
  /\ stopper = "join" /\ Joinable
  /\ stopper' = "done"
  /\ UNCHANGED <<running, stage, sessionVars, graphVars, held, reassemblerVars, cameraVars, completed, enqueued>>

-----------------------------------------------------------------------------

Init ==
  /\ running = TRUE /\ stage = "launch"
  /\ reached_playing = FALSE /\ failures = 0 /\ saw_metadata = FALSE /\ retry_needed = FALSE
  /\ graph = "none" /\ pipeline = FALSE
  /\ stopper = "idle" /\ held = FALSE
  /\ buffer_ = <<>> /\ lastSeq_ = 0 /\ hasLastSeq_ = FALSE
  /\ doc = 1 /\ part = 1 /\ seq = 0 /\ bare = FALSE /\ completed = [text |-> <<>>, bare |-> FALSE] /\ enqueued = {}

RunStep == Launch \/ Register \/ Play \/ Close \/ Release \/ Retry \/ GiveUpSilence \/ SessionStops
StopStep == TakeReference \/ Lower \/ StopJoins

Next == RunStep \/ Receive \/ LogConnected \/ EndSession \/ StopBegins \/ StopStep

Spec == Init /\ [][Next]_vars /\ WF_vars(RunStep) /\ WF_vars(StopStep)

-----------------------------------------------------------------------------
(* Properties                                                              *)

\* Stages and counters stay in range.
TypeOK ==
  /\ stage \in {"launch", "register", "play", "session", "close", "release", "retry", "excluded", "ended"}
  /\ graph \in {"none", "ready", "playing", "null", "freed"}
  /\ failures \in 0 .. max_retries
  /\ Len(buffer_) < Parts

\* A text given to the XML handler is the end of one document, without holes
\* and without a piece of another, however packets are lost and sessions end;
\* of packets that lost their headers, each is a text of its own.
NeverSpliced ==
  LET text == completed.text IN
  IF completed.bare THEN Len(text) = 1
  ELSE \A i \in 1 .. Len(text) : text[i] = <<text[Len(text)][1], Parts - Len(text) + i>>

\* A camera that played in its last session is not given up, whatever ended that
\* session and however many failed before, but when one failure is all it has.
PlayingIsForgiven == stage = "excluded" /\ reached_playing => max_retries = 1

\* stop() never touches a pipeline the worker has released.
StopTouchesLiveGraph == stopper = "lower" => graph # "freed"

\* When stop() is done no pipeline is left playing.
StoppedIsSilent == stopper = "done" => graph \in {"none", "freed"} /\ ~pipeline

\* The invariants of the input: documents are never spliced, a camera that played
\* is not given up at once, and stop() touches a live graph and is final.
Safety ==
  /\ TypeOK
  /\ NeverSpliced
  /\ PlayingIsForgiven
  /\ StopTouchesLiveGraph
  /\ StoppedIsSilent

=============================================================================
