---------------------------- MODULE CameraStream ----------------------------
(***************************************************************************)
(* CameraStream of the homography web server: one stream at a time is held *)
(* open for whoever asks for a frame.  Each request has its own thread;    *)
(* asking for another stream tells the worker of the old one to stop,      *)
(* kills the ffmpeg that is registered, and starts a worker for the new    *)
(* one, without waiting for the old one.  What a worker has read before it *)
(* was told to stop it stores later, if its stream is active again.        *)
(***************************************************************************)
EXTENDS Integers, FiniteSets

CONSTANTS
  Streams,
  MaxWorkers    \* bound: workers started

ConstantAssumption == "none" \notin Streams /\ MaxWorkers \in Nat

Workers == 1 .. MaxWorkers

VARIABLES
  active_stream_id, worker, process,   \* the fields; 0 is None
  frames,       \* per stream: the worker the frame came from, 0 is no frame
  pc, stream, stop_event, ffmpeg       \* per worker
\* History: workers whose ffmpeg is registered no more, though it runs; and those
\* that were reading when they were told to stop.
VARIABLES ousted, late

fieldVars == <<active_stream_id, worker, process, frames>>
workerVars == <<pc, stream, stop_event, ffmpeg>>
historyVars == <<ousted, late>>
vars == <<fieldVars, workerVars, historyVars>>

Goes(w, from, to) == pc[w] = from /\ pc' = [pc EXCEPT ![w] = to]

-----------------------------------------------------------------------------
(* The worker: _receive and _read_mjpeg                                    *)

\* while not stop_event.is_set(): ffmpeg is started (or cannot be) ...
Popen(w) ==
  /\ \/ stop_event[w] /\ Goes(w, "loop", "done") /\ UNCHANGED ffmpeg
     \/ ~ stop_event[w] /\ Goes(w, "loop", "started")
        /\ ffmpeg' = [ffmpeg EXCEPT ![w] = "runs"]
     \/ ~ stop_event[w] /\ Goes(w, "loop", "finally") /\ UNCHANGED ffmpeg
  /\ UNCHANGED <<fieldVars, stream, stop_event, historyVars>>

\* ... and registered, whether or not a stop came between.
Register(w) ==
  /\ Goes(w, "started", "read") /\ process' = w
  /\ ousted' = (ousted \cup ({process} \ {0, w})) \ {w}
  /\ UNCHANGED <<active_stream_id, worker, frames, stream, stop_event, ffmpeg, late>>

ReadsOn(w) ==
  /\ Goes(w, "read", IF stop_event[w] THEN "kill" ELSE "blocked")
  /\ UNCHANGED <<fieldVars, stream, stop_event, ffmpeg, historyVars>>

\* stdout.read() returns: a chunk, or what the pipe still held when ffmpeg was
\* killed.
ReadChunk(w) ==
  /\ Goes(w, "blocked", "chunk")
  /\ UNCHANGED <<fieldVars, stream, stop_event, ffmpeg, historyVars>>

\* _set_frame: a frame is taken while its stream is active, whoever received it.
Stored(w) ==
  IF active_stream_id = stream[w] THEN [frames EXCEPT ![stream[w]] = w] ELSE frames

\* The frames of the chunk, one after the other; a stop is looked at later only.
SetFrame(w) ==
  /\ pc[w] = "chunk" /\ frames' = Stored(w)
  /\ UNCHANGED <<active_stream_id, worker, process, workerVars, historyVars>>

ChunkDone(w) ==
  /\ Goes(w, "chunk", "read")
  /\ UNCHANGED <<fieldVars, stream, stop_event, ffmpeg, historyVars>>

\* ffmpeg was killed, or ended by itself.
EndOfFile(w) ==
  /\ Goes(w, "blocked", "kill")
  /\ ffmpeg' = [ffmpeg EXCEPT ![w] = "ended"]
  /\ UNCHANGED <<fieldVars, stream, stop_event, historyVars>>

Kill(w) ==
  /\ Goes(w, "kill", "finally") /\ ffmpeg' = [ffmpeg EXCEPT ![w] = "ended"]
  /\ UNCHANGED <<fieldVars, stream, stop_event, historyVars>>

\* finally: only the worker's own ffmpeg is taken off.
Deregistered(w) == IF process = w THEN 0 ELSE process

Finally(w) ==
  /\ Goes(w, "finally", "loop") /\ process' = Deregistered(w)
  /\ UNCHANGED <<active_stream_id, worker, frames, stream, stop_event, ffmpeg, historyVars>>

\* camera_urls refuses the configuration, or the answer to a request for a
\* snapshot is broken off: the thread ends with an exception.
Dies(w) ==
  /\ Goes(w, "new", "done") \/ Goes(w, "fetching", "done")
  /\ UNCHANGED <<fieldVars, stream, stop_event, ffmpeg, historyVars>>

\* The configured source is RTSP, or snapshots.
Begins(w) ==
  /\ Goes(w, "new", "loop") \/ Goes(w, "new", "get")
  /\ UNCHANGED <<fieldVars, stream, stop_event, ffmpeg, historyVars>>

\* _receive_snapshots: one request after the other, answered or failed.
GetSnapshot(w) ==
  /\ Goes(w, "get", IF stop_event[w] THEN "done" ELSE "fetching")
  /\ UNCHANGED <<fieldVars, stream, stop_event, ffmpeg, historyVars>>

Answered(w) ==
  /\ Goes(w, "fetching", "fetched") \/ Goes(w, "fetching", "get")
  /\ UNCHANGED <<fieldVars, stream, stop_event, ffmpeg, historyVars>>

SetSnapshot(w) ==
  /\ Goes(w, "fetched", "get") /\ frames' = Stored(w)
  /\ UNCHANGED <<active_stream_id, worker, process, stream, stop_event, ffmpeg, historyVars>>

-----------------------------------------------------------------------------
(* The requests                                                            *)

\* The stop of the worker at hand, under the lock: its event is set, and the
\* ffmpeg that is registered is killed.
Reading(w) == pc[w] \in {"blocked", "chunk", "fetching", "fetched"}
LateNow == late \cup {w \in Workers : w = worker /\ Reading(w)}
StoppedNow == [w \in Workers |-> stop_event[w] \/ w = worker]
KilledNow == [w \in Workers |-> IF w = process /\ ffmpeg[w] = "runs" THEN "killed" ELSE ffmpeg[w]]

\* ensure_worker, and so latest_packet, which then waits for a frame of s: nothing
\* is done if s is served.
Serves(s) == active_stream_id = s /\ worker # 0 /\ pc[worker] # "done"

StartWorker(s) ==
  /\ worker < MaxWorkers
  /\ active_stream_id' = s /\ worker' = worker + 1
  /\ frames' = [frames EXCEPT ![s] = 0]
  /\ stop_event' = StoppedNow /\ ffmpeg' = KilledNow /\ late' = LateNow
  /\ pc' = [pc EXCEPT ![worker + 1] = "new"]
  /\ stream' = [stream EXCEPT ![worker + 1] = s]
  /\ UNCHANGED process

EnsureWorker(s) ==
  /\ ~ Serves(s) /\ StartWorker(s)
  /\ UNCHANGED ousted

\* stop(), for the settings or after a snapshot; stop_event and worker stay.
Stop ==
  /\ stop_event' = StoppedNow /\ ffmpeg' = KilledNow /\ late' = LateNow
  /\ active_stream_id' = "none" /\ frames' = [s \in Streams |-> 0]
  /\ UNCHANGED <<worker, process, pc, stream, ousted>>

-----------------------------------------------------------------------------
Init ==
  /\ active_stream_id = "none" /\ worker = 0 /\ process = 0
  /\ frames = [s \in Streams |-> 0]
  /\ pc = [w \in Workers |-> "none"] /\ stream \in [Workers -> {"none"}]
  /\ stop_event = [w \in Workers |-> FALSE] /\ ffmpeg = [w \in Workers |-> "ended"]
  /\ ousted = {} /\ late = {}

Next ==
  \/ \E w \in Workers :
       \/ Dies(w) \/ Begins(w)
       \/ Popen(w) \/ Register(w) \/ ReadsOn(w) \/ ReadChunk(w) \/ SetFrame(w) \/ ChunkDone(w)
       \/ EndOfFile(w) \/ Kill(w) \/ Finally(w)
       \/ GetSnapshot(w) \/ Answered(w) \/ SetSnapshot(w)
  \/ \E s \in Streams : EnsureWorker(s)
  \/ Stop

Spec == Init /\ [][Next]_vars

-----------------------------------------------------------------------------
TypeOK ==
  /\ active_stream_id \in Streams \cup {"none"} /\ {worker, process} \subseteq 0 .. MaxWorkers
  /\ frames \in [Streams -> 0 .. MaxWorkers]
  /\ pc \in [Workers -> {"none", "new", "loop", "started", "read", "blocked", "chunk", "kill",
                         "finally", "get", "fetching", "fetched", "done"}]
  /\ stream \in [Workers -> Streams \cup {"none"}]
  /\ stop_event \in [Workers -> BOOLEAN]
  /\ ffmpeg \in [Workers -> {"runs", "killed", "ended"}]
  /\ ousted \subseteq Workers /\ late \subseteq Workers

\* However fast the streams are switched, one worker at most has not been told
\* to stop, and it is the one of the active stream.
OneReceiver ==
  \A w \in Workers :
    pc[w] \notin {"none", "done"} /\ ~ stop_event[w] => w = worker /\ stream[w] = active_stream_id

\* A worker that was told to stop does not hang on a camera that sends nothing:
\* its ffmpeg was killed.  Unless a worker stopped earlier registered its own
\* ffmpeg, late, over the one that should have been killed.
StoppedIsFreed ==
  \A w \in Workers :
    stop_event[w] /\ pc[w] = "blocked" /\ w \notin ousted => ffmpeg[w] # "runs"

\* The frame a request is given came in after its stream was switched to, or was
\* being read when a worker of the same stream was told to stop: nothing else of
\* an earlier time survives the switches.
FrameIsFresh ==
  active_stream_id # "none" =>
    frames[active_stream_id] \in {0, worker} \cup {w \in late : stream[w] = active_stream_id}

\* The invariants of the stream: one receiver, no process left behind, and frames
\* of the stream that was asked for.
Safety == TypeOK /\ OneReceiver /\ StoppedIsFreed /\ FrameIsFresh

=============================================================================
