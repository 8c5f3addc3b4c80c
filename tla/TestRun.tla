------------------------------ MODULE TestRun ------------------------------
(***************************************************************************)
(* The camera application around its dispatcher: the event thread of       *)
(* detector_manager.cc serves HTTP requests and frames, the thread of      *)
(* test_run_controller.cc borrows the dispatcher for a measurement and has *)
(* to give it back, and detection_settings.cc keeps the settings on disk.  *)
(*                                                                         *)
(* The dispatcher is reduced to: it takes the pending frame of a channel   *)
(* and reports it (module DetectionDispatcher has the rest).  running is   *)
(* its running_, which stays set when a worker's thread cannot be created. *)
(* A frame is its generation and the mode it was made in, and holds one of *)
(* the store's PoolSize buffers while it waits and for as long as a        *)
(* completion has it; times are choices.                                   *)
(***************************************************************************)
EXTENDS Integers, Sequences, FiniteSets, Functions, FiniteSetsExt

CONSTANTS
  Channels,        \* channels of every settings, and of the test
  Settings,        \* valid operational settings
  Disabled,        \* those of them without an enabled channel
  PoolSize,        \* buffers the frame store has for a channel
  Trials,          \* settings of the variants: worker counts times scales
  Modes,           \* "camera" and synthetic modes
  Warmup, Cycles,  \* warm-up samples, and all samples, of a variant
  MaxGeneration,   \* bound on the frames stored of a channel
  MaxRuns          \* bound on next_run_number_

ConstantAssumption ==
  /\ Channels # {} /\ IsFiniteSet(Channels)
  /\ Disabled \subseteq Settings /\ Settings # Disabled
  /\ PoolSize \in Nat \ {0}
  /\ Cycles \in Nat \ {0} /\ Warmup \in 0 .. Cycles /\ "camera" \in Modes
  /\ Len(Trials) \in Nat \ {0}
  /\ MaxGeneration \in Nat /\ MaxRuns \in Nat

None == "none"
NoFrame == [generation |-> 0, mode |-> None]
Default == CHOOSE s \in Settings : s \notin Disabled
Total == Len(Trials) * Cycles * Cardinality(Channels)

VARIABLES
  file, temporary,              \* the settings file and its temporary neighbour
  settings, running,            \* of the dispatcher
  mode, generation, pending,    \* of the frame store
  event,                        \* the event thread: idle, or where it is in a request
  posted,                       \* settings of the POST being served
  status, cancel_requested, run_mode, previous_settings, previous_mode, observed,
  completed_samples, executed,
  thread, variant, cycle, generation_before, completions, run_error, cancelled, waiting_for,
  runs

fileVars == <<file, temporary>>
dispatcherVars == <<settings, running>>
storeVars == <<mode, generation, pending>>
eventVars == <<event, posted>>
stateVars == <<status, cancel_requested, completed_samples, executed, runs>>
configVars == <<run_mode, previous_settings, previous_mode>>
threadVars == <<observed, thread, variant, cycle, generation_before, completions,
                run_error, cancelled, waiting_for>>
vars == <<fileVars, dispatcherVars, storeVars, eventVars, stateVars, configVars, threadVars>>

\* active_channels_ is not empty.
Detects(s) == s \notin Disabled

NoTestChange == UNCHANGED <<stateVars, configVars, threadVars>>

-----------------------------------------------------------------------------
(* Frames and workers                                                      *)

Kept(c) == {x \in completions : x.channel = c}

InUse(c) == Cardinality(Kept(c)) + (IF pending[c] # NoFrame THEN 1 ELSE 0)

\* The store skips a frame it has no buffer for.
Put(c) ==
  /\ generation[c] < MaxGeneration /\ InUse(c) < PoolSize
  /\ generation' = [generation EXCEPT ![c] = @ + 1]
  /\ pending' = [pending EXCEPT ![c] = [generation |-> generation[c] + 1, mode |-> mode]]
  /\ UNCHANGED mode

\* ProcessRawVideo: camera frames are dropped while a synthetic test runs.
ProcessRawVideo(c) ==
  /\ event = "idle" /\ mode = "camera"
  /\ Put(c)
  /\ UNCHANGED <<fileVars, dispatcherVars, eventVars>> /\ NoTestChange

\* A worker has detected; the observer keeps the completion and with it the
\* frame, beyond the end of the run if it came in the last cycle.
OnDispatcherCompletion(c) ==
  /\ running /\ pending[c] # NoFrame
  /\ pending' = [pending EXCEPT ![c] = NoFrame]
  /\ completions' = IF observed /\ status = "running"
                    THEN completions \cup {[channel |-> c, frame |-> pending[c]]}
                    ELSE completions
  /\ UNCHANGED <<fileVars, dispatcherVars, mode, generation, eventVars, stateVars, configVars,
                 observed, thread, variant, cycle, generation_before, run_error, cancelled, waiting_for>>

-----------------------------------------------------------------------------
(* The event thread                                                        *)

\* POST /settings, refused during a test: checked and written beside the file
\* first.
PostSettings ==
  /\ event = "idle" /\ status # "running"
  /\ posted' \in Settings
  /\ \/ temporary' = posted' /\ event' = "written"
     \/ temporary' \in {temporary, None} /\ UNCHANGED event       \* the disk is full: 500
  /\ UNCHANGED <<file, dispatcherVars, storeVars>> /\ NoTestChange

RenameSettings ==
  /\ event = "written"
  /\ temporary' = None
  /\ \/ file' = temporary /\ event' = "saved"
     \/ UNCHANGED file /\ event' = "idle"    \* rename fails: 500
  /\ UNCHANGED <<dispatcherVars, storeVars, posted>> /\ NoTestChange

Stored == IF file = None THEN Default ELSE file

\* RestartWorkers reads the file back; if there is none it tries to write the
\* defaults, and goes on with them in any case.
RestartWorkers ==
  /\ event = "saved"
  /\ file' \in {file, Stored}
  /\ settings' = Stored /\ running' = Detects(Stored)
  /\ event' = "idle"
  /\ UNCHANGED <<temporary, storeVars, posted>> /\ NoTestChange

\* POST /test/run/start, refused when no channel is active.
StartRun ==
  /\ event = "idle" /\ status # "running" /\ thread = None
  /\ Detects(settings) /\ runs < MaxRuns
  /\ runs' = runs + 1
  /\ previous_settings' = settings /\ previous_mode' = mode
  /\ status' = "running" /\ cancel_requested' = FALSE
  /\ completed_samples' = 0 /\ executed' = 0
  /\ run_mode' \in Modes /\ mode' = run_mode'
  /\ running' = FALSE
  /\ thread' = "variant" /\ variant' = 1 /\ cycle' = 0
  /\ run_error' = FALSE /\ cancelled' = FALSE /\ observed' = TRUE
  /\ UNCHANGED <<fileVars, settings, generation, pending, eventVars,
                 generation_before, completions, waiting_for>>

\* The thread of the run cannot be created: everything is put back.
StartFails ==
  /\ event = "idle" /\ status # "running" /\ thread = None
  /\ Detects(settings) /\ runs < MaxRuns
  /\ runs' = runs + 1
  /\ status' = "error" /\ cancel_requested' = FALSE
  /\ completed_samples' = 0 /\ executed' = 0
  /\ UNCHANGED <<fileVars, dispatcherVars, storeVars, eventVars, configVars, threadVars>>

Cancel ==
  /\ event = "idle" /\ status = "running"
  /\ cancel_requested' = TRUE
  /\ UNCHANGED <<fileVars, dispatcherVars, storeVars, eventVars, configVars, threadVars,
                 status, completed_samples, executed, runs>>

-----------------------------------------------------------------------------
(* The thread of a run                                                     *)

ThreadLeaves == <<fileVars, eventVars, configVars, runs>>

\* The dispatcher starts with the next variant.  Creating its workers may fail,
\* when it has the new settings already.
StartVariant ==
  /\ thread = "variant"
  /\ \/ /\ cancel_requested
        /\ cancelled' = TRUE /\ thread' = "restore"
        /\ UNCHANGED <<dispatcherVars, run_error>>
     \/ /\ ~cancel_requested
        /\ settings' = Trials[variant] /\ running' = TRUE
        /\ \/ thread' = "cycle" /\ UNCHANGED run_error
           \/ thread' = "restore" /\ run_error' = TRUE
        /\ UNCHANGED cancelled
  /\ cycle' = 0
  /\ UNCHANGED <<ThreadLeaves, storeVars, stateVars, observed, variant, generation_before,
                 completions, waiting_for>>

BeginCycle ==
  /\ thread = "cycle"
  /\ \/ /\ cancel_requested
        /\ cancelled' = TRUE /\ thread' = "restore"
        /\ UNCHANGED <<generation_before, completions, waiting_for>>
     \/ /\ ~cancel_requested
        /\ generation_before' = generation
        /\ completions' = {}
        /\ waiting_for' = IF run_mode = "camera" THEN {} ELSE Channels
        /\ thread' = "request" /\ UNCHANGED cancelled
  /\ UNCHANGED <<ThreadLeaves, dispatcherVars, storeVars, stateVars, observed, variant, cycle, run_error>>

\* A synthetic frame is put for every channel; one the store refuses for a
\* second ends the run.
PutSynthetic ==
  /\ thread = "request"
  /\ \/ /\ waiting_for # {}
        /\ LET c == Min(waiting_for)
           IN waiting_for' = waiting_for \ {c} /\ (Put(c) \/ (cancel_requested /\ UNCHANGED storeVars))
        /\ UNCHANGED <<thread, run_error>>
     \/ /\ waiting_for # {}
        /\ run_error' = TRUE /\ thread' = "restore"
        /\ UNCHANGED <<storeVars, waiting_for>>
     \/ /\ waiting_for = {}
        /\ thread' = "wait"
        /\ UNCHANGED <<storeVars, waiting_for, run_error>>
  /\ UNCHANGED <<ThreadLeaves, dispatcherVars, stateVars, observed, variant, cycle, generation_before,
                 completions, cancelled>>

IsFresh(x) == x.frame.generation > generation_before[x.channel]

Fresh(c) == {x \in completions : x.channel = c /\ IsFresh(x)}

Answered == {c \in Channels : Fresh(c) # {}}

IsLastCycle == cycle + 1 = Cycles

\* The cycle ends when all have answered, on a cancel, or after 1.5 s, which may
\* be over at any moment.  A channel without an answer is a skip.  Warm-up
\* samples and detections with an error do not count as executed.
RecordSamples ==
  /\ thread = "wait"
  /\ completed_samples' = completed_samples + Cardinality(Channels)
  /\ \E detected \in SUBSET Answered :
       executed' = executed + (IF cycle < Warmup THEN 0 ELSE Cardinality(detected))
  /\ cycle' = cycle + 1
  /\ thread' = IF IsLastCycle THEN "nextVariant" ELSE "cycle"
  /\ UNCHANGED <<ThreadLeaves, dispatcherVars, storeVars, status, cancel_requested, observed, variant,
                 generation_before, completions, run_error, cancelled, waiting_for>>

NextVariant ==
  /\ thread = "nextVariant"
  /\ running' = FALSE
  /\ variant' = IF variant < Len(Trials) THEN variant + 1 ELSE variant
  /\ thread' = IF variant < Len(Trials) THEN "variant" ELSE "restore"
  /\ UNCHANGED <<ThreadLeaves, settings, storeVars, stateVars, observed, cycle, generation_before,
                 completions, run_error, cancelled, waiting_for>>

\* Bug: the dispatcher keeps the settings of the last variant.
BugKeepsTrial == settings

RestoredSettings == previous_settings

\* Every way out: stop, observer off, mode and dispatcher as before; writing
\* the exports may fail.
Restore ==
  /\ thread = "restore"
  /\ observed' = FALSE /\ mode' = previous_mode
  /\ settings' = RestoredSettings /\ running' = Detects(RestoredSettings)
  /\ thread' = "finish"
  /\ run_error' \in {run_error, TRUE}
  /\ UNCHANGED <<ThreadLeaves, generation, pending, stateVars, variant, cycle, generation_before,
                 completions, cancelled, waiting_for>>

IsCancelled == cancelled \/ cancel_requested

Finish ==
  /\ thread = "finish"
  /\ status' = IF run_error THEN "error" ELSE IF IsCancelled THEN "cancelled"
               ELSE IF executed = 0 THEN "error" ELSE "completed"
  /\ thread' = None
  /\ UNCHANGED <<ThreadLeaves, dispatcherVars, storeVars, cancel_requested, completed_samples, executed,
                 observed, variant, cycle, generation_before, completions, run_error, cancelled, waiting_for>>

-----------------------------------------------------------------------------

Init ==
  /\ file = None /\ temporary = None /\ runs = 0
  /\ settings = None /\ running = FALSE
  /\ mode = "camera" /\ generation = [c \in Channels |-> 0]
  /\ pending = [c \in Channels |-> NoFrame]
  /\ event = "saved" /\ posted = None
  /\ status = "idle" /\ cancel_requested = FALSE /\ completed_samples = 0 /\ executed = 0
  /\ run_mode = "camera" /\ previous_settings = None /\ previous_mode = "camera"
  /\ observed = FALSE /\ thread = None /\ variant = 1 /\ cycle = 0
  /\ generation_before = [c \in Channels |-> 0] /\ completions = {}
  /\ run_error = FALSE /\ cancelled = FALSE /\ waiting_for = {}

\* The application dies; files stay as they are.
Crash ==
  /\ UNCHANGED <<fileVars, runs>>
  /\ settings' = None /\ running' = FALSE
  /\ mode' = "camera" /\ generation' = [c \in Channels |-> 0]
  /\ pending' = [c \in Channels |-> NoFrame]
  /\ event' = "saved" /\ posted' = None
  /\ status' = "idle" /\ cancel_requested' = FALSE /\ completed_samples' = 0 /\ executed' = 0
  /\ run_mode' = "camera" /\ previous_settings' = None /\ previous_mode' = "camera"
  /\ observed' = FALSE /\ thread' = None /\ variant' = 1 /\ cycle' = 0
  /\ generation_before' = [c \in Channels |-> 0] /\ completions' = {}
  /\ run_error' = FALSE /\ cancelled' = FALSE /\ waiting_for' = {}

RunStep == StartVariant \/ BeginCycle \/ PutSynthetic \/ RecordSamples \/ NextVariant \/ Restore \/ Finish

EventStep == RenameSettings \/ RestartWorkers

Next ==
  \/ \E c \in Channels : ProcessRawVideo(c) \/ OnDispatcherCompletion(c)
  \/ PostSettings \/ EventStep \/ StartRun \/ StartFails \/ Cancel
  \/ RunStep \/ Crash

Spec == Init /\ [][Next]_vars /\ WF_vars(RunStep) /\ WF_vars(EventStep)

-----------------------------------------------------------------------------
(* Properties                                                              *)

\* State machines and counters stay in range.
TypeOK ==
  /\ status \in {"idle", "running", "error", "cancelled", "completed"}
  /\ thread \in {None, "variant", "cycle", "request", "wait", "nextVariant", "restore", "finish"}
  /\ completed_samples \in 0 .. Total /\ executed \in 0 .. completed_samples
  /\ variant \in 1 .. Len(Trials)
  /\ waiting_for \subseteq Channels

\* Whenever no test runs and no request is being served, the dispatcher has the
\* settings on disk, runs exactly if they enable a channel, and is fed with
\* camera frames: no way out of a test, and no request beside it, leaves the
\* camera measuring or stopped.
OperationRestored ==
  event = "idle" /\ status # "running" =>
    /\ settings = Stored /\ Stored \in Settings
    /\ running <=> Detects(settings)
    /\ mode = "camera" /\ ~observed

\* A measurement counts frames that were made for it, in its own cycle and in
\* its own mode, never one left over from the cycle or the operation before.
SamplesAreFresh ==
  thread = "wait" => \A c \in Channels : \A x \in Fresh(c) : x.frame.mode = run_mode

\* A run called completed measured all it promised, and nobody cancelled it.
CompletedIsWhole ==
  status = "completed" => completed_samples = Total /\ executed > 0 /\ ~cancel_requested

\* The performance test: the four invariants above together.
Safety == TypeOK /\ OperationRestored /\ SamplesAreFresh /\ CompletedIsWhole

=============================================================================
