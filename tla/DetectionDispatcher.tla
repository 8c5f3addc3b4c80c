------------------------ MODULE DetectionDispatcher ------------------------
(***************************************************************************)
(* The camera's marker detector: raw_frame_store.h keeps the newest frame  *)
(* of every channel, detection_dispatcher.cc lets workers take them by     *)
(* turns, and Start and Stop change the settings under way.                *)
(*                                                                         *)
(* A snapshot is one of the PoolSize buffers of its channel, so only the   *)
(* number of buffers held matters.  A scan of TakeTask holds mutex_ but    *)
(* looks at one slot after the other, and frames are stored and notified   *)
(* without mutex_.  A performance test (module TestRun) observes the       *)
(* completions and keeps them, each with the snapshot in it.  Timing,      *)
(* status and log fields are left out.                                     *)
(***************************************************************************)
EXTENDS Integers, Sequences, FiniteSets, Functions

CONSTANTS
  Channels,
  Workers,    \* detection_worker_count threads
  Putters,    \* threads that store frames: the event thread, the test thread
  Configs,    \* lists of enabled channels a Start may bring
  PoolSize    \* 4

\* detection_settings.cc takes one worker or two: a pool of four is enough.
ConstantAssumption ==
  /\ Channels # {} /\ \A s \in Configs : s \in Seq(Channels)
  /\ <<>> \in Configs
  /\ IsFiniteSet(Workers) /\ PoolSize \in Nat /\ Cardinality(Workers) + 1 < PoolSize

None == "none"

\* Tasks and calls are local to their round: between two of them the variables
\* for their channel hold any one.
AnyChannel == CHOOSE c \in Channels : TRUE

VARIABLES
  running, active_channels, cursor, in_flight_channels,
  \* RawFrameStore, by channel
  pending, in_flight, requested, copying,
  \* threads: what each does next, and for which channel
  worker, channel, offset,
  putter, put_channel,
  manager,
  observed,  \* a test has set completion_observer_
  kept,      \* by channel: snapshots only the test's completions_ refer to
  mutex      \* the worker that holds mutex_ through its scan, or None

dispatcherVars == <<running, active_channels, cursor, in_flight_channels>>
storeVars == <<pending, in_flight, requested, copying>>
workerVars == <<worker, channel, offset>>
putVars == <<putter, put_channel>>
testVars == <<observed, kept>>
vars == <<dispatcherVars, storeVars, workerVars, putVars, testVars, manager, mutex>>

-----------------------------------------------------------------------------

NotifyAll == worker' = [w \in Workers |-> IF worker[w] = "waiting" THEN "scan" ELSE worker[w]]

\* Buffers of the channel somebody still refers to.  A worker has its snapshot
\* until the end of its round, also after Complete.
Finished == {"completed", "kept", "dropped"}

InUse(c) ==
  (IF pending[c] THEN 1 ELSE 0) + (IF in_flight[c] THEN 1 ELSE 0)
  + Cardinality({w \in Workers : worker[w] \in Finished /\ channel[w] = c})
  + Cardinality({p \in Putters : putter[p] = "copying" /\ put_channel[p] = c})
  + kept[c]

-----------------------------------------------------------------------------
(* RawFrameStore::PutFrame, called without mutex_                          *)

WantsCopy(c) == ~copying[c] /\ (requested[c] \/ pending[c])

\* A copy is made for a channel that waits for one, at most every 200 ms.
PutFrame(p, c) ==
  /\ putter[p] = "idle"
  /\ c \in Range(active_channels)
  /\ WantsCopy(c)
  /\ copying' = [copying EXCEPT ![c] = TRUE]
  /\ putter' = [putter EXCEPT ![p] = "choosing"]
  /\ put_channel' = [put_channel EXCEPT ![p] = c]
  /\ UNCHANGED <<dispatcherVars, pending, in_flight, requested, workerVars, testVars, manager, mutex>>

\* A buffer nobody else refers to, or the frame is skipped.
ChooseBuffer(p) ==
  LET c == put_channel[p] IN
  /\ putter[p] = "choosing"
  /\ \/ /\ InUse(c) < PoolSize
        /\ putter' = [putter EXCEPT ![p] = "copying"]
        /\ UNCHANGED copying
        /\ UNCHANGED put_channel
     \/ /\ InUse(c) >= PoolSize
        /\ putter' = [putter EXCEPT ![p] = "idle"]
        /\ copying' = [copying EXCEPT ![c] = FALSE]
        /\ put_channel' = [put_channel EXCEPT ![p] = AnyChannel]
  /\ UNCHANGED <<dispatcherVars, pending, in_flight, requested, workerVars, testVars, manager, mutex>>

\* The newest frame replaces one nobody took.
StoreFrame(p) ==
  LET c == put_channel[p] IN
  /\ putter[p] = "copying"
  /\ pending' = [pending EXCEPT ![c] = TRUE]
  /\ copying' = [copying EXCEPT ![c] = FALSE]
  /\ putter' = [putter EXCEPT ![p] = "notifying"]
  /\ put_channel' = [put_channel EXCEPT ![p] = AnyChannel]
  /\ UNCHANGED <<dispatcherVars, in_flight, requested, workerVars, testVars, manager, mutex>>

OnFrameReady(p) ==
  /\ putter[p] = "notifying"
  /\ NotifyAll
  /\ putter' = [putter EXCEPT ![p] = "idle"]
  /\ UNCHANGED <<dispatcherVars, storeVars, channel, offset, put_channel, testVars, manager, mutex>>

-----------------------------------------------------------------------------
(* DetectionDispatcher::WorkerLoop                                         *)

\* TakeTask: the mutex is taken, or taken again after a wait.
BeginScan(w) ==
  /\ worker[w] = "scan" /\ mutex = None
  /\ \/ /\ running
        /\ mutex' = w /\ worker' = [worker EXCEPT ![w] = "scanning"]
        /\ offset' = [offset EXCEPT ![w] = 0]
     \/ /\ ~running
        /\ worker' = [worker EXCEPT ![w] = "exited"]
        /\ UNCHANGED <<mutex, offset>>
  /\ UNCHANGED <<dispatcherVars, storeVars, channel, putVars, testVars, manager>>

Index(w) == (cursor + offset[w]) % Len(active_channels)

NextCursor(w) == (Index(w) + 1) % Len(active_channels)

\* Bug: a channel a worker still works on is handed out again.
BugTakesTwice(c) == pending[c]

\* AcquirePending, for a channel no worker has.
Available(c) == c \notin in_flight_channels /\ pending[c] /\ ~in_flight[c]

ScanChannel(w) ==
  LET c == active_channels[Index(w) + 1] IN
  /\ worker[w] = "scanning" /\ offset[w] < Len(active_channels)
  /\ \/ /\ ~Available(c)
        /\ offset' = [offset EXCEPT ![w] = @ + 1]
        /\ UNCHANGED <<dispatcherVars, storeVars, worker, channel, mutex>>
     \/ /\ Available(c)
        /\ in_flight' = [in_flight EXCEPT ![c] = TRUE]
        /\ pending' = [pending EXCEPT ![c] = FALSE]
        /\ requested' = [requested EXCEPT ![c] = TRUE]
        /\ cursor' = NextCursor(w)
        /\ in_flight_channels' = in_flight_channels \cup {c}
        /\ worker' = [worker EXCEPT ![w] = "detecting"]
        /\ channel' = [channel EXCEPT ![w] = c]
        /\ mutex' = None /\ offset' = [offset EXCEPT ![w] = 0]
        /\ UNCHANGED <<running, active_channels, copying>>
  /\ UNCHANGED <<putVars, testVars, manager>>

\* Nothing to do: condition_.wait releases the mutex.
WaitForFrame(w) ==
  /\ worker[w] = "scanning" /\ offset[w] = Len(active_channels)
  /\ worker' = [worker EXCEPT ![w] = "waiting"]
  /\ mutex' = None /\ offset' = [offset EXCEPT ![w] = 0]
  /\ UNCHANGED <<dispatcherVars, storeVars, channel, putVars, testVars, manager>>

\* The pipeline has detected and sent, or failed; the dispatcher forgets the
\* task before the store does.
UpdateStatus(w) ==
  /\ worker[w] = "detecting" /\ mutex = None
  /\ in_flight_channels' = in_flight_channels \ {channel[w]}
  /\ worker' = [worker EXCEPT ![w] = "updated"]
  /\ UNCHANGED <<running, active_channels, cursor, storeVars, channel, offset, putVars, testVars, manager, mutex>>

Complete(w) ==
  LET c == channel[w] IN
  /\ worker[w] = "updated"
  /\ in_flight' = [in_flight EXCEPT ![c] = FALSE]
  /\ requested' = [requested EXCEPT ![c] = @ \/ ~pending[c]]
  /\ worker' = [worker EXCEPT ![w] = "completed"]
  /\ UNCHANGED <<dispatcherVars, pending, copying, channel, offset, putVars, testVars, manager, mutex>>

\* The observer, if a test has set one, keeps the completion: the snapshot is
\* the test's too (test_run_controller.cc).
ReportCompletion(w) ==
  /\ worker[w] = "completed" /\ mutex = None
  /\ worker' = [worker EXCEPT ![w] = IF observed THEN "kept" ELSE "dropped"]
  /\ UNCHANGED <<dispatcherVars, storeVars, channel, offset, putVars, testVars, manager, mutex>>

EndOfRound(w) ==
  /\ worker[w] \in {"kept", "dropped"}
  /\ kept' = IF worker[w] = "kept" THEN [kept EXCEPT ![channel[w]] = @ + 1] ELSE kept
  /\ worker' = [v \in Workers |-> IF v = w \/ worker[v] = "waiting" THEN "scan" ELSE worker[v]]
  /\ channel' = [channel EXCEPT ![w] = AnyChannel]
  /\ UNCHANGED <<dispatcherVars, storeVars, offset, putVars, observed, manager, mutex>>

-----------------------------------------------------------------------------
(* Stop and Start, called by one thread at a time                          *)

Lockable == mutex = None

StopRunning ==
  /\ manager = "idle" /\ Lockable
  /\ running' = FALSE
  /\ manager' = "notifying"
  /\ UNCHANGED <<active_channels, cursor, in_flight_channels, storeVars, workerVars, putVars, testVars, mutex>>

StopNotifies ==
  /\ manager = "notifying"
  /\ NotifyAll
  /\ manager' = "swapping"
  /\ UNCHANGED <<dispatcherVars, storeVars, channel, offset, putVars, testVars, mutex>>

StopForgetsTasks ==
  /\ manager = "swapping" /\ mutex = None
  /\ in_flight_channels' = {}
  /\ manager' = "joining"
  /\ UNCHANGED <<running, active_channels, cursor, storeVars, workerVars, putVars, testVars, mutex>>

AllJoined == \A w \in Workers : worker[w] = "exited"

StopJoins ==
  /\ manager = "joining" /\ AllJoined
  /\ manager' = "stopped"
  /\ UNCHANGED <<dispatcherVars, storeVars, workerVars, putVars, testVars, mutex>>

\* Start calls Stop first.  Settings without an enabled channel, or invalid
\* ones, leave the dispatcher stopped.
Start ==
  /\ manager = "stopped" /\ mutex = None
  /\ \E config \in Configs :
       /\ active_channels' = config
       /\ running' = (config # <<>>)
       /\ requested' = [c \in Channels |-> requested[c] \/ c \in Range(config)]
       /\ manager' = IF config = <<>> THEN "idle" ELSE "spawning"
  /\ cursor' = 0 /\ in_flight_channels' = {}
  /\ UNCHANGED <<pending, in_flight, copying, workerVars, putVars, testVars, mutex>>

SpawnWorkers ==
  /\ manager = "spawning"
  /\ worker' = [w \in Workers |-> "scan"]
  /\ manager' = "idle"
  /\ UNCHANGED <<dispatcherVars, storeVars, channel, offset, putVars, testVars, mutex>>

-----------------------------------------------------------------------------
(* The thread of a performance test, which is then the one that stops and  *)
(* starts the dispatcher                                                   *)

SetCompletionObserver ==
  /\ manager = "stopped" /\ mutex = None
  /\ observed' = ~observed
  /\ UNCHANGED <<dispatcherVars, storeVars, workerVars, putVars, kept, manager, mutex>>

\* completions_.clear(), at the begin of each cycle and nowhere else: those of
\* the last cycle stay.
ForgetCompletions ==
  /\ manager = "idle" /\ running /\ observed
  /\ kept' = [c \in Channels |-> 0]
  /\ worker' = [w \in Workers |-> IF worker[w] = "kept" THEN "dropped" ELSE worker[w]]
  /\ UNCHANGED <<dispatcherVars, storeVars, channel, offset, putVars, observed, manager, mutex>>

-----------------------------------------------------------------------------

Init ==
  /\ running = FALSE /\ active_channels = <<>> /\ cursor = 0 /\ in_flight_channels = {}
  /\ pending = [c \in Channels |-> FALSE] /\ in_flight = pending
  /\ requested = pending /\ copying = pending
  /\ worker = [w \in Workers |-> "exited"]
  /\ channel \in [Workers -> {AnyChannel}]
  /\ offset = [w \in Workers |-> 0]
  /\ putter = [p \in Putters |-> "idle"]
  /\ put_channel \in [Putters -> {AnyChannel}]
  /\ manager = "stopped" /\ mutex = None
  /\ observed = FALSE /\ kept = [c \in Channels |-> 0]

WorkerStep(w) ==
  BeginScan(w) \/ ScanChannel(w) \/ WaitForFrame(w) \/ UpdateStatus(w) \/ Complete(w)
  \/ ReportCompletion(w) \/ EndOfRound(w)

PutStep(p) == ChooseBuffer(p) \/ StoreFrame(p) \/ OnFrameReady(p)

StopStep == StopNotifies \/ StopForgetsTasks \/ StopJoins \/ Start \/ SpawnWorkers

Next ==
  \/ \E w \in Workers : WorkerStep(w)
  \/ \E p \in Putters : PutStep(p) \/ \E c \in Channels : PutFrame(p, c)
  \/ StopStep \/ StopRunning \/ SetCompletionObserver \/ ForgetCompletions

Spec == Init /\ [][Next]_vars

-----------------------------------------------------------------------------
(* Properties                                                              *)

\* Slots, tasks and threads hold what their types say.
TypeOK ==
  /\ active_channels \in Configs
  /\ cursor \in Nat /\ (running => cursor < Len(active_channels))
  /\ in_flight_channels \subseteq Channels
  /\ mutex \in Workers \cup {None}
  /\ mutex # None => worker[mutex] = "scanning"

\* Two workers never have frames of one channel at a time, so a channel's
\* results leave in the order of its frames.
OneWorkerPerChannel ==
  \A v, w \in Workers :
    /\ worker[v] \in {"detecting", "updated"} /\ worker[w] \in {"detecting", "updated"}
    /\ channel[v] = channel[w]
    => v = w

\* The detector itself always leaves the store a buffer: a frame the store
\* decides to keep is skipped for want of one only while a test keeps snapshots
\* of that channel.
PoolSuffices ==
  \A p \in Putters : putter[p] = "choosing" =>
    InUse(put_channel[p]) - kept[put_channel[p]] < PoolSize

\* New settings find no frame in flight: otherwise its channel would be
\* passed over for good.
RestartIsClean == manager = "stopped" => \A c \in Channels : ~in_flight[c]

\* The detector: the four invariants above together.
Safety == TypeOK /\ OneWorkerPerChannel /\ PoolSuffices /\ RestartIsClean

=============================================================================
