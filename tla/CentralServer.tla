--------------------------- MODULE CentralServer ---------------------------
(***************************************************************************)
(* The threads of the central server (main.cpp): stream workers and the    *)
(* 100 ms status thread fill the bounded queue, one thread empties it and  *)
(* judges, and stop() takes everything down in an order.                   *)
(*                                                                         *)
(* waitPop holds the queue's mutex from its look at the predicate to the   *)
(* wait; notifyAll is called without it.  An event is its kind.  What      *)
(* judging and publishing do is in the modules of those parts; here they   *)
(* are services that run or have been stopped.                             *)
(***************************************************************************)
EXTENDS Integers, Sequences

CONSTANTS
  Streams,     \* one worker each
  Capacity,    \* metadata_queue_capacity
  MaxEvents    \* bound: events enqueued

ConstantAssumption == Capacity \in Nat \ {0} /\ MaxEvents \in Nat

Kinds == {"object", "aruco", "tick"}
Services == <<"dispatcher", "publisher", "assignment", "status", "sensor", "eventLog">>
AllServices == {Services[i] : i \in DOMAIN Services}

VARIABLES
  queue, running,      \* running is read and written without the mutex
  process,             \* processLoop: where in waitPop, or what it processes
  woken,               \* a notification reached the waiting process thread
  worker,              \* StreamWorkers: "off", "running" or "stopped"
  ticker,              \* statusLoop: "sleep", "tick", "write" or "exited"
  stopper,             \* stop(): what it does next
  services,            \* those started and not yet stopped
  status_file,         \* state in the runtime status file
  dropped, enqueued    \* dropped_total_; bound

vars == <<queue, running, process, woken, worker, ticker, stopper, services, status_file, dropped, enqueued>>

-----------------------------------------------------------------------------
(* BoundedQueue                                                            *)

\* The mutex is free: the process thread is not between predicate and wait.
Unlocked == process # "decided"

Room == IF Len(queue) >= Capacity THEN Tail(queue) ELSE queue

\* push: the oldest event makes room; one waiter is notified.
Enqueue(kind) ==
  /\ Unlocked /\ enqueued < MaxEvents
  /\ queue' = Append(Room, kind)
  /\ dropped' = dropped + (IF Len(queue) >= Capacity THEN 1 ELSE 0)
  /\ woken' = (process = "waiting" \/ woken)
  /\ enqueued' = enqueued + 1

WaitPop ==
  /\ process = "ready"
  /\ \/ /\ running /\ queue = <<>>
        /\ process' = "decided" /\ UNCHANGED queue
     \/ /\ ~running /\ queue = <<>>
        /\ process' = "exited" /\ UNCHANGED queue
     \/ /\ queue # <<>>
        /\ process' = Head(queue) /\ queue' = Tail(queue)
  /\ woken' = FALSE
  /\ UNCHANGED <<running, worker, ticker, stopper, services, status_file, dropped, enqueued>>

Wait ==
  /\ process = "decided"
  /\ process' = "waiting"
  /\ UNCHANGED <<queue, running, woken, worker, ticker, stopper, services, status_file, dropped, enqueued>>

Wake ==
  /\ process = "waiting" /\ woken
  /\ process' = "ready" /\ woken' = FALSE
  /\ UNCHANGED <<queue, running, worker, ticker, stopper, services, status_file, dropped, enqueued>>

\* process: frames update the observations; a tick judges and submits, and an
\* ArUco frame may publish an assignment.
Process ==
  /\ process \in Kinds
  /\ process' = "ready"
  /\ UNCHANGED <<queue, running, woken, worker, ticker, stopper, services, status_file, dropped, enqueued>>

-----------------------------------------------------------------------------
(* Producers                                                               *)

HandleXml(s) ==
  /\ worker[s] = "running"
  /\ \E kind \in {"object", "aruco"} : Enqueue(kind)
  /\ UNCHANGED <<running, process, worker, ticker, stopper, services, status_file>>

\* writeRuntimeStatus: the snapshot is written beside the file and replaces it.
\* The disk is assumed to take it; its contents are left out.
WriteRuntimeStatus(state) == status_file' = state

\* statusLoop: the flag is read, then acted upon.
TickerLooks ==
  /\ ticker = "sleep"
  /\ ticker' \in IF running THEN {"tick", "write"} ELSE {"exited"}
  /\ UNCHANGED <<queue, running, process, woken, worker, stopper, services, status_file, dropped, enqueued>>

TickerActs ==
  /\ ticker \in {"tick", "write"}
  /\ \/ /\ ticker = "tick"
        /\ \/ Enqueue("tick")
           \/ enqueued = MaxEvents /\ UNCHANGED <<queue, dropped, woken, enqueued>>
        /\ UNCHANGED status_file
     \/ /\ ticker = "write"
        /\ WriteRuntimeStatus("online")
        /\ UNCHANGED <<queue, dropped, woken, enqueued>>
  /\ ticker' = "sleep"
  /\ UNCHANGED <<running, process, worker, stopper, services>>

-----------------------------------------------------------------------------
(* start and stop                                                          *)

Start ==
  /\ stopper = "starting"
  /\ services' = AllServices
  /\ running' = TRUE /\ WriteRuntimeStatus("online")
  /\ process' = "ready" /\ ticker' = "sleep"
  /\ stopper' = "idle"
  /\ UNCHANGED <<queue, woken, worker, dropped, enqueued>>

StartWorker(s) ==
  /\ stopper = "idle" /\ worker[s] = "off"
  /\ worker' = [worker EXCEPT ![s] = "running"]
  /\ UNCHANGED <<queue, running, process, woken, ticker, stopper, services, status_file, dropped, enqueued>>

StopBegins ==
  /\ stopper = "idle" /\ \A s \in Streams : worker[s] = "running"
  /\ running' = FALSE
  /\ stopper' = "workers"
  /\ UNCHANGED <<queue, process, woken, worker, ticker, services, status_file, dropped, enqueued>>

StopWorker(s) ==
  /\ stopper = "workers" /\ worker[s] = "running"
  /\ worker' = [worker EXCEPT ![s] = "stopped"]
  /\ UNCHANGED <<queue, running, process, woken, ticker, stopper, services, status_file, dropped, enqueued>>

\* Bug: nobody is told that the server stops.
BugSilentStop == woken

Notified == process = "waiting" \/ woken

NotifyAll ==
  /\ stopper = "workers" /\ \A s \in Streams : worker[s] = "stopped"
  /\ woken' = Notified
  /\ stopper' = "join"
  /\ UNCHANGED <<queue, running, process, worker, ticker, services, status_file, dropped, enqueued>>

\* Bug: services are stopped under the judging thread.
BugNoProcessJoin == ticker = "exited"

Joined == process = "exited" /\ ticker = "exited"

StopJoins ==
  /\ stopper = "join" /\ Joined
  /\ WriteRuntimeStatus("offline")
  /\ stopper' = "services"
  /\ UNCHANGED <<queue, running, process, woken, worker, ticker, services, dropped, enqueued>>

StopServices ==
  /\ stopper = "services"
  /\ \E i \in DOMAIN Services :
       /\ Services[i] \in services /\ \A j \in 1 .. i - 1 : Services[j] \notin services
       /\ services' = services \ {Services[i]}
       /\ stopper' = IF i = Len(Services) THEN "done" ELSE stopper
  /\ UNCHANGED <<queue, running, process, woken, worker, ticker, status_file, dropped, enqueued>>

-----------------------------------------------------------------------------

Init ==
  /\ queue = <<>> /\ running = FALSE /\ process = "off" /\ woken = FALSE
  /\ worker = [s \in Streams |-> "off"] /\ ticker = "off" /\ stopper = "starting"
  /\ services = {} /\ status_file = "none" /\ dropped = 0 /\ enqueued = 0

Done == stopper = "done" /\ UNCHANGED vars

ProcessStep == WaitPop \/ Wait \/ Wake \/ Process
StopStep == (\E s \in Streams : StopWorker(s)) \/ NotifyAll \/ StopJoins \/ StopServices

Next ==
  \/ ProcessStep \/ TickerLooks \/ TickerActs \/ StopStep \/ Start \/ StopBegins
  \/ \E s \in Streams : HandleXml(s) \/ StartWorker(s)
  \/ Done

Spec ==
  /\ Init /\ [][Next]_vars
  /\ WF_vars(ProcessStep) /\ WF_vars(TickerLooks) /\ WF_vars(TickerActs) /\ WF_vars(StopStep)

-----------------------------------------------------------------------------
(* Properties                                                              *)

\* Threads and queue stay in range; what was pushed was processed, is waiting
\* or was counted as dropped.
TypeOK ==
  /\ queue \in Seq(Kinds) /\ Len(queue) <= Capacity
  /\ process \in Kinds \cup {"off", "ready", "decided", "waiting", "exited"}
  /\ Len(queue) + dropped <= enqueued

\* Whatever is judged, submitted or published is handed to a service that
\* still runs: stop() waits for the judging thread first.
ServicesOutliveJudging == process \in Kinds => services = AllServices

\* Once stopping is done the status file says offline: no write of the status
\* thread comes after the last one.
StoppedIsOffline == stopper \in {"services", "done"} => status_file = "offline"

\* stop() returns whenever the judging thread was not just between its look
\* at the predicate and its wait: that window is the only way to hang.
StopReturnsOutsideWindow ==
  stopper = "workers" /\ process # "decided" ~> stopper = "done"

\* The invariants of the server loop: services outlive the judging that uses
\* them, and a stopped server says so in its status file.
Safety == TypeOK /\ ServicesOutliveJudging /\ StoppedIsOffline

=============================================================================
