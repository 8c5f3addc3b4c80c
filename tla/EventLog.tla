------------------------------ MODULE EventLog ------------------------------
(***************************************************************************)
(* EventLogger (event_logger.cpp): the judgment thread puts a row per      *)
(* change of state into a bounded queue, a worker writes what it finds     *)
(* there in one SQLite transaction, the main thread stops the worker.      *)
(*                                                                         *)
(* One action is one critical section or one call outside the mutex.  The  *)
(* mutex is held across steps in one place only: by the worker between the *)
(* predicate of cv_.wait and its going to sleep, "parking".  Rows are      *)
(* numbers; the database may refuse any call, as SQLite does when it is    *)
(* locked or the disk is full.                                             *)
(***************************************************************************)
EXTENDS Integers, Sequences, FiniteSets

CONSTANTS
  MaxQueue,   \* max_queue_size_
  MaxRows     \* bound: rows logged

ASSUME BoundAssumption == MaxQueue \in Nat \ {0} /\ MaxRows \in Nat

VARIABLES
  logged,             \* rows logged so far; the producer is at its notify_one
  producer,           \*   when "notify", between two calls when "ready"
  stopper,            \* "up", then stop() at "notify", "join", and "closed"
  running_, queue_, writing_,
  worker,             \* where EventLogger::run is, "absent" without start()
  batch,              \* rows taken and not yet inserted
  in_txn, ok_count,   \* local variables of writeBatch
  txn_open, uncommitted, stored,   \* the database: its transaction, its rows
  written_, write_failures_, dropped_overflow_

producerVars == <<logged, producer, dropped_overflow_>>
threadVars == <<stopper, running_>>
batchVars == <<batch, in_txn, ok_count>>
dbVars == <<txn_open, uncommitted, stored>>
countVars == <<written_, write_failures_>>
vars == <<producerVars, threadVars, queue_, writing_, worker, batchVars, dbVars,
          countVars>>

MutexFree == worker # "parking"

-----------------------------------------------------------------------------
(* Judgment thread: log                                                    *)

Overflow == Len(queue_) >= MaxQueue

\* log, under the mutex.  The judgment thread has ended before stop().
Log ==
  /\ producer = "ready" /\ stopper = "up" /\ MutexFree
  /\ logged < MaxRows
  /\ logged' = logged + 1
  /\ queue_' = Append(IF Overflow THEN Tail(queue_) ELSE queue_, logged + 1)
  /\ dropped_overflow_' = IF Overflow THEN dropped_overflow_ + 1 ELSE dropped_overflow_
  /\ producer' = "notify"
  /\ UNCHANGED <<threadVars, writing_, worker, batchVars, dbVars, countVars>>

Notified == worker' = IF worker = "waiting" THEN "check" ELSE worker

\* cv_.notify_one, after the mutex was released.
NotifyRow ==
  /\ producer = "notify"
  /\ Notified
  /\ producer' = "ready"
  /\ UNCHANGED <<logged, dropped_overflow_, threadVars, queue_, writing_,
                 batchVars, dbVars, countVars>>

-----------------------------------------------------------------------------
(* Main thread: stop                                                       *)

\* running_.exchange(false); nothing follows when start() had failed.
Stop ==
  /\ stopper = "up" /\ producer = "ready"
  /\ running_' = FALSE
  /\ stopper' = IF running_ THEN "notify" ELSE "closed"
  /\ UNCHANGED <<producerVars, queue_, writing_, worker, batchVars, dbVars, countVars>>

\* cv_.notify_all, without the mutex.
NotifyStop ==
  /\ stopper = "notify"
  /\ Notified
  /\ stopper' = "join"
  /\ UNCHANGED <<producerVars, running_, queue_, writing_, batchVars, dbVars, countVars>>

\* worker_.join and closeDatabase.
JoinAndClose ==
  /\ stopper = "join" /\ worker = "exited"
  /\ stopper' = "closed"
  /\ UNCHANGED <<producerVars, running_, queue_, writing_, worker, batchVars,
                 dbVars, countVars>>

-----------------------------------------------------------------------------
(* Worker: run                                                             *)

\* Bug: only stop() ends the wait.
BugWaitsForStop == ~running_

\* The predicate of cv_.wait.
WaitIsOver == queue_ # <<>> \/ ~running_

\* Bug: the worker leaves as soon as it was stopped.
BugLeavesAtOnce == ~running_

LeavesLoop == queue_ = <<>>

Park ==
  /\ worker = "check" /\ ~WaitIsOver
  /\ worker' = "parking"
  /\ UNCHANGED <<producerVars, threadVars, queue_, writing_, batchVars, dbVars, countVars>>

\* Blocks, and releases the mutex in the same step.
Sleep ==
  /\ worker = "parking"
  /\ worker' = "waiting"
  /\ UNCHANGED <<producerVars, threadVars, queue_, writing_, batchVars, dbVars, countVars>>

SpuriousWakeup ==
  /\ worker = "waiting"
  /\ worker' = "check"
  /\ UNCHANGED <<producerVars, threadVars, queue_, writing_, batchVars, dbVars, countVars>>

Exit ==
  /\ worker = "check" /\ WaitIsOver /\ LeavesLoop
  /\ worker' = "exited"
  /\ UNCHANGED <<producerVars, threadVars, queue_, writing_, batchVars, dbVars, countVars>>

MarkWriting == writing_' = TRUE

TakeBatch ==
  /\ worker = "check" /\ WaitIsOver /\ ~LeavesLoop
  /\ batch' = queue_ /\ queue_' = <<>>
  /\ MarkWriting
  /\ worker' = "begin"
  /\ UNCHANGED <<producerVars, threadVars, in_txn, ok_count, dbVars, countVars>>

\* BEGIN IMMEDIATE; when it fails the rows are written without a transaction.
Begin ==
  /\ worker = "begin"
  /\ in_txn' \in BOOLEAN
  /\ txn_open' = in_txn'
  /\ worker' = "insert"
  /\ UNCHANGED <<producerVars, threadVars, queue_, writing_, batch, ok_count,
                 uncommitted, stored, countVars>>

Insert ==
  /\ worker = "insert" /\ batch # <<>>
  /\ batch' = Tail(batch)
  /\ ok_count' = ok_count + 1
  /\ IF txn_open
     THEN uncommitted' = uncommitted \cup {Head(batch)} /\ UNCHANGED stored
     ELSE stored' = stored \cup {Head(batch)} /\ UNCHANGED uncommitted
  /\ UNCHANGED <<producerVars, threadVars, queue_, writing_, worker, in_txn,
                 txn_open, countVars>>

\* A full disk or an I/O error may roll the open transaction back as well.
InsertFails ==
  /\ worker = "insert" /\ batch # <<>>
  /\ batch' = Tail(batch)
  /\ write_failures_' = write_failures_ + 1
  /\ \/ UNCHANGED <<txn_open, uncommitted>>
     \/ txn_open' = FALSE /\ uncommitted' = {}
  /\ UNCHANGED <<producerVars, threadVars, queue_, writing_, worker, in_txn,
                 ok_count, stored, written_>>

\* The rows of the batch are counted as written, ...
CountWritten ==
  /\ written_' = written_ + ok_count
  /\ UNCHANGED write_failures_

\* Bug: a batch that was rolled back is counted as written.
BugCountsRolledBack == CountWritten

\* ... or, when COMMIT fails, as failures.
CountRolledBack ==
  /\ write_failures_' = write_failures_ + ok_count
  /\ UNCHANGED written_

EndBatch ==
  /\ worker = "insert" /\ batch = <<>>
  /\ worker' = "finish"
  /\ ok_count' = 0 /\ in_txn' = FALSE
  /\ txn_open' = FALSE /\ uncommitted' = {}
  /\ UNCHANGED <<producerVars, threadVars, queue_, writing_, batch>>

Commit ==
  /\ EndBatch
  /\ txn_open \/ ~in_txn
  /\ stored' = stored \cup uncommitted
  /\ CountWritten

\* COMMIT fails, as it must when the transaction is gone; then ROLLBACK.
Rollback ==
  /\ EndBatch
  /\ in_txn
  /\ UNCHANGED stored
  /\ CountRolledBack

Finish ==
  /\ worker = "finish"
  /\ writing_' = FALSE
  /\ worker' = "check"
  /\ UNCHANGED <<producerVars, threadVars, queue_, batchVars, dbVars, countVars>>

-----------------------------------------------------------------------------
\* After start(), which may have failed.
Init ==
  /\ logged = 0 /\ producer = "ready" /\ stopper = "up"
  /\ running_ \in BOOLEAN
  /\ worker = IF running_ THEN "check" ELSE "absent"
  /\ queue_ = <<>> /\ writing_ = FALSE
  /\ batch = <<>> /\ in_txn = FALSE /\ ok_count = 0
  /\ txn_open = FALSE /\ uncommitted = {} /\ stored = {}
  /\ written_ = 0 /\ write_failures_ = 0 /\ dropped_overflow_ = 0

Producer == Log \/ NotifyRow
Stopper == Stop \/ NotifyStop \/ JoinAndClose
Worker ==
  \/ Park \/ Sleep \/ Exit \/ TakeBatch
  \/ Begin \/ Insert \/ InsertFails \/ Commit \/ Rollback \/ Finish

Next == Producer \/ Stopper \/ Worker \/ SpuriousWakeup

Spec == Init /\ [][Next]_vars

\* Every thread goes on; no row need be logged, stop() need not be called and
\* no wakeup comes unasked.
FairSpec ==
  Spec /\ WF_vars(NotifyRow) /\ WF_vars(NotifyStop \/ JoinAndClose) /\ WF_vars(Worker)

-----------------------------------------------------------------------------
(* Properties                                                              *)

\* Every variable has its type, and the queue its bound.
TypeOK ==
  /\ logged \in 0 .. MaxRows /\ producer \in {"ready", "notify"}
  /\ stopper \in {"up", "notify", "join", "closed"}
  /\ running_ \in BOOLEAN /\ writing_ \in BOOLEAN
  /\ queue_ \in Seq(1 .. MaxRows) /\ Len(queue_) <= MaxQueue
  /\ worker \in {"absent", "check", "parking", "waiting", "begin", "insert",
                 "finish", "exited"}
  /\ batch \in Seq(1 .. MaxRows) /\ in_txn \in BOOLEAN /\ ok_count \in Nat
  /\ txn_open \in BOOLEAN
  /\ uncommitted \in SUBSET (1 .. MaxRows) /\ stored \in SUBSET (1 .. MaxRows)
  /\ written_ \in Nat /\ write_failures_ \in Nat /\ dropped_overflow_ \in Nat

\* The counters account for every row at every moment: it is in the queue, in
\* the batch, inserted and not yet committed, or in exactly one of the three
\* counters an operator reads.
EveryRowAccounted ==
  logged = dropped_overflow_ + Len(queue_) + Len(batch) + ok_count
             + written_ + write_failures_

\* writtenCount never claims a row that is not in the database, whatever calls
\* fail and whether or not SQLite rolled the transaction back by itself.
WrittenRowsAreStored == written_ <= Cardinality(stored)

\* What flushWithin tests is what it promises: with the queue empty and no
\* batch marked, every row is stored or counted as lost.
DrainedMeansSettled ==
  queue_ = <<>> /\ ~writing_ =>
    /\ batch = <<>> /\ uncommitted = {} /\ ~txn_open
    /\ logged = dropped_overflow_ + written_ + write_failures_

\* event_logger.hpp:84: stop() writes what is left, joins the worker and
\* closes the database.
StopReturns == stopper # "up" ~> stopper = "closed"

Rows(seq) == {seq[i] : i \in DOMAIN seq}

\* The rows a started logger still holds; without a worker they are lost.
Pending ==
  IF worker = "absent" THEN {} ELSE Rows(queue_) \cup Rows(batch) \cup uncommitted

\* No row stays in the logger forever: it is stored or lost in the end, also
\* when stop() comes between its being queued and the worker's waking up.
RowsSettle == \A r \in 1 .. MaxRows : r \in Pending ~> r \notin Pending

Promise == INSTANCE LossyLog
  WITH pending <- Pending, closed <- stopper = "closed"

\* The logger keeps the promise of a lossy log: rows are stored in the order
\* they were logged, none twice, none is taken back, and stop() closes the
\* database only with nothing pending.
ImplementsLossyLog == Promise!Spec

\* The invariants of the log: every row is accounted for once, written means
\* stored, and drained means settled.
Safety == TypeOK /\ EveryRowAccounted /\ WrittenRowsAreStored /\ DrainedMeansSettled

=============================================================================
