--------------------------- MODULE EventLogProofs ---------------------------
(***************************************************************************)
(* Proofs about what the server writes down and tells the terminals: the   *)
(* counters of EventLog account for every row and EventLog implements      *)
(* LossyLog, for any queue length and number of rows; the assignment       *)
(* channel keeps order and loses nothing, for any terminals and streams.   *)
(***************************************************************************)
EXTENDS MCEventLog, Sequences, FiniteSets, FiniteSetTheorems, TLAPS

Ascending(seq) == \A i, j \in DOMAIN seq : i < j => seq[i] < seq[j]

\* Who runs: the worker exists when start() succeeded, and leaves only after
\* stop(), with an empty queue.
ThreadInv ==
  /\ worker = "absent" => ~running_ /\ stopper \in {"up", "closed"}
  /\ worker # "absent" => (running_ <=> stopper = "up")
  /\ worker = "exited" => queue_ = <<>> /\ stopper # "up"
  /\ worker # "absent" /\ stopper = "closed" => worker = "exited"

\* What the worker's variables hold at each place of run and writeBatch.
StageInv ==
  /\ writing_ <=> worker \in {"begin", "insert", "finish"}
  /\ worker \notin {"begin", "insert"} => batch = <<>>
  /\ worker # "insert" => ok_count = 0 /\ ~in_txn
  /\ txn_open => in_txn
  /\ ~txn_open => uncommitted = {}

\* Rows move from the queue through the batch to the database in order.
OrderInv ==
  /\ Ascending(queue_) /\ Ascending(batch)
  /\ \A s \in stored, r \in uncommitted \cup Rows(batch) \cup Rows(queue_) : s < r
  /\ \A u \in uncommitted, r \in Rows(batch) \cup Rows(queue_) : u < r
  /\ \A b \in Rows(batch), r \in Rows(queue_) : b < r
  /\ \A r \in stored \cup uncommitted \cup Rows(batch) \cup Rows(queue_) : r <= logged

\* Rows counted as inserted are in the database, or in its transaction.
StoredInv ==
  /\ written_ <= Cardinality(stored)
  /\ ~in_txn => written_ + ok_count <= Cardinality(stored)
  /\ txn_open => ok_count = Cardinality(uncommitted)

IInv ==
  TypeOK /\ ThreadInv /\ StageInv /\ OrderInv /\ EveryRowAccounted /\ StoredInv

-----------------------------------------------------------------------------
(* Sequences of rows                                                       *)

LEMMA EmptyRows == Rows(<<>>) = {} /\ Ascending(<<>>) /\ Len(<<>>) = 0
  BY DEF Rows, Ascending

LEMMA RowsType ==
  ASSUME NEW S, NEW seq \in Seq(S)
  PROVE  Rows(seq) \subseteq S
  BY DEF Rows

LEMMA TailRows ==
  ASSUME NEW S \in SUBSET Nat, NEW seq \in Seq(S), seq # <<>>
  PROVE  /\ Tail(seq) \in Seq(S) /\ Head(seq) \in S
         /\ Len(seq) >= 1 /\ Len(Tail(seq)) = Len(seq) - 1
         /\ Rows(seq) = {Head(seq)} \cup Rows(Tail(seq))
         /\ Ascending(seq) =>
              Ascending(Tail(seq)) /\ \A r \in Rows(Tail(seq)) : Head(seq) < r
<1>1. /\ Tail(seq) \in Seq(S) /\ Head(seq) \in S
      /\ Len(seq) \in Nat /\ Len(seq) >= 1 /\ Len(Tail(seq)) = Len(seq) - 1
      /\ Head(seq) = seq[1]
      /\ DOMAIN seq = 1 .. Len(seq) /\ DOMAIN Tail(seq) = 1 .. Len(seq) - 1
      /\ \A i \in 1 .. Len(seq) - 1 : Tail(seq)[i] = seq[i + 1]
  OBVIOUS
<1>2. Rows(seq) \subseteq {Head(seq)} \cup Rows(Tail(seq))
  <2> SUFFICES ASSUME NEW i \in 1 .. Len(seq), i # 1
               PROVE  seq[i] \in Rows(Tail(seq))
    BY <1>1 DEF Rows
  <2>1. i - 1 \in 1 .. Len(seq) - 1 /\ Tail(seq)[i - 1] = seq[i]
    BY <1>1
  <2> QED
    BY <1>1, <2>1 DEF Rows
<1>3. {Head(seq)} \cup Rows(Tail(seq)) \subseteq Rows(seq)
  BY <1>1 DEF Rows
<1>4. Ascending(seq) =>
        Ascending(Tail(seq)) /\ \A r \in Rows(Tail(seq)) : Head(seq) < r
  BY <1>1 DEF Rows, Ascending
<1> QED
  BY <1>1, <1>2, <1>3, <1>4

LEMMA AppendRows ==
  ASSUME NEW S \in SUBSET Nat, NEW seq \in Seq(S), NEW row \in S
  PROVE  /\ Append(seq, row) \in Seq(S) /\ Len(Append(seq, row)) = Len(seq) + 1
         /\ Rows(Append(seq, row)) = Rows(seq) \cup {row}
         /\ Ascending(seq) /\ (\A r \in Rows(seq) : r < row) => Ascending(Append(seq, row))
<1>1. /\ Append(seq, row) \in Seq(S) /\ Len(Append(seq, row)) = Len(seq) + 1
      /\ Len(seq) \in Nat
      /\ DOMAIN seq = 1 .. Len(seq) /\ DOMAIN Append(seq, row) = 1 .. Len(seq) + 1
      /\ \A i \in 1 .. Len(seq) : Append(seq, row)[i] = seq[i]
      /\ Append(seq, row)[Len(seq) + 1] = row
  OBVIOUS
<1>2. \A i \in 1 .. Len(seq) + 1 : i \in 1 .. Len(seq) \/ i = Len(seq) + 1
  BY <1>1
<1>3. Rows(Append(seq, row)) = Rows(seq) \cup {row}
  BY <1>1, <1>2 DEF Rows
<1>4. ASSUME Ascending(seq), \A r \in Rows(seq) : r < row
      PROVE  Ascending(Append(seq, row))
  BY <1>1, <1>2, <1>4 DEF Rows, Ascending
<1> QED
  BY <1>1, <1>3, <1>4

LEMMA FiniteRows ==
  ASSUME NEW R \in SUBSET (1 .. MaxRows)
  PROVE  IsFiniteSet(R) /\ Cardinality(R) \in Nat
<1>1. IsFiniteSet(1 .. MaxRows)
  BY BoundAssumption, FS_Interval
<1>2. IsFiniteSet(R)
  BY <1>1, FS_Subset
<1> QED
  BY <1>2, FS_CardinalityType

\* What a set of rows gains by rows it does not have yet.
LEMMA DisjointRows ==
  ASSUME NEW R \in SUBSET (1 .. MaxRows), NEW T \in SUBSET (1 .. MaxRows),
         R \cap T = {}
  PROVE  Cardinality(R \cup T) = Cardinality(R) + Cardinality(T)
<1>1. Cardinality(R \cap T) = 0
  BY FS_EmptySet
<1>2. IsFiniteSet(R) /\ IsFiniteSet(T) /\ Cardinality(R) \in Nat /\ Cardinality(T) \in Nat
  BY FiniteRows
<1>3. Cardinality(R \cup T) = Cardinality(R) + Cardinality(T) - Cardinality(R \cap T)
  BY <1>2, FS_Union
<1> QED
  BY <1>1, <1>2, <1>3

-----------------------------------------------------------------------------
(* Invariance                                                              *)

LEMMA InitHolds == Init => IInv
<1> SUFFICES ASSUME Init PROVE IInv
  OBVIOUS
<1>1. /\ queue_ = <<>> /\ batch = <<>> /\ uncommitted = {} /\ stored = {}
      /\ logged = 0 /\ ok_count = 0 /\ written_ = 0 /\ write_failures_ = 0
      /\ dropped_overflow_ = 0 /\ producer = "ready" /\ stopper = "up"
      /\ worker = IF running_ THEN "check" ELSE "absent"
  BY DEF Init
<1>2. /\ running_ \in BOOLEAN /\ writing_ \in BOOLEAN /\ ~writing_
      /\ in_txn \in BOOLEAN /\ ~in_txn /\ txn_open \in BOOLEAN /\ ~txn_open
  BY DEF Init
<1>3. <<>> \in Seq(1 .. MaxRows) /\ Len(<<>>) = 0
  OBVIOUS
<1>4. TypeOK
  BY <1>1, <1>2, <1>3, BoundAssumption DEF TypeOK
<1>5. ThreadInv /\ StageInv
  BY <1>1, <1>2 DEF ThreadInv, StageInv
<1>6. OrderInv
  BY <1>1, EmptyRows DEF OrderInv
<1>7. EveryRowAccounted
  BY <1>1, <1>3 DEF EveryRowAccounted
<1>8. StoredInv
  BY <1>1, <1>2, FS_EmptySet DEF StoredInv
<1> QED
  BY <1>4, <1>5, <1>6, <1>7, <1>8 DEF IInv

\* Where threads and flags may go while no row moves.
LEMMA QuietKeepsInvariant ==
  ASSUME IInv, ThreadInv', StageInv',
         UNCHANGED <<logged, dropped_overflow_, queue_, batch, ok_count, uncommitted,
                     stored, written_, write_failures_>>,
         producer' \in {"ready", "notify"}, stopper' \in {"up", "notify", "join", "closed"},
         running_' \in BOOLEAN, writing_' \in BOOLEAN,
         worker' \in {"absent", "check", "parking", "waiting", "begin", "insert",
                      "finish", "exited"},
         in_txn' \in BOOLEAN, txn_open' \in BOOLEAN,
         (in_txn' = in_txn /\ txn_open' = txn_open) \/ worker = "begin"
  PROVE  IInv'
<1>1. TypeOK'
  BY DEF IInv, TypeOK
<1>2. OrderInv' /\ EveryRowAccounted'
  BY DEF IInv, OrderInv, EveryRowAccounted
<1>3. StoredInv'
  <2>1. CASE in_txn' = in_txn /\ txn_open' = txn_open
    BY <2>1 DEF IInv, StoredInv
  <2>2. CASE worker = "begin"
    <3>1. ok_count = 0 /\ uncommitted = {} /\ ~in_txn
      BY <2>2 DEF IInv, StageInv
    <3>2. Cardinality(uncommitted) = 0
      BY <3>1, FS_EmptySet
    <3> QED
      BY <3>1, <3>2 DEF IInv, StoredInv
  <2> QED
    BY <2>1, <2>2
<1> QED
  BY <1>1, <1>2, <1>3 DEF IInv

LEMMA QuietSteps ==
  ASSUME IInv,
         \/ NotifyRow \/ Stop \/ NotifyStop \/ JoinAndClose
         \/ Park \/ Sleep \/ SpuriousWakeup \/ Exit \/ Begin \/ Finish
  PROVE  IInv'
<1> USE DEF IInv, TypeOK, ThreadInv, StageInv, producerVars, threadVars, batchVars,
            dbVars, countVars
<1>1. CASE NotifyRow
  BY <1>1, QuietKeepsInvariant DEF NotifyRow, Notified
<1>2. CASE Stop
  <2>1. running_' \in BOOLEAN /\ ~running_'
    BY <1>2 DEF Stop
  <2> QED
    BY <1>2, <2>1, QuietKeepsInvariant DEF Stop
<1>3. CASE NotifyStop
  BY <1>3, QuietKeepsInvariant DEF NotifyStop, Notified
<1>4. CASE JoinAndClose
  BY <1>4, QuietKeepsInvariant DEF JoinAndClose
<1>5. CASE Park
  BY <1>5, QuietKeepsInvariant DEF Park
<1>6. CASE Sleep
  BY <1>6, QuietKeepsInvariant DEF Sleep
<1>7. CASE SpuriousWakeup
  BY <1>7, QuietKeepsInvariant DEF SpuriousWakeup
<1>8. CASE Exit
  BY <1>8, QuietKeepsInvariant DEF Exit, LeavesLoop, WaitIsOver
<1>9. CASE Begin
  BY <1>9, QuietKeepsInvariant DEF Begin
<1>10. CASE Finish
  <2>1. writing_' \in BOOLEAN /\ ~writing_'
    BY <1>10 DEF Finish
  <2> QED
    BY <1>10, <2>1, QuietKeepsInvariant DEF Finish
<1> QED
  BY <1>1, <1>2, <1>3, <1>4, <1>5, <1>6, <1>7, <1>8, <1>9, <1>10

\* The rows of a state, as numbers.
LEMMA RowCount ==
  ASSUME IInv
  PROVE  \E l, d, q, b, k, w, f \in Nat :
           /\ l = logged /\ d = dropped_overflow_ /\ q = Len(queue_) /\ b = Len(batch)
           /\ k = ok_count /\ w = written_ /\ f = write_failures_
           /\ l = d + q + b + k + w + f
<1>1. /\ logged \in Nat /\ dropped_overflow_ \in Nat /\ ok_count \in Nat
      /\ written_ \in Nat /\ write_failures_ \in Nat
      /\ Len(queue_) \in Nat /\ Len(batch) \in Nat
  BY DEF IInv, TypeOK
<1> QED
  BY <1>1 DEF IInv, EveryRowAccounted

\* A new row, with the oldest one dropped when the queue is full.
LEMMA LogKeepsInvariant ==
  ASSUME IInv, Log
  PROVE  IInv'
<1> DEFINE kept == IF Overflow THEN Tail(queue_) ELSE queue_
<1>1. /\ logged \in 0 .. MaxRows /\ logged < MaxRows /\ logged' = logged + 1
      /\ queue_' = Append(kept, logged + 1)
      /\ dropped_overflow_' = IF Overflow THEN dropped_overflow_ + 1 ELSE dropped_overflow_
      /\ producer' = "notify"
      /\ UNCHANGED <<threadVars, writing_, worker, batchVars, dbVars, countVars>>
  BY DEF Log, IInv, TypeOK
<1>2. queue_ \in Seq(1 .. MaxRows) /\ Len(queue_) <= MaxQueue /\ Len(queue_) \in Nat
      /\ Ascending(queue_) /\ dropped_overflow_ \in Nat
  BY DEF IInv, TypeOK, OrderInv
<1>3. /\ kept \in Seq(1 .. MaxRows) /\ Rows(kept) \subseteq Rows(queue_) /\ Ascending(kept)
      /\ Len(kept) \in Nat /\ Len(kept) < MaxQueue
      /\ dropped_overflow_' \in Nat
      /\ dropped_overflow_' + Len(kept) = dropped_overflow_ + Len(queue_)
  <2>1. CASE Overflow
    <3>1. queue_ # <<>>
      BY <2>1, BoundAssumption, EmptyRows DEF Overflow
    <3>2. 1 .. MaxRows \in SUBSET Nat
      OBVIOUS
    <3>3. /\ Tail(queue_) \in Seq(1 .. MaxRows) /\ Len(Tail(queue_)) = Len(queue_) - 1
          /\ Rows(Tail(queue_)) \subseteq Rows(queue_) /\ Ascending(Tail(queue_))
          /\ Len(queue_) >= 1
      BY <1>2, <3>1, <3>2, TailRows
    <3> QED
      BY <1>1, <1>2, <2>1, <3>3, BoundAssumption
  <2>2. CASE ~Overflow
    BY <1>1, <1>2, <2>2, BoundAssumption DEF Overflow
  <2> QED
    BY <2>1, <2>2
<1>4. /\ queue_' \in Seq(1 .. MaxRows) /\ Len(queue_') = Len(kept) + 1
      /\ Rows(queue_') = Rows(kept) \cup {logged + 1}
      /\ Ascending(queue_')
  <2>1. logged + 1 \in 1 .. MaxRows /\ 1 .. MaxRows \in SUBSET Nat
    BY <1>1, BoundAssumption
  <2>2. \A r \in Rows(kept) : r < logged + 1
    <3>1. \A r \in Rows(queue_) : r \in 1 .. MaxRows /\ r <= logged
      BY <1>2, RowsType DEF IInv, OrderInv
    <3> QED
      BY <1>1, <1>3, <3>1
  <2> HIDE DEF kept
  <2> QED
    BY <1>1, <1>3, <2>1, <2>2, AppendRows
<1> HIDE DEF kept
<1>5. TypeOK'
  BY <1>1, <1>3, <1>4, BoundAssumption
  DEF IInv, TypeOK, threadVars, batchVars, dbVars, countVars
<1>6. ThreadInv' /\ StageInv'
  BY <1>1 DEF Log, IInv, ThreadInv, StageInv, threadVars, batchVars, dbVars
<1>7. OrderInv'
  <2>1. /\ batch' = batch /\ uncommitted' = uncommitted /\ stored' = stored
    BY <1>1 DEF batchVars, dbVars
  <2>2. \A r \in stored \cup uncommitted \cup Rows(batch) \cup Rows(kept) :
          r \in Int /\ r <= logged
    <3>1. Rows(batch) \subseteq 1 .. MaxRows /\ Rows(queue_) \subseteq 1 .. MaxRows
      BY RowsType DEF IInv, TypeOK
    <3> QED
      BY <1>3, <3>1 DEF IInv, OrderInv, TypeOK
  <2> QED
    BY <1>1, <1>3, <1>4, <2>1, <2>2 DEF IInv, OrderInv
<1>8. EveryRowAccounted'
  <2>1. PICK l, d, q, b, k, w, f \in Nat :
          /\ l = logged /\ d = dropped_overflow_ /\ q = Len(queue_) /\ b = Len(batch)
          /\ k = ok_count /\ w = written_ /\ f = write_failures_
          /\ l = d + q + b + k + w + f
    BY RowCount
  <2>2. /\ logged' = l + 1 /\ Len(batch') = b /\ ok_count' = k
        /\ written_' = w /\ write_failures_' = f
    BY <1>1, <2>1 DEF batchVars, countVars
  <2>3. PICK d1 \in Nat, q1 \in Nat : d1 = dropped_overflow_' /\ q1 = Len(kept)
    BY <1>3
  <2>4. d1 + q1 = d + q /\ Len(queue_') = q1 + 1
    BY <1>3, <1>4, <2>1, <2>3
  <2>5. l + 1 = d1 + (q1 + 1) + b + k + w + f
    BY <2>1, <2>4
  <2> QED
    BY <2>2, <2>3, <2>4, <2>5 DEF EveryRowAccounted
<1>9. StoredInv'
  BY <1>1 DEF IInv, StoredInv, batchVars, dbVars, countVars
<1> QED
  BY <1>5, <1>6, <1>7, <1>8, <1>9 DEF IInv

\* The queue becomes the batch.
LEMMA TakeKeepsInvariant ==
  ASSUME IInv, TakeBatch
  PROVE  IInv'
<1>1. /\ worker = "check" /\ worker' = "begin"
      /\ batch' = queue_ /\ queue_' = <<>>
      /\ writing_' = TRUE
      /\ UNCHANGED <<producerVars, threadVars, in_txn, ok_count, dbVars, countVars>>
  BY DEF TakeBatch, MarkWriting
<1>2. writing_' \in BOOLEAN /\ writing_'
  BY <1>1
<1>3. batch = <<>> /\ ok_count = 0 /\ ~in_txn /\ ~txn_open /\ uncommitted = {}
  BY <1>1 DEF IInv, StageInv
<1>4. TypeOK'
  BY <1>1, <1>2, BoundAssumption
  DEF IInv, TypeOK, producerVars, threadVars, dbVars, countVars
<1>5. ThreadInv' /\ StageInv'
  BY <1>1, <1>2, <1>3 DEF IInv, ThreadInv, StageInv, threadVars, dbVars
<1>6. OrderInv'
  BY <1>1, <1>3, EmptyRows DEF IInv, OrderInv, producerVars, dbVars
<1>7. EveryRowAccounted'
  BY <1>1, <1>3, EmptyRows DEF IInv, TypeOK, EveryRowAccounted, producerVars, countVars
<1>8. StoredInv'
  BY <1>1 DEF IInv, StoredInv, dbVars, countVars
<1> QED
  BY <1>4, <1>5, <1>6, <1>7, <1>8 DEF IInv

\* The first row of the batch, while there is one.
LEMMA HeadOfBatch ==
  ASSUME IInv, batch # <<>>
  PROVE  /\ Head(batch) \in 1 .. MaxRows /\ Tail(batch) \in Seq(1 .. MaxRows)
         /\ Len(batch) = Len(Tail(batch)) + 1 /\ Len(Tail(batch)) \in Nat
         /\ Rows(batch) = {Head(batch)} \cup Rows(Tail(batch))
         /\ Ascending(Tail(batch))
         /\ \A r \in Rows(Tail(batch)) : Head(batch) < r
         /\ \A s \in stored \cup uncommitted : s < Head(batch)
         /\ Head(batch) \notin stored \cup uncommitted
<1>1. batch \in Seq(1 .. MaxRows) /\ 1 .. MaxRows \in SUBSET Nat /\ Ascending(batch)
  BY DEF IInv, TypeOK, OrderInv
<1>2. /\ Head(batch) \in 1 .. MaxRows /\ Tail(batch) \in Seq(1 .. MaxRows)
      /\ Len(batch) >= 1 /\ Len(Tail(batch)) = Len(batch) - 1
      /\ Rows(batch) = {Head(batch)} \cup Rows(Tail(batch))
      /\ Ascending(Tail(batch)) /\ \A r \in Rows(Tail(batch)) : Head(batch) < r
  BY <1>1, TailRows
<1>3. \A s \in stored \cup uncommitted : s < Head(batch)
  BY <1>2 DEF IInv, OrderInv
<1>4. Len(batch) \in Nat
  BY <1>1
<1> QED
  BY <1>2, <1>3, <1>4

LEMMA InsertKeepsInvariant ==
  ASSUME IInv, Insert
  PROVE  IInv'
<1>1. /\ worker = "insert" /\ batch # <<>> /\ batch' = Tail(batch)
      /\ ok_count' = ok_count + 1
      /\ UNCHANGED <<producerVars, threadVars, queue_, writing_, worker, in_txn,
                     txn_open, countVars>>
  BY DEF Insert
<1>2. /\ Head(batch) \in 1 .. MaxRows /\ Tail(batch) \in Seq(1 .. MaxRows)
      /\ Len(batch) = Len(Tail(batch)) + 1 /\ Len(Tail(batch)) \in Nat
      /\ Rows(batch) = {Head(batch)} \cup Rows(Tail(batch))
      /\ Ascending(Tail(batch))
      /\ \A r \in Rows(Tail(batch)) : Head(batch) < r
      /\ \A s \in stored \cup uncommitted : s < Head(batch)
      /\ Head(batch) \notin stored \cup uncommitted
  BY <1>1, HeadOfBatch
<1>3. /\ txn_open => uncommitted' = uncommitted \cup {Head(batch)} /\ stored' = stored
      /\ ~txn_open => stored' = stored \cup {Head(batch)} /\ uncommitted' = uncommitted
  BY DEF Insert
<1>4. /\ stored \in SUBSET (1 .. MaxRows) /\ uncommitted \in SUBSET (1 .. MaxRows)
      /\ stored' \in SUBSET (1 .. MaxRows) /\ uncommitted' \in SUBSET (1 .. MaxRows)
  BY <1>2, <1>3 DEF IInv, TypeOK
<1>5. ok_count \in Nat /\ written_ \in Nat
  BY DEF IInv, TypeOK
<1>6. TypeOK'
  BY <1>1, <1>2, <1>4 DEF IInv, TypeOK, producerVars, threadVars, countVars
<1>7. ThreadInv' /\ StageInv'
  BY <1>1, <1>3 DEF IInv, ThreadInv, StageInv, threadVars
<1>8. OrderInv'
  <2>1. queue_' = queue_ /\ logged' = logged
    BY <1>1 DEF producerVars
  <2>2. /\ Ascending(queue_)
        /\ \A s \in stored, r \in uncommitted \cup Rows(batch) \cup Rows(queue_) : s < r
        /\ \A u \in uncommitted, r \in Rows(batch) \cup Rows(queue_) : u < r
        /\ \A b \in Rows(batch), r \in Rows(queue_) : b < r
        /\ \A r \in stored \cup uncommitted \cup Rows(batch) \cup Rows(queue_) : r <= logged
    BY DEF IInv, OrderInv
  <2>3. CASE txn_open
    BY <1>1, <1>2, <1>3, <2>1, <2>2, <2>3 DEF OrderInv
  <2>4. CASE ~txn_open
    <3>1. uncommitted = {}
      BY <2>4 DEF IInv, StageInv
    <3> QED
      BY <1>1, <1>2, <1>3, <2>1, <2>2, <2>4, <3>1 DEF OrderInv
  <2> QED
    BY <2>3, <2>4
<1>9. EveryRowAccounted'
  BY <1>1, <1>2, <1>5 DEF IInv, TypeOK, EveryRowAccounted, producerVars, countVars
<1>10. StoredInv'
  <2>1. /\ IsFiniteSet(stored) /\ Cardinality(stored) \in Nat
        /\ IsFiniteSet(uncommitted) /\ Cardinality(uncommitted) \in Nat
    BY <1>4, FiniteRows
  <2>2. /\ Cardinality(stored \cup {Head(batch)}) = Cardinality(stored) + 1
        /\ Cardinality(uncommitted \cup {Head(batch)}) = Cardinality(uncommitted) + 1
    BY <1>2, <2>1, FS_AddElement
  <2>3. txn_open => in_txn
    BY DEF IInv, StageInv
  <2>4. /\ written_' = written_ /\ ok_count' = ok_count + 1
        /\ in_txn' = in_txn /\ txn_open' = txn_open
    BY <1>1 DEF countVars
  <2>5. /\ written_ <= Cardinality(stored)
        /\ ~in_txn => written_ + ok_count <= Cardinality(stored)
        /\ txn_open => ok_count = Cardinality(uncommitted)
    BY DEF IInv, StoredInv
  <2>6. CASE txn_open
    BY <1>3, <1>5, <2>1, <2>2, <2>3, <2>4, <2>5, <2>6 DEF StoredInv
  <2>7. CASE ~txn_open
    BY <1>3, <1>5, <2>1, <2>2, <2>4, <2>5, <2>7 DEF StoredInv
  <2> QED
    BY <2>6, <2>7
<1> QED
  BY <1>6, <1>7, <1>8, <1>9, <1>10 DEF IInv

LEMMA InsertFailsKeepsInvariant ==
  ASSUME IInv, InsertFails
  PROVE  IInv'
<1>1. /\ worker = "insert" /\ batch # <<>> /\ batch' = Tail(batch)
      /\ write_failures_' = write_failures_ + 1
      /\ UNCHANGED <<producerVars, threadVars, queue_, writing_, worker, in_txn,
                     ok_count, stored, written_>>
  BY DEF InsertFails
<1>2. /\ Tail(batch) \in Seq(1 .. MaxRows)
      /\ Len(batch) = Len(Tail(batch)) + 1 /\ Len(Tail(batch)) \in Nat
      /\ Rows(Tail(batch)) \subseteq Rows(batch)
      /\ Ascending(Tail(batch))
  BY <1>1, HeadOfBatch
<1>3. /\ uncommitted' \subseteq uncommitted
      /\ txn_open' \in BOOLEAN
      /\ txn_open' => txn_open /\ uncommitted' = uncommitted
      /\ ~txn_open' => uncommitted' = {}
  <2>1. CASE UNCHANGED <<txn_open, uncommitted>>
    BY <2>1 DEF IInv, TypeOK, StageInv
  <2>2. CASE txn_open' = FALSE /\ uncommitted' = {}
    <3>1. txn_open' \in BOOLEAN /\ ~txn_open'
      BY <2>2
    <3> QED
      BY <2>2, <3>1
  <2> QED
    BY <2>1, <2>2 DEF InsertFails
<1>4. TypeOK'
  BY <1>1, <1>2, <1>3 DEF IInv, TypeOK, producerVars, threadVars
<1>5. ThreadInv' /\ StageInv'
  BY <1>1, <1>3 DEF IInv, ThreadInv, StageInv, threadVars
<1>6. OrderInv'
  BY <1>1, <1>2, <1>3 DEF IInv, OrderInv, producerVars
<1>7. EveryRowAccounted'
  <2>1. PICK l, d, q, b, k, w, f \in Nat :
          /\ l = logged /\ d = dropped_overflow_ /\ q = Len(queue_) /\ b = Len(batch)
          /\ k = ok_count /\ w = written_ /\ f = write_failures_
          /\ l = d + q + b + k + w + f
    BY RowCount
  <2>2. /\ logged' = l /\ dropped_overflow_' = d /\ Len(queue_') = q
        /\ ok_count' = k /\ written_' = w /\ write_failures_' = f + 1
    BY <1>1, <2>1 DEF producerVars
  <2>3. PICK b1 \in Nat : b1 = Len(batch') /\ b = b1 + 1
    BY <1>1, <1>2, <2>1
  <2>4. l = d + q + b1 + k + w + (f + 1)
    BY <2>1, <2>3
  <2> QED
    BY <2>2, <2>3, <2>4 DEF EveryRowAccounted
<1>8. StoredInv'
  BY <1>1, <1>3 DEF IInv, StoredInv
<1> QED
  BY <1>4, <1>5, <1>6, <1>7, <1>8 DEF IInv

\* The end of a batch, committed or rolled back.
LEMMA EndKeepsInvariant ==
  ASSUME IInv, Commit \/ Rollback
  PROVE  IInv'
<1>1. /\ worker = "insert" /\ batch = <<>> /\ worker' = "finish"
      /\ ok_count' = 0 /\ uncommitted' = {}
      /\ in_txn' \in BOOLEAN /\ ~in_txn' /\ txn_open' \in BOOLEAN /\ ~txn_open'
      /\ UNCHANGED <<producerVars, threadVars, queue_, writing_, batch>>
  BY DEF Commit, Rollback, EndBatch
<1>2. /\ ok_count \in Nat /\ written_ \in Nat /\ write_failures_ \in Nat
      /\ stored \in SUBSET (1 .. MaxRows) /\ uncommitted \in SUBSET (1 .. MaxRows)
  BY DEF IInv, TypeOK
<1>3. /\ stored' \in SUBSET (stored \cup uncommitted)
      /\ written_' \in Nat /\ write_failures_' \in Nat
      /\ written_' + write_failures_' = written_ + write_failures_ + ok_count
  BY <1>2 DEF Commit, Rollback, CountWritten, CountRolledBack, countVars
<1>4. TypeOK'
  BY <1>1, <1>2, <1>3 DEF IInv, TypeOK, producerVars, threadVars
<1>5. ThreadInv' /\ StageInv'
  BY <1>1 DEF IInv, ThreadInv, StageInv, threadVars
<1>6. OrderInv'
  BY <1>1, <1>3 DEF IInv, OrderInv, producerVars
<1>7. EveryRowAccounted'
  <2>1. PICK l, d, q, b, k, w, f \in Nat :
          /\ l = logged /\ d = dropped_overflow_ /\ q = Len(queue_) /\ b = Len(batch)
          /\ k = ok_count /\ w = written_ /\ f = write_failures_
          /\ l = d + q + b + k + w + f
    BY RowCount
  <2>2. /\ logged' = l /\ dropped_overflow_' = d /\ Len(queue_') = q
        /\ Len(batch') = b /\ ok_count' = 0
    BY <1>1, <2>1 DEF producerVars
  <2>3. PICK w1 \in Nat, f1 \in Nat : w1 = written_' /\ f1 = write_failures_'
    BY <1>3
  <2>4. w1 + f1 = w + f + k
    BY <1>3, <2>1, <2>3
  <2>5. l = d + q + b + 0 + w1 + f1
    BY <2>1, <2>4
  <2> QED
    BY <2>2, <2>3, <2>5 DEF EveryRowAccounted
<1>8. written_' <= Cardinality(stored')
  <2>1. Cardinality(stored) \in Nat
    BY <1>2, FiniteRows
  <2>2. CASE Commit /\ txn_open
    <3>1. stored \cap uncommitted = {}
      BY <1>2 DEF IInv, OrderInv
    <3>2. Cardinality(stored \cup uncommitted) = Cardinality(stored) + Cardinality(uncommitted)
      BY <1>2, <3>1, DisjointRows
    <3> QED
      BY <1>2, <2>1, <2>2, <3>2 DEF Commit, CountWritten, IInv, StoredInv
  <2>3. CASE Commit /\ ~txn_open
    <3>1. ~in_txn /\ stored' = stored
      BY <2>3 DEF Commit, IInv, StageInv
    <3> QED
      BY <2>3, <3>1 DEF Commit, CountWritten, IInv, StoredInv
  <2>4. CASE Rollback
    BY <2>4 DEF Rollback, CountRolledBack, IInv, StoredInv
  <2> QED
    BY <2>2, <2>3, <2>4
<1>9. StoredInv'
  <2>1. Cardinality(stored') \in Nat
    BY <1>2, <1>3, FiniteRows
  <2> QED
    BY <1>1, <1>3, <1>8, <2>1 DEF StoredInv
<1> QED
  BY <1>4, <1>5, <1>6, <1>7, <1>9 DEF IInv

LEMMA StepKeepsInvariant == IInv /\ [Next]_vars => IInv'
<1> SUFFICES ASSUME IInv, [Next]_vars
             PROVE  IInv'
  OBVIOUS
<1>1. CASE Log
  BY <1>1, LogKeepsInvariant
<1>2. CASE TakeBatch
  BY <1>2, TakeKeepsInvariant
<1>3. CASE Insert
  BY <1>3, InsertKeepsInvariant
<1>4. CASE InsertFails
  BY <1>4, InsertFailsKeepsInvariant
<1>5. CASE Commit \/ Rollback
  BY <1>5, EndKeepsInvariant
<1>6. CASE \/ NotifyRow \/ Stop \/ NotifyStop \/ JoinAndClose
           \/ Park \/ Sleep \/ SpuriousWakeup \/ Exit \/ Begin \/ Finish
  BY <1>6, QuietSteps
<1>7. CASE UNCHANGED vars
  BY <1>7 DEF vars, producerVars, threadVars, batchVars, dbVars, countVars, IInv, TypeOK,
              ThreadInv, StageInv, OrderInv, EveryRowAccounted, StoredInv
<1> QED
  BY <1>1, <1>2, <1>3, <1>4, <1>5, <1>6, <1>7 DEF Next, Producer, Stopper, Worker

\* The inductive invariant holds in every reachable state.
THEOREM InductiveInvariant == Spec => []IInv
  BY InitHolds, StepKeepsInvariant, PTL DEF Spec

\* Every variable keeps its type, the queue its bound.
THEOREM TypeCorrect == Spec => []TypeOK
  BY InductiveInvariant, PTL DEF IInv

\* The counters account for every row at every moment.
THEOREM RowsAreAccounted == Spec => []EveryRowAccounted
  BY InductiveInvariant, PTL DEF IInv

\* writtenCount never claims a row that is not in the database.
THEOREM WrittenIsStored == Spec => []WrittenRowsAreStored
<1>1. IInv => WrittenRowsAreStored
  BY DEF IInv, StoredInv, WrittenRowsAreStored
<1> QED
  BY <1>1, InductiveInvariant, PTL

\* What flushWithin tests is what it promises.
THEOREM DrainedIsSettled == Spec => []DrainedMeansSettled
<1>1. IInv => DrainedMeansSettled
  <2> SUFFICES ASSUME IInv, queue_ = <<>>, ~writing_
               PROVE  /\ batch = <<>> /\ uncommitted = {} /\ ~txn_open
                      /\ logged = dropped_overflow_ + written_ + write_failures_
    BY DEF DrainedMeansSettled
  <2>1. batch = <<>> /\ ok_count = 0 /\ uncommitted = {} /\ ~txn_open
    BY DEF IInv, StageInv
  <2> QED
    BY <2>1, EmptyRows DEF IInv, TypeOK, EveryRowAccounted
<1> QED
  BY <1>1, InductiveInvariant, PTL

-----------------------------------------------------------------------------
(* EventLog implements LossyLog                                            *)

LEMMA InitMaps == Init => Promise!Init
<1> SUFFICES ASSUME Init PROVE Promise!Init
  OBVIOUS
<1>1. Pending = {}
  BY EmptyRows DEF Init, Pending
<1>2. (stopper = "closed") = FALSE
  BY DEF Init
<1> QED
  BY <1>1, <1>2 DEF Init, Promise!Init

\* What a step that moves no row, or moves it inside the logger, looks like
\* from outside.
LEMMA StutterMaps ==
  ASSUME Pending' = Pending, UNCHANGED <<logged, stored, stopper>>
  PROVE  UNCHANGED Promise!vars
  BY DEF Promise!vars

LEMMA LogMaps ==
  ASSUME IInv, Log
  PROVE  Promise!Log
<1>1. /\ logged' = logged + 1 /\ stopper = "up" /\ stopper' = "up"
      /\ UNCHANGED <<stored, batch, uncommitted, worker>>
      /\ queue_' = Append(IF Overflow THEN Tail(queue_) ELSE queue_, logged + 1)
  BY DEF Log, threadVars, dbVars, batchVars
<1>2. queue_ \in Seq(1 .. MaxRows) /\ 1 .. MaxRows \in SUBSET Nat
      /\ logged + 1 \in 1 .. MaxRows
  BY BoundAssumption DEF IInv, TypeOK, Log
<1>3. Rows(queue_') \subseteq Rows(queue_) \cup {logged + 1}
  <2>1. CASE Overflow
    <3>1. queue_ # <<>>
      BY <2>1, BoundAssumption, EmptyRows DEF Overflow
    <3>2. Tail(queue_) \in Seq(1 .. MaxRows) /\ Rows(Tail(queue_)) \subseteq Rows(queue_)
      BY <1>2, <3>1, TailRows
    <3>3. Rows(Append(Tail(queue_), logged + 1)) = Rows(Tail(queue_)) \cup {logged + 1}
      BY <1>2, <3>2, AppendRows
    <3> QED
      BY <1>1, <2>1, <3>2, <3>3
  <2>2. CASE ~Overflow
    <3>1. Rows(Append(queue_, logged + 1)) = Rows(queue_) \cup {logged + 1}
      BY <1>2, AppendRows
    <3> QED
      BY <1>1, <2>2, <3>1
  <2> QED
    BY <2>1, <2>2
<1>4. Pending' \in SUBSET (Pending \cup {logged + 1})
  BY <1>1, <1>3 DEF Pending
<1> QED
  BY <1>1, <1>4 DEF Promise!Log

\* stop() closes the log in two ways: at once when no worker was started, or
\* after the worker has left.
LEMMA CloseMaps ==
  ASSUME IInv, Stop \/ JoinAndClose
  PROVE  Promise!Close \/ UNCHANGED Promise!vars
<1>1. Pending' = Pending /\ UNCHANGED <<logged, stored>>
  BY DEF Stop, JoinAndClose, Pending, producerVars, batchVars, dbVars
<1>2. CASE Stop /\ running_
  <2>1. (stopper' = "closed") = (stopper = "closed")
    BY <1>2 DEF Stop
  <2> QED
    BY <1>1, <2>1 DEF Promise!vars
<1>3. CASE Stop /\ ~running_
  <2>1. worker = "absent" /\ (stopper' = "closed") = TRUE
    BY <1>3 DEF Stop, IInv, ThreadInv
  <2> QED
    BY <1>1, <2>1 DEF Pending, Promise!Close
<1>4. CASE JoinAndClose
  <2>1. worker = "exited" /\ (stopper' = "closed") = TRUE
    BY <1>4 DEF JoinAndClose
  <2>2. queue_ = <<>> /\ batch = <<>> /\ uncommitted = {}
    BY <2>1 DEF IInv, ThreadInv, StageInv
  <2>3. Pending = {}
    BY <2>2, EmptyRows DEF Pending
  <2> QED
    BY <1>1, <2>1, <2>3 DEF Promise!Close
<1> QED
  BY <1>2, <1>3, <1>4

LEMMA InsertMaps ==
  ASSUME IInv, Insert
  PROVE  Promise!Store \/ UNCHANGED Promise!vars
<1>1. /\ worker = "insert" /\ batch # <<>> /\ batch' = Tail(batch)
      /\ UNCHANGED <<logged, stopper, queue_, worker>>
  BY DEF Insert, producerVars, threadVars
<1>2. /\ Rows(batch) = {Head(batch)} \cup Rows(Tail(batch))
      /\ Head(batch) \notin Rows(Tail(batch))
      /\ \A s \in stored : s < Head(batch)
  <2>1. /\ Rows(batch) = {Head(batch)} \cup Rows(Tail(batch))
        /\ Head(batch) \in 1 .. MaxRows
        /\ \A r \in Rows(Tail(batch)) : Head(batch) < r
        /\ \A s \in stored \cup uncommitted : s < Head(batch)
    BY <1>1, HeadOfBatch
  <2> QED
    BY <2>1
<1>3. CASE txn_open
  <2>1. uncommitted' = uncommitted \cup {Head(batch)} /\ stored' = stored
    BY <1>3 DEF Insert
  <2>2. Pending' = Pending
    BY <1>1, <1>2, <2>1 DEF Pending
  <2> QED
    BY <1>1, <2>1, <2>2, StutterMaps
<1>4. CASE ~txn_open
  <2>1. /\ stored' = stored \cup {Head(batch)} /\ uncommitted' = uncommitted
        /\ uncommitted = {}
    BY <1>4 DEF Insert, IInv, StageInv
  <2>2. Head(batch) \notin Rows(queue_)
    <3>1. Head(batch) \in 1 .. MaxRows /\ \A r \in Rows(queue_) : Head(batch) < r
      BY <1>1, <1>2, HeadOfBatch DEF IInv, OrderInv
    <3> QED
      BY <3>1
  <2>3. Pending' = Pending \ {Head(batch)} /\ Head(batch) \in Pending
    BY <1>1, <1>2, <2>1, <2>2 DEF Pending
  <2> QED
    BY <1>1, <1>2, <2>1, <2>3 DEF Promise!Store
<1> QED
  BY <1>3, <1>4

LEMMA LossMaps ==
  ASSUME IInv, InsertFails \/ Rollback
  PROVE  Promise!Lose
<1>1. /\ worker = "insert" /\ worker' # "absent"
      /\ UNCHANGED <<logged, stored, stopper, queue_>>
  BY DEF InsertFails, Rollback, EndBatch, producerVars, threadVars
<1>2. uncommitted' \subseteq uncommitted
  BY DEF InsertFails, Rollback, EndBatch
<1>3. Rows(batch') \subseteq Rows(batch)
  <2>1. CASE InsertFails
    BY <2>1, HeadOfBatch DEF InsertFails
  <2>2. CASE Rollback
    BY <2>2 DEF Rollback, EndBatch
  <2> QED
    BY <2>1, <2>2
<1>4. Pending' \in SUBSET Pending
  BY <1>1, <1>2, <1>3 DEF Pending
<1> QED
  BY <1>1, <1>4 DEF Promise!Lose

LEMMA CommitMaps ==
  ASSUME IInv, Commit
  PROVE  Promise!Store
<1>1. /\ worker = "insert" /\ worker' = "finish" /\ batch = <<>> /\ batch' = <<>>
      /\ uncommitted' = {} /\ stored' = stored \cup uncommitted
      /\ UNCHANGED <<logged, stopper, queue_>>
  BY DEF Commit, EndBatch, producerVars, threadVars
<1>2. /\ \A r \in uncommitted, s \in stored : s < r
      /\ \A r \in uncommitted : r \notin Rows(queue_)
  <2>1. uncommitted \subseteq 1 .. MaxRows
    BY DEF IInv, TypeOK
  <2> QED
    BY <2>1 DEF IInv, OrderInv
<1>3. uncommitted \in SUBSET Pending /\ Pending' = Pending \ uncommitted
  BY <1>1, <1>2, EmptyRows DEF Pending
<1> QED
  BY <1>1, <1>2, <1>3 DEF Promise!Store

LEMMA StepMaps == IInv /\ [Next]_vars => [Promise!Next]_(Promise!vars)
<1> SUFFICES ASSUME IInv, [Next]_vars
             PROVE  [Promise!Next]_(Promise!vars)
  OBVIOUS
<1>1. CASE Log
  BY <1>1, LogMaps DEF Promise!Next
<1>2. CASE Stop \/ JoinAndClose
  BY <1>2, CloseMaps DEF Promise!Next
<1>3. CASE Insert
  BY <1>3, InsertMaps DEF Promise!Next
<1>4. CASE InsertFails \/ Rollback
  BY <1>4, LossMaps DEF Promise!Next
<1>5. CASE Commit
  BY <1>5, CommitMaps DEF Promise!Next
<1>6. CASE TakeBatch
  <2>1. batch = <<>> /\ batch' = queue_ /\ queue_' = <<>>
        /\ worker = "check" /\ worker' = "begin"
        /\ UNCHANGED <<logged, stored, stopper, uncommitted>>
    BY <1>6 DEF TakeBatch, IInv, StageInv, producerVars, threadVars, dbVars
  <2>2. Pending' = Pending
    BY <2>1, EmptyRows DEF Pending
  <2> QED
    BY <2>1, <2>2, StutterMaps
<1>7. CASE NotifyStop
  <2>1. /\ (stopper' = "closed") = (stopper = "closed")
        /\ UNCHANGED <<logged, stored, queue_, batch, uncommitted>>
        /\ worker = "absent" <=> worker' = "absent"
    BY <1>7 DEF NotifyStop, Notified, producerVars, batchVars, dbVars
  <2>2. Pending' = Pending
    BY <2>1 DEF Pending
  <2> QED
    BY <2>1, <2>2 DEF Promise!vars
<1>8. CASE NotifyRow \/ Park \/ Sleep \/ SpuriousWakeup \/ Exit \/ Begin \/ Finish
  <2>1. /\ UNCHANGED <<logged, stored, stopper, queue_, batch, uncommitted>>
        /\ worker = "absent" <=> worker' = "absent"
    BY <1>8 DEF NotifyRow, Notified, Park, Sleep, SpuriousWakeup, Exit, Begin, Finish,
                producerVars, threadVars, batchVars, dbVars
  <2>2. Pending' = Pending
    BY <2>1 DEF Pending
  <2> QED
    BY <2>1, <2>2, StutterMaps
<1>9. CASE UNCHANGED vars
  <2>1. UNCHANGED <<logged, stored, stopper, queue_, batch, uncommitted, worker>>
    BY <1>9 DEF vars, producerVars, threadVars, batchVars, dbVars
  <2>2. Pending' = Pending
    BY <2>1 DEF Pending
  <2> QED
    BY <2>1, <2>2, StutterMaps
<1> QED
  BY <1>1, <1>2, <1>3, <1>4, <1>5, <1>6, <1>7, <1>8, <1>9
  DEF Next, Producer, Stopper, Worker

\* The logger implements the lossy log: rows are stored in the order they were
\* logged, each once, and stop() closes it only with nothing pending.
THEOREM Implements == Spec => ImplementsLossyLog
  BY InitMaps, StepMaps, InductiveInvariant, PTL
  DEF Spec, ImplementsLossyLog, Promise!Spec

\* The invariants of the module together, as its run checks them.
THEOREM SafetyHolds == Spec => []Safety
<1> QED BY TypeCorrect, RowsAreAccounted, WrittenIsStored, DrainedIsSettled, PTL DEF Safety

-----------------------------------------------------------------------------
(* The assignment channel                                                  *)

Message ==
  [topic : Terminals, terminal : Terminals, stream : Streams, run : Nat, revision : Nat]

Rising(seq) == \A i, j \in 1 .. Len(seq) : i < j => seq[i].revision <= seq[j].revision
NoneAbove(seq, revision) == \A i \in 1 .. Len(seq) : seq[i].revision <= revision

ChannelTypes ==
  /\ wanted \in [Terminals -> Streams]
  /\ server_run_id_ \in Nat /\ revision_ \in 0 .. MaxRevision
  /\ assignments \in Seq(Message) /\ out \in Seq(Message) /\ Len(out) <= MaxOut
  /\ sent \in -1 .. Len(out)
  /\ assigner # Assignment!None => assigner \in Message
  /\ online \in [Terminals -> BOOLEAN]
  /\ DOMAIN retained = Terminals /\ DOMAIN accepted = Terminals

\* Revisions rise from the library to the queue, in which every topic is once.
MessageOrder ==
  /\ Rising(out) /\ Rising(assignments)
  /\ NoneAbove(out, revision_) /\ NoneAbove(assignments, revision_)
  /\ assigner # Assignment!None =>
       /\ NoneAbove(out, assigner.revision) /\ assigner.revision <= revision_
       /\ \A i \in 1 .. Len(assignments) : assigner.revision <= assignments[i].revision
  /\ \A i \in 1 .. Len(assignments) : NoneAbove(out, assignments[i].revision)
  /\ \A i, j \in 1 .. Len(assignments) :
       assignments[i].topic = assignments[j].topic => i = j

\* The last of a topic's messages among the first n, 0 if there is none.
IsLast(k, t, n) ==
  /\ k > 0 => out[k].topic = t
  /\ \A i \in 1 .. n : i > k => out[i].topic # t

\* Of a topic the library accepted last what it keeps last, or what the broker
\* retains; and the broker retains what this connection has carried last.
KeptInv ==
  \A t \in Terminals : \E k \in 0 .. Len(out) :
    IsLast(k, t, Len(out)) /\ accepted[t] = (IF k = 0 THEN retained[t] ELSE out[k])
CarriedInv ==
  sent >= 0 => \A t \in Terminals : \E k \in 0 .. sent :
    IsLast(k, t, sent) /\ (k > 0 => retained[t] = out[k])

ChannelInv == ChannelTypes /\ MessageOrder /\ KeptInv /\ CarriedInv

LEMMA ChannelConstants ==
  /\ IsFiniteSet(Terminals) /\ MaxRevision \in Nat /\ MaxOut \in Nat /\ MaxOut >= 1
  /\ \A S : Assignment!Cardinality(S) = Cardinality(S)
<1>1. /\ MaxRevision \in Nat /\ MaxOut \in Nat /\ MaxOut >= 1
  BY AssignmentAssumption DEF Assignment!ConstantAssumption
<1>2. Assignment!IsFiniteSet(Terminals)
  BY AssignmentAssumption, Zenon DEF Assignment!ConstantAssumption
<1>3. IsFiniteSet(Terminals)
  BY <1>2, Zenon DEF Assignment!IsFiniteSet, IsFiniteSet
<1>4. \A S : Assignment!Cardinality(S) = Cardinality(S)
  BY Zenon DEF Assignment!Cardinality, Cardinality
<1> QED
  BY <1>1, <1>3, <1>4

\* A queue in which a topic's message is dropped keeps the others in their order.
LEMMA Without ==
  ASSUME NEW q \in Seq(Message), NEW t,
         \A i, j \in 1 .. Len(q) : q[i].topic = q[j].topic => i = j,
         NEW r, r = Assignment!WithoutTopic(q, t)
  PROVE  /\ r \in Seq(Message)
         /\ \A n \in 1 .. Len(r) : r[n].topic # t
         /\ \A n \in 1 .. Len(r) : \E i \in 1 .. Len(q) : r[n] = q[i]
         /\ \A m, n \in 1 .. Len(r) : m < n =>
              \E i, j \in 1 .. Len(q) : i < j /\ r[m] = q[i] /\ r[n] = q[j]
<1> DEFINE waiting == {i \in 1 .. Len(q) : q[i].topic = t}
           here == CHOOSE i \in waiting : TRUE
<1>1. Len(q) \in Nat
  OBVIOUS
<1>2. CASE waiting = {}
  <2>1. r = q
    BY <1>2 DEF Assignment!WithoutTopic, Assignment!topicFor
  <2> QED
    BY <1>1, <1>2, <2>1
<1>3. CASE waiting # {}
  <2>1. here \in waiting
    BY <1>3
  <2>2. r = [n \in 1 .. Len(q) - 1 |-> q[IF n < here THEN n ELSE n + 1]]
    BY <1>3 DEF Assignment!WithoutTopic, Assignment!topicFor
  <2>3. here \in 1 .. Len(q) /\ q[here].topic = t
    BY <2>1
  <2> HIDE DEF here, waiting
  <2>4. Len(q) - 1 \in Nat
    BY <1>1, <2>3
  <2>5. \A n \in 1 .. Len(q) - 1 :
          /\ (IF n < here THEN n ELSE n + 1) \in 1 .. Len(q)
          /\ (IF n < here THEN n ELSE n + 1) # here
    BY <1>1, <2>3
  <2>6. r \in Seq(Message) /\ Len(r) = Len(q) - 1
    BY <2>2, <2>4, <2>5
  <2>7. \A n \in 1 .. Len(r) : r[n] = q[IF n < here THEN n ELSE n + 1]
    BY <2>2, <2>6
  <2>8. \A n \in 1 .. Len(r) : r[n].topic # t
    BY <2>3, <2>5, <2>6, <2>7
  <2>9. \A m, n \in 1 .. Len(r) : m < n =>
          (IF m < here THEN m ELSE m + 1) < (IF n < here THEN n ELSE n + 1)
    BY <1>1, <2>3, <2>6
  <2>10. \A n \in 1 .. Len(r) : \E i \in 1 .. Len(q) : r[n] = q[i]
    BY <2>5, <2>6, <2>7
  <2>11. ASSUME NEW m \in 1 .. Len(r), NEW n \in 1 .. Len(r), m < n
         PROVE  \E i, j \in 1 .. Len(q) : i < j /\ r[m] = q[i] /\ r[n] = q[j]
    <3> DEFINE a == IF m < here THEN m ELSE m + 1
               b == IF n < here THEN n ELSE n + 1
    <3>1. /\ a \in 1 .. Len(q) /\ b \in 1 .. Len(q) /\ a < b
          /\ r[m] = q[a] /\ r[n] = q[b]
      BY <2>5, <2>6, <2>7, <2>9, <2>11
    <3> HIDE DEF a, b
    <3> QED
      BY <3>1
  <2> QED
    BY <2>6, <2>8, <2>10, <2>11
<1> QED
  BY <1>2, <1>3

LEMMA ChannelInit == Assignment!Init => ChannelInv
<1> SUFFICES ASSUME Assignment!Init PROVE ChannelInv
  OBVIOUS
<1>1. /\ wanted \in [Terminals -> Streams] /\ server_run_id_ = 1 /\ revision_ = 0
      /\ assignments = <<>> /\ assigner = Assignment!None /\ out = <<>> /\ sent = -1
      /\ retained = [t \in Terminals |-> Assignment!None]
      /\ accepted = [t \in Terminals |-> Assignment!None]
  BY DEF Assignment!Init
<1>2. online \in [Terminals -> BOOLEAN]
  BY Zenon DEF Assignment!Init
<1>3. ChannelTypes
  BY <1>1, <1>2, ChannelConstants DEF ChannelTypes
<1>4. MessageOrder
  BY <1>1 DEF MessageOrder, Rising, NoneAbove
<1>5. KeptInv /\ CarriedInv
  BY <1>1 DEF KeptInv, CarriedInv, IsLast
<1> QED
  BY <1>3, <1>4, <1>5 DEF ChannelInv

\* The newest assignment of a terminal goes last, in place of an older one.
LEMMA QueueInv ==
  ASSUME ChannelInv, NEW t \in Terminals, NEW s \in Streams, Assignment!publish(t, s),
         wanted' \in [Terminals -> Streams],
         UNCHANGED <<assigner, out, sent, accepted, retained, online>>
  PROVE  ChannelInv'
<1> DEFINE r == Assignment!WithoutTopic(assignments, t)
           next == IF revision_ < MaxRevision THEN revision_ + 1 ELSE revision_
           m == [topic |-> t, terminal |-> t, stream |-> s, run |-> server_run_id_, revision |-> next]
<1>1. /\ revision_' = next /\ assignments' = Append(r, m) /\ server_run_id_' = server_run_id_
  BY DEF Assignment!publish, Assignment!topicFor
<1>2. /\ r \in Seq(Message)
      /\ \A n \in 1 .. Len(r) : r[n].topic # t
      /\ \A n \in 1 .. Len(r) : \E i \in 1 .. Len(assignments) : r[n] = assignments[i]
      /\ \A a, b \in 1 .. Len(r) : a < b =>
           \E i, j \in 1 .. Len(assignments) :
             i < j /\ r[a] = assignments[i] /\ r[b] = assignments[j]
  BY Without DEF ChannelInv, ChannelTypes, MessageOrder
<1>3. next \in 0 .. MaxRevision /\ next >= revision_ /\ revision_ \in Nat /\ next \in Nat
  BY ChannelConstants DEF ChannelInv, ChannelTypes
<1>4. m \in Message /\ m.revision = next /\ m.topic = t
  BY <1>3 DEF Message, ChannelInv, ChannelTypes
<1> HIDE DEF r, next, m
<1> DEFINE q == Append(r, m)
<1>5. /\ q \in Seq(Message) /\ Len(q) = Len(r) + 1 /\ q[Len(r) + 1] = m
      /\ Len(r) \in Nat /\ \A i \in 1 .. Len(r) : q[i] = r[i]
  BY <1>2, <1>4
<1> HIDE DEF q
<1>6. assignments' = q
  BY <1>1 DEF q
<1>7. ChannelTypes'
  BY <1>1, <1>3, <1>5, <1>6 DEF ChannelInv, ChannelTypes
<1>8. \A i \in 1 .. Len(out) : out[i].revision \in Nat /\ out[i].revision <= revision_
  <2> TAKE i \in 1 .. Len(out)
  <2>1. out[i] \in Message
    BY DEF ChannelInv, ChannelTypes
  <2> QED
    BY <2>1 DEF ChannelInv, MessageOrder, NoneAbove, Message
<1>9. \A i \in 1 .. Len(r) :
        /\ r[i].revision \in Nat /\ r[i].revision <= revision_
        /\ NoneAbove(out, r[i].revision)
        /\ assigner # Assignment!None => assigner.revision <= r[i].revision
  <2> TAKE n \in 1 .. Len(r)
  <2>1. PICK i \in 1 .. Len(assignments) : r[n] = assignments[i]
    BY <1>2
  <2>2. assignments[i] \in Message
    BY DEF ChannelInv, ChannelTypes
  <2>3. assignments[i].revision \in Nat
    BY <2>2 DEF Message
  <2> QED
    BY <2>1, <2>3 DEF ChannelInv, MessageOrder, NoneAbove
<1>10. \A i \in 1 .. Len(q) :
         /\ q[i].revision \in Nat /\ q[i].revision <= next
         /\ NoneAbove(out, q[i].revision)
         /\ assigner # Assignment!None => assigner.revision <= q[i].revision
  <2> TAKE i \in 1 .. Len(q)
  <2>1. CASE i \in 1 .. Len(r)
    BY <1>3, <1>5, <1>9, <2>1
  <2>2. CASE i = Len(r) + 1
    <3>1. q[i].revision = next
      BY <1>4, <1>5, <2>2
    <3>2. NoneAbove(out, next)
      BY <1>3, <1>8 DEF NoneAbove
    <3>3. assigner # Assignment!None => assigner.revision <= next
      BY <1>3 DEF ChannelInv, MessageOrder, ChannelTypes, Message
    <3> QED
      BY <1>3, <3>1, <3>2, <3>3
  <2> QED
    BY <1>5, <2>1, <2>2
<1>11. Rising(q)
  <2> SUFFICES ASSUME NEW i \in 1 .. Len(q), NEW j \in 1 .. Len(q), i < j
               PROVE  q[i].revision <= q[j].revision
    BY DEF Rising
  <2>1. CASE j \in 1 .. Len(r)
    <3>1. i \in 1 .. Len(r)
      BY <1>5, <2>1
    <3> QED
      <4>1. PICK k, l \in 1 .. Len(assignments) :
              k < l /\ r[i] = assignments[k] /\ r[j] = assignments[l]
        BY <1>2, <2>1, <3>1
      <4>2. assignments[k].revision <= assignments[l].revision
        BY <4>1 DEF ChannelInv, MessageOrder, Rising
      <4> QED
        BY <1>5, <2>1, <3>1, <4>1, <4>2
  <2>2. CASE j = Len(r) + 1
    BY <1>4, <1>5, <1>10, <2>2
  <2> QED
    BY <1>5, <2>1, <2>2
<1>12. \A i, j \in 1 .. Len(q) : q[i].topic = q[j].topic => i = j
  <2> SUFFICES ASSUME NEW i \in 1 .. Len(q), NEW j \in 1 .. Len(q), i < j
               PROVE  q[i].topic # q[j].topic
    BY <1>5
  <2>1. CASE j \in 1 .. Len(r)
    <3>1. i \in 1 .. Len(r)
      BY <1>5, <2>1
    <3>2. PICK k, l \in 1 .. Len(assignments) :
            k < l /\ r[i] = assignments[k] /\ r[j] = assignments[l]
      BY <1>2, <2>1, <3>1
    <3> QED
      BY <1>5, <2>1, <3>1, <3>2 DEF ChannelInv, MessageOrder
  <2>2. CASE j = Len(r) + 1
    <3>1. i \in 1 .. Len(r)
      BY <1>5, <2>2
    <3> QED
      BY <1>2, <1>4, <1>5, <2>2, <3>1
  <2> QED
    BY <1>5, <2>1, <2>2
<1>13. /\ Rising(out) /\ NoneAbove(out, next)
       /\ assigner # Assignment!None =>
            NoneAbove(out, assigner.revision) /\ assigner.revision <= next
  BY <1>3, <1>8 DEF ChannelInv, ChannelTypes, MessageOrder, NoneAbove, Message
<1>14. MessageOrder'
  BY <1>1, <1>6, <1>10, <1>11, <1>12, <1>13 DEF MessageOrder, NoneAbove, Rising
<1>15. KeptInv' /\ CarriedInv'
  BY DEF ChannelInv, KeptInv, CarriedInv, IsLast
<1> QED
  BY <1>7, <1>14, <1>15 DEF ChannelInv

\* The worker takes the oldest message that waits.
LEMMA TakeInv == ChannelInv /\ Assignment!TakeMessage => ChannelInv'
<1> SUFFICES ASSUME ChannelInv, Assignment!TakeMessage PROVE ChannelInv'
  OBVIOUS
<1> DEFINE q == assignments
<1>1. /\ assigner = Assignment!None /\ q # <<>>
      /\ assigner' = Head(q) /\ assignments' = Tail(q)
      /\ UNCHANGED <<wanted, server_run_id_, revision_, out, sent, accepted, retained, online>>
  BY DEF Assignment!TakeMessage, Assignment!libraryVars, Assignment!terminalVars
<1>2. q \in Seq(Message) /\ Len(q) \in Nat /\ Len(q) >= 1
  BY <1>1 DEF ChannelInv, ChannelTypes
<1> DEFINE r == Tail(q)
           m == Head(q)
<1>3. /\ m = q[1] /\ m \in Message /\ r \in Seq(Message) /\ Len(r) = Len(q) - 1
      /\ \A i \in 1 .. Len(r) : r[i] = q[i + 1] /\ i + 1 \in 1 .. Len(q)
  BY <1>2
<1>4. /\ \A i, j \in 1 .. Len(q) : i < j => q[i].revision <= q[j].revision
      /\ \A i \in 1 .. Len(q) : q[i].revision <= revision_ /\ NoneAbove(out, q[i].revision)
      /\ \A i, j \in 1 .. Len(q) : q[i].topic = q[j].topic => i = j
      /\ Rising(out) /\ NoneAbove(out, revision_)
  BY DEF ChannelInv, MessageOrder, Rising, NoneAbove
<1>5. assignments' = r /\ assigner' = m
  BY <1>1
<1> HIDE DEF q, r, m
<1>6. ChannelTypes'
  BY <1>1, <1>3, <1>5 DEF ChannelInv, ChannelTypes
<1>7. Rising(r) /\ NoneAbove(r, revision_)
  <2>1. ASSUME NEW i \in 1 .. Len(r), NEW j \in 1 .. Len(r), i < j
        PROVE  r[i].revision <= r[j].revision
    <3>1. /\ r[i] = q[i + 1] /\ r[j] = q[j + 1]
          /\ i + 1 \in 1 .. Len(q) /\ j + 1 \in 1 .. Len(q)
      BY <1>3
    <3>2. i + 1 < j + 1
      BY <1>2, <1>3, <2>1
    <3> QED
      BY <1>4, <3>1, <3>2
  <2>2. \A i \in 1 .. Len(r) : r[i].revision <= revision_
    BY <1>3, <1>4
  <2> QED
    BY <2>1, <2>2 DEF Rising, NoneAbove
<1>8. \A i \in 1 .. Len(r) : NoneAbove(out, r[i].revision) /\ m.revision <= r[i].revision
  BY <1>2, <1>3, <1>4
<1>9. \A i, j \in 1 .. Len(r) : r[i].topic = r[j].topic => i = j
  BY <1>2, <1>3, <1>4
<1>10. NoneAbove(out, m.revision) /\ m.revision <= revision_
  BY <1>2, <1>3, <1>4
<1>11. MessageOrder'
  BY <1>1, <1>4, <1>5, <1>7, <1>8, <1>9, <1>10 DEF MessageOrder, Rising, NoneAbove
<1>12. KeptInv' /\ CarriedInv'
  BY <1>1 DEF ChannelInv, KeptInv, CarriedInv, IsLast
<1> QED
  BY <1>6, <1>11, <1>12 DEF ChannelInv

\* The library takes the message, or refuses it, and it is forgotten.
LEMMA PublishMessageInv == ChannelInv /\ Assignment!PublishMessage => ChannelInv'
<1> SUFFICES ASSUME ChannelInv, Assignment!PublishMessage PROVE ChannelInv'
  OBVIOUS
<1>1. /\ assigner # Assignment!None /\ Len(out) < MaxOut /\ assigner' = Assignment!None
      /\ UNCHANGED <<wanted, server_run_id_, revision_, assignments, retained, online, sent>>
      /\ \/ out' = Append(out, assigner) /\ accepted' = [accepted EXCEPT ![assigner.topic] = assigner]
         \/ UNCHANGED <<out, accepted>>
  BY DEF Assignment!PublishMessage, Assignment!Accept, Assignment!AfterFailure,
     Assignment!libraryVars, Assignment!terminalVars
<1>2. /\ assigner \in Message /\ out \in Seq(Message) /\ Len(out) \in Nat
      /\ sent \in -1 .. Len(out)
  BY <1>1 DEF ChannelInv, ChannelTypes
<1>3. CASE UNCHANGED <<out, accepted>>
  BY <1>1, <1>3 DEF ChannelInv, ChannelTypes, MessageOrder, Rising, NoneAbove, KeptInv,
     CarriedInv, IsLast
<1>4. CASE out' = Append(out, assigner) /\ accepted' = [accepted EXCEPT ![assigner.topic] = assigner]
  <2> DEFINE o == Append(out, assigner)
             n == Len(out)
             u == assigner.topic
  <2>1. /\ o \in Seq(Message) /\ Len(o) = n + 1 /\ o[n + 1] = assigner
        /\ \A i \in 1 .. n : o[i] = out[i]
    BY <1>2
  <2>2. out' = o /\ u \in Terminals /\ n \in Nat
    BY <1>2, <1>4 DEF Message
  <2>3. accepted' = [accepted EXCEPT ![u] = assigner]
    BY <1>4
  <2> HIDE DEF o, n, u
  <2>4. /\ Rising(out) /\ NoneAbove(out, revision_)
        /\ NoneAbove(out, assigner.revision) /\ assigner.revision <= revision_
        /\ \A i \in 1 .. Len(assignments) : assigner.revision <= assignments[i].revision
        /\ \A i \in 1 .. Len(assignments) : NoneAbove(out, assignments[i].revision)
    BY <1>1 DEF ChannelInv, MessageOrder
  <2>5. \A revision : NoneAbove(out, revision) /\ assigner.revision <= revision
                        => NoneAbove(o, revision)
    BY <2>1, <2>2 DEF NoneAbove, n
  <2>6. Rising(o)
    <3> SUFFICES ASSUME NEW i \in 1 .. Len(o), NEW j \in 1 .. Len(o), i < j
                 PROVE  o[i].revision <= o[j].revision
      BY DEF Rising
    <3>1. CASE j = n + 1
      <4>1. i \in 1 .. n
        BY <2>1, <2>2, <3>1
      <4> QED
        BY <2>1, <2>4, <3>1, <4>1 DEF NoneAbove, n
    <3>2. CASE j \in 1 .. n
      <4>1. i \in 1 .. n
        BY <2>1, <2>2, <3>2
      <4> QED
        BY <2>1, <2>4, <3>2, <4>1 DEF Rising, n
    <3> QED
      BY <2>1, <2>2, <3>1, <3>2
  <2>7. NoneAbove(o, revision_)
        /\ \A i \in 1 .. Len(assignments) : NoneAbove(o, assignments[i].revision)
    BY <2>4, <2>5
  <2>8. MessageOrder'
    BY <1>1, <2>2, <2>6, <2>7 DEF ChannelInv, MessageOrder, Rising, NoneAbove
  <2>9. ChannelTypes'
    <3>1. Len(o) <= MaxOut /\ sent \in -1 .. Len(o)
      BY <1>1, <1>2, <2>1, <2>2, ChannelConstants DEF n
    <3> QED
      BY <1>1, <2>1, <2>2, <2>3, <3>1 DEF ChannelInv, ChannelTypes
  <2>10. \A t \in Terminals : \E k \in 0 .. Len(o) :
           /\ k > 0 => o[k].topic = t
           /\ \A i \in 1 .. Len(o) : i > k => o[i].topic # t
           /\ accepted'[t] = (IF k = 0 THEN retained[t] ELSE o[k])
    <3> TAKE t \in Terminals
    <3>1. CASE t = u
      <4>1. n + 1 \in 0 .. Len(o) /\ o[n + 1].topic = t /\ accepted'[t] = o[n + 1]
        BY <2>1, <2>2, <2>3, <3>1 DEF u, ChannelInv, ChannelTypes
      <4> QED
        BY <2>1, <2>2, <4>1
    <3>2. CASE t # u
      <4>1. PICK k \in 0 .. n :
              /\ k > 0 => out[k].topic = t
              /\ \A i \in 1 .. n : i > k => out[i].topic # t
              /\ accepted[t] = (IF k = 0 THEN retained[t] ELSE out[k])
        BY DEF ChannelInv, KeptInv, IsLast, n
      <4>2. accepted'[t] = accepted[t]
        BY <2>3, <3>2 DEF ChannelInv, ChannelTypes
      <4>3. o[n + 1].topic # t
        BY <2>1, <3>2 DEF u
      <4> QED
        BY <2>1, <2>2, <4>1, <4>2, <4>3
    <3> QED
      BY <3>1, <3>2
  <2>11. KeptInv'
    BY <1>1, <2>2, <2>10 DEF KeptInv, IsLast
  <2>12. CarriedInv'
    <3> SUFFICES ASSUME sent >= 0, NEW t \in Terminals
                 PROVE  \E k \in 0 .. sent :
                          /\ k > 0 => o[k].topic = t
                          /\ \A i \in 1 .. sent : i > k => o[i].topic # t
                          /\ k > 0 => retained[t] = o[k]
      BY <1>1, <2>2 DEF CarriedInv, IsLast
    <3>1. PICK k \in 0 .. sent :
            /\ k > 0 => out[k].topic = t
            /\ \A i \in 1 .. sent : i > k => out[i].topic # t
            /\ k > 0 => retained[t] = out[k]
      BY DEF ChannelInv, CarriedInv, IsLast
    <3>2. \A i \in 1 .. sent : i \in 1 .. n
      BY <1>2, <2>2 DEF n
    <3> QED
      BY <1>2, <2>1, <3>1, <3>2
  <2> QED
    BY <2>8, <2>9, <2>11, <2>12 DEF ChannelInv
<1> QED
  BY <1>1, <1>3, <1>4

\* The connection carries the next message.
LEMMA DeliverInv == ChannelInv /\ Assignment!Deliver => ChannelInv'
<1> SUFFICES ASSUME ChannelInv, Assignment!Deliver PROVE ChannelInv'
  OBVIOUS
<1>1. /\ sent >= 0 /\ sent < Len(out) /\ sent' = sent + 1
      /\ retained' = [retained EXCEPT ![out[sent + 1].topic] = out[sent + 1]]
      /\ UNCHANGED <<wanted, server_run_id_, revision_, assignments, assigner, out,
                     accepted, online>>
  <2>1. Assignment!link = "up" => sent >= 0
    BY DEF Assignment!link
  <2> QED
    BY <2>1 DEF Assignment!Deliver, Assignment!publisherVars
<1>2. /\ out \in Seq(Message) /\ Len(out) \in Nat /\ sent \in Nat /\ sent + 1 \in 1 .. Len(out)
      /\ DOMAIN retained = Terminals
  BY <1>1 DEF ChannelInv, ChannelTypes
<1> DEFINE u == out[sent + 1].topic
           n == sent + 1
<1>3. u \in Terminals /\ n \in 1 .. Len(out) /\ out[n].topic = u
  <2>1. out[n] \in Message
    BY <1>2
  <2> QED
    BY <1>2, <2>1 DEF Message
<1>4. /\ \A t \in Terminals : t # u => retained'[t] = retained[t]
      /\ retained'[u] = out[n] /\ DOMAIN retained' = Terminals /\ sent' = n
  BY <1>1, <1>2, <1>3
<1> HIDE DEF u, n
<1>5. ChannelTypes' /\ MessageOrder'
  <2>1. sent' \in -1 .. Len(out)
    BY <1>2, <1>3, <1>4
  <2> QED
    BY <1>1, <1>4, <2>1 DEF ChannelInv, ChannelTypes, MessageOrder, Rising, NoneAbove
<1>6. KeptInv'
  <2> SUFFICES ASSUME NEW t \in Terminals
               PROVE  \E k \in 0 .. Len(out) :
                        /\ k > 0 => out[k].topic = t
                        /\ \A i \in 1 .. Len(out) : i > k => out[i].topic # t
                        /\ accepted[t] = (IF k = 0 THEN retained'[t] ELSE out[k])
    BY <1>1 DEF KeptInv, IsLast
  <2>1. PICK k \in 0 .. Len(out) :
          /\ k > 0 => out[k].topic = t
          /\ \A i \in 1 .. Len(out) : i > k => out[i].topic # t
          /\ accepted[t] = (IF k = 0 THEN retained[t] ELSE out[k])
    BY DEF ChannelInv, KeptInv, IsLast
  <2>2. k = 0 => t # u
    BY <1>3, <2>1
  <2> QED
    BY <1>4, <2>1, <2>2
<1>7. CarriedInv'
  <2> SUFFICES ASSUME NEW t \in Terminals
               PROVE  \E k \in 0 .. n :
                        /\ k > 0 => out[k].topic = t
                        /\ \A i \in 1 .. n : i > k => out[i].topic # t
                        /\ k > 0 => retained'[t] = out[k]
    BY <1>1, <1>4 DEF CarriedInv, IsLast
  <2>1. CASE t = u
    BY <1>2, <1>3, <1>4, <2>1
  <2>2. CASE t # u
    <3>1. PICK k \in 0 .. sent :
            /\ k > 0 => out[k].topic = t
            /\ \A i \in 1 .. sent : i > k => out[i].topic # t
            /\ k > 0 => retained[t] = out[k]
      BY <1>1 DEF ChannelInv, CarriedInv, IsLast
    <3>2. \A i \in 1 .. n : i \in 1 .. sent \/ i = n
      BY <1>2 DEF n
    <3>3. k \in 0 .. n
      BY <1>2 DEF n
    <3> QED
      BY <1>3, <1>4, <2>2, <3>1, <3>2, <3>3
  <2> QED
    BY <2>1, <2>2
<1> QED
  BY <1>5, <1>6, <1>7 DEF ChannelInv

\* The library forgets what is acknowledged: the broker has it, or a newer one.
LEMMA AcknowledgeInv == ChannelInv /\ Assignment!Acknowledge => ChannelInv'
<1> SUFFICES ASSUME ChannelInv, Assignment!Acknowledge PROVE ChannelInv'
  OBVIOUS
<1>1. /\ sent > 0 /\ out' = Tail(out) /\ sent' = sent - 1
      /\ UNCHANGED <<wanted, server_run_id_, revision_, assignments, assigner,
                     retained, accepted, online>>
  BY DEF Assignment!Acknowledge, Assignment!publisherVars, Assignment!terminalVars
<1> DEFINE o == Tail(out)
           n == Len(out)
<1>2. out \in Seq(Message) /\ n \in Nat /\ sent \in 1 .. n /\ n <= MaxOut /\ n >= 1
  BY <1>1 DEF ChannelInv, ChannelTypes
<1>3. /\ o \in Seq(Message) /\ Len(o) = n - 1
      /\ \A i \in 1 .. n - 1 : o[i] = out[i + 1] /\ i + 1 \in 1 .. n
  BY <1>2
<1>4. out' = o
  BY <1>1
<1> HIDE DEF o, n
<1> DEFINE z == sent - 1
<1>9. z \in Nat /\ sent' = z /\ z >= 0 /\ sent \in Int /\ sent >= 0 /\ z \in 0 .. n - 1
  BY <1>1, <1>2
<1>5. ChannelTypes'
  <2>1. sent - 1 \in -1 .. Len(o) /\ Len(o) <= MaxOut
    BY <1>2, <1>3, ChannelConstants
  <2> QED
    BY <1>1, <1>3, <1>4, <2>1 DEF ChannelInv, ChannelTypes
<1>6. MessageOrder'
  <2>1. \A revision : NoneAbove(out, revision) => NoneAbove(o, revision)
    BY <1>2, <1>3 DEF NoneAbove, n
  <2>2. Rising(out) => Rising(o)
    BY <1>2, <1>3 DEF Rising, n
  <2>3. /\ Rising(o) /\ NoneAbove(o, revision_)
        /\ assigner # Assignment!None => NoneAbove(o, assigner.revision)
        /\ \A i \in 1 .. Len(assignments) : NoneAbove(o, assignments[i].revision)
    BY <2>1, <2>2 DEF ChannelInv, MessageOrder
  <2> QED
    BY <1>1, <1>4, <2>3 DEF ChannelInv, MessageOrder, Rising, NoneAbove
<1>7. CarriedInv'
  <2> SUFFICES ASSUME NEW t \in Terminals
               PROVE  \E k \in 0 .. z :
                        /\ k > 0 => o[k].topic = t
                        /\ \A i \in 1 .. z : i > k => o[i].topic # t
                        /\ k > 0 => retained[t] = o[k]
    <3>1. sent' = z /\ out' = o /\ retained' = retained
      BY <1>1, <1>4, <1>9
    <3> HIDE DEF z
    <3> QED
      BY <3>1 DEF CarriedInv, IsLast
  <2>1. PICK k \in 0 .. sent :
          /\ k > 0 => out[k].topic = t
          /\ \A i \in 1 .. sent : i > k => out[i].topic # t
          /\ k > 0 => retained[t] = out[k]
    BY <1>9 DEF ChannelInv, CarriedInv, IsLast
  <2>2. \A i \in 1 .. sent - 1 : o[i] = out[i + 1] /\ i + 1 \in 1 .. sent
    BY <1>2, <1>3
  <2>3. CASE k <= 1
    <3>1. 0 \in 0 .. sent - 1 /\ \A i \in 1 .. sent - 1 : i + 1 > k
      BY <1>2, <2>3
    <3> QED
      BY <2>1, <2>2, <3>1
  <2>4. CASE k > 1
    <3> DEFINE l == k - 1
    <3>1. l \in 0 .. sent - 1 /\ l \in 1 .. sent - 1 /\ k = l + 1
      BY <1>2, <2>4
    <3>2. \A i \in 1 .. sent - 1 : i > l => i + 1 > k
      BY <1>2
    <3> HIDE DEF l
    <3> QED
      BY <2>1, <2>2, <3>1, <3>2
  <2> QED
    BY <1>2, <2>3, <2>4
<1>8. KeptInv'
  <2> SUFFICES ASSUME NEW t \in Terminals
               PROVE  \E k \in 0 .. n - 1 :
                        /\ k > 0 => o[k].topic = t
                        /\ \A i \in 1 .. n - 1 : i > k => o[i].topic # t
                        /\ accepted[t] = (IF k = 0 THEN retained[t] ELSE o[k])
    <3>1. out' = o /\ accepted' = accepted /\ retained' = retained
      BY <1>1, <1>4
    <3> QED
      BY <1>3, <3>1 DEF KeptInv, IsLast
  <2>1. PICK k \in 0 .. n :
          /\ k > 0 => out[k].topic = t
          /\ \A i \in 1 .. n : i > k => out[i].topic # t
          /\ accepted[t] = (IF k = 0 THEN retained[t] ELSE out[k])
    BY DEF ChannelInv, KeptInv, IsLast, n
  <2>2. CASE k <= 1
    <3>1. 0 \in 0 .. n - 1 /\ \A i \in 1 .. n - 1 : i + 1 > k
      BY <1>2, <2>2
    <3>2. accepted[t] = retained[t]
      <4>1. CASE k = 0
        BY <2>1, <4>1
      <4>2. CASE k = 1
        <5>1. PICK l \in 0 .. sent :
                /\ l > 0 => out[l].topic = t
                /\ \A i \in 1 .. sent : i > l => out[i].topic # t
                /\ l > 0 => retained[t] = out[l]
          BY <1>9 DEF ChannelInv, CarriedInv, IsLast
        <5>2. out[1].topic = t /\ 1 \in 1 .. sent
          BY <1>2, <2>1, <4>2
        <5>3. l = 1
          BY <1>2, <2>1, <4>2, <5>1, <5>2
        <5> QED
          BY <2>1, <4>2, <5>1, <5>3
      <4> QED
        BY <2>2, <4>1, <4>2
    <3> QED
      BY <1>3, <2>1, <3>1, <3>2
  <2>3. CASE k > 1
    <3> DEFINE l == k - 1
    <3>1. l \in 0 .. n - 1 /\ l \in 1 .. n - 1 /\ k = l + 1
      BY <1>2, <2>3
    <3>2. \A i \in 1 .. n - 1 : i > l => i + 1 > k
      BY <1>2
    <3> HIDE DEF l
    <3> QED
      BY <1>3, <2>1, <2>3, <3>1, <3>2
  <2> QED
    BY <1>2, <2>2, <2>3
<1> QED
  BY <1>5, <1>6, <1>7, <1>8 DEF ChannelInv

LEMMA LinkInv ==
  ASSUME ChannelInv,
         \/ Assignment!onDisconnect \/ Assignment!onConnect \/ Assignment!Crash
         \/ \E t \in Terminals : \/ Assignment!TerminalConnects(t) \/ Assignment!TerminalDrops(t)
                                 \/ Assignment!connectToServer(t)
         \/ UNCHANGED Assignment!vars
  PROVE  ChannelInv'
<1>1. CASE Assignment!onDisconnect
  <2>1. sent' = -1 /\ UNCHANGED <<wanted, server_run_id_, revision_, assignments, assigner, out,
                                  accepted, retained, online>>
    BY <1>1 DEF Assignment!onDisconnect, Assignment!terminalVars
  <2>2. sent' \in -1 .. Len(out) /\ ~(sent' >= 0)
    BY <2>1 DEF ChannelInv, ChannelTypes
  <2> QED
    BY <2>1, <2>2 DEF ChannelInv, ChannelTypes, MessageOrder, KeptInv, CarriedInv, Rising,
       NoneAbove, IsLast
<1>2. CASE Assignment!onConnect
  <2>1. sent' = 0 /\ UNCHANGED <<wanted, server_run_id_, revision_, assignments, assigner, out,
                                 accepted, retained, online>>
    BY <1>2 DEF Assignment!onConnect, Assignment!terminalVars
  <2>2. sent' \in -1 .. Len(out)
    BY <2>1 DEF ChannelInv, ChannelTypes
  <2>3. ChannelTypes' /\ MessageOrder' /\ KeptInv'
    BY <2>1, <2>2 DEF ChannelInv, ChannelTypes, MessageOrder, KeptInv, Rising, NoneAbove, IsLast
  <2>4. CarriedInv'
    BY <2>1 DEF CarriedInv, IsLast
  <2> QED
    BY <2>3, <2>4 DEF ChannelInv
<1>3. CASE Assignment!Crash
  <2>1. /\ server_run_id_' = server_run_id_ + 1 /\ revision_' = 0 /\ assignments' = <<>>
        /\ assigner' = Assignment!None /\ out' = <<>> /\ sent' = -1 /\ accepted' = retained
        /\ UNCHANGED <<wanted, retained, online>>
    BY <1>3 DEF Assignment!Crash, Assignment!terminalVars
  <2>2. <<>> \in Seq(Message) /\ Len(<<>>) = 0 /\ MaxOut >= 0
    BY ChannelConstants
  <2>3. ChannelTypes'
    BY <2>1, <2>2, ChannelConstants DEF ChannelInv, ChannelTypes
  <2>4. MessageOrder'
    BY <2>1, <2>2 DEF MessageOrder, Rising, NoneAbove
  <2>5. KeptInv' /\ CarriedInv'
    BY <2>1, <2>2 DEF KeptInv, CarriedInv, IsLast
  <2> QED
    BY <2>3, <2>4, <2>5 DEF ChannelInv
<1>4. CASE \/ \E t \in Terminals : \/ Assignment!TerminalConnects(t) \/ Assignment!TerminalDrops(t)
                                   \/ Assignment!connectToServer(t)
           \/ UNCHANGED Assignment!vars
  <2>1. UNCHANGED <<wanted, server_run_id_, revision_, assignments, assigner, out, sent,
                    accepted, retained>>
    BY <1>4 DEF Assignment!TerminalConnects, Assignment!TerminalDrops, Assignment!connectToServer,
       Assignment!vars, Assignment!publisherVars, Assignment!libraryVars
  <2>2. online' \in [Terminals -> BOOLEAN]
    <3>1. online \in [Terminals -> BOOLEAN]
      BY DEF ChannelInv, ChannelTypes
    <3>2. ASSUME NEW t \in Terminals, NEW b \in BOOLEAN, online' = [online EXCEPT ![t] = b]
          PROVE  online' \in [Terminals -> BOOLEAN]
      BY <3>1, <3>2, Zenon
    <3>3. \/ \E t \in Terminals, b \in BOOLEAN : online' = [online EXCEPT ![t] = b]
          \/ online' = online
      BY <1>4, Zenon DEF Assignment!TerminalConnects, Assignment!TerminalDrops,
         Assignment!connectToServer, Assignment!vars, Assignment!terminalVars
    <3> QED
      BY <3>1, <3>2, <3>3
  <2>3. ChannelTypes'
    BY <2>1, <2>2, Zenon DEF ChannelInv, ChannelTypes
  <2>4. MessageOrder' /\ KeptInv' /\ CarriedInv'
    BY <2>1 DEF ChannelInv, MessageOrder, KeptInv, CarriedInv, Rising, NoneAbove, IsLast
  <2> QED
    BY <2>3, <2>4 DEF ChannelInv
<1> QED
  BY <1>1, <1>2, <1>3, <1>4

LEMMA ChannelStep == ChannelInv /\ [Assignment!Next]_(Assignment!vars) => ChannelInv'
<1> SUFFICES ASSUME ChannelInv, [Assignment!Next]_(Assignment!vars) PROVE ChannelInv'
  OBVIOUS
<1>1. CASE Assignment!Handover
  <2>1. PICK t \in Terminals, s \in Streams :
          /\ wanted' = [wanted EXCEPT ![t] = s] /\ Assignment!publish(t, s)
          /\ UNCHANGED <<assigner, out, sent, accepted, retained, online>>
    BY <1>1 DEF Assignment!Handover, Assignment!libraryVars, Assignment!terminalVars
  <2>2. wanted' \in [Terminals -> Streams]
    BY <2>1 DEF ChannelInv, ChannelTypes
  <2> QED
    BY <2>1, <2>2, QueueInv
<1>2. ASSUME NEW t \in Terminals, Assignment!Frame(t) PROVE ChannelInv'
  <2>1. /\ Assignment!publish(t, wanted[t])
        /\ UNCHANGED <<wanted, assigner, out, sent, accepted, retained, online>>
    BY <1>2 DEF Assignment!Frame, Assignment!libraryVars, Assignment!terminalVars
  <2>2. wanted' \in [Terminals -> Streams] /\ wanted[t] \in Streams
    BY <2>1 DEF ChannelInv, ChannelTypes
  <2> QED
    BY <2>1, <2>2, QueueInv
<1> QED
  BY <1>1, <1>2, TakeInv, PublishMessageInv, DeliverInv, AcknowledgeInv, LinkInv
  DEF Assignment!Next, Assignment!PublisherStep, Assignment!BrokerStep

\* A queue that holds a topic once is no longer than there are topics.
LEMMA QueueIsShort ==
  ASSUME ChannelInv
  PROVE  Len(assignments) <= Cardinality(Terminals)
<1> DEFINE n == Len(assignments)
           f == [i \in 1 .. n |-> assignments[i].topic]
<1>1. n \in Nat /\ f \in [1 .. n -> Terminals]
  <2>1. assignments \in Seq(Message) /\ n \in Nat
    BY DEF ChannelInv, ChannelTypes
  <2>2. \A i \in 1 .. n : assignments[i].topic \in Terminals
    <3> TAKE i \in 1 .. n
    <3>1. assignments[i] \in Message
      BY <2>1
    <3> QED
      BY <3>1 DEF Message
  <2> HIDE DEF n
  <2> QED
    BY <2>1, <2>2
<1>2. \A i, j \in 1 .. n : f[i] = f[j] => i = j
  BY DEF ChannelInv, MessageOrder
<1> HIDE DEF n, f
<1>3. IsFiniteSet(1 .. n) /\ Cardinality(1 .. n) = n
  BY <1>1, FS_Interval
<1>4. Cardinality(Terminals) \in Nat
  BY ChannelConstants, FS_CardinalityType
<1>5. ~(Cardinality(Terminals) < Cardinality(1 .. n))
  BY <1>1, <1>2, <1>3, ChannelConstants, FS_PigeonHole
<1> QED
  BY <1>1, <1>3, <1>4, <1>5 DEF n

LEMMA Concatenated ==
  ASSUME NEW a \in Seq(Message), NEW b \in Seq(Message), Rising(a), Rising(b),
         \A i \in 1 .. Len(b) : NoneAbove(a, b[i].revision)
  PROVE  a \o b \in Seq(Message) /\ Rising(a \o b)
<1> DEFINE c == a \o b
<1>1. /\ c \in Seq(Message) /\ Len(c) = Len(a) + Len(b) /\ Len(a) \in Nat /\ Len(b) \in Nat
      /\ \A i \in 1 .. Len(c) : c[i] = (IF i <= Len(a) THEN a[i] ELSE b[i - Len(a)])
  OBVIOUS
<1> HIDE DEF c
<1>2. Rising(c)
  <2> SUFFICES ASSUME NEW i \in 1 .. Len(c), NEW j \in 1 .. Len(c), i < j
               PROVE  c[i].revision <= c[j].revision
    BY DEF Rising
  <2>1. CASE j <= Len(a)
    <3>1. i \in 1 .. Len(a) /\ j \in 1 .. Len(a) /\ c[i] = a[i] /\ c[j] = a[j]
      BY <1>1, <2>1
    <3> QED
      BY <3>1 DEF Rising
  <2>2. CASE i <= Len(a) /\ j > Len(a)
    <3>1. i \in 1 .. Len(a) /\ j - Len(a) \in 1 .. Len(b) /\ c[i] = a[i] /\ c[j] = b[j - Len(a)]
      BY <1>1, <2>2
    <3> QED
      BY <3>1 DEF NoneAbove
  <2>3. CASE i > Len(a)
    <3>1. /\ i - Len(a) \in 1 .. Len(b) /\ j - Len(a) \in 1 .. Len(b)
          /\ i - Len(a) < j - Len(a) /\ c[i] = b[i - Len(a)] /\ c[j] = b[j - Len(a)]
      BY <1>1, <2>3
    <3> QED
      BY <3>1 DEF Rising
  <2> QED
    BY <1>1, <2>1, <2>2, <2>3
<1> QED
  BY <1>1, <1>2 DEF c

LEMMA ChannelIsSafe == ChannelInv => Assignment!Safety
<1> SUFFICES ASSUME ChannelInv PROVE Assignment!Safety
  OBVIOUS
<1>1. Assignment!TypeOK
  BY QueueIsShort, ChannelConstants DEF Assignment!TypeOK, ChannelInv, ChannelTypes
<1>2. Assignment!InOrder
  <2> DEFINE w == IF assigner = Assignment!None THEN <<>> ELSE <<assigner>>
             p == Assignment!Pipeline
  <2>1. p = out \o w \o assignments
    BY DEF Assignment!Pipeline
  <2>2. /\ out \in Seq(Message) /\ assignments \in Seq(Message) /\ Rising(out)
        /\ Rising(assignments)
        /\ \A i \in 1 .. Len(assignments) : NoneAbove(out, assignments[i].revision)
    BY DEF ChannelInv, ChannelTypes, MessageOrder
  <2>3. /\ w \in Seq(Message) /\ Rising(w)
        /\ \A i \in 1 .. Len(w) : NoneAbove(out, w[i].revision)
        /\ \A i \in 1 .. Len(assignments) : NoneAbove(w, assignments[i].revision)
    <3>1. CASE assigner = Assignment!None
      BY <3>1 DEF Rising, NoneAbove
    <3>2. CASE assigner # Assignment!None
      <4>1. w = <<assigner>> /\ assigner \in Message
        BY <3>2 DEF ChannelInv, ChannelTypes
      <4>2. Len(w) = 1 /\ w[1] = assigner /\ w \in Seq(Message)
        BY <4>1
      <4> HIDE DEF w
      <4> QED
        BY <3>2, <4>2 DEF ChannelInv, MessageOrder, Rising, NoneAbove
    <3> QED
      BY <3>1, <3>2
  <2> HIDE DEF w
  <2>4. out \o w \in Seq(Message) /\ Rising(out \o w)
    BY <2>2, <2>3, Concatenated
  <2>5. \A i \in 1 .. Len(assignments) : NoneAbove(out \o w, assignments[i].revision)
    <3> TAKE i \in 1 .. Len(assignments)
    <3>1. NoneAbove(out, assignments[i].revision) /\ NoneAbove(w, assignments[i].revision)
      BY <2>2, <2>3
    <3>2. \A j \in 1 .. Len(out \o w) :
            \/ j \in 1 .. Len(out) /\ (out \o w)[j] = out[j]
            \/ j - Len(out) \in 1 .. Len(w) /\ (out \o w)[j] = w[j - Len(out)]
      BY <2>2, <2>3
    <3> QED
      BY <3>1, <3>2 DEF NoneAbove
  <2>6. p \in Seq(Message) /\ Rising(p)
    BY <2>1, <2>2, <2>4, <2>5, Concatenated
  <2> HIDE DEF p
  <2>7. \A i \in 1 .. Len(p) : p[i].revision \in Nat
    <3> TAKE i \in 1 .. Len(p)
    <3>1. p[i] \in Message
      BY <2>6
    <3> QED
      BY <3>1 DEF Message
  <2>8. \A i, j \in 1 .. Len(p) : i < j => ~(p[j].revision < p[i].revision)
    BY <2>6, <2>7 DEF Rising
  <2> QED
    BY <2>8 DEF Assignment!InOrder, Assignment!Older, p
<1>3. Assignment!CaughtUp
  <2> SUFFICES ASSUME sent >= 0, sent = Len(out), NEW t \in Terminals
               PROVE  retained[t] = accepted[t]
    BY DEF Assignment!CaughtUp, Assignment!link
  <2> DEFINE n == Len(out)
  <2>1. PICK k \in 0 .. n :
          /\ k > 0 => out[k].topic = t
          /\ \A i \in 1 .. n : i > k => out[i].topic # t
          /\ accepted[t] = (IF k = 0 THEN retained[t] ELSE out[k])
    BY DEF ChannelInv, KeptInv, IsLast
  <2>2. PICK l \in 0 .. n :
          /\ l > 0 => out[l].topic = t
          /\ \A i \in 1 .. n : i > l => out[i].topic # t
          /\ l > 0 => retained[t] = out[l]
    BY DEF ChannelInv, CarriedInv, IsLast
  <2>3. n \in Nat
    BY DEF ChannelInv, ChannelTypes
  <2> HIDE DEF n
  <2>4. k = l
    BY <2>1, <2>2, <2>3
  <2> QED
    BY <2>1, <2>2, <2>4
<1> QED
  BY <1>1, <1>2, <1>3 DEF Assignment!Safety

-----------------------------------------------------------------------------
(* The parts together                                                      *)

\* Assignments of a topic stay in order and none the library accepted is lost
\* (assignment_publisher.cpp), for any number of terminals, streams, revisions
\* and faults.
THEOREM AssignmentSafetyHolds == MCSpec => []AssignmentSafety
<1>1. MCInit => ChannelInv
  BY ChannelInit DEF MCInit
<1>2. [Logs(Next) \/ Assigns(Assignment!Next)]_allVars => [Assignment!Next]_(Assignment!vars)
  BY DEF Logs, Assigns, allVars, assignmentVars, Assignment!vars, Assignment!startVars,
     Assignment!publisherVars, Assignment!libraryVars, Assignment!terminalVars
<1>3. ChannelInv /\ [Assignment!Next]_(Assignment!vars) => ChannelInv'
  BY ChannelStep
<1>4. ChannelInv => AssignmentSafety
  BY ChannelIsSafe DEF AssignmentSafety
<1> QED
  BY <1>1, <1>2, <1>3, <1>4, PTL DEF MCSpec
=============================================================================
