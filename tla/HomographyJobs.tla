--------------------------- MODULE HomographyJobs ---------------------------
(***************************************************************************)
(* The jobs of the homography web server, a thread per request: a capture  *)
(* gets a directory of its own; /solve writes a layout into it, runs the   *)
(* tool, and completes the result the tool wrote; /global-align takes the  *)
(* results of all streams and writes one operational file per stream, each *)
(* by renaming a temporary one.  Nothing but the file system keeps two     *)
(* requests apart, and the server may be stopped at any point.             *)
(*                                                                         *)
(* A layout is the solve that sent it.  Names of captures are not reused.  *)
(***************************************************************************)
EXTENDS Integers, FiniteSets, FiniteSetsExt

CONSTANTS
  Streams,       \* a set of numbers: files are written in their order
  MaxCaptures, MaxRuns,    \* bounds: captures, and alignments
  Solvers        \* threads that solve, at most that many at a time

ConstantAssumption ==
  /\ Streams \subseteq Nat \ {0} /\ {MaxCaptures, MaxRuns} \subseteq Nat /\ 0 \notin Solvers

Captures == 1 .. MaxCaptures
Runs == 1 .. MaxRuns

VARIABLES
  job,           \* per capture: directory, its stream, layout.json and the result
  solver,        \* per solving thread: where it stands
  run,           \* per alignment: where it stands, and what it has to write
  operational,   \* per stream: the homography the safety server loads
  last, broken   \* history: the last alignment that ended well; one was left in pieces

vars == <<job, solver, run, operational, last, broken>>

\* of: the layout the result was computed with; kind: what the tool wrote, or
\* completed with the capture's names.  settled: history, the last solve went
\* well and alone.
NoJob == [there |-> FALSE, stream |-> 0, layout |-> 0, kind |-> "none", of |-> 0,
          settled |-> FALSE]
Idle == [pc |-> "idle", capture |-> 0, value |-> 0, alone |-> TRUE]
NoH == [run |-> 0, stream |-> 0, of |-> 0, corners |-> 0, settled |-> FALSE]
NoValues == [s \in Streams |-> NoH]
NoRun == [pc |-> "none", streams |-> {}, todo |-> {}, values |-> NoValues]
Ended(r, how) == [run[r] EXCEPT !.pc = how, !.todo = {}, !.values = NoValues]

-----------------------------------------------------------------------------
(* Captures and solving                                                    *)

\* /api/camera/detect: directories that are too old are removed, whoever uses
\* them; then a new one is filled (one that fails is removed again).
Detect(c, s, old) ==
  /\ c = Cardinality({d \in Captures : job[d].stream # 0}) + 1
  /\ \A d \in old : job[d].there
  /\ job' = [d \in Captures |->
       IF d = c THEN [NoJob EXCEPT !.there = TRUE, !.stream = s]
       ELSE IF d \in old THEN [NoJob EXCEPT !.stream = job[d].stream] ELSE job[d]]
  /\ UNCHANGED <<solver, run, operational, last, broken>>

Busy(c) == {v \in Solvers : solver[v].pc # "idle" /\ solver[v].capture = c}

\* /api/homography/solve: the layout ...
WriteLayout(v, c) ==
  /\ solver[v].pc = "idle" /\ job[c].there
  /\ job' = [job EXCEPT ![c].layout = v, ![c].settled = FALSE]
  /\ solver' = [u \in Solvers |->
       IF u = v THEN [pc |-> "tool", capture |-> c, value |-> 0, alone |-> Busy(c) = {}]
       ELSE IF u \in Busy(c) THEN [solver[u] EXCEPT !.alone = FALSE] ELSE solver[u]]
  /\ UNCHANGED <<run, operational, last, broken>>

\* ... the tool, which reads it and writes its result, or fails ...
RunTool(v) ==
  LET c == solver[v].capture IN
  /\ solver[v].pc = "tool"
  /\ \/ /\ job[c].there /\ solver' = [solver EXCEPT ![v].pc = "read"]
        /\ job' = [job EXCEPT ![c].kind = "raw", ![c].of = job[c].layout]
     \/ solver' = [solver EXCEPT ![v] = Idle] /\ UNCHANGED job
  /\ UNCHANGED <<run, operational, last, broken>>

\* ... and the names, for which the result is read and written again.
ReadResult(v) ==
  LET c == solver[v].capture IN
  /\ solver[v].pc = "read"
  /\ solver' = [solver EXCEPT ![v] =
       IF job[c].there THEN [@ EXCEPT !.pc = "write", !.value = job[c].of] ELSE Idle]
  /\ UNCHANGED <<job, run, operational, last, broken>>

WriteResult(v) ==
  LET c == solver[v].capture IN
  /\ solver[v].pc = "write" /\ solver' = [solver EXCEPT ![v] = Idle]
  /\ job' = IF job[c].there
            THEN [job EXCEPT ![c].kind = "complete", ![c].of = solver[v].value,
                             ![c].settled = solver[v].alone]
            ELSE job
  /\ UNCHANGED <<run, operational, last, broken>>

-----------------------------------------------------------------------------
(* Alignment                                                               *)

\* Bug: the client is believed which capture shows which stream.
BugBelieves(c, s) == job[c].there /\ job[c].kind = "complete"

\* The result of a capture is taken for a stream if it is complete and the
\* stream's own.
Usable(c, s) == job[c].there /\ job[c].kind = "complete" /\ job[c].stream = s

\* The corners of the markers are those of the layout the directory holds now.
Aligned(r, c) ==
  [run |-> r, stream |-> job[c].stream, of |-> job[c].of, corners |-> job[c].layout,
   settled |-> job[c].settled]

Saving == {r \in Runs : run[r].pc = "saving"}

\* /api/homography/global-align: the client says which captures, for two streams
\* or more; all are read and computed before the first file is written.
Align(r, chosen) ==
  /\ r = Cardinality({q \in Runs : run[q].pc # "none"}) + 1
  /\ Cardinality(DOMAIN chosen) >= 2 /\ \A s \in DOMAIN chosen : Usable(chosen[s], s)
  /\ run' = [run EXCEPT ![r] =
       [pc |-> "saving", streams |-> DOMAIN chosen, todo |-> DOMAIN chosen,
        values |-> [s \in Streams |-> IF s \in DOMAIN chosen THEN Aligned(r, chosen[s]) ELSE NoH]]]
  /\ broken' = (broken \/ Saving # {})
  /\ UNCHANGED <<job, solver, operational, last>>

\* save_operational_homography, stream by stream.
Save(r) ==
  LET s == Min(run[r].todo) IN
  /\ run[r].pc = "saving"
  /\ operational' = [operational EXCEPT ![s] = run[r].values[s]]
  /\ run' = [run EXCEPT ![r] =
       IF run[r].todo = {s} THEN Ended(r, "saved")
       ELSE [run[r] EXCEPT !.todo = @ \ {s}]]
  /\ IF run[r].todo = {s} /\ Saving = {r}
     THEN /\ last' = r
          /\ broken' = (broken /\ \E q \in Streams : operational'[q].run # r)
     ELSE UNCHANGED <<last, broken>>
  /\ UNCHANGED <<job, solver>>

\* A file cannot be written, or the camera was renamed meanwhile: the files
\* written before stay.
SaveFails(r) ==
  /\ run[r].pc = "saving" /\ run' = [run EXCEPT ![r] = Ended(r, "failed")]
  /\ broken' = TRUE /\ UNCHANGED <<job, solver, operational, last>>

\* The server ends and starts again: what is on the disk stays.
Crash ==
  /\ solver' = [v \in Solvers |-> Idle]
  /\ run' = [r \in Runs |-> IF r \in Saving THEN Ended(r, "failed") ELSE run[r]]
  /\ broken' = (broken \/ Saving # {})
  /\ UNCHANGED <<job, operational, last>>

-----------------------------------------------------------------------------
Init ==
  /\ job = [c \in Captures |-> NoJob] /\ solver = [v \in Solvers |-> Idle]
  /\ run = [r \in Runs |-> NoRun] /\ operational = [s \in Streams |-> NoH]
  /\ last = 0 /\ broken = FALSE

Next ==
  \/ \E c \in Captures, s \in Streams, old \in SUBSET Captures : Detect(c, s, old)
  \/ \E v \in Solvers :
       \/ \E c \in Captures : WriteLayout(v, c)
       \/ RunTool(v) \/ ReadResult(v) \/ WriteResult(v)
  \/ \E r \in Runs :
       \/ \E some \in SUBSET Streams : \E chosen \in [some -> Captures] : Align(r, chosen)
       \/ Save(r) \/ SaveFails(r)
  \/ Crash

Spec == Init /\ [][Next]_vars

-----------------------------------------------------------------------------
TypeOK ==
  /\ \A c \in Captures :
       /\ job[c].stream \in Streams \cup {0} /\ job[c].kind \in {"none", "raw", "complete"}
       /\ {job[c].layout, job[c].of} \subseteq Solvers \cup {0}
  /\ \A v \in Solvers : solver[v].pc \in {"idle", "tool", "read", "write"}
  /\ \A r \in Runs : run[r].pc \in {"none", "saving", "saved", "failed"}
  /\ last \in 0 .. MaxRuns /\ broken \in BOOLEAN

\* The operational file of a stream holds a homography of that stream, and no
\* result that was only half through /solve, whatever captures the client named.
OperationalIsOwn ==
  \A s \in Streams : operational[s].run # 0 => operational[s].stream = s /\ operational[s].of # 0

\* The homography and the marker corners it was aligned by come from one layout.
\* Not so when the last solve of the capture failed, is not through or was not
\* alone: the layout file is then of another solve than the result.
CornersMatchResult ==
  \A s \in Streams : operational[s].settled => operational[s].corners = operational[s].of

\* The operational files of an alignment replace one another as a whole, except
\* after two alignments were written at a time or one was given up half way; an
\* alignment of all streams, alone, repairs that.
AlignmentIsWhole ==
  ~ broken /\ Saving = {} /\ last # 0 =>
    \A s \in run[last].streams : operational[s].run = last

\* The invariants of the jobs: operational files of the right stream, computed
\* from one layout, and of one alignment.
Safety == TypeOK /\ OperationalIsOwn /\ CornersMatchResult /\ AlignmentIsWhole

=============================================================================
