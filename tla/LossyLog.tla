------------------------------ MODULE LossyLog ------------------------------
(***************************************************************************)
(* What a log that may lose rows still promises.  Rows are numbered in the *)
(* order they were logged.  A row is pending until it is stored or lost;   *)
(* stored rows stay, in the order they were logged, each once; the log is  *)
(* closed only when nothing is pending.                                    *)
(***************************************************************************)
EXTENDS Integers

VARIABLES
  logged,    \* rows logged so far: 1 .. logged
  pending,   \* accepted, neither stored nor lost yet
  stored,    \* rows of the database
  closed

vars == <<logged, pending, stored, closed>>

Init == logged = 0 /\ pending = {} /\ stored = {} /\ closed = FALSE

\* A new row; it, or rows before it, may be lost at once.
Log ==
  /\ ~closed
  /\ logged' = logged + 1
  /\ pending' \in SUBSET (pending \cup {logged + 1})
  /\ UNCHANGED <<stored, closed>>

Lose ==
  /\ pending' \in SUBSET pending
  /\ UNCHANGED <<logged, stored, closed>>

\* Rows are stored together, none before one that is stored already.
Store ==
  \E rows \in SUBSET pending :
    /\ \A r \in rows, s \in stored : s < r
    /\ stored' = stored \cup rows
    /\ pending' = pending \ rows
    /\ UNCHANGED <<logged, closed>>

Close ==
  /\ pending = {}
  /\ closed' = TRUE
  /\ UNCHANGED <<logged, pending, stored>>

Next == Log \/ Lose \/ Store \/ Close

Spec == Init /\ [][Next]_vars

=============================================================================
