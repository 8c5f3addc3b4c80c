------------------------ MODULE CalibrationSession -------------------------
(***************************************************************************)
(* The calibration app of the server (calibration_app/server.py) and its   *)
(* tool, for one stream: photos are collected in the directory of the      *)
(* session, /api/calibrate has the tool compute the intrinsics from what   *)
(* the directory holds and copies them to where the servers read them, and *)
(* /api/frames/undistorted has it undistort a photo into a file of its own *)
(* there, which is removed again.  Every request has a thread of its own;  *)
(* only the directory is shared.                                           *)
(***************************************************************************)
EXTENDS Integers, FiniteSets, FiniteSetsExt

CONSTANTS
  Captures,      \* threads that take a photo, each again and again
  Runs,          \* threads that calibrate
  MaxNumber,     \* bound: photos are numbered up to this
  MaxViewers,    \* bound: requests at a time that show a photo undistorted
  MinViews       \* photos with enough corners the tool asks for

ConstantAssumption == {MaxNumber, MaxViewers, MinViews} \subseteq Nat

Numbers == 0 .. MaxNumber
Viewers == - MaxViewers .. -1

VARIABLES
  raw,           \* per number: frame-<n>.jpg, absent, or how well it shows the board
  json,          \* per number: .tmp-<n>.json, what the tool found, or absent
  preview,       \* undistorted.jpg: absent, or as good as the first image, drawn over
  temporary,     \* per viewer: .undistorted-<hex>.jpg, absent, or how well it shows the board
  intrinsics,    \* the views the result of the session was computed from
  saved,         \* those of the result the servers read
  capture, calibration, viewer,    \* per thread: where it stands
  unchecked, disturbed     \* history: the tool failed; another photo had the number

captureVars == <<raw, json, capture, unchecked, disturbed>>
resultVars == <<preview, intrinsics, saved, calibration, temporary, viewer>>
vars == <<captureVars, resultVars>>

Absent == "absent"
Quality == {"good", "poor"}
NoResult == {}

Idle == [pc |-> "idle", n |-> 0, shot |-> Absent, count |-> Absent]
IdleRun == [pc |-> "idle", views |-> {}]

Taken == {n \in Numbers : raw[n] # Absent}
Holders(n) == {c \in Captures : capture[c].pc # "idle" /\ capture[c].n = n}

-----------------------------------------------------------------------------
(* grab_frame                                                              *)

\* Bug: the next number is how many there are.
BugNumber(numbers) == Cardinality(numbers)

\* Not the number of photos: some may have been deleted.
NextNumber(numbers) == IF numbers = {} THEN 0 ELSE Max(numbers) + 1

\* A photo has come, and gets the number after the largest.
Number(c, q) ==
  LET n == NextNumber(Taken) IN
  /\ capture[c].pc = "idle" /\ n \in Numbers
  /\ capture' = [capture EXCEPT ![c] = [pc |-> "write", n |-> n, shot |-> q, count |-> Absent]]
  /\ disturbed' = IF Holders(n) = {} THEN disturbed \ {n} ELSE disturbed \cup {n}
  /\ unchecked' = IF Holders(n) = {} THEN unchecked \ {n} ELSE unchecked
  /\ UNCHANGED <<raw, json, resultVars>>

Write(c) ==
  LET n == capture[c].n IN
  /\ capture[c].pc = "write" /\ capture' = [capture EXCEPT ![c].pc = "detect", ![c].shot = Absent]
  /\ raw' = [raw EXCEPT ![n] = capture[c].shot]
  /\ UNCHANGED <<json, unchecked, disturbed, resultVars>>

\* The tool looks at the file, or fails and leaves no answer.
Detect(c) ==
  LET n == capture[c].n IN
  /\ capture[c].pc = "detect" /\ capture' = [capture EXCEPT ![c].pc = "read"]
  /\ \/ raw[n] # Absent /\ json' = [json EXCEPT ![n] = raw[n]] /\ UNCHANGED unchecked
     \/ unchecked' = unchecked \cup {n} /\ UNCHANGED json
  /\ UNCHANGED <<raw, disturbed, resultVars>>

\* Without an answer the photo stays.
Read(c) ==
  LET n == capture[c].n IN
  /\ capture[c].pc = "read"
  /\ capture' = [capture EXCEPT ![c] =
       IF json[n] = Absent THEN Idle ELSE [@ EXCEPT !.pc = "judge", !.count = json[n]]]
  /\ UNCHANGED <<raw, json, unchecked, disturbed, resultVars>>

\* Too few markers: the photo is thrown away.
Judge(c) ==
  LET n == capture[c].n IN
  /\ capture[c].pc = "judge" /\ capture' = [capture EXCEPT ![c] = Idle]
  /\ json' = [json EXCEPT ![n] = Absent]
  /\ raw' = IF capture[c].count = "poor" THEN [raw EXCEPT ![n] = Absent] ELSE raw
  /\ UNCHANGED <<unchecked, disturbed, resultVars>>

\* A photo, or all of them with everything else, are deleted.
Delete(n) ==
  /\ raw[n] # Absent /\ raw' = [raw EXCEPT ![n] = Absent]
  /\ disturbed' = IF Holders(n) = {} THEN disturbed ELSE disturbed \cup {n}
  /\ UNCHANGED <<json, capture, unchecked, resultVars>>

Reset ==
  /\ raw' = [n \in Numbers |-> Absent] /\ json' = [n \in Numbers |-> Absent]
  /\ preview' = Absent /\ intrinsics' = NoResult
  /\ temporary' = [v \in Viewers |-> Absent]
  /\ disturbed' = disturbed \cup {n \in Numbers : Holders(n) # {}}
  /\ UNCHANGED <<capture, unchecked, saved, calibration, viewer>>

-----------------------------------------------------------------------------
(* /api/calibrate and the tool's calibrate-intrinsics                      *)

\* In the order of their names: the temporary files, the photos, the preview.
Preview == MaxNumber + 1
Views == Viewers \cup Numbers \cup {Preview}

Shows(i) ==
  CASE i \in Numbers -> raw[i] [] i = Preview -> preview [] i \in Viewers -> temporary[i]

\* What the tool takes for a photo: any image but the overlays named _annot.
Images == {i \in Views : Shows(i) # Absent}

\* Views that show the board well enough.
Usable(images) == {i \in images : Shows(i) = "good"}

Start(r) ==
  /\ calibration[r].pc = "idle" /\ Taken # {}
  /\ calibration' = [calibration EXCEPT ![r] = [pc |-> "tool", views |-> Images]]
  /\ UNCHANGED <<captureVars, preview, intrinsics, saved, temporary, viewer>>

\* An image that is gone, or too few views, end it; else the preview of the first
\* image is drawn, and the result written.
Tool(r) ==
  LET images == calibration[r].views IN
  /\ calibration[r].pc = "tool"
  /\ \/ /\ images \subseteq Images /\ Cardinality(Usable(images)) >= MinViews
        /\ preview' = Shows(Min(images)) /\ intrinsics' = Usable(images)
        /\ calibration' = [calibration EXCEPT ![r] = [pc |-> "copy", views |-> {}]]
     \/ /\ calibration' = [calibration EXCEPT ![r] = IdleRun]
        /\ UNCHANGED <<preview, intrinsics>>
  /\ UNCHANGED <<captureVars, saved, temporary, viewer>>

\* The result that is there now replaces the one the servers read.
Copy(r) ==
  /\ calibration[r].pc = "copy" /\ calibration' = [calibration EXCEPT ![r] = IdleRun]
  /\ saved' = IF intrinsics = NoResult THEN saved ELSE intrinsics
  /\ UNCHANGED <<captureVars, preview, intrinsics, temporary, viewer>>

-----------------------------------------------------------------------------
(* /api/frames/undistorted                                                 *)

viewedVars == <<captureVars, preview, intrinsics, saved, calibration>>

\* There is a photo, and a result of the session or of an earlier one.
Ask(v) ==
  /\ viewer[v] = "idle" /\ Taken # {} /\ (intrinsics # NoResult \/ saved # NoResult)
  /\ viewer' = [viewer EXCEPT ![v] = "asked"]
  /\ UNCHANGED <<viewedVars, temporary>>

\* The tool writes the undistorted photo, from which the board may have gone, or fails.
Undistort(v) ==
  /\ viewer[v] = "asked"
  /\ \/ /\ viewer' = [viewer EXCEPT ![v] = "shown"]
        /\ \E q \in Quality : temporary' = [temporary EXCEPT ![v] = q]
     \/ viewer' = [viewer EXCEPT ![v] = "idle"] /\ UNCHANGED temporary
  /\ UNCHANGED viewedVars

Remove(v) ==
  /\ viewer[v] = "shown" /\ viewer' = [viewer EXCEPT ![v] = "idle"]
  /\ temporary' = [temporary EXCEPT ![v] = Absent]
  /\ UNCHANGED viewedVars

-----------------------------------------------------------------------------
Init ==
  /\ raw = [n \in Numbers |-> Absent] /\ json = [n \in Numbers |-> Absent]
  /\ preview = Absent /\ intrinsics = NoResult /\ saved = NoResult
  /\ capture = [c \in Captures |-> Idle] /\ calibration = [r \in Runs |-> IdleRun]
  /\ temporary = [v \in Viewers |-> Absent] /\ viewer = [v \in Viewers |-> "idle"]
  /\ unchecked = {} /\ disturbed = {}

Next ==
  \/ \E c \in Captures :
       (\E q \in Quality : Number(c, q)) \/ Write(c) \/ Detect(c) \/ Read(c) \/ Judge(c)
  \/ \E n \in Numbers : Delete(n)
  \/ Reset
  \/ \E r \in Runs : Start(r) \/ Tool(r) \/ Copy(r)
  \/ \E v \in Viewers : Ask(v) \/ Undistort(v) \/ Remove(v)

Spec == Init /\ [][Next]_vars

-----------------------------------------------------------------------------
TypeOK ==
  /\ raw \in [Numbers -> Quality \cup {Absent}] /\ preview \in Quality \cup {Absent}
  /\ json \in [Numbers -> Quality \cup {Absent}]
  /\ \A c \in Captures : capture[c].n \in Numbers
  /\ \A r \in Runs : calibration[r].pc \in {"idle", "tool", "copy"}
  /\ temporary \in [Viewers -> Quality \cup {Absent}]
  /\ viewer \in [Viewers -> {"idle", "asked", "shown"}]
  /\ unchecked \subseteq Numbers /\ disturbed \subseteq Numbers

\* A photo that lies in the session when no one works on it shows the board well
\* enough, unless the tool failed on it, or two requests took the same number,
\* or it was deleted while it was looked at.
KeptIsGood ==
  \A n \in Taken : Holders(n) = {} /\ raw[n] = "poor" => n \in unchecked \cup disturbed

\* An answer of the tool is not left for the next photo of that number.
NoOldAnswer ==
  \A n \in Numbers : json[n] # Absent => Holders(n) # {}

\* A photo is not written over another one, whatever was deleted before, and the
\* verdict on it is not another photo's.
OneNumberOnePhoto ==
  \A c \in Captures :
    LET n == capture[c].n IN
    n \notin disturbed =>
      /\ capture[c].pc = "write" => raw[n] = Absent
      /\ capture[c].pc = "judge" => raw[n] = capture[c].count

\* An undistorted photo lies in the session only while its request is answered.
TemporariesAreRemoved ==
  \A v \in Viewers : temporary[v] # Absent => viewer[v] = "shown"

\* What the servers read was computed from enough views, whatever was deleted,
\* reset, shown or computed meanwhile; but for the preview an earlier calibration
\* left and one for each request that showed a photo undistorted, they are photos.
\* (Only files named _annot are kept out of the input.)
SavedIsWhole ==
  saved # NoResult =>
    /\ Cardinality(saved) >= MinViews
    /\ Cardinality(saved \cap Numbers) >= MinViews - 1 - MaxViewers

\* The invariants of the session: checked photos, and whole results.
Safety ==
  /\ TypeOK /\ KeptIsGood /\ NoOldAnswer /\ OneNumberOnePhoto
  /\ TemporariesAreRemoved /\ SavedIsWhole

=============================================================================
