------------------------- MODULE CameraCalibration -------------------------
(***************************************************************************)
(* The lens calibration app in the camera (ArUCoCalibration): one session  *)
(* per channel collects captures of a board, /calibrate computes a result  *)
(* from them and writes it to a file, /result and /undistort use it, and   *)
(* read the file when there is none in memory.  Requests are handled one   *)
(* after the other; the app may end and start again between any two.       *)
(*                                                                         *)
(* A capture is its number, the board it shows and the size of its image;  *)
(* a result is the set of captures it was computed from.                   *)
(***************************************************************************)
EXTENDS Integers, FiniteSets

CONSTANTS
  Channels, Boards, Sizes,
  MinCaptures,   \* captures /calibrate asks for
  MaxShots       \* bound: captures taken

ConstantAssumption == MinCaptures \in Nat \ {0} /\ MaxShots \in Nat /\ "none" \notin Boards

VARIABLES
  board_config_,      \* the board configured, or "none"
  sessions_,          \* per channel: captures, their image_size, last_result
  file,               \* per channel: what calib_result_ch<n>.json holds
  camera_size,        \* the size of the snapshots of each channel now
  shots               \* captures taken so far

vars == <<board_config_, sessions_, file, camera_size, shots>>

\* of: the captures; loaded: history, the result was read from the file.
NoResult == [valid |-> FALSE, of |-> {}, loaded |-> FALSE]
Result(captures) == [valid |-> TRUE, of |-> captures, loaded |-> FALSE]

\* The size of the images of a session without captures says nothing.
NewSession == [captures |-> {}, last_result |-> NoResult]

Absent == [readable |-> FALSE, of |-> {}]
Written(captures) == [readable |-> TRUE, of |-> captures]

\* Bug: new data leave the result of the old ones in force.
BugKeepsResult(result) == result

\* What becomes of the result when the data of its session change.
AfterChange(result) == NoResult

-----------------------------------------------------------------------------
\* LoadResultFromFile: a file that is missing or cut off changes nothing.
WithFile(ch, result) ==
  IF file[ch].readable THEN [valid |-> TRUE, of |-> file[ch].of, loaded |-> TRUE]
  ELSE result

HandleSetBoard(b) ==
  /\ board_config_' = b
  /\ sessions_' = [ch \in Channels |-> NewSession]
  /\ UNCHANGED <<file, camera_size, shots>>

\* The capture of a snapshot that shows enough corners of the board.
Shot(ch) == [id |-> shots, board |-> board_config_, size |-> camera_size[ch]]
Fits(ch) == \A c \in sessions_[ch].captures : c.size = camera_size[ch]

\* HandleCapture of such a snapshot; any other, and one of another size than
\* those before, is turned down.
HandleCapture(ch) ==
  /\ board_config_ # "none" /\ Fits(ch) /\ shots < MaxShots
  /\ shots' = shots + 1
  /\ sessions_' = [sessions_ EXCEPT
       ![ch] = [captures |-> @.captures \cup {Shot(ch)},
                last_result |-> AfterChange(@.last_result)]]
  /\ UNCHANGED <<board_config_, file, camera_size>>

HandleDiscard(ch, c) ==
  /\ c \in sessions_[ch].captures
  /\ sessions_' = [sessions_ EXCEPT
       ![ch] = [captures |-> @.captures \ {c},
                last_result |-> AfterChange(@.last_result)]]
  /\ UNCHANGED <<board_config_, file, camera_size, shots>>

HandleReset(ch) ==
  /\ sessions_' = [sessions_ EXCEPT ![ch] = NewSession]
  /\ UNCHANGED <<board_config_, file, camera_size, shots>>

\* SaveResultToFile does not look at the outcome: the file is written, cannot be
\* opened, or is cut off.
AfterSave(ch) ==
  {Written(sessions_[ch].captures), file[ch], Absent}

\* A calibration that OpenCV gives up changes nothing.
HandleCalibrate(ch) ==
  /\ board_config_ # "none" /\ Cardinality(sessions_[ch].captures) >= MinCaptures
  /\ sessions_' = [sessions_ EXCEPT ![ch].last_result = Result(sessions_[ch].captures)]
  /\ \E f \in AfterSave(ch) : file' = [file EXCEPT ![ch] = f]
  /\ UNCHANGED <<board_config_, camera_size, shots>>

\* Without a result in memory, that of the file.
HandleResult(ch) ==
  /\ ~ sessions_[ch].last_result.valid
  /\ sessions_' = [sessions_ EXCEPT ![ch].last_result = WithFile(ch, @)]
  /\ UNCHANGED <<board_config_, file, camera_size, shots>>

\* The same, for an image that may be of another size than the captures.
HandleUndistort(ch) == HandleResult(ch)

\* The app ends, at worst while it writes a file, and starts: Initialize reads
\* the files.
Restart(torn) ==
  /\ torn \subseteq {ch \in Channels :
       board_config_ # "none" /\ Cardinality(sessions_[ch].captures) >= MinCaptures}
  /\ Cardinality(torn) < 2
  /\ board_config_' = "none"
  /\ file' = [ch \in Channels |-> IF ch \in torn THEN Absent ELSE file[ch]]
  /\ sessions_' = [ch \in Channels |-> [NewSession EXCEPT
       !.last_result = IF ch \in torn THEN @ ELSE WithFile(ch, @)]]
  /\ UNCHANGED <<camera_size, shots>>

\* Someone changes zoom or resolution of the camera.
Zoom(ch, size) ==
  /\ size # camera_size[ch] /\ camera_size' = [camera_size EXCEPT ![ch] = size]
  /\ UNCHANGED <<board_config_, sessions_, file, shots>>

-----------------------------------------------------------------------------
Init ==
  /\ board_config_ = "none" /\ sessions_ = [ch \in Channels |-> NewSession]
  /\ file = [ch \in Channels |-> Absent] /\ shots = 0
  /\ camera_size \in [Channels -> Sizes]

Next ==
  \/ \E b \in Boards : HandleSetBoard(b)
  \/ \E torn \in SUBSET Channels : Restart(torn)
  \/ \E ch \in Channels :
       \/ HandleCapture(ch) \/ HandleReset(ch) \/ HandleCalibrate(ch)
       \/ HandleResult(ch) \/ HandleUndistort(ch)
       \/ \E c \in sessions_[ch].captures : HandleDiscard(ch, c)
       \/ \E size \in Sizes : Zoom(ch, size)

Spec == Init /\ [][Next]_vars

-----------------------------------------------------------------------------
Captures == [id : 0 .. MaxShots, board : Boards, size : Sizes]

TypeOK ==
  /\ board_config_ \in Boards \cup {"none"} /\ shots \in 0 .. MaxShots
  /\ camera_size \in [Channels -> Sizes]
  /\ \A ch \in Channels :
       /\ sessions_[ch].captures \subseteq Captures
       /\ sessions_[ch].last_result.of \subseteq Captures
       /\ file[ch].of \subseteq Captures

OneKind(captures) == \A c, d \in captures : c.board = d.board /\ c.size = d.size

\* What is calibrated together shows one board, the one configured, in images
\* of one size; and so does every result that was kept, whatever was zoomed,
\* discarded or reset before.
SessionIsUniform ==
  \A ch \in Channels :
    /\ OneKind(sessions_[ch].captures)
    /\ OneKind(file[ch].of) /\ OneKind(sessions_[ch].last_result.of)
    /\ \A c \in sessions_[ch].captures : c.board = board_config_

\* A result in memory is of exactly the captures of its session, or was read
\* back from the file as it is there.  (The comments say that a change of the data
\* makes the result invalid until the next calibration; but the file is not
\* removed, and /result brings it back.)
ResultIsCurrent ==
  \A ch \in Channels :
    LET r == sessions_[ch].last_result IN
    r.valid => IF r.loaded THEN file[ch] = Written(r.of)
               ELSE r.of = sessions_[ch].captures /\ Cardinality(r.of) >= MinCaptures

\* No two channels share a capture: the files of different lenses stay apart.
ChannelsApart ==
  \A ch, other \in Channels :
    ch # other =>
      (sessions_[ch].captures \cup file[ch].of) \cap
      (sessions_[other].captures \cup file[other].of) = {}

\* The invariants of the calibration app: data that fit together, and a result
\* that is theirs or the file's.
Safety == TypeOK /\ SessionIsUniform /\ ResultIsCurrent /\ ChannelsApart

=============================================================================
