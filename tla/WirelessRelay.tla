--------------------------- MODULE WirelessRelay ---------------------------
(***************************************************************************)
(* wireless_relay/: the drive of the cutoff relay over the radio.  The TX  *)
(* node taps the FPGA's serial line: an interrupt per byte assembles       *)
(* frames, the main loop sends them by NRF24L01.  The RX node polls its    *)
(* radio, mirrors the cutoff bit of the last valid frame and cuts when     *)
(* none came for WLINK_WATCHDOG_MS.                                        *)
(*                                                                         *)
(* A frame is FrameLen bytes and the cutoff bit they carry; bytes of        *)
(* different frames, or out of place, do not pass the checksum (that XOR   *)
(* lets some pass by chance is left out), but a frame overwritten while it *)
(* is loaded into the radio may.  The unit of time is one blocking         *)
(* transmission at most; a frame on the wire and the loops take less.      *)
(***************************************************************************)
EXTENDS Integers, Sequences, FiniteSets

CONSTANTS
  FrameLen,      \* FPGA_FRAME_LEN
  Heartbeat,     \* the FPGA starts a frame at least that often
  Watchdog,      \* WLINK_WATCHDOG_MS
  TickModulus,   \* HAL_GetTick() wraps
  FifoDepth      \* payloads the receiving radio holds

\* Ticks a frame takes from its start to the relay if nothing is lost: the
\* transmission before it and its own.
Transit == 2

ConstantAssumption ==
  /\ {FrameLen, Heartbeat, FifoDepth, Watchdog, TickModulus} \subseteq Nat \ {0}
  /\ FrameLen > 2
  /\ Watchdog >= Heartbeat + Transit /\ TickModulus > Watchdog

\* Whole frames the assembly may miss after bytes were lost.
Missed == 2

Settled == (Missed + 1) * Heartbeat + Transit + 1
Overdue == Watchdog + Transit

VARIABLES
  cutoff, since_frame, looked,                 \* the FPGA: level, timer, the last checksum
  s_frame_idx, s_frame_ready, s_frame_ready_copy,             \* TX node, interrupt
  sender, payload, overwritten, blocked,       \* TX node, main loop
  fifo,                                        \* the RX node's radio
  got_first_frame, elapsed, cutoff_bit_cached,               \* its main loop
  watch, timer, wrapped                        \* history: see the invariants

fpgaVars == <<cutoff, since_frame, looked>>
isrVars == <<s_frame_idx, s_frame_ready, s_frame_ready_copy>>
loopVars == <<sender, payload, overwritten, blocked>>
rxVars == <<got_first_frame, elapsed, cutoff_bit_cached>>
historyVars == <<watch, timer, wrapped>>
vars == <<fpgaVars, isrVars, loopVars, fifo, rxVars, historyVars>>

\* The timer counts how long the cutoff lasts or, as watch says, how long the
\* level has not changed and nothing was lost.
Disturbed == timer' = IF watch = "calm" THEN 0 ELSE timer

-----------------------------------------------------------------------------
(* The FPGA and its line                                                   *)

LevelChanges ==
  /\ cutoff' = ~ cutoff /\ timer' = 0
  /\ UNCHANGED <<since_frame, looked, isrVars, loopVars, fifo, rxVars, watch, wrapped>>

-----------------------------------------------------------------------------
(* The TX node                                                             *)

\* HAL_UART_RxCpltCallback for the bytes of a frame that are not lost: where
\* s_frame_idx stands after them.  Each byte after a header moves it on, until
\* the frame is full; out of a frame, only the first byte is a header, and the
\* checksum may look like one, by chance.
Assembled(lost, looks) ==
  LET after == s_frame_idx + FrameLen - Cardinality(lost)
      moves == IF s_frame_idx > 0 THEN after <= FrameLen ELSE 1 \notin lost
  IN IF moves THEN after % FrameLen
     ELSE IF looks /\ FrameLen \notin lost THEN 1 ELSE 0

\* The FPGA sends a frame, for an event or as a heartbeat, with the level it has
\* as the frame starts; the running number in it keeps the checksums of two
\* frames in a row from both looking like a header.  A frame that is assembled
\* whole waits for the main loop; one that comes while one waits is dropped.
Frame(lost, looks) ==
  /\ looks => ~ looked
  /\ looked' = looks /\ since_frame' = 0
  /\ s_frame_idx' = Assembled(lost, looks)
  /\ IF s_frame_idx = 0 /\ lost = {} /\ ~ s_frame_ready
     THEN /\ s_frame_ready' = TRUE /\ s_frame_ready_copy' = cutoff
          /\ overwritten' = (sender \in {"load", "checksum"})
     ELSE UNCHANGED <<s_frame_ready, s_frame_ready_copy, overwritten>>
  /\ IF lost = {} THEN UNCHANGED timer ELSE Disturbed
  /\ UNCHANGED <<cutoff, sender, payload, blocked, fifo, rxVars, watch, wrapped>>

NoPayload == [cut |-> FALSE, valid |-> TRUE]

\* while (1): the flag is cleared before the copy is used ...
Take ==
  /\ sender = "idle" /\ s_frame_ready
  /\ sender' = "load" /\ s_frame_ready' = FALSE
  /\ UNCHANGED <<fpgaVars, s_frame_idx, s_frame_ready_copy, payload, overwritten,
                 blocked, fifo, rxVars, historyVars>>

\* ... NRF24_Transmit: the byte with the cutoff bit goes to the radio ...
LoadStatus ==
  /\ sender = "load" /\ payload' = [cut |-> s_frame_ready_copy, valid |-> TRUE]
  /\ sender' = "checksum"
  /\ UNCHANGED <<fpgaVars, isrVars, overwritten, blocked, fifo, rxVars, historyVars>>

\* ... then the checksum, of the same frame unless the interrupt came between.
LoadChecksum ==
  /\ sender = "checksum"
  /\ \E valid \in IF overwritten THEN BOOLEAN ELSE {TRUE} :
       /\ payload' = [payload EXCEPT !.valid = valid]
       /\ IF valid THEN UNCHANGED timer ELSE Disturbed
  /\ sender' = "air" /\ blocked' = 0 /\ overwritten' = FALSE
  /\ UNCHANGED <<fpgaVars, isrVars, fifo, rxVars, watch, wrapped>>

\* The air, with up to 15 repetitions: the payload arrives once, or not at all.
Air(arrives) ==
  /\ sender = "air" /\ sender' = "wait"
  /\ IF arrives /\ Len(fifo) < FifoDepth
     THEN fifo' = Append(fifo, payload) /\ UNCHANGED timer
     ELSE Disturbed /\ UNCHANGED fifo
  /\ payload' = NoPayload
  /\ UNCHANGED <<fpgaVars, isrVars, overwritten, blocked, rxVars, watch,
                 wrapped>>

\* TX_DS, MAX_RT or the 25 ms are over; the result is ignored.
Return ==
  /\ sender = "wait" /\ sender' = "idle"
  /\ UNCHANGED <<fpgaVars, isrVars, payload, overwritten, blocked, fifo, rxVars, historyVars>>

ResetTx ==
  /\ s_frame_idx' = 0 /\ s_frame_ready' = FALSE /\ sender' = "idle"
  /\ overwritten' = FALSE /\ Disturbed
  /\ UNCHANGED <<fpgaVars, s_frame_ready_copy, payload, blocked, fifo, rxVars,
                 watch, wrapped>>

-----------------------------------------------------------------------------
(* The RX node                                                             *)

\* Bug: the link is up for good once a frame came.
BugNoWatchdog == got_first_frame

\* The rest of the loop comes right after each payload and each tick, so that
\* the relay is always what it last computed.
link_ok == got_first_frame /\ elapsed < Watchdog
relay_cutoff == ~ link_ok \/ cutoff_bit_cached

\* while (NRF24_Available()): a payload that fails the checksum is dropped.
Receive ==
  /\ fifo # <<>> /\ fifo' = Tail(fifo)
  /\ IF Head(fifo).valid
     THEN /\ got_first_frame' = TRUE /\ elapsed' = 0 /\ wrapped' = FALSE
          /\ cutoff_bit_cached' = Head(fifo).cut
     ELSE UNCHANGED <<got_first_frame, elapsed, cutoff_bit_cached, wrapped>>
  /\ UNCHANGED <<fpgaVars, isrVars, loopVars, watch, timer>>

\* The relay is cut before the radio is initialised, which empties it.  (Without
\* power, and until the pin is an output, the circuit lets the truck move.)
ResetRx ==
  /\ fifo' = <<>> /\ got_first_frame' = FALSE /\ elapsed' = 0 /\ cutoff_bit_cached' = TRUE
  /\ Disturbed /\ wrapped' = FALSE
  /\ UNCHANGED <<fpgaVars, isrVars, loopVars, watch>>

-----------------------------------------------------------------------------
Smaller(a, b) == IF a < b THEN a ELSE b

\* A unit of time: both loops have gone round, and a transmission does not take
\* longer.
Tick ==
  /\ since_frame < Heartbeat /\ since_frame' = since_frame + 1
  /\ \/ sender = "idle" /\ ~ s_frame_ready /\ UNCHANGED blocked
     \/ sender \in {"air", "wait"} /\ blocked = 0 /\ blocked' = 1
  /\ fifo = <<>>
  /\ IF got_first_frame
     THEN /\ elapsed' = (elapsed + 1) % TickModulus
          /\ wrapped' = (wrapped \/ elapsed' = 0)
     ELSE UNCHANGED <<elapsed, wrapped>>
  /\ timer' = IF watch = "calm" THEN Smaller(timer + 1, Settled)
              ELSE IF cutoff THEN Smaller(timer + 1, Overdue) ELSE 0
  /\ UNCHANGED <<cutoff, looked, isrVars, sender, payload, overwritten, fifo,
                 got_first_frame, cutoff_bit_cached, watch>>

Init ==
  /\ cutoff \in BOOLEAN /\ since_frame = 0 /\ looked = FALSE
  /\ s_frame_idx = 0 /\ s_frame_ready = FALSE
  /\ s_frame_ready_copy = FALSE
  /\ sender = "idle" /\ payload = NoPayload
  /\ overwritten = FALSE /\ blocked = 0
  /\ fifo = <<>>
  /\ got_first_frame = FALSE /\ elapsed = 0 /\ cutoff_bit_cached = TRUE
  /\ watch \in {"cutoff", "calm"} /\ timer = 0 /\ wrapped = FALSE

Next ==
  \/ LevelChanges
  \/ \E lost \in SUBSET (1 .. FrameLen), looks \in BOOLEAN : Frame(lost, looks)
  \/ Take \/ LoadStatus \/ LoadChecksum \/ Return \/ ResetTx
  \/ \E arrives \in BOOLEAN : Air(arrives)
  \/ Receive \/ ResetRx
  \/ Tick

Spec == Init /\ [][Next]_vars

-----------------------------------------------------------------------------
Payloads == [cut : BOOLEAN, valid : BOOLEAN]

TypeOK ==
  /\ cutoff \in BOOLEAN /\ since_frame \in 0 .. Heartbeat
  /\ s_frame_idx \in 0 .. FrameLen - 1
  /\ {looked, s_frame_ready, s_frame_ready_copy, overwritten} \subseteq BOOLEAN
  /\ sender \in {"idle", "load", "checksum", "air", "wait"} /\ payload \in Payloads
  /\ blocked \in 0 .. 1
  /\ fifo \in Seq(Payloads) /\ Len(fifo) <= FifoDepth
  /\ {got_first_frame, cutoff_bit_cached, wrapped} \subseteq BOOLEAN
  /\ elapsed \in 0 .. TickModulus - 1
  /\ watch \in {"cutoff", "calm"} /\ timer \in 0 .. Settled \cup 0 .. Overdue

\* Whatever is lost, torn or reset, a cutoff that lasts is at the relay after
\* the watchdog and the frames that were under way.  (Not once the link has
\* been dead until the 32-bit tick wraps, after 49 days.)
CutoffReachesRelay ==
  watch = "cutoff" /\ timer = Overdue /\ ~ wrapped => relay_cutoff

\* Within a heartbeat, and a few more after lost bytes, the relay follows the
\* level when nothing is lost or torn any more, however many frames the
\* interrupt drops because one is waiting.
RelayFollows == watch = "calm" /\ timer = Settled => relay_cutoff = cutoff

\* The invariants of the relay: a cutoff reaches it, and it follows when nothing
\* is lost.
Safety == TypeOK /\ CutoffReachesRelay /\ RelayFollows

=============================================================================
