---------------------------- MODULE FpgaReceiver ----------------------------
(***************************************************************************)
(* packet_parser.v: the FPGA takes packets of header, command, data and    *)
(* checksum out of a stream of bytes that may lose or change some of them. *)
(*                                                                         *)
(* One step is one clock, with or without a byte.  A byte is named by what *)
(* the checksum makes of it: 0 .. 3 are commands and data, H(x) stands for *)
(* 0xAA xor x with x in 0 .. 3 (so H(0) is the header, and a checksum may  *)
(* equal the header), Other is any other value.  The terminal sends        *)
(* packet after packet, closely or with pauses.                            *)
(***************************************************************************)
EXTENDS Integers

CONSTANTS
  TimeoutCount,   \* TIMEOUT_COUNT, clocks without a byte
  Sent,           \* packets the terminal sends, as <<command, data>>
  Corruption      \* bytes a damaged byte may turn into

H(x) == 4 + x
Other == 8
Bytes == 0 .. Other
SET_RISK == 1
CLEAR_ERROR == 2
SELF_TEST == 3

\* Commands and data are two bits wide.
Xor(a, b) == ((a + b) % 2) + 2 * (((a \div 2) + (b \div 2)) % 2)

DataIsValid(command, byte) ==
  IF command = CLEAR_ERROR THEN byte = 0 ELSE byte \in 0 .. 3

Checksum(command, data) == H(Xor(command, data))

ConstantAssumption ==
  /\ TimeoutCount \in Nat \ {0, 1}
  /\ Sent \subseteq {SET_RISK, CLEAR_ERROR, SELF_TEST} \X (0 .. 3)
  /\ \A p \in Sent : DataIsValid(p[1], p[2])
  /\ Corruption \subseteq Bytes

None == <<0, 0>>

VARIABLES
  state, command_reg, data_reg, interbyte_counter,
  accepted,        \* the packet whose outputs are high in this clock, or None
  error,           \* the error pulse of this clock, or "none"
  latched,         \* the set of *_error_latched flags that are set
  \* the terminal and the line
  packet, position,     \* the packet being sent, the byte of it that is next
  intact,               \* nothing happened to it so far
  previous_packet, previous_intact,
  since_byte,           \* clocks since a byte came, cut off at TimeoutCount
  single                \* every fault so far: in an intact packet after an intact one

parserVars == <<state, command_reg, data_reg, interbyte_counter, accepted, error, latched>>
lineVars == <<packet, position, intact, previous_packet, previous_intact, since_byte, single>>
vars == <<parserVars, lineVars>>

-----------------------------------------------------------------------------
(* The parser                                                              *)

Raise(e) == error' = e /\ latched' = latched \cup {e}

NoError == error' = "none" /\ UNCHANGED latched

\* Everything before a header is ignored.
InHeader(byte) ==
  /\ state' = IF byte = H(0) THEN "COMMAND" ELSE "HEADER"
  /\ accepted' = None /\ NoError
  /\ UNCHANGED <<command_reg, data_reg>>

\* Bug: a header in place of the command is an error like any other byte.
BugDropsRepeated == "HEADER"

\* A repeated header starts the packet again.
AfterRepeatedHeader == "COMMAND"

InCommand(byte) ==
  /\ accepted' = None
  /\ UNCHANGED data_reg
  /\ \/ /\ byte = H(0)
        /\ state' = AfterRepeatedHeader /\ NoError
        /\ UNCHANGED command_reg
     \/ /\ byte \in {SET_RISK, CLEAR_ERROR, SELF_TEST}
        /\ state' = "DATA" /\ command_reg' = byte /\ NoError
     \/ /\ byte \notin {H(0), SET_RISK, CLEAR_ERROR, SELF_TEST}
        /\ state' = "HEADER" /\ Raise("protocol")
        /\ UNCHANGED command_reg

\* A byte that cannot belong to this packet may be the header of the next one.
Resynchronise(byte) == IF byte = H(0) THEN "COMMAND" ELSE "HEADER"

InData(byte) ==
  /\ accepted' = None
  /\ UNCHANGED command_reg
  /\ \/ /\ DataIsValid(command_reg, byte)
        /\ state' = "CHECKSUM" /\ data_reg' = byte /\ NoError
     \/ /\ ~DataIsValid(command_reg, byte)
        /\ state' = Resynchronise(byte) /\ Raise("protocol")
        /\ UNCHANGED data_reg

ChecksumMatches(byte) == byte = Checksum(command_reg, data_reg)

\* The outputs of one accepted packet; CLEAR_ERROR clears the flags.
InChecksum(byte) ==
  /\ UNCHANGED <<command_reg, data_reg>>
  /\ \/ /\ ChecksumMatches(byte)
        /\ accepted' = <<command_reg, data_reg>>
        /\ latched' = IF command_reg = CLEAR_ERROR THEN {} ELSE latched
        /\ error' = "none" /\ state' = "HEADER"
     \/ /\ ~ChecksumMatches(byte)
        /\ accepted' = None
        /\ Raise("checksum") /\ state' = Resynchronise(byte)

Receive(byte) ==
  /\ interbyte_counter' = 0
  /\ \/ state = "HEADER" /\ InHeader(byte)
     \/ state = "COMMAND" /\ InCommand(byte)
     \/ state = "DATA" /\ InData(byte)
     \/ state = "CHECKSUM" /\ InChecksum(byte)

TimesOut == interbyte_counter >= TimeoutCount - 1

\* A clock without a byte.
NoByte ==
  /\ accepted' = None
  /\ UNCHANGED <<command_reg, data_reg>>
  /\ \/ /\ state = "HEADER"
        /\ interbyte_counter' = 0 /\ NoError
        /\ UNCHANGED state
     \/ /\ state # "HEADER" /\ TimesOut
        /\ interbyte_counter' = 0 /\ state' = "HEADER" /\ Raise("timeout")
     \/ /\ state # "HEADER" /\ ~TimesOut
        /\ interbyte_counter' = interbyte_counter + 1 /\ NoError
        /\ UNCHANGED state

-----------------------------------------------------------------------------
(* The terminal and the line                                               *)

ByteOf(p, i) == CASE i = 0 -> H(0) [] i = 1 -> p[1] [] i = 2 -> p[2]
                  [] i = 3 -> Checksum(p[1], p[2])

\* The byte that is next has gone, whole or not; after the fourth the terminal
\* begins another packet.
Advance(whole) ==
  IF position < 3
    THEN /\ position' = position + 1 /\ intact' = (intact /\ whole)
         /\ UNCHANGED <<packet, previous_packet, previous_intact>>
    ELSE /\ position' = 0 /\ intact' = TRUE
         /\ packet' \in Sent
         /\ previous_packet' = packet /\ previous_intact' = (intact /\ whole)

Arrives ==
  /\ Receive(ByteOf(packet, position))
  /\ Advance(TRUE)
  /\ since_byte' = 0 /\ UNCHANGED single

Fault == single' = (single /\ intact /\ previous_intact)

\* A byte changed on the line; uart_rx.v delivers it all the same.
Damaged ==
  /\ Fault
  /\ \E byte \in Corruption \ {ByteOf(packet, position)} : Receive(byte)
  /\ Advance(FALSE)
  /\ since_byte' = 0

CountClock == since_byte' = IF since_byte < TimeoutCount THEN since_byte + 1 ELSE since_byte

\* A byte lost: its stop bit was broken, so uart_rx.v did not deliver it.
Lost ==
  /\ Fault
  /\ NoByte
  /\ Advance(FALSE)
  /\ CountClock

\* A clock in which nothing is due; the terminal pauses within a packet for
\* less than the timeout.
Pause ==
  /\ position = 0 \/ since_byte < TimeoutCount - 1
  /\ NoByte
  /\ CountClock
  /\ UNCHANGED <<packet, position, intact, previous_packet, previous_intact, single>>

Init ==
  /\ state = "HEADER" /\ command_reg = 0 /\ data_reg = 0 /\ interbyte_counter = 0
  /\ accepted = None /\ error = "none" /\ latched = {}
  /\ packet \in Sent /\ position = 0 /\ intact = TRUE
  /\ previous_packet = None /\ previous_intact = TRUE
  /\ since_byte = TimeoutCount /\ single = TRUE

Next == Arrives \/ Damaged \/ Lost \/ Pause

Spec == Init /\ [][Next]_vars

-----------------------------------------------------------------------------
(* Properties                                                              *)

\* The parser's registers hold values of their width.
TypeOK ==
  /\ state \in {"HEADER", "COMMAND", "DATA", "CHECKSUM"}
  /\ command_reg \in 0 .. 3 /\ data_reg \in 0 .. 3
  /\ interbyte_counter \in 0 .. TimeoutCount - 1
  /\ accepted \in (0 .. 3) \X (0 .. 3)
  /\ error \in {"none", "protocol", "checksum", "timeout"}
  /\ latched \subseteq {"protocol", "checksum", "timeout"}

\* With single faults (one byte lost or changed, then a whole packet) the FPGA
\* obeys only packets the terminal sent: the one being sent or the one before
\* it.  Several faults can join the parts of two packets into a third.
AcceptedWasSent == single /\ accepted # None => accepted \in {packet, previous_packet}

\* However the stream looked before, the second of two packets that come
\* through whole is obeyed: the watchdog, which waits for five, survives the
\* resynchronisation after any damage.  After single faults the very next one
\* is, unless the packet before lost a checksum that equals the header.
WholePacketIsObeyed ==
  [][(/\ position = 3 /\ position' = 0 /\ previous_intact'
      /\ \/ previous_intact
         \/ single /\ Checksum(previous_packet[1], previous_packet[2]) # H(0))
     => accepted' = packet]_vars

\* A packet broken off is forgotten in time, so that its beginning is never
\* completed by bytes of a packet sent later.
BrokenOffIsForgotten == since_byte >= TimeoutCount => state = "HEADER"

\* The invariants of the receiver: what it obeys was sent, and what is broken off
\* is forgotten in time.
Safety == TypeOK /\ AcceptedWasSent /\ BrokenOffIsForgotten

=============================================================================
