------------------------------- MODULE RemLen -------------------------------
(***************************************************************************)
(* The remaining length of an MQTT packet, which the firmware writes and   *)
(* reads in three places: Paho's MQTTPacket.c, Gizwits' tool.c and         *)
(* libemqtt.c, and MC_decode_packet of MQTTClient.c.  A length is written  *)
(* with digits of Base, the lowest first; a byte of Base or more says that *)
(* another follows.                                                        *)
(***************************************************************************)
EXTENDS Integers, Sequences

CONSTANTS
  Base,       \* 128
  Word16,     \* 2 ^ 16, where uint16_t wraps
  Lengths     \* the lengths of packets: four digits are enough

ASSUME RemLenAssumption ==
  /\ Base \in Nat \ {0, 1} /\ Word16 \in Nat \ {0, 1}
  /\ Lengths \subseteq 0 .. Base * (Base * (Base * Base)) - 1

VARIABLE length   \* the length of the packet that is written and read

RemLenInit == length \in Lengths
RemLenSpec == RemLenInit /\ [][UNCHANGED length]_length

MAX_NO_OF_REMAINING_LENGTH_BYTES == 4
Places == 1 .. MAX_NO_OF_REMAINING_LENGTH_BYTES

\* What the digit at place n + 1 counts: multiplier, in int and in uint16_t
Weight[n \in 0 .. MAX_NO_OF_REMAINING_LENGTH_BYTES] ==
  IF n = 0 THEN 1 ELSE Base * Weight[n - 1]
Weight16[n \in 0 .. MAX_NO_OF_REMAINING_LENGTH_BYTES] ==
  IF n = 0 THEN 1 ELSE (Base * Weight16[n - 1]) % Word16

-----------------------------------------------------------------------------
\* What is left of v after n digits.  The writers go on while something is.
Rest(v) ==
  LET rest[n \in 0 .. MAX_NO_OF_REMAINING_LENGTH_BYTES] ==
        IF n = 0 THEN v ELSE rest[n - 1] \div Base
  IN  rest

DigitsOf(v) == CHOOSE n \in Places : Rest(v)[n] = 0 /\ \A i \in 1 .. n - 1 : Rest(v)[i] # 0

MQTTPacket_encode(v) ==
  [n \in 1 .. DigitsOf(v) |-> (Rest(v)[n - 1] % Base) + IF n < DigitsOf(v) THEN Base ELSE 0]

MQTTPacket_len_HeaderLast(v) ==
  v + 1 + CASE v <= Base -> 1
            [] v > Base /\ v <= Weight[2] -> 2
            [] v > Weight[2] /\ v < Weight[3] - 1 -> 3
            [] OTHER -> 4

\* MQTTPacket_len: the header's byte is counted before the length is looked at.
MQTTPacket_len(v) ==
  v + 1 + CASE v + 1 < Base -> 1
            [] v + 1 >= Base /\ v + 1 < Weight[2] -> 2
            [] v + 1 >= Weight[2] /\ v + 1 < Weight[3] - 1 -> 3
            [] OTHER -> 4

\* Reading goes on to the first byte below Base.
Marked(buf) == {n \in DOMAIN buf : buf[n] >= Base}
BytesRead(buf) == CHOOSE n \in DOMAIN buf : n \notin Marked(buf) /\ 1 .. n - 1 \subseteq Marked(buf)

MC_decode_packet(buf) ==
  LET value[n \in 0 .. BytesRead(buf)] ==
        IF n = 0 THEN 0 ELSE value[n - 1] + ((buf[n] % Base) * Weight[n - 1])
  IN  value[BytesRead(buf)]

\* mqtt_num_rem_len_bytes looks at three bytes at most.
mqtt_num_rem_len_bytes(buf) ==
  CHOOSE n \in Places : 1 .. n - 1 \subseteq Marked(buf) /\ (n < 4 => n \notin Marked(buf))

\* mqtt_parse_rem_len: value and multiplier are uint16_t.
mqtt_parse_rem_len(buf) ==
  LET value[n \in 0 .. BytesRead(buf)] ==
        IF n = 0 THEN 0 ELSE (value[n - 1] + ((buf[n] % Base) * Weight16[n - 1])) % Word16
  IN  value[BytesRead(buf)]

-----------------------------------------------------------------------------
\* What one place of the firmware writes the others read: all of it, where the
\* MQTT client does (MQTTClient.c:746-772), and modulo 2 ^ 16, with the number
\* of its bytes, where Gizwits' does (libemqtt.c:47-81).
RemLenAgree ==
  LET buf == MQTTPacket_encode(length)
  IN  /\ MC_decode_packet(buf) = length
      /\ mqtt_num_rem_len_bytes(buf) = Len(buf) /\ BytesRead(buf) = Len(buf)
      /\ mqtt_parse_rem_len(buf) = length % Word16

\* MQTTPacket_len, from which the serialisers tell whether a buffer is too
\* short (MQTTPacket.c:84-99), is never less than the packet, and a byte more at
\* the lengths that the header's byte pushes over an edge.
PacketLenFits ==
  MQTTPacket_len(length) =
    1 + Len(MQTTPacket_encode(length)) + length
      + IF length \in {Base - 1, Weight[2] - 1, Weight[3] - 2, Weight[3] - 1} THEN 1 ELSE 0

\* What is written fits and is read again.
LengthsCorrect == RemLenAgree /\ PacketLenFits
=============================================================================
