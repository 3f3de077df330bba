------------------------------ MODULE TcpRing -------------------------------
(***************************************************************************)
(* The ring between the modem and the MQTT client: iot_platform_tcp_read   *)
(* of Project/Src/iot_platform.c, its mqtt_ring_buffer, and the length     *)
(* that LM61_socketRead of Drivers/BSP/lm61.c measures for it.             *)
(*                                                                         *)
(* The n-th byte of the broker is n; some bytes have the value 0.          *)
(***************************************************************************)
EXTENDS Integers, SequencesExt, FiniteSetsExt

CONSTANTS
  MQTT_RING_BUFFER_LEN,
  Word,       \* 2 ^ width of uint32_t
  TextStart,  \* where the data starts in the modem's answer: 19, after its echo
  Lens,       \* lengths the MQTT client asks for
  MaxChunk,   \* bound: bytes in an answer of the modem
  MaxBytes,   \* bound: bytes of the broker
  MaxGot      \* bound: bytes given to the client

ASSUME RingAssumption ==
  /\ MQTT_RING_BUFFER_LEN \in Nat \ {0} /\ Word \in Nat /\ TextStart \in Nat
  /\ MaxChunk \in Nat /\ MaxBytes \in Nat /\ MaxGot \in Nat
  /\ MaxChunk <= MQTT_RING_BUFFER_LEN /\ 2 * MQTT_RING_BUFFER_LEN < Word
  /\ Lens \subseteq 1 .. MQTT_RING_BUFFER_LEN

VARIABLES
  size, head, tail, data,  \* mqtt_ring_buffer, mqtt_ring_data
  zeros,      \* the bytes whose value is 0
  arrived,    \* bytes the modem has given to LM61_socketRead
  got,        \* history: the bytes the client was given, 0 for none at all
  long, short, outside  \* history: an answer was too long to be decoded in
                        \* front of its text; more was asked than had come; a
                        \* read left mqtt_ring_data

ringVars == <<size, head, tail, data, zeros, arrived, got, long, short, outside>>

Index == 0 .. MQTT_RING_BUFFER_LEN - 1

RingTypeOK ==
  /\ {size, tail} \subseteq 0 .. MQTT_RING_BUFFER_LEN /\ head \in 0 .. Word - 1
  /\ size > 0 => head < size
  /\ data \in [Index -> 0 .. MaxBytes] /\ zeros \subseteq 1 .. MaxBytes
  /\ arrived \in 0 .. MaxBytes /\ got \in Seq(0 .. MaxBytes)
  /\ {long, short, outside} \subseteq BOOLEAN

RingInit ==
  /\ size = 0 /\ head = 0 /\ tail = 0 /\ data = [i \in Index |-> 0]
  /\ zeros \in SUBSET (1 .. MaxBytes)
  /\ arrived = 0 /\ got = <<>> /\ long = FALSE /\ short = FALSE /\ outside = FALSE

\* The Cortex-M4 divides by 0 with the quotient 0.
Mod(a, b) == IF b = 0 THEN a ELSE a % b

-----------------------------------------------------------------------------
iot_ring_buffer_used_space_OneLess == Mod((((size - head) % Word) + tail - 1) % Word, size)
iot_ring_buffer_used_space == Mod((((size - head) % Word) + tail) % Word, size)

\* The indices iot_ring_buffer_read copies from a ring of s bytes at h
RingIndices(s, h, n) ==
  LET head_to_end == (s - h) % Word
  IN  [i \in 1 .. n |-> IF i <= head_to_end THEN h + i - 1 ELSE i - 1 - head_to_end]

iot_ring_buffer_read(s, h, d, n) ==
  LET from == RingIndices(s, h, n)
  IN  /\ got' = got \o [i \in 1 .. n |-> IF from[i] \in Index THEN d[from[i]] ELSE 0]
      /\ outside' = (outside \/ ~(Range(from) \subseteq Index))
      /\ head' = Mod((h + n) % Word, s)

ReadRing(len) ==
  /\ iot_ring_buffer_used_space # 0
  /\ iot_ring_buffer_read(size, head, data, Min({len, iot_ring_buffer_used_space}))
  /\ UNCHANGED <<size, tail, data, zeros, arrived, long, short>>

\* char_to_hex gets the number of digits of the answer, 2 * n, for its count and
\* writes as many bytes: the n decoded ones and, behind the digits, n times 0.
\* The places where a 0 is written
Zeroed(n) == {j \in 0 .. 2 * n - 1 : j >= n \/ arrived + j + 1 \in zeros}

\* LM61_socketRead has them written to the start of recvBuffer and halves the
\* strlen of the text they are decoded from: the first 0 in the text ends it.
SocketReadLen(n) ==
  LET Ends == {j \in Zeroed(n) : j >= TextStart}
  IN  IF Ends = {} THEN n ELSE (Min(Ends) - TextStart) \div 2

\* The ring is filled with the n bytes of an answer and len of them returned,
\* be there as many or not.
ReadModem(len) ==
  /\ iot_ring_buffer_used_space = 0
  /\ \E n \in 1 .. MaxChunk :
       LET len1 == SocketReadLen(n)
           filled == [i \in Index |-> IF i < len1 THEN arrived + i + 1 ELSE data[i]]
       IN  /\ arrived + n <= MaxBytes
           /\ arrived' = arrived + n /\ data' = filled
           /\ size' = len1 /\ tail' = 0
           /\ iot_ring_buffer_read(len1, 0, filled, len)
           /\ long' = (long \/ 2 * n > TextStart)
           /\ short' = (short \/ len1 < len)
  /\ UNCHANGED zeros

\* iot_platform_tcp_read; when LM61_socketRead fails it returns 0.
RingNext == \E len \in Lens : Len(got) + len <= MaxGot /\ (ReadRing(len) \/ ReadModem(len))
RingSpec == RingInit /\ [][RingNext]_ringVars

-----------------------------------------------------------------------------
\* As long as every read asks for what is there and the digits of no answer reach
\* further than its text starts, the client gets the broker's bytes, each once, in
\* order, and the ring holds the others (iot_platform.c:138-161, lm61.c:234-236).
RingExact ==
  ~long /\ ~short =>
    /\ got = [i \in 1 .. Len(got) |-> i]
    /\ iot_ring_buffer_used_space = arrived - Len(got)

\* Reads leave the ring only after such a long answer, one that was measured to
\* be empty: the ring has the size 0 then and stays so (iot_platform.c:87-111).
\* A read of more than has come repeats bytes of the ring, but does not leave it.
RunawayExplained == outside => long /\ size = 0

\* The ring is a queue of the broker's bytes, or the reason why not is known.
RingCorrect == RingExact /\ RunawayExplained
=============================================================================
