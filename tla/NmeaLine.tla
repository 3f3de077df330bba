------------------------------ MODULE NmeaLine ------------------------------
(***************************************************************************)
(* The assembly of a GNSS receiver's sentences in the receive interrupt    *)
(* of Drivers/BSP/uart5.c.  At each line end the bytes since the last one  *)
(* are copied from the ring to aRxMessageLine, which is followed in memory *)
(* by aRxGGALine and, after a gap, by GPS_data (Cat_GNSS_IoT.map).         *)
(***************************************************************************)
EXTENDS Integers, SequencesExt

CONSTANTS
  RXBUFFERSIZE,   \* bytes of aRxBuffer
  LINE,           \* bytes of aRxMessageLine and of aRxGGALine
  Gap,            \* bytes between aRxGGALine and GPS_data
  MaxRx           \* bound: bytes received

ASSUME NmeaAssumption ==
  RXBUFFERSIZE \in Nat \ {0} /\ LINE \in Nat \ {0} /\ Gap \in Nat /\ MaxRx \in Nat

VARIABLES
  aRxBuffer, bufferPoint,
  pRxMessageLineStartPoint,
  memory,         \* what the copies wrote, from aRxMessageLine on
  GPS_data,       \* the number of the line the fix is from; 0 at first,
                  \* -1 after bytes of a line were written over it
  resolved_GPS_data_count,
  bytes,          \* history: number of bytes received
  current,        \* history: the bytes since the last line end
  last, lines,    \* history: the last line that was copied, and their number
  longest         \* history: the longest line

nmeaVars == <<aRxBuffer, bufferPoint, pRxMessageLineStartPoint, memory, GPS_data,
              resolved_GPS_data_count, bytes, current, last, lines, longest>>

\* "GGA" is the $ that begins a GGA sentence, "EOL" a CR or an LF.
Byte == {"GGA", "c", "EOL"}
Points == 0 .. RXBUFFERSIZE - 1

NmeaTypeOK ==
  /\ aRxBuffer \in [Points -> Byte \cup {"NUL"}]
  /\ {bufferPoint, pRxMessageLineStartPoint} \subseteq Points
  /\ memory \in [0 .. LINE + LINE + Gap - 1 -> Byte \cup {"NUL"}]
  /\ GPS_data \in -1 .. lines /\ resolved_GPS_data_count \in 0 .. bytes
  /\ bytes \in 0 .. MaxRx /\ current \in Seq(Byte) /\ last \in Seq(Byte)
  /\ lines \in 0 .. bytes /\ longest \in 0 .. bytes

NmeaInit ==
  /\ aRxBuffer = [p \in Points |-> "NUL"] /\ bufferPoint = 0
  /\ pRxMessageLineStartPoint = 0
  /\ memory = [a \in 0 .. LINE + LINE + Gap - 1 |-> "NUL"]
  /\ GPS_data = 0 /\ resolved_GPS_data_count = 0
  /\ bytes = 0 /\ current = <<>> /\ last = <<>> /\ lines = 0 /\ longest = 0

-----------------------------------------------------------------------------
\* The bytes of the ring from the start point to bufferPoint; none when they
\* are equal.
RingLine(ring) ==
  [n \in 1 .. (bufferPoint - pRxMessageLineStartPoint) % RXBUFFERSIZE |->
     ring[(pRxMessageLineStartPoint + n - 1) % RXBUFFERSIZE]]

\* The memcpy to aRxMessageLine has no limit; a zero takes the place of the
\* line end.
Copy(text) ==
  IF text = <<>> THEN memory
  ELSE [a \in DOMAIN memory |->
          IF a < Len(text) THEN text[a + 1] ELSE IF a = Len(text) THEN "NUL" ELSE memory[a]]

\* nmea_parse_GGA, of 64 bytes up to a zero, finds the head of a GGA sentence.
nmea_parse_GGA(mem) == mem[0] = "GGA"

LineEnd_ParsesFirst(ring) ==
  LET text == RingLine(ring)
      copied == Copy(text)
      parsed == nmea_parse_GGA(memory)
      number == IF Len(current) % RXBUFFERSIZE = 0 THEN lines ELSE lines + 1
  IN  /\ lines' = number
      /\ last' = IF number = lines THEN last ELSE current
      /\ pRxMessageLineStartPoint' = (bufferPoint + 1) % RXBUFFERSIZE
      /\ memory' = copied
      /\ GPS_data' = IF parsed THEN number ELSE GPS_data
      /\ resolved_GPS_data_count' = resolved_GPS_data_count + IF parsed THEN 1 ELSE 0
      /\ current' = <<>>

\* A line end: copy, restart, parse whatever aRxMessageLine holds now.
LineEnd(ring) ==
  LET text == RingLine(ring)
      copied == Copy(text)
      parsed == nmea_parse_GGA(copied)
      number == IF Len(current) % RXBUFFERSIZE = 0 THEN lines ELSE lines + 1
  IN  /\ lines' = number
      /\ last' = IF number = lines THEN last ELSE current
      /\ pRxMessageLineStartPoint' = (bufferPoint + 1) % RXBUFFERSIZE
      /\ memory' = [a \in DOMAIN memory |->
           IF parsed /\ a \in LINE .. LINE + LINE - 1 THEN copied[a - LINE] ELSE copied[a]]
      /\ GPS_data' = CASE parsed -> number
                       [] ~parsed /\ Len(text) + 1 > LINE + LINE + Gap /\ text # <<>> -> -1
                       [] OTHER -> GPS_data
      /\ resolved_GPS_data_count' = resolved_GPS_data_count + IF parsed THEN 1 ELSE 0
      /\ current' = <<>>

\* HAL_UART5_RxCpltCallback, of a byte; unReadBytes is that of module UartRx.
HAL_UART5_RxCpltCallback(b) ==
  /\ bytes < MaxRx /\ bytes' = bytes + 1
  /\ aRxBuffer' = [aRxBuffer EXCEPT ![bufferPoint] = b]
  /\ IF b = "EOL" THEN LineEnd(aRxBuffer') /\ UNCHANGED longest
     ELSE /\ current' = Append(current, b)
          /\ longest' = IF Len(current) + 1 > longest THEN Len(current) + 1 ELSE longest
          /\ UNCHANGED <<pRxMessageLineStartPoint, memory, GPS_data, resolved_GPS_data_count,
                         last, lines>>
  /\ bufferPoint' = (bufferPoint + 1) % RXBUFFERSIZE

NmeaNext == \E b \in Byte : HAL_UART5_RxCpltCallback(b)
NmeaSpec == NmeaInit /\ [][NmeaNext]_nmeaVars

-----------------------------------------------------------------------------
\* The parser is given the last line that was not empty, however the ring
\* wrapped; of a line longer than the ring, the bytes that are not overwritten
\* yet (uart5.c:183-198).
LineExact ==
  LET end == Len(last) % RXBUFFERSIZE
  IN  lines > 0 =>
        /\ \A n \in 1 .. end : n <= LINE => memory[n - 1] = last[Len(last) - end + n]
        /\ end < LINE => memory[end] = "NUL"

\* The fix is from the last line that begins a GGA sentence, as long as no line
\* was so long that its copy ran over aRxGGALine and the gap into GPS_data
\* (uart5.c:185,190-191).
FixIsNewest ==
  longest + 1 <= LINE + LINE + Gap =>
    /\ GPS_data # -1
    /\ lines > 0 => (last[1] = "GGA" <=> GPS_data = lines)
    /\ GPS_data > 0 <=> resolved_GPS_data_count > 0

\* Lines, parser and fix belong together.
LinesCorrect == LineExact /\ FixIsNewest
=============================================================================
