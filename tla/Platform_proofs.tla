-------------------------- MODULE Platform_proofs ---------------------------
(***************************************************************************)
(* Theorems about the small parts: the ring of iot_platform.c for every    *)
(* size, word and length of an answer, the lines of uart5.c for every size *)
(* of the ring and of a line, the timers of iot_timer.c for every width of *)
(* the clock, the commands of lm61.c for any number of them (their answers *)
(* and that each call ends), the remaining length of an MQTT packet for    *)
(* every base, width and length, the list of iot_list.c for any number of  *)
(* nodes; and the types of all of them in MC_Platform, which runs them.    *)
(***************************************************************************)
EXTENDS MC_Platform, CloudConnect_proofs, FiniteSetTheorems,
        SequenceTheorems, WellFoundedInduction, TLAPS

-----------------------------------------------------------------------------
(* Sequences and remainders *)

\* A function on 1 .. n is a sequence.
LEMMA FunIsSeq ==
  ASSUME NEW T, NEW n \in Nat, NEW f \in [1 .. n -> T]
  PROVE  f \in Seq(T) /\ Len(f) = n
OBVIOUS

LEMMA RemainderSmall == ASSUME NEW a \in Int, NEW b \in Int, 0 <= a, a < b PROVE a % b = a
  OBVIOUS
LEMMA RemainderSelf == ASSUME NEW b \in Int, 0 < b PROVE b % b = 0
  OBVIOUS
LEMMA RemainderMinus ==
  ASSUME NEW a \in Int, NEW b \in Int, 0 < a, a < b PROVE (0 - a) % b = b - a
  OBVIOUS
LEMMA RemainderRange == ASSUME NEW a \in Int, NEW b \in Int, 0 < b PROVE a % b \in 0 .. b - 1
  OBVIOUS
LEMMA RemainderPast ==
  ASSUME NEW a \in Int, NEW b \in Int, 0 < b, b <= a, a < 2 * b PROVE a % b = a - b
  OBVIOUS
LEMMA RemainderBelow ==
  ASSUME NEW a \in Int, NEW b \in Int, 0 < b, 0 - b <= a, a < 0 PROVE a % b = a + b
  OBVIOUS

\* Division with remainder is unique, and the remainder of the next number.
LEMMA TimesGrows == ASSUME NEW x \in Int, NEW b \in Int, 0 < b, 0 < x PROVE b * x >= b
<1>1. b * (x - 1) >= 0
  OBVIOUS
<1>2. QED
  BY <1>1

LEMMA DivMod ==
  ASSUME NEW a \in Int, NEW b \in Int, 0 < b
  PROVE  a = b * (a \div b) + (a % b) /\ a \div b \in Int /\ a % b \in 0 .. b - 1
  OBVIOUS

LEMMA RemainderUnique ==
  ASSUME NEW a \in Int, NEW b \in Int, 0 < b, NEW q \in Int, NEW r \in 0 .. b - 1, a = b * q + r
  PROVE a % b = r
<1> DEFINE p == a \div b
           s == a % b
<1>1. a = b * p + s /\ p \in Int /\ s \in 0 .. b - 1
  BY DivMod
<1> HIDE DEF p, s
<1>2. b * (p - q) = r - s
  BY <1>1
<1>3. b * (q - p) = s - r
  BY <1>1
<1>4. ~ (p > q)
  <2> SUFFICES ASSUME p > q PROVE FALSE
    OBVIOUS
  <2>1. b * (p - q) >= b
    BY <1>1, TimesGrows
  <2>2. QED
    BY <1>1, <1>2, <2>1
<1>5. ~ (q > p)
  <2> SUFFICES ASSUME q > p PROVE FALSE
    OBVIOUS
  <2>1. b * (q - p) >= b
    BY <1>1, TimesGrows
  <2>2. QED
    BY <1>1, <1>3, <2>1
<1>6. p = q
  BY <1>1, <1>4, <1>5
<1>7. r = s
  BY <1>1, <1>6
<1>8. QED
  BY <1>7 DEF s

LEMMA RemainderNext ==
  ASSUME NEW L \in Nat, NEW R \in Nat \ {0}
  PROVE  (L + 1) % R = IF (L % R) + 1 = R THEN 0 ELSE (L % R) + 1
<1> DEFINE q == L \div R
           s == L % R
<1>1. L = R * q + s /\ q \in Int /\ s \in 0 .. R - 1
  BY DivMod
<1> HIDE DEF q, s
<1>2. CASE s + 1 = R
  <2>1. L + 1 = R * (q + 1) + 0
    BY <1>1, <1>2
  <2>2. (L + 1) % R = 0
    BY <1>1, <2>1, RemainderUnique
  <2>3. QED
    BY <1>2, <2>2 DEF s
<1>3. CASE s + 1 # R
  <2>1. L + 1 = R * q + (s + 1) /\ s + 1 \in 0 .. R - 1
    BY <1>1, <1>3
  <2>2. (L + 1) % R = s + 1
    BY <1>1, <2>1, RemainderUnique
  <2>3. QED
    BY <1>3, <2>2 DEF s
<1>4. QED
  BY <1>2, <1>3 DEF s

-----------------------------------------------------------------------------
(* TcpRing *)

\* A set of numbers has a least element.
LEMMA MinIsLeast ==
  ASSUME NEW S, S \subseteq Nat, S # {}
  PROVE  Min(S) \in S /\ \A y \in S : Min(S) <= y
<1>1. IsWellFoundedOn(OpToRel(<, Nat), Nat)
  BY NatLessThanWellFounded
<1>2. PICK x \in S : \A y \in S : ~ (<<y, x>> \in OpToRel(<, Nat))
  BY <1>1, WFMin
<1>3. \A y \in S : x <= y
  <2> TAKE y \in S
  <2>1. ~ (<<y, x>> \in OpToRel(<, Nat))
    BY <1>2
  <2>2. x \in Nat /\ y \in Nat
    OBVIOUS
  <2>3. ~ (y < x)
    BY <2>1, <2>2 DEF OpToRel
  <2>4. QED
    BY <2>2, <2>3
<1>4. QED
  BY <1>3 DEF Min

\* How far the ring has been read: there is no write index behind, a size of 0
\* comes from an answer that was too long, and then the reads run on.
Place ==
  /\ tail = 0 /\ Len(got) <= MaxGot
  /\ size = 0 /\ ~long => head = 0

\* As long as nothing went wrong: the ring ends with the byte that came last.
Queue ==
  ~long /\ ~short =>
    /\ size <= arrived
    /\ \A i \in 0 .. size - 1 : data[i] = arrived - size + i + 1

RingInv == RingTypeOK /\ Place /\ RingExact /\ Queue

\* The remainder as the processor computes it.
LEMMA ModRange ==
  ASSUME NEW a \in Nat, NEW s \in Nat
  PROVE  /\ s > 0 => Mod(a, s) \in 0 .. s - 1
         /\ s = 0 => Mod(a, s) = a
         /\ s > 0 /\ a < s => Mod(a, s) = a
         /\ s > 0 /\ a = s => Mod(a, s) = 0
<1>1. CASE s = 0
  BY <1>1 DEF Mod
<1>2. CASE s > 0
  <2>1. Mod(a, s) = a % s
    BY <1>2 DEF Mod
  <2>2. a % s \in 0 .. s - 1
    BY <1>2, RemainderRange
  <2>3. a < s => a % s = a
    BY <1>2, RemainderSmall
  <2>4. a = s => a % s = 0
    BY <1>2, RemainderSelf
  <2>5. QED
    BY <1>2, <2>1, <2>2, <2>3, <2>4
<1>3. QED
  BY <1>1, <1>2

\* What the used space is, in a ring of every size.
Used(s, h) == IF h = 0 THEN 0 ELSE IF s = 0 THEN Word - h ELSE s - h

LEMMA UsedSpace ==
  ASSUME NEW s \in 0 .. MQTT_RING_BUFFER_LEN, NEW h \in 0 .. Word - 1, s > 0 => h < s
  PROVE  Mod((((s - h) % Word) + 0) % Word, s) = Used(s, h)
<1>1. s \in Nat /\ s <= MQTT_RING_BUFFER_LEN /\ h \in Nat /\ h < Word
  BY RingAssumption
<1>2. Word \in Nat /\ 2 * MQTT_RING_BUFFER_LEN < Word /\ MQTT_RING_BUFFER_LEN \in Nat
  BY RingAssumption
<1>3. s < Word
  BY <1>1, <1>2
<1> DEFINE d == (s - h) % Word
<1>4. d = IF s = 0 /\ h > 0 THEN Word - h ELSE s - h
  <2>1. CASE s = 0 /\ h > 0
    <3>1. (0 - h) % Word = Word - h
      BY <1>1, <1>2, <2>1, RemainderMinus
    <3>2. QED
      BY <2>1, <3>1
  <2>2. CASE ~ (s = 0 /\ h > 0)
    <3>1. h <= s
      BY <1>1, <2>2
    <3>2. s - h \in Int /\ 0 <= s - h /\ s - h < Word
      BY <1>1, <1>2, <1>3, <3>1
    <3>3. QED
      BY <1>2, <2>2, <3>2, RemainderSmall
  <2>3. QED
    BY <2>1, <2>2
<1>5. d \in Nat /\ d < Word
  BY <1>1, <1>2, <1>3, <1>4
<1>6. (d + 0) % Word = d
  BY <1>2, <1>5, RemainderSmall
<1> HIDE DEF d
<1>7. ASSUME s = 0 PROVE Mod(d, s) = Used(s, h)
  <2>1. d = Used(s, h)
    BY <1>1, <1>4, <1>7 DEF Used
  <2>2. QED
    BY <1>1, <1>5, <1>7, <2>1, ModRange
<1>8. ASSUME s > 0, h = 0 PROVE Mod(d, s) = Used(s, h)
  <2>1. d = s
    BY <1>1, <1>4, <1>8
  <2>2. QED
    BY <1>1, <1>8, <2>1, ModRange DEF Used
<1>9. ASSUME s > 0, h > 0 PROVE Mod(d, s) = Used(s, h)
  <2>1. d < s /\ d = s - h
    BY <1>1, <1>4, <1>9
  <2>2. QED
    BY <1>1, <1>5, <1>9, <2>1, ModRange DEF Used
<1>10. Mod(d, s) = Used(s, h)
  BY <1>1, <1>7, <1>8, <1>9
<1>11. QED
  BY <1>6, <1>10 DEF d

\* In a ring that is not empty, and in an empty one at its start, a read stays
\* inside, even of more than there is.
LEMMA Inside ==
  ASSUME NEW s \in 0 .. MQTT_RING_BUFFER_LEN, NEW h \in Nat, s > 0 => h < s, s = 0 => h = 0,
         NEW n \in 0 .. MQTT_RING_BUFFER_LEN
  PROVE  /\ \A i \in 1 .. n : /\ RingIndices(s, h, n)[i] \in Index
                              /\ i <= s - h => RingIndices(s, h, n)[i] = h + i - 1
         /\ Range(RingIndices(s, h, n)) \subseteq Index
<1>1. /\ s \in Nat /\ s <= MQTT_RING_BUFFER_LEN /\ MQTT_RING_BUFFER_LEN \in Nat /\ Word \in Nat
      /\ 2 * MQTT_RING_BUFFER_LEN < Word /\ n \in Nat /\ n <= MQTT_RING_BUFFER_LEN
  BY RingAssumption
<1>2. s - h \in Nat /\ s - h < Word
  BY <1>1
<1>3. (s - h) % Word = s - h
  BY <1>1, <1>2, RemainderSmall
<1>4. RingIndices(s, h, n) = [i \in 1 .. n |-> IF i <= s - h THEN h + i - 1 ELSE i - 1 - (s - h)]
  BY <1>3 DEF RingIndices
<1>5. ASSUME NEW i \in 1 .. n
      PROVE  /\ RingIndices(s, h, n)[i] \in Index
             /\ i <= s - h => RingIndices(s, h, n)[i] = h + i - 1
  BY <1>1, <1>2, <1>4 DEF Index
<1>6. Range(RingIndices(s, h, n)) \subseteq Index
  BY <1>4, <1>5 DEF Range
<1>7. QED
  BY <1>5, <1>6

\* What a read does, be the ring as it may.
LEMMA ReadGives ==
  ASSUME NEW s \in 0 .. MQTT_RING_BUFFER_LEN, NEW h \in 0 .. Word - 1,
         NEW d \in [Index -> 0 .. MaxBytes], NEW n \in Nat,
         got \in Seq(0 .. MaxBytes), outside \in BOOLEAN, iot_ring_buffer_read(s, h, d, n)
  PROVE  /\ got' \in Seq(0 .. MaxBytes) /\ Len(got') = Len(got) + n /\ outside' \in BOOLEAN
         /\ \A i \in 1 .. Len(got) : got'[i] = got[i]
         /\ \A i \in 1 .. n : RingIndices(s, h, n)[i] \in Index =>
                                got'[Len(got) + i] = d[RingIndices(s, h, n)[i]]
         /\ head' \in 0 .. Word - 1 /\ (s > 0 => head' < s)
<1> DEFINE from == RingIndices(s, h, n)
           new == [i \in 1 .. n |-> IF from[i] \in Index THEN d[from[i]] ELSE 0]
<1>1. /\ got' = got \o new /\ outside' = (outside \/ ~(Range(from) \subseteq Index))
      /\ head' = Mod((h + n) % Word, s)
  BY DEF iot_ring_buffer_read
<1>2. MaxBytes \in Nat /\ Word \in Nat /\ MQTT_RING_BUFFER_LEN \in Nat /\ 2 * MQTT_RING_BUFFER_LEN < Word
  BY RingAssumption
<1>3. \A i \in 1 .. n : new[i] \in 0 .. MaxBytes
  BY <1>2
<1>4. new \in Seq(0 .. MaxBytes) /\ Len(new) = n
  BY <1>3
<1>5. \A i \in 1 .. n : from[i] \in Index => new[i] = d[from[i]]
  OBVIOUS
<1>6. (h + n) % Word \in 0 .. Word - 1
  BY <1>2, RemainderRange
<1>7. head' \in 0 .. Word - 1 /\ (s > 0 => head' < s)
  <2>1. (h + n) % Word \in Nat /\ s \in Nat /\ s < Word
    BY <1>2, <1>6
  <2>2. CASE s = 0
    BY <1>1, <1>6, <2>1, <2>2, ModRange
  <2>3. CASE s > 0
    <3>1. Mod((h + n) % Word, s) \in 0 .. s - 1
      BY <2>1, <2>3, ModRange
    <3>2. QED
      BY <1>1, <1>2, <2>1, <3>1
  <2>4. QED
    BY <2>1, <2>2, <2>3
<1> HIDE DEF new, from
<1>8. got' \in Seq(0 .. MaxBytes) /\ Len(got') = Len(got) + n /\ outside' \in BOOLEAN
  BY <1>1, <1>4, ConcatProperties
<1>9. \A i \in 1 .. Len(got) : got'[i] = got[i]
  BY <1>1, <1>4
<1>10. \A i \in 1 .. n : got'[Len(got) + i] = new[i]
  BY <1>1, <1>4
<1>11. QED
  BY <1>1, <1>5, <1>7, <1>8, <1>9, <1>10 DEF from

LEMMA MinOfTwo ==
  ASSUME NEW a \in Nat, NEW b \in Nat
  PROVE  Min({a, b}) = IF a <= b THEN a ELSE b
<1>1. {a, b} \subseteq Nat /\ {a, b} # {}
  OBVIOUS
<1>2. Min({a, b}) \in {a, b} /\ Min({a, b}) <= a /\ Min({a, b}) <= b
  BY <1>1, MinIsLeast
<1>3. QED
  BY <1>2

\* An answer is measured to be as long as it is if its digits reach no further
\* than its text starts, and to be shorter if they do, whatever its bytes are.
LEMMA Measured ==
  ASSUME NEW n \in 1 .. MaxChunk
  PROVE  /\ SocketReadLen(n) \in 0 .. n
         /\ SocketReadLen(n) = n <=> 2 * n <= TextStart
<1> DEFINE Ends == {j \in Zeroed(n) : j >= TextStart}
           EndsAt == IF n >= TextStart THEN n ELSE TextStart
<1>1. TextStart \in Nat /\ n \in Nat /\ n > 0
  BY RingAssumption
<1>2. SocketReadLen(n) = IF Ends = {} THEN n ELSE (Min(Ends) - TextStart) \div 2
  BY DEF SocketReadLen
<1>3. CASE 2 * n <= TextStart
  <2>1. Ends = {}
    BY <1>1, <1>3 DEF Zeroed
  <2>2. QED
    BY <1>1, <1>2, <1>3, <2>1
<1>4. CASE ~(2 * n <= TextStart)
  <2>1. Ends \subseteq Nat /\ EndsAt \in Ends
    BY <1>1, <1>4 DEF Zeroed
  <2>2. Min(Ends) \in Ends /\ Min(Ends) <= EndsAt
    BY <2>1, MinIsLeast
  <2>3. Min(Ends) \in Nat /\ TextStart <= Min(Ends)
    BY <1>1, <2>2 DEF Zeroed
  <2>4. Ends # {}
    BY <2>1
  <2> HIDE DEF Ends
  <2>5. Min(Ends) - TextStart \in 0 .. n
    BY <1>1, <2>2, <2>3
  <2>6. (Min(Ends) - TextStart) \div 2 \in 0 .. n - 1
    BY <1>1, <2>5
  <2>7. QED
    BY <1>1, <1>2, <1>4, <2>4, <2>6
<1>5. QED
  BY <1>3, <1>4

LEMMA ReadRingKeeps ==
  ASSUME RingInv, NEW want \in Lens, Len(got) + want <= MaxGot, ReadRing(want)
  PROVE  RingInv' /\ Len(got') <= Len(got) + want
<1> DEFINE used == iot_ring_buffer_used_space
           n == Min({want, used})
           from == RingIndices(size, head, n)
<1>1. /\ used # 0 /\ iot_ring_buffer_read(size, head, data, n)
      /\ UNCHANGED <<size, tail, data, zeros, arrived, long, short>>
  BY DEF ReadRing
<1>2. /\ RingTypeOK /\ Place /\ RingExact /\ Queue
      /\ size \in 0 .. MQTT_RING_BUFFER_LEN /\ head \in 0 .. Word - 1 /\ head \in Nat
      /\ size \in Nat /\ (size > 0 => head < size)
      /\ data \in [Index -> 0 .. MaxBytes] /\ got \in Seq(0 .. MaxBytes)
      /\ arrived \in 0 .. MaxBytes /\ {long, short, outside} \subseteq BOOLEAN
  BY RingAssumption DEF RingInv, RingTypeOK
<1>3. outside \in BOOLEAN
  BY <1>2
<1>4. MQTT_RING_BUFFER_LEN \in Nat /\ want \in Nat /\ 0 < want /\ want <= MQTT_RING_BUFFER_LEN
      /\ Word \in Nat /\ MaxBytes \in Nat /\ MaxGot \in Nat
  BY RingAssumption
<1>5. used = Used(size, head)
  BY <1>2, UsedSpace DEF iot_ring_buffer_used_space, Place
<1>6. head > 0 /\ used \in Nat /\ used > 0
  BY <1>1, <1>2, <1>4, <1>5 DEF Used
<1>7. n \in Nat /\ 0 < n /\ n <= want /\ n <= used
  BY <1>4, <1>6, MinOfTwo
<1> HIDE DEF n, used
<1>8. /\ got' \in Seq(0 .. MaxBytes) /\ Len(got') = Len(got) + n /\ outside' \in BOOLEAN
      /\ \A i \in 1 .. Len(got) : got'[i] = got[i]
      /\ \A i \in 1 .. n : from[i] \in Index => got'[Len(got) + i] = data[from[i]]
      /\ head' \in 0 .. Word - 1 /\ (size > 0 => head' < size)
  BY <1>1, <1>2, <1>3, <1>7, ReadGives
<1>9. Len(got) \in Nat /\ Len(got') <= MaxGot /\ Len(got') <= Len(got) + want
  BY <1>2, <1>4, <1>7, <1>8
<1>10. {long, short, outside}' \subseteq BOOLEAN
  BY <1>1, <1>2, <1>8
<1>11. RingTypeOK'
  BY <1>1, <1>8, <1>10, <1>2 DEF RingTypeOK
<1>12. Place'
  <2>1. size = 0 => long
    BY <1>2, <1>6 DEF Place, RingTypeOK
  <2>2. QED
    BY <1>1, <1>2, <1>9, <2>1 DEF Place
<1>13. Queue'
  BY <1>1, <1>2 DEF Queue
<1>14. RingExact'
  <2> SUFFICES ASSUME ~long, ~short
               PROVE  /\ got' = [i \in 1 .. Len(got') |-> i]
                      /\ iot_ring_buffer_used_space' = arrived - Len(got')
    BY <1>1 DEF RingExact
  <2>1. /\ got = [i \in 1 .. Len(got) |-> i] /\ used = arrived - Len(got)
        /\ size <= arrived /\ \A i \in 0 .. size - 1 : data[i] = arrived - size + i + 1
    BY <1>2 DEF RingExact, Queue, used
  <2>2. size > 0
    BY <1>2, <1>6 DEF Place
  <2>3. used = size - head /\ head < size /\ n <= size - head
    BY <1>2, <1>5, <1>6, <1>7, <2>2 DEF Used
  <2>4. n \in 0 .. MQTT_RING_BUFFER_LEN
    BY <1>4, <1>7
  <2>5. \A i \in 1 .. n : from[i] = head + i - 1 /\ from[i] \in Index
    BY <1>2, <1>7, <2>2, <2>3, <2>4, Inside
  <2> HIDE DEF from
  <2>6. ASSUME NEW i \in 1 .. n PROVE got'[Len(got) + i] = Len(got) + i
    <3>1. got'[Len(got) + i] = data[head + i - 1]
      BY <1>8, <2>5
    <3>2. head + i - 1 \in 0 .. size - 1
      BY <1>2, <1>7, <2>3
    <3>3. data[head + i - 1] = arrived - size + (head + i - 1) + 1
      BY <2>1, <3>2
    <3>4. Len(got) = arrived - size + head
      <4>1. used = arrived - Len(got) /\ used = size - head
        BY <2>1, <2>3
      <4>2. used \in Nat /\ arrived \in Nat /\ Len(got) \in Nat /\ size \in Nat /\ head \in Nat
        BY <1>2, <1>4, <1>6, <1>9
      <4>3. QED
        BY <4>1, <4>2
    <3>5. QED
      BY <1>2, <1>9, <3>1, <3>3, <3>4
  <2>7. ASSUME NEW i \in 1 .. Len(got') PROVE got'[i] = i
    <3>1. CASE i <= Len(got)
      BY <1>8, <1>9, <2>1, <3>1
    <3>2. CASE i > Len(got)
      <4>1. i - Len(got) \in 1 .. n
        BY <1>7, <1>8, <1>9, <3>2
      <4>2. got'[Len(got) + (i - Len(got))] = Len(got) + (i - Len(got))
        BY <2>6, <4>1
      <4>3. Len(got) + (i - Len(got)) = i
        BY <1>9
      <4>4. QED
        BY <4>2, <4>3
    <3>3. QED
      BY <1>9, <3>1, <3>2
  <2>8. got' = [i \in 1 .. Len(got') |-> i]
    BY <1>8, <2>7
  <2>9. head' = Mod((head + n) % Word, size)
    BY <1>1 DEF iot_ring_buffer_read
  <2>10. head' = IF head + n = size THEN 0 ELSE head + n
    <3>1. head + n \in Nat /\ head + n <= size /\ size < Word
            /\ 0 <= head + n /\ head + n < Word
      BY <1>2, <1>4, <1>7, <2>3, RingAssumption
    <3>2. (head + n) % Word = head + n
      BY <1>4, <3>1, RemainderSmall
    <3>3. QED
      BY <1>2, <2>2, <2>9, <3>1, <3>2, ModRange, SMTT(30)
  <2>11. iot_ring_buffer_used_space' = Used(size', head')
    <3>1. /\ size' \in 0 .. MQTT_RING_BUFFER_LEN /\ head' \in 0 .. Word - 1 /\ tail' = 0
          /\ size' > 0 => head' < size'
      BY <1>1, <1>2, <1>8, <1>12 DEF Place
    <3>2. Mod((((size' - head') % Word) + 0) % Word, size') = Used(size', head')
      BY <3>1, UsedSpace
    <3>3. QED
      BY <3>1, <3>2 DEF iot_ring_buffer_used_space
  <2>12. iot_ring_buffer_used_space' = size - (head + n)
    BY <1>1, <1>2, <1>6, <1>7, <2>2, <2>3, <2>10, <2>11 DEF Used
  <2>13. size - (head + n) = arrived - Len(got')
    <3>1. used = arrived - Len(got) /\ used = size - head /\ Len(got') = Len(got) + n
      BY <1>8, <2>1, <2>3
    <3>2. arrived \in Nat /\ Len(got) \in Nat /\ size \in Nat /\ head \in Nat /\ n \in Nat
      BY <1>2, <1>4, <1>7, <1>9
    <3>3. QED
      BY <3>1, <3>2
  <2>14. QED
    BY <2>8, <2>12, <2>13
<1>15. QED
  BY <1>9, <1>11, <1>12, <1>13, <1>14 DEF RingInv

LEMMA ReadModemKeeps ==
  ASSUME RingInv, NEW want \in Lens, Len(got) + want <= MaxGot, ReadModem(want)
  PROVE  /\ RingInv' /\ Len(got') = Len(got) + want /\ outside' = outside
         /\ iot_ring_buffer_used_space = 0
         /\ size' = 0 => long' /\ head' = want
<1>1. PICK n \in 1 .. MaxChunk :
        LET len1 == SocketReadLen(n)
            filled == [i \in Index |-> IF i < len1 THEN arrived + i + 1 ELSE data[i]]
        IN  /\ arrived + n <= MaxBytes
            /\ arrived' = arrived + n /\ data' = filled
            /\ size' = len1 /\ tail' = 0
            /\ iot_ring_buffer_read(len1, 0, filled, want)
            /\ long' = (long \/ 2 * n > TextStart)
            /\ short' = (short \/ len1 < want)
  BY DEF ReadModem
<1> DEFINE len1 == SocketReadLen(n)
           filled == [i \in Index |-> IF i < len1 THEN arrived + i + 1 ELSE data[i]]
<1>2. /\ arrived + n <= MaxBytes /\ arrived' = arrived + n /\ data' = filled
      /\ size' = len1 /\ tail' = 0 /\ iot_ring_buffer_read(len1, 0, filled, want)
      /\ long' = (long \/ 2 * n > TextStart) /\ short' = (short \/ len1 < want)
      /\ iot_ring_buffer_used_space = 0 /\ zeros' = zeros
  BY <1>1 DEF ReadModem
<1>3. len1 \in 0 .. n /\ (len1 = n <=> 2 * n <= TextStart) /\ TextStart \in Nat
  BY Measured, RingAssumption
<1>4. /\ MQTT_RING_BUFFER_LEN \in Nat /\ want \in Nat /\ 0 < want /\ want <= MQTT_RING_BUFFER_LEN
      /\ Word \in Nat /\ MaxBytes \in Nat /\ MaxGot \in Nat
      /\ MaxChunk <= MQTT_RING_BUFFER_LEN /\ 2 * MQTT_RING_BUFFER_LEN < Word
      /\ n \in Nat /\ 0 < n /\ n <= MaxChunk /\ MaxChunk \in Nat
  BY RingAssumption
<1>5. /\ RingTypeOK /\ Place /\ RingExact /\ Queue
      /\ data \in [Index -> 0 .. MaxBytes] /\ got \in Seq(0 .. MaxBytes)
      /\ arrived \in Nat /\ zeros \subseteq 1 .. MaxBytes
      /\ long \in BOOLEAN /\ short \in BOOLEAN /\ outside \in BOOLEAN
  BY <1>4 DEF RingInv, RingTypeOK
<1> HIDE DEF len1
<1>6. /\ len1 \in 0 .. MQTT_RING_BUFFER_LEN /\ 0 \in 0 .. Word - 1 /\ len1 \in Nat /\ len1 <= n
      /\ len1 < Word
  BY <1>3, <1>4
<1>7. filled \in [Index -> 0 .. MaxBytes]
  <2> SUFFICES ASSUME NEW i \in Index
               PROVE  (IF i < len1 THEN arrived + i + 1 ELSE data[i]) \in 0 .. MaxBytes
    OBVIOUS
  <2>1. CASE i < len1
    <3>1. i \in Nat
      BY <1>4 DEF Index
    <3>2. arrived + i + 1 <= arrived + n
      BY <1>4, <1>5, <1>6, <2>1, <3>1
    <3>3. QED
      BY <1>2, <1>4, <1>5, <2>1, <3>1, <3>2
  <2>2. CASE ~(i < len1)
    BY <1>5, <2>2
  <2>3. QED
    BY <2>1, <2>2
<1> HIDE DEF filled
<1> DEFINE from == RingIndices(len1, 0, want)
<1>8. /\ got' \in Seq(0 .. MaxBytes) /\ Len(got') = Len(got) + want /\ outside' \in BOOLEAN
      /\ \A i \in 1 .. Len(got) : got'[i] = got[i]
      /\ \A i \in 1 .. want : from[i] \in Index => got'[Len(got) + i] = filled[from[i]]
      /\ head' \in 0 .. Word - 1 /\ (len1 > 0 => head' < len1)
  BY <1>2, <1>4, <1>5, <1>6, <1>7, ReadGives
<1>9. /\ \A i \in 1 .. want : from[i] \in Index /\ (i <= len1 => from[i] = i - 1)
      /\ Range(from) \subseteq Index
  <2>1. want \in 0 .. MQTT_RING_BUFFER_LEN /\ 0 \in Nat /\ (len1 > 0 => 0 < len1)
    BY <1>4
  <2>2. /\ \A i \in 1 .. want : /\ from[i] \in Index
                                /\ i <= len1 - 0 => from[i] = 0 + i - 1
        /\ Range(from) \subseteq Index
    BY <1>6, <2>1, Inside
  <2> HIDE DEF from
  <2>3. QED
    BY <1>6, <2>2
<1>10. outside' = outside
  BY <1>2, <1>5, <1>9 DEF iot_ring_buffer_read
<1>11. head' = Mod(want % Word, len1) /\ want % Word = want
  <2>1. (0 + want) % Word = want /\ want % Word = want
    BY <1>4, RemainderSmall
  <2>2. head' = Mod((0 + want) % Word, len1)
    BY <1>2 DEF iot_ring_buffer_read
  <2>3. QED
    BY <2>1, <2>2
<1> HIDE DEF from
<1>12. Len(got) \in Nat /\ Len(got') <= MaxGot
  BY <1>4, <1>5, <1>8
<1>13. size' = 0 => long' /\ head' = want
  <2> SUFFICES ASSUME size' = 0 PROVE long' /\ head' = want
    OBVIOUS
  <2>1. len1 = 0
    BY <1>2
  <2>2. 2 * n > TextStart
    BY <1>3, <1>4, <2>1
  <2>3. long'
    BY <1>2, <2>2
  <2>4. QED
    BY <1>4, <1>11, <2>1, <2>3, ModRange
<1>14. {long, short, outside}' \subseteq BOOLEAN
  BY <1>2, <1>5, <1>8
<1>15. RingTypeOK'
  <2>1. size' \in 0 .. MQTT_RING_BUFFER_LEN /\ tail' \in 0 .. MQTT_RING_BUFFER_LEN
    BY <1>2, <1>4, <1>6
  <2>2. arrived' \in 0 .. MaxBytes
    BY <1>2, <1>4, <1>5
  <2>3. data' \in [Index -> 0 .. MaxBytes] /\ head' \in 0 .. Word - 1 /\ (size' > 0 => head' < size')
    BY <1>2, <1>7, <1>8
  <2>4. QED
    BY <1>2, <1>5, <1>8, <1>14, <2>1, <2>2, <2>3 DEF RingTypeOK
<1>16. Place'
  BY <1>2, <1>12, <1>13 DEF Place
<1>17. ASSUME ~long', ~short' PROVE ~long /\ ~short /\ len1 = n /\ want <= n
  <2>1. ~long /\ ~(2 * n > TextStart)
    BY <1>2, <1>17
  <2>2. len1 = n
    BY <1>3, <1>4, <2>1
  <2>3. ~short /\ ~(len1 < want)
    BY <1>2, <1>17
  <2>4. QED
    BY <1>4, <1>6, <2>1, <2>2, <2>3
<1>18. Queue'
  <2> SUFFICES ASSUME ~long', ~short'
               PROVE  /\ size' <= arrived'
                      /\ \A i \in 0 .. size' - 1 : data'[i] = arrived' - size' + i + 1
    BY DEF Queue
  <2>1. size' = n /\ arrived' = arrived + n /\ len1 = n
    BY <1>2, <1>17
  <2>2. ASSUME NEW i \in 0 .. n - 1 PROVE data'[i] = (arrived + n) - n + i + 1
    <3>1. i \in Index /\ i < len1
      BY <1>4, <2>1 DEF Index
    <3>2. data'[i] = arrived + i + 1
      BY <1>2, <3>1 DEF filled
    <3>3. QED
      BY <1>4, <1>5, <3>2
  <2>3. QED
    BY <1>4, <1>5, <2>1, <2>2
<1>19. RingExact'
  <2> SUFFICES ASSUME ~long', ~short'
               PROVE  /\ got' = [i \in 1 .. Len(got') |-> i]
                      /\ iot_ring_buffer_used_space' = arrived' - Len(got')
    BY DEF RingExact
  <2>1. ~long /\ ~short /\ len1 = n /\ want <= n
    BY <1>17
  <2>2. got = [i \in 1 .. Len(got) |-> i] /\ 0 = arrived - Len(got)
    BY <1>2, <1>5, <2>1 DEF RingExact
  <2>3. arrived = Len(got)
    <3>1. arrived \in Nat /\ Len(got) \in Nat /\ 0 = arrived - Len(got)
      BY <1>5, <1>12, <2>2
    <3>2. QED
      BY <3>1
  <2>4. ASSUME NEW i \in 1 .. want PROVE got'[Len(got) + i] = Len(got) + i
    <3>1. i - 1 < len1 /\ i <= len1
      BY <1>4, <1>6, <2>1
    <3>2. from[i] = i - 1 /\ i - 1 \in Index
      BY <1>9, <3>1
    <3>3. got'[Len(got) + i] = filled[i - 1]
      BY <1>8, <3>2
    <3>4. filled[i - 1] = arrived + (i - 1) + 1
      BY <3>1, <3>2 DEF filled
    <3>5. QED
      BY <1>12, <2>3, <3>3, <3>4
  <2>5. ASSUME NEW i \in 1 .. Len(got') PROVE got'[i] = i
    <3>1. CASE i <= Len(got)
      BY <1>8, <1>12, <2>2, <3>1
    <3>2. CASE i > Len(got)
      <4>1. i - Len(got) \in 1 .. want
        BY <1>4, <1>8, <1>12, <3>2, SMTT(30)
      <4>2. got'[Len(got) + (i - Len(got))] = Len(got) + (i - Len(got))
        BY <2>4, <4>1
      <4>3. Len(got) + (i - Len(got)) = i
        BY <1>12
      <4>4. QED
        BY <4>2, <4>3
    <3>3. QED
      BY <1>12, <3>1, <3>2
  <2>6. got' = [i \in 1 .. Len(got') |-> i]
    BY <1>8, <2>5
  <2>7. head' = IF want = n THEN 0 ELSE want
    <3>1. Mod(want, n) = IF want = n THEN 0 ELSE want
      <4>1. CASE want = n
        BY <1>4, <4>1, ModRange
      <4>2. CASE want # n
        <5>1. want < n
          BY <1>4, <2>1, <4>2
        <5>2. Mod(want, n) = want
          BY <1>4, <5>1, ModRange
        <5>3. QED
          BY <4>2, <5>2
      <4>3. QED
        BY <4>1, <4>2
    <3>2. head' = Mod(want, n)
      BY <1>11, <2>1
    <3>3. QED
      BY <3>1, <3>2
  <2>8. iot_ring_buffer_used_space' = Used(size', head')
    <3>1. size' \in 0 .. MQTT_RING_BUFFER_LEN /\ head' \in 0 .. Word - 1 /\ tail' = 0
      BY <1>2, <1>6, <1>8
    <3>2. size' > 0 => head' < size'
      BY <1>2, <1>8
    <3>3. Mod((((size' - head') % Word) + 0) % Word, size') = Used(size', head')
      BY <3>1, <3>2, UsedSpace
    <3>4. QED
      BY <3>1, <3>3 DEF iot_ring_buffer_used_space
  <2>9. Used(size', head') = n - want
    BY <1>2, <1>4, <2>1, <2>7 DEF Used
  <2>10. n - want = arrived' - Len(got')
    BY <1>2, <1>4, <1>8, <1>12, <2>3
  <2>11. QED
    BY <2>6, <2>8, <2>9, <2>10
<1>20. RingInv'
  BY <1>15, <1>16, <1>18, <1>19 DEF RingInv
<1>21. QED
  BY <1>2, <1>8, <1>10, <1>13, <1>20

LEMMA RingInit_Inv == RingInit => RingInv
<1> SUFFICES ASSUME RingInit PROVE RingInv
  OBVIOUS
<1>1. /\ size = 0 /\ head = 0 /\ tail = 0 /\ data = [i \in Index |-> 0]
      /\ zeros \in SUBSET (1 .. MaxBytes)
      /\ arrived = 0 /\ got = <<>> /\ long = FALSE /\ short = FALSE /\ outside = FALSE
  BY DEF RingInit
<1>2. MQTT_RING_BUFFER_LEN \in Nat /\ Word \in Nat /\ Word > 0 /\ MaxBytes \in Nat /\ MaxGot \in Nat
  BY RingAssumption
<1>3. got \in Seq(0 .. MaxBytes) /\ Len(got) = 0
  BY <1>1
<1>4. RingTypeOK
  <2>1. size \in 0 .. MQTT_RING_BUFFER_LEN /\ tail \in 0 .. MQTT_RING_BUFFER_LEN
        /\ head \in 0 .. Word - 1 /\ ~(size > 0) /\ arrived \in 0 .. MaxBytes
    BY <1>1, <1>2
  <2>2. data \in [Index -> 0 .. MaxBytes]
    BY <1>1, <1>2
  <2>3. {long, short, outside} \subseteq BOOLEAN
    BY <1>1
  <2>4. QED
    BY <1>1, <1>3, <2>1, <2>2, <2>3 DEF RingTypeOK
<1>5. iot_ring_buffer_used_space = 0
  <2>1. Mod((((0 - 0) % Word) + 0) % Word, 0) = Used(0, 0)
    BY <1>2, UsedSpace
  <2>2. QED
    BY <1>1, <2>1 DEF iot_ring_buffer_used_space, Used
<1>6. got = [i \in 1 .. Len(got) |-> i]
  BY <1>1, <1>3
<1>7. RingExact
  <2>1. arrived = 0 /\ Len(got) = 0
    BY <1>1, <1>3
  <2>2. arrived - Len(got) = 0
    BY <2>1
  <2>3. QED
    BY <1>5, <1>6, <2>2 DEF RingExact
<1>8. QED
  BY <1>1, <1>2, <1>3, <1>4, <1>7 DEF RingInv, Place, Queue

LEMMA RingInvariant == RingSpec => []RingInv
<1>1. RingInv /\ [RingNext]_ringVars => RingInv'
  <2> SUFFICES ASSUME RingInv, [RingNext]_ringVars PROVE RingInv'
    OBVIOUS
  <2>1. CASE UNCHANGED ringVars
    BY <2>1 DEF ringVars, RingInv, RingTypeOK, Place, RingExact, Queue, iot_ring_buffer_used_space
  <2>2. QED
    BY <2>1, ReadRingKeeps, ReadModemKeeps DEF RingNext
<1>2. QED
  BY <1>1, RingInit_Inv, PTL DEF RingSpec

-----------------------------------------------------------------------------
\* The ring's indices and sizes have their types for every size of the ring and
\* every word, whatever the modem answers.
THEOREM RingTypeCorrect == RingSpec => []RingTypeOK
<1>1. RingInv => RingTypeOK
  BY DEF RingInv
<1>2. QED
  BY <1>1, RingInvariant, PTL

\* Up to the first answer whose digits reach further than its text starts, or read
\* of more than has come, the client has the broker's bytes, each once and in order,
\* and the ring has the others (iot_platform.c:138-161, lm61.c:234-236).
THEOREM RingIsExact == RingSpec => []RingExact
<1>1. RingInv => RingExact
  BY DEF RingInv
<1>2. QED
  BY <1>1, RingInvariant, PTL

\* Fewer bytes are read than uint32_t counts: after as many from outside the
\* ring, head is 0 again and the ring is filled anew.
FewerThanWord == MaxGot < Word

\* The reads that leave the ring
Away ==
  /\ size = 0 /\ long => 0 < head /\ head <= Len(got)
  /\ RunawayExplained

\* The ring is exact, and is left only after an answer that was measured to be
\* empty, as long as fewer bytes are read than uint32_t counts
\* (iot_platform.c:87-111, lm61.c:234-236).
THEOREM RingIsCorrect == ASSUME FewerThanWord PROVE RingSpec => []RingCorrect
<1>1. RingInit => Away
  BY DEF RingInit, Away, RunawayExplained
<1>2. RingInv /\ Away /\ [RingNext]_ringVars => Away'
  <2> SUFFICES ASSUME RingInv, Away, [RingNext]_ringVars PROVE Away'
    OBVIOUS
  <2>1. CASE UNCHANGED ringVars
    BY <2>1 DEF ringVars, Away, RunawayExplained
  <2> USE DEF FewerThanWord
  <2>2. /\ RingTypeOK /\ Place /\ size \in Nat /\ size <= MQTT_RING_BUFFER_LEN
        /\ size \in 0 .. MQTT_RING_BUFFER_LEN
        /\ head \in 0 .. Word - 1 /\ (size > 0 => head < size)
        /\ got \in Seq(0 .. MaxBytes) /\ Len(got) \in Nat /\ outside \in BOOLEAN /\ long \in BOOLEAN
    BY RingAssumption DEF RingInv, RingTypeOK
  <2>3. iot_ring_buffer_used_space = Used(size, head)
    BY <2>2, UsedSpace DEF iot_ring_buffer_used_space, Place
  <2>4. /\ MQTT_RING_BUFFER_LEN \in Nat /\ Word \in Nat /\ MaxGot \in Nat /\ MaxGot < Word
        /\ 2 * MQTT_RING_BUFFER_LEN < Word
    BY RingAssumption
  <2>5. ASSUME NEW want \in Lens, Len(got) + want <= MaxGot, ReadRing(want) PROVE Away'
    <3> DEFINE n == Min({want, iot_ring_buffer_used_space})
    <3>1. /\ iot_ring_buffer_used_space # 0 /\ iot_ring_buffer_read(size, head, data, n)
          /\ size' = size /\ long' = long /\ data' = data
      BY <2>5 DEF ReadRing
    <3>2. want \in Nat /\ want > 0 /\ want <= MQTT_RING_BUFFER_LEN
      BY <2>4, RingAssumption
    <3>3. head > 0 /\ Used(size, head) \in Nat /\ Used(size, head) > 0
      BY <2>2, <2>3, <2>4, <3>1 DEF Used
    <3>4. n \in Nat /\ 0 < n /\ n <= want /\ n <= Used(size, head)
      BY <2>3, <3>2, <3>3, MinOfTwo
    <3> HIDE DEF n
    <3>5. Len(got') = Len(got) + n
      BY <2>2, <3>1, <3>4, ReadGives DEF RingTypeOK
    <3>6. outside' = (outside \/ ~(Range(RingIndices(size, head, n)) \subseteq Index))
          /\ head' = Mod((head + n) % Word, size)
      BY <3>1 DEF iot_ring_buffer_read
    <3>7. CASE size > 0
      <4>1. n \in 0 .. MQTT_RING_BUFFER_LEN
        BY <2>4, <3>2, <3>4
      <4>2. Range(RingIndices(size, head, n)) \subseteq Index
        BY <2>2, <3>7, <4>1, Inside
      <4>3. outside' = outside
        BY <2>2, <3>6, <4>2
      <4>4. QED
        BY <2>2, <3>1, <3>7, <4>3 DEF Away, RunawayExplained
    <3>8. CASE size = 0
      <4>1. long /\ head <= Len(got)
        BY <3>3, <3>8, <2>2 DEF Away, Place
      <4>2. head + n \in Nat /\ head + n <= Len(got') /\ head + n < Word
        BY <2>2, <2>4, <2>5, <3>2, <3>4, <3>5, <4>1
      <4>3. (head + n) % Word = head + n
        BY <2>4, <4>2, RemainderSmall
      <4>4. head' = head + n
        BY <3>6, <3>8, <4>2, <4>3, ModRange
      <4>5. 0 < head' /\ head' <= Len(got')
        BY <2>2, <3>3, <3>4, <4>2, <4>4
      <4>6. QED
        BY <3>1, <3>8, <4>1, <4>5 DEF Away, RunawayExplained
    <3>9. QED
      BY <2>2, <3>7, <3>8
  <2>6. ASSUME NEW want \in Lens, Len(got) + want <= MaxGot, ReadModem(want) PROVE Away'
    <3>1. /\ Len(got') = Len(got) + want /\ outside' = outside
          /\ iot_ring_buffer_used_space = 0 /\ (size' = 0 => long' /\ head' = want)
      BY <2>6, ReadModemKeeps
    <3>2. want \in Nat /\ want > 0
      BY <2>4, RingAssumption
    <3>3. head = 0
      BY <2>2, <2>3, <2>4, <3>1 DEF Used
    <3>4. ~outside
      BY <2>2, <3>3 DEF Away, RunawayExplained
    <3>5. QED
      BY <2>2, <3>1, <3>2, <3>4 DEF Away, RunawayExplained
  <2>7. QED
    BY <2>1, <2>5, <2>6 DEF RingNext
<1>3. RingInv /\ Away => RingCorrect
  BY DEF RingInv, Away, RingCorrect
<1>4. QED
  BY <1>1, <1>2, <1>3, RingInvariant, PTL DEF RingSpec

-----------------------------------------------------------------------------
(* NmeaLine *)

\* Places in the ring: the n-th of a line that starts at s, and their number up
\* to p
At(s, n) == IF s + n - 1 < RXBUFFERSIZE THEN s + n - 1 ELSE s + n - 1 - RXBUFFERSIZE
Distance(s, p) == IF p >= s THEN p - s ELSE p - s + RXBUFFERSIZE
NextPoint(p) == IF p + 1 = RXBUFFERSIZE THEN 0 ELSE p + 1

LEMMA LinePlaces ==
  ASSUME NEW s \in Points, NEW p \in Points
  PROVE  /\ (p - s) % RXBUFFERSIZE = Distance(s, p)
         /\ Distance(s, p) \in 0 .. RXBUFFERSIZE - 1
         /\ \A n \in 1 .. RXBUFFERSIZE : /\ (s + n - 1) % RXBUFFERSIZE = At(s, n)
                                         /\ At(s, n) \in Points
         /\ (p + 1) % RXBUFFERSIZE = NextPoint(p) /\ NextPoint(p) \in Points
         /\ At(s, Distance(s, p) + 1) = p
         /\ \A n \in 1 .. Distance(s, p) : At(s, n) # p
         /\ Distance(s, NextPoint(p)) = IF Distance(s, p) + 1 = RXBUFFERSIZE THEN 0
                                        ELSE Distance(s, p) + 1
         /\ Distance(NextPoint(p), NextPoint(p)) = 0
<1>1. /\ RXBUFFERSIZE \in Nat /\ RXBUFFERSIZE > 0 /\ s \in Nat /\ s < RXBUFFERSIZE
      /\ p \in Nat /\ p < RXBUFFERSIZE
  BY NmeaAssumption DEF Points
<1>2. (p - s) % RXBUFFERSIZE = Distance(s, p)
  <2>1. CASE p >= s
    <3>1. p - s \in Int /\ 0 <= p - s /\ p - s < RXBUFFERSIZE
      BY <1>1, <2>1
    <3>2. QED
      BY <1>1, <2>1, <3>1, RemainderSmall DEF Distance
  <2>2. CASE ~(p >= s)
    <3>1. p - s \in Int /\ 0 - RXBUFFERSIZE <= p - s /\ p - s < 0
      BY <1>1, <2>2
    <3>2. QED
      BY <1>1, <2>2, <3>1, RemainderBelow DEF Distance
  <2>3. QED
    BY <2>1, <2>2
<1>3. ASSUME NEW n \in 1 .. RXBUFFERSIZE
      PROVE  (s + n - 1) % RXBUFFERSIZE = At(s, n) /\ At(s, n) \in Points
  <2>1. CASE s + n - 1 < RXBUFFERSIZE
    <3>1. s + n - 1 \in Int /\ 0 <= s + n - 1
      BY <1>1
    <3>2. (s + n - 1) % RXBUFFERSIZE = s + n - 1
      BY <1>1, <2>1, <3>1, RemainderSmall
    <3>3. QED
      BY <1>1, <2>1, <3>1, <3>2 DEF At, Points
  <2>2. CASE ~(s + n - 1 < RXBUFFERSIZE)
    <3>1. s + n - 1 \in Int /\ RXBUFFERSIZE <= s + n - 1 /\ s + n - 1 < 2 * RXBUFFERSIZE
      BY <1>1, <2>2
    <3>2. (s + n - 1) % RXBUFFERSIZE = s + n - 1 - RXBUFFERSIZE
      BY <1>1, <3>1, RemainderPast
    <3>3. QED
      BY <1>1, <2>2, <3>1, <3>2 DEF At, Points
  <2>3. QED
    BY <2>1, <2>2
<1>4. (p + 1) % RXBUFFERSIZE = NextPoint(p) /\ NextPoint(p) \in Points
  <2>1. CASE p + 1 = RXBUFFERSIZE
    <3>1. (p + 1) % RXBUFFERSIZE = (p + 1) - RXBUFFERSIZE
      BY <1>1, <2>1, RemainderPast
    <3>2. QED
      BY <1>1, <2>1, <3>1 DEF NextPoint, Points
  <2>2. CASE p + 1 # RXBUFFERSIZE
    <3>1. p + 1 < RXBUFFERSIZE
      BY <1>1, <2>2
    <3>2. (p + 1) % RXBUFFERSIZE = p + 1
      BY <1>1, <3>1, RemainderSmall
    <3>3. QED
      BY <1>1, <2>2, <3>1, <3>2 DEF NextPoint, Points
  <2>3. QED
    BY <2>1, <2>2
<1>5. Distance(s, p) \in 0 .. RXBUFFERSIZE - 1
  BY <1>1 DEF Distance
<1>6. At(s, Distance(s, p) + 1) = p /\ \A n \in 1 .. Distance(s, p) : At(s, n) # p
  BY <1>1 DEF At, Distance
<1>7. /\ Distance(s, NextPoint(p)) = IF Distance(s, p) + 1 = RXBUFFERSIZE THEN 0
                                     ELSE Distance(s, p) + 1
      /\ Distance(NextPoint(p), NextPoint(p)) = 0
  BY <1>1 DEF Distance, NextPoint
<1>8. QED
  BY <1>2, <1>3, <1>4, <1>5, <1>6, <1>7

-----------------------------------------------------------------------------
\* How much of the current line the ring holds, and where
Held == Distance(pRxMessageLineStartPoint, bufferPoint)

InRing ==
  /\ Held = Len(current) % RXBUFFERSIZE
  /\ \A n \in 1 .. Held : aRxBuffer[At(pRxMessageLineStartPoint, n)]
                            = current[Len(current) - Held + n]

Counts ==
  /\ Len(current) <= longest /\ Len(last) <= longest
  /\ lines = 0 => memory[0] # "GGA"
  /\ lines > 0 => Len(last) % RXBUFFERSIZE > 0

NmeaInv == NmeaTypeOK /\ InRing /\ Counts /\ LineExact /\ FixIsNewest

\* What a line end does, after the byte has come into the ring
LEMMA RingLineIs ==
  ASSUME NmeaTypeOK, InRing, NEW ring,
         ring = [aRxBuffer EXCEPT ![bufferPoint] = "EOL"]
  PROVE  /\ RingLine(ring) = [n \in 1 .. Held |-> current[Len(current) - Held + n]]
         /\ Len(RingLine(ring)) = Held /\ RingLine(ring) \in Seq(Byte)
         /\ Held \in Nat /\ Held <= Len(current) /\ Held < RXBUFFERSIZE
<1>1. /\ pRxMessageLineStartPoint \in Points /\ bufferPoint \in Points
      /\ aRxBuffer \in [Points -> Byte \cup {"NUL"}] /\ current \in Seq(Byte)
      /\ RXBUFFERSIZE \in Nat /\ RXBUFFERSIZE > 0 /\ Len(current) \in Nat
  BY NmeaAssumption DEF NmeaTypeOK
<1>2. /\ (bufferPoint - pRxMessageLineStartPoint) % RXBUFFERSIZE = Held
      /\ Held \in 0 .. RXBUFFERSIZE - 1
      /\ \A n \in 1 .. RXBUFFERSIZE :
           /\ (pRxMessageLineStartPoint + n - 1) % RXBUFFERSIZE = At(pRxMessageLineStartPoint, n)
           /\ At(pRxMessageLineStartPoint, n) \in Points
      /\ \A n \in 1 .. Held : At(pRxMessageLineStartPoint, n) # bufferPoint
  BY <1>1, LinePlaces DEF Held
<1>3. Held \in Nat /\ Held < RXBUFFERSIZE
  BY <1>1, <1>2
<1>4. Held <= Len(current)
  <2>1. /\ Len(current) = RXBUFFERSIZE * (Len(current) \div RXBUFFERSIZE) + Held
        /\ Len(current) \div RXBUFFERSIZE \in Int
    BY <1>1, DivMod DEF InRing
  <2> DEFINE q == Len(current) \div RXBUFFERSIZE
  <2> HIDE DEF q
  <2>2. q >= 0
    <3> SUFFICES ASSUME q < 0 PROVE FALSE
      BY <2>1 DEF q
    <3>1. RXBUFFERSIZE * (0 - q) >= RXBUFFERSIZE
      BY <1>1, <2>1, TimesGrows DEF q
    <3>2. RXBUFFERSIZE * q = 0 - RXBUFFERSIZE * (0 - q) /\ q \in Int
      BY <1>1, <2>1 DEF q
    <3>3. QED
      BY <1>1, <1>3, <2>1, <3>1, <3>2 DEF q
  <2>3. RXBUFFERSIZE * q >= 0
    BY <1>1, <2>1, <2>2 DEF q
  <2>4. QED
    BY <1>1, <1>3, <2>1, <2>3 DEF q
<1>5. ASSUME NEW n \in 1 .. Held
      PROVE  ring[(pRxMessageLineStartPoint + n - 1) % RXBUFFERSIZE]
               = current[Len(current) - Held + n]
  <2>1. n \in 1 .. RXBUFFERSIZE
    BY <1>1, <1>3
  <2>2. /\ (pRxMessageLineStartPoint + n - 1) % RXBUFFERSIZE = At(pRxMessageLineStartPoint, n)
        /\ At(pRxMessageLineStartPoint, n) \in Points
        /\ At(pRxMessageLineStartPoint, n) # bufferPoint
    BY <1>2, <2>1
  <2>3. ring[At(pRxMessageLineStartPoint, n)] = aRxBuffer[At(pRxMessageLineStartPoint, n)]
    BY <1>1, <2>2
  <2>4. QED
    BY <2>2, <2>3 DEF InRing
<1>6. RingLine(ring) = [n \in 1 .. Held |-> current[Len(current) - Held + n]]
  BY <1>2, <1>5 DEF RingLine
<1>7. \A n \in 1 .. Held : current[Len(current) - Held + n] \in Byte
  <2> TAKE n \in 1 .. Held
  <2>1. Len(current) - Held + n \in 1 .. Len(current)
    BY <1>1, <1>3, <1>4
  <2>2. QED
    BY <1>1, <2>1
<1>8. RingLine(ring) \in Seq(Byte) /\ Len(RingLine(ring)) = Held
  <2> DEFINE text == [n \in 1 .. Held |-> current[Len(current) - Held + n]]
  <2>1. text \in [1 .. Held -> Byte]
    BY <1>7
  <2> HIDE DEF text
  <2>2. text \in Seq(Byte) /\ Len(text) = Held
    BY <1>3, <2>1
  <2>3. QED
    BY <1>6, <2>2 DEF text
<1>9. QED
  BY <1>3, <1>4, <1>6, <1>8

LEMMA InitNmea == NmeaInit => NmeaInv
<1> SUFFICES ASSUME NmeaInit PROVE NmeaInv
  OBVIOUS
<1>1. /\ aRxBuffer = [p \in Points |-> "NUL"] /\ bufferPoint = 0
      /\ pRxMessageLineStartPoint = 0
      /\ memory = [a \in 0 .. LINE + LINE + Gap - 1 |-> "NUL"]
      /\ GPS_data = 0 /\ resolved_GPS_data_count = 0
      /\ bytes = 0 /\ current = <<>> /\ last = <<>> /\ lines = 0 /\ longest = 0
  BY DEF NmeaInit
<1>2. RXBUFFERSIZE \in Nat /\ RXBUFFERSIZE > 0 /\ LINE \in Nat /\ LINE > 0 /\ Gap \in Nat /\ MaxRx \in Nat
  BY NmeaAssumption
<1>3. current \in Seq(Byte) /\ last \in Seq(Byte) /\ Len(current) = 0 /\ Len(last) = 0
  BY <1>1
<1>4. {bufferPoint, pRxMessageLineStartPoint} \subseteq Points
  BY <1>1, <1>2 DEF Points
<1>5. NmeaTypeOK
  BY <1>1, <1>2, <1>3, <1>4 DEF NmeaTypeOK
<1>6. InRing
  <2>1. Held = 0
    BY <1>1 DEF Held, Distance
  <2>2. 0 % RXBUFFERSIZE = 0
    BY <1>2, RemainderSmall
  <2>3. QED
    BY <1>3, <2>1, <2>2 DEF InRing
<1>7. Counts
  BY <1>1, <1>2, <1>3 DEF Counts
<1>8. LineExact /\ FixIsNewest
  BY <1>1 DEF LineExact, FixIsNewest
<1>9. QED
  BY <1>5, <1>6, <1>7, <1>8 DEF NmeaInv

\* A byte of a line goes to the ring only.
LEMMA ByteKeeps ==
  ASSUME NmeaInv, NEW b \in Byte, b # "EOL", HAL_UART5_RxCpltCallback(b)
  PROVE  NmeaInv'
<1>1. /\ bytes < MaxRx /\ bytes' = bytes + 1
      /\ aRxBuffer' = [aRxBuffer EXCEPT ![bufferPoint] = b]
      /\ current' = Append(current, b)
      /\ longest' = IF Len(current) + 1 > longest THEN Len(current) + 1 ELSE longest
      /\ UNCHANGED <<pRxMessageLineStartPoint, memory, GPS_data, resolved_GPS_data_count, last, lines>>
      /\ bufferPoint' = (bufferPoint + 1) % RXBUFFERSIZE
  BY DEF HAL_UART5_RxCpltCallback
<1>2. /\ NmeaTypeOK /\ pRxMessageLineStartPoint \in Points /\ bufferPoint \in Points
      /\ aRxBuffer \in [Points -> Byte \cup {"NUL"}] /\ current \in Seq(Byte) /\ last \in Seq(Byte)
      /\ bytes \in Nat /\ longest \in 0 .. bytes /\ lines \in 0 .. bytes /\ MaxRx \in Nat
      /\ resolved_GPS_data_count \in 0 .. bytes
      /\ RXBUFFERSIZE \in Nat \ {0} /\ Len(current) \in Nat /\ Len(last) \in Nat
  BY NmeaAssumption DEF NmeaInv, NmeaTypeOK
<1>3. /\ bufferPoint' = NextPoint(bufferPoint) /\ bufferPoint' \in Points
      /\ Distance(pRxMessageLineStartPoint, NextPoint(bufferPoint)) =
           IF Held + 1 = RXBUFFERSIZE THEN 0 ELSE Held + 1
      /\ At(pRxMessageLineStartPoint, Held + 1) = bufferPoint
      /\ Held \in 0 .. RXBUFFERSIZE - 1
      /\ \A n \in 1 .. Held : At(pRxMessageLineStartPoint, n) # bufferPoint
      /\ \A n \in 1 .. RXBUFFERSIZE : At(pRxMessageLineStartPoint, n) \in Points
  <2>1. (bufferPoint + 1) % RXBUFFERSIZE = NextPoint(bufferPoint) /\ NextPoint(bufferPoint) \in Points
    BY <1>2, LinePlaces
  <2>2. bufferPoint' = NextPoint(bufferPoint) /\ bufferPoint' \in Points
    BY <1>1, <2>1
  <2>3. QED
    BY <1>2, <2>2, LinePlaces DEF Held
<1>4. /\ Len(current') = Len(current) + 1 /\ current' \in Seq(Byte)
      /\ \A i \in 1 .. Len(current) : current'[i] = current[i]
      /\ current'[Len(current) + 1] = b
  BY <1>1, <1>2, AppendProperties
<1>5. Held' = IF Held + 1 = RXBUFFERSIZE THEN 0 ELSE Held + 1
  BY <1>1, <1>3 DEF Held
<1>6. Held = Len(current) % RXBUFFERSIZE
  BY DEF NmeaInv, InRing
<1>7. NmeaTypeOK'
  <2>1. bytes' \in 0 .. MaxRx /\ lines' \in 0 .. bytes' /\ longest' \in 0 .. bytes'
        /\ resolved_GPS_data_count' \in 0 .. bytes'
    <3>1. Len(current) + 1 <= bytes + 1
      BY <1>2 DEF NmeaInv, Counts
    <3>2. QED
      BY <1>1, <1>2, <3>1
  <2>2. aRxBuffer' \in [Points -> Byte \cup {"NUL"}]
    BY <1>1, <1>2
  <2>3. {bufferPoint, pRxMessageLineStartPoint}' \subseteq Points
    BY <1>1, <1>2, <1>3
  <2>4. QED
    BY <1>1, <1>2, <1>4, <2>1, <2>2, <2>3 DEF NmeaTypeOK
<1>8. InRing'
  <2>1. Len(current') % RXBUFFERSIZE = Held'
    <3>1. (Len(current) + 1) % RXBUFFERSIZE =
            IF (Len(current) % RXBUFFERSIZE) + 1 = RXBUFFERSIZE THEN 0
            ELSE (Len(current) % RXBUFFERSIZE) + 1
      BY <1>2, RemainderNext
    <3>2. QED
      BY <1>4, <1>5, <1>6, <3>1
  <2>2. ASSUME NEW n \in 1 .. Held'
        PROVE  aRxBuffer'[At(pRxMessageLineStartPoint, n)] = current'[Len(current') - Held' + n]
    <3>1. Held' = Held + 1 /\ Held + 1 < RXBUFFERSIZE /\ Held \in Nat
      BY <1>2, <1>3, <1>5, <2>2
    <3>2. Len(current') - Held' + n = Len(current) - Held + n
      BY <1>2, <1>4, <3>1
    <3>3. Held <= Len(current)
      BY RingLineIs DEF NmeaInv
    <3>4. CASE n = Held + 1
      <4>1. aRxBuffer'[At(pRxMessageLineStartPoint, n)] = b
        BY <1>1, <1>2, <1>3, <3>4
      <4>2. Len(current) - Held + n = Len(current) + 1
        BY <1>2, <3>1, <3>4
      <4>3. QED
        BY <1>4, <3>2, <4>1, <4>2
    <3>5. CASE n # Held + 1
      <4>1. n \in 1 .. Held
        BY <3>1, <3>5
      <4>2. At(pRxMessageLineStartPoint, n) # bufferPoint
        BY <1>3, <4>1
      <4>3. At(pRxMessageLineStartPoint, n) \in Points
        BY <1>2, <1>3, <3>1, <4>1
      <4>4. aRxBuffer'[At(pRxMessageLineStartPoint, n)] = aRxBuffer[At(pRxMessageLineStartPoint, n)]
        BY <1>1, <1>2, <4>2, <4>3
      <4>5. Len(current) - Held + n \in 1 .. Len(current)
        BY <1>2, <3>1, <3>3, <4>1
      <4>6. aRxBuffer[At(pRxMessageLineStartPoint, n)] = current[Len(current) - Held + n]
        BY <4>1 DEF NmeaInv, InRing
      <4>7. QED
        BY <1>4, <3>2, <4>4, <4>5, <4>6
    <3>6. QED
      BY <3>4, <3>5
  <2>3. QED
    BY <1>1, <2>1, <2>2 DEF InRing
<1>9. Counts'
  <2>1. Len(current) <= longest /\ Len(last) <= longest
    BY DEF NmeaInv, Counts
  <2>2. Len(current') <= longest' /\ Len(last') <= longest'
    BY <1>1, <1>2, <1>4, <2>1
  <2>3. QED
    BY <1>1, <2>2 DEF NmeaInv, Counts
<1>10. LineExact'
  BY <1>1 DEF NmeaInv, LineExact
<1>11. FixIsNewest'
  <2>1. longest <= longest'
    BY <1>1, <1>2
  <2>2. longest' + 1 <= LINE + LINE + Gap => longest + 1 <= LINE + LINE + Gap
    BY <1>1, <1>2, <2>1, NmeaAssumption
  <2>3. QED
    BY <1>1, <2>2 DEF NmeaInv, FixIsNewest
<1>12. QED
  BY <1>7, <1>8, <1>9, <1>10, <1>11 DEF NmeaInv

\* Memory behind the parser's argument: two lines of 64 and the gap
\* fit into the ring of 512 (uart5.c:15-25, uart5.h:8).
LineFits == LINE + LINE + Gap <= RXBUFFERSIZE

LEMMA EndKeeps ==
  ASSUME LineFits, NmeaInv, HAL_UART5_RxCpltCallback("EOL")
  PROVE  NmeaInv'
<1> DEFINE text == RingLine(aRxBuffer')
           copied == Copy(text)
           parsed == nmea_parse_GGA(copied)
           number == IF Len(current) % RXBUFFERSIZE = 0 THEN lines ELSE lines + 1
<1>1. /\ bytes < MaxRx /\ bytes' = bytes + 1
      /\ aRxBuffer' = [aRxBuffer EXCEPT ![bufferPoint] = "EOL"]
      /\ longest' = longest /\ bufferPoint' = (bufferPoint + 1) % RXBUFFERSIZE
      /\ lines' = number /\ last' = IF number = lines THEN last ELSE current
      /\ pRxMessageLineStartPoint' = (bufferPoint + 1) % RXBUFFERSIZE
      /\ memory' = [a \in DOMAIN memory |->
           IF parsed /\ a \in LINE .. LINE + LINE - 1 THEN copied[a - LINE] ELSE copied[a]]
      /\ GPS_data' = CASE parsed -> number
                       [] ~parsed /\ Len(text) + 1 > LINE + LINE + Gap /\ text # <<>> -> -1
                       [] OTHER -> GPS_data
      /\ resolved_GPS_data_count' = resolved_GPS_data_count + IF parsed THEN 1 ELSE 0
      /\ current' = <<>>
  BY DEF HAL_UART5_RxCpltCallback, LineEnd
<1>2. /\ NmeaTypeOK /\ InRing /\ Counts /\ LineExact /\ FixIsNewest
      /\ pRxMessageLineStartPoint \in Points /\ bufferPoint \in Points
      /\ aRxBuffer \in [Points -> Byte \cup {"NUL"}] /\ current \in Seq(Byte) /\ last \in Seq(Byte)
      /\ memory \in [0 .. LINE + LINE + Gap - 1 -> Byte \cup {"NUL"}]
      /\ Len(current) \in Nat /\ Len(last) \in Nat
  BY DEF NmeaInv, NmeaTypeOK
<1>3. /\ bytes \in Nat /\ longest \in 0 .. bytes /\ lines \in 0 .. bytes /\ MaxRx \in Nat
      /\ resolved_GPS_data_count \in 0 .. bytes /\ GPS_data \in -1 .. lines
      /\ RXBUFFERSIZE \in Nat /\ RXBUFFERSIZE > 0
      /\ LINE \in Nat /\ LINE > 0 /\ Gap \in Nat
  BY NmeaAssumption DEF NmeaInv, NmeaTypeOK
<1>4. /\ text = [n \in 1 .. Held |-> current[Len(current) - Held + n]]
      /\ Len(text) = Held /\ text \in Seq(Byte)
      /\ Held \in Nat /\ Held <= Len(current) /\ Held < RXBUFFERSIZE
      /\ Held = Len(current) % RXBUFFERSIZE
  BY <1>1, <1>2, RingLineIs DEF InRing
<1> HIDE DEF text
<1>5. bufferPoint' \in Points /\ pRxMessageLineStartPoint' \in Points /\ Held' = 0
  <2>1. (bufferPoint + 1) % RXBUFFERSIZE = NextPoint(bufferPoint) /\ NextPoint(bufferPoint) \in Points
        /\ Distance(NextPoint(bufferPoint), NextPoint(bufferPoint)) = 0
    BY <1>2, LinePlaces
  <2>2. bufferPoint' = NextPoint(bufferPoint) /\ pRxMessageLineStartPoint' = NextPoint(bufferPoint)
    BY <1>1, <2>1
  <2>3. QED
    BY <2>1, <2>2 DEF Held
<1>6. copied \in [0 .. LINE + LINE + Gap - 1 -> Byte \cup {"NUL"}]
  <2>1. CASE text = <<>>
    BY <1>2, <2>1 DEF Copy
  <2>2. CASE text # <<>>
    <3>1. copied = [a \in DOMAIN memory |->
                      IF a < Len(text) THEN text[a + 1] ELSE IF a = Len(text) THEN "NUL" ELSE memory[a]]
      BY <2>2 DEF Copy
    <3>2. DOMAIN memory = 0 .. LINE + LINE + Gap - 1
      BY <1>2
    <3>3. ASSUME NEW a \in 0 .. LINE + LINE + Gap - 1, a < Len(text) PROVE text[a + 1] \in Byte
      BY <1>3, <1>4, <3>3
    <3>4. QED
      BY <1>2, <3>1, <3>2, <3>3
  <2>3. QED
    BY <2>1, <2>2
\* the first line of memory
<1>7. /\ text = <<>> => \A a \in 0 .. LINE - 1 : copied[a] = memory[a]
      /\ text # <<>> => \A a \in 0 .. LINE - 1 :
           copied[a] = IF a < Held THEN text[a + 1] ELSE IF a = Held THEN "NUL" ELSE memory[a]
  <2>1. \A a \in 0 .. LINE - 1 : a \in DOMAIN memory
    BY <1>2, <1>3
  <2>2. QED
    BY <1>4, <2>1 DEF Copy
<1> HIDE DEF copied
<1>8. \A a \in 0 .. LINE - 1 : memory'[a] = copied[a]
  <2> TAKE a \in 0 .. LINE - 1
  <2>1. a \in DOMAIN memory /\ ~ (a \in LINE .. LINE + LINE - 1)
    BY <1>2, <1>3
  <2>2. QED
    BY <1>1, <2>1
<1>9. text = <<>> <=> Held = 0
  BY <1>4, EmptySeq
<1>10. memory' \in [0 .. LINE + LINE + Gap - 1 -> Byte \cup {"NUL"}]
  <2>1. DOMAIN memory = 0 .. LINE + LINE + Gap - 1
    BY <1>2
  <2>2. ASSUME NEW a \in 0 .. LINE + LINE + Gap - 1, a \in LINE .. LINE + LINE - 1
        PROVE  copied[a - LINE] \in Byte \cup {"NUL"}
    <3>1. a - LINE \in 0 .. LINE + LINE + Gap - 1
      BY <1>3, <2>2
    <3>2. QED
      BY <1>6, <3>1
  <2>3. QED
    BY <1>1, <1>6, <2>1, <2>2
<1>11. parsed <=> copied[0] = "GGA"
  BY DEF nmea_parse_GGA
<1> HIDE DEF parsed
<1>12. number \in {lines, lines + 1} /\ (number = lines <=> Held = 0)
  BY <1>3, <1>4
<1> HIDE DEF number
<1>13. 0 \in 0 .. LINE - 1
  BY <1>3
\* the empty line, and the other
<1>14. ASSUME Held = 0
       PROVE  /\ last' = last /\ lines' = lines /\ text = <<>>
              /\ \A a \in 0 .. LINE - 1 : memory'[a] = memory[a]
              /\ parsed <=> memory[0] = "GGA"
              /\ parsed => lines > 0
  <2>1. last' = last /\ lines' = lines /\ text = <<>>
    BY <1>1, <1>9, <1>12, <1>14
  <2>2. \A a \in 0 .. LINE - 1 : memory'[a] = memory[a]
    BY <1>7, <1>8, <2>1
  <2>3. parsed <=> memory[0] = "GGA"
    BY <1>7, <1>11, <1>13, <2>1
  <2>4. QED
    BY <1>2, <1>3, <2>1, <2>2, <2>3 DEF Counts
<1>15. ASSUME Held # 0
       PROVE  /\ last' = current /\ lines' = lines + 1 /\ number = lines + 1 /\ Held > 0
              /\ \A a \in 0 .. LINE - 1 : memory'[a] =
                   IF a < Held THEN text[a + 1] ELSE IF a = Held THEN "NUL" ELSE memory[a]
              /\ parsed <=> text[1] = "GGA"
  <2>1. last' = current /\ lines' = lines + 1 /\ text # <<>> /\ number = lines + 1 /\ Held > 0
    <3>1. number = lines + 1 /\ number # lines
      BY <1>3, <1>12, <1>15
    <3>2. last' = current /\ lines' = number
      BY <1>1, <3>1
    <3>3. Held > 0
      BY <1>4, <1>15
    <3>4. QED
      BY <1>9, <1>15, <3>1, <3>2, <3>3
  <2>2. \A a \in 0 .. LINE - 1 : memory'[a] =
          IF a < Held THEN text[a + 1] ELSE IF a = Held THEN "NUL" ELSE memory[a]
    BY <1>7, <1>8, <2>1
  <2>3. copied[0] = text[0 + 1]
    BY <1>7, <1>13, <2>1
  <2>4. QED
    BY <1>11, <2>1, <2>2, <2>3
<1>16. lines' \in 0 .. bytes' /\ lines <= lines'
  BY <1>1, <1>3, <1>12
<1>17. GPS_data' \in -1 .. lines'
  <2>1. CASE parsed
    BY <1>1, <1>16, <2>1
  <2>2. CASE ~parsed
    <3>1. GPS_data' = -1 \/ GPS_data' = GPS_data
      BY <1>1, <2>2
    <3>2. QED
      BY <1>3, <1>16, <3>1
  <2>3. QED
    BY <2>1, <2>2
<1>18. current' \in Seq(Byte) /\ Len(current') = 0 /\ last' \in Seq(Byte) /\ Len(last') <= longest'
  <2>1. last' = last \/ last' = current
    BY <1>1
  <2>2. Len(current) <= longest /\ Len(last) <= longest
    BY <1>2 DEF Counts
  <2>3. QED
    BY <1>1, <1>2, <2>1, <2>2
<1>19. NmeaTypeOK'
  <2>1. bytes' \in 0 .. MaxRx /\ longest' \in 0 .. bytes' /\ resolved_GPS_data_count' \in 0 .. bytes'
    BY <1>1, <1>3
  <2>2. aRxBuffer' \in [Points -> Byte \cup {"NUL"}]
    BY <1>1, <1>2 DEF Byte
  <2>3. {bufferPoint, pRxMessageLineStartPoint}' \subseteq Points
    BY <1>5
  <2>4. QED
    BY <1>10, <1>16, <1>17, <1>18, <2>1, <2>2, <2>3 DEF NmeaTypeOK
<1>20. InRing'
  <2>1. 0 % RXBUFFERSIZE = 0
    BY <1>3, RemainderSmall
  <2>2. QED
    BY <1>5, <1>18, <2>1 DEF InRing
<1>21. Counts'
  <2>1. lines' > 0 => Len(last') % RXBUFFERSIZE > 0
    BY <1>2, <1>3, <1>4, <1>14, <1>15 DEF Counts
  <2>2. lines' = 0 => memory'[0] # "GGA"
    BY <1>2, <1>3, <1>13, <1>14, <1>15 DEF Counts
  <2>3. Len(current') <= longest'
    BY <1>1, <1>3, <1>18
  <2>4. QED
    BY <1>18, <2>1, <2>2, <2>3 DEF Counts
<1>22. LineExact'
  <2>1. CASE Held = 0
    <3> DEFINE end == Len(last) % RXBUFFERSIZE
    <3>1. last' = last /\ lines' = lines /\ \A a \in 0 .. LINE - 1 : memory'[a] = memory[a]
      BY <1>14, <2>1
    <3>2. end \in Nat
      BY <1>2, <1>3, RemainderRange
    <3>3. lines > 0 => /\ \A n \in 1 .. end : n <= LINE => memory[n - 1] = last[Len(last) - end + n]
                       /\ end < LINE => memory[end] = "NUL"
      BY <1>2 DEF LineExact
    <3> HIDE DEF end
    <3>4. lines > 0 => /\ \A n \in 1 .. end : n <= LINE => memory'[n - 1] = last[Len(last) - end + n]
                       /\ end < LINE => memory'[end] = "NUL"
      BY <1>3, <3>1, <3>2, <3>3
    <3>5. QED
      BY <3>1, <3>4 DEF LineExact, end
  <2>2. CASE Held # 0
    <3>1. /\ last' = current /\ Len(current) % RXBUFFERSIZE = Held
          /\ \A a \in 0 .. LINE - 1 : memory'[a] =
               IF a < Held THEN text[a + 1] ELSE IF a = Held THEN "NUL" ELSE memory[a]
      BY <1>4, <1>15, <2>2
    <3>2. ASSUME NEW n \in 1 .. Held, n <= LINE
          PROVE  memory'[n - 1] = current[Len(current) - Held + n]
      <4>1. n - 1 \in 0 .. LINE - 1 /\ n - 1 < Held /\ (n - 1) + 1 = n
        BY <1>3, <1>4, <3>2
      <4>2. memory'[n - 1] = text[n]
        BY <3>1, <4>1
      <4>3. QED
        BY <1>4, <4>2
    <3>3. Held < LINE => memory'[Held] = "NUL"
      BY <1>3, <1>4, <3>1
    <3>4. QED
      BY <3>1, <3>2, <3>3 DEF LineExact
  <2>3. QED
    BY <2>1, <2>2
<1>23. FixIsNewest'
  <2> SUFFICES ASSUME longest + 1 <= LINE + LINE + Gap
               PROVE  /\ GPS_data' # -1
                      /\ lines' > 0 => (last'[1] = "GGA" <=> GPS_data' = lines')
                      /\ GPS_data' > 0 <=> resolved_GPS_data_count' > 0
    BY <1>1 DEF FixIsNewest
  <2>1. /\ GPS_data # -1 /\ (lines > 0 => (last[1] = "GGA" <=> GPS_data = lines))
        /\ GPS_data > 0 <=> resolved_GPS_data_count > 0
    BY <1>2 DEF FixIsNewest
  <2>2. Len(current) < RXBUFFERSIZE /\ Len(last) < RXBUFFERSIZE /\ Len(text) + 1 <= LINE + LINE + Gap
    BY <1>2, <1>3, <1>4 DEF Counts, LineFits
  <2>3. GPS_data' = IF parsed THEN number ELSE GPS_data
    <3>1. ~ (Len(text) + 1 > LINE + LINE + Gap)
      BY <1>3, <1>4, <2>2
    <3>2. CASE parsed
      BY <1>1, <3>2
    <3>3. CASE ~parsed
      BY <1>1, <3>1, <3>3
    <3>4. QED
      BY <3>2, <3>3
  <2>4. GPS_data \in Nat /\ GPS_data <= lines /\ lines \in Nat /\ resolved_GPS_data_count \in Nat
    BY <1>3, <2>1
  <2>5. resolved_GPS_data_count' = IF parsed THEN resolved_GPS_data_count + 1
                                   ELSE resolved_GPS_data_count
    BY <1>1, <2>4
  <2>6. CASE Held = 0
    <3>1. /\ last' = last /\ lines' = lines /\ number = lines
          /\ (parsed <=> memory[0] = "GGA") /\ (parsed => lines > 0)
      BY <1>12, <1>14, <2>6
    <3>2. lines > 0 => memory[0] = last[1]
      <4> SUFFICES ASSUME lines > 0 PROVE memory[0] = last[1]
        OBVIOUS
      <4> DEFINE end == Len(last) % RXBUFFERSIZE
      <4>1. end = Len(last) /\ end > 0
        BY <1>2, <1>3, <2>2, RemainderSmall DEF Counts
      <4>2. \A n \in 1 .. end : n <= LINE => memory[n - 1] = last[Len(last) - end + n]
        BY <1>2 DEF LineExact
      <4> HIDE DEF end
      <4>3. memory[1 - 1] = last[Len(last) - end + 1]
        BY <1>2, <1>3, <4>1, <4>2
      <4>4. Len(last) - end + 1 = 1
        BY <1>2, <4>1
      <4>5. QED
        BY <4>3, <4>4
    <3>3. QED
      BY <2>1, <2>3, <2>4, <2>5, <3>1, <3>2
  <2>7. CASE Held # 0
    <3>1. last' = current /\ lines' = lines + 1 /\ number = lines + 1 /\ (parsed <=> text[1] = "GGA")
      BY <1>15, <2>7
    <3>2. Held = Len(current) /\ Held > 0
      <4>1. Len(current) % RXBUFFERSIZE = Len(current)
        BY <1>2, <1>3, <2>2, RemainderSmall
      <4>2. QED
        BY <1>4, <2>7, <4>1
    <3>3. text[1] = current[1]
      <4>1. 1 \in 1 .. Held /\ Len(current) - Held + 1 = 1
        BY <1>2, <1>4, <3>2
      <4>2. text[1] = current[Len(current) - Held + 1]
        BY <1>4, <4>1
      <4>3. QED
        BY <4>1, <4>2
    <3>4. QED
      BY <2>1, <2>3, <2>4, <2>5, <3>1, <3>3
  <2>8. QED
    BY <2>6, <2>7
<1>24. QED
  BY <1>19, <1>20, <1>21, <1>22, <1>23 DEF NmeaInv

-----------------------------------------------------------------------------
\* The parser is always given the last line, a line longer than the ring
\* excepted, of which it gets the rest; and as long as no line overruns the
\* memory up to GPS_data, the fix is from the newest line that is a GGA
\* sentence, for every size of the ring and of a line (uart5.c:183-206).
THEOREM LinesAreCorrect == ASSUME LineFits PROVE NmeaSpec => []LinesCorrect
<1>1. NmeaInv /\ [NmeaNext]_nmeaVars => NmeaInv'
  <2> SUFFICES ASSUME NmeaInv, [NmeaNext]_nmeaVars PROVE NmeaInv'
    OBVIOUS
  <2>1. CASE UNCHANGED nmeaVars
    BY <2>1 DEF nmeaVars, NmeaInv, NmeaTypeOK, InRing, Held, Counts, LineExact, FixIsNewest
  <2>2. CASE NmeaNext
    <3>1. PICK b \in Byte : HAL_UART5_RxCpltCallback(b)
      BY <2>2 DEF NmeaNext
    <3>2. QED
      BY <3>1, ByteKeeps, EndKeeps
  <2>3. QED
    BY <2>1, <2>2
<1>2. NmeaInv => LinesCorrect
  BY DEF NmeaInv, LinesCorrect
<1>3. QED
  BY <1>1, <1>2, InitNmea, PTL DEF NmeaSpec

\* What the interrupt keeps has its type; no line is longer than what came.
NmeaTyped == NmeaTypeOK /\ Len(current) <= longest

LEMMA ByteTyped ==
  ASSUME NmeaTyped, NEW b \in Byte, HAL_UART5_RxCpltCallback(b)
  PROVE  NmeaTyped'
<1>1. /\ bytes < MaxRx /\ bytes' = bytes + 1
      /\ aRxBuffer' = [aRxBuffer EXCEPT ![bufferPoint] = b]
      /\ bufferPoint' = (bufferPoint + 1) % RXBUFFERSIZE
  BY DEF HAL_UART5_RxCpltCallback
<1>2. /\ pRxMessageLineStartPoint \in Points /\ bufferPoint \in Points
      /\ aRxBuffer \in [Points -> Byte \cup {"NUL"}] /\ current \in Seq(Byte) /\ last \in Seq(Byte)
      /\ memory \in [0 .. LINE + LINE + Gap - 1 -> Byte \cup {"NUL"}]
      /\ bytes \in 0 .. MaxRx /\ longest \in 0 .. bytes /\ lines \in 0 .. bytes
      /\ GPS_data \in -1 .. lines /\ resolved_GPS_data_count \in 0 .. bytes
      /\ Len(current) <= longest
  BY DEF NmeaTyped, NmeaTypeOK
<1>3. /\ RXBUFFERSIZE \in Nat \ {0} /\ LINE \in Nat \ {0} /\ Gap \in Nat /\ MaxRx \in Nat
      /\ bytes \in Nat /\ bytes + 1 \in 0 .. MaxRx /\ Len(current) \in Nat
  BY <1>1, <1>2, NmeaAssumption
<1>4. ASSUME NEW x \in Int PROVE x % RXBUFFERSIZE \in Points
  BY <1>3, <1>4, RemainderRange DEF Points
<1>5. bufferPoint + 1 \in Int
  BY <1>2, <1>3 DEF Points
<1>6. bufferPoint' \in Points /\ aRxBuffer' \in [Points -> Byte \cup {"NUL"}] /\ bytes' \in 0 .. MaxRx
  BY <1>1, <1>2, <1>3, <1>4, <1>5
<1>7. CASE b # "EOL"
  <2>1. /\ current' = Append(current, b)
        /\ longest' = IF Len(current) + 1 > longest THEN Len(current) + 1 ELSE longest
        /\ UNCHANGED <<pRxMessageLineStartPoint, memory, GPS_data, resolved_GPS_data_count, last, lines>>
    BY <1>7 DEF HAL_UART5_RxCpltCallback
  <2>2. current' \in Seq(Byte) /\ Len(current') = Len(current) + 1
    BY <1>2, <2>1, AppendProperties
  <2>3. longest' \in 0 .. bytes' /\ Len(current') <= longest' /\ lines' \in 0 .. bytes'
        /\ resolved_GPS_data_count' \in 0 .. bytes'
    BY <1>1, <1>2, <1>3, <2>1, <2>2
  <2> QED BY <1>2, <1>6, <2>1, <2>2, <2>3 DEF NmeaTyped, NmeaTypeOK
<1>8. CASE b = "EOL"
  <2> DEFINE text == RingLine(aRxBuffer')
             copied == Copy(text)
             parsed == nmea_parse_GGA(copied)
             number == IF Len(current) % RXBUFFERSIZE = 0 THEN lines ELSE lines + 1
             held == (bufferPoint - pRxMessageLineStartPoint) % RXBUFFERSIZE
  <2>1. /\ longest' = longest
        /\ lines' = number /\ last' = IF number = lines THEN last ELSE current
        /\ pRxMessageLineStartPoint' = (bufferPoint + 1) % RXBUFFERSIZE
        /\ memory' = [a \in DOMAIN memory |->
             IF parsed /\ a \in LINE .. LINE + LINE - 1 THEN copied[a - LINE] ELSE copied[a]]
        /\ GPS_data' = CASE parsed -> number
                         [] ~parsed /\ Len(text) + 1 > LINE + LINE + Gap /\ text # <<>> -> -1
                         [] OTHER -> GPS_data
        /\ resolved_GPS_data_count' = resolved_GPS_data_count + IF parsed THEN 1 ELSE 0
        /\ current' = <<>>
    BY <1>8 DEF HAL_UART5_RxCpltCallback, LineEnd
  <2>2. /\ Len(text) \in Nat
        /\ \A n \in 1 .. Len(text) : text[n] \in Byte \cup {"NUL"}
    <3>1. held \in Nat
      BY <1>2, <1>3, <1>4 DEF Points
    <3>2. ASSUME NEW n \in 1 .. held
          PROVE  aRxBuffer'[(pRxMessageLineStartPoint + n - 1) % RXBUFFERSIZE] \in Byte \cup {"NUL"}
      <4>1. pRxMessageLineStartPoint + n - 1 \in Int
        BY <1>2, <3>1 DEF Points
      <4>2. (pRxMessageLineStartPoint + n - 1) % RXBUFFERSIZE \in Points
        BY <1>4, <4>1
      <4> QED BY <1>6, <4>2
    <3>3. text = [n \in 1 .. held |->
                    aRxBuffer'[(pRxMessageLineStartPoint + n - 1) % RXBUFFERSIZE]]
      BY DEF RingLine
    <3> HIDE DEF held, text
    <3>4. text \in [1 .. held -> Byte \cup {"NUL"}]
      BY <3>2, <3>3
    <3>5. text \in Seq(Byte \cup {"NUL"}) /\ Len(text) = held
      BY <3>1, <3>4, FunIsSeq
    <3> QED BY <3>1, <3>4, <3>5
  <2> HIDE DEF text
  <2>3. copied \in [0 .. LINE + LINE + Gap - 1 -> Byte \cup {"NUL"}]
    <3>1. CASE text = <<>>
      BY <1>2, <3>1 DEF Copy
    <3>2. CASE text # <<>>
      <4>1. copied = [a \in DOMAIN memory |->
                        IF a < Len(text) THEN text[a + 1]
                        ELSE IF a = Len(text) THEN "NUL" ELSE memory[a]]
        BY <3>2 DEF Copy
      <4>2. DOMAIN memory = 0 .. LINE + LINE + Gap - 1
        BY <1>2
      <4>3. ASSUME NEW a \in 0 .. LINE + LINE + Gap - 1, a < Len(text)
            PROVE  text[a + 1] \in Byte \cup {"NUL"}
        BY <1>3, <2>2, <4>3
      <4> QED BY <1>2, <4>1, <4>2, <4>3
    <3> QED BY <3>1, <3>2
  <2> HIDE DEF copied
  <2>4. memory' \in [0 .. LINE + LINE + Gap - 1 -> Byte \cup {"NUL"}]
    <3>1. DOMAIN memory = 0 .. LINE + LINE + Gap - 1
      BY <1>2
    <3>2. ASSUME NEW a \in 0 .. LINE + LINE + Gap - 1, a \in LINE .. LINE + LINE - 1
          PROVE  copied[a - LINE] \in Byte \cup {"NUL"}
      <4>1. a - LINE \in 0 .. LINE + LINE + Gap - 1
        BY <1>3, <3>2
      <4> QED BY <2>3, <4>1
    <3> QED BY <2>1, <2>3, <3>1, <3>2
  <2> HIDE DEF parsed
  <2>5. number \in {lines, lines + 1}
    OBVIOUS
  <2> HIDE DEF number
  <2>6. /\ lines' \in 0 .. bytes' /\ longest' \in 0 .. bytes' /\ resolved_GPS_data_count' \in 0 .. bytes'
    <3>1. resolved_GPS_data_count' \in {resolved_GPS_data_count, resolved_GPS_data_count + 1}
      <4>1. CASE parsed
        BY <2>1, <4>1
      <4>2. CASE ~parsed
        BY <1>2, <1>3, <2>1, <4>2
      <4> QED BY <4>1, <4>2
    <3>2. /\ lines' = number /\ longest' = longest /\ bytes' = bytes + 1 /\ bytes \in Nat
          /\ lines \in Nat /\ lines <= bytes /\ longest \in Nat /\ longest <= bytes
          /\ resolved_GPS_data_count \in Nat /\ resolved_GPS_data_count <= bytes
      BY <1>1, <1>2, <1>3, <2>1
    <3> QED BY <2>5, <3>1, <3>2
  <2>7. GPS_data' \in -1 .. lines'
    <3>1. GPS_data' \in {number, -1, GPS_data}
      BY <2>1
    <3>2. lines' = number /\ lines \in Nat /\ GPS_data \in Int /\ GPS_data >= -1 /\ GPS_data <= lines
      BY <1>2, <1>3, <2>1
    <3>3. number \in Nat /\ lines <= number
      BY <2>5, <3>2
    <3> QED BY <3>1, <3>2, <3>3
  <2>8. last' \in Seq(Byte) /\ current' \in Seq(Byte) /\ Len(current') <= longest'
    BY <1>2, <1>3, <2>1, EmptySeq
  <2>9. pRxMessageLineStartPoint' \in Points
    BY <1>4, <1>5, <2>1
  <2> QED BY <1>6, <2>4, <2>6, <2>7, <2>8, <2>9 DEF NmeaTyped, NmeaTypeOK
<1> QED BY <1>7, <1>8

\* The ring, the line and its counters have their types, however large GPS_data
\* and the ring are.
THEOREM NmeaTypeCorrect == NmeaSpec => []NmeaTypeOK
<1>1. NmeaInit => NmeaTyped
  BY InitNmea DEF NmeaInv, Counts, NmeaTyped
<1>2. NmeaTyped /\ [NmeaNext]_nmeaVars => NmeaTyped'
  <2> SUFFICES ASSUME NmeaTyped, [NmeaNext]_nmeaVars PROVE NmeaTyped'
    OBVIOUS
  <2>1. CASE UNCHANGED nmeaVars
    BY <2>1 DEF nmeaVars, NmeaTyped, NmeaTypeOK
  <2>2. CASE NmeaNext
    BY <2>2, ByteTyped DEF NmeaNext
  <2> QED BY <2>1, <2>2
<1>3. NmeaTyped => NmeaTypeOK
  BY DEF NmeaTyped
<1> QED BY <1>1, <1>2, <1>3, PTL DEF NmeaSpec

-----------------------------------------------------------------------------
(* IotTimer *)

USE TimerAssumption

\* The clock and the deadline are where the elapsed time says.
ClockFits == clock = Plus(Minus(time, ms), elapsed)

\* iot_timer_left is between its looks only if the first one found time left.
LookFits == leftPc = "looked" => firstLook < ms /\ firstLook <= elapsed

TimerInv == TimerTypeOK /\ ms \in Nat /\ elapsed \in Nat /\ firstLook \in Nat
          /\ ClockFits /\ LookFits

\* Whatever the clock shows, the difference tells the two sides of a deadline
\* apart.
LEMMA Deadline ==
  ASSUME TimerTypeOK, ClockFits
  PROVE  /\ iot_timer_is_expired <=> elapsed >= ms
         /\ elapsed <= ms => Minus(time, clock) = ms - elapsed
         /\ elapsed > ms => Minus(time, clock) = 2 * Half - (elapsed - ms)
         /\ elapsed >= ms => Minus(clock, time) = elapsed - ms
  BY DEF TimerTypeOK, ClockFits, iot_timer_is_expired, Plus, Minus, Clock

\* A deadline that is m after a, and back
LEMMA ThereAndBack ==
  ASSUME NEW a \in Clock, NEW m \in 0 .. MaxMs
  PROVE  Plus(a, m) \in Clock /\ Plus(Minus(Plus(a, m), m), 0) = a
<1>1. a \in Int /\ m \in Int /\ 0 <= a /\ a < 2 * Half /\ 0 <= m /\ m < Half
  BY DEF Clock
<1>2. CASE a + m < 2 * Half
  BY <1>1, <1>2 DEF Clock, Plus, Minus
<1>3. CASE ~(a + m < 2 * Half)
  <2>1. Plus(a, m) = a + m - 2 * Half
    BY <1>3 DEF Plus
  <2>2. Minus(Plus(a, m), m) = a
    BY <1>1, <1>3, <2>1 DEF Minus
  <2>3. QED
    BY <1>1, <1>3, <2>1, <2>2 DEF Clock, Plus
<1>4. QED
  BY <1>2, <1>3

LEMMA TimerInvariant == TimerSpec => []TimerInv
<1>1. TimerInit => TimerInv
  BY DEF TimerInit, TimerInv, TimerTypeOK, ClockFits, LookFits, Plus, Minus, Clock
<1>2. TimerInv /\ [TimerNext]_timerVars => TimerInv'
  <2> SUFFICES ASSUME TimerInv, [TimerNext]_timerVars PROVE TimerInv'
    OBVIOUS
  <2> USE DEF TimerInv
  <2>1. CASE Tick
    <3>1. clock' \in Clock
      BY <2>1 DEF Tick, TimerTypeOK, Clock, Plus
    <3>2. TimerTypeOK' /\ LookFits'
      BY <2>1, <3>1 DEF Tick, TimerTypeOK, LookFits, Clock
    <3>3. ClockFits'
      BY <2>1 DEF Tick, TimerTypeOK, ClockFits, Plus, Minus, Clock
    <3>4. QED
      BY <2>1, <3>2, <3>3 DEF Tick
  <2>2. CASE Countdown
    <3>1. /\ ms' \in 0 .. MaxMs /\ time' = Plus(clock, ms') /\ elapsed' = 0
          /\ clock' = clock /\ left' = left /\ firstLook' = firstLook
          /\ leftPc = "idle" /\ leftPc' = leftPc
      BY <2>2 DEF Countdown
    <3>2. time' \in Clock /\ clock' = Plus(Minus(time', ms'), elapsed')
      BY <3>1, ThereAndBack DEF TimerTypeOK
    <3>3. TimerTypeOK'
      BY <3>1, <3>2 DEF TimerTypeOK
    <3>4. LookFits' /\ ClockFits'
      BY <3>1, <3>2 DEF LookFits, ClockFits
    <3>5. ms' \in Nat /\ elapsed' \in Nat /\ firstLook' \in Nat
      BY <3>1
    <3>6. QED
      BY <3>3, <3>4, <3>5
  <2>3. CASE LeftLook
    <3>1. ~iot_timer_is_expired => elapsed < ms
      BY Deadline
    <3>2. TimerTypeOK' /\ LookFits' /\ ClockFits'
      BY <2>3, <3>1 DEF LeftLook, TimerTypeOK, LookFits, ClockFits, Clock, Plus, Minus
    <3>3. QED
      BY <2>3, <3>2 DEF LeftLook
  <2>4. CASE LeftSubtract
    BY <2>4 DEF LeftSubtract, TimerTypeOK, LookFits, ClockFits, Clock, Plus, Minus
  <2>5. CASE UNCHANGED timerVars
    BY <2>5 DEF timerVars, TimerTypeOK, LookFits, ClockFits, Clock, Plus, Minus
  <2>6. QED
    BY <2>1, <2>2, <2>3, <2>4, <2>5 DEF TimerNext
<1>3. QED
  BY <1>1, <1>2, PTL DEF TimerSpec

-----------------------------------------------------------------------------
\* A timer expires at its deadline and not before, for every width of the
\* clock and wherever it wraps.
THEOREM Expired == TimerSpec => []ExpiredOnTime
<1>1. TimerInv => ExpiredOnTime
  <2> SUFFICES ASSUME TimerInv PROVE ExpiredOnTime
    OBVIOUS
  <2>1. QED
    BY Deadline DEF TimerInv, ExpiredOnTime, iot_timer_spend
<1>2. QED
  BY <1>1, TimerInvariant, PTL

\* iot_timer_left goes wrong in the gap between its two looks, and only there.
THEOREM LeftOnTime == TimerSpec => LeftIsLeft
<1>1. TimerInv /\ [TimerNext]_timerVars =>
        [LeftSubtract => IF elapsed <= ms THEN left' = ms - elapsed
                         ELSE firstLook < ms /\ left' > MaxMs]_timerVars
  <2> SUFFICES ASSUME TimerInv, LeftSubtract
               PROVE  IF elapsed <= ms THEN left' = ms - elapsed
                      ELSE firstLook < ms /\ left' > MaxMs
    OBVIOUS
  <2>1. left' = Minus(time, clock) /\ leftPc = "looked"
    BY DEF LeftSubtract
  <2>2. QED
    BY <2>1, Deadline DEF TimerInv, LookFits, TimerTypeOK
<1>2. QED
  BY <1>1, TimerInvariant, PTL DEF TimerSpec, LeftIsLeft

-----------------------------------------------------------------------------
(* Lm61At *)

\* What the driver has not read yet, in order
Unread == rx \o coming

Kinds == {"echo", "AT^SISHR=0", "AT^SISH=0", "DATA", "OTHER", "OK", "ERROR"}
Line == [line : Kinds, id : Nat]

AtTypes ==
  /\ atPc \in {"idle", "send", "wait", "halted"} /\ call \in Calls
  /\ cmd \in Nat /\ tries \in Nat /\ sends \in Nat /\ first \in Nat /\ read \in Nat
  /\ coming \in Seq(Line) /\ rx \in Seq(Line) /\ recvBuffer \in Seq(Line)
  /\ clean \in BOOLEAN /\ cleanStart \in BOOLEAN /\ foreign \in BOOLEAN

\* The whole answer to the command with this id
IsAnswer(s, style, id) ==
  /\ \A n \in 1 .. Len(s) : s[n].id = id
  /\ s[1].line = Echo(style)
  /\ \/ Len(s) = 2 /\ s[2].line \in {"OK", "ERROR"}
     \/ Len(s) = 3 /\ s[2].line \in {"DATA", "OTHER"} /\ s[3].line = "OK"

\* As long as clean holds, nothing is left of earlier commands, and the answer
\* to the command that runs is unread as a whole.
Own ==
  /\ ~foreign
  /\ clean => /\ atPc \in {"idle", "send"} => Unread = <<>>
              /\ atPc = "wait" => /\ recvBuffer = <<>>
                                  /\ Unread = <<>> \/ IsAnswer(Unread, Style, sends)

\* How far LM61_socketOpen is
OpenGoes ==
  call = "open" /\ cleanStart =>
    /\ atPc = "send" => /\ clean /\ cmd = sends - first + 1 /\ cmd < Open
                        /\ first .. sends \subseteq accepted
    /\ atPc = "wait" => /\ clean /\ cmd = sends - first /\ cmd < Open
                        /\ first .. sends - 1 \subseteq accepted
                        /\ \A n \in 1 .. Len(Unread) : Unread[n].line = "OK" => sends \in accepted
    /\ atPc = "idle" /\ result = "SUCCESS" =>
         first .. sends \subseteq accepted /\ sends - first + 1 = Open

\* Data comes in the order of the commands, and is newer than what was returned.
IsData(s, n) == n \in 1 .. Len(s) /\ s[n].line = "DATA"
Sorted(u, newest, r) ==
  /\ \A n \in 1 .. Len(u) : u[n].id <= newest /\ (IsData(u, n) => r < u[n].id)
  /\ \A n, m \in 1 .. Len(u) : IsData(u, n) /\ IsData(u, m) /\ n < m => u[n].id < u[m].id
Before(b, u, newest, r) ==
  \A n \in 1 .. Len(b) :
    /\ b[n].id <= newest
    /\ IsData(b, n) => /\ r < b[n].id
                       /\ \A m \in 1 .. Len(u) : IsData(u, m) => b[n].id < u[m].id
DataInOrder ==
  /\ read <= sends /\ Sorted(Unread, sends, read)
  /\ atPc = "wait" => Before(recvBuffer, Unread, sends, read)

AtInv == AtTypes /\ Own /\ OpenGoes /\ DataInOrder

-----------------------------------------------------------------------------

\* A line moves from one sequence to the other.
LEMMA MoveOne ==
  ASSUME NEW T, NEW a \in Seq(T), NEW b \in Seq(T), b # <<>>
  PROVE  /\ Append(a, Head(b)) \in Seq(T) /\ Tail(b) \in Seq(T)
         /\ Append(a, Head(b)) \o Tail(b) = a \o b
<1> DEFINE c == Append(a, Head(b))
           d == Tail(b)
<1>1. Len(a) \in Nat /\ Len(b) \in Nat /\ Len(b) > 0
  BY EmptySeq
<1>2. /\ Head(b) \in T /\ Head(b) = b[1] /\ d \in Seq(T) /\ Len(d) = Len(b) - 1
      /\ \A n \in 1 .. Len(d) : d[n] = b[n + 1]
  BY HeadTailProperties
<1>3. /\ c \in Seq(T) /\ Len(c) = Len(a) + 1 /\ c[Len(a) + 1] = b[1]
      /\ \A n \in 1 .. Len(a) : c[n] = a[n]
  BY <1>2, AppendProperties
<1> HIDE DEF c, d
<1>4. /\ a \o b \in Seq(T) /\ Len(a \o b) = Len(a) + Len(b)
      /\ \A n \in 1 .. Len(a) + Len(b) : (a \o b)[n] = IF n <= Len(a) THEN a[n] ELSE b[n - Len(a)]
  BY ConcatProperties
<1>5. /\ c \o d \in Seq(T) /\ Len(c \o d) = Len(c) + Len(d)
      /\ \A n \in 1 .. Len(c) + Len(d) : (c \o d)[n] = IF n <= Len(c) THEN c[n] ELSE d[n - Len(c)]
  BY <1>2, <1>3, ConcatProperties
<1>6. Len(c) + Len(d) = Len(a) + Len(b)
  BY <1>1, <1>2, <1>3
<1>7. ASSUME NEW n \in 1 .. Len(a) + Len(b) PROVE (c \o d)[n] = (a \o b)[n]
  <2>1. n \in Nat /\ n <= Len(a) + Len(b) /\ n > 0
    BY <1>1
  <2>2. CASE n <= Len(a)
    <3>1. n <= Len(c) /\ n \in 1 .. Len(a)
      BY <1>1, <1>3, <2>1, <2>2
    <3>2. QED
      BY <1>3, <1>4, <1>5, <1>6, <2>2, <3>1
  <2>3. CASE n = Len(a) + 1
    <3>1. n <= Len(c) /\ ~(n <= Len(a)) /\ n - Len(a) = 1
      BY <1>1, <1>3, <2>3
    <3>2. QED
      BY <1>3, <1>4, <1>5, <1>6, <2>3, <3>1
  <2>4. CASE n > Len(a) + 1
    <3>1. ~(n <= Len(c)) /\ ~(n <= Len(a)) /\ n - Len(c) \in 1 .. Len(d) /\ n - Len(c) + 1 = n - Len(a)
      BY <1>1, <1>2, <1>3, <2>1, <2>4
    <3>2. d[n - Len(c)] = b[n - Len(a)]
      BY <1>2, <3>1
    <3>3. QED
      BY <1>4, <1>5, <1>6, <3>1, <3>2
  <2>5. n <= Len(a) \/ n = Len(a) + 1 \/ n > Len(a) + 1
    BY <1>1, <2>1
  <2>6. QED
    BY <2>2, <2>3, <2>4, <2>5
<1>8. c \o d = a \o b
  BY <1>4, <1>5, <1>6, <1>7, SeqEqual
<1>9. QED
  BY <1>2, <1>3, <1>8 DEF c, d

\* A slice of n lines is taken from u, and v is left.
Taken(u, v, slice, n) ==
  /\ u \in Seq(Line) /\ v \in Seq(Line)
  /\ slice \in Seq(Line) /\ Len(slice) = n /\ n \in Nat /\ n > 0
  /\ n <= Len(u) /\ Len(v) = Len(u) - n
  /\ \A i \in 1 .. n : slice[i] = u[i]
  /\ \A i \in 1 .. Len(v) : v[i] = u[i + n]

\* A poll takes lines of the ring.
LEMMA TakeFirst ==
  ASSUME NEW a \in Seq(Line), NEW b \in Seq(Line), NEW n \in 1 .. Len(a)
  PROVE  /\ SubSeq(a, n + 1, Len(a)) \in Seq(Line)
         /\ Taken(a \o b, SubSeq(a, n + 1, Len(a)) \o b, SubSeq(a, 1, n), n)
<1> DEFINE s == SubSeq(a, 1, n)
           c == SubSeq(a, n + 1, Len(a))
           u == a \o b
           v == c \o b
<1>1. Len(a) \in Nat /\ Len(b) \in Nat /\ n \in Nat /\ n > 0 /\ n <= Len(a)
  OBVIOUS
<1>2. s \in Seq(Line) /\ Len(s) = n /\ \A i \in 1 .. n : s[i] = a[i]
  BY <1>1
<1>3. c \in Seq(Line) /\ Len(c) = Len(a) - n /\ \A i \in 1 .. Len(a) - n : c[i] = a[i + n]
  BY <1>1
<1> HIDE DEF c, s
<1>4. /\ u \in Seq(Line) /\ Len(u) = Len(a) + Len(b)
      /\ \A i \in 1 .. Len(a) + Len(b) : u[i] = IF i <= Len(a) THEN a[i] ELSE b[i - Len(a)]
  BY ConcatProperties
<1>6. /\ v \in Seq(Line) /\ Len(v) = Len(c) + Len(b)
      /\ \A i \in 1 .. Len(c) + Len(b) : v[i] = IF i <= Len(c) THEN c[i] ELSE b[i - Len(c)]
  <2>1. c \in Seq(Line)
    BY <1>3
  <2>2. /\ c \o b \in Seq(Line) /\ Len(c \o b) = Len(c) + Len(b)
        /\ \A i \in 1 .. Len(c) + Len(b) :
             (c \o b)[i] = IF i <= Len(c) THEN c[i] ELSE b[i - Len(c)]
    BY <2>1, ConcatProperties
  <2>3. QED
    BY <2>2
<1> HIDE DEF u, v
<1>7. Len(v) = Len(u) - n /\ n <= Len(u)
  BY <1>1, <1>3, <1>4, <1>6
<1>8. ASSUME NEW i \in 1 .. n PROVE s[i] = u[i]
  <2>1. i <= Len(a) /\ i \in 1 .. Len(a) + Len(b)
    BY <1>1
  <2>2. QED
    BY <1>2, <1>4, <2>1
<1>9. ASSUME NEW i \in 1 .. Len(v) PROVE v[i] = u[i + n]
  <2>1. i \in Nat /\ i > 0 /\ i <= Len(c) + Len(b) /\ i + n \in 1 .. Len(a) + Len(b)
        /\ i \in 1 .. Len(c) + Len(b)
    BY <1>1, <1>3, <1>6
  <2>2. CASE i <= Len(c)
    <3>1. i \in 1 .. Len(a) - n /\ i + n <= Len(a)
      BY <1>1, <1>3, <2>1, <2>2
    <3>2. QED
      BY <1>3, <1>4, <1>6, <2>1, <2>2, <3>1
  <2>3. CASE ~(i <= Len(c))
    <3>1. ~(i + n <= Len(a)) /\ i - Len(c) = i + n - Len(a)
      BY <1>1, <1>3, <2>1, <2>3
    <3>2. v[i] = b[i - Len(c)]
      BY <1>6, <2>1, <2>3
    <3>3. u[i + n] = b[i + n - Len(a)]
      BY <1>4, <2>1, <3>1
    <3>4. QED
      BY <3>1, <3>2, <3>3
  <2>4. QED
    BY <2>2, <2>3
<1>10. QED
  BY <1>1, <1>2, <1>3, <1>4, <1>6, <1>7, <1>8, <1>9 DEF Taken, s, c, u, v

\* What a poll of n lines does to the unread ones
LEMMA PollTakes ==
  ASSUME AtTypes, NEW n \in 1 .. Len(rx), rx' = SubSeq(rx, n + 1, Len(rx)), coming' = coming
  PROVE  rx' \in Seq(Line) /\ Taken(Unread, Unread', SubSeq(rx, 1, n), n)
<1>1. coming \in Seq(Line) /\ rx \in Seq(Line)
  BY DEF AtTypes
<1>2. Unread = rx \o coming /\ Unread' = SubSeq(rx, n + 1, Len(rx)) \o coming
  BY DEF Unread
<1>3. QED
  BY <1>1, <1>2, TakeFirst

\* A line that arrives was unread before.
LEMMA ArrivesUnread ==
  ASSUME AtTypes, Arrive
  PROVE  Unread' = Unread /\ rx' \in Seq(Line) /\ coming' \in Seq(Line)
<1>1. coming # <<>> /\ rx' = Append(rx, Head(coming)) /\ coming' = Tail(coming)
  BY DEF Arrive
<1>2. coming \in Seq(Line) /\ rx \in Seq(Line)
  BY DEF AtTypes
<1>3. QED
  BY <1>1, <1>2, MoveOne DEF Unread

\* The lines of the modem's answer to a command, once it has been sent
LEMMA ModemAnswers ==
  ASSUME AtTypes, NEW a \in Answers(Style), NEW s,
         s = [n \in DOMAIN (<<Echo(Style)>> \o a) |->
                [line |-> (<<Echo(Style)>> \o a)[n], id |-> sends + 1]]
  PROVE  /\ s \in Seq(Line) /\ IsAnswer(s, Style, sends + 1)
         /\ \A n, m \in 1 .. Len(s) : ~(IsData(s, n) /\ IsData(s, m) /\ n < m)
         /\ \A n \in 1 .. Len(s) : s[n].line = "OK" => "OK" \in Range(a)
<1> DEFINE e == Echo(Style)
           l == <<e>> \o a
<1>1. e \in {"echo", "AT^SISHR=0", "AT^SISH=0"}
  BY DEF Echo
<1>2. a \in {<<"OK">>, <<"ERROR">>, <<"DATA", "OK">>, <<"OTHER", "OK">>}
  BY DEF Answers
<1> HIDE DEF e
<1>3. CASE a \in {<<"OK">>, <<"ERROR">>}
  <2>1. Len(l) = 2 /\ DOMAIN l = 1 .. 2 /\ l[1] = e /\ l[2] = a[1] /\ a[1] \in {"OK", "ERROR"}
    BY <1>3
  <2> HIDE DEF l
  <2>2. s = [n \in 1 .. 2 |-> [line |-> l[n], id |-> sends + 1]]
    BY <2>1 DEF l, e
  <2>3. s[1] = [line |-> e, id |-> sends + 1] /\ s[2] = [line |-> a[1], id |-> sends + 1]
    BY <2>1, <2>2
  <2>4. s[1] \in Line /\ s[2] \in Line
    <3>1. e \in Kinds /\ a[1] \in Kinds /\ sends + 1 \in Nat
      BY <1>1, <2>1 DEF Kinds, AtTypes
    <3>2. QED
      BY <2>3, <3>1 DEF Line
  <2>5. s \in [1 .. 2 -> Line]
    <3>1. \A n \in 1 .. 2 : n = 1 \/ n = 2
      OBVIOUS
    <3>2. \A n \in 1 .. 2 : s[n] \in Line
      BY <2>4, <3>1
    <3>3. QED
      BY <2>2, <3>2
  <2>6. s \in Seq(Line) /\ Len(s) = 2
    BY <2>2, <2>5
  <2>7. IsAnswer(s, Style, sends + 1)
    BY <2>1, <2>3, <2>6 DEF IsAnswer, e
  <2>8. \A n \in 1 .. Len(s) : ~IsData(s, n)
    BY <1>1, <2>1, <2>3, <2>6 DEF IsData
  <2>9. a[1] \in Range(a)
    <3>1. 1 \in DOMAIN a
      BY <1>3
    <3>2. QED
      BY <3>1 DEF Range
  <2>10. QED
    <3>1. s[1].line # "OK" /\ s[2].line = a[1]
      BY <1>1, <2>3
    <3>2. \A n \in 1 .. Len(s) : s[n].line = "OK" => "OK" \in Range(a)
      BY <2>6, <2>9, <3>1
    <3>3. QED
      BY <2>6, <2>7, <2>8, <3>2
<1>4. CASE a \in {<<"DATA", "OK">>, <<"OTHER", "OK">>}
  <2>1. Len(l) = 3 /\ DOMAIN l = 1 .. 3 /\ l[1] = e /\ l[2] = a[1] /\ l[3] = a[2]
        /\ a[1] \in {"DATA", "OTHER"} /\ a[2] = "OK" /\ 2 \in DOMAIN a
    <3>1. CASE a = <<"DATA", "OK">>
      BY <3>1
    <3>2. CASE a = <<"OTHER", "OK">>
      BY <3>2
    <3>3. QED
      BY <1>4, <3>1, <3>2
  <2> HIDE DEF l
  <2>2. s = [n \in 1 .. 3 |-> [line |-> l[n], id |-> sends + 1]]
    BY <2>1 DEF l, e
  <2>3. s[1] = [line |-> e, id |-> sends + 1] /\ s[2] = [line |-> a[1], id |-> sends + 1]
        /\ s[3] = [line |-> "OK", id |-> sends + 1]
    BY <2>1, <2>2
  <2>4. s[1] \in Line /\ s[2] \in Line /\ s[3] \in Line
    <3>1. e \in Kinds /\ a[1] \in Kinds /\ "OK" \in Kinds /\ sends + 1 \in Nat
      BY <1>1, <2>1 DEF Kinds, AtTypes
    <3>2. s[1] \in Line
      BY <2>3, <3>1 DEF Line
    <3>3. s[2] \in Line
      BY <2>3, <3>1 DEF Line
    <3>4. s[3] \in Line
      BY <2>3, <3>1, SMTT(30) DEF Line
    <3>5. QED
      BY <3>2, <3>3, <3>4
  <2>5. s \in [1 .. 3 -> Line]
    <3>1. \A n \in 1 .. 3 : n = 1 \/ n = 2 \/ n = 3
      OBVIOUS
    <3>2. \A n \in 1 .. 3 : s[n] \in Line
      BY <2>4, <3>1
    <3>3. QED
      BY <2>2, <3>2
  <2>6. s \in Seq(Line) /\ Len(s) = 3
    BY <2>5, FunIsSeq
  <2>7. IsAnswer(s, Style, sends + 1)
    BY <2>1, <2>3, <2>6 DEF IsAnswer, e
  <2>8. \A n \in 1 .. Len(s) : IsData(s, n) => n = 2
    BY <1>1, <2>1, <2>3, <2>6 DEF IsData
  <2>9. a[2] \in Range(a)
    BY <2>1 DEF Range
  <2>10. QED
    <3>1. "OK" \in Range(a)
      BY <2>1, <2>9
    <3>2. \A n, m \in 1 .. Len(s) : ~(IsData(s, n) /\ IsData(s, m) /\ n < m)
      <4>1. SUFFICES ASSUME NEW n \in 1 .. Len(s), NEW m \in 1 .. Len(s),
                            IsData(s, n), IsData(s, m)
                     PROVE  ~(n < m)
        OBVIOUS
      <4>2. n = 2 /\ m = 2
        BY <2>8, <4>1
      <4>3. QED
        BY <4>2
    <3>3. QED
      BY <2>6, <2>7, <3>1, <3>2
<1>5. QED
  BY <1>2, <1>3, <1>4

-----------------------------------------------------------------------------
\* What is left stays sorted, and what was taken comes before it.
LEMMA TakenSorted ==
  ASSUME NEW u, NEW v, NEW s, NEW n, NEW newest \in Nat, NEW r \in Nat,
         Taken(u, v, s, n), Sorted(u, newest, r)
  PROVE  Sorted(v, newest, r) /\ Before(s, v, newest, r)
<1>1. n \in Nat /\ n > 0 /\ Len(u) \in Nat /\ Len(v) \in Nat /\ n <= Len(u)
      /\ Len(v) = Len(u) - n /\ Len(s) = n
      /\ (\A i \in 1 .. n : s[i] = u[i]) /\ (\A i \in 1 .. Len(v) : v[i] = u[i + n])
  BY DEF Taken
<1>2. ASSUME NEW i \in 1 .. Len(v)
      PROVE  i + n \in 1 .. Len(u) /\ v[i] = u[i + n] /\ (IsData(v, i) => IsData(u, i + n))
  <2>1. i + n \in 1 .. Len(u) /\ v[i] = u[i + n]
    BY <1>1
  <2>2. QED
    BY <2>1 DEF IsData
<1>3. ASSUME NEW i \in 1 .. Len(s)
      PROVE  i \in 1 .. Len(u) /\ s[i] = u[i] /\ (IsData(s, i) => IsData(u, i))
  <2>1. i \in 1 .. Len(u) /\ s[i] = u[i]
    BY <1>1
  <2>2. QED
    BY <2>1 DEF IsData
<1>4. ASSUME NEW i \in 1 .. Len(s), NEW k \in 1 .. Len(v) PROVE i < k + n
  BY <1>1
<1>5. ASSUME NEW i \in 1 .. Len(v), NEW k \in 1 .. Len(v), i < k PROVE i + n < k + n
  BY <1>1, <1>5
<1>6. Sorted(v, newest, r)
  BY <1>2, <1>5 DEF Sorted
<1>7. Before(s, v, newest, r)
  BY <1>2, <1>3, <1>4 DEF Sorted, Before
<1>8. QED
  BY <1>6, <1>7

\* What came before the unread lines comes before the rest of them.
LEMMA TakenBefore ==
  ASSUME NEW b, NEW u, NEW v, NEW s, NEW n, NEW newest \in Nat, NEW r \in Nat,
         Taken(u, v, s, n), Before(b, u, newest, r)
  PROVE  Before(b, v, newest, r)
<1>1. ASSUME NEW i \in 1 .. Len(v)
      PROVE  i + n \in 1 .. Len(u) /\ v[i] = u[i + n] /\ (IsData(v, i) => IsData(u, i + n))
  <2>1. i + n \in 1 .. Len(u) /\ v[i] = u[i + n]
    BY DEF Taken
  <2>2. QED
    BY <2>1 DEF IsData
<1>2. QED
  BY <1>1 DEF Before

\* A line of recvBuffer is of this poll or of an earlier one.
LEMMA CopiedLines ==
  ASSUME NEW s \in Seq(Line), NEW r \in Seq(Line),
         NEW c, c = s \o SubSeq(r, Len(s) + 1, Len(r))
  PROVE  /\ c \in Seq(Line)
         /\ \A i \in 1 .. Len(c) : \/ i \in 1 .. Len(s) /\ c[i] = s[i]
                                   \/ i \in 1 .. Len(r) /\ c[i] = r[i]
         /\ \A i \in 1 .. Len(s) : i \in 1 .. Len(c) /\ c[i] = s[i]
         /\ r = <<>> => c = s
<1> DEFINE d == SubSeq(r, Len(s) + 1, Len(r))
<1>1. Len(s) \in Nat /\ Len(r) \in Nat
  OBVIOUS
<1>2. /\ d \in Seq(Line)
      /\ Len(d) = IF Len(s) + 1 <= Len(r) THEN Len(r) - Len(s) ELSE 0
      /\ \A i \in 1 .. Len(d) : d[i] = r[Len(s) + i]
  <2>1. CASE Len(s) + 1 <= Len(r)
    BY <1>1, <2>1, SubSeqProperties
  <2>2. CASE ~(Len(s) + 1 <= Len(r))
    BY <1>1, <2>2, SubSeqProperties
  <2>3. QED
    BY <2>1, <2>2
<1> HIDE DEF d
<1>3. /\ c \in Seq(Line) /\ Len(c) = Len(s) + Len(d)
      /\ \A i \in 1 .. Len(s) + Len(d) : c[i] = IF i <= Len(s) THEN s[i] ELSE d[i - Len(s)]
  <2>1. c = s \o d
    BY DEF d
  <2>2. QED
    BY <1>2, <2>1, ConcatProperties
<1>4. ASSUME NEW i \in 1 .. Len(c)
      PROVE  \/ i \in 1 .. Len(s) /\ c[i] = s[i]
             \/ i \in 1 .. Len(r) /\ c[i] = r[i]
  <2>1. CASE i <= Len(s)
    <3>1. i \in 1 .. Len(s) /\ i \in 1 .. Len(s) + Len(d)
      BY <1>1, <1>2, <1>3, <2>1
    <3>2. c[i] = IF i <= Len(s) THEN s[i] ELSE d[i - Len(s)]
      BY <1>3, <3>1
    <3>3. c[i] = s[i]
      BY <2>1, <3>2, Zenon
    <3>4. QED
      BY <3>1, <3>3, Zenon
  <2>2. CASE ~(i <= Len(s))
    <3>1. i - Len(s) \in 1 .. Len(d) /\ Len(s) + (i - Len(s)) = i /\ i \in 1 .. Len(r)
      BY <1>1, <1>2, <1>3, <2>2
    <3>2. c[i] = d[i - Len(s)]
      BY <1>3, <2>2
    <3>3. d[i - Len(s)] = r[Len(s) + (i - Len(s))]
      BY <1>2, <3>1
    <3>4. QED
      BY <3>1, <3>2, <3>3
  <2>3. QED
    BY <2>1, <2>2
<1>5. ASSUME NEW i \in 1 .. Len(s) PROVE i \in 1 .. Len(c) /\ c[i] = s[i]
  BY <1>1, <1>2, <1>3
<1>6. ASSUME r = <<>> PROVE c = s
  <2>1. Len(r) = 0
    BY <1>6
  <2>2. Len(d) = 0
    BY <1>1, <1>2, <2>1
  <2>3. Len(c) = Len(s)
    BY <1>1, <1>3, <2>2
  <2>4. QED
    BY <1>3, <1>5, <2>3, SeqEqual
<1>7. QED
  BY <1>3, <1>4, <1>5, <1>6

\* The same holds of what an earlier poll left in the buffer.
LEMMA CopiedBefore ==
  ASSUME NEW s \in Seq(Line), NEW r \in Seq(Line), NEW c, c = s \o SubSeq(r, Len(s) + 1, Len(r)),
         NEW v, NEW newest, NEW q, Before(s, v, newest, q), Before(r, v, newest, q)
  PROVE  Before(c, v, newest, q)
<1>1. ASSUME NEW i \in 1 .. Len(c)
      PROVE  /\ c[i].id <= newest
             /\ IsData(c, i) => /\ q < c[i].id
                                /\ \A m \in 1 .. Len(v) : IsData(v, m) => c[i].id < v[m].id
  <2>1. CASE i \in 1 .. Len(s) /\ c[i] = s[i]
    <3>1. IsData(c, i) => IsData(s, i)
      BY <2>1 DEF IsData
    <3>2. QED
      BY <2>1, <3>1 DEF Before
  <2>2. CASE i \in 1 .. Len(r) /\ c[i] = r[i]
    <3>1. IsData(c, i) => IsData(r, i)
      BY <2>2 DEF IsData
    <3>2. QED
      BY <2>2, <3>1 DEF Before
  <2>3. QED
    BY <2>1, <2>2, CopiedLines
<1>2. QED
  BY <1>1 DEF Before

\* Data that is returned is newer than what was, and the rest is newer still.
LEMMA ReadSorted ==
  ASSUME NEW t, NEW v, NEW newest \in Nat, NEW r \in Nat, NEW k,
         Before(t, v, newest, r), Sorted(v, newest, r), IsData(t, k)
  PROVE  r < t[k].id /\ t[k].id <= newest /\ Sorted(v, newest, t[k].id)
<1>1. k \in 1 .. Len(t)
  BY DEF IsData
<1>2. /\ t[k].id <= newest /\ r < t[k].id
      /\ \A m \in 1 .. Len(v) : IsData(v, m) => t[k].id < v[m].id
  BY <1>1 DEF Before
<1>3. QED
  BY <1>2 DEF Sorted

-----------------------------------------------------------------------------
\* The first line of an answer is no OK.
LEMMA EchoIsEcho ==
  ASSUME NEW style
  PROVE  Echo(style) \in {"echo", "AT^SISHR=0", "AT^SISH=0"}
BY DEF Echo

\* OK ends an answer: with it, all of the answer was taken.
LEMMA OkIsLast ==
  ASSUME NEW u, NEW v, NEW s, NEW n, NEW style, NEW id,
         Taken(u, v, s, n), IsAnswer(u, style, id), Has(s, "OK")
  PROVE  v = <<>>
<1>1. PICK k \in 1 .. n : s[k].line = "OK"
  <2>1. DOMAIN s = 1 .. n
    BY DEF Taken
  <2>2. QED
    BY <2>1 DEF Has
<1>2. /\ n \in Nat /\ Len(u) \in Nat /\ n <= Len(u) /\ Len(v) = Len(u) - n /\ v \in Seq(Line)
      /\ u[k].line = "OK"
  BY <1>1 DEF Taken
<1>3. k = Len(u)
  <2>1. k # 1
    <3>1. u[1].line # "OK"
      BY EchoIsEcho DEF IsAnswer
    <3>2. QED
      BY <1>2, <3>1
  <2>2. CASE Len(u) = 2
    BY <1>1, <1>2, <2>1, <2>2
  <2>3. CASE Len(u) = 3 /\ u[2].line \in {"DATA", "OTHER"}
    <3>1. k # 2
      BY <1>2, <2>3
    <3>2. k = 1 \/ k = 2 \/ k = 3
      BY <1>1, <1>2, <2>3
    <3>3. QED
      BY <2>1, <2>3, <3>1, <3>2
  <2>4. QED
    BY <2>2, <2>3 DEF IsAnswer
<1>4. Len(v) = 0
  BY <1>1, <1>2, <1>3
<1>5. QED
  BY <1>2, <1>4, EmptySeq

\* at_common looks at the second line only, which is the last one then.
LEMMA CommonTakesAll ==
  ASSUME NEW u, NEW v, NEW s, NEW n, NEW style, NEW id,
         Taken(u, v, s, n), IsAnswer(u, style, id), Common(s) \in {"SUCCESS", "FAILED"}
  PROVE  v = <<>> /\ (Common(s) = "SUCCESS" => u[2].line = "OK" /\ 2 \in 1 .. Len(u))
<1>1. /\ n \in Nat /\ Len(u) \in Nat /\ n <= Len(u) /\ Len(v) = Len(u) - n /\ v \in Seq(Line)
      /\ Len(s) = n /\ \A i \in 1 .. n : s[i] = u[i]
  BY DEF Taken
<1>2. n >= 2 /\ s[2].line \in {"OK", "ERROR"} /\ (Common(s) = "SUCCESS" => s[2].line = "OK")
  <2>1. ~(Len(s) < 2)
    BY DEF Common
  <2>2. s[2].line = "OK" \/ s[2].line = "ERROR"
    BY <2>1 DEF Common
  <2>3. s[2].line = "ERROR" => Common(s) = "FAILED"
    BY <2>1 DEF Common
  <2>4. n >= 2
    BY <1>1, <2>1
  <2>5. QED
    BY <2>2, <2>3, <2>4
<1>3. 2 \in 1 .. n /\ 2 \in 1 .. Len(u)
  BY <1>1, <1>2
<1>4. u[2].line = s[2].line
  BY <1>1, <1>3
<1>5. Len(u) = 2
  BY <1>2, <1>4 DEF IsAnswer
<1>6. Len(v) = 0
  BY <1>1, <1>2, <1>5
<1>7. QED
  BY <1>1, <1>2, <1>3, <1>4, <1>6, EmptySeq

\* A read is successful only with the OK of an answer.
LEMMA ReadHasOk ==
  ASSUME NEW t \in Seq(Line), SocketRead(t) = "SUCCESS"
  PROVE  /\ Has(t, "OK")
         /\ DataAt(t) # {} /\ Min(DataAt(t)) \in DataAt(t) /\ IsData(t, Min(DataAt(t)))
<1> DEFINE k == Min(DataAt(t))
<1>1. DataAt(t) # {} /\ k < Len(t) /\ t[k + 1].line = "OK"
  BY DEF SocketRead
<1>2. Len(t) \in Nat
  OBVIOUS
<1>3. DataAt(t) \subseteq Nat
  BY <1>2 DEF DataAt
<1>4. k \in DataAt(t)
  BY <1>1, <1>3, MinIsLeast
<1> HIDE DEF k
<1>5. k \in 2 .. Len(t) /\ t[k].line = "DATA"
  BY <1>4 DEF DataAt
<1>6. k + 1 \in DOMAIN t
  BY <1>1, <1>2, <1>5
<1>7. Has(t, "OK")
  BY <1>1, <1>6 DEF Has
<1>8. IsData(t, k)
  BY <1>2, <1>5 DEF IsData
<1>9. QED
  BY <1>1, <1>4, <1>7, <1>8 DEF k

\* A conclusive result of LM61_sendAT took the whole answer.
LEMMA SendConclusive ==
  ASSUME NEW u, NEW v, NEW s, NEW n, NEW id, NEW style, NEW code,
         Taken(u, v, s, n), IsAnswer(u, style, id), style \in {"at_common", "with_times", "matchstr"},
         code = IF style = "at_common" THEN Common(s) ELSE WithTimes(s, style = "matchstr"),
         Conclusive(style, code)
  PROVE  v = <<>>
<1>1. CASE style = "at_common"
  <2>1. code = Common(s)
    BY <1>1
  <2>2. code # "RESULT_ERROR"
    BY <2>1 DEF Common
  <2>3. code \in {"SUCCESS", "FAILED"}
    BY <2>2 DEF Conclusive
  <2>4. QED
    BY <2>1, <2>3, CommonTakesAll
<1>2. CASE style # "at_common"
  <2>1. code = WithTimes(s, style = "matchstr")
    BY <1>2
  <2>2. code # "FAILED"
    BY <1>2 DEF Conclusive
  <2>3. Has(s, "OK")
    BY <2>1, <2>2 DEF WithTimes
  <2>4. QED
    BY <2>3, OkIsLast
<1>3. QED
  BY <1>1, <1>2

-----------------------------------------------------------------------------
(* What a result does *)

\* A result ends the wait.
LEMMA AfterTypes ==
  ASSUME AtTypes, NEW code, After(code)
  PROVE  atPc' \in {"idle", "send"} /\ cmd' \in Nat /\ tries' \in Nat
<1>1. cmd \in Nat /\ tries \in Nat /\ cmd + 1 \in Nat /\ tries + 1 \in Nat /\ 0 \in Nat
  BY DEF AtTypes
<1>2. CASE NextCommand(code)
  BY <1>1, <1>2 DEF NextCommand
<1>3. CASE TryAgain
  BY <1>1, <1>3 DEF TryAgain
<1>4. CASE \E c : Return(c)
  BY <1>1, <1>4 DEF Return
<1>5. NextCommand(code) \/ TryAgain \/ (\E c : Return(c))
  BY DEF After, AfterOpen, AfterRepeat, AfterTimes
<1>6. QED
  BY <1>2, <1>3, <1>4, <1>5

\* LM61_socketOpen goes on only after a success.
LEMMA OpenKept ==
  ASSUME AtTypes, OpenGoes, atPc = "wait", NEW code, NEW text, Answered(code, text),
         clean /\ call = "open" /\ code = "SUCCESS" =>
           \E n \in 1 .. Len(Unread) : Unread[n].line = "OK"
  PROVE  OpenGoes'
<1>1. UNCHANGED <<call, sends, first, accepted, cleanStart>> /\ After(code)
      /\ (clean' <=> clean /\ Conclusive(Style, code))
  BY DEF Answered
<1>2. SUFFICES ASSUME call = "open", cleanStart
               PROVE  /\ atPc' = "send" => /\ clean' /\ cmd' = sends - first + 1 /\ cmd' < Open
                                           /\ first .. sends \subseteq accepted
                      /\ atPc' # "wait"
                      /\ atPc' = "idle" /\ result' = "SUCCESS" =>
                           first .. sends \subseteq accepted /\ sends - first + 1 = Open
  BY <1>1 DEF OpenGoes
<1>3. clean /\ cmd = sends - first /\ cmd < Open /\ first .. sends - 1 \subseteq accepted
      /\ (\A n \in 1 .. Len(Unread) : Unread[n].line = "OK" => sends \in accepted)
  BY <1>2 DEF OpenGoes
<1>4. AfterOpen(code)
  BY <1>1, <1>2 DEF After
<1>5. cmd \in Nat /\ sends \in Nat /\ first \in Nat /\ Open \in Nat
  BY AtAssumption DEF AtTypes
<1>6. CASE code # "SUCCESS"
  BY <1>4, <1>6 DEF AfterOpen, Return
<1>7. CASE code = "SUCCESS"
  <2>1. sends \in accepted
    BY <1>2, <1>3, <1>7
  <2>2. first .. sends \subseteq accepted
    <3>1. \A i \in first .. sends : i \in first .. sends - 1 \/ i = sends
      BY <1>5
    <3>2. QED
      BY <1>3, <2>1, <3>1
  <2>3. NextCommand(code)
    BY <1>4, <1>7 DEF AfterOpen
  <2>4. Style = "at_common" /\ Commands(call) = Open
    BY <1>2 DEF Style, Commands
  <2>5. clean'
    BY <1>1, <1>3, <1>7, <2>4 DEF Conclusive
  <2>6. CASE cmd + 1 = Open
    BY <1>3, <1>5, <2>2, <2>3, <2>4, <2>6 DEF NextCommand
  <2>7. CASE cmd + 1 # Open
    <3>1. atPc' = "send" /\ cmd' = cmd + 1
      BY <2>3, <2>4, <2>7 DEF NextCommand
    <3>2. cmd + 1 = sends - first + 1 /\ cmd + 1 < Open
      BY <1>3, <1>5, <2>7
    <3>3. QED
      BY <2>2, <2>5, <3>1, <3>2
  <2>8. QED
    BY <2>6, <2>7
<1>8. QED
  BY <1>6, <1>7

\* While clean holds, a result is made of lines of its own command.
LEMMA OwnKept ==
  ASSUME AtTypes, Own, atPc = "wait", NEW slice, NEW text, NEW n, NEW code,
         Taken(Unread, Unread', slice, n), Answered(code, text), recvBuffer = <<>> => text = slice,
         IsAnswer(Unread, Style, sends) /\ text = slice /\ Conclusive(Style, code) => Unread' = <<>>
  PROVE  Own'
<1>1. atPc' \in {"idle", "send"} /\ sends' = sends
      /\ (clean' <=> clean /\ Conclusive(Style, code))
      /\ (foreign' <=> foreign \/ (clean /\ \E k \in DOMAIN text : text[k].id # sends))
  BY AfterTypes DEF Answered
<1>2. ASSUME clean PROVE text = slice /\ IsAnswer(Unread, Style, sends)
  <2>1. recvBuffer = <<>> /\ (Unread = <<>> \/ IsAnswer(Unread, Style, sends))
    BY <1>2 DEF Own
  <2>2. Unread # <<>>
    BY DEF Taken
  <2>3. QED
    BY <2>1, <2>2
<1>3. ~foreign'
  <2>1. SUFFICES ASSUME clean PROVE \A k \in DOMAIN text : text[k].id = sends
    BY <1>1 DEF Own
  <2>2. DOMAIN text = 1 .. n /\ (\A k \in 1 .. n : text[k] = Unread[k]) /\ n <= Len(Unread)
        /\ n \in Nat /\ Len(Unread) \in Nat
    BY <1>2, <2>1 DEF Taken
  <2>3. \A k \in 1 .. n : k \in 1 .. Len(Unread)
    BY <2>2
  <2>4. QED
    BY <1>2, <2>1, <2>2, <2>3 DEF IsAnswer
<1>4. clean' => Unread' = <<>>
  BY <1>1, <1>2
<1>5. QED
  BY <1>1, <1>3, <1>4 DEF Own

-----------------------------------------------------------------------------
(* The steps *)

\* A call begins with nothing unread, if clean holds.
LEMMA CallAtKeeps ==
  ASSUME AtInv, CallAt
  PROVE  AtInv'
<1>1. /\ atPc = "idle" /\ call' \in Calls /\ cmd' = 0 /\ tries' = 0 /\ atPc' = "send"
      /\ first' = sends + 1 /\ (cleanStart' = clean) /\ accepted' = {}
      /\ UNCHANGED <<coming, rx, recvBuffer, sends, clean, foreign, read>>
  BY DEF CallAt
<1>2. Unread' = Unread
  BY <1>1 DEF Unread
<1>3. AtTypes'
  BY <1>1 DEF AtInv, AtTypes
<1>4. Own'
  BY <1>1, <1>2 DEF AtInv, Own
<1>5. OpenGoes'
  <2>1. sends \in Nat /\ Open \in Nat /\ Open # 0
    BY AtAssumption DEF AtInv, AtTypes
  <2>2. 0 = sends - (sends + 1) + 1 /\ 0 < Open /\ (sends + 1) .. sends = {}
    BY <2>1
  <2>3. QED
    BY <1>1, <2>2 DEF OpenGoes
<1>6. DataInOrder'
  BY <1>1, <1>2 DEF AtInv, DataInOrder
<1>7. QED
  BY <1>3, <1>4, <1>5, <1>6 DEF AtInv

\* A line that arrives stays unread.
LEMMA ArriveKeeps ==
  ASSUME AtInv, Arrive
  PROVE  AtInv'
<1>1. UNCHANGED <<atPc, call, cmd, tries, recvBuffer, sends, result, first, accepted,
                  clean, cleanStart, foreign, read>>
  BY DEF Arrive
<1>2. Unread' = Unread /\ rx' \in Seq(Line) /\ coming' \in Seq(Line)
  BY ArrivesUnread DEF AtInv
<1>3. AtTypes'
  BY <1>1, <1>2 DEF AtInv, AtTypes
<1>4. Own'
  BY <1>1, <1>2 DEF AtInv, Own, Style
<1>5. OpenGoes'
  BY <1>1, <1>2 DEF AtInv, OpenGoes
<1>6. DataInOrder'
  BY <1>1, <1>2 DEF AtInv, DataInOrder
<1>7. QED
  BY <1>3, <1>4, <1>5, <1>6 DEF AtInv

\* Nothing changes.
LEMMA StutterAtKeeps ==
  ASSUME AtInv, UNCHANGED atVars
  PROVE  AtInv'
<1>1. UNCHANGED <<atPc, call, cmd, tries, recvBuffer, sends, result, first, accepted,
                  clean, cleanStart, foreign, read>> /\ UNCHANGED <<coming, rx>>
  BY DEF atVars
<1>2. Unread' = Unread
  BY <1>1 DEF Unread
<1>3. AtTypes'
  BY <1>1 DEF AtInv, AtTypes
<1>4. Own'
  BY <1>1, <1>2 DEF AtInv, Own, Style
<1>5. OpenGoes'
  BY <1>1, <1>2 DEF AtInv, OpenGoes
<1>6. DataInOrder'
  BY <1>1, <1>2 DEF AtInv, DataInOrder
<1>7. QED
  BY <1>3, <1>4, <1>5, <1>6 DEF AtInv

\* A time-out ends clean, and no open succeeds with it.
LEMMA TimeoutKeeps ==
  ASSUME AtInv, TimeoutAt
  PROVE  AtInv'
<1> DEFINE code == IF Style = "socketRead" THEN "FAILED" ELSE "TIMEOUT"
<1>1. atPc = "wait" /\ Answered(code, <<>>) /\ UNCHANGED <<coming, rx, recvBuffer, read>>
  BY DEF TimeoutAt
<1>2. Unread' = Unread
  BY <1>1 DEF Unread
<1>3. ~Conclusive(Style, code) /\ code # "SUCCESS"
  <2>1. CASE Style = "socketRead"
    BY <2>1 DEF Conclusive
  <2>2. CASE Style # "socketRead"
    BY <2>2 DEF Conclusive
  <2>3. QED
    BY <2>1, <2>2
<1> HIDE DEF code
<1>4. /\ UNCHANGED <<call, sends, first, accepted, cleanStart>> /\ ~clean' /\ clean' \in BOOLEAN
      /\ foreign' = foreign
  <2>1. UNCHANGED <<call, sends, first, accepted, cleanStart>>
        /\ clean' = (clean /\ Conclusive(Style, code))
        /\ foreign' = (foreign \/ (clean /\ \E n \in DOMAIN <<>> : <<>>[n].id # sends))
    BY <1>1 DEF Answered
  <2>2. clean' = FALSE
    BY <1>3, <2>1
  <2>3. ~ \E n \in DOMAIN <<>> : <<>>[n].id # sends
    OBVIOUS
  <2>4. foreign' = foreign
    BY <2>1, <2>3 DEF AtInv, AtTypes
  <2>5. QED
    BY <2>1, <2>2, <2>4
<1>5. atPc' \in {"idle", "send"} /\ cmd' \in Nat /\ tries' \in Nat
  BY <1>1, AfterTypes DEF AtInv, Answered
<1>6. AtTypes'
  BY <1>1, <1>4, <1>5 DEF AtInv, AtTypes
<1>7. Own'
  BY <1>4 DEF AtInv, Own
<1>8. OpenGoes'
  BY <1>1, <1>3, OpenKept DEF AtInv
<1>9. DataInOrder'
  BY <1>1, <1>2, <1>4, <1>5 DEF AtInv, DataInOrder
<1>10. QED
  BY <1>6, <1>7, <1>8, <1>9 DEF AtInv

\* The lines of the answer come after what is unread.
LEMMA AnswerSorted ==
  ASSUME NEW u \in Seq(Line), NEW a \in Seq(Line), NEW newest \in Nat, NEW r \in Nat,
         r <= newest, Sorted(u, newest, r), NEW w, w = u \o a,
         \A n \in 1 .. Len(a) : a[n].id = newest + 1,
         \A n, m \in 1 .. Len(a) : ~(IsData(a, n) /\ IsData(a, m) /\ n < m)
  PROVE  Sorted(w, newest + 1, r)
<1>1. Len(u) \in Nat /\ Len(a) \in Nat
  OBVIOUS
<1>2. /\ w \in Seq(Line) /\ Len(w) = Len(u) + Len(a)
      /\ \A i \in 1 .. Len(u) + Len(a) : w[i] = IF i <= Len(u) THEN u[i] ELSE a[i - Len(u)]
  BY ConcatProperties
<1>3. \A n \in 1 .. Len(u) : u[n].id \in Nat
  <2>1. \A n \in 1 .. Len(u) : u[n] \in Line
    BY <1>1
  <2>2. QED
    BY <2>1 DEF Line
<1>4. ASSUME NEW i \in 1 .. Len(w)
      PROVE  \/ i \in 1 .. Len(u) /\ w[i] = u[i] /\ (IsData(w, i) => IsData(u, i))
             \/ /\ i - Len(u) \in 1 .. Len(a) /\ w[i] = a[i - Len(u)] /\ ~(i <= Len(u))
                /\ (IsData(w, i) => IsData(a, i - Len(u)))
  <2>1. i \in 1 .. Len(u) + Len(a) /\ i \in Nat
    BY <1>1, <1>2
  <2>2. CASE i <= Len(u)
    <3>1. i \in 1 .. Len(u)
      BY <1>1, <2>1, <2>2
    <3>2. w[i] = IF i <= Len(u) THEN u[i] ELSE a[i - Len(u)]
      BY <1>2, <2>1
    <3>3. w[i] = u[i]
      BY <2>2, <3>2, Zenon
    <3>4. IsData(w, i) => IsData(u, i)
      BY <3>1, <3>3, Zenon DEF IsData
    <3>5. QED
      BY <3>1, <3>3, <3>4, Zenon
  <2>3. CASE ~(i <= Len(u))
    <3>1. i - Len(u) \in 1 .. Len(a)
      BY <1>1, <2>1, <2>3
    <3>2. w[i] = IF i <= Len(u) THEN u[i] ELSE a[i - Len(u)]
      BY <1>2, <2>1
    <3>3. w[i] = a[i - Len(u)]
      BY <2>3, <3>2, Zenon
    <3>4. IsData(w, i) => IsData(a, i - Len(u))
      BY <3>1, <3>3, Zenon DEF IsData
    <3>5. QED
      BY <2>3, <3>1, <3>3, <3>4, Zenon
  <2>4. QED
    BY <2>2, <2>3
<1>5. ASSUME NEW i \in 1 .. Len(w)
      PROVE  w[i].id <= newest + 1 /\ (IsData(w, i) => r < w[i].id)
  <2>1. CASE i \in 1 .. Len(u) /\ w[i] = u[i] /\ (IsData(w, i) => IsData(u, i))
    <3>1. u[i].id <= newest /\ (IsData(u, i) => r < u[i].id)
      BY <2>1 DEF Sorted
    <3>2. u[i].id \in Nat
      BY <1>3, <2>1
    <3>3. u[i].id <= newest + 1
      BY <3>1, <3>2
    <3>4. QED
      BY <2>1, <3>1, <3>3, Zenon
  <2>2. CASE i - Len(u) \in 1 .. Len(a) /\ w[i] = a[i - Len(u)]
    <3>1. w[i].id = newest + 1
      BY <2>2
    <3>2. QED
      BY <3>1
  <2>3. QED
    BY <1>4, <2>1, <2>2
<1>6. ASSUME NEW i \in 1 .. Len(w), NEW k \in 1 .. Len(w), IsData(w, i), IsData(w, k), i < k
      PROVE  w[i].id < w[k].id
  <2>0. i \in Nat /\ k \in Nat
    BY <1>1, <1>2
  <2>1. CASE i \in 1 .. Len(u) /\ w[i] = u[i] /\ IsData(u, i)
    <3>1. CASE k \in 1 .. Len(u) /\ w[k] = u[k] /\ IsData(u, k)
      BY <1>6, <2>1, <3>1 DEF Sorted
    <3>2. CASE k - Len(u) \in 1 .. Len(a) /\ w[k] = a[k - Len(u)]
      <4>1. u[i].id <= newest /\ u[i].id \in Nat
        BY <1>3, <2>1 DEF Sorted
      <4>2. w[k].id = newest + 1
        BY <3>2
      <4>3. QED
        BY <2>1, <4>1, <4>2
    <3>3. QED
      BY <1>4, <1>6, <3>1, <3>2
  <2>2. CASE i - Len(u) \in 1 .. Len(a) /\ ~(i <= Len(u)) /\ IsData(a, i - Len(u))
    <3>1. ~(k <= Len(u)) /\ i - Len(u) < k - Len(u)
      BY <1>1, <1>6, <2>0, <2>2
    <3>2. ~(k \in 1 .. Len(u))
      BY <1>1, <3>1
    <3>3. k - Len(u) \in 1 .. Len(a) /\ IsData(a, k - Len(u))
      BY <1>4, <1>6, <3>2
    <3>4. QED
      BY <2>2, <3>1, <3>3
  <2>3. QED
    BY <1>4, <1>6, <2>1, <2>2
<1>7. QED
  BY <1>5, <1>6 DEF Sorted

\* The modem answers nothing, or at once; the lines come when they like.
LEMMA SendAtKeeps ==
  ASSUME AtInv, SendAt
  PROVE  AtInv'
<1>1. /\ atPc = "send" /\ atPc' = "wait" /\ sends' = sends + 1 /\ recvBuffer' = <<>>
      /\ UNCHANGED <<call, cmd, tries, rx, result, first, clean, cleanStart, foreign, read>>
  BY DEF SendAt
<1>2. AtTypes /\ Own /\ OpenGoes /\ DataInOrder
  BY DEF AtInv
<1>3. /\ coming \in Seq(Line) /\ rx \in Seq(Line) /\ Unread \in Seq(Line) /\ Unread = rx \o coming
      /\ sends \in Nat /\ read \in Nat /\ first \in Nat /\ sends + 1 \in Nat /\ read <= sends
      /\ Len(Unread) \in Nat
  <2>1. coming \in Seq(Line) /\ rx \in Seq(Line)
    BY <1>2 DEF AtTypes
  <2>2. Unread \in Seq(Line)
    BY <2>1, ConcatProperties DEF Unread
  <2>3. sends \in Nat /\ read \in Nat /\ first \in Nat
    BY <1>2 DEF AtTypes
  <2>4. QED
    BY <1>2, <2>1, <2>2, <2>3 DEF Unread, DataInOrder
<1>4. Style' = Style
  BY <1>1 DEF Style
<1> DEFINE Sent(a) ==
      /\ a \in Seq(Line) /\ Unread' = Unread \o a /\ coming' \in Seq(Line)
      /\ a = <<>> \/ IsAnswer(a, Style, sends + 1)
      /\ \A n \in 1 .. Len(a) : a[n].id = sends + 1
      /\ \A n, m \in 1 .. Len(a) : ~(IsData(a, n) /\ IsData(a, m) /\ n < m)
      /\ accepted \subseteq accepted'
      /\ \A n \in 1 .. Len(a) : a[n].line = "OK" => sends + 1 \in accepted'
<1>5. \E a : Sent(a)
  <2>1. CASE UNCHANGED <<coming, accepted>>
    <3>1. Unread' = Unread /\ coming' \in Seq(Line)
      BY <1>1, <1>3, <2>1 DEF Unread
    <3>2. Unread' = Unread \o <<>>
      BY <1>3, <3>1, ConcatEmptySeq
    <3>3. Sent(<<>>)
      BY <2>1, <3>1, <3>2
    <3>4. QED
      BY <3>3
  <2>2. CASE \E a \in Answers(Style) :
               LET said == <<Echo(Style)>> \o a
               IN  /\ coming' = coming \o
                        [n \in DOMAIN said |-> [line |-> said[n], id |-> sends + 1]]
                   /\ accepted' = IF "OK" \in Range(a) THEN accepted \cup {sends + 1}
                                                       ELSE accepted
    <3>1. PICK a \in Answers(Style) :
               /\ coming' = coming \o
                    [n \in DOMAIN (<<Echo(Style)>> \o a) |->
                       [line |-> (<<Echo(Style)>> \o a)[n], id |-> sends + 1]]
               /\ accepted' = IF "OK" \in Range(a) THEN accepted \cup {sends + 1} ELSE accepted
      BY <2>2
    <3> DEFINE s == [n \in DOMAIN (<<Echo(Style)>> \o a) |->
                       [line |-> (<<Echo(Style)>> \o a)[n], id |-> sends + 1]]
    <3>2. /\ s \in Seq(Line) /\ IsAnswer(s, Style, sends + 1)
          /\ \A n, m \in 1 .. Len(s) : ~(IsData(s, n) /\ IsData(s, m) /\ n < m)
          /\ \A n \in 1 .. Len(s) : s[n].line = "OK" => "OK" \in Range(a)
      BY <1>2, ModemAnswers
    <3>3. coming' = coming \o s
      BY <3>1
    <3> HIDE DEF s
    <3>4. coming' \in Seq(Line) /\ Unread' = Unread \o s
      <4>1. coming \o s \in Seq(Line)
        BY <1>3, <3>2, ConcatProperties
      <4>2. rx \o (coming \o s) = (rx \o coming) \o s
        BY <1>3, <3>2, ConcatAssociative, SMTT(30)
      <4>3. QED
        BY <1>1, <3>3, <4>1, <4>2 DEF Unread
    <3>5. accepted \subseteq accepted' /\ ("OK" \in Range(a) => sends + 1 \in accepted')
      BY <3>1
    <3>6. \A n \in 1 .. Len(s) : s[n].id = sends + 1
      BY <3>2 DEF IsAnswer
    <3>7. Sent(s)
      BY <3>2, <3>4, <3>5, <3>6
    <3>8. QED
      BY <3>7
  <2>3. QED
    BY <2>1, <2>2 DEF SendAt
<1>6. PICK a : Sent(a)
  BY <1>5
<1> HIDE DEF Sent
<1>7. /\ a \in Seq(Line) /\ Unread' = Unread \o a /\ coming' \in Seq(Line)
      /\ (a = <<>> \/ IsAnswer(a, Style, sends + 1))
      /\ accepted \subseteq accepted'
      /\ \A n \in 1 .. Len(a) : a[n].line = "OK" => sends + 1 \in accepted'
  BY <1>6 DEF Sent
<1>8. AtTypes'
  BY <1>1, <1>2, <1>3, <1>7, EmptySeq DEF AtTypes
<1>9. ASSUME clean PROVE Unread' = a
  <2>1. Unread = <<>>
    BY <1>1, <1>2, <1>9 DEF Own
  <2>2. QED
    BY <1>7, <2>1, ConcatEmptySeq
<1>10. Own'
  BY <1>1, <1>2, <1>4, <1>7, <1>9 DEF Own
<1>11. OpenGoes'
  <2>1. SUFFICES ASSUME call = "open", cleanStart
                 PROVE  /\ clean /\ cmd = sends' - first /\ cmd < Open
                        /\ first .. sends' - 1 \subseteq accepted'
                        /\ \A n \in 1 .. Len(Unread') :
                             Unread'[n].line = "OK" => sends' \in accepted'
    BY <1>1 DEF OpenGoes
  <2>2. clean /\ cmd = sends - first + 1 /\ cmd < Open /\ first .. sends \subseteq accepted
    BY <1>1, <1>2, <2>1 DEF OpenGoes
  <2>3. sends' - 1 = sends /\ cmd = sends' - first
    BY <1>1, <1>3, <2>2
  <2>4. QED
    BY <1>1, <1>7, <1>9, <2>2, <2>3
<1>12. DataInOrder'
  <2>1. Sorted(Unread \o a, sends + 1, read)
    BY <1>2, <1>3, <1>6, AnswerSorted DEF Sent, DataInOrder
  <2>2. Before(<<>>, Unread', sends', read)
    BY DEF Before
  <2>3. read <= sends + 1
    BY <1>3
  <2>4. QED
    BY <1>1, <1>7, <2>1, <2>2, <2>3 DEF DataInOrder
<1>13. QED
  BY <1>8, <1>10, <1>11, <1>12 DEF AtInv

\* Lines of one poll are all that LM61_sendAT looks at.
LEMMA PollAtKeeps ==
  ASSUME AtInv, PollAt
  PROVE  AtInv'
<1>1. atPc = "wait" /\ Style \in {"at_common", "with_times", "matchstr"}
      /\ UNCHANGED <<coming, recvBuffer, read>>
  BY DEF PollAt
<1>2. PICK n \in 1 .. Len(rx) :
        /\ rx' = SubSeq(rx, n + 1, Len(rx))
        /\ Answered(IF Style = "at_common" THEN Common(SubSeq(rx, 1, n))
                    ELSE WithTimes(SubSeq(rx, 1, n), Style = "matchstr"), SubSeq(rx, 1, n))
  BY DEF PollAt
<1>3. AtTypes /\ Own /\ OpenGoes /\ DataInOrder
  BY DEF AtInv
<1>4. rx' \in Seq(Line) /\ Taken(Unread, Unread', SubSeq(rx, 1, n), n)
  BY <1>1, <1>2, <1>3, PollTakes
<1> DEFINE slice == SubSeq(rx, 1, n)
           code == IF Style = "at_common" THEN Common(slice)
                   ELSE WithTimes(slice, Style = "matchstr")
<1>5. Answered(code, slice) /\ Taken(Unread, Unread', slice, n)
      /\ code = IF Style = "at_common" THEN Common(slice)
                ELSE WithTimes(slice, Style = "matchstr")
  BY <1>2, <1>4
<1> HIDE DEF slice, code
<1>6. UNCHANGED <<call, sends, first, accepted, cleanStart>>
      /\ clean' \in BOOLEAN /\ foreign' \in BOOLEAN
      /\ atPc' \in {"idle", "send"} /\ cmd' \in Nat /\ tries' \in Nat
  BY <1>3, <1>5, AfterTypes DEF Answered
<1>7. AtTypes'
  BY <1>1, <1>3, <1>4, <1>6 DEF AtTypes
<1>8. Own'
  <2>1. IsAnswer(Unread, Style, sends) /\ Conclusive(Style, code) => Unread' = <<>>
    BY <1>1, <1>5, SendConclusive
  <2>2. QED
    BY <1>1, <1>3, <1>5, <2>1, OwnKept
<1>9. OpenGoes'
  <2>1. ASSUME clean, call = "open", code = "SUCCESS"
        PROVE  \E k \in 1 .. Len(Unread) : Unread[k].line = "OK"
    <3>1. Style = "at_common"
      BY <2>1 DEF Style
    <3>2. IsAnswer(Unread, Style, sends)
      <4>1. Unread # <<>>
        BY <1>5 DEF Taken
      <4>2. QED
        BY <1>1, <1>3, <2>1, <4>1 DEF Own
    <3>3. Common(slice) = "SUCCESS"
      BY <1>5, <2>1, <3>1
    <3>4. Unread[2].line = "OK" /\ 2 \in 1 .. Len(Unread)
      BY <1>5, <3>2, <3>3, CommonTakesAll
    <3>5. QED
      BY <3>4
  <2>2. QED
    BY <1>1, <1>3, <1>5, <2>1, OpenKept
<1>10. DataInOrder'
  <2>1. sends \in Nat /\ read \in Nat
    BY <1>3 DEF AtTypes
  <2>2. Sorted(Unread', sends, read)
    BY <1>3, <1>5, <2>1, TakenSorted DEF DataInOrder
  <2>3. QED
    BY <1>1, <1>3, <1>6, <2>2 DEF DataInOrder
<1>11. QED
  BY <1>7, <1>8, <1>9, <1>10 DEF AtInv

\* What LM61_sendData and LM61_RecvData have read keeps the order.
LEMMA TextInOrder ==
  ASSUME AtInv, atPc = "wait", NEW slice, NEW n, NEW text,
         Taken(Unread, Unread', slice, n), text = Copied(slice)
  PROVE  /\ text \in Seq(Line) /\ (recvBuffer = <<>> => text = slice)
         /\ Sorted(Unread', sends, read) /\ Before(text, Unread', sends, read)
         /\ clean => Has(text, Echo(Style))
<1>1. AtTypes /\ Own /\ DataInOrder
  BY DEF AtInv
<1>2. sends \in Nat /\ read \in Nat /\ recvBuffer \in Seq(Line)
  BY <1>1 DEF AtTypes
<1>3. slice \in Seq(Line) /\ text = slice \o SubSeq(recvBuffer, Len(slice) + 1, Len(recvBuffer))
  BY DEF Taken, Copied
<1>4. text \in Seq(Line) /\ (recvBuffer = <<>> => text = slice)
  BY <1>2, <1>3, CopiedLines
<1>5. Sorted(Unread', sends, read) /\ Before(slice, Unread', sends, read)
  BY <1>1, <1>2, TakenSorted DEF DataInOrder
<1>6. Before(recvBuffer, Unread', sends, read)
  BY <1>1, <1>2, TakenBefore DEF DataInOrder
<1>7. Before(text, Unread', sends, read)
  BY <1>2, <1>3, <1>5, <1>6, CopiedBefore
<1>8. ASSUME clean PROVE Has(text, Echo(Style))
  <2>1. text = slice /\ IsAnswer(Unread, Style, sends)
    <3>1. Unread # <<>>
      BY DEF Taken
    <3>2. QED
      BY <1>1, <1>4, <1>8, <3>1 DEF Own
  <2>2. 1 \in DOMAIN text /\ text[1] = Unread[1]
    BY <2>1 DEF Taken
  <2>3. QED
    BY <2>1, <2>2 DEF Has, IsAnswer
<1>9. QED
  BY <1>4, <1>5, <1>7, <1>8

\* A read that succeeds returns data of the buffer, which is newer than any before.
LEMMA PollDataKeeps ==
  ASSUME AtInv, PollData
  PROVE  AtInv' /\ (call = "socketRead" /\ atPc' = "idle" /\ result' = "SUCCESS" => read' > read)
<1>1. atPc = "wait" /\ Style \in {"socketRead", "socketWrite"} /\ coming' = coming
  BY DEF PollData
<1>2. PICK n \in 1 .. Len(rx) :
        /\ rx' = SubSeq(rx, n + 1, Len(rx))
        /\ recvBuffer' = Copied(SubSeq(rx, 1, n))
        /\ \/ /\ ~Has(recvBuffer', Echo(Style))
              /\ UNCHANGED <<atPc, call, cmd, tries, sends, result, first, accepted, clean,
                             cleanStart, foreign, read>>
           \/ /\ Style = "socketWrite" /\ Has(recvBuffer', Echo(Style))
              /\ Answered("SUCCESS", recvBuffer')
              /\ UNCHANGED read
           \/ /\ Style = "socketRead" /\ Has(recvBuffer', Echo(Style)) /\ ~Has(recvBuffer', "ERROR")
              /\ Answered(SocketRead(recvBuffer'), recvBuffer')
              /\ read' = IF SocketRead(recvBuffer') = "SUCCESS"
                         THEN recvBuffer'[Min(DataAt(recvBuffer'))].id ELSE read
           \/ /\ Style = "socketRead" /\ Has(recvBuffer', Echo(Style)) /\ Has(recvBuffer', "ERROR")
              /\ atPc' = "halted"
              /\ UNCHANGED <<call, cmd, tries, sends, result, first, accepted, clean,
                             cleanStart, foreign, read>>
  BY DEF PollData
<1>3. AtTypes /\ Own /\ OpenGoes /\ DataInOrder
  BY DEF AtInv
<1>4. rx' \in Seq(Line) /\ Taken(Unread, Unread', SubSeq(rx, 1, n), n)
  BY <1>1, <1>2, <1>3, PollTakes
<1> DEFINE slice == SubSeq(rx, 1, n)
           text == recvBuffer'
<1>5. Taken(Unread, Unread', slice, n) /\ text = Copied(slice)
  BY <1>2, <1>4
<1> HIDE DEF slice
<1>6. /\ text \in Seq(Line) /\ (recvBuffer = <<>> => text = slice)
      /\ Sorted(Unread', sends, read) /\ Before(text, Unread', sends, read)
      /\ clean => Has(text, Echo(Style))
  BY <1>1, <1>5, TextInOrder
<1>7. call \notin {"open", "repeat", "start", "end"}
  BY <1>1 DEF Style
<1>8. sends \in Nat /\ read \in Nat /\ read <= sends
  BY <1>3 DEF AtTypes, DataInOrder
<1>9. CASE /\ ~Has(text, Echo(Style))
           /\ UNCHANGED <<atPc, call, cmd, tries, sends, result, first, accepted, clean,
                          cleanStart, foreign, read>>
  <2>1. AtTypes'
    BY <1>1, <1>3, <1>4, <1>6, <1>9 DEF AtTypes
  <2>2. Own'
    BY <1>3, <1>6, <1>9 DEF Own
  <2>3. OpenGoes'
    BY <1>7, <1>9 DEF OpenGoes
  <2>4. DataInOrder'
    BY <1>6, <1>8, <1>9 DEF DataInOrder
  <2>5. QED
    BY <1>1, <1>9, <2>1, <2>2, <2>3, <2>4 DEF AtInv
<1>10. CASE /\ Style = "socketWrite" /\ Answered("SUCCESS", text) /\ UNCHANGED read
  <2>1. UNCHANGED <<call, sends, first, accepted, cleanStart>>
        /\ clean' \in BOOLEAN /\ foreign' \in BOOLEAN
        /\ atPc' \in {"idle", "send"} /\ cmd' \in Nat /\ tries' \in Nat
    BY <1>3, <1>10, AfterTypes DEF Answered
  <2>2. AtTypes'
    BY <1>1, <1>3, <1>4, <1>6, <1>10, <2>1 DEF AtTypes
  <2>3. Own'
    <3>1. ~Conclusive(Style, "SUCCESS")
      BY <1>10 DEF Conclusive
    <3>2. QED
      BY <1>1, <1>3, <1>5, <1>6, <1>10, <3>1, OwnKept
  <2>4. OpenGoes'
    BY <1>7, <2>1 DEF OpenGoes
  <2>5. DataInOrder'
    BY <1>6, <1>8, <1>10, <2>1 DEF DataInOrder
  <2>6. call # "socketRead"
    BY <1>10 DEF Style
  <2>7. QED
    BY <2>2, <2>3, <2>4, <2>5, <2>6 DEF AtInv
<1>11. CASE /\ Style = "socketRead" /\ Answered(SocketRead(text), text)
            /\ read' = IF SocketRead(text) = "SUCCESS" THEN text[Min(DataAt(text))].id ELSE read
  <2>1. UNCHANGED <<call, sends, first, accepted, cleanStart>>
        /\ clean' \in BOOLEAN /\ foreign' \in BOOLEAN
        /\ atPc' \in {"idle", "send"} /\ cmd' \in Nat /\ tries' \in Nat
    BY <1>3, <1>11, AfterTypes DEF Answered
  <2>4. read' \in Nat /\ read' <= sends /\ Sorted(Unread', sends, read')
        /\ (SocketRead(text) = "SUCCESS" => Has(text, "OK") /\ read' > read)
    <3>1. CASE SocketRead(text) = "SUCCESS"
      <4>1. Has(text, "OK") /\ IsData(text, Min(DataAt(text)))
            /\ read' = text[Min(DataAt(text))].id
        BY <1>6, <1>11, <3>1, ReadHasOk
      <4>2. read < read' /\ read' <= sends /\ Sorted(Unread', sends, read')
        BY <1>6, <1>8, <4>1, ReadSorted
      <4>3. read' \in Nat
        <5>1. Min(DataAt(text)) \in 1 .. Len(text)
          BY <4>1 DEF IsData
        <5>2. text[Min(DataAt(text))] \in Line
          BY <1>6, <5>1
        <5>3. QED
          BY <4>1, <5>2 DEF Line
      <4>4. read' > read
        BY <1>8, <4>2, <4>3
      <4>5. QED
        BY <4>1, <4>2, <4>3, <4>4
    <3>2. CASE SocketRead(text) # "SUCCESS"
      BY <1>6, <1>8, <1>11, <3>2
    <3>3. QED
      BY <3>1, <3>2
  <2>5. AtTypes'
    BY <1>1, <1>3, <1>4, <1>6, <2>1, <2>4 DEF AtTypes
  <2>6. Own'
    <3>1. IsAnswer(Unread, Style, sends) /\ text = slice /\ Conclusive(Style, SocketRead(text))
            => Unread' = <<>>
      <4>1. SUFFICES ASSUME IsAnswer(Unread, Style, sends), text = slice,
                            Conclusive(Style, SocketRead(text))
                     PROVE  Unread' = <<>>
        OBVIOUS
      <4>2. SocketRead(text) = "SUCCESS"
        BY <1>11, <4>1 DEF Conclusive, SocketRead
      <4>3. Has(slice, "OK")
        BY <2>4, <4>1, <4>2
      <4>4. QED
        BY <1>5, <4>1, <4>3, OkIsLast
    <3>2. QED
      BY <1>1, <1>3, <1>5, <1>6, <1>11, <3>1, OwnKept
  <2>7. OpenGoes'
    BY <1>7, <2>1 DEF OpenGoes
  <2>8. DataInOrder'
    BY <2>1, <2>4 DEF DataInOrder
  <2>9. result' = "SUCCESS" /\ call = "socketRead" => SocketRead(text) = "SUCCESS"
    BY <1>11 DEF Answered, After, Return
  <2>10. QED
    BY <2>4, <2>5, <2>6, <2>7, <2>8, <2>9 DEF AtInv
<1>12. CASE /\ atPc' = "halted"
            /\ UNCHANGED <<call, cmd, tries, sends, result, first, accepted, clean,
                           cleanStart, foreign, read>>
  <2>1. AtTypes'
    BY <1>1, <1>3, <1>4, <1>6, <1>12 DEF AtTypes
  <2>2. Own'
    BY <1>3, <1>12 DEF Own
  <2>3. OpenGoes'
    BY <1>7, <1>12 DEF OpenGoes
  <2>4. DataInOrder'
    BY <1>6, <1>8, <1>12 DEF DataInOrder
  <2>5. QED
    BY <1>12, <2>1, <2>2, <2>3, <2>4 DEF AtInv
<1>13. QED
  BY <1>2, <1>9, <1>10, <1>11, <1>12

-----------------------------------------------------------------------------
\* All steps together
LEMMA AtNextKeeps ==
  ASSUME AtInv, [AtNext]_atVars
  PROVE  AtInv'
BY CallAtKeeps, SendAtKeeps, PollAtKeeps, PollDataKeeps, TimeoutKeeps, ArriveKeeps, StutterAtKeeps
DEF AtNext, Driver

\* Nothing was sent at first.
LEMMA AtInitInv == AtInit => AtInv
<1> SUFFICES ASSUME AtInit PROVE AtInv
  OBVIOUS
<1>1. Unread = <<>>
  BY DEF AtInit, Unread
<1>2. AtTypes
  <2>1. <<>> \in Seq(Line) /\ "repeat" \in Calls /\ 0 \in Nat /\ 1 \in Nat
    BY DEF Calls
  <2>2. QED
    BY <2>1 DEF AtInit, AtTypes
<1>3. Own
  BY <1>1 DEF AtInit, Own
<1>4. OpenGoes
  BY DEF AtInit, OpenGoes
<1>5. DataInOrder
  BY <1>1 DEF AtInit, DataInOrder, Sorted
<1>6. QED
  BY <1>2, <1>3, <1>4, <1>5 DEF AtInv

\* As long as nothing was left behind, results are made of the lines of their
\* own command, and LM61_socketOpen succeeds only when every command did.
THEOREM AnswersAreCorrect == AtSpec => []AnswersCorrect
<1>1. AtInv => AnswersCorrect
  BY DEF AtInv, Own, OpenGoes, AnswersCorrect, OwnAnswer, OpenIsOpen
<1>2. QED
  BY <1>1, AtInitInv, AtNextKeeps, PTL DEF AtSpec

\* LM61_socketRead returns the data in the order it came, none twice, for any
\* number of commands, however late the lines are and however polls cut them.
THEOREM ReadsAreInOrder == AtSpec => ReadInOrder
<1>1. AtInv /\ [AtNext]_atVars =>
        [PollData /\ call = "socketRead" /\ atPc' = "idle" /\ result' = "SUCCESS"
           => read' > read]_atVars
  BY PollDataKeeps
<1>2. QED
  BY <1>1, AtInitInv, AtNextKeeps, PTL DEF AtSpec, ReadInOrder

-----------------------------------------------------------------------------
(* How much of the modem a call may use *)

LEMMA MaxOfTwo ==
  ASSUME NEW a \in Nat, NEW b \in Nat
  PROVE  Max({a, b}) \in Nat /\ a <= Max({a, b}) /\ b <= Max({a, b})
<1>1. \E x \in {a, b} : \A y \in {a, b} : x >= y
  OBVIOUS
<1> QED BY <1>1 DEF Max

LEMMA MaxOfThree ==
  ASSUME NEW a \in Nat, NEW b \in Nat, NEW c \in Nat
  PROVE  /\ Max({a, b, c}) \in Nat /\ a <= Max({a, b, c}) /\ b <= Max({a, b, c})
         /\ c <= Max({a, b, c})
<1>1. \E x \in {a, b, c} : \A y \in {a, b, c} : x >= y
  OBVIOUS
<1> QED BY <1>1 DEF Max

\* Attempts a call makes at each of its commands
Attempts(c) ==
  CASE c = "repeat" -> Repeats [] c \in {"start", "end", "boot"} -> Times [] OTHER -> 1

LEMMA SendsAre ==
  ASSUME NEW c \in Calls
  PROVE  /\ Commands(c) \in Nat \ {0} /\ Attempts(c) \in Nat \ {0}
         /\ MostSends(c) = Commands(c) * Attempts(c) /\ MostSends(c) \in Nat
         /\ Commands(c) <= Max({Open, Start, 3}) /\ Attempts(c) <= Max({Times, Repeats})
<1>1. /\ Open \in Nat \ {0} /\ Start \in Nat \ {0} /\ Times \in Nat \ {0} /\ Repeats \in Nat \ {0}
      /\ Open <= Max({Open, Start, 3}) /\ Start <= Max({Open, Start, 3})
      /\ 3 <= Max({Open, Start, 3}) /\ Max({Open, Start, 3}) \in Nat
      /\ Times <= Max({Times, Repeats}) /\ Repeats <= Max({Times, Repeats})
      /\ Max({Times, Repeats}) \in Nat
  BY AtAssumption, MaxOfTwo, MaxOfThree
<1>2. CASE c = "open"
  BY <1>1, <1>2 DEF Commands, Attempts, MostSends
<1>3. CASE c = "repeat"
  BY <1>1, <1>3 DEF Commands, Attempts, MostSends
<1>4. CASE c \in {"start", "end", "boot"}
  BY <1>1, <1>4 DEF Commands, Attempts, MostSends
<1>5. CASE c \in {"socketRead", "socketWrite"}
  BY <1>1, <1>5 DEF Commands, Attempts, MostSends
<1> QED BY <1>2, <1>3, <1>4, <1>5 DEF Calls

LEMMA Distributes ==
  ASSUME NEW a \in Nat, NEW b \in Nat, NEW k \in Nat, a < b
  PROVE  /\ (a + 1) * k = a * k + k /\ a * k + k <= b * k
         /\ a * k \in Nat /\ b * k \in Nat
<1>1. (a + 1) * k = a * k + k
  OBVIOUS
<1>2. b * k = (a + 1) * k + (b - (a + 1)) * k
  OBVIOUS
<1>3. (b - (a + 1)) * k \in Nat
  OBVIOUS
<1>4. a * k \in Nat /\ b * k \in Nat
  OBVIOUS
<1> QED BY <1>1, <1>2, <1>3, <1>4

\* Commands of this call sent so far
Made == sends + 1 - first

\* While a call runs it has commands and attempts left, and it never sends more
\* than MostSends allows, for which there was room when it began.
Budget ==
  /\ first \in Nat \ {0} /\ first <= sends + 1
  /\ cmd <= Commands(call) /\ tries < Attempts(call)
  /\ atPc \in {"send", "wait"} => cmd < Commands(call)
  /\ atPc = "send" => Made <= cmd * Attempts(call) + tries
  /\ atPc = "wait" => Made <= cmd * Attempts(call) + tries + 1
  /\ Made <= MostSends(call)
  /\ call = "boot" => first = 1
  /\ \/ call = "boot" \/ (atPc = "idle" /\ sends = 0)
     \/ first - 1 + MostSends(call) <= MaxSends

\* Lines are those of commands that were sent, and at most one whole answer is
\* unread beyond the bound.
Known(s, newest) == \A n \in 1 .. Len(s) : s[n].id >= 1 /\ s[n].id <= newest
Lately ==
  /\ Known(Unread, sends) /\ Known(recvBuffer, sends)
  /\ Len(rx) + Len(coming) <= MaxLate + 3
  /\ accepted \subseteq 1 .. sends /\ result \in Results

BoundInv == AtInv /\ Budget /\ Lately

LEMMA BoundTypes ==
  ASSUME BoundInv
  PROVE  /\ cmd \in Nat /\ tries \in Nat /\ sends \in Nat /\ first \in Nat \ {0} /\ Made \in Nat
         /\ call \in Calls /\ Commands(call) \in Nat \ {0} /\ Attempts(call) \in Nat \ {0}
         /\ MostSends(call) = Commands(call) * Attempts(call) /\ MostSends(call) \in Nat
         /\ MaxLate \in Nat /\ MaxSends \in Nat
         /\ rx \in Seq(Line) /\ coming \in Seq(Line) /\ recvBuffer \in Seq(Line)
         /\ Unread \in Seq(Line) /\ Len(Unread) = Len(rx) + Len(coming)
         /\ Len(rx) \in Nat /\ Len(coming) \in Nat
<1>1. AtTypes /\ Budget
  BY DEF BoundInv, AtInv
<1>2. cmd \in Nat /\ tries \in Nat /\ sends \in Nat /\ call \in Calls
      /\ rx \in Seq(Line) /\ coming \in Seq(Line) /\ recvBuffer \in Seq(Line)
  BY <1>1 DEF AtTypes
<1>3. first \in Nat \ {0} /\ Made \in Nat
  BY <1>1, <1>2 DEF Budget, Made
<1>4. Unread \in Seq(Line) /\ Len(Unread) = Len(rx) + Len(coming)
  BY <1>2, ConcatProperties DEF Unread
<1>5. Len(rx) \in Nat /\ Len(coming) \in Nat
  BY <1>2, LenProperties
<1> QED BY <1>2, <1>3, <1>4, <1>5, SendsAre, AtAssumption

\* How a call goes on after a result
Over == /\ atPc' = "idle"
        /\ \/ cmd' = cmd /\ tries' = tries
           \/ cmd' = cmd + 1 /\ tries' = 0
NextOne == atPc' = "send" /\ cmd' = cmd + 1 /\ tries' = 0 /\ cmd + 1 < Commands(call)
Again   == atPc' = "send" /\ cmd' = cmd /\ tries' = tries + 1 /\ tries + 1 < Attempts(call)

LEMMA AfterIs ==
  ASSUME BoundInv, atPc = "wait", NEW code \in Results, After(code)
  PROVE  (Over \/ NextOne \/ Again) /\ result' \in Results
<1>1. /\ call \in Calls /\ cmd \in Nat /\ Commands(call) \in Nat /\ cmd < Commands(call)
      /\ tries \in Nat /\ Repeats \in Nat /\ Times \in Nat /\ result \in Results
  BY BoundTypes, AtAssumption DEF BoundInv, Budget, Lately
<1>2. CASE NextCommand(code)
  BY <1>1, <1>2 DEF NextCommand, Over, NextOne, Results
<1>3. CASE Return(code) \/ Return("FAILED")
  BY <1>1, <1>3 DEF Return, Over, Results
<1>4. CASE TryAgain /\ tries + 1 < Attempts(call)
  BY <1>1, <1>4 DEF TryAgain, Again
<1>5. CASE call = "open"
  BY <1>2, <1>3, <1>5 DEF After, AfterOpen
<1>6. CASE call = "repeat"
  <2>1. Attempts(call) = Repeats
    BY <1>6 DEF Attempts
  <2> QED BY <1>1, <1>3, <1>4, <1>6, <2>1 DEF After, AfterRepeat
<1>7. CASE call \in {"start", "end", "boot"}
  <2>1. Attempts(call) = Times
    BY <1>7 DEF Attempts
  <2> QED BY <1>1, <1>2, <1>3, <1>4, <1>7, <2>1 DEF After, AfterTimes
<1>8. CASE call \in {"socketRead", "socketWrite"}
  BY <1>3, <1>8 DEF After
<1> QED BY <1>1, <1>5, <1>6, <1>7, <1>8 DEF Calls

\* A result leaves the budget kept.
LEMMA AnswerBudget ==
  ASSUME BoundInv, atPc = "wait", NEW code \in Results, NEW slice, Answered(code, slice)
  PROVE  Budget' /\ (Over \/ NextOne \/ Again) /\ result' \in Results
         /\ UNCHANGED <<call, sends, first, accepted>>
<1>1. After(code) /\ UNCHANGED <<call, sends, first, accepted>>
  BY DEF Answered
<1>2. (Over \/ NextOne \/ Again) /\ result' \in Results
  BY <1>1, AfterIs
<1> DEFINE A == Attempts(call)
           C == Commands(call)
<1>3. /\ A \in Nat \ {0} /\ C \in Nat /\ MostSends(call) = C * A /\ cmd \in Nat /\ tries \in Nat
      /\ Made \in Nat /\ sends \in Nat /\ first \in Nat \ {0}
  BY BoundTypes
<1>4. /\ first <= sends + 1 /\ cmd < C /\ tries < A /\ Made <= cmd * A + tries + 1
      /\ Made <= MostSends(call) /\ (call = "boot" => first = 1)
      /\ call = "boot" \/ first - 1 + MostSends(call) <= MaxSends
  BY DEF BoundInv, Budget
<1>5. (cmd + 1) * A = cmd * A + A /\ cmd * A \in Nat
  BY <1>3, <1>4, Distributes
<1>6. /\ A' = A /\ C' = C /\ Made' = Made /\ MostSends(call)' = MostSends(call)
  BY <1>1 DEF Made
<1> HIDE DEF A, C
<1>7. tries' < A /\ cmd' <= C
  BY <1>2, <1>3, <1>4 DEF Over, NextOne, Again, A, C
<1>8. atPc' \in {"idle", "send"} /\ (atPc' = "send" => cmd' < C /\ Made <= cmd' * A + tries')
  <2>1. CASE Over
    BY <2>1 DEF Over
  <2>2. CASE NextOne
    BY <1>3, <1>4, <1>5, <2>2 DEF NextOne, C
  <2>3. CASE Again
    BY <1>3, <1>4, <1>5, <2>3 DEF Again
  <2> QED BY <1>2, <2>1, <2>2, <2>3
<1>9. Budget'
  BY <1>1, <1>3, <1>4, <1>6, <1>7, <1>8 DEF Budget, A, C
<1> QED BY <1>1, <1>2, <1>9

LEMMA SendSays ==
  ASSUME BoundInv, SendAt
  PROVE  /\ \E a \in Seq(Line) :
              /\ Unread' = Unread \o a /\ Len(a) <= 3
              /\ \A n \in 1 .. Len(a) : a[n].id = sends + 1
              /\ a = <<>> \/ Len(rx) + Len(coming) <= MaxLate
         /\ accepted' \subseteq accepted \cup {sends + 1} /\ coming' \in Seq(Line)
<1>1. /\ rx \in Seq(Line) /\ coming \in Seq(Line) /\ Unread = rx \o coming /\ rx' = rx /\ AtTypes
      /\ Unread \in Seq(Line)
  BY BoundTypes DEF SendAt, Unread, BoundInv, AtInv
<1>2. CASE UNCHANGED <<coming, accepted>>
  <2>1. Unread' = Unread \o <<>> /\ <<>> \in Seq(Line) /\ Len(<<>>) = 0
    BY <1>1, <1>2, ConcatEmptySeq, EmptySeq DEF Unread
  <2>2. \A n \in 1 .. Len(<<>>) : <<>>[n].id = sends + 1
    BY <2>1
  <2>3. accepted' \subseteq accepted \cup {sends + 1} /\ coming' \in Seq(Line)
    BY <1>1, <1>2
  <2>4. 0 <= 3
    OBVIOUS
  <2> QED BY <2>1, <2>2, <2>3, <2>4, Zenon
<1>3. CASE ~ UNCHANGED <<coming, accepted>>
  <2>1. PICK a \in Answers(Style) :
          /\ Len(coming) + Len(rx) <= MaxLate
          /\ coming' = coming \o
               [n \in DOMAIN (<<Echo(Style)>> \o a) |->
                  [line |-> (<<Echo(Style)>> \o a)[n], id |-> sends + 1]]
          /\ accepted' = IF "OK" \in Range(a) THEN accepted \cup {sends + 1} ELSE accepted
    BY <1>3 DEF SendAt
  <2> DEFINE s == [n \in DOMAIN (<<Echo(Style)>> \o a) |->
                     [line |-> (<<Echo(Style)>> \o a)[n], id |-> sends + 1]]
  <2>2. s \in Seq(Line) /\ IsAnswer(s, Style, sends + 1)
    BY <1>1, ModemAnswers
  <2>3. coming' = coming \o s
    BY <2>1
  <2> HIDE DEF s
  <2>4. Len(s) <= 3 /\ \A n \in 1 .. Len(s) : s[n].id = sends + 1
    BY <2>2 DEF IsAnswer
  <2>5. coming' \in Seq(Line)
    BY <1>1, <2>2, <2>3, ConcatProperties
  <2>6. rx \o (coming \o s) = (rx \o coming) \o s
    BY <1>1, <2>2, ConcatAssociative, SMTT(30)
  <2>7. Unread' = Unread \o s /\ Len(rx) + Len(coming) <= MaxLate
    <3>1. Len(coming) \in Nat /\ Len(rx) \in Nat
      BY BoundTypes
    <3>2. Unread' = rx' \o coming'
      BY DEF Unread
    <3>3. Unread' = (rx \o coming) \o s
      BY <1>1, <2>3, <2>6, <3>2
    <3> QED BY <1>1, <2>1, <3>1, <3>3
  <2>8. accepted' \subseteq accepted \cup {sends + 1}
    BY <2>1
  <2> QED BY <2>2, <2>4, <2>5, <2>7, <2>8
<1> QED BY <1>2, <1>3

LEMMA SendAtBound ==
  ASSUME BoundInv, SendAt
  PROVE  Budget' /\ Lately'
<1>1. /\ atPc = "send" /\ atPc' = "wait" /\ sends' = sends + 1 /\ recvBuffer' = <<>>
      /\ UNCHANGED <<call, cmd, tries, rx, result, first>>
  BY DEF SendAt
<1> DEFINE A == Attempts(call)
           C == Commands(call)
<1>2. /\ A \in Nat \ {0} /\ C \in Nat /\ MostSends(call) = C * A /\ cmd \in Nat /\ tries \in Nat
      /\ Made \in Nat /\ sends \in Nat /\ first \in Nat \ {0} /\ MostSends(call) \in Nat
      /\ Made = sends + 1 - first
  BY BoundTypes DEF Made
<1>3. /\ first <= sends + 1 /\ cmd < C /\ tries < A /\ Made <= cmd * A + tries
      /\ call = "boot" => first = 1
      /\ call = "boot" \/ first - 1 + MostSends(call) <= MaxSends
  BY <1>1 DEF BoundInv, Budget
<1>4. cmd * A + A <= C * A /\ cmd * A \in Nat
  BY <1>2, <1>3, Distributes
<1>5. A' = A /\ C' = C /\ Made' = Made + 1 /\ MostSends(call)' = MostSends(call)
  BY <1>1, <1>2 DEF Made
<1> HIDE DEF A, C
<1>6. Budget'
  <2>1. Made + 1 <= cmd * A + tries + 1 /\ Made + 1 <= MostSends(call)
    BY <1>2, <1>3, <1>4
  <2>2. first <= sends + 2
    BY <1>2, <1>3
  <2>3. /\ Attempts(call') = A /\ Commands(call') = C /\ MostSends(call') = MostSends(call)
        /\ Made' = Made + 1
    BY <1>1, <1>5 DEF A, C
  <2>4. Made' <= cmd' * A + tries' + 1 /\ Made' <= MostSends(call)
    BY <1>1, <2>1, <2>3
  <2>5. first' \in Nat \ {0} /\ first' <= sends' + 1 /\ cmd' < C /\ cmd' <= C /\ tries' < A
    BY <1>1, <1>2, <1>3
  <2>6. (call' = "boot" => first' = 1)
        /\ (call' = "boot" \/ first' - 1 + MostSends(call) <= MaxSends)
    <3>1. call' = call /\ first' = first
      BY <1>1
    <3> QED BY <1>3, <3>1
  <2>7. atPc' = "wait"
    BY <1>1
  <2> HIDE DEF Made
  <2> QED BY <2>3, <2>4, <2>5, <2>6, <2>7 DEF Budget
<1>7. Lately'
  <2>1. PICK a \in Seq(Line) :
          /\ Unread' = Unread \o a /\ Len(a) <= 3
          /\ \A n \in 1 .. Len(a) : a[n].id = sends + 1
          /\ a = <<>> \/ Len(rx) + Len(coming) <= MaxLate
    BY SendSays
  <2>2. Unread \in Seq(Line) /\ Known(Unread, sends) /\ Known(recvBuffer, sends)
        /\ Len(rx) + Len(coming) <= MaxLate + 3 /\ accepted \subseteq 1 .. sends
        /\ result \in Results /\ MaxLate \in Nat /\ rx \in Seq(Line) /\ coming' \in Seq(Line)
        /\ Len(Unread) = Len(rx) + Len(coming) /\ Len(Unread) \in Nat /\ Len(a) \in Nat
    BY BoundTypes, SendSays, LenProperties DEF BoundInv, Lately
  <2>3. /\ Len(Unread \o a) = Len(Unread) + Len(a)
        /\ \A n \in 1 .. Len(Unread) + Len(a) :
             (Unread \o a)[n] = IF n <= Len(Unread) THEN Unread[n] ELSE a[n - Len(Unread)]
    BY <2>2, ConcatProperties
  <2>4. ASSUME NEW n \in 1 .. Len(Unread')
        PROVE  Unread'[n].id >= 1 /\ Unread'[n].id <= sends + 1
    <3>1. CASE n <= Len(Unread)
      <4>1. Unread[n].id >= 1 /\ Unread[n].id <= sends /\ Unread[n].id \in Nat
        <5>1. n \in 1 .. Len(Unread)
          BY <2>1, <2>2, <2>3, <2>4, <3>1
        <5>2. Unread[n] \in Line
          BY <2>2, <5>1
        <5>3. Unread[n].id \in Nat
          BY <5>2 DEF Line
        <5> QED BY <2>2, <5>1, <5>3 DEF Known
      <4> QED BY <1>2, <2>1, <2>3, <2>4, <3>1, <4>1
    <3>2. CASE n > Len(Unread)
      <4>1. n - Len(Unread) \in 1 .. Len(a) /\ Unread'[n] = a[n - Len(Unread)]
        BY <2>1, <2>2, <2>3, <2>4, <3>2
      <4>2. a[n - Len(Unread)].id = sends + 1
        BY <2>1, <4>1
      <4> QED BY <1>2, <4>1, <4>2
    <3> QED BY <2>2, <3>1, <3>2
  <2>5. Known(Unread', sends') /\ Known(recvBuffer', sends')
    BY <1>1, <2>4 DEF Known
  <2>6. Len(rx') + Len(coming') <= MaxLate + 3
    <3>1. Len(Unread') = Len(rx') + Len(coming')
      BY <1>1, <2>2, ConcatProperties DEF Unread
    <3>2. a = <<>> => Len(a) = 0
      OBVIOUS
    <3> QED BY <2>1, <2>2, <2>3, <3>1, <3>2
  <2>7. accepted' \subseteq 1 .. sends'
    <3>1. accepted' \subseteq accepted \cup {sends + 1}
      BY SendSays
    <3>2. 1 .. sends \subseteq 1 .. sends' /\ sends + 1 \in 1 .. sends'
      BY <1>1, <1>2
    <3> QED BY <2>2, <3>1, <3>2
  <2> QED BY <1>1, <2>2, <2>5, <2>6, <2>7 DEF Lately
<1> QED BY <1>6, <1>7

\* A poll leaves fewer lines, all known.
LEMMA PollBound ==
  ASSUME BoundInv, NEW n \in 1 .. Len(rx), rx' = SubSeq(rx, n + 1, Len(rx)), coming' = coming
  PROVE  /\ Known(Unread', sends) /\ Len(rx') + Len(coming') < Len(rx) + Len(coming)
         /\ Known(SubSeq(rx, 1, n), sends) /\ SubSeq(rx, 1, n) \in Seq(Line) /\ rx' \in Seq(Line)
<1>1. Taken(Unread, Unread', SubSeq(rx, 1, n), n) /\ rx' \in Seq(Line)
  BY PollTakes DEF BoundInv, AtInv
<1>2. Unread \in Seq(Line) /\ Known(Unread, sends) /\ Len(Unread) = Len(rx) + Len(coming)
      /\ Len(rx) \in Nat /\ Len(coming) \in Nat /\ rx \in Seq(Line) /\ coming \in Seq(Line)
  BY BoundTypes DEF BoundInv, Lately
<1>3. Len(rx') = Len(rx) - n
  BY <1>2, SubSeqProperties
<1> DEFINE slice == SubSeq(rx, 1, n)
<1>4. Taken(Unread, Unread', slice, n)
  BY <1>1
<1> HIDE DEF slice
<1>5. Known(Unread', sends) /\ Known(slice, sends) /\ slice \in Seq(Line)
  <2>1. /\ slice \in Seq(Line) /\ Len(slice) = n /\ n \in Nat /\ n <= Len(Unread)
        /\ Len(Unread') = Len(Unread) - n
        /\ \A i \in 1 .. n : slice[i] = Unread[i]
        /\ \A i \in 1 .. Len(Unread') : Unread'[i] = Unread[i + n]
    BY <1>4 DEF Taken
  <2>2. ASSUME NEW i \in 1 .. n PROVE slice[i].id >= 1 /\ slice[i].id <= sends
    <3>1. i \in 1 .. Len(Unread) /\ slice[i] = Unread[i]
      BY <1>2, <2>1
    <3> QED BY <1>2, <3>1 DEF Known
  <2>3. ASSUME NEW i \in 1 .. Len(Unread') PROVE Unread'[i].id >= 1 /\ Unread'[i].id <= sends
    <3>1. i + n \in 1 .. Len(Unread) /\ Unread'[i] = Unread[i + n]
      BY <1>2, <2>1
    <3> QED BY <1>2, <3>1 DEF Known
  <2> QED BY <2>1, <2>2, <2>3 DEF Known
<1> QED BY <1>1, <1>2, <1>3, <1>5 DEF slice

\* What the results can be
LEMMA CommonResult == ASSUME NEW slice PROVE Common(slice) \in Results
  BY DEF Common, Results
LEMMA TimesResult == ASSUME NEW slice, NEW m \in BOOLEAN PROVE WithTimes(slice, m) \in Results
<1>1. CASE ~Has(slice, "OK")
  BY <1>1 DEF WithTimes, Results
<1>2. CASE Has(slice, "OK") /\ m /\ ~Has(slice, "DATA")
  BY <1>2 DEF WithTimes, Results
<1>3. CASE Has(slice, "OK") /\ ~(m /\ ~Has(slice, "DATA"))
  BY <1>3 DEF WithTimes, Results
<1> QED BY <1>1, <1>2, <1>3
LEMMA ReadResult == ASSUME NEW slice PROVE SocketRead(slice) \in Results
  BY DEF SocketRead, Results

LEMMA PollAtBound ==
  ASSUME BoundInv, PollAt
  PROVE  /\ Budget' /\ Lately' /\ (Over \/ NextOne \/ Again) /\ call' = call
         /\ Len(rx') + Len(coming') < Len(rx) + Len(coming)
<1>1. PICK n \in 1 .. Len(rx) :
        /\ rx' = SubSeq(rx, n + 1, Len(rx))
        /\ Answered(IF Style = "at_common" THEN Common(SubSeq(rx, 1, n))
                    ELSE WithTimes(SubSeq(rx, 1, n), Style = "matchstr"), SubSeq(rx, 1, n))
  BY DEF PollAt
<1>2. atPc = "wait" /\ coming' = coming /\ recvBuffer' = recvBuffer
  BY DEF PollAt
<1> DEFINE slice == SubSeq(rx, 1, n)
           code == IF Style = "at_common" THEN Common(slice)
                   ELSE WithTimes(slice, Style = "matchstr")
<1>3. code \in Results
  <2>1. (Style = "matchstr") \in BOOLEAN
    OBVIOUS
  <2> QED BY <2>1, CommonResult, TimesResult
<1>4. Answered(code, slice)
  BY <1>1
<1> HIDE DEF code, slice
<1>5. Budget' /\ (Over \/ NextOne \/ Again) /\ result' \in Results
      /\ UNCHANGED <<call, sends, first, accepted>>
  BY <1>2, <1>3, <1>4, AnswerBudget
<1>6. Known(Unread', sends) /\ Len(rx') + Len(coming') < Len(rx) + Len(coming)
      /\ rx' \in Seq(Line)
  BY <1>1, <1>2, PollBound
<1>7. Lately'
  <2>1. Len(rx') + Len(coming') <= MaxLate + 3
    <3>1. Len(rx') \in Nat /\ Len(coming') \in Nat
      BY <1>2, <1>6, BoundTypes, LenProperties
    <3>2. Len(rx) + Len(coming) <= MaxLate + 3
      BY DEF BoundInv, Lately
    <3>3. Len(rx) \in Nat /\ Len(coming) \in Nat /\ MaxLate \in Nat
      BY BoundTypes
    <3> QED BY <1>6, <3>1, <3>2, <3>3
  <2>2. Known(recvBuffer', sends') /\ Known(Unread', sends') /\ accepted' \subseteq 1 .. sends'
    BY <1>2, <1>5, <1>6 DEF BoundInv, Lately
  <2> QED BY <1>5, <2>1, <2>2 DEF Lately
<1> QED BY <1>5, <1>6, <1>7

LEMMA TimeoutBound ==
  ASSUME BoundInv, TimeoutAt
  PROVE  /\ Budget' /\ Lately' /\ (Over \/ NextOne \/ Again) /\ call' = call
         /\ UNCHANGED <<rx, coming>>
<1> DEFINE code == IF Style = "socketRead" THEN "FAILED" ELSE "TIMEOUT"
<1>1. atPc = "wait" /\ Answered(code, <<>>) /\ UNCHANGED <<coming, rx, recvBuffer>>
  BY DEF TimeoutAt
<1>2. code \in Results
  BY DEF Results
<1> HIDE DEF code
<1>3. Budget' /\ (Over \/ NextOne \/ Again) /\ result' \in Results
      /\ UNCHANGED <<call, sends, first, accepted>>
  BY <1>1, <1>2, AnswerBudget
<1>4. Unread' = Unread
  BY <1>1 DEF Unread
<1>5. Lately'
  BY <1>1, <1>3, <1>4 DEF BoundInv, Lately
<1> QED BY <1>1, <1>3, <1>5

\* What LM61_sendData and LM61_RecvData have read is known.
LEMMA CopiedKnown ==
  ASSUME BoundInv, NEW slice \in Seq(Line), Known(slice, sends), NEW c, c = Copied(slice)
  PROVE  Known(c, sends)
<1>1. recvBuffer \in Seq(Line) /\ Known(recvBuffer, sends)
  BY BoundTypes DEF BoundInv, Lately
<1>2. c = slice \o SubSeq(recvBuffer, Len(slice) + 1, Len(recvBuffer))
  BY DEF Copied
<1>3. \A i \in 1 .. Len(c) :
        (i \in 1 .. Len(slice) /\ c[i] = slice[i]) \/ (i \in 1 .. Len(recvBuffer) /\ c[i] = recvBuffer[i])
  BY <1>1, <1>2, CopiedLines
<1> QED BY <1>1, <1>3 DEF Known

LEMMA PollDataBound ==
  ASSUME BoundInv, PollData
  PROVE  /\ Budget' /\ Lately' /\ call' = call
         /\ Len(rx') + Len(coming') < Len(rx) + Len(coming)
         /\ \/ Over \/ NextOne \/ Again
            \/ atPc' \in {"wait", "halted"} /\ UNCHANGED <<cmd, tries>>
<1>1. PICK n \in 1 .. Len(rx) :
        /\ rx' = SubSeq(rx, n + 1, Len(rx))
        /\ recvBuffer' = Copied(SubSeq(rx, 1, n))
        /\ \/ UNCHANGED <<atPc, call, cmd, tries, sends, result, first, accepted>>
           \/ Answered("SUCCESS", recvBuffer')
           \/ Answered(SocketRead(recvBuffer'), recvBuffer')
           \/ /\ atPc' = "halted"
              /\ UNCHANGED <<call, cmd, tries, sends, result, first, accepted>>
  BY DEF PollData
<1>2. atPc = "wait" /\ coming' = coming
  BY DEF PollData
<1>3. /\ Known(Unread', sends) /\ Len(rx') + Len(coming') < Len(rx) + Len(coming)
      /\ Known(SubSeq(rx, 1, n), sends) /\ SubSeq(rx, 1, n) \in Seq(Line) /\ rx' \in Seq(Line)
  BY <1>1, <1>2, PollBound
<1>4. Known(recvBuffer', sends)
  BY <1>1, <1>3, CopiedKnown
<1>6. ASSUME atPc' \in {"wait", "halted"},
             UNCHANGED <<call, cmd, tries, sends, result, first, accepted>>
      PROVE  Budget'
  <2>1. Made' = Made
    BY <1>6 DEF Made
  <2> QED BY <1>2, <1>6, <2>1 DEF BoundInv, Budget
<1>7. \/ \E code \in Results : Answered(code, recvBuffer')
      \/ /\ atPc' \in {"wait", "halted"}
         /\ UNCHANGED <<call, cmd, tries, sends, result, first, accepted>>
  <2>1. "SUCCESS" \in Results /\ SocketRead(recvBuffer') \in Results
    BY ReadResult DEF Results
  <2> QED BY <1>1, <1>2, <2>1
<1>8. /\ Budget' /\ call' = call /\ UNCHANGED <<sends, accepted>> /\ result' \in Results
      /\ \/ Over \/ NextOne \/ Again
         \/ atPc' \in {"wait", "halted"} /\ UNCHANGED <<cmd, tries>>
  <2>1. result \in Results
    BY DEF BoundInv, Lately
  <2>2. CASE \E code \in Results : Answered(code, recvBuffer')
    <3>1. PICK code \in Results : Answered(code, recvBuffer')
      BY <2>2
    <3>2. Budget' /\ (Over \/ NextOne \/ Again) /\ result' \in Results
          /\ UNCHANGED <<call, sends, first, accepted>>
      BY <1>2, <3>1, AnswerBudget
    <3> QED BY <3>2
  <2>3. CASE /\ atPc' \in {"wait", "halted"}
             /\ UNCHANGED <<call, cmd, tries, sends, result, first, accepted>>
    BY <1>6, <2>1, <2>3
  <2> QED BY <1>7, <2>2, <2>3
<1>9. Lately'
  <2>1. Len(rx') + Len(coming') <= MaxLate + 3
    <3>1. Len(rx') \in Nat /\ Len(coming') \in Nat
      BY <1>2, <1>3, BoundTypes, LenProperties
    <3>2. Len(rx) + Len(coming) <= MaxLate + 3
      BY DEF BoundInv, Lately
    <3>3. Len(rx) \in Nat /\ Len(coming) \in Nat /\ MaxLate \in Nat
      BY BoundTypes
    <3> QED BY <1>3, <3>1, <3>2, <3>3
  <2>2. Known(recvBuffer', sends') /\ Known(Unread', sends') /\ accepted' \subseteq 1 .. sends'
    BY <1>3, <1>4, <1>8 DEF BoundInv, Lately
  <2> QED BY <1>8, <2>1, <2>2 DEF Lately
<1> QED BY <1>3, <1>8, <1>9

LEMMA CallAtBound ==
  ASSUME BoundInv, CallAt
  PROVE  Budget' /\ Lately'
<1>1. PICK c \in Calls :
        /\ IF c = "boot" THEN sends = 0 ELSE sends + MostSends(c) <= MaxSends
        /\ call' = c
  BY DEF CallAt
<1>2. /\ cmd' = 0 /\ tries' = 0 /\ atPc' = "send" /\ first' = sends + 1 /\ accepted' = {}
      /\ UNCHANGED <<coming, rx, recvBuffer, sends, result>>
  BY DEF CallAt
<1>3. /\ sends \in Nat /\ Commands(c) \in Nat \ {0} /\ Attempts(c) \in Nat \ {0}
      /\ MostSends(c) \in Nat
  BY BoundTypes, SendsAre
<1>4. Made' = 0
  BY <1>2, <1>3 DEF Made
<1>5. /\ Commands(call)' = Commands(c) /\ Attempts(call)' = Attempts(c)
      /\ MostSends(call)' = MostSends(c)
  BY <1>1
<1>6. 0 * Attempts(c) = 0
  BY <1>3
<1>7. Budget'
  BY <1>1, <1>2, <1>3, <1>4, <1>5, <1>6 DEF Budget
<1>8. Unread' = Unread
  BY <1>2 DEF Unread
<1>9. Lately'
  BY <1>2, <1>8 DEF BoundInv, Lately
<1> QED BY <1>7, <1>9

LEMMA ArriveBound ==
  ASSUME BoundInv, Arrive
  PROVE  /\ Budget' /\ Lately' /\ Len(rx') + Len(coming') = Len(rx) + Len(coming)
         /\ UNCHANGED <<atPc, call, cmd, tries>>
<1>1. UNCHANGED <<atPc, call, cmd, tries, recvBuffer, sends, result, first, accepted>>
  BY DEF Arrive
<1>2. Unread' = Unread /\ rx' \in Seq(Line) /\ coming' \in Seq(Line)
  BY ArrivesUnread DEF BoundInv, AtInv
<1>3. Len(rx') + Len(coming') = Len(rx) + Len(coming)
  <2>1. Len(Unread') = Len(rx') + Len(coming')
    BY <1>2, ConcatProperties DEF Unread
  <2> QED BY <1>2, <2>1, BoundTypes
<1>4. Made' = Made
  BY <1>1 DEF Made
<1>5. Budget'
  BY <1>1, <1>4 DEF BoundInv, Budget
<1>6. Lately'
  BY <1>1, <1>2, <1>3 DEF BoundInv, Lately
<1> QED BY <1>1, <1>3, <1>5, <1>6

LEMMA BoundStep == BoundInv /\ [AtNext]_atVars => BoundInv'
<1> SUFFICES ASSUME BoundInv, [AtNext]_atVars PROVE BoundInv'
  OBVIOUS
<1>1. AtInv'
  BY AtNextKeeps DEF BoundInv
<1>2. CASE UNCHANGED atVars
  <2>1. /\ UNCHANGED <<atPc, call, cmd, tries, sends, result, first, accepted>>
        /\ UNCHANGED <<coming, rx, recvBuffer>>
    BY <1>2 DEF atVars
  <2>2. Unread' = Unread /\ Made' = Made
    BY <2>1 DEF Unread, Made
  <2>3. Budget'
    BY <2>1, <2>2 DEF BoundInv, Budget
  <2>4. Lately'
    BY <2>1, <2>2 DEF BoundInv, Lately
  <2> QED BY <1>1, <2>3, <2>4 DEF BoundInv
<1>3. CASE AtNext
  <2>1. Budget' /\ Lately'
    BY <1>3, CallAtBound, SendAtBound, PollAtBound, PollDataBound, TimeoutBound, ArriveBound
    DEF AtNext, Driver
  <2> QED BY <1>1, <2>1 DEF BoundInv
<1> QED BY <1>2, <1>3

LEMMA BoundInit == AtInit => BoundInv
<1> SUFFICES ASSUME AtInit PROVE BoundInv
  OBVIOUS
<1>1. AtInv
  BY AtInitInv
<1>2. /\ atPc = "idle" /\ call = "repeat" /\ cmd = 0 /\ tries = 0 /\ coming = <<>> /\ rx = <<>>
      /\ recvBuffer = <<>> /\ sends = 0 /\ result = "none" /\ first = 1 /\ accepted = {}
  BY DEF AtInit
<1>3. Commands(call) \in Nat \ {0} /\ Attempts(call) \in Nat \ {0} /\ MostSends(call) \in Nat
  <2>1. call \in Calls
    BY <1>2 DEF Calls
  <2> QED BY <2>1, SendsAre
<1>4. Made = 0
  BY <1>2 DEF Made
<1>5. Budget
  BY <1>2, <1>3, <1>4 DEF Budget
<1>6. Unread = <<>> /\ Len(rx) = 0 /\ Len(coming) = 0
  BY <1>2 DEF Unread
<1>7. Lately
  BY <1>2, <1>6, AtAssumption DEF Lately, Known, Results
<1> QED BY <1>1, <1>5, <1>7 DEF BoundInv

LEMMA BoundInvariant == AtSpec => []BoundInv
  BY BoundInit, BoundStep, PTL DEF AtSpec

LEMMA BoundIsTyped == BoundInv => AtTypeOK
<1> SUFFICES ASSUME BoundInv PROVE AtTypeOK
  OBVIOUS
<1> DEFINE most == Max({MaxSends, MostSends("boot")})
<1>1. /\ MaxSends <= most /\ MostSends("boot") <= most /\ most \in Nat /\ MostSends("boot") \in Nat
      /\ MaxSends \in Nat
  <2>1. "boot" \in Calls
    BY DEF Calls
  <2> QED BY <2>1, SendsAre, AtAssumption, MaxOfTwo
<1>2. /\ sends \in Nat /\ first \in Nat \ {0} /\ MostSends(call) \in Nat
      /\ first <= sends + 1 /\ sends + 1 - first <= MostSends(call)
      /\ call = "boot" => first = 1
      /\ \/ call = "boot" \/ (atPc = "idle" /\ sends = 0)
         \/ first - 1 + MostSends(call) <= MaxSends
  BY BoundTypes DEF BoundInv, Budget, Made
<1> HIDE DEF most
<1>3. sends <= most
  <2>1. CASE call = "boot"
    BY <1>1, <1>2, <2>1
  <2>2. CASE atPc = "idle" /\ sends = 0
    BY <1>1, <2>2
  <2>3. CASE first - 1 + MostSends(call) <= MaxSends
    BY <1>1, <1>2, <2>3
  <2> QED BY <1>2, <2>1, <2>2, <2>3
<1>4. Ids = 1 .. most
  BY DEF Ids, most
<1>5. sends \in {0} \cup Ids /\ first - 1 \in {0} \cup Ids /\ 1 .. sends \subseteq Ids
  BY <1>1, <1>2, <1>3, <1>4
<1>6. read \in {0} \cup Ids
  BY <1>1, <1>2, <1>3, <1>4 DEF BoundInv, AtInv, AtTypes, DataInOrder
<1>7. ASSUME NEW s \in Seq(Line), Known(s, sends) PROVE s \in Seq(Lines)
  <2>1. Len(s) \in Nat /\ s = [n \in 1 .. Len(s) |-> s[n]]
    BY LenProperties
  <2>2. ASSUME NEW n \in 1 .. Len(s) PROVE s[n] \in Lines
    <3>1. s[n] \in Line /\ s[n].id >= 1 /\ s[n].id <= sends
      BY <1>7 DEF Known
    <3>2. s[n].id \in Nat
      BY <3>1 DEF Line
    <3>3. s[n].id \in Ids
      BY <1>2, <1>5, <3>1, <3>2
    <3>4. s[n] = [line |-> s[n].line, id |-> s[n].id] /\ s[n].line \in Kinds
      BY <3>1 DEF Line
    <3> QED BY <3>3, <3>4 DEF Lines, Kinds
  <2>3. s \in [1 .. Len(s) -> Lines]
    BY <2>1, <2>2
  <2> QED BY <2>1, <2>3, SeqDef
<1>8. rx \in Seq(Lines) /\ coming \in Seq(Lines) /\ recvBuffer \in Seq(Lines)
  <2>1. /\ rx \in Seq(Line) /\ coming \in Seq(Line) /\ recvBuffer \in Seq(Line)
        /\ Len(Unread) = Len(rx) + Len(coming) /\ Len(rx) \in Nat /\ Len(coming) \in Nat
        /\ Known(Unread, sends) /\ Known(recvBuffer, sends)
    BY BoundTypes DEF BoundInv, Lately
  <2>2. \A n \in 1 .. Len(rx) + Len(coming) :
          Unread[n] = IF n <= Len(rx) THEN rx[n] ELSE coming[n - Len(rx)]
    BY <2>1, ConcatProperties DEF Unread
  <2>3. Known(rx, sends)
    <3>1. ASSUME NEW n \in 1 .. Len(rx) PROVE rx[n].id >= 1 /\ rx[n].id <= sends
      <4>1. n \in 1 .. Len(Unread) /\ Unread[n] = rx[n]
        BY <2>1, <2>2
      <4> QED BY <2>1, <4>1 DEF Known
    <3> QED BY <3>1 DEF Known
  <2>4. Known(coming, sends)
    <3>1. ASSUME NEW n \in 1 .. Len(coming) PROVE coming[n].id >= 1 /\ coming[n].id <= sends
      <4>1. n + Len(rx) \in 1 .. Len(Unread) /\ Unread[n + Len(rx)] = coming[n]
        BY <2>1, <2>2
      <4> QED BY <2>1, <4>1 DEF Known
    <3> QED BY <3>1 DEF Known
  <2> QED BY <1>7, <2>1, <2>3, <2>4
<1>9. cmd \in 0 .. Max({Open, Start, 3}) /\ tries \in 0 .. Max({Times, Repeats})
  <2>1. Max({Open, Start, 3}) \in Nat /\ Max({Times, Repeats}) \in Nat
    BY AtAssumption, MaxOfTwo, MaxOfThree
  <2>2. Commands(call) <= Max({Open, Start, 3}) /\ Attempts(call) <= Max({Times, Repeats})
    BY BoundTypes, SendsAre
  <2>3. cmd <= Commands(call) /\ tries < Attempts(call)
    BY DEF BoundInv, Budget
  <2>4. Commands(call) \in Nat /\ Attempts(call) \in Nat /\ cmd \in Nat /\ tries \in Nat
    BY BoundTypes
  <2> QED BY <2>1, <2>2, <2>3, <2>4
<1>10. accepted \subseteq Ids /\ result \in Results
  BY <1>5 DEF BoundInv, Lately
<1>11. /\ atPc \in {"idle", "send", "wait", "halted"} /\ call \in Calls
       /\ clean \in BOOLEAN /\ cleanStart \in BOOLEAN /\ foreign \in BOOLEAN
  BY DEF BoundInv, AtInv, AtTypes
<1> QED BY <1>5, <1>6, <1>8, <1>9, <1>10, <1>11 DEF AtTypeOK

\* What the driver keeps about a call has its type: a call never sends more
\* commands than its procedure has, each as often as it is tried (lm61.c).
THEOREM AtTypeCorrect == AtSpec => []AtTypeOK
  BY BoundInvariant, BoundIsTyped, PTL

\* A call sends at most the commands of its procedure, each as often as it is
\* tried, whatever the modem answers or does not (lm61.c:150-169, 263-344).
SendsBounded == sends - first + 1 <= MostSends(call)
THEOREM CallsAreBounded == AtSpec => []SendsBounded
<1>1. BoundInv => SendsBounded
  BY BoundTypes, SMTT(30) DEF BoundInv, Budget, Made, SendsBounded
<1> QED BY <1>1, BoundInvariant, PTL

\* What is left of a call: the attempts it may still make, and in each of them
\* the lines that may come.
AttemptsLeft == (Commands(call) - cmd) * Attempts(call) - tries
Rank ==
  IF atPc \in {"idle", "halted"} THEN 0
  ELSE AttemptsLeft * (MaxLate + 5)
       + (IF atPc = "send" THEN MaxLate + 4 ELSE Len(rx) + Len(coming))

LEMMA AttemptsAreLeft ==
  ASSUME BoundInv, atPc \in {"send", "wait"}
  PROVE  AttemptsLeft \in Nat \ {0}
<1> DEFINE A == Attempts(call)
           n == Commands(call) - cmd
<1>1. A \in Nat /\ n \in Nat \ {0} /\ tries \in Nat /\ tries < A
  <2>1. A \in Nat /\ cmd \in Nat /\ tries \in Nat /\ Commands(call) \in Nat
    BY BoundTypes
  <2>2. cmd < Commands(call) /\ tries < A
    BY DEF BoundInv, Budget
  <2> QED BY <2>1, <2>2
<1> HIDE DEF A, n
<1>2. 0 * A + A <= n * A /\ 0 * A = 0 /\ n * A \in Nat
  BY <1>1, Distributes
<1>3. n * A - tries \in Nat \ {0}
  BY <1>1, <1>2
<1> QED BY <1>3 DEF AttemptsLeft, A, n

\* A result leaves fewer attempts.
LEMMA FewerLeft ==
  ASSUME BoundInv, atPc = "wait", call' = call, NextOne \/ Again
  PROVE  AttemptsLeft' \in Int /\ AttemptsLeft' + 1 <= AttemptsLeft
<1> DEFINE A == Attempts(call)
           C == Commands(call)
<1>1. /\ A \in Nat \ {0} /\ C \in Nat /\ cmd \in Nat /\ tries \in Nat /\ tries < A /\ cmd < C
  BY BoundTypes DEF BoundInv, Budget
<1>2. AttemptsLeft = (C - cmd) * A - tries /\ AttemptsLeft' = (C - cmd') * A - tries'
  BY DEF AttemptsLeft
<1>3. (cmd' = cmd + 1 /\ tries' = 0) \/ (cmd' = cmd /\ tries' = tries + 1)
  BY DEF NextOne, Again
<1> HIDE DEF A, C
<1>4. (C - cmd) * A = (C - (cmd + 1)) * A + A /\ (C - cmd) * A \in Int /\ (C - (cmd + 1)) * A \in Int
  BY <1>1
<1> QED BY <1>1, <1>2, <1>3, <1>4

LEMMA RankFalls ==
  ASSUME BoundInv, BoundInv', Driver
  PROVE  Rank' < Rank
<1> DEFINE K == MaxLate + 5
           L == Len(rx) + Len(coming)
<1>1. /\ MaxLate \in Nat /\ L \in Nat /\ L <= MaxLate + 3
      /\ K \in Nat /\ K = MaxLate + 5
  <2>1. MaxLate \in Nat /\ Len(rx) \in Nat /\ Len(coming) \in Nat
    BY BoundTypes
  <2>2. L <= MaxLate + 3
    BY DEF BoundInv, Lately
  <2> QED BY <2>1, <2>2
<1>2. atPc \in {"send", "wait"} /\ AttemptsLeft \in Nat \ {0}
  BY AttemptsAreLeft DEF Driver, SendAt, PollAt, PollData, TimeoutAt
<1>3. AttemptsLeft * K \in Nat /\ AttemptsLeft * K >= K
  BY <1>1, <1>2
<1>4. atPc' \in {"idle", "halted"} => Rank' < Rank
  <2>1. Rank = AttemptsLeft * K + (IF atPc = "send" THEN MaxLate + 4 ELSE L)
    BY <1>2 DEF Rank
  <2> HIDE DEF L, K
  <2>2. Rank \in Nat /\ Rank >= K /\ K > 0
    BY <1>1, <1>3, <2>1
  <2>3. atPc' \in {"idle", "halted"} => Rank' = 0
    BY DEF Rank
  <2> QED BY <1>1, <2>2, <2>3
<1>5. CASE SendAt
  <2>1. /\ atPc = "send" /\ atPc' = "wait" /\ AttemptsLeft' = AttemptsLeft
    BY <1>5 DEF SendAt, AttemptsLeft
  <2>2. L' \in Nat /\ L' <= MaxLate + 3
    <3>1. rx' \in Seq(Line) /\ coming' \in Seq(Line) /\ L' <= MaxLate + 3
      BY DEF BoundInv, AtInv, AtTypes, Lately
    <3> QED BY <3>1, LenProperties
  <2>3. Rank' = AttemptsLeft * K + L' /\ Rank = AttemptsLeft * K + (MaxLate + 4)
    BY <2>1 DEF Rank
  <2> HIDE DEF L, K
  <2> QED BY <1>1, <1>3, <2>2, <2>3
<1>6. ASSUME atPc = "wait", NextOne \/ Again, call' = call PROVE Rank' < Rank
  <2>1. AttemptsLeft' \in Int /\ AttemptsLeft' + 1 <= AttemptsLeft
    BY <1>6, FewerLeft
  <2>2. AttemptsLeft' * K + K <= AttemptsLeft * K /\ AttemptsLeft' * K \in Int
    <3> DEFINE a == AttemptsLeft
               b == AttemptsLeft'
    <3>1. a \in Nat /\ b \in Int /\ b + 1 <= a
      BY <1>2, <2>1
    <3> HIDE DEF a, b, K
    <3>2. a * K = (b + 1) * K + (a - (b + 1)) * K /\ (b + 1) * K = b * K + K /\ b * K \in Int
      BY <1>1, <3>1
    <3>3. (a - (b + 1)) * K \in Nat
      BY <1>1, <3>1
    <3>4. b * K + K <= a * K
      BY <1>1, <3>2, <3>3
    <3> QED BY <3>2, <3>4 DEF a, b
  <2>3. atPc' = "send"
    BY <1>6 DEF NextOne, Again
  <2>4. Rank' = AttemptsLeft' * K + (MaxLate + 4) /\ Rank = AttemptsLeft * K + L
    BY <1>6, <2>3 DEF Rank
  <2> HIDE DEF L, K
  <2> QED BY <1>1, <1>3, <2>2, <2>4
<1>7. CASE PollAt \/ TimeoutAt
  <2>1. (Over \/ NextOne \/ Again) /\ call' = call /\ atPc = "wait"
    BY <1>7, PollAtBound, TimeoutBound DEF PollAt, TimeoutAt
  <2> QED BY <1>4, <1>6, <2>1 DEF Over
<1>8. CASE PollData
  <2>1. /\ call' = call /\ atPc = "wait" /\ L' < L
        /\ \/ Over \/ NextOne \/ Again
           \/ atPc' \in {"wait", "halted"} /\ UNCHANGED <<cmd, tries>>
    BY <1>8, PollDataBound DEF PollData
  <2>2. ASSUME atPc' = "wait", UNCHANGED <<cmd, tries>> PROVE Rank' < Rank
    <3>1. AttemptsLeft' = AttemptsLeft
      BY <2>1, <2>2 DEF AttemptsLeft
    <3>2. L' \in Nat
      <4>1. rx' \in Seq(Line) /\ coming' \in Seq(Line)
        BY DEF BoundInv, AtInv, AtTypes
      <4> QED BY <4>1, LenProperties
    <3>3. Rank' = AttemptsLeft * K + L' /\ Rank = AttemptsLeft * K + L
      BY <2>1, <2>2, <3>1 DEF Rank
    <3> HIDE DEF L, K
    <3> QED BY <1>1, <1>3, <2>1, <3>2, <3>3
  <2> QED BY <1>4, <1>6, <2>1, <2>2 DEF Over
<1> QED BY <1>5, <1>7, <1>8 DEF Driver

\* Every step of the driver brings its call nearer to the end, and lines that
\* arrive do not put it off: a call is over after at most Rank steps.
CallNearsEnd == [][(Driver => Rank' < Rank) /\ (Arrive => Rank' = Rank)]_atVars

\* No procedure of lm61.c runs for ever, whatever the modem answers, leaves out
\* or sends late, for any number of commands and attempts (lm61.c:134-344).
THEOREM CallsAreFinite == AtSpec => [](Rank \in Nat) /\ CallNearsEnd
<1>1. BoundInv => Rank \in Nat
  <2> SUFFICES ASSUME BoundInv PROVE Rank \in Nat
    OBVIOUS
  <2>1. MaxLate \in Nat /\ Len(rx) + Len(coming) \in Nat
    BY BoundTypes
  <2>2. CASE atPc \in {"idle", "halted"}
    BY <2>2 DEF Rank
  <2>3. CASE atPc \in {"send", "wait"}
    <3>1. AttemptsLeft \in Nat
      BY <2>3, AttemptsAreLeft
    <3>2. AttemptsLeft * (MaxLate + 5) \in Nat
      BY <2>1, <3>1
    <3> QED BY <2>1, <2>3, <3>2 DEF Rank
  <2>4. atPc \in {"idle", "send", "wait", "halted"}
    BY DEF BoundInv, AtInv, AtTypes
  <2> QED BY <2>2, <2>3, <2>4
<1>2. BoundInv /\ BoundInv' /\ [AtNext]_atVars
        => [(Driver => Rank' < Rank) /\ (Arrive => Rank' = Rank)]_atVars
  <2> SUFFICES ASSUME BoundInv, BoundInv', Driver \/ Arrive
               PROVE (Driver => Rank' < Rank) /\ (Arrive => Rank' = Rank)
    OBVIOUS
  <2>1. ASSUME Arrive PROVE Rank' = Rank
    <3>1. Len(rx') + Len(coming') = Len(rx) + Len(coming) /\ UNCHANGED <<atPc, call, cmd, tries>>
      BY <2>1, ArriveBound
    <3>2. AttemptsLeft' = AttemptsLeft
      BY <3>1 DEF AttemptsLeft
    <3> QED BY <3>1, <3>2 DEF Rank
  <2> QED BY <2>1, RankFalls
<1> QED BY <1>1, <1>2, BoundInvariant, PTL DEF AtSpec, CallNearsEnd

-----------------------------------------------------------------------------
(* The remaining length of a packet: RemLen *)

LEMMA WeightIs ==
  /\ Weight[0] = 1 /\ \A n \in Places : Weight[n] = Base * Weight[n - 1]
  /\ \A n \in 0 .. 4 : Weight[n] \in Nat
<1> DEFINE IsWeight(f) == f = [n \in 0 .. 4 |-> IF n = 0 THEN 1 ELSE Base * f[n - 1]]
           w == [n \in 0 .. 4 |-> CASE n = 0 -> 1 [] n = 1 -> Base [] n = 2 -> Base * Base
                                    [] n = 3 -> Base * (Base * Base)
                                    [] n = 4 -> Base * (Base * (Base * Base))]
<1>1. IsWeight(w)
  <2>1. \A n \in 0 .. 4 : w[n] = IF n = 0 THEN 1 ELSE Base * w[n - 1]
    BY RemLenAssumption
  <2> QED BY <2>1
<1>2. Weight = CHOOSE f : IsWeight(f)
  BY DEF Weight, MAX_NO_OF_REMAINING_LENGTH_BYTES
<1>3. IsWeight(Weight)
  BY <1>1, <1>2
<1>4. Weight[0] = 1 /\ \A n \in Places : Weight[n] = Base * Weight[n - 1]
  BY <1>3 DEF Places, MAX_NO_OF_REMAINING_LENGTH_BYTES
<1> HIDE DEF IsWeight
<1>5. Base \in Nat /\ \A x, y \in Nat : x * y \in Nat
  BY RemLenAssumption
<1>6. Weight[0] \in Nat /\ Weight[1] \in Nat
  BY <1>4, <1>5 DEF Places, MAX_NO_OF_REMAINING_LENGTH_BYTES
<1>7. Weight[2] \in Nat
  BY <1>4, <1>5, <1>6 DEF Places, MAX_NO_OF_REMAINING_LENGTH_BYTES
<1>8. Weight[3] \in Nat
  BY <1>4, <1>5, <1>7 DEF Places, MAX_NO_OF_REMAINING_LENGTH_BYTES
<1>9. Weight[4] \in Nat
  BY <1>4, <1>5, <1>8 DEF Places, MAX_NO_OF_REMAINING_LENGTH_BYTES
<1> QED BY <1>4, <1>6, <1>7, <1>8, <1>9

LEMMA Weight16Is ==
  /\ Weight16[0] = 1 /\ \A n \in Places : Weight16[n] = (Base * Weight16[n - 1]) % Word16
  /\ \A n \in 0 .. 4 : Weight16[n] \in Nat
<1> DEFINE IsWeight(f) == f = [n \in 0 .. 4 |-> IF n = 0 THEN 1 ELSE (Base * f[n - 1]) % Word16]
           a1 == (Base * 1) % Word16
           a2 == (Base * a1) % Word16
           a3 == (Base * a2) % Word16
           a4 == (Base * a3) % Word16
           w == [n \in 0 .. 4 |-> CASE n = 0 -> 1 [] n = 1 -> a1 [] n = 2 -> a2
                                    [] n = 3 -> a3 [] n = 4 -> a4]
<1>1. IsWeight(w)
  <2> HIDE DEF a1, a2, a3, a4
  <2>1. w[0] = 1 /\ w[1] = a1 /\ w[2] = a2 /\ w[3] = a3 /\ w[4] = a4
    OBVIOUS
  <2>2. \A n \in 0 .. 4 : w[n] = IF n = 0 THEN 1 ELSE (Base * w[n - 1]) % Word16
    <3> HIDE DEF w
    <3> QED BY <2>1 DEF a1, a2, a3, a4
  <2> QED BY <2>2
<1>2. Weight16 = CHOOSE f : IsWeight(f)
  BY DEF Weight16, MAX_NO_OF_REMAINING_LENGTH_BYTES
<1>3. IsWeight(Weight16)
  BY <1>1, <1>2
<1>4. Weight16[0] = 1 /\ \A n \in Places : Weight16[n] = (Base * Weight16[n - 1]) % Word16
  BY <1>3 DEF Places, MAX_NO_OF_REMAINING_LENGTH_BYTES
<1> HIDE DEF IsWeight
<1>5. \A x \in Nat : (Base * x) % Word16 \in Nat
  <2>1. \A x \in Nat : Base * x \in Int
    BY RemLenAssumption
  <2>2. Word16 \in Int /\ 0 < Word16
    BY RemLenAssumption
  <2> QED BY <2>1, <2>2, DivMod
<1>6. Weight16[0] \in Nat /\ Weight16[1] \in Nat
  BY <1>4, <1>5 DEF Places, MAX_NO_OF_REMAINING_LENGTH_BYTES
<1>7. Weight16[2] \in Nat
  BY <1>4, <1>5, <1>6 DEF Places, MAX_NO_OF_REMAINING_LENGTH_BYTES
<1>8. Weight16[3] \in Nat
  BY <1>4, <1>5, <1>7 DEF Places, MAX_NO_OF_REMAINING_LENGTH_BYTES
<1>9. Weight16[4] \in Nat
  BY <1>4, <1>5, <1>8 DEF Places, MAX_NO_OF_REMAINING_LENGTH_BYTES
<1> QED BY <1>4, <1>6, <1>7, <1>8, <1>9

\* Quotients
LEMMA Quotient ==
  ASSUME NEW a \in Nat, NEW b \in Nat, 0 < b
  PROVE  /\ a \div b \in Nat /\ a % b \in 0 .. b - 1 /\ a = b * (a \div b) + (a % b)
         /\ \A w \in Nat : a \div b < w <=> a < b * w
<1> DEFINE q == a \div b
           r == a % b
<1>1. q \in Int /\ r \in 0 .. b - 1 /\ a = b * q + r
  BY DivMod
<1> HIDE DEF q, r
<1>2. q >= 0
  <2>1. ASSUME q < 0 PROVE FALSE
    <3>1. b * (0 - q) >= b
      BY <1>1, <2>1, TimesGrows
    <3>2. b * (0 - q) = 0 - b * q
      BY <1>1
    <3>3. b * q \in Int
      BY <1>1
    <3> QED BY <1>1, <3>1, <3>2, <3>3
  <2> QED BY <1>1, <2>1
<1>3. ASSUME NEW w \in Nat PROVE q < w <=> a < b * w
  <2>1. /\ b * (w - q) = b * w - b * q /\ b * (q - w) = b * q - b * w
        /\ b * w \in Int /\ b * q \in Int
    BY <1>1
  <2>2. ASSUME q < w PROVE a < b * w
    <3>1. b * (w - q) >= b
      BY <1>1, <2>2, TimesGrows
    <3> QED BY <1>1, <2>1, <3>1
  <2>3. ASSUME w <= q PROVE b * w <= a
    <3>1. b * (q - w) >= 0
      BY <1>1, <2>3
    <3> QED BY <1>1, <2>1, <3>1
  <2> QED BY <1>1, <2>1, <2>2, <2>3
<1> QED BY <1>1, <1>2, <1>3 DEF q, r

LEMMA RestIs ==
  ASSUME NEW v \in Nat
  PROVE  /\ Rest(v)[0] = v /\ \A n \in Places : Rest(v)[n] = Rest(v)[n - 1] \div Base
         /\ \A n \in 0 .. 4 : Rest(v)[n] \in Nat
<1> DEFINE IsRest(f) == f = [n \in 0 .. 4 |-> IF n = 0 THEN v ELSE f[n - 1] \div Base]
           a1 == v \div Base
           a2 == a1 \div Base
           a3 == a2 \div Base
           a4 == a3 \div Base
           w == [n \in 0 .. 4 |-> CASE n = 0 -> v [] n = 1 -> a1 [] n = 2 -> a2
                                    [] n = 3 -> a3 [] n = 4 -> a4]
<1>1. IsRest(w)
  <2> HIDE DEF a1, a2, a3, a4
  <2>1. w[0] = v /\ w[1] = a1 /\ w[2] = a2 /\ w[3] = a3 /\ w[4] = a4
    OBVIOUS
  <2>2. \A n \in 0 .. 4 : w[n] = IF n = 0 THEN v ELSE w[n - 1] \div Base
    <3> HIDE DEF w
    <3> QED BY <2>1 DEF a1, a2, a3, a4
  <2> QED BY <2>2
<1>2. Rest(v) = CHOOSE f : IsRest(f)
  BY DEF Rest, MAX_NO_OF_REMAINING_LENGTH_BYTES
<1>3. IsRest(Rest(v))
  BY <1>1, <1>2
<1>4. Rest(v)[0] = v /\ \A n \in Places : Rest(v)[n] = Rest(v)[n - 1] \div Base
  BY <1>3 DEF Places, MAX_NO_OF_REMAINING_LENGTH_BYTES
<1> HIDE DEF IsRest
<1>5. \A x \in Nat : x \div Base \in Nat
  BY Quotient, RemLenAssumption
<1>6. Rest(v)[0] \in Nat /\ Rest(v)[1] \in Nat
  BY <1>4, <1>5 DEF Places, MAX_NO_OF_REMAINING_LENGTH_BYTES
<1>7. Rest(v)[2] \in Nat
  BY <1>4, <1>5, <1>6 DEF Places, MAX_NO_OF_REMAINING_LENGTH_BYTES
<1>8. Rest(v)[3] \in Nat
  BY <1>4, <1>5, <1>7 DEF Places, MAX_NO_OF_REMAINING_LENGTH_BYTES
<1>9. Rest(v)[4] \in Nat
  BY <1>4, <1>5, <1>8 DEF Places, MAX_NO_OF_REMAINING_LENGTH_BYTES
<1> QED BY <1>4, <1>6, <1>7, <1>8, <1>9

\* What v leaves after n digits is nothing exactly when v < Base ^ n.
LEMMA RestEnds ==
  ASSUME NEW v \in Nat, NEW n \in Places
  PROVE  Rest(v)[n] = 0 <=> v < Weight[n]
<1>1. Base \in Nat /\ 0 < Base
  BY RemLenAssumption
<1>2. ASSUME NEW i \in Places, NEW w \in Nat PROVE Rest(v)[i] < w <=> Rest(v)[i - 1] < Base * w
  <2>1. Rest(v)[i] = Rest(v)[i - 1] \div Base /\ Rest(v)[i - 1] \in Nat
    BY RestIs DEF Places, MAX_NO_OF_REMAINING_LENGTH_BYTES
  <2> QED BY <1>1, <2>1, Quotient
<1> DEFINE R(i) == Rest(v)[i]
           W(i) == Weight[i]
<1>3. /\ R(0) = v /\ \A i \in 0 .. 4 : R(i) \in Nat
      /\ W(0) = 1 /\ \A i \in 0 .. 4 : W(i) \in Nat
      /\ W(1) = Base * W(0) /\ W(2) = Base * W(1) /\ W(3) = Base * W(2) /\ W(4) = Base * W(3)
  BY RestIs, WeightIs DEF Places, MAX_NO_OF_REMAINING_LENGTH_BYTES
<1>4. \A w \in Nat : /\ R(1) < w <=> R(0) < Base * w
                     /\ R(2) < w <=> R(1) < Base * w
                     /\ R(3) < w <=> R(2) < Base * w
                     /\ R(4) < w <=> R(3) < Base * w
  BY <1>2 DEF Places, MAX_NO_OF_REMAINING_LENGTH_BYTES
<1> HIDE DEF R, W
<1>5. R(1) < W(0) <=> v < W(1)
  BY <1>3, <1>4
<1>6. R(2) < W(0) <=> v < W(2)
  <2>1. R(2) < W(0) <=> R(1) < W(1)
    BY <1>3, <1>4
  <2>2. R(1) < W(1) <=> v < W(2)
    BY <1>3, <1>4
  <2> QED BY <2>1, <2>2
<1>7. R(3) < W(0) <=> v < W(3)
  <2>1. R(3) < W(0) <=> R(2) < W(1)
    BY <1>3, <1>4
  <2>2. R(2) < W(1) <=> R(1) < W(2)
    BY <1>3, <1>4
  <2>3. R(1) < W(2) <=> v < W(3)
    BY <1>3, <1>4
  <2> QED BY <2>1, <2>2, <2>3
<1>8. R(4) < W(0) <=> v < W(4)
  <2>1. R(4) < W(0) <=> R(3) < W(1)
    BY <1>3, <1>4
  <2>2. R(3) < W(1) <=> R(2) < W(2)
    BY <1>3, <1>4
  <2>3. R(2) < W(2) <=> R(1) < W(3)
    BY <1>3, <1>4
  <2>4. R(1) < W(3) <=> v < W(4)
    BY <1>3, <1>4
  <2> QED BY <2>1, <2>2, <2>3, <2>4
<1>9. \A i \in Places : R(i) = 0 <=> v < W(i)
  <2>1. \A i \in 0 .. 4 : R(i) = 0 <=> R(i) < W(0)
    BY <1>3
  <2> QED BY <1>5, <1>6, <1>7, <1>8, <2>1 DEF Places, MAX_NO_OF_REMAINING_LENGTH_BYTES
<1> QED BY <1>9 DEF R, W

\* Each weight is more than twice the one before it, and the last one is the bound of the lengths.
LEMMA WeightGrows ==
  /\ Weight[1] = Base /\ Weight[1] > 1
  /\ Weight[2] >= 2 * Weight[1] /\ Weight[3] >= 2 * Weight[2] /\ Weight[4] >= 2 * Weight[3]
  /\ \A v \in Lengths : v \in Nat /\ v < Weight[4]
<1>1. Base \in Nat /\ Base >= 2
  BY RemLenAssumption
<1>2. ASSUME NEW w \in Nat PROVE Base * w >= 2 * w
  <2>1. (Base - 2) * w >= 0
    BY <1>1
  <2>2. (Base - 2) * w = Base * w - 2 * w /\ Base * w \in Int
    BY <1>1
  <2> QED BY <1>1, <2>1, <2>2
<1>3. /\ Weight[1] = Base * 1 /\ Weight[2] = Base * Weight[1]
      /\ Weight[3] = Base * Weight[2] /\ Weight[4] = Base * Weight[3]
      /\ Weight[1] \in Nat /\ Weight[2] \in Nat /\ Weight[3] \in Nat /\ Weight[4] \in Nat
  BY WeightIs DEF Places, MAX_NO_OF_REMAINING_LENGTH_BYTES
<1>4. Weight[1] = Base
  BY <1>1, <1>3
<1>5. Weight[4] = Base * (Base * (Base * Base))
  BY <1>3, <1>4
<1>6. \A v \in Lengths : v \in Nat /\ v < Weight[4]
  <2>1. \A v \in Lengths : v \in 0 .. Weight[4] - 1
    BY <1>5, RemLenAssumption
  <2> QED BY <1>3, <2>1
<1> QED BY <1>1, <1>2, <1>3, <1>4, <1>6

LEMMA DigitsAre ==
  ASSUME NEW v \in Nat, v < Weight[4]
  PROVE  /\ DigitsOf(v) \in Places /\ Rest(v)[DigitsOf(v)] = 0
         /\ \A i \in 1 .. DigitsOf(v) - 1 : Rest(v)[i] # 0
<1> DEFINE Ends(n) == Rest(v)[n] = 0 /\ \A i \in 1 .. n - 1 : Rest(v)[i] # 0
<1>1. Rest(v)[4] = 0
  BY RestEnds DEF Places, MAX_NO_OF_REMAINING_LENGTH_BYTES
<1>2. \E n \in Places : Ends(n)
  <2>1. CASE Rest(v)[1] = 0
    <3>1. Ends(1)
      BY <2>1
    <3> QED BY <3>1 DEF Places, MAX_NO_OF_REMAINING_LENGTH_BYTES
  <2>2. CASE Rest(v)[1] # 0 /\ Rest(v)[2] = 0
    <3>1. Ends(2)
      <4>1. 1 .. 2 - 1 = {1}
        OBVIOUS
      <4> QED BY <2>2, <4>1
    <3> QED BY <3>1 DEF Places, MAX_NO_OF_REMAINING_LENGTH_BYTES
  <2>3. CASE Rest(v)[1] # 0 /\ Rest(v)[2] # 0 /\ Rest(v)[3] = 0
    <3>1. Ends(3)
      <4>1. 1 .. 3 - 1 = {1, 2}
        OBVIOUS
      <4> QED BY <2>3, <4>1
    <3> QED BY <3>1 DEF Places, MAX_NO_OF_REMAINING_LENGTH_BYTES
  <2>4. CASE Rest(v)[1] # 0 /\ Rest(v)[2] # 0 /\ Rest(v)[3] # 0
    <3>1. Ends(4)
      <4>1. 1 .. 4 - 1 = {1, 2, 3}
        OBVIOUS
      <4> QED BY <1>1, <2>4, <4>1
    <3> QED BY <3>1 DEF Places, MAX_NO_OF_REMAINING_LENGTH_BYTES
  <2> QED BY <2>1, <2>2, <2>3, <2>4
<1>3. DigitsOf(v) = CHOOSE n \in Places : Ends(n)
  BY DEF DigitsOf
<1> HIDE DEF Ends
<1>4. DigitsOf(v) \in Places /\ Ends(DigitsOf(v))
  BY <1>2, <1>3
<1> QED BY <1>4 DEF Ends

\* The digits, and that all but the last are marked
IsCode(buf, v, d) ==
  /\ d \in Places /\ DOMAIN buf = 1 .. d /\ Len(buf) = d
  /\ \A n \in 1 .. d : buf[n] \in Nat /\ buf[n] % Base = Rest(v)[n - 1] % Base
  /\ Marked(buf) = 1 .. d - 1

LEMMA EncodedIs ==
  ASSUME NEW v \in Nat, v < Weight[4]
  PROVE  IsCode(MQTTPacket_encode(v), v, DigitsOf(v))
<1> DEFINE d == DigitsOf(v)
           buf == MQTTPacket_encode(v)
           c == [n \in 1 .. d |-> Rest(v)[n - 1] % Base]
<1>1. d \in Places /\ d \in Nat
  BY DigitsAre DEF Places, MAX_NO_OF_REMAINING_LENGTH_BYTES
<1>2. buf = [n \in 1 .. d |-> c[n] + IF n < d THEN Base ELSE 0]
  BY DEF MQTTPacket_encode
<1>3. Base \in Nat /\ 0 < Base
  BY RemLenAssumption
<1>4. \A n \in 1 .. d : c[n] \in 0 .. Base - 1 /\ c[n] = Rest(v)[n - 1] % Base
  <2>1. \A n \in 1 .. d : Rest(v)[n - 1] \in Nat
    <3>1. \A n \in 1 .. d : n - 1 \in 0 .. 4
      BY <1>1 DEF Places, MAX_NO_OF_REMAINING_LENGTH_BYTES
    <3> QED BY <3>1, RestIs
  <2> QED BY <1>3, <2>1, Quotient
<1> HIDE DEF d, buf, c
<1>5. DOMAIN buf = 1 .. d /\ \A n \in 1 .. d : buf[n] = c[n] + IF n < d THEN Base ELSE 0
  BY <1>2
<1>6. ASSUME NEW n \in 1 .. d PROVE buf[n] \in Nat /\ buf[n] % Base = c[n] /\ (buf[n] >= Base <=> n < d)
  <2>1. CASE n < d
    <3>1. buf[n] = c[n] + Base
      BY <1>5, <2>1
    <3>2. buf[n] = Base * 1 + c[n] /\ buf[n] \in Nat /\ buf[n] >= Base
      BY <1>3, <1>4, <3>1
    <3>3. buf[n] % Base = c[n]
      BY <1>3, <1>4, <3>2, RemainderUnique
    <3> QED BY <2>1, <3>2, <3>3
  <2>2. CASE ~(n < d)
    <3>1. buf[n] = c[n] + 0
      BY <1>5, <2>2
    <3>2. buf[n] = Base * 0 + c[n] /\ buf[n] \in Nat /\ ~(buf[n] >= Base)
      BY <1>3, <1>4, <3>1
    <3>3. buf[n] % Base = c[n]
      BY <1>3, <1>4, <3>2, RemainderUnique
    <3> QED BY <2>2, <3>2, <3>3
  <2> QED BY <2>1, <2>2
<1>7. Len(buf) = d
  <2>1. buf \in [1 .. d -> Nat]
    BY <1>2, <1>5, <1>6
  <2> QED BY <1>1, <2>1
<1>8. Marked(buf) = 1 .. d - 1
  <2>1. Marked(buf) = {n \in 1 .. d : n < d}
    BY <1>5, <1>6 DEF Marked
  <2> QED BY <1>1, <2>1
<1>9. IsCode(buf, v, d)
  BY <1>1, <1>4, <1>5, <1>6, <1>7, <1>8 DEF IsCode
<1> QED BY <1>9 DEF buf, d

LEMMA ReadersAgree ==
  ASSUME NEW v, NEW d, NEW buf, IsCode(buf, v, d)
  PROVE  BytesRead(buf) = d /\ mqtt_num_rem_len_bytes(buf) = d
<1>1. d \in 1 .. 4 /\ DOMAIN buf = 1 .. d /\ Marked(buf) = 1 .. d - 1
  BY DEF IsCode, Places, MAX_NO_OF_REMAINING_LENGTH_BYTES
<1> DEFINE Last1(n) == n \notin Marked(buf) /\ 1 .. n - 1 \subseteq Marked(buf)
           Last4(n) == 1 .. n - 1 \subseteq Marked(buf) /\ (n < 4 => n \notin Marked(buf))
<1>2. \A n \in 1 .. d : Last1(n) <=> n = d
  <2>1. ASSUME NEW n \in 1 .. d, n \notin Marked(buf) PROVE n = d
    BY <1>1, <2>1
  <2>2. Last1(d)
    BY <1>1
  <2> QED BY <2>1, <2>2
<1>3. \A n \in 1 .. 4 : Last4(n) <=> n = d
  <2>1. ASSUME NEW n \in 1 .. 4, Last4(n), n # d PROVE FALSE
    <3>1. CASE n < d
      BY <1>1, <2>1, <3>1
    <3>2. CASE n > d
      <4>1. d \in 1 .. n - 1
        BY <1>1, <3>2
      <4> QED BY <1>1, <2>1, <4>1
    <3> QED BY <1>1, <2>1, <3>1, <3>2
  <2>2. Last4(d)
    BY <1>1
  <2> QED BY <2>1, <2>2
<1>4. BytesRead(buf) = CHOOSE n \in 1 .. d : Last1(n)
  BY <1>1 DEF BytesRead
<1>5. mqtt_num_rem_len_bytes(buf) = CHOOSE n \in 1 .. 4 : Last4(n)
  BY DEF mqtt_num_rem_len_bytes, Places, MAX_NO_OF_REMAINING_LENGTH_BYTES
<1> HIDE DEF Last1, Last4
<1>6. BytesRead(buf) = d
  BY <1>1, <1>2, <1>4
<1>7. mqtt_num_rem_len_bytes(buf) = d
  BY <1>1, <1>3, <1>5
<1> QED BY <1>6, <1>7

\* One more digit c of the rest r, at the weight w: v is what has been read
\* and what is left.
LEMMA OneMoreDigit ==
  ASSUME NEW v \in Nat, NEW a \in Nat, NEW w \in Nat, NEW r \in Nat, v = a + w * r
  PROVE  /\ a + (r % Base) * w \in Nat
         /\ v = (a + (r % Base) * w) + (Base * w) * (r \div Base)
<1> DEFINE q == r \div Base
           c == r % Base
<1>1. q \in Nat /\ c \in Nat /\ r = Base * q + c /\ Base \in Nat
  BY Quotient, RemLenAssumption
<1> HIDE DEF q, c
<1>2. w * r = w * (Base * q) + w * c
  BY <1>1
<1>3. w * (Base * q) = (Base * w) * q /\ w * c = c * w /\ c * w \in Nat /\ (Base * w) * q \in Nat
  BY <1>1
<1>4. v = (a + c * w) + (Base * w) * q
  BY <1>2, <1>3
<1> QED BY <1>3, <1>4 DEF q, c

\* The loop of a reader that adds t[n] at place n, in int and in uint16_t
LEMMA LoopOf ==
  ASSUME NEW d \in 1 .. 4, NEW t
  PROVE  \E f : f = [n \in 0 .. d |-> IF n = 0 THEN 0 ELSE f[n - 1] + t[n]]
<1> DEFINE a1 == 0 + t[1]
           a2 == a1 + t[2]
           a3 == a2 + t[3]
           a4 == a3 + t[4]
           w == [n \in 0 .. d |-> CASE n = 0 -> 0 [] n = 1 -> a1 [] n = 2 -> a2
                                    [] n = 3 -> a3 [] n = 4 -> a4]
<1>1. \A n \in 0 .. d : w[n] = IF n = 0 THEN 0 ELSE w[n - 1] + t[n]
  <2> HIDE DEF a1, a2, a3, a4
  <2>1. /\ w[0] = 0 /\ (1 <= d => w[1] = a1) /\ (2 <= d => w[2] = a2)
        /\ (3 <= d => w[3] = a3) /\ (4 <= d => w[4] = a4)
    OBVIOUS
  <2> HIDE DEF w
  <2>2. \A n \in 0 .. d : n = 0 \/ n = 1 \/ n = 2 \/ n = 3 \/ n = 4
    OBVIOUS
  <2> QED BY <2>1, <2>2 DEF a1, a2, a3, a4
<1>2. w = [n \in 0 .. d |-> IF n = 0 THEN 0 ELSE w[n - 1] + t[n]]
  BY <1>1
<1> HIDE DEF w
<1> QED BY <1>2

LEMMA LoopOf16 ==
  ASSUME NEW d \in 1 .. 4, NEW t
  PROVE  \E f : f = [n \in 0 .. d |-> IF n = 0 THEN 0 ELSE (f[n - 1] + t[n]) % Word16]
<1> DEFINE a1 == (0 + t[1]) % Word16
           a2 == (a1 + t[2]) % Word16
           a3 == (a2 + t[3]) % Word16
           a4 == (a3 + t[4]) % Word16
           w == [n \in 0 .. d |-> CASE n = 0 -> 0 [] n = 1 -> a1 [] n = 2 -> a2
                                    [] n = 3 -> a3 [] n = 4 -> a4]
<1>1. \A n \in 0 .. d : w[n] = IF n = 0 THEN 0 ELSE (w[n - 1] + t[n]) % Word16
  <2> HIDE DEF a1, a2, a3, a4
  <2>1. /\ w[0] = 0 /\ (1 <= d => w[1] = a1) /\ (2 <= d => w[2] = a2)
        /\ (3 <= d => w[3] = a3) /\ (4 <= d => w[4] = a4)
    OBVIOUS
  <2> HIDE DEF w
  <2>2. \A n \in 0 .. d : n = 0 \/ n = 1 \/ n = 2 \/ n = 3 \/ n = 4
    OBVIOUS
  <2> QED BY <2>1, <2>2 DEF a1, a2, a3, a4
<1>2. w = [n \in 0 .. d |-> w[n]]
  <2> HIDE DEF a1, a2, a3, a4
  <2> QED OBVIOUS
<1> HIDE DEF w
<1>3. w = [n \in 0 .. d |-> IF n = 0 THEN 0 ELSE (w[n - 1] + t[n]) % Word16]
  BY <1>1, <1>2
<1> QED BY <1>3

LEMMA DecodedIs ==
  ASSUME NEW v \in Nat, v < Weight[4], NEW buf, IsCode(buf, v, DigitsOf(v))
  PROVE  MC_decode_packet(buf) = v
<1> DEFINE d == DigitsOf(v)
           R(i) == Rest(v)[i]
           t == [n \in 1 .. d |-> (buf[n] % Base) * Weight[n - 1]]
           IsSum(f) == f = [n \in 0 .. d |-> IF n = 0 THEN 0 ELSE f[n - 1] + t[n]]
           S == CHOOSE f : IsSum(f)
<1>1. d \in 1 .. 4 /\ R(d) = 0 /\ BytesRead(buf) = d
  BY DigitsAre, ReadersAgree DEF Places, MAX_NO_OF_REMAINING_LENGTH_BYTES
<1>2. MC_decode_packet(buf) = S[d]
  <2> DEFINE IsValue(f) == f = [n \in 0 .. d |-> IF n = 0 THEN 0
                                                 ELSE f[n - 1] + ((buf[n] % Base) * Weight[n - 1])]
  <2> HIDE DEF d
  <2>1. MC_decode_packet(buf) = (CHOOSE f : IsValue(f))[d]
    BY <1>1 DEF MC_decode_packet
  <2>2. \A f : IsValue(f) <=> IsSum(f)
    <3>1. \A n \in 0 .. d : n # 0 => t[n] = (buf[n] % Base) * Weight[n - 1]
      BY <1>1
    <3> HIDE DEF t
    <3>2. ASSUME NEW f
          PROVE  [n \in 0 .. d |-> IF n = 0 THEN 0 ELSE f[n - 1] + ((buf[n] % Base) * Weight[n - 1])]
                   = [n \in 0 .. d |-> IF n = 0 THEN 0 ELSE f[n - 1] + t[n]]
      BY <3>1
    <3> QED BY <3>2
  <2> HIDE DEF IsValue, IsSum
  <2>3. (CHOOSE f : IsValue(f)) = (CHOOSE f : IsSum(f))
    BY <2>2
  <2> QED BY <2>1, <2>3
<1>3. IsSum(S)
  <2> HIDE DEF t, d
  <2>1. \E f : IsSum(f)
    <3>1. d \in 1 .. 4
      BY <1>1
    <3> QED BY ONLY <3>1, LoopOf, Zenon
  <2> HIDE DEF IsSum
  <2> QED BY <2>1
<1>4. S[0] = 0 /\ \A n \in 1 .. d : S[n] = S[n - 1] + (R(n - 1) % Base) * Weight[n - 1]
  <2>1. \A n \in 1 .. d : t[n] = (R(n - 1) % Base) * Weight[n - 1]
    BY DEF IsCode
  <2> HIDE DEF t, d
  <2>2. S[0] = 0 /\ \A n \in 1 .. d : S[n] = S[n - 1] + t[n]
    <3>1. d \in Nat /\ 0 \in 0 .. d /\ \A n \in 1 .. d : n \in 0 .. d /\ n # 0
      BY <1>1
    <3> HIDE DEF S
    <3> QED BY <1>3, <3>1
  <2> QED BY <2>1, <2>2
<1>5. /\ R(0) = v /\ \A n \in 1 .. 4 : R(n) = R(n - 1) \div Base
      /\ \A n \in 0 .. 4 : R(n) \in Nat /\ Weight[n] \in Nat
      /\ Weight[0] = 1 /\ \A n \in 1 .. 4 : Weight[n] = Base * Weight[n - 1]
  BY RestIs, WeightIs DEF Places, MAX_NO_OF_REMAINING_LENGTH_BYTES
<1> HIDE DEF S, R, d, IsSum
<1> DEFINE Read(n) == S[n] \in Nat /\ v = S[n] + Weight[n] * R(n)
<1>6. Read(0)
  BY <1>4, <1>5
<1>7. ASSUME NEW n \in 1 .. d, Read(n - 1) PROVE Read(n)
  <2>1. n \in 1 .. 4 /\ n - 1 \in 0 .. 4
    BY <1>1
  <2>2. Weight[n - 1] \in Nat /\ R(n - 1) \in Nat /\ R(n) = R(n - 1) \div Base
        /\ Weight[n] = Base * Weight[n - 1] /\ S[n] = S[n - 1] + (R(n - 1) % Base) * Weight[n - 1]
    BY <1>4, <1>5, <2>1
  <2>3. /\ S[n - 1] + (R(n - 1) % Base) * Weight[n - 1] \in Nat
        /\ v = (S[n - 1] + (R(n - 1) % Base) * Weight[n - 1])
                 + (Base * Weight[n - 1]) * (R(n - 1) \div Base)
    <3> DEFINE a == S[n - 1]
               w == Weight[n - 1]
               r == R(n - 1)
    <3>1. a \in Nat /\ w \in Nat /\ r \in Nat /\ v = a + w * r
      BY <1>7, <2>2
    <3> HIDE DEF a, w, r
    <3>2. a + (r % Base) * w \in Nat /\ v = (a + (r % Base) * w) + (Base * w) * (r \div Base)
      BY <3>1, OneMoreDigit
    <3> QED BY <3>2 DEF a, w, r
  <2> QED BY <2>2, <2>3
<1>8. Read(d)
  <2> HIDE DEF Read
  <2>1. Read(1)
    BY <1>1, <1>6, <1>7
  <2>2. d >= 2 => Read(2)
    BY <1>1, <1>7, <2>1
  <2>3. d >= 3 => Read(3)
    BY <1>1, <1>7, <2>2
  <2>4. d >= 4 => Read(4)
    BY <1>1, <1>7, <2>3
  <2> QED BY <1>1, <2>1, <2>2, <2>3, <2>4
<1>9. S[d] = v
  BY <1>1, <1>5, <1>8
<1> QED BY <1>2, <1>9

\* What uint16_t keeps of y
Cong(x, y) == x \in Nat /\ y \in Nat /\ \E k \in Int : y = x + Word16 * k

LEMMA CongMod ==
  ASSUME NEW z, NEW y, Cong(z, y)
  PROVE  Cong(z % Word16, y) /\ z % Word16 \in 0 .. Word16 - 1
         /\ (z \in 0 .. Word16 - 1 => y % Word16 = z)
<1>1. Word16 \in Nat /\ 0 < Word16 /\ z \in Nat /\ y \in Nat
  BY RemLenAssumption DEF Cong
<1>2. PICK k \in Int : y = z + Word16 * k
  BY DEF Cong
<1> DEFINE q == z \div Word16
           c == z % Word16
<1>3. q \in Nat /\ c \in 0 .. Word16 - 1 /\ z = Word16 * q + c
  BY <1>1, Quotient
<1> HIDE DEF q, c
<1>4. y = c + Word16 * (q + k)
  <2>1. Word16 * (q + k) = Word16 * q + Word16 * k
    BY <1>1, <1>2, <1>3
  <2>2. Word16 * q \in Int /\ Word16 * k \in Int
    BY <1>1, <1>3
  <2> QED BY <1>1, <1>2, <1>3, <2>1, <2>2
<1>5. Cong(c, y)
  <2> DEFINE m == q + k
  <2>1. m \in Int /\ y = c + Word16 * m /\ c \in Nat
    BY <1>1, <1>3, <1>4
  <2> HIDE DEF m
  <2> QED BY <1>1, <2>1 DEF Cong
<1>6. ASSUME z \in 0 .. Word16 - 1 PROVE y % Word16 = z
  <2>1. y = Word16 * k + z
    BY <1>1, <1>2
  <2> QED BY <1>1, <1>6, <2>1, RemainderUnique
<1> QED BY <1>3, <1>5, <1>6 DEF c

LEMMA CongAdd ==
  ASSUME NEW a, NEW a2, Cong(a, a2), NEW w, NEW w2, Cong(w, w2), NEW c \in Nat
  PROVE  Cong(a + c * w, a2 + c * w2)
<1>1. /\ Word16 \in Nat /\ a \in Nat /\ a2 \in Nat /\ w \in Nat /\ w2 \in Nat
  BY RemLenAssumption DEF Cong
<1>2. PICK k \in Int : a2 = a + Word16 * k
  BY DEF Cong
<1>3. PICK l \in Int : w2 = w + Word16 * l
  BY DEF Cong
<1>4. c * w \in Nat /\ c * w2 \in Nat /\ c * l \in Int /\ Word16 * k \in Int /\ Word16 * (c * l) \in Int
  BY <1>1
<1>5. c * w2 = c * w + Word16 * (c * l)
  BY <1>1, <1>3
<1>6. Word16 * (k + c * l) = Word16 * k + Word16 * (c * l)
  BY <1>1
<1> DEFINE x == a + c * w
           y == a2 + c * w2
           m == k + c * l
<1>7. y = x + Word16 * m /\ m \in Int /\ x \in Nat /\ y \in Nat
  BY <1>1, <1>2, <1>4, <1>5, <1>6
<1> HIDE DEF x, y, m
<1>8. Cong(x, y)
  BY <1>7 DEF Cong
<1> QED BY <1>8 DEF x, y

LEMMA WeightsAgree == \A n \in 0 .. 4 : Cong(Weight16[n], Weight[n])
<1> DEFINE Agree(n) == Cong(Weight16[n], Weight[n])
<1>1. \A y \in Nat : Cong(y, y)
  <2>1. \A y \in Nat : y = y + Word16 * 0
    BY RemLenAssumption
  <2> QED BY <2>1 DEF Cong
<1>2. Agree(0)
  BY <1>1, WeightIs, Weight16Is
<1>3. ASSUME NEW n \in 1 .. 4, Agree(n - 1) PROVE Agree(n)
  <2>1. /\ Weight[n] = Base * Weight[n - 1] /\ Weight16[n] = (Base * Weight16[n - 1]) % Word16
        /\ Weight[n - 1] \in Nat /\ Weight16[n - 1] \in Nat /\ Base \in Nat
    <3>1. n \in Places /\ n - 1 \in 0 .. 4
      BY DEF Places, MAX_NO_OF_REMAINING_LENGTH_BYTES
    <3> QED BY <3>1, WeightIs, Weight16Is, RemLenAssumption
  <2>2. Cong(0 + Base * Weight16[n - 1], 0 + Base * Weight[n - 1])
    BY <1>1, <1>3, <2>1, CongAdd
  <2>3. 0 + Base * Weight16[n - 1] = Base * Weight16[n - 1] /\ 0 + Base * Weight[n - 1] = Base * Weight[n - 1]
    BY <2>1
  <2>4. Cong((Base * Weight16[n - 1]) % Word16, Base * Weight[n - 1])
    BY <2>2, <2>3, CongMod
  <2> QED BY <2>1, <2>4
<1> HIDE DEF Agree
<1>4. Agree(1)
  BY <1>2, <1>3
<1>5. Agree(2)
  BY <1>3, <1>4
<1>6. Agree(3)
  BY <1>3, <1>5
<1>7. Agree(4)
  BY <1>3, <1>6
<1>8. \A n \in 0 .. 4 : Agree(n)
  BY <1>2, <1>4, <1>5, <1>6, <1>7
<1> QED BY <1>8 DEF Agree

LEMMA ParsedIs ==
  ASSUME NEW v \in Nat, v < Weight[4], NEW buf, IsCode(buf, v, DigitsOf(v))
  PROVE  mqtt_parse_rem_len(buf) = v % Word16
<1> DEFINE d == DigitsOf(v)
           R(i) == Rest(v)[i]
           t == [n \in 1 .. d |-> (buf[n] % Base) * Weight16[n - 1]]
           IsSum(f) == f = [n \in 0 .. d |-> IF n = 0 THEN 0 ELSE (f[n - 1] + t[n]) % Word16]
           S == CHOOSE f : IsSum(f)
<1>1. d \in 1 .. 4 /\ R(d) = 0 /\ BytesRead(buf) = d
  BY DigitsAre, ReadersAgree DEF Places, MAX_NO_OF_REMAINING_LENGTH_BYTES
<1>2. mqtt_parse_rem_len(buf) = S[d]
  <2> DEFINE IsValue(f) == f = [n \in 0 .. d |-> IF n = 0 THEN 0
                                  ELSE (f[n - 1] + ((buf[n] % Base) * Weight16[n - 1])) % Word16]
  <2> HIDE DEF d
  <2>1. mqtt_parse_rem_len(buf) = (CHOOSE f : IsValue(f))[d]
    BY <1>1 DEF mqtt_parse_rem_len
  <2>2. \A f : IsValue(f) <=> IsSum(f)
    <3>1. \A n \in 0 .. d : n # 0 => t[n] = (buf[n] % Base) * Weight16[n - 1]
      BY <1>1
    <3> HIDE DEF t
    <3>2. ASSUME NEW f
          PROVE  [n \in 0 .. d |-> IF n = 0 THEN 0
                                   ELSE (f[n - 1] + ((buf[n] % Base) * Weight16[n - 1])) % Word16]
                   = [n \in 0 .. d |-> IF n = 0 THEN 0 ELSE (f[n - 1] + t[n]) % Word16]
      BY <3>1
    <3> QED BY <3>2
  <2> HIDE DEF IsValue, IsSum
  <2>3. (CHOOSE f : IsValue(f)) = (CHOOSE f : IsSum(f))
    BY <2>2
  <2> QED BY <2>1, <2>3
<1>3. IsSum(S)
  <2> HIDE DEF t, d
  <2>1. \E f : IsSum(f)
    <3>1. d \in 1 .. 4
      BY <1>1
    <3> QED BY ONLY <3>1, LoopOf16, Zenon
  <2> HIDE DEF IsSum
  <2> QED BY <2>1
<1>4. S[0] = 0 /\ \A n \in 1 .. d : S[n] = (S[n - 1] + (R(n - 1) % Base) * Weight16[n - 1]) % Word16
  <2>1. \A n \in 1 .. d : t[n] = (R(n - 1) % Base) * Weight16[n - 1]
    BY DEF IsCode
  <2> HIDE DEF t, d
  <2>2. S[0] = 0 /\ \A n \in 1 .. d : S[n] = (S[n - 1] + t[n]) % Word16
    <3>1. d \in Nat /\ 0 \in 0 .. d /\ \A n \in 1 .. d : n \in 0 .. d /\ n # 0
      BY <1>1
    <3> HIDE DEF S
    <3> QED BY <1>3, <3>1
  <2> QED BY <2>1, <2>2
<1>5. /\ R(0) = v /\ \A n \in 1 .. 4 : R(n) = R(n - 1) \div Base
      /\ \A n \in 0 .. 4 : R(n) \in Nat /\ Weight[n] \in Nat
      /\ Weight[0] = 1 /\ \A n \in 1 .. 4 : Weight[n] = Base * Weight[n - 1]
  BY RestIs, WeightIs DEF Places, MAX_NO_OF_REMAINING_LENGTH_BYTES
<1> HIDE DEF S, R, d, IsSum
<1> DEFINE Read(n) == \E s \in Nat : v = s + Weight[n] * R(n) /\ Cong(S[n], s)
           Fits(n) == S[n] \in 0 .. Word16 - 1
<1>6. Read(0)
  <2>1. Cong(0, 0)
    <3>1. 0 = 0 + Word16 * 0
      BY RemLenAssumption
    <3> QED BY <3>1 DEF Cong
  <2>2. v = 0 + Weight[0] * R(0)
    BY <1>5
  <2> QED BY <1>4, <2>1, <2>2
<1>7. ASSUME NEW n \in 1 .. d, Read(n - 1) PROVE Read(n) /\ Fits(n)
  <2> DEFINE w == Weight[n - 1]
             r == R(n - 1)
  <2>1. PICK s \in Nat : v = s + w * r /\ Cong(S[n - 1], s)
    BY <1>7
  <2>2. n \in 1 .. 4 /\ n - 1 \in 0 .. 4
    BY <1>1
  <2>3. w \in Nat /\ r \in Nat /\ R(n) = r \div Base /\ Weight[n] = Base * w /\ Cong(Weight16[n - 1], w)
    BY <1>5, <2>2, WeightsAgree
  <2>4. S[n] = (S[n - 1] + (r % Base) * Weight16[n - 1]) % Word16
    BY <1>4
  <2> HIDE DEF w, r, Read, Fits
  <2>5. r % Base \in Nat
    BY <2>3, Quotient, RemLenAssumption
  <2>6. s + (r % Base) * w \in Nat /\ v = (s + (r % Base) * w) + (Base * w) * (r \div Base)
    BY <2>1, <2>3, OneMoreDigit
  <2>7. Cong(S[n - 1] + (r % Base) * Weight16[n - 1], s + (r % Base) * w)
    BY <2>1, <2>3, <2>5, CongAdd
  <2>8. Cong(S[n], s + (r % Base) * w) /\ S[n] \in 0 .. Word16 - 1
    BY <2>4, <2>7, CongMod
  <2>9. Read(n)
    BY <2>3, <2>6, <2>8 DEF Read
  <2> QED BY <2>8, <2>9 DEF Fits
<1>8. Read(d) /\ Fits(d)
  <2> HIDE DEF Read, Fits
  <2>1. Read(1) /\ Fits(1)
    BY <1>1, <1>6, <1>7
  <2>2. d >= 2 => Read(2) /\ Fits(2)
    BY <1>1, <1>7, <2>1
  <2>3. d >= 3 => Read(3) /\ Fits(3)
    BY <1>1, <1>7, <2>2
  <2>4. d >= 4 => Read(4) /\ Fits(4)
    BY <1>1, <1>7, <2>3
  <2> QED BY <1>1, <2>1, <2>2, <2>3, <2>4
<1>9. Cong(S[d], v)
  <2>1. PICK s \in Nat : v = s + Weight[d] * R(d) /\ Cong(S[d], s)
    BY <1>8
  <2>2. Weight[d] \in Nat /\ R(d) = 0
    BY <1>1, <1>5
  <2>3. s = v
    BY <2>1, <2>2
  <2> QED BY <2>1, <2>3
<1>10. v % Word16 = S[d]
  BY <1>8, <1>9, CongMod
<1> QED BY <1>2, <1>10

LEMMA PacketLenIs ==
  ASSUME NEW v \in Nat, v < Weight[4]
  PROVE  MQTTPacket_len(v) =
           1 + DigitsOf(v) + v
             + IF v \in {Base - 1, Weight[2] - 1, Weight[3] - 2, Weight[3] - 1} THEN 1 ELSE 0
<1> DEFINE d == DigitsOf(v)
           b == Base
           w2 == Weight[2]
           w3 == Weight[3]
           more == IF v \in {b - 1, w2 - 1, w3 - 2, w3 - 1} THEN 1 ELSE 0
<1>1. /\ b \in Nat /\ w2 \in Nat /\ w3 \in Nat /\ b > 1 /\ w2 >= 2 * b /\ w3 >= 2 * w2
  BY WeightIs, WeightGrows, RemLenAssumption
<1>2. d \in 1 .. 4 /\ Rest(v)[d] = 0 /\ \A i \in 1 .. d - 1 : Rest(v)[i] # 0
  BY DigitsAre DEF Places, MAX_NO_OF_REMAINING_LENGTH_BYTES
<1>3. (Rest(v)[1] = 0 <=> v < b) /\ (Rest(v)[2] = 0 <=> v < w2) /\ (Rest(v)[3] = 0 <=> v < w3)
  BY RestEnds, WeightGrows DEF Places, MAX_NO_OF_REMAINING_LENGTH_BYTES
<1> HIDE DEF d
<1>4. d = IF v < b THEN 1 ELSE IF v < w2 THEN 2 ELSE IF v < w3 THEN 3 ELSE 4
  <2>1. CASE d = 1
    BY <1>2, <1>3, <2>1
  <2>2. CASE d = 2
    BY <1>2, <1>3, <2>2
  <2>3. CASE d = 3
    BY <1>2, <1>3, <2>3
  <2>4. CASE d = 4
    BY <1>2, <1>3, <2>4
  <2> QED BY <1>2, <2>1, <2>2, <2>3, <2>4
<1>5. MQTTPacket_len(v) =
        v + 1 + IF v + 1 < b THEN 1 ELSE IF v + 1 < w2 THEN 2 ELSE IF v + 1 < w3 - 1 THEN 3 ELSE 4
  BY <1>1 DEF MQTTPacket_len
<1> HIDE DEF b, w2, w3
<1>6. MQTTPacket_len(v) = 1 + d + v + more
  BY <1>1, <1>4, <1>5
<1> QED BY <1>6 DEF d, b, w2, w3

\* A length that one part of the firmware writes is read by the others, whatever
\* the base, the width of uint16_t and the length that four digits hold, and
\* MQTTPacket_len is never too small for it.
THEOREM LengthsAreCorrect == RemLenSpec => []LengthsCorrect
<1>1. RemLenInit => LengthsCorrect
  <2> SUFFICES ASSUME RemLenInit PROVE LengthsCorrect
    OBVIOUS
  <2> DEFINE buf == MQTTPacket_encode(length)
             d == DigitsOf(length)
  <2>1. length \in Nat /\ length < Weight[4]
    BY WeightGrows DEF RemLenInit
  <2>2. IsCode(buf, length, d)
    BY <2>1, EncodedIs
  <2> HIDE DEF buf
  <2>3. MC_decode_packet(buf) = length /\ mqtt_parse_rem_len(buf) = length % Word16
    BY <2>1, <2>2, DecodedIs, ParsedIs
  <2>4. BytesRead(buf) = d /\ mqtt_num_rem_len_bytes(buf) = d /\ Len(buf) = d
    BY <2>2, ReadersAgree DEF IsCode
  <2>5. RemLenAgree
    BY <2>3, <2>4 DEF RemLenAgree, buf
  <2>6. PacketLenFits
    BY <2>1, <2>4, PacketLenIs DEF PacketLenFits, buf
  <2> QED BY <2>5, <2>6 DEF LengthsCorrect
<1>2. ASSUME LengthsCorrect, UNCHANGED length PROVE LengthsCorrect'
  BY <1>2 DEF LengthsCorrect, RemLenAgree, PacketLenFits
<1> QED BY <1>1, <1>2, PTL DEF RemLenSpec

-----------------------------------------------------------------------------
(* The linked list: IotList *)

\* s without its k-th element, and with n before its first
Without(s, k) == [i \in 1 .. Len(s) - 1 |-> IF i < k THEN s[i] ELSE s[i + 1]]
Prepended(n, s) == [i \in 1 .. Len(s) + 1 |-> IF i = 1 THEN n ELSE s[i - 1]]

LEMMA WithoutIs ==
  ASSUME NEW s \in Seq(ListNode), NEW k \in 1 .. Len(s)
  PROVE  /\ Without(s, k) \in Seq(ListNode) /\ Len(Without(s, k)) = Len(s) - 1
         /\ \A i \in 1 .. Len(s) - 1 : Without(s, k)[i] = IF i < k THEN s[i] ELSE s[i + 1]
         /\ RemoveAt(s, k) = Without(s, k)
<1>1. Len(s) \in Nat /\ Len(s) > 0 /\ \A i \in 1 .. Len(s) : s[i] \in ListNode
  OBVIOUS
<1> DEFINE w == Without(s, k)
<1>2. w \in [1 .. Len(s) - 1 -> ListNode]
  BY <1>1 DEF Without
<1>3. w \in Seq(ListNode) /\ Len(w) = Len(s) - 1
  BY <1>1, <1>2
<1>4. \A i \in 1 .. Len(s) - 1 : w[i] = IF i < k THEN s[i] ELSE s[i + 1]
  BY DEF Without
<1> DEFINE a == SubSeq(s, 1, k - 1)
           b == SubSeq(s, k + 1, Len(s))
<1>5. a \in Seq(ListNode) /\ Len(a) = k - 1 /\ \A i \in 1 .. k - 1 : a[i] = s[i]
  BY <1>1
<1>6. b \in Seq(ListNode) /\ Len(b) = Len(s) - k /\ \A i \in 1 .. Len(s) - k : b[i] = s[k + i]
  BY <1>1
<1> HIDE DEF a, b, w
<1>7. /\ a \o b \in Seq(ListNode) /\ Len(a \o b) = Len(s) - 1
      /\ \A i \in 1 .. Len(s) - 1 : (a \o b)[i] = IF i < k THEN s[i] ELSE s[i + 1]
  <2>1. a \o b \in Seq(ListNode) /\ Len(a \o b) = Len(s) - 1
    BY <1>1, <1>5, <1>6
  <2>2. ASSUME NEW i \in 1 .. Len(s) - 1, i < k PROVE (a \o b)[i] = s[i]
    BY <1>1, <1>5, <1>6, <2>2
  <2>3. ASSUME NEW i \in 1 .. Len(s) - 1, ~(i < k) PROVE (a \o b)[i] = s[i + 1]
    <3>1. i - (k - 1) \in 1 .. Len(s) - k /\ k + (i - (k - 1)) = i + 1
      BY <1>1, <2>3
    <3>2. (a \o b)[i] = b[i - (k - 1)]
      BY <1>1, <1>5, <1>6, <2>3
    <3> QED BY <1>6, <3>1, <3>2
  <2> QED BY <2>1, <2>2, <2>3
<1>8. a \o b = w
  BY <1>1, <1>3, <1>4, <1>7, SeqEqual
<1>9. RemoveAt(s, k) = w
  BY <1>8 DEF RemoveAt, a, b
<1> QED BY <1>3, <1>4, <1>9 DEF w

LEMMA EndsAre ==
  ASSUME NEW s \in Seq(ListNode), Len(s) > 0
  PROVE  Tail(s) = Without(s, 1) /\ Front(s) = Without(s, Len(s))
<1>1. Len(s) \in Nat /\ 1 \in 1 .. Len(s) /\ Len(s) \in 1 .. Len(s)
  OBVIOUS
<1>2. Tail(s) = Without(s, 1)
  <2> DEFINE t == Tail(s)
             w == Without(s, 1)
  <2>1. t \in Seq(ListNode) /\ Len(t) = Len(s) - 1 /\ \A i \in 1 .. Len(s) - 1 : t[i] = s[i + 1]
    BY <1>1
  <2>2. w \in Seq(ListNode) /\ Len(w) = Len(s) - 1 /\ \A i \in 1 .. Len(s) - 1 : w[i] = s[i + 1]
    BY <1>1, WithoutIs
  <2> HIDE DEF t, w
  <2>3. t = w
    BY <1>1, <2>1, <2>2, SeqEqual
  <2> QED BY <2>3 DEF t, w
<1>3. Front(s) = Without(s, Len(s))
  <2> DEFINE n == Len(s) - 1
             t == SubSeq(s, 1, n)
             w == Without(s, Len(s))
  <2>1. n \in Nat /\ n <= Len(s)
    BY <1>1
  <2> HIDE DEF n
  <2>2. t \in Seq(ListNode) /\ Len(t) = n /\ \A i \in 1 .. n : t[i] = s[i]
    BY <1>1, <2>1
  <2>3. w \in Seq(ListNode) /\ Len(w) = n /\ \A i \in 1 .. n : w[i] = s[i]
    BY <1>1, <2>1, WithoutIs DEF n
  <2> HIDE DEF t, w
  <2>4. t = w
    BY <2>1, <2>2, <2>3, SeqEqual
  <2> QED BY <2>4 DEF Front, n, t, w
<1> QED BY <1>2, <1>3

LEMMA PrependedIs ==
  ASSUME NEW s \in Seq(ListNode), NEW n \in ListNode
  PROVE  /\ <<n>> \o s = Prepended(n, s)
         /\ Prepended(n, s) \in Seq(ListNode) /\ Len(Prepended(n, s)) = Len(s) + 1
         /\ \A i \in 1 .. Len(s) + 1 : Prepended(n, s)[i] = IF i = 1 THEN n ELSE s[i - 1]
<1>1. Len(s) \in Nat /\ \A i \in 1 .. Len(s) : s[i] \in ListNode
  OBVIOUS
<1> DEFINE w == Prepended(n, s)
<1>2. w \in [1 .. Len(s) + 1 -> ListNode]
  BY <1>1 DEF Prepended
<1>3. w \in Seq(ListNode) /\ Len(w) = Len(s) + 1
  BY <1>1, <1>2
<1>4. \A i \in 1 .. Len(s) + 1 : w[i] = IF i = 1 THEN n ELSE s[i - 1]
  BY DEF Prepended
<1>5. /\ <<n>> \o s \in Seq(ListNode) /\ Len(<<n>> \o s) = Len(s) + 1
      /\ \A i \in 1 .. Len(s) + 1 : (<<n>> \o s)[i] = IF i = 1 THEN n ELSE s[i - 1]
  BY <1>1
<1> HIDE DEF w
<1>6. <<n>> \o s = w
  BY <1>3, <1>4, <1>5, SeqEqual
<1> QED BY <1>3, <1>4, <1>6 DEF w

LEMMA ReverseIs ==
  ASSUME NEW s \in Seq(ListNode)
  PROVE  /\ Reverse(s) \in Seq(ListNode) /\ Len(Reverse(s)) = Len(s)
         /\ \A i \in 1 .. Len(s) : Reverse(s)[i] = s[(Len(s) - i) + 1]
<1>1. Reverse(s) \in [1 .. Len(s) -> ListNode]
  <2>1. \A i \in 1 .. Len(s) : s[(Len(s) - i) + 1] \in ListNode
    OBVIOUS
  <2> QED BY <2>1 DEF Reverse
<1> QED BY <1>1 DEF Reverse

\* A walk is the only sequence of its kind.
IsWalk(w, start, link) ==
  \A i \in 1 .. len : w[i] = IF i = 1 THEN start
                             ELSE IF w[i - 1] \in ListNode THEN link[w[i - 1]] ELSE NIL

LEMMA WalkIs ==
  ASSUME NEW start, NEW link, len \in Nat, NEW w \in [1 .. len -> NodeOrNil], IsWalk(w, start, link)
  PROVE  Walk(start, link) = w
<1> DEFINE v == Walk(start, link)
<1>1. v = CHOOSE x \in [1 .. len -> NodeOrNil] : IsWalk(x, start, link)
  BY DEF Walk, IsWalk
<1> HIDE DEF v
<1>2. v \in [1 .. len -> NodeOrNil] /\ IsWalk(v, start, link)
  BY <1>1
<1> DEFINE T == {i \in 1 .. len : v[i] # w[i]}
<1>3. ASSUME T # {} PROVE FALSE
  <2>1. T \subseteq Nat
    OBVIOUS
  <2>2. PICK m \in T : \A y \in T : ~ (<<y, m>> \in OpToRel(<, Nat))
    BY <1>3, <2>1, NatLessThanWellFounded, WFMin
  <2>3. m \in 1 .. len /\ v[m] # w[m] /\ m \in Nat
    OBVIOUS
  <2>4. m # 1
    BY <1>2, <2>3 DEF IsWalk
  <2>5. m - 1 \in 1 .. len /\ <<m - 1, m>> \in OpToRel(<, Nat)
    BY <2>3, <2>4 DEF OpToRel
  <2>6. v[m - 1] = w[m - 1]
    BY <2>2, <2>5
  <2>7. v[m] = w[m]
    BY <1>2, <2>3, <2>4, <2>6 DEF IsWalk
  <2> QED BY <2>3, <2>7
<1>4. \A i \in 1 .. len : v[i] = w[i]
  BY <1>3
<1>5. v = w
  BY <1>2, <1>4
<1> QED BY <1>5 DEF v

(* The invariant: there is a sequence that the links spell *)

Shape(s) ==
  /\ s \in Seq(ListNode) /\ Len(s) = len
  /\ \A i, j \in 1 .. Len(s) : s[i] = s[j] => i = j
  /\ \A n : n \in listed <=> \E i \in 1 .. Len(s) : s[i] = n
  /\ headOf = (IF Len(s) = 0 THEN NIL ELSE s[1])
  /\ tailOf = (IF Len(s) = 0 THEN NIL ELSE s[Len(s)])
  /\ \A i \in 1 .. Len(s) : /\ prev[s[i]] = IF i = 1 THEN NIL ELSE s[i - 1]
                            /\ nextOf[s[i]] = IF i = Len(s) THEN NIL ELSE s[i + 1]

Ahead(s) == IF it.direction = "LIST_HEAD" THEN s ELSE Reverse(s)

\* The iterator is at the k-th node of its direction: it has given those before
\* it, and possibly others that were removed.
AtNode(r, k) ==
  /\ (it.given # <<>> \/ it.next # NIL) => it.next = IF k = Len(r) + 1 THEN NIL ELSE r[k]
  /\ \A i \in 1 .. Len(r) : i < k <=> r[i] \in ToSet(it.given)
Iterates(s) == \E k \in 1 .. Len(s) + 1 : AtNode(Ahead(s), k)

ListInv == /\ ListTypeOK /\ IsFiniteSet(listed)
           /\ \E s : Shape(s) /\ Iterates(s)

ListStep(s, t) ==
  \/ t = s
  \/ \E n \in ListNode : n \notin ToSet(s) /\ t \in {Append(s, n), <<n>> \o s}
  \/ s # <<>> /\ t \in {Front(s), Tail(s)}
  \/ \E n \in ListNode : \E i \in DOMAIN s : s[i] = n /\ t = RemoveAt(s, i)

LEMMA ListLinks ==
  ASSUME NEW s, Shape(s), ListTypeOK
  PROVE  /\ s \in Seq(ListNode) /\ Len(s) \in Nat /\ Len(s) = len
         /\ \A i \in 1 .. Len(s) : s[i] \in ListNode /\ s[i] # NIL
         /\ Len(s) > 0 => headOf = s[1] /\ tailOf = s[Len(s)]
  BY ListAssumption DEF Shape

LEMMA WalksAre ==
  ASSUME NEW s, Shape(s), ListTypeOK
  PROVE  Forward = s /\ Backward = Reverse(s)
<1>1. /\ s \in Seq(ListNode) /\ len \in Nat /\ Len(s) = len
      /\ \A i \in 1 .. len : s[i] \in ListNode
  BY ListLinks
<1>2. Forward = s
  <2>1. s \in [1 .. len -> NodeOrNil]
    BY <1>1 DEF NodeOrNil
  <2>2. IsWalk(s, headOf, nextOf)
    <3> SUFFICES ASSUME NEW i \in 1 .. len
                 PROVE  s[i] = IF i = 1 THEN headOf
                               ELSE IF s[i - 1] \in ListNode THEN nextOf[s[i - 1]] ELSE NIL
      BY DEF IsWalk
    <3>1. CASE i = 1
      BY <1>1, <3>1 DEF Shape
    <3>2. CASE i # 1
      <4>1. i - 1 \in 1 .. Len(s) /\ i - 1 # Len(s) /\ (i - 1) + 1 = i
        BY <1>1, <3>2
      <4>2. nextOf[s[i - 1]] = s[i]
        BY <4>1 DEF Shape
      <4> QED BY <1>1, <3>2, <4>1, <4>2
    <3> QED BY <3>1, <3>2
  <2> QED BY <1>1, <2>1, <2>2, WalkIs DEF Forward
<1>3. Backward = Reverse(s)
  <2> DEFINE r == Reverse(s)
  <2>1. r \in Seq(ListNode) /\ Len(r) = len /\ \A i \in 1 .. len : r[i] = s[(len - i) + 1]
    BY <1>1, ReverseIs
  <2> HIDE DEF r
  <2>2. r \in [1 .. len -> NodeOrNil]
    BY <1>1, <2>1 DEF NodeOrNil
  <2>3. IsWalk(r, tailOf, prev)
    <3> SUFFICES ASSUME NEW i \in 1 .. len
                 PROVE  r[i] = IF i = 1 THEN tailOf
                               ELSE IF r[i - 1] \in ListNode THEN prev[r[i - 1]] ELSE NIL
      BY DEF IsWalk
    <3>1. CASE i = 1
      BY <1>1, <2>1, <3>1 DEF Shape
    <3>2. CASE i # 1
      <4> DEFINE j == (len - (i - 1)) + 1
      <4>1. j \in 1 .. Len(s) /\ j # 1 /\ j - 1 = (len - i) + 1 /\ i - 1 \in 1 .. len
        BY <1>1, <3>2
      <4>2. r[i - 1] = s[j] /\ r[i] = s[j - 1]
        BY <2>1, <4>1
      <4> HIDE DEF j
      <4>3. prev[s[j]] = s[j - 1]
        BY <4>1 DEF Shape
      <4> QED BY <1>1, <3>2, <4>1, <4>2, <4>3
    <3> QED BY <3>1, <3>2
  <2>4. Backward = r
    BY <1>1, <2>2, <2>3, WalkIs DEF Backward
  <2> QED BY <2>4 DEF r
<1> QED BY <1>2, <1>3

LEMMA AheadIs ==
  ASSUME NEW s, Shape(s), ListTypeOK
  PROVE  /\ Ahead(s) \in Seq(ListNode) /\ Len(Ahead(s)) = Len(s)
         /\ \A n : n \in listed <=> \E i \in 1 .. Len(s) : Ahead(s)[i] = n
         /\ \A i \in 1 .. Len(s) : Ahead(s)[i] \in ListNode /\ Ahead(s)[i] # NIL
<1>1. /\ s \in Seq(ListNode) /\ Len(s) \in Nat
      /\ \A n : n \in listed <=> \E i \in 1 .. Len(s) : s[i] = n
  BY ListLinks DEF Shape
<1>2. CASE it.direction = "LIST_HEAD"
  BY <1>1, <1>2, ListAssumption DEF Ahead
<1>3. CASE it.direction # "LIST_HEAD"
  <2> DEFINE r == Reverse(s)
  <2>1. r \in Seq(ListNode) /\ Len(r) = Len(s) /\ \A i \in 1 .. Len(s) : r[i] = s[(Len(s) - i) + 1]
    BY <1>1, ReverseIs
  <2>2. Ahead(s) = r
    BY <1>3 DEF Ahead
  <2> HIDE DEF r
  <2>3. \A i \in 1 .. Len(s) : (Len(s) - i) + 1 \in 1 .. Len(s) /\ (Len(s) - ((Len(s) - i) + 1)) + 1 = i
    BY <1>1
  <2>4. ASSUME NEW n PROVE n \in listed <=> \E i \in 1 .. Len(s) : r[i] = n
    <3>1. ASSUME NEW i \in 1 .. Len(s), s[i] = n PROVE \E j \in 1 .. Len(s) : r[j] = n
      BY <2>1, <2>3, <3>1
    <3>2. ASSUME NEW i \in 1 .. Len(s), r[i] = n PROVE \E j \in 1 .. Len(s) : s[j] = n
      BY <2>1, <2>3, <3>2
    <3> QED BY <1>1, <3>1, <3>2
  <2>5. \A i \in 1 .. Len(s) : r[i] \in ListNode /\ r[i] # NIL
    BY <2>1, ListAssumption
  <2> QED BY <2>1, <2>2, <2>4, <2>5
<1> QED BY <1>2, <1>3

LEMMA InvWalks == ListInv => WalksCorrect
<1> SUFFICES ASSUME ListInv PROVE WalksCorrect
  OBVIOUS
<1>1. PICK s : Shape(s) /\ Iterates(s)
  BY DEF ListInv
<1>2. ListTypeOK
  BY DEF ListInv
<1>3. Forward = s /\ Backward = Reverse(s)
  BY <1>1, <1>2, WalksAre
<1>4. /\ s \in Seq(ListNode) /\ Len(s) \in Nat /\ Len(s) = len
      /\ Len(s) > 0 => headOf = s[1] /\ tailOf = s[Len(s)]
  BY <1>1, <1>2, ListLinks
<1>5. len > 0 => nextOf[tailOf] = NIL /\ prev[headOf] = NIL
  BY <1>1, <1>4 DEF Shape
<1>6. ToSet(s) = listed
  BY <1>1, <1>4 DEF Shape, ToSet
<1>7. Mirrored
  BY <1>3, <1>5, <1>6 DEF Mirrored
<1>8. IteratorComplete
  <2> DEFINE r == Ahead(s)
  <2>1. PICK k \in 1 .. Len(s) + 1 : AtNode(r, k)
    BY <1>1 DEF Iterates
  <2>2. /\ Len(r) = Len(s) /\ \A n : n \in listed <=> \E i \in 1 .. Len(s) : r[i] = n
        /\ \A i \in 1 .. Len(s) : r[i] # NIL
    BY <1>1, <1>2, AheadIs
  <2> HIDE DEF r
  <2>3. ASSUME it.next # NIL PROVE it.next \in listed /\ it.next \notin ToSet(it.given)
    <3>1. k \in 1 .. Len(s) /\ it.next = r[k]
      BY <1>4, <2>1, <2>2, <2>3 DEF AtNode
    <3>2. r[k] \notin ToSet(it.given)
      BY <1>4, <2>1, <2>2, <3>1 DEF AtNode
    <3> QED BY <2>2, <3>1, <3>2
  <2>4. ASSUME it.given # <<>>, it.next = NIL PROVE listed \subseteq ToSet(it.given)
    <3>1. k = Len(s) + 1
      BY <1>4, <2>1, <2>2, <2>4 DEF AtNode
    <3>2. \A i \in 1 .. Len(s) : r[i] \in ToSet(it.given)
      BY <1>4, <2>1, <2>2, <3>1 DEF AtNode
    <3> QED BY <2>2, <3>2
  <2> QED BY <2>3, <2>4 DEF IteratorComplete
<1> QED BY <1>7, <1>8 DEF WalksCorrect

LEMMA IdleIterates ==
  ASSUME NEW t \in Seq(ListNode), it' = NoIterator
  PROVE  Iterates(t)'
<1>1. it'.given = <<>> /\ it'.next = NIL /\ it'.direction = "LIST_HEAD"
  BY DEF NoIterator
<1>2. ToSet(it'.given) = {}
  BY <1>1 DEF ToSet
<1>3. Len(t) \in Nat
  OBVIOUS
<1>4. AtNode(t, 1)'
  BY <1>1, <1>2, <1>3 DEF AtNode
<1> QED BY <1>1, <1>3, <1>4 DEF Iterates, Ahead

LEMMA ListInitInv == ListInit => ListInv
<1> SUFFICES ASSUME ListInit PROVE ListInv
  OBVIOUS
<1> DEFINE s == <<>>
<1>1. s \in Seq(ListNode) /\ Len(s) = 0
  OBVIOUS
<1>2. Shape(s)
  BY <1>1 DEF Shape, ListInit
<1>3. IsFiniteSet(listed) /\ Cardinality(listed) = 0
  BY FS_EmptySet DEF ListInit
<1>4. it \in [next : NodeOrNil, direction : Direction, given : Seq(ListNode)]
  BY DEF ListInit, NoIterator, NodeOrNil, Direction
<1>5. ListTypeOK
  BY <1>3, <1>4 DEF ListTypeOK, ListInit, NodeOrNil
<1>6. AtNode(s, 1) /\ it.direction = "LIST_HEAD"
  BY <1>1 DEF AtNode, ListInit, NoIterator, ToSet
<1>7. Iterates(s)
  BY <1>1, <1>6 DEF Iterates, Ahead
<1> QED BY <1>2, <1>3, <1>5, <1>7 DEF ListInv

\* What every operation keeps of the counts and the iterator
ListKeeps(s, t) == ListTypeOK' /\ IsFiniteSet(listed)' /\ Shape(t)' /\ Iterates(t)' /\ ListStep(s, t)

LEMMA ListTypes ==
  ASSUME ListTypeOK
  PROVE  /\ headOf \in NodeOrNil /\ tailOf \in NodeOrNil /\ len = Cardinality(listed)
         /\ prev \in [ListNode -> NodeOrNil] /\ nextOf \in [ListNode -> NodeOrNil]
         /\ listed \subseteq ListNode /\ NIL \in NodeOrNil /\ \A n \in ListNode : n \in NodeOrNil
         /\ it.next \in NodeOrNil /\ it.direction \in Direction /\ it.given \in Seq(ListNode)
  BY DEF ListTypeOK, NodeOrNil

LEMMA IdleTypes ==
  ASSUME it' = NoIterator
  PROVE  it'.next \in NodeOrNil /\ it'.direction \in Direction /\ it'.given \in Seq(ListNode)
  BY DEF NoIterator, NodeOrNil, Direction

LEMMA RpushKeeps ==
  ASSUME ListTypeOK, IsFiniteSet(listed), NEW s, Shape(s), NEW n \in ListNode, list_rpush(n)
  PROVE  \E t : ListKeeps(s, t)
<1> DEFINE t == Append(s, n)
<1>1. /\ s \in Seq(ListNode) /\ Len(s) \in Nat /\ Len(s) = len
      /\ \A i \in 1 .. Len(s) : s[i] \in ListNode /\ s[i] # NIL /\ s[i] # n
      /\ Len(s) > 0 => headOf = s[1] /\ tailOf = s[Len(s)]
  BY ListLinks DEF list_rpush, Shape
<1>2. /\ t \in Seq(ListNode) /\ Len(t) = Len(s) + 1 /\ t[Len(s) + 1] = n
      /\ \A i \in 1 .. Len(s) : t[i] = s[i]
  BY <1>1
<1> HIDE DEF t
<1>3. /\ prev' = [prev EXCEPT ![n] = IF Len(s) = 0 THEN NIL ELSE s[Len(s)]]
      /\ Len(s) = 0 => nextOf' = [nextOf EXCEPT ![n] = NIL]
      /\ Len(s) > 0 => nextOf' = [nextOf EXCEPT ![n] = NIL, ![s[Len(s)]] = n]
      /\ headOf' = (IF Len(s) = 0 THEN n ELSE s[1]) /\ tailOf' = n
  BY <1>1 DEF list_rpush
<1>4. /\ prev \in [ListNode -> NodeOrNil] /\ nextOf \in [ListNode -> NodeOrNil]
  BY ListTypes
<1>5. prev'[n] = (IF Len(s) = 0 THEN NIL ELSE s[Len(s)]) /\ nextOf'[n] = NIL
  BY <1>1, <1>3, <1>4
<1>6. \A i \in 1 .. Len(s) : /\ prev'[s[i]] = prev[s[i]]
                             /\ nextOf'[s[i]] = IF i = Len(s) THEN n ELSE nextOf[s[i]]
  <2>1. \A i \in 1 .. Len(s) : s[i] = s[Len(s)] <=> i = Len(s)
    BY <1>1 DEF Shape
  <2> QED BY <1>1, <1>3, <1>4, <2>1
<1>7. Shape(t)'
  <2>1. \A i, j \in 1 .. Len(t) : t[i] = t[j] => i = j
    BY <1>1, <1>2 DEF Shape
  <2>2. \A x : x \in listed' <=> \E i \in 1 .. Len(t) : t[i] = x
    <3>1. \A x : x \in listed' <=> x = n \/ \E i \in 1 .. Len(s) : s[i] = x
      BY DEF list_rpush, Shape
    <3> QED BY <1>1, <1>2, <3>1
  <2>3. ASSUME NEW i \in 1 .. Len(t)
        PROVE  /\ prev'[t[i]] = IF i = 1 THEN NIL ELSE t[i - 1]
               /\ nextOf'[t[i]] = IF i = Len(t) THEN NIL ELSE t[i + 1]
    <3>1. CASE i = Len(t)
      BY <1>1, <1>2, <1>5, <3>1
    <3>2. CASE i # Len(t)
      <4>1. i \in 1 .. Len(s) /\ t[i] = s[i]
        BY <1>1, <1>2, <3>2
      <4>2. prev[s[i]] = (IF i = 1 THEN NIL ELSE s[i - 1]) /\ nextOf[s[i]] = IF i = Len(s) THEN NIL ELSE s[i + 1]
        BY <4>1 DEF Shape
      <4>3. i # 1 => t[i - 1] = s[i - 1]
        BY <1>1, <1>2, <4>1
      <4>4. t[i + 1] = IF i = Len(s) THEN n ELSE s[i + 1]
        BY <1>1, <1>2, <4>1
      <4> QED BY <1>1, <1>2, <1>6, <3>2, <4>1, <4>2, <4>3, <4>4
    <3> QED BY <3>1, <3>2
  <2>4. Len(t) = len' /\ Len(t) # 0
    BY <1>1, <1>2 DEF list_rpush
  <2>5. headOf' = t[1] /\ tailOf' = t[Len(t)]
    BY <1>1, <1>2, <1>3
  <2> QED BY <1>2, <2>1, <2>2, <2>3, <2>4, <2>5 DEF Shape
<1>8. IsFiniteSet(listed') /\ len' = Cardinality(listed')
  BY FS_AddElement DEF list_rpush, ListTypeOK
<1>9. ListTypeOK'
  <2>1. prev' \in [ListNode -> NodeOrNil] /\ nextOf' \in [ListNode -> NodeOrNil]
    BY <1>1, <1>3, <1>4 DEF NodeOrNil
  <2>2. headOf' \in NodeOrNil /\ tailOf' \in NodeOrNil /\ listed' \subseteq ListNode
    BY <1>1, <1>3, ListTypes DEF list_rpush, NodeOrNil
  <2> QED BY <1>8, <2>1, <2>2, IdleTypes DEF ListTypeOK, list_rpush
<1>10. Iterates(t)'
  BY <1>2, IdleIterates DEF list_rpush
<1>11. ListStep(s, t)
  <2>1. n \notin ToSet(s)
    BY <1>1 DEF ToSet
  <2> QED BY <2>1 DEF ListStep, t
<1> QED BY <1>7, <1>8, <1>9, <1>10, <1>11 DEF ListKeeps

LEMMA LpushKeeps ==
  ASSUME ListTypeOK, IsFiniteSet(listed), NEW s, Shape(s), NEW n \in ListNode, list_lpush(n)
  PROVE  \E t : ListKeeps(s, t)
<1> DEFINE t == Prepended(n, s)
<1>1. /\ s \in Seq(ListNode) /\ Len(s) \in Nat /\ Len(s) = len
      /\ \A i \in 1 .. Len(s) : s[i] \in ListNode /\ s[i] # NIL /\ s[i] # n
      /\ Len(s) > 0 => headOf = s[1] /\ tailOf = s[Len(s)]
  BY ListLinks DEF list_lpush, Shape
<1>2. /\ t \in Seq(ListNode) /\ Len(t) = Len(s) + 1 /\ t[1] = n
      /\ \A i \in 1 .. Len(s) : t[i + 1] = s[i]
      /\ <<n>> \o s = t
  <2>1. /\ t \in Seq(ListNode) /\ Len(t) = Len(s) + 1 /\ <<n>> \o s = t
        /\ \A i \in 1 .. Len(s) + 1 : t[i] = IF i = 1 THEN n ELSE s[i - 1]
    BY <1>1, PrependedIs
  <2> HIDE DEF t
  <2>2. t[1] = n
    BY <1>1, <2>1
  <2>3. ASSUME NEW i \in 1 .. Len(s) PROVE t[i + 1] = s[i]
    <3>1. i + 1 \in 1 .. Len(s) + 1 /\ i + 1 # 1 /\ (i + 1) - 1 = i
      BY <1>1
    <3> QED BY <2>1, <3>1
  <2> QED BY <2>1, <2>2, <2>3
<1> HIDE DEF t
<1>3. /\ nextOf' = [nextOf EXCEPT ![n] = IF Len(s) = 0 THEN NIL ELSE s[1]]
      /\ Len(s) = 0 => prev' = [prev EXCEPT ![n] = NIL]
      /\ Len(s) > 0 => prev' = [prev EXCEPT ![n] = NIL, ![s[1]] = n]
      /\ tailOf' = (IF Len(s) = 0 THEN n ELSE s[Len(s)]) /\ headOf' = n
  BY <1>1 DEF list_lpush
<1>4. /\ prev \in [ListNode -> NodeOrNil] /\ nextOf \in [ListNode -> NodeOrNil]
  BY ListTypes
<1>5. nextOf'[n] = (IF Len(s) = 0 THEN NIL ELSE s[1]) /\ prev'[n] = NIL
  BY <1>1, <1>3, <1>4
<1>6. \A i \in 1 .. Len(s) : /\ nextOf'[s[i]] = nextOf[s[i]]
                             /\ prev'[s[i]] = IF i = 1 THEN n ELSE prev[s[i]]
  <2>1. \A i \in 1 .. Len(s) : s[i] = s[1] <=> i = 1
    BY <1>1 DEF Shape
  <2> QED BY <1>1, <1>3, <1>4, <2>1
<1>7. Shape(t)'
  <2>1. ASSUME NEW i \in 1 .. Len(t), NEW j \in 1 .. Len(t), t[i] = t[j] PROVE i = j
    <3>1. CASE i = 1
      BY <1>1, <1>2, <2>1, <3>1
    <3>2. CASE j = 1
      BY <1>1, <1>2, <2>1, <3>2
    <3>3. CASE i # 1 /\ j # 1
      <4>1. i - 1 \in 1 .. Len(s) /\ j - 1 \in 1 .. Len(s)
        BY <1>1, <1>2, <3>3
      <4>2. t[i] = s[i - 1] /\ t[j] = s[j - 1]
        BY <1>1, <1>2, <4>1
      <4>3. i - 1 = j - 1
        <5>1. \A a, b \in 1 .. Len(s) : s[a] = s[b] => a = b
          BY DEF Shape
        <5>2. s[i - 1] = s[j - 1]
          BY <2>1, <4>2
        <5> QED BY ONLY <4>1, <5>1, <5>2, Zenon
      <4> QED BY <1>1, <1>2, <4>3
    <3> QED BY <3>1, <3>2, <3>3
  <2>2. \A x : x \in listed' <=> \E i \in 1 .. Len(t) : t[i] = x
    <3>1. \A x : x \in listed' <=> x = n \/ \E i \in 1 .. Len(s) : s[i] = x
      BY DEF list_lpush, Shape
    <3>2. ASSUME NEW x, NEW i \in 1 .. Len(t), t[i] = x PROVE x \in listed'
      <4>1. CASE i = 1
        BY <1>2, <3>1, <3>2, <4>1
      <4>2. CASE i # 1
        <5>1. i - 1 \in 1 .. Len(s) /\ s[i - 1] = x
          BY <1>1, <1>2, <3>2, <4>2
        <5> QED BY <3>1, <5>1
      <4> QED BY <4>1, <4>2
    <3>3. ASSUME NEW i \in 1 .. Len(s) PROVE i + 1 \in 1 .. Len(t) /\ t[i + 1] = s[i]
      BY <1>1, <1>2
    <3>4. 1 \in 1 .. Len(t)
      BY <1>1, <1>2
    <3> QED BY <1>2, <3>1, <3>2, <3>3, <3>4
  <2>3. ASSUME NEW i \in 1 .. Len(t)
        PROVE  /\ prev'[t[i]] = IF i = 1 THEN NIL ELSE t[i - 1]
               /\ nextOf'[t[i]] = IF i = Len(t) THEN NIL ELSE t[i + 1]
    <3>1. CASE i = 1
      <4>1. Len(s) > 0 => t[2] = s[1]
        BY <1>1, <1>2
      <4> QED BY <1>1, <1>2, <1>5, <3>1, <4>1
    <3>2. CASE i # 1
      <4> DEFINE j == i - 1
      <4>1. j \in 1 .. Len(s) /\ i = j + 1
        BY <1>1, <1>2, <3>2
      <4> HIDE DEF j
      <4>2. t[i] = s[j] /\ t[i - 1] = IF j = 1 THEN n ELSE s[j - 1]
        BY <1>1, <1>2, <4>1
      <4>3. prev[s[j]] = (IF j = 1 THEN NIL ELSE s[j - 1]) /\ nextOf[s[j]] = IF j = Len(s) THEN NIL ELSE s[j + 1]
        BY <4>1 DEF Shape
      <4>4. j # Len(s) => t[i + 1] = s[j + 1]
        BY <1>1, <1>2, <4>1
      <4>5. i = Len(t) <=> j = Len(s)
        BY <1>1, <1>2, <4>1
      <4> QED BY <1>6, <3>2, <4>1, <4>2, <4>3, <4>4, <4>5
    <3> QED BY <3>1, <3>2
  <2>4. Len(t) = len' /\ Len(t) # 0
    BY <1>1, <1>2 DEF list_lpush
  <2>5. headOf' = t[1] /\ tailOf' = t[Len(t)]
    BY <1>1, <1>2, <1>3
  <2> QED BY <1>2, <2>1, <2>2, <2>3, <2>4, <2>5 DEF Shape
<1>8. IsFiniteSet(listed') /\ len' = Cardinality(listed')
  BY FS_AddElement DEF list_lpush, ListTypeOK
<1>9. ListTypeOK'
  <2>1. prev' \in [ListNode -> NodeOrNil] /\ nextOf' \in [ListNode -> NodeOrNil]
    BY <1>1, <1>3, <1>4 DEF NodeOrNil
  <2>2. headOf' \in NodeOrNil /\ tailOf' \in NodeOrNil /\ listed' \subseteq ListNode
    BY <1>1, <1>3, ListTypes DEF list_lpush, NodeOrNil
  <2> QED BY <1>8, <2>1, <2>2, IdleTypes DEF ListTypeOK, list_lpush
<1>10. Iterates(t)'
  BY <1>2, IdleIterates DEF list_lpush
<1>11. ListStep(s, t)
  <2>1. n \notin ToSet(s)
    BY <1>1 DEF ToSet
  <2> QED BY <1>2, <2>1 DEF ListStep
<1> QED BY <1>7, <1>8, <1>9, <1>10, <1>11 DEF ListKeeps

\* The m-th node leaves the list: its neighbours and the ends take its links.
Unlinked(s, m) ==
  /\ len' = len - 1 /\ listed' = listed \ {s[m]}
  /\ headOf' = IF m = 1 THEN nextOf[s[m]] ELSE headOf
  /\ tailOf' = IF m = Len(s) THEN prev[s[m]] ELSE tailOf
  /\ \A i \in 1 .. Len(s) :
       i # m => /\ prev'[s[i]] = IF i = m + 1 THEN prev[s[m]] ELSE prev[s[i]]
                /\ nextOf'[s[i]] = IF i = m - 1 THEN nextOf[s[m]] ELSE nextOf[s[i]]

LEMMA LeavesKeeps ==
  ASSUME ListTypeOK, IsFiniteSet(listed), NEW s, Shape(s), NEW m \in 1 .. Len(s), Unlinked(s, m)
  PROVE  /\ Shape(Without(s, m))' /\ IsFiniteSet(listed') /\ len' = Cardinality(listed')
         /\ headOf' \in NodeOrNil /\ tailOf' \in NodeOrNil /\ listed' \subseteq ListNode
<1> DEFINE t == Without(s, m)
<1>1. /\ s \in Seq(ListNode) /\ Len(s) \in Nat /\ Len(s) = len
      /\ \A i \in 1 .. Len(s) : s[i] \in ListNode /\ s[i] # NIL
      /\ Len(s) > 0 => headOf = s[1] /\ tailOf = s[Len(s)]
  BY ListLinks
<1>2. /\ t \in Seq(ListNode) /\ Len(t) = Len(s) - 1
      /\ \A i \in 1 .. Len(s) - 1 : t[i] = IF i < m THEN s[i] ELSE s[i + 1]
  BY <1>1, WithoutIs
<1> HIDE DEF t
<1>3. \A i \in 1 .. Len(s) : /\ prev[s[i]] = IF i = 1 THEN NIL ELSE s[i - 1]
                             /\ nextOf[s[i]] = IF i = Len(s) THEN NIL ELSE s[i + 1]
  BY DEF Shape
<1>4. ASSUME NEW i \in 1 .. Len(t)
      PROVE  \E j \in 1 .. Len(s) : j # m /\ t[i] = s[j] /\ j = IF i < m THEN i ELSE i + 1
  <2>1. CASE i < m
    BY <1>1, <1>2, <2>1
  <2>2. CASE ~(i < m)
    <3>1. i + 1 \in 1 .. Len(s) /\ i + 1 # m
      BY <1>1, <1>2, <2>2
    <3> QED BY <1>1, <1>2, <2>2, <3>1
  <2> QED BY <2>1, <2>2
<1>5. ASSUME NEW j \in 1 .. Len(s), j # m
      PROVE  \E i \in 1 .. Len(t) : t[i] = s[j]
  <2>1. CASE j < m
    BY <1>1, <1>2, <2>1
  <2>2. CASE j > m
    <3>1. j - 1 \in 1 .. Len(t) /\ ~(j - 1 < m) /\ (j - 1) + 1 = j
      BY <1>1, <1>2, <2>2
    <3> QED BY <1>1, <1>2, <3>1
  <2> QED BY <1>1, <1>5, <2>1, <2>2
<1>6. \A i, j \in 1 .. Len(t) : t[i] = t[j] => i = j
  <2> SUFFICES ASSUME NEW i \in 1 .. Len(t), NEW j \in 1 .. Len(t), t[i] = t[j] PROVE i = j
    OBVIOUS
  <2>1. PICK a \in 1 .. Len(s) : t[i] = s[a] /\ a = IF i < m THEN i ELSE i + 1
    BY <1>4
  <2>2. PICK b \in 1 .. Len(s) : t[j] = s[b] /\ b = IF j < m THEN j ELSE j + 1
    BY <1>4
  <2>3. a = b
    <3>1. \A x, y \in 1 .. Len(s) : s[x] = s[y] => x = y
      BY DEF Shape
    <3> QED BY <2>1, <2>2, <3>1
  <2> QED BY <1>1, <1>2, <2>1, <2>2, <2>3
<1>7. ASSUME NEW x PROVE x \in listed' <=> \E i \in 1 .. Len(t) : t[i] = x
  <2>1. x \in listed' <=> x # s[m] /\ \E j \in 1 .. Len(s) : s[j] = x
    BY DEF Unlinked, Shape
  <2>2. ASSUME NEW j \in 1 .. Len(s), s[j] = x, x # s[m] PROVE \E i \in 1 .. Len(t) : t[i] = x
    BY <1>5, <2>2
  <2>3. ASSUME NEW i \in 1 .. Len(t), t[i] = x PROVE x # s[m] /\ \E j \in 1 .. Len(s) : s[j] = x
    <3>1. PICK j \in 1 .. Len(s) : j # m /\ t[i] = s[j]
      BY <1>4
    <3> QED BY <2>3, <3>1 DEF Shape
  <2> QED BY <2>1, <2>2, <2>3
<1>8. ASSUME NEW i \in 1 .. Len(t)
      PROVE  /\ prev'[t[i]] = IF i = 1 THEN NIL ELSE t[i - 1]
             /\ nextOf'[t[i]] = IF i = Len(t) THEN NIL ELSE t[i + 1]
  <2>1. PICK j \in 1 .. Len(s) : j # m /\ t[i] = s[j] /\ j = IF i < m THEN i ELSE i + 1
    BY <1>4
  <2>2. /\ prev'[s[j]] = IF j = m + 1 THEN prev[s[m]] ELSE prev[s[j]]
        /\ nextOf'[s[j]] = IF j = m - 1 THEN nextOf[s[m]] ELSE nextOf[s[j]]
    BY <2>1 DEF Unlinked
  <2>3. i # 1 => t[i - 1] = IF i - 1 < m THEN s[i - 1] ELSE s[i]
    <3>1. i # 1 => i - 1 \in 1 .. Len(s) - 1 /\ (i - 1) + 1 = i
      BY <1>1, <1>2
    <3> QED BY <1>2, <3>1
  <2>4. i # Len(t) => t[i + 1] = IF i + 1 < m THEN s[i + 1] ELSE s[i + 2]
    <3>1. i # Len(t) => i + 1 \in 1 .. Len(s) - 1 /\ (i + 1) + 1 = i + 2
      BY <1>1, <1>2
    <3> QED BY <1>2, <3>1
  <2>5. prev'[s[j]] = IF i = 1 THEN NIL ELSE t[i - 1]
    <3>1. CASE j = m + 1
      <4>1. i = m
        BY <1>1, <1>2, <2>1, <3>1
      <4> QED BY <1>1, <1>3, <2>2, <2>3, <3>1, <4>1
    <3>2. CASE j # m + 1 /\ i < m
      BY <1>1, <1>2, <1>3, <2>1, <2>2, <2>3, <3>2
    <3>3. CASE j # m + 1 /\ ~(i < m)
      <4>1. j = i + 1 /\ i # 1 /\ j # 1 /\ ~(i - 1 < m) /\ j - 1 = i
        BY <1>1, <1>2, <2>1, <3>3
      <4> QED BY <1>3, <2>2, <2>3, <3>3, <4>1
    <3> QED BY <3>1, <3>2, <3>3
  <2>6. nextOf'[s[j]] = IF i = Len(t) THEN NIL ELSE t[i + 1]
    <3>1. CASE j = m - 1
      <4>1. i = m - 1 /\ ~(i + 1 < m) /\ i + 2 = m + 1 /\ (i = Len(t) <=> m = Len(s))
        BY <1>1, <1>2, <2>1, <3>1
      <4> QED BY <1>3, <2>2, <2>4, <3>1, <4>1
    <3>2. CASE j # m - 1 /\ i < m
      <4>1. j = i /\ i # Len(t) /\ i + 1 < m /\ j # Len(s)
        BY <1>1, <1>2, <2>1, <3>2
      <4> QED BY <1>3, <2>2, <2>4, <3>2, <4>1
    <3>3. CASE j # m - 1 /\ ~(i < m)
      <4>1. j = i + 1 /\ ~(i + 1 < m) /\ i + 2 = j + 1 /\ (i = Len(t) <=> j = Len(s))
        BY <1>1, <1>2, <2>1, <3>3
      <4> QED BY <1>3, <2>2, <2>4, <3>3, <4>1
    <3> QED BY <3>1, <3>2, <3>3
  <2> QED BY <2>1, <2>5, <2>6
<1>9. Len(t) = len'
  BY <1>1, <1>2 DEF Unlinked
<1>10. /\ headOf' = IF Len(t) = 0 THEN NIL ELSE t[1]
       /\ tailOf' = IF Len(t) = 0 THEN NIL ELSE t[Len(t)]
  <2>1. headOf' = IF Len(t) = 0 THEN NIL ELSE t[1]
    <3>1. CASE m = 1
      <4>1. headOf' = nextOf[s[1]]
        BY <3>1 DEF Unlinked
      <4>2. Len(t) # 0 => t[1] = s[2] /\ 1 # Len(s)
        BY <1>1, <1>2, <3>1
      <4>3. Len(t) = 0 => 1 = Len(s)
        BY <1>1, <1>2
      <4> QED BY <1>1, <1>3, <4>1, <4>2, <4>3
    <3>2. CASE m # 1
      <4>1. headOf' = s[1]
        BY <1>1, <3>2 DEF Unlinked
      <4>2. Len(t) # 0 /\ t[1] = s[1]
        BY <1>1, <1>2, <3>2
      <4> QED BY <4>1, <4>2
    <3> QED BY <3>1, <3>2
  <2>2. tailOf' = IF Len(t) = 0 THEN NIL ELSE t[Len(t)]
    <3>1. CASE m = Len(s)
      BY <1>1, <1>2, <1>3, <3>1 DEF Unlinked
    <3>2. CASE m # Len(s)
      BY <1>1, <1>2, <3>2 DEF Unlinked
    <3> QED BY <3>1, <3>2
  <2> QED BY <2>1, <2>2
<1>11. Shape(t)'
  BY <1>2, <1>6, <1>7, <1>8, <1>9, <1>10 DEF Shape
<1>12. IsFiniteSet(listed') /\ len' = Cardinality(listed')
  <2>1. s[m] \in listed
    BY DEF Shape
  <2> QED BY <2>1, FS_RemoveElement DEF Unlinked, ListTypeOK
<1>13. headOf' \in NodeOrNil /\ tailOf' \in NodeOrNil /\ listed' \subseteq ListNode
  BY <1>1, ListTypes DEF Unlinked
<1> QED BY <1>11, <1>12, <1>13 DEF t

\* What the three operations that take a node out have in common
LEMMA TakenKeeps ==
  ASSUME ListTypeOK, IsFiniteSet(listed), NEW s, Shape(s), Iterates(s),
         NEW m \in 1 .. Len(s), Unlinked(s, m),
         prev' \in [ListNode -> NodeOrNil], nextOf' \in [ListNode -> NodeOrNil],
         \/ it' = NoIterator
         \/ it' = it /\ it.given # <<>> /\ Last(it.given) = s[m],
         ListStep(s, Without(s, m))
  PROVE  \E t : ListKeeps(s, t)
<1> DEFINE t == Without(s, m)
<1>1. s \in Seq(ListNode) /\ Len(s) \in Nat
  BY ListLinks
<1>2. /\ t \in Seq(ListNode) /\ Len(t) = Len(s) - 1
      /\ \A i \in 1 .. Len(s) - 1 : t[i] = IF i < m THEN s[i] ELSE s[i + 1]
  BY <1>1, WithoutIs
<1>3. /\ Shape(t)' /\ IsFiniteSet(listed') /\ len' = Cardinality(listed')
      /\ headOf' \in NodeOrNil /\ tailOf' \in NodeOrNil /\ listed' \subseteq ListNode
  BY LeavesKeeps
<1>4. it'.next \in NodeOrNil /\ it'.direction \in Direction /\ it'.given \in Seq(ListNode)
  BY IdleTypes, ListTypes
<1>5. ListTypeOK'
  BY <1>3, <1>4 DEF ListTypeOK
<1>6. Iterates(t)'
  <2>1. CASE it' = NoIterator
    BY <1>2, <2>1, IdleIterates
  <2>2. CASE it' = it /\ it.given # <<>> /\ Last(it.given) = s[m]
    <3> DEFINE r == Ahead(s)
               p == IF it.direction = "LIST_HEAD" THEN m ELSE (Len(s) - m) + 1
    <3>1. PICK k \in 1 .. Len(s) + 1 : AtNode(r, k)
      BY DEF Iterates
    <3>2. r \in Seq(ListNode) /\ Len(r) = Len(s)
      BY AheadIs
    <3>3. p \in 1 .. Len(s) /\ r[p] = s[m]
      BY <1>1, ReverseIs DEF Ahead
    <3>4. Ahead(t)' = Without(r, p)
      <4>1. CASE it.direction = "LIST_HEAD"
        BY <2>2, <4>1 DEF Ahead
      <4>2. CASE it.direction # "LIST_HEAD"
        <5> DEFINE a == Reverse(t)
                   b == Without(Reverse(s), (Len(s) - m) + 1)
        <5>1. /\ Reverse(s) \in Seq(ListNode) /\ Len(Reverse(s)) = Len(s)
              /\ \A i \in 1 .. Len(s) : Reverse(s)[i] = s[(Len(s) - i) + 1]
          BY <1>1, ReverseIs
        <5>2. (Len(s) - m) + 1 \in 1 .. Len(s)
          BY <1>1
        <5>3. /\ b \in Seq(ListNode) /\ Len(b) = Len(s) - 1
              /\ \A i \in 1 .. Len(s) - 1 :
                   b[i] = IF i < (Len(s) - m) + 1 THEN Reverse(s)[i] ELSE Reverse(s)[i + 1]
          <6> DEFINE q == (Len(s) - m) + 1
                     v == Reverse(s)
          <6>1. v \in Seq(ListNode) /\ Len(v) = Len(s) /\ q \in 1 .. Len(v) /\ b = Without(v, q)
            BY <5>1, <5>2
          <6> HIDE DEF q, v, b
          <6>2. /\ Without(v, q) \in Seq(ListNode) /\ Len(Without(v, q)) = Len(v) - 1
                /\ \A i \in 1 .. Len(v) - 1 : Without(v, q)[i] = IF i < q THEN v[i] ELSE v[i + 1]
            BY <6>1, WithoutIs, SMTT(30)
          <6>3. /\ b \in Seq(ListNode) /\ Len(b) = Len(s) - 1
                /\ \A i \in 1 .. Len(s) - 1 : b[i] = IF i < q THEN v[i] ELSE v[i + 1]
            BY <6>1, <6>2
          <6> QED BY <6>3 DEF q, v
        <5>4. /\ a \in Seq(ListNode) /\ Len(a) = Len(s) - 1
              /\ \A i \in 1 .. Len(s) - 1 : a[i] = t[((Len(s) - 1) - i) + 1]
          BY <1>1, <1>2, ReverseIs
        <5> HIDE DEF a, b
        <5>5. ASSUME NEW i \in 1 .. Len(s) - 1 PROVE a[i] = b[i]
          <6> DEFINE j == ((Len(s) - 1) - i) + 1
          <6>1. j \in 1 .. Len(s) - 1 /\ (Len(s) - i) + 1 = j + 1 /\ (Len(s) - (i + 1)) + 1 = j
                /\ (j < m <=> ~(i < (Len(s) - m) + 1)) /\ i \in 1 .. Len(s) /\ i + 1 \in 1 .. Len(s)
            BY <1>1
          <6>2. a[i] = t[j]
            BY <5>4
          <6> HIDE DEF j, t
          <6>3. t[j] = IF j < m THEN s[j] ELSE s[j + 1]
            BY <1>2, <6>1
          <6>4. Reverse(s)[i] = s[j + 1] /\ Reverse(s)[i + 1] = s[j]
            BY <5>1, <6>1
          <6> QED BY <5>3, <6>1, <6>2, <6>3, <6>4
        <5>6. a = b
          BY <1>1, <5>3, <5>4, <5>5, SeqEqual
        <5> QED BY <2>2, <4>2, <5>6 DEF Ahead, a, b
      <4> QED BY <4>1, <4>2
    <3> HIDE DEF r, p
    <3>4a. PICK u : u = Without(r, p)
      OBVIOUS
    <3>4b. p \in 1 .. Len(r)
      BY <3>2, <3>3
    <3>4c. /\ u \in Seq(ListNode) /\ Len(u) = Len(r) - 1
           /\ \A i \in 1 .. Len(r) - 1 : u[i] = IF i < p THEN r[i] ELSE r[i + 1]
      BY <3>2, <3>4a, <3>4b, WithoutIs, ZenonT(60)
    <3>5. /\ u \in Seq(ListNode) /\ Len(u) = Len(s) - 1
          /\ \A i \in 1 .. Len(s) - 1 : u[i] = IF i < p THEN r[i] ELSE r[i + 1]
      BY <3>2, <3>4c
    <3>6. r[p] \in ToSet(it.given)
      <4>1. it.given \in Seq(ListNode)
        BY ListTypes
      <4>2. Len(it.given) \in DOMAIN it.given
        BY <2>2, <4>1, EmptySeq
      <4> QED BY <2>2, <3>3, <4>2 DEF Last, ToSet
    <3>7. p < k
      BY <3>1, <3>2, <3>3, <3>6 DEF AtNode
    <3>8. AtNode(u, k - 1)'
      <4>1. it.next = IF k = Len(r) + 1 THEN NIL ELSE r[k]
        BY <2>2, <3>1 DEF AtNode
      <4>2. it.next = IF k - 1 = Len(u) + 1 THEN NIL ELSE u[k - 1]
        <5>1. k - 1 = Len(u) + 1 <=> k = Len(r) + 1
          BY <1>1, <3>2, <3>5
        <5>2. k # Len(r) + 1 => u[k - 1] = r[k]
          <6>1. k # Len(r) + 1 => k - 1 \in 1 .. Len(s) - 1 /\ ~(k - 1 < p) /\ (k - 1) + 1 = k
            BY <1>1, <3>2, <3>3, <3>7
          <6> QED BY <3>5, <6>1
        <5> QED BY <4>1, <5>1, <5>2
      <4>3. ASSUME NEW i \in 1 .. Len(u) PROVE i < k - 1 <=> u[i] \in ToSet(it.given)
        <5>1. \A j \in 1 .. Len(s) : j < k <=> r[j] \in ToSet(it.given)
          BY <3>1, <3>2 DEF AtNode
        <5>2. CASE i < p
          <6>1. i \in 1 .. Len(s) /\ i < k - 1 /\ i < k /\ i \in 1 .. Len(s) - 1
            BY <1>1, <3>3, <3>5, <3>7, <5>2
          <6> QED BY <3>5, <5>1, <5>2, <6>1
        <5>3. CASE ~(i < p)
          <6>1. i + 1 \in 1 .. Len(s) /\ (i < k - 1 <=> i + 1 < k) /\ i \in 1 .. Len(s) - 1
            BY <1>1, <3>3, <3>5, <5>3
          <6> QED BY <3>5, <5>1, <5>3, <6>1
        <5> QED BY <5>2, <5>3
      <4> QED BY <2>2, <4>2, <4>3 DEF AtNode
    <3>9. k - 1 \in 1 .. Len(t) + 1
      BY <1>1, <1>2, <3>3, <3>7
    <3> QED BY <3>4, <3>8, <3>9, <3>4a DEF Iterates
  <2> QED BY <2>1, <2>2
<1>7. ListKeeps(s, t)
  BY <1>3, <1>5, <1>6 DEF ListKeeps
<1> QED BY <1>7

LEMMA RpopKeeps ==
  ASSUME ListTypeOK, IsFiniteSet(listed), NEW s, Shape(s), Iterates(s), list_rpop
  PROVE  \E t : ListKeeps(s, t)
<1> DEFINE m == Len(s)
<1>1. /\ s \in Seq(ListNode) /\ Len(s) \in Nat /\ Len(s) = len /\ Len(s) > 0
      /\ \A i \in 1 .. Len(s) : s[i] \in ListNode /\ s[i] # NIL
      /\ headOf = s[1] /\ tailOf = s[m] /\ m \in 1 .. Len(s)
  BY ListLinks DEF list_rpop
<1>2. prev \in [ListNode -> NodeOrNil] /\ nextOf \in [ListNode -> NodeOrNil]
  BY ListTypes
<1>3. \A i \in 1 .. Len(s) : /\ prev[s[i]] = IF i = 1 THEN NIL ELSE s[i - 1]
                             /\ nextOf[s[i]] = IF i = Len(s) THEN NIL ELSE s[i + 1]
                             /\ \A j \in 1 .. Len(s) : s[i] = s[j] => i = j
  BY DEF Shape
<1>4. /\ prev' = [prev EXCEPT ![s[m]] = NIL]
      /\ len > 1 => nextOf' = [nextOf EXCEPT ![s[m - 1]] = NIL, ![s[m]] = NIL]
      /\ len <= 1 => nextOf' = [nextOf EXCEPT ![s[m]] = NIL]
  BY <1>1, <1>3 DEF list_rpop
<1>5. m > 1 => m - 1 \in 1 .. Len(s)
  BY <1>1
<1>6. Unlinked(s, m)
  <2>1. len' = len - 1 /\ listed' = listed \ {s[m]}
    BY <1>1 DEF list_rpop
  <2>2. headOf' = (IF m = 1 THEN nextOf[s[m]] ELSE headOf) /\ tailOf' = prev[s[m]]
    BY <1>1, <1>3 DEF list_rpop
  <2>3. ASSUME NEW i \in 1 .. Len(s), i # m
        PROVE  /\ prev'[s[i]] = IF i = m + 1 THEN prev[s[m]] ELSE prev[s[i]]
               /\ nextOf'[s[i]] = IF i = m - 1 THEN nextOf[s[m]] ELSE nextOf[s[i]]
    <3>1. i # m + 1 /\ s[i] # s[m] /\ len > 1
      BY <1>1, <1>3, <2>3
    <3>2. s[i] = s[m - 1] <=> i = m - 1
      BY <1>1, <1>3, <1>5, <3>1
    <3> QED BY <1>1, <1>2, <1>3, <1>4, <1>5, <3>1, <3>2
  <2> QED BY <2>1, <2>2, <2>3 DEF Unlinked
<1>7. prev' \in [ListNode -> NodeOrNil] /\ nextOf' \in [ListNode -> NodeOrNil]
  BY <1>1, <1>2, <1>4, <1>5 DEF NodeOrNil
<1>8. ListStep(s, Without(s, m))
  BY <1>1, EndsAre DEF ListStep
<1>9. it' = NoIterator
  BY DEF list_rpop
<1> HIDE DEF m
<1> QED BY <1>1, <1>6, <1>7, <1>8, <1>9, TakenKeeps

LEMMA LpopKeeps ==
  ASSUME ListTypeOK, IsFiniteSet(listed), NEW s, Shape(s), Iterates(s), list_lpop
  PROVE  \E t : ListKeeps(s, t)
<1>1. /\ s \in Seq(ListNode) /\ Len(s) \in Nat /\ Len(s) = len /\ Len(s) > 0
      /\ \A i \in 1 .. Len(s) : s[i] \in ListNode /\ s[i] # NIL
      /\ headOf = s[1] /\ tailOf = s[Len(s)] /\ 1 \in 1 .. Len(s)
  BY ListLinks DEF list_lpop
<1>2. prev \in [ListNode -> NodeOrNil] /\ nextOf \in [ListNode -> NodeOrNil]
  BY ListTypes
<1>3. \A i \in 1 .. Len(s) : /\ prev[s[i]] = IF i = 1 THEN NIL ELSE s[i - 1]
                             /\ nextOf[s[i]] = IF i = Len(s) THEN NIL ELSE s[i + 1]
                             /\ \A j \in 1 .. Len(s) : s[i] = s[j] => i = j
  BY DEF Shape
<1>4. /\ nextOf' = [nextOf EXCEPT ![s[1]] = NIL]
      /\ len > 1 => prev' = [prev EXCEPT ![s[2]] = NIL, ![s[1]] = NIL]
      /\ len <= 1 => prev' = [prev EXCEPT ![s[1]] = NIL]
  BY <1>1, <1>3 DEF list_lpop
<1>5. len > 1 => 2 \in 1 .. Len(s)
  BY <1>1
<1>6. Unlinked(s, 1)
  <2>1. len' = len - 1 /\ listed' = listed \ {s[1]}
    BY <1>1 DEF list_lpop
  <2>2. headOf' = nextOf[s[1]] /\ tailOf' = IF 1 = Len(s) THEN prev[s[1]] ELSE tailOf
    BY <1>1, <1>3 DEF list_lpop
  <2>3. ASSUME NEW i \in 1 .. Len(s), i # 1
        PROVE  /\ prev'[s[i]] = IF i = 1 + 1 THEN prev[s[1]] ELSE prev[s[i]]
               /\ nextOf'[s[i]] = IF i = 1 - 1 THEN nextOf[s[1]] ELSE nextOf[s[i]]
    <3>1. i # 1 - 1 /\ s[i] # s[1] /\ len > 1
      BY <1>1, <1>3, <2>3
    <3>2. s[i] = s[2] <=> i = 2
      BY <1>1, <1>3, <1>5, <3>1
    <3> QED BY <1>1, <1>2, <1>3, <1>4, <1>5, <3>1, <3>2
  <2> QED BY <2>1, <2>2, <2>3 DEF Unlinked
<1>7. prev' \in [ListNode -> NodeOrNil] /\ nextOf' \in [ListNode -> NodeOrNil]
  BY <1>1, <1>2, <1>4, <1>5 DEF NodeOrNil
<1>8. ListStep(s, Without(s, 1))
  BY <1>1, EndsAre DEF ListStep
<1>9. it' = NoIterator
  BY DEF list_lpop
<1> QED BY <1>1, <1>6, <1>7, <1>8, <1>9, TakenKeeps

LEMMA RemoveKeeps ==
  ASSUME ListTypeOK, IsFiniteSet(listed), NEW s, Shape(s), Iterates(s), NEW n \in ListNode, list_remove(n)
  PROVE  \E t : ListKeeps(s, t)
<1>1. /\ s \in Seq(ListNode) /\ Len(s) \in Nat /\ Len(s) = len
      /\ \A i \in 1 .. Len(s) : s[i] \in ListNode /\ s[i] # NIL
      /\ Len(s) > 0 => headOf = s[1] /\ tailOf = s[Len(s)]
  BY ListLinks
<1>2. prev \in [ListNode -> NodeOrNil] /\ nextOf \in [ListNode -> NodeOrNil]
  BY ListTypes
<1>3. \A i \in 1 .. Len(s) : /\ prev[s[i]] = IF i = 1 THEN NIL ELSE s[i - 1]
                             /\ nextOf[s[i]] = IF i = Len(s) THEN NIL ELSE s[i + 1]
                             /\ \A j \in 1 .. Len(s) : s[i] = s[j] => i = j
  BY DEF Shape
<1>4. PICK m \in 1 .. Len(s) : s[m] = n
  BY DEF list_remove, Shape
<1>5. (m > 1 => m - 1 \in 1 .. Len(s)) /\ (m < Len(s) => m + 1 \in 1 .. Len(s))
  BY <1>1
<1>6. /\ m > 1 => nextOf' = [nextOf EXCEPT ![s[m - 1]] = nextOf[s[m]]] /\ UNCHANGED headOf
      /\ m = 1 => headOf' = nextOf[s[m]] /\ UNCHANGED nextOf
      /\ m < Len(s) => prev' = [prev EXCEPT ![s[m + 1]] = prev[s[m]]] /\ UNCHANGED tailOf
      /\ m = Len(s) => tailOf' = prev[s[m]] /\ UNCHANGED prev
  <2>1. m > 1 => prev[n] = s[m - 1] /\ prev[n] # NIL
    BY <1>1, <1>3, <1>4, <1>5
  <2>2. m = 1 => prev[n] = NIL
    BY <1>3, <1>4
  <2>3. m < Len(s) => nextOf[n] = s[m + 1] /\ nextOf[n] # NIL
    BY <1>1, <1>3, <1>4, <1>5
  <2>4. m = Len(s) => nextOf[n] = NIL
    BY <1>3, <1>4
  <2> QED BY <1>4, <2>1, <2>2, <2>3, <2>4 DEF list_remove
<1>7. Unlinked(s, m)
  <2>1. len' = len - 1 /\ listed' = listed \ {s[m]}
    BY <1>4 DEF list_remove
  <2>2. /\ headOf' = IF m = 1 THEN nextOf[s[m]] ELSE headOf
        /\ tailOf' = IF m = Len(s) THEN prev[s[m]] ELSE tailOf
    BY <1>1, <1>6
  <2>3. ASSUME NEW i \in 1 .. Len(s), i # m
        PROVE  /\ prev'[s[i]] = IF i = m + 1 THEN prev[s[m]] ELSE prev[s[i]]
               /\ nextOf'[s[i]] = IF i = m - 1 THEN nextOf[s[m]] ELSE nextOf[s[i]]
    <3>1. m > 1 => (s[i] = s[m - 1] <=> i = m - 1)
      BY <1>3, <1>5
    <3>2. m < Len(s) => (s[i] = s[m + 1] <=> i = m + 1)
      BY <1>3, <1>5
    <3>3. nextOf'[s[i]] = IF i = m - 1 THEN nextOf[s[m]] ELSE nextOf[s[i]]
      BY <1>1, <1>2, <1>5, <1>6, <3>1
    <3>4. prev'[s[i]] = IF i = m + 1 THEN prev[s[m]] ELSE prev[s[i]]
      BY <1>1, <1>2, <1>5, <1>6, <3>2
    <3> QED BY <3>3, <3>4
  <2> QED BY <2>1, <2>2, <2>3 DEF Unlinked
<1>8. prev' \in [ListNode -> NodeOrNil] /\ nextOf' \in [ListNode -> NodeOrNil]
  <2>1. prev[s[m]] \in NodeOrNil /\ nextOf[s[m]] \in NodeOrNil
    BY <1>1, <1>2
  <2> QED BY <1>1, <1>2, <1>5, <1>6, <2>1
<1>9. ListStep(s, Without(s, m))
  <2>1. RemoveAt(s, m) = Without(s, m) /\ m \in DOMAIN s
    BY <1>1, WithoutIs
  <2> QED BY <1>4, <2>1 DEF ListStep
<1>10. it' = NoIterator \/ (it' = it /\ it.given # <<>> /\ Last(it.given) = s[m])
  BY <1>4 DEF list_remove
<1> QED BY <1>1, <1>7, <1>8, <1>9, <1>10, TakenKeeps

LEMMA NewKeeps ==
  ASSUME ListTypeOK, IsFiniteSet(listed), NEW s, Shape(s), NEW d \in Direction, list_iterator_new(d)
  PROVE  \E t : ListKeeps(s, t)
<1>1. /\ s \in Seq(ListNode) /\ Len(s) \in Nat
      /\ headOf = (IF Len(s) = 0 THEN NIL ELSE s[1])
      /\ tailOf = (IF Len(s) = 0 THEN NIL ELSE s[Len(s)])
  BY ListLinks DEF Shape
<1>2. UNCHANGED <<headOf, tailOf, len, prev, nextOf, listed>>
  BY DEF list_iterator_new
<1>3. /\ it'.next = (IF d = "LIST_HEAD" THEN headOf ELSE tailOf)
      /\ it'.direction = d /\ it'.given = <<>>
  BY DEF list_iterator_new
<1>4. Shape(s)' /\ IsFiniteSet(listed')
  BY <1>2 DEF Shape
<1>5. ListTypeOK'
  BY <1>2, <1>3 DEF ListTypeOK
<1>6. ToSet(it'.given) = {}
  BY <1>3 DEF ToSet
<1>7. Iterates(s)'
  <2>1. Ahead(s)' = IF d = "LIST_HEAD" THEN s ELSE Reverse(s)
    BY <1>3 DEF Ahead
  <2>2. PICK r : r = IF d = "LIST_HEAD" THEN s ELSE Reverse(s)
    OBVIOUS
  <2>3. Len(r) = Len(s) /\ (Len(s) > 0 => r[1] = IF d = "LIST_HEAD" THEN s[1] ELSE s[Len(s)])
    BY <1>1, <2>2, ReverseIs
  <2>4. AtNode(r, 1)'
    BY <1>1, <1>3, <1>6, <2>3 DEF AtNode
  <2> QED BY <1>1, <2>1, <2>2, <2>4 DEF Iterates
<1>8. ListKeeps(s, s)
  BY <1>4, <1>5, <1>7 DEF ListKeeps, ListStep
<1> QED BY <1>8

LEMMA SetOfMore ==
  ASSUME NEW g \in Seq(ListNode), NEW x \in ListNode
  PROVE  ToSet(Append(g, x)) = ToSet(g) \cup {x}
<1> DEFINE h == Append(g, x)
<1>1. /\ Len(g) \in Nat /\ DOMAIN g = 1 .. Len(g) /\ DOMAIN h = 1 .. Len(g) + 1
      /\ h[Len(g) + 1] = x /\ \A i \in 1 .. Len(g) : h[i] = g[i]
  OBVIOUS
<1> HIDE DEF h
<1>2. ToSet(h) = ToSet(g) \cup {x}
  BY <1>1 DEF ToSet
<1> QED BY <1>2 DEF h

LEMMA NextKeeps ==
  ASSUME ListTypeOK, IsFiniteSet(listed), NEW s, Shape(s), Iterates(s), list_iterator_next
  PROVE  \E t : ListKeeps(s, t)
<1>1. /\ s \in Seq(ListNode) /\ Len(s) \in Nat
      /\ \A i \in 1 .. Len(s) : /\ prev[s[i]] = IF i = 1 THEN NIL ELSE s[i - 1]
                                /\ nextOf[s[i]] = IF i = Len(s) THEN NIL ELSE s[i + 1]
                                /\ \A j \in 1 .. Len(s) : s[i] = s[j] => i = j
  BY ListLinks DEF Shape
<1>2. UNCHANGED <<headOf, tailOf, len, prev, nextOf, listed>> /\ it.next # NIL
  BY DEF list_iterator_next
<1>3. it.given \in Seq(ListNode) /\ it.direction \in Direction /\ it.next \in NodeOrNil
  BY ListTypes
<1>4. it' = [it EXCEPT !.next = IF it.direction = "LIST_HEAD" THEN nextOf[it.next] ELSE prev[it.next],
                       !.given = Append(it.given, it.next)]
  BY DEF list_iterator_next
<1>5. PICK r : r = Ahead(s)
  OBVIOUS
<1>6. /\ r \in Seq(ListNode) /\ Len(r) = Len(s) /\ \A i \in 1 .. Len(s) : r[i] \in ListNode
  BY <1>5, AheadIs
<1>7. PICK k \in 1 .. Len(s) + 1 : AtNode(r, k)
  BY <1>5 DEF Iterates
<1>8. k \in 1 .. Len(s) /\ it.next = r[k]
  BY <1>1, <1>2, <1>6, <1>7 DEF AtNode
<1>9. /\ r = IF it.direction = "LIST_HEAD" THEN s ELSE Reverse(s)
      /\ \A i \in 1 .. Len(s) : Reverse(s)[i] = s[(Len(s) - i) + 1]
  BY <1>1, <1>5, ReverseIs DEF Ahead
<1>10. (IF it.direction = "LIST_HEAD" THEN nextOf[r[k]] ELSE prev[r[k]]) =
         IF k = Len(s) THEN NIL ELSE r[k + 1]
  <2>1. CASE it.direction = "LIST_HEAD"
    BY <1>1, <1>8, <1>9, <2>1
  <2>2. CASE it.direction # "LIST_HEAD"
    <3> DEFINE j == (Len(s) - k) + 1
    <3>1. j \in 1 .. Len(s) /\ (j = 1 <=> k = Len(s))
          /\ (k # Len(s) => k + 1 \in 1 .. Len(s) /\ (Len(s) - (k + 1)) + 1 = j - 1)
      BY <1>1, <1>8
    <3>2. r[k] = s[j] /\ (k # Len(s) => r[k + 1] = s[j - 1])
      BY <1>8, <1>9, <2>2, <3>1
    <3> HIDE DEF j
    <3> QED BY <1>1, <2>2, <3>1, <3>2
  <2> QED BY <2>1, <2>2
<1>11. \A i, j \in 1 .. Len(s) : r[i] = r[j] => i = j
  <2>1. CASE it.direction = "LIST_HEAD"
    BY <1>1, <1>9, <2>1
  <2>2. CASE it.direction # "LIST_HEAD"
    <3> SUFFICES ASSUME NEW i \in 1 .. Len(s), NEW j \in 1 .. Len(s), r[i] = r[j] PROVE i = j
      OBVIOUS
    <3> DEFINE a == (Len(s) - i) + 1
               b == (Len(s) - j) + 1
    <3>1. a \in 1 .. Len(s) /\ b \in 1 .. Len(s) /\ (a = b => i = j)
      BY <1>1
    <3>2. r[i] = s[a] /\ r[j] = s[b]
      BY <1>9, <2>2
    <3> HIDE DEF a, b
    <3>3. a = b
      <4>1. \A x, y \in 1 .. Len(s) : s[x] = s[y] => x = y
        BY <1>1
      <4>2. s[a] = s[b]
        BY <3>2
      <4> QED BY ONLY <3>1, <4>1, <4>2, Zenon
    <3> QED BY <3>1, <3>3
  <2> QED BY <2>1, <2>2
<1>12. /\ it'.next = IF k = Len(s) THEN NIL ELSE r[k + 1]
       /\ it'.direction = it.direction /\ it'.given = Append(it.given, r[k])
  <2>1. it'.next = IF it.direction = "LIST_HEAD" THEN nextOf[it.next] ELSE prev[it.next]
    BY <1>4, ListTypes DEF ListTypeOK
  <2> QED BY <1>4, <1>8, <1>10, <2>1
<1>13. ToSet(it'.given) = ToSet(it.given) \cup {r[k]}
  BY <1>3, <1>6, <1>8, <1>12, SetOfMore
<1>14. AtNode(r, k + 1)'
  <2>1. it'.next = IF k + 1 = Len(r) + 1 THEN NIL ELSE r[k + 1]
    BY <1>1, <1>6, <1>8, <1>12
  <2>2. ASSUME NEW i \in 1 .. Len(r) PROVE i < k + 1 <=> r[i] \in ToSet(it'.given)
    <3>1. i < k <=> r[i] \in ToSet(it.given)
      BY <1>7 DEF AtNode
    <3>2. r[i] = r[k] <=> i = k
      BY <1>6, <1>8, <1>11
    <3> QED BY <1>1, <1>6, <1>8, <1>13, <3>1, <3>2
  <2> QED BY <2>1, <2>2 DEF AtNode
<1>15. Iterates(s)'
  <2>1. Ahead(s)' = r
    BY <1>9, <1>12 DEF Ahead
  <2>2. k + 1 \in 1 .. Len(s) + 1
    BY <1>1, <1>8
  <2> QED BY <1>14, <2>1, <2>2 DEF Iterates
<1>16. ListTypeOK'
  <2>1. it'.next \in NodeOrNil /\ it'.direction \in Direction /\ it'.given \in Seq(ListNode)
    <3>1. k # Len(s) => k + 1 \in 1 .. Len(s)
      BY <1>1, <1>8
    <3> QED BY <1>3, <1>6, <1>8, <1>12, <3>1 DEF NodeOrNil
  <2> QED BY <1>2, <2>1 DEF ListTypeOK
<1>17. Shape(s)' /\ IsFiniteSet(listed')
  BY <1>2 DEF Shape
<1>18. ListKeeps(s, s)
  BY <1>15, <1>16, <1>17 DEF ListKeeps, ListStep
<1> QED BY <1>18

LEMMA ListSteps ==
  ASSUME ListTypeOK, IsFiniteSet(listed), NEW s, Shape(s), Iterates(s), [ListNext]_listVars
  PROVE  \E t : ListKeeps(s, t)
<1>1. ASSUME NEW n \in ListNode, list_rpush(n) PROVE \E t : ListKeeps(s, t)
  BY <1>1, RpushKeeps
<1>2. ASSUME NEW n \in ListNode, list_lpush(n) PROVE \E t : ListKeeps(s, t)
  BY <1>2, LpushKeeps
<1>3. ASSUME NEW n \in ListNode, list_remove(n) PROVE \E t : ListKeeps(s, t)
  BY <1>3, RemoveKeeps
<1>4. CASE list_rpop
  BY <1>4, RpopKeeps
<1>5. CASE list_lpop
  BY <1>5, LpopKeeps
<1>6. ASSUME NEW d \in Direction, list_iterator_new(d) PROVE \E t : ListKeeps(s, t)
  BY <1>6, NewKeeps
<1>7. CASE list_iterator_next
  BY <1>7, NextKeeps
<1>8. CASE UNCHANGED listVars
  <2>1. ListTypeOK' /\ IsFiniteSet(listed') /\ Shape(s)'
    BY <1>8 DEF listVars, ListTypeOK, Shape
  <2>2. Iterates(s)'
    BY <1>8 DEF listVars, Iterates, AtNode, Ahead
  <2>3. ListKeeps(s, s)
    BY <2>1, <2>2 DEF ListKeeps, ListStep
  <2> QED BY <2>3
<1> QED BY <1>1, <1>2, <1>3, <1>4, <1>5, <1>6, <1>7, <1>8 DEF ListNext

LEMMA ListInvariant == ListSpec => []ListInv
<1>1. ListInit => ListInv
  BY ListInitInv
<1>2. ListInv /\ [ListNext]_listVars => ListInv'
  <2> SUFFICES ASSUME ListInv, [ListNext]_listVars PROVE ListInv'
    OBVIOUS
  <2>1. PICK s : Shape(s) /\ Iterates(s)
    BY DEF ListInv
  <2>2. PICK t : ListKeeps(s, t)
    BY <2>1, ListSteps DEF ListInv
  <2> QED BY <2>2 DEF ListInv, ListKeeps
<1> QED BY <1>1, <1>2, PTL DEF ListSpec

\* Whatever calls of iot_list.c a task makes, in any order and with any number
\* of nodes, the pointers of the list point at nodes or are NULL, and len is the
\* number of the nodes pushed and not yet taken out.
THEOREM ListTypeCorrect == ListSpec => []ListTypeOK
<1>1. ListInv => ListTypeOK
  BY DEF ListInv
<1> QED BY <1>1, ListInvariant, PTL

\* Walking the list by next from head, or by prev from tail, meets exactly the
\* nodes that are in it, in opposite orders, and an iterator gives each of them
\* once though the node it gave last is removed meanwhile.
THEOREM WalksAreCorrect == ListSpec => []WalksCorrect
  BY InvWalks, ListInvariant, PTL

\* The sequence the links spell is what a walk from head meets.
LEMMA ForwardIs == \A s : Shape(s) /\ ListTypeOK => Forward = s
  BY WalksAre

\* The pointer surgery of list_rpush, list_lpush, list_rpop, list_lpop and
\* list_remove implements a sequence: every call is one step of ListSeq on the
\* nodes a walk from head meets, or leaves them.
THEOREM ListImplementsSequence == ListSpec => ListIsSequence
<1>1. ListInit => Sequence!Init
  <2> SUFFICES ASSUME ListInit PROVE Forward = <<>>
    BY DEF Sequence!Init
  <2>1. PICK s : Shape(s) /\ ListTypeOK
    BY ListInitInv DEF ListInv
  <2>2. Forward = s
    BY <2>1, WalksAre
  <2>3. Len(s) = 0 /\ s \in Seq(ListNode)
    BY <2>1 DEF Shape, ListInit
  <2> QED BY <2>2, <2>3, EmptySeq
<1>2. (\A s : Shape(s) /\ ListTypeOK => Forward = s)'
  BY ForwardIs, PTL
<1>3. ListInv /\ [ListNext]_listVars => [Sequence!Next]_Forward
  <2> SUFFICES ASSUME ListInv, [ListNext]_listVars PROVE Sequence!Next \/ Forward' = Forward
    OBVIOUS
  <2>1. PICK s : Shape(s) /\ Iterates(s)
    BY DEF ListInv
  <2>2. PICK t : ListKeeps(s, t)
    BY <2>1, ListSteps DEF ListInv
  <2>3. Forward = s
    BY <2>1, WalksAre DEF ListInv
  <2>4. Forward' = t
    BY <1>2, <2>2 DEF ListKeeps
  <2> HIDE DEF Forward
  <2> QED BY <2>2, <2>3, <2>4 DEF ListKeeps, ListStep, Sequence!Next, Sequence!Push, Sequence!Pop, Sequence!Delete,
                                       Sequence!ToSet, ToSet, Sequence!Front, Front, Sequence!RemoveAt, RemoveAt
<1> QED BY <1>1, <1>3, ListInvariant, PTL DEF ListSpec, ListIsSequence, Sequence!Spec

-----------------------------------------------------------------------------
(* The parts together: MC_Platform *)

\* An execution of all parts is one of each of them: a step of one part leaves
\* the variables of the others alone.
LEMMA PartsInit ==
  Init => AtInit /\ RingInit /\ NmeaInit /\ ListInit /\ TimerInit /\ RemLenInit /\ CloudInit
BY DEF Init

LEMMA PartsNext ==
  [Next]_vars => /\ [AtNext]_atVars /\ [RingNext]_ringVars /\ [NmeaNext]_nmeaVars
                 /\ [ListNext]_listVars /\ [TimerNext]_timerVars /\ [UNCHANGED length]_length
                 /\ [CloudNext]_cloudVars
BY DEF Next, vars

LEMMA PartsSpec ==
  Spec => /\ AtSpec /\ RingSpec /\ NmeaSpec /\ ListSpec /\ TimerSpec /\ RemLenSpec /\ CloudSpec
BY PartsInit, PartsNext, PTL
DEF Spec, AtSpec, RingSpec, NmeaSpec, ListSpec, TimerSpec, RemLenSpec, CloudSpec

LEMMA TimerTypeCorrect == TimerSpec => []TimerTypeOK
<1>1. TimerInv => TimerTypeOK
  BY DEF TimerInv
<1> QED BY <1>1, TimerInvariant, PTL

\* Every variable of the small parts has its type in every execution of the
\* module that runs them, for every size, width and number.
THEOREM PlatformTypeCorrect == Spec => []TypeOK
<1>1. AtTypeOK /\ RingTypeOK /\ NmeaTypeOK /\ ListTypeOK /\ TimerTypeOK /\ CloudTypeOK => TypeOK
  BY DEF TypeOK
<1> QED BY <1>1, PartsSpec, AtTypeCorrect, RingTypeCorrect, NmeaTypeCorrect, ListTypeCorrect,
           TimerTypeCorrect, CloudTypeCorrect, PTL
=============================================================================
