-------------------------- MODULE CloudRecv_proofs --------------------------
(***************************************************************************)
(* Theorems about CloudRecv, for every size of recv_buf, every sequence of *)
(* packets and every place at which a poll may end: what a round           *)
(* dispatches, why it may run into undefined behaviour, that it ends, and  *)
(* that the link it reads is the stream the receive ring implements.       *)
(***************************************************************************)
EXTENDS CloudRecv, SequenceTheorems, TLAPS

-----------------------------------------------------------------------------
(* The packets *)

\* The n characters above base.
IsText(t, base, n) ==
  t \in Seq(Nat) /\ Len(t) = n /\ \A i \in 1 .. n : t[i] = base + i

LEMMA TextIs ==
  ASSUME NEW base \in Nat, NEW n \in Nat
  PROVE  IsText(Text(base, n), base, n)
  BY DEF Text, IsText

\* c is a with b behind it.
IsJoin(c, a, b) ==
  /\ Len(c) = Len(a) + Len(b)
  /\ \A i \in 1 .. Len(a) : c[i] = a[i]
  /\ \A i \in 1 .. Len(b) : c[Len(a) + i] = b[i]

LEMMA Joined ==
  ASSUME NEW S, NEW a \in Seq(S), NEW b \in Seq(S)
  PROVE  a \o b \in Seq(S) /\ IsJoin(a \o b, a, b)
<1>1. /\ a \o b \in Seq(S) /\ Len(a \o b) = Len(a) + Len(b)
      /\ \A i \in 1 .. Len(a) + Len(b) : (a \o b)[i] = IF i <= Len(a) THEN a[i] ELSE b[i - Len(a)]
  BY ConcatProperties
<1>2. Len(a) \in Nat /\ Len(b) \in Nat
  OBVIOUS
<1> DEFINE c == a \o b
<1> HIDE DEF c
<1>3. ASSUME NEW i \in 1 .. Len(b) PROVE c[Len(a) + i] = b[i]
  <2>1. Len(a) + i \in 1 .. Len(a) + Len(b) /\ ~(Len(a) + i <= Len(a)) /\ Len(a) + i - Len(a) = i
    BY <1>2
  <2> QED BY <1>1, <2>1 DEF c
<1>4. ASSUME NEW i \in 1 .. Len(a) PROVE c[i] = a[i]
  <2>1. i \in 1 .. Len(a) + Len(b) /\ i <= Len(a)
    BY <1>2
  <2> QED BY <1>1, <2>1 DEF c
<1> QED BY <1>1, <1>3, <1>4 DEF c, IsJoin

\* w is a PUBLISH packet with the n characters above base as its topic.
IsPublish(w, base, n, body) ==
  /\ w \in Seq(Nat) /\ Len(w) = 4 + n + Len(body)
  /\ w[1] = 48 /\ w[2] = 2 + n + Len(body) /\ w[3] = 0 /\ w[4] = n
  /\ \A i \in 1 .. n : w[4 + i] = base + i
  /\ \A i \in 1 .. Len(body) : w[4 + n + i] = body[i]

LEMMA PublishIs ==
  ASSUME NEW base \in Nat, NEW n \in Nat, NEW topic, IsText(topic, base, n), NEW body \in Seq(Nat)
  PROVE  IsPublish(Publish(topic, body), base, n, body)
<1>1. topic \in Seq(Nat) /\ Len(topic) = n /\ \A i \in 1 .. n : topic[i] = base + i
  BY DEF IsText
<1> DEFINE head == <<48, 2 + Len(topic) + Len(body), 0, Len(topic)>>
           first == head \o topic
           whole == first \o body
<1>2. Len(body) \in Nat
  OBVIOUS
<1>3. /\ head \in Seq(Nat) /\ Len(head) = 4
      /\ head[1] = 48 /\ head[2] = 2 + n + Len(body) /\ head[3] = 0 /\ head[4] = n
  BY <1>1, <1>2
<1> HIDE DEF head
<1>4. first \in Seq(Nat) /\ IsJoin(first, head, topic)
  BY <1>1, <1>3, Joined
<1> HIDE DEF first
<1>5. whole \in Seq(Nat) /\ IsJoin(whole, first, body)
  BY <1>4, Joined
<1>6. Publish(topic, body) = whole
  BY DEF Publish, whole, first, head
<1> HIDE DEF whole
<1>7. /\ Len(first) = 4 + n
      /\ \A i \in 1 .. 4 : first[i] = head[i]
      /\ \A i \in 1 .. n : first[4 + i] = base + i
  <2>1. Len(first) = 4 + n /\ \A i \in 1 .. 4 : first[i] = head[i]
    BY <1>1, <1>3, <1>4 DEF IsJoin
  <2>2. \A i \in 1 .. n : first[4 + i] = topic[i]
    BY <1>1, <1>3, <1>4 DEF IsJoin
  <2> QED BY <1>1, <2>1, <2>2
<1>8. /\ Len(whole) = 4 + n + Len(body)
      /\ \A i \in 1 .. 4 + n : whole[i] = first[i]
      /\ \A i \in 1 .. Len(body) : whole[4 + n + i] = body[i]
  BY <1>5, <1>7 DEF IsJoin
<1>9. \A i \in 1 .. n : whole[4 + i] = base + i
  BY <1>7, <1>8
<1>10. whole[1] = 48 /\ whole[2] = 2 + n + Len(body) /\ whole[3] = 0 /\ whole[4] = n
  BY <1>3, <1>7, <1>8
<1> QED BY <1>5, <1>6, <1>8, <1>9, <1>10 DEF IsPublish

\* The bodies, one byte at a time.
OtaBody(body) ==
  /\ body \in Seq(Nat) /\ Len(body) = 31
  /\ body[1] = 0 /\ body[2] = 0 /\ body[3] = 0 /\ body[4] = 3 /\ body[5] = 2 /\ body[6] = 17
  /\ body[7] = 1 /\ body[8] = 0 /\ body[9] = 22
  /\ \A i \in 1 .. 9 : body[i] \in 0 .. 207
  /\ \A i \in 10 .. 31 : body[i] = 803 + i

LEMMA OtaBodyIs == OtaBody(Body.OTA)
<1> DEFINE head == <<0, 0, 0, 3, 2, 17, 1, 0, 22>>
           text == Text(812, 22)
           body == head \o text
<1>1. IsText(text, 812, 22)
  BY TextIs
<1>2. /\ head \in Seq(Nat) /\ Len(head) = 9
      /\ head[1] = 0 /\ head[2] = 0 /\ head[3] = 0 /\ head[4] = 3 /\ head[5] = 2 /\ head[6] = 17
      /\ head[7] = 1 /\ head[8] = 0 /\ head[9] = 22
      /\ \A i \in 1 .. 9 : head[i] \in 0 .. 207
  OBVIOUS
<1>3. Body.OTA = body
  BY DEF Body
<1> HIDE DEF head, text
<1>4. body \in Seq(Nat) /\ IsJoin(body, head, text)
  BY <1>1, <1>2, Joined DEF IsText
<1> HIDE DEF body
<1>5. /\ Len(body) = 31
      /\ \A i \in 1 .. 9 : body[i] = head[i]
      /\ \A i \in 1 .. 22 : body[9 + i] = 812 + i
  BY <1>1, <1>2, <1>4 DEF IsJoin, IsText
<1>6. ASSUME NEW i \in 10 .. 31 PROVE body[i] = 803 + i
  <2>1. i - 9 \in 1 .. 22 /\ 9 + (i - 9) = i /\ 812 + (i - 9) = 803 + i
    OBVIOUS
  <2> QED BY <1>5, <2>1
<1> QED BY <1>2, <1>3, <1>4, <1>5, <1>6 DEF OtaBody

LEMMA WireIs ==
  /\ Wire["PINGRESP"] = <<208, 0>>
  /\ Wire["SUBACK"] = <<144, 3, 0, 2, 0>>
  /\ IsPublish(Wire["ONLINE"], 300, 34, <<0, 0, 0, 3, 2, 16, 0, 1>>)
  /\ IsPublish(Wire["OTA"], 300, 34, Body.OTA)
  /\ IsPublish(Wire["CONTROL"], 556, 54, <<0, 0, 0, 3, 4, 0, 0, 144, 2>>)
  /\ IsPublish(Wire["TRANS"], 556, 54, <<0, 0, 0, 3, 10, 0, 0, 147, 0, 0, 0, 0, 1, 1, 1>>)
<1>1. Wire["PINGRESP"] = <<208, 0>> /\ Wire["SUBACK"] = <<144, 3, 0, 2, 0>>
  BY DEF Wire, Kinds, Body
<1>2. /\ Wire["ONLINE"] = Publish(Ser2cli, Body.ONLINE) /\ Wire["OTA"] = Publish(Ser2cli, Body.OTA)
      /\ Wire["CONTROL"] = Publish(App2dev, Body.CONTROL)
      /\ Wire["TRANS"] = Publish(App2dev, Body.TRANS)
  BY DEF Wire, Kinds
<1>3. /\ Body.ONLINE = <<0, 0, 0, 3, 2, 16, 0, 1>>
      /\ Body.CONTROL = <<0, 0, 0, 3, 4, 0, 0, 144, 2>>
      /\ Body.TRANS = <<0, 0, 0, 3, 10, 0, 0, 147, 0, 0, 0, 0, 1, 1, 1>>
  BY DEF Body
<1>4. /\ Body.ONLINE \in Seq(Nat) /\ Body.CONTROL \in Seq(Nat) /\ Body.TRANS \in Seq(Nat)
      /\ Body.OTA \in Seq(Nat)
  BY <1>3, OtaBodyIs, SMTT(30) DEF OtaBody
<1>5. IsText(Ser2cli, 300, 34) /\ IsText(App2dev, 556, 54)
  BY TextIs DEF Ser2cli, App2dev
<1>6. IsPublish(Wire["ONLINE"], 300, 34, Body.ONLINE)
  BY <1>2, <1>4, <1>5, PublishIs
<1>7. IsPublish(Wire["OTA"], 300, 34, Body.OTA)
  BY <1>2, <1>4, <1>5, PublishIs
<1>8. IsPublish(Wire["CONTROL"], 556, 54, Body.CONTROL)
  BY <1>2, <1>4, <1>5, PublishIs
<1>9. IsPublish(Wire["TRANS"], 556, 54, Body.TRANS)
  BY <1>2, <1>4, <1>5, PublishIs
<1> QED BY <1>1, <1>3, <1>6, <1>7, <1>8, <1>9

\* How long each packet is, and where the first bytes the code looks for are.
PacketLen == [PINGRESP |-> 2, SUBACK |-> 5, ONLINE |-> 46, OTA |-> 69, CONTROL |-> 67, TRANS |-> 73]

IsWire(k, w) ==
  /\ w \in Seq(Nat) /\ Len(w) = PacketLen[k]
  /\ \A j \in 1 .. PacketLen[k] :
       /\ w[j] = 208 => k = "PINGRESP" /\ j = 1
       /\ w[j] = 301 => k \in {"ONLINE", "OTA"} /\ j = 5
       /\ w[j] = 557 => k \in {"CONTROL", "TRANS"} /\ j = 5
  /\ k \in {"ONLINE", "OTA"} => \A i \in 1 .. 34 : w[4 + i] = 300 + i
  /\ k \in {"CONTROL", "TRANS"} => \A i \in 1 .. 54 : w[4 + i] = 556 + i
  /\ k \notin {"PINGRESP", "SUBACK"} => w[1] = 48 /\ w[2] \in 1 .. 127

\* w has no byte 208, and of the topics' first characters only base's.
NoneOther(w, base) ==
  \A j \in 1 .. Len(w) : w[j] # 208 /\ (w[j] \in {301, 557} => w[j] = base + 1 /\ j = 5)

Plain(body) == Len(body) <= 31 /\ \A i \in 1 .. Len(body) : body[i] \notin {208, 301, 557}

LEMMA PublishBytes ==
  ASSUME NEW w, NEW base \in Nat, base = 300 \/ base = 556, NEW n \in Nat, n <= 54,
         NEW body \in Seq(Nat), IsPublish(w, base, n, body), Plain(body)
  PROVE  NoneOther(w, base)
<1>1. Len(body) \in Nat /\ Len(body) <= 31 /\ Len(w) = 4 + n + Len(body)
  BY DEF IsPublish, Plain
<1> SUFFICES ASSUME NEW j \in 1 .. Len(w)
             PROVE  w[j] # 208 /\ (w[j] \in {301, 557} => w[j] = base + 1 /\ j = 5)
  BY DEF NoneOther
<1>2. CASE j \in 1 .. 4
  <2>1. w[j] \in {48, 2 + n + Len(body), 0, n}
    BY <1>1, <1>2, SMTT(30) DEF IsPublish
  <2> QED BY <1>1, <1>2, <2>1
<1>3. ASSUME NEW i \in 1 .. n, j = 4 + i
      PROVE  w[j] # 208 /\ (w[j] \in {301, 557} => w[j] = base + 1 /\ j = 5)
  <2>1. w[j] = base + i
    BY <1>3 DEF IsPublish
  <2> QED BY <1>3, <2>1
<1>4. ASSUME NEW i \in 1 .. Len(body), j = 4 + n + i
      PROVE  w[j] # 208 /\ (w[j] \in {301, 557} => w[j] = base + 1 /\ j = 5)
  <2>1. w[j] = body[i]
    BY <1>4 DEF IsPublish
  <2> QED BY <2>1 DEF Plain
<1>5. \/ j \in 1 .. 4
      \/ j - 4 \in 1 .. n /\ j = 4 + (j - 4)
      \/ j - (4 + n) \in 1 .. Len(body) /\ j = 4 + n + (j - (4 + n))
  BY <1>1
<1> QED BY <1>2, <1>3, <1>4, <1>5

LEMMA OtaPlain ==
  ASSUME NEW body, OtaBody(body)
  PROVE  Plain(body)
<1>1. Len(body) = 31 /\ \A i \in 1 .. 9 : body[i] \in 0 .. 207
  BY DEF OtaBody
<1>2. \A i \in 10 .. 31 : body[i] = 803 + i
  BY DEF OtaBody
<1>3. ASSUME NEW i \in 1 .. 31 PROVE body[i] \notin {208, 301, 557}
  <2>1. CASE i \in 1 .. 9
    <3>1. body[i] \in 0 .. 207
      BY <1>1, <2>1
    <3> QED BY <3>1
  <2>2. CASE i \in 10 .. 31
    <3>1. body[i] = 803 + i
      BY <1>2, <2>2
    <3> QED BY <2>2, <3>1
  <2> QED BY <2>1, <2>2
<1> QED BY <1>1, <1>3 DEF Plain

LEMMA WireIsWire == \A k \in Kinds : IsWire(k, Wire[k])
<1>1. IsWire("PINGRESP", Wire["PINGRESP"])
  BY WireIs DEF IsWire, PacketLen
<1>2. IsWire("SUBACK", Wire["SUBACK"])
  BY WireIs DEF IsWire, PacketLen
<1>3. IsWire("ONLINE", Wire["ONLINE"])
  <2> DEFINE w == Wire["ONLINE"]
             body == <<0, 0, 0, 3, 2, 16, 0, 1>>
  <2>1. body \in Seq(Nat) /\ Len(body) = 8 /\ Plain(body)
    BY DEF Plain
  <2>2. IsPublish(w, 300, 34, body)
    BY WireIs
  <2> HIDE DEF w, body
  <2>3. NoneOther(w, 300)
    BY <2>1, <2>2, PublishBytes
  <2>4. /\ w \in Seq(Nat) /\ Len(w) = 46 /\ w[1] = 48 /\ w[2] = 44
        /\ \A i \in 1 .. 34 : w[4 + i] = 300 + i
    BY <2>1, <2>2 DEF IsPublish
  <2>5. IsWire("ONLINE", w)
    <3>1. PacketLen["ONLINE"] = 46
      BY DEF PacketLen
    <3> QED BY <2>3, <2>4, <3>1 DEF IsWire, NoneOther
  <2> QED BY <2>5 DEF w
<1>4. IsWire("OTA", Wire["OTA"])
  <2> DEFINE w == Wire["OTA"]
             body == Body.OTA
  <2>1. body \in Seq(Nat) /\ Len(body) = 31 /\ Plain(body)
    BY OtaBodyIs, OtaPlain, ZenonT(30) DEF OtaBody
  <2>2. IsPublish(w, 300, 34, body)
    BY WireIs
  <2> HIDE DEF w, body
  <2>3. NoneOther(w, 300)
    BY <2>1, <2>2, PublishBytes
  <2>4. /\ w \in Seq(Nat) /\ Len(w) = 69 /\ w[1] = 48 /\ w[2] = 67
        /\ \A i \in 1 .. 34 : w[4 + i] = 300 + i
    BY <2>1, <2>2 DEF IsPublish
  <2>5. IsWire("OTA", w)
    <3>1. PacketLen["OTA"] = 69
      BY DEF PacketLen
    <3> QED BY <2>3, <2>4, <3>1 DEF IsWire, NoneOther
  <2> QED BY <2>5 DEF w
<1>5. IsWire("CONTROL", Wire["CONTROL"])
  <2> DEFINE w == Wire["CONTROL"]
             body == <<0, 0, 0, 3, 4, 0, 0, 144, 2>>
  <2>1. body \in Seq(Nat) /\ Len(body) = 9 /\ Plain(body)
    BY DEF Plain
  <2>2. IsPublish(w, 556, 54, body)
    BY WireIs
  <2> HIDE DEF w, body
  <2>3. NoneOther(w, 556)
    BY <2>1, <2>2, PublishBytes
  <2>4. /\ w \in Seq(Nat) /\ Len(w) = 67 /\ w[1] = 48 /\ w[2] = 65
        /\ \A i \in 1 .. 54 : w[4 + i] = 556 + i
    BY <2>1, <2>2 DEF IsPublish
  <2>5. IsWire("CONTROL", w)
    <3>1. PacketLen["CONTROL"] = 67
      BY DEF PacketLen
    <3> QED BY <2>3, <2>4, <3>1 DEF IsWire, NoneOther
  <2> QED BY <2>5 DEF w
<1>6. IsWire("TRANS", Wire["TRANS"])
  <2> DEFINE w == Wire["TRANS"]
             body == <<0, 0, 0, 3, 10, 0, 0, 147, 0, 0, 0, 0, 1, 1, 1>>
  <2>1. body \in Seq(Nat) /\ Len(body) = 15 /\ Plain(body)
    BY DEF Plain
  <2>2. IsPublish(w, 556, 54, body)
    BY WireIs
  <2> HIDE DEF w, body
  <2>3. NoneOther(w, 556)
    BY <2>1, <2>2, PublishBytes
  <2>4. /\ w \in Seq(Nat) /\ Len(w) = 73 /\ w[1] = 48 /\ w[2] = 71
        /\ \A i \in 1 .. 54 : w[4 + i] = 556 + i
    BY <2>1, <2>2 DEF IsPublish
  <2>5. IsWire("TRANS", w)
    <3>1. PacketLen["TRANS"] = 73
      BY DEF PacketLen
    <3> QED BY <2>3, <2>4, <3>1 DEF IsWire, NoneOther
  <2> QED BY <2>5 DEF w
<1> QED BY <1>1, <1>2, <1>3, <1>4, <1>5, <1>6 DEF Kinds

-----------------------------------------------------------------------------
(* Sequences *)

\* t is s from behind its first a elements to its b-th.
IsSlice(t, s, a, b) == Len(t) = b - a /\ \A i \in 1 .. b - a : t[i] = s[a + i]

LEMMA SliceIs ==
  ASSUME NEW S, NEW s \in Seq(S), NEW a \in Nat, NEW b \in 0 .. Len(s), a <= b
  PROVE  SubSeq(s, a + 1, b) \in Seq(S) /\ IsSlice(SubSeq(s, a + 1, b), s, a, b)
<1>1. a + 1 \in Int /\ b \in Int /\ Len(s) \in Nat
  OBVIOUS
<1>2. \A i \in a + 1 .. b : s[i] \in S
  OBVIOUS
<1> DEFINE t == SubSeq(s, a + 1, b)
<1>3. /\ t \in Seq(S)
      /\ Len(t) = IF a + 1 <= b THEN b - (a + 1) + 1 ELSE 0
      /\ \A i \in 1 .. b - (a + 1) + 1 : t[i] = s[a + 1 + i - 1]
  BY <1>1, <1>2, SubSeqProperties
<1> HIDE DEF t
<1>4. b - (a + 1) + 1 = b - a /\ (~(a + 1 <= b) => b - a = 0)
  BY <1>1
<1>5. \A i \in 1 .. b - a : a + 1 + i - 1 = a + i
  BY <1>1
<1>6. Len(t) = b - a /\ \A i \in 1 .. b - a : t[i] = s[a + i]
  BY <1>3, <1>4, <1>5
<1> QED BY <1>3, <1>6 DEF t, IsSlice

\* What memcpy makes of the r bytes in s when n of them are dropped.
IsShift(t, s, n, r) == Len(t) = Len(s) /\ \A i \in 1 .. r - n : t[i] = s[n + i]

LEMMA Shifted ==
  ASSUME NEW S, NEW s \in Seq(S), NEW n \in Nat, NEW r \in 0 .. Len(s), n <= r
  PROVE  LET t == SubSeq(s, n + 1, r) \o SubSeq(s, r - n + 1, Len(s))
         IN  t \in Seq(S) /\ IsShift(t, s, n, r)
<1> DEFINE a == SubSeq(s, n + 1, r)
           b == SubSeq(s, r - n + 1, Len(s))
           t == a \o b
<1>1. Len(s) \in Nat /\ r \in Nat /\ r - n \in Nat /\ r - n <= Len(s) /\ Len(s) \in 0 .. Len(s)
  OBVIOUS
<1>2. a \in Seq(S) /\ IsSlice(a, s, n, r)
  BY SliceIs
<1>3. b \in Seq(S) /\ IsSlice(b, s, r - n, Len(s))
  BY <1>1, SliceIs
<1> HIDE DEF a, b
<1>4. t \in Seq(S) /\ IsJoin(t, a, b)
  BY <1>2, <1>3, Joined
<1> HIDE DEF t
<1>5. Len(a) = r - n /\ Len(b) = Len(s) - (r - n) /\ \A i \in 1 .. r - n : a[i] = s[n + i]
  BY <1>2, <1>3 DEF IsSlice
<1>6. Len(t) = Len(s) /\ \A i \in 1 .. r - n : t[i] = s[n + i]
  BY <1>1, <1>4, <1>5 DEF IsJoin
<1> QED BY <1>4, <1>6 DEF IsShift, t, a, b

LEMMA FunIsSeq ==
  ASSUME NEW S, NEW n \in Nat, NEW f \in [1 .. n -> S]
  PROVE  f \in Seq(S) /\ Len(f) = n
  OBVIOUS

\* The bytes of w, which are those of packet n.
BytesOf(w, n) == [j \in DOMAIN w |-> <<w[j], n>>]

LEMMA SentBytes ==
  ASSUME NEW n \in Nat, NEW b \in Seq(Nat \X (1 .. n)), NEW w \in Seq(Nat)
  PROVE  LET t == BytesOf(w, n + 1) IN
         /\ b \o t \in Seq(Nat \X (1 .. n + 1)) /\ IsJoin(b \o t, b, t)
         /\ Len(t) = Len(w) /\ \A j \in 1 .. Len(w) : t[j] = <<w[j], n + 1>>
<1> DEFINE S == Nat \X (1 .. n + 1)
           t == BytesOf(w, n + 1)
<1>1. Len(w) \in Nat /\ DOMAIN w = 1 .. Len(w) /\ \A j \in 1 .. Len(w) : w[j] \in Nat
  OBVIOUS
<1>2. \A j \in 1 .. Len(w) : <<w[j], n + 1>> \in S
  BY <1>1
<1>3. Nat \X (1 .. n) \subseteq S
  OBVIOUS
<1> HIDE DEF S
<1>4. t \in [1 .. Len(w) -> S] /\ \A j \in 1 .. Len(w) : t[j] = <<w[j], n + 1>>
  BY <1>1, <1>2 DEF BytesOf
<1> HIDE DEF t
<1>5. t \in Seq(S) /\ Len(t) = Len(w)
  BY <1>1, <1>4, FunIsSeq
<1>6. b \in Seq(S)
  BY <1>3
<1>7. b \o t \in Seq(S) /\ IsJoin(b \o t, b, t)
  BY <1>5, <1>6, Joined
<1> QED BY <1>4, <1>5, <1>7 DEF S, t

-----------------------------------------------------------------------------
(* Types *)

Byte == Nat \X Nat

\* The types, and that readn fills recv_buf from its beginning.
TypeInv == TypeOK /\ (pc = "readn" => Len(recv_buf) = recv_len)

LEMMA TypeInit == Init => TypeInv
<1> SUFFICES ASSUME Init PROVE TypeInv
  OBVIOUS
<1>1. \A S : <<>> \in Seq(S)
  OBVIOUS
<1>2. Len(<<>>) = 0 /\ <<>> \in [1 .. 0 -> Nat]
  OBVIOUS
<1>3. sent \in Seq(Kinds) /\ Len(sent) = 0 /\ bytes \in Seq(Nat \X (1 .. Len(sent))) /\ Total = 0
  BY <1>1, <1>2 DEF Init, Total
<1>4. ends \in [1 .. Len(sent) -> Nat] /\ recv_buf \in Seq(Nat \X Nat) /\ Len(recv_buf) = 0
  BY <1>1, <1>2, <1>3 DEF Init
<1>5. packet \in Seq(Nat \X Nat) /\ Len(packet) = 0 /\ done \in Seq(Nat \X Seq(Nat \X Nat))
  BY <1>1, <1>2 DEF Init
<1> QED BY <1>3, <1>4, <1>5, BoundAssumption DEF Init, TypeInv, TypeOK, GARBAGE

LEMMA TypeSend ==
  ASSUME TypeInv, NEW k \in Kinds, Send(k)
  PROVE  TypeInv'
<1> DEFINE w == Wire[k]
<1>1. w \in Seq(Nat)
  BY WireIsWire DEF IsWire
<1>2. /\ sent \in Seq(Kinds) /\ Len(sent) \in Nat /\ bytes \in Seq(Nat \X (1 .. Len(sent)))
      /\ ends \in [1 .. Len(sent) -> Nat] /\ Len(bytes) \in Nat
  BY DEF TypeInv, TypeOK
<1>3. sent' \in Seq(Kinds) /\ Len(sent') = Len(sent) + 1 /\ Len(sent') <= MaxPackets
  BY <1>2, BoundAssumption DEF Send
<1>4. bytes' \in Seq(Nat \X (1 .. Len(sent'))) /\ Len(bytes') = Len(bytes) + Len(w)
  <2> DEFINE t == BytesOf(w, Len(sent) + 1)
  <2>1. bytes' = bytes \o t
    BY DEF Send, BytesOf
  <2>2. bytes \o t \in Seq(Nat \X (1 .. Len(sent) + 1)) /\ IsJoin(bytes \o t, bytes, t) /\ Len(t) = Len(w)
    BY <1>1, <1>2, SentBytes, Zenon
  <2> HIDE DEF t
  <2> QED BY <1>3, <2>1, <2>2 DEF IsJoin
<1>5. ends' \in [1 .. Len(sent') -> Nat]
  <2>0. ends \in Seq(Nat) /\ Len(ends) = Len(sent)
    BY <1>2, FunIsSeq
  <2>1. Len(bytes) + Len(w) \in Nat
    BY <1>1, <1>2
  <2>2. Append(ends, Len(bytes) + Len(w)) \in Seq(Nat) /\ Len(Append(ends, Len(bytes) + Len(w))) = Len(sent) + 1
    BY <2>0, <2>1, AppendProperties
  <2>3. Append(ends, Len(bytes) + Len(w)) \in [1 .. Len(sent) + 1 -> Nat]
    BY <2>2, LenProperties
  <2> QED BY <1>3, <2>3 DEF Send
<1>6. pos' \in 0 .. Total'
  BY <1>1, <1>2, <1>4 DEF Send, TypeInv, TypeOK, Total
<1> QED BY <1>3, <1>4, <1>5, <1>6 DEF Send, TypeInv, TypeOK

\* What Poll adds to the buffer r: the bytes of b from behind the m-th to the n-th.
IsFill(t, r, b, m, n) ==
  /\ Len(t) = Len(r) + (n - m)
  /\ \A i \in 1 .. Len(r) : t[i] = r[i]
  /\ \A i \in 1 .. n - m : t[Len(r) + i] = b[m + i]

LEMMA Filled ==
  ASSUME NEW r \in Seq(Byte), NEW b \in Seq(Byte), NEW m \in Nat, NEW n \in 0 .. Len(b), m <= n
  PROVE  LET t == r \o SubSeq(b, m + 1, n)
         IN  t \in Seq(Byte) /\ IsFill(t, r, b, m, n)
<1> DEFINE a == SubSeq(b, m + 1, n)
           t == r \o a
<1>1. a \in Seq(Byte) /\ IsSlice(a, b, m, n)
  BY SliceIs
<1> HIDE DEF a
<1>2. t \in Seq(Byte) /\ IsJoin(t, r, a)
  BY <1>1, Joined
<1> HIDE DEF t
<1>3. IsFill(t, r, b, m, n)
  BY <1>1, <1>2 DEF IsSlice, IsJoin, IsFill
<1> QED BY <1>2, <1>3 DEF t, a

\* The state a poll, a fault or a look at the buffer starts from.
LEMMA StateTypes ==
  ASSUME TypeInv
  PROVE  /\ Len(sent) \in Nat /\ Len(bytes) \in Nat /\ bytes \in Seq(Byte)
         /\ pos \in Nat /\ from \in Nat /\ upto \in Nat /\ from <= upto /\ upto <= pos /\ pos <= Len(bytes)
         /\ recv_buf \in Seq(Byte) /\ Len(recv_buf) \in Nat /\ recv_len \in Nat
         /\ recv_len <= Len(recv_buf)
<1>1. Nat \X (1 .. Len(sent)) \subseteq Byte
  BY DEF Byte
<1>2. bytes \in Seq(Nat \X (1 .. Len(sent))) /\ recv_buf \in Seq(Byte)
  BY DEF TypeInv, TypeOK, Byte
<1>3. bytes \in Seq(Byte)
  BY <1>1, <1>2
<1>4. Len(sent) \in Nat /\ Len(bytes) \in Nat /\ Len(recv_buf) \in Nat
  BY <1>2 DEF TypeInv, TypeOK
<1> QED BY <1>2, <1>3, <1>4 DEF TypeInv, TypeOK, Total

LEMMA AtType ==
  ASSUME TypeInv, NEW i \in Nat
  PROVE  At(i) \in Byte /\ Value(i) \in Nat
<1>1. recv_buf \in Seq(Byte) /\ Len(recv_buf) \in Nat
  BY StateTypes
<1>2. At(i) \in Byte
  BY <1>1 DEF At, Zero, Byte
<1> QED BY <1>2 DEF Value, Byte

LEMMA BytesType ==
  ASSUME TypeInv, NEW i \in Nat, NEW n \in Nat
  PROVE  Bytes(i, n) \in Seq(Byte) /\ Len(Bytes(i, n)) = n
<1>1. \A j \in 1 .. n : At(i + j - 1) \in Byte
  BY AtType
<1>2. Bytes(i, n) \in [1 .. n -> Byte]
  BY <1>1 DEF Bytes
<1> QED BY <1>2, FunIsSeq

LEMMA ShiftIs ==
  ASSUME TypeInv, NEW n \in Nat, n <= recv_len, Shift(n)
  PROVE  /\ recv_buf' \in Seq(Byte) /\ IsShift(recv_buf', recv_buf, n, recv_len)
         /\ Len(recv_buf') = Len(recv_buf) /\ recv_len' = recv_len - n
<1>1. recv_buf \in Seq(Byte) /\ recv_len \in 0 .. Len(recv_buf)
  BY StateTypes
<1>2. recv_buf' \in Seq(Byte) /\ IsShift(recv_buf', recv_buf, n, recv_len)
  BY <1>1, Shifted DEF Shift
<1> QED BY <1>2 DEF Shift, IsShift

\* Steps that leave the link's bytes, pos and the round's bounds alone.
SameRound == UNCHANGED <<broker_vars, link, pos, times, from, upto, done>>

LEMMA TypeGet ==
  ASSUME TypeInv, SameRound, pc' \in {"delay", "get", "dispatch"},
         recv_buf' \in Seq(Byte), recv_len' \in 0 .. Len(recv_buf'),
         dead = "no", dead' \in {"no", "memcpy", "length"}, Len(recv_buf') <= Len(recv_buf),
         cmd' \in Nat, one_packet_len' \in Nat, packet' \in Seq(Byte), Len(packet') <= BUF_LEN
  PROVE  TypeInv'
<1>1. Len(recv_buf') <= BUF_LEN
  BY StateTypes, BoundAssumption DEF TypeInv, TypeOK
<1> QED BY <1>1 DEF TypeInv, TypeOK, SameRound, broker_vars, Byte, Total

LEMMA EndType ==
  ASSUME TypeInv, NEW q \in 0 .. Len(sent)
  PROVE  End(q) \in Nat
<1>1. ends \in [1 .. Len(sent) -> Nat] /\ Len(sent) \in Nat
  BY StateTypes DEF TypeInv, TypeOK
<1>2. CASE q = 0
  BY <1>2 DEF End
<1>3. CASE q \in 1 .. Len(sent)
  BY <1>1, <1>3 DEF End
<1> QED BY <1>1, <1>2, <1>3

LEMMA StopsAre ==
  ASSUME TypeInv, NEW n \in Stops(pos) \cup {pos}
  PROVE  n \in Nat /\ pos <= n /\ n <= Len(bytes)
<1>1. pos \in Nat /\ pos <= Len(bytes) /\ Len(bytes) \in Nat
  BY StateTypes
<1>2. CASE n \in Stops(pos)
  <2>1. n \in {Total} \cup {End(q) + c : q \in 0 .. Len(sent), c \in Cuts} /\ pos <= n /\ n <= Total
    BY <1>2 DEF Stops
  <2>2. ASSUME NEW q \in 0 .. Len(sent), NEW c \in Cuts PROVE End(q) + c \in Nat
    <3>1. c \in Nat
      BY BoundAssumption
    <3> QED BY <3>1, EndType
  <2> QED BY <1>1, <2>1, <2>2 DEF Total
<1> QED BY <1>1, <1>2

LEMMA Topics == Len(Ser2cli) = 34 /\ Len(App2dev) = 54
<1>1. IsText(Ser2cli, 300, 34) /\ IsText(App2dev, 556, 54)
  BY TextIs DEF Ser2cli, App2dev
<1> QED BY <1>1 DEF IsText

LEMMA NumIs ==
  ASSUME NEW a \in Nat, NEW b \in Nat, NEW c \in Nat
  PROVE  mqtt_num_rem_len_bytes(a, b, c) \in 1 .. 4
  BY DEF mqtt_num_rem_len_bytes

LEMMA ParseIs ==
  ASSUME NEW a \in Nat, NEW b \in Nat, NEW c \in Nat
  PROVE  mqtt_parse_rem_len(a, b, c) \in Nat
<1>1. a % 128 \in Nat /\ b % 128 \in Nat /\ c % 128 \in Nat
  OBVIOUS
<1>2. (IF Continues(a) THEN (b % 128) * 128 ELSE 0) \in Nat
  BY <1>1
<1>3. (IF Continues(a) /\ Continues(b) THEN (c % 128) * 16384 ELSE 0) \in Nat
  BY <1>1
<1> DEFINE x == IF Continues(a) THEN (b % 128) * 128 ELSE 0
           y == IF Continues(a) /\ Continues(b) THEN (c % 128) * 16384 ELSE 0
<1> HIDE DEF x, y
<1>4. ((a % 128) + x + y) % 65536 \in Nat
  BY <1>1, <1>2, <1>3 DEF x, y
<1> QED BY <1>4 DEF mqtt_parse_rem_len, x, y

LEMMA HeadIs ==
  ASSUME TypeInv
  PROVE  mqtt_head_len \in 4 .. 7
<1>1. Value(1) \in Nat /\ Value(2) \in Nat /\ Value(3) \in Nat
  BY AtType
<1>2. mqtt_num_rem_len_bytes(Value(1), Value(2), Value(3)) \in 1 .. 4
  BY <1>1, NumIs
<1> QED BY <1>2 DEF mqtt_head_len

LEMMA TypeFound ==
  ASSUME TypeInv, NEW index \in Nat, NEW packet_len \in Nat, Found(index, packet_len), SameRound,
         dead = "no", cmd' \in Nat
  PROVE  TypeInv'
<1>1. /\ recv_buf \in Seq(Byte) /\ Len(recv_buf) \in Nat /\ recv_len \in Nat
      /\ recv_len <= Len(recv_buf) /\ packet \in Seq(Byte) /\ Len(packet) <= BUF_LEN
  BY StateTypes DEF TypeInv, TypeOK, Byte
<1>2. pc' = "dispatch" /\ one_packet_len' \in Nat
  BY DEF Found, Return0
<1>3. CASE packet_len > BUF_LEN /\ dead' = "length" /\ UNCHANGED <<packet, recv_buf, recv_len>>
  BY <1>1, <1>2, <1>3, TypeGet
<1>4. CASE /\ packet_len <= BUF_LEN
           /\ packet' = Bytes(index, packet_len) /\ UNCHANGED dead
           /\ IF recv_len <= index + packet_len THEN Clear ELSE Shift(index + packet_len)
  <2>1. packet' \in Seq(Byte) /\ Len(packet') <= BUF_LEN
    BY <1>4, BytesType
  <2>2. /\ recv_buf' \in Seq(Byte) /\ Len(recv_buf') \in Nat /\ recv_len' \in Nat
        /\ recv_len' <= Len(recv_buf') /\ Len(recv_buf') <= Len(recv_buf)
    <3>1. CASE recv_len <= index + packet_len
      BY <1>1, <1>4, <3>1 DEF Clear
    <3>2. CASE ~(recv_len <= index + packet_len)
      <4>1. index + packet_len \in Nat /\ index + packet_len <= recv_len
        BY <1>1, <3>2
      <4>2. Shift(index + packet_len)
        BY <1>4, <3>2
      <4> QED BY <1>1, <4>1, <4>2, ShiftIs
    <3> QED BY <3>1, <3>2
  <2> QED BY <1>2, <1>4, <2>1, <2>2, TypeGet
<1> QED BY <1>3, <1>4 DEF Found

LEMMA TypeDevice ==
  ASSUME TypeInv, Device
  PROVE  TypeInv'
<1>1. /\ recv_buf \in Seq(Byte) /\ Len(recv_buf) \in Nat /\ recv_len \in Nat
      /\ recv_len <= Len(recv_buf) /\ packet \in Seq(Byte) /\ Len(packet) <= BUF_LEN
      /\ cmd \in Nat /\ one_packet_len \in Nat /\ done \in Seq(Nat \X Seq(Byte))
  BY StateTypes DEF TypeInv, TypeOK, Byte
<1>2. /\ Len(sent) \in Nat /\ Len(bytes) \in Nat /\ bytes \in Seq(Byte)
      /\ pos \in Nat /\ from \in Nat /\ upto \in Nat /\ from <= upto /\ upto <= pos /\ pos <= Len(bytes)
  BY StateTypes
<1>3. \A S : <<>> \in Seq(S) /\ Len(<<>>) = 0
  OBVIOUS
<1>4. CASE Begin
  <2>1. recv_buf' \in Seq(Byte) /\ Len(recv_buf') = 0 /\ packet' \in Seq(Byte) /\ Len(packet') = 0
        /\ done' \in Seq(Nat \X Seq(Byte)) /\ cmd' \in Nat /\ one_packet_len' \in Nat
    BY <1>3, <1>4, BoundAssumption DEF Begin, GARBAGE
  <2> QED BY <1>2, <1>4, <2>1, BoundAssumption DEF Begin, TypeInv, TypeOK, broker_vars, Byte, Total
<1>5. CASE Poll
  <2>1. PICK n \in IF link THEN Stops(pos) \cup {pos} ELSE {pos} :
          /\ pos' = n /\ upto' = n
          /\ recv_buf' = recv_buf \o SubSeq(bytes, pos + 1, n)
          /\ recv_len' = recv_len + (n - pos)
    BY <1>5 DEF Poll
  <2>2. n \in Nat /\ pos <= n /\ n <= Len(bytes)
    <3>1. n \in Stops(pos) \cup {pos}
      BY <2>1
    <3> QED BY <3>1, StopsAre
  <2>3. recv_buf' \in Seq(Byte) /\ Len(recv_buf') = Len(recv_buf) + (n - pos)
    <3>1. n \in 0 .. Len(bytes)
      BY <1>2, <2>2
    <3>2. /\ recv_buf \o SubSeq(bytes, pos + 1, n) \in Seq(Byte)
          /\ Len(recv_buf \o SubSeq(bytes, pos + 1, n)) = Len(recv_buf) + (n - pos)
      BY <1>1, <1>2, <2>2, <3>1, Filled, ZenonT(30) DEF IsFill
    <3> QED BY <2>1, <3>2
  <2>4. recv_len = Len(recv_buf)
    BY <1>5 DEF Poll, TypeInv
  <2>5. recv_len' \in Nat /\ recv_len' = Len(recv_buf')
    BY <1>1, <1>2, <2>1, <2>2, <2>3, <2>4
  <2>6. times \in 0 .. 2 /\ dead = "no" /\ pc = "readn"
    BY <1>5 DEF Poll, TypeInv, TypeOK
  <2>7. \/ recv_len' > BUF_LEN /\ dead' = "overrun" /\ times' = times /\ pc' = pc
        \/ ~(recv_len' > BUF_LEN) /\ dead' \in {dead, "dump"} /\ times' = 0 /\ pc' \in {"delay", "get"}
        \/ ~(recv_len' > BUF_LEN) /\ dead' = dead /\ ~(times >= 2) /\ times' = times + 1 /\ pc' = pc
    BY <1>5 DEF Poll
  <2>8. /\ dead' # "overrun" => Len(recv_buf') <= BUF_LEN
        /\ dead' \in {"no", "dump", "overrun"} /\ pc' \in {"readn", "delay", "get"} /\ times' \in 0 .. 2
    <3>1. BUF_LEN \in Nat
      BY BoundAssumption
    <3> QED BY <2>5, <2>6, <2>7, <3>1
  <2>9. UNCHANGED <<sent, bytes, ends, link, cmd, packet, one_packet_len, from, done>>
    BY <1>5 DEF Poll, broker_vars
  <2>10. /\ from' \in Nat /\ upto' \in Nat /\ from' <= upto' /\ upto' <= pos' /\ pos' \in 0 .. Total'
    BY <1>2, <2>1, <2>2, <2>9 DEF Total
  <2>11. recv_buf' \in Seq(Nat \X Nat) /\ recv_len' \in 0 .. Len(recv_buf')
    BY <2>3, <2>5 DEF Byte
  <2> QED BY <2>5, <2>8, <2>9, <2>10, <2>11 DEF TypeInv, TypeOK
<1>6. CASE Empty
  <2>1. SameRound
    BY <1>6 DEF Empty, SameRound, link_vars
  <2> QED BY <1>1, <1>6, <2>1, TypeGet DEF Empty
<1>7. CASE GetPing
  <2>1. SameRound /\ dead = "no" /\ pc' = "dispatch" /\ cmd' = 208 /\ one_packet_len' = 2
    BY <1>7 DEF GetPing, SameRound, link_vars, Get, Return0
  <2>2. packet' \in Seq(Byte) /\ Len(packet') = 2
    BY <1>7, BytesType DEF GetPing
  <2>3. /\ recv_buf' \in Seq(Byte) /\ Len(recv_buf') \in Nat /\ recv_len' \in Nat
        /\ recv_len' <= Len(recv_buf') /\ Len(recv_buf') <= Len(recv_buf)
        /\ dead' \in {"no", "memcpy"}
    <3>1. CASE recv_len < 2
      BY <1>1, <1>7, <3>1 DEF GetPing
    <3>2. CASE ~(recv_len < 2)
      <4>1. 2 \in Nat /\ 2 <= recv_len
        BY <1>1, <3>2
      <4>2. Shift(2) /\ dead' = "no"
        BY <1>7, <2>1, <3>2 DEF GetPing
      <4> QED BY <1>1, <4>1, <4>2, ShiftIs
    <3> QED BY <3>1, <3>2
  <2> QED BY <2>1, <2>2, <2>3, TypeGet, BoundAssumption
<1>8. CASE GetShort \/ GetUnknown
  <2>1. SameRound /\ dead = "no" /\ dead' = "no" /\ pc' \in {"delay", "dispatch"}
        /\ cmd' = cmd /\ one_packet_len' = one_packet_len
    BY <1>8 DEF GetShort, GetUnknown, SameRound, link_vars, Get, Return0
  <2>2. packet' \in Seq(Byte) /\ Len(packet') = 0 /\ recv_buf' \in Seq(Byte) /\ Len(recv_buf') = 0 /\ recv_len' = 0
    BY <1>3, <1>8 DEF GetShort, GetUnknown, Clear
  <2> QED BY <1>1, <2>1, <2>2, TypeGet, BoundAssumption
<1>9. CASE GetSer2cli
  <2> DEFINE index == mqtt_head_len + Len(Ser2cli)
             c == Value(index + 4) * 256 + Value(index + 5)
  <2>1. index \in Nat
    BY HeadIs, Topics
  <2> HIDE DEF index
  <2>2. c \in Nat
    <3>1. index + 4 \in Nat /\ index + 5 \in Nat
      BY <2>1
    <3>2. Value(index + 4) \in Nat /\ Value(index + 5) \in Nat
      BY <3>1, AtType
    <3> QED BY <3>2
  <2>3. /\ SameRound /\ dead = "no" /\ cmd' = c
        /\ \E n \in Ser2cliLengths(c) : Found(index, n)
    BY <1>9 DEF GetSer2cli, Get, SameRound, link_vars, index
  <2>4. Ser2cliLengths(c) \subseteq Nat
    BY HeadIs, BoundAssumption DEF Ser2cliLengths
  <2> HIDE DEF c
  <2> QED BY <2>1, <2>2, <2>3, <2>4, TypeFound
<1>10. CASE GetApp2dev
  <2> DEFINE index == mqtt_head_len + Len(App2dev)
             len == mqtt_parse_rem_len(Value(index + 4), Value(index + 5), Value(index + 6))
             length_len == mqtt_num_rem_len_bytes(Value(index + 4), Value(index + 5), Value(index + 6))
  <2>1. index \in Nat
    BY HeadIs, Topics
  <2> HIDE DEF index
  <2>2. Value(index + 4) \in Nat /\ Value(index + 5) \in Nat /\ Value(index + 6) \in Nat
    <3>1. index + 4 \in Nat /\ index + 5 \in Nat /\ index + 6 \in Nat
      BY <2>1
    <3> QED BY <3>1, AtType
  <2>3. len \in Nat /\ length_len \in Nat
    <3>1. length_len \in 1 .. 4
      BY <2>2, NumIs
    <3>2. len \in Nat
      BY <2>2, ParseIs
    <3> QED BY <3>1, <3>2
  <2>4. SameRound /\ dead = "no"
    BY <1>10 DEF GetApp2dev, Get, SameRound, link_vars
  <2>5. \/ /\ cmd' = Value(index + 4 + length_len + 1) * 256 + Value(index + 4 + length_len + 2)
           /\ Found(index, 4 + len + length_len)
        \/ packet' = <<>> /\ UNCHANGED <<cmd, one_packet_len, dead>> /\ Clear /\ Return0
    BY <1>10 DEF GetApp2dev, index
  <2> HIDE DEF len, length_len
  <2>6. CASE /\ cmd' = Value(index + 4 + length_len + 1) * 256 + Value(index + 4 + length_len + 2)
             /\ Found(index, 4 + len + length_len)
    <3>1. index + 4 + length_len + 1 \in Nat /\ index + 4 + length_len + 2 \in Nat /\ 4 + len + length_len \in Nat
      BY <2>1, <2>3
    <3>2. Value(index + 4 + length_len + 1) \in Nat /\ Value(index + 4 + length_len + 2) \in Nat
      BY <3>1, AtType
    <3>3. cmd' \in Nat
      BY <2>6, <3>2
    <3> QED BY <2>1, <2>4, <2>6, <3>1, <3>3, TypeFound
  <2>7. CASE packet' = <<>> /\ UNCHANGED <<cmd, one_packet_len, dead>> /\ Clear /\ Return0
    <3>1. packet' \in Seq(Byte) /\ Len(packet') = 0 /\ recv_buf' \in Seq(Byte) /\ Len(recv_buf') = 0 /\ recv_len' = 0
          /\ pc' = "dispatch" /\ dead' = "no" /\ cmd' = cmd /\ one_packet_len' = one_packet_len
      BY <1>3, <2>4, <2>7 DEF Clear, Return0
    <3> QED BY <1>1, <2>4, <3>1, TypeGet, BoundAssumption
  <2> QED BY <2>5, <2>6, <2>7
<1>11. CASE Forget \/ TransData \/ PushOta
  <2>1. /\ UNCHANGED <<broker_vars, times, recv_buf, recv_len, cmd, packet, one_packet_len, from, upto>>
        /\ pc' = "get" /\ done' \in {done, Append(done, <<cmd, packet>>)} /\ dead = "no"
    BY <1>11 DEF Forget, TransData, PushOta, Dispatched
  <2>2. dead' \in {"no", "action"}
    BY <1>11, <2>1 DEF Forget, TransData, PushOta
  <2>3. link' \in BOOLEAN /\ pos' \in Nat /\ pos <= pos' /\ pos' <= Len(bytes)
    <3>1. CASE UNCHANGED <<link, pos>>
      BY <1>2, <3>1 DEF TypeInv, TypeOK
    <3>2. CASE CheckOta
      <4>1. link' \in BOOLEAN /\ (pos' = pos \/ pos' \in Stops(pos))
        BY <3>2 DEF CheckOta
      <4>2. pos' \in Stops(pos) \cup {pos}
        BY <4>1
      <4> QED BY <4>1, <4>2, StopsAre
    <3> QED BY <1>11, <3>1, <3>2 DEF Forget, TransData, PushOta
  <2>4. done' \in Seq(Nat \X Seq(Byte))
    <3>1. <<cmd, packet>> \in Nat \X Seq(Byte)
      BY <1>1
    <3>2. Append(done, <<cmd, packet>>) \in Seq(Nat \X Seq(Byte))
      BY <1>1, <3>1, AppendProperties
    <3> QED BY <1>1, <2>1, <3>2
  <2> QED BY <1>2, <2>1, <2>2, <2>3, <2>4, SMTT(30) DEF TypeInv, TypeOK, broker_vars, Byte, Total
<1>12. CASE DumpPacket
  BY <1>12, SMTT(30) DEF DumpPacket, link_vars, TypeInv, TypeOK, broker_vars, Total
<1> QED BY <1>4, <1>5, <1>6, <1>7, <1>8, <1>9, <1>10, <1>11, <1>12 DEF Device

\* One step keeps the types.
LEMMA TypeNext == TypeInv /\ [Next]_vars => TypeInv'
<1> SUFFICES ASSUME TypeInv, [Next]_vars PROVE TypeInv'
  OBVIOUS
<1>1. CASE Device
  BY <1>1, TypeDevice
<1>2. CASE \E k \in Kinds : Send(k)
  BY <1>2, TypeSend
<1>3. CASE UNCHANGED vars
  BY <1>3 DEF TypeInv, TypeOK, vars, link_vars, broker_vars, Total
<1> QED BY <1>1, <1>2, <1>3 DEF Next

\* Every variable keeps its type: nothing is copied past the end of recv_buf or
\* one_packet before the fault is recorded, recv_len never exceeds what is in the
\* buffer, and readn never reads more than has arrived.
THEOREM TypeCorrect == Spec => []TypeOK
<1>1. TypeInv => TypeOK
  BY DEF TypeInv
<1> QED BY <1>1, TypeInit, TypeNext, PTL DEF Spec

-----------------------------------------------------------------------------
(* The bytes of the link *)

\* Where packet p of those that end at e ends.
EndOf(e, p) == IF p = 0 THEN 0 ELSE e[p]

\* The bytes b are those of the packets s, one after another, each with its own
\* number, and e says where each ends.
Stream(s, b, e) ==
  /\ \A p \in 1 .. Len(s) : EndOf(e, p) = EndOf(e, p - 1) + PacketLen[s[p]]
  /\ EndOf(e, Len(s)) = Len(b)
  /\ \A p \in 1 .. Len(s) : \A j \in 1 .. PacketLen[s[p]] :
       b[EndOf(e, p - 1) + j] = <<Wire[s[p]][j], p>>
  /\ \A n \in 1 .. Len(b) : \E p \in 1 .. Len(s) : \E j \in 1 .. PacketLen[s[p]] :
       n = EndOf(e, p - 1) + j
  /\ \A p \in 0 .. Len(s) : EndOf(e, p) \in 0 .. Len(b)
  /\ \A p, q \in 0 .. Len(s) : p < q => EndOf(e, p) < EndOf(e, q)

\* s2, b2 and e2 have a packet of kind k, whose bytes are t, behind s, b and e.
OneMore(s, b, e, s2, b2, e2, k, t) ==
  /\ Len(s2) = Len(s) + 1 /\ (\A p \in 1 .. Len(s) : s2[p] = s[p]) /\ s2[Len(s) + 1] = k
  /\ IsJoin(b2, b, t) /\ Len(t) = PacketLen[k]
  /\ \A j \in 1 .. PacketLen[k] : t[j] = <<Wire[k][j], Len(s) + 1>>
  /\ \A p \in 1 .. Len(s) : e2[p] = e[p]
  /\ e2[Len(s) + 1] = Len(b) + PacketLen[k]

LEMMA StreamGrows ==
  ASSUME NEW s \in Seq(Kinds), NEW b, NEW e, Len(b) \in Nat, Stream(s, b, e),
         NEW s2, NEW b2, NEW e2, NEW k \in Kinds, NEW t, OneMore(s, b, e, s2, b2, e2, k, t)
  PROVE  Stream(s2, b2, e2) /\ \A p \in 0 .. Len(s) : EndOf(e2, p) = EndOf(e, p)
<1>0. /\ Len(s2) = Len(s) + 1 /\ (\A p \in 1 .. Len(s) : s2[p] = s[p]) /\ s2[Len(s) + 1] = k
      /\ IsJoin(b2, b, t) /\ Len(t) = PacketLen[k]
      /\ \A j \in 1 .. PacketLen[k] : t[j] = <<Wire[k][j], Len(s) + 1>>
      /\ \A p \in 1 .. Len(s) : e2[p] = e[p]
      /\ e2[Len(s) + 1] = Len(b) + PacketLen[k]
  BY DEF OneMore
<1> USE <1>0
<1> DEFINE n == Len(s)
           m == PacketLen[k]
<1>1. n \in Nat /\ Len(s2) = n + 1
  OBVIOUS
<1>2. m \in Nat /\ m > 1
  BY DEF PacketLen, Kinds
<1>3. Len(b2) = Len(b) + m
  BY DEF IsJoin
<1>4. \A p \in 0 .. n : EndOf(e2, p) = EndOf(e, p)
  BY DEF EndOf
<1>5. EndOf(e2, n + 1) = Len(b) + m
  BY <1>1 DEF EndOf
<1> HIDE DEF m
<1>6. EndOf(e, n) = Len(b) /\ EndOf(e2, n) = Len(b)
  BY <1>1, <1>4 DEF Stream
<1>7. \A p \in 0 .. n : EndOf(e, p) \in 0 .. Len(b)
  BY DEF Stream
<1>8. ASSUME NEW p \in 1 .. Len(s2)
      PROVE  EndOf(e2, p) = EndOf(e2, p - 1) + PacketLen[s2[p]]
  <2>1. CASE p = n + 1
    BY <1>1, <1>5, <1>6, <2>1 DEF m
  <2>2. CASE p \in 1 .. n
    <3>1. p - 1 \in 0 .. n /\ p \in 0 .. n
      BY <1>1, <2>2
    <3>2. EndOf(e, p) = EndOf(e, p - 1) + PacketLen[s[p]] /\ s2[p] = s[p]
      BY <2>2 DEF Stream
    <3> QED BY <1>4, <3>1, <3>2
  <2> QED BY <1>1, <2>1, <2>2
<1>9. ASSUME NEW p \in 1 .. Len(s2), NEW j \in 1 .. PacketLen[s2[p]]
      PROVE  b2[EndOf(e2, p - 1) + j] = <<Wire[s2[p]][j], p>>
  <2>1. CASE p = n + 1
    <3>1. b2[Len(b) + j] = t[j]
      BY <2>1 DEF IsJoin
    <3>2. EndOf(e2, p - 1) = Len(b)
      BY <1>1, <1>6, <2>1
    <3> QED BY <2>1, <3>1, <3>2
  <2>2. CASE p \in 1 .. n
    <3>1. p - 1 \in 0 .. n /\ p \in 0 .. n /\ s2[p] = s[p] /\ s[p] \in Kinds
      BY <1>1, <2>2
    <3>2. PacketLen[s[p]] \in Nat
      BY <3>1, SMTT(30) DEF PacketLen, Kinds
    <3>3. EndOf(e, p - 1) + j \in 1 .. Len(b)
      <4>1. EndOf(e, p) = EndOf(e, p - 1) + PacketLen[s[p]]
        BY <2>2 DEF Stream
      <4> QED BY <1>7, <3>1, <3>2, <4>1, SMTT(30)
    <3>4. b[EndOf(e, p - 1) + j] = <<Wire[s[p]][j], p>>
      BY <2>2, <3>1 DEF Stream
    <3>5. b2[EndOf(e, p - 1) + j] = b[EndOf(e, p - 1) + j]
      BY <3>3 DEF IsJoin
    <3> QED BY <1>4, <3>1, <3>4, <3>5
  <2> QED BY <1>1, <2>1, <2>2
<1>10. ASSUME NEW i \in 1 .. Len(b2)
       PROVE  \E p \in 1 .. Len(s2) : \E j \in 1 .. PacketLen[s2[p]] : i = EndOf(e2, p - 1) + j
  <2>1. CASE i \in 1 .. Len(b)
    <3>1. PICK p \in 1 .. n : \E j \in 1 .. PacketLen[s[p]] : i = EndOf(e, p - 1) + j
      BY <2>1 DEF Stream
    <3>2. p \in 1 .. Len(s2) /\ p - 1 \in 0 .. n /\ s2[p] = s[p]
      BY <1>1
    <3>3. EndOf(e2, p - 1) = EndOf(e, p - 1)
      BY <1>4, <3>2, Zenon
    <3>4. \E j \in 1 .. PacketLen[s2[p]] : i = EndOf(e2, p - 1) + j
      BY <3>1, <3>2, <3>3, Zenon
    <3> QED BY <3>2, <3>4, Zenon
  <2>2. CASE i > Len(b)
    <3>1. i - Len(b) \in 1 .. m /\ i = Len(b) + (i - Len(b))
      BY <1>2, <1>3, <2>2
    <3>2. n + 1 \in 1 .. Len(s2) /\ (n + 1) - 1 = n /\ PacketLen[s2[n + 1]] = m
      BY <1>1 DEF m
    <3>3. i - Len(b) \in 1 .. PacketLen[s2[n + 1]] /\ i = EndOf(e2, (n + 1) - 1) + (i - Len(b))
      BY <1>6, <3>1, <3>2
    <3> QED BY <3>2, <3>3
  <2> QED BY <2>1, <2>2
<1>11. \A p \in 0 .. Len(s2) : EndOf(e2, p) \in 0 .. Len(b2)
  BY <1>1, <1>2, <1>3, <1>4, <1>5, <1>7
<1>12. ASSUME NEW p \in 0 .. Len(s2), NEW q \in 0 .. Len(s2), p < q
       PROVE  EndOf(e2, p) < EndOf(e2, q)
  <2>1. p \in 0 .. n
    BY <1>1, <1>12
  <2>2. CASE q \in 0 .. n
    <3>1. EndOf(e, p) < EndOf(e, q)
      BY <1>12, <2>1, <2>2 DEF Stream
    <3> QED BY <1>4, <2>1, <2>2, <3>1
  <2>3. CASE q = n + 1
    BY <1>2, <1>4, <1>5, <1>7, <2>1, <2>3
  <2> QED BY <1>1, <2>2, <2>3
<1> HIDE DEF n
<1>13. Stream(s2, b2, e2)
  <2>1. EndOf(e2, Len(s2)) = Len(b2)
    BY <1>1, <1>3, <1>5
  <2> QED BY <1>8, <1>9, <1>10, <1>11, <1>12, <2>1 DEF Stream
<1> QED BY <1>4, <1>13 DEF n

StreamInv == Stream(sent, bytes, ends)

\* Sending leaves what was sent as it was.
Kept ==
  /\ Len(sent') = Len(sent) + 1 /\ \A p \in 1 .. Len(sent) : sent'[p] = sent[p]
  /\ \A n \in 1 .. Len(bytes) : bytes'[n] = bytes[n]
  /\ \A p \in 0 .. Len(sent) : End(p)' = End(p)
  /\ ends'[Len(sent) + 1] \in Nat /\ ends'[Len(sent) + 1] > Len(bytes)

LEMMA StreamSend ==
  ASSUME TypeInv, StreamInv, NEW k \in Kinds, Send(k)
  PROVE  StreamInv' /\ Kept
<1> DEFINE w == Wire[k]
           t == BytesOf(w, Len(sent) + 1)
<1>1. /\ sent \in Seq(Kinds) /\ Len(sent) \in Nat /\ bytes \in Seq(Nat \X (1 .. Len(sent)))
      /\ ends \in [1 .. Len(sent) -> Nat] /\ Len(bytes) \in Nat
  BY DEF TypeInv, TypeOK
<1>2. w \in Seq(Nat) /\ Len(w) = PacketLen[k]
  BY WireIsWire DEF IsWire
<1>3. /\ sent' \in Seq(Kinds) /\ Len(sent') = Len(sent) + 1
      /\ \A p \in 1 .. Len(sent) : sent'[p] = sent[p] /\ sent'[Len(sent) + 1] = k
  BY <1>1, AppendProperties DEF Send
<1>4. bytes' = bytes \o t
  BY DEF Send, BytesOf
<1>5. /\ bytes \o t \in Seq(Nat \X (1 .. Len(sent) + 1)) /\ IsJoin(bytes \o t, bytes, t)
      /\ Len(t) = Len(w) /\ \A j \in 1 .. Len(w) : t[j] = <<w[j], Len(sent) + 1>>
  BY <1>1, <1>2, SentBytes, Zenon
<1>6. ends' = Append(ends, Len(bytes) + Len(w))
  BY DEF Send
<1>7. ends \in Seq(Nat) /\ Len(ends) = Len(sent)
  BY <1>1, FunIsSeq
<1> HIDE DEF t
<1>8. Len(bytes) + Len(w) \in Nat /\ PacketLen[k] \in Nat /\ PacketLen[k] > 0
  BY <1>1, <1>2, SMTT(30) DEF PacketLen, Kinds
<1> DEFINE size == Len(bytes) + Len(w)
<1> HIDE DEF size, w
<1>9. /\ \A p \in 1 .. Len(sent) : ends'[p] = ends[p]
      /\ ends'[Len(sent) + 1] = size
  BY <1>6, <1>7, <1>8, AppendProperties DEF size
<1>10. IsJoin(bytes', bytes, t) /\ Len(t) = PacketLen[k]
  BY <1>2, <1>4, <1>5
<1>11. \A j \in 1 .. PacketLen[k] : t[j] = <<Wire[k][j], Len(sent) + 1>>
  BY <1>2, <1>5 DEF w
<1>12. Stream(sent, bytes, ends) /\ ends'[Len(sent) + 1] = Len(bytes) + PacketLen[k]
  BY <1>2, <1>9 DEF StreamInv, size
<1>13. sent'[Len(sent) + 1] = k
  BY <1>1, AppendProperties DEF Send
<1>14. Stream(sent', bytes', ends') /\ \A p \in 0 .. Len(sent) : EndOf(ends', p) = EndOf(ends, p)
  <2>1. OneMore(sent, bytes, ends, sent', bytes', ends', k, t)
    BY <1>3, <1>9, <1>10, <1>11, <1>12, <1>13 DEF OneMore
  <2> QED BY <1>1, <1>12, <2>1, StreamGrows
<1>15. \A n \in 1 .. Len(bytes) : bytes'[n] = bytes[n]
  BY <1>10 DEF IsJoin
<1>16. ends'[Len(sent) + 1] \in Nat /\ ends'[Len(sent) + 1] > Len(bytes)
  BY <1>1, <1>8, <1>12
<1> QED BY <1>1, <1>3, <1>8, <1>14, <1>15, <1>16 DEF StreamInv, Kept, End, EndOf

-----------------------------------------------------------------------------
(* The buffer *)

\* What recv_buf holds is the end of what was read in this round.
BufferInv ==
  /\ recv_len <= upto - from
  /\ \A i \in 1 .. recv_len : recv_buf[i] = bytes[upto - recv_len + i]
  /\ pc = "readn" => upto = pos /\ recv_len = upto - from /\ done = <<>>
  /\ pc \in {"get", "dispatch"} => from < upto
  /\ pc = "delay" => recv_len = 0 /\ dead = "no"

Ready == TypeInv /\ StreamInv /\ BufferInv

LEMMA StreamIs ==
  ASSUME Ready
  PROVE  /\ Len(sent) \in Nat /\ Len(bytes) \in Nat /\ upto <= Len(bytes)
         /\ \A p \in 1 .. Len(sent) : /\ sent[p] \in Kinds /\ PacketLen[sent[p]] \in Nat
                                       /\ End(p - 1) \in Nat /\ End(p) \in Nat
                                       /\ End(p) = End(p - 1) + PacketLen[sent[p]]
         /\ \A p, q \in 0 .. Len(sent) : End(p) = End(q) => p = q
<1>1. /\ Len(sent) \in Nat /\ Len(bytes) \in Nat /\ upto <= Len(bytes) /\ sent \in Seq(Kinds)
  BY StateTypes DEF Ready, TypeInv, TypeOK
<1>2. ASSUME NEW p \in 1 .. Len(sent)
      PROVE  /\ sent[p] \in Kinds /\ PacketLen[sent[p]] \in Nat
             /\ End(p - 1) \in Nat /\ End(p) \in Nat
             /\ End(p) = End(p - 1) + PacketLen[sent[p]]
  <2>1. sent[p] \in Kinds
    BY <1>1
  <2>2. PacketLen[sent[p]] \in Nat
    BY <2>1 DEF PacketLen, Kinds
  <2>3. p \in 0 .. Len(sent) /\ p - 1 \in 0 .. Len(sent)
    BY <1>1
  <2>4. End(p - 1) \in Nat /\ End(p) \in Nat
    BY <2>3, EndType DEF Ready
  <2>5. EndOf(ends, p) = EndOf(ends, p - 1) + PacketLen[sent[p]]
    BY DEF Ready, StreamInv, Stream
  <2> QED BY <2>1, <2>2, <2>4, <2>5 DEF End, EndOf
<1>3. ASSUME NEW p \in 0 .. Len(sent), NEW q \in 0 .. Len(sent), End(p) = End(q) PROVE p = q
  <2>1. /\ p < q => EndOf(ends, p) < EndOf(ends, q)
        /\ q < p => EndOf(ends, q) < EndOf(ends, p)
    BY DEF Ready, StreamInv, Stream
  <2>2. EndOf(ends, p) = EndOf(ends, q) /\ EndOf(ends, p) \in Nat
    BY <1>3, EndType DEF Ready, End, EndOf
  <2> QED BY <1>1, <2>1, <2>2
<1> QED BY <1>1, <1>2, <1>3

\* Byte i of the buffer, from 0, is one of some packet.
LEMMA Located ==
  ASSUME Ready, NEW i \in Nat, i < recv_len
  PROVE  \E p \in 1 .. Len(sent) : \E j \in 1 .. PacketLen[sent[p]] :
           upto - recv_len + i + 1 = End(p - 1) + j /\ At(i) = <<Wire[sent[p]][j], p>>
<1>1. /\ Len(sent) \in Nat /\ Len(bytes) \in Nat /\ upto <= Len(bytes)
      /\ upto \in Nat /\ from \in Nat /\ recv_len \in Nat /\ recv_len <= Len(recv_buf)
      /\ Len(recv_buf) \in Nat /\ recv_len <= upto - from
  BY StateTypes DEF Ready, BufferInv
<1>2. i + 1 \in 1 .. recv_len /\ upto - recv_len + (i + 1) \in 1 .. Len(bytes) /\ i < Len(recv_buf)
  BY <1>1
<1>3. At(i) = bytes[upto - recv_len + (i + 1)]
  BY <1>2 DEF At, Ready, BufferInv
<1>4. PICK p \in 1 .. Len(sent) : \E j \in 1 .. PacketLen[sent[p]] :
        upto - recv_len + (i + 1) = EndOf(ends, p - 1) + j
  BY <1>2 DEF Ready, StreamInv, Stream
<1>5. PICK j \in 1 .. PacketLen[sent[p]] : upto - recv_len + (i + 1) = EndOf(ends, p - 1) + j
  BY <1>4
<1>6. bytes[EndOf(ends, p - 1) + j] = <<Wire[sent[p]][j], p>>
  BY DEF Ready, StreamInv, Stream
<1>7. At(i) = <<Wire[sent[p]][j], p>>
  BY <1>3, <1>5, <1>6
<1>8. upto - recv_len + i + 1 = End(p - 1) + j
  BY <1>1, <1>5 DEF End, EndOf
<1> QED BY <1>7, <1>8

\* Where the buffer begins with packet p, its bytes are those of p.
LEMMA InPacket ==
  ASSUME Ready, NEW p \in 1 .. Len(sent), End(p - 1) = upto - recv_len,
         NEW i \in Nat, i < recv_len, i < PacketLen[sent[p]]
  PROVE  At(i) = <<Wire[sent[p]][i + 1], p>> /\ Value(i) = Wire[sent[p]][i + 1]
<1>1. /\ upto \in Nat /\ recv_len \in Nat /\ recv_len <= Len(recv_buf)
      /\ Len(recv_buf) \in Nat /\ PacketLen[sent[p]] \in Nat
  BY StateTypes, StreamIs DEF Ready
<1>2. i + 1 \in 1 .. recv_len /\ i < Len(recv_buf) /\ i + 1 \in 1 .. PacketLen[sent[p]]
  BY <1>1
<1>3. At(i) = bytes[upto - recv_len + (i + 1)]
  BY <1>2 DEF At, Ready, BufferInv
<1>4. bytes[EndOf(ends, p - 1) + (i + 1)] = <<Wire[sent[p]][i + 1], p>>
  BY <1>2 DEF Ready, StreamInv, Stream
<1>5. EndOf(ends, p - 1) = upto - recv_len
  BY DEF End, EndOf
<1>6. At(i) = <<Wire[sent[p]][i + 1], p>>
  BY <1>3, <1>4, <1>5
<1> QED BY <1>6 DEF Value

LEMMA PrefixIs ==
  ASSUME NEW S, NEW s \in Seq(S), NEW b \in 0 .. Len(s)
  PROVE  SubSeq(s, 1, b) \in Seq(S) /\ IsSlice(SubSeq(s, 1, b), s, 0, b)
<1>1. PICK a \in Nat : a = 0
  OBVIOUS
<1>2. a <= b
  BY <1>1
<1>3. SubSeq(s, a + 1, b) \in Seq(S) /\ IsSlice(SubSeq(s, a + 1, b), s, a, b)
  BY <1>2, SliceIs
<1>4. a + 1 = 1
  BY <1>1
<1> QED BY <1>1, <1>3, <1>4

\* t begins with the b characters above base.
BeginsWith(t, base, b) == DOMAIN t = 1 .. b /\ \A j \in 1 .. b : t[j] = base + j

LEMMA TextBegins ==
  ASSUME NEW base \in Nat, NEW n \in Nat, NEW b \in 0 .. n
  PROVE  BeginsWith(SubSeq(Text(base, n), 1, b), base, b)
<1> DEFINE t == Text(base, n)
           s == SubSeq(t, 1, b)
<1>1. IsText(t, base, n)
  BY TextIs
<1> HIDE DEF t
<1>2. t \in Seq(Nat) /\ Len(t) = n
  BY <1>1 DEF IsText
<1>3. s \in Seq(Nat) /\ IsSlice(s, t, 0, b)
  BY <1>2, PrefixIs
<1> HIDE DEF s
<1>4. Len(s) = b /\ \A j \in 1 .. b : s[j] = t[j]
  BY <1>3 DEF IsSlice
<1>5. \A j \in 1 .. b : s[j] = base + j
  BY <1>1, <1>4 DEF IsText
<1>6. DOMAIN s = 1 .. b
  BY <1>3, <1>4
<1> QED BY <1>5, <1>6 DEF BeginsWith, s, t

\* The beginnings of the two topics.
LEMMA TopicStarts ==
  /\ BeginsWith(SubSeq(Ser2cli, 1, 11), 300, 11)
  /\ BeginsWith(SubSeq(App2dev, 1, 8), 556, 8)
<1>1. 300 \in Nat /\ 556 \in Nat /\ 34 \in Nat /\ 54 \in Nat /\ 11 \in 0 .. 34 /\ 8 \in 0 .. 54
  OBVIOUS
<1> QED BY <1>1, TextBegins DEF Ser2cli, App2dev

LEMMA HoldsSer ==
  IsSer2cli <=> \A j \in 1 .. 11 : Value(mqtt_head_len + j - 1) = 300 + j
  BY TopicStarts DEF IsSer2cli, Holds, BeginsWith

LEMMA HoldsApp ==
  IsApp2dev <=> \A j \in 1 .. 8 : Value(mqtt_head_len + j - 1) = 556 + j
  BY TopicStarts DEF IsApp2dev, Holds, BeginsWith

LEMMA HoldsPing == IsPing <=> Value(0) = 208 /\ Value(1) = 0
<1>1. Body.PINGRESP = <<208, 0>> /\ DOMAIN Body.PINGRESP = 1 .. 2
  BY DEF Body
<1>2. \A j \in 1 .. 2 : j = 1 \/ j = 2
  OBVIOUS
<1>3. IsPing <=> \A j \in 1 .. 2 : Value(0 + j - 1) = Body.PINGRESP[j]
  BY <1>1 DEF IsPing, Holds
<1>4. Body.PINGRESP[1] = 208 /\ Body.PINGRESP[2] = 0
  BY <1>1
<1>5. 0 + 1 - 1 = 0 /\ 0 + 2 - 1 = 1 /\ 1 \in 1 .. 2 /\ 2 \in 1 .. 2
  OBVIOUS
<1> QED BY <1>2, <1>3, <1>4, <1>5

LEMMA ShortByte ==
  ASSUME NEW v \in 0 .. 127
  PROVE  ~Continues(v) /\ v % 128 = v
  BY DEF Continues

\* A packet with a topic, at the beginning of the buffer.
IsTopic(p) == sent[p] \notin {"PINGRESP", "SUBACK"}

LEMMA KindAt ==
  ASSUME Ready, NEW p \in 1 .. Len(sent)
  PROVE  /\ IsWire(sent[p], Wire[sent[p]])
         /\ IsTopic(p) => /\ PacketLen[sent[p]] > 45
                          /\ sent[p] \in {"ONLINE", "OTA", "CONTROL", "TRANS"}
                          /\ Wire[sent[p]][1] = 48 /\ Wire[sent[p]][2] \in 1 .. 127
         /\ \A j \in 1 .. PacketLen[sent[p]] :
              /\ Wire[sent[p]][j] = 208 => sent[p] = "PINGRESP" /\ j = 1
              /\ Wire[sent[p]][j] = 301 => sent[p] \in {"ONLINE", "OTA"} /\ j = 5
              /\ Wire[sent[p]][j] = 557 => sent[p] \in {"CONTROL", "TRANS"} /\ j = 5
<1>1. sent[p] \in Kinds
  BY StreamIs
<1>2. IsWire(sent[p], Wire[sent[p]])
  BY <1>1, WireIsWire
<1>3. IsTopic(p) => sent[p] \in {"ONLINE", "OTA", "CONTROL", "TRANS"}
  BY <1>1 DEF IsTopic, Kinds
<1>4. IsTopic(p) => PacketLen[sent[p]] > 45
  BY <1>3 DEF PacketLen
<1>5. IsTopic(p) => Wire[sent[p]][1] = 48 /\ Wire[sent[p]][2] \in 1 .. 127
  BY <1>2 DEF IsWire, IsTopic
<1>6. \A j \in 1 .. PacketLen[sent[p]] :
        /\ Wire[sent[p]][j] = 208 => sent[p] = "PINGRESP" /\ j = 1
        /\ Wire[sent[p]][j] = 301 => sent[p] \in {"ONLINE", "OTA"} /\ j = 5
        /\ Wire[sent[p]][j] = 557 => sent[p] \in {"CONTROL", "TRANS"} /\ j = 5
  BY <1>2, Zenon DEF IsWire
<1> QED BY <1>2, <1>3, <1>4, <1>5, <1>6

LEMMA HeadAt ==
  ASSUME Ready, NEW p \in 1 .. Len(sent), End(p - 1) = upto - recv_len, recv_len > 30, IsTopic(p)
  PROVE  mqtt_head_len = 4
<1>1. recv_len \in Nat /\ PacketLen[sent[p]] \in Nat
  BY StreamIs, StateTypes DEF Ready
<1>2. PacketLen[sent[p]] > 45 /\ Wire[sent[p]][2] \in 1 .. 127
  <2>1. sent[p] \in Kinds
    BY StreamIs
  <2>2. sent[p] \in {"ONLINE", "OTA", "CONTROL", "TRANS"}
    BY <2>1 DEF IsTopic, Kinds
  <2>3. IsWire(sent[p], Wire[sent[p]])
    BY <2>1, WireIsWire
  <2>4. Wire[sent[p]][2] \in 1 .. 127
    BY <2>2, <2>3 DEF IsWire
  <2>5. PacketLen[sent[p]] > 45
    BY <2>2 DEF PacketLen
  <2> QED BY <2>4, <2>5
<1>3. 1 < recv_len /\ 1 < PacketLen[sent[p]] /\ 1 \in Nat /\ 1 + 1 = 2
  BY <1>1, <1>2
<1>4. Value(1) = Wire[sent[p]][1 + 1]
  BY <1>3, InPacket
<1>5. ~Continues(Value(1))
  <2>1. Value(1) \in 0 .. 127
    <3>1. Value(1) \in 1 .. 127
      BY <1>2, <1>3, <1>4
    <3> QED BY <3>1
  <2> QED BY <2>1, ShortByte
<1> QED BY <1>5 DEF mqtt_head_len, mqtt_num_rem_len_bytes

\* A topic at its place behind the head means that the packet begins here.
LEMMA TopicAt ==
  ASSUME Ready, recv_len > 30, NEW base \in {300, 556}, Value(mqtt_head_len) = base + 1
  PROVE  \E p \in 1 .. Len(sent) :
           /\ sent[p] \in IF base = 300 THEN {"ONLINE", "OTA"} ELSE {"CONTROL", "TRANS"}
           /\ End(p - 1) = upto - recv_len
<1> DEFINE h == mqtt_head_len
<1>1. h \in 4 .. 7
  BY HeadIs DEF Ready
<1> HIDE DEF h
<1>2. recv_len \in Nat /\ upto \in Nat /\ from \in Nat /\ recv_len <= upto - from
  BY StateTypes DEF Ready, BufferInv
<1>13. h \in Nat /\ h < recv_len
  BY <1>1, <1>2
<1>3. PICK p \in 1 .. Len(sent) : \E j \in 1 .. PacketLen[sent[p]] :
        upto - recv_len + h + 1 = End(p - 1) + j /\ At(h) = <<Wire[sent[p]][j], p>>
  BY <1>13, Located
<1>4. PICK j \in 1 .. PacketLen[sent[p]] :
        upto - recv_len + h + 1 = End(p - 1) + j /\ At(h) = <<Wire[sent[p]][j], p>>
  BY <1>3
<1>5. sent[p] \in Kinds /\ End(p - 1) \in Nat
  BY StreamIs
<1>6. Wire[sent[p]][j] = base + 1
  BY <1>4 DEF Value, h
<1>7. j = 5 /\ sent[p] \in IF base = 300 THEN {"ONLINE", "OTA"} ELSE {"CONTROL", "TRANS"}
  <2>2. /\ Wire[sent[p]][j] = 301 => sent[p] \in {"ONLINE", "OTA"} /\ j = 5
        /\ Wire[sent[p]][j] = 557 => sent[p] \in {"CONTROL", "TRANS"} /\ j = 5
    BY KindAt
  <2> QED BY <1>6, <2>2
<1>8. upto - recv_len + h = End(p - 1) + 4
  <2>1. upto - recv_len + h + 1 = End(p - 1) + 5
    BY <1>4, <1>7
  <2>2. upto - recv_len \in Int /\ h \in Nat
    BY <1>1, <1>2
  <2> QED BY <1>5, <2>1, <2>2
<1>9. Wire[sent[p]][1] = 48 /\ PacketLen[sent[p]] \in Nat /\ PacketLen[sent[p]] > 45
  <2>1. IsTopic(p)
    BY <1>7 DEF IsTopic
  <2>2. Wire[sent[p]][1] = 48 /\ PacketLen[sent[p]] > 45
    BY <2>1, KindAt
  <2>3. PacketLen[sent[p]] \in Nat
    BY StreamIs
  <2> QED BY <2>2, <2>3
<1>10. ASSUME h > 4 PROVE FALSE
  <2>1. h - 4 \in 1 .. 3 /\ upto - recv_len + (h - 4) = End(p - 1) /\ h - 4 < recv_len
    BY <1>1, <1>2, <1>5, <1>8, <1>10
  <2>3. bytes[EndOf(ends, p - 1) + 1] = <<Wire[sent[p]][1], p>>
    <3>1. 1 \in 1 .. PacketLen[sent[p]]
      BY <1>9
    <3> QED BY <3>1, SMTT(30) DEF Ready, StreamInv, Stream
  <2>4. At(h - 4) = bytes[EndOf(ends, p - 1) + 1]
    <3>1. h - 4 < Len(recv_buf) /\ h - 4 + 1 \in 1 .. recv_len
      <4>1. recv_len <= Len(recv_buf) /\ Len(recv_buf) \in Nat
        BY StateTypes DEF Ready
      <4> QED BY <1>1, <1>2, <2>1, <4>1
    <3>2. At(h - 4) = bytes[upto - recv_len + (h - 4 + 1)]
      BY <2>1, <3>1 DEF At, Ready, BufferInv
    <3>3. upto - recv_len + (h - 4 + 1) = End(p - 1) + 1
      <4>1. upto - recv_len \in Int /\ h - 4 \in Int /\ upto - recv_len + (h - 4) = End(p - 1)
        BY <1>2, <1>13, <2>1
      <4> QED BY <4>1
    <3> QED BY <3>2, <3>3 DEF End, EndOf
  <2>5. Value(h - 4) = 48
    BY <1>9, <2>3, <2>4 DEF Value
  <2>6. ~Continues(48)
    BY ShortByte
  <2>7. h - 4 = 1 \/ h - 4 = 2 \/ h - 4 = 3
    BY <2>1
  <2>8. h = 3 + mqtt_num_rem_len_bytes(Value(1), Value(2), Value(3))
    BY DEF h, mqtt_head_len
  <2>9. CASE h = 5
    <3>1. ~Continues(Value(1))
      BY <2>5, <2>6, <2>9
    <3> QED BY <2>8, <2>9, <3>1 DEF mqtt_num_rem_len_bytes
  <2>10. CASE h = 6
    <3>1. ~Continues(Value(2))
      BY <2>5, <2>6, <2>10
    <3> QED BY <2>8, <2>10, <3>1 DEF mqtt_num_rem_len_bytes
  <2>11. CASE h = 7
    <3>1. ~Continues(Value(3))
      BY <2>5, <2>6, <2>11
    <3> QED BY <2>8, <2>11, <3>1 DEF mqtt_num_rem_len_bytes
  <2> QED BY <1>1, <1>10, <2>9, <2>10, <2>11
<1>11. h = 4
  BY <1>1, <1>10
<1>12. End(p - 1) = upto - recv_len
  BY <1>2, <1>5, <1>8, <1>11
<1> QED BY <1>7, <1>12

\* The first n bytes of the buffer go, the others move down.
Moved(n) ==
  /\ n \in 0 .. recv_len /\ recv_len' = recv_len - n
  /\ \A i \in 1 .. recv_len - n : recv_buf'[i] = recv_buf[n + i]

LEMMA MovedBy ==
  ASSUME TypeInv
  PROVE  /\ Clear => Moved(recv_len)
         /\ UNCHANGED <<recv_buf, recv_len>> => Moved(0)
         /\ \A n \in 0 .. recv_len : Shift(n) => Moved(n)
<1>1. recv_len \in Nat
  BY StateTypes
<1>2. Clear => Moved(recv_len)
  BY <1>1 DEF Clear, Moved
<1>3. UNCHANGED <<recv_buf, recv_len>> => Moved(0)
  BY <1>1 DEF Moved
<1>4. ASSUME NEW n \in 0 .. recv_len, Shift(n) PROVE Moved(n)
  <2>1. n \in Nat /\ n <= recv_len
    BY <1>1
  <2>2. IsShift(recv_buf', recv_buf, n, recv_len) /\ recv_len' = recv_len - n
    BY <1>4, <2>1, ShiftIs
  <2> QED BY <2>2 DEF Moved, IsShift
<1> QED BY <1>2, <1>3, <1>4

LEMMA FoundMoves ==
  ASSUME TypeInv, NEW index \in Nat, NEW packet_len \in Nat, Found(index, packet_len)
  PROVE  \/ dead' = "length" /\ packet_len > BUF_LEN /\ Moved(0) /\ UNCHANGED packet
         \/ /\ UNCHANGED dead /\ packet' = Bytes(index, packet_len) /\ packet_len <= BUF_LEN
            /\ Moved(IF recv_len <= index + packet_len THEN recv_len ELSE index + packet_len)
<1>1. recv_len \in Nat
  BY StateTypes
<1>2. CASE packet_len > BUF_LEN /\ dead' = "length" /\ UNCHANGED <<packet, recv_buf, recv_len>>
  BY <1>2, MovedBy
<1>3. CASE /\ packet_len <= BUF_LEN
           /\ packet' = Bytes(index, packet_len) /\ UNCHANGED dead
           /\ IF recv_len <= index + packet_len THEN Clear ELSE Shift(index + packet_len)
  <2>1. CASE recv_len <= index + packet_len
    <3>1. Moved(recv_len)
      BY <1>3, <2>1, MovedBy
    <3> QED BY <1>3, <2>1, <3>1
  <2>2. CASE ~(recv_len <= index + packet_len)
    <3>1. index + packet_len \in 0 .. recv_len
      BY <1>1, <2>2
    <3>2. Moved(index + packet_len)
      BY <1>3, <2>2, <3>1, MovedBy
    <3> QED BY <1>3, <2>2, <3>2
  <2> QED BY <2>1, <2>2
<1> QED BY <1>2, <1>3 DEF Found

Looks == Empty \/ GetPing \/ GetShort \/ GetSer2cli \/ GetApp2dev \/ GetUnknown

\* What the arguments of Found may be.
LEMMA SerNumbers ==
  ASSUME TypeInv
  PROVE  LET index == mqtt_head_len + Len(Ser2cli)
             c == Value(index + 4) * 256 + Value(index + 5)
         IN  index \in Nat /\ index >= 38 /\ c \in Nat /\ Ser2cliLengths(c) \subseteq Nat
<1> DEFINE index == mqtt_head_len + Len(Ser2cli)
           c == Value(index + 4) * 256 + Value(index + 5)
<1>1. index \in Nat /\ index >= 38
  BY HeadIs, Topics
<1> HIDE DEF index
<1>2. index + 4 \in Nat /\ index + 5 \in Nat
  BY <1>1
<1>3. Value(index + 4) \in Nat /\ Value(index + 5) \in Nat
  BY <1>2, AtType
<1>4. c \in Nat
  BY <1>3
<1>5. Ser2cliLengths(c) \subseteq Nat
  BY HeadIs, BoundAssumption DEF Ser2cliLengths
<1> QED BY <1>1, <1>4, <1>5 DEF index

LEMMA AppNumbers ==
  ASSUME TypeInv
  PROVE  LET index == mqtt_head_len + Len(App2dev)
             len == mqtt_parse_rem_len(Value(index + 4), Value(index + 5), Value(index + 6))
             length_len == mqtt_num_rem_len_bytes(Value(index + 4), Value(index + 5), Value(index + 6))
         IN  /\ index \in Nat /\ index >= 58 /\ len \in Nat /\ length_len \in 1 .. 4
             /\ 4 + len + length_len \in Nat
<1> DEFINE index == mqtt_head_len + Len(App2dev)
           len == mqtt_parse_rem_len(Value(index + 4), Value(index + 5), Value(index + 6))
           length_len == mqtt_num_rem_len_bytes(Value(index + 4), Value(index + 5), Value(index + 6))
<1>1. index \in Nat /\ index >= 58
  BY HeadIs, Topics
<1> HIDE DEF index
<1>2. index + 4 \in Nat /\ index + 5 \in Nat /\ index + 6 \in Nat
  BY <1>1
<1>3. Value(index + 4) \in Nat /\ Value(index + 5) \in Nat /\ Value(index + 6) \in Nat
  BY <1>2, AtType
<1>4. len \in Nat
  BY <1>3, ParseIs
<1>5. length_len \in 1 .. 4
  BY <1>3, NumIs
<1> HIDE DEF len, length_len
<1>6. 4 + len + length_len \in Nat
  BY <1>4, <1>5
<1> QED BY <1>1, <1>4, <1>5, <1>6 DEF index, len, length_len

LEMMA LooksMove ==
  ASSUME TypeInv, Looks
  PROVE  /\ SameRound /\ pc = "get" /\ dead = "no" /\ pc' \in {"dispatch", "delay"}
         /\ pc' = "delay" => recv_len' = 0 /\ dead' = "no"
         /\ \E n \in Nat : Moved(n)
<1>1. recv_len \in Nat
  BY StateTypes
<1>2. SameRound /\ pc = "get" /\ dead = "no"
  BY DEF Looks, Empty, GetPing, GetShort, GetSer2cli, GetApp2dev, GetUnknown, Get, SameRound, link_vars
<1>3. CASE Empty
  <2>1. Moved(0) /\ pc' = "delay" /\ recv_len' = 0 /\ dead' = "no"
    BY <1>3, MovedBy DEF Empty
  <2> QED BY <1>2, <2>1
<1>4. CASE GetPing
  <2>1. pc' = "dispatch"
    BY <1>4 DEF GetPing, Return0
  <2>2. CASE recv_len < 2
    BY <1>2, <1>4, <2>1, <2>2, MovedBy DEF GetPing
  <2>3. CASE ~(recv_len < 2)
    <3>1. 2 \in 0 .. recv_len /\ Shift(2)
      BY <1>1, <1>4, <2>3 DEF GetPing
    <3> QED BY <1>2, <2>1, <3>1, MovedBy
  <2> QED BY <2>2, <2>3
<1>5. CASE GetShort \/ GetUnknown
  <2>1. Clear /\ recv_len' = 0 /\ dead' = "no" /\ pc' \in {"dispatch", "delay"}
    BY <1>2, <1>5 DEF GetShort, GetUnknown, Return0, Clear
  <2> QED BY <1>1, <1>2, <2>1, MovedBy
<1>6. CASE GetSer2cli
  <2> DEFINE index == mqtt_head_len + Len(Ser2cli)
             c == Value(index + 4) * 256 + Value(index + 5)
  <2>1. PICK n \in Ser2cliLengths(c) : Found(index, n)
    BY <1>6 DEF GetSer2cli
  <2>2. index \in Nat /\ Ser2cliLengths(c) \subseteq Nat
    BY SerNumbers
  <2> HIDE DEF index, c
  <2>3. n \in Nat
    BY <2>2
  <2>4. pc' = "dispatch"
    BY <2>1 DEF Found, Return0
  <2>5. \E m \in Nat : Moved(m)
    BY <2>1, <2>2, <2>3, <1>1, FoundMoves
  <2> QED BY <1>2, <2>4, <2>5
<1>7. CASE GetApp2dev
  <2> DEFINE index == mqtt_head_len + Len(App2dev)
             len == mqtt_parse_rem_len(Value(index + 4), Value(index + 5), Value(index + 6))
             length_len == mqtt_num_rem_len_bytes(Value(index + 4), Value(index + 5), Value(index + 6))
             n == 4 + len + length_len
  <2>1. Found(index, n) \/ (Clear /\ pc' = "dispatch")
    BY <1>7 DEF GetApp2dev, Return0
  <2>2. index \in Nat /\ n \in Nat
    BY AppNumbers
  <2> HIDE DEF index, n
  <2>3. CASE Found(index, n)
    <3>1. pc' = "dispatch"
      BY <2>3 DEF Found, Return0
    <3>2. \E m \in Nat : Moved(m)
      BY <2>3, <2>2, <1>1, FoundMoves
    <3> QED BY <1>2, <3>1, <3>2
  <2>4. CASE Clear /\ pc' = "dispatch"
    BY <1>1, <1>2, <2>4, MovedBy
  <2> QED BY <2>1, <2>3, <2>4
<1> QED BY <1>3, <1>4, <1>5, <1>6, <1>7 DEF Looks

LEMMA BufferMoves ==
  ASSUME Ready, NEW n \in Nat, Moved(n), UNCHANGED <<broker_vars, from, upto>>,
         pc \in {"get", "dispatch"}, pc' \in {"get", "dispatch", "delay"},
         pc' = "delay" => recv_len' = 0 /\ dead' = "no"
  PROVE  BufferInv'
<1>1. /\ upto \in Nat /\ from \in Nat /\ recv_len \in Nat /\ recv_len <= upto - from /\ from < upto
      /\ bytes' = bytes
  BY StateTypes DEF Ready, BufferInv, broker_vars
<1>2. recv_len' = recv_len - n /\ recv_len' \in Nat /\ n <= recv_len /\ upto' = upto /\ from' = from
  BY <1>1 DEF Moved
<1>3. recv_len' <= upto' - from'
  BY <1>1, <1>2
<1>4. ASSUME NEW i \in 1 .. recv_len' PROVE recv_buf'[i] = bytes'[upto' - recv_len' + i]
  <2>1. i \in 1 .. recv_len - n /\ n + i \in 1 .. recv_len
    BY <1>1, <1>2
  <2>2. recv_buf'[i] = bytes[upto - recv_len + (n + i)]
    BY <2>1 DEF Moved, Ready, BufferInv
  <2>3. upto - recv_len + (n + i) = upto' - recv_len' + i
    BY <1>1, <1>2
  <2> QED BY <1>1, <2>2, <2>3
<1> QED BY <1>1, <1>2, <1>3, <1>4 DEF BufferInv

\* How a poll leaves readn, or not.
PollEnds ==
  \/ recv_len' > BUF_LEN /\ dead' = "overrun" /\ pc' = "readn"
  \/ dead' = "no" /\ pc' = "readn"
  \/ dead' = "no" /\ pc' = "delay" /\ recv_len' = 0
  \/ dead' = "no" /\ pc' = "get" /\ recv_len' # 0 /\ DumpFits(recv_len')
  \/ dead' = "dump" /\ pc' = "get" /\ recv_len' # 0 /\ ~DumpFits(recv_len')

LEMMA PollIs ==
  ASSUME Ready, Poll
  PROVE  /\ IsFill(recv_buf', recv_buf, bytes, pos, pos') /\ pos' \in Nat /\ pos <= pos' /\ pos' <= Len(bytes)
         /\ upto' = pos' /\ recv_len' = recv_len + (pos' - pos) /\ recv_len = Len(recv_buf)
         /\ upto = pos /\ recv_len = upto - from /\ done' = <<>> /\ from' = from /\ dead = "no"
         /\ UNCHANGED <<broker_vars, link, cmd, packet, from, done>>
         /\ PollEnds
<1>1. PICK n \in Stops(pos) \cup {pos} :
        /\ pos' = n /\ upto' = n
        /\ recv_buf' = recv_buf \o SubSeq(bytes, pos + 1, n)
        /\ recv_len' = recv_len + (n - pos)
  BY DEF Poll
<1>2. n \in Nat /\ pos <= n /\ n <= Len(bytes)
  BY StopsAre DEF Ready
<1>3. recv_buf \in Seq(Byte) /\ bytes \in Seq(Byte) /\ Len(bytes) \in Nat /\ pos \in Nat
  BY StateTypes DEF Ready
<1>4. n \in 0 .. Len(bytes)
  BY <1>2, <1>3
<1>5. IsFill(recv_buf', recv_buf, bytes, pos, n)
  BY <1>1, <1>2, <1>3, <1>4, Filled
<1>6. /\ pc = "readn" /\ dead = "no" /\ upto = pos /\ recv_len = upto - from /\ done = <<>>
      /\ recv_len = Len(recv_buf)
  BY DEF Poll, Ready, BufferInv, TypeInv
<1>7. UNCHANGED <<broker_vars, link, cmd, packet, from, done>>
  BY DEF Poll
<1>8. PollEnds
  <2>1. DumpFits(0)
    BY BoundAssumption DEF DumpFits
  <2> QED BY <1>6, <2>1, Zenon DEF Poll, PollEnds
<1> QED BY <1>1, <1>2, <1>5, <1>6, <1>7, <1>8

\* The sizes in a round that began at f: r bytes are in the buffer when m are
\* read, r2 when m2 are.
IsFilled(f, r, m, m2, r2) ==
  /\ r2 = m2 - f /\ r2 \in Nat /\ m2 - r2 = f /\ m - r = f
  /\ r2 # 0 => f < m2
  /\ \A i \in 1 .. r2 : i > r => i - r \in 1 .. m2 - m /\ r + (i - r) = i /\ m + (i - r) = f + i

LEMMA FillSizes ==
  ASSUME NEW f \in Nat, NEW r \in Nat, NEW m \in Nat, NEW m2 \in Nat, NEW r2,
         m <= m2, r = m - f, r2 = r + (m2 - m)
  PROVE  IsFilled(f, r, m, m2, r2)
<1>1. r2 \in Int
  OBVIOUS
<1> QED BY <1>1 DEF IsFilled

LEMMA BufferNext ==
  ASSUME Ready, [Next]_vars, TypeInv'
  PROVE  BufferInv'
<1>1. /\ upto \in Nat /\ from \in Nat /\ recv_len \in Nat /\ recv_len <= upto - from /\ upto <= Len(bytes)
      /\ Len(bytes) \in Nat /\ pos \in Nat
      /\ \A i \in 1 .. recv_len : recv_buf[i] = bytes[upto - recv_len + i]
  BY StateTypes DEF Ready, BufferInv
<1>2. CASE \E k \in Kinds : Send(k)
  <2>1. Kept
    BY <1>2, StreamSend DEF Ready
  <2>2. UNCHANGED <<pos, pc, dead, recv_buf, recv_len, from, upto, done>>
    BY <1>2 DEF Send
  <2>3. ASSUME NEW i \in 1 .. recv_len PROVE recv_buf[i] = bytes'[upto - recv_len + i]
    <3>1. upto - recv_len + i \in 1 .. Len(bytes)
      BY <1>1
    <3> QED BY <1>1, <2>1, <3>1 DEF Kept
  <2> QED BY <2>2, <2>3 DEF Ready, BufferInv
<1>3. CASE Begin
  <2>1. recv_len' = 0 /\ from' = pos /\ upto' = pos /\ pos' = pos /\ pc' = "readn" /\ done' = <<>>
    BY <1>3 DEF Begin
  <2> QED BY <1>1, <2>1 DEF BufferInv
<1>4. CASE Poll
  <2>1. /\ IsFill(recv_buf', recv_buf, bytes, pos, pos') /\ pos' \in Nat /\ pos <= pos' /\ pos' <= Len(bytes)
        /\ upto' = pos' /\ recv_len' = recv_len + (pos' - pos) /\ recv_len = Len(recv_buf)
        /\ upto = pos /\ recv_len = upto - from /\ done' = <<>> /\ from' = from
        /\ UNCHANGED <<broker_vars, link, cmd, packet, from, done>>
        /\ PollEnds
    BY <1>4, PollIs
  <2>6. /\ from \in Nat /\ recv_len \in Nat /\ pos \in Nat /\ pos' \in Nat /\ pos <= pos'
        /\ recv_len = pos - from /\ recv_len' = recv_len + (pos' - pos) /\ upto' = pos' /\ from' = from
    BY <1>1, <2>1
  <2>7. /\ recv_len' = pos' - from /\ recv_len' \in Nat /\ pos' - recv_len' = from
        /\ pos - recv_len = from
        /\ recv_len' # 0 => from < pos'
        /\ \A i \in 1 .. recv_len' : i > recv_len =>
              i - recv_len \in 1 .. pos' - pos /\ recv_len + (i - recv_len) = i /\ pos + (i - recv_len) = from + i
    <3>1. IsFilled(from, recv_len, pos, pos', recv_len')
      BY <2>6, FillSizes
    <3> QED BY <3>1 DEF IsFilled
  <2>2. recv_len' = upto' - from' /\ upto' - recv_len' = from /\ bytes' = bytes
    <3>1. bytes' = bytes
      BY <2>1 DEF broker_vars
    <3> QED BY <2>6, <2>7, <3>1
  <2>3. ASSUME NEW i \in 1 .. recv_len' PROVE recv_buf'[i] = bytes'[upto' - recv_len' + i]
    <3>1. CASE i \in 1 .. recv_len
      <4>1. recv_buf'[i] = recv_buf[i]
        BY <2>1, <3>1 DEF IsFill
      <4>2. upto - recv_len = from
        BY <2>1, <2>7
      <4> QED BY <1>1, <2>2, <3>1, <4>1, <4>2
    <3>2. CASE i > recv_len
      <4>1. i - recv_len \in 1 .. pos' - pos /\ recv_len + (i - recv_len) = i
        BY <2>7, <3>2
      <4>2. recv_buf'[i] = bytes[pos + (i - recv_len)]
        BY <2>1, <4>1 DEF IsFill
      <4>3. pos + (i - recv_len) = from + i
        BY <2>7, <3>2
      <4> QED BY <2>2, <4>2, <4>3
    <3> QED BY <1>1, <2>1, <3>1, <3>2
  <2>4. pc' = "get" => from' < upto'
    <3>1. pc' = "get" => recv_len' # 0
      BY <2>1 DEF PollEnds
    <3> QED BY <2>6, <2>7, <3>1
  <2>5. /\ pc' = "readn" => upto' = pos' /\ recv_len' = upto' - from' /\ done' = <<>>
        /\ pc' \in {"get", "dispatch"} => from' < upto'
        /\ pc' = "delay" => recv_len' = 0 /\ dead' = "no"
        /\ recv_len' <= upto' - from'
    <3>1. /\ pc' = "delay" => recv_len' = 0 /\ dead' = "no"
          /\ pc' # "dispatch" /\ done' = <<>>
      BY <2>1 DEF PollEnds
    <3>2. recv_len' <= upto' - from' /\ upto' = pos'
      <4>1. recv_len' \in Nat
        BY <2>7
      <4>2. recv_len' <= recv_len'
        BY <4>1
      <4>3. recv_len' <= upto' - from'
        BY <2>2, <4>2, Zenon
      <4> QED BY <2>6, <4>3
    <3> QED BY <2>2, <2>4, <3>1, <3>2
  <2> QED BY <2>3, <2>5 DEF BufferInv
<1>5. CASE Looks
  <2>1. /\ SameRound /\ pc = "get" /\ dead = "no" /\ pc' \in {"dispatch", "delay"}
        /\ pc' = "delay" => recv_len' = 0 /\ dead' = "no"
        /\ \E n \in Nat : Moved(n)
    BY <1>5, LooksMove DEF Ready
  <2>2. PICK n \in Nat : Moved(n)
    BY <2>1
  <2> QED BY <2>1, <2>2, BufferMoves DEF SameRound
<1>6. CASE Forget \/ TransData \/ PushOta
  <2>1. /\ UNCHANGED <<broker_vars, recv_buf, recv_len, from, upto>> /\ pc = "dispatch" /\ pc' = "get"
    BY <1>6 DEF Forget, TransData, PushOta, Dispatched
  <2>2. Moved(0)
    BY <2>1, MovedBy DEF Ready
  <2> QED BY <2>1, <2>2, BufferMoves
<1>7. CASE UNCHANGED vars \/ DumpPacket
  BY <1>7 DEF DumpPacket, vars, link_vars, broker_vars, Ready, BufferInv
<1> QED BY <1>2, <1>3, <1>4, <1>5, <1>6, <1>7 DEF Next, Device, Looks

LEMMA ReadyInit == Init => Ready
<1> SUFFICES ASSUME Init PROVE Ready
  OBVIOUS
<1>1. TypeInv
  BY TypeInit
<1>2. sent = <<>> /\ bytes = <<>> /\ Len(sent) = 0 /\ Len(bytes) = 0
  BY DEF Init
<1>3. StreamInv
  BY <1>2 DEF StreamInv, Stream, EndOf
<1>4. BufferInv
  BY DEF Init, BufferInv
<1> QED BY <1>1, <1>3, <1>4 DEF Ready

LEMMA ReadyNext ==
  ASSUME Ready, [Next]_vars
  PROVE  Ready'
<1>1. TypeInv'
  <2>1. CASE Device
    BY <2>1, TypeDevice DEF Ready
  <2>2. CASE \E k \in Kinds : Send(k)
    BY <2>2, TypeSend DEF Ready
  <2>3. CASE UNCHANGED vars
    BY <2>3 DEF Ready, TypeInv, TypeOK, vars, link_vars, broker_vars, Total
  <2> QED BY <2>1, <2>2, <2>3 DEF Next
<1>2. StreamInv'
  <2>1. CASE \E k \in Kinds : Send(k)
    BY <2>1, StreamSend DEF Ready
  <2>2. CASE Device
    <3>1. UNCHANGED broker_vars
      BY <2>2 DEF Device, Begin, Poll, Empty, GetPing, GetShort, GetSer2cli, GetApp2dev, GetUnknown,
                  DumpPacket, Forget, TransData, PushOta, Dispatched, link_vars
    <3> QED BY <3>1 DEF Ready, StreamInv, broker_vars
  <2>3. CASE UNCHANGED vars
    BY <2>3 DEF Ready, StreamInv, vars, link_vars, broker_vars
  <2> QED BY <2>1, <2>2, <2>3 DEF Next
<1>3. BufferInv'
  BY <1>1, BufferNext
<1> QED BY <1>1, <1>2, <1>3 DEF Ready

-----------------------------------------------------------------------------
(* What a round dispatches *)

LEMMA Appended ==
  ASSUME NEW S, NEW d \in Seq(S), NEW x
  PROVE  /\ Len(Append(d, x)) = Len(d) + 1 /\ Append(d, x)[Len(d) + 1] = x
         /\ \A i \in 1 .. Len(d) : Append(d, x)[i] = d[i]
         /\ DOMAIN Append(d, x) = 1 .. Len(d) + 1 /\ DOMAIN d = 1 .. Len(d)
<1> DEFINE T == S \cup {x}
<1>1. d \in Seq(T) /\ x \in T
  OBVIOUS
<1> HIDE DEF T
<1>2. DOMAIN d = 1 .. Len(d)
  OBVIOUS
<1> QED BY <1>1, <1>2, AppendProperties

\* What was dispatched, with the command the switch is about to see.
Dispatching == IF pc = "dispatch" THEN Append(done, <<cmd, packet>>) ELSE done

\* The first k packets after the f-th are known, read whole, and first in d.
AllKnown(f, k, d) == \A i \in 1 .. k : Known(f, i) /\ d[i] = Command(f + i)

\* d has what was read before the last r bytes.
InStep(f, d, r) ==
  \E k \in 0 .. Len(sent) - f : AllKnown(f, k, d) /\ Len(d) = k /\ End(f + k) = upto - r

\* d is what RoundExact asks for.
Exact(f, d) ==
  \E k \in 0 .. Len(sent) - f :
    /\ AllKnown(f, k, d) /\ ~Known(f, k + 1)
    /\ Len(d) \in k .. k + (IF upto = End(f + k) THEN 0 ELSE 1)

\* d and the last r bytes of what was read, in a round that began at a packet
\* and in one that did not.
Round(d, r) ==
  /\ \A f \in 0 .. Len(sent) : End(f) = from => IF r > 0 THEN InStep(f, d, r) ELSE Exact(f, d)
  /\ (\A p \in 0 .. Len(sent) : End(p) # from) =>
       /\ r > 0 => d = <<>> /\ upto - r = from
       /\ Len(d) <= 1 /\ \A i \in DOMAIN d : d[i][2] = <<>>

RoundInv == dead = "no" /\ pc # "readn" => Round(Dispatching, recv_len)

LEMMA NextKnown ==
  ASSUME Ready, NEW f \in 0 .. Len(sent), NEW k \in 0 .. Len(sent) - f, End(f + k) >= upto
  PROVE  ~Known(f, k + 1)
<1>1. Len(sent) \in Nat /\ upto \in Nat
  BY StreamIs, StateTypes DEF Ready
<1>2. SUFFICES ASSUME f + (k + 1) <= Len(sent) /\ End(f + (k + 1)) <= upto PROVE FALSE
  BY DEF Known
<1> DEFINE q == f + (k + 1)
<1>3. q \in 1 .. Len(sent) /\ q - 1 = f + k /\ q \in 0 .. Len(sent) /\ f + k \in 0 .. Len(sent) /\ f + k < q
  BY <1>1, <1>2
<1> HIDE DEF q
<1>4. EndOf(ends, f + k) < EndOf(ends, q)
  BY <1>3 DEF Ready, StreamInv, Stream
<1>5. End(f + k) < End(q)
  BY <1>4 DEF End, EndOf
<1>6. End(f + k) \in Nat /\ End(q) \in Nat /\ End(q) <= upto
  BY <1>2, <1>3, EndType DEF Ready, q
<1> QED BY <1>1, <1>5, <1>6

Dispatches == Seq(Nat \X Seq(Byte))

\* A round that has read only r bytes, all of them still in the buffer.
LEMMA RoundBegins ==
  ASSUME Ready, upto - recv_len = from
  PROVE  Round(<<>>, recv_len)
<1>1. Len(sent) \in Nat /\ upto \in Nat /\ from \in Nat /\ recv_len \in Nat /\ Len(<<>>) = 0 /\ DOMAIN <<>> = {}
  BY StreamIs, StateTypes DEF Ready
<1>2. ASSUME NEW f \in 0 .. Len(sent), End(f) = from
      PROVE  IF recv_len > 0 THEN InStep(f, <<>>, recv_len) ELSE Exact(f, <<>>)
  <2>1. 0 \in 0 .. Len(sent) - f /\ f + 0 = f /\ AllKnown(f, 0, <<>>)
    BY <1>1 DEF AllKnown
  <2>2. CASE recv_len > 0
    <3>1. InStep(f, <<>>, recv_len)
      BY <1>1, <1>2, <2>1 DEF InStep
    <3> QED BY <2>2, <3>1
  <2>3. CASE ~(recv_len > 0)
    <3>1. End(f + 0) >= upto
      BY <1>1, <1>2, <2>1, <2>3
    <3>2. ~Known(f, 0 + 1)
      BY <2>1, <3>1, NextKnown
    <3>3. Len(<<>>) \in 0 .. 0 + (IF upto = End(f + 0) THEN 0 ELSE 1)
      BY <1>1
    <3>4. Exact(f, <<>>)
      BY <2>1, <3>2, <3>3 DEF Exact
    <3> QED BY <2>3, <3>4
  <2> QED BY <2>2, <2>3
<1> QED BY <1>1, <1>2 DEF Round

\* The packet at the beginning of the buffer is dispatched.
LEMMA RoundAdvances ==
  ASSUME Ready, NEW d \in Dispatches, recv_len > 0, Round(d, recv_len),
         NEW p \in 1 .. Len(sent), End(p - 1) = upto - recv_len, End(p) <= upto, sent[p] # "SUBACK"
  PROVE  Round(Append(d, Command(p)), upto - End(p))
<1> DEFINE e == Append(d, Command(p))
           r == upto - End(p)
<1>1. Len(sent) \in Nat /\ upto \in Nat /\ from \in Nat /\ recv_len \in Nat /\ End(p) \in Nat
  BY StreamIs, StateTypes DEF Ready
<1>2. Len(e) = Len(d) + 1 /\ e[Len(d) + 1] = Command(p) /\ \A i \in 1 .. Len(d) : e[i] = d[i]
  BY Appended DEF Dispatches
<1> HIDE DEF e
<1>3. r \in Nat /\ End(p) = upto - r
  BY <1>1
<1> HIDE DEF r
<1>4. ASSUME NEW f \in 0 .. Len(sent), End(f) = from
      PROVE  IF r > 0 THEN InStep(f, e, r) ELSE Exact(f, e)
  <2>1. PICK k \in 0 .. Len(sent) - f : AllKnown(f, k, d) /\ Len(d) = k /\ End(f + k) = upto - recv_len
    BY <1>4 DEF Round, InStep
  <2>2. f + k \in 0 .. Len(sent) /\ p - 1 \in 0 .. Len(sent)
    BY <1>1
  <2>3. f + k = p - 1
    BY <2>1, <2>2, StreamIs
  <2>4. /\ k \in Nat /\ k + 1 \in 0 .. Len(sent) - f /\ f + (k + 1) = p
        /\ \A i \in 1 .. k + 1 : i \in 1 .. k \/ i = k + 1
    BY <1>1, <2>3
  <2>5. Known(f, k + 1)
    BY <2>4 DEF Known
  <2>6. AllKnown(f, k + 1, e)
    <3> SUFFICES ASSUME NEW i \in 1 .. k + 1 PROVE Known(f, i) /\ e[i] = Command(f + i)
      BY DEF AllKnown
    <3>1. CASE i \in 1 .. k
      BY <1>2, <2>1, <3>1 DEF AllKnown
    <3>2. CASE i = k + 1
      BY <1>2, <2>1, <2>4, <2>5, <3>2
    <3> QED BY <2>4, <3>1, <3>2
  <2>7. Len(e) = k + 1
    BY <1>2, <2>1
  <2>8. CASE r > 0
    <3>1. InStep(f, e, r)
      BY <1>3, <2>4, <2>6, <2>7 DEF InStep
    <3> QED BY <2>8, <3>1
  <2>9. CASE ~(r > 0)
    <3>1. End(f + (k + 1)) = upto
      BY <1>1, <1>3, <2>4, <2>9
    <3>2. ~Known(f, (k + 1) + 1)
      BY <1>1, <2>4, <3>1, NextKnown
    <3>3. Len(e) \in k + 1 .. k + 1 + (IF upto = End(f + (k + 1)) THEN 0 ELSE 1)
      BY <2>4, <2>7, <3>1
    <3>4. Exact(f, e)
      BY <2>4, <2>6, <3>2, <3>3 DEF Exact
    <3> QED BY <2>9, <3>4
  <2> QED BY <2>8, <2>9
<1>5. ~(\A q \in 0 .. Len(sent) : End(q) # from)
  <2>1. SUFFICES ASSUME \A q \in 0 .. Len(sent) : End(q) # from PROVE FALSE
    OBVIOUS
  <2>2. upto - recv_len = from
    BY <2>1 DEF Round
  <2>3. p - 1 \in 0 .. Len(sent)
    BY <1>1
  <2> QED BY <2>1, <2>2, <2>3
<1>6. Round(e, r)
  BY <1>4, <1>5 DEF Round
<1> QED BY <1>6 DEF e, r

\* No packet that is known and whole begins where the buffer begins.
NoPacket == \A p \in 1 .. Len(sent) : End(p - 1) = upto - recv_len /\ sent[p] # "SUBACK" => End(p) > upto

\* The buffer is dropped, with or without one more command.
LEMMA RoundDrops ==
  ASSUME Ready, NEW d \in Dispatches, recv_len > 0, Round(d, recv_len), NoPacket,
         NEW e, NEW x, \/ e = d
                       \/ /\ e = Append(d, x)
                          /\ \/ x[2] = <<>>
                             \/ \E p \in 1 .. Len(sent) : End(p - 1) = upto - recv_len
  PROVE  Round(e, 0)
<1>1. Len(sent) \in Nat /\ upto \in Nat /\ from \in Nat /\ recv_len \in Nat /\ Len(d) \in Nat
  BY StreamIs, StateTypes DEF Ready, Dispatches
<1>2. /\ \/ Len(e) = Len(d)
         \/ Len(e) = Len(d) + 1 /\ e[Len(d) + 1] = x
      /\ \A i \in 1 .. Len(d) : e[i] = d[i]
      /\ DOMAIN e = 1 .. Len(e)
  <2>1. CASE e = d
    <3>1. DOMAIN d = 1 .. Len(d)
      BY DEF Dispatches
    <3>2. Len(e) = Len(d) /\ \A i \in 1 .. Len(d) : e[i] = d[i]
      BY <2>1, Zenon
    <3>3. DOMAIN e = 1 .. Len(e)
      BY <2>1, <3>1, Zenon
    <3> QED BY <3>2, <3>3, Zenon
  <2>2. CASE e = Append(d, x)
    BY <2>2, Appended DEF Dispatches
  <2> QED BY <2>1, <2>2
<1>3. ASSUME NEW f \in 0 .. Len(sent), End(f) = from
      PROVE  Exact(f, e)
  <2>1. PICK k \in 0 .. Len(sent) - f : AllKnown(f, k, d) /\ Len(d) = k /\ End(f + k) = upto - recv_len
    BY <1>3 DEF Round, InStep
  <2>2. upto # End(f + k)
    BY <1>1, <2>1
  <2>3. ~Known(f, k + 1)
    <3>1. SUFFICES ASSUME Known(f, k + 1) PROVE FALSE
      OBVIOUS
    <3>2. f + (k + 1) \in 1 .. Len(sent) /\ (f + (k + 1)) - 1 = f + k
      BY <1>1, <3>1 DEF Known
    <3>3. End(f + (k + 1)) > upto
      BY <2>1, <3>1, <3>2 DEF NoPacket, Known
    <3>4. End(f + (k + 1)) <= upto /\ End(f + (k + 1)) \in Nat
      BY <3>1, <3>2, StreamIs DEF Known
    <3> QED BY <1>1, <3>3, <3>4
  <2>4. AllKnown(f, k, e)
    BY <1>2, <2>1 DEF AllKnown
  <2>5. Len(e) \in k .. k + (IF upto = End(f + k) THEN 0 ELSE 1)
    <3>1. k \in Nat /\ (Len(e) = k \/ Len(e) = k + 1)
      BY <1>1, <1>2, <2>1
    <3>2. Len(e) \in k .. k + 1
      BY <3>1
    <3> QED BY <2>2, <3>2
  <2> QED BY <2>3, <2>4, <2>5 DEF Exact
<1>4. ASSUME \A q \in 0 .. Len(sent) : End(q) # from
      PROVE  Len(e) <= 1 /\ \A i \in DOMAIN e : e[i][2] = <<>>
  <2>1. d = <<>> /\ upto - recv_len = from
    BY <1>4 DEF Round
  <2>2. Len(d) = 0
    BY <2>1
  <2>3. \A p \in 1 .. Len(sent) : p - 1 \in 0 .. Len(sent)
    BY <1>1
  <2>4. ~(\E p \in 1 .. Len(sent) : End(p - 1) = upto - recv_len)
    BY <1>4, <2>1, <2>3
  <2>5. Len(e) = 0 \/ (Len(e) = 1 /\ e[1] = x /\ x[2] = <<>>)
    <3>1. CASE e = d
      BY <2>2, <3>1
    <3>2. CASE e = Append(d, x) /\ x[2] = <<>>
      BY <2>2, <3>2, Appended DEF Dispatches
    <3> QED BY <2>4, <3>1, <3>2
  <2>6. CASE Len(e) = 0
    <3>1. DOMAIN e = {}
      BY <1>2, <2>6
    <3> QED BY <2>6, <3>1
  <2>7. CASE Len(e) = 1 /\ e[1] = x /\ x[2] = <<>>
    <3>1. \A i \in DOMAIN e : i = 1
      BY <1>2, <2>7
    <3> QED BY <2>7, <3>1
  <2> QED BY <2>5, <2>6, <2>7
<1> QED BY <1>3, <1>4 DEF Round

\* What was sent and the bounds of the round decide what it must dispatch.
LEMMA Unmoved ==
  ASSUME UNCHANGED <<sent, ends, upto, from>>, Round(Dispatching', recv_len')
  PROVE  RoundInv'
<1>1. ASSUME NEW p PROVE End(p)' = End(p)
  BY DEF End
<1>2. ASSUME NEW p PROVE Command(p)' = Command(p)
  BY DEF Command, Tagged
<1>3. ASSUME NEW f, NEW i PROVE Known(f, i)' <=> Known(f, i)
  BY <1>1 DEF Known
<1>4. ASSUME NEW f, NEW k, NEW d PROVE AllKnown(f, k, d)' <=> AllKnown(f, k, d)
  BY <1>2, <1>3 DEF AllKnown
<1>5. ASSUME NEW f, NEW d, NEW r PROVE InStep(f, d, r)' <=> InStep(f, d, r)
  BY <1>1, <1>4 DEF InStep
<1>6. ASSUME NEW f, NEW d PROVE Exact(f, d)' <=> Exact(f, d)
  BY <1>1, <1>3, <1>4 DEF Exact
<1>7. ASSUME NEW d, NEW r PROVE Round(d, r)' <=> Round(d, r)
  BY <1>1, <1>5, <1>6 DEF Round
<1> QED BY <1>7 DEF RoundInv

\* Where the body of a packet begins, and its bytes.
IsBody(k, i) ==
  /\ PacketLen[k] - i \in Nat /\ DOMAIN Body[k] = 1 .. PacketLen[k] - i
  /\ \A j \in 1 .. PacketLen[k] - i : Wire[k][i + j] = Body[k][j]

LEMMA PublishBody ==
  ASSUME NEW k, NEW base, NEW n \in Nat, IsPublish(Wire[k], base, n, Body[k]), Body[k] \in Seq(Nat),
         PacketLen[k] = 4 + n + Len(Body[k])
  PROVE  IsBody(k, 4 + n)
<1>1. Len(Body[k]) \in Nat /\ DOMAIN Body[k] = 1 .. Len(Body[k])
  OBVIOUS
<1>2. PacketLen[k] - (4 + n) = Len(Body[k])
  BY <1>1
<1> QED BY <1>1, <1>2 DEF IsPublish, IsBody

LEMMA BodiesAre ==
  /\ IsBody("PINGRESP", 0)
  /\ \A k \in {"ONLINE", "OTA"} : IsBody(k, 38) /\ Body[k][5] = 2
  /\ Body["ONLINE"][6] = 16 /\ Body["OTA"][6] = 17
  /\ \A k \in {"CONTROL", "TRANS"} :
       /\ IsBody(k, 58) /\ Body[k][1] = 0 /\ Body[k][2] = 0 /\ Body[k][3] = 0 /\ Body[k][4] = 3
       /\ Body[k][6] = 0 /\ Body[k][7] = 0
  /\ Body["CONTROL"][5] = 4 /\ Body["CONTROL"][8] = 144
  /\ Body["TRANS"][5] = 10 /\ Body["TRANS"][8] = 147
<1>1. /\ Body["PINGRESP"] = <<208, 0>> /\ Body["ONLINE"] = <<0, 0, 0, 3, 2, 16, 0, 1>>
      /\ Body["CONTROL"] = <<0, 0, 0, 3, 4, 0, 0, 144, 2>>
      /\ Body["TRANS"] = <<0, 0, 0, 3, 10, 0, 0, 147, 0, 0, 0, 0, 1, 1, 1>>
  BY DEF Body
<1>2. OtaBody(Body["OTA"])
  BY OtaBodyIs
<1>3. IsBody("PINGRESP", 0)
  <2>1. Wire["PINGRESP"] = <<208, 0>> /\ PacketLen["PINGRESP"] = 2
    BY WireIs DEF PacketLen
  <2>2. \A j \in 1 .. 2 : 0 + j = j
    OBVIOUS
  <2> QED BY <1>1, <2>1, <2>2 DEF IsBody
<1>4. IsBody("ONLINE", 38)
  <2>1. Body["ONLINE"] \in Seq(Nat) /\ PacketLen["ONLINE"] = 4 + 34 + Len(Body["ONLINE"])
    BY <1>1 DEF PacketLen
  <2>2. IsPublish(Wire["ONLINE"], 300, 34, Body["ONLINE"])
    BY <1>1, WireIs
  <2>3. IsBody("ONLINE", 4 + 34)
    BY <2>1, <2>2, PublishBody
  <2> QED BY <2>3
<1>5. IsBody("OTA", 38)
  <2>1. Body["OTA"] \in Seq(Nat) /\ PacketLen["OTA"] = 4 + 34 + Len(Body["OTA"])
    <3>1. Body["OTA"] \in Seq(Nat) /\ Len(Body["OTA"]) = 31
      BY <1>2, Zenon DEF OtaBody
    <3>2. PacketLen["OTA"] = 69
      BY DEF PacketLen
    <3> QED BY <3>1, <3>2
  <2>2. IsPublish(Wire["OTA"], 300, 34, Body["OTA"])
    BY WireIs
  <2>3. IsBody("OTA", 4 + 34)
    BY <2>1, <2>2, PublishBody
  <2> QED BY <2>3
<1>6. IsBody("CONTROL", 58)
  <2>1. Body["CONTROL"] \in Seq(Nat) /\ PacketLen["CONTROL"] = 4 + 54 + Len(Body["CONTROL"])
    BY <1>1 DEF PacketLen
  <2>2. IsPublish(Wire["CONTROL"], 556, 54, Body["CONTROL"])
    BY <1>1, WireIs
  <2>3. IsBody("CONTROL", 4 + 54)
    BY <2>1, <2>2, PublishBody
  <2> QED BY <2>3
<1>7. IsBody("TRANS", 58)
  <2>1. Body["TRANS"] \in Seq(Nat) /\ PacketLen["TRANS"] = 4 + 54 + Len(Body["TRANS"])
    BY <1>1 DEF PacketLen
  <2>2. IsPublish(Wire["TRANS"], 556, 54, Body["TRANS"])
    BY <1>1, WireIs
  <2>3. IsBody("TRANS", 4 + 54)
    BY <2>1, <2>2, PublishBody
  <2> QED BY <2>3
<1>8. /\ Body["ONLINE"][5] = 2 /\ Body["ONLINE"][6] = 16 /\ Body["OTA"][5] = 2 /\ Body["OTA"][6] = 17
  BY <1>1, <1>2 DEF OtaBody
<1>9. /\ Body["CONTROL"][1] = 0 /\ Body["CONTROL"][2] = 0 /\ Body["CONTROL"][3] = 0
      /\ Body["CONTROL"][4] = 3 /\ Body["CONTROL"][5] = 4 /\ Body["CONTROL"][6] = 0
      /\ Body["CONTROL"][7] = 0 /\ Body["CONTROL"][8] = 144
  BY <1>1
<1>10. /\ Body["TRANS"][1] = 0 /\ Body["TRANS"][2] = 0 /\ Body["TRANS"][3] = 0
       /\ Body["TRANS"][4] = 3 /\ Body["TRANS"][5] = 10 /\ Body["TRANS"][6] = 0
       /\ Body["TRANS"][7] = 0 /\ Body["TRANS"][8] = 147
  BY <1>1
<1> QED BY <1>3, <1>4, <1>5, <1>6, <1>7, <1>8, <1>9, <1>10

\* The bytes copied out of a buffer that begins with the whole packet p.
LEMMA Copied ==
  ASSUME Ready, NEW p \in 1 .. Len(sent), End(p - 1) = upto - recv_len, End(p) <= upto,
         NEW index \in Nat, IsBody(sent[p], index), NEW n, n = PacketLen[sent[p]] - index
  PROVE  Bytes(index, n) = Tagged(p)
<1>1. /\ upto \in Nat /\ recv_len \in Nat /\ PacketLen[sent[p]] \in Nat /\ End(p) \in Nat
      /\ End(p) = End(p - 1) + PacketLen[sent[p]] /\ n \in Nat
  BY StateTypes, StreamIs DEF Ready, IsBody
<1>2. PacketLen[sent[p]] <= recv_len
  BY <1>1
<1>3. ASSUME NEW j \in 1 .. n
      PROVE  At(index + j - 1) = <<Body[sent[p]][j], p>>
  <2> DEFINE size == PacketLen[sent[p]]
  <2>0. size \in Nat /\ size <= recv_len /\ n = size - index /\ n \in Nat
    BY <1>1, <1>2
  <2> HIDE DEF size
  <2>1. /\ index + j - 1 \in Nat /\ index + j - 1 < recv_len /\ index + j - 1 < PacketLen[sent[p]]
        /\ (index + j - 1) + 1 = index + j
    <3>1. j \in Nat /\ j >= 1 /\ j <= n
      BY <2>0
    <3>2. index + j - 1 \in Nat /\ index + j - 1 < recv_len /\ index + j - 1 < size
      BY <1>1, <2>0, <3>1
    <3> QED BY <3>1, <3>2 DEF size
  <2>2. At(index + j - 1) = <<Wire[sent[p]][(index + j - 1) + 1], p>>
    BY <2>1, InPacket
  <2>3. Wire[sent[p]][index + j] = Body[sent[p]][j]
    BY DEF IsBody
  <2> QED BY <2>1, <2>2, <2>3
<1>4. DOMAIN Body[sent[p]] = 1 .. n
  BY DEF IsBody
<1> QED BY <1>3, <1>4 DEF Bytes, Tagged

\* Byte i of a buffer that begins with p is the j-th of its body.
LEMMA BodyByte ==
  ASSUME Ready, NEW p \in 1 .. Len(sent), End(p - 1) = upto - recv_len,
         NEW index \in Nat, IsBody(sent[p], index),
         NEW j \in 1 .. PacketLen[sent[p]] - index, NEW i, i = index + j - 1, i < recv_len
  PROVE  Value(i) = Body[sent[p]][j]
<1> DEFINE size == PacketLen[sent[p]]
<1>1. size \in Nat
  BY StreamIs
<1> HIDE DEF size
<1>2. i \in Nat /\ i < size /\ i + 1 = index + j
  <2>1. j \in Nat /\ j >= 1 /\ j <= size - index
    BY <1>1 DEF size
  <2> QED BY <1>1, <2>1
<1>3. Value(i) = Wire[sent[p]][i + 1]
  BY <1>2, InPacket DEF size
<1> QED BY <1>2, <1>3 DEF IsBody

\* The code knows a whole packet that begins its buffer.
LEMMA Recognised ==
  ASSUME Ready, NEW p \in 1 .. Len(sent), End(p - 1) = upto - recv_len, End(p) <= upto,
         sent[p] # "SUBACK"
  PROVE  \/ IsPing
         \/ IsTopic(p) /\ recv_len > 30 /\ (IsSer2cli \/ IsApp2dev)
<1>1. /\ upto \in Nat /\ recv_len \in Nat /\ PacketLen[sent[p]] \in Nat /\ End(p) \in Nat
      /\ End(p) = End(p - 1) + PacketLen[sent[p]] /\ sent[p] \in Kinds
  BY StateTypes, StreamIs DEF Ready
<1>2. PacketLen[sent[p]] <= recv_len
  BY <1>1
<1>3. CASE sent[p] = "PINGRESP"
  <2>1. Wire[sent[p]] = <<208, 0>> /\ PacketLen[sent[p]] = 2
    BY <1>3, WireIs DEF PacketLen
  <2>2. 0 < recv_len /\ 1 < recv_len /\ 0 < PacketLen[sent[p]] /\ 1 < PacketLen[sent[p]]
    BY <1>1, <1>2, <2>1
  <2>3. Value(0) = Wire[sent[p]][0 + 1] /\ Value(1) = Wire[sent[p]][1 + 1]
    BY <2>2, InPacket
  <2>4. Value(0) = 208 /\ Value(1) = 0
    BY <2>1, <2>3
  <2> QED BY <2>4, HoldsPing
<1>4. CASE sent[p] # "PINGRESP"
  <2>1. IsTopic(p)
    BY <1>4 DEF IsTopic
  <2>2. PacketLen[sent[p]] > 45
    BY <2>1, KindAt
  <2>3. recv_len > 45 /\ recv_len > 30
    BY <1>1, <1>2, <2>2
  <2>4. mqtt_head_len = 4
    BY <2>1, <2>3, HeadAt
  <2>5. ASSUME NEW j \in 1 .. 11
        PROVE  Value(mqtt_head_len + j - 1) = Wire[sent[p]][4 + j]
    <3>1. /\ mqtt_head_len + j - 1 \in Nat /\ mqtt_head_len + j - 1 < recv_len
          /\ mqtt_head_len + j - 1 < PacketLen[sent[p]] /\ (mqtt_head_len + j - 1) + 1 = 4 + j
      BY <1>1, <2>2, <2>3, <2>4
    <3> QED BY <3>1, InPacket
  <2>6. IsWire(sent[p], Wire[sent[p]])
    BY KindAt
  <2>7. CASE sent[p] \in {"ONLINE", "OTA"}
    <3>1. \A j \in 1 .. 11 : Wire[sent[p]][4 + j] = 300 + j
      <4>1. \A i \in 1 .. 34 : Wire[sent[p]][4 + i] = 300 + i
        BY <2>6, <2>7 DEF IsWire
      <4>2. \A j \in 1 .. 11 : j \in 1 .. 34
        OBVIOUS
      <4> QED BY <4>1, <4>2
    <3>2. IsSer2cli
      BY <2>5, <3>1, HoldsSer, ZenonT(30)
    <3> QED BY <2>1, <2>3, <3>2
  <2>8. CASE sent[p] \in {"CONTROL", "TRANS"}
    <3>1. \A i \in 1 .. 54 : Wire[sent[p]][4 + i] = 556 + i
      BY <2>6, <2>8 DEF IsWire
    <3>2. ASSUME NEW j \in 1 .. 8
          PROVE  Value(mqtt_head_len + j - 1) = 556 + j
      <4>1. j \in 1 .. 54 /\ j \in 1 .. 11
        OBVIOUS
      <4>2. Wire[sent[p]][4 + j] = 556 + j
        BY <3>1, <4>1, ZenonT(30)
      <4>3. Value(mqtt_head_len + j - 1) = Wire[sent[p]][4 + j]
        BY <2>5, <4>1, ZenonT(30)
      <4> QED BY <4>2, <4>3
    <3>3. IsApp2dev
      BY <3>2, HoldsApp, ZenonT(30)
    <3> QED BY <2>1, <2>3, <3>3
  <2> QED BY <1>1, <1>4, <2>7, <2>8 DEF Kinds
<1> QED BY <1>3, <1>4

\* A PINGRESP is found where one begins.
LEMMA PingAt ==
  ASSUME Ready, recv_len > 0, IsPing
  PROVE  \E p \in 1 .. Len(sent) : sent[p] = "PINGRESP" /\ End(p - 1) = upto - recv_len
<1>1. recv_len \in Nat /\ upto \in Nat /\ 0 \in Nat /\ 0 < recv_len
  BY StateTypes DEF Ready
<1>2. PICK p \in 1 .. Len(sent) : \E j \in 1 .. PacketLen[sent[p]] :
        upto - recv_len + 0 + 1 = End(p - 1) + j /\ At(0) = <<Wire[sent[p]][j], p>>
  BY <1>1, Located
<1>3. PICK j \in 1 .. PacketLen[sent[p]] :
        upto - recv_len + 0 + 1 = End(p - 1) + j /\ At(0) = <<Wire[sent[p]][j], p>>
  BY <1>2
<1>4. Wire[sent[p]][j] = 208
  BY <1>3, HoldsPing DEF Value
<1>5. sent[p] = "PINGRESP" /\ j = 1
  BY <1>4, KindAt
<1>6. End(p - 1) \in Nat
  BY StreamIs
<1>7. End(p - 1) = upto - recv_len
  BY <1>1, <1>3, <1>5, <1>6
<1> QED BY <1>5, <1>7

\* What a look at a server message finds, and what decides it.
SerFound(p, n) ==
  /\ sent[p] \in {"ONLINE", "OTA"} /\ End(p - 1) = upto - recv_len /\ recv_len > 30
  /\ Found(38, n)
  /\ \/ recv_len <= 43 /\ n >= 5
     \/ recv_len > 43 /\ n = PacketLen[sent[p]] - 38 /\ cmd' = CommandOf[sent[p]]

LEMMA SerLooks ==
  ASSUME Ready, GetSer2cli
  PROVE  \E p \in 1 .. Len(sent), n \in Nat : SerFound(p, n)
<1>1. recv_len \in Nat /\ recv_len > 30 /\ IsSer2cli
  BY StateTypes DEF Ready, GetSer2cli, Get
<1>2. Value(mqtt_head_len) = 300 + 1
  <2>1. Value(mqtt_head_len + 1 - 1) = 300 + 1
    BY <1>1, HoldsSer
  <2>2. mqtt_head_len + 1 - 1 = mqtt_head_len
    BY HeadIs DEF Ready
  <2> QED BY <2>1, <2>2
<1>3. PICK p \in 1 .. Len(sent) : sent[p] \in {"ONLINE", "OTA"} /\ End(p - 1) = upto - recv_len
  <2>1. \E p \in 1 .. Len(sent) :
           /\ sent[p] \in IF 300 = 300 THEN {"ONLINE", "OTA"} ELSE {"CONTROL", "TRANS"}
           /\ End(p - 1) = upto - recv_len
    BY <1>1, <1>2, TopicAt
  <2> QED BY <2>1
<1>4. mqtt_head_len = 4
  <2>1. IsTopic(p)
    BY <1>3 DEF IsTopic
  <2> QED BY <1>1, <1>3, <2>1, HeadAt
<1> DEFINE c == Value(42) * 256 + Value(43)
<1>5. mqtt_head_len + Len(Ser2cli) = 38 /\ 38 + 4 = 42 /\ 38 + 5 = 43
  BY <1>4, Topics
<1>6. PICK n \in Ser2cliLengths(c) : Found(38, n) /\ cmd' = c
  BY <1>5 DEF GetSer2cli
<1>7. IsBody(sent[p], 38) /\ Body[sent[p]][5] = 2
  BY <1>3, BodiesAre
<1>8. n \in Nat /\ n >= 5
  <2>1. n \in {4 + 4, 4 + 27, 4 + (4 - 3), (DEBUG_LEN - 1) \div 3, BUF_LEN, BUF_LEN + 1}
    BY <1>4, <1>6 DEF Ser2cliLengths
  <2> QED BY <2>1, BoundAssumption
<1>9. CASE recv_len > 43
  <2>1. PacketLen[sent[p]] \in {46, 69}
    BY <1>3 DEF PacketLen
  <2>2. 5 \in 1 .. PacketLen[sent[p]] - 38 /\ 6 \in 1 .. PacketLen[sent[p]] - 38
    BY <2>1
  <2>3. 42 = 38 + 5 - 1 /\ 43 = 38 + 6 - 1 /\ 42 < recv_len /\ 43 < recv_len
    BY <1>1, <1>9
  <2>4. Value(42) = 2 /\ Value(43) = Body[sent[p]][6]
    BY <1>3, <1>7, <2>2, <2>3, BodyByte, SMTT(30)
  <2>5. CASE sent[p] = "ONLINE"
    <3>1. c = 528
      BY <2>4, <2>5, BodiesAre
    <3>2. n = 8
      BY <1>6, <3>1 DEF Ser2cliLengths
    <3> QED BY <1>1, <1>3, <1>6, <1>8, <1>9, <2>5, <3>1, <3>2, SMTT(30) DEF SerFound, PacketLen, CommandOf
  <2>6. CASE sent[p] = "OTA"
    <3>1. c = 529
      BY <2>4, <2>6, BodiesAre
    <3>2. n = 31
      BY <1>6, <3>1 DEF Ser2cliLengths
    <3> QED BY <1>1, <1>3, <1>6, <1>8, <1>9, <2>6, <3>1, <3>2, SMTT(30) DEF SerFound, PacketLen, CommandOf
  <2> QED BY <1>3, <2>5, <2>6
<1>10. CASE recv_len <= 43
  BY <1>1, <1>3, <1>6, <1>8, <1>10 DEF SerFound
<1> QED BY <1>1, <1>9, <1>10

LEMMA OneDigit ==
  ASSUME NEW v \in 0 .. 127, NEW b, NEW c
  PROVE  mqtt_num_rem_len_bytes(v, b, c) = 1 /\ mqtt_parse_rem_len(v, b, c) = v
<1>1. ~Continues(v) /\ v % 128 = v
  BY ShortByte
<1>2. (v + 0 + 0) % 65536 = v
  OBVIOUS
<1> QED BY <1>1, <1>2 DEF mqtt_num_rem_len_bytes, mqtt_parse_rem_len

\* What a look at a message of an application finds, and what decides it.
IsApp(p) == sent[p] \in {"CONTROL", "TRANS"} /\ End(p - 1) = upto - recv_len /\ recv_len > 30

AppFound(n, size) ==
  /\ Found(58, n)
  /\ \/ recv_len <= 62 /\ n >= 5
     \/ recv_len > 62 /\ n = size - 58 /\ cmd' = Value(64) * 256 + Value(65)

AppDropped ==
  recv_len <= 62 /\ packet' = <<>> /\ Clear /\ Return0 /\ UNCHANGED <<one_packet_len, dead>>

LEMMA AppLooks ==
  ASSUME Ready, GetApp2dev
  PROVE  \E p \in 1 .. Len(sent) :
           IsApp(p) /\ (AppDropped \/ \E n \in Nat : AppFound(n, PacketLen[sent[p]]))
<1>1. recv_len \in Nat /\ recv_len > 30 /\ IsApp2dev
  BY StateTypes DEF Ready, GetApp2dev, Get
<1>2. Value(mqtt_head_len) = 556 + 1
  <2>1. Value(mqtt_head_len + 1 - 1) = 556 + 1
    BY <1>1, HoldsApp
  <2>2. mqtt_head_len + 1 - 1 = mqtt_head_len
    BY HeadIs DEF Ready
  <2> QED BY <2>1, <2>2
<1>3. PICK p \in 1 .. Len(sent) : IsApp(p)
  <2>1. \E p \in 1 .. Len(sent) :
           /\ sent[p] \in IF 556 = 300 THEN {"ONLINE", "OTA"} ELSE {"CONTROL", "TRANS"}
           /\ End(p - 1) = upto - recv_len
    BY <1>1, <1>2, TopicAt
  <2> QED BY <1>1, <2>1 DEF IsApp
<1>4. mqtt_head_len = 4
  <2>1. IsTopic(p)
    BY <1>3 DEF IsTopic, IsApp
  <2> QED BY <1>1, <1>3, <2>1, HeadAt DEF IsApp
<1> DEFINE len == mqtt_parse_rem_len(Value(62), Value(63), Value(64))
           length_len == mqtt_num_rem_len_bytes(Value(62), Value(63), Value(64))
<1>5. mqtt_head_len + Len(App2dev) = 58 /\ 58 + 4 = 62 /\ 58 + 5 = 63 /\ 58 + 6 = 64
  BY <1>4, Topics
<1>6. \/ /\ cmd' = Value(62 + length_len + 1) * 256 + Value(62 + length_len + 2)
         /\ Found(58, 4 + len + length_len)
      \/ /\ ~Holds(58, <<0, 0, 0, 3>>)
         /\ packet' = <<>> /\ Clear /\ Return0 /\ UNCHANGED <<one_packet_len, dead>>
  BY <1>5 DEF GetApp2dev
<1>7. len \in Nat /\ length_len \in 1 .. 4
  <2>1. Value(62) \in Nat /\ Value(63) \in Nat /\ Value(64) \in Nat
    BY AtType DEF Ready
  <2> QED BY <2>1, NumIs, ParseIs
<1>8. CASE recv_len <= 62
  <2>1. 4 + len + length_len \in Nat /\ 4 + len + length_len >= 5
    <3> HIDE DEF len, length_len
    <3> QED BY <1>7
  <2> DEFINE n == 4 + len + length_len
  <2>2. CASE Found(58, n)
    <3> HIDE DEF len, length_len
    <3>1. AppFound(n, PacketLen[sent[p]])
      BY <1>8, <2>1, <2>2 DEF AppFound
    <3> QED BY <1>3, <2>1, <3>1
  <2>3. CASE packet' = <<>> /\ Clear /\ Return0 /\ UNCHANGED <<one_packet_len, dead>>
    BY <1>3, <1>8, <2>3 DEF AppDropped
  <2> QED BY <1>6, <2>2, <2>3
<1>9. CASE recv_len > 62
  <2>0. sent[p] \in {"CONTROL", "TRANS"} /\ End(p - 1) = upto - recv_len
    BY <1>3 DEF IsApp
  <2>1. PacketLen[sent[p]] \in {67, 73}
    BY <2>0 DEF PacketLen
  <2>2. /\ 1 \in 1 .. PacketLen[sent[p]] - 58 /\ 2 \in 1 .. PacketLen[sent[p]] - 58
        /\ 3 \in 1 .. PacketLen[sent[p]] - 58 /\ 4 \in 1 .. PacketLen[sent[p]] - 58
        /\ 5 \in 1 .. PacketLen[sent[p]] - 58
    BY <2>1
  <2>3. IsBody(sent[p], 58)
    BY <2>0, BodiesAre
  <2>4. /\ 58 = 58 + 1 - 1 /\ 59 = 58 + 2 - 1 /\ 60 = 58 + 3 - 1 /\ 61 = 58 + 4 - 1 /\ 62 = 58 + 5 - 1
        /\ 58 < recv_len /\ 59 < recv_len /\ 60 < recv_len /\ 61 < recv_len /\ 62 < recv_len
    BY <1>1, <1>9
  <2>5. /\ Value(58) = Body[sent[p]][1] /\ Value(59) = Body[sent[p]][2] /\ Value(60) = Body[sent[p]][3]
        /\ Value(61) = Body[sent[p]][4] /\ Value(62) = Body[sent[p]][5]
    BY <2>0, <2>2, <2>3, <2>4, BodyByte
  <2>6. Holds(58, <<0, 0, 0, 3>>)
    <3>1. Value(58) = 0 /\ Value(59) = 0 /\ Value(60) = 0 /\ Value(61) = 3
      BY <2>0, <2>5, BodiesAre
    <3> DEFINE v == <<0, 0, 0, 3>>
    <3>2. DOMAIN v = 1 .. 4 /\ v[1] = 0 /\ v[2] = 0 /\ v[3] = 0 /\ v[4] = 3
      OBVIOUS
    <3> HIDE DEF v
    <3>3. \A j \in 1 .. 4 : j = 1 \/ j = 2 \/ j = 3 \/ j = 4
      OBVIOUS
    <3>4. \A j \in 1 .. 4 : Value(58 + j - 1) = v[j]
      <4> TAKE j \in 1 .. 4
      <4>1. CASE j = 1
        BY <2>4, <3>1, <3>2, <4>1
      <4>2. CASE j = 2
        BY <2>4, <3>1, <3>2, <4>2
      <4>3. CASE j = 3
        BY <2>4, <3>1, <3>2, <4>3
      <4>4. CASE j = 4
        BY <2>4, <3>1, <3>2, <4>4
      <4> QED BY <3>3, <4>1, <4>2, <4>3, <4>4
    <3>5. Holds(58, v)
      BY <3>2, <3>4 DEF Holds
    <3> QED BY <3>5 DEF v
  <2>7. length_len = 1 /\ 4 + len + length_len = PacketLen[sent[p]] - 58
    <3>1. CASE sent[p] = "CONTROL"
      <4>1. Value(62) = 4 /\ PacketLen[sent[p]] = 67
        BY <2>5, <3>1, BodiesAre DEF PacketLen
      <4>2. len = 4 /\ length_len = 1
        BY <4>1, OneDigit
      <4> QED BY <4>1, <4>2
    <3>2. CASE sent[p] = "TRANS"
      <4>1. Value(62) = 10 /\ PacketLen[sent[p]] = 73
        BY <2>5, <3>2, BodiesAre DEF PacketLen
      <4>2. len = 10 /\ length_len = 1
        BY <4>1, OneDigit
      <4> QED BY <4>1, <4>2
    <3> QED BY <2>0, <3>1, <3>2
  <2>8. cmd' = Value(64) * 256 + Value(65) /\ Found(58, PacketLen[sent[p]] - 58)
    <3>1. 62 + 1 + 1 = 64 /\ 62 + 1 + 2 = 65
      OBVIOUS
    <3> QED BY <1>6, <2>6, <2>7, <3>1
  <2>9. PacketLen[sent[p]] - 58 \in Nat
    BY <2>1
  <2>10. AppFound(PacketLen[sent[p]] - 58, PacketLen[sent[p]])
    BY <1>9, <2>8 DEF AppFound
  <2> QED BY <1>3, <2>9, <2>10
<1> QED BY <1>1, <1>8, <1>9

\* What the switch is about to see has its type.
LEMMA DispatchingType ==
  ASSUME TypeInv
  PROVE  Dispatching \in Dispatches /\ done \in Dispatches
<1>1. done \in Seq(Nat \X Seq(Byte)) /\ cmd \in Nat /\ packet \in Seq(Byte)
  BY DEF TypeInv, TypeOK, Byte
<1>2. <<cmd, packet>> \in Nat \X Seq(Byte)
  BY <1>1
<1> HIDE DEF Byte
<1>3. Append(done, <<cmd, packet>>) \in Seq(Nat \X Seq(Byte))
  BY <1>1, <1>2, AppendProperties
<1> QED BY <1>1, <1>3 DEF Dispatching, Dispatches

\* A look that finds a packet shows it to the switch next.
LEMMA Shown ==
  ASSUME pc = "get", pc' = "dispatch", UNCHANGED done
  PROVE  Dispatching = done /\ Dispatching' = Append(done, <<cmd', packet'>>)
  BY DEF Dispatching

LEMMA PingRound ==
  ASSUME Ready, RoundInv, GetPing, dead' = "no"
  PROVE  Round(Dispatching', recv_len')
<1>1. pc = "get" /\ dead = "no" /\ recv_len > 0 /\ IsPing /\ UNCHANGED done /\ pc' = "dispatch"
  BY DEF GetPing, Get, Return0
<1>2. Dispatching = done /\ Dispatching' = Append(done, <<cmd', packet'>>)
  BY <1>1, Shown
<1>3. Round(done, recv_len) /\ done \in Dispatches
  BY <1>1, <1>2, DispatchingType DEF RoundInv, Ready
<1>4. recv_len \in Nat /\ upto \in Nat
  BY StateTypes DEF Ready
<1>5. packet' = Bytes(0, 2) /\ cmd' = 208 /\ recv_len >= 2 /\ recv_len' = recv_len - 2
  <2>1. packet' = Bytes(0, 2) /\ cmd' = 208
    BY DEF GetPing
  <2>2. ~(recv_len < 2)
    BY DEF GetPing
  <2>3. recv_len' = recv_len - 2
    BY <2>2 DEF GetPing, Shift
  <2> QED BY <1>4, <2>1, <2>2, <2>3
<1>6. PICK p \in 1 .. Len(sent) : sent[p] = "PINGRESP" /\ End(p - 1) = upto - recv_len
  BY <1>1, PingAt
<1>7. End(p) \in Nat /\ End(p) = upto - recv_len + 2
  <2>1. End(p) \in Nat /\ End(p) = End(p - 1) + PacketLen[sent[p]]
    BY StreamIs
  <2> QED BY <1>6, <2>1 DEF PacketLen
<1>8. End(p) <= upto /\ upto - End(p) = recv_len'
  BY <1>4, <1>5, <1>7
<1>9. packet' = Tagged(p)
  <2>1. IsBody(sent[p], 0) /\ 2 = PacketLen[sent[p]] - 0
    BY <1>6, BodiesAre DEF PacketLen
  <2> QED BY <1>5, <1>6, <1>8, <2>1, Copied
<1>10. <<cmd', packet'>> = Command(p)
  BY <1>5, <1>6, <1>9 DEF Command, CommandOf
<1>11. Round(Append(done, Command(p)), upto - End(p))
  <2>1. sent[p] # "SUBACK"
    BY <1>6
  <2> QED BY <1>1, <1>3, <1>6, <1>8, <2>1, RoundAdvances
<1> QED BY <1>2, <1>8, <1>10, <1>11

LEMMA ShortRound ==
  ASSUME Ready, RoundInv, GetShort
  PROVE  Round(Dispatching', recv_len')
<1>1. /\ pc = "get" /\ dead = "no" /\ recv_len > 0 /\ ~IsPing /\ recv_len <= 30
      /\ UNCHANGED done /\ pc' = "delay" /\ recv_len' = 0
  BY DEF GetShort, Get, Clear
<1>2. Dispatching = done /\ Dispatching' = done
  BY <1>1 DEF Dispatching
<1>3. Round(done, recv_len) /\ done \in Dispatches
  BY <1>1, <1>2, DispatchingType DEF RoundInv, Ready
<1>4. NoPacket
  <2> SUFFICES ASSUME NEW p \in 1 .. Len(sent), End(p - 1) = upto - recv_len, sent[p] # "SUBACK",
                      ~(End(p) > upto)
               PROVE  FALSE
    BY DEF NoPacket
  <2>1. recv_len \in Nat /\ upto \in Nat /\ End(p) \in Nat
    BY StateTypes, StreamIs DEF Ready
  <2>2. End(p) <= upto
    BY <2>1
  <2> QED BY <1>1, <2>1, <2>2, Recognised
<1> QED BY <1>1, <1>2, <1>3, <1>4, RoundDrops

LEMMA UnknownIsNone ==
  ASSUME Ready, GetUnknown
  PROVE  NoPacket
<1>1. recv_len > 0 /\ ~IsPing /\ recv_len > 30 /\ ~IsSer2cli /\ ~IsApp2dev
  BY DEF GetUnknown, Get
<1> SUFFICES ASSUME NEW p \in 1 .. Len(sent), End(p - 1) = upto - recv_len, sent[p] # "SUBACK",
                    ~(End(p) > upto)
             PROVE  FALSE
  BY DEF NoPacket
<1>2. upto \in Nat /\ End(p) \in Nat
  BY StateTypes, StreamIs DEF Ready
<1>3. End(p) <= upto
  BY <1>2
<1> QED BY <1>1, <1>3, Recognised

LEMMA UnknownRound ==
  ASSUME Ready, RoundInv, GetUnknown
  PROVE  Round(Dispatching', recv_len')
<1>1. /\ pc = "get" /\ dead = "no" /\ recv_len > 0 /\ ~IsPing /\ ~IsSer2cli /\ ~IsApp2dev
      /\ UNCHANGED done /\ pc' = "dispatch" /\ recv_len' = 0 /\ packet' = <<>>
  BY DEF GetUnknown, Get, Clear, Return0
<1>2. Dispatching = done /\ Dispatching' = Append(done, <<cmd', packet'>>)
  BY <1>1, Shown
<1>3. Round(done, recv_len) /\ done \in Dispatches
  BY <1>1, <1>2, DispatchingType DEF RoundInv, Ready
<1>4. NoPacket
  BY UnknownIsNone
<1>5. <<cmd', packet'>>[2] = <<>>
  BY <1>1
<1>6. Round(Append(done, <<cmd', packet'>>), 0)
  BY <1>1, <1>3, <1>4, <1>5, RoundDrops
<1> QED BY <1>1, <1>2, <1>6

\* A cut packet that was found ends the round.
LEMMA CutRound ==
  ASSUME Ready, RoundInv, pc = "get", dead = "no", recv_len > 0, UNCHANGED done, pc' = "dispatch",
         recv_len' = 0,
         NEW p \in 1 .. Len(sent), End(p - 1) = upto - recv_len, End(p) > upto
  PROVE  Round(Dispatching', recv_len')
<1>2. Dispatching = done /\ Dispatching' = Append(done, <<cmd', packet'>>)
  BY Shown
<1>3. Round(done, recv_len) /\ done \in Dispatches
  BY <1>2, DispatchingType DEF RoundInv, Ready
<1>4. NoPacket
  <2> SUFFICES ASSUME NEW q \in 1 .. Len(sent), End(q - 1) = upto - recv_len
               PROVE  End(q) > upto
    BY DEF NoPacket
  <2>1. q - 1 \in 0 .. Len(sent) /\ p - 1 \in 0 .. Len(sent)
    BY StreamIs
  <2>2. q - 1 = p - 1
    BY <2>1, StreamIs
  <2>3. q = p
    BY <2>2
  <2> QED BY <2>3
<1>6. Round(Append(done, <<cmd', packet'>>), 0)
  BY <1>3, <1>4, RoundDrops
<1> QED BY <1>2, <1>6

\* A whole packet that was found is shown to the switch.
LEMMA WholeRound ==
  ASSUME Ready, RoundInv, pc = "get", dead = "no", recv_len > 0, UNCHANGED done, pc' = "dispatch",
         NEW p \in 1 .. Len(sent), End(p - 1) = upto - recv_len, End(p) <= upto, sent[p] # "SUBACK",
         recv_len' = upto - End(p), packet' = Tagged(p), cmd' = CommandOf[sent[p]]
  PROVE  Round(Dispatching', recv_len')
<1>1. Dispatching = done /\ Dispatching' = Append(done, <<cmd', packet'>>)
  BY Shown
<1>2. Round(done, recv_len) /\ done \in Dispatches
  BY <1>1, DispatchingType DEF RoundInv, Ready
<1>3. <<cmd', packet'>> = Command(p)
  BY DEF Command
<1>4. Round(Append(done, Command(p)), upto - End(p))
  BY <1>2, RoundAdvances
<1> QED BY <1>1, <1>3, <1>4

\* Found copies a packet whose body begins at index and is n bytes long, or what
\* there is of it.
LEMMA FoundTakes ==
  ASSUME Ready, NEW index \in Nat, NEW n \in Nat, Found(index, n), dead = "no", dead' = "no"
  PROVE  /\ packet' = Bytes(index, n) /\ pc' = "dispatch"
         /\ recv_len' = IF recv_len <= index + n THEN 0 ELSE recv_len - (index + n)
<1>1. recv_len \in Nat /\ pc' = "dispatch"
  BY StateTypes DEF Ready, Found, Return0
<1>2. /\ packet' = Bytes(index, n)
      /\ Moved(IF recv_len <= index + n THEN recv_len ELSE index + n)
  BY FoundMoves DEF Ready
<1>3. recv_len' = recv_len - (IF recv_len <= index + n THEN recv_len ELSE index + n)
  BY <1>2 DEF Moved
<1> QED BY <1>1, <1>2, <1>3

\* One that is found at its place is taken whole or with all that follows it.
LEMMA FoundRound ==
  ASSUME Ready, RoundInv, pc = "get", dead = "no", dead' = "no", recv_len > 0, UNCHANGED done,
         NEW p \in 1 .. Len(sent), End(p - 1) = upto - recv_len, sent[p] # "SUBACK",
         NEW index \in Nat, NEW n \in Nat, Found(index, n),
         IsBody(sent[p], index), NEW small \in Nat, small < PacketLen[sent[p]],
         \/ recv_len <= small /\ index + n >= small
         \/ /\ recv_len > small /\ n = PacketLen[sent[p]] - index
            /\ End(p) <= upto => cmd' = CommandOf[sent[p]]
  PROVE  Round(Dispatching', recv_len')
<1>1. /\ upto \in Nat /\ recv_len \in Nat /\ PacketLen[sent[p]] \in Nat /\ End(p) \in Nat
      /\ End(p) = End(p - 1) + PacketLen[sent[p]]
  BY StateTypes, StreamIs DEF Ready
<1>2. /\ packet' = Bytes(index, n) /\ pc' = "dispatch"
      /\ recv_len' = IF recv_len <= index + n THEN 0 ELSE recv_len - (index + n)
  BY FoundTakes
<1>3. CASE End(p) > upto
  <2>1. recv_len < PacketLen[sent[p]]
    BY <1>1, <1>3
  <2>2. recv_len <= index + n
    BY <1>1, <2>1, SMTT(30)
  <2> QED BY <1>2, <1>3, <2>2, CutRound
<1>4. CASE End(p) <= upto
  <2>1. PacketLen[sent[p]] <= recv_len
    BY <1>1, <1>4
  <2>2. ~(recv_len <= small)
    BY <1>1, <2>1
  <2>3. n = PacketLen[sent[p]] - index /\ cmd' = CommandOf[sent[p]]
    BY <1>4, <2>2
  <2>4. index + n = PacketLen[sent[p]]
    BY <1>1, <2>3
  <2>5. recv_len' = upto - End(p)
    BY <1>1, <1>2, <2>1, <2>4
  <2>6. packet' = Tagged(p)
    BY <1>2, <1>4, <2>3, Copied
  <2> QED BY <1>2, <1>4, <2>3, <2>5, <2>6, WholeRound
<1> QED BY <1>1, <1>3, <1>4

LEMMA SerRound ==
  ASSUME Ready, RoundInv, GetSer2cli, dead' = "no"
  PROVE  Round(Dispatching', recv_len')
<1>1. /\ pc = "get" /\ dead = "no" /\ recv_len > 0 /\ UNCHANGED done /\ recv_len \in Nat
  BY StateTypes DEF Ready, GetSer2cli, Get
<1>2. PICK p \in 1 .. Len(sent), n \in Nat : SerFound(p, n)
  BY SerLooks
<1>3. sent[p] \in {"ONLINE", "OTA"} /\ End(p - 1) = upto - recv_len /\ Found(38, n)
  BY <1>2 DEF SerFound
<1>4. IsBody(sent[p], 38) /\ 43 < PacketLen[sent[p]] /\ sent[p] # "SUBACK"
  BY <1>3, BodiesAre, SMTT(30) DEF PacketLen
<1>5. \/ recv_len <= 43 /\ 38 + n >= 43
      \/ /\ recv_len > 43 /\ n = PacketLen[sent[p]] - 38
         /\ End(p) <= upto => cmd' = CommandOf[sent[p]]
  <2>1. CASE recv_len <= 43 /\ n >= 5
    <3>1. 38 + n >= 43
      BY <2>1
    <3> QED BY <2>1, <3>1
  <2>2. CASE recv_len > 43 /\ n = PacketLen[sent[p]] - 38 /\ cmd' = CommandOf[sent[p]]
    BY <2>2
  <2> QED BY <1>2, <2>1, <2>2 DEF SerFound
<1>6. 38 \in Nat /\ 43 \in Nat
  OBVIOUS
<1> QED BY <1>1, <1>3, <1>4, <1>5, <1>6, FoundRound

LEMMA AppRound ==
  ASSUME Ready, RoundInv, GetApp2dev, dead' = "no"
  PROVE  Round(Dispatching', recv_len')
<1>1. /\ pc = "get" /\ dead = "no" /\ recv_len > 0 /\ UNCHANGED done /\ recv_len \in Nat /\ upto \in Nat
  BY StateTypes DEF Ready, GetApp2dev, Get
<1>2. PICK p \in 1 .. Len(sent) :
        IsApp(p) /\ (AppDropped \/ \E n \in Nat : AppFound(n, PacketLen[sent[p]]))
  BY AppLooks
<1>3. sent[p] \in {"CONTROL", "TRANS"} /\ End(p - 1) = upto - recv_len
  BY <1>2 DEF IsApp
<1>4. /\ IsBody(sent[p], 58) /\ 63 < PacketLen[sent[p]] /\ 62 < PacketLen[sent[p]] /\ sent[p] # "SUBACK"
      /\ PacketLen[sent[p]] \in {67, 73} /\ End(p) \in Nat /\ End(p) = End(p - 1) + PacketLen[sent[p]]
  <2>1. IsBody(sent[p], 58) /\ sent[p] # "SUBACK"
    BY <1>3, BodiesAre
  <2>2. PacketLen[sent[p]] \in {67, 73}
    BY <1>3 DEF PacketLen
  <2>3. End(p) \in Nat /\ End(p) = End(p - 1) + PacketLen[sent[p]]
    BY StreamIs
  <2> QED BY <2>1, <2>2, <2>3
<1>5. CASE AppDropped
  <2>1. recv_len <= 62 /\ recv_len' = 0 /\ pc' = "dispatch"
    BY <1>5 DEF AppDropped, Clear, Return0
  <2>2. End(p) > upto
    BY <1>1, <1>3, <1>4, <2>1
  <2> QED BY <1>1, <1>3, <2>1, <2>2, CutRound
<1>6. CASE \E n \in Nat : AppFound(n, PacketLen[sent[p]])
  <2>1. PICK n \in Nat : AppFound(n, PacketLen[sent[p]])
    BY <1>6
  <2>2. Found(58, n)
    BY <2>1 DEF AppFound
  <2>3. ASSUME End(p) <= upto, cmd' = Value(64) * 256 + Value(65)
        PROVE  cmd' = CommandOf[sent[p]]
    <3>1. 67 <= recv_len
      BY <1>1, <1>3, <1>4, <2>3, SMTT(30)
    <3>2. /\ 7 \in 1 .. PacketLen[sent[p]] - 58 /\ 8 \in 1 .. PacketLen[sent[p]] - 58
          /\ 64 = 58 + 7 - 1 /\ 65 = 58 + 8 - 1 /\ 64 < recv_len /\ 65 < recv_len
      BY <1>1, <1>4, <3>1
    <3>3. Value(64) = Body[sent[p]][7] /\ Value(65) = Body[sent[p]][8]
      <4>1. 58 \in Nat /\ IsBody(sent[p], 58) /\ End(p - 1) = upto - recv_len
        BY <1>3, <1>4
      <4>2. Value(64) = Body[sent[p]][7]
        BY <3>2, <4>1, BodyByte
      <4>3. Value(65) = Body[sent[p]][8]
        BY <3>2, <4>1, BodyByte
      <4> QED BY <4>2, <4>3
    <3>4. CASE sent[p] = "CONTROL"
      <4>1. Value(64) = 0 /\ Value(65) = 144
        BY <3>3, <3>4, BodiesAre
      <4> QED BY <2>3, <3>4, <4>1 DEF CommandOf
    <3>5. CASE sent[p] = "TRANS"
      <4>1. Value(64) = 0 /\ Value(65) = 147
        BY <3>3, <3>5, BodiesAre
      <4> QED BY <2>3, <3>5, <4>1 DEF CommandOf
    <3> QED BY <1>3, <3>4, <3>5
  <2>4. \/ recv_len <= 62 /\ 58 + n >= 62
        \/ /\ recv_len > 62 /\ n = PacketLen[sent[p]] - 58
           /\ End(p) <= upto => cmd' = CommandOf[sent[p]]
    <3>1. CASE recv_len <= 62 /\ n >= 5
      <4>1. 58 + n >= 62
        BY <3>1
      <4> QED BY <3>1, <4>1
    <3>2. CASE recv_len > 62 /\ n = PacketLen[sent[p]] - 58 /\ cmd' = Value(64) * 256 + Value(65)
      BY <2>3, <3>2
    <3> QED BY <2>1, <3>1, <3>2 DEF AppFound
  <2>5. 58 \in Nat /\ 62 \in Nat
    OBVIOUS
  <2> QED BY <1>1, <1>3, <1>4, <2>2, <2>4, <2>5, FoundRound
<1> QED BY <1>2, <1>5, <1>6

LEMMA DispatchedRound ==
  ASSUME Ready, RoundInv, Forget \/ TransData \/ PushOta
  PROVE  Round(Dispatching', recv_len')
<1>1. /\ pc = "dispatch" /\ dead = "no" /\ pc' = "get" /\ recv_len' = recv_len
      /\ done' = IF Len(done) > MaxPackets + 1 THEN done ELSE Append(done, <<cmd, packet>>)
  BY DEF Forget, TransData, PushOta, Dispatched
<1> DEFINE d == Append(done, <<cmd, packet>>)
<1>2. Dispatching = d /\ Dispatching' = done'
  BY <1>1 DEF Dispatching
<1>3. Round(d, recv_len)
  BY <1>1, <1>2 DEF RoundInv
<1>4. Len(sent) \in Nat /\ Len(sent) <= MaxPackets /\ MaxPackets \in Nat /\ Len(done) \in Nat
  BY StreamIs, DispatchingType, BoundAssumption DEF Ready, TypeInv, TypeOK, Dispatches
<1>5. Len(d) = Len(done) + 1
  BY DispatchingType, Appended DEF Ready, Dispatches
<1> HIDE DEF d
<1>6. Len(d) <= Len(sent) + 1
  <2>1. CASE \E f \in 0 .. Len(sent) : End(f) = from
    <3>1. PICK f \in 0 .. Len(sent) : IF recv_len > 0 THEN InStep(f, d, recv_len) ELSE Exact(f, d)
      BY <1>3, <2>1 DEF Round
    <3>2. CASE InStep(f, d, recv_len)
      <4>1. \E k \in 0 .. Len(sent) - f : Len(d) = k
        BY <3>2 DEF InStep
      <4> QED BY <1>4, <4>1
    <3>3. CASE Exact(f, d)
      <4>1. PICK k \in 0 .. Len(sent) - f : Len(d) \in k .. k + (IF upto = End(f + k) THEN 0 ELSE 1)
        BY <3>3 DEF Exact
      <4>2. k \in Nat /\ k <= Len(sent) /\ Len(d) <= k + 1
        BY <1>4, <1>5, <4>1
      <4> QED BY <1>4, <1>5, <4>2
    <3> QED BY <3>1, <3>2, <3>3
  <2>2. CASE \A f \in 0 .. Len(sent) : End(f) # from
    <3>1. Len(d) <= 1
      BY <1>3, <2>2 DEF Round
    <3> QED BY <1>4, <1>5, <3>1
  <2> QED BY <2>1, <2>2
<1>7. done' = d
  <2>1. ~(Len(done) > MaxPackets + 1)
    BY <1>4, <1>5, <1>6
  <2> QED BY <1>1, <2>1 DEF d
<1> QED BY <1>1, <1>2, <1>3, <1>7

\* The round begins with the first byte that readn returns.
AtStart == upto - recv_len = from
Begun == Round(<<>>, recv_len)

LEMMA BegunNext == Ready' /\ AtStart' => Begun'
<1>1. Ready /\ AtStart => Begun
  BY RoundBegins DEF AtStart, Begun
<1> QED BY <1>1, PTL

LEMMA PollRound ==
  ASSUME Ready, Poll, Ready', pc' # "readn"
  PROVE  RoundInv'
<1>1. /\ pos' \in Nat /\ upto' = pos' /\ recv_len' = recv_len + (pos' - pos) /\ upto = pos
      /\ recv_len = upto - from /\ done' = <<>> /\ from' = from /\ pc' \in {"delay", "get"}
  BY PollIs DEF PollEnds
<1>2. upto' - recv_len' = from'
  <2>1. pos \in Nat /\ from \in Nat /\ recv_len \in Nat /\ pos <= pos' /\ recv_len = pos - from
    BY <1>1, StateTypes, PollIs DEF Ready
  <2>2. IsFilled(from, recv_len, pos, pos', recv_len')
    BY <1>1, <2>1, FillSizes
  <2> QED BY <1>1, <2>2 DEF IsFilled
<1>3. Begun'
  BY <1>2, BegunNext DEF AtStart
<1>4. Dispatching' = <<>>
  BY <1>1 DEF Dispatching
<1> QED BY <1>3, <1>4 DEF Begun, RoundInv

\* What the broker sends later is no part of the round.
LEMMA RoundKept ==
  ASSUME Ready, Kept, UNCHANGED <<upto, from>>, NEW d, NEW r, Round(d, r)
  PROVE  Round(d, r)'
<1>1. /\ Len(sent) \in Nat /\ upto \in Nat /\ from \in Nat /\ from <= upto /\ upto <= Len(bytes)
      /\ Len(bytes) \in Nat /\ Len(sent') = Len(sent) + 1
  BY StreamIs, StateTypes DEF Ready, Kept
<1>2. ASSUME NEW p \in 0 .. Len(sent) PROVE End(p)' = End(p)
  BY DEF Kept
<1>3. ASSUME NEW p \in 1 .. Len(sent) PROVE sent'[p] = sent[p] /\ Command(p)' = Command(p)
  BY DEF Kept, Command, Tagged
<1>4. ASSUME NEW p, p = Len(sent) + 1 
      PROVE  End(p)' = ends'[Len(sent) + 1] /\ ends'[Len(sent) + 1] \in Nat /\ ends'[Len(sent) + 1] > Len(bytes)
  BY <1>1, <1>4 DEF Kept, End
<1>5. ASSUME NEW f \in 0 .. Len(sent), NEW i \in Nat, i >= 1, f + i <= Len(sent)
      PROVE  Known(f, i)' <=> Known(f, i)
  <2>1. f + i \in 1 .. Len(sent) /\ f + i \in 0 .. Len(sent) /\ f + i <= Len(sent')
    BY <1>1, <1>5
  <2>2. End(f + i)' = End(f + i) /\ sent'[f + i] = sent[f + i]
    BY <1>2, <1>3, <2>1
  <2> QED BY <1>5, <2>1, <2>2 DEF Known
<1>6. ASSUME NEW f \in 0 .. Len(sent), NEW k \in 0 .. Len(sent) - f, AllKnown(f, k, d)
      PROVE  AllKnown(f, k, d)'
  <2>1. SUFFICES ASSUME NEW i \in 1 .. k PROVE Known(f, i)' /\ d[i] = Command(f + i)'
    BY DEF AllKnown
  <2>2. i \in Nat /\ i >= 1 /\ f + i <= Len(sent) /\ f + i \in 1 .. Len(sent)
    BY <1>1
  <2>3. Known(f, i) /\ d[i] = Command(f + i)
    BY <1>6 DEF AllKnown
  <2>4. Known(f, i)'
    BY <1>5, <2>2, <2>3
  <2>5. Command(f + i)' = Command(f + i)
    BY <1>3, <2>2
  <2> QED BY <2>3, <2>4, <2>5
<1>7. ASSUME NEW f \in 0 .. Len(sent), NEW k \in 0 .. Len(sent) - f, ~Known(f, k + 1)
      PROVE  ~Known(f, k + 1)'
  <2>1. CASE f + (k + 1) <= Len(sent)
    <3>1. k + 1 \in Nat /\ k + 1 >= 1
      BY <1>1
    <3> QED BY <1>5, <1>7, <2>1, <3>1
  <2>2. CASE f + (k + 1) = Len(sent) + 1
    <3>1. /\ End(f + (k + 1))' = ends'[Len(sent) + 1]
          /\ ends'[Len(sent) + 1] \in Nat /\ ends'[Len(sent) + 1] > Len(bytes)
      BY <1>4, <2>2
    <3>2. ~(End(f + (k + 1))' <= upto)
      BY <1>1, <3>1
    <3> QED BY <3>2 DEF Known
  <2> QED BY <1>1, <2>1, <2>2
<1>8. ASSUME NEW f \in 0 .. Len(sent)' , End(f)' = from'
      PROVE  (IF r > 0 THEN InStep(f, d, r) ELSE Exact(f, d))'
  <2>1. f \in 0 .. Len(sent) /\ End(f) = from
    <3>1. f # Len(sent) + 1
      <4>1. SUFFICES ASSUME f = Len(sent) + 1 PROVE FALSE
        OBVIOUS
      <4>2. End(f)' > Len(bytes)
        BY <1>4, <4>1
      <4> QED BY <1>1, <1>8, <4>2
    <3>2. f \in 0 .. Len(sent)
      BY <1>1, <3>1
    <3> QED BY <1>2, <1>8, <3>2
  <2>2. IF r > 0 THEN InStep(f, d, r) ELSE Exact(f, d)
    BY <2>1 DEF Round
  <2>3. ASSUME NEW k \in 0 .. Len(sent) - f
        PROVE  k \in 0 .. Len(sent') - f /\ End(f + k)' = End(f + k)
    <3>1. f + k \in 0 .. Len(sent) /\ k \in 0 .. Len(sent') - f
      BY <1>1, <2>1
    <3> QED BY <1>2, <3>1
  <2>4. CASE r > 0
    <3>1. PICK k \in 0 .. Len(sent) - f : AllKnown(f, k, d) /\ Len(d) = k /\ End(f + k) = upto - r
      BY <2>2, <2>4 DEF InStep
    <3>2. AllKnown(f, k, d)' /\ End(f + k)' = upto' - r
      BY <1>6, <2>1, <2>3, <3>1
    <3>3. InStep(f, d, r)'
      BY <2>3, <3>1, <3>2 DEF InStep
    <3> QED BY <2>4, <3>3
  <2>5. CASE ~(r > 0)
    <3>1. PICK k \in 0 .. Len(sent) - f :
            /\ AllKnown(f, k, d) /\ ~Known(f, k + 1)
            /\ Len(d) \in k .. k + (IF upto = End(f + k) THEN 0 ELSE 1)
      BY <2>2, <2>5 DEF Exact
    <3>2. AllKnown(f, k, d)' /\ ~Known(f, k + 1)'
      BY <1>6, <1>7, <2>1, <3>1
    <3>3. Len(d) \in k .. k + (IF upto' = End(f + k)' THEN 0 ELSE 1)
      BY <2>3, <3>1
    <3>4. Exact(f, d)'
      BY <2>3, <3>2, <3>3 DEF Exact
    <3> QED BY <2>5, <3>4
  <2> QED BY <2>4, <2>5
<1>9. ASSUME \A p \in 0 .. Len(sent)' : End(p)' # from'
      PROVE  /\ r > 0 => d = <<>> /\ upto' - r = from'
             /\ Len(d) <= 1 /\ \A i \in DOMAIN d : d[i][2] = <<>>
  <2>1. ASSUME NEW p \in 0 .. Len(sent) PROVE End(p) # from
    <3>1. p \in 0 .. Len(sent')
      BY <1>1
    <3> QED BY <1>2, <1>9, <3>1
  <2> QED BY <2>1 DEF Round
<1> QED BY <1>8, <1>9 DEF Round

LEMMA RoundNext ==
  ASSUME Ready, RoundInv, [Next]_vars, Ready'
  PROVE  RoundInv'
<1>1. CASE \E k \in Kinds : Send(k)
  <2>1. Kept
    BY <1>1, StreamSend DEF Ready
  <2>2. UNCHANGED <<pc, dead, recv_len, cmd, packet, from, upto, done>>
    BY <1>1 DEF Send
  <2>3. Dispatching' = Dispatching
    BY <2>2 DEF Dispatching
  <2>4. ASSUME dead = "no" /\ pc # "readn" PROVE Round(Dispatching, recv_len)'
    <3>1. Round(Dispatching, recv_len)
      BY <2>4 DEF RoundInv
    <3>2. ASSUME NEW d, d = Dispatching, NEW r, r = recv_len PROVE Round(d, r)'
      BY <2>1, <2>2, <3>1, <3>2, RoundKept
    <3> QED BY <2>2, <2>3, <3>2
  <2> QED BY <2>2, <2>4 DEF RoundInv
<1>2. CASE Begin
  <2>1. pc' = "readn"
    BY <1>2 DEF Begin
  <2> QED BY <2>1 DEF RoundInv
<1>3. CASE Poll
  <2>1. CASE pc' = "readn"
    BY <2>1 DEF RoundInv
  <2> QED BY <1>3, <2>1, PollRound
<1>4. CASE Looks \/ Forget \/ TransData \/ PushOta
  <2>1. UNCHANGED <<sent, ends, upto, from>>
    <3>1. CASE Looks
      BY <3>1, LooksMove DEF Ready, SameRound, broker_vars
    <3>2. CASE Forget \/ TransData \/ PushOta
      BY <3>2 DEF Forget, TransData, PushOta, Dispatched, broker_vars
    <3> QED BY <1>4, <3>1, <3>2
  <2>2. CASE dead' # "no"
    BY <2>2 DEF RoundInv
  <2>3. CASE dead' = "no"
    <3>1. CASE Empty
      <4>1. UNCHANGED <<done, recv_len>> /\ pc = "get" /\ pc' = "delay" /\ dead = "no"
        BY <3>1 DEF Empty
      <4>2. Dispatching' = Dispatching /\ Round(Dispatching, recv_len)
        BY <4>1 DEF Dispatching, RoundInv
      <4> QED BY <2>1, <4>1, <4>2, Unmoved
    <3>2. Round(Dispatching', recv_len') \/ Empty
      BY <1>4, <2>3, PingRound, ShortRound, UnknownRound, SerRound, AppRound, DispatchedRound DEF Looks
    <3> QED BY <2>1, <3>1, <3>2, Unmoved
  <2> QED BY <2>2, <2>3
<1>5. CASE UNCHANGED vars
  <2>1. UNCHANGED <<sent, ends, upto, from, recv_len, dead, pc>> /\ Dispatching' = Dispatching
    BY <1>5 DEF vars, link_vars, broker_vars, Dispatching
  <2>2. CASE dead = "no" /\ pc # "readn"
    <3>1. Round(Dispatching', recv_len')
      BY <2>1, <2>2 DEF RoundInv
    <3> QED BY <2>1, <3>1, Unmoved
  <2>3. CASE ~(dead = "no" /\ pc # "readn")
    BY <2>1, <2>3 DEF RoundInv
  <2> QED BY <2>2, <2>3
<1>6. CASE DumpPacket
  BY <1>6 DEF DumpPacket, RoundInv
<1> QED BY <1>1, <1>2, <1>3, <1>4, <1>5, <1>6 DEF Next, Device, Looks

LEMMA RoundInit == Init => RoundInv
<1> SUFFICES ASSUME Init PROVE RoundInv
  OBVIOUS
<1>1. Ready
  BY ReadyInit
<1>2. upto - recv_len = from /\ Dispatching = <<>>
  BY DEF Init, Dispatching
<1>3. Round(<<>>, recv_len)
  BY <1>1, <1>2, RoundBegins
<1> QED BY <1>2, <1>3 DEF RoundInv

LEMMA RoundIs ==
  ASSUME Ready, RoundInv
  PROVE  RoundRight
<1>1. CASE pc = "delay"
  <2>1. recv_len = 0 /\ dead = "no" /\ Dispatching = done
    BY <1>1 DEF Ready, BufferInv, Dispatching
  <2>2. Round(done, 0)
    BY <1>1, <2>1 DEF RoundInv
  <2>3. RoundExact
    <3>1. ASSUME NEW f \in 0 .. Len(sent), End(f) = from PROVE Exact(f, done)
      BY <2>2, <3>1 DEF Round
    <3>2. ASSUME NEW f \in 0 .. Len(sent), Exact(f, done)
          PROVE  \E k \in 0 .. Len(sent) - f :
                   /\ \A i \in 1 .. k : Known(f, i)
                   /\ ~Known(f, k + 1)
                   /\ Len(done) \in k .. k + (IF upto = End(f + k) THEN 0 ELSE 1)
                   /\ \A i \in 1 .. k : done[i] = Command(f + i)
      BY <3>2 DEF Exact, AllKnown
    <3> QED BY <3>1, <3>2 DEF RoundExact
  <2>4. RoundInside
    BY <2>2 DEF Round, RoundInside
  <2> QED BY <2>3, <2>4 DEF RoundRight
<1>2. CASE pc # "delay"
  BY <1>2 DEF RoundRight, RoundExact, RoundInside
<1> QED BY <1>1, <1>2

\* Every round of cloud_do_mqtt dispatches each whole packet it reads, with its
\* own bytes, once and in order, and drops no more and invents no more than one
\* command behind the last: cloud.c:441-542.
THEOREM RoundsAreRight == Spec => []RoundRight
<1>1. Init => Ready /\ RoundInv
  BY ReadyInit, RoundInit
<1>2. Ready /\ RoundInv /\ [Next]_vars => (Ready /\ RoundInv)'
  BY ReadyNext, RoundNext
<1>3. Ready /\ RoundInv => RoundRight
  BY RoundIs
<1> QED BY <1>1, <1>2, <1>3, PTL DEF Spec

-----------------------------------------------------------------------------
(* Why a round runs into undefined behaviour *)

HalfPing == \E p \in 1 .. Len(sent) : sent[p] = "PINGRESP" /\ CutAt(p, 1)

\* The switch is about to take this packet for a command without its action.
NoAction == cmd \in {144, 147} /\ PacketValue(ActionFlag) \notin {144, 147}

\* Why the length of the packet that was found, or of none, is too much for a dump.
LongExplained == IF packet = <<>> THEN ~BeginsKnown ELSE Stale

\* The round as a whole fits in debug_info, or was not dumped yet, or dumped in vain.
RoundFits ==
  /\ pc # "readn" /\ dead = "no" => DumpFits(upto - from)
  /\ dead = "dump" => pc = "get" /\ ~DumpFits(upto - from)

FaultInv ==
  /\ RoundFits
  /\ dead = "memcpy" => HalfPing
  /\ dead = "length" \/ (dead = "action" /\ packet # <<>>) => Stale
  /\ dead = "action" => upto > from
  /\ dead = "overrun" => upto - from > BUF_LEN
  /\ dead = "dump_packet" => LongExplained
  /\ pc = "dispatch" /\ dead = "no" /\ NoAction => packet = <<>> \/ Stale
  /\ pc = "dispatch" /\ dead = "no" => DumpFits(one_packet_len) \/ LongExplained
  /\ pc = "get" /\ dead = "no" => DumpFits(one_packet_len) \/ upto - recv_len = from

LEMMA FaultKept ==
  ASSUME Ready, Kept, UNCHANGED upto
  PROVE  (Stale => Stale') /\ (HalfPing => HalfPing')
<1>1. ASSUME NEW p \in 1 .. Len(sent)
      PROVE  /\ p \in 1 .. Len(sent') /\ sent'[p] = sent[p]
             /\ \A n : CutAt(p, n)' <=> CutAt(p, n)
  <2>1. Len(sent) \in Nat /\ Len(sent') = Len(sent) + 1 /\ sent'[p] = sent[p]
    BY StreamIs DEF Kept
  <2>2. p \in 1 .. Len(sent') /\ p - 1 \in 0 .. Len(sent)
    BY <2>1
  <2>3. End(p - 1)' = End(p - 1)
    BY <2>2 DEF Kept
  <2> QED BY <2>1, <2>2, <2>3 DEF CutAt
<1>2. ASSUME NEW p \in 1 .. Len(sent)
      PROVE  (CutServer(p) => CutServer(p)') /\ (CutApp(p) => CutApp(p)')
  BY <1>1 DEF CutServer, CutApp
<1>3. Stale => Stale'
  BY <1>1, <1>2 DEF Stale
<1>4. HalfPing => HalfPing'
  BY <1>1 DEF HalfPing
<1> QED BY <1>3, <1>4

\* What the broker sends later does not make the round begin with a whole packet.
LEMMA BeginsKept ==
  ASSUME Ready, Kept, UNCHANGED <<upto, from>>, BeginsKnown'
  PROVE  BeginsKnown
<1>1. /\ Len(sent) \in Nat /\ Len(bytes) \in Nat /\ from <= Len(bytes) /\ upto <= Len(bytes)
      /\ from \in Nat /\ upto \in Nat /\ Len(sent') = Len(sent) + 1
  BY StreamIs, StateTypes DEF Ready, Kept
<1>2. PICK f \in 0 .. Len(sent') : End(f)' = from /\ Known(f, 1)'
  BY DEF BeginsKnown
<1>3. f + 1 <= Len(sent') /\ End(f + 1)' <= upto /\ sent'[f + 1] # "SUBACK"
  BY <1>2 DEF Known
<1>4. ASSUME f + 1 = Len(sent) + 1 PROVE FALSE
  <2>1. End(f + 1)' = ends'[Len(sent) + 1]
    BY <1>1, <1>4 DEF End
  <2>2. ends'[Len(sent) + 1] \in Nat /\ ends'[Len(sent) + 1] > Len(bytes)
    BY DEF Kept
  <2> QED BY <1>1, <1>3, <2>1, <2>2
<1>5. f \in 0 .. Len(sent) /\ f + 1 \in 1 .. Len(sent) /\ f + 1 \in 0 .. Len(sent) /\ f + 1 <= Len(sent)
  BY <1>1, <1>3, <1>4
<1>6. End(f)' = End(f) /\ End(f + 1)' = End(f + 1) /\ sent'[f + 1] = sent[f + 1]
  BY <1>5 DEF Kept
<1>7. Known(f, 1)
  BY <1>3, <1>5, <1>6 DEF Known
<1> QED BY <1>2, <1>5, <1>6, <1>7 DEF BeginsKnown

\* When nothing is taken from the buffer yet and no packet begins it, the round
\* does not begin with one that is known and whole.
LEMMA NoneBegins ==
  ASSUME Ready, NoPacket, upto - recv_len = from
  PROVE  ~BeginsKnown
<1> SUFFICES ASSUME NEW f \in 0 .. Len(sent), End(f) = from, Known(f, 1) PROVE FALSE
  BY DEF BeginsKnown
<1>1. f + 1 \in 1 .. Len(sent) /\ f + 1 \in 0 .. Len(sent) /\ (f + 1) - 1 = f
  BY StreamIs DEF Known
<1>2. End(f + 1) <= upto /\ sent[f + 1] # "SUBACK"
  BY DEF Known
<1>3. End((f + 1) - 1) = upto - recv_len
  BY <1>1
<1>4. End(f + 1) > upto
  BY <1>1, <1>2, <1>3 DEF NoPacket
<1> QED BY <1>1, <1>2, <1>4, EndType, StateTypes DEF Ready

LEMMA StaleSame ==
  ASSUME UNCHANGED <<sent, ends, upto>>
  PROVE  /\ Stale' = Stale /\ HalfPing' = HalfPing
         /\ UNCHANGED from => BeginsKnown' = BeginsKnown
  BY DEF Stale, HalfPing, CutServer, CutApp, CutAt, End, BeginsKnown, Known

LEMMA CutHere ==
  ASSUME Ready, NEW p \in 1 .. Len(sent), End(p - 1) = upto - recv_len
  PROVE  CutAt(p, recv_len)
<1>1. upto \in Nat /\ recv_len \in Nat /\ End(p - 1) \in Nat
  BY StreamIs, StateTypes DEF Ready
<1> QED BY <1>1 DEF CutAt

\* What a look at the buffer leaves for the switch.
Leaves ==
  /\ dead' \in {"no", "memcpy", "length"}
  /\ dead' = "memcpy" => HalfPing
  /\ dead' = "length" => Stale
  /\ pc' = "dispatch" /\ dead' = "no" /\ NoAction' => packet' = <<>> \/ Stale
  /\ pc' = "dispatch" /\ dead' = "no" =>
       \/ DumpFits(one_packet_len')
       \/ IF packet' = <<>> THEN ~BeginsKnown ELSE Stale

\* The round can be dumped, so what is left of it can.
LEMMA Dumped ==
  ASSUME Ready, FaultInv, pc = "get", dead = "no"
  PROVE  DumpFits(recv_len) /\ \A n \in Nat : n <= recv_len => DumpFits(n)
<1>1. /\ recv_len \in Nat /\ upto \in Nat /\ from \in Nat /\ recv_len <= upto - from
      /\ 3 * (upto - from) + 1 <= DEBUG_LEN /\ DEBUG_LEN \in Nat
  BY StateTypes, BoundAssumption DEF Ready, BufferInv, FaultInv, RoundFits, DumpFits
<1> QED BY <1>1 DEF DumpFits

LEMMA PingLeaves ==
  ASSUME Ready, GetPing
  PROVE  Leaves
<1>1. /\ recv_len > 0 /\ IsPing /\ recv_len \in Nat /\ upto \in Nat /\ cmd' = 208 /\ dead = "no"
      /\ one_packet_len' = 2
  BY StateTypes DEF Ready, GetPing, Get
<1>2. PICK p \in 1 .. Len(sent) : sent[p] = "PINGRESP" /\ End(p - 1) = upto - recv_len
  BY <1>1, PingAt
<1>3. recv_len < 2 => HalfPing
  <2>1. recv_len < 2 => recv_len = 1
    BY <1>1
  <2> QED BY <1>2, <2>1, CutHere DEF HalfPing
<1>4. \/ dead' = "memcpy" /\ recv_len < 2
      \/ dead' = "no"
  BY <1>1 DEF GetPing
<1>5. ~NoAction'
  BY <1>1 DEF NoAction
<1>6. DumpFits(one_packet_len')
  BY <1>1, BoundAssumption DEF DumpFits
<1> QED BY <1>3, <1>4, <1>5, <1>6 DEF Leaves

LEMMA DroppedLeaves ==
  ASSUME Ready, FaultInv, GetShort \/ GetUnknown \/ Empty
  PROVE  Leaves
<1>1. dead' = "no" /\ (pc' = "delay" \/ packet' = <<>>)
  BY DEF GetShort, GetUnknown, Empty, Get
<1>2. CASE GetUnknown
  <2>1. pc = "get" /\ dead = "no" /\ one_packet_len' = one_packet_len /\ packet' = <<>>
    BY <1>2 DEF GetUnknown, Get
  <2>2. DumpFits(one_packet_len) \/ ~BeginsKnown
    BY <1>2, <2>1, UnknownIsNone, NoneBegins DEF FaultInv
  <2> QED BY <1>1, <2>1, <2>2 DEF Leaves
<1>3. CASE GetShort \/ Empty
  <2>1. pc' = "delay"
    BY <1>3 DEF GetShort, Empty
  <2> QED BY <1>1, <2>1 DEF Leaves
<1> QED BY <1>2, <1>3

LEMMA NotEmpty ==
  ASSUME TypeInv, NEW i \in Nat, NEW n \in Nat, n >= 5
  PROVE  Bytes(i, n) # <<>>
<1>1. Len(Bytes(i, n)) = n /\ Len(<<>>) = 0
  BY BytesType
<1> QED BY <1>1

LEMMA SerLeaves ==
  ASSUME Ready, FaultInv, GetSer2cli
  PROVE  Leaves
<1>1. recv_len \in Nat /\ dead = "no" /\ pc = "get"
  BY StateTypes DEF Ready, GetSer2cli, Get
<1>2. PICK p \in 1 .. Len(sent), n \in Nat : SerFound(p, n)
  BY SerLooks
<1>3. sent[p] \in {"ONLINE", "OTA"} /\ End(p - 1) = upto - recv_len /\ Found(38, n) /\ recv_len > 30
  BY <1>2 DEF SerFound
<1>4. /\ \/ dead' = "length" /\ n > BUF_LEN
         \/ dead' = "no" /\ packet' = Bytes(38, n)
      /\ one_packet_len' = n
  BY <1>1, <1>3 DEF Found
<1>5. CASE recv_len <= 43
  <2>1. recv_len \in 31 .. 43
    BY <1>1, <1>3, <1>5
  <2>2. Stale
    BY <1>3, <2>1, CutHere DEF Stale, CutServer
  <2>3. n >= 5
    BY <1>1, <1>2, <1>5 DEF SerFound
  <2>4. Bytes(38, n) # <<>>
    BY <2>3, NotEmpty DEF Ready
  <2> QED BY <1>4, <2>2, <2>4 DEF Leaves
<1>6. CASE recv_len > 43 /\ n = PacketLen[sent[p]] - 38 /\ cmd' = CommandOf[sent[p]]
  <2>1. n <= 31 /\ cmd' \in {528, 529}
    BY <1>3, <1>6, SMTT(30) DEF PacketLen, CommandOf
  <2>2. ~(n > BUF_LEN) /\ ~NoAction'
    BY <2>1, BoundAssumption DEF NoAction
  <2>3. DumpFits(n)
    <3>1. n <= recv_len
      BY <1>1, <1>6, <2>1
    <3> QED BY <1>1, <3>1, Dumped
  <2> QED BY <1>4, <2>2, <2>3 DEF Leaves
<1> QED BY <1>2, <1>5, <1>6 DEF SerFound

\* The flag byte of a packet whose length was its own is the low byte of its command.
LEMMA FlagIs ==
  ASSUME Ready, NEW p \in 1 .. Len(sent), IsApp(p), recv_len > 62,
         packet' = Bytes(58, PacketLen[sent[p]] - 58), cmd' = Value(64) * 256 + Value(65)
  PROVE  ~NoAction'
<1>1. sent[p] \in {"CONTROL", "TRANS"} /\ End(p - 1) = upto - recv_len /\ recv_len \in Nat
  BY StateTypes DEF Ready, IsApp
<1> DEFINE n == PacketLen[sent[p]] - 58
           v == Bytes(58, n)
<1>2. n \in {9, 15}
  BY <1>1 DEF PacketLen
<1>3. Len(v) = n
  <2>1. n \in Nat /\ 58 \in Nat
    BY <1>2
  <2> HIDE DEF n
  <2> QED BY <2>1, BytesType DEF Ready
<1>4. /\ v[4 + 1] = At(58 + (4 + 1) - 1) /\ v[7 + 1] = At(58 + (7 + 1) - 1)
  BY <1>2 DEF Bytes
<1> HIDE DEF v, n
<1>5. 4 < Len(v) /\ 7 < Len(v) /\ 58 + (4 + 1) - 1 = 62 /\ 58 + (7 + 1) - 1 = 65
  BY <1>2, <1>3
<1>6. packet' = v
  BY DEF v, n
<1>7. PacketValue(4)' = Value(62) /\ PacketValue(7)' = Value(65)
  BY <1>4, <1>5, <1>6 DEF PacketValue, Value
<1>8. Value(62) \in 0 .. 127
  <2>1. IsBody(sent[p], 58) /\ Body[sent[p]][5] \in {4, 10}
    BY <1>1, BodiesAre
  <2>2. 5 \in 1 .. PacketLen[sent[p]] - 58 /\ 62 = 58 + 5 - 1 /\ 62 < recv_len
    BY <1>1, <1>2 DEF n
  <2>3. Value(62) = Body[sent[p]][5]
    BY <1>1, <2>1, <2>2, BodyByte
  <2>4. Value(62) = 4 \/ Value(62) = 10
    BY <2>1, <2>3
  <2> QED BY <2>4
<1>9. ActionFlag' = 7
  <2>1. mqtt_num_rem_len_bytes(PacketValue(4)', PacketValue(5)', PacketValue(6)') = 1
    <3>1. \A b, c : mqtt_num_rem_len_bytes(Value(62), b, c) = 1
      BY <1>8, OneDigit
    <3>2. PacketValue(4)' = Value(62)
      BY <1>7
    <3> QED BY <3>1, <3>2
  <2>2. ActionFlag' = 6 + mqtt_num_rem_len_bytes(PacketValue(4)', PacketValue(5)', PacketValue(6)')
    BY DEF ActionFlag
  <2> QED BY <2>1, <2>2
<1>10. PacketValue(ActionFlag)' = Value(65)
  BY <1>7, <1>9 DEF PacketValue
<1>11. cmd' \in {144, 147} => Value(65) \in {144, 147}
  <2>1. Value(64) \in Nat /\ Value(65) \in Nat
    BY AtType DEF Ready
  <2> QED BY <2>1
<1> QED BY <1>10, <1>11 DEF NoAction

LEMMA AppLeaves ==
  ASSUME Ready, FaultInv, GetApp2dev
  PROVE  Leaves
<1>1. recv_len \in Nat /\ dead = "no" /\ pc = "get"
  BY StateTypes DEF Ready, GetApp2dev, Get
<1>2. PICK p \in 1 .. Len(sent) :
        IsApp(p) /\ (AppDropped \/ \E n \in Nat : AppFound(n, PacketLen[sent[p]]))
  BY AppLooks
<1>3. sent[p] \in {"CONTROL", "TRANS"} /\ End(p - 1) = upto - recv_len /\ recv_len > 30
  BY <1>2 DEF IsApp
<1>4. recv_len <= 62 => Stale
  <2>1. recv_len <= 62 => recv_len \in 31 .. 62
    BY <1>1, <1>3
  <2> QED BY <1>3, <2>1, CutHere DEF Stale, CutApp
<1>5. CASE AppDropped
  <2>1. recv_len <= 62 /\ packet' = <<>> /\ dead' = "no" /\ one_packet_len' = one_packet_len
    BY <1>1, <1>5 DEF AppDropped
  <2>2. NoPacket
    <3> SUFFICES ASSUME NEW q \in 1 .. Len(sent), End(q - 1) = upto - recv_len PROVE End(q) > upto
      BY DEF NoPacket
    <3>1. q - 1 \in 0 .. Len(sent) /\ p - 1 \in 0 .. Len(sent)
      BY StreamIs
    <3>2. q - 1 = p - 1
      BY <1>3, <3>1, StreamIs
    <3>3. q = p
      BY <3>2
    <3>4. PacketLen[sent[p]] >= 67
      BY <1>3 DEF PacketLen
    <3>5. End(p) = (upto - recv_len) + PacketLen[sent[p]] /\ upto \in Nat /\ PacketLen[sent[p]] \in Nat
      BY <1>3, StreamIs, StateTypes DEF Ready
    <3> QED BY <1>1, <2>1, <3>3, <3>4, <3>5
  <2>3. DumpFits(one_packet_len) \/ ~BeginsKnown
    BY <1>1, <2>2, NoneBegins DEF FaultInv
  <2> QED BY <2>1, <2>3 DEF Leaves
<1>6. CASE \E n \in Nat : AppFound(n, PacketLen[sent[p]])
  <2>1. PICK n \in Nat : AppFound(n, PacketLen[sent[p]])
    BY <1>6
  <2>2. /\ \/ dead' = "length" /\ n > BUF_LEN
           \/ dead' = "no" /\ packet' = Bytes(58, n)
        /\ one_packet_len' = n
    BY <1>1, <2>1 DEF AppFound, Found
  <2>3. CASE recv_len <= 62
    <3>1. n >= 5
      BY <1>1, <2>1, <2>3 DEF AppFound
    <3>2. Bytes(58, n) # <<>>
      BY <3>1, NotEmpty DEF Ready
    <3> QED BY <1>4, <2>2, <2>3, <3>2 DEF Leaves
  <2>4. CASE recv_len > 62 /\ n = PacketLen[sent[p]] - 58 /\ cmd' = Value(64) * 256 + Value(65)
    <3>0. PacketLen[sent[p]] \in {67, 73}
      BY <1>3 DEF PacketLen
    <3>1. n <= 15
      BY <2>4, <3>0
    <3>2. ~(n > BUF_LEN)
      BY <3>1, BoundAssumption
    <3>3. dead' = "no" /\ packet' = Bytes(58, n)
      BY <2>2, <3>2
    <3>4. ~NoAction'
      BY <1>2, <2>4, <3>3, FlagIs
    <3>5. DumpFits(n)
      <4>1. n <= recv_len
        BY <1>1, <2>4, <3>1
      <4> QED BY <1>1, <4>1, Dumped
    <3> QED BY <2>2, <3>3, <3>4, <3>5 DEF Leaves
  <2> QED BY <2>1, <2>3, <2>4 DEF AppFound
<1> QED BY <1>2, <1>5, <1>6

LEMMA FaultNext ==
  ASSUME Ready, FaultInv, [Next]_vars
  PROVE  FaultInv'
<1>1. CASE \E k \in Kinds : Send(k)
  <2>1. Kept
    BY <1>1, StreamSend DEF Ready
  <2>2. UNCHANGED <<pc, dead, recv_len, cmd, packet, one_packet_len, from, upto>>
    BY <1>1 DEF Send
  <2>3. (Stale => Stale') /\ (HalfPing => HalfPing') /\ (~BeginsKnown => ~BeginsKnown')
    BY <2>1, <2>2, FaultKept, BeginsKept
  <2>4. NoAction' = NoAction
    BY <2>2 DEF NoAction, PacketValue, ActionFlag
  <2>5. RoundFits' /\ (LongExplained => LongExplained')
    BY <2>2, <2>3 DEF FaultInv, RoundFits, LongExplained, DumpFits
  <2>6. DumpFits(one_packet_len)' = DumpFits(one_packet_len)
    BY <2>2 DEF DumpFits
  <2> QED BY <2>2, <2>3, <2>4, <2>5, <2>6 DEF FaultInv
<1>2. CASE Begin
  <2>1. dead' = "no" /\ pc' = "readn"
    BY <1>2 DEF Begin
  <2> QED BY <2>1 DEF FaultInv, RoundFits
<1>3. CASE Poll
  <2>1. /\ pc' # "dispatch" /\ dead' \in {"no", "overrun", "dump"}
        /\ dead' = "overrun" => recv_len' > BUF_LEN
        /\ pc' # "readn" /\ dead' = "no" => DumpFits(recv_len')
        /\ dead' = "dump" => pc' = "get" /\ ~DumpFits(recv_len')
    <3>1. PollEnds
      BY <1>3, PollIs
    <3>2. DumpFits(0)
      BY BoundAssumption DEF DumpFits
    <3> QED BY <3>1, <3>2 DEF PollEnds
  <2>2. recv_len' = upto' - from' /\ upto' - recv_len' = from'
    <3>1. /\ pos' \in Nat /\ upto' = pos' /\ recv_len' = recv_len + (pos' - pos) /\ upto = pos
          /\ recv_len = upto - from /\ from' = from /\ pos <= pos'
      BY <1>3, PollIs
    <3>2. pos \in Nat /\ from \in Nat /\ recv_len \in Nat
      BY StateTypes DEF Ready
    <3>3. IsFilled(from, recv_len, pos, pos', recv_len')
      BY <3>1, <3>2, FillSizes
    <3> QED BY <3>1, <3>3 DEF IsFilled
  <2>3. dead' = "overrun" => upto' - from' > BUF_LEN
    BY <2>1, <2>2, Zenon
  <2>4. RoundFits'
    <3>1. /\ pc' # "readn" /\ dead' = "no" => DumpFits(upto' - from')
          /\ dead' = "dump" => pc' = "get" /\ ~DumpFits(upto' - from')
      BY <2>1, <2>2, Zenon
    <3> QED BY <3>1 DEF RoundFits, DumpFits
  <2> QED BY <2>1, <2>2, <2>3, <2>4 DEF FaultInv
<1>4. CASE Looks
  <2>1. Leaves
    BY <1>4, PingLeaves, DroppedLeaves, SerLeaves, AppLeaves DEF Looks
  <2>2. /\ UNCHANGED <<sent, ends, upto, from>> /\ pc = "get" /\ dead = "no"
        /\ pc' \in {"dispatch", "delay"}
    BY <1>4, LooksMove DEF Ready, SameRound, broker_vars
  <2>3. Stale' = Stale /\ HalfPing' = HalfPing /\ BeginsKnown' = BeginsKnown
    BY <2>2, StaleSame
  <2>4. RoundFits'
    <3>1. DumpFits(upto - from)
      BY <2>2 DEF FaultInv, RoundFits
    <3> QED BY <2>1, <2>2, <3>1 DEF RoundFits, DumpFits, Leaves
  <2>5. pc' = "dispatch" /\ dead' = "no" => DumpFits(one_packet_len)' \/ LongExplained'
    <3>1. DumpFits(one_packet_len)' = DumpFits(one_packet_len')
      BY DEF DumpFits
    <3> QED BY <2>1, <2>3, <3>1 DEF Leaves, LongExplained
  <2> QED BY <2>1, <2>2, <2>3, <2>4, <2>5 DEF FaultInv, Leaves
<1>5. CASE Forget \/ TransData \/ PushOta
  <2>1. /\ UNCHANGED <<sent, ends, upto, from, packet, cmd, one_packet_len>> /\ pc = "dispatch" /\ pc' = "get"
        /\ dead = "no" /\ DumpFits(one_packet_len)
        /\ \/ dead' = "no"
           \/ NoAction /\ dead' = "action"
    BY <1>5 DEF Forget, TransData, PushOta, Dispatched, broker_vars, NoAction
  <2>2. Stale' = Stale
    BY <2>1, StaleSame
  <2>3. upto' > from'
    <3>1. from < upto /\ from \in Nat /\ upto \in Nat
      BY <2>1, StateTypes DEF Ready, BufferInv
    <3> QED BY <2>1, <3>1
  <2>4. RoundFits' /\ DumpFits(one_packet_len)'
    BY <2>1 DEF FaultInv, RoundFits, DumpFits
  <2> QED BY <2>1, <2>2, <2>3, <2>4 DEF FaultInv
<1>6. CASE DumpPacket
  <2>1. /\ UNCHANGED <<sent, ends, upto, from, packet, cmd>> /\ pc = "dispatch" /\ pc' = "dispatch"
        /\ dead = "no" /\ ~DumpFits(one_packet_len) /\ dead' = "dump_packet"
    BY <1>6 DEF DumpPacket, link_vars, broker_vars
  <2>2. Stale' = Stale /\ BeginsKnown' = BeginsKnown
    BY <2>1, StaleSame
  <2>3. LongExplained'
    BY <2>1, <2>2 DEF FaultInv, LongExplained
  <2> QED BY <2>1, <2>3 DEF FaultInv, RoundFits
<1>7. CASE UNCHANGED vars
  <2>1. UNCHANGED <<sent, ends, pc, dead, recv_len, cmd, packet, one_packet_len, from, upto>>
    BY <1>7 DEF vars, link_vars, broker_vars
  <2>2. Stale' = Stale /\ HalfPing' = HalfPing /\ BeginsKnown' = BeginsKnown
    BY <2>1, StaleSame
  <2>3. NoAction' = NoAction
    BY <2>1 DEF NoAction, PacketValue, ActionFlag
  <2>4. RoundFits' = RoundFits /\ LongExplained' = LongExplained
        /\ DumpFits(one_packet_len)' = DumpFits(one_packet_len)
    BY <2>1, <2>2 DEF RoundFits, LongExplained, DumpFits
  <2> QED BY <2>1, <2>2, <2>3, <2>4 DEF FaultInv
<1> QED BY <1>1, <1>2, <1>3, <1>4, <1>5, <1>6, <1>7 DEF Next, Device, Looks

\* Whatever undefined behaviour a round of cloud_do_mqtt runs into, its cause is
\* what was read, and each kind has its own; a round that fits in debug_info is
\* the only one that goes on: cloud.c:447-452, 461, 489-529, 557-570, 605-611,
\* tool.c:143.
THEOREM FaultsExplained == Spec => []FaultExplained
<1>1. Init => Ready /\ FaultInv
  <2>1. ASSUME Init PROVE FaultInv
    <3>1. DumpFits(upto - from)
      BY <2>1, BoundAssumption DEF Init, DumpFits
    <3> QED BY <2>1, <3>1 DEF Init, FaultInv, RoundFits
  <2> QED BY <2>1, ReadyInit
<1>2. Ready /\ FaultInv /\ [Next]_vars => (Ready /\ FaultInv)'
  BY ReadyNext, FaultNext
<1>3. ASSUME Ready, FaultInv PROVE FaultExplained
  <2>1. DOMAIN sent = 1 .. Len(sent)
    BY <1>3 DEF Ready, TypeInv, TypeOK
  <2>2. pc = "get" /\ dead = "no" => DumpFits(recv_len)
    BY <1>3, Dumped
  <2>3. dead \in {"no", "dump"} /\ pc # "readn" => (dead = "dump" <=> ~DumpFits(upto - from))
    BY <1>3 DEF FaultInv, RoundFits
  <2>4. dead = "memcpy" => \E p \in DOMAIN sent : sent[p] = "PINGRESP" /\ CutAt(p, 1)
    BY <1>3, <2>1 DEF FaultInv, HalfPing
  <2> QED BY <1>3, <2>2, <2>3, <2>4 DEF FaultInv, FaultExplained, LongExplained
<1> QED BY <1>1, <1>2, <1>3, PTL DEF Spec

-----------------------------------------------------------------------------
(* The end of a round, and the stream it reads *)

\* How far a round is from the delay of the receive task: three reads, then a
\* look at the buffer and the dispatch of what it found, as long as bytes remain.
RoundRank ==
  CASE pc = "delay" \/ dead # "no"           -> 0
    [] pc = "readn" /\ dead = "no"           -> 2 * BUF_LEN + 4 - times
    [] pc = "get" /\ dead = "no"             -> 2 * recv_len + 1
    [] pc = "dispatch" /\ dead = "no"        -> 2 * recv_len + 2

\* Every step of a round brings it nearer to its end, whatever bytes it was
\* given, and the broker does not put it off.
RoundNearsEnd ==
  [][/\ Device /\ ~ Begin => RoundRank' < RoundRank
     /\ ~ Device => RoundRank' = RoundRank]_vars

\* What the rank of a round that goes on is made of.
LEMMA RankIs ==
  ASSUME TypeInv
  PROVE  /\ BUF_LEN \in Nat /\ BUF_LEN >= 31 /\ times \in 0 .. 2 /\ recv_len \in Nat
         /\ dead = "no" => recv_len <= BUF_LEN
         /\ RoundRank \in Nat
<1>1. /\ BUF_LEN \in Nat /\ BUF_LEN >= 31 /\ times \in 0 .. 2 /\ recv_len \in Nat
      /\ pc \in {"delay", "readn", "get", "dispatch"}
  BY StateTypes, BoundAssumption DEF TypeInv, TypeOK
<1>2. recv_len <= Len(recv_buf) /\ Len(recv_buf) \in Nat /\ (dead = "no" => Len(recv_buf) <= BUF_LEN)
  BY StateTypes DEF TypeInv, TypeOK
<1>3. dead = "no" => recv_len <= BUF_LEN
  BY <1>1, <1>2
<1>4. RoundRank \in Nat
  BY <1>1 DEF RoundRank
<1> QED BY <1>1, <1>3, <1>4

\* Bounds on the ranks of two rounds.
LEMMA Twice ==
  /\ \A a, b \in Nat : a < b => 2 * a + 2 < 2 * b + 1
  /\ \A a, b \in Nat : \A t \in 0 .. 2 : ~(a > b) => 2 * a + 1 < 2 * b + 4 - t
  OBVIOUS

\* A packet that is found is taken from the buffer, or the round is over.
LEMMA FoundNears ==
  ASSUME TypeInv, pc = "get", dead = "no", recv_len > 0,
         NEW index \in Nat, index > 0, NEW n \in Nat, Found(index, n)
  PROVE  RoundRank' < RoundRank
<1>1. recv_len \in Nat /\ RoundRank = 2 * recv_len + 1 /\ pc' = "dispatch"
  BY RankIs DEF RoundRank, Found, Return0
<1>2. CASE dead' = "length"
  BY <1>1, <1>2 DEF RoundRank
<1>3. CASE dead' = dead /\ (IF recv_len <= index + n THEN Clear ELSE Shift(index + n))
  <2>1. recv_len' \in Nat /\ recv_len' < recv_len
    <3>1. CASE recv_len <= index + n
      <4>1. recv_len' = 0
        BY <1>3, <3>1 DEF Clear
      <4> QED BY <1>1, <4>1
    <3>2. CASE ~(recv_len <= index + n)
      <4>1. recv_len' = recv_len - (index + n)
        BY <1>3, <3>2 DEF Shift
      <4> QED BY <1>1, <3>2, <4>1
    <3> QED BY <3>1, <3>2
  <2>2. RoundRank' = 2 * recv_len' + 2
    BY <1>1, <1>3 DEF RoundRank
  <2>3. 2 * recv_len' + 2 < 2 * recv_len + 1
    BY <1>1, <2>1, Twice
  <2> QED BY <1>1, <2>2, <2>3
<1> QED BY <1>2, <1>3 DEF Found

\* The loops of readn and of cloud_do_mqtt end for every buffer size and every
\* content of the buffer: a round is at most 2 * BUF_LEN + 4 steps long
\* (tool.c:132-153, cloud.c:441-542, 577-636).
THEOREM RoundsEnd == Spec => [](RoundRank \in Nat) /\ RoundNearsEnd
<1>1. ASSUME TypeInv, Device, ~ Begin PROVE RoundRank' < RoundRank
  <2>1. /\ BUF_LEN \in Nat /\ BUF_LEN >= 31 /\ times \in 0 .. 2 /\ recv_len \in Nat
        /\ dead = "no" => recv_len <= BUF_LEN
    BY <1>1, RankIs
  <2>2. CASE Poll
    <3>1. /\ pc = "readn" /\ dead = "no" /\ RoundRank = 2 * BUF_LEN + 4 - times
      BY <2>2 DEF Poll, RoundRank
    <3>2. recv_len' \in Nat
      <4>1. TypeInv'
        BY <1>1, TypeDevice
      <4> QED BY <4>1 DEF TypeInv, TypeOK
    <3>3. \/ dead' = "overrun"
          \/ dead' = "dump"
          \/ pc' = "delay"
          \/ ~(recv_len' > BUF_LEN) /\ dead' = "no" /\ pc' = "get"
          \/ dead' = "no" /\ pc' = "readn" /\ ~(times >= 2) /\ times' = times + 1
      BY <2>2, <3>1 DEF Poll
    <3>4. CASE dead' \in {"overrun", "dump"} \/ pc' = "delay"
      BY <2>1, <3>1, <3>4 DEF RoundRank
    <3>5. CASE ~(recv_len' > BUF_LEN) /\ dead' = "no" /\ pc' = "get"
      <4>1. RoundRank' = 2 * recv_len' + 1
        BY <3>5 DEF RoundRank
      <4>2. 2 * recv_len' + 1 < 2 * BUF_LEN + 4 - times
        BY <2>1, <3>2, <3>5, Twice
      <4> QED BY <3>1, <4>1, <4>2
    <3>6. CASE dead' = "no" /\ pc' = "readn" /\ ~(times >= 2) /\ times' = times + 1
      <4>1. RoundRank' = 2 * BUF_LEN + 4 - times'
        BY <3>6 DEF RoundRank
      <4> QED BY <2>1, <3>1, <3>6, <4>1
    <3> QED BY <3>3, <3>4, <3>5, <3>6
  <2>3. CASE Empty \/ GetShort
    BY <2>1, <2>3, SMTT(30) DEF Empty, GetShort, Get, RoundRank
  <2>4. CASE GetPing
    <3>1. pc = "get" /\ dead = "no" /\ pc' = "dispatch" /\ RoundRank = 2 * recv_len + 1
      BY <2>4 DEF GetPing, Get, Return0, RoundRank
    <3>2. CASE recv_len < 2
      <4>1. dead' = "memcpy"
        BY <2>4, <3>2 DEF GetPing
      <4> QED BY <2>1, <3>1, <4>1 DEF RoundRank
    <3>3. CASE ~(recv_len < 2)
      <4>1. dead' = "no" /\ recv_len' = recv_len - 2
        BY <2>4, <3>1, <3>3 DEF GetPing, Shift
      <4>2. RoundRank' = 2 * recv_len' + 2
        BY <3>1, <4>1 DEF RoundRank
      <4> QED BY <2>1, <3>1, <4>1, <4>2
    <3> QED BY <3>2, <3>3
  <2>5. CASE GetSer2cli
    <3>1. PICK n \in Ser2cliLengths(Value(mqtt_head_len + Len(Ser2cli) + 4) * 256
                                    + Value(mqtt_head_len + Len(Ser2cli) + 5)) :
            Found(mqtt_head_len + Len(Ser2cli), n)
      BY <2>5 DEF GetSer2cli
    <3>2. n \in Nat /\ mqtt_head_len + Len(Ser2cli) \in Nat /\ mqtt_head_len + Len(Ser2cli) > 0
      <4>1. mqtt_head_len \in Nat /\ mqtt_head_len >= 3 /\ Len(Ser2cli) = 34
        BY <1>1, HeadIs, Topics
      <4>2. n \in {4 + 4, 4 + 27} \cup {4 + (mqtt_head_len - 3), (DEBUG_LEN - 1) \div 3, BUF_LEN, BUF_LEN + 1}
        BY <3>1 DEF Ser2cliLengths
      <4>3. BUF_LEN \in Nat /\ DEBUG_LEN \in Nat /\ (DEBUG_LEN - 1) \div 3 \in Nat
        BY BoundAssumption
      <4> QED BY <4>1, <4>2, <4>3
    <3>3. pc = "get" /\ dead = "no" /\ recv_len > 0
      BY <2>5 DEF GetSer2cli, Get
    <3> QED BY <1>1, <3>1, <3>2, <3>3, FoundNears
  <2>6. CASE GetApp2dev
    <3> DEFINE index == mqtt_head_len + Len(App2dev)
               len == mqtt_parse_rem_len(Value(index + 4), Value(index + 5), Value(index + 6))
               length_len == mqtt_num_rem_len_bytes(Value(index + 4), Value(index + 5), Value(index + 6))
    <3>1. index \in Nat /\ index > 0
      BY <1>1, HeadIs, Topics
    <3>2. \/ Found(index, 4 + len + length_len)
          \/ dead' = dead /\ Clear /\ Return0
      BY <2>6 DEF GetApp2dev
    <3>3. pc = "get" /\ dead = "no" /\ recv_len > 0
      BY <2>6 DEF GetApp2dev, Get
    <3> HIDE DEF index
    <3>4. len \in Nat /\ length_len \in Nat
      <4>1. index + 4 \in Nat /\ index + 5 \in Nat /\ index + 6 \in Nat
        BY <3>1
      <4>2. Value(index + 4) \in Nat /\ Value(index + 5) \in Nat /\ Value(index + 6) \in Nat
        BY <1>1, <4>1, AtType
      <4>3. length_len \in 1 .. 4
        BY <4>2, NumIs
      <4>4. len \in Nat
        BY <4>2, ParseIs
      <4> QED BY <4>3, <4>4
    <3> HIDE DEF len, length_len
    <3>5. CASE Found(index, 4 + len + length_len)
      <4>1. 4 + len + length_len \in Nat
        BY <3>4
      <4> QED BY <1>1, <3>1, <3>3, <3>5, <4>1, FoundNears
    <3>6. CASE dead' = dead /\ Clear /\ Return0
      BY <2>1, <3>3, <3>6 DEF Clear, Return0, RoundRank
    <3> QED BY <3>2, <3>5, <3>6
  <2>7. CASE GetUnknown
    BY <2>1, <2>7 DEF GetUnknown, Get, Clear, Return0, RoundRank
  <2>8. CASE Forget \/ TransData \/ PushOta
    <3>1. pc = "dispatch" /\ dead = "no" /\ pc' = "get" /\ recv_len' = recv_len
      BY <2>8 DEF Forget, TransData, PushOta, Dispatched
    <3> QED BY <2>1, <3>1 DEF RoundRank
  <2>9. CASE DumpPacket
    BY <2>1, <2>9 DEF DumpPacket, RoundRank
  <2> QED BY <1>1, <2>2, <2>3, <2>4, <2>5, <2>6, <2>7, <2>8, <2>9 DEF Device
<1>2. ASSUME Next, ~ Device PROVE RoundRank' = RoundRank
  BY <1>2 DEF Next, Send, RoundRank
<1>3. TypeInv /\ [Next]_vars => TypeInv'
  BY TypeNext
<1>4. TypeInv /\ [Next]_vars =>
        [/\ Device /\ ~ Begin => RoundRank' < RoundRank
         /\ ~ Device => RoundRank' = RoundRank]_vars
  BY <1>1, <1>2
<1>5. TypeInv => RoundRank \in Nat
  BY RankIs
<1> QED BY <1>3, <1>4, <1>5, TypeInit, PTL DEF Spec, RoundNearsEnd

\* The stream of bytes that cloud_do_mqtt reads.
Link == INSTANCE ByteStream WITH arrived <- Len(bytes), taken <- pos, exact <- TRUE

\* The link of this module is a byte stream that stays exact, which is what UartRx
\* is as long as no interrupt does harm: whatever the parser and check_ota do,
\* bytes are read in order, once, and only those that arrived (tool.c:132-153,
\* lm61.c:256-270).
THEOREM LinkIsStream == Spec => Link!Spec
<1>1. Init => Link!Init
  <2>1. Len(<<>>) = 0
    OBVIOUS
  <2> QED BY <2>1 DEF Init, Link!Init
<1>2. TypeInv /\ [Next]_vars => [Link!Next]_Link!vars
  <2> SUFFICES ASSUME TypeInv, [Next]_vars
               PROVE  \/ Len(bytes') \in Nat /\ Len(bytes') > Len(bytes) /\ pos' = pos
                      \/ bytes' = bytes /\ pos' \in Nat /\ pos <= pos' /\ pos' <= Len(bytes)
    BY DEF Link!Next, Link!Arrive, Link!Take, Link!vars
  <2>1. pos \in Nat /\ Len(bytes) \in Nat /\ pos <= Len(bytes)
    BY StateTypes
  <2>2. CASE \E k \in Kinds : Send(k)
    <3>1. PICK k \in Kinds : Send(k)
      BY <2>2
    <3>2. Len(bytes') = Len(bytes) + Len(Wire[k]) /\ pos' = pos
      <4> DEFINE t == BytesOf(Wire[k], Len(sent) + 1)
      <4>1. Wire[k] \in Seq(Nat) /\ Len(sent) \in Nat /\ bytes \in Seq(Nat \X (1 .. Len(sent)))
        BY StateTypes, WireIsWire DEF IsWire, TypeInv, TypeOK
      <4>2. bytes' = bytes \o t /\ pos' = pos
        BY <3>1 DEF Send, BytesOf
      <4>3. IsJoin(bytes \o t, bytes, t) /\ Len(t) = Len(Wire[k])
        BY <4>1, SentBytes, Zenon
      <4> HIDE DEF t
      <4> QED BY <4>2, <4>3 DEF IsJoin
    <3>3. Len(Wire[k]) \in Nat /\ Len(Wire[k]) > 0
      <4>1. Len(Wire[k]) = PacketLen[k]
        BY WireIsWire DEF IsWire
      <4>2. PacketLen[k] \in {2, 5, 46, 67, 69, 73}
        BY DEF PacketLen, Kinds
      <4> QED BY <4>1, <4>2
    <3> QED BY <2>1, <3>2, <3>3
  <2>3. CASE Poll
    <3>1. PICK n \in IF link THEN Stops(pos) \cup {pos} ELSE {pos} : pos' = n
      BY <2>3 DEF Poll
    <3>2. n \in Stops(pos) \cup {pos}
      BY <3>1
    <3>3. n \in Nat /\ pos <= n /\ n <= Len(bytes)
      BY <3>2, StopsAre
    <3> QED BY <2>3, <3>1, <3>3 DEF Poll, broker_vars
  <2>4. CASE Forget \/ TransData \/ PushOta
    <3>1. bytes' = bytes
      BY <2>4 DEF Forget, TransData, PushOta, Dispatched, broker_vars
    <3>2. pos' = pos \/ pos' \in Stops(pos)
      BY <2>4 DEF Forget, TransData, PushOta, CheckOta
    <3>3. pos' \in Stops(pos) \cup {pos}
      BY <3>2
    <3>4. pos' \in Nat /\ pos <= pos' /\ pos' <= Len(bytes)
      BY <3>3, StopsAre
    <3> QED BY <3>1, <3>4
  <2>5. CASE \/ UNCHANGED vars \/ Begin \/ Empty \/ GetPing \/ GetShort \/ GetSer2cli \/ GetApp2dev
             \/ GetUnknown \/ DumpPacket
    <3>1. bytes' = bytes /\ pos' = pos
      BY <2>5 DEF vars, link_vars, broker_vars, Begin, Empty, GetPing, GetShort, GetSer2cli,
                  GetApp2dev, GetUnknown, DumpPacket
    <3> QED BY <2>1, <3>1
  <2> QED BY <2>2, <2>3, <2>4, <2>5 DEF Next, Device
<1>3. TypeInv /\ [Next]_vars => TypeInv'
  BY TypeNext
<1> QED BY <1>1, <1>2, <1>3, TypeInit, PTL DEF Spec, Link!Spec
=============================================================================
