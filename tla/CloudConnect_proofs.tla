------------------------- MODULE CloudConnect_proofs -------------------------
(***************************************************************************)
(* What the result of cloud_mqtt_connect says, for any number of stray     *)
(* pieces in the air: the proofs follow an answer from the broker to the   *)
(* two bytes the code looks at.                                            *)
(***************************************************************************)
EXTENDS CloudConnect, SequenceTheorems, TLAPS

-----------------------------------------------------------------------------
(* Sequences *)

LEMMA SetOfSeq ==
  ASSUME NEW S, NEW s \in Seq(S)
  PROVE  /\ ToSet(s) \subseteq S
         /\ \A i \in 1 .. Len(s) : s[i] \in ToSet(s)
         /\ \A e \in ToSet(s) : \E i \in 1 .. Len(s) : s[i] = e
BY DEF ToSet

LEMMA SetOfConcat ==
  ASSUME NEW S, NEW s \in Seq(S), NEW t \in Seq(S)
  PROVE  s \o t \in Seq(S) /\ ToSet(s \o t) = ToSet(s) \cup ToSet(t)
<1>1. /\ s \o t \in Seq(S) /\ Len(s \o t) = Len(s) + Len(t)
      /\ \A i \in 1 .. Len(s) + Len(t) :
           (s \o t)[i] = IF i <= Len(s) THEN s[i] ELSE t[i - Len(s)]
      /\ Len(s) \in Nat /\ Len(t) \in Nat
  BY ConcatProperties
<1>2. ASSUME NEW i \in 1 .. Len(s) PROVE s[i] \in ToSet(s \o t)
  <2>1. i \in 1 .. Len(s \o t) /\ (s \o t)[i] = s[i]
    BY <1>1
  <2>2. QED
    BY <1>1, <2>1, SetOfSeq
<1>3. ASSUME NEW i \in 1 .. Len(t) PROVE t[i] \in ToSet(s \o t)
  <2>1. i + Len(s) \in 1 .. Len(s \o t) /\ (s \o t)[i + Len(s)] = t[i]
    BY <1>1
  <2>2. QED
    BY <1>1, <2>1, SetOfSeq
<1>4. ASSUME NEW i \in 1 .. Len(s \o t) PROVE (s \o t)[i] \in ToSet(s) \cup ToSet(t)
  <2>1. CASE i <= Len(s)
    BY <1>1, <2>1, SetOfSeq
  <2>2. CASE i > Len(s)
    <3>1. i - Len(s) \in 1 .. Len(t) /\ (s \o t)[i] = t[i - Len(s)]
      BY <1>1, <2>2
    <3>2. QED
      BY <3>1, SetOfSeq
  <2>3. QED
    BY <1>1, <2>1, <2>2
<1>5. /\ \A e \in ToSet(s) : \E i \in 1 .. Len(s) : s[i] = e
      /\ \A e \in ToSet(t) : \E i \in 1 .. Len(t) : t[i] = e
      /\ \A e \in ToSet(s \o t) : \E i \in 1 .. Len(s \o t) : (s \o t)[i] = e
  BY <1>1, SetOfSeq
<1>6. QED
  BY <1>1, <1>2, <1>3, <1>4, <1>5

\* A read takes a prefix and leaves the rest.
LEMMA Cut ==
  ASSUME NEW S, NEW s \in Seq(S), NEW k \in 0 .. Len(s)
  PROVE  LET taken == SubSeq(s, 1, k)
             rest  == SubSeq(s, k + 1, Len(s))
         IN  /\ taken \in Seq(S) /\ Len(taken) = k
             /\ \A i \in 1 .. k : taken[i] = s[i]
             /\ ToSet(taken) \subseteq ToSet(s)
             /\ rest \in Seq(S) /\ Len(rest) = Len(s) - k
             /\ \A i \in 1 .. Len(s) - k : rest[i] = s[k + i]
             /\ ToSet(rest) \subseteq ToSet(s)
<1> DEFINE taken == SubSeq(s, 1, k)
           rest  == SubSeq(s, k + 1, Len(s))
<1>1. taken \in Seq(S) /\ Len(taken) = k /\ \A i \in 1 .. k : taken[i] = s[i]
  BY SubSeqProperties
<1>2. /\ rest \in Seq(S) /\ Len(rest) = Len(s) - k
      /\ \A i \in 1 .. Len(s) - k : rest[i] = s[k + i]
  BY SubSeqProperties
<1> HIDE DEF taken, rest
<1>3. \A i \in 1 .. Len(s) : s[i] \in ToSet(s)
  BY SetOfSeq
<1>4. ToSet(taken) \subseteq ToSet(s)
  <2>1. \A e \in ToSet(taken) : \E i \in 1 .. Len(taken) : taken[i] = e
    BY <1>1, SetOfSeq
  <2>2. QED
    BY <1>1, <1>3, <2>1
<1>5. ToSet(rest) \subseteq ToSet(s)
  <2>1. \A e \in ToSet(rest) : \E i \in 1 .. Len(rest) : rest[i] = e
    BY <1>2, SetOfSeq
  <2>2. \A i \in 1 .. Len(s) - k : k + i \in 1 .. Len(s)
    OBVIOUS
  <2>3. QED
    BY <1>2, <1>3, <2>1, <2>2
<1>6. QED
  BY <1>1, <1>2, <1>4, <1>5 DEF taken, rest

-----------------------------------------------------------------------------
(* The modem and its peers *)

\* What comes from elsewhere than the broker
Stray == {"head", "half1", "half2", "page", "line"}

LEMMA Pair ==
  ASSUME NEW a, NEW b
  PROVE  /\ <<a, b>> \in Seq({a, b}) /\ ToSet(<<a, b>>) = {a, b}
         /\ Len(<<a, b>>) = 2 /\ <<a, b>>[1] = a /\ <<a, b>>[2] = b
BY DEF ToSet

LEMMA Triple ==
  ASSUME NEW a, NEW b, NEW c
  PROVE  <<a, b, c>> \in Seq({a, b, c}) /\ ToSet(<<a, b, c>>) = {a, b, c}
BY DEF ToSet

LEMMA Quadruple ==
  ASSUME NEW a, NEW b, NEW c, NEW d
  PROVE  /\ <<a, b, c, d>> \in Seq({a, b, c, d}) /\ ToSet(<<a, b, c, d>>) = {a, b, c, d}
         /\ Len(<<a, b, c, d>>) = 4 /\ <<a, b, c, d>>[1] = a
         /\ <<a, b, c, d>>[2] = b /\ <<a, b, c, d>>[3] = c
BY DEF ToSet

\* The strays that come together
StrayAnswers == {<<>>, <<"head", "half1", "half2">>, <<"head", "page">>, <<"line">>}

LEMMA Strays ==
  ASSUME NEW t \in StrayAnswers
  PROVE  t \in Seq(Piece) /\ ToSet(t) \subseteq Stray
<1>1. CASE t = <<>>
  BY <1>1 DEF ToSet
<1>2. CASE t = <<"head", "half1", "half2">>
  <2>1. t \in Seq({"head", "half1", "half2"}) /\ ToSet(t) = {"head", "half1", "half2"}
    BY <1>2, Triple
  <2>2. {"head", "half1", "half2"} \subseteq Piece
    BY DEF Piece
  <2>3. {"head", "half1", "half2"} \subseteq Stray
    BY DEF Stray
  <2>4. QED
    BY <2>1, <2>2, <2>3, SeqMonotonic
<1>3. CASE t = <<"head", "page">>
  <2>1. t \in Seq({"head", "page"}) /\ ToSet(t) = {"head", "page"}
    BY <1>3, Pair
  <2>2. {"head", "page"} \subseteq Piece
    BY DEF Piece
  <2>3. {"head", "page"} \subseteq Stray
    BY DEF Stray
  <2>4. QED
    BY <2>1, <2>2, <2>3, SeqMonotonic
<1>4. CASE t = <<"line">>
  <2>1. t \in Seq({"line"}) /\ ToSet(t) = {"line"}
    BY <1>4 DEF ToSet
  <2>2. {"line"} \subseteq Piece
    BY DEF Piece
  <2>3. {"line"} \subseteq Stray
    BY DEF Stray
  <2>4. QED
    BY <2>1, <2>2, <2>3, SeqMonotonic
<1>5. QED
  BY <1>1, <1>2, <1>3, <1>4 DEF StrayAnswers

\* The commands take some of what is unread and add strays only.
LEMMA CommandsProperties ==
  ASSUME NEW unread \in Seq(Piece), NEW m, NEW u \in AfterCommands(unread, m)
  PROVE  u \in Seq(Piece) /\ ToSet(u) \subseteq ToSet(unread) \cup Stray
<1>1. PICK k \in 0 .. Len(unread), t \in {<<>>, Left(m)} :
        u = SubSeq(unread, k + 1, Len(unread)) \o t
  BY SMTT(30) DEF AfterCommands
<1> DEFINE rest == SubSeq(unread, k + 1, Len(unread))
<1>2. t \in Seq(Piece) /\ ToSet(t) \subseteq Stray
  <2>1. t \in StrayAnswers
    BY DEF Left, StrayAnswers
  <2>2. QED
    BY <2>1, Strays
<1>3. rest \in Seq(Piece) /\ ToSet(rest) \subseteq ToSet(unread)
  BY Cut
<1>4. u = rest \o t
  BY <1>1
<1> HIDE DEF rest
<1>5. rest \o t \in Seq(Piece) /\ ToSet(rest \o t) = ToSet(rest) \cup ToSet(t)
  BY <1>2, <1>3, SetOfConcat
<1>6. QED
  BY <1>2, <1>3, <1>4, <1>5

\* Whoever answers, only the broker's answer is not a stray.
LEMMA RepliesProperties ==
  ASSUME NEW m, NEW ofBroker, NEW reply \in Replies(m, ofBroker)
  PROVE  \/ reply \in ofBroker /\ Leads(m, "broker", 1883)
         \/ reply \in Seq(Piece) /\ ToSet(reply) \subseteq Stray
<1> DEFINE none == <<>>
           halves == <<"head", "half1", "half2">>
           page == <<"head", "page">>
           line == <<"line">>
<1>1. none \in StrayAnswers /\ halves \in StrayAnswers /\ page \in StrayAnswers /\ line \in StrayAnswers
  BY DEF StrayAnswers
<1>2. Replies(m, ofBroker) =
        {none}
        \cup {r \in {halves} : Leads(m, "service", 80) /\ at \in {"register", "provision"}}
        \cup {r \in {page} : Leads(m, "service", 80)}
        \cup {r \in ofBroker : Leads(m, "broker", 1883)}
        \cup {r \in {line} : ~m.open}
  BY DEF Replies
<1> HIDE DEF none, halves, page, line
<1>3. (reply \in ofBroker /\ Leads(m, "broker", 1883)) \/ reply \in {none, halves, page, line}
  BY <1>2
<1>4. QED
  BY <1>1, <1>3, Strays

\* The modem has an address it was told or had, and a port likewise.
ModemType == [addr : {"none", "service", "broker"}, port : Ports \cup {Factory}, open : BOOLEAN]

LEMMA OpenedProperties ==
  ASSUME modem \in ModemType, NEW addr \in {"service", "broker"}, NEW port \in Ports,
         NEW m \in Opened(addr, port)
  PROVE  m \in ModemType /\ m.port \in {modem.port, port}
BY DEF Opened, ModemType

LEMMA ClosedProperties ==
  ASSUME modem \in ModemType, NEW m \in Closed
  PROVE  m \in ModemType /\ m.port = modem.port
BY DEF Closed, ModemType

-----------------------------------------------------------------------------
(* The invariants *)

\* Until the CONNECT only the service and the modem have answered, and no port
\* was told to the modem that is not known.
Early == {"init", "register", "registered", "provision", "provisioned", "connect"}
EarlyInv ==
  at \in Early =>
    /\ ~session /\ acked = {} /\ ToSet(air) \subseteq Stray
    /\ modem.port # 0
    /\ at = "connect" /\ mqtt_server /\ mqtt_port = 0 => cutReply

\* What was read so far, and the acknowledgements still in the air, are the
\* broker's, and the modem leads there.
AnswerInv ==
  /\ at # "done" => rc = 0
  /\ session => Leads(modem, "broker", 1883)
  /\ acked # {} => session
  /\ ToSet(air) \cap {"id1", "id2"} \subseteq acked
  /\ at \in {"subscribe1", "suback1"} => recv2[1] = "CONNACK" /\ recv2[2] = "rc0"
  /\ at \in {"subscribe2", "suback2"} =>
       recv2[1] = "SUBACK" /\ recv2[2] = "id1" /\ "id1" \in acked
  /\ Connected => {"id1", "id2"} \subseteq acked

\* The broker's answer to a SUBSCRIBE, with a publication behind it or not
Starts(s, p) == s # <<>> /\ s[1] = p
IsSuback(s, id) ==
  /\ Len(s) \in {2, 4} /\ s[1] = "SUBACK" /\ s[2] = id
  /\ Len(s) = 4 => s[3] = "PUBLISH"

\* Whatever was read, the air either holds just the broker's next answer, or it
\* begins with something that the code will not take for one.
AirInv ==
  /\ at \in {"connack", "subscribe1"} => "SUBACK" \notin ToSet(air)
  /\ at = "suback1" => (Starts(air, "SUBACK") => IsSuback(air, "id1"))
  /\ at = "subscribe2" /\ ~dropped => air = <<>> \/ Starts(air, "PUBLISH")
  /\ at = "suback2" /\ ~dropped => (Starts(air, "SUBACK") => IsSuback(air, "id2"))

IInv == CloudTypeOK /\ EarlyInv /\ AnswerInv /\ AirInv /\ PortIsKnown /\ BeginsAtPacket

LEMMA InitInv == CloudInit => IInv
<1> SUFFICES ASSUME CloudInit PROVE IInv
  OBVIOUS
<1>1. /\ at = "init" /\ air = <<>> /\ rc = 0 /\ acked = {} /\ mqtt_port = 0
      /\ did = FALSE /\ mqtt_server = FALSE /\ session = FALSE /\ dropped = FALSE
      /\ cutReply = FALSE
      /\ modem = [addr |-> "none", port |-> Factory, open |-> FALSE]
      /\ recv2 \in {"CONNACK", "SUBACK", "data"} \X {"rc0", "id2", "data"}
  BY DEF CloudInit
<1>2. <<>> \in Seq(Piece) /\ ToSet(<<>>) = {}
  BY DEF ToSet
<1>3. recv2 \in Piece \X Piece
  BY <1>1 DEF Piece
<1>4. modem \in ModemType /\ modem.port # 0
  <2>1. /\ "none" \in {"none", "service", "broker"} /\ Factory \in Ports \cup {Factory}
        /\ FALSE \in BOOLEAN /\ Factory # 0
    BY DEF Factory
  <2>2. QED
    BY <1>1, <2>1 DEF ModemType
<1>5. CloudTypeOK
  <2>1. {did, mqtt_server, session, dropped, cutReply} \subseteq BOOLEAN
    BY <1>1
  <2>2. mqtt_port \in Ports /\ acked \subseteq {"id1", "id2"}
    BY <1>1 DEF Ports
  <2>3. QED
    BY <1>1, <1>2, <1>3, <1>4, <2>1, <2>2 DEF CloudTypeOK, ModemType
<1>6. EarlyInv
  BY <1>1, <1>2, <1>4 DEF EarlyInv
<1>7. AnswerInv
  BY <1>1, <1>2 DEF AnswerInv, Connected
<1>8. AirInv /\ PortIsKnown /\ BeginsAtPacket
  BY <1>1, <1>4 DEF AirInv, PortIsKnown, BeginsAtPacket, Connected
<1>9. QED
  BY <1>5, <1>6, <1>7, <1>8 DEF IInv

\* readn takes a prefix: what the code looks at is new or is what was there.
LEMMA ReadProperties ==
  ASSUME CloudTypeOK, ReadReply
  PROVE  \E k \in 0 .. Len(air) :
           /\ air' \in Seq(Piece) /\ ToSet(air') \subseteq ToSet(air)
           /\ Len(air') = Len(air) - k
           /\ \A i \in 1 .. Len(air) - k : air'[i] = air[k + i]
           /\ recv2' \in Piece \X Piece
           /\ recv2'[1] = IF k >= 1 THEN air[1] ELSE recv2[1]
           /\ recv2'[2] = IF k >= 2 THEN air[2] ELSE recv2[2]
           /\ dropped' \in BOOLEAN
           /\ ~dropped' => ~dropped /\ \A i \in 1 .. k : air[i] # "PUBLISH"
<1>1. air \in Seq(Piece) /\ recv2 \in Piece \X Piece
  BY DEF CloudTypeOK
<1>2. PICK k \in 0 .. Len(air) :
        /\ air' = SubSeq(air, k + 1, Len(air))
        /\ recv2' = <<IF k >= 1 THEN SubSeq(air, 1, k)[1] ELSE recv2[1],
                      IF k >= 2 THEN SubSeq(air, 1, k)[2] ELSE recv2[2]>>
        /\ dropped' = (dropped \/ "PUBLISH" \in ToSet(SubSeq(air, 1, k)))
  BY DEF ReadReply
<1> DEFINE text == SubSeq(air, 1, k)
<1>3. /\ text \in Seq(Piece) /\ Len(text) = k
      /\ \A i \in 1 .. k : text[i] = air[i]
      /\ air' \in Seq(Piece) /\ Len(air') = Len(air) - k
      /\ \A i \in 1 .. Len(air) - k : air'[i] = air[k + i]
      /\ ToSet(air') \subseteq ToSet(air)
  BY <1>1, <1>2, Cut
<1>4. /\ recv2' = <<IF k >= 1 THEN text[1] ELSE recv2[1],
                    IF k >= 2 THEN text[2] ELSE recv2[2]>>
      /\ dropped' = (dropped \/ "PUBLISH" \in ToSet(text))
  BY <1>2
<1> HIDE DEF text
<1>5. /\ k >= 1 => text[1] = air[1] /\ text[1] \in Piece
      /\ k >= 2 => text[2] = air[2] /\ text[2] \in Piece
  BY <1>3, ElementOfSeq
<1>6. recv2[1] \in Piece /\ recv2[2] \in Piece
  BY <1>1
<1>7. \A i \in 1 .. k : text[i] \in ToSet(text)
  BY <1>3, SetOfSeq
<1>8. QED
  BY <1>1, <1>3, <1>4, <1>5, <1>6, <1>7, ZenonT(60)

-----------------------------------------------------------------------------
(* Before the CONNECT *)

\* A step that only brings strays
LEMMA EarlyStep ==
  ASSUME IInv, at \in Early, at' \in Early \cup {"fault"},
         UNCHANGED <<session, acked, rc, recv2, dropped>>,
         air' \in Seq(Piece), ToSet(air') \subseteq ToSet(air) \cup Stray,
         modem' \in ModemType, modem'.port # 0, mqtt_port' \in Ports,
         did' \in BOOLEAN, mqtt_server' \in BOOLEAN, cutReply' \in BOOLEAN,
         at' = "connect" /\ mqtt_server' /\ mqtt_port' = 0 => cutReply'
  PROVE  IInv'
<1>1. /\ recv2 \in Piece \X Piece /\ rc \in {0, -2, -3} /\ acked \subseteq {"id1", "id2"}
      /\ {session, dropped} \subseteq BOOLEAN
  BY DEF IInv, CloudTypeOK
<1>2. ~session /\ acked = {} /\ ToSet(air) \subseteq Stray /\ rc = 0
  BY DEF IInv, EarlyInv, AnswerInv, Early
<1>3. ToSet(air') \subseteq Stray
  BY <1>2
<1>4. /\ at' \in {"init", "register", "registered", "provision", "provisioned", "connect",
                  "fault"}
  BY DEF Early
<1>5. CloudTypeOK'
  <2>1. {did', mqtt_server', session', dropped', cutReply'} \subseteq BOOLEAN
    BY <1>1
  <2>2. modem' \in [addr : {"none", "service", "broker"}, port : Ports \cup {Factory},
                    open : BOOLEAN]
    BY DEF ModemType
  <2>3. QED
    BY <1>1, <1>4, <2>1, <2>2 DEF CloudTypeOK
<1>6. EarlyInv'
  BY <1>2, <1>3 DEF EarlyInv
<1>7. AnswerInv'
  <2>1. ToSet(air') \cap {"id1", "id2"} = {}
    BY <1>3 DEF Stray
  <2>2. /\ ~session' /\ acked' = {} /\ rc' = 0
        /\ at' \notin {"done", "subscribe1", "suback1", "subscribe2", "suback2"}
    BY <1>2, <1>4
  <2>3. QED
    BY <2>1, <2>2 DEF AnswerInv, Connected
<1>8. AirInv' /\ PortIsKnown' /\ BeginsAtPacket'
  BY <1>4 DEF AirInv, PortIsKnown, BeginsAtPacket, Connected
<1>9. QED
  BY <1>5, <1>6, <1>7, <1>8 DEF IInv

\* The types that the early steps need
LEMMA EarlyTypes ==
  ASSUME IInv, at \in Early
  PROVE  /\ air \in Seq(Piece) /\ modem \in ModemType /\ modem.port # 0
         /\ mqtt_port \in Ports /\ did \in BOOLEAN /\ mqtt_server \in BOOLEAN
         /\ cutReply \in BOOLEAN
BY DEF IInv, CloudTypeOK, EarlyInv, ModemType

LEMMA InitCloudStep == ASSUME IInv, InitCloud PROVE IInv'
<1>1. at \in Early /\ at' \in Early /\ at' # "connect" /\ did' \in BOOLEAN
  BY DEF InitCloud, Early
<1>2. UNCHANGED <<mqtt_server, mqtt_port, modem, air, recv2, rc, session, acked, dropped,
                  cutReply>>
  BY DEF InitCloud
<1>3. QED
  BY <1>1, <1>2, EarlyTypes, EarlyStep

LEMMA RequestStep == ASSUME IInv, Request PROVE IInv'
<1>1. at \in Early /\ at' \in Early /\ at' # "connect"
  BY DEF Request, Early
<1>2. /\ air \in Seq(Piece) /\ modem \in ModemType /\ modem.port # 0
      /\ mqtt_port \in Ports /\ did \in BOOLEAN /\ mqtt_server \in BOOLEAN
      /\ cutReply \in BOOLEAN
  BY <1>1, EarlyTypes
<1>3. PICK m \in Opened("service", 80), unread \in AfterCommands(air, modem) :
        \E reply \in Replies(m, {}) : modem' = m /\ air' = unread \o reply
  BY DEF Request
<1>4. PICK reply \in Replies(m, {}) : modem' = m /\ air' = unread \o reply
  BY <1>3
<1>5. modem' \in ModemType /\ modem'.port # 0
  <2>1. 80 \in Ports /\ m \in Opened("service", 80)
    BY DEF Ports
  <2>2. m \in ModemType /\ m.port \in {modem.port, 80}
    BY <1>2, <2>1, OpenedProperties
  <2>3. QED
    BY <1>2, <1>4, <2>2
<1>6. /\ unread \in Seq(Piece) /\ ToSet(unread) \subseteq ToSet(air) \cup Stray
      /\ reply \in Seq(Piece) /\ ToSet(reply) \subseteq Stray
  BY <1>2, CommandsProperties, RepliesProperties
<1>7. air' \in Seq(Piece) /\ ToSet(air') \subseteq ToSet(air) \cup Stray
  BY <1>4, <1>6, SetOfConcat
<1>8. UNCHANGED <<did, mqtt_server, mqtt_port, recv2, rc, session, acked, dropped, cutReply>>
  BY DEF Request
<1>9. QED
  BY <1>1, <1>2, <1>5, <1>7, <1>8, EarlyStep

LEMMA RegisteredStep == ASSUME IInv, Registered PROVE IInv'
<1>1. at \in Early
  BY DEF Registered, Early
<1>2. /\ air \in Seq(Piece) /\ modem \in ModemType /\ modem.port # 0
      /\ mqtt_port \in Ports /\ mqtt_server \in BOOLEAN /\ cutReply \in BOOLEAN
  BY <1>1, EarlyTypes
<1>3. PICK k \in 0 .. Len(air) :
        LET text == SubSeq(air, 1, k)
            rest == SubSeq(air, k + 1, Len(air))
        IN  /\ did' = Whole(text)
            /\ GoOn("provision", text)
            /\ IF HasHead(text)
               THEN air' = rest /\ UNCHANGED modem
               ELSE modem' \in Closed /\ air' \in AfterCommands(rest, modem')
  BY DEF Registered
<1> DEFINE text == SubSeq(air, 1, k)
           rest == SubSeq(air, k + 1, Len(air))
<1>4. /\ did' = Whole(text) /\ GoOn("provision", text)
      /\ \/ air' = rest /\ UNCHANGED modem
         \/ modem' \in Closed /\ air' \in AfterCommands(rest, modem')
  BY <1>3
<1>5. rest \in Seq(Piece) /\ ToSet(rest) \subseteq ToSet(air)
  BY <1>2, Cut
<1> HIDE DEF text, rest
<1>6. did' \in BOOLEAN
  BY <1>4 DEF Whole
<1>7. at' \in Early \cup {"fault"} /\ at' # "connect"
  BY <1>4 DEF GoOn, Early
<1>8. modem' \in ModemType /\ modem'.port # 0
  BY <1>2, <1>4, ClosedProperties
<1>9. air' \in Seq(Piece) /\ ToSet(air') \subseteq ToSet(air) \cup Stray
  BY <1>4, <1>5, CommandsProperties
<1>10. UNCHANGED <<mqtt_server, mqtt_port, recv2, rc, session, acked, dropped, cutReply>>
  BY DEF Registered
<1>11. QED
  BY <1>1, <1>2, <1>6, <1>7, <1>8, <1>9, <1>10, EarlyStep

LEMMA ProvisionedStep == ASSUME IInv, Provisioned PROVE IInv'
<1>1. at \in Early
  BY DEF Provisioned, Early
<1>2. air \in Seq(Piece) /\ modem \in ModemType /\ modem.port # 0 /\ did \in BOOLEAN
  BY <1>1, EarlyTypes
<1>3. PICK k \in 0 .. Len(air) :
        LET text == SubSeq(air, 1, k)
        IN  /\ mqtt_server' = Half1(text)
            /\ mqtt_port' = IF Whole(text) THEN 1883 ELSE 0
            /\ cutReply' = (Half1(text) /\ ~Whole(text))
            /\ GoOn("connect", text)
            /\ modem' \in Closed
            /\ air' \in AfterCommands(SubSeq(air, k + 1, Len(air)), modem')
  BY DEF Provisioned
<1> DEFINE text == SubSeq(air, 1, k)
           rest == SubSeq(air, k + 1, Len(air))
<1>4. /\ mqtt_server' = Half1(text)
      /\ mqtt_port' = IF Whole(text) THEN 1883 ELSE 0
      /\ cutReply' = (Half1(text) /\ ~Whole(text))
      /\ GoOn("connect", text)
      /\ modem' \in Closed
      /\ air' \in AfterCommands(rest, modem')
  BY <1>3
<1>5. rest \in Seq(Piece) /\ ToSet(rest) \subseteq ToSet(air)
  BY <1>2, Cut
<1> HIDE DEF text, rest
<1>6. /\ mqtt_server' \in BOOLEAN /\ cutReply' \in BOOLEAN /\ mqtt_port' \in Ports
      /\ mqtt_server' /\ mqtt_port' = 0 => cutReply'
  <2>1. mqtt_server' \in BOOLEAN /\ cutReply' \in BOOLEAN
    BY <1>4 DEF Half1
  <2>2. mqtt_port' \in Ports
    BY <1>4 DEF Ports
  <2>3. mqtt_server' /\ mqtt_port' = 0 => cutReply'
    <3>1. Whole(text) => mqtt_port' = 1883
      BY <1>4
    <3>2. ~Whole(text) /\ mqtt_server' => cutReply'
      BY <1>4, Zenon
    <3>3. QED
      BY <3>1, <3>2
  <2>4. QED
    BY <2>1, <2>2, <2>3
<1>7. at' \in Early \cup {"fault"}
  BY <1>4 DEF GoOn, Early
<1>8. modem' \in ModemType /\ modem'.port # 0
  BY <1>2, <1>4, ClosedProperties
<1>9. air' \in Seq(Piece) /\ ToSet(air') \subseteq ToSet(air) \cup Stray
  BY <1>4, <1>5, CommandsProperties
<1>10. UNCHANGED <<did, recv2, rc, session, acked, dropped>>
  BY DEF Provisioned
<1>11. QED
  BY <1>1, <1>2, <1>6, <1>7, <1>8, <1>9, <1>10, EarlyStep

-----------------------------------------------------------------------------
(* From the CONNECT on *)

LEMMA MqttConnectStep == ASSUME IInv, MqttConnect PROVE IInv'
<1> DEFINE port == IF mqtt_server THEN mqtt_port ELSE 1883
           brokers == {<<"CONNACK", "rc0">>, <<"CONNACK", "rc5">>}
<1>1. at = "connect" /\ at' = "connack" /\ at \in Early
  BY DEF MqttConnect, Early
<1>2. /\ air \in Seq(Piece) /\ modem \in ModemType /\ modem.port # 0
      /\ mqtt_port \in Ports /\ did \in BOOLEAN /\ mqtt_server \in BOOLEAN
      /\ cutReply \in BOOLEAN
  BY <1>1, EarlyTypes
<1>3. /\ recv2 \in Piece \X Piece /\ rc = 0 /\ {dropped} \subseteq BOOLEAN
  BY <1>1 DEF IInv, CloudTypeOK, AnswerInv
<1>4. ~session /\ acked = {} /\ ToSet(air) \subseteq Stray
      /\ (mqtt_server /\ mqtt_port = 0 => cutReply)
  BY <1>1 DEF IInv, EarlyInv
<1> HIDE DEF port, brokers
<1>5. PICK m \in Opened("broker", port), unread \in AfterCommands(air, modem) :
        \E reply \in Replies(m, brokers) :
          /\ modem' = m /\ air' = unread \o reply
          /\ session' = (reply = <<"CONNACK", "rc0">>)
  BY DEF MqttConnect, port, brokers
<1>6. PICK reply \in Replies(m, brokers) :
          /\ modem' = m /\ air' = unread \o reply
          /\ session' = (reply = <<"CONNACK", "rc0">>)
  BY <1>5
<1>7. UNCHANGED <<did, mqtt_server, mqtt_port, recv2, rc, acked, dropped, cutReply>>
  BY DEF MqttConnect
<1>8. modem' \in ModemType /\ (modem'.port = 0 => cutReply)
  <2>1. port \in Ports /\ (port = 0 => cutReply)
    BY <1>2, <1>4 DEF Ports, port
  <2>2. m \in Opened("broker", port)
    BY <1>5
  <2>3. m \in ModemType /\ m.port \in {modem.port, port}
    BY <1>2, <2>1, <2>2, OpenedProperties
  <2>4. QED
    BY <1>2, <1>6, <2>1, <2>3
\* The answer, and where it is from
<1>9. /\ reply \in Seq(Piece) /\ ToSet(reply) \subseteq Stray \cup {"CONNACK", "rc0", "rc5"}
      /\ session' => Leads(modem', "broker", 1883)
  <2>1. CASE reply \in brokers /\ Leads(m, "broker", 1883)
    <3>1. PICK b \in {"rc0", "rc5"} : reply = <<"CONNACK", b>>
      BY <2>1 DEF brokers
    <3>2. reply \in Seq({"CONNACK", b}) /\ ToSet(reply) = {"CONNACK", b}
      BY <3>1, Pair
    <3>3. {"CONNACK", b} \subseteq Piece
      BY DEF Piece
    <3>4. QED
      BY <1>6, <2>1, <3>2, <3>3, SeqMonotonic, SMTT(30)
  <2>2. CASE reply \in Seq(Piece) /\ ToSet(reply) \subseteq Stray
    <3>1. ToSet(<<"CONNACK", "rc0">>) = {"CONNACK", "rc0"}
      BY Pair
    <3>2. "CONNACK" \notin Stray
      BY DEF Stray
    <3>3. reply # <<"CONNACK", "rc0">>
      BY <2>2, <3>1, <3>2
    <3>4. QED
      BY <1>6, <2>2, <3>3
  <2>3. reply \in Replies(m, brokers)
    BY <1>6
  <2>4. QED
    BY <2>1, <2>2, <2>3, RepliesProperties
<1>10. unread \in Seq(Piece) /\ ToSet(unread) \subseteq Stray
  BY <1>2, <1>4, CommandsProperties
<1>11. air' \in Seq(Piece) /\ ToSet(air') = ToSet(unread) \cup ToSet(reply)
  BY <1>6, <1>9, <1>10, SetOfConcat
<1>12. ToSet(air') \cap {"SUBACK", "id1", "id2"} = {}
  <2>1. (Stray \cup {"CONNACK", "rc0", "rc5"}) \cap {"SUBACK", "id1", "id2"} = {}
    BY DEF Stray
  <2>2. QED
    BY <1>9, <1>10, <1>11, <2>1
<1>13. CloudTypeOK'
  <2>1. {did', mqtt_server', session', dropped', cutReply'} \subseteq BOOLEAN
    BY <1>2, <1>3, <1>6, <1>7
  <2>2. modem' \in [addr : {"none", "service", "broker"}, port : Ports \cup {Factory},
                    open : BOOLEAN]
    BY <1>8 DEF ModemType
  <2>3. QED
    BY <1>1, <1>2, <1>3, <1>4, <1>7, <1>11, <2>1, <2>2 DEF CloudTypeOK
<1>14. EarlyInv' /\ AirInv' /\ PortIsKnown' /\ BeginsAtPacket'
  BY <1>1, <1>7, <1>8, <1>12 DEF EarlyInv, Early, AirInv, PortIsKnown, BeginsAtPacket, Connected
<1>15. AnswerInv'
  BY <1>1, <1>3, <1>4, <1>7, <1>9, <1>12 DEF AnswerInv, Connected
<1>16. QED
  BY <1>13, <1>14, <1>15 DEF IInv

\* The code gives up: nothing is promised.
LEMMA GivenUp ==
  ASSUME IInv, at' = "done", rc' \in {-2, -3}, air' \in Seq(Piece),
         ToSet(air') \subseteq ToSet(air), recv2' \in Piece \X Piece, dropped' \in BOOLEAN,
         UNCHANGED <<did, mqtt_server, mqtt_port, modem, session, acked, cutReply>>
  PROVE  IInv'
<1>1. CloudTypeOK'
  <2>1. /\ {did, mqtt_server, session, cutReply} \subseteq BOOLEAN
        /\ mqtt_port \in Ports /\ acked \subseteq {"id1", "id2"}
        /\ modem \in [addr : {"none", "service", "broker"}, port : Ports \cup {Factory},
                      open : BOOLEAN]
    BY DEF IInv, CloudTypeOK
  <2>2. {did', mqtt_server', session', dropped', cutReply'} \subseteq BOOLEAN
    BY <2>1
  <2>3. QED
    BY <2>1, <2>2 DEF CloudTypeOK
<1>2. AnswerInv'
  BY DEF IInv, AnswerInv, Connected, Leads
<1>3. EarlyInv' /\ AirInv' /\ PortIsKnown' /\ BeginsAtPacket'
  BY DEF IInv, EarlyInv, Early, AirInv, PortIsKnown, BeginsAtPacket, Connected
<1>4. QED
  BY <1>1, <1>2, <1>3 DEF IInv

LEMMA ConnackStep == ASSUME IInv, Connack PROVE IInv'
<1>1. at = "connack" /\ ReadReply /\ CloudTypeOK /\ AnswerInv /\ AirInv /\ PortIsKnown
  BY DEF IInv, Connack
<1>2. UNCHANGED <<did, mqtt_server, mqtt_port, modem, session, acked, cutReply>>
  BY DEF Connack
<1>3. /\ air' \in Seq(Piece) /\ ToSet(air') \subseteq ToSet(air)
      /\ recv2' \in Piece \X Piece /\ dropped' \in BOOLEAN
  BY <1>1, ReadProperties
<1>4. CASE at' = "done" /\ rc' = -2
  BY <1>2, <1>3, <1>4, GivenUp
<1>5. CASE at' = "subscribe1" /\ rc' = rc /\ recv2'[1] = "CONNACK" /\ recv2'[2] = "rc0"
  <2>1. CloudTypeOK'
    <3>1. /\ {did, mqtt_server, session, cutReply} \subseteq BOOLEAN
          /\ mqtt_port \in Ports /\ acked \subseteq {"id1", "id2"} /\ rc \in {0, -2, -3}
          /\ modem \in [addr : {"none", "service", "broker"}, port : Ports \cup {Factory},
                        open : BOOLEAN]
      BY <1>1 DEF CloudTypeOK
    <3>2. {did', mqtt_server', session', dropped', cutReply'} \subseteq BOOLEAN
      BY <1>2, <1>3, <3>1
    <3>3. QED
      BY <1>2, <1>3, <1>5, <3>1, <3>2 DEF CloudTypeOK
  <2>2. AnswerInv'
    BY <1>1, <1>2, <1>3, <1>5 DEF AnswerInv, Connected, Leads
  <2>3. EarlyInv' /\ AirInv' /\ PortIsKnown' /\ BeginsAtPacket'
    BY <1>1, <1>2, <1>3, <1>5
       DEF EarlyInv, Early, AirInv, PortIsKnown, BeginsAtPacket, Connected
  <2>4. QED
    BY <2>1, <2>2, <2>3 DEF IInv
<1>6. QED
  BY <1>4, <1>5 DEF Connack

\* mqtt_subscribe: an acknowledgement in the air is the broker's, and follows
\* what was there.
LEMMA SubscribeEffect ==
  ASSUME IInv, NEW n \in {1, 2}, NEW id \in {"id1", "id2"}, Subscribe(n, id)
  PROVE  /\ air' \in Seq(Piece) /\ acked \subseteq acked' /\ acked' \subseteq {"id1", "id2"}
         /\ acked' # {} => session
         /\ ToSet(air') \cap {"id1", "id2"} \subseteq acked'
         /\ air # <<>> => Starts(air', air[1])
         /\ air = <<>> => (Starts(air', "SUBACK") => IsSuback(air', id))
<1> DEFINE served == IF session THEN {<<"SUBACK", id>>, <<"SUBACK", id, "PUBLISH", "data">>}
                     ELSE {}
<1>1. /\ air \in Seq(Piece) /\ acked \subseteq {"id1", "id2"} /\ (acked # {} => session)
      /\ ToSet(air) \cap {"id1", "id2"} \subseteq acked
  BY DEF IInv, CloudTypeOK, AnswerInv
<1>2. PICK reply \in Replies(modem, served) :
        air' = air \o reply /\ acked' = acked \cup ({id} \cap ToSet(reply))
  BY DEF Subscribe
<1> HIDE DEF served
\* The reply, whoever sent it
<1>3. /\ reply \in Seq(Piece)
      /\ ToSet(reply) \cap {"id1", "id2"} \subseteq {id}
      /\ id \in ToSet(reply) => session
      /\ Starts(reply, "SUBACK") => IsSuback(reply, id)
  <2>1. CASE reply \in served
    <3>1. session
      BY <2>1 DEF served
    <3>2. CASE reply = <<"SUBACK", id>>
      <4>1. reply \in Seq({"SUBACK", id}) /\ ToSet(reply) = {"SUBACK", id}
        BY <3>2, Pair
      <4>2. {"SUBACK", id} \subseteq Piece
        BY DEF Piece
      <4>3. IsSuback(reply, id)
        BY <3>2 DEF IsSuback
      <4>4. QED
        BY <3>1, <4>1, <4>2, <4>3, SeqMonotonic
    <3>3. CASE reply = <<"SUBACK", id, "PUBLISH", "data">>
      <4>1. /\ reply \in Seq({"SUBACK", id, "PUBLISH", "data"})
            /\ ToSet(reply) = {"SUBACK", id, "PUBLISH", "data"}
        BY <3>3, Quadruple
      <4>2. {"SUBACK", id, "PUBLISH", "data"} \subseteq Piece
        BY DEF Piece
      <4>3. IsSuback(reply, id)
        BY <3>3, Quadruple DEF IsSuback
      <4>4. QED
        BY <3>1, <4>1, <4>2, <4>3, SeqMonotonic
    <3>4. QED
      BY <2>1, <3>2, <3>3 DEF served
  <2>2. CASE reply \in Seq(Piece) /\ ToSet(reply) \subseteq Stray
    <3>1. Stray \cap {"SUBACK", "id1", "id2"} = {}
      BY DEF Stray
    <3>2. ~Starts(reply, "SUBACK")
      <4>1. reply # <<>> => reply[1] \in ToSet(reply)
        BY <2>2, SetOfSeq, EmptySeq, LenProperties
      <4>2. QED
        BY <2>2, <3>1, <4>1 DEF Starts
    <3>3. QED
      BY <2>2, <3>1, <3>2
  <2>3. QED
    BY <2>1, <2>2, RepliesProperties
<1>4. /\ air' \in Seq(Piece) /\ ToSet(air') = ToSet(air) \cup ToSet(reply)
      /\ Len(air') = Len(air) + Len(reply)
      /\ \A i \in 1 .. Len(air) : air'[i] = air[i]
  BY <1>1, <1>2, <1>3, SetOfConcat, ConcatProperties
<1>5. air # <<>> => Starts(air', air[1])
  <2> SUFFICES ASSUME air # <<>> PROVE Starts(air', air[1])
    OBVIOUS
  <2>1. Len(air) \in Nat \ {0} /\ Len(reply) \in Nat
    BY <1>1, <1>3, EmptySeq, LenProperties
  <2>2. Len(air') # 0 /\ air'[1] = air[1]
    BY <1>4, <2>1
  <2>3. QED
    BY <2>2, EmptySeq DEF Starts
<1>6. air = <<>> => air' = reply
  BY <1>2, <1>3
<1>7. QED
  BY <1>1, <1>2, <1>3, <1>4, <1>5, <1>6, ZenonT(60)

LEMMA SubscribeStep ==
  ASSUME IInv, Subscribe(1, "id1") \/ Subscribe(2, "id2") PROVE IInv'
<1>1. PICK n \in {1, 2}, id \in {"id1", "id2"} :
        /\ Subscribe(n, id)
        /\ \/ n = 1 /\ id = "id1" /\ at = "subscribe1" /\ at' = "suback1"
           \/ n = 2 /\ id = "id2" /\ at = "subscribe2" /\ at' = "suback2"
  BY DEF Subscribe
<1>2. /\ air' \in Seq(Piece) /\ acked \subseteq acked' /\ acked' \subseteq {"id1", "id2"}
      /\ acked' # {} => session
      /\ ToSet(air') \cap {"id1", "id2"} \subseteq acked'
      /\ air # <<>> => Starts(air', air[1])
      /\ air = <<>> => (Starts(air', "SUBACK") => IsSuback(air', id))
  BY <1>1, SubscribeEffect
<1>3. UNCHANGED <<did, mqtt_server, mqtt_port, modem, recv2, rc, session, dropped, cutReply>>
  BY <1>1 DEF Subscribe
<1>4. CloudTypeOK /\ AnswerInv /\ AirInv /\ PortIsKnown
  BY DEF IInv
<1>5. CloudTypeOK'
  <2>1. /\ {did, mqtt_server, session, dropped, cutReply} \subseteq BOOLEAN
        /\ mqtt_port \in Ports /\ rc \in {0, -2, -3} /\ recv2 \in Piece \X Piece
        /\ modem \in [addr : {"none", "service", "broker"}, port : Ports \cup {Factory},
                      open : BOOLEAN]
    BY <1>4 DEF CloudTypeOK
  <2>2. QED
    BY <1>1, <1>2, <1>3, <2>1 DEF CloudTypeOK
<1>6. AnswerInv'
  BY <1>1, <1>2, <1>3, <1>4 DEF AnswerInv, Connected, Leads
<1>7. AirInv'
  <2>1. CASE at = "subscribe1"
    <3>1. air # <<>> => air[1] # "SUBACK"
      <4>1. air \in Seq(Piece) /\ "SUBACK" \notin ToSet(air)
        BY <1>4, <2>1 DEF AirInv, CloudTypeOK
      <4>2. air # <<>> => 1 \in 1 .. Len(air)
        BY <4>1, EmptySeq, LenProperties
      <4>3. QED
        BY <4>1, <4>2, SetOfSeq
    <3>2. QED
      BY <1>1, <1>2, <2>1, <3>1 DEF AirInv, Starts
  <2>2. CASE at = "subscribe2"
    BY <1>1, <1>2, <1>3, <1>4, <2>2 DEF AirInv, Starts
  <2>3. QED
    BY <1>1, <2>1, <2>2
<1>8. EarlyInv' /\ PortIsKnown' /\ BeginsAtPacket'
  BY <1>1, <1>3, <1>4 DEF EarlyInv, Early, PortIsKnown, BeginsAtPacket, Connected
<1>9. QED
  BY <1>5, <1>6, <1>7, <1>8 DEF IInv

\* The two bytes are an acknowledgement that was in the air, and nothing but a
\* publication follows it.
LEMMA SubackEffect ==
  ASSUME CloudTypeOK, ReadReply, NEW id, recv2' = <<"SUBACK", id>>, recv2[2] # id,
         id \in Piece
  PROVE  /\ Starts(air, "SUBACK") /\ id \in ToSet(air)
         /\ ~dropped' /\ IsSuback(air, id) => air' = <<>> \/ Starts(air', "PUBLISH")
<1>1. air \in Seq(Piece) /\ Len(air) \in Nat
  BY LenProperties DEF CloudTypeOK
<1>2. PICK k \in 0 .. Len(air) :
        /\ air' \in Seq(Piece) /\ Len(air') = Len(air) - k
        /\ \A i \in 1 .. Len(air) - k : air'[i] = air[k + i]
        /\ recv2'[1] = IF k >= 1 THEN air[1] ELSE recv2[1]
        /\ recv2'[2] = IF k >= 2 THEN air[2] ELSE recv2[2]
        /\ ~dropped' => \A i \in 1 .. k : air[i] # "PUBLISH"
  BY ReadProperties
<1>3. k >= 2 /\ air[1] = "SUBACK" /\ air[2] = id
  BY <1>2
<1>4. air # <<>> /\ air[2] \in ToSet(air)
  BY <1>1, <1>2, <1>3, SetOfSeq, EmptySeq
<1>5. ASSUME ~dropped', IsSuback(air, id) PROVE air' = <<>> \/ Starts(air', "PUBLISH")
  <2>1. CASE Len(air) = 2
    BY <1>2, <1>3, <2>1, EmptySeq
  <2>2. CASE Len(air) = 4
    <3>1. air[3] = "PUBLISH" /\ k = 2
      BY <1>2, <1>3, <1>5, <2>2 DEF IsSuback
    <3>2. Len(air') # 0 /\ air'[1] = "PUBLISH"
      BY <1>2, <2>2, <3>1
    <3>3. QED
      BY <3>2, EmptySeq DEF Starts
  <2>3. QED
    BY <1>5, <2>1, <2>2 DEF IsSuback
<1>6. QED
  BY <1>3, <1>4, <1>5 DEF Starts

LEMMA SubackStep ==
  ASSUME IInv, Suback(1, "id1") \/ Suback(2, "id2") PROVE IInv'
<1>1. PICK n \in {1, 2}, id \in {"id1", "id2"} :
        /\ Suback(n, id)
        /\ \/ n = 1 /\ id = "id1" /\ at = "suback1"
           \/ n = 2 /\ id = "id2" /\ at = "suback2"
  BY DEF Suback
<1>2. CloudTypeOK /\ AnswerInv /\ AirInv /\ PortIsKnown /\ ReadReply
  BY <1>1 DEF IInv, Suback
<1>3. UNCHANGED <<did, mqtt_server, mqtt_port, modem, session, acked, cutReply>>
  BY <1>1 DEF Suback
<1>4. /\ air' \in Seq(Piece) /\ ToSet(air') \subseteq ToSet(air)
      /\ recv2' \in Piece \X Piece /\ dropped' \in BOOLEAN
      /\ ~dropped' => ~dropped
  BY <1>2, ReadProperties
<1>5. CASE at' = "done" /\ rc' \in {-2, -3}
  BY <1>3, <1>4, <1>5, GivenUp
<1>6. CASE recv2' = <<"SUBACK", id>> /\ rc' = rc
           /\ (n = 1 => at' = "subscribe2") /\ (n = 2 => at' = "done")
  <2>1. recv2[2] # id /\ id \in Piece
    BY <1>1, <1>2 DEF AnswerInv, Piece
  <2>2. /\ Starts(air, "SUBACK") /\ id \in ToSet(air)
        /\ ~dropped' /\ IsSuback(air, id) => air' = <<>> \/ Starts(air', "PUBLISH")
    BY <1>2, <1>6, <2>1, SubackEffect
  <2>3. id \in acked /\ session
    BY <1>2, <2>2 DEF AnswerInv
  <2>4. ~dropped' => IsSuback(air, id)
    BY <1>1, <1>2, <1>4, <2>2 DEF AirInv
  <2>5. CloudTypeOK'
    <3>1. /\ {did, mqtt_server, session, cutReply} \subseteq BOOLEAN
          /\ mqtt_port \in Ports /\ rc \in {0, -2, -3} /\ acked \subseteq {"id1", "id2"}
          /\ modem \in [addr : {"none", "service", "broker"}, port : Ports \cup {Factory},
                        open : BOOLEAN]
      BY <1>2 DEF CloudTypeOK
    <3>2. {did', mqtt_server', session', dropped', cutReply'} \subseteq BOOLEAN
      BY <1>3, <1>4, <3>1
    <3>3. QED
      BY <1>1, <1>3, <1>4, <1>6, <3>1, <3>2 DEF CloudTypeOK
  <2>6. AnswerInv'
    BY <1>1, <1>2, <1>3, <1>4, <1>6, <2>3 DEF AnswerInv, Connected, Leads
  <2>7. AirInv'
    BY <1>1, <1>6, <2>2, <2>4 DEF AirInv
  <2>8. BeginsAtPacket'
    BY <2>2, <2>4 DEF BeginsAtPacket, Starts
  <2>9. EarlyInv' /\ PortIsKnown'
    BY <1>1, <1>2, <1>3, <1>6 DEF EarlyInv, Early, PortIsKnown
  <2>10. QED
    BY <2>5, <2>6, <2>7, <2>8, <2>9 DEF IInv
<1>7. QED
  BY <1>1, <1>5, <1>6 DEF Suback

-----------------------------------------------------------------------------
LEMMA Invariant == CloudSpec => []IInv
<1>1. ASSUME IInv, [CloudNext]_cloudVars PROVE IInv'
  <2>1. CASE UNCHANGED cloudVars
    BY <1>1, <2>1 DEF cloudVars, IInv, CloudTypeOK, EarlyInv, AnswerInv, AirInv, Starts,
                      IsSuback, Connected, Leads, PortIsKnown, BeginsAtPacket
  <2>2. QED
    BY <1>1, <2>1, InitCloudStep, RequestStep, RegisteredStep, ProvisionedStep,
       MqttConnectStep, ConnackStep, SubscribeStep, SubackStep DEF CloudNext
<1>2. QED
  BY <1>1, InitInv, PTL DEF CloudSpec

\* What is read, set and remembered between Gizwits_init and its result has its
\* type, a piece in the air being one that somebody sent.
THEOREM CloudTypeCorrect == CloudSpec => []CloudTypeOK
<1>1. IInv => CloudTypeOK
  BY DEF IInv
<1>2. QED
  BY <1>1, Invariant, PTL

\* When cloud_mqtt_connect returns 0 the broker has accepted the session and
\* both subscriptions, although the bytes behind a short read are old ones and
\* the driver never looks whether the modem made the connection; what comes
\* next begins with a packet, and a port of 0 is explained (cloud.c:387-408,
\* 780-885).
THEOREM Session == CloudSpec => []SessionCorrect
<1>1. IInv => SessionCorrect
  <2> SUFFICES ASSUME IInv PROVE SessionCorrect
    OBVIOUS
  <2>1. ConnectedIsServed
    <3>1. acked \subseteq {"id1", "id2"} /\ AnswerInv
      BY DEF IInv, CloudTypeOK
    <3>2. Connected => {"id1", "id2"} \subseteq acked
      BY <3>1 DEF AnswerInv
    <3>3. Connected => acked = {"id1", "id2"} /\ session
      <4> SUFFICES ASSUME Connected PROVE acked = {"id1", "id2"} /\ session
        OBVIOUS
      <4>1. acked = {"id1", "id2"}
        BY <3>1, <3>2
      <4>2. acked # {}
        BY <4>1
      <4>3. QED
        BY <3>1, <4>1, <4>2 DEF AnswerInv
    <3>4. QED
      BY <3>1, <3>3 DEF AnswerInv, ConnectedIsServed
  <2>2. QED
    BY <2>1 DEF IInv, SessionCorrect
<1>2. QED
  BY <1>1, Invariant, PTL
=============================================================================
