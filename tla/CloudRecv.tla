----------------------------- MODULE CloudRecv ------------------------------
(***************************************************************************)
(* How the receive task turns the bytes of the modem into cloud commands:  *)
(* cloud_do_mqtt of Gizwits/src/cloud.c with readn of tool.c,              *)
(* get_one_cloud_packet, and the dispatch to cloud_trans_data and          *)
(* cloud_push_ota.                                                         *)
(*                                                                         *)
(* The broker sends whole MQTT packets; the bytes of the link are cut      *)
(* wherever a poll of the UART happens to end.  A byte is <<value, p>>: p  *)
(* is the packet it belongs to, and the value is the real one where the    *)
(* code looks at it and, for the characters of a topic or a device id, a   *)
(* number above 255 whose low byte is a character.  Every packet is        *)
(* shorter than 128 bytes, but the code may take any byte that lies in its *)
(* buffers for a length.  The UART ring loses nothing here (module UartRx  *)
(* says when it does).                                                     *)
(***************************************************************************)
EXTENDS Naturals, Sequences

CONSTANTS
  BUF_LEN,      \* size of recv_buf and of one_packet
  DEBUG_LEN,    \* size of both debug_info: BUF_LEN in the source, or more here,
                \* so that small buffers are enough to meet each overrun
  MaxPackets,   \* bound: packets the broker sends
  Cuts          \* bound: offsets in a packet at which a poll may end

ASSUME BoundAssumption ==
  /\ BUF_LEN \in Nat /\ BUF_LEN >= 31 /\ DEBUG_LEN \in Nat /\ DEBUG_LEN >= BUF_LEN
  /\ MaxPackets \in Nat /\ 0 \in Cuts /\ Cuts \subseteq Nat

Kinds == {"PINGRESP", "SUBACK", "ONLINE", "OTA", "CONTROL", "TRANS"}

Text(base, n) == [i \in 1 .. n |-> base + i]
Ser2cli == Text(300, 34)   \* "ser2cli_res/DrfomHVPFi7ALnZrA6NE6R"
App2dev == Text(556, 54)   \* "app2dev/DrfomHVPFi7ALnZrA6NE6R/usr6U9jtyINX27hmwBGLV05"

\* What follows the topic, as the comments of get_one_cloud_packet list it.
Body ==
  [PINGRESP |-> <<208, 0>>,
   SUBACK   |-> <<144, 3, 0, 2, 0>>,
   ONLINE   |-> <<0, 0, 0, 3, 2, 16, 0, 1>>,
   OTA      |-> <<0, 0, 0, 3, 2, 17, 1, 0, 22>> \o Text(812, 22),
   CONTROL  |-> <<0, 0, 0, 3, 4, 0, 0, 144, 2>>,
   TRANS    |-> <<0, 0, 0, 3, 10, 0, 0, 147, 0, 0, 0, 0, 1, 1, 1>>]

Publish(topic, body) ==
  <<48, 2 + Len(topic) + Len(body), 0, Len(topic)>> \o topic \o body

Wire == [k \in Kinds |->
  CASE k \in {"PINGRESP", "SUBACK"} -> Body[k]
    [] k \in {"ONLINE", "OTA"}      -> Publish(Ser2cli, Body[k])
    [] k \in {"CONTROL", "TRANS"}   -> Publish(App2dev, Body[k])]

Zero == <<0, 0>>
GARBAGE == 65535    \* any value the switch of cloud_do_mqtt does not know

VARIABLES
  sent,       \* the packets the broker sent
  bytes,      \* their bytes on the link
  ends,       \* where each packet ends among them
  link,       \* the modem's transparent connection still leads to the broker
  pos,        \* bytes of the link read so far
  pc,         \* "delay", "readn", "get", "dispatch"
  dead,       \* why the firmware ran into undefined behaviour, or "no"
  times,      \* of readn
  recv_buf,   \* its bytes, zeros follow to BUF_LEN
  recv_len,
  cmd, packet, one_packet_len,  \* of cloud_do_mqtt; packet is its one_packet
  from, upto, \* history: pos before and after the readn of this round
  done        \* history: the first <<cmd, packet>> dispatched in this round

broker_vars == <<sent, bytes, ends>>
link_vars == <<broker_vars, link, pos>>
vars == <<link_vars, pc, dead, times, recv_buf, recv_len, cmd, packet, one_packet_len, from, upto, done>>

End(p) == IF p = 0 THEN 0 ELSE ends[p]
Total == Len(bytes)

\* Places from a onward at which a poll may end.
Stops(a) ==
  {n \in {Total} \cup {End(p) + c : p \in 0 .. Len(sent), c \in Cuts} : a <= n /\ n <= Total}

TypeOK ==
  /\ sent \in Seq(Kinds) /\ Len(sent) <= MaxPackets
  /\ bytes \in Seq(Nat \X (1 .. Len(sent))) /\ ends \in [1 .. Len(sent) -> Nat]
  /\ link \in BOOLEAN /\ from <= upto /\ upto <= pos /\ times \in 0 .. 2
  /\ pos \in 0 .. Total /\ from \in Nat /\ upto \in Nat
  /\ pc \in {"delay", "readn", "get", "dispatch"}
  /\ dead \in {"no", "overrun", "dump", "memcpy", "length", "dump_packet", "action"}
  /\ recv_buf \in Seq(Nat \X Nat) /\ recv_len \in 0 .. Len(recv_buf)
  /\ dead # "overrun" => Len(recv_buf) <= BUF_LEN
  /\ cmd \in Nat /\ packet \in Seq(Nat \X Nat) /\ Len(packet) <= BUF_LEN
  /\ one_packet_len \in Nat
  /\ done \in Seq(Nat \X Seq(Nat \X Nat))

Init ==
  /\ sent = <<>> /\ bytes = <<>> /\ ends = <<>>
  /\ link = TRUE /\ pos = 0 /\ pc = "delay" /\ dead = "no" /\ times = 0
  /\ recv_buf = <<>> /\ recv_len = 0 /\ cmd = GARBAGE /\ packet = <<>> /\ one_packet_len = 0
  /\ from = 0 /\ upto = 0 /\ done = <<>>

-----------------------------------------------------------------------------
(* The broker sends, whatever the device does *)

Send(k) ==
  /\ Len(sent) < MaxPackets
  /\ sent' = Append(sent, k)
  /\ bytes' = bytes \o [j \in DOMAIN Wire[k] |-> <<Wire[k][j], Len(sent) + 1>>]
  /\ ends' = Append(ends, Len(bytes) + Len(Wire[k]))
  /\ UNCHANGED <<link, pos, pc, dead, times, recv_buf, recv_len, cmd, packet, one_packet_len, from, upto, done>>

-----------------------------------------------------------------------------
(* cloud_do_mqtt, up to its loop *)

\* HexToStr writes three characters for each of n bytes and a NUL: they fit in
\* debug_info.
DumpFits(n) == 3 * n + 1 <= DEBUG_LEN

\* cmd and one_packet_len are not initialised: they have what the stack held, one
\* value of cmd for each way the switch treats it, a length whose dump fits and one
\* whose dump, as that of a negative one, writes outside debug_info.
Begin ==
  /\ pc = "delay" /\ dead = "no"
  /\ recv_buf' = <<>> /\ recv_len' = 0 /\ times' = 0
  /\ cmd' \in {144, 529, GARBAGE} /\ packet' = <<>> /\ one_packet_len' \in {0, DEBUG_LEN}
  /\ from' = pos /\ upto' = pos /\ done' = <<>>
  /\ pc' = "readn"
  /\ UNCHANGED <<broker_vars, link, pos, dead>>

Poll_UntilFull ==
  /\ pc = "readn" /\ dead = "no"
  /\ \E n \in IF link THEN Stops(pos) \cup {pos} ELSE {pos} :
       /\ pos' = n /\ upto' = n
       /\ recv_buf' = recv_buf \o SubSeq(bytes, pos + 1, n)
       /\ recv_len' = recv_len + (n - pos)
  /\ pc' = IF recv_len' >= BUF_LEN THEN "get" ELSE "readn"
  /\ UNCHANGED <<broker_vars, link, dead, times, cmd, packet, one_packet_len, from, done>>

\* One LM61_transparent_Read: what has arrived, wherever that ends.  nread is
\* not compared with nleft, so it may go past the end of recv_buf.  What readn
\* returns is dumped into debug_info; get_one_cloud_packet dumps no more than that.
Poll ==
  /\ pc = "readn" /\ dead = "no"
  /\ \E n \in IF link THEN Stops(pos) \cup {pos} ELSE {pos} :
       /\ pos' = n /\ upto' = n
       /\ recv_buf' = recv_buf \o SubSeq(bytes, pos + 1, n)
       /\ recv_len' = recv_len + (n - pos)
  /\ IF recv_len' > BUF_LEN
     THEN dead' = "overrun" /\ UNCHANGED <<times, pc>>
     ELSE IF times >= 2 \/ recv_len' = BUF_LEN
     THEN /\ pc' = (IF recv_len' = 0 THEN "delay" ELSE "get") /\ times' = 0
          /\ dead' = IF DumpFits(recv_len') THEN dead ELSE "dump"
     ELSE times' = times + 1 /\ UNCHANGED <<pc, dead>>
  /\ UNCHANGED <<broker_vars, link, cmd, packet, one_packet_len, from, done>>

-----------------------------------------------------------------------------
(* get_one_cloud_packet *)

At(i) == IF i < Len(recv_buf) THEN recv_buf[i + 1] ELSE Zero
Bytes(i, n) == [j \in 1 .. n |-> At(i + j - 1)]
Value(i) == At(i)[1]
Holds(i, values) == \A j \in DOMAIN values : Value(i + j - 1) = values[j]

\* memset(recv_buf, 0, BUF_LEN); recv_len = 0
Clear == recv_buf' = <<>> /\ recv_len' = 0

Shift_Half(n) ==
  /\ recv_buf' = SubSeq(recv_buf, n + 1, recv_len)
  /\ recv_len' = recv_len

\* memcpy(recv_buf, recv_buf + n, recv_len - n): what was behind stays there.
Shift(n) ==
  /\ recv_buf' = SubSeq(recv_buf, n + 1, recv_len)
                   \o SubSeq(recv_buf, recv_len - n + 1, Len(recv_buf))
  /\ recv_len' = recv_len - n

\* The bytes of a remaining length that begins with a, b, c, and its value in a
\* uint16_t, to which no digit after the third adds anything.
Continues(v) == v % 256 >= 128

mqtt_num_rem_len_bytes(a, b, c) ==
  CASE ~Continues(a) -> 1
    [] Continues(a) /\ ~Continues(b) -> 2
    [] Continues(a) /\ Continues(b) /\ ~Continues(c) -> 3
    [] OTHER -> 4

mqtt_parse_rem_len(a, b, c) ==
  (  (a % 128)
   + (IF Continues(a) THEN (b % 128) * 128 ELSE 0)
   + (IF Continues(a) /\ Continues(b) THEN (c % 128) * 16384 ELSE 0)) % 65536

mqtt_head_len == 3 + mqtt_num_rem_len_bytes(Value(1), Value(2), Value(3))
IsPing == Holds(0, Body.PINGRESP)
IsSer2cli == Holds(mqtt_head_len, SubSeq(Ser2cli, 1, 11))
IsApp2dev == Holds(mqtt_head_len, SubSeq(App2dev, 1, 8))

Get(condition) == pc = "get" /\ dead = "no" /\ recv_len > 0 /\ condition
Return0 == pc' = "dispatch"

Empty ==
  /\ pc = "get" /\ dead = "no" /\ recv_len = 0
  /\ pc' = "delay"
  /\ UNCHANGED <<link_vars, dead, times, recv_buf, recv_len, cmd, packet, one_packet_len, from, upto, done>>

\* recv_len - 2 is negative when only the first byte of the answer is here.
GetPing ==
  /\ Get(IsPing)
  /\ packet' = Bytes(0, 2) /\ one_packet_len' = 2 /\ cmd' = 208
  /\ IF recv_len < 2 THEN dead' = "memcpy" /\ UNCHANGED <<recv_buf, recv_len>>
                     ELSE Shift(2) /\ UNCHANGED dead
  /\ Return0
  /\ UNCHANGED <<link_vars, times, from, upto, done>>

\* "if recv len less than 27, drop it"
GetShort ==
  /\ Get(~IsPing /\ recv_len <= 30)
  /\ packet' = <<>> /\ UNCHANGED <<cmd, one_packet_len>>
  /\ Clear /\ pc' = "delay"
  /\ UNCHANGED <<link_vars, dead, times, from, upto, done>>

Found_DropsRest(index, packet_len) ==
  /\ packet' = Bytes(index, packet_len) /\ one_packet_len' = packet_len
  /\ Clear /\ Return0 /\ UNCHANGED dead

\* The packet is copied out, past the end of one_packet if it is so long, and
\* the rest of the buffer moves down or is dropped.
Found(index, packet_len) ==
  /\ Return0 /\ one_packet_len' = packet_len
  /\ \/ /\ packet_len > BUF_LEN
        /\ dead' = "length" /\ UNCHANGED <<packet, recv_buf, recv_len>>
     \/ /\ packet_len <= BUF_LEN
        /\ packet' = Bytes(index, packet_len) /\ UNCHANGED dead
        /\ IF recv_len <= index + packet_len THEN Clear ELSE Shift(index + packet_len)

\* Length of a server message after its topic.  For a command it does not know
\* the code adds a len that is not initialised to the bytes of the head's: it may
\* ruin the stack at once or when it is dumped, or fit, with little or with much of
\* what follows.
Ser2cliLengths(c) ==
  CASE c \in {208, 528} -> {4 + 4}
    [] c = 529 -> {4 + 27}
    [] OTHER -> {4 + (mqtt_head_len - 3), (DEBUG_LEN - 1) \div 3, BUF_LEN, BUF_LEN + 1}

GetSer2cli ==
  LET index == mqtt_head_len + Len(Ser2cli)
      c == Value(index + 4) * 256 + Value(index + 5)
  IN /\ Get(~IsPing /\ recv_len > 30 /\ IsSer2cli)
     /\ cmd' = c
     /\ \E packet_len \in Ser2cliLengths(c) : Found(index, packet_len)
     /\ UNCHANGED <<link_vars, times, from, upto, done>>

\* Without its mark the buffer is dropped and 0 returned: the caller sees an
\* empty packet with the length and the command of the one before.
GetApp2dev ==
  LET index == mqtt_head_len + Len(App2dev)
      len == mqtt_parse_rem_len(Value(index + 4), Value(index + 5), Value(index + 6))
      length_len == mqtt_num_rem_len_bytes(Value(index + 4), Value(index + 5), Value(index + 6))
  IN /\ Get(~IsPing /\ recv_len > 30 /\ ~IsSer2cli /\ IsApp2dev)
     /\ \/ /\ Holds(index, <<0, 0, 0, 3>>)
           /\ cmd' = Value(index + 4 + length_len + 1) * 256 + Value(index + 4 + length_len + 2)
           /\ Found(index, 4 + len + length_len)
        \/ /\ ~Holds(index, <<0, 0, 0, 3>>)
           /\ packet' = <<>> /\ UNCHANGED <<cmd, one_packet_len, dead>>
           /\ Clear /\ Return0
     /\ UNCHANGED <<link_vars, times, from, upto, done>>

\* No known topic: dropped with all that follows, and 0 is returned.
GetUnknown ==
  /\ Get(~IsPing /\ recv_len > 30 /\ ~IsSer2cli /\ ~IsApp2dev)
  /\ packet' = <<>> /\ UNCHANGED <<cmd, one_packet_len>>
  /\ Clear /\ Return0
  /\ UNCHANGED <<link_vars, dead, times, from, upto, done>>

-----------------------------------------------------------------------------
(* The switch of cloud_do_mqtt *)

\* The dump of the packet leaves debug_info.
DumpPacket ==
  /\ pc = "dispatch" /\ dead = "no" /\ ~DumpFits(one_packet_len)
  /\ dead' = "dump_packet"
  /\ UNCHANGED <<link_vars, pc, times, recv_buf, recv_len, cmd, packet, one_packet_len,
                 from, upto, done>>

PacketValue(i) == IF i < Len(packet) THEN packet[i + 1][1] ELSE 0

Dispatched ==
  /\ pc = "dispatch" /\ dead = "no" /\ DumpFits(one_packet_len)
  /\ done' = IF Len(done) > MaxPackets + 1 THEN done ELSE Append(done, <<cmd, packet>>)
  /\ pc' = "get"
  /\ UNCHANGED <<broker_vars, times, recv_buf, recv_len, cmd, packet, one_packet_len, from, upto>>

\* 528 and 208 are forgotten, an unknown command is only traced.
Forget ==
  /\ cmd \notin {144, 147, 529}
  /\ Dispatched /\ UNCHANGED <<link, pos, dead>>

\* index + 4 + length_len + 2
ActionFlag == 6 + mqtt_num_rem_len_bytes(PacketValue(4), PacketValue(5), PacketValue(6))

TransData_Flag ==
  /\ cmd \in {144, 147}
  /\ Dispatched /\ UNCHANGED <<link, pos>>
  /\ \/ UNCHANGED dead
     \/ PacketValue(ActionFlag - 1) \notin {144, 147} /\ dead' = "action"

\* cloud_trans_data: the flag byte says where the action is; in a packet with
\* neither flag the action is not initialised and may be any, ACTION_PUSH_OTA
\* with the pointer cloud->in that nobody sets included.
TransData ==
  /\ cmd \in {144, 147}
  /\ Dispatched /\ UNCHANGED <<link, pos>>
  /\ \/ UNCHANGED dead
     \/ PacketValue(ActionFlag) \notin {144, 147} /\ dead' = "action"

\* check_ota: LM61_start_transparent_mode connects the modem to another server
\* and drains the UART for its answers; the socket number it returns is 0, which
\* check_ota takes for an error.
CheckOta == link' \in BOOLEAN /\ pos' \in {pos} \cup (IF link THEN Stops(pos) ELSE {})

\* cloud_push_ota: nothing for a device id that is too long.
PushOta ==
  /\ cmd = 529
  /\ Dispatched /\ UNCHANGED dead
  /\ IF PacketValue(7) * 256 + PacketValue(8) > 32 THEN UNCHANGED <<link, pos>> ELSE CheckOta

Device ==
  \/ Begin \/ Poll
  \/ Empty \/ GetPing \/ GetShort \/ GetSer2cli \/ GetApp2dev \/ GetUnknown
  \/ DumpPacket \/ Forget \/ TransData \/ PushOta

Next == Device \/ \E k \in Kinds : Send(k)

Spec == Init /\ [][Next]_vars
LiveSpec == Spec /\ WF_vars(Device)

-----------------------------------------------------------------------------
(* Properties *)

CommandOf == [PINGRESP |-> 208, ONLINE |-> 528, OTA |-> 529, CONTROL |-> 144, TRANS |-> 147]
Tagged(p) == [j \in DOMAIN Body[sent[p]] |-> <<Body[sent[p]][j], p>>]
Command(p) == <<CommandOf[sent[p]], Tagged(p)>>

\* The i-th packet after the f-th is known and was read whole in this round.
Known(f, i) == f + i <= Len(sent) /\ End(f + i) <= upto /\ sent[f + i] # "SUBACK"

\* A round that begins with a packet, the one after the f-th, dispatches every
\* whole packet it reads, each with its own bytes, once and in order, until the
\* bytes of an unknown packet; whatever comes after that makes at most one more
\* command, and none if nothing comes after: cloud.c:441-542.
RoundExact ==
  \A f \in 0 .. Len(sent) : pc = "delay" /\ End(f) = from =>
    \E k \in 0 .. Len(sent) - f :
      /\ \A i \in 1 .. k : Known(f, i)
      /\ ~Known(f, k + 1)
      /\ Len(done) \in k .. k + (IF upto = End(f + k) THEN 0 ELSE 1)
      /\ \A i \in 1 .. k : done[i] = Command(f + i)

\* A round that begins inside a packet finds no packet at all; it drops the rest
\* of its bytes after at most one command, which is made of nothing: cloud.c:523-527.
RoundInside ==
  pc = "delay" /\ (\A p \in 0 .. Len(sent) : End(p) # from) =>
    /\ Len(done) <= 1
    /\ \A i \in DOMAIN done : done[i][2] = <<>>

\* A round does no more and no less, wherever it begins.
RoundRight == RoundExact /\ RoundInside

\* The last bytes that were read are the first n of packet p.
CutAt(p, n) == upto = End(p - 1) + n

\* The last bytes that were read belong to a server message and end before its
\* command (cloud.c:489-502) or to a message of an application and end before its
\* length (cloud.c:513-520): older bytes stand in for what is missing.
CutServer(p) == sent[p] \in {"ONLINE", "OTA"} /\ \E n \in 31 .. 43 : CutAt(p, n)
CutApp(p) == sent[p] \in {"CONTROL", "TRANS"} /\ \E n \in 31 .. 62 : CutAt(p, n)
Stale == \E p \in 1 .. Len(sent) : CutServer(p) \/ CutApp(p)

\* The round begins with a packet that is known and whole.
BeginsKnown == \E f \in 0 .. Len(sent) : End(f) = from /\ Known(f, 1)

\* Each run into undefined behaviour has its cause in what was read: more than
\* BUF_LEN bytes in three polls (tool.c:143), more than a dump of them fits in
\* debug_info (cloud.c:606, and no other has to be looked for at cloud.c:452), half
\* a PINGRESP (cloud.c:461), a length made of stale bytes or none, which does not
\* fit in one_packet (cloud.c:529) or in debug_info (cloud.c:611), the length that
\* was never set, when the round's first packet is not one to be found
\* (cloud.c:516, 526), or an empty packet taken for a command (cloud.c:557-570).
\* The other way round, a round too long for its dump never gets to its packets.
FaultExplained ==
  /\ dead = "overrun" => upto - from > BUF_LEN
  /\ pc = "get" /\ dead = "no" => DumpFits(recv_len)
  /\ dead \in {"no", "dump"} /\ pc # "readn" => (dead = "dump" <=> ~DumpFits(upto - from))
  /\ dead = "memcpy" => \E p \in DOMAIN sent : sent[p] = "PINGRESP" /\ CutAt(p, 1)
  /\ dead = "length" \/ (dead \in {"dump_packet", "action"} /\ packet # <<>>) => Stale
  /\ dead = "dump_packet" /\ packet = <<>> => ~BeginsKnown
  /\ dead = "action" => upto > from

\* Both loops, readn's and the one over the packets of a round, end: the receive
\* task comes back to its delay again and again (tool.c:140-149, cloud.c:609-635).
KeepsPolling == []<>(pc = "delay" \/ dead # "no")
=============================================================================
