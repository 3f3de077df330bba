---------------------------- MODULE CloudConnect ----------------------------
(***************************************************************************)
(* How Gizwits_init makes the broker's session: cloud_init with            *)
(* cloud_register_safe and cloud_provision_safe, then cloud_mqtt_connect   *)
(* of Gizwits/src/cloud.c, over readn, writen, sock_connect_by_domain and  *)
(* sock_disconnect of tool.c.                                              *)
(*                                                                         *)
(* The modem is asked for a connection and nobody looks whether it made    *)
(* it: each of its three commands may fail and the driver goes on.  What   *)
(* is written goes where the modem leads just then, and a readn ends       *)
(* anywhere among the answers, which come late or never.                   *)
(***************************************************************************)
EXTENDS Integers, SequencesExt

VARIABLES
  at,             \* the next exchange, or "done", "fault"
  did,            \* cloud->con->did is known
  mqtt_server,    \* cloud->mqtt_server is set
  mqtt_port,
  modem,          \* address and port as last set; open: in transparent mode
  air,            \* what comes to the device and is not read yet, in pieces
  recv2,          \* the first two bytes of cloud_mqtt_connect's recv_buf
  rc,             \* the result of cloud_mqtt_connect
  session,        \* history: the broker accepted the CONNECT
  acked,          \* history: the subscriptions the broker acknowledged
  dropped,        \* history: a publication was read in place of, or behind, an answer
  cutReply        \* history: the answer to the provisioning ended after the host

cloudVars == <<at, did, mqtt_server, mqtt_port, modem, air, recv2, rc,
               session, acked, dropped, cutReply>>

\* The service answers with a head and a body: "half1" and "half2" of what was
\* asked, or a "page".  An MQTT packet is its type and the byte that is looked
\* at.  "line" is what the modem answers to a command.
Piece == {"head", "half1", "half2", "page", "line", "CONNACK", "rc0", "rc5",
          "SUBACK", "id1", "id2", "PUBLISH", "data"}
Ports == {0, 80, 1883}
Factory == 9    \* the port a modem has that was never told one

CloudTypeOK ==
  /\ at \in {"init", "register", "registered", "provision", "provisioned", "connect", "connack",
             "subscribe1", "suback1", "subscribe2", "suback2", "done", "fault"}
  /\ {did, mqtt_server, session, dropped, cutReply} \subseteq BOOLEAN
  /\ mqtt_port \in Ports
  /\ modem \in [addr : {"none", "service", "broker"}, port : Ports \cup {Factory}, open : BOOLEAN]
  /\ air \in Seq(Piece) /\ recv2 \in Piece \X Piece
  /\ rc \in {0, -2, -3} /\ acked \subseteq {"id1", "id2"}

\* The local recv_buf is not cleared: it has what the stack held.
CloudInit ==
  /\ at = "init" /\ did = FALSE /\ mqtt_server = FALSE /\ mqtt_port = 0
  /\ modem = [addr |-> "none", port |-> Factory, open |-> FALSE] /\ air = <<>>
  /\ recv2 \in {"CONNACK", "SUBACK", "data"} \X {"rc0", "id2", "data"}
  /\ rc = 0 /\ session = FALSE /\ acked = {} /\ dropped = FALSE /\ cutReply = FALSE

-----------------------------------------------------------------------------
(* The modem and its peers *)

Leads(m, addr, port) == m.open /\ m.addr = addr /\ m.port = port

\* The commands of the driver take what is unread for their answers.  They leave
\* a line behind or, as data for the service, make it complain.
Left(m) == IF Leads(m, "service", 80) THEN <<"head", "page">> ELSE <<"line">>
AfterCommands(unread, m) ==
  {SubSeq(unread, k + 1, Len(unread)) \o t : k \in 0 .. Len(unread), t \in {<<>>, Left(m)}}

\* LM61_start_transparent_mode: address, port and transparent mode, each set or
\* not; while the modem is in transparent mode the commands are only data.
Opened(addr, port) ==
  IF modem.open THEN {modem}
  ELSE [addr : {modem.addr, addr}, port : {modem.port, port}, open : BOOLEAN]

\* LM61_close_transparent_mode
Closed == {modem, [modem EXCEPT !.open = FALSE]}

\* What the receiver of a write may say
Replies(m, ofBroker) ==
  {<<>>}
  \cup {r \in {<<"head", "half1", "half2">>} :
          Leads(m, "service", 80) /\ at \in {"register", "provision"}}
  \cup {r \in {<<"head", "page">>} : Leads(m, "service", 80)}
  \cup {r \in ofBroker : Leads(m, "broker", 1883)}
  \cup {r \in {<<"line">>} : ~m.open}

-----------------------------------------------------------------------------
(* cloud_init *)

\* The did is kept unless it is empty or the MAC has changed.
InitCloud ==
  /\ at = "init"
  /\ did' \in BOOLEAN /\ at' = IF did' THEN "provision" ELSE "register"
  /\ UNCHANGED <<mqtt_server, mqtt_port, modem, air, recv2, rc, session, acked, dropped, cutReply>>

\* sock_connect_by_domain and writen, for the request of cloud_register_safe and
\* for that of cloud_provision_safe
Request ==
  /\ at \in {"register", "provision"}
  /\ at' = IF at = "register" THEN "registered" ELSE "provisioned"
  /\ \E m \in Opened("service", 80), unread \in AfterCommands(air, modem) :
       \E reply \in Replies(m, {}) : modem' = m /\ air' = unread \o reply
  /\ UNCHANGED <<did, mqtt_server, mqtt_port, recv2, rc, session, acked, dropped, cutReply>>

\* What follows the first head in the text that was read
BodyOf(text) == SubSeq(text, SelectInSeq(text, LAMBDA p : p = "head") + 1, Len(text))
HasHead(text) == "head" \in ToSet(text)
HasBody(text) == HasHead(text) /\ BodyOf(text) # <<>>
Half1(text) == HasBody(text) /\ BodyOf(text)[1] = "half1"
Whole(text) == Half1(text) /\ Len(BodyOf(text)) > 1 /\ BodyOf(text)[2] = "half2"

\* Without a body the code goes on from a NULL pointer: a fault, or nothing found.
GoOn(place, text) ==
  at' \in {place} \cup {f \in {"fault"} : HasHead(text) /\ ~HasBody(text)}

\* cloud_register_safe closes the connection only when no head was read;
\* cloud_init does not look at its result.
Registered ==
  /\ at = "registered"
  /\ \E k \in 0 .. Len(air) :
       LET text == SubSeq(air, 1, k)
           rest == SubSeq(air, k + 1, Len(air))
       IN  /\ did' = Whole(text)
           /\ GoOn("provision", text)
           /\ IF HasHead(text)
              THEN air' = rest /\ UNCHANGED modem
              ELSE modem' \in Closed /\ air' \in AfterCommands(rest, modem')
  /\ UNCHANGED <<mqtt_server, mqtt_port, recv2, rc, session, acked, dropped, cutReply>>

\* cloud_provision_safe takes the host and the port one by one, and closes the
\* connection in any case.
Provisioned ==
  /\ at = "provisioned"
  /\ \E k \in 0 .. Len(air) :
       LET text == SubSeq(air, 1, k)
       IN  /\ mqtt_server' = Half1(text)
           /\ mqtt_port' = IF Whole(text) THEN 1883 ELSE 0
           /\ cutReply' = (Half1(text) /\ ~Whole(text))
           /\ GoOn("connect", text)
           /\ modem' \in Closed
           /\ air' \in AfterCommands(SubSeq(air, k + 1, Len(air)), modem')
  /\ UNCHANGED <<did, recv2, rc, session, acked, dropped>>

-----------------------------------------------------------------------------
(* cloud_mqtt_connect *)

\* The address is a constant, the port the one that was told if a host was.
MqttConnect ==
  /\ at = "connect" /\ at' = "connack"
  /\ \E m \in Opened("broker", IF mqtt_server THEN mqtt_port ELSE 1883),
        unread \in AfterCommands(air, modem) :
       \E reply \in Replies(m, {<<"CONNACK", "rc0">>, <<"CONNACK", "rc5">>}) :
         /\ modem' = m /\ air' = unread \o reply
         /\ session' = (reply = <<"CONNACK", "rc0">>)
  /\ UNCHANGED <<did, mqtt_server, mqtt_port, recv2, rc, acked, dropped, cutReply>>

\* mqtt_subscribe; a subscriber may get a publication at once.
Subscribe(n, id) ==
  /\ at = (<<"subscribe1", "subscribe2">>)[n] /\ at' = (<<"suback1", "suback2">>)[n]
  /\ \E reply \in Replies(modem, IF session THEN {<<"SUBACK", id>>,
                                                  <<"SUBACK", id, "PUBLISH", "data">>} ELSE {}) :
       /\ air' = air \o reply
       /\ acked' = acked \cup ({id} \cap ToSet(reply))
  /\ UNCHANGED <<did, mqtt_server, mqtt_port, modem, recv2, rc, session, dropped, cutReply>>

\* readn into recv_buf, which keeps what it held behind the bytes that came
ReadReply ==
  \E k \in 0 .. Len(air) :
    LET text == SubSeq(air, 1, k)
    IN  /\ air' = SubSeq(air, k + 1, Len(air))
        /\ recv2' = <<IF k >= 1 THEN text[1] ELSE recv2[1], IF k >= 2 THEN text[2] ELSE recv2[2]>>
        /\ dropped' = (dropped \/ "PUBLISH" \in ToSet(text))

Connack ==
  /\ at = "connack" /\ ReadReply
  /\ \/ recv2' = <<"CONNACK", "rc0">> /\ at' = "subscribe1" /\ UNCHANGED rc
     \/ recv2' # <<"CONNACK", "rc0">> /\ at' = "done" /\ rc' = -2
  /\ UNCHANGED <<did, mqtt_server, mqtt_port, modem, session, acked, cutReply>>

Suback_AnyId(n, id) ==
  /\ at = (<<"suback1", "suback2">>)[n] /\ ReadReply
  /\ \/ recv2'[1] = "SUBACK"
        /\ at' = (<<"subscribe2", "done">>)[n] /\ UNCHANGED rc
     \/ recv2'[1] # "SUBACK" /\ at' = "done" /\ rc' = -2
  /\ UNCHANGED <<did, mqtt_server, mqtt_port, modem, session, acked, cutReply>>

Suback(n, id) ==
  /\ at = (<<"suback1", "suback2">>)[n] /\ ReadReply
  /\ \/ recv2' = <<"SUBACK", id>>
        /\ at' = (<<"subscribe2", "done">>)[n] /\ UNCHANGED rc
     \/ recv2'[1] # "SUBACK" /\ at' = "done" /\ rc' = -2
     \/ recv2'[1] = "SUBACK" /\ recv2'[2] # id /\ at' = "done" /\ rc' = -3
  /\ UNCHANGED <<did, mqtt_server, mqtt_port, modem, session, acked, cutReply>>

CloudNext ==
  \/ InitCloud \/ Request \/ Registered \/ Provisioned
  \/ MqttConnect \/ Connack
  \/ Subscribe(1, "id1") \/ Suback(1, "id1")
  \/ Subscribe(2, "id2") \/ Suback(2, "id2")
CloudSpec == CloudInit /\ [][CloudNext]_cloudVars

Connected == at = "done" /\ rc = 0

-----------------------------------------------------------------------------
\* cloud_mqtt_connect returns 0 only with a session and both subscriptions
\* acknowledged, whatever recv_buf held before, however late the answers are
\* and wherever the modem leads (cloud.c:780-885).
ConnectedIsServed ==
  Connected => session /\ acked = {"id1", "id2"} /\ Leads(modem, "broker", 1883)

\* The receive task then begins at the first byte of a packet, unless a
\* publication came in one read with an answer: that one is lost.
BeginsAtPacket ==
  Connected /\ ~dropped => air = <<>> \/ Head(air) = "PUBLISH"

\* The modem is told to use the port 0, where nobody answers, only when the
\* answer to the provisioning was cut between the host and the port
\* (cloud.c:387-408, 781-795).
PortIsKnown == modem.port = 0 => cutReply

\* What Gizwits_init leaves to the receive task is as good as its result says.
SessionCorrect == ConnectedIsServed /\ BeginsAtPacket /\ PortIsKnown
=============================================================================
