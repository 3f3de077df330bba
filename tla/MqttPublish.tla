---------------------------- MODULE MqttPublish -----------------------------
(***************************************************************************)
(* Publishing with QoS > 0 in Middlewares/mqtt/MQTTClient.c: threads that  *)
(* call iot_mqtt_publish, the thread that runs iot_mqtt_yield, the list    *)
(* list_pub_wait_ack between them, and its two locks.  A publisher holds   *)
(* lock_write_buf around push and send; MQTTPubInfoProc walks the list     *)
(* under lock_list_pub and lets go of it to send a message again.          *)
(*                                                                         *)
(* A node of the list is the number of the push that made it.  The lists,  *)
(* and ipstack->write, are used as iot_list.c and iot_net.c define them:   *)
(* write returns the length it was given, or 0 until the timer expires.    *)
(***************************************************************************)
EXTENDS Naturals, SequencesExt

CONSTANTS
  Callers,        \* threads that publish
  QoSs,           \* the QoS values callers use: {1}, {2} or {1, 2}
  MC_PACKET_ID_MAX, MC_REPUB_NUM_MAX,
  OutOfMemory,    \* TRUE: iot_platform_malloc may fail
  MaxPublishes,   \* bound: calls of each caller
  MaxInFlight     \* bound: packets on the way for a time-out to happen

ASSUME QoSAssumption == QoSs \subseteq {1, 2}
ASSUME SizeAssumption ==
  /\ MC_PACKET_ID_MAX \in Nat \ {0} /\ MC_REPUB_NUM_MAX \in Nat \ {0}
  /\ MaxPublishes \in Nat /\ MaxInFlight \in Nat
  /\ OutOfMemory \in BOOLEAN

VARIABLES
  connected,        \* client_state = MC_STATE_CONNECTED
  packet_id,
  list_pub_wait_ack,\* nodes, head first
  msg_id, qos,      \* packet id and QoS of every node ever made, in order
  valid,            \* nodes in MC_NODE_STATE_NORMANL
  old,              \* nodes whose timer is past 2 * request_timeout_ms
  lock_write_buf, lock_list_pub,   \* held by a thread, or free
  pc, myId, node,   \* callers: place, packet id, node
  ypc, cur, next, temp,  \* MQTTPubInfoProc: place, node, iterator, tempNode
  toBroker, toClient,    \* PUBLISH, and PUBACK or PUBREC packets: their nodes
  calls,            \* history: publishes each caller began
  received,         \* history: nodes the broker has received
  accepted, refused \* history: nodes of the calls that returned

locks == <<lock_write_buf, lock_list_pub>>
user  == <<pc, myId, node, calls, accepted, refused, packet_id>>
iter  == <<ypc, cur, next, temp>>
nodes == <<list_pub_wait_ack, msg_id, qos, valid, old>>
net   == <<toBroker, toClient, received>>
vars  == <<connected, user, locks, iter, nodes, net>>

Free   == "free"
Yielder == "yield"
ASSUME CallerAssumption == {Free, Yielder} \cap Callers = {}

Made   == 1 .. Len(msg_id)
Listed == ToSet(list_pub_wait_ack)

TypeOK ==
  /\ connected \in BOOLEAN /\ packet_id \in 0 .. MC_PACKET_ID_MAX
  /\ msg_id \in Seq(1 .. MC_PACKET_ID_MAX) /\ qos \in Seq(QoSs)
  /\ list_pub_wait_ack \in Seq(Made) /\ Len(list_pub_wait_ack) <= MC_REPUB_NUM_MAX
  /\ valid \subseteq Made /\ old \subseteq Made
  /\ lock_write_buf \in Callers \cup {Free}
  /\ lock_list_pub \in {Yielder, Free}
  /\ pc \in [Callers -> {"idle", "lock", "push", "send", "sent", "remove", "error"}]
  /\ myId \in [Callers -> 0 .. MC_PACKET_ID_MAX]
  /\ node \in [Callers -> Made \cup {0}]
  /\ ypc \in {"cycle", "proc", "iter", "resend", "resume", "broken"}
  /\ {cur, next, temp} \subseteq Made \cup {0}
  /\ toBroker \in Seq(Made) /\ toClient \in Seq(Made)
  /\ received \subseteq Made /\ accepted \subseteq Made /\ refused \subseteq Made
  /\ calls \in [Callers -> 0 .. MaxPublishes]

\* After MC_connect
Init ==
  /\ connected = TRUE /\ packet_id = 0
  /\ list_pub_wait_ack = <<>> /\ msg_id = <<>> /\ qos = <<>> /\ valid = {} /\ old = {}
  /\ lock_write_buf = Free /\ lock_list_pub = Free
  /\ pc = [c \in Callers |-> "idle"] /\ myId = [c \in Callers |-> 0]
  /\ node = [c \in Callers |-> 0] /\ calls = [c \in Callers |-> 0]
  /\ ypc = "cycle" /\ cur = 0 /\ next = 0 /\ temp = 0
  /\ toBroker = <<>> /\ toClient = <<>>
  /\ received = {} /\ accepted = {} /\ refused = {}

Goto(c, place) == pc' = [pc EXCEPT ![c] = place]

-----------------------------------------------------------------------------
(* iot_mqtt_publish *)

\* MC_get_next_packetid
NextId == IF packet_id = MC_PACKET_ID_MAX THEN 1 ELSE packet_id + 1

\* MC_publish: the state is checked once, before everything else.
Publish(c) ==
  /\ pc[c] = "idle" /\ calls[c] < MaxPublishes /\ connected
  /\ calls' = [calls EXCEPT ![c] = @ + 1]
  /\ packet_id' = NextId /\ myId' = [myId EXCEPT ![c] = NextId]
  /\ Goto(c, "lock")
  /\ UNCHANGED <<connected, node, accepted, refused, locks, iter, nodes, net>>

LockWriteBuf_Missing(c) ==
  /\ pc[c] = "lock"
  /\ Goto(c, "push")
  /\ UNCHANGED <<connected, myId, node, calls, accepted, refused, packet_id,
                 locks, iter, nodes, net>>

\* MQTTPublish takes lock_write_buf and serializes the packet.
LockWriteBuf(c) ==
  /\ pc[c] = "lock" /\ lock_write_buf = Free
  /\ lock_write_buf' = c
  /\ Goto(c, "push")
  /\ UNCHANGED <<connected, myId, node, calls, accepted, refused, packet_id,
                 lock_list_pub, iter, nodes, net>>

HasRoom_OffByOne == Len(list_pub_wait_ack) <= MC_REPUB_NUM_MAX
HasRoom == Len(list_pub_wait_ack) < MC_REPUB_NUM_MAX

\* MC_push_pubInfo_to
Push(c) ==
  /\ pc[c] = "push" /\ lock_list_pub = Free
  /\ HasRoom
  /\ LET n == Len(msg_id) + 1
     IN  /\ msg_id' = Append(msg_id, myId[c])
         /\ \E q \in QoSs : qos' = Append(qos, q)
         /\ list_pub_wait_ack' = Append(list_pub_wait_ack, n)
         /\ valid' = valid \cup {n}
         /\ node' = [node EXCEPT ![c] = n]
  /\ myId' = [myId EXCEPT ![c] = 0]
  /\ Goto(c, "send")
  /\ UNCHANGED <<connected, calls, accepted, refused, packet_id, old,
                 locks, iter, net>>

\* The list is full, or malloc fails: MQTT_PUSH_TO_LIST_ERROR.
PushFails(c) ==
  /\ pc[c] = "push" /\ lock_list_pub = Free
  /\ OutOfMemory \/ ~HasRoom
  /\ lock_write_buf' = Free /\ myId' = [myId EXCEPT ![c] = 0]
  /\ Goto(c, "idle")
  /\ UNCHANGED <<connected, node, calls, accepted, refused, packet_id,
                 lock_list_pub, iter, nodes, net>>

\* MC_send_packet
Send(c) ==
  /\ pc[c] = "send"
  /\ toBroker' = Append(toBroker, node[c])
  /\ Goto(c, "sent")
  /\ UNCHANGED <<connected, myId, node, calls, accepted, refused, packet_id,
                 locks, iter, nodes, toClient, received>>

Sent(c) ==
  /\ pc[c] = "sent"
  /\ accepted' = accepted \cup {node[c]}
  /\ lock_write_buf' = Free /\ node' = [node EXCEPT ![c] = 0]
  /\ Goto(c, "idle")
  /\ UNCHANGED <<connected, myId, calls, refused, packet_id,
                 lock_list_pub, iter, nodes, net>>

\* The timer of request_timeout_ms, started before the node's own, expires
\* before the first write or while every write returns 0.
SendExpires(c) ==
  /\ pc[c] = "send" /\ node[c] \notin old
  /\ Goto(c, "remove")
  /\ UNCHANGED <<connected, myId, node, calls, accepted, refused, packet_id,
                 locks, iter, nodes, net>>

Without_Kept(n) == list_pub_wait_ack
Without(n) == RemoveFirst(list_pub_wait_ack, n)

\* list_remove under lock_list_pub, then MQTT_NETWORK_ERROR
RemoveOwn(c) ==
  /\ pc[c] = "remove" /\ lock_list_pub = Free
  /\ list_pub_wait_ack' = Without(node[c])
  /\ refused' = refused \cup {node[c]}
  /\ lock_write_buf' = Free /\ node' = [node EXCEPT ![c] = 0]
  /\ Goto(c, "error")
  /\ UNCHANGED <<connected, myId, calls, accepted, packet_id, msg_id, qos,
                 valid, old, lock_list_pub, iter, net>>

\* MC_publish: MC_set_client_state(c, MC_STATE_DISCONNECTED)
Disconnect(c) ==
  /\ pc[c] = "error"
  /\ connected' = FALSE
  /\ Goto(c, "idle")
  /\ UNCHANGED <<myId, node, calls, accepted, refused, packet_id, locks, iter,
                 nodes, net>>

Call(c) ==
  \/ LockWriteBuf(c) \/ Push(c) \/ PushFails(c) \/ Send(c) \/ Sent(c)
  \/ SendExpires(c) \/ RemoveOwn(c) \/ Disconnect(c)

-----------------------------------------------------------------------------
(* iot_mqtt_yield *)

\* MC_cycle reads nothing, or a packet that is not about publishing.
CycleIdle ==
  /\ ypc = "cycle" /\ connected
  /\ ypc' = "proc"
  /\ UNCHANGED <<connected, cur, next, temp, user, locks, nodes, net>>

Acked_All(n)  == n \in Listed
Acked_None(n) == FALSE
Acked(n) == n \in Listed /\ msg_id[n] = msg_id[Head(toClient)]

\* MC_handle_recv_PUBACK: MC_mask_pubInfo_from marks every node of that id,
\* or none when the iterator cannot be allocated.
RecvPuback ==
  /\ ypc = "cycle" /\ connected /\ lock_list_pub = Free
  /\ toClient # <<>> /\ qos[Head(toClient)] = 1
  /\ \/ valid' = {n \in valid : ~Acked(n)}
     \/ OutOfMemory /\ valid' = valid
  /\ toClient' = Tail(toClient)
  /\ ypc' = "proc"
  /\ UNCHANGED <<connected, cur, next, temp, user, locks, list_pub_wait_ack,
                 msg_id, qos, old, toBroker, received>>

\* PUBREC is an invalid type: FAIL_RETURN, and the lists are not looked at.
RecvPubrec ==
  /\ ypc = "cycle" /\ connected
  /\ toClient # <<>> /\ qos[Head(toClient)] = 2
  /\ toClient' = Tail(toClient)
  /\ UNCHANGED <<connected, user, locks, iter, nodes, toBroker, received>>

\* MC_read_packet fails.
ReadError ==
  /\ ypc = "cycle" /\ connected
  /\ connected' = FALSE
  /\ UNCHANGED <<user, locks, iter, nodes, net>>

\* MQTTPubInfoProc takes lock_list_pub and an iterator from the tail.
ProcBegin ==
  /\ ypc = "proc" /\ lock_list_pub = Free
  /\ \/ /\ list_pub_wait_ack # <<>>
        /\ lock_list_pub' = Yielder
        /\ next' = Last(list_pub_wait_ack) /\ ypc' = "iter"
     \/ /\ OutOfMemory \/ list_pub_wait_ack = <<>>
        /\ ypc' = "cycle"
        /\ UNCHANGED <<lock_list_pub, next>>
  /\ UNCHANGED <<connected, cur, temp, user, lock_write_buf, nodes, net>>

\* list_iterator_next, towards the head
Prev(n) ==
  LET i == CHOOSE i \in DOMAIN list_pub_wait_ack : list_pub_wait_ack[i] = n
  IN  IF i = 1 THEN 0 ELSE list_pub_wait_ack[i - 1]

\* The node left behind, if invalid, is freed once the iterator has moved on;
\* t is the next one to free.
FreeTemp(t) ==
  /\ temp' = t
  /\ list_pub_wait_ack' = IF temp = 0 THEN list_pub_wait_ack
                                      ELSE Without(temp)

IterEnd ==
  /\ ypc = "iter" /\ next = 0
  /\ FreeTemp(0)
  /\ ypc' = "cycle" /\ lock_list_pub' = Free
  /\ UNCHANGED <<connected, cur, next, user, lock_write_buf, msg_id, qos, valid, old, net>>

IterAdvance == next' = Prev(next)

IterInvalid ==
  /\ ypc = "iter" /\ next # 0 /\ next \notin valid
  /\ IterAdvance /\ FreeTemp(next)
  /\ UNCHANGED <<connected, ypc, cur, user, locks, msg_id, qos, valid, old, net>>

IterSkip ==
  /\ ypc = "iter" /\ next \in valid
  /\ ~connected \/ next \notin old
  /\ IterAdvance /\ FreeTemp(0)
  /\ UNCHANGED <<connected, ypc, cur, user, locks, msg_id, qos, valid, old, net>>

IterTimeout_KeepsLock ==
  /\ ypc = "iter" /\ next \in valid /\ connected /\ next \in old
  /\ IterAdvance /\ FreeTemp(0)
  /\ cur' = next /\ ypc' = "resend"
  /\ UNCHANGED <<connected, user, locks, msg_id, qos, valid, old, net>>

\* The node timed out: lock_list_pub is released to send it again.
IterTimeout ==
  /\ ypc = "iter" /\ next \in valid /\ connected /\ next \in old
  /\ IterAdvance /\ FreeTemp(0)
  /\ cur' = next /\ lock_list_pub' = Free /\ ypc' = "resend"
  /\ UNCHANGED <<connected, user, lock_write_buf, msg_id, qos, valid, old, net>>

\* MQTTRePublish, which needs lock_write_buf, and iot_timer_start
RePublish ==
  /\ ypc = "resend" /\ lock_write_buf = Free
  /\ \/ toBroker' = Append(toBroker, cur) /\ ypc' = "resume"
     \/ UNCHANGED toBroker /\ ypc' = "broken"
  /\ old' = old \ {cur} /\ cur' = 0
  /\ UNCHANGED <<connected, next, temp, user, locks, list_pub_wait_ack,
                 msg_id, qos, valid, toClient, received>>

Resume ==
  /\ ypc = "resume" /\ lock_list_pub = Free
  /\ lock_list_pub' = Yielder /\ ypc' = "iter"
  /\ UNCHANGED <<connected, cur, next, temp, user, lock_write_buf, nodes, net>>

\* MQTT_NETWORK_ERROR: the state is set, the walk ends.
ResumeBroken ==
  /\ ypc = "broken" /\ lock_list_pub = Free
  /\ connected' = FALSE /\ ypc' = "cycle"
  /\ UNCHANGED <<cur, next, temp, user, locks, nodes, net>>

PubInfoProc ==
  \/ ProcBegin \/ IterEnd \/ IterInvalid \/ IterSkip \/ IterTimeout
  \/ RePublish \/ Resume \/ ResumeBroken

Yield == CycleIdle \/ RecvPuback \/ RecvPubrec \/ ReadError \/ PubInfoProc

-----------------------------------------------------------------------------
(* The broker answers every PUBLISH it gets; time passes. *)

Broker ==
  /\ toBroker # <<>>
  /\ toBroker' = Tail(toBroker)
  /\ toClient' = Append(toClient, Head(toBroker))
  /\ received' = received \cup {Head(toBroker)}
  /\ UNCHANGED <<connected, user, locks, iter, nodes>>

Age(n) ==
  /\ n \in Listed \ old /\ Len(toBroker) + Len(toClient) < MaxInFlight
  /\ \A c \in Callers : ~(pc[c] = "remove" /\ node[c] = n)
  /\ old' = old \cup {n}
  /\ UNCHANGED <<connected, user, locks, iter, list_pub_wait_ack, msg_id, qos, valid,
                 net>>

Next ==
  \/ \E c \in Callers : Publish(c) \/ Call(c)
  \/ Yield \/ Broker
  \/ \E n \in Listed : Age(n)

\* The threads are scheduled, the lock queues are fair, the application calls
\* iot_mqtt_yield for ever and the broker answers.
Fairness ==
  /\ \A c \in Callers : SF_vars(Call(c))
  /\ WF_vars(Yield) /\ SF_vars(PubInfoProc) /\ SF_vars(RecvPuback \/ RecvPubrec)
  /\ WF_vars(Broker)

Spec == Init /\ [][Next]_vars
LiveSpec == Spec /\ Fairness

-----------------------------------------------------------------------------
\* No thread reaches a freed node: neither the message being sent again while
\* lock_list_pub is released, nor the iterator, nor the node a publisher
\* removes when its send failed (MQTTClient.c:348-364, 1734-1778).
NoUseAfterFree ==
  /\ ypc \in {"iter", "resend", "resume", "broken"} => next \in Listed \cup {0}
  /\ ypc = "resend" => cur \in Listed
  /\ temp # 0 => temp \in Listed
  /\ \A c \in Callers : pc[c] \in {"send", "remove"} => node[c] \in Listed

\* A message iot_mqtt_publish took is still in the list, to be sent again,
\* unless the broker has it.
NoLoss == \A n \in accepted : n \in Listed \cap valid \/ n \in received

\* A message iot_mqtt_publish refused never reaches the broker.
RefusedNotSent == refused \cap (received \cup ToSet(toBroker)) = {}

\* iot_mqtt_publish keeps its word either way (MQTTClient.c:316-374).
WordKept == NoLoss /\ RefusedNotSent

\* The wait list implements at-least-once delivery: the list's valid nodes are
\* the pending messages.
Promise == INSTANCE Delivery WITH
  Message   <- Nat \ {0},
  pending   <- Listed \cap valid,
  received  <- received,
  withdrawn <- refused
AtLeastOnce == Promise!Spec

\* Two locks and four orders of taking them: a call of iot_mqtt_publish
\* always returns.
PublishReturns == \A c \in Callers : pc[c] # "idle" ~> pc[c] = "idle"

\* A message published with QoS 1 leaves the list, however late its PUBACK is
\* and however often it was sent again, unless the connection is lost.
Qos1Ends ==
  \A n \in 1 .. 2 * MaxPublishes :
    n \in accepted /\ qos[n] = 1 ~> (n \notin Listed \/ ~connected)

\* MQTTClient.h:280-281: the ID of any publish with a QoS above 0 is passed back
\* in a callback, so its message leaves the list.
EveryPublishEnds ==
  \A n \in 1 .. MaxPublishes : n \in accepted ~> (n \notin Listed \/ ~connected)
=============================================================================
