--------------------------- MODULE MqttSubscribe ----------------------------
(***************************************************************************)
(* Subscribing and unsubscribing in Middlewares/mqtt/MQTTClient.c: the     *)
(* requests in list_sub_wait_ack, the handler table sub_handle, and the    *)
(* events the application gets for its request ids.                        *)
(*                                                                         *)
(* A call of iot_mqtt_subscribe pushes and sends under lock_write_buf, and *)
(* only the thread of iot_mqtt_yield removes answered or timed-out         *)
(* requests, so a call, a packet and a walk of MQTTSubInfoProc are one     *)
(* step each; module MqttPublish looks at the steps between.  A request    *)
(* times out at any moment: the broker may be slower than                  *)
(* 2 * request_timeout_ms.  The list is searched by id and walked as a     *)
(* whole, ids are unique: it is a set here.                                *)
(***************************************************************************)
EXTENDS Naturals, Sequences, FiniteSets, Functions

CONSTANTS
  Filters, Callbacks,     \* topic filters, handler functions
  MC_SUB_NUM_MAX, MC_SUB_REQUEST_NUM_MAX,
  OutOfMemory,            \* TRUE: iot_platform_malloc may fail
  MaxRequests             \* bound: requests in a behaviour

NULL == "NULL"

ASSUME SizeAssumption ==
  /\ MC_SUB_NUM_MAX \in Nat \ {0} /\ MC_SUB_REQUEST_NUM_MAX \in Nat \ {0}
  /\ MaxRequests \in Nat /\ OutOfMemory \in BOOLEAN
ASSUME NullAssumption == NULL \notin Filters \cup Callbacks

Handlers == [topic_filter : Filters, h_fp : Callbacks]
NoHandler == [topic_filter |-> NULL, h_fp |-> NULL]

VARIABLES
  connected,
  packet_id,         \* ids do not wrap in this module: packet_id <= MaxRequests
  list_sub_wait_ack, \* set of requests [type, msg_id, handler, valid]
  sub_handle,        \* MC_SUB_NUM_MAX handlers or NoHandler
  skip,              \* the packet just handled made MC_cycle fail
  dead,              \* why the client stopped for ever, or "no"
  toBroker, toClient,\* requests; SUBACK and UNSUBACK packets [type, msg_id, granted]
  asked,             \* history: the requests made; the n-th has id n
  events,            \* history: <<msg_id, event type>> passed to handle_event
  answered,          \* history: ids of the SUBACKs and UNSUBACKs handled
  late               \* history: an UNSUBACK found no request

vars == <<connected, packet_id, list_sub_wait_ack, sub_handle, skip, dead,
          toBroker, toClient, asked, events, answered, late>>

Ids == 1 .. MaxRequests
Slots == 1 .. MC_SUB_NUM_MAX
Requests ==
  [type : {"SUBSCRIBE"}, msg_id : Ids, handler : Handlers, valid : BOOLEAN] \cup
  [type : {"UNSUBSCRIBE"}, msg_id : Ids, valid : BOOLEAN,
   handler : [topic_filter : Filters, h_fp : {NULL}]]
Acks == [type : {"SUBACK", "UNSUBACK"}, msg_id : Ids, granted : BOOLEAN]
Events == {"SUBCRIBE_SUCCESS", "SUBCRIBE_TIMEOUT", "SUBCRIBE_NACK",
           "UNSUBCRIBE_SUCCESS", "UNSUBCRIBE_TIMEOUT"}

TypeOK ==
  /\ connected \in BOOLEAN /\ skip \in BOOLEAN /\ dead \in {"no", "fault", "hung"} /\ late \in BOOLEAN
  /\ packet_id \in 0 .. MaxRequests
  /\ list_sub_wait_ack \subseteq Requests
  /\ IsFiniteSet(list_sub_wait_ack) /\ Cardinality(list_sub_wait_ack) <= MC_SUB_REQUEST_NUM_MAX
  /\ sub_handle \in [Slots -> Handlers \cup {NoHandler}]
  /\ toBroker \in Seq(Requests) /\ asked \in Seq(Requests) /\ toClient \in Seq(Acks)
  /\ events \subseteq Ids \X Events /\ answered \subseteq Ids

Init ==
  /\ connected = TRUE /\ skip = FALSE /\ dead = "no" /\ late = FALSE
  /\ packet_id = 0 /\ list_sub_wait_ack = {}
  /\ sub_handle = [i \in Slots |-> NoHandler]
  /\ toBroker = <<>> /\ toClient = <<>>
  /\ asked = <<>> /\ events = {} /\ answered = {}

-----------------------------------------------------------------------------
(* iot_mqtt_subscribe, iot_mqtt_unsubscribe *)

SubscribeRequest(f, h) ==
  [type |-> "SUBSCRIBE", msg_id |-> packet_id + 1, valid |-> TRUE,
   handler |-> [topic_filter |-> f, h_fp |-> h]]

\* MQTTUnsubscribe: MC_topic_handle_t handler = {topicFilter, {NULL, NULL}}
UnsubscribeRequest(f) ==
  [type |-> "UNSUBSCRIBE", msg_id |-> packet_id + 1, valid |-> TRUE,
   handler |-> [topic_filter |-> f, h_fp |-> NULL]]

HasRoom_OffByOne == Cardinality(list_sub_wait_ack) <= MC_SUB_REQUEST_NUM_MAX
HasRoom == Cardinality(list_sub_wait_ack) < MC_SUB_REQUEST_NUM_MAX

\* MC_push_subInfo_to and MC_send_packet: sent, or removed again, or refused.
Request(r) ==
  /\ connected /\ dead = "no" /\ packet_id < MaxRequests
  /\ packet_id' = packet_id + 1
  /\ asked' = Append(asked, r)
  /\ \/ /\ HasRoom
        /\ list_sub_wait_ack' = list_sub_wait_ack \cup {r}
        /\ toBroker' = Append(toBroker, r)
        /\ UNCHANGED connected
     \/ /\ HasRoom
        /\ connected' = FALSE
        /\ UNCHANGED <<list_sub_wait_ack, toBroker>>
     \/ /\ OutOfMemory \/ ~HasRoom
        /\ UNCHANGED <<connected, list_sub_wait_ack, toBroker>>
  /\ UNCHANGED <<sub_handle, skip, dead, toClient, events, answered, late>>

Subscribe   == \E f \in Filters, h \in Callbacks : Request(SubscribeRequest(f, h))
Unsubscribe == \E f \in Filters : Request(UnsubscribeRequest(f))

-----------------------------------------------------------------------------
(* iot_mqtt_yield *)

Event(id, type) == events' = events \cup {<<id, type>>}

Mask_Missing(id) == UNCHANGED list_sub_wait_ack

\* MC_mask_subInfo_from: the request is marked invalid, its handler returned.
Mask(id) ==
  list_sub_wait_ack' =
    {[r EXCEPT !.valid = r.valid /\ r.msg_id # id] : r \in list_sub_wait_ack}

Masked(id) == {r \in list_sub_wait_ack : r.msg_id = id}

Receives(type) ==
  /\ connected /\ dead = "no" /\ ~skip
  /\ toClient # <<>> /\ Head(toClient).type = type
  /\ toClient' = Tail(toClient)
  /\ answered' = answered \cup {Head(toClient).msg_id}
  /\ UNCHANGED <<connected, packet_id, toBroker, asked>>

\* grantedQoS == 0x80: the request stays in the list.
RecvNack ==
  /\ Receives("SUBACK") /\ ~Head(toClient).granted
  /\ Event(Head(toClient).msg_id, "SUBCRIBE_NACK")
  /\ skip' = TRUE
  /\ UNCHANGED <<list_sub_wait_ack, sub_handle, dead, late>>

\* MQTT_SUB_INFO_NOT_FOUND_ERROR, after the request timed out
RecvSubackUnknown ==
  /\ Receives("SUBACK") /\ Head(toClient).granted
  /\ Masked(Head(toClient).msg_id) = {}
  /\ skip' = TRUE
  /\ UNCHANGED <<list_sub_wait_ack, sub_handle, dead, events, late>>

FreeSlots_All == Slots
FreeSlots == {i \in Slots : sub_handle[i] = NoHandler}
FirstFree == CHOOSE i \in FreeSlots : \A j \in FreeSlots : i <= j

\* if_topic_handle_is_identical
Known(h) == \E i \in Slots : sub_handle[i] = h

\* The handler is new and the table has room; else no event is raised.
RecvSuback ==
  /\ Receives("SUBACK") /\ Head(toClient).granted
  /\ Mask(Head(toClient).msg_id)
  /\ \E r \in Masked(Head(toClient).msg_id) :
       \/ /\ Known(r.handler)
          /\ skip' = FALSE
          /\ UNCHANGED <<sub_handle, events>>
       \/ /\ ~Known(r.handler)
          /\ FreeSlots # {}
          /\ sub_handle' = [sub_handle EXCEPT ![FirstFree] = r.handler]
          /\ Event(r.msg_id, "SUBCRIBE_SUCCESS")
          /\ skip' = FALSE
       \/ /\ ~Known(r.handler)
          /\ FreeSlots = {}
          /\ skip' = TRUE
          /\ UNCHANGED <<sub_handle, events>>
  /\ UNCHANGED <<dead, late>>

\* Every handler identical to h is erased.
Erase(h) ==
  sub_handle' = [i \in Slots |-> IF sub_handle[i] = h THEN NoHandler
                                                      ELSE sub_handle[i]]

RecvUnsuback ==
  /\ Receives("UNSUBACK")
  /\ Mask(Head(toClient).msg_id)
  /\ \E r \in Masked(Head(toClient).msg_id) : Erase(r.handler)
  /\ Event(Head(toClient).msg_id, "UNSUBCRIBE_SUCCESS")
  /\ UNCHANGED <<skip, dead, late>>

\* The request timed out: messageHandler was never initialised.  It is
\* compared with the table, if that is not empty, and holds anything.
RecvUnsubackUnknown ==
  /\ Receives("UNSUBACK")
  /\ Masked(Head(toClient).msg_id) = {}
  /\ \/ /\ \E h \in Handlers \cup {NoHandler} : Erase(h)
        /\ Event(Head(toClient).msg_id, "UNSUBCRIBE_SUCCESS")
        /\ UNCHANGED dead
     \/ /\ \E i \in Slots : sub_handle[i] # NoHandler
        /\ dead' = "fault"
        /\ UNCHANGED <<sub_handle, events>>
  /\ late' = TRUE
  /\ UNCHANGED <<list_sub_wait_ack, skip>>

\* The iterator cannot be allocated: MC_mask_subInfo_from (line 679) and
\* MQTTSubInfoProc (line 1574) lock lock_list_sub, which they hold, again.
Hang ==
  /\ OutOfMemory /\ list_sub_wait_ack # {}
  /\ connected /\ dead = "no" /\ ~skip
  /\ dead' = "hung"
  /\ UNCHANGED <<connected, packet_id, list_sub_wait_ack, sub_handle, skip, toBroker,
                 toClient, asked, events, answered, late>>

\* The event of a request in T is raised, the node stays.
SubInfoProc_KeepsTimedOut(T) ==
  /\ ~skip /\ dead = "no"
  /\ T # {} => connected
  /\ T \subseteq {r \in list_sub_wait_ack : r.valid}
  /\ list_sub_wait_ack' = {r \in list_sub_wait_ack : r.valid}
  /\ events' = events \cup
       {<<r.msg_id, IF r.type = "SUBSCRIBE" THEN "SUBCRIBE_TIMEOUT"
                                            ELSE "UNSUBCRIBE_TIMEOUT">> : r \in T}
  /\ UNCHANGED <<connected, packet_id, sub_handle, skip, dead, toBroker,
                 toClient, asked, answered, late>>

\* MQTTSubInfoProc: invalid nodes are removed; requests in T timed out, which
\* is only looked at while connected.
SubInfoProc(T) ==
  /\ ~skip /\ dead = "no"
  /\ T # {} => connected
  /\ T \subseteq {r \in list_sub_wait_ack : r.valid}
  /\ list_sub_wait_ack' = {r \in list_sub_wait_ack : r.valid /\ r \notin T}
  /\ events' = events \cup
       {<<r.msg_id, IF r.type = "SUBSCRIBE" THEN "SUBCRIBE_TIMEOUT"
                                            ELSE "UNSUBCRIBE_TIMEOUT">> : r \in T}
  /\ UNCHANGED <<connected, packet_id, sub_handle, skip, dead, toBroker,
                 toClient, asked, answered, late>>

\* MC_cycle failed: iot_mqtt_yield returns without looking at the lists.
YieldReturns ==
  /\ skip /\ skip' = FALSE
  /\ UNCHANGED <<connected, packet_id, list_sub_wait_ack, sub_handle, dead,
                 toBroker, toClient, asked, events, answered, late>>

\* MC_read_packet fails.
ReadError ==
  /\ connected /\ ~skip /\ dead = "no"
  /\ connected' = FALSE /\ skip' = TRUE
  /\ UNCHANGED <<packet_id, list_sub_wait_ack, sub_handle, dead, toBroker,
                 toClient, asked, events, answered, late>>

Yield ==
  \/ RecvNack \/ RecvSubackUnknown \/ RecvSuback \/ RecvUnsuback
  \/ RecvUnsubackUnknown \/ Hang \/ YieldReturns \/ ReadError
  \/ \E T \in SUBSET list_sub_wait_ack : SubInfoProc(T)

\* The broker answers in order; it may refuse a subscription.
Broker ==
  /\ toBroker # <<>>
  /\ toBroker' = Tail(toBroker)
  /\ \E ok \in BOOLEAN :
       /\ Head(toBroker).type = "UNSUBSCRIBE" => ok
       /\ toClient' = Append(toClient,
            [type |-> IF Head(toBroker).type = "SUBSCRIBE" THEN "SUBACK" ELSE "UNSUBACK",
             msg_id |-> Head(toBroker).msg_id, granted |-> ok])
  /\ UNCHANGED <<connected, packet_id, list_sub_wait_ack, sub_handle, skip, dead,
                 asked, events, answered, late>>

Next == Subscribe \/ Unsubscribe \/ Yield \/ Broker

Spec == Init /\ [][Next]_vars

\* The application calls iot_mqtt_yield for ever, whatever fails in it, and in
\* the end every request is older than its time-out when the list is walked.
Fairness ==
  /\ WF_vars(YieldReturns)
  /\ SF_vars(SubInfoProc({r \in list_sub_wait_ack : r.valid}))
LiveSpec == Spec /\ Fairness

Waiting == {r.msg_id : r \in list_sub_wait_ack}

-----------------------------------------------------------------------------
\* A subscription that was reported to have timed out is never reported
\* successful later, and the other way round: a late SUBACK finds no request.
SuccessXorTimeout ==
  \A id \in Ids : ~({<<id, "SUBCRIBE_SUCCESS">>, <<id, "SUBCRIBE_TIMEOUT">>} \subseteq events)

\* The application never runs the same function twice for a message because
\* it subscribed twice (MQTTClient.c:1031-1038).
NoDuplicateHandler ==
  \A i, j \in Slots : sub_handle[i] = sub_handle[j] /\ i # j => sub_handle[i] = NoHandler

\* A subscription reported successful is served: its handler is in the table,
\* however many subscriptions came and went, until an UNSUBACK arrives after
\* its request timed out (MQTTClient.c:1031-1051, 1116-1126).
Installed ==
  ~late => \A id \in Ids : <<id, "SUBCRIBE_SUCCESS">> \in events =>
                             asked[id].handler \in Range(sub_handle)

\* A request that was answered leaves the list unless it was refused.
AnsweredLeaves ==
  \A r \in list_sub_wait_ack :
    r.msg_id \in answered => ~r.valid \/ <<r.msg_id, "SUBCRIBE_NACK">> \in events

\* Every answer takes effect once (MQTTClient.c:683-706, 1555-1648).
OneAnswer == SuccessXorTimeout /\ AnsweredLeaves

\* The table of handlers is what the answers made it (MQTTClient.c:1017-1060).
TableExact == Installed /\ NoDuplicateHandler

\* A request leaves the list, answered, refused, late or lost, and with it its
\* place in the list, unless the connection is lost or a failed allocation
\* stops the client (MQTTClient.c:1555-1648).
RequestEnds ==
  \A id \in Ids : id \in Waiting ~> (id \notin Waiting \/ ~connected \/ dead # "no")

\* MQTTClient.c:1120: an UNSUBACK removes the topic's handlers from the message
\* handler array.
UnsubackRemoves ==
  [][RecvUnsuback =>
       \A r \in Masked(Head(toClient).msg_id), i \in Slots :
         sub_handle'[i].topic_filter # r.handler.topic_filter]_vars
=============================================================================
