----------------------------- MODULE MqttState ------------------------------
(***************************************************************************)
(* The life of a client of Middlewares/mqtt/MQTTClient.c:                  *)
(* iot_mqtt_construct with MC_init, MC_connect and MC_wait_CONNACK, the    *)
(* rounds of iot_mqtt_yield with MC_cycle and MC_keepalive, the threads    *)
(* that publish or subscribe meanwhile, and iot_mqtt_deconstruct.          *)
(*                                                                         *)
(* client_state is read and written under lock_generic, one access a step, *)
(* and every thread acts on the value it read earlier.  The transport is   *)
(* iot_net.c over iot_platform.c: TCP, where write always takes everything *)
(* and read never fails, or SSL, whose functions return 0.  A send fails   *)
(* only when its timer runs out before the write; a read fails on a packet *)
(* that is cut or too long.                                                *)
(***************************************************************************)
EXTENDS Naturals, Sequences

CONSTANTS
  Publishers,     \* threads that call iot_mqtt_publish or iot_mqtt_subscribe
  OutOfMemory,    \* TRUE: iot_platform_malloc may fail
  MaxCalls,       \* bound: calls of each publisher
  MaxPackets,     \* bound: packets the broker sends on its own
  MaxEvents       \* bound: RECONNECT events that are counted

ASSUME BoundAssumption ==
  /\ MaxCalls \in Nat /\ MaxPackets \in Nat /\ MaxEvents \in Nat
  /\ OutOfMemory \in BOOLEAN

VARIABLES
  pc,             \* the thread that constructs, yields and deconstructs
  client_state,
  currentState,   \* MC_keepalive's copy of client_state
  rcSuccess,      \* rc = SUCCESS_RETURN in iot_mqtt_yield
  ssl,            \* ca_crt # NULL
  open,           \* the TCP connection of ipstack
  held,           \* what is allocated
  pingDue, reconnectDue,   \* next_ping_time, reconnect_next_time are expired
  ping_mark,
  ppc, calls,     \* publishers: place, calls made
  linkUp,         \* the modem's connection carries bytes
  inbox, sent,    \* packets for the client; packets the broker sent on its own
  failures,       \* history: how often a failure set DISCONNECTED
  disconnects, reconnects  \* history: events the application got

client == <<client_state, currentState, rcSuccess, ssl, open, held, ping_mark>>
timers == <<pingDue, reconnectDue>>
others == <<ppc, calls>>
broker == <<linkUp, inbox, sent>>
events == <<failures, disconnects, reconnects>>
vars == <<pc, client, timers, others, broker, events>>

States == {"INVALID", "INITIALIZED", "CONNECTED", "DISCONNECTED", "RECONNECTING"}
Resources == {"client", "locks", "lists", "ipstack"}
\* PUBLISH: any packet handled with success.  INVALID: MC_cycle or a handler
\* returns an error.  CUT: MC_read_packet returns an error.
Packets == {"CONNACK", "REFUSED", "PINGRESP", "PUBLISH", "INVALID", "CUT"}

Constructing == {"malloc", "connect", "sendConnect", "wait", "release"}
Yielding == {"cycle", "read", "lists", "ping", "sendPing", "look", "reconnect",
             "tell", "setReconnecting"}
Over == {"NULL", "noMemory", "halted", "gone"}

TypeOK ==
  /\ pc \in Constructing \cup Yielding \cup Over \cup {"idle"}
  /\ {client_state, currentState} \subseteq States
  /\ {rcSuccess, ssl, open, ping_mark, linkUp, pingDue, reconnectDue} \subseteq BOOLEAN
  /\ held \subseteq Resources
  /\ ppc \in [Publishers -> {"idle", "send", "error"}]
  /\ calls \in [Publishers -> 0 .. MaxCalls]
  /\ inbox \in Seq(Packets) /\ sent \in 0 .. MaxPackets
  /\ {failures, disconnects} \subseteq Nat
  /\ reconnects \in 0 .. MaxEvents

Init_NotCleared ==
  /\ pc = "malloc" /\ client_state = "UNSET" /\ currentState = "INVALID"
  /\ rcSuccess = TRUE /\ ssl \in BOOLEAN /\ open = FALSE /\ held = {}
  /\ pingDue = TRUE /\ reconnectDue = TRUE /\ ping_mark = FALSE
  /\ ppc = [p \in Publishers |-> "idle"] /\ calls = [p \in Publishers |-> 0]
  /\ linkUp = TRUE /\ inbox = <<>> /\ sent = 0
  /\ failures = 0 /\ disconnects = 0 /\ reconnects = 0

Init ==
  /\ pc = "malloc" /\ client_state = "INVALID" /\ currentState = "INVALID"
  /\ rcSuccess = TRUE /\ ssl \in BOOLEAN /\ open = FALSE /\ held = {}
  /\ pingDue = TRUE /\ reconnectDue = TRUE /\ ping_mark = FALSE
  /\ ppc = [p \in Publishers |-> "idle"] /\ calls = [p \in Publishers |-> 0]
  /\ linkUp = TRUE /\ inbox = <<>> /\ sent = 0
  /\ failures = 0 /\ disconnects = 0 /\ reconnects = 0

\* MC_set_client_state(MC_STATE_DISCONNECTED) after a network error
Fail == client_state' = "DISCONNECTED" /\ failures' = failures + 1

-----------------------------------------------------------------------------
(* iot_mqtt_construct *)

\* malloc, MC_init: with no memory for ipstack only the client is freed before
\* NULL is returned.
Construct ==
  /\ pc = "malloc"
  /\ \/ /\ held' = Resources /\ client_state' = "INITIALIZED" /\ pc' = "connect"
     \/ /\ OutOfMemory
        /\ held' \in {{}, {"locks", "lists"}} /\ pc' = "noMemory"
        /\ UNCHANGED client_state
  /\ UNCHANGED <<currentState, rcSuccess, ssl, open, ping_mark, timers, others, broker, events>>

\* ipstack->connect: over SSL it always fails, over TCP it asserts.
Connect ==
  /\ pc = "connect"
  /\ \/ ssl /\ pc' = "release" /\ UNCHANGED open
     \/ ~ssl /\ pc' = "sendConnect" /\ open' = TRUE
     \/ ~ssl /\ pc' = "halted" /\ UNCHANGED open
  /\ UNCHANGED <<client_state, currentState, rcSuccess, ssl, held, ping_mark,
                 timers, others, broker, events>>

SendConnect_LeavesOpen ==
  /\ pc = "sendConnect"
  /\ pc' \in {"wait", "release"}
  /\ UNCHANGED <<client, timers, others, broker, events>>

\* MQTTConnect; the broker accepts or refuses.
SendConnect ==
  /\ pc = "sendConnect"
  /\ \/ /\ pc' = "wait"
        /\ \/ linkUp /\ \E a \in {"CONNACK", "REFUSED"} : inbox' = Append(inbox, a)
           \/ ~linkUp /\ UNCHANGED inbox
        /\ UNCHANGED open
     \/ /\ pc' = "release" /\ open' = FALSE
        /\ UNCHANGED inbox
  /\ UNCHANGED <<client_state, currentState, rcSuccess, ssl, held, ping_mark, timers,
                 others, linkUp, sent, events>>

\* One round of MC_wait_CONNACK that reads a packet; a round that reads
\* nothing changes nothing and the loop does not look at its timer.
WaitConnack ==
  /\ pc = "wait" /\ inbox # <<>>
  /\ inbox' = Tail(inbox)
  /\ \/ /\ Head(inbox) = "CONNACK"
        /\ client_state' = "CONNECTED" /\ pingDue' = FALSE /\ pc' = "idle"
        /\ UNCHANGED open
     \/ /\ Head(inbox) \in {"REFUSED", "CUT"}
        /\ open' = FALSE /\ pc' = "release"
        /\ UNCHANGED <<client_state, pingDue>>
     \/ /\ Head(inbox) \notin {"CONNACK", "REFUSED", "CUT"}
        /\ UNCHANGED <<pc, client_state, open, pingDue>>
  /\ UNCHANGED <<currentState, rcSuccess, ssl, held, ping_mark, reconnectDue, others,
                 linkUp, sent, events>>

\* MC_release after MC_connect failed: MC_disconnect sees INITIALIZED and
\* does nothing; then the client is freed and NULL returned.
Release ==
  /\ pc = "release"
  /\ client_state' = "INVALID" /\ held' = {} /\ pc' = "NULL"
  /\ UNCHANGED <<currentState, rcSuccess, ssl, open, ping_mark, timers, others, broker, events>>

\* The application deconstructs once no other thread uses the client.
Deconstruct ==
  /\ pc = "idle" /\ \A p \in Publishers : ppc[p] = "idle"
  /\ open' = (open /\ client_state # "CONNECTED")
  /\ client_state' = "INVALID" /\ held' = {} /\ pc' = "gone"
  /\ UNCHANGED <<currentState, rcSuccess, ssl, ping_mark, timers, others, broker, events>>

-----------------------------------------------------------------------------
(* iot_mqtt_yield: MC_cycle *)

Yield ==
  /\ pc = "idle" /\ pc' = "cycle"
  /\ UNCHANGED <<client, timers, others, broker, events>>

Cycle_Returns ==
  /\ pc = "cycle"
  /\ rcSuccess' = (client_state = "CONNECTED")
  /\ pc' = IF client_state = "CONNECTED" THEN "read" ELSE "idle"
  /\ UNCHANGED <<client_state, currentState, ssl, open, held, ping_mark, timers, others,
                 broker, events>>

Cycle ==
  /\ pc = "cycle"
  /\ rcSuccess' = (client_state = "CONNECTED")
  /\ pc' = IF client_state = "CONNECTED" THEN "read" ELSE "ping"
  /\ UNCHANGED <<client_state, currentState, ssl, open, held, ping_mark, timers, others,
                 broker, events>>

\* Nothing arrives before the timer of the yield runs out.
ReadNothing ==
  /\ pc = "read" /\ inbox = <<>> /\ pc' = "lists"
  /\ UNCHANGED <<client, timers, others, broker, events>>

\* Any packet renews next_ping_time.
ReadPacket ==
  /\ pc = "read" /\ inbox # <<>> /\ Head(inbox) # "CUT"
  /\ inbox' = Tail(inbox)
  /\ pingDue' = FALSE /\ ping_mark' = FALSE
  /\ rcSuccess' = (Head(inbox) # "INVALID")
  /\ pc' = IF Head(inbox) = "INVALID" THEN "ping" ELSE "lists"
  /\ UNCHANGED <<client_state, currentState, ssl, open, held, reconnectDue, others, linkUp, sent,
                 events>>

ReadError ==
  /\ pc = "read" /\ inbox # <<>> /\ Head(inbox) = "CUT"
  /\ inbox' = Tail(inbox)
  /\ Fail /\ rcSuccess' = FALSE /\ pc' = "ping"
  /\ UNCHANGED <<currentState, ssl, open, held, ping_mark, timers, others, linkUp, sent,
                 disconnects, reconnects>>

\* MQTTPubInfoProc, MQTTSubInfoProc: sending a message again may fail.
Lists ==
  /\ pc = "lists" /\ pc' = "ping"
  /\ \/ Fail
     \/ UNCHANGED <<client_state, failures>>
  /\ UNCHANGED <<currentState, rcSuccess, ssl, open, held, ping_mark, timers, others, broker,
                 disconnects, reconnects>>

-----------------------------------------------------------------------------
(* iot_mqtt_yield: MC_keepalive *)

Ping_Never ==
  /\ pc = "ping" /\ pc' = "look"
  /\ UNCHANGED <<client, timers, others, broker, events>>

\* MC_keepalive_sub up to MQTTKeepalive
Ping ==
  /\ pc = "ping"
  /\ \/ /\ client_state = "CONNECTED" /\ pingDue
        /\ pingDue' = FALSE /\ pc' = "sendPing"
     \/ /\ client_state # "CONNECTED" \/ ~pingDue
        /\ pc' = "look" /\ UNCHANGED pingDue
  /\ UNCHANGED <<client, reconnectDue, others, broker, events>>

\* MQTTKeepalive; a broker that is still there answers.
SendPing ==
  /\ pc = "sendPing" /\ pc' = "look"
  /\ \/ /\ ping_mark' = TRUE
        /\ inbox' = IF linkUp /\ open THEN Append(inbox, "PINGRESP") ELSE inbox
        /\ UNCHANGED <<client_state, failures>>
     \/ /\ Fail
        /\ UNCHANGED <<ping_mark, inbox>>
  /\ UNCHANGED <<currentState, rcSuccess, ssl, open, held, timers, others, linkUp, sent,
                 disconnects, reconnects>>

\* The loop of iot_mqtt_yield: it ends when its timer has run out, and at once
\* when MC_cycle failed.
Again == pc' \in {"idle"} \cup {x \in {"cycle"} : rcSuccess}

\* MC_get_client_state, and the three ways to go on from it
Look ==
  /\ pc = "look"
  /\ currentState' = client_state
  /\ \/ client_state = "RECONNECTING" /\ pc' = "reconnect"
     \/ client_state = "DISCONNECTED" /\ pc' = "tell"
     \/ client_state = "CONNECTED" /\ Again
  /\ UNCHANGED <<client_state, rcSuccess, ssl, open, held, ping_mark, timers, others, broker,
                 events>>

\* MC_handle_reconnect connects nothing; once its timer has run out it
\* succeeds and the application is told, at every call.
Reconnect ==
  /\ pc = "reconnect" /\ Again
  /\ ping_mark' = FALSE
  /\ reconnects' = IF reconnectDue /\ reconnects < MaxEvents THEN reconnects + 1
                                                             ELSE reconnects
  /\ UNCHANGED <<client_state, currentState, rcSuccess, ssl, open, held, timers, others, broker,
                 failures, disconnects>>

\* MC_disconnect_callback, iot_timer_countdown, ipstack->disconnect
Tell ==
  /\ pc = "tell" /\ pc' = "setReconnecting"
  /\ disconnects' = disconnects + 1
  /\ reconnectDue' = FALSE /\ open' = FALSE
  /\ UNCHANGED <<client_state, currentState, rcSuccess, ssl, held, ping_mark, pingDue, others,
                 broker, failures, reconnects>>

SetReconnecting_Missing ==
  /\ pc = "setReconnecting" /\ Again
  /\ UNCHANGED <<client, timers, others, broker, events>>

SetReconnecting ==
  /\ pc = "setReconnecting" /\ Again
  /\ client_state' = "RECONNECTING"
  /\ UNCHANGED <<currentState, rcSuccess, ssl, open, held, ping_mark, timers, others, broker,
                 events>>

YieldThread ==
  \/ Construct \/ Connect \/ SendConnect \/ WaitConnack \/ Release
  \/ Yield \/ Cycle \/ ReadNothing \/ ReadPacket \/ ReadError \/ Lists
  \/ Ping \/ SendPing \/ Look \/ Reconnect \/ Tell \/ SetReconnecting

-----------------------------------------------------------------------------
(* MC_publish, MC_subscribe, MC_unsubscribe in other threads *)

\* MC_check_state_normal is the only look at the state.
Call(p) ==
  /\ pc \in Yielding \cup {"idle"} /\ ppc[p] = "idle"
  /\ calls[p] < MaxCalls /\ client_state = "CONNECTED"
  /\ ppc' = [ppc EXCEPT ![p] = "send"]
  /\ calls' = [calls EXCEPT ![p] = @ + 1]
  /\ UNCHANGED <<pc, client, timers, broker, events>>

Send(p) ==
  /\ ppc[p] = "send"
  /\ \E place \in {"idle", "error"} : ppc' = [ppc EXCEPT ![p] = place]
  /\ UNCHANGED <<pc, client, timers, calls, broker, events>>

\* MQTT_NETWORK_ERROR: DISCONNECTED, whatever the state is by now.
SetDisconnected(p) ==
  /\ ppc[p] = "error"
  /\ ppc' = [ppc EXCEPT ![p] = "idle"]
  /\ Fail
  /\ UNCHANGED <<pc, currentState, rcSuccess, ssl, open, held, ping_mark, timers, calls, broker,
                 disconnects, reconnects>>

Publisher(p) == Call(p) \/ Send(p) \/ SetDisconnected(p)

-----------------------------------------------------------------------------
(* The broker, the link and time *)

BrokerSends ==
  /\ open /\ linkUp /\ sent < MaxPackets
  /\ sent' = sent + 1
  /\ \E m \in {"PUBLISH", "INVALID", "CUT"} : inbox' = Append(inbox, m)
  /\ UNCHANGED <<pc, client, timers, others, linkUp, events>>

\* The modem's connection dies without an error.
LinkDies ==
  /\ linkUp /\ linkUp' = FALSE
  /\ UNCHANGED <<pc, client, timers, others, inbox, sent, events>>

\* keepAliveInterval, or the reconnect interval, has passed.
PingExpires ==
  /\ ~pingDue /\ pingDue' = TRUE
  /\ UNCHANGED <<pc, client, reconnectDue, others, broker, events>>
ReconnectExpires ==
  /\ ~reconnectDue /\ reconnectDue' = TRUE
  /\ UNCHANGED <<pc, client, pingDue, others, broker, events>>

Environment == BrokerSends \/ LinkDies \/ PingExpires \/ ReconnectExpires

Next ==
  \/ YieldThread \/ Deconstruct
  \/ \E p \in Publishers : Publisher(p)
  \/ Environment

Spec == Init /\ [][Next]_vars

\* The thread is scheduled and calls iot_mqtt_yield for ever, as mqtt_task
\* does; time passes.  Nothing is assumed of the broker or the publishers.
Fairness == WF_vars(YieldThread) /\ WF_vars(PingExpires) /\ WF_vars(ReconnectExpires)
LiveSpec == Spec /\ Fairness

-----------------------------------------------------------------------------
\* The application is told of a disconnection at most as often as one was
\* noticed, although the failing thread and the telling one set the state over
\* each other (MQTTClient.c:1398, 1679-1688).
ToldOnce == disconnects <= failures

\* A failure that has not been told leaves the state at DISCONNECTED: no
\* thread's write hides it, except one that falls between the event and
\* RECONNECTING.
Pending ==
  client_state = "DISCONNECTED" /\ pc # "setReconnecting" => disconnects < failures

\* The application is told of what happened, and of nothing else.
ToldExactly == ToldOnce /\ Pending

\* A client that is CONNECTED has its connection; one that has told of its end
\* has closed it.  When the connection cannot be made or is refused, and when the
\* client is deconstructed, everything is given back, and in the first case closed
\* (MQTTClient.c:1794-1842, 2051-2074); when MC_init runs out of memory no more is
\* left than its locks and lists (MQTTClient.c:1546).
NothingLeft ==
  /\ client_state = "CONNECTED" => open
  /\ client_state = "RECONNECTING" => ~open
  /\ pc \in {"NULL", "gone"} => held = {}
  /\ pc = "noMemory" => held \subseteq {"locks", "lists"}
  /\ pc \in {"NULL", "noMemory"} => ~open

\* A client that heard nothing for keepAliveInterval sends a PINGREQ, unless a
\* packet comes or it is no longer connected (MQTTClient.c:2007-2046).
SilenceIsPinged ==
  (pc = "idle" /\ pingDue) ~> (pc = "sendPing" \/ ~pingDue \/ client_state # "CONNECTED")

\* DISCONNECTED never lasts, however the publishers interfere: with Pending, a
\* failure is told unless it falls between an event and RECONNECTING.
FailureIsTold == client_state = "DISCONNECTED" ~> client_state # "DISCONNECTED"

\* MQTTClient.c:1655: the pings detect whether the network is connected.
DeadLinkNoticed == (pc = "idle" /\ ~linkUp) ~> (client_state # "CONNECTED")
=============================================================================
