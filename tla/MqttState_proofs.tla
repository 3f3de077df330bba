-------------------------- MODULE MqttState_proofs --------------------------
(***************************************************************************)
(* What the application of an MQTT client is told, and what a client holds *)
(* when it is over, for every set of publishers and every bound.           *)
(***************************************************************************)
EXTENDS MqttState, TLAPS

Live == Yielding \cup {"idle"}
LiveStates == {"CONNECTED", "DISCONNECTED", "RECONNECTING"}

\* The yielding thread is somewhere; the events are counted.
Places ==
  /\ pc \in Constructing \cup Yielding \cup Over \cup {"idle"}
  /\ failures \in Nat /\ disconnects \in Nat
  /\ ppc \in [Publishers -> {"idle", "send", "error"}]

\* The client is used between iot_mqtt_construct and iot_mqtt_deconstruct, and
\* nobody else is inside it before or after.
StateFitsPlace ==
  /\ client_state \in LiveStates <=> pc \in Live
  /\ pc \notin Live => \A p \in Publishers : ppc[p] = "idle"

\* Nobody but MC_keepalive itself takes the client out of DISCONNECTED.
Telling == pc \in {"tell", "setReconnecting"} => client_state = "DISCONNECTED"

\* Where the connection is open, and where closed
OpenFits ==
  /\ pc \in {"sendConnect", "wait"} => open
  /\ pc \in {"malloc", "connect", "release", "NULL", "noMemory", "setReconnecting"} => ~open
  /\ client_state = "CONNECTED" => open
  /\ client_state = "RECONNECTING" => ~open

\* What is left when the client is over
HeldFits ==
  /\ pc \in {"NULL", "gone"} => held = {}
  /\ pc = "noMemory" => held \subseteq {"locks", "lists"}

IInv ==
  Places /\ StateFitsPlace /\ Telling /\ OpenFits /\ HeldFits /\ ToldOnce /\ Pending

LEMMA InitIInv == Init => IInv
  BY DEF Init, IInv, Places, StateFitsPlace, Telling, OpenFits, HeldFits, ToldOnce, Pending,
         Live, LiveStates, Constructing, Yielding, Over

-----------------------------------------------------------------------------
LEMMA StepIInv == IInv /\ [Next]_vars => IInv'
<1> SUFFICES ASSUME IInv, [Next]_vars PROVE IInv'
  OBVIOUS
<1> USE DEF IInv, Places, StateFitsPlace, Telling, OpenFits, HeldFits, ToldOnce, Pending,
            Live, LiveStates, Constructing, Yielding, Over, Fail
<1>1. CASE Construct
  BY <1>1 DEF Construct, others, events
<1>2. CASE Connect
  BY <1>2 DEF Connect, others, events
<1>3. CASE SendConnect
  BY <1>3 DEF SendConnect, others, events
<1>4. CASE WaitConnack
  <2>1. /\ held' = held /\ ppc' = ppc /\ failures' = failures /\ disconnects' = disconnects
        /\ pc = "wait"
    BY <1>4 DEF WaitConnack, others, events
  <2>2. \/ client_state' = "CONNECTED" /\ pc' = "idle" /\ open' = open
        \/ client_state' = client_state /\ pc' = "release" /\ open' = FALSE
        \/ client_state' = client_state /\ pc' = "wait" /\ open' = open
    BY <1>4 DEF WaitConnack
  <2>3. QED
    BY <2>1, <2>2
<1>5. CASE Release
  BY <1>5 DEF Release, others, events
<1>6. CASE Deconstruct
  BY <1>6 DEF Deconstruct, others, events
<1>7. CASE Yield
  BY <1>7 DEF Yield, client, others, events
<1>8. CASE Cycle
  BY <1>8 DEF Cycle, others, events
<1>9. CASE ReadNothing
  BY <1>9 DEF ReadNothing, client, others, events
<1>10. CASE ReadPacket
  BY <1>10 DEF ReadPacket, others, events
<1>11. CASE ReadError
  BY <1>11 DEF ReadError, others
<1>12. CASE Lists
  BY <1>12 DEF Lists, others
<1>13. CASE Ping
  BY <1>13 DEF Ping, client, others, events
<1>14. CASE SendPing
  BY <1>14 DEF SendPing, others
<1>15. CASE Look
  BY <1>15 DEF Look, Again, others, events
<1>16. CASE Reconnect
  BY <1>16 DEF Reconnect, Again, others
<1>17. CASE Tell
  BY <1>17 DEF Tell, others
<1>18. CASE SetReconnecting
  BY <1>18 DEF SetReconnecting, Again, others, events
<1>19. ASSUME NEW p \in Publishers, Call(p) PROVE IInv'
  BY <1>19 DEF Call, client, events
<1>20. ASSUME NEW p \in Publishers, Send(p) PROVE IInv'
  BY <1>20 DEF Send, client, events
<1>21. ASSUME NEW p \in Publishers, SetDisconnected(p) PROVE IInv'
  BY <1>21 DEF SetDisconnected
<1>22. CASE Environment
  BY <1>22 DEF Environment, BrokerSends, LinkDies, PingExpires, ReconnectExpires,
               client, others, events
<1>23. CASE UNCHANGED vars
  BY <1>23 DEF vars, client, others, events
<1>24. QED
  BY <1>1, <1>2, <1>3, <1>4, <1>5, <1>6, <1>7, <1>8, <1>9, <1>10, <1>11, <1>12, <1>13,
     <1>14, <1>15, <1>16, <1>17, <1>18, <1>19, <1>20, <1>21, <1>22, <1>23
     DEF Next, YieldThread, Publisher

LEMMA Invariant == Spec => []IInv
<1>1. QED
  BY InitIInv, StepIInv, PTL DEF Spec

-----------------------------------------------------------------------------
\* The application is told of a disconnection at most once per failure, and no
\* write hides a failure that has not been told, for every number of publishers
\* that fail next to the thread that tells (MQTTClient.c:1398, 1679-1688).
THEOREM Told == Spec => []ToldExactly
<1>1. IInv => ToldExactly
  BY DEF IInv, ToldExactly
<1>2. QED
  BY <1>1, Invariant, PTL

\* The connection is open in CONNECTED and closed in RECONNECTING, and nothing
\* is left of a client that could not connect or is given up; of one for which the
\* memory did not suffice, at most locks and lists (MQTTClient.c:1546, 2051-2074).
THEOREM NothingIsLeft == Spec => []NothingLeft
<1>1. IInv => NothingLeft
  BY DEF IInv, OpenFits, HeldFits, NothingLeft
<1>2. QED
  BY <1>1, Invariant, PTL

-----------------------------------------------------------------------------
\* What a thread, the broker or the link may put into the inbox
LEMMA InboxTyped ==
  ASSUME inbox \in Seq(Packets)
  PROVE  /\ \A a \in Packets : Append(inbox, a) \in Seq(Packets)
         /\ inbox # <<>> => Tail(inbox) \in Seq(Packets)
BY DEF Packets

LEMMA TypeStep == TypeOK /\ [Next]_vars => TypeOK'
<1> SUFFICES ASSUME TypeOK, [Next]_vars PROVE TypeOK'
  OBVIOUS
<1> USE BoundAssumption DEF TypeOK, Constructing, Yielding, Over, States, Resources,
        Fail, Again
<1>1. /\ \A a \in {"CONNACK", "REFUSED", "PINGRESP", "PUBLISH", "INVALID", "CUT"} :
           Append(inbox, a) \in Seq(Packets)
      /\ inbox # <<>> => Tail(inbox) \in Seq(Packets)
  BY InboxTyped DEF Packets
<1>2. failures \in Nat /\ disconnects \in Nat
  OBVIOUS
<1>3. CASE Construct
  BY <1>3 DEF Construct, timers, others, broker, events
<1>4. CASE Connect
  BY <1>4 DEF Connect, timers, others, broker, events
<1>5. CASE SendConnect
  <2>1. inbox' \in Seq(Packets) /\ open' \in BOOLEAN
    BY <1>1, <1>5 DEF SendConnect
  <2>2. QED
    BY <1>5, <2>1 DEF SendConnect, timers, others, events
<1>6. CASE WaitConnack
  <2>1. inbox' \in Seq(Packets)
    BY <1>1, <1>6 DEF WaitConnack
  <2>2. open' \in BOOLEAN /\ pingDue' \in BOOLEAN /\ client_state' \in States
    BY <1>6 DEF WaitConnack
  <2>3. pc' \in {"wait", "idle", "release"}
    BY <1>6 DEF WaitConnack
  <2>4. UNCHANGED <<currentState, rcSuccess, ssl, held, ping_mark, reconnectDue, others,
                    linkUp, sent, events>>
    BY <1>6 DEF WaitConnack
  <2>5. QED
    BY <2>1, <2>2, <2>3, <2>4 DEF others, events
<1>7. CASE Release \/ Deconstruct
  BY <1>7 DEF Release, Deconstruct, timers, others, broker, events
<1>8. CASE Yield \/ Cycle \/ ReadNothing
  BY <1>8 DEF Yield, Cycle, ReadNothing, client, timers, others, broker, events
<1>9. CASE ReadPacket
  BY <1>1, <1>9 DEF ReadPacket, others, events
<1>10. CASE ReadError
  <2>1. inbox' \in Seq(Packets)
    BY <1>1, <1>10 DEF ReadError
  <2>2. client_state' = "DISCONNECTED" /\ failures' \in Nat /\ rcSuccess' = FALSE
    BY <1>2, <1>10 DEF ReadError
  <2>3. QED
    BY <1>10, <2>1, <2>2 DEF ReadError, timers, others
<1>11. CASE Lists
  BY <1>11 DEF Lists, timers, others, broker
<1>12. CASE Ping
  BY <1>12 DEF Ping, client, others, broker, events
<1>13. CASE SendPing
  <2>1. inbox' \in Seq(Packets)
    BY <1>1, <1>13 DEF SendPing
  <2>2. client_state' \in States /\ failures' \in Nat
    BY <1>13 DEF SendPing
  <2>3. ping_mark' \in BOOLEAN
    BY <1>13 DEF SendPing
  <2>4. QED
    BY <1>13, <2>1, <2>2, <2>3 DEF SendPing, timers, others
<1>14. CASE Look
  BY <1>14 DEF Look, timers, others, broker, events
<1>15. CASE Reconnect
  <2>1. reconnects' \in 0 .. MaxEvents
    BY <1>15 DEF Reconnect
  <2>2. QED
    BY <1>15, <2>1 DEF Reconnect, timers, others, broker
<1>16. CASE Tell
  <2>1. disconnects' = disconnects + 1 /\ reconnectDue' = FALSE /\ open' = FALSE
    BY <1>16 DEF Tell
  <2>2. pc' = "setReconnecting" /\ disconnects' \in Nat
    BY <1>2, <1>16, <2>1 DEF Tell
  <2>3. UNCHANGED <<client_state, currentState, rcSuccess, ssl, held, ping_mark, pingDue,
                    ppc, calls, linkUp, inbox, sent, failures, reconnects>>
    BY <1>16 DEF Tell, others, broker
  <2>4. QED
    BY <2>1, <2>2, <2>3
<1>17. CASE SetReconnecting
  BY <1>17 DEF SetReconnecting, timers, others, broker, events
<1>18. ASSUME NEW p \in Publishers, Publisher(p) PROVE TypeOK'
  <2>1. CASE Call(p)
    BY <2>1 DEF Call, client, timers, broker, events
  <2>2. CASE Send(p)
    BY <2>2 DEF Send, client, timers, broker, events
  <2>3. CASE SetDisconnected(p)
    BY <2>3 DEF SetDisconnected, timers, broker
  <2>4. QED
    BY <1>18, <2>1, <2>2, <2>3 DEF Publisher
<1>19. CASE BrokerSends
  BY <1>1, <1>19 DEF BrokerSends, client, timers, others, events
<1>20. CASE LinkDies \/ PingExpires \/ ReconnectExpires
  BY <1>20 DEF LinkDies, PingExpires, ReconnectExpires, client, timers, others, broker,
               events
<1>21. CASE UNCHANGED vars
  BY <1>21 DEF vars, client, timers, others, broker, events
<1>22. QED
  BY <1>3, <1>4, <1>5, <1>6, <1>7, <1>8, <1>9, <1>10, <1>11, <1>12, <1>13, <1>14,
     <1>15, <1>16, <1>17, <1>18, <1>19, <1>20, <1>21
     DEF Next, YieldThread, Environment

\* Places, states, flags and the packets on their way keep their types.
THEOREM TypeCorrect == Spec => []TypeOK
<1>1. Init => TypeOK
  <2> SUFFICES ASSUME Init PROVE TypeOK
    OBVIOUS
  <2>1. inbox \in Seq(Packets)
    BY DEF Init
  <2>2. /\ ppc \in [Publishers -> {"idle", "send", "error"}]
        /\ calls \in [Publishers -> 0 .. MaxCalls]
    BY BoundAssumption DEF Init
  <2>3. sent \in 0 .. MaxPackets /\ reconnects \in 0 .. MaxEvents
    BY BoundAssumption DEF Init
  <2>4. {rcSuccess, ssl, open, ping_mark, linkUp, pingDue, reconnectDue} \subseteq BOOLEAN
    BY DEF Init
  <2>5. QED
    BY <2>1, <2>2, <2>3, <2>4 DEF Init, TypeOK, Constructing, States, Resources
<1>2. QED
  BY <1>1, TypeStep, PTL DEF Spec
=============================================================================
