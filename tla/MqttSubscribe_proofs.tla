------------------------ MODULE MqttSubscribe_proofs ------------------------
(***************************************************************************)
(* Theorems about MqttSubscribe for all filters and functions, sizes of    *)
(* the table and of the list, and numbers of requests: results, table, and *)
(* what becomes of a request.                                              *)
(***************************************************************************)
EXTENDS MqttSubscribe, FiniteSetTheorems, WellFoundedInduction, TLAPS

OfAsked(r) ==
  /\ r.msg_id <= packet_id
  /\ r.type = asked[r.msg_id].type /\ r.handler = asked[r.msg_id].handler

\* The n-th request has id n; what is on its way belongs to a request.
Books ==
  /\ Len(asked) = packet_id
  /\ \A r \in list_sub_wait_ack : OfAsked(r)
  /\ \A r, q \in list_sub_wait_ack : r.msg_id = q.msg_id => r = q
  /\ \A i \in 1 .. Len(toBroker) : OfAsked(toBroker[i])
  /\ \A i \in 1 .. Len(toClient) :
       /\ toClient[i].msg_id <= packet_id
       /\ toClient[i].type = "SUBACK" <=> asked[toClient[i].msg_id].type = "SUBSCRIBE"

\* What the application was told of a request, and what is left of it
Results ==
  /\ \A e \in events : e[1] <= packet_id
  /\ \A id \in answered : id <= packet_id
  /\ \A id \in Ids : <<id, "SUBCRIBE_SUCCESS">> \in events =>
       /\ asked[id].type = "SUBSCRIBE"
       /\ \A r \in list_sub_wait_ack : r.msg_id = id => ~r.valid
  /\ \A id \in Ids : <<id, "SUBCRIBE_TIMEOUT">> \in events =>
       \A r \in list_sub_wait_ack : r.msg_id # id

IInv == TypeOK /\ Books /\ Results /\ SuccessXorTimeout /\ AnsweredLeaves
          /\ NoDuplicateHandler /\ Installed

LEMMA InitIInv == Init => IInv
<1> SUFFICES ASSUME Init PROVE IInv
  OBVIOUS
<1>1. TypeOK
  <2>1. IsFiniteSet(list_sub_wait_ack) /\ Cardinality(list_sub_wait_ack) <= MC_SUB_REQUEST_NUM_MAX
    BY FS_EmptySet, SizeAssumption DEF Init, SizeAssumption
  <2>2. connected \in BOOLEAN /\ skip \in BOOLEAN /\ dead \in {"no", "fault", "hung"} /\ late \in BOOLEAN
    BY DEF Init
  <2>3. packet_id \in 0 .. MaxRequests
    BY SizeAssumption DEF Init, SizeAssumption
  <2>4. events \subseteq Ids \X Events /\ answered \subseteq Ids /\ list_sub_wait_ack \subseteq Requests
    BY DEF Init
  <2>5. toBroker \in Seq(Requests) /\ asked \in Seq(Requests) /\ toClient \in Seq(Acks)
    BY DEF Init
  <2>6. sub_handle \in [Slots -> Handlers \cup {NoHandler}]
    BY DEF Init
  <2> QED
    BY <2>1, <2>2, <2>3, <2>4, <2>5, <2>6, Zenon DEF TypeOK
<1>2. Books /\ Results /\ SuccessXorTimeout /\ AnsweredLeaves
  BY DEF Init, Books, Results, SuccessXorTimeout, AnsweredLeaves
<1>3. NoDuplicateHandler /\ Installed
  BY DEF Init, NoDuplicateHandler, Installed
<1> QED
  BY <1>1, <1>2, <1>3 DEF IInv

\* A set of fewer than m elements has room for one more.
LEMMA AddOne ==
  ASSUME NEW S, NEW x, NEW m \in Nat, IsFiniteSet(S), Cardinality(S) < m
  PROVE  IsFiniteSet(S \cup {x}) /\ Cardinality(S \cup {x}) <= m
<1>1. IsFiniteSet(S \cup {x})
      /\ Cardinality(S \cup {x}) = IF x \in S THEN Cardinality(S) ELSE Cardinality(S) + 1
  BY FS_AddElement
<1>2. Cardinality(S) \in Nat
  BY FS_CardinalityType
<1> QED
  BY <1>1, <1>2

\* A request is added to the books or refused.
LEMMA RequestKeeps ==
  ASSUME IInv, NEW r \in Requests, r.msg_id = packet_id + 1, r.valid, Request(r)
  PROVE  IInv'
<1>1. /\ packet_id \in Nat /\ packet_id + 1 \in Ids /\ r.valid
      /\ packet_id' = packet_id + 1 /\ asked' = Append(asked, r)
  BY SizeAssumption DEF IInv, Request, TypeOK, Ids, SizeAssumption
<1>2. asked \in Seq(Requests) /\ Len(asked) = packet_id
  BY DEF IInv, TypeOK, Books
<1>3. asked' \in Seq(Requests) /\ Len(asked') = packet_id' /\ asked'[packet_id + 1] = r
      /\ \A n \in 1 .. packet_id : asked'[n] = asked[n]
  BY <1>1, <1>2
<1>4. list_sub_wait_ack' = list_sub_wait_ack \/ (HasRoom /\ list_sub_wait_ack' = list_sub_wait_ack \cup {r})
  BY DEF Request
<1>5. toBroker' = toBroker \/ toBroker' = Append(toBroker, r)
  BY DEF Request
<1>6. UNCHANGED <<sub_handle, skip, dead, toClient, events, answered, late>>
  BY DEF Request
<1>7. toBroker \in Seq(Requests) /\ toClient \in Seq(Acks) /\ list_sub_wait_ack \subseteq Requests
      /\ events \subseteq Ids \X Events /\ answered \subseteq Ids
  BY DEF IInv, TypeOK
<1>8. TypeOK'
  <2>1. IsFiniteSet(list_sub_wait_ack') /\ Cardinality(list_sub_wait_ack') <= MC_SUB_REQUEST_NUM_MAX
    <3>1. IsFiniteSet(list_sub_wait_ack) /\ Cardinality(list_sub_wait_ack) <= MC_SUB_REQUEST_NUM_MAX
      BY DEF IInv, TypeOK
    <3>4. CASE list_sub_wait_ack' = list_sub_wait_ack
      BY <3>1, <3>4
    <3>5. CASE HasRoom /\ list_sub_wait_ack' = list_sub_wait_ack \cup {r}
      <4>1. Cardinality(list_sub_wait_ack) < MC_SUB_REQUEST_NUM_MAX
        BY <3>5 DEF HasRoom
      <4> QED
        BY <3>1, <3>5, <4>1, AddOne, SizeAssumption DEF SizeAssumption
    <3> QED
      BY <1>4, <3>4, <3>5
  <2>2. connected' \in BOOLEAN /\ skip' \in BOOLEAN /\ dead' \in {"no", "fault", "hung"} /\ late' \in BOOLEAN
    BY <1>6 DEF IInv, TypeOK, Request
  <2>3. packet_id' \in 0 .. MaxRequests
    BY <1>1, SizeAssumption DEF Ids, SizeAssumption
  <2>4. events' \subseteq Ids \X Events /\ answered' \subseteq Ids /\ list_sub_wait_ack' \subseteq Requests
    BY <1>4, <1>6, <1>7
  <2>5. toBroker' \in Seq(Requests) /\ asked' \in Seq(Requests) /\ toClient' \in Seq(Acks)
    BY <1>3, <1>5, <1>6, <1>7, SMTT(30)
  <2>6. sub_handle' \in [Slots -> Handlers \cup {NoHandler}]
    BY <1>6 DEF IInv, TypeOK
  <2> QED
    BY <2>1, <2>2, <2>3, <2>4, <2>5, <2>6, Zenon DEF TypeOK
<1>9. \A q \in Requests : q.msg_id \in Nat \ {0}
  BY DEF Requests, Ids
<1>10. OfAsked(r)'
  BY <1>1, <1>3 DEF OfAsked
<1>11. \A q \in Requests : OfAsked(q) => OfAsked(q)' /\ q.msg_id # r.msg_id
  BY <1>1, <1>3, <1>9 DEF OfAsked
<1>12. Books'
  <2>1. /\ \A q \in list_sub_wait_ack : OfAsked(q)
        /\ \A q, p \in list_sub_wait_ack : q.msg_id = p.msg_id => q = p
        /\ \A i \in 1 .. Len(toBroker) : OfAsked(toBroker[i])
        /\ \A i \in 1 .. Len(toClient) :
             /\ toClient[i].msg_id <= packet_id
             /\ toClient[i].type = "SUBACK" <=> asked[toClient[i].msg_id].type = "SUBSCRIBE"
    BY DEF IInv, Books
  <2>2. \A q \in list_sub_wait_ack' : OfAsked(q)'
    BY <2>1, <1>4, <1>7, <1>10, <1>11
  <2>3. \A q, p \in list_sub_wait_ack' : q.msg_id = p.msg_id => q = p
    BY <2>1, <1>4, <1>7, <1>11
  <2>4. \A i \in 1 .. Len(toBroker') : OfAsked(toBroker[i])'
    <3> SUFFICES ASSUME NEW i \in 1 .. Len(toBroker') PROVE OfAsked(toBroker[i])'
      OBVIOUS
    <3>1. toBroker'[i] = r \/ (i \in 1 .. Len(toBroker) /\ toBroker'[i] = toBroker[i])
      BY <1>5, <1>7
    <3>2. i \in 1 .. Len(toBroker) => toBroker[i] \in Requests
      BY <1>7
    <3> QED
      BY <2>1, <3>1, <3>2, <1>10, <1>11
  <2>5. \A i \in 1 .. Len(toClient) : toClient[i].msg_id \in 1 .. packet_id
    <3>1. \A i \in 1 .. Len(toClient) : toClient[i].msg_id \in Ids
      <4>1. \A a \in Acks : a.msg_id \in Ids
        BY DEF Acks
      <4> QED
        BY <1>7, <4>1
    <3> QED
      BY <2>1, <3>1, <1>1 DEF Ids
  <2>6. \A i \in 1 .. Len(toClient') :
          /\ toClient'[i].msg_id <= packet_id'
          /\ toClient'[i].type = "SUBACK" <=> asked'[toClient'[i].msg_id].type = "SUBSCRIBE"
    BY <1>1, <1>3, <1>6, <2>1, <2>5
  <2> QED
    BY <1>3, <2>2, <2>3, <2>4, <2>6 DEF Books
<1>13. \A id \in Ids, x \in Events : <<id, x>> \in events => id \in 1 .. packet_id
  BY <1>1 DEF IInv, Results, Ids
<1>14. Results'
  <2>1. \A e \in events' : e[1] <= packet_id'
    BY <1>1, <1>6, <1>7 DEF IInv, Results, Ids
  <2>2. \A id \in answered' : id <= packet_id'
    BY <1>1, <1>6, <1>7 DEF IInv, Results, Ids
  <2>3. \A id \in Ids : <<id, "SUBCRIBE_SUCCESS">> \in events' =>
          /\ asked'[id].type = "SUBSCRIBE"
          /\ \A q \in list_sub_wait_ack' : q.msg_id = id => ~q.valid
    <3> SUFFICES ASSUME NEW id \in Ids, <<id, "SUBCRIBE_SUCCESS">> \in events
                 PROVE  /\ asked'[id].type = "SUBSCRIBE"
                        /\ \A q \in list_sub_wait_ack' : q.msg_id = id => ~q.valid
      BY <1>6
    <3>1. id \in 1 .. packet_id
      BY <1>13 DEF Events
    <3>2. asked[id].type = "SUBSCRIBE" /\ \A q \in list_sub_wait_ack : q.msg_id = id => ~q.valid
      BY DEF IInv, Results
    <3> QED
      BY <1>1, <1>3, <1>4, <3>1, <3>2
  <2>4. \A id \in Ids : <<id, "SUBCRIBE_TIMEOUT">> \in events' =>
          \A q \in list_sub_wait_ack' : q.msg_id # id
    BY <1>1, <1>4, <1>6, <1>13 DEF IInv, Results, Events
  <2> QED
    BY <2>1, <2>2, <2>3, <2>4 DEF Results
<1>15. SuccessXorTimeout' /\ NoDuplicateHandler'
  BY <1>6 DEF IInv, SuccessXorTimeout, NoDuplicateHandler
<1>16. AnsweredLeaves'
  <2>1. packet_id + 1 \notin answered
    BY <1>1 DEF IInv, Results
  <2> QED
    BY <2>1, <1>4, <1>6 DEF IInv, AnsweredLeaves
<1>17. Installed'
  BY <1>3, <1>6, <1>13 DEF IInv, Installed, Events
<1> QED
  BY <1>8, <1>12, <1>14, <1>15, <1>16, <1>17 DEF IInv

\* What MC_mask_subInfo_from leaves of the list
LEMMA Masks ==
  ASSUME IInv, NEW id, Mask(id)
  PROVE  /\ list_sub_wait_ack' \subseteq Requests /\ IsFiniteSet(list_sub_wait_ack')
         /\ Cardinality(list_sub_wait_ack') <= MC_SUB_REQUEST_NUM_MAX
         /\ \A q \in list_sub_wait_ack' :
              /\ OfAsked(q)
              /\ q.valid => q \in list_sub_wait_ack /\ q.msg_id # id
              /\ \E p \in list_sub_wait_ack : p.msg_id = q.msg_id
         /\ \A q, p \in list_sub_wait_ack' : q.msg_id = p.msg_id => q = p
<1> DEFINE L == list_sub_wait_ack
           f == [r \in L |-> [r EXCEPT !.valid = r.valid /\ r.msg_id # id]]
<1>1. L \subseteq Requests /\ IsFiniteSet(L) /\ Cardinality(L) <= MC_SUB_REQUEST_NUM_MAX
  BY DEF IInv, TypeOK
<1>2. L' = {f[r] : r \in L}
  BY DEF Mask
<1>3. \A r \in L : /\ f[r] \in Requests /\ f[r].msg_id = r.msg_id /\ f[r].type = r.type
                   /\ f[r].handler = r.handler /\ (f[r].valid => f[r] = r /\ r.msg_id # id)
  BY <1>1 DEF Requests
<1>4. IsFiniteSet(L') /\ Cardinality(L') <= Cardinality(L)
  <2>1. f \in Surjection(L, L')
    BY <1>2 DEF Surjection
  <2> QED
    BY <2>1, <1>1, FS_Surjection
<1>5. Cardinality(L') <= MC_SUB_REQUEST_NUM_MAX
  BY <1>1, <1>4, FS_CardinalityType, SizeAssumption DEF SizeAssumption
<1>6. \A r \in L : OfAsked(r)
  BY DEF IInv, Books
<1>7. \A q, p \in L : q.msg_id = p.msg_id => q = p
  BY DEF IInv, Books
<1> HIDE DEF f
<1>8. \A q \in L' : OfAsked(q)
  BY <1>2, <1>3, <1>6 DEF OfAsked
<1> QED
  BY <1>2, <1>3, <1>4, <1>5, <1>7, <1>8

\* What a packet is about: the id of a request of its kind
LEMMA Packet ==
  ASSUME IInv, NEW type, Receives(type)
  PROVE  /\ toClient' \in Seq(Acks)
         /\ \A i \in 1 .. Len(toClient') : \E j \in 1 .. Len(toClient) : toClient'[i] = toClient[j]
         /\ Head(toClient).msg_id \in Ids /\ Head(toClient).msg_id <= packet_id
         /\ type = "SUBACK" <=> asked[Head(toClient).msg_id].type = "SUBSCRIBE"
<1>1. toClient \in Seq(Acks) /\ toClient # <<>> /\ toClient' = Tail(toClient) /\ Head(toClient).type = type
  BY DEF IInv, TypeOK, Receives
<1>2. 1 \in 1 .. Len(toClient) /\ Head(toClient) = toClient[1] /\ Head(toClient) \in Acks
  BY <1>1
<1>3. Head(toClient).msg_id \in Ids
  BY <1>2 DEF Acks
<1>4. /\ toClient[1].msg_id <= packet_id
      /\ toClient[1].type = "SUBACK" <=> asked[toClient[1].msg_id].type = "SUBSCRIBE"
  BY <1>2 DEF IInv, Books
<1>5. toClient' \in Seq(Acks) /\ Len(toClient') = Len(toClient) - 1
      /\ \A i \in 1 .. Len(toClient') : toClient'[i] = toClient[i + 1]
  BY <1>1
<1>6. \A i \in 1 .. Len(toClient') : i + 1 \in 1 .. Len(toClient)
  BY <1>1, <1>5
<1> QED
  BY <1>1, <1>2, <1>3, <1>4, <1>5, <1>6

\* The books are right after a step that makes no request.
LEMMA BooksKept ==
  ASSUME IInv, UNCHANGED <<packet_id, asked>>,
         \A q \in list_sub_wait_ack' : OfAsked(q),
         \A q, p \in list_sub_wait_ack' : q.msg_id = p.msg_id => q = p,
         \A i \in 1 .. Len(toBroker') : \E j \in 1 .. Len(toBroker) : toBroker'[i] = toBroker[j],
         \A i \in 1 .. Len(toClient') :
           \/ \E j \in 1 .. Len(toClient) : toClient'[i] = toClient[j]
           \/ /\ toClient'[i].msg_id <= packet_id
              /\ toClient'[i].type = "SUBACK" <=> asked[toClient'[i].msg_id].type = "SUBSCRIBE"
  PROVE  Books'
<1>1. /\ Len(asked) = packet_id
      /\ \A i \in 1 .. Len(toBroker) : OfAsked(toBroker[i])
      /\ \A i \in 1 .. Len(toClient) :
           /\ toClient[i].msg_id <= packet_id
           /\ toClient[i].type = "SUBACK" <=> asked[toClient[i].msg_id].type = "SUBSCRIBE"
  BY DEF IInv, Books
<1>2. \A q : OfAsked(q)' <=> q.msg_id <= packet_id /\ q.type = asked[q.msg_id].type /\ q.handler = asked[q.msg_id].handler
  BY DEF OfAsked
<1>3. \A i \in 1 .. Len(toBroker') : OfAsked(toBroker[i])'
  BY <1>1, SMTT(30) DEF OfAsked
<1>4. \A q \in list_sub_wait_ack' : OfAsked(q)'
  BY DEF OfAsked
<1>5. \A i \in 1 .. Len(toClient') :
        /\ toClient'[i].msg_id <= packet_id'
        /\ toClient'[i].type = "SUBACK" <=> asked'[toClient'[i].msg_id].type = "SUBSCRIBE"
  BY <1>1
<1> QED
  BY <1>1, <1>3, <1>4, <1>5 DEF Books

\* Types and books after any packet
LEMMA Received ==
  ASSUME IInv, NEW type, Receives(type), NEW e \in Events,
         Mask(Head(toClient).msg_id) \/ UNCHANGED list_sub_wait_ack,
         sub_handle' \in [Slots -> Handlers \cup {NoHandler}],
         skip' \in BOOLEAN, late' \in BOOLEAN, dead' \in {"no", "fault", "hung"},
         events' = events \/ events' = events \cup {<<Head(toClient).msg_id, e>>}
  PROVE  TypeOK' /\ Books'
<1>1. UNCHANGED <<connected, packet_id, toBroker, asked>>
      /\ answered' = answered \cup {Head(toClient).msg_id}
  BY DEF Receives
<1>2. /\ list_sub_wait_ack' \subseteq Requests /\ IsFiniteSet(list_sub_wait_ack')
      /\ Cardinality(list_sub_wait_ack') <= MC_SUB_REQUEST_NUM_MAX
      /\ \A q \in list_sub_wait_ack' : OfAsked(q)
      /\ \A q, p \in list_sub_wait_ack' : q.msg_id = p.msg_id => q = p
  <2>1. CASE Mask(Head(toClient).msg_id)
    BY <2>1, Masks
  <2>2. CASE UNCHANGED list_sub_wait_ack
    BY <2>2 DEF IInv, TypeOK, Books
  <2> QED
    BY <2>1, <2>2
<1>3. Books'
  BY <1>1, <1>2, Packet, BooksKept
<1>4. TypeOK'
  <2>1. Head(toClient).msg_id \in Ids /\ toClient' \in Seq(Acks)
    BY Packet
  <2>2. connected' \in BOOLEAN /\ packet_id' \in 0 .. MaxRequests
    BY <1>1 DEF IInv, TypeOK
  <2>3. toBroker' \in Seq(Requests) /\ asked' \in Seq(Requests)
    BY <1>1 DEF IInv, TypeOK
  <2>4. events \subseteq Ids \X Events /\ answered \subseteq Ids
    BY DEF IInv, TypeOK
  <2>5. events' \subseteq Ids \X Events /\ answered' \subseteq Ids
    BY <1>1, <2>1, <2>4
  <2> QED
    BY <1>2, <2>1, <2>2, <2>3, <2>5, Zenon DEF TypeOK
<1> QED
  BY <1>3, <1>4

\* Results are right after a step that reports neither a success nor a time-out.
LEMMA ResultsKept ==
  ASSUME IInv, UNCHANGED <<packet_id, asked>>,
         NEW id \in Ids, id <= packet_id, NEW e \in Events \ {"SUBCRIBE_SUCCESS", "SUBCRIBE_TIMEOUT"},
         answered' \subseteq answered \cup {id}, events' \subseteq events \cup {<<id, e>>},
         \A q \in list_sub_wait_ack' :
           (q.valid => q \in list_sub_wait_ack) /\ \E p \in list_sub_wait_ack : p.msg_id = q.msg_id
  PROVE  Results' /\ SuccessXorTimeout'
<1>1. \A x \in Ids : \A y \in {"SUBCRIBE_SUCCESS", "SUBCRIBE_TIMEOUT"} :
        <<x, y>> \in events' => <<x, y>> \in events
  OBVIOUS
<1>2. \A x \in events' : x[1] <= packet_id'
  BY DEF IInv, Results
<1>3. \A x \in answered' : x <= packet_id'
  BY DEF IInv, Results
<1>4. \A x \in Ids : <<x, "SUBCRIBE_SUCCESS">> \in events' =>
        /\ asked'[x].type = "SUBSCRIBE"
        /\ \A r \in list_sub_wait_ack' : r.msg_id = x => ~r.valid
  BY <1>1 DEF IInv, Results
<1>5. \A x \in Ids : <<x, "SUBCRIBE_TIMEOUT">> \in events' =>
        \A r \in list_sub_wait_ack' : r.msg_id # x
  BY <1>1 DEF IInv, Results
<1>6. SuccessXorTimeout'
  BY <1>1 DEF IInv, SuccessXorTimeout
<1> QED
  BY <1>2, <1>3, <1>4, <1>5, <1>6 DEF Results

\* Nothing but the connection, the yield's progress or the broker moves.
LEMMA QuietKeeps ==
  ASSUME IInv, UNCHANGED <<packet_id, asked, list_sub_wait_ack, sub_handle, events, answered, late>>
  PROVE  Results' /\ SuccessXorTimeout' /\ AnsweredLeaves' /\ NoDuplicateHandler' /\ Installed'
<1>1. Results'
  BY DEF IInv, Results
<1>2. SuccessXorTimeout' /\ AnsweredLeaves'
  BY DEF IInv, SuccessXorTimeout, AnsweredLeaves
<1>3. NoDuplicateHandler' /\ Installed'
  BY DEF IInv, NoDuplicateHandler, Installed
<1> QED
  BY <1>1, <1>2, <1>3

LEMMA NackKeeps == ASSUME IInv, RecvNack PROVE IInv'
<1> DEFINE id == Head(toClient).msg_id
<1>1. /\ Receives("SUBACK") /\ UNCHANGED <<list_sub_wait_ack, sub_handle, dead, late>> /\ skip' = TRUE
      /\ events' = events \cup {<<id, "SUBCRIBE_NACK">>}
  BY DEF RecvNack, Event
<1>2. UNCHANGED <<packet_id, asked>> /\ answered' = answered \cup {id}
  BY <1>1 DEF Receives
<1>3. id \in Ids /\ id <= packet_id
  BY <1>1, Packet
<1>4. "SUBCRIBE_NACK" \in Events \ {"SUBCRIBE_SUCCESS", "SUBCRIBE_TIMEOUT"}
  BY DEF Events
<1>5. /\ sub_handle \in [Slots -> Handlers \cup {NoHandler}] /\ late \in BOOLEAN
      /\ dead \in {"no", "fault", "hung"}
  BY DEF IInv, TypeOK
<1> HIDE DEF id
<1>6. TypeOK' /\ Books'
  <2>1. /\ sub_handle' \in [Slots -> Handlers \cup {NoHandler}] /\ skip' \in BOOLEAN
        /\ late' \in BOOLEAN /\ dead' \in {"no", "fault", "hung"}
    BY <1>1, <1>5
  <2> QED
    BY <1>1, <1>4, <2>1, Received DEF id
<1>7. Results' /\ SuccessXorTimeout'
  BY <1>1, <1>2, <1>3, <1>4, ResultsKept
<1>8. AnsweredLeaves'
  BY <1>1, <1>2 DEF IInv, AnsweredLeaves
<1>9. NoDuplicateHandler'
  BY <1>1 DEF IInv, NoDuplicateHandler
<1>10. Installed'
  BY <1>1, <1>2 DEF IInv, Installed
<1> QED
  BY <1>6, <1>7, <1>8, <1>9, <1>10 DEF IInv

LEMMA SubackUnknownKeeps == ASSUME IInv, RecvSubackUnknown PROVE IInv'
<1> DEFINE id == Head(toClient).msg_id
<1>1. /\ Receives("SUBACK") /\ UNCHANGED <<list_sub_wait_ack, sub_handle, dead, events, late>>
      /\ skip' = TRUE /\ \A r \in list_sub_wait_ack : r.msg_id # id
  BY DEF RecvSubackUnknown, Masked
<1>2. UNCHANGED <<packet_id, asked>> /\ answered' = answered \cup {id}
  BY <1>1 DEF Receives
<1>3. id \in Ids /\ id <= packet_id
  BY <1>1, Packet
<1>4. "SUBCRIBE_NACK" \in Events \ {"SUBCRIBE_SUCCESS", "SUBCRIBE_TIMEOUT"}
  BY DEF Events
<1>5. /\ sub_handle \in [Slots -> Handlers \cup {NoHandler}] /\ late \in BOOLEAN
      /\ dead \in {"no", "fault", "hung"}
  BY DEF IInv, TypeOK
<1> HIDE DEF id
<1>6. TypeOK' /\ Books'
  <2>1. /\ sub_handle' \in [Slots -> Handlers \cup {NoHandler}] /\ skip' \in BOOLEAN
        /\ late' \in BOOLEAN /\ dead' \in {"no", "fault", "hung"}
    BY <1>1, <1>5
  <2> QED
    BY <1>1, <1>4, <2>1, Received DEF id
<1>7. Results' /\ SuccessXorTimeout'
  BY <1>1, <1>2, <1>3, <1>4, ResultsKept
<1>8. AnsweredLeaves'
  BY <1>1, <1>2 DEF IInv, AnsweredLeaves
<1>9. NoDuplicateHandler'
  BY <1>1 DEF IInv, NoDuplicateHandler
<1>10. Installed'
  BY <1>1, <1>2 DEF IInv, Installed
<1> QED
  BY <1>6, <1>7, <1>8, <1>9, <1>10 DEF IInv

\* The first free slot is one of the table's, and free.
LEMMA FirstFreeIsFree == ASSUME FreeSlots # {} PROVE FirstFree \in FreeSlots /\ FirstFree \in Slots
<1>1. FreeSlots \subseteq Nat /\ FreeSlots \subseteq Slots
  BY SizeAssumption DEF FreeSlots, Slots, SizeAssumption
<1> DEFINE R == OpToRel(<, Nat)
<1>2. \A x, y \in Nat : y < x => <<y, x>> \in R
  <2> SUFFICES ASSUME NEW x \in Nat, NEW y \in Nat, y < x
               PROVE  <<y, x>> \in {ss \in Nat \X Nat : ss[1] < ss[2]}
    BY DEF OpToRel
  <2> QED
    OBVIOUS
<1>3. IsWellFoundedOn(R, Nat)
  BY NatLessThanWellFounded
<1> HIDE DEF R
<1>4. PICK x \in FreeSlots : \A y \in FreeSlots : ~(<<y, x>> \in R)
  BY <1>1, <1>3, WFMin
<1>5. \A y \in FreeSlots : x <= y
  <2> SUFFICES ASSUME NEW y \in FreeSlots PROVE x <= y
    OBVIOUS
  <2>1. x \in Nat /\ y \in Nat
    BY <1>1
  <2>2. ~(y < x)
    BY <1>2, <1>4, <2>1
  <2> QED
    BY <2>1, <2>2
<1> QED
  BY <1>1, <1>5 DEF FirstFree

\* A subscription is granted: only here a handler is installed.
LEMMA SubackKeeps == ASSUME IInv, RecvSuback PROVE IInv'
<1> DEFINE id == Head(toClient).msg_id
<1>1. Receives("SUBACK") /\ Mask(id) /\ UNCHANGED <<dead, late>>
  BY DEF RecvSuback
<1>2. PICK r \in Masked(id) :
        \/ /\ Known(r.handler)
           /\ skip' = FALSE
           /\ UNCHANGED <<sub_handle, events>>
        \/ /\ ~Known(r.handler)
           /\ FreeSlots # {}
           /\ sub_handle' = [sub_handle EXCEPT ![FirstFree] = r.handler]
           /\ events' = events \cup {<<r.msg_id, "SUBCRIBE_SUCCESS">>}
           /\ skip' = FALSE
        \/ /\ ~Known(r.handler)
           /\ FreeSlots = {}
           /\ skip' = TRUE
           /\ UNCHANGED <<sub_handle, events>>
  BY DEF RecvSuback, Event
<1>3. UNCHANGED <<packet_id, asked>> /\ answered' = answered \cup {id}
  BY <1>1 DEF Receives
<1>4. id \in Ids /\ id <= packet_id /\ asked[id].type = "SUBSCRIBE"
  BY <1>1, Packet
<1>5. /\ sub_handle \in [Slots -> Handlers \cup {NoHandler}] /\ late \in BOOLEAN
      /\ dead \in {"no", "fault", "hung"} /\ list_sub_wait_ack \subseteq Requests
  BY DEF IInv, TypeOK
<1>6. /\ \A q \in list_sub_wait_ack' :
           /\ q.valid => q \in list_sub_wait_ack /\ q.msg_id # id
           /\ \E p \in list_sub_wait_ack : p.msg_id = q.msg_id
  BY <1>1, Masks
<1> HIDE DEF id
<1>7. r \in list_sub_wait_ack /\ r.msg_id = id
  BY DEF Masked
<1>8. OfAsked(r)
  BY <1>7 DEF IInv, Books
<1>9. r.type = "SUBSCRIBE" /\ r.handler = asked[id].handler
  BY <1>4, <1>7, <1>8 DEF OfAsked
<1>10. r.handler \in Handlers
  BY <1>5, <1>7, <1>9 DEF Requests
<1>11. {"SUBCRIBE_NACK", "SUBCRIBE_SUCCESS"} \subseteq Events
  BY DEF Events
<1>12. AnsweredLeaves'
  <2>1. events \subseteq events'
    BY <1>2
  <2> QED
    BY <2>1, <1>3, <1>6 DEF IInv, AnsweredLeaves
<1>13. CASE UNCHANGED <<sub_handle, events>> /\ skip' \in BOOLEAN
  <2>1. /\ sub_handle' \in [Slots -> Handlers \cup {NoHandler}] /\ skip' \in BOOLEAN
        /\ late' \in BOOLEAN /\ dead' \in {"no", "fault", "hung"}
    BY <1>1, <1>5, <1>13
  <2>2. TypeOK' /\ Books'
    BY <1>1, <1>11, <1>13, <2>1, Received DEF id
  <2>3. "SUBCRIBE_NACK" \in Events \ {"SUBCRIBE_SUCCESS", "SUBCRIBE_TIMEOUT"}
    BY <1>11
  <2>4. Results' /\ SuccessXorTimeout'
    BY <1>3, <1>4, <1>6, <1>13, <2>3, ResultsKept
  <2>5. NoDuplicateHandler'
    BY <1>13 DEF IInv, NoDuplicateHandler
  <2>6. Installed'
    BY <1>1, <1>3, <1>13 DEF IInv, Installed
  <2> QED
    BY <1>12, <2>2, <2>4, <2>5, <2>6 DEF IInv
<1>14. CASE /\ ~Known(r.handler) /\ FreeSlots # {} /\ skip' = FALSE
            /\ sub_handle' = [sub_handle EXCEPT ![FirstFree] = r.handler]
            /\ events' = events \cup {<<r.msg_id, "SUBCRIBE_SUCCESS">>}
  <2>1. FirstFree \in FreeSlots /\ FirstFree \in Slots
    BY <1>14, FirstFreeIsFree
  <2> DEFINE k == FirstFree
  <2>2. sub_handle[k] = NoHandler
    BY <2>1 DEF FreeSlots
  <2> HIDE DEF k
  <2>3. k \in Slots /\ sub_handle' = [sub_handle EXCEPT ![k] = r.handler]
    BY <1>14, <2>1 DEF k
  <2>4. sub_handle' \in [Slots -> Handlers \cup {NoHandler}]
    BY <1>5, <1>10, <2>3
  <2>5. late' \in BOOLEAN /\ dead' \in {"no", "fault", "hung"} /\ skip' \in BOOLEAN
    BY <1>1, <1>5, <1>14
  <2>6. events' = events \cup {<<id, "SUBCRIBE_SUCCESS">>}
    BY <1>7, <1>14
  <2>7. TypeOK' /\ Books'
    BY <1>1, <1>11, <2>4, <2>5, <2>6, Received DEF id
  <2>8. Results'
    <3>1. \A x \in events' : x[1] <= packet_id'
      BY <1>3, <1>4, <2>6 DEF IInv, Results
    <3>2. \A x \in answered' : x <= packet_id'
      BY <1>3, <1>4 DEF IInv, Results
    <3>3. \A x \in Ids : <<x, "SUBCRIBE_SUCCESS">> \in events' =>
            /\ asked'[x].type = "SUBSCRIBE"
            /\ \A q \in list_sub_wait_ack' : q.msg_id = x => ~q.valid
      BY <1>3, <1>4, <1>6, <2>6 DEF IInv, Results
    <3>4. \A x \in Ids : <<x, "SUBCRIBE_TIMEOUT">> \in events' =>
            \A q \in list_sub_wait_ack' : q.msg_id # x
      BY <1>6, <2>6 DEF IInv, Results
    <3> QED
      BY <3>1, <3>2, <3>3, <3>4 DEF Results
  <2>9. SuccessXorTimeout'
    <3>1. <<id, "SUBCRIBE_TIMEOUT">> \notin events
      BY <1>4, <1>7 DEF IInv, Results
    <3> QED
      BY <2>6, <3>1 DEF IInv, SuccessXorTimeout
  <2>10. NoDuplicateHandler'
    <3>1. \A i \in Slots : sub_handle[i] # r.handler
      BY <1>14 DEF Known
    <3> QED
      BY <1>5, <2>3, <3>1 DEF IInv, NoDuplicateHandler
  <2>11. Installed'
    <3> SUFFICES ASSUME ~late, NEW x \in Ids, <<x, "SUBCRIBE_SUCCESS">> \in events'
                 PROVE  \E i \in Slots : sub_handle'[i] = asked[x].handler
      BY <1>1, <1>3, <2>4 DEF Installed, Range
    <3>1. CASE <<x, "SUBCRIBE_SUCCESS">> \in events
      <4>1. PICK i \in Slots : sub_handle[i] = asked[x].handler
        BY <1>5, <3>1 DEF IInv, Installed, Range
      <4>2. asked[x] \in Requests
        <5>1. x \in 1 .. Len(asked) /\ asked \in Seq(Requests)
          BY <3>1 DEF IInv, Results, Books, TypeOK, Ids
        <5> QED
          BY <5>1
      <4>3. asked[x].handler # NoHandler
        <5>1. asked[x].type = "SUBSCRIBE"
          BY <3>1 DEF IInv, Results
        <5>2. asked[x].handler \in Handlers
          BY <4>2, <5>1 DEF Requests
        <5> QED
          BY <5>2, NullAssumption DEF Handlers, NoHandler, NullAssumption
      <4>4. i # k
        BY <4>1, <4>3, <2>2 DEF k
      <4> QED
        BY <1>5, <2>3, <4>1, <4>4
    <3>2. CASE x = id
      BY <1>5, <1>9, <2>3, <3>2
    <3> QED
      BY <2>6, <3>1, <3>2
  <2> QED
    BY <1>12, <2>7, <2>8, <2>9, <2>10, <2>11 DEF IInv
<1> QED
  BY <1>2, <1>13, <1>14

\* Erasing keeps the table one of different handlers.
LEMMA Erases ==
  ASSUME IInv, NEW h, Erase(h)
  PROVE  /\ sub_handle' \in [Slots -> Handlers \cup {NoHandler}] /\ NoDuplicateHandler'
         /\ \A i \in Slots : sub_handle[i] # h => sub_handle'[i] = sub_handle[i]
<1>1. sub_handle \in [Slots -> Handlers \cup {NoHandler}]
  BY DEF IInv, TypeOK
<1>2. \A i \in Slots : sub_handle'[i] = IF sub_handle[i] = h THEN NoHandler ELSE sub_handle[i]
  BY DEF Erase
<1>3. sub_handle' \in [Slots -> Handlers \cup {NoHandler}]
  BY <1>1 DEF Erase
<1> QED
  BY <1>2, <1>3 DEF IInv, NoDuplicateHandler

LEMMA UnsubackKeeps == ASSUME IInv, RecvUnsuback PROVE IInv'
<1> DEFINE id == Head(toClient).msg_id
<1>1. /\ Receives("UNSUBACK") /\ Mask(id) /\ UNCHANGED <<skip, dead, late>>
      /\ events' = events \cup {<<id, "UNSUBCRIBE_SUCCESS">>}
  BY DEF RecvUnsuback, Event
<1>2. PICK r \in Masked(id) : Erase(r.handler)
  BY DEF RecvUnsuback
<1>3. UNCHANGED <<packet_id, asked>> /\ answered' = answered \cup {id}
  BY <1>1 DEF Receives
<1>4. id \in Ids /\ id <= packet_id /\ asked[id].type # "SUBSCRIBE"
  BY <1>1, Packet
<1>5. /\ skip \in BOOLEAN /\ late \in BOOLEAN /\ dead \in {"no", "fault", "hung"}
      /\ list_sub_wait_ack \subseteq Requests
  BY DEF IInv, TypeOK
<1>6. \A q \in list_sub_wait_ack' :
        /\ q.valid => q \in list_sub_wait_ack /\ q.msg_id # id
        /\ \E p \in list_sub_wait_ack : p.msg_id = q.msg_id
  BY <1>1, Masks
<1> HIDE DEF id
<1>7. r \in list_sub_wait_ack /\ r.msg_id = id
  BY DEF Masked
<1>8. r.type # "SUBSCRIBE"
  BY <1>4, <1>7 DEF IInv, Books, OfAsked
<1>9. r.handler.h_fp = NULL
  BY <1>5, <1>7, <1>8 DEF Requests
<1>10. "UNSUBCRIBE_SUCCESS" \in Events \ {"SUBCRIBE_SUCCESS", "SUBCRIBE_TIMEOUT"}
  BY DEF Events
<1>11. /\ sub_handle' \in [Slots -> Handlers \cup {NoHandler}] /\ NoDuplicateHandler'
       /\ \A i \in Slots : sub_handle[i] # r.handler => sub_handle'[i] = sub_handle[i]
  BY <1>2, Erases
<1>12. TypeOK' /\ Books'
  <2>1. skip' \in BOOLEAN /\ late' \in BOOLEAN /\ dead' \in {"no", "fault", "hung"}
    BY <1>1, <1>5
  <2> QED
    BY <1>1, <1>10, <1>11, <2>1, Received DEF id
<1>13. Results' /\ SuccessXorTimeout'
  BY <1>1, <1>3, <1>4, <1>6, <1>10, ResultsKept
<1>14. AnsweredLeaves'
  BY <1>1, <1>3, <1>6 DEF IInv, AnsweredLeaves
<1>15. Installed'
  <2> SUFFICES ASSUME ~late, NEW x \in Ids, <<x, "SUBCRIBE_SUCCESS">> \in events
               PROVE  \E i \in Slots : sub_handle'[i] = asked[x].handler
    BY <1>1, <1>3, <1>11 DEF Installed, Range
  <2>1. PICK i \in Slots : sub_handle[i] = asked[x].handler
    BY DEF IInv, TypeOK, Installed, Range
  <2>2. asked[x] \in Requests /\ asked[x].type = "SUBSCRIBE"
    <3>1. x \in 1 .. Len(asked) /\ asked \in Seq(Requests)
      BY DEF IInv, Results, Books, TypeOK, Ids
    <3>2. asked[x].type = "SUBSCRIBE"
      BY DEF IInv, Results
    <3> QED
      BY <3>1, <3>2
  <2>3. asked[x].handler.h_fp # NULL
    BY <2>2, NullAssumption DEF Requests, Handlers, NullAssumption
  <2> QED
    BY <1>9, <1>11, <2>1, <2>3
<1> QED
  BY <1>11, <1>12, <1>13, <1>14, <1>15 DEF IInv

LEMMA UnsubackUnknownKeeps == ASSUME IInv, RecvUnsubackUnknown PROVE IInv'
<1> DEFINE id == Head(toClient).msg_id
<1>1. /\ Receives("UNSUBACK") /\ UNCHANGED <<list_sub_wait_ack, skip>> /\ late' = TRUE
      /\ \A r \in list_sub_wait_ack : r.msg_id # id
  BY DEF RecvUnsubackUnknown, Masked
<1>2. \/ /\ \E h \in Handlers \cup {NoHandler} : Erase(h)
         /\ events' = events \cup {<<id, "UNSUBCRIBE_SUCCESS">>}
         /\ UNCHANGED dead
      \/ dead' = "fault" /\ UNCHANGED <<sub_handle, events>>
  BY DEF RecvUnsubackUnknown, Event
<1>3. UNCHANGED <<packet_id, asked>> /\ answered' = answered \cup {id}
  BY <1>1 DEF Receives
<1>4. id \in Ids /\ id <= packet_id
  BY <1>1, Packet
<1>5. /\ skip \in BOOLEAN /\ dead \in {"no", "fault", "hung"}
      /\ sub_handle \in [Slots -> Handlers \cup {NoHandler}]
  BY DEF IInv, TypeOK
<1> HIDE DEF id
<1>6. "UNSUBCRIBE_SUCCESS" \in Events \ {"SUBCRIBE_SUCCESS", "SUBCRIBE_TIMEOUT"}
  BY DEF Events
<1>7. sub_handle' \in [Slots -> Handlers \cup {NoHandler}] /\ NoDuplicateHandler'
  <2>1. CASE \E h \in Handlers \cup {NoHandler} : Erase(h)
    BY <2>1, Erases
  <2>2. CASE UNCHANGED sub_handle
    BY <2>2, <1>5 DEF IInv, NoDuplicateHandler
  <2> QED
    BY <1>2, <2>1, <2>2
<1>8. TypeOK' /\ Books'
  <2>1. skip' \in BOOLEAN /\ late' \in BOOLEAN /\ dead' \in {"no", "fault", "hung"}
    BY <1>1, <1>2, <1>5
  <2> QED
    BY <1>1, <1>2, <1>6, <1>7, <2>1, Received DEF id
<1>9. Results' /\ SuccessXorTimeout'
  BY <1>1, <1>2, <1>3, <1>4, <1>6, ResultsKept
<1>10. AnsweredLeaves'
  BY <1>1, <1>2, <1>3 DEF IInv, AnsweredLeaves
<1>11. Installed'
  BY <1>1 DEF Installed
<1> QED
  BY <1>7, <1>8, <1>9, <1>10, <1>11 DEF IInv

\* A failed allocation, a failed read, and the end of a yield
LEMMA YieldEndKeeps ==
  ASSUME IInv, Hang \/ YieldReturns \/ ReadError
  PROVE  IInv'
<1>1. /\ UNCHANGED <<packet_id, list_sub_wait_ack, sub_handle, toBroker, toClient, asked, events, answered, late>>
      /\ connected' \in BOOLEAN /\ skip' \in BOOLEAN /\ dead' \in {"no", "fault", "hung"}
  BY DEF Hang, YieldReturns, ReadError, IInv, TypeOK
<1>2. TypeOK'
  BY <1>1 DEF IInv, TypeOK
<1>3. Books'
  BY <1>1 DEF IInv, Books, OfAsked
<1> QED
  BY <1>1, <1>2, <1>3, QuietKeeps DEF IInv

\* A walk takes away what was answered and what timed out.
LEMMA WalkKeeps ==
  ASSUME IInv, NEW T \in SUBSET list_sub_wait_ack, SubInfoProc(T)
  PROVE  IInv'
<1>1. /\ UNCHANGED <<connected, packet_id, sub_handle, skip, dead, toBroker, toClient, asked, answered, late>>
      /\ list_sub_wait_ack' = {r \in list_sub_wait_ack : r.valid /\ r \notin T}
      /\ \A r \in T : r.valid
  BY DEF SubInfoProc
<1> DEFINE e(r) == IF r.type = "SUBSCRIBE" THEN "SUBCRIBE_TIMEOUT" ELSE "UNSUBCRIBE_TIMEOUT"
<1>2. events' = events \cup {<<r.msg_id, e(r)>> : r \in T}
  BY DEF SubInfoProc
<1>3. \A r \in T : e(r) \in Events /\ e(r) # "SUBCRIBE_SUCCESS"
  BY DEF Events
<1> HIDE DEF e
<1>4. /\ list_sub_wait_ack \subseteq Requests /\ IsFiniteSet(list_sub_wait_ack)
      /\ Cardinality(list_sub_wait_ack) <= MC_SUB_REQUEST_NUM_MAX
      /\ events \subseteq Ids \X Events
  BY DEF IInv, TypeOK
<1>5. \A r \in T : r.msg_id \in Ids /\ r.msg_id <= packet_id
  <2>1. \A r \in T : r.msg_id \in Ids
    BY <1>4 DEF Requests
  <2> QED
    BY <2>1 DEF IInv, Books, OfAsked
<1>6. list_sub_wait_ack' \subseteq Requests /\ IsFiniteSet(list_sub_wait_ack')
      /\ Cardinality(list_sub_wait_ack') <= MC_SUB_REQUEST_NUM_MAX
  <2>1. list_sub_wait_ack' \subseteq list_sub_wait_ack
    BY <1>1
  <2>2. IsFiniteSet(list_sub_wait_ack') /\ Cardinality(list_sub_wait_ack') <= Cardinality(list_sub_wait_ack)
    BY <1>4, <2>1, FS_Subset
  <2> QED
    BY <1>4, <2>1, <2>2, FS_CardinalityType, SizeAssumption DEF SizeAssumption
<1>7. TypeOK'
  <2>1. events' \subseteq Ids \X Events
    BY <1>2, <1>3, <1>4, <1>5
  <2>2. /\ connected' \in BOOLEAN /\ skip' \in BOOLEAN /\ dead' \in {"no", "fault", "hung"} /\ late' \in BOOLEAN
        /\ packet_id' \in 0 .. MaxRequests /\ sub_handle' \in [Slots -> Handlers \cup {NoHandler}]
        /\ toBroker' \in Seq(Requests) /\ asked' \in Seq(Requests) /\ toClient' \in Seq(Acks)
        /\ answered' \subseteq Ids
    BY <1>1 DEF IInv, TypeOK
  <2> QED
    BY <1>6, <2>1, <2>2, Zenon DEF TypeOK
<1>8. Books'
  BY <1>1 DEF IInv, Books, OfAsked
<1>9. \A id \in Ids : <<id, "SUBCRIBE_SUCCESS">> \in events' => <<id, "SUBCRIBE_SUCCESS">> \in events
  BY <1>2, <1>3
<1>10. \A id \in Ids : <<id, "SUBCRIBE_TIMEOUT">> \in events' =>
         <<id, "SUBCRIBE_TIMEOUT">> \in events \/ \E r \in T : r.msg_id = id
  BY <1>2
<1>11. Results'
  <2>1. \A x \in events' : x[1] <= packet_id'
    BY <1>1, <1>2, <1>5 DEF IInv, Results
  <2>2. \A x \in answered' : x <= packet_id'
    BY <1>1 DEF IInv, Results
  <2>3. \A id \in Ids : <<id, "SUBCRIBE_SUCCESS">> \in events' =>
          /\ asked'[id].type = "SUBSCRIBE"
          /\ \A r \in list_sub_wait_ack' : r.msg_id = id => ~r.valid
    BY <1>1, <1>9 DEF IInv, Results
  <2>4. \A id \in Ids : <<id, "SUBCRIBE_TIMEOUT">> \in events' =>
          \A r \in list_sub_wait_ack' : r.msg_id # id
    BY <1>1, <1>10 DEF IInv, Results, Books
  <2> QED
    BY <2>1, <2>2, <2>3, <2>4 DEF Results
<1>12. SuccessXorTimeout'
  BY <1>1, <1>9, <1>10 DEF IInv, SuccessXorTimeout, Results
<1>13. AnsweredLeaves'
  BY <1>1, <1>2 DEF IInv, AnsweredLeaves
<1>14. NoDuplicateHandler'
  BY <1>1 DEF IInv, NoDuplicateHandler
<1>15. Installed'
  BY <1>1, <1>9 DEF IInv, Installed
<1> QED
  BY <1>7, <1>8, <1>11, <1>12, <1>13, <1>14, <1>15 DEF IInv

\* The broker's answer is of the kind of its request.
LEMMA BrokerKeeps == ASSUME IInv, Broker PROVE IInv'
<1>1. /\ toBroker # <<>> /\ toBroker' = Tail(toBroker)
      /\ UNCHANGED <<connected, packet_id, list_sub_wait_ack, sub_handle, skip, dead, asked, events, answered, late>>
  BY DEF Broker
<1>2. PICK ok \in BOOLEAN : toClient' = Append(toClient,
        [type |-> IF Head(toBroker).type = "SUBSCRIBE" THEN "SUBACK" ELSE "UNSUBACK",
         msg_id |-> Head(toBroker).msg_id, granted |-> ok])
  BY DEF Broker
<1>3. toBroker \in Seq(Requests) /\ toClient \in Seq(Acks)
  BY DEF IInv, TypeOK
<1>4. 1 \in 1 .. Len(toBroker) /\ Head(toBroker) = toBroker[1] /\ Head(toBroker) \in Requests
  BY <1>1, <1>3
<1>5. OfAsked(Head(toBroker))
  BY <1>4 DEF IInv, Books
<1>6. Head(toBroker).msg_id \in Ids
  BY <1>4 DEF Requests
<1> DEFINE ack == [type |-> IF Head(toBroker).type = "SUBSCRIBE" THEN "SUBACK" ELSE "UNSUBACK",
                   msg_id |-> Head(toBroker).msg_id, granted |-> ok]
<1>7. ack \in Acks
  BY <1>6 DEF Acks
<1>8. /\ ack.msg_id <= packet_id
      /\ ack.type = "SUBACK" <=> asked[ack.msg_id].type = "SUBSCRIBE"
  BY <1>5 DEF OfAsked
<1>9. toClient' = Append(toClient, ack)
  BY <1>2
<1> HIDE DEF ack
<1>10. toBroker' \in Seq(Requests) /\ toClient' \in Seq(Acks)
  BY <1>1, <1>3, <1>7, <1>9
<1>11. TypeOK'
  <2>1. /\ connected' \in BOOLEAN /\ skip' \in BOOLEAN /\ dead' \in {"no", "fault", "hung"} /\ late' \in BOOLEAN
        /\ packet_id' \in 0 .. MaxRequests /\ sub_handle' \in [Slots -> Handlers \cup {NoHandler}]
        /\ asked' \in Seq(Requests) /\ answered' \subseteq Ids /\ events' \subseteq Ids \X Events
    BY <1>1 DEF IInv, TypeOK
  <2>2. list_sub_wait_ack' \subseteq Requests /\ IsFiniteSet(list_sub_wait_ack')
        /\ Cardinality(list_sub_wait_ack') <= MC_SUB_REQUEST_NUM_MAX
    BY <1>1 DEF IInv, TypeOK
  <2> QED
    BY <1>10, <2>1, <2>2, Zenon DEF TypeOK
<1>12. Books'
  <2>1. \A i \in 1 .. Len(toBroker') : \E j \in 1 .. Len(toBroker) : toBroker'[i] = toBroker[j]
    <3>1. \A i \in 1 .. Len(toBroker') : i + 1 \in 1 .. Len(toBroker) /\ toBroker'[i] = toBroker[i + 1]
      BY <1>1, <1>3
    <3> QED
      BY <3>1
  <2>2. \A i \in 1 .. Len(toClient') :
          toClient'[i] = ack \/ (i \in 1 .. Len(toClient) /\ toClient'[i] = toClient[i])
    BY <1>3, <1>9
  <2>3. \A i \in 1 .. Len(toClient') :
          \/ \E j \in 1 .. Len(toClient) : toClient'[i] = toClient[j]
          \/ /\ toClient'[i].msg_id <= packet_id
             /\ toClient'[i].type = "SUBACK" <=> asked[toClient'[i].msg_id].type = "SUBSCRIBE"
    BY <1>8, <2>2
  <2>4. /\ \A q \in list_sub_wait_ack' : OfAsked(q)
        /\ \A q, p \in list_sub_wait_ack' : q.msg_id = p.msg_id => q = p
    BY <1>1 DEF IInv, Books
  <2> QED
    BY <1>1, <2>1, <2>3, <2>4, BooksKept
<1> QED
  BY <1>1, <1>11, <1>12, QuietKeeps DEF IInv

LEMMA StepIInv == IInv /\ [Next]_vars => IInv'
<1> SUFFICES ASSUME IInv, [Next]_vars PROVE IInv'
  OBVIOUS
<1>1. ASSUME NEW f \in Filters, NEW h \in Callbacks, Request(SubscribeRequest(f, h)) PROVE IInv'
  <2>1. packet_id + 1 \in Ids
    BY <1>1, SizeAssumption DEF Request, IInv, TypeOK, Ids, SizeAssumption
  <2>2. [topic_filter |-> f, h_fp |-> h] \in Handlers
    BY DEF Handlers
  <2>3. SubscribeRequest(f, h) \in Requests
    BY <2>1, <2>2 DEF SubscribeRequest, Requests
  <2>4. SubscribeRequest(f, h).msg_id = packet_id + 1 /\ SubscribeRequest(f, h).valid
    BY DEF SubscribeRequest
  <2> QED
    BY <1>1, <2>3, <2>4, RequestKeeps
<1>2. ASSUME NEW f \in Filters, Request(UnsubscribeRequest(f)) PROVE IInv'
  <2>1. packet_id + 1 \in Ids
    BY <1>2, SizeAssumption DEF Request, IInv, TypeOK, Ids, SizeAssumption
  <2>2. UnsubscribeRequest(f) \in Requests
    BY <2>1 DEF UnsubscribeRequest, Requests
  <2>3. UnsubscribeRequest(f).msg_id = packet_id + 1 /\ UnsubscribeRequest(f).valid
    BY DEF UnsubscribeRequest
  <2> QED
    BY <1>2, <2>2, <2>3, RequestKeeps
<1>3. ASSUME NEW T \in SUBSET list_sub_wait_ack, SubInfoProc(T) PROVE IInv'
  BY <1>3, WalkKeeps
<1>4. CASE UNCHANGED vars
  <2>1. TypeOK' /\ Books'
    BY <1>4 DEF vars, IInv, TypeOK, Books, OfAsked
  <2> QED
    BY <1>4, <2>1, QuietKeeps DEF vars, IInv
<1> QED
  BY <1>1, <1>2, <1>3, <1>4, NackKeeps, SubackUnknownKeeps, SubackKeeps, UnsubackKeeps,
     UnsubackUnknownKeeps, YieldEndKeeps, BrokerKeeps
     DEF Next, Subscribe, Unsubscribe, Yield

LEMMA Invariant == Spec => []IInv
  BY InitIInv, StepIInv, PTL DEF Spec

\* The table, the list and the packets stay well formed, whatever is refused,
\* late, or cannot be allocated (MQTTClient.c:415-706, 996-1142, 1555-1648).
THEOREM TypeCorrect == Spec => []TypeOK
  BY Invariant, PTL DEF IInv

\* However many requests share the list: no answer to one of them is reported
\* after its time-out nor its time-out after its answer, and every answer but a
\* refusal takes its request off the waiting (MQTTClient.c:683-706, 1555-1648).
THEOREM OneResult == Spec => []OneAnswer
  BY Invariant, PTL DEF IInv, OneAnswer

\* For every size of the table: what was granted stays installed, through all
\* requests, refusals and lost connections, and no function is in the table twice
\* for a topic (MQTTClient.c:1031-1051, 1116-1126).
THEOREM StaysInstalled == Spec => []TableExact
  BY Invariant, PTL DEF IInv, TableExact

-----------------------------------------------------------------------------
(* What becomes of a request *)

\* A request is invalid because its answer was handled.
InvalidAnswered == \A r \in list_sub_wait_ack : r.valid \/ r.msg_id \in answered

\* A request that was taken leaves the list answered, or with the event that says
\* it timed out; none goes without a word.
NoneForgotten ==
  [][\A r \in list_sub_wait_ack : r.msg_id \notin Waiting' =>
       r.msg_id \in answered \/ <<r.msg_id, "SUBCRIBE_TIMEOUT">> \in events'
                            \/ <<r.msg_id, "UNSUBCRIBE_TIMEOUT">> \in events']_vars

\* One step keeps InvalidAnswered.
LEMMA AnsweredKept ==
  ASSUME TypeOK, InvalidAnswered, [Next]_vars
  PROVE  InvalidAnswered'
<1>1. ASSUME UNCHANGED <<list_sub_wait_ack, answered>> PROVE InvalidAnswered'
  BY <1>1 DEF InvalidAnswered
<1>2. ASSUME NEW r, r.valid = TRUE, Request(r) PROVE InvalidAnswered'
  BY <1>2 DEF Request, InvalidAnswered
<1>3. CASE Subscribe \/ Unsubscribe
  <2>1. \A f, h : SubscribeRequest(f, h).valid = TRUE /\ UnsubscribeRequest(f).valid = TRUE
    BY DEF SubscribeRequest, UnsubscribeRequest
  <2> QED BY <1>2, <1>3, <2>1 DEF Subscribe, Unsubscribe
<1>4. CASE RecvNack \/ RecvSubackUnknown \/ RecvUnsubackUnknown
  BY <1>4 DEF RecvNack, RecvSubackUnknown, RecvUnsubackUnknown, Receives, InvalidAnswered
<1>5. CASE RecvSuback \/ RecvUnsuback
  <2>1. Mask(Head(toClient).msg_id) /\ answered' = answered \cup {Head(toClient).msg_id}
    BY <1>5 DEF RecvSuback, RecvUnsuback, Receives
  <2>2. ASSUME NEW q \in list_sub_wait_ack' PROVE q.valid \/ q.msg_id \in answered'
    <3>1. PICK r \in list_sub_wait_ack : q = [r EXCEPT !.valid = r.valid /\ r.msg_id # Head(toClient).msg_id]
      BY <2>1 DEF Mask
    <3>2. r \in Requests
      BY DEF TypeOK
    <3>3. q.msg_id = r.msg_id /\ q.valid = (r.valid /\ r.msg_id # Head(toClient).msg_id)
      BY <3>1, <3>2 DEF Requests
    <3>4. CASE r.msg_id = Head(toClient).msg_id
      BY <2>1, <3>3, <3>4
    <3>5. CASE r.msg_id # Head(toClient).msg_id
      BY <2>1, <3>3, <3>5 DEF InvalidAnswered
    <3> QED BY <3>4, <3>5
  <2> QED BY <2>2 DEF InvalidAnswered
<1>6. ASSUME NEW T, SubInfoProc(T) PROVE InvalidAnswered'
  BY <1>6 DEF SubInfoProc, InvalidAnswered
<1>7. CASE Hang \/ YieldReturns \/ ReadError \/ Broker \/ UNCHANGED vars
  BY <1>1, <1>7 DEF Hang, YieldReturns, ReadError, Broker, vars
<1> QED BY <1>3, <1>4, <1>5, <1>6, <1>7 DEF Next, Yield

\* For any number of requests and any loss of the connection between them: what
\* MQTTSubInfoProc takes off the list was answered, or is reported as timed out
\* in that step (MQTTClient.c:1555-1648).
THEOREM RequestsAreReported == Spec => NoneForgotten
<1>1. Init => InvalidAnswered
  BY DEF Init, InvalidAnswered
<1>2. TypeOK /\ InvalidAnswered /\ [Next]_vars =>
        [\A r \in list_sub_wait_ack : r.msg_id \notin Waiting' =>
           r.msg_id \in answered \/ <<r.msg_id, "SUBCRIBE_TIMEOUT">> \in events'
                                \/ <<r.msg_id, "UNSUBCRIBE_TIMEOUT">> \in events']_vars
  <2> SUFFICES ASSUME TypeOK, InvalidAnswered, Next,
                      NEW r \in list_sub_wait_ack, r.msg_id \notin Waiting'
               PROVE  r.msg_id \in answered \/ <<r.msg_id, "SUBCRIBE_TIMEOUT">> \in events'
                                           \/ <<r.msg_id, "UNSUBCRIBE_TIMEOUT">> \in events'
    OBVIOUS
  <2>1. ASSUME list_sub_wait_ack \subseteq list_sub_wait_ack' PROVE FALSE
    BY <2>1 DEF Waiting
  <2>2. CASE Subscribe \/ Unsubscribe
    BY <2>1, <2>2 DEF Subscribe, Unsubscribe, Request
  <2>3. CASE RecvNack \/ RecvSubackUnknown \/ RecvUnsubackUnknown \/ Hang \/ YieldReturns \/ ReadError \/ Broker
    BY <2>1, <2>3 DEF RecvNack, RecvSubackUnknown, RecvUnsubackUnknown, Hang, YieldReturns, ReadError, Broker
  <2>4. CASE RecvSuback \/ RecvUnsuback
    <3> DEFINE q == [r EXCEPT !.valid = r.valid /\ r.msg_id # Head(toClient).msg_id]
    <3>1. q \in list_sub_wait_ack'
      BY <2>4 DEF RecvSuback, RecvUnsuback, Mask
    <3>2. q.msg_id = r.msg_id
      BY DEF TypeOK, Requests
    <3> QED BY <3>1, <3>2 DEF Waiting
  <2>5. CASE \E T \in SUBSET list_sub_wait_ack : SubInfoProc(T)
    <3>1. PICK T \in SUBSET list_sub_wait_ack : SubInfoProc(T)
      BY <2>5
    <3>2. CASE r \in T
      <4>1. <<r.msg_id, IF r.type = "SUBSCRIBE" THEN "SUBCRIBE_TIMEOUT"
                                                ELSE "UNSUBCRIBE_TIMEOUT">> \in events'
        BY <3>1, <3>2 DEF SubInfoProc
      <4> QED BY <4>1
    <3>3. CASE ~r.valid
      BY <3>3 DEF InvalidAnswered
    <3>4. CASE r.valid /\ r \notin T
      <4>1. r \in list_sub_wait_ack'
        BY <3>1, <3>4 DEF SubInfoProc
      <4> QED BY <4>1 DEF Waiting
    <3> QED BY <3>2, <3>3, <3>4
  <2> QED BY <2>2, <2>3, <2>4, <2>5 DEF Next, Yield
<1>3. TypeOK /\ InvalidAnswered /\ [Next]_vars => InvalidAnswered'
  BY AnsweredKept
<1> QED BY <1>1, <1>2, <1>3, TypeCorrect, PTL DEF Spec, NoneForgotten
=============================================================================
