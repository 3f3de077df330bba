------------------------- MODULE MqttPublish_proofs -------------------------
(***************************************************************************)
(* Publishing for every number of threads, every length of the list and    *)
(* every QoS: what keeps the walk off freed nodes, what keeps a message    *)
(* that was taken, that the list delivers at least once, that no threads   *)
(* wait for each other, and that a walk comes to its end.                  *)
(***************************************************************************)
EXTENDS MqttPublish, SequenceTheorems, TLAPS

-----------------------------------------------------------------------------
(* The sequence operators of the lists *)

Increasing(s) == \A i, j \in 1 .. Len(s) : i < j => s[i] < s[j]

LEMMA SetOfSeq ==
  ASSUME NEW S, NEW s \in Seq(S)
  PROVE  /\ ToSet(s) \subseteq S
         /\ \A i \in 1 .. Len(s) : s[i] \in ToSet(s)
         /\ \A e \in ToSet(s) : \E i \in 1 .. Len(s) : s[i] = e
BY DEF ToSet

LEMMA Retype ==
  ASSUME NEW S, NEW T, NEW s \in Seq(S), ToSet(s) \subseteq T
  PROVE  s \in Seq(T)
<1>1. \A i \in 1 .. Len(s) : s[i] \in T
  BY SetOfSeq
<1>2. s \in [1 .. Len(s) -> S] /\ Len(s) \in Nat
  BY LenProperties
<1>3. s \in [1 .. Len(s) -> T]
  BY <1>1, <1>2
<1>4. QED
  BY <1>2, <1>3, SeqDef

LEMMA SetOfAppend ==
  ASSUME NEW S, NEW s \in Seq(S), NEW e \in S
  PROVE  ToSet(Append(s, e)) = ToSet(s) \cup {e}
<1>1. /\ Append(s, e) \in Seq(S) /\ Len(Append(s, e)) = Len(s) + 1
      /\ \A i \in 1 .. Len(s) : Append(s, e)[i] = s[i]
      /\ Append(s, e)[Len(s) + 1] = e
  OBVIOUS
<1>2. QED
  BY <1>1 DEF ToSet

LEMMA SetOfTail ==
  ASSUME NEW S, NEW s \in Seq(S), s # <<>>
  PROVE  ToSet(s) = {Head(s)} \cup ToSet(Tail(s))
<1>1. /\ Tail(s) \in Seq(S) /\ Len(s) \in Nat \ {0} /\ Len(Tail(s)) = Len(s) - 1
      /\ \A i \in 1 .. Len(s) - 1 : Tail(s)[i] = s[i + 1]
      /\ Head(s) = s[1]
  BY HeadTailProperties, EmptySeq
<1>2. ASSUME NEW i \in 1 .. Len(s) PROVE s[i] \in {Head(s)} \cup ToSet(Tail(s))
  <2>1. CASE i = 1
    BY <1>1, <2>1
  <2>2. CASE i > 1
    <3>1. i - 1 \in 1 .. Len(Tail(s)) /\ s[i] = Tail(s)[i - 1]
      BY <1>1, <2>2
    <3>2. QED
      BY <1>1, <3>1, SetOfSeq
  <2>3. QED
    BY <2>1, <2>2
<1>3. \A i \in 1 .. Len(s) - 1 : Tail(s)[i] \in ToSet(s)
  BY <1>1, SetOfSeq
<1>4. Head(s) \in ToSet(s)
  BY <1>1, SetOfSeq
<1>5. \A e \in ToSet(s) : \E i \in 1 .. Len(s) : s[i] = e
  BY SetOfSeq
<1>6. \A e \in ToSet(Tail(s)) : \E i \in 1 .. Len(s) - 1 : Tail(s)[i] = e
  <2>1. \A e \in ToSet(Tail(s)) : \E i \in 1 .. Len(Tail(s)) : Tail(s)[i] = e
    BY <1>1, SetOfSeq
  <2>2. QED
    BY <1>1, <2>1
<1>7. QED
  BY <1>2, <1>3, <1>4, <1>5, <1>6

LEMMA RemoveAtProperties ==
  ASSUME NEW S, NEW s \in Seq(S), NEW i \in 1 .. Len(s)
  PROVE  /\ RemoveAt(s, i) \in Seq(S)
         /\ Len(RemoveAt(s, i)) = Len(s) - 1
         /\ \A j \in 1 .. Len(s) - 1 :
              RemoveAt(s, i)[j] = IF j < i THEN s[j] ELSE s[j + 1]
<1> DEFINE a == SubSeq(s, 1, i - 1)
           b == SubSeq(s, i + 1, Len(s))
<1>1. /\ a \in Seq(S) /\ Len(a) = i - 1
      /\ \A j \in 1 .. i - 1 : a[j] = s[j]
  BY SubSeqProperties
<1>2. /\ b \in Seq(S) /\ Len(b) = Len(s) - i
      /\ \A j \in 1 .. Len(s) - i : b[j] = s[i + j]
  BY SubSeqProperties
<1> HIDE DEF a, b
<1>3. /\ a \o b \in Seq(S) /\ Len(a \o b) = Len(a) + Len(b)
      /\ \A j \in 1 .. Len(a) + Len(b) :
           (a \o b)[j] = IF j <= Len(a) THEN a[j] ELSE b[j - Len(a)]
  BY <1>1, <1>2, ConcatProperties
<1>4. Len(a) + Len(b) = Len(s) - 1
  BY <1>1, <1>2
<1>5. \A j \in 1 .. Len(s) - 1 : (a \o b)[j] = IF j < i THEN s[j] ELSE s[j + 1]
  BY <1>1, <1>2, <1>3, <1>4
<1>6. RemoveAt(s, i) = a \o b
  BY DEF RemoveAt, a, b
<1>7. QED
  BY <1>3, <1>4, <1>5, <1>6

LEMMA RemoveFirstIsAt ==
  ASSUME NEW S, NEW s \in Seq(S), NEW i \in 1 .. Len(s),
         \A j \in 1 .. Len(s) : s[j] = s[i] => j = i
  PROVE  RemoveFirst(s, s[i]) = RemoveAt(s, i)
<1>1. {j \in 1 .. Len(s) : s[j] = s[i]} = {i}
  OBVIOUS
<1>2. Min({i}) = i
  BY DEF Min
<1>3. SelectInSeq(s, LAMBDA v : v = s[i]) = i
  BY <1>1, <1>2 DEF SelectInSeq
<1>4. QED
  BY <1>3 DEF RemoveFirst

\* list_remove takes one node out and leaves the order of the others.
LEMMA RemoveFirstProperties ==
  ASSUME NEW s \in Seq(Nat), Increasing(s), NEW e
  PROVE  /\ RemoveFirst(s, e) \in Seq(Nat) /\ Increasing(RemoveFirst(s, e))
         /\ Len(RemoveFirst(s, e)) <= Len(s)
         /\ ToSet(RemoveFirst(s, e)) = ToSet(s) \ {e}
<1>1. CASE e \notin ToSet(s)
  <2>1. RemoveFirst(s, e) = s
    BY <1>1, SetOfSeq DEF RemoveFirst
  <2>2. QED
    BY <1>1, <2>1
<1>2. CASE e \in ToSet(s)
  <2>1. PICK i \in 1 .. Len(s) : s[i] = e
    BY <1>2, SetOfSeq
  <2>2. \A j \in 1 .. Len(s) : s[j] = e => j = i
    BY <2>1, ElementOfSeq DEF Increasing
  <2> DEFINE r == RemoveAt(s, i)
  <2>3. RemoveFirst(s, e) = r
    BY <2>1, <2>2, RemoveFirstIsAt
  <2>4. /\ r \in Seq(Nat) /\ Len(r) = Len(s) - 1
        /\ \A j \in 1 .. Len(s) - 1 : r[j] = IF j < i THEN s[j] ELSE s[j + 1]
    BY RemoveAtProperties
  <2> HIDE DEF r
  <2>5. Len(s) \in Nat
    OBVIOUS
  <2>6. ASSUME NEW j \in 1 .. Len(r), NEW k \in 1 .. Len(r), j < k
        PROVE  r[j] < r[k]
    <3>1. PICK j1 \in {j, j + 1} : r[j] = s[j1] /\ (j1 = j <=> j < i)
      BY <2>4, <2>5, SMTT(30)
    <3>2. PICK k1 \in {k, k + 1} : r[k] = s[k1] /\ (k1 = k <=> k < i)
      BY <2>4, <2>5, SMTT(30)
    <3>3. j1 \in 1 .. Len(s) /\ k1 \in 1 .. Len(s) /\ j1 < k1
      <4>1. /\ j \in Int /\ k \in Int /\ 1 <= j /\ j < k /\ k <= Len(s) - 1
            /\ j1 \in Int /\ k1 \in Int
        BY <2>4, <2>5, <2>6, <3>1, <3>2
      <4>2. /\ j1 = j \/ j1 = j + 1
            /\ k1 = k \/ k1 = k + 1
            /\ j1 = j <=> j < i
            /\ k1 = k <=> k < i
        BY <3>1, <3>2
      <4>3. QED
        BY <2>5, <4>1, <4>2
    <3>4. QED
      BY <3>1, <3>2, <3>3 DEF Increasing
  <2>7. ASSUME NEW j \in 1 .. Len(s), j # i PROVE s[j] \in ToSet(r)
    <3>1. CASE j < i
      <4>1. j \in 1 .. Len(r) /\ r[j] = s[j]
        BY <2>4, <2>5, <3>1
      <4>2. QED
        BY <2>4, <4>1, SetOfSeq
    <3>2. CASE j > i
      <4>1. j - 1 \in 1 .. Len(r) /\ r[j - 1] = s[j]
        BY <2>4, <2>5, <3>2
      <4>2. QED
        BY <2>4, <4>1, SetOfSeq
    <3>3. QED
      BY <2>7, <3>1, <3>2
  <2>8. ASSUME NEW j \in 1 .. Len(r) PROVE r[j] \in ToSet(s) \ {e}
    <3>1. PICK k \in 1 .. Len(s) : r[j] = s[k] /\ k # i
      <4>1. CASE j < i
        BY <2>4, <2>5, <4>1, SMTT(30)
      <4>2. CASE j >= i
        <5>1. j + 1 \in 1 .. Len(s) /\ r[j] = s[j + 1] /\ j + 1 # i
          BY <2>4, <2>5, <4>2
        <5>2. QED
          BY <5>1
      <4>3. QED
        BY <4>1, <4>2
    <3>2. QED
      BY <3>1, <2>2, SetOfSeq
  <2>9. ToSet(r) = ToSet(s) \ {e}
    <3>1. ToSet(r) \subseteq ToSet(s) \ {e}
      <4>1. \A x \in ToSet(r) : \E j \in 1 .. Len(r) : r[j] = x
        BY <2>4, SetOfSeq
      <4>2. QED
        BY <2>8, <4>1
    <3>2. ToSet(s) \ {e} \subseteq ToSet(r)
      BY <2>1, <2>7, SetOfSeq
    <3>3. QED
      BY <3>1, <3>2
  <2>10. QED
    BY <2>3, <2>4, <2>5, <2>6, <2>9 DEF Increasing
<1>3. QED
  BY <1>1, <1>2

LEMMA IncreasingAppend ==
  ASSUME NEW s \in Seq(Nat), Increasing(s), NEW e \in Nat, \A x \in ToSet(s) : x < e
  PROVE  Increasing(Append(s, e))
<1>1. /\ Len(Append(s, e)) = Len(s) + 1
      /\ \A i \in 1 .. Len(s) : Append(s, e)[i] = s[i]
      /\ Append(s, e)[Len(s) + 1] = e
  OBVIOUS
<1>2. \A i \in 1 .. Len(s) : s[i] < e
  BY SetOfSeq
<1>3. QED
  BY <1>1, <1>2 DEF Increasing

-----------------------------------------------------------------------------
(* The list, the locks and the walk, whatever the packet ids are *)

\* Places of a publisher inside lock_write_buf, and of one that has a node
Inside  == {"push", "send", "sent", "remove"}
HasNode == {"send", "sent", "remove"}
\* Places of the walk while lock_list_pub is released
Released == {"resend", "resume", "broken"}

\* Who holds the two locks
LockInv ==
  /\ \A c \in Callers : pc[c] \in Inside <=> lock_write_buf = c
  /\ lock_list_pub = Yielder <=> ypc = "iter"

\* Nodes are appended in the order they are made; a publisher's node is the
\* newest as long as it holds lock_write_buf; one that gives up has not aged.
NodeInv ==
  /\ Increasing(list_pub_wait_ack)
  /\ \A c \in Callers :
       /\ pc[c] \in {"lock", "push"} => myId[c] # 0
       /\ pc[c] \in HasNode => node[c] = Len(msg_id) /\ node[c] # 0
       /\ pc[c] = "remove" => node[c] \notin old

\* The walk goes from newer to older nodes: the iterator is past the node that
\* is to be freed, past the one sent again, and, while the lock is released,
\* past the newest, which is the only one a publisher may remove.
WalkInv ==
  /\ ypc \in {"iter"} \cup Released => next \in Listed \cup {0}
  /\ ypc \in Released => next < Len(msg_id)
  /\ ypc = "resend" => cur \in Listed \cap old
  /\ temp # 0 => temp \in Listed \ valid /\ next < temp /\ ypc = "iter"

StructInv == TypeOK /\ LockInv /\ NodeInv /\ WalkInv

USE QoSAssumption, SizeAssumption, CallerAssumption

\* The list is a sequence of nodes, and nodes are numbered from 1.
LEMMA ListTyped ==
  ASSUME TypeOK
  PROVE  /\ list_pub_wait_ack \in Seq(Made) /\ Listed \subseteq Made
         /\ Made \subseteq Nat \ {0} /\ Len(msg_id) \in Nat
         /\ Len(list_pub_wait_ack) \in Nat
         /\ DOMAIN list_pub_wait_ack = 1 .. Len(list_pub_wait_ack)
<1>1. list_pub_wait_ack \in Seq(Made) /\ msg_id \in Seq(1 .. MC_PACKET_ID_MAX)
  BY DEF TypeOK
<1>2. Listed \subseteq Made
  BY <1>1, SetOfSeq DEF Listed
<1>3. Made \subseteq Nat \ {0}
  BY DEF Made
<1>4. QED
  BY <1>1, <1>2, <1>3, LenProperties

\* What list_remove does to the list
LEMMA WithoutProperties ==
  ASSUME TypeOK, NodeInv, NEW n
  PROVE  /\ Without(n) \in Seq(Made) /\ Increasing(Without(n))
         /\ Len(Without(n)) <= Len(list_pub_wait_ack)
         /\ ToSet(Without(n)) = Listed \ {n}
<1>1. list_pub_wait_ack \in Seq(Made) /\ Listed \subseteq Made /\ Made \subseteq Nat
  BY ListTyped
<1>2. list_pub_wait_ack \in Seq(Nat)
  BY <1>1, Retype DEF Listed
<1>3. /\ Without(n) \in Seq(Nat) /\ Increasing(Without(n))
      /\ Len(Without(n)) <= Len(list_pub_wait_ack)
      /\ ToSet(Without(n)) = Listed \ {n}
  BY <1>2, RemoveFirstProperties DEF NodeInv, Without, Listed
<1>4. Without(n) \in Seq(Made)
  BY <1>1, <1>3, Retype
<1>5. QED
  BY <1>3, <1>4

\* The iterator gives an older node, or none.
LEMMA PrevProperties ==
  ASSUME TypeOK, NodeInv, NEW n \in Listed
  PROVE  Prev(n) \in Listed \cup {0} /\ Prev(n) < n /\ Prev(n) \in Nat
<1>1. /\ list_pub_wait_ack \in Seq(Made) /\ Made \subseteq Nat \ {0}
      /\ DOMAIN list_pub_wait_ack = 1 .. Len(list_pub_wait_ack)
      /\ Len(list_pub_wait_ack) \in Nat
  BY ListTyped
<1>2. n \in Nat \ {0}
  BY ListTyped
<1> DEFINE i == CHOOSE i \in DOMAIN list_pub_wait_ack : list_pub_wait_ack[i] = n
<1>3. i \in 1 .. Len(list_pub_wait_ack) /\ list_pub_wait_ack[i] = n
  BY <1>1, SetOfSeq DEF Listed
<1>4. Prev(n) = IF i = 1 THEN 0 ELSE list_pub_wait_ack[i - 1]
  BY DEF Prev
<1> HIDE DEF i
<1>5. CASE i = 1
  BY <1>2, <1>4, <1>5
<1>6. CASE i # 1
  <2>1. i - 1 \in 1 .. Len(list_pub_wait_ack) /\ i - 1 < i
    BY <1>1, <1>3, <1>6
  <2>2. list_pub_wait_ack[i - 1] < n
    BY <1>3, <2>1 DEF NodeInv, Increasing
  <2>3. list_pub_wait_ack[i - 1] \in Listed \cap Nat
    <3>1. list_pub_wait_ack[i - 1] \in Listed
      BY <1>1, <2>1, SetOfSeq DEF Listed
    <3>2. QED
      BY <3>1, ListTyped
  <2>4. QED
    BY <1>4, <1>6, <2>2, <2>3
<1>7. QED
  BY <1>5, <1>6

LEMMA LockStep == StructInv /\ [Next]_vars => LockInv'
<1> SUFFICES ASSUME StructInv, [Next]_vars PROVE LockInv'
  OBVIOUS
<1> USE DEF StructInv, LockInv, TypeOK, Inside, Goto, Free, Yielder, user, locks, iter,
            nodes, net
<1>1. ASSUME NEW c \in Callers, Publish(c) PROVE LockInv'
  BY <1>1 DEF Publish
<1>2. ASSUME NEW c \in Callers, LockWriteBuf(c) PROVE LockInv'
  BY <1>2 DEF LockWriteBuf
<1>3. ASSUME NEW c \in Callers, Push(c) \/ Send(c) \/ SendExpires(c) PROVE LockInv'
  BY <1>3 DEF Push, Send, SendExpires
<1>4. ASSUME NEW c \in Callers, PushFails(c) \/ Sent(c) \/ RemoveOwn(c) PROVE LockInv'
  BY <1>4, ZenonT(60) DEF PushFails, Sent, RemoveOwn
<1>5. ASSUME NEW c \in Callers, Disconnect(c) PROVE LockInv'
  BY <1>5 DEF Disconnect
<1>6. CASE CycleIdle \/ RecvPuback \/ RecvPubrec \/ ReadError
  BY <1>6 DEF CycleIdle, RecvPuback, RecvPubrec, ReadError
<1>7. CASE ProcBegin
  BY <1>7 DEF ProcBegin
<1>8. CASE IterEnd \/ IterInvalid \/ IterSkip \/ IterTimeout
  BY <1>8 DEF IterEnd, IterInvalid, IterSkip, IterTimeout
<1>9. CASE RePublish \/ Resume \/ ResumeBroken
  BY <1>9 DEF RePublish, Resume, ResumeBroken
<1>10. CASE Broker \/ (\E n \in Listed : Age(n)) \/ UNCHANGED vars
  BY <1>10 DEF Broker, Age, vars
<1>11. QED
  BY <1>1, <1>2, <1>3, <1>4, <1>5, <1>6, <1>7, <1>8, <1>9, <1>10
     DEF Next, Call, Yield, PubInfoProc

\* The new node of a push is newer than all in the list.
LEMMA PushProperties ==
  ASSUME StructInv, NEW c \in Callers, Push(c)
  PROVE  LET n == Len(msg_id) + 1
         IN  /\ msg_id' = Append(msg_id, myId[c]) /\ Len(msg_id') = n
             /\ msg_id' \in Seq(1 .. MC_PACKET_ID_MAX)
             /\ Made' = Made \cup {n} /\ n \notin Made /\ n \in Nat \ {0}
             /\ list_pub_wait_ack' = Append(list_pub_wait_ack, n)
             /\ list_pub_wait_ack' \in Seq(Made') /\ Listed' = Listed \cup {n}
             /\ Increasing(list_pub_wait_ack')
             /\ Len(list_pub_wait_ack') = Len(list_pub_wait_ack) + 1
<1> DEFINE n == Len(msg_id) + 1
<1>1. /\ msg_id \in Seq(1 .. MC_PACKET_ID_MAX) /\ Len(msg_id) \in Nat
      /\ list_pub_wait_ack \in Seq(Made) /\ Listed \subseteq Made
  BY ListTyped DEF StructInv, TypeOK
<1>2. /\ msg_id' = Append(msg_id, myId[c])
      /\ list_pub_wait_ack' = Append(list_pub_wait_ack, n)
  BY DEF Push
<1>3. myId[c] \in 1 .. MC_PACKET_ID_MAX
  BY DEF Push, StructInv, NodeInv, TypeOK
<1>4. msg_id' \in Seq(1 .. MC_PACKET_ID_MAX) /\ Len(msg_id') = n
  BY <1>1, <1>2, <1>3
<1>5. n \notin Made /\ n \in Nat \ {0} /\ \A m \in Made : m \in Nat /\ m < n
  BY <1>1 DEF Made
<1>6. Made' = Made \cup {n}
  BY <1>1, <1>4 DEF Made
<1>7. list_pub_wait_ack \in Seq(Nat) /\ list_pub_wait_ack \in Seq(Made')
  BY <1>1, <1>5, <1>6, Retype DEF Listed
<1>8. Increasing(list_pub_wait_ack')
  BY <1>1, <1>2, <1>5, <1>7, IncreasingAppend DEF StructInv, NodeInv, Listed
<1>9. list_pub_wait_ack' \in Seq(Made') /\ Len(list_pub_wait_ack') = Len(list_pub_wait_ack) + 1
  BY <1>2, <1>6, <1>7
<1>10. Listed' = Listed \cup {n}
  BY <1>2, <1>6, <1>7, SetOfAppend DEF Listed
<1>11. QED
  BY <1>2, <1>4, <1>5, <1>6, <1>8, <1>9, <1>10

\* One step of the iterator frees the node left behind, if there is one.
LEMMA FreeProperties ==
  ASSUME StructInv, NEW t, FreeTemp(t)
  PROVE  /\ Increasing(list_pub_wait_ack') /\ list_pub_wait_ack' \in Seq(Made)
         /\ Len(list_pub_wait_ack') <= Len(list_pub_wait_ack)
         /\ Listed' = Listed \ {temp} /\ temp' = t
<1>1. list_pub_wait_ack' = IF temp = 0 THEN list_pub_wait_ack ELSE Without(temp)
  BY DEF FreeTemp
<1>2. /\ list_pub_wait_ack \in Seq(Made) /\ Increasing(list_pub_wait_ack)
      /\ Len(list_pub_wait_ack) \in Nat /\ 0 \notin Listed
  BY ListTyped DEF StructInv, NodeInv
<1>3. /\ Increasing(list_pub_wait_ack') /\ list_pub_wait_ack' \in Seq(Made)
      /\ Len(list_pub_wait_ack') <= Len(list_pub_wait_ack)
      /\ ToSet(list_pub_wait_ack') = Listed \ {temp}
  BY <1>1, <1>2, WithoutProperties DEF StructInv, Listed
<1>4. QED
  BY <1>3 DEF FreeTemp, Listed

LEMMA NodeStep == StructInv /\ [Next]_vars => NodeInv'
<1> SUFFICES ASSUME StructInv, [Next]_vars PROVE NodeInv'
  OBVIOUS
<1>1. /\ NodeInv /\ LockInv /\ pc \in [Callers -> {"idle", "lock", "push", "send",
                                    "sent", "remove", "error"}]
      /\ myId \in [Callers -> 0 .. MC_PACKET_ID_MAX]
      /\ node \in [Callers -> Made \cup {0}] /\ Len(msg_id) \in Nat /\ old \subseteq Made
  BY ListTyped DEF StructInv, TypeOK
<1> USE <1>1 DEF NodeInv, HasNode, Goto, Free, Yielder, user, locks, iter, nodes, net
<1>2. ASSUME NEW c \in Callers, Publish(c) PROVE NodeInv'
  <2>1. NextId # 0 /\ packet_id' = NextId
    BY <1>2 DEF Publish, NextId, StructInv, TypeOK
  <2>2. QED
    BY <1>2, <2>1 DEF Publish
<1>3. ASSUME NEW c \in Callers, LockWriteBuf(c) PROVE NodeInv'
  BY <1>3 DEF LockWriteBuf
\* Nobody else has a node: the others are outside lock_write_buf.
<1>4. ASSUME NEW c \in Callers, Push(c) PROVE NodeInv'
  <2>1. /\ Len(msg_id') = Len(msg_id) + 1 /\ Increasing(list_pub_wait_ack')
    BY <1>4, PushProperties
  <2>2. \A d \in Callers \ {c} : pc[d] \notin HasNode /\ pc'[d] = pc[d]
    BY <1>4 DEF Push, LockInv, Inside
  <2>3. pc'[c] = "send" /\ node'[c] = Len(msg_id) + 1 /\ myId'[c] = 0
    BY <1>4 DEF Push
  <2>4. \A d \in Callers \ {c} : myId'[d] = myId[d]
    BY <1>4 DEF Push
  <2>5. QED
    BY <2>1, <2>2, <2>3, <2>4
<1>5. ASSUME NEW c \in Callers, PushFails(c) PROVE NodeInv'
  BY <1>5 DEF PushFails
<1>6. ASSUME NEW c \in Callers, Send(c) PROVE NodeInv'
  BY <1>6 DEF Send
<1>7. ASSUME NEW c \in Callers, Sent(c) PROVE NodeInv'
  BY <1>7 DEF Sent
<1>8. ASSUME NEW c \in Callers, SendExpires(c) PROVE NodeInv'
  BY <1>8 DEF SendExpires
<1>9. ASSUME NEW c \in Callers, RemoveOwn(c) PROVE NodeInv'
  <2>1. Increasing(list_pub_wait_ack')
    BY <1>9, WithoutProperties DEF RemoveOwn, StructInv
  <2>2. QED
    BY <1>9, <2>1 DEF RemoveOwn
<1>10. ASSUME NEW c \in Callers, Disconnect(c) PROVE NodeInv'
  BY <1>10 DEF Disconnect
<1>11. CASE CycleIdle \/ RecvPuback \/ RecvPubrec \/ ReadError \/ ProcBegin
  BY <1>11 DEF CycleIdle, RecvPuback, RecvPubrec, ReadError, ProcBegin
<1>12. CASE IterEnd \/ IterInvalid \/ IterSkip \/ IterTimeout
  <2>1. \E t : FreeTemp(t)
    BY <1>12 DEF IterEnd, IterInvalid, IterSkip, IterTimeout
  <2>2. Increasing(list_pub_wait_ack')
    BY <2>1, FreeProperties
  <2>3. UNCHANGED <<pc, myId, node, msg_id, old>>
    BY <1>12 DEF IterEnd, IterInvalid, IterSkip, IterTimeout
  <2>4. QED
    BY <2>2, <2>3
<1>13. CASE RePublish \/ Resume \/ ResumeBroken
  BY <1>13 DEF RePublish, Resume, ResumeBroken
<1>14. CASE Broker \/ UNCHANGED vars
  BY <1>14 DEF Broker, vars
<1>15. ASSUME NEW n \in Listed, Age(n) PROVE NodeInv'
  BY <1>15 DEF Age
<1>16. QED
  BY <1>2, <1>3, <1>4, <1>5, <1>6, <1>7, <1>8, <1>9, <1>10, <1>11, <1>12, <1>13, <1>14,
     <1>15 DEF Next, Call, Yield, PubInfoProc

LEMMA WalkStep == StructInv /\ [Next]_vars => WalkInv'
<1> SUFFICES ASSUME StructInv, [Next]_vars PROVE WalkInv'
  OBVIOUS
<1>1. /\ WalkInv /\ LockInv /\ NodeInv /\ TypeOK
      /\ Listed \subseteq Made /\ Made \subseteq Nat \ {0} /\ Len(msg_id) \in Nat
      /\ \A n \in Made : n <= Len(msg_id)
  BY ListTyped DEF StructInv, Made
<1>2. next \in Nat /\ temp \in Nat /\ cur \in Nat /\ valid \subseteq Made
  <2>1. /\ cur \in Made \cup {0} /\ next \in Made \cup {0} /\ temp \in Made \cup {0}
        /\ valid \subseteq Made
    BY <1>1 DEF TypeOK
  <2>2. Made \cup {0} \subseteq Nat
    BY <1>1
  <2>3. QED
    BY <2>1, <2>2
<1> USE <1>1, <1>2 DEF WalkInv, Released, Free, Yielder, user, locks, iter, nodes, net
\* The iterator moves on from next, which is not the node that is freed.
<1>3. ASSUME ypc = "iter", next # 0, IterAdvance, NEW t, FreeTemp(t)
      PROVE  /\ next' \in Listed' \cup {0} /\ next' < next /\ next \in Listed'
             /\ next' \in Nat /\ temp' = t
  <2>1. Listed' = Listed \ {temp} /\ temp' = t
    BY <1>3, FreeProperties
  <2>2. next \in Listed
    BY <1>3
  <2>3. Prev(next) \in Listed \cup {0} /\ Prev(next) < next /\ Prev(next) \in Nat
    BY <2>2, PrevProperties
  <2>4. temp # 0 => next < temp
    OBVIOUS
  <2>5. QED
    BY <1>3, <2>1, <2>2, <2>3, <2>4 DEF IterAdvance
<1>4. ASSUME UNCHANGED <<ypc, next, cur, temp, list_pub_wait_ack, valid, old, msg_id>>
      PROVE  WalkInv'
  BY <1>4 DEF Listed
<1>5. ASSUME NEW c \in Callers,
             Publish(c) \/ LockWriteBuf(c) \/ PushFails(c) \/ Send(c) \/ Sent(c)
             \/ SendExpires(c) \/ Disconnect(c)
      PROVE  WalkInv'
  <2>1. UNCHANGED <<ypc, next, cur, temp, list_pub_wait_ack, valid, old, msg_id>>
    BY <1>5 DEF Publish, LockWriteBuf, PushFails, Send, Sent, SendExpires, Disconnect
  <2>2. QED
    BY <1>4, <2>1
<1>6. ASSUME NEW c \in Callers, Push(c) PROVE WalkInv'
  <2>1. /\ Listed' = Listed \cup {Len(msg_id) + 1} /\ Len(msg_id') = Len(msg_id) + 1
        /\ Len(msg_id) + 1 \notin Made
    BY <1>6, PushProperties
  <2>2. UNCHANGED <<ypc, next, cur, temp, old>> /\ valid' = valid \cup {Len(msg_id) + 1}
    BY <1>6 DEF Push
  <2>3. QED
    BY <2>1, <2>2
\* A publisher removes the newest node, and only while the lock is released.
<1>7. ASSUME NEW c \in Callers, RemoveOwn(c) PROVE WalkInv'
  <2>1. /\ ypc # "iter" /\ node[c] = Len(msg_id) /\ node[c] \notin old
        /\ UNCHANGED <<ypc, next, cur, temp, valid, old, msg_id>>
    BY <1>7 DEF RemoveOwn, LockInv, NodeInv, HasNode
  <2>2. Listed' = Listed \ {node[c]}
    BY <1>7, WithoutProperties DEF RemoveOwn, Listed
  <2>3. ypc \in Released => next # node[c]
    BY <2>1
  <2>4. ypc = "resend" => cur # node[c]
    BY <2>1
  <2>5. temp = 0
    BY <2>1
  <2>6. QED
    BY <2>1, <2>2, <2>3, <2>4, <2>5
<1>8. CASE CycleIdle \/ RecvPuback \/ RecvPubrec \/ ReadError
  <2>1. /\ ypc = "cycle" /\ ypc' \in {"cycle", "proc"}
        /\ UNCHANGED <<next, temp>>
    BY <1>8 DEF CycleIdle, RecvPuback, RecvPubrec, ReadError
  <2>2. temp = 0
    BY <2>1
  <2>3. QED
    BY <2>1, <2>2
<1>9. CASE ProcBegin
  <2>1. UNCHANGED <<temp, list_pub_wait_ack>> /\ ypc = "proc"
    BY <1>9 DEF ProcBegin
  <2>2. CASE ypc' = "cycle"
    BY <2>1, <2>2
  <2>3. CASE ypc' # "cycle"
    <3>1. /\ list_pub_wait_ack # <<>> /\ ypc' = "iter"
          /\ next' = list_pub_wait_ack[Len(list_pub_wait_ack)]
      BY <1>9, <2>3 DEF ProcBegin, Last
    <3>2. list_pub_wait_ack \in Seq(Made) /\ Len(list_pub_wait_ack) \in Nat \ {0}
      BY <3>1, ListTyped, EmptySeq
    <3>3. next' \in Listed
      BY <3>1, <3>2, SetOfSeq DEF Listed
    <3>4. QED
      BY <2>1, <3>1, <3>3 DEF Listed
  <2>4. QED
    BY <2>2, <2>3
<1>10. CASE IterEnd
  <2>1. temp' = 0 /\ ypc' = "cycle"
    BY <1>10 DEF IterEnd, FreeTemp
  <2>2. QED
    BY <2>1
<1>11. CASE IterInvalid
  <2>1. /\ ypc = "iter" /\ next # 0 /\ IterAdvance /\ FreeTemp(next)
        /\ next \notin valid /\ UNCHANGED <<ypc, valid>>
    BY <1>11 DEF IterInvalid
  <2>2. /\ next' \in Listed' \cup {0} /\ next' < next /\ next \in Listed'
        /\ temp' = next
    BY <1>3, <2>1
  <2>3. QED
    BY <2>1, <2>2
<1>12. CASE IterSkip
  <2>1. /\ ypc = "iter" /\ next # 0 /\ IterAdvance /\ FreeTemp(0) /\ UNCHANGED ypc
    BY <1>12 DEF IterSkip
  <2>2. next' \in Listed' \cup {0} /\ temp' = 0
    BY <1>3, <2>1
  <2>3. QED
    BY <2>1, <2>2
<1>13. CASE IterTimeout
  <2>1. /\ ypc = "iter" /\ next # 0 /\ IterAdvance /\ FreeTemp(0) /\ ypc' = "resend"
        /\ next \in old /\ cur' = next /\ UNCHANGED <<old, msg_id>>
    BY <1>13 DEF IterTimeout
  <2>2. /\ next' \in Listed' \cup {0} /\ next' < next /\ next \in Listed' /\ next' \in Nat
        /\ temp' = 0
    BY <1>3, <2>1
  <2>3. next <= Len(msg_id)
    BY <2>1
  <2>4. QED
    BY <2>1, <2>2, <2>3
<1>14. CASE RePublish
  <2>1. /\ ypc = "resend" /\ ypc' \in {"resume", "broken"}
        /\ UNCHANGED <<next, temp, list_pub_wait_ack, msg_id>>
    BY <1>14 DEF RePublish
  <2>2. QED
    BY <2>1 DEF Listed
<1>15. CASE Resume \/ ResumeBroken
  <2>1. /\ ypc \in {"resume", "broken"} /\ ypc' \in {"iter", "cycle"}
        /\ UNCHANGED <<next, temp, list_pub_wait_ack>>
    BY <1>15 DEF Resume, ResumeBroken
  <2>2. QED
    BY <2>1 DEF Listed
<1>16. CASE Broker \/ UNCHANGED vars
  BY <1>4, <1>16 DEF Broker, vars
<1>17. ASSUME NEW n \in Listed, Age(n) PROVE WalkInv'
  BY <1>17 DEF Age, Listed
<1>18. QED
  BY <1>5, <1>6, <1>7, <1>8, <1>9, <1>10, <1>11, <1>12, <1>13, <1>14, <1>15, <1>16, <1>17
     DEF Next, Call, Yield, PubInfoProc

LEMMA TypeStep == StructInv /\ [Next]_vars => TypeOK'
<1> SUFFICES ASSUME StructInv, [Next]_vars PROVE TypeOK'
  OBVIOUS
<1>1. /\ TypeOK /\ LockInv /\ NodeInv /\ WalkInv
      /\ Listed \subseteq Made /\ Made \subseteq Nat \ {0}
  BY ListTyped DEF StructInv
<1> DEFINE Lists == UNCHANGED <<list_pub_wait_ack, msg_id, qos, valid, old>>
           Walk  == UNCHANGED <<ypc, cur, next, temp>>
           Calls == UNCHANGED <<pc, myId, node, calls, accepted, refused, packet_id>>
           Locks == UNCHANGED <<lock_write_buf, lock_list_pub>>
           Net   == UNCHANGED <<toBroker, toClient, received>>
<1> USE <1>1 DEF TypeOK, Goto, Free, Yielder, user, locks, iter, nodes, net
\* Nothing is made: the sets of nodes stay what they are.
<1>2. ASSUME UNCHANGED msg_id PROVE Made' = Made
  BY <1>2 DEF Made
<1>3. ASSUME NEW c \in Callers, Publish(c) PROVE TypeOK'
  <2>1. NextId \in 0 .. MC_PACKET_ID_MAX
    BY DEF NextId
  <2>2. /\ Lists /\ Walk /\ Locks /\ Net
        /\ UNCHANGED <<connected, node, accepted, refused>>
    BY <1>3 DEF Publish
  <2>3. /\ pc' = [pc EXCEPT ![c] = "lock"] /\ myId' = [myId EXCEPT ![c] = NextId]
        /\ packet_id' = NextId /\ calls' = [calls EXCEPT ![c] = @ + 1]
        /\ calls[c] < MaxPublishes
    BY <1>3 DEF Publish
  <2>4. calls' \in [Callers -> 0 .. MaxPublishes]
    BY <2>3
  <2>5. QED
    BY <1>2, <2>1, <2>2, <2>3, <2>4
<1>4. ASSUME NEW c \in Callers, LockWriteBuf(c) PROVE TypeOK'
  BY <1>2, <1>4 DEF LockWriteBuf
<1>5. ASSUME NEW c \in Callers, Push(c) PROVE TypeOK'
  <2> DEFINE n == Len(msg_id) + 1
  <2>1. /\ msg_id' \in Seq(1 .. MC_PACKET_ID_MAX) /\ Made' = Made \cup {n}
        /\ list_pub_wait_ack' \in Seq(Made')
        /\ Len(list_pub_wait_ack') = Len(list_pub_wait_ack) + 1
    BY <1>5, PushProperties
  <2>2. Len(list_pub_wait_ack') <= MC_REPUB_NUM_MAX
    BY <1>5, <2>1, ListTyped DEF Push, HasRoom
  <2>3. /\ qos' \in Seq(QoSs) /\ valid' = valid \cup {n}
        /\ node' = [node EXCEPT ![c] = n] /\ myId' = [myId EXCEPT ![c] = 0]
        /\ pc' = [pc EXCEPT ![c] = "send"]
    BY <1>5 DEF Push
  <2>4. /\ Walk /\ Locks /\ Net
        /\ UNCHANGED <<connected, calls, accepted, refused, packet_id, old>>
    BY <1>5 DEF Push
  <2>5. toBroker' \in Seq(Made') /\ toClient' \in Seq(Made')
    BY <2>1, <2>4, SeqMonotonic
  <2>6. node' \in [Callers -> Made' \cup {0}] /\ myId' \in [Callers -> 0 .. MC_PACKET_ID_MAX]
    BY <2>1, <2>3, SMTT(30)
  <2>7. valid' \subseteq Made' /\ old' \subseteq Made' /\ {cur', next', temp'} \subseteq Made' \cup {0}
    BY <2>1, <2>3, <2>4
  <2>8. received' \subseteq Made' /\ accepted' \subseteq Made' /\ refused' \subseteq Made'
    BY <2>1, <2>4
  <2> HIDE DEF n
  <2>9. QED
    BY <2>1, <2>2, <2>3, <2>4, <2>5, <2>6, <2>7, <2>8
<1>6. ASSUME NEW c \in Callers, PushFails(c) PROVE TypeOK'
  BY <1>2, <1>6, SMTT(30) DEF PushFails
<1>7. ASSUME NEW c \in Callers, Send(c) PROVE TypeOK'
  <2>1. node[c] \in Made
    BY <1>7 DEF Send, NodeInv, HasNode
  <2>2. toBroker' \in Seq(Made)
    BY <1>7, <2>1 DEF Send
  <2>3. QED
    BY <1>2, <1>7, <2>2 DEF Send
<1>8. ASSUME NEW c \in Callers, Sent(c) PROVE TypeOK'
  <2>1. node[c] \in Made
    BY <1>8 DEF Sent, NodeInv, HasNode
  <2>2. QED
    BY <1>2, <1>8, <2>1 DEF Sent
<1>9. ASSUME NEW c \in Callers, SendExpires(c) PROVE TypeOK'
  BY <1>2, <1>9 DEF SendExpires
<1>10. ASSUME NEW c \in Callers, RemoveOwn(c) PROVE TypeOK'
  <2>1. node[c] \in Made
    BY <1>10 DEF RemoveOwn, NodeInv, HasNode
  <2>2. /\ list_pub_wait_ack' \in Seq(Made)
        /\ Len(list_pub_wait_ack') <= Len(list_pub_wait_ack)
    BY <1>10, WithoutProperties DEF RemoveOwn
  <2>3. Len(list_pub_wait_ack') <= MC_REPUB_NUM_MAX
    <3>1. Len(list_pub_wait_ack) \in Nat /\ Len(list_pub_wait_ack') \in Nat
      BY <2>2, ListTyped, LenProperties
    <3>2. QED
      BY <2>2, <3>1
  <2>4. QED
    BY <1>2, <1>10, <2>1, <2>2, <2>3 DEF RemoveOwn
<1>11. ASSUME NEW c \in Callers, Disconnect(c) PROVE TypeOK'
  BY <1>2, <1>11 DEF Disconnect
<1>12. CASE CycleIdle \/ ReadError
  BY <1>2, <1>12, ZenonT(60) DEF CycleIdle, ReadError
<1>13. CASE RecvPuback \/ RecvPubrec
  <2>1. toClient' \in Seq(Made) /\ valid' \subseteq Made
    <3>1. toClient # <<>> /\ toClient' = Tail(toClient)
      BY <1>13 DEF RecvPuback, RecvPubrec
    <3>2. valid' \subseteq valid
      BY <1>13 DEF RecvPuback, RecvPubrec
    <3>3. QED
      BY <3>1, <3>2, HeadTailProperties
  <2>2. /\ Locks /\ Calls /\ UNCHANGED <<cur, next, temp, list_pub_wait_ack, msg_id, qos, old, toBroker, received, connected>>
        /\ ypc' \in {"cycle", "proc"}
    BY <1>13 DEF RecvPuback, RecvPubrec
  <2>3. QED
    BY <1>2, <2>1, <2>2
<1>14. CASE ProcBegin
  <2>1. next' \in Made \cup {0}
    <3>1. CASE list_pub_wait_ack = <<>> \/ next' = next
      BY <1>14, <3>1 DEF ProcBegin
    <3>2. CASE list_pub_wait_ack # <<>> /\ next' # next
      <4>1. next' = list_pub_wait_ack[Len(list_pub_wait_ack)]
        BY <1>14, <3>2 DEF ProcBegin, Last
      <4>2. list_pub_wait_ack \in Seq(Made) /\ Len(list_pub_wait_ack) \in Nat \ {0}
        BY <3>2, ListTyped, EmptySeq
      <4>3. QED
        BY <4>1, <4>2, ElementOfSeq
    <3>3. QED
      BY <3>1, <3>2
  <2>2. QED
    BY <1>2, <1>14, <2>1 DEF ProcBegin
<1>15. CASE IterEnd \/ IterInvalid \/ IterSkip \/ IterTimeout
  <2>1. ypc = "iter" /\ \E t \in {0, next} : FreeTemp(t)
    BY <1>15 DEF IterEnd, IterInvalid, IterSkip, IterTimeout
  <2>2. /\ list_pub_wait_ack' \in Seq(Made)
        /\ Len(list_pub_wait_ack') <= Len(list_pub_wait_ack)
        /\ temp' \in {0, next}
    BY <2>1, FreeProperties DEF StructInv
  <2>3. Len(list_pub_wait_ack') <= MC_REPUB_NUM_MAX
    <3>1. Len(list_pub_wait_ack) \in Nat /\ Len(list_pub_wait_ack') \in Nat
      BY <2>2, ListTyped, LenProperties
    <3>2. QED
      BY <2>2, <3>1
  <2>4. next' \in Made \cup {0}
    <3>1. CASE next' = next
      BY <3>1
    <3>2. CASE next' # next
      <4>1. next # 0 /\ next' = Prev(next)
        BY <1>15, <3>2 DEF IterEnd, IterInvalid, IterSkip, IterTimeout, IterAdvance
      <4>2. next \in Listed
        BY <2>1, <4>1 DEF WalkInv
      <4>3. QED
        BY <4>1, <4>2, PrevProperties
    <3>3. QED
      BY <3>1, <3>2
  <2>5. /\ Calls /\ Net /\ cur' \in {cur, next} /\ ypc' \in {"iter", "cycle", "resend"}
        /\ lock_list_pub' \in {lock_list_pub, Free}
        /\ UNCHANGED <<connected, lock_write_buf, msg_id, qos, valid, old>>
    BY <1>15 DEF IterEnd, IterInvalid, IterSkip, IterTimeout
  <2>6. QED
    BY <1>2, <2>2, <2>3, <2>4, <2>5, SMTT(30)
<1>16. CASE RePublish
  <2>1. cur \in Made
    BY <1>16 DEF RePublish, WalkInv
  <2>2. toBroker' = Append(toBroker, cur) \/ toBroker' = toBroker
    BY <1>16 DEF RePublish
  <2>3. toBroker' \in Seq(Made)
    <3>1. toBroker \in Seq(Made)
      BY DEF TypeOK
    <3>2. Append(toBroker, cur) \in Seq(Made)
      BY <2>1, <3>1, AppendProperties
    <3>3. QED
      BY <2>2, <3>1, <3>2
  <2>4. /\ Calls /\ Locks /\ ypc' \in {"resume", "broken"} /\ old' \subseteq old /\ cur' = 0
        /\ UNCHANGED <<connected, next, temp, list_pub_wait_ack, msg_id, qos, valid,
                       toClient, received>>
    BY <1>16 DEF RePublish
  <2>5. QED
    BY <1>2, <2>3, <2>4, SMTT(30)
<1>17. CASE Resume \/ ResumeBroken
  <2>1. /\ Calls /\ Lists /\ Net /\ ypc' \in {"iter", "cycle"}
        /\ lock_list_pub' \in {Yielder, Free} /\ connected' \in BOOLEAN
        /\ UNCHANGED <<cur, next, temp, lock_write_buf>>
    BY <1>17 DEF Resume, ResumeBroken
  <2>2. QED
    BY <1>2, <2>1
<1>18. CASE Broker
  <2>1. /\ toBroker # <<>> /\ toBroker' = Tail(toBroker)
        /\ toClient' = Append(toClient, Head(toBroker))
        /\ received' = received \cup {Head(toBroker)}
    BY <1>18 DEF Broker
  <2>2. Head(toBroker) \in Made /\ toBroker' \in Seq(Made)
    BY <2>1, HeadTailProperties
  <2>3. toClient' \in Seq(Made) /\ received' \subseteq Made
    <3>1. toClient \in Seq(Made) /\ received \subseteq Made
      BY DEF TypeOK
    <3>2. QED
      BY <2>1, <2>2, <3>1, AppendProperties
  <2>4. QED
    BY <1>2, <1>18, <2>2, <2>3 DEF Broker
<1>19. ASSUME NEW n \in Listed, Age(n) PROVE TypeOK'
  BY <1>2, <1>19, ZenonT(30) DEF Age
<1>20. CASE UNCHANGED vars
  BY <1>2, <1>20 DEF vars
<1>21. QED
  BY <1>3, <1>4, <1>5, <1>6, <1>7, <1>8, <1>9, <1>10, <1>11, <1>12, <1>13, <1>14, <1>15,
     <1>16, <1>17, <1>18, <1>19, <1>20 DEF Next, Call, Yield, PubInfoProc

LEMMA Structure == Spec => []StructInv
<1>1. Init => StructInv
  <2> SUFFICES ASSUME Init PROVE StructInv
    OBVIOUS
  <2>1. \A S : <<>> \in Seq(S)
    BY EmptySeq
  <2>2. TypeOK
    BY <2>1, EmptySeq DEF Init, TypeOK, Made
  <2>3. LockInv
    BY DEF Init, LockInv, Inside, Free, Yielder
  <2>4. NodeInv
    BY EmptySeq DEF Init, NodeInv, Increasing, HasNode
  <2>5. WalkInv
    BY DEF Init, WalkInv, Released
  <2>6. QED
    BY <2>2, <2>3, <2>4, <2>5 DEF StructInv
<1>2. StructInv /\ [Next]_vars => StructInv'
  BY TypeStep, LockStep, NodeStep, WalkStep DEF StructInv
<1>3. QED
  BY <1>1, <1>2, PTL DEF Spec

\* The list never holds more than MC_REPUB_NUM_MAX nodes, the locks have one
\* holder, and every node anybody points to was made by a push.
THEOREM TypeCorrect == Spec => []TypeOK
<1>1. StructInv => TypeOK
  BY DEF StructInv
<1>2. QED
  BY <1>1, Structure, PTL

-----------------------------------------------------------------------------
(* The messages, as long as packet ids do not come round to one in use *)

\* No two messages in the list or answered have one packet id.
\* MC_get_next_packetid counts to 65535 and starts again at 1, and looks at
\* no list: the hypothesis fails when a message stays in the list while 65535
\* others come and go, and with it fail the theorems that need it.
IdsDistinct ==
  \A m, n \in Listed \cup ToSet(toClient) : msg_id[m] = msg_id[n] => m = n

\* What a publisher still holds has gone nowhere.
UnsentInv ==
  \A c \in Callers :
    /\ pc[c] \in HasNode => node[c] \notin refused
    /\ pc[c] \in {"send", "remove"} =>
         /\ node[c] \in Listed \cap valid
         /\ node[c] \notin ToSet(toBroker) \cup received \cup accepted

\* Every message was refused, or is in the list, or has reached the broker.
MessageInv ==
  /\ ToSet(toClient) \subseteq received
  /\ refused \cap (ToSet(toBroker) \cup received \cup accepted \cup Listed) = {}
  /\ \A n \in Made : n \in refused \cup received \cup (Listed \cap valid)

IInv == StructInv /\ UnsentInv /\ MessageInv

\* What has gone out and what has come in, packet by packet
LEMMA NetTyped ==
  ASSUME TypeOK
  PROVE  /\ toBroker \in Seq(Made) /\ ToSet(toBroker) \subseteq Made
         /\ toClient \in Seq(Made) /\ ToSet(toClient) \subseteq Made
         /\ valid \subseteq Made /\ received \subseteq Made
         /\ accepted \subseteq Made /\ refused \subseteq Made
<1>1. toBroker \in Seq(Made) /\ toClient \in Seq(Made)
  BY DEF TypeOK
<1>2. ToSet(toBroker) \subseteq Made /\ ToSet(toClient) \subseteq Made
  BY <1>1, SetOfSeq
<1>3. QED
  BY <1>1, <1>2 DEF TypeOK

LEMMA TakeFirst ==
  ASSUME TypeOK, NEW q \in {toBroker, toClient}, q # <<>>
  PROVE  ToSet(q) = {Head(q)} \cup ToSet(Tail(q)) /\ Head(q) \in Made
<1>1. q \in Seq(Made)
  BY NetTyped
<1>2. QED
  BY <1>1, SetOfTail, HeadTailProperties

\* Each step of the walk frees at most an invalid node, and the one thing it
\* sends is a message of the list.
LEMMA WalkEffect ==
  ASSUME StructInv, PubInfoProc
  PROVE  /\ Listed' \subseteq Listed /\ Listed \cap valid = Listed' \cap valid
         /\ UNCHANGED <<msg_id, pc, node, valid, accepted, refused, toClient, received>>
         /\ \/ toBroker' = toBroker
            \/ /\ cur \in Listed /\ ToSet(toBroker') = ToSet(toBroker) \cup {cur}
               /\ lock_write_buf = Free
<1>1. TypeOK /\ WalkInv
  BY DEF StructInv
<1> USE DEF user, locks, nodes, net
<1>2. CASE IterEnd \/ IterInvalid \/ IterSkip \/ IterTimeout
  <2>1. PICK t : FreeTemp(t)
    BY <1>2 DEF IterEnd, IterInvalid, IterSkip, IterTimeout
  <2>2. Listed' = Listed \ {temp}
    BY <2>1, FreeProperties
  <2>3. temp \notin Listed \cap valid
    BY <1>1, ListTyped DEF WalkInv
  <2>4. UNCHANGED <<msg_id, pc, node, valid, accepted, refused, toClient, received, toBroker>>
    BY <1>2 DEF IterEnd, IterInvalid, IterSkip, IterTimeout
  <2>5. QED
    BY <2>2, <2>3, <2>4
<1>3. CASE RePublish
  <2>1. /\ ypc = "resend" /\ lock_write_buf = Free
        /\ toBroker' = Append(toBroker, cur) \/ toBroker' = toBroker
        /\ UNCHANGED <<list_pub_wait_ack, msg_id, pc, node, valid, accepted, refused,
                       toClient, received>>
    BY <1>3 DEF RePublish
  <2>2. cur \in Listed /\ cur \in Made
    BY <1>1, <2>1, ListTyped DEF WalkInv
  <2>3. toBroker \in Seq(Made)
    BY <1>1, NetTyped
  <2>4. ToSet(Append(toBroker, cur)) = ToSet(toBroker) \cup {cur}
    BY <2>2, <2>3, SetOfAppend
  <2>5. QED
    BY <2>1, <2>2, <2>4 DEF Listed
<1>4. CASE ProcBegin \/ Resume \/ ResumeBroken
  BY <1>4 DEF ProcBegin, Resume, ResumeBroken, Listed
<1>5. QED
  BY <1>2, <1>3, <1>4 DEF PubInfoProc

\* A PUBACK invalidates the message it answers and no other, and leaves the
\* list as it is.
LEMMA AckEffect ==
  ASSUME StructInv, MessageInv, IdsDistinct, RecvPuback \/ RecvPubrec
  PROVE  /\ UNCHANGED <<list_pub_wait_ack, msg_id, pc, node, accepted, refused,
                        toBroker, received>>
         /\ valid' \subseteq valid /\ valid \ valid' \subseteq received
         /\ ToSet(toClient') \subseteq ToSet(toClient)
<1> USE DEF user, locks, iter, nodes, net
<1>1. TypeOK /\ toClient # <<>> /\ toClient' = Tail(toClient)
  BY DEF StructInv, RecvPuback, RecvPubrec
<1>2. /\ ToSet(toClient') \subseteq ToSet(toClient)
      /\ Head(toClient) \in ToSet(toClient) /\ Head(toClient) \in received
  BY <1>1, TakeFirst DEF MessageInv
<1>3. \A n : Acked(n) => n = Head(toClient)
  BY <1>2 DEF Acked, IdsDistinct
<1>4. valid' \subseteq valid /\ valid \ valid' \subseteq received
  BY <1>2, <1>3 DEF RecvPuback, RecvPubrec
<1>5. QED
  BY <1>2, <1>4 DEF RecvPuback, RecvPubrec

\* The steps of a publisher that touch neither the messages nor its node
Quiet(c) ==
  Publish(c) \/ LockWriteBuf(c) \/ PushFails(c) \/ SendExpires(c) \/ Disconnect(c)

LEMMA QuietEffect ==
  ASSUME StructInv, NEW c \in Callers, Quiet(c)
  PROVE  /\ UNCHANGED <<list_pub_wait_ack, msg_id, node, valid, accepted, refused,
                        toBroker, toClient, received>>
         /\ \A b \in Callers : pc'[b] \in HasNode =>
              pc[b] = pc'[b] \/ (pc[b] = "send" /\ pc'[b] = "remove")
<1> USE DEF StructInv, TypeOK, HasNode, Goto, user, locks, iter, nodes, net
<1>1. CASE Publish(c)
  BY <1>1 DEF Publish
<1>2. CASE LockWriteBuf(c)
  BY <1>2 DEF LockWriteBuf
<1>3. CASE PushFails(c)
  BY <1>3 DEF PushFails
<1>4. CASE SendExpires(c)
  BY <1>4 DEF SendExpires
<1>5. CASE Disconnect(c)
  BY <1>5 DEF Disconnect
<1>6. QED
  BY <1>1, <1>2, <1>3, <1>4, <1>5 DEF Quiet

\* Only one publisher at a time is between push and send.
LEMMA Alone ==
  ASSUME StructInv, NEW b \in Callers, NEW c \in Callers,
         pc[b] \in Inside, pc[c] \in Inside
  PROVE  b = c
BY DEF StructInv, LockInv

LEMMA SendEffect ==
  ASSUME StructInv, NEW c \in Callers, Send(c)
  PROVE  /\ ToSet(toBroker') = ToSet(toBroker) \cup {node[c]} /\ pc[c] = "send"
         /\ pc' = [pc EXCEPT ![c] = "sent"]
         /\ UNCHANGED <<list_pub_wait_ack, msg_id, node, valid, accepted, refused,
                        toClient, received>>
<1>1. toBroker \in Seq(Made)
  BY NetTyped DEF StructInv
<1>2. node[c] \in Made
  BY DEF StructInv, TypeOK, NodeInv, HasNode, Send
<1>3. QED
  BY <1>1, <1>2, SetOfAppend DEF Send, Goto, user, locks, iter, nodes, net

LEMMA UnsentStep == IInv /\ IdsDistinct /\ [Next]_vars => UnsentInv'
<1> SUFFICES ASSUME IInv, IdsDistinct, [Next]_vars PROVE UnsentInv'
  OBVIOUS
<1>1. StructInv /\ UnsentInv /\ MessageInv /\ TypeOK
  BY DEF IInv, StructInv
<1>2. /\ Listed \subseteq Made /\ valid \subseteq Made /\ ToSet(toBroker) \subseteq Made
      /\ received \subseteq Made /\ accepted \subseteq Made /\ refused \subseteq Made
  BY <1>1, ListTyped, NetTyped
<1> USE <1>1 DEF UnsentInv, HasNode
<1>3. ASSUME NEW c \in Callers, Quiet(c) PROVE UnsentInv'
  BY <1>3, QuietEffect DEF Listed
<1>4. ASSUME NEW c \in Callers, Push(c) PROVE UnsentInv'
  <2> DEFINE n == Len(msg_id) + 1
  <2>1. Listed' = Listed \cup {n} /\ n \notin Made
    BY <1>4, PushProperties
  <2>2. /\ valid' = valid \cup {n} /\ node' = [node EXCEPT ![c] = n]
        /\ pc' = [pc EXCEPT ![c] = "send"] /\ pc[c] = "push"
        /\ UNCHANGED <<accepted, refused, toBroker, received>>
    BY <1>4 DEF Push, Goto, net
  <2>3. \A b \in Callers \ {c} : pc[b] \notin HasNode
    BY <2>2, Alone DEF Inside
  <2>4. pc \in [Callers -> {"idle", "lock", "push", "send", "sent", "remove", "error"}]
        /\ node \in [Callers -> Made \cup {0}]
    BY DEF TypeOK
  <2> HIDE DEF n
  <2>5. QED
    BY <1>2, <2>1, <2>2, <2>3, <2>4
<1>5. ASSUME NEW c \in Callers, Send(c) PROVE UnsentInv'
  <2>1. \A b \in Callers \ {c} : pc[b] \notin HasNode
    BY <1>5, Alone DEF Inside, Send
  <2>2. pc \in [Callers -> {"idle", "lock", "push", "send", "sent", "remove", "error"}]
    BY DEF TypeOK
  <2>3. pc[c] = "send" /\ pc' = [pc EXCEPT ![c] = "sent"] /\ UNCHANGED <<node, refused>>
    BY <1>5, SendEffect
  <2>4. QED
    BY <2>1, <2>2, <2>3
\* Nobody has a node when the call returns.
<1>6. ASSUME NEW c \in Callers, Sent(c) \/ RemoveOwn(c) PROVE UnsentInv'
  <2>1. \A b \in Callers \ {c} : pc[b] \notin HasNode
    BY <1>6, Alone DEF Inside, Sent, RemoveOwn
  <2>2. pc \in [Callers -> {"idle", "lock", "push", "send", "sent", "remove", "error"}]
    BY DEF TypeOK
  <2>3. \E p \in {"idle", "error"} : pc' = [pc EXCEPT ![c] = p]
    BY <1>6 DEF Sent, RemoveOwn, Goto
  <2>4. QED
    BY <2>1, <2>2, <2>3
<1>7. CASE RecvPuback \/ RecvPubrec
  BY <1>7, AckEffect DEF Listed
<1>8. CASE PubInfoProc
  <2>1. /\ Listed \cap valid = Listed' \cap valid
        /\ UNCHANGED <<pc, node, valid, accepted, refused, received>>
    BY <1>8, WalkEffect
  <2>2. CASE toBroker' = toBroker
    BY <2>1, <2>2
  <2>3. CASE toBroker' # toBroker
    <3>1. lock_write_buf = Free
      BY <1>8, <2>3, WalkEffect
    <3>2. \A b \in Callers : pc[b] \notin HasNode
      BY <3>1 DEF StructInv, LockInv, Inside, Free
    <3>3. QED
      BY <2>1, <3>2
  <2>4. QED
    BY <2>2, <2>3
<1>9. CASE Broker
  <2>1. ToSet(toBroker) = {Head(toBroker)} \cup ToSet(toBroker')
    BY <1>9, TakeFirst DEF Broker
  <2>2. /\ received' = received \cup {Head(toBroker)}
        /\ UNCHANGED <<list_pub_wait_ack, valid, pc, node, accepted, refused>>
    BY <1>9 DEF Broker, user, nodes
  <2>3. QED
    BY <2>1, <2>2 DEF Listed
<1>10. CASE CycleIdle \/ ReadError \/ (\E n \in Listed : Age(n)) \/ UNCHANGED vars
  BY <1>10 DEF CycleIdle, ReadError, Age, vars, user, nodes, net, Listed
<1>11. QED
  BY <1>3, <1>4, <1>5, <1>6, <1>7, <1>8, <1>9, <1>10 DEF Next, Call, Yield, Quiet

LEMMA MessageStep == IInv /\ IdsDistinct /\ [Next]_vars => MessageInv'
<1> SUFFICES ASSUME IInv, IdsDistinct, [Next]_vars PROVE MessageInv'
  OBVIOUS
<1>1. StructInv /\ UnsentInv /\ MessageInv /\ TypeOK
  BY DEF IInv, StructInv
<1>2. /\ Listed \subseteq Made /\ valid \subseteq Made /\ ToSet(toBroker) \subseteq Made
      /\ received \subseteq Made /\ accepted \subseteq Made /\ refused \subseteq Made
  BY <1>1, ListTyped, NetTyped
<1> USE <1>1 DEF UnsentInv, MessageInv, HasNode
<1>3. ASSUME NEW c \in Callers, Quiet(c) PROVE MessageInv'
  BY <1>3, QuietEffect DEF Listed, Made
<1>4. ASSUME NEW c \in Callers, Push(c) PROVE MessageInv'
  <2> DEFINE n == Len(msg_id) + 1
  <2>1. Listed' = Listed \cup {n} /\ n \notin Made /\ Made' = Made \cup {n}
    BY <1>4, PushProperties
  <2>2. /\ valid' = valid \cup {n}
        /\ UNCHANGED <<accepted, refused, toBroker, toClient, received>>
    BY <1>4 DEF Push, net
  <2> HIDE DEF n
  <2>3. QED
    BY <1>2, <2>1, <2>2
<1>5. ASSUME NEW c \in Callers, Send(c) PROVE MessageInv'
  BY <1>5, SendEffect DEF Listed, Made
<1>6. ASSUME NEW c \in Callers, Sent(c) PROVE MessageInv'
  <2>1. /\ pc[c] = "sent" /\ accepted' = accepted \cup {node[c]}
        /\ UNCHANGED <<list_pub_wait_ack, msg_id, valid, refused, toBroker, toClient, received>>
    BY <1>6 DEF Sent, nodes, net
  <2>2. QED
    BY <2>1 DEF Listed, Made
<1>7. ASSUME NEW c \in Callers, RemoveOwn(c) PROVE MessageInv'
  <2>1. /\ pc[c] = "remove" /\ list_pub_wait_ack' = Without(node[c])
        /\ refused' = refused \cup {node[c]}
        /\ UNCHANGED <<msg_id, valid, accepted, toBroker, toClient, received>>
    BY <1>7 DEF RemoveOwn, net
  <2>2. Listed' = Listed \ {node[c]}
    BY <2>1, WithoutProperties DEF Listed, StructInv
  <2>3. QED
    BY <2>1, <2>2 DEF Made
<1>8. CASE RecvPuback \/ RecvPubrec
  BY <1>8, AckEffect DEF Listed, Made
<1>9. CASE PubInfoProc
  <2>1. /\ Listed' \subseteq Listed /\ Listed \cap valid = Listed' \cap valid
        /\ UNCHANGED <<msg_id, valid, accepted, refused, toClient, received>>
    BY <1>9, WalkEffect
  <2>2. \/ toBroker' = toBroker
        \/ cur \in Listed /\ ToSet(toBroker') = ToSet(toBroker) \cup {cur}
    BY <1>9, WalkEffect
  <2>3. QED
    BY <2>1, <2>2 DEF Made
<1>10. CASE Broker
  <2>1. /\ ToSet(toBroker) = {Head(toBroker)} \cup ToSet(toBroker')
        /\ Head(toBroker) \in Made
    BY <1>10, TakeFirst DEF Broker
  <2>2. /\ received' = received \cup {Head(toBroker)}
        /\ toClient' = Append(toClient, Head(toBroker))
        /\ UNCHANGED <<list_pub_wait_ack, msg_id, valid, accepted, refused>>
    BY <1>10 DEF Broker, user, nodes
  <2>3. ToSet(toClient') = ToSet(toClient) \cup {Head(toBroker)}
    <3>1. toClient \in Seq(Made)
      BY NetTyped
    <3>2. QED
      BY <2>1, <2>2, <3>1, SetOfAppend
  <2>4. QED
    BY <2>1, <2>2, <2>3 DEF Listed, Made
<1>11. CASE CycleIdle \/ ReadError \/ (\E n \in Listed : Age(n)) \/ UNCHANGED vars
  BY <1>11 DEF CycleIdle, ReadError, Age, vars, user, nodes, net, Listed, Made
<1>12. QED
  BY <1>3, <1>4, <1>5, <1>6, <1>7, <1>8, <1>9, <1>10, <1>11 DEF Next, Call, Yield, Quiet

LEMMA Inductive == Spec /\ []IdsDistinct => []IInv
<1>1. Init => UnsentInv /\ MessageInv
  <2>1. ToSet(<<>>) = {}
    BY DEF ToSet
  <2>2. QED
    BY <2>1 DEF Init, UnsentInv, MessageInv, HasNode, Listed, Made
<1>2. IInv /\ IdsDistinct /\ [Next]_vars /\ StructInv' => IInv'
  BY UnsentStep, MessageStep DEF IInv
<1>3. StructInv /\ UnsentInv /\ MessageInv => IInv
  BY DEF IInv
<1>4. QED
  BY <1>1, <1>2, <1>3, Structure, PTL DEF Spec

-----------------------------------------------------------------------------
\* The walk over the list never stands on a freed node, though it lets go of
\* the lock to send a message again (MQTTClient.c:1734-1778): whatever the
\* packet ids, the message sent again, the iterator and the node to be freed
\* are in the list.
WalkOnList ==
  /\ ypc \in {"iter", "resend", "resume", "broken"} => next \in Listed \cup {0}
  /\ ypc = "resend" => cur \in Listed
  /\ temp # 0 => temp \in Listed

THEOREM WalkSafe == Spec => []WalkOnList
<1>1. StructInv => WalkOnList
  BY DEF StructInv, WalkInv, WalkOnList, Released
<1>2. QED
  BY <1>1, Structure, PTL

\* Nor does a publisher that takes its message back (MQTTClient.c:348-364)
\* reach a node that the walk has freed.
THEOREM NoneFreed == Spec /\ []IdsDistinct => []NoUseAfterFree
<1>1. IInv => NoUseAfterFree
  BY DEF IInv, StructInv, WalkInv, UnsentInv, NoUseAfterFree, Released
<1>2. QED
  BY <1>1, Inductive, PTL

\* iot_mqtt_publish keeps its word: what it took is in the list or with the
\* broker, what it refused is in neither (MQTTClient.c:316-374).
THEOREM Word == Spec /\ []IdsDistinct => []WordKept
<1>1. IInv => WordKept
  <2> SUFFICES ASSUME IInv PROVE WordKept
    OBVIOUS
  <2>1. accepted \subseteq Made
    BY NetTyped DEF IInv, StructInv
  <2>2. QED
    BY <2>1 DEF IInv, MessageInv, WordKept, NoLoss, RefusedNotSent
<1>2. QED
  BY <1>1, Inductive, PTL

-----------------------------------------------------------------------------
(* The wait list delivers at least once *)

\* A step of the client is a step of the promise, or none.
LEMMA PromiseStep ==
  IInv /\ IInv' /\ IdsDistinct /\ [Next]_vars => [Promise!Next]_(Promise!vars)
<1> SUFFICES ASSUME IInv, IInv', IdsDistinct, [Next]_vars
             PROVE  Promise!Next \/ UNCHANGED Promise!vars
  OBVIOUS
<1> DEFINE pending == Listed \cap valid
<1>1. StructInv /\ UnsentInv /\ MessageInv /\ TypeOK
  BY DEF IInv, StructInv
<1>2. /\ Listed \subseteq Made /\ valid \subseteq Made /\ Made \subseteq Nat \ {0}
      /\ received \subseteq Made /\ refused \subseteq Made
  BY <1>1, ListTyped, NetTyped
<1>3. ASSUME pending' = pending, UNCHANGED <<received, refused>>
      PROVE  UNCHANGED Promise!vars
  BY <1>3 DEF Promise!vars
<1> USE <1>1 DEF HasNode
<1>4. ASSUME NEW c \in Callers, Quiet(c) PROVE UNCHANGED Promise!vars
  BY <1>3, <1>4, QuietEffect DEF Listed
<1>5. ASSUME NEW c \in Callers, Push(c) PROVE Promise!Next
  <2> DEFINE n == Len(msg_id) + 1
  <2>1. Listed' = Listed \cup {n} /\ n \notin Made /\ n \in Nat \ {0}
    BY <1>5, PushProperties
  <2>2. valid' = valid \cup {n} /\ UNCHANGED <<refused, received>>
    BY <1>5 DEF Push, net
  <2> HIDE DEF n
  <2>3. pending' = pending \cup {n} /\ n \notin pending \cup received \cup refused
    BY <1>2, <2>1, <2>2
  <2>4. Promise!Offer(n) /\ n \in pending'
    BY <2>1, <2>2, <2>3 DEF Promise!Offer
  <2>5. QED
    BY <2>4 DEF Promise!Next
<1>6. ASSUME NEW c \in Callers, Send(c) \/ Sent(c) PROVE UNCHANGED Promise!vars
  <2>1. UNCHANGED <<list_pub_wait_ack, valid, received, refused>>
    BY <1>6, SendEffect DEF Sent, nodes, net
  <2>2. QED
    BY <1>3, <2>1 DEF Listed
<1>7. ASSUME NEW c \in Callers, RemoveOwn(c) PROVE Promise!Next
  <2>1. /\ pc[c] = "remove" /\ list_pub_wait_ack' = Without(node[c])
        /\ refused' = refused \cup {node[c]} /\ UNCHANGED <<valid, received>>
    BY <1>7 DEF RemoveOwn, net
  <2>2. Listed' = Listed \ {node[c]}
    BY <2>1, WithoutProperties DEF Listed, StructInv
  <2>3. node[c] \in pending \ received
    BY <2>1 DEF UnsentInv
  <2>4. pending' = pending \ {node[c]}
    BY <2>1, <2>2
  <2>5. Promise!Withdraw(node[c])
    BY <2>1, <2>3, <2>4 DEF Promise!Withdraw
  <2>6. QED
    BY <2>3, <2>5 DEF Promise!Next
<1>8. CASE RecvPuback \/ RecvPubrec
  <2>1. /\ UNCHANGED <<list_pub_wait_ack, refused, received>>
        /\ valid' \subseteq valid /\ valid \ valid' \subseteq received
    BY <1>8, AckEffect
  <2> DEFINE M == valid \ valid'
  <2>2. pending' = pending \ M
    BY <2>1 DEF Listed
  <2>3. Promise!Forget(M)
    BY <2>1, <2>2 DEF Promise!Forget
  <2>4. QED
    BY <2>1, <2>3 DEF Promise!Next
<1>9. CASE PubInfoProc
  BY <1>3, <1>9, WalkEffect
\* A message reaches the broker for the first time, or once more.
<1>10. CASE Broker
  <2> DEFINE m == Head(toBroker)
  <2>1. /\ m \in ToSet(toBroker) /\ m \in Made /\ received' = received \cup {m}
        /\ UNCHANGED <<list_pub_wait_ack, valid, refused>>
    BY <1>10, TakeFirst DEF Broker, user, nodes
  <2>2. pending' = pending
    BY <2>1 DEF Listed
  <2>3. m \in refused \cup received \cup pending /\ m \notin refused
    BY <2>1 DEF MessageInv
  <2>4. CASE m \in received
    <3>1. received' = received
      BY <2>1, <2>4
    <3>2. QED
      BY <1>3, <2>1, <2>2, <3>1
  <2>5. CASE m \notin received
    <3>1. m \in pending \ refused
      BY <2>3, <2>5
    <3>2. Promise!Receive(m)
      BY <2>1, <2>2, <3>1 DEF Promise!Receive
    <3>3. QED
      BY <3>1, <3>2 DEF Promise!Next
  <2>6. QED
    BY <2>4, <2>5
<1>11. CASE CycleIdle \/ ReadError \/ (\E n \in Listed : Age(n)) \/ UNCHANGED vars
  BY <1>3, <1>11 DEF CycleIdle, ReadError, Age, vars, user, nodes, net, Listed
<1>12. QED
  BY <1>4, <1>5, <1>6, <1>7, <1>8, <1>9, <1>10, <1>11 DEF Next, Call, Yield, Quiet

\* The list, its locks, the walk and the retransmissions together implement the
\* promise of Delivery.
THEOREM Refinement == Spec /\ []IdsDistinct => AtLeastOnce
<1>1. Init => Promise!Init
  <2>1. ToSet(<<>>) = {}
    BY DEF ToSet
  <2>2. QED
    BY <2>1 DEF Init, Promise!Init, Listed
<1>2. QED
  BY <1>1, PromiseStep, Inductive, PTL DEF Spec, AtLeastOnce, Promise!Spec

-----------------------------------------------------------------------------
(* When the packet ids are distinct *)

\* An id is given once: to the nodes, and to the publishers on their way to one.
OnTheWay == {c \in Callers : pc[c] \in {"lock", "push"}}
IdInv ==
  /\ \A m, n \in Made : msg_id[m] = msg_id[n] => m = n
  /\ \A m \in Made : msg_id[m] <= packet_id
  /\ \A c \in OnTheWay : /\ myId[c] <= packet_id
                         /\ \A m \in Made : msg_id[m] # myId[c]
  /\ \A b, c \in OnTheWay : myId[b] = myId[c] => b = c

LEMMA IdStep ==
  StructInv /\ IdInv /\ packet_id < MC_PACKET_ID_MAX /\ [Next]_vars => IdInv'
<1> SUFFICES ASSUME StructInv, IdInv, packet_id < MC_PACKET_ID_MAX, [Next]_vars
             PROVE  IdInv'
  OBVIOUS
<1>1. /\ msg_id \in Seq(1 .. MC_PACKET_ID_MAX) /\ Len(msg_id) \in Nat
      /\ packet_id \in Nat /\ myId \in [Callers -> Nat]
      /\ pc \in [Callers -> {"idle", "lock", "push", "send", "sent", "remove", "error"}]
  BY DEF StructInv, TypeOK
<1>2. \A m \in Made : msg_id[m] \in Nat
  BY <1>1 DEF Made
<1> USE <1>1, <1>2 DEF IdInv
<1>3. ASSUME UNCHANGED <<msg_id, packet_id>>, OnTheWay' \subseteq OnTheWay,
             \A c \in OnTheWay' : myId'[c] = myId[c]
      PROVE  IdInv'
  BY <1>3 DEF Made
<1>4. ASSUME NEW c \in Callers, Publish(c) PROVE IdInv'
  <2>1. /\ NextId = packet_id + 1
        /\ myId' = [myId EXCEPT ![c] = NextId] /\ packet_id' = NextId
        /\ pc' = [pc EXCEPT ![c] = "lock"] /\ UNCHANGED msg_id
    BY <1>4 DEF Publish, Goto, nodes, NextId
  <2>2. OnTheWay' = OnTheWay \cup {c} /\ myId'[c] = packet_id + 1
    BY <2>1 DEF OnTheWay
  <2>3. \A b \in OnTheWay \ {c} : myId'[b] = myId[b] /\ myId[b] \in Nat
    BY <2>1 DEF OnTheWay
  <2>4. Made' = Made
    BY <2>1 DEF Made
  <2>5. c \notin OnTheWay
    BY <1>4 DEF Publish, OnTheWay
  <2>6. QED
    BY <2>1, <2>2, <2>3, <2>4, <2>5
\* The id goes from the publisher to the node.
<1>5. ASSUME NEW c \in Callers, Push(c) PROVE IdInv'
  <2> DEFINE n == Len(msg_id) + 1
  <2>1. msg_id' = Append(msg_id, myId[c]) /\ Made' = Made \cup {n} /\ n \notin Made
    BY <1>5, PushProperties
  <2>2. /\ \A m \in Made : msg_id'[m] = msg_id[m]
        /\ msg_id'[n] = myId[c]
    BY <2>1 DEF Made
  <2>3. /\ myId' = [myId EXCEPT ![c] = 0] /\ pc' = [pc EXCEPT ![c] = "send"]
        /\ pc[c] = "push" /\ UNCHANGED packet_id
    BY <1>5 DEF Push, Goto
  <2>4. c \in OnTheWay /\ OnTheWay' = OnTheWay \ {c} /\ \A b \in OnTheWay' : myId'[b] = myId[b]
    BY <2>3 DEF OnTheWay
  <2>5. \A b \in OnTheWay : myId[b] \in Nat
    BY DEF OnTheWay
  <2> HIDE DEF n
  <2>6. ASSUME NEW m \in Made', NEW k \in Made', msg_id'[m] = msg_id'[k] PROVE m = k
    <3>1. \A j \in Made : msg_id[j] # myId[c]
      BY <2>4
    <3>2. CASE m \in Made /\ k \in Made
      <4>1. msg_id[m] = msg_id[k]
        BY <2>2, <2>6, <3>2
      <4>2. QED
        BY <3>2, <4>1
    <3>3. CASE m \in Made /\ k = n
      BY <2>2, <2>6, <3>1, <3>3
    <3>4. CASE m = n /\ k \in Made
      BY <2>2, <2>6, <3>1, <3>4
    <3>5. QED
      BY <2>1, <3>2, <3>3, <3>4
  <2>7. \A m \in Made' : msg_id'[m] <= packet_id'
    BY <2>1, <2>2, <2>3, <2>4
  <2>8. ASSUME NEW b \in OnTheWay'
        PROVE  myId'[b] <= packet_id' /\ \A m \in Made' : msg_id'[m] # myId'[b]
    <3>1. b \in OnTheWay /\ b # c /\ myId'[b] = myId[b]
      BY <2>4
    <3>2. myId[b] # myId[c] /\ myId[b] <= packet_id /\ \A m \in Made : msg_id[m] # myId[b]
      BY <2>4, <3>1
    <3>3. QED
      BY <2>1, <2>2, <2>3, <3>1, <3>2
  <2>9. QED
    BY <2>4, <2>6, <2>7, <2>8
<1>6. ASSUME NEW c \in Callers, LockWriteBuf(c) \/ PushFails(c) \/ (Call(c) /\ ~Push(c))
      PROVE  IdInv'
  <2>1. UNCHANGED <<msg_id, packet_id>>
    BY <1>6 DEF Call, LockWriteBuf, PushFails, Send, Sent, SendExpires, RemoveOwn,
                Disconnect, nodes
  <2>2. OnTheWay' \subseteq OnTheWay
    BY <1>6 DEF Call, LockWriteBuf, PushFails, Send, Sent, SendExpires, RemoveOwn,
                Disconnect, OnTheWay, Goto
  <2>3. \A b \in OnTheWay' : myId'[b] = myId[b]
    BY <1>6 DEF Call, LockWriteBuf, PushFails, Send, Sent, SendExpires, RemoveOwn,
                Disconnect, OnTheWay, Goto
  <2>4. QED
    BY <1>3, <2>1, <2>2, <2>3
<1>7. CASE Yield
  <2>1. CASE RecvPuback \/ RecvPubrec
    BY <1>3, <2>1 DEF RecvPuback, RecvPubrec, user, nodes, OnTheWay
  <2>2. CASE CycleIdle \/ ReadError
    BY <1>3, <2>2 DEF CycleIdle, ReadError, user, nodes, OnTheWay
  <2>3. CASE PubInfoProc
    <3>1. UNCHANGED <<msg_id, user>>
      BY <2>3 DEF PubInfoProc, ProcBegin, IterEnd, IterInvalid, IterSkip, IterTimeout,
                  RePublish, Resume, ResumeBroken, nodes
    <3>2. QED
      BY <1>3, <3>1 DEF user, OnTheWay
  <2>4. QED
    BY <1>7, <2>1, <2>2, <2>3 DEF Yield
<1>8. CASE Broker \/ (\E n \in Listed : Age(n)) \/ UNCHANGED vars
  BY <1>3, <1>8 DEF Broker, Age, vars, user, nodes, OnTheWay
<1>9. QED
  BY <1>4, <1>5, <1>6, <1>7, <1>8 DEF Next, Call

\* The hypothesis of the theorems above holds until the counter comes round:
\* before its 65535th publish no client has given an id twice
\* (MC_get_next_packetid, MQTTClient.c:710-719).
THEOREM NoneTwice == Spec /\ [](packet_id < MC_PACKET_ID_MAX) => []IdsDistinct
<1>1. Init => IdInv
  BY EmptySeq DEF Init, IdInv, Made, OnTheWay
<1>2. StructInv /\ IdInv => IdsDistinct
  <2> SUFFICES ASSUME StructInv, IdInv PROVE IdsDistinct
    OBVIOUS
  <2>1. Listed \subseteq Made /\ ToSet(toClient) \subseteq Made
    BY ListTyped, NetTyped DEF StructInv
  <2>2. QED
    BY <2>1 DEF IdsDistinct, IdInv
<1>3. QED
  BY <1>1, <1>2, IdStep, Structure, PTL DEF Spec

-----------------------------------------------------------------------------
(* Waiting for the locks, and the end of a walk *)

\* Who holds the lock that a thread needs for its next step, if it needs one.
\* In "cycle" it is needed to mark the nodes of a PUBACK.
Threads == Callers \cup {Yielder}
WaitsFor(t) ==
  IF t = Yielder
  THEN CASE ypc = "resend" -> lock_write_buf
         [] ypc \in {"cycle", "proc", "resume", "broken"} -> lock_list_pub
         [] OTHER -> Free
  ELSE CASE pc[t] = "lock" -> lock_write_buf
         [] pc[t] \in {"push", "remove"} -> lock_list_pub
         [] OTHER -> Free

\* No thread waits for itself, and one that waits for another waits for at most
\* two: the last of them needs no lock.
NoDeadlock ==
  \A t \in Threads : WaitsFor(t) # Free =>
    LET h == WaitsFor(t)
    IN  /\ h \in Threads \ {t}
        /\ WaitsFor(h) # Free => /\ WaitsFor(h) \in Threads \ {t, h}
                                 /\ WaitsFor(WaitsFor(h)) = Free

\* A publisher takes lock_write_buf before lock_list_pub; MQTTPubInfoProc has
\* released lock_list_pub when it takes lock_write_buf: for any number of
\* publishers no cycle of waiting threads can form (MQTTClient.c:316-374,
\* 1716-1798).
THEOREM LocksAreOrdered == Spec => []NoDeadlock
<1>1. StructInv => NoDeadlock
  <2> SUFFICES ASSUME StructInv PROVE NoDeadlock
    OBVIOUS
  <2>1. /\ \A c \in Callers : pc[c] \in Inside <=> lock_write_buf = c
        /\ lock_list_pub = Yielder <=> ypc = "iter"
        /\ lock_write_buf \in Callers \cup {Free} /\ lock_list_pub \in {Yielder, Free}
        /\ Free \notin Callers /\ Yielder \notin Callers /\ Free # Yielder
    <3>1. Free # Yielder /\ Free \notin Callers /\ Yielder \notin Callers
      BY CallerAssumption DEF Free, Yielder
    <3>2. lock_write_buf \in Callers \cup {Free} /\ lock_list_pub \in {Yielder, Free}
      BY DEF StructInv, TypeOK
    <3>3. /\ \A c \in Callers : pc[c] \in Inside <=> lock_write_buf = c
          /\ lock_list_pub = Yielder <=> ypc = "iter"
      BY DEF StructInv, LockInv
    <3> QED BY <3>1, <3>2, <3>3
  \* Whoever holds lock_list_pub waits for nobody.
  <2>2. lock_list_pub # Free => lock_list_pub = Yielder /\ ypc = "iter" /\ WaitsFor(Yielder) = Free
    BY <2>1 DEF WaitsFor
  \* Whoever holds lock_write_buf waits for lock_list_pub, or for nothing.
  <2>3. lock_write_buf # Free =>
          /\ lock_write_buf \in Callers /\ lock_write_buf # Yielder /\ pc[lock_write_buf] # "lock"
          /\ WaitsFor(lock_write_buf) \in {lock_list_pub, Free}
    <3>1. SUFFICES ASSUME lock_write_buf # Free
                   PROVE  /\ lock_write_buf \in Callers /\ lock_write_buf # Yielder
                          /\ pc[lock_write_buf] # "lock"
                          /\ WaitsFor(lock_write_buf) \in {lock_list_pub, Free}
      OBVIOUS
    <3>2. lock_write_buf \in Callers /\ lock_write_buf # Yielder
      BY <2>1, <3>1
    <3>3. pc[lock_write_buf] \in Inside
      BY <2>1, <3>2
    <3> QED BY <3>2, <3>3 DEF WaitsFor, Inside
  <2>4. ASSUME NEW t \in Threads, WaitsFor(t) # Free
        PROVE  /\ WaitsFor(t) \in Threads \ {t}
               /\ WaitsFor(WaitsFor(t)) # Free =>
                    /\ WaitsFor(WaitsFor(t)) \in Threads \ {t, WaitsFor(t)}
                    /\ WaitsFor(WaitsFor(WaitsFor(t))) = Free
    <3>1. CASE WaitsFor(t) = lock_list_pub
      <4>1. t # Yielder
        BY <2>1, <2>2, <2>4, <3>1
      <4> QED BY <2>2, <2>4, <3>1, <4>1 DEF Threads
    <3>2. CASE WaitsFor(t) = lock_write_buf /\ t = Yielder
      <4>1. ypc = "resend" \/ lock_write_buf = lock_list_pub
        BY <2>4, <3>2 DEF WaitsFor
      <4>2. lock_list_pub = Free
        BY <2>1, <2>2, <2>3, <2>4, <3>2, <4>1
      <4> QED BY <2>3, <2>4, <3>2, <4>2 DEF Threads
    <3>3. CASE WaitsFor(t) = lock_write_buf /\ t # Yielder /\ pc[t] = "lock"
      <4>1. lock_write_buf # t /\ lock_write_buf \in Threads \ {t}
        BY <2>3, <2>4, <3>3 DEF Threads
      <4>2. WaitsFor(lock_write_buf) # Free =>
              WaitsFor(lock_write_buf) = Yielder /\ WaitsFor(Yielder) = Free
        BY <2>2, <2>3, <2>4, <3>3
      <4> QED BY <2>3, <2>4, <3>3, <4>1, <4>2 DEF Threads
    <3>4. \/ WaitsFor(t) = lock_list_pub
          \/ WaitsFor(t) = lock_write_buf /\ t = Yielder
          \/ WaitsFor(t) = lock_write_buf /\ t # Yielder /\ pc[t] = "lock"
      BY <2>4 DEF WaitsFor
    <3> QED BY <3>1, <3>2, <3>3, <3>4
  <2> QED BY <2>4 DEF NoDeadlock
<1> QED BY <1>1, Structure, PTL

\* How far a walk of MQTTPubInfoProc is from its end: nodes are numbered in the
\* order they were appended, and the iterator goes to older ones.
WalkRank ==
  CASE ypc \in {"cycle", "proc"}      -> 0
    [] ypc = "iter"                   -> 4 * next + 1
    [] ypc \in {"resume", "broken"}   -> 4 * next + 2
    [] ypc = "resend"                 -> 4 * next + 3

\* Every step of a walk brings it nearer to its end, and no other thread puts
\* it off.
WalkNearsEnd ==
  [][/\ PubInfoProc /\ ypc # "proc" => WalkRank' < WalkRank
     /\ ~ PubInfoProc => WalkRank' = WalkRank]_vars

\* MQTTPubInfoProc comes to the end of the list although publishers append and
\* remove nodes while it has released lock_list_pub, and although it frees the
\* nodes it leaves behind: for any number of publishers, any length of the list
\* and any number of packets (MQTTClient.c:1716-1798).
THEOREM WalksEnd == Spec => [](WalkRank \in Nat) /\ WalkNearsEnd
<1> USE DEF user, locks, iter, nodes, net
<1>1. StructInv => WalkRank \in Nat
  <2> SUFFICES ASSUME StructInv PROVE WalkRank \in Nat
    OBVIOUS
  <2>1. next \in Nat /\ ypc \in {"cycle", "proc", "iter", "resend", "resume", "broken"}
    BY ListTyped DEF StructInv, TypeOK
  <2> QED BY <2>1 DEF WalkRank
<1>2. StructInv /\ [Next]_vars =>
        [/\ PubInfoProc /\ ypc # "proc" => WalkRank' < WalkRank
         /\ ~ PubInfoProc => WalkRank' = WalkRank]_vars
  <2> SUFFICES ASSUME StructInv, Next
               PROVE  /\ PubInfoProc /\ ypc # "proc" => WalkRank' < WalkRank
                      /\ ~ PubInfoProc => WalkRank' = WalkRank
    OBVIOUS
  <2>1. /\ TypeOK /\ NodeInv /\ WalkInv /\ next \in Nat
    BY ListTyped, SMTT(30) DEF StructInv, TypeOK
  \* The iterator goes on to an older node.
  <2>2. ASSUME ypc = "iter", next # 0, IterAdvance
        PROVE  next' \in Nat /\ next' < next
    <3>1. next \in Listed
      BY <2>1, <2>2 DEF WalkInv
    <3> QED BY <2>1, <2>2, <3>1, PrevProperties DEF IterAdvance
  <2>3. ASSUME IterEnd PROVE WalkRank' < WalkRank
    BY <2>1, <2>3 DEF IterEnd, WalkRank
  <2>4. ASSUME IterInvalid \/ IterSkip PROVE WalkRank' < WalkRank
    <3>1. ypc = "iter" /\ ypc' = "iter" /\ next # 0 /\ IterAdvance
      BY <2>1, <2>4, ListTyped DEF IterInvalid, IterSkip, TypeOK
    <3> QED BY <2>1, <2>2, <3>1 DEF WalkRank
  <2>5. ASSUME IterTimeout PROVE WalkRank' < WalkRank
    <3>1. ypc = "iter" /\ ypc' = "resend" /\ next # 0 /\ IterAdvance
      BY <2>1, <2>5, ListTyped DEF IterTimeout, TypeOK
    <3> QED BY <2>1, <2>2, <3>1 DEF WalkRank
  <2>6. ASSUME RePublish \/ Resume \/ ResumeBroken PROVE WalkRank' < WalkRank
    BY <2>1, <2>6 DEF RePublish, Resume, ResumeBroken, WalkRank
  <2>7. ASSUME ~ PubInfoProc PROVE WalkRank' = WalkRank
    <3>1. \/ UNCHANGED <<ypc, next>>
          \/ ypc = "cycle" /\ ypc' = "proc"
      <4>1. CASE \E c \in Callers : Publish(c) \/ Call(c)
        BY <4>1 DEF Publish, Call, LockWriteBuf, Push, PushFails, Send, Sent, SendExpires,
                    RemoveOwn, Disconnect
      <4>2. CASE CycleIdle \/ RecvPuback \/ RecvPubrec \/ ReadError
        BY <4>2 DEF CycleIdle, RecvPuback, RecvPubrec, ReadError
      <4>3. CASE Broker \/ \E n \in Listed : Age(n)
        BY <4>3 DEF Broker, Age
      <4> QED BY <2>7, <4>1, <4>2, <4>3 DEF Next, Yield
    <3> QED BY <3>1 DEF WalkRank
  <2>8. ASSUME PubInfoProc, ypc # "proc" PROVE WalkRank' < WalkRank
    <3>1. ~ ProcBegin
      BY <2>8 DEF ProcBegin
    <3> QED BY <2>3, <2>4, <2>5, <2>6, <2>8, <3>1 DEF PubInfoProc
  <2> QED BY <2>7, <2>8
<1> QED BY <1>1, <1>2, Structure, PTL DEF Spec, WalkNearsEnd
=============================================================================
