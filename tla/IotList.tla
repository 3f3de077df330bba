------------------------------- MODULE IotList ------------------------------
(***************************************************************************)
(* The doubly linked list of Utilities/iot/iot_list.c: what is behind the  *)
(* pointers, and the sequence it stands for (module ListSeq).              *)
(***************************************************************************)
EXTENDS Integers, SequencesExt, FiniteSetsExt

CONSTANTS
  ListNode,   \* nodes list_node_new can give
  NIL

ASSUME ListAssumption == NIL \notin ListNode

VARIABLES
  headOf, tailOf, len,  \* the list_t
  prev, nextOf,         \* of every node, garbage once freed
  listed,               \* history: the nodes pushed and not yet popped or removed
  it                    \* an iterator: [next, direction], and the nodes it gave

listVars == <<headOf, tailOf, len, prev, nextOf, listed, it>>

NodeOrNil == ListNode \cup {NIL}
Direction == {"LIST_HEAD", "LIST_TAIL"}
NoIterator == [next |-> NIL, direction |-> "LIST_HEAD", given |-> <<>>]

ListTypeOK ==
  /\ {headOf, tailOf} \subseteq NodeOrNil /\ len = Cardinality(listed)
  /\ prev \in [ListNode -> NodeOrNil] /\ nextOf \in [ListNode -> NodeOrNil]
  /\ listed \subseteq ListNode
  /\ it.next \in NodeOrNil /\ it.direction \in Direction /\ it.given \in Seq(ListNode)

ListInit ==
  /\ headOf = NIL /\ tailOf = NIL /\ len = 0 /\ listed = {} /\ it = NoIterator
  /\ prev = [n \in ListNode |-> NIL] /\ nextOf = [n \in ListNode |-> NIL]

-----------------------------------------------------------------------------
list_rpush(n) ==
  /\ n \notin listed /\ listed' = listed \cup {n} /\ len' = len + 1
  /\ IF len > 0
     THEN /\ prev' = [prev EXCEPT ![n] = tailOf]
          /\ nextOf' = [nextOf EXCEPT ![n] = NIL, ![tailOf] = n]
          /\ UNCHANGED headOf
     ELSE /\ prev' = [prev EXCEPT ![n] = NIL] /\ nextOf' = [nextOf EXCEPT ![n] = NIL]
          /\ headOf' = n
  /\ tailOf' = n
  /\ it' = NoIterator

list_lpush_NoHead(n) ==
  /\ n \notin listed /\ listed' = listed \cup {n} /\ len' = len + 1
  /\ IF len > 0
     THEN /\ nextOf' = [nextOf EXCEPT ![n] = headOf]
          /\ prev' = [prev EXCEPT ![n] = NIL, ![headOf] = n]
          /\ UNCHANGED <<headOf, tailOf>>
     ELSE /\ prev' = [prev EXCEPT ![n] = NIL] /\ nextOf' = [nextOf EXCEPT ![n] = NIL]
          /\ tailOf' = n /\ headOf' = n
  /\ it' = NoIterator

list_lpush(n) ==
  /\ n \notin listed /\ listed' = listed \cup {n} /\ len' = len + 1
  /\ IF len > 0
     THEN /\ nextOf' = [nextOf EXCEPT ![n] = headOf]
          /\ prev' = [prev EXCEPT ![n] = NIL, ![headOf] = n]
          /\ UNCHANGED tailOf
     ELSE /\ prev' = [prev EXCEPT ![n] = NIL] /\ nextOf' = [nextOf EXCEPT ![n] = NIL]
          /\ tailOf' = n
  /\ headOf' = n
  /\ it' = NoIterator

list_rpop ==
  /\ len > 0 /\ listed' = listed \ {tailOf} /\ len' = len - 1
  /\ IF len > 1
     THEN /\ tailOf' = prev[tailOf] /\ UNCHANGED headOf
          /\ nextOf' = [nextOf EXCEPT ![prev[tailOf]] = NIL, ![tailOf] = NIL]
     ELSE /\ tailOf' = NIL /\ headOf' = NIL
          /\ nextOf' = [nextOf EXCEPT ![tailOf] = NIL]
  /\ prev' = [prev EXCEPT ![tailOf] = NIL]
  /\ it' = NoIterator

list_lpop_NoCount ==
  /\ len > 0 /\ listed' = listed \ {headOf} /\ UNCHANGED len
  /\ headOf' = nextOf[headOf]
  /\ tailOf' = IF len > 1 THEN tailOf ELSE NIL
  /\ prev' = [n \in ListNode |-> IF n \in {headOf, nextOf[headOf]} THEN NIL ELSE prev[n]]
  /\ nextOf' = [nextOf EXCEPT ![headOf] = NIL]
  /\ it' = NoIterator

list_lpop ==
  /\ len > 0 /\ listed' = listed \ {headOf} /\ len' = len - 1
  /\ IF len > 1
     THEN /\ headOf' = nextOf[headOf] /\ UNCHANGED tailOf
          /\ prev' = [prev EXCEPT ![nextOf[headOf]] = NIL, ![headOf] = NIL]
     ELSE /\ tailOf' = NIL /\ headOf' = NIL
          /\ prev' = [prev EXCEPT ![headOf] = NIL]
  /\ nextOf' = [nextOf EXCEPT ![headOf] = NIL]
  /\ it' = NoIterator

\* The node is freed: its links stay as they are.  An iterator that has gone
\* past it may go on, as MQTTSubInfoProc's does.
list_remove(n) ==
  /\ n \in listed /\ listed' = listed \ {n} /\ len' = len - 1
  /\ IF prev[n] # NIL
     THEN nextOf' = [nextOf EXCEPT ![prev[n]] = nextOf[n]] /\ UNCHANGED headOf
     ELSE headOf' = nextOf[n] /\ UNCHANGED nextOf
  /\ IF nextOf[n] # NIL
     THEN prev' = [prev EXCEPT ![nextOf[n]] = prev[n]] /\ UNCHANGED tailOf
     ELSE tailOf' = prev[n] /\ UNCHANGED prev
  /\ it' = IF it.given # <<>> /\ Last(it.given) = n THEN it ELSE NoIterator

-----------------------------------------------------------------------------
list_iterator_new(d) ==
  /\ it' = [next |-> IF d = "LIST_HEAD" THEN headOf ELSE tailOf, direction |-> d, given |-> <<>>]
  /\ UNCHANGED <<headOf, tailOf, len, prev, nextOf, listed>>

list_iterator_next_OneWay ==
  /\ it.next # NIL
  /\ it' = [it EXCEPT !.next = nextOf[it.next], !.given = Append(@, it.next)]
  /\ UNCHANGED <<headOf, tailOf, len, prev, nextOf, listed>>

list_iterator_next ==
  /\ it.next # NIL
  /\ it' = [it EXCEPT !.next = IF it.direction = "LIST_HEAD" THEN nextOf[it.next]
                                                             ELSE prev[it.next],
                      !.given = Append(@, it.next)]
  /\ UNCHANGED <<headOf, tailOf, len, prev, nextOf, listed>>

ListNext ==
  \/ \E n \in ListNode : list_rpush(n) \/ list_lpush(n) \/ list_remove(n)
  \/ list_rpop \/ list_lpop
  \/ \E d \in Direction : list_iterator_new(d)
  \/ list_iterator_next
ListSpec == ListInit /\ [][ListNext]_listVars

-----------------------------------------------------------------------------
\* The nodes a walk of len steps meets from start on, by the links given
Walk(start, link) ==
  CHOOSE w \in [1 .. len -> NodeOrNil] :
    \A i \in 1 .. len : w[i] = IF i = 1 THEN start
                              ELSE IF w[i - 1] \in ListNode THEN link[w[i - 1]] ELSE NIL

Forward == Walk(headOf, nextOf)
Backward == Walk(tailOf, prev)

\* list_at(index): from the tail when index is negative
list_at(i) == IF i >= 0 THEN Forward[i + 1] ELSE Backward[-i]

\* The links, read from the head, are the sequence the calls ask for.
Sequence == INSTANCE ListSeq WITH Node <- ListNode, seq <- Forward
ListIsSequence == Sequence!Spec

\* Both directions tell the same list, and it ends where len says.
Mirrored ==
  /\ Backward = Reverse(Forward)
  /\ len > 0 => nextOf[tailOf] = NIL /\ prev[headOf] = NIL
  /\ ToSet(Forward) = listed

\* An iterator gives every node once, in its direction, although the node it
\* gave last may be removed meanwhile.
IteratorComplete ==
  LET rest == IF it.direction = "LIST_HEAD" THEN Forward ELSE Backward
  IN  /\ it.next # NIL => it.next \in listed /\ it.next \notin ToSet(it.given)
      /\ it.given # <<>> /\ it.next = NIL => listed \subseteq ToSet(it.given)

\* Walks, with list_at or an iterator, meet what is in the list.
WalksCorrect == Mirrored /\ IteratorComplete
=============================================================================
