------------------------------ MODULE Delivery ------------------------------
(***************************************************************************)
(* What a client that publishes with QoS 1 promises, whatever its lists,   *)
(* locks and timers: a message it has taken stays pending until the broker *)
(* has it, and a message it has given back never reaches the broker.       *)
(***************************************************************************)
CONSTANT Message

VARIABLES pending, received, withdrawn

vars == <<pending, received, withdrawn>>

Init == pending = {} /\ received = {} /\ withdrawn = {}

\* The client takes a message.
Offer(m) ==
  /\ m \in Message /\ m \notin pending \cup received \cup withdrawn
  /\ pending' = pending \cup {m}
  /\ UNCHANGED <<received, withdrawn>>

\* publish() fails and the client gives the message back.
Withdraw(m) ==
  /\ m \in pending \ received
  /\ pending' = pending \ {m}
  /\ withdrawn' = withdrawn \cup {m}
  /\ UNCHANGED received

\* The broker gets a message; it may get it again.
Receive(m) ==
  /\ m \in pending \ withdrawn
  /\ received' = received \cup {m}
  /\ UNCHANGED <<pending, withdrawn>>

\* Acknowledged messages are no longer the client's.
Forget(M) ==
  /\ M \subseteq received
  /\ pending' = pending \ M
  /\ UNCHANGED <<received, withdrawn>>

\* Whatever is offered is in pending', however many messages there may be.
Next ==
  \/ \E m \in pending' : Offer(m)
  \/ \E m \in pending : Withdraw(m) \/ Receive(m)
  \/ \E M \in SUBSET received : Forget(M)

Spec == Init /\ [][Next]_vars
=============================================================================
