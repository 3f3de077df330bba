----------------------------- MODULE ByteStream -----------------------------
(***************************************************************************)
(* What the receive path promises between two of its layers: bytes arrive  *)
(* in order, and the reader takes each at most once, in order and never    *)
(* before it has arrived.  The stream is exact as long as nothing happened *)
(* that breaks this promise; once it is not, it never is again.            *)
(***************************************************************************)
EXTENDS Naturals

VARIABLES
  arrived,   \* number of bytes that arrived
  taken,     \* number of the last byte the reader has taken
  exact      \* no byte was lost or overtaken so far

vars == <<arrived, taken, exact>>

Init == arrived = 0 /\ taken = 0 /\ exact = TRUE

\* Bytes arrive; the reader may be too slow for them.
Arrive ==
  /\ arrived' \in Nat /\ arrived' > arrived
  /\ exact' \in {exact, FALSE}
  /\ UNCHANGED taken

\* The reader takes the next bytes.
Take ==
  /\ taken' \in Nat
  /\ exact => taken <= taken' /\ taken' <= arrived
  /\ UNCHANGED <<arrived, exact>>

Next == Arrive \/ Take

Spec == Init /\ [][Next]_vars

\* Nothing is taken that has not arrived.
TakenHasArrived == exact => taken <= arrived
=============================================================================
