------------------------------ MODULE ListSeq -------------------------------
(***************************************************************************)
(* What Utilities/iot/iot_list.h promises: a sequence of distinct nodes.   *)
(***************************************************************************)
EXTENDS SequencesExt

CONSTANT Node
VARIABLE seq

Init == seq = <<>>

Push(n) == n \notin ToSet(seq) /\ seq' \in {Append(seq, n), <<n>> \o seq}
Pop == seq # <<>> /\ seq' \in {Front(seq), Tail(seq)}
Delete(n) == \E i \in DOMAIN seq : seq[i] = n /\ seq' = RemoveAt(seq, i)

Next == Pop \/ \E n \in Node : Push(n) \/ Delete(n)
Spec == Init /\ [][Next]_seq
=============================================================================
