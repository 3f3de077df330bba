---------------------------- MODULE MC_UartPort -----------------------------
(* tcp_send_task (priority 10) and tcp_recv_task (priority 9) of main.c. *)
EXTENDS UartPort

CONSTANTS send, recv

Both == {send, recv}
BothPrio == [t \in Both |-> IF t = send THEN 10 ELSE 9]
Alone == {recv}
AlonePrio == [t \in Alone |-> 9]
=============================================================================
