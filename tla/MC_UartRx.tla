----------------------------- MODULE MC_UartRx ------------------------------
(* A ring of three slots and reception two laps long. *)
EXTENDS UartRx
=============================================================================
