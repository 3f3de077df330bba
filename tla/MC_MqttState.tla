--------------------------- MODULE MC_MqttState -----------------------------
(* Two threads publish next to the one that yields. *)
EXTENDS MqttState

CONSTANTS p1, p2

Two == {p1, p2}
None == {}
=============================================================================
