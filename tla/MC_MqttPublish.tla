-------------------------- MODULE MC_MqttPublish ----------------------------
(* Two publishers next to the thread that yields. *)
EXTENDS MqttPublish

CONSTANTS p1, p2

Two == {p1, p2}
One == {p1}
=============================================================================
