------------------------- MODULE MC_MqttSubscribe ---------------------------
(* Two filters, one or two functions, a table of two handlers. *)
EXTENDS MqttSubscribe
=============================================================================
