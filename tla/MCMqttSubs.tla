----------------------------- MODULE MCMqttSubs -----------------------------
(* Small instances of MqttSubs for TLC: two topics are granted, one refused. *)
EXTENDS MqttSubs

CONSTANTS a, b, bad
=============================================================================
