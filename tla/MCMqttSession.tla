---------------------------- MODULE MCMqttSession ----------------------------
(* Small instances of MqttSession for TLC. *)
EXTENDS MqttSession, TLC

CONSTANTS o1, o2, i1, i2   \* one message per direction and QoS
=============================================================================
