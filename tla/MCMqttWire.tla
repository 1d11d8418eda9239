------------------------------ MODULE MCMqttWire ------------------------------
(* MqttWire for TLC: packets of one to three bytes in a buffer of four.     *)
EXTENDS MqttWire, TLC

CONSTANTS m1, q0, rec, rel, ping

MCLength == m1 :> 3 @@ q0 :> 2 @@ rec :> 2 @@ rel :> 2 @@ ping :> 1
=============================================================================
