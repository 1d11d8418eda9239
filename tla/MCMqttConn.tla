----------------------------- MODULE MCMqttConn -----------------------------
(* Call budgets of MqttConn for TLC. *)
EXTENDS MqttConn

Calls5(c, a, d, o, r) ==
  [k \in Call |-> CASE k = "connect" -> c [] k = "again" -> a
                    [] k = "disconnect" -> d [] k = "overflow" -> o
                    [] k = "release" -> r]

Everything == Calls5(2, 1, 1, 1, 2)   \* connect and release may be retried
ConnectDisconnect == Calls5(1, 0, 1, 0, 0)
=============================================================================
