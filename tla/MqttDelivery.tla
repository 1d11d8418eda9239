---------------------------- MODULE MqttDelivery ----------------------------
(***************************************************************************)
(* What an MQTT session promises for one set of application messages,      *)
(* whatever packets, timers and connections it uses underneath.            *)
(*                                                                         *)
(* A message is offered by its sender, delivered to the application on the *)
(* other side, and settled: the sender has stopped remembering it.  QoS 1  *)
(* is delivered at least once before it is settled, QoS 2 exactly once.    *)
(* A receiver without memory may forget a delivery: then, and as long as   *)
(* it has not remembered one, another may follow.                          *)
(***************************************************************************)
EXTENDS Naturals

CONSTANTS AtLeastOnce,   \* messages sent with QoS 1
          ExactlyOnce,   \* messages sent with QoS 2
          Forgettable    \* those of them whose receiver may forget them

VARIABLES offered,       \* messages the sender has handed to its session
          delivered,     \* number of deliveries of a message, 2 = "several"
          settled,       \* messages the sender may forget
          forgotten      \* messages the receiver has delivered and forgotten

vars == <<offered, delivered, settled, forgotten>>

Message == AtLeastOnce \cup ExactlyOnce

Init == /\ offered = {}
        /\ delivered = [m \in Message |-> 0]
        /\ settled = {} /\ forgotten = {}

Offer(m) == /\ m \notin offered
            /\ offered' = offered \cup {m}
            /\ UNCHANGED <<delivered, settled, forgotten>>

\* Several deliveries are not told apart: the count stops at 2.
Deliver(m) == /\ m \in offered
              /\ m \in ExactlyOnce => delivered[m] = 0 \/ m \in forgotten
              /\ delivered' = [delivered EXCEPT ![m] = IF @ = 2 THEN 2 ELSE @ + 1]
              /\ \/ forgotten' = forgotten \ {m}
                 \/ m \in Forgettable /\ forgotten' = forgotten \cup {m}
              /\ UNCHANGED <<offered, settled>>

\* Nothing is forgotten before it has reached the other side.
Settle(m) == /\ m \in offered \ settled
             /\ delivered[m] > 0
             /\ settled' = settled \cup {m}
             /\ UNCHANGED <<offered, delivered, forgotten>>

Next == \E m \in Message : Offer(m) \/ Deliver(m) \/ Settle(m)

Spec == Init /\ [][Next]_vars
=============================================================================
