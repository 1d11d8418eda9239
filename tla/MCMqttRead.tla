------------------------------ MODULE MCMqttRead ------------------------------
(* MqttRead for TLC: a packet without a body, one that fills the buffer     *)
(* exactly and two that are too long for it, by less and by more than its   *)
(* size, with one to four binary digits; strings of up to four characters.  *)
EXTENDS MqttRead

CONSTANTS pub, ack, over, long

MCRemaining == pub :> 3 @@ ack :> 0 @@ over :> 4 @@ long :> 9

Strings(chars, n) == UNION {[1..k -> chars] : k \in 1..n}
MCTopics == Strings({"a", "b", "/"}, 4)
MCFilters == {s \in Strings({"a", "/", "+", "#"}, 4) : IsFilter(s)}
MCHandlerLists == {<<f>> : f \in MCFilters} \cup {<<<<"a">>, f>> : f \in MCFilters}
MCHandlers == <<<<"b">>, <<"+">>, <<"a">>>>
MCTopic == pub :> <<"a">>
=============================================================================
