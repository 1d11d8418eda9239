------------------------------ MODULE MqttTopic ------------------------------
(***************************************************************************)
(* Which handler of mqttclient.c gets a message: the walk of               *)
(* mqtt_topic_is_matched() through a filter and a topic, and the search of *)
(* mqtt_get_msg_handler() through the list of handlers. Both strings are   *)
(* sequences of characters.                                                *)
(***************************************************************************)
EXTENDS Naturals, SequencesExt

\* Where the '+' stops: at the end of the level that n is in, which has at
\* least the character at n.
LevelEnd(topic, n) ==
  Min({i \in n..Len(topic) : topic[i] = "/"} \cup {Len(topic) + 1})

\* The characters at curf and curn fit together.
CharsFit(f, n) == (n = "/" => f = "/") /\ f \in {"+", "#", n}

\* One round of the loop: where curn is when the character of the filter at
\* curf was c, and it was n. There must be a character at n, and it must fit;
\* otherwise the loop ends there and matches nothing (0).
Round(c, topic, n) ==
  IF n \notin 1..Len(topic) \/ ~CharsFit(c, topic[n]) THEN 0
  ELSE CASE c = "+" -> LevelEnd(topic, n)
         [] c = "#" -> Len(topic) + 1
         [] OTHER -> n + 1

\* Where curn is after f characters of the filter.
Curn(filter, topic) ==
  LET curn[f \in 0..Len(filter)] ==
        IF f = 0 THEN 1 ELSE Round(filter[f], topic, curn[f - 1])
  IN  curn

IsMatched_NoEnd(filter, topic) ==
  \E f \in 0..Len(filter) : Curn(filter, topic)[f] = Len(topic) + 1

\* It matches when both have come to their end.
IsMatched(filter, topic) == Curn(filter, topic)[Len(filter)] = Len(topic) + 1

\* The first handler in the list, or 0.
MsgHandler(filters, topic) ==
  LET found == {i \in DOMAIN filters : filters[i] = topic \/ IsMatched(filters[i], topic)}
  IN  IF found = {} THEN 0 ELSE Min(found)
-----------------------------------------------------------------------------
(* What a filter stands for (MQTT 3.1.1, 4.7): it is compared level by      *)
(* level, '+' is any one level, '#' all that are left, also none.           *)
NumLevels(s) == Cardinality({i \in 1..Len(s) : s[i] = "/"}) + 1
LevelStart(s) ==
  LET start[k \in 1..NumLevels(s)] ==
        IF k = 1 THEN 1 ELSE LevelEnd(s, start[k - 1]) + 1
  IN  start
Levels(s) ==
  [k \in 1..NumLevels(s) |->
     SubSeq(s, LevelStart(s)[k], LevelEnd(s, LevelStart(s)[k]) - 1)]

LevelFits(f, t) == f = <<"+">> \/ f = t
EndsInHash(fs) == fs[Len(fs)] = <<"#">>
Fixed(fs) == IF EndsInHash(fs) THEN Len(fs) - 1 ELSE Len(fs)

StandsFor(filter, topic) ==
  LET fs == Levels(filter)  ts == Levels(topic)
  IN  /\ IF EndsInHash(fs) THEN Len(ts) >= Fixed(fs) ELSE Len(ts) = Fixed(fs)
      /\ \A k \in 1..Fixed(fs) : LevelFits(fs[k], ts[k])

\* Every wildcard has a character to stand for.
Substantial(filter, topic) ==
  LET fs == Levels(filter)  ts == Levels(topic)
  IN  /\ \A k \in 1..Fixed(fs) : fs[k] = <<"+">> => ts[k] # <<>>
      /\ EndsInHash(fs) => Len(ts) >= Len(fs) /\ ts[Len(fs)] # <<>>

\* A filter the broker accepts: a wildcard is a level, '#' the last one.
IsFilter(s) ==
  LET fs == Levels(s)
  IN  \A k \in DOMAIN fs : \A i \in DOMAIN fs[k] :
        /\ fs[k][i] \in {"+", "#"} => Len(fs[k]) = 1
        /\ fs[k][i] = "#" => k = Len(fs)
=============================================================================
