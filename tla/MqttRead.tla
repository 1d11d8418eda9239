------------------------------ MODULE MqttRead ------------------------------
(***************************************************************************)
(* How mqttclient.c takes packets from its connection: mqtt_read_packet()  *)
(* reads a header byte, the digits of the remaining length and the rest,   *)
(* or throws the rest away when the read buffer is too short for it, and   *)
(* mqtt_packet_handle() passes a message on to its handler.                *)
(*                                                                         *)
(* A byte is its place in the stream the broker has sent. Every read asks  *)
(* for a number of bytes and may give up before it has them: on a timeout, *)
(* which loses those already taken, or at the end of a connection the      *)
(* broker has closed. (Names that MqttWire has too begin with Read here.)  *)
(***************************************************************************)
EXTENDS MqttTopic

CONSTANTS Publishes, Others,  \* PUBLISH packets and all others
          Remaining,          \* [Incoming -> remaining length]
          Base,               \* of the digits of a length: 128
          ReadBufSize,        \* c->mqtt_read_buf_size
          Topic,              \* [Publishes -> topic of the message]
          Filters,            \* those of c->mqtt_msg_handler_list, in its order
          Topics,             \* and lists of filters to compare with
          HandlerLists,       \* what filters stand for
          MaxSent,            \* bounds the packets the broker sends
          MaxTimeouts         \* and the reads that give up inside a packet

Incoming == Publishes \cup Others

VARIABLES sent,         \* packets of the broker, and the bytes sent before each
          arrived,      \* bytes of the stream that have come, or will come
          closed,       \* the broker has closed the connection
          taken,        \* bytes of the stream that the client has read
          pc,           \* where the reading thread is
          buf,          \* c->mqtt_read_buf: the bytes read of the packet
          digits,       \* digits read of its remaining length
          value,        \* what they make
          multiplier,   \* and what the next one counts
          left,         \* packet_len - total_bytes_read of mqtt_packet_drain()
          handled,      \* numbers of packets, or 0 for a broken one, and the
                        \* handlers they went to
          timeouts,     \* reads that have given up inside a packet
          interrupted   \* some read was given up inside one, or cut off (history)

broker == <<sent, arrived, closed>>
number == <<digits, value, multiplier>>
history == <<timeouts, interrupted>>
readVars == <<broker, taken, pc, buf, number, left, handled, history>>

MaxDigits == 4   \* MAX_NO_OF_REMAINING_LENGTH_BYTES

\* n without its k lowest digits.
Shift(n, k) ==
  LET once == n \div Base  twice == once \div Base  thrice == twice \div Base
  IN  <<n, once, twice, thrice, thrice \div Base>>[k + 1]

NumDigits(n) == IF Shift(n, 1) = 0 THEN 1 ELSE IF Shift(n, 2) = 0 THEN 2
                ELSE IF Shift(n, 3) = 0 THEN 3 ELSE 4
HeaderLen(n) == 1 + NumDigits(n)
PacketLen(p) == HeaderLen(Remaining[p]) + Remaining[p]

ASSUME ReadAssumption ==
  /\ Base \in Nat /\ Base > 1 /\ ReadBufSize \in Nat /\ ReadBufSize > 1 + MaxDigits
  /\ Remaining \in [Incoming -> Nat] /\ Publishes \cap Others = {}
  /\ \A p \in Incoming : Shift(Remaining[p], MaxDigits) = 0

\* Filters are those the broker has accepted, and topics those it sends.
ASSUME TopicAssumption ==
  /\ \A filters \in HandlerLists \cup {Filters} :
       filters \in Seq(Seq(STRING)) /\ \A i \in DOMAIN filters : IsFilter(filters[i])
  /\ Topics \subseteq Seq(STRING) /\ Topic \in [Publishes -> Seq(STRING)]

\* The packet number k ends there, and its body is this.
EndOf(k) == IF k = 0 THEN 0 ELSE sent[k].from + PacketLen(sent[k].pkt)
Body(k) == (sent[k].from + HeaderLen(Remaining[sent[k].pkt]) + 1)..EndOf(k)

\* A digit has a bit that says that another one follows. What is no digit, but
\* is read as one after an interruption, may have any value.
IsDigit(p, i) == i > 1 /\ i <= HeaderLen(Remaining[p])
Digit(p, i) == [d |-> Shift(Remaining[p], i - 2) % Base, more |-> i < HeaderLen(Remaining[p])]
Digits(place) ==
  {digit \in [d : 0..(Base - 1), more : BOOLEAN] :
     \A k \in DOMAIN sent : LET i == place - sent[k].from  p == sent[k].pkt
                            IN  IsDigit(p, i) => digit = Digit(p, i)}

ReadInit ==
  /\ sent = <<>> /\ arrived = 0 /\ closed = FALSE /\ taken = 0 /\ pc = "header"
  /\ buf = {} /\ digits = 0 /\ value = 0 /\ multiplier = 1 /\ left = 0
  /\ handled = <<>> /\ timeouts = 0 /\ interrupted = FALSE
-----------------------------------------------------------------------------
(* The broker *)

BrokerSends(p) ==
  /\ ~closed /\ Len(sent) < MaxSent
  /\ sent' = Append(sent, [pkt |-> p, from |-> arrived])
  /\ arrived' = arrived + PacketLen(p)
  /\ UNCHANGED <<closed, taken, pc, buf, number, left, handled, history>>

\* What is on its way may be cut off anywhere.
BrokerCloses ==
  /\ ~closed
  /\ closed' = TRUE
  /\ arrived' \in taken..arrived
  /\ UNCHANGED <<sent, taken, pc, buf, number, left, handled, history>>
-----------------------------------------------------------------------------
(* network_read(): all that is asked for, or -1 after a timeout or an       *)
(* error, or what there was before the end of the connection.               *)

Gets(n) == taken + n <= arrived /\ taken' = taken + n /\ UNCHANGED history

TimesOut(n) ==
  /\ timeouts < MaxTimeouts /\ timeouts' = timeouts + 1
  /\ interrupted' = TRUE
  /\ \E k \in 0..(n - 1) : taken + k <= arrived /\ taken' = taken + k

Ends(n) ==
  /\ closed /\ arrived < taken + n
  /\ taken' = arrived /\ interrupted' = TRUE
  /\ UNCHANGED timeouts

\* A read that finds no header byte changes nothing.
ReadHeader ==
  /\ pc = "header" /\ Gets(1)
  /\ buf' = {taken'} /\ digits' = 0 /\ value' = 0 /\ multiplier' = 1
  /\ pc' = "length"
  /\ UNCHANGED <<broker, left, handled>>

\* mqtt_decode_packet() has returned: what follows from the length.
Sized_Early(v) ==
  /\ left' = v
  /\ pc' = IF HeaderLen(v) + v >= ReadBufSize THEN "drain"
           ELSE IF v > 0 THEN "body" ELSE "handle"

Sized(v) ==
  /\ left' = v
  /\ pc' = IF HeaderLen(v) + v > ReadBufSize THEN "drain"
           ELSE IF v > 0 THEN "body" ELSE "handle"

ReadDigit_ThreeDigits ==
  /\ pc = "length" /\ Gets(1)
  /\ \E digit \in Digits(taken') :
       /\ digits' = digits + 1
       /\ value' = value + digit.d * multiplier
       /\ multiplier' = multiplier * Base
       /\ IF digit.more /\ digits' < MaxDigits - 1 THEN UNCHANGED <<pc, left>> ELSE Sized(value')
  /\ UNCHANGED <<broker, buf, handled>>

ReadDigit ==
  /\ pc = "length" /\ Gets(1)
  /\ \E digit \in Digits(taken') :
       /\ digits' = digits + 1
       /\ value' = value + digit.d * multiplier
       /\ multiplier' = multiplier * Base
       /\ IF digit.more /\ digits' < MaxDigits THEN UNCHANGED <<pc, left>> ELSE Sized(value')
  /\ UNCHANGED <<broker, buf, handled>>

\* The caller does not look at the result: it goes on with what there is.
DigitFails ==
  /\ pc = "length" /\ (TimesOut(1) \/ Ends(1))
  /\ Sized(value)
  /\ UNCHANGED <<broker, buf, number, handled>>

ReadBody ==
  /\ pc = "body" /\ Gets(value)
  /\ buf' = buf \cup (taken + 1)..taken'
  /\ pc' = "handle"
  /\ UNCHANGED <<broker, number, left, handled>>

BodyFails ==
  /\ pc = "body" /\ (TimesOut(value) \/ Ends(value))
  /\ pc' = "header"
  /\ UNCHANGED <<broker, buf, number, left, handled>>

\* mqtt_packet_drain() asks for the buffer's size, or for what is left.
Asked == IF left < ReadBufSize THEN left ELSE ReadBufSize
DrainTo(n) == left' = n /\ pc' = IF n > 0 THEN "drain" ELSE "header"

Drain_Once ==
  /\ pc = "drain" /\ Gets(Asked)
  /\ left' = left - Asked /\ pc' = "header"
  /\ UNCHANGED <<broker, buf, number, handled>>

Drain ==
  /\ pc = "drain" /\ Gets(Asked)
  /\ DrainTo(left - Asked)
  /\ UNCHANGED <<broker, buf, number, handled>>

\* The -1 of a read is taken for a number of bytes.
DrainTimesOut ==
  /\ pc = "drain" /\ TimesOut(Asked)
  /\ DrainTo(left + 1)
  /\ UNCHANGED <<broker, buf, number, handled>>

DrainEnds ==
  /\ pc = "drain" /\ Ends(Asked)
  /\ IF taken = arrived THEN pc' = "header" /\ UNCHANGED left
                        ELSE DrainTo(left - (arrived - taken))
  /\ UNCHANGED <<broker, buf, number, handled>>
-----------------------------------------------------------------------------
(* mqtt_packet_handle() *)

Whole(k) == buf = {sent[k].from + 1} \cup Body(k)
IsBroken == \A k \in DOMAIN sent : ~Whole(k)
HandledAs(k, handler) == handled' = Append(handled, [nr |-> k, handler |-> handler])

\* A message goes to a handler (or to the interceptor, 0). What a broken packet is
\* taken for, and whose handler that calls, is not told apart.
Handle ==
  /\ pc = "handle"
  /\ \/ \E k \in DOMAIN sent : /\ Whole(k) /\ sent[k].pkt \in Publishes
                               /\ HandledAs(k, MsgHandler(Filters, Topic[sent[k].pkt]))
     \/ \E k \in DOMAIN sent : Whole(k) /\ sent[k].pkt \in Others /\ HandledAs(k, 0)
     \/ IsBroken /\ HandledAs(0, 0)
  /\ pc' = "header"
  /\ UNCHANGED <<broker, taken, buf, number, left, history>>
-----------------------------------------------------------------------------
Read == \/ ReadHeader \/ ReadDigit \/ DigitFails \/ ReadBody \/ BodyFails
        \/ Drain \/ DrainTimesOut \/ DrainEnds \/ Handle

ReadNext == BrokerCloses \/ Read \/ \E p \in Incoming : BrokerSends(p)

ReadSpec == ReadInit /\ [][ReadNext]_readVars

\* The thread reads on.
ReadFairSpec == ReadSpec /\ WF_readVars(Read)
-----------------------------------------------------------------------------
ReadFits(k) == PacketLen(sent[k].pkt) <= ReadBufSize

\* Of the first n packets those that fit were handled, each once and in order.
HandledUpTo(n) ==
  /\ {handled[i].nr : i \in DOMAIN handled} = {k \in 1..n : ReadFits(k)}
  /\ \A i, j \in DOMAIN handled : i < j => handled[i].nr < handled[j].nr

(* Between two packets the reader is at the beginning of one: whatever the  *)
(* lengths, it has handled the packets before that fit its buffer, each     *)
(* once and in order, and thrown away exactly the others; only a read that  *)
(* gives up inside a packet changes that, never one that finds nothing.     *)
InStep ==
  pc = "header" /\ ~interrupted =>
    \E n \in 0..Len(sent) : taken = EndOf(n) /\ HandledUpTo(n)

(* A connection that is closed in the middle of a packet makes the client   *)
(* handle one broken packet at most, after all the whole ones.              *)
BrokenIsLast ==
  timeouts = 0 =>
    \A i \in DOMAIN handled : handled[i].nr = 0 => i = Len(handled) /\ closed

(* A message goes to the first handler whose filter stands for its topic,   *)
(* where each wildcard has a character to stand for, and to none only when  *)
(* there is no such filter: whatever filters and topics there are           *)
(* (mqtt_get_msg_handler, mqtt_topic_is_matched).                           *)
FirstFitting(filters, topic) ==
  LET fit == {i \in DOMAIN filters :
                StandsFor(filters[i], topic) /\ Substantial(filters[i], topic)}
  IN  IF fit = {} THEN 0 ELSE Min(fit)

SearchIsRight ==
  \A filters \in HandlerLists, topic \in Topics :
    MsgHandler(filters, topic) = FirstFitting(filters, topic)

CallsSubscribed ==
  /\ SearchIsRight
  /\ \A i \in DOMAIN handled :
       handled[i].nr > 0 /\ sent[handled[i].nr].pkt \in Publishes =>
         handled[i].handler = FirstFitting(Filters, Topic[sent[handled[i].nr].pkt])

(* Every packet that fits is handled, whatever too long ones are between,   *)
(* unless a packet was interrupted.                                         *)
AllRead ==
  \A n \in 1..MaxSent :
    Cardinality({k \in DOMAIN sent : ReadFits(k)}) >= n
      ~> interrupted \/ closed \/ Len(handled) >= n
=============================================================================
