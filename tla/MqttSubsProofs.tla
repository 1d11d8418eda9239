--------------------------- MODULE MqttSubsProofs ---------------------------
(***************************************************************************)
(* Proofs about MqttSubs: a message handler has one owner, its topic has   *)
(* no second one, and only a client that has unsubscribed ever uses memory *)
(* that is not a handler.  As long as no packet id is taken that is still  *)
(* in use, no handler is leaked but those whose node had no memory, and a  *)
(* reconnect restores the subscriptions of all handlers; with enough ids   *)
(* for the calls and resubscriptions that is always so.                    *)
(***************************************************************************)
EXTENDS MqttSubs, FiniteSetTheorems, SequenceTheorems, TLAPS

\* No UNSUBACK node shares the handler of a SUBACK node.
Separate == \A m \in Pending, n \in nodes \ Pending : m.h # n.h

\* What is known of the lists of handlers and of nodes.
Ownership == OneOwner /\ OneHandlerPerTopic /\ Separate

\* mqtt_try_resubscribe() visits handlers that stay installed meanwhile.
Visit == resub \subseteq installed /\ (yield = "loop" => resub = {})

\* An unsubscription is under way somewhere.
Unsubscribing ==
  \/ user.pc = "unsubscribe"
  \/ \E k \in DOMAIN c2b : c2b[k].kind = "UNSUBSCRIBE"
  \/ \E k \in DOMAIN b2c : b2c[k].kind = "UNSUBACK"
  \/ nodes \ Pending # {}

\* Why memory that is not a handler may be used.
Safe == SubscribeIsSafe /\ (Unsubscribing => unsubbed # {})

\* The inductive invariant.
IInv == TypeOK /\ Ownership /\ Visit /\ Safe
-----------------------------------------------------------------------------
(* The functions on the lists. *)

(* mqtt_msg_handler_create() and mqtt_ack_list_record(): memory nobody owns *)
(* gets at most one owner, the node.                                        *)
LEMMA CreateKeeps ==
  ASSUME TypeOK, Ownership, NEW t \in Topic, NEW i \in PacketId,
         CreateAndRecord(t, i), installed' = installed
  PROVE  /\ Ownership' /\ mem' \in [Handler -> Topic \cup {NoTopic}]
         /\ nodes' \subseteq Node /\ nodes' \ Pending' = nodes \ Pending
         /\ leaked' \subseteq Handler
<1>1. CASE UNCHANGED <<mem, nodes, leaked>>
  BY <1>1 DEF Ownership, OneOwner, OneHandlerPerTopic, Separate, Pending, TypeOK
<1>2. CASE Unused # {} /\ ~UNCHANGED <<mem, nodes, leaked>>
  <2> DEFINE h == CHOOSE u \in Unused : TRUE
             new == [type |-> "SUBACK", id |-> i, h |-> h]
  <2>1. h \in Unused BY <1>2
  <2>2. h \in Handler /\ mem[h] = NoTopic /\ \A n \in nodes : n.h # h
    BY <2>1 DEF Unused
  <2>3. /\ mem' = [mem EXCEPT ![h] = t]
        /\ nodes' = nodes \/ nodes' = nodes \cup {new}
        /\ leaked' = leaked \/ leaked' = leaked \cup {h}
    BY <1>2 DEF CreateAndRecord, AckListRecord, AckListNoMemory
  <2> HIDE DEF h
  <2>4. new \in Node /\ new.h = h /\ new.type = "SUBACK" BY <2>2 DEF Node
  <2>5. h \notin installed BY <2>2 DEF Ownership, OneOwner
  <2>6. t # NoTopic BY SubsAssumption
  <2>7. mem \in [Handler -> Topic \cup {NoTopic}] /\ installed \subseteq Handler
        /\ nodes \subseteq Node
    BY DEF TypeOK
  <2>8. mem'[h] = t /\ \A g \in Handler : g # h => mem'[g] = mem[g]
    BY <2>2, <2>3, <2>7
  <2>9. Pending \subseteq Pending' /\ Pending' \subseteq Pending \cup {new}
    BY <2>3, <2>4 DEF Pending
  <2>10. nodes' \ Pending' = nodes \ Pending
    BY <2>3, <2>4 DEF Pending
  <2>11. \A n \in nodes : n.h \in Handler
    BY <2>7 DEF Node
  <2>12. Pending \subseteq nodes
    BY DEF Pending
  <2> HIDE DEF new
  <2>13. OneOwner'
    <3>1. \A g \in installed' : mem'[g] # NoTopic
      BY <2>5, <2>7, <2>8 DEF Ownership, OneOwner
    <3>2. \A n \in Pending' : mem'[n.h] # NoTopic /\ n.h \notin installed'
      BY <2>2, <2>4, <2>5, <2>6, <2>8, <2>9, <2>11, <2>12 DEF Ownership, OneOwner
    <3>3. \A m, n \in Pending' : m.h = n.h => m = n
      BY <2>2, <2>4, <2>9, <2>12 DEF Ownership, OneOwner
    <3>4. QED BY <3>1, <3>2, <3>3 DEF OneOwner
  <2>14. OneHandlerPerTopic'
    BY <2>5, <2>7, <2>8 DEF Ownership, OneHandlerPerTopic
  <2>15. Separate'
    BY <2>2, <2>4, <2>9, <2>10 DEF Ownership, Separate
  <2>16. /\ nodes' \subseteq Node /\ mem' \in [Handler -> Topic \cup {NoTopic}]
         /\ leaked' \subseteq Handler
    BY <2>2, <2>3, <2>4, <2>7 DEF TypeOK
  <2>17. QED BY <2>10, <2>13, <2>14, <2>15, <2>16 DEF Ownership
<1>3. QED BY <1>1, <1>2 DEF CreateAndRecord

(* mqtt_msg_handler_destory() of the handler of a node that goes.           *)
LEMMA DestroyKeeps ==
  ASSUME TypeOK, Ownership, NEW W \in SUBSET nodes, NEW n \in W,
         nodes' = nodes \ W, Destroy(n.h)
  PROVE  /\ Ownership' /\ mem' \in [Handler -> Topic \cup {NoTopic}]
         /\ installed' \subseteq installed /\ crashed' \in BOOLEAN
<1>1. /\ mem \in [Handler -> Topic \cup {NoTopic}] /\ installed \subseteq Handler
      /\ nodes \subseteq Node /\ crashed \in BOOLEAN
  BY DEF TypeOK
<1>2. n \in nodes /\ n.h \in Handler /\ \A m \in nodes : m.h \in Handler
  BY <1>1 DEF Node
<1>3. Pending' \subseteq Pending \ {n} /\ nodes' \ Pending' \subseteq nodes \ Pending
  BY DEF Pending
<1>4. \A m \in Pending' : m.h # n.h
  BY <1>2, <1>3 DEF Ownership, OneOwner, Separate, Pending
<1>5. CASE mem[n.h] = NoTopic
  <2>1. mem' = mem /\ installed' = installed /\ crashed' = TRUE
    BY <1>5 DEF Destroy
  <2>2. OneOwner' /\ OneHandlerPerTopic' /\ Separate'
    BY <1>3, <2>1 DEF Ownership, OneOwner, OneHandlerPerTopic, Separate
  <2>3. QED BY <1>1, <2>1, <2>2 DEF Ownership
<1>6. CASE mem[n.h] # NoTopic
  <2>1. /\ mem' = [mem EXCEPT ![n.h] = NoTopic] /\ installed' = installed \ {n.h}
        /\ crashed' = crashed
    BY <1>6 DEF Destroy
  <2>2. \A g \in Handler : g # n.h => mem'[g] = mem[g]
    BY <1>1, <2>1
  <2>3. OneOwner'
    <3>1. \A g \in installed' : mem'[g] # NoTopic
      BY <1>1, <2>1, <2>2 DEF Ownership, OneOwner
    <3>2. \A m \in Pending' : mem'[m.h] # NoTopic /\ m.h \notin installed'
      BY <1>2, <1>3, <1>4, <2>1, <2>2 DEF Ownership, OneOwner, Pending
    <3>3. \A m, o \in Pending' : m.h = o.h => m = o
      BY <1>3 DEF Ownership, OneOwner
    <3>4. QED BY <3>1, <3>2, <3>3 DEF OneOwner
  <2>4. OneHandlerPerTopic'
    BY <1>1, <2>1, <2>2 DEF Ownership, OneHandlerPerTopic
  <2>5. Separate'
    BY <1>3 DEF Ownership, Separate
  <2>6. QED BY <1>1, <2>1, <2>3, <2>4, <2>5 DEF Ownership
<1>7. QED BY <1>5, <1>6
-----------------------------------------------------------------------------
(* The packets under way. *)

ToBroker == [kind : {"SUBSCRIBE", "UNSUBSCRIBE"}, id : PacketId, topic : Topic]
ToClient == [kind : {"SUBACK", "UNSUBACK"}, id : PacketId, topic : Topic]

\* A packet of kind k is in the channel s.
Has(s, k) == \E j \in DOMAIN s : s[j].kind = k

(* A packet that is sent joins the channel or is lost.                      *)
LEMMA AppendHas ==
  ASSUME NEW S, NEW s \in Seq(S), NEW p \in S, NEW k
  PROVE  /\ Append(s, p) \in Seq(S)
         /\ Has(Append(s, p), k) => Has(s, k) \/ p.kind = k
<1>1. Append(s, p) \in Seq(S) /\ Len(Append(s, p)) = Len(s) + 1
  OBVIOUS
<1>2. \A j \in 1..Len(s) : Append(s, p)[j] = s[j]
  OBVIOUS
<1>3. Append(s, p)[Len(s) + 1] = p
  OBVIOUS
<1>4. ASSUME Has(Append(s, p), k) PROVE Has(s, k) \/ p.kind = k
  <2>1. PICK j \in 1..(Len(s) + 1) : Append(s, p)[j].kind = k
    BY <1>1, <1>4 DEF Has
  <2>2. CASE j = Len(s) + 1 BY <1>3, <2>1, <2>2
  <2>3. CASE j \in 1..Len(s) BY <1>2, <2>1, <2>3 DEF Has
  <2>4. Len(s) \in Nat OBVIOUS
  <2>5. QED BY <2>2, <2>3, <2>4
<1>5. QED BY <1>1, <1>4

(* A packet that is read was in the channel, and the rest stays.            *)
LEMMA ReadHas ==
  ASSUME NEW S, NEW s \in Seq(S), s # <<>>, NEW k
  PROVE  /\ Head(s) \in S /\ Tail(s) \in Seq(S)
         /\ Has(Tail(s), k) => Has(s, k)
         /\ Head(s).kind = k => Has(s, k)
<1>1. /\ Head(s) = s[1] /\ 1 \in DOMAIN s /\ Head(s) \in S
      /\ Tail(s) \in Seq(S) /\ Len(Tail(s)) = Len(s) - 1 /\ Len(s) \in Nat
  OBVIOUS
<1>2. \A j \in 1..Len(Tail(s)) : Tail(s)[j] = s[j + 1]
  OBVIOUS
<1>3. ASSUME Has(Tail(s), k) PROVE Has(s, k)
  <2>1. PICK j \in 1..Len(Tail(s)) : Tail(s)[j].kind = k
    BY <1>1, <1>3 DEF Has
  <2>2. j + 1 \in DOMAIN s /\ s[j + 1].kind = k
    BY <1>1, <1>2, <2>1
  <2>3. QED BY <2>2 DEF Has
<1>4. QED BY <1>1, <1>3 DEF Has

(* The next packet id is one.                                               *)
LEMMA NextIdTyped == packetId \in PacketId => GetNextPacketId \in PacketId
BY SubsAssumption DEF PacketId, GetNextPacketId
-----------------------------------------------------------------------------
(* Each step preserves the invariant. *)

(* Initially there are no handlers, nodes or packets.                       *)
LEMMA InitCorrect == Init => IInv
<1> SUFFICES ASSUME Init PROVE IInv
  OBVIOUS
<1>1. TypeOK
  <2>1. 1 \in PacketId BY SubsAssumption DEF PacketId
  <2>2. <<>> \in Seq(ToBroker) /\ <<>> \in Seq(ToClient) OBVIOUS
  <2>3. Idle \in [pc : {"idle", "subscribe", "unsubscribe"},
                  topic : Topic \cup {NoTopic}, id : PacketId] /\ Idle.pc = "idle"
    BY <2>1 DEF Idle
  <2>4. c2b \in Seq(ToBroker) /\ b2c \in Seq(ToClient)
    BY <2>2 DEF Init
  <2>5. calls \in 0..MaxCalls /\ drops \in 0..MaxDrops
    BY SubsAssumption DEF Init
  <2>6. mem \in [Handler -> Topic \cup {NoTopic}]
    BY DEF Init
  <2>7. QED BY <2>1, <2>3, <2>4, <2>5, <2>6 DEF Init, TypeOK, ToBroker, ToClient
<1>2. Pending = {} /\ nodes = {} /\ installed = {}
  BY DEF Init, Pending
<1>3. Ownership
  BY <1>2 DEF Ownership, OneOwner, OneHandlerPerTopic, Separate
<1>4. Visit
  BY DEF Init, Visit
<1>5. ~Unsubscribing /\ ~crashed
  BY <1>2 DEF Init, Unsubscribing, Idle
<1>6. QED BY <1>1, <1>3, <1>4, <1>5 DEF IInv, Safe, SubscribeIsSafe

(* A call sends a packet and touches no list.                               *)
LEMMA CallKeeps ==
  ASSUME IInv, NEW t \in Topic, Subscribe(t) \/ Unsubscribe(t)
  PROVE  IInv'
<1>1. PICK pc \in {"subscribe", "unsubscribe"}, k \in {"SUBSCRIBE", "UNSUBSCRIBE"} :
        /\ UserCall(pc, k, t)
        /\ pc = "subscribe" <=> k = "SUBSCRIBE"
        /\ \/ pc = "subscribe" /\ unsubbed' = unsubbed
           \/ unsubbed' = unsubbed \cup {t}
  BY DEF Subscribe, Unsubscribe
<1> DEFINE p == Pkt(k, GetNextPacketId, t)
<1>2. GetNextPacketId \in PacketId
  BY NextIdTyped DEF IInv, TypeOK
<1>3. p \in ToBroker /\ p.kind = k
  BY <1>2 DEF Pkt, ToBroker
<1>4. c2b \in Seq(ToBroker)
  BY DEF IInv, TypeOK, ToBroker
<1>5. c2b' = c2b \/ c2b' = Append(c2b, p)
  BY <1>1 DEF UserCall, Send
<1> HIDE DEF p
<1>6. /\ c2b' \in Seq(ToBroker)
      /\ Has(c2b', "UNSUBSCRIBE") => Has(c2b, "UNSUBSCRIBE") \/ k = "UNSUBSCRIBE"
  BY <1>3, <1>4, <1>5, AppendHas
<1>7. user' = user \/ user' = [pc |-> pc, topic |-> t, id |-> GetNextPacketId]
  BY <1>1 DEF UserCall
<1>8. TypeOK'
  <2>1. calls' \in 0..MaxCalls
    BY <1>1, SubsAssumption DEF UserCall, IInv, TypeOK
  <2>2. unsubbed' \subseteq Topic
    BY <1>1 DEF IInv, TypeOK
  <2>3. /\ user' \in [pc : {"idle", "subscribe", "unsubscribe"},
                      topic : Topic \cup {NoTopic}, id : PacketId]
        /\ user'.pc # "idle" => user'.topic \in Topic
    BY <1>2, <1>7 DEF IInv, TypeOK
  <2>4. packetId' \in PacketId
    BY <1>1, <1>2 DEF UserCall
  <2>5. QED BY <1>1, <1>6, <2>1, <2>2, <2>3, <2>4
        DEF UserCall, IInv, TypeOK, lists, ToBroker
<1>9. /\ Ownership' /\ Visit' /\ crashed' = crashed
      /\ nodes' \ Pending' = nodes \ Pending /\ b2c' = b2c
  BY <1>1 DEF UserCall, lists, IInv, Ownership, OneOwner, OneHandlerPerTopic,
     Separate, Pending, Visit
<1>10. Safe'
  <2>1. CASE unsubbed' = unsubbed /\ pc = "subscribe"
    <3>1. user'.pc = "unsubscribe" => user.pc = "unsubscribe"
      BY <1>7, <2>1
    <3>2. Unsubscribing' => Unsubscribing
      BY <1>1, <1>6, <1>9, <2>1, <3>1 DEF Unsubscribing, Has
    <3>3. QED BY <1>9, <2>1, <3>2 DEF IInv, Safe, SubscribeIsSafe
  <2>2. CASE unsubbed' = unsubbed \cup {t}
    BY <2>2 DEF Safe, SubscribeIsSafe
  <2>3. QED BY <1>1, <2>1, <2>2
<1>11. QED BY <1>8, <1>9, <1>10 DEF IInv

(* The node of a subscription, or none if there is no memory for it.        *)
LEMMA SubscribeRecordKeeps == IInv /\ SubscribeRecord => IInv'
<1> SUFFICES ASSUME IInv, SubscribeRecord PROVE IInv'
  OBVIOUS
<1>1. user.topic \in Topic /\ user.id \in PacketId
  BY DEF SubscribeRecord, IInv, TypeOK
<1>2. /\ Ownership' /\ mem' \in [Handler -> Topic \cup {NoTopic}]
      /\ nodes' \subseteq Node /\ nodes' \ Pending' = nodes \ Pending
      /\ leaked' \subseteq Handler
  BY <1>1, CreateKeeps DEF SubscribeRecord, IInv
<1>3. Idle \in [pc : {"idle", "subscribe", "unsubscribe"},
                topic : Topic \cup {NoTopic}, id : PacketId] /\ Idle.pc = "idle"
  BY SubsAssumption DEF Idle, PacketId
<1>4. TypeOK'
  BY <1>2, <1>3 DEF SubscribeRecord, IInv, TypeOK, net
<1>5. Visit'
  BY DEF SubscribeRecord, IInv, Visit
<1>6. Safe'
  BY <1>2, <1>3 DEF SubscribeRecord, IInv, Safe, SubscribeIsSafe, Unsubscribing, net
<1>7. QED BY <1>2, <1>4, <1>5, <1>6 DEF IInv

(* The node of an unsubscription shares an installed handler.               *)
LEMMA UnsubscribeRecordKeeps == IInv /\ UnsubscribeRecord => IInv'
<1> SUFFICES ASSUME IInv, UnsubscribeRecord PROVE IInv'
  OBVIOUS
<1>1. unsubbed # {} /\ unsubbed' = unsubbed
  BY DEF UnsubscribeRecord, count, IInv, Safe, Unsubscribing
<1>2. Idle \in [pc : {"idle", "subscribe", "unsubscribe"},
                topic : Topic \cup {NoTopic}, id : PacketId] /\ Idle.pc = "idle"
  BY SubsAssumption DEF Idle, PacketId
<1>3. \/ nodes' = nodes
      \/ \E h \in installed : nodes' = nodes \cup {[type |-> "UNSUBACK", id |-> user.id, h |-> h]}
  BY DEF UnsubscribeRecord, AckListRecord, AckListNoMemory
<1>4. nodes' \subseteq Node
  BY <1>3 DEF IInv, TypeOK, Node
<1>5. TypeOK'
  BY <1>2, <1>4 DEF UnsubscribeRecord, IInv, TypeOK, net, count
<1>6. Pending' = Pending
  BY <1>3 DEF Pending
<1>7. \A n \in nodes' \ Pending' : n \in nodes \ Pending \/ n.h \in installed
  BY <1>3, <1>6
<1>8. Ownership'
  BY <1>6, <1>7 DEF UnsubscribeRecord, IInv, Ownership, OneOwner, OneHandlerPerTopic, Separate
<1>9. Visit'
  BY DEF UnsubscribeRecord, IInv, Visit
<1>10. QED BY <1>1, <1>5, <1>8, <1>9 DEF IInv, Safe, SubscribeIsSafe

(* Taking an ack from the broker.                                           *)
LEMMA ReadTyped ==
  ASSUME IInv, NEW k, Read(k)
  PROVE  /\ Head(b2c) \in ToClient /\ b2c' \in Seq(ToClient)
         /\ Has(b2c', "UNSUBACK") => Has(b2c, "UNSUBACK")
         /\ k = "UNSUBACK" => unsubbed # {}
         /\ unsubbed' = unsubbed /\ user' = user /\ c2b' = c2b /\ yield' = yield
         /\ resub = {} /\ resub' = {}
<1>1. b2c \in Seq(ToClient) /\ b2c # <<>> /\ b2c' = Tail(b2c) /\ Head(b2c).kind = k
  BY DEF IInv, TypeOK, ToClient, Read
<1>2. /\ Head(b2c) \in ToClient /\ b2c' \in Seq(ToClient)
      /\ Has(b2c', "UNSUBACK") => Has(b2c, "UNSUBACK")
      /\ k = "UNSUBACK" => Has(b2c, "UNSUBACK")
  BY <1>1, ReadHas
<1>3. Has(b2c, "UNSUBACK") => unsubbed # {}
  BY DEF IInv, Safe, Unsubscribing, Has
<1>4. QED BY <1>2, <1>3 DEF Read, Yield, count, IInv, Visit

(* The same four parts again, once the lists are known to be in order.      *)
LEMMA YieldKeeps ==
  ASSUME IInv, Ownership', resub = {}, resub' = {},
         mem' \in [Handler -> Topic \cup {NoTopic}], installed' \subseteq Handler,
         nodes' \subseteq nodes, crashed' \in BOOLEAN,
         b2c' \in Seq(ToClient), Has(b2c', "UNSUBACK") => Has(b2c, "UNSUBACK"),
         state' \in {"CONNECTED", "DISCONNECTED"},
         crashed' => crashed \/ unsubbed # {},
         UNCHANGED <<packetId, user, yield, c2b, link, subs, drops, count>>
  PROVE  IInv'
<1>1. TypeOK'
  BY DEF IInv, TypeOK, count, ToClient
<1>2. Visit'
  BY DEF IInv, Visit
<1>3. nodes' \ Pending' \subseteq nodes \ Pending
  BY DEF Pending
<1>4. Unsubscribing' => Unsubscribing
  BY <1>3 DEF Unsubscribing, Has
<1>5. Safe'
  BY <1>4 DEF IInv, Safe, SubscribeIsSafe, count
<1>6. QED BY <1>1, <1>2, <1>5 DEF IInv

(* Forgetting nodes and nothing else.                                       *)
LEMMA ForgetKeeps ==
  ASSUME Ownership, nodes' \subseteq nodes, mem' = mem, installed' = installed
  PROVE  Ownership'
<1>1. Pending' \subseteq Pending /\ nodes' \ Pending' \subseteq nodes \ Pending
  BY DEF Pending
<1>2. QED BY <1>1 DEF Ownership, OneOwner, OneHandlerPerTopic, Separate

(* Memory is misused only through the node of an unsubscription.            *)
LEMMA DestroySafe ==
  ASSUME IInv, NEW n \in nodes, Destroy(n.h)
  PROVE  crashed' => crashed \/ unsubbed # {}
<1>1. CASE n \in Pending
  BY <1>1 DEF IInv, Ownership, OneOwner, Destroy
<1>2. CASE n \notin Pending
  BY <1>2 DEF IInv, Safe, Unsubscribing
<1>3. QED BY <1>1, <1>2

(* A handler whose SUBACK comes is installed or destroyed, not both.        *)
LEMMA SubackKeeps == IInv /\ SubackPacketHandle => IInv'
<1> SUFFICES ASSUME IInv, SubackPacketHandle PROVE IInv'
  OBVIOUS
<1> DEFINE p == Head(b2c)
           W == Waiting("SUBACK", p.id)
<1>1. Read("SUBACK") /\ nodes' = nodes \ W
  BY DEF SubackPacketHandle
<1>2. /\ b2c' \in Seq(ToClient)
      /\ Has(b2c', "UNSUBACK") => Has(b2c, "UNSUBACK")
      /\ resub = {} /\ resub' = {}
  BY <1>1, ReadTyped
<1>3. W \in SUBSET nodes /\ W \subseteq Pending /\ nodes' \subseteq nodes
  BY <1>1 DEF Waiting, Pending
<1>4. /\ state' \in {"CONNECTED", "DISCONNECTED"}
      /\ UNCHANGED <<packetId, user, yield, c2b, link, subs, drops, count>>
  BY <1>1 DEF Read, IInv, TypeOK
<1>5. CASE W = {}
  <2>1. mem' = mem /\ installed' = installed /\ crashed' = crashed
    BY <1>5 DEF SubackPacketHandle
  <2>2. Ownership'
    BY <1>3, <2>1, ForgetKeeps DEF IInv
  <2>3. QED BY <1>2, <1>3, <1>4, <2>1, <2>2, YieldKeeps DEF IInv, TypeOK
<1>6. ASSUME NEW n \in W, Destroy(n.h) PROVE IInv'
  <2>1. /\ Ownership' /\ mem' \in [Handler -> Topic \cup {NoTopic}]
        /\ installed' \subseteq installed /\ crashed' \in BOOLEAN
    BY <1>1, <1>3, <1>6, DestroyKeeps DEF IInv
  <2>2. crashed' => crashed \/ unsubbed # {}
    BY <1>3, <1>6, DestroySafe
  <2>3. installed' \subseteq Handler
    BY <2>1 DEF IInv, TypeOK
  <2>4. QED BY <1>2, <1>3, <1>4, <2>1, <2>2, <2>3, YieldKeeps
<1>7. ASSUME NEW n \in W, ~HandlerIsExist(mem[n.h]),
             installed' = installed \cup {n.h}, mem' = mem, crashed' = crashed
      PROVE  IInv'
  <2>1. n \in Pending /\ n \in nodes /\ n.h \in Handler
    BY <1>3, <1>7 DEF IInv, TypeOK, Node
  <2>2. Pending' \subseteq Pending \ {n}
    BY <1>1, <1>7 DEF Pending
  <2>3. nodes' \ Pending' \subseteq nodes \ Pending
    BY <1>3 DEF Pending
  <2>4. OneOwner'
    <3>1. \A h \in installed' : mem'[h] # NoTopic
      BY <1>7, <2>1 DEF IInv, Ownership, OneOwner
    <3>2. \A m \in Pending' : mem'[m.h] # NoTopic /\ m.h \notin installed'
      BY <1>7, <2>1, <2>2 DEF IInv, Ownership, OneOwner
    <3>3. \A m, o \in Pending' : m.h = o.h => m = o
      BY <2>2 DEF IInv, Ownership, OneOwner
    <3>4. QED BY <3>1, <3>2, <3>3 DEF OneOwner
  <2>5. OneHandlerPerTopic'
    BY <1>7 DEF IInv, Ownership, OneHandlerPerTopic, HandlerIsExist
  <2>6. Ownership'
    BY <2>2, <2>3, <2>4, <2>5 DEF IInv, Ownership, Separate
  <2>7. installed' \subseteq Handler /\ mem' \in [Handler -> Topic \cup {NoTopic}]
        /\ crashed' \in BOOLEAN
    BY <1>7, <2>1 DEF IInv, TypeOK
  <2>8. QED BY <1>2, <1>3, <1>4, <1>7, <2>6, <2>7, YieldKeeps
<1>8. QED BY <1>5, <1>6, <1>7 DEF SubackPacketHandle

(* An UNSUBACK destroys what its node points to.                            *)
LEMMA UnsubackKeeps == IInv /\ UnsubackPacketHandle => IInv'
<1> SUFFICES ASSUME IInv, UnsubackPacketHandle PROVE IInv'
  OBVIOUS
<1> DEFINE W == Waiting("UNSUBACK", Head(b2c).id)
<1>1. Read("UNSUBACK") /\ nodes' = nodes \ W
  BY DEF UnsubackPacketHandle
<1>2. /\ b2c' \in Seq(ToClient)
      /\ Has(b2c', "UNSUBACK") => Has(b2c, "UNSUBACK")
      /\ unsubbed # {} /\ resub = {} /\ resub' = {}
  BY <1>1, ReadTyped
<1>3. W \in SUBSET nodes /\ nodes' \subseteq nodes
  BY <1>1 DEF Waiting
<1>4. /\ state' \in {"CONNECTED", "DISCONNECTED"}
      /\ UNCHANGED <<packetId, user, yield, c2b, link, subs, drops, count>>
  BY <1>1 DEF Read, IInv, TypeOK
<1>5. CASE mem' = mem /\ installed' = installed /\ crashed' \in BOOLEAN
  <2>1. Ownership'
    BY <1>3, <1>5, ForgetKeeps DEF IInv
  <2>2. QED BY <1>2, <1>3, <1>4, <1>5, <2>1, YieldKeeps DEF IInv, TypeOK
<1>6. ASSUME NEW n \in W, Destroy(n.h) PROVE IInv'
  <2>1. /\ Ownership' /\ mem' \in [Handler -> Topic \cup {NoTopic}]
        /\ installed' \subseteq installed /\ crashed' \in BOOLEAN
    BY <1>1, <1>3, <1>6, DestroyKeeps DEF IInv
  <2>2. installed' \subseteq Handler
    BY <2>1 DEF IInv, TypeOK
  <2>3. QED BY <1>2, <1>3, <1>4, <2>1, <2>2, YieldKeeps
<1>7. QED BY <1>5, <1>6 DEF UnsubackPacketHandle

(* An overdue node takes its handler with it.                               *)
LEMMA TimeoutKeeps == ASSUME IInv, NEW n \in nodes, ScanTimeout(n) PROVE IInv'
<1>1. n \in {n} /\ {n} \in SUBSET nodes /\ nodes' = nodes \ {n} /\ Destroy(n.h)
  BY DEF ScanTimeout
<1>2. /\ Ownership' /\ mem' \in [Handler -> Topic \cup {NoTopic}]
      /\ installed' \subseteq installed /\ crashed' \in BOOLEAN
  BY <1>1, DestroyKeeps DEF IInv
<1>3. crashed' => crashed \/ unsubbed # {}
  BY <1>1, DestroySafe
<1>4. /\ resub = {} /\ resub' = {} /\ b2c' = b2c /\ state' = state
      /\ UNCHANGED <<packetId, user, yield, c2b, link, subs, drops, count>>
  BY DEF ScanTimeout, Yield, net, count, IInv, Visit
<1>5. /\ installed' \subseteq Handler /\ nodes' \subseteq nodes
      /\ b2c' \in Seq(ToClient) /\ state' \in {"CONNECTED", "DISCONNECTED"}
  BY <1>1, <1>2, <1>4 DEF IInv, TypeOK, ToClient
<1>6. QED BY <1>2, <1>3, <1>4, <1>5, YieldKeeps

(* Resubscribing sends the topic of an installed handler, with a new one.   *)
LEMMA ResubscribeKeeps ==
  ASSUME IInv, NEW h \in Handler, TryResubscribe(h)
  PROVE  IInv'
<1>1. /\ h \in installed /\ resub' \subseteq installed' /\ installed' = installed
      /\ yield' = yield /\ yield # "loop"
  BY DEF TryResubscribe, IInv, Visit
<1>2. mem[h] \in Topic
  BY <1>1 DEF IInv, TypeOK, Ownership, OneOwner
<1>3. GetNextPacketId \in PacketId
  BY NextIdTyped DEF IInv, TypeOK
<1> DEFINE p == Pkt("SUBSCRIBE", GetNextPacketId, mem[h])
<1>4. p \in ToBroker /\ p.kind = "SUBSCRIBE"
  BY <1>2, <1>3 DEF Pkt, ToBroker
<1>5. c2b \in Seq(ToBroker)
  BY DEF IInv, TypeOK, ToBroker
<1>6. c2b' = c2b \/ c2b' = Append(c2b, p)
  BY DEF TryResubscribe, Send
<1> HIDE DEF p
<1>7. /\ c2b' \in Seq(ToBroker)
      /\ Has(c2b', "UNSUBSCRIBE") => Has(c2b, "UNSUBSCRIBE")
  BY <1>4, <1>5, <1>6, AppendHas
<1>8. CreateAndRecord(mem[h], GetNextPacketId) \/ UNCHANGED <<mem, nodes, leaked>>
  BY DEF TryResubscribe
<1>9. /\ Ownership' /\ mem' \in [Handler -> Topic \cup {NoTopic}]
      /\ nodes' \subseteq Node /\ nodes' \ Pending' = nodes \ Pending
      /\ leaked' \subseteq Handler
  <2>1. CASE CreateAndRecord(mem[h], GetNextPacketId)
    BY <1>1, <1>2, <1>3, <2>1, CreateKeeps DEF IInv
  <2>2. CASE UNCHANGED <<mem, nodes, leaked>>
    BY <1>1, <2>2 DEF IInv, TypeOK, Ownership, OneOwner, OneHandlerPerTopic,
       Separate, Pending
  <2>3. QED BY <1>8, <2>1, <2>2
<1>10. /\ UNCHANGED <<state, crashed, user, yield, link, b2c, subs, drops, calls, unsubbed>>
       /\ packetId' = GetNextPacketId /\ resub' = resub \ {h}
  BY DEF TryResubscribe
<1>11. TypeOK'
  BY <1>1, <1>3, <1>7, <1>9, <1>10 DEF IInv, TypeOK, ToBroker
<1>12. Unsubscribing' => Unsubscribing
  BY <1>7, <1>9, <1>10 DEF Unsubscribing, Has
<1>13. Safe'
  BY <1>10, <1>12 DEF IInv, Safe, SubscribeIsSafe
<1>14. QED BY <1>1, <1>9, <1>11, <1>13 DEF IInv, Visit

(* The scan after a reconnect frees the handler of every node at once.      *)
LEMMA ScanAllKeeps == IInv /\ ScanAll => IInv'
<1> SUFFICES ASSUME IInv, ScanAll PROVE IInv'
  OBVIOUS
<1> DEFINE gone == {n.h : n \in nodes}
<1>1. /\ nodes' = {} /\ installed' = installed \ gone
      /\ mem' = [h \in Handler |-> IF h \in gone THEN NoTopic ELSE mem[h]]
      /\ resub = {} /\ resub' = {} /\ yield' = "loop"
      /\ UNCHANGED <<state, packetId, user, net, count>>
  BY DEF ScanAll
<1>2. crashed' = \E n \in nodes :
                   \/ mem[n.h] = NoTopic
                   \/ \E o \in nodes : o # n /\ o.h = n.h
  BY DEF ScanAll
<1>3. crashed' \in BOOLEAN
  BY <1>2
<1>4. mem' \in [Handler -> Topic \cup {NoTopic}] /\ installed' \subseteq Handler
  BY <1>1 DEF IInv, TypeOK
<1>5. TypeOK'
  BY <1>1, <1>3, <1>4 DEF IInv, TypeOK, net, count
<1>6. Pending' = {} /\ nodes' \ Pending' = {}
  BY <1>1 DEF Pending
<1>7. \A h \in installed' : h \in installed /\ mem'[h] = mem[h]
  BY <1>1 DEF IInv, TypeOK
<1>8. Ownership'
  BY <1>6, <1>7 DEF IInv, Ownership, OneOwner, OneHandlerPerTopic, Separate
<1>9. crashed' => unsubbed # {}
  <2>1. SUFFICES ASSUME nodes \subseteq Pending PROVE ~crashed'
    BY <1>3 DEF IInv, Safe, Unsubscribing
  <2>2. \A n \in nodes : mem[n.h] # NoTopic /\ \A o \in nodes : o.h = n.h => o = n
    BY <2>1 DEF IInv, Ownership, OneOwner
  <2>3. QED BY <1>2, <2>2
<1>10. Unsubscribing' => Unsubscribing
  BY <1>1, <1>6 DEF Unsubscribing, net
<1>11. Safe'
  BY <1>1, <1>9, <1>10 DEF IInv, Safe, SubscribeIsSafe, count
<1>12. QED BY <1>1, <1>5, <1>8, <1>11 DEF IInv, Visit

(* The broker answers an unsubscription with an UNSUBACK, and nothing else  *)
(* with one.                                                                *)
LEMMA BrokerKeeps == IInv /\ BrokerStep => IInv'
<1> SUFFICES ASSUME IInv, BrokerStep PROVE IInv'
  OBVIOUS
<1> DEFINE p == Head(c2b)
<1>1. /\ c2b \in Seq(ToBroker) /\ c2b # <<>> /\ c2b' = Tail(c2b)
      /\ b2c \in Seq(ToClient)
  BY DEF IInv, TypeOK, ToBroker, ToClient, BrokerStep
<1>2. /\ p \in ToBroker /\ c2b' \in Seq(ToBroker)
      /\ Has(c2b', "UNSUBSCRIBE") => Has(c2b, "UNSUBSCRIBE")
      /\ p.kind = "UNSUBSCRIBE" => Has(c2b, "UNSUBSCRIBE")
  BY <1>1, ReadHas
<1>3. PICK k \in {"SUBACK", "UNSUBACK"} :
        /\ b2c' = Append(b2c, Pkt(k, p.id, p.topic))
        /\ k = "UNSUBACK" => p.kind = "UNSUBSCRIBE"
        /\ subs' \subseteq subs \cup {p.topic}
  BY DEF BrokerStep
<1> DEFINE q == Pkt(k, p.id, p.topic)
<1>4. q \in ToClient /\ q.kind = k
  BY <1>2 DEF Pkt, ToClient, ToBroker
<1> HIDE DEF q
<1>5. /\ b2c' \in Seq(ToClient)
      /\ Has(b2c', "UNSUBACK") => Has(b2c, "UNSUBACK") \/ k = "UNSUBACK"
  BY <1>1, <1>3, <1>4, AppendHas DEF q
<1>6. subs' \subseteq Topic
  BY <1>2, <1>3 DEF IInv, TypeOK, ToBroker
<1>7. UNCHANGED <<state, packetId, lists, user, resub, yield, link, drops, count>>
  BY DEF BrokerStep
<1>8. TypeOK'
  BY <1>2, <1>5, <1>6, <1>7 DEF IInv, TypeOK, lists, count, ToBroker, ToClient
<1>9. Ownership' /\ Visit' /\ nodes' \ Pending' = nodes \ Pending
  BY <1>7 DEF lists, IInv, Ownership, OneOwner, OneHandlerPerTopic, Separate,
     Pending, Visit
<1>10. Unsubscribing' => Unsubscribing
  BY <1>2, <1>3, <1>5, <1>7, <1>9 DEF Unsubscribing, Has
<1>11. Safe'
  BY <1>7, <1>10 DEF IInv, Safe, SubscribeIsSafe, lists, count
<1>12. QED BY <1>8, <1>9, <1>11 DEF IInv

(* Losing the connection and reconnecting leave the lists alone.            *)
LEMMA LinkKeeps ==
  IInv /\ (KeepAliveLost \/ TryDoReconnect \/ LinkDown) => IInv'
<1> SUFFICES ASSUME IInv, KeepAliveLost \/ TryDoReconnect \/ LinkDown PROVE IInv'
  OBVIOUS
<1>1. UNCHANGED <<packetId, lists, user, count>>
  BY DEF KeepAliveLost, TryDoReconnect, LinkDown
<1>2. /\ (c2b' = c2b \/ c2b' = <<>>) /\ (b2c' = b2c \/ b2c' = <<>>)
      /\ \/ yield' = yield /\ resub' = resub
         \/ yield' = "reconnect" /\ resub' = installed
  BY DEF KeepAliveLost, TryDoReconnect, LinkDown, net
<1>3. <<>> \in Seq(ToBroker) /\ <<>> \in Seq(ToClient)
  OBVIOUS
<1>4. /\ state' \in {"CONNECTED", "DISCONNECTED"} /\ link' \in BOOLEAN
      /\ subs' \subseteq Topic /\ drops' \in 0..MaxDrops
  <2>1. CASE KeepAliveLost BY <2>1 DEF KeepAliveLost, net, IInv, TypeOK
  <2>2. CASE TryDoReconnect BY <2>2 DEF TryDoReconnect, IInv, TypeOK
  <2>3. CASE LinkDown
    <3>1. drops' \in 0..MaxDrops
      BY <2>3, SubsAssumption DEF LinkDown, IInv, TypeOK
    <3>2. QED BY <2>3, <3>1 DEF LinkDown, IInv, TypeOK
  <2>4. QED BY <2>1, <2>2, <2>3
<1>5. TypeOK'
  BY <1>1, <1>2, <1>3, <1>4 DEF IInv, TypeOK, lists, count, ToBroker, ToClient
<1>6. Ownership' /\ Visit' /\ nodes' \ Pending' = nodes \ Pending
  BY <1>1, <1>2 DEF lists, IInv, Ownership, OneOwner, OneHandlerPerTopic, Separate,
     Pending, Visit
<1>7. Unsubscribing' => Unsubscribing
  BY <1>1, <1>2, <1>6 DEF Unsubscribing
<1>8. Safe'
  BY <1>1, <1>7 DEF IInv, Safe, SubscribeIsSafe, lists, count
<1>9. QED BY <1>5, <1>6, <1>8 DEF IInv

(* The inductive step: of every action, or of a stutter.                    *)
LEMMA Step == IInv /\ [Next]_vars => IInv'
<1> SUFFICES ASSUME IInv, [Next]_vars PROVE IInv'
  OBVIOUS
<1>1. CASE \E t \in Topic : Subscribe(t) \/ Unsubscribe(t)
  BY <1>1, CallKeeps
<1>2. CASE Record
  BY <1>2, SubscribeRecordKeeps, UnsubscribeRecordKeeps DEF Record
<1>3. CASE YieldStep
  BY <1>3, SubackKeeps, UnsubackKeeps, LinkKeeps, ScanAllKeeps, ResubscribeKeeps
     DEF YieldStep
<1>4. CASE Timeout
  BY <1>4, TimeoutKeeps DEF Timeout
<1>5. CASE BrokerStep
  BY <1>5, BrokerKeeps
<1>6. CASE LinkDown
  BY <1>6, LinkKeeps
<1>7. CASE UNCHANGED vars
  <2>1. TypeOK'
    BY <1>7 DEF vars, lists, net, count, IInv, TypeOK
  <2>2. Ownership' /\ Visit'
    BY <1>7 DEF vars, lists, IInv, Ownership, OneOwner, OneHandlerPerTopic, Separate,
       Pending, Visit
  <2>3. Safe'
    BY <1>7 DEF vars, lists, net, count, IInv, Safe, SubscribeIsSafe, Unsubscribing, Pending
  <2>4. QED BY <2>1, <2>2, <2>3 DEF IInv
<1>8. QED BY <1>1, <1>2, <1>3, <1>4, <1>5, <1>6, <1>7 DEF Next
-----------------------------------------------------------------------------
(* The theorems. *)

(* The invariant holds in every reachable state of every instance.          *)
LEMMA Invariant == Spec => []IInv
BY InitCorrect, Step, PTL DEF Spec

(* Every reachable state of every instance is typed.                        *)
THEOREM TypeCorrect == Spec => []TypeOK
<1>1. IInv => TypeOK BY DEF IInv
<1>2. QED BY <1>1, Invariant, PTL

(* A handler that is installed or waits for its SUBACK is allocated and has *)
(* that one owner, whatever acks, timeouts and reconnects come in between.  *)
THEOREM HandlersOwned == Spec => []OneOwner
<1>1. IInv => OneOwner BY DEF IInv, Ownership
<1>2. QED BY <1>1, Invariant, PTL

(* No topic is ever given a second handler, by a call or a resubscription.  *)
THEOREM TopicsOnce == Spec => []OneHandlerPerTopic
<1>1. IInv => OneHandlerPerTopic BY DEF IInv, Ownership
<1>2. QED BY <1>1, Invariant, PTL

(* A client that has never called mqtt_unsubscribe() never uses memory that *)
(* is not a handler.                                                        *)
THEOREM SubscribingSafe == Spec => []SubscribeIsSafe
<1>1. IInv => SubscribeIsSafe BY DEF IInv, Safe
<1>2. QED BY <1>1, Invariant, PTL
-----------------------------------------------------------------------------
(* What holds as long as no packet id is taken that a node waiting for its   *)
(* SUBACK, or a SUBSCRIBE or SUBACK under way, still has.                    *)

\* What is in flight.
Elems(s) == {s[k] : k \in DOMAIN s}

\* A SUBSCRIBE of topic t with packet id i is under way, or its SUBACK.
Asked(i, t) ==
  \/ \E p \in Elems(c2b) : p.kind = "SUBSCRIBE" /\ p.id = i /\ p.topic = t
  \/ \E p \in Elems(b2c) : p.kind = "SUBACK" /\ p.id = i /\ p.topic = t

InUse(j) == NodeIsExist("SUBACK", j) \/ \E t \in Topic : Asked(j, t)

\* The hypothesis: mqtt_get_next_packet_id(), which looks at nothing but its
\* counter, gives an id that is not in use.
NextIdUnused == user.pc = "idle" => ~InUse(GetNextPacketId)

Subscribing(i) == user.pc = "subscribe" /\ user.id = i

\* An id has one node, none before the call has recorded it, and stands for
\* one topic in the packets, in the node and in the call.
Single == \A m, n \in Pending : m.id = n.id => m = n
Unrecorded == \A n \in Pending : ~Subscribing(n.id)
Matched ==
  \A i \in PacketId, t \in Topic : Asked(i, t) =>
    /\ \A n \in Pending : n.id = i => mem[n.h] = t
    /\ Subscribing(i) => user.topic = t

Ids == Single /\ Unrecorded /\ Matched

\* The handlers that are lost are known, and nothing will ever destroy one.
Accounted == NoOtherLeak /\ \A n \in nodes : n.h \notin leaked

(* The elements of a list that is read or written. *)
LEMMA ElemsOf ==
  ASSUME NEW S, NEW s \in Seq(S)
  PROVE  /\ s # <<>> => /\ Head(s) \in Elems(s) /\ Elems(Tail(s)) \subseteq Elems(s)
                        /\ Elems(s) \subseteq Elems(Tail(s)) \cup {Head(s)}
         /\ \A x \in S : Elems(Append(s, x)) = Elems(s) \cup {x}
         /\ Elems(<<>>) = {}
         /\ Elems(s) \subseteq S
<1>1. ASSUME s # <<>>
      PROVE  /\ Head(s) \in Elems(s) /\ Elems(Tail(s)) \subseteq Elems(s)
             /\ Elems(s) \subseteq Elems(Tail(s)) \cup {Head(s)}
  <2>1. Len(s) \in Nat \ {0} /\ DOMAIN s = 1..Len(s) /\ Head(s) = s[1]
    BY <1>1
  <2>2. /\ DOMAIN Tail(s) = 1..(Len(s) - 1)
        /\ \A k \in 1..(Len(s) - 1) : Tail(s)[k] = s[k + 1] /\ k + 1 \in DOMAIN s
    BY <1>1, <2>1
  <2>3. 1 \in DOMAIN s BY <2>1
  <2>4. ASSUME NEW k \in DOMAIN s, k # 1 PROVE s[k] \in Elems(Tail(s))
    <3>1. k - 1 \in 1..(Len(s) - 1) /\ (k - 1) + 1 = k BY <2>1, <2>4
    <3>2. QED BY <2>2, <3>1 DEF Elems
  <2>5. QED BY <2>1, <2>2, <2>3, <2>4 DEF Elems
<1>2. ASSUME NEW x \in S PROVE Elems(Append(s, x)) = Elems(s) \cup {x}
  <2>1. Len(s) \in Nat /\ DOMAIN s = 1..Len(s) OBVIOUS
  <2>2. /\ DOMAIN Append(s, x) = 1..(Len(s) + 1)
        /\ \A k \in 1..Len(s) : Append(s, x)[k] = s[k] /\ k \in 1..(Len(s) + 1)
        /\ Append(s, x)[Len(s) + 1] = x /\ Len(s) + 1 \in 1..(Len(s) + 1)
    BY <2>1
  <2>3. \A k \in 1..(Len(s) + 1) : k \in 1..Len(s) \/ k = Len(s) + 1 BY <2>1
  <2>4. QED BY <2>1, <2>2, <2>3 DEF Elems
<1>3. Elems(<<>>) = {} BY DEF Elems
<1>4. Elems(s) \subseteq S BY DEF Elems
<1>5. QED BY <1>1, <1>2, <1>3, <1>4

(* What the two directions carry after a step. *)
LEMMA Wires ==
  ASSUME IInv
  PROVE  /\ b2c # <<>> => /\ Head(b2c) \in Elems(b2c) /\ Head(b2c) \in ToClient
                          /\ Elems(Tail(b2c)) \subseteq Elems(b2c)
         /\ c2b # <<>> => /\ Head(c2b) \in Elems(c2b) /\ Head(c2b) \in ToBroker
                          /\ Elems(Tail(c2b)) \subseteq Elems(c2b)
                          /\ Elems(c2b) \subseteq Elems(Tail(c2b)) \cup {Head(c2b)}
         /\ \A p \in ToBroker : Send(p) => /\ Elems(c2b') \subseteq Elems(c2b) \cup {p}
                                           /\ Elems(c2b) \subseteq Elems(c2b')
                                           /\ link => p \in Elems(c2b')
         /\ \A p \in ToClient : b2c' = Append(b2c, p) => Elems(b2c') = Elems(b2c) \cup {p}
         /\ Elems(<<>>) = {}
<1>1. c2b \in Seq(ToBroker) /\ b2c \in Seq(ToClient)
  BY DEF IInv, TypeOK, ToBroker, ToClient
<1>2. ASSUME NEW p \in ToBroker, Send(p)
      PROVE  /\ Elems(c2b') \subseteq Elems(c2b) \cup {p} /\ Elems(c2b) \subseteq Elems(c2b')
             /\ link => p \in Elems(c2b')
  <2>1. CASE link
    <3>1. c2b' = Append(c2b, p) BY <1>2, <2>1 DEF Send
    <3>2. QED BY <1>1, <3>1, ElemsOf
  <2>2. CASE ~link BY <1>2, <2>2 DEF Send
  <2>3. QED BY <2>1, <2>2
<1>3. ASSUME NEW p \in ToClient, b2c' = Append(b2c, p)
      PROVE  Elems(b2c') = Elems(b2c) \cup {p}
  BY <1>1, <1>3, ElemsOf
<1>4. b2c # <<>> => /\ Head(b2c) \in Elems(b2c) /\ Head(b2c) \in ToClient
                    /\ Elems(Tail(b2c)) \subseteq Elems(b2c)
  BY <1>1, ElemsOf
<1>5. c2b # <<>> => /\ Head(c2b) \in Elems(c2b) /\ Head(c2b) \in ToBroker
                    /\ Elems(Tail(c2b)) \subseteq Elems(c2b)
                    /\ Elems(c2b) \subseteq Elems(Tail(c2b)) \cup {Head(c2b)}
  BY <1>1, ElemsOf
<1>6. Elems(<<>>) = {} BY DEF Elems
<1>7. QED BY <1>2, <1>3, <1>4, <1>5, <1>6

(* A step that asks for nothing new and records no subscription. *)
LEMMA IdsCalm ==
  ASSUME Ids, Pending' \subseteq Pending, \A n \in Pending' : mem'[n.h] = mem[n.h],
         \A i \in PacketId, t \in Topic : Asked(i, t)' => Asked(i, t),
         user' = user \/ user'.pc # "subscribe"
  PROVE  Ids'
<1>1. \A i : Subscribing(i)' => Subscribing(i) /\ user' = user BY DEF Subscribing
<1>2. Single' BY DEF Ids, Single
<1>3. Unrecorded' BY <1>1 DEF Ids, Unrecorded
<1>4. Matched' BY <1>1 DEF Ids, Matched
<1>5. QED BY <1>2, <1>3, <1>4 DEF Ids

(* A node goes and takes its handler with it: the other handlers are as     *)
(* they were, and none is left behind.                                      *)
LEMMA Removes ==
  ASSUME IInv, NEW W \in SUBSET nodes, NEW n \in W, nodes' = nodes \ W, Destroy(n.h),
         \A m \in W : m \in Pending => m = n, leaked' = leaked
  PROVE  /\ Pending' \subseteq Pending /\ \A m \in Pending' : mem'[m.h] = mem[m.h]
         /\ installed' \subseteq installed /\ \A h \in installed' : mem'[h] = mem[h]
         /\ Accounted => Accounted'
<1>1. /\ mem \in [Handler -> Topic \cup {NoTopic}] /\ installed \subseteq Handler
      /\ nodes \subseteq Node /\ \A m \in nodes : m.h \in Handler
  BY DEF IInv, TypeOK, Node
<1>2. Pending' = Pending \ W BY DEF Pending
<1>3. \A m \in Pending' : m.h # n.h
  BY <1>1, <1>2 DEF IInv, Ownership, OneOwner, Separate, Pending
<1>4. CASE mem[n.h] = NoTopic
  <2>1. mem' = mem /\ installed' = installed BY <1>4 DEF Destroy
  <2>2. Accounted => Accounted' BY <1>2, <1>4, <2>1 DEF Accounted, NoOtherLeak
  <2>3. QED BY <1>2, <2>1, <2>2
<1>5. CASE mem[n.h] # NoTopic
  <2>1. mem' = [mem EXCEPT ![n.h] = NoTopic] /\ installed' = installed \ {n.h}
    BY <1>5 DEF Destroy
  <2>2. \A h \in Handler : mem'[h] = IF h = n.h THEN NoTopic ELSE mem[h]
    BY <1>1, <2>1
  <2>3. Accounted => Accounted' BY <1>1, <1>2, <2>1, <2>2 DEF Accounted, NoOtherLeak
  <2>4. \A m \in Pending' : mem'[m.h] = mem[m.h]
    BY <1>1, <1>2, <1>3, <2>2 DEF Pending
  <2>5. \A h \in installed' : mem'[h] = mem[h] BY <1>1, <2>1, <2>2
  <2>6. QED BY <1>2, <2>1, <2>3, <2>4, <2>5
<1>6. QED BY <1>4, <1>5

(* mqtt_msg_handler_create() and the node of an id that has none.           *)
LEMMA Creates ==
  ASSUME IInv, NEW t \in Topic, NEW i \in PacketId, CreateAndRecord(t, i), installed' = installed,
         ~NodeIsExist("SUBACK", i)
  PROVE  /\ \A m \in Pending' : \/ m \in Pending /\ mem'[m.h] = mem[m.h]
                                \/ m.id = i /\ mem'[m.h] = t
         /\ \A m, n \in Pending' : m.id = i /\ n.id = i => m = n
         /\ \A h \in installed' : mem'[h] = mem[h]
         /\ Accounted => Accounted'
<1>1. \A n \in Pending : n.id # i BY DEF NodeIsExist, Pending
<1>2. CASE UNCHANGED <<mem, nodes, leaked>>
  <2>1. Pending' = Pending BY <1>2 DEF Pending
  <2>2. Accounted => Accounted' BY <1>2, <2>1 DEF Accounted, NoOtherLeak
  <2>3. QED BY <1>1, <1>2, <2>1, <2>2
<1>3. CASE Unused # {} /\ ~UNCHANGED <<mem, nodes, leaked>>
  <2> DEFINE h == CHOOSE u \in Unused : TRUE
             new == [type |-> "SUBACK", id |-> i, h |-> h]
  <2>1. h \in Unused BY <1>3
  <2>2. h \in Handler /\ mem[h] = NoTopic /\ \A n \in nodes : n.h # h
    BY <2>1 DEF Unused
  <2>3. /\ mem' = [mem EXCEPT ![h] = t]
        /\ \/ nodes' = nodes \cup {new} /\ leaked' = leaked
           \/ nodes' = nodes /\ leaked' = leaked \cup {h}
    BY <1>3 DEF CreateAndRecord, AckListRecord, AckListNoMemory
  <2>4. new.h = h /\ new.id = i /\ new.type = "SUBACK" OBVIOUS
  <2>5. \/ Pending' = Pending \cup {new} /\ leaked' = leaked
        \/ Pending' = Pending /\ leaked' = leaked \cup {h}
    BY <2>3, <2>4 DEF Pending
  <2> HIDE DEF h, new
  <2>6. /\ mem \in [Handler -> Topic \cup {NoTopic}] /\ installed \subseteq Handler
        /\ h \notin installed /\ \A m \in Pending : m.h \in Handler /\ m.h # h
    BY <2>2 DEF IInv, TypeOK, Node, Ownership, OneOwner, Pending
  <2>7. mem'[h] = t /\ \A g \in Handler : g # h => mem'[g] = mem[g] BY <2>2, <2>3, <2>6
  <2>8. \A m \in Pending' : \/ m \in Pending /\ mem'[m.h] = mem[m.h]
                            \/ m.id = i /\ mem'[m.h] = t
    BY <2>4, <2>5, <2>6, <2>7
  <2>9. \A m, n \in Pending' : m.id = i /\ n.id = i => m = n BY <1>1, <2>5
  <2>10. \A g \in installed' : mem'[g] = mem[g] BY <2>6, <2>7
  <2>11. Accounted => Accounted'
    <3> SUFFICES ASSUME Accounted PROVE Accounted'
      OBVIOUS
    <3>1. h \notin leaked BY <2>2 DEF Accounted, NoOtherLeak
    <3>2. \A n \in nodes' : n.h \notin leaked'
      BY <2>2, <2>3, <2>4, <3>1 DEF Accounted
    <3>3. ASSUME NEW g \in Handler
          PROVE  g \in leaked' <=> /\ mem'[g] # NoTopic /\ g \notin installed'
                                   /\ \A n \in Pending' : n.h # g
      <4>1. CASE g = h
        BY <2>4, <2>5, <2>6, <2>7, <3>1, <4>1, SubsAssumption
      <4>2. CASE g # h
        BY <2>4, <2>5, <2>7, <4>2 DEF Accounted, NoOtherLeak
      <4>3. QED BY <4>1, <4>2
    <3>4. QED BY <3>2, <3>3 DEF Accounted, NoOtherLeak
  <2>12. QED BY <2>8, <2>9, <2>10, <2>11
<1>4. QED BY <1>2, <1>3 DEF CreateAndRecord

(* The ids, step by step.  A call takes an id nothing is known of. *)
LEMMA IdsSubscribe ==
  ASSUME IInv, Ids, NextIdUnused, NEW t \in Topic, Subscribe(t)
  PROVE  Ids'
<1> DEFINE i == GetNextPacketId
           p == Pkt("SUBSCRIBE", i, t)
<1>1. i \in PacketId BY NextIdTyped DEF IInv, TypeOK
<1>2. p \in ToBroker /\ p.kind = "SUBSCRIBE" /\ p.id = i /\ p.topic = t
  BY <1>1 DEF Pkt, ToBroker
<1>3. user.pc = "idle" /\ UNCHANGED <<lists, b2c>> /\ ~InUse(i)
  BY DEF Subscribe, UserCall, NextIdUnused
<1>4. \/ Send(p) /\ user' = [pc |-> "subscribe", topic |-> t, id |-> i]
      \/ UNCHANGED <<user, c2b>>
  BY DEF Subscribe, UserCall
<1> HIDE DEF i, p
<1>5. CASE UNCHANGED <<user, c2b>>
  <2>1. \A j, u : Asked(j, u)' <=> Asked(j, u) BY <1>3, <1>5 DEF Asked
  <2>2. Pending' = Pending /\ mem' = mem BY <1>3 DEF Pending, lists
  <2>3. QED BY <1>5, <2>1, <2>2, IdsCalm
<1>6. CASE Send(p) /\ user' = [pc |-> "subscribe", topic |-> t, id |-> i]
  <2>1. Elems(c2b') \subseteq Elems(c2b) \cup {p} BY <1>2, <1>6, Wires
  <2>2. \A j, u : Asked(j, u)' => Asked(j, u) \/ (j = i /\ u = t)
    BY <1>2, <1>3, <2>1 DEF Asked
  <2>3. Pending' = Pending /\ mem' = mem BY <1>3 DEF Pending, lists
  <2>4. \A j : Subscribing(j)' <=> j = i BY <1>6 DEF Subscribing
  <2>5. \A n \in Pending : n.id # i BY <1>3 DEF InUse, NodeIsExist, Pending
  <2>6. \A u \in Topic : ~Asked(i, u) BY <1>3 DEF InUse
  <2>7. Single' BY <2>3 DEF Ids, Single
  <2>8. Unrecorded' BY <2>3, <2>4, <2>5 DEF Unrecorded
  <2>9. Matched'
    <3>1. ASSUME NEW j \in PacketId, NEW u \in Topic, Asked(j, u)'
          PROVE  /\ \A n \in Pending' : n.id = j => mem'[n.h] = u
                 /\ Subscribing(j)' => user'.topic = u
      <4>1. CASE j = i /\ u = t BY <1>6, <2>3, <2>5, <4>1
      <4>2. CASE Asked(j, u)
        <5>1. j # i BY <2>6, <4>2
        <5>2. QED BY <2>3, <2>4, <4>2, <5>1 DEF Ids, Matched
      <4>3. QED BY <2>2, <3>1, <4>1, <4>2
    <3>2. QED BY <3>1 DEF Matched
  <2>10. QED BY <2>7, <2>8, <2>9 DEF Ids
<1>7. QED BY <1>4, <1>5, <1>6

LEMMA IdsRecord ==
  ASSUME IInv, Ids, SubscribeRecord
  PROVE  /\ Ids' /\ (Accounted => Accounted') /\ \A h \in installed' : mem'[h] = mem[h]
<1>1. /\ user.pc = "subscribe" /\ user.topic \in Topic /\ user.id \in PacketId
      /\ user'.pc = "idle" /\ installed' = installed /\ UNCHANGED <<c2b, b2c>>
      /\ CreateAndRecord(user.topic, user.id)
  BY DEF SubscribeRecord, IInv, TypeOK, Idle, net
<1>2. ~NodeIsExist("SUBACK", user.id)
  BY <1>1 DEF Ids, Unrecorded, Subscribing, NodeIsExist, Pending
<1>3. PICK i \in PacketId, t \in Topic : i = user.id /\ t = user.topic BY <1>1
<1>4. /\ \A m \in Pending' : \/ m \in Pending /\ mem'[m.h] = mem[m.h]
                             \/ m.id = i /\ mem'[m.h] = t
      /\ \A m, n \in Pending' : m.id = i /\ n.id = i => m = n
      /\ \A h \in installed' : mem'[h] = mem[h]
      /\ Accounted => Accounted'
  BY <1>1, <1>2, <1>3, Creates
<1>5. \A j, u : Asked(j, u)' <=> Asked(j, u) BY <1>1 DEF Asked
<1>6. \A j : ~Subscribing(j)' BY <1>1 DEF Subscribing
<1>7. Subscribing(i) BY <1>1, <1>3 DEF Subscribing
<1>8. Single' BY <1>4 DEF Ids, Single
<1>9. Unrecorded' BY <1>6 DEF Unrecorded
<1>10. Matched'
  <2>1. ASSUME NEW j \in PacketId, NEW u \in Topic, Asked(j, u), NEW n \in Pending', n.id = j
        PROVE  mem'[n.h] = u
    <3>1. CASE n \in Pending /\ mem'[n.h] = mem[n.h] BY <2>1, <3>1 DEF Ids, Matched
    <3>2. CASE n.id = i /\ mem'[n.h] = t BY <1>3, <1>7, <2>1, <3>2 DEF Ids, Matched
    <3>3. QED BY <1>4, <3>1, <3>2
  <2>2. QED BY <1>5, <1>6, <2>1 DEF Matched
<1>11. QED BY <1>4, <1>8, <1>9, <1>10 DEF Ids

LEMMA IdsResubscribe ==
  ASSUME IInv, Ids, NextIdUnused, NEW h \in Handler, TryResubscribe(h)
  PROVE  /\ Ids' /\ (Accounted => Accounted') /\ \A g \in installed' : mem'[g] = mem[g]
<1>1. /\ h \in installed /\ user.pc = "idle" /\ ~InUse(GetNextPacketId)
      /\ UNCHANGED <<user, b2c, installed>>
  BY DEF TryResubscribe, IInv, Visit, NextIdUnused
<1>2. PICK t \in Topic : t = mem[h]
  BY <1>1 DEF IInv, TypeOK, Ownership, OneOwner
<1>3. PICK i \in PacketId : i = GetNextPacketId
  BY NextIdTyped DEF IInv, TypeOK
<1>4. \/ Send(Pkt("SUBSCRIBE", i, t)) /\ CreateAndRecord(t, i)
      \/ UNCHANGED <<c2b, mem, nodes, leaked>>
  BY <1>2, <1>3 DEF TryResubscribe
<1>5. \A j : ~Subscribing(j) /\ ~Subscribing(j)' BY <1>1 DEF Subscribing
<1>6. CASE UNCHANGED <<c2b, mem, nodes, leaked>>
  <2>1. \A j, u : Asked(j, u)' <=> Asked(j, u) BY <1>1, <1>6 DEF Asked
  <2>2. Pending' = Pending /\ mem' = mem BY <1>6 DEF Pending
  <2>3. Ids' BY <1>1, <2>1, <2>2, IdsCalm
  <2>4. QED BY <1>1, <1>6, <2>2, <2>3 DEF Accounted, NoOtherLeak
<1>7. CASE Send(Pkt("SUBSCRIBE", i, t)) /\ CreateAndRecord(t, i)
  <2> DEFINE p == Pkt("SUBSCRIBE", i, t)
  <2>1. p \in ToBroker /\ p.kind = "SUBSCRIBE" /\ p.id = i /\ p.topic = t
    BY DEF Pkt, ToBroker
  <2>2. Elems(c2b') \subseteq Elems(c2b) \cup {p} BY <1>7, <2>1, Wires
  <2> HIDE DEF p
  <2>3. \A j, u : Asked(j, u)' => Asked(j, u) \/ (j = i /\ u = t)
    BY <1>1, <2>1, <2>2 DEF Asked
  <2>4. ~NodeIsExist("SUBACK", i) /\ \A u \in Topic : ~Asked(i, u)
    BY <1>1, <1>3 DEF InUse
  <2>5. /\ \A m \in Pending' : \/ m \in Pending /\ mem'[m.h] = mem[m.h]
                               \/ m.id = i /\ mem'[m.h] = t
        /\ \A m, n \in Pending' : m.id = i /\ n.id = i => m = n
        /\ \A g \in installed' : mem'[g] = mem[g]
        /\ Accounted => Accounted'
    BY <1>1, <1>7, <2>4, Creates
  <2>6. Single' BY <2>5 DEF Ids, Single
  <2>7. Unrecorded' BY <1>5 DEF Unrecorded
  <2>8. Matched'
    <3>1. ASSUME NEW j \in PacketId, NEW u \in Topic, Asked(j, u)', NEW n \in Pending', n.id = j
          PROVE  mem'[n.h] = u
      <4>1. \A m \in Pending : m.id # i BY <2>4 DEF NodeIsExist, Pending
      <4>2. CASE j = i BY <2>3, <2>4, <2>5, <3>1, <4>1, <4>2
      <4>3. CASE j # i BY <2>3, <2>5, <3>1, <4>3 DEF Ids, Matched
      <4>4. QED BY <4>2, <4>3
    <3>2. QED BY <1>5, <3>1 DEF Matched
  <2>9. QED BY <2>5, <2>6, <2>7, <2>8 DEF Ids
<1>8. QED BY <1>4, <1>6, <1>7

(* Nothing is asked for by reading, or losing, what is under way.           *)
LEMMA NothingAsked ==
  ASSUME Elems(c2b') \subseteq Elems(c2b), Elems(b2c') \subseteq Elems(b2c)
  PROVE  \A i, t : Asked(i, t)' => Asked(i, t)
BY DEF Asked

(* The yield thread reads an ack. *)
LEMMA ReadCalm ==
  ASSUME IInv, NEW k, Read(k)
  PROVE  /\ Head(b2c) \in Elems(b2c) /\ Head(b2c) \in ToClient /\ Head(b2c).kind = k
         /\ Elems(b2c') \subseteq Elems(b2c)
         /\ \A i, t : Asked(i, t)' => Asked(i, t)
         /\ UNCHANGED <<user, c2b, subs, unsubbed, leaked, link, state>> /\ resub = {} /\ resub' = {}
<1>1. b2c # <<>> /\ b2c' = Tail(b2c) /\ Head(b2c).kind = k
      /\ UNCHANGED <<user, c2b, subs, unsubbed, leaked, link, state, resub>> /\ yield = "loop"
  BY DEF Read, count, Yield
<1>2. /\ Head(b2c) \in Elems(b2c) /\ Head(b2c) \in ToClient
      /\ Elems(b2c') \subseteq Elems(b2c) /\ Elems(c2b') \subseteq Elems(c2b)
  BY <1>1, Wires
<1>3. resub = {} BY <1>1 DEF IInv, Visit
<1>4. QED BY <1>1, <1>2, <1>3, NothingAsked

\* What a step that installs nothing keeps.
Kept == /\ Ids' /\ (Accounted => Accounted') /\ installed' \subseteq installed
        /\ \A h \in installed' : mem'[h] = mem[h]

(* The handler of a SUBACK is installed or destroyed, and its topic is the  *)
(* one of the SUBACK.                                                       *)
LEMMA IdsSuback ==
  ASSUME IInv, Ids, SubackPacketHandle
  PROVE  \/ Kept
         \/ /\ Ids' /\ (Accounted => Accounted') /\ mem' = mem
            /\ Head(b2c).topic \notin Refused
            /\ \E n \in Pending : mem[n.h] = Head(b2c).topic /\ installed' = installed \cup {n.h}
<1> DEFINE p == Head(b2c)
           W == Waiting("SUBACK", p.id)
<1>1. Read("SUBACK") /\ nodes' = nodes \ W BY DEF SubackPacketHandle
<1>2. /\ p \in Elems(b2c) /\ p \in ToClient /\ p.kind = "SUBACK"
      /\ \A i, t : Asked(i, t)' => Asked(i, t)
      /\ UNCHANGED <<user, leaked>>
  BY <1>1, ReadCalm
<1>3. /\ W \in SUBSET nodes /\ W \subseteq Pending /\ Pending' = Pending \ W
      /\ \A n \in W : n.id = p.id
  BY <1>1 DEF Waiting, Pending
<1>4. \A m, n \in W : m = n BY <1>3 DEF Ids, Single
<1>5. \/ W = {} /\ UNCHANGED <<mem, installed>>
      \/ \E n \in W : IF p.topic \in Refused \/ HandlerIsExist(mem[n.h])
                        THEN Destroy(n.h)
                        ELSE installed' = installed \cup {n.h} /\ UNCHANGED <<mem, crashed>>
  BY DEF SubackPacketHandle
<1>6. CASE W = {} /\ UNCHANGED <<mem, installed>>
  <2>1. Pending' = Pending BY <1>3, <1>6
  <2>2. Ids' BY <1>2, <1>6, <2>1, IdsCalm
  <2>3. QED BY <1>1, <1>2, <1>6, <2>1, <2>2 DEF Kept, Accounted, NoOtherLeak
<1>7. ASSUME NEW n \in W, Destroy(n.h) PROVE Kept
  <2>1. /\ Pending' \subseteq Pending /\ \A m \in Pending' : mem'[m.h] = mem[m.h]
        /\ installed' \subseteq installed /\ \A h \in installed' : mem'[h] = mem[h]
        /\ Accounted => Accounted'
    BY <1>1, <1>2, <1>3, <1>4, <1>7, Removes
  <2>2. Ids' BY <1>2, <2>1, IdsCalm
  <2>3. QED BY <2>1, <2>2 DEF Kept
<1>8. ASSUME NEW n \in W, p.topic \notin Refused, mem' = mem, installed' = installed \cup {n.h}
      PROVE  /\ Ids' /\ (Accounted => Accounted')
             /\ n \in Pending /\ mem[n.h] = p.topic
  <2>1. Pending' \subseteq Pending BY <1>3
  <2>2. Ids' BY <1>2, <1>8, <2>1, IdsCalm
  <2>3. n \in Pending /\ n.id = p.id BY <1>3
  <2>4. p.id \in PacketId /\ p.topic \in Topic BY <1>2 DEF ToClient
  <2>5. Asked(p.id, p.topic) BY <1>2 DEF Asked
  <2>6. mem[n.h] = p.topic BY <2>3, <2>4, <2>5 DEF Ids, Matched
  <2>7. Accounted => Accounted'
    BY <1>1, <1>2, <1>3, <1>4, <1>8 DEF Accounted, NoOtherLeak
  <2>8. QED BY <2>2, <2>3, <2>6, <2>7
<1>9. QED BY <1>5, <1>6, <1>7, <1>8

(* The other steps of the yield thread. *)
LEMMA IdsYield ==
  ASSUME IInv, Ids, UnsubackPacketHandle \/ Timeout \/ ScanAll \/ KeepAliveLost \/ TryDoReconnect
  PROVE  Kept
<1>1. CASE KeepAliveLost \/ TryDoReconnect
  <2>1. UNCHANGED <<lists, user, c2b, b2c, leaked>>
    BY <1>1 DEF KeepAliveLost, TryDoReconnect, net, count
  <2>2. Pending' = Pending /\ \A i, t : Asked(i, t)' <=> Asked(i, t)
    BY <2>1 DEF Pending, Asked, lists
  <2>3. Ids' BY <2>1, <2>2, IdsCalm DEF lists
  <2>4. QED BY <2>1, <2>2, <2>3 DEF Kept, Accounted, NoOtherLeak, lists
<1>2. CASE Timeout
  <2>1. PICK n \in nodes : ScanTimeout(n) BY <1>2 DEF Timeout
  <2>2. nodes' = nodes \ {n} /\ Destroy(n.h) /\ UNCHANGED <<user, c2b, b2c, leaked>>
    BY <2>1 DEF ScanTimeout, net, count
  <2>3. /\ Pending' \subseteq Pending /\ \A m \in Pending' : mem'[m.h] = mem[m.h]
        /\ installed' \subseteq installed /\ \A h \in installed' : mem'[h] = mem[h]
        /\ Accounted => Accounted'
    <3>1. n \in {n} /\ {n} \in SUBSET nodes /\ \A m \in {n} : m = n OBVIOUS
    <3>2. QED BY <2>2, <3>1, Removes
  <2>4. \A i, t : Asked(i, t)' <=> Asked(i, t) BY <2>2 DEF Asked
  <2>5. Ids' BY <2>2, <2>3, <2>4, IdsCalm
  <2>6. QED BY <2>3, <2>5 DEF Kept
<1>3. CASE UnsubackPacketHandle
  <2> DEFINE W == Waiting("UNSUBACK", Head(b2c).id)
  <2>1. Read("UNSUBACK") /\ nodes' = nodes \ W BY <1>3 DEF UnsubackPacketHandle
  <2>2. (\A i, t : Asked(i, t)' => Asked(i, t)) /\ UNCHANGED <<user, leaked>>
    BY <2>1, ReadCalm
  <2>3. W \in SUBSET nodes /\ (\A m \in W : m \notin Pending)
    BY DEF Waiting, Pending
  <2>4. (\E n \in W : Destroy(n.h)) \/ (W = {} /\ UNCHANGED <<mem, installed>>)
    BY <1>3 DEF UnsubackPacketHandle
  <2> HIDE DEF W
  <2>5. ASSUME NEW n \in W, Destroy(n.h) PROVE Kept
    <3>1. /\ Pending' \subseteq Pending /\ \A m \in Pending' : mem'[m.h] = mem[m.h]
          /\ installed' \subseteq installed /\ \A h \in installed' : mem'[h] = mem[h]
          /\ Accounted => Accounted'
      BY <2>1, <2>2, <2>3, <2>5, Removes
    <3>2. Ids' BY <2>2, <3>1, IdsCalm
    <3>3. QED BY <3>1, <3>2 DEF Kept
  <2>6. CASE W = {} /\ UNCHANGED <<mem, installed>>
    <3>1. Pending' = Pending BY <2>1, <2>6 DEF Pending
    <3>2. Ids' BY <2>2, <2>6, <3>1, IdsCalm
    <3>3. QED BY <2>1, <2>2, <2>6, <3>1, <3>2 DEF Kept, Accounted, NoOtherLeak
  <2>7. QED BY <2>4, <2>5, <2>6
<1>4. CASE ScanAll
  <2> DEFINE gone == {n.h : n \in nodes}
  <2>1. /\ nodes' = {} /\ installed' = installed \ gone
        /\ mem' = [h \in Handler |-> IF h \in gone THEN NoTopic ELSE mem[h]]
        /\ UNCHANGED <<user, c2b, b2c, leaked>>
    BY <1>4 DEF ScanAll, net, count
  <2>2. Pending' = {} BY <2>1 DEF Pending
  <2>3. \A h \in installed' : mem'[h] = mem[h] BY <2>1 DEF IInv, TypeOK
  <2>4. Accounted => Accounted'
    <3> SUFFICES ASSUME Accounted PROVE Accounted'
      OBVIOUS
    <3>1. ASSUME NEW h \in Handler
          PROVE  h \in leaked' <=> mem'[h] # NoTopic /\ h \notin installed'
      <4>1. mem'[h] = IF h \in gone THEN NoTopic ELSE mem[h] BY <2>1
      <4>2. CASE h \in gone BY <2>1, <4>1, <4>2 DEF Accounted
      <4>3. CASE h \notin gone
        <5>1. \A n \in Pending : n.h # h BY <4>3 DEF Pending
        <5>2. QED BY <2>1, <4>1, <4>3, <5>1 DEF Accounted, NoOtherLeak
      <4>4. QED BY <4>2, <4>3
    <3>2. QED BY <2>1, <2>2, <3>1 DEF Accounted, NoOtherLeak
  <2>5. \A i, t : Asked(i, t)' <=> Asked(i, t) BY <2>1 DEF Asked
  <2>6. Ids' BY <2>1, <2>2, <2>5, IdsCalm
  <2>7. QED BY <2>1, <2>3, <2>4, <2>6 DEF Kept
<1>5. QED BY <1>1, <1>2, <1>3, <1>4

(* An unsubscription, the broker, the loss of the connection. *)
LEMMA IdsOther ==
  ASSUME IInv, Ids,
         \/ \E t \in Topic : Unsubscribe(t)
         \/ UnsubscribeRecord \/ BrokerStep \/ LinkDown \/ UNCHANGED vars
  PROVE  Kept
<1>1. ASSUME UNCHANGED <<mem, installed, leaked>>, Pending' = Pending,
             \A n \in nodes' : n \in nodes \/ n.h \in installed,
             \A i \in PacketId, t \in Topic : Asked(i, t)' => Asked(i, t),
             user' = user \/ user'.pc # "subscribe"
      PROVE  Kept
  <2>1. Ids' BY <1>1, IdsCalm
  <2>2. Accounted => Accounted'
    <3>1. \A h \in installed : h \in Handler BY DEF IInv, TypeOK
    <3>2. QED BY <1>1, <3>1 DEF Accounted, NoOtherLeak
  <2>3. QED BY <1>1, <2>1, <2>2 DEF Kept
<1>2. ASSUME NEW t \in Topic, Unsubscribe(t) PROVE Kept
  <2> DEFINE p == Pkt("UNSUBSCRIBE", GetNextPacketId, t)
  <2>1. p \in ToBroker /\ p.kind = "UNSUBSCRIBE"
    BY NextIdTyped DEF IInv, TypeOK, Pkt, ToBroker
  <2>2. UNCHANGED <<lists, b2c, leaked>> /\ (Send(p) \/ c2b' = c2b)
        /\ (user' = user \/ user'.pc # "subscribe")
    BY <1>2 DEF Unsubscribe, UserCall
  <2> HIDE DEF p
  <2>3. Elems(c2b') \subseteq Elems(c2b) \cup {p} BY <2>1, <2>2, Wires
  <2>4. \A i, u : Asked(i, u)' => Asked(i, u) BY <2>1, <2>2, <2>3 DEF Asked
  <2>5. Pending' = Pending BY <2>2 DEF Pending, lists
  <2>6. QED BY <1>1, <2>2, <2>4, <2>5 DEF lists
<1>3. CASE UnsubscribeRecord
  <2>1. UNCHANGED <<mem, installed, c2b, b2c, leaked>> /\ user'.pc # "subscribe"
    BY <1>3 DEF UnsubscribeRecord, net, count, Idle
  <2>2. \/ nodes' = nodes
        \/ \E h \in installed : nodes' = nodes \cup {[type |-> "UNSUBACK", id |-> user.id, h |-> h]}
    BY <1>3 DEF UnsubscribeRecord, AckListRecord, AckListNoMemory
  <2>3. Pending' = Pending /\ \A n \in nodes' : n \in nodes \/ n.h \in installed
    BY <2>2 DEF Pending
  <2>4. \A i, u : Asked(i, u)' <=> Asked(i, u) BY <2>1 DEF Asked
  <2>5. QED BY <1>1, <2>1, <2>3, <2>4
<1>4. CASE BrokerStep
  <2> DEFINE p == Head(c2b)
  <2>1. /\ c2b # <<>> /\ c2b' = Tail(c2b) /\ UNCHANGED <<lists, user, leaked>>
    BY <1>4 DEF BrokerStep, count
  <2>2. /\ p \in Elems(c2b) /\ p \in ToBroker /\ Elems(c2b') \subseteq Elems(c2b)
    BY <2>1, Wires
  <2>3. PICK k \in {"SUBACK", "UNSUBACK"} :
          /\ b2c' = Append(b2c, Pkt(k, p.id, p.topic))
          /\ k = "SUBACK" => p.kind = "SUBSCRIBE"
    BY <1>4 DEF BrokerStep
  <2> DEFINE q == Pkt(k, p.id, p.topic)
  <2>4. q \in ToClient /\ q.kind = k /\ q.id = p.id /\ q.topic = p.topic
    BY <2>2 DEF Pkt, ToClient, ToBroker
  <2> HIDE DEF q
  <2>5. Elems(b2c') = Elems(b2c) \cup {q} BY <2>3, <2>4, Wires DEF q
  <2>6. \A i, t : Asked(i, t)' => Asked(i, t) BY <2>2, <2>3, <2>4, <2>5 DEF Asked
  <2>7. Pending' = Pending BY <2>1 DEF Pending, lists
  <2>8. QED BY <1>1, <2>1, <2>6, <2>7 DEF lists
<1>5. CASE LinkDown \/ UNCHANGED vars
  <2>1. /\ UNCHANGED <<lists, user, leaked>>
        /\ c2b' = c2b \/ c2b' = <<>>
        /\ b2c' = b2c \/ b2c' = <<>>
    BY <1>5 DEF LinkDown, vars, net, count
  <2>2. \A i, t : Asked(i, t)' => Asked(i, t)
    BY <2>1, Wires, NothingAsked
  <2>3. Pending' = Pending BY <2>1 DEF Pending, lists
  <2>4. QED BY <1>1, <2>1, <2>2, <2>3 DEF lists
<1>6. QED BY <1>2, <1>3, <1>4, <1>5

(* Every step, as far as the ids and the memory go. *)
LEMMA IdsStep ==
  ASSUME IInv, Ids, NextIdUnused, [Next]_vars
  PROVE  Ids' /\ (Accounted => Accounted')
<1>1. ASSUME NEW t \in Topic, Subscribe(t) PROVE Ids' /\ (Accounted => Accounted')
  <2>1. UNCHANGED <<lists, leaked>> BY <1>1 DEF Subscribe, UserCall
  <2>2. Accounted => Accounted' BY <2>1 DEF Accounted, NoOtherLeak, Pending, lists
  <2>3. QED BY <1>1, <2>2, IdsSubscribe
<1>2. CASE \/ (\E t \in Topic : Unsubscribe(t))
           \/ UnsubscribeRecord \/ BrokerStep \/ LinkDown \/ UNCHANGED vars
  BY <1>2, IdsOther DEF Kept
<1>3. CASE Record BY <1>2, <1>3, IdsRecord DEF Record
<1>4. CASE YieldStep \/ Timeout
  BY <1>4, IdsSuback, IdsYield, IdsResubscribe DEF YieldStep, Kept
<1>5. QED BY <1>1, <1>2, <1>3, <1>4 DEF Next

(* The only handlers that are leaked are those whose node could not be       *)
(* allocated, which mqtt_subscribe() forgets (1341-1343): whatever acks,     *)
(* timeouts, refusals, repeated calls, reconnects and lack of memory come    *)
(* together, every other allocated one is installed or in a node that will   *)
(* destroy or install it.  The condition is that no packet id is taken that  *)
(* is still in use: mqtt_ack_list_record() refuses a second node of an id,   *)
(* and nothing then points to the handler either.                            *)
THEOREM NothingElseLeaks == Spec /\ []NextIdUnused => []NoOtherLeak
<1>1. Init => Ids /\ Accounted
  <2> SUFFICES ASSUME Init PROVE Ids /\ Accounted
    OBVIOUS
  <2>1. Pending = {} /\ \A i, t : ~Asked(i, t)
    BY DEF Init, Pending, Asked, Elems
  <2>2. Ids BY <2>1 DEF Init, Ids, Single, Unrecorded, Matched
  <2>3. Accounted BY <2>1 DEF Init, Accounted, NoOtherLeak
  <2>4. QED BY <2>2, <2>3
<1>2. IInv /\ NextIdUnused /\ Ids /\ Accounted /\ [Next]_vars => Ids' /\ Accounted'
  BY IdsStep
<1>3. Accounted => NoOtherLeak BY DEF Accounted
<1>4. QED BY <1>1, <1>2, <1>3, Invariant, PTL DEF Spec
-----------------------------------------------------------------------------
(* The subscriptions of the broker.                                          *)

\* A connection that is gone carries nothing.
Down == (state = "DISCONNECTED" => ~link) /\ (~link => c2b = <<>> /\ b2c = <<>>)

\* The broker has the subscription, or its SUBSCRIBE is under way.
Covered(t) == \/ t \in subs \cup unsubbed
              \/ \E p \in Elems(c2b) : p.kind = "SUBSCRIBE" /\ p.topic = t

\* What the packets say of the subscriptions, and the installed handlers.
Granted ==
  /\ \A p \in Elems(b2c) : p.kind = "SUBACK" => p.topic \in subs \cup unsubbed \cup Refused
  /\ \A p \in Elems(c2b) : p.kind = "UNSUBSCRIBE" => p.topic \in unsubbed
  /\ \A h \in installed : mem[h] \notin Refused /\ (link => h \in resub \/ Covered(mem[h]))

LEMMA DownStep ==
  ASSUME Down, [Next]_vars
  PROVE  Down'
<1>1. ASSUME NEW t \in Topic, Subscribe(t) \/ Unsubscribe(t) PROVE Down'
  <2>1. /\ UNCHANGED <<state, link, b2c>>
        /\ c2b' = c2b \/ \E p : Send(p)
    BY <1>1 DEF Subscribe, Unsubscribe, UserCall
  <2>2. ~link => c2b' = c2b BY <2>1 DEF Send
  <2>3. QED BY <2>1, <2>2 DEF Down
<1>2. CASE Record
  BY <1>2 DEF Record, SubscribeRecord, UnsubscribeRecord, Down, net
<1>3. CASE SubackPacketHandle \/ UnsubackPacketHandle
  BY <1>3 DEF SubackPacketHandle, UnsubackPacketHandle, Read, Yield, Down
<1>4. CASE KeepAliveLost \/ TryDoReconnect \/ ScanAll \/ Timeout
  <2>1. CASE KeepAliveLost BY <2>1 DEF KeepAliveLost, Down, net
  <2>2. CASE TryDoReconnect BY <2>2 DEF TryDoReconnect, Down
  <2>3. CASE ScanAll \/ Timeout
    <3>1. UNCHANGED <<state, net>> BY <2>3 DEF ScanAll, Timeout, ScanTimeout
    <3>2. QED BY <3>1 DEF Down, net
  <2>4. QED BY <1>4, <2>1, <2>2, <2>3
<1>5. CASE \E h \in Handler : TryResubscribe(h)
  BY <1>5 DEF TryResubscribe, Send, Down
<1>6. CASE BrokerStep \/ LinkDown \/ UNCHANGED vars
  BY <1>6 DEF BrokerStep, LinkDown, Down, vars, net
<1>7. QED BY <1>1, <1>2, <1>3, <1>4, <1>5, <1>6 DEF Next, YieldStep

(* A step that takes no subscription away and installs nothing. *)
LEMMA GrantedCalm ==
  ASSUME Granted, installed' \subseteq installed, \A h \in installed' : mem'[h] = mem[h],
         subs \cup unsubbed \subseteq subs' \cup unsubbed', unsubbed \subseteq unsubbed',
         link' => link, resub \subseteq resub',
         \A p \in Elems(c2b) : p.kind = "SUBSCRIBE" => p \in Elems(c2b'),
         \A p \in Elems(c2b') : p.kind = "UNSUBSCRIBE" => p \in Elems(c2b) \/ p.topic \in unsubbed',
         \A p \in Elems(b2c') : p.kind = "SUBACK" => p \in Elems(b2c)
  PROVE  Granted'
<1>1. \A t : Covered(t) => Covered(t)' BY DEF Covered
<1>2. ASSUME NEW h \in installed' PROVE mem'[h] \notin Refused /\ (link' => h \in resub' \/ Covered(mem[h])')
  BY <1>1, <1>2 DEF Granted
<1>3. QED BY <1>2 DEF Granted, Covered

(* The installation of a handler: the broker has granted its topic.         *)
LEMMA GrantedSuback ==
  ASSUME IInv, Ids, Granted, SubackPacketHandle
  PROVE  Granted'
<1>1. /\ Head(b2c) \in Elems(b2c) /\ Head(b2c).kind = "SUBACK"
      /\ Elems(b2c') \subseteq Elems(b2c)
      /\ UNCHANGED <<c2b, subs, unsubbed, link>> /\ resub = {} /\ resub' = {}
  BY ReadCalm DEF SubackPacketHandle
<1>2. CASE Kept BY <1>1, <1>2, GrantedCalm DEF Kept
<1>3. CASE /\ mem' = mem /\ Head(b2c).topic \notin Refused
           /\ \E n \in Pending : mem[n.h] = Head(b2c).topic /\ installed' = installed \cup {n.h}
  <2>1. PICK n \in Pending : mem[n.h] = Head(b2c).topic /\ installed' = installed \cup {n.h}
    BY <1>3
  <2>2. mem[n.h] \in subs \cup unsubbed /\ mem[n.h] \notin Refused
    BY <1>1, <1>3, <2>1 DEF Granted
  <2>3. \A t : Covered(t)' <=> Covered(t) BY <1>1 DEF Covered
  <2>4. ASSUME NEW h \in installed'
        PROVE  mem'[h] \notin Refused /\ (link' => h \in resub' \/ Covered(mem[h])')
    <3>1. CASE h \in installed
      <4>1. mem[h] \notin Refused /\ (link => Covered(mem[h])) BY <1>1, <3>1 DEF Granted
      <4>2. Covered(mem[h])' <=> Covered(mem[h]) BY <1>1, <1>3 DEF Covered
      <4>3. QED BY <1>1, <1>3, <4>1, <4>2
    <3>2. CASE h = n.h
      <4>1. Covered(mem[h])' BY <1>1, <1>3, <2>2, <3>2 DEF Covered
      <4>2. QED BY <1>3, <2>2, <3>2, <4>1
    <3>3. QED BY <2>1, <3>1, <3>2
  <2>5. QED BY <1>1, <2>4 DEF Granted
<1>4. QED BY <1>2, <1>3, IdsSuback

(* After a reconnect every handler is visited again. *)
LEMMA GrantedReconnect ==
  ASSUME IInv, Down, Granted, TryDoReconnect
  PROVE  Granted'
<1>1. /\ ~link /\ c2b = <<>> /\ b2c = <<>> BY DEF TryDoReconnect, Down
<1>2. /\ UNCHANGED <<mem, installed, c2b, b2c>> /\ resub' = installed
  BY DEF TryDoReconnect, lists
<1>3. Elems(c2b') = {} /\ Elems(b2c') = {} BY <1>1, <1>2, Wires
<1>4. QED BY <1>2, <1>3 DEF Granted

LEMMA GrantedResubscribe ==
  ASSUME IInv, Ids, NextIdUnused, Granted, NEW h \in Handler, TryResubscribe(h)
  PROVE  Granted'
<1>1. /\ h \in installed /\ installed' = installed /\ resub' = resub \ {h}
      /\ UNCHANGED <<link, b2c, subs, unsubbed>>
  BY DEF TryResubscribe, IInv, Visit, count
<1>2. \A g \in installed' : mem'[g] = mem[g] BY IdsResubscribe
<1>3. PICK t \in Topic : t = mem[h]
  BY <1>1 DEF IInv, TypeOK, Ownership, OneOwner
<1>4. PICK i \in PacketId : i = GetNextPacketId
  BY NextIdTyped DEF IInv, TypeOK
<1> DEFINE p == Pkt("SUBSCRIBE", i, t)
<1>5. p \in ToBroker /\ p.kind = "SUBSCRIBE" /\ p.id = i /\ p.topic = t
  BY DEF Pkt, ToBroker
<1>6. Send(p) \/ (~link /\ c2b' = c2b) BY <1>3, <1>4 DEF TryResubscribe
<1> HIDE DEF p
<1>7. /\ Elems(c2b') \subseteq Elems(c2b) \cup {p} /\ Elems(c2b) \subseteq Elems(c2b')
      /\ link => p \in Elems(c2b')
  BY <1>5, <1>6, Wires
<1>8. ASSUME NEW g \in installed'
      PROVE  mem'[g] \notin Refused /\ (link' => g \in resub' \/ Covered(mem[g])')
  <2>1. mem'[g] = mem[g] /\ g \in installed BY <1>1, <1>2, <1>8
  <2>2. mem'[g] \notin Refused BY <2>1 DEF Granted
  <2>3. CASE g = h
    <3>1. link => Covered(mem[g])' BY <1>3, <1>5, <1>7, <2>1, <2>3 DEF Covered
    <3>2. QED BY <1>1, <2>2, <3>1
  <2>4. CASE g # h
    <3>1. link => g \in resub \/ Covered(mem[g]) BY <2>1 DEF Granted
    <3>2. Covered(mem[g]) => Covered(mem[g])' BY <1>1, <1>7, <2>1 DEF Covered
    <3>3. QED BY <1>1, <2>2, <2>4, <3>1, <3>2
  <2>5. QED BY <2>3, <2>4
<1>9. QED BY <1>1, <1>5, <1>7, <1>8 DEF Granted

(* The broker keeps its word: what it answers it has done. *)
LEMMA GrantedBroker ==
  ASSUME IInv, Granted, BrokerStep
  PROVE  Granted'
<1> DEFINE p == Head(c2b)
<1>1. /\ c2b # <<>> /\ c2b' = Tail(c2b)
      /\ UNCHANGED <<mem, installed, resub, link, unsubbed>>
  BY DEF BrokerStep, lists, count
<1>2. /\ p \in Elems(c2b) /\ p \in ToBroker /\ Elems(c2b') \subseteq Elems(c2b)
      /\ Elems(c2b) \subseteq Elems(c2b') \cup {p}
  BY <1>1, Wires
<1>3. PICK k \in {"SUBACK", "UNSUBACK"} :
        /\ b2c' = Append(b2c, Pkt(k, p.id, p.topic))
        /\ \/ /\ k = "SUBACK" /\ p.kind = "SUBSCRIBE" /\ subs' = subs \cup ({p.topic} \ Refused)
           \/ /\ k = "UNSUBACK" /\ p.kind = "UNSUBSCRIBE" /\ subs' = subs \ {p.topic}
  BY DEF BrokerStep
<1> DEFINE q == Pkt(k, p.id, p.topic)
<1>4. q \in ToClient /\ q.kind = k /\ q.id = p.id /\ q.topic = p.topic
  BY <1>2 DEF Pkt, ToClient, ToBroker
<1> HIDE DEF q
<1>5. Elems(b2c') = Elems(b2c) \cup {q} BY <1>3, <1>4, Wires DEF q
<1>6. p.kind = "UNSUBSCRIBE" => p.topic \in unsubbed BY <1>2 DEF Granted
<1>7. subs \cup unsubbed \subseteq subs' \cup unsubbed' BY <1>1, <1>3, <1>6
<1>8. \A x \in Elems(b2c') : x.kind = "SUBACK" => x.topic \in subs' \cup unsubbed' \cup Refused
  <2>1. \A x \in Elems(b2c) : x.kind = "SUBACK" => x.topic \in subs' \cup unsubbed' \cup Refused
    BY <1>7 DEF Granted
  <2>2. q.kind = "SUBACK" => q.topic \in subs' \cup Refused BY <1>3, <1>4
  <2>3. QED BY <1>5, <2>1, <2>2
<1>9. \A x \in Elems(c2b') : x.kind = "UNSUBSCRIBE" => x.topic \in unsubbed'
  BY <1>1, <1>2 DEF Granted
<1>10. ASSUME NEW h \in installed'
       PROVE  mem'[h] \notin Refused /\ (link' => h \in resub' \/ Covered(mem[h])')
  <2>1. mem'[h] \notin Refused /\ (link => h \in resub \/ Covered(mem[h]))
    BY <1>1, <1>10 DEF Granted
  <2>2. Covered(mem[h]) => Covered(mem[h])'
    <3>1. CASE mem[h] \in subs \cup unsubbed BY <1>1, <1>7, <3>1 DEF Covered
    <3>2. ASSUME NEW x \in Elems(c2b), x.kind = "SUBSCRIBE", x.topic = mem[h] PROVE Covered(mem[h])'
      <4>1. CASE x = p
        <5>1. mem'[h] \in subs' BY <1>1, <1>3, <2>1, <3>2, <4>1
        <5>2. QED BY <5>1 DEF Covered
      <4>2. CASE x # p
        <5>1. x \in Elems(c2b') BY <1>2, <3>2, <4>2
        <5>2. QED BY <1>1, <3>2, <5>1 DEF Covered
      <4>3. QED BY <4>1, <4>2
    <3>3. QED BY <3>1, <3>2 DEF Covered
  <2>3. QED BY <1>1, <2>1, <2>2
<1>11. QED BY <1>8, <1>9, <1>10 DEF Granted

(* A call of the user: the packet is sent, or the connection is gone.        *)
LEMMA GrantedCall ==
  ASSUME IInv, Granted, NEW t \in Topic, Subscribe(t) \/ Unsubscribe(t)
  PROVE  Granted'
<1>1. PICK k \in {"SUBSCRIBE", "UNSUBSCRIBE"} :
        /\ k = "UNSUBSCRIBE" => t \in unsubbed'
        /\ Send(Pkt(k, GetNextPacketId, t)) \/ c2b' = c2b
  BY DEF Subscribe, Unsubscribe, UserCall
<1>2. /\ UNCHANGED <<mem, installed, resub, link, b2c, subs>> /\ unsubbed \subseteq unsubbed'
  BY DEF Subscribe, Unsubscribe, UserCall, lists
<1> DEFINE p == Pkt(k, GetNextPacketId, t)
<1>3. p \in ToBroker /\ p.kind = k /\ p.topic = t
  BY NextIdTyped DEF IInv, TypeOK, Pkt, ToBroker
<1>4. Send(p) \/ c2b' = c2b BY <1>1
<1> HIDE DEF p
<1>5. Elems(c2b') \subseteq Elems(c2b) \cup {p} /\ Elems(c2b) \subseteq Elems(c2b')
  BY <1>3, <1>4, Wires
<1>6. \A x \in Elems(c2b') : x.kind = "UNSUBSCRIBE" => x \in Elems(c2b) \/ x.topic \in unsubbed'
  BY <1>1, <1>3, <1>5
<1>7. QED BY <1>2, <1>5, <1>6, GrantedCalm

(* The connection takes all its packets with it. *)
LEMMA GrantedDown ==
  ASSUME IInv, Granted, LinkDown
  PROVE  Granted'
<1>1. /\ ~link' /\ c2b' = <<>> /\ b2c' = <<>> /\ UNCHANGED <<mem, installed>>
  BY DEF LinkDown, lists
<1>2. Elems(c2b') = {} /\ Elems(b2c') = {} BY <1>1, Wires
<1>3. QED BY <1>1, <1>2 DEF Granted

LEMMA GrantedStep ==
  ASSUME IInv, Ids, NextIdUnused, Down, Granted, [Next]_vars
  PROVE  Granted'
<1>1. ASSUME installed' \subseteq installed, \A h \in installed' : mem'[h] = mem[h],
             UNCHANGED <<c2b, subs, unsubbed, link>>, resub \subseteq resub',
             Elems(b2c') \subseteq Elems(b2c)
      PROVE  Granted'
  BY <1>1, GrantedCalm
<1>2. CASE SubscribeRecord
  <2>1. UNCHANGED <<installed, c2b, b2c, subs, unsubbed, link, resub>>
    BY <1>2 DEF SubscribeRecord, net, count
  <2>2. \A h \in installed' : mem'[h] = mem[h] BY <1>2, <2>1, IdsRecord
  <2>3. QED BY <1>1, <2>1, <2>2
<1>3. CASE UnsubscribeRecord \/ KeepAliveLost \/ Timeout \/ ScanAll \/ UNCHANGED vars
  <2>1. UNCHANGED <<c2b, b2c, subs, unsubbed, link, resub>>
    BY <1>3 DEF UnsubscribeRecord, KeepAliveLost, Timeout, ScanTimeout, ScanAll, vars, net, count
  <2>2. Kept BY <1>3, IdsOther, IdsYield
  <2>3. QED BY <1>1, <2>1, <2>2 DEF Kept
<1>4. CASE UnsubackPacketHandle
  <2>1. /\ UNCHANGED <<c2b, subs, unsubbed, link>> /\ resub = {} /\ Elems(b2c') \subseteq Elems(b2c)
    BY <1>4, ReadCalm DEF UnsubackPacketHandle
  <2>2. Kept BY <1>4, IdsYield
  <2>3. QED BY <1>1, <2>1, <2>2 DEF Kept
<1>5. QED
  BY <1>2, <1>3, <1>4, GrantedCall, GrantedDown, GrantedSuback, GrantedReconnect,
     GrantedResubscribe, GrantedBroker DEF Next, Record, YieldStep

(* When nothing is under way, the broker has a subscription for every handler *)
(* of a topic that was not unsubscribed, also in a clean session: a handler is *)
(* installed by the SUBACK of its own topic only, and a reconnect visits every *)
(* installed handler before the yield thread is back in its loop.  Without the *)
(* condition on the ids the SUBACK of one topic installs the handler of        *)
(* another.                                                                    *)
THEOREM SubscriptionsRestored == Spec /\ []NextIdUnused => []HandlersSubscribed
<1>1. Init => Ids /\ Down /\ Granted
  <2> SUFFICES ASSUME Init PROVE Ids /\ Down /\ Granted
    OBVIOUS
  <2>1. Pending = {} /\ \A i, t : ~Asked(i, t)
    BY DEF Init, Pending, Asked, Elems
  <2>2. Elems(c2b) = {} /\ Elems(b2c) = {} BY DEF Init, Elems
  <2>3. Ids BY <2>1 DEF Init, Ids, Single, Unrecorded, Matched
  <2>4. QED BY <2>2, <2>3 DEF Init, Down, Granted
<1>2. IInv /\ NextIdUnused /\ (Ids /\ Down /\ Granted) /\ [Next]_vars => (Ids /\ Down /\ Granted)'
  BY IdsStep, DownStep, GrantedStep
<1>3. IInv /\ Granted => HandlersSubscribed
  <2> SUFFICES ASSUME IInv, Granted, Quiet, NEW h \in installed
               PROVE  mem[h] \in subs \cup unsubbed
    BY DEF HandlersSubscribed
  <2>1. resub = {} /\ Elems(c2b) = {} /\ link
    BY Wires DEF Quiet, IInv, Visit
  <2>2. QED BY <2>1 DEF Granted, Covered
<1>4. QED BY <1>1, <1>2, <1>3, Invariant, PTL DEF Spec
-----------------------------------------------------------------------------
(* When the condition on the ids is met: ids are taken one after the other,  *)
(* one for each call and, after each loss of the connection, one for each    *)
(* installed handler, of which a topic has one at the most.                  *)

\* More ids than calls and resubscriptions together.
EnoughIds == IsFiniteSet(Topic) /\ MaxCalls + MaxDrops * Cardinality(Topic) < MaxPacketId

\* Losses of the connection after which mqtt_connect() has succeeded.
Reconnects == IF link THEN drops ELSE drops - 1

\* Each id is accounted for, and so is each one still to be taken.
Tally == /\ ~link => drops > 0
         /\ packetId + Cardinality(resub) <= 1 + calls + Reconnects * Cardinality(Topic)

\* No id is ahead of the counter, and 1 comes last.
Below == \A j \in PacketId : InUse(j) \/ Subscribing(j) => 1 < j /\ j <= packetId

(* A topic has one handler, so there are no more of them to visit.          *)
LEMMA FewHandlers ==
  ASSUME EnoughIds, IInv
  PROVE  /\ IsFiniteSet(installed) /\ Cardinality(installed) <= Cardinality(Topic)
         /\ IsFiniteSet(resub) /\ Cardinality(resub) \in Nat /\ Cardinality(Topic) \in Nat
         /\ Cardinality(installed) \in Nat
<1> DEFINE f == [h \in installed |-> mem[h]]
<1>1. \A h \in installed : mem[h] \in Topic
  BY DEF IInv, TypeOK, Ownership, OneOwner
<1>2. f \in Injection(installed, Topic)
  BY <1>1 DEF Injection, IsInjective, IInv, Ownership, OneHandlerPerTopic
<1>3. IsFiniteSet(installed) /\ Cardinality(installed) <= Cardinality(Topic)
  BY <1>2, FS_Injection DEF EnoughIds
<1>4. IsFiniteSet(resub) BY <1>3, FS_Subset DEF IInv, Visit
<1>5. QED BY <1>3, <1>4, FS_CardinalityType DEF EnoughIds

(* While a call or a resubscription is left, the next id is a new one.      *)
LEMMA NextIsNew ==
  ASSUME EnoughIds, IInv, Tally
  PROVE  /\ packetId \in Nat /\ packetId <= MaxPacketId
         /\ calls < MaxCalls \/ resub # {} => GetNextPacketId = packetId + 1
<1> DEFINE T == Cardinality(Topic)
           R == Cardinality(resub)
<1>1. /\ packetId \in Nat /\ packetId <= MaxPacketId /\ MaxPacketId \in Nat
      /\ calls \in Nat /\ calls <= MaxCalls /\ MaxCalls \in Nat
      /\ drops \in Nat /\ drops <= MaxDrops /\ MaxDrops \in Nat
  BY SubsAssumption DEF IInv, TypeOK, PacketId
<1>2. T \in Nat /\ R \in Nat /\ (resub # {} => R > 0)
  BY FewHandlers, FS_EmptySet
<1>3. Reconnects \in Nat /\ Reconnects <= MaxDrops BY <1>1 DEF Tally, Reconnects
<1>4. \A m, n, k \in Nat : m <= n => m * k <= n * k OBVIOUS
<1>5. PICK some \in Nat, all \in Nat : /\ some = Reconnects * T /\ all = MaxDrops * T
                                       /\ some <= all
  BY <1>1, <1>2, <1>3, <1>4
<1>6. packetId + R <= 1 + calls + some /\ MaxCalls + all < MaxPacketId
  BY <1>5 DEF Tally, EnoughIds
<1> HIDE DEF T, R
<1>7. calls < MaxCalls \/ resub # {} => packetId < MaxPacketId
  BY <1>1, <1>2, <1>5, <1>6
<1>8. QED BY <1>1, <1>7 DEF GetNextPacketId

LEMMA BelowUnused ==
  ASSUME EnoughIds, IInv, Tally, Below PROVE NextIdUnused
<1>1. packetId \in Nat /\ GetNextPacketId \in {1, packetId + 1} /\ GetNextPacketId \in PacketId
  BY NextIsNew, NextIdTyped DEF GetNextPacketId, IInv, TypeOK
<1>2. QED BY <1>1 DEF Below, NextIdUnused

(* An id that was taken is accounted for.                                    *)
LEMMA TallyStep ==
  ASSUME EnoughIds, IInv, Down, Tally, [Next]_vars
  PROVE  Tally'
<1> DEFINE T == Cardinality(Topic)
<1>1. /\ packetId \in Nat /\ calls \in Nat /\ drops \in Nat
  BY SubsAssumption DEF IInv, TypeOK, PacketId
<1>2. /\ T \in Nat /\ Cardinality(resub) \in Nat
      /\ IsFiniteSet(resub) /\ Cardinality(installed) <= T /\ Cardinality(installed) \in Nat
  BY FewHandlers
<1>3. Reconnects \in Nat BY <1>1 DEF Tally, Reconnects
<1>4. PICK some \in Nat : some = Reconnects * T
  BY <1>2, <1>3
<1>5. packetId + Cardinality(resub) <= 1 + calls + some
  BY <1>4 DEF Tally
<1> HIDE DEF T
<1>6. CASE UNCHANGED <<packetId, resub, calls, drops, link>>
  BY <1>6 DEF Tally, Reconnects
<1>7. ASSUME NEW t \in Topic, Subscribe(t) \/ Unsubscribe(t) PROVE Tally'
  <2>1. /\ calls < MaxCalls /\ calls' = calls + 1 /\ packetId' = GetNextPacketId
        /\ UNCHANGED <<resub, drops, link>>
    BY <1>7 DEF Subscribe, Unsubscribe, UserCall
  <2>2. packetId' = packetId + 1 BY <2>1, NextIsNew
  <2>3. Reconnects' = Reconnects BY <2>1 DEF Reconnects
  <2>4. packetId' + Cardinality(resub)' <= 1 + calls' + some
    BY <1>1, <1>2, <1>5, <2>1, <2>2
  <2>5. QED BY <1>4, <2>1, <2>3, <2>4 DEF Tally, T
<1>8. CASE TryDoReconnect
  <2>1. /\ ~link /\ link' /\ resub = {} /\ resub' = installed
        /\ UNCHANGED <<packetId, calls, drops>>
    BY <1>8 DEF TryDoReconnect, count, Down, IInv, Visit
  <2>2. Reconnects' = Reconnects + 1 BY <1>1, <2>1 DEF Reconnects
  <2>3. \A m, k \in Nat : (m + 1) * k = m * k + k OBVIOUS
  <2>4. Reconnects' * T = some + T BY <1>2, <1>3, <1>4, <2>2, <2>3
  <2>5. Cardinality(resub) = 0 /\ Cardinality(resub)' <= T
    BY <1>2, <2>1, FS_EmptySet
  <2>6. packetId' + Cardinality(resub)' <= 1 + calls' + (some + T)
    BY <1>1, <1>2, <1>5, <2>1, <2>5
  <2>7. QED BY <2>1, <2>4, <2>6 DEF Tally, T
<1>9. ASSUME NEW h \in Handler, TryResubscribe(h) PROVE Tally'
  <2>1. /\ h \in resub /\ resub' = resub \ {h} /\ packetId' = GetNextPacketId
        /\ UNCHANGED <<calls, drops, link>>
    BY <1>9 DEF TryResubscribe, count
  <2>2. packetId' = packetId + 1 BY <2>1, NextIsNew
  <2>3. Cardinality(resub)' = Cardinality(resub) - 1
    BY <1>2, <2>1, FS_RemoveElement
  <2>4. Reconnects' = Reconnects BY <2>1 DEF Reconnects
  <2>5. packetId' + Cardinality(resub)' <= 1 + calls' + some
    BY <1>1, <1>2, <1>5, <2>1, <2>2, <2>3
  <2>6. QED BY <1>4, <2>1, <2>4, <2>5 DEF Tally, T
<1>10. CASE LinkDown
  <2>1. /\ link /\ ~link' /\ drops' = drops + 1 /\ UNCHANGED <<packetId, resub, calls>>
    BY <1>10 DEF LinkDown, count
  <2>2. Reconnects' = Reconnects /\ drops' > 0 BY <1>1, <2>1 DEF Reconnects
  <2>3. QED BY <2>1, <2>2 DEF Tally
<1>11. CASE Record \/ KeepAliveLost \/ ScanAll \/ Timeout \/ BrokerStep \/ UNCHANGED vars
  <2>1. UNCHANGED <<packetId, resub, calls, drops, link>>
    BY <1>11 DEF Record, SubscribeRecord, UnsubscribeRecord, KeepAliveLost, ScanAll,
       Timeout, ScanTimeout, BrokerStep, vars, net, count
  <2>2. QED BY <1>6, <2>1
<1>12. CASE SubackPacketHandle \/ UnsubackPacketHandle
  <2>1. UNCHANGED <<packetId, resub, calls, drops, link>>
    BY <1>12 DEF SubackPacketHandle, UnsubackPacketHandle, Read, count
  <2>2. QED BY <1>6, <2>1
<1>13. QED BY <1>7, <1>8, <1>9, <1>10, <1>11, <1>12 DEF Next, YieldStep

(* The only id that comes into use is the one that was just taken.           *)
LEMMA BelowStep ==
  ASSUME EnoughIds, IInv, Tally, Below, [Next]_vars
  PROVE  Below'
<1>1. packetId \in Nat /\ packetId >= 1 /\ \A j \in PacketId : j \in Nat
  BY SubsAssumption DEF IInv, TypeOK, PacketId
<1>2. ASSUME packetId' = packetId,
             \A j \in PacketId : InUse(j)' \/ Subscribing(j)' => InUse(j) \/ Subscribing(j)
      PROVE  Below'
  BY <1>2 DEF Below
<1>3. ASSUME packetId' = GetNextPacketId, GetNextPacketId = packetId + 1,
             \A j \in PacketId : InUse(j)' \/ Subscribing(j)' =>
                InUse(j) \/ Subscribing(j) \/ j = GetNextPacketId
      PROVE  Below'
  BY <1>1, <1>3 DEF Below
<1>4. ASSUME nodes' \subseteq nodes, user' = user \/ user'.pc # "subscribe",
             \A i, t : Asked(i, t)' => Asked(i, t)
      PROVE  \A j : InUse(j)' \/ Subscribing(j)' => InUse(j) \/ Subscribing(j)
  BY <1>4 DEF InUse, NodeIsExist, Subscribing
<1>5. ASSUME NEW t \in Topic, Subscribe(t) \/ Unsubscribe(t) PROVE Below'
  <2>1. /\ calls < MaxCalls /\ packetId' = GetNextPacketId /\ UNCHANGED <<nodes, b2c>>
        /\ user' = user \/ user'.id = GetNextPacketId
    BY <1>5 DEF Subscribe, Unsubscribe, UserCall, lists
  <2>2. PICK k \in {"SUBSCRIBE", "UNSUBSCRIBE"} :
          Send(Pkt(k, GetNextPacketId, t)) \/ c2b' = c2b
    BY <1>5 DEF Subscribe, Unsubscribe, UserCall
  <2> DEFINE p == Pkt(k, GetNextPacketId, t)
  <2>3. p \in ToBroker /\ p.id = GetNextPacketId
    BY NextIdTyped DEF IInv, TypeOK, Pkt, ToBroker
  <2>4. Send(p) \/ c2b' = c2b BY <2>2
  <2> HIDE DEF p
  <2>5. Elems(c2b') \subseteq Elems(c2b) \cup {p} BY <2>3, <2>4, Wires
  <2>6. \A j, u : Asked(j, u)' => Asked(j, u) \/ j = GetNextPacketId
    BY <2>1, <2>3, <2>5 DEF Asked
  <2>7. \A j \in PacketId : InUse(j)' \/ Subscribing(j)' =>
           InUse(j) \/ Subscribing(j) \/ j = GetNextPacketId
    BY <2>1, <2>6 DEF InUse, NodeIsExist, Subscribing
  <2>8. GetNextPacketId = packetId + 1 BY <2>1, NextIsNew
  <2>9. QED BY <1>3, <2>1, <2>7, <2>8
<1>6. ASSUME NEW h \in Handler, TryResubscribe(h) PROVE Below'
  <2>1. /\ h \in resub /\ h \in installed /\ packetId' = GetNextPacketId /\ UNCHANGED <<user, b2c>>
    BY <1>6 DEF TryResubscribe, IInv, Visit
  <2>2. PICK t \in Topic : t = mem[h]
    BY <2>1 DEF IInv, TypeOK, Ownership, OneOwner
  <2>3. PICK i \in PacketId : i = GetNextPacketId BY NextIdTyped DEF IInv, TypeOK
  <2> DEFINE p == Pkt("SUBSCRIBE", i, t)
  <2>4. p \in ToBroker /\ p.id = i BY DEF Pkt, ToBroker
  <2>5. Send(p) \/ c2b' = c2b BY <1>6, <2>2, <2>3 DEF TryResubscribe
  <2> HIDE DEF p
  <2>6. Elems(c2b') \subseteq Elems(c2b) \cup {p} BY <2>4, <2>5, Wires
  <2>7. \A j, u : Asked(j, u)' => Asked(j, u) \/ j = i
    BY <2>1, <2>4, <2>6 DEF Asked
  <2>8. \A n \in nodes' : n \in nodes \/ n.id = i
    BY <1>6, <2>3 DEF TryResubscribe, CreateAndRecord, AckListRecord, AckListNoMemory
  <2>9. \A j \in PacketId : InUse(j)' \/ Subscribing(j)' =>
           InUse(j) \/ Subscribing(j) \/ j = GetNextPacketId
    BY <2>1, <2>3, <2>7, <2>8 DEF InUse, NodeIsExist, Subscribing
  <2>10. GetNextPacketId = packetId + 1 BY <2>1, NextIsNew
  <2>11. QED BY <1>3, <2>1, <2>9, <2>10
<1>7. CASE SubscribeRecord
  <2>1. /\ user.pc = "subscribe" /\ user'.pc = "idle" /\ UNCHANGED <<packetId, c2b, b2c>>
        /\ \A n \in nodes' : n \in nodes \/ n.id = user.id
    BY <1>7 DEF SubscribeRecord, CreateAndRecord, AckListRecord, AckListNoMemory, Idle, net
  <2>2. \A i, t : Asked(i, t)' <=> Asked(i, t) BY <2>1 DEF Asked
  <2>3. \A j : InUse(j)' \/ Subscribing(j)' => InUse(j) \/ Subscribing(j)
    BY <2>1, <2>2 DEF InUse, NodeIsExist, Subscribing
  <2>4. QED BY <1>2, <2>1, <2>3
<1>8. CASE UnsubscribeRecord
  <2>1. /\ user'.pc = "idle" /\ UNCHANGED <<packetId, c2b, b2c>>
        /\ \A n \in nodes' : n \in nodes \/ n.type = "UNSUBACK"
    BY <1>8 DEF UnsubscribeRecord, AckListRecord, AckListNoMemory, Idle, net
  <2>2. \A i, t : Asked(i, t)' <=> Asked(i, t) BY <2>1 DEF Asked
  <2>3. \A j : InUse(j)' \/ Subscribing(j)' => InUse(j) \/ Subscribing(j)
    BY <2>1, <2>2 DEF InUse, NodeIsExist, Subscribing
  <2>4. QED BY <1>2, <2>1, <2>3
<1>9. ASSUME NEW k, Read(k), nodes' \subseteq nodes PROVE Below'
  <2>1. packetId' = packetId /\ user' = user BY <1>9 DEF Read
  <2>2. \A i, t : Asked(i, t)' => Asked(i, t) BY <1>9, ReadCalm
  <2>3. QED BY <1>2, <1>4, <1>9, <2>1, <2>2
<1>10. CASE SubackPacketHandle \/ UnsubackPacketHandle
  BY <1>9, <1>10 DEF SubackPacketHandle, UnsubackPacketHandle
<1>11. CASE KeepAliveLost \/ TryDoReconnect \/ ScanAll \/ Timeout \/ UNCHANGED vars
  <2>1. UNCHANGED <<packetId, user, c2b, b2c>> /\ nodes' \subseteq nodes
    BY <1>11 DEF KeepAliveLost, TryDoReconnect, ScanAll, Timeout, ScanTimeout, vars, net, lists
  <2>2. \A i, t : Asked(i, t)' <=> Asked(i, t) BY <2>1 DEF Asked
  <2>3. QED BY <1>2, <1>4, <2>1, <2>2
<1>12. CASE BrokerStep
  <2>1. UNCHANGED <<packetId, user, nodes>> /\ c2b # <<>> /\ c2b' = Tail(c2b)
    BY <1>12 DEF BrokerStep, lists
  <2> DEFINE p == Head(c2b)
  <2>2. p \in Elems(c2b) /\ p \in ToBroker /\ Elems(c2b') \subseteq Elems(c2b) BY <2>1, Wires
  <2>3. PICK k \in {"SUBACK", "UNSUBACK"} :
          /\ b2c' = Append(b2c, Pkt(k, p.id, p.topic))
          /\ k = "SUBACK" => p.kind = "SUBSCRIBE"
    BY <1>12 DEF BrokerStep
  <2> DEFINE q == Pkt(k, p.id, p.topic)
  <2>4. q \in ToClient /\ q.kind = k /\ q.id = p.id /\ q.topic = p.topic
    BY <2>2 DEF Pkt, ToClient, ToBroker
  <2> HIDE DEF q
  <2>5. Elems(b2c') = Elems(b2c) \cup {q} BY <2>3, <2>4, Wires DEF q
  <2>6. \A i, t : Asked(i, t)' => Asked(i, t) BY <2>2, <2>3, <2>4, <2>5 DEF Asked
  <2>7. QED BY <1>2, <1>4, <2>1, <2>6
<1>13. CASE LinkDown
  <2>1. UNCHANGED <<packetId, user, nodes>> /\ c2b' = <<>> /\ b2c' = <<>>
    BY <1>13 DEF LinkDown, lists
  <2>2. \A i, t : Asked(i, t)' => Asked(i, t) BY <2>1, Wires, NothingAsked
  <2>3. QED BY <1>2, <1>4, <2>1, <2>2
<1>14. QED
  BY <1>5, <1>6, <1>7, <1>8, <1>10, <1>11, <1>12, <1>13 DEF Next, Record, YieldStep

(* With more ids than calls and resubscriptions the counter does not come    *)
(* round, and no id is taken that is still in use.                           *)
THEOREM EnoughIdsUnused == EnoughIds => (Spec => []NextIdUnused)
<1> SUFFICES ASSUME EnoughIds PROVE Spec => []NextIdUnused
  OBVIOUS
<1>1. Init => Down /\ Tally /\ Below
  <2> SUFFICES ASSUME Init PROVE Down /\ Tally /\ Below
    OBVIOUS
  <2>1. Elems(c2b) = {} /\ Elems(b2c) = {} /\ nodes = {} /\ user.pc = "idle"
    BY DEF Init, Elems, Idle
  <2>2. Below BY <2>1 DEF Below, InUse, NodeIsExist, Asked, Subscribing
  <2>3. Cardinality(resub) = 0 /\ Cardinality(Topic) \in Nat
    BY FS_EmptySet, FS_CardinalityType DEF Init, EnoughIds
  <2>4. 0 * Cardinality(Topic) = 0 BY <2>3
  <2>5. Tally BY <2>3, <2>4 DEF Init, Tally, Reconnects
  <2>6. QED BY <2>2, <2>5 DEF Init, Down
<1>2. IInv /\ (Down /\ Tally /\ Below) /\ [Next]_vars => (Down /\ Tally /\ Below)'
  BY DownStep, TallyStep, BelowStep
<1>3. IInv /\ Tally /\ Below => NextIdUnused
  BY BelowUnused
<1>4. QED BY <1>1, <1>2, <1>3, Invariant, PTL DEF Spec

(* So a client that makes fewer calls and resubscriptions than there are ids *)
(* leaks no handler but those whose node had no memory, and has its          *)
(* subscriptions restored.                                                   *)
THEOREM EnoughIdsKeep == EnoughIds => (Spec => [](NoOtherLeak /\ HandlersSubscribed))
<1> SUFFICES ASSUME EnoughIds PROVE Spec => [](NoOtherLeak /\ HandlersSubscribed)
  OBVIOUS
<1>1. Spec => []NextIdUnused BY EnoughIdsUnused
<1>2. QED BY <1>1, NothingElseLeaks, SubscriptionsRestored, PTL
=============================================================================
