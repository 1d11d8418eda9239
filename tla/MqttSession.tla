---------------------------- MODULE MqttSession ----------------------------
(***************************************************************************)
(* The QoS 1 and QoS 2 handshakes of mqttclient.c: the list of ack handler *)
(* nodes, the user thread inside mqtt_publish(), the yield thread that     *)
(* reads packets, resends and reconnects, and the broker at the other end  *)
(* of a TCP connection that may be lost at any time.                       *)
(*                                                                         *)
(* Sending is atomic here (MqttConn looks inside it), the                  *)
(* subscription nodes of the list are in MqttSubs, and the order of the    *)
(* list is abstracted: a scan visits its nodes in any order. The memory of *)
(* a node may be refused whenever one is to be recorded.                   *)
(***************************************************************************)
EXTENDS Integers, Sequences, FiniteSets

CONSTANTS OutQ1, OutQ2,   \* messages the application publishes, by QoS
          InQ1, InQ2,     \* messages the broker has for the client, by QoS
          NoMsg,          \* no application message
          MaxPacketId,    \* MQTT_MAX_PACKET_ID
          AckMax,         \* MQTT_ACK_HANDLER_NUM_MAX
          BrokerIds,      \* packet identifiers the broker uses
          CleanSession,   \* mqtt_clean_session
          ChanBound,      \* bound: no spontaneous sending above this
          MaxDrops        \* bound: connections lost while they carried data

Out == OutQ1 \cup OutQ2
In == InQ1 \cup InQ2
PacketId == 1..MaxPacketId

ASSUME SessionAssumption ==
  /\ NoMsg \notin Out \cup In
  /\ Out \cap In = {} /\ OutQ1 \cap OutQ2 = {} /\ InQ1 \cap InQ2 = {}
  /\ MaxPacketId \in Nat \ {0}
  /\ AckMax \in Nat \ {0}
  /\ BrokerIds \subseteq PacketId
  /\ CleanSession \in BOOLEAN
  /\ ChanBound \in Nat /\ MaxDrops \in Nat

AckType == {"PUBACK", "PUBREC", "PUBREL", "PUBCOMP"}
Kind == AckType \cup {"PUBLISH"}

\* Packets that carry messages of M or acknowledge one with an id of I.
Packet(M, I) == {p \in [kind : Kind, id : PacketId, msg : M \cup {NoMsg}] :
                   p.kind = "PUBLISH" => p.msg \in M /\ p.id \in I}

\* A node keeps the PUBLISH of a message, or an ack of the handshake.
Node == {n \in [type : AckType, id : PacketId, msg : Out \cup {NoMsg}] :
           /\ n.type = "PUBACK" => n.msg \in OutQ1
           /\ n.type = "PUBREC" => n.msg \in OutQ2}

VARIABLES state,      \* c->mqtt_client_state: CONNECTED or not
          link,       \* the TCP connection carries bytes
          acks,       \* c->mqtt_ack_handler_list
          num,        \* c->mqtt_ack_handler_number
          packetId,   \* c->mqtt_packet_id
          user,       \* user thread in mqtt_publish(): pc, message, packet id
          yield,      \* yield thread: pc and the packet in its hands
          todo,       \* nodes mqtt_ack_list_scan(c, 0) has still to visit
          c2b, b2c,   \* bytes in flight, packet by packet
          bRec,       \* broker: QoS 2 identifiers waiting for PUBREL
          bOut,       \* broker: identifier |-> message it is sending
          bResend,    \* broker: identifiers to send again after a reconnect
          offered,    \* history: messages handed over by publish
          accepted,   \* history: messages mqtt_publish() returned success for
          fwd, dlv,   \* history: deliveries by the broker, to the callback
          unrecorded, \* history: QoS 2 messages last delivered without a node
          drops       \* connections lost so far

client == <<state, acks, num, packetId>>
net == <<link, c2b, b2c, drops>>
broker == <<bRec, bOut, bResend>>
history == <<offered, accepted, fwd, dlv, unrecorded>>
vars == <<client, net, broker, history, user, yield, todo>>

Idle == [pc |-> "idle", msg |-> NoMsg, id |-> 1]
Loop == [pc |-> "loop", kind |-> "PUBLISH", id |-> 1, msg |-> NoMsg]
Free == [st |-> "free", msg |-> NoMsg]

Init ==
  /\ state = "CONNECTED" /\ link = TRUE
  /\ acks = {} /\ num = 0 /\ packetId = 1
  /\ user = Idle /\ yield = Loop /\ todo = {}
  /\ c2b = <<>> /\ b2c = <<>> /\ drops = 0
  /\ bRec = {} /\ bOut = [i \in BrokerIds |-> Free] /\ bResend = {}
  /\ offered = {} /\ accepted = {}
  /\ fwd = [m \in Out |-> 0] /\ dlv = [m \in In |-> 0] /\ unrecorded = {}
-----------------------------------------------------------------------------
(* Helpers *)

Pkt(k, i, m) == [kind |-> k, id |-> i, msg |-> m]

\* mqtt_send_packet() with the write lock held: bytes written to a connection
\* that is gone are lost.
Send(p) == c2b' = IF link THEN Append(c2b, p) ELSE c2b

\* Deliveries above one are not told apart.
More(n) == IF n = 2 THEN 2 ELSE n + 1

WriteLockFree == user.pc # "sent"

GetNextPacketId == IF packetId = MaxPacketId THEN 1 ELSE packetId + 1

AckHandlerIsMaximum == num >= AckMax

NodeIsExist(type, i) == \E n \in acks : n.type = type /\ n.id = i

AckListRecord_CountsFirst(type, i, m) ==
  /\ acks' = IF NodeIsExist(type, i) THEN acks
             ELSE acks \cup {[type |-> type, id |-> i, msg |-> m]}
  /\ num' = num + 1

AckListRecord(type, i, m) ==
  IF NodeIsExist(type, i)
    THEN UNCHANGED <<acks, num>>
    ELSE /\ acks' = acks \cup {[type |-> type, id |-> i, msg |-> m]}
         /\ num' = num + 1

\* MQTT_MEM_NOT_ENOUGH_ERROR: the memory of a new node cannot be had.
AckListNoMemory(type, i) == ~NodeIsExist(type, i) /\ UNCHANGED <<acks, num>>

AckListUnrecord(type, i) ==
  LET gone == {n \in acks : n.type = type /\ n.id = i}
  IN  /\ acks' = acks \ gone
      /\ num' = IF num >= Cardinality(gone) THEN num - Cardinality(gone) ELSE 0

\* The ack mqtt_publish() expects.
AckOf(m) == IF m \in OutQ1 THEN "PUBACK" ELSE "PUBREC"

Payload_AckOnly(n) ==
  Pkt(IF n.type = "PUBREL" THEN "PUBREC" ELSE "PUBREL", n.id, NoMsg)

\* The packet a node keeps for resending.
Payload(n) ==
  CASE n.type \in {"PUBACK", "PUBREC"} -> Pkt("PUBLISH", n.id, n.msg)
    [] n.type = "PUBREL" -> Pkt("PUBREC", n.id, NoMsg)
    [] n.type = "PUBCOMP" -> Pkt("PUBREL", n.id, NoMsg)

\* network_release(), or the loss of the connection: what was in flight is gone.
Close == /\ link' = FALSE
         /\ c2b' = <<>> /\ b2c' = <<>>
         /\ bResend' = {}
-----------------------------------------------------------------------------
(* The user thread: mqtt_publish(). *)

PublishCheck(m) ==
  /\ user.pc = "idle"
  /\ m \notin offered
  /\ state = "CONNECTED"
  /\ user' = [pc |-> "checked", msg |-> m, id |-> 1]
  /\ UNCHANGED <<client, net, broker, history, yield, todo>>

\* Under the write lock: number of nodes, packet identifier, send.
PublishSend ==
  /\ user.pc = "checked"
  /\ ~AckHandlerIsMaximum
  /\ packetId' = GetNextPacketId
  /\ offered' = offered \cup {user.msg}
  /\ Send(Pkt("PUBLISH", GetNextPacketId, user.msg))
  /\ user' = [user EXCEPT !.pc = "sent", !.id = GetNextPacketId]
  /\ UNCHANGED <<state, acks, num, link, b2c, drops, broker, accepted, fwd, dlv,
                 unrecorded, yield, todo>>

\* The write fails: nothing is recorded, mqtt_publish() returns the error.
PublishSendFails ==
  /\ user.pc = "checked"
  /\ ~AckHandlerIsMaximum
  /\ ~link
  /\ packetId' = GetNextPacketId
  /\ offered' = offered \cup {user.msg}
  /\ user' = Idle
  /\ UNCHANGED <<state, acks, num, net, broker, accepted, fwd, dlv, unrecorded,
                 yield, todo>>

\* The node is recorded after the packet was sent, then the lock is released.
\* A node appended while the yield thread scans may or may not be visited.
PublishRecord ==
  LET type == AckOf(user.msg)
      node == [type |-> type, id |-> user.id, msg |-> user.msg]
  IN  /\ user.pc = "sent"
      /\ AckListRecord(type, user.id, user.msg)
      /\ IF NodeIsExist(type, user.id)
           THEN UNCHANGED <<accepted, todo>>
           ELSE /\ accepted' = accepted \cup {user.msg}
                /\ todo' \in IF yield.pc = "scan" THEN {todo, todo \cup {node}} ELSE {todo}
      /\ user' = Idle
      /\ UNCHANGED <<state, packetId, net, broker, offered, fwd, dlv, unrecorded, yield>>

PublishNoMemory_Succeeds ==
  /\ user.pc = "sent"
  /\ AckListNoMemory(AckOf(user.msg), user.id)
  /\ accepted' = accepted \cup {user.msg}
  /\ user' = Idle
  /\ UNCHANGED <<state, packetId, net, broker, offered, fwd, dlv, unrecorded, yield, todo>>

\* No memory for the node of a packet that has gone out: an error is returned,
\* and the connection released once the lock has been given back.
PublishNoMemory ==
  /\ user.pc = "sent"
  /\ AckListNoMemory(AckOf(user.msg), user.id)
  /\ user' = [user EXCEPT !.pc = "release"]
  /\ UNCHANGED <<state, packetId, net, broker, history, yield, todo>>

PublishTooMuch ==
  /\ user.pc = "checked"
  /\ WriteLockFree
  /\ AckHandlerIsMaximum
  /\ user' = [user EXCEPT !.pc = "release"]
  /\ UNCHANGED <<client, net, broker, history, yield, todo>>

\* Outside the lock, from the user thread: the connection is released.
PublishRelease ==
  /\ user.pc = "release"
  /\ Close
  /\ state' = "DISCONNECTED"
  /\ user' = Idle
  /\ UNCHANGED <<acks, num, packetId, drops, bRec, bOut, history, yield, todo>>
-----------------------------------------------------------------------------
(* The yield thread: mqtt_packet_handle(), mqtt_ack_list_scan(), reconnect. *)

\* mqtt_read_packet() returns the next packet, of one of these kinds.
Read(kinds) ==
  /\ yield.pc = "loop"
  /\ state = "CONNECTED"
  /\ link /\ b2c # <<>> /\ Head(b2c).kind \in kinds
  /\ b2c' = Tail(b2c)

PubackAndPubcompPacketHandle ==
  /\ Read({"PUBACK", "PUBCOMP"})
  /\ AckListUnrecord(Head(b2c).kind, Head(b2c).id)
  /\ UNCHANGED <<state, packetId, link, c2b, drops, broker, history, user, yield, todo>>

\* mqtt_publish_packet_handle(): the ack is sent first ...
PublishPacketHandle ==
  LET p == Head(b2c)
  IN  /\ Read({"PUBLISH"})
      /\ WriteLockFree
      /\ Send(Pkt(IF p.msg \in InQ1 THEN "PUBACK" ELSE "PUBREC", p.id, NoMsg))
      /\ yield' = [pc |-> "deliver", kind |-> "PUBLISH", id |-> p.id, msg |-> p.msg]
      /\ UNCHANGED <<client, link, drops, broker, history, user, todo>>

\* ... then, without the lock, a QoS 2 message is recorded, and delivered
\* unless its node exists.
PublishPacketDeliver ==
  LET m == yield.msg
      repeated == m \in InQ2 /\ NodeIsExist("PUBREL", yield.id)
  IN  /\ yield.pc = "deliver"
      /\ IF m \in InQ2
           THEN AckListRecord("PUBREL", yield.id, NoMsg)
           ELSE UNCHANGED <<acks, num>>
      /\ dlv' = IF repeated THEN dlv ELSE [dlv EXCEPT ![m] = More(@)]
      /\ unrecorded' = IF repeated THEN unrecorded ELSE unrecorded \ {m}
      /\ yield' = Loop
      /\ UNCHANGED <<state, packetId, net, broker, offered, accepted, fwd, user, todo>>

\* It is delivered as well when its node cannot be recorded: the client will not
\* know it again.
PublishPacketNoMemory ==
  /\ yield.pc = "deliver" /\ yield.msg \in InQ2
  /\ AckListNoMemory("PUBREL", yield.id)
  /\ dlv' = [dlv EXCEPT ![yield.msg] = More(@)]
  /\ unrecorded' = unrecorded \cup {yield.msg}
  /\ yield' = Loop
  /\ UNCHANGED <<state, packetId, net, broker, offered, accepted, fwd, user, todo>>

\* mqtt_pubrec_and_pubrel_packet_handle(): mqtt_publish_ack_packet() sends
\* nothing when the PUBCOMP node cannot be recorded ...
PubrecPacketHandle ==
  LET p == Head(b2c)
  IN  /\ Read({"PUBREC"})
      /\ WriteLockFree
      /\ AckListRecord("PUBCOMP", p.id, NoMsg)
      /\ IF NodeIsExist("PUBCOMP", p.id) THEN UNCHANGED c2b
                                         ELSE Send(Pkt("PUBREL", p.id, NoMsg))
      /\ yield' = [pc |-> "unrecord", kind |-> "PUBREC", id |-> p.id, msg |-> NoMsg]
      /\ UNCHANGED <<state, packetId, link, drops, broker, history, user, todo>>

PubrecPacketNoMemory ==
  /\ Read({"PUBREC"})
  /\ WriteLockFree
  /\ AckListNoMemory("PUBCOMP", Head(b2c).id)
  /\ yield' = [pc |-> "unrecord", kind |-> "PUBREC", id |-> Head(b2c).id, msg |-> NoMsg]
  /\ UNCHANGED <<state, packetId, link, c2b, drops, broker, history, user, todo>>

PubrelPacketHandle ==
  LET p == Head(b2c)
  IN  /\ Read({"PUBREL"})
      /\ WriteLockFree
      /\ Send(Pkt("PUBCOMP", p.id, NoMsg))
      /\ yield' = [pc |-> "unrecord", kind |-> "PUBREL", id |-> p.id, msg |-> NoMsg]
      /\ UNCHANGED <<client, link, drops, broker, history, user, todo>>

UnrecordAnswered_Forgotten ==
  /\ yield.pc = "unrecord"
  /\ yield' = Loop
  /\ UNCHANGED <<client, net, broker, history, user, todo>>

\* ... and the node of the packet that was answered goes, lock released.
UnrecordAnswered ==
  /\ yield.pc = "unrecord"
  /\ AckListUnrecord(yield.kind, yield.id)
  /\ yield' = Loop
  /\ UNCHANGED <<state, packetId, net, broker, history, user, todo>>

\* mqtt_ack_list_scan(c, 1): the timer of a node has expired.
ScanTimeout(n) ==
  /\ yield.pc = "loop"
  /\ state = "CONNECTED"
  /\ n \in acks
  /\ WriteLockFree
  /\ Len(c2b) + Len(b2c) < ChanBound
  /\ Send(Payload(n))
  /\ UNCHANGED <<client, link, b2c, drops, broker, history, user, yield, todo>>

\* mqtt_keep_alive(): no PINGRESP in time, because the connection is gone ...
KeepAliveLost ==
  /\ yield.pc = "loop"
  /\ state = "CONNECTED"
  /\ ~link
  /\ state' = "DISCONNECTED"
  /\ UNCHANGED <<acks, num, packetId, net, broker, history, user, yield, todo>>

\* ... or because the answer is late.
KeepAliveSlow ==
  /\ yield.pc = "loop"
  /\ state = "CONNECTED"
  /\ link /\ drops < MaxDrops
  /\ Close
  /\ drops' = drops + 1
  /\ state' = "DISCONNECTED"
  /\ UNCHANGED <<acks, num, packetId, bRec, bOut, history, user, yield, todo>>

TryDoReconnect_NewList ==
  /\ yield.pc = "loop"
  /\ state = "DISCONNECTED"
  /\ WriteLockFree
  /\ state' = "CONNECTED"
  /\ link' = TRUE
  /\ bResend' = {i \in BrokerIds : bOut[i].st # "free"}
  /\ acks' = {} /\ num' = 0
  /\ UNCHANGED <<packetId, c2b, b2c, drops, bRec, bOut, history, user, yield, todo>>

\* mqtt_try_do_reconnect(): mqtt_connect() succeeds (a failed attempt changes
\* nothing here), the broker resumes or forgets the session, then every node
\* is resent: mqtt_ack_list_scan(c, 0).
TryDoReconnect ==
  /\ yield.pc = "loop"
  /\ state = "DISCONNECTED"
  /\ WriteLockFree
  /\ state' = "CONNECTED"
  /\ link' = TRUE
  /\ c2b' = <<>> /\ b2c' = <<>>
  /\ IF CleanSession
       THEN /\ bRec' = {} /\ bOut' = [i \in BrokerIds |-> Free] /\ bResend' = {}
       ELSE /\ bResend' = {i \in BrokerIds : bOut[i].st # "free"}
            /\ UNCHANGED <<bRec, bOut>>
  /\ yield' = [Loop EXCEPT !.pc = "scan"]
  /\ todo' = acks
  /\ UNCHANGED <<acks, num, packetId, drops, history, user>>

ScanResend(n) ==
  /\ yield.pc = "scan"
  /\ n \in todo
  /\ WriteLockFree
  /\ Send(Payload(n))
  /\ todo' = todo \ {n}
  /\ UNCHANGED <<client, link, b2c, drops, broker, history, user, yield>>

ScanEnd ==
  /\ yield.pc = "scan"
  /\ todo = {}
  /\ yield' = Loop
  /\ UNCHANGED <<client, net, broker, history, user, todo>>
-----------------------------------------------------------------------------
(* The broker and the network, external: an MQTT 3.1.1 server that keeps    *)
(* the session of the client, and TCP.                                      *)

LinkDown ==
  /\ link /\ drops < MaxDrops
  /\ Close
  /\ drops' = drops + 1
  /\ UNCHANGED <<client, bRec, bOut, history, user, yield, todo>>

Reply(p) == b2c' = Append(b2c, p)

BrokerPacket(i) ==
  CASE bOut[i].st = "comp" -> Pkt("PUBREL", i, NoMsg)
    [] OTHER -> Pkt("PUBLISH", i, bOut[i].msg)

\* An identifier is free again when its exchange is over and nothing of it is
\* left to send again.
BrokerPublish(m, i) ==
  /\ link
  /\ m \notin offered
  /\ bOut[i].st = "free" /\ i \notin bResend
  /\ Len(c2b) + Len(b2c) < ChanBound
  /\ offered' = offered \cup {m}
  /\ bOut' = [bOut EXCEPT ![i] = [st |-> IF m \in InQ1 THEN "ack" ELSE "rec", msg |-> m]]
  /\ Reply(Pkt("PUBLISH", i, m))
  /\ UNCHANGED <<client, link, c2b, drops, bRec, bResend, accepted, fwd, dlv,
                 unrecorded, user, yield, todo>>

BrokerResend(i) ==
  /\ link
  /\ i \in bResend
  /\ bResend' = bResend \ {i}
  /\ IF bOut[i].st = "free" THEN UNCHANGED b2c ELSE Reply(BrokerPacket(i))
  /\ UNCHANGED <<client, link, c2b, drops, bRec, bOut, history, user, yield, todo>>

BrokerRead(kind) ==
  /\ link /\ c2b # <<>> /\ Head(c2b).kind = kind
  /\ c2b' = Tail(c2b)
  /\ UNCHANGED <<client, link, drops, bResend, offered, accepted, dlv, unrecorded,
                 user, yield, todo>>

BrokerOnPublish ==
  LET p == Head(c2b)
  IN  /\ BrokerRead("PUBLISH")
      /\ IF p.msg \in OutQ1
           THEN /\ fwd' = [fwd EXCEPT ![p.msg] = More(@)]
                /\ Reply(Pkt("PUBACK", p.id, NoMsg))
                /\ UNCHANGED bRec
           ELSE /\ fwd' = IF p.id \in bRec THEN fwd ELSE [fwd EXCEPT ![p.msg] = More(@)]
                /\ Reply(Pkt("PUBREC", p.id, NoMsg))
                /\ bRec' = bRec \cup {p.id}
      /\ UNCHANGED bOut

BrokerOnPubrel ==
  /\ BrokerRead("PUBREL")
  /\ bRec' = bRec \ {Head(c2b).id}
  /\ Reply(Pkt("PUBCOMP", Head(c2b).id, NoMsg))
  /\ UNCHANGED <<bOut, fwd>>

\* A PUBACK or PUBCOMP the broker waits for ends the exchange.
BrokerOnLastAck ==
  LET i == Head(c2b).id
  IN  /\ \/ BrokerRead("PUBACK") /\ bOut' = [bOut EXCEPT ![i] = IF @.st = "ack" THEN Free ELSE @]
         \/ BrokerRead("PUBCOMP") /\ bOut' = [bOut EXCEPT ![i] = IF @.st = "comp" THEN Free ELSE @]
      /\ UNCHANGED <<b2c, bRec, fwd>>

\* A PUBREC is answered; brokers differ on one that belongs to no exchange.
BrokerOnPubrec ==
  LET i == Head(c2b).id
  IN  /\ BrokerRead("PUBREC")
      /\ \/ Reply(Pkt("PUBREL", i, NoMsg))
         \/ bOut[i].st \notin {"rec", "comp"} /\ UNCHANGED b2c
      /\ bOut' = [bOut EXCEPT ![i] = IF @.st = "rec" THEN [st |-> "comp", msg |-> @.msg] ELSE @]
      /\ UNCHANGED <<bRec, fwd>>
-----------------------------------------------------------------------------
User == \/ \E m \in Out : PublishCheck(m)
        \/ PublishSend \/ PublishSendFails \/ PublishRecord \/ PublishNoMemory
        \/ PublishTooMuch \/ PublishRelease

Handle == \/ PubackAndPubcompPacketHandle
          \/ PublishPacketHandle \/ PublishPacketDeliver \/ PublishPacketNoMemory
          \/ PubrecPacketHandle \/ PubrecPacketNoMemory
          \/ PubrelPacketHandle \/ UnrecordAnswered

Reconnect == \/ KeepAliveLost \/ TryDoReconnect
             \/ (\E n \in todo : ScanResend(n)) \/ ScanEnd

Timeout == \E n \in acks : ScanTimeout(n)

Broker == \/ BrokerOnPublish \/ BrokerOnPubrel \/ BrokerOnLastAck \/ BrokerOnPubrec
          \/ \E i \in BrokerIds : BrokerResend(i)

Next == \/ User \/ Handle \/ Reconnect \/ Timeout \/ KeepAliveSlow
        \/ Broker \/ LinkDown
        \/ \E m \in In, i \in BrokerIds : BrokerPublish(m, i)

Spec == Init /\ [][Next]_vars

\* A thread inside a call goes on, the yield thread never stops and a node
\* whose timer has expired is resent; the peer answers.  Nothing obliges the
\* application to publish, or the network to fail.
FairSpec == /\ Spec
            /\ WF_vars(PublishSend \/ PublishRecord \/ PublishNoMemory
                         \/ PublishTooMuch \/ PublishRelease)
            /\ WF_vars(Handle) /\ WF_vars(Reconnect) /\ WF_vars(Timeout)
            /\ WF_vars(Broker)
-----------------------------------------------------------------------------
ListTypes == /\ acks \subseteq Node /\ num \in Nat

ThreadTypes ==
  /\ state \in {"CONNECTED", "DISCONNECTED"} /\ packetId \in PacketId
  /\ user \in [pc : {"idle", "checked", "sent", "release"}, msg : Out \cup {NoMsg}, id : PacketId]
  /\ user.pc # "idle" => user.msg \in Out
  /\ yield \in [pc : {"loop", "deliver", "unrecord", "scan"}, kind : Kind,
                id : PacketId, msg : In \cup {NoMsg}]
  /\ yield.pc = "deliver" => yield.msg \in In /\ yield.id \in BrokerIds
  /\ todo \subseteq Node

NetTypes ==
  /\ link \in BOOLEAN /\ drops \in Nat
  /\ c2b \in Seq(Packet(Out, PacketId)) /\ b2c \in Seq(Packet(In, BrokerIds))

BrokerTypes ==
  /\ bRec \subseteq PacketId /\ bResend \subseteq BrokerIds
  /\ bOut \in [BrokerIds -> [st : {"free", "ack", "rec", "comp"}, msg : In \cup {NoMsg}]]
  /\ \A i \in BrokerIds : bOut[i].st # "free" => bOut[i].msg \in In

HistoryTypes ==
  /\ offered \subseteq Out \cup In /\ accepted \subseteq Out
  /\ fwd \in [Out -> 0..2] /\ dlv \in [In -> 0..2] /\ unrecorded \subseteq InQ2

(* The state has the types of the code's variables; a packet that carries a *)
(* message travels only in the direction of that message.                   *)
TypeOK == ListTypes /\ ThreadTypes /\ NetTypes /\ BrokerTypes /\ HistoryTypes
-----------------------------------------------------------------------------
(* The packet id and type identify a node ("the unique identifier to        *)
(* determine whether the node already exists", 369-370), and the counter    *)
(* that limits publishing is the length of the list it stands for.          *)
NodesIdentified ==
  /\ \A a, b \in acks : a.type = b.type /\ a.id = b.id => a = b
  /\ num = Cardinality(acks)

(* A message mqtt_publish() returned success for is never forgotten: until  *)
(* the broker has it, a node of the list holds it for resending.            *)
AcceptedIsKept ==
  \A m \in accepted : fwd[m] > 0 \/ \E n \in acks : n.msg = m

(* Once PUBREL may have been sent, the PUBLISH with its id is not sent      *)
(* again: both nodes exist only while the PUBREC is being answered, when    *)
(* no scan runs.                                                            *)
NoPublishAfterPubrel ==
  \A a, b \in acks : a.type = "PUBREC" /\ b.type = "PUBCOMP" /\ a.id = b.id =>
     yield.pc = "unrecord" /\ yield.kind = "PUBREC" /\ yield.id = a.id

(* What the session promises, as MqttDelivery states it.  An outgoing       *)
(* message is settled when no ack node holds it, an incoming one when the   *)
(* broker has dropped it.  A QoS 1 message is answered just before its      *)
(* callback: in the hands of the yield thread it counts as delivered. The   *)
(* client can fail to remember a QoS 2 message it receives, and no other.   *)
InHand(m) == yield.pc = "deliver" /\ yield.msg = m

Delivered(m) == CASE m \in Out -> fwd[m]
                  [] m \in InQ1 /\ InHand(m) -> More(dlv[m])
                  [] OTHER -> dlv[m]

Settled == {m \in accepted : \A n \in acks : n.msg # m}
             \cup {m \in In \cap offered : \A i \in BrokerIds : bOut[i].msg # m}

Delivery == INSTANCE MqttDelivery WITH
  AtLeastOnce <- OutQ1 \cup InQ1, ExactlyOnce <- OutQ2 \cup InQ2,
  Forgettable <- InQ2, forgotten <- unrecorded,
  delivered <- [m \in Out \cup In |-> Delivered(m)],
  settled <- Settled

(* The handshakes, with their resends, reconnects and failed allocations,   *)
(* implement exactly-once and at-least-once delivery; a QoS 2 message is    *)
(* delivered again only when there was no memory, the last time, for the    *)
(* node that would have told that it had been (787).                        *)
DeliverySpec == Delivery!Spec

(* Comment 786: a QoS 2 message is processed when it is received for the    *)
(* first time.                                                              *)
FirstReceiptProcessed ==
  yield.pc = "deliver" /\ yield.msg \in InQ2 /\ NodeIsExist("PUBREL", yield.id) =>
    dlv[yield.msg] > 0

(* A message mqtt_publish() accepted is eventually at the broker.           *)
AcceptedIsForwarded == \A m \in Out : m \in accepted ~> fwd[m] > 0

(* Every handshake ends: no node stays in the list for ever.                *)
AcksDrain == <>[](acks = {} /\ num = 0)
=============================================================================
