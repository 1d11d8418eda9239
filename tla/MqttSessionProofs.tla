------------------------- MODULE MqttSessionProofs -------------------------
(***************************************************************************)
(* Proofs about MqttSession: its types; that the ack handler list of       *)
(* mqttclient.c never holds two nodes for one packet id and type while the *)
(* counter that limits mqtt_publish() stays equal to its length; and, as   *)
(* long as mqtt_publish() is given no packet id that is still in use, that *)
(* an accepted message stays in the list until the broker has it, that no  *)
(* PUBLISH follows its PUBREL and that the handshakes implement the        *)
(* delivery MqttDelivery promises.                                         *)
(***************************************************************************)
EXTENDS MqttSession, FiniteSetTheorems, SequenceTheorems, TLAPS

\* The whole list invariant: NodesIdentified and the finiteness it needs.
ListInv == IsFiniteSet(acks) /\ NodesIdentified

(* mqtt_ack_list_record() keeps the list free of twins and its length counted. *)
LEMMA RecordKeepsList ==
  ASSUME NEW type, NEW i, NEW m, ListInv, AckListRecord(type, i, m)
  PROVE  ListInv'
<1> DEFINE n == [type |-> type, id |-> i, msg |-> m]
<1>1. CASE NodeIsExist(type, i)
  BY <1>1 DEF AckListRecord, ListInv, NodesIdentified
<1>2. CASE ~NodeIsExist(type, i)
  <2>1. acks' = acks \cup {n} /\ num' = num + 1
    BY <1>2 DEF AckListRecord
  <2>2. \A a \in acks : ~(a.type = n.type /\ a.id = n.id)
    BY <1>2 DEF NodeIsExist
  <2>3. n \notin acks
    BY <2>2
  <2>4. IsFiniteSet(acks') /\ Cardinality(acks') = Cardinality(acks) + 1
    BY <2>1, <2>3, FS_AddElement DEF ListInv
  <2>5. \A a, b \in acks' : a.type = b.type /\ a.id = b.id => a = b
    BY <2>1, <2>2 DEF ListInv, NodesIdentified
  <2>6. QED BY <2>1, <2>4, <2>5 DEF ListInv, NodesIdentified
<1>3. QED BY <1>1, <1>2

(* mqtt_ack_list_unrecord() takes off the counter exactly what it destroys. *)
LEMMA UnrecordKeepsList ==
  ASSUME NEW type, NEW i, ListInv, AckListUnrecord(type, i)
  PROVE  ListInv'
<1> DEFINE gone == {n \in acks : n.type = type /\ n.id = i}
<1>1. acks' = acks \ gone
  BY DEF AckListUnrecord
<1>2. IsFiniteSet(gone) /\ Cardinality(gone) <= Cardinality(acks)
  BY FS_Subset DEF ListInv
<1>3. IsFiniteSet(acks') /\ Cardinality(acks') = Cardinality(acks) - Cardinality(acks \cap gone)
  BY <1>1, FS_Difference DEF ListInv
<1>4. acks \cap gone = gone
  OBVIOUS
<1>5. Cardinality(acks) \in Nat /\ Cardinality(gone) \in Nat
  BY <1>2, FS_CardinalityType DEF ListInv
<1>6. num' = num - Cardinality(gone)
  BY <1>2, <1>5 DEF AckListUnrecord, ListInv, NodesIdentified
<1>7. num' = Cardinality(acks')
  BY <1>3, <1>4, <1>6 DEF ListInv, NodesIdentified
<1>8. \A a, b \in acks' : a.type = b.type /\ a.id = b.id => a = b
  BY <1>1 DEF ListInv, NodesIdentified
<1>9. QED BY <1>3, <1>7, <1>8 DEF ListInv, NodesIdentified

\* What a step may do to the list and its counter.
ListStep == \/ UNCHANGED <<acks, num>>
            \/ \E type, i, m : AckListRecord(type, i, m)
            \/ \E type, i : AckListUnrecord(type, i)

(* No handler touches the list or its counter but through these two functions. *)
LEMMA OnlyListSteps == [Next]_vars => ListStep
<1> SUFFICES ASSUME [Next]_vars PROVE ListStep
  OBVIOUS
<1>1. CASE User
  BY <1>1 DEF User, PublishCheck, PublishSend, PublishSendFails, PublishRecord,
     PublishTooMuch, PublishNoMemory, PublishRelease, AckListNoMemory, client, ListStep
<1>2. CASE Handle
  BY <1>2 DEF Handle, PubackAndPubcompPacketHandle, PublishPacketHandle, PublishPacketDeliver,
     PublishPacketNoMemory, PubrecPacketHandle, PubrecPacketNoMemory, PubrelPacketHandle,
     UnrecordAnswered, client, ListStep, AckListNoMemory
<1>3. CASE Reconnect
  BY <1>3 DEF Reconnect, KeepAliveLost, TryDoReconnect, ScanResend, ScanEnd,
     client, ListStep
<1>4. CASE Timeout \/ KeepAliveSlow \/ LinkDown
  BY <1>4 DEF Timeout, ScanTimeout, KeepAliveSlow, LinkDown, client, ListStep
<1>5. CASE Broker
  BY <1>5 DEF Broker, BrokerOnPublish, BrokerOnPubrel, BrokerOnLastAck,
     BrokerOnPubrec, BrokerResend, BrokerRead, client, ListStep
<1>6. CASE \E m \in In, i \in BrokerIds : BrokerPublish(m, i)
  BY <1>6 DEF BrokerPublish, client, ListStep
<1>7. CASE UNCHANGED vars
  BY <1>7 DEF vars, client, ListStep
<1>8. QED BY <1>1, <1>2, <1>3, <1>4, <1>5, <1>6, <1>7 DEF Next

LEMMA ListInvInductive == ListInv /\ [Next]_vars => ListInv'
<1> SUFFICES ASSUME ListInv, [Next]_vars PROVE ListInv'
  OBVIOUS
<1>1. CASE UNCHANGED <<acks, num>>
  BY <1>1 DEF ListInv, NodesIdentified
<1>2. CASE \E type, i, m : AckListRecord(type, i, m)
  BY <1>2, RecordKeepsList
<1>3. CASE \E type, i : AckListUnrecord(type, i)
  BY <1>3, UnrecordKeepsList
<1>4. QED BY OnlyListSteps, <1>1, <1>2, <1>3 DEF ListStep

(* The ack list holds one node per packet id and type and is counted, for   *)
(* every number of messages, identifiers, lost connections and interleaving *)
(* of the user and yield threads.                                           *)
THEOREM ListConsistent == Spec => []NodesIdentified
<1>1. Init => ListInv
  BY FS_EmptySet DEF Init, ListInv, NodesIdentified
<1>2. ListInv => NodesIdentified
  BY DEF ListInv
<1>3. QED BY <1>1, <1>2, ListInvInductive, PTL DEF Spec
-----------------------------------------------------------------------------
(* Types.  Facts about lists, packets and identifiers that several actions   *)
(* need come first, then one lemma per part of TypeOK.                       *)

LEMMA RecordTypes ==
  ASSUME ListTypes, NEW type \in AckType, NEW i \in PacketId,
         NEW m \in Out \cup {NoMsg}, AckListRecord(type, i, m),
         type = "PUBACK" => m \in OutQ1, type = "PUBREC" => m \in OutQ2
  PROVE  ListTypes'
BY DEF AckListRecord, ListTypes, Node

LEMMA UnrecordTypes ==
  ASSUME ListTypes, ListInv, NEW type, NEW i, AckListUnrecord(type, i)
  PROVE  ListTypes'
<1> DEFINE gone == {n \in acks : n.type = type /\ n.id = i}
<1>1. Cardinality(gone) \in Nat
  BY FS_Subset, FS_CardinalityType DEF ListInv
<1>2. num' = IF num >= Cardinality(gone) THEN num - Cardinality(gone) ELSE 0
  BY DEF AckListUnrecord
<1> HIDE DEF gone
<1>3. num' \in Nat
  BY <1>1, <1>2 DEF ListTypes
<1>4. QED BY <1>3 DEF AckListUnrecord, ListTypes

LEMMA HeadTypes ==
  ASSUME NetTypes
  PROVE  /\ b2c # <<>> => /\ Head(b2c) \in Packet(In, BrokerIds)
                          /\ Tail(b2c) \in Seq(Packet(In, BrokerIds))
         /\ c2b # <<>> => /\ Head(c2b) \in Packet(Out, PacketId)
                          /\ Tail(c2b) \in Seq(Packet(Out, PacketId))
BY DEF NetTypes

LEMMA SendTypes ==
  ASSUME NetTypes, NEW p \in Packet(Out, PacketId), Send(p)
  PROVE  c2b' \in Seq(Packet(Out, PacketId))
BY DEF NetTypes, Send

LEMMA ReplyTypes ==
  ASSUME NetTypes, NEW p \in Packet(In, BrokerIds), Reply(p)
  PROVE  b2c' \in Seq(Packet(In, BrokerIds))
BY DEF NetTypes, Reply

LEMMA CloseTypes ==
  ASSUME Close
  PROVE  /\ link' \in BOOLEAN /\ c2b' \in Seq(Packet(Out, PacketId))
         /\ b2c' \in Seq(Packet(In, BrokerIds))
BY EmptySeq DEF Close

LEMMA AckPackets ==
  ASSUME NEW k \in AckType, NEW i \in PacketId
  PROVE  /\ Pkt(k, i, NoMsg) \in Packet(Out, PacketId)
         /\ Pkt(k, i, NoMsg) \in Packet(In, BrokerIds)
BY DEF Pkt, Packet, Kind, AckType

LEMMA NextIdType ==
  ASSUME SessionAssumption, ThreadTypes PROVE GetNextPacketId \in PacketId
BY DEF GetNextPacketId, PacketId, ThreadTypes, SessionAssumption

LEMMA PayloadType ==
  ASSUME NEW n \in Node PROVE Payload(n) \in Packet(Out, PacketId)
BY DEF Payload, Pkt, Packet, Node, Kind, AckType, Out

LEMMA ListTyped ==
  ASSUME SessionAssumption, TypeOK, ListInv, [Next]_vars PROVE ListTypes'
<1>1. CASE User
  <2>1. CASE PublishRecord
    BY <2>1, RecordTypes DEF TypeOK, ThreadTypes, AckType, PublishRecord, Out, AckOf
  <2>2. CASE (\E m \in Out : PublishCheck(m)) \/ PublishSend
             \/ PublishSendFails \/ PublishNoMemory \/ PublishTooMuch \/ PublishRelease
    BY <2>2 DEF TypeOK, ListTypes, PublishCheck, PublishSend, PublishSendFails,
      PublishTooMuch, PublishNoMemory, PublishRelease, client, AckListNoMemory
  <2>3. QED BY <1>1, <2>1, <2>2 DEF User
<1>2. CASE Handle
  <2>1. CASE PubackAndPubcompPacketHandle
    BY <2>1, UnrecordTypes DEF TypeOK, PubackAndPubcompPacketHandle
  <2>2. CASE PublishPacketDeliver \/ PublishPacketNoMemory
    BY <2>2, RecordTypes DEF TypeOK, ListTypes, ThreadTypes, AckType,
      PublishPacketDeliver, PublishPacketNoMemory, AckListNoMemory
  <2>3. CASE PubrecPacketHandle \/ PubrecPacketNoMemory
    BY <2>3, HeadTypes, RecordTypes DEF TypeOK, ListTypes, AckType, Packet, Read,
      PubrecPacketHandle, PubrecPacketNoMemory, AckListNoMemory
  <2>4. CASE UnrecordAnswered
    BY <2>4, UnrecordTypes DEF TypeOK, UnrecordAnswered
  <2>5. CASE PublishPacketHandle \/ PubrelPacketHandle
    BY <2>5 DEF TypeOK, ListTypes, PublishPacketHandle, PubrelPacketHandle, Read,
      client
  <2>6. QED BY <1>2, <2>1, <2>2, <2>3, <2>4, <2>5 DEF Handle
<1>3. CASE Reconnect
  BY <1>3 DEF TypeOK, ListTypes, Reconnect, KeepAliveLost, TryDoReconnect,
    ScanResend, ScanEnd, client
<1>4. CASE Broker
  BY <1>4 DEF TypeOK, ListTypes, Broker, BrokerOnPublish, BrokerOnPubrel,
    BrokerOnLastAck, BrokerOnPubrec, BrokerResend, BrokerRead, client
<1>5. CASE Timeout \/ KeepAliveSlow \/ LinkDown
           \/ (\E m \in In, i \in BrokerIds : BrokerPublish(m, i))
  BY <1>5 DEF TypeOK, ListTypes, Timeout, ScanTimeout, KeepAliveSlow, LinkDown,
    BrokerPublish, client
<1>6. CASE UNCHANGED vars
  BY <1>6 DEF TypeOK, ListTypes, vars, client
<1>7. QED BY <1>1, <1>2, <1>3, <1>4, <1>5, <1>6 DEF Next

LEMMA ThreadsTyped ==
  ASSUME SessionAssumption, TypeOK, ListInv, [Next]_vars PROVE ThreadTypes'
<1>1. CASE User
  <2>1. CASE \E m \in Out : PublishCheck(m)
    BY <2>1 DEF TypeOK, ThreadTypes, PacketId, SessionAssumption, PublishCheck,
      client
  <2>2. CASE PublishSend
    BY <2>2, NextIdType DEF TypeOK, ThreadTypes, PublishSend
  <2>3. CASE PublishSendFails
    BY <2>3, NextIdType DEF TypeOK, ThreadTypes, PacketId, SessionAssumption,
      Idle, PublishSendFails
  <2>4. CASE PublishRecord
    BY <2>4 DEF TypeOK, ThreadTypes, PacketId, SessionAssumption, Idle, Node,
      AckType, Out, PublishRecord, AckOf
  <2>5. CASE PublishRelease
    BY <2>5 DEF TypeOK, ThreadTypes, PacketId, SessionAssumption, Idle,
      PublishRelease
  <2>6. CASE PublishNoMemory \/ PublishTooMuch
    BY <2>6 DEF TypeOK, ThreadTypes, PublishTooMuch, PublishNoMemory, client
  <2>7. QED BY <1>1, <2>1, <2>2, <2>3, <2>4, <2>5, <2>6 DEF User
<1>2. CASE Handle
  <2>1. CASE PublishPacketHandle
    BY <2>1, HeadTypes DEF TypeOK, ThreadTypes, Packet, Kind, AckType, Read,
      PublishPacketHandle, client
  <2>2. CASE PublishPacketDeliver \/ PublishPacketNoMemory
    BY <2>2 DEF TypeOK, ThreadTypes, PacketId, SessionAssumption, Loop, Kind,
      PublishPacketDeliver, PublishPacketNoMemory
  <2>3. CASE PubrecPacketHandle \/ PubrecPacketNoMemory
    BY <2>3, HeadTypes DEF TypeOK, ThreadTypes, Packet, Kind, AckType, Read,
      PubrecPacketHandle, PubrecPacketNoMemory, client
  <2>4. CASE PubrelPacketHandle
    BY <2>4, HeadTypes DEF TypeOK, ThreadTypes, Packet, Kind, AckType, Read,
      PubrelPacketHandle, client
  <2>5. CASE UnrecordAnswered
    BY <2>5 DEF TypeOK, ThreadTypes, PacketId, SessionAssumption, Loop, Kind,
      UnrecordAnswered
  <2>6. CASE PubackAndPubcompPacketHandle
    BY <2>6 DEF TypeOK, ThreadTypes, PubackAndPubcompPacketHandle, Read, client
  <2>7. QED BY <1>2, <2>1, <2>2, <2>3, <2>4, <2>5, <2>6 DEF Handle
<1>3. CASE Reconnect
  <2>1. CASE TryDoReconnect
    BY <2>1 DEF TypeOK, ThreadTypes, ListTypes, PacketId, SessionAssumption,
      Loop, Kind, TryDoReconnect
  <2>2. CASE ScanEnd
    BY <2>2 DEF TypeOK, ThreadTypes, PacketId, SessionAssumption, Loop, Kind,
      ScanEnd, client
  <2>3. CASE KeepAliveLost \/ (\E n \in todo : ScanResend(n))
    BY <2>3 DEF TypeOK, ThreadTypes, KeepAliveLost, ScanResend, client
  <2>4. QED BY <1>3, <2>1, <2>2, <2>3 DEF Reconnect
<1>4. CASE Broker
  BY <1>4 DEF TypeOK, ThreadTypes, Broker, BrokerOnPublish, BrokerOnPubrel,
    BrokerOnLastAck, BrokerOnPubrec, BrokerResend, BrokerRead, client
<1>5. CASE Timeout \/ KeepAliveSlow \/ LinkDown
           \/ (\E m \in In, i \in BrokerIds : BrokerPublish(m, i))
  BY <1>5 DEF TypeOK, ThreadTypes, Timeout, ScanTimeout, KeepAliveSlow, LinkDown,
    BrokerPublish, client
<1>6. CASE UNCHANGED vars
  BY <1>6 DEF TypeOK, ThreadTypes, vars, client
<1>7. QED BY <1>1, <1>2, <1>3, <1>4, <1>5, <1>6 DEF Next

LEMMA NetTyped ==
  ASSUME SessionAssumption, TypeOK, ListInv, [Next]_vars PROVE NetTypes'
<1>1. CASE User
  <2>1. CASE PublishSend
    <3>1. Pkt("PUBLISH", GetNextPacketId, user.msg) \in Packet(Out, PacketId)
      BY <2>1, NextIdType DEF TypeOK, ThreadTypes, PublishSend, Pkt, Packet, Kind
    <3>2. QED BY <2>1, <3>1, SendTypes DEF TypeOK, NetTypes, PublishSend
  <2>2. CASE PublishRelease
    BY <2>2, CloseTypes DEF TypeOK, NetTypes, PublishRelease
  <2>3. CASE (\E m \in Out : PublishCheck(m)) \/ PublishSendFails
             \/ PublishRecord \/ PublishNoMemory \/ PublishTooMuch
    BY <2>3 DEF TypeOK, NetTypes, PublishCheck, PublishSendFails, PublishRecord,
      PublishTooMuch, PublishNoMemory, net
  <2>4. QED BY <1>1, <2>1, <2>2, <2>3 DEF User
<1>2. CASE Handle
  <2>1. CASE PubackAndPubcompPacketHandle
    BY <2>1, HeadTypes DEF TypeOK, NetTypes, Read, PubackAndPubcompPacketHandle
  <2>2. CASE PublishPacketHandle
    BY <2>2, HeadTypes, AckPackets, SendTypes DEF TypeOK, NetTypes, Packet,
      AckType, Read, PublishPacketHandle
  <2>3. CASE PubrecPacketHandle \/ PubrecPacketNoMemory
    BY <2>3, HeadTypes, AckPackets, SendTypes DEF TypeOK, NetTypes, Packet,
      AckType, Read, PubrecPacketHandle, PubrecPacketNoMemory
  <2>4. CASE PubrelPacketHandle
    BY <2>4, HeadTypes, AckPackets, SendTypes DEF TypeOK, NetTypes, Packet,
      AckType, Read, PubrelPacketHandle
  <2>5. CASE PublishPacketDeliver \/ PublishPacketNoMemory \/ UnrecordAnswered
    BY <2>5 DEF TypeOK, NetTypes, PublishPacketDeliver, PublishPacketNoMemory, UnrecordAnswered, net
  <2>6. QED BY <1>2, <2>1, <2>2, <2>3, <2>4, <2>5 DEF Handle
<1>3. CASE Reconnect
  <2>1. CASE TryDoReconnect
    BY <2>1 DEF TypeOK, NetTypes, TryDoReconnect
  <2>2. CASE \E n \in todo : ScanResend(n)
    BY <2>2, PayloadType, SendTypes DEF TypeOK, NetTypes, ThreadTypes, ScanResend
  <2>3. CASE KeepAliveLost \/ ScanEnd
    BY <2>3 DEF TypeOK, NetTypes, KeepAliveLost, ScanEnd, net
  <2>4. QED BY <1>3, <2>1, <2>2, <2>3 DEF Reconnect
<1>4. CASE Broker
  <2>1. CASE BrokerOnPublish
    BY <2>1, HeadTypes, AckPackets, ReplyTypes DEF TypeOK, NetTypes, Packet,
      AckType, BrokerRead, BrokerOnPublish
  <2>2. CASE BrokerOnPubrel
    BY <2>2, HeadTypes, AckPackets, ReplyTypes DEF TypeOK, NetTypes, Packet,
      AckType, BrokerRead, BrokerOnPubrel
  <2>3. CASE BrokerOnLastAck
    BY <2>3, HeadTypes DEF TypeOK, NetTypes, BrokerRead, BrokerOnLastAck
  <2>4. CASE BrokerOnPubrec
    BY <2>4, HeadTypes, AckPackets, ReplyTypes DEF TypeOK, NetTypes, Packet,
      AckType, BrokerRead, BrokerOnPubrec
  <2>5. CASE \E i \in BrokerIds : BrokerResend(i)
    <3>1. ASSUME NEW i \in BrokerIds, bOut[i].st # "free"
          PROVE  BrokerPacket(i) \in Packet(In, BrokerIds)
      BY <3>1 DEF BrokerPacket, Pkt, Packet, Kind, AckType, TypeOK, BrokerTypes,
        SessionAssumption
    <3>2. QED BY <2>5, <3>1, ReplyTypes DEF TypeOK, NetTypes, BrokerResend
  <2>6. QED BY <1>4, <2>1, <2>2, <2>3, <2>4, <2>5 DEF Broker
<1>5. CASE Timeout
  BY <1>5, PayloadType, SendTypes DEF TypeOK, NetTypes, ListTypes, Timeout,
    ScanTimeout
<1>6. CASE KeepAliveSlow
  BY <1>6, CloseTypes DEF TypeOK, NetTypes, KeepAliveSlow
<1>7. CASE LinkDown
  BY <1>7, CloseTypes DEF TypeOK, NetTypes, LinkDown
<1>8. CASE \E m \in In, i \in BrokerIds : BrokerPublish(m, i)
  <2>1. ASSUME NEW m \in In, NEW i \in BrokerIds
        PROVE  Pkt("PUBLISH", i, m) \in Packet(In, BrokerIds)
    BY <2>1 DEF Pkt, Packet, Kind, SessionAssumption
  <2>2. QED BY <1>8, <2>1, ReplyTypes DEF TypeOK, NetTypes, BrokerPublish
<1>9. CASE UNCHANGED vars
  BY <1>9 DEF TypeOK, NetTypes, vars, net
<1>10. QED BY <1>1, <1>2, <1>3, <1>4, <1>5, <1>6, <1>7, <1>8, <1>9 DEF Next

LEMMA BrokerTyped ==
  ASSUME SessionAssumption, TypeOK, ListInv, [Next]_vars PROVE BrokerTypes'
<1>1. CASE User
  <2>1. CASE PublishRelease
    BY <2>1 DEF TypeOK, BrokerTypes, Close, PublishRelease
  <2>2. CASE (\E m \in Out : PublishCheck(m)) \/ PublishSend
             \/ PublishSendFails \/ PublishRecord \/ PublishNoMemory \/ PublishTooMuch
    BY <2>2 DEF TypeOK, BrokerTypes, PublishCheck, PublishSend, PublishSendFails,
      PublishRecord, PublishTooMuch, PublishNoMemory, broker
  <2>3. QED BY <1>1, <2>1, <2>2 DEF User
<1>2. CASE Handle
  BY <1>2 DEF TypeOK, BrokerTypes, Handle, PubackAndPubcompPacketHandle, PublishPacketHandle,
     PublishPacketDeliver, PublishPacketNoMemory, PubrecPacketHandle, PubrecPacketNoMemory,
     PubrelPacketHandle, UnrecordAnswered, Read, broker
<1>3. CASE Reconnect
  <2>1. CASE TryDoReconnect
    BY <2>1 DEF TypeOK, BrokerTypes, Free, TryDoReconnect
  <2>2. CASE KeepAliveLost \/ (\E n \in todo : ScanResend(n)) \/ ScanEnd
    BY <2>2 DEF TypeOK, BrokerTypes, KeepAliveLost, ScanResend, ScanEnd, broker
  <2>3. QED BY <1>3, <2>1, <2>2 DEF Reconnect
<1>4. CASE Broker
  <2>1. CASE BrokerOnPublish
    BY <2>1, HeadTypes DEF TypeOK, BrokerTypes, Packet, Free, BrokerRead,
      BrokerOnPublish
  <2>2. CASE BrokerOnPubrel
    BY <2>2, HeadTypes DEF TypeOK, BrokerTypes, Packet, Free, BrokerRead,
      BrokerOnPubrel
  <2>3. CASE BrokerOnLastAck
    <3> DEFINE i == Head(c2b).id
    <3>1. /\ i \in PacketId
          /\ \/ bOut' = [bOut EXCEPT ![i] = IF @.st = "ack" THEN Free ELSE @]
             \/ bOut' = [bOut EXCEPT ![i] = IF @.st = "comp" THEN Free ELSE @]
          /\ UNCHANGED <<bRec, bResend>>
      BY <2>3, HeadTypes DEF TypeOK, Packet, BrokerRead, BrokerOnLastAck
    <3> HIDE DEF i
    <3>2. CASE i \in BrokerIds
      BY <3>1, <3>2 DEF TypeOK, BrokerTypes, Free
    <3>3. CASE i \notin BrokerIds
      BY <3>1, <3>3 DEF TypeOK, BrokerTypes
    <3>4. QED BY <3>2, <3>3
  <2>4. CASE BrokerOnPubrec
    <3> DEFINE i == Head(c2b).id
    <3>1. /\ i \in PacketId
          /\ bOut' = [bOut EXCEPT ![i] =
                        IF @.st = "rec" THEN [st |-> "comp", msg |-> @.msg] ELSE @]
          /\ UNCHANGED <<bRec, bResend>>
      BY <2>4, HeadTypes DEF TypeOK, Packet, BrokerRead, BrokerOnPubrec
    <3> HIDE DEF i
    <3>2. CASE i \in BrokerIds
      BY <3>1, <3>2 DEF TypeOK, BrokerTypes, Free
    <3>3. CASE i \notin BrokerIds
      BY <3>1, <3>3 DEF TypeOK, BrokerTypes
    <3>4. QED BY <3>2, <3>3
  <2>5. CASE \E i \in BrokerIds : BrokerResend(i)
    BY <2>5 DEF TypeOK, BrokerTypes, BrokerResend
  <2>6. QED BY <1>4, <2>1, <2>2, <2>3, <2>4, <2>5 DEF Broker
<1>5. CASE KeepAliveSlow
  BY <1>5 DEF TypeOK, BrokerTypes, Close, KeepAliveSlow
<1>6. CASE LinkDown
  BY <1>6 DEF TypeOK, BrokerTypes, Close, LinkDown
<1>7. CASE \E m \in In, i \in BrokerIds : BrokerPublish(m, i)
  BY <1>7 DEF TypeOK, BrokerTypes, BrokerPublish
<1>8. CASE Timeout
  BY <1>8 DEF TypeOK, BrokerTypes, Timeout, ScanTimeout, broker
<1>9. CASE UNCHANGED vars
  BY <1>9 DEF TypeOK, BrokerTypes, vars, broker
<1>10. QED BY <1>1, <1>2, <1>3, <1>4, <1>5, <1>6, <1>7, <1>8, <1>9 DEF Next

LEMMA HistoryTyped ==
  ASSUME SessionAssumption, TypeOK, ListInv, [Next]_vars PROVE HistoryTypes'
<1>1. CASE User
  <2>1. CASE PublishSend
    BY <2>1 DEF TypeOK, ThreadTypes, HistoryTypes, PublishSend
  <2>2. CASE PublishSendFails
    BY <2>2 DEF TypeOK, ThreadTypes, HistoryTypes, PublishSendFails
  <2>3. CASE PublishRecord
    BY <2>3 DEF TypeOK, ThreadTypes, HistoryTypes, PublishRecord
  <2>4. CASE (\E m \in Out : PublishCheck(m)) \/ PublishNoMemory \/ PublishTooMuch \/ PublishRelease
    BY <2>4 DEF TypeOK, HistoryTypes, PublishCheck, PublishTooMuch, PublishNoMemory,
      PublishRelease, history
  <2>5. QED BY <1>1, <2>1, <2>2, <2>3, <2>4 DEF User
<1>2. CASE Handle
  <2>1. CASE PublishPacketDeliver \/ PublishPacketNoMemory
    BY <2>1 DEF TypeOK, ThreadTypes, HistoryTypes, More, PublishPacketDeliver, PublishPacketNoMemory
  <2>2. CASE PubackAndPubcompPacketHandle \/ PublishPacketHandle
             \/ PubrecPacketHandle \/ PubrecPacketNoMemory \/ PubrelPacketHandle \/ UnrecordAnswered
    BY <2>2 DEF TypeOK, HistoryTypes, PubackAndPubcompPacketHandle,
      PublishPacketHandle, PubrecPacketHandle, PubrecPacketNoMemory, PubrelPacketHandle,
      UnrecordAnswered, Read, history
  <2>3. QED BY <1>2, <2>1, <2>2 DEF Handle
<1>3. CASE Reconnect
  BY <1>3 DEF TypeOK, HistoryTypes, Reconnect, KeepAliveLost, TryDoReconnect,
    ScanResend, ScanEnd, history
<1>4. CASE Broker
  <2>1. CASE BrokerOnPublish
    BY <2>1, HeadTypes DEF TypeOK, HistoryTypes, More, Packet, BrokerRead,
      BrokerOnPublish
  <2>2. CASE BrokerOnPubrel \/ BrokerOnLastAck \/ BrokerOnPubrec
             \/ (\E i \in BrokerIds : BrokerResend(i))
    BY <2>2 DEF TypeOK, HistoryTypes, BrokerOnPubrel, BrokerOnLastAck,
      BrokerOnPubrec, BrokerResend, BrokerRead, history
  <2>3. QED BY <1>4, <2>1, <2>2 DEF Broker
<1>5. CASE \E m \in In, i \in BrokerIds : BrokerPublish(m, i)
  BY <1>5 DEF TypeOK, HistoryTypes, BrokerPublish
<1>6. CASE Timeout \/ KeepAliveSlow \/ LinkDown
  BY <1>6 DEF TypeOK, HistoryTypes, Timeout, ScanTimeout, KeepAliveSlow,
    LinkDown, history
<1>7. CASE UNCHANGED vars
  BY <1>7 DEF TypeOK, HistoryTypes, vars, history
<1>8. QED BY <1>1, <1>2, <1>3, <1>4, <1>5, <1>6, <1>7 DEF Next

(* Every reachable state is well typed.                                     *)
THEOREM TypeCorrect == Spec => []TypeOK
<1>1. Init => TypeOK /\ ListInv
  <2> SUFFICES ASSUME Init PROVE TypeOK /\ ListInv
    OBVIOUS
  <2>1. ListInv
    BY FS_EmptySet DEF Init, ListInv, NodesIdentified
  <2>2. ListTypes /\ NetTypes /\ BrokerTypes /\ HistoryTypes
    BY DEF Init, ListTypes, NetTypes, BrokerTypes, HistoryTypes, Free
  <2>3. ThreadTypes
    BY SessionAssumption DEF Init, ThreadTypes, SessionAssumption, PacketId, Idle, Loop, Kind
  <2>4. QED BY <2>1, <2>2, <2>3 DEF TypeOK
<1>2. TypeOK /\ ListInv /\ [Next]_vars => (TypeOK /\ ListInv)'
  BY SessionAssumption, ListInvInductive, ListTyped, ThreadsTyped, NetTyped,
     BrokerTyped, HistoryTyped DEF TypeOK
<1>3. QED BY <1>1, <1>2, PTL DEF Spec
-----------------------------------------------------------------------------
(* What is accepted is kept, and no PUBLISH goes out after its PUBREL, as    *)
(* long as no packet id is handed out that is still in use.                  *)

\* What is in flight.
Elems(s) == {s[k] : k \in DOMAIN s}

\* Message m travels, waits or is recorded under packet id i.
Carries(i, m) ==
  \/ \E n \in acks : n.id = i /\ n.msg = m
  \/ \E p \in Elems(c2b) : p.kind = "PUBLISH" /\ p.id = i /\ p.msg = m
  \/ user.pc = "sent" /\ user.id = i /\ user.msg = m

\* The broker has answered a PUBLISH with id i, or still remembers it.
Answered(i) ==
  \/ \E p \in Elems(b2c) : p.kind \in {"PUBACK", "PUBREC"} /\ p.id = i
  \/ i \in bRec
  \/ yield.pc = "unrecord" /\ yield.kind = "PUBREC" /\ yield.id = i

\* Nothing of an earlier exchange with id j is left anywhere.
Unused(j) ==
  /\ \A n \in acks : n.id = j => n.type = "PUBREL"
  /\ \A p \in Elems(c2b) : p.id = j => p.kind \notin {"PUBLISH", "PUBREL"}
  /\ \A p \in Elems(b2c) : p.id = j => p.kind \notin {"PUBACK", "PUBREC", "PUBCOMP"}
  /\ j \notin bRec
  /\ ~(yield.pc = "unrecord" /\ yield.kind = "PUBREC" /\ yield.id = j)

\* The hypothesis of what follows: mqtt_get_next_packet_id(), which looks at
\* nothing but its counter, gives mqtt_publish() an id that is not in use.
NextIdUnused == user.pc = "checked" => Unused(GetNextPacketId)

\* A message about to be sent has not been offered before.
Fresh == user.pc = "checked" => user.msg \notin offered

Agree ==
  /\ \A i \in PacketId, m, q \in Out : Carries(i, m) /\ Carries(i, q) => m = q
  /\ \A i \in PacketId, m \in Out : Carries(i, m) /\ Answered(i) => fwd[m] > 0

Lists ==
  /\ \A n \in acks : n.type \in {"PUBREL", "PUBCOMP"} => n.msg = NoMsg
  /\ \A n \in acks : n.type = "PUBCOMP" /\ user.pc = "sent" => n.id # user.id
  /\ todo \subseteq acks /\ (yield.pc # "scan" => todo = {})
  /\ yield.pc = "unrecord" => yield.kind \in {"PUBREC", "PUBREL"}

(* The elements of a list that is read or written. *)
LEMMA ElemsOf ==
  ASSUME NEW S, NEW s \in Seq(S)
  PROVE  /\ s # <<>> => Head(s) \in Elems(s) /\ Elems(Tail(s)) \subseteq Elems(s)
         /\ \A x \in S : Elems(Append(s, x)) = Elems(s) \cup {x}
         /\ Elems(<<>>) = {}
         /\ Elems(s) \subseteq S
<1>1. ASSUME s # <<>>
      PROVE  Head(s) \in Elems(s) /\ Elems(Tail(s)) \subseteq Elems(s)
  <2>1. Len(s) \in Nat \ {0} /\ DOMAIN s = 1..Len(s) /\ Head(s) = s[1]
    BY <1>1
  <2>2. /\ DOMAIN Tail(s) = 1..(Len(s) - 1)
        /\ \A k \in 1..(Len(s) - 1) : Tail(s)[k] = s[k + 1] /\ k + 1 \in DOMAIN s
    BY <1>1, <2>1
  <2>3. 1 \in DOMAIN s BY <2>1
  <2>4. QED BY <2>1, <2>2, <2>3 DEF Elems
<1>2. ASSUME NEW x \in S PROVE Elems(Append(s, x)) = Elems(s) \cup {x}
  <2>1. Len(s) \in Nat /\ DOMAIN s = 1..Len(s) OBVIOUS
  <2>2. /\ DOMAIN Append(s, x) = 1..(Len(s) + 1)
        /\ \A k \in 1..Len(s) : Append(s, x)[k] = s[k] /\ k \in 1..(Len(s) + 1)
        /\ Append(s, x)[Len(s) + 1] = x /\ Len(s) + 1 \in 1..(Len(s) + 1)
    BY <2>1
  <2>3. \A k \in 1..(Len(s) + 1) : k \in 1..Len(s) \/ k = Len(s) + 1 BY <2>1
  <2>4. QED BY <2>1, <2>2, <2>3 DEF Elems
<1>3. Elems(<<>>) = {} BY DEF Elems
<1>4. Elems(s) \subseteq S BY DEF Elems
<1>5. QED BY <1>1, <1>2, <1>3, <1>4

(* What the two directions carry after a step. *)
LEMMA Wires ==
  ASSUME NetTypes
  PROVE  /\ b2c # <<>> => Head(b2c) \in Elems(b2c) /\ Elems(Tail(b2c)) \subseteq Elems(b2c)
         /\ c2b # <<>> => Head(c2b) \in Elems(c2b) /\ Elems(Tail(c2b)) \subseteq Elems(c2b)
         /\ \A p \in Packet(Out, PacketId) : Send(p) => Elems(c2b') \subseteq Elems(c2b) \cup {p}
         /\ \A p \in Packet(In, BrokerIds) : Reply(p) => Elems(b2c') = Elems(b2c) \cup {p}
         /\ Close => Elems(c2b') = {} /\ Elems(b2c') = {}
<1>1. c2b \in Seq(Packet(Out, PacketId)) /\ b2c \in Seq(Packet(In, BrokerIds))
  BY DEF NetTypes
<1>2. ASSUME NEW p \in Packet(Out, PacketId), Send(p)
      PROVE  Elems(c2b') \subseteq Elems(c2b) \cup {p}
  <2>1. CASE link BY <1>1, <1>2, <2>1, ElemsOf DEF Send
  <2>2. CASE ~link BY <1>2, <2>2 DEF Send
  <2>3. QED BY <2>1, <2>2
<1>3. ASSUME NEW p \in Packet(In, BrokerIds), Reply(p)
      PROVE  Elems(b2c') = Elems(b2c) \cup {p}
  BY <1>1, <1>3, ElemsOf DEF Reply
<1>4. Close => Elems(c2b') = {} /\ Elems(b2c') = {}
  BY DEF Close, Elems
<1>5. QED BY <1>1, <1>2, <1>3, <1>4, ElemsOf

(* A message is offered once. *)
LEMMA FreshStep ==
  ASSUME TypeOK, Fresh, [Next]_vars
  PROVE  Fresh'
<1>1. CASE UNCHANGED <<offered, user>>
  BY <1>1 DEF Fresh
<1>2. ASSUME NEW m \in Out, PublishCheck(m) PROVE Fresh'
  BY <1>2 DEF PublishCheck, Fresh, history
<1>3. CASE PublishSend \/ PublishSendFails \/ PublishRecord \/ PublishNoMemory \/ PublishTooMuch \/ PublishRelease
  <2>1. ASSUME PublishSend PROVE user'.pc # "checked"
    <3>1. user' = [user EXCEPT !.pc = "sent", !.id = GetNextPacketId]
      BY <2>1 DEF PublishSend
    <3>2. QED BY <3>1 DEF TypeOK, ThreadTypes
  <2>2. user'.pc # "checked"
    BY <1>3, <2>1 DEF PublishSendFails, PublishRecord, PublishTooMuch, PublishNoMemory,
       PublishRelease, Idle, TypeOK, ThreadTypes
  <2>3. QED BY <2>2 DEF Fresh
<1>4. ASSUME NEW m \in In, NEW i \in BrokerIds, BrokerPublish(m, i) PROVE Fresh'
  <2>1. offered' = offered \cup {m} /\ UNCHANGED user
    BY <1>4 DEF BrokerPublish
  <2>2. user.pc = "checked" => user.msg # m
    BY SessionAssumption DEF TypeOK, ThreadTypes
  <2>3. QED BY <2>1, <2>2 DEF Fresh
<1>5. CASE Handle \/ Reconnect \/ Timeout \/ KeepAliveSlow \/ Broker \/ LinkDown
  <2>1. UNCHANGED <<offered, user>>
    BY <1>5 DEF Handle, PubackAndPubcompPacketHandle, PublishPacketHandle, PublishPacketDeliver,
       PublishPacketNoMemory, PubrecPacketHandle, PubrecPacketNoMemory, PubrelPacketHandle,
       UnrecordAnswered, Reconnect, KeepAliveLost, TryDoReconnect, ScanResend, ScanEnd, Timeout,
       ScanTimeout, KeepAliveSlow, LinkDown, Broker, BrokerOnPublish, BrokerOnPubrel,
       BrokerOnLastAck, BrokerOnPubrec, BrokerResend, BrokerRead, history
  <2>2. QED BY <2>1, <1>1
<1>6. CASE UNCHANGED vars BY <1>1, <1>6 DEF vars, history
<1>7. QED BY <1>2, <1>3, <1>4, <1>5, <1>6 DEF Next, User

\* A step that carries and answers nothing new, and delivers nothing.
NothingNew == /\ \A i \in PacketId, m \in Out : Carries(i, m)' => Carries(i, m)
              /\ \A i \in PacketId : Answered(i)' => Answered(i)
              /\ fwd' = fwd

LEMMA Steady == Agree /\ NothingNew => Agree'
<1> SUFFICES ASSUME Agree, NothingNew PROVE Agree'
  OBVIOUS
<1>1. \A i \in PacketId, m, q \in Out : Carries(i, m)' /\ Carries(i, q)' => m = q
  BY DEF Agree, NothingNew
<1>2. \A i \in PacketId, m \in Out : Carries(i, m)' /\ Answered(i)' => fwd'[m] > 0
  BY DEF Agree, NothingNew
<1>3. QED BY <1>1, <1>2 DEF Agree

(* An unused id carries no message and waits for no answer. *)
LEMMA UnusedIsFree ==
  ASSUME TypeOK, Lists, user.pc = "checked", NEW j, Unused(j)
  PROVE  ~Answered(j) /\ \A m \in Out : ~Carries(j, m)
<1>1. \A n \in acks : n.id = j => n.msg = NoMsg BY DEF Lists, Unused
<1>2. NoMsg \notin Out BY SessionAssumption
<1>3. QED BY <1>1, <1>2 DEF Unused, Answered, Carries

(* What PublishSend carries more is the message under its new id. *)
LEMMA SendCarries ==
  ASSUME TypeOK, PublishSend
  PROVE  /\ GetNextPacketId \in PacketId /\ user.msg \in Out
         /\ \A i \in PacketId, m \in Out :
               Carries(i, m)' => Carries(i, m) \/ (i = GetNextPacketId /\ m = user.msg)
<1> DEFINE j == GetNextPacketId
           q == Pkt("PUBLISH", j, user.msg)
<1>1. j \in PacketId BY NextIdType, SessionAssumption DEF TypeOK
<1> HIDE DEF j
<1>2. /\ user.pc = "checked" /\ user' = [user EXCEPT !.pc = "sent", !.id = j]
      /\ Send(q) /\ UNCHANGED acks
  BY DEF PublishSend, j
<1>3. q \in Packet(Out, PacketId) /\ user.msg \in Out
  BY <1>1, <1>2 DEF TypeOK, ThreadTypes, Pkt, Packet, Kind
<1>4. Elems(c2b') \subseteq Elems(c2b) \cup {q}
  BY <1>2, <1>3, Wires DEF TypeOK
<1>5. user'.id = j /\ user'.msg = user.msg
  BY <1>2 DEF TypeOK, ThreadTypes
<1>6. q.id = j /\ q.msg = user.msg BY DEF Pkt
<1> HIDE DEF q
<1>7. \A i \in PacketId, m \in Out : Carries(i, m)' => Carries(i, m) \/ (i = j /\ m = user.msg)
  BY <1>2, <1>4, <1>5, <1>6 DEF Carries
<1>8. QED BY <1>1, <1>3, <1>7 DEF j

(* mqtt_publish() sends under a packet id that nothing carries or answers. *)
LEMMA AgreeSend ==
  ASSUME NextIdUnused, TypeOK, Agree, Lists, PublishSend
  PROVE  Agree'
<1> DEFINE j == GetNextPacketId
<1>1. ~Answered(j) /\ \A m \in Out : ~Carries(j, m)
  <2>1. user.pc = "checked" /\ Unused(j) BY DEF PublishSend, NextIdUnused
  <2>2. QED BY <2>1, UnusedIsFree
<1>2. j \in PacketId /\ user.msg \in Out
      /\ \A i \in PacketId, m \in Out : Carries(i, m)' => Carries(i, m) \/ (i = j /\ m = user.msg)
  BY SendCarries
<1> HIDE DEF j
<1>3. \A i \in PacketId : Answered(i)' => Answered(i)
  BY DEF PublishSend, Answered, broker
<1>4. fwd' = fwd BY DEF PublishSend
<1>5. \A i \in PacketId, m, n \in Out : Carries(i, m)' /\ Carries(i, n)' => m = n
  BY <1>1, <1>2 DEF Agree
<1>6. \A i \in PacketId, m \in Out : Carries(i, m)' /\ Answered(i)' => fwd'[m] > 0
  BY <1>1, <1>2, <1>3, <1>4 DEF Agree
<1>7. QED BY <1>5, <1>6 DEF Agree

(* The broker answers a PUBLISH for the one message its id stands for, and    *)
(* has that message then.                                                     *)
LEMMA AgreeAnswer ==
  ASSUME TypeOK, Agree, BrokerOnPublish
  PROVE  Agree'
<1> DEFINE p == Head(c2b)
<1>1. /\ c2b # <<>> /\ p.kind = "PUBLISH" /\ c2b' = Tail(c2b)
      /\ UNCHANGED <<acks, user, yield>>
  BY DEF BrokerOnPublish, BrokerRead, client
<1>2. p \in Packet(Out, PacketId) /\ p \in Elems(c2b) /\ Elems(c2b') \subseteq Elems(c2b)
  BY <1>1, HeadTypes, Wires DEF TypeOK
<1>3. p.id \in PacketId /\ p.msg \in Out
  BY <1>1, <1>2 DEF Packet
<1>4. Carries(p.id, p.msg)
  BY <1>1, <1>2 DEF Carries
<1>5. /\ bRec' \subseteq bRec \cup {p.id}
      /\ \/ Reply(Pkt("PUBACK", p.id, NoMsg)) \/ Reply(Pkt("PUBREC", p.id, NoMsg))
  BY DEF BrokerOnPublish
<1>6. \A r \in Elems(b2c') : r \in Elems(b2c) \/ r.id = p.id
  <2>1. NetTypes BY DEF TypeOK
  <2>2. CASE Reply(Pkt("PUBACK", p.id, NoMsg))
    <3>1. Pkt("PUBACK", p.id, NoMsg) \in Packet(In, BrokerIds)
      BY <1>3 DEF Pkt, Packet, Kind, AckType
    <3>2. Elems(b2c') = Elems(b2c) \cup {Pkt("PUBACK", p.id, NoMsg)}
      BY <2>1, <2>2, <3>1, Wires
    <3>3. QED BY <3>2 DEF Pkt
  <2>3. CASE Reply(Pkt("PUBREC", p.id, NoMsg))
    <3>1. Pkt("PUBREC", p.id, NoMsg) \in Packet(In, BrokerIds)
      BY <1>3 DEF Pkt, Packet, Kind, AckType
    <3>2. Elems(b2c') = Elems(b2c) \cup {Pkt("PUBREC", p.id, NoMsg)}
      BY <2>1, <2>3, <3>1, Wires
    <3>3. QED BY <3>2 DEF Pkt
  <2>4. QED BY <1>5, <2>2, <2>3
<1>7. fwd'[p.msg] > 0 /\ \A m \in Out : fwd[m] > 0 => fwd'[m] > 0
  <2>1. fwd \in [Out -> 0..2] BY DEF TypeOK, HistoryTypes
  <2>2. CASE fwd' = [fwd EXCEPT ![p.msg] = More(@)]
    BY <1>3, <2>1, <2>2 DEF More
  <2>3. CASE fwd' = fwd /\ p.id \in bRec
    <3>1. Answered(p.id) BY <2>3 DEF Answered
    <3>2. QED BY <1>3, <1>4, <2>3, <3>1 DEF Agree
  <2>4. QED BY <2>2, <2>3 DEF BrokerOnPublish
<1> HIDE DEF p
<1>8. \A i \in PacketId, m \in Out : Carries(i, m)' => Carries(i, m)
  BY <1>1, <1>2 DEF Carries
<1>9. \A i \in PacketId : Answered(i)' => Answered(i) \/ i = p.id
  BY <1>1, <1>5, <1>6 DEF Answered
<1>10. \A m \in Out : Carries(p.id, m) => m = p.msg
  BY <1>3, <1>4 DEF Agree
<1>11. \A i \in PacketId, m, q \in Out : Carries(i, m)' /\ Carries(i, q)' => m = q
  BY <1>8 DEF Agree
<1>12. \A i \in PacketId, m \in Out : Carries(i, m)' /\ Answered(i)' => fwd'[m] > 0
  BY <1>7, <1>8, <1>9, <1>10 DEF Agree
<1>13. QED BY <1>11, <1>12 DEF Agree

(* Nodes that stay, or wait for the answer to an ack, carry no message. *)
LEMMA FewerNodes ==
  ASSUME NEW type, NEW i, AckListUnrecord(type, i)
  PROVE  acks' \subseteq acks /\ \A n \in acks : n \in acks' \/ (n.type = type /\ n.id = i)
BY DEF AckListUnrecord

LEMMA AckNode ==
  ASSUME NEW type, NEW i, AckListRecord(type, i, NoMsg) \/ AckListNoMemory(type, i)
  PROVE  /\ acks \subseteq acks'
         /\ \A n \in acks' : \/ n \in acks
                             \/ n.type = type /\ n.id = i /\ n.msg = NoMsg
BY DEF AckListRecord, AckListNoMemory

(* Sending what a node keeps carries nothing new. *)
LEMMA ResendCarries ==
  ASSUME TypeOK, NEW n \in acks, Send(Payload(n)), NEW p \in Elems(c2b'),
         p.kind = "PUBLISH", p.msg \in Out
  PROVE  Carries(p.id, p.msg)
<1>1. n \in Node BY DEF TypeOK, ListTypes
<1>2. Elems(c2b') \subseteq Elems(c2b) \cup {Payload(n)}
  BY <1>1, PayloadType, Wires DEF TypeOK
<1>3. CASE p \in Elems(c2b) BY <1>3 DEF Carries
<1>4. CASE p = Payload(n)
  <2>1. p.id = n.id /\ p.msg = n.msg
    BY <1>1, <1>4 DEF Payload, Pkt, Node, AckType
  <2>2. QED BY <2>1 DEF Carries
<1>5. QED BY <1>2, <1>3, <1>4

(* The user thread, outside its send. *)
LEMMA UserNothingNew ==
  ASSUME TypeOK, User, ~PublishSend
  PROVE  NothingNew
<1>1. CASE PublishSendFails
  <2>1. \A i \in PacketId, m \in Out : Carries(i, m)' => Carries(i, m)
    BY <1>1 DEF PublishSendFails, Carries, Idle, net
  <2>2. \A i \in PacketId : Answered(i)' => Answered(i)
    BY <1>1 DEF PublishSendFails, Answered, net, broker
  <2>3. fwd' = fwd BY <1>1 DEF PublishSendFails
  <2>4. QED BY <2>1, <2>2, <2>3 DEF NothingNew
<1>2. CASE PublishRecord
  <2>1. /\ user.pc = "sent" /\ user' = Idle
        /\ \A n \in acks' : n \in acks \/ (n.id = user.id /\ n.msg = user.msg)
    BY <1>2 DEF PublishRecord, AckListRecord
  <2>2. \A i \in PacketId, m \in Out : Carries(i, m)' => Carries(i, m)
    BY <1>2, <2>1 DEF PublishRecord, Carries, Idle, net
  <2>3. \A i \in PacketId : Answered(i)' => Answered(i)
    BY <1>2 DEF PublishRecord, Answered, net, broker
  <2>4. fwd' = fwd BY <1>2 DEF PublishRecord
  <2>5. QED BY <2>2, <2>3, <2>4 DEF NothingNew
<1>3. CASE (\E m \in Out : PublishCheck(m)) \/ PublishNoMemory \/ PublishTooMuch
  <2>1. user'.pc # "sent" /\ UNCHANGED <<client, net, broker, yield, fwd>>
    BY <1>3 DEF PublishCheck, PublishTooMuch, PublishNoMemory, AckListNoMemory, client, history,
       TypeOK, ThreadTypes
  <2>2. \A i \in PacketId, m \in Out : Carries(i, m)' => Carries(i, m)
    BY <2>1 DEF Carries, client, net
  <2>3. \A i \in PacketId : Answered(i)' => Answered(i)
    BY <2>1 DEF Answered, net, broker
  <2>4. QED BY <2>1, <2>2, <2>3 DEF NothingNew
<1>4. CASE PublishRelease
  <2>1. Elems(c2b') = {} /\ Elems(b2c') = {}
    BY <1>4, Wires DEF PublishRelease, TypeOK
  <2>2. \A i \in PacketId, m \in Out : Carries(i, m)' => Carries(i, m)
    BY <1>4, <2>1 DEF PublishRelease, Carries, Idle
  <2>3. \A i \in PacketId : Answered(i)' => Answered(i)
    BY <1>4, <2>1 DEF PublishRelease, Answered
  <2>4. fwd' = fwd BY <1>4 DEF PublishRelease, history
  <2>5. QED BY <2>2, <2>3, <2>4 DEF NothingNew
<1>5. QED BY <1>1, <1>2, <1>3, <1>4 DEF User

(* The yield thread takes answers in, and sends only acks and what nodes keep. *)
LEMMA YieldNothingNew ==
  ASSUME TypeOK, Lists, Handle \/ Reconnect \/ Timeout
  PROVE  NothingNew
<1> DEFINE h == Head(b2c)
<1>1. NoMsg \notin Out BY SessionAssumption
<1>2. ASSUME NEW kinds, Read(kinds)
      PROVE  /\ h \in Elems(b2c) /\ Elems(b2c') \subseteq Elems(b2c)
             /\ h.id \in PacketId /\ h \in Packet(In, BrokerIds)
             /\ h.kind \in kinds /\ yield.pc = "loop"
  BY <1>2, HeadTypes, Wires DEF Read, TypeOK, Packet
<1>3. ASSUME NEW k \in AckType, NEW i \in PacketId, Send(Pkt(k, i, NoMsg)),
             NEW p \in Elems(c2b'), p.kind = "PUBLISH"
      PROVE  p \in Elems(c2b)
  <2>1. Pkt(k, i, NoMsg) \in Packet(Out, PacketId) BY <1>3, AckPackets
  <2>2. Elems(c2b') \subseteq Elems(c2b) \cup {Pkt(k, i, NoMsg)}
    BY <1>3, <2>1, Wires DEF TypeOK
  <2>3. QED BY <1>3, <2>2 DEF Pkt, AckType, NothingNew
<1>4. CASE PubackAndPubcompPacketHandle
  <2>1. acks' \subseteq acks /\ Elems(b2c') \subseteq Elems(b2c)
    BY <1>2, <1>4, FewerNodes DEF PubackAndPubcompPacketHandle
  <2>2. QED
    BY <1>4, <2>1 DEF PubackAndPubcompPacketHandle, Carries, Answered, broker, history, NothingNew
<1>5. CASE PublishPacketHandle
  <2>1. Elems(b2c') \subseteq Elems(b2c) BY <1>2, <1>5 DEF PublishPacketHandle
  <2>2. \A p \in Elems(c2b') : p.kind = "PUBLISH" => p \in Elems(c2b)
    <3>1. h.id \in PacketId BY <1>2, <1>5 DEF PublishPacketHandle
    <3>2. Send(Pkt("PUBACK", h.id, NoMsg)) \/ Send(Pkt("PUBREC", h.id, NoMsg))
      BY <1>5 DEF PublishPacketHandle
    <3>3. QED BY <3>1, <3>2, <1>3 DEF AckType
  <2>3. yield'.pc # "unrecord" BY <1>5 DEF PublishPacketHandle
  <2>4. \A i \in PacketId, m \in Out : Carries(i, m)' => Carries(i, m)
    BY <1>5, <2>2 DEF PublishPacketHandle, Carries, client
  <2>5. \A i \in PacketId : Answered(i)' => Answered(i)
    BY <1>5, <2>1, <2>3 DEF PublishPacketHandle, Answered, broker
  <2>6. QED BY <1>5, <2>4, <2>5 DEF PublishPacketHandle, history, NothingNew
<1>6. CASE PublishPacketDeliver \/ PublishPacketNoMemory
  <2>1. \A n \in acks' : n \in acks \/ n.msg = NoMsg
    BY <1>6, AckNode DEF PublishPacketDeliver, PublishPacketNoMemory
  <2>2. \A i \in PacketId, m \in Out : Carries(i, m)' => Carries(i, m)
    BY <1>1, <1>6, <2>1 DEF PublishPacketDeliver, PublishPacketNoMemory, Carries, net
  <2>3. \A i \in PacketId : Answered(i)' => Answered(i)
    BY <1>6 DEF PublishPacketDeliver, PublishPacketNoMemory, Answered, net, broker, Loop
  <2>4. QED BY <1>6, <2>2, <2>3 DEF PublishPacketDeliver, PublishPacketNoMemory, NothingNew
<1>7. CASE PubrecPacketHandle \/ PubrecPacketNoMemory
  <2>1. /\ Elems(b2c') \subseteq Elems(b2c) /\ h \in Elems(b2c) /\ h.kind = "PUBREC"
        /\ h.id \in PacketId
    BY <1>2, <1>7 DEF PubrecPacketHandle, PubrecPacketNoMemory
  <2>2. \A p \in Elems(c2b') : p.kind = "PUBLISH" => p \in Elems(c2b)
    <3>1. CASE UNCHANGED c2b BY <3>1
    <3>2. CASE Send(Pkt("PUBREL", h.id, NoMsg)) BY <2>1, <3>2, <1>3 DEF AckType
    <3>3. QED BY <1>7, <3>1, <3>2 DEF PubrecPacketHandle, PubrecPacketNoMemory
  <2>3. \A n \in acks' : n \in acks \/ n.msg = NoMsg
    BY <1>7, AckNode DEF PubrecPacketHandle, PubrecPacketNoMemory
  <2>4. yield'.pc = "unrecord" /\ yield'.id = h.id
    BY <1>7 DEF PubrecPacketHandle, PubrecPacketNoMemory
  <2>5. \A i \in PacketId, m \in Out : Carries(i, m)' => Carries(i, m)
    BY <1>1, <1>7, <2>2, <2>3 DEF PubrecPacketHandle, PubrecPacketNoMemory, Carries
  <2>6. \A i \in PacketId : Answered(i)' => Answered(i)
    BY <1>7, <2>1, <2>4 DEF PubrecPacketHandle, PubrecPacketNoMemory, Answered, broker
  <2>7. QED BY <1>7, <2>5, <2>6 DEF PubrecPacketHandle, PubrecPacketNoMemory, history, NothingNew
<1>8. CASE PubrelPacketHandle
  <2>1. Elems(b2c') \subseteq Elems(b2c) /\ h.id \in PacketId
    BY <1>2, <1>8 DEF PubrelPacketHandle
  <2>2. \A p \in Elems(c2b') : p.kind = "PUBLISH" => p \in Elems(c2b)
    BY <2>1, <1>3, <1>8 DEF PubrelPacketHandle, AckType
  <2>3. yield'.kind = "PUBREL" BY <1>8 DEF PubrelPacketHandle
  <2>4. \A i \in PacketId, m \in Out : Carries(i, m)' => Carries(i, m)
    BY <1>8, <2>2 DEF PubrelPacketHandle, Carries, client
  <2>5. \A i \in PacketId : Answered(i)' => Answered(i)
    BY <1>8, <2>1, <2>3 DEF PubrelPacketHandle, Answered, broker
  <2>6. QED BY <1>8, <2>4, <2>5 DEF PubrelPacketHandle, history, NothingNew
<1>9. CASE UnrecordAnswered
  <2>1. acks' \subseteq acks BY <1>9, FewerNodes DEF UnrecordAnswered
  <2>2. \A i \in PacketId, m \in Out : Carries(i, m)' => Carries(i, m)
    BY <1>9, <2>1 DEF UnrecordAnswered, Carries, net
  <2>3. \A i \in PacketId : Answered(i)' => Answered(i)
    BY <1>9 DEF UnrecordAnswered, Answered, net, broker, Loop
  <2>4. QED BY <1>9, <2>2, <2>3 DEF UnrecordAnswered, history, NothingNew
<1>10. CASE KeepAliveLost \/ ScanEnd
  <2>1. UNCHANGED <<acks, net, broker, fwd, user>> /\ (yield' = yield \/ yield' = Loop)
    BY <1>10 DEF KeepAliveLost, ScanEnd, client, history
  <2>2. \A i \in PacketId, m \in Out : Carries(i, m)' => Carries(i, m)
    BY <2>1 DEF Carries, net
  <2>3. \A i \in PacketId : Answered(i)' => Answered(i)
    BY <2>1 DEF Answered, net, broker, Loop
  <2>4. QED BY <2>1, <2>2, <2>3 DEF NothingNew
<1>11. CASE TryDoReconnect
  <2>1. /\ Elems(c2b') = {} /\ Elems(b2c') = {} /\ bRec' \subseteq bRec
        /\ yield'.pc = "scan" /\ UNCHANGED <<acks, user, fwd>>
    BY <1>11 DEF TryDoReconnect, Elems, Loop, history
  <2>2. QED BY <2>1 DEF Carries, Answered, NothingNew
<1>12. ASSUME NEW n \in acks, ScanTimeout(n) \/ ScanResend(n) PROVE NothingNew
  <2>1. /\ Send(Payload(n)) /\ UNCHANGED <<acks, user, yield, fwd>>
        /\ UNCHANGED <<b2c, bRec>>
    BY <1>12 DEF ScanTimeout, ScanResend, client, broker, history
  <2>2. \A i \in PacketId, m \in Out : Carries(i, m)' => Carries(i, m)
    <3>1. \A p \in Elems(c2b') : p.kind = "PUBLISH" /\ p.msg \in Out => Carries(p.id, p.msg)
      BY <2>1, ResendCarries
    <3>2. QED BY <2>1, <3>1 DEF Carries
  <2>3. \A i \in PacketId : Answered(i)' => Answered(i)
    BY <2>1 DEF Answered
  <2>4. QED BY <2>1, <2>2, <2>3 DEF NothingNew
<1>13. QED BY <1>4, <1>5, <1>6, <1>7, <1>8, <1>9, <1>10, <1>11, <1>12
       DEF Handle, Reconnect, Timeout, Lists

(* The broker's other steps and the network answer nothing new. *)
LEMMA BrokerNothingNew ==
  ASSUME TypeOK, ~BrokerOnPublish,
         \/ Broker \/ KeepAliveSlow \/ LinkDown
         \/ \E m \in In, i \in BrokerIds : BrokerPublish(m, i)
  PROVE  NothingNew
<1> DEFINE h == Head(c2b)
<1>1. ASSUME NEW k, BrokerRead(k)
      PROVE  Elems(c2b') \subseteq Elems(c2b) /\ h.id \in PacketId
             /\ UNCHANGED <<acks, user, yield>>
  BY <1>1, HeadTypes, Wires DEF BrokerRead, TypeOK, Packet, client
<1>2. ASSUME NEW p \in Packet(In, BrokerIds), Reply(p), p.kind \notin {"PUBACK", "PUBREC"},
             NEW r \in Elems(b2c'), r.kind \in {"PUBACK", "PUBREC"}
      PROVE  r \in Elems(b2c)
  BY <1>2, Wires DEF TypeOK
<1>3. ASSUME NEW i \in PacketId, NEW k \in {"PUBREL", "PUBCOMP"}
      PROVE  /\ Pkt(k, i, NoMsg) \in Packet(In, BrokerIds)
             /\ Pkt(k, i, NoMsg).kind \notin {"PUBACK", "PUBREC"}
  BY <1>3, AckPackets DEF Pkt, AckType
<1>4. CASE BrokerOnPubrel
  <2>1. /\ Elems(c2b') \subseteq Elems(c2b) /\ h.id \in PacketId
        /\ UNCHANGED <<acks, user, yield>>
    BY <1>1, <1>4 DEF BrokerOnPubrel
  <2>2. \A r \in Elems(b2c') : r.kind \in {"PUBACK", "PUBREC"} => r \in Elems(b2c)
    BY <1>2, <1>3, <1>4, <2>1 DEF BrokerOnPubrel
  <2>3. bRec' \subseteq bRec /\ fwd' = fwd BY <1>4 DEF BrokerOnPubrel
  <2>4. QED BY <2>1, <2>2, <2>3 DEF Carries, Answered, NothingNew
<1>5. CASE BrokerOnLastAck
  <2>1. Elems(c2b') \subseteq Elems(c2b) /\ UNCHANGED <<acks, user, yield>>
    BY <1>1, <1>5 DEF BrokerOnLastAck
  <2>2. UNCHANGED <<b2c, bRec, fwd>> BY <1>5 DEF BrokerOnLastAck
  <2>3. QED BY <2>1, <2>2 DEF Carries, Answered, NothingNew
<1>6. CASE BrokerOnPubrec
  <2>1. /\ Elems(c2b') \subseteq Elems(c2b) /\ h.id \in PacketId
        /\ UNCHANGED <<acks, user, yield>>
    BY <1>1, <1>6 DEF BrokerOnPubrec
  <2>2. \A r \in Elems(b2c') : r.kind \in {"PUBACK", "PUBREC"} => r \in Elems(b2c)
    <3>1. CASE UNCHANGED b2c BY <3>1
    <3>2. CASE Reply(Pkt("PUBREL", h.id, NoMsg)) BY <1>2, <1>3, <2>1, <3>2
    <3>3. QED BY <1>6, <3>1, <3>2 DEF BrokerOnPubrec
  <2>3. UNCHANGED <<bRec, fwd>> BY <1>6 DEF BrokerOnPubrec
  <2>4. QED BY <2>1, <2>2, <2>3 DEF Carries, Answered, NothingNew
<1>7. ASSUME NEW i \in BrokerIds, BrokerResend(i) PROVE NothingNew
  <2>1. UNCHANGED <<acks, c2b, user, yield, bRec, fwd>>
    BY <1>7 DEF BrokerResend, client, history
  <2>2. \A r \in Elems(b2c') : r.kind \in {"PUBACK", "PUBREC"} => r \in Elems(b2c)
    <3>1. CASE UNCHANGED b2c BY <3>1
    <3>2. CASE bOut[i].st # "free" /\ Reply(BrokerPacket(i))
      <4>1. i \in PacketId /\ bOut[i].msg \in In
        BY <3>2, SessionAssumption DEF TypeOK, BrokerTypes
      <4>2. BrokerPacket(i) = Pkt("PUBREL", i, NoMsg)
            \/ BrokerPacket(i) = Pkt("PUBLISH", i, bOut[i].msg)
        BY DEF BrokerPacket
      <4>3. Pkt("PUBLISH", i, bOut[i].msg) \in Packet(In, BrokerIds)
            /\ Pkt("PUBLISH", i, bOut[i].msg).kind = "PUBLISH"
        BY <4>1 DEF Pkt, Packet, Kind
      <4>4. QED BY <1>2, <1>3, <3>2, <4>1, <4>2, <4>3
    <3>3. QED BY <1>7, <3>1, <3>2 DEF BrokerResend
  <2>3. QED BY <2>1, <2>2 DEF Carries, Answered, NothingNew
<1>8. ASSUME NEW m \in In, NEW i \in BrokerIds, BrokerPublish(m, i) PROVE NothingNew
  <2>1. UNCHANGED <<acks, c2b, user, yield, bRec, fwd>>
    BY <1>8 DEF BrokerPublish, client
  <2>2. \A r \in Elems(b2c') : r.kind \in {"PUBACK", "PUBREC"} => r \in Elems(b2c)
    <3>1. Pkt("PUBLISH", i, m) \in Packet(In, BrokerIds)
          /\ Pkt("PUBLISH", i, m).kind = "PUBLISH"
      BY SessionAssumption DEF Pkt, Packet, Kind
    <3>2. QED BY <1>2, <1>8, <3>1 DEF BrokerPublish
  <2>3. QED BY <2>1, <2>2 DEF Carries, Answered, NothingNew
<1>9. CASE KeepAliveSlow \/ LinkDown
  <2>1. Elems(c2b') = {} /\ Elems(b2c') = {}
    BY <1>9, Wires DEF KeepAliveSlow, LinkDown, TypeOK
  <2>2. UNCHANGED <<acks, user, yield, bRec, fwd>>
    BY <1>9 DEF KeepAliveSlow, LinkDown, client, history
  <2>3. QED BY <2>1, <2>2 DEF Carries, Answered, NothingNew
<1>10. QED BY <1>4, <1>5, <1>6, <1>7, <1>8, <1>9 DEF Broker

(* Only mqtt_publish() carries more, and only a PUBLISH is answered. *)
LEMMA MostlyNothingNew ==
  ASSUME TypeOK, Lists, [Next]_vars
  PROVE  NothingNew \/ PublishSend \/ BrokerOnPublish
<1>1. CASE UNCHANGED vars
  BY <1>1 DEF vars, client, net, broker, history, Carries, Answered, NothingNew
<1>2. QED BY <1>1, UserNothingNew, YieldNothingNew, BrokerNothingNew DEF Next

LEMMA AgreeStep ==
  ASSUME NextIdUnused, TypeOK, Agree, Lists, [Next]_vars
  PROVE  Agree'
BY MostlyNothingNew, Steady, AgreeSend, AgreeAnswer

(* Steps that leave the list, the threads and the packet id alone. *)
LEMMA SameLists ==
  ASSUME Lists, UNCHANGED <<acks, user, yield, todo>>
  PROVE  Lists'
BY DEF Lists

(* The steps of the user thread keep what the nodes say of themselves: the   *)
(* node it records is under its own id, and no PUBCOMP node has that id.     *)
LEMMA ListsUser ==
  ASSUME NextIdUnused, TypeOK, Lists, User
  PROVE  Lists'
<1>1. CASE PublishSend
  <2>1. user' = [user EXCEPT !.pc = "sent", !.id = GetNextPacketId] /\ Unused(GetNextPacketId)
    BY <1>1 DEF PublishSend, NextIdUnused
  <2>2. user'.id = GetNextPacketId
    BY <2>1 DEF TypeOK, ThreadTypes
  <2>3. UNCHANGED <<acks, yield, todo>> BY <1>1 DEF PublishSend
  <2>4. \A n \in acks : n.type = "PUBCOMP" => n.id # GetNextPacketId
    BY <2>1 DEF Unused
  <2>5. QED BY <2>1, <2>2, <2>3, <2>4 DEF Lists
<1>2. CASE PublishSendFails
  BY <1>2 DEF PublishSendFails, Idle, Lists
<1>3. CASE PublishRecord
  <2> DEFINE type == AckOf(user.msg)
             node == [type |-> type, id |-> user.id, msg |-> user.msg]
  <2>1. /\ acks' = acks \/ acks' = acks \cup {node}
        /\ UNCHANGED yield /\ user'.pc # "sent"
    BY <1>3 DEF PublishRecord, AckListRecord, Idle, AckOf
  <2>2. node.type \notin {"PUBREL", "PUBCOMP"} BY DEF AckOf
  <2>3. todo' \subseteq acks' /\ (yield'.pc # "scan" => todo' = {})
    <3>1. CASE NodeIsExist(type, user.id)
      BY <1>3, <3>1 DEF PublishRecord, AckListRecord, Lists
    <3>2. CASE ~NodeIsExist(type, user.id)
      <4>1. acks' = acks \cup {node} BY <1>3, <3>2 DEF PublishRecord, AckListRecord, AckOf
      <4>2. todo' = todo \/ (yield.pc = "scan" /\ todo' = todo \cup {node})
        BY <1>3, <3>2 DEF PublishRecord, AckOf
      <4>3. QED BY <2>1, <4>1, <4>2 DEF Lists
    <3>3. QED BY <3>1, <3>2
  <2> HIDE DEF node
  <2>4. QED BY <2>1, <2>2, <2>3 DEF Lists
<1>4. CASE (\E m \in Out : PublishCheck(m)) \/ PublishNoMemory \/ PublishTooMuch \/ PublishRelease
  <2>1. user'.pc # "sent" /\ UNCHANGED <<acks, yield, todo>>
    BY <1>4 DEF PublishCheck, PublishTooMuch, PublishNoMemory, PublishRelease, Idle, client,
       TypeOK, ThreadTypes, AckListNoMemory
  <2>2. QED BY <2>1 DEF Lists
<1>5. QED BY <1>1, <1>2, <1>3, <1>4 DEF User

(* A PUBCOMP node is recorded under an id the broker has answered, with the  *)
(* lock held; nodes go only while no scan is under way.                      *)
LEMMA ListsHandle ==
  ASSUME TypeOK, Lists, Handle
  PROVE  Lists'
<1>1. ASSUME NEW kinds, Read(kinds)
      PROVE  /\ Head(b2c) \in Elems(b2c) /\ Head(b2c).id \in PacketId
             /\ Head(b2c).kind \in kinds /\ yield.pc = "loop"
  BY <1>1, HeadTypes, Wires DEF Read, TypeOK, Packet
<1>2. CASE PubackAndPubcompPacketHandle
  <2>1. acks' \subseteq acks /\ yield.pc = "loop" /\ UNCHANGED <<user, yield, todo>>
    BY <1>1, <1>2, FewerNodes DEF PubackAndPubcompPacketHandle
  <2>2. QED BY <2>1 DEF Lists
<1>3. CASE PublishPacketHandle \/ PubrelPacketHandle
  <2>1. /\ UNCHANGED <<acks, user, todo>> /\ yield.pc = "loop"
        /\ yield'.pc # "scan" /\ yield'.pc = "unrecord" => yield'.kind = "PUBREL"
    BY <1>1, <1>3 DEF PublishPacketHandle, PubrelPacketHandle, client
  <2>2. QED BY <2>1 DEF Lists
<1>4. CASE PublishPacketDeliver \/ PublishPacketNoMemory
  <2>1. \A n \in acks' : n \in acks \/ (n.type = "PUBREL" /\ n.msg = NoMsg)
    BY <1>4, AckNode DEF PublishPacketDeliver, PublishPacketNoMemory
  <2>2. /\ acks \subseteq acks' /\ UNCHANGED <<user, todo>>
        /\ yield.pc = "deliver" /\ yield'.pc = "loop"
    BY <1>4, AckNode DEF PublishPacketDeliver, PublishPacketNoMemory, Loop
  <2>3. QED BY <2>1, <2>2 DEF Lists
<1>5. CASE PubrecPacketHandle \/ PubrecPacketNoMemory
  <2> DEFINE i == Head(b2c).id
  <2>1. \A n \in acks' : n \in acks \/ (n.type = "PUBCOMP" /\ n.id = i /\ n.msg = NoMsg)
    BY <1>5, AckNode DEF PubrecPacketHandle, PubrecPacketNoMemory
  <2>2. user.pc # "sent" BY <1>5 DEF PubrecPacketHandle, PubrecPacketNoMemory, WriteLockFree
  <2>3. /\ acks \subseteq acks' /\ UNCHANGED <<user, todo>> /\ yield.pc = "loop"
        /\ yield'.pc = "unrecord" /\ yield'.kind = "PUBREC"
    BY <1>1, <1>5, AckNode DEF PubrecPacketHandle, PubrecPacketNoMemory
  <2> HIDE DEF i
  <2>4. QED BY <2>1, <2>2, <2>3 DEF Lists
<1>6. CASE UnrecordAnswered
  <2>1. /\ acks' \subseteq acks /\ UNCHANGED <<user, todo>>
        /\ yield.pc = "unrecord" /\ yield'.pc = "loop"
    BY <1>6, FewerNodes DEF UnrecordAnswered, Loop
  <2>2. QED BY <2>1 DEF Lists
<1>7. QED BY <1>2, <1>3, <1>4, <1>5, <1>6 DEF Handle

LEMMA ListsStep ==
  ASSUME NextIdUnused, TypeOK, Lists, [Next]_vars
  PROVE  Lists'
<1>1. CASE KeepAliveLost \/ Timeout \/ KeepAliveSlow \/ Broker \/ LinkDown
           \/ (\E m \in In, i \in BrokerIds : BrokerPublish(m, i))
  <2>1. UNCHANGED <<acks, user, yield, todo>>
    BY <1>1 DEF KeepAliveLost, Timeout, ScanTimeout, KeepAliveSlow, LinkDown, BrokerPublish,
       Broker, BrokerOnPublish, BrokerOnPubrel, BrokerOnLastAck, BrokerOnPubrec, BrokerResend,
       BrokerRead, client
  <2>2. QED BY <2>1, SameLists
<1>2. CASE TryDoReconnect
  BY <1>2 DEF TryDoReconnect, Loop, Lists
<1>3. CASE \E n \in todo : ScanResend(n)
  BY <1>3 DEF ScanResend, Lists, client
<1>4. CASE ScanEnd
  BY <1>4 DEF ScanEnd, Loop, Lists, client
<1>5. CASE UNCHANGED vars
  BY <1>5, SameLists DEF vars, client
<1>6. QED BY <1>1, <1>2, <1>3, <1>4, <1>5, ListsUser, ListsHandle DEF Next, Reconnect

Handshake == ListInv /\ TypeOK /\ Fresh /\ Agree /\ Lists

(* The acks take nodes off the list only for messages the broker has.       *)
LEMMA KeptStep ==
  ASSUME Handshake, AcceptedIsKept, [Next]_vars
  PROVE  AcceptedIsKept'
<1>1. NoMsg \notin Out /\ accepted \subseteq Out
  BY SessionAssumption DEF Handshake, TypeOK, HistoryTypes
<1>2. ASSUME accepted' = accepted, \A m \in Out : fwd[m] > 0 => fwd'[m] > 0,
             \A n \in acks : n \in acks' \/ n.msg = NoMsg \/ fwd[n.msg] > 0
      PROVE  AcceptedIsKept'
  BY <1>1, <1>2 DEF AcceptedIsKept
<1>3. ASSUME NEW n \in acks, n.msg \in Out, Answered(n.id)
      PROVE  fwd[n.msg] > 0
  <2>1. n.id \in PacketId BY DEF Handshake, TypeOK, ListTypes, Node
  <2>2. Carries(n.id, n.msg) BY DEF Carries
  <2>3. QED BY <1>3, <2>1, <2>2 DEF Handshake, Agree
<1>4. \A n \in acks : n.msg \in Out \/ n.msg = NoMsg
  BY DEF Handshake, TypeOK, ListTypes, Node
<1>5. CASE PublishRecord
  <2>1. acks \subseteq acks' /\ fwd' = fwd
    BY <1>5 DEF PublishRecord, AckListRecord
  <2> DEFINE type == AckOf(user.msg)
  <2>2. accepted' = accepted
        \/ (accepted' = accepted \cup {user.msg} /\ \E n \in acks' : n.msg = user.msg)
    <3>1. CASE NodeIsExist(type, user.id)
      BY <1>5, <3>1 DEF PublishRecord, AckOf
    <3>2. CASE ~NodeIsExist(type, user.id)
      <4> DEFINE node == [type |-> type, id |-> user.id, msg |-> user.msg]
      <4>1. acks' = acks \cup {node} BY <1>5, <3>2 DEF PublishRecord, AckListRecord, AckOf
      <4>2. node \in acks' /\ node.msg = user.msg BY <4>1
      <4>3. accepted' = accepted \cup {user.msg} BY <1>5, <3>2 DEF PublishRecord, AckOf
      <4>4. QED BY <4>2, <4>3
    <3>3. QED BY <3>1, <3>2
  <2>3. QED BY <2>1, <2>2 DEF AcceptedIsKept
<1>6. CASE PubackAndPubcompPacketHandle
  <2> DEFINE h == Head(b2c)
  <2>1. h \in Elems(b2c) /\ h.kind \in {"PUBACK", "PUBCOMP"}
    BY <1>6, HeadTypes, Wires DEF PubackAndPubcompPacketHandle, Read, Handshake, TypeOK
  <2>2. \A n \in acks : n \in acks' \/ (n.type = h.kind /\ n.id = h.id)
    BY <1>6, FewerNodes DEF PubackAndPubcompPacketHandle
  <2>3. UNCHANGED <<accepted, fwd>> BY <1>6 DEF PubackAndPubcompPacketHandle, history
  <2> HIDE DEF h
  <2>4. CASE h.kind = "PUBACK"
    <3>1. Answered(h.id) BY <2>1, <2>4 DEF Answered
    <3>2. QED BY <1>2, <1>3, <1>4, <2>2, <2>3, <3>1
  <2>5. CASE h.kind = "PUBCOMP"
    <3>1. \A n \in acks : n \in acks' \/ n.msg = NoMsg
      BY <2>2, <2>5 DEF Handshake, Lists
    <3>2. QED BY <1>2, <2>3, <3>1
  <2>6. QED BY <2>1, <2>4, <2>5
<1>7. CASE UnrecordAnswered
  <2>1. \A n \in acks : n \in acks' \/ (n.type = yield.kind /\ n.id = yield.id)
    BY <1>7, FewerNodes DEF UnrecordAnswered
  <2>2. UNCHANGED <<accepted, fwd>> BY <1>7 DEF UnrecordAnswered, history
  <2>3. yield.pc = "unrecord" /\ yield.kind \in {"PUBREC", "PUBREL"}
    BY <1>7 DEF UnrecordAnswered, Handshake, Lists
  <2>4. CASE yield.kind = "PUBREC"
    <3>1. Answered(yield.id) BY <2>3, <2>4 DEF Answered
    <3>2. QED BY <1>2, <1>3, <1>4, <2>1, <2>2, <3>1
  <2>5. CASE yield.kind = "PUBREL"
    <3>1. \A n \in acks : n \in acks' \/ n.msg = NoMsg
      BY <2>1, <2>5 DEF Handshake, Lists
    <3>2. QED BY <1>2, <2>2, <3>1
  <2>6. QED BY <2>3, <2>4, <2>5
<1>8. CASE PubrecPacketHandle \/ PubrecPacketNoMemory
  <2>1. acks \subseteq acks' /\ UNCHANGED <<accepted, fwd>>
    BY <1>8, AckNode DEF PubrecPacketHandle, PubrecPacketNoMemory, history
  <2>2. QED BY <1>2, <2>1
<1>9. CASE PublishPacketDeliver \/ PublishPacketNoMemory
  <2>1. acks \subseteq acks' /\ UNCHANGED <<accepted, fwd>>
    BY <1>9, AckNode DEF PublishPacketDeliver, PublishPacketNoMemory
  <2>2. QED BY <1>2, <2>1
<1>10. CASE Broker
  <2>1. UNCHANGED <<acks, accepted>>
    BY <1>10 DEF Broker, BrokerOnPublish, BrokerOnPubrel, BrokerOnLastAck, BrokerOnPubrec,
       BrokerResend, BrokerRead, client, history
  <2>2. \A m \in Out : fwd[m] > 0 => fwd'[m] > 0
    <3>1. CASE BrokerOnPublish
      <4>1. fwd \in [Out -> 0..2] BY DEF Handshake, TypeOK, HistoryTypes
      <4>2. Head(c2b).msg \in Out
        BY <3>1, HeadTypes DEF BrokerOnPublish, BrokerRead, Handshake, TypeOK, Packet
      <4>3. QED BY <3>1, <4>1, <4>2 DEF BrokerOnPublish, More
    <3>2. CASE UNCHANGED fwd BY <3>2
    <3>3. QED BY <1>10, <3>1, <3>2 DEF Broker, BrokerOnPubrel, BrokerOnLastAck, BrokerOnPubrec,
         BrokerResend, history
  <2>3. QED BY <1>2, <2>1, <2>2
<1>11. CASE \/ Reconnect \/ Timeout \/ KeepAliveSlow \/ LinkDown \/ UNCHANGED vars
            \/ (\E m \in In, i \in BrokerIds : BrokerPublish(m, i))
  <2>1. UNCHANGED <<acks, accepted, fwd>>
    BY <1>11 DEF Reconnect, KeepAliveLost, TryDoReconnect, ScanResend, ScanEnd, Timeout,
       ScanTimeout, KeepAliveSlow, LinkDown, BrokerPublish, client, history, vars
  <2>2. QED BY <1>2, <2>1
<1>12. CASE PublishPacketHandle \/ PubrelPacketHandle \/ PublishSend \/ PublishSendFails
            \/ (\E m \in Out : PublishCheck(m)) \/ PublishNoMemory \/ PublishTooMuch \/ PublishRelease
  <2>1. UNCHANGED <<acks, accepted, fwd>>
    BY <1>12 DEF PublishPacketHandle, PubrelPacketHandle, PublishSend, PublishSendFails,
       PublishCheck, PublishTooMuch, PublishNoMemory, PublishRelease, client, history,
       AckListNoMemory
  <2>2. QED BY <1>2, <2>1
<1>13. QED BY <1>5, <1>6, <1>7, <1>8, <1>9, <1>10, <1>11, <1>12 DEF Next, User, Handle

(* A PUBCOMP node joins a PUBREC node of its id only while that is being     *)
(* answered, and a PUBREC node never joins a PUBCOMP node.                   *)
LEMMA ReleaseStep ==
  ASSUME Handshake, NoPublishAfterPubrel, [Next]_vars
  PROVE  NoPublishAfterPubrel'
<1>1. CASE acks' \subseteq acks /\ (yield.pc # "unrecord" \/ UNCHANGED yield)
  BY <1>1 DEF NoPublishAfterPubrel
<1>2. CASE UnrecordAnswered
  <2>1. acks' = acks \ {n \in acks : n.type = yield.kind /\ n.id = yield.id}
    BY <1>2 DEF UnrecordAnswered, AckListUnrecord
  <2>2. QED BY <2>1 DEF NoPublishAfterPubrel
<1>3. CASE PublishRecord
  <2>1. /\ \A n \in acks' : n \in acks \/ (n.type # "PUBCOMP" /\ n.id = user.id)
        /\ user.pc = "sent" /\ UNCHANGED yield
    BY <1>3 DEF PublishRecord, AckListRecord, AckOf
  <2>2. \A n \in acks : n.type = "PUBCOMP" => n.id # user.id
    BY <2>1 DEF Handshake, Lists
  <2>3. QED BY <2>1, <2>2 DEF NoPublishAfterPubrel
<1>4. CASE PubrecPacketHandle \/ PubrecPacketNoMemory
  <2>1. /\ \A n \in acks' : n \in acks \/ (n.type = "PUBCOMP" /\ n.id = Head(b2c).id)
        /\ yield.pc = "loop"
        /\ yield'.pc = "unrecord" /\ yield'.kind = "PUBREC" /\ yield'.id = Head(b2c).id
    BY <1>4, AckNode DEF PubrecPacketHandle, PubrecPacketNoMemory, Read
  <2>2. QED BY <2>1 DEF NoPublishAfterPubrel
<1>5. CASE PublishPacketDeliver \/ PublishPacketNoMemory
  <2>1. /\ \A n \in acks' : n \in acks \/ n.type = "PUBREL"
        /\ yield.pc = "deliver"
    BY <1>5, AckNode DEF PublishPacketDeliver, PublishPacketNoMemory
  <2>2. QED BY <2>1 DEF NoPublishAfterPubrel
<1>6. CASE PubackAndPubcompPacketHandle
  BY <1>1, <1>6, FewerNodes DEF PubackAndPubcompPacketHandle
<1>7. CASE PublishPacketHandle \/ PubrelPacketHandle
  BY <1>1, <1>7 DEF PublishPacketHandle, PubrelPacketHandle, Read, client
<1>8. CASE (\E m \in Out : PublishCheck(m)) \/ PublishSend \/ PublishSendFails
           \/ PublishNoMemory \/ PublishTooMuch \/ PublishRelease
  BY <1>1, <1>8 DEF PublishCheck, PublishSend, PublishSendFails, PublishTooMuch, PublishNoMemory,
     PublishRelease, client, AckListNoMemory
<1>9. CASE Reconnect
  BY <1>1, <1>9 DEF Reconnect, KeepAliveLost, TryDoReconnect, ScanResend, ScanEnd, client
<1>10. CASE \/ Timeout \/ KeepAliveSlow \/ Broker \/ LinkDown \/ UNCHANGED vars
            \/ (\E m \in In, i \in BrokerIds : BrokerPublish(m, i))
  BY <1>1, <1>10 DEF Timeout, ScanTimeout, KeepAliveSlow, LinkDown, BrokerPublish, Broker,
     BrokerOnPublish, BrokerOnPubrel, BrokerOnLastAck, BrokerOnPubrec, BrokerResend,
     BrokerRead, client, vars
<1>11. QED BY <1>2, <1>3, <1>4, <1>5, <1>6, <1>7, <1>8, <1>9, <1>10 DEF Next, User, Handle

LEMMA HandshakeHolds == Spec /\ []NextIdUnused => []Handshake
<1>1. Init => Fresh /\ Agree /\ Lists
  <2> SUFFICES ASSUME Init PROVE Fresh /\ Agree /\ Lists
    OBVIOUS
  <2>1. Fresh BY DEF Init, Fresh, Idle
  <2>2. (\A i, m : ~Carries(i, m)) /\ (\A i : ~Answered(i))
    BY DEF Init, Carries, Answered, Elems, Idle, Loop
  <2>3. Agree BY <2>2 DEF Agree
  <2>4. Lists BY DEF Init, Lists, Idle, Loop
  <2>5. QED BY <2>1, <2>3, <2>4
<1>2. Spec => []TypeOK BY TypeCorrect
<1>3. Init => ListInv BY FS_EmptySet DEF Init, ListInv, NodesIdentified
<1>4. /\ ListInv /\ Fresh /\ Agree /\ Lists
      /\ TypeOK /\ NextIdUnused /\ [Next]_vars
      => (ListInv /\ Fresh /\ Agree /\ Lists)'
  BY ListInvInductive, FreshStep, AgreeStep, ListsStep
<1>5. QED BY <1>1, <1>2, <1>3, <1>4, PTL DEF Spec, Handshake

(* An accepted message stays in a node of the list until the broker has it,  *)
(* for every number of messages, lost connections and interleavings, as long *)
(* as mqtt_publish() is given no packet id that is still in use.             *)
THEOREM AcceptedKept == Spec /\ []NextIdUnused => []AcceptedIsKept
<1>1. Init => AcceptedIsKept BY DEF Init, AcceptedIsKept
<1>2. Handshake /\ AcceptedIsKept /\ [Next]_vars => AcceptedIsKept' BY KeptStep
<1>3. QED BY <1>1, <1>2, HandshakeHolds, PTL DEF Spec

(* Under the same condition a PUBLISH is never resent after the PUBREL of    *)
(* its handshake.                                                            *)
THEOREM NoPublishAfterRelease == Spec /\ []NextIdUnused => []NoPublishAfterPubrel
<1>1. Init => NoPublishAfterPubrel BY DEF Init, NoPublishAfterPubrel
<1>2. Handshake /\ NoPublishAfterPubrel /\ [Next]_vars => NoPublishAfterPubrel' BY ReleaseStep
<1>3. QED BY <1>1, <1>2, HandshakeHolds, PTL DEF Spec
-----------------------------------------------------------------------------
(* The hypothesis itself: it holds as long as mqtt_publish() has been called *)
(* less often than there are packet ids.                                     *)

\* Enough packet ids for all messages, so that none comes round.
EnoughIds == IsFiniteSet(Out) /\ Cardinality(Out) < MaxPacketId

\* An exchange with id j is under way or has left something behind.
InUse(j) == ~Unused(j) \/ (user.pc = "sent" /\ user.id = j)

\* Ids are taken one after the other, one for each message.
Ascending ==
  /\ packetId <= 1 + Cardinality(offered \cap Out)
  /\ \A j \in PacketId : InUse(j) => j <= packetId

(* As long as messages are left to publish, the next packet id is a new one. *)
LEMMA NextIsNew ==
  ASSUME EnoughIds, TypeOK, Fresh, Ascending, user.pc = "checked"
  PROVE  /\ GetNextPacketId = packetId + 1
         /\ Cardinality((offered \cup {user.msg}) \cap Out) = Cardinality(offered \cap Out) + 1
<1> DEFINE done == offered \cap Out
<1>1. user.msg \in Out /\ user.msg \notin done
  BY DEF TypeOK, ThreadTypes, Fresh
<1>2. IsFiniteSet(done) /\ IsFiniteSet(Out)
  BY FS_Subset DEF EnoughIds
<1>3. Cardinality(done \cup {user.msg}) = Cardinality(done) + 1
  BY <1>1, <1>2, FS_AddElement
<1>4. Cardinality(done \cup {user.msg}) <= Cardinality(Out)
  <2>1. done \cup {user.msg} \subseteq Out BY <1>1
  <2>2. QED BY <2>1, <1>2, FS_Subset
<1>5. (offered \cup {user.msg}) \cap Out = done \cup {user.msg} BY <1>1
<1>6. Cardinality(done) \in Nat /\ Cardinality(Out) \in Nat BY <1>2, FS_CardinalityType
<1>7. packetId <= 1 + Cardinality(done) BY DEF Ascending
<1>8. Cardinality(Out) < MaxPacketId /\ packetId \in Nat /\ MaxPacketId \in Nat
  BY SessionAssumption DEF EnoughIds, TypeOK, ThreadTypes, PacketId
<1> HIDE DEF done
<1>9. packetId # MaxPacketId BY <1>3, <1>4, <1>6, <1>7, <1>8
<1>10. GetNextPacketId = packetId + 1 BY <1>9 DEF GetNextPacketId
<1>11. QED BY <1>3, <1>5, <1>10 DEF done

LEMMA AscendingUnused ==
  ASSUME EnoughIds, TypeOK, Fresh, Ascending PROVE NextIdUnused
<1>1. ASSUME user.pc = "checked" PROVE Unused(GetNextPacketId)
  <2>1. GetNextPacketId = packetId + 1 /\ GetNextPacketId \in PacketId
    BY <1>1, NextIsNew, NextIdType, SessionAssumption DEF TypeOK
  <2>2. packetId \in Nat BY SessionAssumption DEF TypeOK, ThreadTypes, PacketId
  <2>3. ~InUse(packetId + 1)
    BY <2>1, <2>2 DEF Ascending
  <2>4. QED BY <2>1, <2>3 DEF InUse
<1>2. QED BY <1>1 DEF NextIdUnused

(* The user thread brings one id into use, the one it has just taken. *)
LEMMA UseUser ==
  ASSUME TypeOK, User, NEW j \in PacketId, InUse(j)'
  PROVE  InUse(j) \/ (PublishSend /\ j = GetNextPacketId)
<1>1. CASE PublishSend
  <2> DEFINE k == GetNextPacketId
             q == Pkt("PUBLISH", k, user.msg)
  <2>1. k \in PacketId BY NextIdType, SessionAssumption DEF TypeOK
  <2> HIDE DEF k
  <2>2. /\ user.pc = "checked" /\ user' = [user EXCEPT !.pc = "sent", !.id = k]
        /\ Send(q) /\ UNCHANGED <<acks, b2c, bRec, yield>>
    BY <1>1 DEF PublishSend, k, broker
  <2>3. q \in Packet(Out, PacketId) /\ q.id = k
    BY <2>1, <2>2 DEF TypeOK, ThreadTypes, Pkt, Packet, Kind
  <2>4. Elems(c2b') \subseteq Elems(c2b) \cup {q} BY <2>2, <2>3, Wires DEF TypeOK
  <2>5. user'.id = k BY <2>2 DEF TypeOK, ThreadTypes
  <2> HIDE DEF q
  <2>6. InUse(j) \/ j = k BY <2>2, <2>3, <2>4, <2>5 DEF InUse, Unused
  <2>7. QED BY <1>1, <2>6 DEF k
<1>2. CASE PublishSendFails
  BY <1>2 DEF PublishSendFails, Idle, net, broker, InUse, Unused
<1>3. CASE PublishRecord
  <2>1. /\ user.pc = "sent" /\ user' = Idle /\ UNCHANGED <<c2b, b2c, bRec, yield>>
        /\ \A n \in acks' : n \in acks \/ n.id = user.id
    BY <1>3 DEF PublishRecord, AckListRecord, net, broker
  <2>2. QED BY <2>1 DEF InUse, Unused, Idle
<1>4. CASE (\E m \in Out : PublishCheck(m)) \/ PublishNoMemory \/ PublishTooMuch
  <2>1. user'.pc # "sent" /\ UNCHANGED <<acks, c2b, b2c, bRec, yield>>
    BY <1>4 DEF PublishCheck, PublishTooMuch, PublishNoMemory, client, net, broker, TypeOK,
       ThreadTypes, AckListNoMemory
  <2>2. QED BY <2>1 DEF InUse, Unused
<1>5. CASE PublishRelease
  <2>1. Elems(c2b') = {} /\ Elems(b2c') = {} BY <1>5, Wires DEF PublishRelease, TypeOK
  <2>2. user' = Idle /\ UNCHANGED <<acks, bRec, yield>> BY <1>5 DEF PublishRelease
  <2>3. QED BY <2>1, <2>2 DEF InUse, Unused, Idle
<1>6. QED BY <1>1, <1>2, <1>3, <1>4, <1>5 DEF User

(* Sending an ack, or what a node keeps, adds that one packet. *)
LEMMA SendsOne ==
  ASSUME TypeOK, NEW k \in AckType, NEW i \in PacketId, Send(Pkt(k, i, NoMsg)),
         NEW p \in Elems(c2b')
  PROVE  p \in Elems(c2b) \/ (p.kind = k /\ p.id = i)
<1>1. Pkt(k, i, NoMsg) \in Packet(Out, PacketId) BY AckPackets
<1>2. Elems(c2b') \subseteq Elems(c2b) \cup {Pkt(k, i, NoMsg)}
  BY <1>1, Wires DEF TypeOK
<1>3. QED BY <1>2 DEF Pkt

LEMMA ResendsOne ==
  ASSUME TypeOK, NEW n \in acks, Send(Payload(n)), NEW p \in Elems(c2b')
  PROVE  \/ p \in Elems(c2b)
         \/ p.id = n.id /\ (n.type = "PUBREL" => p.kind = "PUBREC")
<1>1. n \in Node BY DEF TypeOK, ListTypes
<1>2. Elems(c2b') \subseteq Elems(c2b) \cup {Payload(n)}
  BY <1>1, PayloadType, Wires DEF TypeOK
<1>3. Payload(n).id = n.id /\ (n.type = "PUBREL" => Payload(n).kind = "PUBREC")
  BY <1>1 DEF Payload, Pkt, Node, AckType
<1>4. QED BY <1>2, <1>3

(* The yield thread uses only ids that are in use. *)
LEMMA UseYield ==
  ASSUME TypeOK, Lists, Handle \/ Reconnect \/ Timeout, NEW j \in PacketId, InUse(j)'
  PROVE  InUse(j)
<1> DEFINE h == Head(b2c)
<1>1. ASSUME NEW kinds, Read(kinds)
      PROVE  /\ h \in Elems(b2c) /\ Elems(b2c') \subseteq Elems(b2c)
             /\ h.id \in PacketId /\ h.kind \in kinds /\ yield.pc = "loop"
  BY <1>1, HeadTypes, Wires DEF Read, TypeOK, Packet
<1>2. CASE PubackAndPubcompPacketHandle
  <2>1. acks' \subseteq acks /\ Elems(b2c') \subseteq Elems(b2c)
        /\ UNCHANGED <<c2b, bRec, yield, user>>
    BY <1>1, <1>2, FewerNodes DEF PubackAndPubcompPacketHandle, broker
  <2>2. QED BY <2>1 DEF InUse, Unused
<1>3. CASE PublishPacketHandle
  <2>1. /\ Elems(b2c') \subseteq Elems(b2c) /\ h.id \in PacketId
        /\ Send(Pkt("PUBACK", h.id, NoMsg)) \/ Send(Pkt("PUBREC", h.id, NoMsg))
        /\ yield'.pc # "unrecord" /\ UNCHANGED <<acks, bRec, user>>
    BY <1>1, <1>3 DEF PublishPacketHandle, client, broker
  <2> HIDE DEF h
  <2>2. \A p \in Elems(c2b') : p \in Elems(c2b) \/ p.kind \in {"PUBACK", "PUBREC"}
    BY <2>1, SendsOne DEF AckType
  <2>3. QED BY <2>1, <2>2 DEF InUse, Unused
<1>4. CASE PublishPacketDeliver \/ PublishPacketNoMemory
  <2>1. \A n \in acks' : n \in acks \/ n.type = "PUBREL"
    BY <1>4, AckNode DEF PublishPacketDeliver, PublishPacketNoMemory
  <2>2. yield'.pc # "unrecord" /\ UNCHANGED <<c2b, b2c, bRec, user>>
    BY <1>4 DEF PublishPacketDeliver, PublishPacketNoMemory, Loop, net, broker
  <2>3. QED BY <2>1, <2>2 DEF InUse, Unused
<1>5. CASE PubrecPacketHandle \/ PubrecPacketNoMemory
  <2>1. /\ h \in Elems(b2c) /\ h.kind = "PUBREC" /\ Elems(b2c') \subseteq Elems(b2c)
        /\ h.id \in PacketId /\ UNCHANGED <<bRec, user>> /\ yield'.id = h.id
        /\ Send(Pkt("PUBREL", h.id, NoMsg)) \/ UNCHANGED c2b
    BY <1>1, <1>5 DEF PubrecPacketHandle, PubrecPacketNoMemory, broker
  <2>2. \A n \in acks' : n \in acks \/ n.id = h.id
    BY <1>5, AckNode DEF PubrecPacketHandle, PubrecPacketNoMemory
  <2> HIDE DEF h
  <2>3. \A p \in Elems(c2b') : p \in Elems(c2b) \/ p.id = h.id
    BY <2>1, SendsOne DEF AckType
  <2>4. QED BY <2>1, <2>2, <2>3 DEF InUse, Unused
<1>6. CASE PubrelPacketHandle
  <2>1. /\ Elems(b2c') \subseteq Elems(b2c) /\ h.id \in PacketId
        /\ UNCHANGED <<acks, bRec, user>> /\ yield'.kind = "PUBREL"
        /\ Send(Pkt("PUBCOMP", h.id, NoMsg))
    BY <1>1, <1>6 DEF PubrelPacketHandle, client, broker
  <2> HIDE DEF h
  <2>2. \A p \in Elems(c2b') : p \in Elems(c2b) \/ p.kind = "PUBCOMP"
    BY <2>1, SendsOne DEF AckType
  <2>3. QED BY <2>1, <2>2 DEF InUse, Unused
<1>7. CASE UnrecordAnswered
  <2>1. acks' \subseteq acks /\ yield'.pc # "unrecord" /\ UNCHANGED <<c2b, b2c, bRec, user>>
    BY <1>7, FewerNodes DEF UnrecordAnswered, Loop, net, broker
  <2>2. QED BY <2>1 DEF InUse, Unused
<1>8. CASE KeepAliveLost \/ ScanEnd
  <2>1. /\ UNCHANGED <<acks, c2b, b2c, bRec, user>>
        /\ yield' = yield \/ yield'.pc # "unrecord"
    BY <1>8 DEF KeepAliveLost, ScanEnd, Loop, client, net, broker
  <2>2. QED BY <2>1 DEF InUse, Unused
<1>9. CASE TryDoReconnect
  <2>1. /\ Elems(c2b') = {} /\ Elems(b2c') = {} /\ bRec' \subseteq bRec
        /\ yield'.pc = "scan" /\ UNCHANGED <<acks, user>>
    BY <1>9 DEF TryDoReconnect, Elems, Loop
  <2>2. QED BY <2>1 DEF InUse, Unused
<1>10. ASSUME NEW n \in acks, ScanTimeout(n) \/ ScanResend(n) PROVE InUse(j)
  <2>1. Send(Payload(n)) /\ UNCHANGED <<acks, b2c, bRec, user, yield>>
    BY <1>10 DEF ScanTimeout, ScanResend, client, broker
  <2>2. \A p \in Elems(c2b') : \/ p \in Elems(c2b)
                               \/ p.id = n.id /\ (n.type = "PUBREL" => p.kind = "PUBREC")
    BY <2>1, ResendsOne
  <2>3. QED BY <2>1, <2>2 DEF InUse, Unused
<1>11. QED BY <1>2, <1>3, <1>4, <1>5, <1>6, <1>7, <1>8, <1>9, <1>10
       DEF Handle, Reconnect, Timeout, Lists

(* The broker answers under the id it was sent, and the network only loses. *)
LEMMA UseBroker ==
  ASSUME TypeOK, NEW j \in PacketId, InUse(j)',
         \/ Broker \/ KeepAliveSlow \/ LinkDown
         \/ \E m \in In, i \in BrokerIds : BrokerPublish(m, i)
  PROVE  InUse(j)
<1> DEFINE h == Head(c2b)
<1>1. ASSUME NEW k, BrokerRead(k)
      PROVE  /\ h \in Elems(c2b) /\ h.kind = k /\ h.id \in PacketId
             /\ Elems(c2b') \subseteq Elems(c2b) /\ UNCHANGED <<acks, user, yield>>
  BY <1>1, HeadTypes, Wires DEF BrokerRead, TypeOK, Packet, client
<1>2. ASSUME NEW k \in AckType, NEW i \in PacketId, Reply(Pkt(k, i, NoMsg)),
             NEW p \in Elems(b2c')
      PROVE  p \in Elems(b2c) \/ (p.kind = k /\ p.id = i)
  <2>1. Pkt(k, i, NoMsg) \in Packet(In, BrokerIds) BY AckPackets
  <2>2. Elems(b2c') = Elems(b2c) \cup {Pkt(k, i, NoMsg)} BY <1>2, <2>1, Wires DEF TypeOK
  <2>3. QED BY <1>2, <2>2 DEF Pkt
<1>3. ASSUME NEW i \in BrokerIds, NEW m \in In, Reply(Pkt("PUBLISH", i, m)),
             NEW p \in Elems(b2c')
      PROVE  p \in Elems(b2c) \/ p.kind = "PUBLISH"
  <2>1. Pkt("PUBLISH", i, m) \in Packet(In, BrokerIds)
    BY SessionAssumption DEF Pkt, Packet, Kind
  <2>2. Elems(b2c') = Elems(b2c) \cup {Pkt("PUBLISH", i, m)} BY <1>3, <2>1, Wires DEF TypeOK
  <2>3. QED BY <1>3, <2>2 DEF Pkt
<1> HIDE DEF h
<1>4. CASE BrokerOnPublish
  <2>1. /\ h \in Elems(c2b) /\ h.kind = "PUBLISH" /\ h.id \in PacketId
        /\ Elems(c2b') \subseteq Elems(c2b) /\ UNCHANGED <<acks, user, yield>>
    BY <1>1, <1>4 DEF BrokerOnPublish
  <2>2. /\ Reply(Pkt("PUBACK", h.id, NoMsg)) \/ Reply(Pkt("PUBREC", h.id, NoMsg))
        /\ bRec' \subseteq bRec \cup {h.id}
    BY <1>4 DEF BrokerOnPublish, h
  <2>3. \A p \in Elems(b2c') : p \in Elems(b2c) \/ p.id = h.id
    BY <1>2, <2>1, <2>2 DEF AckType
  <2>4. QED BY <2>1, <2>2, <2>3 DEF InUse, Unused
<1>5. CASE BrokerOnPubrel
  <2>1. /\ h \in Elems(c2b) /\ h.kind = "PUBREL" /\ h.id \in PacketId
        /\ Elems(c2b') \subseteq Elems(c2b) /\ UNCHANGED <<acks, user, yield>>
    BY <1>1, <1>5 DEF BrokerOnPubrel
  <2>2. Reply(Pkt("PUBCOMP", h.id, NoMsg)) /\ bRec' \subseteq bRec
    BY <1>5 DEF BrokerOnPubrel, h
  <2>3. \A p \in Elems(b2c') : p \in Elems(b2c) \/ p.id = h.id
    BY <1>2, <2>1, <2>2 DEF AckType
  <2>4. QED BY <2>1, <2>2, <2>3 DEF InUse, Unused
<1>6. CASE BrokerOnLastAck
  <2>1. Elems(c2b') \subseteq Elems(c2b) /\ UNCHANGED <<acks, user, yield>>
    BY <1>1, <1>6 DEF BrokerOnLastAck
  <2>2. UNCHANGED <<b2c, bRec>> BY <1>6 DEF BrokerOnLastAck
  <2>3. QED BY <2>1, <2>2 DEF InUse, Unused
<1>7. CASE BrokerOnPubrec
  <2>1. /\ h.id \in PacketId /\ Elems(c2b') \subseteq Elems(c2b)
        /\ UNCHANGED <<acks, user, yield>>
    BY <1>1, <1>7 DEF BrokerOnPubrec
  <2>2. (Reply(Pkt("PUBREL", h.id, NoMsg)) \/ UNCHANGED b2c) /\ bRec' = bRec
    BY <1>7 DEF BrokerOnPubrec, h
  <2>3. \A p \in Elems(b2c') : p \in Elems(b2c) \/ p.kind = "PUBREL"
    BY <1>2, <2>1, <2>2 DEF AckType
  <2>4. QED BY <2>1, <2>2, <2>3 DEF InUse, Unused
<1>8. ASSUME NEW i \in BrokerIds, BrokerResend(i) PROVE InUse(j)
  <2>1. UNCHANGED <<acks, c2b, user, yield, bRec>> BY <1>8 DEF BrokerResend, client
  <2>2. i \in PacketId /\ (bOut[i].st # "free" => bOut[i].msg \in In)
    BY SessionAssumption DEF TypeOK, BrokerTypes
  <2>3. \A p \in Elems(b2c') : p \in Elems(b2c) \/ p.kind \in {"PUBREL", "PUBLISH"}
    <3>1. CASE UNCHANGED b2c BY <3>1
    <3>2. CASE bOut[i].st # "free" /\ Reply(BrokerPacket(i))
      <4>1. BrokerPacket(i) = Pkt("PUBREL", i, NoMsg)
            \/ BrokerPacket(i) = Pkt("PUBLISH", i, bOut[i].msg)
        BY DEF BrokerPacket
      <4>2. QED BY <1>2, <1>3, <2>2, <3>2, <4>1 DEF AckType
    <3>3. QED BY <1>8, <3>1, <3>2 DEF BrokerResend
  <2>4. QED BY <2>1, <2>3 DEF InUse, Unused
<1>9. ASSUME NEW m \in In, NEW i \in BrokerIds, BrokerPublish(m, i) PROVE InUse(j)
  <2>1. UNCHANGED <<acks, c2b, user, yield, bRec>> BY <1>9 DEF BrokerPublish, client
  <2>2. \A p \in Elems(b2c') : p \in Elems(b2c) \/ p.kind = "PUBLISH"
    BY <1>3, <1>9 DEF BrokerPublish
  <2>3. QED BY <2>1, <2>2 DEF InUse, Unused
<1>10. CASE KeepAliveSlow \/ LinkDown
  <2>1. Elems(c2b') = {} /\ Elems(b2c') = {}
    BY <1>10, Wires DEF KeepAliveSlow, LinkDown, TypeOK
  <2>2. UNCHANGED <<acks, user, yield, bRec>>
    BY <1>10 DEF KeepAliveSlow, LinkDown, client
  <2>3. QED BY <2>1, <2>2 DEF InUse, Unused
<1>11. QED BY <1>4, <1>5, <1>6, <1>7, <1>8, <1>9, <1>10 DEF Broker

LEMMA AscendingStep ==
  ASSUME EnoughIds, TypeOK, Lists, Fresh, Ascending, [Next]_vars
  PROVE  Ascending'
<1>1. packetId \in Nat /\ \A j \in PacketId : j \in Nat
  BY SessionAssumption DEF TypeOK, ThreadTypes, PacketId
<1>2. Cardinality(offered \cap Out) \in Nat
  BY FS_Subset, FS_CardinalityType DEF EnoughIds
<1>3. CASE PublishSend \/ PublishSendFails
  <2>1. /\ user.pc = "checked" /\ packetId' = GetNextPacketId
        /\ offered' = offered \cup {user.msg}
    BY <1>3 DEF PublishSend, PublishSendFails
  <2>2. /\ GetNextPacketId = packetId + 1
        /\ Cardinality(offered' \cap Out) = Cardinality(offered \cap Out) + 1
    BY <2>1, NextIsNew
  <2>3. packetId' <= 1 + Cardinality(offered' \cap Out)
    BY <1>1, <1>2, <2>1, <2>2 DEF Ascending
  <2>4. \A j \in PacketId : InUse(j)' => InUse(j) \/ j = GetNextPacketId
    BY <1>3, UseUser DEF User
  <2>5. \A j \in PacketId : InUse(j)' => j <= packetId'
    BY <1>1, <2>1, <2>2, <2>4 DEF Ascending
  <2>6. QED BY <2>3, <2>5 DEF Ascending
<1>4. ASSUME \A j \in PacketId : InUse(j)' => InUse(j),
             packetId' = packetId, offered' \cap Out = offered \cap Out
      PROVE  Ascending'
  BY <1>4 DEF Ascending
<1>5. CASE (\E m \in Out : PublishCheck(m)) \/ PublishRecord \/ PublishNoMemory \/ PublishTooMuch \/ PublishRelease
  <2>1. ~PublishSend /\ UNCHANGED <<packetId, offered>>
    BY <1>5 DEF PublishCheck, PublishRecord, PublishTooMuch, PublishNoMemory, PublishRelease,
       PublishSend, client, history
  <2>2. \A j \in PacketId : InUse(j)' => InUse(j) BY <1>5, <2>1, UseUser DEF User
  <2>3. QED BY <1>4, <2>1, <2>2
<1>6. CASE Handle \/ Reconnect \/ Timeout
  <2>1. UNCHANGED <<packetId, offered>>
    BY <1>6 DEF Handle, PubackAndPubcompPacketHandle, PublishPacketHandle, PublishPacketDeliver,
       PublishPacketNoMemory, PubrecPacketHandle, PubrecPacketNoMemory, PubrelPacketHandle,
       UnrecordAnswered, Reconnect, KeepAliveLost, TryDoReconnect, ScanResend, ScanEnd, Timeout,
       ScanTimeout, client, history
  <2>2. \A j \in PacketId : InUse(j)' => InUse(j) BY <1>6, UseYield
  <2>3. QED BY <1>4, <2>1, <2>2
<1>7. CASE \/ Broker \/ KeepAliveSlow \/ LinkDown
           \/ \E m \in In, i \in BrokerIds : BrokerPublish(m, i)
  <2>1. packetId' = packetId /\ offered' \cap Out = offered \cap Out
    <3>1. CASE \E m \in In, i \in BrokerIds : BrokerPublish(m, i)
      BY <3>1, SessionAssumption DEF BrokerPublish, client
    <3>2. CASE Broker \/ KeepAliveSlow \/ LinkDown
      BY <3>2 DEF KeepAliveSlow, LinkDown, Broker, BrokerOnPublish, BrokerOnPubrel,
         BrokerOnLastAck, BrokerOnPubrec, BrokerResend, BrokerRead, client, history
    <3>3. QED BY <1>7, <3>1, <3>2
  <2>2. \A j \in PacketId : InUse(j)' => InUse(j) BY <1>7, UseBroker
  <2>3. QED BY <1>4, <2>1, <2>2
<1>8. CASE UNCHANGED vars
  <2>1. UNCHANGED <<packetId, offered, acks, c2b, b2c, bRec, yield, user>>
    BY <1>8 DEF vars, client, net, broker, history
  <2>2. QED BY <1>4, <2>1 DEF InUse, Unused
<1>9. QED BY <1>3, <1>5, <1>6, <1>7, <1>8 DEF Next, User

(* No packet id comes round to mqtt_publish() while there are more ids than  *)
(* messages to publish: the hypothesis of the theorems above can be met.     *)
THEOREM EnoughIdsUnused == EnoughIds => (Spec => []NextIdUnused)
<1> SUFFICES ASSUME EnoughIds PROVE Spec => []NextIdUnused
  OBVIOUS
<1> DEFINE I == Fresh /\ Lists /\ Ascending
<1>1. Init => I
  <2> SUFFICES ASSUME Init PROVE I
    OBVIOUS
  <2>1. offered \cap Out = {} /\ packetId = 1 BY DEF Init
  <2>2. packetId <= 1 + Cardinality(offered \cap Out)
    <3>1. Cardinality(offered \cap Out) = 0 BY <2>1, FS_EmptySet
    <3>2. QED BY <2>1, <3>1
  <2>3. \A j : ~InUse(j) BY DEF Init, InUse, Unused, Elems, Idle, Loop
  <2>4. Ascending BY <2>2, <2>3 DEF Ascending
  <2>5. QED BY <2>4 DEF Init, Fresh, Lists, Idle, Loop
<1>2. I /\ TypeOK /\ [Next]_vars => I'
  BY AscendingUnused, FreshStep, ListsStep, AscendingStep
<1>3. I /\ TypeOK => NextIdUnused BY AscendingUnused
<1>4. QED BY <1>1, <1>2, <1>3, TypeCorrect, PTL DEF Spec
-----------------------------------------------------------------------------
(* The handshakes implement MqttDelivery.  What decides whether a packet is  *)
(* new or repeated is the order of the packets in flight, so the invariant   *)
(* speaks of positions in the two directions of the connection.              *)

\* The packets of one kind and id.
Of(k, i) == {p \in Packet(Out \cup In, PacketId) : p.kind = k /\ p.id = i}

\* s carries no packet of A; at most one; those of A before those of B.
Lacks(s, A) == \A a \in DOMAIN s : s[a] \notin A
AtMostOne(s, A) == \A a, b \in DOMAIN s : s[a] \in A /\ s[b] \in A => a = b
Precede(s, A, B) == \A a, b \in DOMAIN s : s[a] \in A /\ s[b] \in B => a < b

(* Reading the head of a list. *)
LEMMA TailOrder ==
  ASSUME NEW S, NEW s \in Seq(S), s # <<>>, NEW A, NEW B
  PROVE  /\ Lacks(s, A) => Lacks(Tail(s), A)
         /\ Lacks(Tail(s), A) => Lacks(s, A) \/ Head(s) \in A
         /\ AtMostOne(s, A) => AtMostOne(Tail(s), A)
         /\ AtMostOne(s, A) /\ Head(s) \in A => Lacks(Tail(s), A)
         /\ Precede(s, A, B) => Precede(Tail(s), A, B)
         /\ Precede(s, A, B) /\ Head(s) \in B => Lacks(s, A)
         /\ Head(s) \in A => ~Lacks(s, A)
<1>1. /\ Len(s) \in Nat \ {0} /\ DOMAIN s = 1..Len(s) /\ Head(s) = s[1]
      /\ DOMAIN Tail(s) = 1..(Len(s) - 1)
      /\ \A k \in 1..(Len(s) - 1) : Tail(s)[k] = s[k + 1] /\ k + 1 \in DOMAIN s
  OBVIOUS
<1> DEFINE n == Len(s)
           t == Tail(s)
<1>2. n \in Nat \ {0} /\ DOMAIN s = 1..n /\ Head(s) = s[1] /\ DOMAIN t = 1..(n - 1)
      /\ \A k \in 1..(n - 1) : t[k] = s[k + 1] /\ k + 1 \in 1..n
  BY <1>1
<1>3. \A k \in 1..n : k = 1 \/ (k - 1 \in 1..(n - 1) /\ (k - 1) + 1 = k)
  BY <1>2
<1>4. 1 \in 1..n BY <1>2
<1> HIDE DEF n, t
<1>5. Lacks(s, A) => Lacks(t, A)
  BY <1>2 DEF Lacks
<1>6. Lacks(t, A) => Lacks(s, A) \/ Head(s) \in A
  <2>1. ASSUME Lacks(t, A), Head(s) \notin A, NEW k \in 1..n PROVE s[k] \notin A
    <3>1. CASE k = 1 BY <1>2, <2>1, <3>1
    <3>2. CASE k # 1
      <4>1. k - 1 \in 1..(n - 1) /\ t[k - 1] = s[k] BY <1>2, <1>3, <3>2
      <4>2. QED BY <1>2, <2>1, <4>1 DEF Lacks
    <3>3. QED BY <3>1, <3>2
  <2>2. QED BY <1>2, <2>1 DEF Lacks
<1>7. AtMostOne(s, A) => AtMostOne(t, A)
  <2>1. ASSUME AtMostOne(s, A), NEW a \in 1..(n - 1), NEW b \in 1..(n - 1), t[a] \in A, t[b] \in A
        PROVE  a = b
    <3>1. a + 1 = b + 1 BY <1>2, <2>1 DEF AtMostOne
    <3>2. QED BY <2>1, <3>1, <1>2
  <2>2. QED BY <1>2, <2>1 DEF AtMostOne
<1>8. AtMostOne(s, A) /\ Head(s) \in A => Lacks(t, A)
  <2>1. ASSUME AtMostOne(s, A), Head(s) \in A, NEW a \in 1..(n - 1) PROVE t[a] \notin A
    <3>1. a + 1 # 1 /\ a + 1 \in DOMAIN s BY <1>2
    <3>2. QED BY <1>2, <1>4, <2>1, <3>1 DEF AtMostOne
  <2>2. QED BY <1>2, <2>1 DEF Lacks
<1>9. Precede(s, A, B) => Precede(t, A, B)
  <2>1. ASSUME Precede(s, A, B), NEW a \in 1..(n - 1), NEW b \in 1..(n - 1), t[a] \in A, t[b] \in B
        PROVE  a < b
    <3>1. a + 1 < b + 1 BY <1>2, <2>1 DEF Precede
    <3>2. QED BY <2>1, <3>1, <1>2
  <2>2. QED BY <1>2, <2>1 DEF Precede
<1>10. Precede(s, A, B) /\ Head(s) \in B => Lacks(s, A)
  <2>1. ASSUME Precede(s, A, B), Head(s) \in B, NEW a \in 1..n PROVE s[a] \notin A
    <3>1. ~(a < 1) BY <1>2
    <3>2. QED BY <1>2, <1>4, <2>1, <3>1 DEF Precede
  <2>2. QED BY <1>2, <2>1 DEF Lacks
<1>11. Head(s) \in A => ~Lacks(s, A)
  BY <1>2, <1>4 DEF Lacks
<1>12. QED BY <1>5, <1>6, <1>7, <1>8, <1>9, <1>10, <1>11 DEF t

(* Writing behind the last packet of a list. *)
LEMMA AppendOrder ==
  ASSUME NEW S, NEW s \in Seq(S), NEW x \in S, NEW A, NEW B
  PROVE  /\ Lacks(Append(s, x), A) <=> Lacks(s, A) /\ x \notin A
         /\ AtMostOne(s, A) /\ (x \notin A \/ Lacks(s, A)) => AtMostOne(Append(s, x), A)
         /\ Precede(s, A, B) /\ (x \notin A \/ (Lacks(s, B) /\ x \notin B))
              => Precede(Append(s, x), A, B)
<1> DEFINE n == Len(s)
           t == Append(s, x)
<1>1. /\ n \in Nat /\ DOMAIN s = 1..n /\ DOMAIN t = 1..(n + 1)
      /\ \A k \in 1..n : t[k] = s[k] /\ k \in 1..(n + 1) /\ k < n + 1
      /\ t[n + 1] = x /\ n + 1 \in 1..(n + 1)
      /\ \A k \in 1..(n + 1) : k \in 1..n \/ k = n + 1
  OBVIOUS
<1> HIDE DEF n, t
<1>2. Lacks(t, A) <=> Lacks(s, A) /\ x \notin A
  BY <1>1 DEF Lacks
<1>3. AtMostOne(s, A) /\ (x \notin A \/ Lacks(s, A)) => AtMostOne(t, A)
  BY <1>1 DEF AtMostOne, Lacks
<1>4. Precede(s, A, B) /\ (x \notin A \/ (Lacks(s, B) /\ x \notin B)) => Precede(t, A, B)
  BY <1>1 DEF Precede, Lacks
<1>5. QED BY <1>2, <1>3, <1>4 DEF t

LEMMA NoOrder ==
  ASSUME NEW s, NEW A, NEW B, Lacks(s, A) \/ Lacks(s, B)
  PROVE  Precede(s, A, B) /\ (Lacks(s, A) => AtMostOne(s, A))
BY DEF Precede, Lacks, AtMostOne

LEMMA EmptyOrder ==
  ASSUME NEW A, NEW B
  PROVE  Lacks(<<>>, A) /\ AtMostOne(<<>>, A) /\ Precede(<<>>, A, B)
BY DEF Precede, Lacks, AtMostOne
-----------------------------------------------------------------------------
(* What has been offered, accepted and forwarded.                            *)
Told ==
  /\ accepted \subseteq offered
  /\ user.pc = "sent" => user.msg \in offered /\ user.msg \notin accepted
  /\ \A i \in PacketId, m \in Out : Carries(i, m) => m \in offered
  /\ \A i, j \in PacketId, m \in Out : Carries(i, m) /\ Carries(j, m) => i = j
  /\ \A m \in Out : fwd[m] > 0 => m \in offered

(* What is offered stays offered, and only PublishRecord accepts.            *)
LEMMA OfferSteps ==
  ASSUME TypeOK, [Next]_vars
  PROVE  /\ offered \subseteq offered'
         /\ accepted' = accepted \/ (PublishRecord /\ accepted' = accepted \cup {user.msg})
         /\ user'.pc = "sent" => user' = user \/ PublishSend
<1>1. CASE \E m \in Out : PublishCheck(m)
  BY <1>1 DEF PublishCheck, history
<1>2. CASE PublishSend
  BY <1>2 DEF PublishSend
<1>3. CASE PublishSendFails \/ PublishNoMemory \/ PublishTooMuch \/ PublishRelease
  <2>1. user'.pc # "sent"
    BY <1>3 DEF PublishSendFails, PublishTooMuch, PublishNoMemory, PublishRelease, Idle, TypeOK,
       ThreadTypes
  <2>2. QED
    BY <1>3, <2>1 DEF PublishSendFails, PublishTooMuch, PublishNoMemory, PublishRelease, history
<1>4. CASE PublishRecord
  BY <1>4 DEF PublishRecord, Idle
<1>5. CASE Handle \/ Reconnect \/ Timeout
  BY <1>5 DEF Handle, PubackAndPubcompPacketHandle, PublishPacketHandle, PublishPacketDeliver,
     PublishPacketNoMemory, PubrecPacketHandle, PubrecPacketNoMemory, PubrelPacketHandle,
     UnrecordAnswered, Reconnect, KeepAliveLost, TryDoReconnect, ScanResend, ScanEnd, Timeout,
     ScanTimeout, history
<1>6. CASE Broker \/ KeepAliveSlow \/ LinkDown
  BY <1>6 DEF KeepAliveSlow, LinkDown, Broker, BrokerOnPublish, BrokerOnPubrel,
     BrokerOnLastAck, BrokerOnPubrec, BrokerResend, BrokerRead, history
<1>7. CASE \E m \in In, i \in BrokerIds : BrokerPublish(m, i)
  BY <1>7 DEF BrokerPublish
<1>8. CASE UNCHANGED vars
  BY <1>8 DEF vars, history
<1>9. QED BY <1>1, <1>2, <1>3, <1>4, <1>5, <1>6, <1>7, <1>8 DEF Next, User

(* The broker takes a PUBLISH that travels under its id off the wire.        *)
LEMMA PublishRead ==
  ASSUME TypeOK, BrokerOnPublish
  PROVE  /\ c2b # <<>> /\ Head(c2b) \in Elems(c2b) /\ Head(c2b) \in Packet(Out, PacketId)
         /\ Head(c2b).kind = "PUBLISH" /\ Head(c2b).id \in PacketId /\ Head(c2b).msg \in Out
         /\ Carries(Head(c2b).id, Head(c2b).msg)
         /\ \A i \in PacketId, m \in Out : Carries(i, m)' => Carries(i, m)
<1>1. /\ c2b # <<>> /\ Head(c2b).kind = "PUBLISH" /\ c2b' = Tail(c2b)
      /\ UNCHANGED <<acks, user>>
  BY DEF BrokerOnPublish, BrokerRead, client
<1>2. /\ Head(c2b) \in Packet(Out, PacketId) /\ Head(c2b) \in Elems(c2b)
      /\ Elems(c2b') \subseteq Elems(c2b)
  BY <1>1, HeadTypes, Wires DEF TypeOK
<1>3. Head(c2b).id \in PacketId /\ Head(c2b).msg \in Out
  BY <1>1, <1>2 DEF Packet
<1>4. Carries(Head(c2b).id, Head(c2b).msg)
  BY <1>1, <1>2 DEF Carries
<1>5. \A i \in PacketId, m \in Out : Carries(i, m)' => Carries(i, m)
  BY <1>1, <1>2 DEF Carries
<1>6. QED BY <1>1, <1>2, <1>3, <1>4, <1>5

LEMMA ToldStep ==
  ASSUME NextIdUnused, TypeOK, TypeOK', Fresh, Lists, Told, [Next]_vars
  PROVE  Told'
<1>1. CASE PublishSend
  <2> DEFINE j == GetNextPacketId
  <2>1. /\ user.pc = "checked" /\ user.msg \notin offered
        /\ offered' = offered \cup {user.msg} /\ UNCHANGED <<accepted, fwd>>
        /\ user' = [user EXCEPT !.pc = "sent", !.id = j]
    BY <1>1 DEF PublishSend, Fresh
  <2>2. user'.msg = user.msg BY <2>1 DEF TypeOK, ThreadTypes
  <2>3. \A i \in PacketId, m \in Out : Carries(i, m)' => Carries(i, m) \/ (i = j /\ m = user.msg)
    BY <1>1, SendCarries
  <2> HIDE DEF j
  <2>4. \A i \in PacketId, m \in Out : Carries(i, m)' => m \in offered'
    BY <2>1, <2>3 DEF Told
  <2>5. \A i, k \in PacketId, m \in Out : Carries(i, m)' /\ Carries(k, m)' => i = k
    BY <2>1, <2>3 DEF Told
  <2>6. QED BY <2>1, <2>2, <2>4, <2>5 DEF Told
<1>2. ASSUME \A i \in PacketId, m \in Out : Carries(i, m)' => Carries(i, m),
             \A m \in Out : fwd'[m] > 0 => fwd[m] > 0 \/ m \in offered, ~PublishSend
      PROVE  Told'
  <2>1. /\ offered \subseteq offered'
        /\ accepted' = accepted \/ (PublishRecord /\ accepted' = accepted \cup {user.msg})
        /\ user'.pc = "sent" => user' = user
    BY <1>2, OfferSteps
  <2>2. PublishRecord => user.pc = "sent" /\ user'.pc # "sent"
    BY DEF PublishRecord, Idle
  <2>3. accepted' \subseteq offered' BY <2>1, <2>2 DEF Told
  <2>4. user'.pc = "sent" => user'.msg \in offered' /\ user'.msg \notin accepted'
    BY <2>1, <2>2 DEF Told
  <2>5. \A i \in PacketId, m \in Out : Carries(i, m)' => m \in offered'
    BY <1>2, <2>1 DEF Told
  <2>6. \A i, j \in PacketId, m \in Out : Carries(i, m)' /\ Carries(j, m)' => i = j
    BY <1>2 DEF Told
  <2>7. \A m \in Out : fwd'[m] > 0 => m \in offered'
    BY <1>2, <2>1 DEF Told
  <2>8. QED BY <2>3, <2>4, <2>5, <2>6, <2>7 DEF Told
<1>3. CASE BrokerOnPublish
  <2>1. ~PublishSend BY <1>3 DEF BrokerOnPublish, BrokerRead, PublishSend, TypeOK, ThreadTypes
  <2>2. /\ Head(c2b).msg \in offered
        /\ \A i \in PacketId, m \in Out : Carries(i, m)' => Carries(i, m)
    BY <1>3, PublishRead DEF Told
  <2>3. fwd' = fwd \/ fwd' = [fwd EXCEPT ![Head(c2b).msg] = More(@)]
    BY <1>3 DEF BrokerOnPublish
  <2>4. \A m \in Out : fwd'[m] > 0 => fwd[m] > 0 \/ m \in offered
    BY <2>2, <2>3 DEF TypeOK, HistoryTypes
  <2>5. QED BY <1>2, <2>1, <2>2, <2>4
<1>4. QED BY <1>1, <1>2, <1>3, MostlyNothingNew DEF NothingNew
-----------------------------------------------------------------------------
(* The order of what is in flight, step by step.                             *)

\* t carries nothing that s does not carry, in the order of s.
Thins(s, t) == \A A, B : /\ Lacks(s, A) => Lacks(t, A)
                         /\ AtMostOne(s, A) => AtMostOne(t, A)
                         /\ Precede(s, A, B) => Precede(t, A, B)

LEMMA OfIs ==
  ASSUME NEW p, p \in Packet(Out, PacketId) \/ p \in Packet(In, BrokerIds), NEW k, NEW i
  PROVE  p \in Of(k, i) <=> p.kind = k /\ p.id = i
<1>1. p \in Packet(Out \cup In, PacketId)
  BY SessionAssumption DEF Packet
<1>2. QED BY <1>1 DEF Of

LEMMA SameThins == ASSUME NEW s PROVE Thins(s, s) /\ Thins(s, <<>>)
BY EmptyOrder DEF Thins

LEMMA TailThins == ASSUME NEW S, NEW s \in Seq(S), s # <<>> PROVE Thins(s, Tail(s))
BY TailOrder DEF Thins

(* Reading and closing only thin out what is in flight. *)
LEMMA ReadsThin ==
  ASSUME NetTypes
  PROVE  /\ \A kinds : Read(kinds) => Thins(b2c, b2c')
         /\ \A k : BrokerRead(k) => Thins(c2b, c2b')
         /\ Close => Thins(b2c, b2c') /\ Thins(c2b, c2b')
<1>1. c2b \in Seq(Packet(Out, PacketId)) /\ b2c \in Seq(Packet(In, BrokerIds))
  BY DEF NetTypes
<1>2. ASSUME NEW kinds, Read(kinds) PROVE Thins(b2c, b2c')
  <2>1. b2c # <<>> /\ b2c' = Tail(b2c) BY <1>2 DEF Read
  <2>2. QED BY <1>1, <2>1, TailThins
<1>3. ASSUME NEW k, BrokerRead(k) PROVE Thins(c2b, c2b')
  <2>1. c2b # <<>> /\ c2b' = Tail(c2b) BY <1>3 DEF BrokerRead
  <2>2. QED BY <1>1, <2>1, TailThins
<1>4. ASSUME Close PROVE Thins(b2c, b2c') /\ Thins(c2b, c2b')
  BY <1>4, SameThins DEF Close
<1>5. QED BY <1>2, <1>3, <1>4

LEMMA SendOrder ==
  ASSUME NetTypes, NEW p \in Packet(Out, PacketId), Send(p), NEW A, NEW B
  PROVE  /\ Lacks(c2b, A) /\ p \notin A => Lacks(c2b', A)
         /\ AtMostOne(c2b, A) /\ (p \notin A \/ Lacks(c2b, A)) => AtMostOne(c2b', A)
         /\ Precede(c2b, A, B) /\ (p \notin A \/ (Lacks(c2b, B) /\ p \notin B))
              => Precede(c2b', A, B)
<1>1. c2b \in Seq(Packet(Out, PacketId)) BY DEF NetTypes
<1>2. CASE link
  <2>1. c2b' = Append(c2b, p) BY <1>2 DEF Send
  <2>2. QED BY <1>1, <2>1, AppendOrder
<1>3. CASE ~link
  <2>1. c2b' = c2b BY <1>3 DEF Send
  <2>2. QED BY <2>1
<1>4. QED BY <1>2, <1>3

LEMMA ReplyOrder ==
  ASSUME NetTypes, NEW p \in Packet(In, BrokerIds), Reply(p), NEW A, NEW B
  PROVE  /\ Lacks(b2c', A) <=> Lacks(b2c, A) /\ p \notin A
         /\ AtMostOne(b2c, A) /\ (p \notin A \/ Lacks(b2c, A)) => AtMostOne(b2c', A)
         /\ Precede(b2c, A, B) /\ (p \notin A \/ (Lacks(b2c, B) /\ p \notin B))
              => Precede(b2c', A, B)
<1>1. b2c \in Seq(Packet(In, BrokerIds)) BY DEF NetTypes
<1>2. b2c' = Append(b2c, p) BY DEF Reply
<1>3. QED BY <1>1, <1>2, AppendOrder
-----------------------------------------------------------------------------
(* Outgoing QoS 2 messages.  The broker tells a repeated PUBLISH from a new   *)
(* one by its id, which it forgets at the PUBREL: no PUBLISH may come after.  *)

\* The client may still send the PUBLISH with id i.
Resendable(i) ==
  \/ /\ NodeIsExist("PUBREC", i)
     /\ ~(yield.pc = "unrecord" /\ yield.kind = "PUBREC" /\ yield.id = i)
  \/ user.pc = "sent" /\ user.id = i /\ user.msg \in OutQ2

Resent(i) == {p \in Of("PUBLISH", i) : p.msg \in OutQ2}

Released ==
  \A i \in PacketId :
    /\ Resendable(i) => Lacks(c2b, Of("PUBREL", i)) /\ ~NodeIsExist("PUBCOMP", i)
    /\ Precede(c2b, Resent(i), Of("PUBREL", i))
    /\ \A m \in OutQ2 : Carries(i, m) /\ fwd[m] > 0
                         /\ (Resendable(i) \/ ~Lacks(c2b, Resent(i))) => i \in bRec

(* A step that resends nothing, delivers nothing and keeps the order. *)
LEMMA ReleasedKept ==
  ASSUME Released,
         \A i \in PacketId : Resendable(i)' => Resendable(i),
         \A i \in PacketId : NodeIsExist("PUBCOMP", i)' =>
            NodeIsExist("PUBCOMP", i) \/ ~Resendable(i)',
         \A i \in PacketId : Lacks(c2b, Of("PUBREL", i)) =>
            Lacks(c2b', Of("PUBREL", i)) \/ ~Resendable(i)',
         \A i \in PacketId : Precede(c2b, Resent(i), Of("PUBREL", i)) =>
            Precede(c2b', Resent(i), Of("PUBREL", i)),
         \A i \in PacketId, m \in Out : Carries(i, m)' => Carries(i, m), fwd' = fwd,
         \A i \in PacketId : Lacks(c2b, Resent(i)) => Lacks(c2b', Resent(i)) \/ Resendable(i),
         bRec \subseteq bRec'
  PROVE  Released'
<1> SUFFICES ASSUME NEW i \in PacketId
             PROVE  /\ Resendable(i)' => Lacks(c2b', Of("PUBREL", i)) /\ ~NodeIsExist("PUBCOMP", i)'
                    /\ Precede(c2b', Resent(i), Of("PUBREL", i))
                    /\ \A m \in OutQ2 : Carries(i, m)' /\ fwd'[m] > 0
                          /\ (Resendable(i)' \/ ~Lacks(c2b', Resent(i))) => i \in bRec'
  BY DEF Released
<1>1. Resendable(i)' => Lacks(c2b', Of("PUBREL", i)) /\ ~NodeIsExist("PUBCOMP", i)'
  BY DEF Released
<1>2. Precede(c2b', Resent(i), Of("PUBREL", i))
  BY DEF Released
<1>3. \A m \in OutQ2 : Carries(i, m)' /\ fwd'[m] > 0
        /\ (Resendable(i)' \/ ~Lacks(c2b', Resent(i))) => i \in bRec'
  BY DEF Released, Out
<1>4. QED BY <1>1, <1>2, <1>3

LEMMA ReleasedThin ==
  ASSUME Released, Thins(c2b, c2b'), NothingNew, bRec \subseteq bRec',
         \A i \in PacketId : Resendable(i)' => Resendable(i),
         \A i \in PacketId : NodeIsExist("PUBCOMP", i)' => NodeIsExist("PUBCOMP", i)
  PROVE  Released'
<1>1. \A A, B : /\ Lacks(c2b, A) => Lacks(c2b', A)
                /\ Precede(c2b, A, B) => Precede(c2b', A, B)
  BY DEF Thins
<1>2. /\ \A i \in PacketId : Lacks(c2b, Of("PUBREL", i)) => Lacks(c2b', Of("PUBREL", i))
      /\ \A i \in PacketId : Lacks(c2b, Resent(i)) => Lacks(c2b', Resent(i))
      /\ \A i \in PacketId : Precede(c2b, Resent(i), Of("PUBREL", i)) =>
            Precede(c2b', Resent(i), Of("PUBREL", i))
  BY <1>1
<1>3. /\ \A i \in PacketId, m \in Out : Carries(i, m)' => Carries(i, m)
      /\ fwd' = fwd
  BY DEF NothingNew
<1>4. QED BY <1>2, <1>3, ReleasedKept

LEMMA ReleasedUser ==
  ASSUME TypeOK, Released, User, ~PublishSend
  PROVE  Released'
<1>1. NothingNew BY UserNothingNew
<1>2. CASE PublishRecord
  <2> DEFINE type == AckOf(user.msg)
  <2>1. /\ user.pc = "sent" /\ user' = Idle /\ UNCHANGED <<c2b, bRec, yield>>
        /\ \A n \in acks' : n \in acks \/ (n.id = user.id /\ n.type = type)
    BY <1>2 DEF PublishRecord, AckListRecord, net, broker, AckOf
  <2>2. user.msg \in Out BY <2>1 DEF TypeOK, ThreadTypes
  <2>3. \A i \in PacketId : Resendable(i)' => Resendable(i)
    BY <2>1, <2>2 DEF Resendable, NodeIsExist, Idle, AckOf, Out
  <2>4. \A i \in PacketId : NodeIsExist("PUBCOMP", i)' => NodeIsExist("PUBCOMP", i)
    BY <2>1 DEF NodeIsExist, AckOf
  <2>5. QED BY <1>1, <2>1, <2>3, <2>4, ReleasedThin, SameThins
<1>3. CASE \/ (\E m \in Out : PublishCheck(m)) \/ PublishSendFails
           \/ PublishNoMemory \/ PublishTooMuch \/ PublishRelease
  <2>1. /\ user'.pc # "sent" /\ UNCHANGED <<acks, bRec, yield>>
        /\ c2b' = c2b \/ Close
    BY <1>3 DEF PublishCheck, PublishSendFails, PublishTooMuch, PublishNoMemory, PublishRelease,
       Idle, client, net, broker, TypeOK, ThreadTypes, AckListNoMemory
  <2>2. Thins(c2b, c2b') BY <2>1, SameThins, ReadsThin DEF TypeOK
  <2>3. \A i \in PacketId : Resendable(i)' => Resendable(i)
    BY <2>1 DEF Resendable, NodeIsExist
  <2>4. \A i \in PacketId : NodeIsExist("PUBCOMP", i)' => NodeIsExist("PUBCOMP", i)
    BY <2>1 DEF NodeIsExist
  <2>5. QED BY <1>1, <2>1, <2>2, <2>3, <2>4, ReleasedThin
<1>4. QED BY <1>2, <1>3 DEF User

(* mqtt_publish() sends its message for the first time. *)
LEMMA ReleasedSend ==
  ASSUME NextIdUnused, TypeOK, Fresh, Lists, Told, Released, PublishSend
  PROVE  Released'
<1> DEFINE j == GetNextPacketId
           q == Pkt("PUBLISH", j, user.msg)
<1>1. j \in PacketId /\ user.msg \in Out
      /\ \A i \in PacketId, m \in Out : Carries(i, m)' => Carries(i, m) \/ (i = j /\ m = user.msg)
  BY SendCarries
<1>2. /\ user.pc = "checked" /\ user.msg \notin offered /\ Unused(j)
      /\ Send(q) /\ UNCHANGED <<acks, bRec, yield, fwd>>
      /\ user' = [user EXCEPT !.pc = "sent", !.id = j]
  BY DEF PublishSend, Fresh, NextIdUnused, broker
<1>3. q \in Packet(Out, PacketId) /\ q.kind = "PUBLISH" /\ q.id = j
  BY <1>1 DEF Pkt, Packet, Kind
<1>4. user'.id = j BY <1>2 DEF TypeOK, ThreadTypes
<1> HIDE DEF j, q
<1>5. \A i : q \notin Of("PUBREL", i) /\ (q \in Resent(i) => i = j)
  BY <1>3, OfIs DEF Resent
<1>6. Lacks(c2b, Of("PUBREL", j))
  <2>1. \A p \in Elems(c2b) : ~(p.kind = "PUBREL" /\ p.id = j) BY <1>2 DEF Unused
  <2>2. QED BY <2>1 DEF Lacks, Elems, Of
<1>7. ~NodeIsExist("PUBCOMP", j) BY <1>2 DEF Unused, NodeIsExist
<1>8. \A i \in PacketId : Resendable(i)' => Resendable(i) \/ i = j
  BY <1>2, <1>4 DEF Resendable, NodeIsExist
<1>9. fwd[user.msg] > 0 => FALSE BY <1>1, <1>2 DEF Told
<1>10. SUFFICES ASSUME NEW i \in PacketId
       PROVE  /\ Resendable(i)' => Lacks(c2b', Of("PUBREL", i)) /\ ~NodeIsExist("PUBCOMP", i)'
              /\ Precede(c2b', Resent(i), Of("PUBREL", i))
              /\ \A m \in OutQ2 : Carries(i, m)' /\ fwd'[m] > 0
                    /\ (Resendable(i)' \/ ~Lacks(c2b', Resent(i))) => i \in bRec'
  BY DEF Released
<1>11. NodeIsExist("PUBCOMP", i)' <=> NodeIsExist("PUBCOMP", i)
  BY <1>2 DEF NodeIsExist
<1>12. Lacks(c2b, Of("PUBREL", i)) => Lacks(c2b', Of("PUBREL", i))
  BY <1>2, <1>3, <1>5, SendOrder DEF TypeOK
<1>13. Resendable(i)' => Lacks(c2b', Of("PUBREL", i)) /\ ~NodeIsExist("PUBCOMP", i)'
  BY <1>6, <1>7, <1>8, <1>11, <1>12 DEF Released
<1>14. Precede(c2b', Resent(i), Of("PUBREL", i))
  <2>1. q \notin Resent(i) \/ (Lacks(c2b, Of("PUBREL", i)) /\ q \notin Of("PUBREL", i))
    BY <1>5, <1>6
  <2>2. Precede(c2b, Resent(i), Of("PUBREL", i)) BY DEF Released
  <2>3. QED BY <1>2, <1>3, <2>1, <2>2, SendOrder DEF TypeOK
<1>15. ASSUME NEW m \in OutQ2, Carries(i, m)', fwd'[m] > 0,
              Resendable(i)' \/ ~Lacks(c2b', Resent(i))
       PROVE  i \in bRec'
  <2>1. Carries(i, m) \/ (i = j /\ m = user.msg) BY <1>1, <1>15 DEF Out
  <2>2. Carries(i, m) /\ fwd[m] > 0 BY <1>2, <1>9, <1>15, <2>1
  <2>3. i # j
    <3>1. \A x \in Out : ~Carries(j, x) BY <1>2, UnusedIsFree
    <3>2. QED BY <2>2, <3>1 DEF Out
  <2>4. Resendable(i) \/ ~Lacks(c2b, Resent(i))
    BY <1>2, <1>3, <1>5, <1>8, <1>15, <2>3, SendOrder DEF TypeOK
  <2>5. QED BY <1>2, <2>2, <2>4 DEF Released
<1>16. QED BY <1>13, <1>14, <1>15

(* The yield thread: acks, the handling of PUBREC, and resends.              *)
LEMMA ReleasedHandle ==
  ASSUME TypeOK, Lists, Released, Handle
  PROVE  Released'
<1> DEFINE h == Head(b2c)
<1>0. NothingNew BY YieldNothingNew
<1>1. ASSUME NEW kinds, Read(kinds) PROVE h.id \in PacketId /\ yield.pc = "loop"
  BY <1>1, HeadTypes DEF Read, TypeOK, Packet
<1>2. ASSUME NEW k \in AckType, NEW i \in PacketId, Send(Pkt(k, i, NoMsg)), NEW j \in PacketId
      PROVE  /\ Lacks(c2b, Resent(j)) => Lacks(c2b', Resent(j))
             /\ Precede(c2b, Resent(j), Of("PUBREL", j)) => Precede(c2b', Resent(j), Of("PUBREL", j))
             /\ k # "PUBREL" \/ i # j =>
                  (Lacks(c2b, Of("PUBREL", j)) => Lacks(c2b', Of("PUBREL", j)))
  <2> DEFINE p == Pkt(k, i, NoMsg)
  <2>1. p \in Packet(Out, PacketId) /\ p.kind = k /\ p.id = i
    BY AckPackets DEF Pkt
  <2> HIDE DEF p
  <2>2. p \notin Resent(j) /\ (k # "PUBREL" \/ i # j => p \notin Of("PUBREL", j))
    BY <2>1, OfIs DEF Resent, AckType
  <2>3. Send(p) BY <1>2 DEF p
  <2>4. QED BY <2>1, <2>2, <2>3, SendOrder DEF TypeOK
<1>3. CASE PubackAndPubcompPacketHandle \/ UnrecordAnswered
  <2>1. UNCHANGED <<c2b, bRec, user>>
    BY <1>3 DEF PubackAndPubcompPacketHandle, UnrecordAnswered, net, broker
  <2>2. acks' \subseteq acks
    BY <1>3, FewerNodes DEF PubackAndPubcompPacketHandle, UnrecordAnswered
  <2>3. \A i \in PacketId : Resendable(i)' => Resendable(i)
    <3>1. CASE PubackAndPubcompPacketHandle
      BY <2>1, <2>2, <3>1 DEF PubackAndPubcompPacketHandle, Resendable, NodeIsExist
    <3>2. CASE UnrecordAnswered
      <4>1. acks' = acks \ {n \in acks : n.type = yield.kind /\ n.id = yield.id}
        BY <3>2 DEF UnrecordAnswered, AckListUnrecord
      <4>2. QED BY <2>1, <4>1 DEF Resendable, NodeIsExist
    <3>3. QED BY <1>3, <3>1, <3>2
  <2>4. \A i \in PacketId : NodeIsExist("PUBCOMP", i)' => NodeIsExist("PUBCOMP", i)
    BY <2>2 DEF NodeIsExist
  <2>5. QED BY <1>0, <2>1, <2>3, <2>4, ReleasedThin, SameThins
<1>4. CASE PublishPacketDeliver \/ PublishPacketNoMemory
  <2>1. UNCHANGED <<c2b, bRec, user>> /\ yield.pc = "deliver"
    BY <1>4 DEF PublishPacketDeliver, PublishPacketNoMemory, net, broker
  <2>2. \A n \in acks' : n \in acks \/ n.type = "PUBREL"
    BY <1>4, AckNode DEF PublishPacketDeliver, PublishPacketNoMemory
  <2>3. \A i \in PacketId : Resendable(i)' => Resendable(i)
    BY <2>1, <2>2 DEF Resendable, NodeIsExist
  <2>4. \A i \in PacketId : NodeIsExist("PUBCOMP", i)' => NodeIsExist("PUBCOMP", i)
    BY <2>2 DEF NodeIsExist
  <2>5. QED BY <1>0, <2>1, <2>3, <2>4, ReleasedThin, SameThins
<1>5. CASE PublishPacketHandle \/ PubrelPacketHandle
  <2>1. /\ h.id \in PacketId /\ yield.pc = "loop"
        /\ UNCHANGED <<acks, bRec, user>>
        /\ \E k \in {"PUBACK", "PUBREC", "PUBCOMP"} : Send(Pkt(k, h.id, NoMsg))
    BY <1>1, <1>5 DEF PublishPacketHandle, PubrelPacketHandle, client, broker
  <2>2. PICK k \in {"PUBACK", "PUBREC", "PUBCOMP"} : Send(Pkt(k, h.id, NoMsg)) BY <2>1
  <2>3. \A i \in PacketId : Resendable(i)' => Resendable(i)
    BY <2>1 DEF Resendable, NodeIsExist
  <2>4. \A i \in PacketId : NodeIsExist("PUBCOMP", i)' => NodeIsExist("PUBCOMP", i)
    BY <2>1 DEF NodeIsExist
  <2>5. k \in AckType /\ k # "PUBREL" BY DEF AckType
  <2> HIDE DEF h
  <2>6. /\ \A i \in PacketId : Lacks(c2b, Of("PUBREL", i)) => Lacks(c2b', Of("PUBREL", i))
        /\ \A i \in PacketId : Lacks(c2b, Resent(i)) => Lacks(c2b', Resent(i))
        /\ \A i \in PacketId : Precede(c2b, Resent(i), Of("PUBREL", i)) =>
              Precede(c2b', Resent(i), Of("PUBREL", i))
    BY <1>2, <2>1, <2>2, <2>5
  <2>7. QED BY <1>0, <2>1, <2>3, <2>4, <2>6, ReleasedKept DEF NothingNew
<1>6. CASE PubrecPacketHandle \/ PubrecPacketNoMemory
  <2>1. /\ h.id \in PacketId /\ yield.pc = "loop" /\ user.pc # "sent"
        /\ UNCHANGED <<bRec, user>>
        /\ yield'.pc = "unrecord" /\ yield'.kind = "PUBREC" /\ yield'.id = h.id
        /\ UNCHANGED c2b \/ Send(Pkt("PUBREL", h.id, NoMsg))
    BY <1>1, <1>6 DEF PubrecPacketHandle, PubrecPacketNoMemory, broker, WriteLockFree
  <2>2. \A n \in acks' : n \in acks \/ (n.type = "PUBCOMP" /\ n.id = h.id)
    BY <1>6, AckNode DEF PubrecPacketHandle, PubrecPacketNoMemory
  <2> HIDE DEF h
  <2>3. \A i \in PacketId : Resendable(i)' => Resendable(i) /\ i # h.id
    BY <2>1, <2>2 DEF Resendable, NodeIsExist
  <2>4. \A i \in PacketId : NodeIsExist("PUBCOMP", i)' => NodeIsExist("PUBCOMP", i) \/ i = h.id
    BY <2>2 DEF NodeIsExist
  <2>5. /\ \A i \in PacketId : Lacks(c2b, Of("PUBREL", i)) => Lacks(c2b', Of("PUBREL", i)) \/ i = h.id
        /\ \A i \in PacketId : Lacks(c2b, Resent(i)) => Lacks(c2b', Resent(i))
        /\ \A i \in PacketId : Precede(c2b, Resent(i), Of("PUBREL", i)) =>
              Precede(c2b', Resent(i), Of("PUBREL", i))
    <3>1. CASE UNCHANGED c2b BY <3>1
    <3>2. CASE Send(Pkt("PUBREL", h.id, NoMsg)) BY <1>2, <2>1, <3>2 DEF AckType
    <3>3. QED BY <2>1, <3>1, <3>2
  <2>6. QED BY <1>0, <2>1, <2>3, <2>4, <2>5, ReleasedKept DEF NothingNew
<1>7. QED BY <1>3, <1>4, <1>5, <1>6 DEF Handle

LEMMA ReleasedResend ==
  ASSUME TypeOK, Released, NEW n \in acks, ScanTimeout(n) \/ ScanResend(n), NothingNew
  PROVE  Released'
<1> DEFINE p == Payload(n)
<1>1. n \in Node BY DEF TypeOK, ListTypes
<1>2. /\ Send(p) /\ UNCHANGED <<acks, user, yield, bRec>> /\ yield.pc # "unrecord"
  BY DEF ScanTimeout, ScanResend, client, broker
<1>3. p \in Packet(Out, PacketId) BY <1>1, PayloadType
<1>4. /\ p.id = n.id /\ n.id \in PacketId
      /\ p.kind = "PUBREL" => n.type = "PUBCOMP"
      /\ p.kind = "PUBLISH" /\ p.msg \in OutQ2 => n.type = "PUBREC"
  BY <1>1, SessionAssumption DEF Payload, Pkt, Node, AckType
<1> HIDE DEF p
<1>5. \A i \in PacketId : /\ p \in Of("PUBREL", i) => NodeIsExist("PUBCOMP", i)
                          /\ p \in Resent(i) => Resendable(i) /\ p \notin Of("PUBREL", i)
  BY <1>2, <1>3, <1>4, OfIs DEF NodeIsExist, Resendable, Resent
<1>6. \A i \in PacketId : Resendable(i)' <=> Resendable(i)
  BY <1>2 DEF Resendable, NodeIsExist
<1>7. \A i \in PacketId : NodeIsExist("PUBCOMP", i)' <=> NodeIsExist("PUBCOMP", i)
  BY <1>2 DEF NodeIsExist
<1>8. ASSUME NEW i \in PacketId
      PROVE  /\ Lacks(c2b, Of("PUBREL", i)) => Lacks(c2b', Of("PUBREL", i)) \/ ~Resendable(i)'
             /\ Lacks(c2b, Resent(i)) => Lacks(c2b', Resent(i)) \/ Resendable(i)
             /\ Precede(c2b, Resent(i), Of("PUBREL", i)) => Precede(c2b', Resent(i), Of("PUBREL", i))
  <2>1. Resendable(i) => p \notin Of("PUBREL", i) /\ Lacks(c2b, Of("PUBREL", i))
    BY <1>5 DEF Released
  <2>2. p \in Resent(i) => Resendable(i) BY <1>5
  <2>3. Lacks(c2b, Of("PUBREL", i)) /\ Resendable(i) => Lacks(c2b', Of("PUBREL", i))
    BY <1>2, <1>3, <2>1, SendOrder DEF TypeOK
  <2>4. Lacks(c2b, Resent(i)) => Lacks(c2b', Resent(i)) \/ Resendable(i)
    BY <1>2, <1>3, <2>2, SendOrder DEF TypeOK
  <2>5. Precede(c2b, Resent(i), Of("PUBREL", i)) => Precede(c2b', Resent(i), Of("PUBREL", i))
    BY <1>2, <1>3, <2>1, <2>2, SendOrder DEF TypeOK
  <2>6. QED BY <1>6, <2>3, <2>4, <2>5
<1>9. /\ \A i \in PacketId : Resendable(i)' => Resendable(i)
      /\ \A i \in PacketId : NodeIsExist("PUBCOMP", i)' =>
            NodeIsExist("PUBCOMP", i) \/ ~Resendable(i)'
      /\ bRec \subseteq bRec'
  BY <1>2, <1>6, <1>7
<1>10. QED BY <1>8, <1>9, ReleasedKept DEF NothingNew

(* The broker forgets an id at its PUBREL, remembers it at its PUBLISH, and  *)
(* nothing else changes what may be sent again.                              *)
LEMMA ReleasedBroker ==
  ASSUME TypeOK, Told, Released, BrokerOnPublish \/ BrokerOnPubrel
  PROVE  Released'
<1> DEFINE p == Head(c2b)
<1>1. /\ c2b # <<>> /\ c2b' = Tail(c2b) /\ UNCHANGED <<acks, user, yield>>
      /\ p \in Packet(Out, PacketId)
  BY HeadTypes DEF BrokerOnPublish, BrokerOnPubrel, BrokerRead, client, TypeOK
<1>2. c2b \in Seq(Packet(Out, PacketId)) BY DEF TypeOK, NetTypes
<1>3. Thins(c2b, c2b') BY <1>1, <1>2, TailThins
<1>4. \A i \in PacketId : Resendable(i)' <=> Resendable(i)
  BY <1>1 DEF Resendable, NodeIsExist
<1>5. \A i \in PacketId : NodeIsExist("PUBCOMP", i)' <=> NodeIsExist("PUBCOMP", i)
  BY <1>1 DEF NodeIsExist
<1>6. \A i \in PacketId, m \in Out : Carries(i, m)' => Carries(i, m)
  <2>1. CASE BrokerOnPublish BY <2>1, PublishRead
  <2>2. CASE BrokerOnPubrel
    <3>1. ~BrokerOnPublish BY <2>2 DEF BrokerOnPublish, BrokerOnPubrel, BrokerRead
    <3>2. QED BY <2>2, <3>1, BrokerNothingNew DEF Broker, NothingNew
  <2>3. QED BY <2>1, <2>2
<1> SUFFICES ASSUME NEW i \in PacketId
             PROVE  /\ Resendable(i)' => Lacks(c2b', Of("PUBREL", i)) /\ ~NodeIsExist("PUBCOMP", i)'
                    /\ Precede(c2b', Resent(i), Of("PUBREL", i))
                    /\ \A m \in OutQ2 : Carries(i, m)' /\ fwd'[m] > 0
                          /\ (Resendable(i)' \/ ~Lacks(c2b', Resent(i))) => i \in bRec'
  BY DEF Released
<1>7. /\ Lacks(c2b, Of("PUBREL", i)) => Lacks(c2b', Of("PUBREL", i))
      /\ Lacks(c2b, Resent(i)) => Lacks(c2b', Resent(i))
      /\ Precede(c2b, Resent(i), Of("PUBREL", i)) => Precede(c2b', Resent(i), Of("PUBREL", i))
  BY <1>3 DEF Thins
<1>8. /\ Resendable(i) => Lacks(c2b, Of("PUBREL", i)) /\ ~NodeIsExist("PUBCOMP", i)
      /\ Precede(c2b, Resent(i), Of("PUBREL", i))
      /\ \A m \in OutQ2 : Carries(i, m) /\ fwd[m] > 0
                           /\ (Resendable(i) \/ ~Lacks(c2b, Resent(i))) => i \in bRec
  BY DEF Released
<1>9. ASSUME NEW m \in OutQ2, Carries(i, m)', fwd'[m] > 0,
             Resendable(i)' \/ ~Lacks(c2b', Resent(i))
      PROVE  i \in bRec'
  <2>1. Carries(i, m) /\ (Resendable(i) \/ ~Lacks(c2b, Resent(i)))
    BY <1>4, <1>6, <1>7, <1>9 DEF Out
  <2>2. CASE BrokerOnPublish
    <3>1. Carries(p.id, p.msg) /\ p.id \in PacketId /\ p.msg \in Out BY <2>2, PublishRead
    <3>2. \/ p.msg \in OutQ1 /\ fwd' = [fwd EXCEPT ![p.msg] = More(@)] /\ bRec' = bRec
          \/ /\ bRec' = bRec \cup {p.id}
             /\ fwd' = fwd \/ fwd' = [fwd EXCEPT ![p.msg] = More(@)]
      BY <2>2 DEF BrokerOnPublish
    <3> HIDE DEF p
    <3>3. CASE m = p.msg
      <4>1. i = p.id BY <2>1, <3>1, <3>3 DEF Told
      <4>2. p.msg \notin OutQ1 BY <3>3, SessionAssumption
      <4>3. QED BY <3>2, <4>1, <4>2
    <3>4. CASE m # p.msg
      <4>1. fwd'[m] = fwd[m] BY <3>2, <3>4 DEF TypeOK, HistoryTypes, Out
      <4>2. QED BY <1>8, <1>9, <2>1, <3>2, <4>1
    <3>5. QED BY <3>3, <3>4
  <2>3. CASE BrokerOnPubrel
    <3>1. p.kind = "PUBREL" /\ bRec' = bRec \ {p.id} /\ fwd' = fwd
      BY <2>3 DEF BrokerOnPubrel, BrokerRead
    <3> HIDE DEF p
    <3>2. i # p.id
      <4>1. ASSUME i = p.id PROVE FALSE
        <5>1. p \in Of("PUBREL", i) BY <1>1, <3>1, <4>1, OfIs
        <5>2. Lacks(c2b, Resent(i)) /\ ~Lacks(c2b, Of("PUBREL", i))
          BY <1>1, <1>2, <1>8, <5>1, TailOrder DEF p
        <5>3. QED BY <1>8, <2>1, <5>2
      <4>2. QED BY <4>1
    <3>3. QED BY <1>8, <1>9, <2>1, <3>1, <3>2
  <2>4. QED BY <2>2, <2>3
<1>10. QED BY <1>4, <1>5, <1>7, <1>8, <1>9

LEMMA ReleasedStep ==
  ASSUME ~CleanSession, NextIdUnused, TypeOK, Fresh, Lists, Told, Released, [Next]_vars
  PROVE  Released'
<1>1. ASSUME NothingNew, Thins(c2b, c2b'), UNCHANGED <<acks, user, bRec>>,
             yield' = yield \/ yield.pc # "unrecord"
      PROVE  Released'
  <2>1. \A i \in PacketId : Resendable(i)' => Resendable(i)
    BY <1>1 DEF Resendable, NodeIsExist
  <2>2. \A i \in PacketId : NodeIsExist("PUBCOMP", i)' => NodeIsExist("PUBCOMP", i)
    BY <1>1 DEF NodeIsExist
  <2>3. QED BY <1>1, <2>1, <2>2, ReleasedThin
<1>2. CASE User BY <1>2, ReleasedUser, ReleasedSend
<1>3. CASE Handle BY <1>3, ReleasedHandle
<1>4. CASE Reconnect \/ Timeout
  <2>1. NothingNew BY <1>4, YieldNothingNew
  <2>2. CASE KeepAliveLost \/ ScanEnd
    <3>1. c2b' = c2b /\ UNCHANGED <<acks, user, bRec>> /\ (yield' = yield \/ yield.pc # "unrecord")
      BY <2>2 DEF KeepAliveLost, ScanEnd, client, net, broker
    <3>2. QED BY <1>1, <2>1, <3>1, SameThins
  <2>3. CASE TryDoReconnect
    <3>1. c2b' = <<>> /\ UNCHANGED <<acks, user, bRec>> /\ yield.pc # "unrecord"
      BY <2>3 DEF TryDoReconnect
    <3>2. QED BY <1>1, <2>1, <3>1, SameThins
  <2>4. CASE Timeout \/ (\E n \in todo : ScanResend(n))
    BY <2>1, <2>4, ReleasedResend DEF Timeout, Lists
  <2>5. QED BY <1>4, <2>2, <2>3, <2>4 DEF Reconnect
<1>5. CASE BrokerOnPublish \/ BrokerOnPubrel BY <1>5, ReleasedBroker
<1>6. CASE \/ BrokerOnLastAck \/ BrokerOnPubrec \/ (\E i \in BrokerIds : BrokerResend(i))
           \/ KeepAliveSlow \/ LinkDown
           \/ (\E m \in In, i \in BrokerIds : BrokerPublish(m, i))
  <2>1. UNCHANGED <<acks, user, bRec, yield>>
    BY <1>6 DEF BrokerOnLastAck, BrokerOnPubrec, BrokerRead, BrokerResend, KeepAliveSlow,
       LinkDown, BrokerPublish, client
  <2>2. Thins(c2b, c2b')
    <3>1. c2b' = c2b \/ Close \/ BrokerRead("PUBACK") \/ BrokerRead("PUBCOMP") \/ BrokerRead("PUBREC")
      BY <1>6 DEF BrokerOnLastAck, BrokerOnPubrec, BrokerResend, KeepAliveSlow,
         LinkDown, BrokerPublish
    <3>2. QED BY <3>1, SameThins, ReadsThin DEF TypeOK
  <2>3. NothingNew
    <3>1. CASE BrokerOnLastAck \/ BrokerOnPubrec
      <4>1. ~BrokerOnPublish
        BY <3>1 DEF BrokerOnLastAck, BrokerOnPubrec, BrokerOnPublish, BrokerRead
      <4>2. QED BY <3>1, <4>1, BrokerNothingNew DEF Broker
    <3>2. CASE \/ (\E i \in BrokerIds : BrokerResend(i)) \/ KeepAliveSlow \/ LinkDown
               \/ (\E m \in In, i \in BrokerIds : BrokerPublish(m, i))
      <4>2. CASE ~BrokerOnPublish BY <3>2, <4>2, BrokerNothingNew DEF Broker
      <4>3. CASE BrokerOnPublish
        <5>1. FALSE
          <6>1. c2b' = Tail(c2b) /\ c2b # <<>> /\ link /\ link' = link /\ bResend' = bResend
                /\ offered' = offered
            BY <4>3 DEF BrokerOnPublish, BrokerRead
          <6>2. c2b' = c2b \/ ~link'
            BY <3>2 DEF BrokerResend, KeepAliveSlow, LinkDown, BrokerPublish, Close
          <6>3. Len(c2b') # Len(c2b) BY <6>1 DEF TypeOK, NetTypes
          <6>4. QED BY <6>1, <6>2, <6>3
        <5>2. QED BY <5>1
      <4>4. QED BY <4>2, <4>3
    <3>3. QED BY <1>6, <3>1, <3>2
  <2>4. QED BY <1>1, <2>1, <2>2, <2>3
<1>7. CASE UNCHANGED vars
  <2>1. c2b' = c2b /\ UNCHANGED <<acks, user, bRec, yield>> BY <1>7 DEF vars, client, net, broker
  <2>2. NothingNew
    BY <1>7 DEF vars, client, net, broker, history, Carries, Answered, NothingNew
  <2>3. QED BY <1>1, <2>1, <2>2, SameThins
<1>8. QED BY <1>2, <1>3, <1>4, <1>5, <1>6, <1>7 DEF Next, Broker
-----------------------------------------------------------------------------
(* Incoming messages.  Each identifier of the broker is looked at on its own: *)
(* what is under way for it in both directions, what the client remembers of *)
(* it and how far the broker is.                                             *)

\* In flight for identifier i: acks to the broker, requests to the client.
Sent(k, i) == ~Lacks(c2b, Of(k, i))
Asked(k, i) == ~Lacks(b2c, Of(k, i))

\* The client has taken the message in and will say so again when asked.
Received(i) ==
  /\ NodeIsExist("PUBREL", i)
  /\ ~(yield.pc = "unrecord" /\ yield.kind = "PUBREL" /\ yield.id = i)

\* A QoS 2 message is between its PUBREC and mqtt_deliver_message().
InHand2(i) == yield.pc = "deliver" /\ yield.id = i /\ yield.msg \in InQ2

Got(i) == dlv[bOut[i].msg] > 0

\* There was no memory to remember its last delivery by.
Forgot(i) == bOut[i].msg \in unrecorded

\* mqtt_deliver_message() is called, the message recorded before it or not.
Delivering == PublishPacketDeliver \/ PublishPacketNoMemory

\* A PUBLISH the broker would not send with identifier i.
Foreign(i) == {p \in Of("PUBLISH", i) : bOut[i].st = "free" \/ p.msg # bOut[i].msg}

\* What the identifiers stand for.
Slots ==
  /\ \A i \in BrokerIds :
       /\ bOut[i].st = "free" => bOut[i].msg = NoMsg
       /\ bOut[i].st = "ack" => bOut[i].msg \in InQ1
       /\ bOut[i].st \in {"rec", "comp"} => bOut[i].msg \in InQ2
       /\ bOut[i].st # "free" => bOut[i].msg \in offered
  /\ \A i, j \in BrokerIds : bOut[i].msg = bOut[j].msg /\ bOut[i].msg # NoMsg => i = j
  /\ \A m \in In : dlv[m] > 0 => m \in offered
  /\ yield.pc = "deliver" => yield.msg \in offered

\* One PUBLISH at a time, of the message the identifier stands for.
Requested(i) ==
  /\ Lacks(b2c, Foreign(i))
  /\ AtMostOne(b2c, Of("PUBLISH", i))
  /\ i \in bResend => ~Asked("PUBLISH", i) /\ ~Sent("PUBACK", i) /\ ~InHand2(i)

\* A PUBACK tells the broker of a message that is at least in hand.
Once1(i) ==
  /\ AtMostOne(c2b, Of("PUBACK", i))
  /\ Sent("PUBACK", i) =>
       bOut[i].st = "ack" /\ Delivered(bOut[i].msg) > 0 /\ ~Asked("PUBLISH", i)

\* What the client remembers belongs to the exchange under way.
Known(i) ==
  /\ Sent("PUBREC", i) \/ Received(i) \/ InHand2(i) => bOut[i].st \in {"rec", "comp"}
  /\ InHand2(i) => /\ yield.msg = bOut[i].msg /\ ~Asked("PUBLISH", i)
                   /\ Got(i) => Received(i) \/ Forgot(i)
  /\ Received(i) => Got(i)

\* The broker waits for the PUBREC: a delivered message is remembered, or was
\* when there was memory; one that is not has no PUBLISH behind its PUBREC.
AwaitsRec(i) ==
  /\ Got(i) => Received(i) \/ Forgot(i)
  /\ Sent("PUBREC", i) => \/ Received(i)
                          \/ /\ Got(i) \/ InHand2(i)
                             /\ ~Asked("PUBLISH", i) /\ i \notin bResend
  /\ Precede(c2b, Of("PUBCOMP", i), Of("PUBREC", i))
  /\ Asked("PUBREL", i) => /\ Asked("PUBLISH", i) /\ ~Sent("PUBREC", i)
                           /\ ~InHand2(i) /\ ~Received(i)
  /\ Precede(b2c, Of("PUBREL", i), Of("PUBLISH", i))

\* It waits for the PUBCOMP: no late PUBLISH meets a client that has forgotten.
AwaitsComp(i) ==
  /\ Got(i) \/ InHand2(i)
  /\ Precede(c2b, Of("PUBREC", i), Of("PUBCOMP", i))
  /\ Sent("PUBCOMP", i) => Got(i) /\ ~Received(i) /\ ~InHand2(i)
  /\ Asked("PUBLISH", i) => Received(i)
  /\ Precede(b2c, Of("PUBLISH", i), Of("PUBREL", i))

Exchange(i) ==
  /\ Requested(i) /\ Once1(i) /\ Known(i)
  /\ bOut[i].st = "rec" => AwaitsRec(i)
  /\ bOut[i].st = "comp" => AwaitsComp(i)

\* What is in flight about identifier i, of these kinds, is as it was.
Keeps(s, t, K, i) ==
  \A k, l \in K : /\ Lacks(t, Of(k, i)) <=> Lacks(s, Of(k, i))
                  /\ AtMostOne(s, Of(k, i)) => AtMostOne(t, Of(k, i))
                  /\ Precede(s, Of(k, i), Of(l, i)) => Precede(t, Of(k, i), Of(l, i))

AckKinds == {"PUBACK", "PUBREC", "PUBCOMP"}
AskKinds == {"PUBLISH", "PUBREL"}

LEMMA TailKeeps ==
  ASSUME NEW S, NEW s \in Seq(S), s # <<>>, NEW K, NEW i,
         \A k \in K : Head(s) \notin Of(k, i)
  PROVE  Keeps(s, Tail(s), K, i)
BY TailOrder DEF Keeps

LEMMA AppendKeeps ==
  ASSUME NEW S, NEW s \in Seq(S), NEW x \in S, NEW K, NEW i,
         \A k \in K : x \notin Of(k, i)
  PROVE  Keeps(s, Append(s, x), K, i)
BY AppendOrder DEF Keeps

LEMMA SameKeeps == ASSUME NEW s, NEW K, NEW i PROVE Keeps(s, s, K, i)
BY DEF Keeps

(* Reading or writing a packet of another kind or identifier. *)
LEMMA WiresKeep ==
  ASSUME TypeOK, NEW i
  PROVE  /\ \A p \in Packet(Out, PacketId) :
              Send(p) /\ (p.kind \notin AckKinds \/ p.id # i) => Keeps(c2b, c2b', AckKinds, i)
         /\ \A p \in Packet(In, BrokerIds) :
              Reply(p) /\ (p.kind \notin AskKinds \/ p.id # i)
                => /\ Keeps(b2c, b2c', AskKinds, i)
                   /\ \A A : A \subseteq Of("PUBLISH", i) /\ Lacks(b2c, A) => Lacks(b2c', A)
         /\ \A k : BrokerRead(k) /\ (k \notin AckKinds \/ Head(c2b).id # i)
              => Keeps(c2b, c2b', AckKinds, i)
         /\ \A kinds : Read(kinds) /\ (Head(b2c).kind \notin AskKinds \/ Head(b2c).id # i)
              => /\ Keeps(b2c, b2c', AskKinds, i)
                 /\ \A A : Lacks(b2c, A) => Lacks(b2c', A)
<1>1. c2b \in Seq(Packet(Out, PacketId)) /\ b2c \in Seq(Packet(In, BrokerIds))
  BY DEF TypeOK, NetTypes
<1>2. ASSUME NEW p \in Packet(Out, PacketId), Send(p), p.kind \notin AckKinds \/ p.id # i
      PROVE  Keeps(c2b, c2b', AckKinds, i)
  <2>1. \A k \in AckKinds : p \notin Of(k, i) BY <1>2, OfIs
  <2>2. CASE link
    <3>1. c2b' = Append(c2b, p) BY <1>2, <2>2 DEF Send
    <3>2. QED BY <1>1, <2>1, <3>1, AppendKeeps
  <2>3. CASE ~link
    <3>1. c2b' = c2b BY <1>2, <2>3 DEF Send
    <3>2. QED BY <3>1, SameKeeps
  <2>4. QED BY <2>2, <2>3
<1>3. ASSUME NEW p \in Packet(In, BrokerIds), Reply(p), p.kind \notin AskKinds \/ p.id # i
      PROVE  /\ Keeps(b2c, b2c', AskKinds, i)
             /\ \A A : A \subseteq Of("PUBLISH", i) /\ Lacks(b2c, A) => Lacks(b2c', A)
  <2>1. \A k \in AskKinds : p \notin Of(k, i) BY <1>3, OfIs
  <2>2. b2c' = Append(b2c, p) BY <1>3 DEF Reply
  <2>3. Keeps(b2c, b2c', AskKinds, i) BY <1>1, <2>1, <2>2, AppendKeeps
  <2>4. ASSUME NEW A, A \subseteq Of("PUBLISH", i), Lacks(b2c, A) PROVE Lacks(b2c', A)
    <3>1. p \notin A BY <2>1, <2>4 DEF AskKinds
    <3>2. QED BY <1>1, <2>2, <2>4, <3>1, AppendOrder
  <2>5. QED BY <2>3, <2>4
<1>4. ASSUME NEW k, BrokerRead(k), k \notin AckKinds \/ Head(c2b).id # i
      PROVE  Keeps(c2b, c2b', AckKinds, i)
  <2>1. c2b # <<>> /\ c2b' = Tail(c2b) /\ Head(c2b).kind = k BY <1>4 DEF BrokerRead
  <2>2. Head(c2b) \in Packet(Out, PacketId) BY <2>1, HeadTypes DEF TypeOK
  <2>3. \A l \in AckKinds : Head(c2b) \notin Of(l, i) BY <1>4, <2>1, <2>2, OfIs
  <2>4. QED BY <1>1, <2>1, <2>3, TailKeeps
<1>5. ASSUME NEW kinds, Read(kinds), Head(b2c).kind \notin AskKinds \/ Head(b2c).id # i
      PROVE  /\ Keeps(b2c, b2c', AskKinds, i)
             /\ \A A : Lacks(b2c, A) => Lacks(b2c', A)
  <2>1. b2c # <<>> /\ b2c' = Tail(b2c) BY <1>5 DEF Read
  <2>2. Head(b2c) \in Packet(In, BrokerIds) BY <2>1, HeadTypes DEF TypeOK
  <2>3. \A l \in AskKinds : Head(b2c) \notin Of(l, i) BY <1>5, <2>2, OfIs
  <2>4. Keeps(b2c, b2c', AskKinds, i) BY <1>1, <2>1, <2>3, TailKeeps
  <2>5. QED BY <1>1, <2>1, <2>4, TailOrder
<1>6. QED BY <1>2, <1>3, <1>4, <1>5

(* A step that is about other identifiers leaves the exchange as it is. *)
LEMMA Untouched ==
  ASSUME NEW i, Exchange(i), bOut'[i] = bOut[i], i \in bResend' => i \in bResend,
         Keeps(c2b, c2b', AckKinds, i), Keeps(b2c, b2c', AskKinds, i),
         Lacks(b2c, Foreign(i)) => Lacks(b2c', Foreign(i)),
         Received(i)' <=> Received(i),
         InHand2(i)' <=> InHand2(i), InHand2(i) => yield'.msg = yield.msg,
         bOut[i].st \in {"rec", "comp"} => (Got(i)' <=> Got(i)) /\ (Forgot(i)' <=> Forgot(i)),
         bOut[i].st = "ack" /\ Delivered(bOut[i].msg) > 0 => Delivered(bOut[i].msg)' > 0
  PROVE  Exchange(i)'
<1>1. /\ Sent("PUBACK", i)' <=> Sent("PUBACK", i)
      /\ Sent("PUBREC", i)' <=> Sent("PUBREC", i)
      /\ Sent("PUBCOMP", i)' <=> Sent("PUBCOMP", i)
      /\ Asked("PUBLISH", i)' <=> Asked("PUBLISH", i)
      /\ Asked("PUBREL", i)' <=> Asked("PUBREL", i)
  BY DEF Keeps, Sent, Asked, AckKinds, AskKinds
<1>2. /\ AtMostOne(c2b, Of("PUBACK", i)) => AtMostOne(c2b', Of("PUBACK", i))
      /\ AtMostOne(b2c, Of("PUBLISH", i)) => AtMostOne(b2c', Of("PUBLISH", i))
      /\ Precede(c2b, Of("PUBCOMP", i), Of("PUBREC", i)) => Precede(c2b', Of("PUBCOMP", i), Of("PUBREC", i))
      /\ Precede(c2b, Of("PUBREC", i), Of("PUBCOMP", i)) => Precede(c2b', Of("PUBREC", i), Of("PUBCOMP", i))
      /\ Precede(b2c, Of("PUBREL", i), Of("PUBLISH", i)) => Precede(b2c', Of("PUBREL", i), Of("PUBLISH", i))
      /\ Precede(b2c, Of("PUBLISH", i), Of("PUBREL", i)) => Precede(b2c', Of("PUBLISH", i), Of("PUBREL", i))
  BY DEF Keeps, AckKinds, AskKinds
<1>3. Foreign(i)' = Foreign(i) BY DEF Foreign
<1>4. Requested(i)' BY <1>1, <1>2, <1>3 DEF Exchange, Requested
<1>5. Once1(i)' BY <1>1, <1>2 DEF Exchange, Once1
<1>6. Known(i)' BY <1>1 DEF Exchange, Known
<1>7. bOut[i].st = "rec" => AwaitsRec(i)' BY <1>1, <1>2 DEF Exchange, AwaitsRec
<1>8. bOut[i].st = "comp" => AwaitsComp(i)' BY <1>1, <1>2 DEF Exchange, AwaitsComp
<1>9. QED BY <1>4, <1>5, <1>6, <1>7, <1>8 DEF Exchange

(* The connection is lost or made anew: nothing is in flight. *)
LEMMA WiresEmpty ==
  ASSUME NEW i, Exchange(i), bOut'[i] = bOut[i], c2b' = <<>>, b2c' = <<>>,
         UNCHANGED <<dlv, unrecorded>>,
         Received(i)' <=> Received(i),
         InHand2(i)' => InHand2(i) /\ yield'.msg = yield.msg /\ i \notin bResend',
         InHand2(i) => InHand2(i)'
  PROVE  Exchange(i)'
<1>1. \A A, B : Lacks(<<>>, A) /\ AtMostOne(<<>>, A) /\ Precede(<<>>, A, B) BY EmptyOrder
<1>2. /\ ~Sent("PUBACK", i)' /\ ~Sent("PUBREC", i)' /\ ~Sent("PUBCOMP", i)'
      /\ ~Asked("PUBLISH", i)' /\ ~Asked("PUBREL", i)'
  BY <1>1 DEF Sent, Asked
<1>3. (Got(i)' <=> Got(i)) /\ (Forgot(i)' <=> Forgot(i)) BY DEF Got, Forgot
<1>4. Requested(i)' BY <1>1, <1>2 DEF Exchange, Requested
<1>5. Once1(i)' BY <1>1, <1>2 DEF Once1
<1>6. Known(i)' BY <1>2, <1>3 DEF Exchange, Known
<1>7. bOut[i].st = "rec" => AwaitsRec(i)' BY <1>1, <1>2, <1>3 DEF Exchange, AwaitsRec
<1>8. bOut[i].st = "comp" => AwaitsComp(i)' BY <1>1, <1>2, <1>3 DEF Exchange, AwaitsComp
<1>9. QED BY <1>4, <1>5, <1>6, <1>7, <1>8 DEF Exchange

(* The client answers a PUBLISH: from now on the message is in its hands. *)
LEMMA AnswersPublish ==
  ASSUME TypeOK, Slots, PublishPacketHandle, NEW i \in BrokerIds, i = Head(b2c).id, Exchange(i)
  PROVE  Exchange(i)' /\ Head(b2c).msg = bOut[i].msg /\ bOut[i].st # "free"
<1> DEFINE h == Head(b2c)
           x == Pkt(IF h.msg \in InQ1 THEN "PUBACK" ELSE "PUBREC", h.id, NoMsg)
<1>1. /\ b2c # <<>> /\ h.kind = "PUBLISH" /\ b2c' = Tail(b2c) /\ link /\ yield.pc = "loop"
      /\ Send(x) /\ yield' = [pc |-> "deliver", kind |-> "PUBLISH", id |-> h.id, msg |-> h.msg]
      /\ UNCHANGED <<acks, bOut, bResend, dlv, unrecorded>>
  BY DEF PublishPacketHandle, Read, client, broker, history
<1>2. h \in Packet(In, BrokerIds) /\ c2b \in Seq(Packet(Out, PacketId)) /\ b2c \in Seq(Packet(In, BrokerIds))
  BY <1>1, HeadTypes DEF TypeOK, NetTypes
<1>3. h.id = i /\ h.msg \in In /\ i \in PacketId BY <1>1, <1>2, SessionAssumption DEF Packet
<1>4. x \in Packet(Out, PacketId) /\ x.id = i
      /\ x.kind = IF h.msg \in InQ1 THEN "PUBACK" ELSE "PUBREC"
  BY <1>3, AckPackets DEF Pkt, AckType
<1>5. c2b' = Append(c2b, x) BY <1>1 DEF Send
<1> HIDE DEF x
<1>6. h \in Of("PUBLISH", i) /\ \A k : k # "PUBLISH" => h \notin Of(k, i)
  BY <1>1, <1>2, <1>3, OfIs
<1>7. /\ h.msg = bOut[i].msg /\ bOut[i].st # "free"
  <2>1. Lacks(b2c, Foreign(i)) BY DEF Exchange, Requested
  <2>2. h \notin Foreign(i) BY <1>1, <1>2, <2>1, TailOrder
  <2>3. QED BY <1>6, <2>2 DEF Foreign
<1>8. /\ Asked("PUBLISH", i) /\ ~Asked("PUBLISH", i)'
      /\ Asked("PUBREL", i)' <=> Asked("PUBREL", i)
      /\ Lacks(b2c', Foreign(i)) /\ AtMostOne(b2c', Of("PUBLISH", i))
      /\ Precede(b2c, Of("PUBREL", i), Of("PUBLISH", i)) =>
           ~Asked("PUBREL", i) /\ Precede(b2c', Of("PUBREL", i), Of("PUBLISH", i))
      /\ Precede(b2c, Of("PUBLISH", i), Of("PUBREL", i)) =>
           Precede(b2c', Of("PUBLISH", i), Of("PUBREL", i))
  <2>1. Lacks(b2c, Foreign(i)) /\ AtMostOne(b2c, Of("PUBLISH", i)) BY DEF Exchange, Requested
  <2>2. QED BY <1>1, <1>2, <1>6, <2>1, TailOrder DEF Asked
<1>9. \A k : x \in Of(k, i) <=> x.kind = k BY <1>4, OfIs
<1>10. /\ Received(i)' <=> Received(i)
       /\ ~InHand2(i) /\ (InHand2(i)' <=> h.msg \in InQ2) /\ yield'.msg = h.msg
       /\ (Got(i)' <=> Got(i)) /\ (Forgot(i)' <=> Forgot(i))
  BY <1>1, <1>3 DEF Received, NodeIsExist, InHand2, Got, Forgot
<1>11. Foreign(i)' = Foreign(i) BY <1>1 DEF Foreign
<1>12. i \notin bResend /\ i \notin bResend' BY <1>1, <1>8 DEF Exchange, Requested
<1>13. Requested(i)' BY <1>8, <1>11, <1>12 DEF Requested
<1> HIDE DEF h
<1>14. CASE h.msg \in InQ1
  <2>1. h.msg \notin InQ2 /\ bOut[i].st = "ack" /\ x.kind = "PUBACK"
    BY <1>4, <1>7, <1>14, SessionAssumption DEF Slots, TypeOK, BrokerTypes
  <2>2. ~Sent("PUBACK", i) BY <1>8 DEF Exchange, Once1
  <2>3. AtMostOne(c2b', Of("PUBACK", i)) /\ (Sent("PUBREC", i)' <=> Sent("PUBREC", i))
    <3>1. x \notin Of("PUBREC", i) BY <1>9, <2>1
    <3>2. Lacks(c2b, Of("PUBACK", i)) /\ AtMostOne(c2b, Of("PUBACK", i))
      BY <2>2 DEF Sent, Exchange, Once1
    <3>3. QED BY <1>2, <1>4, <1>5, <3>1, <3>2, AppendOrder, ZenonT(60) DEF Sent
  <2>4. Delivered(bOut[i].msg)' > 0
    <3>1. /\ bOut'[i].msg = yield'.msg /\ yield'.pc = "deliver" /\ dlv'[yield'.msg] \in 0..2
          /\ yield'.msg \in InQ1 /\ yield'.msg \notin Out
      BY <1>1, <1>3, <1>7, <1>14, SessionAssumption DEF TypeOK, HistoryTypes
    <3>2. Delivered(bOut[i].msg)' = More(dlv'[yield'.msg])
      BY <3>1 DEF Delivered, InHand
    <3>3. QED BY <3>1, <3>2 DEF More
  <2>5. Once1(i)' BY <1>1, <1>8, <2>1, <2>3, <2>4 DEF Once1
  <2>6. Known(i)' BY <1>10, <2>1, <2>3 DEF Exchange, Known
  <2>7. QED BY <1>1, <1>7, <1>13, <2>1, <2>5, <2>6 DEF Exchange, h
<1>15. CASE h.msg \in InQ2
  <2>1. /\ bOut[i].st \in {"rec", "comp"} /\ x.kind = "PUBREC"
    BY <1>4, <1>7, <1>15, SessionAssumption DEF Slots, TypeOK, BrokerTypes
  <2>2. ~Sent("PUBACK", i) /\ AtMostOne(c2b, Of("PUBACK", i)) BY <1>8 DEF Exchange, Once1
  <2>3. /\ x \notin Of("PUBACK", i) /\ x \notin Of("PUBCOMP", i) BY <1>9, <2>1
  <2>4. /\ ~Sent("PUBACK", i)' /\ AtMostOne(c2b', Of("PUBACK", i))
        /\ Sent("PUBCOMP", i)' <=> Sent("PUBCOMP", i)
        /\ Precede(c2b, Of("PUBCOMP", i), Of("PUBREC", i)) =>
             Precede(c2b', Of("PUBCOMP", i), Of("PUBREC", i))
        /\ Precede(c2b, Of("PUBREC", i), Of("PUBCOMP", i)) /\ ~Sent("PUBCOMP", i) =>
             Precede(c2b', Of("PUBREC", i), Of("PUBCOMP", i))
    BY <1>2, <1>4, <1>5, <2>2, <2>3, AppendOrder DEF Sent
  <2>5. /\ Got(i) => Received(i) \/ Forgot(i)
        /\ Received(i) => Got(i)
    BY <1>8, <2>1 DEF Exchange, Known, AwaitsRec, AwaitsComp
  <2>6. Once1(i)' BY <2>4 DEF Once1
  <2>7. Known(i)' BY <1>1, <1>7, <1>8, <1>10, <1>15, <2>1, <2>5 DEF Known
  <2>8. bOut[i].st = "rec" => AwaitsRec(i)'
    BY <1>8, <1>10, <1>12, <1>15, <2>4, <2>5 DEF Exchange, AwaitsRec
  <2>9. bOut[i].st = "comp" => AwaitsComp(i)'
    BY <1>8, <1>10, <1>15, <2>4, <2>5 DEF Exchange, AwaitsComp
  <2>10. QED BY <1>1, <1>7, <1>13, <2>6, <2>7, <2>8, <2>9 DEF Exchange, h
<1>16. QED BY <1>3, <1>14, <1>15 DEF In

(* A QoS 2 message is delivered, unless it is remembered, and remembered if  *)
(* there is memory; a second delivery follows only one that was not.         *)
LEMMA DeliversOnce ==
  ASSUME TypeOK, Delivering, yield.msg \in InQ2, NEW i \in BrokerIds, i = yield.id,
         Exchange(i)
  PROVE  /\ Exchange(i)' /\ dlv'[bOut[i].msg] > 0 /\ yield.msg = bOut[i].msg
         /\ \/ UNCHANGED <<dlv, unrecorded>>
            \/ /\ Got(i) => Forgot(i)
               /\ dlv' = [dlv EXCEPT ![yield.msg] = More(@)]
               /\ \/ unrecorded' = unrecorded \ {yield.msg}
                  \/ unrecorded' = unrecorded \cup {yield.msg}
<1>1. /\ yield.pc = "deliver" /\ yield' = Loop /\ UNCHANGED <<c2b, b2c, bOut, bResend>>
  BY DEF Delivering, PublishPacketDeliver, PublishPacketNoMemory, net, broker
<1>2. InHand2(i) /\ ~InHand2(i)' BY <1>1 DEF InHand2, Loop
<1>3. /\ yield.msg = bOut[i].msg /\ ~Asked("PUBLISH", i) /\ bOut[i].st \in {"rec", "comp"}
      /\ Got(i) => Received(i) \/ Forgot(i)
      /\ Received(i) => Got(i)
  BY <1>2 DEF Exchange, Known
<1>4. /\ Received(i) <=> NodeIsExist("PUBREL", i)
      /\ Received(i)' <=> NodeIsExist("PUBREL", i)'
  BY <1>1 DEF Received, Loop
<1>5. \/ /\ Received(i) /\ Received(i)' /\ UNCHANGED <<dlv, unrecorded>>
      \/ /\ ~Received(i) /\ dlv' = [dlv EXCEPT ![yield.msg] = More(@)]
         /\ \/ Received(i)' /\ unrecorded' = unrecorded \ {yield.msg}
            \/ ~Received(i)' /\ unrecorded' = unrecorded \cup {yield.msg}
  <2>1. CASE PublishPacketDeliver /\ NodeIsExist("PUBREL", i)
    <3>1. UNCHANGED <<acks, dlv, unrecorded>>
      BY <2>1 DEF PublishPacketDeliver, AckListRecord
    <3>2. NodeIsExist("PUBREL", i)' BY <2>1, <3>1 DEF NodeIsExist
    <3>3. QED BY <1>4, <2>1, <3>1, <3>2
  <2>2. CASE PublishPacketDeliver /\ ~NodeIsExist("PUBREL", i)
    <3> DEFINE n == [type |-> "PUBREL", id |-> i, msg |-> NoMsg]
    <3>1. /\ acks' = acks \cup {n} /\ unrecorded' = unrecorded \ {yield.msg}
          /\ dlv' = [dlv EXCEPT ![yield.msg] = More(@)]
      BY <2>2 DEF PublishPacketDeliver, AckListRecord
    <3>2. n.type = "PUBREL" /\ n.id = i OBVIOUS
    <3> HIDE DEF n
    <3>3. NodeIsExist("PUBREL", i)' BY <3>1, <3>2 DEF NodeIsExist
    <3>4. QED BY <1>4, <2>2, <3>1, <3>3
  <2>3. CASE PublishPacketNoMemory
    <3>1. /\ acks' = acks /\ ~NodeIsExist("PUBREL", i) /\ unrecorded' = unrecorded \cup {yield.msg}
          /\ dlv' = [dlv EXCEPT ![yield.msg] = More(@)]
      BY <2>3 DEF PublishPacketNoMemory, AckListNoMemory
    <3>2. ~NodeIsExist("PUBREL", i)' BY <3>1 DEF NodeIsExist
    <3>3. QED BY <1>4, <3>1, <3>2
  <2>4. QED BY <2>1, <2>2, <2>3 DEF Delivering
<1>6. Got(i)' /\ dlv'[bOut[i].msg] > 0 /\ (Received(i)' \/ Forgot(i)')
  <2>1. yield.msg \in In /\ dlv \in [In -> 0..2] BY DEF TypeOK, HistoryTypes, In
  <2>2. CASE Received(i) BY <1>1, <1>3, <1>5, <2>2 DEF Got
  <2>3. CASE ~Received(i)
    <3>1. dlv'[yield.msg] = More(dlv[yield.msg]) BY <1>5, <2>1, <2>3
    <3>2. Received(i)' \/ yield.msg \in unrecorded' BY <1>5, <2>3
    <3>3. QED BY <1>1, <1>3, <2>1, <3>1, <3>2 DEF Got, More, Forgot
  <2>4. QED BY <2>2, <2>3
<1>7. /\ \A k : Sent(k, i)' <=> Sent(k, i)
      /\ \A k : Asked(k, i)' <=> Asked(k, i)
      /\ Foreign(i)' = Foreign(i)
  BY <1>1 DEF Sent, Asked, Foreign
<1>8. Requested(i)' /\ i \notin bResend BY <1>1, <1>2, <1>7 DEF Exchange, Requested
<1>9. ~Sent("PUBACK", i) BY <1>3 DEF Exchange, Once1
<1>10. Once1(i)' BY <1>1, <1>7, <1>9 DEF Exchange, Once1
<1>11. Known(i)' BY <1>1, <1>2, <1>3, <1>6 DEF Known
<1>12. bOut[i].st = "rec" => AwaitsRec(i)'
  BY <1>1, <1>2, <1>3, <1>6, <1>7, <1>8 DEF Exchange, AwaitsRec
<1>13. bOut[i].st = "comp" => AwaitsComp(i)'
  BY <1>1, <1>2, <1>3, <1>6, <1>7 DEF Exchange, AwaitsComp
<1>14. QED BY <1>1, <1>3, <1>5, <1>6, <1>8, <1>10, <1>11, <1>12, <1>13 DEF Exchange

(* The client answers a PUBREL and is about to forget the message. *)
LEMMA AnswersPubrel ==
  ASSUME TypeOK, PubrelPacketHandle, NEW i \in BrokerIds, i = Head(b2c).id, Exchange(i)
  PROVE  Exchange(i)'
<1> DEFINE h == Head(b2c)
           x == Pkt("PUBCOMP", h.id, NoMsg)
<1>1. /\ b2c # <<>> /\ h.kind = "PUBREL" /\ b2c' = Tail(b2c) /\ link /\ yield.pc = "loop"
      /\ Send(x) /\ yield' = [pc |-> "unrecord", kind |-> "PUBREL", id |-> i, msg |-> NoMsg]
      /\ UNCHANGED <<acks, bOut, bResend, dlv, unrecorded>>
  BY DEF PubrelPacketHandle, Read, client, broker, history
<1>2. h \in Packet(In, BrokerIds) /\ c2b \in Seq(Packet(Out, PacketId)) /\ b2c \in Seq(Packet(In, BrokerIds))
  BY <1>1, HeadTypes DEF TypeOK, NetTypes
<1>3. i \in PacketId BY SessionAssumption
<1>4. x \in Packet(Out, PacketId) /\ x.id = i /\ x.kind = "PUBCOMP"
  BY <1>3, AckPackets DEF Pkt, AckType
<1>5. c2b' = Append(c2b, x) BY <1>1 DEF Send
<1>6. h \in Of("PUBREL", i) /\ h \notin Of("PUBLISH", i) BY <1>1, <1>2, OfIs
<1>7. x \notin Of("PUBACK", i) /\ x \notin Of("PUBREC", i) BY <1>4, OfIs
<1> HIDE DEF h, x
<1>8. /\ Asked("PUBREL", i)
      /\ Asked("PUBLISH", i)' <=> Asked("PUBLISH", i)
      /\ Lacks(b2c, Foreign(i)) => Lacks(b2c', Foreign(i))
      /\ AtMostOne(b2c, Of("PUBLISH", i)) => AtMostOne(b2c', Of("PUBLISH", i))
      /\ Precede(b2c, Of("PUBREL", i), Of("PUBLISH", i)) =>
           Precede(b2c', Of("PUBREL", i), Of("PUBLISH", i))
      /\ Precede(b2c, Of("PUBLISH", i), Of("PUBREL", i)) =>
           ~Asked("PUBLISH", i) /\ Precede(b2c', Of("PUBLISH", i), Of("PUBREL", i))
  BY <1>1, <1>2, <1>6, TailOrder DEF Asked, h
<1>9. /\ Sent("PUBACK", i)' <=> Sent("PUBACK", i)
      /\ Sent("PUBREC", i)' <=> Sent("PUBREC", i)
      /\ AtMostOne(c2b, Of("PUBACK", i)) => AtMostOne(c2b', Of("PUBACK", i))
      /\ Precede(c2b, Of("PUBCOMP", i), Of("PUBREC", i)) /\ ~Sent("PUBREC", i) =>
           Precede(c2b', Of("PUBCOMP", i), Of("PUBREC", i))
      /\ Precede(c2b, Of("PUBREC", i), Of("PUBCOMP", i)) =>
           Precede(c2b', Of("PUBREC", i), Of("PUBCOMP", i))
  BY <1>2, <1>4, <1>5, <1>7, AppendOrder DEF Sent
<1>10. /\ ~Received(i)' /\ ~InHand2(i) /\ ~InHand2(i)'
       /\ (Got(i)' <=> Got(i)) /\ (Forgot(i)' <=> Forgot(i))
       /\ Foreign(i)' = Foreign(i)
  BY <1>1 DEF Received, InHand2, Got, Forgot, Foreign
<1>11. Delivered(bOut[i].msg) > 0 => Delivered(bOut[i].msg)' > 0
  <2>1. Delivered(bOut[i].msg) > 0 /\ bOut[i].msg \notin Out => dlv[bOut[i].msg] > 0
    BY <1>1 DEF Delivered, InHand
  <2>2. fwd' = fwd BY DEF PubrelPacketHandle, history
  <2>3. QED BY <1>1, <2>1, <2>2 DEF Delivered, InHand
<1>12. Requested(i)' BY <1>1, <1>8, <1>9, <1>10 DEF Exchange, Requested
<1>13. Once1(i)' BY <1>1, <1>8, <1>9, <1>11 DEF Exchange, Once1
<1>14. Known(i)' BY <1>1, <1>9, <1>10 DEF Exchange, Known
<1>15. bOut[i].st = "rec" => AwaitsRec(i)'
  BY <1>8, <1>9, <1>10 DEF Exchange, AwaitsRec
<1>16. bOut[i].st = "comp" => AwaitsComp(i)'
  BY <1>8, <1>9, <1>10 DEF Exchange, AwaitsComp
<1>17. QED BY <1>1, <1>12, <1>13, <1>14, <1>15, <1>16 DEF Exchange

(* The client repeats a PUBREC for a message it remembers. *)
LEMMA RepeatsPubrec ==
  ASSUME TypeOK, NEW n \in acks, n.type = "PUBREL", Send(Payload(n)), yield.pc # "unrecord",
         UNCHANGED <<acks, yield, b2c, bOut, bResend, dlv, unrecorded, fwd>>,
         NEW i \in BrokerIds, i = n.id, Exchange(i)
  PROVE  Exchange(i)'
<1> DEFINE x == Payload(n)
<1>1. x \in Packet(Out, PacketId) /\ x.id = i /\ x.kind = "PUBREC"
  <2>1. n \in Node BY DEF TypeOK, ListTypes
  <2>2. QED BY <2>1, PayloadType DEF Payload, Pkt
<1>2. x \notin Of("PUBACK", i) /\ x \notin Of("PUBCOMP", i) BY <1>1, OfIs
<1>3. Send(x) OBVIOUS
<1> HIDE DEF x
<1>4. Received(i) /\ Received(i)' BY DEF Received, NodeIsExist
<1>5. Got(i) /\ bOut[i].st \in {"rec", "comp"} BY <1>4 DEF Exchange, Known
<1>6. ~Sent("PUBACK", i) BY <1>5 DEF Exchange, Once1
<1>7. /\ ~Sent("PUBACK", i)'
      /\ Sent("PUBCOMP", i)' => Sent("PUBCOMP", i)
      /\ AtMostOne(c2b, Of("PUBACK", i)) => AtMostOne(c2b', Of("PUBACK", i))
      /\ Precede(c2b, Of("PUBCOMP", i), Of("PUBREC", i)) =>
           Precede(c2b', Of("PUBCOMP", i), Of("PUBREC", i))
      /\ Precede(c2b, Of("PUBREC", i), Of("PUBCOMP", i)) /\ ~Sent("PUBCOMP", i) =>
           Precede(c2b', Of("PUBREC", i), Of("PUBCOMP", i))
  BY <1>1, <1>2, <1>3, <1>6, SendOrder DEF TypeOK, Sent
<1>8. /\ InHand2(i)' <=> InHand2(i)
      /\ (Got(i)' <=> Got(i)) /\ (Forgot(i)' <=> Forgot(i))
      /\ Foreign(i)' = Foreign(i)
      /\ \A k : Asked(k, i)' <=> Asked(k, i)
  BY DEF InHand2, Got, Forgot, Foreign, Asked
<1>9. Requested(i)' BY <1>7, <1>8 DEF Exchange, Requested
<1>10. Once1(i)' BY <1>7 DEF Exchange, Once1
<1>11. Known(i)' BY <1>4, <1>5, <1>8 DEF Exchange, Known
<1>12. bOut[i].st = "rec" => AwaitsRec(i)'
  BY <1>4, <1>5, <1>7, <1>8 DEF Exchange, AwaitsRec
<1>13. bOut[i].st = "comp" => AwaitsComp(i)'
  BY <1>4, <1>5, <1>7, <1>8 DEF Exchange, AwaitsComp
<1>14. QED BY <1>9, <1>10, <1>11, <1>12, <1>13 DEF Exchange

(* The last ack frees the identifier, and nothing of its exchange is left    *)
(* but what a reconnect has still to look at.                                *)
LEMMA EndsExchange ==
  ASSUME TypeOK, Slots, BrokerOnLastAck, NEW i \in BrokerIds, i = Head(c2b).id, Exchange(i)
  PROVE  /\ Exchange(i)'
         /\ bOut' = bOut \/ (bOut' = [bOut EXCEPT ![i] = Free] /\ Delivered(bOut[i].msg) > 0)
<1> DEFINE h == Head(c2b)
<1>1. /\ c2b # <<>> /\ c2b' = Tail(c2b)
      /\ UNCHANGED <<acks, bResend, dlv, unrecorded, b2c, fwd, yield>>
      /\ \/ h.kind = "PUBACK" /\ bOut' = [bOut EXCEPT ![i] = IF @.st = "ack" THEN Free ELSE @]
         \/ h.kind = "PUBCOMP" /\ bOut' = [bOut EXCEPT ![i] = IF @.st = "comp" THEN Free ELSE @]
  BY DEF BrokerOnLastAck, BrokerRead, client
<1>2. h \in Packet(Out, PacketId) /\ c2b \in Seq(Packet(Out, PacketId))
  BY <1>1, HeadTypes DEF TypeOK, NetTypes
<1>3. bOut \in [BrokerIds -> [st : {"free", "ack", "rec", "comp"}, msg : In \cup {NoMsg}]]
  BY DEF TypeOK, BrokerTypes
<1>4. h.kind \in AckType => h \in Of(h.kind, i) /\ \A k : k # h.kind => h \notin Of(k, i)
  BY <1>2, OfIs
<1> HIDE DEF h
<1>5. \A k : ~Sent(k, i) => ~Sent(k, i)'
  BY <1>1, <1>2, TailOrder DEF Sent
<1>6. /\ Received(i)' <=> Received(i)
      /\ InHand2(i)' <=> InHand2(i)
      /\ \A k : Asked(k, i)' <=> Asked(k, i)
      /\ \A m : Delivered(m)' = Delivered(m)
  BY <1>1 DEF Received, NodeIsExist, InHand2, Asked, Delivered, InHand
<1>7. AtMostOne(c2b', Of("PUBACK", i))
  BY <1>1, <1>2, TailOrder DEF Exchange, Once1
<1>8. ASSUME /\ bOut' = [bOut EXCEPT ![i] = Free]
             /\ ~Asked("PUBLISH", i) /\ ~Sent("PUBACK", i)' /\ ~Sent("PUBREC", i)'
             /\ ~Received(i) /\ ~InHand2(i)
      PROVE  Exchange(i)'
  <2>1. bOut'[i] = Free /\ Free.st = "free" BY <1>3, <1>8 DEF Free
  <2>2. Lacks(b2c', Foreign(i)')
    <3>1. Lacks(b2c', Of("PUBLISH", i)) BY <1>1, <1>8 DEF Asked
    <3>2. Foreign(i)' \subseteq Of("PUBLISH", i) BY DEF Foreign
    <3>3. QED BY <3>1, <3>2 DEF Lacks
  <2>3. Requested(i)' BY <1>1, <1>6, <1>8, <2>2 DEF Exchange, Requested
  <2>4. Once1(i)' BY <1>7, <1>8 DEF Once1
  <2>5. Known(i)' BY <1>6, <1>8 DEF Known
  <2>6. QED BY <2>1, <2>3, <2>4, <2>5 DEF Exchange
<1>9. CASE h.kind = "PUBACK"
  <2>1. h \in Of("PUBACK", i) BY <1>4, <1>9 DEF AckType
  <2>2. Sent("PUBACK", i) /\ ~Sent("PUBACK", i)'
    <3>1. AtMostOne(c2b, Of("PUBACK", i)) BY DEF Exchange, Once1
    <3>2. QED BY <1>1, <1>2, <2>1, <3>1, TailOrder DEF Sent, h
  <2>3. /\ bOut[i].st = "ack" /\ Delivered(bOut[i].msg) > 0 /\ ~Asked("PUBLISH", i)
    BY <2>2 DEF Exchange, Once1
  <2>4. ~Sent("PUBREC", i) /\ ~Received(i) /\ ~InHand2(i)
    BY <2>3 DEF Exchange, Known
  <2>5. bOut' = [bOut EXCEPT ![i] = Free] BY <1>1, <1>3, <1>9, <2>3
  <2>6. QED BY <1>5, <1>8, <2>2, <2>3, <2>4, <2>5
<1>10. CASE h.kind = "PUBCOMP" /\ bOut[i].st = "comp"
  <2>1. h \in Of("PUBCOMP", i) BY <1>4, <1>10 DEF AckType
  <2>2. Sent("PUBCOMP", i) /\ AwaitsComp(i)
    BY <1>1, <1>2, <1>10, <2>1, TailOrder DEF Sent, Exchange, h
  <2>3. Got(i) /\ ~Received(i) /\ ~InHand2(i) /\ ~Asked("PUBLISH", i) BY <2>2 DEF AwaitsComp
  <2>4. ~Sent("PUBREC", i)
    <3>1. Precede(c2b, Of("PUBREC", i), Of("PUBCOMP", i)) BY <2>2 DEF AwaitsComp
    <3>2. QED BY <1>1, <1>2, <2>1, <3>1, TailOrder DEF Sent, h
  <2>5. ~Sent("PUBACK", i) BY <1>10 DEF Exchange, Once1
  <2>6. bOut' = [bOut EXCEPT ![i] = Free] BY <1>1, <1>3, <1>10
  <2>7. Delivered(bOut[i].msg) > 0
    <3>1. bOut[i].msg \in InQ2 BY <1>10 DEF Slots
    <3>2. bOut[i].msg \notin Out /\ bOut[i].msg \notin InQ1 BY <3>1, SessionAssumption DEF In
    <3>3. QED BY <2>3, <3>2 DEF Delivered, Got
  <2>8. QED BY <1>5, <1>8, <2>3, <2>4, <2>5, <2>6, <2>7
<1>11. CASE h.kind = "PUBCOMP" /\ bOut[i].st # "comp"
  <2>1. bOut' = bOut BY <1>1, <1>3, <1>11
  <2>2. h \notin Of("PUBACK", i) /\ h \notin Of("PUBREC", i) BY <1>4, <1>11 DEF AckType
  <2>3. /\ Sent("PUBACK", i)' <=> Sent("PUBACK", i)
        /\ Sent("PUBREC", i)' <=> Sent("PUBREC", i)
        /\ Precede(c2b, Of("PUBCOMP", i), Of("PUBREC", i)) =>
             Precede(c2b', Of("PUBCOMP", i), Of("PUBREC", i))
    BY <1>1, <1>2, <2>2, TailOrder DEF Sent, h
  <2>4. (Got(i)' <=> Got(i)) /\ (Forgot(i)' <=> Forgot(i)) /\ Foreign(i)' = Foreign(i)
    BY <1>1, <2>1 DEF Got, Forgot, Foreign
  <2>5. Requested(i)' BY <1>1, <1>6, <2>1, <2>3, <2>4 DEF Exchange, Requested
  <2>6. Once1(i)' BY <1>6, <1>7, <2>1, <2>3 DEF Exchange, Once1
  <2>7. Known(i)' BY <1>1, <1>6, <2>1, <2>3, <2>4 DEF Exchange, Known
  <2>8. bOut[i].st = "rec" => AwaitsRec(i)'
    BY <1>1, <1>6, <2>1, <2>3, <2>4 DEF Exchange, AwaitsRec
  <2>9. QED BY <1>11, <2>1, <2>5, <2>6, <2>7, <2>8 DEF Exchange
<1>12. QED BY <1>1, <1>9, <1>10, <1>11

(* The PUBREC: from now on the broker repeats PUBREL. *)
LEMMA ReleasesMessage ==
  ASSUME TypeOK, BrokerOnPubrec, NEW i \in BrokerIds, i = Head(c2b).id, Exchange(i)
  PROVE  Exchange(i)' /\ bOut[i].st \in {"rec", "comp"}
<1> DEFINE h == Head(c2b)
           x == Pkt("PUBREL", i, NoMsg)
<1>1. /\ c2b # <<>> /\ c2b' = Tail(c2b) /\ h.kind = "PUBREC"
      /\ UNCHANGED <<acks, bResend, dlv, unrecorded, fwd, yield>>
      /\ bOut' = [bOut EXCEPT ![i] = IF @.st = "rec" THEN [st |-> "comp", msg |-> @.msg] ELSE @]
      /\ Reply(x) \/ bOut[i].st \notin {"rec", "comp"}
  BY DEF BrokerOnPubrec, BrokerRead, client
<1>2. /\ h \in Packet(Out, PacketId) /\ c2b \in Seq(Packet(Out, PacketId))
      /\ b2c \in Seq(Packet(In, BrokerIds))
  BY <1>1, HeadTypes DEF TypeOK, NetTypes
<1>3. bOut \in [BrokerIds -> [st : {"free", "ack", "rec", "comp"}, msg : In \cup {NoMsg}]]
  BY DEF TypeOK, BrokerTypes
<1>4. h \in Of("PUBREC", i) /\ h \notin Of("PUBACK", i) /\ h \notin Of("PUBCOMP", i)
  BY <1>1, <1>2, OfIs
<1>5. x \in Packet(In, BrokerIds) /\ x.kind = "PUBREL" /\ x.id = i
  BY SessionAssumption, AckPackets DEF Pkt, AckType
<1>6. x \notin Of("PUBLISH", i) /\ x \notin Foreign(i) BY <1>5, OfIs DEF Foreign
<1> HIDE DEF h, x
<1>7. Sent("PUBREC", i) BY <1>1, <1>2, <1>4, TailOrder DEF Sent, h
<1>8. bOut[i].st \in {"rec", "comp"} BY <1>7 DEF Exchange, Known
<1>9. b2c' = Append(b2c, x) BY <1>1, <1>8 DEF Reply
<1>10. bOut'[i].st = "comp" /\ bOut'[i].msg = bOut[i].msg BY <1>1, <1>3, <1>8
<1>11. ~Sent("PUBACK", i) BY <1>8 DEF Exchange, Once1
<1>12. /\ ~Sent("PUBACK", i)' /\ (~Sent("PUBCOMP", i) => ~Sent("PUBCOMP", i)')
       /\ AtMostOne(c2b, Of("PUBACK", i)) => AtMostOne(c2b', Of("PUBACK", i))
       /\ Precede(c2b, Of("PUBREC", i), Of("PUBCOMP", i)) =>
            Precede(c2b', Of("PUBREC", i), Of("PUBCOMP", i))
       /\ Precede(c2b, Of("PUBCOMP", i), Of("PUBREC", i)) => ~Sent("PUBCOMP", i)
  BY <1>1, <1>2, <1>4, <1>11, TailOrder DEF Sent, h
<1>13. /\ Asked("PUBLISH", i)' <=> Asked("PUBLISH", i)
       /\ Lacks(b2c, Foreign(i)) => Lacks(b2c', Foreign(i))
       /\ AtMostOne(b2c, Of("PUBLISH", i)) => AtMostOne(b2c', Of("PUBLISH", i))
       /\ Precede(b2c, Of("PUBLISH", i), Of("PUBREL", i)) =>
            Precede(b2c', Of("PUBLISH", i), Of("PUBREL", i))
  BY <1>2, <1>5, <1>6, <1>9, AppendOrder DEF Asked
<1>14. /\ Received(i)' <=> Received(i)
       /\ InHand2(i)' <=> InHand2(i)
       /\ Got(i)' <=> Got(i)
       /\ Foreign(i)' = Foreign(i)
  BY <1>1, <1>8, <1>10 DEF Received, NodeIsExist, InHand2, Got, Foreign
<1>15. Requested(i)' BY <1>1, <1>12, <1>13, <1>14 DEF Exchange, Requested
<1>16. Once1(i)' BY <1>12 DEF Exchange, Once1
<1>17. Known(i)'
  <2>1. Forgot(i)' <=> Forgot(i) BY <1>1, <1>10 DEF Forgot
  <2>2. QED BY <1>1, <1>10, <1>13, <1>14, <2>1 DEF Exchange, Known
<1>18. AwaitsComp(i)'
  <2>1. CASE bOut[i].st = "comp"
    BY <1>4, <1>7, <1>12, <1>13, <1>14, <2>1 DEF Exchange, AwaitsComp
  <2>2. CASE bOut[i].st = "rec"
    <3>1. AwaitsRec(i) BY <2>2 DEF Exchange
    <3>2. ~Sent("PUBCOMP", i)' BY <1>12, <3>1 DEF AwaitsRec
    <3>3. (Got(i) \/ InHand2(i)) /\ (Asked("PUBLISH", i) => Received(i))
      BY <1>7, <3>1 DEF AwaitsRec, Exchange, Known
    <3>4. Precede(c2b', Of("PUBREC", i), Of("PUBCOMP", i))
      BY <3>2, NoOrder DEF Sent
    <3>5. Precede(b2c', Of("PUBLISH", i), Of("PUBREL", i))
      <4>1. ~Asked("PUBREL", i) BY <1>7, <3>1 DEF AwaitsRec
      <4>2. Precede(b2c, Of("PUBLISH", i), Of("PUBREL", i)) BY <4>1, NoOrder DEF Asked
      <4>3. QED BY <1>13, <4>2
    <3>6. QED BY <1>13, <1>14, <3>2, <3>3, <3>4, <3>5 DEF AwaitsComp
  <2>3. QED BY <1>8, <2>1, <2>2
<1>19. QED BY <1>8, <1>10, <1>15, <1>16, <1>17, <1>18 DEF Exchange

(* After a reconnect the broker sends again what it waits for. *)
LEMMA ResendsRequest ==
  ASSUME TypeOK, Slots, NEW i \in BrokerIds, BrokerResend(i), Exchange(i)
  PROVE  Exchange(i)'
<1> DEFINE x == BrokerPacket(i)
<1>1. /\ i \in bResend /\ bResend' = bResend \ {i}
      /\ bOut[i].st = "free" => b2c' = b2c
      /\ bOut[i].st # "free" => Reply(x)
      /\ UNCHANGED <<acks, c2b, dlv, unrecorded, fwd, yield, bOut>>
  BY DEF BrokerResend, client, history
<1>2. ~Asked("PUBLISH", i) /\ ~Sent("PUBACK", i) /\ ~InHand2(i)
  BY <1>1 DEF Exchange, Requested
<1>3. i \in PacketId /\ b2c \in Seq(Packet(In, BrokerIds))
  BY SessionAssumption DEF TypeOK, NetTypes
<1>4. /\ Received(i)' <=> Received(i)
      /\ ~InHand2(i)'
      /\ (Got(i)' <=> Got(i)) /\ (Forgot(i)' <=> Forgot(i))
      /\ Foreign(i)' = Foreign(i)
      /\ \A k : Sent(k, i)' <=> Sent(k, i)
  BY <1>1, <1>2 DEF Received, NodeIsExist, InHand2, Got, Forgot, Foreign, Sent
<1>5. ASSUME Lacks(b2c', Foreign(i)), AtMostOne(b2c', Of("PUBLISH", i)),
             bOut[i].st = "rec" => AwaitsRec(i)', bOut[i].st = "comp" => AwaitsComp(i)'
      PROVE  Exchange(i)'
  <2>1. Requested(i)' BY <1>1, <1>4, <1>5 DEF Requested
  <2>2. Once1(i)' BY <1>1, <1>2, <1>4 DEF Exchange, Once1
  <2>3. Known(i)' BY <1>1, <1>2, <1>4 DEF Exchange, Known
  <2>4. QED BY <1>1, <1>5, <2>1, <2>2, <2>3 DEF Exchange
<1>6. CASE bOut[i].st = "free"
  <2>1. b2c' = b2c BY <1>1, <1>6
  <2>2. QED BY <1>5, <1>6, <2>1 DEF Exchange, Requested
<1>7. CASE bOut[i].st \notin {"free", "comp"}
  <2>1. x = Pkt("PUBLISH", i, bOut[i].msg) BY <1>7 DEF BrokerPacket
  <2>2. bOut[i].msg \in In BY <1>7 DEF TypeOK, BrokerTypes
  <2>3. /\ x \in Packet(In, BrokerIds) /\ x.kind = "PUBLISH" /\ x.id = i /\ x.msg = bOut[i].msg
    BY <1>3, <2>1, <2>2 DEF Pkt, Packet, Kind
  <2> HIDE DEF x
  <2>4. x \in Of("PUBLISH", i) /\ x \notin Of("PUBREL", i) BY <2>3, OfIs
  <2>5. x \notin Foreign(i) BY <1>7, <2>3 DEF Foreign
  <2>6. b2c' = Append(b2c, x) BY <1>1, <1>7 DEF Reply
  <2>7. /\ Asked("PUBLISH", i)'
        /\ Asked("PUBREL", i)' <=> Asked("PUBREL", i)
        /\ Lacks(b2c, Foreign(i)) => Lacks(b2c', Foreign(i))
        /\ AtMostOne(b2c, Of("PUBLISH", i)) => AtMostOne(b2c', Of("PUBLISH", i))
        /\ Precede(b2c, Of("PUBREL", i), Of("PUBLISH", i)) =>
             Precede(b2c', Of("PUBREL", i), Of("PUBLISH", i))
    BY <1>2, <1>3, <2>3, <2>4, <2>5, <2>6, AppendOrder DEF Asked
  <2>8. bOut[i].st = "rec" => AwaitsRec(i)'
    BY <1>1, <1>2, <1>4, <2>7 DEF Exchange, AwaitsRec
  <2>9. QED BY <1>5, <1>7, <2>7, <2>8 DEF Exchange, Requested
<1>8. CASE bOut[i].st = "comp"
  <2>1. x = Pkt("PUBREL", i, NoMsg) BY <1>8 DEF BrokerPacket
  <2>2. /\ x \in Packet(In, BrokerIds) /\ x.kind = "PUBREL" /\ x.id = i
    BY <1>3, <2>1, AckPackets DEF Pkt, AckType
  <2> HIDE DEF x
  <2>3. x \notin Of("PUBLISH", i) /\ x \notin Foreign(i) BY <2>2, OfIs DEF Foreign
  <2>4. b2c' = Append(b2c, x) BY <1>1, <1>8 DEF Reply
  <2>5. /\ Asked("PUBLISH", i)' <=> Asked("PUBLISH", i)
        /\ Lacks(b2c, Foreign(i)) => Lacks(b2c', Foreign(i))
        /\ AtMostOne(b2c, Of("PUBLISH", i)) => AtMostOne(b2c', Of("PUBLISH", i))
        /\ Precede(b2c, Of("PUBLISH", i), Of("PUBREL", i)) =>
             Precede(b2c', Of("PUBLISH", i), Of("PUBREL", i))
    BY <1>3, <2>2, <2>3, <2>4, AppendOrder DEF Asked
  <2>6. AwaitsComp(i)' BY <1>1, <1>2, <1>4, <1>8, <2>5 DEF Exchange, AwaitsComp
  <2>7. QED BY <1>5, <1>8, <2>5, <2>6 DEF Exchange, Requested
<1>9. QED BY <1>6, <1>7, <1>8

(* A new exchange starts with nothing of the last one under way. *)
LEMMA StartsExchange ==
  ASSUME TypeOK, Slots, NEW m \in In, NEW i \in BrokerIds, BrokerPublish(m, i), Exchange(i)
  PROVE  Exchange(i)'
<1> DEFINE x == Pkt("PUBLISH", i, m)
<1>1. /\ i \notin bResend /\ bOut[i].st = "free" /\ m \notin offered
      /\ bOut' = [bOut EXCEPT ![i] = [st |-> IF m \in InQ1 THEN "ack" ELSE "rec", msg |-> m]]
      /\ Reply(x) /\ UNCHANGED <<acks, c2b, dlv, unrecorded, fwd, yield, bResend>>
  BY DEF BrokerPublish, client
<1>2. i \in PacketId /\ b2c \in Seq(Packet(In, BrokerIds))
      /\ bOut \in [BrokerIds -> [st : {"free", "ack", "rec", "comp"}, msg : In \cup {NoMsg}]]
  BY SessionAssumption DEF TypeOK, NetTypes, BrokerTypes
<1>3. /\ x \in Packet(In, BrokerIds) /\ x.kind = "PUBLISH" /\ x.id = i /\ x.msg = m
  BY <1>2 DEF Pkt, Packet, Kind
<1> HIDE DEF x
<1>4. x \in Of("PUBLISH", i) /\ x \notin Of("PUBREL", i) BY <1>3, OfIs
<1>5. bOut'[i].msg = m /\ bOut'[i].st = IF m \in InQ1 THEN "ack" ELSE "rec"
  BY <1>1, <1>2
<1>6. b2c' = Append(b2c, x) BY <1>1 DEF Reply
<1>7. /\ ~Sent("PUBACK", i) /\ ~Sent("PUBREC", i) /\ ~Received(i) /\ ~InHand2(i)
  BY <1>1 DEF Exchange, Once1, Known
<1>8. Lacks(b2c, Of("PUBLISH", i))
  <2>1. Foreign(i) = Of("PUBLISH", i) BY <1>1 DEF Foreign
  <2>2. QED BY <2>1 DEF Exchange, Requested
<1>9. /\ ~Sent("PUBACK", i)' /\ ~Sent("PUBREC", i)' /\ ~Received(i)' /\ ~InHand2(i)'
  BY <1>1, <1>7 DEF Sent, Received, NodeIsExist, InHand2
<1>10. x \notin Foreign(i)' /\ Lacks(b2c, Foreign(i)')
  <2>1. x \notin Foreign(i)'
    BY <1>3, <1>5 DEF Foreign
  <2>2. Foreign(i)' \subseteq Of("PUBLISH", i) BY DEF Foreign
  <2>3. QED BY <1>8, <2>1, <2>2 DEF Lacks
<1>11. /\ Asked("PUBLISH", i)' /\ Lacks(b2c', Foreign(i)')
       /\ AtMostOne(b2c', Of("PUBLISH", i))
       /\ Precede(b2c', Of("PUBREL", i), Of("PUBLISH", i))
  <2>1. AtMostOne(b2c, Of("PUBLISH", i)) /\ Precede(b2c, Of("PUBREL", i), Of("PUBLISH", i))
    BY <1>8, NoOrder
  <2>2. QED BY <1>2, <1>3, <1>4, <1>6, <1>8, <1>10, <2>1, AppendOrder DEF Asked
<1>12. Requested(i)' BY <1>1, <1>11 DEF Requested
<1>13. Once1(i)' BY <1>1, <1>9 DEF Exchange, Once1
<1>14. Known(i)' BY <1>9 DEF Known
<1>15. AwaitsRec(i)'
  <2>1. ~Got(i)' BY <1>1, <1>5 DEF Got, Slots
  <2>2. Precede(c2b', Of("PUBCOMP", i), Of("PUBREC", i)) BY <1>9, NoOrder DEF Sent
  <2>3. QED BY <1>9, <1>11, <2>1, <2>2 DEF AwaitsRec
<1>16. QED BY <1>5, <1>12, <1>13, <1>14, <1>15 DEF Exchange
-----------------------------------------------------------------------------
(* All identifiers together.                                                 *)

(* A message in the hands of the yield thread stays there until it is        *)
(* delivered.                                                                *)
LEMMA HandSteps ==
  ASSUME TypeOK, [Next]_vars, ~Delivering
  PROVE  /\ UNCHANGED <<dlv, unrecorded>>
         /\ yield.pc = "deliver" => yield' = yield
         /\ yield'.pc = "deliver" => yield' = yield \/ PublishPacketHandle
<1>1. CASE User
  BY <1>1 DEF User, PublishCheck, PublishSend, PublishSendFails, PublishRecord, PublishTooMuch,
     PublishNoMemory, PublishRelease, history
<1>2. CASE Handle
  BY <1>2 DEF Handle, Delivering, PubackAndPubcompPacketHandle, PublishPacketHandle,
     PubrecPacketHandle, PubrecPacketNoMemory, PubrelPacketHandle, UnrecordAnswered, Read, Loop,
     history
<1>3. CASE Reconnect \/ Timeout
  BY <1>3 DEF Reconnect, KeepAliveLost, TryDoReconnect, ScanResend, ScanEnd, Timeout,
     ScanTimeout, Loop, history
<1>4. CASE Broker \/ KeepAliveSlow \/ LinkDown
  BY <1>4 DEF KeepAliveSlow, LinkDown, Broker, BrokerOnPublish, BrokerOnPubrel, BrokerOnLastAck,
     BrokerOnPubrec, BrokerResend, BrokerRead, history
<1>5. CASE \E m \in In, i \in BrokerIds : BrokerPublish(m, i)
  BY <1>5 DEF BrokerPublish
<1>6. CASE UNCHANGED vars BY <1>6 DEF vars, history
<1>7. QED BY <1>1, <1>2, <1>3, <1>4, <1>5, <1>6 DEF Next

(* A delivery, or a message in hand, is not taken back. *)
LEMMA DeliveredStays ==
  ASSUME TypeOK, [Next]_vars, NEW m \in In
  PROVE  /\ dlv[m] > 0 => dlv'[m] > 0
         /\ m \in InQ1 /\ Delivered(m) > 0 => Delivered(m)' > 0
<1>1. m \notin Out /\ dlv \in [In -> 0..2] BY SessionAssumption DEF TypeOK, HistoryTypes
<1>2. CASE Delivering
  <2>1. /\ yield.pc = "deliver" /\ yield.msg \in In /\ yield'.pc = "loop"
        /\ dlv' = dlv \/ dlv' = [dlv EXCEPT ![yield.msg] = More(@)]
    BY <1>2 DEF Delivering, PublishPacketDeliver, PublishPacketNoMemory, TypeOK, ThreadTypes, Loop
  <2>2. dlv[m] > 0 => dlv'[m] > 0 BY <1>1, <2>1 DEF More
  <2>3. m = yield.msg /\ m \in InQ1 => dlv'[m] > 0
    <3>1. m \in InQ1 => m \notin InQ2 BY SessionAssumption
    <3>2. m = yield.msg /\ m \in InQ1 => dlv'[m] = More(dlv[m])
      BY <1>1, <1>2, <3>1 DEF Delivering, PublishPacketDeliver, PublishPacketNoMemory
    <3>3. QED BY <1>1, <3>2 DEF More
  <2>4. QED BY <1>1, <2>1, <2>2, <2>3 DEF Delivered, InHand
<1>3. CASE ~Delivering
  <2>1. dlv' = dlv /\ (yield.pc = "deliver" => yield' = yield) BY <1>3, HandSteps
  <2>2. Delivered(m) = IF m \in InQ1 /\ InHand(m) THEN More(dlv[m]) ELSE dlv[m]
    BY <1>1 DEF Delivered
  <2>3. Delivered(m)' = IF m \in InQ1 /\ InHand(m)' THEN More(dlv'[m]) ELSE dlv'[m]
    BY <1>1 DEF Delivered
  <2>4. InHand(m) => InHand(m)' BY <2>1 DEF InHand
  <2>5. dlv[m] \in 0..2 BY <1>1
  <2>6. QED BY <2>1, <2>2, <2>3, <2>4, <2>5 DEF More
<1>4. QED BY <1>2, <1>3

LEMMA AckStays ==
  ASSUME TypeOK, Slots, [Next]_vars, NEW i \in BrokerIds, bOut'[i] = bOut[i],
         bOut[i].st = "ack", Delivered(bOut[i].msg) > 0
  PROVE  Delivered(bOut[i].msg)' > 0
<1>1. bOut[i].msg \in InQ1 /\ bOut[i].msg \in In BY DEF Slots, In
<1>2. ASSUME NEW q \in In, q \in InQ1, q = bOut[i].msg, Delivered(q) > 0
      PROVE  Delivered(bOut[i].msg)' > 0
  <2>1. Delivered(q)' > 0 BY <1>2, DeliveredStays
  <2>2. bOut'[i].msg = q BY <1>2
  <2>3. QED BY <2>1, <2>2 DEF Delivered, InHand
<1>3. QED BY <1>1, <1>2

(* Steps that are not about the packets of identifier i. *)
LEMMA Aside ==
  ASSUME TypeOK, Slots, [Next]_vars, ~Delivering, ~PublishPacketHandle,
         NEW i \in BrokerIds, Exchange(i), bOut'[i] = bOut[i], i \in bResend' => i \in bResend,
         Keeps(c2b, c2b', AckKinds, i), Keeps(b2c, b2c', AskKinds, i),
         Lacks(b2c, Foreign(i)) => Lacks(b2c', Foreign(i)),
         Received(i)' <=> Received(i)
  PROVE  Exchange(i)'
<1>1. /\ UNCHANGED <<dlv, unrecorded>>
      /\ yield.pc = "deliver" => yield' = yield
      /\ yield'.pc = "deliver" => yield' = yield
  BY HandSteps
<1>2. (InHand2(i)' <=> InHand2(i)) /\ (InHand2(i) => yield'.msg = yield.msg)
  BY <1>1 DEF InHand2
<1>3. (Got(i)' <=> Got(i)) /\ (Forgot(i)' <=> Forgot(i)) BY <1>1 DEF Got, Forgot
<1>4. bOut[i].st = "ack" /\ Delivered(bOut[i].msg) > 0 => Delivered(bOut[i].msg)' > 0
  BY AckStays
<1>5. QED BY <1>2, <1>3, <1>4, Untouched

(* The handling of an incoming message concerns its identifier only. *)
LEMMA OthersInHand ==
  ASSUME TypeOK, Slots, [Next]_vars, PublishPacketHandle \/ Delivering,
         \A j \in BrokerIds : Exchange(j),
         NEW i \in BrokerIds,
         PublishPacketHandle => i # Head(b2c).id,
         Delivering => i # yield.id \/ yield.msg \notin InQ2
  PROVE  Exchange(i)'
<1>0. Exchange(i) /\ i \in PacketId BY SessionAssumption
<1>1. UNCHANGED <<bOut, bResend>>
  BY DEF PublishPacketHandle, Delivering, PublishPacketDeliver, PublishPacketNoMemory, broker
<1>2. bOut[i].st = "ack" /\ Delivered(bOut[i].msg) > 0 => Delivered(bOut[i].msg)' > 0
  BY <1>1, AckStays
<1>3. CASE PublishPacketHandle
  <2> DEFINE h == Head(b2c)
             x == Pkt(IF h.msg \in InQ1 THEN "PUBACK" ELSE "PUBREC", h.id, NoMsg)
  <2>1. /\ Read({"PUBLISH"}) /\ Send(x) /\ b2c # <<>> /\ yield.pc = "loop"
        /\ yield' = [pc |-> "deliver", kind |-> "PUBLISH", id |-> h.id, msg |-> h.msg]
        /\ UNCHANGED <<acks, dlv, unrecorded>> /\ h.id # i
    BY <1>3 DEF PublishPacketHandle, Read, client, history
  <2>2. h \in Packet(In, BrokerIds) BY <2>1, HeadTypes DEF TypeOK
  <2>3. x \in Packet(Out, PacketId) /\ x.id = h.id
    BY <2>2, SessionAssumption, AckPackets DEF Pkt, AckType, Packet
  <2> HIDE DEF x
  <2>4. Keeps(c2b, c2b', AckKinds, i) /\ Keeps(b2c, b2c', AskKinds, i)
        /\ (Lacks(b2c, Foreign(i)) => Lacks(b2c', Foreign(i)))
    BY <1>0, <2>1, <2>3, WiresKeep
  <2>5. /\ Received(i)' <=> Received(i)
        /\ ~InHand2(i) /\ ~InHand2(i)'
        /\ (Got(i)' <=> Got(i)) /\ (Forgot(i)' <=> Forgot(i))
    BY <1>1, <2>1 DEF Received, NodeIsExist, InHand2, Got, Forgot
  <2>6. QED BY <1>0, <1>1, <1>2, <2>4, <2>5, Untouched
<1>4. CASE Delivering
  <2>1. /\ yield.pc = "deliver" /\ yield' = Loop /\ UNCHANGED <<c2b, b2c>>
        /\ yield.msg \in InQ2 => \/ AckListRecord("PUBREL", yield.id, NoMsg)
                                 \/ AckListNoMemory("PUBREL", yield.id)
        /\ yield.msg \notin InQ2 => acks' = acks
        /\ dlv' = dlv \/ dlv' = [dlv EXCEPT ![yield.msg] = More(@)]
        /\ \A m : m # yield.msg => (m \in unrecorded' <=> m \in unrecorded)
        /\ i # yield.id \/ yield.msg \notin InQ2
    BY <1>4 DEF Delivering, PublishPacketDeliver, PublishPacketNoMemory, net
  <2>2. Received(i)' <=> Received(i)
    <3>1. CASE acks' = acks BY <2>1, <3>1 DEF Received, NodeIsExist, Loop
    <3>2. CASE /\ i # yield.id
               /\ AckListRecord("PUBREL", yield.id, NoMsg) \/ AckListNoMemory("PUBREL", yield.id)
      <4>1. acks \subseteq acks' /\ \A n \in acks' : n \in acks \/ n.id = yield.id
        BY <3>2, AckNode
      <4>2. NodeIsExist("PUBREL", i)' <=> NodeIsExist("PUBREL", i)
        BY <3>2, <4>1 DEF NodeIsExist
      <4>3. QED BY <2>1, <4>2 DEF Received, Loop
    <3>3. QED BY <2>1, <3>1, <3>2
  <2>3. ~InHand2(i) /\ ~InHand2(i)' BY <2>1 DEF InHand2, Loop
  <2>4. bOut[i].st \in {"rec", "comp"} => (Got(i)' <=> Got(i)) /\ (Forgot(i)' <=> Forgot(i))
    <3>1. ASSUME bOut[i].st \in {"rec", "comp"} PROVE bOut[i].msg # yield.msg
      <4>1. bOut[i].msg \in InQ2 /\ bOut[i].msg # NoMsg
        BY <3>1, SessionAssumption DEF Slots, In
      <4>2. CASE yield.msg \notin InQ2 BY <4>1, <4>2
      <4>3. CASE yield.msg \in InQ2
        <5>1. yield.id \in BrokerIds BY <2>1 DEF TypeOK, ThreadTypes
        <5>2. InHand2(yield.id) BY <2>1, <4>3 DEF InHand2
        <5>3. yield.msg = bOut[yield.id].msg BY <5>1, <5>2 DEF Exchange, Known
        <5>4. i # yield.id BY <2>1, <4>3
        <5>5. QED BY <4>1, <5>1, <5>3, <5>4 DEF Slots
      <4>4. QED BY <4>2, <4>3
    <3>2. ASSUME bOut[i].st \in {"rec", "comp"} PROVE dlv'[bOut[i].msg] = dlv[bOut[i].msg]
      <4>1. dlv \in [In -> 0..2] /\ yield.msg \in In
        BY <2>1 DEF TypeOK, HistoryTypes, ThreadTypes
      <4>2. bOut[i].msg \in In BY <3>2 DEF Slots, In
      <4>3. QED BY <2>1, <3>1, <3>2, <4>1, <4>2
    <3>3. QED BY <1>1, <2>1, <3>1, <3>2 DEF Got, Forgot
  <2>5. Keeps(c2b, c2b', AckKinds, i) /\ Keeps(b2c, b2c', AskKinds, i) BY <2>1, SameKeeps
  <2>6. QED BY <1>0, <1>1, <1>2, <2>1, <2>2, <2>3, <2>4, <2>5, Untouched
<1>5. QED BY <1>3, <1>4

(* The threads: only the handling of an incoming message, of its PUBREL and  *)
(* of a resend of its PUBREC concern an incoming exchange.                   *)
LEMMA ExchangeUser ==
  ASSUME TypeOK, Slots, [Next]_vars, User, NEW i \in BrokerIds, Exchange(i)
  PROVE  Exchange(i)'
<1>0. /\ UNCHANGED <<bOut, yield, dlv, unrecorded>> /\ ~Delivering /\ ~PublishPacketHandle
  <2>1. UNCHANGED <<bOut, yield, dlv, unrecorded>>
    BY DEF User, PublishCheck, PublishSend, PublishSendFails, PublishRecord, PublishTooMuch,
       PublishNoMemory, PublishRelease, broker, history
  <2>2. Delivering \/ PublishPacketHandle => yield' # yield
    BY DEF Delivering, PublishPacketDeliver, PublishPacketNoMemory, PublishPacketHandle, Loop, Read
  <2>3. QED BY <2>1, <2>2
<1>1. Received(i)' <=> Received(i)
  <2>1. \A n : n.type = "PUBREL" => (n \in acks' <=> n \in acks)
    <3>1. CASE PublishRecord
      <4> DEFINE t == AckOf(user.msg)
      <4>1. acks' = acks \/ acks' = acks \cup {[type |-> t, id |-> user.id, msg |-> user.msg]}
        BY <3>1 DEF PublishRecord, AckListRecord
      <4>2. t # "PUBREL" BY DEF AckOf
      <4>3. QED BY <4>1, <4>2
    <3>2. CASE (\E m \in Out : PublishCheck(m)) \/ PublishSend \/ PublishSendFails
               \/ PublishNoMemory \/ PublishTooMuch \/ PublishRelease
      BY <3>2 DEF PublishCheck, PublishSend, PublishSendFails, PublishTooMuch, PublishNoMemory,
         PublishRelease, AckListNoMemory, client
    <3>3. QED BY <3>1, <3>2 DEF User
  <2>2. NodeIsExist("PUBREL", i)' <=> NodeIsExist("PUBREL", i)
    BY <2>1 DEF NodeIsExist
  <2>3. QED BY <1>0, <2>2 DEF Received
<1>2. CASE PublishRelease
  <2>1. c2b' = <<>> /\ b2c' = <<>> /\ bResend' = {} BY <1>2 DEF PublishRelease, Close
  <2>2. InHand2(i)' <=> InHand2(i) BY <1>0 DEF InHand2
  <2>3. QED BY <1>0, <1>1, <2>1, <2>2, WiresEmpty
<1>3. CASE PublishSend
  <2> DEFINE x == Pkt("PUBLISH", GetNextPacketId, user.msg)
  <2>1. x \in Packet(Out, PacketId) /\ x.kind \notin AckKinds
    <3>1. GetNextPacketId \in PacketId BY NextIdType, SessionAssumption DEF TypeOK
    <3>2. user.msg \in Out BY <1>3 DEF PublishSend, TypeOK, ThreadTypes
    <3>3. QED BY <3>1, <3>2 DEF Pkt, Packet, Kind, AckKinds
  <2>2. Send(x) /\ UNCHANGED <<b2c, bResend>> BY <1>3 DEF PublishSend, broker
  <2> HIDE DEF x
  <2>3. Keeps(c2b, c2b', AckKinds, i) BY <2>1, <2>2, WiresKeep
  <2>4. QED BY <1>0, <1>1, <2>2, <2>3, SameKeeps, Aside
<1>4. CASE (\E m \in Out : PublishCheck(m)) \/ PublishSendFails \/ PublishRecord \/ PublishNoMemory \/ PublishTooMuch
  <2>1. UNCHANGED <<c2b, b2c, bResend>>
    BY <1>4 DEF PublishCheck, PublishSendFails, PublishRecord, PublishTooMuch, PublishNoMemory,
       net, broker
  <2>2. QED BY <1>0, <1>1, <2>1, SameKeeps, Aside
<1>5. QED BY <1>2, <1>3, <1>4 DEF User

LEMMA ExchangeHandle ==
  ASSUME TypeOK, Slots, Lists, [Next]_vars, Handle, NEW i \in BrokerIds,
         \A j \in BrokerIds : Exchange(j)
  PROVE  Exchange(i)'
<1> DEFINE h == Head(b2c)
<1>0. Exchange(i) /\ i \in PacketId BY SessionAssumption
<1>1. CASE PublishPacketHandle
  BY <1>0, <1>1, AnswersPublish, OthersInHand, HandSteps DEF PublishPacketHandle, Delivering,
     PublishPacketDeliver, PublishPacketNoMemory, Read
<1>2. CASE Delivering
  <2>1. ~PublishPacketHandle
    BY <1>2 DEF PublishPacketHandle, Delivering, PublishPacketDeliver, PublishPacketNoMemory, Read
  <2>2. QED BY <1>0, <1>2, <2>1, DeliversOnce, OthersInHand
<1>3. ASSUME NEW kinds, Read(kinds), Exchange(i) PROVE h \in Packet(In, BrokerIds) /\ yield.pc = "loop"
  BY <1>3, HeadTypes DEF Read, TypeOK
<1>4. ASSUME ~PublishPacketHandle, ~Delivering, UNCHANGED <<bOut, bResend>>,
             Received(i)' <=> Received(i),
             Keeps(c2b, c2b', AckKinds, i), Keeps(b2c, b2c', AskKinds, i),
             Lacks(b2c, Foreign(i)) => Lacks(b2c', Foreign(i))
      PROVE  Exchange(i)'
  BY <1>0, <1>4, Aside
<1>5. CASE PubackAndPubcompPacketHandle
  <2>1. /\ Read({"PUBACK", "PUBCOMP"}) /\ AckListUnrecord(h.kind, h.id)
        /\ UNCHANGED <<yield, c2b, bOut, bResend>> /\ h.kind \in {"PUBACK", "PUBCOMP"}
        /\ yield.pc = "loop"
    BY <1>5 DEF PubackAndPubcompPacketHandle, Read, broker
  <2>2. ~PublishPacketHandle /\ ~Delivering
    BY <2>1 DEF PublishPacketHandle, Delivering, PublishPacketDeliver, PublishPacketNoMemory
  <2>3. NodeIsExist("PUBREL", i)' <=> NodeIsExist("PUBREL", i)
    BY <2>1, FewerNodes DEF NodeIsExist
  <2>4. Received(i)' <=> Received(i) BY <2>1, <2>3 DEF Received
  <2>5. Keeps(b2c, b2c', AskKinds, i) /\ (Lacks(b2c, Foreign(i)) => Lacks(b2c', Foreign(i)))
    BY <2>1, WiresKeep DEF AskKinds
  <2>6. QED BY <1>4, <2>1, <2>2, <2>4, <2>5, SameKeeps
<1>6. CASE PubrecPacketHandle \/ PubrecPacketNoMemory
  <2> DEFINE x == Pkt("PUBREL", h.id, NoMsg)
  <2>1. /\ Read({"PUBREC"}) /\ h.kind = "PUBREC"
        /\ AckListRecord("PUBCOMP", h.id, NoMsg) \/ AckListNoMemory("PUBCOMP", h.id)
        /\ UNCHANGED c2b \/ Send(x)
        /\ yield' = [pc |-> "unrecord", kind |-> "PUBREC", id |-> h.id, msg |-> NoMsg]
        /\ UNCHANGED <<bOut, bResend>> /\ yield.pc = "loop"
    BY <1>6 DEF PubrecPacketHandle, PubrecPacketNoMemory, Read, broker
  <2>2. ~PublishPacketHandle /\ ~Delivering
    BY <2>1 DEF PublishPacketHandle, Delivering, PublishPacketDeliver, PublishPacketNoMemory
  <2>3. x \in Packet(Out, PacketId) /\ x.kind \notin AckKinds
    <3>1. h.id \in PacketId BY <1>0, <1>3, <2>1, SessionAssumption DEF Packet
    <3>2. QED BY <3>1, AckPackets DEF Pkt, AckType, AckKinds
  <2> HIDE DEF x
  <2>4. Keeps(c2b, c2b', AckKinds, i) BY <2>1, <2>3, WiresKeep, SameKeeps
  <2>5. Keeps(b2c, b2c', AskKinds, i) /\ (Lacks(b2c, Foreign(i)) => Lacks(b2c', Foreign(i)))
    BY <2>1, WiresKeep DEF AskKinds
  <2>6. NodeIsExist("PUBREL", i)' <=> NodeIsExist("PUBREL", i)
    <3>1. acks \subseteq acks' /\ \A n \in acks' : n \in acks \/ n.type = "PUBCOMP"
      BY <2>1, AckNode
    <3>2. QED BY <3>1 DEF NodeIsExist
  <2>7. Received(i)' <=> Received(i) BY <2>1, <2>6 DEF Received
  <2>8. QED BY <1>4, <2>1, <2>2, <2>4, <2>5, <2>7
<1>7. CASE PubrelPacketHandle
  <2>1. CASE i = h.id BY <1>0, <1>7, <2>1, AnswersPubrel
  <2>2. CASE i # h.id
    <3> DEFINE x == Pkt("PUBCOMP", h.id, NoMsg)
    <3>1. /\ Read({"PUBREL"}) /\ Send(x) /\ h.kind = "PUBREL"
          /\ yield' = [pc |-> "unrecord", kind |-> "PUBREL", id |-> h.id, msg |-> NoMsg]
          /\ UNCHANGED <<acks, bOut, bResend>> /\ yield.pc = "loop"
      BY <1>7 DEF PubrelPacketHandle, Read, broker, client
    <3>2. ~PublishPacketHandle /\ ~Delivering
      BY <3>1 DEF PublishPacketHandle, Delivering, PublishPacketDeliver, PublishPacketNoMemory
    <3>3. x \in Packet(Out, PacketId) /\ x.id = h.id
      <4>1. h.id \in PacketId BY <1>0, <1>3, <3>1, SessionAssumption DEF Packet
      <4>2. QED BY <4>1, AckPackets DEF Pkt, AckType
    <3> HIDE DEF x
    <3>4. Keeps(c2b, c2b', AckKinds, i) BY <2>2, <3>1, <3>3, WiresKeep
    <3>5. Keeps(b2c, b2c', AskKinds, i) /\ (Lacks(b2c, Foreign(i)) => Lacks(b2c', Foreign(i)))
      BY <2>2, <3>1, WiresKeep
    <3>6. Received(i)' <=> Received(i) BY <2>2, <3>1 DEF Received, NodeIsExist
    <3>7. QED BY <1>4, <3>1, <3>2, <3>4, <3>5, <3>6
  <2>3. QED BY <2>1, <2>2
<1>8. CASE UnrecordAnswered
  <2>1. /\ yield.pc = "unrecord" /\ yield' = Loop /\ UNCHANGED <<c2b, b2c, bOut, bResend>>
        /\ acks' = acks \ {n \in acks : n.type = yield.kind /\ n.id = yield.id}
    BY <1>8 DEF UnrecordAnswered, AckListUnrecord, net, broker
  <2>2. ~PublishPacketHandle /\ ~Delivering
    BY <2>1 DEF PublishPacketHandle, Delivering, PublishPacketDeliver, PublishPacketNoMemory, Read
  <2>3. Received(i)' <=> Received(i) BY <2>1 DEF Received, NodeIsExist, Loop
  <2>4. QED BY <1>4, <2>1, <2>2, <2>3, SameKeeps
<1>9. QED BY <1>1, <1>2, <1>5, <1>6, <1>7, <1>8 DEF Handle, Delivering

LEMMA ExchangeRest ==
  ASSUME ~CleanSession, TypeOK, Slots, Lists, [Next]_vars, Reconnect \/ Timeout,
         NEW i \in BrokerIds, Exchange(i)
  PROVE  Exchange(i)'
<1>1. CASE KeepAliveLost \/ ScanEnd
  <2>1. /\ UNCHANGED <<acks, c2b, b2c, bOut, bResend>>
        /\ yield' = yield \/ (yield.pc = "scan" /\ yield' = Loop)
    BY <1>1 DEF KeepAliveLost, ScanEnd, client, net, broker
  <2>2. ~PublishPacketHandle /\ ~Delivering
    BY <1>1 DEF KeepAliveLost, ScanEnd, PublishPacketHandle, Delivering, PublishPacketDeliver,
       PublishPacketNoMemory, Read
  <2>3. Received(i)' <=> Received(i) BY <2>1 DEF Received, NodeIsExist, Loop
  <2>4. QED BY <2>1, <2>2, <2>3, SameKeeps, Aside
<1>2. CASE TryDoReconnect
  <2>1. /\ c2b' = <<>> /\ b2c' = <<>> /\ UNCHANGED <<bOut, acks, dlv, unrecorded>> /\ yield.pc = "loop"
        /\ yield'.pc = "scan"
    BY <1>2 DEF TryDoReconnect, history, Loop
  <2>2. Received(i)' <=> Received(i) BY <2>1 DEF Received, NodeIsExist
  <2>3. ~InHand2(i) /\ ~InHand2(i)' BY <2>1 DEF InHand2
  <2>4. QED BY <2>1, <2>2, <2>3, WiresEmpty
<1>3. ASSUME NEW n \in acks, ScanTimeout(n) \/ ScanResend(n) PROVE Exchange(i)'
  <2> DEFINE x == Payload(n)
  <2>1. /\ Send(x) /\ UNCHANGED <<acks, yield, b2c, bOut, bResend, dlv, unrecorded, fwd>>
        /\ yield.pc \in {"loop", "scan"}
    BY <1>3 DEF ScanTimeout, ScanResend, client, broker, history
  <2>2. CASE n.type = "PUBREL" /\ n.id = i
    BY <2>1, <2>2, RepeatsPubrec
  <2>3. CASE n.type # "PUBREL" \/ n.id # i
    <3>1. n \in Node BY DEF TypeOK, ListTypes
    <3>2. x \in Packet(Out, PacketId) /\ (x.kind \notin AckKinds \/ x.id # i)
      BY <2>3, <3>1, PayloadType DEF Payload, Pkt, Node, AckType, AckKinds
    <3>3. ~PublishPacketHandle /\ ~Delivering
      BY <1>3 DEF ScanTimeout, ScanResend, PublishPacketHandle, Delivering,
         PublishPacketDeliver, PublishPacketNoMemory, Read, Loop
    <3> HIDE DEF x
    <3>4. Keeps(c2b, c2b', AckKinds, i) BY <2>1, <3>2, WiresKeep
    <3>5. Received(i)' <=> Received(i) BY <2>1 DEF Received, NodeIsExist
    <3>6. QED BY <2>1, <3>3, <3>4, <3>5, SameKeeps, Aside
  <2>4. QED BY <2>2, <2>3
<1>4. QED BY <1>1, <1>2, <1>3 DEF Reconnect, Timeout, Lists

LEMMA ExchangeBroker ==
  ASSUME TypeOK, Slots, [Next]_vars, NEW i \in BrokerIds, Exchange(i),
         \/ Broker \/ KeepAliveSlow \/ LinkDown
         \/ \E m \in In, j \in BrokerIds : BrokerPublish(m, j)
  PROVE  Exchange(i)'
<1> DEFINE h == Head(c2b)
<1>1. /\ UNCHANGED <<acks, yield, dlv, unrecorded>> /\ ~Delivering /\ ~PublishPacketHandle
  <2>1. UNCHANGED <<acks, yield, dlv, unrecorded>>
    BY DEF Broker, BrokerOnPublish, BrokerOnPubrel, BrokerOnLastAck, BrokerOnPubrec,
       BrokerRead, BrokerResend, BrokerPublish, KeepAliveSlow, LinkDown, client, history
  <2>2. Delivering \/ PublishPacketHandle => yield' # yield
    BY DEF Delivering, PublishPacketDeliver, PublishPacketNoMemory, PublishPacketHandle, Loop, Read
  <2>3. QED BY <2>1, <2>2
<1>2. Received(i)' <=> Received(i) BY <1>1 DEF Received, NodeIsExist
<1>3. ASSUME NEW k, BrokerRead(k), Exchange(i)
      PROVE  h \in Packet(Out, PacketId) /\ h.id \in PacketId
  BY <1>3, HeadTypes DEF BrokerRead, TypeOK, Packet
<1>4. i \in PacketId /\ bOut \in [BrokerIds -> [st : {"free", "ack", "rec", "comp"}, msg : In \cup {NoMsg}]]
  BY SessionAssumption DEF TypeOK, BrokerTypes
<1>5. ASSUME bOut'[i] = bOut[i], i \in bResend' => i \in bResend,
             Keeps(c2b, c2b', AckKinds, i), Keeps(b2c, b2c', AskKinds, i),
             Lacks(b2c, Foreign(i)) => Lacks(b2c', Foreign(i))
      PROVE  Exchange(i)'
  BY <1>1, <1>2, <1>5, Aside
<1>6. Foreign(i) \subseteq Of("PUBLISH", i) BY DEF Foreign
<1>7. CASE BrokerOnPublish \/ BrokerOnPubrel
  <2>1. PICK k \in AckType : Reply(Pkt(k, h.id, NoMsg)) /\ k \notin AskKinds
    BY <1>7 DEF BrokerOnPublish, BrokerOnPubrel, AckType, AskKinds
  <2>2. PICK l \in {"PUBLISH", "PUBREL"} : BrokerRead(l)
    BY <1>7 DEF BrokerOnPublish, BrokerOnPubrel
  <2>3. h.id \in PacketId BY <1>3, <2>2
  <2> DEFINE x == Pkt(k, h.id, NoMsg)
  <2>4. x \in Packet(In, BrokerIds) /\ x.kind \notin AskKinds
    BY <2>1, <2>3, AckPackets DEF Pkt
  <2>5. Reply(x) BY <2>1
  <2> HIDE DEF x
  <2>6. Keeps(b2c, b2c', AskKinds, i) /\ (Lacks(b2c, Foreign(i)) => Lacks(b2c', Foreign(i)))
    BY <1>6, <2>4, <2>5, WiresKeep
  <2>7. Keeps(c2b, c2b', AckKinds, i) BY <2>2, WiresKeep DEF AckKinds
  <2>8. UNCHANGED <<bOut, bResend>>
    BY <1>7, <2>2 DEF BrokerOnPublish, BrokerOnPubrel, BrokerRead
  <2>9. QED BY <1>5, <2>6, <2>7, <2>8
<1>8. CASE BrokerOnLastAck
  <2>1. CASE i = h.id BY <1>8, <2>1, EndsExchange
  <2>2. CASE i # h.id
    <3>1. /\ UNCHANGED <<b2c, bResend>> /\ bOut'[i] = bOut[i]
      BY <1>4, <1>8, <2>2 DEF BrokerOnLastAck, BrokerRead
    <3>2. Keeps(c2b, c2b', AckKinds, i) BY <1>8, <2>2, WiresKeep DEF BrokerOnLastAck
    <3>3. QED BY <1>5, <3>1, <3>2, SameKeeps
  <2>3. QED BY <2>1, <2>2
<1>9. CASE BrokerOnPubrec
  <2>1. CASE i = h.id BY <1>9, <2>1, ReleasesMessage
  <2>2. CASE i # h.id
    <3> DEFINE x == Pkt("PUBREL", h.id, NoMsg)
    <3>1. /\ BrokerRead("PUBREC") /\ bResend' = bResend /\ bOut'[i] = bOut[i]
          /\ b2c' = b2c \/ Reply(x)
      BY <1>4, <1>9, <2>2 DEF BrokerOnPubrec, BrokerRead
    <3>2. x \in Packet(In, BrokerIds) /\ x.id = h.id
      BY <1>3, <3>1, AckPackets DEF Pkt, AckType
    <3> HIDE DEF x
    <3>3. Keeps(c2b, c2b', AckKinds, i) BY <2>2, <3>1, WiresKeep
    <3>4. Keeps(b2c, b2c', AskKinds, i) /\ (Lacks(b2c, Foreign(i)) => Lacks(b2c', Foreign(i)))
      BY <1>6, <2>2, <3>1, <3>2, WiresKeep, SameKeeps
    <3>5. QED BY <1>5, <3>1, <3>3, <3>4
  <2>3. QED BY <2>1, <2>2
<1>10. ASSUME NEW j \in BrokerIds, BrokerResend(j) PROVE Exchange(i)'
  <2>1. CASE i = j BY <1>10, <2>1, ResendsRequest
  <2>2. CASE i # j
    <3> DEFINE x == BrokerPacket(j)
    <3>1. /\ bResend' = bResend \ {j} /\ UNCHANGED <<c2b, bOut>>
          /\ b2c' = b2c \/ (bOut[j].st # "free" /\ Reply(x))
      BY <1>10 DEF BrokerResend
    <3>2. bOut[j].st # "free" => x \in Packet(In, BrokerIds) /\ x.id = j
      BY SessionAssumption DEF BrokerPacket, Pkt, Packet, Kind, AckType, TypeOK, BrokerTypes
    <3> HIDE DEF x
    <3>3. Keeps(b2c, b2c', AskKinds, i) /\ (Lacks(b2c, Foreign(i)) => Lacks(b2c', Foreign(i)))
      BY <1>6, <2>2, <3>1, <3>2, WiresKeep, SameKeeps
    <3>4. QED BY <1>5, <3>1, <3>3, SameKeeps
  <2>3. QED BY <2>1, <2>2
<1>11. ASSUME NEW m \in In, NEW j \in BrokerIds, BrokerPublish(m, j) PROVE Exchange(i)'
  <2>1. CASE i = j BY <1>11, <2>1, StartsExchange
  <2>2. CASE i # j
    <3> DEFINE x == Pkt("PUBLISH", j, m)
    <3>1. /\ UNCHANGED <<c2b, bResend>> /\ bOut'[i] = bOut[i] /\ Reply(x)
      BY <1>4, <1>11, <2>2 DEF BrokerPublish
    <3>2. x \in Packet(In, BrokerIds) /\ x.id = j
      BY SessionAssumption DEF Pkt, Packet, Kind
    <3> HIDE DEF x
    <3>3. Keeps(b2c, b2c', AskKinds, i) /\ (Lacks(b2c, Foreign(i)) => Lacks(b2c', Foreign(i)))
      BY <1>6, <2>2, <3>1, <3>2, WiresKeep
    <3>4. QED BY <1>5, <3>1, <3>3, SameKeeps
  <2>3. QED BY <2>1, <2>2
<1>12. CASE KeepAliveSlow \/ LinkDown
  <2>1. c2b' = <<>> /\ b2c' = <<>> /\ bResend' = {} /\ UNCHANGED bOut
    BY <1>12 DEF KeepAliveSlow, LinkDown, Close
  <2>2. InHand2(i)' <=> InHand2(i) BY <1>1 DEF InHand2
  <2>3. QED BY <1>1, <1>2, <2>1, <2>2, WiresEmpty
<1>13. QED BY <1>7, <1>8, <1>9, <1>10, <1>11, <1>12 DEF Broker

LEMMA ExchangeStep ==
  ASSUME ~CleanSession, TypeOK, Slots, Lists, [Next]_vars, \A j \in BrokerIds : Exchange(j),
         NEW i \in BrokerIds
  PROVE  Exchange(i)'
<1>1. Exchange(i) OBVIOUS
<1>2. CASE UNCHANGED vars
  <2>1. /\ UNCHANGED <<bOut, bResend, c2b, b2c, acks, yield>>
        /\ ~PublishPacketHandle /\ ~Delivering
    BY <1>2 DEF vars, client, net, broker, PublishPacketHandle, Delivering,
       PublishPacketDeliver, PublishPacketNoMemory, Loop, Read
  <2>2. Received(i)' <=> Received(i) BY <2>1 DEF Received, NodeIsExist
  <2>3. QED BY <1>1, <2>1, <2>2, SameKeeps, Aside
<1>3. QED BY <1>1, <1>2, ExchangeUser, ExchangeHandle, ExchangeRest, ExchangeBroker DEF Next

(* Identifiers stand for messages that were offered, each for one. *)
LEMMA SlotsStep ==
  ASSUME ~CleanSession, TypeOK, Slots, [Next]_vars, \A j \in BrokerIds : Exchange(j)
  PROVE  Slots'
<1>0. /\ offered \subseteq offered'
      /\ bOut \in [BrokerIds -> [st : {"free", "ack", "rec", "comp"}, msg : In \cup {NoMsg}]]
      /\ dlv \in [In -> 0..2] /\ NoMsg \notin In
  BY OfferSteps, SessionAssumption DEF TypeOK, BrokerTypes, HistoryTypes
<1>1. \A m \in In : dlv'[m] > 0 => m \in offered'
  <2>1. CASE Delivering
    <3>1. /\ yield.pc = "deliver" /\ yield.msg \in In
          /\ dlv' = dlv \/ dlv' = [dlv EXCEPT ![yield.msg] = More(@)]
      BY <2>1 DEF Delivering, PublishPacketDeliver, PublishPacketNoMemory, TypeOK, ThreadTypes
    <3>2. QED BY <1>0, <3>1 DEF Slots
  <2>2. CASE ~Delivering
    <3>1. dlv' = dlv BY <2>2, HandSteps
    <3>2. QED BY <1>0, <3>1 DEF Slots
  <2>3. QED BY <2>1, <2>2
<1>2. yield'.pc = "deliver" => yield'.msg \in offered'
  <2>1. CASE Delivering BY <2>1 DEF Delivering, PublishPacketDeliver, PublishPacketNoMemory, Loop
  <2>2. CASE PublishPacketHandle
    <3>1. Head(b2c).id \in BrokerIds /\ yield'.msg = Head(b2c).msg
      <4>1. b2c # <<>> /\ Head(b2c).kind = "PUBLISH" /\ yield'.msg = Head(b2c).msg
        BY <2>2 DEF PublishPacketHandle, Read
      <4>2. QED BY <4>1, HeadTypes DEF TypeOK, Packet
    <3>2. /\ Head(b2c).msg = bOut[Head(b2c).id].msg /\ bOut[Head(b2c).id].st # "free"
      BY <2>2, <3>1, AnswersPublish
    <3>3. QED BY <1>0, <3>1, <3>2 DEF Slots
  <2>3. CASE ~Delivering /\ ~PublishPacketHandle
    <3>1. yield'.pc = "deliver" => yield' = yield BY <2>3, HandSteps
    <3>2. QED BY <1>0, <3>1 DEF Slots
  <2>4. QED BY <2>1, <2>2, <2>3
<1>3. ASSUME \A i \in BrokerIds : \/ bOut'[i] = bOut[i] \/ bOut'[i] = Free
                                  \/ bOut[i].st = "rec" /\ bOut'[i].st = "comp" /\ bOut'[i].msg = bOut[i].msg
      PROVE  Slots'
  <2>1. \A i \in BrokerIds :
          /\ bOut'[i].st = "free" => bOut'[i].msg = NoMsg
          /\ bOut'[i].st = "ack" => bOut'[i].msg \in InQ1
          /\ bOut'[i].st \in {"rec", "comp"} => bOut'[i].msg \in InQ2
          /\ bOut'[i].st # "free" => bOut'[i].msg \in offered'
    BY <1>0, <1>3 DEF Slots, Free
  <2>2. \A i \in BrokerIds : bOut'[i].msg = bOut[i].msg \/ bOut'[i].msg = NoMsg
    BY <1>3 DEF Free
  <2>3. \A i, j \in BrokerIds : bOut'[i].msg = bOut'[j].msg /\ bOut'[i].msg # NoMsg => i = j
    BY <2>2 DEF Slots
  <2>4. QED BY <1>1, <1>2, <2>1, <2>3 DEF Slots
<1>4. ASSUME NEW m \in In, NEW i \in BrokerIds, BrokerPublish(m, i) PROVE Slots'
  <2>1. /\ m \notin offered /\ offered' = offered \cup {m}
        /\ bOut' = [bOut EXCEPT ![i] = [st |-> IF m \in InQ1 THEN "ack" ELSE "rec", msg |-> m]]
    BY <1>4 DEF BrokerPublish
  <2>2. bOut'[i].msg = m /\ bOut'[i].st = (IF m \in InQ1 THEN "ack" ELSE "rec")
    BY <1>0, <2>1
  <2>3. \A j \in BrokerIds : j # i => bOut'[j] = bOut[j] BY <1>0, <2>1
  <2>4. \A j \in BrokerIds : bOut[j].msg # m
    BY <1>0, <2>1 DEF Slots
  <2>5. \A j \in BrokerIds :
          /\ bOut'[j].st = "free" => bOut'[j].msg = NoMsg
          /\ bOut'[j].st = "ack" => bOut'[j].msg \in InQ1
          /\ bOut'[j].st \in {"rec", "comp"} => bOut'[j].msg \in InQ2
          /\ bOut'[j].st # "free" => bOut'[j].msg \in offered'
    BY <1>0, <2>1, <2>2, <2>3 DEF Slots, In
  <2>6. \A j, k \in BrokerIds : bOut'[j].msg = bOut'[k].msg /\ bOut'[j].msg # NoMsg => j = k
    BY <2>2, <2>3, <2>4 DEF Slots
  <2>7. QED BY <1>1, <1>2, <2>5, <2>6 DEF Slots
<1>5. CASE BrokerOnLastAck \/ BrokerOnPubrec
  <2>1. ASSUME NEW i \in BrokerIds
        PROVE  \/ bOut'[i] = bOut[i] \/ bOut'[i] = Free
               \/ bOut[i].st = "rec" /\ bOut'[i].st = "comp" /\ bOut'[i].msg = bOut[i].msg
    BY <1>0, <1>5 DEF BrokerOnLastAck, BrokerOnPubrec
  <2>2. QED BY <1>3, <2>1
<1>6. CASE User \/ Handle \/ Reconnect \/ Timeout
  <2>1. bOut' = bOut
    BY <1>6 DEF User, PublishCheck, PublishSend, PublishSendFails, PublishRecord,
       PublishTooMuch, PublishNoMemory, PublishRelease, Handle, PubackAndPubcompPacketHandle,
       PublishPacketHandle, Delivering, PublishPacketDeliver, PublishPacketNoMemory,
       PubrecPacketHandle, PubrecPacketNoMemory, PubrelPacketHandle, UnrecordAnswered,
       Reconnect, KeepAliveLost, TryDoReconnect, ScanResend, ScanEnd, Timeout, ScanTimeout,
       broker
  <2>2. QED BY <1>3, <2>1
<1>7. CASE \/ BrokerOnPublish \/ BrokerOnPubrel \/ KeepAliveSlow \/ LinkDown
           \/ (\E i \in BrokerIds : BrokerResend(i)) \/ UNCHANGED vars
  <2>1. bOut' = bOut
    BY <1>7 DEF BrokerOnPublish, BrokerOnPubrel, KeepAliveSlow, LinkDown, BrokerResend, vars, broker
  <2>2. QED BY <1>3, <2>1
<1>8. QED BY <1>4, <1>5, <1>6, <1>7 DEF Next, Broker
-----------------------------------------------------------------------------
(* Step by step: every step of the session is one of MqttDelivery's, or      *)
(* changes nothing that MqttDelivery sees.                                   *)

\* What MqttDelivery sees of the deliveries.
Deliveries == [m \in Out \cup In |-> Delivered(m)]

Promise == /\ Handshake /\ AcceptedIsKept /\ Told /\ Released /\ Slots
           /\ \A i \in BrokerIds : Exchange(i)

LEMMA Messages ==
  /\ (OutQ1 \cup InQ1) \cup (OutQ2 \cup InQ2) = Out \cup In
  /\ \A m \in Out : m \notin In
  /\ \A m \in OutQ1 \cup InQ1 : m \notin OutQ2 \cup InQ2
BY SessionAssumption DEF Out, In

LEMMA OfferMaps ==
  ASSUME NEW m \in Out \cup In, m \notin offered, offered' = offered \cup {m},
         \A q \in Out \cup In : Delivered(q)' = Delivered(q),
         UNCHANGED <<Settled, unrecorded>>
  PROVE  Delivery!Next
<1>1. Deliveries' = Deliveries BY DEF Deliveries
<1>2. Delivery!Offer(m) BY <1>1 DEF Delivery!Offer, Deliveries
<1>3. m \in Delivery!Message BY Messages DEF Delivery!Message
<1>4. QED BY <1>2, <1>3 DEF Delivery!Next

LEMMA DeliverMaps ==
  ASSUME NEW m \in Out \cup In, m \in offered,
         m \in OutQ2 \cup InQ2 => Delivered(m) = 0 \/ m \in unrecorded,
         Delivered(m)' = More(Delivered(m)),
         \/ unrecorded' = unrecorded \ {m}
         \/ m \in InQ2 /\ unrecorded' = unrecorded \cup {m},
         \A q \in Out \cup In : q # m => Delivered(q)' = Delivered(q),
         offered' = offered, Settled' = Settled
  PROVE  Delivery!Next
<1>1. Deliveries[m] = Delivered(m) BY DEF Deliveries
<1>2. Deliveries' = [Deliveries EXCEPT ![m] = IF @ = 2 THEN 2 ELSE @ + 1]
  <2>1. Deliveries' = [q \in Out \cup In |-> Delivered(q)'] BY DEF Deliveries
  <2> DEFINE D(q) == Delivered(q)
             E(q) == Delivered(q)'
  <2>2. \A q \in Out \cup In : E(q) = IF q = m THEN (IF D(m) = 2 THEN 2 ELSE D(m) + 1) ELSE D(q)
    BY DEF More
  <2>3. Deliveries = [q \in Out \cup In |-> D(q)] /\ Deliveries' = [q \in Out \cup In |-> E(q)]
    BY <2>1 DEF Deliveries
  <2> HIDE DEF D, E
  <2>4. QED BY <2>2, <2>3
<1>3. Delivery!Deliver(m) BY <1>1, <1>2 DEF Delivery!Deliver, Deliveries
<1>4. m \in Delivery!Message BY Messages DEF Delivery!Message
<1>5. QED BY <1>3, <1>4 DEF Delivery!Next

LEMMA SettleMaps ==
  ASSUME NEW m \in Out \cup In, m \in offered, m \notin Settled, Delivered(m) > 0,
         Settled' = Settled \cup {m},
         \A q \in Out \cup In : Delivered(q)' = Delivered(q),
         UNCHANGED <<offered, unrecorded>>
  PROVE  Delivery!Next
<1>1. Deliveries' = Deliveries BY DEF Deliveries
<1>2. Deliveries[m] = Delivered(m) BY DEF Deliveries
<1>3. Delivery!Settle(m) BY <1>1, <1>2 DEF Delivery!Settle, Deliveries
<1>4. m \in Delivery!Message BY Messages DEF Delivery!Message
<1>5. QED BY <1>3, <1>4 DEF Delivery!Next

LEMMA StutterMaps ==
  ASSUME UNCHANGED <<offered, Settled, unrecorded>>,
         \A q \in Out \cup In : Delivered(q)' = Delivered(q)
  PROVE  UNCHANGED Delivery!vars
<1>1. Deliveries' = Deliveries BY DEF Deliveries
<1>2. QED BY <1>1 DEF Delivery!vars, Deliveries

(* What counts as a delivery, in each direction. *)
LEMMA DeliveredIs ==
  /\ \A m \in Out : Delivered(m) = fwd[m] /\ Delivered(m)' = fwd'[m]
  /\ \A m \in InQ2 : Delivered(m) = dlv[m] /\ Delivered(m)' = dlv'[m]
  /\ \A m \in InQ1 : /\ Delivered(m) = IF InHand(m) THEN More(dlv[m]) ELSE dlv[m]
                     /\ Delivered(m)' = IF InHand(m)' THEN More(dlv'[m]) ELSE dlv'[m]
<1>1. ASSUME NEW m \in Out PROVE Delivered(m) = fwd[m] /\ Delivered(m)' = fwd'[m]
  <2>1. m \notin In BY Messages
  <2>2. Delivered(m) = fwd[m] BY <2>1 DEF Delivered, In
  <2>3. Delivered(m)' = fwd'[m] BY <2>1 DEF Delivered, In
  <2>4. QED BY <2>2, <2>3
<1>2. ASSUME NEW m \in InQ2 PROVE Delivered(m) = dlv[m] /\ Delivered(m)' = dlv'[m]
  <2>1. m \notin Out /\ m \notin InQ1 BY Messages DEF In
  <2>2. Delivered(m) = dlv[m] BY <2>1 DEF Delivered
  <2>3. Delivered(m)' = dlv'[m] BY <2>1 DEF Delivered
  <2>4. QED BY <2>2, <2>3
<1>3. ASSUME NEW m \in InQ1
      PROVE  /\ Delivered(m) = IF InHand(m) THEN More(dlv[m]) ELSE dlv[m]
             /\ Delivered(m)' = IF InHand(m)' THEN More(dlv'[m]) ELSE dlv'[m]
  <2>1. m \notin Out BY Messages DEF In
  <2>2. Delivered(m) = IF InHand(m) THEN More(dlv[m]) ELSE dlv[m] BY <2>1 DEF Delivered
  <2>3. Delivered(m)' = IF InHand(m)' THEN More(dlv'[m]) ELSE dlv'[m] BY <2>1 DEF Delivered
  <2>4. QED BY <2>2, <2>3
<1>4. QED BY <1>1, <1>2, <1>3

(* Nothing is delivered and nothing comes into or out of hand. *)
LEMMA DeliveredSame ==
  ASSUME UNCHANGED <<fwd, dlv, unrecorded>>,
         yield' = yield \/ (yield.pc # "deliver" /\ yield'.pc # "deliver")
  PROVE  \A m \in Out \cup In : Delivered(m)' = Delivered(m)
<1>1. \A m : InHand(m)' <=> InHand(m) BY DEF InHand
<1>2. ASSUME NEW m \in Out \cup In PROVE Delivered(m)' = Delivered(m)
  <2>1. CASE m \in Out BY <2>1, DeliveredIs
  <2>2. CASE m \in InQ2 BY <2>2, DeliveredIs
  <2>3. CASE m \in InQ1 BY <1>1, <2>3, DeliveredIs
  <2>4. QED BY <2>1, <2>2, <2>3 DEF In
<1>3. QED BY <1>2

LEMMA SettledSame ==
  ASSUME TypeOK, accepted' = accepted, \A m \in In : m \in offered' <=> m \in offered,
         \A m \in accepted : (\E n \in acks' : n.msg = m) <=> (\E n \in acks : n.msg = m),
         \A i \in BrokerIds : bOut'[i].msg = bOut[i].msg
  PROVE  Settled' = Settled
<1>1. {m \in accepted' : \A n \in acks' : n.msg # m} = {m \in accepted : \A n \in acks : n.msg # m}
  OBVIOUS
<1>2. {m \in In \cap offered' : \A i \in BrokerIds : bOut'[i].msg # m}
        = {m \in In \cap offered : \A i \in BrokerIds : bOut[i].msg # m}
  OBVIOUS
<1>3. QED BY <1>1, <1>2 DEF Settled

\* Nothing MqttDelivery sees of the sender's memory changes.
SettledKept == /\ accepted' = accepted /\ offered' = offered
               /\ acks' = acks \/ \A n \in acks \cup acks' : n \in acks \cap acks' \/ n.msg = NoMsg
               /\ \A i \in BrokerIds : bOut'[i].msg = bOut[i].msg

LEMMA KeptIsSame == ASSUME TypeOK, SettledKept PROVE Settled' = Settled /\ offered' = offered
<1>1. NoMsg \notin accepted BY SessionAssumption DEF TypeOK, HistoryTypes
<1>2. ASSUME NEW m \in accepted PROVE (\E n \in acks' : n.msg = m) <=> (\E n \in acks : n.msg = m)
  BY <1>1 DEF SettledKept
<1>3. QED BY <1>2, SettledSame DEF SettledKept

\* The step is one of MqttDelivery's, or none.
Mapped == Delivery!Next \/ UNCHANGED Delivery!vars

(* A message is handed over: by mqtt_publish(), or by the broker. *)
LEMMA OffersMapped ==
  ASSUME Promise, PublishSend \/ PublishSendFails
  PROVE  Mapped
<1>1. /\ offered' = offered \cup {user.msg} /\ user.msg \notin offered /\ user.msg \in Out
      /\ UNCHANGED <<accepted, acks, bOut, fwd, dlv, unrecorded, yield>>
  BY DEF PublishSend, PublishSendFails, broker, Promise, Handshake, Fresh, TypeOK, ThreadTypes
<1>2. \A m \in Out \cup In : Delivered(m)' = Delivered(m) BY <1>1, DeliveredSame
<1>3. \A m \in In : m \in offered' <=> m \in offered BY <1>1, Messages
<1>4. Settled' = Settled BY <1>1, <1>3, SettledSame DEF Promise, Handshake
<1>5. QED BY <1>1, <1>2, <1>4, OfferMaps DEF Mapped

LEMMA BrokerOffersMapped ==
  ASSUME Promise, NEW m \in In, NEW i \in BrokerIds, BrokerPublish(m, i)
  PROVE  Mapped
<1>1. /\ m \notin offered /\ offered' = offered \cup {m} /\ bOut[i].st = "free"
      /\ bOut' = [bOut EXCEPT ![i] = [st |-> IF m \in InQ1 THEN "ack" ELSE "rec", msg |-> m]]
      /\ UNCHANGED <<accepted, acks, fwd, dlv, unrecorded, yield>>
  BY DEF BrokerPublish, client
<1>2. bOut \in [BrokerIds -> [st : {"free", "ack", "rec", "comp"}, msg : In \cup {NoMsg}]]
  BY DEF Promise, Handshake, TypeOK, BrokerTypes
<1>3. bOut[i].msg = NoMsg /\ NoMsg \notin In BY <1>1, SessionAssumption DEF Promise, Slots
<1>4. bOut'[i].msg = m /\ \A j \in BrokerIds : j # i => bOut'[j].msg = bOut[j].msg
  BY <1>1, <1>2
<1>5. \A q \in Out \cup In : Delivered(q)' = Delivered(q) BY <1>1, DeliveredSame
<1>6. ASSUME NEW q \in In
      PROVE  q \in offered' /\ (\A j \in BrokerIds : bOut'[j].msg # q)
               <=> q \in offered /\ (\A j \in BrokerIds : bOut[j].msg # q)
  <2>1. CASE q = m BY <1>1, <1>4, <2>1
  <2>2. CASE q # m BY <1>1, <1>3, <1>4, <2>2
  <2>3. QED BY <2>1, <2>2
<1>7. {q \in In \cap offered' : \A j \in BrokerIds : bOut'[j].msg # q}
        = {q \in In \cap offered : \A j \in BrokerIds : bOut[j].msg # q}
  BY <1>6
<1>8. Settled' = Settled BY <1>1, <1>7 DEF Settled
<1>9. QED BY <1>1, <1>5, <1>8, OfferMaps DEF Mapped

(* The broker delivers: a QoS 2 message only the first time. *)
LEMMA BrokerDeliversMapped ==
  ASSUME Promise, BrokerOnPublish
  PROVE  Mapped
<1> DEFINE p == Head(c2b)
<1>1. TypeOK BY DEF Promise, Handshake
<1>2. /\ UNCHANGED <<accepted, offered, acks, bOut, dlv, unrecorded, yield>>
      /\ IF p.msg \in OutQ1
           THEN fwd' = [fwd EXCEPT ![p.msg] = More(@)]
           ELSE fwd' = IF p.id \in bRec THEN fwd ELSE [fwd EXCEPT ![p.msg] = More(@)]
  BY DEF BrokerOnPublish, BrokerRead, client
<1>3. /\ c2b # <<>> /\ p \in Elems(c2b) /\ p \in Packet(Out, PacketId) /\ p.kind = "PUBLISH"
      /\ p.id \in PacketId /\ p.msg \in Out /\ Carries(p.id, p.msg)
  BY <1>1, PublishRead
<1>4. p.msg \in offered BY <1>3 DEF Promise, Told
<1> HIDE DEF p
<1>5. Settled' = Settled /\ offered' = offered
  BY <1>1, <1>2, KeptIsSame DEF SettledKept
<1>6. \A m \in In : Delivered(m)' = Delivered(m)
  <2>1. \A m : InHand(m)' <=> InHand(m) BY <1>2 DEF InHand
  <2>2. QED BY <1>2, <2>1, DeliveredIs DEF In
<1>7. CASE fwd' = fwd
  BY <1>2, <1>5, <1>7, DeliveredSame, StutterMaps DEF Mapped
<1>8. ASSUME fwd' = [fwd EXCEPT ![p.msg] = More(@)], p.msg \in OutQ2 => fwd[p.msg] = 0
      PROVE  Mapped
  <2>1. PICK m \in Out : m = p.msg BY <1>3
  <2>2. /\ fwd'[m] = More(fwd[m])
        /\ \A q \in Out : q # m => fwd'[q] = fwd[q]
    BY <1>1, <1>8, <2>1 DEF TypeOK, HistoryTypes
  <2>3. Delivered(m)' = More(Delivered(m)) BY <2>2, DeliveredIs
  <2>4. \A q \in Out \cup In : q # m => Delivered(q)' = Delivered(q)
    BY <1>6, <2>2, DeliveredIs
  <2>5. m \in OutQ2 \cup InQ2 => Delivered(m) = 0
    <3>1. m \notin InQ2 BY Messages DEF In
    <3>2. QED BY <1>8, <2>1, <3>1, DeliveredIs
  <2>6. unrecorded' = unrecorded \ {m}
    <3>1. m \notin InQ2 BY Messages DEF In
    <3>2. QED BY <1>1, <1>2, <3>1 DEF TypeOK, HistoryTypes
  <2>7. QED BY <1>4, <1>5, <2>1, <2>3, <2>4, <2>5, <2>6, DeliverMaps DEF Mapped
<1>9. CASE p.msg \in OutQ1
  <2>1. p.msg \notin OutQ2 BY <1>9, Messages
  <2>2. QED BY <1>2, <1>8, <1>9, <2>1
<1>10. CASE p.msg \in OutQ2 /\ p.id \notin bRec
  <2>1. p.msg \notin OutQ1 BY <1>10, Messages
  <2>2. p \in Resent(p.id) BY <1>3, <1>10 DEF Resent, Of, Packet
  <2>3. ~Lacks(c2b, Resent(p.id)) BY <1>3, <2>2 DEF Lacks, Elems
  <2>4. ~(fwd[p.msg] > 0) BY <1>3, <1>10, <2>3 DEF Promise, Released
  <2>5. fwd[p.msg] = 0 BY <1>1, <1>3, <2>4 DEF TypeOK, HistoryTypes
  <2>6. QED BY <1>2, <1>8, <1>10, <2>1, <2>5
<1>11. CASE p.msg \in OutQ2 /\ p.id \in bRec
  <2>1. p.msg \notin OutQ1 BY <1>11, Messages
  <2>2. QED BY <1>2, <1>7, <1>11, <2>1
<1>12. QED BY <1>3, <1>9, <1>10, <1>11 DEF Out

(* A QoS 1 message counts as delivered once it is in hand. *)
LEMMA InHandMapped ==
  ASSUME Promise, PublishPacketHandle
  PROVE  Mapped
<1>1. TypeOK BY DEF Promise, Handshake
<1>2. /\ b2c # <<>> /\ Head(b2c).kind = "PUBLISH" /\ yield.pc = "loop"
      /\ yield'.pc = "deliver" /\ yield'.msg = Head(b2c).msg
      /\ UNCHANGED <<acks, accepted, offered, bOut, fwd, dlv, unrecorded>>
  BY DEF PublishPacketHandle, Read, client, broker, history
<1>3. PICK m \in In : m = Head(b2c).msg
  BY <1>1, <1>2, HeadTypes DEF TypeOK, Packet
<1>4. Head(b2c).id \in BrokerIds
  BY <1>1, <1>2, HeadTypes DEF TypeOK, Packet
<1>5. m = bOut[Head(b2c).id].msg /\ bOut[Head(b2c).id].st # "free"
  BY <1>1, <1>3, <1>4, AnswersPublish DEF Promise
<1>6. m \in offered BY <1>4, <1>5 DEF Promise, Slots
<1>7. Settled' = Settled /\ offered' = offered
  BY <1>1, <1>2, KeptIsSame DEF SettledKept
<1>8. \A q : ~InHand(q) /\ (InHand(q)' <=> q = m) BY <1>2, <1>3 DEF InHand
<1>9. \A q \in Out \cup In : q # m => Delivered(q)' = Delivered(q)
  BY <1>2, <1>8, DeliveredIs DEF In
<1>10. CASE m \in InQ1
  <2>1. Delivered(m)' = More(Delivered(m)) BY <1>2, <1>8, <1>10, DeliveredIs
  <2>2. m \notin OutQ2 \cup InQ2 BY <1>10, Messages
  <2>3. unrecorded' = unrecorded \ {m} BY <1>1, <1>2, <2>2 DEF TypeOK, HistoryTypes
  <2>4. QED BY <1>6, <1>7, <1>9, <2>1, <2>2, <2>3, DeliverMaps DEF Mapped
<1>11. CASE m \in InQ2
  <2>1. Delivered(m)' = Delivered(m) BY <1>2, <1>11, DeliveredIs
  <2>2. QED BY <1>2, <1>7, <1>9, <2>1, StutterMaps DEF Mapped
<1>12. QED BY <1>10, <1>11 DEF In

(* A QoS 2 message counts when its callback is called: once, as long *)
(* as there is memory to remember it by.                                    *)
LEMMA DeliveryMapped ==
  ASSUME Promise, Delivering
  PROVE  Mapped
<1>1. TypeOK BY DEF Promise, Handshake
<1>2. /\ yield.pc = "deliver" /\ yield.msg \in In /\ yield.id \in BrokerIds /\ yield'.pc = "loop"
      /\ UNCHANGED <<accepted, offered, bOut, fwd>>
  BY <1>1 DEF Delivering, PublishPacketDeliver, PublishPacketNoMemory, Loop, broker, TypeOK,
     ThreadTypes
<1>3. yield.msg \in offered BY <1>2 DEF Promise, Slots
<1>4. \A q : (InHand(q) <=> q = yield.msg) /\ ~InHand(q)' BY <1>2 DEF InHand
<1>5. PICK m \in In : m = yield.msg BY <1>2
<1>6. SettledKept
  <2>1. acks' = acks \/ \E n : n.msg = NoMsg /\ acks' = acks \cup {n}
    BY DEF Delivering, PublishPacketDeliver, PublishPacketNoMemory, AckListRecord,
       AckListNoMemory
  <2>2. QED BY <1>2, <2>1 DEF SettledKept
<1>7. Settled' = Settled /\ offered' = offered BY <1>1, <1>6, KeptIsSame
<1>8. ASSUME dlv' = dlv \/ dlv' = [dlv EXCEPT ![m] = More(@)],
             NEW q \in Out \cup In, q # m
      PROVE  Delivered(q)' = Delivered(q)
  <2>1. CASE q \in Out BY <1>2, <2>1, DeliveredIs
  <2>2. CASE q \in In
    <3>1. dlv'[q] = dlv[q] BY <1>1, <1>8, <2>2 DEF TypeOK, HistoryTypes
    <3>2. ~InHand(q) /\ ~InHand(q)' BY <1>4, <1>5, <1>8
    <3>3. QED BY <2>2, <3>1, <3>2, DeliveredIs DEF In
  <2>3. QED BY <2>1, <2>2
<1>9. CASE m \in InQ1
  <2>1. m \notin InQ2 BY <1>9, Messages
  <2>2. /\ dlv' = [dlv EXCEPT ![m] = More(@)] /\ unrecorded' = unrecorded \ {m}
    BY <1>5, <2>1 DEF Delivering, PublishPacketDeliver, PublishPacketNoMemory
  <2>3. dlv'[m] = More(dlv[m]) /\ unrecorded' = unrecorded
    BY <1>1, <2>1, <2>2 DEF TypeOK, HistoryTypes
  <2>4. InHand(m) /\ ~InHand(m)' BY <1>4, <1>5
  <2>5. Delivered(m)' = Delivered(m) BY <1>9, <2>3, <2>4, DeliveredIs
  <2>6. QED BY <1>7, <1>8, <2>2, <2>3, <2>5, StutterMaps DEF Mapped
<1>10. CASE m \in InQ2
  <2> DEFINE Again == /\ Got(yield.id) => Forgot(yield.id)
                      /\ dlv' = [dlv EXCEPT ![m] = More(@)]
                      /\ \/ unrecorded' = unrecorded \ {m}
                         \/ unrecorded' = unrecorded \cup {m}
  <2>1. m = bOut[yield.id].msg /\ (UNCHANGED <<dlv, unrecorded>> \/ Again)
    BY <1>1, <1>2, <1>5, <1>10, DeliversOnce DEF Promise
  <2>2. CASE UNCHANGED <<dlv, unrecorded>>
    <3>1. Delivered(m)' = Delivered(m) BY <1>10, <2>2, DeliveredIs
    <3>2. QED BY <1>7, <1>8, <2>2, <3>1, StutterMaps DEF Mapped
  <2>3. CASE Again
    <3>1. dlv[m] = 0 \/ m \in unrecorded
      BY <1>1, <2>1, <2>3 DEF Got, Forgot, TypeOK, HistoryTypes
    <3>2. dlv'[m] = More(dlv[m]) BY <1>1, <2>3 DEF TypeOK, HistoryTypes
    <3>3. Delivered(m)' = More(Delivered(m)) /\ (Delivered(m) = 0 \/ m \in unrecorded)
      BY <1>10, <3>1, <3>2, DeliveredIs
    <3>4. \A q \in Out \cup In : q # m => Delivered(q)' = Delivered(q) BY <1>8, <2>3
    <3>5. unrecorded' = unrecorded \ {m} \/ unrecorded' = unrecorded \cup {m} BY <2>3
    <3> HIDE DEF Again
    <3>6. QED BY <1>3, <1>5, <1>7, <1>10, <3>3, <3>4, <3>5, DeliverMaps DEF Mapped
  <2>4. QED BY <2>1, <2>2, <2>3
<1>11. QED BY <1>5, <1>9, <1>10 DEF In

(* A node is taken off the list: its message, if it has one, is settled, and *)
(* the broker has it.                                                        *)
LEMMA UnrecordMapped ==
  ASSUME Promise, AcceptedIsKept', NEW type, NEW i, AckListUnrecord(type, i),
         UNCHANGED <<accepted, offered, bOut, fwd, dlv, unrecorded>>,
         yield' = yield \/ (yield.pc # "deliver" /\ yield'.pc # "deliver")
  PROVE  Mapped
<1>1. TypeOK BY DEF Promise, Handshake
<1>2. \A m \in Out \cup In : Delivered(m)' = Delivered(m) BY DeliveredSame
<1>3. acks' = {n \in acks : ~(n.type = type /\ n.id = i)} BY DEF AckListUnrecord
<1>4. ASSUME Settled' = Settled PROVE Mapped
  BY <1>2, <1>4, StutterMaps DEF Mapped
<1>5. CASE \E n \in acks : n.type = type /\ n.id = i /\ n.msg \in accepted
  <2>1. PICK n \in acks : n.type = type /\ n.id = i /\ n.msg \in accepted BY <1>5
  <2> DEFINE Held(q) == \E a \in acks : a.msg = q
             Held2(q) == \E a \in acks' : a.msg = q
  <2>2. PICK m \in accepted : m = n.msg BY <2>1
  <2>3. m \in Out /\ m \notin In /\ m \in offered
    BY <1>1, Messages DEF Promise, Told, TypeOK, HistoryTypes
  <2>4. ASSUME NEW q \in accepted, q # m PROVE Held2(q) <=> Held(q)
    <3>1. ASSUME NEW a \in acks, a.msg = q PROVE a \in acks'
      <4>1. ~(a.type = type /\ a.id = i)
        <5>1. a.type = n.type /\ a.id = n.id => a = n
          BY DEF Promise, Handshake, ListInv, NodesIdentified
        <5>2. QED BY <2>1, <2>2, <2>4, <3>1, <5>1
      <4>2. QED BY <1>3, <4>1
    <3>2. QED BY <1>3, <3>1
  <2>5. Held(m) BY <2>1, <2>2
  <2>6. CASE Held2(m)
    <3>1. \A q \in accepted : Held2(q) <=> Held(q) BY <2>4, <2>5, <2>6
    <3>2. Settled' = Settled BY <1>1, <3>1, SettledSame
    <3>3. QED BY <1>4, <3>2
  <2>7. CASE ~Held2(m)
    <3>1. {q \in accepted : ~Held2(q)} = {q \in accepted : ~Held(q)} \cup {m}
      BY <2>4, <2>7
    <3>2. Settled' = Settled \cup {m}
      <4>1. Settled = {q \in accepted : ~Held(q)}
                        \cup {q \in In \cap offered : \A j \in BrokerIds : bOut[j].msg # q}
        BY DEF Settled
      <4>2. Settled' = {q \in accepted : ~Held2(q)}
                         \cup {q \in In \cap offered : \A j \in BrokerIds : bOut[j].msg # q}
        BY DEF Settled
      <4> HIDE DEF Held, Held2
      <4>3. QED BY <3>1, <4>1, <4>2
    <3>3. m \notin Settled BY <2>3, <2>5 DEF Settled
    <3>4. fwd'[m] > 0 BY <2>7 DEF AcceptedIsKept
    <3>5. Delivered(m) > 0 BY <2>3, <3>4, DeliveredIs
    <3>6. QED BY <1>2, <2>3, <3>2, <3>3, <3>5, SettleMaps DEF Mapped
  <2>8. QED BY <2>6, <2>7
<1>6. CASE ~\E n \in acks : n.type = type /\ n.id = i /\ n.msg \in accepted
  <2>1. \A q \in accepted : (\E n \in acks' : n.msg = q) <=> (\E n \in acks : n.msg = q)
    BY <1>3, <1>6
  <2>2. Settled' = Settled BY <1>1, <2>1, SettledSame
  <2>3. QED BY <1>4, <2>2
<1>7. QED BY <1>5, <1>6

(* The last ack frees the identifier of a message the client has. *)
LEMMA LastAckMapped ==
  ASSUME Promise, BrokerOnLastAck
  PROVE  Mapped
<1>1. TypeOK BY DEF Promise, Handshake
<1>2. UNCHANGED <<acks, accepted, offered, fwd, dlv, unrecorded, yield>>
  BY DEF BrokerOnLastAck, BrokerRead, client
<1>3. bOut \in [BrokerIds -> [st : {"free", "ack", "rec", "comp"}, msg : In \cup {NoMsg}]]
  BY <1>1 DEF TypeOK, BrokerTypes
<1>4. \A m \in Out \cup In : Delivered(m)' = Delivered(m) BY <1>2, DeliveredSame
<1>5. ASSUME \A j \in BrokerIds : bOut'[j].msg = bOut[j].msg PROVE Mapped
  <2>1. Settled' = Settled BY <1>1, <1>2, <1>5, KeptIsSame DEF SettledKept
  <2>2. QED BY <1>2, <1>4, <2>1, StutterMaps DEF Mapped
<1>6. CASE Head(c2b).id \notin BrokerIds
  <2>1. \A j \in BrokerIds : bOut'[j] = bOut[j] BY <1>3, <1>6 DEF BrokerOnLastAck
  <2>2. QED BY <1>5, <2>1
<1>7. CASE Head(c2b).id \in BrokerIds
  <2>1. PICK i \in BrokerIds : i = Head(c2b).id BY <1>7
  <2>2. bOut' = bOut \/ (bOut' = [bOut EXCEPT ![i] = Free] /\ Delivered(bOut[i].msg) > 0)
    BY <1>1, <2>1, EndsExchange DEF Promise
  <2>3. CASE bOut' = bOut BY <1>5, <2>3
  <2>4. CASE bOut' = [bOut EXCEPT ![i] = Free] /\ Delivered(bOut[i].msg) > 0
    <3>1. bOut'[i].msg = NoMsg /\ \A j \in BrokerIds : j # i => bOut'[j].msg = bOut[j].msg
      BY <1>3, <2>4 DEF Free
    <3>2. CASE bOut[i].msg = NoMsg BY <1>5, <3>1, <3>2
    <3>3. CASE bOut[i].msg # NoMsg
      <4>1. PICK m \in In : m = bOut[i].msg BY <1>3, <3>3
      <4>2. m # NoMsg /\ NoMsg \notin In /\ accepted \subseteq Out /\ m \notin Out
        BY <1>1, Messages, SessionAssumption DEF TypeOK, HistoryTypes
      <4>3. m \in offered BY <3>3, <4>1 DEF Promise, Slots
      <4>4. \A j \in BrokerIds : j # i => bOut[j].msg # m
        BY <4>1, <4>2 DEF Promise, Slots
      <4>5. {q \in In \cap offered' : \A j \in BrokerIds : bOut'[j].msg # q}
              = {q \in In \cap offered : \A j \in BrokerIds : bOut[j].msg # q} \cup {m}
        <5>1. \A j \in BrokerIds : bOut'[j].msg # m BY <3>1, <4>2, <4>4
        <5>2. ASSUME NEW q \in In, q # m
              PROVE  (\A j \in BrokerIds : bOut'[j].msg # q) <=> (\A j \in BrokerIds : bOut[j].msg # q)
          BY <3>1, <4>1, <4>2, <5>2
        <5>3. QED BY <1>2, <4>3, <5>1, <5>2
      <4>6. Settled' = Settled \cup {m} BY <1>2, <4>5 DEF Settled
      <4>7. m \notin Settled BY <4>1, <4>2 DEF Settled
      <4>8. Delivered(m) > 0 BY <2>4, <4>1
      <4>9. QED BY <1>2, <1>4, <4>3, <4>6, <4>7, <4>8, SettleMaps DEF Mapped
    <3>4. QED BY <3>2, <3>3
  <2>5. QED BY <2>2, <2>3, <2>4
<1>8. QED BY <1>6, <1>7

(* The node of a message is recorded as it is accepted: not yet settled. *)
LEMMA RecordMapped ==
  ASSUME Promise, PublishRecord
  PROVE  Mapped
<1>1. /\ user.pc = "sent" /\ user.msg \in Out /\ TypeOK
      /\ UNCHANGED <<offered, bOut, fwd, dlv, unrecorded, yield>>
  BY DEF PublishRecord, broker, Promise, Handshake, TypeOK, ThreadTypes
<1>2. \A m \in Out \cup In : Delivered(m)' = Delivered(m) BY <1>1, DeliveredSame
<1>3. \/ acks' = acks /\ accepted' = accepted
      \/ /\ accepted' = accepted \cup {user.msg}
         /\ \E n : n.msg = user.msg /\ acks' = acks \cup {n}
  BY DEF PublishRecord, AckListRecord
<1>4. CASE acks' = acks /\ accepted' = accepted
  <2>1. Settled' = Settled BY <1>1, <1>4, SettledSame
  <2>2. QED BY <1>1, <1>2, <2>1, StutterMaps DEF Mapped
<1>5. CASE /\ accepted' = accepted \cup {user.msg}
           /\ \E n : n.msg = user.msg /\ acks' = acks \cup {n}
  <2>1. user.msg \notin accepted BY <1>1 DEF Promise, Told
  <2>2. \A q : (\E n \in acks' : n.msg = q) <=> (\E n \in acks : n.msg = q) \/ q = user.msg
    BY <1>5
  <2>3. {q \in accepted' : ~\E n \in acks' : n.msg = q} = {q \in accepted : ~\E n \in acks : n.msg = q}
    BY <1>5, <2>1, <2>2
  <2>4. Settled' = Settled BY <1>1, <2>3 DEF Settled
  <2>5. QED BY <1>1, <1>2, <2>4, StutterMaps DEF Mapped
<1>6. QED BY <1>3, <1>4, <1>5

(* Everything else happens below what MqttDelivery sees. *)
LEMMA OthersMapped ==
  ASSUME Promise, SettledKept, UNCHANGED <<fwd, dlv, unrecorded>>,
         yield' = yield \/ (yield.pc # "deliver" /\ yield'.pc # "deliver")
  PROVE  Mapped
<1>1. Settled' = Settled /\ offered' = offered BY KeptIsSame DEF Promise, Handshake
<1>2. QED BY <1>1, DeliveredSame, StutterMaps DEF Mapped

(* Every step of the session is a step of the abstract one, or none of it. *)
LEMMA StepMapped ==
  ASSUME ~CleanSession, Promise, AcceptedIsKept', [Next]_vars
  PROVE  Mapped
<1>1. CASE \/ (\E m \in Out : PublishCheck(m)) \/ PublishNoMemory \/ PublishTooMuch \/ PublishRelease
           \/ Timeout \/ KeepAliveSlow \/ LinkDown \/ UNCHANGED vars
  <2>1. UNCHANGED <<accepted, offered, acks, bOut, fwd, dlv, unrecorded, yield>>
    BY <1>1 DEF PublishCheck, PublishTooMuch, PublishNoMemory, PublishRelease, Timeout,
       ScanTimeout, KeepAliveSlow, LinkDown, AckListNoMemory, client, broker, history, vars
  <2>2. SettledKept BY <2>1 DEF SettledKept
  <2>3. QED BY <2>1, <2>2, OthersMapped
<1>2. CASE User
  BY <1>1, <1>2, OffersMapped, RecordMapped DEF User
<1>3. CASE PubackAndPubcompPacketHandle \/ UnrecordAnswered
  <2>1. /\ UNCHANGED <<accepted, offered, bOut, fwd, dlv, unrecorded>>
        /\ yield' = yield \/ (yield.pc # "deliver" /\ yield'.pc # "deliver")
    BY <1>3 DEF PubackAndPubcompPacketHandle, UnrecordAnswered, broker, history, Loop
  <2>2. \E type, i : AckListUnrecord(type, i)
    BY <1>3 DEF PubackAndPubcompPacketHandle, UnrecordAnswered
  <2>3. QED BY <2>1, <2>2, UnrecordMapped
<1>4. CASE PubrecPacketHandle \/ PubrecPacketNoMemory \/ PubrelPacketHandle
  <2>1. /\ UNCHANGED <<accepted, offered, bOut, fwd, dlv, unrecorded>>
        /\ yield.pc # "deliver" /\ yield'.pc # "deliver"
    BY <1>4 DEF PubrecPacketHandle, PubrecPacketNoMemory, PubrelPacketHandle, Read, broker, history
  <2>2. acks' = acks \/ \E n : n.msg = NoMsg /\ acks' = acks \cup {n}
    BY <1>4 DEF PubrecPacketHandle, PubrecPacketNoMemory, PubrelPacketHandle, AckListRecord,
       AckListNoMemory, client
  <2>3. SettledKept BY <2>1, <2>2 DEF SettledKept
  <2>4. QED BY <2>1, <2>3, OthersMapped
<1>5. CASE Handle
  BY <1>3, <1>4, <1>5, InHandMapped, DeliveryMapped DEF Handle, Delivering
<1>6. CASE Reconnect
  <2>1. UNCHANGED <<accepted, offered, acks, bOut, fwd, dlv, unrecorded>>
    BY <1>6 DEF Reconnect, KeepAliveLost, TryDoReconnect, ScanResend, ScanEnd, client, broker,
       history
  <2>2. yield' = yield \/ (yield.pc # "deliver" /\ yield'.pc # "deliver")
    BY <1>6 DEF Reconnect, KeepAliveLost, TryDoReconnect, ScanResend, ScanEnd, Loop
  <2>3. SettledKept BY <2>1 DEF SettledKept
  <2>4. QED BY <2>1, <2>2, <2>3, OthersMapped
<1>7. CASE BrokerOnPubrel \/ BrokerOnPubrec \/ (\E i \in BrokerIds : BrokerResend(i))
  <2>1. UNCHANGED <<accepted, offered, acks, fwd, dlv, unrecorded, yield>>
    BY <1>7 DEF BrokerOnPubrel, BrokerOnPubrec, BrokerResend, BrokerRead, client, history
  <2>2. ASSUME NEW j \in BrokerIds PROVE bOut'[j].msg = bOut[j].msg
    <3>1. bOut \in [BrokerIds -> [st : {"free", "ack", "rec", "comp"}, msg : In \cup {NoMsg}]]
      BY DEF Promise, Handshake, TypeOK, BrokerTypes
    <3>2. QED BY <1>7, <3>1 DEF BrokerOnPubrel, BrokerOnPubrec, BrokerResend
  <2>3. SettledKept BY <2>1, <2>2 DEF SettledKept
  <2>4. QED BY <2>1, <2>3, OthersMapped
<1>8. CASE Broker
  BY <1>7, <1>8, BrokerDeliversMapped, LastAckMapped DEF Broker
<1>9. QED BY <1>1, <1>2, <1>5, <1>6, <1>8, BrokerOffersMapped DEF Next

(* The invariant: what is under way never says more than has happened.       *)
LEMMA PromiseStep ==
  ASSUME ~CleanSession, NextIdUnused, Promise, TypeOK', [Next]_vars
  PROVE  Promise'
<1>1. /\ TypeOK /\ Fresh /\ Agree /\ Lists /\ Told /\ Released /\ Slots /\ ListInv
      /\ \A j \in BrokerIds : Exchange(j)
  BY DEF Promise, Handshake
<1>2. ListInv' /\ Fresh' /\ Agree' /\ Lists' /\ Told'
  BY <1>1, ListInvInductive, FreshStep, AgreeStep, ListsStep, ToldStep
<1>3. AcceptedIsKept' BY KeptStep DEF Promise
<1>4. Released' BY <1>1, ReleasedStep
<1>5. Slots' BY <1>1, SlotsStep
<1>6. \A i \in BrokerIds : Exchange(i)' BY <1>1, ExchangeStep
<1>7. QED BY <1>2, <1>3, <1>4, <1>5, <1>6 DEF Promise, Handshake

LEMMA PromiseInit ==
  ASSUME Init
  PROVE  AcceptedIsKept /\ Told /\ Released /\ Slots /\ \A i \in BrokerIds : Exchange(i)
<1>1. AcceptedIsKept BY DEF Init, AcceptedIsKept
<1>2. \A i, m : ~Carries(i, m) BY DEF Init, Carries, Elems, Idle
<1>3. Told BY <1>2 DEF Init, Told, Idle
<1>4. /\ \A k, i : ~Sent(k, i) /\ ~Asked(k, i)
      /\ \A i : ~Received(i) /\ ~InHand2(i) /\ ~Resendable(i)
      /\ \A A : Lacks(c2b, A) /\ Lacks(b2c, A) /\ AtMostOne(b2c, A) /\ AtMostOne(c2b, A)
      /\ \A A, B : Precede(c2b, A, B)
  BY EmptyOrder DEF Init, Sent, Asked, Received, InHand2, NodeIsExist, Resendable, Loop, Idle
<1>5. Released BY <1>2, <1>4 DEF Released
<1>6. \A i \in BrokerIds : bOut[i].st = "free" /\ bOut[i].msg = NoMsg
  BY DEF Init, Free
<1>7. Slots BY <1>6 DEF Slots, Init, Loop
<1>8. \A i \in BrokerIds : Exchange(i)
  <2>1. bResend = {} BY DEF Init
  <2>2. QED BY <1>4, <1>6, <2>1 DEF Exchange, Requested, Once1, Known
<1>9. QED BY <1>1, <1>3, <1>5, <1>7, <1>8

LEMMA PromiseHolds == ~CleanSession => (Spec /\ []NextIdUnused => []Promise)
<1> SUFFICES ASSUME ~CleanSession PROVE Spec /\ []NextIdUnused => []Promise
  OBVIOUS
<1>1. Init => AcceptedIsKept /\ Told /\ Released /\ Slots /\ \A i \in BrokerIds : Exchange(i)
  BY PromiseInit
<1>2. Promise /\ NextIdUnused /\ TypeOK' /\ [Next]_vars => Promise'
  BY PromiseStep
<1>3. Handshake /\ AcceptedIsKept /\ Told /\ Released /\ Slots /\ (\A i \in BrokerIds : Exchange(i))
      => Promise
  BY DEF Promise
<1>4. QED BY <1>1, <1>2, <1>3, HandshakeHolds, TypeCorrect, PTL DEF Spec

(* The handshakes, with every loss of the connection, resend and            *)
(* interleaving, implement at-least-once and exactly-once delivery: a QoS 1  *)
(* message is delivered before its sender forgets it, a QoS 2 message is     *)
(* delivered before and never twice, with one exception: an incoming one is  *)
(* delivered again if, the last time, mqtt_ack_list_record() had no memory   *)
(* for the node that would have told (787).  Memory may fail at every node,  *)
(* the broker keeps the session, and no packet id that is still in use is    *)
(* handed out.                                                               *)
THEOREM ImplementsDelivery ==
  ~CleanSession => (Spec /\ []NextIdUnused => DeliverySpec)
<1> SUFFICES ASSUME ~CleanSession PROVE Spec /\ []NextIdUnused => DeliverySpec
  OBVIOUS
<1>1. Spec /\ []NextIdUnused => []Promise BY PromiseHolds
<1>2. Promise /\ Promise' /\ [Next]_vars => [Delivery!Next]_(Delivery!vars)
  BY StepMapped DEF Mapped, Promise
<1>3. Init => Delivery!Init
  <2> SUFFICES ASSUME Init PROVE Delivery!Init
    OBVIOUS
  <2>1. offered = {} /\ accepted = {} /\ unrecorded = {} BY DEF Init
  <2>2. Settled = {} BY <2>1 DEF Settled
  <2>3. \A m \in Out \cup In : Delivered(m) = 0
    BY DEF Init, Loop, Delivered, InHand
  <2>4. Deliveries = [m \in Out \cup In |-> 0] BY <2>3 DEF Deliveries
  <2>5. Delivery!Message = Out \cup In BY Messages DEF Delivery!Message
  <2>6. QED BY <2>1, <2>2, <2>4, <2>5 DEF Delivery!Init, Deliveries
<1>4. QED
  BY <1>1, <1>2, <1>3, PTL DEF Spec, DeliverySpec, Delivery!Spec

(* Comment 786 is right of a session the broker keeps: when mqttclient.c     *)
(* finds the node of a QoS 2 message and drops it as repeated, the callback  *)
(* has had it.  Only a clean session breaks it (MCMqttSession_clean).        *)
THEOREM RepeatedWasProcessed ==
  ~CleanSession => (Spec /\ []NextIdUnused => []FirstReceiptProcessed)
<1> SUFFICES ASSUME ~CleanSession PROVE Spec /\ []NextIdUnused => []FirstReceiptProcessed
  OBVIOUS
<1>1. Spec /\ []NextIdUnused => []Promise BY PromiseHolds
<1>2. ASSUME Promise PROVE FirstReceiptProcessed
  <2> SUFFICES ASSUME yield.pc = "deliver", yield.msg \in InQ2, NodeIsExist("PUBREL", yield.id)
               PROVE  dlv[yield.msg] > 0
    BY DEF FirstReceiptProcessed
  <2>1. yield.id \in BrokerIds BY <1>2 DEF Promise, Handshake, TypeOK, ThreadTypes
  <2>2. Known(yield.id) BY <1>2, <2>1 DEF Promise, Exchange
  <2>3. InHand2(yield.id) /\ Received(yield.id) BY DEF InHand2, Received
  <2>4. QED BY <2>2, <2>3 DEF Known, Got
<1>3. QED BY <1>1, <1>2, PTL

(* The same without a condition on behaviours: when there are more packet    *)
(* ids than messages to publish, none comes round, and what was accepted is  *)
(* kept and its PUBLISH never follows its PUBREL.                            *)
THEOREM EnoughIdsKeep ==
  EnoughIds => (Spec => [](AcceptedIsKept /\ NoPublishAfterPubrel))
<1> SUFFICES ASSUME EnoughIds PROVE Spec => [](AcceptedIsKept /\ NoPublishAfterPubrel)
  OBVIOUS
<1>1. Spec => []NextIdUnused BY EnoughIdsUnused
<1>2. QED BY <1>1, AcceptedKept, NoPublishAfterRelease, PTL

(* The delivery of every message, with enough packet ids: exactly once for   *)
(* QoS 2, but for incoming messages whose node there was no memory for.      *)
THEOREM EnoughIdsDeliver == EnoughIds /\ ~CleanSession => (Spec => DeliverySpec)
<1> SUFFICES ASSUME EnoughIds, ~CleanSession PROVE Spec => DeliverySpec
  OBVIOUS
<1>1. Spec => []NextIdUnused BY EnoughIdsUnused
<1>2. Spec /\ []NextIdUnused => DeliverySpec BY ImplementsDelivery
<1>3. QED BY <1>1, <1>2
=============================================================================
