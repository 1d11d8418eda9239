------------------------------ MODULE MqttSubs ------------------------------
(***************************************************************************)
(* Subscriptions of mqttclient.c: mqtt_subscribe() and mqtt_unsubscribe()  *)
(* of the user thread send a packet and then record a node that waits for  *)
(* its ack; the yield thread reads the ack, installs or destroys the       *)
(* message handler, forgets overdue nodes, and after a reconnect           *)
(* subscribes again to every topic that has a handler.                     *)
(*                                                                         *)
(* A handler is the piece of memory mqtt_msg_handler_create() returned.    *)
(* Its allocation may fail, and so may the one of a node.  The allocator   *)
(* does not hand out memory a node still points to.  Only SUBACK and       *)
(* UNSUBACK nodes are here, MqttSession has the others.                    *)
(***************************************************************************)
EXTENDS Naturals, Sequences, FiniteSets

CONSTANTS Topic,         \* topic filters
          Refused,       \* those the broker answers with SUBFAIL
          Handler,       \* pieces of memory for message handlers
          NoTopic,       \* topic of memory that is not allocated
          MaxPacketId,   \* MQTT_MAX_PACKET_ID
          CleanSession,  \* mqtt_clean_session
          MaxCalls,      \* calls of the user (bound)
          MaxDrops       \* lost connections (bound)

PacketId == 1..MaxPacketId

ASSUME SubsAssumption ==
  /\ Refused \subseteq Topic /\ NoTopic \notin Topic
  /\ MaxPacketId \in Nat \ {0} /\ CleanSession \in BOOLEAN
  /\ MaxCalls \in Nat /\ MaxDrops \in Nat

VARIABLES state,       \* c->mqtt_client_state: CONNECTED or not
          packetId,    \* c->mqtt_packet_id
          mem,         \* handler |-> its topic_filter
          installed,   \* c->mqtt_msg_handler_list
          nodes,       \* c->mqtt_ack_handler_list
          user,        \* the call of the user thread that holds the write lock
          resub,       \* handlers mqtt_try_resubscribe() has still to visit
          yield,       \* yield thread: in its loop or reconnecting
          crashed,     \* memory was used that is not a handler
          link, c2b, b2c,
          subs,        \* broker: its subscriptions
          calls, drops,
          unsubbed,    \* history: topics the user has unsubscribed
          leaked       \* history: handlers whose node could not be allocated

lists == <<mem, installed, nodes, crashed>>
net == <<link, c2b, b2c, subs, drops>>
count == <<calls, unsubbed, leaked>>
vars == <<state, packetId, lists, user, resub, yield, net, count>>

Idle == [pc |-> "idle", topic |-> NoTopic, id |-> 1]

Init ==
  /\ state = "CONNECTED" /\ packetId = 1
  /\ mem = [h \in Handler |-> NoTopic] /\ installed = {} /\ nodes = {}
  /\ user = Idle /\ resub = {} /\ yield = "loop" /\ crashed = FALSE
  /\ link = TRUE /\ c2b = <<>> /\ b2c = <<>> /\ subs = {}
  /\ calls = 0 /\ drops = 0 /\ unsubbed = {} /\ leaked = {}
-----------------------------------------------------------------------------
(* Helpers *)

Pkt(k, i, t) == [kind |-> k, id |-> i, topic |-> t]
Send(p) == c2b' = IF link THEN Append(c2b, p) ELSE c2b

GetNextPacketId == IF packetId = MaxPacketId THEN 1 ELSE packetId + 1

NodeIsExist(type, i) == \E n \in nodes : n.type = type /\ n.id = i

\* mqtt_ack_list_record(): a second node of a type and id is refused.
AckListRecord(type, i, h) ==
  nodes' = IF NodeIsExist(type, i) THEN nodes
           ELSE nodes \cup {[type |-> type, id |-> i, h |-> h]}

\* ... or there is no memory for it.
AckListNoMemory(type, i) == ~NodeIsExist(type, i) /\ UNCHANGED nodes

\* Memory that is free and that nothing points to.
Unused == {h \in Handler : mem[h] = NoTopic /\ \A n \in nodes : n.h # h}

\* mqtt_msg_handler_create(), or no memory for it, and the recording of its
\* node.  The exit of mqtt_subscribe() frees no handler.
CreateAndRecord(t, i) ==
  LET h == CHOOSE u \in Unused : TRUE
  IN  \/ UNCHANGED <<mem, nodes, leaked>>
      \/ /\ Unused # {}
         /\ mem' = [mem EXCEPT ![h] = t]
         /\ \/ AckListRecord("SUBACK", i, h) /\ UNCHANGED leaked
            \/ AckListNoMemory("SUBACK", i) /\ leaked' = leaked \cup {h}

\* mqtt_msg_handler_destory(): off the list it may be in, and freed.
Destroy(h) ==
  IF mem[h] = NoTopic
    THEN crashed' = TRUE /\ UNCHANGED <<mem, installed>>
    ELSE /\ mem' = [mem EXCEPT ![h] = NoTopic]
         /\ installed' = installed \ {h}
         /\ UNCHANGED crashed

HandlerIsExist_Never(t) == FALSE

HandlerIsExist(t) == \E h \in installed : mem[h] = t
-----------------------------------------------------------------------------
(* The user thread: mqtt_subscribe() and mqtt_unsubscribe(), each a packet  *)
(* sent and then a node recorded, inside the write lock.                    *)

UserCall(pc, kind, t) ==
  /\ user.pc = "idle" /\ ~crashed /\ calls < MaxCalls
  /\ state = "CONNECTED"
  /\ calls' = calls + 1
  /\ packetId' = GetNextPacketId
  /\ \/ /\ Send(Pkt(kind, GetNextPacketId, t))
        /\ user' = [pc |-> pc, topic |-> t, id |-> GetNextPacketId]
     \/ ~link /\ UNCHANGED <<user, c2b>>
  /\ UNCHANGED <<state, lists, resub, yield, link, b2c, subs, drops, leaked>>

Subscribe(t) == UserCall("subscribe", "SUBSCRIBE", t) /\ UNCHANGED unsubbed

SubscribeRecord ==
  /\ user.pc = "subscribe" /\ ~crashed
  /\ CreateAndRecord(user.topic, user.id)
  /\ user' = Idle
  /\ UNCHANGED <<state, packetId, installed, crashed, resub, yield, net>>
  /\ UNCHANGED <<calls, unsubbed>>

Unsubscribe(t) ==
  /\ UserCall("unsubscribe", "UNSUBSCRIBE", t)
  /\ unsubbed' = unsubbed \cup {t}

\* mqtt_get_msg_handler(); without a handler there is no node either.
UnsubscribeRecord ==
  /\ user.pc = "unsubscribe" /\ ~crashed
  /\ \/ \E h \in installed :
          mem[h] = user.topic /\ AckListRecord("UNSUBACK", user.id, h)
     \/ HandlerIsExist(user.topic) /\ AckListNoMemory("UNSUBACK", user.id)
     \/ ~HandlerIsExist(user.topic) /\ UNCHANGED nodes
  /\ user' = Idle
  /\ UNCHANGED <<state, packetId, mem, installed, crashed, resub, yield, net, count>>
-----------------------------------------------------------------------------
(* The yield thread. *)

Yield == yield = "loop" /\ state = "CONNECTED" /\ ~crashed

Read(kind) ==
  /\ Yield /\ link /\ b2c # <<>> /\ Head(b2c).kind = kind
  /\ b2c' = Tail(b2c)
  /\ UNCHANGED <<state, packetId, user, resub, yield, link, c2b, subs, drops, count>>

Waiting(type, i) == {n \in nodes : n.type = type /\ n.id = i}

SubackPacketHandle_NoNull ==
  LET i == Head(b2c).id
  IN  /\ Read("SUBACK")
      /\ nodes' = nodes \ Waiting("SUBACK", i)
      /\ \/ /\ Waiting("SUBACK", i) = {} /\ crashed' \in BOOLEAN
            /\ UNCHANGED <<mem, installed>>
         \/ \E n \in Waiting("SUBACK", i) :
              /\ installed' = installed \cup {n.h}
              /\ UNCHANGED <<mem, crashed>>

SubackPacketHandle_KeepsNode ==
  LET i == Head(b2c).id
  IN  /\ Read("SUBACK")
      /\ \/ Waiting("SUBACK", i) = {} /\ UNCHANGED lists
         \/ \E n \in Waiting("SUBACK", i) :
              /\ installed' = installed \cup {n.h}
              /\ UNCHANGED <<mem, nodes, crashed>>

\* mqtt_suback_packet_handle() and mqtt_msg_handlers_install(): the handler of
\* the node joins the list, unless the topic was refused or has one already.
SubackPacketHandle ==
  LET p == Head(b2c)
  IN  /\ Read("SUBACK")
      /\ nodes' = nodes \ Waiting("SUBACK", p.id)
      /\ \/ Waiting("SUBACK", p.id) = {} /\ UNCHANGED <<mem, installed, crashed>>
         \/ \E n \in Waiting("SUBACK", p.id) :
              IF p.topic \in Refused \/ HandlerIsExist(mem[n.h])
                THEN Destroy(n.h)
                ELSE installed' = installed \cup {n.h} /\ UNCHANGED <<mem, crashed>>

\* mqtt_unsuback_packet_handle(): without a node its pointer was never given a
\* value. NULL ends the call, anything else is destroyed as a handler.
UnsubackPacketHandle ==
  LET i == Head(b2c).id
  IN  /\ Read("UNSUBACK")
      /\ nodes' = nodes \ Waiting("UNSUBACK", i)
      /\ \/ /\ Waiting("UNSUBACK", i) = {}
            /\ crashed' \in BOOLEAN /\ UNCHANGED <<mem, installed>>
         \/ \E n \in Waiting("UNSUBACK", i) : Destroy(n.h)

ScanTimeout_KeepsHandler(n) ==
  /\ Yield /\ n \in nodes
  /\ nodes' = nodes \ {n}
  /\ UNCHANGED <<state, packetId, mem, installed, crashed, user, resub, yield, net, count>>

\* mqtt_ack_list_scan(c, 1): an overdue node goes, and its handler with it.
ScanTimeout(n) ==
  /\ Yield /\ n \in nodes
  /\ nodes' = nodes \ {n}
  /\ Destroy(n.h)
  /\ UNCHANGED <<state, packetId, user, resub, yield, net, count>>

KeepAliveLost ==
  /\ Yield /\ ~link
  /\ state' = "DISCONNECTED"
  /\ UNCHANGED <<packetId, lists, user, resub, yield, net, count>>

TryDoReconnect_NoResubscribe ==
  /\ yield = "loop" /\ state = "DISCONNECTED" /\ user.pc = "idle" /\ ~crashed
  /\ state' = "CONNECTED" /\ link' = TRUE
  /\ subs' = IF CleanSession THEN {} ELSE subs
  /\ yield' = "reconnect"
  /\ UNCHANGED <<packetId, lists, user, resub, c2b, b2c, drops, count>>

\* mqtt_try_do_reconnect(): mqtt_connect() succeeds ...
TryDoReconnect ==
  /\ yield = "loop" /\ state = "DISCONNECTED" /\ user.pc = "idle" /\ ~crashed
  /\ state' = "CONNECTED" /\ link' = TRUE
  /\ subs' = IF CleanSession THEN {} ELSE subs
  /\ yield' = "reconnect" /\ resub' = installed
  /\ UNCHANGED <<packetId, lists, user, c2b, b2c, drops, count>>

\* ... every handler of the list is subscribed again, with a new handler ...
TryResubscribe(h) ==
  /\ yield = "reconnect" /\ h \in resub /\ user.pc = "idle" /\ ~crashed
  /\ resub' = resub \ {h}
  /\ packetId' = GetNextPacketId
  /\ \/ /\ Send(Pkt("SUBSCRIBE", GetNextPacketId, mem[h]))
        /\ CreateAndRecord(mem[h], GetNextPacketId)
     \/ ~link /\ UNCHANGED <<c2b, mem, nodes, leaked>>
  /\ UNCHANGED <<state, installed, crashed, user, yield, link, b2c, subs, drops>>
  /\ UNCHANGED <<calls, unsubbed>>

\* ... and mqtt_ack_list_scan(c, 0) destroys every node there is, overdue or
\* not: those of the new packets, and what the user has recorded meanwhile.
ScanAll ==
  LET gone == {n.h : n \in nodes}
  IN  /\ yield = "reconnect" /\ resub = {} /\ ~crashed
      /\ nodes' = {}
      /\ mem' = [h \in Handler |-> IF h \in gone THEN NoTopic ELSE mem[h]]
      /\ installed' = installed \ gone
      /\ crashed' = \E n \in nodes :
                      \/ mem[n.h] = NoTopic
                      \/ \E o \in nodes : o # n /\ o.h = n.h
      /\ yield' = "loop"
      /\ UNCHANGED <<state, packetId, user, resub, net, count>>
-----------------------------------------------------------------------------
(* The broker and the network, external. *)

BrokerStep ==
  LET p == Head(c2b)
  IN  /\ link /\ c2b # <<>>
      /\ c2b' = Tail(c2b)
      /\ \/ /\ p.kind = "SUBSCRIBE"
            /\ subs' = subs \cup ({p.topic} \ Refused)
            /\ b2c' = Append(b2c, Pkt("SUBACK", p.id, p.topic))
         \/ /\ p.kind = "UNSUBSCRIBE"
            /\ subs' = subs \ {p.topic}
            /\ b2c' = Append(b2c, Pkt("UNSUBACK", p.id, p.topic))
      /\ UNCHANGED <<state, packetId, lists, user, resub, yield, link, drops, count>>

LinkDown ==
  /\ link /\ drops < MaxDrops
  /\ link' = FALSE /\ c2b' = <<>> /\ b2c' = <<>>
  /\ drops' = drops + 1
  /\ UNCHANGED <<state, packetId, lists, user, resub, yield, subs, count>>
-----------------------------------------------------------------------------
Record == SubscribeRecord \/ UnsubscribeRecord

YieldStep ==
  \/ SubackPacketHandle \/ UnsubackPacketHandle \/ KeepAliveLost
  \/ TryDoReconnect \/ ScanAll
  \/ \E h \in Handler : TryResubscribe(h)

Timeout == \E n \in nodes : ScanTimeout(n)

Next == \/ \E t \in Topic : Subscribe(t) \/ Unsubscribe(t)
        \/ Record \/ YieldStep \/ Timeout \/ BrokerStep \/ LinkDown

Spec == Init /\ [][Next]_vars
-----------------------------------------------------------------------------
Node == [type : {"SUBACK", "UNSUBACK"}, id : PacketId, h : Handler]

(* The types. *)
TypeOK ==
  /\ state \in {"CONNECTED", "DISCONNECTED"} /\ packetId \in PacketId
  /\ mem \in [Handler -> Topic \cup {NoTopic}] /\ installed \subseteq Handler
  /\ nodes \subseteq Node /\ crashed \in BOOLEAN
  /\ user \in [pc : {"idle", "subscribe", "unsubscribe"},
               topic : Topic \cup {NoTopic}, id : PacketId]
  /\ user.pc # "idle" => user.topic \in Topic
  /\ resub \subseteq Handler /\ yield \in {"loop", "reconnect"} /\ link \in BOOLEAN
  /\ c2b \in Seq([kind : {"SUBSCRIBE", "UNSUBSCRIBE"}, id : PacketId, topic : Topic])
  /\ b2c \in Seq([kind : {"SUBACK", "UNSUBACK"}, id : PacketId, topic : Topic])
  /\ subs \subseteq Topic /\ unsubbed \subseteq Topic /\ leaked \subseteq Handler
  /\ calls \in 0..MaxCalls /\ drops \in 0..MaxDrops

Pending == {n \in nodes : n.type = "SUBACK"}

(* Every handler has one owner: what is installed or waits for its SUBACK   *)
(* is allocated, a waiting handler is not installed, and no two nodes wait  *)
(* with the same one ("destory handler memory", 553, happens once).         *)
OneOwner ==
  /\ \A h \in installed : mem[h] # NoTopic
  /\ \A n \in Pending : mem[n.h] # NoTopic /\ n.h \notin installed
  /\ \A m, n \in Pending : m.h = n.h => m = n

(* The handlers that are allocated and have no owner are exactly those      *)
(* whose node could not be allocated ("create a message and record it",     *)
(* 1335-1341, whose exit frees nothing).  Whatever becomes of the others,   *)
(* acknowledged, refused, twice there, overdue, unsubscribed or given up    *)
(* after a reconnect, none is left behind; a lost one is never freed.       *)
NoOtherLeak ==
  \A h \in Handler :
     h \in leaked <=> /\ mem[h] # NoTopic /\ h \notin installed
                     /\ \A n \in Pending : n.h # h

(* A topic has one handler, however often it is subscribed to, again after  *)
(* each reconnect as well ("determine whether a node already exists", 460). *)
OneHandlerPerTopic ==
  \A g, h \in installed : mem[g] = mem[h] => g = h

(* Memory that is not a handler is used only by a client that has           *)
(* unsubscribed: the acks of mqtt_subscribe(), early, late, refused or      *)
(* repeated, never lead there.                                              *)
SubscribeIsSafe == crashed => unsubbed # {}

(* When nothing is under way, the broker has a subscription for every       *)
(* handler of a topic that was not unsubscribed: reconnecting restores      *)
(* them, also in a clean session (mqtt_try_resubscribe).                    *)
Quiet == /\ state = "CONNECTED" /\ link /\ c2b = <<>> /\ b2c = <<>>
         /\ user.pc = "idle" /\ yield = "loop" /\ ~crashed

HandlersSubscribed ==
  Quiet => \A h \in installed : mem[h] \in subs \cup unsubbed
=============================================================================
