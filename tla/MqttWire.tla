------------------------------ MODULE MqttWire ------------------------------
(***************************************************************************)
(* The write buffer of mqttclient.c on one connection. Packets are laid    *)
(* out in c->mqtt_write_buf by whoever holds c->mqtt_write_lock, sent from *)
(* there by mqtt_send_packet(), and copied from there into the node that   *)
(* may have to send them again. Three things do without the lock, or       *)
(* without the length: the ping of mqtt_keep_alive(), the node of a        *)
(* received QoS 2 message, and the rest of a packet after a short write.   *)
(*                                                                         *)
(* A byte is the packet it belongs to and its place there. The kernel      *)
(* takes the bytes of a write() one by one, another thread's between them  *)
(* when it has to wait for memory. The broker is the parser of the stream. *)
(***************************************************************************)
EXTENDS Naturals, Sequences

CONSTANTS UserPackets,   \* what the application publishes, QoS 1 or 2
          Qos0,          \* or QoS 0
          Acks,          \* PUBACK and PUBCOMP packets
          Recs, Rels,    \* PUBREC and PUBREL packets
          PingReq,       \* the ping
          Length,        \* [Packet -> length]
          Size           \* of the write buffer

Packet == UserPackets \cup Qos0 \cup Acks \cup Recs \cup Rels \cup {PingReq}

ASSUME WireAssumption ==
  /\ Size \in Nat
  /\ Length \in [Packet -> 1..Size]
  /\ \A p \in UserPackets \cup Qos0 : Length[p] > Length[PingReq]
  /\ PingReq \notin UserPackets \cup Qos0 \cup Acks \cup Recs \cup Rels
  /\ Recs \cap (UserPackets \cup Qos0 \cup Acks \cup Rels) = {}

VARIABLES wbuf,       \* c->mqtt_write_buf
          lock,       \* c->mqtt_write_lock: its owner, or "free"
          job,        \* what a thread is sending, see Job
          nodes,      \* of the ack list: the packet, and the bytes saved for it
          todo,       \* what the application has yet to publish
          accepted,   \* and what mqtt_publish() has returned success for
          rx,         \* the last byte of the packet the broker is in, or Start
          got,        \* packets the broker has received whole
          garbled,    \* the stream made no sense to it
          faults      \* what has happened that may garble it (history)

vars == <<wbuf, lock, job, nodes, todo, accepted, rx, got, garbled, faults>>
stream == <<rx, got, garbled>>

Thread == {"user", "yield"}
Junk == <<PingReq, 0>>    \* bytes of the CONNECT packet, or none of the buffer
Start == Junk
Byte == (Packet \X Nat)

\* pc: "idle"; "send", in mqtt_send_packet(); "ok" and "failed", its results;
\* "late", the PUBREL node is still to be recorded. sent and taken: bytes of
\* the finished writes, and of the one under way.
Job == [pc : {"idle", "send", "ok", "failed", "late"}, pkt : Packet, sent : Nat, taken : Nat]
Idle == [pc |-> "idle", pkt |-> PingReq, sent |-> 0, taken |-> 0]
Sending(p) == [pc |-> "send", pkt |-> p, sent |-> 0, taken |-> 0]

Bytes(p) == [i \in 1..Length[p] |-> <<p, i>>]
Saved(p) == SubSeq(wbuf, 1, Length[p])
Fill(bytes) == wbuf' = [i \in 1..Size |-> IF i <= Len(bytes) THEN bytes[i] ELSE wbuf[i]]
Pinging == job["yield"].pc = "send" /\ job["yield"].pkt = PingReq
IsRecorded(p) == \E n \in nodes : n.pkt = p
Record(p, bytes) ==
  nodes' = IF IsRecorded(p) THEN nodes ELSE nodes \cup {[pkt |-> p, data |-> bytes]}

Init ==
  /\ wbuf = [i \in 1..Size |-> Junk] /\ lock = "free"
  /\ job = [t \in Thread |-> Idle] /\ nodes = {}
  /\ todo = UserPackets \cup Qos0 /\ accepted = {}
  /\ rx = Start /\ got = {} /\ garbled = FALSE /\ faults = {}
-----------------------------------------------------------------------------
(* mqtt_send_packet() and network_write(), by either thread *)

Fits(b) == IF rx = Start THEN b[2] = 1 ELSE b = <<rx[1], rx[2] + 1>>
Completes(b) == b[2] = Length[b[1]]
Receive(b) ==
  /\ garbled' = (garbled \/ ~Fits(b))
  /\ rx' = IF garbled' \/ Completes(b) THEN Start ELSE b
  /\ got' = got \cup {p \in {b[1]} : ~garbled' /\ Completes(b)}

\* Every write is asked for the whole length, from the byte that comes next.
\* A broker that cannot parse the stream closes the connection.
SendByte(t) ==
  /\ ~garbled
  /\ job[t].pc = "send" /\ job[t].taken < Length[job[t].pkt]
  /\ LET next == job[t].sent + job[t].taken + 1
     IN  Receive(IF next <= Size THEN wbuf[next] ELSE Junk)
  /\ job' = [job EXCEPT ![t].taken = @ + 1]
  /\ UNCHANGED <<wbuf, lock, nodes, todo, accepted, faults>>

\* The write returns with all bytes, or with fewer when its time is over.
WriteReturns(t) ==
  /\ job[t].pc = "send" /\ job[t].taken > 0
  /\ LET sent == job[t].sent + job[t].taken
         length == Length[job[t].pkt]
     IN  /\ job' = [job EXCEPT ![t].sent = sent, ![t].taken = 0,
                               ![t].pc = CASE sent < length -> "send"
                                           [] sent = length -> "ok"
                                           [] sent > length -> "failed"]
         /\ faults' = faults \cup {f \in {"short"} : job[t].taken < length}
  /\ UNCHANGED <<wbuf, lock, nodes, todo, accepted, stream>>

\* The timer of the packet has expired, or a write takes nothing or fails.
SendFails(t) ==
  /\ job[t].pc = "send" /\ job[t].taken = 0
  /\ job' = [job EXCEPT ![t].pc = "failed"]
  /\ UNCHANGED <<wbuf, lock, nodes, todo, accepted, stream, faults>>
-----------------------------------------------------------------------------
(* mqtt_publish() *)

Publish(p) ==
  /\ job["user"].pc = "idle" /\ p \in todo /\ lock = "free"
  /\ lock' = "user"
  /\ todo' = todo \ {p}
  /\ Fill(Bytes(p))
  /\ job' = [job EXCEPT !["user"] = Sending(p)]
  /\ faults' = faults \cup {f \in {"ping"} : Pinging}
  /\ UNCHANGED <<nodes, accepted, stream>>

PublishDone_ForgetsFailure ==
  /\ job["user"].pc \in {"ok", "failed"}
  /\ LET p == job["user"].pkt
     IN  /\ accepted' = accepted \cup {p}
         /\ IF p \notin Qos0 THEN Record(p, Saved(p)) ELSE UNCHANGED nodes
  /\ lock' = "free"
  /\ job' = [job EXCEPT !["user"] = Idle]
  /\ UNCHANGED <<wbuf, todo, stream, faults>>

PublishDone_KeepsLock ==
  /\ job["user"].pc \in {"ok", "failed"}
  /\ LET p == job["user"].pkt
         ok == job["user"].pc = "ok"
     IN  /\ accepted' = IF ok THEN accepted \cup {p} ELSE accepted
         /\ IF ok /\ p \notin Qos0 THEN Record(p, Saved(p)) ELSE UNCHANGED nodes
         /\ lock' = IF ok THEN "free" ELSE lock
  /\ job' = [job EXCEPT !["user"] = Idle]
  /\ UNCHANGED <<wbuf, todo, stream, faults>>

PublishDone ==
  /\ job["user"].pc \in {"ok", "failed"}
  /\ LET p == job["user"].pkt
         ok == job["user"].pc = "ok"
     IN  /\ accepted' = IF ok THEN accepted \cup {p} ELSE accepted
         /\ IF ok /\ p \notin Qos0 THEN Record(p, Saved(p)) ELSE UNCHANGED nodes
  /\ lock' = "free"
  /\ job' = [job EXCEPT !["user"] = Idle]
  /\ UNCHANGED <<wbuf, todo, stream, faults>>

\* No memory for the node: an error, and the connection is closed once the lock
\* has been given back (anything may still be sent before).
PublishNoMemory ==
  /\ job["user"].pc = "ok" /\ job["user"].pkt \notin Qos0
  /\ ~IsRecorded(job["user"].pkt)
  /\ lock' = "free"
  /\ job' = [job EXCEPT !["user"] = Idle]
  /\ UNCHANGED <<wbuf, nodes, todo, accepted, stream, faults>>
-----------------------------------------------------------------------------
(* The yield thread: answers, resending and pings *)

\* PUBACK, PUBCOMP and PUBREC are sent; nothing is saved under the lock.
Answer(p) ==
  /\ job["yield"].pc = "idle" /\ lock = "free"
  /\ lock' = "yield"
  /\ Fill(Bytes(p))
  /\ job' = [job EXCEPT !["yield"] = Sending(p)]
  /\ UNCHANGED <<nodes, todo, accepted, stream, faults>>

Release_RecordsFirst(p) ==
  /\ job["yield"].pc = "idle" /\ lock = "free"
  /\ Fill(Bytes(p))
  /\ Record(p, Saved(p))
  /\ IF IsRecorded(p) THEN UNCHANGED <<lock, job>>
                      ELSE lock' = "yield" /\ job' = [job EXCEPT !["yield"] = Sending(p)]
  /\ UNCHANGED <<todo, accepted, stream, faults>>

\* The PUBREL packet is saved in a PUBCOMP node before it is sent, and not
\* sent when there is such a node.
Release(p) ==
  /\ job["yield"].pc = "idle" /\ lock = "free"
  /\ Fill(Bytes(p))
  /\ Record(p, SubSeq(wbuf', 1, Length[p]))
  /\ IF IsRecorded(p) THEN UNCHANGED <<lock, job>>
                      ELSE lock' = "yield" /\ job' = [job EXCEPT !["yield"] = Sending(p)]
  /\ UNCHANGED <<todo, accepted, stream, faults>>

\* Nor is it sent when there is no memory for the node.
ReleaseNoMemory(p) ==
  /\ job["yield"].pc = "idle" /\ lock = "free"
  /\ ~IsRecorded(p)
  /\ Fill(Bytes(p))
  /\ UNCHANGED <<lock, job, nodes, todo, accepted, stream, faults>>

Resend_NoLock(n) ==
  /\ job["yield"].pc = "idle"
  /\ Fill(n.data)
  /\ job' = [job EXCEPT !["yield"] = Sending(n.pkt)]
  /\ UNCHANGED <<lock, nodes, todo, accepted, stream, faults>>

Resend(n) ==
  /\ job["yield"].pc = "idle" /\ lock = "free"
  /\ lock' = "yield"
  /\ Fill(n.data)
  /\ job' = [job EXCEPT !["yield"] = Sending(n.pkt)]
  /\ UNCHANGED <<nodes, todo, accepted, stream, faults>>

\* mqtt_keep_alive() takes no lock.
Ping ==
  /\ job["yield"].pc = "idle"
  /\ Fill(Bytes(PingReq))
  /\ job' = [job EXCEPT !["yield"] = Sending(PingReq)]
  /\ faults' = faults \cup {f \in {"ping"} : lock = "user"}
  /\ UNCHANGED <<lock, nodes, todo, accepted, stream>>

\* The lock is given back; a PUBREC that was sent has yet to be recorded.
YieldDone ==
  /\ job["yield"].pc \in {"ok", "failed"}
  /\ lock' = IF job["yield"].pkt = PingReq THEN lock ELSE "free"
  /\ job' = [job EXCEPT !["yield"] =
       IF job["yield"].pc = "ok" /\ job["yield"].pkt \in Recs
       THEN [@ EXCEPT !.pc = "late"] ELSE Idle]
  /\ UNCHANGED <<wbuf, nodes, todo, accepted, stream, faults>>

\* The node of a received QoS 2 message saves what the buffer holds by now.
RecordLate ==
  /\ job["yield"].pc = "late"
  /\ LET p == job["yield"].pkt
     IN  /\ Record(p, Saved(p))
         /\ faults' = faults \cup {f \in {"late"} : ~IsRecorded(p) /\ Saved(p) # Bytes(p)}
  /\ job' = [job EXCEPT !["yield"] = Idle]
  /\ UNCHANGED <<wbuf, lock, todo, accepted, stream>>

\* The message has been answered, and its node finds no memory.
RecordLateNoMemory ==
  /\ job["yield"].pc = "late" /\ ~IsRecorded(job["yield"].pkt)
  /\ job' = [job EXCEPT !["yield"] = Idle]
  /\ UNCHANGED <<wbuf, lock, nodes, todo, accepted, stream, faults>>

\* An answer of the broker removes a node.
Unrecord(n) ==
  /\ job["yield"].pc = "idle"
  /\ nodes' = nodes \ {n}
  /\ UNCHANGED <<wbuf, lock, job, todo, accepted, stream, faults>>
-----------------------------------------------------------------------------
SendStep(t) == SendByte(t) \/ WriteReturns(t) \/ SendFails(t)
User == PublishDone \/ PublishNoMemory \/ \E p \in UserPackets \cup Qos0 : Publish(p)
Yield == \/ Ping \/ YieldDone \/ RecordLate \/ RecordLateNoMemory
         \/ \E p \in Acks \cup Recs : Answer(p)
         \/ \E p \in Rels : Release(p) \/ ReleaseNoMemory(p)
         \/ \E n \in nodes : Resend(n) \/ Unrecord(n)
Next == User \/ Yield \/ \E t \in Thread : SendStep(t)

Spec == Init /\ [][Next]_vars

\* A call that has begun goes on; nobody has to begin one.
FairSpec ==
  /\ Spec
  /\ \A t \in Thread : WF_vars(SendStep(t))
  /\ WF_vars(PublishDone \/ PublishNoMemory) /\ WF_vars(YieldDone)
  /\ WF_vars(RecordLate \/ RecordLateNoMemory)
-----------------------------------------------------------------------------
(* The types; a job never has more bytes taken than its packet has.         *)
TypeOK ==
  /\ wbuf \in [1..Size -> Byte] /\ lock \in Thread \cup {"free"}
  /\ job \in [Thread -> Job]
  /\ \A t \in Thread : /\ job[t].taken <= Length[job[t].pkt]
                       /\ job[t].pc = "send" => job[t].sent < Length[job[t].pkt]
  /\ \A n \in nodes : /\ n.pkt \in Packet
                      /\ n.data \in [1..Length[n.pkt] -> Byte]
  /\ todo \subseteq Packet /\ accepted \subseteq Packet /\ got \subseteq Packet
  /\ rx \in Byte /\ garbled \in BOOLEAN /\ faults \subseteq {"short", "ping", "late"}

(* The write lock is enough for everything but the known windows: as long   *)
(* as no write was short, no ping was laid into the buffer or sent while    *)
(* the other thread held the lock, and no node was saved from a buffer that *)
(* had changed, the broker finds whole packets one after the other, those   *)
(* sent again included.                                                     *)
StreamWhole == faults = {} => ~garbled

(* Every node has saved the packet it was recorded for, the PUBCOMP node    *)
(* that is recorded before its packet is sent included; a ping may spoil    *)
(* any of them, the copy without the lock (787) only that of a PUBREC.      *)
SavedIsOwn == \A n \in nodes :
  n.data = Bytes(n.pkt) \/ "ping" \in faults \/ ("late" \in faults /\ n.pkt \in Recs)

(* mqtt_publish() returns success only for a packet the broker has whole,   *)
(* or the stream is garbled: what it counts in sent are bytes of its own    *)
(* packet, in spite of short writes, and a ping laid over them is noticed.  *)
AcceptedIsWhole == garbled \/ accepted \subseteq got

(* Whoever holds the write lock gives it back, however its writes end.      *)
LockReturns == \A t \in Thread : lock = t ~> lock # t
=============================================================================
