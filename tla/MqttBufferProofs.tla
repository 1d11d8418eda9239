-------------------------- MODULE MqttBufferProofs --------------------------
(***************************************************************************)
(* Proofs about the client's two buffers. The write buffer (MqttWire), for *)
(* any packets and lengths: the types, that the write lock is held around  *)
(* every packet but the ping, that the nodes save their own packets, that  *)
(* the stream stays whole outside the three windows the lock does not      *)
(* cover, and that what mqtt_publish() accepts has arrived. The read       *)
(* buffer (MqttRead), for any packets, lengths, base and size: that the    *)
(* reader stays in step with the packets unless a read gives up inside     *)
(* one, and that a broken packet comes last. The search for a handler      *)
(* (MqttTopic), for any filters and topics: that a filter is matched by    *)
(* the topics it stands for.                                               *)
(***************************************************************************)
EXTENDS MqttWire, MqttRead, SequenceTheorems, FiniteSetTheorems,
        WellFoundedInduction, TLAPS

InLock(t) == job[t].pc \in {"send", "ok", "failed"} /\ job[t].pkt # PingReq

\* A thread has the lock exactly while it is at a packet other than the ping.
Locked ==
  /\ \A t \in Thread : lock = t <=> InLock(t)
  /\ job["user"].pc # "late"
  /\ job["user"].pc # "idle" => job["user"].pkt \in UserPackets \cup Qos0
  /\ job["yield"].pc = "late" => job["yield"].pkt \in Recs
  /\ \A n \in nodes : n.pkt # PingReq

LaidOut(p) == \A i \in 1..Length[p] : wbuf[i] = <<p, i>>

\* Unless a ping was in the way, what the user thread has laid out stays there.
Laid ==
  "ping" \notin faults =>
    /\ job["user"].pc # "idle" => ~Pinging /\ LaidOut(job["user"].pkt)

\* Without any fault a thread sends its packet from the buffer, alone, and the
\* broker is as far in it.
Progress(t) ==
  rx = IF job[t].taken \in {0, Length[job[t].pkt]} THEN Start
       ELSE <<job[t].pkt, job[t].taken>>

Clean ==
  faults = {} =>
    /\ ~garbled
    /\ \A t \in Thread : job[t].pc = "send" =>
         job[t].sent = 0 /\ LaidOut(job[t].pkt) /\ Progress(t)
    /\ (\A t \in Thread : job[t].pc # "send") => rx = Start

IInv == TypeOK /\ Locked /\ Laid /\ SavedIsOwn /\ Clean
-----------------------------------------------------------------------------
(* The first bytes of the buffer, as they are copied into a node.           *)
LEMMA Prefix ==
  ASSUME NEW n \in Nat, NEW f \in [1..Size -> Byte], n <= Size, Size \in Nat
  PROVE  /\ SubSeq(f, 1, n) \in [1..n -> Byte]
         /\ \A i \in 1..n : SubSeq(f, 1, n)[i] = f[i]
<1> DEFINE copy == SubSeq(f, 1, n)
<1>1. \A i \in 1..n : f[i] \in Byte OBVIOUS
<1>2. /\ copy \in Seq(Byte) /\ Len(copy) = n
      /\ \A i \in 1..n : copy[i] = f[i]
  BY <1>1, SubSeqProperties
<1>3. copy \in [1..n -> Byte]
  <2> HIDE DEF copy
  <2>1. copy \in [1..Len(copy) -> Byte] BY <1>2, LenProperties
  <2>2. QED BY <1>2, <2>1
<1>4. QED BY <1>2, <1>3

(* The bytes of a packet fit the buffer, and laying them out leaves the     *)
(* rest of it.                                                              *)
LEMMA Filling ==
  ASSUME NEW p \in Packet, TypeOK, NEW bytes \in [1..Length[p] -> Byte], Fill(bytes)
  PROVE  /\ wbuf' \in [1..Size -> Byte]
         /\ \A i \in 1..Length[p] : wbuf'[i] = bytes[i]
<1>1. Length[p] \in 1..Size /\ Size \in Nat BY WireAssumption
<1>2. Len(bytes) = Length[p] BY <1>1
<1>3. QED BY <1>1, <1>2 DEF Fill, TypeOK

(* The bytes of a packet are bytes.                                         *)
LEMMA BytesType == \A p \in Packet : Bytes(p) \in [1..Length[p] -> Byte]
  BY WireAssumption DEF Bytes, Byte

(* Initially nothing is locked, laid out or sent.                           *)
LEMMA InitStep == Init => IInv
<1> SUFFICES ASSUME Init PROVE IInv
  OBVIOUS
<1>1. PingReq \in Packet /\ Size \in Nat /\ Length[PingReq] \in Nat \ {0}
  BY WireAssumption DEF Packet
<1>2. Idle \in Job /\ Junk \in Byte BY <1>1 DEF Idle, Job, Junk, Byte
<1>3. TypeOK
  <2>1. wbuf \in [1..Size -> Byte] BY <1>2 DEF Init
  <2>2. /\ job \in [Thread -> Job] /\ rx \in Byte
        /\ \A t \in Thread : job[t].taken <= Length[job[t].pkt] /\ job[t].pc # "send"
    BY <1>1, <1>2 DEF Init, Idle, Start
  <2>3. QED BY <2>1, <2>2 DEF Init, TypeOK, Packet
<1>4. Locked BY DEF Init, Locked, InLock, Idle, Thread
<1>5. Laid /\ SavedIsOwn /\ Clean
  BY DEF Init, Laid, SavedIsOwn, Clean, Idle, Thread
<1>6. QED BY <1>3, <1>4, <1>5 DEF IInv
-----------------------------------------------------------------------------
(* What the constants say of a packet.                                      *)
LEMMA PacketFacts ==
  /\ Size \in Nat /\ PingReq \in Packet
  /\ \A p \in Packet : Length[p] \in Nat /\ 1 <= Length[p] /\ Length[p] <= Size
  /\ \A p \in UserPackets \cup Qos0 : p \in Packet /\ p # PingReq
  /\ \A p \in Acks \cup Recs \cup Rels : p \in Packet /\ p # PingReq
  BY WireAssumption DEF Packet

(* Without a fault only one thread sends at a time.                         *)
LEMMA OneSender ==
  ASSUME IInv, "ping" \notin faults, job["user"].pc # "idle"
  PROVE  job["yield"].pc # "send"
<1>1. job["user"].pkt # PingReq BY PacketFacts DEF IInv, Locked
<1>2. lock = "user"
  BY <1>1 DEF IInv, TypeOK, Locked, InLock, Job, Thread
<1>3. ~InLock("yield") BY <1>2 DEF IInv, Locked, Thread
<1>4. QED BY <1>3 DEF InLock, IInv, Laid, Pinging

(* The next byte of a write: of the right type, and by Clean the right one. *)
LEMMA SendByteStep ==
  ASSUME IInv, NEW t \in Thread, SendByte(t)
  PROVE  IInv'
<1> DEFINE p == job[t].pkt
           k == job[t].taken
           next == job[t].sent + k + 1
           b == IF next <= Size THEN wbuf[next] ELSE Junk
<1> USE PacketFacts
<1>1. /\ job[t] \in Job /\ p \in Packet /\ k \in Nat /\ next \in Nat /\ next >= 1
      /\ job[t].pc = "send" /\ k < Length[p] /\ Length[p] \in Nat
  BY DEF IInv, TypeOK, SendByte, Job
<1>2. b \in Byte BY <1>1 DEF IInv, TypeOK, Byte, Junk
<1>3. Receive(b) BY DEF SendByte
<1>4. /\ job' = [job EXCEPT ![t].taken = k + 1]
      /\ UNCHANGED <<wbuf, lock, nodes, todo, accepted, faults>>
  BY DEF SendByte
<1>5. /\ job'[t].pc = "send" /\ job'[t].sent = job[t].sent
      /\ job'[t].taken = k + 1 /\ job'[t].pkt = p
      /\ \A u \in Thread : u # t => job'[u] = job[u]
      /\ job' \in [Thread -> Job]
  <2> HIDE DEF k, next, b
  <2>1. job \in [Thread -> Job] BY DEF IInv, TypeOK
  <2>2. job'[t] = [job[t] EXCEPT !.taken = k + 1] /\ DOMAIN job' = Thread
    BY <1>4, <2>1
  <2>3. \A u \in Thread : u # t => job'[u] = job[u] BY <1>4, <2>1
  <2>4. /\ job'[t] \in Job /\ job'[t].pc = "send" /\ job'[t].sent = job[t].sent
        /\ job'[t].taken = k + 1 /\ job'[t].pkt = p
    BY <1>1, <2>2 DEF Job
  <2>5. job' \in [Thread -> Job] BY <1>4, <2>1, <2>3, <2>4
  <2>6. QED BY <2>3, <2>4, <2>5
<1>6. TypeOK'
  <2>1. rx' \in Byte /\ got' \subseteq Packet /\ garbled' \in BOOLEAN
    BY <1>2, <1>3 DEF Receive, IInv, TypeOK, Byte, Start, Junk, Fits
  <2>2. \A u \in Thread : /\ job'[u].taken <= Length[job'[u].pkt]
                          /\ job'[u].pc = "send" => job'[u].sent < Length[job'[u].pkt]
    <3>1. /\ job'[t].taken <= Length[job'[t].pkt]
          /\ job'[t].pc = "send" => job'[t].sent < Length[job'[t].pkt]
      BY <1>1, <1>5, SMTT(20) DEF IInv, TypeOK
    <3>2. QED BY <1>5, <3>1, SMTT(20) DEF IInv, TypeOK
  <2>3. QED BY <1>4, <1>5, <2>1, <2>2, SMTT(20) DEF IInv, TypeOK
<1>7. Locked' BY <1>1, <1>4, <1>5 DEF IInv, Locked, InLock, Job, Thread
<1>8. Laid' BY <1>1, <1>4, <1>5 DEF IInv, Laid, LaidOut, Pinging, Job, Thread
<1>9. SavedIsOwn' BY <1>4 DEF IInv, SavedIsOwn, Bytes
<1>10. Clean'
  <2> SUFFICES ASSUME faults = {} PROVE Clean'
    BY <1>4 DEF Clean
  <2>1. \A u \in Thread : u # t => job[u].pc # "send"
    BY <1>1, OneSender DEF IInv, Locked, Thread
  <2>2. job[t].sent = 0 /\ LaidOut(p) /\ Progress(t) /\ ~garbled
    BY <1>1 DEF IInv, Clean
  <2>3. b = <<p, k + 1>> BY <1>1, <2>2 DEF LaidOut
  <2>4. Fits(b)
    <3>1. CASE k = 0 BY <2>2, <2>3, <3>1 DEF Progress, Fits
    <3>2. CASE k # 0
      <4>1. rx = <<p, k>> BY <1>1, <2>2, <3>2 DEF Progress
      <4>2. rx # Start BY <1>1, <4>1, <3>2 DEF Start, Junk
      <4>3. QED BY <2>3, <4>1, <4>2 DEF Fits
    <3>3. QED BY <3>1, <3>2
  <2>5. ~garbled' /\ rx' = IF k + 1 = Length[p] THEN Start ELSE <<p, k + 1>>
    <3>1. ~garbled' BY <1>3, <2>2, <2>4, Zenon DEF Receive
    <3>2. Completes(b) <=> k + 1 = Length[p] BY <2>3 DEF Completes
    <3>3. QED BY <1>3, <2>3, <3>1, <3>2 DEF Receive
  <2>6. job'[t].sent = 0 /\ job'[t].pkt = p /\ job'[t].taken = k + 1
    BY <1>5, <2>2
  <2>7. LaidOut(p)' BY <1>4, <2>2 DEF LaidOut
  <2>8. Progress(t)' BY <1>1, <2>5, <2>6 DEF Progress, Start, Junk
  <2>9. job'[t].pc = "send" BY <1>5
  <2>10. \A u \in Thread : u # t => job'[u].pc # "send" BY <2>1, <1>5
  <2>11. QED BY <2>5, <2>6, <2>7, <2>8, <2>9, <2>10 DEF Clean, LaidOut
<1>11. QED BY <1>6, <1>7, <1>8, <1>9, <1>10 DEF IInv

(* The end of a write: only a whole one leaves the broker between packets.  *)
LEMMA WriteReturnsStep ==
  ASSUME IInv, NEW t \in Thread, WriteReturns(t)
  PROVE  IInv'
<1> DEFINE p == job[t].pkt
           sum == job[t].sent + job[t].taken
           result == CASE sum < Length[p] -> "send"
                   [] sum = Length[p] -> "ok"
                   [] sum > Length[p] -> "failed"
<1> USE PacketFacts
<1>1. /\ job[t] \in Job /\ p \in Packet /\ sum \in Nat /\ Length[p] \in Nat
      /\ job[t].pc = "send" /\ job[t].taken > 0 /\ job[t].taken <= Length[p]
      /\ job[t].sent \in Nat /\ job[t].taken \in Nat
  BY DEF IInv, TypeOK, WriteReturns, Job
<1>2. /\ job' = [job EXCEPT ![t].sent = sum, ![t].taken = 0, ![t].pc = result]
      /\ faults' = faults \cup {f \in {"short"} : job[t].taken < Length[p]}
      /\ UNCHANGED <<wbuf, lock, nodes, todo, accepted, rx, got, garbled>>
  BY DEF WriteReturns, stream
<1>3. result \in {"send", "ok", "failed"} /\ (result = "send" => sum < Length[p])
  BY <1>1
<1>4. /\ job'[t].pc = result /\ job'[t].sent = sum /\ job'[t].taken = 0 /\ job'[t].pkt = p
      /\ \A u \in Thread : u # t => job'[u] = job[u]
      /\ job' \in [Thread -> Job]
  <2> HIDE DEF result, sum
  <2>1. QED BY <1>1, <1>2, <1>3, SMTT(20) DEF IInv, TypeOK, Job
<1> HIDE DEF result
<1>5. TypeOK'
  <2>1. \A u \in Thread : /\ job'[u].taken <= Length[job'[u].pkt]
                          /\ job'[u].pc = "send" => job'[u].sent < Length[job'[u].pkt]
    BY <1>1, <1>3, <1>4 DEF IInv, TypeOK
  <2>2. QED BY <1>2, <1>4, <2>1 DEF IInv, TypeOK
<1>6. Locked' BY <1>1, <1>2, <1>3, <1>4 DEF IInv, Locked, InLock, Thread
<1>7. Laid'
  BY <1>1, <1>2, <1>3, <1>4 DEF IInv, Laid, LaidOut, Pinging, Thread
<1>8. SavedIsOwn' BY <1>2 DEF IInv, SavedIsOwn, Bytes
<1>9. Clean'
  <2> SUFFICES ASSUME faults' = {} PROVE Clean'
    BY DEF Clean
  <2>1. faults = {} /\ job[t].taken = Length[p] BY <1>1, <1>2
  <2>2. \A u \in Thread : u # t => job[u].pc # "send"
    BY <1>1, <2>1, OneSender DEF IInv, Locked, Thread
  <2>3. job[t].sent = 0 /\ rx = Start /\ ~garbled
    BY <1>1, <2>1 DEF IInv, Clean, Progress
  <2>4. result = "ok" BY <1>1, <2>1, <2>3 DEF result
  <2>5. QED BY <1>2, <1>4, <2>2, <2>3, <2>4 DEF Clean
<1>10. QED BY <1>5, <1>6, <1>7, <1>8, <1>9 DEF IInv

(* A write that fails has sent nothing.                                     *)
LEMMA SendFailsStep ==
  ASSUME IInv, NEW t \in Thread, SendFails(t)
  PROVE  IInv'
<1> USE PacketFacts
<1>1. /\ job[t] \in Job /\ job[t].pc = "send" /\ job[t].taken = 0
      /\ job' = [job EXCEPT ![t].pc = "failed"]
      /\ UNCHANGED <<wbuf, lock, nodes, todo, accepted, rx, got, garbled, faults>>
  BY DEF IInv, TypeOK, SendFails, stream
<1>2. /\ job'[t] = [job[t] EXCEPT !.pc = "failed"]
      /\ \A u \in Thread : u # t => job'[u] = job[u]
      /\ job' \in [Thread -> Job]
  BY <1>1 DEF IInv, TypeOK, Job
<1>3. TypeOK' BY <1>1, <1>2 DEF IInv, TypeOK, Job
<1>4. Locked' BY <1>1, <1>2 DEF IInv, Locked, InLock, Job, Thread
<1>5. Laid' BY <1>1, <1>2 DEF IInv, Laid, LaidOut, Pinging, Job, Thread
<1>6. SavedIsOwn' BY <1>1 DEF IInv, SavedIsOwn, Bytes
<1>7. Clean'
  <2> SUFFICES ASSUME faults = {} PROVE Clean'
    BY <1>1 DEF Clean
  <2>1. \A u \in Thread : u # t => job[u].pc # "send"
    BY <1>1, OneSender DEF IInv, Locked, Thread
  <2>2. rx = Start /\ ~garbled BY <1>1 DEF IInv, Clean, Progress
  <2>3. job'[t].pc = "failed" BY <1>1, <1>2 DEF Job
  <2>4. QED BY <1>1, <1>2, <2>1, <2>2, <2>3 DEF Clean
<1>8. QED BY <1>3, <1>4, <1>5, <1>6, <1>7 DEF IInv
-----------------------------------------------------------------------------
(* A thread that begins to send a packet, or comes to its end.              *)
LEMMA JobStarts ==
  ASSUME TypeOK, NEW t \in Thread, NEW p \in Packet, job' = [job EXCEPT ![t] = Sending(p)]
  PROVE  /\ job'[t].pc = "send" /\ job'[t].pkt = p /\ job'[t].sent = 0 /\ job'[t].taken = 0
         /\ \A u \in Thread : u # t => job'[u] = job[u]
         /\ job' \in [Thread -> Job]
         /\ \A u \in Thread : /\ job'[u].taken <= Length[job'[u].pkt]
                              /\ job'[u].pc = "send" => job'[u].sent < Length[job'[u].pkt]
<1> USE PacketFacts
<1>1. Sending(p) \in Job BY DEF Sending, Job
<1>2. /\ job'[t] = Sending(p) /\ job' \in [Thread -> Job]
      /\ \A u \in Thread : u # t => job'[u] = job[u]
  BY <1>1 DEF TypeOK
<1>3. job'[t].pc = "send" /\ job'[t].pkt = p /\ job'[t].sent = 0 /\ job'[t].taken = 0
  BY <1>2 DEF Sending
<1>4. job'[t].taken <= Length[job'[t].pkt] /\ job'[t].sent < Length[job'[t].pkt]
  BY <1>3
<1>5. QED BY <1>2, <1>3, <1>4 DEF TypeOK

\* A thread whose packet was sent, or given up, is idle again.
LEMMA JobEnds ==
  ASSUME TypeOK, NEW t \in Thread, job' = [job EXCEPT ![t] = Idle]
  PROVE  /\ job'[t] = Idle /\ Idle.pc = "idle"
         /\ \A u \in Thread : u # t => job'[u] = job[u]
         /\ job' \in [Thread -> Job]
         /\ \A u \in Thread : /\ job'[u].taken <= Length[job'[u].pkt]
                              /\ job'[u].pc = "send" => job'[u].sent < Length[job'[u].pkt]
<1>1. Idle \in Job /\ Idle.pc = "idle" /\ Idle.taken = 0 /\ Idle.pkt = PingReq
  BY PacketFacts DEF Idle, Job
<1>2. /\ job'[t] = Idle /\ job' \in [Thread -> Job]
      /\ \A u \in Thread : u # t => job'[u] = job[u]
  BY <1>1 DEF TypeOK
<1>3. job'[t].taken <= Length[job'[t].pkt] /\ job'[t].pc # "send"
  BY <1>1, <1>2, PacketFacts
<1>4. QED BY <1>1, <1>2, <1>3 DEF TypeOK

(* What is copied from a buffer that holds a packet is that packet.         *)
LEMMA Copied ==
  ASSUME NEW p \in Packet, NEW f \in [1..Size -> Byte]
  PROVE  /\ SubSeq(f, 1, Length[p]) \in [1..Length[p] -> Byte]
         /\ (\A i \in 1..Length[p] : f[i] = <<p, i>>) => SubSeq(f, 1, Length[p]) = Bytes(p)
<1>1. /\ SubSeq(f, 1, Length[p]) \in [1..Length[p] -> Byte]
      /\ \A i \in 1..Length[p] : SubSeq(f, 1, Length[p])[i] = f[i]
  BY PacketFacts, Prefix
<1>2. QED BY <1>1 DEF Bytes

(* When the lock is free the user thread is idle.                           *)
LEMMA FreeIsIdle ==
  ASSUME IInv, lock # "user"
  PROVE  job["user"].pc = "idle"
  BY PacketFacts DEF IInv, Locked, InLock, TypeOK, Job, Thread

(* mqtt_publish() lays its packet out under the lock, which the ping does   *)
(* not ask for.                                                             *)
LEMMA PublishStep ==
  ASSUME IInv, NEW p \in UserPackets \cup Qos0, Publish(p)
  PROVE  IInv'
<1> USE PacketFacts DEF Thread
<1>1. /\ job["user"].pc = "idle" /\ lock = "free" /\ lock' = "user" /\ todo' \subseteq todo
      /\ Fill(Bytes(p)) /\ job' = [job EXCEPT !["user"] = Sending(p)]
      /\ faults' = faults \cup {f \in {"ping"} : Pinging}
      /\ UNCHANGED <<nodes, accepted, rx, got, garbled>>
  BY DEF Publish, stream
<1>2. TypeOK /\ p \in Packet /\ p # PingReq BY DEF IInv
<1>3. wbuf' \in [1..Size -> Byte] /\ LaidOut(p)'
  BY <1>1, <1>2, BytesType, Filling DEF LaidOut, Bytes
<1>4. /\ job'["user"].pc = "send" /\ job'["user"].pkt = p
      /\ job'["user"].sent = 0 /\ job'["user"].taken = 0
      /\ job'["yield"] = job["yield"] /\ job' \in [Thread -> Job]
  BY <1>1, <1>2, JobStarts
<1>5. TypeOK'
  <2>1. \A u \in Thread : /\ job'[u].taken <= Length[job'[u].pkt]
                          /\ job'[u].pc = "send" => job'[u].sent < Length[job'[u].pkt]
    BY <1>1, <1>2, JobStarts
  <2>2. QED BY <1>1, <1>2, <1>3, <1>4, <2>1 DEF TypeOK
<1>6. Locked' BY <1>1, <1>2, <1>4 DEF IInv, Locked, InLock
<1>7. Laid' BY <1>1, <1>3, <1>4 DEF Laid, LaidOut, Pinging
<1>8. SavedIsOwn' BY <1>1 DEF IInv, SavedIsOwn, Bytes
<1>9. Clean'
  <2> SUFFICES ASSUME faults' = {} PROVE Clean'
    BY DEF Clean
  <2>1. faults = {} /\ ~Pinging BY <1>1
  <2>2. job["yield"].pc # "send"
    BY <1>1, <2>1 DEF IInv, Locked, InLock, Pinging
  <2>3. rx = Start /\ ~garbled BY <1>1, <2>1, <2>2 DEF IInv, Clean
  <2>4. Progress("user")' BY <1>1, <1>4, <2>3 DEF Progress
  <2>5. QED BY <1>1, <1>3, <1>4, <2>2, <2>3, <2>4 DEF Clean, LaidOut
<1>10. QED BY <1>5, <1>6, <1>7, <1>8, <1>9 DEF IInv

(* mqtt_publish() saves its packet while it still has the lock, if at all.  *)
LEMMA PublishDoneStep ==
  ASSUME IInv, PublishDone \/ PublishNoMemory
  PROVE  IInv'
<1> DEFINE p == job["user"].pkt
<1> USE PacketFacts DEF Thread
<1>1. /\ job["user"].pc \in {"ok", "failed"} /\ lock' = "free"
      /\ job' = [job EXCEPT !["user"] = Idle]
      /\ accepted' \subseteq accepted \cup {p}
      /\ nodes' \subseteq nodes \cup {[pkt |-> p, data |-> Saved(p)]}
      /\ UNCHANGED <<wbuf, todo, rx, got, garbled, faults>>
  BY DEF PublishDone, PublishNoMemory, stream, Record
<1>2. TypeOK /\ p \in Packet /\ p # PingReq /\ lock = "user"
  BY <1>1 DEF IInv, Locked, InLock
<1>3. /\ job'["user"].pc = "idle" /\ job'["yield"] = job["yield"]
      /\ job' \in [Thread -> Job]
  BY <1>1, <1>2, JobEnds
<1>4. /\ Saved(p) \in [1..Length[p] -> Byte]
      /\ LaidOut(p) => Saved(p) = Bytes(p)
  BY <1>2, Copied DEF Saved, LaidOut, TypeOK
<1>5. TypeOK'
  <2>1. \A u \in Thread : /\ job'[u].taken <= Length[job'[u].pkt]
                          /\ job'[u].pc = "send" => job'[u].sent < Length[job'[u].pkt]
    BY <1>1, <1>2, JobEnds
  <2>2. \A n \in nodes' : n.pkt \in Packet /\ n.data \in [1..Length[n.pkt] -> Byte]
    BY <1>1, <1>2, <1>4 DEF TypeOK
  <2>3. QED BY <1>1, <1>2, <1>3, <2>1, <2>2 DEF TypeOK
<1>6. Locked' BY <1>1, <1>2, <1>3 DEF IInv, Locked, InLock
<1>7. Laid' BY <1>3 DEF Laid
<1>8. SavedIsOwn'
  <2>1. "ping" \in faults \/ Saved(p) = Bytes(p) BY <1>1, <1>4 DEF IInv, Laid
  <2>2. ASSUME NEW n \in nodes'
        PROVE  n.data = Bytes(n.pkt) \/ "ping" \in faults \/ ("late" \in faults /\ n.pkt \in Recs)
    <3>1. CASE n \in nodes BY <3>1 DEF IInv, SavedIsOwn
    <3>2. CASE n = [pkt |-> p, data |-> Saved(p)] BY <2>1, <3>2
    <3>3. QED BY <1>1, <3>1, <3>2
  <2>3. QED BY <1>1, <2>2 DEF SavedIsOwn, Bytes
<1>9. Clean'
  BY <1>1, <1>3 DEF IInv, Clean, Progress, LaidOut
<1>10. QED BY <1>5, <1>6, <1>7, <1>8, <1>9 DEF IInv
-----------------------------------------------------------------------------
(* The yield thread begins a packet p, from these bytes, under the lock.    *)
LEMMA LockedStart ==
  ASSUME IInv, NEW p \in Packet, p # PingReq, NEW bytes \in [1..Length[p] -> Byte],
         job["yield"].pc = "idle", lock = "free", lock' = "yield", Fill(bytes),
         job' = [job EXCEPT !["yield"] = Sending(p)],
         faults = {} => bytes = Bytes(p),
         \A n \in nodes' : \/ n \in nodes
                           \/ n.pkt = p /\ n.data = Bytes(p),
         UNCHANGED <<todo, accepted, stream, faults>>
  PROVE  IInv'
<1> USE PacketFacts DEF Thread
<1>1. TypeOK /\ UNCHANGED <<rx, got, garbled>> BY DEF IInv, stream
<1>2. wbuf' \in [1..Size -> Byte] /\ (faults = {} => LaidOut(p)')
  BY <1>1, Filling DEF LaidOut, Bytes
<1>3. /\ job'["yield"].pc = "send" /\ job'["yield"].pkt = p
      /\ job'["yield"].sent = 0 /\ job'["yield"].taken = 0
      /\ job'["user"] = job["user"] /\ job' \in [Thread -> Job]
  BY <1>1, JobStarts
<1>4. job["user"].pc = "idle" BY FreeIsIdle
<1>5. TypeOK'
  <2>1. \A u \in Thread : /\ job'[u].taken <= Length[job'[u].pkt]
                          /\ job'[u].pc = "send" => job'[u].sent < Length[job'[u].pkt]
    BY <1>1, JobStarts
  <2>2. \A n \in nodes' : n.pkt \in Packet /\ n.data \in [1..Length[n.pkt] -> Byte]
    BY <1>1, BytesType DEF TypeOK
  <2>3. QED BY <1>1, <1>2, <1>3, <2>1, <2>2 DEF TypeOK
<1>6. Locked' BY <1>3, <1>4 DEF IInv, Locked, InLock
<1>7. Laid' BY <1>3, <1>4 DEF Laid
<1>8. SavedIsOwn'
  <2>1. ASSUME NEW n \in nodes'
        PROVE  n.data = Bytes(n.pkt) \/ "ping" \in faults \/ ("late" \in faults /\ n.pkt \in Recs)
    BY DEF IInv, SavedIsOwn
  <2>2. QED BY <2>1 DEF SavedIsOwn, Bytes
<1>9. Clean'
  <2>1. faults = {} => rx = Start /\ ~garbled BY <1>4 DEF IInv, Clean
  <2>2. faults = {} => Progress("yield")' BY <1>1, <1>3, <2>1 DEF Progress
  <2>3. QED BY <1>1, <1>2, <1>3, <1>4, <2>1, <2>2 DEF Clean, LaidOut
<1>10. QED BY <1>5, <1>6, <1>7, <1>8, <1>9 DEF IInv

(* An answer, and a packet that is sent again: what its node has saved.     *)
LEMMA AnswerStep ==
  ASSUME IInv, NEW p \in Acks \cup Recs, Answer(p)
  PROVE  IInv'
<1>1. p \in Packet /\ p # PingReq /\ Bytes(p) \in [1..Length[p] -> Byte]
  BY PacketFacts, BytesType
<1>2. QED BY <1>1, LockedStart DEF Answer

\* A packet that is sent again is laid out from its node, under the lock.
LEMMA ResendStep ==
  ASSUME IInv, NEW n \in nodes, Resend(n)
  PROVE  IInv'
<1>1. n.pkt \in Packet /\ n.pkt # PingReq /\ n.data \in [1..Length[n.pkt] -> Byte]
  BY DEF IInv, TypeOK, Locked
<1>2. faults = {} => n.data = Bytes(n.pkt) BY DEF IInv, SavedIsOwn
<1>3. QED BY <1>1, <1>2, LockedStart DEF Resend

(* PUBREL is saved from the buffer it has just been laid out in, if at all. *)
LEMMA ReleaseStep ==
  ASSUME IInv, NEW p \in Rels, Release(p) \/ ReleaseNoMemory(p)
  PROVE  IInv'
<1> USE PacketFacts DEF Thread
<1>1. p \in Packet /\ p # PingReq /\ Bytes(p) \in [1..Length[p] -> Byte] /\ TypeOK
  BY BytesType DEF IInv
<1>2. /\ job["yield"].pc = "idle" /\ lock = "free" /\ Fill(Bytes(p))
      /\ UNCHANGED <<todo, accepted, stream, faults>>
  BY DEF Release, ReleaseNoMemory
<1>3. wbuf' \in [1..Size -> Byte] /\ \A i \in 1..Length[p] : wbuf'[i] = <<p, i>>
  BY <1>1, <1>2, Filling DEF Bytes
<1>4. SubSeq(wbuf', 1, Length[p]) = Bytes(p) BY <1>1, <1>3, Copied
<1>5. CASE Release(p) /\ ~IsRecorded(p)
  <2>1. /\ lock' = "yield" /\ job' = [job EXCEPT !["yield"] = Sending(p)]
        /\ nodes' = nodes \cup {[pkt |-> p, data |-> Bytes(p)]}
    BY <1>4, <1>5 DEF Release, Record
  <2>2. \A n \in nodes' : \/ n \in nodes
                          \/ n.pkt = p /\ n.data = Bytes(p)
    BY <2>1
  <2>3. QED BY <1>1, <1>2, <2>1, <2>2, LockedStart
<1>6. CASE ReleaseNoMemory(p) \/ IsRecorded(p)
  <2>1. UNCHANGED <<lock, job, nodes, rx, got, garbled>>
    BY <1>2, <1>6 DEF Release, ReleaseNoMemory, Record, stream
  <2>2. job["user"].pc = "idle" BY <1>2, FreeIsIdle
  <2>3. TypeOK' BY <1>1, <1>2, <1>3, <2>1 DEF TypeOK
  <2>4. Locked' BY <2>1 DEF IInv, Locked, InLock
  <2>5. Laid' BY <2>1, <2>2 DEF Laid
  <2>6. SavedIsOwn' BY <1>2, <2>1 DEF IInv, SavedIsOwn, Bytes
  <2>7. Clean' BY <1>2, <2>1, <2>2 DEF IInv, Clean
  <2>8. QED BY <2>3, <2>4, <2>5, <2>6, <2>7 DEF IInv
<1>7. QED BY <1>5, <1>6

(* The ping is laid out without the lock: a fault when the user thread has  *)
(* it.                                                                      *)
LEMMA PingStep ==
  ASSUME IInv, Ping
  PROVE  IInv'
<1> USE PacketFacts DEF Thread
<1>1. /\ job["yield"].pc = "idle" /\ Fill(Bytes(PingReq))
      /\ job' = [job EXCEPT !["yield"] = Sending(PingReq)]
      /\ faults' = faults \cup {f \in {"ping"} : lock = "user"}
      /\ UNCHANGED <<lock, nodes, todo, accepted, rx, got, garbled>>
  BY DEF Ping, stream
<1>2. TypeOK /\ Bytes(PingReq) \in [1..Length[PingReq] -> Byte] BY BytesType DEF IInv
<1>3. wbuf' \in [1..Size -> Byte] /\ LaidOut(PingReq)'
  BY <1>1, <1>2, Filling DEF LaidOut, Bytes
<1>4. /\ job'["yield"].pc = "send" /\ job'["yield"].pkt = PingReq
      /\ job'["yield"].sent = 0 /\ job'["yield"].taken = 0
      /\ job'["user"] = job["user"] /\ job' \in [Thread -> Job]
  BY <1>1, <1>2, JobStarts
<1>5. "ping" \notin faults' => job["user"].pc = "idle" BY <1>1, FreeIsIdle
<1>6. TypeOK'
  <2>1. \A u \in Thread : /\ job'[u].taken <= Length[job'[u].pkt]
                          /\ job'[u].pc = "send" => job'[u].sent < Length[job'[u].pkt]
    BY <1>1, <1>2, JobStarts
  <2>2. QED BY <1>1, <1>2, <1>3, <1>4, <2>1 DEF TypeOK
<1>7. Locked' BY <1>1, <1>4 DEF IInv, Locked, InLock
<1>8. Laid' BY <1>4, <1>5 DEF Laid
<1>9. SavedIsOwn' BY <1>1 DEF IInv, SavedIsOwn, Bytes
<1>10. Clean'
  <2> SUFFICES ASSUME faults' = {} PROVE Clean'
    BY DEF Clean
  <2>1. faults = {} /\ job["user"].pc = "idle" BY <1>1, <1>5
  <2>2. rx = Start /\ ~garbled BY <1>1, <2>1 DEF IInv, Clean
  <2>3. Progress("yield")' BY <1>1, <1>4, <2>2 DEF Progress
  <2>4. QED BY <1>1, <1>3, <1>4, <2>1, <2>2, <2>3 DEF Clean, LaidOut
<1>11. QED BY <1>6, <1>7, <1>8, <1>9, <1>10 DEF IInv

(* The yield thread gives the lock back, and may have a PUBREC to record.   *)
LEMMA YieldDoneStep ==
  ASSUME IInv, YieldDone
  PROVE  IInv'
<1> DEFINE p == job["yield"].pkt
           late == job["yield"].pc = "ok" /\ p \in Recs
<1> USE PacketFacts DEF Thread
<1>1. /\ job["yield"].pc \in {"ok", "failed"}
      /\ lock' = IF p = PingReq THEN lock ELSE "free"
      /\ job' = [job EXCEPT !["yield"] =
                   IF late THEN [job["yield"] EXCEPT !.pc = "late"] ELSE Idle]
      /\ UNCHANGED <<wbuf, nodes, todo, accepted, rx, got, garbled, faults>>
  BY DEF YieldDone, stream
<1>2. /\ TypeOK /\ job["yield"] \in Job /\ p \in Packet
      /\ job["yield"].taken <= Length[p]
  BY DEF IInv, TypeOK, Job
<1>3. /\ job'["user"] = job["user"] /\ job' \in [Thread -> Job]
      /\ job'["yield"].pc \in {"idle", "late"}
      /\ job'["yield"].pc = "late" => late
      /\ job'["yield"].taken <= Length[job'["yield"].pkt]
  <2>1. CASE late
    <3>1. job'["yield"] = [job["yield"] EXCEPT !.pc = "late"] /\ job'["user"] = job["user"]
      BY <1>1, <1>2, <2>1 DEF TypeOK
    <3>2. /\ job'["yield"] \in Job /\ job'["yield"].pc = "late"
          /\ job'["yield"].taken = job["yield"].taken /\ job'["yield"].pkt = p
      BY <1>2, <3>1 DEF Job
    <3>3. job' \in [Thread -> Job] BY <1>1, <1>2, <3>1, <3>2 DEF TypeOK
    <3>4. QED BY <1>2, <2>1, <3>1, <3>2, <3>3
  <2>2. CASE ~late
    <3>1. job' = [job EXCEPT !["yield"] = Idle] BY <1>1, <2>2
    <3>2. QED BY <1>2, <2>2, <3>1, JobEnds
  <2>3. QED BY <2>1, <2>2
<1> HIDE DEF late
<1>4. TypeOK' BY <1>1, <1>2, <1>3 DEF TypeOK
<1>5. Locked'
  <2>1. late => p \in Recs BY DEF late
  <2>2. job'["yield"].pc = "late" => job'["yield"].pkt \in Recs
    <3>1. CASE late
      <4>1. job'["yield"] = [job["yield"] EXCEPT !.pc = "late"]
        BY <1>1, <1>2, <3>1 DEF TypeOK
      <4>2. job'["yield"].pkt = p BY <1>2, <4>1 DEF Job
      <4>3. QED BY <2>1, <3>1, <4>2
    <3>2. QED BY <1>3, <3>1
  <2>3. p # PingReq => job["user"].pc = "idle"
    BY <1>1, FreeIsIdle DEF IInv, Locked, InLock
  <2>4. QED BY <1>1, <1>3, <2>2, <2>3 DEF IInv, Locked, InLock
<1>6. Laid' BY <1>1, <1>3 DEF IInv, Laid, Pinging, LaidOut
<1>7. SavedIsOwn' BY <1>1 DEF IInv, SavedIsOwn, Bytes
<1>8. Clean' BY <1>1, <1>3 DEF IInv, Clean, Progress, LaidOut
<1>9. QED BY <1>4, <1>5, <1>6, <1>7, <1>8 DEF IInv

(* What the late copy finds in the buffer, it saves: when that is not its   *)
(* packet, it is a fault.                                                   *)
LEMMA RecordLateStep ==
  ASSUME IInv, RecordLate \/ RecordLateNoMemory
  PROVE  IInv'
<1> DEFINE p == job["yield"].pkt
           node == [pkt |-> p, data |-> Saved(p)]
<1> USE PacketFacts DEF Thread
<1>1. /\ job["yield"].pc = "late" /\ job' = [job EXCEPT !["yield"] = Idle]
      /\ \/ nodes' = nodes /\ faults \subseteq faults' /\ faults' \subseteq faults \cup {"late"}
         \/ /\ ~IsRecorded(p) /\ nodes' = nodes \cup {node}
            /\ faults' = faults \cup {f \in {"late"} : Saved(p) # Bytes(p)}
      /\ UNCHANGED <<wbuf, lock, todo, accepted, rx, got, garbled>>
  BY DEF RecordLate, RecordLateNoMemory, Record, stream
<1>2. TypeOK /\ p \in Recs /\ p \in Packet /\ p # PingReq
  BY <1>1 DEF IInv, Locked
<1>3. /\ job'["yield"].pc = "idle" /\ job'["user"] = job["user"]
      /\ job' \in [Thread -> Job]
  BY <1>1, <1>2, JobEnds
<1>4. Saved(p) \in [1..Length[p] -> Byte] BY <1>2, Copied DEF Saved, TypeOK
<1>5. TypeOK'
  <2>1. \A u \in Thread : /\ job'[u].taken <= Length[job'[u].pkt]
                          /\ job'[u].pc = "send" => job'[u].sent < Length[job'[u].pkt]
    BY <1>1, <1>2, JobEnds
  <2>2. \A n \in nodes' : n.pkt \in Packet /\ n.data \in [1..Length[n.pkt] -> Byte]
    BY <1>1, <1>2, <1>4 DEF TypeOK
  <2>3. QED BY <1>1, <1>2, <1>3, <2>1, <2>2 DEF TypeOK
<1>6. Locked' BY <1>1, <1>2, <1>3 DEF IInv, Locked, InLock
<1>7. Laid' BY <1>1, <1>3 DEF IInv, Laid, Pinging, LaidOut
<1>8. SavedIsOwn'
  <2>1. ASSUME NEW n \in nodes'
        PROVE  n.data = Bytes(n.pkt) \/ "ping" \in faults' \/ ("late" \in faults' /\ n.pkt \in Recs)
    <3>1. CASE n \in nodes BY <1>1, <3>1 DEF IInv, SavedIsOwn
    <3>2. CASE n \notin nodes
      <4>1. n = node /\ faults' = faults \cup {f \in {"late"} : Saved(p) # Bytes(p)}
        BY <1>1, <3>2
      <4>2. n.pkt = p /\ n.data = Saved(p) BY <4>1
      <4>3. Saved(p) = Bytes(p) \/ "late" \in faults' BY <4>1
      <4>4. QED BY <1>2, <4>2, <4>3
    <3>3. QED BY <3>1, <3>2
  <2>2. QED BY <2>1 DEF SavedIsOwn, Bytes
<1>9. Clean' BY <1>1, <1>3 DEF IInv, Clean, Progress, LaidOut
<1>10. QED BY <1>5, <1>6, <1>7, <1>8, <1>9 DEF IInv

\* Taking a node off the list leaves the buffer and the stream alone.
LEMMA UnrecordStep ==
  ASSUME IInv, NEW n \in nodes, Unrecord(n)
  PROVE  IInv'
<1>1. /\ nodes' \subseteq nodes
      /\ UNCHANGED <<wbuf, lock, job, todo, accepted, rx, got, garbled, faults>>
  BY DEF Unrecord, stream
<1>2. TypeOK' BY <1>1 DEF IInv, TypeOK
<1>3. Locked' BY <1>1 DEF IInv, Locked, InLock
<1>4. Laid' BY <1>1 DEF IInv, Laid, Pinging, LaidOut
<1>5. SavedIsOwn' BY <1>1 DEF IInv, SavedIsOwn, Bytes
<1>6. Clean' BY <1>1 DEF IInv, Clean, Progress, LaidOut
<1>7. QED BY <1>2, <1>3, <1>4, <1>5, <1>6 DEF IInv
-----------------------------------------------------------------------------
\* A ping is shorter than what it is laid over: the last byte of the user's
\* packet stays in its place, and a broker that follows the stream and has got
\* to it has the packet.
LastByte ==
  /\ garbled \/ accepted \subseteq got
  /\ LET u == job["user"]  last == Length[u.pkt]
     IN  /\ u.pc # "idle" => wbuf[last] = <<u.pkt, last>>
         /\ u.pc = "ok" => u.sent = last
         /\ u.pc \in {"send", "ok"} /\ u.sent + u.taken >= last => garbled \/ u.pkt \in got

(* A step in which the user thread takes no part. *)
LEMMA OthersLastByte ==
  ASSUME TypeOK, LastByte, job'["user"] = job["user"], accepted' = accepted,
         got \subseteq got', garbled => garbled',
         job["user"].pc # "idle" =>
           wbuf'[Length[job["user"].pkt]] = wbuf[Length[job["user"].pkt]]
  PROVE  LastByte'
<1>1. garbled' \/ accepted' \subseteq got' BY DEF LastByte
<1>2. job["user"].pc # "idle" =>
        wbuf'[Length[job["user"].pkt]] = <<job["user"].pkt, Length[job["user"].pkt]>>
  BY DEF LastByte
<1>3. job["user"].pc = "ok" => job["user"].sent = Length[job["user"].pkt] BY DEF LastByte
<1>4. job["user"].pc \in {"send", "ok"}
        /\ job["user"].sent + job["user"].taken >= Length[job["user"].pkt]
        => garbled' \/ job["user"].pkt \in got'
  BY DEF LastByte
<1>5. QED BY <1>1, <1>2, <1>3, <1>4 DEF LastByte

\* The user's job, typed.
LEMMA UserJob ==
  ASSUME IInv
  PROVE  LET u == job["user"]
         IN  /\ u \in Job /\ u.pkt \in Packet /\ u.sent \in Nat /\ u.taken \in Nat
             /\ Length[u.pkt] \in Nat /\ 1 <= Length[u.pkt] /\ Length[u.pkt] <= Size
             /\ u.pc # "idle" => u.pkt \in UserPackets \cup Qos0
BY PacketFacts DEF IInv, TypeOK, Locked, Job, Thread

\* The last byte of a packet in the buffer is the one that is sent last.
LEMMA LastByteSends ==
  ASSUME IInv, LastByte, NEW t \in Thread, SendByte(t)
  PROVE  LastByte'
<1>1. got \subseteq got' /\ (garbled => garbled') /\ UNCHANGED <<wbuf, accepted>>
  BY DEF SendByte, Receive
<1>2. CASE t # "user"
  <2>1. job'["user"] = job["user"] BY <1>2 DEF SendByte, IInv, TypeOK, Thread
  <2>2. QED BY <1>1, <2>1, OthersLastByte DEF IInv
<1>3. CASE t = "user"
  <2> DEFINE u == job["user"]
             p == u.pkt
             next == u.sent + u.taken + 1
  <2>1. /\ u \in Job /\ p \in Packet /\ u.sent \in Nat /\ u.taken \in Nat
        /\ Length[p] \in Nat /\ 1 <= Length[p] /\ Length[p] <= Size
    BY UserJob
  <2>2. u.pc = "send" /\ Receive(IF next <= Size THEN wbuf[next] ELSE Junk)
    BY <1>3 DEF SendByte
  <2>3. job'["user"] = [u EXCEPT !.taken = u.taken + 1]
    BY <1>3 DEF SendByte, IInv, TypeOK
  <2>4. /\ job'["user"].pc = "send" /\ job'["user"].pkt = p
        /\ job'["user"].sent = u.sent /\ job'["user"].taken = u.taken + 1
    BY <2>1, <2>2, <2>3 DEF Job
  <2>5. wbuf[Length[p]] = <<p, Length[p]>> BY <2>2 DEF LastByte
  <2>6. ASSUME next = Length[p] PROVE garbled' \/ p \in got'
    <3>1. Receive(<<p, Length[p]>>) BY <2>1, <2>2, <2>5, <2>6
    <3>2. QED BY <3>1 DEF Receive, Completes
  <2>7. ASSUME next > Length[p] PROVE garbled' \/ p \in got'
    <3>1. u.sent + u.taken >= Length[p] BY <2>1, <2>7
    <3>2. QED BY <1>1, <2>2, <3>1 DEF LastByte
  <2>8. u.sent + (u.taken + 1) >= Length[p] => garbled' \/ p \in got'
    BY <2>1, <2>6, <2>7
  <2>9. garbled' \/ accepted' \subseteq got' BY <1>1 DEF LastByte
  <2> HIDE DEF u, p, next
  <2>10. QED BY <1>1, <2>4, <2>5, <2>8, <2>9 DEF LastByte
<1>4. QED BY <1>2, <1>3

\* A write that returns leaves the last byte where it is.
LEMMA LastByteReturns ==
  ASSUME IInv, LastByte, NEW t \in Thread, WriteReturns(t)
  PROVE  LastByte'
<1>1. UNCHANGED <<wbuf, accepted, rx, got, garbled>> BY DEF WriteReturns, stream
<1>2. CASE t # "user"
  <2>1. job'["user"] = job["user"] BY <1>2 DEF WriteReturns, IInv, TypeOK, Thread
  <2>2. QED BY <1>1, <2>1, OthersLastByte DEF IInv
<1>3. CASE t = "user"
  <2> DEFINE u == job["user"]
             p == u.pkt
             sum == u.sent + u.taken
             result == CASE sum < Length[p] -> "send" [] sum = Length[p] -> "ok"
                     [] sum > Length[p] -> "failed"
  <2>1. /\ u \in Job /\ p \in Packet /\ u.sent \in Nat /\ u.taken \in Nat
        /\ Length[p] \in Nat /\ u.pc = "send"
    BY <1>3, UserJob DEF WriteReturns
  <2>2. job'["user"] = [u EXCEPT !.sent = sum, !.taken = 0, !.pc = result]
    BY <1>3 DEF WriteReturns, IInv, TypeOK
  <2> HIDE DEF sum, result
  <2>3. /\ job'["user"].pc = result /\ job'["user"].pkt = p
        /\ job'["user"].sent = sum /\ job'["user"].taken = 0
    BY <2>1, <2>2 DEF Job
  <2>4. wbuf[Length[p]] = <<p, Length[p]>> /\ (sum >= Length[p] => garbled \/ p \in got)
    BY <2>1 DEF LastByte, sum
  <2>5. sum \in Nat BY <2>1 DEF sum
  <2>6. sum + 0 = sum /\ (result = "ok" => sum = Length[p]) BY <2>1, <2>5 DEF result
  <2>7. garbled \/ accepted \subseteq got BY DEF LastByte
  <2> HIDE DEF u, p
  <2>8. QED BY <1>1, <2>3, <2>4, <2>6, <2>7 DEF LastByte
<1>4. QED BY <1>2, <1>3

\* The user thread's own steps keep its last byte in the buffer.
LEMMA LastByteUser ==
  ASSUME IInv, LastByte, User
  PROVE  LastByte'
<1> USE PacketFacts DEF Thread
<1>1. ASSUME NEW p \in UserPackets \cup Qos0, Publish(p) PROVE LastByte'
  <2>1. TypeOK /\ p \in Packet /\ UNCHANGED <<accepted, got, garbled>>
        /\ job' = [job EXCEPT !["user"] = Sending(p)] /\ Fill(Bytes(p))
    BY <1>1 DEF Publish, stream, IInv
  <2>2. /\ job'["user"].pc = "send" /\ job'["user"].pkt = p
        /\ job'["user"].sent = 0 /\ job'["user"].taken = 0
    BY <2>1, JobStarts
  <2>3. wbuf'[Length[p]] = <<p, Length[p]>>
    <3>1. Length[p] \in 1..Length[p] BY <2>1
    <3>2. QED BY <2>1, <3>1, BytesType, Filling DEF Bytes
  <2>4. ~(0 + 0 >= Length[p]) BY <2>1
  <2>5. QED BY <2>1, <2>2, <2>3, <2>4 DEF LastByte
<1>2. CASE PublishDone \/ PublishNoMemory
  <2> DEFINE p == job["user"].pkt
  <2>1. /\ job' = [job EXCEPT !["user"] = Idle] /\ UNCHANGED <<wbuf, got, garbled>>
        /\ \/ accepted' = accepted
           \/ job["user"].pc = "ok" /\ accepted' = accepted \cup {p}
    BY <1>2 DEF PublishDone, PublishNoMemory, stream
  <2>2. job'["user"] = Idle /\ Idle.pc = "idle" BY <2>1, JobEnds DEF IInv
  <2>3. job["user"].pc = "ok" => garbled \/ p \in got
    <3>1. job["user"].sent \in Nat /\ job["user"].taken \in Nat BY UserJob
    <3>2. job["user"].pc = "ok" => job["user"].sent + job["user"].taken >= Length[p]
      BY <3>1, UserJob DEF LastByte
    <3>3. QED BY <3>2 DEF LastByte
  <2>4. garbled' \/ accepted' \subseteq got' BY <2>1, <2>3 DEF LastByte
  <2>5. QED BY <2>2, <2>4 DEF LastByte
<1>3. QED BY <1>1, <1>2 DEF User

\* The yield thread lays no packet over the last byte of the user's: it has the lock, or pings.
LEMMA LastByteYield ==
  ASSUME IInv, LastByte, Yield \/ (\E t \in Thread : SendFails(t)) \/ UNCHANGED vars
  PROVE  LastByte'
<1> USE PacketFacts DEF Thread
<1>1. job = [t \in Thread |-> job[t]] BY DEF IInv, TypeOK
<1>2. CASE SendFails("user")
  <2>1. job["user"].pc = "send" /\ job'["user"] = [job["user"] EXCEPT !.pc = "failed"]
        /\ UNCHANGED <<wbuf, accepted, got, garbled>>
    BY <1>1, <1>2 DEF SendFails, stream
  <2>2. job'["user"].pc = "failed" /\ job'["user"].pkt = job["user"].pkt
    BY <2>1, UserJob DEF Job
  <2>3. QED BY <2>1, <2>2 DEF LastByte
<1>3. CASE \/ SendFails("yield") \/ YieldDone \/ RecordLate \/ RecordLateNoMemory
           \/ UNCHANGED vars
           \/ \E n \in nodes : Unrecord(n)
  <2>1. UNCHANGED <<wbuf, accepted, got, garbled>> /\ job'["user"] = job["user"]
    BY <1>1, <1>3
       DEF SendFails, YieldDone, RecordLate, RecordLateNoMemory, Unrecord, vars, stream
  <2>2. QED BY <2>1, OthersLastByte DEF IInv
<1>4. CASE (\E p \in Acks \cup Recs : Answer(p)) \/ (\E p \in Rels : Release(p) \/ ReleaseNoMemory(p))
            \/ \E n \in nodes : Resend(n)
  <2>1. lock = "free" /\ UNCHANGED <<accepted, got, garbled>> /\ job'["user"] = job["user"]
    BY <1>1, <1>4 DEF Answer, Release, ReleaseNoMemory, Resend, stream
  <2>2. job["user"].pc = "idle" BY <2>1, FreeIsIdle
  <2>3. QED BY <2>1, <2>2, OthersLastByte DEF IInv
<1>5. CASE Ping
  <2>1. UNCHANGED <<accepted, got, garbled>> /\ job'["user"] = job["user"]
        /\ wbuf' = [i \in 1..Size |-> IF i <= Len(Bytes(PingReq)) THEN Bytes(PingReq)[i] ELSE wbuf[i]]
    BY <1>1, <1>5 DEF Ping, Fill, stream
  <2>2. ASSUME job["user"].pc # "idle"
        PROVE  wbuf'[Length[job["user"].pkt]] = wbuf[Length[job["user"].pkt]]
    <3> DEFINE last == Length[job["user"].pkt]
    <3>1. job["user"].pkt \in UserPackets \cup Qos0 /\ last \in 1..Size BY <2>2, UserJob
    <3>2. last > Length[PingReq] BY <3>1, WireAssumption
    <3>3. Len(Bytes(PingReq)) = Length[PingReq] BY DEF Bytes
    <3> HIDE DEF last
    <3>4. ~(last <= Len(Bytes(PingReq))) BY <3>1, <3>2, <3>3
    <3>5. wbuf'[last] = wbuf[last] BY <2>1, <3>1, <3>4
    <3>6. QED BY <3>5 DEF last
  <2>3. QED BY <2>1, <2>2, OthersLastByte DEF IInv
<1>6. QED BY <1>2, <1>3, <1>4, <1>5 DEF Yield
-----------------------------------------------------------------------------
(* Every step keeps the invariant.                                          *)
LEMMA Step == IInv /\ [Next]_vars => IInv'
<1> SUFFICES ASSUME IInv, [Next]_vars PROVE IInv'
  OBVIOUS
<1>1. ASSUME NEW t \in Thread, SendStep(t) PROVE IInv'
  BY <1>1, SendByteStep, WriteReturnsStep, SendFailsStep DEF SendStep
<1>2. CASE User BY <1>2, PublishStep, PublishDoneStep DEF User
<1>3. CASE Yield
  BY <1>3, PingStep, YieldDoneStep, RecordLateStep, AnswerStep, ReleaseStep, ResendStep,
     UnrecordStep DEF Yield
<1>4. CASE UNCHANGED vars
  <2>1. UNCHANGED <<wbuf, lock, job, nodes, todo, accepted, rx, got, garbled, faults>>
    BY <1>4 DEF vars
  <2>2. TypeOK' BY <2>1 DEF IInv, TypeOK
  <2>3. Locked' BY <2>1 DEF IInv, Locked, InLock
  <2>4. Laid' BY <2>1 DEF IInv, Laid, Pinging, LaidOut
  <2>5. SavedIsOwn' BY <2>1 DEF IInv, SavedIsOwn, Bytes
  <2>6. Clean' BY <2>1 DEF IInv, Clean, Progress, LaidOut
  <2>7. QED BY <2>2, <2>3, <2>4, <2>5, <2>6 DEF IInv
<1>5. QED BY <1>1, <1>2, <1>3, <1>4 DEF Next

\* The invariant of the write buffer.
LEMMA Invariance == Spec => []IInv
  BY InitStep, Step, PTL DEF Spec

(* The state has the types of the code's variables.                         *)
THEOREM TypeCorrect == Spec => []TypeOK
<1>1. IInv => TypeOK BY DEF IInv
<1>2. QED BY <1>1, Invariance, PTL

(* For any packets and lengths: outside the three windows the lock does not *)
(* cover, the broker finds whole packets (mqtt_send_packet).                *)
THEOREM LockIsEnough == Spec => []StreamWhole
<1>1. IInv => StreamWhole BY DEF IInv, Clean, StreamWhole
<1>2. QED BY <1>1, Invariance, PTL

(* For any packets and lengths: a node saves its own packet, unless a ping  *)
(* or the copy without the lock spoiled it (mqtt_ack_list_record).          *)
THEOREM NodesSaveTheirOwn == Spec => []SavedIsOwn
<1>1. IInv => SavedIsOwn BY DEF IInv
<1>2. QED BY <1>1, Invariance, PTL

(* For any packets and lengths: mqtt_publish() reports success only for a   *)
(* packet the broker has whole, short writes and pings notwithstanding.     *)
THEOREM AcceptedArrives == Spec => []AcceptedIsWhole
<1>1. Init => LastByte
  BY PacketFacts DEF Init, LastByte, Idle, Thread
<1>2. IInv /\ LastByte /\ [Next]_vars => LastByte'
  BY LastByteSends, LastByteReturns, LastByteUser, LastByteYield DEF Next, SendStep
<1>3. LastByte => AcceptedIsWhole BY DEF LastByte, AcceptedIsWhole
<1>4. QED BY <1>1, <1>2, <1>3, Invariance, PTL DEF Spec
-----------------------------------------------------------------------------
(* The read buffer                                                          *)

Place == [pkt : Incoming, from : Nat]

ReadTypes ==
  /\ sent \in Seq(Place) /\ arrived \in Nat /\ closed \in BOOLEAN
  /\ taken \in Nat /\ taken <= arrived
  /\ pc \in {"header", "length", "body", "handle", "drain"}
  /\ buf \subseteq Nat /\ value \in Nat /\ multiplier \in Nat /\ left \in Nat
  /\ digits \in 0..MaxDigits /\ (pc = "length" => digits < MaxDigits)
  /\ handled \in Seq([nr : Nat, handler : Nat])
  /\ timeouts \in Nat /\ interrupted \in BOOLEAN

\* The packets follow one another in the stream, which may be cut off.
Following ==
  /\ \A k \in DOMAIN sent : sent[k].from = EndOf(k - 1)
  /\ \A j, k \in 0..Len(sent) : j <= k => EndOf(j) <= EndOf(k)
  /\ arrived <= EndOf(Len(sent)) /\ (~closed => arrived = EndOf(Len(sent)))

\* As long as no read was given up, the reader is at the place in the packet
\* number k that it takes itself to be at,
AtDigit(k) ==
  LET rest == Remaining[sent[k].pkt]
  IN  /\ buf = {sent[k].from + 1} /\ taken = sent[k].from + 1 + digits
      /\ digits < NumDigits(rest)
      /\ value + Shift(rest, digits) * multiplier = rest

AtBody(k) ==
  /\ buf = {sent[k].from + 1} /\ value = Remaining[sent[k].pkt] /\ ReadFits(k)
  /\ taken = sent[k].from + HeaderLen(value)

AtEnd(k) == Whole(k) /\ ReadFits(k) /\ taken = EndOf(k)

AtRest(k) == ~ReadFits(k) /\ left <= Remaining[sent[k].pkt] /\ taken = EndOf(k) - left

\* and what came before has been handled.
OnTrack ==
  /\ InStep
  /\ pc # "header" /\ ~interrupted =>
       \E k \in DOMAIN sent :
         /\ HandledUpTo(k - 1)
         /\ pc = "length" => AtDigit(k)
         /\ pc = "body" => AtBody(k)
         /\ pc = "handle" => AtEnd(k)
         /\ pc = "drain" => AtRest(k)

\* A read asks for something. Without a timeout, whoever was interrupted has
\* come to the end of a closed connection; what is broken comes after that.
CutOff ==
  /\ pc = "body" => value > 0
  /\ pc = "drain" => left > 0
  /\ timeouts = 0 =>
       /\ interrupted => closed /\ taken = arrived
       /\ \A i \in DOMAIN handled : handled[i].nr = 0 =>
            interrupted /\ pc = "header" /\ i = Len(handled)

ReadInv == ReadTypes /\ Following /\ OnTrack /\ CutOff

(* Division by the base, as the digits of a length are taken apart and put  *)
(* together.                                                                *)
LEMMA Division ==
  ASSUME NEW b \in Nat, b > 1, NEW n \in Nat
  PROVE  n \div b \in Nat /\ n % b \in 0..(b - 1) /\ n = b * (n \div b) + (n % b)
<1>1. n \div b \in Nat OBVIOUS
<1>2. n % b \in 0..(b - 1) OBVIOUS
<1>3. n = b * (n \div b) + (n % b) OBVIOUS
<1>4. QED BY <1>1, <1>2, <1>3

(* Each shift takes one digit off, and there are no more than four.         *)
LEMMA Shifting ==
  ASSUME NEW n \in Nat
  PROVE  /\ \A k \in 0..MaxDigits : Shift(n, k) \in Nat
         /\ Shift(n, 0) = n
         /\ \A k \in 0..(MaxDigits - 1) : Shift(n, k + 1) = Shift(n, k) \div Base
         /\ NumDigits(n) \in 1..MaxDigits
         /\ Shift(n, MaxDigits) = 0 => Shift(n, NumDigits(n)) = 0
<1> DEFINE once == n \div Base
           twice == once \div Base
           thrice == twice \div Base
           last == thrice \div Base
<1>1. Base \in Nat /\ Base > 1 BY ReadAssumption
<1>2. once \in Nat BY <1>1, Division
<1>3. twice \in Nat BY <1>1, <1>2, Division
<1>4. thrice \in Nat BY <1>1, <1>3, Division
<1>5. last \in Nat BY <1>1, <1>4, Division
<1>6. /\ Shift(n, 0) = n /\ Shift(n, 1) = once /\ Shift(n, 2) = twice
      /\ Shift(n, 3) = thrice /\ Shift(n, 4) = last
  BY DEF Shift
<1> HIDE DEF once, twice, thrice, last
<1>7. \A k \in 0..MaxDigits : Shift(n, k) \in Nat
  BY <1>2, <1>3, <1>4, <1>5, <1>6 DEF MaxDigits
<1>8. ASSUME NEW k \in 0..(MaxDigits - 1)
      PROVE  Shift(n, k + 1) = Shift(n, k) \div Base
  <2>1. k = 0 \/ k = 1 \/ k = 2 \/ k = 3 BY DEF MaxDigits
  <2>2. 0 + 1 = 1 /\ 1 + 1 = 2 /\ 2 + 1 = 3 /\ 3 + 1 = 4 OBVIOUS
  <2>3. QED BY <2>1, <2>2, <1>6 DEF once, twice, thrice, last
<1>9. NumDigits(n) \in 1..MaxDigits BY DEF NumDigits, MaxDigits
<1>10. Shift(n, MaxDigits) = 0 => Shift(n, NumDigits(n)) = 0
  BY DEF NumDigits, MaxDigits
<1>11. QED BY <1>6, <1>7, <1>8, <1>9, <1>10

(* A packet has a header byte, a digit and at most three more.              *)
LEMMA PacketBytes ==
  ASSUME NEW p \in Incoming
  PROVE  /\ Remaining[p] \in Nat /\ HeaderLen(Remaining[p]) \in 2..5
         /\ PacketLen(p) \in Nat /\ PacketLen(p) = HeaderLen(Remaining[p]) + Remaining[p]
         /\ HeaderLen(Remaining[p]) = 1 + NumDigits(Remaining[p])
<1>1. Remaining[p] \in Nat BY ReadAssumption
<1>2. NumDigits(Remaining[p]) \in 1..4 BY <1>1, Shifting DEF MaxDigits
<1>3. QED BY <1>1, <1>2 DEF PacketLen, HeaderLen

\* A set of numbers has a least one.
LEMMA Least ==
  ASSUME NEW S, S \subseteq Nat, S # {}
  PROVE  \E n \in S : \A m \in S : n <= m
<1>1. PICK n \in S : \A m \in S : <<m, n>> \notin OpToRel(<, Nat)
  BY NatLessThanWellFounded, WFMin
<1>2. \A m \in S : ~(m < n) BY <1>1 DEF OpToRel
<1>3. QED BY <1>2

(* A handler is found at its place in the list, or none is.                 *)
LEMMA HandlerInList ==
  ASSUME NEW topic
  PROVE  MsgHandler(Filters, topic) \in Nat
<1> DEFINE found == {i \in DOMAIN Filters : Filters[i] = topic \/ IsMatched(Filters[i], topic)}
<1>1. MsgHandler(Filters, topic) = IF found = {} THEN 0 ELSE Min(found) BY DEF MsgHandler
<1>2. found \subseteq Nat
  <2>1. DOMAIN Filters = 1..Len(Filters) /\ Len(Filters) \in Nat
    BY TopicAssumption, LenProperties
  <2>2. QED BY <2>1
<1> HIDE DEF found
<1>3. CASE found = {} BY <1>1, <1>3
<1>4. CASE found # {}
  <2>1. PICK x \in found : \A y \in found : x <= y BY <1>2, <1>4, Least
  <2>2. Min(found) \in found BY <2>1 DEF Min
  <2>3. QED BY <1>1, <1>2, <1>4, <2>2
<1>5. QED BY <1>3, <1>4

(* What is known of a packet that was sent.                                 *)
LEMMA SentPacket ==
  ASSUME ReadTypes, Following, NEW k \in DOMAIN sent
  PROVE  /\ k \in Nat /\ k > 0 /\ k <= Len(sent) /\ Len(sent) \in Nat
         /\ sent[k].pkt \in Incoming /\ sent[k].from \in Nat
         /\ EndOf(k) = sent[k].from + PacketLen(sent[k].pkt) /\ EndOf(k) \in Nat
         /\ sent[k].from = EndOf(k - 1) /\ sent[k].from + 1 < EndOf(k)
<1>1. /\ k \in Nat /\ k > 0 /\ k <= Len(sent) /\ Len(sent) \in Nat /\ sent[k] \in Place
  BY LenProperties, ElementOfSeq DEF ReadTypes
<1>2. sent[k].pkt \in Incoming /\ sent[k].from \in Nat BY <1>1 DEF Place
<1>3. EndOf(k) = sent[k].from + PacketLen(sent[k].pkt) BY <1>1 DEF EndOf
<1>4. sent[k].from = EndOf(k - 1) BY DEF Following
<1>5. PacketLen(sent[k].pkt) \in Nat /\ PacketLen(sent[k].pkt) > 1
  BY <1>2, PacketBytes
<1>6. QED BY <1>1, <1>2, <1>3, <1>4, <1>5

(* The reader's steps leave the stream as it is, and with it where each     *)
(* packet ends and which fit.                                               *)
LEMMA SameStream ==
  ASSUME sent' = sent
  PROVE  /\ \A k : EndOf(k)' = EndOf(k)
         /\ \A k : Body(k)' = Body(k)
         /\ \A k : ReadFits(k)' = ReadFits(k)
BY DEF EndOf, Body, ReadFits

\* What the packets end at, and so the order they follow in, is the broker's alone.
LEMMA FollowingKept ==
  ASSUME Following, UNCHANGED broker
  PROVE  Following'
BY DEF Following, EndOf, broker

\* Which packets were handled is read off the list of handled packets and the stream.
LEMMA SameHandled ==
  ASSUME sent' = sent, handled' = handled
  PROVE  \A n : HandledUpTo(n)' <=> HandledUpTo(n)
BY DEF HandledUpTo, ReadFits

(* An interrupted reader is not known to be anywhere.                       *)
LEMMA Interrupted ==
  ASSUME interrupted'
  PROVE  OnTrack'
BY DEF OnTrack, InStep

(* As long as the packets that were sent stay where they are, so does the   *)
(* reader.                                                                  *)
LEMMA BrokerKeeps ==
  ASSUME ReadInv, Len(sent') \in Nat, Len(sent') >= Len(sent),
         DOMAIN sent' = 1..Len(sent'),
         \A k \in DOMAIN sent : sent'[k] = sent[k],
         UNCHANGED <<taken, pc, buf, number, left, handled, interrupted>>
  PROVE  OnTrack'
<1>1. DOMAIN sent = 1..Len(sent) /\ Len(sent) \in Nat
  BY LenProperties DEF ReadInv, ReadTypes
<1>2. \A k \in 0..Len(sent) : EndOf(k)' = EndOf(k) BY <1>1 DEF EndOf
<1>3. \A k \in 1..Len(sent) : (ReadFits(k)' <=> ReadFits(k)) /\ Body(k)' = Body(k)
  BY <1>1, <1>2 DEF ReadFits, Body
<1>4. \A n \in 0..Len(sent) : HandledUpTo(n) => HandledUpTo(n)'
  <2>1. SUFFICES ASSUME NEW n \in 0..Len(sent), HandledUpTo(n) PROVE HandledUpTo(n)'
    OBVIOUS
  <2>2. {k \in 1..n : ReadFits(k)}' = {k \in 1..n : ReadFits(k)} BY <1>1, <1>3
  <2>3. QED BY <2>1, <2>2 DEF HandledUpTo
<1>5. InStep'
  <2>1. SUFFICES ASSUME pc = "header", ~interrupted
                 PROVE  \E n \in 0..Len(sent') : taken = EndOf(n)' /\ HandledUpTo(n)'
    BY DEF InStep
  <2>2. PICK n \in 0..Len(sent) : taken = EndOf(n) /\ HandledUpTo(n)
    BY <2>1 DEF ReadInv, OnTrack, InStep
  <2>3. n \in 0..Len(sent') BY <1>1
  <2>4. QED BY <1>2, <1>4, <2>2, <2>3
<1>6. ASSUME pc # "header", ~interrupted
      PROVE  \E k \in DOMAIN sent' :
               /\ HandledUpTo(k - 1)'
               /\ pc = "length" => AtDigit(k)'
               /\ pc = "body" => AtBody(k)'
               /\ pc = "handle" => AtEnd(k)'
               /\ pc = "drain" => AtRest(k)'
  <2>1. PICK k \in DOMAIN sent :
          /\ HandledUpTo(k - 1)
          /\ pc = "length" => AtDigit(k)
          /\ pc = "body" => AtBody(k)
          /\ pc = "handle" => AtEnd(k)
          /\ pc = "drain" => AtRest(k)
    BY <1>6 DEF ReadInv, OnTrack
  <2>2. /\ k \in DOMAIN sent' /\ sent'[k] = sent[k] /\ EndOf(k)' = EndOf(k)
        /\ ReadFits(k)' <=> ReadFits(k)
        /\ Body(k)' = Body(k)
    BY <1>1, <1>2, <1>3
  <2>3. HandledUpTo(k - 1)' BY <1>1, <1>4, <2>1
  <2>4. AtDigit(k) => AtDigit(k)' BY <2>2 DEF AtDigit, number
  <2>5. AtBody(k) => AtBody(k)' BY <2>2 DEF AtBody, number
  <2>6. AtEnd(k) => AtEnd(k)' BY <2>2 DEF AtEnd, Whole
  <2>7. AtRest(k) => AtRest(k)' BY <2>2 DEF AtRest
  <2>8. QED BY <2>1, <2>2, <2>3, <2>4, <2>5, <2>6, <2>7
<1>7. QED BY <1>5, <1>6 DEF OnTrack

\* A packet that is sent goes behind all that were sent before.
LEMMA BrokerSendsStep ==
  ASSUME ReadInv, NEW p \in Incoming, BrokerSends(p)
  PROVE  ReadInv'
<1> DEFINE new == [pkt |-> p, from |-> arrived]
<1> PICK n : n = Len(sent) OBVIOUS
<1>1. /\ ~closed /\ sent' = Append(sent, new) /\ arrived' = arrived + PacketLen(p)
      /\ UNCHANGED <<closed, taken, pc, buf, digits, value, multiplier, left, handled,
                     timeouts, interrupted>>
  BY DEF BrokerSends, number, history
<1>2. /\ sent \in Seq(Place) /\ n \in Nat /\ DOMAIN sent = 1..n /\ arrived \in Nat
      /\ new \in Place /\ PacketLen(p) \in Nat
  BY PacketBytes, LenProperties DEF ReadInv, ReadTypes, Place
<1>3. /\ sent' \in Seq(Place) /\ Len(sent') = n + 1 /\ DOMAIN sent' = 1..(n + 1)
      /\ sent'[n + 1] = new /\ \A k \in 1..n : sent'[k] = sent[k]
  BY <1>1, <1>2, AppendProperties, LenProperties
<1>4. ReadTypes'
  <2>1. taken' <= arrived' BY <1>1, <1>2 DEF ReadInv, ReadTypes
  <2>2. QED BY <1>1, <1>2, <1>3, <2>1 DEF ReadInv, ReadTypes
<1>5. Following'
  <2>1. \A k \in 0..n : EndOf(k)' = EndOf(k) BY <1>2, <1>3 DEF EndOf
  <2>2. EndOf(n + 1)' = arrived' BY <1>1, <1>2, <1>3 DEF EndOf
  <2>3. EndOf(n) = arrived BY <1>1 DEF ReadInv, Following
  <2>4. ASSUME NEW k \in 1..(n + 1) PROVE sent'[k].from = EndOf(k - 1)'
    <3>1. CASE k = n + 1
      <4>1. k - 1 = n /\ n \in 0..n BY <3>1, <1>2
      <4>2. QED BY <3>1, <4>1, <1>3, <2>1, <2>3
    <3>2. CASE k \in 1..n
      <4>1. k - 1 \in 0..n BY <3>2, <1>2
      <4>2. sent[k].from = EndOf(k - 1) BY <3>2, <1>2 DEF ReadInv, Following
      <4>3. QED BY <3>2, <4>1, <4>2, <1>3, <2>1
    <3>3. QED BY <3>1, <3>2, <1>2
  <2>5. ASSUME NEW j \in 0..(n + 1), NEW k \in 0..(n + 1), j <= k
        PROVE  EndOf(j)' <= EndOf(k)'
    <3>1. \A i \in 0..n : EndOf(i) <= EndOf(n) BY <1>2 DEF ReadInv, Following
    <3>2. \A i \in 0..n : EndOf(i) \in Nat
      <4>1. ASSUME NEW i \in 1..n PROVE EndOf(i) \in Nat
        BY <1>2, SentPacket DEF ReadInv
      <4>2. EndOf(0) = 0 BY DEF EndOf
      <4>3. QED BY <1>2, <4>1, <4>2
    <3>3. arrived <= arrived' /\ arrived' \in Nat BY <1>1, <1>2
    <3>4. CASE k = n + 1 /\ j = n + 1 BY <3>4, <2>2, <3>3
    <3>5. CASE k = n + 1 /\ j \in 0..n
      <4>1. EndOf(j)' = EndOf(j) /\ EndOf(j) <= EndOf(n) BY <3>5, <2>1, <3>1
      <4>2. EndOf(k)' = arrived' BY <3>5, <2>2
      <4>3. EndOf(j) \in Nat /\ EndOf(n) \in Nat /\ arrived \in Nat BY <3>2, <3>5, <1>2
      <4>4. EndOf(j) <= arrived' BY <4>1, <4>3, <2>3, <3>3
      <4>5. QED BY <4>1, <4>2, <4>4
    <3>6. CASE k \in 0..n
      <4>1. j \in 0..n BY <2>5, <3>6, <1>2
      <4>2. EndOf(j) <= EndOf(k) BY <2>5, <3>6, <4>1, <1>2 DEF ReadInv, Following
      <4>3. QED BY <3>6, <4>1, <4>2, <2>1
    <3>7. QED BY <3>4, <3>5, <3>6, <1>2
  <2>6. (arrived = EndOf(Len(sent)))' /\ arrived' <= arrived'
    BY <1>1, <1>2, <1>3, <2>2
  <2>7. QED BY <1>3, <2>4, <2>5, <2>6 DEF Following
<1>6. OnTrack'
  <2>1. Len(sent') \in Nat /\ Len(sent') >= Len(sent) /\ DOMAIN sent' = 1..Len(sent')
    BY <1>2, <1>3
  <2>2. QED BY <1>1, <1>2, <1>3, <2>1, BrokerKeeps DEF number
<1>7. CutOff'
  <2>1. interrupted /\ timeouts = 0 => closed BY DEF ReadInv, CutOff
  <2>2. QED BY <1>1, <2>1 DEF ReadInv, CutOff
<1>8. QED BY <1>4, <1>5, <1>6, <1>7 DEF ReadInv

\* A connection that is closed cuts off what was still to come, nothing that was read.
LEMMA BrokerClosesStep ==
  ASSUME ReadInv, BrokerCloses
  PROVE  ReadInv'
<1>1. /\ ~closed /\ closed' = TRUE /\ arrived' \in taken..arrived
      /\ UNCHANGED <<sent, taken, pc, buf, digits, value, multiplier, left, handled,
                     timeouts, interrupted>>
  BY DEF BrokerCloses, number, history
<1>2. arrived' \in Nat /\ taken <= arrived' /\ arrived' <= arrived
  BY <1>1 DEF ReadInv, ReadTypes
<1>3. ReadTypes' BY <1>1, <1>2 DEF ReadInv, ReadTypes
<1>4. Following'
  <2>1. arrived = EndOf(Len(sent)) BY <1>1 DEF ReadInv, Following
  <2>2. \A k : EndOf(k)' = EndOf(k) BY <1>1, SameStream
  <2>3. (arrived <= EndOf(Len(sent)))' BY <1>1, <1>2, <2>1, <2>2
  <2>4. QED BY <1>1, <2>2, <2>3 DEF ReadInv, Following
<1>5. OnTrack'
  <2>1. Len(sent) \in Nat /\ DOMAIN sent = 1..Len(sent)
    BY LenProperties DEF ReadInv, ReadTypes
  <2>2. QED BY <1>1, <2>1, BrokerKeeps DEF number
<1>6. CutOff'
  <2>1. interrupted /\ timeouts = 0 => closed BY DEF ReadInv, CutOff
  <2>2. QED BY <1>1, <2>1 DEF ReadInv, CutOff
<1>7. QED BY <1>3, <1>4, <1>5, <1>6 DEF ReadInv

(* Where a reader that has its length goes on: never to nothing, since a    *)
(* header alone fits the buffer.                                            *)
LEMMA SizedStep ==
  ASSUME NEW v \in Nat, Sized(v)
  PROVE  /\ left' = v /\ pc' \in {"drain", "body", "handle"}
         /\ pc' = "drain" <=> HeaderLen(v) + v > ReadBufSize
         /\ pc' \in {"drain", "body"} => v > 0
         /\ pc' = "handle" => v = 0
<1>1. NumDigits(v) \in 1..4 BY Shifting DEF MaxDigits
<1>2. HeaderLen(v) \in 2..5 BY <1>1 DEF HeaderLen
<1>3. ReadBufSize \in Nat /\ ReadBufSize > 5 BY ReadAssumption DEF MaxDigits
<1>4. QED BY <1>2, <1>3 DEF Sized

(* What is left of a read that was given up: without a timeout it has come  *)
(* to the end of a closed connection.                                       *)
LEMMA GivenUp ==
  ASSUME ReadInv, NEW n \in Nat, TimesOut(n) \/ Ends(n), UNCHANGED broker
  PROVE  /\ taken' \in Nat /\ taken' <= arrived' /\ interrupted' = TRUE /\ timeouts' \in Nat
         /\ timeouts' = 0 => timeouts = 0 /\ closed' /\ taken' = arrived'
<1>1. /\ taken \in Nat /\ arrived \in Nat /\ timeouts \in Nat
      /\ arrived' = arrived /\ closed' = closed
  BY DEF ReadInv, ReadTypes, broker
<1>2. CASE TimesOut(n) BY <1>1, <1>2 DEF TimesOut
<1>3. CASE Ends(n) BY <1>1, <1>3 DEF Ends
<1>4. QED BY <1>2, <1>3

(* Nothing broken has been handled while a packet is read.                  *)
LEMMA NoneBroken ==
  ASSUME ReadInv, timeouts = 0, pc # "header"
  PROVE  \A i \in DOMAIN handled : handled[i].nr # 0
BY DEF ReadInv, CutOff

(* A read that gets its bytes does so before the end of the connection.     *)
LEMMA NotCutOff ==
  ASSUME ReadInv, NEW n \in Nat, n > 0, Gets(n)
  PROVE  /\ taken' = taken + n /\ taken' \in Nat /\ taken' <= arrived
         /\ timeouts' = timeouts /\ interrupted' = interrupted
         /\ timeouts = 0 => ~interrupted /\ \A i \in DOMAIN handled : handled[i].nr # 0
<1>1. taken \in Nat /\ arrived \in Nat /\ interrupted \in BOOLEAN
  BY DEF ReadInv, ReadTypes
<1>2. taken + n <= arrived /\ taken' = taken + n /\ UNCHANGED <<timeouts, interrupted>>
  BY DEF Gets, history
<1>3. taken # arrived BY <1>1, <1>2
<1>4. timeouts = 0 => ~interrupted /\ \A i \in DOMAIN handled : handled[i].nr # 0
  BY <1>3 DEF ReadInv, CutOff
<1>5. QED BY <1>1, <1>2, <1>4

\* The first byte read between two packets is the header of the next one.
LEMMA ReadHeaderStep ==
  ASSUME ReadInv, ReadHeader
  PROVE  ReadInv'
<1>1. /\ pc = "header" /\ pc' = "length" /\ Gets(1) /\ buf' = {taken'}
      /\ digits' = 0 /\ value' = 0 /\ multiplier' = 1
      /\ UNCHANGED <<sent, arrived, closed, left, handled>>
      /\ UNCHANGED broker
  BY DEF ReadHeader, broker
<1>2. /\ taken' = taken + 1 /\ taken' \in Nat /\ taken' <= arrived
      /\ timeouts' = timeouts /\ interrupted' = interrupted
      /\ timeouts = 0 => ~interrupted /\ \A i \in DOMAIN handled : handled[i].nr # 0
  BY <1>1, NotCutOff
<1>3. ReadTypes' BY <1>1, <1>2 DEF ReadInv, ReadTypes, MaxDigits
<1>4. Following' BY <1>1, FollowingKept DEF ReadInv
<1>5. OnTrack'
  <2>1. SUFFICES ASSUME ~interrupted
                 PROVE  \E k \in DOMAIN sent' : HandledUpTo(k - 1)' /\ AtDigit(k)'
    BY <1>1, <1>2 DEF OnTrack, InStep
  <2>2. PICK n \in 0..Len(sent) : taken = EndOf(n) /\ HandledUpTo(n)
    BY <1>1, <2>1 DEF ReadInv, OnTrack, InStep
  <2>3. Len(sent) \in Nat /\ DOMAIN sent = 1..Len(sent)
    BY LenProperties DEF ReadInv, ReadTypes
  <2>4. n # Len(sent)
    <3>1. arrived <= EndOf(Len(sent)) BY DEF ReadInv, Following
    <3>2. taken \in Nat /\ arrived \in Nat BY DEF ReadInv, ReadTypes
    <3>3. QED BY <1>2, <2>2, <3>1, <3>2
  <2>5. PICK k \in DOMAIN sent : k - 1 = n
    <3>1. PICK l \in Nat : l = Len(sent) BY <2>3
    <3>2. n \in 0..l /\ n # l BY <2>2, <2>4, <3>1
    <3>3. n + 1 \in 1..l /\ (n + 1) - 1 = n BY <3>2
    <3>4. n + 1 \in DOMAIN sent BY <2>3, <3>1, <3>3
    <3>5. QED BY <3>3, <3>4, Zenon
  <2> DEFINE rest == Remaining[sent[k].pkt]
  <2>6. sent[k].from = taken /\ sent[k].pkt \in Incoming
    BY <2>2, <2>5, SentPacket DEF ReadInv
  <2>7. rest \in Nat /\ Shift(rest, 0) = rest /\ NumDigits(rest) \in 1..4
    BY <2>6, PacketBytes, Shifting DEF MaxDigits
  <2>8. AtDigit(k)'
    <3> HIDE DEF rest
    <3>1. 0 + Shift(rest, 0) * 1 = rest BY <2>7
    <3>2. 0 < NumDigits(rest) BY <2>7
    <3>3. QED BY <1>1, <1>2, <2>6, <3>1, <3>2 DEF AtDigit, rest, ReadInv, ReadTypes
  <2>9. HandledUpTo(k - 1)'
    <3>1. HandledUpTo(k - 1) BY <2>2, <2>5
    <3>2. QED BY <1>1, <3>1, SameHandled
  <2>10. QED BY <1>1, <2>8, <2>9
<1>6. CutOff' BY <1>1, <1>2 DEF CutOff
<1>7. QED BY <1>3, <1>4, <1>5, <1>6 DEF ReadInv

(* The next digit of the packet that is read: it says whether another one   *)
(* follows, and what it makes with those before and after is the length.    *)
LEMMA DigitFound ==
  ASSUME ReadInv, pc = "length", NEW k \in DOMAIN sent, AtDigit(k),
         sent' = sent, buf' = buf, taken' = taken + 1,
         NEW digit \in Digits(taken'),
         digits' = digits + 1, value' = value + digit.d * multiplier,
         multiplier' = multiplier * Base
  PROVE  IF digit.more /\ digits' < MaxDigits THEN AtDigit(k)'
         ELSE /\ buf = {sent[k].from + 1} /\ value' = Remaining[sent[k].pkt]
              /\ taken' = sent[k].from + HeaderLen(value')
<1> DEFINE p == sent[k].pkt
           rest == Remaining[p]
<1>1. p \in Incoming /\ sent[k].from \in Nat BY SentPacket DEF ReadInv
<1>2. /\ rest \in Nat /\ HeaderLen(rest) = 1 + NumDigits(rest)
      /\ NumDigits(rest) \in 1..4 /\ Shift(rest, NumDigits(rest)) = 0
  BY <1>1, PacketBytes, Shifting, ReadAssumption DEF MaxDigits
<1>3. /\ digits \in 0..3 /\ value \in Nat /\ multiplier \in Nat
      /\ Base \in Nat /\ Base > 1
  BY ReadAssumption DEF ReadInv, ReadTypes, MaxDigits
<1>4. /\ buf = {sent[k].from + 1} /\ taken = sent[k].from + 1 + digits
      /\ digits < NumDigits(rest)
      /\ value + Shift(rest, digits) * multiplier = rest
  BY DEF AtDigit
<1>5. digit = Digit(p, digits + 2)
  <2>1. taken' - sent[k].from = digits + 2 BY <1>1, <1>3, <1>4
  <2>2. IsDigit(p, digits + 2) BY <1>2, <1>3, <1>4 DEF IsDigit
  <2>3. IsDigit(p, taken' - sent[k].from) => digit = Digit(p, taken' - sent[k].from)
    BY DEF Digits
  <2>4. QED BY <2>1, <2>2, <2>3
<1>6. /\ digit.d = Shift(rest, digits) % Base
      /\ digit.more <=> digits + 2 < HeaderLen(rest)
  <2>1. (digits + 2) - 2 = digits BY <1>3
  <2>2. QED BY <1>5, <2>1 DEF Digit
<1> HIDE DEF p, rest
<1>7. value' + Shift(rest, digits') * multiplier' = rest
  <2>1. PICK n \in Nat : n = Shift(rest, digits) BY <1>2, <1>3, Shifting DEF MaxDigits
  <2>2. Shift(rest, digits') = n \div Base BY <1>2, <1>3, <2>1, Shifting DEF MaxDigits
  <2>3. PICK q, d \in Nat : q = n \div Base /\ d = n % Base /\ n = Base * q + d
    <3>1. n \div Base \in Nat /\ n % Base \in 0..(Base - 1) BY <1>3, <2>1, Division
    <3>2. n = Base * (n \div Base) + (n % Base) BY <1>3, <2>1, Division
    <3>3. n % Base \in Nat BY <1>3, <3>1
    <3>4. QED BY <3>1, <3>2, <3>3
  <2>4. n * multiplier = d * multiplier + q * (multiplier * Base)
    <3>1. Base \in Nat /\ multiplier \in Nat BY <1>3
    <3>2. n = Base * q + d BY <2>3
    <3>3. QED BY <3>1, <3>2
  <2>5. PICK x, y, z \in Nat : /\ x = n * multiplier /\ y = d * multiplier
                               /\ z = q * (multiplier * Base)
    <3>1. n * multiplier \in Nat BY <1>3, <2>1
    <3>2. d * multiplier \in Nat BY <1>3, <2>3
    <3>3. multiplier * Base \in Nat BY <1>3
    <3>4. q * (multiplier * Base) \in Nat BY <2>3, <3>3
    <3>5. QED BY <3>1, <3>2, <3>4
  <2>6. value + x = rest BY <1>4, <2>1, <2>5
  <2>7. value' = value + y BY <1>6, <2>1, <2>3, <2>5
  <2>8. Shift(rest, digits') * multiplier' = z BY <2>2, <2>3, <2>5
  <2>9. x = y + z BY <2>4, <2>5
  <2>10. QED BY <1>3, <2>5, <2>6, <2>7, <2>8, <2>9
<1>8. CASE digit.more /\ digits' < MaxDigits
  <2>1. digits' < NumDigits(rest) BY <1>2, <1>3, <1>6, <1>8
  <2>2. taken' = sent[k].from + 1 + digits' BY <1>1, <1>3, <1>4
  <2>3. AtDigit(k)' BY <1>4, <1>7, <2>1, <2>2 DEF AtDigit, rest, p
  <2>4. QED BY <1>8, <2>3
<1>9. CASE ~(digit.more /\ digits' < MaxDigits)
  <2>1. digits' = NumDigits(rest) BY <1>2, <1>3, <1>4, <1>6, <1>9 DEF MaxDigits
  <2>2. Shift(rest, digits') = 0 BY <1>2, <2>1
  <2>3. value' \in Nat /\ multiplier' \in Nat
    <3>1. digit.d \in Nat
      <4>1. digit \in [d : 0..(Base - 1), more : BOOLEAN] BY DEF Digits
      <4>2. QED BY <1>3, <4>1
    <3>2. digit.d * multiplier \in Nat BY <1>3, <3>1
    <3>3. QED BY <1>3, <3>2
  <2>4. value' = rest BY <1>7, <2>2, <2>3
  <2>5. taken' = sent[k].from + HeaderLen(rest) BY <1>1, <1>2, <1>3, <1>4, <2>1
  <2>6. QED BY <1>4, <1>9, <2>4, <2>5 DEF rest, p
<1>10. QED BY <1>8, <1>9

(* What follows once the whole length has been read.                        *)
LEMMA LengthRead ==
  ASSUME ReadInv, NEW k \in DOMAIN sent, HandledUpTo(k - 1),
         UNCHANGED <<sent, buf, handled>>, buf = {sent[k].from + 1},
         value' = Remaining[sent[k].pkt], Sized(value'),
         taken' = sent[k].from + HeaderLen(value')
  PROVE  OnTrack'
<1> DEFINE p == sent[k].pkt
           rest == Remaining[p]
<1>1. /\ p \in Incoming /\ sent[k].from \in Nat
      /\ EndOf(k) = sent[k].from + PacketLen(p)
  BY SentPacket DEF ReadInv
<1>2. rest \in Nat /\ HeaderLen(rest) \in 2..5 /\ PacketLen(p) = HeaderLen(rest) + rest
  BY <1>1, PacketBytes
<1>3. /\ left' = rest /\ pc' \in {"drain", "body", "handle"}
      /\ pc' = "drain" <=> HeaderLen(rest) + rest > ReadBufSize
      /\ pc' \in {"drain", "body"} => rest > 0
      /\ pc' = "handle" => rest = 0
  <2> HIDE DEF rest
  <2>1. value' = rest BY DEF rest
  <2>2. Sized(rest) BY <2>1
  <2>3. QED BY <1>2, <2>2, SizedStep
<1>4. ReadFits(k) <=> pc' # "drain"
  <2>1. ReadFits(k) <=> PacketLen(p) <= ReadBufSize BY DEF ReadFits
  <2>2. ReadBufSize \in Nat BY ReadAssumption
  <2> HIDE DEF rest, p
  <2>3. QED BY <1>2, <1>3, <2>1, <2>2
<1>5. /\ sent' = sent /\ EndOf(k)' = EndOf(k) /\ Body(k)' = Body(k)
      /\ ReadFits(k)' <=> ReadFits(k)
      /\ HandledUpTo(k - 1)'
  BY SameStream, SameHandled
<1>6. pc' = "body" => AtBody(k)'
  BY <1>4, <1>5 DEF AtBody
<1>7. pc' = "handle" => AtEnd(k)'
  <2>1. SUFFICES ASSUME pc' = "handle" PROVE AtEnd(k)' OBVIOUS
  <2>2. rest = 0 BY <1>3, <2>1
  <2>3. EndOf(k) = sent[k].from + HeaderLen(rest) BY <1>1, <1>2, <2>2
  <2>4. Body(k) = (sent[k].from + HeaderLen(rest) + 1)..EndOf(k) BY DEF Body
  <2>5. Body(k) = {}
    <3> HIDE DEF rest
    <3>1. QED BY <1>1, <1>2, <2>3, <2>4
  <2>6. taken' = EndOf(k) BY <2>3
  <2>7. buf' = {sent[k].from + 1} \cup Body(k) BY <2>5
  <2>8. QED BY <1>4, <1>5, <2>1, <2>6, <2>7 DEF AtEnd, Whole
<1>8. pc' = "drain" => AtRest(k)'
  <2>1. SUFFICES ASSUME pc' = "drain" PROVE AtRest(k)' OBVIOUS
  <2>2. taken' = sent[k].from + HeaderLen(rest) OBVIOUS
  <2>3. taken' = EndOf(k) - rest
    <3> HIDE DEF rest, p
    <3>1. QED BY <1>1, <1>2, <2>2
  <2>4. left' <= rest BY <1>2, <1>3
  <2>5. QED BY <1>3, <1>4, <1>5, <2>1, <2>3, <2>4 DEF AtRest
<1>9. QED BY <1>3, <1>5, <1>6, <1>7, <1>8 DEF OnTrack, InStep

\* A digit is that of the packet being read, and the last one gives its length.
LEMMA ReadDigitStep ==
  ASSUME ReadInv, ReadDigit
  PROVE  ReadInv'
<1>1. /\ pc = "length" /\ Gets(1) /\ buf' = buf
      /\ UNCHANGED <<sent, arrived, closed, handled>>
      /\ UNCHANGED broker
  BY DEF ReadDigit, broker
<1>2. PICK digit \in Digits(taken') :
        /\ digits' = digits + 1
        /\ value' = value + digit.d * multiplier
        /\ multiplier' = multiplier * Base
        /\ IF digit.more /\ digits' < MaxDigits THEN UNCHANGED <<pc, left>> ELSE Sized(value')
  BY DEF ReadDigit
<1>3. /\ taken' = taken + 1 /\ taken' \in Nat /\ taken' <= arrived
      /\ timeouts' = timeouts /\ interrupted' = interrupted
      /\ timeouts = 0 => ~interrupted /\ \A i \in DOMAIN handled : handled[i].nr # 0
  BY <1>1, NotCutOff
<1>4. /\ digits \in 0..3 /\ value \in Nat /\ multiplier \in Nat /\ left \in Nat
      /\ Base \in Nat /\ Base > 1
  BY <1>1, ReadAssumption DEF ReadInv, ReadTypes, MaxDigits
<1>5. digit \in [d : 0..(Base - 1), more : BOOLEAN] BY DEF Digits
<1>6. digit.d \in Nat /\ digit.more \in BOOLEAN BY <1>4, <1>5
<1>7. PICK v : v = digit.d * multiplier OBVIOUS
<1>8. v \in Nat BY <1>4, <1>6, <1>7
<1>9. value' \in Nat BY <1>2, <1>4, <1>7, <1>8
<1>10. multiplier' \in Nat BY <1>2, <1>4
<1>11. digits' \in 1..MaxDigits BY <1>2, <1>4 DEF MaxDigits
<1>12. CASE digit.more /\ digits' < MaxDigits
  <2>1. pc' = "length" /\ left' = left BY <1>1, <1>2, <1>12
  <2>2. ReadTypes'
    BY <1>1, <1>3, <1>4, <1>9, <1>10, <1>11, <1>12, <2>1 DEF ReadInv, ReadTypes
  <2>3. Following' BY <1>1, FollowingKept DEF ReadInv
  <2>4. CutOff' BY <1>1, <1>3, <2>1 DEF CutOff
  <2>5. OnTrack'
    <3>1. SUFFICES ASSUME ~interrupted
                   PROVE  \E k \in DOMAIN sent' : HandledUpTo(k - 1)' /\ AtDigit(k)'
      BY <1>3, <2>1 DEF OnTrack, InStep
    <3>2. PICK k \in DOMAIN sent : HandledUpTo(k - 1) /\ AtDigit(k)
      BY <1>1, <3>1 DEF ReadInv, OnTrack
    <3>3. HandledUpTo(k - 1)' BY <1>1, <3>2, SameHandled
    <3>4. AtDigit(k)'
      BY <1>1, <1>2, <1>3, <1>12, <3>2, DigitFound
    <3>5. QED BY <1>1, <3>3, <3>4
  <2>6. QED BY <2>2, <2>3, <2>4, <2>5 DEF ReadInv
<1>13. CASE ~(digit.more /\ digits' < MaxDigits)
  <2>1. Sized(value') BY <1>2, <1>13
  <2>2. /\ left' = value' /\ pc' \in {"drain", "body", "handle"}
        /\ pc' \in {"drain", "body"} => value' > 0
    BY <1>9, <2>1, SizedStep
  <2>3. ReadTypes'
    BY <1>1, <1>3, <1>4, <1>9, <1>10, <1>11, <2>2 DEF ReadInv, ReadTypes
  <2>4. Following' BY <1>1, FollowingKept DEF ReadInv
  <2>5. CutOff' BY <1>1, <1>3, <2>2 DEF CutOff
  <2>6. OnTrack'
    <3>1. CASE interrupted BY <1>3, <3>1, Interrupted
    <3>2. CASE ~interrupted
      <4>1. PICK k \in DOMAIN sent : HandledUpTo(k - 1) /\ AtDigit(k)
        BY <1>1, <3>2 DEF ReadInv, OnTrack
      <4>2. /\ buf = {sent[k].from + 1} /\ value' = Remaining[sent[k].pkt]
            /\ taken' = sent[k].from + HeaderLen(value')
        BY <1>1, <1>2, <1>3, <1>13, <4>1, DigitFound
      <4>3. QED BY <1>1, <2>1, <4>1, <4>2, LengthRead
    <3>3. QED BY <3>1, <3>2
  <2>7. QED BY <2>3, <2>4, <2>5, <2>6 DEF ReadInv
<1>14. QED BY <1>12, <1>13

\* A length that is given up leaves an interrupted reader.
LEMMA DigitFailsStep ==
  ASSUME ReadInv, DigitFails
  PROVE  ReadInv'
<1>1. /\ pc = "length" /\ (TimesOut(1) \/ Ends(1)) /\ Sized(value)
      /\ UNCHANGED <<sent, arrived, closed, buf, digits, value, multiplier, handled>>
      /\ UNCHANGED broker
  BY DEF DigitFails, broker, number
<1>2. /\ taken' \in Nat /\ taken' <= arrived' /\ interrupted' = TRUE /\ timeouts' \in Nat
      /\ timeouts' = 0 => timeouts = 0 /\ closed' /\ taken' = arrived'
  BY <1>1, GivenUp
<1>3. value \in Nat BY DEF ReadInv, ReadTypes
<1>4. /\ left' = value /\ pc' \in {"drain", "body", "handle"}
      /\ pc' \in {"drain", "body"} => value > 0
  BY <1>1, <1>3, SizedStep
<1>5. ReadTypes' BY <1>1, <1>2, <1>3, <1>4 DEF ReadInv, ReadTypes
<1>6. Following' BY <1>1, FollowingKept DEF ReadInv
<1>7. CutOff' BY <1>1, <1>2, <1>4, NoneBroken DEF CutOff
<1>8. QED BY <1>2, <1>5, <1>6, <1>7, Interrupted DEF ReadInv

\* The rest of a packet goes into the buffer behind its header, up to its end.
LEMMA ReadBodyStep ==
  ASSUME ReadInv, ReadBody
  PROVE  ReadInv'
<1>1. /\ pc = "body" /\ Gets(value) /\ pc' = "handle" /\ buf' = buf \cup (taken + 1)..taken'
      /\ UNCHANGED <<sent, arrived, closed, digits, value, multiplier, left, handled>>
      /\ UNCHANGED broker
  BY DEF ReadBody, broker, number
<1>2. value \in Nat /\ value > 0 /\ taken \in Nat
  BY <1>1 DEF ReadInv, ReadTypes, CutOff
<1>3. /\ taken' = taken + value /\ taken' \in Nat /\ taken' <= arrived
      /\ timeouts' = timeouts /\ interrupted' = interrupted
      /\ timeouts = 0 => ~interrupted /\ \A i \in DOMAIN handled : handled[i].nr # 0
  BY <1>1, <1>2, NotCutOff
<1>4. ReadTypes'
  <2>1. (taken + 1)..taken' \subseteq Nat BY <1>2, <1>3
  <2>2. buf' \subseteq Nat BY <1>1, <2>1 DEF ReadInv, ReadTypes
  <2>3. QED BY <1>1, <1>3, <2>2 DEF ReadInv, ReadTypes
<1>5. Following' BY <1>1, FollowingKept DEF ReadInv
<1>6. CutOff' BY <1>1, <1>3 DEF CutOff
<1>7. OnTrack'
  <2>1. SUFFICES ASSUME ~interrupted
                 PROVE  \E k \in DOMAIN sent' : HandledUpTo(k - 1)' /\ AtEnd(k)'
    BY <1>1, <1>3 DEF OnTrack, InStep
  <2>2. PICK k \in DOMAIN sent : HandledUpTo(k - 1) /\ AtBody(k)
    BY <1>1, <2>1 DEF ReadInv, OnTrack
  <2>3. /\ sent[k].pkt \in Incoming /\ sent[k].from \in Nat
        /\ EndOf(k) = sent[k].from + PacketLen(sent[k].pkt)
    BY SentPacket DEF ReadInv
  <2>4. /\ buf = {sent[k].from + 1} /\ value = Remaining[sent[k].pkt] /\ ReadFits(k)
        /\ taken = sent[k].from + HeaderLen(value)
    BY <2>2 DEF AtBody
  <2>5. HeaderLen(value) \in 2..5 /\ PacketLen(sent[k].pkt) = HeaderLen(value) + value
    BY <2>3, <2>4, PacketBytes
  <2>6. taken' = EndOf(k) BY <1>2, <1>3, <2>3, <2>4, <2>5
  <2>7. Body(k) = (taken + 1)..taken' BY <2>4, <2>6 DEF Body
  <2>8. buf' = {sent[k].from + 1} \cup Body(k) BY <1>1, <2>4, <2>7
  <2>9. AtEnd(k)' BY <1>1, <2>4, <2>6, <2>8, SameStream DEF AtEnd, Whole
  <2>10. HandledUpTo(k - 1)' BY <1>1, <2>2, SameHandled
  <2>11. QED BY <1>1, <2>9, <2>10
<1>8. QED BY <1>4, <1>5, <1>6, <1>7 DEF ReadInv

\* A body that is given up is not handled.
LEMMA BodyFailsStep ==
  ASSUME ReadInv, BodyFails
  PROVE  ReadInv'
<1>1. /\ pc = "body" /\ (TimesOut(value) \/ Ends(value)) /\ pc' = "header"
      /\ UNCHANGED <<sent, arrived, closed, buf, digits, value, multiplier, left, handled>>
      /\ UNCHANGED broker
  BY DEF BodyFails, broker, number
<1>2. value \in Nat BY DEF ReadInv, ReadTypes
<1>3. /\ taken' \in Nat /\ taken' <= arrived' /\ interrupted' = TRUE /\ timeouts' \in Nat
      /\ timeouts' = 0 => timeouts = 0 /\ closed' /\ taken' = arrived'
  BY <1>1, <1>2, GivenUp
<1>4. ReadTypes' BY <1>1, <1>3 DEF ReadInv, ReadTypes
<1>5. Following' BY <1>1, FollowingKept DEF ReadInv
<1>6. CutOff' BY <1>1, <1>3, NoneBroken DEF CutOff
<1>7. QED BY <1>3, <1>4, <1>5, <1>6, Interrupted DEF ReadInv

(* The drain asks for something, and for no more than is left.              *)
LEMMA AskedFor ==
  ASSUME ReadInv, pc = "drain"
  PROVE  left \in Nat /\ left > 0 /\ Asked \in Nat /\ Asked > 0 /\ Asked <= left
<1>1. left \in Nat /\ left > 0 BY DEF ReadInv, ReadTypes, CutOff
<1>2. ReadBufSize \in Nat /\ ReadBufSize > 0 BY ReadAssumption DEF MaxDigits
<1>3. QED BY <1>1, <1>2 DEF Asked

\* Each read of the drain takes part of what is left, the last one up to the end of the packet.
LEMMA DrainStep ==
  ASSUME ReadInv, Drain
  PROVE  ReadInv'
<1>1. /\ pc = "drain" /\ Gets(Asked) /\ left' = left - Asked
      /\ pc' = IF left - Asked > 0 THEN "drain" ELSE "header"
      /\ UNCHANGED <<sent, arrived, closed, buf, digits, value, multiplier, handled>>
      /\ UNCHANGED broker
  BY DEF Drain, DrainTo, broker, number
<1>2. left \in Nat /\ left > 0 /\ Asked \in Nat /\ Asked > 0 /\ Asked <= left
  BY <1>1, AskedFor
<1>3. /\ taken' = taken + Asked /\ taken' \in Nat /\ taken' <= arrived
      /\ timeouts' = timeouts /\ interrupted' = interrupted
      /\ timeouts = 0 => ~interrupted /\ \A i \in DOMAIN handled : handled[i].nr # 0
  BY <1>1, <1>2, NotCutOff
<1>4. left' \in Nat /\ left' <= left /\ (pc' = "drain" <=> left' > 0) /\ (pc' = "header" <=> left' = 0)
  BY <1>1, <1>2
<1>5. ReadTypes' BY <1>1, <1>3, <1>4 DEF ReadInv, ReadTypes
<1>6. Following' BY <1>1, FollowingKept DEF ReadInv
<1>7. CutOff' BY <1>1, <1>3, <1>4 DEF CutOff
<1>8. OnTrack'
  <2>1. CASE interrupted BY <1>3, <2>1, Interrupted
  <2>2. CASE ~interrupted
    <3>1. PICK k \in DOMAIN sent : HandledUpTo(k - 1) /\ AtRest(k)
      BY <1>1, <2>2 DEF ReadInv, OnTrack
    <3>2. /\ k \in Nat /\ k > 0 /\ k <= Len(sent) /\ Len(sent) \in Nat
          /\ sent[k].pkt \in Incoming /\ EndOf(k) \in Nat
      BY SentPacket DEF ReadInv
    <3>3. /\ ~ReadFits(k) /\ left <= Remaining[sent[k].pkt] /\ taken = EndOf(k) - left
          /\ Remaining[sent[k].pkt] \in Nat
      BY <3>1, <3>2, PacketBytes DEF AtRest
    <3>4. taken' = EndOf(k) - left'
      <4>1. taken \in Nat BY DEF ReadInv, ReadTypes
      <4> HIDE DEF Asked
      <4>2. QED BY <1>1, <1>2, <1>3, <3>2, <3>3, <4>1
    <3>5. CASE pc' = "drain"
      <4>1. AtRest(k)'
        <5>1. left' <= Remaining[sent[k].pkt] BY <1>2, <1>4, <3>3
        <5>2. QED BY <1>1, <3>3, <3>4, <5>1, SameStream DEF AtRest
      <4>2. HandledUpTo(k - 1)' BY <1>1, <3>1, SameHandled
      <4>3. QED BY <1>1, <3>5, <4>1, <4>2 DEF OnTrack, InStep
    <3>6. CASE pc' = "header"
      <4>1. taken' = EndOf(k) BY <1>4, <3>2, <3>4, <3>6
      <4>2. HandledUpTo(k)
        <5>1. {i \in 1..k : ReadFits(i)} = {i \in 1..(k - 1) : ReadFits(i)}
          <6>1. \A i : i \in 1..k <=> i \in 1..(k - 1) \/ i = k BY <3>2
          <6>2. QED BY <3>3, <6>1
        <5>2. QED BY <3>1, <5>1 DEF HandledUpTo
      <4>3. (taken = EndOf(k) /\ HandledUpTo(k))' BY <1>1, <4>1, <4>2, SameStream, SameHandled
      <4>4. k \in 0..Len(sent') BY <1>1, <3>2
      <4>5. QED BY <3>6, <4>3, <4>4 DEF OnTrack, InStep
    <3>7. QED BY <1>1, <3>5, <3>6
  <2>3. QED BY <2>1, <2>2
<1>9. QED BY <1>5, <1>6, <1>7, <1>8 DEF ReadInv

\* A drain that times out miscounts, and is an interrupted reader.
LEMMA DrainTimesOutStep ==
  ASSUME ReadInv, DrainTimesOut
  PROVE  ReadInv'
<1>1. /\ pc = "drain" /\ TimesOut(Asked) /\ left' = left + 1
      /\ pc' = IF left + 1 > 0 THEN "drain" ELSE "header"
      /\ UNCHANGED <<sent, arrived, closed, buf, digits, value, multiplier, handled>>
      /\ UNCHANGED broker
  BY DEF DrainTimesOut, DrainTo, broker, number
<1>2. left \in Nat /\ Asked \in Nat BY <1>1, AskedFor
<1>3. /\ taken' \in Nat /\ taken' <= arrived' /\ interrupted' = TRUE /\ timeouts' \in Nat
      /\ timeouts' = 0 => timeouts = 0 /\ closed' /\ taken' = arrived'
  BY <1>1, <1>2, GivenUp
<1>4. left' \in Nat /\ left' > 0 /\ pc' = "drain" BY <1>1, <1>2
<1>5. ReadTypes' BY <1>1, <1>3, <1>4 DEF ReadInv, ReadTypes
<1>6. Following' BY <1>1, FollowingKept DEF ReadInv
<1>7. CutOff' BY <1>1, <1>3, <1>4, NoneBroken DEF CutOff
<1>8. QED BY <1>3, <1>5, <1>6, <1>7, Interrupted DEF ReadInv

\* A drain comes to the end of a closed connection.
LEMMA DrainEndsStep ==
  ASSUME ReadInv, DrainEnds
  PROVE  ReadInv'
<1>1. /\ pc = "drain" /\ Ends(Asked)
      /\ IF taken = arrived THEN pc' = "header" /\ left' = left
         ELSE DrainTo(left - (arrived - taken))
      /\ UNCHANGED <<sent, arrived, closed, buf, digits, value, multiplier, handled>>
      /\ UNCHANGED broker
  BY DEF DrainEnds, broker, number
<1>2. left \in Nat /\ Asked \in Nat /\ Asked <= left /\ left > 0 BY <1>1, AskedFor
<1>3. /\ taken' \in Nat /\ taken' <= arrived' /\ interrupted' = TRUE /\ timeouts' \in Nat
      /\ timeouts' = 0 => timeouts = 0 /\ closed' /\ taken' = arrived'
  BY <1>1, <1>2, GivenUp
<1>4. left' \in Nat /\ pc' \in {"drain", "header"} /\ (pc' = "drain" => left' > 0)
  <2>1. /\ taken \in Nat /\ arrived \in Nat /\ arrived < taken + Asked /\ taken <= arrived
    BY <1>1 DEF Ends, ReadInv, ReadTypes
  <2>2. CASE taken = arrived BY <1>1, <1>2, <2>2
  <2>3. CASE taken # arrived BY <1>1, <1>2, <2>1, <2>3 DEF DrainTo
  <2>4. QED BY <2>2, <2>3
<1>5. ReadTypes' BY <1>1, <1>3, <1>4 DEF ReadInv, ReadTypes
<1>6. Following' BY <1>1, FollowingKept DEF ReadInv
<1>7. CutOff' BY <1>1, <1>3, <1>4, NoneBroken DEF CutOff
<1>8. QED BY <1>3, <1>5, <1>6, <1>7, Interrupted DEF ReadInv

(* What is in the buffer is one packet at most.                             *)
LEMMA WholeIsOne ==
  ASSUME ReadTypes, Following, NEW j \in DOMAIN sent, NEW k \in DOMAIN sent, Whole(j), Whole(k)
  PROVE  j = k
<1>1. \A i \in {j, k} :
        /\ i \in 1..Len(sent) /\ Len(sent) \in Nat
        /\ sent[i].from \in Nat /\ EndOf(i) \in Nat
        /\ sent[i].from = EndOf(i - 1) /\ sent[i].from + 1 < EndOf(i)
        /\ \A b \in Body(i) : b > sent[i].from + 1
  <2>1. SUFFICES ASSUME NEW i \in DOMAIN sent PROVE
        /\ i \in 1..Len(sent) /\ Len(sent) \in Nat
        /\ sent[i].from \in Nat /\ EndOf(i) \in Nat
        /\ sent[i].from = EndOf(i - 1) /\ sent[i].from + 1 < EndOf(i)
        /\ \A b \in Body(i) : b > sent[i].from + 1
    OBVIOUS
  <2>2. sent[i].pkt \in Incoming /\ sent[i].from \in Nat BY SentPacket
  <2>3. HeaderLen(Remaining[sent[i].pkt]) \in 2..5 BY <2>2, PacketBytes
  <2>4. \A b \in Body(i) : b > sent[i].from + 1 BY <2>2, <2>3 DEF Body
  <2>5. QED BY <2>2, <2>4, SentPacket
<1>2. {sent[j].from + 1} \cup Body(j) = {sent[k].from + 1} \cup Body(k) BY DEF Whole
<1>3. sent[j].from = sent[k].from
  <2>1. PICK x, y \in Nat : x = sent[j].from /\ y = sent[k].from BY <1>1
  <2>2. x + 1 \in {y + 1} \cup Body(k) /\ y + 1 \in {x + 1} \cup Body(j) BY <1>2, <2>1
  <2>3. (\A b \in Body(k) : b > y + 1) /\ (\A b \in Body(j) : b > x + 1) BY <1>1, <2>1
  <2>4. x + 1 >= y + 1 BY <2>1, <2>2, <2>3
  <2>5. y + 1 >= x + 1 BY <2>1, <2>2, <2>3
  <2>6. QED BY <2>1, <2>4, <2>5
<1>4. \A i, l \in {j, k} : ~(i < l /\ sent[i].from = sent[l].from)
  <2>1. SUFFICES ASSUME NEW i \in {j, k}, NEW l \in {j, k}, i < l, sent[i].from = sent[l].from
                 PROVE  FALSE
    OBVIOUS
  <2>2. i \in 0..Len(sent) /\ l - 1 \in 0..Len(sent) /\ i <= l - 1 BY <1>1, <2>1, SMTT(20)
  <2>3. EndOf(i) <= EndOf(l - 1) BY <2>2 DEF Following
  <2>4. QED BY <1>1, <2>1, <2>3, SMTT(20)
<1>5. QED BY <1>1, <1>3, <1>4

\* What is handled is the packet just read, or, once the connection is cut off, a broken one.
LEMMA HandleStep ==
  ASSUME ReadInv, Handle
  PROVE  ReadInv'
<1>1. /\ pc = "handle" /\ pc' = "header"
      /\ UNCHANGED <<sent, arrived, closed, taken, buf, digits, value, multiplier, left,
                     timeouts, interrupted>>
      /\ UNCHANGED broker
  BY DEF Handle, broker, number, history
<1>2. PICK nr, h \in Nat :
        /\ handled' = Append(handled, [nr |-> nr, handler |-> h])
        /\ (nr \in DOMAIN sent /\ Whole(nr)) \/ (nr = 0 /\ IsBroken)
  <2>1. CASE \E k \in DOMAIN sent : /\ Whole(k) /\ sent[k].pkt \in Publishes
                                    /\ HandledAs(k, MsgHandler(Filters, Topic[sent[k].pkt]))
    <3>1. PICK k \in DOMAIN sent :
            Whole(k) /\ HandledAs(k, MsgHandler(Filters, Topic[sent[k].pkt]))
      BY <2>1
    <3>2. k \in Nat BY SentPacket DEF ReadInv
    <3>3. PICK g \in Nat : g = MsgHandler(Filters, Topic[sent[k].pkt]) BY HandlerInList
    <3>4. handled' = Append(handled, [nr |-> k, handler |-> g]) BY <3>1, <3>3 DEF HandledAs
    <3>5. QED BY <3>1, <3>2, <3>4
  <2>2. CASE \E k \in DOMAIN sent : Whole(k) /\ sent[k].pkt \in Others /\ HandledAs(k, 0)
    <3>1. PICK k \in DOMAIN sent : Whole(k) /\ HandledAs(k, 0) BY <2>2
    <3>2. k \in Nat BY SentPacket DEF ReadInv
    <3>3. handled' = Append(handled, [nr |-> k, handler |-> 0]) BY <3>1 DEF HandledAs
    <3>4. QED BY <3>1, <3>2, <3>3
  <2>3. CASE IsBroken /\ HandledAs(0, 0) BY <2>3 DEF HandledAs
  <2>4. QED BY <2>1, <2>2, <2>3 DEF Handle
<1> DEFINE Entry == [nr : Nat, handler : Nat]
           new == [nr |-> nr, handler |-> h]
<1> PICK n : n = Len(handled) OBVIOUS
<1>3. handled \in Seq(Entry) /\ n \in Nat /\ DOMAIN handled = 1..n /\ new \in Entry
  BY <1>2, LenProperties DEF ReadInv, ReadTypes
<1>4. /\ handled' \in Seq(Entry) /\ Len(handled') = n + 1 /\ DOMAIN handled' = 1..(n + 1)
      /\ handled'[n + 1] = new /\ \A i \in 1..n : handled'[i] = handled[i]
  <2>1. handled' = Append(handled, new) BY <1>2
  <2> HIDE DEF new, Entry
  <2>2. QED BY <1>3, <2>1, AppendProperties, LenProperties
<1>5. handled'[n + 1].nr = nr BY <1>4
<1>6. ReadTypes' BY <1>1, <1>4 DEF ReadInv, ReadTypes
<1>7. Following' BY <1>1, FollowingKept DEF ReadInv
<1>8. ASSUME ~interrupted PROVE nr \in DOMAIN sent /\ HandledUpTo(nr)' /\ taken = EndOf(nr)
  <2>1. PICK k \in DOMAIN sent : HandledUpTo(k - 1) /\ AtEnd(k)
    BY <1>1, <1>8 DEF ReadInv, OnTrack
  <2>2. Whole(k) /\ ReadFits(k) /\ taken = EndOf(k) BY <2>1 DEF AtEnd
  <2>3. nr = k BY <1>2, <2>2, WholeIsOne DEF IsBroken, ReadInv
  <2>4. k \in Nat /\ k > 0 BY SentPacket DEF ReadInv
  <2>5. {handled'[i].nr : i \in DOMAIN handled'} = {handled[i].nr : i \in DOMAIN handled} \cup {k}
    <3> HIDE DEF new
    <3>1. \A i : i \in 1..(n + 1) <=> i \in 1..n \/ i = n + 1 BY <1>3
    <3>2. QED BY <1>3, <1>4, <1>5, <2>3, <3>1
  <2>6. {i \in 1..k : ReadFits(i)} = {i \in 1..(k - 1) : ReadFits(i)} \cup {k}
    <3>1. \A i : i \in 1..k <=> i \in 1..(k - 1) \/ i = k BY <2>4
    <3>2. QED BY <2>2, <3>1
  <2>7. {handled[i].nr : i \in DOMAIN handled} = {i \in 1..(k - 1) : ReadFits(i)}
    BY <2>1 DEF HandledUpTo
  <2>8. ASSUME NEW i \in DOMAIN handled', NEW j \in DOMAIN handled', i < j
        PROVE  handled'[i].nr < handled'[j].nr
    <3>1. i \in 1..(n + 1) /\ j \in 1..(n + 1) BY <1>4
    <3>2. CASE j \in 1..n
      <4>1. i \in 1..n BY <1>3, <2>8, <3>1, <3>2
      <4>2. handled[i].nr < handled[j].nr BY <1>3, <2>1, <2>8, <3>2, <4>1 DEF HandledUpTo
      <4>3. QED BY <1>4, <3>2, <4>1, <4>2
    <3>3. CASE j = n + 1
      <4>1. i \in 1..n BY <1>3, <2>8, <3>1, <3>3
      <4>2. handled[i].nr \in 1..(k - 1) BY <1>3, <2>7, <4>1
      <4>3. handled'[i].nr \in 1..(k - 1) BY <1>4, <4>1, <4>2
      <4>4. QED BY <1>5, <2>3, <2>4, <3>3, <4>3
    <3>4. QED BY <1>3, <3>1, <3>2, <3>3
  <2>9. HandledUpTo(k)'
    <3>1. {i \in 1..k : ReadFits(i)}' = {i \in 1..k : ReadFits(i)} BY <1>1, SameStream
    <3>2. QED BY <2>5, <2>6, <2>7, <2>8, <3>1 DEF HandledUpTo
  <2>10. QED BY <2>2, <2>3, <2>9
<1>9. OnTrack'
  <2>1. CASE interrupted BY <1>1, <2>1, Interrupted
  <2>2. CASE ~interrupted
    <3>1. (taken = EndOf(nr))' /\ HandledUpTo(nr)' BY <1>1, <1>8, <2>2, SameStream
    <3>2. nr \in 0..Len(sent') BY <1>1, <1>8, <2>2, SentPacket DEF ReadInv
    <3>3. QED BY <1>1, <3>1, <3>2 DEF OnTrack, InStep
  <2>3. QED BY <2>1, <2>2
<1>10. CutOff'
  <2>1. SUFFICES ASSUME timeouts = 0
                 PROVE  /\ interrupted => closed /\ taken = arrived
                        /\ \A i \in DOMAIN handled' : handled'[i].nr = 0 =>
                             interrupted /\ i = Len(handled')
    BY <1>1 DEF CutOff
  <2>2. \A i \in DOMAIN handled : handled[i].nr # 0 BY <1>1, <2>1, NoneBroken
  <2>3. ASSUME NEW i \in DOMAIN handled', handled'[i].nr = 0
        PROVE  interrupted /\ i = Len(handled')
    <3>1. i = n + 1
      <4>1. i \in 1..n \/ i = n + 1 BY <1>3, <1>4
      <4>2. i \in 1..n => handled[i].nr = 0 BY <1>4, <2>3
      <4>3. QED BY <1>3, <2>2, <4>1, <4>2
    <3>2. nr = 0 BY <1>5, <2>3, <3>1
    <3>3. nr \notin DOMAIN sent BY <3>2, SentPacket DEF ReadInv
    <3>4. QED BY <1>4, <1>8, <3>1, <3>3
  <2>4. QED BY <2>1, <2>3 DEF ReadInv, CutOff
<1>11. QED BY <1>6, <1>7, <1>9, <1>10 DEF ReadInv
-----------------------------------------------------------------------------
\* At first nothing was sent, read or handled.
LEMMA ReadInitial == ReadInit => ReadInv
<1> SUFFICES ASSUME ReadInit PROVE ReadInv OBVIOUS
<1>1. /\ sent = <<>> /\ arrived = 0 /\ closed = FALSE /\ taken = 0 /\ pc = "header"
      /\ buf = {} /\ digits = 0 /\ value = 0 /\ multiplier = 1 /\ left = 0
      /\ handled = <<>> /\ timeouts = 0 /\ interrupted = FALSE
  BY DEF ReadInit
<1>2. Len(sent) = 0 /\ DOMAIN sent = {} /\ DOMAIN handled = {} BY <1>1
<1>3. EndOf(0) = 0 BY DEF EndOf
<1>4. ReadTypes
  <2>1. sent \in Seq(Place) /\ handled \in Seq([nr : Nat, handler : Nat]) BY <1>1
  <2>2. buf \subseteq Nat /\ digits \in 0..MaxDigits BY <1>1 DEF MaxDigits
  <2>3. closed \in BOOLEAN /\ interrupted \in BOOLEAN BY <1>1
  <2>4. pc \in {"header", "length", "body", "handle", "drain"} /\ pc # "length" BY <1>1
  <2>5. /\ arrived \in Nat /\ taken \in Nat /\ taken <= arrived /\ value \in Nat
        /\ multiplier \in Nat /\ left \in Nat /\ timeouts \in Nat
    BY <1>1
  <2>6. QED BY <2>1, <2>2, <2>3, <2>4, <2>5 DEF ReadTypes
<1>5. Following BY <1>1, <1>2, <1>3 DEF Following
<1>6. HandledUpTo(0) BY <1>2 DEF HandledUpTo
<1>7. OnTrack BY <1>1, <1>2, <1>3, <1>6 DEF OnTrack, InStep
<1>8. CutOff BY <1>1, <1>2 DEF CutOff
<1>9. QED BY <1>4, <1>5, <1>7, <1>8 DEF ReadInv

\* The invariant of the read buffer is about its variables alone.
LEMMA ReadUnchanged ==
  ASSUME ReadInv, UNCHANGED readVars
  PROVE  ReadInv'
<1>1. UNCHANGED <<sent, arrived, closed, taken, pc, buf, digits, value, multiplier, left,
                  handled, timeouts, interrupted>>
  BY DEF readVars, broker, number, history
<1>2. ReadTypes' BY <1>1 DEF ReadInv, ReadTypes
<1>3. Following' BY <1>1, FollowingKept DEF ReadInv, broker
<1>4. Len(sent) \in Nat /\ DOMAIN sent = 1..Len(sent) BY LenProperties DEF ReadInv, ReadTypes
<1>5. OnTrack' BY <1>1, <1>4, BrokerKeeps DEF number
<1>6. CutOff' BY <1>1 DEF ReadInv, CutOff
<1>7. QED BY <1>2, <1>3, <1>5, <1>6 DEF ReadInv

\* Every step of the reader and of the broker keeps the invariant.
LEMMA ReadStep == ReadInv /\ [ReadNext]_readVars => ReadInv'
<1> SUFFICES ASSUME ReadInv, [ReadNext]_readVars PROVE ReadInv' OBVIOUS
<1>1. CASE BrokerCloses BY <1>1, BrokerClosesStep
<1>2. CASE \E p \in Incoming : BrokerSends(p) BY <1>2, BrokerSendsStep
<1>3. CASE ReadHeader BY <1>3, ReadHeaderStep
<1>4. CASE ReadDigit BY <1>4, ReadDigitStep
<1>5. CASE DigitFails BY <1>5, DigitFailsStep
<1>6. CASE ReadBody BY <1>6, ReadBodyStep
<1>7. CASE BodyFails BY <1>7, BodyFailsStep
<1>8. CASE Drain BY <1>8, DrainStep
<1>9. CASE DrainTimesOut BY <1>9, DrainTimesOutStep
<1>10. CASE DrainEnds BY <1>10, DrainEndsStep
<1>11. CASE Handle BY <1>11, HandleStep
<1>12. CASE UNCHANGED readVars BY <1>12, ReadUnchanged
<1>13. QED
  BY <1>1, <1>2, <1>3, <1>4, <1>5, <1>6, <1>7, <1>8, <1>9, <1>10, <1>11, <1>12
  DEF ReadNext, Read

\* The invariant of the read buffer.
LEMMA ReadInvariant == ReadSpec => []ReadInv
<1>1. ReadInit => ReadInv BY ReadInitial
<1>2. ReadInv /\ [ReadNext]_readVars => ReadInv' BY ReadStep
<1>3. QED BY <1>1, <1>2, PTL DEF ReadSpec

(* Whatever the lengths of the packets, the base of their digits and the    *)
(* size of the buffer, the reader does not lose its place between two       *)
(* packets unless a read was given up inside one; until then it has handled *)
(* each packet that fits, once and in order (mqtt_read_packet).             *)
THEOREM ReaderInStep == ReadSpec => []InStep
<1>1. ReadInv => InStep BY DEF ReadInv, OnTrack
<1>2. QED BY <1>1, ReadInvariant, PTL

(* A connection that ends inside a packet, without a timeout, makes the     *)
(* client handle one broken packet at most, after all others.               *)
THEOREM BrokenComesLast == ReadSpec => []BrokenIsLast
<1>1. ReadInv => BrokenIsLast BY DEF ReadInv, CutOff, BrokenIsLast
<1>2. QED BY <1>1, ReadInvariant, PTL

(* Every reachable state of the reader is typed, and it never takes more    *)
(* than has come (mqtt_read_packet, mqtt_packet_drain).                     *)
THEOREM ReaderTyped == ReadSpec => []ReadTypes
<1>1. ReadInv => ReadTypes BY DEF ReadInv
<1>2. QED BY <1>1, ReadInvariant, PTL
-----------------------------------------------------------------------------
(* The search for a handler: mqtt_topic_is_matched() goes through a filter  *)
(* and a topic character by character, what a filter stands for is said of  *)
(* their levels.                                                            *)

\* What holds at a, and next to every place where it holds, holds up to b.
LEMMA UpTo ==
  ASSUME NEW a \in Nat, NEW b \in Nat, NEW S, a \in S,
         \A k \in a..b : k \in S /\ k < b => k + 1 \in S
  PROVE  \A k \in a..b : k \in S
<1> DEFINE Not == {k \in a..b : k \notin S}
<1>1. SUFFICES ASSUME Not # {} PROVE FALSE OBVIOUS
<1>2. Not \subseteq Nat OBVIOUS
<1> HIDE DEF Not
<1>3. PICK n \in Not : \A m \in Not : n <= m BY <1>1, <1>2, Least
<1> USE DEF Not
<1>4. n \in a..b /\ n \notin S /\ n # a /\ n - 1 \in a..b /\ n - 1 < n BY <1>3
<1>5. n - 1 \in S
  <2>1. n - 1 \notin Not
    <3>1. n - 1 \in Not => n <= n - 1 BY <1>3
    <3>2. QED BY <1>4, <3>1
  <2>2. QED BY <1>4, <2>1
<1>6. (n - 1) + 1 \in S
  <2>1. n - 1 < b BY <1>4
  <2>2. QED BY <1>4, <1>5, <2>1
<1>7. QED BY <1>4, <1>6

\* What a loop goes through in n rounds from d, where step[i] is the i-th one.
Runs(D, d, step, n) ==
  {g \in [0..n -> D] : g[0] = d /\ \A i \in 1..n : g[i] = step[i][g[i - 1]]}

\* A loop of K rounds goes through something.
LEMMA Rounds ==
  ASSUME NEW D, NEW K \in Nat, NEW d \in D, NEW step \in [1..K -> [D -> D]]
  PROVE  Runs(D, d, step, K) # {}
<1> DEFINE S == {n \in 0..K : Runs(D, d, step, n) # {}}
<1> USE DEF Runs
<1>1. 0 \in S
  <2>1. [i \in 0..0 |-> d] \in Runs(D, d, step, 0) OBVIOUS
  <2>2. QED BY <2>1
<1>2. ASSUME NEW n \in 0..K, n \in S, n < K PROVE n + 1 \in S
  <2>1. PICK g : g \in Runs(D, d, step, n) BY <1>2
  <2>2. g \in [0..n -> D] /\ g[0] = d /\ \A i \in 1..n : g[i] = step[i][g[i - 1]] BY <2>1
  <2>3. n \in Nat /\ n + 1 \in 1..K /\ n \in 0..n BY <1>2
  <2>4. g[n] \in D BY <2>2, <2>3
  <2>5. PICK e \in D : e = step[n + 1][g[n]] BY <2>3, <2>4
  <2> DEFINE h == [i \in 0..(n + 1) |-> IF i = n + 1 THEN e ELSE g[i]]
  <2>6. h \in [0..(n + 1) -> D] BY <2>2, <2>3
  <2>7. h[0] = d BY <2>2, <2>3
  <2>8. ASSUME NEW i \in 1..(n + 1) PROVE h[i] = step[i][h[i - 1]]
    <3>1. CASE i = n + 1
      <4>1. h[i] = e /\ h[i - 1] = g[n] BY <3>1, <2>3
      <4>2. QED BY <4>1, <2>5, <3>1
    <3>2. CASE i # n + 1
      <4>1. i \in 1..n /\ i - 1 \in 0..n BY <2>3, <2>8, <3>2
      <4>2. h[i] = g[i] /\ h[i - 1] = g[i - 1] BY <2>3, <4>1
      <4>3. QED BY <4>1, <4>2, <2>2
    <3>3. QED BY <3>1, <3>2
  <2>9. h \in Runs(D, d, step, n + 1) BY <2>6, <2>7, <2>8
  <2>10. n + 1 \in 0..K BY <2>3
  <2>11. QED BY <2>9, <2>10
<1> HIDE DEF S
<1>3. \A k \in 0..K : k \in S BY <1>1, <1>2, UpTo
<1>4. K \in S BY <1>3
<1>5. QED BY <1>4 DEF S

\* The end of a level is the next slash, or what is behind the string.
LEMMA LevelEnds ==
  ASSUME NEW s, Len(s) \in Nat, NEW n \in Nat
  PROVE  /\ LevelEnd(s, n) \in Nat /\ LevelEnd(s, n) <= Len(s) + 1
         /\ LevelEnd(s, n) = Len(s) + 1 \/ (LevelEnd(s, n) \in n..Len(s) /\ s[LevelEnd(s, n)] = "/")
         /\ \A i \in n..(LevelEnd(s, n) - 1) : i \in 1..Len(s) => s[i] # "/"
<1> DEFINE S == {i \in n..Len(s) : s[i] = "/"} \cup {Len(s) + 1}
<1>1. S \subseteq Nat /\ S # {} OBVIOUS
<1>2. PICK e \in S : \A m \in S : e <= m BY <1>1, Least
<1>3. LevelEnd(s, n) \in S /\ \A m \in S : LevelEnd(s, n) <= m
  BY <1>2 DEF LevelEnd, Min
<1>4. PICK x : x = LevelEnd(s, n) OBVIOUS
<1>5. x \in S /\ \A m \in S : x <= m BY <1>3, <1>4
<1>6. x \in Nat /\ x <= Len(s) + 1 BY <1>5
<1>7. x = Len(s) + 1 \/ (x \in n..Len(s) /\ s[x] = "/") BY <1>5
<1>8. ASSUME NEW i \in n..(x - 1), i \in 1..Len(s) PROVE s[i] # "/"
  BY <1>5, <1>6, <1>8
<1>9. QED BY <1>4, <1>6, <1>7, <1>8

\* What the loop of mqtt_topic_is_matched() does with each character.
LEMMA Walking ==
  ASSUME NEW filter \in Seq(STRING), NEW topic \in Seq(STRING)
  PROVE  /\ Curn(filter, topic) \in [0..Len(filter) -> Nat]
         /\ Curn(filter, topic)[0] = 1
         /\ \A f \in 1..Len(filter) :
              Curn(filter, topic)[f] = Round(filter[f], topic, Curn(filter, topic)[f - 1])
<1> DEFINE step == [f \in 1..Len(filter) |-> [n \in Nat |-> Round(filter[f], topic, n)]]
<1> DEFINE Loop(g) == [f \in 0..Len(filter) |->
                         IF f = 0 THEN 1 ELSE Round(filter[f], topic, g[f - 1])]
<1>1. Len(filter) \in Nat /\ Len(topic) \in Nat BY LenProperties
<1>2. ASSUME NEW f \in 1..Len(filter), NEW n \in Nat PROVE Round(filter[f], topic, n) \in Nat
  <2>1. LevelEnd(topic, n) \in Nat BY <1>1, LevelEnds
  <2>2. QED BY <1>1, <2>1 DEF Round
<1>3. step \in [1..Len(filter) -> [Nat -> Nat]] BY <1>2
<1>4. \A f \in 1..Len(filter) : \A n \in Nat : step[f][n] = Round(filter[f], topic, n) OBVIOUS
<1> HIDE DEF step
<1>5. PICK g \in [0..Len(filter) -> Nat] :
        g[0] = 1 /\ \A f \in 1..Len(filter) : g[f] = step[f][g[f - 1]]
  <2>1. Runs(Nat, 1, step, Len(filter)) # {} BY <1>1, <1>3, Rounds
  <2>2. QED BY <2>1 DEF Runs
<1>6. \A f \in 1..Len(filter) : g[f] = Round(filter[f], topic, g[f - 1])
  <2>1. \A f \in 1..Len(filter) : g[f - 1] \in Nat BY <1>1, <1>5
  <2>2. QED BY <1>4, <1>5, <2>1
<1>7. g = Loop(g)
  <2>1. \A f \in 0..Len(filter) : g[f] = Loop(g)[f]
    <3>1. \A f \in 0..Len(filter) : f = 0 \/ f \in 1..Len(filter) BY <1>1
    <3>2. QED BY <1>5, <1>6, <3>1
  <2>2. QED BY <1>5, <2>1
<1>8. Curn(filter, topic) = Loop(Curn(filter, topic)) BY <1>7 DEF Curn
<1> DEFINE c == Curn(filter, topic)
<1>9. DOMAIN c = 0..Len(filter) BY <1>8
<1>10. c[0] = 1 BY <1>1, <1>8
<1>11. \A f \in 1..Len(filter) : c[f] = Round(filter[f], topic, c[f - 1]) BY <1>1, <1>8
<1> HIDE DEF c
<1>12. \A f \in 0..Len(filter) : c[f] \in Nat
  <2> DEFINE S == {f \in 0..Len(filter) : c[f] \in Nat}
  <2>1. 0 \in S BY <1>1, <1>10
  <2>2. ASSUME NEW f \in 0..Len(filter), f \in S, f < Len(filter) PROVE f + 1 \in S
    <3>1. f + 1 \in 1..Len(filter) /\ (f + 1) - 1 = f BY <1>1, <2>2
    <3>2. c[f + 1] = Round(filter[f + 1], topic, c[f]) BY <1>11, <3>1
    <3>3. c[f + 1] \in Nat BY <1>2, <2>2, <3>1, <3>2
    <3>4. QED BY <1>1, <3>1, <3>3
  <2> HIDE DEF S
  <2>3. \A f \in 0..Len(filter) : f \in S BY <1>1, <2>1, <2>2, UpTo
  <2>4. QED BY <2>3 DEF S
<1>13. c = [f \in 0..Len(filter) |-> c[f]]
  <2>1. c = Loop(c) BY <1>8 DEF c
  <2>2. QED BY <2>1, <1>9
<1>14. c \in [0..Len(filter) -> Nat] BY <1>12, <1>13
<1>15. QED BY <1>10, <1>11, <1>14 DEF c

\* s is cut into m levels, from one slash to the next.
Cut(s, m, start, end) ==
  /\ start[1] = 1 /\ end[m] = Len(s) + 1
  /\ \A k \in 1..m : /\ start[k] \in 1..end[k] /\ end[k] \in 1..(Len(s) + 1)
                     /\ end[k] = LevelEnd(s, start[k])
                     /\ \A i \in start[k]..(end[k] - 1) : s[i] # "/"
  /\ \A k \in 1..(m - 1) : end[k] <= Len(s) /\ s[end[k]] = "/" /\ start[k + 1] = end[k] + 1

\* The recursion of LevelStart.
LEMMA Starts ==
  ASSUME NEW s, Len(s) \in Nat, NEW m \in Nat, m > 0, NumLevels(s) = m
  PROVE  /\ LevelStart(s) \in [1..m -> Nat] /\ LevelStart(s)[1] = 1
         /\ \A k \in 1..(m - 1) : LevelStart(s)[k + 1] = LevelEnd(s, LevelStart(s)[k]) + 1
<1> DEFINE step == [k \in 1..(m - 1) |-> [n \in Nat |-> LevelEnd(s, n) + 1]]
<1> DEFINE Loop(g) == [k \in 1..m |-> IF k = 1 THEN 1 ELSE LevelEnd(s, g[k - 1]) + 1]
<1>1. \A n \in Nat : LevelEnd(s, n) + 1 \in Nat BY LevelEnds
<1>2. m - 1 \in Nat /\ step \in [1..(m - 1) -> [Nat -> Nat]] BY <1>1
<1>3. \A k \in 1..(m - 1), n \in Nat : step[k][n] = LevelEnd(s, n) + 1 OBVIOUS
<1> HIDE DEF step
<1>4. PICK g \in [0..(m - 1) -> Nat] :
        g[0] = 1 /\ \A k \in 1..(m - 1) : g[k] = step[k][g[k - 1]]
  <2>1. Runs(Nat, 1, step, m - 1) # {} BY <1>2, Rounds
  <2>2. QED BY <2>1 DEF Runs
<1> DEFINE h == [k \in 1..m |-> g[k - 1]]
<1>5. \A k \in 1..m : h[k] = g[k - 1] /\ h[k] \in Nat BY <1>4
<1>6. h = Loop(h)
  <2>1. ASSUME NEW k \in 1..m PROVE h[k] = Loop(h)[k]
    <3>1. CASE k = 1 BY <3>1, <1>4, <1>5
    <3>2. CASE k # 1
      <4>1. k - 1 \in 1..(m - 1) /\ k - 1 \in 1..m BY <3>2
      <4>2. g[k - 1] = step[k - 1][g[(k - 1) - 1]] /\ h[k - 1] = g[(k - 1) - 1] BY <1>4, <1>5, <4>1
      <4>3. g[k - 1] = LevelEnd(s, h[k - 1]) + 1 BY <1>3, <1>5, <4>1, <4>2
      <4>4. QED BY <1>5, <3>2, <4>3
    <3>3. QED BY <3>1, <3>2
  <2>2. QED BY <2>1
<1>7. LevelStart(s) = Loop(LevelStart(s)) BY <1>6 DEF LevelStart
<1> HIDE DEF h
<1> DEFINE c == LevelStart(s)
<1>8. c[1] = 1 BY <1>7
<1>9. ASSUME NEW k \in 1..(m - 1) PROVE c[k + 1] = LevelEnd(s, c[k]) + 1
  <2>1. k + 1 \in 1..m /\ k + 1 # 1 /\ (k + 1) - 1 = k OBVIOUS
  <2>2. c[k + 1] = LevelEnd(s, c[(k + 1) - 1]) + 1 BY <1>7, <2>1
  <2>3. QED BY <2>1, <2>2
<1>10. c = [k \in 1..m |-> c[k]] BY <1>7
<1> HIDE DEF c
<1>11. \A k \in 1..m : c[k] \in Nat
  <2> DEFINE S == {k \in 1..m : c[k] \in Nat}
  <2>1. 1 \in S BY <1>8
  <2>2. ASSUME NEW k \in 1..m, k \in S, k < m PROVE k + 1 \in S
    <3>1. k \in 1..(m - 1) /\ k + 1 \in 1..m BY <2>2
    <3>2. c[k] \in Nat BY <2>2
    <3>3. c[k + 1] \in Nat BY <1>1, <1>9, <3>1, <3>2
    <3>4. QED BY <3>1, <3>3
  <2> HIDE DEF S
  <2>3. \A k \in 1..m : k \in S BY <2>1, <2>2, UpTo
  <2>4. QED BY <2>3 DEF S
<1>12. c \in [1..m -> Nat] BY <1>10, <1>11
<1>13. QED BY <1>8, <1>9, <1>12 DEF c

\* Every string is cut into its levels: before each of them are as many
\* slashes as levels.
LEMMA Cutting ==
  ASSUME NEW s \in Seq(STRING)
  PROVE  \E m \in Nat : \E start, end \in [1..m -> Nat] :
           /\ m > 0 /\ Cut(s, m, start, end)
           /\ Levels(s) = [k \in 1..m |-> SubSeq(s, start[k], end[k] - 1)]
<1> DEFINE slashes == {i \in 1..Len(s) : s[i] = "/"}
<1>1. PICK n \in Nat : n = Len(s) BY LenProperties
<1>2. IsFiniteSet(slashes) /\ Cardinality(slashes) \in Nat
  <2>1. IsFiniteSet(1..n) BY <1>1, FS_Interval
  <2>2. slashes \in SUBSET (1..n) BY <1>1
  <2> HIDE DEF slashes
  <2>3. QED BY <2>1, <2>2, FS_Subset, FS_CardinalityType
<1>3. PICK m \in Nat : m = Cardinality(slashes) + 1 /\ m > 0
  <2> HIDE DEF slashes
  <2>1. QED BY <1>2
<1>4. NumLevels(s) = m BY <1>3 DEF NumLevels
<1> DEFINE start == LevelStart(s)
<1> DEFINE end == [k \in 1..m |-> LevelEnd(s, start[k])]
<1>5. /\ start \in [1..m -> Nat] /\ start[1] = 1
      /\ \A k \in 1..(m - 1) : start[k + 1] = LevelEnd(s, start[k]) + 1
  BY <1>1, <1>3, <1>4, Starts
<1> HIDE DEF start
<1> DEFINE Before(k) == {i \in 1..(start[k] - 1) : s[i] = "/"}
<1> DEFINE S == {k \in 1..m : /\ start[k] \in 1..(n + 1) /\ IsFiniteSet(Before(k))
                              /\ Cardinality(Before(k)) = k - 1}
<1>6. 1 \in S
  <2>1. Before(1) = {} BY <1>5
  <2>2. IsFiniteSet(Before(1)) /\ Cardinality(Before(1)) = 1 - 1
    <3> HIDE DEF Before
    <3>1. QED BY <2>1, FS_EmptySet
  <2>3. 1 \in 1..m /\ start[1] \in 1..(n + 1) BY <1>1, <1>3, <1>5
  <2> HIDE DEF Before
  <2>4. QED BY <2>2, <2>3
<1>7. ASSUME NEW k \in 1..m, k \in S
      PROVE  LET e == LevelEnd(s, start[k])
             IN  /\ e \in start[k]..(n + 1) /\ \A i \in start[k]..(e - 1) : s[i] # "/"
                 /\ e = n + 1 => k = m
                 /\ e # n + 1 => /\ s[e] = "/" /\ Before(k) \cup {e} \in SUBSET slashes
                                 /\ IsFiniteSet(Before(k) \cup {e})
                                 /\ Cardinality(Before(k) \cup {e}) = k
  <2>1. PICK b \in 1..(n + 1) : b = start[k] BY <1>7
  <2>2. PICK e : e = LevelEnd(s, b) OBVIOUS
  <2>3. /\ e \in Nat /\ e <= n + 1 /\ (e = n + 1 \/ (e \in b..n /\ s[e] = "/"))
        /\ \A i \in b..(e - 1) : i \in 1..n => s[i] # "/"
    <3>1. b \in Nat /\ Len(s) \in Nat BY <1>1
    <3>2. QED BY <3>1, <1>1, <2>2, LevelEnds
  <2>4. e \in b..(n + 1) /\ \A i \in b..(e - 1) : s[i] # "/" BY <2>1, <2>3
  <2>5. IsFiniteSet(Before(k)) /\ Cardinality(Before(k)) = k - 1 BY <1>7
  <2>6. ASSUME e = n + 1 PROVE k = m
    <3>1. Before(k) = slashes BY <1>1, <2>1, <2>4, <2>6
    <3> HIDE DEF Before, slashes
    <3>2. QED BY <3>1, <2>5, <1>3
  <2>7. ASSUME e # n + 1
        PROVE  /\ s[e] = "/" /\ Before(k) \cup {e} \in SUBSET slashes
               /\ IsFiniteSet(Before(k) \cup {e})
               /\ Cardinality(Before(k) \cup {e}) = k
    <3>1. s[e] = "/" /\ e \in b..n BY <2>3, <2>7
    <3>2. Before(k) \cup {e} \in SUBSET slashes BY <1>1, <2>1, <3>1
    <3>3. e \notin Before(k) BY <2>1, <3>1
    <3>4. /\ IsFiniteSet(Before(k) \cup {e})
          /\ Cardinality(Before(k) \cup {e}) = Cardinality(Before(k)) + 1
      <4> HIDE DEF Before
      <4>1. QED BY <2>5, <3>3, FS_AddElement
    <3>5. QED BY <2>5, <3>1, <3>2, <3>4
  <2>8. QED BY <2>1, <2>2, <2>4, <2>6, <2>7
<1>8. ASSUME NEW k \in 1..m, k \in S, k < m PROVE k + 1 \in S
  <2>1. PICK b \in 1..(n + 1) : b = start[k] BY <1>8
  <2>2. PICK e : e = LevelEnd(s, b) OBVIOUS
  <2>3. /\ e \in b..n /\ s[e] = "/" /\ \A i \in b..(e - 1) : s[i] # "/"
        /\ IsFiniteSet(Before(k) \cup {e}) /\ Cardinality(Before(k) \cup {e}) = k
    <3> HIDE DEF S, Before, slashes
    <3>1. e # n + 1
      <4>1. LevelEnd(s, start[k]) = n + 1 => k = m BY <1>7, <1>8
      <4>2. QED BY <4>1, <1>8, <2>1, <2>2
    <3>2. e \in b..(n + 1) /\ \A i \in b..(e - 1) : s[i] # "/" BY <1>7, <1>8, <2>1, <2>2
    <3>3. s[e] = "/" /\ IsFiniteSet(Before(k) \cup {e}) /\ Cardinality(Before(k) \cup {e}) = k
      BY <3>1, <1>7, <1>8, <2>1, <2>2
    <3>4. QED BY <3>1, <3>2, <3>3, <2>1
  <2>4. k \in 1..(m - 1) /\ k + 1 \in 1..m /\ (k + 1) - 1 = k BY <1>8
  <2>5. start[k + 1] = e + 1 BY <1>5, <2>1, <2>2, <2>4
  <2>6. Before(k + 1) = Before(k) \cup {e} BY <2>1, <2>3, <2>5
  <2>7. start[k + 1] \in 1..(n + 1) BY <2>1, <2>3, <2>5
  <2> HIDE DEF Before
  <2>8. QED BY <2>3, <2>4, <2>6, <2>7
<1>9. \A k \in 1..m : k \in S
  <2> HIDE DEF S
  <2>1. QED BY <1>3, <1>6, <1>8, UpTo
<1>10. end[m] = n + 1
  <2>1. m \in 1..m /\ m \in S
    <3>1. m \in 1..m BY <1>3
    <3>2. QED BY <3>1, <1>9
  <2>2. PICK e : e = LevelEnd(s, start[m]) OBVIOUS
  <2>3. SUFFICES ASSUME e # n + 1 PROVE FALSE BY <2>1, <2>2
  <2>4. Before(m) \cup {e} \in SUBSET slashes /\ Cardinality(Before(m) \cup {e}) = m
    <3> HIDE DEF S, Before, slashes
    <3>1. LevelEnd(s, start[m]) # n + 1 =>
            /\ Before(m) \cup {LevelEnd(s, start[m])} \in SUBSET slashes
            /\ Cardinality(Before(m) \cup {LevelEnd(s, start[m])}) = m
      BY <1>7, <2>1
    <3>2. QED BY <3>1, <2>2, <2>3
  <2> HIDE DEF slashes, Before
  <2>5. m <= Cardinality(slashes) BY <1>2, <2>4, FS_Subset
  <2>6. QED BY <1>2, <1>3, <2>5
<1>11. \A k \in 1..m : /\ start[k] \in Nat /\ start[k] >= 1 /\ end[k] \in start[k]..(n + 1)
                       /\ \A i \in start[k]..(end[k] - 1) : s[i] # "/"
                       /\ k # m => end[k] # n + 1
                       /\ end[k] # n + 1 => s[end[k]] = "/"
  <2>1. ASSUME NEW k \in 1..m
        PROVE  /\ start[k] \in 1..(n + 1) /\ end[k] \in start[k]..(n + 1)
               /\ \A i \in start[k]..(end[k] - 1) : s[i] # "/"
               /\ k # m => end[k] # n + 1
               /\ end[k] # n + 1 => s[end[k]] = "/"
    <3>1. k \in S /\ start[k] \in 1..(n + 1) BY <1>9
    <3>2. end[k] = LevelEnd(s, start[k]) OBVIOUS
    <3> HIDE DEF S, Before, slashes, end
    <3>3. QED BY <1>7, <3>1, <3>2
  <2> HIDE DEF end
  <2>2. QED BY <2>1
<1>12. end \in [1..m -> Nat] BY <1>5, <1>11
<1>13. \A k \in 1..m : end[k] = LevelEnd(s, start[k]) OBVIOUS
<1>14. Levels(s) = [k \in 1..m |-> SubSeq(s, start[k], end[k] - 1)]
  BY <1>4, <1>13 DEF Levels, start
<1> HIDE DEF end, S, Before, slashes
<1>15. Cut(s, m, start, end)
  <2>1. \A k \in 1..m : start[k] \in 1..end[k] /\ end[k] \in 1..(n + 1) BY <1>5, <1>11, <1>12
  <2>2. ASSUME NEW k \in 1..(m - 1)
        PROVE  end[k] <= n /\ s[end[k]] = "/" /\ start[k + 1] = end[k] + 1
    <3>1. k \in 1..m /\ k # m BY <1>3
    <3>2. end[k] \in 1..(n + 1) /\ end[k] # n + 1 /\ s[end[k]] = "/" BY <1>11, <2>1, <3>1
    <3>3. start[k + 1] = end[k] + 1 BY <1>5, <1>13, <3>1
    <3>4. QED BY <3>2, <3>3
  <2>3. QED BY <1>1, <1>5, <1>10, <1>11, <1>13, <2>1, <2>2 DEF Cut
<1>16. QED BY <1>3, <1>5, <1>12, <1>14, <1>15

\* A level of s, from x to the slash at e or the end of s.
Level(s, x, e) ==
  /\ x \in 1..e /\ e \in 1..(Len(s) + 1) /\ e = LevelEnd(s, x)
  /\ \A i \in x..(e - 1) : s[i] # "/"
  /\ e <= Len(s) => s[e] = "/"

\* Two levels have the same text.
Same(s, x, e, t, y, v) == e - x = v - y /\ \A i \in 0..(e - x - 1) : s[x + i] = t[y + i]

\* The pieces of a cut are levels.
LEMMA CutLevel ==
  ASSUME NEW s, Len(s) \in Nat, NEW m \in Nat, NEW start, NEW end, Cut(s, m, start, end),
         NEW k \in 1..m
  PROVE  Level(s, start[k], end[k])
<1>1. end[k] <= Len(s) => s[end[k]] = "/"
  <2>1. k \in 1..(m - 1) \/ k = m OBVIOUS
  <2>2. CASE k = m BY <2>2 DEF Cut
  <2>3. CASE k \in 1..(m - 1) BY <2>3 DEF Cut
  <2>4. QED BY <2>1, <2>2, <2>3
<1>2. QED BY <1>1 DEF Cut, Level

\* A loop that has broken off does not match.
LEMMA Stuck ==
  ASSUME NEW filter \in Seq(STRING), NEW topic \in Seq(STRING),
         NEW f \in 0..Len(filter), Curn(filter, topic)[f] = 0
  PROVE  ~IsMatched(filter, topic)
<1>1. Len(filter) \in Nat /\ Len(topic) \in Nat BY LenProperties
<1> DEFINE c == Curn(filter, topic)
<1> DEFINE S == {g \in f..Len(filter) : c[g] = 0}
<1>2. f \in S BY <1>1
<1>3. ASSUME NEW g \in f..Len(filter), g \in S, g < Len(filter) PROVE g + 1 \in S
  <2>1. g + 1 \in 1..Len(filter) /\ (g + 1) - 1 = g BY <1>1, <1>3
  <2>2. c[g + 1] = Round(filter[g + 1], topic, c[g]) BY <2>1, Walking
  <2>3. c[g] = 0 BY <1>3
  <2>4. c[g + 1] = 0 BY <2>2, <2>3 DEF Round
  <2>5. QED BY <1>1, <2>1, <2>4
<1> HIDE DEF S
<1>4. \A g \in f..Len(filter) : g \in S
  <2>1. f \in Nat BY <1>1
  <2>2. QED BY <1>1, <1>2, <1>3, <2>1, UpTo
<1>5. Len(filter) \in S BY <1>1, <1>4
<1>6. QED BY <1>1, <1>5 DEF S, IsMatched

\* The loop breaks off at a character that does not fit.
LEMMA BreaksOff ==
  ASSUME NEW filter \in Seq(STRING), NEW topic \in Seq(STRING),
         NEW f \in 1..Len(filter), NEW n, Curn(filter, topic)[f - 1] = n,
         n \notin 1..Len(topic) \/ ~CharsFit(filter[f], topic[n])
  PROVE  ~IsMatched(filter, topic)
<1>1. Curn(filter, topic)[f] = 0 BY Walking DEF Round
<1>2. f \in 0..Len(filter) BY LenProperties
<1>3. QED BY <1>1, <1>2, Stuck

\* n characters of the filter are no wildcards and those of the topic.
Alike(filter, topic, f, y, n) ==
  \A i \in 0..(n - 1) : /\ filter[f + 1 + i] = topic[y + i]
                         /\ filter[f + 1 + i] \notin {"+", "#"}

\* Characters that are no wildcards are taken one by one.
LEMMA Literals ==
  ASSUME NEW filter \in Seq(STRING), NEW topic \in Seq(STRING),
         NEW f \in Nat, NEW n \in Nat, NEW y \in Nat, y > 0,
         f + n <= Len(filter), y + n <= Len(topic) + 1, Curn(filter, topic)[f] = y,
         Alike(filter, topic, f, y, n)
  PROVE  Curn(filter, topic)[f + n] = y + n
<1>1. PICK a, b \in Nat : a = Len(filter) /\ b = Len(topic) BY LenProperties
<1> DEFINE c == Curn(filter, topic)
<1> DEFINE S == {i \in 0..n : c[f + i] = y + i}
<1>2. 0 \in S OBVIOUS
<1>3. ASSUME NEW i \in 0..n, i \in S, i < n PROVE i + 1 \in S
  <2>1. PICK g \in 1..a : g = f + 1 + i /\ g - 1 = f + i /\ g = f + (i + 1) BY <1>1, <1>3
  <2>2. PICK z \in 1..b : z = y + i /\ z + 1 = y + (i + 1) BY <1>1, <1>3
  <2>3. c[g - 1] = z BY <1>3, <2>1, <2>2
  <2>4. c[g] = Round(filter[g], topic, z) BY <1>1, <2>1, <2>3, Walking
  <2>5. filter[g] = topic[z] /\ filter[g] \notin {"+", "#"}
    <3>1. i \in 0..(n - 1) BY <1>3
    <3>2. QED BY <2>1, <2>2, <3>1 DEF Alike
  <2>6. c[g] = z + 1 BY <1>1, <2>4, <2>5 DEF Round, CharsFit
  <2>7. i + 1 \in 0..n BY <1>3
  <2>8. QED BY <2>1, <2>2, <2>6, <2>7
<1> HIDE DEF S
<1>4. \A i \in 0..n : i \in S BY <1>2, <1>3, UpTo
<1>5. n \in S BY <1>4
<1>6. QED BY <1>5 DEF S

\* A level without wildcards stands for itself.
LEMMA LiteralLevel ==
  ASSUME NEW filter \in Seq(STRING), NEW topic \in Seq(STRING),
         NEW x \in Nat, NEW e \in Nat, NEW y \in Nat, NEW v \in Nat,
         Level(filter, x, e), Level(topic, y, v), Curn(filter, topic)[x - 1] = y,
         \A i \in x..(e - 1) : filter[i] \notin {"+", "#"}
  PROVE  /\ Same(filter, x, e, topic, y, v) => Curn(filter, topic)[e - 1] = v
         /\ ~Same(filter, x, e, topic, y, v) => ~IsMatched(filter, topic)
<1>1. PICK a, b \in Nat : a = Len(filter) /\ b = Len(topic) BY LenProperties
<1>2. /\ x \in 1..e /\ e \in 1..(a + 1) /\ y \in 1..v /\ v \in 1..(b + 1)
      /\ \A i \in x..(e - 1) : filter[i] # "/" /\ filter[i] \notin {"+", "#"}
      /\ \A i \in y..(v - 1) : topic[i] # "/"
      /\ (e <= a => filter[e] = "/") /\ (v <= b => topic[v] = "/")
  BY <1>1 DEF Level
<1> DEFINE c == Curn(filter, topic)
<1>3. ASSUME NEW n \in Nat, n <= e - x, n <= v - y,
             \A i \in 0..(n - 1) : filter[x + i] = topic[y + i]
      PROVE  c[x + n - 1] = y + n
  <2>1. PICK f \in Nat : f = x - 1 BY <1>2
  <2>2. f + n <= a /\ y + n <= b + 1 /\ y > 0 BY <1>2, <1>3, <2>1
  <2>3. ASSUME NEW i \in 0..(n - 1)
        PROVE  filter[f + 1 + i] = topic[y + i] /\ filter[f + 1 + i] \notin {"+", "#"}
    <3>1. f + 1 + i = x + i /\ x + i \in x..(e - 1) BY <1>2, <1>3, <2>1
    <3>2. QED BY <1>2, <1>3, <3>1
  <2>4. c[f] = y BY <2>1
  <2>5. c[f + n] = y + n
    <3>1. f + n <= Len(filter) /\ y + n <= Len(topic) + 1 /\ y > 0 BY <1>1, <2>2
    <3>2. Alike(filter, topic, f, y, n) BY <2>3 DEF Alike
    <3>3. QED BY <3>1, <3>2, <2>4, <1>3, Literals
  <2>6. f + n = x + n - 1 BY <2>1, <1>2
  <2>7. QED BY <2>5, <2>6
<1>4. ASSUME Same(filter, x, e, topic, y, v) PROVE c[e - 1] = v
  <2>1. PICK n \in Nat : n = e - x /\ n = v - y /\ x + n - 1 = e - 1 /\ y + n = v
    BY <1>2, <1>4 DEF Same
  <2>2. \A i \in 0..(n - 1) : filter[x + i] = topic[y + i] BY <1>4, <2>1 DEF Same
  <2>3. n <= e - x /\ n <= v - y BY <2>1
  <2>4. c[x + n - 1] = y + n
    <3> HIDE DEF c
    <3>1. QED BY <1>3, <2>2, <2>3
  <2>5. QED BY <2>1, <2>4
<1>5. ASSUME ~Same(filter, x, e, topic, y, v) PROVE ~IsMatched(filter, topic)
  <2> DEFINE Stops == {n \in Nat : n = e - x \/ n = v - y
                                   \/ (n < e - x /\ n < v - y /\ filter[x + n] # topic[y + n])}
  <2>1. e - x \in Stops BY <1>2
  <2>2. PICK n \in Stops : \A i \in Stops : n <= i
    <3>1. Stops \subseteq Nat /\ Stops # {} BY <2>1
    <3> HIDE DEF Stops
    <3>2. QED BY <3>1, Least
  <2>3. n \in Nat /\ n <= e - x /\ n <= v - y
    <3>1. v - y \in Stops BY <1>2
    <3>2. n <= e - x /\ n <= v - y BY <2>1, <2>2, <3>1
    <3>3. QED BY <3>2
  <2>4. \A i \in 0..(n - 1) : filter[x + i] = topic[y + i]
    <3>1. SUFFICES ASSUME NEW i \in 0..(n - 1), filter[x + i] # topic[y + i] PROVE FALSE
      OBVIOUS
    <3>2. i \in Stops BY <2>3, <3>1
    <3>3. n <= i BY <2>2, <3>2
    <3>4. QED BY <2>3, <3>1, <3>3
  <2>5. PICK f \in Nat, z \in Nat : f = x + n /\ z = y + n BY <1>2, <2>3
  <2>6. c[f - 1] = z
    <3>1. c[x + n - 1] = y + n BY <1>3, <2>3, <2>4
    <3>2. QED BY <2>5, <3>1
  <2>7. CASE f < e
    <3>1. f \in 1..a /\ f \in x..(e - 1) BY <1>2, <2>3, <2>5, <2>7
    <3>2. z \notin 1..b \/ ~CharsFit(filter[f], topic[z])
      <4>1. CASE z < v
        <5>1. n < e - x /\ n < v - y BY <1>2, <2>3, <2>5, <2>7, <4>1
        <5>2. filter[f] # topic[z] BY <2>2, <2>5, <5>1
        <5>3. filter[f] \notin {"+", "#"} BY <1>2, <3>1
        <5>4. QED BY <5>2, <5>3 DEF CharsFit
      <4>2. CASE z = v
        <5>1. z \notin 1..b \/ topic[z] = "/" BY <1>2, <4>2
        <5>2. filter[f] # "/" BY <1>2, <3>1
        <5>3. QED BY <5>1, <5>2 DEF CharsFit
      <4>3. z <= v BY <1>2, <2>3, <2>5
      <4>4. QED BY <1>2, <2>5, <4>1, <4>2, <4>3
    <3>3. QED BY <1>1, <2>6, <3>1, <3>2, BreaksOff
  <2>8. CASE f = e
    <3>1. z < v
      <4>1. n = e - x BY <1>2, <2>5, <2>8
      <4>2. n # v - y BY <1>5, <2>4, <4>1 DEF Same
      <4>3. QED BY <1>2, <2>3, <2>5, <4>2
    <3>2. z \in 1..b /\ topic[z] # "/" /\ z # b + 1 BY <1>2, <2>3, <2>5, <3>1
    <3>3. CASE e = a + 1
      <4>1. c[a] = z
        <5>1. f - 1 = a BY <1>1, <2>8, <3>3
        <5>2. QED BY <2>6, <5>1
      <4>2. QED BY <1>1, <3>2, <4>1 DEF IsMatched
    <3>4. CASE e # a + 1
      <4>1. f \in 1..a /\ filter[f] = "/" BY <1>2, <2>8, <3>4
      <4>2. ~CharsFit(filter[f], topic[z]) BY <3>2, <4>1 DEF CharsFit
      <4>3. QED BY <1>1, <2>6, <4>1, <4>2, BreaksOff
    <3>5. QED BY <3>3, <3>4
  <2>9. f <= e BY <1>2, <2>3, <2>5
  <2>10. QED BY <1>2, <2>5, <2>7, <2>8, <2>9
<1>6. QED BY <1>4, <1>5

\* A level of the filter matches one of the topic.
LevelMatches(filter, x, e, topic, y, v) ==
  (e = x + 1 /\ filter[x] = "+" /\ y < v) \/ Same(filter, x, e, topic, y, v)

\* What the loop makes of a level that is not '#'.
LEMMA LevelPassed ==
  ASSUME NEW filter \in Seq(STRING), NEW topic \in Seq(STRING),
         NEW x \in Nat, NEW e \in Nat, NEW y \in Nat, NEW v \in Nat,
         Level(filter, x, e), Level(topic, y, v), Curn(filter, topic)[x - 1] = y,
         \A i \in x..(e - 1) : filter[i] # "#" /\ (filter[i] = "+" => e = x + 1)
  PROVE  /\ LevelMatches(filter, x, e, topic, y, v) => Curn(filter, topic)[e - 1] = v
         /\ ~LevelMatches(filter, x, e, topic, y, v) => ~IsMatched(filter, topic)
<1>1. PICK a, b \in Nat : a = Len(filter) /\ b = Len(topic) BY LenProperties
<1>2. /\ x \in 1..e /\ e \in 1..(a + 1) /\ y \in 1..v /\ v \in 1..(b + 1) /\ v = LevelEnd(topic, y)
      /\ \A i \in y..(v - 1) : topic[i] # "/"
      /\ (v <= b => topic[v] = "/")
  BY <1>1 DEF Level
<1>3. CASE e = x + 1 /\ filter[x] = "+"
  <2>1. x \in 1..a /\ e - 1 = x BY <1>2, <1>3
  <2>2. CASE y < v
    <3>1. y \in 1..b /\ topic[y] # "/" BY <1>2, <2>2
    <3>2. CharsFit("+", topic[y]) BY <3>1 DEF CharsFit
    <3>3. Curn(filter, topic)[x] = Round("+", topic, y) BY <1>1, <1>3, <2>1, Walking
    <3>4. Round("+", topic, y) = v BY <1>1, <1>2, <3>1, <3>2 DEF Round
    <3>5. LevelMatches(filter, x, e, topic, y, v) BY <1>3, <2>2 DEF LevelMatches
    <3>6. QED BY <2>1, <3>3, <3>4, <3>5
  <2>3. CASE y = v
    <3>1. ~LevelMatches(filter, x, e, topic, y, v) BY <1>2, <1>3, <2>3 DEF LevelMatches, Same
    <3>2. y \notin 1..b \/ ~CharsFit(filter[x], topic[y]) BY <1>2, <1>3, <2>3 DEF CharsFit
    <3>3. ~IsMatched(filter, topic) BY <1>1, <2>1, <3>2, BreaksOff
    <3>4. QED BY <3>1, <3>3
  <2>4. QED BY <1>2, <2>2, <2>3
<1>4. CASE ~(e = x + 1 /\ filter[x] = "+")
  <2>1. \A i \in x..(e - 1) : filter[i] \notin {"+", "#"} BY <1>2, <1>4
  <2>2. LevelMatches(filter, x, e, topic, y, v) <=> Same(filter, x, e, topic, y, v)
    BY <1>4 DEF LevelMatches
  <2>3. /\ Same(filter, x, e, topic, y, v) => Curn(filter, topic)[e - 1] = v
        /\ ~Same(filter, x, e, topic, y, v) => ~IsMatched(filter, topic)
    BY <2>1, LiteralLevel
  <2>4. QED BY <2>2, <2>3
<1>5. QED BY <1>3, <1>4

\* What it makes of '#'.
LEMMA HashLevel ==
  ASSUME NEW filter \in Seq(STRING), NEW topic \in Seq(STRING),
         NEW x \in Nat, NEW y \in Nat, NEW v \in Nat,
         x \in 1..Len(filter), x = Len(filter), filter[x] = "#",
         Level(topic, y, v), Curn(filter, topic)[x - 1] = y
  PROVE  IsMatched(filter, topic) <=> y < v
<1>1. PICK a, b \in Nat : a = Len(filter) /\ b = Len(topic) BY LenProperties
<1>2. /\ x \in 1..a /\ x = a /\ y \in 1..v /\ v \in 1..(b + 1)
      /\ \A i \in y..(v - 1) : topic[i] # "/"
      /\ (v <= b => topic[v] = "/")
  BY <1>1 DEF Level
<1>3. CASE y < v
  <2>1. y \in 1..b /\ topic[y] # "/" BY <1>2, <1>3
  <2>2. CharsFit("#", topic[y]) BY <2>1 DEF CharsFit
  <2>3. Curn(filter, topic)[x] = Round("#", topic, y) BY <1>1, <1>2, Walking
  <2>4. Round("#", topic, y) = b + 1 BY <1>1, <2>1, <2>2 DEF Round
  <2>5. QED BY <1>1, <1>2, <1>3, <2>3, <2>4 DEF IsMatched
<1>4. CASE y = v
  <2>1. y \notin 1..b \/ ~CharsFit(filter[x], topic[y]) BY <1>2, <1>4 DEF CharsFit
  <2>2. ~IsMatched(filter, topic) BY <1>1, <1>2, <2>1, BreaksOff
  <2>3. QED BY <1>2, <1>4, <2>2
<1>5. QED BY <1>2, <1>3, <1>4

\* And of the slash behind a level.
LEMMA NextLevel ==
  ASSUME NEW filter \in Seq(STRING), NEW topic \in Seq(STRING),
         NEW e \in Nat, NEW v \in Nat, e \in 1..Len(filter), filter[e] = "/",
         v \in 1..(Len(topic) + 1), v <= Len(topic) => topic[v] = "/",
         Curn(filter, topic)[e - 1] = v
  PROVE  /\ v <= Len(topic) => Curn(filter, topic)[e] = v + 1
         /\ v = Len(topic) + 1 => ~IsMatched(filter, topic)
<1>1. PICK a, b \in Nat : a = Len(filter) /\ b = Len(topic) BY LenProperties
<1>2. ASSUME v <= b PROVE Curn(filter, topic)[e] = v + 1
  <2>1. v \in 1..b /\ topic[v] = "/" BY <1>1, <1>2
  <2>2. CharsFit("/", topic[v]) BY <2>1 DEF CharsFit
  <2>3. Curn(filter, topic)[e] = Round("/", topic, v) BY <1>1, Walking
  <2>4. QED BY <1>1, <2>1, <2>2, <2>3 DEF Round
<1>3. ASSUME v = b + 1 PROVE ~IsMatched(filter, topic)
  <2>1. v \notin 1..b BY <1>3
  <2>2. QED BY <1>1, <2>1, BreaksOff
<1>4. QED BY <1>1, <1>2, <1>3

\* A wildcard is a level, and '#' the last one.
WildLevels(s, m, start, end) ==
  \A k \in 1..m : \A i \in start[k]..(end[k] - 1) :
    /\ s[i] \in {"+", "#"} => end[k] = start[k] + 1
    /\ s[i] = "#" => k = m

\* The topic has k levels, and those before it match.
FitBefore(filter, fs, fe, topic, tm, ts, te, k) ==
  /\ k <= tm
  /\ \A j \in 1..(k - 1) : LevelMatches(filter, fs[j], fe[j], topic, ts[j], te[j])

\* The loop reaches the k-th levels of both together, unless they differ before.
LEMMA Abreast ==
  ASSUME NEW filter \in Seq(STRING), NEW topic \in Seq(STRING), NEW fm \in Nat, NEW tm \in Nat,
         fm > 0, tm > 0,
         NEW fs \in [1..fm -> Nat], NEW fe \in [1..fm -> Nat],
         NEW ts \in [1..tm -> Nat], NEW te \in [1..tm -> Nat],
         Cut(filter, fm, fs, fe), Cut(topic, tm, ts, te), WildLevels(filter, fm, fs, fe)
  PROVE  \A k \in 1..fm :
           /\ FitBefore(filter, fs, fe, topic, tm, ts, te, k) =>
                Curn(filter, topic)[fs[k] - 1] = ts[k]
           /\ ~FitBefore(filter, fs, fe, topic, tm, ts, te, k) => ~IsMatched(filter, topic)
<1>1. PICK a, b \in Nat : a = Len(filter) /\ b = Len(topic) BY LenProperties
<1> DEFINE Fit(k) == FitBefore(filter, fs, fe, topic, tm, ts, te, k)
<1> DEFINE Ok(k) == LevelMatches(filter, fs[k], fe[k], topic, ts[k], te[k])
<1> DEFINE c == Curn(filter, topic)
<1> DEFINE S == {k \in 1..fm : /\ Fit(k) => c[fs[k] - 1] = ts[k]
                               /\ ~Fit(k) => ~IsMatched(filter, topic)}
<1>2. ASSUME NEW k \in 1..fm, k < fm PROVE Fit(k + 1) <=> Fit(k) /\ Ok(k) /\ k < tm
  <2>1. \A j : j \in 1..((k + 1) - 1) <=> j \in 1..(k - 1) \/ j = k BY <1>2, SMTT(20)
  <2> HIDE DEF Ok
  <2>2. (\A j \in 1..((k + 1) - 1) : Ok(j)) <=> (\A j \in 1..(k - 1) : Ok(j)) /\ Ok(k) BY <2>1
  <2>3. k + 1 <= tm <=> k <= tm /\ k < tm BY <1>2
  <2>4. (Fit(k) <=> k <= tm /\ \A j \in 1..(k - 1) : Ok(j))
        /\ (Fit(k + 1) <=> k + 1 <= tm /\ \A j \in 1..((k + 1) - 1) : Ok(j))
    BY DEF FitBefore, Ok
  <2>5. QED BY <2>2, <2>3, <2>4
<1>3. 1 \in S
  <2>1. fs[1] = 1 /\ ts[1] = 1 BY DEF Cut
  <2>2. c[0] = 1 BY Walking
  <2>3. c[fs[1] - 1] = ts[1] BY <2>1, <2>2
  <2>4. Fit(1) BY DEF FitBefore
  <2>5. QED BY <2>3, <2>4
<1>4. ASSUME NEW k \in 1..fm, k \in S, k < fm PROVE k + 1 \in S
  <2>1. k + 1 \in 1..fm /\ k \in 1..(fm - 1) BY <1>4
  <2>2. CASE ~Fit(k)
    <3>1. ~IsMatched(filter, topic) /\ ~Fit(k + 1) BY <1>2, <1>4, <2>2
    <3>2. QED BY <2>1, <3>1
  <2>3. CASE Fit(k)
    <3>1. k \in 1..tm BY <2>3 DEF FitBefore
    <3>2. PICK x, e, y, v \in Nat : x = fs[k] /\ e = fe[k] /\ y = ts[k] /\ v = te[k] BY <3>1
    <3>3. Level(filter, x, e) /\ Level(topic, y, v) BY <1>1, <3>1, <3>2, CutLevel
    <3>4. e \in 1..a /\ filter[e] = "/" /\ fs[k + 1] = e + 1 BY <1>1, <2>1, <3>2 DEF Cut
    <3>5. \A i \in x..(e - 1) : filter[i] # "#" /\ (filter[i] = "+" => e = x + 1)
      <4>1. k # fm BY <1>4
      <4>2. QED BY <3>2, <4>1 DEF WildLevels
    <3>6. c[x - 1] = y BY <1>4, <2>3, <3>2
    <3>7. /\ Ok(k) => c[e - 1] = v
          /\ ~Ok(k) => ~IsMatched(filter, topic)
      <4>1. /\ LevelMatches(filter, x, e, topic, y, v) => c[e - 1] = v
            /\ ~LevelMatches(filter, x, e, topic, y, v) => ~IsMatched(filter, topic)
        BY <3>3, <3>5, <3>6, LevelPassed, ZenonT(30)
      <4>2. QED BY <3>2, <4>1
    <3>8. v \in 1..(b + 1) /\ (v <= b => topic[v] = "/") BY <1>1, <3>3 DEF Level
    <3>9. k < tm => v <= b /\ ts[k + 1] = v + 1
      <4>1. k < tm => k \in 1..(tm - 1) BY <3>1
      <4>2. QED BY <1>1, <3>2, <4>1 DEF Cut
    <3>10. k = tm => v = b + 1 BY <1>1, <3>2 DEF Cut
    <3>11. CASE ~Ok(k)
      <4>1. ~Fit(k + 1) /\ ~IsMatched(filter, topic) BY <1>2, <1>4, <3>7, <3>11
      <4>2. QED BY <2>1, <4>1
    <3>12. CASE Ok(k)
      <4>1. c[e - 1] = v BY <3>7, <3>12
      <4>2. /\ v <= b => c[e] = v + 1
            /\ v = b + 1 => ~IsMatched(filter, topic)
        <5>1. /\ e \in 1..Len(filter) /\ v \in 1..(Len(topic) + 1)
              /\ v <= Len(topic) => topic[v] = "/"
          BY <1>1, <3>4, <3>8
        <5>2. /\ v <= Len(topic) => c[e] = v + 1
              /\ v = Len(topic) + 1 => ~IsMatched(filter, topic)
          BY <3>4, <4>1, <5>1, NextLevel, SMTT(20)
        <5>3. QED BY <1>1, <5>2
      <4>3. CASE k < tm
        <5>1. Fit(k + 1) BY <1>2, <1>4, <2>3, <3>12, <4>3
        <5>2. c[fs[k + 1] - 1] = ts[k + 1] BY <3>4, <3>9, <4>2, <4>3
        <5>3. QED BY <2>1, <5>1, <5>2
      <4>4. CASE k = tm
        <5>1. ~Fit(k + 1) /\ ~IsMatched(filter, topic) BY <1>2, <1>4, <3>10, <4>2, <4>4
        <5>2. QED BY <2>1, <5>1
      <4>5. QED BY <3>1, <4>3, <4>4
    <3>13. QED BY <3>11, <3>12
  <2>4. QED BY <2>2, <2>3
<1> HIDE DEF S
<1>5. \A k \in 1..fm : k \in S BY <1>3, <1>4, UpTo
<1>6. QED BY <1>5 DEF S

\* What the filter matches, in terms of the levels of both strings.
LEMMA Matching ==
  ASSUME NEW filter \in Seq(STRING), NEW topic \in Seq(STRING), NEW fm \in Nat, NEW tm \in Nat,
         fm > 0, tm > 0,
         NEW fs \in [1..fm -> Nat], NEW fe \in [1..fm -> Nat],
         NEW ts \in [1..tm -> Nat], NEW te \in [1..tm -> Nat],
         Cut(filter, fm, fs, fe), Cut(topic, tm, ts, te), WildLevels(filter, fm, fs, fe)
  PROVE  IsMatched(filter, topic) <=>
           /\ FitBefore(filter, fs, fe, topic, tm, ts, te, fm)
           /\ IF fe[fm] = fs[fm] + 1 /\ filter[fs[fm]] = "#" THEN ts[fm] < te[fm]
              ELSE tm = fm /\ LevelMatches(filter, fs[fm], fe[fm], topic, ts[fm], te[fm])
<1>1. PICK a, b \in Nat : a = Len(filter) /\ b = Len(topic) BY LenProperties
<1>2. /\ FitBefore(filter, fs, fe, topic, tm, ts, te, fm) =>
           Curn(filter, topic)[fs[fm] - 1] = ts[fm]
      /\ ~FitBefore(filter, fs, fe, topic, tm, ts, te, fm) => ~IsMatched(filter, topic)
  <2>1. \A k \in 1..fm :
           /\ FitBefore(filter, fs, fe, topic, tm, ts, te, k) =>
                Curn(filter, topic)[fs[k] - 1] = ts[k]
           /\ ~FitBefore(filter, fs, fe, topic, tm, ts, te, k) => ~IsMatched(filter, topic)
    BY Abreast
  <2>2. QED BY <2>1
<1>3. SUFFICES ASSUME FitBefore(filter, fs, fe, topic, tm, ts, te, fm)
               PROVE  IsMatched(filter, topic) <=>
                        IF fe[fm] = fs[fm] + 1 /\ filter[fs[fm]] = "#" THEN ts[fm] < te[fm]
                        ELSE tm = fm /\ LevelMatches(filter, fs[fm], fe[fm], topic, ts[fm], te[fm])
  BY <1>2
<1>4. fm \in 1..tm /\ fm \in 1..fm BY <1>3 DEF FitBefore
<1>5. PICK x, e, y, v \in Nat : x = fs[fm] /\ e = fe[fm] /\ y = ts[fm] /\ v = te[fm] BY <1>4
<1>6. Level(filter, x, e) /\ Level(topic, y, v) BY <1>1, <1>4, <1>5, CutLevel
<1>7. e = a + 1 /\ x \in 1..e BY <1>1, <1>4, <1>5 DEF Cut
<1>8. Curn(filter, topic)[x - 1] = y BY <1>2, <1>3, <1>5
<1>9. CASE e = x + 1 /\ filter[x] = "#"
  <2>1. x \in 1..Len(filter) /\ x = Len(filter) BY <1>1, <1>7, <1>9
  <2>2. IsMatched(filter, topic) <=> y < v BY <2>1, <1>6, <1>8, <1>9, HashLevel, SMTT(20)
  <2>3. QED BY <1>5, <1>9, <2>2
<1>10. CASE ~(e = x + 1 /\ filter[x] = "#")
  <2>1. \A i \in x..(e - 1) : filter[i] # "#" /\ (filter[i] = "+" => e = x + 1)
    <3>1. \A i \in x..(e - 1) : filter[i] \in {"+", "#"} => e = x + 1
      BY <1>4, <1>5 DEF WildLevels
    <3>2. \A i \in x..(e - 1) : e = x + 1 => i = x OBVIOUS
    <3>3. QED BY <1>10, <3>1, <3>2
  <2>2. /\ LevelMatches(filter, x, e, topic, y, v) => Curn(filter, topic)[e - 1] = v
        /\ ~LevelMatches(filter, x, e, topic, y, v) => ~IsMatched(filter, topic)
    BY <2>1, <1>6, <1>8, LevelPassed, ZenonT(30)
  <2>3. e - 1 = a BY <1>7
  <2>4. v = b + 1 <=> tm = fm
    <3>1. fm < tm => fm \in 1..(tm - 1) BY <1>4
    <3>2. fm < tm => v <= b BY <1>1, <1>5, <3>1 DEF Cut
    <3>3. tm = fm => v = b + 1 BY <1>1, <1>5 DEF Cut
    <3>4. QED BY <1>4, <3>2, <3>3
  <2>5. IsMatched(filter, topic) <=> Curn(filter, topic)[a] = b + 1 BY <1>1 DEF IsMatched
  <2>6. IsMatched(filter, topic) <=> tm = fm /\ LevelMatches(filter, x, e, topic, y, v)
    <3>1. CASE LevelMatches(filter, x, e, topic, y, v)
      <4>1. Curn(filter, topic)[a] = v BY <2>2, <2>3, <3>1
      <4>2. QED BY <2>4, <2>5, <3>1, <4>1
    <3>2. CASE ~LevelMatches(filter, x, e, topic, y, v) BY <2>2, <3>2
    <3>3. QED BY <3>1, <3>2
  <2>7. QED BY <1>5, <1>10, <2>6
<1>11. QED BY <1>5, <1>9, <1>10

\* w is the text of s from x to before e.
TextOf(w, s, x, e) ==
  x \in 1..e /\ e \in 1..(Len(s) + 1) /\ w = SubSeq(s, x, e - 1)

\* Its characters are those of s.
LEMMA Text ==
  ASSUME NEW s \in Seq(STRING), NEW x \in Nat, NEW e \in Nat, NEW w, TextOf(w, s, x, e)
  PROVE  /\ w \in Seq(STRING) /\ Len(w) = e - x
         /\ \A i \in 0..(e - x - 1) : w[i + 1] = s[x + i]
<1>1. x \in 1..e /\ e \in 1..(Len(s) + 1) /\ w = SubSeq(s, x, e - 1) BY DEF TextOf
<1>2. \A i \in x..(e - 1) : s[i] \in STRING
  <2>1. \A i \in x..(e - 1) : i \in 1..Len(s) BY <1>1, LenProperties
  <2>2. QED BY <2>1, ElementOfSeq
<1>3. x \in Int /\ e - 1 \in Int OBVIOUS
<1>4. /\ w \in Seq(STRING)
      /\ Len(w) = IF x <= e - 1 THEN (e - 1) - x + 1 ELSE 0
      /\ \A i \in 1..((e - 1) - x + 1) : w[i] = s[x + i - 1]
  BY <1>1, <1>2, <1>3, SubSeqProperties
<1>5. ASSUME NEW i \in 0..(e - x - 1) PROVE w[i + 1] = s[x + i]
  <2>1. PICK j \in 1..((e - 1) - x + 1) : j = i + 1 /\ x + j - 1 = x + i OBVIOUS
  <2>2. w[j] = s[x + j - 1] BY <1>4
  <2>3. QED BY <2>1, <2>2
<1>6. Len(w) = e - x BY <1>1, <1>4
<1>7. QED BY <1>4, <1>5, <1>6

\* Every character of s there is one of w.
LEMMA InText ==
  ASSUME NEW s \in Seq(STRING), NEW x \in Nat, NEW e \in Nat, NEW w, TextOf(w, s, x, e),
         NEW i \in x..(e - 1)
  PROVE  /\ \E j \in DOMAIN w : w[j] = s[i]
         /\ Len(w) = 1 => e = x + 1
<1>1. /\ w \in Seq(STRING) /\ Len(w) = e - x
      /\ \A j \in 0..(e - x - 1) : w[j + 1] = s[x + j]
  BY Text
<1>2. DOMAIN w = 1..(e - x) BY <1>1, LenProperties
<1>3. PICK j \in 0..(e - x - 1) : i = x + j /\ j + 1 \in 1..(e - x)
  <2>1. i - x \in 0..(e - x - 1) /\ i = x + (i - x) /\ (i - x) + 1 \in 1..(e - x) OBVIOUS
  <2>2. QED BY <2>1
<1>4. w[j + 1] = s[i] BY <1>1, <1>3
<1>5. Len(w) = 1 => e = x + 1
  <2>1. PICK n : n = Len(w) OBVIOUS
  <2>2. n = e - x BY <1>1, <2>1
  <2>3. n = 1 => e = x + 1 BY <2>2
  <2>4. QED BY <2>1, <2>3
<1>6. QED BY <1>2, <1>3, <1>4, <1>5

\* Two levels have the same text when their characters are the same.
LEMMA SameText ==
  ASSUME NEW s \in Seq(STRING), NEW x \in Nat, NEW e \in Nat, NEW w, TextOf(w, s, x, e),
         NEW t \in Seq(STRING), NEW y \in Nat, NEW v \in Nat, NEW z, TextOf(z, t, y, v)
  PROVE  w = z <=> Same(s, x, e, t, y, v)
<1>1. /\ w \in Seq(STRING) /\ Len(w) = e - x
      /\ \A i \in 0..(e - x - 1) : w[i + 1] = s[x + i]
  BY Text
<1>2. /\ z \in Seq(STRING) /\ Len(z) = v - y
      /\ \A i \in 0..(v - y - 1) : z[i + 1] = t[y + i]
  BY Text
<1>3. ASSUME w = z PROVE Same(s, x, e, t, y, v)
  <2>1. e - x = v - y BY <1>1, <1>2, <1>3
  <2>2. \A i \in 0..(e - x - 1) : s[x + i] = t[y + i] BY <1>1, <1>2, <1>3, <2>1
  <2>3. QED BY <2>1, <2>2 DEF Same
<1>4. ASSUME Same(s, x, e, t, y, v) PROVE w = z
  <2>1. e - x = v - y /\ \A i \in 0..(e - x - 1) : s[x + i] = t[y + i] BY <1>4 DEF Same
  <2>2. Len(w) = Len(z) BY <1>1, <1>2, <2>1
  <2>3. ASSUME NEW j \in 1..Len(w) PROVE w[j] = z[j]
    <3>1. PICK i \in 0..(e - x - 1) : j = i + 1
      <4>1. j - 1 \in 0..(e - x - 1) /\ j = (j - 1) + 1 BY <1>1
      <4>2. QED BY <4>1
    <3>2. QED BY <1>1, <1>2, <2>1, <3>1
  <2>4. QED BY <1>1, <1>2, <2>2, <2>3, SeqEqual
<1>5. QED BY <1>3, <1>4

\* A sequence of one.
LEMMA Single ==
  ASSUME NEW C, NEW c, NEW w \in Seq(C)
  PROVE  w = <<c>> <=> Len(w) = 1 /\ w[1] = c
<1>1. ASSUME Len(w) = 1, w[1] = c PROVE w = <<c>>
  <2>1. c \in C BY <1>1, ElementOfSeq
  <2>2. <<c>> \in Seq(C) /\ Len(<<c>>) = 1 /\ <<c>>[1] = c BY <2>1
  <2>3. \A i \in 1..Len(w) : i = 1 BY <1>1
  <2>4. \A i \in 1..Len(w) : w[i] = <<c>>[i] BY <1>1, <2>2, <2>3
  <2>5. QED BY <1>1, <2>2, <2>4, SeqEqual
<1>2. Len(<<c>>) = 1 /\ <<c>>[1] = c OBVIOUS
<1>3. QED BY <1>1, <1>2

\* A level of one character, and one of none.
LEMMA OneText ==
  ASSUME NEW s \in Seq(STRING), NEW x \in Nat, NEW e \in Nat, NEW w, TextOf(w, s, x, e)
  PROVE  /\ w = <<"#">> <=> e = x + 1 /\ s[x] = "#"
         /\ w = <<"+">> <=> e = x + 1 /\ s[x] = "+"
         /\ w # <<>> <=> x < e
<1>1. /\ w \in Seq(STRING) /\ Len(w) = e - x
      /\ \A i \in 0..(e - x - 1) : w[i + 1] = s[x + i]
  BY Text
<1>2. e = x + 1 => w[1] = s[x]
  <2>1. SUFFICES ASSUME e = x + 1 PROVE w[1] = s[x] OBVIOUS
  <2>2. 0 \in 0..(e - x - 1) /\ 0 + 1 = 1 /\ x + 0 = x BY <2>1
  <2>3. QED BY <1>1, <2>2
<1>3. Len(w) = 1 <=> e = x + 1 BY <1>1
<1>4. ASSUME NEW c PROVE w = <<c>> <=> e = x + 1 /\ s[x] = c
  <2>1. w = <<c>> <=> Len(w) = 1 /\ w[1] = c BY <1>1, Single
  <2>2. QED BY <1>2, <1>3, <2>1
<1>5. w = <<>> <=> Len(w) = 0 BY <1>1, EmptySeq
<1>6. w # <<>> <=> x < e
  <2>1. x \in 1..e BY DEF TextOf
  <2>2. Len(w) = 0 <=> ~(x < e) BY <1>1, <2>1
  <2>3. QED BY <1>5, <2>2
<1>7. w = <<"#">> <=> e = x + 1 /\ s[x] = "#" BY <1>4, Zenon
<1>8. w = <<"+">> <=> e = x + 1 /\ s[x] = "+" BY <1>4, Zenon
<1>9. QED BY <1>6, <1>7, <1>8

\* A level of the filter fits, and a wildcard stands for something there.
Good(f, t) == LevelFits(f, t) /\ (f = <<"+">> => t # <<>>)

\* The texts of the m levels of s.
Texts(F, s, m, start, end) == F = [k \in 1..m |-> SubSeq(s, start[k], end[k] - 1)]

\* They are the texts from one slash to the next.
LEMMA TextOfLevel ==
  ASSUME NEW s, NEW m \in Nat, NEW start, NEW end, NEW F,
         Cut(s, m, start, end), Texts(F, s, m, start, end), NEW k \in 1..m
  PROVE  TextOf(F[k], s, start[k], end[k])
BY DEF Cut, Texts, TextOf

\* What the texts of the levels say of the characters.
Tell(F, filter, fm, fs, fe, T, topic, tm, ts, te) ==
  /\ \A k \in 1..fm : F[k] = <<"#">> <=> fe[k] = fs[k] + 1 /\ filter[fs[k]] = "#"
  /\ \A k \in 1..tm : T[k] # <<>> <=> ts[k] < te[k]
  /\ \A k \in 1..fm : k \in 1..tm =>
       (Good(F[k], T[k]) <=> LevelMatches(filter, fs[k], fe[k], topic, ts[k], te[k]))

\* What the levels are made of, as characters.
LEMMA Telling ==
  ASSUME NEW filter \in Seq(STRING), NEW topic \in Seq(STRING), NEW fm \in Nat, NEW tm \in Nat,
         NEW fs \in [1..fm -> Nat], NEW fe \in [1..fm -> Nat],
         NEW ts \in [1..tm -> Nat], NEW te \in [1..tm -> Nat],
         Cut(filter, fm, fs, fe), Cut(topic, tm, ts, te),
         NEW F, NEW T, Texts(F, filter, fm, fs, fe), Texts(T, topic, tm, ts, te)
  PROVE  Tell(F, filter, fm, fs, fe, T, topic, tm, ts, te)
<1>1. ASSUME NEW k \in 1..fm
      PROVE  /\ F[k] = <<"#">> <=> fe[k] = fs[k] + 1 /\ filter[fs[k]] = "#"
             /\ F[k] = <<"+">> <=> fe[k] = fs[k] + 1 /\ filter[fs[k]] = "+"
  <2>1. fs[k] \in Nat /\ fe[k] \in Nat OBVIOUS
  <2>2. TextOf(F[k], filter, fs[k], fe[k]) BY TextOfLevel
  <2>3. PICK x \in Nat, e \in Nat : x = fs[k] /\ e = fe[k] BY <2>1
  <2>4. PICK w : w = F[k] OBVIOUS
  <2>5. TextOf(w, filter, x, e) BY <2>2, <2>3, <2>4
  <2>6. /\ w = <<"#">> <=> e = x + 1 /\ filter[x] = "#"
        /\ w = <<"+">> <=> e = x + 1 /\ filter[x] = "+"
    BY <2>5, OneText
  <2>7. QED BY <2>3, <2>4, <2>6
<1>2. ASSUME NEW k \in 1..tm PROVE T[k] # <<>> <=> ts[k] < te[k]
  <2>1. ts[k] \in Nat /\ te[k] \in Nat OBVIOUS
  <2>2. TextOf(T[k], topic, ts[k], te[k]) BY TextOfLevel
  <2>3. QED BY <2>1, <2>2, OneText
<1>3. ASSUME NEW k \in 1..fm, k \in 1..tm
      PROVE  Good(F[k], T[k]) <=> LevelMatches(filter, fs[k], fe[k], topic, ts[k], te[k])
  <2>1. PICK x \in Nat, e \in Nat, y \in Nat, v \in Nat :
          x = fs[k] /\ e = fe[k] /\ y = ts[k] /\ v = te[k]
    BY <1>3
  <2>2. TextOf(F[k], filter, x, e) /\ TextOf(T[k], topic, y, v)
    BY <1>3, <2>1, TextOfLevel
  <2>3. F[k] = T[k] <=> Same(filter, x, e, topic, y, v) BY <2>2, SameText
  <2>4. F[k] = <<"+">> <=> e = x + 1 /\ filter[x] = "+" BY <1>1, <2>1
  <2>5. T[k] # <<>> <=> y < v BY <1>2, <1>3, <2>1
  <2>6. <<"+">> # <<>> OBVIOUS
  <2>7. Good(F[k], T[k]) <=> (F[k] = <<"+">> /\ T[k] # <<>>) \/ F[k] = T[k]
    BY <2>6 DEF Good, LevelFits
  <2>8. QED BY <2>1, <2>3, <2>4, <2>5, <2>7 DEF LevelMatches
<1>4. QED BY <1>1, <1>2, <1>3 DEF Tell

\* A filter is matched by the topics it stands for, as long as no wildcard
\* stands for nothing (mqtt_topic_is_matched).
LEMMA MatchedRight ==
  ASSUME NEW filter \in Seq(STRING), NEW topic \in Seq(STRING), IsFilter(filter)
  PROVE  IsMatched(filter, topic) <=> StandsFor(filter, topic) /\ Substantial(filter, topic)
<1>f. PICK fm \in Nat : \E start, end \in [1..fm -> Nat] :
        /\ fm > 0 /\ Cut(filter, fm, start, end)
        /\ Levels(filter) = [k \in 1..fm |-> SubSeq(filter, start[k], end[k] - 1)]
  BY Cutting
<1>1. PICK fs, fe \in [1..fm -> Nat] :
        /\ fm > 0 /\ Cut(filter, fm, fs, fe)
        /\ Levels(filter) = [k \in 1..fm |-> SubSeq(filter, fs[k], fe[k] - 1)]
  BY <1>f
<1>t. PICK tm \in Nat : \E start, end \in [1..tm -> Nat] :
        /\ tm > 0 /\ Cut(topic, tm, start, end)
        /\ Levels(topic) = [k \in 1..tm |-> SubSeq(topic, start[k], end[k] - 1)]
  BY Cutting
<1>2. PICK ts, te \in [1..tm -> Nat] :
        /\ tm > 0 /\ Cut(topic, tm, ts, te)
        /\ Levels(topic) = [k \in 1..tm |-> SubSeq(topic, ts[k], te[k] - 1)]
  BY <1>t
<1>3. PICK F : F = Levels(filter) OBVIOUS
<1>4. PICK T : T = Levels(topic) OBVIOUS
<1>5. Len(F) = fm /\ DOMAIN F = 1..fm BY <1>1, <1>3
<1>6. Len(T) = tm BY <1>2, <1>4
<1>7. Texts(F, filter, fm, fs, fe) BY <1>1, <1>3 DEF Texts
<1>8. Texts(T, topic, tm, ts, te) BY <1>2, <1>4 DEF Texts
<1>9. Tell(F, filter, fm, fs, fe, T, topic, tm, ts, te)
  BY <1>1, <1>2, <1>7, <1>8, Telling
<1>10. WildLevels(filter, fm, fs, fe)
  <2>1. SUFFICES ASSUME NEW k \in 1..fm, NEW i \in fs[k]..(fe[k] - 1)
                 PROVE  /\ filter[i] \in {"+", "#"} => fe[k] = fs[k] + 1
                        /\ filter[i] = "#" => k = fm
    BY DEF WildLevels
  <2>2. fs[k] \in Nat /\ fe[k] \in Nat BY <2>1
  <2>3. TextOf(F[k], filter, fs[k], fe[k]) BY <1>1, <1>7, TextOfLevel
  <2>4. PICK j \in DOMAIN F[k] : F[k][j] = filter[i]
    <3>1. PICK x \in Nat, e \in Nat : x = fs[k] /\ e = fe[k] BY <2>2
    <3>2. PICK w : w = F[k] OBVIOUS
    <3>3. TextOf(w, filter, x, e) /\ i \in x..(e - 1) BY <2>1, <2>3, <3>1, <3>2
    <3>4. \E j \in DOMAIN w : w[j] = filter[i] BY <3>3, InText
    <3>5. QED BY <3>2, <3>4
  <2>5. Len(F[k]) = 1 => fe[k] = fs[k] + 1 BY <2>2, <2>3, InText
  <2>6. /\ F[k][j] \in {"+", "#"} => Len(F[k]) = 1
        /\ F[k][j] = "#" => k = Len(F)
    BY <1>3, <1>5, <2>1, <2>4 DEF IsFilter
  <2>7. QED BY <1>5, <2>4, <2>5, <2>6
<1> DEFINE Hash == F[fm] = <<"#">>
<1> DEFINE Before == \A k \in 1..(fm - 1) : Good(F[k], T[k])
<1>11. IsMatched(filter, topic) <=>
         /\ fm <= tm /\ Before
         /\ IF Hash THEN T[fm] # <<>> ELSE tm = fm /\ Good(F[fm], T[fm])
  <2>1. IsMatched(filter, topic) <=>
           /\ FitBefore(filter, fs, fe, topic, tm, ts, te, fm)
           /\ IF fe[fm] = fs[fm] + 1 /\ filter[fs[fm]] = "#" THEN ts[fm] < te[fm]
              ELSE tm = fm /\ LevelMatches(filter, fs[fm], fe[fm], topic, ts[fm], te[fm])
    BY <1>1, <1>2, <1>10, Matching
  <2>2. CASE fm <= tm
    <3>1. fm \in 1..fm /\ fm \in 1..tm BY <1>1, <2>2
    <3>2. \A k \in 1..(fm - 1) : k \in 1..fm /\ k \in 1..tm BY <2>2
    <3>3. FitBefore(filter, fs, fe, topic, tm, ts, te, fm) <=> Before
      BY <1>9, <2>2, <3>2 DEF FitBefore, Tell
    <3>4. Hash <=> fe[fm] = fs[fm] + 1 /\ filter[fs[fm]] = "#" BY <1>9, <3>1 DEF Tell
    <3>5. T[fm] # <<>> <=> ts[fm] < te[fm] BY <1>9, <3>1 DEF Tell
    <3>6. Good(F[fm], T[fm]) <=> LevelMatches(filter, fs[fm], fe[fm], topic, ts[fm], te[fm])
      BY <1>9, <3>1 DEF Tell
    <3> HIDE DEF Hash, Before
    <3>7. QED BY <2>1, <2>2, <3>3, <3>4, <3>5, <3>6
  <2>3. CASE ~(fm <= tm) BY <2>1, <2>3 DEF FitBefore
  <2>4. QED BY <2>2, <2>3
<1>12. EndsInHash(F) <=> Hash BY <1>5 DEF EndsInHash
<1>13. Fixed(F) = IF Hash THEN fm - 1 ELSE fm BY <1>5, <1>12 DEF Fixed
<1>14. StandsFor(filter, topic) <=>
         /\ IF Hash THEN tm >= fm - 1 ELSE tm = fm
         /\ \A k \in 1..Fixed(F) : LevelFits(F[k], T[k])
  BY <1>3, <1>4, <1>6, <1>12, <1>13 DEF StandsFor
<1>15. Substantial(filter, topic) <=>
         /\ \A k \in 1..Fixed(F) : F[k] = <<"+">> => T[k] # <<>>
         /\ Hash => tm >= fm /\ T[fm] # <<>>
  BY <1>3, <1>4, <1>5, <1>6, <1>12 DEF Substantial
<1>16. StandsFor(filter, topic) /\ Substantial(filter, topic) <=>
         /\ IF Hash THEN tm >= fm - 1 /\ tm >= fm /\ T[fm] # <<>> ELSE tm = fm
         /\ \A k \in 1..Fixed(F) : Good(F[k], T[k])
  BY <1>14, <1>15 DEF Good
<1>17. CASE Hash
  <2>1. (\A k \in 1..Fixed(F) : Good(F[k], T[k])) <=> Before BY <1>13, <1>17
  <2>2. tm >= fm - 1 /\ tm >= fm <=> fm <= tm OBVIOUS
  <2> HIDE DEF Hash, Before
  <2>3. QED BY <1>11, <1>16, <1>17, <2>1, <2>2
<1>18. CASE ~Hash
  <2>1. \A k : k \in 1..fm <=> k \in 1..(fm - 1) \/ k = fm BY <1>1
  <2>2. (\A k \in 1..Fixed(F) : Good(F[k], T[k])) <=> Before /\ Good(F[fm], T[fm])
    BY <1>13, <1>18, <2>1
  <2>3. tm = fm => fm <= tm OBVIOUS
  <2> HIDE DEF Hash, Before
  <2>4. QED BY <1>11, <1>16, <1>18, <2>2, <2>3
<1>19. QED BY <1>17, <1>18

\* A topic filter that is the topic itself stands for it.
LEMMA StandsForItself ==
  ASSUME NEW s \in Seq(STRING)
  PROVE  StandsFor(s, s) /\ Substantial(s, s)
<1>1. PICK m \in Nat : \E start, end \in [1..m -> Nat] :
        /\ m > 0 /\ Cut(s, m, start, end)
        /\ Levels(s) = [k \in 1..m |-> SubSeq(s, start[k], end[k] - 1)]
  BY Cutting
<1>2. PICK F : F = Levels(s) OBVIOUS
<1>3. Len(F) = m /\ m > 0 BY <1>1, <1>2
<1>4. <<"+">> # <<>> /\ <<"#">> # <<>> OBVIOUS
<1>5. Fixed(F) = IF EndsInHash(F) THEN m - 1 ELSE m BY <1>3 DEF Fixed
<1>6. EndsInHash(F) => F[m] = <<"#">> BY <1>3 DEF EndsInHash
<1>7. StandsFor(s, s)
  <2>1. IF EndsInHash(F) THEN Len(F) >= Fixed(F) ELSE Len(F) = Fixed(F) BY <1>3, <1>5
  <2>2. \A k \in 1..Fixed(F) : LevelFits(F[k], F[k]) BY DEF LevelFits
  <2>3. QED BY <1>2, <2>1, <2>2 DEF StandsFor
<1>8. Substantial(s, s)
  <2>1. EndsInHash(F) => Len(F) >= Len(F) /\ F[Len(F)] # <<>>
    <3>1. EndsInHash(F) => F[m] # <<>> BY <1>4, <1>6, Zenon
    <3>2. QED BY <1>3, <3>1
  <2>2. \A k \in 1..Fixed(F) : F[k] = <<"+">> => F[k] # <<>> BY <1>4
  <2>3. QED BY <1>2, <2>1, <2>2 DEF Substantial
<1>9. QED BY <1>7, <1>8

\* The search finds the first handler whose filter stands for the topic.
LEMMA SearchFinds ==
  ASSUME NEW filters \in Seq(Seq(STRING)), \A i \in DOMAIN filters : IsFilter(filters[i]),
         NEW topic \in Seq(STRING)
  PROVE  MsgHandler(filters, topic) = FirstFitting(filters, topic)
<1>1. ASSUME NEW i \in DOMAIN filters
      PROVE  filters[i] = topic \/ IsMatched(filters[i], topic)
               <=> StandsFor(filters[i], topic) /\ Substantial(filters[i], topic)
  <2>1. PICK f \in Seq(STRING) : f = filters[i] /\ IsFilter(f)
    <3>1. i \in 1..Len(filters) BY <1>1, LenProperties
    <3>2. filters[i] \in Seq(STRING) BY <3>1, ElementOfSeq
    <3>3. QED BY <1>1, <3>2
  <2>2. IsMatched(f, topic) <=> StandsFor(f, topic) /\ Substantial(f, topic)
    BY <2>1, MatchedRight
  <2>3. f = topic => StandsFor(f, topic) /\ Substantial(f, topic) BY StandsForItself
  <2>4. QED BY <2>1, <2>2, <2>3
<1>2. {i \in DOMAIN filters : filters[i] = topic \/ IsMatched(filters[i], topic)}
        = {i \in DOMAIN filters :
             StandsFor(filters[i], topic) /\ Substantial(filters[i], topic)}
  BY <1>1
<1>3. QED BY <1>2 DEF MsgHandler, FirstFitting

\* What was handled of the messages went where the search leads.
Called ==
  \A i \in DOMAIN handled :
    handled[i].nr > 0 =>
      /\ handled[i].nr \in DOMAIN sent
      /\ sent[handled[i].nr].pkt \in Publishes =>
           handled[i].handler = MsgHandler(Filters, Topic[sent[handled[i].nr].pkt])

\* It stays so when no more is handled,
LEMMA CalledKept ==
  ASSUME ReadTypes, Called, handled' = handled,
         sent' = sent \/ \E p \in Incoming : sent' = Append(sent, [pkt |-> p, from |-> arrived])
  PROVE  Called'
<1>1. \A k \in DOMAIN sent : k \in DOMAIN sent' /\ sent'[k] = sent[k]
  <2>1. CASE sent' = sent BY <2>1
  <2>2. CASE \E p \in Incoming : sent' = Append(sent, [pkt |-> p, from |-> arrived])
    <3>1. PICK p \in Incoming : sent' = Append(sent, [pkt |-> p, from |-> arrived]) BY <2>2
    <3>2. PICK new : new = [pkt |-> p, from |-> arrived] OBVIOUS
    <3>3. sent \in Seq(Place) /\ new \in Place BY <3>2 DEF ReadTypes, Place
    <3>4. sent' = Append(sent, new) BY <3>1, <3>2
    <3>5. QED BY <3>3, <3>4, AppendProperties, LenProperties
  <2>3. QED BY <2>1, <2>2
<1>2. QED BY <1>1 DEF Called

\* and when one more is.
LEMMA CalledHandle ==
  ASSUME ReadTypes, Called, Handle
  PROVE  Called'
<1>1. sent' = sent BY DEF Handle, broker
<1>2. PICK nr, h :
        /\ handled' = Append(handled, [nr |-> nr, handler |-> h])
        /\ nr > 0 => /\ nr \in DOMAIN sent
                     /\ sent[nr].pkt \in Publishes => h = MsgHandler(Filters, Topic[sent[nr].pkt])
        /\ nr \in Nat /\ h \in Nat
  <2>0. DOMAIN sent \subseteq Nat BY LenProperties DEF ReadTypes
  <2>1. CASE \E k \in DOMAIN sent : /\ Whole(k) /\ sent[k].pkt \in Publishes
                                    /\ HandledAs(k, MsgHandler(Filters, Topic[sent[k].pkt]))
    <3>1. PICK k \in DOMAIN sent : HandledAs(k, MsgHandler(Filters, Topic[sent[k].pkt]))
      BY <2>1
    <3>2. PICK g \in Nat : g = MsgHandler(Filters, Topic[sent[k].pkt]) BY HandlerInList
    <3>3. handled' = Append(handled, [nr |-> k, handler |-> g]) BY <3>1, <3>2 DEF HandledAs
    <3>4. QED BY <2>0, <3>2, <3>3
  <2>2. CASE \E k \in DOMAIN sent : Whole(k) /\ sent[k].pkt \in Others /\ HandledAs(k, 0)
    <3>1. PICK k \in DOMAIN sent : sent[k].pkt \in Others /\ HandledAs(k, 0) BY <2>2
    <3>2. handled' = Append(handled, [nr |-> k, handler |-> 0]) BY <3>1 DEF HandledAs
    <3>3. sent[k].pkt \notin Publishes BY <3>1, ReadAssumption
    <3>4. QED BY <2>0, <3>2, <3>3
  <2>3. CASE IsBroken /\ HandledAs(0, 0)
    <3>1. handled' = Append(handled, [nr |-> 0, handler |-> 0]) BY <2>3 DEF HandledAs
    <3>2. 0 \in Nat /\ ~(0 > 0) OBVIOUS
    <3>3. QED BY <3>1, <3>2, Zenon
  <2>4. QED BY <2>1, <2>2, <2>3 DEF Handle
<1> DEFINE Entry == [nr : Nat, handler : Nat]
<1>3. PICK new, n : new = [nr |-> nr, handler |-> h] /\ n = Len(handled) OBVIOUS
<1>4. handled \in Seq(Entry) /\ n \in Nat /\ DOMAIN handled = 1..n /\ new \in Entry
  BY <1>2, <1>3, LenProperties DEF ReadTypes
<1>5. /\ DOMAIN handled' = 1..(n + 1) /\ handled'[n + 1] = new
      /\ \A i \in 1..n : handled'[i] = handled[i]
  <2>1. handled' = Append(handled, new) BY <1>2, <1>3
  <2> HIDE DEF Entry
  <2>2. QED BY <1>3, <1>4, <2>1, AppendProperties, LenProperties
<1>6. ASSUME NEW i \in DOMAIN handled', handled'[i].nr > 0
      PROVE  /\ handled'[i].nr \in DOMAIN sent
             /\ sent[handled'[i].nr].pkt \in Publishes =>
                  handled'[i].handler = MsgHandler(Filters, Topic[sent[handled'[i].nr].pkt])
  <2>1. i \in 1..n \/ i = n + 1 BY <1>4, <1>5, <1>6
  <2>2. CASE i \in 1..n
    <3>1. handled'[i] = handled[i] /\ i \in DOMAIN handled BY <1>4, <1>5, <2>2
    <3>2. QED BY <1>6, <3>1 DEF Called
  <2>3. CASE i = n + 1
    <3>1. handled'[i].nr = nr /\ handled'[i].handler = h BY <1>3, <1>5, <2>3
    <3>2. QED BY <1>2, <1>6, <3>1
  <2>4. QED BY <2>1, <2>2, <2>3
<1>7. QED BY <1>1, <1>6 DEF Called

(* A message goes to the first handler whose filter stands for its topic,   *)
(* and to none only when there is no such filter: for every list of filters *)
(* that the broker accepts and every topic (mqtt_get_msg_handler,           *)
(* mqtt_topic_is_matched).                                                  *)
THEOREM CallsRight == ReadSpec => []CallsSubscribed
<1>1. ReadInit => Called BY DEF ReadInit, Called
<1>2. ReadTypes /\ Called /\ [ReadNext]_readVars => Called'
  <2>1. SUFFICES ASSUME ReadTypes, Called, [ReadNext]_readVars PROVE Called' OBVIOUS
  <2>2. CASE Handle BY <2>1, <2>2, CalledHandle
  <2>3. ASSUME NEW p \in Incoming, BrokerSends(p) PROVE Called'
    BY <2>1, <2>3, CalledKept DEF BrokerSends
  <2>4. CASE \/ BrokerCloses \/ ReadHeader \/ ReadDigit \/ DigitFails \/ ReadBody \/ BodyFails
             \/ Drain \/ DrainTimesOut \/ DrainEnds \/ UNCHANGED readVars
    <3>1. handled' = handled /\ sent' = sent
      BY <2>4
      DEF BrokerCloses, ReadHeader, ReadDigit, DigitFails, ReadBody, BodyFails, Drain,
          DrainTimesOut, DrainEnds, readVars, broker
    <3>2. QED BY <2>1, <3>1, CalledKept
  <2>5. QED BY <2>1, <2>2, <2>3, <2>4 DEF ReadNext, Read
<1>3. SearchIsRight
  <2>1. SUFFICES ASSUME NEW filters \in HandlerLists, NEW topic \in Topics
                 PROVE  MsgHandler(filters, topic) = FirstFitting(filters, topic)
    BY DEF SearchIsRight
  <2>2. /\ filters \in Seq(Seq(STRING)) /\ topic \in Seq(STRING)
        /\ \A i \in DOMAIN filters : IsFilter(filters[i])
    BY TopicAssumption
  <2>3. QED BY <2>2, SearchFinds
<1>4. \A p \in Publishes : MsgHandler(Filters, Topic[p]) = FirstFitting(Filters, Topic[p])
  <2>1. SUFFICES ASSUME NEW p \in Publishes
                 PROVE  MsgHandler(Filters, Topic[p]) = FirstFitting(Filters, Topic[p])
    OBVIOUS
  <2>2. /\ Filters \in Seq(Seq(STRING)) /\ Topic[p] \in Seq(STRING)
        /\ \A i \in DOMAIN Filters : IsFilter(Filters[i])
    BY TopicAssumption
  <2>3. QED BY <2>2, SearchFinds
<1>5. ReadTypes /\ Called => CallsSubscribed BY <1>3, <1>4 DEF Called, CallsSubscribed
<1>6. QED BY <1>1, <1>2, <1>5, ReaderTyped, PTL DEF ReadSpec
=============================================================================
