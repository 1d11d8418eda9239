------------------------------ MODULE MqttConn ------------------------------
(***************************************************************************)
(* The connection life cycle of mqttclient.c: the client state word, the   *)
(* socket behind c->mqtt_network, the write lock, the yield thread, and    *)
(* the calls mqtt_connect, mqtt_disconnect, mqtt_publish (its overflow     *)
(* path) and mqtt_release, made by one user thread, all interleaved with   *)
(* the yield thread that reads, keeps alive, reconnects and cleans up.     *)
(*                                                                         *)
(* The state word is read without a lock, and each write of it is a step   *)
(* of its own, as in the code.                                             *)
(***************************************************************************)
EXTENDS Naturals

CONSTANTS Budget,       \* how often the user may make each call (bound)
          MaxDrops,     \* connections that may break (bound)
          ShortBuffer,  \* the write buffer cannot hold the CONNECT packet
          Spurious      \* a condition wait may end without a signal

Thread == {"user", "yield"}

\* mqtt_connect() is "connect" until it has succeeded once, "again" after
\* mqtt_disconnect(); "overflow" is mqtt_publish() with a full ack list.
Call == {"connect", "again", "disconnect", "overflow", "release"}

ASSUME ConnAssumption ==
  /\ Budget \in [Call -> Nat] /\ MaxDrops \in Nat
  /\ ShortBuffer \in BOOLEAN /\ Spurious \in BOOLEAN

VARIABLES state,     \* c->mqtt_client_state
          socket,    \* c->mqtt_network->socket: -1, 0 or a descriptor of ours
          link,      \* the peer of that descriptor is there
          leaked,    \* history: an open descriptor was overwritten
          foreign,   \* history: descriptor 0 was written to or closed
          lock,      \* c->mqtt_write_lock: its owner, or "free"
          thread,    \* c->mqtt_thread: NULL, a thread, or freed memory
          ping,      \* c->mqtt_ping_outstanding
          lists,     \* the ack and message handler lists
          connack,   \* thread |-> its connection attempt was accepted
          calls,     \* calls left to the user
          torn,      \* mqtt_release() has destroyed the client
          asked,     \* history: mqtt_disconnect() returned, no connect since
          drops,
          pc         \* where each thread is

net == <<socket, link, leaked, foreign>>
yld == <<thread, ping, lists>>
app == <<calls, torn, asked>>
vars == <<state, net, lock, yld, connack, app, drops, pc>>

Init ==
  /\ state = "INITIALIZED" /\ socket = "zero" /\ link = FALSE
  /\ leaked = FALSE /\ foreign = FALSE
  /\ lock = "free" /\ thread = "null" /\ ping = 0 /\ lists = "live"
  /\ connack = [t \in Thread |-> FALSE]
  /\ calls = Budget /\ torn = FALSE /\ asked = FALSE /\ drops = 0
  /\ pc = [t \in Thread |-> IF t = "user" THEN "idle" ELSE "none"]

At(t, l) == pc[t] = l
Goto(t, l) == pc' = [pc EXCEPT ![t] = l]
Return(t) == Goto(t, IF t = "user" THEN "idle" ELSE "loop")

SetClientState(s) == state' = s

\* network_disconnect(): close(socket), whatever it is, then socket = -1.
NetworkDisconnect ==
  /\ socket' = "none" /\ link' = FALSE
  /\ foreign' = (foreign \/ socket = "zero")
  /\ UNCHANGED leaked

\* network_release(): nothing for -1, else the structure is zeroed after the
\* close, and the socket it names is descriptor 0.
NetworkRelease ==
  IF socket = "none" THEN UNCHANGED net
  ELSE /\ socket' = "zero" /\ link' = FALSE
       /\ foreign' = (foreign \/ socket = "zero")
       /\ UNCHANGED leaked

\* What a write to the socket touches.
Write == foreign' = (foreign \/ socket = "zero") /\ UNCHANGED <<socket, link, leaked>>
-----------------------------------------------------------------------------
(* mqtt_connect_with_results(), run by the user thread or by the yield      *)
(* thread that reconnects.                                                  *)

ConnectAlready(t) ==
  /\ At(t, "connect") /\ state = "CONNECTED"
  /\ Return(t)
  /\ UNCHANGED <<state, net, lock, yld, connack, app, drops>>

\* network_init() forgets the socket there was ...
ConnectInit(t) ==
  /\ At(t, "connect") /\ state # "CONNECTED"
  /\ leaked' = (leaked \/ socket = "open")
  /\ socket' = "none" /\ link' = FALSE
  /\ connack' = [connack EXCEPT ![t] = FALSE]
  /\ Goto(t, "open")
  /\ UNCHANGED <<state, foreign, lock, yld, app, drops>>

\* ... and network_connect() stores a new one, or the -1 that leaves
\* network_release() with nothing to do.
ConnectOpen(t) ==
  /\ At(t, "open")
  /\ leaked' = (leaked \/ socket = "open")
  /\ socket' = "open" /\ link' = TRUE
  /\ Goto(t, "lock")
  /\ UNCHANGED <<state, foreign, lock, yld, connack, app, drops>>

ConnectOpenFails(t) ==
  /\ At(t, "open")
  /\ leaked' = (leaked \/ socket = "open")
  /\ socket' = "none" /\ link' = FALSE
  /\ Return(t)
  /\ UNCHANGED <<state, foreign, lock, yld, connack, app, drops>>

\* The result of network_connect(), success, is what is left in rc when the
\* packet does not fit.
ConnectSend(t) ==
  /\ At(t, "lock") /\ lock = "free"
  /\ lock' = t
  /\ \/ ShortBuffer /\ Goto(t, "accepted") /\ UNCHANGED net
     \/ ~ShortBuffer /\ Goto(t, IF link THEN "wait" ELSE "failed") /\ Write
  /\ UNCHANGED <<state, yld, connack, app, drops>>

\* mqtt_wait_packet(CONNACK): accepted, or refused, late, or another packet.
ConnectAccept(t) ==
  /\ At(t, "wait") /\ link
  /\ connack' = [connack EXCEPT ![t] = TRUE]
  /\ Goto(t, "accepted")
  /\ UNCHANGED <<state, net, lock, yld, app, drops>>

ConnectRefuse(t) ==
  /\ At(t, "wait")
  /\ Goto(t, "failed")
  /\ UNCHANGED <<state, net, lock, yld, connack, app, drops>>

ConnectFailed_KeepsSocket(t) ==
  /\ At(t, "failed")
  /\ SetClientState("INITIALIZED") /\ lock' = "free"
  /\ Return(t)
  /\ UNCHANGED <<net, yld, connack, app, drops>>

ConnectFailed_KeepsLock(t) ==
  /\ At(t, "failed")
  /\ NetworkRelease
  /\ SetClientState("INITIALIZED")
  /\ Return(t)
  /\ UNCHANGED <<lock, yld, connack, app, drops>>

ConnectFailed_GoesOn(t) ==
  /\ At(t, "failed")
  /\ Goto(t, "accepted")
  /\ UNCHANGED <<state, net, lock, yld, connack, app, drops>>

ConnectFailed(t) ==
  /\ At(t, "failed")
  /\ NetworkRelease
  /\ SetClientState("INITIALIZED") /\ lock' = "free"
  /\ Return(t)
  /\ UNCHANGED <<yld, connack, app, drops>>

\* platform_thread_init(): the thread runs before the pointer is stored. Only
\* the user ever finds no thread.
ConnectCreate ==
  /\ At("user", "accepted") /\ thread = "null"
  /\ pc' = [pc EXCEPT !["user"] = "created", !["yield"] = "start"]
  /\ UNCHANGED <<state, net, lock, yld, connack, app, drops>>

\* The thread cannot be created: platform_thread_init() returns NULL (FreeRTOS).
ConnectCreateFails ==
  /\ At("user", "accepted") /\ thread = "null"
  /\ NetworkRelease
  /\ ping' = 0 /\ lock' = "free"
  /\ Goto("user", "idle")
  /\ UNCHANGED <<state, thread, lists, connack, app, drops>>

\* On Linux the freed structure is returned all the same: the client becomes
\* CONNECTED, and no thread runs.
ConnectCreateDangles ==
  /\ At("user", "accepted") /\ thread = "null"
  /\ thread' = "freed"
  /\ Goto("user", "stored")
  /\ UNCHANGED <<state, net, lock, ping, lists, connack, app, drops>>

ConnectStore ==
  /\ At("user", "created")
  /\ thread' = "set"
  /\ Goto("user", "stored")
  /\ UNCHANGED <<state, net, lock, ping, lists, connack, app, drops>>

ConnectSet ==
  /\ At("user", "stored")
  /\ SetClientState("CONNECTED")
  /\ Goto("user", "signal")
  /\ UNCHANGED <<net, lock, yld, connack, app, drops>>

\* platform_thread_start(): a signal nobody waits for is lost.
ConnectSignal ==
  /\ At("user", "signal")
  /\ pc' = [pc EXCEPT !["user"] = "idle",
                      !["yield"] = IF @ = "waiting" THEN "loop" ELSE @]
  /\ ping' = 0 /\ lock' = "free"
  /\ UNCHANGED <<state, net, thread, lists, connack, app, drops>>

\* "reconnect, mqtt thread is already exists"
ConnectAgain(t) ==
  /\ At(t, "accepted") /\ thread # "null"
  /\ SetClientState("CONNECTED")
  /\ ping' = 0 /\ lock' = "free"
  /\ Return(t)
  /\ UNCHANGED <<net, thread, lists, connack, app, drops>>
-----------------------------------------------------------------------------
(* The other calls of the user. *)

Calls(c) == /\ At("user", "idle") /\ ~torn
            /\ calls[c] > 0 /\ calls' = [calls EXCEPT ![c] = @ - 1]

CallConnect ==
  /\ \/ thread = "null" /\ Calls("connect")
     \/ asked /\ Calls("again")
  /\ asked' = FALSE
  /\ Goto("user", "connect")
  /\ UNCHANGED <<state, net, lock, yld, connack, torn, drops>>

\* mqtt_disconnect(), of a client that has been connected: DISCONNECT is sent
\* under the lock ...
CallDisconnect ==
  /\ Calls("disconnect")
  /\ thread # "null" /\ lock = "free"
  /\ Write
  /\ Goto("user", "disconnect")
  /\ UNCHANGED <<state, lock, yld, connack, torn, asked, drops>>

\* ... and the request to clean the session is made after it.
DisconnectSet ==
  /\ At("user", "disconnect")
  /\ SetClientState("CLEAN_SESSION")
  /\ asked' = TRUE
  /\ Goto("user", "idle")
  /\ UNCHANGED <<net, lock, yld, connack, calls, torn, drops>>

\* mqtt_publish() of a connected client whose ack list is full: after the
\* lock is given back the connection is released ...
CallOverflow ==
  /\ Calls("overflow")
  /\ state = "CONNECTED" /\ lock = "free"
  /\ Goto("user", "overflow")
  /\ UNCHANGED <<state, net, lock, yld, connack, torn, asked, drops>>

OverflowRelease ==
  /\ At("user", "overflow")
  /\ NetworkRelease
  /\ Goto("user", "overflow_set")
  /\ UNCHANGED <<state, lock, yld, connack, app, drops>>

\* ... and the state changed, two steps the yield thread may come between.
OverflowSet ==
  /\ At("user", "overflow_set")
  /\ SetClientState("DISCONNECTED")
  /\ Goto("user", "idle")
  /\ UNCHANGED <<net, lock, yld, connack, app, drops>>

CallRelease ==
  /\ Calls("release")
  /\ Goto("user", "release")
  /\ UNCHANGED <<state, net, lock, yld, connack, torn, asked, drops>>

ReleaseDone_NoWait ==
  /\ At("user", "release")
  /\ torn' = TRUE /\ thread' = "null"
  /\ Goto("user", "idle")
  /\ UNCHANGED <<state, net, lock, ping, lists, connack, calls, asked, drops>>

\* mqtt_release() waits for INVALID, then frees and zeroes the client; the
\* zeroed state word reads INITIALIZED.
ReleaseDone ==
  /\ At("user", "release") /\ state = "INVALID"
  /\ torn' = TRUE /\ thread' = "null"
  /\ SetClientState("INITIALIZED")
  /\ Goto("user", "idle")
  /\ UNCHANGED <<net, lock, ping, lists, connack, calls, asked, drops>>

ReleaseTimeout ==
  /\ At("user", "release") /\ state # "INVALID"
  /\ Goto("user", "idle")
  /\ UNCHANGED <<state, net, lock, yld, connack, app, drops>>
-----------------------------------------------------------------------------
(* mqtt_yield_thread(). *)

YieldStart ==
  /\ At("yield", "start")
  /\ Goto("yield", IF state = "CONNECTED" THEN "loop" ELSE "stopping")
  /\ UNCHANGED <<state, net, lock, yld, connack, app, drops>>

\* platform_thread_stop(c->mqtt_thread): a condition wait without a predicate.
YieldStop ==
  /\ At("yield", "stopping") /\ thread # "null"
  /\ Goto("yield", "waiting")
  /\ UNCHANGED <<state, net, lock, yld, connack, app, drops>>

\* The same through the pointer mqtt_connect() has not stored yet: the process
\* dies, and its lock with it.
YieldStopNull ==
  /\ At("yield", "stopping") /\ thread = "null"
  /\ pc' = [t \in Thread |-> "crashed"]
  /\ lock' = "free"
  /\ UNCHANGED <<state, net, yld, connack, app, drops>>

\* Where the platform lets it, pthread_cond_wait() returns without a signal.
YieldWake ==
  /\ Spurious
  /\ At("yield", "waiting")
  /\ Goto("yield", "loop")
  /\ UNCHANGED <<state, net, lock, yld, connack, app, drops>>

YieldReconnect_OnlyDisconnected ==
  /\ At("yield", "loop") /\ state = "DISCONNECTED"
  /\ Goto("yield", "connect")
  /\ UNCHANGED <<state, net, lock, yld, connack, app, drops>>

\* mqtt_yield(): the state decides.
YieldReconnect ==
  /\ At("yield", "loop") /\ state \notin {"CONNECTED", "CLEAN_SESSION"}
  /\ Goto("yield", "connect")
  /\ UNCHANGED <<state, net, lock, yld, connack, app, drops>>

YieldClean ==
  /\ At("yield", "loop") /\ state = "CLEAN_SESSION"
  /\ NetworkDisconnect
  /\ Goto("yield", "clean")
  /\ UNCHANGED <<state, lock, yld, connack, app, drops>>

\* mqtt_packet_handle() with PINGRESP in it.
HandlePingresp ==
  /\ At("yield", "loop") /\ state = "CONNECTED"
  /\ link /\ ping > 0
  /\ ping' = 0
  /\ UNCHANGED <<state, net, lock, thread, lists, connack, app, drops, pc>>

\* mqtt_keep_alive(): a timer has expired.
KeepAlivePing ==
  /\ At("yield", "loop") /\ state = "CONNECTED"
  /\ ping = 0
  /\ ping' = ping + 1
  /\ Write
  /\ UNCHANGED <<state, lock, thread, lists, connack, app, drops, pc>>

KeepAliveRelease ==
  /\ At("yield", "loop") /\ state = "CONNECTED"
  /\ ping > 0
  /\ link => drops < MaxDrops
  /\ drops' = IF link THEN drops + 1 ELSE drops
  /\ NetworkRelease
  /\ Goto("yield", "disconnected")
  /\ UNCHANGED <<state, lock, yld, connack, app>>

KeepAliveSet ==
  /\ At("yield", "disconnected")
  /\ SetClientState("DISCONNECTED")
  /\ Goto("yield", "loop")
  /\ UNCHANGED <<net, lock, yld, connack, app, drops>>

\* mqtt_clean_session(): the lists first, the state last.
CleanLists ==
  /\ At("yield", "clean")
  /\ lists' = "freed"
  /\ Goto("yield", "cleaned")
  /\ UNCHANGED <<state, net, lock, thread, ping, connack, app, drops>>

CleanSet ==
  /\ At("yield", "cleaned")
  /\ SetClientState("INVALID")
  /\ Goto("yield", "exit")
  /\ UNCHANGED <<net, lock, yld, connack, app, drops>>

\* The thread frees its own handle; the pointer keeps its value unless
\* mqtt_release() has zeroed the client meanwhile.
YieldExit ==
  /\ At("yield", "exit")
  /\ thread' = IF thread = "set" THEN "freed" ELSE thread
  /\ Goto("yield", "gone")
  /\ UNCHANGED <<state, net, lock, ping, lists, connack, app, drops>>

\* The network, external.
LinkDown ==
  /\ link /\ drops < MaxDrops
  /\ link' = FALSE
  /\ drops' = drops + 1
  /\ UNCHANGED <<state, socket, leaked, foreign, lock, yld, connack, app, pc>>
-----------------------------------------------------------------------------
Connect(t) == \/ ConnectAlready(t) \/ ConnectInit(t) \/ ConnectOpen(t)
              \/ ConnectOpenFails(t) \/ ConnectSend(t) \/ ConnectAccept(t)
              \/ ConnectRefuse(t) \/ ConnectFailed(t) \/ ConnectAgain(t)

UserCall == CallConnect \/ CallDisconnect \/ CallOverflow \/ CallRelease

UserStep == \/ Connect("user") \/ ConnectCreate \/ ConnectCreateFails \/ ConnectCreateDangles
            \/ ConnectStore \/ ConnectSet \/ ConnectSignal
            \/ DisconnectSet \/ OverflowRelease \/ OverflowSet
            \/ ReleaseDone \/ ReleaseTimeout

YieldStep == \/ Connect("yield") \/ YieldStart \/ YieldStop \/ YieldStopNull
             \/ YieldReconnect \/ YieldClean \/ KeepAlivePing \/ KeepAliveRelease \/ KeepAliveSet
             \/ CleanLists \/ CleanSet \/ YieldExit

Next == \/ UserCall \/ UserStep
        \/ YieldStep \/ YieldWake \/ HandlePingresp \/ LinkDown

Spec == Init /\ [][Next]_vars

\* Both threads run, timers expire, and a server that can be reached now and
\* then accepts now and then; the user need not call.
FairSpec == /\ Spec
            /\ WF_vars(UserStep) /\ WF_vars(YieldStep)
            /\ \A t \in Thread : SF_vars(ConnectOpen(t)) /\ SF_vars(ConnectAccept(t))
-----------------------------------------------------------------------------
\* The places from which the write lock is given back.
Locked == {"wait", "accepted", "failed", "created", "stored", "signal"}
Place == Locked \cup {"idle", "connect", "open", "lock", "disconnect", "overflow",
                      "overflow_set", "release", "none", "start", "stopping",
                      "waiting", "crashed", "loop", "disconnected", "clean",
                      "cleaned", "exit", "gone"}

(* The types; at most one ping is ever outstanding (mqtt_keep_alive).       *)
TypeOK ==
  /\ state \in {"INVALID", "INITIALIZED", "CONNECTED", "DISCONNECTED", "CLEAN_SESSION"}
  /\ socket \in {"none", "zero", "open"} /\ link \in BOOLEAN
  /\ leaked \in BOOLEAN /\ foreign \in BOOLEAN
  /\ lock \in Thread \cup {"free"} /\ thread \in {"null", "set", "freed"}
  /\ ping \in 0..1 /\ lists \in {"live", "freed"}
  /\ connack \in [Thread -> BOOLEAN] /\ calls \in [Call -> Nat]
  /\ torn \in BOOLEAN /\ asked \in BOOLEAN /\ drops \in 0..MaxDrops
  /\ pc \in [Thread -> Place]

(* mqtt_release() destroys a client only when its lists have been freed and *)
(* its connection closed ("wait for the clean session to complete", 1244),  *)
(* unless mqtt_connect() has overlapped the clean up.                       *)
ReleasedIsClean ==
  torn /\ calls["again"] = Budget["again"] => lists = "freed" /\ socket # "open"

(* The write lock belongs to the one thread that is inside the locked part  *)
(* of mqtt_connect(), and every path out of it gives the lock back.         *)
LockMatchesOwner == \A t \in Thread : (lock = t) <=> (pc[t] \in Locked)

(* Keeping alive, losing the connection and reconnecting, over and over,    *)
(* lose no descriptor and touch none that is not the client's: for that to  *)
(* happen the user is inside a call, or has made one that changes the state *)
(* behind the yield thread.                                                 *)
YieldKeepsSockets ==
  [][pc["user"] = "idle" /\ (\A c \in {"again", "disconnect", "overflow"} : calls'[c] = Budget[c])
       => leaked' = leaked /\ foreign' = foreign]_vars

(* The state becomes CONNECTED only when the server accepted ("wait for     *)
(* connection result", mqtt_connect, 1278).                                 *)
ConnectedIsAccepted ==
  [][state # "CONNECTED" /\ state' = "CONNECTED" =>
       \E t \in Thread : pc[t] \in {"accepted", "stored"} /\ connack[t]]_vars

(* A client whose yield thread runs and that has lost its connection is     *)
(* connected again, or asked to stop (mqtt_yield, mqtt_try_reconnect).      *)
Reconnects == state = "DISCONNECTED" /\ pc["yield"] = "loop" ~>
                state \in {"CONNECTED", "CLEAN_SESSION"}

(* mqtt_disconnect() of a client whose yield thread runs leads to a cleaned *)
(* session, for which mqtt_release() waits (1244).                          *)
DisconnectCompletes == asked /\ pc["yield"] = "loop" ~> state = "INVALID"
=============================================================================
