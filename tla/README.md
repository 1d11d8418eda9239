# A TLA+ verification of c_cpp_operate

`c_cpp_operate` is a collection of C and C++ modules for an embedded Linux
board: an MQTT client with its log library, thread demos, shared memory
exchanges, DRM display code and a number of small stand-alone demos. There is
no test suite; what the code is meant to do is said in its comments and in the
READMEs of its directories, and in the protocols it speaks. This directory
holds TLA+ models of the parts that run concurrently or survive failures, the
TLC runs that check them and TLAPS proofs about them. Paths below are relative
to `src/`; `mqttclient.c` is `4_CMake_CROSS_COMPILE/mqttclient/mqttclient.c`.

1. [Inventory](#1-inventory)
2. [Plan](#2-plan)
3. [The modules and the code](#3-the-modules-and-the-code)
4. [The runs: what each checks, and its bounds](#4-the-runs)
5. [Fairness](#5-fairness)
6. [The proofs](#6-the-proofs)
7. [Divergences found](#7-divergences-found)
8. [What the models leave out](#8-what-the-models-leave-out)

## 1. Inventory

### 1.1 MQTT client (`4_CMake_CROSS_COMPILE`)

One *user thread* (any thread that calls the API) and one *yield thread* per
client share an `mqtt_client_t`. The yield thread starts when
`mqtt_connect()` first succeeds and loops in `mqtt_yield()`: it reads a packet,
handles it, keeps the connection alive, scans the list of outstanding acks,
reconnects and resubscribes when the connection is gone, and cleans the client
up when `mqtt_disconnect()` has asked for it.

| part | state | operations | interacts with |
|---|---|---|---|
| sessions | `mqtt_ack_handler_list` (nodes: type, packet id, copy of the packet or handler), its counter, `mqtt_packet_id`, `mqtt_client_state` | `mqtt_publish`, handlers of PUBACK, PUBREC, PUBREL, PUBCOMP, PUBLISH, `mqtt_ack_list_scan` | broker, over TCP; both threads change the list |
| connection | `mqtt_client_state`, `mqtt_network->socket`, `mqtt_write_lock`, `mqtt_thread`, `mqtt_ping_outstanding` | `mqtt_connect`, `mqtt_disconnect`, `mqtt_release`, `mqtt_yield`, `mqtt_keep_alive`, `mqtt_try_reconnect`, `mqtt_clean_session` | `network.c`, `platform_thread.c`, the operating system's descriptors |
| subscriptions | `mqtt_msg_handler_list`, SUBACK and UNSUBACK nodes, each with a pointer to a handler | `mqtt_subscribe`, `mqtt_unsubscribe`, handlers of SUBACK and UNSUBACK, `mqtt_try_resubscribe` | the same ack list and its scan |
| packet codec (`mqtt/`, Eclipse Paho) | none | serialising and parsing | the write and the read buffer of the client |
| network, platform | socket or TLS context; wrappers of pthread, timers, malloc | connect, read, write with a timeout | operating system |
| log (`common/log`) | ring buffer `fifo.c` (counters `in`, `out`, mutex, semaphore), static format buffer | `salof()` by any thread; the log task reads and prints | every part of the client |

Hard behaviour: the threads interleave inside API calls, with `mqtt_write_lock`
around sending only and most lists under no lock; packets are lost with their
connection, repeated after a reconnect and answered late; timers expire while
answers are on the way; the client state is one word which several functions
overwrite; allocation fails in the middle of an operation.

Correct means: a QoS 1 message arrives at least once and a QoS 2 message exactly
once, and neither is forgotten before; every handshake ends; the ack list has
one node per id and type and its counter is right; a lock is always given back;
`CONNECTED` means that the server accepted; a lost connection is restored
without leaking descriptors; `mqtt_release()` destroys only what was cleaned; a
handler has one owner, a topic has one handler, and subscriptions outlive a
reconnect; no log line is torn, lost behind a sleeping task, or blocks its
thread.

### 1.2 Threads (`6_Thread`)

`ThreadPool.h` over `SafeQueue.h`: workers share a queue, a mutex with a
condition variable and a flag `m_shutdown` that no lock protects; `submit()`
enqueues and notifies one, `shutdown()` sets the flag, notifies all and joins.
Hard: lost notifications, a queue tested before it is used, a flag that changes
between its test and the sleep. Correct means that tasks start in order and
once, that every submitted task runs, and that a pool that has been shut down
has no task half done. `thread_message.cpp` and `thread_queue.cpp` are producers and consumers that
wait with a predicate under one mutex; `thread_create.cpp` is sequential.

### 1.3 Shared memory (`10_share_memory`)

POSIX, reader first: a looping reader creates a shared memory object and two
semaphores, each run of a writer leaves a message and waits for the
acknowledgment. POSIX, writer first: the writer creates them. System V: a sender
that waits for nothing and a receiver that clears the segment. Hard: any process may
be killed at any point and started again while names, values of semaphores and old mappings live on; two writers
overlap. Correct means that a reader can always start, that what is
acknowledged was read, that what is read is whole, and that a writer returns.

### 1.4 DRM display (`9_DRM_*`)

`RGA_6_try_ctach` is the latest of several copies. `drm_driver.cc`: the
application hands frames to a show thread through a double buffer, and the
stream's metadata (size, channels, rate, a version flag) without any lock;
`drm_stitch.cc`: several streams scaled into one grid, with a double-checked
configuration; `drm-core.c`: the sequence of libdrm calls. Hard: buffers
swapped while one is written, metadata read while it changes, a destructor that
joins and unmaps. Correct means: no torn frame is shown, the last frame is
shown in the end, a change of the metadata is noticed, nothing is drawn to
an unmapped display, and the destructor returns.

### 1.5 The rest

Path joining, parameter files (JSON and INI), exceptions, spdlog and system
information demos, a wrapper over a binary INI library, and an application of
the MQTT library: sequential and without state between operations. Vendored:
mbedtls, nlohmann/json, inicpp, spdlog, librga's headers, the libdrm examples.

## 2. Plan

In order of importance; *checked* and *proved* are in this directory.

| step | modules | composition and abstraction | status |
|---|---|---|---|
| 1 | `MqttSession` | implements the abstract `MqttDelivery` | checked; refinement and invariants proved |
| 2 | `MqttConn` | opens the sending and connecting that `MqttSession` takes as steps | checked; its safety properties proved |
| 3 | `MqttSubs` | the nodes of the ack list `MqttSession` leaves out | checked; its safety properties proved |
| 4 | `MqttWire` | the write buffer `MqttSession`, `MqttConn` and `MqttSubs` send from in one step | checked; its invariants proved |
| 5 | `MqttRead`, `MqttTopic` | the reading they take as one step, and the search for a handler | checked; the invariants of the reading and of the search proved |
| 6 | `SalofFifo` | | checked; its invariants proved |
| 7 | `ThreadPool` | implements `TaskQueue` | checked; refinement and invariants proved |
| 8 | `FrameBuffer`, `VideoPipeline` | `VideoPipeline` EXTENDS `FrameBuffer`, which implements `LatestFrame` | checked; refinement and invariants proved, of the buffer alone and inside the pipeline |
| 9 | `ShmExchange` | | checked; its invariants proved |
| 10 | variants of `ShmExchange`: writer first, System V | | planned |
| 11 | the stitcher's life cycle and its double-checked configuration; `thread_message`/`thread_queue` | | planned |
| 12 | the layout of CONNECT and SUBSCRIBE packets, of the stitcher's grid | | planned |

Every safety property that a passing run checks is a theorem, some of them under
a condition (section 6). Not done, and next if the project goes on: that the client's two halves fit together where
one module takes a step another opens (the sending and connecting of
`MqttSession` in `MqttWire` and `MqttConn`), and an abstract list of lines that
`SalofFifo` implements.

## 3. The modules and the code

A module that models code is parameterised by CONSTANTS with one named
assumption, and has an `MC...` module with its configurations beside it
(`FrameBuffer` shares that of `VideoPipeline`, `MqttTopic` that of `MqttRead`). Operators whose name ends in `_Something` next to the definition `X` they
are named after (`NodeIsExist_Never`, `ScanTimeout_KeepsHandler`) are faulty variants
of `X`, a dropped guard or a missing reset; nothing uses them, they are the
mutants that show that a property can be broken by such a fault.

**`MqttSession`** - QoS 1 and 2, outgoing and incoming. `acks`, `num`,
`packetId` and `state` are the fields of the client; `user` and `yield` say
where each thread is and what it holds. `mqtt_publish()` is
`PublishCheck` (state and QoS), `PublishSend` or
`PublishSendFails` (write lock, packet id, packet on the wire), `PublishRecord`
(node recorded, success) or `PublishNoMemory` (no memory for the node of a packet
that has gone out), and after that, or on a full list (`PublishTooMuch`),
`PublishRelease` (connection closed, `DISCONNECTED`). The handlers are
`PubackAndPubcompPacketHandle`, `PublishPacketHandle` with the callback in
`PublishPacketDeliver`, `PubrecPacketHandle` and `PubrelPacketHandle` with
`UnrecordAnswered` (the answer is sent, and the node removed afterwards).
`PublishPacketNoMemory` and `PubrecPacketNoMemory` are the handlers whose node
cannot be allocated: the message is delivered all the same, the PUBREL is not sent.
`ScanTimeout` is the scan that resends what is overdue,
`KeepAliveLost` and `KeepAliveSlow` the expiry of the keep-alive,
`TryDoReconnect`, `ScanResend` and `ScanEnd` the reconnect with its
`mqtt_ack_list_scan(c, 0)`. The broker (external) answers as MQTT 3.1.1 asks,
resends after a reconnect, and the link loses everything in flight when it
breaks. **`MqttDelivery`** is what it promises: messages are offered, delivered
(QoS 2 once) and settled only after a delivery. A message that its receiver had no
memory to remember (`unrecorded`, there `forgotten`) may be delivered again; only
those the client receives are `Forgettable`.

**`MqttConn`** - the client state word, the descriptor (`-1`, `0` or one of
ours), the write lock, the pointer `c->mqtt_thread` and the yield thread's life.
`pc` has the place of both threads; each write of the state word is a step.
`mqtt_connect_with_results()` is the `Connect...` actions of either thread;
`ConnectCreate`, `ConnectCreateFails` (NULL is returned, as on FreeRTOS) and
`ConnectCreateDangles` (Linux frees the structure and returns it) are the outcomes of
`platform_thread_init()`;
`CallDisconnect`/`DisconnectSet`, `CallOverflow`/`OverflowRelease`/`OverflowSet`
and `CallRelease`/`ReleaseDone`/`ReleaseTimeout` are the other calls;
`YieldStart` to `YieldExit` the yield thread, with `KeepAlive...`, the reconnect
and the clean-up. `network_release()` and `network_disconnect()` are modelled
with what they really do to the descriptor: one leaves a zeroed structure, whose
socket is descriptor 0, the other closes whatever number is there.

**`MqttSubs`** - `mem` is the heap of message handlers, `installed` the handler
list, `nodes` the SUBACK and UNSUBACK nodes. `Subscribe`/`SubscribeRecord` and
`Unsubscribe`/`UnsubscribeRecord` are the two halves of each call (packet sent, node recorded),
so an ack may come before its node. The memory of a handler and of a node may be
refused at each recording (`CreateAndRecord`, `AckListNoMemory`); `leaked` remembers
the handlers that are lost when the node has none. `SubackPacketHandle`,
`UnsubackPacketHandle` (an uninitialised pointer when there is no node is a
choice between NULL and an address), `ScanTimeout`, `TryDoReconnect`,
`TryResubscribe` and `ScanAll` are the yield thread. `crashed` remembers that
memory was used that is not a handler.

**`MqttWire`** - `wbuf` is the write buffer and `lock` its lock, `job` what each
thread is sending and how much of it the kernel has taken, `nodes` the ack list
with the bytes each node has saved; the broker is a parser (`rx`, `got`,
`garbled`). `mqtt_send_packet()` is `SendByte`, `WriteReturns` and `SendFails`
of either thread, so a write may be short, the rest is sent with the length the
code gives it, and the bytes of two threads mix where no lock keeps them apart.
Around it are `mqtt_publish()` (`Publish`, `PublishDone`), PUBACK, PUBREC and
PUBCOMP (`Answer`), PUBREL, whose node is recorded before it is sent
(`Release`), the resending from a node (`Resend`), the ping without a lock
(`Ping`), and the node of a received QoS 2 message, copied from the buffer after
the lock was given back (`RecordLate`); `PublishNoMemory`, `ReleaseNoMemory` and
`RecordLateNoMemory` are the cases without memory for the node. `faults` remembers which of the three
windows the lock does not cover has been hit.

**`MqttRead`** - a byte is its place in the stream the broker has sent: `sent`
lists the packets with the place each begins after, `arrived` is how far the
stream has come or will come, `taken` how far the client has read. `ReadHeader`,
`ReadDigit` (`mqtt_decode_packet()`, with the digits of any base), `ReadBody`
and `Drain` (`mqtt_packet_drain()`) each ask `network_read()` for a number of
bytes; it gives them all (`Gets`), gives up after a timeout and loses what it had
(`TimesOut`), or returns what there was before the end of the connection
(`Ends`), and the failing variants go on as the code does, which looks at some
of the results only. What is read where a digit should be, but is none, may be
anything. `Handle` is `mqtt_packet_handle()` for a message: `buf`, the places
of the bytes in the read buffer, says which packet it is or that it is
none; the handler is found by **`MqttTopic`**. `Round` is one round of the loop
of `mqtt_topic_is_matched()`, `Curn` where it is in the topic after each
character of the filter, beside what a filter stands for by the
protocol, level by level. (Names that `MqttWire` has too begin with `Read`
here, since one module of proofs is about both buffers.)

**`SalofFifo`** - the counters wrap at `Width`, a byte is the counter value it
was written at. A writer takes the mutex, evaluates the macro `FIFO_MIN` twice
(two steps), copies, adds to `in`, unlocks and posts; the log task waits for
the semaphore and reads without the mutex, evaluating the macro twice as well.

**`ThreadPool`** - the worker's loop step by step (flag, mutex, `empty()`,
`wait`, `dequeue`, call), `submit()` as enqueue and notify, `shutdown()` as
flag, notify all and join. **`TaskQueue`** is the promise: tasks start in order
of submission, once.

**`FrameBuffer`** - `FrameDoubleBuffer`: a frame is a number, a matrix in the
middle of a copy is `Torn`; the reader tests the flag without the mutex, then
again under it, and shows what it was given while the writer goes on.
**`LatestFrame`** is the promise. **`VideoPipeline`** EXTENDS it: the
application in `load_frame()` and the destructor, the show thread in `show_img()`, whose
`WriteFrame`, `ShowRead` and `ShowCopy` are steps of the buffer, with the fields
of the metadata and the version flag written and read one after the other.

**`ShmExchange`** - `name` maps each name to an object, a process keeps the
objects it opened (`rhas`, `has`) even after the name is unlinked or refers to a
newer one. The reader's `init()`, loop and cleanup and the writer's `main()` are
one action per call; `KillReader` and `KillWriter` may come anywhere, SIGINT
sets `exit`. `disturbed` records that an exchange was broken off or overlapped.

## 4. The runs

| run | shows | bounds |
|---|---|---|
| `mqtt_session` | `NodesIdentified`, `AcceptedIsKept`, `NoPublishAfterPubrel`, that the handshakes implement `MqttDelivery` (`DeliverySpec`), `AcceptedIsForwarded` and `AcksDrain`: what is accepted reaches the broker, and the list is empty in the end | one message per direction and QoS, 2 packet ids, 3 list entries, 1 lost connection besides those `mqtt_publish()` closes, any allocation of a node may fail |
| `mqtt_clean_session` | finding: `FirstReceiptProcessed` fails | `CleanSession = TRUE` |
| `mqtt_conn` | `ReleasedIsClean`, `LockMatchesOwner`, `YieldKeepsSockets`, `ConnectedIsAccepted`, `Reconnects` | 2 connects, 1 more after a disconnect, 1 disconnect, 1 overflow, 2 releases, 2 lost connections |
| `mqtt_conn_clean` | finding: `DisconnectCompletes` fails | 1 connect, 1 disconnect |
| `mqtt_subs` | `OneOwner`, `NoOtherLeak`, `OneHandlerPerTopic`, `SubscribeIsSafe`, `HandlersSubscribed` | 2 granted topics and a refused one, 4 handlers, 3 calls, 2 lost connections, any allocation of a handler or a node may fail |
| `mqtt_wire` | `StreamWhole`, `SavedIsOwn`, `AcceptedIsWhole`, `LockReturns` | a PUBLISH with QoS 1 or 2 and one with QoS 0, a PUBREC, a PUBREL and the ping, of 1 to 3 bytes, in a buffer of 4; any node may find no memory |
| `mqtt_read` | `InStep`, `BrokenIsLast`, `CallsSubscribed`, `AllRead` | 2 packets of 4 lengths, binary digits (at most 4), buffer of 6, 1 timeout; topics and filters of up to 4 characters |
| `log_fifo` | `InOrder`, `NothingStranded`, `SalofReturns` | 2 threads of 2 lines of 1 to 3 bytes, buffer of 4, counters that wrap at 8 |
| `pool` | `JoinedIsFinished`, `QueueSpec`, `SubmittedRuns` | 2 workers, 2 clients, 3 tasks |
| `pool_shutdown` | finding: `ShutdownReturns` fails | 2 workers, 1 client, 1 task |
| `video` | `TearFree`, `UnmappedAfterShow`, `LatestSpec`, `LastShown`, `DestructorReturns`, `MetadataSeen` | 5 frames, rate updated every 2 (25 in the code), `drm_set_plane()` may fail |
| `shm` | `ReaderStarts`, `AckedIsRead`, `ReadIsWhole`, `WriteReturns` | 2 writers, 3 starts of the reader |

No run checks a type invariant: those of `MqttSession`, `MqttConn`, `MqttSubs`,
`MqttWire`, `MqttRead` (`ReadTypes`), `SalofFifo` and `ThreadPool` are theorems, those of `FrameBuffer`,
`VideoPipeline` and `ShmExchange` are parts of proved invariants (section 6).
`CHECK_DEADLOCK FALSE` is set where the system may rightly stop: the calls,
messages, frames and lost connections of an instance come to an end, and a
thread with nothing to do sleeps.

Why the bounds are enough to reach what matters:

- *Sessions.* Three list entries against four messages, each with up to two
  nodes, make the list full, with nodes of incoming messages on top of its
  maximum. Two packet ids are used up by the two outgoing messages; with fewer
  an id comes round while its node is pending (section 7, item 8). With two list
  entries only, publishing can go round for ever: a full list closes the
  connection, the reconnect resends, and the list is full again before the
  acks come; so liveness is checked with three. One broker id serves both
  incoming messages one after the other, so an id is used again. One connection is
  lost at any time, also during the repair of one that `mqtt_publish()` has closed, and
  every message published may close one more, on a full list or without memory. (With
  two lost connections, 1,703,414 states, the properties hold as well.)
  `ChanBound` only stops the broker and the timers from sending for ever into a
  full channel. Counts of deliveries stop at 2 ("several").
- *Connection.* The budget has each call at least once and those whose retry is
  interesting twice; a second lost connection breaks the reconnect itself.
- *Writing.* Three lengths and a buffer larger than each make every short
  write, and every overlap of a ping with a longer packet, possible. The nodes
  are resent as often as the yield thread likes.
- *Reading.* The four packets have no body, fill the buffer exactly, or exceed
  it by less and by more than its size. With base 2 the lengths 0 to 9 take
  one to four digits, the maximum. What a digit read out of place may be is any
  digit. Strings of four characters hold two wildcards, or one among empty levels.
- *Subscriptions.* Three calls are two subscriptions of a topic and an
  unsubscription, or two unsubscriptions after a subscription; four handlers are
  what a reconnect with two topics needs, and they run out in some
  behaviours. With five packet ids none comes round to a node that is still
  pending in these bounds; what happens when one does is item 8 of section 7.
- *Log.* Lines of up to 3 bytes in a buffer of 4 overfill it and wrap inside a
  line; 4 lines move the counters past 8. `Width` need only be a multiple of
  `Size` larger than it; 2^32 is.
- *Pool.* Two workers and two clients give every pair of a lost notification;
  with three tasks one waits behind two running ones.
- *Video.* The metadata are updated by the first frame, then after frames 2 and
  4: an update and the one that hides it, and another.
- *Shared memory.* A killed reader or writer, its successor and a third start
  that heals it.

## 5. Fairness

Safety runs use `Spec` or a fair specification; liveness is checked under
`FairSpec` of the module (`FairPipelineSpec` of `VideoPipeline`, `ReadFairSpec`
of `MqttRead`).

| module | fairness | because |
|---|---|---|
| `MqttSession` | weak: a publish that has begun, `Handle`, `Reconnect`, `Timeout`, `Broker` | both threads run, timers expire, and the broker answers on a link that stays up |
| `MqttConn` | weak: `UserStep`, `YieldStep`; strong: `ConnectOpen`, `ConnectAccept` | a server that can be reached now and then accepts now and then |
| `MqttWire` | weak: `SendStep` of each thread, `PublishDone` or `PublishNoMemory`, `YieldDone`, `RecordLate` or `RecordLateNoMemory` | writes have a timeout; nobody has to begin a call |
| `MqttRead` | weak: `Read` | the yield loop reads on |
| `SalofFifo` | weak: `Read`, `Write`; strong: `WriteLock` | a mutex that is free again and again is got |
| `ThreadPool` | weak: the steps of each thread; strong: a worker's `WorkerLock`, `WorkerRelock` | the same |
| `VideoPipeline` | weak: `AppStep`, `ShowStep`; strong: `ShowRead` | the same |
| `ShmExchange` | weak: `ReaderStep`, `WriterStep` | the operating system schedules each process |

Nothing is assumed of the application (it need not call, publish, load a frame
or stop), of failures (nothing need be lost, killed or refused), of
`notify_one()`, which may wake any sleeper, or of spurious wake-ups, which need
not happen. The code justifies the rest by what it runs on: pthread mutexes and
threads of one priority, reads and writes with a timeout, and a yield loop that
never exits except after the clean-up.

## 6. The proofs

TLC covers one instance; the theorems below hold for all values of the
constants that satisfy the assumption of the module. Each proof module EXTENDS
the module it is about (`MqttBufferProofs` two, `MqttWire` and `MqttRead`, which
share no variable), so what is proved is the specification that is checked.

| theorem | says | inductive invariant |
|---|---|---|
| `MqttSessionProofs!ListConsistent` | `NodesIdentified` | `ListInv`: the list is finite, has no two nodes of an id and type, and the counter is its cardinality |
| `MqttSessionProofs!AcceptedKept`, `NoPublishAfterRelease` | under `NextIdUnused`: `AcceptedIsKept`, `NoPublishAfterPubrel` | `Handshake`, see below |
| `MqttSessionProofs!ImplementsDelivery`, `RepeatedWasProcessed` | under `NextIdUnused` and with `~CleanSession`: `DeliverySpec`, `FirstReceiptProcessed` | `Promise`, see below |
| `MqttSessionProofs!EnoughIdsUnused`, `EnoughIdsKeep`, `EnoughIdsDeliver` | with `EnoughIds`: `NextIdUnused`, and so what the theorems above say | `Ascending`: ids are taken one after the other, one for each message |
| `MqttSessionProofs!TypeCorrect` | `TypeOK` | `TypeOK` in the parts `ListTypes` to `HistoryTypes` |
| `MqttConnProofs!LockOwned` | `LockMatchesOwner` | with the types of `lock` and `pc` |
| `MqttConnProofs!ReleaseAfterClean` | `ReleasedIsClean` | `Clean`: the end of the yield thread goes in order as long as no connect overlaps it |
| `MqttConnProofs!ConnectsWhenAccepted` | if a CONNECT fits the buffer (`~ShortBuffer`): `ConnectedIsAccepted` | `Accepted`: a thread past the CONNACK was accepted |
| `MqttConnProofs!SocketsSafe` | `YieldKeepsSockets` | `Unused => Calm`, see below |
| `MqttConnProofs!TypeCorrect` | `TypeOK` | control and data, one after the other |
| `MqttSubsProofs!HandlersOwned`, `TopicsOnce`, `SubscribingSafe`, `TypeCorrect` | `OneOwner`, `OneHandlerPerTopic`, `SubscribeIsSafe`, `TypeOK` | `IInv`, see below |
| `MqttSubsProofs!NothingElseLeaks`, `SubscriptionsRestored` | under its `NextIdUnused`: `NoOtherLeak`, `HandlersSubscribed` | `Ids`, `Accounted`, `Granted`, see below |
| `MqttSubsProofs!EnoughIdsUnused`, `EnoughIdsKeep` | with its `EnoughIds`: `NextIdUnused`, and so `NoOtherLeak` and `HandlersSubscribed` | `Tally`, `Below` |
| `MqttBufferProofs!LockIsEnough`, `NodesSaveTheirOwn`, `TypeCorrect` | `StreamWhole`, `SavedIsOwn`, `TypeOK` | `IInv` with `Locked`, `Laid` and `Clean`, see below |
| `MqttBufferProofs!AcceptedArrives` | `AcceptedIsWhole` | `LastByte`: the last byte of the user's packet is in the buffer, and was sent last |
| `MqttBufferProofs!ReaderInStep`, `BrokenComesLast`, `ReaderTyped` | `InStep`, `BrokenIsLast`, `ReadTypes` | `ReadInv` with `Following`, `OnTrack` and `CutOff`, see below |
| `MqttBufferProofs!CallsRight` | `CallsSubscribed` | `Called`: what was handled went where the search leads; and `MatchedRight`: the loop matches what a filter stands for, see below |
| `SalofFifoProofs!BufferInOrder`, `TypeCorrect` | `InOrder`, `TypeOK` | `IInv` with `Locked`, `Lengths` and `Written` |
| `SalofFifoProofs!NothingLeft` | `NothingStranded` | `Announced`: each post stands for at most `MaxLen` bytes |
| `ThreadPoolProofs!PoolImplementsQueue` | `QueueSpec` | types, and that a task is in one of: not submitted, queued, in the hands of one worker, finished |
| `ThreadPoolProofs!JoinLosesNothing` | `JoinedIsFinished` | no step drops a task, and a worker that was joined is still |
| `ThreadPoolProofs!NotAllAsleep` | with two workers: `Attended`, a task whose notification has been given finds a worker awake | `WakeInv`: one worker at a time is inside the mutex, and none leaves a running pool |
| `ThreadPoolProofs!TypeCorrect` | `TypeOK` | `TypeOK` and `Apart` |
| `VideoPipelineProofs!NeverTorn` | `TearFree` | the front buffer is never the one written; a published back buffer is whole |
| `VideoPipelineProofs!BufferImplementsLatest` | `LatestSpec` | the same; a set flag says the back buffer holds the newest frame |
| `VideoPipelineProofs!DisplayOutlivesShow` | `UnmappedAfterShow` | the display is released only after the show thread has ended |
| `VideoPipelineProofs!PipelineShowsLatest` | the pipeline satisfies `TearFree` and `LatestSpec` | each step of the pipeline is a step or a stutter of the buffer |
| `ShmExchangeProofs!ReaderAlwaysStarts`, `AckMeansRead`, `NothingTorn` | `ReaderStarts`, `AckedIsRead`, `ReadIsWhole` | `IInv == TypeOK /\ Names /\ Opened /\ InStep /\ AckedIsRead` |

- *`ListConsistent`.* Every action changes the list only through
  `mqtt_ack_list_record()` or `mqtt_ack_list_unrecord()` (`OnlyListSteps`), and
  each keeps the invariant; finiteness is needed for the cardinalities.
- *`NextIdUnused`.* `mqtt_get_next_packet_id()` looks at nothing but its
  counter; the condition says that the id it gives is not in use any more, in a
  node, in a packet under way, at the broker or in the hands of a thread. It is a condition on
  behaviours (`Spec /\ []NextIdUnused => ...`), of the state before each
  publication or subscription; without it they can fail (section 7,
  item 8). It holds in both runs (with as many ids as messages in `mqtt_session`), and `EnoughIds` implies it: for
  `MqttSession` more ids than messages to publish, for `MqttSubs` more ids than
  calls and resubscriptions (`MaxCalls + MaxDrops * Cardinality(Topic)`).
  Fewer ids may do as well, when acks come before the counter does.
- *`AcceptedKept`, `NoPublishAfterRelease`.* Both say that what lives under one
  packet id (node, packets in either direction, what the broker remembers)
  belongs to one message. `Agree` is that statement, `Fresh` that an id given
  out is a new one, `Lists` what the nodes and the places of the two threads
  say of each other.
- *`ImplementsDelivery`.* The abstract specification knows three sets: what was
  offered, delivered and settled. That a message is settled only after its
  delivery, and a QoS 2 one delivered once unless it was forgotten, is decided by what is
  spread over the two ends and the packets between them, so the invariant
  (`Promise`) adds to `Handshake` and `AcceptedIsKept`: of outgoing messages,
  that a message has one id and was offered before anything carries it (`Told`), and
  that no PUBLISH of QoS 2 comes after its PUBREL or finds a broker that has
  delivered and forgotten it (`Released`); of incoming messages, that
  each slot of the broker has a message of its own (`Slots`), and for each of its ids
  how far the exchange can have gotten, from the client's PUBREL node to the
  packets of either direction (`Exchange`). A message that was delivered without a
  node is in `unrecorded` and may begin again; any other that could come again
  has its node. Each action is then shown to map to
  a step or a stutter (`StepMapped`), one lemma for each. `CleanSession` must be FALSE, since
  a broker that forgets its session delivers again.
  An invariant that would not become inductive showed a fault in the
  model: the external broker could give the id of a message it had yet to
  resend to another one, and with three incoming messages and one lost
  connection TLC found `DeliverySpec` violated. `BrokerPublish` has the guard now.
- *`NothingElseLeaks`, `SubscriptionsRestored`.* `Ids`: an id has one node that waits for
  a SUBACK, none before `mqtt_subscribe()` has recorded it, and stands for one
  topic in the packets, the node and the call. So a node is never refused, which
  would leave its handler with nothing that points to it, and a SUBACK installs
  the handler of its own topic. `Accounted`: a leaked handler is
  in no node, so that nothing can free it any more, and the leaked ones are exactly those
  that are allocated without an owner. `Granted`: a SUBACK under way says that the
  broker subscribed its topic, an UNSUBSCRIBE that the user asked for it, and an
  installed handler is still to be visited after a reconnect, has its SUBSCRIBE
  under way, or its subscription. `Down` says that a lost connection is empty.
  For `EnoughIds`, `Tally` counts the ids taken and the handlers that
  `mqtt_try_resubscribe()` has yet to visit against the calls and reconnects; that a
  topic has one handler bounds each visit.
- *`LockOwned`.* A step moves one thread; it goes into or out of the locked
  part only together with the lock.
- *`SocketsSafe`.* `YieldKeepsSockets` is about behaviours in which the user
  has called nothing but the first `mqtt_connect()` and `mqtt_release()`. Then
  the state word says what the socket is whenever the yield thread decides by
  it (`Follows`), and the two threads are never both inside a connection
  attempt (`Calm`). Calls are only used up, so "never called" can be read off
  what is left.
- *`MqttSubs`.* `OneOwner` alone is not inductive. `IInv` adds `Separate` (an
  UNSUBACK node never shares the handler of a SUBACK node: otherwise an
  UNSUBACK would free memory that waits for its SUBACK), `Visit` (what is being
  resubscribed stays installed: otherwise a freed handler's topic would be sent,
  which `TypeOK` excludes) and `Safe` (a request, an ack or a node of an
  unsubscription exists only if the user has unsubscribed, the only way to
  memory that is not a handler). The proof goes by the functions of the code
  (`CreateKeeps`, `DestroyKeeps`) and then by action.
- *`MqttWire`.* `Locked`: a thread has the lock exactly while it is at a packet
  other than the ping. `Laid`: unless a ping was in the way, what the user
  thread has laid out stays until it gives the lock back. `Clean`: without any
  of the three faults one thread sends, from the beginning of its packet, and the
  broker is as far in it. `AcceptedArrives` needs none of the faults excluded:
  a ping is shorter than a PUBLISH (`WireAssumption`), so it cannot overwrite the last
  byte, and success means that the count of bytes came out at the end of the packet.
- *`MqttRead`.* `Following`: the packets lie end to end in the stream, and only
  a connection that was closed cuts it off. `OnTrack` says where in its packet
  an uninterrupted reader is: behind the header and some digits (`AtDigit`), behind
  the length (`AtBody`), at the end (`AtEnd`), or `left` bytes before it
  (`AtRest`). While the length is read, what the digits have made so far and what is
  left of it make the length: `value + Shift(rest, digits) * multiplier = rest`,
  for any base. That at most four digits follow is an assumption on
  the lengths, which the protocol makes too. `CutOff` is the case without a
  timeout: an interrupted reader has come to the end of a closed stream,
  and something broken has been handled by such a reader only, as the last.
- *`CallsRight`.* The loop of `mqtt_topic_is_matched()` goes by characters, what a
  filter stands for is said by levels. `Cutting` shows that both are the same
  string: the levels lie between the slashes, each begins behind the end of the one
  before, and the count of slashes says which is the last. One lemma for each
  kind of level says what the loop makes of it (`LiteralLevel`, `LevelPassed`, `HashLevel`,
  `NextLevel`), and `Abreast` that loop and levels go along together: at the
  beginning of the k-th level of the filter the loop is at that of the k-th level of
  the topic, or what came before differs and nothing matches any more. The filters are those
  a broker accepts (`TopicAssumption`), since a handler is installed only after
  a SUBACK without a refusal; the topics are any. Recursive functions are
  unfolded with `Walking` and `Starts`, and what holds step by step is carried to the end by
  `UpTo`, from the least place where it would fail.
- *`SalofFifo`.* The counters wrap at any `Width` that is a multiple of `Size`;
  the proof works with the distance `Used` modulo `Width`. `Lengths` says that
  a length that was compared still fits, because only the other side can have moved.
- *`NotAllAsleep`.* `submit()` notifies without the mutex, so the one worker that is
  between its look at the empty queue and its `wait()` does not hear it. Only one
  can be there, since it holds the mutex; so a notification that wakes nobody
  leaves another worker that has not looked yet. From there on only a
  look at an empty queue makes a worker wait. Together with the fairness of the workers this is
  why `SubmittedRuns` holds; with one worker TLC violates `Attended`, as
  item 10 of section 7 says.
- *`PoolImplementsQueue`, `BufferImplementsLatest`.* Initial states map to
  initial states, and each step to a step of the abstract specification or a
  stutter: the removal from the queue is the start of the task, the swap the
  taking of a frame.
- *`ShmExchange`.* Names and objects never lead a reader astray, whoever was
  killed (`Names`, `Opened`). In an exchange nobody disturbed (`InStep`) one
  writer is between its copy and its acknowledgment, and exactly one of the two
  semaphores and the reader has the turn.

Only model-checked: every liveness property. Liveness under fairness and ENABLED
are outside what TLAPS proves here. No module uses a RECURSIVE operator.

## 7. Divergences found

Shown by a run that expects a violation:

1. **A stale PUBREL node swallows a message** (`mqtt_clean_session`).
   `mqttclient.c:787` delivers a QoS 2 message unless a PUBREL node with its id
   exists; the node survives a reconnect that starts a clean session, so the
   first PUBLISH of the new session with that id is answered and dropped.
2. **`mqtt_disconnect()` is forgotten** (`mqtt_conn_clean`). The state
   `CLEAN_SESSION` it stores at 1300 is overwritten by a connect (1040, 1050, 1057),
   a keep-alive (1202) or an overflowing publish (1456) under way; the session
   is never cleaned and `mqtt_release()` times out.
3. **`shutdown()` hangs** (`pool_shutdown`). `ThreadPool.h:67` sets the flag
   and notifies without the mutex; a worker between its test and its `wait()`
   sleeps through both, and `join()` does not return.

Met while modelling; the properties of the passing runs are stated so that they
hold beside these:

4. `mqttclient.c:940`: the yield thread may look at `c->mqtt_thread` before
   `mqtt_connect` has stored it and dereference NULL, or it may stop itself after the
   signal that should have woken it, and sleep. (`MqttConn`: `YieldStopNull`, `waiting`.)
5. `mqttclient.c:956`: the pointer to the freed thread stays; `mqtt_connect()`
   after the clean-up reports success without a yield thread. The same pointer comes
   from `platform_thread.c:25-33` when the thread cannot be created: the structure is
   freed and returned all the same, and the client is `CONNECTED` with nobody to read.
   (`MqttConn`: `thread = "freed"`, `ConnectCreateDangles`.)
6. `mqttclient.c:1015`: a CONNECT packet too large for the buffer leaves `rc` at
   success, and the client is `CONNECTED` without having sent it. (`MqttConn`
   with `ShortBuffer = TRUE` violates `ConnectedIsAccepted`.)
7. `network.c:73-80` leaves a zeroed structure: a release by `mqtt_publish()`
   while the yield thread is at work makes it read, write or close descriptor 0,
   or overwrite an open descriptor. (`YieldKeepsSockets` is about the yield
   thread as long as the user has made no such call.)
8. `mqttclient.c:93`: when packet ids come round to one whose node is pending,
   the packet is sent and its node refused: `mqtt_publish()` reports an error
   for a message that is delivered, `mqtt_subscribe()` leaks its handler, and
   an ack takes another message's node off the list. (`MqttSession` with one
   id for two messages violates `AcceptedIsKept`; the theorems assume
   `NextIdUnused`.)
9. `mqttclient.c:725`: an UNSUBACK without a node destroys an uninitialised
   pointer; two unsubscriptions of a topic destroy its handler twice.
   (`SubscribeIsSafe` says that only these do.)
10. `ThreadPool.h:30-31`: with one worker a notification can be lost and its
    task is left in the queue. With two it cannot (`SubmittedRuns`).
11. `drm_driver.cc:59`: two updates between two looks of the show thread cancel
    out (`MetadataSeen` is about a version that stays turned); 144: the bounds
    used before the first update are those of the default metadata, whatever
    the frame's size; 196: `stop()` inside the show thread joins itself.
12. `posix_write.c:72,85`: two writers at once tear the message, and the
    acknowledgment of a killed writer's message goes to the next
    (`ReadIsWhole` and `AckedIsRead` are about exchanges nobody disturbs).
13. `fifo.c:83,106`: `FIFO_MIN` evaluates its second argument twice, so more may be
    written or read than was asked for. `InOrder` holds all the same, but a read
    may run past the length the task asked for, and
    `NothingStranded` excepts what follows.
14. `mqttclient.c:201`: after a short write the next one is asked for the whole
    length from where the first stopped, so bytes behind the packet are sent
    too, and the broker loses its place; 1206: the ping is laid into the write
    buffer without its lock, over a packet the user thread is sending or about
    to save; 787: the PUBREL node copies the buffer after the lock was given
    back, perhaps another packet. (`MqttWire`: `faults`; `StreamWhole` and
    `SavedIsOwn` say that nothing else can go wrong.)
15. `mqttclient.c:136`: the drain loop counts the -1 of a failed read as bytes
    read, takes that many more from the next packet, and never ends when each
    read fails because the other thread has closed the socket; 166: the result
    of reading the length is not looked at, and a cut-off packet is handled over
    a stale buffer. (`MqttRead`: `interrupted`; `BrokenIsLast`.)
16. `mqttclient.c:678`: PUBACK and PUBCOMP use their packet id although
    deserialising failed, when it was never given a value.
17. `mqttclient.c:238`: wildcards do not match an empty level, and `a/#` does
    not match its parent `a`, which MQTT 3.1.1, 4.7, asks for.
    (`MqttTopic`: `IsMatched` is `StandsFor` and `Substantial`; that it is no
    less and no more is `CallsSubscribed`, and the lemma `MatchedRight` for
    all filters and topics.)
18. `mqttclient.c:1397`: a `mqtt_publish()` that looked at the state before the
    connection was lost may get the lock between the opening of the new socket
    and the sending of CONNECT (1012), and be the first to send on it.
19. Without memory for an ack node (`mqttclient.c:388`): 787 delivers a QoS 2
    message on every result but that of an existing node, so one that could not be
    recorded is delivered again when it is resent, against the comment at 786
    (`DeliverySpec` says that this is the only way, by `unrecorded`); 641 and
    810: the PUBREL is not sent and the PUBREC node goes all the same, so the client
    forgets a handshake the broker has not ended; 1341-1343: the handler is leaked
    (`NoOtherLeak` says that only these are); 1449-1457: `mqtt_publish()` reports an error
    for a packet that has gone out, and closes the connection.
20. `mqttclient.c:1415`: a full list makes `mqtt_publish()` close the
    connection; with a list of two entries the client can go round in
    reconnecting, resending and closing for ever (section 4, *Sessions*).

## 8. What the models leave out

- *Memory.* Shared variables are sequentially consistent. `m_shutdown`, the
  client state and the metadata are plain variables in the code; their races
  are the interleavings of the models, tearing within one word is not.
- *Lists.* Operations on the ack and handler lists are atomic, though both
  threads may be inside one: a broken list has no meaningful next state. The
  order of the list does not matter to any property; scans visit in any order.
- *Layers.* In `MqttSession`, `MqttConn` and `MqttSubs` a packet goes out whole
  or not at all and comes in whole; what happens to its bytes is `MqttWire` and
  `MqttRead`, over one connection. CONNECT, SUBSCRIBE, UNSUBSCRIBE and
  DISCONNECT are sent under the lock like the others and are not laid out in
  `MqttWire`. The off-by-one of `MQTTPacket_len()` at 127 and its powers only
  concerns the size asked for, which is not modelled.
- *Environment.* The broker, TCP, the heap, semaphores, names of shared memory
  and libdrm are external; they are modelled from how the code uses them.
- *Data.* Packets, topics, lines and pixels are names or numbers, topics being
  sequences of characters in `MqttTopic` only. Formatting, timer values and the
  geometry beyond "which size" are left out.
- *Not modelled*: `salof_fifo_read_able()` (never called, and wrong after a wrap), the
  format buffer shared by all logging threads (`salof.c:66`, whose garbling is
  plain from the code), TLS, the ports to other kernels, the writer-first and
  System V exchanges (no synchronisation in the latter, so no property to
  state), the stitcher (whose `is_set_resize` is set at `drm_stitch.cc:361`
  before the rectangle it announces is computed, and read without the lock),
  `drm-core.c`, the message and work queue demos, and everything in 1.5.
  PROJECT.json gives the reason for each. By lines these are almost all of the
  repository: mbedtls, nlohmann/json, spdlog, the INI library and the libdrm examples
  are copies of other projects, some of them several times, and the earlier
  `9_DRM_*` directories are earlier states of the one modelled here.
