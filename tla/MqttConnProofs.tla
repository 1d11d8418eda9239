--------------------------- MODULE MqttConnProofs ---------------------------
(***************************************************************************)
(* Proofs about MqttConn: its types, and that the write lock is held by    *)
(* exactly the thread that is between its acquisition and its return in    *)
(* mqtt_connect_with_results(), so that two connection attempts never      *)
(* share the write buffer; that mqtt_release() finds a clean client; that  *)
(* CONNECTED is said only after the server has accepted; and that keeping  *)
(* alive and reconnecting lose no descriptor and touch no other.           *)
(***************************************************************************)
EXTENDS MqttConn, TLAPS

\* TypeOK in two parts: where the threads are, and everything else.
TypeControl == lock \in Thread \cup {"free"} /\ pc \in [Thread -> Place]

TypeData ==
  /\ state \in {"INVALID", "INITIALIZED", "CONNECTED", "DISCONNECTED", "CLEAN_SESSION"}
  /\ socket \in {"none", "zero", "open"} /\ link \in BOOLEAN
  /\ leaked \in BOOLEAN /\ foreign \in BOOLEAN
  /\ thread \in {"null", "set", "freed"}
  /\ ping \in 0..1 /\ lists \in {"live", "freed"}
  /\ connack \in [Thread -> BOOLEAN] /\ calls \in [Call -> Nat]
  /\ torn \in BOOLEAN /\ asked \in BOOLEAN /\ drops \in 0..MaxDrops

(* The two parts are the whole. *)
LEMMA TypeParts == TypeOK <=> TypeControl /\ TypeData
BY DEF TypeOK, TypeControl, TypeData

(* The two threads, and the calls the user may make. *)
LEMMA Names ==
  /\ "user" \in Thread /\ "yield" \in Thread /\ "user" # "yield"
  /\ \A t \in Thread : t = "user" \/ t = "yield"
  /\ {"connect", "again", "disconnect", "overflow", "release"} \subseteq Call
BY DEF Thread, Call

(* Every label is a place, and the ones outside the lock are not in Locked. *)
LEMMA Places ==
  /\ \A l \in Locked : l \in Place
  /\ {"wait", "accepted", "failed", "created", "stored", "signal"} \subseteq Locked
  /\ \A l \in {"idle", "connect", "open", "lock", "disconnect", "overflow",
               "overflow_set", "release", "none", "start", "stopping",
               "waiting", "crashed", "loop", "disconnected", "clean", "cleaned",
               "exit", "gone"} : l \in Place /\ l \notin Locked
BY DEF Place, Locked

(* Moving one thread to a place keeps the control typed. *)
LEMMA GotoTyped ==
  ASSUME NEW t \in Thread, NEW l \in Place, pc \in [Thread -> Place], Goto(t, l)
  PROVE  pc' \in [Thread -> Place] /\ pc'[t] = l /\ \A u \in Thread \ {t} : pc'[u] = pc[u]
BY DEF Goto

(* Returning from mqtt_connect() leaves the locked part. *)
LEMMA ReturnTyped ==
  ASSUME NEW t \in Thread, pc \in [Thread -> Place], Return(t)
  PROVE  /\ pc' \in [Thread -> Place] /\ pc'[t] \notin Locked
         /\ \A u \in Thread \ {t} : pc'[u] = pc[u]
<1>1. PICK l \in {"idle", "loop"} : Goto(t, l)
  BY DEF Return
<1>2. l \in Place /\ l \notin Locked
  BY Places
<1>3. QED BY <1>1, <1>2, GotoTyped

(* Initially everything is typed and nobody holds the lock. *)
LEMMA InitCorrect == Init => TypeControl /\ TypeData /\ LockMatchesOwner
<1> SUFFICES ASSUME Init PROVE TypeControl /\ TypeData /\ LockMatchesOwner
  OBVIOUS
<1>1. TypeControl
  BY Places, Names DEF Init, TypeControl
<1>2. TypeData
  <2>1. calls \in [Call -> Nat] BY ConnAssumption DEF Init
  <2>2. drops \in 0..MaxDrops
    <3>1. drops = 0 BY DEF Init
    <3>2. MaxDrops \in Nat BY ConnAssumption
    <3>3. QED BY <3>1, <3>2
  <2>3. connack \in [Thread -> BOOLEAN] BY DEF Init
  <2>4. state = "INITIALIZED" /\ socket = "zero" /\ link = FALSE BY DEF Init
  <2>5. leaked = FALSE /\ foreign = FALSE /\ torn = FALSE /\ asked = FALSE BY DEF Init
  <2>6. thread = "null" /\ lists = "live" BY DEF Init
  <2>7. ping \in 0..1 BY DEF Init
  <2>8. QED BY <2>1, <2>2, <2>3, <2>4, <2>5, <2>6, <2>7 DEF TypeData
<1>3. LockMatchesOwner
  <2>1. \A t \in Thread : pc[t] \notin Locked BY Places DEF Init
  <2>2. lock = "free" /\ "free" \notin Thread BY DEF Init, Thread
  <2>3. QED BY <2>1, <2>2 DEF LockMatchesOwner
<1>4. QED BY <1>1, <1>2, <1>3

(* What mqtt_connect_with_results() stores, in either thread, is typed. *)
LEMMA ConnectData ==
  ASSUME NEW t \in Thread, TypeData, Connect(t)
  PROVE  TypeData'
<1> USE DEF TypeData
<1>1. CASE ConnectAlready(t) BY <1>1 DEF ConnectAlready, net, yld, app
<1>2. CASE ConnectInit(t) BY <1>2 DEF ConnectInit, yld, app
<1>3. CASE ConnectOpen(t) BY <1>3 DEF ConnectOpen, yld, app
<1>4. CASE ConnectOpenFails(t) BY <1>4 DEF ConnectOpenFails, yld, app
<1>5. CASE ConnectSend(t)
  <2>1. CASE UNCHANGED net BY <1>5, <2>1 DEF ConnectSend, net, yld, app
  <2>2. CASE Write BY <1>5, <2>2 DEF ConnectSend, Write, yld, app
  <2>3. QED BY <1>5, <2>1, <2>2 DEF ConnectSend
<1>6. CASE ConnectAccept(t) BY <1>6 DEF ConnectAccept, net, yld, app
<1>7. CASE ConnectRefuse(t) BY <1>7 DEF ConnectRefuse, net, yld, app
<1>8. CASE ConnectFailed(t)
  BY <1>8 DEF ConnectFailed, NetworkRelease, SetClientState, net, yld, app
<1>9. CASE ConnectAgain(t) BY <1>9 DEF ConnectAgain, SetClientState, net, app
<1>10. QED BY <1>1, <1>2, <1>3, <1>4, <1>5, <1>6, <1>7, <1>8, <1>9 DEF Connect

(* What the user's other calls and their steps store is typed. *)
LEMMA UserData ==
  ASSUME TypeData, UserCall \/ UserStep, ~Connect("user")
  PROVE  TypeData'
<1> USE DEF TypeData
<1>1. ASSUME NEW c \in Call, Calls(c) PROVE calls' \in [Call -> Nat]
  BY <1>1 DEF Calls
<1>2. CASE CallConnect BY <1>1, <1>2, Names DEF CallConnect, net, yld
<1>3. CASE CallDisconnect BY <1>1, <1>3, Names DEF CallDisconnect, Write, yld
<1>4. CASE CallOverflow BY <1>1, <1>4, Names DEF CallOverflow, net, yld
<1>5. CASE CallRelease BY <1>1, <1>5, Names DEF CallRelease, net, yld
<1>6. CASE ConnectCreate BY <1>6 DEF ConnectCreate, net, yld, app
<1>7. CASE ConnectStore BY <1>7 DEF ConnectStore, net, app
<1>8. CASE ConnectSet BY <1>8 DEF ConnectSet, SetClientState, net, yld, app
<1>9. CASE ConnectSignal BY <1>9 DEF ConnectSignal, net, app
<1>10. CASE DisconnectSet BY <1>10 DEF DisconnectSet, SetClientState, net, yld
<1>11. CASE OverflowRelease BY <1>11 DEF OverflowRelease, NetworkRelease, net, yld, app
<1>12. CASE OverflowSet BY <1>12 DEF OverflowSet, SetClientState, net, yld, app
<1>13. CASE ReleaseDone BY <1>13 DEF ReleaseDone, SetClientState, net
<1>14. CASE ReleaseTimeout BY <1>14 DEF ReleaseTimeout, net, yld, app
<1>15. CASE ConnectCreateFails
  <2>1. ping' \in 0..1 BY <1>15 DEF ConnectCreateFails
  <2>2. /\ socket' \in {"none", "zero", "open"} /\ link' \in BOOLEAN
        /\ leaked' \in BOOLEAN /\ foreign' \in BOOLEAN
    BY <1>15 DEF ConnectCreateFails, NetworkRelease, net
  <2>3. UNCHANGED <<state, thread, lists, connack, calls, torn, asked, drops>>
    BY <1>15 DEF ConnectCreateFails, app
  <2>4. QED BY <2>1, <2>2, <2>3
<1>16. CASE ConnectCreateDangles BY <1>16 DEF ConnectCreateDangles, net, app
<1>17. QED BY <1>2, <1>3, <1>4, <1>5, <1>6, <1>7, <1>8, <1>9, <1>10, <1>11,
              <1>12, <1>13, <1>14, <1>15, <1>16 DEF UserCall, UserStep

(* What the rest of the yield thread's steps and the network store is typed. *)
LEMMA YieldData ==
  ASSUME TypeData, YieldStep \/ YieldWake \/ HandlePingresp \/ LinkDown,
         ~Connect("yield")
  PROVE  TypeData'
<1> USE ConnAssumption DEF TypeData
<1>1. CASE YieldStart BY <1>1 DEF YieldStart, net, yld, app
<1>2. CASE YieldStop BY <1>2 DEF YieldStop, net, yld, app
<1>3. CASE YieldStopNull BY <1>3 DEF YieldStopNull, net, yld, app
<1>4. CASE YieldReconnect BY <1>4 DEF YieldReconnect, net, yld, app
<1>5. CASE YieldClean BY <1>5 DEF YieldClean, NetworkDisconnect, yld, app
<1>6. CASE KeepAlivePing BY <1>6 DEF KeepAlivePing, Write, app
<1>7. CASE KeepAliveRelease
  <2>1. drops' \in 0..MaxDrops
    BY <1>7 DEF KeepAliveRelease
  <2>2. QED BY <1>7, <2>1 DEF KeepAliveRelease, NetworkRelease, net, yld, app
<1>8. CASE KeepAliveSet BY <1>8 DEF KeepAliveSet, SetClientState, net, yld, app
<1>9. CASE CleanLists BY <1>9 DEF CleanLists, net, app
<1>10. CASE CleanSet BY <1>10 DEF CleanSet, SetClientState, net, yld, app
<1>11. CASE YieldExit BY <1>11 DEF YieldExit, net, app
<1>12. CASE YieldWake BY <1>12 DEF YieldWake, net, yld, app
<1>13. CASE HandlePingresp BY <1>13 DEF HandlePingresp, net, app
<1>14. CASE LinkDown
  <2>1. drops' \in 0..MaxDrops
    BY <1>14 DEF LinkDown
  <2>2. QED BY <1>14, <2>1 DEF LinkDown, yld, app
<1>15. QED BY <1>1, <1>2, <1>3, <1>4, <1>5, <1>6, <1>7, <1>8, <1>9, <1>10,
              <1>11, <1>12, <1>13, <1>14 DEF YieldStep

(* mqtt_connect_with_results() keeps every thread at a known place, and      *)
(* takes and returns the lock exactly where the place says so.              *)
LEMMA ConnectControl ==
  ASSUME NEW t \in Thread, TypeControl, LockMatchesOwner, Connect(t)
  PROVE  TypeControl' /\ LockMatchesOwner'
<1> USE DEF TypeControl, LockMatchesOwner
<1>1. "free" \notin Thread BY DEF Thread
<1>2. CASE ConnectAlready(t) \/ ConnectOpenFails(t)
  <2>1. pc[t] \notin Locked /\ Return(t) /\ lock' = lock
    BY <1>2, Places DEF ConnectAlready, ConnectOpenFails, At
  <2>2. QED BY <2>1, ReturnTyped
<1>3. CASE ConnectInit(t)
  <2>1. pc[t] \notin Locked /\ Goto(t, "open") /\ lock' = lock
    BY <1>3, Places DEF ConnectInit, At
  <2>2. QED BY <2>1, GotoTyped, Places
<1>4. CASE ConnectOpen(t)
  <2>1. pc[t] \notin Locked /\ Goto(t, "lock") /\ lock' = lock
    BY <1>4, Places DEF ConnectOpen, At
  <2>2. QED BY <2>1, GotoTyped, Places
<1>5. CASE ConnectSend(t)
  <2>1. lock = "free" /\ lock' = t
    BY <1>5 DEF ConnectSend
  <2>2. PICK l \in {"accepted", "wait", "failed"} : Goto(t, l)
    BY <1>5 DEF ConnectSend
  <2>3. l \in Locked /\ l \in Place BY Places
  <2>4. QED BY <2>1, <2>2, <2>3, <1>1, GotoTyped
<1>6. CASE ConnectAccept(t)
  <2>1. pc[t] \in Locked /\ Goto(t, "accepted") /\ lock' = lock
    BY <1>6, Places DEF ConnectAccept, At
  <2>2. "accepted" \in Locked /\ "accepted" \in Place BY Places
  <2>3. QED BY <2>1, <2>2, GotoTyped
<1>7. CASE ConnectRefuse(t)
  <2>1. pc[t] \in Locked /\ Goto(t, "failed") /\ lock' = lock
    BY <1>7, Places DEF ConnectRefuse, At
  <2>2. "failed" \in Locked /\ "failed" \in Place BY Places
  <2>3. QED BY <2>1, <2>2, GotoTyped
<1>8. CASE ConnectFailed(t) \/ ConnectAgain(t)
  <2>1. pc[t] \in Locked /\ Return(t) /\ lock' = "free"
    BY <1>8, Places DEF ConnectFailed, ConnectAgain, At
  <2>2. QED BY <2>1, <1>1, ReturnTyped
<1>9. QED BY <1>2, <1>3, <1>4, <1>5, <1>6, <1>7, <1>8 DEF Connect

(* A step of thread t from one unlocked place to another, or between locked *)
(* ones, that leaves the lock alone keeps the correspondence.               *)
LEMMA PlainMove ==
  ASSUME NEW t \in Thread, NEW l \in Place, TypeControl, LockMatchesOwner,
         Goto(t, l), lock' = lock, (pc[t] \in Locked) <=> (l \in Locked)
  PROVE  TypeControl' /\ LockMatchesOwner'
BY GotoTyped DEF TypeControl, LockMatchesOwner

(* The user's other steps: only creating and starting the thread moves two  *)
(* of them, and only starting it returns the lock.                          *)
LEMMA UserControl ==
  ASSUME TypeControl, LockMatchesOwner, UserCall \/ UserStep, ~Connect("user")
  PROVE  TypeControl' /\ LockMatchesOwner'
<1> USE Names, Places
<1>1. CASE ConnectCreate
  <2>1. lock = "user" /\ pc["yield"] \notin Locked
    BY <1>1 DEF ConnectCreate, At, LockMatchesOwner
  <2>2. pc' = [pc EXCEPT !["user"] = "created", !["yield"] = "start"] /\ lock' = lock
    BY <1>1 DEF ConnectCreate
  <2>3. pc' \in [Thread -> Place] /\ pc'["user"] = "created" /\ pc'["yield"] = "start"
    BY <2>2 DEF TypeControl
  <2>4. QED BY <2>1, <2>2, <2>3 DEF TypeControl, LockMatchesOwner
<1>2. CASE ConnectSignal
  <2>1. lock = "user" /\ pc["yield"] \notin Locked
    BY <1>2 DEF ConnectSignal, At, LockMatchesOwner
  <2>2. /\ pc' \in [Thread -> Place] /\ pc'["user"] = "idle"
        /\ pc'["yield"] \in {"loop", pc["yield"]}
    BY <1>2 DEF ConnectSignal, TypeControl
  <2>3. lock' = "free" BY <1>2 DEF ConnectSignal
  <2>4. "free" \notin Thread BY DEF Thread
  <2>5. QED BY <2>1, <2>2, <2>3, <2>4 DEF TypeControl, LockMatchesOwner
<1>3. CASE ConnectStore BY <1>3, PlainMove DEF ConnectStore, At
<1>4. CASE ConnectSet BY <1>4, PlainMove DEF ConnectSet, At
<1>5. CASE CallConnect BY <1>5, PlainMove DEF CallConnect, Calls, At
<1>6. CASE CallDisconnect BY <1>6, PlainMove DEF CallDisconnect, Calls, At
<1>7. CASE CallOverflow BY <1>7, PlainMove DEF CallOverflow, Calls, At
<1>8. CASE CallRelease BY <1>8, PlainMove DEF CallRelease, Calls, At
<1>9. CASE DisconnectSet BY <1>9, PlainMove DEF DisconnectSet, At
<1>10. CASE OverflowRelease BY <1>10, PlainMove DEF OverflowRelease, At
<1>11. CASE OverflowSet BY <1>11, PlainMove DEF OverflowSet, At
<1>12. CASE ReleaseDone BY <1>12, PlainMove DEF ReleaseDone, At
<1>13. CASE ReleaseTimeout BY <1>13, PlainMove DEF ReleaseTimeout, At
<1>14. CASE ConnectCreateFails
  <2>1. pc["user"] \in Locked /\ Goto("user", "idle") /\ lock' = "free"
    BY <1>14 DEF ConnectCreateFails, At
  <2>2. "idle" \in Place /\ "idle" \notin Locked /\ "free" \notin Thread
    BY DEF Thread
  <2>3. QED BY <2>1, <2>2, GotoTyped DEF TypeControl, LockMatchesOwner
<1>15. CASE ConnectCreateDangles BY <1>15, PlainMove DEF ConnectCreateDangles, At
<1>16. QED BY <1>1, <1>2, <1>3, <1>4, <1>5, <1>6, <1>7, <1>8, <1>9, <1>10,
              <1>11, <1>12, <1>13, <1>14, <1>15 DEF UserCall, UserStep

(* The yield thread's other steps never touch the lock, but for the crash.  *)
LEMMA YieldControl ==
  ASSUME TypeControl, LockMatchesOwner,
         YieldStep \/ YieldWake \/ HandlePingresp \/ LinkDown, ~Connect("yield")
  PROVE  TypeControl' /\ LockMatchesOwner'
<1> USE Names, Places
<1>1. CASE YieldStopNull
  <2>1. pc' = [t \in Thread |-> "crashed"] /\ lock' = "free"
    BY <1>1 DEF YieldStopNull
  <2>2. "free" \notin Thread BY DEF Thread
  <2>3. QED BY <2>1, <2>2 DEF TypeControl, LockMatchesOwner
<1>2. CASE YieldStart
  <2>1. PICK l \in {"loop", "stopping"} : Goto("yield", l)
    BY <1>2 DEF YieldStart
  <2>2. QED BY <1>2, <2>1, PlainMove DEF YieldStart, At
<1>3. CASE YieldStop BY <1>3, PlainMove DEF YieldStop, At
<1>4. CASE YieldWake BY <1>4, PlainMove DEF YieldWake, At
<1>5. CASE YieldReconnect BY <1>5, PlainMove DEF YieldReconnect, At
<1>6. CASE YieldClean BY <1>6, PlainMove DEF YieldClean, At
<1>7. CASE KeepAliveRelease BY <1>7, PlainMove DEF KeepAliveRelease, At
<1>8. CASE KeepAliveSet BY <1>8, PlainMove DEF KeepAliveSet, At
<1>9. CASE CleanLists BY <1>9, PlainMove DEF CleanLists, At
<1>10. CASE CleanSet BY <1>10, PlainMove DEF CleanSet, At
<1>11. CASE YieldExit BY <1>11, PlainMove DEF YieldExit, At
<1>12. CASE KeepAlivePing \/ HandlePingresp \/ LinkDown
  BY <1>12 DEF KeepAlivePing, HandlePingresp, LinkDown, TypeControl, LockMatchesOwner
<1>13. QED BY <1>1, <1>2, <1>3, <1>4, <1>5, <1>6, <1>7, <1>8, <1>9, <1>10,
              <1>11, <1>12 DEF YieldStep

(* The inductive step: of every action, or of a stutter. *)
LEMMA Step ==
  TypeControl /\ TypeData /\ LockMatchesOwner /\ [Next]_vars =>
    TypeControl' /\ TypeData' /\ LockMatchesOwner'
<1> SUFFICES ASSUME TypeControl, TypeData, LockMatchesOwner, [Next]_vars
             PROVE  TypeControl' /\ TypeData' /\ LockMatchesOwner'
  OBVIOUS
<1>1. CASE UNCHANGED vars
  BY <1>1 DEF vars, net, yld, app, TypeControl, TypeData, LockMatchesOwner
<1>2. CASE Connect("user") \/ Connect("yield")
  BY <1>2, Names, ConnectControl, ConnectData
<1>3. CASE Next /\ ~Connect("user") /\ ~Connect("yield")
  BY <1>3, UserControl, UserData, YieldControl, YieldData DEF Next
<1>4. QED BY <1>1, <1>2, <1>3

(* Every reachable state of every instance is typed: at most one ping is    *)
(* outstanding and every thread is at a place of the code.                  *)
THEOREM TypeCorrect == Spec => []TypeOK
BY InitCorrect, Step, TypeParts, PTL DEF Spec

(* The write lock always belongs to the thread that is in the locked part   *)
(* of mqtt_connect_with_results(), and to nobody else.                      *)
THEOREM LockOwned == Spec => []LockMatchesOwner
BY InitCorrect, Step, PTL DEF Spec

-----------------------------------------------------------------------------
\* The user is in mqtt_connect() and has not created the yield thread.
Alone == {"connect", "open", "lock", "wait", "accepted", "failed"}

\* The end of the yield thread: the connection is closed, the lists are freed,
\* the state is written, and then it may be observed.
Closed == {"clean", "cleaned", "exit", "gone"}
Freed == {"cleaned", "exit", "gone"}
Ended == {"exit", "gone"}

EndInOrder ==
  /\ pc["user"] \in Alone => thread = "null" /\ pc["yield"] = "none"
  /\ thread = "null" /\ ~torn /\ pc["user"] \notin {"created", "crashed"} => pc["yield"] = "none"
  /\ pc["yield"] \in Closed => socket # "open"
  /\ pc["yield"] \in Freed => lists = "freed"
  /\ state = "INVALID" => pc["yield"] \in Ended
  /\ torn => pc["yield"] \in Ended /\ pc["user"] = "idle"

\* As long as no connect overlaps the clean up.
NoOverlap == calls["again"] = Budget["again"]
Clean == calls["again"] <= Budget["again"] /\ (NoOverlap => EndInOrder)

(* A step uses up a call, or none. *)
LEMMA CallsStep ==
  ASSUME [Next]_vars
  PROVE  calls' = calls \/ \E c \in Call : Calls(c)
BY Names DEF Next, vars, app, UserCall, CallConnect, CallDisconnect, CallOverflow, CallRelease,
   UserStep, YieldStep, Connect, ConnectAlready, ConnectInit, ConnectOpen, ConnectOpenFails,
   ConnectSend, ConnectAccept, ConnectRefuse, ConnectFailed, ConnectAgain, ConnectCreate,
   ConnectCreateFails, ConnectCreateDangles, ConnectStore, ConnectSet, ConnectSignal,
   DisconnectSet, OverflowRelease, OverflowSet, ReleaseDone, ReleaseTimeout, YieldStart,
   YieldStop, YieldStopNull,
   YieldReconnect, YieldClean, KeepAlivePing, KeepAliveRelease, KeepAliveSet, CleanLists,
   CleanSet, YieldExit, YieldWake, HandlePingresp, LinkDown

(* Calls are only used up. *)
LEMMA FewerCalls ==
  ASSUME TypeData, calls["again"] <= Budget["again"], [Next]_vars
  PROVE  /\ calls'["again"] <= Budget["again"]
         /\ NoOverlap' => NoOverlap /\ ~Calls("again")
<1>1. calls["again"] \in Nat /\ Budget["again"] \in Nat
  BY ConnAssumption, Names DEF TypeData
<1>2. calls' = calls \/ \E c \in Call : Calls(c) BY CallsStep
<1>3. ASSUME NEW c \in Call, Calls(c)
      PROVE  calls'["again"] = IF c = "again" THEN calls["again"] - 1 ELSE calls["again"]
  BY <1>3, Names DEF Calls, TypeData
<1>4. Calls("again") => calls'["again"] = calls["again"] - 1
  BY <1>3, Names
<1>5. calls'["again"] \in Nat /\ calls'["again"] <= calls["again"]
  <2>1. CASE calls' = calls BY <1>1, <2>1
  <2>2. ASSUME NEW c \in Call, Calls(c)
        PROVE  calls'["again"] \in Nat /\ calls'["again"] <= calls["again"]
    BY <1>1, <1>3, <2>2 DEF Calls
  <2>3. QED BY <1>2, <2>1, <2>2
<1>6. QED BY <1>1, <1>4, <1>5 DEF NoOverlap

(* The steps of mqtt_connect_with_results(). *)
LEMMA ConnectOrder ==
  ASSUME NEW t \in Thread, TypeControl, EndInOrder, Connect(t)
  PROVE  EndInOrder'
<1> USE Names DEF TypeControl, EndInOrder, At, Alone, Closed, Freed, Ended
<1>1. /\ pc[t] \in Alone /\ UNCHANGED <<thread, torn, lists>>
      /\ \A u \in Thread \ {t} : pc'[u] = pc[u]
      /\ pc'[t] \in Alone \/ pc'[t] = IF t = "user" THEN "idle" ELSE "loop"
      /\ state' = state \/ state' # "INVALID"
  BY DEF Connect, ConnectAlready, ConnectInit, ConnectOpen, ConnectOpenFails, ConnectSend,
         ConnectAccept, ConnectRefuse, ConnectFailed, ConnectAgain, Return, Goto, SetClientState,
         yld, app
<1>2. QED BY <1>1

(* The user's other steps. *)
LEMMA UserOrder ==
  ASSUME TypeControl, EndInOrder, UserCall \/ UserStep, ~Connect("user"), ~Calls("again")
  PROVE  EndInOrder'
<1> USE Names DEF TypeControl, EndInOrder, At, Goto, SetClientState, Alone, Closed, Freed, Ended
<1>1. CASE ConnectCreate BY <1>1 DEF ConnectCreate, net, yld, app
<1>2. CASE ConnectCreateFails
  BY <1>2 DEF ConnectCreateFails, NetworkRelease, net, app
<1>3. CASE ConnectStore BY <1>3 DEF ConnectStore, net, app
<1>4. CASE ConnectSet BY <1>4 DEF ConnectSet, net, yld, app
<1>5. CASE ConnectSignal BY <1>5 DEF ConnectSignal, net, app
<1>6. CASE CallConnect BY <1>6 DEF CallConnect, Calls, net, yld
<1>7. CASE CallDisconnect BY <1>7 DEF CallDisconnect, Calls, Write, yld
<1>8. CASE CallOverflow BY <1>8 DEF CallOverflow, Calls, net, yld
<1>9. CASE CallRelease BY <1>9 DEF CallRelease, Calls, net, yld
<1>10. CASE DisconnectSet BY <1>10 DEF DisconnectSet, net, yld
<1>11. CASE OverflowRelease BY <1>11 DEF OverflowRelease, NetworkRelease, net, yld, app
<1>12. CASE OverflowSet BY <1>12 DEF OverflowSet, net, yld, app
<1>13. CASE ReleaseDone BY <1>13 DEF ReleaseDone, net
<1>14. CASE ReleaseTimeout BY <1>14 DEF ReleaseTimeout, net, yld, app
<1>15. CASE ConnectCreateDangles BY <1>15 DEF ConnectCreateDangles, net, app
<1>16. QED BY <1>1, <1>2, <1>3, <1>4, <1>5, <1>6, <1>7, <1>8, <1>9, <1>10,
              <1>11, <1>12, <1>13, <1>14, <1>15 DEF UserCall, UserStep

(* The yield thread's other steps, and the network. *)
LEMMA YieldOrder ==
  ASSUME TypeControl, EndInOrder, YieldStep \/ YieldWake \/ HandlePingresp \/ LinkDown,
         ~Connect("yield")
  PROVE  EndInOrder'
<1> USE Names DEF TypeControl, EndInOrder, At, Goto, SetClientState, Alone, Closed, Freed, Ended
<1>1. CASE YieldStart BY <1>1 DEF YieldStart, net, yld, app
<1>2. CASE YieldStop BY <1>2 DEF YieldStop, net, yld, app
<1>3. CASE YieldStopNull BY <1>3 DEF YieldStopNull, net, yld, app
<1>4. CASE YieldReconnect BY <1>4 DEF YieldReconnect, net, yld, app
<1>5. CASE YieldClean BY <1>5 DEF YieldClean, NetworkDisconnect, yld, app
<1>6. CASE KeepAlivePing BY <1>6 DEF KeepAlivePing, Write, app
<1>7. CASE KeepAliveRelease BY <1>7 DEF KeepAliveRelease, NetworkRelease, net, yld, app
<1>8. CASE KeepAliveSet BY <1>8 DEF KeepAliveSet, net, yld, app
<1>9. CASE CleanLists BY <1>9 DEF CleanLists, net, app
<1>10. CASE CleanSet BY <1>10 DEF CleanSet, net, yld, app
<1>11. CASE YieldExit BY <1>11 DEF YieldExit, net, app
<1>12. CASE YieldWake BY <1>12 DEF YieldWake, net, yld, app
<1>13. CASE HandlePingresp BY <1>13 DEF HandlePingresp, net, app
<1>14. CASE LinkDown BY <1>14 DEF LinkDown, yld, app
<1>15. QED BY <1>1, <1>2, <1>3, <1>4, <1>5, <1>6, <1>7, <1>8, <1>9, <1>10,
              <1>11, <1>12, <1>13, <1>14 DEF YieldStep

(* Every step keeps the order of the end, as long as nothing overlaps it.   *)
LEMMA CleanStep == TypeControl /\ TypeData /\ Clean /\ [Next]_vars => Clean'
<1> SUFFICES ASSUME TypeControl, TypeData, Clean, [Next]_vars, NoOverlap'
             PROVE  EndInOrder'
  BY FewerCalls DEF Clean
<1>1. EndInOrder /\ ~Calls("again") BY FewerCalls DEF Clean
<1>2. CASE UNCHANGED vars BY <1>1, <1>2 DEF vars, net, yld, app, EndInOrder
<1>3. CASE Connect("user") \/ Connect("yield") BY <1>1, <1>3, Names, ConnectOrder
<1>4. CASE Next /\ ~Connect("user") /\ ~Connect("yield")
  BY <1>1, <1>4, UserOrder, YieldOrder DEF Next
<1>5. QED BY <1>2, <1>3, <1>4

(* A client that mqtt_release() destroys has been cleaned up, unless a      *)
(* connect has come between the request to clean and the release.           *)
THEOREM ReleaseAfterClean == Spec => []ReleasedIsClean
<1>1. Init => Clean
  <2>1. Budget["again"] \in Nat BY ConnAssumption, Names
  <2>2. Init => EndInOrder BY Names DEF Init, EndInOrder, Alone, Closed, Freed, Ended
  <2>3. QED BY <2>1, <2>2 DEF Init, Clean
<1>2. Clean => ReleasedIsClean
  BY DEF Clean, NoOverlap, EndInOrder, ReleasedIsClean, Closed, Freed, Ended
<1>3. QED BY <1>1, <1>2, InitCorrect, Step, CleanStep, PTL DEF Spec
-----------------------------------------------------------------------------
\* A thread past the CONNACK was accepted.
Accepted == \A t \in Thread : pc[t] \in {"accepted", "created", "stored"} => connack[t]

(* Only a thread whose connection was accepted comes to where CONNECTED is  *)
(* stored.                                                                  *)
LEMMA AcceptedStep ==
  ASSUME ~ShortBuffer, TypeControl, TypeData, Accepted, [Next]_vars
  PROVE  Accepted'
<1> USE Names DEF TypeControl, Accepted, At, Goto, Return
<1>1. ASSUME NEW t \in Thread, ConnectAccept(t) PROVE Accepted'
  BY <1>1 DEF ConnectAccept, TypeData
<1>2. ASSUME NEW t \in Thread, ConnectInit(t) PROVE Accepted'
  BY <1>2 DEF ConnectInit, TypeData
<1>3. ASSUME NEW t \in Thread,
             \/ ConnectAlready(t) \/ ConnectOpen(t) \/ ConnectOpenFails(t) \/ ConnectSend(t)
             \/ ConnectRefuse(t) \/ ConnectFailed(t) \/ ConnectAgain(t)
      PROVE  Accepted'
  BY <1>3 DEF ConnectAlready, ConnectOpen, ConnectOpenFails, ConnectSend, ConnectRefuse,
     ConnectFailed, ConnectAgain
<1>4. CASE UserCall \/ ConnectCreate \/ ConnectCreateFails \/ ConnectCreateDangles
           \/ ConnectStore \/ ConnectSet \/ ConnectSignal \/ DisconnectSet
           \/ OverflowRelease \/ OverflowSet \/ ReleaseDone \/ ReleaseTimeout
  BY <1>4 DEF UserCall, CallConnect, CallDisconnect, CallOverflow, CallRelease, ConnectCreate,
     ConnectCreateFails, ConnectCreateDangles, ConnectStore, ConnectSet, ConnectSignal,
     DisconnectSet, OverflowRelease, OverflowSet, ReleaseDone, ReleaseTimeout
<1>5. CASE YieldStart \/ YieldStop \/ YieldStopNull \/ YieldReconnect \/ YieldClean
           \/ KeepAlivePing \/ KeepAliveRelease \/ KeepAliveSet \/ CleanLists \/ CleanSet
           \/ YieldExit \/ YieldWake \/ HandlePingresp \/ LinkDown \/ UNCHANGED vars
  BY <1>5 DEF YieldStart, YieldStop, YieldStopNull, YieldReconnect, YieldClean, KeepAlivePing,
     KeepAliveRelease, KeepAliveSet, CleanLists, CleanSet, YieldExit, YieldWake,
     HandlePingresp, LinkDown, vars
<1>6. QED BY <1>1, <1>2, <1>3, <1>4, <1>5 DEF Next, Connect, UserStep, YieldStep

(* The state becomes CONNECTED at two places of the code. *)
LEMMA WhoConnects ==
  ASSUME TypeControl, [Next]_vars, state # "CONNECTED", state' = "CONNECTED"
  PROVE  ConnectSet \/ \E t \in Thread : ConnectAgain(t)
<1>1. ASSUME NEW t \in Thread, Connect(t) PROVE ConnectAgain(t)
  BY <1>1 DEF Connect, ConnectAlready, ConnectInit, ConnectOpen, ConnectOpenFails, ConnectSend,
     ConnectAccept, ConnectRefuse, ConnectFailed, SetClientState
<1>2. CASE UserCall \/ ConnectCreate \/ ConnectCreateFails \/ ConnectCreateDangles
           \/ ConnectStore \/ ConnectSignal \/ DisconnectSet \/ OverflowRelease \/ OverflowSet
           \/ ReleaseDone \/ ReleaseTimeout
  BY <1>2 DEF UserCall, CallConnect, CallDisconnect, CallOverflow, CallRelease, ConnectCreate,
     ConnectCreateFails, ConnectCreateDangles, ConnectStore, ConnectSignal, DisconnectSet,
     SetClientState,
     OverflowRelease, OverflowSet, ReleaseDone, ReleaseTimeout
<1>3. CASE YieldStart \/ YieldStop \/ YieldStopNull \/ YieldReconnect \/ YieldClean
           \/ KeepAlivePing \/ KeepAliveRelease \/ KeepAliveSet \/ CleanLists \/ CleanSet
           \/ YieldExit \/ YieldWake \/ HandlePingresp \/ LinkDown \/ UNCHANGED vars
  BY <1>3 DEF YieldStart, YieldStop, YieldStopNull, YieldReconnect, YieldClean, KeepAlivePing,
     KeepAliveRelease, KeepAliveSet, CleanLists, CleanSet, YieldExit, YieldWake,
     HandlePingresp, LinkDown, vars, SetClientState
<1>4. QED BY <1>1, <1>2, <1>3, Names DEF Next, UserStep, YieldStep

(* Whatever the calls, the lost connections and the reconnects of both      *)
(* threads: the state becomes CONNECTED only after a CONNACK, unless the    *)
(* write buffer cannot hold the CONNECT packet.                             *)
THEOREM ConnectsWhenAccepted == ~ShortBuffer => (Spec => ConnectedIsAccepted)
<1> SUFFICES ASSUME ~ShortBuffer PROVE Spec => ConnectedIsAccepted
  OBVIOUS
<1>1. Init => Accepted BY Names DEF Init, Accepted
<1>2. TypeControl /\ TypeData /\ Accepted /\ [Next]_vars => Accepted' BY AcceptedStep
<1>3. TypeControl /\ Accepted /\ [Next]_vars =>
        [state # "CONNECTED" /\ state' = "CONNECTED" =>
           \E t \in Thread : pc[t] \in {"accepted", "stored"} /\ connack[t]]_vars
  BY WhoConnects, Names DEF Accepted, ConnectSet, ConnectAgain, At
<1>4. QED
  BY <1>1, <1>2, <1>3, InitCorrect, Step, PTL DEF Spec, ConnectedIsAccepted
-----------------------------------------------------------------------------
\* The user has connected, and has called nothing else but mqtt_release().
Unused == \A c \in {"again", "disconnect", "overflow"} : calls[c] = Budget[c]

\* Where the user holds the lock over a created thread, and where it is done.
Between == {"created", "stored"}
Done == {"signal", "idle", "release"}

\* Where the yield thread has not begun, and where it has opened a socket.
Asleep == {"start", "stopping", "waiting"}
Tried == {"lock", "wait", "accepted", "failed"}

\* The state word says what the socket is when the yield thread looks at it.
Follows ==
  pc["yield"] \in {"loop", "connect"} =>
    /\ state = "CONNECTED" \/ pc["user"] \in Between => socket # "zero"
    /\ state # "CONNECTED" /\ pc["user"] \in Done => socket # "open"

Calm ==
  /\ ~torn /\ ~asked /\ state \in {"INITIALIZED", "CONNECTED", "DISCONNECTED"}
  /\ pc["user"] \in Alone \cup Between \cup Done \cup {"crashed"}
  /\ pc["user"] \in Alone => thread = "null" /\ pc["yield"] = "none"
  /\ thread = "null" /\ pc["user"] \notin {"created", "crashed"} => pc["yield"] = "none"
  /\ pc["user"] \in (Alone \ {"connect"}) \cup Between => state # "CONNECTED"
  /\ pc["user"] \in Tried => socket = "open"
  /\ pc["yield"] \in Alone \cup Asleep \cup {"none", "loop", "disconnected", "crashed"}
  /\ pc["yield"] \in Asleep \cup Tried => socket = "open"
  /\ pc["yield"] \in Asleep /\ pc["user"] \in Done => state = "CONNECTED"
  /\ pc["yield"] = "open" => socket = "none"
  /\ pc["yield"] = "disconnected" => socket # "open" /\ pc["user"] \notin Between
  /\ pc["user"] = "crashed" => pc["yield"] = "crashed"
  /\ Follows

(* Calls are only used up: what is unused now was never used. *)
LEMMA StillUnused ==
  ASSUME TypeData, [Next]_vars, Unused', \A c \in Call : calls[c] <= Budget[c]
  PROVE  Unused /\ ~Calls("again") /\ ~Calls("disconnect") /\ ~Calls("overflow")
<1>1. \A c \in Call : calls[c] \in Nat /\ Budget[c] \in Nat /\ calls[c] <= Budget[c]
  BY ConnAssumption DEF TypeData
<1>2. ASSUME NEW c \in Call, Calls(c)
      PROVE  \A d \in Call : calls'[d] = IF d = c THEN calls[d] - 1 ELSE calls[d]
  BY <1>2 DEF Calls, TypeData
<1>3. ASSUME NEW c \in {"again", "disconnect", "overflow"}, Calls(c) PROVE FALSE
  <2>1. c \in Call BY DEF Call
  <2>2. calls'[c] = calls[c] - 1 BY <1>2, <1>3, <2>1
  <2>3. calls'[c] = Budget[c] BY DEF Unused
  <2>4. QED BY <1>1, <2>1, <2>2, <2>3
<1>4. calls' = calls \/ \E c \in Call : Calls(c)
  BY CallsStep
<1>5. ASSUME NEW c \in {"again", "disconnect", "overflow"} PROVE calls[c] = Budget[c]
  <2>1. c \in Call /\ calls'[c] = Budget[c] BY DEF Call, Unused
  <2>2. CASE calls' = calls BY <2>1, <2>2
  <2>3. ASSUME NEW d \in Call, Calls(d) PROVE calls[c] = Budget[c]
    <3>1. d # c BY <1>3, <2>3
    <3>2. QED BY <1>2, <2>1, <2>3, <3>1
  <2>4. QED BY <1>4, <2>2, <2>3
<1>6. QED BY <1>3, <1>5 DEF Unused

LEMMA WithinBudget ==
  ASSUME TypeData, \A c \in Call : calls[c] <= Budget[c], [Next]_vars
  PROVE  \A c \in Call : calls'[c] <= Budget[c]
<1>1. \A c \in Call : calls[c] \in Nat /\ Budget[c] \in Nat
  BY ConnAssumption DEF TypeData
<1>2. ASSUME NEW c \in Call, Calls(c), NEW d \in Call PROVE calls'[d] <= Budget[d]
  <2>1. calls'[d] = IF d = c THEN calls[d] - 1 ELSE calls[d] BY <1>2 DEF Calls, TypeData
  <2>2. QED BY <1>1, <2>1
<1>3. QED BY <1>2, CallsStep

(* The steps of mqtt_connect_with_results(), one thread at a time inside.   *)
LEMMA ConnectCalm ==
  ASSUME NEW t \in Thread, TypeControl, LockMatchesOwner, Calm, Connect(t)
  PROVE  Calm'
<1> USE Names DEF TypeControl, Calm, Follows, At, Alone, Between, Done, Asleep, Tried, Goto, Return
<1>1. t = "user" \/ pc["user"] \notin Alone
  BY DEF Connect, ConnectAlready, ConnectInit, ConnectOpen, ConnectOpenFails, ConnectSend,
         ConnectAccept, ConnectRefuse, ConnectFailed, ConnectAgain
<1>2. t = "yield" /\ pc["yield"] \in Locked => pc["user"] \notin Between
  BY DEF LockMatchesOwner, Locked
<1>3. CASE ConnectAlready(t) BY <1>1, <1>3 DEF ConnectAlready, net, yld, app
<1>4. CASE ConnectInit(t) BY <1>1, <1>4 DEF ConnectInit, yld, app
<1>5. CASE ConnectOpen(t) BY <1>1, <1>5 DEF ConnectOpen, yld, app
<1>6. CASE ConnectOpenFails(t) BY <1>1, <1>6 DEF ConnectOpenFails, yld, app
<1>7. CASE ConnectSend(t) BY <1>1, <1>7 DEF ConnectSend, Write, net, yld, app
<1>8. CASE ConnectAccept(t) BY <1>1, <1>8 DEF ConnectAccept, net, yld, app
<1>9. CASE ConnectRefuse(t) BY <1>1, <1>9 DEF ConnectRefuse, net, yld, app
<1>10. CASE ConnectFailed(t)
  BY <1>1, <1>2, <1>10 DEF ConnectFailed, NetworkRelease, SetClientState, net, yld, app, Locked
<1>11. CASE ConnectAgain(t)
  BY <1>1, <1>2, <1>11 DEF ConnectAgain, SetClientState, net, app, Locked
<1>12. QED BY <1>3, <1>4, <1>5, <1>6, <1>7, <1>8, <1>9, <1>10, <1>11 DEF Connect

(* The user's other steps. *)
LEMMA UserCalm ==
  ASSUME TypeControl, Calm, UserCall \/ UserStep, ~Connect("user"),
         ~Calls("again"), ~Calls("disconnect"), ~Calls("overflow")
  PROVE  Calm'
<1> USE Names DEF TypeControl, Calm, Follows, At, Goto, SetClientState, Alone, Between, Done,
              Asleep, Tried
<1>1. CASE ConnectCreate BY <1>1 DEF ConnectCreate, net, yld, app
<1>2. CASE ConnectCreateFails
  BY <1>2 DEF ConnectCreateFails, NetworkRelease, net, app
<1>3. CASE ConnectStore BY <1>3 DEF ConnectStore, net, app
<1>4. CASE ConnectSet BY <1>4 DEF ConnectSet, net, yld, app
<1>5. CASE ConnectSignal BY <1>5 DEF ConnectSignal, net, app
<1>6. CASE CallConnect BY <1>6 DEF CallConnect, Calls, net, yld
<1>7. CASE CallRelease BY <1>7 DEF CallRelease, Calls, net, yld
<1>8. CASE ReleaseTimeout BY <1>8 DEF ReleaseTimeout, net, yld, app
<1>9. CASE DisconnectSet \/ OverflowRelease \/ OverflowSet \/ ReleaseDone
  BY <1>9 DEF DisconnectSet, OverflowRelease, OverflowSet, ReleaseDone
<1>10. CASE CallDisconnect \/ CallOverflow BY <1>10 DEF CallDisconnect, CallOverflow
<1>11. CASE ConnectCreateDangles BY <1>11 DEF ConnectCreateDangles, net, app
<1>12. QED BY <1>1, <1>2, <1>3, <1>4, <1>5, <1>6, <1>7, <1>8, <1>9, <1>10, <1>11
           DEF UserCall, UserStep

(* The yield thread's other steps, and the network. *)
LEMMA YieldCalm ==
  ASSUME TypeControl, Calm, YieldStep \/ YieldWake \/ HandlePingresp \/ LinkDown,
         ~Connect("yield")
  PROVE  Calm'
<1> USE Names DEF TypeControl, Calm, Follows, At, Goto, SetClientState, Alone, Between, Done,
              Asleep, Tried
<1>1. CASE YieldStart BY <1>1 DEF YieldStart, net, yld, app
<1>2. CASE YieldStop BY <1>2 DEF YieldStop, net, yld, app
<1>3. CASE YieldStopNull BY <1>3 DEF YieldStopNull, net, yld, app
<1>4. CASE YieldReconnect BY <1>4 DEF YieldReconnect, net, yld, app
<1>5. CASE KeepAlivePing BY <1>5 DEF KeepAlivePing, Write, app
<1>6. CASE KeepAliveRelease BY <1>6 DEF KeepAliveRelease, NetworkRelease, net, yld, app
<1>7. CASE KeepAliveSet BY <1>7 DEF KeepAliveSet, net, yld, app
<1>8. CASE YieldClean \/ CleanLists \/ CleanSet \/ YieldExit
  BY <1>8 DEF YieldClean, CleanLists, CleanSet, YieldExit
<1>9. CASE YieldWake BY <1>9 DEF YieldWake, net, yld, app
<1>10. CASE HandlePingresp BY <1>10 DEF HandlePingresp, net, app
<1>11. CASE LinkDown BY <1>11 DEF LinkDown, yld, app
<1>12. QED BY <1>1, <1>2, <1>3, <1>4, <1>5, <1>6, <1>7, <1>8, <1>9, <1>10, <1>11
           DEF YieldStep

Counted == \A c \in Call : calls[c] <= Budget[c]

LEMMA CalmStep ==
  TypeControl /\ TypeData /\ LockMatchesOwner /\ Counted /\ (Unused => Calm) /\ [Next]_vars
    => Counted' /\ (Unused => Calm)'
<1> SUFFICES ASSUME TypeControl, TypeData, LockMatchesOwner, Counted, Unused => Calm, [Next]_vars
             PROVE  Counted' /\ (Unused' => Calm')
  OBVIOUS
<1>1. Counted' BY WithinBudget DEF Counted
<1>2. ASSUME Unused' PROVE Calm'
  <2>1. Calm /\ ~Calls("again") /\ ~Calls("disconnect") /\ ~Calls("overflow")
    BY <1>2, StillUnused DEF Counted
  <2>2. CASE UNCHANGED vars
    BY <2>1, <2>2 DEF vars, net, yld, app, Calm, Follows
  <2>3. CASE Connect("user") \/ Connect("yield") BY <2>1, <2>3, Names, ConnectCalm
  <2>4. CASE Next /\ ~Connect("user") /\ ~Connect("yield")
    BY <2>1, <2>4, UserCalm, YieldCalm DEF Next
  <2>5. QED BY <2>2, <2>3, <2>4
<1>3. QED BY <1>1, <1>2

(* The flags of what must not happen stay, when it does not happen. *)
LEMMA NoHarm ==
  ASSUME TypeData
  PROVE  /\ socket # "open" => (leaked \/ socket = "open") = leaked
         /\ socket # "zero" => (foreign \/ socket = "zero") = foreign
<1>1. leaked \in BOOLEAN /\ foreign \in BOOLEAN BY DEF TypeData
<1>2. socket # "open" => (leaked \/ socket = "open") = leaked
  <2>1. CASE leaked BY <2>1, <1>1
  <2>2. CASE ~leaked BY <2>2, <1>1
  <2>3. QED BY <2>1, <2>2
<1>3. socket # "zero" => (foreign \/ socket = "zero") = foreign
  <2>1. CASE foreign BY <2>1, <1>1
  <2>2. CASE ~foreign BY <2>2, <1>1
  <2>3. QED BY <2>1, <2>2
<1>4. QED BY <1>2, <1>3

(* A step the user is not part of. *)
LEMMA SocketsKept ==
  ASSUME TypeControl, TypeData, Calm, [Next]_vars, pc["user"] = "idle",
         ~Calls("again"), ~Calls("disconnect"), ~Calls("overflow")
  PROVE  leaked' = leaked /\ foreign' = foreign
<1> USE Names DEF TypeControl, Calm, Follows, At, Alone, Between, Done, Asleep, Tried
<1>1. ASSUME NEW t \in Thread, Connect(t) PROVE leaked' = leaked /\ foreign' = foreign
  <2>1. t = "yield"
    BY <1>1 DEF Connect, ConnectAlready, ConnectInit, ConnectOpen, ConnectOpenFails, ConnectSend,
         ConnectAccept, ConnectRefuse, ConnectFailed, ConnectAgain
  <2>2. CASE ConnectInit(t) \/ ConnectOpen(t) \/ ConnectOpenFails(t)
    <3>1. socket # "open"
      BY <2>1, <2>2 DEF ConnectInit, ConnectOpen, ConnectOpenFails
    <3>2. leaked' = (leaked \/ socket = "open") /\ foreign' = foreign
      BY <2>2 DEF ConnectInit, ConnectOpen, ConnectOpenFails
    <3>3. QED BY <3>1, <3>2, NoHarm
  <2>3. CASE ConnectSend(t)
    <3>1. socket # "zero" BY <2>1, <2>3 DEF ConnectSend
    <3>2. \/ leaked' = leaked /\ foreign' = (foreign \/ socket = "zero")
          \/ leaked' = leaked /\ foreign' = foreign
      BY <2>3 DEF ConnectSend, Write, net
    <3>3. QED BY <3>1, <3>2, NoHarm
  <2>4. CASE ConnectFailed(t)
    <3>1. socket # "zero" BY <2>1, <2>4 DEF ConnectFailed
    <3>2. \/ leaked' = leaked /\ foreign' = (foreign \/ socket = "zero")
          \/ leaked' = leaked /\ foreign' = foreign
      BY <2>4 DEF ConnectFailed, NetworkRelease, net
    <3>3. QED BY <3>1, <3>2, NoHarm
  <2>5. CASE ConnectAlready(t) \/ ConnectAccept(t) \/ ConnectRefuse(t) \/ ConnectAgain(t)
    BY <2>5 DEF ConnectAlready, ConnectAccept, ConnectRefuse, ConnectAgain, net
  <2>6. QED BY <1>1, <2>2, <2>3, <2>4, <2>5 DEF Connect
<1>2. CASE UserCall
  BY <1>2 DEF UserCall, CallConnect, CallDisconnect, CallOverflow, CallRelease, net
<1>3. CASE ConnectCreate \/ ConnectCreateFails \/ ConnectCreateDangles
           \/ ConnectStore \/ ConnectSet \/ ConnectSignal \/ DisconnectSet
           \/ OverflowRelease \/ OverflowSet \/ ReleaseDone \/ ReleaseTimeout
  BY <1>3 DEF ConnectCreate, ConnectCreateFails, ConnectCreateDangles, ConnectStore, ConnectSet,
     ConnectSignal, DisconnectSet, OverflowRelease, OverflowSet, ReleaseDone, ReleaseTimeout
<1>4. CASE KeepAlivePing \/ KeepAliveRelease
  <2>1. socket # "zero" BY <1>4 DEF KeepAlivePing, KeepAliveRelease
  <2>2. \/ leaked' = leaked /\ foreign' = (foreign \/ socket = "zero")
        \/ leaked' = leaked /\ foreign' = foreign
    BY <1>4 DEF KeepAlivePing, KeepAliveRelease, NetworkRelease, Write, net
  <2>3. QED BY <2>1, <2>2, NoHarm
<1>5. CASE YieldStart \/ YieldStop \/ YieldStopNull \/ YieldReconnect \/ YieldClean
           \/ KeepAliveSet \/ CleanLists \/ CleanSet \/ YieldExit \/ YieldWake
           \/ HandlePingresp \/ LinkDown \/ UNCHANGED vars
  BY <1>5 DEF YieldStart, YieldStop, YieldStopNull, YieldReconnect, YieldClean, KeepAliveSet,
     CleanLists, CleanSet, YieldExit, YieldWake, HandlePingresp, LinkDown, vars, net
<1>6. QED BY <1>1, <1>2, <1>3, <1>4, <1>5 DEF Next, UserStep, YieldStep

(* However often the connection is lost and restored, and however the user  *)
(* waits for it: keeping alive and reconnecting lose no descriptor and      *)
(* touch no other.                                                          *)
THEOREM SocketsSafe == Spec => YieldKeepsSockets
<1>1. Init => Counted /\ (Unused => Calm)
  <2>1. ASSUME Init PROVE Counted /\ Calm
    <3>1. \A c \in Call : Budget[c] \in Nat BY ConnAssumption
    <3>2. Counted BY <2>1, <3>1 DEF Init, Counted
    <3>3. Calm BY <2>1, Names DEF Init, Calm, Follows, Alone, Between, Done, Asleep, Tried
    <3>4. QED BY <3>2, <3>3
  <2>2. QED BY <2>1
<1>2. TypeControl /\ TypeData /\ Counted /\ (Unused => Calm) /\ [Next]_vars =>
        [pc["user"] = "idle" /\ (\A c \in {"again", "disconnect", "overflow"} : calls'[c] = Budget[c])
           => leaked' = leaked /\ foreign' = foreign]_vars
  BY StillUnused, SocketsKept DEF Counted, Unused
<1>3. QED
  BY <1>1, <1>2, InitCorrect, Step, CalmStep, PTL DEF Spec, YieldKeepsSockets
=============================================================================
