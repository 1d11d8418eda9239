--------------------------- MODULE ThreadPoolProofs ---------------------------
(***************************************************************************)
(* Proofs about ThreadPool: its types, that no two places (the queue, the  *)
(* hands of the workers, the finished tasks) ever hold the same task, that *)
(* every step of it is a step of TaskQueue, that no task is ever lost, and *)
(* that no notification is lost for good where there are two workers.      *)
(***************************************************************************)
EXTENDS ThreadPool, SequenceTheorems, TLAPS

\* Every task is at one place: unsubmitted, at one index of the queue, in the
\* hand of one worker, or finished.
InHand(w) == wpc[w] = "run"
Apart ==
  /\ todo \cap finished = {}
  /\ \A i, j \in 1..Len(queue) : queue[i] = queue[j] => i = j
  /\ \A i \in 1..Len(queue) : queue[i] \notin todo \cup finished
  /\ \A w \in Worker : InHand(w) =>
       /\ func[w] \notin todo \cup finished
       /\ \A i \in 1..Len(queue) : queue[i] # func[w]
       /\ \A v \in Worker : InHand(v) /\ func[v] = func[w] => v = w

IInv == TypeOK /\ Apart

\* Steps that only move workers and clients about, none into or out of a task.
Quiet == /\ UNCHANGED <<queue, func, todo, finished>>
         /\ \A w \in Worker : wpc'[w] = "run" <=> wpc[w] = "run"

(* The steps of a worker but for taking and executing a task. *)
LEMMA WorkerQuiet ==
  ASSUME NEW w \in Worker, TypeOK,
         \/ WorkerLoop(w) \/ WorkerLock(w) \/ WorkerEmpty(w) \/ WorkerWait(w)
         \/ WorkerWakes(w) \/ WorkerRelock(w)
  PROVE  TypeOK' /\ Quiet
<1> USE DEF TypeOK, Quiet, WorkerAt, WorkerTo
<1>1. CASE WorkerLoop(w) BY <1>1 DEF WorkerLoop
<1>2. CASE WorkerLock(w) BY <1>2 DEF WorkerLock
<1>3. CASE WorkerEmpty(w) BY <1>3 DEF WorkerEmpty
<1>4. CASE WorkerWait(w) BY <1>4 DEF WorkerWait
<1>5. CASE WorkerWakes(w) BY <1>5 DEF WorkerWakes
<1>6. CASE WorkerRelock(w) BY <1>6 DEF WorkerRelock
<1>7. QED BY <1>1, <1>2, <1>3, <1>4, <1>5, <1>6

(* The steps of init(), of shutdown() and of the notification in submit(). *)
LEMMA ClientQuiet ==
  ASSUME TypeOK,
         \/ InitPool \/ Shutdown \/ NotifyAll \/ Join
         \/ \E c \in Client : NotifyOne(c)
  PROVE  TypeOK' /\ Quiet
<1> USE PoolAssumption DEF TypeOK, Quiet, WorkerAt, WorkerTo, ClientAt, ClientTo
<1>1. CASE InitPool BY <1>1 DEF InitPool
<1>2. CASE Shutdown BY <1>2 DEF Shutdown
<1>3. CASE NotifyAll BY <1>3 DEF NotifyAll
<1>4. CASE Join BY <1>4 DEF Join
<1>5. ASSUME NEW c \in Client, NotifyOne(c) PROVE TypeOK' /\ Quiet
  <2>1. CASE UNCHANGED wpc BY <1>5, <2>1 DEF NotifyOne
  <2>2. ASSUME NEW w \in Worker, WorkerAt(w, "asleep"), WorkerTo(w, "woken")
        PROVE  TypeOK' /\ Quiet
    BY <1>5, <2>2 DEF NotifyOne
  <2>3. QED BY <1>5, <2>1, <2>2 DEF NotifyOne
<1>6. QED BY <1>1, <1>2, <1>3, <1>4, <1>5

(* A quiet step leaves every task where it was, and TaskQueue stutters. *)
LEMMA QuietStep ==
  ASSUME IInv, TypeOK', Quiet
  PROVE  IInv' /\ UNCHANGED Q!vars
<1>1. Apart' BY DEF IInv, Apart, Quiet, InHand
<1>2. Running' = Running BY DEF Running, Quiet
<1>3. QED BY <1>1, <1>2 DEF IInv, Quiet, Q!vars

(* submit() puts a new task behind the others. *)
LEMMA SubmitStep ==
  ASSUME NEW c \in Client, NEW t \in Task, IInv, Submit(c, t)
  PROVE  IInv' /\ Q!Submit(t)
<1>1. queue \in Seq(Task) /\ t \in todo
  BY DEF IInv, TypeOK, Submit
<1>2. queue' = Append(queue, t) /\ todo' = todo \ {t}
  BY DEF Submit
<1>3. /\ queue' \in Seq(Task) /\ Len(queue') = Len(queue) + 1 /\ Len(queue) \in Nat
      /\ \A i \in 1..Len(queue) : queue'[i] = queue[i]
      /\ queue'[Len(queue) + 1] = t
  BY <1>1, <1>2
<1>4. UNCHANGED <<shutdown, mutex, wpc, func, finished>>
  BY DEF Submit
<1>5. cpc' \in [Client -> {"idle", "notify", "notify all", "join", "joined"}]
  BY DEF IInv, TypeOK, Submit, ClientTo
<1>6. TypeOK' BY <1>2, <1>3, <1>4, <1>5 DEF IInv, TypeOK
<1>7. \A i \in 1..Len(queue') : i \in 1..Len(queue) \/ (i = Len(queue) + 1 /\ queue'[i] = t)
  BY <1>3
<1>8. /\ t \notin finished
      /\ \A i \in 1..Len(queue) : queue[i] # t
      /\ \A w \in Worker : InHand(w) => func[w] # t
  BY <1>1 DEF IInv, Apart
<1>9. Apart'
  <2>1. \A i, j \in 1..Len(queue') : queue'[i] = queue'[j] => i = j
    BY <1>3, <1>7, <1>8 DEF IInv, Apart
  <2>2. \A i \in 1..Len(queue') : queue'[i] \notin todo' \cup finished'
    BY <1>2, <1>3, <1>4, <1>7, <1>8 DEF IInv, Apart
  <2>3. ASSUME NEW w \in Worker, InHand(w)'
        PROVE  /\ func'[w] \notin todo' \cup finished'
               /\ \A i \in 1..Len(queue') : queue'[i] # func'[w]
               /\ \A v \in Worker : InHand(v)' /\ func'[v] = func'[w] => v = w
    BY <2>3, <1>2, <1>3, <1>4, <1>7, <1>8 DEF IInv, Apart, InHand
  <2>4. todo' \cap finished' = {}
    BY <1>2, <1>4 DEF IInv, Apart
  <2>5. QED BY <2>1, <2>2, <2>3, <2>4 DEF Apart
<1>10. Running' = Running BY <1>4 DEF Running
<1>11. QED BY <1>1, <1>2, <1>4, <1>6, <1>9, <1>10 DEF IInv, Q!Submit

(* A worker that finds the queue not empty takes its first task. *)
LEMMA TakeStep ==
  ASSUME NEW w \in Worker, IInv, WorkerDequeue(w), queue # <<>>
  PROVE  IInv' /\ Q!Start
<1>1. queue \in Seq(Task) /\ wpc[w] = "dequeue"
  BY DEF IInv, TypeOK, WorkerDequeue, WorkerAt
<1>2. /\ wpc' = [wpc EXCEPT ![w] = "run"] /\ func' = [func EXCEPT ![w] = Head(queue)]
      /\ queue' = Tail(queue) /\ UNCHANGED <<shutdown, cpc, todo, finished>>
      /\ mutex' = FALSE
  BY DEF WorkerDequeue, WorkerTo
<1>3. /\ queue' \in Seq(Task) /\ Len(queue') = Len(queue) - 1 /\ Len(queue) \in Nat \ {0}
      /\ \A i \in 1..Len(queue') : queue'[i] = queue[i + 1] /\ i + 1 \in 1..Len(queue)
      /\ Head(queue) = queue[1] /\ Head(queue) \in Task /\ 1 \in 1..Len(queue)
  BY <1>1, <1>2
<1>4. /\ wpc'[w] = "run" /\ func'[w] = Head(queue)
      /\ \A v \in Worker \ {w} : wpc'[v] = wpc[v] /\ func'[v] = func[v]
  BY <1>2 DEF IInv, TypeOK
<1>5. TypeOK'
  <2>1. wpc' \in [Worker -> {"new", "loop", "lock", "empty?", "wait", "asleep",
                             "woken", "dequeue", "run", "exit"}]
    BY <1>2 DEF IInv, TypeOK
  <2>2. func' \in [Worker -> Task \cup {NoTask}]
    BY <1>2, <1>3 DEF IInv, TypeOK
  <2>3. \A v \in Worker : wpc'[v] = "run" => func'[v] \in Task
    BY <1>3, <1>4 DEF IInv, TypeOK
  <2>4. QED BY <1>2, <1>3, <2>1, <2>2, <2>3 DEF IInv, TypeOK
<1>6. /\ Head(queue) \notin todo \cup finished
      /\ \A v \in Worker : InHand(v) => func[v] # Head(queue)
      /\ \A i \in 1..Len(queue') : queue'[i] # Head(queue)
  <2>1. \A i \in 1..Len(queue') : i + 1 # 1 BY <1>3
  <2>2. QED BY <2>1, <1>3 DEF IInv, Apart
<1>7. Apart'
  <2>1. \A i, j \in 1..Len(queue') : queue'[i] = queue'[j] => i = j
    BY <1>3 DEF IInv, Apart
  <2>2. \A i \in 1..Len(queue') : queue'[i] \notin todo' \cup finished'
    BY <1>2, <1>3 DEF IInv, Apart
  <2>3. ASSUME NEW v \in Worker, InHand(v)'
        PROVE  /\ func'[v] \notin todo' \cup finished'
               /\ \A i \in 1..Len(queue') : queue'[i] # func'[v]
               /\ \A u \in Worker : InHand(u)' /\ func'[u] = func'[v] => u = v
    BY <2>3, <1>2, <1>3, <1>4, <1>6 DEF IInv, Apart, InHand
  <2>4. QED BY <1>2, <2>1, <2>2, <2>3 DEF IInv, Apart
<1>8. Running' = Running \cup {Head(queue)}
  BY <1>1, <1>4 DEF Running
<1>9. Head(queue) \notin Running \cup finished
  BY <1>6 DEF Running, InHand
<1>10. QED BY <1>2, <1>5, <1>7, <1>8, <1>9 DEF IInv, Q!Start

(* A worker that executes its task puts it among the finished ones. *)
LEMMA RunStep ==
  ASSUME NEW w \in Worker, IInv, WorkerRun(w)
  PROVE  IInv' /\ Q!Finish(func[w])
<1>1. /\ wpc[w] = "run" /\ wpc' = [wpc EXCEPT ![w] = "loop"]
      /\ finished' = finished \cup {func[w]}
      /\ UNCHANGED <<shutdown, queue, mutex, func, cpc, todo>>
  BY DEF WorkerRun, WorkerAt, WorkerTo
<1>2. func[w] \in Task BY <1>1 DEF IInv, TypeOK
<1>3. wpc'[w] = "loop" /\ \A v \in Worker \ {w} : wpc'[v] = wpc[v]
  BY <1>1 DEF IInv, TypeOK
<1>4. TypeOK'
  <2>1. wpc' \in [Worker -> {"new", "loop", "lock", "empty?", "wait", "asleep",
                             "woken", "dequeue", "run", "exit"}]
    BY <1>1 DEF IInv, TypeOK
  <2>2. \A v \in Worker : wpc'[v] = "run" => func'[v] \in Task
    BY <1>1, <1>3 DEF IInv, TypeOK
  <2>3. QED BY <1>1, <1>2, <2>1, <2>2 DEF IInv, TypeOK
<1>5. \A v \in Worker \ {w} : InHand(v) => func[v] # func[w]
  BY <1>1 DEF IInv, Apart, InHand
<1>6. Apart'
  BY <1>1, <1>3, <1>5 DEF IInv, Apart, InHand
<1>7. func[w] \in Running /\ Running' = Running \ {func[w]}
  BY <1>1, <1>3, <1>5 DEF Running, InHand
<1>8. QED BY <1>1, <1>4, <1>6, <1>7 DEF IInv, Q!Finish

(* A worker that was woken for nothing goes back to its loop. *)
LEMMA EmptyDequeue ==
  ASSUME NEW w \in Worker, TypeOK, WorkerDequeue(w), queue = <<>>
  PROVE  TypeOK' /\ Quiet
BY DEF WorkerDequeue, WorkerAt, WorkerTo, TypeOK, Quiet

(* Every step keeps the invariant and is a step of TaskQueue or a stutter. *)
LEMMA Step == IInv /\ [Next]_vars => IInv' /\ [Q!Next]_(Q!vars)
<1> SUFFICES ASSUME IInv, [Next]_vars PROVE IInv' /\ [Q!Next]_(Q!vars)
  OBVIOUS
<1>1. ASSUME NEW w \in Worker, WorkerStep(w) \/ WorkerWakes(w)
      PROVE  IInv' /\ [Q!Next]_(Q!vars)
  <2>1. CASE WorkerRun(w)
    <3>1. func[w] \in Task BY <2>1 DEF IInv, TypeOK, WorkerRun, WorkerAt
    <3>2. QED BY <2>1, <3>1, RunStep DEF Q!Next
  <2>2. CASE WorkerDequeue(w)
    <3>1. CASE queue = <<>>
      BY <2>2, <3>1, EmptyDequeue, QuietStep DEF IInv
    <3>2. CASE queue # <<>>
      BY <2>2, <3>2, TakeStep DEF Q!Next
    <3>3. QED BY <3>1, <3>2
  <2>3. CASE ~WorkerRun(w) /\ ~WorkerDequeue(w)
    BY <1>1, <2>3, WorkerQuiet, QuietStep DEF IInv, WorkerStep
  <2>4. QED BY <2>1, <2>2, <2>3
<1>2. ASSUME NEW c \in Client, NEW t \in Task, Submit(c, t)
      PROVE  IInv' /\ [Q!Next]_(Q!vars)
  BY <1>2, SubmitStep DEF Q!Next
<1>3. ASSUME InitPool \/ Shutdown \/ \E c \in Client : ClientStep(c)
      PROVE  IInv' /\ [Q!Next]_(Q!vars)
  BY <1>3, ClientQuiet, QuietStep DEF IInv, ClientStep
<1>4. CASE UNCHANGED vars
  <2>1. TypeOK' /\ Quiet BY <1>4 DEF vars, IInv, TypeOK, Quiet
  <2>2. QED BY <2>1, QuietStep
<1>5. QED BY <1>1, <1>2, <1>3, <1>4 DEF Next

(* Initially every task is unsubmitted, here and in TaskQueue. *)
LEMMA InitStep == Init => IInv /\ Q!Init
<1> SUFFICES ASSUME Init PROVE IInv /\ Q!Init
  OBVIOUS
<1>1. TypeOK
  <2>1. queue \in Seq(Task) BY EmptySeq DEF Init
  <2>2. QED BY <2>1 DEF Init, TypeOK
<1>2. Apart BY DEF Init, Apart, InHand
<1>3. Running = {} BY DEF Init, Running
<1>4. QED BY <1>1, <1>2, <1>3 DEF Init, IInv, Q!Init

(* Every reachable state of every pool is typed: no worker calls an empty   *)
(* function.                                                                *)
THEOREM TypeCorrect == Spec => []TypeOK
<1>1. IInv => TypeOK BY DEF IInv
<1>2. QED BY <1>1, InitStep, Step, PTL DEF Spec

(* Whatever the workers, the clients and the tasks, the pool implements     *)
(* TaskQueue: each task starts once, in the order of submission.            *)
THEOREM PoolImplementsQueue == Spec => QueueSpec
<1>1. QueueSpec <=> Q!Init /\ [][Q!Next]_(Q!vars) BY DEF QueueSpec, Q!Spec
<1>2. QED BY <1>1, InitStep, Step, PTL DEF Spec
-----------------------------------------------------------------------------
\* A task is somewhere: no step drops it ...
Somewhere(t) == \/ t \in finished \/ t \in todo
                \/ \E i \in 1..Len(queue) : queue[i] = t
                \/ \E w \in Worker : InHand(w) /\ func[w] = t
Kept == \A t \in Task : Somewhere(t)

\* ... and once shutdown() has joined the threads, none of them does anything.
Still == cpc[Main] = "joined" => \A w \in Worker : wpc[w] \in {"new", "exit"}

(* A client that has left shutdown() never leaves "joined", and gets there  *)
(* through Join only.                                                       *)
LEMMA StillStep == IInv /\ Still /\ [Next]_vars => Still'
<1> SUFFICES ASSUME IInv, Still, [Next]_vars, cpc'[Main] = "joined",
                    NEW v \in Worker
             PROVE  wpc'[v] \in {"new", "exit"}
  BY DEF Still
<1> USE PoolAssumption DEF WorkerAt, WorkerTo, ClientAt, ClientTo
<1>0. wpc \in [Worker -> {"new", "loop", "lock", "empty?", "wait", "asleep",
                         "woken", "dequeue", "run", "exit"}]
      /\ cpc \in [Client -> {"idle", "notify", "notify all", "join", "joined"}]
  BY DEF IInv, TypeOK
<1>1. ASSUME NEW w \in Worker, WorkerStep(w) \/ WorkerWakes(w)
      PROVE  wpc'[v] \in {"new", "exit"}
  <2>1. cpc' = cpc /\ wpc[w] \notin {"new", "exit"}
    BY <1>1 DEF WorkerStep, WorkerWakes, WorkerLoop, WorkerLock, WorkerEmpty,
                WorkerWait, WorkerRelock, WorkerDequeue, WorkerRun
  <2>2. QED BY <2>1 DEF Still
<1>2. ASSUME NEW c \in Client, NEW t \in Task, Submit(c, t)
      PROVE  wpc'[v] \in {"new", "exit"}
  BY <1>2, <1>0 DEF Submit, Still
<1>3. CASE InitPool BY <1>3 DEF InitPool
<1>4. CASE Shutdown BY <1>4, <1>0 DEF Shutdown
<1>5. CASE NotifyAll BY <1>5, <1>0 DEF NotifyAll
<1>6. CASE Join BY <1>6 DEF Join
<1>7. ASSUME NEW c \in Client, NotifyOne(c)
      PROVE  wpc'[v] \in {"new", "exit"}
  <2>1. cpc[Main] = "joined" BY <1>7, <1>0 DEF NotifyOne
  <2>2. \A w \in Worker : ~WorkerAt(w, "asleep") BY <2>1 DEF Still
  <2>3. UNCHANGED wpc BY <1>7, <2>2 DEF NotifyOne
  <2>4. QED BY <2>1, <2>3 DEF Still
<1>8. CASE UNCHANGED vars BY <1>8 DEF vars, Still
<1>9. QED BY <1>1, <1>2, <1>3, <1>4, <1>5, <1>6, <1>7, <1>8 DEF Next, ClientStep

(* Submitting, taking and executing move one task from one place to the     *)
(* next; every other step is quiet.                                         *)
LEMMA KeptStep == IInv /\ Kept /\ [Next]_vars => Kept'
<1> SUFFICES ASSUME IInv, Kept, [Next]_vars PROVE Kept'
  OBVIOUS
<1>0. ASSUME Quiet PROVE Kept'
  BY <1>0 DEF Quiet, Kept, Somewhere, InHand
<1>1. ASSUME NEW w \in Worker, WorkerRun(w) PROVE Kept'
  <2>1. /\ wpc[w] = "run" /\ wpc' = [wpc EXCEPT ![w] = "loop"]
        /\ finished' = finished \cup {func[w]} /\ UNCHANGED <<queue, func, todo>>
    BY <1>1 DEF WorkerRun, WorkerAt, WorkerTo
  <2>2. \A v \in Worker \ {w} : wpc'[v] = wpc[v]
    BY <2>1 DEF IInv, TypeOK
  <2>3. ASSUME NEW t \in Task PROVE Somewhere(t)'
    <3>1. CASE \E v \in Worker \ {w} : InHand(v) /\ func[v] = t
      BY <3>1, <2>1, <2>2 DEF Somewhere, InHand
    <3>2. CASE func[w] = t BY <3>2, <2>1 DEF Somewhere
    <3>3. CASE t \in finished \/ t \in todo \/ \E i \in 1..Len(queue) : queue[i] = t
      BY <3>3, <2>1 DEF Somewhere
    <3>4. QED BY <3>1, <3>2, <3>3 DEF Kept, Somewhere
  <2>4. QED BY <2>3 DEF Kept
<1>2. ASSUME NEW w \in Worker, WorkerDequeue(w), queue # <<>> PROVE Kept'
  <2>1. queue \in Seq(Task) /\ wpc[w] = "dequeue"
    BY <1>2 DEF IInv, TypeOK, WorkerDequeue, WorkerAt
  <2>2. /\ wpc' = [wpc EXCEPT ![w] = "run"] /\ func' = [func EXCEPT ![w] = Head(queue)]
        /\ queue' = Tail(queue) /\ UNCHANGED <<todo, finished>>
    BY <1>2 DEF WorkerDequeue, WorkerTo
  <2>3. /\ wpc'[w] = "run" /\ func'[w] = Head(queue)
        /\ \A v \in Worker \ {w} : wpc'[v] = wpc[v] /\ func'[v] = func[v]
    BY <2>2 DEF IInv, TypeOK
  <2>4. /\ Len(queue') = Len(queue) - 1 /\ Len(queue) \in Nat \ {0}
        /\ \A j \in 1..Len(queue') : queue'[j] = queue[j + 1]
        /\ Head(queue) = queue[1]
    BY <1>2, <2>1, <2>2
  <2>5. \A i \in 1..Len(queue) : i = 1 \/ (i - 1 \in 1..Len(queue') /\ queue'[i - 1] = queue[i])
    BY <2>4
  <2>6. ASSUME NEW t \in Task PROVE Somewhere(t)'
    <3>1. CASE \E v \in Worker : InHand(v) /\ func[v] = t
      BY <3>1, <2>1, <2>3 DEF Somewhere, InHand
    <3>2. ASSUME NEW i \in 1..Len(queue), queue[i] = t PROVE Somewhere(t)'
      BY <3>2, <2>3, <2>4, <2>5 DEF Somewhere, InHand
    <3>3. CASE t \in finished \/ t \in todo
      BY <3>3, <2>2 DEF Somewhere
    <3>4. QED BY <3>1, <3>2, <3>3 DEF Kept, Somewhere
  <2>7. QED BY <2>6 DEF Kept
<1>3. ASSUME NEW w \in Worker, WorkerDequeue(w), queue = <<>> PROVE Kept'
  BY <1>0, <1>3, EmptyDequeue DEF IInv
<1>4. ASSUME NEW w \in Worker, WorkerStep(w) \/ WorkerWakes(w),
             ~WorkerRun(w) /\ ~WorkerDequeue(w)
      PROVE  Kept'
  BY <1>0, <1>4, WorkerQuiet DEF IInv, WorkerStep
<1>5. ASSUME NEW c \in Client, NEW s \in Task, Submit(c, s) PROVE Kept'
  <2>1. queue \in Seq(Task) BY DEF IInv, TypeOK
  <2>2. /\ queue' = Append(queue, s) /\ todo' = todo \ {s}
        /\ UNCHANGED <<wpc, func, finished>>
    BY <1>5 DEF Submit
  <2>3. /\ Len(queue') = Len(queue) + 1 /\ Len(queue) \in Nat
        /\ \A i \in 1..Len(queue) : queue'[i] = queue[i] /\ i \in 1..Len(queue')
        /\ queue'[Len(queue')] = s /\ Len(queue') \in 1..Len(queue')
    BY <2>1, <2>2
  <2>4. ASSUME NEW t \in Task PROVE Somewhere(t)'
    BY <2>2, <2>3 DEF Kept, Somewhere, InHand
  <2>5. QED BY <2>4 DEF Kept
<1>6. ASSUME InitPool \/ Shutdown \/ \E c \in Client : ClientStep(c) PROVE Kept'
  BY <1>0, <1>6, ClientQuiet DEF IInv, ClientStep
<1>7. CASE UNCHANGED vars BY <1>0, <1>7 DEF vars, Quiet
<1>8. QED BY <1>1, <1>2, <1>3, <1>4, <1>5, <1>6, <1>7 DEF Next, WorkerStep

(* Whatever the workers, the clients and the tasks: when shutdown() returns *)
(* no task is half done, and none was lost on its way through the pool.     *)
THEOREM JoinLosesNothing == Spec => []JoinedIsFinished
<1>1. Init => Kept /\ Still
  BY PoolAssumption DEF Init, Kept, Somewhere, Still
<1>2. IInv /\ Kept /\ Still => JoinedIsFinished
  <2> SUFFICES ASSUME IInv, Kept, Still, cpc[Main] = "joined"
               PROVE  /\ Running = {}
                      /\ finished \cup todo \cup {queue[i] : i \in DOMAIN queue} = Task
    BY DEF JoinedIsFinished
  <2>1. \A w \in Worker : wpc[w] # "run" BY DEF Still
  <2>2. Running = {} BY <2>1 DEF Running
  <2>3. queue \in Seq(Task) /\ todo \subseteq Task /\ finished \subseteq Task
    BY DEF IInv, TypeOK
  <2>4. DOMAIN queue = 1..Len(queue) /\ \A i \in DOMAIN queue : queue[i] \in Task
    BY <2>3, LenProperties, ElementOfSeq
  <2>5. \A t \in Task : t \in finished \/ t \in todo \/ \E i \in DOMAIN queue : queue[i] = t
    BY <2>1, <2>4 DEF Kept, Somewhere, InHand
  <2>6. QED BY <2>2, <2>3, <2>4, <2>5
<1>3. QED BY <1>1, <1>2, InitStep, Step, StillStep, KeptStep, PTL DEF Spec
-----------------------------------------------------------------------------
(* No wake-up is lost                                                       *)

\* One worker at a time is between its look at the queue and what follows.
Inside == {"empty?", "wait", "dequeue"}
OneInside ==
  /\ \A w \in Worker : wpc[w] \in Inside => mutex
  /\ \A v, w \in Worker : wpc[v] \in Inside /\ wpc[w] \in Inside => v = w

Leaving == \A w \in Worker : wpc[w] = "exit" => shutdown

\* A worker that comes to look at the queue without being woken for it.
Awake(w) == wpc[w] \notin {"wait", "asleep", "exit"}

(* While the pool runs, a task in the queue for which everybody has been    *)
(* notified finds a worker awake: not all of them are deaf to submit(),     *)
(* however the notifications fell (the wait() of ThreadWorker::operator(),  *)
(* which has no predicate).                                                 *)
Attended ==
  (/\ ~shutdown /\ queue # <<>>
   /\ \A w \in Worker : wpc[w] # "new"
   /\ \A c \in Client : cpc[c] # "notify")
  => \E w \in Worker : Awake(w)

WakeInv == OneInside /\ Leaving /\ Attended

(* A step that leaves where the workers are, who holds the mutex and        *)
(* whether the pool runs.                                                   *)
LEMMA SameWorkers ==
  ASSUME WakeInv, UNCHANGED <<wpc, mutex>>, shutdown => shutdown'
  PROVE  (OneInside /\ Leaving)'
BY DEF WakeInv, OneInside, Leaving, Inside

(* The steps of one worker: who takes the mutex finds it free, and only who *)
(* has seen an empty queue goes to sleep.                                   *)
LEMMA WorkerWake ==
  ASSUME TypeOK, WakeInv, NEW w \in Worker, WorkerStep(w) \/ WorkerWakes(w)
  PROVE  WakeInv'
<1> USE DEF WorkerAt, WorkerTo
<1> DEFINE l == wpc'[w]
<1>1. /\ wpc' = [wpc EXCEPT ![w] = l]
      /\ wpc[w] # "new" /\ wpc[w] # "exit" /\ l # "new"
      /\ l \in Inside => mutex' /\ (wpc[w] \in Inside \/ ~mutex)
      /\ mutex => mutex' \/ wpc[w] \in Inside
      /\ l = "exit" => shutdown
      /\ l = "wait" => queue' = <<>>
      /\ l = "asleep" => wpc[w] = "wait"
  <2> USE DEF TypeOK, Inside
  <2>1. CASE WorkerLoop(w) BY <2>1 DEF WorkerLoop
  <2>2. CASE WorkerLock(w) BY <2>2 DEF WorkerLock
  <2>3. CASE WorkerEmpty(w) BY <2>3 DEF WorkerEmpty, WakeInv, OneInside
  <2>4. CASE WorkerWait(w) BY <2>4 DEF WorkerWait
  <2>5. CASE WorkerWakes(w) BY <2>5 DEF WorkerWakes
  <2>6. CASE WorkerRelock(w) BY <2>6 DEF WorkerRelock
  <2>7. CASE WorkerDequeue(w) BY <2>7 DEF WorkerDequeue
  <2>8. CASE WorkerRun(w) BY <2>8 DEF WorkerRun
  <2>9. QED BY <2>1, <2>2, <2>3, <2>4, <2>5, <2>6, <2>7, <2>8 DEF WorkerStep
<1>2. /\ UNCHANGED <<shutdown, cpc>> /\ (queue' # <<>> => queue # <<>>)
  BY DEF WorkerStep, WorkerWakes, WorkerLoop, WorkerLock, WorkerEmpty, WorkerWait,
         WorkerRelock, WorkerDequeue, WorkerRun
<1>3. \A v \in Worker \ {w} : wpc'[v] = wpc[v]
  BY <1>1 DEF TypeOK
<1>4. OneInside'
  <2>1. ASSUME NEW v \in Worker, v # w, wpc[v] \in Inside
        PROVE  mutex' /\ l \notin Inside
    BY <2>1, <1>1 DEF WakeInv, OneInside
  <2>2. QED BY <2>1, <1>1, <1>3 DEF WakeInv, OneInside
<1>5. Leaving' BY <1>1, <1>2, <1>3 DEF WakeInv, Leaving
<1>6. ASSUME ~shutdown', queue' # <<>>, \A c \in Client : cpc'[c] # "notify",
             \A v \in Worker : wpc'[v] # "new"
      PROVE  \E v \in Worker : Awake(v)'
  <2>1. \A v \in Worker : wpc[v] # "new" BY <1>1, <1>3, <1>6
  <2>2. PICK v \in Worker : Awake(v) BY <2>1, <1>2, <1>6 DEF WakeInv, Attended
  <2>3. v # w => Awake(v)' BY <2>2, <1>3 DEF Awake
  <2>4. v = w => Awake(v)' BY <2>2, <1>1, <1>2, <1>3, <1>6 DEF Awake
  <2>5. QED BY <2>3, <2>4
<1>7. QED BY <1>4, <1>5, <1>6 DEF WakeInv, Attended

(* The last notification for what is in the queue wakes a sleeper, or all   *)
(* are awake but for one that is about to sleep: then there is another.     *)
LEMMA NotifyWake ==
  ASSUME TypeOK, WakeInv, NEW c \in Client, NotifyOne(c),
         \E v, w \in Worker : v # w
  PROVE  WakeInv'
<1> USE DEF WorkerAt, WorkerTo
<1>1. UNCHANGED <<shutdown, queue, mutex>> BY DEF NotifyOne
<1>2. ASSUME NEW w \in Worker, wpc[w] = "asleep", wpc' = [wpc EXCEPT ![w] = "woken"]
      PROVE  WakeInv'
  <2>1. wpc'[w] = "woken" /\ \A v \in Worker \ {w} : wpc'[v] = wpc[v]
    BY <1>2 DEF TypeOK
  <2>2. OneInside' BY <2>1, <1>1 DEF WakeInv, OneInside, Inside
  <2>3. Leaving' BY <2>1, <1>1 DEF WakeInv, Leaving
  <2>4. Attended' BY <2>1 DEF Attended, Awake
  <2>5. QED BY <2>2, <2>3, <2>4 DEF WakeInv
<1>3. CASE UNCHANGED wpc /\ \A w \in Worker : wpc[w] # "asleep"
  <2>1. (OneInside /\ Leaving)' BY <1>1, <1>3, SameWorkers
  <2>2. PICK v \in Worker, w \in Worker : v # w OBVIOUS
  <2>3. wpc[v] # "wait" \/ wpc[w] # "wait" BY <2>2 DEF WakeInv, OneInside, Inside
  <2>4. ~shutdown => Awake(v) \/ Awake(w) BY <2>3, <1>3 DEF WakeInv, Leaving, Awake
  <2>5. Attended' BY <2>4, <1>1, <1>3 DEF Attended, Awake
  <2>6. QED BY <2>1, <2>5 DEF WakeInv
<1>4. QED BY <1>2, <1>3 DEF NotifyOne

(* init(), submit() and shutdown(): a task that is put into the queue has   *)
(* its notification still to come.                                          *)
LEMMA CallsWake ==
  ASSUME TypeOK, WakeInv, Worker # {},
         InitPool \/ Shutdown \/ NotifyAll \/ Join
           \/ \E c \in Client, t \in Task : Submit(c, t)
  PROVE  WakeInv'
<1> USE PoolAssumption DEF WorkerAt, WorkerTo, ClientAt, ClientTo
<1>1. CASE InitPool
  BY <1>1 DEF InitPool, WakeInv, OneInside, Inside, Leaving, Attended, Awake
<1>2. CASE Shutdown
  <2>1. shutdown' /\ UNCHANGED <<wpc, mutex>> BY <1>2 DEF Shutdown
  <2>2. (OneInside /\ Leaving)' BY <2>1, SameWorkers
  <2>3. QED BY <2>1, <2>2 DEF WakeInv, Attended
<1>3. CASE NotifyAll
  <2>1. /\ \A w \in Worker : wpc'[w] = IF wpc[w] = "asleep" THEN "woken" ELSE wpc[w]
        /\ UNCHANGED <<shutdown, queue, mutex>>
        /\ \A c \in Client : cpc'[c] # "notify" => cpc[c] # "notify"
    BY <1>3 DEF NotifyAll, TypeOK
  <2>2. OneInside' /\ Leaving' BY <2>1 DEF WakeInv, OneInside, Inside, Leaving
  <2>3. Attended'
    <3>1. \A w \in Worker : Awake(w) => Awake(w)' BY <2>1 DEF Awake
    <3>2. \A w \in Worker : wpc'[w] # "new" => wpc[w] # "new" BY <2>1
    <3>3. QED BY <2>1, <3>1, <3>2 DEF WakeInv, Attended
  <2>4. QED BY <2>2, <2>3 DEF WakeInv
<1>4. CASE Join
  <2>1. /\ UNCHANGED <<shutdown, queue, mutex, wpc>>
        /\ \A c \in Client : cpc'[c] # "notify" => cpc[c] # "notify"
    BY <1>4 DEF Join, TypeOK
  <2>2. (OneInside /\ Leaving)' BY <2>1, SameWorkers
  <2>3. QED BY <2>1, <2>2 DEF WakeInv, Attended, Awake
<1>5. ASSUME NEW c \in Client, NEW t \in Task, Submit(c, t) PROVE WakeInv'
  <2>1. UNCHANGED <<shutdown, mutex, wpc>> /\ cpc'[c] = "notify"
    BY <1>5 DEF Submit, TypeOK
  <2>2. (OneInside /\ Leaving)' BY <2>1, SameWorkers
  <2>3. QED BY <2>1, <2>2 DEF WakeInv, Attended
<1>6. QED BY <1>1, <1>2, <1>3, <1>4, <1>5

(* Every step of a pool with two workers keeps the invariant.               *)
LEMMA WakeStep ==
  ASSUME TypeOK, WakeInv, [Next]_vars, \E v, w \in Worker : v # w
  PROVE  WakeInv'
<1>1. CASE UNCHANGED vars
  BY <1>1 DEF vars, WakeInv, OneInside, Leaving, Attended, Awake, Inside
<1>2. CASE \E w \in Worker : WorkerStep(w) \/ WorkerWakes(w) BY <1>2, WorkerWake
<1>3. CASE \E c \in Client : NotifyOne(c) BY <1>3, NotifyWake
<1>4. CASE InitPool \/ Shutdown \/ NotifyAll \/ Join
             \/ \E c \in Client, t \in Task : Submit(c, t)
  BY <1>4, CallsWake
<1>5. QED BY <1>1, <1>2, <1>3, <1>4 DEF Next, ClientStep

(* In a pool of two workers or more, whatever the clients and the tasks, no *)
(* wake-up is lost for good: when all that is in the queue was notified,    *)
(* some worker is awake and will come to it (submit, ThreadPool.h:93). With *)
(* one worker this fails, as the README says.                               *)
THEOREM NotAllAsleep ==
  ASSUME \E v, w \in Worker : v # w
  PROVE  Spec => []Attended
<1>1. Init => WakeInv
  BY DEF Init, WakeInv, OneInside, Leaving, Attended, Inside
<1>2. TypeOK /\ WakeInv /\ [Next]_vars => WakeInv' BY WakeStep
<1>3. WakeInv => Attended BY DEF WakeInv
<1>4. QED BY <1>1, <1>2, <1>3, TypeCorrect, PTL DEF Spec
=============================================================================
