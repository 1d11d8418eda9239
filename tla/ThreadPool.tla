------------------------------ MODULE ThreadPool ------------------------------
(***************************************************************************)
(* ThreadPool.h over SafeQueue.h: the worker loop, submit() and shutdown().*)
(* The worker holds m_conditional_mutex from its look at the queue until   *)
(* it has dequeued or sleeps; submit() and shutdown() never take it. Each  *)
(* operation of SafeQueue is one step, under the queue's own mutex.        *)
(***************************************************************************)
EXTENDS Naturals, Sequences

CONSTANTS Worker, Client, Task,
          Main,      \* the client that calls init() and shutdown()
          NoTask     \* an empty std::function

ASSUME PoolAssumption == Main \in Client /\ NoTask \notin Task

VARIABLES shutdown,  \* m_shutdown
          queue,     \* m_queue
          mutex,     \* m_conditional_mutex is held
          wpc,       \* where each worker is
          func,      \* the function each worker dequeued last
          cpc,       \* where each client is
          todo,      \* tasks no client has submitted yet
          finished   \* tasks that have been executed

vars == <<shutdown, queue, mutex, wpc, func, cpc, todo, finished>>

Init ==
  /\ shutdown = FALSE /\ queue = <<>> /\ mutex = FALSE
  /\ wpc = [w \in Worker |-> "new"] /\ func = [w \in Worker |-> NoTask]
  /\ cpc = [c \in Client |-> "idle"]
  /\ todo = Task /\ finished = {}

WorkerAt(w, l) == wpc[w] = l
WorkerTo(w, l) == wpc' = [wpc EXCEPT ![w] = l]
ClientAt(c, l) == cpc[c] = l
ClientTo(c, l) == cpc' = [cpc EXCEPT ![c] = l]
-----------------------------------------------------------------------------
(* ThreadWorker::operator() *)

WorkerLoop(w) ==
  /\ WorkerAt(w, "loop")
  /\ WorkerTo(w, IF shutdown THEN "exit" ELSE "lock")
  /\ UNCHANGED <<shutdown, queue, mutex, func, cpc, todo, finished>>

WorkerLock(w) ==
  /\ WorkerAt(w, "lock") /\ ~mutex
  /\ mutex' = TRUE
  /\ WorkerTo(w, "empty?")
  /\ UNCHANGED <<shutdown, queue, func, cpc, todo, finished>>

\* m_queue.empty(): what it says may be old when the worker acts on it.
WorkerEmpty(w) ==
  /\ WorkerAt(w, "empty?")
  /\ WorkerTo(w, IF queue = <<>> THEN "wait" ELSE "dequeue")
  /\ UNCHANGED <<shutdown, queue, mutex, func, cpc, todo, finished>>

\* wait() releases the mutex and sleeps in one step, whatever the queue holds.
WorkerWait(w) ==
  /\ WorkerAt(w, "wait")
  /\ mutex' = FALSE
  /\ WorkerTo(w, "asleep")
  /\ UNCHANGED <<shutdown, queue, func, cpc, todo, finished>>

\* wait() may also return without a notification.
WorkerWakes(w) ==
  /\ WorkerAt(w, "asleep")
  /\ WorkerTo(w, "woken")
  /\ UNCHANGED <<shutdown, queue, mutex, func, cpc, todo, finished>>

WorkerRelock(w) ==
  /\ WorkerAt(w, "woken") /\ ~mutex
  /\ mutex' = TRUE
  /\ WorkerTo(w, "dequeue")
  /\ UNCHANGED <<shutdown, queue, func, cpc, todo, finished>>

WorkerDequeue_NoPop(w) ==
  /\ WorkerAt(w, "dequeue")
  /\ \/ queue = <<>> /\ WorkerTo(w, "loop") /\ UNCHANGED func
     \/ /\ queue # <<>> /\ WorkerTo(w, "run")
        /\ func' = [func EXCEPT ![w] = Head(queue)]
  /\ mutex' = FALSE
  /\ UNCHANGED <<shutdown, queue, cpc, todo, finished>>

WorkerDequeue_GivesUp(w) ==
  /\ WorkerAt(w, "dequeue")
  /\ \/ queue = <<>> /\ WorkerTo(w, "exit") /\ UNCHANGED <<queue, func>>
     \/ /\ queue # <<>> /\ WorkerTo(w, "run")
        /\ func' = [func EXCEPT ![w] = Head(queue)] /\ queue' = Tail(queue)
  /\ mutex' = FALSE
  /\ UNCHANGED <<shutdown, cpc, todo, finished>>

\* dequeue(), the end of the locked block, and the test of its result.
WorkerDequeue(w) ==
  /\ WorkerAt(w, "dequeue")
  /\ \/ queue = <<>> /\ WorkerTo(w, "loop") /\ UNCHANGED <<queue, func>>
     \/ /\ queue # <<>> /\ WorkerTo(w, "run")
        /\ func' = [func EXCEPT ![w] = Head(queue)] /\ queue' = Tail(queue)
  /\ mutex' = FALSE
  /\ UNCHANGED <<shutdown, cpc, todo, finished>>

WorkerRun(w) ==
  /\ WorkerAt(w, "run")
  /\ finished' = finished \cup {func[w]}
  /\ WorkerTo(w, "loop")
  /\ UNCHANGED <<shutdown, queue, mutex, func, cpc, todo>>
-----------------------------------------------------------------------------
(* init(), submit() and shutdown() *)

InitPool ==
  /\ ClientAt(Main, "idle")
  /\ \A w \in Worker : WorkerAt(w, "new")
  /\ wpc' = [w \in Worker |-> "loop"]
  /\ UNCHANGED <<shutdown, queue, mutex, func, cpc, todo, finished>>

Submit(c, t) ==
  /\ ClientAt(c, "idle") /\ t \in todo
  /\ queue' = Append(queue, t)
  /\ todo' = todo \ {t}
  /\ ClientTo(c, "notify")
  /\ UNCHANGED <<shutdown, mutex, wpc, func, finished>>

\* notify_one() wakes one sleeper, if there is one now.
NotifyOne(c) ==
  /\ ClientAt(c, "notify")
  /\ \/ \E w \in Worker : WorkerAt(w, "asleep") /\ WorkerTo(w, "woken")
     \/ (\A w \in Worker : ~WorkerAt(w, "asleep")) /\ UNCHANGED wpc
  /\ ClientTo(c, "idle")
  /\ UNCHANGED <<shutdown, queue, mutex, func, todo, finished>>

Shutdown ==
  /\ ClientAt(Main, "idle")
  /\ shutdown' = TRUE
  /\ ClientTo(Main, "notify all")
  /\ UNCHANGED <<queue, mutex, wpc, func, todo, finished>>

NotifyAll ==
  /\ ClientAt(Main, "notify all")
  /\ wpc' = [w \in Worker |-> IF WorkerAt(w, "asleep") THEN "woken" ELSE wpc[w]]
  /\ ClientTo(Main, "join")
  /\ UNCHANGED <<shutdown, queue, mutex, func, todo, finished>>

Join_OnlyFlag ==
  /\ ClientAt(Main, "join") /\ shutdown
  /\ ClientTo(Main, "joined")
  /\ UNCHANGED <<shutdown, queue, mutex, wpc, func, todo, finished>>

\* join() of every thread that is joinable.
Join ==
  /\ ClientAt(Main, "join")
  /\ \A w \in Worker : wpc[w] \in {"new", "exit"}
  /\ ClientTo(Main, "joined")
  /\ UNCHANGED <<shutdown, queue, mutex, wpc, func, todo, finished>>
-----------------------------------------------------------------------------
WorkerStep(w) == \/ WorkerLoop(w) \/ WorkerLock(w) \/ WorkerEmpty(w)
                 \/ WorkerWait(w) \/ WorkerRelock(w) \/ WorkerDequeue(w)
                 \/ WorkerRun(w)

ClientStep(c) == NotifyOne(c) \/ (c = Main /\ (NotifyAll \/ Join))

Next == \/ \E w \in Worker : WorkerStep(w) \/ WorkerWakes(w)
        \/ \E c \in Client : ClientStep(c) \/ \E t \in Task : Submit(c, t)
        \/ InitPool \/ Shutdown

Spec == Init /\ [][Next]_vars

\* The threads run and a mutex that is free again and again is obtained; no
\* sleeper wakes by itself, and the clients need not call.
FairSpec ==
  /\ Spec
  /\ \A w \in Worker : WF_vars(WorkerStep(w)) /\ SF_vars(WorkerLock(w) \/ WorkerRelock(w))
  /\ \A c \in Client : WF_vars(ClientStep(c))
-----------------------------------------------------------------------------
(* The types; no worker ever calls an empty std::function.                  *)
TypeOK ==
  /\ shutdown \in BOOLEAN /\ queue \in Seq(Task) /\ mutex \in BOOLEAN
  /\ wpc \in [Worker -> {"new", "loop", "lock", "empty?", "wait", "asleep",
                         "woken", "dequeue", "run", "exit"}]
  /\ func \in [Worker -> Task \cup {NoTask}]
  /\ cpc \in [Client -> {"idle", "notify", "notify all", "join", "joined"}]
  /\ todo \in SUBSET Task /\ finished \in SUBSET Task
  /\ \A w \in Worker : wpc[w] = "run" => func[w] \in Task

\* What the workers are executing.
Running == {func[w] : w \in {v \in Worker : wpc[v] = "run"}}

(* The pool keeps the promise of TaskQueue: tasks start in the order of     *)
(* submission, once each, by whatever interleaving of workers and clients.  *)
Q == INSTANCE TaskQueue WITH pending <- queue, running <- Running
QueueSpec == Q!Spec

(* When shutdown() returns, no worker is in the middle of a task and every  *)
(* task was executed, is still in the queue, or was never submitted.        *)
JoinedIsFinished ==
  cpc[Main] = "joined" =>
    /\ Running = {}
    /\ finished \cup todo \cup {queue[i] : i \in DOMAIN queue} = Task

(* A task submitted to a running pool is executed: submit() wakes a thread  *)
(* for it ("Wake up one thread if its waiting", ThreadPool.h:93). The notify *)
(* can be lost, but where there are two workers not both can be deaf to it. *)
SubmittedRuns ==
  \A t \in Task :
    (t \notin todo /\ \A w \in Worker : wpc[w] # "new") ~> (t \in finished \/ shutdown)

(* shutdown() returns ("Waits until threads finish their current task and   *)
(* shutdowns the pool", ThreadPool.h:65).                                   *)
ShutdownReturns == shutdown ~> cpc[Main] = "joined"
=============================================================================
