------------------------------ MODULE TaskQueue ------------------------------
(***************************************************************************)
(* What a pool of threads promises of the tasks given to it: they start in *)
(* the order they were submitted in, each of them once, and a task that    *)
(* has started finishes. Nothing is promised about which thread runs it.   *)
(***************************************************************************)
EXTENDS Naturals, Sequences

CONSTANT Task

VARIABLES todo,      \* tasks not yet submitted
          pending,   \* tasks waiting, in the order of submission
          running, finished

vars == <<todo, pending, running, finished>>

Init == todo = Task /\ pending = <<>> /\ running = {} /\ finished = {}

Submit(t) == /\ t \in todo
             /\ todo' = todo \ {t} /\ pending' = Append(pending, t)
             /\ UNCHANGED <<running, finished>>

Start == /\ pending # <<>> /\ Head(pending) \notin running \cup finished
         /\ running' = running \cup {Head(pending)} /\ pending' = Tail(pending)
         /\ UNCHANGED <<todo, finished>>

Finish(t) == /\ t \in running
             /\ running' = running \ {t} /\ finished' = finished \cup {t}
             /\ UNCHANGED <<todo, pending>>

Next == Start \/ \E t \in Task : Submit(t) \/ Finish(t)

Spec == Init /\ [][Next]_vars
=============================================================================
