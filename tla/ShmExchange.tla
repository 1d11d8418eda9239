----------------------------- MODULE ShmExchange -----------------------------
(***************************************************************************)
(* 10_share_memory/POSIX/read_first: loop_posix_read.cpp creates a shared  *)
(* memory object and two semaphores and reads messages for ever, each run  *)
(* of posix_write.c opens the three by name, writes one message and waits  *)
(* for its acknowledgment. Any process may be killed, the reader may be    *)
(* interrupted with SIGINT, and both may be started again.                 *)
(*                                                                         *)
(* An object is named by the start of the reader that created it; 0 is no  *)
(* object. A name that was unlinked may live on in a process that opened   *)
(* it. disturbed is TRUE from the moment an exchange under way is broken   *)
(* off or overlapped by another until a reader starts with no writer there.*)
(***************************************************************************)
EXTENDS Naturals

CONSTANTS Writer,      \* runs of posix_write.c, each with a message of its own
          Torn, Empty, \* other contents of the memory
          MaxStarts    \* starts of the reader (bound)

ASSUME ShmAssumption ==
  Torn \notin Writer /\ Empty \notin Writer /\ Torn # Empty /\ MaxStarts \in Nat

Key == {"shm", "write_sem", "read_sem"}
Object == 0..MaxStarts

VARIABLES name,       \* what each name refers to
          data,       \* object |-> content of the shared memory
          sem,        \* "write_sem" or "read_sem" |-> object |-> value
          rpc, rhas,  \* where the reader is, and the objects it has opened
          exit,       \* should_exit
          got,        \* what the reader has read
          starts,
          wpc, has,   \* where each writer is, and the objects it has opened
          seen,       \* history: messages the reader has read
          acked,      \* history: writers acknowledged undisturbed
          disturbed

reader == <<rpc, rhas, exit, got, starts, seen>>
writers == <<wpc, has, acked>>
vars == <<name, data, sem, reader, writers, disturbed>>

None == [k \in Key |-> 0]
Inside == {"copy", "post", "ack"}
Active(w) == wpc[w] \in Inside \cup {"open_write_sem", "open_read_sem", "write"}
SomeActive == \E w \in Writer : Active(w)

Init ==
  /\ name = None
  /\ data = [o \in Object |-> Empty]
  /\ sem = [k \in Key |-> [o \in Object |-> 0]]
  /\ rpc = "gone" /\ rhas = None /\ exit = FALSE /\ got = Empty /\ starts = 0
  /\ wpc = [w \in Writer |-> "idle"] /\ has = [w \in Writer |-> None]
  /\ seen = {} /\ acked = {} /\ disturbed = FALSE

ReaderTo(l) == rpc' = l
WriterTo(w, l) == wpc' = [wpc EXCEPT ![w] = l]
-----------------------------------------------------------------------------
(* The reader: SyncSharedMemoryReader::init().                              *)

ReaderStart_KeepsNames ==
  /\ rpc \in {"gone", "killed"} /\ starts < MaxStarts
  /\ starts' = starts + 1 /\ rhas' = None /\ exit' = FALSE
  /\ disturbed' = SomeActive
  /\ ReaderTo("shm")
  /\ UNCHANGED <<name, data, sem, got, seen, writers>>

\* What is left of an earlier run is unlinked first.
ReaderStart ==
  /\ rpc \in {"gone", "killed"} /\ starts < MaxStarts
  /\ starts' = starts + 1 /\ rhas' = None /\ exit' = FALSE
  /\ name' = None
  /\ disturbed' = SomeActive
  /\ ReaderTo("shm")
  /\ UNCHANGED <<data, sem, got, seen, writers>>

InitShm ==
  /\ rpc = "shm"
  /\ name' = IF name["shm"] = 0 THEN [name EXCEPT !["shm"] = starts] ELSE name
  /\ rhas' = [rhas EXCEPT !["shm"] = name'["shm"]]
  /\ ReaderTo("write_sem")
  /\ UNCHANGED <<data, sem, exit, got, starts, seen, writers, disturbed>>

\* O_CREAT | O_EXCL, for one semaphore and then for the other.
InitSem(k, next) ==
  /\ rpc = k
  /\ IF name[k] = 0
       THEN /\ name' = [name EXCEPT ![k] = starts]
            /\ rhas' = [rhas EXCEPT ![k] = starts]
            /\ ReaderTo(next)
       ELSE ReaderTo("failed") /\ UNCHANGED <<name, rhas>>
  /\ UNCHANGED <<data, sem, exit, got, starts, seen, writers, disturbed>>
-----------------------------------------------------------------------------
(* main() and read_data(). *)

ReadLoop ==
  /\ rpc = "loop"
  /\ ReaderTo(IF exit THEN "cleanup" ELSE "wait")
  /\ UNCHANGED <<name, data, sem, rhas, exit, got, starts, seen, writers, disturbed>>

ReadWait_TryWait ==
  /\ rpc = "wait"
  /\ sem' = [sem EXCEPT !["write_sem"][rhas["write_sem"]] = IF @ > 0 THEN @ - 1 ELSE 0]
  /\ ReaderTo(IF exit THEN "cleanup" ELSE "read")
  /\ UNCHANGED <<name, data, rhas, exit, got, starts, seen, writers, disturbed>>

\* A reader that has been interrupted takes the post and does not answer it.
ReadWait ==
  /\ rpc = "wait" /\ sem["write_sem"][rhas["write_sem"]] > 0
  /\ sem' = [sem EXCEPT !["write_sem"][rhas["write_sem"]] = @ - 1]
  /\ ReaderTo(IF exit THEN "cleanup" ELSE "read")
  /\ UNCHANGED <<name, data, rhas, exit, got, starts, seen, writers, disturbed>>

ReadBegin ==
  /\ rpc = "read"
  /\ got' = data[rhas["shm"]]
  /\ ReaderTo("reading")
  /\ UNCHANGED <<name, data, sem, rhas, exit, starts, seen, writers, disturbed>>

\* The copy is torn if the memory was written meanwhile.
ReadEnd ==
  /\ rpc = "reading"
  /\ got' = IF data[rhas["shm"]] = got THEN got ELSE Torn
  /\ seen' = seen \cup ({got'} \cap Writer)
  /\ ReaderTo("answer")
  /\ UNCHANGED <<name, data, sem, rhas, exit, starts, writers, disturbed>>

ReadPost_Wrong ==
  /\ rpc = "answer"
  /\ sem' = [sem EXCEPT !["write_sem"][rhas["write_sem"]] = @ + 1]
  /\ ReaderTo(IF got = Empty THEN "cleanup" ELSE "loop")
  /\ UNCHANGED <<name, data, rhas, exit, got, starts, seen, writers, disturbed>>

\* An empty message ends the loop.
ReadPost ==
  /\ rpc = "answer"
  /\ sem' = [sem EXCEPT !["read_sem"][rhas["read_sem"]] = @ + 1]
  /\ ReaderTo(IF got = Empty THEN "cleanup" ELSE "loop")
  /\ UNCHANGED <<name, data, rhas, exit, got, starts, seen, writers, disturbed>>

\* SIGINT interrupts sem_wait(), or comes just before it.
Sigint ==
  /\ rpc \in {"loop", "wait", "read", "reading", "answer"} /\ ~exit
  /\ exit' = TRUE
  /\ \/ UNCHANGED rpc
     \/ rpc = "wait" /\ ReaderTo("cleanup")
  /\ UNCHANGED <<name, data, sem, rhas, got, starts, seen, writers, disturbed>>

\* The destructor unlinks the names of what was opened.
Cleanup ==
  /\ rpc \in {"cleanup", "failed"}
  /\ name' = [k \in Key |-> IF rhas[k] = 0 THEN name[k] ELSE 0]
  /\ disturbed' = (disturbed \/ SomeActive)
  /\ ReaderTo("gone")
  /\ UNCHANGED <<data, sem, rhas, exit, got, starts, seen, writers>>

KillReader ==
  /\ rpc \notin {"gone", "killed"}
  /\ disturbed' = (disturbed \/ SomeActive)
  /\ ReaderTo("killed")
  /\ UNCHANGED <<name, data, sem, rhas, exit, got, starts, seen, writers>>
-----------------------------------------------------------------------------
(* A writer: init_resources(), write_data().                                *)

Open(w, from, k, next) ==
  /\ wpc[w] = from
  /\ IF name[k] = 0
       THEN WriterTo(w, "failed") /\ UNCHANGED has
       ELSE has' = [has EXCEPT ![w][k] = name[k]] /\ WriterTo(w, next)
  /\ UNCHANGED <<name, data, sem, reader, acked, disturbed>>

\* strncpy() begins ...
WriteBegin(w) ==
  /\ wpc[w] = "write"
  /\ data' = [data EXCEPT ![has[w]["shm"]] = Torn]
  /\ disturbed' = (disturbed \/ \E v \in Writer : wpc[v] \in Inside)
  /\ WriterTo(w, "copy")
  /\ UNCHANGED <<name, sem, reader, has, acked>>

\* ... and ends.
WriteEnd(w) ==
  /\ wpc[w] = "copy"
  /\ data' = [data EXCEPT ![has[w]["shm"]] = w]
  /\ WriterTo(w, "post")
  /\ UNCHANGED <<name, sem, reader, has, acked, disturbed>>

WritePost(w) ==
  /\ wpc[w] = "post"
  /\ sem' = [sem EXCEPT !["write_sem"][has[w]["write_sem"]] = @ + 1]
  /\ WriterTo(w, "ack")
  /\ UNCHANGED <<name, data, reader, has, acked, disturbed>>

WriteAck_NoWait(w) ==
  /\ wpc[w] = "ack"
  /\ acked' = IF disturbed THEN acked ELSE acked \cup {w}
  /\ WriterTo(w, "done")
  /\ UNCHANGED <<name, data, sem, reader, has, disturbed>>

WriteAck(w) ==
  /\ wpc[w] = "ack" /\ sem["read_sem"][has[w]["read_sem"]] > 0
  /\ sem' = [sem EXCEPT !["read_sem"][has[w]["read_sem"]] = @ - 1]
  /\ acked' = IF disturbed THEN acked ELSE acked \cup {w}
  /\ WriterTo(w, "done")
  /\ UNCHANGED <<name, data, reader, has, disturbed>>

\* A writer that is killed before it has posted disturbs nobody.
KillWriter(w) ==
  /\ Active(w)
  /\ disturbed' = (disturbed \/ wpc[w] = "ack")
  /\ WriterTo(w, "killed")
  /\ UNCHANGED <<name, data, sem, reader, has, acked>>
-----------------------------------------------------------------------------
ReaderStep ==
  \/ InitShm \/ InitSem("write_sem", "read_sem") \/ InitSem("read_sem", "loop")
  \/ ReadLoop \/ ReadWait \/ ReadBegin \/ ReadEnd \/ ReadPost \/ Cleanup

WriterStep(w) ==
  \/ Open(w, "open_write_sem", "write_sem", "open_read_sem")
  \/ Open(w, "open_read_sem", "read_sem", "write")
  \/ WriteBegin(w) \/ WriteEnd(w) \/ WritePost(w) \/ WriteAck(w)

Next ==
  \/ ReaderStart \/ ReaderStep \/ Sigint \/ KillReader
  \/ \E w \in Writer : \/ Open(w, "idle", "shm", "open_write_sem")
                       \/ WriterStep(w) \/ KillWriter(w)

Spec == Init /\ [][Next]_vars

\* A process that was started and is not killed runs.
FairSpec == /\ Spec /\ WF_vars(ReaderStep)
            /\ \A w \in Writer : WF_vars(WriterStep(w))
-----------------------------------------------------------------------------
(* The types.                                                               *)
TypeOK ==
  /\ name \in [Key -> Object]
  /\ data \in [Object -> Writer \cup {Torn, Empty}]
  /\ sem \in [Key -> [Object -> Nat]]
  /\ rpc \in Key \cup {"gone", "killed", "loop", "wait", "read", "reading",
                       "answer", "cleanup", "failed"}
  /\ rhas \in [Key -> Object] /\ exit \in BOOLEAN
  /\ got \in Writer \cup {Torn, Empty} /\ starts \in 0..MaxStarts
  /\ wpc \in [Writer -> Inside \cup {"idle", "open_write_sem", "open_read_sem",
                                     "write", "done", "failed", "killed"}]
  /\ has \in [Writer -> [Key -> Object]]
  /\ seen \subseteq Writer /\ acked \subseteq Writer /\ disturbed \in BOOLEAN

(* A reader always starts, whatever an earlier one that was killed has left *)
(* ("clear all that is left before the start", loop_posix_read.cpp:39).     *)
ReaderStarts == rpc # "failed"

(* A writer that was acknowledged has been read ("wait for the read to be   *)
(* confirmed", posix_write.c:84), in each exchange nobody disturbs, and     *)
(* again after a restart of the reader has healed a broken one.             *)
AckedIsRead == acked \subseteq seen

(* What the reader reads is a whole message (undisturbed, as above).        *)
ReadIsWhole == rpc = "answer" /\ ~disturbed => got \in Writer

(* A writer gets its acknowledgment, unless the reader goes away or another *)
(* writer interferes.                                                       *)
WriteReturns ==
  \A w \in Writer : (wpc[w] = "ack" /\ ~disturbed) ~>
                        (wpc[w] # "ack" \/ disturbed \/ rpc \in {"gone", "killed"})
=============================================================================
