------------------------------ MODULE SalofFifo ------------------------------
(***************************************************************************)
(* The ring buffer behind the asynchronous log (common/log/fifo.c, used by *)
(* salof.c): any thread that logs writes its line under a mutex and posts  *)
(* a semaphore; the log task waits for the semaphore and reads without the *)
(* mutex. in and out are unsigned counters that wrap at Width (2^32), the  *)
(* cell of a counter is its remainder by the size of the buffer.           *)
(*                                                                         *)
(* A byte is the counter value it was written at. FIFO_MIN is a macro: it  *)
(* evaluates the space that is left, or the bytes that are there, once to  *)
(* compare and once more for the result, and the other thread may come     *)
(* between; overrun remembers that the result was larger than the length.  *)
(***************************************************************************)
EXTENDS Naturals, FiniteSets

CONSTANTS Writer,   \* threads that log
          Size,     \* SALOF_FIFO_SIZE, a power of two
          Width,    \* where the unsigned counters wrap
          MaxLen,   \* SALOF_BUFF_SIZE: of a line, and of what is read at once
          Writes    \* lines each thread logs (bound)

ASSUME FifoAssumption ==
  /\ IsFiniteSet(Writer) /\ "free" \notin Writer
  /\ Size \in Nat \ {0} /\ MaxLen \in Nat \ {0} /\ Writes \in Nat
  /\ Width \in Nat /\ Width >= 2 * Size /\ Width % Size = 0

VARIABLES buff,      \* the cells
          in, out,   \* the counters
          mutex,     \* its owner, or "free"
          sem,
          wpc, wlen, \* where each writer is, and its length
          rpc, rlen, \* the same for the log task
          left,      \* lines each thread may still log
          overrun

vars == <<buff, in, out, mutex, sem, wpc, wlen, rpc, rlen, left, overrun>>

Cell == 0..(Size - 1)
Counter == 0..(Width - 1)

Init ==
  /\ buff = [c \in Cell |-> 0] /\ in = 0 /\ out = 0
  /\ mutex = "free" /\ sem = 0
  /\ wpc = [w \in Writer |-> "idle"] /\ wlen = [w \in Writer |-> 0]
  /\ rpc = "wait" /\ rlen = 0
  /\ left = [w \in Writer |-> Writes] /\ overrun = FALSE

Plus(a, n) == (a + n) % Width
Used == (Width + in - out) % Width
Room == Size - Used

WriterTo(w, l) == wpc' = [wpc EXCEPT ![w] = l]
-----------------------------------------------------------------------------
(* salof(): a line is formatted, salof_fifo_write().                        *)

Salof(w, n) ==
  /\ wpc[w] = "idle" /\ left[w] > 0
  /\ left' = [left EXCEPT ![w] = @ - 1]
  /\ wlen' = [wlen EXCEPT ![w] = n]
  /\ WriterTo(w, "lock")
  /\ UNCHANGED <<buff, in, out, mutex, sem, rpc, rlen, overrun>>

WriteLock_NoWait(w) ==
  /\ wpc[w] = "lock"
  /\ mutex' = w
  /\ WriterTo(w, "compare")
  /\ UNCHANGED <<buff, in, out, sem, wlen, rpc, rlen, left, overrun>>

WriteLock(w) ==
  /\ wpc[w] = "lock" /\ mutex = "free"
  /\ mutex' = w
  /\ WriterTo(w, "compare")
  /\ UNCHANGED <<buff, in, out, sem, wlen, rpc, rlen, left, overrun>>

\* len < room? The length stands, or the room is evaluated again.
WriteCompare(w) ==
  /\ wpc[w] = "compare"
  /\ WriterTo(w, IF wlen[w] < Room THEN "copy" ELSE "room")
  /\ UNCHANGED <<buff, in, out, mutex, sem, wlen, rpc, rlen, left, overrun>>

WriteRoom(w) ==
  /\ wpc[w] = "room"
  /\ wlen' = [wlen EXCEPT ![w] = Room]
  /\ overrun' = (overrun \/ Room > wlen[w])
  /\ WriterTo(w, "copy")
  /\ UNCHANGED <<buff, in, out, mutex, sem, rpc, rlen, left>>

\* The two memcpy() calls, up to the end of the buffer and from its start.
WriteCopy(w) ==
  /\ wpc[w] = "copy"
  /\ LET n(c) == (c + Size - (in % Size)) % Size   \* how far the cell is from in
     IN  buff' = [c \in Cell |-> IF n(c) < wlen[w] THEN Plus(in, n(c)) ELSE buff[c]]
  /\ WriterTo(w, "add")
  /\ UNCHANGED <<in, out, mutex, sem, wlen, rpc, rlen, left, overrun>>

WriteAdd(w) ==
  /\ wpc[w] = "add"
  /\ in' = Plus(in, wlen[w])
  /\ WriterTo(w, "unlock")
  /\ UNCHANGED <<buff, out, mutex, sem, wlen, rpc, rlen, left, overrun>>

WriteUnlock_OnlyNew(w) ==
  /\ wpc[w] = "unlock"
  /\ mutex' = IF wlen[w] > 0 THEN "free" ELSE mutex
  /\ WriterTo(w, "post")
  /\ UNCHANGED <<buff, in, out, sem, wlen, rpc, rlen, left, overrun>>

WriteUnlock(w) ==
  /\ wpc[w] = "unlock"
  /\ mutex' = "free"
  /\ WriterTo(w, "post")
  /\ UNCHANGED <<buff, in, out, sem, wlen, rpc, rlen, left, overrun>>

WritePost_OnlyFirst(w) ==
  /\ wpc[w] = "post"
  /\ sem' = IF Used > wlen[w] THEN sem ELSE sem + 1
  /\ wlen' = [wlen EXCEPT ![w] = 0]
  /\ WriterTo(w, "idle")
  /\ UNCHANGED <<buff, in, out, mutex, rpc, rlen, left, overrun>>

\* A post for every line, also for one the full buffer had no room for.
WritePost(w) ==
  /\ wpc[w] = "post"
  /\ sem' = sem + 1
  /\ wlen' = [wlen EXCEPT ![w] = 0]
  /\ WriterTo(w, "idle")
  /\ UNCHANGED <<buff, in, out, mutex, rpc, rlen, left, overrun>>
-----------------------------------------------------------------------------
(* salof_task(): salof_fifo_read() and the output, over and over.           *)

ReadPend ==
  /\ rpc = "wait" /\ sem > 0
  /\ sem' = sem - 1
  /\ rpc' = "compare"
  /\ UNCHANGED <<buff, in, out, mutex, wpc, wlen, rlen, left, overrun>>

ReadCompare ==
  /\ rpc = "compare"
  /\ \/ MaxLen < Used /\ rlen' = MaxLen /\ rpc' = "copy"
     \/ MaxLen >= Used /\ rpc' = "size" /\ UNCHANGED rlen
  /\ UNCHANGED <<buff, in, out, mutex, sem, wpc, wlen, left, overrun>>

ReadSize ==
  /\ rpc = "size"
  /\ rlen' = Used
  /\ overrun' = (overrun \/ Used > MaxLen)
  /\ rpc' = "copy"
  /\ UNCHANGED <<buff, in, out, mutex, sem, wpc, wlen, left>>

\* memcpy(), the counter, and the output of what was read.
ReadAdd ==
  /\ rpc = "copy"
  /\ out' = Plus(out, rlen)
  /\ rlen' = 0
  /\ rpc' = "wait"
  /\ UNCHANGED <<buff, in, mutex, sem, wpc, wlen, left, overrun>>
-----------------------------------------------------------------------------
Write(w) == \/ WriteLock(w) \/ WriteCompare(w) \/ WriteRoom(w) \/ WriteCopy(w)
            \/ WriteAdd(w) \/ WriteUnlock(w) \/ WritePost(w)
Read == ReadPend \/ ReadCompare \/ ReadSize \/ ReadAdd

Next == \/ \E w \in Writer : Write(w) \/ \E n \in 1..MaxLen : Salof(w, n)
        \/ Read

Spec == Init /\ [][Next]_vars

\* Every thread runs, and a mutex that is free again and again is obtained.
FairSpec == /\ Spec /\ WF_vars(Read)
            /\ \A w \in Writer : WF_vars(Write(w)) /\ SF_vars(WriteLock(w))
-----------------------------------------------------------------------------
(* The types; what is written and what is read at once fit the buffer.      *)
TypeOK ==
  /\ buff \in [Cell -> Counter] /\ in \in Counter /\ out \in Counter
  /\ mutex \in Writer \cup {"free"} /\ sem \in Nat
  /\ wpc \in [Writer -> {"idle", "lock", "compare", "room", "copy", "add", "unlock", "post"}]
  /\ wlen \in [Writer -> 0..(IF Size > MaxLen THEN Size ELSE MaxLen)]
  /\ rpc \in {"wait", "compare", "size", "copy"} /\ rlen \in 0..Size
  /\ left \in [Writer -> 0..Writes] /\ overrun \in BOOLEAN

(* What is between the counters are the bytes written there, none of them   *)
(* overwritten before it is read or read before it is written, also when    *)
(* the counters have wrapped (salof_fifo_write, salof_fifo_read).           *)
InOrder ==
  /\ Used <= Size /\ (rpc = "copy" => rlen <= Used)
  /\ \A k \in 0..(Size - 1) : k < Used => buff[Plus(out, k) % Size] = Plus(out, k)

(* The log task never sleeps while bytes are left to print, although it     *)
(* reads lines together and takes MaxLen bytes at most: there is a post for *)
(* each line and none is longer than that, unless FIFO_MIN has overrun.     *)
NothingStranded ==
  /\ rpc = "wait" /\ sem = 0 /\ ~overrun
  /\ \A w \in Writer : wpc[w] \notin {"unlock", "post"}
  => Used = 0

(* Logging never blocks a thread for good, also when the buffer is full.    *)
SalofReturns == \A w \in Writer : wpc[w] = "lock" ~> wpc[w] = "idle"
=============================================================================
