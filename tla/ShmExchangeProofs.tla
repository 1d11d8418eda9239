--------------------------- MODULE ShmExchangeProofs ---------------------------
(***************************************************************************)
(* Proofs about ShmExchange: its types, that a reader always finds the     *)
(* names free, and that in an exchange nobody disturbs the two semaphores, *)
(* the memory and the two processes stay in step.                          *)
(***************************************************************************)
EXTENDS ShmExchange, TLAPS

\* The reader has taken a post and has not answered it yet.
Reading == {"read", "reading", "answer"}

\* Where a writer is, and what it has opened by then.
HasShm == Inside \cup {"open_write_sem", "open_read_sem", "write"}
HasWriteSem == Inside \cup {"open_read_sem", "write"}
HasReadSem == Inside \cup {"write"}

\* Every name that exists is of the last start, and nothing is older than it is.
Names ==
  /\ \A k \in Key : name[k] \in {0, starts} /\ rhas[k] <= starts
  /\ \A w \in Writer, k \in Key : has[w][k] <= starts
  /\ \A k \in Key, o \in Object : o > starts => sem[k][o] = 0

\* What the reader has created and opened so far.
Opened ==
  /\ rpc = "shm" => \A k \in Key : name[k] = 0
  /\ rpc \in {"shm", "write_sem"} => name["write_sem"] = 0
  /\ rpc \in {"shm", "write_sem", "read_sem"} => name["read_sem"] = 0
  /\ rpc \in {"write_sem", "read_sem", "loop", "wait"} \cup Reading => rhas["shm"] = starts
  /\ rpc \in {"read_sem", "loop", "wait"} \cup Reading => rhas["write_sem"] = starts
  /\ rpc \in {"loop", "wait"} \cup Reading => rhas["read_sem"] = starts
  /\ rpc # "failed"

\* The writers hold the objects of this reader, one of them at most is between
\* the begin of its copy and its acknowledgment.
OneExchange ==
  /\ \A v, w \in Writer : wpc[v] \in Inside /\ wpc[w] \in Inside => v = w
  /\ \A w \in Writer : /\ wpc[w] \in HasShm => has[w]["shm"] = starts
                       /\ wpc[w] \in HasWriteSem => has[w]["write_sem"] = starts
                       /\ wpc[w] \in HasReadSem => has[w]["read_sem"] = starts

\* Its message is in the memory from the post to the acknowledgment, and
\* exactly one of the two semaphores and the reader has the turn.
Posts == sem["write_sem"][starts]
Answers == sem["read_sem"][starts]
Turn ==
  /\ (\A w \in Writer : wpc[w] # "ack") => Posts = 0 /\ Answers = 0 /\ rpc \notin Reading
  /\ \A w \in Writer : wpc[w] \in {"post", "ack"} => data[starts] = w
  /\ \A w \in Writer : wpc[w] = "ack" =>
       \/ Posts = 1 /\ Answers = 0 /\ rpc \notin Reading
       \/ Posts = 0 /\ Answers = 0 /\ rpc \in Reading \cup {"cleanup"}
       \/ Posts = 0 /\ Answers = 1 /\ rpc \notin Reading /\ w \in seen
  /\ \A w \in Writer : wpc[w] = "ack" /\ rpc \in {"reading", "answer"} => got = w
  /\ \A w \in Writer : wpc[w] = "ack" /\ rpc = "answer" => w \in seen

InStep == ~disturbed => OneExchange /\ Turn
IInv == TypeOK /\ Names /\ Opened /\ InStep /\ AckedIsRead
-----------------------------------------------------------------------------

(* The three keys, apart from one another, and the objects. *)
LEMMA Keys ==
  /\ "shm" \in Key /\ "write_sem" \in Key /\ "read_sem" \in Key
  /\ \A k \in Key : k \in {"shm", "write_sem", "read_sem"}
  /\ 0 \in Object /\ Object \subseteq Nat /\ \A o \in Object : o <= MaxStarts
  /\ \A n \in Nat : n <= MaxStarts => n \in Object
BY ShmAssumption DEF Key, Object

(* One entry of a function of functions is set and the others stay. *)
LEMMA Entry ==
  ASSUME NEW A, NEW B, NEW C, NEW f \in [A -> [B -> C]],
         NEW a \in A, NEW b \in B, NEW c \in C, NEW g, g = [f EXCEPT ![a][b] = c]
  PROVE  /\ g \in [A -> [B -> C]] /\ g[a][b] = c
         /\ \A x \in A, y \in B : x # a \/ y # b => g[x][y] = f[x][y]
<1>1. g = [f EXCEPT ![a] = [f[a] EXCEPT ![b] = c]] OBVIOUS
<1>2. [f[a] EXCEPT ![b] = c] \in [B -> C] OBVIOUS
<1>3. /\ g \in [A -> [B -> C]] /\ g[a] = [f[a] EXCEPT ![b] = c]
      /\ \A x \in A : x # a => g[x] = f[x]
  BY <1>1, <1>2
<1>4. g[a][b] = c /\ \A y \in B : y # b => g[a][y] = f[a][y] BY <1>3
<1>5. QED BY <1>3, <1>4

\* Semaphore k of object o gets the value n, the others keep theirs.
SemOnly(k, o, n) ==
  /\ o \in Object /\ n \in Nat
  /\ sem' \in [Key -> [Object -> Nat]] /\ sem'[k][o] = n
  /\ \A j \in Key, p \in Object : j # k \/ p # o => sem'[j][p] = sem[j][p]

\* Writer w opens object o under k, nothing else is opened.
HasOnly(w, k, o) ==
  /\ has' \in [Writer -> [Key -> Object]] /\ has'[w][k] = o
  /\ \A v \in Writer, j \in Key : v # w \/ j # k => has'[v][j] = has[v][j]

(* The calls of sem_wait() and sem_post(), and of sem_open() by a writer. *)
LEMMA SemSteps ==
  ASSUME TypeOK
  PROVE  /\ ReadWait => LET o == rhas["write_sem"]
                        IN  sem["write_sem"][o] > 0 /\ SemOnly("write_sem", o, sem["write_sem"][o] - 1)
         /\ ReadPost => LET o == rhas["read_sem"]
                        IN  SemOnly("read_sem", o, sem["read_sem"][o] + 1)
         /\ \A w \in Writer :
              /\ WritePost(w) => LET o == has[w]["write_sem"]
                                 IN  SemOnly("write_sem", o, sem["write_sem"][o] + 1)
              /\ WriteAck(w) => LET o == has[w]["read_sem"]
                                IN  sem["read_sem"][o] > 0 /\ SemOnly("read_sem", o, sem["read_sem"][o] - 1)
<1>0. /\ sem \in [Key -> [Object -> Nat]]
      /\ "write_sem" \in Key /\ "read_sem" \in Key
      /\ \A k \in Key : rhas[k] \in Object
      /\ \A w \in Writer, k \in Key : has[w][k] \in Object
  <2>1. has \in [Writer -> [Key -> Object]] /\ rhas \in [Key -> Object] BY DEF TypeOK
  <2>2. "write_sem" \in Key /\ "read_sem" \in Key BY DEF Key
  <2>3. QED BY <2>1, <2>2 DEF TypeOK
<1>1. ASSUME NEW k \in Key, NEW o \in Object, NEW n \in Nat,
             sem' = [sem EXCEPT ![k][o] = n]
      PROVE  SemOnly(k, o, n)
  BY <1>0, <1>1, Entry DEF SemOnly
<1>2. \A k \in Key, o \in Object : sem[k][o] \in Nat BY <1>0
<1>3. ASSUME ReadWait
      PROVE  LET o == rhas["write_sem"]
             IN  sem["write_sem"][o] > 0 /\ SemOnly("write_sem", o, sem["write_sem"][o] - 1)
  <2> DEFINE o == rhas["write_sem"]
  <2>1. /\ o \in Object /\ sem["write_sem"][o] > 0
        /\ sem' = [sem EXCEPT !["write_sem"][o] = sem["write_sem"][o] - 1]
    BY <1>0, <1>3 DEF ReadWait
  <2>2. sem["write_sem"][o] - 1 \in Nat BY <1>0, <1>2, <2>1
  <2>3. QED BY <1>0, <1>1, <2>1, <2>2
<1>4. ASSUME ReadPost
      PROVE  LET o == rhas["read_sem"] IN SemOnly("read_sem", o, sem["read_sem"][o] + 1)
  <2> DEFINE o == rhas["read_sem"]
  <2>1. o \in Object /\ sem' = [sem EXCEPT !["read_sem"][o] = sem["read_sem"][o] + 1]
    BY <1>0, <1>4 DEF ReadPost
  <2>2. sem["read_sem"][o] + 1 \in Nat BY <1>0, <1>2, <2>1
  <2>3. QED BY <1>0, <1>1, <2>1, <2>2
<1>5. ASSUME NEW w \in Writer, WritePost(w)
      PROVE  LET o == has[w]["write_sem"] IN SemOnly("write_sem", o, sem["write_sem"][o] + 1)
  <2> DEFINE o == has[w]["write_sem"]
  <2>1. o \in Object /\ sem' = [sem EXCEPT !["write_sem"][o] = sem["write_sem"][o] + 1]
    BY <1>0, <1>5 DEF WritePost
  <2>2. sem["write_sem"][o] + 1 \in Nat BY <1>0, <1>2, <2>1
  <2>3. QED BY <1>0, <1>1, <2>1, <2>2
<1>6. ASSUME NEW w \in Writer, WriteAck(w)
      PROVE  LET o == has[w]["read_sem"]
             IN  sem["read_sem"][o] > 0 /\ SemOnly("read_sem", o, sem["read_sem"][o] - 1)
  <2> DEFINE o == has[w]["read_sem"]
  <2>1. /\ o \in Object /\ sem["read_sem"][o] > 0
        /\ sem' = [sem EXCEPT !["read_sem"][o] = sem["read_sem"][o] - 1]
    BY <1>0, <1>6 DEF WriteAck
  <2>2. sem["read_sem"][o] - 1 \in Nat BY <1>0, <1>2, <2>1
  <2>3. QED BY <1>0, <1>1, <2>1, <2>2
<1>7. QED BY <1>3, <1>4, <1>5, <1>6

(* sem_open() and shm_open() by a writer. *)
LEMMA OpenStep ==
  ASSUME TypeOK, NEW w \in Writer, NEW k \in Key, NEW from, NEW next,
         Open(w, from, k, next)
  PROVE  \/ name[k] = 0 /\ UNCHANGED has /\ WriterTo(w, "failed")
         \/ name[k] # 0 /\ HasOnly(w, k, name[k]) /\ WriterTo(w, next)
<1>1. has \in [Writer -> [Key -> Object]] /\ name[k] \in Object BY DEF TypeOK
<1>2. ASSUME has' = [has EXCEPT ![w][k] = name[k]] PROVE HasOnly(w, k, name[k])
  BY <1>1, <1>2, Entry DEF HasOnly
<1>3. QED BY <1>2 DEF Open

(* The types are kept. *)
LEMMA TypeStep == TypeOK /\ [Next]_vars => TypeOK'
<1> SUFFICES ASSUME TypeOK, [Next]_vars PROVE TypeOK'
  OBVIOUS
<1> USE ShmAssumption, Keys DEF TypeOK, Inside, None, ReaderTo, WriterTo, reader, writers
<1>0. SomeActive \in BOOLEAN BY DEF SomeActive
<1>a. starts \in Object BY DEF Object
<1>1. CASE ReaderStart
  <2>1. disturbed' \in BOOLEAN BY <1>0, <1>1, Zenon DEF ReaderStart
  <2>2. name' \in [Key -> Object] /\ rhas' \in [Key -> Object]
    BY <1>1, Zenon DEF ReaderStart
  <2>3. /\ rpc' = "shm" /\ exit' = FALSE /\ starts' = starts + 1 /\ starts < MaxStarts
        /\ UNCHANGED <<data, sem, got, seen, writers>>
    BY <1>1 DEF ReaderStart
  <2>4. starts' \in 0..MaxStarts BY <2>3
  <2>5. QED BY <2>1, <2>2, <2>3, <2>4
<1>2. CASE InitShm
  <2>1. name' \in [Key -> Object] BY <1>a, <1>2 DEF InitShm
  <2>2. name'["shm"] \in Object BY <2>1
  <2>3. rhas' \in [Key -> Object] BY <2>2, <1>2 DEF InitShm
  <2>4. rpc' = "write_sem" /\ UNCHANGED <<data, sem, exit, got, starts, seen, writers, disturbed>>
    BY <1>2 DEF InitShm
  <2>5. QED BY <2>1, <2>3, <2>4
<1>3. ASSUME NEW k \in Key, NEW next \in {"read_sem", "loop"}, InitSem(k, next) PROVE TypeOK'
  <2>1. \/ UNCHANGED <<name, rhas>>
        \/ name' = [name EXCEPT ![k] = starts] /\ rhas' = [rhas EXCEPT ![k] = starts]
    BY <1>3 DEF InitSem
  <2>2. name' \in [Key -> Object] /\ rhas' \in [Key -> Object] BY <1>a, <2>1, ZenonT(60)
  <2>3. /\ rpc' \in {next, "failed"}
        /\ UNCHANGED <<data, sem, exit, got, starts, seen, writers, disturbed>>
    BY <1>3 DEF InitSem
  <2>4. QED BY <2>2, <2>3
<1>5. CASE ReadLoop BY <1>5 DEF ReadLoop
<1>6. CASE ReadWait
  <2>1. SemOnly("write_sem", rhas["write_sem"], sem["write_sem"][rhas["write_sem"]] - 1)
    BY <1>6, SemSteps
  <2>2. /\ rpc = "wait" /\ rpc' \in {"cleanup", "read"}
        /\ UNCHANGED <<name, data, rhas, exit, got, starts, seen, writers, disturbed>>
    BY <1>6 DEF ReadWait
  <2>3. QED BY <2>1, <2>2 DEF SemOnly
<1>7. CASE ReadBegin BY <1>7 DEF ReadBegin
<1>8. CASE ReadEnd BY <1>8 DEF ReadEnd
<1>9. CASE ReadPost
  <2>1. SemOnly("read_sem", rhas["read_sem"], sem["read_sem"][rhas["read_sem"]] + 1)
    BY <1>9, SemSteps
  <2>2. /\ rpc = "answer" /\ rpc' \in {"cleanup", "loop"}
        /\ UNCHANGED <<name, data, rhas, exit, got, starts, seen, writers, disturbed>>
    BY <1>9 DEF ReadPost
  <2>3. QED BY <2>1, <2>2 DEF SemOnly
<1>10. CASE Sigint BY <1>10 DEF Sigint
<1>11. CASE Cleanup
  <2>1. disturbed' \in BOOLEAN BY <1>0, <1>11, Zenon DEF Cleanup
  <2>2. name' \in [Key -> Object] BY <1>11 DEF Cleanup
  <2>3. rpc' = "gone" /\ UNCHANGED <<data, sem, rhas, exit, got, starts, seen, writers>>
    BY <1>11 DEF Cleanup
  <2>4. QED BY <2>1, <2>2, <2>3
<1>12. CASE KillReader BY <1>0, <1>12 DEF KillReader
<1>13. ASSUME NEW w \in Writer, WriterStep(w) \/ KillWriter(w) \/ Open(w, "idle", "shm", "open_write_sem")
      PROVE  TypeOK'
  <2>1. ASSUME NEW k \in Key, NEW from, NEW next \in {"open_write_sem", "open_read_sem", "write"},
               Open(w, from, k, next)
        PROVE  TypeOK'
    <3>1. has' \in [Writer -> [Key -> Object]]
      BY <2>1, OpenStep DEF HasOnly
    <3>2. wpc' \in [Writer -> Inside \cup {"idle", "open_write_sem", "open_read_sem",
                                         "write", "done", "failed", "killed"}]
      BY <2>1 DEF Open
    <3>3. UNCHANGED <<name, data, sem, reader, acked, disturbed>> BY <2>1 DEF Open
    <3>4. QED BY <3>1, <3>2, <3>3
  <2>4. CASE WriteBegin(w) BY <2>4 DEF WriteBegin
  <2>5. CASE WriteEnd(w) BY <2>5 DEF WriteEnd
  <2>6. CASE WritePost(w)
    <3>1. SemOnly("write_sem", has[w]["write_sem"], sem["write_sem"][has[w]["write_sem"]] + 1)
      BY <2>6, SemSteps
    <3>2. wpc[w] = "post" /\ WriterTo(w, "ack") /\ UNCHANGED <<name, data, reader, has, acked, disturbed>>
      BY <2>6 DEF WritePost
    <3>3. QED BY <3>1, <3>2 DEF SemOnly
  <2>7. CASE WriteAck(w)
    <3>1. SemOnly("read_sem", has[w]["read_sem"], sem["read_sem"][has[w]["read_sem"]] - 1)
      BY <2>7, SemSteps
    <3>2. /\ wpc[w] = "ack" /\ WriterTo(w, "done")
          /\ acked' = IF disturbed THEN acked ELSE acked \cup {w}
          /\ UNCHANGED <<name, data, reader, has, disturbed>>
      BY <2>7 DEF WriteAck
    <3>3. QED BY <3>1, <3>2 DEF SemOnly
  <2>8. CASE KillWriter(w) BY <2>8 DEF KillWriter
  <2>9. QED BY <1>13, <2>1, <2>4, <2>5, <2>6, <2>7, <2>8 DEF WriterStep
<1>14. CASE UNCHANGED vars BY <1>14 DEF vars, reader, writers
<1>15. QED BY Keys, <1>1, <1>2, <1>3, <1>5, <1>6, <1>7, <1>8, <1>9, <1>10, <1>11, <1>12, <1>13, <1>14 DEF Next, ReaderStep

(* The names, what was opened by them, and the untouched objects. *)
LEMMA NamesStep == TypeOK /\ Names /\ Opened /\ [Next]_vars => Names'
<1> SUFFICES ASSUME TypeOK, Names, Opened, [Next]_vars PROVE Names'
  OBVIOUS
<1> USE Keys DEF Names, ReaderTo, WriterTo
<1>0. /\ starts \in Nat /\ name \in [Key -> Object] /\ rhas \in [Key -> Object]
      /\ has \in [Writer -> [Key -> Object]] /\ sem \in [Key -> [Object -> Nat]]
  <2>1. starts \in Nat BY ShmAssumption DEF TypeOK
  <2>2. QED BY <2>1 DEF TypeOK
<1>a. /\ \A k \in Key : rhas[k] \in Object /\ name[k] \in Object
      /\ \A w \in Writer, k \in Key : has[w][k] \in Object
  BY <1>0
<1>1. CASE ReaderStart
  <2>1. /\ starts' = starts + 1 /\ \A k \in Key : name'[k] = 0 /\ rhas'[k] = 0
        /\ UNCHANGED <<sem, has>>
    BY <1>1 DEF ReaderStart, None, writers
  <2>2. \A k \in Key : name'[k] \in {0, starts'} /\ rhas'[k] <= starts'
    BY <2>1, <1>0
  <2>3. ASSUME NEW w \in Writer, NEW k \in Key PROVE has'[w][k] <= starts'
    <3>1. has[w][k] \in Nat /\ has[w][k] <= starts BY <1>a
    <3>2. QED BY <3>1, <2>1, <1>0
  <2>4. \A k \in Key, o \in Object : o > starts' => sem'[k][o] = 0
    BY <2>1, <1>0
  <2>5. QED BY <2>2, <2>3, <2>4
<1>2. CASE InitShm
  <2>1. \A k \in Key : name'[k] \in {name[k], starts} /\ rhas'[k] \in {rhas[k], name'[k]}
    BY <1>0, <1>2 DEF InitShm
  <2>2. UNCHANGED <<sem, has, starts>> BY <1>2 DEF InitShm, writers
  <2>3. QED BY <2>1, <2>2, <1>0, <1>a
<1>3. ASSUME NEW k \in Key, NEW next, InitSem(k, next) PROVE Names'
  <2>1. \A j \in Key : name'[j] \in {name[j], starts} /\ rhas'[j] \in {rhas[j], starts}
    BY <1>0, <1>3 DEF InitSem
  <2>2. UNCHANGED <<sem, has, starts>> BY <1>3 DEF InitSem, writers
  <2>3. QED BY <2>1, <2>2, <1>0, <1>a
<1>4. ASSUME ReadLoop \/ ReadBegin \/ ReadEnd \/ Sigint \/ KillReader PROVE Names'
  <2>1. UNCHANGED <<name, rhas, has, sem, starts>>
    BY <1>4 DEF ReadLoop, ReadBegin, ReadEnd, Sigint, KillReader, writers
  <2>2. QED BY <2>1
<1>5. CASE Cleanup
  <2>1. /\ \A k \in Key : name'[k] \in {name[k], 0}
        /\ UNCHANGED <<rhas, has, sem, starts>>
    BY <1>5 DEF Cleanup, writers
  <2>2. QED BY <2>1
<1>6. ASSUME NEW k \in Key, NEW o \in Object, NEW n \in Nat, SemOnly(k, o, n),
             o <= starts, UNCHANGED <<name, rhas, has, starts>>
      PROVE  Names'
  BY <1>6, <1>0, <1>a DEF SemOnly
<1>7. ASSUME ReadWait \/ ReadPost PROVE Names'
  <2>1. UNCHANGED <<name, rhas, has, starts>>
    BY <1>7 DEF ReadWait, ReadPost, writers
  <2>2. CASE ReadWait
    BY <2>1, <2>2, <1>6, <1>a, SemSteps DEF SemOnly
  <2>3. CASE ReadPost
    BY <2>1, <2>3, <1>6, <1>a, SemSteps DEF SemOnly
  <2>4. QED BY <1>7, <2>2, <2>3
<1>8. ASSUME NEW w \in Writer, WritePost(w) \/ WriteAck(w) PROVE Names'
  <2>1. UNCHANGED <<name, rhas, has, starts>>
    BY <1>8 DEF WritePost, WriteAck, reader
  <2>2. CASE WritePost(w)
    BY <2>1, <2>2, <1>6, <1>a, SemSteps DEF SemOnly
  <2>3. CASE WriteAck(w)
    BY <2>1, <2>3, <1>6, <1>a, SemSteps DEF SemOnly
  <2>4. QED BY <1>8, <2>2, <2>3
<1>9. ASSUME NEW w \in Writer, WriteBegin(w) \/ WriteEnd(w) \/ KillWriter(w) PROVE Names'
  <2>1. UNCHANGED <<name, rhas, has, sem, starts>>
    BY <1>9 DEF WriteBegin, WriteEnd, KillWriter, reader
  <2>2. QED BY <2>1
<1>10. ASSUME NEW w \in Writer, NEW k \in Key, NEW from, NEW next, Open(w, from, k, next)
       PROVE  Names'
  <2>1. UNCHANGED <<name, rhas, sem, starts>>
    BY <1>10 DEF Open, reader
  <2>2. UNCHANGED has \/ HasOnly(w, k, name[k]) BY <1>10, OpenStep
  <2>3. \A v \in Writer, j \in Key : has'[v][j] \in {has[v][j], name[k]}
    BY <2>2 DEF HasOnly
  <2>4. \A v \in Writer, j \in Key : has'[v][j] <= starts'
    BY <2>1, <2>3, <1>0, <1>a
  <2>5. QED BY <2>1, <2>4
<1>11. CASE UNCHANGED vars BY <1>11 DEF vars, reader, writers
<1>12. QED
  BY <1>1, <1>2, <1>3, <1>4, <1>5, <1>7, <1>8, <1>9, <1>10, <1>11
  DEF Next, ReaderStep, WriterStep

(* What the reader has created, it can open; the names it has not reached   *)
(* are free, so O_EXCL finds nothing in the way.                            *)
LEMMA OpenedStep == TypeOK /\ Names /\ Opened /\ [Next]_vars => Opened'
<1> SUFFICES ASSUME TypeOK, Names, Opened, [Next]_vars PROVE Opened'
  OBVIOUS
<1> USE Keys DEF Opened, Reading, ReaderTo, WriterTo
<1>0. name \in [Key -> Object] /\ rhas \in [Key -> Object]
  BY DEF TypeOK
<1>1. CASE ReaderStart
  <2>1. rpc' = "shm" /\ \A k \in Key : name'[k] = 0
    BY <1>1 DEF ReaderStart, None
  <2>2. QED BY <2>1
<1>2. CASE InitShm
  <2>1. /\ rpc = "shm" /\ rpc' = "write_sem" /\ starts' = starts
        /\ name'["shm"] = starts /\ rhas'["shm"] = starts
        /\ \A k \in Key : k # "shm" => name'[k] = name[k]
    BY <1>0, <1>2 DEF InitShm
  <2>2. QED BY <2>1
<1>3. CASE InitSem("write_sem", "read_sem")
  <2>1. /\ rpc = "write_sem" /\ rpc' = "read_sem" /\ starts' = starts
        /\ name'["read_sem"] = name["read_sem"] /\ rhas'["write_sem"] = starts
        /\ rhas'["shm"] = rhas["shm"]
    BY <1>0, <1>3 DEF InitSem
  <2>2. QED BY <2>1
<1>4. CASE InitSem("read_sem", "loop")
  <2>1. /\ rpc = "read_sem" /\ rpc' = "loop" /\ starts' = starts
        /\ rhas'["read_sem"] = starts
        /\ rhas'["shm"] = rhas["shm"] /\ rhas'["write_sem"] = rhas["write_sem"]
    BY <1>0, <1>4 DEF InitSem
  <2>2. QED BY <2>1
<1>5. ASSUME ReadLoop \/ ReadWait \/ ReadBegin \/ ReadEnd \/ ReadPost \/ Sigint PROVE Opened'
  <2>1. /\ rpc \in {"loop", "wait"} \cup Reading
        /\ rpc' \in {"loop", "wait", "cleanup"} \cup Reading
        /\ UNCHANGED <<rhas, starts>>
    BY <1>5 DEF ReadLoop, ReadWait, ReadBegin, ReadEnd, ReadPost, Sigint
  <2>2. QED BY <2>1
<1>6. ASSUME Cleanup \/ KillReader PROVE Opened'
  BY <1>6 DEF Cleanup, KillReader
<1>7. ASSUME NEW w \in Writer,
             \/ WriteBegin(w) \/ WriteEnd(w) \/ WritePost(w) \/ WriteAck(w) \/ KillWriter(w)
             \/ Open(w, "idle", "shm", "open_write_sem")
             \/ Open(w, "open_write_sem", "write_sem", "open_read_sem")
             \/ Open(w, "open_read_sem", "read_sem", "write")
      PROVE  Opened'
  <2>1. UNCHANGED <<name, rpc, rhas, starts>>
    BY <1>7 DEF WriteBegin, WriteEnd, WritePost, WriteAck, KillWriter, Open, reader
  <2>2. QED BY <2>1
<1>8. CASE UNCHANGED vars BY <1>8 DEF vars, reader
<1>9. QED BY <1>1, <1>2, <1>3, <1>4, <1>5, <1>6, <1>7, <1>8 DEF Next, ReaderStep, WriterStep

-----------------------------------------------------------------------------
(* A step that ends undisturbed began undisturbed, unless a reader starts.  *)
LEMMA StillUndisturbed ==
  ASSUME [Next]_vars, ~disturbed', disturbed \in BOOLEAN
  PROVE  ReaderStart \/ ~disturbed
<1>1. ReaderStep \/ Sigint \/ KillReader => (disturbed => disturbed')
  BY DEF ReaderStep, InitShm, InitSem, ReadLoop, ReadWait, ReadBegin, ReadEnd, ReadPost,
         Cleanup, Sigint, KillReader
<1>2. \A w \in Writer :
        WriterStep(w) \/ KillWriter(w) \/ Open(w, "idle", "shm", "open_write_sem")
          => (disturbed => disturbed')
  BY DEF WriterStep, Open, WriteBegin, WriteEnd, WritePost, WriteAck, KillWriter
<1>3. UNCHANGED vars => disturbed' = disturbed BY DEF vars
<1>4. QED BY <1>1, <1>2, <1>3 DEF Next

(* Undisturbed, writers that run have opened what this reader created, and  *)
(* only one of them is in an exchange.                                      *)
LEMMA OneExchangeStep ==
  ASSUME TypeOK, Names, Opened, InStep, [Next]_vars, ~disturbed'
  PROVE  OneExchange'
<1> USE Keys DEF Inside, HasShm, HasWriteSem, HasReadSem, WriterTo
<1>0. ReaderStart \/ ~disturbed BY StillUndisturbed DEF TypeOK
<1>1. ~disturbed => OneExchange BY DEF InStep
<1>2. wpc \in [Writer -> Inside \cup {"idle", "open_write_sem", "open_read_sem",
                                     "write", "done", "failed", "killed"}]
      /\ has \in [Writer -> [Key -> Object]]
  BY DEF TypeOK
<1>3. CASE ReaderStart
  <2>1. ~SomeActive /\ wpc' = wpc BY <1>3 DEF ReaderStart, writers
  <2>2. \A w \in Writer : wpc'[w] \notin HasShm BY <2>1 DEF SomeActive, Active
  <2>3. QED BY <2>2 DEF OneExchange
<1>4. ASSUME ReaderStep \/ Sigint \/ KillReader PROVE OneExchange'
  <2>1. UNCHANGED <<wpc, has>> /\ UNCHANGED starts
    BY <1>4 DEF ReaderStep, InitShm, InitSem, ReadLoop, ReadWait, ReadBegin, ReadEnd, ReadPost,
                Cleanup, Sigint, KillReader, writers
  <2>2. ~ReaderStart BY <2>1, ShmAssumption DEF ReaderStart, TypeOK
  <2>3. QED BY <2>1, <2>2, <1>0, <1>1 DEF OneExchange
<1>5. ASSUME NEW w \in Writer,
             \/ Open(w, "idle", "shm", "open_write_sem")
             \/ Open(w, "open_write_sem", "write_sem", "open_read_sem")
             \/ Open(w, "open_read_sem", "read_sem", "write")
      PROVE  OneExchange'
  <2>1. OneExchange /\ starts' = starts
    <3>1. starts' = starts BY <1>5 DEF Open, reader
    <3>2. QED BY <3>1, <1>0, <1>1, ShmAssumption DEF ReaderStart, TypeOK
  <2>2. ASSUME NEW k \in Key, name[k] # 0, HasOnly(w, k, name[k])
        PROVE  has'[w][k] = starts
    BY <2>2 DEF HasOnly, Names
  <2>3. /\ \A v \in Writer \ {w} : wpc'[v] = wpc[v]
        /\ \A v \in Writer \ {w}, k \in Key : has'[v][k] = has[v][k]
    BY <1>2, <1>5, OpenStep DEF HasOnly
  <2>4. /\ wpc'[w] \notin Inside
        /\ wpc'[w] \in HasShm => has'[w]["shm"] = starts
        /\ wpc'[w] \in HasWriteSem => has'[w]["write_sem"] = starts
        /\ wpc'[w] \in HasReadSem => has'[w]["read_sem"] = starts
    <3>1. CASE Open(w, "idle", "shm", "open_write_sem")
      <4>1. \/ wpc'[w] = "failed"
            \/ wpc'[w] = "open_write_sem" /\ name["shm"] # 0 /\ HasOnly(w, "shm", name["shm"])
        BY <1>2, <3>1, OpenStep
      <4>2. QED BY <4>1, <2>2 DEF HasOnly
    <3>2. CASE Open(w, "open_write_sem", "write_sem", "open_read_sem")
      <4>1. has[w]["shm"] = starts BY <2>1, <3>2 DEF Open, OneExchange
      <4>2. \/ wpc'[w] = "failed"
            \/ wpc'[w] = "open_read_sem" /\ name["write_sem"] # 0 /\ HasOnly(w, "write_sem", name["write_sem"])
        BY <1>2, <3>2, OpenStep
      <4>3. QED BY <4>1, <4>2, <2>2 DEF HasOnly
    <3>3. CASE Open(w, "open_read_sem", "read_sem", "write")
      <4>1. has[w]["shm"] = starts /\ has[w]["write_sem"] = starts
        BY <2>1, <3>3 DEF Open, OneExchange
      <4>2. \/ wpc'[w] = "failed"
            \/ wpc'[w] = "write" /\ name["read_sem"] # 0 /\ HasOnly(w, "read_sem", name["read_sem"])
        BY <1>2, <3>3, OpenStep
      <4>3. QED BY <4>1, <4>2, <2>2 DEF HasOnly
    <3>4. QED BY <1>5, <3>1, <3>2, <3>3
  <2>5. QED BY <2>1, <2>3, <2>4 DEF OneExchange
<1>6. ASSUME NEW w \in Writer,
             WriteBegin(w) \/ WriteEnd(w) \/ WritePost(w) \/ WriteAck(w) \/ KillWriter(w)
      PROVE  OneExchange'
  <2>1. /\ wpc[w] \in HasShm /\ UNCHANGED <<has, starts>>
        /\ \A v \in Writer \ {w} : wpc'[v] = wpc[v]
    BY <1>2, <1>6 DEF WriteBegin, WriteEnd, WritePost, WriteAck, KillWriter, reader, Active
  <2>2. OneExchange BY <2>1, <1>0, <1>1, ShmAssumption DEF ReaderStart, TypeOK
  <2>3. /\ wpc'[w] \in HasShm => wpc[w] \in HasReadSem
        /\ wpc'[w] \in Inside => \A v \in Writer \ {w} : wpc[v] \notin Inside
    <3>1. CASE WriteBegin(w) BY <3>1, <2>1 DEF WriteBegin
    <3>2. CASE WriteEnd(w) \/ WritePost(w)
      BY <3>2, <2>2 DEF WriteEnd, WritePost, OneExchange
    <3>3. CASE WriteAck(w) \/ KillWriter(w)
      BY <1>2, <3>3 DEF WriteAck, KillWriter
    <3>4. QED BY <1>6, <3>1, <3>2, <3>3
  <2>4. QED BY <2>1, <2>2, <2>3 DEF OneExchange
<1>7. CASE UNCHANGED vars
  <2>1. UNCHANGED <<wpc, has, starts, disturbed>> BY <1>7 DEF vars, reader, writers
  <2>2. QED BY <2>1, <1>1 DEF OneExchange
<1>8. QED BY <1>3, <1>4, <1>5, <1>6, <1>7 DEF Next, WriterStep

(* Undisturbed, the turn goes from the writer to the reader and back, with  *)
(* the writer's own message in the memory all the while.                    *)
LEMMA TurnStep ==
  ASSUME TypeOK, Names, Opened, InStep, [Next]_vars, ~disturbed'
  PROVE  Turn'
<1> USE Keys DEF Reading, Posts, Answers
<1>0. ReaderStart \/ ~disturbed BY StillUndisturbed DEF TypeOK
<1>1. /\ ~disturbed => OneExchange
      /\ ~disturbed => Turn
  BY DEF InStep
<1>2. /\ wpc \in [Writer -> Inside \cup {"idle", "open_write_sem", "open_read_sem",
                                     "write", "done", "failed", "killed"}]
      /\ starts \in Nat /\ starts \in Object
      /\ data \in [Object -> Writer \cup {Torn, Empty}]
      /\ sem["write_sem"][starts] \in Nat /\ sem["read_sem"][starts] \in Nat
  <2>1. starts \in Nat /\ starts \in Object BY ShmAssumption DEF TypeOK, Object
  <2>2. sem \in [Key -> [Object -> Nat]] BY DEF TypeOK
  <2>3. QED BY <2>1, <2>2 DEF TypeOK
<1>3. CASE ReaderStart
  <2>1. /\ ~SomeActive /\ wpc' = wpc /\ sem' = sem /\ rpc' = "shm"
        /\ starts' = starts + 1 /\ starts' \in Nat /\ starts' <= MaxStarts
    BY <1>3, <1>2, ShmAssumption DEF ReaderStart, ReaderTo, writers
  <2>2. \A w \in Writer : wpc'[w] \notin {"post", "ack"}
    BY <2>1 DEF SomeActive, Active, Inside
  <2>3. Posts' = 0 /\ Answers' = 0 BY <2>1, <1>2, Keys DEF Names
  <2>4. QED BY <2>1, <2>2, <2>3 DEF Turn
<1> SUFFICES ASSUME ~ReaderStart, ~disturbed, OneExchange, Turn PROVE Turn'
  BY <1>0, <1>1, <1>3
\* Steps that leave the exchange alone.
<1>4. ASSUME UNCHANGED <<wpc, data, sem, seen, got, starts>>,
             rpc \notin Reading \cup {"cleanup"}, rpc' \notin Reading
      PROVE  Turn'
  BY <1>4 DEF Turn
<1>5. ASSUME \/ InitShm \/ InitSem("write_sem", "read_sem") \/ InitSem("read_sem", "loop")
             \/ ReadLoop
      PROVE  Turn'
  BY <1>4, <1>5 DEF InitShm, InitSem, ReadLoop, ReaderTo, writers
<1>6. CASE ReadWait
  <2>1. SemOnly("write_sem", starts, Posts - 1) /\ Posts > 0
    BY <1>6, SemSteps DEF Opened, ReadWait
  <2>2. Posts' = Posts - 1 /\ Answers' = Answers
    BY <2>1, <1>2, <1>6 DEF SemOnly, ReadWait
  <2>3. rpc' \in {"cleanup", "read"} /\ UNCHANGED <<wpc, data, seen, got, starts>>
    BY <1>6 DEF ReadWait, ReaderTo, writers
  <2>4. QED BY <2>1, <2>2, <2>3, <1>2 DEF Turn
<1>7. CASE ReadBegin
  <2>1. /\ rpc = "read" /\ rpc' = "reading" /\ got' = data[starts]
        /\ UNCHANGED <<wpc, data, sem, seen, starts>>
    BY <1>7 DEF ReadBegin, ReaderTo, writers, Opened
  <2>2. QED BY <2>1 DEF Turn
<1>8. CASE ReadEnd
  <2>1. /\ rpc = "reading" /\ rpc' = "answer" /\ got' = IF data[starts] = got THEN got ELSE Torn
        /\ seen' = seen \cup ({got'} \cap Writer)
        /\ UNCHANGED <<wpc, data, sem, starts>>
    BY <1>8 DEF ReadEnd, ReaderTo, writers, Opened
  <2>2. \A w \in Writer : wpc[w] = "ack" => data[starts] = w /\ got = w
    BY <2>1 DEF Turn
  <2>3. \A w \in Writer : wpc[w] = "ack" => got' = w /\ w \in seen'
    BY <2>1, <2>2
  <2>4. QED BY <2>1, <2>3 DEF Turn
<1>9. CASE ReadPost
  <2>1. SemOnly("read_sem", starts, Answers + 1)
    BY <1>9, SemSteps DEF Opened, ReadPost
  <2>2. Answers' = Answers + 1 /\ Posts' = Posts
    BY <2>1, <1>2, <1>9 DEF SemOnly, ReadPost
  <2>3. /\ rpc = "answer" /\ rpc' \in {"cleanup", "loop"}
        /\ UNCHANGED <<wpc, data, seen, got, starts>>
    BY <1>9 DEF ReadPost, ReaderTo, writers
  <2>4. QED BY <2>2, <2>3, <1>2 DEF Turn
<1>10. CASE Sigint
  <2>1. /\ rpc' = rpc \/ (rpc = "wait" /\ rpc' = "cleanup")
        /\ UNCHANGED <<wpc, data, sem, seen, got, starts>>
    BY <1>10 DEF Sigint, ReaderTo, writers
  <2>2. QED BY <2>1 DEF Turn
<1>11. ASSUME Cleanup \/ KillReader PROVE Turn'
  <2>1. /\ ~SomeActive /\ rpc' \in {"gone", "killed"}
        /\ UNCHANGED <<wpc, data, sem, seen, got, starts>>
    BY <1>11 DEF Cleanup, KillReader, ReaderTo, writers
  <2>2. \A w \in Writer : wpc[w] \notin {"post", "ack"}
    BY <2>1 DEF SomeActive, Active, Inside
  <2>3. QED BY <2>1, <2>2 DEF Turn
\* Steps of a writer that is not yet, or no longer, in its exchange.
<1>12. ASSUME NEW w \in Writer, wpc[w] # "ack", wpc'[w] \notin {"post", "ack"},
              \A v \in Writer \ {w} : wpc'[v] = wpc[v],
              UNCHANGED <<data, sem, rpc, seen, got, starts>>
       PROVE  Turn'
  BY <1>12 DEF Turn
<1>13. ASSUME NEW w \in Writer,
              \/ Open(w, "idle", "shm", "open_write_sem")
              \/ Open(w, "open_write_sem", "write_sem", "open_read_sem")
              \/ Open(w, "open_read_sem", "read_sem", "write")
       PROVE  Turn'
  BY <1>2, <1>12, <1>13 DEF Open, WriterTo, reader
<1>14. ASSUME NEW w \in Writer, KillWriter(w) PROVE Turn'
  BY <1>2, <1>12, <1>14 DEF KillWriter, WriterTo, reader
<1>15. ASSUME NEW w \in Writer, WriteBegin(w) \/ WriteEnd(w) PROVE Turn'
  <2>1. /\ wpc[w] \in {"write", "copy"} /\ wpc'[w] \in {"copy", "post"}
        /\ \A v \in Writer \ {w} : wpc'[v] = wpc[v] /\ wpc[v] \notin Inside
        /\ wpc'[w] = "post" => data'[starts] = w
        /\ UNCHANGED <<sem, rpc, seen, got, starts>>
    <3>1. CASE WriteBegin(w)
      BY <1>2, <3>1 DEF WriteBegin, WriterTo, reader
    <3>2. CASE WriteEnd(w)
      <4>1. has[w]["shm"] = starts /\ \A v \in Writer \ {w} : wpc[v] \notin Inside
        BY <3>2 DEF WriteEnd, OneExchange, HasShm, Inside
      <4>2. QED BY <1>2, <3>2, <4>1 DEF WriteEnd, WriterTo, reader
    <3>3. QED BY <1>15, <3>1, <3>2
  <2>2. \A v \in Writer : wpc[v] # "ack" /\ wpc'[v] # "ack" BY <2>1 DEF Inside
  <2>3. \A v \in Writer : wpc'[v] = "post" => v = w BY <2>1 DEF Inside
  <2>4. QED BY <2>1, <2>2, <2>3 DEF Turn
<1>16. ASSUME NEW w \in Writer, WritePost(w) PROVE Turn'
  <2>1. SemOnly("write_sem", starts, Posts + 1)
    BY <1>16, SemSteps DEF WritePost, OneExchange, HasWriteSem, Inside
  <2>2. Posts' = Posts + 1 /\ Answers' = Answers
    BY <2>1, <1>2, <1>16 DEF SemOnly, WritePost, reader
  <2>3. /\ wpc[w] = "post" /\ wpc'[w] = "ack"
        /\ \A v \in Writer \ {w} : wpc'[v] = wpc[v] /\ wpc[v] \notin Inside
        /\ UNCHANGED <<data, rpc, seen, got, starts>>
    BY <1>2, <1>16 DEF WritePost, WriterTo, reader, OneExchange, Inside
  <2>4. \A v \in Writer : wpc[v] # "ack" /\ (wpc'[v] \in {"post", "ack"} => v = w)
    BY <2>3 DEF Inside
  <2>5. Posts = 0 /\ Answers = 0 /\ rpc \notin Reading /\ data[starts] = w
    BY <2>3, <2>4 DEF Turn
  <2>6. QED BY <2>2, <2>3, <2>4, <2>5 DEF Turn
<1>17. ASSUME NEW w \in Writer, WriteAck(w) PROVE Turn'
  <2>1. SemOnly("read_sem", starts, Answers - 1) /\ Answers > 0
    BY <1>17, SemSteps DEF WriteAck, OneExchange, HasReadSem, Inside
  <2>2. Posts' = Posts /\ Answers' = Answers - 1
    BY <2>1, <1>2, <1>17 DEF SemOnly, WriteAck, reader
  <2>3. /\ wpc[w] = "ack" /\ wpc'[w] = "done"
        /\ \A v \in Writer \ {w} : wpc'[v] = wpc[v] /\ wpc[v] \notin Inside
        /\ UNCHANGED <<data, rpc, seen, got, starts>>
    BY <1>2, <1>17 DEF WriteAck, WriterTo, reader, OneExchange, Inside
  <2>4. \A v \in Writer : wpc'[v] \notin {"post", "ack"} BY <2>3 DEF Inside
  <2>5. Posts = 0 /\ Answers = 1 /\ rpc \notin Reading BY <2>1, <2>3, <1>2 DEF Turn
  <2>6. QED BY <2>2, <2>3, <2>4, <2>5 DEF Turn
<1>18. CASE UNCHANGED vars
  <2>1. UNCHANGED <<wpc, data, sem, rpc, seen, got, starts>> BY <1>18 DEF vars, reader, writers
  <2>2. QED BY <2>1 DEF Turn
<1>19. QED
  BY <1>5, <1>6, <1>7, <1>8, <1>9, <1>10, <1>11, <1>13, <1>14, <1>15, <1>16, <1>17, <1>18
  DEF Next, ReaderStep, WriterStep

(* Only a writer that finds an answer in its undisturbed exchange counts.   *)
LEMMA AckedStep ==
  ASSUME TypeOK, InStep, AckedIsRead, [Next]_vars
  PROVE  AckedIsRead'
<1>1. seen \subseteq seen'
  BY DEF Next, ReaderStep, WriterStep, vars, reader, ReaderStart, InitShm, InitSem, ReadLoop,
         ReadWait, ReadBegin, ReadEnd, ReadPost, Cleanup, Sigint, KillReader, Open, WriteBegin,
         WriteEnd, WritePost, WriteAck, KillWriter
<1>2. ASSUME NEW w \in Writer, WriteAck(w) PROVE AckedIsRead'
  <2>1. CASE disturbed BY <1>1, <1>2, <2>1 DEF AckedIsRead, WriteAck
  <2>2. CASE ~disturbed
    <3>1. OneExchange /\ Turn BY <2>2 DEF InStep
    <3>2. has[w]["read_sem"] = starts
      BY <1>2, <3>1 DEF OneExchange, HasReadSem, Inside, WriteAck
    <3>3. wpc[w] = "ack" /\ Answers > 0 BY <1>2, <3>2 DEF WriteAck, Answers
    <3>4. w \in seen BY <3>1, <3>3 DEF Turn
    <3>5. acked' = acked \cup {w} BY <1>2, <2>2 DEF WriteAck
    <3>6. QED BY <1>1, <3>4, <3>5 DEF AckedIsRead
  <2>3. QED BY <2>1, <2>2
<1>3. ASSUME \A w \in Writer : ~WriteAck(w) PROVE AckedIsRead'
  <2>1. acked' = acked
    BY <1>3 DEF Next, ReaderStep, WriterStep, vars, writers, ReaderStart, InitShm, InitSem,
         ReadLoop, ReadWait, ReadBegin, ReadEnd, ReadPost, Cleanup, Sigint, KillReader, Open,
         WriteBegin, WriteEnd, WritePost, KillWriter
  <2>2. QED BY <1>1, <2>1 DEF AckedIsRead
<1>4. QED BY <1>2, <1>3

(* All of it holds at the start and is kept by every step. *)
LEMMA Invariance == Spec => []IInv
<1>1. Init => IInv
  <2> SUFFICES ASSUME Init PROVE IInv
    OBVIOUS
  <2> USE Keys, ShmAssumption DEF Init
  <2>1. TypeOK BY DEF TypeOK, None, Inside, Object, Key
  <2>2. Names BY DEF Names, None
  <2>3. Opened BY DEF Opened, None, Reading
  <2>4. \A w \in Writer : wpc[w] = "idle" OBVIOUS
  <2>5. OneExchange BY <2>4 DEF OneExchange, Inside, HasShm, HasWriteSem, HasReadSem
  <2>6. Turn BY <2>4 DEF Turn, Posts, Answers, Reading
  <2>7. QED BY <2>1, <2>2, <2>3, <2>5, <2>6 DEF IInv, InStep, AckedIsRead
<1>2. IInv /\ [Next]_vars => IInv'
  BY TypeStep, NamesStep, OpenedStep, OneExchangeStep, TurnStep, AckedStep DEF IInv, InStep
<1>3. QED BY <1>1, <1>2, PTL DEF Spec

(* However often the reader and the writers are killed and started, a       *)
(* reader that starts finds its names free.                                 *)
THEOREM ReaderAlwaysStarts == Spec => []ReaderStarts
<1>1. IInv => ReaderStarts BY DEF IInv, Opened, ReaderStarts
<1>2. QED BY <1>1, Invariance, PTL

(* Each exchange nobody disturbs, for any number of writers and of starts   *)
(* of the reader, is acknowledged only after the reader has the message ... *)
THEOREM AckMeansRead == Spec => []AckedIsRead
<1>1. IInv => AckedIsRead BY DEF IInv
<1>2. QED BY <1>1, Invariance, PTL

(* ... and what the reader got of it was whole.                             *)
THEOREM NothingTorn == Spec => []ReadIsWhole
<1>1. IInv => ReadIsWhole
  BY DEF IInv, InStep, Turn, ReadIsWhole, Reading, TypeOK
<1>2. QED BY <1>1, Invariance, PTL
=============================================================================
