--------------------------- MODULE SalofFifoProofs ---------------------------
(***************************************************************************)
(* Proofs about SalofFifo: for any number of threads, any size of the      *)
(* buffer and any width of the counters that it divides, the buffer holds  *)
(* the bytes between its counters, and the log task does not sleep over    *)
(* bytes.  Both are arithmetic of counters that wrap.                      *)
(***************************************************************************)
EXTENDS SalofFifo, FiniteSetTheorems, Integers, TLAPS

-----------------------------------------------------------------------------
(* Remainders *)

LEMMA Division ==
  ASSUME NEW S \in Int, S > 0, NEW a \in Int
  PROVE  a = S * (a \div S) + (a % S)
BY Z3

LEMMA DivMod ==
  ASSUME NEW S \in Nat \ {0}, NEW a \in Nat
  PROVE  a \div S \in Nat /\ a = S * (a \div S) + (a % S) /\ a % S \in 0..(S - 1)
<1>1. a \div S \in Nat BY Z3
<1>2. a = S * (a \div S) + (a % S) BY Division
<1>3. a % S \in 0..(S - 1) OBVIOUS
<1>4. QED BY <1>1, <1>2, <1>3

LEMMA ModIs ==
  ASSUME NEW S \in Nat \ {0}, NEW q \in Nat, NEW r \in 0..(S - 1)
  PROVE  (S * q + r) % S = r
OBVIOUS

(* A multiple of the divisor does not matter. *)
LEMMA ModAdd ==
  ASSUME NEW S \in Nat \ {0}, NEW a \in Nat, NEW q \in Nat
  PROVE  (a + S * q) % S = a % S
<1> DEFINE d == a \div S  r == a % S
<1>1. d \in Nat /\ a = S * d + r /\ r \in 0..(S - 1) BY DivMod
<1> HIDE DEF d, r
<1>2. a + S * q = S * (d + q) + r
  <2>1. S * (d + q) = S * d + S * q BY <1>1
  <2>2. S * d \in Nat /\ S * q \in Nat BY <1>1
  <2>3. QED BY <1>1, <2>1, <2>2
<1>3. d + q \in Nat BY <1>1
<1>4. (S * (d + q) + r) % S = r BY <1>1, <1>3, ModIs
<1>5. QED BY <1>2, <1>4 DEF r

LEMMA ModSmall ==
  ASSUME NEW S \in Nat \ {0}, NEW a \in 0..(S - 1)
  PROVE  a % S = a
OBVIOUS

(* What the counters add up to, and the remainder by the size that their    *)
(* sum has although it has wrapped.                                         *)
LEMMA PlusIs ==
  ASSUME FifoAssumption, NEW a \in Counter, NEW n \in 0..Width
  PROVE  /\ Plus(a, n) = IF a + n < Width THEN a + n ELSE a + n - Width
         /\ Plus(a, n) \in Counter
         /\ Plus(a, n) % Size = (a + n) % Size
<1>1. Width \in Nat \ {0} /\ Size \in Nat \ {0} /\ Width % Size = 0 BY DEF FifoAssumption
<1>2. a \in Nat /\ a < Width /\ n \in Nat /\ n <= Width BY <1>1 DEF Counter
<1>3. CASE a + n < Width
  <2>1. a + n \in 0..(Width - 1) BY <1>1, <1>2, <1>3
  <2>2. Plus(a, n) = a + n BY <1>1, <2>1, ModSmall DEF Plus
  <2>3. QED BY <1>3, <2>1, <2>2 DEF Counter
<1>4. CASE a + n >= Width
  <2> DEFINE r == a + n - Width
  <2>1. r \in 0..(Width - 1) /\ r \in Nat /\ a + n = Width * 1 + r BY <1>1, <1>2, <1>4
  <2> HIDE DEF r
  <2>2. (Width * 1 + r) % Width = r BY <1>1, <2>1, ModIs
  <2>3. Plus(a, n) = r BY <2>1, <2>2 DEF Plus
  <2>4. Width \div Size \in Nat /\ Width = Size * (Width \div Size)
    BY <1>1, DivMod
  <2>5. (r + Size * (Width \div Size)) % Size = r % Size BY <1>1, <2>1, <2>4, ModAdd
  <2>6. r + Width = a + n BY <1>1, <2>1
  <2>7. r % Size = (a + n) % Size BY <2>4, <2>5, <2>6
  <2>8. a + n \in Nat /\ ~(a + n < Width) BY <1>1, <1>2, <1>4
  <2>9. QED BY <2>1, <2>3, <2>7, <2>8 DEF r, Counter
<1>5. QED BY <1>1, <1>2, <1>3, <1>4

(* How far one counter is ahead of another. *)
Ahead(a, b) == (Width + a - b) % Width

LEMMA AheadIs ==
  ASSUME FifoAssumption, NEW a \in Counter, NEW b \in Counter
  PROVE  /\ Ahead(a, b) = IF b <= a THEN a - b ELSE Width + a - b
         /\ Ahead(a, b) \in Counter
         /\ Plus(b, Ahead(a, b)) = a
<1>1. Width \in Nat \ {0} BY DEF FifoAssumption
<1>2. a \in Nat /\ b \in Nat /\ a < Width /\ b < Width BY <1>1 DEF Counter
<1>3. CASE b <= a
  <2>1. a - b \in 0..(Width - 1) /\ Width + a - b = Width * 1 + (a - b)
    BY <1>1, <1>2, <1>3
  <2>2. (Width * 1 + (a - b)) % Width = a - b BY <1>1, <2>1, ModIs
  <2>3. Ahead(a, b) = a - b BY <2>1, <2>2 DEF Ahead
  <2>4. b + (a - b) = a BY <1>2
  <2>5. a % Width = a BY <1>1, ModSmall DEF Counter
  <2>6. QED BY <1>3, <2>1, <2>3, <2>4, <2>5 DEF Plus, Counter
<1>4. CASE ~(b <= a)
  <2>1. Width + a - b \in 0..(Width - 1) BY <1>1, <1>2, <1>4
  <2>2. Ahead(a, b) = Width + a - b BY <1>1, <2>1, ModSmall DEF Ahead
  <2>3. b + (Width + a - b) = Width * 1 + a BY <1>1, <1>2
  <2>4. (Width * 1 + a) % Width = a BY <1>1, ModIs DEF Counter
  <2>5. QED BY <1>4, <2>1, <2>2, <2>3, <2>4 DEF Plus, Counter
<1>5. QED BY <1>3, <1>4

(* The two counters advance, neither further than Size beyond the other. *)
LEMMA Advances ==
  ASSUME FifoAssumption, NEW a \in Counter, NEW b \in Counter, NEW n \in Nat,
         Ahead(a, b) <= Size
  PROVE  /\ Ahead(a, b) + n <= Size => Ahead(Plus(a, n), b) = Ahead(a, b) + n
         /\ n <= Ahead(a, b) => Ahead(a, Plus(b, n)) = Ahead(a, b) - n
<1> DEFINE d == Ahead(a, b)  a2 == Plus(a, n)  b2 == Plus(b, n)
<1>1. /\ Width \in Nat \ {0} /\ Size \in Nat \ {0} /\ Width >= 2 * Size
      /\ a \in Nat /\ b \in Nat /\ a < Width /\ b < Width
  BY DEF FifoAssumption, Counter
<1>2. d \in Nat /\ d = IF b <= a THEN a - b ELSE Width + a - b
  BY AheadIs DEF Counter
<1>3. ASSUME d + n <= Size PROVE Ahead(a2, b) = d + n
  <2>1. n \in 0..Width BY <1>1, <1>2, <1>3
  <2>2. a2 \in Counter /\ a2 = IF a + n < Width THEN a + n ELSE a + n - Width
    BY <2>1, PlusIs
  <2> HIDE DEF a2, d
  <2>3. a2 \in Nat BY <2>2 DEF Counter
  <2>4. Ahead(a2, b) = IF b <= a2 THEN a2 - b ELSE Width + a2 - b
    BY <2>2, AheadIs
  <2>5. QED BY <1>1, <1>2, <1>3, <2>2, <2>3, <2>4
<1>4. ASSUME n <= d PROVE Ahead(a, b2) = d - n
  <2>1. n \in 0..Width BY <1>1, <1>2, <1>4
  <2>2. b2 \in Counter /\ b2 = IF b + n < Width THEN b + n ELSE b + n - Width
    BY <2>1, PlusIs
  <2> HIDE DEF b2, d
  <2>3. b2 \in Nat BY <2>2 DEF Counter
  <2>4. Ahead(a, b2) = IF b2 <= a THEN a - b2 ELSE Width + a - b2
    BY <2>2, AheadIs
  <2>5. QED BY <1>1, <1>2, <1>4, <2>2, <2>3, <2>4
<1>5. QED BY <1>3, <1>4

LEMMA PlusPlus ==
  ASSUME FifoAssumption, NEW a \in Counter, NEW n \in Nat, NEW k \in Nat, n + k <= Width
  PROVE  Plus(Plus(a, n), k) = Plus(a, n + k)
<1>1. Width \in Nat \ {0} /\ a \in Nat /\ a < Width
  BY DEF FifoAssumption, Counter
<1>2. n \in 0..Width /\ k \in 0..Width /\ n + k \in 0..Width
  BY <1>1
<1> DEFINE b == Plus(a, n)
<1>3. b \in Counter /\ b = IF a + n < Width THEN a + n ELSE a + n - Width
  BY <1>2, PlusIs
<1>4. Plus(a, n + k) = IF a + (n + k) < Width THEN a + (n + k) ELSE a + (n + k) - Width
  BY <1>2, PlusIs
<1> HIDE DEF b
<1>5. Plus(b, k) = IF b + k < Width THEN b + k ELSE b + k - Width
  BY <1>2, <1>3, PlusIs
<1>6. b \in Nat BY <1>3 DEF Counter
<1>7. Plus(b, k) = Plus(a, n + k)
  BY <1>1, <1>2, <1>3, <1>4, <1>5, <1>6
<1>8. QED BY <1>7 DEF b

\* How many cells a cell is behind that of counter a, as salof_fifo_write() copies.
Behind(a, c) == (c + Size - (a % Size)) % Size

(* The copy puts the j-th byte into the cell of the j-th counter, and the   *)
(* unread bytes are in the cells after the free ones.                       *)
LEMMA BehindIs ==
  ASSUME FifoAssumption, NEW a \in Counter, NEW j \in 0..(Size - 1)
  PROVE  Behind(a, Plus(a, j) % Size) = j
<1>1. Width \in Nat \ {0} /\ Size \in Nat \ {0} /\ Width >= 2 * Size /\ a \in Nat
  BY DEF FifoAssumption, Counter
<1> DEFINE r == a % Size  q == a \div Size
<1>2. q \in Nat /\ a = Size * q + r /\ r \in 0..(Size - 1) BY <1>1, DivMod
<1> HIDE DEF r, q
<1>3. Plus(a, j) % Size = (a + j) % Size
  <2>1. j \in 0..Width BY <1>1
  <2>2. QED BY <2>1, PlusIs
<1>4. a + j = (r + j) + Size * q
  <2>1. Size * q \in Nat BY <1>1, <1>2
  <2>2. QED BY <1>1, <1>2, <2>1
<1>5. (a + j) % Size = (r + j) % Size
  <2>1. r + j \in Nat BY <1>1, <1>2
  <2>2. QED BY <1>1, <1>2, <1>4, <2>1, ModAdd
<1>6. CASE r + j < Size
  <2>1. (r + j) % Size = r + j
    <3>1. r + j \in 0..(Size - 1) BY <1>1, <1>2, <1>6
    <3>2. QED BY <1>1, <3>1, ModSmall
  <2>2. (r + j) + Size - r = Size * 1 + j BY <1>1, <1>2
  <2>3. (Size * 1 + j) % Size = j BY <1>1, ModIs
  <2>4. QED BY <1>3, <1>5, <2>1, <2>2, <2>3 DEF Behind, r
<1>7. CASE r + j >= Size
  <2> DEFINE s == r + j - Size
  <2>1. s \in 0..(Size - 1) /\ r + j = Size * 1 + s BY <1>1, <1>2, <1>7
  <2> HIDE DEF s
  <2>2. (r + j) % Size = s BY <1>1, <2>1, ModIs
  <2>3. s + Size - r = j BY <1>1, <1>2, <2>1
  <2>4. j % Size = j BY <1>1, ModSmall
  <2>5. QED BY <1>3, <1>5, <2>2, <2>3, <2>4 DEF Behind, r
<1>8. QED BY <1>1, <1>2, <1>6, <1>7

LEMMA BehindUnread ==
  ASSUME FifoAssumption, NEW a \in Counter, NEW b \in Counter, Ahead(a, b) <= Size,
         NEW k \in Nat, k < Ahead(a, b)
  PROVE  Behind(a, Plus(b, k) % Size) = Size - Ahead(a, b) + k
<1> DEFINE d == Ahead(a, b)  j == Size - d + k
<1>1. /\ Width \in Nat \ {0} /\ Size \in Nat \ {0} /\ Width >= 2 * Size /\ Width % Size = 0
      /\ a \in Nat /\ b \in Nat /\ a < Width /\ b < Width
  BY DEF FifoAssumption, Counter
<1>2. d \in Nat /\ d = IF b <= a THEN a - b ELSE Width + a - b
  BY AheadIs DEF Counter
<1>3. d <= Size /\ k < d OBVIOUS
<1> HIDE DEF d
<1>4. j \in 0..(Size - 1) /\ j \in 0..Width /\ k \in 0..Width BY <1>1, <1>2, <1>3
<1>5. Plus(a, j) % Size = (a + j) % Size /\ Plus(b, k) % Size = (b + k) % Size
  BY <1>4, PlusIs
<1>6. (a + j) % Size = (b + k) % Size
  <2>1. CASE b <= a
    <3>1. a + j = (b + k) + Size * 1 /\ b + k \in Nat BY <1>1, <1>2, <1>4, <2>1
    <3>2. ((b + k) + Size * 1) % Size = (b + k) % Size BY <1>1, <3>1, ModAdd
    <3>3. QED BY <3>1, <3>2
  <2>2. CASE ~(b <= a)
    <3> DEFINE w == Width \div Size
    <3>1. w \in Nat /\ Width = Size * w
      <4>1. w \in Nat /\ Width = Size * w + (Width % Size) BY <1>1, DivMod
      <4>2. Size * w \in Nat BY <1>1, <4>1
      <4> HIDE DEF w
      <4>3. QED BY <1>1, <4>1, <4>2
    <3> HIDE DEF w
    <3>2. (a + j) + Size * w = (b + k) + Size * 1 /\ b + k \in Nat /\ a + j \in Nat
      BY <1>1, <1>2, <1>4, <2>2, <3>1
    <3>3. ((a + j) + Size * w) % Size = (a + j) % Size BY <1>1, <3>1, <3>2, ModAdd
    <3>4. ((b + k) + Size * 1) % Size = (b + k) % Size BY <1>1, <3>2, ModAdd
    <3>5. QED BY <3>2, <3>3, <3>4
  <2>3. QED BY <2>1, <2>2
<1>7. Behind(a, Plus(a, j) % Size) = j BY <1>4, BehindIs
<1>8. Behind(a, Plus(b, k) % Size) = j BY <1>5, <1>6, <1>7
<1>9. QED BY <1>8 DEF d
-----------------------------------------------------------------------------
(* The buffer *)

Inside == {"compare", "room", "copy", "add", "unlock"}

\* The mutex belongs to the thread inside salof_fifo_write().
Locked == \A w \in Writer : wpc[w] \in Inside <=> mutex = w

\* A length that was compared still fits: only the other side has moved.
Lengths == /\ Used <= Size
           /\ \A w \in Writer : wpc[w] \in {"copy", "add"} => wlen[w] <= Room
           /\ rpc = "copy" => rlen <= Used

\* What can be read is in its cells, and so is what is about to be added.
Written ==
  /\ \A k \in 0..(Size - 1) : k < Used => buff[Plus(out, k) % Size] = Plus(out, k)
  /\ \A w \in Writer : wpc[w] = "add" =>
       \A k \in 0..(Size - 1) : k < wlen[w] => buff[Plus(in, k) % Size] = Plus(in, k)

IInv == TypeOK /\ Locked /\ Lengths /\ Written

\* A step that leaves the cells and the counters alone.
Still == UNCHANGED <<buff, in, out>>

LEMMA Room1 ==
  ASSUME FifoAssumption, TypeOK, Lengths
  PROVE  /\ Used = Ahead(in, out) /\ Used \in Nat /\ Used <= Size
         /\ Room = Size - Used /\ Room \in 0..Size /\ Size \in Nat \ {0} /\ Width >= 2 * Size
         /\ Width \in Nat /\ in = Plus(out, Used) /\ in \in Counter /\ out \in Counter
<1>1. in \in Counter /\ out \in Counter BY DEF TypeOK
<1>2. Used = Ahead(in, out) BY DEF Used, Ahead
<1>3. Used \in Nat /\ in = Plus(out, Used) BY <1>1, <1>2, AheadIs DEF Counter
<1>4. Used <= Size BY DEF Lengths
<1>5. Size \in Nat \ {0} /\ Width \in Nat /\ Width >= 2 * Size BY DEF FifoAssumption
<1>6. Room = Size - Used BY DEF Room
<1>7. Room \in 0..Size BY <1>3, <1>4, <1>5, <1>6
<1>8. QED BY <1>1, <1>2, <1>3, <1>4, <1>5, <1>6, <1>7

(* One thread at a time is between pend and post. *)
LEMMA LockedStep == FifoAssumption /\ TypeOK /\ Locked /\ [Next]_vars => Locked'
<1> SUFFICES ASSUME FifoAssumption, TypeOK, Locked, [Next]_vars PROVE Locked'
  OBVIOUS
<1>0. wpc = [w \in Writer |-> wpc[w]] BY DEF TypeOK
<1>2. ASSUME NEW w \in Writer, NEW n \in 1..MaxLen, Salof(w, n) PROVE Locked'
  BY <1>0, <1>2 DEF Salof, WriterTo, Locked, Inside
<1>3. ASSUME NEW w \in Writer, WriteLock(w) PROVE Locked'
  BY <1>0, <1>3 DEF WriteLock, WriterTo, Locked, Inside, FifoAssumption
<1>4. ASSUME NEW w \in Writer, WriteCompare(w) PROVE Locked'
  BY <1>0, <1>4 DEF WriteCompare, WriterTo, Locked, Inside
<1>5. ASSUME NEW w \in Writer, WriteRoom(w) \/ WriteCopy(w) \/ WriteAdd(w) PROVE Locked'
  BY <1>0, <1>5 DEF WriteRoom, WriteCopy, WriteAdd, WriterTo, Locked, Inside
<1>6. ASSUME NEW w \in Writer, WriteUnlock(w) PROVE Locked'
  BY <1>0, <1>6 DEF WriteUnlock, WriterTo, Locked, Inside, FifoAssumption
<1>7. ASSUME NEW w \in Writer, WritePost(w) PROVE Locked'
  BY <1>0, <1>7 DEF WritePost, WriterTo, Locked, Inside
<1>8. CASE Read \/ UNCHANGED vars
  BY <1>8 DEF Read, ReadPend, ReadCompare, ReadSize, ReadAdd, vars, Locked
<1>9. QED BY <1>2, <1>3, <1>4, <1>5, <1>6, <1>7, <1>8 DEF Next, Write

(* What the writers and the reader count stays within the buffer. *)
LEMMA TypeStep == FifoAssumption /\ TypeOK /\ Lengths /\ [Next]_vars => TypeOK'
<1> SUFFICES ASSUME FifoAssumption, TypeOK, Lengths, [Next]_vars PROVE TypeOK'
  OBVIOUS
<1>1. /\ Used \in 0..Size /\ Room \in 0..Size /\ Size \in Nat \ {0} /\ MaxLen \in Nat \ {0}
      /\ Width \in Nat /\ Width >= 2 * Size
  BY Room1 DEF FifoAssumption
<1> DEFINE Most == IF Size > MaxLen THEN Size ELSE MaxLen
<1>2. Room \in 0..Most /\ (\A n \in 1..MaxLen : n \in 0..Most) /\ 0 \in 0..Most BY <1>1
<1> HIDE DEF Most
<1>3. wlen \in [Writer -> 0..Most] BY DEF TypeOK, Most
<1>4. ASSUME NEW w \in Writer, NEW n \in 1..MaxLen, Salof(w, n) PROVE TypeOK'
  <2>1. wlen' \in [Writer -> 0..Most] BY <1>2, <1>3, <1>4 DEF Salof
  <2>2. left' \in [Writer -> 0..Writes]
    <3>1. Writes \in Nat BY DEF FifoAssumption
    <3>2. left[w] - 1 \in 0..Writes BY <1>4, <3>1 DEF Salof, TypeOK
    <3>3. QED BY <1>4, <3>2 DEF Salof, TypeOK
  <2>3. QED BY <1>4, <2>1, <2>2 DEF Salof, WriterTo, TypeOK, Most
<1>5. ASSUME NEW w \in Writer, WriteLock(w) \/ WriteCompare(w) \/ WriteUnlock(w) PROVE TypeOK'
  BY <1>5 DEF WriteLock, WriteCompare, WriteUnlock, WriterTo, TypeOK
<1>6. ASSUME NEW w \in Writer, WriteRoom(w) PROVE TypeOK'
  <2>1. wlen' \in [Writer -> 0..Most] BY <1>2, <1>3, <1>6 DEF WriteRoom
  <2>2. QED BY <1>6, <2>1 DEF WriteRoom, WriterTo, TypeOK, Most
<1>7. ASSUME NEW w \in Writer, WriteCopy(w) PROVE TypeOK'
  <2>1. ASSUME NEW c \in Cell PROVE Plus(in, Behind(in, c)) \in Counter
    <3>1. in \in Counter /\ in \in Nat BY DEF TypeOK, Counter
    <3>2. in % Size \in 0..(Size - 1) BY <1>1, <3>1
    <3>3. c + Size - (in % Size) \in Nat BY <1>1, <3>2 DEF Cell
    <3>4. Behind(in, c) \in 0..(Size - 1) BY <1>1, <3>3 DEF Behind
    <3>5. Behind(in, c) \in 0..Width BY <1>1, <3>4
    <3>6. QED BY <3>1, <3>5, PlusIs
  <2>2. buff' = [c \in Cell |-> IF Behind(in, c) < wlen[w] THEN Plus(in, Behind(in, c)) ELSE buff[c]]
    BY <1>7 DEF WriteCopy, Behind
  <2>3. buff' \in [Cell -> Counter] BY <2>1, <2>2 DEF TypeOK
  <2>4. QED BY <1>7, <2>3 DEF WriteCopy, WriterTo, TypeOK
<1>8. ASSUME NEW w \in Writer, WriteAdd(w) PROVE TypeOK'
  <2>1. Plus(in, wlen[w]) \in Counter
    <3>1. in + wlen[w] \in Nat /\ Width \in Nat \ {0}
      BY <1>1 DEF TypeOK, Counter
    <3>2. QED BY <3>1 DEF Plus, Counter
  <2>2. QED BY <1>8, <2>1 DEF WriteAdd, WriterTo, TypeOK
<1>9. ASSUME NEW w \in Writer, WritePost(w) PROVE TypeOK'
  <2>1. wlen' \in [Writer -> 0..Most] BY <1>2, <1>3, <1>9 DEF WritePost
  <2>2. QED BY <1>9, <2>1 DEF WritePost, WriterTo, TypeOK, Most
<1>10. CASE ReadPend BY <1>10 DEF ReadPend, TypeOK
<1>11. CASE ReadCompare BY <1>1, <1>11 DEF ReadCompare, TypeOK
<1>12. CASE ReadSize BY <1>1, <1>12 DEF ReadSize, TypeOK
<1>13. CASE ReadAdd
  <2>1. Plus(out, rlen) \in Counter
    <3>1. out + rlen \in Nat /\ Width \in Nat \ {0}
      BY <1>1 DEF TypeOK, Counter
    <3>2. QED BY <3>1 DEF Plus, Counter
  <2>2. QED BY <1>1, <1>13, <2>1 DEF ReadAdd, TypeOK
<1>14. CASE UNCHANGED vars BY <1>14 DEF vars, TypeOK
<1>15. QED
  BY <1>4, <1>5, <1>6, <1>7, <1>8, <1>9, <1>10, <1>11, <1>12, <1>13, <1>14
  DEF Next, Write, Read

(* A step that moves no counter and copies nothing: its thread may have      *)
(* compared its length with the room, or the bytes that are there.           *)
LEMMA StillStep ==
  ASSUME FifoAssumption, TypeOK, Lengths, Written, Still,
         \A w \in Writer : wpc'[w] \in {"copy", "add"} =>
           \/ wpc[w] = wpc'[w] /\ wlen'[w] = wlen[w]
           \/ wpc'[w] = "copy" /\ wlen'[w] <= Room,
         rpc' = "copy" => rlen' <= Used
  PROVE  Lengths' /\ Written'
<1>1. Used' = Used /\ Room' = Room BY DEF Still, Used, Room
<1>2. Lengths'
  BY <1>1 DEF Lengths
<1>3. \A k : Plus(out, k)' = Plus(out, k) /\ Plus(in, k)' = Plus(in, k)
  BY DEF Still, Plus
<1>4. Written'
  BY <1>1, <1>3 DEF Written, Still
<1>5. QED BY <1>2, <1>4

(* Another thread than the one inside neither copies nor adds. *)
LEMMA OthersWait ==
  ASSUME Locked, NEW w \in Writer, wpc[w] \in Inside, NEW v \in Writer, v # w
  PROVE  wpc[v] \notin Inside
BY DEF Locked

(* The two memcpy() calls write to free cells only. *)
LEMMA CopyStep ==
  ASSUME FifoAssumption, TypeOK, Locked, Lengths, Written, NEW w \in Writer, WriteCopy(w)
  PROVE  Lengths' /\ Written'
<1> DEFINE n == wlen[w]
<1>1. /\ wpc[w] = "copy" /\ wpc' = [wpc EXCEPT ![w] = "add"]
      /\ UNCHANGED <<in, out, wlen, rpc, rlen>>
      /\ buff' = [c \in Cell |-> IF Behind(in, c) < n THEN Plus(in, Behind(in, c)) ELSE buff[c]]
  BY DEF WriteCopy, WriterTo, Behind
<1>2. \A v \in Writer : wpc'[v] = IF v = w THEN "add" ELSE wpc[v] BY <1>1 DEF TypeOK
<1>3. \A v \in Writer : v # w => wpc[v] \notin {"copy", "add"} BY <1>1, OthersWait DEF Inside
<1>4. n \in Nat /\ n <= Room BY <1>1 DEF TypeOK, Lengths
<1>5. Used' = Used /\ Room' = Room BY <1>1 DEF Used, Room
<1>6. Lengths' BY <1>1, <1>2, <1>3, <1>4, <1>5 DEF Lengths
<1>7. Used = Ahead(in, out) /\ Used \in Nat /\ Used <= Size /\ Room = Size - Used
      /\ in \in Counter /\ out \in Counter /\ Size \in Nat \ {0} /\ Width >= 2 * Size
      /\ Width \in Nat
  BY Room1
<1>8. ASSUME NEW a \in Counter, NEW k \in 0..(Size - 1) PROVE Plus(a, k) % Size \in Cell
  <2>1. k \in 0..Width BY <1>7
  <2>2. Plus(a, k) \in Nat BY <2>1, PlusIs DEF Counter
  <2>3. QED BY <1>7, <2>2 DEF Cell
<1> HIDE DEF n
<1>9. ASSUME NEW k \in 0..(Size - 1), k < Used
      PROVE  buff'[Plus(out, k) % Size] = Plus(out, k)
  <2> DEFINE c == Plus(out, k) % Size
  <2>1. c \in Cell BY <1>7, <1>8
  <2>2. Behind(in, c) = Size - Used + k
    <3>1. k \in Nat /\ k < Ahead(in, out) BY <1>7, <1>9
    <3>2. QED BY <1>7, <3>1, BehindUnread
  <2> HIDE DEF c
  <2>3. ~(Behind(in, c) < n) BY <1>4, <1>7, <2>2
  <2>4. buff'[c] = buff[c] BY <1>1, <2>1, <2>3
  <2>5. buff[c] = Plus(out, k) BY <1>9 DEF c, Written
  <2>6. QED BY <2>4, <2>5 DEF c
<1>10. ASSUME NEW k \in 0..(Size - 1), k < n
       PROVE  buff'[Plus(in, k) % Size] = Plus(in, k)
  <2> DEFINE c == Plus(in, k) % Size
  <2>1. c \in Cell BY <1>7, <1>8
  <2>2. Behind(in, c) = k BY <1>7, BehindIs
  <2> HIDE DEF c
  <2>3. buff'[c] = Plus(in, k) BY <1>1, <1>10, <2>1, <2>2
  <2>4. QED BY <2>3 DEF c
<1>11. \A k : Plus(out, k)' = Plus(out, k) /\ Plus(in, k)' = Plus(in, k)
  BY <1>1 DEF Plus
<1>12. Written'
  <2>1. \A v \in Writer : wpc'[v] = "add" => v = w BY <1>2, <1>3
  <2>2. wlen' = wlen BY <1>1
  <2>3. \A k \in 0..(Size - 1) : k < Used' => buff'[Plus(out, k)' % Size] = Plus(out, k)'
    BY <1>5, <1>9, <1>11
  <2>4. \A v \in Writer : wpc'[v] = "add" =>
          \A k \in 0..(Size - 1) : k < wlen'[v] => buff'[Plus(in, k)' % Size] = Plus(in, k)'
    BY <1>10, <1>11, <2>1, <2>2 DEF n
  <2>5. QED BY <2>3, <2>4 DEF Written
<1>13. QED BY <1>6, <1>12

(* The bytes that were copied are those the counter announces. *)
LEMMA AddStep ==
  ASSUME FifoAssumption, TypeOK, Locked, Lengths, Written, NEW w \in Writer, WriteAdd(w)
  PROVE  Lengths' /\ Written'
<1> DEFINE n == wlen[w]
<1>1. /\ wpc[w] = "add" /\ wpc' = [wpc EXCEPT ![w] = "unlock"] /\ in' = Plus(in, n)
      /\ UNCHANGED <<buff, out, wlen, rpc, rlen>>
  BY DEF WriteAdd, WriterTo
<1>2. \A v \in Writer : wpc'[v] \notin {"copy", "add"}
  <2>1. \A v \in Writer : v # w => wpc[v] \notin {"copy", "add"} BY <1>1, OthersWait DEF Inside
  <2>2. QED BY <1>1, <2>1 DEF TypeOK
<1>3. n \in Nat /\ n <= Room BY <1>1 DEF TypeOK, Lengths
<1>4. Used = Ahead(in, out) /\ Used \in Nat /\ Used <= Size /\ Room = Size - Used
      /\ in \in Counter /\ out \in Counter /\ in = Plus(out, Used)
      /\ Size \in Nat \ {0} /\ Width \in Nat /\ Width >= 2 * Size
  BY Room1
<1>5. \A k \in 0..(Size - 1) : k < n => buff[Plus(in, k) % Size] = Plus(in, k)
  BY <1>1 DEF Written
<1> HIDE DEF n
<1>6. Used' = Used + n
  <2>1. Used' = Ahead(Plus(in, n), out) BY <1>1 DEF Used, Ahead
  <2>2. Ahead(in, out) + n <= Size BY <1>3, <1>4
  <2>3. QED BY <1>3, <1>4, <2>1, <2>2, Advances
<1>7. Lengths'
  <2>1. Used + n <= Size BY <1>3, <1>4
  <2>2. rpc' = "copy" => rlen' <= Used + n
    <3>1. rlen \in Nat BY <1>4 DEF TypeOK
    <3>2. QED BY <1>1, <1>3, <1>4, <3>1 DEF Lengths
  <2>3. QED BY <1>2, <1>6, <2>1, <2>2 DEF Lengths
<1>8. ASSUME NEW k \in 0..(Size - 1), k < Used + n
      PROVE  buff[Plus(out, k) % Size] = Plus(out, k)
  <2>1. CASE k < Used BY <2>1 DEF Written
  <2>2. CASE k >= Used
    <3> DEFINE j == k - Used
    <3>1. j \in 0..(Size - 1) /\ j < n /\ Used + j = k /\ Used + j <= Width
      BY <1>3, <1>4, <1>8, <2>2
    <3> HIDE DEF j
    <3>2. Plus(Plus(out, Used), j) = Plus(out, Used + j)
      BY <1>4, <3>1, PlusPlus
    <3>3. Plus(in, j) = Plus(out, k) BY <1>4, <3>1, <3>2
    <3>4. QED BY <1>5, <3>1, <3>3
  <2>3. QED BY <1>4, <2>1, <2>2
<1>9. \A k : Plus(out, k)' = Plus(out, k) BY <1>1 DEF Plus
<1>10. Written'
  <2>1. \A k \in 0..(Size - 1) : k < Used' => buff'[Plus(out, k)' % Size] = Plus(out, k)'
    BY <1>1, <1>6, <1>8, <1>9
  <2>2. QED BY <1>2, <2>1 DEF Written
<1>11. QED BY <1>7, <1>10

(* Taking bytes leaves the ones behind them where they are. *)
LEMMA TakeStep ==
  ASSUME FifoAssumption, TypeOK, Lengths, Written, ReadAdd
  PROVE  Lengths' /\ Written'
<1> DEFINE n == rlen
<1>1. /\ rpc = "copy" /\ out' = Plus(out, n) /\ rpc' = "wait"
      /\ UNCHANGED <<buff, in, wpc, wlen>>
  BY DEF ReadAdd
<1>2. n \in Nat /\ n <= Used BY <1>1 DEF TypeOK, Lengths
<1>3. Used = Ahead(in, out) /\ Used \in Nat /\ Used <= Size /\ Room = Size - Used
      /\ in \in Counter /\ out \in Counter
      /\ Size \in Nat \ {0} /\ Width \in Nat /\ Width >= 2 * Size
  BY Room1
<1> HIDE DEF n
<1>4. Used' = Used - n
  <2>1. Used' = Ahead(in, Plus(out, n)) BY <1>1 DEF Used, Ahead
  <2>2. QED BY <1>2, <1>3, <2>1, Advances
<1>5. Room' = Room + n BY <1>2, <1>3, <1>4 DEF Room
<1>6. Lengths'
  <2>1. Used - n <= Size BY <1>2, <1>3
  <2>2. ASSUME NEW v \in Writer, wpc[v] \in {"copy", "add"} PROVE wlen[v] <= Room + n
    <3>1. wlen[v] <= Room /\ wlen[v] \in Nat BY <2>2 DEF Lengths, TypeOK
    <3>2. QED BY <1>2, <1>3, <3>1
  <2>3. QED BY <1>1, <1>4, <1>5, <2>1, <2>2 DEF Lengths
<1>7. ASSUME NEW k \in 0..(Size - 1), k < Used - n
      PROVE  buff[Plus(Plus(out, n), k) % Size] = Plus(Plus(out, n), k)
  <2>1. n + k \in 0..(Size - 1) /\ n + k < Used /\ n + k <= Width
    BY <1>2, <1>3, <1>7
  <2>2. Plus(Plus(out, n), k) = Plus(out, n + k) BY <1>2, <1>3, <2>1, PlusPlus
  <2>3. QED BY <2>1, <2>2 DEF Written
<1>8. Written'
  <2>1. \A k : Plus(out, k)' = Plus(Plus(out, n), k) /\ Plus(in, k)' = Plus(in, k)
    BY <1>1 DEF Plus
  <2>2. \A k \in 0..(Size - 1) : k < Used' => buff'[Plus(out, k)' % Size] = Plus(out, k)'
    BY <1>1, <1>4, <1>7, <2>1
  <2>3. QED BY <1>1, <2>1, <2>2 DEF Written
<1>9. QED BY <1>6, <1>8

LEMMA DataStep ==
  ASSUME FifoAssumption, TypeOK, Locked, Lengths, Written, [Next]_vars
  PROVE  Lengths' /\ Written'
<1>0. wpc = [w \in Writer |-> wpc[w]] /\ wlen = [w \in Writer |-> wlen[w]] BY DEF TypeOK
<1>a. Used \in Nat /\ Room \in Nat /\ MaxLen \in Nat BY Room1 DEF FifoAssumption
<1>1. ASSUME NEW w \in Writer, WriteRoom(w) PROVE Lengths' /\ Written'
  <2>1. Still /\ rpc' = rpc /\ rlen' = rlen BY <1>1 DEF WriteRoom, Still
  <2>2. \A v \in Writer : wpc'[v] \in {"copy", "add"} =>
           \/ wpc[v] = wpc'[v] /\ wlen'[v] = wlen[v]
           \/ wpc'[v] = "copy" /\ wlen'[v] <= Room
    <3>1. wpc'[w] = "copy" /\ wlen'[w] = Room BY <1>0, <1>1 DEF WriteRoom, WriterTo
    <3>2. \A v \in Writer \ {w} : wpc'[v] = wpc[v] /\ wlen'[v] = wlen[v]
      BY <1>0, <1>1 DEF WriteRoom, WriterTo
    <3>3. Room <= Room BY <1>a
    <3>4. QED BY <3>1, <3>2, <3>3
  <2>3. QED BY <2>1, <2>2, StillStep DEF Lengths
<1>2. ASSUME NEW w \in Writer, WriteCompare(w) PROVE Lengths' /\ Written'
  <2>1. Still /\ rpc' = rpc /\ rlen' = rlen BY <1>2 DEF WriteCompare, Still
  <2>2. wlen[w] \in Nat BY DEF TypeOK
  <2>3. \A v \in Writer : wpc'[v] \in {"copy", "add"} =>
           \/ wpc[v] = wpc'[v] /\ wlen'[v] = wlen[v]
           \/ wpc'[v] = "copy" /\ wlen'[v] <= Room
    BY <1>0, <1>2, <1>a, <2>2 DEF WriteCompare, WriterTo
  <2>4. QED BY <2>1, <2>3, StillStep DEF Lengths
<1>3. ASSUME NEW w \in Writer,
             \/ (\E n \in 1..MaxLen : Salof(w, n)) \/ WriteLock(w)
             \/ WriteUnlock(w) \/ WritePost(w)
      PROVE  Lengths' /\ Written'
  <2>1. Still /\ rpc' = rpc /\ rlen' = rlen
    BY <1>3 DEF Salof, WriteLock, WriteUnlock, WritePost, Still
  <2>2. \A v \in Writer : wpc'[v] \in {"copy", "add"} => wpc[v] = wpc'[v] /\ wlen'[v] = wlen[v]
    BY <1>0, <1>3 DEF Salof, WriteLock, WriteUnlock, WritePost, WriterTo
  <2>3. QED BY <2>1, <2>2, StillStep DEF Lengths
<1>4. CASE ReadPend \/ ReadCompare \/ ReadSize \/ UNCHANGED vars
  <2>1. Still /\ UNCHANGED <<wpc, wlen>>
    BY <1>4 DEF ReadPend, ReadCompare, ReadSize, vars, Still
  <2>2. rpc' = "copy" => rlen' <= Used
    BY <1>4, <1>a DEF ReadPend, ReadCompare, ReadSize, vars, Lengths
  <2>3. QED BY <2>1, <2>2, StillStep
<1>5. QED BY <1>1, <1>2, <1>3, <1>4, CopyStep, AddStep, TakeStep DEF Next, Write, Read

LEMMA InitUsed == FifoAssumption /\ Init => Used = 0
<1> SUFFICES ASSUME FifoAssumption, Init PROVE Used = 0
  OBVIOUS
<1>1. Width \in Nat \ {0} BY DEF FifoAssumption
<1>2. (Width * 1 + 0) % Width = 0 BY <1>1, ModIs
<1>3. Width + in - out = Width * 1 + 0 BY <1>1 DEF Init
<1>4. QED BY <1>2, <1>3 DEF Used

LEMMA InitStep == FifoAssumption /\ Init => IInv
<1> SUFFICES ASSUME FifoAssumption, Init PROVE IInv
  OBVIOUS
<1>1. Size \in Nat \ {0} /\ MaxLen \in Nat \ {0} /\ Width \in Nat \ {0} /\ Writes \in Nat
  BY DEF FifoAssumption
<1>2. TypeOK
  <2>1. 0 \in Counter /\ Writes \in 0..Writes BY <1>1 DEF Counter
  <2>2. 0 \in 0..(IF Size > MaxLen THEN Size ELSE MaxLen) /\ 0 \in 0..Size BY <1>1
  <2>3. QED BY <2>1, <2>2 DEF Init, TypeOK
<1>3. Used = 0 BY InitUsed
<1>4. Locked BY DEF Init, Locked, Inside, FifoAssumption
<1>5. Lengths BY <1>1, <1>3 DEF Init, Lengths
<1>6. Written BY <1>3 DEF Init, Written
<1>7. QED BY <1>2, <1>4, <1>5, <1>6 DEF IInv

-----------------------------------------------------------------------------
(* The semaphore *)

(* How the counters' steps change the number of bytes to read. *)
LEMMA UsedAfter ==
  ASSUME FifoAssumption, TypeOK, Lengths
  PROVE  /\ \A w \in Writer : WriteAdd(w) => Used' = Used + wlen[w]
         /\ ReadAdd => Used' = Used - rlen
<1>1. Used = Ahead(in, out) /\ Used \in Nat /\ Used <= Size /\ Room = Size - Used
      /\ in \in Counter /\ out \in Counter /\ Size \in Nat \ {0}
  BY Room1
<1>2. ASSUME NEW w \in Writer, WriteAdd(w) PROVE Used' = Used + wlen[w]
  <2>1. Used' = Ahead(Plus(in, wlen[w]), out) BY <1>2 DEF WriteAdd, Used, Ahead
  <2>2. wlen[w] \in Nat /\ wlen[w] <= Room BY <1>2 DEF WriteAdd, TypeOK, Lengths
  <2>3. Ahead(in, out) + wlen[w] <= Size BY <1>1, <2>2
  <2>4. QED BY <1>1, <2>1, <2>2, <2>3, Advances
<1>3. ASSUME ReadAdd PROVE Used' = Used - rlen
  <2>1. Used' = Ahead(in, Plus(out, rlen)) BY <1>3 DEF ReadAdd, Used, Ahead
  <2>2. rlen \in Nat /\ rlen <= Used BY <1>3 DEF ReadAdd, TypeOK, Lengths
  <2>3. QED BY <1>1, <2>1, <2>2, Advances
<1>4. QED BY <1>2, <1>3

\* Threads whose bytes are in the buffer and whose post is still to come.
Pending == {w \in Writer : wpc[w] \in {"unlock", "post"}}
Posts == sem + Cardinality(Pending)

\* Every post stands for at most MaxLen bytes, so that what is in the buffer
\* is read by the reads that are announced and the one under way.
Short == \A w \in Writer : wlen[w] <= MaxLen
Covered == /\ rpc = "wait" => Used <= MaxLen * Posts
           /\ rpc \in {"compare", "size"} => Used <= MaxLen * (Posts + 1)
           /\ rpc = "copy" => Used <= MaxLen * Posts + rlen
Announced == ~overrun => Short /\ Covered

LEMMA PostsType ==
  ASSUME FifoAssumption, TypeOK
  PROVE  IsFiniteSet(Pending) /\ Cardinality(Pending) \in Nat /\ Posts \in Nat
<1>1. IsFiniteSet(Pending) BY FS_Subset DEF FifoAssumption, Pending
<1>2. QED BY <1>1, FS_CardinalityType DEF Posts, TypeOK

\* The steps that announce nothing and take no announcement.
Quiet(w) == \/ \E n \in 1..MaxLen : Salof(w, n)
            \/ WriteLock(w) \/ WriteCompare(w) \/ WriteRoom(w) \/ WriteCopy(w)
            \/ WriteUnlock(w) \/ WritePost(w)

(* Posts grows by one when bytes are added and shrinks by one with a wait.  *)
LEMMA PostsStep ==
  ASSUME FifoAssumption, TypeOK
  PROVE  /\ \A w \in Writer : WriteAdd(w) => Posts' = Posts + 1
         /\ ReadPend => Posts' = Posts - 1
         /\ \A w \in Writer : Quiet(w) => Posts' = Posts
         /\ ReadCompare \/ ReadSize \/ ReadAdd \/ UNCHANGED vars => Posts' = Posts
<1>0. wpc = [w \in Writer |-> wpc[w]] BY DEF TypeOK
<1>1. IsFiniteSet(Pending) /\ Cardinality(Pending) \in Nat /\ sem \in Nat
  BY PostsType DEF TypeOK
<1>2. ASSUME NEW w \in Writer, WriteAdd(w) PROVE Posts' = Posts + 1
  <2>1. Pending' = Pending \cup {w} /\ w \notin Pending /\ sem' = sem
    BY <1>0, <1>2 DEF WriteAdd, WriterTo, Pending
  <2>2. Cardinality(Pending') = Cardinality(Pending) + 1 BY <1>1, <2>1, FS_AddElement
  <2>3. QED BY <1>1, <2>1, <2>2 DEF Posts
<1>3. ASSUME ReadPend PROVE Posts' = Posts - 1
  <2>1. Pending' = Pending /\ sem' = sem - 1 BY <1>3 DEF ReadPend, Pending
  <2>2. QED BY <1>1, <2>1 DEF Posts
<1>4. ASSUME NEW w \in Writer, WritePost(w) PROVE Posts' = Posts
  <2>1. Pending' = Pending \ {w} /\ w \in Pending /\ sem' = sem + 1
    BY <1>0, <1>4 DEF WritePost, WriterTo, Pending
  <2>2. Cardinality(Pending') = Cardinality(Pending) - 1 BY <1>1, <2>1, FS_RemoveElement
  <2>3. QED BY <1>1, <2>1, <2>2 DEF Posts
<1>5. ASSUME NEW w \in Writer,
             \/ (\E n \in 1..MaxLen : Salof(w, n)) \/ WriteLock(w) \/ WriteCompare(w)
             \/ WriteRoom(w) \/ WriteCopy(w) \/ WriteUnlock(w)
      PROVE  Posts' = Posts
  <2>1. sem' = sem
    BY <1>5 DEF Salof, WriteLock, WriteCompare, WriteRoom, WriteCopy, WriteUnlock
  <2>2. \A v \in Writer : wpc'[v] \in {"unlock", "post"} <=> wpc[v] \in {"unlock", "post"}
    BY <1>0, <1>5
    DEF Salof, WriteLock, WriteCompare, WriteRoom, WriteCopy, WriteUnlock, WriterTo
  <2>3. Pending' = Pending BY <2>2 DEF Pending
  <2>4. QED BY <2>1, <2>3 DEF Posts
<1>6. ASSUME ReadCompare \/ ReadSize \/ ReadAdd \/ UNCHANGED vars PROVE Posts' = Posts
  BY <1>6 DEF ReadCompare, ReadSize, ReadAdd, vars, Posts, Pending
<1>7. QED BY <1>2, <1>3, <1>4, <1>5, <1>6 DEF Quiet

LEMMA ShortStep ==
  ASSUME FifoAssumption, TypeOK, Lengths, Short, ~overrun', [Next]_vars
  PROVE  ~overrun /\ Short'
<1>0. wlen = [w \in Writer |-> wlen[w]] /\ MaxLen \in Nat /\ Room \in Nat
      /\ \A w \in Writer : wlen[w] \in Nat
  BY Room1 DEF TypeOK, FifoAssumption
<1>1. ASSUME NEW w \in Writer, NEW n \in 1..MaxLen, Salof(w, n) PROVE ~overrun /\ Short'
  BY <1>0, <1>1 DEF Salof, Short
<1>2. ASSUME NEW w \in Writer, WriteRoom(w) PROVE ~overrun /\ Short'
  <2>1. wlen' = [wlen EXCEPT ![w] = Room] /\ ~overrun /\ ~(Room > wlen[w])
    BY <1>2 DEF WriteRoom
  <2>2. Room <= MaxLen BY <1>0, <2>1 DEF Short
  <2>3. QED BY <1>0, <2>1, <2>2 DEF Short
<1>3. ASSUME NEW w \in Writer, WritePost(w) PROVE ~overrun /\ Short'
  BY <1>0, <1>3 DEF WritePost, Short
<1>4. ASSUME NEW w \in Writer,
             WriteLock(w) \/ WriteCompare(w) \/ WriteCopy(w) \/ WriteAdd(w) \/ WriteUnlock(w)
      PROVE  ~overrun /\ Short'
  BY <1>4 DEF WriteLock, WriteCompare, WriteCopy, WriteAdd, WriteUnlock, Short
<1>5. CASE Read \/ UNCHANGED vars
  <2>1. UNCHANGED wlen
    BY <1>5 DEF Read, ReadPend, ReadCompare, ReadSize, ReadAdd, vars
  <2>2. overrun' = overrun \/ overrun' = (overrun \/ Used > MaxLen)
    BY <1>5 DEF Read, ReadPend, ReadCompare, ReadSize, ReadAdd, vars
  <2>3. ~overrun BY <2>2
  <2>4. QED BY <2>1, <2>3 DEF Short
<1>6. QED BY <1>1, <1>2, <1>3, <1>4, <1>5 DEF Next, Write

LEMMA Multiples ==
  ASSUME NEW m \in Nat, NEW p \in Nat
  PROVE  m * p \in Nat /\ m * (p + 1) = m * p + m
OBVIOUS

LEMMA CoveredStep ==
  ASSUME FifoAssumption, TypeOK, Lengths, Short, Covered, [Next]_vars
  PROVE  Covered'
<1>0. /\ Used \in Nat /\ MaxLen \in Nat /\ Posts \in Nat /\ rlen \in Nat
      /\ \A w \in Writer : wlen[w] \in Nat
  BY Room1, PostsType DEF TypeOK, FifoAssumption
<1>1. ASSUME NEW w \in Writer, WriteAdd(w) PROVE Covered'
  <2>1. Used' = Used + wlen[w] /\ wlen[w] <= MaxLen /\ UNCHANGED <<rpc, rlen>>
    BY <1>1, UsedAfter DEF Short, WriteAdd
  <2>2. Posts' = Posts + 1 BY <1>1, PostsStep
  <2> DEFINE m == MaxLen * Posts
  <2>3. m \in Nat /\ MaxLen * Posts' = m + MaxLen /\ MaxLen * (Posts' + 1) = m + MaxLen + MaxLen
        /\ MaxLen * (Posts + 1) = m + MaxLen
    BY <1>0, <2>2, Multiples
  <2>4. /\ rpc = "wait" => Used <= m
        /\ rpc \in {"compare", "size"} => Used <= m + MaxLen
        /\ rpc = "copy" => Used <= m + rlen
    BY <2>3 DEF Covered
  <2> HIDE DEF m
  <2>5. /\ rpc = "wait" => Used + wlen[w] <= m + MaxLen
        /\ rpc \in {"compare", "size"} => Used + wlen[w] <= m + MaxLen + MaxLen
        /\ rpc = "copy" => Used + wlen[w] <= m + MaxLen + rlen
    BY <1>0, <2>1, <2>3, <2>4
  <2>6. QED BY <2>1, <2>3, <2>5 DEF Covered
<1>2. CASE ReadPend
  <2>1. Used' = Used /\ rpc = "wait" /\ rpc' = "compare" BY <1>2 DEF ReadPend, Used
  <2>2. Posts' = Posts - 1 BY <1>2, PostsStep
  <2>3. Posts' + 1 = Posts BY <1>0, <2>2
  <2>4. QED BY <2>1, <2>3 DEF Covered
<1>3. CASE ReadCompare
  <2>1. Used' = Used /\ rpc = "compare" BY <1>3 DEF ReadCompare, Used
  <2>2. Posts' = Posts BY <1>3, PostsStep
  <2>3. MaxLen * (Posts + 1) = MaxLen * Posts + MaxLen BY <1>0, Multiples
  <2>4. QED BY <1>3, <2>1, <2>2, <2>3 DEF ReadCompare, Covered
<1>4. CASE ReadSize
  <2>1. Used' = Used /\ rlen' = Used /\ rpc' = "copy" BY <1>4 DEF ReadSize, Used
  <2>2. Posts' = Posts BY <1>4, PostsStep
  <2>3. MaxLen * Posts \in Nat BY <1>0, Multiples
  <2>4. Used <= MaxLen * Posts + Used BY <1>0, <2>3
  <2>5. QED BY <2>1, <2>2, <2>4 DEF Covered
<1>5. CASE ReadAdd
  <2>1. Used' = Used - rlen /\ rpc = "copy" /\ rpc' = "wait" BY <1>5, UsedAfter DEF ReadAdd
  <2>2. Posts' = Posts BY <1>5, PostsStep
  <2>3. MaxLen * Posts \in Nat BY <1>0, Multiples
  <2>4. Used - rlen <= MaxLen * Posts BY <1>0, <2>1, <2>3 DEF Covered
  <2>5. QED BY <2>1, <2>2, <2>4 DEF Covered
<1>6. ASSUME NEW w \in Writer, Quiet(w) PROVE Covered'
  <2>1. Used' = Used /\ UNCHANGED <<rpc, rlen>>
    BY <1>6 DEF Quiet, Salof, WriteLock, WriteCompare, WriteRoom, WriteCopy, WriteUnlock, WritePost, Used
  <2>2. Posts' = Posts BY <1>6, PostsStep
  <2>3. QED BY <2>1, <2>2 DEF Covered
<1>7. CASE UNCHANGED vars
  BY <1>7 DEF vars, Covered, Used, Posts, Pending
<1>8. QED BY <1>1, <1>2, <1>3, <1>4, <1>5, <1>6, <1>7 DEF Next, Write, Read, Quiet

(* For all sizes, widths, lengths and interleavings of the macro's two       *)
(* evaluations the buffer holds what was written between its counters, and   *)
(* nothing is overwritten before it was read.                                *)
THEOREM BufferInOrder == Spec => []InOrder
<1>1. Init => IInv BY FifoAssumption, InitStep
<1>2. IInv /\ [Next]_vars => IInv'
  BY FifoAssumption, TypeStep, LockedStep, DataStep DEF IInv
<1>3. IInv => InOrder BY DEF IInv, InOrder, Lengths, Written
<1>4. QED BY <1>1, <1>2, <1>3, PTL DEF Spec

(* The counters, lengths and cells are in range.                             *)
THEOREM TypeCorrect == Spec => []TypeOK
<1>1. Init => IInv BY FifoAssumption, InitStep
<1>2. IInv /\ [Next]_vars => IInv'
  BY FifoAssumption, TypeStep, LockedStep, DataStep DEF IInv
<1>3. IInv => TypeOK BY DEF IInv
<1>4. QED BY <1>1, <1>2, <1>3, PTL DEF Spec

(* However the lines are cut and read together, and wherever the macro is   *)
(* interrupted, the log task sleeps over bytes only if the macro overran.   *)
THEOREM NothingLeft == Spec => []NothingStranded
<1>1. Init => IInv /\ Announced
  <2>1. ASSUME Init PROVE IInv /\ Announced
    <3>1. IInv BY <2>1, FifoAssumption, InitStep
    <3>2. MaxLen \in Nat BY FifoAssumption DEF FifoAssumption
    <3>3. Short BY <2>1, <3>2 DEF Init, Short
    <3>4. Used = 0 BY <2>1, FifoAssumption, InitUsed
    <3>5. MaxLen * Posts \in Nat BY <3>1, <3>2, FifoAssumption, PostsType, Multiples DEF IInv
    <3>6. Covered BY <2>1, <3>4, <3>5 DEF Init, Covered
    <3>7. QED BY <3>1, <3>3, <3>6 DEF Announced
  <2>2. QED BY <2>1
<1>2. IInv /\ Announced /\ [Next]_vars => (IInv /\ Announced)'
  <2>1. ASSUME IInv, Announced, [Next]_vars PROVE IInv' /\ Announced'
    <3>1. IInv' BY <2>1, FifoAssumption, TypeStep, LockedStep, DataStep DEF IInv
    <3>2. ASSUME ~overrun' PROVE Short' /\ Covered'
      <4>1. ~overrun BY <2>1, <3>2 DEF Next, Write, Read, Salof, WriteLock, WriteCompare,
              WriteRoom, WriteCopy, WriteAdd, WriteUnlock, WritePost, ReadPend, ReadCompare,
              ReadSize, ReadAdd, vars
      <4>2. Short /\ Covered BY <2>1, <4>1 DEF Announced
      <4>3. QED BY <2>1, <3>2, <4>2, FifoAssumption, ShortStep, CoveredStep DEF IInv
    <3>3. QED BY <3>1, <3>2 DEF Announced
  <2>2. QED BY <2>1
<1>3. IInv /\ Announced => NothingStranded
  <2>1. ASSUME IInv, Announced, rpc = "wait", sem = 0, ~overrun,
               \A w \in Writer : wpc[w] \notin {"unlock", "post"}
        PROVE  Used = 0
    <3>1. Pending = {} BY <2>1 DEF Pending
    <3>2. Posts = 0 BY <2>1, <3>1, FS_EmptySet DEF Posts
    <3>3. MaxLen \in Nat /\ Used \in Nat BY <2>1, FifoAssumption, Room1 DEF IInv, FifoAssumption
    <3>4. Used <= MaxLen * 0 BY <2>1, <3>2 DEF Announced, Covered
    <3>5. QED BY <3>3, <3>4
  <2>2. QED BY <2>1 DEF NothingStranded
<1>4. QED BY <1>1, <1>2, <1>3, PTL DEF Spec
=============================================================================
