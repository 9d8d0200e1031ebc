----------------------------- MODULE PipeProofs -----------------------------
(***************************************************************************)
(* Proofs about Pipe for any writers, readers, ring size and counter width *)
(* that is a multiple of the ring.                                         *)
(*                                                                         *)
(* What Pipe promises depends on who may be where: who holds p->lock, that *)
(* a process inside a call still has its descriptor, and what it saw       *)
(* before it went to sleep.  Those facts are inductive in this order:      *)
(*   TypeOK -> LockInv -> SideInv -> SleepInv -> CloseInv -> EndsAwake     *)
(* The refinement of ByteQueue rests on TypeOK and QueueInv alone, and on  *)
(* a few facts about remainders.                                           *)
(***************************************************************************)
EXTENDS Pipe, Lemmas, SequenceTheorems

(* The places between acquire(&p->lock) and release(&p->lock). *)
Inside == {"w_loop", "w_sleep", "r_test", "r_sleep", "r_copy"}

(* p->lock excludes: its holder is the one process inside. *)
LockInv ==
  /\ lock = {} \/ \E p \in Procs : lock = {p}
  /\ \A p \in Procs : pc[p] \in Inside <=> p \in lock

(* A process in a call is on its side and has its descriptor. *)
SideInv ==
  /\ \A p \in Procs : pc[p] \in Writing => p \in Writers \cap fds
  /\ \A p \in Procs : pc[p] \in Reading => p \in Readers \cap fds

(* What a process saw before it called sleep() holds until it sleeps. *)
SleepInv ==
  /\ \A p \in Procs : pc[p] = "r_sleep" => Empty /\ writeopen
  /\ \A p \in Procs : pc[p] = "w_sleep" => Full /\ readopen

Closed(side) == fds \cap side = {} /\ \A p \in side : pc[p] # "close"

(* An end is closed by the one process that gave up its last descriptor. *)
CloseInv ==
  /\ ~readopen => Closed(Readers)
  /\ ~writeopen => Closed(Writers)
  /\ freed <=> ~readopen /\ ~writeopen
  /\ \A p \in Procs : pc[p] = "close" =>
       \A s \in {Writers, Readers} : p \in s =>
         /\ fds \cap s = {}
         /\ \A q \in s : pc[q] = "close" => q = p

Places == LockInv /\ SideInv /\ SleepInv /\ CloseInv

(* The counters are never more than the ring apart. *)
QueueInv == Length <= PIPESIZE

(* The bytes in the ring, oldest first: the queue that Pipe implements. *)
Content == [k \in 1..Length |-> data[(nread + (k - 1)) % PIPESIZE]]

(* How far a counter w is ahead of a counter r. *)
Gap(r, w) == (w - r) % UintMax1

-----------------------------------------------------------------------------
USE PipeAssumption

(* Every field of struct pipe and every local stays in its range. *)
LEMMA TypeStep == TypeOK /\ [Next]_vars => TypeOK'
<1> SUFFICES ASSUME TypeOK, [Next]_vars PROVE TypeOK'
  OBVIOUS
<1> USE DEF TypeOK, Writing, Reading, Uint
<1>1. CASE UNCHANGED vars
  BY <1>1 DEF vars, pipe
<1>2. ASSUME NEW p \in Procs, Call(p) PROVE TypeOK'
  BY <1>2 DEF Call, Goto, pipe
<1>3. ASSUME NEW p \in Procs, Acquire(p) PROVE TypeOK'
  BY <1>3 DEF Acquire, Goto, pipe
<1>4. ASSUME NEW p \in Procs, WriteByte(p) PROVE TypeOK'
  <2>1. Inc(nwrite) \in Uint
    BY ModRange DEF Inc, Uint
  <2>2. nwrite % PIPESIZE \in 0..PIPESIZE - 1
    BY ModRange
  <2> QED
    BY <1>4, <2>1, <2>2 DEF WriteByte, pipe
<1>5. ASSUME NEW p \in Procs, WriteFull(p) PROVE TypeOK'
  <2>1. pc' \in [Procs -> {"idle", "close"} \cup Writing \cup Reading]
    BY <1>5 DEF WriteFull, WakeReaders, Wake, Goto
  <2>2. left' \in [Procs -> 0..MaxN]
    BY <1>5 DEF WriteFull
  <2>3. lock' \subseteq Procs /\ \A q, r \in lock' : q = r
    BY <1>5 DEF WriteFull
  <2> QED
    BY <1>5, <2>1, <2>2, <2>3 DEF WriteFull, pipe
<1>6. ASSUME NEW p \in Procs, WriteDone(p) PROVE TypeOK'
  BY <1>6 DEF WriteDone, WakeReaders, Wake, pipe
<1>7. ASSUME NEW p \in Procs, Sleep(p) PROVE TypeOK'
  BY <1>7 DEF Sleep, Goto, pipe
<1>8. ASSUME NEW p \in Procs, ReadTest(p) PROVE TypeOK'
  <2>1. pc' \in [Procs -> {"idle", "close"} \cup Writing \cup Reading]
    BY <1>8 DEF ReadTest, Goto
  <2>2. left' \in [Procs -> 0..MaxN]
    BY <1>8 DEF ReadTest
  <2>3. lock' \subseteq Procs /\ \A q, r \in lock' : q = r
    BY <1>8 DEF ReadTest
  <2> QED
    BY <1>8, <2>1, <2>2, <2>3 DEF ReadTest, pipe
<1>9. ASSUME NEW p \in Procs, ReadByte(p) PROVE TypeOK'
  <2>1. Inc(nread) \in Uint
    BY ModRange DEF Inc, Uint
  <2>2. nread % PIPESIZE \in 0..PIPESIZE - 1
    BY ModRange
  <2> QED
    BY <1>9, <2>1, <2>2 DEF ReadByte, pipe
<1>10. ASSUME NEW p \in Procs, ReadDone(p) PROVE TypeOK'
  BY <1>10 DEF ReadDone, WakeWriters, Wake, pipe
<1>11. ASSUME NEW p \in Procs, FileClose(p) PROVE TypeOK'
  BY <1>11 DEF FileClose, Goto, LastOf, pipe
<1>12. ASSUME NEW p \in Procs, PipeClose(p) PROVE TypeOK'
  BY <1>12, Zenon DEF PipeClose, WakeReaders, WakeWriters, Wake, pipe
<1>13. ASSUME NEW p \in Procs, Kill(p) PROVE TypeOK'
  BY <1>13 DEF Kill, Goto, pipe
<1> QED
  BY <1>1, <1>2, <1>3, <1>4, <1>5, <1>6, <1>7, <1>8, <1>9, <1>10, <1>11,
     <1>12, <1>13, Zenon DEF Next, Kernel

(* acquire() and release() in pairs: one process inside pipe.c at a time. *)
LEMMA LockStep == TypeOK /\ LockInv /\ [Next]_vars => LockInv'
<1> SUFFICES ASSUME TypeOK, LockInv, [Next]_vars PROVE LockInv'
  OBVIOUS
<1> USE DEF TypeOK, LockInv, Inside, Writing, Reading
<1>1. CASE UNCHANGED vars
  BY <1>1 DEF vars, pipe
<1>2. ASSUME NEW p \in Procs, Call(p) PROVE LockInv'
  BY <1>2 DEF Call, Goto, pipe
<1>3. ASSUME NEW p \in Procs, Acquire(p) PROVE LockInv'
  BY <1>3 DEF Acquire, Goto, pipe
<1>4. ASSUME NEW p \in Procs, WriteByte(p) PROVE LockInv'
  BY <1>4 DEF WriteByte, pipe
<1>5. ASSUME NEW p \in Procs, WriteFull(p) PROVE LockInv'
  BY <1>5 DEF WriteFull, WakeReaders, Wake, Goto, pipe
<1>6. ASSUME NEW p \in Procs, WriteDone(p) PROVE LockInv'
  BY <1>6 DEF WriteDone, WakeReaders, Wake, pipe
<1>7. ASSUME NEW p \in Procs, Sleep(p) PROVE LockInv'
  BY <1>7 DEF Sleep, Goto, pipe
<1>8. ASSUME NEW p \in Procs, ReadTest(p) PROVE LockInv'
  BY <1>8 DEF ReadTest, Goto, pipe
<1>9. ASSUME NEW p \in Procs, ReadByte(p) PROVE LockInv'
  BY <1>9 DEF ReadByte, pipe
<1>10. ASSUME NEW p \in Procs, ReadDone(p) PROVE LockInv'
  BY <1>10 DEF ReadDone, WakeWriters, Wake, pipe
<1>11. ASSUME NEW p \in Procs, FileClose(p) PROVE LockInv'
  BY <1>11 DEF FileClose, Goto, LastOf, pipe
<1>12. ASSUME NEW p \in Procs, PipeClose(p) PROVE LockInv'
  BY <1>12 DEF PipeClose, WakeReaders, WakeWriters, Wake, pipe
<1>13. ASSUME NEW p \in Procs, Kill(p) PROVE LockInv'
  BY <1>13 DEF Kill, Goto, pipe
<1> QED
  BY <1>1, <1>2, <1>3, <1>4, <1>5, <1>6, <1>7, <1>8, <1>9, <1>10, <1>11,
     <1>12, <1>13, Zenon DEF Next, Kernel

(* A call of pipewrite() or piperead() keeps its descriptor until it       *)
(* returns.                                                                *)
LEMMA SideStep == TypeOK /\ LockInv /\ SideInv /\ [Next]_vars => SideInv'
<1> SUFFICES ASSUME TypeOK, LockInv, SideInv, [Next]_vars PROVE SideInv'
  OBVIOUS
<1> USE DEF TypeOK, SideInv, Writing, Reading, Procs
<1>1. CASE UNCHANGED vars
  BY <1>1 DEF vars, pipe
<1>2. ASSUME NEW p \in Procs, Call(p) PROVE SideInv'
  BY <1>2 DEF Call, Goto, pipe
<1>3. ASSUME NEW p \in Procs, Acquire(p) PROVE SideInv'
  BY <1>3 DEF Acquire, Goto, pipe
<1>4. ASSUME NEW p \in Procs, WriteByte(p) PROVE SideInv'
  BY <1>4 DEF WriteByte, pipe
<1>5. ASSUME NEW p \in Procs, WriteFull(p) PROVE SideInv'
  BY <1>5 DEF WriteFull, WakeReaders, Wake, Goto, pipe
<1>6. ASSUME NEW p \in Procs, WriteDone(p) PROVE SideInv'
  BY <1>6 DEF WriteDone, WakeReaders, Wake, pipe
<1>7. ASSUME NEW p \in Procs, Sleep(p) PROVE SideInv'
  BY <1>7 DEF Sleep, Goto, pipe
<1>8. ASSUME NEW p \in Procs, ReadTest(p) PROVE SideInv'
  BY <1>8 DEF ReadTest, Goto, pipe
<1>9. ASSUME NEW p \in Procs, ReadByte(p) PROVE SideInv'
  BY <1>9 DEF ReadByte, pipe
<1>10. ASSUME NEW p \in Procs, ReadDone(p) PROVE SideInv'
  BY <1>10 DEF ReadDone, WakeWriters, Wake, pipe
<1>11. ASSUME NEW p \in Procs, FileClose(p) PROVE SideInv'
  BY <1>11 DEF FileClose, Goto, LastOf, pipe
<1>12. ASSUME NEW p \in Procs, PipeClose(p) PROVE SideInv'
  BY <1>12 DEF PipeClose, WakeReaders, WakeWriters, Wake, pipe
<1>13. ASSUME NEW p \in Procs, Kill(p) PROVE SideInv'
  BY <1>13 DEF Kill, Goto, pipe
<1> QED
  BY <1>1, <1>2, <1>3, <1>4, <1>5, <1>6, <1>7, <1>8, <1>9, <1>10, <1>11,
     <1>12, <1>13, Zenon DEF Next, Kernel

(* Nothing changes between the test and sleep(): both have p->lock. *)
LEMMA SleepStep == TypeOK /\ LockInv /\ SleepInv /\ [Next]_vars => SleepInv'
<1> SUFFICES ASSUME TypeOK, LockInv, SleepInv, [Next]_vars PROVE SleepInv'
  OBVIOUS
<1> USE DEF TypeOK, LockInv, SleepInv, Inside, Full, Empty
<1>1. CASE UNCHANGED vars
  BY <1>1 DEF vars, pipe
<1>2. ASSUME NEW p \in Procs, Call(p) PROVE SleepInv'
  BY <1>2 DEF Call, Goto, pipe
<1>3. ASSUME NEW p \in Procs, Acquire(p) PROVE SleepInv'
  BY <1>3 DEF Acquire, Goto, pipe
<1>4. ASSUME NEW p \in Procs, WriteByte(p) PROVE SleepInv'
  BY <1>4 DEF WriteByte, pipe
<1>5. ASSUME NEW p \in Procs, WriteFull(p) PROVE SleepInv'
  BY <1>5 DEF WriteFull, WakeReaders, Wake, Goto, pipe
<1>6. ASSUME NEW p \in Procs, WriteDone(p) PROVE SleepInv'
  BY <1>6 DEF WriteDone, WakeReaders, Wake, pipe
<1>7. ASSUME NEW p \in Procs, Sleep(p) PROVE SleepInv'
  BY <1>7 DEF Sleep, Goto, pipe
<1>8. ASSUME NEW p \in Procs, ReadTest(p) PROVE SleepInv'
  BY <1>8 DEF ReadTest, Goto, pipe
<1>9. ASSUME NEW p \in Procs, ReadByte(p) PROVE SleepInv'
  BY <1>9 DEF ReadByte, pipe
<1>10. ASSUME NEW p \in Procs, ReadDone(p) PROVE SleepInv'
  BY <1>10 DEF ReadDone, WakeWriters, Wake, pipe
<1>11. ASSUME NEW p \in Procs, FileClose(p) PROVE SleepInv'
  BY <1>11 DEF FileClose, Goto, LastOf, pipe
<1>12. ASSUME NEW p \in Procs, PipeClose(p) PROVE SleepInv'
  BY <1>12 DEF PipeClose, WakeReaders, WakeWriters, Wake, pipe
<1>13. ASSUME NEW p \in Procs, Kill(p) PROVE SleepInv'
  BY <1>13 DEF Kill, Goto, pipe
<1> QED
  BY <1>1, <1>2, <1>3, <1>4, <1>5, <1>6, <1>7, <1>8, <1>9, <1>10, <1>11,
     <1>12, <1>13, Zenon DEF Next, Kernel

(* pipeclose() runs once for each end, when its last descriptor is gone. *)
LEMMA CloseStep == TypeOK /\ SideInv /\ CloseInv /\ [Next]_vars => CloseInv'
<1> SUFFICES ASSUME TypeOK, SideInv, CloseInv, [Next]_vars PROVE CloseInv'
  OBVIOUS
<1> USE DEF TypeOK, SideInv, CloseInv, Closed, Procs, Writing, Reading
<1>1. CASE UNCHANGED vars
  BY <1>1 DEF vars, pipe
<1>2. ASSUME NEW p \in Procs, Call(p) PROVE CloseInv'
  BY <1>2 DEF Call, Goto, pipe
<1>3. ASSUME NEW p \in Procs, Acquire(p) PROVE CloseInv'
  BY <1>3 DEF Acquire, Goto, pipe
<1>4. ASSUME NEW p \in Procs, WriteByte(p) PROVE CloseInv'
  BY <1>4 DEF WriteByte, pipe
<1>5. ASSUME NEW p \in Procs, WriteFull(p) PROVE CloseInv'
  BY <1>5 DEF WriteFull, WakeReaders, Wake, Goto, pipe
<1>6. ASSUME NEW p \in Procs, WriteDone(p) PROVE CloseInv'
  BY <1>6 DEF WriteDone, WakeReaders, Wake, pipe
<1>7. ASSUME NEW p \in Procs, Sleep(p) PROVE CloseInv'
  BY <1>7 DEF Sleep, Goto, pipe
<1>8. ASSUME NEW p \in Procs, ReadTest(p) PROVE CloseInv'
  BY <1>8 DEF ReadTest, Goto, pipe
<1>9. ASSUME NEW p \in Procs, ReadByte(p) PROVE CloseInv'
  BY <1>9 DEF ReadByte, pipe
<1>10. ASSUME NEW p \in Procs, ReadDone(p) PROVE CloseInv'
  BY <1>10 DEF ReadDone, WakeWriters, Wake, pipe
<1>11. ASSUME NEW p \in Procs, FileClose(p) PROVE CloseInv'
  BY <1>11 DEF FileClose, Goto, LastOf, pipe
<1>12. ASSUME NEW p \in Procs, PipeClose(p) PROVE CloseInv'
  BY <1>12 DEF PipeClose, WakeReaders, WakeWriters, Wake, pipe
<1>13. ASSUME NEW p \in Procs, Kill(p) PROVE CloseInv'
  BY <1>13 DEF Kill, Goto, pipe
<1> QED
  BY <1>1, <1>2, <1>3, <1>4, <1>5, <1>6, <1>7, <1>8, <1>9, <1>10, <1>11, <1>12,
    <1>13, Zenon DEF Next, Kernel

(* Whoever puts bytes or closes the write end wakes the readers before it  *)
(* releases p->lock.                                                       *)
LEMMA ReaderStep ==
  TypeOK /\ Places /\ ReaderAwake /\ [Next]_vars => ReaderAwake'
<1> SUFFICES ASSUME TypeOK, Places, ReaderAwake, [Next]_vars PROVE ReaderAwake'
  OBVIOUS
<1> USE DEF TypeOK, Places, LockInv, SideInv, SleepInv, CloseInv, Closed,
        Inside, ReaderAwake, Procs, Writing, Reading, Full, Empty
<1>1. CASE UNCHANGED vars
  BY <1>1 DEF vars, pipe
<1>2. ASSUME NEW p \in Procs, Call(p) PROVE ReaderAwake'
  BY <1>2 DEF Call, Goto, pipe
<1>3. ASSUME NEW p \in Procs, Acquire(p) PROVE ReaderAwake'
  BY <1>3 DEF Acquire, Goto, pipe
<1>4. ASSUME NEW p \in Procs, WriteByte(p) PROVE ReaderAwake'
  BY <1>4 DEF WriteByte, pipe
<1>5. ASSUME NEW p \in Procs, WriteFull(p) PROVE ReaderAwake'
  BY <1>5 DEF WriteFull, WakeReaders, Wake, Goto, pipe
<1>6. ASSUME NEW p \in Procs, WriteDone(p) PROVE ReaderAwake'
  BY <1>6 DEF WriteDone, WakeReaders, Wake, pipe
<1>7. ASSUME NEW p \in Procs, Sleep(p) PROVE ReaderAwake'
  BY <1>7 DEF Sleep, Goto, pipe
<1>8. ASSUME NEW p \in Procs, ReadTest(p) PROVE ReaderAwake'
  BY <1>8 DEF ReadTest, Goto, pipe
<1>9. ASSUME NEW p \in Procs, ReadByte(p) PROVE ReaderAwake'
  BY <1>9 DEF ReadByte, pipe
<1>10. ASSUME NEW p \in Procs, ReadDone(p) PROVE ReaderAwake'
  BY <1>10 DEF ReadDone, WakeWriters, Wake, pipe
<1>11. ASSUME NEW p \in Procs, FileClose(p) PROVE ReaderAwake'
  BY <1>11 DEF FileClose, Goto, LastOf, pipe
<1>12. ASSUME NEW p \in Procs, PipeClose(p) PROVE ReaderAwake'
  BY <1>12 DEF PipeClose, WakeReaders, WakeWriters, Wake, pipe
<1>13. ASSUME NEW p \in Procs, Kill(p) PROVE ReaderAwake'
  BY <1>13 DEF Kill, Goto, pipe
<1> QED
  BY <1>1, <1>2, <1>3, <1>4, <1>5, <1>6, <1>7, <1>8, <1>9, <1>10, <1>11,
     <1>12, <1>13, Zenon DEF Next, Kernel

(* Whoever makes room or closes the read end wakes the writers. *)
LEMMA WriterStep ==
  TypeOK /\ Places /\ WriterAwake /\ [Next]_vars => WriterAwake'
<1> SUFFICES ASSUME TypeOK, Places, WriterAwake, [Next]_vars PROVE WriterAwake'
  OBVIOUS
<1> USE DEF TypeOK, Places, LockInv, SideInv, SleepInv, CloseInv, Closed,
        Inside, WriterAwake, Procs, Writing, Reading, Full, Empty
<1>1. CASE UNCHANGED vars
  BY <1>1 DEF vars, pipe
<1>2. ASSUME NEW p \in Procs, Call(p) PROVE WriterAwake'
  BY <1>2 DEF Call, Goto, pipe
<1>3. ASSUME NEW p \in Procs, Acquire(p) PROVE WriterAwake'
  BY <1>3 DEF Acquire, Goto, pipe
<1>4. ASSUME NEW p \in Procs, WriteByte(p) PROVE WriterAwake'
  BY <1>4 DEF WriteByte, pipe
<1>5. ASSUME NEW p \in Procs, WriteFull(p) PROVE WriterAwake'
  BY <1>5 DEF WriteFull, WakeReaders, Wake, Goto, pipe
<1>6. ASSUME NEW p \in Procs, WriteDone(p) PROVE WriterAwake'
  BY <1>6 DEF WriteDone, WakeReaders, Wake, pipe
<1>7. ASSUME NEW p \in Procs, Sleep(p) PROVE WriterAwake'
  BY <1>7 DEF Sleep, Goto, pipe
<1>8. ASSUME NEW p \in Procs, ReadTest(p) PROVE WriterAwake'
  BY <1>8 DEF ReadTest, Goto, pipe
<1>9. ASSUME NEW p \in Procs, ReadByte(p) PROVE WriterAwake'
  BY <1>9 DEF ReadByte, pipe
<1>10. ASSUME NEW p \in Procs, ReadDone(p) PROVE WriterAwake'
  BY <1>10 DEF ReadDone, WakeWriters, Wake, pipe
<1>11. ASSUME NEW p \in Procs, FileClose(p) PROVE WriterAwake'
  BY <1>11 DEF FileClose, Goto, LastOf, pipe
<1>12. ASSUME NEW p \in Procs, PipeClose(p) PROVE WriterAwake'
  BY <1>12 DEF PipeClose, WakeReaders, WakeWriters, Wake, pipe
<1>13. ASSUME NEW p \in Procs, Kill(p) PROVE WriterAwake'
  BY <1>13 DEF Kill, Goto, pipe
<1> QED
  BY <1>1, <1>2, <1>3, <1>4, <1>5, <1>6, <1>7, <1>8, <1>9, <1>10, <1>11,
     <1>12, <1>13, Zenon DEF Next, Kernel

-----------------------------------------------------------------------------
(* The uint counters wrap at a whole number of rings (PIPESIZE is 512). *)
LEMMA UintWraps ==
  ASSUME NEW a \in Int
  PROVE (a + UintMax1) % PIPESIZE = a % PIPESIZE
<1>1. UintMax1 \in Int
  OBVIOUS
<1> QED
  BY <1>1, ModShift, Zenon

(* `p->nwrite++` of a uint. *)
LEMMA IncIs ==
  ASSUME NEW c \in Uint
  PROVE Inc(c) = IF c + 1 = UintMax1 THEN 0 ELSE c + 1
<1>1. CASE c + 1 = UintMax1
  <2>1. ((UintMax1 * 1) + 0) % UintMax1 = 0
    BY ModUnique
  <2> QED
    BY <1>1, <2>1 DEF Inc, Uint
<1>2. CASE c + 1 # UintMax1
  <2>1. ((UintMax1 * 0) + (c + 1)) % UintMax1 = c + 1
    BY <1>2, ModUnique DEF Uint
  <2> QED
    BY <1>2, <2>1 DEF Inc, Uint
<1> QED
  BY <1>1, <1>2

(* The distance of two wrapping counters (p->nwrite and p->nread). *)
LEMMA GapIs ==
  ASSUME NEW r \in Uint, NEW w \in Uint
  PROVE Gap(r, w) = IF w >= r THEN w - r ELSE (w - r) + UintMax1
<1> USE DEF Uint
<1>1. CASE w >= r
  <2>1. ((UintMax1 * 0) + (w - r)) % UintMax1 = w - r
    BY <1>1, ModUnique
  <2> QED
    BY <1>1, <2>1 DEF Gap
<1>2. CASE w < r
  <2>1. ((UintMax1 * (-1)) + ((w - r) + UintMax1)) % UintMax1
          = (w - r) + UintMax1
    BY <1>2, ModUnique
  <2> QED
    BY <1>2, <2>1 DEF Gap
<1> QED
  BY <1>1, <1>2

(* The bytes in the ring: p->nwrite minus p->nread as uints. *)
LEMMA LengthIs ==
  ASSUME nread \in Uint, nwrite \in Uint
  PROVE Length = IF nwrite >= nread THEN nwrite - nread
                 ELSE (nwrite - nread) + UintMax1
BY GapIs DEF Length, Gap

(* `p->nwrite == p->nread + PIPESIZE` says that the ring is full. *)
LEMMA FullIs ==
  ASSUME nread \in Uint, nwrite \in Uint
  PROVE Full <=> Length = PIPESIZE
<1> USE DEF Uint
<1>1. CASE nread + PIPESIZE >= UintMax1
  <2>1. ((UintMax1 * 1) + ((nread + PIPESIZE) - UintMax1)) % UintMax1
          = (nread + PIPESIZE) - UintMax1
    BY <1>1, ModUnique
  <2> QED
    BY <1>1, <2>1, LengthIs DEF Full
<1>2. CASE nread + PIPESIZE < UintMax1
  <2>1. ((UintMax1 * 0) + (nread + PIPESIZE)) % UintMax1 = nread + PIPESIZE
    BY <1>2, ModUnique
  <2> QED
    BY <1>2, <2>1, LengthIs DEF Full
<1> QED
  BY <1>1, <1>2

(* piperead's increment moves on by one cell, also where it wraps. *)
LEMMA NextCell ==
  ASSUME nread \in Uint, NEW k \in Int
  PROVE (Inc(nread) + (k - 1)) % PIPESIZE = (nread + k) % PIPESIZE
<1> USE DEF Uint
<1>1. CASE nread + 1 = UintMax1
  <2>0. k - 1 \in Int
    OBVIOUS
  <2>1. (((k - 1) + UintMax1) % PIPESIZE) = (k - 1) % PIPESIZE
    BY <2>0, UintWraps, Zenon
  <2>2. Inc(nread) + (k - 1) = k - 1
    BY <1>1, IncIs
  <2>3. nread + k = (k - 1) + UintMax1
    BY <1>1
  <2> QED
    BY <2>1, <2>2, <2>3
<1>2. CASE nread + 1 # UintMax1
  BY <1>2, IncIs
<1> QED
  BY <1>1, <1>2

(* pipewrite stores behind the last byte. *)
LEMMA LastCell ==
  ASSUME nread \in Uint, nwrite \in Uint
  PROVE (nread + Length) % PIPESIZE = nwrite % PIPESIZE
<1> USE DEF Uint
<1>0. nwrite \in Int
  OBVIOUS
<1>1. (nwrite + UintMax1) % PIPESIZE = nwrite % PIPESIZE
  BY <1>0, UintWraps, Zenon
<1>2. nread + Length = nwrite \/ nread + Length = nwrite + UintMax1
  BY LengthIs
<1> QED
  BY <1>1, <1>2

(* pipewrite stores over no byte that is still in the ring. *)
LEMMA OtherCells ==
  ASSUME nread \in Uint, nwrite \in Uint, Length < PIPESIZE,
         NEW k \in 1..Length
  PROVE (nread + (k - 1)) % PIPESIZE # nwrite % PIPESIZE
<1> USE DEF Uint
<1>1. Length \in Nat
  BY LengthIs
<1>2. SUFFICES ASSUME (nread + (k - 1)) % PIPESIZE
                        = (nread + Length) % PIPESIZE
               PROVE  FALSE
  BY LastCell
<1>3. (nread + Length) - (nread + (k - 1)) >= PIPESIZE
  <2>1. /\ nread + Length \in Int /\ nread + (k - 1) \in Int
        /\ nread + (k - 1) < nread + Length
    BY <1>1
  <2> QED
    BY <2>1, <1>2, ModApart, Zenon
<1>4. (nread + Length) - (nread + (k - 1)) = (Length - k) + 1
  BY <1>1
<1> QED
  BY <1>1, <1>3, <1>4

(* A store into a ring that is not full adds one byte (pipewrite). *)
LEMMA PutLength ==
  ASSUME nread \in Uint, nwrite \in Uint, QueueInv, ~Full,
         nread' = nread, nwrite' = Inc(nwrite)
  PROVE  Length < PIPESIZE /\ Length' = Length + 1
<1>1. Length < PIPESIZE
  BY FullIs, LengthIs DEF QueueInv, Uint
<1>2. nwrite' \in Uint
  BY IncIs DEF Uint
<1>3. Length' = Gap(nread, nwrite')
  BY DEF Length, Gap
<1>4. Length' = IF nwrite' >= nread THEN nwrite' - nread
                ELSE (nwrite' - nread) + UintMax1
  BY <1>2, <1>3, GapIs
<1>5. nwrite' = IF nwrite + 1 = UintMax1 THEN 0 ELSE nwrite + 1
  BY IncIs
<1> QED
  BY <1>1, <1>4, <1>5, LengthIs DEF Uint

(* A load from a ring that is not empty takes one byte (piperead). *)
LEMMA GetLength ==
  ASSUME nread \in Uint, nwrite \in Uint, ~Empty,
         nwrite' = nwrite, nread' = Inc(nread)
  PROVE  Length > 0 /\ Length' = Length - 1
<1>1. Length > 0
  BY LengthIs DEF Empty, Uint
<1>2. nread' \in Uint
  BY IncIs DEF Uint
<1>3. Length' = Gap(nread', nwrite)
  BY DEF Length, Gap
<1> QED
  BY <1>1, <1>2, <1>3, IncIs, LengthIs, GapIs DEF Uint, Empty

(* pipewrite tests for a full ring before every byte. *)
LEMMA QueueStep == TypeOK /\ QueueInv /\ [Next]_vars => QueueInv'
<1> SUFFICES ASSUME TypeOK, QueueInv, [Next]_vars PROVE QueueInv'
  OBVIOUS
<1>1. ASSUME NEW p \in Procs, WriteByte(p) PROVE QueueInv'
  <2>1. Length < PIPESIZE /\ Length' = Length + 1
    BY <1>1, PutLength DEF WriteByte, TypeOK
  <2> QED
    BY <2>1, LengthIs DEF QueueInv, TypeOK, Uint
<1>2. ASSUME NEW p \in Procs, ReadByte(p) PROVE QueueInv'
  <2>1. Length > 0 /\ Length' = Length - 1
    BY <1>2, GetLength DEF ReadByte, TypeOK
  <2> QED
    BY <2>1, LengthIs DEF QueueInv, TypeOK, Uint
<1>3. ASSUME UNCHANGED <<nread, nwrite>> PROVE QueueInv'
  BY <1>3 DEF QueueInv, Length
<1> QED
  BY <1>1, <1>2, <1>3 DEF Next, Kernel, vars, pipe, Call, Acquire, WriteFull,
     WriteDone, Sleep, ReadTest, ReadDone, FileClose, PipeClose, Kill

(* What is in the ring is a sequence of bytes. *)
LEMMA ContentIs ==
  ASSUME TypeOK PROVE Content \in Seq(Bytes) /\ Len(Content) = Length
         /\ Length \in Nat
<1>1. Length \in Nat
  BY LengthIs DEF TypeOK, Uint
<1>2. \A k \in 1..Length : data[(nread + (k - 1)) % PIPESIZE] \in Bytes
  <2> TAKE k \in 1..Length
  <2>1. nread + (k - 1) \in Int
    BY <1>1 DEF TypeOK, Uint
  <2>2. (nread + (k - 1)) % PIPESIZE \in 0..PIPESIZE - 1
    BY <2>1, ModRange
  <2> QED
    BY <2>2 DEF TypeOK
<1> QED
  BY <1>1, <1>2 DEF Content

(* A list with one element more at its end, as a function. *)
LEMMA AppendIs ==
  ASSUME NEW S, NEW s \in Seq(S), NEW e \in S
  PROVE  Append(s, e) = [k \in 1..Len(s) + 1 |->
                         IF k = Len(s) + 1 THEN e ELSE s[k]]
<1> DEFINE t == [k \in 1..Len(s) + 1 |-> IF k = Len(s) + 1 THEN e ELSE s[k]]
<1>1. Len(s) \in Nat
  BY LenProperties
<1>2. \A k \in 1..Len(s) + 1 : t[k] \in S
  BY <1>1, ElementOfSeq
<1>3. t \in Seq(S) /\ Len(t) = Len(s) + 1
  BY <1>1, <1>2
<1>4. \A k \in 1..Len(s) + 1 : Append(s, e)[k] = t[k]
  BY <1>1, AppendProperties
<1> HIDE DEF t
<1>5. Append(s, e) = t
  BY <1>3, <1>4, SeqEqual, AppendProperties
<1> QED
  BY <1>5 DEF t

(* A list without its first element, as a function. *)
LEMMA TailIs ==
  ASSUME NEW S, NEW s \in Seq(S), s # <<>>
  PROVE Tail(s) = [k \in 1..Len(s) - 1 |-> s[k + 1]]
<1> DEFINE t == [k \in 1..Len(s) - 1 |-> s[k + 1]]
<1>1. Len(s) \in Nat \ {0}
  BY LenProperties, EmptySeq
<1>2. \A k \in 1..Len(s) - 1 : t[k] \in S
  BY <1>1, ElementOfSeq
<1>3. t \in Seq(S) /\ Len(t) = Len(s) - 1
  BY <1>1, <1>2
<1>4. \A k \in 1..Len(s) - 1 : Tail(s)[k] = t[k]
  BY <1>1, HeadTailProperties
<1> HIDE DEF t
<1>5. Tail(s) = t
  BY <1>3, <1>4, SeqEqual, HeadTailProperties
<1> QED
  BY <1>5 DEF t

(* The store of pipewrite is the queue's Put. *)
LEMMA Puts ==
  ASSUME TypeOK, QueueInv, NEW p \in Procs, WriteByte(p)
  PROVE \E v \in Bytes : Queue!Put(v)
<1>1. Length < PIPESIZE /\ Length' = Length + 1
  BY PutLength DEF WriteByte, TypeOK
<1>2. PICK v \in Bytes : data' = [data EXCEPT ![nwrite % PIPESIZE] = v]
  BY Zenon DEF WriteByte
<1>3. Content' = [k \in 1..Length + 1 |->
                   IF k = Length + 1 THEN v ELSE Content[k]]
  <2>1. Length \in Nat
    BY ContentIs
  <2>2. (nread + ((Length + 1) - 1)) % PIPESIZE = nwrite % PIPESIZE
    <3>1. nread + ((Length + 1) - 1) = nread + Length
      BY <2>1 DEF TypeOK, Uint
    <3> QED
      BY <3>1, LastCell DEF TypeOK
  <2>3. data'[nwrite % PIPESIZE] = v
    BY <1>2, ModRange DEF TypeOK, Uint
  <2>4. ASSUME NEW k \in 1..Length
        PROVE  data'[(nread + (k - 1)) % PIPESIZE]
                 = data[(nread + (k - 1)) % PIPESIZE]
    <3>1. (nread + (k - 1)) % PIPESIZE # nwrite % PIPESIZE
      <4>1. nread \in Uint /\ nwrite \in Uint
        BY DEF TypeOK
      <4> QED
        BY <1>1, <4>1, OtherCells, Zenon
    <3>2. nread + (k - 1) \in Int
      BY <2>1 DEF TypeOK, Uint
    <3>3. (nread + (k - 1)) % PIPESIZE \in 0..PIPESIZE - 1
      BY <3>2, ModRange
    <3> QED
      BY <1>2, <3>1, <3>3 DEF TypeOK
  <2>5. ASSUME NEW k \in 1..Length + 1
        PROVE  data'[(nread + (k - 1)) % PIPESIZE]
                 = IF k = Length + 1 THEN v ELSE Content[k]
    <3>1. CASE k = Length + 1
      BY <2>2, <2>3, <3>1
    <3>2. CASE k # Length + 1
      <4>1. k \in 1..Length
        BY <2>1, <3>2
      <4>2. Content[k] = data[(nread + (k - 1)) % PIPESIZE]
        BY <4>1 DEF Content
      <4> QED
        BY <2>4, <3>2, <4>1, <4>2
    <3> QED
      BY <3>1, <3>2
  <2> QED
    BY <1>1, <2>5, Zenon DEF Content, WriteByte
<1>4. Content' = Append(Content, v)
  <2>1. Append(Content, v) = [k \in 1..Len(Content) + 1 |->
          IF k = Len(Content) + 1 THEN v ELSE Content[k]]
    BY ContentIs, AppendIs
  <2> QED
    BY <1>3, <2>1, ContentIs
<1> QED
  BY <1>1, <1>2, <1>4, ContentIs, Zenon DEF Queue!Put, Content, WriteByte

(* The load of piperead is the queue's Get. *)
LEMMA Gets ==
  ASSUME TypeOK, QueueInv, NEW p \in Procs, ReadByte(p)
  PROVE Queue!Get
<1>1. Length > 0 /\ Length' = Length - 1
  BY GetLength DEF ReadByte, TypeOK
<1>2. Content' = [k \in 1..Length - 1 |-> Content[k + 1]]
  <2>1. Length \in Nat
    BY ContentIs
  <2>2. ASSUME NEW k \in 1..Length - 1
        PROVE data'[(nread' + (k - 1)) % PIPESIZE] = Content[k + 1]
    <3>1. (nread' + (k - 1)) % PIPESIZE = (nread + k) % PIPESIZE
      <4>1. k \in Int /\ nread \in Uint /\ nread' = Inc(nread)
        BY <2>1 DEF TypeOK, ReadByte
      <4>2. (Inc(nread) + (k - 1)) % PIPESIZE = (nread + k) % PIPESIZE
        BY <4>1, NextCell, Zenon
      <4> QED
        BY <4>1, <4>2
    <3>2. nread + ((k + 1) - 1) = nread + k
      BY <2>1 DEF TypeOK, Uint
    <3> QED
      BY <2>1, <3>1, <3>2 DEF Content, ReadByte
  <2> QED
    BY <1>1, <2>2 DEF Content
<1>3. Content # <<>> /\ Content' = Tail(Content)
  <2>1. Content # <<>>
    BY <1>1, ContentIs
  <2>2. Tail(Content) = [k \in 1..Len(Content) - 1 |-> Content[k + 1]]
    BY <2>1, ContentIs, TailIs
  <2> QED
    BY <1>2, <2>1, <2>2, ContentIs
<1>4. out' = Head(Content)
  <2>1. Content[1] = data[(nread + (1 - 1)) % PIPESIZE]
    BY <1>1, ContentIs DEF Content
  <2>2. nread + (1 - 1) = nread
    BY DEF TypeOK, Uint
  <2> QED
    BY <1>3, <2>1, <2>2, ContentIs DEF ReadByte
<1> QED
  BY <1>3, <1>4, Zenon DEF Queue!Get, Content

-----------------------------------------------------------------------------
Inv == TypeOK /\ Places /\ EndsAwake /\ QueueInv

(* pipealloc() makes a pipe with all of it true. *)
LEMMA InvInit == Init => Inv
<1> SUFFICES ASSUME Init PROVE Inv
  OBVIOUS
<1>1. TypeOK
  <2>1. data \in [0..PIPESIZE - 1 -> Bytes] /\ out \in Bytes
    BY DEF Init
  <2>2. nread \in Uint /\ nwrite \in Uint
    BY DEF Init, Uint
  <2>3. lock \subseteq Procs /\ \A q, r \in lock : q = r
    BY DEF Init
  <2>4. /\ pc \in [Procs -> {"idle", "close"} \cup Writing \cup Reading]
        /\ left \in [Procs -> 0..MaxN]
    BY DEF Init
  <2>5. fds \subseteq Procs /\ killed \subseteq Killable
    BY DEF Init
  <2> QED
    BY <2>1, <2>2, <2>3, <2>4, <2>5, Zenon DEF Init, TypeOK
<1>2. Places
  BY DEF Init, Places, LockInv, SideInv, SleepInv, CloseInv, Closed, Inside,
         Writing, Reading, Procs
<1>3. EndsAwake
  BY DEF Init, EndsAwake, ReaderAwake, WriterAwake, Procs
<1>4. QueueInv
  BY <1>1, LengthIs DEF Init, QueueInv, Uint, TypeOK
<1> QED
  BY <1>1, <1>2, <1>3, <1>4 DEF Inv

(* Every step of pipe.c keeps the inductive invariant. *)
LEMMA InvAlways == Spec => []Inv
<1>1. Inv /\ [Next]_vars => Inv'
  <2> SUFFICES ASSUME Inv, [Next]_vars PROVE Inv'
    OBVIOUS
  <2> USE DEF Inv
  <2>1. TypeOK' /\ QueueInv'
    BY TypeStep, QueueStep
  <2>2. Places'
    BY LockStep, SideStep, SleepStep, CloseStep DEF Places
  <2>3. EndsAwake'
    BY ReaderStep, WriterStep DEF EndsAwake
  <2> QED
    BY <2>1, <2>2, <2>3
<1> QED
  BY <1>1, InvInit, PTL DEF Spec

(* The page is used only while it is there: once the second pipeclose()    *)
(* has freed it no process is in pipe.c or has a descriptor to enter it.   *)
THEOREM PipeAlwaysSound == Spec => []PipeSound
<1>1. Inv => PipeSound
  BY DEF Inv, Places, CloseInv, Closed, SideInv, PipeSound, TypeOK,
         NoUseAfterFree, Procs, Writing, Reading
<1> QED
  BY <1>1, InvAlways, PTL

(* Neither end sleeps beside bytes, room or a closed end without somebody  *)
(* about to wake it (pipewrite, piperead, pipeclose).                      *)
THEOREM EndsAlwaysAwake == Spec => []EndsAwake
BY InvAlways, PTL DEF Inv

(* pipe.c implements a bounded queue of bytes: every step is a Put, a Get  *)
(* or leaves the queue alone.                                              *)
THEOREM PipeIsQueue == Spec => IsQueue
<1>1. Init => Queue!Init
  <2> SUFFICES ASSUME Init PROVE Queue!Init
    OBVIOUS
  <2>1. TypeOK /\ Length = 0
    BY InvInit, LengthIs DEF Init, Inv, TypeOK, Uint
  <2>2. Content = <<>>
    BY <2>1, ContentIs
  <2> QED
    BY <2>1, <2>2 DEF Queue!Init, Content, TypeOK
<1>2. Inv /\ [Next]_vars => [Queue!Next]_<<Content, out>>
  <2> SUFFICES ASSUME Inv, [Next]_vars
               PROVE  Queue!Next \/ UNCHANGED <<Content, out>>
    OBVIOUS
  <2>1. ASSUME NEW p \in Procs, WriteByte(p) PROVE Queue!Next
    BY <2>1, Puts DEF Inv, Queue!Next
  <2>2. ASSUME NEW p \in Procs, ReadByte(p) PROVE Queue!Next
    BY <2>2, Gets DEF Inv, Queue!Next
  <2>3. ASSUME UNCHANGED <<data, nread, nwrite, out>>
        PROVE  UNCHANGED <<Content, out>>
    BY <2>3 DEF Content, Length
  <2> QED
    BY <2>1, <2>2, <2>3 DEF Next, Kernel, vars, pipe, Call, Acquire, WriteFull,
       WriteDone, Sleep, ReadTest, ReadDone, FileClose, PipeClose, Kill
<1> QED
  BY <1>1, <1>2, InvAlways, PTL DEF Spec, IsQueue, Queue!Spec, Content
=============================================================================
