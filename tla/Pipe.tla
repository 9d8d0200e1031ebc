-------------------------------- MODULE Pipe --------------------------------
(***************************************************************************)
(* pipe.c with the processes that hold its two ends: pipewrite, piperead,  *)
(* the last fileclose of each end with pipeclose, and kill.                *)
(*                                                                         *)
(* p->lock is a variable.  A step is one byte, one test, or one sleep: a   *)
(* process tests killed before sleep() has ptable.lock, so a kill can fall *)
(* in between.                                                             *)
(***************************************************************************)
EXTENDS Integers

CONSTANTS
  Writers,    \* processes with a descriptor of the write end
  Readers,    \* processes with a descriptor of the read end
  Bytes,      \* values of a byte
  PIPESIZE,
  UintMax1,   \* bound: the counters wrap to 0 here (2^32 in the code)
  MaxN,       \* bound: bytes of one call
  Killable    \* processes that kill() may hit

ASSUME PipeAssumption ==
  /\ Writers \cap Readers = {}
  /\ PIPESIZE \in Nat \ {0} /\ MaxN \in Nat
  /\ UintMax1 \in Nat /\ UintMax1 > PIPESIZE /\ UintMax1 % PIPESIZE = 0
  /\ Killable \subseteq Writers \cup Readers

VARIABLES
  data, nread, nwrite, readopen, writeopen,   \* struct pipe
  lock,     \* the process that holds p->lock, as a set
  freed,    \* the page of the pipe has been given to kfree
  fds,      \* processes that have not closed their descriptor
  pc,       \* where each process is
  left,     \* n - i: bytes its call still has to copy
  out,      \* the byte piperead copied last
  killed    \* processes that were killed

pipe == <<data, nread, nwrite, readopen, writeopen>>
vars == <<pipe, lock, freed, fds, pc, left, out, killed>>

Procs == Writers \cup Readers
Uint == 0..UintMax1 - 1

Writing == {"w_acquire", "w_loop", "w_sleep", "w_asleep"}
Reading == {"r_acquire", "r_test", "r_sleep", "r_asleep", "r_copy"}

(* The counters stay below the wrap of a uint and the calls within what    *)
(* they were asked to move (struct pipe).                                  *)
TypeOK ==
  /\ data \in [0..PIPESIZE - 1 -> Bytes]
  /\ nread \in Uint /\ nwrite \in Uint
  /\ readopen \in BOOLEAN /\ writeopen \in BOOLEAN
  /\ lock \subseteq Procs /\ \A p, q \in lock : p = q
  /\ freed \in BOOLEAN
  /\ fds \subseteq Procs /\ killed \subseteq Killable
  /\ pc \in [Procs -> {"idle", "close"} \cup Writing \cup Reading]
  /\ left \in [Procs -> 0..MaxN]
  /\ out \in Bytes

(* pipealloc. *)
Init ==
  /\ \E v \in Bytes : data = [k \in 0..PIPESIZE - 1 |-> v] /\ out = v
  /\ nread = 0 /\ nwrite = 0
  /\ readopen = TRUE /\ writeopen = TRUE
  /\ lock = {} /\ freed = FALSE
  /\ fds = Procs /\ killed = {}
  /\ pc = [p \in Procs |-> "idle"]
  /\ left = [p \in Procs |-> 0]

-----------------------------------------------------------------------------
Goto(p, l) == pc' = [pc EXCEPT ![p] = l]

(* p goes to l after a wakeup of the processes at asleep. *)
Wake(asleep, again, p, l) ==
  [q \in Procs |-> CASE q = p -> l
                     [] q # p /\ pc[q] = asleep -> again
                     [] OTHER -> pc[q]]

(* Mutant of WakeReaders: the own channel is woken. *)
WakeOwnSide(p, l) ==
  Wake(IF p \in Writers THEN "w_asleep" ELSE "r_asleep",
       IF p \in Writers THEN "w_acquire" ELSE "r_acquire", p, l)

WakeReaders(p, l) == Wake("r_asleep", "r_acquire", p, l)
WakeWriters(p, l) == Wake("w_asleep", "w_acquire", p, l)

Inc(c) == (c + 1) % UintMax1

(* Mutant of Full: off by one. *)
FullLate == nwrite = (nread + PIPESIZE + 1) % UintMax1

Full == nwrite = (nread + PIPESIZE) % UintMax1
Empty == nread = nwrite

(* trap() lets a process that is not killed into sys_read or sys_write. *)
Call(p) ==
  /\ pc[p] = "idle" /\ p \in fds /\ p \notin killed
  /\ \E n \in 0..MaxN : left' = [left EXCEPT ![p] = n]
  /\ Goto(p, IF p \in Writers THEN "w_acquire" ELSE "r_acquire")
  /\ UNCHANGED <<pipe, lock, freed, fds, out, killed>>

(* acquire(&p->lock), at the start and at the end of sleep(). *)
Acquire(p) ==
  /\ lock = {}
  /\ lock' = {p}
  /\ \/ pc[p] = "w_acquire" /\ Goto(p, "w_loop")
     \/ pc[p] = "r_acquire" /\ Goto(p, "r_test")
  /\ UNCHANGED <<pipe, freed, fds, left, out, killed>>

(* One turn of pipewrite's loop that stores a byte. *)
WriteByte(p) ==
  /\ pc[p] = "w_loop" /\ left[p] > 0 /\ ~Full
  /\ \E v \in Bytes : data' = [data EXCEPT ![nwrite % PIPESIZE] = v]
  /\ nwrite' = Inc(nwrite)
  /\ left' = [left EXCEPT ![p] = @ - 1]
  /\ UNCHANGED <<nread, readopen, writeopen, lock, freed, fds, pc, out,
                 killed>>

(* The pipe is full: give up, or wake the readers and get ready to sleep. *)
WriteFull(p) ==
  /\ pc[p] = "w_loop" /\ left[p] > 0 /\ Full
  /\ \/ /\ ~readopen \/ p \in killed
        /\ lock' = {}
        /\ Goto(p, "idle")
        /\ left' = [left EXCEPT ![p] = 0]
     \/ /\ readopen /\ p \notin killed
        /\ pc' = WakeReaders(p, "w_sleep")
        /\ UNCHANGED <<lock, left>>
  /\ UNCHANGED <<pipe, freed, fds, out, killed>>

WriteDone(p) ==
  /\ pc[p] = "w_loop" /\ left[p] = 0
  /\ pc' = WakeReaders(p, "idle")
  /\ lock' = {}
  /\ UNCHANGED <<pipe, freed, fds, left, out, killed>>

(* sleep(), which releases p->lock once it has ptable.lock. *)
Sleep(p) ==
  /\ \/ pc[p] = "w_sleep" /\ Goto(p, "w_asleep")
     \/ pc[p] = "r_sleep" /\ Goto(p, "r_asleep")
  /\ lock' = {}
  /\ UNCHANGED <<pipe, freed, fds, left, out, killed>>

(* The test at the top of piperead. *)
ReadTest(p) ==
  /\ pc[p] = "r_test"
  /\ \/ /\ Empty /\ writeopen /\ p \in killed
        /\ lock' = {}
        /\ Goto(p, "idle")
        /\ left' = [left EXCEPT ![p] = 0]
     \/ /\ Empty /\ writeopen /\ p \notin killed
        /\ Goto(p, "r_sleep")
        /\ UNCHANGED <<lock, left>>
     \/ /\ ~(Empty /\ writeopen)
        /\ Goto(p, "r_copy")
        /\ UNCHANGED <<lock, left>>
  /\ UNCHANGED <<pipe, freed, fds, out, killed>>

(* One turn of piperead's copy loop. *)
ReadByte(p) ==
  /\ pc[p] = "r_copy" /\ left[p] > 0 /\ ~Empty
  /\ out' = data[nread % PIPESIZE]
  /\ nread' = Inc(nread)
  /\ left' = [left EXCEPT ![p] = @ - 1]
  /\ UNCHANGED <<data, nwrite, readopen, writeopen, lock, freed, fds, pc,
                 killed>>

(* Mutant of ReadDone: a short read tries again. *)
ReadDoneRetries(p) ==
  /\ pc[p] = "r_copy" /\ (left[p] = 0 \/ Empty)
  /\ \/ left[p] > 0 /\ pc' = WakeWriters(p, "r_test") /\ UNCHANGED lock
     \/ left[p] = 0 /\ pc' = WakeWriters(p, "idle") /\ lock' = {}
  /\ UNCHANGED <<pipe, freed, fds, left, out, killed>>

ReadDone(p) ==
  /\ pc[p] = "r_copy" /\ (left[p] = 0 \/ Empty)
  /\ pc' = WakeWriters(p, "idle")
  /\ lock' = {}
  /\ left' = [left EXCEPT ![p] = 0]
  /\ UNCHANGED <<pipe, freed, fds, out, killed>>

-----------------------------------------------------------------------------
(* Mutant of LastOf: the first close of an end closes the end. *)
LastOfLax(p, side) == TRUE

LastOf(p, side) == fds \cap side = {p}

(* fileclose: only the last descriptor of an end goes on to pipeclose. *)
FileClose(p) ==
  /\ pc[p] = "idle" /\ p \in fds
  /\ fds' = fds \ {p}
  /\ Goto(p, IF LastOf(p, IF p \in Writers THEN Writers ELSE Readers)
             THEN "close" ELSE "idle")
  /\ UNCHANGED <<pipe, lock, freed, left, out, killed>>

(* pipeclose; the page is freed when both ends are closed. *)
PipeClose(p) ==
  /\ pc[p] = "close" /\ lock = {}
  /\ \/ /\ p \in Writers
        /\ writeopen' = FALSE
        /\ pc' = WakeReaders(p, "idle")
        /\ UNCHANGED readopen
     \/ /\ p \in Readers
        /\ readopen' = FALSE
        /\ pc' = WakeWriters(p, "idle")
        /\ UNCHANGED writeopen
  /\ freed' = (~readopen' /\ ~writeopen')
  /\ UNCHANGED <<data, nread, nwrite, lock, fds, left, out, killed>>

(* kill: wakes p if it is asleep. *)
Kill(p) ==
  /\ p \in Killable \ killed
  /\ killed' = killed \cup {p}
  /\ Goto(p, CASE pc[p] = "w_asleep" -> "w_acquire"
               [] pc[p] = "r_asleep" -> "r_acquire"
               [] OTHER -> pc[p])
  /\ UNCHANGED <<pipe, lock, freed, fds, left, out>>

-----------------------------------------------------------------------------
(* What p does inside the kernel once it has called it. *)
Kernel(p) ==
  \/ Acquire(p) \/ WriteByte(p) \/ WriteFull(p) \/ WriteDone(p) \/ Sleep(p)
  \/ ReadTest(p) \/ ReadByte(p) \/ ReadDone(p) \/ PipeClose(p)

Next == \E p \in Procs : Call(p) \/ Kernel(p) \/ FileClose(p) \/ Kill(p)

Spec == Init /\ [][Next]_vars

(* Kernel code runs on, and a process that keeps trying gets the spin      *)
(* lock; a killed process exits and closes its files.                      *)
Fairness ==
  \A p \in Procs :
    /\ SF_vars(Kernel(p))
    /\ WF_vars(p \in killed /\ FileClose(p))

FairSpec == Spec /\ Fairness

-----------------------------------------------------------------------------
Length == (nwrite - nread) % UintMax1

Queue == INSTANCE ByteQueue WITH
  Capacity <- PIPESIZE,
  queue <- [k \in 1..Length |-> data[(nread + k - 1) % PIPESIZE]]

(* The ring with its two wrapping counters is a queue of at most PIPESIZE  *)
(* bytes: each byte written is read once, in order, whatever the writers,  *)
(* readers, closes and kills do.                                           *)
IsQueue == Queue!Spec

(* Nobody is inside pipe.c, or about to enter it with an open descriptor,  *)
(* after pipeclose has freed the page.                                     *)
NoUseAfterFree == freed => fds = {} /\ \A p \in Procs : pc[p] = "idle"

(* A reader sleeps beside bytes only while a writer with the lock has yet  *)
(* to wake it, or after a writer was killed: that one leaves a full pipe   *)
(* without the wakeup.  It never sleeps once the write end is closed.      *)
ReaderAwake ==
  \A r \in Readers : pc[r] = "r_asleep" =>
    /\ writeopen
    /\ \/ Empty
       \/ \E w \in lock : pc[w] = "w_loop"
       \/ killed \cap Writers # {}

(* A writer sleeps beside room only while a reader with the lock has yet   *)
(* to wake it, and never once the read end is closed.                      *)
WriterAwake ==
  \A w \in Writers : pc[w] = "w_asleep" =>
    readopen /\ (Full \/ \E r \in lock : pc[r] = "r_copy")

(* piperead returns once there are bytes or the last writer has gone,      *)
(* unless other readers take the bytes, or a writer killed in a full pipe  *)
(* has left without the wakeup.                                            *)
ReadReturns ==
  \A r \in Readers :
    pc[r] \in Reading /\ (~Empty \/ ~writeopen)
      ~> \/ pc[r] \notin Reading
         \/ writeopen /\ (Empty \/ killed \cap Writers # {})

(* The page of a pipe is used only while it is there, and its fields stay  *)
(* what pipealloc() made them (pipeclose).                                 *)
PipeSound == TypeOK /\ NoUseAfterFree

(* Neither end sleeps beside bytes or room without somebody about to wake  *)
(* it (pipewrite, piperead, pipeclose).                                    *)
EndsAwake == ReaderAwake /\ WriterAwake
=============================================================================
