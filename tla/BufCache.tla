------------------------------ MODULE BufCache ------------------------------
(***************************************************************************)
(* The buffer cache of bio.c with the sleep lock of each buffer            *)
(* (sleeplock.c) and the request queue of the disk driver (ide.c).         *)
(*                                                                         *)
(* A step is one section under bcache.lock, under a sleep lock's spin lock *)
(* or under idelock, or one disk interrupt.                                *)
(***************************************************************************)
EXTENDS Integers, Sequences, FiniteSets, Functions

CONSTANTS
  Procs, Bufs, Blocks,
  Vals,       \* contents of a block
  NoBlock     \* what a buffer never used caches

ASSUME BufAssumption ==
  /\ NoBlock \notin Blocks
  /\ IsFiniteSet(Procs)
  /\ IsFiniteSet(Bufs) /\ Bufs # {}

VARIABLES
  blk, valid, dirty, refcnt, data,  \* struct buf
  locked,    \* the process that holds b->lock, as a set
  mru,       \* the list from head.next to head.prev
  idequeue,
  disk,
  pc, want,  \* where each process is, and the block it asked for
  buf,       \* the buffer bget found for it
  latest,    \* what was stored in each block last, through any buffer
  bad,       \* buffers filled by a failed read and not written since
  panicked   \* bget found no buffer

bufs == <<blk, valid, dirty, refcnt, data>>
vars == <<bufs, locked, mru, idequeue, disk, pc, want, buf, latest, bad,
          panicked>>

PCs == {"idle", "lock", "lock_asleep", "check", "io_asleep", "io_test", "use",
        "release"}

(* The lists that have every buffer once. *)
Lists == Bijection(1..Cardinality(Bufs), Bufs)

(* The MRU list has every buffer once, and the fields of struct buf have   *)
(* values of their kind.                                                   *)
TypeOK ==
  /\ blk \in [Bufs -> Blocks \cup {NoBlock}]
  /\ valid \in [Bufs -> BOOLEAN] /\ dirty \in [Bufs -> BOOLEAN]
  /\ refcnt \in [Bufs -> 0..Cardinality(Procs)]
  /\ data \in [Bufs -> Vals] /\ disk \in [Blocks -> Vals]
  /\ locked \in [Bufs -> SUBSET Procs]
  /\ mru \in Lists
  /\ idequeue \in Seq(Bufs)
  /\ pc \in [Procs -> PCs]
  /\ want \in [Procs -> Blocks \cup {NoBlock}]
  /\ buf \in [Procs -> Bufs]
  /\ latest \in [Blocks -> Vals]
  /\ bad \subseteq Bufs
  /\ panicked \in BOOLEAN

(* What buf is for a process that has called no bread: any buffer. *)
AnyBuf == CHOOSE b \in Bufs : TRUE

(* binit *)
Init ==
  /\ blk = [b \in Bufs |-> NoBlock]
  /\ valid = [b \in Bufs |-> FALSE] /\ dirty = valid
  /\ refcnt = [b \in Bufs |-> 0]
  /\ disk \in [Blocks -> Vals] /\ latest = disk
  /\ \E v \in Vals : data = [b \in Bufs |-> v]
  /\ locked = [b \in Bufs |-> {}]
  /\ mru = CHOOSE l \in Lists : TRUE
  /\ idequeue = <<>>
  /\ pc = [p \in Procs |-> "idle"]
  /\ want = [p \in Procs |-> NoBlock]
  /\ buf = [p \in Procs |-> AnyBuf]
  /\ bad = {}
  /\ panicked = FALSE

-----------------------------------------------------------------------------
At(p, l) == ~panicked /\ pc[p] = l

Goto(p, l) == pc' = [pc EXCEPT ![p] = l]

(* p goes to l after a wakeup of the processes at asleep for buffer b. *)
Wake(b, asleep, again, p, l) ==
  [q \in Procs |-> CASE q = p -> l
                     [] q # p /\ pc[q] = asleep /\ buf[q] = b -> again
                     [] OTHER -> pc[q]]

Cached(k) == {b \in Bufs : blk[b] = k}

Unused == {b \in Bufs : refcnt[b] = 0 /\ ~dirty[b]}

LeastRecent(S) == {mru[i] : i \in {j \in DOMAIN mru : mru[j] \in S /\
                     \A m \in DOMAIN mru : mru[m] \in S => m <= j}}

(* bget up to acquiresleep. *)
Bget(p, k) ==
  /\ At(p, "idle")
  /\ want' = [want EXCEPT ![p] = k]
  /\ \/ \E b \in Cached(k) :
          /\ refcnt' = [refcnt EXCEPT ![b] = @ + 1]
          /\ buf' = [buf EXCEPT ![p] = b]
          /\ Goto(p, "lock")
          /\ UNCHANGED <<blk, valid, dirty, panicked>>
     \/ /\ Cached(k) = {}
        /\ \E b \in LeastRecent(Unused) :
             /\ blk' = [blk EXCEPT ![b] = k]
             /\ valid' = [valid EXCEPT ![b] = FALSE]
             /\ dirty' = [dirty EXCEPT ![b] = FALSE]
             /\ refcnt' = [refcnt EXCEPT ![b] = 1]
             /\ buf' = [buf EXCEPT ![p] = b]
        /\ Goto(p, "lock")
        /\ UNCHANGED panicked
     \/ /\ Cached(k) = {} /\ Unused = {}
        /\ panicked' = TRUE
        /\ UNCHANGED <<blk, valid, dirty, refcnt, buf, pc>>
  /\ bad' = {b \in bad : valid'[b]}
  /\ UNCHANGED <<data, locked, mru, idequeue, disk, latest>>

(* One turn of acquiresleep's loop. *)
AcquireSleep(p) ==
  LET b == buf[p] IN
  /\ At(p, "lock")
  /\ \/ /\ locked[b] # {}
        /\ Goto(p, "lock_asleep")
        /\ UNCHANGED locked
     \/ /\ locked[b] = {}
        /\ locked' = [locked EXCEPT ![b] = {p}]
        /\ Goto(p, "check")
  /\ UNCHANGED <<bufs, mru, idequeue, disk, want, buf, latest, bad,
                 panicked>>

(* Mutant of Request: the request goes to the front of the queue. *)
RequestFirst(p) ==
  /\ idequeue' = <<buf[p]>> \o idequeue
  /\ Goto(p, "io_asleep")

(* iderw, up to its sleep: the request joins the queue. *)
Request(p) ==
  /\ idequeue' = Append(idequeue, buf[p])
  /\ Goto(p, "io_asleep")

(* bread once the buffer is locked. *)
Bread(p) ==
  /\ At(p, "check")
  /\ \/ /\ valid[buf[p]]
        /\ Goto(p, "use")
        /\ UNCHANGED idequeue
     \/ /\ ~valid[buf[p]]
        /\ Request(p)
  /\ UNCHANGED <<bufs, locked, mru, disk, want, buf, latest, bad,
                 panicked>>

Store(p, v) ==
  /\ data' = [data EXCEPT ![buf[p]] = v]
  /\ latest' = [latest EXCEPT ![want[p]] = v]
  /\ dirty' = [dirty EXCEPT ![buf[p]] = TRUE]
  /\ bad' = bad \ {buf[p]}

(* The holder changes the data and calls bwrite. *)
Bwrite(p, v) ==
  /\ At(p, "use")
  /\ Store(p, v)
  /\ Request(p)
  /\ UNCHANGED <<blk, valid, refcnt, locked, mru, disk, want, buf, panicked>>

(* The holder changes the data and calls log_write, which sets B_DIRTY.    *)
(* A later bwrite by the log clears it.                                    *)
Pin(p, v) ==
  /\ At(p, "use")
  /\ Store(p, v)
  /\ UNCHANGED <<blk, valid, refcnt, locked, mru, idequeue, disk, pc, want,
                 buf, panicked>>

(* Mutant of IdeTest: the loop of iderw is an if. *)
IdeTestOnce(p) ==
  /\ At(p, "io_test")
  /\ Goto(p, "use")
  /\ UNCHANGED <<bufs, locked, mru, idequeue, disk, want, buf, latest, bad,
                 panicked>>

(* The loop at the end of iderw, after a wakeup. *)
IdeTest(p) ==
  /\ At(p, "io_test")
  /\ Goto(p, IF valid[buf[p]] /\ ~dirty[buf[p]] THEN "use" ELSE "io_asleep")
  /\ UNCHANGED <<bufs, locked, mru, idequeue, disk, want, buf, latest, bad,
                 panicked>>

(* ideintr: the head of the queue is done.  After a read error the data    *)
(* stay as they are, but the buffer becomes valid.                         *)
IdeIntr ==
  LET b == Head(idequeue) IN
  /\ ~panicked /\ idequeue # <<>>
  /\ idequeue' = Tail(idequeue)
  /\ \/ /\ dirty[b]
        /\ disk' = [disk EXCEPT ![blk[b]] = data[b]]
        /\ UNCHANGED <<data, bad>>
     \/ /\ ~dirty[b]
        /\ data' = [data EXCEPT ![b] = disk[blk[b]]]
        /\ UNCHANGED <<disk, bad>>
     \/ /\ ~dirty[b]
        /\ bad' = bad \cup {b}
        /\ UNCHANGED <<data, disk>>
  /\ valid' = [valid EXCEPT ![b] = TRUE]
  /\ dirty' = [dirty EXCEPT ![b] = FALSE]
  /\ pc' = [q \in Procs |-> IF pc[q] = "io_asleep" /\ buf[q] = b
                            THEN "io_test" ELSE pc[q]]
  /\ UNCHANGED <<blk, refcnt, locked, mru, want, buf, latest, panicked>>

(* kill() makes a sleeper runnable whatever it waits for. *)
KillWakes(p) ==
  /\ At(p, "io_asleep") \/ At(p, "lock_asleep")
  /\ Goto(p, IF pc[p] = "io_asleep" THEN "io_test" ELSE "lock")
  /\ UNCHANGED <<bufs, locked, mru, idequeue, disk, want, buf, latest, bad,
                 panicked>>

(* Mutant of ReleaseSleep: the wakeup is missing. *)
ReleaseQuietly(p) ==
  /\ At(p, "use")
  /\ locked' = [locked EXCEPT ![buf[p]] = {}]
  /\ Goto(p, "release")
  /\ UNCHANGED <<bufs, mru, idequeue, disk, want, buf, latest, bad,
                 panicked>>

(* brelse up to releasesleep. *)
ReleaseSleep(p) ==
  /\ At(p, "use")
  /\ locked' = [locked EXCEPT ![buf[p]] = {}]
  /\ pc' = Wake(buf[p], "lock_asleep", "lock", p, "release")
  /\ UNCHANGED <<bufs, mru, idequeue, disk, want, buf, latest, bad,
                 panicked>>

(* b is unlinked, and linked in again after the head. *)
MoveToFront(b) ==
  LET i == CHOOSE j \in DOMAIN mru : mru[j] = b IN
  [j \in DOMAIN mru |-> CASE j = 1 -> b
                         [] j \in 2..i -> mru[j - 1]
                         [] j > i -> mru[j]]

(* The rest of brelse. *)
Brelse(p) ==
  LET b == buf[p] IN
  /\ At(p, "release")
  /\ refcnt' = [refcnt EXCEPT ![b] = @ - 1]
  /\ mru' = IF refcnt[b] = 1 THEN MoveToFront(b) ELSE mru
  /\ Goto(p, "idle")
  /\ want' = [want EXCEPT ![p] = NoBlock]
  /\ buf' = [buf EXCEPT ![p] = AnyBuf]
  /\ UNCHANGED <<blk, valid, dirty, data, locked, idequeue, disk, latest, bad,
                 panicked>>

-----------------------------------------------------------------------------
Step(p) ==
  \/ AcquireSleep(p) \/ Bread(p) \/ IdeTest(p) \/ ReleaseSleep(p) \/ Brelse(p)

Next ==
  \/ IdeIntr
  \/ \E p \in Procs : Step(p) \/ KillWakes(p) \/ \E k \in Blocks : Bget(p, k)
  \/ \E p \in Procs, v \in Vals : Bwrite(p, v) \/ Pin(p, v)

Spec == Init /\ [][Next]_vars

(* The disk answers every request, and kernel code that can run does.      *)
Fairness == WF_vars(IdeIntr) /\ \A p \in Procs : WF_vars(Step(p))

FairSpec == Spec /\ Fairness

-----------------------------------------------------------------------------
Users(b) == {p \in Procs : pc[p] # "idle" /\ buf[p] = b}

(* A process that has read a block uses the only buffer of that block,     *)
(* alone, and finds there what was stored in it last, through whichever    *)
(* buffer and whether or not it has reached the disk; only a failed read   *)
(* leaves something else there.                                            *)
Coherent ==
  \A p \in Procs : pc[p] = "use" =>
    LET b == buf[p] IN
    /\ blk[b] = want[p] /\ Cached(want[p]) = {b}
    /\ locked[b] = {p}
    /\ b \notin bad => data[b] = latest[want[p]]

(* A buffer's count is the number of processes that have it or wait for    *)
(* it, and it keeps their block: bget recycles no buffer under a process   *)
(* asleep in acquiresleep.                                                 *)
RefcntCounts ==
  \A b \in Bufs :
    /\ refcnt[b] = Cardinality(Users(b))
    /\ \A p \in Users(b) : blk[b] = want[p]

(* A process asleep in iderw has its request in the queue, one per buffer, *)
(* and a process asleep in acquiresleep has a holder to wake it.           *)
SleepersServed ==
  /\ IsInjective(idequeue)
  /\ \A p \in Procs :
       /\ pc[p] = "io_asleep" => buf[p] \in Range(idequeue)
       /\ pc[p] = "lock_asleep" => locked[buf[p]] # {}

(* What is neither in a dirty buffer nor being written is on the disk.     *)
NothingLost ==
  \A k \in Blocks : latest[k] # disk[k] =>
    \E b \in Cached(k) : dirty[b] /\ data[b] = latest[k]

(* A process that waits for the disk gets to use its buffer, although kill *)
(* may wake it early any number of times.  Processes are interchangeable   *)
(* here: any one stands for all.                                           *)
IoReturns ==
  LET p == CHOOSE q \in Procs : TRUE
  IN  pc[p] = "io_asleep" ~> pc[p] = "use" \/ panicked

(* A block has one buffer, which its users share in turn and which holds   *)
(* what was stored last until it is on the disk (bget, iderw, brelse).     *)
BuffersSound == TypeOK /\ Coherent /\ RefcntCounts /\ NothingLost
=============================================================================
