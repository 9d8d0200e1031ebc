-------------------------------- MODULE Log --------------------------------
(***************************************************************************)
(* The write-ahead log of log.c over the buffer cache, with a crash        *)
(* possible between any two disk writes, also during recovery.             *)
(*                                                                         *)
(* A step is one log.lock section or one disk block written by bwrite.     *)
(***************************************************************************)
EXTENDS Integers, Sequences, FiniteSets

CONSTANTS
  Procs,        \* processes making file system calls
  Blocks,       \* disk blocks outside the log
  Vals,         \* contents of a block
  MAXOPBLOCKS,  \* blocks one call may write
  LOGSIZE,      \* entries of struct logheader
  Nlog,         \* sb.nlog: blocks of the on-disk log, header included;
                \* mkfs makes as many as struct logheader has entries
  InodeBlock    \* sb.inodestart: the block that follows the log

ASSUME LogAssumption ==
  /\ IsFiniteSet(Procs)
  /\ MAXOPBLOCKS \in Nat \ {0}
  /\ LOGSIZE \in Nat /\ LOGSIZE >= MAXOPBLOCKS
  /\ Nlog = LOGSIZE
  /\ InodeBlock \in Blocks

VARIABLES
  disk,         \* home location of each block
  logarea,      \* the log's data blocks on disk
  head,         \* the header block on disk: the blocks of the transaction
  cache,        \* contents of each block's buffer (or what bread would fetch)
  dirty,        \* blocks whose buffer has B_DIRTY set
  lh,           \* log.lh: blocks logged in memory
  outstanding,  \* log.outstanding
  committing,   \* log.committing
  tail,         \* loop index of write_log and install_trans
  pc,           \* where each process is
  held,         \* the buffer each process has locked for log_write, if any
  wrote,        \* blocks each open call has written
  mode          \* "run", "panic", or a step of recover_from_log

vars == <<disk, logarea, head, cache, dirty, lh, outstanding, committing,
          tail, pc, held, wrote, mode>>

Slots == 1..Nlog - 1
PCs == {"idle", "begin", "asleep", "op", "log_write", "commit", "write_log",
        "write_head", "install", "erase", "done"}

(* The log header, the counters of begin_op() and end_op() and the blocks  *)
(* have values of their kind.                                              *)
TypeOK ==
  /\ disk \in [Blocks -> Vals] /\ cache \in [Blocks -> Vals]
  /\ logarea \in [Slots -> Vals]
  /\ head \in Seq(Blocks) /\ Len(head) <= LOGSIZE
  /\ lh \in Seq(Blocks) /\ Len(lh) <= LOGSIZE
  /\ dirty \subseteq Blocks
  /\ outstanding \in 0..Cardinality(Procs)
  /\ committing \in BOOLEAN
  /\ tail \in 0..LOGSIZE
  /\ pc \in [Procs -> PCs]
  /\ held \in [Procs -> SUBSET Blocks]
  /\ wrote \in [Procs -> SUBSET Blocks]
  /\ mode \in {"run", "panic", "read_head", "install", "erase"}

(* A disk made by mkfs: an empty log. *)
Init ==
  /\ disk \in [Blocks -> Vals] /\ cache = disk
  /\ logarea \in [Slots -> Vals] /\ \A i, j \in Slots : logarea[i] = logarea[j]
  /\ head = <<>> /\ lh = <<>>
  /\ dirty = {}
  /\ outstanding = 0 /\ committing = FALSE
  /\ tail = 0
  /\ pc = [p \in Procs |-> "idle"]
  /\ held = [p \in Procs |-> {}]
  /\ wrote = [p \in Procs |-> {}]
  /\ mode = "run"

-----------------------------------------------------------------------------
At(p, l) == mode = "run" /\ pc[p] = l

Goto(p, l) == pc' = [pc EXCEPT ![p] = l]

(* Mutant of WakeLog: the caller goes on without wakeup(&log). *)
WakeNobody(p, l) == [pc EXCEPT ![p] = l]

(* p goes to l after wakeup(&log): every sleeper tests again. *)
WakeLog(p, l) ==
  [q \in Procs |-> CASE q = p -> l
                     [] q # p /\ pc[q] = "asleep" -> "begin"
                     [] OTHER -> pc[q]]

NoRoom == Len(lh) + (outstanding + 1) * MAXOPBLOCKS > LOGSIZE

(* begin_op: one turn of its loop. *)
BeginOp(p) ==
  /\ At(p, "idle") \/ At(p, "begin")
  /\ \/ /\ committing \/ NoRoom
        /\ Goto(p, "asleep")
        /\ UNCHANGED outstanding
     \/ /\ ~committing /\ ~NoRoom
        /\ outstanding' = outstanding + 1
        /\ Goto(p, "op")
  /\ UNCHANGED <<disk, logarea, head, cache, dirty, lh, committing, tail,
                 held, wrote, mode>>

(* Mutant of Pin: log_write forgets B_DIRTY. *)
PinNothing(b) == dirty

Pin(b) == dirty \cup {b}

(* The search of log_write: b is one of the blocks of header h. *)
Listed(h, b) == \E i \in 1..Len(h) : h[i] = b

Absorb(b) == IF Listed(lh, b) THEN lh ELSE Append(lh, b)

TooBig == Len(lh) >= LOGSIZE \/ Len(lh) >= Nlog - 1

(* The panics of log_write: a transaction too big, or none open. *)
Refused == TooBig \/ outstanding < 1

(* A call of p locks the buffer of b, changes it and enters log_write,     *)
(* whose tests are made before log.lock is acquired.                       *)
Modify(p, b, v) ==
  /\ At(p, "op")
  /\ \A q \in Procs : b \notin held[q]
  /\ Cardinality(wrote[p] \cup {b}) <= MAXOPBLOCKS
  /\ cache' = [cache EXCEPT ![b] = v]
  /\ \/ /\ Refused
        /\ mode' = "panic"
        /\ UNCHANGED <<pc, held, wrote>>
     \/ /\ ~Refused
        /\ Goto(p, "log_write")
        /\ held' = [held EXCEPT ![p] = {b}]
        /\ wrote' = [wrote EXCEPT ![p] = @ \cup {b}]
        /\ UNCHANGED mode
  /\ UNCHANGED <<disk, logarea, head, dirty, lh, outstanding, committing,
                 tail>>

(* The locked part of log_write, and brelse. *)
LogWrite(p) ==
  /\ At(p, "log_write")
  /\ \E b \in held[p] : lh' = Absorb(b) /\ dirty' = Pin(b)
  /\ held' = [held EXCEPT ![p] = {}]
  /\ Goto(p, "op")
  /\ UNCHANGED <<disk, logarea, head, cache, outstanding, committing, tail,
                 wrote, mode>>

OneLess == outstanding - 1

LastOut == OneLess = 0

(* end_op up to its release. *)
EndOp(p) ==
  /\ At(p, "op")
  /\ outstanding' = OneLess
  /\ wrote' = [wrote EXCEPT ![p] = {}]
  /\ \/ /\ committing
        /\ mode' = "panic"
        /\ UNCHANGED <<committing, pc>>
     \/ /\ ~committing /\ LastOut
        /\ committing' = TRUE
        /\ Goto(p, "commit")
        /\ UNCHANGED mode
     \/ /\ ~committing /\ ~LastOut
        /\ pc' = WakeLog(p, "idle")
        /\ UNCHANGED <<committing, mode>>
  /\ UNCHANGED <<disk, logarea, head, cache, dirty, lh, tail, held>>

-----------------------------------------------------------------------------
(* Mutant of Commit: the header is written before the log's blocks. *)
CommitHeadFirst(p) ==
  /\ At(p, "commit")
  /\ Goto(p, IF lh = <<>> THEN "done" ELSE "write_head")
  /\ tail' = 0
  /\ UNCHANGED <<disk, logarea, head, cache, dirty, lh, outstanding,
                 committing, held, wrote, mode>>

(* commit: nothing to do for an empty transaction. *)
Commit(p) ==
  /\ At(p, "commit")
  /\ Goto(p, IF lh = <<>> THEN "done" ELSE "write_log")
  /\ tail' = 0
  /\ UNCHANGED <<disk, logarea, head, cache, dirty, lh, outstanding,
                 committing, held, wrote, mode>>

(* The i-th block after the header, as write_log and install_trans address *)
(* it: past the end of the log it is a block of the file system.           *)
LogBlock(i, home) == IF i \in Slots THEN logarea[i] ELSE home[InodeBlock]

(* bread of a block whose buffer the caller has already locked never       *)
(* returns.                                                                *)
OwnBuffer(i, b) == i \notin Slots /\ b = InodeBlock

(* One block of write_log. *)
WriteLog(p) ==
  LET i == tail + 1
      b == lh[i] IN
  /\ At(p, "write_log")
  /\ ~OwnBuffer(i, b)
  /\ IF i \in Slots
     THEN /\ logarea' = [logarea EXCEPT ![i] = cache[b]]
          /\ UNCHANGED <<disk, cache, dirty>>
     ELSE /\ disk' = [disk EXCEPT ![InodeBlock] = cache[b]]
          /\ cache' = [cache EXCEPT ![InodeBlock] = cache[b]]
          /\ dirty' = dirty \ {InodeBlock}
          /\ UNCHANGED logarea
  /\ tail' = i % Len(lh)
  /\ Goto(p, IF i = Len(lh) THEN "write_head" ELSE "write_log")
  /\ UNCHANGED <<head, lh, outstanding, committing, held, wrote, mode>>

WriteHead(p) ==
  /\ At(p, "write_head")
  /\ head' = lh
  /\ Goto(p, "install")
  /\ UNCHANGED <<disk, logarea, cache, dirty, lh, outstanding, committing,
                 tail, held, wrote, mode>>

(* One block of install_trans: bwrite sends it home and clears B_DIRTY. *)
InstallBlock ==
  LET i == tail + 1
      b == lh[i] IN
  /\ ~OwnBuffer(i, b)
  /\ cache' = [cache EXCEPT ![b] = LogBlock(i, cache)]
  /\ disk' = [disk EXCEPT ![b] = LogBlock(i, cache)]
  /\ dirty' = dirty \ {b}
  /\ tail' = i % Len(lh)

Install(p) ==
  /\ At(p, "install")
  /\ InstallBlock
  /\ Goto(p, IF tail + 1 = Len(lh) THEN "erase" ELSE "install")
  /\ UNCHANGED <<logarea, head, lh, outstanding, committing, held, wrote,
                 mode>>

(* log.lh.n = 0 and the second write_head. *)
Erase(p) ==
  /\ At(p, "erase")
  /\ lh' = <<>> /\ head' = <<>>
  /\ Goto(p, "done")
  /\ UNCHANGED <<disk, logarea, cache, dirty, outstanding, committing, tail,
                 held, wrote, mode>>

(* The last section of end_op. *)
Committed(p) ==
  /\ At(p, "done")
  /\ committing' = FALSE
  /\ pc' = WakeLog(p, "idle")
  /\ UNCHANGED <<disk, logarea, head, cache, dirty, lh, outstanding, tail,
                 held, wrote, mode>>

(* bget recycles the buffer of a block that is not dirty. *)
Recycle(b) ==
  /\ mode = "run" /\ b \notin dirty
  /\ \A p \in Procs : b \notin held[p]
  /\ cache' = [cache EXCEPT ![b] = disk[b]]
  /\ UNCHANGED <<disk, logarea, head, dirty, lh, outstanding, committing, tail,
                 pc, held, wrote, mode>>

-----------------------------------------------------------------------------
(* Power fails: memory is lost, the next boot runs initlog. *)
Crash ==
  /\ mode' = "read_head"
  /\ cache' = disk /\ dirty' = {}
  /\ lh' = <<>> /\ outstanding' = 0 /\ committing' = FALSE /\ tail' = 0
  /\ pc' = [p \in Procs |-> "idle"]
  /\ held' = [p \in Procs |-> {}]
  /\ wrote' = [p \in Procs |-> {}]
  /\ UNCHANGED <<disk, logarea, head>>

ReadHead ==
  /\ mode = "read_head"
  /\ lh' = head
  /\ mode' = IF head = <<>> THEN "erase" ELSE "install"
  /\ UNCHANGED <<disk, logarea, head, cache, dirty, outstanding, committing,
                 tail, pc, held, wrote>>

RecoverInstall ==
  /\ mode = "install"
  /\ InstallBlock
  /\ mode' = IF tail + 1 = Len(lh) THEN "erase" ELSE "install"
  /\ UNCHANGED <<logarea, head, lh, outstanding, committing, pc, held, wrote>>

RecoverErase ==
  /\ mode = "erase"
  /\ lh' = <<>> /\ head' = <<>>
  /\ mode' = "run"
  /\ UNCHANGED <<disk, logarea, cache, dirty, outstanding, committing, tail,
                 pc, held, wrote>>

-----------------------------------------------------------------------------
CommitStep(p) ==
  \/ Commit(p) \/ WriteLog(p) \/ WriteHead(p)
  \/ Install(p) \/ Erase(p) \/ Committed(p)

Next ==
  \/ \E p \in Procs : BeginOp(p) \/ LogWrite(p) \/ EndOp(p) \/ CommitStep(p)
  \/ \E p \in Procs, b \in Blocks, v \in Vals : Modify(p, b, v)
  \/ \E b \in Blocks : Recycle(b)
  \/ Crash \/ ReadHead \/ RecoverInstall \/ RecoverErase

Spec == Init /\ [][Next]_vars

-----------------------------------------------------------------------------
InOp == {p \in Procs : pc[p] \in {"op", "log_write"}}

(* Contents of the disk once the transaction in the log is installed. *)
Recovered ==
  [b \in Blocks |-> IF Listed(head, b)
                    THEN LogBlock(CHOOSE i \in 1..Len(head) : head[i] = b,
                                  disk)
                    ELSE disk[b]]

Abs == INSTANCE AtomicDisk WITH
         mem <- IF mode \in {"run", "panic"} THEN cache ELSE Recovered,
         stable <- Recovered,
         active <- InOp

(* A buffer that differs from the disk is locked by the call changing it,  *)
(* or dirty, so that bget does not recycle it, and logged, so that         *)
(* commit() will write it (B_DIRTY in log_write).                          *)
ChangesPinned ==
  mode = "run" =>
    \A b \in Blocks : cache[b] # disk[b] =>
      \/ \E p \in Procs : b \in held[p]
      \/ b \in dirty /\ Listed(lh, b)

(* Which open call has written which of the blocks in the log. *)
Logged == {pb \in Procs \X Blocks :
             pb[2] \in wrote[pb[1]] /\ Listed(lh, pb[2])}

(* The blocks that open calls may still log fit in struct logheader: what  *)
(* begin_op reserves is enough, although calls share the log.              *)
ReservationHolds ==
  mode = "run" =>
    (Len(lh) + outstanding * MAXOPBLOCKS) - Cardinality(Logged) <= LOGSIZE

(* Nobody sleeps in begin_op while there is room and no commit will come   *)
(* to wake it: both branches of end_op call wakeup(&log).                  *)
SleepersNeedRoom ==
  \A p \in Procs : At(p, "asleep") => committing \/ (NoRoom /\ outstanding > 0)

(* A commit runs alone: no call writes blocks that commit() is copying,    *)
(* and end_op's panic("log.committing") cannot happen.                     *)
CommitAlone ==
  /\ outstanding = Cardinality(InOp)
  /\ committing => outstanding = 0

(* Until a commit, which runs alone, what calls have changed stays in the  *)
(* cache and in the log header (log_write, commit).                        *)
LogSound == TypeOK /\ ChangesPinned /\ CommitAlone

(* begin_op() admits no more than fits, and makes nobody wait who could go *)
(* on.                                                                     *)
SpaceKept == ReservationHolds /\ SleepersNeedRoom
=============================================================================
