----------------------------- MODULE LogProofs ------------------------------
(***************************************************************************)
(* The log of log.c keeps LogSound and SpaceKept, and implements the       *)
(* atomic disk of AtomicDisk, for any finite number of processes, any      *)
(* blocks and contents, and any sizes that LogAssumption admits.           *)
(*                                                                         *)
(* To the layers of LogCommit the inductive invariant LogInv adds the      *)
(* bounds that the reservations imply and the sleepers that wait for room. *)
(* The refinement needs more: the copies in the log are right while they   *)
(* are needed (CopyInv), until write_log comes to an entry that has no     *)
(* block in the log (Inside).  That takes two calls at once between        *)
(* log_write()'s test and its acquire() (OneTests).                        *)
(***************************************************************************)
EXTENDS LogCommit, LogHist

USE LogAssumption

(* The header has at most LOGSIZE entries, in memory and on disk. *)
BoundInv == Len(lh) <= LOGSIZE /\ Len(head) <= LOGSIZE /\ tail <= LOGSIZE

(* Every step keeps the header within LOGSIZE (BoundInv). *)
LEMMA BoundStep ==
  Kinds /\ CallInv /\ CommitInv /\ HeaderInv /\ ReservationHolds
    /\ BoundInv /\ [Next]_vars => BoundInv'
<1> SUFFICES ASSUME Kinds, CallInv, CommitInv, HeaderInv, ReservationHolds,
                    BoundInv, [Next]_vars
             PROVE  BoundInv'
  OBVIOUS
<1>0. Kinds' /\ CallInv' /\ CommitInv' /\ ReservationHolds'
  BY KindStep, CallStep, CommitsStep, ReservationStep
<1>00. (mode = "run")' => (Len(lh) <= LOGSIZE)'
  BY <1>0, RunBound, PTL
<1>1. CASE UNCHANGED vars
  BY <1>1 DEF vars, BoundInv
<1>2. ASSUME NEW p \in Procs, BeginOp(p) PROVE BoundInv'
  BY <1>2 DEF BeginOp, At, Goto, BoundInv
<1>3. ASSUME NEW p \in Procs, LogWrite(p) PROVE BoundInv'
  <2>1. mode' = "run" /\ UNCHANGED <<head, tail>>
    BY <1>3 DEF LogWrite, At
  <2>2. (Len(lh) <= LOGSIZE)'
    BY <1>00, <2>1
  <2> QED
    BY <2>1, <2>2 DEF BoundInv
<1>4. ASSUME NEW p \in Procs, EndOp(p) PROVE BoundInv'
  BY <1>4 DEF EndOp, At, Goto, WakeLog, BoundInv
<1>5. ASSUME NEW p \in Procs, Commit(p) PROVE BoundInv'
  BY <1>5 DEF Commit, At, Goto, BoundInv
<1>6. ASSUME NEW p \in Procs, WriteLog(p) PROVE BoundInv'
  <2>1. tail' = IF tail + 1 = Len(lh) THEN 0 ELSE tail + 1
    BY <1>6, TailNext DEF WriteLog, At, HeaderInv
  <2>2. tail < Len(lh) /\ Len(lh) \in Nat
    BY <1>6 DEF WriteLog, At, HeaderInv
  <2> QED
    BY <1>6, <2>1, <2>2 DEF WriteLog, Kinds, BoundInv
<1>7. ASSUME NEW p \in Procs, WriteHead(p) PROVE BoundInv'
  BY <1>7 DEF WriteHead, At, Goto, BoundInv
<1>8. ASSUME NEW p \in Procs, Install(p) PROVE BoundInv'
  <2>1. tail' = IF tail + 1 = Len(lh) THEN 0 ELSE tail + 1
    BY <1>8, InstallIs DEF Install, At, HeaderInv
  <2>2. tail < Len(lh) /\ Len(lh) \in Nat
    BY <1>8 DEF Install, At, HeaderInv
  <2> QED
    BY <1>8, <2>1, <2>2 DEF Install, Kinds, BoundInv
<1>9. ASSUME NEW p \in Procs, Erase(p) PROVE BoundInv'
  BY <1>9 DEF Erase, At, Goto, BoundInv
<1>10. ASSUME NEW p \in Procs, Committed(p) PROVE BoundInv'
  BY <1>10 DEF Committed, At, WakeLog, BoundInv
<1>11. ASSUME NEW p \in Procs, NEW b \in Blocks, NEW v \in Vals,
              Modify(p, b, v)
      PROVE  BoundInv'
  BY <1>11 DEF Modify, At, Goto, BoundInv
<1>12. ASSUME NEW b \in Blocks, Recycle(b) PROVE BoundInv'
  BY <1>12 DEF Recycle, BoundInv
<1>13. CASE Crash
  BY <1>13 DEF Crash, BoundInv
<1>14. CASE ReadHead
  BY <1>14 DEF ReadHead, BoundInv
<1>15. CASE RecoverInstall
  <2>1. tail' = IF tail + 1 = Len(lh) THEN 0 ELSE tail + 1
    BY <1>15, InstallIs DEF RecoverInstall, HeaderInv
  <2>2. tail < Len(lh) /\ Len(lh) \in Nat
    BY <1>15 DEF RecoverInstall, HeaderInv
  <2> QED
    BY <1>15, <2>1, <2>2 DEF RecoverInstall, Kinds, BoundInv
<1>16. CASE RecoverErase
  BY <1>16 DEF RecoverErase, BoundInv
<1> QED
  BY <1>1, <1>2, <1>3, <1>4, <1>5, <1>6, <1>7, <1>8, <1>9, <1>10, <1>11,
     <1>12, <1>13, <1>14, <1>15, <1>16 DEF Next, CommitStep

(* The layers imply the type invariant with its bounds. *)
LEMMA TypesHold ==
  ASSUME Kinds, CommitAlone, BoundInv
  PROVE  TypeOK
<1>2. InOp \in SUBSET Procs
  BY DEF InOp
<1>3. Cardinality(InOp) <= Cardinality(Procs) /\ Cardinality(Procs) \in Nat
  BY <1>2, FS_Subset, FS_CardinalityType
<1>4. outstanding \in 0..Cardinality(Procs)
  BY <1>3, OpsCount DEF CommitAlone
<1>5. tail \in 0..LOGSIZE
  BY DEF Kinds, BoundInv
<1> QED
  BY <1>4, <1>5 DEF Kinds, BoundInv, TypeOK

(* begin_op finds room when no call is open and nobody commits: who waits  *)
(* for room waits for a call to end.                                       *)
LEMMA FirstFits ==
  ASSUME HeaderInv, mode = "run", ~committing, NoRoom, CommitAlone
  PROVE  outstanding > 0
<1> SUFFICES ASSUME outstanding = 0 PROVE FALSE
  BY OpsCount
<1>1. Len(lh) = 0
  BY DEF HeaderInv, Up
<1> QED
  BY <1>1 DEF NoRoom

(* Every step keeps a process asleep in begin_op waiting for a commit or   *)
(* for room that an open call will give back (SleepersNeedRoom).           *)
LEMMA SleepStep ==
  Kinds /\ CallInv /\ CommitInv /\ HeaderInv /\ SleepersNeedRoom
    /\ [Next]_vars => SleepersNeedRoom'
<1> SUFFICES ASSUME Kinds, CallInv, CommitInv, HeaderInv, SleepersNeedRoom,
                    [Next]_vars
             PROVE  SleepersNeedRoom'
  OBVIOUS
<1>1. CASE UNCHANGED vars
  BY <1>1 DEF vars, NoRoom, SleepersNeedRoom, At
<1>2. ASSUME NEW p \in Procs, BeginOp(p) PROVE SleepersNeedRoom'
  <2>1. mode = "run" /\ UNCHANGED <<lh, committing, mode>>
    BY <1>2 DEF BeginOp, At
  <2>2. CASE committing \/ NoRoom
    <3>1. outstanding' = outstanding /\ NoRoom' = NoRoom
      BY <1>2, <2>1, <2>2 DEF BeginOp, NoRoom
    <3>2. committing \/ (NoRoom /\ outstanding > 0)
      BY <2>1, <2>2, FirstFits DEF CommitInv
    <3> QED
      BY <2>1, <3>1, <3>2 DEF SleepersNeedRoom
  <2>3. CASE ~committing /\ ~NoRoom
    <3>1. \A q \in Procs : pc[q] # "asleep"
      BY <2>1, <2>3 DEF SleepersNeedRoom, At
    <3>2. \A q \in Procs : pc'[q] # "asleep"
      BY <1>2, <2>3, <3>1 DEF BeginOp, Goto, Kinds
    <3> QED
      BY <3>2 DEF SleepersNeedRoom, At
  <2> QED
    BY <2>2, <2>3
<1>3. ASSUME NEW p \in Procs, LogWrite(p) PROVE SleepersNeedRoom'
  <2>1. PICK b \in Blocks : lh' = Absorb(b)
    BY <1>3 DEF LogWrite, CallInv
  <2>2. Len(lh) \in Nat /\ Len(lh') \in Nat /\ Len(lh') >= Len(lh)
    BY <2>1, AbsorbIs
  <2>3. NoRoom => NoRoom'
    <3> DEFINE r == (outstanding + 1) * MAXOPBLOCKS
    <3>1. r \in Int /\ (outstanding' + 1) * MAXOPBLOCKS = r
      BY <1>3 DEF LogWrite, Kinds
    <3> HIDE DEF r
    <3>2. Len(lh) + r > LOGSIZE => Len(lh') + r > LOGSIZE
      BY <2>2, <3>1
    <3> QED
      BY <3>1, <3>2 DEF NoRoom, r
  <2>4. \A q \in Procs : pc'[q] = "asleep" => pc[q] = "asleep"
    BY <1>3 DEF LogWrite, Goto
  <2> QED
    BY <1>3, <2>3, <2>4 DEF LogWrite, SleepersNeedRoom, At
<1>4. ASSUME NEW p \in Procs, EndOp(p) PROVE SleepersNeedRoom'
  <2>1. p \in InOp
    BY <1>4 DEF EndOp, At, InOp
  <2>2. ~committing
    BY <2>1, Quiet
  <2>3. committing' \/ \A q \in Procs : pc'[q] # "asleep"
    BY <1>4, <2>2 DEF EndOp, WakeLog
  <2> QED
    BY <2>3 DEF SleepersNeedRoom, At
<1>5. ASSUME NEW p \in Procs, Commit(p) PROVE SleepersNeedRoom'
  <2>1. committing /\ committing' = committing
    BY <1>5 DEF Commit, At, CommitInv, Committers
  <2> QED
    BY <2>1 DEF SleepersNeedRoom
<1>6. ASSUME NEW p \in Procs, WriteLog(p) PROVE SleepersNeedRoom'
  <2>1. committing /\ committing' = committing
    BY <1>6 DEF WriteLog, At, CommitInv, Committers
  <2> QED
    BY <2>1 DEF SleepersNeedRoom
<1>7. ASSUME NEW p \in Procs, WriteHead(p) PROVE SleepersNeedRoom'
  <2>1. committing /\ committing' = committing
    BY <1>7 DEF WriteHead, At, CommitInv, Committers
  <2> QED
    BY <2>1 DEF SleepersNeedRoom
<1>8. ASSUME NEW p \in Procs, Install(p) PROVE SleepersNeedRoom'
  <2>1. committing /\ committing' = committing
    BY <1>8 DEF Install, At, CommitInv, Committers
  <2> QED
    BY <2>1 DEF SleepersNeedRoom
<1>9. ASSUME NEW p \in Procs, Erase(p) PROVE SleepersNeedRoom'
  <2>1. committing /\ committing' = committing
    BY <1>9 DEF Erase, At, CommitInv, Committers
  <2> QED
    BY <2>1 DEF SleepersNeedRoom
<1>10. ASSUME NEW p \in Procs, Committed(p) PROVE SleepersNeedRoom'
  <2>1. \A q \in Procs : pc'[q] # "asleep"
    BY <1>10 DEF Committed, WakeLog
  <2> QED
    BY <2>1 DEF SleepersNeedRoom, At
<1>11. ASSUME NEW p \in Procs, NEW b \in Blocks, NEW v \in Vals,
              Modify(p, b, v)
      PROVE  SleepersNeedRoom'
  <2>1. NoRoom' = NoRoom
    BY <1>11 DEF Modify, NoRoom
  <2>2. mode = "run" /\ \A q \in Procs : pc'[q] = "asleep" => pc[q] = "asleep"
    BY <1>11 DEF Modify, At, Goto, Kinds
  <2> QED
    BY <1>11, <2>1, <2>2 DEF Modify, SleepersNeedRoom, At
<1>12. ASSUME NEW b \in Blocks, Recycle(b) PROVE SleepersNeedRoom'
  BY <1>12 DEF Recycle, NoRoom, SleepersNeedRoom, At
<1>13. CASE Crash
  BY <1>13 DEF Crash, SleepersNeedRoom, At
<1>14. CASE ReadHead
  BY <1>14 DEF ReadHead, SleepersNeedRoom, At
<1>15. CASE RecoverInstall
  BY <1>15 DEF RecoverInstall, InstallBlock, SleepersNeedRoom, At
<1>16. CASE RecoverErase
  <2>1. \A q \in Procs : pc'[q] = "idle"
    BY <1>16 DEF RecoverErase, CallInv, Up
  <2> QED
    BY <2>1 DEF SleepersNeedRoom, At
<1> QED
  BY <1>1, <1>2, <1>3, <1>4, <1>5, <1>6, <1>7, <1>8, <1>9, <1>10, <1>11,
     <1>12, <1>13, <1>14, <1>15, <1>16 DEF Next, CommitStep

(* The inductive invariant. *)
LogInv ==
  /\ Kinds /\ CallInv /\ CommitInv /\ HeaderInv /\ InstallInv
  /\ ChangesPinned /\ ReservationHolds /\ BoundInv /\ SleepersNeedRoom

(* A disk made by mkfs and a machine just booted satisfy it. *)
LEMMA LogInvInit == Init => LogInv
<1> SUFFICES ASSUME Init PROVE LogInv
  OBVIOUS
<1>0. /\ Len(lh) = 0 /\ Len(head) = 0
      /\ lh \in Seq(Blocks) /\ head \in Seq(Blocks)
  BY DEF Init
<1>1. Kinds
  <2>1. pc \in [Procs -> PCs] /\ mode = "run"
    BY DEF PCs, Init
  <2>2. held \in [Procs -> SUBSET Blocks] /\ wrote \in [Procs -> SUBSET Blocks]
    BY DEF Init
  <2>3. tail \in Nat /\ outstanding \in Int
    BY DEF Init
  <2>6. committing \in BOOLEAN
    BY Zenon DEF Init
  <2>4. disk \in [Blocks -> Vals] /\ cache \in [Blocks -> Vals]
    BY DEF Init
  <2>5. logarea \in [Slots -> Vals] /\ dirty \subseteq Blocks
    BY DEF Init
  <2> QED
    BY <1>0, <2>1, <2>2, <2>3, <2>4, <2>5, <2>6 DEF Kinds
<1>2. CallInv
  BY FS_EmptySet DEF CallInv, Finite, Up, Init
<1>3. CommitInv
  <2>1. InOp = {}
    BY DEF InOp, Init
  <2> QED
    BY <2>1, FS_EmptySet DEF CommitInv, CommitAlone, Committers, Init
<1>4. HeaderInv
  BY <1>0 DEF HeaderInv, Init
<1>5. InstallInv /\ ChangesPinned /\ SleepersNeedRoom
  BY DEF InstallInv, ChangesPinned, SleepersNeedRoom, At, Init
<1>6. ReservationHolds
  <2>1. Cardinality(Logged) \in Nat
    BY <1>1, <1>2, <1>3, WrittenBound
  <2> QED
    BY <1>0, <2>1 DEF ReservationHolds, Init
<1>7. BoundInv
  BY <1>0 DEF BoundInv, Init
<1> QED
  BY <1>1, <1>2, <1>3, <1>4, <1>5, <1>6, <1>7 DEF LogInv

(* Every step keeps the invariant. *)
LEMMA LogInvStep == LogInv /\ [Next]_vars => LogInv'
BY KindStep, CallStep, CommitsStep, HeaderStep, InstallStep, PinStep,
   ReservationStep, BoundStep, SleepStep DEF LogInv

(* The invariant holds in every state of the log. *)
LEMMA LogInvAlways == Spec => []LogInv
BY LogInvInit, LogInvStep, PTL DEF Spec

(* For any finite number of processes and any sizes: a commit runs with    *)
(* no call open, and a buffer that differs from the disk is locked by the  *)
(* call changing it, or dirty and logged, through any interleaving of      *)
(* calls, commits and crashes (begin_op, log_write, end_op, commit,        *)
(* recover_from_log).                                                      *)
THEOREM LogAlwaysSound == Spec => []LogSound
<1>1. LogInv => LogSound
  BY TypesHold DEF LogInv, CommitInv, LogSound
<1> QED
  BY <1>1, LogInvAlways, PTL

(* For any finite number of processes and any sizes, the reservations of   *)
(* begin_op keep what log_write adds within LOGSIZE, and a process sleeps  *)
(* in begin_op only while it must.                                         *)
THEOREM SpaceAlwaysKept == Spec => []SpaceKept
<1>1. LogInv => SpaceKept
  BY DEF LogInv, SpaceKept
<1> QED
  BY <1>1, LogInvAlways, PTL
-----------------------------------------------------------------------------
(* Of the copies in the log: the ones write_log has passed, and all of     *)
(* them from its end until the header is erased, are what the buffers      *)
(* hold; the header on disk is the one in memory from its write to its     *)
(* erasure, and empty otherwise; it is written only when write_log has     *)
(* found a block in the log for every entry; recovery has brought home the *)
(* copies it has passed.                                                   *)
CopyInv ==
  /\ Len(head) < Nlog
  /\ mode = "panic" => head = <<>>
  /\ mode \in {"install", "erase"} => lh = head
  /\ mode = "install" => \A i \in 1..tail : disk[lh[i]] = logarea[i]
  /\ mode = "erase" => \A i \in 1..Len(lh) : disk[lh[i]] = logarea[i]
  /\ mode = "run" =>
     /\ \A p \in Procs : pc[p] \in {"install", "erase"} => head = lh
     /\ (\A p \in Procs : pc[p] \notin {"install", "erase"}) => head = <<>>
     /\ \A p \in Procs : pc[p] = "write_head" => Len(lh) < Nlog
     /\ \A p \in Procs : pc[p] = "write_log" =>
          \A i \in 1..tail : logarea[i] = cache[lh[i]]
     /\ \A p \in Procs : pc[p] \in {"write_head", "install", "erase"} =>
          \A i \in 1..Len(lh) : logarea[i] = cache[lh[i]]
-----------------------------------------------------------------------------
(* The recovered disk has, for a block of the header, what its copy in     *)
(* the log has, and the disk's contents for any other.                     *)
LEMMA RecoveredIs ==
  ASSUME Kinds, HeaderInv, Len(head) < Nlog
  PROVE  /\ Recovered \in [Blocks -> Vals]
         /\ \A i \in 1..Len(head) : Recovered[head[i]] = logarea[i]
         /\ \A b \in Blocks : ~Listed(head, b) => Recovered[b] = disk[b]
<1>1. Len(head) \in Nat /\ \A i \in 1..Len(head) : head[i] \in Blocks
  BY DEF Kinds
<1>2. \A i \in 1..Len(head) : i \in Slots
  BY <1>1 DEF Slots
<1>3. ASSUME NEW i \in 1..Len(head)
      PROVE  Recovered[head[i]] = logarea[i]
  <2>1. Listed(head, head[i])
    BY DEF Listed
  <2>2. (CHOOSE j \in 1..Len(head) : head[j] = head[i]) = i
    BY DEF HeaderInv
  <2>3. LogBlock(i, disk) = logarea[i]
    BY <1>2 DEF LogBlock
  <2> QED
    BY <1>1, <2>1, <2>2, <2>3 DEF Recovered
<1>4. \A b \in Blocks : ~Listed(head, b) => Recovered[b] = disk[b]
  BY DEF Recovered
<1>5. Recovered \in [Blocks -> Vals]
  <2>1. \A b \in Blocks : Recovered[b] \in Vals
    BY <1>2, <1>3, <1>4 DEF Listed, Kinds
  <2>2. Recovered = [b \in Blocks |-> Recovered[b]]
    BY DEF Recovered
  <2> QED
    BY <2>1, <2>2
<1> QED
  BY <1>3, <1>4, <1>5

(* An empty header recovers the disk as it is. *)
LEMMA EmptyRecovered ==
  ASSUME Kinds, head = <<>>
  PROVE  Recovered = disk
<1>1. \A b \in Blocks : ~Listed(head, b)
  BY DEF Listed
<1> QED
  BY <1>1 DEF Recovered, Kinds

(* install_trans after a commit finds in the log what the buffer holds:    *)
(* it brings it home and changes no buffer.                                *)
LEMMA InstallCopies ==
  ASSUME LogInv, CopyInv, NEW p \in Procs, At(p, "install"), InstallBlock
  PROVE  cache' = cache
<1>1. tail < Len(lh) /\ mode = "run" /\ pc[p] = "install"
  BY DEF LogInv, HeaderInv, At
<1>2. tail + 1 \in 1..Len(lh) /\ lh[tail + 1] \in Blocks /\ Len(lh) \in Nat
  BY <1>1, TailNext DEF LogInv, Kinds
<1>3. tail + 1 \in Slots
  BY <1>1, <1>2 DEF Slots, CopyInv
<1>4. logarea[tail + 1] = cache[lh[tail + 1]]
  BY <1>1, <1>2 DEF CopyInv
<1>5. cache' = [cache EXCEPT ![lh[tail + 1]] = cache[lh[tail + 1]]]
  BY <1>3, <1>4 DEF InstallBlock, LogBlock
<1>6. cache \in [Blocks -> Vals]
  BY DEF LogInv, Kinds
<1> QED
  BY <1>2, <1>5, <1>6

(* A buffer that bget recycles is clean and not locked, so that reading    *)
(* its block again finds what the buffer held.                             *)
LEMMA RecycleSame ==
  ASSUME LogInv, NEW b \in Blocks, Recycle(b)
  PROVE  cache' = cache
<1>1. cache[b] = disk[b]
  BY DEF LogInv, ChangesPinned, Recycle
<1>2. cache \in [Blocks -> Vals]
  BY DEF LogInv, Kinds
<1> QED
  BY <1>1, <1>2 DEF Recycle

(* Every step keeps the copies in the log (CopyInv). *)
LEMMA CopyStep == LogInv /\ Inside /\ CopyInv /\ [Next]_vars => CopyInv'
<1> SUFFICES ASSUME LogInv, Inside, CopyInv, [Next]_vars
             PROVE  CopyInv'
  OBVIOUS
<1>1. CASE UNCHANGED vars
  BY <1>1 DEF vars, CopyInv, Committers
<1>2. ASSUME NEW p \in Procs, BeginOp(p) PROVE CopyInv'
  <2>1. \A q \in Procs : pc'[q] \in Committers => pc'[q] = pc[q]
    BY <1>2 DEF BeginOp, Goto, LogInv, Kinds, Committers
  <2>2. \A q \in Procs : pc[q] \in Committers => pc'[q] = pc[q]
    BY <1>2 DEF BeginOp, At, Goto, LogInv, Kinds, Committers
  <2> QED
    BY <1>2, <2>1, <2>2 DEF BeginOp, CopyInv, Committers
<1>3. ASSUME NEW p \in Procs, LogWrite(p) PROVE CopyInv'
  <2>1. p \in InOp
    BY <1>3 DEF LogWrite, At, InOp
  <2>2. \A q \in Procs : pc[q] \notin Committers
    BY <2>1, Quiet DEF LogInv, Committers
  <2>3. \A q \in Procs :
          pc'[q] \notin {"write_log", "write_head", "install", "erase"}
    BY <1>3, <2>2 DEF LogWrite, Goto, Committers
  <2>4. /\ head = <<>> /\ head' = head
        /\ mode = "run" /\ mode' \in {"run", "panic"}
    BY <1>3, <2>2 DEF LogWrite, At, CopyInv, Committers
  <2> QED
    BY <2>3, <2>4 DEF CopyInv, Committers
<1>4. ASSUME NEW p \in Procs, EndOp(p) PROVE CopyInv'
  <2>1. p \in InOp
    BY <1>4 DEF EndOp, At, InOp
  <2>2. \A q \in Procs : pc[q] \notin Committers
    BY <2>1, Quiet DEF LogInv, Committers
  <2>3. \A q \in Procs :
          pc'[q] \notin {"write_log", "write_head", "install", "erase"}
    BY <1>4, <2>2 DEF EndOp, Goto, WakeLog, LogInv, Kinds, Committers
  <2>4. /\ head = <<>> /\ head' = head
        /\ mode = "run" /\ mode' \in {"run", "panic"}
    BY <1>4, <2>2 DEF EndOp, At, CopyInv, Committers
  <2> QED
    BY <2>3, <2>4 DEF CopyInv, Committers
<1>5. ASSUME NEW p \in Procs, Commit(p) PROVE CopyInv'
  <2>1. \A q \in Procs : pc[q] \in Committers => q = p
    BY <1>5 DEF Commit, At, LogInv, CommitInv, Committers
  <2>2. \A q \in Procs : pc'[q] \in Committers => q = p
    BY <1>5, <2>1 DEF Commit, Goto
  <2>3. tail' = 0 /\ pc'[p] \in {"done", "write_log"} /\ pc[p] = "commit"
    BY <1>5 DEF Commit, At, Goto, LogInv, Kinds, Committers
  <2> QED
    BY <1>5, <2>1, <2>2, <2>3 DEF Commit, At, CopyInv, Committers
<1>6. ASSUME NEW p \in Procs, WriteLog(p) PROVE CopyInv'
  <2>1. \A q \in Procs : pc[q] \in Committers => q = p
    BY <1>6 DEF WriteLog, At, LogInv, CopyInv, CommitInv, Committers
  <2>2. \A q \in Procs : pc'[q] \in Committers => q = p
    BY <1>6, <2>1 DEF WriteLog, Goto
  <2>3. tail + 1 \in 1..Len(lh) /\ Len(lh) \in Nat /\ lh[tail + 1] \in Blocks
    BY <1>6, TailNext DEF WriteLog, At, LogInv, CopyInv, HeaderInv, Committers
  <2>4. tail + 1 \in Slots
    BY <1>6 DEF WriteLog, At, Inside
  <2>5. /\ logarea' = [logarea EXCEPT ![tail + 1] = cache[lh[tail + 1]]]
        /\ UNCHANGED <<cache, head, lh, mode>>
    BY <1>6, <2>4 DEF WriteLog
  <2>6. pc[p] = "write_log" /\ mode = "run"
    BY <1>6 DEF WriteLog, At
  <2>7. \A i \in 1..tail + 1 : logarea'[i] = cache[lh[i]]
    <3> TAKE i \in 1..tail + 1
    <3>1. i \in Slots
      BY <2>4 DEF Slots
    <3>2. i = tail + 1 \/ i \in 1..tail
      BY DEF LogInv, Kinds, HeaderInv, Committers
    <3> QED
      BY <2>4, <2>5, <2>6, <3>1, <3>2 DEF LogInv, CopyInv, Kinds, HeaderInv,
         Committers
  <2>8. tail' = IF tail + 1 = Len(lh) THEN 0 ELSE tail + 1
    BY <1>6, <2>3, TailNext DEF WriteLog, At, Kinds, HeaderInv,
       Committers
  <2>9. pc'[p] = IF tail + 1 = Len(lh) THEN "write_head" ELSE "write_log"
    BY <1>6 DEF WriteLog, Goto, LogInv, CopyInv, Kinds, HeaderInv, Committers
  <2>10. head = <<>>
    BY <2>1, <2>6 DEF LogInv, CopyInv, HeaderInv, Committers
  <2>11. pc'[p] = "write_log" => \A i \in 1..tail' : logarea'[i] = cache[lh[i]]
    BY <2>7, <2>8, <2>9
  <2>12. pc'[p] = "write_head" =>
           \A i \in 1..Len(lh) : logarea'[i] = cache[lh[i]]
    BY <2>7, <2>9
  <2>13. pc'[p] = "write_head" => Len(lh) < Nlog
    BY <2>3, <2>4, <2>9 DEF Slots
  <2> QED
    BY <2>2, <2>5, <2>6, <2>9, <2>10, <2>11, <2>12, <2>13
       DEF CopyInv, Committers
<1>7. ASSUME NEW p \in Procs, WriteHead(p) PROVE CopyInv'
  <2>1. \A q \in Procs : pc[q] \in Committers => q = p
    BY <1>7 DEF WriteHead, At, LogInv, CopyInv, Kinds, CommitInv, HeaderInv,
       Committers
  <2>2. \A q \in Procs : pc'[q] \in Committers => q = p
    BY <1>7, <2>1 DEF WriteHead, Goto
  <2>3. pc[p] = "write_head" /\ pc'[p] = "install" /\ head' = lh
    BY <1>7 DEF WriteHead, At, Goto, LogInv, CopyInv, Kinds, HeaderInv,
       Committers
  <2> QED
    BY <1>7, <2>2, <2>3 DEF WriteHead, At, LogInv, CopyInv, Kinds,
       HeaderInv, Committers
<1>8. ASSUME NEW p \in Procs, Install(p) PROVE CopyInv'
  <2>1. \A q \in Procs : pc[q] \in Committers => q = p
    BY <1>8 DEF Install, At, LogInv, CopyInv, Kinds, CommitInv, HeaderInv,
       Committers
  <2>2. \A q \in Procs : pc'[q] \in Committers => q = p
    BY <1>8, <2>1 DEF Install, Goto
  <2>3. tail + 1 \in 1..Len(lh) /\ Len(lh) \in Nat /\ lh[tail + 1] \in Blocks
    BY <1>8, TailNext DEF Install, At, LogInv, CopyInv, Kinds, HeaderInv,
       Committers
  <2>4. pc[p] = "install" /\ mode = "run" /\ pc'[p] \in {"install", "erase"}
    BY <1>8 DEF Install, At, Goto
  <2>5. cache' = cache
    BY <1>8, InstallCopies DEF Install, At
  <2>6. UNCHANGED <<logarea, head, lh, mode>>
    BY <1>8 DEF Install
  <2> QED
    BY <2>2, <2>4, <2>5, <2>6 DEF LogInv, CopyInv, Kinds, HeaderInv,
       Committers
<1>9. ASSUME NEW p \in Procs, Erase(p) PROVE CopyInv'
  <2>1. \A q \in Procs : pc[q] \in Committers => q = p
    BY <1>9 DEF Erase, At, LogInv, CopyInv, Kinds, CommitInv, HeaderInv,
       Committers
  <2>2. \A q \in Procs : pc'[q] \in Committers => q = p
    BY <1>9, <2>1 DEF Erase, Goto
  <2>3. pc'[p] = "done" /\ head' = <<>> /\ mode' = "run"
    BY <1>9 DEF Erase, At, Goto, LogInv, CopyInv, Kinds, HeaderInv, Committers
  <2> QED
    BY <2>2, <2>3 DEF LogInv, CopyInv, Kinds, HeaderInv, Committers
<1>10. ASSUME NEW p \in Procs, Committed(p) PROVE CopyInv'
  <2>1. \A q \in Procs : pc[q] \in Committers => q = p
    BY <1>10 DEF Committed, At, LogInv, CopyInv, Kinds, CommitInv, HeaderInv,
       Committers
  <2>2. \A q \in Procs : pc'[q] \notin Committers
    BY <1>10, <2>1, SMTT(30) DEF Committed, WakeLog, HeaderInv, Committers
  <2>3. head = <<>> /\ head' = head /\ mode' = "run"
    BY <1>10, <2>1, Zenon DEF Committed, At, CopyInv, Kinds, CommitInv,
      HeaderInv, Committers
  <2> QED
    BY <2>2, <2>3 DEF LogInv, CopyInv, Kinds, HeaderInv, Committers
<1>11. ASSUME NEW p \in Procs, NEW b \in Blocks, NEW v \in Vals,
              Modify(p, b, v)
      PROVE  CopyInv'
  <2>1. p \in InOp
    BY <1>11 DEF Modify, At, InOp, LogInv, CopyInv, Kinds, HeaderInv,
       Committers
  <2>2. \A q \in Procs : pc[q] \notin Committers
    BY <2>1, Quiet DEF LogInv, CopyInv, Kinds, CommitInv, HeaderInv,
       Committers
  <2>3. \A q \in Procs :
          pc'[q] \notin {"write_log", "write_head", "install", "erase"}
    BY <1>11, <2>2 DEF Modify, Goto, LogInv, CopyInv, Kinds, CommitInv,
       HeaderInv, Committers
  <2>4. /\ head = <<>> /\ head' = head
        /\ mode = "run" /\ mode' \in {"run", "panic"}
    BY <1>11, <2>2 DEF Modify, At, LogInv, CopyInv, Kinds, CommitInv,
       HeaderInv, Committers
  <2> QED
    BY <2>3, <2>4, Zenon DEF CopyInv, Kinds, CommitInv, HeaderInv, Committers
<1>12. ASSUME NEW b \in Blocks, Recycle(b) PROVE CopyInv'
  <2>1. cache' = cache
    BY <1>12, RecycleSame
  <2> QED
    BY <1>12, <2>1 DEF Recycle, LogInv, CopyInv, Kinds, HeaderInv, Committers
<1>13. CASE Crash
  BY <1>13 DEF Crash, LogInv, CopyInv, Kinds, CommitInv, HeaderInv, Committers
<1>14. CASE ReadHead
  <2>1. tail' = 0 /\ lh' = head /\ head' = head
    BY <1>14 DEF ReadHead, LogInv, CopyInv, HeaderInv, Committers
  <2>2. mode' = "erase" => lh' = <<>>
    BY <1>14 DEF ReadHead
  <2>3. mode' \in {"install", "erase"}
    BY <1>14 DEF ReadHead
  <2> QED
    BY <2>1, <2>2, <2>3 DEF LogInv, CopyInv, Kinds, CommitInv, HeaderInv,
       Committers
<1>15. CASE RecoverInstall
  <2>1. tail + 1 \in 1..Len(lh) /\ Len(lh) \in Nat /\ lh[tail + 1] \in Blocks
    BY <1>15, TailNext DEF RecoverInstall, LogInv, CopyInv, Kinds, CommitInv,
       HeaderInv, Committers
  <2>2. tail + 1 \in Slots /\ lh = head
    BY <1>15, <2>1 DEF RecoverInstall, Slots, CopyInv, HeaderInv, Committers
  <2>3. disk' = [disk EXCEPT ![lh[tail + 1]] = logarea[tail + 1]]
    BY <1>15, <2>2 DEF RecoverInstall, InstallBlock, LogBlock, CopyInv,
       HeaderInv, Committers
  <2>4. \A i \in 1..tail + 1 : disk'[lh[i]] = logarea[i]
    <3> TAKE i \in 1..tail + 1
    <3>1. i \in 1..Len(lh) /\ lh[i] \in Blocks
      BY <2>1 DEF LogInv, CopyInv, Kinds, HeaderInv, Committers
    <3>2. i = tail + 1 \/ (i \in 1..tail /\ lh[i] # lh[tail + 1])
      BY <2>1, <3>1 DEF LogInv, CopyInv, Kinds, HeaderInv, Committers
    <3> QED
      BY <1>15, <2>1, <2>3, <3>1, <3>2 DEF RecoverInstall, LogInv, CopyInv,
         Kinds, HeaderInv, Committers
  <2>5. tail' = IF tail + 1 = Len(lh) THEN 0 ELSE tail + 1
    BY <1>15, <2>1, InstallIs DEF RecoverInstall, LogInv, CopyInv, CommitInv,
       HeaderInv, Committers
  <2>6. mode' = IF tail + 1 = Len(lh) THEN "erase" ELSE "install"
    BY <1>15 DEF RecoverInstall, HeaderInv, Committers
  <2>7. UNCHANGED <<logarea, head, lh>>
    BY <1>15 DEF RecoverInstall
  <2>8. mode' = "install" => \A i \in 1..tail' : disk'[lh[i]] = logarea[i]
    BY <2>4, <2>5, <2>6 DEF HeaderInv, Committers
  <2>9. mode' = "erase" => \A i \in 1..Len(lh) : disk'[lh[i]] = logarea[i]
    BY <2>4, <2>6, SMTT(30) DEF LogInv, CopyInv, Kinds, HeaderInv, Committers
  <2> QED
    BY <2>2, <2>6, <2>7, <2>8, <2>9 DEF LogInv, CopyInv, Kinds, CommitInv,
       HeaderInv, Committers
<1>16. CASE RecoverErase
  <2>1. \A q \in Procs : pc'[q] = "idle"
    BY <1>16 DEF RecoverErase, CallInv, Up, LogInv, CopyInv, Kinds, CommitInv,
       HeaderInv, Committers
  <2>2. head' = <<>> /\ mode' = "run"
    BY <1>16 DEF RecoverErase
  <2> QED
    BY <2>1, <2>2 DEF LogInv, CopyInv, Kinds, CommitInv, HeaderInv, Committers
<1> QED
  BY <1>1, <1>2, <1>3, <1>4, <1>5, <1>6, <1>7, <1>8, <1>9, <1>10, <1>11,
     <1>12, <1>13, <1>14, <1>15, <1>16 DEF Next, CommitStep

(* What the file system sees: the buffers, or the recovered disk while     *)
(* the machine boots.                                                      *)
Mem == IF mode \in {"run", "panic"} THEN cache ELSE Recovered

(* Once every copy is home the header recovers the disk as it is: erasing  *)
(* it changes nothing.                                                     *)
LEMMA InstalledRecovered ==
  ASSUME Kinds, HeaderInv, Len(head) < Nlog,
         \A i \in 1..Len(head) : disk[head[i]] = logarea[i]
  PROVE  Recovered = disk
<1>1. ASSUME NEW b \in Blocks PROVE Recovered[b] = disk[b]
  BY RecoveredIs DEF Listed
<1> QED
  BY <1>1, RecoveredIs DEF Kinds

(* A step that leaves the log and its header alone and writes only blocks  *)
(* that the header lists leaves the recovered disk as it is.               *)
LEMMA SameRecovered ==
  ASSUME Kinds, HeaderInv, Len(head) < Nlog,
         UNCHANGED <<head, logarea>>,
         \A b \in Blocks : ~Listed(head, b) => disk'[b] = disk[b]
  PROVE  Recovered' = Recovered
<1>1. Len(head) \in Nat
  BY DEF Kinds
<1>2. ASSUME NEW b \in Blocks, Listed(head, b)
      PROVE  LogBlock(CHOOSE i \in 1..Len(head) : head[i] = b, disk)'
               = LogBlock(CHOOSE i \in 1..Len(head) : head[i] = b, disk)
  <2>1. (CHOOSE i \in 1..Len(head) : head[i] = b) \in 1..Len(head)
    BY <1>2 DEF Listed
  <2>2. (CHOOSE i \in 1..Len(head) : head[i] = b) \in Slots
    BY <1>1, <2>1 DEF Slots
  <2> QED
    BY <2>2 DEF LogBlock
<1> QED
  BY <1>2 DEF Recovered

(* Most steps of log.c (begin_op, log_write, end_op, a change of a buffer,   *)
(* a crash) leave the disk, the header and the log's blocks alone, and so    *)
(* what a restart would find.                                                *)
LEMMA QuietRecovered ==
  ASSUME disk' = disk, head' = head, logarea' = logarea
  PROVE  Recovered' = Recovered
  BY DEF Recovered, LogBlock

(* Every step of log.c is a step of the atomic disk or leaves it alone:    *)
(* write_head is its commit, Modify its write, Crash its crash.            *)
LEMMA AtomicStep ==
  LogInv /\ Inside /\ CopyInv /\ CopyInv' /\ [Next]_vars
    => [Abs!Next]_(Abs!vars)
<1> SUFFICES ASSUME LogInv, Inside, CopyInv, CopyInv', [Next]_vars
             PROVE  [Abs!Next]_(Abs!vars)
  OBVIOUS
<1>0. Kinds'
  BY KindStep DEF LogInv
<1>b. HeaderInv' /\ (Len(head) < Nlog)'
  BY HeaderStep DEF LogInv, CopyInv
<1>c. /\ (Recovered \in [Blocks -> Vals])'
      /\ (\A i \in 1..Len(head) : Recovered[head[i]] = logarea[i])'
      /\ (\A b \in Blocks : ~Listed(head, b) => Recovered[b] = disk[b])'
  BY <1>0, <1>b, RecoveredIs, PTL
<1>a. (head = <<>>)' => (Recovered = disk)'
  BY <1>0, EmptyRecovered, PTL
<1>d. Kinds /\ HeaderInv /\ Len(head) < Nlog
  BY DEF LogInv, CopyInv
<1>1. CASE UNCHANGED vars
  <2>1. Recovered' = Recovered /\ InOp' = InOp
    BY <1>1, QuietRecovered DEF vars, InOp
  <2>2. Mem' = Mem
    BY <1>1, <2>1 DEF vars, Mem
  <2> QED
    BY <2>1, <2>2, Zenon DEF Mem, Abs!vars
<1>2. ASSUME NEW p \in Procs, BeginOp(p) PROVE [Abs!Next]_(Abs!vars)
  <2>1. Recovered' = Recovered
    BY <1>2, QuietRecovered DEF BeginOp
  <2>2. Mem' = Mem
    BY <1>2, <2>1 DEF BeginOp, Mem
  <2>3. CASE committing \/ NoRoom
    <3>1. InOp' = InOp
      BY <1>2, <2>3 DEF BeginOp, At, Goto, InOp, LogInv, Kinds
    <3> QED
      BY <2>1, <2>2, <3>1, Zenon DEF Mem, Abs!vars
  <2>4. CASE ~committing /\ ~NoRoom
    <3>1. p \notin InOp /\ InOp' = InOp \cup {p}
      BY <1>2, <2>4 DEF BeginOp, At, Goto, InOp, LogInv, Kinds
    <3>2. Abs!Begin(p)
      BY <2>1, <2>2, <3>1 DEF Mem, Abs!Begin
    <3> QED
      BY <3>2, Zenon DEF Abs!Next
  <2> QED
    BY <2>3, <2>4
<1>3. ASSUME NEW p \in Procs, LogWrite(p) PROVE [Abs!Next]_(Abs!vars)
  <2>1. InOp' = InOp
    <3>1. pc[p] = "log_write" /\ pc' = [pc EXCEPT ![p] = "op"]
      BY <1>3 DEF LogWrite, At, Goto
    <3> QED
      BY <1>d, <3>1 DEF InOp, Kinds
  <2>2. Recovered' = Recovered
    BY <1>3, QuietRecovered DEF LogWrite
  <2>3. Mem' = Mem
    BY <1>3, <2>2 DEF LogWrite, At, Goto, Mem
  <2> QED
    BY <2>1, <2>2, <2>3, Zenon DEF Mem, Abs!vars
<1>4. ASSUME NEW p \in Procs, EndOp(p) PROVE [Abs!Next]_(Abs!vars)
  <2>1. Recovered' = Recovered
    BY <1>4, QuietRecovered DEF EndOp
  <2>2. p \in InOp /\ mode = "run"
    BY <1>4 DEF EndOp, At, InOp
  <2>3. ~committing
    BY <2>2, OpsCount DEF LogInv, CommitInv
  <2>4. Mem' = Mem
    BY <1>4, <2>2, <2>3 DEF EndOp, Mem
  <2>5. InOp' = InOp \ {p}
    BY <1>4, <2>3 DEF EndOp, Goto, WakeLog, InOp, LogInv, Kinds
  <2>6. Abs!End(p)
    BY <2>1, <2>2, <2>4, <2>5 DEF Mem, Abs!End
  <2> QED
    BY <2>6, Zenon DEF Abs!Next
<1>5. ASSUME NEW p \in Procs, Commit(p) PROVE [Abs!Next]_(Abs!vars)
  <2>1. InOp' = InOp
    BY <1>5 DEF Commit, At, Goto, InOp
  <2>2. Recovered' = Recovered
    BY <1>5, QuietRecovered DEF Commit
  <2>3. Mem' = Mem
    BY <1>5, <2>2 DEF Commit, At, Goto, Mem
  <2> QED
    BY <2>1, <2>2, <2>3, Zenon DEF Mem, Abs!vars
<1>6. ASSUME NEW p \in Procs, WriteLog(p) PROVE [Abs!Next]_(Abs!vars)
  <2>1. tail + 1 \in 1..Len(lh) /\ Len(lh) \in Nat
    BY <1>6, TailNext DEF WriteLog, At, LogInv, HeaderInv
  <2>2. tail + 1 \in Slots
    BY <1>6 DEF WriteLog, At, Inside
  <2>3. UNCHANGED <<cache, disk, head, mode>> /\ mode = "run"
    BY <1>6, <2>2 DEF WriteLog, At
  <2>4. InOp' = InOp
    BY <1>6 DEF WriteLog, At, Goto, InOp
  <2>5. head = <<>>
    BY <1>6 DEF WriteLog, At, LogInv, CopyInv, CommitInv, Committers
  <2>6. Recovered = disk /\ Recovered' = disk'
    BY <1>a, <2>3, <2>5, EmptyRecovered DEF LogInv
  <2>7. Mem' = Mem
    BY <2>3 DEF Mem
  <2> QED
    BY <2>3, <2>4, <2>6, <2>7, Zenon DEF Mem, Abs!vars
<1>7. ASSUME NEW p \in Procs, WriteHead(p) PROVE [Abs!Next]_(Abs!vars)
  <2>1. pc[p] = "write_head" /\ mode = "run" /\ committing
    BY <1>7 DEF WriteHead, At, LogInv, CommitInv, Committers
  <2>2. UNCHANGED <<cache, disk, logarea, mode>> /\ head' = lh
    BY <1>7 DEF WriteHead
  <2>3. InOp = {}
    BY <2>1, Quiet DEF LogInv
  <2>4. InOp' = InOp
    BY <1>7 DEF WriteHead, At, Goto, InOp
  <2>5. Mem = cache /\ Mem' = cache
    BY <2>1, <2>2, SMTT(30) DEF Mem
  <2>6. Recovered' = cache
    <3>1. \A q \in Procs : held[q] = {}
      BY <2>3, Quiet, SMTT(30) DEF LogInv
    <3>2. ASSUME NEW b \in Blocks PROVE Recovered'[b] = cache[b]
      <4>1. CASE Listed(lh, b)
        <5>1. PICK i \in 1..Len(lh) : lh[i] = b
          BY <4>1 DEF Listed
        <5>2. Recovered'[lh[i]] = logarea[i]
          BY <1>c, <2>2, <5>1
        <5> QED
          BY <2>1, <5>1, <5>2, Zenon DEF CopyInv
      <4>2. CASE ~Listed(lh, b)
        <5>1. Recovered'[b] = disk[b]
          BY <1>c, <2>2, <4>2
        <5>2. cache[b] = disk[b]
          BY <2>1, <3>1, <4>2 DEF ChangesPinned, LogInv
        <5> QED
          BY <5>1, <5>2
      <4> QED
        BY <4>1, <4>2, SMTT(30)
    <3> QED
      BY <1>c, <3>2 DEF LogInv, Kinds
  <2>7. Abs!Commit
    BY <2>3, <2>4, <2>5, <2>6 DEF Mem, Abs!Commit
  <2> QED
    BY <2>7, Zenon DEF Abs!Next
<1>8. ASSUME NEW p \in Procs, Install(p) PROVE [Abs!Next]_(Abs!vars)
  <2>1. cache' = cache
    BY <1>8, InstallCopies DEF Install
  <2>2. mode = "run" /\ head = lh /\ UNCHANGED <<head, logarea, mode>>
    BY <1>8 DEF Install, At, CopyInv
  <2>3. InOp' = InOp
    BY <1>8 DEF Install, At, Goto, InOp
  <2>4. lh[tail + 1] \in Blocks /\ tail + 1 \in 1..Len(lh)
    BY <1>8, TailNext DEF Install, At, LogInv, HeaderInv
  <2>5. \A b \in Blocks : ~Listed(head, b) => disk'[b] = disk[b]
    BY <1>8, <2>2, <2>4 DEF Install, InstallBlock, Listed
  <2>6. Recovered' = Recovered
    BY <1>d, <2>2, <2>5, SameRecovered, Zenon
  <2>7. Mem' = Mem
    BY <2>1, <2>2 DEF Mem
  <2> QED
    BY <2>3, <2>6, <2>7, Zenon DEF Mem, Abs!vars
<1>9. ASSUME NEW p \in Procs, Erase(p) PROVE [Abs!Next]_(Abs!vars)
  <2>1. mode = "run" /\ head = lh /\ UNCHANGED <<cache, disk, mode>>
    BY <1>9 DEF Erase, At, CopyInv
  <2>2. InOp' = InOp
    BY <1>9, SMTT(30) DEF Erase, At, Goto, InOp
  <2>3. \A i \in 1..Len(head) : disk[head[i]] = logarea[i]
    BY <1>9, <2>1 DEF Erase, At, InstallInv, LogInv, CopyInv, Kinds
  <2>4. Recovered = disk
    BY <1>d, <2>3, InstalledRecovered, Zenon
  <2>5. Recovered' = disk'
    BY <1>9, <1>a DEF Erase
  <2>6. Mem' = Mem
    BY <2>1 DEF Mem
  <2> QED
    BY <2>1, <2>2, <2>4, <2>5, <2>6, Zenon DEF Mem, Abs!vars
<1>10. ASSUME NEW p \in Procs, Committed(p) PROVE [Abs!Next]_(Abs!vars)
  <2>1. InOp' = InOp
    BY <1>10 DEF Committed, At, WakeLog, InOp
  <2>2. Recovered' = Recovered
    BY <1>10, QuietRecovered DEF Committed
  <2>3. Mem' = Mem
    BY <1>10, <2>2 DEF Committed, At, WakeLog, Mem
  <2> QED
    BY <2>1, <2>2, <2>3, Zenon DEF Mem, Abs!vars
<1>11. ASSUME NEW p \in Procs, NEW b \in Blocks, NEW v \in Vals,
              Modify(p, b, v)
      PROVE  [Abs!Next]_(Abs!vars)
  <2>1. Recovered' = Recovered
    BY <1>11, QuietRecovered DEF Modify
  <2>0. /\ pc[p] = "op" /\ mode = "run" /\ mode' \in {"run", "panic"}
        /\ pc' = pc \/ pc' = [pc EXCEPT ![p] = "log_write"]
    BY <1>11, <1>d DEF Modify, At, Goto
  <2>2. p \in InOp /\ InOp' = InOp
    BY <1>d, <2>0 DEF InOp, Kinds
  <2>3. Mem = cache /\ Mem' = cache'
    BY <2>0 DEF Mem
  <2>4. Abs!Write(p, b, v)
    BY <1>11, <2>1, <2>2, <2>3, Zenon DEF Modify, Mem, Abs!Write
  <2> QED
    BY <2>4, Zenon DEF Abs!Next
<1>12. ASSUME NEW b \in Blocks, Recycle(b) PROVE [Abs!Next]_(Abs!vars)
  <2>1. cache' = cache
    BY <1>12, RecycleSame, SMTT(30)
  <2>2. Recovered' = Recovered /\ InOp' = InOp
    BY <1>12, QuietRecovered DEF Recycle, InOp
  <2>3. Mem' = Mem
    BY <1>12, <2>1 DEF Recycle, Mem
  <2> QED
    BY <2>1, <2>2, <2>3, Zenon DEF Mem, Abs!vars
<1>13. CASE Crash
  <2>1. Recovered' = Recovered
    BY <1>13, QuietRecovered DEF Crash
  <2>2. Mem' = Recovered
    BY <1>13, <2>1 DEF Crash, Mem
  <2>3. InOp' = {}
    BY <1>13 DEF Crash, InOp
  <2>4. Abs!Crash
    BY <2>1, <2>2, <2>3 DEF Mem, Abs!Crash
  <2> QED
    BY <2>4, Zenon DEF Abs!Next
<1>14. CASE ReadHead
  <2>1. InOp' = InOp
    BY <1>14 DEF ReadHead, InOp
  <2>2. Recovered' = Recovered
    BY <1>14, QuietRecovered DEF ReadHead
  <2>3. Mem' = Mem
    BY <1>14, <2>2 DEF ReadHead, Mem
  <2> QED
    BY <2>1, <2>2, <2>3, Zenon DEF Mem, Abs!vars
<1>15. CASE RecoverInstall
  <2>1. InOp' = InOp /\ head = lh /\ UNCHANGED <<head, logarea>>
    BY <1>15 DEF RecoverInstall, InOp, CopyInv
  <2>2. lh[tail + 1] \in Blocks /\ tail + 1 \in 1..Len(lh)
    BY <1>15, TailNext DEF RecoverInstall, LogInv, HeaderInv
  <2>3. \A b \in Blocks : ~Listed(head, b) => disk'[b] = disk[b]
    BY <1>15, <2>1, <2>2 DEF RecoverInstall, InstallBlock, Listed
  <2>4. Recovered' = Recovered
    BY <1>d, <2>1, <2>3, SameRecovered, Zenon
  <2>5. Mem' = Mem
    BY <1>15, <2>4 DEF RecoverInstall, Mem
  <2> QED
    BY <2>1, <2>4, <2>5, Zenon DEF Mem, Abs!vars
<1>16. CASE RecoverErase
  <2>1. head = lh /\ InOp' = InOp /\ UNCHANGED <<disk, cache>>
    BY <1>16 DEF RecoverErase, InOp, CopyInv
  <2>2. Recovered = disk
    <3>1. \A i \in 1..Len(head) : disk[head[i]] = logarea[i]
      BY <1>16, <2>1 DEF RecoverErase, CopyInv
    <3> QED
      BY <1>d, <3>1, InstalledRecovered, Zenon
  <2>3. Recovered' = disk'
    BY <1>16, <1>a DEF RecoverErase
  <2>4. cache = disk
    BY <1>16 DEF RecoverErase, InstallInv, Up, LogInv
  <2>5. Mem' = Mem
    BY <1>16, <2>1, <2>2, <2>4 DEF RecoverErase, Mem
  <2> QED
    BY <2>1, <2>2, <2>3, <2>5, Zenon DEF Mem, Abs!vars
<1> QED
  BY <1>1, <1>2, <1>3, <1>4, <1>5, <1>6, <1>7, <1>8, <1>9, <1>10, <1>11,
     <1>12, <1>13, <1>14, <1>15, <1>16 DEF Next, CommitStep

(* What mkfs leaves satisfies CopyInv. *)
LEMMA CopyInit == Init => CopyInv
<1> SUFFICES ASSUME Init PROVE CopyInv
  OBVIOUS
<1>1. Len(head) = 0 /\ head = <<>> /\ mode = "run"
  BY DEF Init
<1>2. \A p \in Procs : pc[p] = "idle"
  BY DEF Init
<1> QED
  BY <1>1, <1>2 DEF CopyInv

(* The initial states are initial states of the atomic disk. *)
LEMMA AtomicInit == Init => Abs!Init
<1> SUFFICES ASSUME Init PROVE Abs!Init
  OBVIOUS
<1>1. Kinds /\ head = <<>>
  BY LogInvInit DEF Init, LogInv
<1>2. Recovered = disk
  BY <1>1, EmptyRecovered
<1>3. InOp = {}
  BY DEF Init, InOp
<1> QED
  BY <1>2, <1>3 DEF Init, Abs!Init

(* While every entry that write_log comes to has its block in the log,     *)
(* log.c implements atomic transactions: wherever crashes fall, in         *)
(* commit() or in recovery itself, the recovered disk is the one of the    *)
(* last header write.                                                      *)
LEMMA InsideIsAtomic == Spec /\ []Inside => Abs!Spec
<1>1. Spec /\ []Inside => []CopyInv
  BY CopyInit, CopyStep, LogInvAlways, PTL DEF Spec
<1> QED
  BY <1>1, AtomicInit, AtomicStep, LogInvAlways, PTL DEF Spec, Abs!Spec

(* Until the overrun that log_write()'s unlocked test admits, write_log    *)
(* stays inside the log and the copies in it are right.                    *)
HistInv == LogInv /\ (~overran => Inside /\ CopyInv)

(* It holds of a disk made by mkfs and is kept by every step. *)
LEMMA HistStep ==
  /\ HistInit => HistInv
  /\ HistInv /\ [HistNext]_histvars => HistInv'
<1>1. ASSUME HistInit PROVE HistInv
  <2>1. Init /\ ~overran
    BY <1>1 DEF HistInit
  <2>2. Inside
    BY <2>1 DEF Init, Inside
  <2> QED
    BY <2>1, <2>2, LogInvInit, CopyInit DEF HistInv
<1>2. ASSUME HistInv, [HistNext]_histvars PROVE HistInv'
  <2>1. [Next]_vars
    BY <1>2 DEF HistNext, histvars
  <2>2. LogInv'
    BY <1>2, <2>1, LogInvStep DEF HistInv
  <2>3. ASSUME ~overran' PROVE ~overran /\ Inside'
    <3>1. CASE UNCHANGED histvars
      BY <1>2, <2>3, <3>1 DEF HistInv, histvars, vars, Inside
    <3>2. CASE HistNext
      BY <2>3, <3>2, Zenon DEF HistNext
    <3> QED
      BY <1>2, <3>1, <3>2
  <2>4. ~overran' => CopyInv'
    BY <1>2, <2>1, <2>3, CopyStep DEF HistInv
  <2> QED
    BY <2>2, <2>3, <2>4 DEF HistInv
<1> QED
  BY <1>1, <1>2

(* On the disk that mkfs makes, with Nlog = LOGSIZE, and with the unlocked *)
(* test of log_write(): until write_log() comes to an entry without a      *)
(* block, log.c implements atomic transactions wherever crashes fall, for  *)
(* any finite number of processes, any blocks and contents.                *)
THEOREM LogIsAtomic == HistSpec => Atomic
<1>1. HistSpec => []HistInv
  BY HistStep, PTL DEF HistSpec
<1>2. HistInit => Abs!Init
  BY AtomicInit DEF HistInit
<1>3. HistInv /\ HistInv' /\ [HistNext]_histvars
        => [Abs!Next \/ overran']_(Abs!vars)
  <2> SUFFICES ASSUME HistInv, HistInv', [HistNext]_histvars, ~overran'
               PROVE  [Abs!Next]_(Abs!vars)
    OBVIOUS
  <2>1. [Next]_vars
    BY DEF HistNext, histvars
  <2>2. ~overran
    BY Zenon DEF HistNext, histvars
  <2> QED
    BY <2>1, <2>2, AtomicStep DEF HistInv
<1> QED
  BY <1>1, <1>2, <1>3, PTL DEF HistSpec, Atomic

-----------------------------------------------------------------------------
(* At most one call is between log_write()'s test and its acquire(). *)
OneTests == \A p, q \in Procs :
              pc[p] = "log_write" /\ pc[q] = "log_write" => p = q

(* The header has a block in the log for each entry, and for one more      *)
(* while a call has passed log_write()'s test.                             *)
RoomInv ==
  /\ Len(lh) < Nlog /\ Len(head) < Nlog
  /\ \A p \in Procs : pc[p] = "log_write" => Len(lh) < Nlog - 1

(* A disk made by mkfs has room. *)
LEMMA RoomInit == Init => RoomInv
<1> SUFFICES ASSUME Init PROVE RoomInv
  OBVIOUS
<1>1. Len(lh) = 0 /\ Len(head) = 0 /\ \A p \in Procs : pc[p] = "idle"
  BY DEF Init
<1> QED
  BY <1>1 DEF RoomInv

(* With one call at a time between test and acquire(), no step takes more  *)
(* than the log has: log_write() adds the block its test left room for.    *)
LEMMA RoomStep == LogInv /\ OneTests /\ RoomInv /\ [Next]_vars => RoomInv'
<1> SUFFICES ASSUME LogInv, OneTests, RoomInv, [Next]_vars
             PROVE  RoomInv'
  OBVIOUS
<1>a. Len(lh) \in Nat /\ pc \in [Procs -> PCs]
  BY DEF LogInv, Kinds
<1>b. ASSUME Len(lh') = Len(lh) \/ lh' = <<>>,
             head' \in {head, lh, <<>>},
             \A q \in Procs : pc'[q] = "log_write" => pc[q] = "log_write"
      PROVE  RoomInv'
  BY <1>a, <1>b DEF RoomInv
<1>1. CASE UNCHANGED vars
  BY <1>1, <1>b DEF vars
<1>2. ASSUME NEW p \in Procs, BeginOp(p) PROVE RoomInv'
  BY <1>2, <1>a, <1>b, SMTT(30) DEF BeginOp, Goto
<1>3. ASSUME NEW p \in Procs, LogWrite(p) PROVE RoomInv'
  <2>1. pc[p] = "log_write" /\ Len(lh) < Nlog - 1
    BY <1>3 DEF LogWrite, At, RoomInv
  <2>2. \A q \in Procs : pc'[q] # "log_write"
    BY <1>3, <1>a, <2>1 DEF LogWrite, Goto, OneTests
  <2>3. PICK b \in held[p] : lh' = Absorb(b)
    BY <1>3 DEF LogWrite
  <2>4. Len(lh') <= Len(lh) + 1
    BY <1>a, <2>3 DEF Absorb, LogInv, Kinds
  <2>5. Len(lh') \in Nat /\ head' = head
    BY <1>3, KindStep DEF LogWrite, LogInv, Kinds
  <2>6. Len(lh') < Nlog
    BY <1>a, <2>1, <2>4, <2>5
  <2>7. Len(head') < Nlog
    BY <2>5 DEF RoomInv
  <2> QED
    BY <2>2, <2>6, <2>7, Zenon DEF RoomInv
<1>4. ASSUME NEW p \in Procs, EndOp(p) PROVE RoomInv'
  <2>1. \A q \in Procs : pc'[q] = "log_write" => pc[q] = "log_write"
    BY <1>4, <1>a DEF EndOp, Goto, WakeLog
  <2> QED
    BY <1>4, <1>b, <2>1 DEF EndOp
<1>5. ASSUME NEW p \in Procs, Commit(p) \/ WriteLog(p) PROVE RoomInv'
  <2>1. \A q \in Procs : pc'[q] = "log_write" => pc[q] = "log_write"
    BY <1>5, <1>a DEF Commit, WriteLog, Goto
  <2> QED
    BY <1>5, <1>b, <2>1 DEF Commit, WriteLog
<1>6. ASSUME NEW p \in Procs, WriteHead(p) \/ Install(p) PROVE RoomInv'
  <2>1. \A q \in Procs : pc'[q] = "log_write" => pc[q] = "log_write"
    BY <1>6, <1>a, SMTT(30) DEF WriteHead, Install, Goto
  <2> QED
    BY <1>6, <1>b, <2>1 DEF WriteHead, Install
<1>7. ASSUME NEW p \in Procs, Erase(p) \/ Committed(p) PROVE RoomInv'
  <2>1. \A q \in Procs : pc'[q] = "log_write" => pc[q] = "log_write"
    BY <1>7, <1>a DEF Erase, Committed, Goto, WakeLog
  <2> QED
    BY <1>7, <1>b, <2>1 DEF Erase, Committed
<1>8. ASSUME NEW p \in Procs, NEW b \in Blocks, NEW v \in Vals,
             Modify(p, b, v)
      PROVE  RoomInv'
  <2>1. UNCHANGED <<lh, head>>
    BY <1>8 DEF Modify
  <2>2. \A q \in Procs : pc'[q] = "log_write" =>
          pc[q] = "log_write" \/ ~Refused
    BY <1>8, <1>a DEF Modify, Goto
  <2>3. ~Refused => Len(lh) < Nlog - 1
    BY <1>a DEF Refused, TooBig
  <2> QED
    BY <2>1, <2>2, <2>3 DEF RoomInv
<1>9. ASSUME NEW b \in Blocks, Recycle(b) PROVE RoomInv'
  BY <1>9, <1>b DEF Recycle
<1>10. CASE Crash
  BY <1>10, <1>b DEF Crash
<1>11. CASE ReadHead
  <2>1. \A q \in Procs : pc'[q] = "idle"
    BY <1>11 DEF ReadHead, LogInv, CallInv, Up
  <2> QED
    BY <1>11, <2>1 DEF ReadHead, RoomInv
<1>12. CASE RecoverInstall \/ RecoverErase
  BY <1>12, <1>b DEF RecoverInstall, RecoverErase
<1> QED
  BY <1>1, <1>2, <1>3, <1>4, <1>5, <1>6, <1>7, <1>8, <1>9, <1>10, <1>11,
     <1>12 DEF Next, CommitStep

(* The race through log_write()'s unlocked test is all that stands between *)
(* log.c and atomic transactions, on the disk that mkfs makes: as long as  *)
(* no two calls are between the test and acquire() at once, write_log()    *)
(* stays inside the log and recovery finds the last commit.                *)
THEOREM LoneTestsAreAtomic == Spec /\ []OneTests => Abs!Spec
<1>1. Spec /\ []OneTests => []RoomInv
  BY RoomInit, RoomStep, LogInvAlways, PTL DEF Spec
<1>2. LogInv /\ RoomInv => Inside
  <2> SUFFICES ASSUME LogInv, RoomInv, NEW p \in Procs, pc[p] = "write_log"
               PROVE  tail + 1 \in Slots
    BY DEF Inside
  <2>1. tail < Len(lh) /\ Len(lh) < Nlog /\ tail \in Nat /\ Len(lh) \in Nat
    BY DEF LogInv, Kinds, HeaderInv, RoomInv
  <2> QED
    BY <2>1 DEF Slots
<1> QED
  BY <1>1, <1>2, LogInvAlways, InsideIsAtomic, PTL
=============================================================================
