----------------------------- MODULE LogCommit ------------------------------
(***************************************************************************)
(* Calls, commits and crashes in log.c, for any finite number of           *)
(* processes, any blocks and contents, and any sizes that LogAssumption    *)
(* admits: a commit runs alone, inside the header, and brings every block  *)
(* of it home before it erases the header; a change stays locked, or dirty *)
(* and in the header, until a commit; begin_op reserves what is written.   *)
(*                                                                         *)
(* The invariant has a layer per mechanism: the kinds of the variables,    *)
(* the calls in progress (CallInv), the commit (CommitInv), the header     *)
(* and the loop index over it (HeaderInv), install_trans (InstallInv), the *)
(* changes (ChangesPinned) and the space (ReservationHolds). A lemma for   *)
(* each layer has a step for each action, and names the other layers that  *)
(* it needs.                                                               *)
(***************************************************************************)
EXTENDS Log, Lemmas, FiniteSetTheorems, TLAPS

(* Where a process is inside commit() or about to leave end_op. *)
Committers == {"commit", "write_log", "write_head", "install", "erase", "done"}

(* The machine is up: it is not in recover_from_log. *)
Up == mode \in {"run", "panic"}

(* The blocks that p's call has written are counted against MAXOPBLOCKS. *)
Finite(p) == IsFiniteSet(wrote[p]) /\ Cardinality(wrote[p]) <= MAXOPBLOCKS

(* Of calls: what a call has locked it has written, it is about to pass    *)
(* it to log_write, it writes between begin_op and end_op only, and at     *)
(* most MAXOPBLOCKS blocks; during recovery there is no call.              *)
CallInv ==
  /\ \A p \in Procs : held[p] \subseteq wrote[p] /\ Finite(p)
  /\ \A p \in Procs : held[p] # {} => pc[p] = "log_write"
  /\ \A p \in Procs : pc[p] = "log_write" => \E b \in Blocks : held[p] = {b}
  /\ \A p \in Procs : wrote[p] # {} => p \in InOp
  /\ ~Up => ~committing /\ \A p \in Procs : pc[p] = "idle"

(* Of end_op: one process commits at a time, with committing set, and      *)
(* with no call open (CommitAlone).                                        *)
CommitInv ==
  /\ CommitAlone
  /\ \A p \in Procs : pc[p] \in Committers => committing
  /\ \A p, q \in Procs : pc[p] \in Committers /\ pc[q] \in Committers => p = q

(* Of the header: it names a block once, in memory and on disk; it is      *)
(* empty when no call is open, after a commit and before recovery has      *)
(* read it; the loops of write_log and install_trans are inside it.        *)
HeaderInv ==
  /\ \A i, j \in 1..Len(lh) : lh[i] = lh[j] => i = j
  /\ \A i, j \in 1..Len(head) : head[i] = head[j] => i = j
  /\ Up /\ ~committing /\ outstanding = 0 => lh = <<>>
  /\ \A p \in Procs : pc[p] \in {"write_log", "write_head", "install"} =>
       tail < Len(lh)
  /\ \A p \in Procs : pc[p] = "done" => lh = <<>>
  /\ mode = "read_head" => lh = <<>>
  /\ mode = "install" => tail < Len(lh)
  /\ \A p \in Procs : pc[p] = "write_head" => tail = 0
  /\ mode \in {"read_head", "erase"} => tail = 0

(* Of install_trans: the blocks it has passed, all of them when it is      *)
(* done, are at home on the disk as they are in the cache; a booting       *)
(* machine has nothing in its cache.                                       *)
InstallInv ==
  /\ ~Up => cache = disk
  /\ \A p \in Procs : pc[p] = "install" =>
       \A i \in 1..tail : cache[lh[i]] = disk[lh[i]]
  /\ \A p \in Procs : pc[p] = "erase" =>
       \A i \in 1..Len(lh) : cache[lh[i]] = disk[lh[i]]

(* TypeOK without its bounds, which ReservationHolds implies. *)
Kinds ==
  /\ disk \in [Blocks -> Vals] /\ cache \in [Blocks -> Vals]
  /\ logarea \in [Slots -> Vals]
  /\ head \in Seq(Blocks) /\ lh \in Seq(Blocks)
  /\ dirty \subseteq Blocks
  /\ outstanding \in Int
  /\ committing \in BOOLEAN
  /\ tail \in Nat
  /\ pc \in [Procs -> PCs]
  /\ held \in [Procs -> SUBSET Blocks]
  /\ wrote \in [Procs -> SUBSET Blocks]
  /\ mode \in {"run", "panic", "read_head", "install", "erase"}
-----------------------------------------------------------------------------
USE LogAssumption

(* log_write leaves the header as it is for a block it lists already (log  *)
(* absorption), and otherwise adds the block at its end.                   *)
LEMMA AbsorbIs ==
  ASSUME Kinds, NEW b \in Blocks
  PROVE  /\ Absorb(b) \in Seq(Blocks)
         /\ Listed(lh, b) => Absorb(b) = lh
         /\ ~Listed(lh, b) =>
              /\ Len(Absorb(b)) = Len(lh) + 1
              /\ \A i \in 1..Len(lh) : Absorb(b)[i] = lh[i]
              /\ Absorb(b)[Len(lh) + 1] = b
BY DEF Kinds, Absorb

(* The loop index of write_log and install_trans names a block of the      *)
(* header, and the loop ends at the header's length.                       *)
LEMMA TailNext ==
  ASSUME Kinds, tail < Len(lh)
  PROVE  /\ tail + 1 \in 1..Len(lh) /\ lh[tail + 1] \in Blocks
         /\ (tail + 1) % Len(lh) = IF tail + 1 = Len(lh) THEN 0 ELSE tail + 1
<1>1. Len(lh) \in Nat \ {0} /\ tail + 1 \in 1..Len(lh)
  BY DEF Kinds
<1>2. lh[tail + 1] \in Blocks
  BY <1>1 DEF Kinds
<1> QED
  BY <1>1, <1>2, ModNext

(* What is read from the log, or past its end, is a block's contents. *)
LEMMA BlockKind ==
  ASSUME Kinds, NEW i, NEW home \in [Blocks -> Vals]
  PROVE  LogBlock(i, home) \in Vals
BY DEF Kinds, LogBlock

(* One turn of install_trans keeps the kinds of what it changes. *)
LEMMA InstallIs ==
  ASSUME Kinds, tail < Len(lh), InstallBlock
  PROVE  /\ cache' \in [Blocks -> Vals] /\ disk' \in [Blocks -> Vals]
         /\ dirty' \subseteq Blocks /\ tail' \in Nat
         /\ tail' = IF tail + 1 = Len(lh) THEN 0 ELSE tail + 1
<1>1. LogBlock(tail + 1, cache) \in Vals
  BY BlockKind DEF Kinds
<1> QED
  BY <1>1, TailNext DEF Kinds, InstallBlock

(* Every step keeps the kinds of the variables (Kinds). *)
LEMMA KindStep == Kinds /\ HeaderInv /\ [Next]_vars => Kinds'
<1> SUFFICES ASSUME Kinds, HeaderInv, [Next]_vars
             PROVE  Kinds'
  OBVIOUS
<1>1. CASE UNCHANGED vars
  BY <1>1 DEF vars, Kinds
<1>2. ASSUME NEW p \in Procs, BeginOp(p) PROVE Kinds'
  <2>1. outstanding' \in Int
    BY <1>2 DEF BeginOp, Kinds
  <2>2. pc' \in [Procs -> PCs]
    BY <1>2, Zenon DEF BeginOp, Goto, Kinds, PCs
  <2> QED
    BY <1>2, <2>1, <2>2 DEF BeginOp, Kinds
<1>3. ASSUME NEW p \in Procs, LogWrite(p) PROVE Kinds'
  <2>1. lh' \in Seq(Blocks) /\ dirty' \subseteq Blocks
    BY <1>3, AbsorbIs DEF LogWrite, Pin, Kinds
  <2> QED
    BY <1>3, <2>1 DEF LogWrite, Goto, Kinds, PCs
<1>4. ASSUME NEW p \in Procs, EndOp(p) PROVE Kinds'
  <2>1. outstanding' \in Int
    BY <1>4 DEF EndOp, OneLess
  <2>5. committing' \in BOOLEAN
    BY <1>4, Zenon DEF EndOp, Kinds
  <2>2. pc' \in [Procs -> PCs]
    BY <1>4, ZenonT(30) DEF EndOp, Goto, WakeLog, Kinds, PCs
  <2>3. wrote' \in [Procs -> SUBSET Blocks]
    BY <1>4 DEF EndOp, Kinds
  <2>4. mode' \in {"run", "panic", "read_head", "install", "erase"}
    BY <1>4 DEF EndOp, Kinds
  <2> QED
    BY <1>4, <2>1, <2>2, <2>3, <2>4, <2>5 DEF EndOp, Kinds
<1>5. ASSUME NEW p \in Procs, Commit(p) PROVE Kinds'
  BY <1>5 DEF Commit, At, Goto, Kinds, PCs
<1>6. ASSUME NEW p \in Procs, WriteLog(p) PROVE Kinds'
  <2>1. tail < Len(lh)
    BY <1>6 DEF WriteLog, At, HeaderInv
  <2>2. lh[tail + 1] \in Blocks /\ tail' \in Nat
    BY <1>6, <2>1, TailNext DEF WriteLog
  <2>3. pc' \in [Procs -> PCs]
    BY <1>6 DEF WriteLog, Goto, Kinds, PCs
  <2>4. /\ logarea' \in [Slots -> Vals] /\ disk' \in [Blocks -> Vals]
        /\ cache' \in [Blocks -> Vals] /\ dirty' \subseteq Blocks
    <3>1. CASE tail + 1 \in Slots
      <4>1. /\ logarea' = [logarea EXCEPT ![tail + 1] = cache[lh[tail + 1]]]
            /\ UNCHANGED <<disk, cache, dirty>>
        BY <1>6, <3>1 DEF WriteLog
      <4> QED
        BY <2>2, <3>1, <4>1 DEF Kinds
    <3>2. CASE tail + 1 \notin Slots
      <4>1. /\ disk' = [disk EXCEPT ![InodeBlock] = cache[lh[tail + 1]]]
            /\ cache' = [cache EXCEPT ![InodeBlock] = cache[lh[tail + 1]]]
            /\ dirty' = dirty \ {InodeBlock}
            /\ UNCHANGED logarea
        BY <1>6, <3>2 DEF WriteLog
      <4> QED
        BY <2>2, <4>1 DEF Kinds
    <3> QED
      BY <3>1, <3>2
  <2> QED
    BY <1>6, <2>2, <2>3, <2>4 DEF WriteLog, Kinds
<1>7. ASSUME NEW p \in Procs, WriteHead(p) PROVE Kinds'
  BY <1>7 DEF WriteHead, At, Goto, Kinds, PCs
<1>8. ASSUME NEW p \in Procs, Install(p) PROVE Kinds'
  <2>1. tail < Len(lh)
    BY <1>8 DEF Install, At, HeaderInv
  <2>2. pc' \in [Procs -> PCs]
    BY <1>8 DEF Install, Goto, Kinds, PCs
  <2> QED
    BY <1>8, <2>1, <2>2, InstallIs DEF Install, Kinds
<1>9. ASSUME NEW p \in Procs, Erase(p) PROVE Kinds'
  BY <1>9 DEF Erase, At, Goto, Kinds, PCs
<1>10. ASSUME NEW p \in Procs, Committed(p) PROVE Kinds'
  BY <1>10, Zenon DEF Committed, At, WakeLog, Kinds, PCs
<1>11. ASSUME NEW p \in Procs, NEW b \in Blocks, NEW v \in Vals,
              Modify(p, b, v)
      PROVE  Kinds'
  <2>1. cache' \in [Blocks -> Vals]
    BY <1>11 DEF Modify, Kinds
  <2>2. mode' \in {"run", "panic"} /\ pc' \in [Procs -> PCs]
    BY <1>11 DEF Modify, At, Goto, Kinds, HeaderInv, PCs
  <2>3. /\ held' \in [Procs -> SUBSET Blocks]
        /\ wrote' \in [Procs -> SUBSET Blocks]
    BY <1>11 DEF Modify, Kinds, HeaderInv, PCs
  <2> QED
    BY <1>11, <2>1, <2>2, <2>3 DEF Modify, Kinds
<1>12. ASSUME NEW b \in Blocks, Recycle(b) PROVE Kinds'
  BY <1>12 DEF Recycle, Kinds
<1>13. CASE Crash
  <2>1. lh' \in Seq(Blocks) /\ head' \in Seq(Blocks)
    BY <1>13 DEF Crash, Kinds
  <2>2. pc' \in [Procs -> PCs]
    BY <1>13 DEF Crash, PCs
  <2>3. /\ held' \in [Procs -> SUBSET Blocks]
        /\ wrote' \in [Procs -> SUBSET Blocks]
    BY <1>13 DEF Crash
  <2>4. committing' \in BOOLEAN /\ mode' = "read_head"
    BY <1>13, Zenon DEF Crash
  <2> QED
    BY <1>13, <2>1, <2>2, <2>3, <2>4 DEF Crash, Kinds
<1>14. CASE ReadHead
  BY <1>14 DEF ReadHead, Kinds
<1>15. CASE RecoverInstall
  <2>1. tail < Len(lh)
    BY <1>15 DEF RecoverInstall, HeaderInv
  <2>2. mode' \in {"install", "erase"}
    BY <1>15 DEF RecoverInstall
  <2> QED
    BY <1>15, <2>1, <2>2, InstallIs DEF RecoverInstall, Kinds
<1>16. CASE RecoverErase
  BY <1>16 DEF RecoverErase, Kinds
<1> QED
  BY <1>1, <1>2, <1>3, <1>4, <1>5, <1>6, <1>7, <1>8, <1>9, <1>10, <1>11,
     <1>12, <1>13, <1>14, <1>15, <1>16 DEF Next, CommitStep

(* Every step keeps what is known of calls (CallInv): log_write is         *)
(* entered with one block locked, and end_op forgets the call's blocks.    *)
LEMMA CallStep == Kinds /\ CallInv /\ [Next]_vars => CallInv'
<1> SUFFICES ASSUME Kinds, CallInv, [Next]_vars
             PROVE  CallInv'
  OBVIOUS
<1>1. CASE UNCHANGED vars
  BY <1>1 DEF vars, CallInv, Up, InOp, Finite
<1>2. ASSUME NEW p \in Procs, BeginOp(p) PROVE CallInv'
  BY <1>2, Zenon DEF BeginOp, At, Goto, Kinds, CallInv, Up, InOp, Finite
<1>3. ASSUME NEW p \in Procs, LogWrite(p) PROVE CallInv'
  BY <1>3 DEF LogWrite, At, Goto, Kinds, CallInv, Up, InOp, Finite
<1>4. ASSUME NEW p \in Procs, EndOp(p) PROVE CallInv'
  <2>1. Finite(p)'
    BY <1>4, FS_EmptySet DEF EndOp, CallInv, Finite
  <2>2. p \in InOp /\ held[p] = {} /\ Up
    BY <1>4 DEF EndOp, At, CallInv, InOp
  <2>3. \A q \in Procs : q # p =>
          pc'[q] = pc[q] \/ (pc[q] = "asleep" /\ pc'[q] = "begin")
    BY <1>4 DEF EndOp, Goto, WakeLog, Kinds
  <2>4. pc'[p] \in {"op", "commit", "idle"}
    BY <1>4 DEF EndOp, At, Goto, WakeLog, Kinds
  <2> QED
    BY <1>4, <2>1, <2>2, <2>3, <2>4, SMTT(30) DEF EndOp, At, Kinds, CallInv,
      Up, InOp, Finite, PCs
<1>5. ASSUME NEW p \in Procs, Commit(p) PROVE CallInv'
  BY <1>5 DEF Commit, At, Goto, CallInv, Up, InOp, Finite
<1>6. ASSUME NEW p \in Procs, WriteLog(p) PROVE CallInv'
  BY <1>6 DEF WriteLog, At, Goto, CallInv, Up, InOp, Finite
<1>7. ASSUME NEW p \in Procs, WriteHead(p) PROVE CallInv'
  BY <1>7 DEF WriteHead, At, Goto, CallInv, Up, InOp, Finite
<1>8. ASSUME NEW p \in Procs, Install(p) PROVE CallInv'
  BY <1>8 DEF Install, InstallBlock, At, Goto, CallInv, Up, InOp, Finite
<1>9. ASSUME NEW p \in Procs, Erase(p) PROVE CallInv'
  BY <1>9 DEF Erase, At, Goto, CallInv, Up, InOp, Finite
<1>10. ASSUME NEW p \in Procs, Committed(p) PROVE CallInv'
  BY <1>10 DEF Committed, At, WakeLog, CallInv, Up, InOp, Finite
<1>11. ASSUME NEW p \in Procs, NEW b \in Blocks, NEW v \in Vals,
              Modify(p, b, v)
      PROVE  CallInv'
  <2>1. Finite(p)'
    <3>1. IsFiniteSet(wrote[p] \cup {b})
      BY FS_AddElement, Zenon DEF CallInv, Finite
    <3>2. wrote'[p] = wrote[p] \/ wrote'[p] = wrote[p] \cup {b}
      BY <1>11 DEF Modify, Kinds
    <3> QED
      BY <1>11, <3>1, <3>2, Zenon DEF Modify, CallInv, Finite
  <2>2. \A q \in Procs : q # p => Finite(q)'
    BY <1>11 DEF Modify, Kinds, CallInv, Finite
  <2>3. CASE UNCHANGED <<pc, held, wrote>> /\ mode' = "panic"
    BY <1>11, <2>1, <2>2, <2>3 DEF Modify, At, CallInv, Up, InOp
  <2>4. CASE /\ Goto(p, "log_write") /\ UNCHANGED mode
             /\ held' = [held EXCEPT ![p] = {b}]
             /\ wrote' = [wrote EXCEPT ![p] = @ \cup {b}]
    BY <1>11, <2>1, <2>2, <2>4, Zenon DEF Modify, At, Goto, Kinds, CallInv, Up,
      InOp, PCs
  <2> QED
    BY <1>11, <2>3, <2>4, Zenon DEF Modify
<1>12. ASSUME NEW b \in Blocks, Recycle(b) PROVE CallInv'
  BY <1>12 DEF Recycle, CallInv, Up, InOp, Finite
<1>13. CASE Crash
  BY <1>13, FS_EmptySet DEF Crash, CallInv, Finite
<1>14. CASE ReadHead
  BY <1>14 DEF ReadHead, CallInv, Up, InOp, Finite
<1>15. CASE RecoverInstall
  BY <1>15 DEF RecoverInstall, InstallBlock, CallInv, Up, InOp, Finite
<1>16. CASE RecoverErase
  BY <1>16 DEF RecoverErase, CallInv, Up, InOp, Finite
<1> QED
  BY <1>1, <1>2, <1>3, <1>4, <1>5, <1>6, <1>7, <1>8, <1>9, <1>10, <1>11,
     <1>12, <1>13, <1>14, <1>15, <1>16 DEF Next, CommitStep

(* There are finitely many open calls. *)
LEMMA OpsFinite == IsFiniteSet(InOp)
BY FS_Subset DEF InOp

(* Every step keeps the commit alone (CommitInv): begin_op waits for       *)
(* committing, and end_op sets it when the last call ends.                 *)
LEMMA CommitsStep == Kinds /\ CallInv /\ CommitInv /\ [Next]_vars => CommitInv'
<1> SUFFICES ASSUME Kinds, CallInv, CommitInv, [Next]_vars
             PROVE  CommitInv'
  OBVIOUS
<1>1. CASE UNCHANGED vars
  BY <1>1 DEF vars, InOp, CommitInv, CommitAlone
<1>2. ASSUME NEW p \in Procs, BeginOp(p) PROVE CommitInv'
  <2>1. CASE committing \/ NoRoom
    <3>1. InOp' = InOp
      BY <1>2, <2>1 DEF InOp, BeginOp, At, Goto, Kinds
    <3>2. \A q \in Procs : pc'[q] \in Committers => pc[q] \in Committers
      BY <1>2, <2>1 DEF BeginOp, Goto, Kinds, Committers
    <3> QED
      BY <1>2, <2>1, <3>1, <3>2 DEF BeginOp, CommitInv, CommitAlone
  <2>2. CASE ~committing /\ ~NoRoom
    <3>1. InOp' = InOp \cup {p} /\ p \notin InOp
      BY <1>2, <2>2 DEF InOp, BeginOp, At, Goto, Kinds
    <3>2. Cardinality(InOp') = Cardinality(InOp) + 1
      BY <3>1, OpsFinite, FS_AddElement, Zenon
    <3>3. outstanding' = outstanding + 1 /\ ~committing'
      BY <1>2, <2>2 DEF BeginOp
    <3>4. \A q \in Procs : pc'[q] \in Committers => pc[q] \in Committers
      BY <1>2 DEF BeginOp, Goto, Kinds, Committers
    <3> QED
      BY <2>2, <3>2, <3>3, <3>4 DEF CommitInv, CommitAlone
  <2> QED
    BY <2>1, <2>2
<1>3. ASSUME NEW p \in Procs, LogWrite(p) PROVE CommitInv'
  <2>1. InOp' = InOp
    BY <1>3 DEF InOp, LogWrite, At, Goto
  <2>2. \A q \in Procs : pc'[q] \in Committers <=> pc[q] \in Committers
    BY <1>3 DEF LogWrite, At, Goto, Committers
  <2> QED
    BY <1>3, <2>1, <2>2 DEF LogWrite, At, Goto, CommitInv, CommitAlone
<1>4. ASSUME NEW p \in Procs, EndOp(p) PROVE CommitInv'
  <2>1. p \in InOp
    BY <1>4 DEF InOp, EndOp, At
  <2>2. ~committing
    BY <2>1, OpsFinite, FS_EmptySet DEF CommitInv, CommitAlone
  <2>3. InOp' = InOp \ {p}
    BY <1>4, <2>2 DEF InOp, EndOp, Goto, WakeLog, Kinds
  <2>4. Cardinality(InOp') = Cardinality(InOp) - 1
    BY <2>1, <2>3, OpsFinite, FS_RemoveElement, Zenon
  <2>5. outstanding' = outstanding - 1 /\ (committing' => outstanding' = 0)
    BY <1>4, <2>2 DEF EndOp, OneLess, LastOut
  <2>6. \A q \in Procs : pc'[q] \in Committers => q = p /\ committing'
    BY <1>4, <2>2 DEF EndOp, Goto, WakeLog, Kinds, CallInv, CommitInv,
       Committers
  <2> QED
    BY <2>4, <2>5, <2>6 DEF CommitInv, CommitAlone
<1>5. ASSUME NEW p \in Procs, Commit(p) PROVE CommitInv'
  <2>1. InOp' = InOp
    BY <1>5 DEF InOp, Commit, At, Goto
  <2>2. \A q \in Procs : pc'[q] \in Committers <=> pc[q] \in Committers
    BY <1>5 DEF Commit, At, Goto, Committers
  <2> QED
    BY <1>5, <2>1, <2>2 DEF Commit, At, Goto, CommitInv, CommitAlone
<1>6. ASSUME NEW p \in Procs, WriteLog(p) PROVE CommitInv'
  <2>1. InOp' = InOp
    BY <1>6 DEF InOp, WriteLog, At, Goto
  <2>2. \A q \in Procs : pc'[q] \in Committers <=> pc[q] \in Committers
    BY <1>6 DEF WriteLog, At, Goto, Committers
  <2> QED
    BY <1>6, <2>1, <2>2 DEF WriteLog, At, Goto, CommitInv, CommitAlone
<1>7. ASSUME NEW p \in Procs, WriteHead(p) PROVE CommitInv'
  <2>1. InOp' = InOp
    BY <1>7 DEF InOp, WriteHead, At, Goto
  <2>2. \A q \in Procs : pc'[q] \in Committers <=> pc[q] \in Committers
    BY <1>7 DEF WriteHead, At, Goto, Committers
  <2> QED
    BY <1>7, <2>1, <2>2 DEF WriteHead, At, Goto, CommitInv, CommitAlone
<1>8. ASSUME NEW p \in Procs, Install(p) PROVE CommitInv'
  <2>1. InOp' = InOp
    BY <1>8 DEF InOp, Install, InstallBlock, At, Goto
  <2>2. \A q \in Procs : pc'[q] \in Committers <=> pc[q] \in Committers
    BY <1>8 DEF Install, InstallBlock, At, Goto, Committers
  <2> QED
    BY <1>8, <2>1, <2>2 DEF Install, InstallBlock, At, Goto, CommitInv,
       CommitAlone
<1>9. ASSUME NEW p \in Procs, Erase(p) PROVE CommitInv'
  <2>1. InOp' = InOp
    BY <1>9 DEF InOp, Erase, At, Goto
  <2>2. \A q \in Procs : pc'[q] \in Committers <=> pc[q] \in Committers
    BY <1>9 DEF Erase, At, Goto, Committers
  <2> QED
    BY <1>9, <2>1, <2>2 DEF Erase, At, Goto, CommitInv, CommitAlone
<1>10. ASSUME NEW p \in Procs, Committed(p) PROVE CommitInv'
  <2>1. InOp' = InOp
    BY <1>10 DEF InOp, Committed, At, WakeLog
  <2>2. \A q \in Procs : pc'[q] \notin Committers
    BY <1>10 DEF Committed, At, WakeLog, CommitInv, Committers
  <2> QED
    BY <1>10, <2>1, <2>2 DEF Committed, CommitInv, CommitAlone
<1>11. ASSUME NEW p \in Procs, NEW b \in Blocks, NEW v \in Vals,
              Modify(p, b, v)
      PROVE  CommitInv'
  <2>1. InOp' = InOp
    BY <1>11 DEF InOp, Modify, At, Goto, Kinds
  <2>2. \A q \in Procs : pc'[q] \in Committers <=> pc[q] \in Committers
    BY <1>11 DEF Modify, At, Goto, Kinds, Committers
  <2> QED
    BY <1>11, <2>1, <2>2 DEF Modify, At, Goto, CommitInv, CommitAlone
<1>12. ASSUME NEW b \in Blocks, Recycle(b) PROVE CommitInv'
  <2>1. InOp' = InOp
    BY <1>12 DEF InOp, Recycle
  <2>2. \A q \in Procs : pc'[q] \in Committers <=> pc[q] \in Committers
    BY <1>12 DEF Recycle
  <2> QED
    BY <1>12, <2>1, <2>2 DEF Recycle, CommitInv, CommitAlone
<1>13. CASE Crash
  <2>1. InOp' = {}
    BY <1>13 DEF InOp, Crash
  <2> QED
    BY <1>13, <2>1, FS_EmptySet DEF Crash, CommitInv, CommitAlone, Committers
<1>14. CASE ReadHead
  <2>1. InOp' = InOp
    BY <1>14 DEF InOp, ReadHead
  <2>2. \A q \in Procs : pc'[q] \in Committers <=> pc[q] \in Committers
    BY <1>14 DEF ReadHead
  <2> QED
    BY <1>14, <2>1, <2>2 DEF ReadHead, CommitInv, CommitAlone
<1>15. CASE RecoverInstall
  <2>1. InOp' = InOp
    BY <1>15 DEF InOp, RecoverInstall, InstallBlock
  <2>2. \A q \in Procs : pc'[q] \in Committers <=> pc[q] \in Committers
    BY <1>15 DEF RecoverInstall, InstallBlock
  <2> QED
    BY <1>15, <2>1, <2>2 DEF RecoverInstall, InstallBlock, CommitInv,
       CommitAlone
<1>16. CASE RecoverErase
  <2>1. InOp' = InOp
    BY <1>16 DEF InOp, RecoverErase
  <2>2. \A q \in Procs : pc'[q] \in Committers <=> pc[q] \in Committers
    BY <1>16 DEF RecoverErase
  <2> QED
    BY <1>16, <2>1, <2>2 DEF RecoverErase, CommitInv, CommitAlone
<1> QED
  BY <1>1, <1>2, <1>3, <1>4, <1>5, <1>6, <1>7, <1>8, <1>9, <1>10, <1>11,
     <1>12, <1>13, <1>14, <1>15, <1>16 DEF Next, CommitStep

(* outstanding is never negative, and zero just when no call is open. *)
LEMMA OpsCount ==
  ASSUME CommitAlone
  PROVE  /\ outstanding \in Nat
         /\ \A p \in InOp : ~committing /\ outstanding > 0
<1>1. outstanding \in Nat /\ (outstanding = 0 => InOp = {})
  BY OpsFinite, FS_CardinalityType, FS_EmptySet DEF CommitAlone
<1> QED
  BY <1>1 DEF CommitAlone

(* Every step keeps what is known of the header (HeaderInv): log_write     *)
(* looks for the block before it adds it, and commit() empties the header  *)
(* before it clears committing.                                            *)
LEMMA HeaderStep ==
  Kinds /\ CallInv /\ CommitInv /\ HeaderInv /\ [Next]_vars => HeaderInv'
<1> SUFFICES ASSUME Kinds, CallInv, CommitInv, HeaderInv, [Next]_vars
             PROVE  HeaderInv'
  OBVIOUS
<1>1. CASE UNCHANGED vars
  BY <1>1 DEF vars, HeaderInv, Up
<1>2. ASSUME NEW p \in Procs, BeginOp(p) PROVE HeaderInv'
  <2>1. outstanding' = outstanding \/ outstanding' > 0
    BY <1>2, OpsCount DEF BeginOp, CommitInv
  <2> QED
    BY <1>2, <2>1 DEF BeginOp, At, Goto, Kinds, HeaderInv, Up
<1>3. ASSUME NEW p \in Procs, LogWrite(p) PROVE HeaderInv'
  <2>1. PICK b \in Blocks : lh' = Absorb(b)
    BY <1>3 DEF LogWrite, CallInv
  <2>2. p \in InOp
    BY <1>3 DEF LogWrite, At, InOp
  <2>3. ~committing /\ outstanding > 0
    BY <2>2, OpsCount DEF CommitInv
  <2>4. \A i, j \in 1..Len(lh') : lh'[i] = lh'[j] => i = j
    <3>1. CASE Listed(lh, b)
      BY <2>1, <3>1, AbsorbIs DEF HeaderInv
    <3>2. CASE ~Listed(lh, b)
      <4>1. /\ Len(lh') = Len(lh) + 1 /\ lh'[Len(lh) + 1] = b
            /\ \A i \in 1..Len(lh) : lh'[i] = lh[i] /\ lh[i] # b
        BY <2>1, <3>2, AbsorbIs DEF Listed
      <4>2. Len(lh) \in Nat
        OBVIOUS
      <4>3. lh'[Len(lh) + 1] = b /\ \A i \in 1..Len(lh) : lh'[i] # b
        BY <4>1
      <4>4. \A i \in 1..Len(lh') : i \in 1..Len(lh) \/ i = Len(lh) + 1
        BY <4>1, <4>2
      <4> QED
        BY <4>1, <4>3, <4>4 DEF HeaderInv
    <3> QED
      BY <3>1, <3>2
  <2> QED
    BY <1>3, <2>3, <2>4, SMTT(30) DEF LogWrite, At, Goto, CommitInv, HeaderInv,
      Committers
<1>4. ASSUME NEW p \in Procs, EndOp(p) PROVE HeaderInv'
  <2>1. p \in InOp
    BY <1>4 DEF EndOp, At, InOp
  <2>2. ~committing /\ outstanding > 0
    BY <2>1, OpsCount DEF CommitInv
  <2>3. ~committing' => outstanding' # 0
    BY <1>4, <2>2 DEF EndOp, OneLess, LastOut
  <2>4. \A q \in Procs : pc'[q] \in Committers => pc'[q] = "commit"
    <3>1. \/ pc' = [pc EXCEPT ![p] = "commit"]
          \/ pc' = WakeLog(p, "idle")
      BY <1>4, <2>2 DEF EndOp, Goto
    <3>2. \A q \in Procs : pc[q] \notin Committers
      BY <2>2 DEF CommitInv
    <3>3. CASE pc' = [pc EXCEPT ![p] = "commit"]
      BY <3>2, <3>3
    <3>4. CASE pc' = WakeLog(p, "idle")
      <4>1. \A q \in Procs : pc'[q] \in {"idle", "begin", pc[q]}
        BY <3>4 DEF WakeLog
      <4> QED
        BY <3>2, <4>1 DEF Committers
    <3> QED
      BY <3>1, <3>3, <3>4
  <2> QED
    BY <1>4, <2>2, <2>3, <2>4 DEF EndOp, At, HeaderInv, Committers
<1>5. ASSUME NEW p \in Procs, Commit(p) PROVE HeaderInv'
  BY <1>5 DEF Commit, At, Goto, CommitInv, HeaderInv, Committers
<1>6. ASSUME NEW p \in Procs, WriteLog(p) PROVE HeaderInv'
  <2>1. tail' = IF tail + 1 = Len(lh) THEN 0 ELSE tail + 1
    BY <1>6, TailNext DEF WriteLog, At, HeaderInv
  <2>2. 0 < Len(lh) /\ tail' < Len(lh)
    BY <1>6, <2>1 DEF WriteLog, At, Kinds, HeaderInv
  <2>3. \A q \in Procs : pc'[q] \in Committers => q = p
    BY <1>6 DEF WriteLog, At, Goto, CommitInv, Committers
  <2>4. pc'[p] = IF tail + 1 = Len(lh) THEN "write_head" ELSE "write_log"
    BY <1>6 DEF WriteLog, Goto, Kinds
  <2> QED
    BY <1>6, <2>1, <2>2, <2>3, <2>4 DEF WriteLog, At, HeaderInv, Up,
       Committers
<1>7. ASSUME NEW p \in Procs, WriteHead(p) PROVE HeaderInv'
  BY <1>7 DEF WriteHead, At, Goto, HeaderInv, Up
<1>8. ASSUME NEW p \in Procs, Install(p) PROVE HeaderInv'
  <2>1. tail' = IF tail + 1 = Len(lh) THEN 0 ELSE tail + 1
    BY <1>8, InstallIs DEF Install, At, HeaderInv
  <2>2. 0 < Len(lh) /\ tail' < Len(lh)
    BY <1>8, <2>1 DEF Install, At, Kinds, HeaderInv
  <2>3. \A q \in Procs : pc'[q] \in Committers => q = p
    BY <1>8 DEF Install, At, Goto, CommitInv, Committers
  <2>4. pc'[p] = IF tail + 1 = Len(lh) THEN "erase" ELSE "install"
    BY <1>8 DEF Install, Goto, Kinds
  <2> QED
    BY <1>8, <2>1, <2>2, <2>3, <2>4 DEF Install, At, HeaderInv, Up, Committers
<1>9. ASSUME NEW p \in Procs, Erase(p) PROVE HeaderInv'
  BY <1>9 DEF Erase, At, Goto, CommitInv, HeaderInv, Committers
<1>10. ASSUME NEW p \in Procs, Committed(p) PROVE HeaderInv'
  BY <1>10 DEF Committed, At, WakeLog, HeaderInv
<1>11. ASSUME NEW p \in Procs, NEW b \in Blocks, NEW v \in Vals,
              Modify(p, b, v)
      PROVE  HeaderInv'
  BY <1>11 DEF Modify, At, Goto, Kinds, HeaderInv, Up
<1>12. ASSUME NEW b \in Blocks, Recycle(b) PROVE HeaderInv'
  BY <1>12 DEF Recycle, HeaderInv, Up
<1>13. CASE Crash
  BY <1>13, SMTT(30) DEF Crash, HeaderInv
<1>14. CASE ReadHead
  <2>1. tail = 0 /\ (head # <<>> => 0 < Len(head))
    BY <1>14 DEF ReadHead, HeaderInv
  <2>2. /\ lh' = head /\ head' = head /\ tail' = tail
        /\ mode' = IF head = <<>> THEN "erase" ELSE "install"
        /\ \A p \in Procs : pc'[p] = "idle"
    BY <1>14 DEF ReadHead, CallInv, Up
  <2> QED
    BY <2>1, <2>2, Zenon DEF HeaderInv, Up
<1>15. CASE RecoverInstall
  <2>1. tail' = IF tail + 1 = Len(lh) THEN 0 ELSE tail + 1
    BY <1>15, InstallIs DEF RecoverInstall, HeaderInv
  <2>2. 0 < Len(lh) /\ tail' < Len(lh)
    BY <1>15, <2>1 DEF RecoverInstall, Kinds, HeaderInv
  <2>3. /\ lh' = lh /\ head' = head
        /\ mode' = IF tail + 1 = Len(lh) THEN "erase" ELSE "install"
        /\ \A p \in Procs : pc'[p] = "idle"
    BY <1>15 DEF RecoverInstall, CallInv, Up
  <2> QED
    BY <2>1, <2>2, <2>3 DEF HeaderInv, Up
<1>16. CASE RecoverErase
  BY <1>16 DEF RecoverErase, CallInv, HeaderInv, Up
<1> QED
  BY <1>1, <1>2, <1>3, <1>4, <1>5, <1>6, <1>7, <1>8, <1>9, <1>10, <1>11,
     <1>12, <1>13, <1>14, <1>15, <1>16 DEF Next, CommitStep

(* log_write names no block twice. *)
LEMMA AbsorbKeeps ==
  ASSUME Kinds, NEW b \in Blocks
  PROVE  /\ Listed(Absorb(b), b)
         /\ \A x \in Blocks : Listed(lh, x) => Listed(Absorb(b), x)
         /\ \A x \in Blocks : Listed(Absorb(b), x) =>
                               x = b \/ Listed(lh, x)
<1>1. CASE Listed(lh, b)
  BY <1>1, AbsorbIs
<1>2. CASE ~Listed(lh, b)
  <2>1. Len(lh) \in Nat
    BY DEF Kinds
  <2>2. /\ Len(Absorb(b)) = Len(lh) + 1 /\ Absorb(b)[Len(lh) + 1] = b
        /\ \A i \in 1..Len(lh) : Absorb(b)[i] = lh[i]
    BY <1>2, AbsorbIs
  <2>3. Listed(Absorb(b), b)
    BY <2>1, <2>2 DEF Listed
  <2>4. \A x \in Blocks : Listed(lh, x) => Listed(Absorb(b), x)
    BY <2>1, <2>2 DEF Listed
  <2>5. ASSUME NEW x \in Blocks, Listed(Absorb(b), x)
        PROVE  x = b \/ Listed(lh, x)
    <3>1. PICK i \in 1..Len(lh) + 1 : Absorb(b)[i] = x
      BY <2>2, <2>5 DEF Listed
    <3>2. i \in 1..Len(lh) \/ i = Len(lh) + 1
      BY <2>1
    <3> QED
      BY <2>2, <3>1, <3>2 DEF Listed
  <2> QED
    BY <2>3, <2>4, <2>5
<1> QED
  BY <1>1, <1>2

(* While a process commits no call is open, so that no buffer is locked    *)
(* by one: commit() copies from buffers that nobody is changing.           *)
LEMMA Quiet ==
  ASSUME Kinds, CallInv, CommitInv
  PROVE  /\ ~committing => \A q \in Procs : pc[q] \notin Committers
         /\ InOp # {} => ~committing
         /\ InOp = {} => \A q \in Procs : held[q] = {}
<1>1. ~committing => \A q \in Procs : pc[q] \notin Committers
  BY DEF CommitInv
<1>2. InOp # {} => ~committing
  BY OpsCount DEF CommitInv
<1>3. InOp = {} => \A q \in Procs : held[q] = {}
  BY DEF CallInv, InOp
<1> QED
  BY <1>1, <1>2, <1>3

(* Every step keeps what install_trans has copied (InstallInv): a later    *)
(* turn writes another block, because the header names none twice.         *)
LEMMA InstallStep ==
  Kinds /\ CallInv /\ CommitInv /\ HeaderInv /\ InstallInv /\ [Next]_vars
    => InstallInv'
<1> SUFFICES ASSUME Kinds, CallInv, CommitInv, HeaderInv, InstallInv,
                    [Next]_vars
             PROVE  InstallInv'
  OBVIOUS
<1>1. CASE UNCHANGED vars
  BY <1>1 DEF vars, InstallInv, Up
<1>2. ASSUME NEW p \in Procs, BeginOp(p) PROVE InstallInv'
  BY <1>2 DEF BeginOp, At, Goto, Kinds, CallInv, HeaderInv, InstallInv, Up
<1>3. ASSUME NEW p \in Procs, LogWrite(p) PROVE InstallInv'
  <2>1. p \in InOp
    BY <1>3 DEF LogWrite, At, InOp
  <2>2. \A q \in Procs : pc[q] \notin Committers
    BY <2>1, Quiet
  <2>3. \A q \in Procs : pc'[q] \notin {"install", "erase"}
    BY <1>3, <2>2 DEF LogWrite, Goto, Committers
  <2> QED
    BY <1>3, <2>3 DEF LogWrite, At, InstallInv, Up
<1>4. ASSUME NEW p \in Procs, EndOp(p) PROVE InstallInv'
  <2>1. p \in InOp
    BY <1>4 DEF EndOp, At, InOp
  <2>2. \A q \in Procs : pc[q] \notin Committers
    BY <2>1, Quiet
  <2>3. \A q \in Procs : pc'[q] \notin {"install", "erase"}
    BY <1>4, <2>2 DEF EndOp, Goto, WakeLog, Kinds, Committers
  <2>4. cache' = cache /\ Up'
    BY <1>4 DEF EndOp, At, Up
  <2> QED
    BY <2>3, <2>4 DEF InstallInv
<1>5. ASSUME NEW p \in Procs, Commit(p) PROVE InstallInv'
  BY <1>5 DEF Commit, At, Goto, InstallInv, Up
<1>6. ASSUME NEW p \in Procs, WriteLog(p) PROVE InstallInv'
  <2>1. \A q \in Procs : pc'[q] \in Committers => q = p
    BY <1>6 DEF WriteLog, At, Goto, CommitInv, Committers
  <2>2. pc'[p] \notin {"install", "erase"} /\ Up'
    BY <1>6 DEF WriteLog, At, Goto, Up
  <2> QED
    BY <2>1, <2>2 DEF InstallInv, Committers
<1>7. ASSUME NEW p \in Procs, WriteHead(p) PROVE InstallInv'
  <2>1. \A q \in Procs : pc'[q] \in Committers => q = p
    BY <1>7 DEF WriteHead, At, Goto, CommitInv, Committers
  <2>2. tail' = 0 /\ pc'[p] = "install" /\ Up'
    BY <1>7 DEF WriteHead, At, Goto, Kinds, HeaderInv, Up
  <2> QED
    BY <2>1, <2>2 DEF InstallInv, Committers
<1>8. ASSUME NEW p \in Procs, Install(p) PROVE InstallInv'
  <2>1. lh[tail + 1] \in Blocks
    BY <1>8, TailNext DEF Install, At, HeaderInv
  <2>2. \A x \in Blocks :
          x = lh[tail + 1] \/ cache[x] = disk[x] => cache'[x] = disk'[x]
    BY <1>8, <2>1 DEF Install, InstallBlock, Kinds
  <2>3. \A q \in Procs : pc'[q] \in Committers => q = p
    BY <1>8 DEF Install, At, Goto, CommitInv, Committers
  <2>4. pc[p] = "install" /\ lh' = lh /\ tail < Len(lh) /\ Up'
    BY <1>8 DEF Install, At, HeaderInv, Up
  <2>5. tail' = IF tail + 1 = Len(lh) THEN 0 ELSE tail + 1
    BY <1>8, <2>4, InstallIs DEF Install
  <2>6. Len(lh) \in Nat /\ \A i \in 1..Len(lh) : lh[i] \in Blocks
    BY DEF Kinds
  <2>7. \A i \in 1..tail + 1 : cache'[lh[i]] = disk'[lh[i]]
    <3> TAKE i \in 1..tail + 1
    <3>1. lh[i] \in Blocks
      BY <2>4, <2>6 DEF Kinds
    <3>2. i = tail + 1 \/ i \in 1..tail
      BY DEF Kinds
    <3> QED
      BY <2>2, <2>4, <3>1, <3>2 DEF InstallInv
  <2>8. pc'[p] = IF tail + 1 = Len(lh) THEN "erase" ELSE "install"
    BY <1>8 DEF Install, Goto, Kinds
  <2>9. pc'[p] = "install" => \A i \in 1..tail' : cache'[lh[i]] = disk'[lh[i]]
    BY <2>5, <2>7, <2>8
  <2>10. pc'[p] = "erase" =>
           \A i \in 1..Len(lh) : cache'[lh[i]] = disk'[lh[i]]
    BY <2>7, <2>8
  <2> QED
    BY <2>3, <2>4, <2>9, <2>10 DEF InstallInv, Committers
<1>9. ASSUME NEW p \in Procs, Erase(p) PROVE InstallInv'
  BY <1>9 DEF Erase, At, Goto, CommitInv, InstallInv, Up, Committers
<1>10. ASSUME NEW p \in Procs, Committed(p) PROVE InstallInv'
  BY <1>10 DEF Committed, At, WakeLog, InstallInv, Up
<1>11. ASSUME NEW p \in Procs, NEW b \in Blocks, NEW v \in Vals,
              Modify(p, b, v)
      PROVE  InstallInv'
  <2>1. p \in InOp
    BY <1>11 DEF Modify, At, InOp
  <2>2. \A q \in Procs : pc[q] \notin Committers
    BY <2>1, Quiet
  <2>3. \A q \in Procs : pc'[q] \notin {"install", "erase"}
    BY <1>11, <2>2, SMTT(30) DEF Modify, Goto, Kinds, Committers
  <2>4. Up'
    BY <1>11, Zenon DEF Modify, At, Up
  <2> QED
    BY <2>3, <2>4 DEF InstallInv
<1>12. ASSUME NEW b \in Blocks, Recycle(b) PROVE InstallInv'
  BY <1>12 DEF Recycle, InstallInv, Up
<1>13. CASE Crash
  <2>1. \A q \in Procs : pc'[q] = "idle"
    BY <1>13 DEF Crash
  <2> QED
    BY <1>13, <2>1 DEF Crash, InstallInv
<1>14. CASE ReadHead
  BY <1>14 DEF ReadHead, InstallInv, Up
<1>15. CASE RecoverInstall
  <2>1. \A q \in Procs : pc'[q] = "idle"
    BY <1>15 DEF RecoverInstall, CallInv, Up
  <2>2. cache' = disk'
    BY <1>15, SMTT(30) DEF RecoverInstall, InstallBlock, Kinds, InstallInv, Up
  <2> QED
    BY <2>1, <2>2, SMTT(30) DEF InstallInv
<1>16. CASE RecoverErase
  <2>1. \A q \in Procs : pc'[q] = "idle"
    BY <1>16 DEF RecoverErase, CallInv, Up
  <2> QED
    BY <1>16, <2>1 DEF RecoverErase, InstallInv, Up
<1> QED
  BY <1>1, <1>2, <1>3, <1>4, <1>5, <1>6, <1>7, <1>8, <1>9, <1>10, <1>11,
     <1>12, <1>13, <1>14, <1>15, <1>16 DEF Next, CommitStep

(* Every step keeps changed buffers locked or dirty and logged             *)
(* (ChangesPinned): B_DIRTY is cleared for a block only once it is home.   *)
LEMMA PinStep ==
  Kinds /\ CallInv /\ CommitInv /\ HeaderInv /\ InstallInv
    /\ ChangesPinned /\ [Next]_vars => ChangesPinned'
<1> SUFFICES ASSUME Kinds, CallInv, CommitInv, HeaderInv, InstallInv,
                    ChangesPinned, [Next]_vars
             PROVE  ChangesPinned'
  BY SMTT(30)
<1>1. CASE UNCHANGED vars
  BY <1>1, Zenon DEF vars, ChangesPinned
<1>2. ASSUME NEW p \in Procs, BeginOp(p) PROVE ChangesPinned'
  BY <1>2 DEF BeginOp, At, Goto, ChangesPinned
<1>3. ASSUME NEW p \in Procs, LogWrite(p) PROVE ChangesPinned'
  <2>1. PICK b \in Blocks : held[p] = {b}
    BY <1>3 DEF LogWrite, At, CallInv
  <2>2. lh' = Absorb(b) /\ dirty' = dirty \cup {b}
    BY <1>3, <2>1 DEF LogWrite, Pin
  <2>3. Listed(lh', b)
    BY <2>2, AbsorbKeeps
  <2>4. \A x \in Blocks : Listed(lh, x) => Listed(lh', x)
    BY <2>2, AbsorbKeeps
  <2>5. \A q \in Procs : q # p => held'[q] = held[q]
    BY <1>3 DEF LogWrite
  <2>6. mode = "run" /\ UNCHANGED <<disk, cache>>
    BY <1>3 DEF LogWrite, At
  <2> QED
    BY <2>1, <2>2, <2>3, <2>4, <2>5, <2>6, SMTT(30) DEF ChangesPinned
<1>4. ASSUME NEW p \in Procs, EndOp(p) PROVE ChangesPinned'
  <2>1. UNCHANGED <<disk, cache, dirty, lh, held>> /\ mode = "run"
    BY <1>4 DEF EndOp, At
  <2> QED
    BY <2>1 DEF ChangesPinned
<1>5. ASSUME NEW p \in Procs, Commit(p) PROVE ChangesPinned'
  BY <1>5 DEF Commit, At, Goto, ChangesPinned
<1>6. ASSUME NEW p \in Procs, WriteLog(p) PROVE ChangesPinned'
  <2>1. CASE tail + 1 \in Slots
    BY <1>6, <2>1, SMTT(30) DEF WriteLog, At, ChangesPinned
  <2>2. CASE tail + 1 \notin Slots
    <3>1. /\ disk' = [disk EXCEPT ![InodeBlock] = cache[lh[tail + 1]]]
          /\ cache' = [cache EXCEPT ![InodeBlock] = cache[lh[tail + 1]]]
          /\ dirty' = dirty \ {InodeBlock}
      BY <1>6, <2>2 DEF WriteLog
    <3>2. \A x \in Blocks :
            \/ cache'[x] = disk'[x]
            \/ cache'[x] = cache[x] /\ disk'[x] = disk[x]
               /\ (x \in dirty => x \in dirty')
      BY <3>1 DEF Kinds
    <3>3. lh' = lh /\ held' = held /\ mode = "run"
      BY <1>6, SMTT(30) DEF WriteLog, At
    <3> QED
      BY <3>2, <3>3 DEF ChangesPinned
  <2> QED
    BY <2>1, <2>2
<1>7. ASSUME NEW p \in Procs, WriteHead(p) PROVE ChangesPinned'
  BY <1>7, Zenon DEF WriteHead, At, Goto, ChangesPinned
<1>8. ASSUME NEW p \in Procs, Install(p) PROVE ChangesPinned'
  <2>1. lh[tail + 1] \in Blocks
    BY <1>8, TailNext DEF Install, At, HeaderInv
  <2>2. \A x \in Blocks :
          x = lh[tail + 1] \/ cache[x] = disk[x] => cache'[x] = disk'[x]
    BY <1>8, <2>1 DEF Install, InstallBlock, Kinds
  <2>3. \A x \in Blocks : x # lh[tail + 1] =>
          /\ cache'[x] = cache[x] /\ disk'[x] = disk[x]
          /\ x \in dirty => x \in dirty'
    BY <1>8 DEF Install, InstallBlock
  <2>4. lh' = lh /\ held' = held /\ mode = "run"
    BY <1>8, SMTT(30) DEF Install, At
  <2> QED
    BY <2>2, <2>3, <2>4, Zenon DEF ChangesPinned
<1>9. ASSUME NEW p \in Procs, Erase(p) PROVE ChangesPinned'
  <2>1. p \notin InOp /\ committing
    BY <1>9 DEF Erase, At, InOp, CommitInv, Committers
  <2>2. \A q \in Procs : held[q] = {}
    BY <2>1, Quiet
  <2>3. \A x \in Blocks : Listed(lh, x) => cache[x] = disk[x]
    BY <1>9, SMTT(30) DEF Erase, At, Listed, InstallInv
  <2> QED
    BY <1>9, <2>2, <2>3, Zenon DEF Erase, At, ChangesPinned
<1>10. ASSUME NEW p \in Procs, Committed(p) PROVE ChangesPinned'
  BY <1>10 DEF Committed, At, ChangesPinned
<1>11. ASSUME NEW p \in Procs, NEW b \in Blocks, NEW v \in Vals,
              Modify(p, b, v)
      PROVE  ChangesPinned'
  <2>1. CASE Refused
    BY <1>11, <2>1, Zenon DEF Modify, ChangesPinned
  <2>2. CASE ~Refused
    <3>1. held[p] = {} /\ mode = "run"
      BY <1>11, Zenon DEF Modify, At, CallInv
    <3>2. held' = [held EXCEPT ![p] = {b}]
      BY <1>11, <2>2 DEF Modify
    <3> QED
      BY <1>11, <3>1, <3>2 DEF Modify, Kinds, ChangesPinned
  <2> QED
    BY <2>1, <2>2, SMTT(30)
<1>12. ASSUME NEW b \in Blocks, Recycle(b) PROVE ChangesPinned'
  <2>1. \A x \in Blocks : cache'[x] = cache[x] \/ cache'[x] = disk[x]
    BY <1>12 DEF Recycle, Kinds
  <2>2. mode = "run" /\ UNCHANGED <<disk, dirty, lh, held>>
    BY <1>12, SMTT(30) DEF Recycle
  <2> QED
    BY <2>1, <2>2 DEF ChangesPinned
<1>13. CASE Crash
  BY <1>13 DEF Crash, ChangesPinned
<1>14. CASE ReadHead
  BY <1>14, SMTT(30) DEF ReadHead, ChangesPinned
<1>15. CASE RecoverInstall
  BY <1>15 DEF RecoverInstall, InstallBlock, ChangesPinned
<1>16. CASE RecoverErase
  BY <1>16 DEF RecoverErase, InstallInv, ChangesPinned, Up
<1> QED
  BY <1>1, <1>2, <1>3, <1>4, <1>5, <1>6, <1>7, <1>8, <1>9, <1>10, <1>11,
     <1>12, <1>13, <1>14, <1>15, <1>16 DEF Next, CommitStep

(* If each of finitely many processes has written at most n blocks, there  *)
(* are at most n pairs of a process and a block for each process.          *)
LEMMA PairsBound ==
  ASSUME NEW P, IsFiniteSet(P), NEW B, NEW n \in Nat, NEW w,
         \A p \in P : IsFiniteSet(w[p]) /\ Cardinality(w[p]) <= n,
         NEW W, W \subseteq {pb \in P \X B : pb[2] \in w[pb[1]]}
  PROVE  IsFiniteSet(W) /\ Cardinality(W) <= Cardinality(P) * n
<1> DEFINE num(p) == {e \in [w[p] -> 1..n] :
                        \A a, b \in w[p] : e[a] = e[b] => a = b}
           g(p) == CHOOSE e : e \in num(p)
           h == [pb \in W |-> <<pb[1], g(pb[1])[pb[2]]>>]
<1>1. ASSUME NEW p \in P PROVE g(p) \in num(p)
  <2> DEFINE c == Cardinality(w[p])
  <2>1. c \in Nat /\ c <= n /\ ExistsBijection(1..c, w[p])
    BY FS_CardinalityType
  <2> HIDE DEF c
  <2>2. PICK f : \A y \in w[p] : \E i \in 1..c : f[i] = y
    BY <2>1 DEF ExistsBijection, Bijection, Surjection
  <2> DEFINE e == [y \in w[p] |-> CHOOSE i \in 1..c : f[i] = y]
  <2>3. \A y \in w[p] : e[y] \in 1..c /\ f[e[y]] = y
    BY <2>2
  <2>4. e \in [w[p] -> 1..n]
    <3>1. \A y \in w[p] : (CHOOSE i \in 1..c : f[i] = y) \in 1..n
      BY <2>1, <2>2
    <3> QED
      BY <3>1
  <2>5. e \in num(p)
    BY <2>3, <2>4
  <2> QED
    BY <2>5, Zenon
<1>2. ASSUME NEW pb \in W
      PROVE  /\ pb[1] \in P /\ pb[2] \in w[pb[1]] /\ pb = <<pb[1], pb[2]>>
             /\ g(pb[1]) \in num(pb[1])
  BY <1>1
<1> HIDE DEF g
<1>3. h \in [W -> P \X (1..n)]
  BY <1>2
<1>4. ASSUME NEW a \in W, NEW b \in W, h[a] = h[b] PROVE a = b
  BY <1>2, <1>4
<1> HIDE DEF h
<1>5. h \in Injection(W, P \X (1..n))
  BY <1>3, <1>4 DEF Injection, IsInjective
<1>6. IsFiniteSet(P \X (1..n)) /\ Cardinality(P \X (1..n)) = Cardinality(P) * n
  <2>1. IsFiniteSet(1..n) /\ Cardinality(1..n) = n
    BY FS_Interval
  <2> QED
    BY <2>1, FS_Product, Zenon
<1> QED
  BY <1>5, <1>6, FS_Injection

(* The open calls have written at most MAXOPBLOCKS blocks each. *)
LEMMA WrittenBound ==
  ASSUME Kinds, CallInv, CommitInv
  PROVE  /\ IsFiniteSet(Logged) /\ Cardinality(Logged) \in Nat
         /\ Cardinality(Logged) <= outstanding * MAXOPBLOCKS
<1>1. \A p \in InOp :
        IsFiniteSet(wrote[p]) /\ Cardinality(wrote[p]) <= MAXOPBLOCKS
  BY DEF CallInv, Finite, InOp
<1>2. Logged \subseteq {pb \in InOp \X Blocks : pb[2] \in wrote[pb[1]]}
  BY DEF CallInv, Logged
<1>3. /\ IsFiniteSet(Logged)
      /\ Cardinality(Logged) <= Cardinality(InOp) * MAXOPBLOCKS
  BY <1>1, <1>2, OpsFinite, PairsBound, Zenon
<1>4. Cardinality(InOp) = outstanding
  BY DEF CommitInv, CommitAlone
<1> QED
  BY <1>3, <1>4, FS_CardinalityType

(* The reservations keep the header within LOGSIZE while the system runs. *)
LEMMA RunBound ==
  ASSUME Kinds, CallInv, CommitInv, ReservationHolds, mode = "run"
  PROVE  Len(lh) <= LOGSIZE
<1>1. Len(lh) \in Nat
  BY DEF Kinds
<1>2. outstanding * MAXOPBLOCKS \in Int
  BY DEF Kinds
<1> DEFINE r == outstanding * MAXOPBLOCKS
<1>3. (Len(lh) + r) - Cardinality(Logged) <= LOGSIZE
  BY DEF ReservationHolds
<1>4. r \in Int /\ Cardinality(Logged) \in Nat /\ Cardinality(Logged) <= r
  BY <1>2, WrittenBound
<1> HIDE DEF r
<1> QED
  BY <1>1, <1>3, <1>4

(* A step that leaves the header and outstanding alone and takes nothing   *)
(* away from what open calls have logged keeps the reservations.           *)
LEMMA LoggedGrows ==
  ASSUME Kinds, CallInv, CommitInv, ReservationHolds, mode = "run",
         IsFiniteSet(Logged'), Logged \subseteq Logged',
         UNCHANGED <<lh, outstanding>>
  PROVE  ReservationHolds'
<1> DEFINE r == outstanding * MAXOPBLOCKS
<1>1. Len(lh) \in Nat /\ r \in Int
  BY DEF Kinds
<1>2. (Len(lh) + r) - Cardinality(Logged) <= LOGSIZE
  BY DEF ReservationHolds
<1>3. /\ Cardinality(Logged) <= Cardinality(Logged')
      /\ Cardinality(Logged) \in Nat /\ Cardinality(Logged') \in Nat
  BY FS_Subset, FS_CardinalityType
<1>4. outstanding' * MAXOPBLOCKS = r /\ Len(lh') = Len(lh)
  OBVIOUS
<1> HIDE DEF r
<1>5. (Len(lh) + r) - Cardinality(Logged') <= LOGSIZE
  BY <1>1, <1>2, <1>3
<1> QED
  BY <1>4, <1>5 DEF ReservationHolds

(* Every step keeps the reservations of the open calls within the log      *)
(* (ReservationHolds): a block that log_write adds uses up one that its    *)
(* call has reserved, and end_op gives the unused ones back.               *)
LEMMA ReservationStep ==
  Kinds /\ CallInv /\ CommitInv /\ HeaderInv /\ ReservationHolds
    /\ [Next]_vars => ReservationHolds'
<1> SUFFICES ASSUME Kinds, CallInv, CommitInv, HeaderInv, ReservationHolds,
                    [Next]_vars
             PROVE  ReservationHolds'
  OBVIOUS
<1>0. /\ IsFiniteSet(Logged)' /\ (Cardinality(Logged) \in Nat)'
  <2>1. Kinds' /\ CallInv' /\ CommitInv'
    BY KindStep, CallStep, CommitsStep
  <2> QED
    BY <2>1, WrittenBound, PTL
<1>1. CASE UNCHANGED vars
  <2>1. Logged' = Logged
    BY <1>1 DEF vars, Logged
  <2> QED
    BY <1>1, <2>1 DEF vars, ReservationHolds
<1>2. ASSUME NEW p \in Procs, BeginOp(p) PROVE ReservationHolds'
  <2>1. Logged' = Logged /\ mode = "run" /\ lh' = lh
    BY <1>2 DEF BeginOp, Logged, At
  <2>2. CASE committing \/ NoRoom
    <3>1. outstanding' = outstanding
      BY <1>2, <2>2 DEF BeginOp
    <3> QED
      BY <2>1, <3>1, LoggedGrows, WrittenBound
  <2>3. CASE ~committing /\ ~NoRoom
    <3> DEFINE r == (outstanding + 1) * MAXOPBLOCKS
    <3>1. outstanding' * MAXOPBLOCKS = r
      BY <1>2, <2>3 DEF BeginOp
    <3>2. Len(lh) \in Nat /\ r \in Int /\ ~(Len(lh) + r > LOGSIZE)
      BY <2>3 DEF NoRoom, Kinds
    <3> HIDE DEF r
    <3>3. (Len(lh) + r) - Cardinality(Logged) <= LOGSIZE
      BY <3>2, WrittenBound
    <3> QED
      BY <2>1, <3>1, <3>3 DEF ReservationHolds
  <2> QED
    BY <2>2, <2>3
<1>3. ASSUME NEW p \in Procs, LogWrite(p) PROVE ReservationHolds'
  <2>1. PICK b \in Blocks : held[p] = {b}
    BY <1>3 DEF LogWrite, At, CallInv
  <2>2. lh' = Absorb(b) /\ UNCHANGED <<outstanding, wrote>> /\ mode = "run"
    BY <1>3, <2>1 DEF LogWrite, At
  <2>3. CASE Listed(lh, b)
    <3>1. lh' = lh /\ Logged' = Logged
      BY <2>2, <2>3, AbsorbIs DEF Logged
    <3> QED
      BY <2>2, <3>1, LoggedGrows, WrittenBound, SMTT(30)
  <2>4. CASE ~Listed(lh, b)
    <3>1. Len(lh') = Len(lh) + 1
      BY <2>2, <2>4, AbsorbIs
    <3>2. <<p, b>> \notin Logged
      BY <2>4 DEF Logged
    <3>3. Logged \cup {<<p, b>>} \subseteq Logged'
      <4>1. b \in wrote[p]
        BY <2>1 DEF CallInv
      <4>2. Listed(lh', b)
        BY <2>2, AbsorbKeeps
      <4>3. \A x \in Blocks : Listed(lh, x) => Listed(lh', x)
        BY <2>2, AbsorbKeeps
      <4>4. <<p, b>> \in Logged'
        BY <2>2, <4>1, <4>2 DEF Logged
      <4>5. Logged \subseteq Logged'
        BY <2>2, <4>3 DEF Logged
      <4> QED
        BY <4>4, <4>5, Zenon
    <3>4. Cardinality(Logged) + 1 <= Cardinality(Logged')
      <4>1. Cardinality(Logged \cup {<<p, b>>}) = Cardinality(Logged) + 1
        BY <3>2, WrittenBound, FS_AddElement, Zenon
      <4> QED
        BY <1>0, <3>3, <4>1, FS_Subset
    <3> DEFINE r == outstanding * MAXOPBLOCKS
    <3>5. Len(lh) \in Nat /\ r \in Int /\ outstanding' * MAXOPBLOCKS = r
      BY <2>2 DEF Kinds
    <3>6. (Len(lh) + r) - Cardinality(Logged) <= LOGSIZE
      BY <2>2 DEF ReservationHolds
    <3> HIDE DEF r
    <3>7. (Len(lh') + r) - Cardinality(Logged') <= LOGSIZE
      BY <1>0, <3>1, <3>4, <3>5, <3>6, WrittenBound
    <3> QED
      BY <3>5, <3>7 DEF ReservationHolds
  <2> QED
    BY <2>3, <2>4, SMTT(30)
<1>4. ASSUME NEW p \in Procs, EndOp(p) PROVE ReservationHolds'
  <2> DEFINE mine == {pb \in Logged : pb[1] = p}
  <2>1. mode = "run" /\ lh' = lh /\ outstanding' = outstanding - 1
    BY <1>4 DEF EndOp, At, OneLess
  <2>2. Logged \ mine \subseteq Logged'
    BY <1>4 DEF Logged, EndOp
  <2>3. IsFiniteSet(mine) /\ Cardinality(mine) <= MAXOPBLOCKS
    <3>1. IsFiniteSet({p}) /\ Cardinality({p}) = 1
      BY FS_Singleton, Zenon
    <3>2. \A q \in {p} :
            IsFiniteSet(wrote[q]) /\ Cardinality(wrote[q]) <= MAXOPBLOCKS
      BY DEF CallInv, Finite
    <3>3. mine \subseteq {pb \in {p} \X Blocks : pb[2] \in wrote[pb[1]]}
      BY DEF Logged
    <3> HIDE DEF mine
    <3>4. /\ IsFiniteSet(mine)
          /\ Cardinality(mine) <= Cardinality({p}) * MAXOPBLOCKS
      BY <3>1, <3>2, <3>3, PairsBound, Zenon
    <3> QED
      BY <3>1, <3>4
  <2>4. Cardinality(Logged) - Cardinality(mine) <= Cardinality(Logged')
    <3>1. Logged \cap mine = mine
      OBVIOUS
    <3> HIDE DEF mine
    <3>2. /\ IsFiniteSet(Logged \ mine)
          /\ Cardinality(Logged \ mine) =
               Cardinality(Logged) - Cardinality(mine)
      <4>1. IsFiniteSet(Logged)
        BY WrittenBound
      <4>2. /\ IsFiniteSet(Logged \ mine)
            /\ Cardinality(Logged \ mine)
                 = Cardinality(Logged) - Cardinality(Logged \cap mine)
        BY <4>1, FS_Difference, Zenon
      <4> QED
        BY <3>1, <4>2, Zenon
    <3>3. Cardinality(Logged \ mine) <= Cardinality(Logged')
      BY <1>0, <2>2, FS_Subset
    <3> QED
      BY <3>2, <3>3
  <2>5. Cardinality(mine) \in Nat
    BY <2>3, FS_CardinalityType
  <2> HIDE DEF mine
  <2> DEFINE r == outstanding * MAXOPBLOCKS
  <2>6. /\ r \in Int /\ Len(lh) \in Nat
        /\ outstanding' * MAXOPBLOCKS = r - MAXOPBLOCKS
    BY <2>1 DEF Kinds
  <2>7. (Len(lh) + r) - Cardinality(Logged) <= LOGSIZE
    BY <2>1 DEF ReservationHolds
  <2> HIDE DEF r
  <2>8. (Len(lh') + (r - MAXOPBLOCKS)) - Cardinality(Logged') <= LOGSIZE
    BY <1>0, <2>1, <2>3, <2>4, <2>5, <2>6, <2>7, WrittenBound
  <2> QED
    BY <2>6, <2>8 DEF ReservationHolds
<1>5. ASSUME NEW p \in Procs, Commit(p) PROVE ReservationHolds'
  <2>1. Logged' = Logged /\ UNCHANGED <<lh, outstanding>> /\ mode = "run"
    BY <1>5 DEF Commit, Logged, At
  <2> QED
    BY <2>1, LoggedGrows, WrittenBound
<1>6. ASSUME NEW p \in Procs, WriteLog(p) PROVE ReservationHolds'
  <2>1. Logged' = Logged /\ UNCHANGED <<lh, outstanding>> /\ mode = "run"
    BY <1>6 DEF WriteLog, Logged, At
  <2> QED
    BY <2>1, LoggedGrows, WrittenBound
<1>7. ASSUME NEW p \in Procs, WriteHead(p) PROVE ReservationHolds'
  <2>1. Logged' = Logged /\ UNCHANGED <<lh, outstanding>> /\ mode = "run"
    BY <1>7 DEF WriteHead, Logged, At
  <2> QED
    BY <2>1, LoggedGrows, WrittenBound
<1>8. ASSUME NEW p \in Procs, Install(p) PROVE ReservationHolds'
  <2>1. Logged' = Logged /\ UNCHANGED <<lh, outstanding>> /\ mode = "run"
    BY <1>8 DEF Install, InstallBlock, Logged, At
  <2> QED
    BY <2>1, LoggedGrows, WrittenBound, SMTT(30)
<1>9. ASSUME NEW p \in Procs, Erase(p) PROVE ReservationHolds'
  <2>1. Len(lh') = 0 /\ outstanding' = 0
    BY <1>9 DEF Erase, At, CommitAlone, CommitInv, Committers
  <2> QED
    BY <1>0, <2>1 DEF ReservationHolds
<1>10. ASSUME NEW p \in Procs, Committed(p) PROVE ReservationHolds'
  <2>1. Logged' = Logged /\ UNCHANGED <<lh, outstanding>> /\ mode = "run"
    BY <1>10, Zenon DEF Committed, Logged, At
  <2> QED
    BY <2>1, LoggedGrows, WrittenBound, SMTT(30)
<1>11. ASSUME NEW p \in Procs, NEW b \in Blocks, NEW v \in Vals,
              Modify(p, b, v)
      PROVE  ReservationHolds'
  <2>1. UNCHANGED <<lh, outstanding>> /\ mode = "run"
    BY <1>11 DEF Modify, At
  <2>2. \A q \in Procs : wrote[q] \subseteq wrote'[q]
    <3>1. wrote' = wrote \/ wrote' = [wrote EXCEPT ![p] = wrote[p] \cup {b}]
      BY <1>11 DEF Modify
    <3> QED
      BY <3>1 DEF Kinds
  <2>3. Logged \subseteq Logged'
    BY <2>1, <2>2 DEF Logged
  <2> QED
    BY <1>0, <2>1, <2>3, LoggedGrows
<1>12. ASSUME NEW b \in Blocks, Recycle(b) PROVE ReservationHolds'
  <2>1. Logged' = Logged /\ UNCHANGED <<lh, outstanding>> /\ mode = "run"
    BY <1>12 DEF Recycle, Logged, At
  <2> QED
    BY <2>1, LoggedGrows, WrittenBound
<1>13. CASE Crash
  BY <1>13 DEF Crash, ReservationHolds
<1>14. CASE ReadHead
  BY <1>14 DEF ReadHead, ReservationHolds
<1>15. CASE RecoverInstall
  BY <1>15 DEF RecoverInstall, ReservationHolds
<1>16. CASE RecoverErase
  <2>1. InOp = {}
    BY <1>16 DEF RecoverErase, InOp, CallInv, Up
  <2>2. Len(lh') = 0 /\ outstanding' = 0
    BY <1>16, <2>1, FS_EmptySet DEF RecoverErase, CommitAlone, CommitInv
  <2> QED
    BY <1>0, <2>2 DEF ReservationHolds
<1> QED
  BY <1>1, <1>2, <1>3, <1>4, <1>5, <1>6, <1>7, <1>8, <1>9, <1>10, <1>11,
     <1>12, <1>13, <1>14, <1>15, <1>16 DEF Next, CommitStep
=============================================================================
