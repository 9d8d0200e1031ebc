----------------------------- MODULE ProcProofs -----------------------------
(***************************************************************************)
(* Proofs about Proc for any number of slots, CPUs and pids.               *)
(*                                                                         *)
(* The safety properties of Proc are not inductive: that a child belongs   *)
(* to a live parent, say, depends on who owns each EMBRYO slot while       *)
(* fork() runs without ptable.lock.  The strengthening is built in layers, *)
(* each inductive relative to the ones before:                             *)
(*   TypeOK  -> ForkInv  -> {PidInv, OneCpuEach, MemInv, ParentInv,      *)
(*     ChanInv}  -> NoMissedExit, NoMissedChild                            *)
(***************************************************************************)
EXTENDS Proc, TLAPS

(* Who owns the slots fork() is filling in, and where threads may be. *)
ForkInv ==
  /\ Live(initproc) /\ pc[initproc] # "exit_lock"
  /\ \A p \in Procs : pc[p] # "none" <=> Live(p)
  /\ \A p \in Procs : Forking(p) =>
       arg[p] \in Procs /\ state[arg[p]] = "EMBRYO"
  /\ \A p, q \in Procs : Forking(p) /\ Forking(q) /\ arg[p] = arg[q] => p = q
  /\ \A q \in Procs : state[q] = "EMBRYO" =>
       \E p \in Procs : Forking(p) /\ arg[p] = q

(* Pids come from nextpid and are not reused, not even the stale ones. *)
PidInv ==
  /\ \A p \in Procs : pid[p] < nextpid
  /\ \A p, q \in Procs : pid[p] = pid[q] /\ p # q => pid[p] = 0
  /\ \A p \in Procs : state[p] # "UNUSED" => pid[p] # 0

(* What each slot holds at each stage of fork() and exit(). *)
MemInv ==
  /\ \A p \in Procs : Live(p) =>
       kstack[p] /\ pgdir[p] /\ (open[p] <=> pc[p] # "exit_lock")
  /\ \A p \in Procs : state[p] = "ZOMBIE" => kstack[p] /\ pgdir[p] /\ ~open[p]
  /\ \A p \in Procs : state[p] = "UNUSED" =>
       ~kstack[p] /\ ~pgdir[p] /\ ~open[p]
  /\ \A p \in Procs : Forking(p) =>
       /\ kstack[arg[p]] <=> pc[p] # "fork_kalloc"
       /\ pgdir[arg[p]] <=> pc[p] = "fork_run"
       /\ open[arg[p]] <=> pc[p] = "fork_run"

(* Whose child each slot is; a slot being filled in has no parent until    *)
(* fork() sets it.                                                         *)
ParentInv ==
  /\ \A p \in Procs : state[p] = "UNUSED" => parent[p] = 0
  /\ \A p \in Procs : pc[p] = "fork_run" => parent[arg[p]] = p
  /\ \A p \in Procs : pc[p] \in {"fork_kalloc", "fork_copy"} =>
       parent[arg[p]] = 0
  /\ \A p \in Procs \ {initproc} : Live(p) \/ state[p] = "ZOMBIE" =>
       parent[p] \in Procs /\ Live(parent[p]) /\ parent[p] # p

(* Channels, and the owner of ptable.lock between two steps. *)
ChanInv ==
  /\ \A p \in Procs : chan[p] \in {0, p, Ticks}
  /\ \A p \in Procs : chan[p] # 0 => state[p] \in {"SLEEPING", "RUNNABLE"}
  /\ \A p \in Procs : chan[p] = p => pc[p] \in {"wait", "waitfor"}
  /\ \A p \in Procs : state[p] = "SLEEPING" =>
       \/ chan[p] = p /\ ~killed[p]
       \/ chan[p] = Ticks /\ pc[p] = "sleep"
  /\ ptlock # 0 =>
       state[ptlock] = "RUNNING" /\ pc[ptlock] \in {"wait", "waitfor"}

-----------------------------------------------------------------------------
(* What the proofs need to know of slot numbers and channels. *)
LEMMA SlotFacts ==
  /\ initproc \in Procs /\ 0 \notin Procs /\ Procs \subseteq Nat
  /\ Ticks \notin Procs /\ Ticks # 0
BY NprocAssumption DEF initproc, Procs, Ticks

USE SlotFacts DEF Slot0

(* TypeOK is inductive by itself: every action of proc.c keeps each field  *)
(* of struct proc in its range.                                            *)
LEMMA TypeStep == TypeOK /\ [Next]_vars => TypeOK'
<1> SUFFICES ASSUME TypeOK, [Next]_vars PROVE TypeOK'
  OBVIOUS
<1> USE DEF TypeOK
<1>1. CASE UNCHANGED vars
  BY <1>1 DEF vars
<1>2. CASE Tick
  BY <1>2 DEF Tick, wakeup1, States
<1>3. ASSUME NEW p \in Procs, Syscall(p) PROVE TypeOK'
  <2>1. pc' \in [Procs -> PCs]
    BY <1>3, CallsAssumption DEF Syscall, Goto, PCs
  <2>2. arg' \in [Procs -> Nat]
    BY <1>3, CallsAssumption DEF Syscall
  <2> QED
    BY <1>3, <2>1, <2>2 DEF Syscall
<1>4. ASSUME NEW p \in Procs, Fault(p) PROVE TypeOK'
  BY <1>4 DEF Fault, Goto, PCs
<1>5. ASSUME NEW p \in Procs, Yield(p) PROVE TypeOK'
  BY <1>5 DEF Yield, LeaveCpu, States
<1>6. ASSUME NEW p \in Procs, NEW c \in CPUs, Schedule(c, p) PROVE TypeOK'
  BY <1>6 DEF Schedule, States
<1>7. ASSUME NEW p \in Procs, Return(p) PROVE TypeOK'
  BY <1>7 DEF Return, Goto, PCs
<1>8. ASSUME NEW p \in Procs, TrapKilled(p) PROVE TypeOK'
  BY <1>8 DEF TrapKilled, Goto, PCs
<1>9. ASSUME NEW p \in Procs, AllocProc(p) PROVE TypeOK'
  <2>1. pid' \in [Procs -> 0..MaxPid] /\ nextpid' \in 1..MaxPid + 1
    BY <1>9, MaxPidAssumption DEF AllocProc, TakePid
  <2>2. pc' \in [Procs -> PCs]
    BY <1>9 DEF AllocProc, Goto, PCs
  <2> QED
    BY <1>9, <2>1, <2>2 DEF AllocProc, First, FreeSlots, States
<1>10. ASSUME NEW p \in Procs, AllocStack(p) PROVE TypeOK'
  BY <1>10, Zenon DEF AllocStack, Goto, PCs, States
<1>11. ASSUME NEW p \in Procs, CopyProc(p) PROVE TypeOK'
  <2>1. state' \in [Procs -> States] /\ parent' \in [Procs -> Slot0]
    BY <1>11 DEF CopyProc, States
  <2>2. pc' \in [Procs -> PCs]
    BY <1>11 DEF CopyProc, Goto, PCs
  <2> QED
    BY <1>11, <2>1, <2>2, Zenon DEF CopyProc
<1>12. ASSUME NEW p \in Procs, ForkRun(p) PROVE TypeOK'
  BY <1>12, Zenon DEF ForkRun, PCs, States
<1>13. ASSUME NEW p \in Procs, ExitClose(p) PROVE TypeOK'
  BY <1>13, Zenon DEF ExitClose, Goto, PCs
<1>14. ASSUME NEW p \in Procs, ExitZombie(p) PROVE TypeOK'
  BY <1>14 DEF ExitZombie, wakeup1, Reparent, LeaveCpu, Goto, PCs, States
<1>15. ASSUME NEW p \in Procs, NEW z \in Procs, Reap(p, z) PROVE TypeOK'
  <2>1. pid' \in [Procs -> 0..MaxPid]
    BY <1>15, MaxPidAssumption DEF Reap
  <2> QED
    BY <1>15, <2>1 DEF Reap, Goto, PCs, States
<1>16. ASSUME NEW p \in Procs, SleepInWait(p) PROVE TypeOK'
  BY <1>16 DEF SleepInWait, LeaveCpu, States
<1>17. ASSUME NEW p \in Procs, GiveUp(p) PROVE TypeOK'
  BY <1>17 DEF GiveUp, Goto, PCs
<1>18. ASSUME NEW p \in Procs, Wait(p) \/ WaitForProcess(p) PROVE TypeOK'
  BY <1>18, <1>15, <1>16, <1>17 DEF Wait, WaitForProcess, Scan, First, Children
<1>19. ASSUME NEW p \in Procs, Kill(p) PROVE TypeOK'
  BY <1>19 DEF Kill, Goto, PCs, States
<1>20. ASSUME NEW p \in Procs, SleepTest(p) PROVE TypeOK'
  BY <1>20 DEF SleepTest, Goto, PCs
<1>21. ASSUME NEW p \in Procs, SleepOnTicks(p) PROVE TypeOK'
  BY <1>21 DEF SleepOnTicks, LeaveCpu, Goto, PCs, States
<1> QED
  BY <1>1, <1>2, <1>3, <1>4, <1>5, <1>6, <1>7, <1>8, <1>9, <1>10, <1>11, <1>12,
    <1>13, <1>14, <1>18, <1>19, <1>20, <1>21, Zenon DEF Next, Kernel

(* The table userinit leaves is well formed. *)
LEMMA InitType == Init => TypeOK
<1> SUFFICES ASSUME Init PROVE TypeOK
  OBVIOUS
<1>1. pid \in [Procs -> 0..MaxPid] /\ nextpid \in 1..MaxPid + 1
  BY MaxPidAssumption DEF Init
<1> QED
  BY <1>1, Zenon DEF Init, TypeOK, PCs, States

(* The process table always holds well-formed entries. *)
THEOREM TypeCorrect == Spec => []TypeOK
BY InitType, TypeStep, PTL DEF Spec

-----------------------------------------------------------------------------

(* Only the fork() that owns an EMBRYO slot changes it or frees it, though  *)
(* it runs without ptable.lock, and init never leaves the live states.     *)
LEMMA ForkStep == TypeOK /\ ForkInv /\ [Next]_vars => ForkInv'
<1> SUFFICES ASSUME TypeOK, ForkInv, [Next]_vars PROVE ForkInv'
  OBVIOUS
<1>t. /\ state \in [Procs -> States] /\ pc \in [Procs -> PCs]
      /\ arg \in [Procs -> Nat]
  BY DEF TypeOK
<1> USE <1>t DEF ForkInv, Live, Forking, At
<1>1. CASE UNCHANGED vars
  BY <1>1 DEF vars
<1>2. CASE Tick
  BY <1>2 DEF Tick, wakeup1
<1>3. ASSUME NEW p \in Procs, Syscall(p) PROVE ForkInv'
  BY <1>3, CallsAssumption DEF Syscall, Goto
<1>4. ASSUME NEW p \in Procs, Fault(p) PROVE ForkInv'
  BY <1>4 DEF Fault, Goto
<1>5. ASSUME NEW p \in Procs, Yield(p) PROVE ForkInv'
  BY <1>5 DEF Yield, LeaveCpu
<1>6. ASSUME NEW p \in Procs, NEW c \in CPUs, Schedule(c, p) PROVE ForkInv'
  BY <1>6 DEF Schedule
<1>7. ASSUME NEW p \in Procs, Return(p) PROVE ForkInv'
  BY <1>7 DEF Return, Goto
<1>8. ASSUME NEW p \in Procs, TrapKilled(p) PROVE ForkInv'
  BY <1>8 DEF TrapKilled, Goto
<1>9. ASSUME NEW p \in Procs, AllocProc(p) PROVE ForkInv'
  BY <1>9 DEF AllocProc, TakePid, First, FreeSlots, Goto
<1>10. ASSUME NEW p \in Procs, AllocStack(p) PROVE ForkInv'
  BY <1>10 DEF AllocStack, Goto
<1>11. ASSUME NEW p \in Procs, CopyProc(p) PROVE ForkInv'
  BY <1>11 DEF CopyProc, Goto
<1>12. ASSUME NEW p \in Procs, ForkRun(p) PROVE ForkInv'
  BY <1>12 DEF ForkRun
<1>13. ASSUME NEW p \in Procs, ExitClose(p) PROVE ForkInv'
  BY <1>13 DEF ExitClose, Goto
<1>14. ASSUME NEW p \in Procs, ExitZombie(p) PROVE ForkInv'
  BY <1>14 DEF ExitZombie, wakeup1, Reparent, Children, LeaveCpu, Goto
<1>15. ASSUME NEW p \in Procs, Kill(p) PROVE ForkInv'
  BY <1>15 DEF Kill, Goto
<1>16. ASSUME NEW p \in Procs, SleepTest(p) PROVE ForkInv'
  BY <1>16 DEF SleepTest, Goto
<1>17. ASSUME NEW p \in Procs, SleepOnTicks(p) PROVE ForkInv'
  BY <1>17 DEF SleepOnTicks, LeaveCpu, Goto
<1>18. ASSUME NEW p \in Procs, Wait(p) \/ WaitForProcess(p) PROVE ForkInv'
  BY <1>18 DEF Wait, WaitForProcess, Scan, First, Children, Reap, SleepInWait,
              GiveUp, LeaveCpu, Goto
<1> QED
  BY <1>1, <1>2, <1>3, <1>4, <1>5, <1>6, <1>7, <1>8, <1>9, <1>10, <1>11, <1>12,
    <1>13, <1>14, <1>15, <1>16, <1>17, <1>18, Zenon DEF Next, Kernel

(* nextpid++ keeps pids distinct; a failed fork leaves a pid nobody reuses. *)
LEMMA PidStep == TypeOK /\ ForkInv /\ PidInv /\ [Next]_vars => PidInv'
<1> SUFFICES ASSUME TypeOK, ForkInv, PidInv, [Next]_vars PROVE PidInv'
  OBVIOUS
<1>t. /\ state \in [Procs -> States] /\ pid \in [Procs -> 0..MaxPid]
      /\ nextpid \in 1..MaxPid + 1
  BY DEF TypeOK
<1> USE <1>t DEF ForkInv, Live, Forking, At, PidInv
<1>1. CASE UNCHANGED vars
  BY <1>1 DEF vars
<1>2. CASE Tick
  BY <1>2 DEF Tick, wakeup1
<1>3. ASSUME NEW p \in Procs, Syscall(p) PROVE PidInv'
  BY <1>3, CallsAssumption DEF Syscall, Goto
<1>4. ASSUME NEW p \in Procs, Fault(p) PROVE PidInv'
  BY <1>4 DEF Fault, Goto
<1>5. ASSUME NEW p \in Procs, Yield(p) PROVE PidInv'
  BY <1>5 DEF Yield, LeaveCpu
<1>6. ASSUME NEW p \in Procs, NEW c \in CPUs, Schedule(c, p) PROVE PidInv'
  BY <1>6 DEF Schedule
<1>7. ASSUME NEW p \in Procs, Return(p) PROVE PidInv'
  BY <1>7 DEF Return, Goto
<1>8. ASSUME NEW p \in Procs, TrapKilled(p) PROVE PidInv'
  BY <1>8 DEF TrapKilled, Goto
<1>9. ASSUME NEW p \in Procs, AllocProc(p) PROVE PidInv'
  BY <1>9 DEF AllocProc, TakePid, First, FreeSlots, Goto
<1>10. ASSUME NEW p \in Procs, AllocStack(p) PROVE PidInv'
  BY <1>10 DEF AllocStack, Goto
<1>11. ASSUME NEW p \in Procs, CopyProc(p) PROVE PidInv'
  BY <1>11 DEF CopyProc, Goto
<1>12. ASSUME NEW p \in Procs, ForkRun(p) PROVE PidInv'
  BY <1>12 DEF ForkRun
<1>13. ASSUME NEW p \in Procs, ExitClose(p) PROVE PidInv'
  BY <1>13 DEF ExitClose, Goto
<1>14. ASSUME NEW p \in Procs, ExitZombie(p) PROVE PidInv'
  BY <1>14 DEF ExitZombie, wakeup1, Reparent, Children, LeaveCpu, Goto
<1>15. ASSUME NEW p \in Procs, Kill(p) PROVE PidInv'
  BY <1>15 DEF Kill, Goto
<1>16. ASSUME NEW p \in Procs, SleepTest(p) PROVE PidInv'
  BY <1>16 DEF SleepTest, Goto
<1>17. ASSUME NEW p \in Procs, SleepOnTicks(p) PROVE PidInv'
  BY <1>17 DEF SleepOnTicks, LeaveCpu, Goto
<1>18. ASSUME NEW p \in Procs, Wait(p) \/ WaitForProcess(p) PROVE PidInv'
  BY <1>18 DEF Wait, WaitForProcess, Scan, First, Children, Reap, SleepInWait,
              GiveUp, LeaveCpu, Goto
<1> QED
  BY <1>1, <1>2, <1>3, <1>4, <1>5, <1>6, <1>7, <1>8, <1>9, <1>10, <1>11,
     <1>12, <1>13, <1>14, <1>15, <1>16, <1>17, <1>18 DEF Next, Kernel

(* Every way off a CPU (yield, sleep, exit) clears c->proc with p->state.   *)
LEMMA CpuStep == TypeOK /\ ForkInv /\ OneCpuEach /\ [Next]_vars => OneCpuEach'
<1> SUFFICES ASSUME TypeOK, ForkInv, OneCpuEach, [Next]_vars PROVE OneCpuEach'
  OBVIOUS
<1>t. state \in [Procs -> States] /\ cpu \in [CPUs -> Slot0]
  BY DEF TypeOK
<1> USE <1>t DEF ForkInv, Live, Forking, At, OneCpuEach
<1>1. CASE UNCHANGED vars
  BY <1>1 DEF vars
<1>2. CASE Tick
  BY <1>2 DEF Tick, wakeup1
<1>3. ASSUME NEW p \in Procs, Syscall(p) PROVE OneCpuEach'
  BY <1>3, CallsAssumption DEF Syscall, Goto
<1>4. ASSUME NEW p \in Procs, Fault(p) PROVE OneCpuEach'
  BY <1>4 DEF Fault, Goto
<1>5. ASSUME NEW p \in Procs, Yield(p) PROVE OneCpuEach'
  BY <1>5 DEF Yield, LeaveCpu
<1>6. ASSUME NEW p \in Procs, NEW c \in CPUs, Schedule(c, p) PROVE OneCpuEach'
  BY <1>6 DEF Schedule
<1>7. ASSUME NEW p \in Procs, Return(p) PROVE OneCpuEach'
  BY <1>7 DEF Return, Goto
<1>8. ASSUME NEW p \in Procs, TrapKilled(p) PROVE OneCpuEach'
  BY <1>8 DEF TrapKilled, Goto
<1>9. ASSUME NEW p \in Procs, AllocProc(p) PROVE OneCpuEach'
  BY <1>9 DEF AllocProc, TakePid, First, FreeSlots, Goto
<1>10. ASSUME NEW p \in Procs, AllocStack(p) PROVE OneCpuEach'
  BY <1>10 DEF AllocStack, Goto
<1>11. ASSUME NEW p \in Procs, CopyProc(p) PROVE OneCpuEach'
  BY <1>11 DEF CopyProc, Goto
<1>12. ASSUME NEW p \in Procs, ForkRun(p) PROVE OneCpuEach'
  BY <1>12 DEF ForkRun
<1>13. ASSUME NEW p \in Procs, ExitClose(p) PROVE OneCpuEach'
  BY <1>13 DEF ExitClose, Goto
<1>14. ASSUME NEW p \in Procs, ExitZombie(p) PROVE OneCpuEach'
  BY <1>14 DEF ExitZombie, wakeup1, Reparent, Children, LeaveCpu, Goto
<1>15. ASSUME NEW p \in Procs, Kill(p) PROVE OneCpuEach'
  BY <1>15 DEF Kill, Goto
<1>16. ASSUME NEW p \in Procs, SleepTest(p) PROVE OneCpuEach'
  BY <1>16 DEF SleepTest, Goto
<1>17. ASSUME NEW p \in Procs, SleepOnTicks(p) PROVE OneCpuEach'
  BY <1>17 DEF SleepOnTicks, LeaveCpu, Goto
<1>18. ASSUME NEW p \in Procs, Wait(p) \/ WaitForProcess(p) PROVE OneCpuEach'
  BY <1>18 DEF Wait, WaitForProcess, Scan, First, Children, Reap, SleepInWait,
              GiveUp, LeaveCpu, Goto
<1> QED
  BY <1>1, <1>2, <1>3, <1>4, <1>5, <1>6, <1>7, <1>8, <1>9, <1>10, <1>11,
     <1>12, <1>13, <1>14, <1>15, <1>16, <1>17, <1>18 DEF Next, Kernel

(* The three outcomes of one scan of the table in wait and waitForProcess. *)
LEMMA ScanCases ==
  ASSUME NEW p \in Procs, NEW who \in SUBSET Procs, Scan(p, who)
  PROVE  \/ \E z \in who : state[z] = "ZOMBIE" /\ Reap(p, z)
         \/ GiveUp(p)
         \/ /\ SleepInWait(p) /\ ~killed[p]
            /\ \E q \in who : TRUE
            /\ \A q \in who : state[q] # "ZOMBIE"
<1> DEFINE zombies == {z \in who : state[z] = "ZOMBIE"}
<1>1. CASE \E z \in First(zombies) : Reap(p, z)
  BY <1>1 DEF First
<1>2. CASE GiveUp(p)
  BY <1>2
<1>3. CASE zombies = {} /\ who # {} /\ ~killed[p] /\ SleepInWait(p)
  BY <1>3, Zenon
<1> QED
  BY <1>1, <1>2, <1>3 DEF Scan

(* Stack, page table and files follow the stages of fork, exit and wait.    *)
LEMMA MemStep == TypeOK /\ ForkInv /\ MemInv /\ [Next]_vars => MemInv'
<1> SUFFICES ASSUME TypeOK, ForkInv, MemInv, [Next]_vars PROVE MemInv'
  OBVIOUS
<1>t. /\ state \in [Procs -> States] /\ pc \in [Procs -> PCs]
      /\ arg \in [Procs -> Nat]
      /\ kstack \in [Procs -> BOOLEAN] /\ pgdir \in [Procs -> BOOLEAN]
      /\ open \in [Procs -> BOOLEAN]
  BY DEF TypeOK
<1> USE <1>t DEF ForkInv, Live, Forking, At, MemInv
<1>1. CASE UNCHANGED vars
  BY <1>1 DEF vars
<1>2. CASE Tick
  BY <1>2 DEF Tick, wakeup1
<1>3. ASSUME NEW p \in Procs, Syscall(p) PROVE MemInv'
  BY <1>3, CallsAssumption DEF Syscall, Goto
<1>4. ASSUME NEW p \in Procs, Fault(p) PROVE MemInv'
  BY <1>4 DEF Fault, Goto
<1>5. ASSUME NEW p \in Procs, Yield(p) PROVE MemInv'
  BY <1>5 DEF Yield, LeaveCpu
<1>6. ASSUME NEW p \in Procs, NEW c \in CPUs, Schedule(c, p) PROVE MemInv'
  BY <1>6 DEF Schedule
<1>7. ASSUME NEW p \in Procs, Return(p) PROVE MemInv'
  BY <1>7 DEF Return, Goto
<1>8. ASSUME NEW p \in Procs, TrapKilled(p) PROVE MemInv'
  BY <1>8 DEF TrapKilled, Goto
<1>9. ASSUME NEW p \in Procs, AllocProc(p) PROVE MemInv'
  BY <1>9 DEF AllocProc, TakePid, First, FreeSlots, Goto
<1>10. ASSUME NEW p \in Procs, AllocStack(p) PROVE MemInv'
  BY <1>10 DEF AllocStack, Goto
<1>11. ASSUME NEW p \in Procs, CopyProc(p) PROVE MemInv'
  BY <1>11 DEF CopyProc, Goto
<1>12. ASSUME NEW p \in Procs, ForkRun(p) PROVE MemInv'
  BY <1>12 DEF ForkRun
<1>13. ASSUME NEW p \in Procs, ExitClose(p) PROVE MemInv'
  BY <1>13 DEF ExitClose, Goto
<1>14. ASSUME NEW p \in Procs, ExitZombie(p) PROVE MemInv'
  BY <1>14 DEF ExitZombie, wakeup1, Reparent, Children, LeaveCpu, Goto
<1>15. ASSUME NEW p \in Procs, Kill(p) PROVE MemInv'
  BY <1>15 DEF Kill, Goto
<1>16. ASSUME NEW p \in Procs, SleepTest(p) PROVE MemInv'
  BY <1>16 DEF SleepTest, Goto
<1>17. ASSUME NEW p \in Procs, SleepOnTicks(p) PROVE MemInv'
  BY <1>17 DEF SleepOnTicks, LeaveCpu, Goto
<1>18. ASSUME NEW p \in Procs, Wait(p) \/ WaitForProcess(p) PROVE MemInv'
  <2>1. pc[p] \in {"wait", "waitfor"} /\ state[p] = "RUNNING"
    BY <1>18 DEF Wait, WaitForProcess
  <2>2. ASSUME NEW z \in Procs, state[z] = "ZOMBIE", Reap(p, z)
        PROVE  MemInv'
    BY <2>1, <2>2 DEF Reap, Goto
  <2>3. CASE GiveUp(p)
    BY <2>1, <2>3 DEF GiveUp, Goto
  <2>4. CASE SleepInWait(p)
    BY <2>1, <2>4 DEF SleepInWait
  <2>5. CASE Wait(p)
    BY <2>2, <2>3, <2>4, <2>5, ScanCases DEF Wait, Children
  <2>6. CASE WaitForProcess(p)
    BY <2>2, <2>3, <2>4, <2>6, ScanCases DEF WaitForProcess
  <2> QED
    BY <1>18, <2>5, <2>6
<1> QED
  BY <1>1, <1>2, <1>3, <1>4, <1>5, <1>6, <1>7, <1>8, <1>9, <1>10, <1>11, <1>12,
    <1>13, <1>14, <1>15, <1>16, <1>17, <1>18, Zenon DEF Next, Kernel

(* exit() gives its children away before it stops being a possible parent.  *)
LEMMA ParentStep == TypeOK /\ ForkInv /\ ParentInv /\ [Next]_vars => ParentInv'
<1> SUFFICES ASSUME TypeOK, ForkInv, ParentInv, [Next]_vars PROVE ParentInv'
  OBVIOUS
<1>t. /\ state \in [Procs -> States] /\ pc \in [Procs -> PCs]
      /\ arg \in [Procs -> Nat] /\ parent \in [Procs -> Slot0]
  BY DEF TypeOK
<1> USE <1>t DEF ForkInv, Live, Forking, At, ParentInv
<1>1. CASE UNCHANGED vars
  BY <1>1 DEF vars
<1>2. CASE Tick
  BY <1>2 DEF Tick, wakeup1
<1>3. ASSUME NEW p \in Procs, Syscall(p) PROVE ParentInv'
  BY <1>3, CallsAssumption DEF Syscall, Goto
<1>4. ASSUME NEW p \in Procs, Fault(p) PROVE ParentInv'
  BY <1>4 DEF Fault, Goto
<1>5. ASSUME NEW p \in Procs, Yield(p) PROVE ParentInv'
  BY <1>5 DEF Yield, LeaveCpu
<1>6. ASSUME NEW p \in Procs, NEW c \in CPUs, Schedule(c, p) PROVE ParentInv'
  BY <1>6 DEF Schedule
<1>7. ASSUME NEW p \in Procs, Return(p) PROVE ParentInv'
  BY <1>7 DEF Return, Goto
<1>8. ASSUME NEW p \in Procs, TrapKilled(p) PROVE ParentInv'
  BY <1>8 DEF TrapKilled, Goto
<1>9. ASSUME NEW p \in Procs, AllocProc(p) PROVE ParentInv'
  <2> USE <1>9 DEF AllocProc, TakePid, First, FreeSlots, Goto
  <2>1. \A q \in Procs : state'[q] = "UNUSED" => parent'[q] = 0
    OBVIOUS
  <2>2. \A q \in Procs : pc'[q] = "fork_run" => parent'[arg'[q]] = q
    OBVIOUS
  <2>3. \A q \in Procs : pc'[q] \in {"fork_kalloc", "fork_copy"} =>
          parent'[arg'[q]] = 0
    OBVIOUS
  <2>4. ASSUME NEW q \in Procs \ {initproc}, Live(q)' \/ state'[q] = "ZOMBIE"
        PROVE  parent'[q] \in Procs /\ Live(parent[q])' /\ parent'[q] # q
    <3>1. Live(q) \/ state[q] = "ZOMBIE"
      BY <2>4
    <3>2. parent'[q] = parent[q]
      BY <2>4
    <3>3. \A r \in Procs : Live(r) => Live(r)'
      OBVIOUS
    <3>4. parent[q] \in Procs /\ Live(parent[q]) /\ parent[q] # q
      BY <3>1
    <3> HIDE <1>t, <1>9
    <3> QED
      BY <3>2, <3>3, <3>4, Zenon
  <2> QED
    BY <2>1, <2>2, <2>3, <2>4
<1>10. ASSUME NEW p \in Procs, AllocStack(p) PROVE ParentInv'
  <2> USE <1>10 DEF AllocStack, Goto
  <2>1. \A q \in Procs : state'[q] = "UNUSED" => parent'[q] = 0
    OBVIOUS
  <2>2. \A q \in Procs : pc'[q] = "fork_run" => parent'[arg'[q]] = q
    OBVIOUS
  <2>3. \A q \in Procs : pc'[q] \in {"fork_kalloc", "fork_copy"} =>
          parent'[arg'[q]] = 0
    OBVIOUS
  <2>4. ASSUME NEW q \in Procs \ {initproc}, Live(q)' \/ state'[q] = "ZOMBIE"
        PROVE  parent'[q] \in Procs /\ Live(parent[q])' /\ parent'[q] # q
    <3>1. Live(q) \/ state[q] = "ZOMBIE"
      BY <2>4
    <3>2. parent'[q] = parent[q]
      BY <2>4
    <3>3. \A r \in Procs : Live(r) => Live(r)'
      OBVIOUS
    <3>4. parent[q] \in Procs /\ Live(parent[q]) /\ parent[q] # q
      BY <3>1
    <3> HIDE <1>t, <1>10
    <3> QED
      BY <3>2, <3>3, <3>4, Zenon
  <2> QED
    BY <2>1, <2>2, <2>3, <2>4
<1>11. ASSUME NEW p \in Procs, CopyProc(p) PROVE ParentInv'
  <2> USE <1>11 DEF CopyProc, Goto
  <2>1. \A q \in Procs : state'[q] = "UNUSED" => parent'[q] = 0
    OBVIOUS
  <2>2. \A q \in Procs : pc'[q] = "fork_run" => parent'[arg'[q]] = q
    OBVIOUS
  <2>3. \A q \in Procs : pc'[q] \in {"fork_kalloc", "fork_copy"} =>
          parent'[arg'[q]] = 0
    OBVIOUS
  <2>4. ASSUME NEW q \in Procs \ {initproc}, Live(q)' \/ state'[q] = "ZOMBIE"
        PROVE  parent'[q] \in Procs /\ Live(parent[q])' /\ parent'[q] # q
    <3>1. Live(q) \/ state[q] = "ZOMBIE"
      BY <2>4
    <3>2. parent'[q] = parent[q]
      BY <2>4
    <3>3. \A r \in Procs : Live(r) => Live(r)'
      OBVIOUS
    <3>4. parent[q] \in Procs /\ Live(parent[q]) /\ parent[q] # q
      BY <3>1
    <3> HIDE <1>t, <1>11
    <3> QED
      BY <3>2, <3>3, <3>4, Zenon
  <2> QED
    BY <2>1, <2>2, <2>3, <2>4
<1>12. ASSUME NEW p \in Procs, ForkRun(p) PROVE ParentInv'
  BY <1>12 DEF ForkRun
<1>13. ASSUME NEW p \in Procs, ExitClose(p) PROVE ParentInv'
  BY <1>13 DEF ExitClose, Goto
<1>14. ASSUME NEW p \in Procs, ExitZombie(p) PROVE ParentInv'
  <2> USE <1>14 DEF ExitZombie, wakeup1, Reparent, Children, Goto
  <2>1. \A q \in Procs : state'[q] = "UNUSED" => parent'[q] = 0
    OBVIOUS
  <2>2. \A q \in Procs : pc'[q] = "fork_run" => parent'[arg'[q]] = q
    OBVIOUS
  <2>3. \A q \in Procs : pc'[q] \in {"fork_kalloc", "fork_copy"} =>
          parent'[arg'[q]] = 0
    OBVIOUS
  <2>4. ASSUME NEW q \in Procs \ {initproc}, Live(q)' \/ state'[q] = "ZOMBIE"
        PROVE  parent'[q] \in Procs /\ Live(parent[q])' /\ parent'[q] # q
    <3>1. Live(q) \/ state[q] = "ZOMBIE"
      BY <2>4
    <3>2. parent'[q] = IF parent[q] = p THEN initproc ELSE parent[q]
      OBVIOUS
    <3>3. p # initproc /\ \A r \in Procs \ {p} : Live(r) => Live(r)'
      OBVIOUS
    <3> QED
      BY <3>1, <3>2, <3>3, Zenon
  <2> QED
    BY <2>1, <2>2, <2>3, <2>4
<1>15. ASSUME NEW p \in Procs, Kill(p) PROVE ParentInv'
  BY <1>15 DEF Kill, Goto
<1>16. ASSUME NEW p \in Procs, SleepTest(p) PROVE ParentInv'
  BY <1>16 DEF SleepTest, Goto
<1>17. ASSUME NEW p \in Procs, SleepOnTicks(p) PROVE ParentInv'
  BY <1>17 DEF SleepOnTicks, LeaveCpu, Goto
<1>18. ASSUME NEW p \in Procs, Wait(p) \/ WaitForProcess(p) PROVE ParentInv'
  BY <1>18 DEF Wait, WaitForProcess, Scan, First, Children, Reap, SleepInWait,
              GiveUp, LeaveCpu, Goto
<1> QED
  BY <1>1, <1>2, <1>3, <1>4, <1>5, <1>6, <1>7, <1>8, <1>9, <1>10, <1>11, <1>12,
    <1>13, <1>14, <1>15, <1>16, <1>17, <1>18, Zenon DEF Next, Kernel

(* A sleeper can be found: p->chan names what it waits for, and the test    *)
(* of p->killed in wait() is made under the lock kill() takes.              *)
LEMMA ChanStep == TypeOK /\ ForkInv /\ ChanInv /\ [Next]_vars => ChanInv'
<1> SUFFICES ASSUME TypeOK, ForkInv, ChanInv, [Next]_vars PROVE ChanInv'
  OBVIOUS
<1>t. /\ state \in [Procs -> States] /\ pc \in [Procs -> PCs]
      /\ arg \in [Procs -> Nat]
      /\ chan \in [Procs -> Slot0 \cup {Ticks}] /\ ptlock \in Slot0
      /\ killed \in [Procs -> BOOLEAN]
  BY DEF TypeOK
<1> USE <1>t DEF ForkInv, Live, Forking, At, ChanInv
<1>1. CASE UNCHANGED vars
  BY <1>1 DEF vars
<1>2. CASE Tick
  BY <1>2 DEF Tick, wakeup1
<1>3. ASSUME NEW p \in Procs, Syscall(p) PROVE ChanInv'
  BY <1>3, CallsAssumption DEF Syscall, Goto
<1>4. ASSUME NEW p \in Procs, Fault(p) PROVE ChanInv'
  BY <1>4 DEF Fault, Goto
<1>5. ASSUME NEW p \in Procs, Yield(p) PROVE ChanInv'
  BY <1>5 DEF Yield, LeaveCpu
<1>6. ASSUME NEW p \in Procs, NEW c \in CPUs, Schedule(c, p) PROVE ChanInv'
  BY <1>6 DEF Schedule
<1>7. ASSUME NEW p \in Procs, Return(p) PROVE ChanInv'
  BY <1>7 DEF Return, Goto
<1>8. ASSUME NEW p \in Procs, TrapKilled(p) PROVE ChanInv'
  BY <1>8 DEF TrapKilled, Goto
<1>9. ASSUME NEW p \in Procs, AllocProc(p) PROVE ChanInv'
  BY <1>9 DEF AllocProc, TakePid, First, FreeSlots, Goto
<1>10. ASSUME NEW p \in Procs, AllocStack(p) PROVE ChanInv'
  BY <1>10 DEF AllocStack, Goto
<1>11. ASSUME NEW p \in Procs, CopyProc(p) PROVE ChanInv'
  BY <1>11 DEF CopyProc, Goto
<1>12. ASSUME NEW p \in Procs, ForkRun(p) PROVE ChanInv'
  BY <1>12 DEF ForkRun
<1>13. ASSUME NEW p \in Procs, ExitClose(p) PROVE ChanInv'
  BY <1>13 DEF ExitClose, Goto
<1>14. ASSUME NEW p \in Procs, ExitZombie(p) PROVE ChanInv'
  BY <1>14 DEF ExitZombie, wakeup1, Reparent, Children, LeaveCpu, Goto
<1>15. ASSUME NEW p \in Procs, Kill(p) PROVE ChanInv'
  BY <1>15 DEF Kill, Goto
<1>16. ASSUME NEW p \in Procs, SleepTest(p) PROVE ChanInv'
  BY <1>16 DEF SleepTest, Goto
<1>17. ASSUME NEW p \in Procs, SleepOnTicks(p) PROVE ChanInv'
  BY <1>17 DEF SleepOnTicks, LeaveCpu, Goto
<1>18. ASSUME NEW p \in Procs, Wait(p) \/ WaitForProcess(p) PROVE ChanInv'
  <2>1. pc[p] \in {"wait", "waitfor"} /\ state[p] = "RUNNING"
        /\ ptlock \in {0, p}
    BY <1>18 DEF Wait, WaitForProcess
  <2>2. ASSUME NEW z \in Procs, state[z] = "ZOMBIE", Reap(p, z)
        PROVE  ChanInv'
    BY <2>1, <2>2 DEF Reap, Goto
  <2>3. CASE GiveUp(p)
    BY <2>1, <2>3 DEF GiveUp, Goto
  <2>4. CASE SleepInWait(p) /\ ~killed[p]
    BY <2>1, <2>4 DEF SleepInWait
  <2>5. CASE Wait(p)
    BY <2>2, <2>3, <2>4, <2>5, ScanCases DEF Wait, Children
  <2>6. CASE WaitForProcess(p)
    BY <2>2, <2>3, <2>4, <2>6, ScanCases DEF WaitForProcess
  <2> QED
    BY <1>18, <2>5, <2>6
<1> QED
  BY <1>1, <1>2, <1>3, <1>4, <1>5, <1>6, <1>7, <1>8, <1>9, <1>10, <1>11, <1>12,
    <1>13, <1>14, <1>15, <1>16, <1>17, <1>18, Zenon DEF Next, Kernel

(* exit() wakes the new parent of every zombie in the same lock section.    *)
LEMMA MissedExitStep ==
  TypeOK /\ ForkInv /\ ParentInv /\ ChanInv /\ NoMissedExit
    /\ [Next]_vars => NoMissedExit'
<1> SUFFICES ASSUME TypeOK, ForkInv, ParentInv, ChanInv,
                    NoMissedExit, [Next]_vars
             PROVE  NoMissedExit'
  OBVIOUS
<1>t. /\ state \in [Procs -> States] /\ pc \in [Procs -> PCs]
      /\ arg \in [Procs -> Nat] /\ parent \in [Procs -> Slot0]
      /\ chan \in [Procs -> Slot0 \cup {Ticks}]
      /\ killed \in [Procs -> BOOLEAN]
  BY DEF TypeOK
<1> USE <1>t DEF ForkInv, Live, Forking, At, ParentInv, ChanInv,
                NoMissedExit, Children
<1>1. CASE UNCHANGED vars
  BY <1>1 DEF vars
<1>2. CASE Tick
  BY <1>2 DEF Tick, wakeup1
<1>3. ASSUME NEW p \in Procs, Syscall(p) PROVE NoMissedExit'
  BY <1>3, CallsAssumption DEF Syscall, Goto
<1>4. ASSUME NEW p \in Procs, Fault(p) PROVE NoMissedExit'
  BY <1>4 DEF Fault, Goto
<1>5. ASSUME NEW p \in Procs, Yield(p) PROVE NoMissedExit'
  BY <1>5 DEF Yield, LeaveCpu
<1>6. ASSUME NEW p \in Procs, NEW c \in CPUs, Schedule(c, p)
      PROVE  NoMissedExit'
  BY <1>6 DEF Schedule
<1>7. ASSUME NEW p \in Procs, Return(p) PROVE NoMissedExit'
  BY <1>7 DEF Return, Goto
<1>8. ASSUME NEW p \in Procs, TrapKilled(p) PROVE NoMissedExit'
  BY <1>8 DEF TrapKilled, Goto
<1>9. ASSUME NEW p \in Procs, AllocProc(p) PROVE NoMissedExit'
  BY <1>9 DEF AllocProc, TakePid, First, FreeSlots, Goto
<1>10. ASSUME NEW p \in Procs, AllocStack(p) PROVE NoMissedExit'
  BY <1>10 DEF AllocStack, Goto
<1>11. ASSUME NEW p \in Procs, CopyProc(p) PROVE NoMissedExit'
  BY <1>11 DEF CopyProc, Goto
<1>12. ASSUME NEW p \in Procs, ForkRun(p) PROVE NoMissedExit'
  BY <1>12 DEF ForkRun
<1>13. ASSUME NEW p \in Procs, ExitClose(p) PROVE NoMissedExit'
  BY <1>13 DEF ExitClose, Goto
<1>14. ASSUME NEW p \in Procs, ExitZombie(p) PROVE NoMissedExit'
  BY <1>14 DEF ExitZombie, ExitChans, wakeup1, Reparent, Children, LeaveCpu,
     Goto
<1>15. ASSUME NEW p \in Procs, Kill(p) PROVE NoMissedExit'
  BY <1>15 DEF Kill, Goto
<1>16. ASSUME NEW p \in Procs, SleepTest(p) PROVE NoMissedExit'
  BY <1>16 DEF SleepTest, Goto
<1>17. ASSUME NEW p \in Procs, SleepOnTicks(p) PROVE NoMissedExit'
  BY <1>17 DEF SleepOnTicks, LeaveCpu, Goto
<1>18. ASSUME NEW p \in Procs, NEW z \in Procs, state[z] = "ZOMBIE",
              Reap(p, z), At(p, "wait") \/ At(p, "waitfor")
       PROVE  NoMissedExit'
  BY <1>18 DEF Reap, Goto
<1>19. ASSUME NEW p \in Procs, GiveUp(p), At(p, "wait") \/ At(p, "waitfor")
       PROVE  NoMissedExit'
  BY <1>19 DEF GiveUp, Goto
<1>20. ASSUME NEW p \in Procs, SleepInWait(p), At(p, "wait"), ~killed[p],
              \E q \in Procs : parent[q] = p,
              \A q \in Children(p) : state[q] # "ZOMBIE"
       PROVE  NoMissedExit'
  <2>1. PICK q \in Procs : parent[q] = p
    BY <1>20
  <2>2. state[q] \notin {"UNUSED", "ZOMBIE", "EMBRYO"}
    BY <1>20, <2>1
  <2> QED
    BY <1>20, <2>1, <2>2 DEF SleepInWait, States
<1>21. ASSUME NEW p \in Procs, SleepInWait(p), At(p, "waitfor")
       PROVE  NoMissedExit'
  BY <1>21 DEF SleepInWait
<1> HIDE DEF NoMissedExit, ForkInv, ParentInv, ChanInv
<1>22. ASSUME NEW p \in Procs, Wait(p) PROVE NoMissedExit'
  BY <1>22, <1>18, <1>19, <1>20, ScanCases DEF Wait
<1>23. ASSUME NEW p \in Procs, WaitForProcess(p) PROVE NoMissedExit'
  BY <1>23, <1>18, <1>19, <1>21, ScanCases DEF WaitForProcess
<1> QED
  BY <1>1, <1>2, <1>3, <1>4, <1>5, <1>6, <1>7, <1>8, <1>9, <1>10, <1>11,
     <1>12, <1>13, <1>14, <1>15, <1>16, <1>17, <1>22, <1>23 DEF Next, Kernel

(* The same wakeup serves waitForProcess on a child.                        *)
LEMMA MissedChildStep ==
  TypeOK /\ ForkInv /\ ParentInv /\ ChanInv /\ NoMissedChild
    /\ [Next]_vars => NoMissedChild'
<1> SUFFICES ASSUME TypeOK, ForkInv, ParentInv, ChanInv,
                    NoMissedChild, [Next]_vars
             PROVE  NoMissedChild'
  OBVIOUS
<1>t. /\ state \in [Procs -> States] /\ pc \in [Procs -> PCs]
      /\ arg \in [Procs -> Nat] /\ parent \in [Procs -> Slot0]
      /\ pid \in [Procs -> 0..MaxPid]
      /\ chan \in [Procs -> Slot0 \cup {Ticks}]
      /\ killed \in [Procs -> BOOLEAN]
  BY DEF TypeOK
<1> USE <1>t DEF ForkInv, Live, Forking, At, ParentInv, ChanInv,
                NoMissedChild, Children
<1>1. CASE UNCHANGED vars
  BY <1>1 DEF vars
<1>2. CASE Tick
  BY <1>2 DEF Tick, wakeup1
<1>3. ASSUME NEW p \in Procs, Syscall(p) PROVE NoMissedChild'
  BY <1>3, CallsAssumption DEF Syscall, Goto
<1>4. ASSUME NEW p \in Procs, Fault(p) PROVE NoMissedChild'
  BY <1>4 DEF Fault, Goto
<1>5. ASSUME NEW p \in Procs, Yield(p) PROVE NoMissedChild'
  BY <1>5 DEF Yield, LeaveCpu
<1>6. ASSUME NEW p \in Procs, NEW c \in CPUs, Schedule(c, p)
      PROVE  NoMissedChild'
  BY <1>6 DEF Schedule
<1>7. ASSUME NEW p \in Procs, Return(p) PROVE NoMissedChild'
  BY <1>7 DEF Return, Goto
<1>8. ASSUME NEW p \in Procs, TrapKilled(p) PROVE NoMissedChild'
  BY <1>8 DEF TrapKilled, Goto
<1>9. ASSUME NEW p \in Procs, AllocProc(p) PROVE NoMissedChild'
  BY <1>9 DEF AllocProc, TakePid, First, FreeSlots, Goto
<1>10. ASSUME NEW p \in Procs, AllocStack(p) PROVE NoMissedChild'
  BY <1>10 DEF AllocStack, Goto
<1>11. ASSUME NEW p \in Procs, CopyProc(p) PROVE NoMissedChild'
  BY <1>11 DEF CopyProc, Goto
<1>12. ASSUME NEW p \in Procs, ForkRun(p) PROVE NoMissedChild'
  BY <1>12 DEF ForkRun
<1>13. ASSUME NEW p \in Procs, ExitClose(p) PROVE NoMissedChild'
  BY <1>13 DEF ExitClose, Goto
<1>14. ASSUME NEW p \in Procs, ExitZombie(p) PROVE NoMissedChild'
  BY <1>14 DEF ExitZombie, ExitChans, wakeup1, Reparent, Children, LeaveCpu,
     Goto
<1>15. ASSUME NEW p \in Procs, Kill(p) PROVE NoMissedChild'
  BY <1>15 DEF Kill, Goto
<1>16. ASSUME NEW p \in Procs, SleepTest(p) PROVE NoMissedChild'
  BY <1>16 DEF SleepTest, Goto
<1>17. ASSUME NEW p \in Procs, SleepOnTicks(p) PROVE NoMissedChild'
  BY <1>17 DEF SleepOnTicks, LeaveCpu, Goto
<1>18. ASSUME NEW p \in Procs, NEW z \in Procs, state[z] = "ZOMBIE",
              Reap(p, z), At(p, "wait") \/ At(p, "waitfor")
       PROVE  NoMissedChild'
  BY <1>18 DEF Reap, Goto
<1>19. ASSUME NEW p \in Procs, GiveUp(p), At(p, "wait") \/ At(p, "waitfor")
       PROVE  NoMissedChild'
  BY <1>19 DEF GiveUp, Goto
<1>20. ASSUME NEW p \in Procs, SleepInWait(p), At(p, "waitfor"), ~killed[p],
              \A q \in Procs : pid[q] = arg[p] => state[q] # "ZOMBIE"
       PROVE  NoMissedChild'
  BY <1>20 DEF SleepInWait
<1>21. ASSUME NEW p \in Procs, SleepInWait(p), At(p, "wait")
       PROVE  NoMissedChild'
  BY <1>21 DEF SleepInWait
<1> HIDE DEF NoMissedChild, ForkInv, ParentInv, ChanInv
<1>22. ASSUME NEW p \in Procs, Wait(p) PROVE NoMissedChild'
  BY <1>22, <1>18, <1>19, <1>21, ScanCases DEF Wait
<1>23. ASSUME NEW p \in Procs, WaitForProcess(p) PROVE NoMissedChild'
  BY <1>23, <1>18, <1>19, <1>20, ScanCases DEF WaitForProcess
<1> QED
  BY <1>1, <1>2, <1>3, <1>4, <1>5, <1>6, <1>7, <1>8, <1>9, <1>10, <1>11,
     <1>12, <1>13, <1>14, <1>15, <1>16, <1>17, <1>22, <1>23 DEF Next, Kernel

-----------------------------------------------------------------------------
IInv ==
  /\ TypeOK /\ ForkInv /\ PidInv /\ OneCpuEach
  /\ MemInv /\ ParentInv /\ ChanInv
  /\ NoMissedExit /\ NoMissedChild

(* All layers hold at boot and are kept by every step of every CPU. *)
THEOREM Invariance == Spec => []IInv
<1>1. Init => IInv
  <2> SUFFICES ASSUME Init PROVE IInv
    OBVIOUS
  <2>1. TypeOK
    BY InitType
  <2>2. ForkInv /\ MemInv /\ ParentInv
    BY Zenon DEF Init, ForkInv, MemInv, ParentInv, Live, Forking
  <2>3. PidInv
    BY DEF Init, PidInv
  <2>4. OneCpuEach
    BY DEF Init, OneCpuEach
  <2>5. ChanInv /\ NoMissedExit /\ NoMissedChild
    BY DEF Init, ChanInv, NoMissedExit, NoMissedChild
  <2> QED
    BY <2>1, <2>2, <2>3, <2>4, <2>5 DEF IInv
<1>2. IInv /\ [Next]_vars => IInv'
  BY TypeStep, ForkStep, PidStep, CpuStep, MemStep, ParentStep, ChanStep,
     MissedExitStep, MissedChildStep DEF IInv
<1> QED
  BY <1>1, <1>2, PTL DEF Spec

(* kill(pid) and waitForProcess(pid) can only ever mean one process. *)
THEOREM PidsUniqueAlways == Spec => []PidsUnique
<1>1. IInv => PidsUnique
  BY DEF IInv, PidInv, PidsUnique
<1> QED
  BY <1>1, Invariance, PTL

(* Every process, and every zombie, has a parent that can wait for it. *)
THEOREM ParentsAliveAlways == Spec => []ParentsAlive
<1>1. IInv => ParentsAlive
  BY DEF IInv, ParentInv, ParentsAlive
<1> QED
  BY <1>1, Invariance, PTL

(* fork's error paths leak nothing and wait() frees no stack in use. *)
THEOREM MemoryOwnedAlways == Spec => []MemoryOwned
<1>1. IInv => MemoryOwned
  BY DEF IInv, MemInv, MemoryOwned
<1> QED
  BY <1>1, Invariance, PTL

(* Each RUNNING process is on exactly one CPU. *)
THEOREM OneCpuEachAlways == Spec => []OneCpuEach
<1>1. IInv => OneCpuEach
  BY DEF IInv
<1> QED
  BY <1>1, Invariance, PTL

(* Each EMBRYO slot belongs to exactly one fork() in progress. *)
THEOREM EmbryoOwnedAlways == Spec => []EmbryoOwned
<1>1. IInv => EmbryoOwned
  BY DEF IInv, TypeOK, ForkInv, EmbryoOwned, Forking
<1> QED
  BY <1>1, Invariance, PTL

(* sleep() with ptable.lock held loses no exit() and no kill() in wait(). *)
THEOREM NoMissedExitAlways == Spec => []NoMissedExit
<1>1. IInv => NoMissedExit
  BY DEF IInv
<1> QED
  BY <1>1, Invariance, PTL

(* Nor in waitForProcess() on a child of the caller. *)
THEOREM NoMissedChildAlways == Spec => []NoMissedChild
<1>1. IInv => NoMissedChild
  BY DEF IInv
<1> QED
  BY <1>1, Invariance, PTL

(* The table is sound for any number of slots and CPUs (allocproc(),       *)
(* exit(), scheduler()).                                                   *)
THEOREM TableSoundAlways == Spec => []TableSound
<1>1. PidsUnique /\ ParentsAlive /\ OneCpuEach => TableSound
  BY DEF TableSound
<1> QED
  BY <1>1, PidsUniqueAlways, ParentsAliveAlways, OneCpuEachAlways, PTL

(* Whichever allocation of fork() fails, every resource has one owner.     *)
THEOREM SlotsOwnedAlways == Spec => []SlotsOwned
<1>1. MemoryOwned /\ EmbryoOwned => SlotsOwned
  BY DEF SlotsOwned
<1> QED
  BY <1>1, MemoryOwnedAlways, EmbryoOwnedAlways, PTL

(* wait() and waitForProcess() miss no exit() they should see.             *)
THEOREM NoMissedWakeupAlways == Spec => []NoMissedWakeup
<1>1. NoMissedExit /\ NoMissedChild => NoMissedWakeup
  BY DEF NoMissedWakeup
<1> QED
  BY <1>1, NoMissedExitAlways, NoMissedChildAlways, PTL
=============================================================================
