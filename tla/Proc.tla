-------------------------------- MODULE Proc --------------------------------
(***************************************************************************)
(* The process table of proc.c: allocproc, fork, exit, wait,               *)
(* waitForProcess, kill, sleep, wakeup1, yield and scheduler, with the     *)
(* killed checks of trap.c and the sys_sleep loop of sysproc.c.            *)
(*                                                                         *)
(* A step is what one kernel thread does between two points at which       *)
(* another CPU can interfere: one ptable.lock section, or the code that    *)
(* runs without the lock (kalloc and copyuvm in fork, closing files in     *)
(* exit).  ptable.lock itself is state only where it outlives a step: a    *)
(* thread that slept with it owns it again when scheduler() resumes it.    *)
(***************************************************************************)
EXTENDS Integers, FiniteSets

CONSTANTS
  NPROC,   \* slots of ptable.proc
  CPUs,    \* processors running scheduler()
  MaxPid,  \* bound: fork() fails once this pid has been handed out
  Calls,   \* system calls that user programs make
  CallPids \* pids they pass to kill and waitforprocess

ASSUME NprocAssumption == NPROC \in Nat \ {0}
ASSUME MaxPidAssumption == MaxPid \in Nat \ {0}
ASSUME CallsAssumption ==
  /\ Calls \subseteq {"fork", "exit", "wait", "waitfor", "kill", "sleep"}
  /\ CallPids \subseteq Nat

VARIABLES
  state,      \* p->state
  pid,        \* p->pid
  parent,     \* p->parent, a slot or 0
  chan,       \* p->chan
  killed,     \* p->killed
  kstack,     \* p holds a kernel stack page
  pgdir,      \* p holds a page table
  open,       \* p holds references to its open files and cwd
  nextpid,    \* the global nextpid
  cpu,        \* c->proc of each processor, a slot or 0
  ptlock,     \* slot that owns ptable.lock between two steps, or 0
  tickslock,  \* slot that owns tickslock between two steps, or 0
  pc,         \* where the kernel thread of p is
  arg,        \* its local: np in fork, the pid in waitForProcess and kill
  panicked    \* panic() was called: every CPU stops

vars == <<state, pid, parent, chan, killed, kstack, pgdir, open, nextpid,
          cpu, ptlock, tickslock, pc, arg, panicked>>

Procs == 1..NPROC
Slot0 == Procs \cup {0}   \* a pointer to a slot, or null
initproc == 1
Ticks == NPROC + 1    \* the channel &ticks; slot p is the channel of wait()

States == {"UNUSED", "EMBRYO", "SLEEPING", "RUNNABLE", "RUNNING", "ZOMBIE"}

PCs == {"none", "user", "fork", "fork_kalloc", "fork_copy", "fork_run",
        "fork_fail", "exit", "exit_lock", "wait", "waitfor", "kill", "sleep",
        "sleep_lock", "ret"}

(* The fields of struct proc, the CPUs and the program counters have       *)
(* values their code gives them (proc.h).                                  *)
TypeOK ==
  /\ state \in [Procs -> States]
  /\ pid \in [Procs -> 0..MaxPid]
  /\ parent \in [Procs -> Slot0]
  /\ chan \in [Procs -> Slot0 \cup {Ticks}]
  /\ killed \in [Procs -> BOOLEAN]
  /\ kstack \in [Procs -> BOOLEAN]
  /\ pgdir \in [Procs -> BOOLEAN]
  /\ open \in [Procs -> BOOLEAN]
  /\ nextpid \in 1..MaxPid + 1
  /\ cpu \in [CPUs -> Slot0]
  /\ ptlock \in Slot0
  /\ tickslock \in Slot0
  /\ pc \in [Procs -> PCs]
  /\ arg \in [Procs -> Nat]
  /\ panicked \in BOOLEAN

(***************************************************************************)
(* userinit: slot 1 holds the first process, ready to run.                 *)
(***************************************************************************)
Init ==
  LET first == [p \in Procs |-> p = initproc] IN
  /\ state = [p \in Procs |-> IF p = initproc THEN "RUNNABLE" ELSE "UNUSED"]
  /\ pid = [p \in Procs |-> IF p = initproc THEN 1 ELSE 0]
  /\ parent = [p \in Procs |-> 0]
  /\ chan = [p \in Procs |-> 0]
  /\ killed = [p \in Procs |-> FALSE]
  /\ kstack = first
  /\ pgdir = first
  /\ open = first
  /\ nextpid = 2
  /\ cpu = [c \in CPUs |-> 0]
  /\ ptlock = 0
  /\ tickslock = 0
  /\ pc = [p \in Procs |-> IF p = initproc THEN "user" ELSE "none"]
  /\ arg = [p \in Procs |-> 0]
  /\ panicked = FALSE

-----------------------------------------------------------------------------
(* Kernel thread p is running on some CPU, at the point l of its code. *)
At(p, l) == ~panicked /\ state[p] = "RUNNING" /\ pc[p] = l

Goto(p, l) == pc' = [pc EXCEPT ![p] = l]

(* Mutant of LeaveCpu: c->proc is set to a junk slot. *)
LeaveCpuJunk(p) == cpu' = [c \in CPUs |-> IF cpu[c] = p THEN -1 ELSE cpu[c]]

(* swtch back to scheduler(), which sets c->proc = 0. *)
LeaveCpu(p) == cpu' = [c \in CPUs |-> IF cpu[c] = p THEN 0 ELSE cpu[c]]

First(S) == {p \in S : \A q \in S : p <= q}

(* The table after wakeup1 on each channel of a set. *)
wakeup1(chans) ==
  [q \in Procs |-> IF state[q] = "SLEEPING" /\ chan[q] \in chans
                   THEN "RUNNABLE" ELSE state[q]]

(* trap() on a system call, and init.c: after boot init only forks and     *)
(* waits; other programs may make any call with any pid.                   *)
Syscall(p) ==
  /\ At(p, "user") /\ ~killed[p]
  /\ \E call \in IF p = initproc THEN {"fork", "wait"} ELSE Calls :
     \E n \in IF call \in {"kill", "waitfor"} THEN CallPids ELSE {0} :
       /\ Goto(p, call)
       /\ arg' = [arg EXCEPT ![p] = n]
  /\ UNCHANGED <<state, pid, parent, chan, killed, kstack, pgdir, open,
                 nextpid, cpu, ptlock, tickslock, panicked>>

(* The check after syscall(); init exits when its fork failed. *)
Return(p) ==
  /\ \/ /\ At(p, "ret") \/ (At(p, "fork_fail") /\ p # initproc)
        /\ Goto(p, IF killed[p] THEN "exit" ELSE "user")
     \/ /\ At(p, "fork_fail") /\ p = initproc
        /\ Goto(p, "exit")
  /\ arg' = [arg EXCEPT ![p] = 0]
  /\ UNCHANGED <<state, pid, parent, chan, killed, kstack, pgdir, open,
                 nextpid, cpu, ptlock, tickslock, panicked>>

(* Any trap from user space of a killed process ends in exit(). *)
TrapKilled(p) ==
  /\ At(p, "user") /\ killed[p]
  /\ Goto(p, "exit")
  /\ UNCHANGED <<state, pid, parent, chan, killed, kstack, pgdir, open,
                 nextpid, cpu, ptlock, tickslock, arg, panicked>>

(* A fault in user space: the process is marked killed and exits. *)
Fault(p) ==
  /\ At(p, "user")
  /\ killed' = [killed EXCEPT ![p] = TRUE]
  /\ Goto(p, "exit")
  /\ UNCHANGED <<state, pid, parent, chan, kstack, pgdir, open, nextpid,
                 cpu, ptlock, tickslock, arg, panicked>>

-----------------------------------------------------------------------------
(* Mutant of FreeSlots: the test of p->state also accepts EMBRYO. *)
FreeSlotsLax == {q \in Procs : state[q] \in {"UNUSED", "EMBRYO"}}

FreeSlots == {q \in Procs : state[q] = "UNUSED"}

TakePid(np) ==
  pid' = [pid EXCEPT ![np] = nextpid] /\ nextpid' = nextpid + 1

(* allocproc up to release: take the first UNUSED slot. *)
AllocProc(p) ==
  /\ At(p, "fork") /\ ptlock = 0
  /\ \/ /\ FreeSlots = {} \/ nextpid > MaxPid
        /\ Goto(p, "fork_fail")
        /\ UNCHANGED <<state, pid, nextpid, arg>>
     \/ /\ nextpid <= MaxPid
        /\ \E np \in First(FreeSlots) :
             /\ state' = [state EXCEPT ![np] = "EMBRYO"]
             /\ TakePid(np)
             /\ arg' = [arg EXCEPT ![p] = np]
        /\ Goto(p, "fork_kalloc")
  /\ UNCHANGED <<parent, chan, killed, kstack, pgdir, open, cpu, ptlock,
                 tickslock, panicked>>

(* allocproc after release: the kernel stack.  Failure frees the slot      *)
(* without the lock and leaves its pid and killed as they are.             *)
AllocStack(p) ==
  /\ At(p, "fork_kalloc")
  /\ LET np == arg[p] IN
     \/ /\ kstack' = [kstack EXCEPT ![np] = TRUE]
        /\ Goto(p, "fork_copy")
        /\ UNCHANGED state
     \/ /\ state' = [state EXCEPT ![np] = "UNUSED"]
        /\ Goto(p, "fork_fail")
        /\ UNCHANGED kstack
  /\ UNCHANGED <<pid, parent, chan, killed, pgdir, open, nextpid, cpu,
                 ptlock, tickslock, arg, panicked>>

(* fork from copyuvm to the second acquire. *)
CopyProc(p) ==
  /\ At(p, "fork_copy")
  /\ LET np == arg[p] IN
     \/ /\ pgdir' = [pgdir EXCEPT ![np] = TRUE]
        /\ parent' = [parent EXCEPT ![np] = p]
        /\ open' = [open EXCEPT ![np] = TRUE]
        /\ Goto(p, "fork_run")
        /\ UNCHANGED <<state, kstack>>
     \/ /\ kstack' = [kstack EXCEPT ![np] = FALSE]
        /\ state' = [state EXCEPT ![np] = "UNUSED"]
        /\ Goto(p, "fork_fail")
        /\ UNCHANGED <<pgdir, parent, open>>
  /\ UNCHANGED <<pid, chan, killed, nextpid, cpu, ptlock, tickslock, arg,
                 panicked>>

(* fork's last section; the child starts in user space, through forkret. *)
ForkRun(p) ==
  /\ At(p, "fork_run") /\ ptlock = 0
  /\ state' = [state EXCEPT ![arg[p]] = "RUNNABLE"]
  /\ pc' = [pc EXCEPT ![p] = "ret", ![arg[p]] = "user"]
  /\ UNCHANGED <<pid, parent, chan, killed, kstack, pgdir, open, nextpid,
                 cpu, ptlock, tickslock, arg, panicked>>

-----------------------------------------------------------------------------
(* exit before its lock section: panic in init, else drop files and cwd. *)
ExitClose(p) ==
  /\ At(p, "exit")
  /\ \/ /\ p = initproc
        /\ panicked' = TRUE
        /\ UNCHANGED <<open, pc>>
     \/ /\ p # initproc
        /\ open' = [open EXCEPT ![p] = FALSE]
        /\ Goto(p, "exit_lock")
        /\ UNCHANGED panicked
  /\ UNCHANGED <<state, pid, parent, chan, killed, kstack, pgdir, nextpid,
                 cpu, ptlock, tickslock, arg>>

Children(p) == {q \in Procs : parent[q] = p}

(* Mutant of ExitChans: the parent is not woken for p itself. *)
ExitChansInit(p) ==
  {initproc : q \in {k \in Children(p) : state[k] = "ZOMBIE"}}

(* The channels exit() wakes: its parent's, and init's if it inherits a    *)
(* zombie.                                                                 *)
ExitChans(p) ==
  {parent[p]} \cup {initproc : q \in {k \in Children(p) : state[k] = "ZOMBIE"}}

(* Mutant of Reparent: only the children that have exited move to init. *)
ReparentZombies(p) ==
  [q \in Procs |-> IF q \in Children(p) /\ state[q] = "ZOMBIE"
                   THEN initproc ELSE parent[q]]

Reparent(p) ==
  [q \in Procs |-> IF q \in Children(p) THEN initproc ELSE parent[q]]

(* exit's lock section: wake, give the children to init, become a zombie   *)
(* and leave the CPU.                                                      *)
ExitZombie(p) ==
  /\ At(p, "exit_lock") /\ ptlock = 0
  /\ state' = [wakeup1(ExitChans(p)) EXCEPT ![p] = "ZOMBIE"]
  /\ parent' = Reparent(p)
  /\ LeaveCpu(p)
  /\ Goto(p, "none")
  /\ UNCHANGED <<pid, chan, killed, kstack, pgdir, open, nextpid, ptlock,
                 tickslock, arg, panicked>>

-----------------------------------------------------------------------------
(* The code wait and waitForProcess share once a zombie z is found. *)
Reap(p, z) ==
  /\ kstack' = [kstack EXCEPT ![z] = FALSE]
  /\ pgdir' = [pgdir EXCEPT ![z] = FALSE]
  /\ pid' = [pid EXCEPT ![z] = 0]
  /\ parent' = [parent EXCEPT ![z] = 0]
  /\ killed' = [killed EXCEPT ![z] = FALSE]
  /\ state' = [state EXCEPT ![z] = "UNUSED"]
  /\ ptlock' = 0
  /\ Goto(p, "ret")
  /\ UNCHANGED <<chan, open, nextpid, cpu, tickslock, arg, panicked>>

(* sleep(curproc, &ptable.lock); scheduler() releases the lock. *)
SleepInWait(p) ==
  /\ chan' = [chan EXCEPT ![p] = p]
  /\ state' = [state EXCEPT ![p] = "SLEEPING"]
  /\ LeaveCpu(p)
  /\ ptlock' = 0
  /\ UNCHANGED <<pid, parent, killed, kstack, pgdir, open, nextpid,
                 tickslock, pc, arg, panicked>>

GiveUp(p) ==
  /\ ptlock' = 0
  /\ Goto(p, "ret")
  /\ UNCHANGED <<state, pid, parent, chan, killed, kstack, pgdir, open,
                 nextpid, cpu, tickslock, arg, panicked>>

(* One turn of the loop of wait (who = its children) and of                *)
(* waitForProcess (who = the slots with that pid).                         *)
Scan(p, who) ==
  LET zombies == {z \in who : state[z] = "ZOMBIE"} IN
  \/ \E z \in First(zombies) : Reap(p, z)
  \/ zombies = {} /\ (who = {} \/ killed[p]) /\ GiveUp(p)
  \/ zombies = {} /\ who # {} /\ ~killed[p] /\ SleepInWait(p)

Wait(p) ==
  /\ At(p, "wait") /\ ptlock \in {0, p}
  /\ Scan(p, Children(p))

WaitForProcess(p) ==
  /\ At(p, "waitfor") /\ ptlock \in {0, p}
  /\ Scan(p, {q \in Procs : pid[q] = arg[p]})

(* Mutant of Kill: the sleeper is not made runnable. *)
KillAsleep(p) ==
  /\ At(p, "kill") /\ ptlock = 0
  /\ LET hit == First({q \in Procs : pid[q] = arg[p]}) IN
     killed' = [q \in Procs |-> q \in hit \/ killed[q]]
  /\ Goto(p, "ret")
  /\ UNCHANGED <<state, pid, parent, chan, kstack, pgdir, open, nextpid, cpu,
                 ptlock, tickslock, arg, panicked>>

(* kill: the first slot with that pid, whatever its state. *)
Kill(p) ==
  /\ At(p, "kill") /\ ptlock = 0
  /\ LET hit == First({q \in Procs : pid[q] = arg[p]}) IN
     /\ killed' = [q \in Procs |-> q \in hit \/ killed[q]]
     /\ state' = [q \in Procs |-> IF q \in hit /\ state[q] = "SLEEPING"
                                  THEN "RUNNABLE" ELSE state[q]]
  /\ Goto(p, "ret")
  /\ UNCHANGED <<pid, parent, chan, kstack, pgdir, open, nextpid, cpu,
                 ptlock, tickslock, arg, panicked>>

-----------------------------------------------------------------------------
(* sys_sleep's loop, tickslock held from the test of killed until sleep()  *)
(* owns ptable.lock.  How many ticks are left is abstracted to a choice.   *)
SleepTest(p) ==
  /\ At(p, "sleep") /\ tickslock = 0
  /\ \/ Goto(p, "ret") /\ UNCHANGED tickslock
     \/ ~killed[p] /\ Goto(p, "sleep_lock") /\ tickslock' = p
  /\ UNCHANGED <<state, pid, parent, chan, killed, kstack, pgdir, open,
                 nextpid, cpu, ptlock, arg, panicked>>

SleepOnTicks(p) ==
  /\ At(p, "sleep_lock") /\ ptlock = 0
  /\ chan' = [chan EXCEPT ![p] = Ticks]
  /\ state' = [state EXCEPT ![p] = "SLEEPING"]
  /\ tickslock' = 0
  /\ LeaveCpu(p)
  /\ Goto(p, "sleep")
  /\ UNCHANGED <<pid, parent, killed, kstack, pgdir, open, nextpid, ptlock,
                 arg, panicked>>

(* The timer interrupt of CPU 0: ticks++ and wakeup(&ticks). *)
Tick ==
  /\ ~panicked /\ tickslock = 0 /\ ptlock = 0
  /\ state' = wakeup1({Ticks})
  /\ UNCHANGED <<pid, parent, chan, killed, kstack, pgdir, open, nextpid,
                 cpu, ptlock, tickslock, pc, arg, panicked>>

(* A timer interrupt while p runs with no lock held: yield(). *)
Yield(p) ==
  /\ ~panicked /\ state[p] = "RUNNING"
  /\ ptlock = 0 /\ tickslock # p
  /\ state' = [state EXCEPT ![p] = "RUNNABLE"]
  /\ LeaveCpu(p)
  /\ UNCHANGED <<pid, parent, chan, killed, kstack, pgdir, open, nextpid,
                 ptlock, tickslock, pc, arg, panicked>>

(* scheduler() picks p, which resumes in yield, in forkret, or at the end  *)
(* of sleep(), where p->chan = 0; only after sleep(p, &ptable.lock) does   *)
(* it go on with ptable.lock held.                                         *)
Schedule(c, p) ==
  /\ ~panicked /\ ptlock = 0
  /\ cpu[c] = 0 /\ state[p] = "RUNNABLE"
  /\ cpu' = [cpu EXCEPT ![c] = p]
  /\ state' = [state EXCEPT ![p] = "RUNNING"]
  /\ chan' = [chan EXCEPT ![p] = 0]
  /\ ptlock' = IF chan[p] = p THEN p ELSE 0
  /\ UNCHANGED <<pid, parent, killed, kstack, pgdir, open, nextpid,
                 tickslock, pc, arg, panicked>>

-----------------------------------------------------------------------------
(* The steps p takes inside the kernel. *)
Kernel(p) ==
  \/ Return(p) \/ TrapKilled(p)
  \/ AllocProc(p) \/ AllocStack(p) \/ CopyProc(p) \/ ForkRun(p)
  \/ ExitClose(p) \/ ExitZombie(p)
  \/ Wait(p) \/ WaitForProcess(p) \/ Kill(p)
  \/ SleepTest(p) \/ SleepOnTicks(p)

Next ==
  \/ Tick
  \/ \E p \in Procs :
       \/ Syscall(p) \/ Fault(p) \/ Kernel(p) \/ Yield(p)
       \/ \E c \in CPUs : Schedule(c, p)

Spec == Init /\ [][Next]_vars

(***************************************************************************)
(* Kernel code runs on; the scheduler's round over the table and the timer *)
(* interrupt move every process on and off the CPU again and again; the    *)
(* timer keeps firing.  User programs owe nothing: Syscall and Fault are   *)
(* not fair.                                                               *)
(***************************************************************************)
Fairness ==
  /\ WF_vars(Tick)
  /\ \A p \in Procs :
       /\ SF_vars(Kernel(p))
       /\ SF_vars(Yield(p) \/ \E c \in CPUs : Schedule(c, p))

FairSpec == Spec /\ Fairness

-----------------------------------------------------------------------------
Live(p) == state[p] \in {"SLEEPING", "RUNNABLE", "RUNNING"}

Forking(p) == pc[p] \in {"fork_kalloc", "fork_copy", "fork_run"}

(* No two slots in use share a pid and none has pid 0, so kill and         *)
(* waitForProcess, which stop at the first match, name one process         *)
(* (allocproc's nextpid++, and the pids that failed forks leave behind).   *)
PidsUnique ==
  \A p \in Procs : state[p] # "UNUSED" =>
    /\ pid[p] # 0
    /\ \A q \in Procs \ {p} : pid[q] # pid[p]

(* Every process but init has a parent that can still call wait(): exit()  *)
(* gives away its children before it becomes a zombie, and reaping, even   *)
(* of somebody else's child by waitForProcess, strands nobody.             *)
ParentsAlive ==
  \A p \in Procs \ {initproc} :
    Live(p) \/ state[p] = "ZOMBIE" => parent[p] \in Procs /\ Live(parent[p])

(* A slot keeps its kernel stack and page table exactly while a thread may *)
(* run on them or wait() has still to free them, and its file references   *)
(* until exit() drops them: no leak on fork's error paths, no stack freed  *)
(* under a running thread.                                                 *)
MemoryOwned ==
  \A p \in Procs :
    /\ Live(p) => kstack[p] /\ pgdir[p] /\ (open[p] \/ pc[p] = "exit_lock")
    /\ state[p] = "ZOMBIE" => kstack[p] /\ pgdir[p] /\ ~open[p]
    /\ state[p] = "UNUSED" => ~kstack[p] /\ ~pgdir[p] /\ ~open[p]

(* A process runs on one CPU at a time, and a CPU runs only processes      *)
(* marked RUNNING, through every way of giving up and taking the CPU.      *)
OneCpuEach ==
  /\ \A c, d \in CPUs : cpu[c] = cpu[d] /\ cpu[c] # 0 => c = d
  /\ \A p \in Procs : state[p] = "RUNNING" <=> \E c \in CPUs : cpu[c] = p

(* An EMBRYO slot belongs to exactly one fork() in progress, which goes on *)
(* without ptable.lock: no slot is handed out twice, none is lost.         *)
EmbryoOwned ==
  /\ \A p \in Procs : Live(p) /\ Forking(p) => state[arg[p]] = "EMBRYO"
  /\ \A q \in Procs : state[q] = "EMBRYO" =>
       \E p \in Procs : Live(p) /\ Forking(p) /\ arg[p] = q /\
         \A r \in Procs : Live(r) /\ Forking(r) /\ arg[r] = q => r = p

(* Nobody sleeps in wait() on a missed event: it was not killed before it  *)
(* slept, no child has exited, and some child is still to exit - although  *)
(* waitForProcess may reap that child first and exit() hands zombies over. *)
NoMissedExit ==
  \A p \in Procs : state[p] = "SLEEPING" /\ pc[p] = "wait" =>
    /\ ~killed[p]
    /\ \A q \in Children(p) : state[q] # "ZOMBIE"
    /\ \E q \in Children(p) : Live(q)

(* The same for waitForProcess when the process waited for is a child of   *)
(* the caller, the only process exit() wakes.                              *)
NoMissedChild ==
  \A p \in Procs : state[p] = "SLEEPING" /\ pc[p] = "waitfor" =>
    /\ ~killed[p]
    /\ \A q \in Children(p) : pid[q] = arg[p] => state[q] # "ZOMBIE"

(* A process in wait() with a zombie child does not stay there: the        *)
(* wakeup1 call in exit() reaches it and it returns a child, unless        *)
(* somebody in waitForProcess was faster.                                  *)
WaitReaps ==
  \A p \in Procs :
    Live(p) /\ pc[p] = "wait"
      /\ (\E z \in Children(p) \ {p} : state[z] = "ZOMBIE")
      ~> \/ pc[p] # "wait" \/ panicked
         \/ ~\E z \in Children(p) \ {p} : state[z] = "ZOMBIE"

(* A killed process exits, wherever in the kernel kill() found it, unless  *)
(* its fork failed before it ever ran (the tests of p->killed in trap(),   *)
(* wait(), waitForProcess() and sys_sleep(), and kill's own wakeup).       *)
KilledExits ==
  \A p \in Procs :
    killed[p] /\ state[p] \in {"EMBRYO", "SLEEPING", "RUNNABLE", "RUNNING"}
      ~> state[p] \in {"ZOMBIE", "UNUSED"} \/ panicked

(* The process table is sound while processes come and go on all CPUs:     *)
(* pids name one slot, parents are alive, and a RUNNING process is on one  *)
(* CPU (allocproc, exit, scheduler).                                       *)
TableSound == PidsUnique /\ ParentsAlive /\ OneCpuEach

(* Every stack, page table and half-made slot has one owner through        *)
(* failing forks, exits and two ways of reaping (fork, wait,               *)
(* waitForProcess).                                                        *)
SlotsOwned == MemoryOwned /\ EmbryoOwned

(* Neither wait() nor waitForProcess() sleeps on an exit it should have    *)
(* seen.                                                                   *)
NoMissedWakeup == NoMissedExit /\ NoMissedChild
=============================================================================
