----------------------------- MODULE SpinLock -----------------------------
(***************************************************************************)
(* Spin locks, interrupts and the switch between kernel threads            *)
(* (spinlock.c, the scheduling part of proc.c, trap.c, sys_sleep).         *)
(*                                                                         *)
(* A kernel thread is the sequence of instructions it still has to         *)
(* execute: acquire() and release() are several instructions, an interrupt *)
(* puts its handler in front.  Every CPU has a scheduler thread; cpu[c].cur *)
(* is the thread whose stack the CPU is on.                                *)
(***************************************************************************)
EXTENDS Integers, Sequences, SequencesExt, FiniteSets

CONSTANTS CPUs,     \* CPU numbers; CPU 0 counts the ticks
          NPROC,    \* process slots, 1 .. NPROC
          Calls     \* the system calls each process makes

ASSUME SpinLockAssumption == 0 \in CPUs /\ CPUs \subseteq Nat /\ NPROC \in Nat

Procs == 1 .. NPROC
Sched(c) == -1 - c                     \* the scheduler thread of CPU c
Threads == Procs \cup {Sched(c) : c \in CPUs}
Locks == {"ptable", "tickslock"}
NoCpu == -1

VARIABLES cpu,     \* ncli, intena, the interrupt flag, the current thread
          lock,    \* locked, owner
          code,    \* what every thread still has to do
          state,   \* p->state
          killed,
          due,     \* ticks - ticks0 >= n for the sleeping p
          panic

vars == <<cpu, lock, code, state, killed, due, panic>>

---------------------------------------------------------------------------
(* Instruction sequences *)

acquire(l) == << <<"pushcli">>, <<"xchg", l>>, <<"own", l>> >>

(* Mutant of release: interrupts come back before the lock is free. *)
releaseEarly(l) == << <<"popcli">>, <<"unlock", l>> >>

release(l) == << <<"unlock", l>>, <<"popcli">> >>

yield == acquire("ptable") \o << <<"runnable">>, <<"sched">> >>
         \o release("ptable")

sleep(l) == acquire("ptable") \o release(l)
            \o << <<"sleeping">>, <<"sched">> >>
            \o release("ptable") \o acquire(l)

wakeup == acquire("ptable") \o << <<"wakeup1">> >> \o release("ptable")

exit == acquire("ptable") \o << <<"zombie">>, <<"sched">> >>

sys_sleep == acquire("tickslock") \o << <<"ticks0">> >> \o release("tickslock")

kill(q) == acquire("ptable") \o << <<"kill", q>> >> \o release("ptable")

syscall(p) ==
  (IF "sleep" \in Calls[p] THEN {sys_sleep} ELSE {})
  \cup (IF "kill" \in Calls[p] THEN {kill(q) : q \in Procs \ {p}} ELSE {})

(* trap(): the timer interrupt on CPU c, and the system call.  What is     *)
(* done only for a process in user mode tests it when it gets there.       *)
timer(c) ==
  (IF c = 0 THEN acquire("tickslock") \o << <<"ticks++">> >> \o wakeup
                 \o release("tickslock")
            ELSE <<>>)
  \o << <<"preempt">>, <<"iret">> >>

(* A new process runs with whatever intena the CPU has until trapret.      *)
forkret == release("ptable") \o << <<"trapret">>, <<"user">> >>

scheduler == acquire("ptable") \o << <<"scan", 1>> >> \o release("ptable")
             \o << <<"sti">> >>

---------------------------------------------------------------------------
Cur(c)   == cpu[c].cur
Op(c)    == Head(code[Cur(c)])
At(c, o) == panic = "" /\ Op(c)[1] = o
Then(c)  == Tail(code[Cur(c)])

Goto(c, s) == code' = [code EXCEPT ![Cur(c)] = s]
Step(c)    == Goto(c, Then(c))

Holding(c, l) == lock[l].locked /\ lock[l].cpu = c

(* pushcli() reads eflags, then turns interrupts off: an interrupt, and a  *)
(* move to another CPU, can come in between.                               *)
Pushcli(c) ==
  /\ At(c, "pushcli")
  /\ Goto(c, << <<"cli", cpu[c].ints>> >> \o Then(c))
  /\ UNCHANGED <<cpu, lock, state, killed, due, panic>>

Cli(c) ==
  /\ At(c, "cli")
  /\ cpu' = [cpu EXCEPT ![c] =
               [@ EXCEPT !.ints = FALSE, !.ncli = @ + 1,
                         !.intena = IF cpu[c].ncli = 0 THEN Op(c)[2] ELSE @]]
  /\ Step(c)
  /\ UNCHANGED <<lock, state, killed, due, panic>>

Popcli(c) ==
  /\ At(c, "popcli")
  /\ IF cpu[c].ints \/ cpu[c].ncli = 0
     THEN panic' = "popcli" /\ UNCHANGED <<cpu, code>>
     ELSE /\ cpu' = [cpu EXCEPT ![c] =
                       [@ EXCEPT !.ncli = @ - 1,
                                 !.ints = @ \/ (cpu[c].ncli = 1
                                                /\ cpu[c].intena)]]
          /\ Step(c) /\ UNCHANGED panic
  /\ UNCHANGED <<lock, state, killed, due>>

(* acquire() after pushcli(): if(holding(lk)) panic, and the exchange that *)
(* gets the lock; the ones that do not get it change nothing.              *)
Xchg(c) ==
  /\ At(c, "xchg")
  /\ IF Holding(c, Op(c)[2])
     THEN panic' = "acquire" /\ UNCHANGED <<lock, code>>
     ELSE /\ ~lock[Op(c)[2]].locked
          /\ lock' = [lock EXCEPT ![Op(c)[2]].locked = TRUE]
          /\ Step(c) /\ UNCHANGED panic
  /\ UNCHANGED <<cpu, state, killed, due>>

Own(c) ==
  /\ At(c, "own")
  /\ IF cpu[c].ints THEN panic' = "mycpu" /\ UNCHANGED <<lock, code>>
     ELSE /\ lock' = [lock EXCEPT ![Op(c)[2]].cpu = c]
          /\ Step(c) /\ UNCHANGED panic
  /\ UNCHANGED <<cpu, state, killed, due>>

(* lk->cpu is cleared and the lock word with it: the owner is compared with *)
(* itself only.                                                            *)
Unlock(c) ==
  /\ At(c, "unlock")
  /\ IF ~Holding(c, Op(c)[2])
     THEN panic' = "release" /\ UNCHANGED <<lock, code>>
     ELSE /\ lock' = [lock EXCEPT ![Op(c)[2]] =
                        [locked |-> FALSE, cpu |-> NoCpu]]
          /\ Step(c) /\ UNCHANGED panic
  /\ UNCHANGED <<cpu, state, killed, due>>

---------------------------------------------------------------------------
(* Scheduling *)

(* One turn of the for(;;) of scheduler() *)
Sti(c) ==
  /\ At(c, "sti")
  /\ cpu' = [cpu EXCEPT ![c].ints = TRUE]
  /\ Goto(c, scheduler)
  /\ UNCHANGED <<lock, state, killed, due, panic>>

(* Mutant of Scan: the lock is kept until there is a process to run. *)
ScanUntilFound(c) ==
  LET R == {p \in Op(c)[2] .. NPROC : state[p] = "RUNNABLE"}
      p == CHOOSE q \in R : \A r \in R : q <= r
  IN  /\ At(c, "scan")
      /\ IF R = {}
         THEN /\ Goto(c, << <<"scan", (Op(c)[2] % (NPROC + 1)) + 1>> >>
                         \o Then(c))
              /\ UNCHANGED <<cpu, state>>
         ELSE /\ state' = [state EXCEPT ![p] = "RUNNING"]
              /\ cpu' = [cpu EXCEPT ![c].cur = p]
              /\ Goto(c, << <<"scan", p + 1>> >> \o Then(c))
      /\ UNCHANGED <<lock, killed, due, panic>>

(* scheduler(): switch to the next RUNNABLE process of the table, or end   *)
(* the pass.                                                               *)
Scan(c) ==
  LET R == {p \in Op(c)[2] .. NPROC : state[p] = "RUNNABLE"}
      p == CHOOSE q \in R : \A r \in R : q <= r
  IN  /\ At(c, "scan")
      /\ IF R = {} THEN Step(c) /\ UNCHANGED <<cpu, state>>
         ELSE /\ state' = [state EXCEPT ![p] = "RUNNING"]
              /\ cpu' = [cpu EXCEPT ![c].cur = p]
              /\ Goto(c, << <<"scan", p + 1>> >> \o Then(c))
      /\ UNCHANGED <<lock, killed, due, panic>>

SchedPanics(c) ==
  \/ ~Holding(c, "ptable") \/ cpu[c].ncli # 1
  \/ state[Cur(c)] = "RUNNING" \/ cpu[c].ints

(* sched(): intena is kept on the stack of the thread that leaves. *)
EnterSched(c) ==
  /\ At(c, "sched")
  /\ IF SchedPanics(c) THEN panic' = "sched" /\ UNCHANGED <<cpu, code>>
     ELSE /\ Goto(c, << <<"swtch", cpu[c].intena>> >> \o Then(c))
          /\ cpu' = [cpu EXCEPT ![c].cur = Sched(c)]
          /\ UNCHANGED panic
  /\ UNCHANGED <<lock, state, killed, due>>

(* Mutant of Resume: intena is left as the other thread had it. *)
ResumeWithout(c) ==
  /\ At(c, "swtch")
  /\ Step(c)
  /\ UNCHANGED <<cpu, lock, state, killed, due, panic>>

Resume(c) ==
  /\ At(c, "swtch")
  /\ cpu' = [cpu EXCEPT ![c].intena = Op(c)[2]]
  /\ Step(c)
  /\ UNCHANGED <<lock, state, killed, due, panic>>

(* The instructions between locks that change the current process. *)
SetState(c) ==
  /\ At(c, "runnable") \/ At(c, "sleeping") \/ At(c, "zombie")
  /\ state' = [state EXCEPT ![Cur(c)] =
                 CASE Op(c)[1] = "runnable" -> "RUNNABLE"
                   [] Op(c)[1] = "sleeping" -> "SLEEPING"
                   [] OTHER -> "ZOMBIE"]
  /\ Step(c)
  /\ UNCHANGED <<cpu, lock, killed, due, panic>>

---------------------------------------------------------------------------
(* trap() and the system calls *)

(* A timer interrupt comes whenever interrupts are on; the interrupt gate  *)
(* turns them off.                                                         *)
Interrupt(c) ==
  /\ panic = "" /\ cpu[c].ints
  /\ cpu' = [cpu EXCEPT ![c].ints = FALSE]
  /\ Goto(c, timer(c) \o code[Cur(c)])
  /\ UNCHANGED <<lock, state, killed, due, panic>>

(* The end of trap(): a killed process interrupted in user mode exits, a   *)
(* running one yields, and is looked at again.                             *)
FromUser(c, n) == Cur(c) \in Procs /\ Len(code[Cur(c)]) = n

Preempt(c) ==
  /\ At(c, "preempt")
  /\ Goto(c, CASE FromUser(c, 3) /\ killed[Cur(c)] -> exit \o Then(c)
              [] Cur(c) \in Procs /\ ~(FromUser(c, 3) /\ killed[Cur(c)])
                 /\ state[Cur(c)] = "RUNNING" -> yield \o Then(c)
              [] OTHER -> Then(c))
  /\ UNCHANGED <<cpu, lock, state, killed, due, panic>>

Iret(c) ==
  /\ At(c, "iret")
  /\ IF FromUser(c, 2) /\ killed[Cur(c)]
     THEN Goto(c, exit \o code[Cur(c)]) /\ UNCHANGED cpu
     ELSE Step(c) /\ cpu' = [cpu EXCEPT ![c].ints = TRUE]
  /\ UNCHANGED <<lock, state, killed, due, panic>>

Trapret(c) ==
  /\ At(c, "trapret")
  /\ cpu' = [cpu EXCEPT ![c].ints = TRUE]
  /\ Step(c)
  /\ UNCHANGED <<lock, state, killed, due, panic>>

(* A system call runs with interrupts on; a killed process exits before it *)
(* or, back from the one before it, after it.                              *)
Syscall(c) ==
  /\ At(c, "user")
  /\ IF killed[Cur(c)] THEN Goto(c, exit \o code[Cur(c)])
     ELSE \E s \in syscall(Cur(c)) : Goto(c, s \o code[Cur(c)])
  /\ UNCHANGED <<cpu, lock, state, killed, due, panic>>

(* sys_sleep(): the loop around sleep() *)
Loop(c, d) ==
  Goto(c, IF d \/ killed[Cur(c)] THEN Then(c)
          ELSE sleep("tickslock") \o << <<"while">> >> \o Then(c))

Ticks0(c) ==
  /\ At(c, "ticks0")
  /\ due' = [due EXCEPT ![Cur(c)] = FALSE]
  /\ Loop(c, FALSE)
  /\ UNCHANGED <<cpu, lock, state, killed, panic>>

While(c) ==
  /\ At(c, "while")
  /\ Loop(c, due[Cur(c)])
  /\ UNCHANGED <<cpu, lock, state, killed, due, panic>>

Tick(c) ==
  /\ At(c, "ticks++")
  /\ due' = [p \in Procs |-> TRUE]
  /\ Step(c)
  /\ UNCHANGED <<cpu, lock, state, killed, panic>>

Wakeup1(c) ==
  /\ At(c, "wakeup1")
  /\ state' = [p \in Procs |-> IF state[p] = "SLEEPING" THEN "RUNNABLE"
                               ELSE state[p]]
  /\ Step(c)
  /\ UNCHANGED <<cpu, lock, killed, due, panic>>

Kill(c) ==
  /\ At(c, "kill")
  /\ killed' = [killed EXCEPT ![Op(c)[2]] = TRUE]
  /\ state' = [state EXCEPT ![Op(c)[2]] =
                 IF @ = "SLEEPING" THEN "RUNNABLE" ELSE @]
  /\ Step(c)
  /\ UNCHANGED <<cpu, lock, due, panic>>

---------------------------------------------------------------------------
Init ==
  /\ cpu = [c \in CPUs |-> [ncli |-> 0, intena |-> FALSE, ints |-> FALSE,
                            cur |-> Sched(c)]]
  /\ lock = [l \in Locks |-> [locked |-> FALSE, cpu |-> NoCpu]]
  /\ code = [t \in Threads |-> IF t \in Procs THEN forkret
                               ELSE << <<"sti">> >>]
  /\ state = [p \in Procs |-> "RUNNABLE"]
  /\ killed = [p \in Procs |-> FALSE] /\ due = [p \in Procs |-> TRUE]
  /\ panic = ""

Lockstep(c) == Pushcli(c) \/ Cli(c) \/ Popcli(c) \/ Xchg(c)
               \/ Own(c) \/ Unlock(c)
Schedule(c) == Sti(c) \/ Scan(c) \/ EnterSched(c) \/ Resume(c)
               \/ SetState(c)
Trap(c) == Iret(c) \/ Trapret(c) \/ Preempt(c) \/ Syscall(c)
           \/ Ticks0(c) \/ While(c) \/ Tick(c) \/ Wakeup1(c) \/ Kill(c)
Run(c) == Lockstep(c) \/ Schedule(c) \/ Trap(c)

Next == \E c \in CPUs : Run(c) \/ Interrupt(c)

(* Every CPU goes on executing; nothing is assumed of who gets a lock.     *)
Spec == Init /\ [][Next]_vars /\ \A c \in CPUs : WF_vars(Run(c))

---------------------------------------------------------------------------
(* No CPU nests more than two pushcli(), and no kernel thread runs off the *)
(* end of its code.                                                        *)
TypeOK ==
  /\ \A c \in CPUs : cpu[c].ncli \in 0 .. 2 /\ cpu[c].cur \in Threads
  /\ \A l \in Locks : lock[l].cpu \in CPUs \cup {NoCpu}
  /\ \A t \in Threads : code[t] # <<>>

(* CPU c is between the exchange that gets l and the store that frees it:  *)
(* the next thing its thread does with l is not to ask for it.             *)
Inside(c, l) ==
  LET s == SelectSeq(code[Cur(c)], LAMBDA i :
             \/ i[1] \in {"xchg", "own", "unlock"} /\ i[2] = l
             \/ i[1] = "sched" /\ l = "ptable")
  IN  s # <<>> /\ s[1][1] # "xchg"

(* A lock protects its data although it is taken by one thread and         *)
(* released by another across swtch(): at most one CPU is inside, the lock *)
(* word says so, and the owner is never another CPU.                       *)
MutualExclusion ==
  \A l \in Locks :
    /\ \A c, d \in CPUs : Inside(c, l) /\ Inside(d, l) => c = d
    /\ lock[l].locked <=> \E c \in CPUs : Inside(c, l)
    /\ lock[l].cpu # NoCpu => Inside(lock[l].cpu, l)

(* "disable interrupts to avoid deadlock" (acquire): no interrupt can come *)
(* on a CPU that is inside or spins.                                       *)
NoInterruptInside ==
  \A c \in CPUs : (\E l \in Locks : Inside(c, l)) => ~cpu[c].ints

(* intena "is a property of this kernel thread, not this CPU" (sched()): a *)
(* thread that holds no lock has interrupts on exactly when it is not in   *)
(* an interrupt handler, on whatever CPU it comes back.  (The scheduler    *)
(* before its sti() and a new process before trapret have either.)         *)
InterruptsRestored ==
  \A c \in CPUs :
    cpu[c].ncli = 0 /\ Op(c)[1] \notin {"sti", "trapret"} =>
      (cpu[c].ints <=> \A i \in DOMAIN code[Cur(c)] :
                          code[Cur(c)][i] # <<"iret">>)

(* No two CPUs are ever on the stack of one process. *)
OneCpuPerStack ==
  \A c, d \in CPUs : Cur(c) = Cur(d) => c = d

(* No panic of acquire(), release(), popcli(), mycpu() or sched() can      *)
(* happen.                                                                 *)
NoPanic == panic = ""

(* ptable.lock, the lock all others are outside of, is always released,    *)
(* whatever interrupts come and whichever threads are switched to while it *)
(* is held.  (A CPU that spins can lose to the others for ever, and so a   *)
(* lock held meanwhile, tickslock in the timer interrupt, is not.)         *)
HeldIsReleased == []<>(~lock["ptable"].locked)

(* Locks exclude, between CPUs and from interrupt handlers, across the     *)
(* switch from one thread's stack to another's; no assertion about them    *)
(* fails (acquire, release, sched).                                        *)
LocksExclude ==
  /\ TypeOK /\ MutualExclusion /\ NoInterruptInside
  /\ OneCpuPerStack /\ NoPanic
============================================================================
