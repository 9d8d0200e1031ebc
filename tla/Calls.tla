------------------------------- MODULE Calls -------------------------------
(***************************************************************************)
(* System call dispatch (syscall.c) with the call counters: allocproc()    *)
(* clears them, syscall() counts before it dispatches, getMostCaller()     *)
(* reads those of the whole table without ptable.lock.  "other" is any     *)
(* number that nobody asks about, one with no call included: it is counted *)
(* all the same.  So is one outside counter[], in memory that is something *)
(* else: no behaviour is followed beyond that (WildCall).                  *)
(***************************************************************************)
EXTENDS Integers

CONSTANTS NSlots,    \* slots of ptable.proc; init has the first
          MaxCalls   \* bound on the system calls made

Table == 1 .. NSlots
Nums == {"fork", "exit", "other"}
Id == [fork |-> 1, exit |-> 2]     \* what programs ask about

VARIABLES tab,      \* ptable.proc: [state, pid, parent, counter]
          nextpid,
          at,       \* where each slot's process is: in user code, in a call
          np,       \* the slot that fork() fills in, for each slot
          scan,     \* locals of getMostCaller() in each slot
          made,     \* history: how often each pid so far made each call
          ncalls,   \* the calls made
          wild      \* history: a number outside counter[] was counted

tabvars == <<tab, nextpid, at, np, scan, made, ncalls>>
callvars == <<tabvars, wild>>

NoCalls == [n \in Nums |-> 0]
NoScan == [p |-> 0, id |-> "exit", cnt |-> 0, pid |-> 0, from |-> 0]

(* ptable.lock: of the sections it guards only the one of allocproc() is   *)
(* cut in two, for getMostCaller(), which does not take it.                *)
Locked == \E p \in Table : at[p] = "clear"

Goto(p, l) == at' = [at EXCEPT ![p] = l]

(* The loops of allocproc() and wait() stop at the first slot in S. *)
First(S) == {q \in S : \A r \in S : q <= r}

(* The process in slot p makes a system call. *)
Enters(p) == /\ tab[p].state = "RUNNING" /\ at[p] = "user"
             /\ ncalls < MaxCalls /\ ncalls' = ncalls + 1

(* syscall(): the call n of slot p is counted and begins. *)
Count(p, n) ==
  /\ Enters(p)
  /\ tab' = [tab EXCEPT ![p].counter[n] = @ + 1]
  /\ made' = [made EXCEPT ![tab[p].pid][n] = @ + 1]
  /\ UNCHANGED <<nextpid, np>>

Call(p, n, l) == Count(p, n) /\ Goto(p, l) /\ UNCHANGED scan

sys_fork(p) == Call(p, "fork", "fork")

(* allocproc() up to the new pid. *)
allocproc(p) ==
  LET unused == {q \in Table : tab[q].state = "UNUSED"}
  IN  /\ at[p] = "fork" /\ ~Locked
      /\ \/ /\ unused = {} /\ Goto(p, "user")
            /\ UNCHANGED <<tab, nextpid, np, made>>
         \/ \E q \in First(unused) :
              /\ tab' = [tab EXCEPT ![q].state = "EMBRYO", ![q].pid = nextpid]
              /\ nextpid' = nextpid + 1
              /\ np' = [np EXCEPT ![p] = q]
              /\ made' = [n \in 1 .. nextpid |->
                            IF n = nextpid THEN NoCalls ELSE made[n]]
              /\ Goto(p, "clear")
      /\ UNCHANGED <<scan, ncalls>>

(* Its loop over the counters, and the release of the lock. *)
Clear(p) ==
  /\ at[p] = "clear" /\ Goto(p, "fill")
  /\ tab' = [tab EXCEPT ![np[p]].counter = NoCalls]
  /\ UNCHANGED <<nextpid, np, scan, made, ncalls>>

(* The rest of fork(): the slot is given back when memory is short. *)
Fill(p) ==
  /\ at[p] = "fill" /\ Goto(p, "user")
  /\ \/ tab' = [tab EXCEPT ![np[p]].state = "UNUSED"]
     \/ tab' = [tab EXCEPT ![np[p]].state = "RUNNING", ![np[p]].parent = p]
  /\ np' = [np EXCEPT ![p] = 0]
  /\ UNCHANGED <<nextpid, scan, made, ncalls>>

sys_exit(p) == p # 1 /\ Call(p, "exit", "exit")

exit(p) ==
  /\ at[p] = "exit" /\ ~Locked /\ Goto(p, "user")
  /\ tab' = [q \in Table |->
       [tab[q] EXCEPT !.state = IF q = p THEN "ZOMBIE" ELSE @,
                      !.parent = IF @ = p THEN 1 ELSE @]]
  /\ UNCHANGED <<nextpid, np, scan, made, ncalls>>

sys_wait(p) == Call(p, "other", "wait")

(* The slots that wait() and waitForProcess(n) look at. *)
Awaited(p) == {{q \in Table : tab[q].parent = p}}
              \cup {{q \in Table : tab[q].pid = n} : n \in 1 .. nextpid}

(* Either call; the freed slot keeps its counters. *)
wait(p) ==
  /\ at[p] = "wait" /\ ~Locked /\ Goto(p, "user")
  /\ \E kids \in Awaited(p) :
       \/ kids = {} /\ UNCHANGED tab
       \/ \E q \in First({z \in kids : tab[z].state = "ZOMBIE"}) :
            tab' = [tab EXCEPT ![q].state = "UNUSED", ![q].pid = 0,
                               ![q].parent = 0]
  /\ UNCHANGED <<nextpid, np, scan, made, ncalls>>

OtherCall(p) == Call(p, "other", "user")

(* syscall() counts before it looks at the number: one outside counter[]   *)
(* raises some word behind or before it.  Here that is counter[SYS_fork]   *)
(* of the next slot (as 132 does: struct proc has 131 words), or memory    *)
(* beyond the table.                                                       *)
WildCall(p) ==
  /\ Enters(p) /\ wild' = TRUE
  /\ tab' = IF p = NSlots THEN tab
            ELSE [tab EXCEPT ![p + 1].counter["fork"] = @ + 1]
  /\ UNCHANGED <<nextpid, at, np, scan, made>>

(* Pids below it have had their counters cleared. *)
Cleared == IF Locked THEN nextpid - 1 ELSE nextpid

GetMostCaller(p) ==
  /\ Count(p, "other") /\ Goto(p, "scan")
  /\ \E id \in DOMAIN Id :
       scan' = [scan EXCEPT ![p] = [NoScan EXCEPT !.p = 1, !.id = id,
                                                  !.from = Cleared]]

(* Mutant of Exceeds: as many calls are enough. *)
ExceedsOrEqual(q, l) == tab[q].counter[l.id] >= l.cnt

Exceeds(q, l) == tab[q].counter[l.id] > l.cnt

(* One turn of the loop; the pid is read after the counter. *)
ScanTest(p) ==
  LET l == scan[p]
  IN  /\ at[p] = "scan" /\ l.p <= NSlots
      /\ IF Exceeds(l.p, l)
         THEN /\ Goto(p, "scanpid")
              /\ scan' = [scan EXCEPT ![p].cnt = Id[l.id]]
         ELSE scan' = [scan EXCEPT ![p].p = @ + 1] /\ UNCHANGED at
      /\ UNCHANGED <<tab, nextpid, np, made, ncalls>>

ScanPid(p) ==
  /\ at[p] = "scanpid" /\ Goto(p, "scan")
  /\ scan' = [scan EXCEPT ![p].pid = tab[scan[p].p].pid, ![p].p = @ + 1]
  /\ UNCHANGED <<tab, nextpid, np, made, ncalls>>

ScanReturn(p) ==
  /\ at[p] = "scan" /\ scan[p].p > NSlots /\ Goto(p, "user")
  /\ scan' = [scan EXCEPT ![p] = NoScan]
  /\ UNCHANGED <<tab, nextpid, np, made, ncalls>>

CallsInit ==
  /\ tab = [p \in Table |-> [state |-> IF p = 1 THEN "RUNNING" ELSE "UNUSED",
                             pid |-> IF p = 1 THEN 1 ELSE 0,
                             parent |-> 0, counter |-> NoCalls]]
  /\ nextpid = 2
  /\ at = [p \in Table |-> "user"] /\ np = [p \in Table |-> 0]
  /\ scan = [p \in Table |-> NoScan]
  /\ made = [n \in {1} |-> NoCalls] /\ ncalls = 0
  /\ wild = FALSE

CallStep == \E p \in Table :
  \/ sys_fork(p) \/ allocproc(p) \/ Clear(p) \/ Fill(p)
  \/ sys_exit(p) \/ exit(p) \/ sys_wait(p) \/ wait(p) \/ OtherCall(p)
  \/ GetMostCaller(p) \/ ScanTest(p) \/ ScanPid(p) \/ ScanReturn(p)

CallsNext == ~wild /\ \/ CallStep /\ UNCHANGED wild
                      \/ \E p \in Table : WildCall(p)

CallsSpec == CallsInit /\ [][CallsNext]_callvars

----------------------------------------------------------------------------
(* What getcallcount() returns to a process is the number of calls that    *)
(* very process made, whoever had its slot before.                         *)
CountsOwnCalls ==
  \A p \in Table : tab[p].state \in {"RUNNING", "ZOMBIE"} =>
                     tab[p].counter = made[tab[p].pid]

(* The pid getMostCaller() has found so far made the call it was asked     *)
(* about, or allocproc() had not cleared its counters when the loop began. *)
(* (That it made the call most often, as getmostcaller.c prints, the loop  *)
(* does not see to: it compares with the number of the call.)              *)
NamesACaller ==
  \A p \in Table : LET l == scan[p]
                   IN  \/ l.pid = 0 \/ l.pid >= l.from
                       \/ made[l.pid][l.id] > 0

(* As long as the numbers of system calls stay inside counter[], what      *)
(* syscall() does not test, getcallcount() counts the calls of the process *)
(* itself, also in a slot used before (allocproc()), and getMostCaller()   *)
(* names a process that made the call, or one whose creation it saw.       *)
CallsSound == wild \/ (CountsOwnCalls /\ NamesACaller)
============================================================================
