----------------------------- MODULE CallsProofs -----------------------------
(***************************************************************************)
(* The counters of system calls are exact, and getMostCaller() names a     *)
(* caller, for a table of any size and any number of calls, until a number *)
(* outside counter[] is counted.                                           *)
(*                                                                         *)
(* The inductive invariant has a layer for the kinds of the variables, one *)
(* for fork() (ForkInv), one for pids (PidInv), one for what the counters  *)
(* of slots in each state hold (CountInv), and one for the loop of         *)
(* getMostCaller() (ScanInv).                                              *)
(***************************************************************************)
EXTENDS Calls, TLAPS

States == {"UNUSED", "EMBRYO", "RUNNING", "ZOMBIE"}
Places == {"user", "fork", "clear", "fill", "exit", "wait", "scan", "scanpid"}
Counters == [Nums -> Nat]
Slots == [state : States, pid : Nat, parent : Nat, counter : Counters]
Scans == [p : Nat, id : {"fork", "exit"}, cnt : Nat, pid : Nat, from : Nat]

Kinds ==
  /\ tab \in [Table -> Slots]
  /\ nextpid \in Nat /\ nextpid >= 2
  /\ at \in [Table -> Places]
  /\ np \in [Table -> Nat]
  /\ scan \in [Table -> Scans]
  /\ made \in [1 .. nextpid - 1 -> Counters]
  /\ ncalls \in Nat

Filling(p) == at[p] \in {"clear", "fill"}

(* Of fork(): an EMBRYO slot has one process that fills it in, one at a    *)
(* time holds ptable.lock, and only a running process is inside a call.    *)
ForkInv ==
  /\ \A p \in Table : Filling(p) =>
       np[p] \in Table /\ tab[np[p]].state = "EMBRYO"
  /\ \A p, q \in Table : Filling(p) /\ Filling(q) /\ np[p] = np[q] => p = q
  /\ \A q \in Table : tab[q].state = "EMBRYO" =>
       \E p \in Table : Filling(p) /\ np[p] = q
  /\ \A p, q \in Table : at[p] = "clear" /\ at[q] = "clear" => p = q
  /\ \A p \in Table : at[p] # "user" => tab[p].state = "RUNNING"

(* Of pids: each was given out once, and the one in a slot being cleared   *)
(* is the last.                                                            *)
PidInv ==
  /\ \A p \in Table : tab[p].pid < nextpid
  /\ \A p \in Table : tab[p].state # "UNUSED" => tab[p].pid >= 1
  /\ \A p, q \in Table :
       /\ tab[p].state # "UNUSED" /\ tab[q].state # "UNUSED"
       /\ tab[p].pid = tab[q].pid
       => p = q
  /\ \A p \in Table : at[p] = "clear" => tab[np[p]].pid = nextpid - 1

(* Of counters: a slot that fork() gave back has none, one that wait()     *)
(* freed has no pid, and a process being created has made no call.         *)
CountInv ==
  /\ CountsOwnCalls
  /\ \A p \in Table : tab[p].state = "UNUSED" =>
       tab[p].pid = 0 \/ tab[p].counter = NoCalls
  /\ \A p \in Table : at[p] = "fill" => tab[np[p]].counter = NoCalls
  /\ \A p \in Table : tab[p].state = "EMBRYO" => made[tab[p].pid] = NoCalls

(* Pid n may be named by the loop l: it made the call, or was not cleared  *)
(* when the loop began.                                                    *)
Caller(n, l) == n = 0 \/ n >= l.from \/ made[n][l.id] > 0

ScanOf(p) ==
  /\ scan[p].from <= Cleared
  /\ scan[p].pid < nextpid /\ Caller(scan[p].pid, scan[p])
  /\ at[p] \in {"scan", "scanpid"} => scan[p].p >= 1
  /\ at[p] = "scanpid" =>
       scan[p].p \in Table /\ Caller(tab[scan[p].p].pid, scan[p])

ScanInv == \A p \in Table : ScanOf(p)

CallsInv == Kinds /\ ForkInv /\ PidInv /\ CountInv /\ ScanInv
-----------------------------------------------------------------------------
(* syscall() counts the call in the slot of its caller and in no other     *)
(* place.                                                                  *)
LEMMA CountIs ==
  ASSUME Kinds, PidInv, NEW p \in Table, NEW n \in Nums, Count(p, n)
  PROVE  /\ tab' \in [Table -> Slots]
         /\ made' \in [1 .. nextpid - 1 -> Counters]
         /\ ncalls' \in Nat /\ UNCHANGED <<nextpid, np>>
         /\ \A q \in Table : /\ tab'[q].state = tab[q].state
                             /\ tab'[q].pid = tab[q].pid
                             /\ q # p => tab'[q].counter = tab[q].counter
         /\ tab'[p].counter = [tab[p].counter EXCEPT ![n] = @ + 1]
         /\ tab[p].pid \in 1 .. nextpid - 1
         /\ made'[tab[p].pid] = [made[tab[p].pid] EXCEPT ![n] = @ + 1]
         /\ \A m \in 1 .. nextpid - 1 : m # tab[p].pid => made'[m] = made[m]
<1>1. /\ tab[p] \in Slots /\ tab[p].pid \in Nat /\ tab[p].counter \in Counters
      /\ tab[p].state = "RUNNING" /\ at[p] = "user"
  BY DEF Count, Enters, Kinds, Slots
<1>2. tab[p].pid \in 1 .. nextpid - 1
  BY <1>1 DEF Kinds, PidInv
<1>3. [tab[p].counter EXCEPT ![n] = @ + 1] \in Counters
  BY <1>1 DEF Counters
<1>4. [tab[p] EXCEPT !.counter =
         [tab[p].counter EXCEPT ![n] = @ + 1]] \in Slots
  BY <1>1, <1>3 DEF Slots
<1>5. tab' = [tab EXCEPT ![p] = [tab[p] EXCEPT !.counter =
                [tab[p].counter EXCEPT ![n] = @ + 1]]]
  BY DEF Count
<1>6. [made[tab[p].pid] EXCEPT ![n] = @ + 1] \in Counters
  BY <1>2 DEF Kinds, Counters
<1>7. made' = [made EXCEPT ![tab[p].pid] =
                [made[tab[p].pid] EXCEPT ![n] = @ + 1]]
  BY DEF Count
<1>8. /\ tab' \in [Table -> Slots]
      /\ \A q \in Table : q # p => tab'[q] = tab[q]
      /\ tab'[p] = [tab[p] EXCEPT !.counter =
                     [tab[p].counter EXCEPT ![n] = @ + 1]]
  BY <1>4, <1>5 DEF Kinds
<1>9. /\ tab'[p].state = tab[p].state /\ tab'[p].pid = tab[p].pid
      /\ tab'[p].counter = [tab[p].counter EXCEPT ![n] = @ + 1]
  BY <1>1, <1>8 DEF Slots
<1>10. /\ made' \in [1 .. nextpid - 1 -> Counters]
       /\ made'[tab[p].pid] = [made[tab[p].pid] EXCEPT ![n] = @ + 1]
       /\ \A m \in 1 .. nextpid - 1 : m # tab[p].pid => made'[m] = made[m]
  BY <1>2, <1>6, <1>7, Zenon DEF Kinds
<1>11. ncalls' \in Nat /\ UNCHANGED <<nextpid, np>>
  BY DEF Count, Enters, Kinds
<1> QED
  BY <1>2, <1>8, <1>9, <1>10, <1>11, Zenon

(* allocproc() without a free slot changes nothing; with one it makes the  *)
(* slot EMBRYO and gives it a pid that nobody had.                         *)
LEMMA AllocIs ==
  ASSUME Kinds, NEW p \in Table, allocproc(p)
  PROVE  /\ at[p] = "fork" /\ ~Locked /\ UNCHANGED <<scan, ncalls>>
         /\ \/ Goto(p, "user") /\ UNCHANGED <<tab, nextpid, np, made>>
            \/ \E q \in Table :
                 /\ tab[q].state = "UNUSED"
                 /\ tab' \in [Table -> Slots]
                 /\ tab'[q].state = "EMBRYO" /\ tab'[q].pid = nextpid
                 /\ tab'[q].counter = tab[q].counter
                 /\ \A r \in Table : r # q => tab'[r] = tab[r]
                 /\ nextpid' = nextpid + 1 /\ np' = [np EXCEPT ![p] = q]
                 /\ made' \in [1 .. nextpid -> Counters]
                 /\ made'[nextpid] = NoCalls
                 /\ \A m \in 1 .. nextpid - 1 : made'[m] = made[m]
                 /\ Goto(p, "clear")
<1>1. CASE Goto(p, "user") /\ UNCHANGED <<tab, nextpid, np, made>>
  BY <1>1 DEF allocproc
<1>2. ASSUME NEW q \in Table, tab[q].state = "UNUSED",
             tab' = [tab EXCEPT ![q].state = "EMBRYO", ![q].pid = nextpid],
             made' = [n \in 1 .. nextpid |->
                       IF n = nextpid THEN NoCalls ELSE made[n]]
      PROVE  /\ tab' \in [Table -> Slots]
             /\ tab'[q].state = "EMBRYO" /\ tab'[q].pid = nextpid
             /\ tab'[q].counter = tab[q].counter
             /\ \A r \in Table : r # q => tab'[r] = tab[r]
             /\ made' \in [1 .. nextpid -> Counters]
             /\ made'[nextpid] = NoCalls
             /\ \A m \in 1 .. nextpid - 1 : made'[m] = made[m]
  <2>1. tab[q] \in Slots
    BY DEF Kinds
  <2>2. [tab[q] EXCEPT !.state = "EMBRYO", !.pid = nextpid] \in Slots
    BY <2>1, Zenon DEF Slots, States, Kinds
  <2>3. /\ tab' \in [Table -> Slots]
        /\ tab'[q] = [tab[q] EXCEPT !.state = "EMBRYO", !.pid = nextpid]
        /\ \A r \in Table : r # q => tab'[r] = tab[r]
    BY <1>2, <2>2 DEF Kinds
  <2>4. /\ tab'[q].state = "EMBRYO" /\ tab'[q].pid = nextpid
        /\ tab'[q].counter = tab[q].counter
    BY <2>1, <2>3 DEF Slots
  <2>5. NoCalls \in Counters
    BY DEF NoCalls, Counters
  <2>6. nextpid \in 1 .. nextpid /\ 1 .. nextpid - 1 \subseteq 1 .. nextpid
        /\ \A m \in 1 .. nextpid : m # nextpid => m \in 1 .. nextpid - 1
    BY DEF Kinds
  <2>7. \A m \in 1 .. nextpid - 1 : m # nextpid /\ made[m] \in Counters
    BY DEF Kinds
  <2> QED
    BY <1>2, <2>3, <2>4, <2>5, <2>6, <2>7
<1> QED
  BY <1>1, <1>2, Zenon DEF allocproc, First

(* The loop of allocproc() over the counters clears those of its slot. *)
LEMMA ClearIs ==
  ASSUME Kinds, ForkInv, NEW p \in Table, Clear(p)
  PROVE  /\ np[p] \in Table /\ tab[np[p]].state = "EMBRYO"
         /\ tab' \in [Table -> Slots]
         /\ \A r \in Table : /\ tab'[r].state = tab[r].state
                             /\ tab'[r].pid = tab[r].pid
                             /\ r # np[p] => tab'[r] = tab[r]
         /\ tab'[np[p]].counter = NoCalls
<1>1. np[p] \in Table /\ tab[np[p]].state = "EMBRYO" /\ tab[np[p]] \in Slots
  BY DEF Clear, ForkInv, Filling, Kinds
<1>2. NoCalls \in Counters
  BY DEF NoCalls, Counters
<1>3. [tab[np[p]] EXCEPT !.counter = NoCalls] \in Slots
  BY <1>1, <1>2 DEF Slots
<1>4. tab' = [tab EXCEPT ![np[p]].counter = NoCalls]
  BY DEF Clear
<1>5. /\ tab' \in [Table -> Slots]
      /\ tab'[np[p]] = [tab[np[p]] EXCEPT !.counter = NoCalls]
      /\ \A r \in Table : r # np[p] => tab'[r] = tab[r]
  BY <1>1, <1>3, <1>4 DEF Kinds
<1>6. /\ tab'[np[p]].state = tab[np[p]].state
      /\ tab'[np[p]].pid = tab[np[p]].pid
      /\ tab'[np[p]].counter = NoCalls
  BY <1>1, <1>5 DEF Slots
<1> QED
  BY <1>1, <1>5, <1>6, Zenon

(* fork() gives its slot back, or to the new process. *)
LEMMA FillIs ==
  ASSUME NSlots \in Nat, Kinds, ForkInv, NEW p \in Table, Fill(p)
  PROVE  /\ np[p] \in Table /\ tab[np[p]].state = "EMBRYO"
         /\ tab' \in [Table -> Slots]
         /\ tab'[np[p]].state \in {"UNUSED", "RUNNING"}
         /\ \A r \in Table : /\ r # np[p] => tab'[r].state = tab[r].state
                             /\ tab'[r].pid = tab[r].pid
                             /\ tab'[r].counter = tab[r].counter
<1>1. /\ np[p] \in Table /\ tab[np[p]].state = "EMBRYO"
      /\ tab[np[p]] \in Slots /\ p \in Nat
  BY DEF Fill, ForkInv, Filling, Kinds, Table
<1>2. PICK t \in {[tab[np[p]] EXCEPT !.state = "UNUSED"],
                  [tab[np[p]] EXCEPT !.state = "RUNNING", !.parent = p]} :
        tab' = [tab EXCEPT ![np[p]] = t]
  BY Zenon DEF Fill
<1>3. /\ t \in Slots /\ t.state \in {"UNUSED", "RUNNING"}
      /\ t.pid = tab[np[p]].pid /\ t.counter = tab[np[p]].counter
  BY <1>1, <1>2, Zenon DEF Slots, States
<1>4. /\ tab' \in [Table -> Slots] /\ tab'[np[p]] = t
      /\ \A r \in Table : r # np[p] => tab'[r] = tab[r]
  BY <1>1, <1>2, <1>3 DEF Kinds
<1> QED
  BY <1>1, <1>3, <1>4

(* exit() makes its process a ZOMBIE, with its pid and counters. *)
LEMMA ExitIs ==
  ASSUME Kinds, NEW p \in Table, exit(p)
  PROVE  /\ tab' \in [Table -> Slots] /\ tab'[p].state = "ZOMBIE"
         /\ \A r \in Table : /\ r # p => tab'[r].state = tab[r].state
                             /\ tab'[r].pid = tab[r].pid
                             /\ tab'[r].counter = tab[r].counter
<1> DEFINE t(r) == [tab[r] EXCEPT !.state = IF r = p THEN "ZOMBIE" ELSE @,
                                  !.parent = IF @ = p THEN 1 ELSE @]
<1>1. tab' = [r \in Table |-> t(r)]
  BY Zenon DEF exit
<1>2. ASSUME NEW r \in Table
      PROVE  /\ t(r) \in Slots /\ t(r).pid = tab[r].pid
             /\ t(r).counter = tab[r].counter
             /\ t(r).state = IF r = p THEN "ZOMBIE" ELSE tab[r].state
  <2>1. tab[r] \in Slots
    BY DEF Kinds
  <2> QED
    BY <2>1, Zenon DEF Slots, States
<1> HIDE DEF t
<1> QED
  BY <1>1, <1>2

(* wait() changes nothing, or frees the slot of a ZOMBIE and its pid. *)
LEMMA WaitIs ==
  ASSUME Kinds, NEW p \in Table, wait(p)
  PROVE  \/ UNCHANGED tab
         \/ \E q \in Table :
              /\ tab[q].state = "ZOMBIE" /\ tab' \in [Table -> Slots]
              /\ tab'[q].state = "UNUSED" /\ tab'[q].pid = 0
              /\ \A r \in Table : r # q => tab'[r] = tab[r]
<1>1. CASE UNCHANGED tab
  BY <1>1
<1>2. ASSUME NEW q \in Table, tab[q].state = "ZOMBIE",
             tab' = [tab EXCEPT ![q].state = "UNUSED", ![q].pid = 0,
                                ![q].parent = 0]
      PROVE  /\ tab' \in [Table -> Slots]
             /\ tab'[q].state = "UNUSED" /\ tab'[q].pid = 0
             /\ \A r \in Table : r # q => tab'[r] = tab[r]
  <2> DEFINE t == [tab[q] EXCEPT !.state = "UNUSED", !.pid = 0, !.parent = 0]
  <2>1. tab[q] \in Slots
    BY DEF Kinds
  <2>2. t \in Slots /\ t.state = "UNUSED" /\ t.pid = 0
    BY <2>1, Zenon DEF Slots, States
  <2>3. tab' = [tab EXCEPT ![q] = t]
    BY <1>2, Zenon
  <2> HIDE DEF t
  <2> QED
    BY <2>2, <2>3 DEF Kinds
<1>3. ASSUME NEW kids \in Awaited(p),
             NEW q \in First({z \in kids : tab[z].state = "ZOMBIE"})
      PROVE  q \in Table /\ tab[q].state = "ZOMBIE"
  <2>1. kids \subseteq Table
    BY Zenon DEF Awaited
  <2> QED
    BY <2>1, Zenon DEF First
<1>4. CASE \E kids \in Awaited(p) :
              \E q \in First({z \in kids : tab[z].state = "ZOMBIE"}) :
                 tab' = [tab EXCEPT ![q].state = "UNUSED", ![q].pid = 0,
                                    ![q].parent = 0]
  <2>1. PICK kids \in Awaited(p) :
          \E q \in First({z \in kids : tab[z].state = "ZOMBIE"}) :
             tab' = [tab EXCEPT ![q].state = "UNUSED", ![q].pid = 0,
                                ![q].parent = 0]
    BY <1>4, Zenon
  <2>2. PICK q \in First({z \in kids : tab[z].state = "ZOMBIE"}) :
          tab' = [tab EXCEPT ![q].state = "UNUSED", ![q].pid = 0,
                             ![q].parent = 0]
    BY <2>1, Zenon
  <2>3. q \in Table /\ tab[q].state = "ZOMBIE"
    BY <1>3, Zenon
  <2> QED
    BY <1>2, <2>2, <2>3, Zenon
<1> QED
  BY <1>1, <1>4, Zenon DEF wait

(* Every step keeps the kinds of the variables (Kinds). *)
LEMMA KindStep ==
  ASSUME NSlots \in Nat
  PROVE  CallsInv /\ [CallStep]_tabvars => Kinds'
<1> SUFFICES ASSUME Kinds, ForkInv, PidInv, ScanInv, [CallStep]_tabvars
             PROVE  Kinds'
  BY DEF CallsInv
<1>g. ASSUME NEW p \in Table, NEW l \in Places, Goto(p, l)
      PROVE  at' \in [Table -> Places]
  BY <1>g DEF Goto, Kinds
<1>1. CASE UNCHANGED tabvars
  BY <1>1 DEF tabvars, Kinds
<1>2. ASSUME NEW p \in Table, NEW n \in Nums, NEW l \in Places, Call(p, n, l)
      PROVE  Kinds'
  BY <1>2, <1>g, CountIs, Zenon DEF Call, Kinds
<1>3. ASSUME NEW p \in Table,
             sys_fork(p) \/ sys_exit(p) \/ sys_wait(p) \/ OtherCall(p)
      PROVE  Kinds'
  BY <1>3, <1>2 DEF sys_fork, sys_exit, sys_wait, OtherCall, Nums, Places
<1>4. ASSUME NEW p \in Table, allocproc(p) PROVE Kinds'
  <2>1. CASE Goto(p, "user") /\ UNCHANGED <<tab, nextpid, np, made>>
    BY <1>4, <1>g, <2>1, AllocIs DEF Kinds, Places
  <2>2. ASSUME NEW q \in Table, tab' \in [Table -> Slots],
               nextpid' = nextpid + 1, np' = [np EXCEPT ![p] = q],
               made' \in [1 .. nextpid -> Counters], Goto(p, "clear"),
               UNCHANGED <<scan, ncalls>>
        PROVE  Kinds'
    <3>1. nextpid' \in Nat /\ nextpid' >= 2 /\ nextpid' - 1 = nextpid
      BY <2>2 DEF Kinds
    <3>2. at' \in [Table -> Places]
      BY <2>2, <1>g DEF Places
    <3>3. q \in Nat
      BY DEF Table
    <3> QED
      BY <2>2, <3>1, <3>2, <3>3, Zenon DEF Kinds
  <2> QED
    BY <1>4, <2>1, <2>2, AllocIs
<1>5. ASSUME NEW p \in Table, Clear(p) PROVE Kinds'
  BY <1>5, <1>g, ClearIs, Zenon DEF Clear, Kinds, Places
<1>6. ASSUME NEW p \in Table, Fill(p) PROVE Kinds'
  <2>1. np' \in [Table -> Nat]
    BY <1>6 DEF Fill, Kinds
  <2> QED
    BY <1>6, <1>g, <2>1, FillIs, Zenon DEF Fill, Kinds, Places
<1>7. ASSUME NEW p \in Table, exit(p) PROVE Kinds'
  BY <1>7, <1>g, ExitIs, Zenon DEF exit, Kinds, Places
<1>8. ASSUME NEW p \in Table, wait(p) PROVE Kinds'
  BY <1>8, <1>g, WaitIs, Zenon DEF wait, Kinds, Places
<1>9. ASSUME NEW p \in Table, GetMostCaller(p) PROVE Kinds'
  <2>1. Count(p, "other") /\ at' \in [Table -> Places]
    BY <1>9, <1>g DEF GetMostCaller, Places
  <2>2. PICK id \in {"fork", "exit"} :
          scan' = [scan EXCEPT ![p] = [NoScan EXCEPT !.p = 1, !.id = id,
                                                     !.from = Cleared]]
    BY <1>9, Zenon DEF GetMostCaller, Id
  <2>3. Cleared \in Nat
    BY DEF Cleared, Kinds
  <2>4. scan' \in [Table -> Scans]
    BY <2>2, <2>3, Zenon DEF NoScan, Scans, Kinds
  <2> QED
    BY <2>1, <2>4, CountIs, Zenon DEF Nums, Kinds
<1>10. ASSUME NEW p \in Table, ScanTest(p) PROVE Kinds'
  <2>1. scan[p] \in Scans
    BY DEF Kinds
  <2>0. Id[scan[p].id] \in Nat
    BY <2>1 DEF Scans, Id
  <2>2. ASSUME NEW c \in Nat PROVE [scan[p] EXCEPT !.cnt = c] \in Scans
    BY <2>1 DEF Scans
  <2>3. ASSUME NEW c \in Nat PROVE [scan[p] EXCEPT !.p = c] \in Scans
    BY <2>1 DEF Scans
  <2>4. scan[p].p + 1 \in Nat
    BY <2>1 DEF Scans
  <2>5. CASE /\ Goto(p, "scanpid")
             /\ scan' = [scan EXCEPT ![p].cnt = Id[scan[p].id]]
    BY <1>10, <1>g, <2>0, <2>2, <2>5 DEF ScanTest, Kinds, Places
  <2>6. CASE scan' = [scan EXCEPT ![p].p = @ + 1] /\ UNCHANGED at
    BY <1>10, <2>3, <2>4, <2>6 DEF ScanTest, Kinds
  <2> QED
    BY <1>10, <2>5, <2>6 DEF ScanTest
<1>11. ASSUME NEW p \in Table, ScanPid(p) PROVE Kinds'
  <2>1. scan[p] \in Scans /\ tab[scan[p].p].pid \in Nat
    BY <1>11 DEF ScanPid, ScanInv, ScanOf, Kinds, Slots
  <2>2. ASSUME NEW c \in Nat, NEW d \in Nat
        PROVE  [scan[p] EXCEPT !.pid = c, !.p = d] \in Scans
    BY <2>1, Zenon DEF Scans
  <2>3. scan[p].p + 1 \in Nat
    BY <2>1 DEF Scans
  <2>4. scan' = [scan EXCEPT ![p] = [scan[p] EXCEPT
                  !.pid = tab[scan[p].p].pid, !.p = scan[p].p + 1]]
    BY <1>11, Zenon DEF ScanPid
  <2>5. scan' \in [Table -> Scans]
    BY <2>1, <2>2, <2>3, <2>4, Zenon DEF Kinds
  <2> QED
    BY <1>11, <1>g, <2>5 DEF ScanPid, Kinds, Places
<1>12. ASSUME NEW p \in Table, ScanReturn(p) PROVE Kinds'
  BY <1>12, <1>g, SMTT(30) DEF ScanReturn, Kinds, Places, NoScan, Scans, Nums
<1> QED
  BY <1>1, <1>3, <1>4, <1>5, <1>6, <1>7, <1>8, <1>9, <1>10, <1>11, <1>12,
     Zenon DEF CallStep

(* What a step does to processes and counters: a call begins, the loop of  *)
(* getMostCaller() advances, or the table changes.                         *)
Quiet == Places \ {"clear", "fill"}
Begins(p) == \E n \in Nums, l \in Quiet : Count(p, n) /\ Goto(p, l)
Scanning(p) == /\ at[p] \in {"scan", "scanpid"}
             /\ \E l \in {"user", "scan", "scanpid"} : Goto(p, l)
             /\ UNCHANGED <<tab, nextpid, np, made>>

(* These are all the steps there are. *)
LEMMA StepCases ==
  ASSUME Kinds, [CallStep]_tabvars
  PROVE  \/ UNCHANGED tabvars
         \/ \E p \in Table : \/ Begins(p) \/ Scanning(p) \/ allocproc(p)
                             \/ Clear(p) \/ Fill(p) \/ exit(p) \/ wait(p)
<1>1. ASSUME NEW p \in Table,
             \/ sys_fork(p) \/ sys_exit(p) \/ sys_wait(p) \/ OtherCall(p)
             \/ GetMostCaller(p)
      PROVE  Begins(p)
  BY <1>1, Zenon DEF sys_fork, sys_exit, sys_wait, OtherCall, GetMostCaller,
    Call, Begins, Quiet, Places, Nums
<1>2. ASSUME NEW p \in Table, ScanTest(p) PROVE Scanning(p)
  <2>1. at[p] = "scan" => at = [at EXCEPT ![p] = "scan"]
    BY DEF Kinds
  <2> QED
    BY <1>2, <2>1 DEF ScanTest, Scanning, Goto
<1>3. ASSUME NEW p \in Table, ScanPid(p) \/ ScanReturn(p) PROVE Scanning(p)
  BY <1>3 DEF ScanPid, ScanReturn, Scanning
<1> QED
  BY <1>1, <1>2, <1>3, Zenon DEF CallStep

(* Every step keeps what is said of fork() (ForkInv). *)
LEMMA ForkStep ==
  ASSUME NSlots \in Nat
  PROVE  CallsInv /\ [CallStep]_tabvars => ForkInv'
<1> SUFFICES ASSUME Kinds, ForkInv, PidInv, [CallStep]_tabvars
             PROVE  ForkInv'
  BY DEF CallsInv
<1>1. CASE UNCHANGED tabvars
  BY <1>1 DEF tabvars, ForkInv, Filling
<1>2. ASSUME NEW p \in Table, NEW l \in Quiet, Goto(p, l), UNCHANGED np,
             tab[p].state = "RUNNING", at[p] \in Quiet,
             \A r \in Table : tab'[r].state = tab[r].state
      PROVE  ForkInv'
  <2>1. at' = [at EXCEPT ![p] = l] /\ at \in [Table -> Places]
    BY <1>2 DEF Goto, Kinds
  <2>2. \A r \in Table : /\ Filling(r)' <=> Filling(r)
                         /\ at'[r] = "clear" <=> at[r] = "clear"
                         /\ at'[r] # "user" => r = p \/ at[r] # "user"
    BY <1>2, <2>1, SMTT(30) DEF Filling, Quiet
  <2> QED
    BY <1>2, <2>2, SMTT(30) DEF ForkInv
<1>3. ASSUME NEW p \in Table, Begins(p) PROVE ForkInv'
  <2>1. PICK n \in Nums, l \in Quiet : Count(p, n) /\ Goto(p, l)
    BY <1>3, Zenon DEF Begins
  <2>2. tab[p].state = "RUNNING" /\ at[p] \in Quiet
    BY <2>1 DEF Count, Enters, Quiet, Places
  <2>3. UNCHANGED np /\ \A r \in Table : tab'[r].state = tab[r].state
    BY <2>1, CountIs, Zenon
  <2> QED
    BY <1>2, <2>1, <2>2, <2>3, Zenon
<1>4. ASSUME NEW p \in Table, Scanning(p) PROVE ForkInv'
  BY <1>2, <1>4 DEF Scanning, Quiet, Places, ForkInv
<1>5. ASSUME NEW p \in Table, allocproc(p) PROVE ForkInv'
  <2>1. CASE Goto(p, "user") /\ UNCHANGED <<tab, np>>
    BY <1>2, <1>5, <2>1 DEF allocproc, Quiet, Places, ForkInv
  <2>2. ASSUME NEW q \in Table, tab[q].state = "UNUSED",
               tab'[q].state = "EMBRYO", np' = [np EXCEPT ![p] = q],
               \A r \in Table : r # q => tab'[r] = tab[r],
               Goto(p, "clear"), at[p] = "fork", ~Locked
        PROVE  ForkInv'
    <3>1. /\ at' = [at EXCEPT ![p] = "clear"] /\ at \in [Table -> Places]
          /\ np \in [Table -> Nat]
      BY <2>2 DEF Goto, Kinds
    <3>2. /\ \A r \in Table \ {p} : /\ Filling(r)' <=> Filling(r)
                                    /\ at'[r] = at[r] /\ np'[r] = np[r]
                                    /\ at'[r] # "clear"
          /\ Filling(p)' /\ ~Filling(p) /\ np'[p] = q
          /\ at'[p] = "clear" /\ tab[p].state = "RUNNING"
      BY <2>2, <3>1 DEF Filling, Locked, ForkInv
    <3>3. \A r \in Table : Filling(r) => np[r] # q
      BY <2>2 DEF ForkInv
    <3> QED
      BY <2>2, <3>2, <3>3 DEF ForkInv
  <2> QED
    BY <1>5, <2>1, <2>2, AllocIs
<1>6. ASSUME NEW p \in Table, Clear(p) PROVE ForkInv'
  <2>1. /\ at' = [at EXCEPT ![p] = "fill"] /\ at \in [Table -> Places]
        /\ at[p] = "clear" /\ UNCHANGED np
    BY <1>6 DEF Clear, Goto, Kinds
  <2>2. \A r \in Table : /\ Filling(r)' <=> Filling(r)
                         /\ at'[r] = "clear" => at[r] = "clear"
                         /\ at'[r] # "user" => at[r] # "user"
    BY <2>1 DEF Filling
  <2> QED
    BY <1>6, <2>1, <2>2, ClearIs DEF ForkInv
<1>7. ASSUME NEW p \in Table, Fill(p) PROVE ForkInv'
  <2>1. /\ at' = [at EXCEPT ![p] = "user"] /\ at \in [Table -> Places]
        /\ np' = [np EXCEPT ![p] = 0] /\ np \in [Table -> Nat]
        /\ at[p] = "fill"
    BY <1>7 DEF Fill, Goto, Kinds
  <2>2. /\ \A r \in Table \ {p} : /\ Filling(r)' <=> Filling(r)
                                  /\ np'[r] = np[r] /\ at'[r] = at[r]
        /\ ~Filling(p)' /\ Filling(p) /\ at'[p] = "user"
    BY <2>1 DEF Filling
  <2>3. /\ np[p] \in Table /\ tab[np[p]].state = "EMBRYO"
        /\ tab'[np[p]].state \in {"UNUSED", "RUNNING"}
        /\ \A r \in Table : r # np[p] => tab'[r].state = tab[r].state
    BY <1>7, FillIs
  <2> QED
    BY <2>2, <2>3 DEF ForkInv
<1>8. ASSUME NEW p \in Table, exit(p) PROVE ForkInv'
  <2>1. /\ at' = [at EXCEPT ![p] = "user"] /\ at \in [Table -> Places]
        /\ at[p] = "exit" /\ UNCHANGED np
    BY <1>8, Zenon DEF exit, Goto, Kinds
  <2>2. /\ \A r \in Table : /\ Filling(r)' <=> Filling(r)
                            /\ at'[r] = "clear" => at[r] = "clear"
                            /\ at'[r] # "user" => r # p /\ at[r] # "user"
        /\ tab[p].state = "RUNNING"
    BY <2>1 DEF Filling, ForkInv
  <2> QED
    BY <1>8, <2>1, <2>2, ExitIs, SMTT(30) DEF ForkInv
<1>9. ASSUME NEW p \in Table, wait(p) PROVE ForkInv'
  <2>1. /\ at' = [at EXCEPT ![p] = "user"] /\ at \in [Table -> Places]
        /\ at[p] = "wait" /\ UNCHANGED np
    BY <1>9, Zenon DEF wait, Goto, Kinds
  <2>2. \A r \in Table : /\ Filling(r)' <=> Filling(r)
                         /\ at'[r] = "clear" => at[r] = "clear"
                         /\ at'[r] # "user" => at[r] # "user"
    BY <2>1 DEF Filling
  <2>3. CASE UNCHANGED tab
    BY <2>1, <2>2, <2>3 DEF ForkInv
  <2>4. ASSUME NEW q \in Table, tab[q].state = "ZOMBIE",
               tab'[q].state = "UNUSED",
               \A r \in Table : r # q => tab'[r] = tab[r]
        PROVE  ForkInv'
    BY <2>1, <2>2, <2>4 DEF ForkInv
  <2> QED
    BY <1>9, <2>3, <2>4, WaitIs, SMTT(30)
<1> QED
  BY <1>1, <1>3, <1>4, <1>5, <1>6, <1>7, <1>8, <1>9, StepCases, Zenon

(* Every step keeps what is said of pids (PidInv). *)
LEMMA PidStep ==
  ASSUME NSlots \in Nat
  PROVE  CallsInv /\ [CallStep]_tabvars => PidInv'
<1> SUFFICES ASSUME Kinds, ForkInv, PidInv, [CallStep]_tabvars
             PROVE  PidInv'
  BY DEF CallsInv
<1>1. CASE UNCHANGED tabvars
  BY <1>1 DEF tabvars, PidInv
<1>2. ASSUME NEW p \in Table, NEW l \in Places \ {"clear"}, Goto(p, l),
             UNCHANGED nextpid, \A r \in Table : r # p => np'[r] = np[r],
             \A r \in Table :
               /\ tab'[r].pid = tab[r].pid
               /\ tab'[r].state # "UNUSED" => tab[r].state # "UNUSED"
      PROVE  PidInv'
  <2>1. at' = [at EXCEPT ![p] = l] /\ at \in [Table -> Places]
    BY <1>2 DEF Goto, Kinds
  <2>2. \A r \in Table : at'[r] = "clear" =>
          r # p /\ at[r] = "clear" /\ np'[r] = np[r] /\ np[r] \in Table
    BY <1>2, <2>1 DEF ForkInv, Filling
  <2> QED
    BY <1>2, <2>2 DEF PidInv
<1>3. ASSUME NEW p \in Table, Begins(p) PROVE PidInv'
  BY <1>2, <1>3, CountIs, Zenon DEF Begins, Quiet
<1>4. ASSUME NEW p \in Table, Scanning(p) PROVE PidInv'
  BY <1>2, <1>4 DEF Scanning, Places
<1>5. ASSUME NEW p \in Table, allocproc(p) PROVE PidInv'
  <2>1. CASE Goto(p, "user") /\ UNCHANGED <<tab, nextpid, np>>
    BY <1>2, <1>5, <2>1 DEF Places
  <2>2. ASSUME NEW q \in Table, tab[q].state = "UNUSED",
               tab'[q].pid = nextpid, np' = [np EXCEPT ![p] = q],
               \A r \in Table : r # q => tab'[r] = tab[r],
               nextpid' = nextpid + 1, Goto(p, "clear"), ~Locked
        PROVE  PidInv'
    <3>1. /\ at' = [at EXCEPT ![p] = "clear"] /\ at \in [Table -> Places]
          /\ np \in [Table -> Nat]
      BY <2>2 DEF Goto, Kinds
    <3>2. \A r \in Table : at'[r] = "clear" => r = p /\ np'[r] = q
      BY <2>2, <3>1 DEF Locked
    <3>3. nextpid \in Nat /\ nextpid >= 2
          /\ \A r \in Table : tab[r].pid \in Nat
      BY DEF Kinds, Slots
    <3> QED
      BY <2>2, <3>2, <3>3 DEF PidInv
  <2> QED
    BY <1>5, <2>1, <2>2, AllocIs
<1>6. ASSUME NEW p \in Table, Clear(p) PROVE PidInv'
  BY <1>2, <1>6, ClearIs DEF Clear, Places
<1>7. ASSUME NEW p \in Table, Fill(p) PROVE PidInv'
  <2>1. \A r \in Table : r # p => np'[r] = np[r]
    BY <1>7 DEF Fill, Kinds
  <2> QED
    BY <1>2, <1>7, <2>1, FillIs, Zenon DEF Fill, Places
<1>8. ASSUME NEW p \in Table, exit(p) PROVE PidInv'
  <2>1. tab[p].state = "RUNNING"
    BY <1>8, Zenon DEF exit, ForkInv
  <2> QED
    BY <1>2, <1>8, <2>1, ExitIs, Zenon DEF exit, Places
<1>9. ASSUME NEW p \in Table, wait(p) PROVE PidInv'
  <2>1. CASE UNCHANGED tab
    BY <1>2, <1>9, <2>1, Zenon DEF wait, Places
  <2>2. ASSUME NEW q \in Table, tab[q].state = "ZOMBIE",
               tab'[q].state = "UNUSED", tab'[q].pid = 0,
               \A r \in Table : r # q => tab'[r] = tab[r]
        PROVE  PidInv'
    <3>1. /\ at' = [at EXCEPT ![p] = "user"] /\ at \in [Table -> Places]
          /\ UNCHANGED <<np, nextpid>> /\ nextpid \in Nat /\ nextpid >= 2
      BY <1>9, Zenon DEF wait, Goto, Kinds
    <3>2. \A r \in Table : at'[r] = "clear" =>
            /\ at[r] = "clear" /\ np[r] \in Table /\ np[r] # q
      BY <2>2, <3>1 DEF ForkInv, Filling
    <3> QED
      BY <2>2, <3>1, <3>2, SMTT(30) DEF PidInv
  <2> QED
    BY <1>9, <2>1, <2>2, WaitIs, SMTT(30)
<1> QED
  BY <1>1, <1>3, <1>4, <1>5, <1>6, <1>7, <1>8, <1>9, StepCases, Zenon

(* Every step keeps what is said of counters (CountInv). *)
LEMMA CountStep ==
  ASSUME NSlots \in Nat
  PROVE  CallsInv /\ [CallStep]_tabvars => CountInv'
<1> SUFFICES ASSUME Kinds, ForkInv, PidInv, CountInv, [CallStep]_tabvars
             PROVE  CountInv'
  BY DEF CallsInv
<1>p. \A r \in Table : tab[r].state # "UNUSED" =>
                         tab[r].pid \in 1 .. nextpid - 1
  BY DEF Kinds, Slots, PidInv
<1>1. CASE UNCHANGED tabvars
  BY <1>1 DEF tabvars, CountInv, CountsOwnCalls
<1>2. ASSUME NEW p \in Table, NEW l \in Places \ {"fill"}, Goto(p, l)
      PROVE  \A r \in Table : at'[r] = "fill" =>
               r # p /\ at[r] = "fill" /\ np[r] \in Table
               /\ tab[np[r]].state = "EMBRYO"
  <2>1. at' = [at EXCEPT ![p] = l] /\ at \in [Table -> Places]
    BY <1>2 DEF Goto, Kinds
  <2> QED
    BY <1>2, <2>1 DEF ForkInv, Filling
<1>3. ASSUME NEW p \in Table, Begins(p) PROVE CountInv'
  <2>1. PICK n \in Nums, l \in Quiet : Count(p, n) /\ Goto(p, l)
    BY <1>3 DEF Begins
  <2>2. tab[p].state = "RUNNING" /\ tab[p].counter = made[tab[p].pid]
    BY <2>1 DEF Count, Enters, CountInv, CountsOwnCalls
  <2>3. /\ tab'[p].state = "RUNNING" /\ tab'[p].counter = made'[tab'[p].pid]
    <3>1. /\ tab'[p].state = tab[p].state /\ tab'[p].pid = tab[p].pid
          /\ tab'[p].counter = [tab[p].counter EXCEPT ![n] = @ + 1]
          /\ made'[tab[p].pid] = [made[tab[p].pid] EXCEPT ![n] = @ + 1]
      BY <2>1, CountIs
    <3> QED
      BY <2>2, <3>1
  <2>4. ASSUME NEW r \in Table, r # p
        PROVE  /\ tab'[r].state = tab[r].state /\ tab'[r].pid = tab[r].pid
               /\ tab'[r].counter = tab[r].counter
               /\ tab[r].state # "UNUSED" =>
                    made'[tab[r].pid] = made[tab[r].pid]
    <3>1. tab[r].state # "UNUSED" => tab[r].pid # tab[p].pid
      BY <2>2, <2>4 DEF PidInv
    <3> QED
      BY <1>p, <2>1, <2>4, <3>1, CountIs, Zenon
  <2>5. \A r \in Table : at'[r] = "fill" =>
          at[r] = "fill" /\ np'[r] = np[r] /\ np[r] \in Table /\ np[r] # p
    BY <1>2, <2>1, <2>2 DEF Quiet, Count
  <2>6. CountsOwnCalls'
    BY <2>3, <2>4 DEF CountInv, CountsOwnCalls
  <2> QED
    BY <2>3, <2>4, <2>5, <2>6 DEF CountInv
<1>4. ASSUME NEW p \in Table, Scanning(p) PROVE CountInv'
  BY <1>2, <1>4 DEF Scanning, Places, CountInv, CountsOwnCalls
<1>5. ASSUME NEW p \in Table, allocproc(p) PROVE CountInv'
  <2>1. CASE Goto(p, "user") /\ UNCHANGED <<tab, nextpid, np, made>>
    BY <1>2, <2>1 DEF Places, CountInv, CountsOwnCalls
  <2>2. ASSUME NEW q \in Table, tab[q].state = "UNUSED",
               tab'[q].state = "EMBRYO", tab'[q].pid = nextpid,
               \A r \in Table : r # q => tab'[r] = tab[r],
               np' = [np EXCEPT ![p] = q], made'[nextpid] = NoCalls,
               \A m \in 1 .. nextpid - 1 : made'[m] = made[m],
               Goto(p, "clear")
        PROVE  CountInv'
    <3>1. \A r \in Table : at'[r] = "fill" =>
            /\ at[r] = "fill" /\ np'[r] = np[r] /\ np[r] \in Table
            /\ np[r] # q
      BY <1>2, <2>2 DEF Kinds, Places
    <3>2. \A r \in Table : r # q /\ tab[r].state # "UNUSED" =>
            made'[tab'[r].pid] = made[tab[r].pid]
      BY <1>p, <2>2
    <3>3. CountsOwnCalls'
      BY <2>2, <3>2 DEF CountInv, CountsOwnCalls
    <3> QED
      BY <2>2, <3>1, <3>2, <3>3 DEF CountInv
  <2> QED
    BY <1>5, <2>1, <2>2, AllocIs
<1>6. ASSUME NEW p \in Table, Clear(p) PROVE CountInv'
  <2>1. /\ at' = [at EXCEPT ![p] = "fill"] /\ at \in [Table -> Places]
        /\ UNCHANGED <<np, made>> /\ Filling(p)
    BY <1>6 DEF Clear, Goto, Kinds, Filling
  <2>2. \A r \in Table : at'[r] = "fill" =>
          /\ np[r] \in Table
          /\ r # p => at[r] = "fill" /\ np[r] # np[p]
    BY <2>1 DEF ForkInv, Filling
  <2>3. CountsOwnCalls'
    BY <1>6, <2>1, ClearIs DEF CountInv, CountsOwnCalls
  <2> QED
    BY <1>6, <2>1, <2>2, <2>3, ClearIs DEF CountInv
<1>7. ASSUME NEW p \in Table, Fill(p) PROVE CountInv'
  <2>1. /\ at[p] = "fill" /\ Goto(p, "user") /\ np' = [np EXCEPT ![p] = 0]
        /\ np \in [Table -> Nat] /\ UNCHANGED made /\ Filling(p)
    BY <1>7 DEF Fill, Kinds, Filling
  <2>2. \A r \in Table : at'[r] = "fill" =>
          /\ at[r] = "fill" /\ np'[r] = np[r] /\ np[r] \in Table
          /\ np[r] # np[p]
    BY <1>2, <2>1 DEF Places, ForkInv, Filling
  <2>3. /\ np[p] \in Table /\ tab[np[p]].state = "EMBRYO"
        /\ tab'[np[p]].state \in {"UNUSED", "RUNNING"}
        /\ \A r \in Table : /\ r # np[p] => tab'[r].state = tab[r].state
                            /\ tab'[r].pid = tab[r].pid
                            /\ tab'[r].counter = tab[r].counter
    BY <1>7, FillIs
  <2>4. tab[np[p]].counter = NoCalls /\ made[tab[np[p]].pid] = NoCalls
    BY <2>1, <2>3 DEF CountInv
  <2>5. CountsOwnCalls'
    BY <2>1, <2>3, <2>4 DEF CountInv, CountsOwnCalls
  <2> QED
    BY <2>1, <2>2, <2>3, <2>4, <2>5 DEF CountInv
<1>8. ASSUME NEW p \in Table, exit(p) PROVE CountInv'
  <2>1. /\ tab[p].state = "RUNNING" /\ Goto(p, "user")
        /\ UNCHANGED <<np, made>>
    BY <1>8, Zenon DEF exit, ForkInv
  <2>2. CountsOwnCalls'
    BY <1>8, <2>1, ExitIs DEF CountInv, CountsOwnCalls
  <2> QED
    BY <1>2, <1>8, <2>1, <2>2, ExitIs, SMTT(30) DEF CountInv, Places
<1>9. ASSUME NEW p \in Table, wait(p) PROVE CountInv'
  <2>1. Goto(p, "user") /\ UNCHANGED <<np, made>>
    BY <1>9, Zenon DEF wait
  <2>2. CASE UNCHANGED tab
    BY <1>2, <2>1, <2>2 DEF Places, CountInv, CountsOwnCalls
  <2>3. ASSUME NEW q \in Table, tab[q].state = "ZOMBIE",
               tab'[q].state = "UNUSED", tab'[q].pid = 0,
               \A r \in Table : r # q => tab'[r] = tab[r]
        PROVE  CountInv'
    <3>1. CountsOwnCalls'
      BY <2>1, <2>3 DEF CountInv, CountsOwnCalls
    <3> QED
      BY <1>2, <2>1, <2>3, <3>1 DEF Places, CountInv
  <2> QED
    BY <1>9, <2>2, <2>3, WaitIs, SMTT(30)
<1> QED
  BY <1>1, <1>3, <1>4, <1>5, <1>6, <1>7, <1>8, <1>9, StepCases, Zenon

(* Counts, pids and the pids cleared only grow; the pid of a slot stays,   *)
(* is taken away, or is a new one.                                         *)
LEMMA Growth ==
  ASSUME NSlots \in Nat, CallsInv, [CallStep]_tabvars
  PROVE  /\ nextpid' >= nextpid /\ Cleared' >= Cleared
         /\ \A n \in 1 .. nextpid - 1, i \in Nums : made'[n][i] >= made[n][i]
         /\ \A r \in Table : tab'[r].pid \in {0, tab[r].pid, nextpid}
<1> USE DEF CallsInv
<1>0. /\ nextpid \in Nat /\ nextpid >= 2 /\ at \in [Table -> Places]
      /\ \A n \in 1 .. nextpid - 1, i \in Nums : made[n][i] \in Nat
  BY DEF Kinds, Counters
<1>1. ASSUME NEW p \in Table, NEW l \in Places \ {"clear"}, Goto(p, l),
             UNCHANGED nextpid
      PROVE  nextpid' >= nextpid /\ Cleared' >= Cleared
  <2>1. Locked' => Locked
    BY <1>0, <1>1 DEF Goto, Locked
  <2> QED
    BY <1>0, <1>1, <2>1 DEF Cleared
<1>2. CASE UNCHANGED tabvars
  BY <1>0, <1>2 DEF tabvars, Cleared, Locked
<1>3. ASSUME NEW p \in Table, Begins(p)
      PROVE  /\ nextpid' >= nextpid /\ Cleared' >= Cleared
             /\ \A n \in 1 .. nextpid - 1, i \in Nums :
                  made'[n][i] >= made[n][i]
             /\ \A r \in Table : tab'[r].pid = tab[r].pid
  <2>1. PICK n \in Nums, l \in Quiet : Count(p, n) /\ Goto(p, l)
    BY <1>3 DEF Begins
  <2>2. nextpid' >= nextpid /\ Cleared' >= Cleared
    BY <1>1, <2>1 DEF Quiet, Count
  <2>3. \A i \in Nums : made'[tab[p].pid][i] >= made[tab[p].pid][i]
    <3>1. /\ made'[tab[p].pid] = [made[tab[p].pid] EXCEPT ![n] = @ + 1]
          /\ made[tab[p].pid] \in Counters
      BY <2>1, CountIs, Zenon DEF Kinds
    <3> QED
      BY <3>1 DEF Counters
  <2>4. /\ \A m \in 1 .. nextpid - 1 : m # tab[p].pid => made'[m] = made[m]
        /\ \A r \in Table : tab'[r].pid = tab[r].pid
    BY <2>1, CountIs, Zenon
  <2> QED
    BY <1>0, <2>2, <2>3, <2>4
<1>4. ASSUME NEW p \in Table, Scanning(p)
      PROVE  nextpid' >= nextpid /\ Cleared' >= Cleared
  BY <1>1, <1>4 DEF Scanning, Places
<1>5. ASSUME NEW p \in Table, allocproc(p)
      PROVE  /\ nextpid' >= nextpid /\ Cleared' >= Cleared
             /\ \A n \in 1 .. nextpid - 1 : made'[n] = made[n]
             /\ \A r \in Table : tab'[r].pid \in {tab[r].pid, nextpid}
  <2>1. CASE Goto(p, "user") /\ UNCHANGED <<tab, nextpid, np, made>>
    BY <1>1, <2>1 DEF Places
  <2>2. CASE nextpid' = nextpid + 1
    BY <1>0, <1>5, <2>2, AllocIs DEF Cleared
  <2> QED
    BY <1>5, <2>1, <2>2, AllocIs
<1>6. ASSUME NEW p \in Table, Clear(p) \/ Fill(p) \/ exit(p) \/ wait(p)
      PROVE  /\ nextpid' >= nextpid /\ Cleared' >= Cleared /\ UNCHANGED made
             /\ \A r \in Table : tab'[r].pid \in {0, tab[r].pid}
  <2>1. UNCHANGED made /\ UNCHANGED nextpid
        /\ \E l \in {"user", "fill"} : Goto(p, l)
    BY <1>6, Zenon DEF Clear, Fill, exit, wait
  <2>2. \A r \in Table : tab'[r].pid \in {0, tab[r].pid}
    BY <1>6, ClearIs, FillIs, ExitIs, WaitIs
  <2> QED
    BY <1>1, <2>1, <2>2, SMTT(30) DEF Places
<1>7. CASE \E p \in Table : Scanning(p)
  BY <1>0, <1>4, <1>7 DEF Scanning
<1>8. CASE \E p \in Table : Clear(p) \/ Fill(p) \/ exit(p) \/ wait(p)
  BY <1>0, <1>6, <1>8
<1>9. CASE \E p \in Table : allocproc(p)
  BY <1>0, <1>5, <1>9
<1> QED
  BY <1>2, <1>3, <1>7, <1>8, <1>9, StepCases

(* A slot whose counter is above a count belongs to a process that made    *)
(* the call, to none, or to one being created.                             *)
LEMMA TestFindsCaller ==
  ASSUME CallsInv, NEW p \in Table, NEW q \in Table, Exceeds(q, scan[p])
  PROVE  Caller(tab[q].pid, scan[p])
<1> USE DEF CallsInv
<1>1. /\ scan[p].id \in Nums /\ scan[p].cnt \in Nat /\ scan[p].from \in Nat
      /\ tab[q].counter \in Counters /\ tab[q].state \in States
  BY SMTT(30) DEF Kinds, Scans, Slots, Nums
<1>2. tab[q].counter[scan[p].id] > 0
  BY <1>1 DEF Exceeds, Counters
<1>3. tab[q].counter # NoCalls
  BY <1>1, <1>2 DEF NoCalls
<1>4. CASE tab[q].state \in {"RUNNING", "ZOMBIE"}
  BY <1>2, <1>4 DEF CountInv, CountsOwnCalls, Caller
<1>5. CASE tab[q].state = "UNUSED"
  BY <1>3, <1>5 DEF CountInv, Caller
<1>6. CASE tab[q].state = "EMBRYO"
  <2>1. PICK r \in Table : Filling(r) /\ np[r] = q
    BY <1>6 DEF ForkInv
  <2>2. at[r] = "clear"
    BY <1>3, <2>1 DEF CountInv, Filling
  <2>3. tab[q].pid = nextpid - 1 /\ Cleared = nextpid - 1
    BY <2>1, <2>2 DEF PidInv, Cleared, Locked
  <2> QED
    BY <2>3 DEF ScanInv, ScanOf, Caller
<1> QED
  BY <1>1, <1>4, <1>5, <1>6 DEF States

(* Every step keeps what is said of getMostCaller() (ScanInv). *)
LEMMA ScanStep ==
  ASSUME NSlots \in Nat
  PROVE  CallsInv /\ [CallStep]_tabvars => ScanInv'
<1> SUFFICES ASSUME CallsInv, [CallStep]_tabvars PROVE ScanInv'
  OBVIOUS
<1>0. /\ nextpid \in Nat /\ Cleared \in Nat /\ Cleared <= nextpid
      /\ nextpid >= 2 /\ nextpid' \in Nat /\ Cleared' \in Nat
      /\ nextpid' >= nextpid /\ Cleared' >= Cleared
      /\ \A r \in Table : tab[r].pid \in Nat /\ tab[r].pid < nextpid
      /\ \A n \in 1 .. nextpid - 1, i \in Nums :
           made[n][i] \in Nat /\ made'[n][i] \in Nat
  <2>1. Kinds /\ Kinds' /\ PidInv
    BY KindStep DEF CallsInv
  <2>2. nextpid' >= nextpid /\ Cleared' >= Cleared
    BY Growth
  <2>n. /\ nextpid \in Nat /\ nextpid >= 2
        /\ nextpid' \in Nat /\ nextpid' >= 2
    BY <2>1 DEF Kinds
  <2>3. /\ made \in [1 .. nextpid - 1 -> Counters]
        /\ made' \in [1 .. nextpid' - 1 -> Counters]
    BY <2>1, Zenon DEF Kinds
  <2>4. \A n \in 1 .. nextpid - 1 : n \in 1 .. nextpid' - 1
    <3>1. \A k, m \in Nat : m >= k =>
            \A n \in 1 .. k - 1 : n \in 1 .. m - 1
      OBVIOUS
    <3> QED
      BY <2>2, <2>n, <3>1, Zenon
  <2>5. \A n \in 1 .. nextpid - 1, i \in Nums :
          made[n][i] \in Nat /\ made'[n][i] \in Nat
    BY <2>3, <2>4 DEF Counters
  <2>6. \A r \in Table : tab[r].pid \in Nat /\ tab[r].pid < nextpid
    BY <2>1 DEF Kinds, Slots, PidInv
  <2>7. Cleared \in Nat /\ Cleared <= nextpid /\ Cleared' \in Nat
    <3>1. \A m \in Nat : m >= 2 => \A c \in {m - 1, m} : c \in Nat /\ c <= m
      OBVIOUS
    <3>2. Cleared \in {nextpid - 1, nextpid}
      BY DEF Cleared
    <3>3. Cleared' \in {nextpid' - 1, nextpid'}
      BY DEF Cleared
    <3>4. Cleared \in Nat /\ Cleared <= nextpid
      BY <2>n, <3>1, <3>2
    <3>5. Cleared' \in Nat
      BY <2>n, <3>1, <3>3, Zenon
    <3> QED
      BY <3>4, <3>5
  <2> QED
    BY <2>2, <2>n, <2>5, <2>6, <2>7
<1>k. at \in [Table -> Places] /\ scan \in [Table -> Scans]
      /\ \A r \in Table : ScanOf(r)
  BY DEF CallsInv, Kinds, ScanInv
<1> DEFINE Caller1(n, l) == n = 0 \/ n >= l.from \/ made'[n][l.id] > 0
<1>1. ASSUME NEW n \in Nat, n < nextpid, NEW l \in Scans, Caller(n, l)
      PROVE  Caller1(n, l)
  <2>1. l.id \in Nums
    BY DEF Scans, Nums
  <2>2. CASE n = 0 \/ n >= l.from
    BY <2>2
  <2>3. CASE n \in 1 .. nextpid - 1 /\ made[n][l.id] > 0
    BY <1>0, <2>1, <2>3, Growth
  <2> QED
    BY <1>0, <1>1, <2>2, <2>3 DEF Caller
<1>2. ASSUME NEW r \in Table,
             scan'[r].from <= Cleared', scan'[r].pid < nextpid',
             Caller1(scan'[r].pid, scan'[r]),
             at'[r] \in {"scan", "scanpid"} => scan'[r].p >= 1,
             at'[r] = "scanpid" => /\ scan'[r].p \in Table
                                   /\ Caller1(tab'[scan'[r].p].pid, scan'[r])
      PROVE  ScanOf(r)'
  BY <1>2 DEF ScanOf, Caller
<1> HIDE DEF Caller1
<1>3. ASSUME NEW r \in Table, scan'[r] = scan[r],
             at'[r] = at[r] \/ at'[r] \notin {"scan", "scanpid"}
      PROVE  ScanOf(r)'
  <2>1. PICK l \in Scans : l = scan[r] /\ l.from \in Nat /\ l.pid \in Nat
    BY <1>k DEF Scans
  <2>2. /\ l.from <= Cleared /\ l.pid < nextpid /\ Caller(l.pid, l)
        /\ at[r] \in {"scan", "scanpid"} => l.p >= 1
        /\ at[r] = "scanpid" => l.p \in Table /\ Caller(tab[l.p].pid, l)
    BY <1>k, <2>1 DEF ScanOf
  <2>3. l.from <= Cleared' /\ l.pid < nextpid' /\ Caller1(l.pid, l)
    BY <1>0, <1>1, <2>1, <2>2
  <2>4. ASSUME at'[r] = "scanpid"
        PROVE  l.p \in Table /\ Caller1(tab'[l.p].pid, l)
    <3>1. l.p \in Table /\ Caller1(tab[l.p].pid, l)
      BY <1>0, <1>1, <1>3, <2>2, <2>4
    <3>2. Caller1(0, l) /\ Caller1(nextpid, l)
      BY <1>0, <2>1, <2>2 DEF Caller1
    <3>3. tab'[l.p].pid \in {0, tab[l.p].pid, nextpid}
      BY <3>1, Growth
    <3> QED
      BY <3>1, <3>2, <3>3
  <2> QED
    BY <1>2, <1>3, <2>1, <2>2, <2>3, <2>4
<1>4. ASSUME NEW p \in Table, NEW l \in Places, Goto(p, l),
             \A r \in Table : r # p => scan'[r] = scan[r], ScanOf(p)'
      PROVE  ScanInv'
  <2>1. \A r \in Table : r # p => at'[r] = at[r]
    BY <1>4, <1>k DEF Goto
  <2> QED
    BY <1>3, <1>4, <2>1 DEF ScanInv
<1>5. CASE UNCHANGED tabvars
  BY <1>3, <1>5 DEF tabvars, ScanInv
<1>6. ASSUME NEW p \in Table, NEW l \in Places \ {"scan", "scanpid"},
             Goto(p, l), UNCHANGED scan
      PROVE  ScanInv'
  <2>1. at'[p] = l
    BY <1>6, <1>k DEF Goto
  <2> QED
    BY <1>3, <1>4, <1>6, <2>1
<1>7. ASSUME NEW p \in Table,
             \/ sys_fork(p) \/ sys_exit(p) \/ sys_wait(p) \/ OtherCall(p)
             \/ allocproc(p) \/ Clear(p) \/ Fill(p) \/ exit(p) \/ wait(p)
      PROVE  ScanInv'
  <2>1. /\ UNCHANGED scan
        /\ \E l \in {"fork", "exit", "wait", "user", "clear", "fill"} :
             Goto(p, l)
    BY <1>7, Zenon DEF sys_fork, sys_exit, sys_wait, OtherCall, Call,
      allocproc, Clear, Fill, exit, wait
  <2> QED
    BY <1>6, <2>1, SMTT(30) DEF Places
<1>8. ASSUME NEW p \in Table, GetMostCaller(p) PROVE ScanInv'
  <2>1. Goto(p, "scan") /\ at'[p] = "scan"
    BY <1>8, <1>k DEF GetMostCaller, Goto
  <2>2. PICK id \in DOMAIN Id :
          scan' = [scan EXCEPT ![p] = [NoScan EXCEPT !.p = 1, !.id = id,
                                                     !.from = Cleared]]
    BY <1>8, Zenon DEF GetMostCaller
  <2>3. /\ \A r \in Table : r # p => scan'[r] = scan[r]
        /\ scan'[p].p = 1 /\ scan'[p].pid = 0 /\ scan'[p].from = Cleared
    BY <1>k, <2>2 DEF NoScan
  <2>4. ScanOf(p)'
    BY <1>0, <1>2, <2>1, <2>3 DEF Caller1
  <2> QED
    BY <1>4, <2>1, <2>3, <2>4 DEF Places
<1>9. ASSUME NEW p \in Table, ScanReturn(p) PROVE ScanInv'
  <2>1. Goto(p, "user") /\ at'[p] = "user"
    BY <1>9, <1>k DEF ScanReturn, Goto
  <2>2. /\ \A r \in Table : r # p => scan'[r] = scan[r]
        /\ scan'[p].pid = 0 /\ scan'[p].from = 0
    BY <1>9, <1>k DEF ScanReturn, NoScan
  <2>3. ScanOf(p)'
    BY <1>0, <1>2, <2>1, <2>2 DEF Caller1
  <2> QED
    BY <1>4, <2>1, <2>2, <2>3 DEF Places
<1>10. ASSUME NEW p \in Table, ScanPid(p) PROVE ScanInv'
  <2>1. Goto(p, "scan") /\ at'[p] = "scan" /\ at[p] = "scanpid"
    BY <1>10, <1>k DEF ScanPid, Goto
  <2>2. PICK l \in Scans : l = scan[p] /\ l.from \in Nat /\ l.p \in Nat
    BY <1>k DEF Scans
  <2>3. /\ l.from <= Cleared /\ l.p >= 1 /\ l.p \in Table
        /\ Caller(tab[l.p].pid, l)
    BY <1>k, <2>1, <2>2 DEF ScanOf
  <2>4. scan' = [scan EXCEPT ![p] =
                  [l EXCEPT !.pid = tab[l.p].pid, !.p = l.p + 1]]
    BY <1>10, <2>2, Zenon DEF ScanPid
  <2>5. /\ \A r \in Table : r # p => scan'[r] = scan[r]
        /\ scan'[p].pid = tab[l.p].pid /\ scan'[p].p = l.p + 1
        /\ scan'[p].from = l.from /\ scan'[p].id = l.id
    BY <1>k, <2>2, <2>4 DEF Scans
  <2>6. Caller1(scan'[p].pid, scan'[p])
    <3>1. Caller1(tab[l.p].pid, l)
      BY <1>0, <1>1, <2>3
    <3> QED
      BY <2>5, <3>1 DEF Caller1
  <2>7. ScanOf(p)'
    BY <1>0, <1>2, <2>1, <2>2, <2>3, <2>5, <2>6
  <2> QED
    BY <1>4, <2>1, <2>5, <2>7 DEF Places
<1>11. ASSUME NEW p \in Table, ScanTest(p) PROVE ScanInv'
  <2>1. PICK l \in Scans : /\ l = scan[p] /\ l.from \in Nat /\ l.pid \in Nat
                           /\ l.p \in Nat
    BY <1>k DEF Scans
  <2>2. /\ at[p] = "scan" /\ l.from <= Cleared /\ l.p >= 1
        /\ l.pid < nextpid /\ Caller(l.pid, l) /\ l.p <= NSlots
        /\ UNCHANGED tab
    BY <1>11, <1>k, <2>1 DEF ScanOf, ScanTest
  <2>3. Caller1(l.pid, l) /\ l.pid < nextpid' /\ l.from <= Cleared'
    BY <1>0, <1>1, <2>1, <2>2
  <2>4. CASE /\ Exceeds(l.p, l) /\ Goto(p, "scanpid")
             /\ scan' = [scan EXCEPT ![p].cnt = Id[l.id]]
    <3>1. l.p \in Table
      BY <2>1, <2>2 DEF Table
    <3>2. Caller1(tab[l.p].pid, l)
      BY <1>0, <1>1, <2>1, <2>4, <3>1, TestFindsCaller
    <3>3. scan' = [scan EXCEPT ![p] = [l EXCEPT !.cnt = Id[l.id]]]
      BY <2>1, <2>4
    <3>4. /\ \A r \in Table : r # p => scan'[r] = scan[r]
          /\ scan'[p].pid = l.pid /\ scan'[p].p = l.p
          /\ scan'[p].from = l.from /\ scan'[p].id = l.id
          /\ at'[p] = "scanpid"
      BY <1>k, <2>4, <3>3 DEF Scans, Goto
    <3>5. /\ Caller1(scan'[p].pid, scan'[p])
          /\ Caller1(tab'[scan'[p].p].pid, scan'[p])
      BY <2>2, <2>3, <3>2, <3>4 DEF Caller1
    <3>6. ScanOf(p)'
      BY <1>2, <2>2, <2>3, <3>1, <3>4, <3>5
    <3> QED
      BY <1>4, <2>4, <3>4, <3>6 DEF Places
  <2>5. CASE scan' = [scan EXCEPT ![p].p = @ + 1] /\ UNCHANGED at
    <3>1. scan' = [scan EXCEPT ![p] = [l EXCEPT !.p = l.p + 1]]
      BY <2>1, <2>5
    <3>2. /\ \A r \in Table : r # p => scan'[r] = scan[r]
          /\ scan'[p].pid = l.pid /\ scan'[p].p = l.p + 1
          /\ scan'[p].from = l.from /\ scan'[p].id = l.id
          /\ at'[p] = "scan" /\ Goto(p, "scan")
      BY <1>k, <2>2, <2>5, <3>1 DEF Scans, Goto
    <3>3. Caller1(scan'[p].pid, scan'[p])
      BY <2>3, <3>2 DEF Caller1
    <3>4. ScanOf(p)'
      BY <1>2, <2>1, <2>2, <2>3, <3>2, <3>3
    <3> QED
      BY <1>4, <3>2, <3>4 DEF Places
  <2> QED
    BY <1>11, <2>1, <2>4, <2>5 DEF ScanTest
<1> QED
  BY <1>5, <1>7, <1>8, <1>9, <1>10, <1>11, Zenon DEF CallStep
-----------------------------------------------------------------------------
(* In the initial state nobody has made a call. *)
LEMMA CallsStart ==
  ASSUME NSlots \in Nat
  PROVE  CallsInit => CallsInv
<1> SUFFICES ASSUME CallsInit PROVE CallsInv
  OBVIOUS
<1>1. /\ nextpid = 2 /\ made = [n \in {1} |-> NoCalls] /\ ncalls = 0
      /\ at = [p \in Table |-> "user"] /\ np = [p \in Table |-> 0]
      /\ scan = [p \in Table |-> NoScan]
  BY DEF CallsInit
<1>2. NoCalls \in Counters /\ NoScan \in Scans
  BY DEF NoCalls, Counters, NoScan, Scans
<1>3. ASSUME NEW p \in Table
      PROVE  /\ tab[p] \in Slots /\ tab[p].counter = NoCalls
             /\ tab[p].pid = IF p = 1 THEN 1 ELSE 0
             /\ tab[p].state = IF p = 1 THEN "RUNNING" ELSE "UNUSED"
  BY <1>2 DEF CallsInit, Slots, States
<1>4. Kinds
  <2>1. tab \in [Table -> Slots]
    BY <1>3 DEF CallsInit
  <2>2. {1} = 1 .. nextpid - 1
    BY <1>1
  <2> QED
    BY <1>1, <1>2, <2>1, <2>2 DEF Kinds, Places
<1>5. ForkInv
  BY <1>1, <1>3 DEF ForkInv, Filling
<1>6. PidInv
  BY <1>1, <1>3 DEF PidInv
<1>7. CountInv
  BY <1>1, <1>3 DEF CountInv, CountsOwnCalls
<1>8. ScanInv
  BY <1>1 DEF ScanInv, ScanOf, NoScan, Caller, Cleared
<1> QED
  BY <1>4, <1>5, <1>6, <1>7, <1>8 DEF CallsInv

(* Every step but the count of a number outside counter[] is one of those  *)
(* above.                                                                  *)
LEMMA WildOrStep ==
  [CallsNext]_callvars => wild' \/ [CallStep]_tabvars
BY Zenon DEF CallsNext, callvars, WildCall

(* Until a number outside counter[] is counted, and whatever the           *)
(* interleaving of fork(), exit(), wait() and the lockless loop of         *)
(* getMostCaller(), getcallcount() counts the calls of the process itself, *)
(* and the pid named is that of a caller or of a process whose creation    *)
(* the loop saw.                                                           *)
THEOREM CallsAlwaysSound ==
  ASSUME NSlots \in Nat
  PROVE  CallsSpec => []CallsSound
<1> DEFINE IInv == wild \/ CallsInv
<1>1. CallsInit => IInv
  BY CallsStart
<1>2. CallsInv /\ [CallStep]_tabvars => CallsInv'
  BY KindStep, ForkStep, PidStep, CountStep, ScanStep DEF CallsInv
<1>3. IInv /\ [CallsNext]_callvars => IInv'
  <2>1. wild /\ [CallsNext]_callvars => wild'
    BY SMTT(30) DEF CallsNext, callvars
  <2> QED
    BY <1>2, <2>1, WildOrStep
<1>4. IInv => CallsSound
  BY Zenon DEF CallsInv, CountInv, ScanInv, ScanOf, Caller, CallsSound,
    NamesACaller
<1> QED
  BY <1>1, <1>3, <1>4, PTL DEF CallsSpec
=============================================================================
