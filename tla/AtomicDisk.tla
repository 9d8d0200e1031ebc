----------------------------- MODULE AtomicDisk -----------------------------
(***************************************************************************)
(* What log.c promises to the file system: the calls between begin_op and  *)
(* end_op form transactions; what a crash leaves on the disk is the state  *)
(* after some set of complete transactions, all of them or none.           *)
(***************************************************************************)
CONSTANTS
  Procs,   \* processes making file system calls
  Blocks,  \* disk blocks outside the log
  Vals     \* contents of a block

VARIABLES
  mem,     \* contents of every block as running calls see them
  stable,  \* contents of every block if the machine crashed now
  active   \* processes between begin_op and end_op

vars == <<mem, stable, active>>

Init ==
  /\ mem \in [Blocks -> Vals]
  /\ stable = mem
  /\ active = {}

Begin(p) ==
  /\ p \notin active
  /\ active' = active \cup {p}
  /\ UNCHANGED <<mem, stable>>

Write(p, b, v) ==
  /\ p \in active
  /\ mem' = [mem EXCEPT ![b] = v]
  /\ UNCHANGED <<stable, active>>

End(p) ==
  /\ p \in active
  /\ active' = active \ {p}
  /\ UNCHANGED <<mem, stable>>

(* Everything written so far becomes durable at once, and only while no    *)
(* transaction is open.                                                    *)
Commit ==
  /\ active = {}
  /\ stable' = mem
  /\ UNCHANGED <<mem, active>>

Crash ==
  /\ mem' = stable
  /\ active' = {}
  /\ UNCHANGED stable

Next ==
  \/ \E p \in Procs : Begin(p) \/ End(p)
  \/ \E p \in Procs, b \in Blocks, v \in Vals : Write(p, b, v)
  \/ Commit
  \/ Crash

Spec == Init /\ [][Next]_vars
=============================================================================
