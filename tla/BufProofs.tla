----------------------------- MODULE BufProofs -----------------------------
(***************************************************************************)
(* The buffer cache of bio.c, sleeplock.c and ide.c keeps BuffersSound     *)
(* and SleepersServed for any finite number of processes and of buffers,   *)
(* any blocks and any contents.                                            *)
(*                                                                         *)
(* The inductive invariant Inv has a layer per mechanism: the fields       *)
(* (Kinds), the sleep lock of a buffer (LockInv), its count (UseInv), the  *)
(* request queue (QueueInv) and the contents (DataInv). A lemma for each   *)
(* layer has a step for each action, and names the other layers that it    *)
(* needs.                                                                  *)
(***************************************************************************)
EXTENDS BufCache, Lemmas, FiniteSetTheorems, TLAPS

(* TypeOK without the bound on refcnt, which is a matter of UseInv. *)
Kinds ==
  /\ blk \in [Bufs -> Blocks \cup {NoBlock}]
  /\ valid \in [Bufs -> BOOLEAN] /\ dirty \in [Bufs -> BOOLEAN]
  /\ refcnt \in [Bufs -> Int]
  /\ data \in [Bufs -> Vals] /\ disk \in [Blocks -> Vals]
  /\ locked \in [Bufs -> SUBSET Procs]
  /\ mru \in Lists
  /\ idequeue \in Seq(Bufs)
  /\ pc \in [Procs -> PCs]
  /\ want \in [Procs -> Blocks \cup {NoBlock}]
  /\ buf \in [Procs -> Bufs]
  /\ latest \in [Blocks -> Vals]
  /\ bad \subseteq Bufs
  /\ panicked \in BOOLEAN

(* Where a process holds the sleep lock of its buffer. *)
Holders == {"check", "io_asleep", "io_test", "use"}

(* Of a buffer's lock (acquiresleep, releasesleep): it is held by one      *)
(* process, which is past acquiresleep, and nobody sleeps for a lock that  *)
(* is free.                                                                *)
LockInv ==
  /\ \A b \in Bufs, p \in Procs :
       p \in locked[b] <=> pc[p] \in Holders /\ buf[p] = b
  /\ \A b \in Bufs : \A p, q \in locked[b] : p = q
  /\ \A p \in Procs : pc[p] = "lock_asleep" => locked[buf[p]] # {}

(* Of a buffer's count (bget, brelse): it is the number of its users, a    *)
(* used buffer keeps the block that they asked for, and a block has one    *)
(* buffer.                                                                 *)
UseInv ==
  /\ \A b \in Bufs : refcnt[b] = Cardinality(Users(b))
  /\ \A p \in Procs : pc[p] # "idle" =>
       want[p] \in Blocks /\ blk[buf[p]] = want[p]
  /\ \A b, c \in Bufs : blk[b] = blk[c] /\ blk[b] \in Blocks => b = c

(* The test of iderw's loop: the request for b has been served. *)
Done(b) == valid[b] /\ ~dirty[b]

(* Of idequeue (iderw, ideintr): a buffer is queued once, not served yet   *)
(* and for a process in iderw; a process there that finds its request      *)
(* gone finds it served; a buffer is used once it is valid.                *)
QueueInv ==
  /\ IsInjective(idequeue)
  /\ \A b \in Range(idequeue) :
       /\ ~Done(b)
       /\ \E p \in Procs : pc[p] \in {"io_asleep", "io_test"} /\ buf[p] = b
  /\ \A p \in Procs :
       /\ pc[p] = "io_asleep" => buf[p] \in Range(idequeue)
       /\ pc[p] = "io_test" => buf[p] \in Range(idequeue) \/ Done(buf[p])
       /\ pc[p] = "use" => valid[buf[p]]

(* Of the contents: a dirty buffer is valid, a valid one caches a block,   *)
(* and holds what was stored in it last unless its read failed.            *)
DataInv ==
  /\ \A b \in Bufs : dirty[b] => valid[b] /\ b \notin bad
  /\ \A b \in Bufs : valid[b] => blk[b] \in Blocks
  /\ \A b \in Bufs : valid[b] /\ b \notin bad => data[b] = latest[blk[b]]
  /\ NothingLost

(* bget finds the block in buffer b. *)
Hit(p, k, b) ==
  /\ pc[p] = "idle" /\ blk[b] = k
  /\ want' = [want EXCEPT ![p] = k]
  /\ refcnt' = [refcnt EXCEPT ![b] = refcnt[b] + 1]
  /\ buf' = [buf EXCEPT ![p] = b]
  /\ pc' = [pc EXCEPT ![p] = "lock"]
  /\ bad' = {c \in bad : valid[c]}
  /\ UNCHANGED <<blk, valid, dirty, data, locked, mru, idequeue, disk, latest,
                 panicked>>

(* bget finds the block in no buffer and recycles b. *)
Miss(p, k, b) ==
  /\ pc[p] = "idle" /\ refcnt[b] = 0 /\ ~dirty[b]
  /\ \A c \in Bufs : blk[c] # k
  /\ want' = [want EXCEPT ![p] = k]
  /\ blk' = [blk EXCEPT ![b] = k]
  /\ valid' = [valid EXCEPT ![b] = FALSE]
  /\ dirty' = [dirty EXCEPT ![b] = FALSE]
  /\ refcnt' = [refcnt EXCEPT ![b] = 1]
  /\ buf' = [buf EXCEPT ![p] = b]
  /\ pc' = [pc EXCEPT ![p] = "lock"]
  /\ bad' \subseteq bad /\ (\A c \in bad : valid'[c] => c \in bad')
  /\ UNCHANGED <<data, locked, mru, idequeue, disk, latest, panicked>>

(* bget finds no buffer to recycle, and panics. *)
Fail(p, k) ==
  /\ pc[p] = "idle"
  /\ want' = [want EXCEPT ![p] = k]
  /\ panicked' = TRUE
  /\ bad' = {c \in bad : valid[c]}
  /\ UNCHANGED <<blk, valid, dirty, refcnt, data, locked, mru, idequeue, disk,
                 pc, buf, latest>>
-----------------------------------------------------------------------------
USE BufAssumption

(* A call of bget is one of these three; the buffer it recycles is unused  *)
(* and clean, whichever place of the list it is found at.                  *)
LEMMA BgetIs ==
  ASSUME NEW p \in Procs, NEW k \in Blocks, Bget(p, k)
  PROVE  \/ \E b \in Bufs : Hit(p, k, b) \/ Miss(p, k, b)
         \/ Fail(p, k)
<1>1. ASSUME NEW b \in Cached(k),
             refcnt' = [refcnt EXCEPT ![b] = refcnt[b] + 1],
             buf' = [buf EXCEPT ![p] = b], Goto(p, "lock"),
             UNCHANGED <<blk, valid, dirty, panicked>>
      PROVE  b \in Bufs /\ Hit(p, k, b)
  BY <1>1 DEF Bget, At, Goto, Cached, Hit
<1>2. ASSUME NEW b \in LeastRecent(Unused), Cached(k) = {},
             blk' = [blk EXCEPT ![b] = k],
             valid' = [valid EXCEPT ![b] = FALSE],
             dirty' = [dirty EXCEPT ![b] = FALSE],
             refcnt' = [refcnt EXCEPT ![b] = 1],
             buf' = [buf EXCEPT ![p] = b], Goto(p, "lock"), UNCHANGED panicked
      PROVE  b \in Bufs /\ Miss(p, k, b)
  <2>1. b \in Bufs /\ refcnt[b] = 0 /\ ~dirty[b]
    BY DEF LeastRecent, Unused
  <2>2. \A c \in Bufs : blk[c] # k
    BY <1>2 DEF Cached
  <2>3. bad' \subseteq bad /\ (\A c \in bad : valid'[c] => c \in bad')
    BY DEF Bget
  <2> QED
    BY <1>2, <2>1, <2>2, <2>3 DEF Bget, At, Goto, Miss
<1>3. ASSUME panicked' = TRUE,
             UNCHANGED <<blk, valid, dirty, refcnt, buf, pc>>
      PROVE  Fail(p, k)
  BY <1>3 DEF Bget, At, Fail
<1> QED
  BY <1>1, <1>2, <1>3, Zenon DEF Bget

(* brelse moves a buffer to the front of the list and loses none: the      *)
(* list still has every buffer once.                                       *)
LEMMA FrontKind ==
  ASSUME mru \in Lists, NEW b \in Bufs
  PROVE  MoveToFront(b) \in Lists
<1> DEFINE n == Cardinality(Bufs)
           i == CHOOSE j \in 1..n : mru[j] = b
           at(j) == CASE j = 1 -> b
                     [] j \in 2..i -> mru[j - 1]
                     [] j > i -> mru[j]
           r == [j \in 1..n |-> at(j)]
<1>1. /\ n \in Nat /\ mru \in [1..n -> Bufs]
      /\ \A j, m \in 1..n : mru[j] = mru[m] => j = m
      /\ \A c \in Bufs : \E j \in 1..n : mru[j] = c
  BY FS_CardinalityType
     DEF Lists, Bijection, Injection, Surjection, IsInjective
<1> HIDE DEF n
<1>2. i \in 1..n /\ mru[i] = b
  BY <1>1
<1> HIDE DEF i
<1>3. MoveToFront(b) = r
  <2>1. DOMAIN mru = 1..n
    BY <1>1
  <2> QED
    BY <2>1 DEF MoveToFront, i
<1>4. /\ r[1] = b
      /\ \A j \in 2..i : r[j] = mru[j - 1]
      /\ \A j \in i + 1..n : r[j] = mru[j]
  <2>1. r[1] = b
    BY <1>1, <1>2
  <2>2. ASSUME NEW j \in 2..i PROVE r[j] = mru[j - 1]
    BY <1>1, <1>2
  <2>3. ASSUME NEW j \in i + 1..n PROVE r[j] = mru[j]
    BY <1>1, <1>2
  <2> QED
    BY <2>1, <2>2, <2>3, Zenon
<1> HIDE DEF at
<1>5. (\A j \in 1..n : r[j] \in Bufs) => r \in [1..n -> Bufs]
  OBVIOUS
<1> HIDE DEF r
<1>6. \A j \in 1..n : j = 1 \/ j \in 2..i \/ j \in i + 1..n
  BY <1>1, <1>2
<1>7. \A j \in 1..n : r[j] \in Bufs
  <2>1. \A j \in 2..i : j - 1 \in 1..n
    BY <1>1, <1>2
  <2>2. \A j \in i + 1..n : j \in 1..n
    BY <1>1, <1>2
  <2> QED
    BY <1>1, <1>4, <1>6, <2>1, <2>2
<1> DEFINE from(j) == IF j = 1 THEN i ELSE IF j <= i THEN j - 1 ELSE j
<1>8. \A j \in 1..n : from(j) \in 1..n /\ r[j] = mru[from(j)]
  BY <1>1, <1>2, <1>4, <1>6
<1>9. \A j, m \in 1..n : from(j) = from(m) => j = m
  BY <1>1, <1>2
<1>10. \A j \in 1..n : \E m \in 1..n : from(m) = j
  <2> TAKE j \in 1..n
  <2>1. CASE j = i
    <3>1. 1 \in 1..n /\ from(1) = j
      BY <1>1, <1>2, <2>1
    <3> QED
      BY <3>1
  <2>2. CASE j < i
    <3>1. j + 1 \in 1..n /\ from(j + 1) = j
      BY <1>1, <1>2, <2>2
    <3> QED
      BY <3>1
  <2>3. CASE j > i
    <3>1. from(j) = j
      BY <1>1, <1>2, <2>3
    <3> QED
      BY <3>1
  <2> QED
    BY <1>1, <1>2, <2>1, <2>2, <2>3
<1> HIDE DEF from
<1>11. ASSUME NEW j \in 1..n, NEW m \in 1..n, r[j] = r[m] PROVE j = m
  <2>1. mru[from(j)] = mru[from(m)]
    BY <1>8, <1>11
  <2>2. from(j) = from(m)
    BY <1>1, <1>8, <2>1
  <2> QED
    BY <1>9, <2>2
<1>12. ASSUME NEW c \in Bufs PROVE \E j \in 1..n : r[j] = c
  <2>1. PICK m \in 1..n : mru[m] = c
    BY <1>1
  <2>2. PICK j \in 1..n : from(j) = m
    BY <1>10
  <2> QED
    BY <1>8, <2>1, <2>2
<1>13. r \in [1..n -> Bufs]
  BY <1>5, <1>7
<1>14. r \in Bijection(1..n, Bufs)
  BY <1>11, <1>12, <1>13 DEF Bijection, Injection, Surjection, IsInjective
<1> QED
  BY <1>3, <1>14 DEF Lists, n

(* Every step keeps the fields' kinds (Kinds). *)
LEMMA KindStep == Kinds /\ UseInv /\ QueueInv /\ [Next]_vars => Kinds'
<1> SUFFICES ASSUME Kinds, UseInv, QueueInv, [Next]_vars
             PROVE  Kinds'
  OBVIOUS
<1> USE DEF Kinds, PCs
<1>1. CASE UNCHANGED vars
  BY <1>1 DEF vars, bufs
<1>2. CASE IdeIntr
  <2>1. Head(idequeue) \in Bufs /\ idequeue' \in Seq(Bufs)
    BY <1>2, TailFacts DEF IdeIntr, QueueInv
  <2>2. blk[Head(idequeue)] \in Blocks
    <3>1. Head(idequeue) \in Range(idequeue)
      BY <1>2, TailFacts DEF IdeIntr, QueueInv
    <3>2. PICK p \in Procs : pc[p] # "idle" /\ buf[p] = Head(idequeue)
      BY <3>1, Zenon DEF QueueInv
    <3> QED
      BY <3>2 DEF UseInv
  <2>3. /\ data' \in [Bufs -> Vals] /\ disk' \in [Blocks -> Vals]
        /\ bad' \subseteq Bufs
    BY <1>2, <2>1, <2>2, Zenon DEF IdeIntr
  <2>4. valid' \in [Bufs -> BOOLEAN] /\ dirty' \in [Bufs -> BOOLEAN]
    BY <1>2, <2>1 DEF IdeIntr
  <2>5. pc' \in [Procs -> PCs]
    BY <1>2 DEF IdeIntr
  <2> QED
    BY <1>2, <2>1, <2>3, <2>4, <2>5 DEF IdeIntr
<1>3. ASSUME NEW p \in Procs, AcquireSleep(p) PROVE Kinds'
  <2>1. pc' \in [Procs -> PCs]
    BY <1>3, Zenon DEF AcquireSleep, Goto
  <2>2. locked' \in [Bufs -> SUBSET Procs]
    <3>1. locked' = locked \/ locked' = [locked EXCEPT ![buf[p]] = {p}]
      BY <1>3 DEF AcquireSleep
    <3>2. {p} \in SUBSET Procs
      OBVIOUS
    <3>3. [locked EXCEPT ![buf[p]] = {p}] \in [Bufs -> SUBSET Procs]
      BY <3>2
    <3> QED
      BY <3>1, <3>3, Zenon
  <2> QED
    BY <1>3, <2>1, <2>2 DEF AcquireSleep, bufs
<1>4. ASSUME NEW p \in Procs, Bread(p) PROVE Kinds'
  <2>1. idequeue' \in Seq(Bufs)
    <3>1. Append(idequeue, buf[p]) \in Seq(Bufs)
      BY AppendFacts
    <3> QED
      BY <1>4, <3>1, Zenon DEF Bread, Request
  <2>2. pc' \in [Procs -> PCs]
    BY <1>4 DEF Bread, Request, Goto
  <2> QED
    BY <1>4, <2>1, <2>2 DEF Bread, bufs
<1>5. ASSUME NEW p \in Procs, IdeTest(p) PROVE Kinds'
  BY <1>5 DEF IdeTest, At, Goto, bufs
<1>6. ASSUME NEW p \in Procs, ReleaseSleep(p) PROVE Kinds'
  <2>1. pc' \in [Procs -> PCs] /\ locked' \in [Bufs -> SUBSET Procs]
    BY <1>6 DEF ReleaseSleep, Wake
  <2> QED
    BY <1>6, <2>1 DEF ReleaseSleep, bufs
<1>7. ASSUME NEW p \in Procs, Brelse(p) PROVE Kinds'
  <2>1. AnyBuf \in Bufs
    BY DEF AnyBuf
  <2>2. mru' \in Lists
    BY <1>7, FrontKind DEF Brelse
  <2>3. pc' \in [Procs -> PCs] /\ refcnt' \in [Bufs -> Int]
    BY <1>7 DEF Brelse, Goto
  <2>4. /\ buf' \in [Procs -> Bufs]
        /\ want' \in [Procs -> Blocks \cup {NoBlock}]
    BY <1>7, <2>1 DEF Brelse
  <2> QED
    BY <1>7, <2>2, <2>3, <2>4 DEF Brelse
<1>8. ASSUME NEW p \in Procs, KillWakes(p) PROVE Kinds'
  BY <1>8 DEF KillWakes, At, Goto, bufs
<1>9. ASSUME NEW p \in Procs, NEW k \in Blocks, NEW b \in Bufs, Hit(p, k, b)
      PROVE  Kinds'
  <2>1. pc' \in [Procs -> PCs] /\ refcnt' \in [Bufs -> Int]
    BY <1>9 DEF Hit
  <2>2. /\ buf' \in [Procs -> Bufs] /\ bad' \subseteq Bufs
        /\ want' \in [Procs -> Blocks \cup {NoBlock}]
    BY <1>9 DEF Hit
  <2> QED
    BY <1>9, <2>1, <2>2 DEF Hit
<1>10. ASSUME NEW p \in Procs, NEW k \in Blocks, NEW b \in Bufs, Miss(p, k, b)
      PROVE  Kinds'
  <2>1. pc' \in [Procs -> PCs] /\ refcnt' \in [Bufs -> Int]
    BY <1>10 DEF Miss
  <2>2. /\ buf' \in [Procs -> Bufs] /\ bad' \subseteq Bufs
        /\ want' \in [Procs -> Blocks \cup {NoBlock}]
    BY <1>10 DEF Miss
  <2>3. /\ blk' \in [Bufs -> Blocks \cup {NoBlock}]
        /\ valid' \in [Bufs -> BOOLEAN] /\ dirty' \in [Bufs -> BOOLEAN]
    BY <1>10 DEF Miss
  <2> QED
    BY <1>10, <2>1, <2>2, <2>3 DEF Miss
<1>11. ASSUME NEW p \in Procs, NEW k \in Blocks, Fail(p, k) PROVE Kinds'
  <2>1. want' \in [Procs -> Blocks \cup {NoBlock}] /\ bad' \subseteq Bufs
    BY <1>11 DEF Fail
  <2>2. panicked' \in BOOLEAN
    BY <1>11 DEF Fail
  <2> QED
    BY <1>11, <2>1, <2>2 DEF Fail
<1>12. ASSUME NEW p \in Procs, NEW v \in Vals, Bwrite(p, v) PROVE Kinds'
  <2>1. idequeue' \in Seq(Bufs)
    BY <1>12, AppendFacts DEF Bwrite, Request
  <2>2. pc' \in [Procs -> PCs]
    BY <1>12 DEF Bwrite, Request, Goto
  <2>3. data' \in [Bufs -> Vals] /\ latest' \in [Blocks -> Vals]
    BY <1>12, Zenon DEF Bwrite, Store
  <2>4. dirty' \in [Bufs -> BOOLEAN] /\ bad' \subseteq Bufs
    BY <1>12 DEF Bwrite, Store
  <2> QED
    BY <1>12, <2>1, <2>2, <2>3, <2>4 DEF Bwrite
<1>13. ASSUME NEW p \in Procs, NEW v \in Vals, Pin(p, v) PROVE Kinds'
  <2>1. data' \in [Bufs -> Vals] /\ latest' \in [Blocks -> Vals]
    BY <1>13, Zenon DEF Pin, Store
  <2>2. dirty' \in [Bufs -> BOOLEAN] /\ bad' \subseteq Bufs
    BY <1>13 DEF Pin, Store
  <2> QED
    BY <1>13, <2>1, <2>2 DEF Pin
<1> HIDE DEF Kinds, PCs
<1> QED
  BY <1>1, <1>2, <1>3, <1>4, <1>5, <1>6, <1>7, <1>8, <1>9, <1>10, <1>11,
     <1>12, <1>13, BgetIs DEF Next, Step

(* Two processes that hold the lock of one buffer are one process          *)
(* (acquiresleep).                                                         *)
LEMMA Alone ==
  ASSUME LockInv, NEW p \in Procs, NEW q \in Procs, NEW b \in Bufs,
         buf[p] = b, buf[q] = b, pc[p] \in Holders, pc[q] \in Holders
  PROVE  p = q
<1>1. p \in locked[b] /\ q \in locked[b]
  BY DEF LockInv
<1> QED
  BY <1>1 DEF LockInv

(* The buffer of a process that holds its lock and is not in iderw is not  *)
(* in idequeue, and no other process waits for the disk to serve it.       *)
LEMMA NotQueued ==
  ASSUME Kinds, LockInv, QueueInv, NEW p \in Procs, pc[p] \in {"check", "use"}
  PROVE  /\ buf[p] \notin Range(idequeue)
         /\ \A q \in Procs : buf[q] = buf[p] =>
              pc[q] \notin {"io_asleep", "io_test"}
<1>1. ASSUME NEW q \in Procs, buf[q] = buf[p],
             pc[q] \in {"io_asleep", "io_test"}
      PROVE  FALSE
  <2>1. pc[p] \in Holders /\ pc[q] \in Holders /\ buf[p] \in Bufs
    BY <1>1 DEF Holders, Kinds
  <2> QED
    BY <1>1, <2>1, Alone
<1> QED
  BY <1>1 DEF QueueInv

(* A buffer has finitely many users, for refcnt to count. *)
LEMMA UsersFinite == \A b \in Bufs : IsFiniteSet(Users(b))
BY FS_Subset DEF Users

(* A buffer whose count is zero is the buffer of no process that is in a   *)
(* call: what bget recycles is not pulled from under anyone.               *)
LEMMA NoUsers ==
  ASSUME UseInv, NEW b \in Bufs, refcnt[b] = 0
  PROVE  \A q \in Procs : buf[q] = b => pc[q] = "idle"
<1>1. Users(b) = {}
  BY UsersFinite, FS_EmptySet DEF UseInv
<1> QED
  BY <1>1 DEF Users

(* Every step keeps a buffer's lock with one holder (LockInv). *)
LEMMA LockStep == Kinds /\ LockInv /\ [Next]_vars => LockInv'
<1> SUFFICES ASSUME Kinds, LockInv, [Next]_vars
             PROVE  LockInv'
  OBVIOUS
<1> USE DEF Kinds, LockInv, Holders
<1>1. CASE UNCHANGED vars
  BY <1>1 DEF vars, bufs
<1>2. CASE IdeIntr
  <2>1. /\ locked' = locked /\ buf' = buf
        /\ \A q \in Procs : pc'[q] \in Holders <=> pc[q] \in Holders
        /\ \A q \in Procs : pc'[q] = "lock_asleep" => pc[q] = "lock_asleep"
    BY <1>2 DEF IdeIntr
  <2> QED
    BY <2>1
<1>3. ASSUME NEW p \in Procs, AcquireSleep(p) PROVE LockInv'
  <2>1. CASE locked[buf[p]] # {}
    <3>1. locked' = locked /\ buf' = buf
      BY <1>3, <2>1 DEF AcquireSleep
    <3>2. pc' = [pc EXCEPT ![p] = "lock_asleep"] /\ pc[p] = "lock"
      BY <1>3, <2>1 DEF AcquireSleep, At, Goto
    <3> QED
      BY <2>1, <3>1, <3>2
  <2>2. CASE locked[buf[p]] = {}
    <3>1. locked' = [locked EXCEPT ![buf[p]] = {p}] /\ buf' = buf
      BY <1>3, <2>2 DEF AcquireSleep
    <3>2. pc' = [pc EXCEPT ![p] = "check"] /\ pc[p] = "lock"
      BY <1>3, <2>2 DEF AcquireSleep, At, Goto
    <3>3. ASSUME NEW b \in Bufs, NEW q \in Procs
          PROVE  q \in locked'[b] <=> pc'[q] \in Holders /\ buf'[q] = b
      <4>1. CASE q = p
        BY <2>2, <3>1, <3>2, <4>1
      <4>2. CASE q # p
        BY <2>2, <3>1, <3>2, <4>2
      <4> QED
        BY <4>1, <4>2
    <3>4. \A b \in Bufs : \A q, r \in locked'[b] : q = r
      BY <3>1
    <3>5. \A q \in Procs : pc'[q] = "lock_asleep" => locked'[buf'[q]] # {}
      BY <3>1, <3>2
    <3> QED
      BY <3>3, <3>4, <3>5, Zenon
  <2> QED
    BY <2>1, <2>2, Zenon
<1>4. ASSUME NEW p \in Procs, Bread(p) PROVE LockInv'
  <2>1. /\ locked' = locked /\ buf' = buf
        /\ \A q \in Procs : pc'[q] \in Holders <=> pc[q] \in Holders
        /\ \A q \in Procs : pc'[q] = "lock_asleep" => pc[q] = "lock_asleep"
    BY <1>4 DEF Bread, Request, At, Goto, bufs
  <2> QED
    BY <2>1
<1>5. ASSUME NEW p \in Procs, IdeTest(p) PROVE LockInv'
  <2>1. /\ locked' = locked /\ buf' = buf
        /\ \A q \in Procs : pc'[q] \in Holders <=> pc[q] \in Holders
        /\ \A q \in Procs : pc'[q] = "lock_asleep" => pc[q] = "lock_asleep"
    BY <1>5 DEF IdeTest, At, Goto, bufs
  <2> QED
    BY <2>1
<1>6. ASSUME NEW p \in Procs, ReleaseSleep(p) PROVE LockInv'
  <2> DEFINE b == buf[p]
  <2>1. locked' = [locked EXCEPT ![b] = {}] /\ buf' = buf /\ b \in Bufs
    BY <1>6 DEF ReleaseSleep
  <2>2. p \in locked[b] /\ pc'[p] = "release"
    BY <1>6 DEF ReleaseSleep, At, Wake
  <2>3. \A q \in Procs : q # p =>
          \/ pc'[q] = pc[q] /\ ~(pc[q] = "lock_asleep" /\ buf[q] = b)
          \/ pc'[q] = "lock" /\ pc[q] = "lock_asleep"
    BY <1>6 DEF ReleaseSleep, Wake
  <2> HIDE DEF b
  <2>4. ASSUME NEW c \in Bufs, NEW q \in Procs
        PROVE  q \in locked'[c] <=> pc'[q] \in Holders /\ buf'[q] = c
    <3>1. CASE q = p
      BY <2>1, <2>2, <3>1 DEF b
    <3>2. CASE q # p
      <4>1. pc'[q] \in Holders <=> pc[q] \in Holders
        BY <2>3, <3>2
      <4>2. q \notin locked[b]
        BY <2>1, <2>2, <3>2
      <4> QED
        BY <2>1, <4>1, <4>2
    <3> QED
      BY <3>1, <3>2
  <2>5. \A c \in Bufs : \A q, r \in locked'[c] : q = r
    BY <2>1
  <2>6. \A q \in Procs : pc'[q] = "lock_asleep" => locked'[buf'[q]] # {}
    BY <2>1, <2>2, <2>3, ZenonT(30)
  <2> QED
    BY <2>4, <2>5, <2>6, Zenon
<1>7. ASSUME NEW p \in Procs, Brelse(p) PROVE LockInv'
  BY <1>7 DEF Brelse, At, Goto
<1>8. ASSUME NEW p \in Procs, KillWakes(p) PROVE LockInv'
  <2>1. /\ locked' = locked /\ buf' = buf
        /\ \A q \in Procs : pc'[q] \in Holders <=> pc[q] \in Holders
        /\ \A q \in Procs : pc'[q] = "lock_asleep" => pc[q] = "lock_asleep"
    BY <1>8 DEF KillWakes, At, Goto, bufs
  <2> QED
    BY <2>1
<1>9. ASSUME NEW p \in Procs, NEW k \in Blocks, NEW b \in Bufs, Hit(p, k, b)
      PROVE  LockInv'
  BY <1>9 DEF Hit
<1>10. ASSUME NEW p \in Procs, NEW k \in Blocks, NEW b \in Bufs, Miss(p, k, b)
      PROVE  LockInv'
  BY <1>10 DEF Miss
<1>11. ASSUME NEW p \in Procs, NEW k \in Blocks, Fail(p, k) PROVE LockInv'
  <2>1. /\ locked' = locked /\ buf' = buf
        /\ \A q \in Procs : pc'[q] \in Holders <=> pc[q] \in Holders
        /\ \A q \in Procs : pc'[q] = "lock_asleep" => pc[q] = "lock_asleep"
    BY <1>11 DEF Fail
  <2> QED
    BY <2>1
<1>12. ASSUME NEW p \in Procs, NEW v \in Vals, Bwrite(p, v) PROVE LockInv'
  <2>1. /\ locked' = locked /\ buf' = buf
        /\ \A q \in Procs : pc'[q] \in Holders <=> pc[q] \in Holders
        /\ \A q \in Procs : pc'[q] = "lock_asleep" => pc[q] = "lock_asleep"
    BY <1>12 DEF Bwrite, Store, Request, At, Goto
  <2> QED
    BY <2>1
<1>13. ASSUME NEW p \in Procs, NEW v \in Vals, Pin(p, v) PROVE LockInv'
  <2>1. /\ locked' = locked /\ buf' = buf
        /\ \A q \in Procs : pc'[q] \in Holders <=> pc[q] \in Holders
        /\ \A q \in Procs : pc'[q] = "lock_asleep" => pc[q] = "lock_asleep"
    BY <1>13 DEF Pin, Store, At
  <2> QED
    BY <2>1
<1> HIDE DEF Kinds, LockInv, Holders
<1> QED
  BY <1>1, <1>2, <1>3, <1>4, <1>5, <1>6, <1>7, <1>8, <1>9, <1>10, <1>11,
     <1>12, <1>13, BgetIs DEF Next, Step

(* A process that enters or leaves no call and keeps its buffer leaves     *)
(* the users of every buffer as they were.                                 *)
LEMMA SameUsers ==
  ASSUME UseInv, UNCHANGED <<blk, refcnt, want, buf>>,
         \A q \in Procs : pc'[q] = "idle" <=> pc[q] = "idle"
  PROVE  UseInv'
<1>1. \A b \in Bufs : Users(b)' = Users(b)
  BY DEF Users
<1> QED
  BY <1>1 DEF UseInv

(* Every step keeps the counts and the blocks of used buffers (UseInv). *)
LEMMA UseStep == Kinds /\ LockInv /\ UseInv /\ [Next]_vars => UseInv'
<1> SUFFICES ASSUME Kinds, LockInv, UseInv, [Next]_vars
             PROVE  UseInv'
  OBVIOUS
<1>1. CASE UNCHANGED vars
  <2>1. UNCHANGED <<blk, refcnt, want, buf, pc>>
    BY <1>1 DEF vars, bufs
  <2> QED
    BY <2>1, SameUsers
<1>2. CASE IdeIntr
  <2>1. /\ UNCHANGED <<blk, refcnt, want, buf>>
        /\ \A q \in Procs : pc'[q] = "idle" <=> pc[q] = "idle"
    BY <1>2 DEF IdeIntr, Kinds
  <2> QED
    BY <2>1, SameUsers
<1>3. ASSUME NEW p \in Procs, AcquireSleep(p) PROVE UseInv'
  <2>1. /\ UNCHANGED <<blk, refcnt, want, buf>>
        /\ \A q \in Procs : pc'[q] = "idle" <=> pc[q] = "idle"
    BY <1>3 DEF AcquireSleep, At, Goto, bufs, Kinds
  <2> QED
    BY <2>1, SameUsers
<1>4. ASSUME NEW p \in Procs, Bread(p) PROVE UseInv'
  <2>1. /\ UNCHANGED <<blk, refcnt, want, buf>>
        /\ \A q \in Procs : pc'[q] = "idle" <=> pc[q] = "idle"
    BY <1>4 DEF Bread, Request, At, Goto, bufs, Kinds
  <2> QED
    BY <2>1, SameUsers
<1>5. ASSUME NEW p \in Procs, IdeTest(p) PROVE UseInv'
  <2>1. /\ UNCHANGED <<blk, refcnt, want, buf>>
        /\ \A q \in Procs : pc'[q] = "idle" <=> pc[q] = "idle"
    BY <1>5 DEF IdeTest, At, Goto, bufs, Kinds
  <2> QED
    BY <2>1, SameUsers
<1>6. ASSUME NEW p \in Procs, ReleaseSleep(p) PROVE UseInv'
  <2>1. /\ UNCHANGED <<blk, refcnt, want, buf>>
        /\ \A q \in Procs : pc'[q] = "idle" <=> pc[q] = "idle"
    BY <1>6 DEF ReleaseSleep, Wake, At, bufs, Kinds
  <2> QED
    BY <2>1, SameUsers
<1>7. ASSUME NEW p \in Procs, Brelse(p) PROVE UseInv'
  <2>1. /\ pc[p] = "release" /\ pc'[p] = "idle"
        /\ \A q \in Procs : q # p =>
             pc'[q] = pc[q] /\ buf'[q] = buf[q] /\ want'[q] = want[q]
    BY <1>7 DEF Brelse, At, Goto, Kinds
  <2>2. PICK b \in Bufs : buf[p] = b
    BY DEF Kinds
  <2>3. blk' = blk /\ refcnt' = [refcnt EXCEPT ![b] = refcnt[b] - 1]
    BY <1>7, <2>2 DEF Brelse
  <2>4. p \in Users(b) /\ Users(b)' = Users(b) \ {p}
    BY <2>1, <2>2 DEF Users
  <2>5. \A c \in Bufs : c # b => Users(c)' = Users(c)
    BY <2>1, <2>2 DEF Users
  <2>6. Cardinality(Users(b)') = Cardinality(Users(b)) - 1
    BY <2>4, UsersFinite, FS_RemoveElement, Zenon
  <2>7. ASSUME NEW c \in Bufs PROVE refcnt'[c] = Cardinality(Users(c)')
    <3>1. CASE c = b
      BY <2>3, <2>6, <3>1 DEF UseInv, Kinds
    <3>2. CASE c # b
      BY <2>3, <2>5, <3>2 DEF UseInv, Kinds
    <3> QED
      BY <3>1, <3>2
  <2>8. \A q \in Procs : pc'[q] # "idle" =>
          want'[q] \in Blocks /\ blk'[buf'[q]] = want'[q]
    BY <2>1, <2>3 DEF UseInv
  <2> QED
    BY <2>3, <2>7, <2>8 DEF UseInv
<1>8. ASSUME NEW p \in Procs, KillWakes(p) PROVE UseInv'
  <2>1. /\ UNCHANGED <<blk, refcnt, want, buf>>
        /\ \A q \in Procs : pc'[q] = "idle" <=> pc[q] = "idle"
    BY <1>8 DEF KillWakes, At, Goto, bufs, Kinds
  <2> QED
    BY <2>1, SameUsers
<1>9. ASSUME NEW p \in Procs, NEW k \in Blocks, NEW b \in Bufs, Hit(p, k, b)
      PROVE  UseInv'
  <2>1. /\ pc[p] = "idle" /\ pc'[p] = "lock" /\ buf'[p] = b /\ want'[p] = k
        /\ \A q \in Procs : q # p =>
             pc'[q] = pc[q] /\ buf'[q] = buf[q] /\ want'[q] = want[q]
    BY <1>9 DEF Hit, Kinds
  <2>2. /\ blk' = blk /\ blk[b] = k
        /\ refcnt' = [refcnt EXCEPT ![b] = refcnt[b] + 1]
    BY <1>9 DEF Hit
  <2>3. p \notin Users(b) /\ Users(b)' = Users(b) \cup {p}
    BY <2>1 DEF Users
  <2>4. \A c \in Bufs : c # b => Users(c)' = Users(c)
    BY <2>1 DEF Users
  <2>5. Cardinality(Users(b)') = Cardinality(Users(b)) + 1
    BY <2>3, UsersFinite, FS_AddElement, Zenon
  <2>6. ASSUME NEW c \in Bufs PROVE refcnt'[c] = Cardinality(Users(c)')
    <3>1. CASE c = b
      BY <2>2, <2>5, <3>1 DEF UseInv, Kinds
    <3>2. CASE c # b
      BY <2>2, <2>4, <3>2 DEF UseInv, Kinds
    <3> QED
      BY <3>1, <3>2
  <2>7. ASSUME NEW q \in Procs, pc'[q] # "idle"
        PROVE  want'[q] \in Blocks /\ blk'[buf'[q]] = want'[q]
    <3>1. CASE q = p
      BY <2>1, <2>2, <3>1 DEF Kinds
    <3>2. CASE q # p
      BY <2>1, <2>2, <2>7, <3>2 DEF UseInv
    <3> QED
      BY <3>1, <3>2
  <2> QED
    BY <2>2, <2>6, <2>7 DEF UseInv
<1>10. ASSUME NEW p \in Procs, NEW k \in Blocks, NEW b \in Bufs, Miss(p, k, b)
      PROVE  UseInv'
  <2>1. /\ pc[p] = "idle" /\ pc'[p] = "lock" /\ buf'[p] = b /\ want'[p] = k
        /\ \A q \in Procs : q # p =>
             pc'[q] = pc[q] /\ buf'[q] = buf[q] /\ want'[q] = want[q]
    BY <1>10 DEF Miss, Kinds
  <2>2. /\ blk' = [blk EXCEPT ![b] = k] /\ refcnt' = [refcnt EXCEPT ![b] = 1]
        /\ refcnt[b] = 0 /\ \A c \in Bufs : blk[c] # k
    BY <1>10 DEF Miss
  <2>3. \A q \in Procs : buf[q] = b => pc[q] = "idle"
    BY <2>2, NoUsers
  <2>4. Users(b)' = {p}
    BY <2>1, <2>3 DEF Users
  <2>5. \A c \in Bufs : c # b => Users(c)' = Users(c)
    BY <2>1 DEF Users
  <2>6. ASSUME NEW c \in Bufs PROVE refcnt'[c] = Cardinality(Users(c)')
    <3>1. CASE c = b
      BY <2>2, <2>4, <3>1, FS_Singleton, Zenon DEF Kinds
    <3>2. CASE c # b
      BY <2>2, <2>5, <3>2 DEF UseInv, Kinds
    <3> QED
      BY <3>1, <3>2
  <2>7. ASSUME NEW q \in Procs, pc'[q] # "idle"
        PROVE  want'[q] \in Blocks /\ blk'[buf'[q]] = want'[q]
    <3>1. CASE q = p
      BY <2>1, <2>2, <3>1 DEF Kinds
    <3>2. CASE q # p
      BY <2>1, <2>2, <2>3, <2>7, <3>2 DEF UseInv, Kinds
    <3> QED
      BY <3>1, <3>2
  <2>8. \A c, d \in Bufs : blk'[c] = blk'[d] /\ blk'[c] \in Blocks => c = d
    BY <2>2 DEF UseInv, Kinds
  <2> QED
    BY <2>6, <2>7, <2>8 DEF UseInv
<1>11. ASSUME NEW p \in Procs, NEW k \in Blocks, Fail(p, k) PROVE UseInv'
  <2>1. /\ UNCHANGED <<blk, refcnt, pc, buf>> /\ pc[p] = "idle"
        /\ \A q \in Procs : q # p => want'[q] = want[q]
    BY <1>11 DEF Fail
  <2>2. \A b \in Bufs : Users(b)' = Users(b)
    BY <2>1 DEF Users
  <2> QED
    BY <2>1, <2>2 DEF UseInv
<1>12. ASSUME NEW p \in Procs, NEW v \in Vals, Bwrite(p, v) PROVE UseInv'
  <2>1. /\ UNCHANGED <<blk, refcnt, want, buf>>
        /\ \A q \in Procs : pc'[q] = "idle" <=> pc[q] = "idle"
    BY <1>12 DEF Bwrite, Store, Request, At, Goto, Kinds
  <2> QED
    BY <2>1, SameUsers
<1>13. ASSUME NEW p \in Procs, NEW v \in Vals, Pin(p, v) PROVE UseInv'
  <2>1. /\ UNCHANGED <<blk, refcnt, want, buf>>
        /\ \A q \in Procs : pc'[q] = "idle" <=> pc[q] = "idle"
    BY <1>13 DEF Pin, Store, At, Kinds
  <2> QED
    BY <2>1, SameUsers
<1> QED
  BY <1>1, <1>2, <1>3, <1>4, <1>5, <1>6, <1>7, <1>8, <1>9, <1>10, <1>11,
     <1>12, <1>13, BgetIs DEF Next, Step

(* What is queued is a buffer. *)
LEMMA QueueKind ==
  ASSUME NEW q \in Seq(Bufs)
  PROVE  Range(q) \subseteq Bufs
BY DEF Range

(* A step outside iderw and ideintr that changes neither the queue nor a   *)
(* flag keeps QueueInv.                                                    *)
LEMMA SameQueue ==
  ASSUME Kinds, QueueInv, UNCHANGED <<idequeue, valid, dirty>>,
         \A q \in Procs : pc'[q] # pc[q] \/ buf'[q] # buf[q] =>
           /\ pc[q] \notin {"io_asleep", "io_test"}
           /\ pc'[q] \notin {"io_asleep", "io_test", "use"}
  PROVE  QueueInv'
<1>1. ASSUME NEW c \in Range(idequeue')
      PROVE  /\ ~Done(c)'
             /\ \E q \in Procs :
                  pc'[q] \in {"io_asleep", "io_test"} /\ buf'[q] = c
  <2>1. PICK q \in Procs : pc[q] \in {"io_asleep", "io_test"} /\ buf[q] = c
    BY DEF QueueInv
  <2>2. pc'[q] = pc[q] /\ buf'[q] = c
    BY <2>1
  <2> QED
    BY <2>1, <2>2 DEF QueueInv, Done
<1>2. ASSUME NEW q \in Procs
      PROVE  /\ pc'[q] = "io_asleep" => buf'[q] \in Range(idequeue')
             /\ pc'[q] = "io_test" =>
                  buf'[q] \in Range(idequeue') \/ Done(buf[q])'
             /\ pc'[q] = "use" => valid'[buf'[q]]
  BY DEF QueueInv, Done
<1> QED
  BY <1>1, <1>2 DEF QueueInv

(* Every step keeps the request queue (QueueInv): ideintr serves the head  *)
(* and wakes its process, and iderw queues a buffer that is not queued     *)
(* yet.                                                                    *)
LEMMA QueueStep ==
  Kinds /\ LockInv /\ UseInv /\ QueueInv /\ [Next]_vars => QueueInv'
<1> SUFFICES ASSUME Kinds, LockInv, UseInv, QueueInv, [Next]_vars
             PROVE  QueueInv'
  OBVIOUS
<1>1. CASE UNCHANGED vars
  <2>1. UNCHANGED <<idequeue, valid, dirty, pc, buf>>
    BY <1>1 DEF vars, bufs
  <2> QED
    BY <2>1, SameQueue
<1>2. CASE IdeIntr
  <2>0. PICK b \in Bufs : b = Head(idequeue)
    BY <1>2 DEF IdeIntr, Kinds
  <2>1. /\ b \in Bufs /\ IsInjective(idequeue')
        /\ Range(idequeue') = Range(idequeue) \ {b}
    BY <1>2, <2>0, TailFacts DEF IdeIntr, QueueInv, Kinds
  <2>2. /\ valid' = [valid EXCEPT ![b] = TRUE] /\ buf' = buf
        /\ dirty' = [dirty EXCEPT ![b] = FALSE]
        /\ \A q \in Procs : pc'[q] = IF pc[q] = "io_asleep" /\ buf[q] = b
                                      THEN "io_test" ELSE pc[q]
    BY <1>2, <2>0, Zenon DEF IdeIntr
  <2>3. Done(b)' /\ \A c \in Bufs : c # b => Done(c)' = Done(c)
    BY <2>1, <2>2 DEF Done, Kinds
  <2>4. \A c \in Bufs : valid[c] => valid'[c]
    BY <2>1, <2>2 DEF Kinds
  <2>5. ASSUME NEW c \in Range(idequeue')
        PROVE  /\ ~Done(c)'
               /\ \E q \in Procs :
                    pc'[q] \in {"io_asleep", "io_test"} /\ buf'[q] = c
    <3>1. c \in Range(idequeue) /\ c \in Bufs /\ c # b
      BY <2>1, QueueKind DEF Kinds
    <3>2. PICK q \in Procs : pc[q] \in {"io_asleep", "io_test"} /\ buf[q] = c
      BY <3>1 DEF QueueInv
    <3>3. pc'[q] = pc[q] /\ buf'[q] = c
      BY <2>2, <3>1, <3>2
    <3> QED
      BY <2>3, <3>1, <3>2, <3>3 DEF QueueInv
  <2>6. ASSUME NEW q \in Procs
        PROVE  /\ pc'[q] = "io_asleep" => buf'[q] \in Range(idequeue')
               /\ pc'[q] = "io_test" =>
                    buf'[q] \in Range(idequeue') \/ Done(buf[q])'
               /\ pc'[q] = "use" => valid'[buf'[q]]
    <3>1. buf[q] \in Bufs /\ buf'[q] = buf[q]
      BY <2>2 DEF Kinds
    <3>2. CASE buf[q] = b
      <4>1. Done(buf[q])'
        BY <2>2, <2>3, <3>2
      <4>2. pc'[q] # "io_asleep"
        BY <2>2, <3>2
      <4>3. valid'[buf'[q]]
        BY <4>1 DEF Done
      <4> QED
        BY <4>1, <4>2, <4>3
    <3>3. CASE buf[q] # b
      <4>1. pc'[q] = pc[q] /\ Done(buf[q])' = Done(buf[q])
        BY <2>2, <2>3, <3>1, <3>3
      <4> QED
        BY <2>1, <2>4, <3>1, <3>3, <4>1 DEF QueueInv
    <3> QED
      BY <3>2, <3>3
  <2> QED
    BY <2>1, <2>5, <2>6 DEF QueueInv
<1>3. ASSUME NEW p \in Procs, AcquireSleep(p) PROVE QueueInv'
  <2>1. /\ UNCHANGED <<idequeue, valid, dirty>>
        /\ \A q \in Procs : pc'[q] # pc[q] \/ buf'[q] # buf[q] =>
             /\ pc[q] \notin {"io_asleep", "io_test"}
             /\ pc'[q] \notin {"io_asleep", "io_test", "use"}
    BY <1>3 DEF AcquireSleep, At, Goto, bufs, Kinds
  <2> QED
    BY <2>1, SameQueue
<1>4. ASSUME NEW p \in Procs, Bread(p) PROVE QueueInv'
  <2>1. PICK b \in Bufs : buf[p] = b
    BY DEF Kinds
  <2>2. b \notin Range(idequeue)
    BY <1>4, <2>1, NotQueued DEF Bread, At
  <2>3. UNCHANGED <<valid, dirty, buf>> /\ pc[p] = "check"
    BY <1>4 DEF Bread, At, bufs
  <2>4. CASE valid[b]
    <3>1. pc' = [pc EXCEPT ![p] = "use"] /\ idequeue' = idequeue
      BY <1>4, <2>1, <2>4, Zenon DEF Bread, Goto
    <3> QED
      BY <2>1, <2>3, <2>4, <3>1, Zenon DEF QueueInv, Kinds, Done
  <2>5. CASE ~valid[b]
    <3>1. /\ pc' = [pc EXCEPT ![p] = "io_asleep"]
          /\ idequeue' = Append(idequeue, b)
      BY <1>4, <2>1, <2>5, Zenon DEF Bread, Request, Goto
    <3>2. Range(idequeue') = Range(idequeue) \cup {b} /\ IsInjective(idequeue')
      BY <2>2, <3>1, AppendFacts DEF Kinds, QueueInv
    <3> QED
      BY <2>1, <2>3, <2>5, <3>1, <3>2 DEF QueueInv, Kinds, Done
  <2> QED
    BY <2>4, <2>5
<1>5. ASSUME NEW p \in Procs, IdeTest(p) PROVE QueueInv'
  <2>1. PICK b \in Bufs : buf[p] = b
    BY DEF Kinds
  <2>2. UNCHANGED <<idequeue, valid, dirty, buf>> /\ pc[p] = "io_test"
    BY <1>5 DEF IdeTest, At, bufs
  <2>3. CASE Done(b)
    <3>1. pc' = [pc EXCEPT ![p] = "use"] /\ valid[b]
      BY <1>5, <2>1, <2>3, Zenon DEF IdeTest, Goto, Done
    <3>2. b \notin Range(idequeue)
      BY <2>3 DEF QueueInv
    <3> QED
      BY <2>1, <2>2, <3>1, <3>2 DEF QueueInv, Kinds, Done
  <2>4. CASE ~Done(b)
    <3>1. pc' = [pc EXCEPT ![p] = "io_asleep"]
      BY <1>5, <2>1, <2>4, Zenon DEF IdeTest, Goto, Done
    <3>2. b \in Range(idequeue)
      BY <2>1, <2>2, <2>4 DEF QueueInv
    <3> QED
      BY <2>1, <2>2, <3>1, <3>2 DEF QueueInv, Kinds, Done
  <2> QED
    BY <2>3, <2>4
<1>6. ASSUME NEW p \in Procs, ReleaseSleep(p) PROVE QueueInv'
  <2>1. /\ UNCHANGED <<idequeue, valid, dirty>>
        /\ \A q \in Procs : pc'[q] # pc[q] \/ buf'[q] # buf[q] =>
             /\ pc[q] \notin {"io_asleep", "io_test"}
             /\ pc'[q] \notin {"io_asleep", "io_test", "use"}
    BY <1>6 DEF ReleaseSleep, Wake, At, bufs, Kinds
  <2> QED
    BY <2>1, SameQueue
<1>7. ASSUME NEW p \in Procs, Brelse(p) PROVE QueueInv'
  <2>1. /\ UNCHANGED <<idequeue, valid, dirty>>
        /\ \A q \in Procs : pc'[q] # pc[q] \/ buf'[q] # buf[q] =>
             /\ pc[q] \notin {"io_asleep", "io_test"}
             /\ pc'[q] \notin {"io_asleep", "io_test", "use"}
    BY <1>7 DEF Brelse, At, Goto, Kinds
  <2> QED
    BY <2>1, SameQueue
<1>8. ASSUME NEW p \in Procs, KillWakes(p) PROVE QueueInv'
  <2>1. UNCHANGED <<idequeue, valid, dirty, buf>>
    BY <1>8, Zenon DEF KillWakes, bufs
  <2>2. CASE pc[p] = "io_asleep"
    <3>1. pc' = [pc EXCEPT ![p] = "io_test"]
      BY <1>8, <2>2 DEF KillWakes, Goto
    <3> QED
      BY <2>1, <2>2, <3>1 DEF QueueInv, Kinds, Done
  <2>3. CASE pc[p] # "io_asleep"
    <3>1. pc' = [pc EXCEPT ![p] = "lock"] /\ pc[p] = "lock_asleep"
      BY <1>8, <2>3 DEF KillWakes, At, Goto
    <3> QED
      BY <2>1, <3>1 DEF QueueInv, Kinds, Done
  <2> QED
    BY <2>2, <2>3
<1>9. ASSUME NEW p \in Procs, NEW k \in Blocks, NEW b \in Bufs, Hit(p, k, b)
      PROVE  QueueInv'
  <2>1. /\ UNCHANGED <<idequeue, valid, dirty>>
        /\ \A q \in Procs : pc'[q] # pc[q] \/ buf'[q] # buf[q] =>
             /\ pc[q] \notin {"io_asleep", "io_test"}
             /\ pc'[q] \notin {"io_asleep", "io_test", "use"}
    BY <1>9 DEF Hit, Kinds
  <2> QED
    BY <2>1, SameQueue
<1>10. ASSUME NEW p \in Procs, NEW k \in Blocks, NEW b \in Bufs, Miss(p, k, b)
      PROVE  QueueInv'
  <2>1. refcnt[b] = 0 /\ idequeue' = idequeue
    BY <1>10 DEF Miss
  <2>2. \A q \in Procs : buf[q] = b => pc[q] = "idle"
    BY <2>1, NoUsers
  <2>3. \A c \in Range(idequeue) : c \in Bufs /\ c # b
    BY <2>2, QueueKind, Zenon DEF QueueInv, Kinds
  <2>4. \A c \in Bufs : c # b => Done(c)' = Done(c) /\ valid'[c] = valid[c]
    BY <1>10 DEF Miss, Done, Kinds
  <2>5. /\ pc[p] = "idle" /\ pc'[p] = "lock"
        /\ \A q \in Procs : q # p => pc'[q] = pc[q] /\ buf'[q] = buf[q]
    BY <1>10 DEF Miss, Kinds
  <2>6. ASSUME NEW c \in Range(idequeue')
        PROVE  /\ ~Done(c)'
               /\ \E q \in Procs :
                    pc'[q] \in {"io_asleep", "io_test"} /\ buf'[q] = c
    <3>1. c \in Range(idequeue) /\ c \in Bufs /\ c # b
      BY <2>1, <2>3
    <3>2. PICK q \in Procs : pc[q] \in {"io_asleep", "io_test"} /\ buf[q] = c
      BY <3>1, Zenon DEF QueueInv
    <3>3. pc'[q] = pc[q] /\ buf'[q] = c
      BY <2>5, <3>2
    <3> QED
      BY <2>4, <3>1, <3>2, <3>3 DEF QueueInv
  <2>7. ASSUME NEW q \in Procs
        PROVE  /\ pc'[q] = "io_asleep" => buf'[q] \in Range(idequeue')
               /\ pc'[q] = "io_test" =>
                    buf'[q] \in Range(idequeue') \/ Done(buf[q])'
               /\ pc'[q] = "use" => valid'[buf'[q]]
    <3>1. CASE q = p
      BY <2>5, <3>1
    <3>2. CASE q # p
      <4>1. pc'[q] = pc[q] /\ buf'[q] = buf[q] /\ buf[q] \in Bufs
        BY <2>5, <3>2 DEF Kinds
      <4>2. CASE buf[q] = b
        BY <2>2, <4>1, <4>2
      <4>3. CASE buf[q] # b
        BY <2>1, <2>4, <4>1, <4>3 DEF QueueInv
      <4> QED
        BY <4>2, <4>3
    <3> QED
      BY <3>1, <3>2
  <2> QED
    BY <2>1, <2>6, <2>7, Zenon DEF QueueInv
<1>11. ASSUME NEW p \in Procs, NEW k \in Blocks, Fail(p, k) PROVE QueueInv'
  <2>1. /\ UNCHANGED <<idequeue, valid, dirty>>
        /\ \A q \in Procs : pc'[q] # pc[q] \/ buf'[q] # buf[q] =>
             /\ pc[q] \notin {"io_asleep", "io_test"}
             /\ pc'[q] \notin {"io_asleep", "io_test", "use"}
    BY <1>11 DEF Fail, Kinds
  <2> QED
    BY <2>1, SameQueue
<1>12. ASSUME NEW p \in Procs, NEW v \in Vals, Bwrite(p, v) PROVE QueueInv'
  <2>1. PICK b \in Bufs : buf[p] = b
    BY DEF Kinds
  <2>2. /\ b \notin Range(idequeue) /\ pc[p] = "use"
        /\ \A q \in Procs : buf[q] = b => pc[q] \notin {"io_asleep", "io_test"}
    BY <1>12, <2>1, NotQueued DEF Bwrite, At
  <2>3. /\ valid' = valid /\ buf' = buf /\ dirty' = [dirty EXCEPT ![b] = TRUE]
        /\ pc' = [pc EXCEPT ![p] = "io_asleep"]
        /\ idequeue' = Append(idequeue, b)
    BY <1>12, <2>1 DEF Bwrite, Store, Request, Goto
  <2>4. Range(idequeue') = Range(idequeue) \cup {b} /\ IsInjective(idequeue')
    BY <2>2, <2>3, AppendFacts DEF Kinds, QueueInv
  <2>5. ~Done(b)' /\ \A c \in Bufs : c # b => Done(c)' = Done(c)
    BY <2>3 DEF Done, Kinds
  <2>6. Range(idequeue) \subseteq Bufs
    BY QueueKind DEF Kinds
  <2>7. ASSUME NEW c \in Range(idequeue')
        PROVE  /\ ~Done(c)'
               /\ \E q \in Procs :
                    pc'[q] \in {"io_asleep", "io_test"} /\ buf'[q] = c
    <3>1. CASE c = b
      BY <2>1, <2>3, <2>5, <3>1 DEF Kinds
    <3>2. CASE c # b
      <4>1. c \in Range(idequeue) /\ c \in Bufs
        BY <2>4, <2>6, <3>2
      <4>2. PICK q \in Procs : pc[q] \in {"io_asleep", "io_test"} /\ buf[q] = c
        BY <4>1 DEF QueueInv
      <4>3. pc'[q] = pc[q] /\ buf'[q] = c
        BY <2>2, <2>3, <4>2 DEF Kinds
      <4> QED
        BY <2>5, <3>2, <4>1, <4>2, <4>3 DEF QueueInv
    <3> QED
      BY <3>1, <3>2
  <2>8. ASSUME NEW q \in Procs
        PROVE  /\ pc'[q] = "io_asleep" => buf'[q] \in Range(idequeue')
               /\ pc'[q] = "io_test" =>
                    buf'[q] \in Range(idequeue') \/ Done(buf[q])'
               /\ pc'[q] = "use" => valid'[buf'[q]]
    <3>1. CASE q = p
      BY <2>1, <2>3, <2>4, <3>1 DEF Kinds
    <3>2. CASE q # p
      <4>1. pc'[q] = pc[q] /\ buf[q] \in Bufs
        BY <2>3, <3>2 DEF Kinds
      <4> QED
        BY <2>2, <2>3, <2>4, <2>5, <4>1 DEF QueueInv
    <3> QED
      BY <3>1, <3>2
  <2> QED
    BY <2>3, <2>4, <2>7, <2>8, Zenon DEF QueueInv
<1>13. ASSUME NEW p \in Procs, NEW v \in Vals, Pin(p, v) PROVE QueueInv'
  <2>1. PICK b \in Bufs : buf[p] = b
    BY DEF Kinds
  <2>2. /\ b \notin Range(idequeue)
        /\ \A q \in Procs : buf[q] = b => pc[q] \notin {"io_asleep", "io_test"}
    BY <1>13, <2>1, NotQueued DEF Pin, At
  <2>3. /\ UNCHANGED <<valid, buf, pc, idequeue>>
        /\ dirty' = [dirty EXCEPT ![b] = TRUE]
    BY <1>13, <2>1 DEF Pin, Store
  <2>4. \A c \in Bufs : c # b => Done(c)' = Done(c)
    BY <2>3 DEF Done, Kinds
  <2>5. \A c \in Range(idequeue) : c \in Bufs /\ c # b
    BY <2>2, QueueKind DEF Kinds
  <2>6. \A q \in Procs : buf[q] \in Bufs
    BY DEF Kinds
  <2>7. \A q \in Procs : pc[q] = "io_test" => Done(buf[q])' = Done(buf[q])
    BY <2>2, <2>3, <2>4, <2>6, Zenon DEF Done
  <2> QED
    BY <2>3, <2>4, <2>5, <2>7 DEF QueueInv
<1> QED
  BY <1>1, <1>2, <1>3, <1>4, <1>5, <1>6, <1>7, <1>8, <1>9, <1>10, <1>11,
     <1>12, <1>13, BgetIs DEF Next, Step

(* A step that changes no buffer's contents or flags and no block keeps    *)
(* DataInv, also when bget forgets failed reads of invalid buffers.        *)
LEMMA SameData ==
  ASSUME DataInv, UNCHANGED <<blk, valid, dirty, data, disk, latest>>,
         bad' \subseteq bad, \A c \in bad : valid[c] => c \in bad'
  PROVE  DataInv'
<1>1. NothingLost'
  BY DEF DataInv, NothingLost, Cached
<1>2. /\ \A c \in Bufs : dirty'[c] => valid'[c] /\ c \notin bad'
      /\ \A c \in Bufs : valid'[c] => blk'[c] \in Blocks
      /\ \A c \in Bufs : valid'[c] /\ c \notin bad' =>
           data'[c] = latest'[blk'[c]]
  BY DEF DataInv
<1> QED
  BY <1>1, <1>2, Zenon DEF DataInv

(* A store by the holder of a valid buffer (bwrite, log_write) keeps       *)
(* DataInv: the block has no other buffer, and the buffer becomes dirty.   *)
LEMMA StoreData ==
  ASSUME Kinds, UseInv, DataInv, NEW b \in Bufs, NEW v \in Vals,
         valid[b], blk[b] \in Blocks,
         UNCHANGED <<blk, valid, disk>>, bad' = bad \ {b},
         data' = [data EXCEPT ![b] = v],
         dirty' = [dirty EXCEPT ![b] = TRUE],
         latest' = [latest EXCEPT ![blk[b]] = v]
  PROVE  DataInv'
<1>1. \A c \in Bufs : blk[c] = blk[b] => c = b
  BY DEF UseInv
<1>2. /\ data'[b] = v /\ dirty'[b]
      /\ \A c \in Bufs : c # b => data'[c] = data[c] /\ dirty'[c] = dirty[c]
  BY DEF Kinds
<1>3. /\ latest'[blk[b]] = v
      /\ \A k \in Blocks : k # blk[b] => latest'[k] = latest[k]
  BY DEF Kinds
<1>4. NothingLost'
  <2> SUFFICES ASSUME NEW k \in Blocks, latest'[k] # disk[k]
               PROVE  \E c \in Bufs :
                        blk[c] = k /\ dirty'[c] /\ data'[c] = latest'[k]
    BY DEF NothingLost, Cached
  <2>1. CASE k = blk[b]
    BY <1>2, <1>3, <2>1
  <2>2. CASE k # blk[b]
    <3>1. PICK c \in Bufs : blk[c] = k /\ dirty[c] /\ data[c] = latest[k]
      BY <1>3, <2>2 DEF DataInv, NothingLost, Cached
    <3> QED
      BY <1>2, <1>3, <2>2, <3>1
  <2> QED
    BY <2>1, <2>2
<1>5. /\ \A c \in Bufs : dirty'[c] => valid'[c] /\ c \notin bad'
      /\ \A c \in Bufs : valid'[c] => blk'[c] \in Blocks
  BY <1>2 DEF DataInv
<1>6. \A c \in Bufs : valid'[c] /\ c \notin bad' => data'[c] = latest'[blk'[c]]
  <2> SUFFICES ASSUME NEW c \in Bufs, valid[c], c \notin bad'
               PROVE  data'[c] = latest'[blk[c]]
    OBVIOUS
  <2>1. CASE c = b
    BY <1>2, <1>3, <2>1
  <2>2. CASE c # b
    <3>1. data[c] = latest[blk[c]] /\ blk[c] \in Blocks /\ blk[c] # blk[b]
      BY <1>1, <2>2 DEF DataInv
    <3> QED
      BY <1>2, <1>3, <2>2, <3>1
  <2> QED
    BY <2>1, <2>2
<1> QED
  BY <1>4, <1>5, <1>6 DEF DataInv

(* Every step keeps the contents (DataInv): ideintr writes what was        *)
(* stored last, or reads it back, because no other buffer is dirty for     *)
(* that block.                                                             *)
LEMMA DataStep ==
  Kinds /\ LockInv /\ UseInv /\ QueueInv /\ DataInv /\ [Next]_vars => DataInv'
<1> SUFFICES ASSUME Kinds, LockInv, UseInv, QueueInv, DataInv, [Next]_vars
             PROVE  DataInv'
  OBVIOUS
<1>1. CASE UNCHANGED vars
  <2>1. UNCHANGED <<bufs, disk, latest, bad>>
    BY <1>1 DEF vars
  <2> QED
    BY <2>1, SameData DEF bufs
<1>2. CASE IdeIntr
  <2>1. PICK b \in Range(idequeue) : b = Head(idequeue) /\ b \in Bufs
    <3>1. /\ idequeue \in Seq(Bufs) /\ idequeue # <<>>
      BY <1>2 DEF IdeIntr, Kinds
    <3>2. 1 \in DOMAIN idequeue /\ Head(idequeue) = idequeue[1]
      BY <3>1
    <3> QED
      BY <3>1, <3>2, QueueKind DEF Range
  <2>2. blk[b] \in Blocks
    BY <2>1 DEF QueueInv, UseInv
  <2>3. /\ UNCHANGED <<blk, latest>>
        /\ valid'[b] /\ ~dirty'[b]
        /\ \A c \in Bufs : c # b => /\ valid'[c] = valid[c]
                                    /\ dirty'[c] = dirty[c]
    BY <1>2, <2>1 DEF IdeIntr, Kinds
  <2>4. \A c \in Bufs : blk[c] = blk[b] => c = b
    BY <2>1, <2>2 DEF UseInv
  <2>5. CASE dirty[b] /\ disk' = [disk EXCEPT ![blk[b]] = data[b]]
             /\ UNCHANGED <<data, bad>>
    <3>1. data[b] = latest[blk[b]] /\ b \notin bad
      BY <2>1, <2>5 DEF DataInv
    <3>2. NothingLost'
      <4> SUFFICES ASSUME NEW k \in Blocks, latest[k] # disk'[k]
                   PROVE  \E c \in Bufs :
                            blk[c] = k /\ dirty'[c] /\ data[c] = latest[k]
        BY <2>3, <2>5 DEF NothingLost, Cached
      <4>1. k # blk[b] /\ disk'[k] = disk[k]
        BY <2>2, <2>5, <3>1 DEF Kinds
      <4>2. PICK c \in Bufs : blk[c] = k /\ dirty[c] /\ data[c] = latest[k]
        BY <4>1 DEF DataInv, NothingLost, Cached
      <4> QED
        BY <2>3, <4>1, <4>2
    <3>3. /\ \A c \in Bufs : dirty'[c] => valid'[c] /\ c \notin bad'
          /\ \A c \in Bufs : valid'[c] => blk'[c] \in Blocks
          /\ \A c \in Bufs : valid'[c] /\ c \notin bad' =>
               data'[c] = latest'[blk'[c]]
      BY <2>2, <2>3, <2>5, <3>1, Zenon DEF DataInv
    <3> QED
      BY <3>2, <3>3 DEF DataInv
  <2>6. CASE ~dirty[b] /\ data' = [data EXCEPT ![b] = disk[blk[b]]]
             /\ UNCHANGED <<disk, bad>>
    <3>1. disk[blk[b]] = latest[blk[b]]
      BY <2>2, <2>4, <2>6 DEF DataInv, NothingLost, Cached
    <3>2. /\ data'[b] = latest[blk[b]]
          /\ \A c \in Bufs : c # b => data'[c] = data[c]
      BY <2>1, <2>6, <3>1 DEF Kinds
    <3>3. NothingLost'
      <4> SUFFICES ASSUME NEW k \in Blocks, latest[k] # disk[k]
                   PROVE  \E c \in Bufs :
                            blk[c] = k /\ dirty'[c] /\ data'[c] = latest[k]
        BY <2>3, <2>6 DEF NothingLost, Cached
      <4>1. PICK c \in Bufs : blk[c] = k /\ dirty[c] /\ data[c] = latest[k]
        BY DEF DataInv, NothingLost, Cached
      <4> QED
        BY <2>3, <2>6, <3>2, <4>1
    <3>4. /\ \A c \in Bufs : dirty'[c] => valid'[c] /\ c \notin bad'
          /\ \A c \in Bufs : valid'[c] => blk'[c] \in Blocks
          /\ \A c \in Bufs : valid'[c] /\ c \notin bad' =>
               data'[c] = latest'[blk'[c]]
      BY <2>2, <2>3, <2>6, <3>2, Zenon DEF DataInv
    <3> QED
      BY <3>3, <3>4 DEF DataInv
  <2>7. CASE ~dirty[b] /\ bad' = bad \cup {b} /\ UNCHANGED <<data, disk>>
    <3>1. NothingLost'
      BY <2>3, <2>7 DEF DataInv, NothingLost, Cached
    <3>2. /\ \A c \in Bufs : dirty'[c] => valid'[c] /\ c \notin bad'
          /\ \A c \in Bufs : valid'[c] => blk'[c] \in Blocks
          /\ \A c \in Bufs : valid'[c] /\ c \notin bad' =>
               data'[c] = latest'[blk'[c]]
      BY <2>2, <2>3, <2>7 DEF DataInv
    <3> QED
      BY <3>1, <3>2 DEF DataInv
  <2> QED
    BY <1>2, <2>1, <2>5, <2>6, <2>7 DEF IdeIntr
<1>3. ASSUME NEW p \in Procs, AcquireSleep(p) PROVE DataInv'
  <2>1. UNCHANGED <<bufs, disk, latest, bad>>
    BY <1>3 DEF AcquireSleep, At, Goto, bufs
  <2> QED
    BY <2>1, SameData DEF bufs
<1>4. ASSUME NEW p \in Procs, Bread(p) PROVE DataInv'
  <2>1. UNCHANGED <<bufs, disk, latest, bad>>
    BY <1>4 DEF Bread, Request, At, Goto, bufs
  <2> QED
    BY <2>1, SameData DEF bufs
<1>5. ASSUME NEW p \in Procs, IdeTest(p) PROVE DataInv'
  <2>1. UNCHANGED <<bufs, disk, latest, bad>>
    BY <1>5 DEF IdeTest, At, Goto, bufs
  <2> QED
    BY <2>1, SameData DEF bufs
<1>6. ASSUME NEW p \in Procs, ReleaseSleep(p) PROVE DataInv'
  <2>1. UNCHANGED <<bufs, disk, latest, bad>>
    BY <1>6 DEF ReleaseSleep, Wake, At, bufs
  <2> QED
    BY <2>1, SameData DEF bufs
<1>7. ASSUME NEW p \in Procs, Brelse(p) PROVE DataInv'
  <2>1. UNCHANGED <<blk, valid, dirty, data, disk, latest, bad>>
    BY <1>7 DEF Brelse
  <2> QED
    BY <2>1, SameData
<1>8. ASSUME NEW p \in Procs, KillWakes(p) PROVE DataInv'
  <2>1. UNCHANGED <<bufs, disk, latest, bad>>
    BY <1>8 DEF KillWakes, At, Goto, bufs
  <2> QED
    BY <2>1, SameData DEF bufs
<1>9. ASSUME NEW p \in Procs, NEW k \in Blocks, NEW b \in Bufs, Hit(p, k, b)
      PROVE  DataInv'
  <2>1. /\ UNCHANGED <<blk, valid, dirty, data, disk, latest>>
        /\ bad' \subseteq bad /\ \A c \in bad : valid[c] => c \in bad'
    BY <1>9 DEF Hit
  <2> QED
    BY <2>1, SameData
<1>10. ASSUME NEW p \in Procs, NEW k \in Blocks, NEW b \in Bufs, Miss(p, k, b)
      PROVE  DataInv'
  <2>1. /\ UNCHANGED <<data, disk, latest>> /\ ~dirty[b]
        /\ blk'[b] = k /\ ~valid'[b] /\ ~dirty'[b]
        /\ \A c \in Bufs : c # b => /\ blk'[c] = blk[c]
                                    /\ valid'[c] = valid[c]
                                    /\ dirty'[c] = dirty[c]
        /\ bad' \subseteq bad /\ \A c \in bad : valid'[c] => c \in bad'
    BY <1>10 DEF Miss, Kinds
  <2>2. /\ \A c \in Bufs : dirty'[c] => valid'[c] /\ c \notin bad'
        /\ \A c \in Bufs : valid'[c] => blk'[c] \in Blocks
        /\ \A c \in Bufs : valid'[c] /\ c \notin bad' =>
             data'[c] = latest'[blk'[c]]
    BY <2>1 DEF DataInv
  <2>3. NothingLost'
    BY <2>1 DEF DataInv, NothingLost, Cached
  <2> QED
    BY <2>2, <2>3 DEF DataInv
<1>11. ASSUME NEW p \in Procs, NEW k \in Blocks, Fail(p, k) PROVE DataInv'
  <2>1. /\ UNCHANGED <<blk, valid, dirty, data, disk, latest>>
        /\ bad' \subseteq bad /\ \A c \in bad : valid[c] => c \in bad'
    BY <1>11, Zenon DEF Fail
  <2> QED
    BY <2>1, SameData
<1>12. ASSUME NEW p \in Procs, NEW v \in Vals, Bwrite(p, v) PROVE DataInv'
  <2>1. PICK b \in Bufs : buf[p] = b
    BY DEF Kinds
  <2>2. want[p] = blk[b] /\ blk[b] \in Blocks /\ valid[b]
    BY <1>12, <2>1, Zenon DEF Bwrite, At, UseInv, QueueInv
  <2>3. /\ UNCHANGED <<blk, valid, disk>> /\ bad' = bad \ {b}
        /\ data' = [data EXCEPT ![b] = v]
        /\ dirty' = [dirty EXCEPT ![b] = TRUE]
        /\ latest' = [latest EXCEPT ![blk[b]] = v]
    BY <1>12, <2>1, <2>2, Zenon DEF Bwrite, Store
  <2> QED
    BY <2>2, <2>3, StoreData, Zenon
<1>13. ASSUME NEW p \in Procs, NEW v \in Vals, Pin(p, v) PROVE DataInv'
  <2>1. PICK b \in Bufs : buf[p] = b
    BY DEF Kinds
  <2>2. want[p] = blk[b] /\ blk[b] \in Blocks /\ valid[b]
    BY <1>13, <2>1, Zenon DEF Pin, At, UseInv, QueueInv
  <2>3. /\ UNCHANGED <<blk, valid, disk>> /\ bad' = bad \ {b}
        /\ data' = [data EXCEPT ![b] = v]
        /\ dirty' = [dirty EXCEPT ![b] = TRUE]
        /\ latest' = [latest EXCEPT ![blk[b]] = v]
    BY <1>13, <2>1, <2>2, Zenon DEF Pin, Store
  <2> QED
    BY <2>2, <2>3, StoreData, Zenon
<1> QED
  BY <1>1, <1>2, <1>3, <1>4, <1>5, <1>6, <1>7, <1>8, <1>9, <1>10, <1>11,
     <1>12, <1>13, BgetIs DEF Next, Step

(* The inductive invariant. *)
Inv == Kinds /\ LockInv /\ UseInv /\ QueueInv /\ DataInv

(* What binit leaves satisfies the invariant. *)
LEMMA InvInit == Init => Inv
<1> SUFFICES ASSUME Init PROVE Inv
  OBVIOUS
<1> USE DEF Init
<1>1. AnyBuf \in Bufs
  BY BufAssumption DEF AnyBuf
<1>2. mru \in Lists
  <2>1. Cardinality(Bufs) \in Nat
    BY BufAssumption, FS_CardinalityType
  <2>2. ExistsBijection(1..Cardinality(Bufs), Bufs)
    BY BufAssumption, FS_CardinalityType
  <2>3. \E l : l \in Lists
    BY <2>2 DEF ExistsBijection, Lists
  <2> QED
    BY <2>3
<1>3. Kinds
  <2>1. /\ valid \in [Bufs -> BOOLEAN] /\ dirty \in [Bufs -> BOOLEAN]
        /\ pc \in [Procs -> PCs] /\ panicked \in BOOLEAN
    BY Zenon DEF PCs
  <2>2. /\ blk \in [Bufs -> Blocks \cup {NoBlock}]
        /\ refcnt \in [Bufs -> Int]
        /\ locked \in [Bufs -> SUBSET Procs]
        /\ want \in [Procs -> Blocks \cup {NoBlock}]
        /\ buf \in [Procs -> Bufs]
    BY <1>1
  <2>3. /\ data \in [Bufs -> Vals] /\ disk \in [Blocks -> Vals]
        /\ latest \in [Blocks -> Vals] /\ bad \subseteq Bufs
        /\ idequeue \in Seq(Bufs)
    OBVIOUS
  <2> QED
    BY <1>2, <2>1, <2>2, <2>3 DEF Kinds
<1>4. LockInv
  BY DEF LockInv, Holders
<1>5. UseInv
  <2>1. \A b \in Bufs : Users(b) = {}
    BY DEF Users
  <2> QED
    BY <2>1, BufAssumption, FS_EmptySet, Zenon DEF UseInv
<1>6. QueueInv
  BY DEF QueueInv, IsInjective, Range
<1>7. DataInv
  BY DEF DataInv, NothingLost
<1> QED
  BY <1>3, <1>4, <1>5, <1>6, <1>7 DEF Inv

(* Every step keeps the invariant. *)
LEMMA InvStep == Inv /\ [Next]_vars => Inv'
BY KindStep, LockStep, UseStep, QueueStep, DataStep DEF Inv

(* The invariant implies what the runs check. *)
LEMMA InvSound == Inv => BuffersSound /\ SleepersServed
<1> SUFFICES ASSUME Inv PROVE BuffersSound /\ SleepersServed
  OBVIOUS
<1>1. ASSUME NEW b \in Bufs
      PROVE  refcnt[b] \in 0..Cardinality(Procs)
  <2>1. Users(b) \subseteq Procs
    BY DEF Users
  <2>2. /\ Cardinality(Users(b)) \in Nat /\ Cardinality(Procs) \in Nat
        /\ Cardinality(Users(b)) <= Cardinality(Procs)
    BY <2>1, BufAssumption, FS_Subset, FS_CardinalityType
  <2> QED
    BY <2>2 DEF Inv, UseInv
<1>2. TypeOK
  BY <1>1 DEF Inv, Kinds, TypeOK
<1>3. Coherent
  <2> SUFFICES ASSUME NEW p \in Procs, pc[p] = "use", NEW b \in Bufs,
                      b = buf[p]
               PROVE  /\ blk[b] = want[p] /\ Cached(want[p]) = {b}
                      /\ locked[b] = {p}
                      /\ b \notin bad => data[b] = latest[want[p]]
    BY DEF Inv, Kinds, Coherent
  <2>1. blk[b] = want[p] /\ Cached(want[p]) = {b}
    BY DEF Inv, UseInv, Cached
  <2>2. locked[b] = {p}
    <3>1. locked[b] \subseteq Procs /\ p \in locked[b]
      BY DEF Inv, LockInv, Kinds, Holders
    <3> QED
      BY <3>1 DEF Inv, LockInv
  <2>3. b \notin bad => data[b] = latest[want[p]]
    BY <2>1 DEF Inv, QueueInv, DataInv
  <2> QED
    BY <2>1, <2>2, <2>3, Zenon
<1>4. RefcntCounts
  BY DEF Inv, UseInv, RefcntCounts, Users
<1>5. NothingLost
  BY DEF Inv, DataInv
<1>6. SleepersServed
  BY DEF Inv, QueueInv, LockInv, SleepersServed
<1> QED
  BY <1>2, <1>3, <1>4, <1>5, <1>6 DEF BuffersSound

(* The invariant holds in every state of the buffer cache. *)
LEMMA AlwaysInv == Spec => []Inv
BY InvInit, InvStep, PTL DEF Spec

(* For any finite number of processes and buffers, a process that has      *)
(* read a block uses the only buffer of that block, alone, and finds       *)
(* there what was stored last; counts are exact, bget recycles no buffer   *)
(* in use, and what is not on the disk is in a dirty buffer (bget, bread,  *)
(* bwrite, brelse, ideintr).                                               *)
THEOREM BuffersAlwaysSound == Spec => []BuffersSound
BY AlwaysInv, InvSound, PTL

(* For any finite number of processes and buffers, a process asleep in     *)
(* iderw has its request queued, once, and one asleep in acquiresleep has  *)
(* a holder to wake it: no wakeup is lost.                                 *)
THEOREM SleepersAlwaysServed == Spec => []SleepersServed
BY AlwaysInv, InvSound, PTL

=============================================================================
