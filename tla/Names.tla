------------------------------- MODULE Names -------------------------------
(***************************************************************************)
(* Inodes, directories and path names: the inode cache and the directory   *)
(* layer of fs.c, the file table of file.c and the system calls of         *)
(* sysfile.c that work on names and descriptors.                           *)
(*                                                                         *)
(* A step of a process runs from one acquisition of an inode's sleep lock  *)
(* (or of icache.lock in iput) to the next: between the two the process    *)
(* works on inodes it has locked.  A directory maps names to inode         *)
(* numbers; where its entries lie in the file is left to FileData.         *)
(***************************************************************************)
EXTENDS Integers, FiniteSets, FiniteSetsExt, Sequences, SequencesExt

CONSTANTS Procs,    \* process slots; the others are free for fork
          Users,    \* the processes running at the start
          NInodes,  \* sb.ninodes - 1: inode numbers 1 .. NInodes
          NINODE,   \* entries of the inode cache
          NFILE,    \* entries of the file table
          NOFILE,   \* descriptors per process
          Names,    \* file names other than "." and ".."
          Calls,    \* the system calls that processes make
          MaxCalls, \* bound on the calls made
          Starts    \* the file systems to start from: inodes on disk, the
                    \* users' current directories, a file they have open

ROOTINO == 1
Inums   == 1 .. NInodes
Slots   == 1 .. NINODE
Dots    == {".", ".."}
NoEnts  == [n \in Names \cup Dots |-> 0]
NoEntry   == [inum |-> 0, ref |-> 0, valid |-> FALSE, lock |-> 0,
              type |-> "free", nlink |-> 0]
FreeInode == [type |-> "free", nlink |-> 0, ents |-> NoEnts]
NoFile    == [ref |-> 0, ip |-> 0]

ASSUME NamesAssumption ==
  /\ Users \subseteq Procs
  /\ \A b \in Starts : /\ b.home \in [Users -> Inums \cap Slots]
                       /\ DOMAIN b.tree = Inums
                       /\ b.tree[ROOTINO].type = "dir"
                       /\ b.open \in {0} \cup (Inums \cap Slots)
  /\ \A n \in {NInodes, NINODE, NFILE, NOFILE, MaxCalls} : n \in Nat \ {0}

VARIABLES disk,    \* the inodes on disk: type, nlink, directory entries
          icache,  \* icache.inode[]; lock is the holder of the sleep lock
          ftable,  \* ftable.file[]
          pr,      \* the processes: see Idle
          panic,   \* the message of panic(), "" while the system runs
          ncalls,  \* calls made so far
          orphan   \* history: an entry was made in a removed directory

vars == <<disk, icache, ftable, pr, panic, ncalls, orphan>>

(* pc and k: where the process is, and where it goes once the inodes puts  *)
(* have been put; path: what is left to look up from cur (parent: stop one *)
(* level early); ip, dp, old: the code's local pointers to cache entries;  *)
(* files: files it has allocated and not yet given a descriptor.           *)
Idle(fds, cwd) ==
  [pc |-> "idle", k |-> "idle", call |-> [op |-> "none"], puts |-> <<>>,
   path |-> <<>>, parent |-> FALSE, cur |-> 0, ip |-> 0, old |-> 0,
   files |-> <<>>, fds |-> fds, cwd |-> cwd]

NoFds == [d \in 1 .. NOFILE |-> 0]
NotRunning == [Idle(NoFds, 0) EXCEPT !.pc = "unused"]

---------------------------------------------------------------------------
(* The inode cache *)

Matching(c, i) == {s \in Slots : c[s].ref > 0 /\ c[s].inum = i}
Empty(c)       == {s \in Slots : c[s].ref = 0}

(* The entry that iget(i) returns, 0 when there is none to be had. *)
IgetSlot(c, i) ==
  CASE Matching(c, i) # {} -> Min(Matching(c, i))
    [] Matching(c, i) = {} /\ Empty(c) # {} -> Min(Empty(c))
    [] OTHER -> 0

Iget(c, i) ==
  LET s == IgetSlot(c, i)
  IN  IF s = 0 THEN c
      ELSE IF c[s].ref > 0 THEN [c EXCEPT ![s].ref = @ + 1]
      ELSE [c EXCEPT ![s] = [@ EXCEPT !.inum = i, !.ref = 1,
                                      !.valid = FALSE]]

Idup(c, s) == [c EXCEPT ![s].ref = @ + 1]

First(m, n) == IF m # "" THEN m ELSE n
IgetPanic(c, i) == IF IgetSlot(c, i) = 0 THEN "iget: no inodes" ELSE ""

(* ilock(s) can go on.  Ilock is the cache once the inode has been read    *)
(* and is locked by p; LockPanic is what ilock's own tests say.            *)
CanLock(s) == icache[s].lock = 0

Ilock(c, s, p) ==
  LET d == disk[c[s].inum]
      r == IF c[s].valid THEN c[s]
           ELSE [c[s] EXCEPT !.valid = TRUE, !.type = d.type,
                             !.nlink = d.nlink]
  IN  [c EXCEPT ![s] = [r EXCEPT !.lock = p]]

LockPanic(s) ==
  CASE icache[s].ref < 1 -> "ilock"
    [] icache[s].ref >= 1 /\ ~icache[s].valid
         /\ disk[icache[s].inum].type = "free" -> "ilock: no type"
    [] OTHER -> ""

Iunlock(c, s) == [c EXCEPT ![s].lock = 0]

(* ip->nlink += n; iupdate(ip): the change and its copy on disk. *)
AddLinks(c, s, n) == [c EXCEPT ![s].nlink = @ + n]
Iupdate(d, c, s)  == [d EXCEPT ![c[s].inum] =
                        [@ EXCEPT !.type = c[s].type, !.nlink = c[s].nlink]]

(* The first free inode, 0 when there is none. *)
Ialloc == LET F == {i \in Inums : disk[i].type = "free"}
          IN  IF F = {} THEN 0 ELSE Min(F)

Ents(s) == disk[icache[s].inum].ents

---------------------------------------------------------------------------
(* Steps shared by the calls *)

At(p, label) == panic = "" /\ pr[p].pc = label
Goto(p, label) == [pr[p] EXCEPT !.pc = label]

(* iput the entries of the sequence s in turn, then go to k. *)
Put(r, s, k) == [r EXCEPT !.pc = "put", !.puts = s, !.k = k]

(* All that stays of a call once it is over. *)
Finish(r) == IF r.pc = "idle" THEN Idle(r.fds, r.cwd)
             ELSE IF r.pc = "gone" THEN NotRunning ELSE r
Set(p, r) == pr' = [pr EXCEPT ![p] = Finish(r)]

(* A failed lookup: only link() has something to undo. *)
Failed(p) == IF pr[p].old # 0 THEN "undo" ELSE "idle"

(* Mutant of IputTest: an inode without links is freed whoever has it.   *)
IputTestIgnoresRefs(p) ==
  LET s == Head(pr[p].puts)
      last == icache[s].valid /\ icache[s].nlink = 0
  IN  /\ At(p, "put") /\ CanLock(s)
      /\ icache' = IF last THEN [icache EXCEPT ![s].lock = p] ELSE icache
      /\ Set(p, Goto(p, IF last THEN "free" ELSE "drop"))
      /\ UNCHANGED <<disk, ftable, panic, ncalls, orphan>>

(* iput: the lock, the test of the link and reference counts, then the     *)
(* release of the lock and, under icache.lock, of the reference.           *)
IputTest(p) ==
  LET s == Head(pr[p].puts)
      last == icache[s].valid /\ icache[s].nlink = 0 /\ icache[s].ref = 1
  IN  /\ At(p, "put") /\ CanLock(s)
      /\ icache' = IF last THEN [icache EXCEPT ![s].lock = p] ELSE icache
      /\ Set(p, Goto(p, IF last THEN "free" ELSE "drop"))
      /\ UNCHANGED <<disk, ftable, panic, ncalls, orphan>>

(* itrunc, type = 0, iupdate, valid = 0. *)
IputFree(p) ==
  LET s == Head(pr[p].puts)
  IN  /\ At(p, "free")
      /\ disk' = [disk EXCEPT ![icache[s].inum] = FreeInode]
      /\ icache' = [icache EXCEPT ![s] = [@ EXCEPT !.type = "free",
                                              !.valid = FALSE, !.lock = 0]]
      /\ Set(p, Goto(p, "drop"))
      /\ UNCHANGED <<ftable, panic, ncalls, orphan>>

IputDrop(p) ==
  LET q == Tail(pr[p].puts)
  IN  /\ At(p, "drop")
      /\ icache' = [icache EXCEPT ![Head(pr[p].puts)].ref = @ - 1]
      /\ Set(p, [pr[p] EXCEPT !.puts = q,
                   !.pc = IF q = <<>> THEN pr[p].k ELSE "put"])
      /\ UNCHANGED <<disk, ftable, panic, ncalls, orphan>>

(* Mutant of Skipelem: the path does not get shorter. *)
SkipelemStays(path) == path

(* A path is the sequence of its elements; slashes and DIRSIZ are in Text. *)
Skipelem(path) == Tail(path)

(* namex() with nothing left to look up. *)
WalkEnd(p) ==
  /\ At(p, "walk") /\ pr[p].path = <<>>
  /\ Set(p, IF pr[p].parent THEN Put(pr[p], <<pr[p].cur>>, Failed(p))
            ELSE Goto(p, "at"))
  /\ UNCHANGED <<disk, icache, ftable, panic, ncalls, orphan>>

(* One round of namex()'s loop: the entry found is referenced while the    *)
(* directory is locked, the directory is put afterwards.                   *)
Walk(p) ==
  LET s     == pr[p].cur
      c     == Iunlock(Ilock(icache, s, p), s)
      above == pr[p].parent /\ Len(pr[p].path) = 1
      i     == Ents(s)[Head(pr[p].path)]
  IN  /\ At(p, "walk") /\ pr[p].path # <<>> /\ CanLock(s)
      /\ \/ /\ c[s].type # "dir" \/ (~above /\ i = 0)
            /\ icache' = c
            /\ Set(p, Put(pr[p], <<s>>, Failed(p)))
            /\ panic' = LockPanic(s)
         \/ /\ c[s].type = "dir" /\ above
            /\ icache' = c
            /\ Set(p, Goto(p, "at"))
            /\ panic' = LockPanic(s)
         \/ /\ c[s].type = "dir" /\ ~above /\ i # 0
            /\ icache' = Iget(c, i)
            /\ Set(p, Put([pr[p] EXCEPT !.path = Skipelem(@),
                                        !.cur = IgetSlot(c, i)],
                          <<s>>, "walk"))
            /\ panic' = First(LockPanic(s), IgetPanic(c, i))
      /\ UNCHANGED <<disk, ftable, ncalls, orphan>>

(* Mutant of Release: the directory is put without being unlocked. *)
ReleaseLocked(p) ==
  /\ At(p, "release")
  /\ Set(p, Put(pr[p], <<pr[p].cur>>, Failed(p)))
  /\ UNCHANGED <<disk, icache, ftable, panic, ncalls, orphan>>

(* A directory that was held locked over an iput is put itself. *)
Release(p) ==
  /\ At(p, "release")
  /\ icache' = Iunlock(icache, pr[p].cur)
  /\ Set(p, Put(pr[p], <<pr[p].cur>>, Failed(p)))
  /\ UNCHANGED <<disk, ftable, panic, ncalls, orphan>>

---------------------------------------------------------------------------
(* open, mkdir, mknod, exec *)

Creates(c) == IF c.op = "open" THEN c.create ELSE c.op \in {"mkdir", "mknod"}
TypeOf(c)  == CASE c.op = "mkdir" -> "dir" [] c.op = "mknod" -> "dev"
                [] OTHER -> "file"

FreeFiles  == {f \in 1 .. NFILE : ftable[f].ref = 0}
FreeFds(p) == {d \in 1 .. NOFILE : pr[p].fds[d] = 0}

(* create() with the parent locked: a name that exists is returned after   *)
(* the parent is unlocked and put ...                                      *)
CreateFound(p) ==
  LET s == pr[p].cur
      c == Ilock(icache, s, p)
      i == Ents(s)[Head(pr[p].path)]
  IN  /\ At(p, "at") /\ Creates(pr[p].call) /\ CanLock(s) /\ i # 0
      /\ icache' = Iunlock(Iget(c, i), s)
      /\ Set(p, Put([pr[p] EXCEPT !.cur = IgetSlot(c, i)], <<s>>, "exist"))
      /\ panic' = First(LockPanic(s), IgetPanic(c, i))
      /\ UNCHANGED <<disk, ftable, ncalls, orphan>>

NewInode(p, n) ==
  disk' = [disk EXCEPT ![n] = [FreeInode EXCEPT !.type = TypeOf(pr[p].call)]]

(* ... a name that does not exist keeps it locked while ialloc() runs.     *)
CreateNew(p) ==
  LET s == pr[p].cur
      c == Ilock(icache, s, p)
      n == Ialloc
  IN  /\ At(p, "at") /\ Creates(pr[p].call) /\ CanLock(s)
      /\ Ents(s)[Head(pr[p].path)] = 0
      /\ \/ /\ n # 0
            /\ NewInode(p, n)
            /\ icache' = Iget(c, n)
            /\ Set(p, [pr[p] EXCEPT !.pc = "fill", !.ip = IgetSlot(c, n)])
            /\ panic' = First(LockPanic(s), IgetPanic(c, n))
         \/ /\ n = 0
            /\ panic' = "ialloc: no inodes"
            /\ UNCHANGED <<disk, icache, pr>>
      /\ UNCHANGED <<ftable, ncalls, orphan>>

(* The rest of create(): the new inode stays locked while the parent is    *)
(* put.                                                                    *)
CreateFill(p) ==
  LET s  == pr[p].ip
      dp == pr[p].cur
      i  == icache[s].inum
      d  == icache[dp].inum
      n  == IF pr[p].call.op = "mkdir" THEN 1 ELSE 0
      c  == AddLinks(AddLinks(Ilock(icache, s, p), s, 1), dp, n)
      k  == Iupdate(Iupdate(disk, c, s), c, dp)
  IN  /\ At(p, "fill") /\ CanLock(s)
      /\ disk' = [k EXCEPT ![i].ents = IF n = 1 THEN [@ EXCEPT !["."] = i,
                                                              ![".."] = d]
                                       ELSE @,
                           ![d].ents[Head(pr[p].path)] = i]
      /\ icache' = Iunlock(c, dp)
      /\ Set(p, Put([pr[p] EXCEPT !.cur = s, !.ip = 0], <<dp>>, "made"))
      /\ panic' = First(LockPanic(s), IF Ents(dp)[Head(pr[p].path)] # 0
                                      THEN "create: dirlink" ELSE "")
      /\ orphan' = (orphan \/ icache[dp].nlink = 0)
      /\ UNCHANGED <<ftable, ncalls>>

(* filealloc(): a file of no type yet, so without inode. *)
FileAlloc == ftable' = [ftable EXCEPT ![Min(FreeFiles)].ref = 1]

(* What happens to the inode that create() or namei() returned: an open()  *)
(* that is not refused and gets a file goes on with it locked, every other *)
(* call puts it (exec after reading it).                                   *)
UseInode(p) ==
  LET s    == pr[p].cur
      call == pr[p].call
      c    == IF pr[p].pc = "made" THEN icache ELSE Ilock(icache, s, p)
      ok   == CASE call.op # "open" -> FALSE
                [] call.op = "open" /\ call.create -> c[s].type = "file"
                [] OTHER -> c[s].type # "dir" \/ ~call.write
  IN  /\ \/ At(p, "made")
         \/ At(p, "exist") /\ CanLock(s)
         \/ At(p, "at") /\ CanLock(s) /\ call.op \in {"open", "exec"}
                        /\ ~Creates(call)
      /\ \/ /\ ok /\ FreeFiles # {}
            /\ FileAlloc
            /\ icache' = c
            /\ Set(p, [pr[p] EXCEPT !.pc = "fdalloc",
                                    !.files = <<Min(FreeFiles)>>])
         \/ /\ ~ok \/ FreeFiles = {}
            /\ icache' = Iunlock(c, s)
            /\ Set(p, Put(pr[p], <<s>>, "idle"))
            /\ UNCHANGED ftable
      /\ panic' = IF pr[p].pc = "made" THEN "" ELSE LockPanic(s)
      /\ UNCHANGED <<disk, ncalls, orphan>>

(* fileclose(), its part under ftable.lock: the last reference clears the  *)
(* type, and with it the inode.                                            *)
Unref(f) == [ftable EXCEPT ![f] = IF @.ref = 1 THEN NoFile
                                  ELSE [@ EXCEPT !.ref = @ - 1]]

(* Mutant of OpenFd: the file is not closed when there is no descriptor.   *)
OpenFdKeepsFile(p) ==
  LET s == pr[p].cur
      f == Head(pr[p].files)
  IN  /\ At(p, "fdalloc")
      /\ icache' = Iunlock(icache, s)
      /\ \/ /\ FreeFds(p) # {}
            /\ ftable' = [ftable EXCEPT ![f].ip = s]
            /\ Set(p, Idle([pr[p].fds EXCEPT ![Min(FreeFds(p))] = f],
                           pr[p].cwd))
         \/ /\ FreeFds(p) = {}
            /\ Set(p, Put([pr[p] EXCEPT !.files = <<>>], <<s>>, "idle"))
            /\ UNCHANGED ftable
      /\ UNCHANGED <<disk, panic, ncalls, orphan>>

(* The end of open(): the file gets a descriptor and the inode, or is      *)
(* closed before the inode is unlocked and put.                            *)
OpenFd(p) ==
  LET s == pr[p].cur
      f == Head(pr[p].files)
  IN  /\ At(p, "fdalloc")
      /\ icache' = Iunlock(icache, s)
      /\ \/ /\ FreeFds(p) # {}
            /\ ftable' = [ftable EXCEPT ![f].ip = s]
            /\ Set(p, Idle([pr[p].fds EXCEPT ![Min(FreeFds(p))] = f],
                           pr[p].cwd))
         \/ /\ FreeFds(p) = {}
            /\ ftable' = Unref(f)
            /\ Set(p, Put([pr[p] EXCEPT !.files = <<>>], <<s>>, "idle"))
      /\ UNCHANGED <<disk, panic, ncalls, orphan>>

---------------------------------------------------------------------------
(* unlink *)

UnlinkAt(p) ==
  LET s    == pr[p].cur
      c    == Ilock(icache, s, p)
      name == Head(pr[p].path)
      i    == Ents(s)[name]
  IN  /\ At(p, "at") /\ pr[p].call.op = "unlink" /\ CanLock(s)
      /\ \/ /\ name \in Dots \/ i = 0
            /\ icache' = Iunlock(c, s)
            /\ Set(p, Put(pr[p], <<s>>, "idle"))
            /\ panic' = LockPanic(s)
         \/ /\ name \notin Dots /\ i # 0
            /\ icache' = Iget(c, i)
            /\ Set(p, [pr[p] EXCEPT !.pc = "unlink", !.ip = IgetSlot(c, i)])
            /\ panic' = First(LockPanic(s), IgetPanic(c, i))
      /\ UNCHANGED <<disk, ftable, ncalls, orphan>>

Isdirempty(i) == \A n \in Names : disk[i].ents[n] = 0

(* The entry is cleared with both inodes locked; ip stays locked while dp  *)
(* is put.                                                                 *)
UnlinkEntry(p) ==
  LET s  == pr[p].ip
      dp == pr[p].cur
      c  == Ilock(icache, s, p)
      n  == IF c[s].type = "dir" THEN -1 ELSE 0
      c1 == AddLinks(c, dp, n)
      full == c[s].type = "dir" /\ ~Isdirempty(c[s].inum)
  IN  /\ At(p, "unlink") /\ CanLock(s)
      /\ \/ /\ full
            /\ icache' = Iunlock(c, s)
            /\ Set(p, Put(pr[p], <<s>>, "release"))
            /\ UNCHANGED disk
         \/ /\ ~full
            /\ disk' = [Iupdate(disk, c1, dp) EXCEPT
                          ![c[dp].inum].ents[Head(pr[p].path)] = 0]
            /\ icache' = Iunlock(c1, dp)
            /\ Set(p, Put(pr[p], <<dp>>, "unlinked"))
      /\ panic' = IF LockPanic(s) = "" /\ c[s].nlink < 1
                  THEN "unlink: nlink < 1" ELSE LockPanic(s)
      /\ UNCHANGED <<ftable, ncalls, orphan>>

UnlinkDone(p) ==
  LET s == pr[p].ip
      c == AddLinks(icache, s, -1)
  IN  /\ At(p, "unlinked")
      /\ disk' = Iupdate(disk, c, s)
      /\ icache' = Iunlock(c, s)
      /\ Set(p, Put(pr[p], <<s>>, "idle"))
      /\ UNCHANGED <<ftable, panic, ncalls, orphan>>

---------------------------------------------------------------------------
(* link: the link count goes up before the entry is made. *)

Begin(c, r, path) ==
  LET i == IF path.abs THEN ROOTINO ELSE c[r.cwd].inum
  IN  [c |-> Iget(c, i), panic |-> IgetPanic(c, i),
       r |-> [r EXCEPT !.pc = "walk", !.path = path.elems,
                       !.cur = IgetSlot(c, i)]]

LinkOld(p) ==
  LET s == pr[p].cur
      c == Ilock(icache, s, p)
      u == Iunlock(AddLinks(c, s, 1), s)
      b == Begin(u, [pr[p] EXCEPT !.old = s, !.parent = TRUE],
                 pr[p].call.new)
  IN  /\ At(p, "at") /\ pr[p].call.op = "link" /\ pr[p].old = 0
      /\ CanLock(s)
      /\ \/ /\ c[s].type = "dir"
            /\ icache' = Iunlock(c, s)
            /\ Set(p, Put(pr[p], <<s>>, "idle"))
            /\ panic' = LockPanic(s)
            /\ UNCHANGED disk
         \/ /\ c[s].type # "dir"
            /\ disk' = Iupdate(disk, u, s)
            /\ icache' = b.c
            /\ Set(p, b.r)
            /\ panic' = First(LockPanic(s), b.panic)
      /\ UNCHANGED <<ftable, ncalls, orphan>>

(* dirlink() puts an entry that it finds while the directory is locked. *)
LinkNew(p) ==
  LET s    == pr[p].cur
      c    == Ilock(icache, s, p)
      name == Head(pr[p].path)
      i    == Ents(s)[name]
  IN  /\ At(p, "at") /\ pr[p].call.op = "link" /\ pr[p].old # 0
      /\ CanLock(s)
      /\ \/ /\ i # 0
            /\ icache' = Iget(c, i)
            /\ Set(p, Put(pr[p], <<IgetSlot(c, i)>>, "release"))
            /\ panic' = First(LockPanic(s), IgetPanic(c, i))
            /\ UNCHANGED <<disk, orphan>>
         \/ /\ i = 0
            /\ disk' = [disk EXCEPT ![c[s].inum].ents[name] =
                          icache[pr[p].old].inum]
            /\ icache' = Iunlock(c, s)
            /\ Set(p, Put(pr[p], <<s, pr[p].old>>, "idle"))
            /\ panic' = LockPanic(s)
            /\ orphan' = (orphan \/ c[s].nlink = 0)
      /\ UNCHANGED <<ftable, ncalls>>

(* Mutant of LinkUndo: the count stays up after a failed link. *)
LinkUndoForgets(p) ==
  LET s == pr[p].old
  IN  /\ At(p, "undo") /\ CanLock(s)
      /\ icache' = Iunlock(Ilock(icache, s, p), s)
      /\ Set(p, Put(pr[p], <<s>>, "idle"))
      /\ panic' = LockPanic(s)
      /\ UNCHANGED <<disk, ftable, ncalls, orphan>>

LinkUndo(p) ==
  LET s == pr[p].old
      c == AddLinks(Ilock(icache, s, p), s, -1)
  IN  /\ At(p, "undo") /\ CanLock(s)
      /\ disk' = Iupdate(disk, c, s)
      /\ icache' = Iunlock(c, s)
      /\ Set(p, Put(pr[p], <<s>>, "idle"))
      /\ panic' = LockPanic(s)
      /\ UNCHANGED <<ftable, ncalls, orphan>>

---------------------------------------------------------------------------
(* chdir, and the calls that take a descriptor *)

ChdirAt(p) ==
  LET s == pr[p].cur
      c == Ilock(icache, s, p)
  IN  /\ At(p, "at") /\ pr[p].call.op = "chdir" /\ CanLock(s)
      /\ icache' = Iunlock(c, s)
      /\ \/ /\ c[s].type # "dir"
            /\ Set(p, Put(pr[p], <<s>>, "idle"))
         \/ /\ c[s].type = "dir"
            /\ Set(p, Put([pr[p] EXCEPT !.cwd = s], <<pr[p].cwd>>, "idle"))
      /\ panic' = LockPanic(s)
      /\ UNCHANGED <<disk, ftable, ncalls, orphan>>

(* fileclose() of descriptor d, then k. *)
CloseFd(p, d, k) ==
  LET f == pr[p].fds[d]
      r == [pr[p] EXCEPT !.fds[d] = 0]
      last == ftable[f].ref = 1 /\ ftable[f].ip # 0
  IN  /\ ftable' = Unref(f)
      /\ Set(p, IF last THEN Put(r, <<ftable[f].ip>>, k)
                ELSE [r EXCEPT !.pc = k])
      /\ panic' = IF ftable[f].ref < 1 THEN "fileclose" ELSE panic
      /\ UNCHANGED <<disk, icache, orphan>>

Close(p, d) == pr[p].fds[d] # 0 /\ CloseFd(p, d, "idle")

Dup(p, d) ==
  LET f == pr[p].fds[d]
  IN  /\ f # 0 /\ FreeFds(p) # {}
      /\ ftable' = [ftable EXCEPT ![f].ref = @ + 1]
      /\ Set(p, [pr[p] EXCEPT !.fds[Min(FreeFds(p))] = f])
      /\ panic' = IF ftable[f].ref < 1 THEN "filedup" ELSE panic
      /\ UNCHANGED <<disk, icache, orphan>>

Fstat(p, d) ==
  LET s == ftable[pr[p].fds[d]].ip
  IN  /\ pr[p].fds[d] # 0 /\ s # 0 /\ CanLock(s)
      /\ icache' = Iunlock(Ilock(icache, s, p), s)
      /\ panic' = LockPanic(s)
      /\ UNCHANGED <<disk, ftable, pr, orphan>>

(* pipealloc() allocates the files one after the other, and the pipe; a    *)
(* pipe end has no inode.                                                  *)
PipeCall(p) ==
  /\ \/ FreeFiles = {} /\ UNCHANGED <<ftable, pr>>
     \/ /\ FreeFiles # {}
        /\ FileAlloc
        /\ Set(p, [pr[p] EXCEPT !.pc = "pipe", !.files = <<Min(FreeFiles)>>])
  /\ UNCHANGED <<disk, icache, panic, orphan>>

(* The rest of pipe(): the second file, kalloc(), the two descriptors.     *)
(* Where one of them cannot be had, the files there are get closed; a      *)
(* first descriptor has been cleared by then.                              *)
PipeEnds(p) ==
  LET f == Head(pr[p].files)
      g == Min(FreeFiles)
      d == Min(FreeFds(p))
      e == Min(FreeFds(p) \ {d})
      fails == [pr[p] EXCEPT !.pc = "fclose", !.files = <<f, g>>]
  IN  /\ At(p, "pipe")
      /\ \/ /\ FreeFiles = {}
            /\ Set(p, Goto(p, "fclose"))
            /\ UNCHANGED ftable
         \/ /\ FreeFiles # {} /\ Cardinality(FreeFds(p)) > 1
            /\ FileAlloc
            /\ Set(p, Idle([pr[p].fds EXCEPT ![d] = f, ![e] = g], pr[p].cwd))
         \/ /\ FreeFiles # {}  \* kalloc() or fdalloc() fails
            /\ FileAlloc
            /\ Set(p, fails)
      /\ UNCHANGED <<disk, icache, panic, ncalls, orphan>>

(* fileclose() of a file that has no descriptor yet. *)
FileClose(p) ==
  LET fs == Tail(pr[p].files)
  IN  /\ At(p, "fclose")
      /\ ftable' = Unref(Head(pr[p].files))
      /\ Set(p, [pr[p] EXCEPT !.files = fs,
                   !.pc = IF fs = <<>> THEN "idle" ELSE "fclose"])
      /\ UNCHANGED <<disk, icache, panic, ncalls, orphan>>

(* The part of fork() that copies descriptors and current directory. *)
Fork(p, q) ==
  /\ pr[q].pc = "unused"
  /\ ftable' = [f \in DOMAIN ftable |-> [ftable[f] EXCEPT !.ref =
                  @ + Cardinality({d \in 1 .. NOFILE : pr[p].fds[d] = f})]]
  /\ icache' = Idup(icache, pr[p].cwd)
  /\ pr' = [pr EXCEPT ![q] = Idle(pr[p].fds, pr[p].cwd)]
  /\ UNCHANGED <<disk, panic, orphan>>

(* exit() closes the descriptors one after the other. *)
ExitFd(p) ==
  LET open == {d \in 1 .. NOFILE : pr[p].fds[d] # 0}
  IN  /\ At(p, "exit")
      /\ \/ open # {} /\ CloseFd(p, Min(open), "exit")
         \/ /\ open = {}
            /\ Set(p, Put([pr[p] EXCEPT !.cwd = 0], <<pr[p].cwd>>, "gone"))
            /\ UNCHANGED <<disk, icache, ftable, panic, orphan>>
      /\ UNCHANGED ncalls

---------------------------------------------------------------------------
(* A call that takes a path starts with namei() or nameiparent(). *)
StartPath(p, call) ==
  LET r == [pr[p] EXCEPT !.call = call,
              !.parent = Creates(call) \/ call.op = "unlink"]
      b == Begin(icache, r, call.path)
  IN  /\ icache' = b.c
      /\ Set(p, b.r)
      /\ panic' = b.panic
      /\ UNCHANGED <<disk, ftable, orphan>>

Call(p, call) ==
  /\ At(p, "idle") /\ ncalls < MaxCalls
  /\ ncalls' = ncalls + 1
  /\ \/ call.op \in {"open", "mkdir", "mknod", "exec", "unlink", "link",
                     "chdir"} /\ StartPath(p, call)
     \/ call.op = "close" /\ \E d \in 1 .. NOFILE : Close(p, d)
     \/ call.op = "dup"   /\ \E d \in 1 .. NOFILE : Dup(p, d)
     \/ call.op = "fstat" /\ \E d \in 1 .. NOFILE : Fstat(p, d)
     \/ call.op = "pipe"  /\ PipeCall(p)
     \/ call.op = "fork"  /\ \E q \in Procs : Fork(p, q)
     \/ /\ call.op = "exit"
        /\ Set(p, Goto(p, "exit"))
        /\ UNCHANGED <<disk, icache, ftable, panic, orphan>>

Step(p) ==
  \/ IputTest(p) \/ IputFree(p) \/ IputDrop(p)
  \/ WalkEnd(p) \/ Walk(p) \/ Release(p)
  \/ CreateFound(p) \/ CreateNew(p) \/ CreateFill(p) \/ UseInode(p)
  \/ OpenFd(p) \/ PipeEnds(p) \/ FileClose(p)
  \/ UnlinkAt(p) \/ UnlinkEntry(p) \/ UnlinkDone(p)
  \/ LinkOld(p) \/ LinkNew(p) \/ LinkUndo(p)
  \/ ChdirAt(p) \/ ExitFd(p)

(* Inode i is in entry i of the cache; an open file is in entry 1 of the   *)
(* file table and is descriptor 1 of every user.                           *)
InitFrom(b) ==
  LET fds  == [NoFds EXCEPT ![1] = IF b.open = 0 THEN 0 ELSE 1]
      Refs(i) == Cardinality({p \in Users : b.home[p] = i})
                 + (IF b.open = i THEN 1 ELSE 0)
      Entry(i) == [inum |-> i, ref |-> Refs(i), valid |-> TRUE, lock |-> 0,
                   type |-> b.tree[i].type, nlink |-> b.tree[i].nlink]
  IN  /\ disk = b.tree
      /\ icache = [s \in Slots |->
                     IF s \in Inums /\ Refs(s) > 0 THEN Entry(s) ELSE NoEntry]
      /\ ftable = [f \in 1 .. NFILE |->
                     IF f = 1 /\ b.open # 0
                     THEN [ref |-> Cardinality(Users), ip |-> b.open]
                     ELSE NoFile]
      /\ pr = [p \in Procs |-> IF p \in Users THEN Idle(fds, b.home[p])
                               ELSE NotRunning]

Init == /\ \E b \in Starts : InitFrom(b)
        /\ panic = "" /\ ncalls = 0 /\ orphan = FALSE

---------------------------------------------------------------------------
(* Who waits for whom *)

(* The entry whose sleep lock p needs for its next step, 0 if none. *)
Wanted(p) ==
  CASE pr[p].pc = "put" -> Head(pr[p].puts)
    [] pr[p].pc = "walk" /\ pr[p].path # <<>> -> pr[p].cur
    [] pr[p].pc \in {"at", "exist"} -> pr[p].cur
    [] pr[p].pc \in {"fill", "unlink"} -> pr[p].ip
    [] pr[p].pc = "undo" -> pr[p].old
    [] OTHER -> 0

WaitsFor(p, q) == Wanted(p) # 0 /\ icache[Wanted(p)].lock = q
Holds(p) == {s \in Slots : icache[s].lock = p}

(* Processes that wait for each other (or for themselves) for ever. *)
Cycles == {S \in SUBSET Procs \ {{}} :
             \A p \in S : \E q \in S : WaitsFor(p, q)}

Quiet == \A p \in Procs : pr[p].pc \in {"idle", "unused"}

Run == \E p \in Procs : Step(p)

Next == Run \/ \E p \in Procs, c \in Calls : Call(p, c)

(* The scheduler runs some process that can go on: whichever it takes, the *)
(* calls in progress have only finitely many steps left.                   *)
Spec == Init /\ [][Next]_vars /\ WF_vars(Run)

---------------------------------------------------------------------------
(* Properties *)

Label(p) == IF pr[p].pc \in {"put", "free", "drop"} THEN pr[p].k ELSE pr[p].pc

(* References to entry s in local variables of p. *)
Locals(p, s) ==
  LET One(b) == IF b THEN 1 ELSE 0
      l == Label(p)
  IN  One(pr[p].cwd = s)
      + Cardinality({j \in DOMAIN pr[p].puts : pr[p].puts[j] = s})
      + One(pr[p].cur = s /\ l \in {"walk", "at", "release", "exist", "made",
                                    "fill", "unlink", "fdalloc"})
      + One(pr[p].ip = s /\ l \in {"fill", "unlink", "unlinked"})
      + One(pr[p].old = s /\ l \in {"walk", "at", "release", "undo"})

(* Link and reference counts never go below 0, entries name inodes,        *)
(* descriptors name files (fs.h, file.h).                                  *)
TypeOK ==
  /\ \A i \in Inums : /\ disk[i].type \in {"free", "dir", "file", "dev"}
                      /\ disk[i].nlink \in Nat
                      /\ disk[i].ents \in [Names \cup Dots -> 0 .. NInodes]
  /\ \A s \in Slots : /\ icache[s].inum \in 0 .. NInodes
                      /\ icache[s].ref \in Nat /\ icache[s].nlink \in Nat
                      /\ icache[s].lock \in Procs \cup {0}
  /\ \A f \in DOMAIN ftable : ftable[f].ref \in Nat
  /\ \A p \in Procs : pr[p].fds \in [1 .. NOFILE -> 0 .. NFILE]

(* ip->ref counts the in-memory pointers to an entry, f->ref those to a    *)
(* file (descriptors and local variables), exactly: no error path of       *)
(* link(), unlink(), open(), pipe() or namex() loses or repeats an iput()  *)
(* or a fileclose(), be it the file table, the descriptors or the memory   *)
(* that has run out.                                                       *)
RefsExact ==
  panic = "" =>
    /\ \A s \in Slots : icache[s].ref =
         MapThenSumSet(LAMBDA p : Locals(p, s), Procs)
         + Cardinality({f \in DOMAIN ftable :
                          ftable[f].ref > 0 /\ ftable[f].ip = s})
    /\ \A f \in DOMAIN ftable : ftable[f].ref =
         Cardinality({<<p, d>> \in Procs \X (1 .. NOFILE) :
                        pr[p].fds[d] = f})
         + Cardinality({p \in Procs : f \in ToSet(pr[p].files)})

(* One entry per inode, and an entry that is valid and not locked agrees   *)
(* with the disk: a recycled or freed entry is never taken for its former  *)
(* inode (ip->valid in iget, ilock and iput).                              *)
CacheCoherent ==
  panic = "" =>
    /\ \A i \in Inums : Cardinality(Matching(icache, i)) <= 1
    /\ \A s \in Slots :
         icache[s].ref > 0 /\ icache[s].valid /\ icache[s].lock = 0 =>
           /\ icache[s].type = disk[icache[s].inum].type
           /\ icache[s].nlink = disk[icache[s].inum].nlink

(* An open file or current directory keeps its inode: iput() frees only    *)
(* what nothing refers to, also when unlink() removes the last name first. *)
InUseNotFreed ==
  panic = "" =>
    /\ \A p \in Procs : pr[p].cwd # 0 =>
         disk[icache[pr[p].cwd].inum].type = "dir"
    /\ \A f \in DOMAIN ftable : ftable[f].ref > 0 /\ ftable[f].ip # 0 =>
         disk[icache[ftable[f].ip].inum].type # "free"

Entries(i) == {<<d, n>> \in Inums \X Names :
                 disk[d].type = "dir" /\ disk[d].ents[n] = i}
Subdirs(i) == {d \in Inums \ {i} : /\ disk[d].type = "dir" /\ disk[d].nlink > 0
                                   /\ disk[d].ents[".."] = i}

(* When no call is in progress, the link count of an inode is the number   *)
(* of names that reach it: entries, and ".." of its subdirectories.  The   *)
(* root has one more.  (An entry made in a removed directory is lost.)     *)
LinksMatch ==
  Quiet /\ panic = "" /\ ~orphan =>
    \A i \in Inums : disk[i].type # "free" =>
      disk[i].nlink = Cardinality(Entries(i)) + Cardinality(Subdirs(i))
                      + (IF i = ROOTINO THEN 1 ELSE 0)

Paths(p)   == {pr[p].call[x].elems :
                 x \in DOMAIN pr[p].call \cap {"path", "new"}}
Upwards(p) == \E e \in Paths(p) : ".." \in ToSet(e)

(* When iput() has decided to free an inode, no other process can get hold *)
(* of it before it is done, though icache.lock is released in between;     *)
(* only ".." in a removed directory may still lead to it.                  *)
FreesAlone ==
  \A p \in Procs : pr[p].pc = "free" /\ panic = "" =>
    \/ icache[Head(pr[p].puts)].ref = 1
    \/ \E q \in Procs \ {p} : Upwards(q)

(* The assertions of the inode layer hold.  Exceptions: a full disk and a  *)
(* full inode cache, which ialloc() and iget() meet with a panic, and ".." *)
(* of a directory whose parent has been removed as well, where ilock()     *)
(* reads a free inode.                                                     *)
NoPanic ==
  \/ panic \in {"", "ialloc: no inodes"}
  \/ panic = "iget: no inodes" /\ Empty(icache) = {}
  \/ panic = "ilock: no type" /\ \E p \in Procs : Upwards(p)

(* Two processes that hold and want inode locks crosswise: at least one of *)
(* them waits in iput().  Those that wait in ilock() alone cannot block    *)
(* each other: a child is only ever locked after its parent.               *)
LocksOrdered ==
  \A S \in Cycles : \E p \in S :
    pr[p].pc = "put" /\ pr[p].k \in {"made", "unlinked", "release"}

(* The comment above iput(): with the last reference to an inode without   *)
(* links the inode is freed on disk.  So once all calls are over, every    *)
(* inode that is not in the cache and not free has a link.                 *)
NoInodeLost ==
  Quiet /\ panic = "" =>
    \A i \in Inums : disk[i].type # "free" /\ Matching(icache, i) = {} =>
      disk[i].nlink > 0

(* All calls come to an end, unless processes block each other crosswise   *)
(* or the system panics: no process is left waiting for an inode that its  *)
(* holder has forgotten to unlock.                                         *)
CallsFinish == <>[](Quiet \/ panic # "" \/ Cycles # {})

(* An inode in use stays what it is, in the cache and on disk, and is      *)
(* freed by one process when nobody can reach it; the assertions of fs.c,  *)
(* sysfile.c and file.c about it (ilock, create, unlink, filedup,          *)
(* fileclose) hold, but for those that say that an inode or a cache entry  *)
(* is left.                                                                *)
InodesKept ==
  TypeOK /\ CacheCoherent /\ InUseNotFreed /\ FreesAlone /\ NoPanic
============================================================================
