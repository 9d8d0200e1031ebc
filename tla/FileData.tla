----------------------------- MODULE FileData -----------------------------
(***************************************************************************)
(* The contents of files: blocks, block maps, readi(), writei() and        *)
(* itrunc() of fs.c, fileread() and filewrite() of file.c, and the disk    *)
(* image that mkfs.c builds.                                               *)
(*                                                                         *)
(* A cell stands for a byte, for a block number in an indirect block and   *)
(* for a directory entry in the root.  All that happens between ilock()    *)
(* and iunlock() is one step: two inodes share only the bitmap, of which   *)
(* balloc() and bfree() each change one bit under the buffer's lock.       *)
(***************************************************************************)
EXTENDS Integers, FiniteSets, FiniteSetsExt, Sequences, SequencesExt

CONSTANTS FSSIZE,    \* blocks of the disk
          NMeta,     \* blocks before the first data block
          BSIZE,     \* cells of a block; NINDIRECT is as large
          NDIRECT,   \* direct block numbers of an inode
          NFilesSet, \* how many files mkfs is given
          FileSizes, \* and how large they are
          Files,     \* open file structures, shared by the processes
          FirstOpen, \* the inode each has open at the start, 0 for none
          Procs,     \* processes that read and write
          Counts,    \* the n of read() and write()
          MaxChunk,  \* max of filewrite()
          MaxCalls,  \* bound on the calls made
          Word       \* uint arithmetic wraps here

NINDIRECT == BSIZE
MAXFILE   == NDIRECT + NINDIRECT
ROOTINO   == 1
MaxFiles  == Max(NFilesSet)
Inums     == 1 .. MaxFiles + 1
Blocks    == 0 .. FSSIZE - 1
Zeroes    == [k \in 1 .. BSIZE |-> 0]
NoInode   == [size |-> 0, addrs |-> [k \in 0 .. NDIRECT |-> 0]]

ASSUME FileDataAssumption ==
  /\ \A n \in {BSIZE, NDIRECT, NMeta, MaxChunk} : n \in Nat \ {0}
  /\ NMeta < FSSIZE /\ MAXFILE * BSIZE < Word
  /\ Counts \subseteq 0 .. Word - 1 /\ MaxChunk \in 1 .. MAXFILE * BSIZE
  /\ \A n \in FileSizes : n \in 0 .. MAXFILE * BSIZE
  /\ \A n \in NFilesSet : n \in Nat

VARIABLES d,      \* the disk as the buffer cache shows it, and the inodes
                  \* in the inode cache; panic message
          file,   \* the file table: inode (0: not open) and offset
          call,   \* the write in progress of each process
          ncalls,
          nfiles  \* what mkfs was given

vars == <<d, file, call, ncalls, nfiles>>

---------------------------------------------------------------------------
(* Blocks.  d.used is the bitmap, d.blk the blocks, d.dino the inodes on   *)
(* disk and d.ino those in memory.                                         *)

Balloc(s) ==
  LET F == Blocks \ s.used
      b == Min(F)
  IN  IF F = {} THEN [s |-> [s EXCEPT !.panic = "balloc: out of blocks"],
                      b |-> 0]
      ELSE [s |-> [s EXCEPT !.used = @ \cup {b}, !.blk[b] = Zeroes], b |-> b]

Bfree(s, b) ==
  IF b \in s.used THEN [s EXCEPT !.used = @ \ {b}]
  ELSE [s EXCEPT !.panic = "freeing free block"]

(* The block of inode i that holds its bn-th block; allocated when absent. *)
(* The entry of the inode in memory changes, not the one on disk.          *)
Direct(s, i, k) ==
  LET x == Balloc(s)
  IN  IF s.ino[i].addrs[k] # 0 THEN [s |-> s, b |-> s.ino[i].addrs[k]]
      ELSE [s |-> [x.s EXCEPT !.ino[i].addrs[k] = x.b], b |-> x.b]

Bmap(s, i, bn) ==
  LET t == Direct(s, i, NDIRECT)
      e == t.s.blk[t.b][bn - NDIRECT + 1]
      x == Balloc(t.s)
  IN  CASE bn < NDIRECT -> Direct(s, i, bn)
        [] bn \in NDIRECT .. MAXFILE - 1 /\ e # 0 -> [s |-> t.s, b |-> e]
        [] bn \in NDIRECT .. MAXFILE - 1 /\ e = 0 ->
             [s |-> [x.s EXCEPT !.blk[t.b][bn - NDIRECT + 1] = x.b],
              b |-> x.b]
        [] OTHER -> [s |-> [s EXCEPT !.panic = "bmap: out of range"], b |-> 0]

Iupdate(s, i) == [s EXCEPT !.dino[i] = s.ino[i]]

Itrunc(s, i) ==
  LET a   == s.ino[i].addrs
      ind == IF a[NDIRECT] = 0 THEN <<>>
             ELSE SelectSeq(s.blk[a[NDIRECT]], LAMBDA b : b # 0)
      dir == SelectSeq([k \in 1 .. NDIRECT + 1 |-> a[k - 1]],
                       LAMBDA b : b # 0)
      x   == FoldLeft(Bfree, s, dir \o ind)
  IN  Iupdate([x EXCEPT !.ino[i] = NoInode], i)

---------------------------------------------------------------------------
(* readi() and writei() *)

(* The block numbers of the cells off .. off+n-1. *)
BlockRun(off, n) ==
  [k \in 1 .. (IF n = 0 THEN 0
               ELSE (off + n - 1) \div BSIZE - off \div BSIZE + 1) |->
     off \div BSIZE + k - 1]

(* Mutant of Within: one cell too many. *)
WithinTooFar(bn, k, off, n) == LET c == bn * BSIZE + k - 1
                               IN  off <= c /\ c <= off + n

(* Cell k of block bn is one of off .. off+n-1. *)
Within(bn, k, off, n) == LET c == bn * BSIZE + k - 1
                         IN  off <= c /\ c < off + n

(* n at most what there is to read; -1 when the arguments are refused. *)
ReadLen(s, i, off, n) ==
  LET end == (off + n) % Word
      size == s.ino[i].size
  IN  CASE off > size \/ end < off -> -1
        [] off <= size /\ end >= off /\ end > size -> size - off
        [] OTHER -> n

(* The disk after a read: bmap() may have to allocate. *)
Readi(s, i, off, n) ==
  FoldLeft(LAMBDA t, bn : Bmap(t, i, bn).s, s, BlockRun(off, n))

(* The same for writei(). *)
WriteLen(s, i, off, n) ==
  LET end == (off + n) % Word
  IN  IF off > s.ino[i].size \/ end < off \/ end > MAXFILE * BSIZE
      THEN -1 ELSE n

(* Mutant of Writei: the inode is not saved when the file grows. *)
WriteiNoUpdate(s, i, off, n, b) ==
  LET Put(t, bn) ==
        LET x == Bmap(t, i, bn)
        IN  [x.s EXCEPT !.blk[x.b] = [k \in 1 .. BSIZE |->
               IF Within(bn, k, off, n) THEN b ELSE @[k]]]
      t == FoldLeft(Put, s, BlockRun(off, n))
  IN  IF off + n > s.ino[i].size THEN [t EXCEPT !.ino[i].size = off + n] ELSE t

Writei(s, i, off, n, b) ==
  LET Put(t, bn) ==
        LET x == Bmap(t, i, bn)
        IN  [x.s EXCEPT !.blk[x.b] = [k \in 1 .. BSIZE |->
               IF Within(bn, k, off, n) THEN b ELSE @[k]]]
      t == FoldLeft(Put, s, BlockRun(off, n))
  IN  IF n > 0 /\ off + n > s.ino[i].size
      THEN Iupdate([t EXCEPT !.ino[i].size = off + n], i)
      ELSE t

---------------------------------------------------------------------------
(* mkfs: blocks are handed out in order, s.next being the first free one,  *)
(* and the bitmap is written at the end.                                   *)

Fresh(s) == [s |-> [s EXCEPT !.next = @ + 1], b |-> s.next]

MkfsBlock(s, i, bn) ==
  LET a == s.dino[i].addrs
      Slot(t, k) == LET x == Fresh(t)
                    IN  IF t.dino[i].addrs[k] # 0 THEN t
                        ELSE [x.s EXCEPT !.dino[i].addrs[k] = x.b]
      t == Slot(s, NDIRECT)
      e == t.dino[i].addrs[NDIRECT]
      j == bn - NDIRECT + 1
      x == Fresh(t)
  IN  IF bn < NDIRECT THEN Slot(s, bn)
      ELSE IF t.blk[e][j] # 0 THEN t
      ELSE [x.s EXCEPT !.blk[e][j] = x.b]

(* The block that bn of inode i lies in, once MkfsBlock has seen to it. *)
AddrOf(blk, ino, bn) ==
  IF bn < NDIRECT THEN ino.addrs[bn]
  ELSE IF ino.addrs[NDIRECT] = 0 THEN 0
  ELSE blk[ino.addrs[NDIRECT]][bn - NDIRECT + 1]

Iappend(s, i, n, b) ==
  LET off == s.dino[i].size
      Put(t, bn) ==
        LET u == MkfsBlock(t, i, bn)
        IN  [u EXCEPT !.blk[AddrOf(u.blk, u.dino[i], bn)] =
               [k \in 1 .. BSIZE |->
                  IF Within(bn, k, off, n) THEN b ELSE @[k]]]
      t == FoldLeft(Put, s, BlockRun(off, n))
  IN  [t EXCEPT !.dino[i].size = off + n]

(* balloc() of mkfs: the bitmap has the blocks before the first free one. *)
Bitmap(next) == 0 .. next - 1

(* The root gets "." and "..", then an entry per file; a file of size z is *)
(* copied a block at a time.  At last the root's size is rounded up.       *)
Mkfs(k, z) ==
  LET s0 == [next |-> NMeta, blk |-> [b \in Blocks |-> Zeroes],
             dino |-> [i \in Inums |-> NoInode]]
      Copy(t, i) ==
        FoldLeft(LAMBDA u, m : Iappend(u, i, m, i),
                 Iappend(t, ROOTINO, 1, i),
                 [j \in 1 .. (z + BSIZE - 1) \div BSIZE |->
                    IF j * BSIZE <= z THEN BSIZE ELSE z % BSIZE])
      s1 == Iappend(Iappend(s0, ROOTINO, 1, ROOTINO), ROOTINO, 1, ROOTINO)
      s2 == FoldLeft(Copy, s1, [j \in 1 .. k |-> j + 1])
      s3 == [s2 EXCEPT !.dino[ROOTINO].size = (@ \div BSIZE + 1) * BSIZE]
  IN  [used |-> Bitmap(s3.next), blk |-> s3.blk, dino |-> s3.dino,
       ino |-> s3.dino, panic |-> ""]

Init ==
  /\ nfiles \in NFilesSet
  /\ \E z \in FileSizes : d = Mkfs(nfiles, z)
  /\ file   = [f \in Files |-> [ip |-> FirstOpen[f], off |-> 0]]
  /\ call   = [p \in Procs |-> [f |-> 0, left |-> 0]]
  /\ ncalls = 0

---------------------------------------------------------------------------
(* t, unless a panic on the way to it has stopped the system: what was     *)
(* done before it is in no committed transaction.                          *)
Unless(s, t) == IF t.panic = "" THEN t ELSE [s EXCEPT !.panic = t.panic]

Running == d.panic = "" /\ ncalls < MaxCalls
Count   == ncalls' = ncalls + 1
Writing(f) == \E p \in Procs : call[p].f = f

(* Files are opened and closed; the inode of one that nobody has open may  *)
(* leave the inode cache, or be removed (itrunc by iput).                  *)
Open(f, i) ==
  /\ Running /\ file[f].ip = 0 /\ Count
  /\ file' = [file EXCEPT ![f] = [ip |-> i, off |-> 0]]
  /\ UNCHANGED <<d, call, nfiles>>

Close(f) ==
  /\ Running /\ file[f].ip # 0 /\ ~Writing(f) /\ Count
  /\ file' = [file EXCEPT ![f].ip = 0]
  /\ UNCHANGED <<d, call, nfiles>>

Unused(i) == \A f \in Files : file[f].ip # i

Evict(i) ==
  /\ d.panic = "" /\ Unused(i) /\ d.ino[i] # d.dino[i]
  /\ d' = [d EXCEPT !.ino[i] = d.dino[i]]
  /\ UNCHANGED <<file, call, ncalls, nfiles>>

Unlink(i) ==
  /\ Running /\ Unused(i) /\ i # ROOTINO /\ Count
  /\ d' = Unless(d, Itrunc(d, i))
  /\ UNCHANGED <<file, call, nfiles>>

(* What readi() may leave of disk s if it would make it t.  fileread() is  *)
(* no transaction: when bmap() allocates, log_write() panics, unless some  *)
(* other call happens to be between begin_op() and end_op().               *)
ReadOutcomes(s, t) ==
  {Unless(s, t)} \cup
  IF t.used = s.used THEN {}
  ELSE {[s EXCEPT !.panic = "log_write outside of trans"]}

(* fileread() *)
Read(p, f, n) ==
  LET r == ReadLen(d, file[f].ip, file[f].off, n)
  IN  /\ Running /\ file[f].ip # 0 /\ call[p].f = 0 /\ Count
      /\ d' \in IF r > 0
                 THEN ReadOutcomes(d, Readi(d, file[f].ip, file[f].off, r))
                 ELSE {d}
      /\ file' = IF r > 0 /\ d'.panic = ""
                 THEN [file EXCEPT ![f].off = @ + r] ELSE file
      /\ UNCHANGED <<call, nfiles>>

(* filewrite() starts; directories are not opened for writing. *)
Write(p, f, n) ==
  /\ Running /\ file[f].ip \notin {0, ROOTINO} /\ call[p].f = 0 /\ n > 0
  /\ Count
  /\ call' = [call EXCEPT ![p] = [f |-> f, left |-> n]]
  /\ UNCHANGED <<d, file, nfiles>>

(* One round of filewrite()'s loop, with the inode locked; process p       *)
(* writes p.  A refused chunk ends the call, those before it stay.         *)
WriteChunk(p) ==
  LET f  == call[p].f
      n1 == Min({call[p].left, MaxChunk})
      r  == WriteLen(d, file[f].ip, file[f].off, n1)
      more == r = n1 /\ call[p].left > n1
  IN  /\ d.panic = "" /\ f # 0
      /\ d' = IF r > 0 THEN Unless(d, Writei(d, file[f].ip, file[f].off, r, p))
              ELSE d
      /\ file' = IF r > 0 /\ d'.panic = ""
                 THEN [file EXCEPT ![f].off = @ + r] ELSE file
      /\ call' = [call EXCEPT ![p] =
                    IF more THEN [f |-> f, left |-> @.left - n1]
                    ELSE [f |-> 0, left |-> 0]]
      /\ UNCHANGED <<ncalls, nfiles>>

Next ==
  \/ \E f \in Files, i \in 1 .. nfiles + 1 : Open(f, i)
  \/ \E f \in Files : Close(f)
  \/ \E i \in Inums : Evict(i) \/ Unlink(i)
  \/ \E p \in Procs, f \in Files, n \in Counts :
       Read(p, f, n) \/ Write(p, f, n)
  \/ \E p \in Procs : WriteChunk(p)

Spec == Init /\ [][Next]_vars

---------------------------------------------------------------------------
(* The blocks an inode uses for its data, and with its indirect block. *)
DataOf(ino) == {AddrOf(d.blk, ino, bn) : bn \in 0 .. MAXFILE - 1} \ {0}
BlocksOf(ino) == DataOf(ino) \cup ({ino.addrs[NDIRECT]} \ {0})

(* mkfs rounds the size of the root up by a whole block when its entries   *)
(* fill the last one: that block is not there.                             *)
RootFull == (2 + nfiles) % BSIZE = 0

(* What a file holds: its cells up to its size. *)
Content(i) ==
  [k \in 1 .. d.ino[i].size |->
     LET a == AddrOf(d.blk, d.ino[i], (k - 1) \div BSIZE)
     IN  IF a = 0 THEN 0 ELSE d.blk[a][((k - 1) % BSIZE) + 1]]

(* Sizes and offsets stay within MAXFILE*BSIZE, whatever writei() and      *)
(* filewrite() are asked, and addrs[] names blocks.                        *)
TypeOK ==
  /\ d.used \subseteq Blocks
  /\ \A i \in Inums : /\ d.ino[i].size \in 0 .. MAXFILE * BSIZE
                      /\ d.ino[i].addrs \in [0 .. NDIRECT -> Blocks]
  /\ \A f \in Files : file[f].off \in 0 .. MAXFILE * BSIZE

(* No block belongs to two inodes, or to one twice, and every block that   *)
(* an inode refers to is marked in the bitmap: what balloc() hands out is  *)
(* free in fact.  Holds from the image that mkfs makes.                    *)
BlocksOnce ==
  /\ \A i \in Inums : BlocksOf(d.ino[i]) \subseteq d.used \ (0 .. NMeta - 1)
  /\ \A i, j \in Inums : i # j =>
       BlocksOf(d.ino[i]) \cap BlocksOf(d.ino[j]) = {}

(* No block is lost: what the bitmap marks is the metadata or belongs to a *)
(* file, on disk as in memory, though bmap() changes the inode in memory   *)
(* only and writei() saves it only when the file grows.                    *)
NoBlockLost ==
  RootFull \/
    d.used = (0 .. NMeta - 1) \cup UNION {BlocksOf(d.dino[i]) : i \in Inums}

(* Every block below the size of a file is there, so that bmap() never     *)
(* allocates one for a read, which would not save the inode (the root of a *)
(* full directory aside).                                                  *)
SizeCovered ==
  \A i \in Inums : ~(RootFull /\ i = ROOTINO) =>
    \A bn \in 0 .. MAXFILE - 1 : bn * BSIZE < d.ino[i].size =>
      AddrOf(d.blk, d.ino[i], bn) # 0

ChunkBlocks == (MaxChunk + BSIZE - 2) \div BSIZE + 2

(* The assertions of the block layer hold: no block is freed twice and     *)
(* none out of range is asked for.  Exceptions: a disk that has fewer free *)
(* blocks than one chunk and its indirect block may need, and an image     *)
(* whose root directory mkfs has filled exactly, where fileread() of the   *)
(* root allocates outside a transaction.                                   *)
NoPanic ==
  \/ d.panic = ""
  \/ /\ d.panic = "balloc: out of blocks"
     /\ Cardinality(Blocks \ d.used) < ChunkBlocks
  \/ d.panic = "log_write outside of trans" /\ RootFull

Abstract == INSTANCE ByteFile
  WITH Files <- Inums, Bytes <- Procs, MaxSize <- MAXFILE * BSIZE,
       content <- [i \in Inums |-> Content(i)]

(* The files of the disk, root directory included, behave as sequences of  *)
(* bytes of which one chunk is written at a time (refinement).             *)
IsByteFile == Abstract!Spec

(* Every block has exactly one use, in memory, on disk and in the bitmap,  *)
(* and every file has the blocks its size needs (balloc, bmap, itrunc,     *)
(* writei, iappend of mkfs).                                               *)
BlocksSound ==
  TypeOK /\ BlocksOnce /\ NoBlockLost /\ SizeCovered /\ NoPanic
===========================================================================
