-------------------------------- MODULE Vm --------------------------------
(***************************************************************************)
(* Physical pages and address spaces: kalloc.c, vm.c, exec.c, growproc()   *)
(* and the checks of system call arguments in syscall.c.                   *)
(*                                                                         *)
(* A loop over pages is a fold whose state carries "ok": FALSE once the    *)
(* code has left the loop for its error path.  The kernel page allocator   *)
(* is a lock-protected free list and an address space belongs to one       *)
(* process, so the pages free when a call starts are all that the calls of *)
(* other processes can change for it: every call is one step.  The free    *)
(* list is a set, since nothing depends on which free page is handed out.  *)
(* Addresses and sizes are in units of half a page, so that sizes which    *)
(* are not page aligned occur; uint arithmetic wraps at Word.              *)
(***************************************************************************)
EXTENDS Integers, FiniteSets, FiniteSetsExt, SequencesExt

CONSTANTS Procs,     \* process slots; InitProc is one of them
          InitProc,
          NFrames,   \* physical pages given to freerange()
          UPages,    \* user pages below KERNBASE
          PTSpan,    \* pages covered by one page table page (1024)
          Programs,  \* files that exec() may be asked to run
          Argvs,     \* argument vectors: sequences of string sizes
          Deltas     \* arguments of sbrk()

ASSUME VmAssumption ==
  /\ NFrames \in Nat /\ UPages \in Nat \ {0} /\ PTSpan \in Nat \ {0}
  /\ InitProc \in Procs /\ Deltas \subseteq Int

PGSIZE   == 2
KERNBASE == PGSIZE * UPages
Word     == 2 * KERNBASE
Frames   == 1 .. NFrames
NPT      == (UPages + PTSpan - 1) \div PTSpan
PDX(a)   == a \div PTSpan
NoPte    == [f |-> 0, u |-> FALSE]

VARIABLES mem,     \* the allocator: free pages, contents, panic message
          as,      \* address space of each slot, NoSpace when unused
          sz,      \* p->sz
          kstack,  \* p->kstack, 0 when unused
          ret,     \* the last call and what it returned
          zeroed   \* history: processes whose sbrk() asked for size 0

vars == <<mem, as, sz, kstack, ret, zeroed>>

(* A page directory: its page, the page of its kernel part, its user page  *)
(* tables and the user entries.                                            *)
Space(dir, kpt) == [dir |-> dir, kpt |-> kpt,
                    pt  |-> [i \in 0 .. NPT - 1 |-> 0],
                    pte |-> [a \in 0 .. UPages - 1 |-> NoPte]]
NoSpace == Space(0, 0)

---------------------------------------------------------------------------
(* kalloc.c *)

(* Memory returned by kalloc() is 0 when the list is empty. *)
Kalloc(m) == IF m.free = {} THEN 0 ELSE CHOOSE f \in m.free :
                                          \A g \in m.free : f <= g

(* m once page f is taken from the list and filled with c. *)
Take(m, f, c) == [m EXCEPT !.free = @ \ {f}, !.page[f] = c]

(* kfree fills the page with junk. *)
Kfree(m, f) == [m EXCEPT !.free = @ \cup {f}, !.page[f] = "junk"]

KfreeAll(m, S) == [m EXCEPT !.free = @ \cup S,
                            !.page = [f \in S |-> "junk"] @@ @]

---------------------------------------------------------------------------
(* vm.c *)

(* The pages visited by for(a = PGROUNDUP(lo); a < hi; a += PGSIZE). *)
AllPages == [i \in 1 .. UPages |-> i - 1]
PageLoop(lo, hi) == SubSeq(AllPages, (lo + PGSIZE - 1) \div PGSIZE + 1,
                                     (hi + PGSIZE - 1) \div PGSIZE)

(* walkpgdir(alloc = 1): a page table page is made when none is there. *)
NewTable(st, a, f) ==
  IF f = 0 THEN [st EXCEPT !.ok = FALSE]
  ELSE [st EXCEPT !.m = Take(@, f, "zero"), !.s.pt[PDX(a)] = f]
Walkpgdir(st, a) ==
  IF st.s.pt[PDX(a)] # 0 THEN st ELSE NewTable(st, a, Kalloc(st.m))

(* mappages of one page: page a of st.s becomes frame f. *)
SetPte(st, a, f, u) ==
  CASE ~st.ok -> st
    [] st.ok /\ st.s.pte[a] # NoPte -> [st EXCEPT !.m.panic = "remap"]
    [] OTHER -> [st EXCEPT !.s.pte[a] = [f |-> f, u |-> u]]
Mappages(st, a, f, u) == SetPte(Walkpgdir(st, a), a, f, u)

(* m and s without the frames of the pages in gone. *)
Unmap(m, s, gone, new) ==
  [m |-> KfreeAll(m, {s.pte[a].f : a \in gone}),
   s |-> [s EXCEPT !.pte = [a \in gone |-> NoPte] @@ @], r |-> new]
Mapped(s, pages) == {a \in ToSet(pages) : s.pte[a] # NoPte}

(* Mutant of Deallocuvm: the page that newsz cuts is freed too. *)
DeallocuvmCuts(m, s, old, new) ==
  IF new >= old THEN [m |-> m, s |-> s, r |-> old]
  ELSE Unmap(m, s, Mapped(s, PageLoop(new - (new % PGSIZE), old)), new)

(* Entries of missing page tables are absent: skipping a whole table, as   *)
(* the code does, visits the same pages.                                   *)
Deallocuvm(m, s, old, new) ==
  IF new >= old THEN [m |-> m, s |-> s, r |-> old]
  ELSE Unmap(m, s, Mapped(s, PageLoop(new, old)), new)

Freevm(m, s) ==
  KfreeAll(Deallocuvm(m, s, KERNBASE, 0).m,
           {f \in {s.pt[i] : i \in DOMAIN s.pt} : f # 0} \cup {s.kpt, s.dir})

(* The kernel half of every page directory needs one page table here; when *)
(* it cannot be had, freevm takes the directory back.                      *)
KernelTable(m, d, k) ==
  IF k = 0 THEN [m |-> Kfree(m, d), s |-> NoSpace, ok |-> FALSE]
  ELSE [m |-> Take(m, k, "zero"), s |-> Space(d, k), ok |-> TRUE]
KernelMap(m, d) == KernelTable(m, d, Kalloc(m))
Directory(m, d) ==
  IF d = 0 THEN [m |-> m, s |-> NoSpace, ok |-> FALSE]
  ELSE KernelMap(Take(m, d, "zero"), d)
Setupkvm(m) == Directory(m, Kalloc(m))

(* deallocuvm(newsz, oldsz) also undoes what earlier iterations mapped;    *)
(* page table pages stay with the directory.                               *)
Undone(d) == [m |-> d.m, s |-> d.s, ok |-> FALSE]
Undo(st, old, new) == Undone(Deallocuvm(st.m, st.s, new, old))
AllocMapped(w, f, old, new) ==
  IF w.ok THEN w ELSE [Undo(w, old, new) EXCEPT !.m = Kfree(@, f)]
AllocFrame(st, a, f, old, new) ==
  IF f = 0 THEN Undo(st, old, new)
  ELSE AllocMapped(Mappages([st EXCEPT !.m = Take(@, f, "zero")], a, f, TRUE),
                   f, old, new)
AllocOne(st, a, old, new) ==
  IF st.ok THEN AllocFrame(st, a, Kalloc(st.m), old, new) ELSE st

Sized(x, new) == [m |-> x.m, s |-> x.s, r |-> IF x.ok THEN new ELSE 0]
Allocuvm(m, s, old, new) ==
  CASE new >= KERNBASE -> [m |-> m, s |-> s, r |-> 0]
    [] new < KERNBASE /\ new < old -> [m |-> m, s |-> s, r |-> old]
    [] OTHER ->
         Sized(FoldLeft(LAMBDA st, a : AllocOne(st, a, old, new),
                        [m |-> m, s |-> s, ok |-> TRUE], PageLoop(old, new)),
               new)

(* Copies page a, whose entry is e, into the new directory st.s. *)
CopyMapped(w, f) ==
  IF w.ok THEN w ELSE [w EXCEPT !.m = Freevm(Kfree(@, f), w.s)]
CopyFrame(st, e, a, f) ==
  IF f = 0 THEN [st EXCEPT !.m = Freevm(@, st.s), !.ok = FALSE]
  ELSE CopyMapped(Mappages([st EXCEPT !.m = Take(@, f, st.m.page[e.f])],
                           a, f, e.u), f)
CopyOne(st, e, a) ==
  CASE ~st.ok \/ st.m.panic # "" -> st
    [] st.ok /\ st.m.panic = "" /\ e = NoPte ->
         [st EXCEPT !.m.panic = "copyuvm: page not present"]
    [] OTHER -> CopyFrame(st, e, a, Kalloc(st.m))

Copyuvm(m, s, size) ==
  FoldLeft(LAMBDA st, a : CopyOne(st, s.pte[a], a), Setupkvm(m),
           PageLoop(0, size))

(* uva2ka: only pages that user code may touch.  It reads through what     *)
(* walkpgdir() returns without a test for 0; copyout() is only called for  *)
(* the stack exec() has just allocated, which has a page table.            *)
UserPage(s, a) == a < UPages /\ s.pte[a] # NoPte /\ s.pte[a].u

(* copyout fails at the first page of va .. va+len-1 that is not one. *)
Copyout(s, va, len) ==
  \A a \in (va \div PGSIZE) .. ((va + len - 1) \div PGSIZE) : UserPage(s, a)

(* loaduvm reads the file into pages that are mapped already. *)
Loaduvm(st, g) ==
  LET pages == ToSet(PageLoop(g.vaddr, g.vaddr + g.filesz))
  IN  [st EXCEPT !.ok = g.readable,
                 !.m.page = [f \in {st.s.pte[a].f : a \in pages} |-> "text"]
                            @@ @]

---------------------------------------------------------------------------
(* exec.c *)

(* One program header.  allocuvm runs before the alignment test. *)
Allocated(st, al) == [st EXCEPT !.m = al.m, !.s = al.s, !.sz = al.r]
SegmentIn(st, g) ==
  IF st.sz = 0 \/ g.vaddr % PGSIZE # 0 THEN [st EXCEPT !.ok = FALSE]
  ELSE Loaduvm(st, g)
SegmentTo(st, g, end) ==
  IF g.memsz < g.filesz \/ end < g.vaddr THEN [st EXCEPT !.ok = FALSE]
  ELSE SegmentIn(Allocated(st, Allocuvm(st.m, st.s, st.sz, end)), g)
LoadSegment(st, g) ==
  IF st.ok THEN SegmentTo(st, g, (g.vaddr + g.memsz) % Word) ELSE st

(* Two pages above the program: a guard page, which clearpteu() takes from *)
(* user code, and the stack.                                               *)
Guarded(st, a) ==
  IF st.sz = 0 THEN [st EXCEPT !.ok = FALSE]
  ELSE [st EXCEPT !.s.pte[a].u = FALSE]
StackAt(st, base) ==
  Guarded(Allocated(st, Allocuvm(st.m, st.s, base, base + 2 * PGSIZE)),
          base \div PGSIZE)
LoadStack(st) ==
  IF st.ok THEN StackAt(st, PGSIZE * ((st.sz + PGSIZE - 1) \div PGSIZE))
  ELSE st

(* Each string, then the vector itself (one unit), is pushed below sp. *)
PushArgs(st, argv) ==
  FoldLeft(LAMBDA x, n : [x EXCEPT !.sp = (@ - n) % Word,
                            !.ok = @ /\ Copyout(st.s, (x.sp - n) % Word, n)],
           [ok |-> st.ok, sp |-> st.sz], Append(argv, 1)).ok

(* The end of exec(): bad: frees the image when a step has failed. *)
Complete(st, argv) ==
  IF st.ok /\ PushArgs(st, argv) THEN st
  ELSE [st EXCEPT !.m = Freevm(@, st.s), !.ok = FALSE]
ImageIn(k, prog, argv) ==
  IF ~k.ok THEN [m |-> k.m, s |-> k.s, ok |-> FALSE, sz |-> 0]
  ELSE Complete(LoadStack(FoldLeft(LoadSegment,
                  [m |-> k.m, s |-> k.s, ok |-> TRUE, sz |-> 0],
                  prog.segs)), argv)
Image(m, prog, argv) ==
  IF prog.elf THEN ImageIn(Setupkvm(m), prog, argv)
  ELSE [m |-> m, s |-> NoSpace, ok |-> FALSE, sz |-> 0]

---------------------------------------------------------------------------
Live(p) == as[p] # NoSpace

(* main(): kinit1 and kinit2 free every page, kvmalloc builds the kernel's *)
(* own directory and userinit the first process.                           *)
Boot ==
  LET m0 == [free |-> Frames, page |-> [f \in Frames |-> "junk"],
             panic |-> ""]
      kv == Setupkvm(m0)
      ks == Kalloc(kv.m)
      in == Setupkvm(Take(kv.m, ks, "junk"))
      f  == Kalloc(in.m)
      up == Mappages([in EXCEPT !.m = Take(@, f, "text")], 0, f, TRUE)
  IN  [kpgdir |-> kv.s, kstack |-> ks, m |-> up.m, s |-> up.s]

Init ==
  /\ mem    = Boot.m
  /\ as     = [p \in Procs |-> IF p = InitProc THEN Boot.s ELSE NoSpace]
  /\ sz     = [p \in Procs |-> IF p = InitProc THEN PGSIZE ELSE 0]
  /\ kstack = [p \in Procs |-> IF p = InitProc THEN Boot.kstack ELSE 0]
  /\ ret    = [call |-> "boot", p |-> InitProc, r |-> 0]
  /\ zeroed = {}

(* growproc() computes sz + n as a uint; deallocuvm() returning size 0 is  *)
(* taken for a failure, with the pages already gone and sz not updated.    *)
Growproc(p, n, new) ==
  CASE n > 0 -> Allocuvm(mem, as[p], sz[p], new)
    [] n < 0 -> Deallocuvm(mem, as[p], sz[p], new)
    [] n = 0 -> [m |-> mem, s |-> as[p], r |-> sz[p]]

Sbrk(p, n) ==
  /\ Live(p)
  /\ \E x \in {Growproc(p, n, (sz[p] + n) % Word)} :
       LET bad == n # 0 /\ x.r = 0
       IN  /\ mem' = x.m
           /\ as'  = [as EXCEPT ![p] = x.s]
           /\ sz'  = IF bad THEN sz ELSE [sz EXCEPT ![p] = x.r]
           /\ ret' = [call |-> "sbrk", p |-> p, r |-> IF bad THEN -1 ELSE 0]
           /\ zeroed' = IF bad /\ n < 0 THEN zeroed \cup {p} ELSE zeroed
  /\ UNCHANGED kstack

(* The part of fork() that takes memory: allocproc's stack, then copyuvm. *)
Fork(p, c) ==
  /\ Live(p) /\ ~Live(c)
  /\ \/ /\ Kalloc(mem) = 0
        /\ ret' = [call |-> "fork", p |-> p, r |-> -1]
        /\ UNCHANGED <<mem, as, sz, kstack, zeroed>>
     \/ \E ks \in {Kalloc(mem)} \ {0} :
          \E st \in {Copyuvm(Take(mem, ks, "junk"), as[p], sz[p])} :
            \/ /\ ~st.ok
               /\ mem' = Kfree(st.m, ks)
               /\ ret' = [call |-> "fork", p |-> p, r |-> -1]
               /\ UNCHANGED <<as, sz, kstack, zeroed>>
            \/ /\ st.ok
               /\ mem' = st.m
               /\ as'  = [as EXCEPT ![c] = st.s]
               /\ sz'  = [sz EXCEPT ![c] = sz[p]]
               /\ kstack' = [kstack EXCEPT ![c] = ks]
               /\ zeroed' = IF p \in zeroed THEN zeroed \cup {c} ELSE zeroed
               /\ ret' = [call |-> "fork", p |-> p, r |-> 0]

(* Mutant of Reap: the kernel stack is forgotten. *)
ReapKeepsStack(c) ==
  /\ Live(c) /\ c # InitProc
  /\ mem' = Freevm(mem, as[c])
  /\ as'  = [as EXCEPT ![c] = NoSpace]
  /\ sz'  = [sz EXCEPT ![c] = 0]
  /\ kstack' = [kstack EXCEPT ![c] = 0]
  /\ zeroed' = zeroed \ {c}
  /\ ret' = [call |-> "wait", p |-> c, r |-> 0]

(* wait() frees the memory of a child that has exited. *)
Reap(c) ==
  /\ Live(c) /\ c # InitProc
  /\ mem' = Freevm(Kfree(mem, kstack[c]), as[c])
  /\ as'  = [as EXCEPT ![c] = NoSpace]
  /\ sz'  = [sz EXCEPT ![c] = 0]
  /\ kstack' = [kstack EXCEPT ![c] = 0]
  /\ zeroed' = zeroed \ {c}
  /\ ret' = [call |-> "wait", p |-> c, r |-> 0]

(* Mutant of Exec: the old image is freed before the new one is complete. *)
ExecInPlace(p, prog, argv) ==
  /\ Live(p)
  /\ \E st \in {Image(Freevm(mem, as[p]), prog, argv)} :
       /\ mem' = st.m
       /\ as'  = [as EXCEPT ![p] = IF st.ok THEN st.s ELSE NoSpace]
       /\ sz'  = [sz EXCEPT ![p] = IF st.ok THEN st.sz ELSE 0]
       /\ zeroed' = zeroed \ {p}
       /\ ret' = [call |-> "exec", p |-> p, r |-> IF st.ok THEN 0 ELSE -1]
  /\ UNCHANGED kstack

(* The new image replaces the old one only when everything is in place. *)
Exec(p, prog, argv) ==
  /\ Live(p)
  /\ \E st \in {Image(mem, prog, argv)} :
       \/ /\ st.ok
          /\ mem' = Freevm(st.m, as[p])
          /\ as'  = [as EXCEPT ![p] = st.s]
          /\ sz'  = [sz EXCEPT ![p] = st.sz]
          /\ zeroed' = zeroed \ {p}
          /\ ret' = [call |-> "exec", p |-> p, r |-> 0]
       \/ /\ ~st.ok
          /\ mem' = st.m
          /\ ret' = [call |-> "exec", p |-> p, r |-> -1]
          /\ UNCHANGED <<as, sz, zeroed>>
  /\ UNCHANGED kstack

(* argptr() accepts a pointer i to size bytes, size being a signed int. *)
ArgOk(p, i, size) ==
  size >= 0 /\ i < sz[p] /\ (i + size) % Word <= sz[p]

Halted == mem.panic # "" /\ UNCHANGED vars

Next ==
  \/ Halted
  \/ /\ mem.panic = ""
     /\ \/ \E p \in Procs, n \in Deltas : Sbrk(p, n)
        \/ \E p, c \in Procs : Fork(p, c)
        \/ \E c \in Procs : Reap(c)
        \/ \E p \in Procs, g \in Programs, v \in Argvs : Exec(p, g, v)

Spec == Init /\ [][Next]_vars

---------------------------------------------------------------------------
UserFrames(s) == {s.pte[a].f : a \in DOMAIN s.pte} \ {0}
Tables(s)     == ({s.pt[i] : i \in DOMAIN s.pt} \cup {s.kpt, s.dir}) \ {0}

Owned(p)      == UserFrames(as[p]) \cup Tables(as[p]) \cup ({kstack[p]} \ {0})

(* How often p refers to a page. *)
NumRefs(p) ==
  Cardinality({a \in DOMAIN as[p].pte : as[p].pte[a] # NoPte})
  + Cardinality({i \in DOMAIN as[p].pt : as[p].pt[i] # 0})
  + (IF Live(p) THEN 2 ELSE 0) + (IF kstack[p] # 0 THEN 1 ELSE 0)

(* Sizes stay below KERNBASE, page numbers name pages, and only live       *)
(* processes can have shrunk to size 0 (allocuvm, growproc).               *)
TypeOK ==
  /\ mem.free \subseteq Frames
  /\ mem.page \in [Frames -> {"junk", "zero", "text"}]
  /\ \A p \in Procs : sz[p] \in 0 .. KERNBASE - 1
  /\ \A p \in Procs : kstack[p] \in 0 .. NFrames
  /\ zeroed \subseteq {p \in Procs : Live(p)}

(* Every physical page has exactly one owner at every time: none is lost   *)
(* on an error path of allocuvm(), copyuvm(), setupkvm() or exec(), none   *)
(* is freed while mapped, and no two processes or two addresses share one. *)
OwnedOnce ==
  LET kernel == Tables(Boot.kpgdir)
  IN  /\ mem.free \cup kernel \cup UNION {Owned(p) : p \in Procs} = Frames
      /\ NFrames = Cardinality(mem.free) + Cardinality(kernel)
                   + MapThenSumSet(NumRefs, Procs)

(* A process has mapped exactly the pages below its size, unless an sbrk() *)
(* to size 0 freed them without updating p->sz (growproc).                 *)
MapsItsSize ==
  \A p \in Procs \ zeroed : \A a \in 0 .. UPages - 1 :
    as[p].pte[a] # NoPte <=> a * PGSIZE < sz[p]

(* No page a process can reach holds what its previous owner left: kfree's *)
(* junk is zeroed by allocuvm() or overwritten by copyuvm() and loaduvm(). *)
NoStalePage ==
  \A p \in Procs : \A f \in UserFrames(as[p]) : mem.page[f] # "junk"

(* The kernel's own assertions hold, again but for the sbrk() to size 0,   *)
(* after which copyuvm() does not find the pages below p->sz.              *)
NoPanic ==
  mem.panic # "" =>
    mem.panic = "copyuvm: page not present" /\ zeroed # {}

(* Memory that argptr() accepts, for any pointer and signed length of a    *)
(* system call, lies on mapped pages, so the kernel can use it without     *)
(* faulting; the sum of pointer and length may wrap.                       *)
AcceptedMapped ==
  \A p \in Procs \ zeroed :
    \A i \in 0 .. Word - 1, n \in -2 .. KERNBASE - 1 :
      Live(p) /\ ArgOk(p, i, n) =>
        \A a \in (i \div PGSIZE) .. ((i + n - 1) \div PGSIZE) :
          n > 0 => a < UPages /\ as[p].pte[a] # NoPte

(* A call that fails changes nothing for the process that made it: exec()  *)
(* keeps the old image, and no memory is lost to anybody, except that a    *)
(* failed sbrk() may keep page tables it added to its own directory.       *)
FailureKeeps ==
  [][ret'.r = -1 /\ ret'.p \notin zeroed' =>
       /\ sz' = sz
       /\ \A p \in Procs : as'[p].pte = as[p].pte
       /\ ret'.call # "sbrk" => as' = as /\ mem'.free = mem.free
       /\ mem.free \ mem'.free \subseteq UNION {Tables(as'[p]) : p \in Procs}
    ]_vars

(* An address space is what p->sz says: these pages, without a former      *)
(* owner's data, are mapped and accepted as arguments, and no loop over    *)
(* them meets a page it does not expect (allocuvm, deallocuvm, copyuvm,    *)
(* argptr).                                                                *)
SpacesSound ==
  TypeOK /\ MapsItsSize /\ NoStalePage /\ AcceptedMapped /\ NoPanic
===========================================================================
