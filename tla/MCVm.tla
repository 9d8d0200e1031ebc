------------------------------- MODULE MCVm -------------------------------
(* An instance of Vm for TLC. *)
EXTENDS Vm

Seg(vaddr, memsz, filesz, readable) ==
  [vaddr |-> vaddr, memsz |-> memsz, filesz |-> filesz, readable |-> readable]

(* One page, two segments over two pages, and the ways to be refused: not  *)
(* ELF, a short file, too big, wrapping, filesz > memsz, not aligned.      *)
MCPrograms ==
  {[elf |-> TRUE, segs |-> s] :
     s \in {<<Seg(0, 2, 1, TRUE)>>,
            <<Seg(0, 1, 1, TRUE), Seg(2, 2, 2, TRUE)>>,
            <<Seg(0, 2, 2, TRUE), Seg(0, 4, 4, FALSE)>>,
            <<Seg(0, 2, 2, TRUE), Seg(10, 4, 1, TRUE)>>,
            <<Seg(0, 2, 2, TRUE), Seg(20, 6, 1, TRUE)>>,
            <<Seg(0, 1, 2, TRUE)>>, <<Seg(1, 2, 1, TRUE)>>}}
  \cup {[elf |-> FALSE, segs |-> <<>>]}

MCArgvs == {<<1>>, <<1, 3>>}
MCDeltas == {-9, -4, -1, 0, 1, 4, 12}

(* States that differ only in which physical page plays which part are     *)
(* alike: the view names each page by the first place that refers to it.   *)
(* Comparing vars with itself makes TLC evaluate every part of a state     *)
(* before another worker can read it.                                      *)
SpaceFrames(s) == <<s.dir, s.kpt>> \o [i \in 1 .. NPT |-> s.pt[i - 1]]
                  \o [a \in 1 .. UPages |-> s.pte[a - 1].f]

References ==
  FoldLeft(LAMBDA t, p : t \o <<kstack[p]>> \o SpaceFrames(as[p]),
           SpaceFrames(Boot.kpgdir), SetToSeq(Procs))

View ==
  LET t == References
  IN  <<[i \in DOMAIN t |->
           IF t[i] = 0 THEN <<0, "", FALSE>>
           ELSE <<CHOOSE j \in DOMAIN t :
                    t[j] = t[i] /\ \A k \in 1 .. j - 1 : t[k] # t[i],
                  mem.page[t[i]], t[i] \in mem.free>>],
        [p \in Procs |-> {a \in DOMAIN as[p].pte : as[p].pte[a].u}],
        Cardinality(mem.free), mem.panic, sz, ret, zeroed, vars = vars>>
===========================================================================
