-------------------------------- MODULE Heap --------------------------------
(***************************************************************************)
(* malloc() and free() of umalloc.c.  Addresses count Headers from base,   *)
(* which is 0; the break starts above it.  hdr holds the Headers of the    *)
(* blocks there are, free or not: a block that is merged into another      *)
(* loses its own.  Requests are far below 2^31 bytes.                      *)
(***************************************************************************)
EXTENDS Integers, FiniteSets, Functions

CONSTANTS Sizes,     \* bytes that are asked for
          HeaderSize,\* sizeof(Header)
          MinCore,   \* the 4096 of morecore()
          MaxBreak   \* bound: sbrk() fails beyond it

VARIABLES heap,   \* [hdr, freep]
          brk,    \* the break of the process
          used,   \* blocks handed out, with the bytes asked for
          core    \* history: the Headers sbrk() gave to morecore()


base == 0
Null == -1

(* Where free() stops: bp goes between p and p->ptr. *)
RECURSIVE Place(_, _, _)
Place(hdr, p, bp) ==
  IF \/ bp > p /\ bp < hdr[p].ptr
     \/ p >= hdr[p].ptr /\ (bp > p \/ bp < hdr[p].ptr)
  THEN p ELSE Place(hdr, hdr[p].ptr, bp)

Without(hdr, S) == Restrict(hdr, DOMAIN hdr \ S)

JoinsUp(hdr, p, bp) == bp + hdr[bp].size = hdr[p].ptr

(* bp takes in the block above it. *)
Above(hdr, p, bp) ==
  LET nx == hdr[p].ptr
  IN  IF JoinsUp(hdr, p, bp)
      THEN Without([hdr EXCEPT ![bp].size = @ + hdr[nx].size,
                               ![bp].ptr = hdr[nx].ptr], {nx})
      ELSE [hdr EXCEPT ![bp].ptr = nx]

(* p takes in bp, or points to it. *)
Below(hdr, p, bp) ==
  IF p + hdr[p].size = bp
  THEN Without([hdr EXCEPT ![p].size = @ + hdr[bp].size,
                           ![p].ptr = hdr[bp].ptr], {bp})
  ELSE [hdr EXCEPT ![p].ptr = bp]

free(h, bp) ==
  LET p == Place(h.hdr, h.freep, bp)
  IN  [hdr |-> Below(Above(h.hdr, p, bp), p, bp), freep |-> p]

(* The first block that is large enough, and the one before it. *)
RECURSIVE Search(_, _, _)
Search(h, prevp, nunits) ==
  LET p == h.hdr[prevp].ptr
  IN  IF h.hdr[p].size >= nunits THEN <<prevp, p>>
      ELSE IF p = h.freep THEN <<>>
      ELSE Search(h, p, nunits)

Header(ptr, size) == [ptr |-> ptr, size |-> size]
AddHeader(hdr, a, x) ==
  [b \in DOMAIN hdr \cup {a} |-> IF b = a THEN x ELSE hdr[b]]

(* The ptr of a block that is not free means nothing. *)
Exact(h, prevp, p) ==
  [h EXCEPT !.hdr[prevp].ptr = h.hdr[p].ptr, !.freep = prevp,
            !.hdr[p].ptr = base]

(* Mutant of Carve: the block keeps its size. *)
CarveWhole(h, prevp, p, nunits) ==
  LET rest == h.hdr[p].size - nunits
  IN  IF rest = 0 THEN <<p, Exact(h, prevp, p)>>
      ELSE <<p + rest, [hdr |-> AddHeader(h.hdr, p + rest,
                                          Header(base, nunits)),
                        freep |-> prevp]>>

(* The tail of p; its address and the heap without it. *)
Carve(h, prevp, p, nunits) ==
  LET rest == h.hdr[p].size - nunits
  IN  IF rest = 0 THEN <<p, Exact(h, prevp, p)>>
      ELSE <<p + rest,
             [hdr |-> AddHeader([h.hdr EXCEPT ![p].size = rest], p + rest,
                                Header(base, nunits)),
              freep |-> prevp]>>

Units(nbytes) == (nbytes + HeaderSize - 1) \div HeaderSize + 1

Ready == IF heap.freep = Null
         THEN [hdr |-> [a \in {base} |-> Header(base, 0)], freep |-> base]
         ELSE heap

HandOut(h, where, nbytes) ==
  LET r == Carve(h, where[1], where[2], Units(nbytes))
  IN  /\ heap' = r[2]
      /\ used' = AddHeader(used, r[1], nbytes)

(* malloc(): from the list, with more core, or 0 when sbrk() fails. *)
Malloc(nbytes) ==
  LET h     == Ready
      nu    == IF Units(nbytes) < MinCore THEN MinCore ELSE Units(nbytes)
      here  == Search(h, h.freep, Units(nbytes))
      grown == free([h EXCEPT !.hdr = AddHeader(@, brk, Header(base, nu))],
                    brk)
  IN  \/ here # <<>> /\ HandOut(h, here, nbytes) /\ UNCHANGED <<brk, core>>
      \/ /\ here = <<>> /\ brk + nu <= MaxBreak
         /\ brk' = brk + nu
         /\ core' = core \cup (brk .. brk + nu - 1)
         /\ HandOut(grown, Search(grown, grown.freep, Units(nbytes)), nbytes)
      \/ here = <<>> /\ heap' = h /\ UNCHANGED <<brk, used, core>>

Free(bp) ==
  /\ heap' = free(heap, bp)
  /\ used' = Without(used, {bp})
  /\ UNCHANGED <<brk, core>>

(* The program calls sbrk() itself. *)
Sbrk == brk < MaxBreak /\ brk' = brk + 1 /\ UNCHANGED <<heap, used, core>>

HeapInit ==
  /\ heap = [hdr |-> [a \in {base} |-> Header(base, 0)], freep |-> Null]
  /\ brk = 1 /\ used = [b \in {} |-> 0] /\ core = {}

HeapNext == \/ \E n \in Sizes : Malloc(n)
            \/ \E b \in DOMAIN used : Free(b)
            \/ Sbrk

-----------------------------------------------------------------------------
Listed == DOMAIN heap.hdr \ DOMAIN used
NextOf(a) == {b \in Listed : b > a}

(* The free list is a ring through every free block in the order of their  *)
(* addresses, which base begins, and no two blocks on it touch: whatever   *)
(* the order of the free()s, neighbours are merged.                        *)
RingInOrder ==
  heap.freep # Null =>
    /\ heap.freep \in Listed
    /\ \A a \in Listed :
         /\ heap.hdr[a].ptr = IF NextOf(a) = {} THEN base
                              ELSE CHOOSE b \in NextOf(a) :
                                     \A c \in NextOf(a) : b <= c
         /\ a # base => \A b \in NextOf(a) : a + heap.hdr[a].size < b

Extent(a) == a .. a + heap.hdr[a].size - 1

(* The blocks, free or handed out, are exactly the core: none of it is     *)
(* lost, no Header belongs to two blocks, none lies outside of what sbrk() *)
(* gave to morecore().                                                     *)
TilesCore ==
  /\ UNION {Extent(a) : a \in DOMAIN heap.hdr} = core
  /\ \A a, b \in DOMAIN heap.hdr : a # b => Extent(a) \cap Extent(b) = {}
  /\ DOMAIN used \subseteq DOMAIN heap.hdr

(* A block that was handed out holds the bytes asked for beside its        *)
(* Header.                                                                 *)
HoldsRequest ==
  \A b \in DOMAIN used : used[b] <= (heap.hdr[b].size - 1) * HeaderSize
=============================================================================
