-------------------------------- MODULE Text --------------------------------
(***************************************************************************)
(* Functions that compute and change nothing: path elements and names of   *)
(* fs.c over string.c, memmove, printing and reading of numbers, the tests *)
(* of system call arguments (syscall.c), find_next_prime_number (proc.c).  *)
(* Strings are sequences of characters, a buffer's end included as NUL.    *)
(***************************************************************************)
EXTENDS Integers, Sequences, SequencesExt, FiniteSetsExt

CONSTANTS DIRSIZ,    \* length of a name in a directory
          Word,      \* 2^32
          KERNBASE   \* bound of user addresses, Word \div 2

NUL == "nul"
At(s, i) == IF i <= Len(s) THEN s[i] ELSE NUL

-----------------------------------------------------------------------------
(* Paths and names *)

SkipSlashes(s, i) == Min({j \in i .. Len(s) + 1 : At(s, j) # "/"})
ElemEnd(s, i) == Min({j \in i .. Len(s) + 1 : At(s, j) \in {"/", NUL}})

(* What memmove() and the NUL leave of an element in the buffer name. *)
Fill(name, e) ==
  [i \in 1 .. DIRSIZ |-> IF i <= Len(e) THEN e[i]
                         ELSE IF i = Len(e) + 1 THEN NUL ELSE name[i]]

(* Mutant of skipelem: the slashes behind the element stay. *)
skipelemStops(path, name) ==
  LET b == SkipSlashes(path, 1)
      e == ElemEnd(path, b)
  IN  IF b > Len(path) THEN <<>>
      ELSE <<Fill(name, SubSeq(path, b, e - 1)),
             SubSeq(path, e, Len(path))>>

(* The buffer and the rest of the path, or nothing for the 0 it returns. *)
skipelem(path, name) ==
  LET b == SkipSlashes(path, 1)
      e == ElemEnd(path, b)
  IN  IF b > Len(path) THEN <<>>
      ELSE <<Fill(name, SubSeq(path, b, e - 1)),
             SubSeq(path, SkipSlashes(path, e), Len(path))>>

strncpy(t, n) == [i \in 1 .. n |-> At(t, i)]

(* Whether strncmp() returns 0: it stops at a NUL or a difference. *)
strncmp(p, q, n) ==
  \A i \in 1 .. n :
    (\A j \in 1 .. i - 1 : At(p, j) # NUL /\ At(p, j) = At(q, j))
      => At(p, i) = At(q, i)

(* The elements of a path with what is left after each, as namex() sees    *)
(* them: the buffer name is used again and again.                          *)
RECURSIVE Elems(_, _)
Elems(path, name) ==
  LET r == skipelem(path, name)
  IN  IF r = <<>> THEN <<>> ELSE <<r>> \o Elems(r[2], r[1])

Cut(e) == SubSeq(e, 1, Min({DIRSIZ, Len(e)}))
Starts(s) == {i \in DOMAIN s : s[i] # "/" /\ At(<<"/">> \o s, i) = "/"}
Elem(s, i) == SubSeq(s, i, ElemEnd(s, i) - 1)

(* namex() meets the maximal runs of characters between slashes, in order, *)
(* and only behind the last of them is the rest empty, by which            *)
(* nameiparent() knows it.                                                 *)
WalksElements(path, name) ==
  LET r == Elems(path, name)
  IN  /\ Len(r) = Cardinality(Starts(path))
      /\ \A k \in DOMAIN r :
           \E i \in Starts(path) :
             /\ Cardinality({j \in Starts(path) : j <= i}) = k
             /\ strncmp(r[k][1], strncpy(Cut(Elem(path, i)), DIRSIZ), DIRSIZ)
             /\ r[k][2] = <<>> <=> k = Len(r)

(* A name that dirlink() wrote is found by an element of a path exactly if *)
(* the two agree in their first DIRSIZ characters, whatever the buffer     *)
(* held before (namecmp() over skipelem() and strncpy()).                  *)
FindsName(a, b, name) ==
  strncmp(Fill(name, Cut(b)), strncpy(a, DIRSIZ), DIRSIZ)
    <=> Cut(a) = Cut(b)

-----------------------------------------------------------------------------
(* memmove *)

RECURSIVE Forward(_, _, _, _)
Forward(m, d, s, n) ==
  IF n = 0 THEN m ELSE Forward([m EXCEPT ![d] = m[s]], d + 1, s + 1, n - 1)

RECURSIVE Backward(_, _, _, _)
Backward(m, d, s, n) ==
  IF n = 0 THEN m
  ELSE Backward([m EXCEPT ![d + n - 1] = m[s + n - 1]], d, s, n - 1)

memmove(m, d, s, n) ==
  IF s < d /\ s + n > d THEN Backward(m, d, s, n) ELSE Forward(m, d, s, n)

ulibmemmove(m, d, s, n) == Forward(m, d, s, n)

Moved(m, d, s, n) ==
  [i \in DOMAIN m |-> IF i \in d .. d + n - 1 THEN m[s + i - d] ELSE m[i]]

(* memmove() of the kernel copies what was there before, overlap or not;   *)
(* that of ulib.c does when it moves down, as grep uses it, or to a place  *)
(* apart.                                                                  *)
CopiesOld(m, d, s, n) ==
  /\ memmove(m, d, s, n) = Moved(m, d, s, n)
  /\ d <= s \/ d >= s + n => ulibmemmove(m, d, s, n) = Moved(m, d, s, n)

-----------------------------------------------------------------------------
(* Numbers *)

RECURSIVE Digits(_, _)
Digits(x, b) == (IF x < b THEN <<>> ELSE Digits(x \div b, b)) \o <<x % b>>

(* The uint x, of which -xx is taken as a word. *)
Magnitude(xx, sgn) == IF sgn /\ xx < 0 THEN (-xx) % Word ELSE xx % Word

printint(xx, b, sgn) ==
  (IF sgn /\ xx < 0 THEN <<"-">> ELSE <<>>) \o Digits(Magnitude(xx, sgn), b)

ToInt(x) == LET w == x % Word IN IF w >= KERNBASE THEN w - Word ELSE w

(* atoi() adds digit after digit in an int that wraps; it stops at "-". *)
atoi(ds) == FoldLeft(LAMBDA n, c : ToInt(n * 10 + c), 0, ds)

(* A printed number reads back as itself, the smallest int included; in    *)
(* base 16 it is the word that is printed.                                 *)
ReadsBack(x) ==
  LET s == printint(x, 10, TRUE)
      h == printint(x, 16, FALSE)
  IN  /\ x >= 0 => atoi(s) = x
      /\ x < 0 => s[1] = "-" /\ ToInt(-atoi(Tail(s))) = x
      /\ FoldLeft(LAMBDA n, c : n * 16 + c, 0, h) = x % Word

IsPrime(n) == n > 1 /\ \A d \in 2 .. n - 1 : n % d # 0

RECURSIVE NextWithout(_)
NextWithout(n) == IF \E i \in 2 .. n - 1 : n % i = 0 THEN NextWithout(n + 1)
                  ELSE n

find_next_prime_number(n) == NextWithout(n + 1)

(* getnextprime() of a number from 1 on is the least prime above it.  (Of  *)
(* 0 it is 1, and of a negative number the next one.)                      *)
LeastPrimeAbove(n) ==
  n >= 1 => find_next_prime_number(n) =
              CHOOSE p \in n + 1 .. 2 * n : /\ IsPrime(p)
                 /\ \A q \in n + 1 .. p - 1 : ~IsPrime(q)

-----------------------------------------------------------------------------
(* Arguments of system calls: addresses are words, sizes are ints *)

fetchint(addr, sz) == addr < sz /\ (addr + 4) % Word <= sz

argptr(i, size, sz) == size >= 0 /\ i < sz /\ (i + size) % Word <= sz

(* The length of the string at addr of memory whose NULs are given; -1. *)
fetchstr(addr, nuls, sz) ==
  LET e == {j \in nuls : addr <= j /\ j < sz}
  IN  IF addr >= sz \/ e = {} THEN -1 ELSE Min(e) - addr

(* What the tests let through lies below sz as a whole, its last byte      *)
(* included, though the sums are taken modulo 2^32.                        *)
FetchesInside(addr, size, nuls, sz) ==
  /\ fetchint(addr, sz) => addr + 3 < sz
  /\ argptr(addr, size, sz) => \A k \in 0 .. size - 1 : addr + k < sz
  /\ LET n == fetchstr(addr, nuls, sz)
     IN  n >= 0 => addr + n < sz /\ nuls \cap (addr .. addr + n) = {addr + n}
=============================================================================
