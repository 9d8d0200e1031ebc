--------------------------- MODULE ConsoleProofs ---------------------------
(***************************************************************************)
(* Proofs about the console's input (console.c), for every number of       *)
(* processes, every size of the ring and every width of its indices that   *)
(* is a multiple of the size: readers get what was typed, line by line,    *)
(* and nobody sleeps beside completed input.                               *)
(*                                                                         *)
(* The ring is seen from input.r: Stored characters, the first Completed   *)
(* of which reads may take.  The screen takes no part in this: nothing in  *)
(* consoleintr() or consoleread() depends on it.                           *)
(***************************************************************************)
EXTENDS Console, Lemmas, SequenceTheorems, WellFoundedInduction

Index == 0 .. Word - 1
Chars == Letters \cup {NL, EOF}

Completed == Dist(input.r, input.w)
Stored == Dist(input.r, input.e)

(* The k-th character in the ring, from input.r on. *)
Cell(k) == input.buf[At(input.r + (k - 1))]

(* The fields of input and of the readers have values of their kind. *)
Kinds ==
  /\ input \in [buf : [1 .. INPUT_BUF -> Chars], r : Index, w : Index,
                e : Index]
  /\ rd \in [Procs -> [pc : {"idle", "read", "dozing", "asleep"},
                       left : Nat, target : Nat, killed : BOOLEAN]]

(* Of the ring: it never overflows, a full ring is completed, and the line *)
(* being edited has neither a newline nor an end of file.                  *)
RingInv ==
  /\ Completed <= Stored /\ Stored <= INPUT_BUF
  /\ Stored = INPUT_BUF => Completed = Stored
  /\ \A k \in Completed + 1 .. Stored : Cell(k) \notin {NL, EOF}

(* Of readers: one inside consoleread() still wants something, and sleeps  *)
(* or is about to only when no input is completed.                         *)
ReadInv ==
  \A p \in Procs :
    /\ rd[p].left <= rd[p].target
    /\ rd[p].pc # "idle" => rd[p].left >= 1
    /\ rd[p].pc \in {"dozing", "asleep"} => input.r = input.w

-----------------------------------------------------------------------------
(* Indices *)

(* A set of numbers that is not empty has a least one (the first place     *)
(* where a read stops).                                                    *)
LEMMA NatMin ==
  ASSUME NEW T, T \subseteq Nat, T # {}
  PROVE  \E x \in T : \A y \in T : x <= y
<1> DEFINE R == {s \in Nat \X Nat : s[1] < s[2]}
<1>1. IsWellFoundedOn(R, Nat)
  BY NatLessThanWellFounded DEF OpToRel
<1> HIDE DEF R
<1>2. PICK x \in T : \A y \in T : ~(<<y, x>> \in R)
  BY <1>1, WFMin, Zenon
<1>3. \A y \in T : y < x => <<y, x>> \in R
  BY DEF R
<1>4. \A y \in T : ~(y < x)
  BY <1>2, <1>3, Zenon
<1>5. \A y \in T : y \in Int /\ x \in Int
  OBVIOUS
<1>6. \A y \in T : x <= y
  BY <1>4, <1>5
<1> QED
  BY <1>6

(* Wrap() once past the width, or once below 0 (uint arithmetic). *)
LEMMA WrapIs ==
  ASSUME NEW i \in Int, -Word <= i, i < 2 * Word
  PROVE  /\ Wrap(i) = IF i < 0 THEN i + Word
                      ELSE IF i < Word THEN i ELSE i - Word
         /\ Wrap(i) \in Index
<1>0. Word \in Nat \ {0}
  BY ConsoleAssumption
<1>1. CASE i < 0
  <2>1. ((Word * (-1)) + (i + Word)) % Word = i + Word
    BY <1>0, <1>1, ModUnique
  <2> QED
    BY <1>0, <1>1, <2>1 DEF Wrap, Index
<1>2. CASE 0 <= i /\ i < Word
  <2>1. ((Word * 0) + i) % Word = i
    BY <1>0, <1>2, ModUnique
  <2> QED
    BY <1>0, <1>2, <2>1 DEF Wrap, Index
<1>3. CASE Word <= i
  <2>1. ((Word * 1) + (i - Word)) % Word = i - Word
    BY <1>0, <1>3, ModUnique
  <2> QED
    BY <1>0, <1>3, <2>1 DEF Wrap, Index
<1> QED
  BY <1>0, <1>1, <1>2, <1>3

(* The difference of two indices as uints (input.e - input.r). *)
LEMMA DistIs ==
  ASSUME NEW i \in Index, NEW j \in Index
  PROVE  /\ Dist(i, j) = IF j >= i THEN j - i ELSE (j - i) + Word
         /\ Dist(i, j) \in 0 .. Word - 1
<1>0. Word \in Nat \ {0}
  BY ConsoleAssumption
<1>1. j - i \in Int /\ -Word <= j - i /\ j - i < Word
  BY <1>0 DEF Index
<1> QED
  BY <1>0, <1>1, WrapIs DEF Dist, Index

(* An empty stretch of the ring. *)
LEMMA DistSelf == ASSUME NEW i \in Index PROVE Dist(i, i) = 0
<1>1. Word \in Nat /\ i \in 0 .. Word - 1
  BY ConsoleAssumption DEF Index
<1>2. Dist(i, i) = IF i >= i THEN i - i ELSE (i - i) + Word
  BY DistIs
<1> QED
  BY <1>1, <1>2

(* Three indices in the order of a ring. *)
LEMMA DistSplit ==
  ASSUME NEW r \in Index, NEW w \in Index, NEW e \in Index,
         Dist(r, w) <= Dist(r, e)
  PROVE  Dist(w, e) = Dist(r, e) - Dist(r, w)
<1>0. Word \in Nat /\ r \in 0 .. Word - 1 /\ w \in 0 .. Word - 1
      /\ e \in 0 .. Word - 1
  BY ConsoleAssumption DEF Index
<1>1. /\ Dist(r, w) = IF w >= r THEN w - r ELSE (w - r) + Word
      /\ Dist(r, e) = IF e >= r THEN e - r ELSE (e - r) + Word
      /\ Dist(w, e) = IF e >= w THEN e - w ELSE (e - w) + Word
  BY DistIs
<1> QED
  BY <1>0, <1>1

(* input.e goes back over k characters. *)
LEMMA DistBack ==
  ASSUME NEW r \in Index, NEW e \in Index, NEW k \in 0 .. Dist(r, e)
  PROVE  Wrap(e - k) \in Index /\ Dist(r, Wrap(e - k)) = Dist(r, e) - k
<1>0. Word \in Nat /\ Dist(r, e) \in 0 .. Word - 1 /\ k \in Int
  BY ConsoleAssumption, DistIs
<1>1. e - k \in Int /\ -Word <= e - k /\ e - k < 2 * Word
  BY <1>0 DEF Index
<1>2. Wrap(e - k) = IF e - k < 0 THEN (e - k) + Word ELSE e - k
  BY <1>0, <1>1, WrapIs DEF Index
<1>3. Wrap(e - k) \in Index
  BY <1>1, WrapIs
<1> DEFINE x == Wrap(e - k)
<1>4. /\ Dist(r, e) = IF e >= r THEN e - r ELSE (e - r) + Word
      /\ Dist(r, x) = IF x >= r THEN x - r ELSE (x - r) + Word
  BY <1>3, DistIs
<1> HIDE DEF x
<1>5. Dist(r, x) = Dist(r, e) - k
  BY <1>0, <1>2, <1>4 DEF Index, x
<1> QED
  BY <1>3, <1>5 DEF x

(* input.e goes over one more. *)
LEMMA DistNext ==
  ASSUME NEW r \in Index, NEW e \in Index, Dist(r, e) < INPUT_BUF
  PROVE  Wrap(e + 1) \in Index /\ Dist(r, Wrap(e + 1)) = Dist(r, e) + 1
<1>0. Word \in Nat /\ INPUT_BUF \in Nat /\ Word > INPUT_BUF
      /\ Dist(r, e) \in 0 .. Word - 1
  BY ConsoleAssumption, DistIs
<1>1. e + 1 \in Int /\ -Word <= e + 1 /\ e + 1 < 2 * Word
  BY <1>0 DEF Index
<1>2. Wrap(e + 1) = IF e + 1 < Word THEN e + 1 ELSE (e + 1) - Word
  BY <1>0, <1>1, WrapIs DEF Index
<1>3. Wrap(e + 1) \in Index
  BY <1>1, WrapIs
<1> DEFINE x == Wrap(e + 1)
<1>4. /\ Dist(r, e) = IF e >= r THEN e - r ELSE (e - r) + Word
      /\ Dist(r, x) = IF x >= r THEN x - r ELSE (x - r) + Word
  BY <1>3, DistIs
<1> HIDE DEF x
<1>5. Dist(r, x) = Dist(r, e) + 1
  BY <1>0, <1>2, <1>4 DEF Index, x
<1> QED
  BY <1>3, <1>5 DEF x

(* input.r goes over k characters. *)
LEMMA DistFront ==
  ASSUME NEW r \in Index, NEW x \in Index, NEW k \in 0 .. Dist(r, x)
  PROVE  Wrap(r + k) \in Index /\ Dist(Wrap(r + k), x) = Dist(r, x) - k
<1>0. Word \in Nat /\ Dist(r, x) \in 0 .. Word - 1 /\ k \in Int
  BY ConsoleAssumption, DistIs
<1>1. r + k \in Int /\ -Word <= r + k /\ r + k < 2 * Word
  BY <1>0 DEF Index
<1>2. Wrap(r + k) = IF r + k < Word THEN r + k ELSE (r + k) - Word
  BY <1>0, <1>1, WrapIs DEF Index
<1>3. Wrap(r + k) \in Index
  BY <1>1, WrapIs
<1> DEFINE y == Wrap(r + k)
<1>4. /\ Dist(r, x) = IF x >= r THEN x - r ELSE (x - r) + Word
      /\ Dist(y, x) = IF x >= y THEN x - y ELSE (x - y) + Word
  BY <1>3, DistIs
<1> HIDE DEF y
<1>5. Dist(y, x) = Dist(r, x) - k
  BY <1>0, <1>2, <1>4 DEF Index, y
<1> QED
  BY <1>3, <1>5 DEF y

(* The test for a full ring (input.e == input.r+INPUT_BUF). *)
LEMMA DistFull ==
  ASSUME NEW r \in Index, NEW e \in Index
  PROVE  e = Wrap(r + INPUT_BUF) <=> Dist(r, e) = INPUT_BUF
<1>0. Word \in Nat /\ INPUT_BUF \in Nat /\ Word > INPUT_BUF
  BY ConsoleAssumption
<1>1. r + INPUT_BUF \in Int /\ -Word <= r + INPUT_BUF
      /\ r + INPUT_BUF < 2 * Word
  BY <1>0 DEF Index
<1>2. Wrap(r + INPUT_BUF) = IF r + INPUT_BUF < Word THEN r + INPUT_BUF
                            ELSE (r + INPUT_BUF) - Word
  BY <1>0, <1>1, WrapIs DEF Index
<1>3. Dist(r, e) = IF e >= r THEN e - r ELSE (e - r) + Word
  BY DistIs
<1> QED
  BY <1>0, <1>2, <1>3 DEF Index

(* Every index has a cell (input.buf[i % INPUT_BUF]). *)
LEMMA AtRange == ASSUME NEW i \in Int PROVE At(i) \in 1 .. INPUT_BUF
<1>1. INPUT_BUF \in Nat \ {0}
  BY ConsoleAssumption
<1>2. i % INPUT_BUF \in 0 .. INPUT_BUF - 1
  BY <1>1, ModRange
<1> QED
  BY <1>1, <1>2 DEF At

(* The cell of an index is found from another one, wherever they wrap. *)
LEMMA AtFrom ==
  ASSUME NEW r \in Index, NEW x \in Index, NEW m \in Int
  PROVE  At(x + m) = At(r + (Dist(r, x) + m))
<1>0. /\ INPUT_BUF \in Nat \ {0} /\ Word \in Nat /\ Word \in Int
      /\ Word % INPUT_BUF = 0
  BY ConsoleAssumption
<1>1. CASE x >= r
  <2>1. x + m = r + (Dist(r, x) + m)
    BY <1>0, <1>1, DistIs DEF Index
  <2> QED
    BY <2>1
<1>2. CASE x < r
  <2>1. (x + m) + Word = r + (Dist(r, x) + m) /\ x + m \in Int
    BY <1>0, <1>2, DistIs DEF Index
  <2>2. ((x + m) + Word) % INPUT_BUF = (x + m) % INPUT_BUF
    BY <1>0, <2>1, ModShift, Zenon
  <2> QED
    BY <2>1, <2>2 DEF At
<1> QED
  BY <1>1, <1>2 DEF Index

(* Wrapping an index keeps its cell. *)
LEMMA AtWrap ==
  ASSUME NEW r \in Index, NEW k \in 0 .. Word, NEW m \in Int
  PROVE  At(Wrap(r + k) + m) = At(r + (k + m))
<1>0. /\ INPUT_BUF \in Nat \ {0} /\ Word \in Nat /\ Word \in Int
      /\ Word % INPUT_BUF = 0
  BY ConsoleAssumption
<1>1. r + k \in Int /\ -Word <= r + k /\ r + k < 2 * Word /\ r + k >= 0
  BY <1>0 DEF Index
<1>2. CASE r + k < Word
  <2>1. Wrap(r + k) + m = r + (k + m)
    BY <1>0, <1>1, <1>2, WrapIs DEF Index
  <2> QED
    BY <2>1
<1>3. CASE r + k >= Word
  <2>1. (Wrap(r + k) + m) + Word = r + (k + m) /\ Wrap(r + k) + m \in Int
    BY <1>0, <1>1, <1>3, WrapIs DEF Index
  <2>2. ((Wrap(r + k) + m) + Word) % INPUT_BUF = (Wrap(r + k) + m) % INPUT_BUF
    BY <1>0, <2>1, ModShift, Zenon
  <2> QED
    BY <2>1, <2>2 DEF At
<1> QED
  BY <1>0, <1>1, <1>2, <1>3

(* Fewer than INPUT_BUF characters have cells of their own. *)
LEMMA AtApart ==
  ASSUME NEW i \in Int, NEW a \in Int, NEW b \in Int, a < b,
         b - a < INPUT_BUF
  PROVE  At(i + a) # At(i + b)
<1>0. INPUT_BUF \in Nat \ {0}
  BY ConsoleAssumption
<1>1. (i + a) % INPUT_BUF # (i + b) % INPUT_BUF
  BY <1>0, ModApart
<1>2. (i + a) % INPUT_BUF \in Int /\ (i + b) % INPUT_BUF \in Int
  BY <1>0, ModRange
<1> QED
  BY <1>1, <1>2 DEF At

-----------------------------------------------------------------------------
(* The ring *)

Ends == {NL, EOF}
Inputs == [buf : [1 .. INPUT_BUF -> Chars], r : Index, w : Index, e : Index]

(* What is in the ring, in the order it was typed: the completed input and *)
(* the line after it (input.r, input.w, input.e).                          *)
LEMMA Views ==
  Kinds /\ RingInv =>
    /\ Completed \in Nat /\ Stored \in Nat
    /\ \A k \in Int : Cell(k) \in Chars
    /\ Dist(input.w, input.e) = Stored - Completed
    /\ Line = [k \in 1 .. Stored - Completed |-> Cell(Completed + k)]
    /\ Ready = [k \in 1 .. Completed |-> Cell(k)]
<1> SUFFICES ASSUME Kinds, RingInv
             PROVE  /\ Completed \in Nat /\ Stored \in Nat
                    /\ \A k \in Int : Cell(k) \in Chars
                    /\ Dist(input.w, input.e) = Stored - Completed
                    /\ Line = [k \in 1 .. Stored - Completed |->
                                 Cell(Completed + k)]
                    /\ Ready = [k \in 1 .. Completed |-> Cell(k)]
  OBVIOUS
<1>1. /\ input.r \in Index /\ input.w \in Index /\ input.e \in Index
      /\ input.buf \in [1 .. INPUT_BUF -> Chars]
  BY DEF Kinds
<1>2. Word \in Nat /\ input.r \in Int /\ input.w \in Int
  BY <1>1, ConsoleAssumption DEF Index
<1>3. Completed \in Nat /\ Stored \in Nat
  <2>1. Completed \in 0 .. Word - 1 /\ Stored \in 0 .. Word - 1
    BY <1>1, DistIs DEF Completed, Stored
  <2> QED
    BY <1>2, <2>1
<1>4. \A k \in Int : Cell(k) \in Chars
  <2> TAKE k \in Int
  <2>1. input.r + (k - 1) \in Int
    BY <1>1, <1>2
  <2> QED
    BY <1>1, <2>1, AtRange, Zenon DEF Cell
<1>5. Dist(input.w, input.e) = Stored - Completed
  BY <1>1, DistSplit DEF RingInv, Completed, Stored
<1>6. \A k \in Int : input.buf[At(input.w + (k - 1))] = Cell(Completed + k)
  <2> TAKE k \in Int
  <2>1. k - 1 \in Int /\ Completed + (k - 1) = (Completed + k) - 1
    BY <1>3
  <2>2. At(input.w + (k - 1)) = At(input.r + (Completed + (k - 1)))
    BY <1>1, <2>1, AtFrom DEF Completed
  <2> QED
    BY <2>1, <2>2 DEF Cell
<1>7. Line = [k \in 1 .. Stored - Completed |-> Cell(Completed + k)]
  <2>1. \A k \in 1 .. Stored - Completed :
          input.buf[At(input.w + (k - 1))] = Cell(Completed + k)
    BY <1>3, <1>6
  <2> QED
    BY <1>5, <2>1 DEF Line, Span
<1>8. Ready = [k \in 1 .. Completed |-> Cell(k)]
  BY DEF Ready, Span, Completed, Cell
<1> QED
  BY <1>3, <1>4, <1>5, <1>7, <1>8

(* Backspace and ^U take characters off the end of the line. *)
LEMMA Erased ==
  ASSUME Kinds, RingInv, NEW k \in 0 .. Stored - Completed,
         input' = [input EXCEPT !.e = Wrap(input.e - k)]
  PROVE  /\ input' \in Inputs /\ RingInv'
         /\ input'.r = input.r /\ input'.w = input.w
         /\ Completed' = Completed /\ Stored' = Stored - k
         /\ \A j \in Int : Cell(j)' = Cell(j)
<1>1. /\ input.r \in Index /\ input.w \in Index /\ input.e \in Index
  BY DEF Kinds
<1>2. Completed \in Nat /\ Stored \in Nat /\ k \in 0 .. Dist(input.r, input.e)
  BY Views DEF Stored
<1>3. /\ Wrap(input.e - k) \in Index
      /\ Dist(input.r, Wrap(input.e - k)) = Stored - k
  BY <1>1, <1>2, DistBack DEF Stored
<1>4. /\ input'.r = input.r /\ input'.w = input.w /\ input'.buf = input.buf
      /\ input'.e = Wrap(input.e - k) /\ input' \in Inputs
  BY <1>3 DEF Kinds, Inputs
<1>5. Completed' = Completed /\ Stored' = Stored - k
  BY <1>3, <1>4 DEF Completed, Stored
<1>6. \A j \in Int : Cell(j)' = Cell(j)
  BY <1>4 DEF Cell
<1>7. INPUT_BUF \in Nat
  BY ConsoleAssumption
<1>8. RingInv'
  <2>1. Completed' <= Stored' /\ Stored' <= INPUT_BUF
    BY <1>2, <1>5, <1>7 DEF RingInv
  <2>2. Stored' = INPUT_BUF => Completed' = Stored'
    BY <1>2, <1>5, <1>7 DEF RingInv
  <2>3. ASSUME NEW j \in Completed' + 1 .. Stored' PROVE Cell(j)' \notin Ends
    <3>1. j \in Completed + 1 .. Stored /\ j \in Int
      BY <1>2, <1>5
    <3> QED
      BY <1>6, <3>1 DEF RingInv, Ends
  <2> QED
    BY <2>1, <2>2, <2>3 DEF RingInv, Ends
<1> QED
  BY <1>4, <1>5, <1>6, <1>8

(* A read takes characters from the front of the completed input. *)
LEMMA Advanced ==
  ASSUME Kinds, RingInv, NEW k \in 0 .. Completed, Advance(k)
  PROVE  /\ input' \in Inputs /\ RingInv' /\ input'.w = input.w
         /\ Completed' = Completed - k /\ Stored' = Stored - k
         /\ \A j \in Int : Cell(j)' = Cell(k + j)
         /\ k = 0 => input'.r = input.r
         /\ k = Completed => input'.r = input'.w
<1>1. /\ input.r \in Index /\ input.w \in Index /\ input.e \in Index
  BY DEF Kinds
<1>2. /\ Completed \in 0 .. Word - 1 /\ Stored \in 0 .. Word - 1
      /\ Completed <= Stored /\ Word \in Nat
  BY <1>1, DistIs, ConsoleAssumption DEF Stored, Completed, RingInv
<1>3. /\ Wrap(input.r + k) \in Index
      /\ Dist(Wrap(input.r + k), input.w) = Completed - k
      /\ Dist(Wrap(input.r + k), input.e) = Stored - k
  <2>1. k \in 0 .. Dist(input.r, input.w) /\ k \in 0 .. Dist(input.r, input.e)
    BY <1>2 DEF Stored, Completed
  <2> QED
    BY <1>1, <2>1, DistFront DEF Stored, Completed
<1>4. /\ input'.w = input.w /\ input'.e = input.e /\ input'.buf = input.buf
      /\ input'.r = Wrap(input.r + k) /\ input' \in Inputs
  BY <1>3 DEF Kinds, Inputs, Advance
<1>5. Completed' = Completed - k /\ Stored' = Stored - k
  BY <1>3, <1>4 DEF Completed, Stored
<1>6. \A j \in Int : Cell(j)' = Cell(k + j)
  <2> TAKE j \in Int
  <2>1. k \in 0 .. Word /\ j - 1 \in Int /\ k + (j - 1) = (k + j) - 1
    BY <1>2
  <2>2. At(Wrap(input.r + k) + (j - 1)) = At(input.r + (k + (j - 1)))
    BY <1>1, <2>1, AtWrap
  <2> QED
    BY <1>4, <2>1, <2>2 DEF Cell
<1>7. INPUT_BUF \in Nat
  BY ConsoleAssumption
<1>8. RingInv'
  <2>1. Completed' <= Stored' /\ Stored' <= INPUT_BUF
    BY <1>2, <1>5, <1>7 DEF RingInv
  <2>2. Stored' = INPUT_BUF => Completed' = Stored'
    BY <1>2, <1>5, <1>7 DEF RingInv
  <2>3. ASSUME NEW j \in Completed' + 1 .. Stored' PROVE Cell(j)' \notin Ends
    <3>1. k + j \in Completed + 1 .. Stored /\ j \in Int
      BY <1>2, <1>5
    <3> QED
      BY <1>6, <3>1 DEF RingInv, Ends
  <2> QED
    BY <2>1, <2>2, <2>3 DEF RingInv, Ends
<1>9. k = 0 => input'.r = input.r
  <2>1. input.r + 0 \in Int /\ -Word <= input.r + 0 /\ input.r + 0 < 2 * Word
        /\ 0 <= input.r + 0 /\ input.r + 0 < Word /\ input.r + 0 = input.r
    BY <1>1, <1>2 DEF Index
  <2> QED
    BY <1>4, <2>1, WrapIs
<1>10. k = Completed => input'.r = input'.w
  <2> SUFFICES ASSUME Completed' = 0 PROVE input'.r = input'.w
    BY <1>2, <1>5
  <2>1. input'.r \in Index /\ input'.w \in Index
    BY <1>4 DEF Inputs
  <2>2. 0 = IF input'.w >= input'.r THEN input'.w - input'.r
            ELSE (input'.w - input'.r) + Word
    BY <2>1, DistIs DEF Completed
  <2> QED
    BY <1>2, <2>1, <2>2 DEF Index
<1> QED
  BY <1>4, <1>5, <1>6, <1>8, <1>9, <1>10

(* A character is stored, and completes the input if it ends a line or     *)
(* fills the ring (consoleintr's default case).                            *)
LEMMA Added ==
  ASSUME Kinds, RingInv, NEW c \in Chars, Store(c)
  PROVE  /\ input' \in Inputs /\ RingInv' /\ input'.r = input.r
         /\ Stored < INPUT_BUF /\ Stored' = Stored + 1
         /\ \A j \in 1 .. Stored : Cell(j)' = Cell(j)
         /\ \A j \in Nat : j = Stored + 1 => Cell(j)' = c
         /\ IF c \in Ends \/ Stored + 1 = INPUT_BUF
            THEN Completed' = Stored + 1 /\ rd' = Wakeup(rd)
            ELSE /\ Completed' = Completed /\ input'.w = input.w
                 /\ UNCHANGED rd
<1> DEFINE in == [input EXCEPT !.buf[At(input.e)] = c,
                               !.e = Wrap(input.e + 1)]
<1>1. /\ input.r \in Index /\ input.w \in Index /\ input.e \in Index
      /\ input.buf \in [1 .. INPUT_BUF -> Chars]
  BY DEF Kinds
<1>2. /\ INPUT_BUF \in Nat /\ Word \in Nat
      /\ input.r \in Int /\ input.e \in Int
      /\ Completed \in Nat /\ Stored \in Nat /\ Stored < INPUT_BUF
  BY <1>1, Views, ConsoleAssumption DEF Store, Full, Stored, Index
<1>3. /\ Wrap(input.e + 1) \in Index
      /\ Dist(input.r, Wrap(input.e + 1)) = Stored + 1
  BY <1>1, <1>2, DistNext DEF Stored
<1>4. At(input.e) \in 1 .. INPUT_BUF
  BY <1>1, <1>2, AtRange, Zenon
<1>5. /\ in.r = input.r /\ in.w = input.w /\ in.e = Wrap(input.e + 1)
      /\ in.buf = [input.buf EXCEPT ![At(input.e)] = c]
      /\ in.buf \in [1 .. INPUT_BUF -> Chars] /\ in \in Inputs
  BY <1>1, <1>3, <1>4, Zenon DEF Kinds, Inputs
<1>6. Commits(in, c) <=> c \in Ends \/ Stored + 1 = INPUT_BUF
  <2>1. in.e = Wrap(in.r + INPUT_BUF) <=> Dist(in.r, in.e) = INPUT_BUF
    BY <1>1, <1>3, <1>5, DistFull
  <2> QED
    BY <1>3, <1>5, <2>1 DEF Commits, Ends
<1>7. IF Commits(in, c)
      THEN input' = [in EXCEPT !.w = in.e] /\ rd' = Wakeup(rd)
      ELSE input' = in /\ UNCHANGED rd
  BY DEF Store
<1>8. /\ input' \in Inputs /\ input'.r = input.r
      /\ input'.e = Wrap(input.e + 1) /\ input'.buf = in.buf
      /\ input'.w = IF Commits(in, c) THEN Wrap(input.e + 1) ELSE input.w
  <2> HIDE DEF in
  <2> QED
    BY <1>3, <1>5, <1>7 DEF Inputs
<1>9. Stored' = Stored + 1
  BY <1>3, <1>8 DEF Stored
<1>10. /\ Commits(in, c) => Completed' = Stored + 1
       /\ ~Commits(in, c) => Completed' = Completed
  BY <1>3, <1>8 DEF Completed
<1>11. At(input.e) = At(input.r + Stored)
  <2>1. At(input.e + 0) = At(input.r + (Stored + 0))
    BY <1>1, AtFrom DEF Stored
  <2>2. input.e + 0 = input.e /\ Stored + 0 = Stored
    BY <1>1, <1>2
  <2> QED
    BY <2>1, <2>2
<1>12. ASSUME NEW j \in 1 .. Stored PROVE Cell(j)' = Cell(j)
  <2>1. /\ j - 1 \in Int /\ j - 1 < Stored /\ Stored - (j - 1) < INPUT_BUF
        /\ Stored \in Int /\ input.r + (j - 1) \in Int
    BY <1>2
  <2>2. At(input.r + (j - 1)) # At(input.r + Stored)
    BY <1>2, <2>1, AtApart, Zenon
  <2>3. At(input.r + (j - 1)) \in 1 .. INPUT_BUF
    BY <2>1, AtRange
  <2>4. in.buf[At(input.r + (j - 1))] = input.buf[At(input.r + (j - 1))]
    BY <1>1, <1>5, <1>11, <2>2, <2>3
  <2> QED
    BY <1>8, <2>4 DEF Cell
<1>13. ASSUME NEW j \in Nat, j = Stored + 1 PROVE Cell(j)' = c
  <2>1. j - 1 = Stored
    BY <1>2, <1>13
  <2>2. in.buf[At(input.e)] = c
    BY <1>1, <1>4, <1>5, Zenon
  <2> QED
    BY <1>8, <1>11, <2>1, <2>2 DEF Cell
<1> HIDE DEF in
<1>14. RingInv'
  <2>1. Completed' <= Stored' /\ Stored' <= INPUT_BUF
    BY <1>2, <1>9, <1>10 DEF RingInv
  <2>2. Stored' = INPUT_BUF => Completed' = Stored'
    BY <1>2, <1>6, <1>9, <1>10
  <2>3. ASSUME NEW j \in Completed' + 1 .. Stored' PROVE Cell(j)' \notin Ends
    <3>1. ~Commits(in, c) /\ j \in Completed + 1 .. Stored + 1
      BY <1>2, <1>9, <1>10
    <3>2. CASE j = Stored + 1
      BY <1>2, <1>6, <1>13, <3>1, <3>2
    <3>3. CASE j # Stored + 1
      <4>1. j \in Completed + 1 .. Stored /\ j \in 1 .. Stored
        BY <1>2, <3>1, <3>3
      <4> QED
        BY <1>12, <4>1 DEF RingInv, Ends
    <3> QED
      BY <3>2, <3>3
  <2> QED
    BY <2>1, <2>2, <2>3 DEF RingInv, Ends
<1> QED
  BY <1>2, <1>6, <1>7, <1>8, <1>9, <1>10, <1>12, <1>13, <1>14

-----------------------------------------------------------------------------
(* What the loops of console.c find in the ring *)

(* ^U goes back to input.w: the line has no newline to stop at. *)
LEMMA KilledIs == Kinds /\ RingInv => Killed(input) = Stored - Completed
<1> SUFFICES ASSUME Kinds, RingInv PROVE Killed(input) = Stored - Completed
  OBVIOUS
<1> DEFINE d == Stored - Completed
           T == {k \in 0 .. d : \A j \in 1 .. k :
                                  input.buf[At(input.e - j)] # NL}
<1>1. Completed \in Nat /\ Stored \in Nat /\ Dist(input.w, input.e) = d
  BY Views
<1>2. d \in Nat
  BY <1>1 DEF RingInv
<1>3. Killed(input) = Max(T)
  BY <1>1 DEF Killed
<1>4. ASSUME NEW j \in 1 .. d PROVE input.buf[At(input.e - j)] # NL
  <2>1. input.r \in Index /\ input.e \in Index /\ input.e \in Int /\ -j \in Int
        /\ input.e - j = input.e + (-j)
        /\ Stored + (-j) = ((Stored - j) + 1) - 1
    BY <1>1, <1>2, ConsoleAssumption DEF Kinds, Index
  <2>2. At(input.e + (-j)) = At(input.r + (Stored + (-j)))
    BY <2>1, AtFrom DEF Stored
  <2>3. input.buf[At(input.e - j)] = Cell((Stored - j) + 1)
    BY <2>1, <2>2 DEF Cell
  <2>4. (Stored - j) + 1 \in Completed + 1 .. Stored
    BY <1>1, <1>2
  <2> QED
    BY <2>3, <2>4 DEF RingInv
<1>5. d \in T /\ \A k \in T : k \in Int /\ d >= k
  BY <1>2, <1>4
<1> HIDE DEF T, d
<1>6. Max(T) = d
  <2>1. Max(T) \in T /\ Max(T) >= d
    BY <1>5 DEF Max
  <2>2. Max(T) \in Int /\ d >= Max(T)
    BY <1>5, <2>1
  <2> QED
    BY <1>2, <2>1, <2>2
<1> QED
  BY <1>3, <1>6 DEF d

(* The lesser of what is wanted and what there is. *)
LEMMA MinOfTwo ==
  ASSUME NEW a \in Int, NEW b \in Int
  PROVE  Min({a, b}) = IF a <= b THEN a ELSE b
<1> DEFINE m == IF a <= b THEN a ELSE b
<1>1. m \in {a, b} /\ \A y \in {a, b} : m <= y
  OBVIOUS
<1>2. Min({a, b}) \in {a, b} /\ \A y \in {a, b} : Min({a, b}) <= y
  BY <1>1 DEF Min
<1> QED
  BY <1>1, <1>2

(* Stop(n) is the first end of line or of file that a read of n bytes      *)
(* meets, if there is one.                                                 *)
LEMMA StopIs ==
  ASSUME Kinds, RingInv, NEW n \in Nat
  PROVE  /\ Stop(n) \in 0 .. Completed /\ Stop(n) <= n
         /\ Stop(n) # 0 =>
              /\ Cell(Stop(n)) \in Ends
              /\ \A j \in 1 .. Stop(n) - 1 : Cell(j) \notin Ends
         /\ Stop(n) = 0 =>
              \A j \in 1 .. Completed : j <= n => Cell(j) \notin Ends
<1> DEFINE m == Min({n, Completed})
           S == {j \in 1 .. m : Cell(j) \in Ends}
<1>1. Completed \in Nat /\ input.r \in Int
  BY Views, ConsoleAssumption DEF Kinds, Index
<1>2. m = IF n <= Completed THEN n ELSE Completed
  BY <1>1, MinOfTwo
<1> HIDE DEF m
<1>3. m \in Nat /\ m <= n /\ m <= Completed
  BY <1>1, <1>2
<1>5. Stop(n) = IF S = {} THEN 0 ELSE Min(S)
  BY DEF Stop, m, Completed, Cell, Ends
<1>6. CASE S = {}
  <2>1. Stop(n) = 0
    BY <1>5, <1>6
  <2>2. \A j \in 1 .. m : Cell(j) \notin Ends
    BY <1>6
  <2>3. ASSUME NEW j \in 1 .. Completed, j <= n PROVE j \in 1 .. m
    BY <1>1, <1>2, <2>3
  <2> QED
    BY <1>1, <2>1, <2>2, <2>3
<1>7. CASE S # {}
  <2>1. S \subseteq Nat
    BY <1>3
  <2>2. \E x \in S : \A y \in S : x <= y
    BY <1>7, <2>1, NatMin, Zenon
  <2>3. Min(S) \in S /\ \A y \in S : Min(S) <= y
    BY <2>2 DEF Min
  <2>4. Stop(n) \in S /\ \A y \in S : Stop(n) <= y
    BY <1>5, <1>7, <2>3
  <2>5. Stop(n) \in 1 .. m /\ Cell(Stop(n)) \in Ends
    BY <2>4
  <2>6. ASSUME NEW j \in 1 .. Stop(n) - 1 PROVE Cell(j) \notin Ends
    <3>1. j \in 1 .. m /\ ~(Stop(n) <= j)
      BY <1>3, <2>5
    <3> QED
      BY <2>4, <3>1
  <2> QED
    BY <1>1, <1>3, <2>5, <2>6
<1> QED
  BY <1>6, <1>7

(* A read that returns takes at most one line, and an end of file only     *)
(* when it has nothing else ("Save ^D for next time").                     *)
LEMMA AdvancesIs ==
  ASSUME Kinds, RingInv, ReadInv, NEW p \in Procs, rd[p].pc = "read",
         Stop(rd[p].left) # 0 \/ rd[p].left <= Completed
  PROVE  /\ Advances(p) \in 0 .. Completed
         /\ \A j \in 1 .. Advances(p) - 1 : Cell(j) \notin Ends
         /\ Advances(p) > 0 /\ Cell(Advances(p)) = EOF =>
              rd[p].left = rd[p].target /\ Advances(p) = 1
<1> DEFINE n == rd[p].left
           s == Stop(n)
<1>1. /\ n \in Nat /\ rd[p].target \in Nat /\ n <= rd[p].target /\ n >= 1
      /\ Completed \in Nat /\ input.r \in Int
  BY Views, ConsoleAssumption DEF Kinds, ReadInv, Index
<1>2. /\ s \in 0 .. Completed /\ s <= n
      /\ s # 0 => Cell(s) \in Ends /\ \A j \in 1 .. s - 1 : Cell(j) \notin Ends
      /\ s = 0 => \A j \in 1 .. Completed : j <= n => Cell(j) \notin Ends
  BY <1>1, StopIs
<1>3. Min({n, Completed}) = IF n <= Completed THEN n ELSE Completed
  BY <1>1, MinOfTwo
<1>4. s # 0 => input.buf[At(input.r + (s - 1))] = Cell(s)
  BY DEF Cell
<1>5. EOF \in Ends
  BY DEF Ends
<1>6. CASE s = 0
  <2>1. n <= Completed /\ Advances(p) = n
    BY <1>3, <1>6 DEF Advances, Completed
  <2>2. \A j \in 1 .. n : Cell(j) \notin Ends
    BY <1>1, <1>2, <1>6, <2>1
  <2>3. Cell(n) # EOF
    BY <1>1, <1>5, <2>2
  <2>4. \A j \in 1 .. n - 1 : Cell(j) \notin Ends
    BY <1>1, <2>2
  <2> QED
    BY <1>1, <2>1, <2>3, <2>4
<1>7. CASE s # 0 /\ Cell(s) = EOF /\ n - (s - 1) < rd[p].target
  <2>1. Advances(p) = s - 1
    BY <1>4, <1>7 DEF Advances
  <2>2. s - 1 > 0 => Cell(s - 1) # EOF
    BY <1>1, <1>2, <1>5, <1>7
  <2>3. \A j \in 1 .. (s - 1) - 1 : Cell(j) \notin Ends
    BY <1>1, <1>2, <1>7
  <2> QED
    BY <1>1, <1>2, <1>7, <2>1, <2>2, <2>3
<1>8. CASE s # 0 /\ ~(Cell(s) = EOF /\ n - (s - 1) < rd[p].target)
  <2>1. Advances(p) = s
    BY <1>4, <1>8 DEF Advances
  <2>2. Cell(s) = EOF => n = rd[p].target /\ s = 1
    BY <1>1, <1>2, <1>8
  <2> QED
    BY <1>2, <1>8, <2>1, <2>2
<1> QED
  BY <1>6, <1>7, <1>8

-----------------------------------------------------------------------------
(* The invariant *)

(* The keys that change the ring, and by how much. *)
LEMMA KeyIs ==
  ASSUME Kinds, RingInv, NEW c \in Keys, Key(c)
  PROVE  \/ UNCHANGED <<input, rd>>
         \/ \E k \in 0 .. Stored - Completed :
              /\ k \in {0, 1, Stored - Completed}
              /\ input' = [input EXCEPT !.e = Wrap(input.e - k)]
              /\ UNCHANGED rd
         \/ c \in Chars /\ Store(c)
<1>0. Completed \in Nat /\ Stored \in Nat /\ Completed <= Stored
      /\ Dist(input.w, input.e) = Stored - Completed
  BY Views DEF RingInv
<1>1. CASE c = "left" /\ \E t \in MoveLeft(scr) : Moves(t)
  BY <1>1 DEF Moves
<1>2. CASE c = "right" /\ Moves(MoveRight(scr))
  BY <1>2 DEF Moves
<1>3. CASE c = "^U" /\ Erase(Killed(input))
  BY <1>0, <1>3, KilledIs DEF Erase
<1>4. CASE c = "^H" /\ Erase(IF input.e # input.w THEN 1 ELSE 0)
  <2>1. CASE input.e # input.w
    <3>1. input.w \in Index /\ input.e \in Index /\ Word \in Nat
      BY ConsoleAssumption DEF Kinds
    <3>2. Stored - Completed = IF input.e >= input.w THEN input.e - input.w
                               ELSE (input.e - input.w) + Word
      BY <1>0, <3>1, DistIs
    <3>3. Stored - Completed >= 1
      BY <2>1, <3>1, <3>2 DEF Index
    <3> QED
      BY <1>0, <1>4, <2>1, <3>3 DEF Erase
  <2>2. CASE input.e = input.w
    <3>1. input' = [input EXCEPT !.e = Wrap(input.e - 0)] /\ UNCHANGED rd
      BY <1>4, <2>2 DEF Erase
    <3>2. 0 \in 0 .. Stored - Completed
      BY <1>0
    <3> QED
      BY <3>1, <3>2
  <2> QED
    BY <2>1, <2>2
<1>5. CASE c \in Letters \cup {NL, EOF} /\ Store(c)
  BY <1>5 DEF Chars
<1> QED
  BY <1>1, <1>2, <1>3, <1>4, <1>5 DEF Key

(* How far a reader gets in a step: never past the end of a line, and to   *)
(* the end of the input if it wants more.                                  *)
LEMMA Taken ==
  ASSUME Kinds, RingInv, ReadInv, NEW p \in Procs,
         ReadLine(p) \/ ReadMore(p)
  PROVE  \E k \in 0 .. Completed :
           /\ Advance(k) /\ \A j \in 1 .. k - 1 : Cell(j) \notin Ends
           /\ k > 0 /\ Cell(k) = EOF =>
                rd[p].left = rd[p].target /\ k = 1
           /\ ReadMore(p) => k = Completed
<1>0. Completed \in Nat /\ rd[p].left \in Nat
  BY Views DEF Kinds
<1>1. CASE ReadMore(p)
  <2>1. /\ Stop(rd[p].left) = 0 /\ Completed < rd[p].left
        /\ Advance(Completed)
    BY <1>1 DEF ReadMore, Completed
  <2>2. \A j \in 1 .. Completed : Cell(j) \notin Ends
    BY <1>0, <2>1, StopIs
  <2>3. \A j \in 1 .. Completed - 1 : Cell(j) \notin Ends
    BY <1>0, <2>2
  <2>4. Completed > 0 => Cell(Completed) # EOF
    BY <1>0, <2>2 DEF Ends
  <2> QED
    BY <1>0, <2>1, <2>3, <2>4
<1>2. CASE ReadLine(p) /\ ~ReadMore(p)
  <2>1. /\ Stop(rd[p].left) # 0 \/ rd[p].left <= Completed
        /\ rd[p].pc = "read" /\ Advance(Advances(p))
    BY <1>2 DEF ReadLine, Completed
  <2>2. /\ Advances(p) \in 0 .. Completed
        /\ \A j \in 1 .. Advances(p) - 1 : Cell(j) \notin Ends
        /\ Advances(p) > 0 /\ Cell(Advances(p)) = EOF =>
             rd[p].left = rd[p].target /\ Advances(p) = 1
    BY <2>1, AdvancesIs
  <2> QED
    BY <1>2, <2>1, <2>2
<1> QED
  BY <1>1, <1>2

(* What a reader does to the table of readers. *)
LEMMA ReaderKeeps ==
  ASSUME Kinds, RingInv, ReadInv, NEW p \in Procs,
         ReadLine(p) \/ ReadMore(p)
  PROVE  Kinds' /\ RingInv' /\ ReadInv'
<1>1. PICK k \in 0 .. Completed : Advance(k) /\ (ReadMore(p) => k = Completed)
  BY Taken
<1>2. /\ input' \in Inputs /\ RingInv' /\ input'.w = input.w
      /\ k = 0 => input'.r = input.r
      /\ k = Completed => input'.r = input'.w
  BY <1>1, Advanced
<1>3. Completed \in Nat
  BY Views
<1>4. ASSUME NEW q \in Procs, rd[q].pc \in {"dozing", "asleep"}
      PROVE  input'.r = input'.w
  <2>1. input.r \in Index /\ input.r = input.w
    BY <1>4 DEF ReadInv, Kinds
  <2>2. Completed = 0
    BY <2>1, DistSelf DEF Completed
  <2> QED
    BY <1>2, <2>2
<1>5. \/ Return(p)
      \/ /\ rd' = [rd EXCEPT ![p].pc = "dozing",
                             ![p].left = rd[p].left - Completed]
         /\ Completed < rd[p].left /\ ReadMore(p)
  BY DEF ReadLine, ReadMore, Completed
<1>6. CASE Return(p)
  <2>1. /\ rd' \in [Procs -> [pc : {"idle", "read", "dozing", "asleep"},
                              left : Nat, target : Nat, killed : BOOLEAN]]
        /\ rd'[p].pc = "idle" /\ rd'[p].left = 0 /\ rd'[p].target = 0
        /\ \A q \in Procs \ {p} : rd'[q] = rd[q]
    BY <1>6, Zenon DEF Return, Kinds
  <2>2. ReadInv'
    BY <1>4, <2>1 DEF ReadInv
  <2> QED
    BY <1>2, <2>1, <2>2 DEF Kinds, Inputs
<1>7. CASE /\ rd' = [rd EXCEPT ![p].pc = "dozing",
                               ![p].left = rd[p].left - Completed]
           /\ Completed < rd[p].left /\ ReadMore(p)
  <2>0. rd[p].left \in Nat /\ rd[p].target \in Nat
        /\ rd[p].left - Completed \in Nat /\ rd[p].left - Completed >= 1
        /\ rd[p].left - Completed <= rd[p].target
    BY <1>3, <1>7 DEF Kinds, ReadInv
  <2>1. /\ rd' \in [Procs -> [pc : {"idle", "read", "dozing", "asleep"},
                              left : Nat, target : Nat, killed : BOOLEAN]]
        /\ rd'[p].pc = "dozing" /\ rd'[p].left = rd[p].left - Completed
        /\ rd'[p].target = rd[p].target
        /\ \A q \in Procs \ {p} : rd'[q] = rd[q]
    BY <1>7, <2>0, Zenon DEF Kinds
  <2>2. input'.r = input'.w
    BY <1>1, <1>2, <1>7
  <2>3. ReadInv'
    BY <2>0, <2>1, <2>2 DEF ReadInv
  <2> QED
    BY <1>2, <2>1, <2>3 DEF Kinds, Inputs
<1> QED
  BY <1>5, <1>6, <1>7

(* No step of the console, its readers or its writers breaks the           *)
(* invariant.                                                              *)
LEMMA InvStep ==
  Kinds /\ RingInv /\ ReadInv /\ [Next]_vars => Kinds' /\ RingInv' /\ ReadInv'
<1> SUFFICES ASSUME Kinds, RingInv, ReadInv, [Next]_vars
             PROVE  Kinds' /\ RingInv' /\ ReadInv'
  OBVIOUS
<1> DEFINE Readers == [Procs -> [pc : {"idle", "read", "dozing", "asleep"},
                                 left : Nat, target : Nat,
                                 killed : BOOLEAN]]
<1>1. ASSUME UNCHANGED input, rd' \in Readers, ReadInv'
      PROVE  Kinds' /\ RingInv' /\ ReadInv'
  BY <1>1 DEF Kinds, RingInv, Completed, Stored, Cell
<1>2. ASSUME UNCHANGED <<input, rd>> PROVE Kinds' /\ RingInv' /\ ReadInv'
  BY <1>1, <1>2 DEF ReadInv, Kinds
<1>3. ASSUME NEW c \in Keys, Key(c) PROVE Kinds' /\ RingInv' /\ ReadInv'
  <2>1. CASE UNCHANGED <<input, rd>>
    BY <1>2, <2>1
  <2>2. ASSUME NEW k \in 0 .. Stored - Completed,
               input' = [input EXCEPT !.e = Wrap(input.e - k)], UNCHANGED rd
        PROVE  Kinds' /\ RingInv' /\ ReadInv'
    <3>1. /\ input' \in Inputs /\ RingInv'
          /\ input'.r = input.r /\ input'.w = input.w
      BY <2>2, Erased
    <3> QED
      BY <2>2, <3>1, Zenon DEF Kinds, ReadInv, Inputs
  <2>3. CASE c \in Chars /\ Store(c)
    <3>1. /\ input' \in Inputs /\ RingInv' /\ input'.r = input.r
          /\ \/ rd' = Wakeup(rd)
             \/ input'.w = input.w /\ UNCHANGED rd
      BY <2>3, Added
    <3>2. CASE rd' = Wakeup(rd)
      <4>1. /\ rd' \in Readers
            /\ \A p \in Procs :
                 /\ rd'[p].left = rd[p].left /\ rd'[p].target = rd[p].target
                 /\ rd'[p].pc = IF rd[p].pc = "asleep" THEN "read"
                                ELSE rd[p].pc
        BY <3>2, Zenon DEF Wakeup, Kinds
      <4>2. \A p \in Procs : rd[p].pc # "dozing"
        BY <1>3, Zenon DEF Key, Unlocked
      <4>3. ReadInv'
        BY <4>1, <4>2 DEF ReadInv, Kinds
      <4> QED
        BY <3>1, <4>1, <4>3 DEF Kinds, Inputs
    <3>3. CASE input'.w = input.w /\ UNCHANGED rd
      BY <3>1, <3>3 DEF Kinds, ReadInv, Inputs
    <3> QED
      BY <3>1, <3>2, <3>3
  <2> QED
    BY <1>3, <2>1, <2>2, <2>3, KeyIs
<1>4. ASSUME NEW p \in Procs, ReadLine(p) \/ ReadMore(p)
      PROVE  Kinds' /\ RingInv' /\ ReadInv'
  BY <1>4, ReaderKeeps
<1>5. ASSUME NEW p \in Procs, Sleep(p) PROVE Kinds' /\ RingInv' /\ ReadInv'
  <2>1. /\ rd' \in Readers /\ UNCHANGED input /\ rd[p].pc = "dozing"
        /\ rd'[p].left = rd[p].left /\ rd'[p].target = rd[p].target
        /\ \A q \in Procs \ {p} : rd'[q] = rd[q]
    BY <1>5, Zenon DEF Sleep, Kinds
  <2>2. ReadInv'
    BY <2>1 DEF ReadInv
  <2> QED
    BY <1>1, <2>1, <2>2
<1>6. ASSUME NEW p \in Procs, Kill(p) PROVE Kinds' /\ RingInv' /\ ReadInv'
  <2>1. /\ rd' \in Readers /\ UNCHANGED input
        /\ rd'[p].left = rd[p].left /\ rd'[p].target = rd[p].target
        /\ rd'[p].pc = IF rd[p].pc = "asleep" THEN "read" ELSE rd[p].pc
        /\ \A q \in Procs \ {p} : rd'[q] = rd[q]
    BY <1>6, Zenon DEF Kill, Kinds
  <2>2. ReadInv'
    BY <2>1 DEF ReadInv
  <2> QED
    BY <1>1, <2>1, <2>2
<1>7. ASSUME NEW p \in Procs, NEW n \in Counts, Read(p, n)
      PROVE  Kinds' /\ RingInv' /\ ReadInv'
  <2>0. n \in Nat /\ n >= 1
    BY ConsoleAssumption
  <2>1. /\ rd' \in Readers /\ UNCHANGED input
        /\ rd'[p].pc = "read" /\ rd'[p].left = n /\ rd'[p].target = n
        /\ \A q \in Procs \ {p} : rd'[q] = rd[q]
    BY <1>7, <2>0, Zenon DEF Read, Kinds
  <2>2. ReadInv'
    BY <2>0, <2>1 DEF ReadInv
  <2> QED
    BY <1>1, <2>1, <2>2
<1>8. ASSUME NEW p \in Procs, NEW q \in Outputs, Write(p, q)
      PROVE  Kinds' /\ RingInv' /\ ReadInv'
  BY <1>2, <1>8 DEF Write
<1>9. CASE UNCHANGED vars
  BY <1>2, <1>9 DEF vars
<1> HIDE DEF Readers
<1> QED
  BY <1>3, <1>4, <1>5, <1>6, <1>7, <1>8, <1>9 DEF Next, Reader

-----------------------------------------------------------------------------
(* The refinement of LineInput *)

(* The two sequences that LineInput speaks of, cell by cell. *)
LinesSeen ==
  /\ Line \in Seq(Chars) /\ Len(Line) = Stored - Completed
  /\ Ready \in Seq(Chars) /\ Len(Ready) = Completed
  /\ \A k \in 1 .. Len(Line) : Line[k] = Cell(Completed + k)
  /\ \A k \in 1 .. Len(Ready) : Ready[k] = Cell(k)

(* The line and the completed input are the cells from input.r on. *)
LEMMA Lines == Kinds /\ RingInv => LinesSeen
<1> SUFFICES ASSUME Kinds, RingInv PROVE LinesSeen
  OBVIOUS
<1>1. /\ Completed \in Nat /\ Stored \in Nat /\ Completed <= Stored
      /\ Stored - Completed \in Nat
      /\ \A k \in Int : Cell(k) \in Chars
      /\ Line = [k \in 1 .. Stored - Completed |-> Cell(Completed + k)]
      /\ Ready = [k \in 1 .. Completed |-> Cell(k)]
  BY Views DEF RingInv
<1>2. Line \in [1 .. Stored - Completed -> Chars]
      /\ Ready \in [1 .. Completed -> Chars]
  BY <1>1
<1>3. Line \in Seq(Chars) /\ Len(Line) = Stored - Completed
  BY <1>1, <1>2
<1>4. Ready \in Seq(Chars) /\ Len(Ready) = Completed
  BY <1>1, <1>2
<1> QED
  BY <1>1, <1>3, <1>4 DEF LinesSeen

(* Taking k characters from the front reads them (consoleread). *)
LEMMA AdvanceReads ==
  ASSUME Kinds, RingInv, NEW k \in 0 .. Completed, Advance(k), Kinds',
         \A j \in 1 .. k - 1 : Cell(j) \notin Ends
  PROVE  [Abstract!Next]_<<Line, Ready>>
<1>1. /\ RingInv' /\ Completed' = Completed - k /\ Stored' = Stored - k
      /\ \A j \in Int : Cell(j)' = Cell(k + j)
  BY Advanced
<1>2. Completed \in Nat /\ Stored \in Nat /\ Completed <= Stored /\ k \in Nat
  BY Views DEF RingInv
<1>3. /\ Line \in Seq(Chars) /\ Len(Line) = Stored - Completed
      /\ Ready \in Seq(Chars) /\ Len(Ready) = Completed
      /\ \A j \in 1 .. Len(Line) : Line[j] = Cell(Completed + j)
      /\ \A j \in 1 .. Len(Ready) : Ready[j] = Cell(j)
  BY Lines DEF LinesSeen
<1>4. (/\ Line \in Seq(Chars) /\ Len(Line) = Stored - Completed
       /\ Ready \in Seq(Chars) /\ Len(Ready) = Completed
       /\ \A j \in 1 .. Len(Line) : Line[j] = Cell(Completed + j)
       /\ \A j \in 1 .. Len(Ready) : Ready[j] = Cell(j))'
  <2>1. LinesSeen'
    BY <1>1, Lines, PTL
  <2> QED
    BY <2>1 DEF LinesSeen
<1>5. Line' = Line
  <2>1. Len(Line') = Len(Line)
    BY <1>1, <1>2, <1>3, <1>4
  <2>2. ASSUME NEW j \in 1 .. Len(Line) PROVE Line'[j] = Line[j]
    <3>1. /\ j \in Int /\ Completed' + j \in Int
          /\ k + (Completed' + j) = Completed + j
      BY <1>1, <1>2, <1>3
    <3>2. PICK i \in Int : i = Completed' + j
      BY <3>1
    <3>3. Line'[j] = Cell(i)'
      BY <1>4, <2>1, <3>2
    <3> QED
      BY <1>1, <1>3, <3>1, <3>2, <3>3
  <2> QED
    BY <1>3, <1>4, <2>1, <2>2, SeqEqual
<1>6. Ready' = SubSeq(Ready, k + 1, Len(Ready))
  <2>1. /\ SubSeq(Ready, k + 1, Len(Ready)) \in Seq(Chars)
        /\ Len(SubSeq(Ready, k + 1, Len(Ready))) = Completed - k
        /\ \A j \in 1 .. Completed - k :
             SubSeq(Ready, k + 1, Len(Ready))[j] = Ready[k + j]
    BY <1>2, <1>3
  <2>2. Len(Ready') = Completed - k
    BY <1>1, <1>4
  <2>3. ASSUME NEW j \in 1 .. Completed - k PROVE Ready'[j] = Ready[k + j]
    <3>1. j \in Int /\ k + j \in 1 .. Completed
      BY <1>2
    <3> QED
      BY <1>1, <1>3, <1>4, <2>2, <3>1
  <2> QED
    BY <1>4, <2>1, <2>2, <2>3, SeqEqual
<1>7. CASE k = 0
  <2>1. SubSeq(Ready, 0 + 1, Len(Ready)) = Ready
    BY <1>3
  <2> QED
    BY <1>5, <1>6, <1>7, <2>1
<1>8. CASE k # 0
  <2>1. \A j \in 1 .. k - 1 : Ready[j] \notin {NL, EOF}
    BY <1>2, <1>3 DEF Ends
  <2>2. k \in 1 .. Len(Ready)
    BY <1>2, <1>3, <1>8
  <2>3. Abstract!Read(k)
    BY <1>5, <1>6, <2>1 DEF Abstract!Read
  <2> QED
    BY <2>2, <2>3 DEF Abstract!Next
<1> QED
  BY <1>7, <1>8

(* Backspace removes the last character of the line, ^U all of them. *)
LEMMA EraseEdits ==
  ASSUME Kinds, RingInv, NEW k \in 0 .. Stored - Completed,
         k \in {0, 1, Stored - Completed}, Kinds',
         input' = [input EXCEPT !.e = Wrap(input.e - k)]
  PROVE  [Abstract!Next]_<<Line, Ready>>
<1>1. /\ RingInv' /\ Completed' = Completed /\ Stored' = Stored - k
      /\ \A j \in Int : Cell(j)' = Cell(j)
  BY Erased
<1>2. Completed \in Nat /\ Stored \in Nat /\ Completed <= Stored /\ k \in Nat
  BY Views DEF RingInv
<1>3. /\ Line \in Seq(Chars) /\ Len(Line) = Stored - Completed
      /\ Ready \in Seq(Chars) /\ Len(Ready) = Completed
      /\ \A j \in 1 .. Len(Line) : Line[j] = Cell(Completed + j)
      /\ \A j \in 1 .. Len(Ready) : Ready[j] = Cell(j)
  BY Lines DEF LinesSeen
<1>4. (/\ Line \in Seq(Chars) /\ Len(Line) = Stored - Completed
       /\ Ready \in Seq(Chars) /\ Len(Ready) = Completed
       /\ \A j \in 1 .. Len(Line) : Line[j] = Cell(Completed + j)
       /\ \A j \in 1 .. Len(Ready) : Ready[j] = Cell(j))'
  <2>1. LinesSeen'
    BY <1>1, Lines, PTL
  <2> QED
    BY <2>1 DEF LinesSeen
<1>5. Ready' = Ready
  <2>1. ASSUME NEW j \in 1 .. Len(Ready) PROVE Ready'[j] = Ready[j]
    BY <1>1, <1>2, <1>3, <1>4
  <2> QED
    BY <1>1, <1>3, <1>4, <2>1, SeqEqual
<1>6. Len(Line') = Len(Line) - k
  BY <1>1, <1>2, <1>3, <1>4
<1>7. ASSUME NEW j \in 1 .. Len(Line) - k PROVE Line'[j] = Line[j]
  <2>1. /\ j \in 1 .. Len(Line) /\ Completed + j \in Int
    BY <1>2, <1>3
  <2>2. PICK i \in Int : i = Completed + j
    BY <2>1
  <2>3. Line'[j] = Cell(i)'
    BY <1>1, <1>4, <1>6, <2>2
  <2> QED
    BY <1>1, <1>3, <2>1, <2>2, <2>3
<1>8. CASE k = 0
  <2>1. Len(Line') = Len(Line) /\ \A j \in 1 .. Len(Line) : Line'[j] = Line[j]
    BY <1>2, <1>3, <1>6, <1>7, <1>8
  <2>2. Line' = Line
    BY <1>3, <1>4, <2>1, SeqEqual, Zenon
  <2> QED
    BY <1>5, <2>2
<1>9. CASE k = Stored - Completed
  <2>1. Len(Line') = 0
    BY <1>2, <1>3, <1>6, <1>9
  <2>2. Line' = <<>>
    BY <1>4, <2>1, EmptySeq
  <2> QED
    BY <1>5, <2>2 DEF Abstract!Next, Abstract!KillLine
<1>10. CASE k = 1
  <2>1. Len(Line) >= 1 /\ Line # <<>>
    BY <1>2, <1>3, <1>10
  <2>2. /\ SubSeq(Line, 1, Len(Line) - 1) \in Seq(Chars)
        /\ Len(SubSeq(Line, 1, Len(Line) - 1)) = Len(Line) - 1
        /\ \A j \in 1 .. Len(Line) - 1 :
             SubSeq(Line, 1, Len(Line) - 1)[j] = Line[j]
    BY <1>3, <2>1
  <2>3. Line' = SubSeq(Line, 1, Len(Line) - 1)
    BY <1>4, <1>6, <1>7, <1>10, <2>2, SeqEqual, Zenon
  <2> QED
    BY <1>5, <2>1, <2>3 DEF Abstract!Next, Abstract!Erase
<1> QED
  BY <1>8, <1>9, <1>10

(* A stored character is typed: it ends the line, or is added to it. *)
LEMMA StoreTypes ==
  ASSUME Kinds, RingInv, NEW c \in Chars, Store(c), Kinds'
  PROVE  [Abstract!Next]_<<Line, Ready>>
<1>1. /\ RingInv' /\ Stored < INPUT_BUF /\ Stored' = Stored + 1
      /\ \A j \in 1 .. Stored : Cell(j)' = Cell(j)
      /\ \A j \in Nat : j = Stored + 1 => Cell(j)' = c
      /\ IF c \in Ends \/ Stored + 1 = INPUT_BUF
         THEN Completed' = Stored + 1 ELSE Completed' = Completed
  BY Added
<1>2. /\ Completed \in Nat /\ Stored \in Nat /\ Completed <= Stored
      /\ INPUT_BUF \in Nat
  BY Views, ConsoleAssumption DEF RingInv
<1>3. /\ Line \in Seq(Chars) /\ Len(Line) = Stored - Completed
      /\ Ready \in Seq(Chars) /\ Len(Ready) = Completed
      /\ \A j \in 1 .. Len(Line) : Line[j] = Cell(Completed + j)
      /\ \A j \in 1 .. Len(Ready) : Ready[j] = Cell(j)
  BY Lines DEF LinesSeen
<1>4. (/\ Line \in Seq(Chars) /\ Len(Line) = Stored - Completed
       /\ Ready \in Seq(Chars) /\ Len(Ready) = Completed
       /\ \A j \in 1 .. Len(Line) : Line[j] = Cell(Completed + j)
       /\ \A j \in 1 .. Len(Ready) : Ready[j] = Cell(j))'
  <2>1. LinesSeen'
    BY <1>1, Lines, PTL
  <2> QED
    BY <2>1 DEF LinesSeen
<1> DEFINE l == Append(Line, c)
<1>5. /\ l \in Seq(Chars) /\ Len(l) = (Stored - Completed) + 1
      /\ \A j \in 1 .. Stored - Completed : l[j] = Cell(Completed + j)
      /\ l[(Stored - Completed) + 1] = c
  BY <1>2, <1>3
<1> HIDE DEF l
<1>6. Len(Line) + Len(Ready) < INPUT_BUF
      /\ (Len(l) + Len(Ready) = INPUT_BUF <=> Stored + 1 = INPUT_BUF)
  BY <1>1, <1>2, <1>3, <1>5
<1>7. CASE c \in Ends \/ Stored + 1 = INPUT_BUF
  <2>1. Completed' = Stored + 1 /\ Len(Line') = 0 /\ Len(Ready') = Stored + 1
    BY <1>1, <1>2, <1>4, <1>7
  <2>2. Line' = <<>>
    BY <1>4, <2>1, EmptySeq
  <2>3. /\ Ready \o l \in Seq(Chars) /\ Len(Ready \o l) = Stored + 1
        /\ \A j \in 1 .. Stored + 1 :
             (Ready \o l)[j] = IF j <= Completed THEN Ready[j]
                               ELSE l[j - Completed]
    <3>1. Len(Ready) + Len(l) = Stored + 1
      BY <1>2, <1>3, <1>5
    <3>2. /\ Ready \o l \in Seq(Chars) /\ Len(Ready \o l) = Len(Ready) + Len(l)
          /\ \A j \in 1 .. Len(Ready) + Len(l) :
               (Ready \o l)[j] = IF j <= Len(Ready) THEN Ready[j]
                                 ELSE l[j - Len(Ready)]
      BY <1>3, <1>5, ConcatProperties, Zenon
    <3> QED
      BY <1>3, <3>1, <3>2
  <2>4. ASSUME NEW j \in 1 .. Stored + 1 PROVE Ready'[j] = (Ready \o l)[j]
    <3>1. Ready'[j] = Cell(j)'
      BY <1>4, <2>1
    <3>2. CASE j <= Completed
      <4>1. j \in 1 .. Stored /\ j \in 1 .. Completed
        BY <1>2, <3>2
      <4>2. Ready[j] = Cell(j)
        BY <1>3, <4>1
      <4> QED
        BY <1>1, <2>3, <3>1, <3>2, <4>1, <4>2
    <3>3. CASE Completed < j /\ j <= Stored
      <4>1. /\ j \in 1 .. Stored /\ j - Completed \in 1 .. Stored - Completed
            /\ Completed + (j - Completed) = j /\ ~(j <= Completed)
        BY <1>2, <3>3
      <4>2. l[j - Completed] = Cell(j)
        BY <1>5, <4>1
      <4> QED
        BY <1>1, <2>3, <3>1, <4>1, <4>2
    <3>4. CASE j = Stored + 1
      <4>1. j - Completed = (Stored - Completed) + 1 /\ ~(j <= Completed)
            /\ j \in Nat
        BY <1>2, <3>4
      <4> QED
        BY <1>1, <1>5, <2>3, <3>1, <3>4, <4>1
    <3>5. j <= Completed \/ (Completed < j /\ j <= Stored) \/ j = Stored + 1
      BY <1>2
    <3> QED
      BY <3>2, <3>3, <3>4, <3>5, Zenon
  <2>5. Ready' = Ready \o l
    BY <1>4, <2>1, <2>3, <2>4, SeqEqual
  <2>6. Abstract!Type(c)
    BY <1>6, <1>7, <2>2, <2>5 DEF Abstract!Type, l, Ends
  <2> QED
    BY <2>6 DEF Abstract!Next, Chars
<1>8. CASE ~(c \in Ends \/ Stored + 1 = INPUT_BUF)
  <2>1. /\ Completed' = Completed /\ Len(Ready') = Len(Ready)
        /\ Len(Line') = Len(l)
    BY <1>1, <1>2, <1>3, <1>4, <1>5, <1>8
  <2>2. Ready' = Ready
    <3>1. ASSUME NEW j \in 1 .. Len(Ready) PROVE Ready'[j] = Ready[j]
      <4>1. j \in 1 .. Stored
        BY <1>2, <1>3
      <4> QED
        BY <1>1, <1>3, <1>4, <2>1, <4>1
    <3> QED
      BY <1>3, <1>4, <2>1, <3>1, SeqEqual, Zenon
  <2>3. Line' = l
    <3>1. ASSUME NEW j \in 1 .. Len(l) PROVE Line'[j] = l[j]
      <4>1. PICK i \in Nat : i = Completed + j
        BY <1>2, <1>5
      <4>2. Line'[j] = Cell(i)'
        BY <1>4, <2>1, <4>1
      <4>3. CASE j = (Stored - Completed) + 1
        <5>1. i = Stored + 1
          BY <1>2, <4>1, <4>3
        <5> QED
          BY <1>1, <1>5, <4>2, <4>3, <5>1
      <4>4. CASE j # (Stored - Completed) + 1
        <5>1. i \in 1 .. Stored /\ j \in 1 .. Stored - Completed
          BY <1>2, <1>5, <4>1, <4>4
        <5> QED
          BY <1>1, <1>5, <4>1, <4>2, <5>1
      <4> QED
        BY <4>3, <4>4
    <3> QED
      BY <1>4, <1>5, <2>1, <3>1, SeqEqual, Zenon
  <2>4. Abstract!Type(c)
    BY <1>6, <1>8, <2>2, <2>3 DEF Abstract!Type, l, Ends
  <2> QED
    BY <2>4 DEF Abstract!Next, Chars
<1> QED
  BY <1>7, <1>8

(* Every step of the console is a step of LineInput or changes nothing     *)
(* there.                                                                  *)
LEMMA LineStep ==
  Kinds /\ RingInv /\ ReadInv /\ [Next]_vars => [Abstract!Next]_<<Line, Ready>>
<1> SUFFICES ASSUME Kinds, RingInv, ReadInv, [Next]_vars
             PROVE  [Abstract!Next]_<<Line, Ready>>
  OBVIOUS
<1>0. Kinds'
  BY InvStep
<1>1. ASSUME UNCHANGED input PROVE [Abstract!Next]_<<Line, Ready>>
  BY <1>1 DEF Line, Ready, Span
<1>2. ASSUME NEW c \in Keys, Key(c) PROVE [Abstract!Next]_<<Line, Ready>>
  BY <1>0, <1>1, <1>2, KeyIs, EraseEdits, StoreTypes
<1>3. ASSUME NEW p \in Procs, ReadLine(p) \/ ReadMore(p)
      PROVE  [Abstract!Next]_<<Line, Ready>>
  BY <1>0, <1>3, Taken, AdvanceReads
<1> QED
  BY <1>1, <1>2, <1>3, Zenon DEF Next, Reader, Sleep, Kill, Read, Write, vars

(* An end of file is taken alone, by a read that then has nothing else to  *)
(* return.                                                                 *)
LEMMA EofStep ==
  Kinds /\ RingInv /\ ReadInv /\ [Next]_vars =>
    \A p \in Procs :
      /\ rd[p].pc = "read" /\ rd'[p].pc = "idle" /\ input'.r # input.r
      /\ input.buf[At(input'.r - 1)] = EOF
      => rd[p].left = rd[p].target /\ Dist(input.r, input'.r) = 1
<1> SUFFICES ASSUME Kinds, RingInv, ReadInv, [Next]_vars, NEW p \in Procs,
                    rd[p].pc = "read", rd'[p].pc = "idle",
                    input'.r # input.r, input.buf[At(input'.r - 1)] = EOF
             PROVE  rd[p].left = rd[p].target /\ Dist(input.r, input'.r) = 1
  OBVIOUS
<1>1. ReadLine(p) \/ ReadMore(p)
  <2>1. ASSUME NEW c \in Keys, Key(c) PROVE FALSE
    <3>1. input'.r = input.r
      BY <2>1, KeyIs, Erased, Added
    <3> QED
      BY <3>1
  <2>2. ASSUME NEW q \in Procs \ {p}, ReadLine(q) \/ ReadMore(q) PROVE FALSE
    <3>1. rd'[p] = rd[p]
      BY <2>2 DEF ReadLine, ReadMore, Return, Kinds
    <3> QED
      BY <3>1
  <2> QED
    BY <2>1, <2>2, Zenon DEF Next, Reader, Sleep, Kill, Read, Write, vars
<1>2. PICK k \in 0 .. Completed :
        /\ Advance(k)
        /\ k > 0 /\ Cell(k) = EOF => rd[p].left = rd[p].target /\ k = 1
  BY <1>1, Taken
<1>3. /\ k = 0 => input'.r = input.r
      /\ input.r \in Index /\ input'.r = Wrap(input.r + k)
      /\ Completed \in 0 .. Word - 1 /\ Word \in Nat /\ INPUT_BUF \in Nat \ {0}
  BY <1>2, Advanced, DistIs, ConsoleAssumption, Zenon DEF Advance, Kinds,
    Completed
<1>4. k \in 0 .. Word /\ k > 0 /\ input'.r - 1 = Wrap(input.r + k) + (-1)
      /\ k + (-1) = k - 1
  <2>1. Wrap(input.r + k) \in Int
    BY <1>3, DistFront DEF Index, Completed, Kinds
  <2> QED
    BY <1>3, <2>1
<1>5. At(Wrap(input.r + k) + (-1)) = At(input.r + (k + (-1)))
  BY <1>3, <1>4, AtWrap
<1>6. Cell(k) = EOF
  BY <1>4, <1>5 DEF Cell
<1>7. rd[p].left = rd[p].target /\ k = 1
  BY <1>2, <1>4, <1>6
<1>8. Dist(input.r, input.r) = 0
  BY <1>3, DistSelf
<1>9. Dist(input.r, Wrap(input.r + 1)) = 1
  BY <1>3, <1>8, DistNext
<1> QED
  BY <1>3, <1>7, <1>9

(* consoleinit() starts with an empty ring and no readers. *)
LEMMA InvInit == Init => Kinds /\ RingInv /\ ReadInv /\ Abstract!Init
<1> SUFFICES ASSUME Init PROVE Kinds /\ RingInv /\ ReadInv /\ Abstract!Init
  OBVIOUS
<1>1. PICK i \in FirstIndex :
        input = [buf |-> [k \in 1 .. INPUT_BUF |-> NL], r |-> i, w |-> i,
                 e |-> i]
  BY Zenon DEF Init
<1>2. i \in Index /\ INPUT_BUF \in Nat \ {0} /\ Word \in Nat
  BY ConsoleAssumption DEF Index
<1>3. Kinds
  BY <1>1, <1>2, Zenon DEF Kinds, Init, Chars
<1>4. Completed = 0 /\ Stored = 0
  BY <1>1, <1>2, DistSelf DEF Completed, Stored
<1>5. RingInv
  BY <1>2, <1>4 DEF RingInv
<1>6. ReadInv
  <2>1. \A p \in Procs : rd[p].pc = "idle" /\ rd[p].left = 0
                         /\ rd[p].target = 0
    BY Zenon DEF Init
  <2> QED
    BY <2>1 DEF ReadInv
<1>7. /\ Line \in Seq(Chars) /\ Len(Line) = 0
      /\ Ready \in Seq(Chars) /\ Len(Ready) = 0
  BY <1>3, <1>4, <1>5, Lines DEF LinesSeen
<1>8. Line = <<>> /\ Ready = <<>>
  BY <1>7, EmptySeq
<1> QED
  BY <1>3, <1>5, <1>6, <1>8 DEF Abstract!Init

(* The invariant holds in every state of the console. *)
LEMMA InvAlways == Spec => [](Kinds /\ RingInv /\ ReadInv)
BY InvInit, InvStep, PTL DEF Spec

(* For any number of processes and any size of the ring: a full ring can   *)
(* be read, and nobody sleeps in consoleread() beside completed input.     *)
THEOREM InputAlwaysReachable == Spec => []InputReachable
<1>1. Kinds /\ RingInv /\ ReadInv => InputReachable
  <2> SUFFICES ASSUME Kinds, RingInv, ReadInv PROVE InputReachable
    OBVIOUS
  <2>1. TypeOK
    BY DEF TypeOK, Kinds, ReadInv, Index
  <2>2. FullIsReadable
    <3> SUFFICES ASSUME Full(input) PROVE Line = <<>>
      BY DEF FullIsReadable
    <3>1. /\ Completed \in Nat /\ Stored \in Nat /\ INPUT_BUF \in Nat
          /\ Stored >= INPUT_BUF
      BY Views, ConsoleAssumption DEF Full, Stored
    <3>2. Stored - Completed = 0
      BY <3>1 DEF RingInv
    <3> QED
      BY <3>2, Lines, EmptySeq DEF LinesSeen
  <2>3. NoSleepOverInput
    <3> SUFFICES ASSUME NEW p \in Procs, rd[p].pc = "asleep"
                 PROVE  Ready = <<>>
      BY DEF NoSleepOverInput
    <3>1. input.r = input.w /\ input.r \in Index
      BY DEF ReadInv, Kinds
    <3>2. Completed = 0
      BY <3>1, DistSelf DEF Completed
    <3> QED
      BY <3>2, Lines, EmptySeq DEF LinesSeen
  <2> QED
    BY <2>1, <2>2, <2>3 DEF InputReachable
<1> QED
  BY <1>1, InvAlways, PTL

(* For any number of processes and any size of the ring, consoleread()     *)
(* returns what was typed and edited, a line at a time and in order, and   *)
(* an end of file once (consoleintr, consoleread).                         *)
THEOREM ConsoleReadsLines == Spec => ReadsLines
<1>1. Spec => IsLineInput
  BY InvInit, InvAlways, LineStep, PTL DEF Spec, IsLineInput, Abstract!Spec
<1>2. Spec => EofReturnsNothing
  BY InvAlways, EofStep, PTL DEF Spec, EofReturnsNothing
<1> QED
  BY <1>1, <1>2 DEF ReadsLines
=============================================================================
