------------------------------ MODULE Console ------------------------------
(***************************************************************************)
(* The console: keyboard input, its editing and echo, and the processes    *)
(* that read and write it (console.c).                                     *)
(*                                                                         *)
(* cons.lock makes consoleintr(), consolewrite() and each stretch of       *)
(* consoleread() between two sleeps one step.  A reader about to sleep     *)
(* still holds the lock, but kill() does not need it.                      *)
(***************************************************************************)
EXTENDS Integers, FiniteSetsExt, Sequences, TLC

CONSTANTS Procs,      \* processes that read or write the console
          Letters,    \* ordinary characters
          Outputs,    \* what processes write: sequences of characters
          Counts,     \* the n of read()
          INPUT_BUF,  \* size of the ring
          Word,       \* uint indices wrap here, a multiple of INPUT_BUF
          FirstIndex, \* indices after earlier input
          COLS, ROWS, \* the screen scrolls when row ROWS is reached
          MaxEvents   \* bound on keys, writes, reads and kills

ASSUME ConsoleAssumption ==
  /\ INPUT_BUF \in Nat \ {0}
  /\ Word \in Nat /\ Word % INPUT_BUF = 0 /\ Word > INPUT_BUF
  /\ FirstIndex \subseteq 0 .. Word - 1
  /\ COLS \in Nat \ {0} /\ ROWS \in Nat \ {0} /\ Counts \subseteq Nat \ {0}

NL == "nl"
EOF == "^D"
Keys  == Letters \cup {NL, EOF, "^U", "^H", "left", "right"}
CrtSize == COLS * (ROWS + 1)     \* 25*80
Cells == -1 .. CrtSize + 2 * MaxEvents  \* display memory and what lies beside
Register == 16 * CrtSize          \* the cursor register wraps here

VARIABLES input,  \* ring buffer: buf, r, w, e
          scr,    \* crt memory, cursor register, back_counter
          rd,     \* the readers: pc, bytes wanted and left, killed
          panic,
          moved,  \* history: the line has seen a cursor key or a write
          stray,  \* history: the cursor went left of the first cell
          events

vars == <<input, scr, rd, panic, moved, stray, events>>

Wrap(i) == i % Word
At(i)   == (i % INPUT_BUF) + 1
Dist(i, j) == Wrap(j - i)

---------------------------------------------------------------------------
(* The screen: cgaputc() and the cursor keys *)

(* Mutant of Rub: the cursor does not go back. *)
RubStays(s) ==
  [s EXCEPT !.crt = [i \in s.pos - 1 .. s.pos + s.back - 1 |-> @[i + 1]] @@ @]

(* A character is removed left of the cursor, back_counter cells move up. *)
Rub(s) ==
  [s EXCEPT !.crt = [i \in s.pos - 1 .. s.pos + s.back - 1 |-> @[i + 1]] @@ @,
            !.pos = IF @ > 0 THEN @ - 1 ELSE @]

(* One is inserted at the cursor. *)
Insert(s, c) ==
  [s EXCEPT !.crt = (s.pos :> c) @@
                    [i \in s.pos + 1 .. s.pos + s.back |-> @[i - 1]] @@ @,
            !.pos = @ + 1]

Scroll(s) ==
  LET p == s.pos - COLS
  IN  IF s.pos \div COLS < ROWS THEN s
      ELSE [s EXCEPT
              !.crt = [i \in p .. COLS * ROWS - 1 |-> ""] @@
                      [i \in 0 .. COLS * (ROWS - 1) - 1 |-> @[i + COLS]] @@ @,
              !.pos = p]

OnScreen(p) == 0 <= p /\ p <= CrtSize

(* The screen after cgaputc(c), "rub" being BACKSPACE. *)
Cgaputc(s, c) ==
  LET t == CASE c = NL -> [s EXCEPT !.pos = @ + COLS - (@ % COLS)]
             [] c = "rub" -> Rub(s)
             [] OTHER -> Insert(s, c)
      u == Scroll(t)
  IN  IF ~OnScreen(s.pos) \/ ~OnScreen(t.pos)
      THEN [s EXCEPT !.bad = TRUE]
      ELSE [u EXCEPT !.crt = ((u.pos + u.back) :> " ") @@ @]

Cgaputs(s, q) ==
  LET put[k \in 0 .. Len(q)] == IF k = 0 THEN s ELSE Cgaputc(put[k - 1], q[k])
  IN  put[Len(q)]

(* move_left_cursor() stops at the prompt; back_counter goes up all the    *)
(* same.  In the first two cells it looks at memory before the screen, of  *)
(* which nothing is known.                                                 *)
MoveLeft(s) ==
  LET stay == [s EXCEPT !.back = @ + 1]
      go   == [stay EXCEPT !.pos = (@ - 1) % Register]
  IN  CASE s.pos < 2 -> {stay, go}
        [] s.pos >= 2 /\ (s.pos > CrtSize \/ s.crt[s.pos - 2] # "$") -> {go}
        [] OTHER -> {stay}

MoveRight(s) ==
  IF s.back = 0 THEN s
  ELSE [s EXCEPT !.pos = (@ + 1) % Register, !.back = @ - 1]

---------------------------------------------------------------------------
(* consoleintr() *)

Unlocked == panic = "" /\ \A p \in Procs : rd[p].pc # "dozing"
Event    == events < MaxEvents /\ events' = events + 1

Show(s) == /\ scr' = s
           /\ panic' = IF s.bad THEN "pos under/overflow" ELSE ""

Wakeup(f) == [p \in Procs |-> IF f[p].pc = "asleep"
                              THEN [f[p] EXCEPT !.pc = "read"] ELSE f[p]]

(* How many characters ^U takes off the end. *)
Killed(in) ==
  Max({k \in 0 .. Dist(in.w, in.e) :
         \A j \in 1 .. k : in.buf[At(in.e - j)] # NL})

Erase(k) ==
  /\ input' = [input EXCEPT !.e = Wrap(input.e - k)]
  /\ Show(Cgaputs(scr, [j \in 1 .. k |-> "rub"]))
  /\ UNCHANGED <<rd, moved, stray>>

Moves(t) ==
  /\ Show(t)
  /\ moved' = TRUE
  /\ stray' = (stray \/ t.pos >= COLS * ROWS)
  /\ UNCHANGED <<input, rd>>

Full(in) == Dist(in.r, in.e) >= INPUT_BUF

(* The character just stored at in.e - 1 makes the input available. *)
Commits(in, c) == c \in {NL, EOF} \/ in.e = Wrap(in.r + INPUT_BUF)

(* Mutant of Store: the sleeping readers are not woken. *)
StoreQuietly(c) ==
  LET in == [input EXCEPT !.buf[At(input.e)] = c,
                        !.e = Wrap(input.e + 1)]
  IN  /\ ~Full(input)
      /\ input' = IF Commits(in, c) THEN [in EXCEPT !.w = in.e] ELSE in
      /\ Show(Cgaputc(scr, c))
      /\ moved' = (moved /\ ~Commits(in, c))
      /\ UNCHANGED <<rd, stray>>

Store(c) ==
  LET in == [input EXCEPT !.buf[At(input.e)] = c,
                        !.e = Wrap(input.e + 1)]
  IN  /\ ~Full(input)
      /\ Show(Cgaputc(scr, c))
      /\ IF Commits(in, c)
         THEN /\ input' = [in EXCEPT !.w = in.e]
              /\ rd' = Wakeup(rd)
              /\ moved' = FALSE
         ELSE input' = in /\ UNCHANGED <<rd, moved>>
      /\ UNCHANGED stray

Key(c) ==
  /\ Unlocked /\ Event
  /\ \/ c = "left"  /\ \E t \in MoveLeft(scr) : Moves(t)
     \/ c = "right" /\ Moves(MoveRight(scr))
     \/ c = "^U" /\ Erase(Killed(input))
     \/ c = "^H" /\ Erase(IF input.e # input.w THEN 1 ELSE 0)
     \/ c \in Letters \cup {NL, EOF} /\ Store(c)

---------------------------------------------------------------------------
(* consoleread() and consolewrite() *)

Return(p) == rd' = [rd EXCEPT ![p].pc = "idle", ![p].left = 0,
                              ![p].target = 0]

Read(p, n) ==
  /\ panic = "" /\ rd[p].pc = "idle" /\ ~rd[p].killed /\ Event
  /\ rd' = [rd EXCEPT ![p].pc = "read", ![p].left = n, ![p].target = n]
  /\ UNCHANGED <<input, scr, panic, moved, stray>>

(* The first place among the next n characters where a read has to stop,   *)
(* 0 if there is none.                                                     *)
Stop(n) ==
  LET S == {j \in 1 .. Min({n, Dist(input.r, input.w)}) :
              input.buf[At(input.r + j - 1)] \in {NL, EOF}}
  IN  IF S = {} THEN 0 ELSE Min(S)

Advance(k) == input' = [input EXCEPT !.r = Wrap(input.r + k)]

(* Mutant of Advances: ^D is taken together with what is before it. *)
AdvancesPastEof(p) ==
  LET j == Stop(rd[p].left)
  IN  IF j = 0 THEN Min({rd[p].left, Dist(input.r, input.w)}) ELSE j

(* How far a reader gets: up to a newline, up to ^D (which is left for the *)
(* next read if there is something to return), or as far as there is       *)
(* input.                                                                  *)
Advances(p) ==
  LET j   == Stop(rd[p].left)
      eof == j # 0 /\ input.buf[At(input.r + j - 1)] = EOF
  IN  CASE j = 0 -> Min({rd[p].left, Dist(input.r, input.w)})
        [] j # 0 /\ eof /\ rd[p].left - (j - 1) < rd[p].target -> j - 1
        [] OTHER -> j

(* Mutant of ReadLine: a line shorter than the request is not returned. *)
ReadLineWhole(p) ==
  /\ Unlocked /\ rd[p].pc = "read"
  /\ rd[p].left <= Dist(input.r, input.w)
  /\ Advance(Advances(p))
  /\ Return(p)
  /\ UNCHANGED <<scr, panic, moved, stray, events>>

ReadLine(p) ==
  /\ Unlocked /\ rd[p].pc = "read"
  /\ Stop(rd[p].left) # 0 \/ rd[p].left <= Dist(input.r, input.w)
  /\ Advance(Advances(p))
  /\ Return(p)
  /\ UNCHANGED <<scr, panic, moved, stray, events>>

(* Input runs out: the killed flag is looked at, then the reader sleeps.   *)
ReadMore(p) ==
  LET k == Dist(input.r, input.w)
  IN  /\ Unlocked /\ rd[p].pc = "read"
      /\ Stop(rd[p].left) = 0 /\ k < rd[p].left
      /\ Advance(k)
      /\ IF rd[p].killed THEN Return(p)
         ELSE rd' = [rd EXCEPT ![p].pc = "dozing", ![p].left = rd[p].left - k]
      /\ UNCHANGED <<scr, panic, moved, stray, events>>

Sleep(p) ==
  /\ panic = "" /\ rd[p].pc = "dozing"
  /\ rd' = [rd EXCEPT ![p].pc = "asleep"]
  /\ UNCHANGED <<input, scr, panic, moved, stray, events>>

Kill(p) ==
  /\ panic = "" /\ ~rd[p].killed /\ Event
  /\ rd' = [rd EXCEPT ![p].killed = TRUE,
               ![p].pc = IF rd[p].pc = "asleep" THEN "read" ELSE rd[p].pc]
  /\ UNCHANGED <<input, scr, panic, moved, stray>>

Write(p, q) ==
  /\ Unlocked /\ rd[p].pc = "idle" /\ ~rd[p].killed /\ Event
  /\ Show(Cgaputs(scr, q))
  /\ moved' = (moved \/ input.e # input.w)
  /\ UNCHANGED <<input, rd, stray>>

Init ==
  /\ \E i \in FirstIndex :
       input = [buf |-> [k \in 1 .. INPUT_BUF |-> NL], r |-> i, w |-> i,
                e |-> i]
  /\ scr = [crt |-> [i \in Cells |-> ""], pos |-> 0, back |-> 0,
            bad |-> FALSE]
  /\ rd = [p \in Procs |-> [pc |-> "idle", left |-> 0, target |-> 0,
                            killed |-> FALSE]]
  /\ panic = "" /\ moved = FALSE /\ stray = FALSE /\ events = 0

Reader(p) == ReadLine(p) \/ ReadMore(p) \/ Sleep(p)

Next ==
  \/ \E c \in Keys : Key(c)
  \/ \E p \in Procs : Reader(p) \/ Kill(p)
  \/ \E p \in Procs, n \in Counts : Read(p, n)
  \/ \E p \in Procs, q \in Outputs : Write(p, q)

(* The scheduler gives every process its turn. *)
Spec == Init /\ [][Next]_vars /\ \A p \in Procs : WF_vars(Reader(p))

---------------------------------------------------------------------------
Span(i, j) == [k \in 1 .. Dist(i, j) |-> input.buf[At(i + k - 1)]]
Line  == Span(input.w, input.e)
Ready == Span(input.r, input.w)

(* The indices of the ring wrap as uints, and a read never has more left   *)
(* than it asked for.                                                      *)
TypeOK ==
  /\ {input.r, input.w, input.e} \subseteq 0 .. Word - 1
  /\ \A p \in Procs : rd[p].left \in 0 .. rd[p].target

Abstract == INSTANCE LineInput
  WITH Chars <- Letters \cup {NL, EOF}, Ends <- {NL, EOF},
       Capacity <- INPUT_BUF, line <- Line, ready <- Ready

(* The ring, its three wrapping indices and the editing keys implement a   *)
(* line being edited and completed input: nothing completed is edited, lost *)
(* or overwritten, and no read takes more than a line (refinement).        *)
IsLineInput == Abstract!Spec

(* A full ring can be read: input never stops with a reader waiting for a  *)
(* newline that there is no room to type.                                  *)
FullIsReadable == Full(input) => Line = <<>>

(* No reader sleeps while there is completed input for it.                 *)
NoSleepOverInput ==
  (\E p \in Procs : rd[p].pc = "asleep") => Ready = <<>>

(* ^D ends input exactly once: it is taken from the buffer only by a read  *)
(* that returns 0 bytes, also when other readers took what came before it  *)
(* ("Save ^D for next time" in consoleread).                               *)
EofReturnsNothing ==
  [][\A p \in Procs :
       /\ rd[p].pc = "read" /\ rd'[p].pc = "idle" /\ input'.r # input.r
       /\ input.buf[At(input'.r - 1)] = EOF
       => rd[p].left = rd[p].target /\ Dist(input.r, input'.r) = 1]_vars

(* The cells left of the cursor show the line as it is in the buffer,      *)
(* through backspace, ^U, wrapping and scrolling, as long as no cursor key *)
(* was used on it and nobody wrote in the middle of it.                    *)
EchoMatches ==
  ~moved /\ panic = "" =>
    \A k \in 1 .. Len(Line) : scr.crt[scr.pos - Len(Line) + k - 1] = Line[k]

(* cgaputc() panics only after a cursor key has taken the cursor off the   *)
(* lines it scrolls.                                                       *)
NoPanic == panic # "" => stray

(* Completed input is read as long as some process wants to read.          *)
InputIsRead ==
  (Ready # <<>> /\ \E p \in Procs : rd[p].pc \in {"read", "dozing", "asleep"})
  ~> (Ready = <<>> \/ panic # "" \/ \A p \in Procs : rd[p].pc = "idle")

(* Completed input can be read: nobody sleeps beside it and a full ring is *)
(* completed input (consoleintr, consoleread).                             *)
InputReachable == TypeOK /\ FullIsReadable /\ NoSleepOverInput

(* The screen shows the line being typed, cgaputc() stays on it, and       *)
(* back_counter never goes below 0.                                        *)
ScreenSound ==
  /\ EchoMatches /\ NoPanic
  /\ scr.pos \in 0 .. Register - 1 /\ scr.back \in 0 .. MaxEvents

(* consoleread() returns the edited lines, in order, and an end of file    *)
(* once.                                                                   *)
ReadsLines == IsLineInput /\ EofReturnsNothing
============================================================================
