------------------------------ MODULE Filters ------------------------------
(***************************************************************************)
(* grep (grep.c) and wc (wc.c), which read a file in pieces: a pipe or the *)
(* console returns fewer bytes than were asked for.                        *)
(***************************************************************************)
EXTENDS Integers, Sequences, SequencesExt, FiniteSetsExt

CONSTANTS BufSize,  \* sizeof(buf)
          Pattern   \* what grep looks for

VARIABLES data,    \* what there is to read
          pos,     \* bytes read so far
          buf,     \* grep: the m bytes kept
          out,     \* grep: the lines written
          dropped, \* history: grep has met a read without a newline
          count    \* wc: [l, w, c, inword]


NL == "nl"
Blanks == {" ", NL}

----------------------------------------------------------------------------
(* The matcher *)

Rest(s) == SubSeq(s, 2, Len(s))
Is(s, i, c) == i <= Len(s) /\ s[i] = c

RECURSIVE matchhere(_, _), matchstar(_, _, _)

matchstar(c, re, text) ==
  \/ matchhere(re, text)
  \/ text # <<>> /\ c \in {".", text[1]} /\ matchstar(c, re, Rest(text))

matchhere(re, text) ==
  IF re = <<>> THEN TRUE
  ELSE IF Is(re, 2, "*") THEN matchstar(re[1], SubSeq(re, 3, Len(re)), text)
  ELSE IF re = <<"$">> THEN text = <<>>
  ELSE /\ text # <<>> /\ re[1] \in {".", text[1]}
       /\ matchhere(Rest(re), Rest(text))

match(re, text) ==
  IF Is(re, 1, "^") THEN matchhere(Rest(re), text)
  ELSE \E i \in 1 .. Len(text) + 1 :
         matchhere(re, SubSeq(text, i, Len(text)))

(* The meaning of a pattern: its items begin at the places that no star    *)
(* occupies; an item takes one character, or as many as it likes.          *)
Items(re) ==
  LET RECURSIVE From(_)
      From(i) == IF i > Len(re) THEN <<>>
                 ELSE IF Is(re, i + 1, "*")
                      THEN << <<re[i], TRUE>> >> \o From(i + 2)
                      ELSE << <<re[i], FALSE>> >> \o From(i + 1)
  IN  From(IF Is(re, 1, "^") THEN 2 ELSE 1)

(* Places 1 = p[1] <= p[2] ... in the text where the items end. *)
Denotes(re, text) ==
  LET all == Items(re)
      end == all # <<>> /\ Last(all) = <<"$", FALSE>>
      it  == IF end THEN Front(all) ELSE all
  IN  \E p \in [1 .. Len(it) + 1 -> 0 .. Len(text)] :
        /\ Is(re, 1, "^") => p[1] = 0
        /\ end => p[Len(it) + 1] = Len(text)
        /\ \A k \in DOMAIN it :
             /\ p[k] <= p[k + 1] /\ (it[k][2] \/ p[k + 1] = p[k] + 1)
             /\ \A j \in p[k] + 1 .. p[k + 1] : it[k][1] \in {".", text[j]}

----------------------------------------------------------------------------
(* Reading *)

(* The lines that end in s, each with its newline. *)
Ends(s) == {i \in DOMAIN s : s[i] = NL}
RECURSIVE LinesFrom(_)
LinesFrom(s) ==
  IF Ends(s) = {} THEN <<>>
  ELSE LET i == Min(Ends(s))
       IN  <<SubSeq(s, 1, i)>> \o LinesFrom(SubSeq(s, i + 1, Len(s)))

Matching(ls) ==
  SelectSeq(ls, LAMBDA x : match(Pattern, SubSeq(x, 1, Len(x) - 1)))

(* Mutant of Keep: the rest of a line is forgotten. *)
KeepNone(s) == <<>>

(* What stays in the buffer: the line that has begun, and nothing if no    *)
(* newline was found (p == buf).                                           *)
Keep(s) == IF Ends(s) = {} THEN <<>> ELSE SubSeq(s, Max(Ends(s)) + 1, Len(s))

(* read() returns n bytes to grep. *)
GrepRead(n) ==
  LET s == buf \o SubSeq(data, pos + 1, pos + n)
  IN  /\ n <= BufSize - Len(buf) - 1 /\ pos + n <= Len(data)
      /\ out' = out \o Matching(LinesFrom(s))
      /\ buf' = Keep(s)
      /\ dropped' = (dropped \/ Ends(s) = {})
      /\ pos' = pos + n
      /\ UNCHANGED <<data, count>>

Counts(k, c) ==
  [l |-> k.l + IF c = NL THEN 1 ELSE 0,
   w |-> k.w + IF c \notin Blanks /\ ~k.inword THEN 1 ELSE 0,
   c |-> k.c + 1,
   inword |-> c \notin Blanks]

Start == count

(* read() returns n bytes to wc. *)
WcRead(n) ==
  /\ n <= BufSize /\ pos + n <= Len(data)
  /\ count' = FoldLeft(Counts, Start, SubSeq(data, pos + 1, pos + n))
  /\ pos' = pos + n
  /\ UNCHANGED <<data, buf, out, dropped>>

FiltersInit ==
  /\ pos = 0 /\ buf = <<>> /\ out = <<>> /\ dropped = FALSE
  /\ count = [l |-> 0, w |-> 0, c |-> 0, inword |-> FALSE]

GrepNext == \E n \in 1 .. BufSize : GrepRead(n)
WcNext == \E n \in 1 .. BufSize : WcRead(n)

----------------------------------------------------------------------------
Read == SubSeq(data, 1, pos)

(* grep writes the lines that match, each whole and once, however the      *)
(* reads cut them: a line that has begun is kept for the next read.  (A    *)
(* read that brings no newline drops what the buffer holds.)               *)
GrepsLines == ~dropped => out = Matching(LinesFrom(Read))

(* wc counts a word that two reads share once.                             *)
CountsWords ==
  /\ count.l = Cardinality(Ends(Read)) /\ count.c = pos
  /\ count.w = Cardinality({i \in 1 .. pos : data[i] \notin Blanks /\
                              (i = 1 \/ data[i - 1] \in Blanks)})
============================================================================
