---------------------------- MODULE LineInput ----------------------------
(***************************************************************************)
(* What console input promises: a line being edited, and completed input   *)
(* that reads take from the front, no read reaching past the end of a      *)
(* line.                                                                   *)
(***************************************************************************)
EXTENDS Integers, Sequences

CONSTANTS Chars, Ends, Capacity

VARIABLES line, ready

Init == line = <<>> /\ ready = <<>>

(* A character is added; a line that ends, or fills the buffer, is ready.  *)
Type(c) ==
  LET l == Append(line, c)
  IN  /\ Len(line) + Len(ready) < Capacity
      /\ IF c \in Ends \/ Len(l) + Len(ready) = Capacity
         THEN line' = <<>> /\ ready' = ready \o l
         ELSE line' = l /\ UNCHANGED ready

Erase ==
  line # <<>> /\ line' = SubSeq(line, 1, Len(line) - 1) /\ UNCHANGED ready

KillLine == line' = <<>> /\ UNCHANGED ready

Read(k) == /\ \A j \in 1 .. k - 1 : ready[j] \notin Ends
           /\ ready' = SubSeq(ready, k + 1, Len(ready))
           /\ UNCHANGED line

Next == \/ \E c \in Chars : Type(c)
        \/ Erase \/ KillLine
        \/ \E k \in 1 .. Len(ready) : Read(k)

Spec == Init /\ [][Next]_<<line, ready>>
==========================================================================
