------------------------------ MODULE Keyboard ------------------------------
(***************************************************************************)
(* The modifiers of kbdgetc() (kbd.c): scan codes arrive byte by byte, and *)
(* a key behind an E0 has two.  Which character the tables give is left    *)
(* out.                                                                    *)
(***************************************************************************)
EXTENDS Integers, Sequences

CONSTANTS Keys,     \* codes of keys; with 128 in it, an E0 goes first
          MaxBytes  \* bound on the bytes the controller holds

VARIABLES shift,    \* the static of kbdgetc()
          bytes,    \* what the controller has sent
          held      \* the keys that are down


E0ESC == "E0ESC"
Modifiers == {"SHIFT", "CTL", "ALT"}

shiftcode(k) == CASE k \in {42, 54} -> {"SHIFT"}
                  [] k \in {29, 157} -> {"CTL"}
                  [] k \in {56, 184} -> {"ALT"}
                  [] OTHER -> {}
togglecode(k) == CASE k = 58 -> {"CAPSLOCK"}
                   [] k = 69 -> {"NUMLOCK"}
                   [] k = 70 -> {"SCROLLLOCK"}
                   [] OTHER -> {}

Xor(A, B) == (A \ B) \cup (B \ A)

Released(d) ==
  shift \ (shiftcode(IF E0ESC \in shift THEN d ELSE d % 128) \cup {E0ESC})

Pressed(d) ==
  LET k == IF E0ESC \in shift THEN d + 128 ELSE d
  IN  Xor((shift \ {E0ESC}) \cup shiftcode(k), togglecode(k))

kbdgetc ==
  /\ bytes # <<>> /\ bytes' = Tail(bytes)
  /\ LET d == Head(bytes)
     IN  shift' = IF d = 224 THEN shift \cup {E0ESC}
                  ELSE IF d >= 128 THEN Released(d) ELSE Pressed(d)
  /\ UNCHANGED held

Send(k, d) ==
  /\ Len(bytes) + 2 <= MaxBytes
  /\ bytes' = bytes \o (IF k >= 128 THEN <<224>> ELSE <<>>) \o <<d>>
  /\ UNCHANGED shift

(* A key goes down, or repeats. *)
Press(k) == Send(k, k % 128) /\ held' = held \cup {k}
Release(k) == k \in held /\ Send(k, (k % 128) + 128) /\ held' = held \ {k}

KeyboardInit == shift = {} /\ bytes = <<>> /\ held = {}

KeyboardNext == kbdgetc \/ \E k \in Keys : Press(k) \/ Release(k)

-----------------------------------------------------------------------------
(* Once the bytes are read a modifier is set only while one of its keys is *)
(* down, in whatever order the left and the right one were pressed, and no *)
(* escape waits for its second byte.  (The converse fails: of two shift    *)
(* keys, the first release ends it.)                                       *)
NoModifierStuck ==
  bytes = <<>> =>
    /\ E0ESC \notin shift
    /\ \A m \in shift \cap Modifiers : \E k \in held : m \in shiftcode(k)
=============================================================================
