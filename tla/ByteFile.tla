----------------------------- MODULE ByteFile -----------------------------
(***************************************************************************)
(* What readi(), writei() and itrunc() promise: a file is a sequence of    *)
(* bytes, and nothing that is done to one file shows in another.           *)
(***************************************************************************)
EXTENDS Integers, Sequences

CONSTANTS Files,     \* the files
          Bytes,     \* what is written
          MaxChunk,  \* the most that one step writes
          MaxSize    \* the largest file

VARIABLE content

Init == \A f \in Files : content[f] \in Seq(Nat) /\ Len(content[f]) <= MaxSize

(* n bytes b from offset off on, which is at most the size. *)
Overwrite(s, off, n, b) ==
  [k \in 1 .. (IF off + n > Len(s) THEN off + n ELSE Len(s)) |->
     IF off < k /\ k <= off + n THEN b ELSE s[k]]

(* A step empties the file s or writes one chunk. *)
Changes(s, t) ==
  \/ t = <<>>
  \/ \E off \in 0 .. Len(s), n \in 1 .. MaxChunk, b \in Bytes :
       off + n <= MaxSize /\ t = Overwrite(s, off, n, b)

Next == \E f \in Files : LET new == content'
                         IN  /\ Changes(content[f], new[f])
                             /\ \A g \in Files \ {f} : new[g] = content[g]

Spec == Init /\ [][Next]_content
===========================================================================
