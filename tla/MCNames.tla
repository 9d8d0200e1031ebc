------------------------------ MODULE MCNames ------------------------------
(* An instance of Names for TLC: "/a" and "/a/a" are directories, "/b" is  *)
(* a file.                                                                 *)
EXTENDS Names, TLC

Dir(self, up, n, ents) ==
  [type |-> "dir", nlink |-> n,
   ents |-> ents @@ [x \in Dots |-> IF x = "." THEN self ELSE up] @@ NoEnts]

File(n) == [FreeInode EXCEPT !.type = "file", !.nlink = n]

(* As above; with "/a/a" removed, though it is the current directory of    *)
(* process 1; and with "/b" open.                                          *)
Root == Dir(1, 1, 2, [x \in {"a", "b"} |-> IF x = "a" THEN 2 ELSE 4])
Whole   == <<Root, Dir(2, 1, 2, [x \in {"a"} |-> 3]), Dir(3, 2, 1, <<>>),
             File(1), FreeInode>>
Removed == <<Root, Dir(2, 1, 1, <<>>), Dir(3, 2, 0, <<>>), File(1), FreeInode>>
Apart   == [p \in Users |-> IF p = 1 THEN 3 ELSE 1]

MCStarts ==
  {[tree |-> Whole, home |-> Apart, open |-> 0],
   [tree |-> Removed, home |-> Apart, open |-> 0],
   [tree |-> Whole, home |-> [p \in Users |-> 1], open |-> 4]}

Abs(e) == [abs |-> TRUE, elems |-> e]
Rel(e) == [abs |-> FALSE, elems |-> e]
Op(op, path) == [op |-> op, path |-> path]
Open(path, create, write) ==
  [op |-> "open", path |-> path, create |-> create, write |-> write]
Link(old, new) == [op |-> "link", path |-> old, new |-> new]

MCCalls ==
  {Open(Abs(<<"b">>), FALSE, TRUE), Open(Abs(<<"a", "b">>), TRUE, TRUE),
   Op("mkdir", Rel(<<"b">>)), Op("mknod", Abs(<<"a", "b">>)),
   Op("unlink", Abs(<<"b">>)), Op("unlink", Abs(<<"a", "a">>)),
   Op("unlink", Abs(<<"a">>)), Op("unlink", Abs(<<"a", "b">>)),
   Op("chdir", Rel(<<"..">>)), Op("exec", Abs(<<"b">>)),
   Link(Abs(<<"b">>), Rel(<<".">>)), Link(Abs(<<"b">>), Abs(<<"a", "b">>))}
  \cup {[op |-> x] : x \in {"close", "dup", "fork", "exit", "pipe", "fstat"}}
============================================================================
