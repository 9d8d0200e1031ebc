----------------------------- MODULE ByteQueue -----------------------------
(***************************************************************************)
(* What a pipe promises: bytes come out in the order they went in, none    *)
(* lost, none twice, and never more than Capacity of them are inside.      *)
(***************************************************************************)
EXTENDS Naturals, Sequences

CONSTANTS Bytes, Capacity

VARIABLES
  queue,  \* bytes in the pipe
  out     \* the byte delivered last

Init == queue = <<>> /\ out \in Bytes

Put(v) ==
  /\ Len(queue) < Capacity
  /\ queue' = Append(queue, v)
  /\ UNCHANGED out

Get ==
  /\ queue # <<>>
  /\ out' = Head(queue)
  /\ queue' = Tail(queue)

Next == Get \/ \E v \in Bytes : Put(v)

Spec == Init /\ [][Next]_<<queue, out>>
=============================================================================
