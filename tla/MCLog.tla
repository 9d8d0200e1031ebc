------------------------------- MODULE MCLog -------------------------------
(* An instance of LogHist for TLC: two calls of two blocks each can write  *)
(* one block more than the three the log has beside its header.            *)
EXTENDS LogHist, TLC

BlockSymmetry == Permutations(Procs) \cup Permutations(Vals)
                   \cup Permutations(Blocks \ {InodeBlock})
=============================================================================
