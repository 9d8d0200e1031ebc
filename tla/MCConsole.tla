----------------------------- MODULE MCConsole -----------------------------
(* An instance of Console for TLC: a ring of three characters, a screen of *)
(* two lines of three cells.                                                *)
EXTENDS Console

MCOutputs == {<<"$", " ">>}
============================================================================
