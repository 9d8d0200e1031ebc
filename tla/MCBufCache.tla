----------------------------- MODULE MCBufCache -----------------------------
(* An instance of BufCache for TLC; the .cfg file gives the constants. *)
EXTENDS BufCache
=============================================================================
