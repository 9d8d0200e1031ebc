------------------------------- MODULE MCProc -------------------------------
(***************************************************************************)
(* Small instances of Proc for TLC.                                        *)
(***************************************************************************)
EXTENDS Proc, TLC

(* scheduler() runs the same code on every CPU. *)
CpuSymmetry == Permutations(CPUs)
=============================================================================
