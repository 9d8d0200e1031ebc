----------------------------- MODULE MCSpinLock -----------------------------
(* An instance of SpinLock for TLC: two CPUs, a process that sleeps and one *)
(* that kills it.                                                          *)
EXTENDS SpinLock

MCCalls == <<{"sleep"}, {"kill"}>>
============================================================================
