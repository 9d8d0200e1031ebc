------------------------------ MODULE LogHist ------------------------------
(***************************************************************************)
(* The log with a history of its one failure.  The header of mkfs's disk   *)
(* takes one of the LOGSIZE blocks of the log, so that struct logheader    *)
(* has an entry more than the log has blocks for.  log_write() is to stop  *)
(* short of it, but tests log.lh.n without log.lock: two calls that race   *)
(* through the test with one block left fill the last entry as well, and   *)
(* write_log() writes its block over the first block of inodes.            *)
(***************************************************************************)
EXTENDS Log

VARIABLE overran  \* history: write_log() came to an entry without a block

histvars == <<vars, overran>>

(* The block that write_log is about to write is one of the log's. *)
Inside == \A p \in Procs : pc[p] = "write_log" => tail + 1 \in Slots

HistInit == Init /\ overran = FALSE

HistNext == Next /\ overran' = (overran \/ ~Inside')

HistSpec == HistInit /\ [][HistNext]_histvars

(* log.c implements atomic transactions until a race through log_write()'s *)
(* unlocked test makes write_log() leave the log: whatever the             *)
(* interleaving of the calls and wherever crashes fall, in commit() or in  *)
(* recovery itself, the recovered disk is the one of the last header       *)
(* write.  From the overrun on nothing is promised.                        *)
Atomic == Abs!Init /\ [][Abs!Next \/ overran']_(Abs!vars)
=============================================================================
