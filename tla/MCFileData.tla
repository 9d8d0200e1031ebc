---------------------------- MODULE MCFileData ----------------------------
(* An instance of FileData for TLC: files of two direct and two indirect   *)
(* blocks of two cells.                                                    *)
EXTENDS FileData

MCFirstOpen == [f \in Files |-> IF f = 1 THEN 2 ELSE 0]
===========================================================================
