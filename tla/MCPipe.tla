------------------------------- MODULE MCPipe -------------------------------
(* Instances of Pipe for TLC; the .cfg files give the constants. *)
EXTENDS Pipe
=============================================================================
