--------------------------- MODULE MCCmdExecutor ----------------------------
(* Instances of CmdExecutor for TLC. *)
EXTENDS CmdExecutor
=============================================================================
