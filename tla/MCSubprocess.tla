---------------------------- MODULE MCSubprocess ----------------------------
(***************************************************************************)
(* Subprocess for TLC: its constants are numbers, given in the .cfg files. *)
(***************************************************************************)
EXTENDS Subprocess
=============================================================================
