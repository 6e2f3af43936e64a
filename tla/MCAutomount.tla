---------------------------- MODULE MCAutomount ----------------------------
(* Automount for TLC: the constants are given in the .cfg files. *)
EXTENDS Automount
=============================================================================
