---------------------------- MODULE MCDataPhase ----------------------------
(* DataPhase for TLC: the constants are given in the .cfg file. *)
EXTENDS DataPhase
=============================================================================
