----------------------------- MODULE MCReadPath -----------------------------
(* ReadPath for TLC: the constants are given in the .cfg files. *)
EXTENDS ReadPath
=============================================================================
