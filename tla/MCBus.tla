------------------------------- MODULE MCBus --------------------------------
(* Bus for TLC: the constants are given in the .cfg file. *)
EXTENDS Bus
=============================================================================
