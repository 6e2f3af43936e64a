----------------------------- MODULE MCParsers ------------------------------
(* Parsers for TLC: the constants are given in the .cfg file. *)
EXTENDS Parsers
=============================================================================
