---------------------------- MODULE MCMtpSession ----------------------------
(* Small instances of MtpSession for TLC. *)
EXTENDS MtpSession
=============================================================================
