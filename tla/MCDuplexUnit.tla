---------------------------- MODULE MCDuplexUnit ----------------------------
(* Small instances of the full-duplex session for TLC. *)
EXTENDS DuplexUnit
=============================================================================
