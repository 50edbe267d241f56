--------------------------- MODULE MCTurnSession ---------------------------
(* Small instances of the turn-based sessions for TLC. *)
EXTENDS TurnSession
=============================================================================
