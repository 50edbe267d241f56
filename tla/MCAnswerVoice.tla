--------------------------- MODULE MCAnswerVoice ---------------------------
(* A small instance of an answer and its voice for TLC. *)
EXTENDS AnswerVoice
=============================================================================
