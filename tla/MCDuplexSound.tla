--------------------------- MODULE MCDuplexSound ---------------------------
(* An instance of DuplexSound: a second of four frames of two samples and  *)
(* of four tokens of the voice.                                            *)
EXTENDS DuplexSound

MCPieces == {3, 8, 17}
=============================================================================
