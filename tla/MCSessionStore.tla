--------------------------- MODULE MCSessionStore ---------------------------
(* Small instances of the recorder and the clean-up for TLC. *)
EXTENDS SessionStore

CONSTANTS o1, o2

BornOf == [d \in Old |-> IF d = o1 THEN 0 ELSE 1]
=============================================================================
