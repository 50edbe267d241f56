------------------------------ MODULE MCBackend ------------------------------
(* Small instances of the worker and its backend for TLC. *)
EXTENDS BackendBridge

(* Two inputs of a full-duplex session: the second one meets the           *)
(* finalisation of the first.  One of a turn-based session.                *)
Inputs == [s \in Sessions |-> IF s \in Duplex THEN 2 ELSE 1]
=============================================================================
