----------------------------- MODULE MCHudPage -----------------------------
(* A call at the booking desk small enough for TLC. *)
EXTENDS HudPage, TLC

(* Nothing tells the verdicts under way apart but what they carry. *)
CallSymmetry == Permutations(Calls)

=============================================================================
