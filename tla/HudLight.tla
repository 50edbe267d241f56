------------------------------ MODULE HudLight ------------------------------
(***************************************************************************)
(* What the gateway does to the machine's record on behalf of the page:    *)
(* the event of a customer, the verdict on a turn of the operator (the     *)
(* semaphore) and the reset (gateway.py, hud_fsm_event, hud_fsm_omni_turn, *)
(* hud_fsm_reset_route).  What an event makes of a request is the matter   *)
(* of BookingFsm; here a record has a form (state, intent, values and      *)
(* status: what `sig` is made of), and an event may lead to any other.     *)
(*                                                                         *)
(* Three fields are history: age counts the changes of the record, era the *)
(* resets, given the helps since the form changed.  The program has seq.   *)
(***************************************************************************)
EXTENDS Naturals

CONSTANTS
  Forms,    \* forms of the record that are not the idle one
  Idle,     \* the form a reset leaves
  MaxSeq,   \* bound of the model: changes of one record
  MaxAge,   \* bound of the model: changes by events, and resets, in all
  MaxEra    \* bound of the model: resets

ASSUME HudLightAssumption ==
  /\ Idle \notin Forms
  /\ MaxSeq \in Nat
  /\ MaxAge \in Nat
  /\ MaxEra \in Nat

Lights == {"green", "yellow", "red"}

(* helped is the form that was helped last and helps how often.            *)
Record == [form: Forms \cup {Idle}, seq: 0..MaxSeq, light: Lights,
           helped: Forms \cup {Idle}, helps: 0..2,
           age: 0..MaxAge, era: 0..MaxEra, given: Nat]

Fresh == [form |-> Idle, seq |-> 0, light |-> "green", helped |-> Idle, helps |-> 0,
          age |-> 0, era |-> 0, given |-> 0]

(* _hud_fsm_reset: seq is not among the fields of a fresh record.  (To     *)
(* reset a record that is fresh is no change of it.)                       *)
Reset(f) ==
  [Fresh EXCEPT !.age = IF f.form = Idle /\ f.seq = 0 THEN f.age ELSE f.age + 1,
                !.era = f.era + 1]

(* Mutant: what closes a request gets no seq of its own                    *)
BumpQuietly(f, form) ==
  [f EXCEPT !.form = form, !.seq = IF f.form = Idle THEN @ + 1 ELSE @, !.age = @ + 1,
            !.given = IF form = f.form THEN @ ELSE 0]

(* bump of _hud_fsm_apply; a refused value changes the record and keeps    *)
(* its form.                                                               *)
Bump(f, form) ==
  [f EXCEPT !.form = form, !.seq = @ + 1, !.age = @ + 1,
            !.given = IF form = f.form THEN @ ELSE 0]

(* The records that _hud_fsm_apply may leave when it does not reset.       *)
Applied(f) == {f} \cup {Bump(f, form) : form \in Forms}

(* hud_fsm_event: a change caused by the customer turns the light green;   *)
(* a cancel, or a no to the question, resets.                              *)
Event(f) ==
  {f, Reset(f)} \cup {[g EXCEPT !.light = "green"] : g \in Applied(f) \ {f}}

(* _hud_supervise and what follows it: the verdict v has a light; g is the *)
(* record after the readback was applied.                                  *)
Lit(f, g, v) ==
  IF g # f /\ v.light = "yellow" /\ ~v.falseClaim THEN "green" ELSE v.light

(* A change of light, or of the hint that goes with a light that is not    *)
(* green, is a change of the record with a seq of its own.                 *)
Shine(g, light) ==
  LET shone == [g EXCEPT !.light = light, !.seq = @ + 1]
  IN  IF g.light # light THEN {shone}
      ELSE IF light = "green" THEN {g} ELSE {g, shone}

(* The operator needs help: he is stuck, or said something wrong.          *)
Needy(f, g, v) == (v.stuck /\ g = f) \/ Lit(f, g, v) = "red"

(* Mutant: only the helps for something wrong are counted                  *)
HelpsOfRed(g) == IF g.helped = g.form /\ g.light = "red" THEN g.helps ELSE 0

(* How often this form was helped: the light is not part of its signature. *)
HelpsOf(g) == IF g.helped = g.form THEN g.helps ELSE 0

(* After two helps the form gets no more: a yellow light goes out.         *)
Help(g) ==
  IF HelpsOf(g) >= 2
  THEN [g EXCEPT !.light = IF @ = "yellow" THEN "green" ELSE @]
  ELSE [g EXCEPT !.helped = g.form, !.helps = HelpsOf(g) + 1, !.given = @ + 1]

(* The records that the verdict v may leave; readback says that it may be  *)
(* applied to the request (turns that were cut, and silences, are not).    *)
JudgedBy(f, v, readback) ==
  UNION {{IF Needy(f, g, v) THEN Help(lit) ELSE lit : lit \in Shine(g, Lit(f, g, v))}
         : g \in IF readback THEN Applied(f) ELSE {f}}

(* What the judge and the comparison with the bookings can come to.        *)
Verdicts ==
  {v \in [stuck: BOOLEAN, light: Lights, falseClaim: BOOLEAN] :
     /\ v.stuck => v.light # "green"
     /\ v.falseClaim => v.light = "yellow"}

Fits(f) == f.seq <= MaxSeq /\ f.age <= MaxAge /\ f.era <= MaxEra

=============================================================================
