-------------------------- MODULE BookingContract --------------------------
(***************************************************************************)
(* What the desk promises whatever is said: a booking is written only when *)
(* it was asked for as a question, with all its values, and it still       *)
(* clashes with none; one is removed only when its removal was asked for.  *)
(* The booking form may change the bookings at any time.                   *)
(***************************************************************************)
EXTENDS Naturals

CONSTANTS
  Slots,      \* [month, day, time] records
  FormSlots,  \* the slots the form books and frees
  AllDay,     \* the whole day as a time; other times are spans <<from, to>>
  None        \* no question

VARIABLES
  question,   \* the open yes/no question: None or [about, slot]
  booked      \* the bookings

vars == <<question, booked>>

(* Two times meet: a point is a moment, a span lacks its end, and a span   *)
(* that ends after midnight takes the rest of its day.                     *)
Moment(t) == t[1] = t[2]
Until(t)  == IF t[2] < t[1] THEN 24 ELSE t[2]

Meets(t, u) ==
  \/ AllDay \in {t, u}
  \/ /\ AllDay \notin {t, u}
     /\ CASE Moment(t) /\ Moment(u)  -> t = u
          [] Moment(t) /\ ~Moment(u) -> u[1] <= t[1] /\ t[1] < Until(u)
          [] ~Moment(t) /\ Moment(u) -> t[1] <= u[1] /\ u[1] < Until(t)
          [] OTHER                   -> t[1] < Until(u) /\ u[1] < Until(t)

Clash(x, y) == x.month = y.month /\ x.day = y.day /\ Meets(x.time, y.time)

Bookable(x) == \A y \in booked : ~Clash(x, y)

(* A question is put, or put differently. *)
Ask ==
  /\ \E x \in Slots :
       \/ Bookable(x)   /\ question' = [about |-> "book", slot |-> x]
       \/ x \in booked  /\ question' = [about |-> "unbook", slot |-> x]
  /\ UNCHANGED booked

(* It is dropped: refused, outdated, or answered too late. *)
Drop == question' = None /\ UNCHANGED booked

(* It is answered by yes. *)
Agree ==
  /\ question # None
  /\ LET x == question.slot
     IN  \/ question.about = "book" /\ Bookable(x) /\ booked' = booked \cup {x}
         \/ question.about = "unbook" /\ x \in booked /\ booked' = booked \ {x}
  /\ question' = None

Form ==
  /\ \E x \in FormSlots : booked' \in {booked \cup {x}, booked \ {x}}
  /\ UNCHANGED question

(* The desk is wiped. *)
Wipe == question' = None /\ booked' = {}

Init == question = None /\ booked \subseteq Slots

Next == Ask \/ Drop \/ Agree \/ Form \/ Wipe

Spec == Init /\ [][Next]_vars

=============================================================================
