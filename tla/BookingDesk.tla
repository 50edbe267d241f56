---------------------------- MODULE BookingDesk ----------------------------
(***************************************************************************)
(* The desk of gateway.py: the machine of BookingFsm, the bookings, and    *)
(* the requests that change them. The page posts each line of the customer *)
(* (hud_fsm_event) and each turn of the operator (hud_fsm_omni_turn); the  *)
(* booking form posts bookings on its own (hud_db_book, hud_db_unbook)     *)
(* without a look at the machine; either may be reset.                     *)
(*                                                                         *)
(* Every route awaits only its request's body and then runs to its end, so *)
(* a request is one action; any request may follow any other. The record   *)
(* is saved at each change and read back at a restart, which is therefore  *)
(* no step of its own.                                                     *)
(***************************************************************************)
EXTENDS BookingFsm

CONSTANTS
  CustomerCalls,    \* what the extractor makes of the customer's lines
  OperatorCalls,    \* what the judge reads in the operator's turns
  FormSlots,        \* the slots that the form books and frees
  InitialBookings   \* the bookings before the first line

(* The routes normalise what they are sent: an intent that is none of the  *)
(* three is empty, and a turn's values are values or empty (no Any, no     *)
(* whole day). The empty string is no question.                            *)
ASSUME DeskAssumption ==
  /\ FormSlots \subseteq Slots /\ InitialBookings \subseteq Slots
  /\ \A c \in CustomerCalls : /\ c.name \in {"set", "yes", "no", "cancel", "none"}
                             /\ c.intent \in Intents \cup {None}
  /\ \A c \in OperatorCalls : /\ c.name = "heard"
                             /\ c.month \in Months \cup {None}
                             /\ c.day \in Days \cup {None}
                             /\ c.time \in Times \cup {None}
  /\ None \notin [about : {"book", "unbook"}, slot : Slots]

VARIABLES
  fsm,      \* _HUD_DB["fsm"]
  booked    \* the booked entries of _HUD_DB["slots"]

vars == <<fsm, booked>>

Becomes(r) == fsm' = r.fsm /\ booked' = r.booked

Do(c) == Becomes(Apply(fsm, booked, c))

CustomerLine(c) == c \in CustomerCalls /\ Do(c)
OperatorTurn(c) == c \in OperatorCalls /\ Do(c)

(* More than eight seconds have gone by since the unbound yes. *)
YesFades ==
  /\ fsm.unbound
  /\ fsm' = [fsm EXCEPT !.unbound = FALSE]
  /\ UNCHANGED booked

(* The form writes what it is told, over whatever is there. *)
FormBooks(x)   == booked' = booked \cup {x} /\ UNCHANGED fsm
FormUnbooks(x) == booked' = booked \ {x} /\ UNCHANGED fsm

MachineReset == fsm' = IdleFsm /\ UNCHANGED booked
DeskReset    == fsm' = IdleFsm /\ booked' = {}

Init == fsm = IdleFsm /\ booked = InitialBookings

Next ==
  \/ \E c \in CustomerCalls : CustomerLine(c)
  \/ \E c \in OperatorCalls : OperatorTurn(c)
  \/ YesFades
  \/ \E x \in FormSlots : FormBooks(x) \/ FormUnbooks(x)
  \/ MachineReset
  \/ DeskReset

Spec == Init /\ [][Next]_vars

----------------------------------------------------------------------------
(* Properties. *)

Offers == fsm.state = "CONFIRM" /\ fsm.status \in {"pending", "available"}

(* The question on the screen: an offer of a slot with a time is a         *)
(* question to book it.                                                    *)
Question ==
  CASE Offers /\ fsm.slots.time # AllDay ->
         [about |-> "book", slot |-> fsm.slots]
    [] fsm.state = "CONFIRM" /\ fsm.status = "pending_cancel" ->
         [about |-> "unbook", slot |-> fsm.slots]
    [] OTHER -> None

Contract == INSTANCE BookingContract WITH question <- Question

(* The desk keeps the contract: through corrections, proposals, refusals,  *)
(* delegated choices and the form's bookings in between, what a yes writes *)
(* or removes is what the screen was asking, checked again.                *)
KeepsContract == Contract!Spec

(* While nobody uses the form, a question stays true: what CONFIRM offers  *)
(* is free, what it asks to cancel is booked, whatever was said since.     *)
QuestionsStayTrue ==
  /\ Offers => Free(booked, fsm.slots.month, fsm.slots.day, fsm.slots.time)
  /\ fsm.state = "CONFIRM" /\ fsm.status = "pending_cancel" => fsm.slots \in booked

(* No two bookings clash, by a definition of clashing that owes nothing to *)
(* the one the desk looks up with.                                         *)
NoClash == \A x, y \in booked : x # y => ~Contract!Clash(x, y)

(* A request that is being collected is never at a dead end: the screen    *)
(* asks for every gap, and without a gap there is a time that was not      *)
(* understood or a value of the operator's for the customer to confirm.    *)
CollectingAsks ==
  fsm.state = "COLLECTING" =>
    /\ fsm.missing # {} \/ Marked(fsm.marks) # {}
    /\ MissingOf(fsm.intent, fsm.slots) \subseteq fsm.missing

(* The operator never overrules the customer: a turn of his leaves every   *)
(* value of a request alone that is not a proposal of his own.             *)
CustomerOverrules ==
  \A c \in OperatorCalls :
    LET after == Apply(fsm, booked, c).fsm.slots
    IN  \A k \in Fields : fsm.slots[k] # None /\ fsm.marks[k] # "proposal"
                           => after[k] = fsm.slots[k]

(* A whole request that is said twice changes nothing the second time.     *)
Whole(c) == /\ c.name = "set" /\ c.intent # None /\ c.month \in Months
            /\ c.day \in Days /\ c.time \in Times /\ c.number = None

RepeatIsNull ==
  \A c \in CustomerCalls : Whole(c) =>
    LET once == Apply(fsm, booked, c)
    IN  ~Apply(once.fsm, once.booked, c).changed

(* Yes is the one event that writes: whatever else is said, by whomever,   *)
(* in whatever state, and also when a late proposal meets an earlier yes,  *)
(* the bookings stay; and a yes with a value in it is a correction.        *)
OnlyYesWrites ==
  \A c \in CustomerCalls \cup OperatorCalls :
    Apply(fsm, booked, c).booked # booked
      => c.name = "yes" /\ ~Says(c) /\ fsm.state = "CONFIRM"

(* A value that the customer refused is not proposed to him again by the   *)
(* desk that picks for him, however many refusals follow.                  *)
RefusedStaysRefused ==
  \A c \in CustomerCalls, k \in {"day", "time"} :
    LET answer == Apply(fsm, booked, c)
        after  == answer.fsm
    IN  c.name = "no" /\ answer.changed /\ k \in after.pick /\ after.marks[k] = "proposal"
          => after.slots[k] \notin after.skip[k]
=============================================================================
