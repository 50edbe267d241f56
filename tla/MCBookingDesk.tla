--------------------------- MODULE MCBookingDesk ---------------------------
(* A desk of two days and two hours for TLC. *)
EXTENDS BookingDesk

NineToTen  == {<<9, 10>>}

(* Lines of the customer: answers, an intent, a value with or without one, *)
(* a whole request, numbers that may be a day or an hour.                  *)
Say(i, m, d, t) == Call("set", i, m, d, t)
MaybeIntent == Intents \cup {None}

Answers == {Call(n, None, None, None, None) : n \in {"yes", "no", "cancel", "none"}}
MonthLines == {Say(None, m, None, None) : m \in Months \cup {Unclear}}
DayLines == {Say(i, None, d, None) : i \in MaybeIntent, d \in Days}
              \cup {Say(None, None, v, None) : v \in {Any, Unclear}}
TimeLines == {Say(i, None, None, t) : i \in {"book", None}, t \in Times}
               \cup {Say("check", None, None, AllDay)}
               \cup {Say(None, None, None, v) : v \in {AllDay, Any, Unclear}}
Wholes  == {Say(i, m, d, t) : i \in Intents, m \in Months, d \in Days, t \in Times}
Numbers == {[Say(None, Unclear, None, None) EXCEPT !.number = n] : n \in Days}
             \cup {[Say("book", None, n, Hour(n)) EXCEPT !.number = n] : n \in Days}
             \cup {[Say("book", None, None, None) EXCEPT !.number = n] : n \in Days}
YesBut  == {Call("yes", None, None, None, t) : t \in Times}

PlainLines == Answers \cup MonthLines \cup DayLines \cup YesBut
                \cup {Say(i, None, None, None) : i \in Intents}
                \cup {c \in TimeLines : c.intent = None}
                \cup {c \in Numbers : c.number = 10}
                \cup {c \in Wholes : c.intent # "check" /\ c.day = 9 /\ c.time = Hour(9)}

(* Lines that leave the choice to the desk, and those that lead there.    *)
ChoiceLines == {c \in Answers : c.name # "cancel"}
                 \cup {Say(i, m, None, None) : i \in {"check", "book"}, m \in Months}
                 \cup {Say(None, None, v, None) : v \in {9, YouPick}}
                 \cup {Say(None, None, None, v) : v \in {Any, YouPick}}
                 \cup {Say(i, m, 10, Hour(10)) : i \in {"book", "unbook"}, m \in Months}

(* Turns of the operator: he repeats a value, proposes, or asserts.       *)
Hears(m, d, t) == Call("heard", None, m, d, t)
SlotFree(m, d, t) == [Hears(m, d, t) EXCEPT !.claim = "slot_free"]
Claims == {[Hears(None, None, t) EXCEPT !.claim = "slot_taken"] : t \in Times}
PlainTurns == {Hears(None, d, None) : d \in Days} \cup {Hears(None, None, t) : t \in Times}
                \cup {SlotFree(None, d, None) : d \in Days} \cup {SlotFree(None, 9, Hour(9))}
                \cup {SlotFree(None, None, t) : t \in Times} \cup Claims
FewTurns  == {Hears(None, 9, None), SlotFree(None, None, Hour(10))}

On(m, d, t) == [month |-> m, day |-> d, time |-> t]
FormTwo == {On(m, 9, Hour(9)) : m \in Months} \cup {On(m, 10, <<9, 10>>) : m \in Months}
NineOf  == {On(m, 9, Hour(9)) : m \in Months}
None0   == {}
=============================================================================
