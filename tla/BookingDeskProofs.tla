------------------------- MODULE BookingDeskProofs -------------------------
(***************************************************************************)
(* Theorems about the booking machine, for every set of months, days,      *)
(* hours, spans and calls, in this order:                                  *)
(*   OnlyYes             only a plain yes to a question writes;            *)
(*   OfferStands         the question on the screen stays true;            *)
(*   NeverDoubleBooked   no two bookings clash;                            *)
(*   CustomersWordCounts the operator does not overrule the customer;      *)
(*   NoMeansNo           what was refused is not proposed again;           *)
(*   ContractKept        the desk implements BookingContract;              *)
(*   NoDeadEnd           a request being collected always asks something;  *)
(*   TwiceIsOnce         a whole request said twice is said once.          *)
(* The lemmas follow a request through the machine, helper by helper. The  *)
(* inductive invariant is DeskInv (the record is well made and, in         *)
(* CONFIRM, one of the answers that end in a question), to which each      *)
(* theorem adds what it needs: Truth, AskOK, AsksHourly.                   *)
(***************************************************************************)
EXTENDS BookingDesk, WellFoundedInduction, FiniteSetTheorems, TLAPS

(* A request that no yes has confirmed. *)
Unconfirmed(r) == "confirmed" \in DOMAIN r /\ r.confirmed = FALSE

----------------------------------------------------------------------------
LEMMA ExecReads ==
  ASSUME NEW b, NEW intent, NEW x
  PROVE  Exec(b, intent, x, FALSE).booked = b
<1>1. ExecCheck(b, x).booked = b
  BY DEF ExecCheck, Outcome
<1>2. ExecBook(b, x, FALSE).booked = b
  <2>1. CASE FreeSlot(b, x)
    BY <2>1 DEF ExecBook, Outcome
  <2>2. CASE ~FreeSlot(b, x)
    BY <2>2 DEF ExecBook, Outcome
  <2> QED
    BY <2>1, <2>2
<1>3. ExecUnbook(b, x, FALSE).booked = b
  BY DEF ExecUnbook, Outcome
<1> QED
  BY <1>1, <1>2, <1>3 DEF Exec

LEMMA SettleWrites ==
  ASSUME NEW f, NEW g, NEW b
  PROVE  Settle(f, g, b).booked = b
BY DEF Settle, Unchanged, Changed

LEMMA AnswerWrites ==
  ASSUME NEW f, NEW r, NEW e
  PROVE  Answer(f, r, e).booked = e.booked
BY SettleWrites DEF Answer

LEMMA ExecuteReads ==
  ASSUME NEW f, NEW b, NEW r, Unconfirmed(r)
  PROVE  Execute(f, b, r).booked = b
<1> DEFINE e == Exec(b, r.intent, SlotOf(r.slots), r.confirmed)
<1>1. e.booked = b
  BY ExecReads DEF Unconfirmed
<1>2. Execute(f, b, r) = Answer(f, r, e)
  BY DEF Execute
<1> HIDE DEF e
<1> QED
  BY <1>1, <1>2, AnswerWrites

LEMMA OnlyBookingKeeps ==
  ASSUME NEW b, NEW r, Unconfirmed(r)
  PROVE  Unconfirmed(OnlyBooking(b, r))
BY DEF OnlyBooking, Unconfirmed

LEMMA DelegatedKeeps ==
  ASSUME NEW f, NEW b, NEW r, Unconfirmed(r)
  PROVE  Unconfirmed(Delegated(f, b, r))
BY DEF Delegated, Picked, Unconfirmed

(* An unconfirmed request writes nothing. *)
LEMMA ConcludeReads ==
  ASSUME NEW f, NEW b, NEW r, Unconfirmed(r)
  PROVE  Conclude(f, b, r).booked = b
<1> DEFINE s == Delegated(f, b, OnlyBooking(b, r))
<1>1. Unconfirmed(s)
  BY OnlyBookingKeeps, DelegatedKeeps
<1>2. Execute(f, b, s).booked = b
  BY <1>1, ExecuteReads
<1>3. \A g : Settle(f, g, b).booked = b
  BY SettleWrites
<1>4. Conclude(f, b, r) = Finish(f, b, s)
  BY DEF Conclude
<1> HIDE DEF s
<1> QED
  BY <1>2, <1>3, <1>4 DEF Finish

LEMMA RequestUnconfirmed ==
  ASSUME NEW intent, NEW s, NEW marks, NEW pick, NEW skip
  PROVE  /\ Unconfirmed(Request(intent, s, marks, pick, skip))
         /\ Unconfirmed([Request(intent, s, marks, pick, skip) EXCEPT !.offer = TRUE])
         /\ Unconfirmed([Request(intent, s, marks, pick, skip) EXCEPT !.marks = NoMarks])
BY DEF Request, Unconfirmed

----------------------------------------------------------------------------
LEMMA HeardReads ==
  ASSUME NEW f, NEW b, NEW c
  PROVE  Heard(f, b, c).booked = b
<1>1. \A g, intent, s, marks, pick, skip :
        /\ Conclude(g, b, [Request(intent, s, marks, pick, skip)
                             EXCEPT !.offer = TRUE]).booked = b
        /\ Conclude(g, b, [Request(intent, s, marks, pick, skip)
                             EXCEPT !.marks = NoMarks]).booked = b
  BY RequestUnconfirmed, ConcludeReads
<1>2. \A g : Changed(g, b).booked = b /\ Unchanged(g, b).booked = b
  BY DEF Changed, Unchanged
<1> QED
  BY <1>1, <1>2 DEF Heard, Entered

LEMMA RefuseReads ==
  ASSUME NEW f, NEW b, NEW intent, NEW slots, NEW ks
  PROVE  Refuse(f, b, intent, slots, ks).booked = b
<1>1. \A s, marks, pick, skip :
        Conclude(f, b, [Request(intent, s, marks, pick, skip)
                          EXCEPT !.offer = TRUE]).booked = b
  BY RequestUnconfirmed, ConcludeReads
<1>2. \A g : Changed(g, b).booked = b
  BY DEF Changed
<1> QED
  BY <1>1, <1>2 DEF Refuse, Reoffered

LEMMA NoReads ==
  ASSUME NEW f, NEW b
  PROVE  No(f, b).booked = b
<1> DEFINE offered == {k \in Fields : f.marks[k] = "proposal"}
<1>1. \A intent, slots, ks : Refuse(f, b, intent, slots, ks).booked = b
  BY RefuseReads
<1>2. \A g : Changed(g, b).booked = b /\ Unchanged(g, b).booked = b
  BY DEF Changed, Unchanged
<1> QED
  BY <1>1, <1>2 DEF No

(* A yes writes only as the answer to the question of CONFIRM. *)
LEMMA YesReads ==
  ASSUME NEW f, NEW b, f.state # "CONFIRM"
  PROVE  Yes(f, b).booked = b
<1>1. \A intent, s, marks, pick, skip :
        Conclude(f, b, Request(intent, s, marks, pick, skip)).booked = b
  BY RequestUnconfirmed, ConcludeReads
<1>2. \A g : Unchanged(g, b).booked = b
  BY DEF Unchanged
<1> QED
  BY <1>1, <1>2 DEF Yes

LEMMA StartedUnconfirmed ==
  ASSUME NEW f, NEW c
  PROVE  Unconfirmed(Started(f, c))
BY RequestUnconfirmed DEF Started

LEMMA RoutedKeeps ==
  ASSUME NEW r, NEW n, Unconfirmed(r)
  PROVE  Unconfirmed(Routed(r, n))
BY DEF Routed, Unconfirmed

LEMMA WidenedKeeps ==
  ASSUME NEW r, NEW c, Unconfirmed(r)
  PROVE  Unconfirmed(Widened(r, c))
BY DEF Widened, Unconfirmed

LEMMA StatedKeeps ==
  ASSUME NEW r, NEW c, Unconfirmed(r)
  PROVE  Unconfirmed(Stated(r, c))
<1>1. \A ks : Unconfirmed(Superseded(r, ks))
  BY DEF Superseded, Unconfirmed
<1>2. \A q, n : Unconfirmed(q) => Unconfirmed(Routed(q, n))
  BY RoutedKeeps
<1>3. \A q, slots, rejected : Unconfirmed(q) =>
        Unconfirmed([q EXCEPT !.slots = slots, !.rejected = rejected])
  BY DEF Unconfirmed
<1>4. \A val : Unconfirmed(Accepted(r, c, val))
  BY <1>1, <1>2, <1>3 DEF Accepted
<1> QED
  BY <1>4 DEF Stated

LEMMA SetReads ==
  ASSUME NEW f, NEW b, NEW c
  PROVE  Set(f, b, c).booked = b
<1> DEFINE r == Stated(Widened(Started(f, c), c), c)
<1>1. Unconfirmed(r)
  BY StartedUnconfirmed, WidenedKeeps, StatedKeeps
<1>2. Unconfirmed(Numbered(f, c, r))
  BY <1>1, RoutedKeeps DEF Numbered
<1>3. Conclude(f, b, Numbered(f, c, r)).booked = b
  BY <1>2, ConcludeReads
<1>4. Unchanged(f, b).booked = b
  BY DEF Unchanged
<1> HIDE DEF r
<1> QED
  BY <1>3, <1>4 DEF Set, r

(* One call writes only if it is a yes, without a value, to CONFIRM. *)
LEMMA ApplyReads ==
  ASSUME NEW f, NEW b, NEW c,
         c.name \in {"set", "yes", "no", "cancel", "none", "heard"},
         ~(c.name = "yes" /\ ~Says(c) /\ f.state = "CONFIRM")
  PROVE  Apply(f, b, c).booked = b
<1> DEFINE h == [f EXCEPT !.unbound = FALSE]
<1>1. \A g : Changed(g, b).booked = b /\ Unchanged(g, b).booked = b
  BY DEF Changed, Unchanged
<1>2. Heard(f, b, c).booked = b
  BY HeardReads
<1>3. No(h, b).booked = b
  BY NoReads
<1>4. Set(h, b, c).booked = b /\ Set(f, b, c).booked = b
  BY SetReads
<1>5. f.state # "CONFIRM" => Yes(f, b).booked = b
  BY YesReads
<1> HIDE DEF h
<1>6. CASE c.name = "yes" /\ ~Says(c)
  BY <1>5, <1>6 DEF Apply
<1>7. CASE c.name = "yes" /\ Says(c)
  BY <1>4, <1>7 DEF Apply
<1>8. CASE c.name # "yes"
  BY <1>1, <1>2, <1>3, <1>4, <1>8 DEF Apply, h
<1> QED
  BY <1>6, <1>7, <1>8

(* The bookings change by nothing that is said but a plain yes to a        *)
(* question of CONFIRM: no correction, proposal, delegated choice, refusal *)
(* or late verdict writes one, from any record and any bookings.           *)
THEOREM OnlyYes == Spec => []OnlyYesWrites
<1>1. OnlyYesWrites
  <2> SUFFICES ASSUME NEW c \in CustomerCalls \cup OperatorCalls,
                      ~(c.name = "yes" /\ ~Says(c) /\ fsm.state = "CONFIRM")
               PROVE  Apply(fsm, booked, c).booked = booked
    BY DEF OnlyYesWrites
  <2>1. c.name \in {"set", "yes", "no", "cancel", "none", "heard"}
    BY DeskAssumption
  <2> QED
    BY <2>1, ApplyReads
<1> QED
  BY <1>1, PTL

----------------------------------------------------------------------------
(* What the machine's record is made of: values of their kinds, and in     *)
(* CONFIRM a whole slot with one of the three answers that end in a        *)
(* question.                                                               *)
FsmFields == {"state", "intent", "slots", "marks", "missing", "rejected",
              "status", "detail", "pick", "skip", "unbound"}
RequestFields == {"intent", "slots", "marks", "pick", "skip", "rejected",
                  "confirmed", "offer"}

Typed(s) ==
  /\ DOMAIN s = Fields
  /\ s["month"] \in Months \cup {None}
  /\ s["day"] \in Days \cup {None}
  /\ s["time"] \in Times \cup {AllDay, None}

Asked(f) ==
  /\ f.slots \in Slots
  /\ \/ f.intent = "unbook" /\ f.status = "pending_cancel"
     \/ f.intent # "unbook" /\ f.status \in {"pending", "available"}
     \/ f.intent = "check" /\ f.status = "partial" /\ f.slots.time = AllDay

FsmOK(f) ==
  /\ DOMAIN f = FsmFields
  /\ Typed(f.slots) /\ f.pick \subseteq Fields
  /\ f.state = "CONFIRM" => Asked(f)

RequestOK(r) ==
  DOMAIN r = RequestFields /\ Typed(r.slots) /\ r.pick \subseteq Fields

(* What the question of a record says of the bookings. *)
Truth(f, b) ==
  f.state = "CONFIRM" =>
    /\ f.status \in {"pending", "available"} => FreeSlot(b, f.slots)
    /\ f.status = "pending_cancel" => f.slots \in b

(* Two records with the same question. *)
Same(f, g) == f.state = g.state /\ f.status = g.status /\ f.slots = g.slots

Good(g, f, b) == FsmOK(g) /\ (Same(g, f) \/ Truth(g, b))

LEMMA SlotIs ==
  ASSUME NEW s, Typed(s), s["month"] # None, s["day"] # None
  PROVE  SlotOf(s) \in Slots /\ Typed(SlotOf(s))
BY DEF Typed, SlotOf, Slots, NormTime, Fields

LEMMA ExecSays ==
  ASSUME NEW b, NEW intent, NEW x \in Slots, NEW confirmed \in BOOLEAN
  PROVE  LET e == Exec(b, intent, x, confirmed) IN
         /\ intent = "check" => e.status \in {"available", "partial", "booked"}
         /\ intent = "check" /\ e.status = "partial" => x.time = AllDay
         /\ intent = "unbook" => e.status \in {"pending_cancel", "cancelled", "not_found"}
         /\ intent \notin {"check", "unbook"} => e.status \in {"pending", "taken", "confirmed"}
         /\ e.status \in {"available", "pending"} => FreeSlot(b, x)
         /\ e.status = "pending_cancel" => x \in b
         /\ intent # "check" /\ confirmed => e.status \notin {"pending", "pending_cancel"}
<1>1. CASE intent = "check"
  BY <1>1 DEF Exec, ExecCheck, Outcome, Lookup, FreeSlot, Free
<1>2. CASE intent = "unbook"
  BY <1>2 DEF Exec, ExecUnbook, Outcome
<1>3. CASE intent \notin {"check", "unbook"}
  <2>1. CASE FreeSlot(b, x)
    BY <1>3, <2>1 DEF Exec, ExecBook, Outcome
  <2>2. CASE ~FreeSlot(b, x)
    BY <1>3, <2>2 DEF Exec, ExecBook, Outcome
  <2> QED BY <2>1, <2>2
<1> QED BY <1>1, <1>2, <1>3

LEMMA ExecuteIsGood ==
  ASSUME NEW f, NEW b, NEW r, FsmOK(f), RequestOK(r), r.confirmed \in BOOLEAN,
         MissingOf(r.intent, r.slots) = {}
  PROVE  Good(Execute(f, b, r).fsm, f, b)
<1> DEFINE x == SlotOf(r.slots)
           e == Exec(b, r.intent, x, r.confirmed)
           asks == \/ r.intent = "check" /\ e.status \in {"available", "partial"}
                   \/ e.status \in {"pending", "pending_cancel"}
           g == [f EXCEPT !.state = IF asks THEN "CONFIRM" ELSE "DONE",
                         !.intent = r.intent, !.slots = x,
                         !.marks = IF asks /\ r.offer THEN r.marks ELSE NoMarks,
                         !.missing = {}, !.rejected = {},
                         !.status = e.status, !.detail = e.detail,
                         !.pick = r.pick, !.skip = r.skip]
<1>1. x \in Slots /\ Typed(x)
  BY SlotIs DEF RequestOK, MissingOf, Required, Fields
<1>2. Execute(f, b, r) = Settle(f, g, e.booked)
  BY DEF Execute, Answer
<1>3. /\ r.intent = "check" => e.status \in {"available", "partial", "booked"}
      /\ r.intent = "check" /\ e.status = "partial" => x.time = AllDay
      /\ r.intent = "unbook" => e.status \in {"pending_cancel", "cancelled", "not_found"}
      /\ r.intent \notin {"check", "unbook"} => e.status \in {"pending", "taken", "confirmed"}
      /\ e.status \in {"available", "pending"} => FreeSlot(b, x)
      /\ e.status = "pending_cancel" => x \in b
  BY <1>1, ExecSays
<1> HIDE DEF x, e
<1>4. /\ DOMAIN g = FsmFields /\ g.slots = x /\ g.status = e.status
      /\ g.intent = r.intent /\ g.state = IF asks THEN "CONFIRM" ELSE "DONE"
      /\ g.pick \subseteq Fields
  BY DEF FsmOK, FsmFields, RequestOK
<1> HIDE DEF g
<1>5. FsmOK(g)
  BY <1>1, <1>3, <1>4 DEF FsmOK, Asked
<1>6. Truth(g, b)
  BY <1>3, <1>4 DEF Truth
<1>7. Settle(f, g, e.booked).fsm \in {f, g}
  BY DEF Settle, Unchanged, Changed
<1> QED BY <1>2, <1>5, <1>6, <1>7 DEF Good, Same
----------------------------------------------------------------------------
(* The choices of the desk are values, and never among the refused ones. *)
LEMMA EarliestIs ==
  ASSUME NEW S \in SUBSET Nat, S # {}
  PROVE  Earliest(S) \in S
<1>1. \E n \in S : \A m \in S : ~(<<m, n>> \in OpToRel(<, Nat))
  BY NatLessThanWellFounded, WFMin
<1>2. \E n \in S : \A m \in S : ~(m < n)
  BY <1>1 DEF OpToRel
<1>3. \E n \in S : \A m \in S : n <= m
  BY <1>2
<1> QED BY <1>3 DEF Earliest

LEMMA PickDayIs ==
  ASSUME NEW b, NEW s, NEW skip
  PROVE  PickDay(b, s, skip) = None \/ PickDay(b, s, skip) \in Days \ skip["day"]
<1> DEFINE free  == Days \ (skip["day"] \cup BookedDays(b, s.month))
           spare == Days \ (skip["day"] \cup FullDays(b, s.month))
<1>1. /\ free \in SUBSET Nat /\ spare \in SUBSET Nat
      /\ free \subseteq Days \ skip["day"] /\ spare \subseteq Days \ skip["day"]
  BY ValuesAssumption
<1>2. PickDay(b, s, skip) \in {None, Earliest(free), Earliest(spare)}
  BY DEF PickDay
<1>3. CASE free # {}
  <2>1. PickDay(b, s, skip) = Earliest(free)
    BY <1>3 DEF PickDay
  <2>2. Earliest(free) \in free
    BY <1>1, <1>3, EarliestIs
  <2> QED BY <1>1, <2>1, <2>2
<1>4. CASE free = {} /\ spare # {}
  <2>1. PickDay(b, s, skip) = Earliest(spare)
    BY <1>4 DEF PickDay
  <2>2. Earliest(spare) \in spare
    BY <1>1, <1>4, EarliestIs
  <2> QED BY <1>1, <2>1, <2>2
<1>5. CASE free = {} /\ spare = {}
  BY <1>5 DEF PickDay
<1> QED BY <1>3, <1>4, <1>5

LEMMA PickTimeIs ==
  ASSUME NEW b, NEW s, NEW skip
  PROVE  \/ PickTime(b, s, skip) = None
         \/ PickTime(b, s, skip) \in Times \ skip["time"]
<1> DEFINE free == {h \in DeskHours : /\ Hour(h) \notin skip["time"]
                                      /\ Free(b, s.month, s.day, Hour(h))}
<1>1. CASE free # {}
  <2>1. free \in SUBSET Nat
    BY ValuesAssumption
  <2>2. Earliest(free) \in free
    BY <1>1, <2>1, EarliestIs
  <2>3. Earliest(free) \in DeskHours /\ Hour(Earliest(free)) \notin skip["time"]
    BY <2>2
  <2>4. PickTime(b, s, skip) = Hour(Earliest(free))
    BY <1>1 DEF PickTime
  <2> HIDE DEF free
  <2> QED BY <2>3, <2>4 DEF Times
<1>2. CASE free = {}
  BY <1>2 DEF PickTime
<1> QED BY <1>1, <1>2

(* What the desk adds fills gaps only, with values of their kinds that the *)
(* customer has not refused.                                               *)
LEMMA PickFillIs ==
  ASSUME NEW b, NEW intent, NEW s, Typed(s), NEW pick, NEW skip
  PROVE  LET t == PickFill(b, intent, s, pick, skip) IN
         /\ Typed(t)
         /\ \A k \in Fields : s[k] # None => t[k] = s[k]
         /\ \A k \in {"day", "time"} :
              s[k] = None /\ t[k] # None => k \in pick /\ t[k] \notin skip[k]
         /\ t["month"] = s["month"]
<1> DEFINE d == WithDay(b, s, pick, skip)
           t == WithTime(b, intent, d, pick, skip)
<1>1. /\ Typed(d) /\ d["month"] = s["month"] /\ d["time"] = s["time"]
      /\ s["day"] # None => d["day"] = s["day"]
      /\ s["day"] = None /\ d["day"] # None => "day" \in pick /\ d["day"] \notin skip["day"]
  <2>1. CASE "day" \in pick /\ s.month # None /\ s.day = None
    <3>1. d = [s EXCEPT !.day = PickDay(b, s, skip)]
      BY <2>1 DEF WithDay
    <3>2. PickDay(b, s, skip) = None \/ PickDay(b, s, skip) \in Days \ skip["day"]
      BY PickDayIs
    <3> HIDE DEF d
    <3> QED BY <2>1, <3>1, <3>2 DEF Typed, Fields
  <2>2. CASE ~("day" \in pick /\ s.month # None /\ s.day = None)
    <3>1. d = s
      BY <2>2 DEF WithDay
    <3> QED BY <3>1
  <2> QED BY <2>1, <2>2
<1>2. /\ Typed(t) /\ t["month"] = d["month"] /\ t["day"] = d["day"]
      /\ d["time"] # None => t["time"] = d["time"]
      /\ d["time"] = None /\ t["time"] # None => "time" \in pick /\ t["time"] \notin skip["time"]
  <2> HIDE DEF d
  <2>1. CASE /\ "time" \in pick /\ intent = "book"
             /\ d.month # None /\ d.day # None /\ d.time = None
    <3>1. t = [d EXCEPT !.time = PickTime(b, d, skip)]
      BY <2>1 DEF WithTime
    <3>2. \/ PickTime(b, d, skip) = None
          \/ PickTime(b, d, skip) \in Times \ skip["time"]
      BY PickTimeIs
    <3> HIDE DEF t
    <3> QED BY <1>1, <2>1, <3>1, <3>2 DEF Typed, Fields
  <2>2. CASE ~(/\ "time" \in pick /\ intent = "book"
               /\ d.month # None /\ d.day # None /\ d.time = None)
    <3>1. t = d
      BY <2>2 DEF WithTime
    <3> QED BY <1>1, <3>1
  <2> QED BY <2>1, <2>2
<1>3. PickFill(b, intent, s, pick, skip) = t
  BY DEF PickFill
<1> HIDE DEF d, t
<1> QED BY <1>1, <1>2, <1>3 DEF Fields

----------------------------------------------------------------------------
(* The steps from a request to its answer keep its values what they are.   *)
LEMMA OnlyBookingIs ==
  ASSUME NEW b, b \subseteq Slots, NEW r, RequestOK(r)
  PROVE  LET q == OnlyBooking(b, r) IN
         /\ RequestOK(q) /\ q.confirmed = r.confirmed /\ q.intent = r.intent
         /\ \A k \in Fields : r.slots[k] # None => q.slots[k] = r.slots[k]
         /\ r.slots["time"] # None \/ r.intent # "unbook" => q = r
<1> DEFINE hit == /\ r.intent = "unbook" /\ r.slots.month # None /\ r.slots.day # None
                  /\ r.slots.time = None
                  /\ Cardinality(BookedTimes(b, r.slots.month, r.slots.day)) = 1
           T == BookedTimes(b, r.slots.month, r.slots.day)
           t == CHOOSE u \in T : TRUE
<1>1. CASE ~hit
  BY <1>1 DEF OnlyBooking
<1>2. CASE hit
  <2>1. T # {}
    <3>1. Cardinality({}) = 0
      BY FS_EmptySet
    <3> QED BY <1>2, <3>1
  <2>2. T \subseteq Times \cup {AllDay}
    BY DEF BookedTimes, Slots
  <2>3. t \in Times \cup {AllDay}
    BY <2>1, <2>2
  <2>4. OnlyBooking(b, r) = [r EXCEPT !.slots.time = t]
    BY <1>2 DEF OnlyBooking
  <2>5. r.slots.time = None /\ r.intent = "unbook"
    BY <1>2
  <2> HIDE DEF t, hit, T
  <2> QED BY <2>3, <2>4, <2>5 DEF RequestOK, RequestFields, Typed, Fields
<1> QED BY <1>1, <1>2

LEMMA DelegatedIs ==
  ASSUME NEW f, NEW b, NEW r, RequestOK(r)
  PROVE  LET q == Delegated(f, b, r) IN
         /\ RequestOK(q) /\ q.confirmed = r.confirmed /\ q.intent = r.intent
         /\ \A k \in Fields : r.slots[k] # None => q.slots[k] = r.slots[k]
         /\ f.state = "CONFIRM" \/ r.intent = "unbook" => q = r
<1> DEFINE s == PickFill(b, r.intent, r.slots, r.pick, r.skip)
<1>1. Typed(s) /\ \A k \in Fields : r.slots[k] # None => s[k] = r.slots[k]
  BY PickFillIs DEF RequestOK
<1> HIDE DEF s
<1>2. /\ RequestOK(Picked(r, s)) /\ Picked(r, s).confirmed = r.confirmed
      /\ Picked(r, s).intent = r.intent /\ Picked(r, s).slots = s
  BY <1>1 DEF Picked, RequestOK, RequestFields
<1>3. CASE /\ r.pick # {} /\ r.rejected = {} /\ f.state # "CONFIRM"
           /\ r.intent # "unbook"
  <2>1. Delegated(f, b, r) = Picked(r, s)
    BY <1>3 DEF Delegated, s
  <2> QED BY <1>1, <1>2, <1>3, <2>1
<1>4. CASE ~(/\ r.pick # {} /\ r.rejected = {} /\ f.state # "CONFIRM"
             /\ r.intent # "unbook")
  <2>1. Delegated(f, b, r) = r
    BY <1>4 DEF Delegated
  <2> QED BY <2>1
<1> QED BY <1>3, <1>4

LEMMA CollectIs ==
  ASSUME NEW f, FsmOK(f), NEW intent, NEW s, Typed(s), NEW marks, NEW missing,
         NEW rejected, NEW pick \in SUBSET Fields, NEW skip
  PROVE  LET g == Collect(f, intent, s, marks, missing, rejected, pick, skip) IN
         /\ FsmOK(g) /\ g.state = "COLLECTING" /\ g.slots = s
         /\ g.marks = marks /\ g.missing = missing /\ g.intent = intent
         /\ g.pick = pick /\ g.skip = skip /\ g.rejected = rejected
BY DEF Collect, FsmOK, FsmFields

LEMMA FinishIsGood ==
  ASSUME NEW f, NEW b, NEW r, FsmOK(f), RequestOK(r), r.confirmed \in BOOLEAN
  PROVE  Good(Finish(f, b, r).fsm, f, b)
<1> DEFINE missing == MissingOf(r.intent, r.slots) \cup (r.rejected \cap {"time"})
           g == Collect(f, r.intent, r.slots, r.marks, missing, r.rejected, r.pick, r.skip)
<1>1. CASE missing # {}
  <2>1. FsmOK(g) /\ g.state = "COLLECTING"
    BY CollectIs DEF RequestOK
  <2>2. Finish(f, b, r) = Settle(f, g, b)
    BY <1>1 DEF Finish
  <2> HIDE DEF g
  <2>3. Settle(f, g, b).fsm \in {f, g}
    BY DEF Settle, Unchanged, Changed
  <2> QED BY <2>1, <2>2, <2>3 DEF Good, Same, Truth
<1>2. CASE missing = {}
  <2>1. Finish(f, b, r) = Execute(f, b, r)
    BY <1>2 DEF Finish
  <2> QED BY <1>2, <2>1, ExecuteIsGood
<1> QED BY <1>1, <1>2

LEMMA ConcludeIsGood ==
  ASSUME NEW f, NEW b, NEW r, b \subseteq Slots, FsmOK(f), RequestOK(r),
         r.confirmed \in BOOLEAN
  PROVE  Good(Conclude(f, b, r).fsm, f, b)
<1> DEFINE q == OnlyBooking(b, r)
           d == Delegated(f, b, q)
<1>1. RequestOK(q) /\ q.confirmed = r.confirmed
  BY OnlyBookingIs
<1> HIDE DEF q
<1>2. RequestOK(d) /\ d.confirmed = r.confirmed
  BY <1>1, DelegatedIs
<1>3. Conclude(f, b, r) = Finish(f, b, d)
  BY DEF Conclude, q
<1> HIDE DEF d
<1> QED BY <1>2, <1>3, FinishIsGood
----------------------------------------------------------------------------
(* What a turn of the operator adds is a value of its kind, and it goes    *)
(* where nothing was or where a proposal of his own was.                   *)
FieldsOf(u) == DOMAIN u = Fields

ClaimOK(c) ==
  /\ c.month \in Months \cup {None} /\ c.day \in Days \cup {None}
  /\ c.time \in Times \cup {None}

LEMMA UnderstoodIs ==
  ASSUME NEW f, NEW b, NEW c, ClaimOK(c), Typed(f.slots)
  PROVE  LET u == Understood(f, b, c) IN
         /\ Typed(u)
         /\ \A k \in Fields : u[k] # None =>
              \/ f.slots[k] = None
              \/ f.marks[k] = "proposal"
<1>1. CASE c.claim = "slot_free"
  <2> DEFINE u == ProposalOf(f, b, c)
  <2>1. Understood(f, b, c) = u
    BY <1>1, ValuesAssumption DEF Understood
  <2>2. /\ DOMAIN u = Fields
        /\ u["month"] \in {None} \cup Months
        /\ u["month"] # None => f.slots["month"] = None
    BY DEF ProposalOf, ClaimOK, Typed, Fields
  <2>3. u["day"] \in {None, c.day} /\ (u["day"] # None => Open(f, "day"))
    BY DEF ProposalOf
  <2>4. /\ u["time"] = None \/ (u["time"] = c.time /\ c.time \in Times)
        /\ u["time"] # None => Open(f, "time")
    BY DEF ProposalOf
  <2> HIDE DEF u
  <2> QED BY <2>1, <2>2, <2>3, <2>4 DEF Open, ClaimOK, Typed, Fields
<1>2. CASE c.claim = None
  <2> DEFINE u == ReadbackOf(f, c)
  <2>1. Understood(f, b, c) = u
    BY <1>2, ValuesAssumption DEF Understood
  <2> QED BY <2>1 DEF ReadbackOf, ClaimOK, Typed, Fields
<1>3. CASE c.claim \notin {None, "slot_free"}
  <2>1. Understood(f, b, c) = NoSlots
    BY <1>3 DEF Understood
  <2> QED BY <2>1 DEF NoSlots, Typed, Fields
<1> QED BY <1>1, <1>2, <1>3
LEMMA UnboundSame ==
  ASSUME NEW f, NEW b, FsmOK(f)
  PROVE  LET h == [f EXCEPT !.unbound = FALSE] IN
         /\ FsmOK(h) /\ Same(h, f) /\ h.marks = f.marks /\ h.pick = f.pick
         /\ h.skip = f.skip /\ h.intent = f.intent
         /\ \A g : Good(g, h, b) => Good(g, f, b)
<1> DEFINE h == [f EXCEPT !.unbound = FALSE]
<1>1. /\ DOMAIN h = FsmFields /\ h.state = f.state /\ h.slots = f.slots
      /\ h.status = f.status /\ h.intent = f.intent /\ h.marks = f.marks
      /\ h.pick = f.pick /\ h.skip = f.skip
  BY DEF FsmOK, FsmFields
<1> HIDE DEF h
<1>2. FsmOK(h) /\ Same(h, f)
  BY <1>1 DEF FsmOK, Asked, Same
<1>3. \A g : Good(g, h, b) => Good(g, f, b)
  BY <1>1 DEF Good, Same
<1> QED BY <1>1, <1>2, <1>3 DEF h

LEMMA RequestIs ==
  ASSUME NEW intent, NEW s, Typed(s), NEW marks, NEW pick \in SUBSET Fields, NEW skip
  PROVE  LET r == Request(intent, s, marks, pick, skip) IN
         /\ RequestOK(r) /\ r.confirmed = FALSE /\ r.slots = s /\ r.intent = intent
         /\ r.marks = marks /\ r.pick = pick /\ r.skip = skip
         /\ \A u : /\ RequestOK([r EXCEPT !.marks = u])
                   /\ [r EXCEPT !.marks = u].confirmed = FALSE
                   /\ [r EXCEPT !.marks = u].slots = s
                   /\ [r EXCEPT !.marks = u].intent = intent
         /\ \A u : /\ RequestOK([r EXCEPT !.offer = u])
                   /\ [r EXCEPT !.offer = u].confirmed = FALSE
                   /\ [r EXCEPT !.offer = u].slots = s
                   /\ [r EXCEPT !.offer = u].intent = intent
         /\ \A u : /\ RequestOK([r EXCEPT !.confirmed = u])
                   /\ [r EXCEPT !.confirmed = u].confirmed = u
                   /\ [r EXCEPT !.confirmed = u].slots = s
                   /\ [r EXCEPT !.confirmed = u].intent = intent
BY DEF Request, RequestOK, RequestFields

LEMMA ChangedIs ==
  ASSUME NEW f, NEW b
  PROVE  /\ Changed(f, b).fsm = f /\ Changed(f, b).booked = b
         /\ Unchanged(f, b).fsm = f /\ Unchanged(f, b).booked = b
         /\ Changed(f, b).changed = TRUE /\ Unchanged(f, b).changed = FALSE
BY DEF Changed, Unchanged

(* A record that only collects asks nothing. *)
LEMMA CollectIsGood ==
  ASSUME NEW f, FsmOK(f), NEW b, NEW intent, NEW s, Typed(s), NEW marks, NEW missing,
         NEW rejected, NEW pick \in SUBSET Fields, NEW skip
  PROVE  Good(Collect(f, intent, s, marks, missing, rejected, pick, skip), f, b)
<1> DEFINE g == Collect(f, intent, s, marks, missing, rejected, pick, skip)
<1>1. FsmOK(g) /\ g.state = "COLLECTING"
  BY CollectIs
<1> HIDE DEF g
<1>2. Good(g, f, b)
  BY <1>1 DEF Good, Truth
<1> QED BY <1>2 DEF g

LEMMA EnteredIsGood ==
  ASSUME NEW f, NEW b, b \subseteq Slots, FsmOK(f), NEW proposal \in BOOLEAN,
         NEW said, Typed(said)
  PROVE  Good(Entered(f, b, proposal, said).fsm, f, b)
<1> DEFINE mark == IF proposal THEN "proposal" ELSE "readback"
           filled == {k \in Fields : said[k] # None}
           s == [k \in Fields |-> IF k \in filled THEN said[k] ELSE f.slots[k]]
           marks == [k \in Fields |-> IF k \in filled THEN mark ELSE f.marks[k]]
           r == Request(f.intent, s, marks, f.pick, f.skip)
           h == [f EXCEPT !.unbound = FALSE]
           r1 == [r EXCEPT !.marks = NoMarks]
           r2 == [r EXCEPT !.offer = TRUE]
           same == \A k \in filled : s[k] = f.slots[k] /\ marks[k] = f.marks[k]
           c == Collect(f, f.intent, s, marks, MissingOf(f.intent, s), {}, f.pick, f.skip)
<1>1. Typed(s)
  BY DEF FsmOK, Typed, Fields
<1>2. /\ RequestOK(r1) /\ r1.confirmed = FALSE
      /\ RequestOK(r2) /\ r2.confirmed = FALSE
  <2> HIDE DEF s, marks
  <2> QED BY <1>1 DEF FsmOK, Request, RequestOK, RequestFields
<1>3. Good(c, f, b)
  <2> HIDE DEF s, marks
  <2> QED BY <1>1, CollectIsGood DEF FsmOK
<1>4. FsmOK(h) /\ \A g : Good(g, h, b) => Good(g, f, b)
  BY UnboundSame
<1>5. Good(f, f, b)
  BY DEF Good, Same
<1>6. Entered(f, b, proposal, said)
        = IF same THEN Unchanged(f, b)
          ELSE IF proposal /\ f.unbound THEN Conclude(h, b, r1)
          ELSE IF proposal /\ MissingOf(f.intent, s) = {} THEN Conclude(f, b, r2)
          ELSE Changed(c, b)
  BY DEF Entered
<1> HIDE DEF r1, r2, h, c, same, s
<1>7. Good(Conclude(h, b, r1).fsm, f, b) /\ Good(Conclude(f, b, r2).fsm, f, b)
  BY <1>2, <1>4, ConcludeIsGood
<1>8. Good(Unchanged(f, b).fsm, f, b) /\ Good(Changed(c, b).fsm, f, b)
  BY <1>3, <1>5 DEF Unchanged, Changed
<1>9. Entered(f, b, proposal, said)
        \in {Unchanged(f, b), Conclude(h, b, r1), Conclude(f, b, r2), Changed(c, b)}
  BY <1>6
<1> QED BY <1>7, <1>8, <1>9

LEMMA HeardIsGood ==
  ASSUME NEW f, NEW b, b \subseteq Slots, FsmOK(f), NEW c, ClaimOK(c)
  PROVE  Good(Heard(f, b, c).fsm, f, b)
<1>1. Good(f, f, b)
  BY DEF Good, Same
<1>2. Typed(Understood(f, b, c))
  BY UnderstoodIs DEF FsmOK
<1> DEFINE u == Understood(f, b, c)
           free == c.claim = "slot_free"
<1>3. free \in BOOLEAN
  OBVIOUS
<1>4. Heard(f, b, c) \in {Unchanged(f, b), Entered(f, b, free, u)}
  BY DEF Heard
<1> HIDE DEF u, free
<1>5. Good(Entered(f, b, free, u).fsm, f, b)
  BY <1>2, <1>3, EnteredIsGood DEF u
<1>6. Unchanged(f, b).fsm = f
  BY DEF Unchanged
<1> QED BY <1>1, <1>4, <1>5, <1>6
LEMMA IdleIsGood ==
  ASSUME NEW f, NEW b
  PROVE  FsmOK(IdleFsm) /\ Good(IdleFsm, f, b) /\ IdleFsm.state = "IDLE"
BY DEF IdleFsm, FsmOK, FsmFields, Good, Truth, NoSlots, Typed, Fields

LEMMA DoneIsGood ==
  ASSUME NEW f, FsmOK(f), NEW b
  PROVE  Good([f EXCEPT !.state = "DONE"], f, b)
BY DEF FsmOK, FsmFields, Good, Truth

LEMMA InheritedIs ==
  ASSUME NEW f, FsmOK(f)
  PROVE  Typed(Inherited(f)) /\ Inherited(f)["month"] = f.slots["month"]
         /\ Inherited(f)["day"] = f.slots["day"]
         /\ Inherited(f)["time"] = IF f.slots["time"] = AllDay THEN None ELSE f.slots["time"]
BY DEF Inherited, FsmOK, Typed, Fields

LEMMA RefuseIsGood ==
  ASSUME NEW f, NEW b, b \subseteq Slots, FsmOK(f), NEW intent, NEW slots, Typed(slots),
         NEW ks
  PROVE  Good(Refuse(f, b, intent, slots, ks).fsm, f, b)
<1> DEFINE skip == [k \in {"day", "time"} |->
                      IF k \in ks \cap f.pick THEN f.skip[k] \cup {slots[k]} ELSE f.skip[k]]
           kept == [k \in Fields |-> IF k \in ks THEN None ELSE slots[k]]
           s == PickFill(b, intent, kept, f.pick, skip)
           picked == Filled(kept, s)
           r == Request(intent, s, Proposed(picked), f.pick, skip)
           r2 == [r EXCEPT !.offer = TRUE]
           c == Collect(f, intent, s, Proposed(picked), MissingOf(intent, s), {}, f.pick, skip)
<1>1. Typed(kept)
  BY DEF Typed, Fields
<1>2. Typed(s)
  <2> HIDE DEF kept, skip
  <2> QED BY <1>1, PickFillIs
<1>3. Refuse(f, b, intent, slots, ks) \in {Conclude(f, b, r2), Changed(c, b)}
  BY DEF Refuse, Reoffered
<1> HIDE DEF s, picked, skip
<1>4. RequestOK(r2) /\ r2.confirmed = FALSE
  BY <1>2 DEF FsmOK, Request, RequestOK, RequestFields
<1>5. Good(c, f, b)
  BY <1>2, CollectIsGood DEF FsmOK
<1> HIDE DEF r2, c
<1>6. Good(Conclude(f, b, r2).fsm, f, b)
  BY <1>4, ConcludeIsGood
<1>7. Changed(c, b).fsm = c
  BY DEF Changed
<1> QED BY <1>3, <1>5, <1>6, <1>7

LEMMA NoIsGood ==
  ASSUME NEW f, NEW b, b \subseteq Slots, FsmOK(f)
  PROVE  Good(No(f, b).fsm, f, b)
<1> DEFINE offered == {k \in Fields : f.marks[k] = "proposal"}
           r1 == Refuse(f, b, f.intent, f.slots, Marked(f.marks))
           r2 == Refuse(f, b, f.intent, Inherited(f), offered)
           done == [f EXCEPT !.state = "DONE"]
<1>1. Good(r1.fsm, f, b) /\ Good(r2.fsm, f, b)
  <2>1. Typed(f.slots) /\ Typed(Inherited(f))
    BY InheritedIs DEF FsmOK
  <2> HIDE DEF offered
  <2> QED BY <2>1, RefuseIsGood
<1>2. Good(IdleFsm, f, b) /\ Good(done, f, b) /\ Good(f, f, b)
  BY IdleIsGood, DoneIsGood DEF Good, Same
<1>3. No(f, b) \in {r1, r2, Changed(IdleFsm, b), Changed(done, b), Unchanged(f, b)}
  <2>1. CASE f.state = "COLLECTING" /\ Marked(f.marks) # {}
    BY <2>1 DEF No
  <2>2. CASE f.state = "CONFIRM" /\ offered # {}
    BY <2>2 DEF No
  <2>3. CASE f.state = "CONFIRM" /\ offered = {}
    BY <2>3 DEF No
  <2>4. CASE f.state # "CONFIRM" /\ ~(f.state = "COLLECTING" /\ Marked(f.marks) # {})
    BY <2>4 DEF No
  <2> QED BY <2>1, <2>2, <2>3, <2>4
<1> HIDE DEF done, r1, r2
<1>4. /\ Changed(IdleFsm, b).fsm = IdleFsm /\ Changed(done, b).fsm = done
      /\ Unchanged(f, b).fsm = f
  BY DEF Changed, Unchanged
<1> QED BY <1>1, <1>2, <1>3, <1>4

----------------------------------------------------------------------------
(* A line of the customer puts values of their kinds into a request.       *)
LEMMA StartedIs ==
  ASSUME NEW f, FsmOK(f), NEW c
  PROVE  RequestOK(Started(f, c))
<1>1. Typed(f.slots) /\ Typed(Inherited(f)) /\ Typed(NoSlots)
  BY InheritedIs DEF FsmOK, NoSlots, Typed, Fields
<1>2. \A intent, s, marks, pick, skip :
        Typed(s) /\ pick \subseteq Fields
          => RequestOK(Request(intent, s, marks, pick, skip))
  BY DEF Request, RequestOK, RequestFields
<1>3. f.pick \subseteq Fields /\ {} \subseteq Fields
  BY DEF FsmOK
<1> QED BY <1>1, <1>2, <1>3 DEF Started

LEMMA WidenedIs ==
  ASSUME NEW r, RequestOK(r), NEW c
  PROVE  RequestOK(Widened(r, c))
<1> DEFINE gone == {k \in {"day", "time"} : c[k] = Any} \cup {k \in {"day", "time"} : c[k] = YouPick}
           s == [k \in Fields |-> IF k \in gone THEN None ELSE r.slots[k]]
<1>1. Typed(s)
  BY DEF RequestOK, Typed, Fields
<1>2. /\ Widened(r, c).slots = s /\ DOMAIN Widened(r, c) = RequestFields
      /\ Widened(r, c).pick \subseteq Fields
  BY DEF Widened, RequestOK, RequestFields, Fields
<1> HIDE DEF s
<1> QED BY <1>1, <1>2 DEF RequestOK

LEMMA RoutedIs ==
  ASSUME NEW r, RequestOK(r), NEW n
  PROVE  RequestOK(Routed(r, n))
<1>1. n \in Days => RequestOK([r EXCEPT !.slots.day = n])
  BY DEF RequestOK, RequestFields, Typed, Fields
<1>2. Clock(n) \in Times => RequestOK([r EXCEPT !.slots.time = Clock(n)])
  BY DEF RequestOK, RequestFields, Typed, Fields
<1> QED BY <1>1, <1>2 DEF Routed

LEMMA StatedIs ==
  ASSUME NEW r, RequestOK(r), NEW c
  PROVE  RequestOK(Stated(r, c))
<1> DEFINE val == Values(r, c)
           said == {k \in Fields : val[k] # None}
           good == {k \in said : Valid(r.intent, k, val[k])}
           mine == Superseded(r, said)
           routed == IF c.month = Unclear /\ c.number # None THEN Routed(mine, c.number)
                     ELSE mine
           s == [k \in Fields |-> IF k \in good THEN val[k] ELSE routed.slots[k]]
<1>1. RequestOK(mine)
  BY DEF Superseded, RequestOK, RequestFields
<1>2. RequestOK(routed)
  <2> HIDE DEF mine
  <2> QED BY <1>1, RoutedIs
<1>3. /\ "month" \in good => val["month"] \in Months
      /\ "day" \in good => val["day"] \in Days
      /\ "time" \in good => val["time"] \in Times \cup {AllDay}
  <2> HIDE DEF val
  <2> QED BY DEF Valid
<1>4. /\ Stated(r, c).slots = s /\ DOMAIN Stated(r, c) = RequestFields
      /\ Stated(r, c).pick \subseteq Fields
  <2> HIDE DEF val
  <2>1. DOMAIN routed = RequestFields /\ routed.pick \subseteq Fields
    BY <1>2 DEF RequestOK
  <2> QED BY <2>1 DEF Stated, Accepted, RequestFields, val
<1> HIDE DEF good, routed
<1>5. Typed(s)
  BY <1>2, <1>3 DEF RequestOK, Typed, Fields
<1> HIDE DEF s
<1> QED BY <1>4, <1>5 DEF RequestOK

LEMMA SetIsGood ==
  ASSUME NEW f, NEW b, b \subseteq Slots, FsmOK(f), NEW c
  PROVE  Good(Set(f, b, c).fsm, f, b)
<1> DEFINE w == Widened(Started(f, c), c)
           r == Stated(w, c)
           q == Numbered(f, c, r)
<1>1. RequestOK(w) /\ Unconfirmed(w)
  BY StartedIs, WidenedIs, StartedUnconfirmed, WidenedKeeps
<1> HIDE DEF w
<1>2. RequestOK(r) /\ Unconfirmed(r)
  BY <1>1, StatedIs, StatedKeeps
<1> HIDE DEF r
<1>3. RequestOK(q) /\ Unconfirmed(q)
  BY <1>2, RoutedIs, RoutedKeeps DEF Numbered
<1>4. Set(f, b, c) \in {Unchanged(f, b), Conclude(f, b, q)}
  BY DEF Set, r, w
<1> HIDE DEF q
<1>5. Good(Conclude(f, b, q).fsm, f, b)
  BY <1>3, ConcludeIsGood DEF Unconfirmed
<1>6. Unchanged(f, b).fsm = f /\ Good(f, f, b)
  BY DEF Unchanged, Good, Same
<1> QED BY <1>4, <1>5, <1>6
----------------------------------------------------------------------------
(* A yes to the question of CONFIRM closes the question; what it writes is *)
(* what the question named, or nothing.                                    *)
Books(f, b, after) ==
  /\ f.intent # "unbook" /\ f.slots.time # AllDay
  /\ FreeSlot(b, f.slots) /\ after = b \cup {f.slots}

Cancels(f, b, after) ==
  /\ f.intent = "unbook"
  /\ \E x \in b : /\ f.slots.time # AllDay => x = f.slots
                  /\ after = b \ {x}

Closes(a, b, q) ==
  /\ FsmOK(a.fsm) /\ a.fsm.state \in {"COLLECTING", "DONE"}
  /\ \/ a.booked = b
     \/ /\ MissingOf(q.intent, q.slots) = {} /\ SlotOf(q.slots) \in Slots
        /\ \/ /\ q.intent = "book" /\ FreeSlot(b, SlotOf(q.slots))
              /\ a.booked = b \cup {SlotOf(q.slots)}
           \/ /\ q.intent = "unbook" /\ SlotOf(q.slots) \in b
              /\ a.booked = b \ {SlotOf(q.slots)}

LEMMA ConfirmedFinish ==
  ASSUME NEW f, NEW b, NEW q, FsmOK(f), RequestOK(q), f.state = "CONFIRM",
         q.confirmed = TRUE, q.rejected = {}, q.intent \in {"book", "unbook"}
  PROVE  Closes(Finish(f, b, q), b, q)
<1> DEFINE missing == MissingOf(q.intent, q.slots) \cup (q.rejected \cap {"time"})
           c == Collect(f, q.intent, q.slots, q.marks, missing, q.rejected, q.pick, q.skip)
           x == SlotOf(q.slots)
           e == Exec(b, q.intent, x, TRUE)
           g == [f EXCEPT !.state = "DONE",
                         !.intent = q.intent, !.slots = x,
                         !.marks = NoMarks,
                         !.missing = {}, !.rejected = {},
                         !.status = e.status, !.detail = e.detail,
                         !.pick = q.pick, !.skip = q.skip]
<1>1. CASE missing # {}
  <2>1. FsmOK(c) /\ c.state = "COLLECTING"
    BY CollectIs DEF RequestOK
  <2>2. Finish(f, b, q) = Settle(f, c, b)
    BY <1>1 DEF Finish
  <2> HIDE DEF c
  <2>3. ~SameRecord(f, c)
    BY <2>1 DEF SameRecord
  <2>4. Settle(f, c, b).fsm = c /\ Settle(f, c, b).booked = b
    BY <2>3 DEF Settle, Changed
  <2> QED BY <2>1, <2>2, <2>4 DEF Closes
<1>2. CASE missing = {}
  <2>1. MissingOf(q.intent, q.slots) = {}
    BY <1>2
  <2>2. x \in Slots /\ Typed(x)
    BY <2>1, SlotIs DEF RequestOK, MissingOf, Required, Fields
  <2>3. Finish(f, b, q) = Answer(f, q, e)
    BY <1>2 DEF Finish, Execute
  <2>4. e.status \notin {"pending", "pending_cancel"}
    <3> HIDE DEF x
    <3> QED BY <2>2, ExecSays
  <2>5. /\ q.intent = "book" => e.booked \in {b, b \cup {x}}
        /\ q.intent = "book" /\ e.booked # b => FreeSlot(b, x)
        /\ q.intent = "unbook" => e.booked \in {b, b \ {x}}
        /\ q.intent = "unbook" /\ e.booked # b => x \in b
    <3> HIDE DEF x
    <3>1. CASE q.intent = "book" /\ FreeSlot(b, x)
      BY <3>1 DEF Exec, ExecBook, Outcome
    <3>2. CASE q.intent = "book" /\ ~FreeSlot(b, x)
      BY <3>2 DEF Exec, ExecBook, Outcome
    <3>3. CASE q.intent = "unbook"
      BY <3>3 DEF Exec, ExecUnbook, Outcome
    <3> QED BY <3>1, <3>2, <3>3
  <2> HIDE DEF e, x
  <2>6. Answer(f, q, e) = Settle(f, g, e.booked)
    BY <2>4 DEF Answer, x
  <2>7. /\ DOMAIN g = FsmFields /\ g.state = "DONE" /\ g.slots = x
        /\ g.pick \subseteq Fields
    BY DEF FsmOK, FsmFields, RequestOK
  <2> HIDE DEF g
  <2>8. ~SameRecord(f, g)
    BY <2>7 DEF SameRecord
  <2>9. Settle(f, g, e.booked).fsm = g /\ Settle(f, g, e.booked).booked = e.booked
    BY <2>8 DEF Settle, Changed
  <2>10. FsmOK(g)
    BY <2>2, <2>7 DEF FsmOK
  <2>11. \/ e.booked = b
         \/ q.intent = "book" /\ FreeSlot(b, x) /\ e.booked = b \cup {x}
         \/ q.intent = "unbook" /\ x \in b /\ e.booked = b \ {x}
    BY <2>5
  <2>12. /\ Finish(f, b, q).fsm = g /\ Finish(f, b, q).booked = e.booked
    BY <2>3, <2>6, <2>9
  <2> QED BY <2>1, <2>2, <2>7, <2>10, <2>11, <2>12 DEF Closes, x
<1> QED BY <1>1, <1>2

LEMMA YesToQuestion ==
  ASSUME NEW f, NEW b, b \subseteq Slots, FsmOK(f), f.state = "CONFIRM"
  PROVE  LET a == Yes(f, b) IN
         /\ FsmOK(a.fsm) /\ a.fsm.state \in {"COLLECTING", "DONE"}
         /\ a.booked = b \/ Books(f, b, a.booked) \/ Cancels(f, b, a.booked)
<1> DEFINE intent == IF f.intent = "unbook" THEN "unbook" ELSE "book"
           s == Inherited(f)
           r == [Request(intent, s, f.marks, f.pick \ Marked(f.marks), f.skip)
                   EXCEPT !.confirmed = TRUE]
           q == OnlyBooking(b, r)
           a == Finish(f, b, q)
           x == SlotOf(q.slots)
<1>1. /\ Typed(s)
      /\ f.slots.time # AllDay => s = f.slots
      /\ f.slots.time = AllDay => s["time"] = None
  <2>1. Typed(s)
    BY InheritedIs
  <2>2. f.slots \in Slots
    BY DEF FsmOK, Asked
  <2>3. f.slots.time # AllDay => s = f.slots
    BY <2>2 DEF Inherited, Slots
  <2>4. f.slots.time = AllDay => s["time"] = None
    BY InheritedIs
  <2> QED BY <2>1, <2>3, <2>4
<1>2. Yes(f, b) = Conclude(f, b, r)
  BY DEF Yes
<1>3. /\ RequestOK(r) /\ r.confirmed = TRUE /\ r.intent = intent /\ r.slots = s
      /\ r.rejected = {}
  <2> HIDE DEF s, intent
  <2> QED BY <1>1 DEF FsmOK, Request, RequestOK, RequestFields
<1> HIDE DEF s, r
<1>4. /\ RequestOK(q) /\ q.confirmed = TRUE /\ q.intent = intent
      /\ s["time"] # None => q.slots = s
      /\ intent # "unbook" => q.slots = s
      /\ q.rejected = {}
  <2>1. /\ RequestOK(q) /\ q.confirmed = TRUE /\ q.intent = intent
        /\ s["time"] # None \/ intent # "unbook" => q = r
    BY <1>3, OnlyBookingIs
  <2>2. q.rejected = {}
    BY <1>3 DEF OnlyBooking, RequestOK, RequestFields
  <2> HIDE DEF q
  <2> QED BY <1>3, <2>1, <2>2
<1> HIDE DEF q
<1>5. Delegated(f, b, q) = q
  BY DEF Delegated
<1>6. Yes(f, b) = a
  BY <1>2, <1>5 DEF Conclude, q
<1>7. /\ FsmOK(a.fsm) /\ a.fsm.state \in {"COLLECTING", "DONE"}
      /\ \/ a.booked = b
         \/ /\ MissingOf(intent, q.slots) = {} /\ x \in Slots
            /\ \/ intent = "book" /\ FreeSlot(b, x) /\ a.booked = b \cup {x}
               \/ intent = "unbook" /\ x \in b /\ a.booked = b \ {x}
  <2>1. q.intent \in {"book", "unbook"}
    BY <1>4
  <2>2. Closes(a, b, q)
    <3> HIDE DEF intent
    <3> QED BY <1>4, <2>1, ConfirmedFinish
  <2>3. q.intent = intent
    BY <1>4
  <2> HIDE DEF intent, a
  <2> QED BY <2>2, <2>3 DEF Closes
<1>8. (f.slots.time # AllDay /\ q.slots = s) => x = f.slots
  <2>1. f.slots \in Slots
    BY DEF FsmOK, Asked
  <2>2. f.slots.time # None
    BY <2>1, ValuesAssumption DEF Slots
  <2> QED BY <1>1, <2>1, <2>2 DEF SlotOf, NormTime, Slots
<1>9. f.slots.time # AllDay => s["time"] # None
  <2>1. f.slots \in Slots
    BY DEF FsmOK, Asked
  <2> QED BY <1>1, <2>1, ValuesAssumption DEF Slots
<1> HIDE DEF a, x
<1>10. CASE f.intent = "unbook"
  <2>1. intent = "unbook"
    BY <1>10
  <2>2. a.booked = b \/ (x \in b /\ a.booked = b \ {x})
    BY <1>7, <2>1
  <2>3. f.slots.time # AllDay => x = f.slots
    BY <1>4, <1>8, <1>9
  <2> QED BY <1>6, <1>7, <1>10, <2>2, <2>3 DEF Cancels
<1>11. CASE f.intent # "unbook"
  <2>1. intent = "book" /\ q.slots = s
    BY <1>4, <1>11
  <2>2. \/ a.booked = b
        \/ /\ MissingOf("book", s) = {}
           /\ FreeSlot(b, x) /\ a.booked = b \cup {x}
    BY <1>7, <2>1
  <2>3. MissingOf("book", s) = {} => s["time"] # None
    BY DEF MissingOf, Required, Fields
  <2>4. \/ a.booked = b
        \/ f.slots.time # AllDay /\ FreeSlot(b, f.slots) /\ a.booked = b \cup {f.slots}
    BY <1>1, <1>8, <2>1, <2>2, <2>3
  <2> QED BY <1>6, <1>7, <1>11, <2>4 DEF Books
<1> QED BY <1>10, <1>11
LEMMA YesIsGood ==
  ASSUME NEW f, NEW b, b \subseteq Slots, FsmOK(f), f.state # "CONFIRM"
  PROVE  Good(Yes(f, b).fsm, f, b)
<1> DEFINE pick == f.pick \ Marked(f.marks)
           r == Request(f.intent, f.slots, NoMarks, pick, f.skip)
           h == [f EXCEPT !.unbound = TRUE]
<1>1. RequestOK(r) /\ r.confirmed = FALSE
  BY DEF FsmOK, Request, RequestOK, RequestFields
<1>2. Good(h, f, b)
  BY DEF FsmOK, FsmFields, Good, Same, Asked
<1>3. Yes(f, b) \in {Conclude(f, b, r), Unchanged(h, b), Unchanged(f, b)}
  BY DEF Yes
<1> HIDE DEF r, h
<1>4. Good(Conclude(f, b, r).fsm, f, b)
  BY <1>1, ConcludeIsGood
<1>5. Unchanged(h, b).fsm = h /\ Unchanged(f, b).fsm = f /\ Good(f, f, b)
  BY DEF Unchanged, Good, Same
<1> QED BY <1>2, <1>3, <1>4, <1>5

CallOK(c) ==
  /\ c.name \in {"set", "yes", "no", "cancel", "none", "heard"}
  /\ c.name = "heard" => ClaimOK(c)

PlainYes(f, c) == c.name = "yes" /\ ~Says(c) /\ f.state = "CONFIRM"

(* Whatever is said, but a yes to the question, the bookings stay and what *)
(* is asked is what was asked before, or true of the bookings.             *)
LEMMA ApplyIsGood ==
  ASSUME NEW f, NEW b, b \subseteq Slots, FsmOK(f), NEW c, CallOK(c),
         ~PlainYes(f, c)
  PROVE  /\ Apply(f, b, c).booked = b
         /\ Good(Apply(f, b, c).fsm, f, b)
<1> DEFINE h == [f EXCEPT !.unbound = FALSE]
           done == [f EXCEPT !.state = "DONE"]
<1>1. Apply(f, b, c).booked = b
  BY ApplyReads DEF CallOK, PlainYes
<1>2. FsmOK(h) /\ \A g : Good(g, h, b) => Good(g, f, b)
  BY UnboundSame
<1>3. Good(f, f, b) /\ Good(done, f, b) /\ Good(IdleFsm, f, b)
  BY DoneIsGood, IdleIsGood DEF Good, Same
<1> HIDE DEF h, done
<1>4. /\ Changed(done, b).fsm = done /\ Changed(IdleFsm, b).fsm = IdleFsm
      /\ Unchanged(f, b).fsm = f
  BY DEF Changed, Unchanged
<1>5. CASE c.name = "none"
  <2>1. Apply(f, b, c) \in {Changed(done, b), Unchanged(f, b)}
    BY <1>5 DEF Apply, done
  <2> QED BY <1>1, <1>3, <1>4, <2>1
<1>6. CASE c.name = "cancel"
  <2>1. Apply(f, b, c) = Changed(IdleFsm, b)
    BY <1>6 DEF Apply
  <2> QED BY <1>1, <1>3, <1>4, <2>1
<1>7. CASE c.name = "heard"
  <2>1. Apply(f, b, c) = Heard(f, b, c)
    BY <1>7 DEF Apply
  <2>2. ClaimOK(c)
    BY <1>7 DEF CallOK
  <2>3. Good(Heard(f, b, c).fsm, f, b)
    BY <2>2, HeardIsGood
  <2> QED BY <1>1, <2>1, <2>3
<1>8. CASE c.name = "yes" /\ ~Says(c)
  <2>1. Apply(f, b, c) = Yes(f, b)
    BY <1>8 DEF Apply
  <2>2. f.state # "CONFIRM"
    BY <1>8 DEF PlainYes
  <2>3. Good(Yes(f, b).fsm, f, b)
    BY <2>2, YesIsGood
  <2> QED BY <1>1, <2>1, <2>3
<1>9. CASE c.name = "yes" /\ Says(c)
  <2>1. Apply(f, b, c) = Set(f, b, c)
    BY <1>9 DEF Apply
  <2>2. Good(Set(f, b, c).fsm, f, b)
    BY SetIsGood
  <2> QED BY <1>1, <2>1, <2>2
<1>10. CASE c.name = "no"
  <2>1. Apply(f, b, c) = No(h, b)
    BY <1>10 DEF Apply, h
  <2>2. Good(No(h, b).fsm, h, b)
    BY <1>2, NoIsGood
  <2> QED BY <1>1, <1>2, <2>1, <2>2
<1>11. CASE c.name = "set"
  <2>1. Apply(f, b, c) = Set(h, b, c)
    BY <1>11 DEF Apply, h
  <2>2. Good(Set(h, b, c).fsm, h, b)
    BY <1>2, SetIsGood
  <2> QED BY <1>1, <1>2, <2>1, <2>2
<1> QED BY <1>5, <1>6, <1>7, <1>8, <1>9, <1>10, <1>11 DEF CallOK

LEMMA CallsAreOK ==
  ASSUME NEW c \in CustomerCalls \cup OperatorCalls
  PROVE  CallOK(c)
BY DeskAssumption DEF CallOK, ClaimOK

----------------------------------------------------------------------------
(* The inductive invariant: the record is well made, the bookings are      *)
(* slots.                                                                  *)
DeskInv == FsmOK(fsm) /\ booked \subseteq Slots

LEMMA InitDesk == Init => DeskInv
BY IdleIsGood, DeskAssumption DEF Init, DeskInv

(* What a call does to the desk. *)
LEMMA DoIs ==
  ASSUME DeskInv, NEW c \in CustomerCalls \cup OperatorCalls, Do(c)
  PROVE  /\ DeskInv'
         /\ \/ booked' = booked /\ Good(fsm', fsm, booked)
            \/ /\ fsm.state = "CONFIRM" /\ fsm'.state \in {"COLLECTING", "DONE"}
               /\ \/ booked' = booked
                  \/ Books(fsm, booked, booked')
                  \/ Cancels(fsm, booked, booked')
<1>1. fsm' = Apply(fsm, booked, c).fsm /\ booked' = Apply(fsm, booked, c).booked
  BY DEF Do, Becomes
<1>2. FsmOK(fsm) /\ booked \subseteq Slots
  BY DEF DeskInv
<1>3. CASE ~PlainYes(fsm, c)
  <2>1. booked' = booked /\ Good(fsm', fsm, booked)
    BY <1>1, <1>2, <1>3, ApplyIsGood, CallsAreOK
  <2> QED BY <1>2, <2>1 DEF DeskInv, Good
<1>4. CASE PlainYes(fsm, c)
  <2>1. Apply(fsm, booked, c) = Yes(fsm, booked) /\ fsm.state = "CONFIRM"
    BY <1>4 DEF Apply, PlainYes
  <2>2. /\ FsmOK(fsm') /\ fsm'.state \in {"COLLECTING", "DONE"}
        /\ \/ booked' = booked
           \/ Books(fsm, booked, booked')
           \/ Cancels(fsm, booked, booked')
    BY <1>1, <1>2, <2>1, YesToQuestion
  <2>3. fsm.slots \in Slots
    BY <1>2, <2>1 DEF FsmOK, Asked
  <2>4. booked' \subseteq Slots
    BY <1>2, <2>2, <2>3 DEF Books, Cancels
  <2> QED BY <2>1, <2>2, <2>4 DEF DeskInv
<1> QED BY <1>3, <1>4

LEMMA NextDesk == DeskInv /\ [Next]_vars => DeskInv'
<1> SUFFICES ASSUME DeskInv, [Next]_vars PROVE DeskInv'
  OBVIOUS
<1>1. ASSUME NEW c \in CustomerCalls, CustomerLine(c) PROVE DeskInv'
  BY <1>1, DoIs DEF CustomerLine
<1>2. ASSUME NEW c \in OperatorCalls, OperatorTurn(c) PROVE DeskInv'
  BY <1>2, DoIs DEF OperatorTurn
<1>3. CASE YesFades
  <2>1. FsmOK(fsm')
    BY <1>3, UnboundSame DEF YesFades, DeskInv
  <2> QED BY <1>3, <2>1 DEF YesFades, DeskInv
<1>4. ASSUME NEW x \in FormSlots, FormBooks(x) \/ FormUnbooks(x) PROVE DeskInv'
  BY <1>4, DeskAssumption DEF FormBooks, FormUnbooks, DeskInv
<1>5. CASE MachineReset
  BY <1>5, IdleIsGood DEF MachineReset, DeskInv
<1>6. CASE DeskReset
  BY <1>6, IdleIsGood DEF DeskReset, DeskInv
<1>7. CASE UNCHANGED vars
  BY <1>7 DEF vars, DeskInv
<1> QED BY <1>1, <1>2, <1>3, <1>4, <1>5, <1>6, <1>7 DEF Next

LEMMA AlwaysDesk == Spec => []DeskInv
BY InitDesk, NextDesk, PTL DEF Spec

(* While the form is not used the question on the screen is true of the    *)
(* bookings: only a plain yes changes them, and that closes the question.  *)
LEMMA NextTruth ==
  ASSUME FormSlots = {}, DeskInv, Truth(fsm, booked), [Next]_vars
  PROVE  Truth(fsm, booked)'
<1>1. ASSUME NEW c \in CustomerCalls \cup OperatorCalls, Do(c)
      PROVE  Truth(fsm', booked')
  BY <1>1, DoIs DEF Good, Same, Truth
<1>2. CASE YesFades
  <2>1. Same(fsm', fsm)
    BY <1>2, UnboundSame DEF YesFades, DeskInv
  <2> QED BY <1>2, <2>1 DEF YesFades, Same, Truth
<1>3. CASE MachineReset \/ DeskReset
  <2>1. fsm'.state = "IDLE"
    BY <1>3, IdleIsGood DEF MachineReset, DeskReset
  <2> QED BY <2>1 DEF Truth
<1>4. CASE UNCHANGED vars
  BY <1>4 DEF vars, Truth
<1> QED BY <1>1, <1>2, <1>3, <1>4 DEF Next, CustomerLine, OperatorTurn

(* While nobody uses the form, what CONFIRM offers is free and what it     *)
(* asks to cancel is booked, whatever was said since the question came up. *)
THEOREM OfferStands ==
  ASSUME FormSlots = {}
  PROVE  Spec => []QuestionsStayTrue
<1> DEFINE Inv == DeskInv /\ Truth(fsm, booked)
<1>1. Init => Inv
  BY InitDesk, IdleIsGood DEF Init, Truth
<1>2. Inv /\ [Next]_vars => Inv'
  BY NextDesk, NextTruth
<1>3. Inv => QuestionsStayTrue
  BY DEF Truth, QuestionsStayTrue, Offers, FreeSlot
<1> QED BY <1>1, <1>2, <1>3, PTL DEF Spec
----------------------------------------------------------------------------
(* What the desk's look at the bookings finds free clashes with none of    *)
(* them, as long as no span runs past midnight.                            *)
Forward == \A t \in Ranges : t[1] < t[2]

LEMMA TimesAreForward ==
  ASSUME Forward, NEW t \in Times
  PROVE  t[1] \in Nat /\ t[2] \in Nat /\ t[1] <= t[2] /\ t # AllDay
<1>1. t # AllDay
  BY ValuesAssumption
<1>2. CASE t \in Ranges
  BY <1>1, <1>2, ValuesAssumption DEF Forward
<1>3. CASE t \in {Hour(h) : h \in DeskHours}
  <2>1. PICK h \in DeskHours : t = <<h, h>>
    BY <1>3 DEF Hour
  <2>2. h \in Nat
    BY ValuesAssumption
  <2> QED BY <1>1, <2>1, <2>2
<1> QED BY <1>2, <1>3 DEF Times

LEMMA ApartIsApart ==
  ASSUME Forward, NEW t \in Times, NEW u \in Times, ~Overlaps(t, u)
  PROVE  ~Contract!Meets(t, u) /\ ~Contract!Meets(u, t)
<1>1. /\ t[1] \in Nat /\ t[2] \in Nat /\ t[1] <= t[2] /\ t # AllDay
      /\ u[1] \in Nat /\ u[2] \in Nat /\ u[1] <= u[2] /\ u # AllDay
  BY TimesAreForward
<1>2. t # u
  BY <1>1 DEF Overlaps
<1>3. Contract!Until(t) = t[2] /\ Contract!Until(u) = u[2]
  BY <1>1 DEF Contract!Until
<1>4. \/ t[1] > u[2]
      \/ u[1] > t[2]
      \/ t[1] = t[2] /\ t[1] = u[2] /\ u[1] # u[2]
  BY <1>1 DEF Overlaps
<1>5. CASE t[1] = t[2] /\ u[1] = u[2]
  BY <1>1, <1>2, <1>5 DEF Contract!Meets, Contract!Moment
<1>6. CASE t[1] = t[2] /\ u[1] # u[2]
  BY <1>1, <1>3, <1>4, <1>6 DEF Contract!Meets, Contract!Moment
<1>7. CASE t[1] # t[2] /\ u[1] = u[2]
  BY <1>1, <1>3, <1>4, <1>7 DEF Contract!Meets, Contract!Moment
<1>8. CASE t[1] # t[2] /\ u[1] # u[2]
  BY <1>1, <1>3, <1>4, <1>8 DEF Contract!Meets, Contract!Moment
<1> QED BY <1>5, <1>6, <1>7, <1>8

LEMMA FreeIsClear ==
  ASSUME Forward, NEW b, b \subseteq Slots, NEW x \in Slots, FreeSlot(b, x), NEW y \in b
  PROVE  ~Contract!Clash(x, y) /\ ~Contract!Clash(y, x)
<1> SUFFICES ASSUME y.month = x.month, y.day = x.day
             PROVE  ~Contract!Meets(x.time, y.time) /\ ~Contract!Meets(y.time, x.time)
  BY DEF Contract!Clash
<1> DEFINE day == BookedTimes(b, x.month, x.day)
<1>1. y.time \in day
  BY DEF BookedTimes
<1>2. Conflicts(b, x.month, x.day, x.time) = {}
  BY DEF FreeSlot, Free, Lookup
<1> HIDE DEF day
<1>3. AllDay \notin day /\ x.time # AllDay /\ ~Overlaps(x.time, y.time)
  BY <1>1, <1>2 DEF Conflicts, day
<1>4. x.time \in Times /\ y.time \in Times
  BY <1>1, <1>3 DEF Slots
<1> QED BY <1>3, <1>4, ApartIsApart

(* What a call does to the bookings, while no clash is among them.         *)
LEMMA NextClear ==
  ASSUME Forward, FormSlots = {}, DeskInv, NoClash, [Next]_vars
  PROVE  NoClash'
<1>1. ASSUME NEW c \in CustomerCalls \cup OperatorCalls, Do(c)
      PROVE  NoClash'
  <2>1. booked' = booked \/ Books(fsm, booked, booked') \/ Cancels(fsm, booked, booked')
    BY <1>1, DoIs
  <2>2. CASE booked' = booked \/ Cancels(fsm, booked, booked')
    BY <2>2 DEF Cancels, NoClash
  <2>3. CASE Books(fsm, booked, booked') /\ fsm.state = "CONFIRM"
    <3>1. fsm.slots \in Slots /\ FreeSlot(booked, fsm.slots)
      BY <2>3 DEF Books, DeskInv, FsmOK, Asked
    <3>2. \A y \in booked : ~Contract!Clash(fsm.slots, y) /\ ~Contract!Clash(y, fsm.slots)
      BY <3>1, FreeIsClear DEF DeskInv
    <3>3. booked' = booked \cup {fsm.slots}
      BY <2>3 DEF Books
    <3> QED BY <3>2, <3>3 DEF NoClash
  <2> QED BY <1>1, <2>1, <2>2, <2>3, DoIs
<1>2. CASE YesFades \/ MachineReset \/ UNCHANGED vars
  BY <1>2 DEF YesFades, MachineReset, vars, NoClash
<1>3. CASE DeskReset
  BY <1>3 DEF DeskReset, NoClash
<1> QED BY <1>1, <1>2, <1>3 DEF Next, CustomerLine, OperatorTurn

(* While nobody uses the form, no two bookings ever clash, if none of the  *)
(* first ones do and no span runs past midnight (a span that does is read  *)
(* as one that ends before it begins, and the look finds nothing there).   *)
THEOREM NeverDoubleBooked ==
  ASSUME Forward, FormSlots = {},
         \A x, y \in InitialBookings : x # y => ~Contract!Clash(x, y)
  PROVE  Spec => []NoClash
<1>1. Init => NoClash
  BY DEF Init, NoClash
<1>2. DeskInv /\ NoClash /\ [Next]_vars => NoClash'
  BY NextClear
<1> QED BY <1>1, <1>2, AlwaysDesk, PTL DEF Spec
----------------------------------------------------------------------------
(* A value that a request has it keeps on its way to the answer.           *)
LEMMA FinishKeeps ==
  ASSUME NEW f, NEW b, NEW r, FsmOK(f), RequestOK(r),
         NEW k \in Fields, r.slots[k] # None
  PROVE  Finish(f, b, r).fsm.slots[k] \in {f.slots[k], r.slots[k]}
<1> DEFINE missing == MissingOf(r.intent, r.slots) \cup (r.rejected \cap {"time"})
           c == Collect(f, r.intent, r.slots, r.marks, missing, r.rejected, r.pick, r.skip)
           x == SlotOf(r.slots)
           e == Exec(b, r.intent, x, r.confirmed)
           asks == \/ r.intent = "check" /\ e.status \in {"available", "partial"}
                   \/ e.status \in {"pending", "pending_cancel"}
           g == [f EXCEPT !.state = IF asks THEN "CONFIRM" ELSE "DONE",
                         !.intent = r.intent, !.slots = x,
                         !.marks = IF asks /\ r.offer THEN r.marks ELSE NoMarks,
                         !.missing = {}, !.rejected = {},
                         !.status = e.status, !.detail = e.detail,
                         !.pick = r.pick, !.skip = r.skip]
<1>1. CASE missing # {}
  <2>1. Finish(f, b, r) = Settle(f, c, b)
    BY <1>1 DEF Finish
  <2>2. c.slots = r.slots
    BY CollectIs DEF RequestOK
  <2> HIDE DEF c
  <2>3. Settle(f, c, b).fsm \in {f, c}
    BY DEF Settle, Changed, Unchanged
  <2> QED BY <2>1, <2>2, <2>3
<1>2. CASE missing = {}
  <2>1. Finish(f, b, r) = Settle(f, g, e.booked)
    BY <1>2 DEF Finish, Execute, Answer
  <2>2. g.slots = x
    BY DEF FsmOK, FsmFields
  <2>3. x[k] = r.slots[k]
    BY DEF SlotOf, NormTime, Fields
  <2> HIDE DEF g, x, e
  <2>4. Settle(f, g, e.booked).fsm \in {f, g}
    BY DEF Settle, Changed, Unchanged
  <2> QED BY <2>1, <2>2, <2>3, <2>4
<1> QED BY <1>1, <1>2

LEMMA ConcludeKeeps ==
  ASSUME NEW f, NEW b, NEW r, b \subseteq Slots, FsmOK(f), RequestOK(r),
         NEW k \in Fields, r.slots[k] # None
  PROVE  Conclude(f, b, r).fsm.slots[k] \in {f.slots[k], r.slots[k]}
<1> DEFINE q == OnlyBooking(b, r)
           d == Delegated(f, b, q)
<1>1. RequestOK(q) /\ q.slots[k] = r.slots[k]
  BY OnlyBookingIs
<1> HIDE DEF q
<1>2. RequestOK(d) /\ d.slots[k] = r.slots[k]
  BY <1>1, DelegatedIs
<1>3. Conclude(f, b, r) = Finish(f, b, d)
  BY DEF Conclude, q
<1> HIDE DEF d
<1> QED BY <1>2, <1>3, FinishKeeps

(* A turn of the operator leaves what the customer said.                   *)
LEMMA HeardKeeps ==
  ASSUME NEW f, NEW b, b \subseteq Slots, FsmOK(f), NEW c, ClaimOK(c),
         NEW k \in Fields, f.slots[k] # None, f.marks[k] # "proposal"
  PROVE  Heard(f, b, c).fsm.slots[k] = f.slots[k]
<1> DEFINE said == Understood(f, b, c)
           proposal == c.claim = "slot_free"
           mark == IF proposal THEN "proposal" ELSE "readback"
           filled == {i \in Fields : said[i] # None}
           s == [i \in Fields |-> IF i \in filled THEN said[i] ELSE f.slots[i]]
           marks == [i \in Fields |-> IF i \in filled THEN mark ELSE f.marks[i]]
           r == Request(f.intent, s, marks, f.pick, f.skip)
           h == [f EXCEPT !.unbound = FALSE]
           r1 == [r EXCEPT !.marks = NoMarks]
           r2 == [r EXCEPT !.offer = TRUE]
           g == Collect(f, f.intent, s, marks, MissingOf(f.intent, s), {}, f.pick, f.skip)
<1>1. Typed(said) /\ said[k] = None
  BY UnderstoodIs DEF FsmOK
<1> HIDE DEF said, proposal
<1>2. Typed(s) /\ s[k] = f.slots[k]
  BY <1>1 DEF FsmOK, Typed, Fields
<1>3. /\ RequestOK(r1) /\ r1.slots = s /\ RequestOK(r2) /\ r2.slots = s
  <2> HIDE DEF s, marks
  <2> QED BY <1>2 DEF FsmOK, Request, RequestOK, RequestFields
<1>4. FsmOK(h) /\ h.slots = f.slots
  BY UnboundSame DEF Same
<1>5. g.slots = s
  <2> HIDE DEF s, marks
  <2> QED BY <1>2, CollectIs DEF FsmOK
<1>6. Heard(f, b, c) \in {Unchanged(f, b), Conclude(h, b, r1), Conclude(f, b, r2), Changed(g, b)}
  BY DEF Heard, Entered, said, proposal
<1> HIDE DEF r1, r2, h, g, s
<1>7. Conclude(h, b, r1).fsm.slots[k] = f.slots[k]
  <2>1. Conclude(h, b, r1).fsm.slots[k] \in {h.slots[k], r1.slots[k]}
    BY <1>2, <1>3, <1>4, ConcludeKeeps
  <2> QED BY <1>2, <1>3, <1>4, <2>1
<1>8. Conclude(f, b, r2).fsm.slots[k] = f.slots[k]
  <2>1. Conclude(f, b, r2).fsm.slots[k] \in {f.slots[k], r2.slots[k]}
    BY <1>2, <1>3, ConcludeKeeps
  <2> QED BY <1>2, <1>3, <2>1
<1>9. Changed(g, b).fsm.slots[k] = f.slots[k] /\ Unchanged(f, b).fsm.slots[k] = f.slots[k]
  BY <1>2, <1>5 DEF Changed, Unchanged
<1> QED BY <1>6, <1>7, <1>8, <1>9

(* The operator never overrules the customer: a claim or a readback fills  *)
(* gaps and replaces proposals, also where it completes the request and    *)
(* the desk adds its own choices.                                          *)
THEOREM CustomersWordCounts == Spec => []CustomerOverrules
<1>1. DeskInv => CustomerOverrules
  <2> SUFFICES ASSUME DeskInv, NEW c \in OperatorCalls, NEW k \in Fields,
                      fsm.slots[k] # None, fsm.marks[k] # "proposal"
               PROVE  Apply(fsm, booked, c).fsm.slots[k] = fsm.slots[k]
    BY DEF CustomerOverrules
  <2>1. c.name = "heard" /\ ClaimOK(c)
    BY DeskAssumption DEF ClaimOK
  <2>2. Apply(fsm, booked, c) = Heard(fsm, booked, c)
    BY <2>1 DEF Apply
  <2> QED BY <2>1, <2>2, HeardKeeps DEF DeskInv
<1> QED BY <1>1, AlwaysDesk, PTL
----------------------------------------------------------------------------
(* A proposal is fresh when it is a value that was not refused. Nothing    *)
(* that a request goes through after a refusal makes a stale one.          *)
Fresh(r) ==
  \A k \in {"day", "time"} :
    r.marks[k] = "proposal" => r.slots[k] # None /\ r.slots[k] \notin r.skip[k]

LEMMA OnlyBookingFresh ==
  ASSUME NEW b, b \subseteq Slots, NEW r, RequestOK(r), Fresh(r)
  PROVE  Fresh(OnlyBooking(b, r))
<1> DEFINE q == OnlyBooking(b, r)
<1>1. \A k \in Fields : r.slots[k] # None => q.slots[k] = r.slots[k]
  BY OnlyBookingIs
<1>2. q.marks = r.marks /\ q.skip = r.skip
  BY DEF OnlyBooking, RequestOK, RequestFields
<1> HIDE DEF q
<1>3. Fresh(q)
  BY <1>1, <1>2 DEF Fresh, Fields
<1> QED BY <1>3 DEF q

LEMMA DelegatedFresh ==
  ASSUME NEW f, NEW b, NEW r, RequestOK(r), Fresh(r)
  PROVE  Fresh(Delegated(f, b, r))
<1> DEFINE s == PickFill(b, r.intent, r.slots, r.pick, r.skip)
           q == Picked(r, s)
<1>1. /\ \A k \in Fields : r.slots[k] # None => s[k] = r.slots[k]
      /\ \A k \in {"day", "time"} :
           r.slots[k] = None /\ s[k] # None => s[k] \notin r.skip[k]
  BY PickFillIs DEF RequestOK
<1>2. Delegated(f, b, r) \in {q, r}
  BY DEF Delegated
<1> HIDE DEF s
<1>3. /\ q.slots = s /\ q.skip = r.skip
      /\ \A k \in Fields : q.marks[k] = IF k \in Filled(r.slots, s) THEN "proposal"
                                        ELSE r.marks[k]
  BY DEF Picked, RequestOK, RequestFields
<1> HIDE DEF q
<1>4. Fresh(q)
  BY <1>1, <1>3 DEF Fresh, Filled, Fields
<1> QED BY <1>2, <1>4

LEMMA FinishFresh ==
  ASSUME NEW f, NEW b, NEW r, FsmOK(f), RequestOK(r), Fresh(r),
         Finish(f, b, r).changed
  PROVE  Fresh(Finish(f, b, r).fsm)
<1> DEFINE missing == MissingOf(r.intent, r.slots) \cup (r.rejected \cap {"time"})
           c == Collect(f, r.intent, r.slots, r.marks, missing, r.rejected, r.pick, r.skip)
           x == SlotOf(r.slots)
           e == Exec(b, r.intent, x, r.confirmed)
           asks == \/ r.intent = "check" /\ e.status \in {"available", "partial"}
                   \/ e.status \in {"pending", "pending_cancel"}
           g == [f EXCEPT !.state = IF asks THEN "CONFIRM" ELSE "DONE",
                         !.intent = r.intent, !.slots = x,
                         !.marks = IF asks /\ r.offer THEN r.marks ELSE NoMarks,
                         !.missing = {}, !.rejected = {},
                         !.status = e.status, !.detail = e.detail,
                         !.pick = r.pick, !.skip = r.skip]
<1>1. CASE missing # {}
  <2>1. Finish(f, b, r) = Settle(f, c, b)
    BY <1>1 DEF Finish
  <2>2. c.slots = r.slots /\ c.marks = r.marks /\ c.skip = r.skip
    BY CollectIs DEF RequestOK
  <2> HIDE DEF c
  <2>3. Settle(f, c, b).changed => Settle(f, c, b).fsm = c
    BY DEF Settle, Changed, Unchanged
  <2>4. Fresh(c)
    BY <2>2 DEF Fresh
  <2> QED BY <2>1, <2>3, <2>4
<1>2. CASE missing = {}
  <2>1. Finish(f, b, r) = Settle(f, g, e.booked)
    BY <1>2 DEF Finish, Execute, Answer
  <2>2. g.slots = x /\ g.marks \in {r.marks, NoMarks} /\ g.skip = r.skip
    BY DEF FsmOK, FsmFields
  <2>3. \A k \in Fields : r.slots[k] # None => x[k] = r.slots[k]
    BY DEF SlotOf, NormTime, Fields
  <2>4. \A k \in Fields : NoMarks[k] # "proposal"
    BY ValuesAssumption DEF NoMarks
  <2> HIDE DEF g, x, e
  <2>5. Settle(f, g, e.booked).changed => Settle(f, g, e.booked).fsm = g
    BY DEF Settle, Changed, Unchanged
  <2>6. Fresh(g)
    BY <2>2, <2>3, <2>4 DEF Fresh, Fields
  <2> QED BY <2>1, <2>5, <2>6
<1> QED BY <1>1, <1>2

LEMMA ConcludeFresh ==
  ASSUME NEW f, NEW b, NEW r, b \subseteq Slots, FsmOK(f), RequestOK(r), Fresh(r),
         Conclude(f, b, r).changed
  PROVE  Fresh(Conclude(f, b, r).fsm)
<1> DEFINE q == OnlyBooking(b, r)
           d == Delegated(f, b, q)
<1>1. RequestOK(q) /\ Fresh(q)
  BY OnlyBookingIs, OnlyBookingFresh
<1> HIDE DEF q
<1>2. RequestOK(d) /\ Fresh(d)
  BY <1>1, DelegatedIs, DelegatedFresh
<1>3. Conclude(f, b, r) = Finish(f, b, d)
  BY DEF Conclude, q
<1> HIDE DEF d
<1> QED BY <1>2, <1>3, FinishFresh

(* What is proposed after a refusal is fresh.                              *)
LEMMA RefuseFresh ==
  ASSUME NEW f, NEW b, b \subseteq Slots, FsmOK(f), NEW intent, NEW slots, Typed(slots),
         NEW ks, Refuse(f, b, intent, slots, ks).changed
  PROVE  Fresh(Refuse(f, b, intent, slots, ks).fsm)
<1> DEFINE skip == [k \in {"day", "time"} |->
                      IF k \in ks \cap f.pick THEN f.skip[k] \cup {slots[k]} ELSE f.skip[k]]
           kept == [k \in Fields |-> IF k \in ks THEN None ELSE slots[k]]
           s == PickFill(b, intent, kept, f.pick, skip)
           picked == Filled(kept, s)
           r == Request(intent, s, Proposed(picked), f.pick, skip)
           r2 == [r EXCEPT !.offer = TRUE]
           c == Collect(f, intent, s, Proposed(picked), MissingOf(intent, s), {}, f.pick, skip)
<1>1. Typed(kept)
  BY DEF Typed, Fields
<1>2. /\ Typed(s)
      /\ \A k \in {"day", "time"} :
           kept[k] = None /\ s[k] # None => s[k] \notin skip[k]
  <2> HIDE DEF kept, skip
  <2> QED BY <1>1, PickFillIs
<1>3. Refuse(f, b, intent, slots, ks) \in {Conclude(f, b, r2), Changed(c, b)}
  BY DEF Refuse, Reoffered
<1> HIDE DEF s, skip, kept
<1>4. \A k \in Fields : Proposed(picked)[k] = "proposal" => kept[k] = None /\ s[k] # None
  BY ValuesAssumption DEF Proposed, Filled
<1> HIDE DEF picked
<1>5. RequestOK(r2) /\ Fresh(r2)
  BY <1>2, <1>4 DEF FsmOK, Request, RequestOK, RequestFields, Fresh, Fields
<1>6. Fresh(c)
  <2>1. c.slots = s /\ c.marks = Proposed(picked) /\ c.skip = skip
    BY DEF Collect, FsmOK, FsmFields
  <2> HIDE DEF c
  <2> QED BY <1>2, <1>4, <2>1 DEF Fresh, Fields
<1> HIDE DEF r2, c
<1>7. Conclude(f, b, r2).changed => Fresh(Conclude(f, b, r2).fsm)
  BY <1>5, ConcludeFresh
<1>8. Changed(c, b).fsm = c
  BY DEF Changed
<1> QED BY <1>3, <1>6, <1>7, <1>8

LEMMA NoFresh ==
  ASSUME NEW f, NEW b, b \subseteq Slots, FsmOK(f), No(f, b).changed
  PROVE  Fresh(No(f, b).fsm)
<1> DEFINE offered == {k \in Fields : f.marks[k] = "proposal"}
           r1 == Refuse(f, b, f.intent, f.slots, Marked(f.marks))
           r2 == Refuse(f, b, f.intent, Inherited(f), offered)
           done == [f EXCEPT !.state = "DONE"]
<1>1. /\ r1.changed => Fresh(r1.fsm)
      /\ r2.changed => Fresh(r2.fsm)
  <2>1. Typed(f.slots) /\ Typed(Inherited(f))
    BY InheritedIs DEF FsmOK
  <2> HIDE DEF offered
  <2> QED BY <2>1, RefuseFresh
<1>2. Fresh(IdleFsm)
  BY ValuesAssumption DEF IdleFsm, NoMarks, Fresh, Fields
<1>3. CASE f.state = "COLLECTING" /\ Marked(f.marks) # {}
  <2>1. No(f, b) = r1
    BY <1>3 DEF No
  <2> QED BY <1>1, <2>1
<1>4. CASE f.state = "CONFIRM" /\ offered # {}
  <2>1. No(f, b) = r2
    BY <1>4 DEF No
  <2> QED BY <1>1, <2>1
<1>5. CASE f.state = "CONFIRM" /\ offered = {}
  <2>1. Fresh(f)
    BY <1>5 DEF Fresh, Fields
  <2>2. done.marks = f.marks
    BY DEF FsmOK, FsmFields
  <2>3. \A k \in {"day", "time"} : done.marks[k] # "proposal"
    BY <1>5, <2>2 DEF Fields
  <2>4. Fresh(done)
    <3> HIDE DEF done
    <3> QED BY <2>3 DEF Fresh
  <2>5. No(f, b) \in {Changed(IdleFsm, b), Changed(done, b), Unchanged(f, b)}
    BY <1>5 DEF No
  <2> HIDE DEF done
  <2>6. /\ Changed(IdleFsm, b).fsm = IdleFsm /\ Changed(done, b).fsm = done
        /\ Unchanged(f, b).fsm = f
    BY DEF Changed, Unchanged
  <2> QED BY <1>2, <2>1, <2>4, <2>5, <2>6
<1>6. CASE f.state # "CONFIRM" /\ ~(f.state = "COLLECTING" /\ Marked(f.marks) # {})
  <2>1. No(f, b) = Unchanged(f, b)
    BY <1>6 DEF No
  <2> QED BY <2>1 DEF Unchanged
<1> QED BY <1>3, <1>4, <1>5, <1>6

(* The desk does not propose again, in a field it was told to choose, what *)
(* the customer refused there: not at once, and not when its next choice   *)
(* completes the request and is executed.                                  *)
THEOREM NoMeansNo == Spec => []RefusedStaysRefused
<1>1. DeskInv => RefusedStaysRefused
  <2> SUFFICES ASSUME DeskInv, NEW c \in CustomerCalls, c.name = "no",
                      Apply(fsm, booked, c).changed
               PROVE  Fresh(Apply(fsm, booked, c).fsm)
    BY DEF RefusedStaysRefused, Fresh
  <2> DEFINE h == [fsm EXCEPT !.unbound = FALSE]
  <2>1. Apply(fsm, booked, c) = No(h, booked)
    BY DEF Apply
  <2>2. FsmOK(h)
    BY UnboundSame DEF DeskInv
  <2> HIDE DEF h
  <2> QED BY <2>1, <2>2, NoFresh DEF DeskInv
<1> QED BY <1>1, AlwaysDesk, PTL
----------------------------------------------------------------------------
(* The refinement of the contract. The question of a record, by its state, *)
(* status and slots alone.                                                 *)
QuestionOf(f) ==
  CASE f.state = "CONFIRM" /\ f.status \in {"pending", "available"} /\ f.slots.time # AllDay ->
         [about |-> "book", slot |-> f.slots]
    [] f.state = "CONFIRM" /\ f.status = "pending_cancel" ->
         [about |-> "unbook", slot |-> f.slots]
    [] OTHER -> None

LEMMA QuestionIs == Question = QuestionOf(fsm) /\ Question' = QuestionOf(fsm')
<1>1. Question = QuestionOf(fsm)
  BY DEF Question, QuestionOf, Offers
<1>2. Question' = QuestionOf(fsm')
  BY DEF Question, QuestionOf, Offers
<1> QED BY <1>1, <1>2

LEMMA SameQuestion ==
  ASSUME NEW f, NEW g, Same(g, f)
  PROVE  QuestionOf(g) = QuestionOf(f)
BY DEF Same, QuestionOf

LEMMA QuestionCases ==
  ASSUME NEW f
  PROVE  /\ f.state # "CONFIRM" => QuestionOf(f) = None
         /\ \/ QuestionOf(f) = None
            \/ /\ f.state = "CONFIRM" /\ f.status \in {"pending", "available"}
               /\ QuestionOf(f) = [about |-> "book", slot |-> f.slots]
            \/ /\ f.state = "CONFIRM" /\ f.status = "pending_cancel"
               /\ QuestionOf(f) = [about |-> "unbook", slot |-> f.slots]
BY DEF QuestionOf

(* No booking is for a whole day, and no question to cancel is about one.  *)
Hourly(b) == \A x \in b : x.time # AllDay

AsksHourly(f) ==
  f.state = "CONFIRM" /\ f.status = "pending_cancel" => f.slots.time # AllDay

ContractInv == DeskInv /\ Hourly(booked) /\ AsksHourly(fsm)

(* A new question is one that the bookings allow. *)
LEMMA GoodAsks ==
  ASSUME Forward, DeskInv, Good(fsm', fsm, booked), booked' = booked
  PROVE  [Contract!Next]_(Contract!vars)
<1>1. CASE Same(fsm', fsm)
  <2>1. Question' = Question
    BY <1>1, QuestionIs, SameQuestion
  <2> QED BY <2>1 DEF Contract!vars
<1>2. CASE Truth(fsm', booked) /\ FsmOK(fsm')
  <2>1. CASE Question' = None
    BY <2>1 DEF Contract!Next, Contract!Drop
  <2>2. CASE /\ fsm'.state = "CONFIRM" /\ fsm'.status \in {"pending", "available"}
             /\ Question' = [about |-> "book", slot |-> fsm'.slots]
    <3>1. fsm'.slots \in Slots /\ FreeSlot(booked, fsm'.slots)
      BY <1>2, <2>2 DEF Truth, FsmOK, Asked
    <3>2. \A y \in booked : ~Contract!Clash(fsm'.slots, y)
      BY <3>1, FreeIsClear DEF DeskInv
    <3>3. Contract!Bookable(fsm'.slots)
      BY <3>2 DEF Contract!Bookable
    <3>4. Contract!Ask
      BY <2>2, <3>1, <3>3 DEF Contract!Ask
    <3> QED BY <3>4 DEF Contract!Next
  <2>3. CASE /\ fsm'.state = "CONFIRM" /\ fsm'.status = "pending_cancel"
             /\ Question' = [about |-> "unbook", slot |-> fsm'.slots]
    <3>1. fsm'.slots \in Slots /\ fsm'.slots \in booked
      BY <1>2, <2>3 DEF Truth, FsmOK, Asked
    <3>2. Contract!Ask
      BY <2>3, <3>1 DEF Contract!Ask
    <3> QED BY <3>2 DEF Contract!Next
  <2>4. \/ Question' = None
        \/ /\ fsm'.state = "CONFIRM" /\ fsm'.status \in {"pending", "available"}
           /\ Question' = [about |-> "book", slot |-> fsm'.slots]
        \/ /\ fsm'.state = "CONFIRM" /\ fsm'.status = "pending_cancel"
           /\ Question' = [about |-> "unbook", slot |-> fsm'.slots]
    BY QuestionIs, QuestionCases
  <2> QED BY <2>1, <2>2, <2>3, <2>4
<1> QED BY <1>1, <1>2 DEF Good

(* A yes writes what was asked. *)
LEMMA YesAgrees ==
  ASSUME Forward, ContractInv, fsm.state = "CONFIRM", fsm'.state # "CONFIRM",
         \/ booked' = booked
         \/ Books(fsm, booked, booked')
         \/ Cancels(fsm, booked, booked')
  PROVE  Contract!Next
<1>1. Question' = None
  BY QuestionIs, QuestionCases
<1>2. fsm.slots \in Slots /\ Asked(fsm)
  BY DEF ContractInv, DeskInv, FsmOK, Asked
<1>3. CASE booked' = booked
  BY <1>1, <1>3 DEF Contract!Next, Contract!Drop
<1>4. CASE Books(fsm, booked, booked')
  <2>1. fsm.status \in {"pending", "available"} /\ fsm.slots.time # AllDay
    BY <1>2, <1>4 DEF Books, Asked
  <2>2. Question = [about |-> "book", slot |-> fsm.slots]
    BY <2>1, QuestionIs DEF QuestionOf
  <2>3. \A y \in booked : ~Contract!Clash(fsm.slots, y)
    BY <1>2, <1>4, FreeIsClear DEF Books, ContractInv, DeskInv
  <2>4. Contract!Bookable(fsm.slots)
    BY <2>3 DEF Contract!Bookable
  <2>5. Question # None /\ Question.about = "book" /\ Question.slot = fsm.slots
    BY <1>2, <2>2, DeskAssumption
  <2>6. Contract!Agree
    BY <1>1, <1>4, <2>4, <2>5 DEF Contract!Agree, Books
  <2> QED BY <2>6 DEF Contract!Next
<1>5. CASE Cancels(fsm, booked, booked')
  <2>1. fsm.status = "pending_cancel" /\ fsm.slots.time # AllDay
    BY <1>2, <1>5 DEF Cancels, Asked, ContractInv, AsksHourly
  <2>2. Question = [about |-> "unbook", slot |-> fsm.slots]
    BY <2>1, QuestionIs DEF QuestionOf
  <2>3. fsm.slots \in booked /\ booked' = booked \ {fsm.slots}
    BY <1>5, <2>1 DEF Cancels
  <2>4. Question # None /\ Question.about = "unbook" /\ Question.slot = fsm.slots
    BY <1>2, <2>2, DeskAssumption
  <2>5. Contract!Agree
    BY <1>1, <2>3, <2>4 DEF Contract!Agree
  <2> QED BY <2>5 DEF Contract!Next
<1> QED BY <1>3, <1>4, <1>5

LEMMA NextAgrees ==
  ASSUME Forward, ContractInv, [Next]_vars
  PROVE  [Contract!Next]_(Contract!vars)
<1>1. ASSUME NEW c \in CustomerCalls \cup OperatorCalls, Do(c)
      PROVE  [Contract!Next]_(Contract!vars)
  <2>1. DeskInv
    BY DEF ContractInv
  <2>2. CASE booked' = booked /\ Good(fsm', fsm, booked)
    BY <2>1, <2>2, GoodAsks
  <2>3. CASE /\ fsm.state = "CONFIRM" /\ fsm'.state \in {"COLLECTING", "DONE"}
             /\ \/ booked' = booked
                \/ Books(fsm, booked, booked')
                \/ Cancels(fsm, booked, booked')
    BY <2>3, YesAgrees
  <2> QED BY <1>1, <2>1, <2>2, <2>3, DoIs
<1>2. CASE YesFades
  <2>1. Same(fsm', fsm)
    BY <1>2, UnboundSame DEF YesFades, ContractInv, DeskInv
  <2>2. Question' = Question /\ booked' = booked
    BY <1>2, <2>1, QuestionIs, SameQuestion DEF YesFades
  <2> QED BY <2>2 DEF Contract!vars
<1>3. ASSUME NEW x \in FormSlots, FormBooks(x) \/ FormUnbooks(x)
      PROVE  [Contract!Next]_(Contract!vars)
  <2>1. Question' = Question
    BY <1>3, QuestionIs DEF FormBooks, FormUnbooks
  <2>2. booked' \in {booked \cup {x}, booked \ {x}}
    BY <1>3 DEF FormBooks, FormUnbooks
  <2>3. Contract!Form
    BY <2>1, <2>2 DEF Contract!Form
  <2> QED BY <2>3 DEF Contract!Next
<1>4. CASE MachineReset
  <2>1. Question' = None /\ booked' = booked
    BY <1>4, QuestionIs, QuestionCases, IdleIsGood DEF MachineReset
  <2> QED BY <2>1 DEF Contract!Next, Contract!Drop
<1>5. CASE DeskReset
  <2>1. Question' = None /\ booked' = {}
    BY <1>5, QuestionIs, QuestionCases, IdleIsGood DEF DeskReset
  <2> QED BY <2>1 DEF Contract!Next, Contract!Wipe
<1>6. CASE UNCHANGED vars
  <2>1. Question' = Question /\ booked' = booked
    BY <1>6, QuestionIs DEF vars
  <2> QED BY <2>1 DEF Contract!vars
<1> QED BY <1>1, <1>2, <1>3, <1>4, <1>5, <1>6 DEF Next, CustomerLine, OperatorTurn

LEMMA NextHourly ==
  ASSUME Hourly(FormSlots), ContractInv, [Next]_vars
  PROVE  ContractInv'
<1>1. DeskInv'
  BY NextDesk DEF ContractInv
<1>2. ASSUME NEW c \in CustomerCalls \cup OperatorCalls, Do(c)
      PROVE  Hourly(booked') /\ AsksHourly(fsm')
  <2>1. CASE booked' = booked /\ Good(fsm', fsm, booked)
    BY <2>1 DEF Good, Same, Truth, AsksHourly, Hourly, ContractInv
  <2>2. CASE /\ fsm.state = "CONFIRM" /\ fsm'.state \in {"COLLECTING", "DONE"}
             /\ \/ booked' = booked
                \/ Books(fsm, booked, booked')
                \/ Cancels(fsm, booked, booked')
    BY <2>2 DEF Books, Cancels, AsksHourly, Hourly, ContractInv
  <2> QED BY <1>2, <2>1, <2>2, DoIs DEF ContractInv
<1>3. CASE YesFades
  <2>1. Same(fsm', fsm)
    BY <1>3, UnboundSame DEF YesFades, ContractInv, DeskInv
  <2> QED BY <1>1, <1>3, <2>1 DEF YesFades, Same, AsksHourly, ContractInv
<1>4. ASSUME NEW x \in FormSlots, FormBooks(x) \/ FormUnbooks(x)
      PROVE  Hourly(booked') /\ AsksHourly(fsm')
  BY <1>4 DEF FormBooks, FormUnbooks, Hourly, AsksHourly, ContractInv
<1>5. CASE MachineReset \/ DeskReset
  <2>1. fsm'.state = "IDLE" /\ booked' \in {booked, {}}
    BY <1>5, IdleIsGood DEF MachineReset, DeskReset
  <2> QED BY <1>1, <2>1 DEF Hourly, AsksHourly, ContractInv
<1>6. CASE UNCHANGED vars
  BY <1>1, <1>6 DEF vars, ContractInv
<1> QED BY <1>1, <1>2, <1>3, <1>4, <1>5, <1>6
        DEF Next, CustomerLine, OperatorTurn, ContractInv

(* The desk implements its contract, with the form in use: whatever was    *)
(* said and booked in between, a booking is written only where the screen  *)
(* had asked for it and nothing clashes, and removed only where it had     *)
(* asked that. No span runs past midnight, and neither the form nor the    *)
(* bookings at hand take whole days (the only booking of a day may then be *)
(* another one at the yes than at the question).                           *)
THEOREM ContractKept ==
  ASSUME Forward, Hourly(FormSlots), Hourly(InitialBookings)
  PROVE  Spec => KeepsContract
<1>1. Init => ContractInv
  BY InitDesk DEF Init, ContractInv, AsksHourly, IdleFsm
<1>2. ContractInv /\ [Next]_vars => ContractInv'
  BY NextHourly
<1>3. ContractInv /\ [Next]_vars => [Contract!Next]_(Contract!vars)
  BY NextAgrees
<1>4. Init => Contract!Init
  <2>1. Question = QuestionOf(fsm)
    BY QuestionIs
  <2>2. Init => Question = None
    BY <2>1, QuestionCases, IdleIsGood DEF Init
  <2> QED BY <2>2, DeskAssumption DEF Init, Contract!Init
<1> QED BY <1>1, <1>2, <1>3, <1>4, PTL DEF Spec, KeepsContract, Contract!Spec
----------------------------------------------------------------------------
(* A request that is being collected is never at a dead end. Where nothing *)
(* is missing a marked value waits for a yes or a no, and a no then opens  *)
(* a field that is required: were only the time marked in a question that  *)
(* needs none, nothing would be left to ask.                               *)
Offered(marks) == {k \in Fields : marks[k] = "proposal"}

AskOK(f) ==
  /\ f.state = "COLLECTING" =>
       /\ f.missing # {} \/ Marked(f.marks) # {}
       /\ MissingOf(f.intent, f.slots) \subseteq f.missing
       /\ Marked(f.marks) # {} /\ MissingOf(f.intent, f.slots) = {}
            => Marked(f.marks) \cap Required(f.intent) # {}
  /\ f.state = "CONFIRM" /\ Offered(f.marks) # {}
       => Offered(f.marks) \cap Required(f.intent) # {}

(* A request whose offer holds a required field, and whose time was not    *)
(* both rejected and marked.                                               *)
OfferOK(r) ==
  /\ r.offer => Offered(r.marks) \cap Required(r.intent) # {}
  /\ "time" \in r.rejected => r.marks["time"] = None

LEMMA PickFillAsks ==
  ASSUME NEW b, NEW intent, NEW s, Typed(s), NEW pick, NEW skip
  PROVE  Filled(s, PickFill(b, intent, s, pick, skip)) \subseteq Required(intent)
<1> DEFINE t == PickFill(b, intent, s, pick, skip)
           d == WithDay(b, s, pick, skip)
<1>1. t["month"] = s["month"]
  BY PickFillIs
<1>2. intent # "book" => t["time"] = s["time"]
  <2>1. d["time"] = s["time"]
    BY DEF WithDay, Typed, Fields
  <2>2. intent # "book" => t = d
    BY DEF PickFill, WithTime
  <2> HIDE DEF t, d
  <2> QED BY <2>1, <2>2
<1> HIDE DEF t
<1>3. Filled(s, t) \subseteq Required(intent)
  BY <1>1, <1>2 DEF Filled, Required, Fields
<1> QED BY <1>3 DEF t

LEMMA DelegatedAsks ==
  ASSUME NEW f, NEW b, NEW r, RequestOK(r), OfferOK(r)
  PROVE  OfferOK(Delegated(f, b, r))
<1> DEFINE s == PickFill(b, r.intent, r.slots, r.pick, r.skip)
           q == Picked(r, s)
           picked == Filled(r.slots, s)
<1>1. picked \subseteq Required(r.intent) /\ picked \subseteq Fields
  BY PickFillAsks DEF RequestOK, Filled
<1>2. CASE ~(/\ r.pick # {} /\ r.rejected = {} /\ f.state # "CONFIRM"
             /\ r.intent # "unbook")
  BY <1>2 DEF Delegated
<1>3. CASE /\ r.pick # {} /\ r.rejected = {} /\ f.state # "CONFIRM"
           /\ r.intent # "unbook"
  <2>1. Delegated(f, b, r) = q
    BY <1>3 DEF Delegated
  <2> HIDE DEF s
  <2>2. /\ q.intent = r.intent /\ q.rejected = {}
        /\ q.offer => r.offer \/ picked # {}
        /\ \A k \in Fields : q.marks[k] = IF k \in picked THEN "proposal" ELSE r.marks[k]
    BY <1>3 DEF Picked, RequestOK, RequestFields
  <2> HIDE DEF q, picked
  <2>3. picked \subseteq Offered(q.marks) /\ Offered(r.marks) \subseteq Offered(q.marks)
    BY <1>1, <2>2 DEF Offered
  <2>4. OfferOK(q)
    BY <1>1, <2>2, <2>3 DEF OfferOK
  <2> QED BY <2>1, <2>4
<1> QED BY <1>2, <1>3

LEMMA FinishAsks ==
  ASSUME NEW f, NEW b, NEW r, FsmOK(f), AskOK(f), RequestOK(r), OfferOK(r)
  PROVE  AskOK(Finish(f, b, r).fsm)
<1> DEFINE missing == MissingOf(r.intent, r.slots) \cup (r.rejected \cap {"time"})
           c == Collect(f, r.intent, r.slots, r.marks, missing, r.rejected, r.pick, r.skip)
           x == SlotOf(r.slots)
           e == Exec(b, r.intent, x, r.confirmed)
           asks == \/ r.intent = "check" /\ e.status \in {"available", "partial"}
                   \/ e.status \in {"pending", "pending_cancel"}
           g == [f EXCEPT !.state = IF asks THEN "CONFIRM" ELSE "DONE",
                         !.intent = r.intent, !.slots = x,
                         !.marks = IF asks /\ r.offer THEN r.marks ELSE NoMarks,
                         !.missing = {}, !.rejected = {},
                         !.status = e.status, !.detail = e.detail,
                         !.pick = r.pick, !.skip = r.skip]
<1>1. CASE missing # {}
  <2>1. Finish(f, b, r) = Settle(f, c, b)
    BY <1>1 DEF Finish
  <2>2. /\ c.slots = r.slots /\ c.marks = r.marks /\ c.missing = missing
        /\ c.intent = r.intent /\ c.state = "COLLECTING"
    BY CollectIs DEF RequestOK
  <2> HIDE DEF c
  <2>3. Settle(f, c, b).fsm \in {f, c}
    BY DEF Settle, Changed, Unchanged
  <2>4. MissingOf(r.intent, r.slots) = {} => r.marks["time"] = None
    BY <1>1 DEF OfferOK
  <2>5. Marked(r.marks) # {} /\ r.marks["time"] = None
          => Marked(r.marks) \cap Required(r.intent) # {}
    BY DEF Marked, Required, Fields
  <2> HIDE DEF missing
  <2>6. MissingOf(r.intent, r.slots) \subseteq missing
    BY DEF missing
  <2>7. AskOK(c)
    BY <1>1, <2>2, <2>4, <2>5, <2>6 DEF AskOK
  <2> QED BY <2>1, <2>3, <2>7
<1>2. CASE missing = {}
  <2>1. Finish(f, b, r) = Settle(f, g, e.booked)
    BY <1>2 DEF Finish, Execute, Answer
  <2>2. /\ g.intent = r.intent /\ g.state \in {"CONFIRM", "DONE"}
        /\ g.marks = NoMarks \/ (r.offer /\ g.marks = r.marks)
    BY DEF FsmOK, FsmFields
  <2>3. Offered(NoMarks) = {}
    BY ValuesAssumption DEF Offered, NoMarks
  <2> HIDE DEF g, x, e
  <2>4. Settle(f, g, e.booked).fsm \in {f, g}
    BY DEF Settle, Changed, Unchanged
  <2>5. AskOK(g)
    BY <2>2, <2>3 DEF AskOK, OfferOK
  <2> QED BY <2>1, <2>4, <2>5
<1> QED BY <1>1, <1>2

LEMMA ConcludeAsks ==
  ASSUME NEW f, NEW b, NEW r, b \subseteq Slots, FsmOK(f), AskOK(f), RequestOK(r),
         OfferOK(r)
  PROVE  AskOK(Conclude(f, b, r).fsm)
<1> DEFINE q == OnlyBooking(b, r)
           d == Delegated(f, b, q)
<1>1. RequestOK(q) /\ OfferOK(q)
  <2>1. RequestOK(q)
    BY OnlyBookingIs
  <2>2. /\ q.marks = r.marks /\ q.offer = r.offer /\ q.rejected = r.rejected
        /\ q.intent = r.intent
    BY DEF OnlyBooking, RequestOK, RequestFields
  <2> HIDE DEF q
  <2> QED BY <2>1, <2>2 DEF OfferOK
<1> HIDE DEF q
<1>2. RequestOK(d) /\ OfferOK(d)
  BY <1>1, DelegatedIs, DelegatedAsks
<1>3. Conclude(f, b, r) = Finish(f, b, d)
  BY DEF Conclude, q
<1> HIDE DEF d
<1> QED BY <1>2, <1>3, FinishAsks

LEMMA RequestAsks ==
  ASSUME NEW intent, NEW s, NEW marks, NEW pick, NEW skip
  PROVE  /\ OfferOK(Request(intent, s, marks, pick, skip))
         /\ OfferOK([Request(intent, s, marks, pick, skip) EXCEPT !.marks = NoMarks])
         /\ OfferOK([Request(intent, s, marks, pick, skip) EXCEPT !.confirmed = TRUE])
         /\ Offered(marks) \cap Required(intent) # {}
              => OfferOK([Request(intent, s, marks, pick, skip) EXCEPT !.offer = TRUE])
BY DEF Request, OfferOK

LEMMA UnboundAsks ==
  ASSUME NEW f, FsmOK(f), AskOK(f), NEW u
  PROVE  AskOK([f EXCEPT !.unbound = u])
<1> DEFINE h == [f EXCEPT !.unbound = u]
<1>1. /\ h.state = f.state /\ h.slots = f.slots /\ h.intent = f.intent
      /\ h.marks = f.marks /\ h.missing = f.missing
  BY DEF FsmOK, FsmFields
<1> HIDE DEF h
<1>2. AskOK(h)
  BY <1>1 DEF AskOK
<1> QED BY <1>2 DEF h

LEMMA HeardAsks ==
  ASSUME NEW f, NEW b, b \subseteq Slots, FsmOK(f), AskOK(f), NEW c, ClaimOK(c)
  PROVE  AskOK(Heard(f, b, c).fsm)
<1> DEFINE said == Understood(f, b, c)
           proposal == c.claim = "slot_free"
           mark == IF proposal THEN "proposal" ELSE "readback"
           filled == {i \in Fields : said[i] # None}
           s == [i \in Fields |-> IF i \in filled THEN said[i] ELSE f.slots[i]]
           marks == [i \in Fields |-> IF i \in filled THEN mark ELSE f.marks[i]]
           missing == MissingOf(f.intent, s)
           r == Request(f.intent, s, marks, f.pick, f.skip)
           h == [f EXCEPT !.unbound = FALSE]
           r1 == [r EXCEPT !.marks = NoMarks]
           r2 == [r EXCEPT !.offer = TRUE]
           g == Collect(f, f.intent, s, marks, missing, {}, f.pick, f.skip)
<1> SUFFICES ASSUME ~(f.state # "COLLECTING" \/ f.intent = "unbook"),
                    ~(\A k \in filled : s[k] = f.slots[k] /\ marks[k] = f.marks[k])
             PROVE  AskOK(Heard(f, b, c).fsm)
  BY DEF Heard, Entered, Unchanged
<1>1. Typed(said) /\ filled \subseteq Required(f.intent)
  <2>1. Typed(said)
    BY UnderstoodIs DEF FsmOK
  <2>2. said["time"] # None => "time" \in Required(f.intent)
    BY ValuesAssumption DEF Understood, ProposalOf, ReadbackOf, NoSlots, Fields
  <2> HIDE DEF said
  <2> QED BY <2>1, <2>2 DEF Required, Fields
<1>2. filled # {}
  OBVIOUS
<1> HIDE DEF said
<1>3. Typed(s)
  BY <1>1 DEF FsmOK, Typed, Fields
<1>4. filled \subseteq Marked(marks) /\ (proposal => filled \subseteq Offered(marks))
  BY ValuesAssumption DEF Marked, Offered
<1>5. FsmOK(h) /\ AskOK(h)
  BY UnboundSame, UnboundAsks
<1>6. RequestOK(r1) /\ OfferOK(r1)
  <2> HIDE DEF s, marks
  <2> QED BY <1>3, RequestAsks DEF FsmOK, Request, RequestOK, RequestFields
<1>7. RequestOK(r2) /\ (proposal => OfferOK(r2))
  <2>1. proposal => Offered(marks) \cap Required(f.intent) # {}
    BY <1>1, <1>2, <1>4
  <2> HIDE DEF s, marks, proposal
  <2>2. RequestOK(r2)
    BY <1>3 DEF FsmOK, Request, RequestOK, RequestFields
  <2> QED BY <2>1, <2>2, RequestAsks
<1>8. /\ g.slots = s /\ g.marks = marks /\ g.missing = missing
      /\ g.intent = f.intent /\ g.state = "COLLECTING"
  <2> HIDE DEF s, marks, missing
  <2> QED BY <1>3, CollectIs DEF FsmOK
<1>9. \/ Heard(f, b, c) = Conclude(h, b, r1)
      \/ Heard(f, b, c) = Conclude(f, b, r2) /\ proposal
      \/ Heard(f, b, c) = Changed(g, b)
  BY DEF Heard, Entered, said
<1> HIDE DEF r1, r2, h, g, s, marks, filled, proposal
<1>10. AskOK(g)
  <2>1. Marked(marks) # {} /\ Marked(marks) \cap Required(f.intent) # {}
    BY <1>1, <1>2, <1>4
  <2> QED BY <1>8, <2>1 DEF AskOK
<1>11. AskOK(Conclude(h, b, r1).fsm)
  BY <1>5, <1>6, ConcludeAsks
<1>12. proposal => AskOK(Conclude(f, b, r2).fsm)
  BY <1>7, ConcludeAsks
<1>13. Changed(g, b).fsm = g
  BY DEF Changed
<1> QED BY <1>9, <1>10, <1>11, <1>12, <1>13
LEMMA RefuseAsks ==
  ASSUME NEW f, NEW b, b \subseteq Slots, FsmOK(f), AskOK(f), NEW intent,
         NEW slots, Typed(slots), NEW ks,
         ks \cap Required(intent) # {} \/ MissingOf(intent, slots) # {}
  PROVE  AskOK(Refuse(f, b, intent, slots, ks).fsm)
<1> DEFINE skip == [k \in {"day", "time"} |->
                      IF k \in ks \cap f.pick THEN f.skip[k] \cup {slots[k]} ELSE f.skip[k]]
           kept == [k \in Fields |-> IF k \in ks THEN None ELSE slots[k]]
           s == PickFill(b, intent, kept, f.pick, skip)
           picked == Filled(kept, s)
           missing == MissingOf(intent, s)
           r == Request(intent, s, Proposed(picked), f.pick, skip)
           r2 == [r EXCEPT !.offer = TRUE]
           c == Collect(f, intent, s, Proposed(picked), missing, {}, f.pick, skip)
<1>1. Typed(kept) /\ MissingOf(intent, kept) # {}
  BY DEF Typed, Fields, MissingOf, Required
<1>2. Typed(s) /\ picked \subseteq Required(intent)
  <2> HIDE DEF kept, skip
  <2> QED BY <1>1, PickFillIs, PickFillAsks
<1>3. \/ Refuse(f, b, intent, slots, ks) = Conclude(f, b, r2) /\ picked # {}
      \/ /\ Refuse(f, b, intent, slots, ks) = Changed(c, b)
         /\ picked = {} \/ missing # {}
  BY DEF Refuse, Reoffered
<1> HIDE DEF s, skip, kept
<1>4. picked = {} => missing # {}
  BY <1>1 DEF Filled, MissingOf, Required, Fields
<1>5. Offered(Proposed(picked)) = picked
  BY ValuesAssumption DEF Offered, Proposed, Filled
<1> HIDE DEF picked
<1>6. picked # {} => RequestOK(r2) /\ OfferOK(r2)
  <2>1. RequestOK(r2)
    BY <1>2 DEF FsmOK, Request, RequestOK, RequestFields
  <2>2. picked # {} => Offered(Proposed(picked)) \cap Required(intent) # {}
    BY <1>2, <1>5
  <2> QED BY <2>1, <2>2, RequestAsks
<1>7. /\ c.slots = s /\ c.missing = missing /\ c.intent = intent
      /\ c.state = "COLLECTING"
  <2> HIDE DEF missing
  <2> QED BY <1>2, CollectIs DEF FsmOK
<1> HIDE DEF r2, c
<1>8. picked # {} => AskOK(Conclude(f, b, r2).fsm)
  BY <1>6, ConcludeAsks
<1>9. missing # {} => AskOK(c)
  BY <1>7 DEF AskOK
<1>10. Changed(c, b).fsm = c
  BY DEF Changed
<1> QED BY <1>3, <1>4, <1>8, <1>9, <1>10

LEMMA IdleAsks ==
  /\ AskOK(IdleFsm)
  /\ \A f : FsmOK(f) => AskOK([f EXCEPT !.state = "DONE"])
BY DEF IdleFsm, AskOK, FsmOK, FsmFields

LEMMA NoAsks ==
  ASSUME NEW f, NEW b, b \subseteq Slots, FsmOK(f), AskOK(f)
  PROVE  AskOK(No(f, b).fsm)
<1> DEFINE offered == {k \in Fields : f.marks[k] = "proposal"}
           r1 == Refuse(f, b, f.intent, f.slots, Marked(f.marks))
           r2 == Refuse(f, b, f.intent, Inherited(f), offered)
           done == [f EXCEPT !.state = "DONE"]
<1>1. AskOK(IdleFsm) /\ AskOK(done)
  BY IdleAsks
<1>2. CASE f.state = "COLLECTING" /\ Marked(f.marks) # {}
  <2>1. No(f, b) = r1
    BY <1>2 DEF No
  <2>2. \/ Marked(f.marks) \cap Required(f.intent) # {}
        \/ MissingOf(f.intent, f.slots) # {}
    BY <1>2 DEF AskOK
  <2>3. AskOK(r1.fsm)
    BY <2>2, RefuseAsks DEF FsmOK
  <2> QED BY <2>1, <2>3
<1>3. CASE f.state = "CONFIRM" /\ offered # {}
  <2>1. No(f, b) = r2
    BY <1>3 DEF No
  <2>2. offered \cap Required(f.intent) # {}
    BY <1>3 DEF AskOK, Offered
  <2>3. Typed(Inherited(f))
    BY InheritedIs
  <2> HIDE DEF offered
  <2>4. AskOK(r2.fsm)
    BY <2>2, <2>3, RefuseAsks
  <2> QED BY <2>1, <2>4
<1>4. CASE ~(f.state = "COLLECTING" /\ Marked(f.marks) # {})
           /\ ~(f.state = "CONFIRM" /\ offered # {})
  <2>1. No(f, b) \in {Changed(IdleFsm, b), Changed(done, b), Unchanged(f, b)}
    BY <1>4 DEF No
  <2> HIDE DEF done
  <2>2. /\ Changed(IdleFsm, b).fsm = IdleFsm /\ Changed(done, b).fsm = done
        /\ Unchanged(f, b).fsm = f
    BY DEF Changed, Unchanged
  <2> QED BY <1>1, <2>1, <2>2
<1> QED BY <1>2, <1>3, <1>4

LEMMA YesAsks ==
  ASSUME NEW f, NEW b, b \subseteq Slots, FsmOK(f), AskOK(f)
  PROVE  AskOK(Yes(f, b).fsm)
<1> DEFINE pick == f.pick \ Marked(f.marks)
           r1 == Request(f.intent, f.slots, NoMarks, pick, f.skip)
           intent == IF f.intent = "unbook" THEN "unbook" ELSE "book"
           s == Inherited(f)
           r == Request(intent, s, f.marks, pick, f.skip)
           r2 == [r EXCEPT !.confirmed = TRUE]
           h == [f EXCEPT !.unbound = TRUE]
<1>1. Yes(f, b) \in {Conclude(f, b, r1), Unchanged(h, b), Conclude(f, b, r2), Unchanged(f, b)}
  <2>1. CASE f.state = "COLLECTING"
    BY <2>1 DEF Yes
  <2>2. CASE f.state = "CONFIRM"
    BY <2>2 DEF Yes
  <2>3. CASE f.state \notin {"COLLECTING", "CONFIRM"}
    BY <2>3 DEF Yes
  <2> QED BY <2>1, <2>2, <2>3
<1>2. Typed(f.slots) /\ Typed(s)
  BY InheritedIs DEF FsmOK
<1> HIDE DEF s, intent, pick
<1>3. /\ RequestOK(r1) /\ OfferOK(r1)
  BY <1>2, RequestAsks DEF FsmOK, pick, Request, RequestOK, RequestFields
<1>4. /\ RequestOK(r2) /\ OfferOK(r2)
  BY <1>2, RequestAsks DEF FsmOK, pick, Request, RequestOK, RequestFields
<1>5. AskOK(h)
  BY UnboundAsks
<1> HIDE DEF r1, r2, h
<1>6. AskOK(Conclude(f, b, r1).fsm) /\ AskOK(Conclude(f, b, r2).fsm)
  BY <1>3, <1>4, ConcludeAsks
<1>7. Unchanged(h, b).fsm = h /\ Unchanged(f, b).fsm = f
  BY DEF Unchanged
<1> QED BY <1>1, <1>5, <1>6, <1>7

(* A line of the customer: what it rejects it also clears of its mark.     *)
LEMMA RoutedMarks ==
  ASSUME NEW r, RequestOK(r), NEW n
  PROVE  /\ Routed(r, n).marks = r.marks /\ Routed(r, n).offer = r.offer
         /\ Routed(r, n).rejected = r.rejected
BY DEF Routed, RequestOK, RequestFields

LEMMA StatedAsks ==
  ASSUME NEW r, RequestOK(r), r.offer = FALSE, NEW c
  PROVE  OfferOK(Stated(r, c)) /\ Stated(r, c).offer = FALSE
<1> DEFINE val == Values(r, c)
           said == {k \in Fields : val[k] # None}
           good == {k \in said : Valid(r.intent, k, val[k])}
           mine == Superseded(r, said)
           routed == IF c.month = Unclear /\ c.number # None THEN Routed(mine, c.number)
                     ELSE mine
           s == [k \in Fields |-> IF k \in good THEN val[k] ELSE routed.slots[k]]
           bad == (said \ good) \ (IF routed # mine THEN {"month"} ELSE {})
           a == [routed EXCEPT !.slots = s, !.rejected = bad]
<1>1. Stated(r, c) = a
  BY DEF Stated, Accepted
<1> HIDE DEF val
<1>2. /\ RequestOK(mine) /\ mine.offer = FALSE
      /\ "time" \in said => mine.marks["time"] = None
  BY DEF Superseded, RequestOK, RequestFields, Fields
<1> HIDE DEF mine
<1>3. /\ DOMAIN routed = RequestFields /\ routed.offer = FALSE
      /\ routed.marks = mine.marks
  BY <1>2, RoutedIs, RoutedMarks DEF RequestOK
<1>4. bad \subseteq said
  OBVIOUS
<1> HIDE DEF routed, bad, s, said
<1>5. a.offer = FALSE /\ a.marks = mine.marks /\ a.rejected = bad
  BY <1>3 DEF RequestFields
<1> HIDE DEF a
<1>6. OfferOK(a)
  BY <1>2, <1>4, <1>5 DEF OfferOK
<1> QED BY <1>1, <1>5, <1>6

LEMMA SetAsks ==
  ASSUME NEW f, NEW b, b \subseteq Slots, FsmOK(f), AskOK(f), NEW c
  PROVE  AskOK(Set(f, b, c).fsm)
<1> DEFINE st == Started(f, c)
           w == Widened(st, c)
           r == Stated(w, c)
           q == Numbered(f, c, r)
<1>1. RequestOK(st) /\ st.offer = FALSE
  <2>1. \A intent, s, marks, pick, skip : Request(intent, s, marks, pick, skip).offer = FALSE
    BY DEF Request
  <2>2. st.offer = FALSE
    BY <2>1 DEF Started
  <2> QED BY <2>2, StartedIs
<1> HIDE DEF st
<1>2. RequestOK(w) /\ w.offer = FALSE
  <2>1. w.offer = FALSE
    BY <1>1 DEF Widened, RequestOK, RequestFields
  <2> QED BY <1>1, <2>1, WidenedIs
<1> HIDE DEF w
<1>3. RequestOK(r) /\ OfferOK(r) /\ r.offer = FALSE
  BY <1>2, StatedIs, StatedAsks
<1> HIDE DEF r
<1>4. RequestOK(q) /\ OfferOK(q)
  BY <1>3, RoutedIs, RoutedMarks DEF Numbered, OfferOK
<1>5. Set(f, b, c) \in {Unchanged(f, b), Conclude(f, b, q)}
  BY DEF Set, r, w, st
<1> HIDE DEF q
<1>6. AskOK(Conclude(f, b, q).fsm)
  BY <1>4, ConcludeAsks
<1>7. Unchanged(f, b).fsm = f
  BY DEF Unchanged
<1> QED BY <1>5, <1>6, <1>7

LEMMA ApplyAsks ==
  ASSUME NEW f, NEW b, b \subseteq Slots, FsmOK(f), AskOK(f), NEW c, CallOK(c)
  PROVE  AskOK(Apply(f, b, c).fsm)
<1> DEFINE h == [f EXCEPT !.unbound = FALSE]
           done == [f EXCEPT !.state = "DONE"]
<1>1. FsmOK(h) /\ AskOK(h) /\ AskOK(done) /\ AskOK(IdleFsm)
  BY UnboundSame, UnboundAsks, IdleAsks
<1>2. AskOK(Set(f, b, c).fsm) /\ AskOK(Yes(f, b).fsm)
  BY SetAsks, YesAsks
<1>3. c.name = "heard" => AskOK(Heard(f, b, c).fsm)
  BY HeardAsks DEF CallOK
<1> HIDE DEF h, done
<1>4. AskOK(No(h, b).fsm) /\ AskOK(Set(h, b, c).fsm)
  BY <1>1, NoAsks, SetAsks
<1>5. /\ Changed(done, b).fsm = done /\ Changed(IdleFsm, b).fsm = IdleFsm
      /\ Unchanged(f, b).fsm = f
  BY DEF Changed, Unchanged
<1>6. \/ Apply(f, b, c) \in {Changed(done, b), Changed(IdleFsm, b), Unchanged(f, b),
                             Set(f, b, c), Yes(f, b), No(h, b), Set(h, b, c)}
      \/ c.name = "heard" /\ Apply(f, b, c) = Heard(f, b, c)
  <2>1. CASE c.name = "none"
    BY <2>1 DEF Apply, done
  <2>2. CASE c.name = "yes"
    BY <2>2 DEF Apply
  <2>3. CASE c.name \in {"cancel", "heard", "no", "set"}
    BY <2>3 DEF Apply, h
  <2> QED BY <2>1, <2>2, <2>3 DEF CallOK
<1> QED BY <1>1, <1>2, <1>3, <1>4, <1>5, <1>6

(* The screen of a request that is being collected always asks for         *)
(* something, and for every gap: through refusals of what the operator     *)
(* proposed, corrections, changes of mind about the intent, and values     *)
(* that were not understood.                                               *)
THEOREM NoDeadEnd == Spec => []CollectingAsks
<1> DEFINE Inv == DeskInv /\ AskOK(fsm)
<1>1. Init => Inv
  BY InitDesk, IdleAsks DEF Init
<1>2. ASSUME Inv, [Next]_vars PROVE AskOK(fsm')
  <2>1. ASSUME NEW c \in CustomerCalls \cup OperatorCalls, Do(c)
        PROVE  AskOK(fsm')
    BY <1>2, <2>1, ApplyAsks, CallsAreOK DEF Do, Becomes, DeskInv
  <2>2. CASE YesFades
    BY <1>2, <2>2, UnboundAsks DEF YesFades, DeskInv
  <2>3. CASE MachineReset \/ DeskReset
    BY <2>3, IdleAsks DEF MachineReset, DeskReset
  <2>4. ASSUME NEW x \in FormSlots, FormBooks(x) \/ FormUnbooks(x)
        PROVE  AskOK(fsm')
    BY <1>2, <2>4 DEF FormBooks, FormUnbooks
  <2>5. CASE UNCHANGED vars
    BY <1>2, <2>5 DEF vars
  <2> QED BY <1>2, <2>1, <2>2, <2>3, <2>4, <2>5 DEF Next, CustomerLine, OperatorTurn
<1>3. Inv /\ [Next]_vars => Inv'
  BY <1>2, NextDesk
<1>4. Inv => CollectingAsks
  BY DEF AskOK, CollectingAsks
<1> QED BY <1>1, <1>3, <1>4, PTL DEF Spec
----------------------------------------------------------------------------
(* A whole request leaves the machine nothing to add: it goes as it is     *)
(* into the execution, whatever was said before.                           *)
WholeSlots(c) == [k \in Fields |-> c[k]]

WholeOK(c) ==
  /\ c.name = "set" /\ c.intent # None /\ c.month \in Months
  /\ c.day \in Days /\ c.time \in Times /\ c.number = None

LEMMA WholeStarts ==
  ASSUME NEW f, FsmOK(f), NEW c, WholeOK(c)
  PROVE  LET r == Stated(Widened(Started(f, c), c), c) IN
         /\ RequestOK(r) /\ r.intent = c.intent /\ r.slots = WholeSlots(c)
         /\ r.pick = {} /\ r.rejected = {} /\ r.confirmed = FALSE /\ r.offer = FALSE
<1> DEFINE st == Started(f, c)
           w == Widened(st, c)
           r == Stated(w, c)
           val == Values(w, c)
           said == {k \in Fields : val[k] # None}
           good == {k \in said : Valid(w.intent, k, val[k])}
           mine == Superseded(w, said)
           s == [k \in Fields |-> IF k \in good THEN val[k] ELSE mine.slots[k]]
<1>1. RequestOK(st) /\ st.intent = c.intent /\ st.confirmed = FALSE /\ st.offer = FALSE
  <2>1. \A intent, t, marks, pick, skip :
          LET q == Request(intent, t, marks, pick, skip) IN
          q.intent = intent /\ q.confirmed = FALSE /\ q.offer = FALSE
    BY DEF Request
  <2>2. st.intent = c.intent /\ st.confirmed = FALSE /\ st.offer = FALSE
    BY <2>1 DEF Started, WholeOK
  <2> QED BY <2>2, StartedIs
<1> HIDE DEF st
<1>2. /\ c["month"] = c.month /\ c["day"] = c.day /\ c["time"] = c.time
      /\ c.day \notin {Any, YouPick, None} /\ c.time \notin {Any, YouPick, None}
      /\ c.month \notin {Unclear, None}
  BY ValuesAssumption DEF WholeOK
<1>3. RequestOK(w) /\ w.intent = c.intent /\ w.confirmed = FALSE /\ w.offer = FALSE
  <2>1. w.intent = c.intent /\ w.confirmed = FALSE /\ w.offer = FALSE
    BY <1>1 DEF Widened, RequestOK, RequestFields
  <2> QED BY <1>1, <2>1, WidenedIs
<1> HIDE DEF w
<1>4. /\ val["month"] = c.month /\ val["day"] = c.day /\ val["time"] = c.time
  BY <1>2 DEF Values, Plain, WholeOK
<1> HIDE DEF val
<1>5. said = Fields
  BY <1>2, <1>4 DEF Fields
<1>6. good = Fields
  <2> HIDE DEF said
  <2> QED BY <1>4, <1>5 DEF Valid, WholeOK, Fields
<1>7. s = WholeSlots(c)
  <2> HIDE DEF good, mine
  <2> QED BY <1>4, <1>6 DEF WholeSlots, Fields
<1>8. mine.pick = {} /\ DOMAIN mine = RequestFields /\ mine.intent = c.intent
      /\ mine.confirmed = FALSE /\ mine.offer = FALSE
  BY <1>3, <1>5 DEF Superseded, RequestOK, RequestFields
<1>9. r = [mine EXCEPT !.slots = s, !.rejected = (said \ good) \ {}]
  BY <1>2 DEF Stated, Accepted, val
<1> HIDE DEF mine, s, good, said
<1>10. /\ r.slots = s /\ r.rejected = {} /\ r.pick = {} /\ r.intent = c.intent
       /\ r.confirmed = FALSE /\ r.offer = FALSE
  BY <1>5, <1>6, <1>8, <1>9 DEF RequestFields
<1>11. RequestOK(r)
  BY <1>3, StatedIs
<1> QED BY <1>7, <1>10, <1>11 DEF w, st

(* The record that a whole request leads to, but for its memory of         *)
(* refusals and of an early yes: it depends on the bookings alone.         *)
Answered(g, b, c) ==
  LET x    == SlotOf(WholeSlots(c))
      e    == Exec(b, c.intent, x, FALSE)
      asks == \/ c.intent = "check" /\ e.status \in {"available", "partial"}
              \/ e.status \in {"pending", "pending_cancel"}
  IN  /\ DOMAIN g = FsmFields
      /\ g.state = (IF asks THEN "CONFIRM" ELSE "DONE") /\ g.intent = c.intent
      /\ g.slots = x /\ g.marks = NoMarks /\ g.missing = {} /\ g.rejected = {}
      /\ g.status = e.status /\ g.detail = e.detail /\ g.pick = {}

LEMMA WholeIsAnswered ==
  ASSUME NEW f, NEW b, b \subseteq Slots, FsmOK(f), NEW c, WholeOK(c)
  PROVE  \E g : Answered(g, b, c) /\ Set(f, b, c) = Settle(f, g, b)
<1> DEFINE r == Stated(Widened(Started(f, c), c), c)
           x == SlotOf(WholeSlots(c))
           e == Exec(b, c.intent, x, FALSE)
           asks == \/ c.intent = "check" /\ e.status \in {"available", "partial"}
                   \/ e.status \in {"pending", "pending_cancel"}
           g == [f EXCEPT !.state = IF asks THEN "CONFIRM" ELSE "DONE",
                         !.intent = c.intent, !.slots = x,
                         !.marks = NoMarks,
                         !.missing = {}, !.rejected = {},
                         !.status = e.status, !.detail = e.detail,
                         !.pick = {}, !.skip = r.skip]
<1>1. /\ RequestOK(r) /\ r.intent = c.intent /\ r.slots = WholeSlots(c)
      /\ r.pick = {} /\ r.rejected = {} /\ r.confirmed = FALSE /\ r.offer = FALSE
  BY WholeStarts
<1>2. Set(f, b, c) = Conclude(f, b, r)
  <2>1. Says(c)
    BY ValuesAssumption DEF Says, WholeOK, Fields
  <2>2. Numbered(f, c, r) = r
    BY <2>1 DEF Numbered
  <2>3. Set(f, b, c) = Conclude(f, b, Numbered(f, c, r))
    BY <2>1 DEF Set
  <2> HIDE DEF r
  <2> QED BY <2>2, <2>3
<1> HIDE DEF r
<1>3. \A k \in Fields : r.slots[k] # None
  BY <1>1, ValuesAssumption DEF WholeSlots, WholeOK, Fields
<1>4. OnlyBooking(b, r) = r
  BY <1>3, OnlyBookingIs, <1>1 DEF Fields
<1>5. Delegated(f, b, r) = r
  BY <1>1 DEF Delegated
<1>6. Conclude(f, b, r) = Finish(f, b, r)
  BY <1>4, <1>5 DEF Conclude
<1>7. MissingOf(r.intent, r.slots) = {}
  BY <1>3 DEF MissingOf, Required, Fields
<1>8. Finish(f, b, r) = Execute(f, b, r)
  BY <1>1, <1>7 DEF Finish
<1>9. Execute(f, b, r) = Settle(f, g, e.booked)
  BY <1>1 DEF Execute, Answer
<1>10. e.booked = b
  BY ExecReads
<1> HIDE DEF e, x
<1>11. Answered(g, b, c)
  BY DEF Answered, FsmOK, FsmFields, e, x
<1> HIDE DEF g
<1> QED BY <1>2, <1>6, <1>8, <1>9, <1>10, <1>11

LEMMA AnsweredAlike ==
  ASSUME NEW b, NEW c, NEW g, Answered(g, b, c), NEW h, Answered(h, b, c)
  PROVE  /\ h.state = g.state /\ h.intent = g.intent /\ h.slots = g.slots
         /\ h.marks = g.marks /\ h.missing = g.missing /\ h.rejected = {}
         /\ g.rejected = {} /\ h.status = g.status /\ h.detail = g.detail
         /\ h.pick = g.pick
BY DEF Answered

(* A whole request that is said twice changes nothing the second time, and *)
(* writes nothing: the answer to it is the answer on the screen.           *)
THEOREM TwiceIsOnce == Spec => []RepeatIsNull
<1>1. DeskInv => RepeatIsNull
  <2> SUFFICES ASSUME DeskInv, NEW c \in CustomerCalls, WholeOK(c)
               PROVE  LET once == Apply(fsm, booked, c)
                      IN  ~Apply(once.fsm, once.booked, c).changed
    BY DEF RepeatIsNull, Whole, WholeOK
  <2> DEFINE f == [fsm EXCEPT !.unbound = FALSE]
             once == Set(f, booked, c)
             h == [once.fsm EXCEPT !.unbound = FALSE]
  <2>1. Apply(fsm, booked, c) = once
    BY DEF Apply, WholeOK
  <2>2. FsmOK(f) /\ booked \subseteq Slots
    BY UnboundSame DEF DeskInv
  <2> HIDE DEF f
  <2>3. PICK g : Answered(g, booked, c) /\ once = Settle(f, g, booked)
    BY <2>2, WholeIsAnswered
  <2>4. once.booked = booked /\ FsmOK(once.fsm)
    BY <2>2, <2>3, SettleWrites, SetIsGood DEF Good
  <2> HIDE DEF once
  <2>5. once.fsm = g \/ (once.fsm = f /\ SameRecord(f, g))
    BY <2>3 DEF Settle, Changed, Unchanged
  <2>6. SameRecord(once.fsm, g)
    <3>1. SameRecord(g, g)
      BY <2>3 DEF SameRecord, Answered
    <3> QED BY <2>5, <3>1
  <2>7. FsmOK(h)
    BY <2>4, UnboundSame
  <2>8. SameRecord(h, g)
    <3>1. /\ \A k \in {"state", "intent", "status", "detail", "missing", "pick"} :
               h[k] = once.fsm[k]
          /\ h.rejected = once.fsm.rejected /\ h.marks = once.fsm.marks
          /\ h.slots = once.fsm.slots
      BY <2>4 DEF FsmOK, FsmFields
    <3> HIDE DEF h
    <3> QED BY <2>6, <3>1 DEF SameRecord
  <2>9. Apply(once.fsm, booked, c) = Set(h, booked, c)
    BY DEF Apply, WholeOK
  <2> HIDE DEF h
  <2>10. PICK g2 : Answered(g2, booked, c) /\ Set(h, booked, c) = Settle(h, g2, booked)
    BY <2>2, <2>7, WholeIsAnswered
  <2>11. SameRecord(h, g2)
    BY <2>3, <2>8, <2>10, AnsweredAlike DEF SameRecord
  <2>12. ~Settle(h, g2, booked).changed
    BY <2>11 DEF Settle, Unchanged
  <2> QED BY <2>1, <2>4, <2>9, <2>10, <2>12
<1> QED BY <1>1, AlwaysDesk, PTL
=============================================================================
