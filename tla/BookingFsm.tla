----------------------------- MODULE BookingFsm -----------------------------
(***************************************************************************)
(* The booking machine of the desk (_hud_fsm_apply and its helpers in      *)
(* gateway.py), as a function of the machine's record f, the bookings b    *)
(* and one call: what the extractor made of a customer's line, or what the *)
(* judge read in the operator's turn.                                      *)
(*                                                                         *)
(* A request has a month, a day and a time, filled in any order. A field   *)
(* the operator filled is marked: "readback" when he repeated a value the  *)
(* machine had missed, "proposal" when he proposed a free value himself.   *)
(*                                                                         *)
(* Values are what the normalisers return: a day is a number, a time is a  *)
(* span of hours (a point hour h is <<h, h>>), None is the empty string    *)
(* and AllDay the whole day. Of the customer's other words the machine     *)
(* tells apart Any ("any time", "the whole day": the field is cleared),    *)
(* YouPick ("you choose") and Unclear (rejected). The outcome parameter is *)
(* "auto", which is what every caller sends; labels, notes and the month   *)
(* summary of the screen are left out.                                     *)
(***************************************************************************)
EXTENDS Naturals, FiniteSets

CONSTANTS
  Months, Days,
  DeskHours,   \* the hours the desk picks from
  Ranges,      \* further spans a customer may name
  None, AllDay, Any, YouPick, Unclear

Fields  == {"month", "day", "time"}
Hour(h) == <<h, h>>
Times   == {Hour(h) : h \in DeskHours} \cup Ranges
Slots   == [month : Months, day : Days, time : Times \cup {AllDay}]
Intents == {"check", "book", "unbook"}

ASSUME ValuesAssumption ==
  /\ Days \subseteq Nat /\ DeskHours \subseteq Nat /\ Ranges \subseteq Nat \X Nat
  /\ \A v \in {None, AllDay, Any, YouPick, Unclear} :
       v \notin Months /\ v \notin Days /\ v \notin Times
  /\ None \notin {AllDay, Any, YouPick, Unclear} \cup Intents
  /\ None \notin {"slot_free", "readback", "proposal"}
  /\ AllDay \notin {Any, YouPick, Unclear}

(* A call. name is one of the customer's operations set, yes, no, cancel  *)
(* and none, or heard (the judge's), whose claim says what the operator   *)
(* asserted. number is the number of a line that holds just one.          *)
Call(name, intent, month, day, time) ==
  [name |-> name, intent |-> intent, month |-> month, day |-> day,
   time |-> time, number |-> None, claim |-> None]

Required(intent) == IF intent = "check" THEN {"month", "day"} ELSE Fields

NoSlots == [k \in Fields |-> None]
NoMarks == [k \in Fields |-> None]
NoSkip  == [k \in {"day", "time"} |-> {}]

(* _HUD_FSM_IDLE and _hud_fsm_reset *)
IdleFsm ==
  [state |-> "IDLE", intent |-> None, slots |-> NoSlots, marks |-> NoMarks,
   missing |-> {}, rejected |-> {}, status |-> None, detail |-> {},
   pick |-> {}, skip |-> NoSkip, unbound |-> FALSE]

----------------------------------------------------------------------------
(* The bookings. *)

Earliest(S) == CHOOSE n \in S : \A m \in S : n <= m

BookedTimes(b, m, d) == {u.time : u \in {x \in b : x.month = m /\ x.day = d}}
BookedDays(b, m)     == {u.day : u \in {x \in b : x.month = m}}
FullDays(b, m)       == {u.day : u \in {x \in b : x.month = m /\ x.time = AllDay}}

OverlapsStrictly(want, u) ==   \* mutant: a point at the start of a span is free
  want[1] < u[2] /\ u[1] < want[2]

(* A point in time at the end of a booked span is free. *)
Overlaps(want, u) ==
  /\ want[1] <= u[2] /\ u[1] <= want[2]
  /\ ~(want[1] = want[2] /\ want[1] = u[2] /\ u[1] # u[2])

(* The bookings that answer a question about slot m, d, t. Of several the  *)
(* screen shows the first.                                                 *)
Conflicts(b, m, d, t) ==
  LET day == BookedTimes(b, m, d)
  IN  IF AllDay \in day THEN {AllDay}
      ELSE IF t = AllDay THEN day
      ELSE {u \in day : Overlaps(t, u)}

Lookup(b, m, d, t) ==
  LET c == Conflicts(b, m, d, t)
  IN  CASE c = {}                          -> "available"
        [] c # {} /\ t = AllDay /\ c # {AllDay} -> "partial"
        [] OTHER                           -> "booked"

Free(b, m, d, t) == Lookup(b, m, d, t) = "available"

(* _hud_pick_fill: the first free day, else the first with an hour left,  *)
(* and the first free hour, of those the customer has not refused.        *)
PickDayAgain(b, s, skip) ==   \* mutant: a refused day may come again
  LET free  == Days \ BookedDays(b, s.month)
      spare == Days \ FullDays(b, s.month)
  IN  CASE free # {}               -> Earliest(free)
        [] free = {} /\ spare # {} -> Earliest(spare)
        [] OTHER                   -> None

PickDay(b, s, skip) ==
  LET free  == Days \ (skip["day"] \cup BookedDays(b, s.month))
      spare == Days \ (skip["day"] \cup FullDays(b, s.month))
  IN  CASE free # {}               -> Earliest(free)
        [] free = {} /\ spare # {} -> Earliest(spare)
        [] OTHER                   -> None

PickTime(b, s, skip) ==
  LET free == {h \in DeskHours : /\ Hour(h) \notin skip["time"]
                                 /\ Free(b, s.month, s.day, Hour(h))}
  IN  IF free # {} THEN Hour(Earliest(free)) ELSE None

WithDay(b, s, pick, skip) ==
  IF "day" \in pick /\ s.month # None /\ s.day = None
  THEN [s EXCEPT !.day = PickDay(b, s, skip)] ELSE s

WithTime(b, intent, s, pick, skip) ==
  IF /\ "time" \in pick /\ intent = "book"
     /\ s.month # None /\ s.day # None /\ s.time = None
  THEN [s EXCEPT !.time = PickTime(b, s, skip)] ELSE s

PickFill(b, intent, s, pick, skip) ==
  WithTime(b, intent, WithDay(b, s, pick, skip), pick, skip)

Filled(before, after) == {k \in Fields : before[k] = None /\ after[k] # None}
MissingOf(intent, s)  == {k \in Required(intent) : s[k] = None}
Marked(marks)         == {k \in Fields : marks[k] # None}
Proposed(ks)          == [k \in Fields |-> IF k \in ks THEN "proposal" ELSE None]

----------------------------------------------------------------------------
(* Results. *)

Unchanged(f, b) == [fsm |-> f, booked |-> b, changed |-> FALSE]
Changed(f, b)   == [fsm |-> f, booked |-> b, changed |-> TRUE]

(* An empty time and the whole day are the same time. *)
NormTime(t) == IF t = None THEN AllDay ELSE t

SameOpenRecord(f, g) ==   \* mutant: a closed request is never the same
  /\ f.state # "DONE" /\ f.rejected = {} /\ g.rejected = {}
  /\ f.state = g.state /\ f.intent = g.intent /\ f.status = g.status
  /\ f.slots = g.slots /\ f.missing = g.missing /\ f.marks = g.marks

(* _hud_same_record: g says nothing that f does not say. *)
SameRecord(f, g) ==
  /\ f.rejected = {} /\ g.rejected = {}
  /\ \A k \in {"state", "intent", "status", "detail", "missing", "pick"} : f[k] = g[k]
  /\ Marked(f.marks) = Marked(g.marks)
  /\ \A k \in {"month", "day"} : f.slots[k] = g.slots[k]
  /\ NormTime(f.slots.time) = NormTime(g.slots.time)

Settle(f, g, b) == IF SameRecord(f, g) THEN Unchanged(f, b) ELSE Changed(g, b)

(* Still collecting: slots, marks and what is missing. *)
Collect(f, intent, s, marks, missing, rejected, pick, skip) ==
  [f EXCEPT !.state = "COLLECTING", !.intent = intent, !.slots = s,
            !.marks = marks, !.missing = missing, !.rejected = rejected,
            !.status = None, !.detail = {}, !.pick = pick, !.skip = skip]

(* The executions of a complete request for slot x: what the screen says   *)
(* and what becomes of the bookings. Only a confirmed one writes.          *)
Outcome(status, detail, bookings) ==
  [status |-> status, detail |-> detail, booked |-> bookings]

ConflictsOf(b, x) == Conflicts(b, x.month, x.day, x.time)
FreeSlot(b, x)    == Free(b, x.month, x.day, x.time)

ExecCheck(b, x) ==
  Outcome(Lookup(b, x.month, x.day, x.time), ConflictsOf(b, x), b)

BookUnseen(b, x, confirmed) ==   \* mutant: a yes books what was free when asked
  CASE confirmed                     -> Outcome("confirmed", {}, b \cup {x})
    [] ~confirmed /\ FreeSlot(b, x)  -> Outcome("pending", {}, b)
    [] ~confirmed /\ ~FreeSlot(b, x) -> Outcome("taken", ConflictsOf(b, x), b)

AskUnseen(b, x, confirmed) ==   \* mutant: the question is put without a look
  CASE ~confirmed                   -> Outcome("pending", {}, b)
    [] confirmed /\ FreeSlot(b, x)  -> Outcome("confirmed", {}, b \cup {x})
    [] confirmed /\ ~FreeSlot(b, x) -> Outcome("taken", ConflictsOf(b, x), b)

ExecBook(b, x, confirmed) ==
  CASE ~FreeSlot(b, x)              -> Outcome("taken", ConflictsOf(b, x), b)
    [] FreeSlot(b, x) /\ ~confirmed -> Outcome("pending", {}, b)
    [] FreeSlot(b, x) /\ confirmed  -> Outcome("confirmed", {}, b \cup {x})

UnbookAtOnce(b, x, confirmed) ==   \* mutant: no yes is waited for
  IF x \in b THEN Outcome("cancelled", {}, b \ {x}) ELSE Outcome("not_found", {}, b)

UnbookUnseen(b, x, confirmed) ==   \* mutant: the question is put without a look
  CASE ~confirmed             -> Outcome("pending_cancel", {}, b)
    [] confirmed /\ x \in b    -> Outcome("cancelled", {}, b \ {x})
    [] confirmed /\ x \notin b -> Outcome("not_found", {}, b)

ExecUnbook(b, x, confirmed) ==
  CASE x \notin b             -> Outcome("not_found", {}, b)
    [] x \in b /\ ~confirmed  -> Outcome("pending_cancel", {}, b)
    [] x \in b /\ confirmed   -> Outcome("cancelled", {}, b \ {x})

Exec(b, intent, x, confirmed) ==
  CASE intent = "check"  -> ExecCheck(b, x)
    [] intent = "unbook" -> ExecUnbook(b, x, confirmed)
    [] OTHER             -> ExecBook(b, x, confirmed)

(* A complete request: execute it, then ask (CONFIRM) or close (DONE).    *)
(* offer says that a proposal completed it: the marks stay for a no.      *)
SlotOf(s) == [month |-> s.month, day |-> s.day, time |-> NormTime(s.time)]

Answer(f, r, e) ==
  LET asks  == \/ r.intent = "check" /\ e.status \in {"available", "partial"}
               \/ e.status \in {"pending", "pending_cancel"}
      g     == [f EXCEPT !.state = IF asks THEN "CONFIRM" ELSE "DONE",
                         !.intent = r.intent, !.slots = SlotOf(r.slots),
                         !.marks = IF asks /\ r.offer THEN r.marks ELSE NoMarks,
                         !.missing = {}, !.rejected = {},
                         !.status = e.status, !.detail = e.detail,
                         !.pick = r.pick, !.skip = r.skip]
  IN  Settle(f, g, e.booked)

Execute(f, b, r) == Answer(f, r, Exec(b, r.intent, SlotOf(r.slots), r.confirmed))

(* "Cancel my booking on April 20": the only booking of the day is meant. *)
OnlyBooking(b, r) ==
  IF /\ r.intent = "unbook" /\ r.slots.month # None /\ r.slots.day # None
     /\ r.slots.time = None
     /\ Cardinality(BookedTimes(b, r.slots.month, r.slots.day)) = 1
  THEN [r EXCEPT !.slots.time =
          CHOOSE t \in BookedTimes(b, r.slots.month, r.slots.day) : TRUE]
  ELSE r

(* The delegated fields that are still empty are proposed by the machine. *)
Picked(r, s) ==
  LET picked == Filled(r.slots, s)
  IN  [r EXCEPT !.slots = s,
                !.marks = [k \in Fields |-> IF k \in picked THEN "proposal"
                                            ELSE r.marks[k]],
                !.offer = r.offer \/ (picked # {} /\ MissingOf(r.intent, s) = {})]

Delegated(f, b, r) ==
  IF r.pick # {} /\ r.rejected = {} /\ f.state # "CONFIRM" /\ r.intent # "unbook"
  THEN Picked(r, PickFill(b, r.intent, r.slots, r.pick, r.skip))
  ELSE r

(* The end of _hud_fsm_apply: collect on, or execute. *)
FinishForgiving(f, b, r) ==   \* mutant: a rejected value is not asked for
  LET missing == MissingOf(r.intent, r.slots) \ r.rejected
  IN  IF missing # {}
      THEN Settle(f, Collect(f, r.intent, r.slots, r.marks, missing, r.rejected,
                             r.pick, r.skip), b)
      ELSE Execute(f, b, r)

Finish(f, b, r) ==
  LET missing == MissingOf(r.intent, r.slots) \cup (r.rejected \cap {"time"})
  IN  IF missing # {}
      THEN Settle(f, Collect(f, r.intent, r.slots, r.marks, missing, r.rejected,
                             r.pick, r.skip), b)
      ELSE Execute(f, b, r)

Conclude(f, b, request) == Finish(f, b, Delegated(f, b, OnlyBooking(b, request)))

(* A request as the branches below build it. *)
Request(intent, s, marks, pick, skip) ==
  [intent |-> intent, slots |-> s, marks |-> marks, pick |-> pick,
   skip |-> skip, rejected |-> {}, confirmed |-> FALSE, offer |-> FALSE]

(* CONFIRM shows the whole day for an empty time; the request inherits    *)
(* the time only if it is one.                                            *)
Inherited(f) ==
  [f.slots EXCEPT !.time = IF f.slots.time = AllDay THEN None ELSE f.slots.time]

----------------------------------------------------------------------------
(* heard: what the judge read in the operator's turn. Only while           *)
(* collecting, and never to cancel a booking; a plain claim is not a value. *)

(* A proposal fills a gap or replaces a proposal, never the customer's word. *)
OpenUnlessReadback(f, k) ==   \* mutant: it replaces the customer's word too
  f.slots[k] = None \/ f.marks[k] # "readback"

Open(f, k) == f.slots[k] = None \/ f.marks[k] = "proposal"

(* What a claim that something is free proposes: values that the bookings  *)
(* confirm and that do not touch what the customer said.                   *)
ProposalOf(f, b, c) ==
  LET month == IF f.slots.month = None \/ c.month = None \/ c.month = f.slots.month
               THEN IF f.slots.month = None THEN c.month ELSE f.slots.month
               ELSE None
      day  == IF c.day # None /\ month # None /\ Open(f, "day") /\ c.day \notin FullDays(b, month)
              THEN c.day ELSE None
      on   == IF day # None THEN day ELSE f.slots.day
      time == IF /\ c.time \in Times /\ month # None /\ on # None /\ Open(f, "time")
                 /\ "time" \in Required(f.intent)
                 /\ Free(b, month, on, c.time)
              THEN c.time ELSE None
  IN  [month |-> IF f.slots.month = None THEN month ELSE None,
       day |-> day, time |-> time]

(* What a readback adds: values the machine missed.                        *)
ReadbackOf(f, c) ==
  [month |-> IF f.slots.month = None THEN c.month ELSE None,
   day   |-> IF f.slots.day = None THEN c.day ELSE None,
   time  |-> IF f.slots.time = None /\ "time" \in Required(f.intent)
             THEN c.time ELSE None]

Understood(f, b, c) ==
  CASE c.claim = "slot_free"               -> ProposalOf(f, b, c)
    [] c.claim = None                      -> ReadbackOf(f, c)
    [] c.claim \notin {None, "slot_free"} -> NoSlots

Entered(f, b, proposal, said) ==
  LET mark   == IF proposal THEN "proposal" ELSE "readback"
      filled == {k \in Fields : said[k] # None}
      s      == [k \in Fields |-> IF k \in filled THEN said[k] ELSE f.slots[k]]
      marks  == [k \in Fields |-> IF k \in filled THEN mark ELSE f.marks[k]]
      r      == Request(f.intent, s, marks, f.pick, f.skip)
  IN  IF \A k \in filled : s[k] = f.slots[k] /\ marks[k] = f.marks[k]
      THEN Unchanged(f, b)
      ELSE IF proposal /\ f.unbound   \* a yes came before the verdict: it binds now
      THEN Conclude([f EXCEPT !.unbound = FALSE], b, [r EXCEPT !.marks = NoMarks])
      ELSE IF proposal /\ MissingOf(f.intent, s) = {}
      THEN Conclude(f, b, [r EXCEPT !.offer = TRUE])
      ELSE Changed(Collect(f, f.intent, s, marks, MissingOf(f.intent, s), {},
                           f.pick, f.skip), b)

Heard(f, b, c) ==
  IF f.state # "COLLECTING" \/ f.intent = "unbook"
  THEN Unchanged(f, b)
  ELSE Entered(f, b, c.claim = "slot_free", Understood(f, b, c))

----------------------------------------------------------------------------
(* no and yes. *)

(* The fields ks are refused: they are emptied, a delegated one is         *)
(* remembered and proposed anew.                                           *)
Reoffered(f, b, intent, kept, skip, s) ==
  LET picked  == Filled(kept, s)
      missing == MissingOf(intent, s)
  IN  IF picked # {} /\ missing = {}
      THEN Conclude(f, b, [Request(intent, s, Proposed(picked), f.pick, skip)
                             EXCEPT !.offer = TRUE])
      ELSE Changed(Collect(f, intent, s, Proposed(picked), missing, {}, f.pick, skip), b)

Refuse(f, b, intent, slots, ks) ==
  LET skip == [k \in {"day", "time"} |->
                 IF k \in ks \cap f.pick THEN f.skip[k] \cup {slots[k]} ELSE f.skip[k]]
      kept == [k \in Fields |-> IF k \in ks THEN None ELSE slots[k]]
  IN  Reoffered(f, b, intent, kept, skip, PickFill(b, intent, kept, f.pick, skip))

No(f, b) ==
  LET offered == {k \in Fields : f.marks[k] = "proposal"}
  IN  CASE f.state = "COLLECTING" /\ Marked(f.marks) # {} ->
             Refuse(f, b, f.intent, f.slots, Marked(f.marks))
        [] f.state = "CONFIRM" /\ offered # {} ->
             Refuse(f, b, f.intent, Inherited(f), offered)
        [] f.state = "CONFIRM" /\ offered = {} /\ f.intent \in {"book", "unbook"} ->
             Changed(IdleFsm, b)
        [] f.state = "CONFIRM" /\ offered = {} /\ f.intent = "check" ->
             Changed([f EXCEPT !.state = "DONE"], b)
        [] OTHER -> Unchanged(f, b)

(* A yes that answers the question of CONFIRM is the one call that writes: *)
(* it books what was offered or pending, or cancels what was found.        *)
Yes(f, b) ==
  LET pick == f.pick \ Marked(f.marks)
  IN  CASE f.state = "COLLECTING" /\ Marked(f.marks) # {} ->
             Conclude(f, b, Request(f.intent, f.slots, NoMarks, pick, f.skip))
        [] f.state = "COLLECTING" /\ Marked(f.marks) = {} ->
             Unchanged([f EXCEPT !.unbound = TRUE], b)
        [] f.state = "CONFIRM" ->
             Conclude(f, b,
               [Request(IF f.intent = "unbook" THEN "unbook" ELSE "book",
                        Inherited(f), f.marks, pick, f.skip)
                  EXCEPT !.confirmed = TRUE])
        [] OTHER -> Unchanged(f, b)

----------------------------------------------------------------------------
(* set: values, an intent, or both. *)

Says(c) == \E k \in Fields : c[k] # None

(* _route_bare_number: the day if it is open, else the hour, in the        *)
(* afternoon if it is small.                                               *)
Clock(n) == Hour(IF n \in 1..7 THEN n + 12 ELSE n)

Routed(r, n) ==
  CASE r.slots.day = None /\ n \in Days -> [r EXCEPT !.slots.day = n]
    [] /\ r.slots.day # None \/ n \notin Days
       /\ r.slots.time = None /\ "time" \in Required(r.intent) /\ Clock(n) \in Times ->
         [r EXCEPT !.slots.time = Clock(n)]
    [] OTHER -> r

(* The request that a set starts from. *)
Started(f, c) ==
  CASE f.state = "COLLECTING" ->
         Request(IF c.intent = None THEN f.intent ELSE c.intent,
                 f.slots, f.marks, f.pick, f.skip)
    [] f.state = "CONFIRM" ->
         Request(IF c.intent = None THEN f.intent ELSE c.intent,
                 Inherited(f), f.marks, f.pick, f.skip)
    [] OTHER ->
         Request(IF c.intent = None THEN "check" ELSE c.intent,
                 NoSlots, f.marks, {}, NoSkip)

(* Any and YouPick empty their field; YouPick hands it to the machine.     *)
Widened(r, c) ==
  LET anyOf == {k \in {"day", "time"} : c[k] = Any}
      yours == {k \in {"day", "time"} : c[k] = YouPick}
      gone  == anyOf \cup yours
  IN  [r EXCEPT !.slots = [k \in Fields |-> IF k \in gone THEN None ELSE r.slots[k]],
                !.marks = [k \in Fields |-> IF k \in gone THEN None ELSE r.marks[k]],
                !.pick  = (r.pick \ anyOf) \cup yours,
                !.skip  = [k \in {"day", "time"} |-> IF k \in yours THEN {} ELSE r.skip[k]]]

(* The values of the line: one number is not a day and a time at once, the *)
(* customer's value supersedes the operator's, and what is no value is     *)
(* rejected.                                                               *)
Plain(v) == IF v \in {Any, YouPick} THEN None ELSE v

Values(r, c) ==
  LET twice == c.number # None /\ Plain(c.day) # None /\ Plain(c.time) # None
  IN  [month |-> c.month,
       day   |-> IF twice /\ r.slots.day # None THEN None ELSE Plain(c.day),
       time  |-> IF twice /\ r.slots.day = None THEN None ELSE Plain(c.time)]

Valid(intent, k, v) ==
  CASE k = "month" -> v \in Months
    [] k = "day"   -> v \in Days
    [] k = "time"  -> v \in Times \/ (v = AllDay /\ intent = "check")

Superseded(r, ks) ==
  [r EXCEPT !.marks = [k \in Fields |-> IF k \in ks THEN None ELSE r.marks[k]],
            !.pick = r.pick \ ks]

(* A number heard as a month is routed; if it finds a field, no month was  *)
(* meant.                                                                  *)
Accepted(r, c, val) ==
  LET said   == {k \in Fields : val[k] # None}
      good   == {k \in said : Valid(r.intent, k, val[k])}
      mine   == Superseded(r, said)
      routed == IF c.month = Unclear /\ c.number # None THEN Routed(mine, c.number)
                ELSE mine
  IN  [routed EXCEPT
         !.slots = [k \in Fields |-> IF k \in good THEN val[k] ELSE routed.slots[k]],
         !.rejected = (said \ good) \ (IF routed # mine THEN {"month"} ELSE {})]

Stated(r, c) == Accepted(r, c, Values(r, c))

(* A line in a request that is just a number. *)
Numbered(f, c, r) ==
  IF f.state = "COLLECTING" /\ ~Says(c) /\ c.number # None
  THEN Routed(r, c.number) ELSE r

Set(f, b, c) ==
  IF ~Says(c) /\ c.intent = None THEN Unchanged(f, b)
  ELSE Conclude(f, b, Numbered(f, c, Stated(Widened(Started(f, c), c), c)))

----------------------------------------------------------------------------
(* _hud_fsm_apply. Any other event of the customer outdates a yes that     *)
(* answered nothing; an empty one ends the offer of a check.               *)
Apply(f, b, c) ==
  LET heardNow == [f EXCEPT !.unbound = FALSE]
  IN  CASE c.name = "none" /\ f.state = "CONFIRM" /\ f.intent = "check" ->
             Changed([f EXCEPT !.state = "DONE"], b)
        [] c.name = "none" /\ ~(f.state = "CONFIRM" /\ f.intent = "check") ->
             Unchanged(f, b)
        [] c.name = "cancel"            -> Changed(IdleFsm, b)
        [] c.name = "heard"             -> Heard(f, b, c)
        [] c.name = "yes" /\ ~Says(c)   -> Yes(f, b)
        [] c.name = "yes" /\ Says(c)    -> Set(f, b, c)
        [] c.name = "no"                -> No(heardNow, b)
        [] c.name = "set"               -> Set(heardNow, b, c)

=============================================================================
