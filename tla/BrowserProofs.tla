---------------------------- MODULE BrowserProofs ----------------------------
(***************************************************************************)
(* Proofs about the two pages a browser runs.                              *)
(*                                                                         *)
(* HudPage: its three properties, for any forms of the record, any number  *)
(* of lines, of verdicts under way, and of changes and resets of the       *)
(* record.                                                                 *)
(*                                                                         *)
(* RealtimeClient and its AudioPlayer: for every number of sessions,       *)
(* chunks and scheduled stops and every playback delay.  That the voice    *)
(* plays in order is inductive player by player.  That a page without a    *)
(* session is as it was at the beginning is not: it needs to be known that *)
(* every session but the page's own is Past, and where the page's own      *)
(* stands (Present), of what each step may leave of it.                    *)
(***************************************************************************)
EXTENDS HudPage, RealtimeClient, SequenceTheorems, TLAPS

-----------------------------------------------------------------------------
(* THE BOOKING DESK'S PAGE                                                 *)

(* The gateway's record, and what the page keeps of one.                   *)
FsmRecord ==
  [form: Forms \cup {Idle}, seq: Nat, light: Lights, helped: Forms \cup {Idle},
   helps: Nat, age: Nat, era: Nat, given: Nat]

SeenRecord == [form: Forms \cup {Idle}, seq: Nat, age: Nat, era: Nat]

(* The helps given to the form of the record are counted, at most twice.   *)
Counted(f) == f.helps <= 2 /\ f.given <= HelpsOf(f)

(* What was seen of a record is behind it, and within the life of the      *)
(* record it is the record itself if seq says so.                          *)
Behind(r, f) ==
  /\ r \in SeenRecord
  /\ r.era <= f.era
  /\ r.era = f.era => r.seq <= f.seq /\ (r.seq = f.seq => r.age = f.age)

(* g comes from f by one change of the gateway.                            *)
Later(f, g) ==
  \/ g.era > f.era
  \/ g.era = f.era /\ g.seq > f.seq
  \/ g.era = f.era /\ g.seq = f.seq /\ g.age = f.age

VerdictsInv ==
  /\ fsm \in FsmRecord /\ Counted(fsm)
  /\ Behind(shown, fsm)
  /\ cut # None => Behind(cut, fsm)
  /\ DOMAIN call = Calls
  /\ \A c \in Calls : call[c] # None => Behind(call[c].rec, fsm)

-----------------------------------------------------------------------------
(* What the gateway's operations make of a record.                         *)

LEMMA ResetIsLater ==
  ASSUME NEW f \in FsmRecord
  PROVE  Reset(f) \in FsmRecord /\ Counted(Reset(f)) /\ Later(f, Reset(f))
<1>1. f.age \in Nat /\ f.era \in Nat
  BY DEF FsmRecord
<1>2. PICK age \in Nat : age = IF f.form = Idle /\ f.seq = 0 THEN f.age ELSE f.age + 1
  BY <1>1
<1>3. Fresh \in FsmRecord
  BY DEF Fresh, FsmRecord, Lights
<1>4. PICK h \in FsmRecord : h = [Fresh EXCEPT !.age = age]
  BY <1>2, <1>3 DEF FsmRecord
<1>5. Reset(f) = [h EXCEPT !.era = f.era + 1]
  BY <1>2, <1>4, Zenon DEF Reset
<1>6. Reset(f) \in FsmRecord
  BY <1>1, <1>5 DEF FsmRecord
<1>7. Fresh.helps = 0 /\ Fresh.given = 0
  BY DEF Fresh
<1>8. Reset(f).helps = 0 /\ Reset(f).given = 0 /\ Reset(f).era = f.era + 1
  BY <1>3, <1>4, <1>5, <1>7 DEF FsmRecord
<1> QED BY <1>1, <1>6, <1>8 DEF Counted, HelpsOf, Later

LEMMA BumpIsLater ==
  ASSUME NEW f \in FsmRecord, Counted(f), NEW form \in Forms
  PROVE  Bump(f, form) \in FsmRecord /\ Counted(Bump(f, form)) /\ Later(f, Bump(f, form))
<1>1. Bump(f, form) \in FsmRecord
  <2>1. /\ f.seq + 1 \in Nat /\ f.age + 1 \in Nat
        /\ (IF form = f.form THEN f.given ELSE 0) \in Nat
    BY DEF FsmRecord
  <2>2. PICK h1 \in FsmRecord : h1 = [f EXCEPT !.form = form]
    BY DEF FsmRecord
  <2>3. PICK h2 \in FsmRecord : h2 = [h1 EXCEPT !.seq = f.seq + 1]
    BY <2>1 DEF FsmRecord
  <2>4. PICK h3 \in FsmRecord : h3 = [h2 EXCEPT !.age = f.age + 1]
    BY <2>1 DEF FsmRecord
  <2>5. PICK h4 \in FsmRecord :
          h4 = [h3 EXCEPT !.given = IF form = f.form THEN f.given ELSE 0]
    BY <2>1 DEF FsmRecord
  <2>6. h4 = [f EXCEPT !.form = form, !.seq = f.seq + 1, !.age = f.age + 1,
                       !.given = IF form = f.form THEN f.given ELSE 0]
    BY <2>2, <2>3, <2>4, <2>5, Zenon
  <2>7. Bump(f, form) = h4
    BY <2>6 DEF FsmRecord, Bump
  <2> QED BY <2>7
<1>2. /\ Bump(f, form).form = form /\ Bump(f, form).seq = f.seq + 1
      /\ Bump(f, form).era = f.era /\ Bump(f, form).helps = f.helps
      /\ Bump(f, form).helped = f.helped
      /\ Bump(f, form).given = IF form = f.form THEN f.given ELSE 0
  BY DEF FsmRecord, Bump
<1>3. f.helps \in Nat /\ f.seq \in Nat
  BY DEF FsmRecord
<1> QED BY <1>1, <1>2, <1>3 DEF Counted, HelpsOf, Later

LEMMA AppliedIsLater ==
  ASSUME NEW f \in FsmRecord, Counted(f), NEW g \in Applied(f)
  PROVE  g \in FsmRecord /\ Counted(g) /\ Later(f, g)
<1>1. CASE g = f
  BY <1>1 DEF FsmRecord, Later
<1>2. CASE \E form \in Forms : g = Bump(f, form)
  BY <1>2, BumpIsLater
<1> QED BY <1>1, <1>2 DEF Applied

LEMMA EventIsLater ==
  ASSUME NEW f \in FsmRecord, Counted(f), NEW h \in Event(f)
  PROVE  h \in FsmRecord /\ Counted(h) /\ Later(f, h)
<1>1. CASE h = f
  BY <1>1 DEF FsmRecord, Later
<1>2. CASE h = Reset(f)
  BY <1>2, ResetIsLater
<1>3. ASSUME NEW g \in Applied(f), h = [g EXCEPT !.light = "green"]
      PROVE  h \in FsmRecord /\ Counted(h) /\ Later(f, h)
  <2>1. g \in FsmRecord /\ Counted(g) /\ Later(f, g)
    BY AppliedIsLater
  <2> QED BY <1>3, <2>1 DEF FsmRecord, Counted, HelpsOf, Later, Lights
<1> QED BY <1>1, <1>2, <1>3 DEF Event

LEMMA ShineIsLater ==
  ASSUME NEW f \in FsmRecord, NEW g \in FsmRecord, Counted(g), Later(f, g),
         NEW light \in Lights, NEW lit \in Shine(g, light)
  PROVE  lit \in FsmRecord /\ Counted(lit) /\ Later(f, lit)
<1>1. lit = g \/ lit = [g EXCEPT !.light = light, !.seq = @ + 1]
  BY DEF Shine
<1>2. CASE lit = [g EXCEPT !.light = light, !.seq = @ + 1]
  <2>1. lit \in FsmRecord
    <3>1. PICK h \in FsmRecord : h = [g EXCEPT !.light = light]
      BY DEF FsmRecord
    <3>2. lit = [h EXCEPT !.seq = @ + 1]
      BY <1>2, <3>1, Zenon
    <3> QED BY <3>2 DEF FsmRecord
  <2>2. /\ lit.form = g.form /\ lit.helps = g.helps /\ lit.helped = g.helped
        /\ lit.given = g.given /\ lit.era = g.era /\ lit.seq = g.seq + 1
    BY <1>2 DEF FsmRecord
  <2>3. {f.era, f.seq, g.era, g.seq} \subseteq Nat
    BY DEF FsmRecord
  <2> QED BY <2>1, <2>2, <2>3 DEF Counted, HelpsOf, Later
<1> QED BY <1>1, <1>2

(* The cap: a help is given, and counted, only to a form that had fewer    *)
(* than two.                                                               *)
LEMMA HelpIsLater ==
  ASSUME NEW f \in FsmRecord, NEW g \in FsmRecord, Counted(g), Later(f, g)
  PROVE  Help(g) \in FsmRecord /\ Counted(Help(g)) /\ Later(f, Help(g))
<1>1. CASE HelpsOf(g) >= 2
  BY <1>1 DEF Help, FsmRecord, Counted, HelpsOf, Later, Lights
<1>2. CASE ~(HelpsOf(g) >= 2)
  <2>1. HelpsOf(g) \in 0..1
    BY <1>2 DEF HelpsOf, FsmRecord
  <2>2. Help(g) = [g EXCEPT !.helped = g.form, !.helps = HelpsOf(g) + 1, !.given = @ + 1]
    BY <1>2 DEF Help
  <2>3. Help(g) \in FsmRecord
    <3>1. PICK h1 \in FsmRecord : h1 = [g EXCEPT !.helped = g.form]
      BY DEF FsmRecord
    <3>2. PICK h2 \in FsmRecord : h2 = [h1 EXCEPT !.helps = HelpsOf(g) + 1]
      <4>1. HelpsOf(g) + 1 \in Nat
        BY <2>1
      <4> QED BY <4>1 DEF FsmRecord
    <3>3. Help(g) = [h2 EXCEPT !.given = @ + 1]
      BY <2>2, <3>1, <3>2, Zenon
    <3> QED BY <3>3 DEF FsmRecord
  <2>6. Help(g).era = g.era /\ Help(g).seq = g.seq /\ Help(g).age = g.age
    BY <2>2 DEF FsmRecord
  <2>4. /\ Help(g).helped = Help(g).form /\ Help(g).helps = HelpsOf(g) + 1
        /\ Help(g).given = g.given + 1
    BY <2>2 DEF FsmRecord
  <2>5. Counted(Help(g))
    BY <2>1, <2>4 DEF Counted, FsmRecord, HelpsOf
  <2> QED BY <2>3, <2>5, <2>6 DEF Later
<1> QED BY <1>1, <1>2

LEMMA JudgedIsLater ==
  ASSUME NEW f \in FsmRecord, Counted(f), NEW v \in Verdicts, NEW readback \in BOOLEAN,
         NEW h \in JudgedBy(f, v, readback)
  PROVE  h \in FsmRecord /\ Counted(h) /\ Later(f, h)
<1>1. PICK g \in (IF readback THEN Applied(f) ELSE {f}) :
        \E lit \in Shine(g, Lit(f, g, v)) :
          h = IF Needy(f, g, v) THEN Help(lit) ELSE lit
  BY DEF JudgedBy
<1>2. g \in FsmRecord /\ Counted(g) /\ Later(f, g)
  <2>1. g \in Applied(f)
    BY <1>1 DEF Applied
  <2> QED BY <2>1, AppliedIsLater
<1>3. Lit(f, g, v) \in Lights
  BY DEF Lit, Verdicts, Lights
<1>4. PICK lit \in Shine(g, Lit(f, g, v)) :
        h = IF Needy(f, g, v) THEN Help(lit) ELSE lit
  BY <1>1
<1>5. lit \in FsmRecord /\ Counted(lit) /\ Later(f, lit)
  BY <1>2, <1>3, ShineIsLater
<1> QED BY <1>4, <1>5, HelpIsLater

LEMMA BehindLater ==
  ASSUME NEW f \in FsmRecord, NEW g \in FsmRecord, Later(f, g), NEW r, Behind(r, f)
  PROVE  Behind(r, g)
BY DEF FsmRecord, SeenRecord, Later, Behind

LEMMA SeenIsBehind ==
  ASSUME NEW f \in FsmRecord
  PROVE  Behind(Seen(f), f)
BY DEF FsmRecord, SeenRecord, Seen, Behind
-----------------------------------------------------------------------------
(* The verdicts under way.                                                 *)

LEMMA SendKnown ==
  ASSUME VerdictsInv, NEW step, NEW rec, Behind(rec, fsm), Send(step, rec),
         NEW c \in Calls, call'[c] # None
  PROVE  Behind(call'[c].rec, fsm)
BY DEF VerdictsInv, Send

LEMMA VerdictsKept ==
  ASSUME VerdictsInv, [HudNext]_hudVars
  PROVE  VerdictsInv'
<1> DEFINE Copies == /\ Behind(shown', fsm)
                     /\ cut' # None => Behind(cut', fsm)
                     /\ DOMAIN call' = Calls
                     /\ \A c \in Calls : call'[c] # None => Behind(call'[c].rec, fsm)
<1> USE DEF VerdictsInv
<1>1. ASSUME fsm' = fsm, Copies PROVE VerdictsInv'
  BY <1>1
<1>2. ASSUME fsm' \in FsmRecord, Counted(fsm'), Later(fsm, fsm'),
             cut' \in {cut, None}, shown' = shown \/ shown' = Seen(fsm'),
             DOMAIN call' = Calls,
             \A c \in Calls :
               call'[c] # None => call'[c].rec = Seen(fsm') \/ call'[c] = call[c]
      PROVE  VerdictsInv'
  <2>1. Behind(shown', fsm')
    BY <1>2, BehindLater, SeenIsBehind
  <2>2. cut' # None => Behind(cut', fsm')
    BY <1>2, BehindLater
  <2>3. ASSUME NEW c \in Calls, call'[c] # None PROVE Behind(call'[c].rec, fsm')
    BY <1>2, <2>3, BehindLater, SeenIsBehind
  <2> QED BY <1>2, <2>1, <2>2, <2>3
<1>3. CASE LineEnds \/ LineDone \/ SpeakStarts
  BY <1>3, <1>1 DEF LineEnds, LineDone, SpeakStarts, omniVars
<1>4. CASE LineServed
  <2>1. PICK f \in Event(fsm) : fsm' = f /\ shown' \in {shown, Seen(f)}
    BY <1>4 DEF LineServed
  <2> QED BY <1>4, <2>1, <1>2, EventIsLater DEF LineServed, omniVars
<1>5. CASE SpeakEnds
  <2>1. fsm' = fsm /\ shown' = shown /\ (cut' # None => cut' = cut)
    BY <1>5 DEF SpeakEnds
  <2>2. call' = call \/ Send("end", shown) \/ (cut # None /\ Send("cut", cut))
    BY <1>5 DEF SpeakEnds
  <2>3. DOMAIN call' = Calls
    BY <2>2 DEF Send
  <2> QED BY <2>1, <2>2, <2>3, <1>1, SendKnown
<1>6. CASE MidTurnCheck \/ NoReplyCheck
  <2>1. Send("mid", shown) \/ Send("silence", shown)
    BY <1>6 DEF MidTurnCheck, NoReplyCheck
  <2>2. fsm' = fsm /\ shown' = shown /\ cut' = cut
    BY <1>6 DEF MidTurnCheck, NoReplyCheck
  <2>3. DOMAIN call' = Calls
    BY <2>1 DEF Send
  <2> QED BY <2>1, <2>2, <2>3, <1>1, SendKnown
<1>7. ASSUME NEW c \in Calls, MidTurnJudged(c) PROVE VerdictsInv'
  BY <1>7, <1>1 DEF MidTurnJudged, At, Forgotten
<1>8. ASSUME NEW c \in Calls, TurnServed(c) PROVE VerdictsInv'
  <2>1. PICK v \in Verdicts : \E f \in JudgedBy(fsm, v, At(c, "end")) :
          fsm' = f /\ call' = [call EXCEPT ![c] = [step |-> "answered", rec |-> Seen(f)]]
    BY <1>8 DEF TurnServed
  <2>2. fsm' \in FsmRecord /\ Counted(fsm') /\ Later(fsm, fsm')
    <3>1. At(c, "end") \in BOOLEAN
      BY DEF At
    <3> QED BY <2>1, <3>1, JudgedIsLater
  <2>3. call' = [call EXCEPT ![c] = [step |-> "answered", rec |-> Seen(fsm')]]
    BY <2>1
  <2> QED BY <1>8, <2>2, <2>3, <1>2 DEF TurnServed
<1>9. ASSUME NEW c \in Calls, TurnDone(c) PROVE VerdictsInv'
  BY <1>9, <1>1 DEF TurnDone, At, Forgotten
<1>10. CASE StartCall
  BY <1>10, <1>2, ResetIsLater DEF StartCall
<1>11. CASE UNCHANGED hudVars
  BY <1>11, <1>1 DEF hudVars, omniVars
<1> QED
  BY <1>3, <1>4, <1>5, <1>6, <1>7, <1>8, <1>9, <1>10, <1>11 DEF HudNext

LEMMA VerdictsInductive == HudSpec => []VerdictsInv
<1>1. HudInit => VerdictsInv
  BY SeenIsBehind DEF HudInit, VerdictsInv, Fresh, FsmRecord, Lights, Counted, HelpsOf
<1> QED BY <1>1, VerdictsKept, PTL DEF HudSpec

(* The semaphore helps the operator at most twice while the request stays  *)
(* as it is.                                                               *)
THEOREM HelpIsCapped == HudSpec => []HelpEnds
<1>1. VerdictsInv => HelpEnds
  BY DEF VerdictsInv, Counted, HelpsOf, HelpEnds, FsmRecord
<1> QED BY <1>1, VerdictsInductive, PTL

(* fsm_seq: a verdict that the gateway applies was asked about the record  *)
(* as it is, unless the record has been reset since.                       *)
THEOREM NoStaleVerdict == HudSpec => VerdictFitsOrReset
<1>1. ASSUME VerdictsInv, HudNext, NEW c \in Calls, Applies(c)
      PROVE  call[c].rec.age = fsm.age \/ call[c].rec.era # fsm.era
  <2>1. TurnServed(c)
    BY <1>1 DEF VerdictsInv, HudNext, Applies, LineEnds, LineDone, LineServed,
       SpeakStarts, SpeakEnds, MidTurnCheck, NoReplyCheck, Send, MidTurnJudged,
       TurnServed, TurnDone, Forgotten, StartCall, omniVars
  <2>2. call[c].rec.seq = fsm.seq
    BY <2>1 DEF TurnServed
  <2>3. Behind(call[c].rec, fsm)
    BY <1>1 DEF VerdictsInv, Applies
  <2> QED BY <2>2, <2>3 DEF Behind
<1>2. VerdictsInv /\ [HudNext]_hudVars =>
        [\A c \in Calls :
           Applies(c) => call[c].rec.age = fsm.age \/ call[c].rec.era # fsm.era]_hudVars
  BY <1>1
<1> QED BY <1>2, VerdictsInductive, PTL DEF HudSpec, VerdictFitsOrReset

-----------------------------------------------------------------------------
(* The lines.                                                              *)

LinesInv ==
  /\ spoken \in Nat /\ hand \in Nat /\ pending \in Seq(Nat)
  /\ Len(pending) <= MaxWaiting /\ Len(pending) <= spoken
  /\ NewestWait

(* NewestWait over the sequence's indices as numbers.                      *)
LEMMA LinesUnfold ==
  ASSUME LinesInv
  PROVE  /\ MaxWaiting \in Nat \ {0}
         /\ Len(pending) \in Nat /\ Len(pending) <= MaxWaiting
         /\ hand # 0 => \/ hand = spoken - Len(pending)
                        \/ hand < spoken - MaxWaiting /\ Len(pending) = MaxWaiting
         /\ \A i \in 1..Len(pending) : pending[i] = spoken - Len(pending) + i
<1>1. DOMAIN pending = 1..Len(pending) /\ Len(pending) \in Nat
  BY DEF LinesInv
<1> QED BY <1>1, HudPageAssumption DEF LinesInv, NewestWait

LEMMA LinesFold ==
  ASSUME NEW s \in Nat, spoken' = s, hand' \in Nat, pending' \in Seq(Nat),
         NEW n \in Nat, n = Len(pending'), n <= MaxWaiting, n <= s,
         hand' = 0 => pending' = <<>>,
         hand' # 0 => hand' = s - n \/ (hand' < s - MaxWaiting /\ n = MaxWaiting),
         \A i \in 1..n : pending'[i] = s - n + i
  PROVE  LinesInv'
<1>1. DOMAIN pending' = 1..n
  OBVIOUS
<1> QED BY <1>1 DEF LinesInv, NewestWait

LEMMA NextLineKeeps ==
  ASSUME LinesInv, hand # 0, NextLine, UNCHANGED spoken
  PROVE  LinesInv'
<1>1. CASE pending = <<>>
  BY <1>1 DEF LinesInv, NewestWait, NextLine
<1>2. CASE pending # <<>>
  <2>1. hand' = pending[1] /\ pending' = Tail(pending)
    BY <1>2 DEF NextLine, LinesInv
  <2>2. pending' \in Seq(Nat) /\ Len(pending') = Len(pending) - 1 /\ Len(pending) >= 1
    BY <1>2, <2>1 DEF LinesInv
  <2>3. \A i \in 1..Len(pending') : pending'[i] = pending[i + 1]
    BY <1>2, <2>1, <2>2 DEF LinesInv
  <2>4. /\ Len(pending') \in Nat /\ Len(pending') <= MaxWaiting
        /\ Len(pending') < spoken /\ spoken \in Nat
    BY <2>2, LinesUnfold DEF LinesInv
  <2>5. hand' = spoken - Len(pending') /\ hand' # 0 /\ hand' \in Nat
    BY <2>1, <2>2, <2>4, LinesUnfold
  <2>6. \A i \in 1..Len(pending') : pending'[i] = spoken - Len(pending') + i
    BY <2>2, <2>3, <2>4, LinesUnfold
  <2> QED BY <2>2, <2>4, <2>5, <2>6, LinesFold
<1> QED BY <1>1, <1>2

LEMMA LineEndsKeeps ==
  ASSUME LinesInv, LineEnds
  PROVE  LinesInv'
<1>0. spoken \in Nat /\ spoken + 1 \in Nat /\ hand \in Nat /\ Len(pending) <= spoken
  BY DEF LinesInv
<1>1. CASE hand = 0
  BY <1>1 DEF LinesInv, NewestWait, LineEnds
<1>2. CASE hand # 0 /\ Len(pending) # MaxWaiting
  <2>1. spoken' = spoken + 1 /\ hand' = hand /\ pending' = Append(pending, spoken + 1)
    BY <1>2 DEF LineEnds
  <2>2. pending' \in Seq(Nat) /\ Len(pending') = Len(pending) + 1
    BY <2>1, <1>0 DEF LinesInv
  <2>3. /\ \A i \in 1..Len(pending) : pending'[i] = pending[i]
        /\ pending'[Len(pending) + 1] = spoken + 1
    BY <2>1, <1>0 DEF LinesInv
  <2>4. ASSUME NEW i \in 1..Len(pending')
        PROVE  pending'[i] = spoken + 1 - Len(pending') + i
    <3>1. CASE i \in 1..Len(pending)
      <4>1. pending'[i] = spoken - Len(pending) + i
        BY <2>3, <3>1, LinesUnfold
      <4> QED BY <1>0, <2>2, <4>1, LinesUnfold
    <3>2. CASE i = Len(pending) + 1
      BY <1>0, <2>2, <2>3, <3>2, LinesUnfold
    <3> QED BY <2>2, <3>1, <3>2, LinesUnfold
  <2>5. /\ Len(pending') \in Nat /\ Len(pending') <= MaxWaiting
        /\ Len(pending') <= spoken + 1 /\ hand' = spoken + 1 - Len(pending')
    BY <1>0, <1>2, <2>1, <2>2, LinesUnfold
  <2> QED BY <1>0, <1>2, <2>1, <2>2, <2>4, <2>5, LinesFold
<1>3. CASE hand # 0 /\ Len(pending) = MaxWaiting
  <2>1. /\ spoken' = spoken + 1 /\ hand' = hand
        /\ pending' = Append(Tail(pending), spoken + 1)
    BY <1>3 DEF LineEnds
  <2>2. /\ Tail(pending) \in Seq(Nat) /\ Len(Tail(pending)) = Len(pending) - 1
        /\ \A i \in 1..(Len(pending) - 1) : Tail(pending)[i] = pending[i + 1]
    BY <1>3, HudPageAssumption DEF LinesInv
  <2>3. pending' \in Seq(Nat) /\ Len(pending') = Len(pending)
    BY <1>0, <2>1, <2>2, LinesUnfold
  <2>4. /\ \A i \in 1..(Len(pending) - 1) : pending'[i] = pending[i + 1]
        /\ pending'[Len(pending)] = spoken + 1
    BY <1>0, <2>1, <2>2, LinesUnfold
  <2>5. ASSUME NEW i \in 1..Len(pending')
        PROVE  pending'[i] = spoken + 1 - Len(pending') + i
    <3>1. CASE i \in 1..(Len(pending) - 1)
      <4>1. pending'[i] = spoken - Len(pending) + (i + 1)
        BY <2>4, <3>1, LinesUnfold
      <4> QED BY <1>0, <2>3, <3>1, <4>1, LinesUnfold
    <3>2. CASE i = Len(pending)
      BY <1>0, <2>3, <2>4, <3>2, LinesUnfold
    <3> QED BY <2>3, <3>1, <3>2, LinesUnfold
  <2>6. hand' < spoken + 1 - MaxWaiting
    BY <1>0, <1>3, <2>1, LinesUnfold
  <2>7. /\ Len(pending') \in Nat /\ Len(pending') = MaxWaiting
        /\ Len(pending') <= MaxWaiting
        /\ Len(pending') <= spoken + 1 /\ hand' \in Nat /\ hand' # 0
    BY <1>0, <1>3, <2>1, <2>3, LinesUnfold
  <2>8. /\ spoken' = spoken + 1 /\ pending' \in Seq(Nat)
        /\ hand' < spoken + 1 - MaxWaiting
        /\ \A i \in 1..Len(pending') : pending'[i] = spoken + 1 - Len(pending') + i
    BY <2>1, <2>3, <2>5, <2>6
  <2> QED BY <1>0, <2>7, <2>8, LinesFold
<1> QED BY <1>1, <1>2, <1>3

LEMMA LinesKept ==
  ASSUME LinesInv, [HudNext]_hudVars
  PROVE  LinesInv'
<1>1. CASE LineEnds
  BY <1>1, LineEndsKeeps
<1>2. CASE LineDone \/ LineServed
  BY <1>2, NextLineKeeps DEF LineDone, LineServed
<1>3. CASE UNCHANGED lineVars
  BY <1>3 DEF lineVars, LinesInv, NewestWait
<1> QED
  BY <1>1, <1>2, <1>3 DEF HudNext, SpeakStarts, SpeakEnds, MidTurnCheck, NoReplyCheck,
     MidTurnJudged, TurnServed, TurnDone, StartCall, hudVars, lineVars

(* pendingTurns: what waits for the extractor are the customer's last      *)
(* lines, in order, and only older ones are ever dropped.                  *)
THEOREM NewestLinesWait == HudSpec => []NewestWait
<1>1. HudInit => LinesInv
  BY HudPageAssumption DEF HudInit, LinesInv, NewestWait
<1>2. LinesInv => NewestWait
  BY DEF LinesInv
<1> QED BY <1>1, <1>2, LinesKept, PTL DEF HudSpec

-----------------------------------------------------------------------------
(* THE REALTIME CLIENT                                                     *)

-----------------------------------------------------------------------------
(* The operations of a player keep it well formed and in order.            *)

Sound(p) == p \in Players /\ PlaysInOrder(p)

Quiet(p) == p.sources = <<>> /\ p.pending = <<>> /\ ~p.timer

LEMMA NewSound == Sound(NewPlayer) /\ Quiet(NewPlayer)
  BY DEF Sound, Players, PlaysInOrder, NewPlayer, Quiet

LEMMA HushedSound ==
  ASSUME NEW p, Sound(p)
  PROVE  /\ Sound(Hushed(p)) /\ Quiet(Hushed(p))
         /\ Hushed(p).turn = p.turn /\ Hushed(p).arrived = p.arrived
  BY DEF Sound, Players, PlaysInOrder, Hushed, Quiet

LEMMA StoppedSound ==
  ASSUME NEW p, Sound(p)
  PROVE  Sound(Stopped(p)) /\ Quiet(Stopped(p))
<1> DEFINE q == Hushed(p)
<1>1. Sound(q) /\ Quiet(q)
  BY HushedSound
<1> HIDE DEF q
<1>2. Sound([q EXCEPT !.turn = FALSE]) /\ Quiet([q EXCEPT !.turn = FALSE])
  BY <1>1 DEF Sound, Players, PlaysInOrder, Quiet
<1> QED  BY <1>2 DEF Stopped, q

LEMMA PreparedSound ==
  ASSUME NEW p, Sound(p)
  PROVE  Sound(Prepared(p))
<1> DEFINE q == Hushed(p)
<1>1. Sound(q) /\ Quiet(q)
  BY HushedSound
<1> HIDE DEF q
<1> DEFINE r == [q EXCEPT !.ready = TRUE, !.turn = FALSE, !.arrived = 0]
<1>2. /\ r \in Players /\ r.sources = <<>> /\ r.pending = <<>>
  BY <1>1 DEF Sound, Players, Quiet
<1>3. Sound(r)
  BY <1>2 DEF Sound, PlaysInOrder
<1> QED  BY <1>3 DEF Prepared, q

LEMMA TurnBegunSound ==
  ASSUME NEW p, Sound(p)
  PROVE  Sound(TurnBegun(p))
<1> DEFINE q == Hushed(p)
<1>1. Sound(q)
  BY HushedSound
<1> HIDE DEF q
<1>2. Sound([q EXCEPT !.turn = TRUE])
  BY <1>1 DEF Sound, Players, PlaysInOrder
<1> QED  BY <1>2 DEF TurnBegun, q

(* What waits follows, in number, what sounds: nothing does.               *)
LEMMA StartedSound ==
  ASSUME NEW p, p \in Players,
         p.playing => p.pending = <<>>,
         ~p.playing => p.sources = <<>>,
         \A i \in DOMAIN p.sources : p.sources[i] = p.arrived - Len(p.sources) + i,
         \A i \in DOMAIN p.pending : p.pending[i] = p.arrived - Len(p.pending) + i
  PROVE  Sound(Started(p))
<1>1. CASE p.playing
  BY <1>1 DEF Started, Sound, PlaysInOrder
<1>2. CASE ~p.playing
  <2> DEFINE q == [p EXCEPT !.playing = TRUE, !.sources = p.sources \o p.pending, !.pending = <<>>]
  <2>1. p.sources \o p.pending = p.pending
    BY <1>2, ConcatEmptySeq DEF Players
  <2>2. q \in Players /\ q.pending = <<>> /\ q.playing /\ q.sources = p.pending /\ q.arrived = p.arrived
    BY <2>1 DEF Players
  <2> HIDE DEF q
  <2>3. Sound(q)
    BY <2>2 DEF Sound, PlaysInOrder, Players
  <2> QED  BY <1>2, <2>3 DEF Started, q
<1> QED  BY <1>1, <1>2 DEF Players

(* The list grows by the newest chunk. *)
LEMMA NewestLast ==
  ASSUME NEW list \in Seq(Nat), NEW n \in Nat,
         \A i \in DOMAIN list : list[i] = n - Len(list) + i
  PROVE  LET longer == Append(list, n + 1)
         IN  /\ longer \in Seq(Nat)
             /\ \A i \in DOMAIN longer : longer[i] = n + 1 - Len(longer) + i
  OBVIOUS

LEMMA ChunkPlayedSound ==
  ASSUME NEW p, Sound(p)
  PROVE  Sound(ChunkPlayed(p))
<1> DEFINE q == [p EXCEPT !.arrived = @ + 1]
           held == [q EXCEPT !.pending = Append(@, q.arrived)]
           on == [q EXCEPT !.sources = Append(@, q.arrived)]
           armed == [held EXCEPT !.timer = TRUE]
<1>1. p \in Players /\ PlaysInOrder(p)
  BY DEF Sound
<1>2. /\ q \in Players /\ q.arrived = p.arrived + 1 /\ q.pending = p.pending
      /\ q.sources = p.sources /\ q.playing = p.playing /\ q.timer = p.timer
  BY <1>1 DEF Players
<1> HIDE DEF q
<1> DEFINE sounding == Append(p.sources, p.arrived + 1)
           held_back == Append(p.pending, p.arrived + 1)
<1>a. /\ p.arrived \in Nat /\ p.sources \in Seq(Nat) /\ p.pending \in Seq(Nat)
      /\ p.playing => p.pending = <<>>
      /\ ~p.playing => p.sources = <<>>
  BY <1>1 DEF Players, PlaysInOrder
<1>b. /\ sounding \in Seq(Nat)
      /\ \A i \in DOMAIN sounding :
           sounding[i] = p.arrived + 1 - Len(sounding) + i
  BY <1>1, <1>a, NewestLast DEF PlaysInOrder
<1>c. /\ held_back \in Seq(Nat)
      /\ \A i \in DOMAIN held_back :
           held_back[i] = p.arrived + 1 - Len(held_back) + i
  BY <1>1, <1>a, NewestLast DEF PlaysInOrder
<1> HIDE DEF sounding, held_back
<1>3. CASE p.playing
  <2>0. on = [q EXCEPT !.sources = sounding] /\ sounding \in Seq(Nat)
    BY <1>2, <1>b DEF sounding
  <2> HIDE DEF on
  <2>1. /\ on \in Players /\ on.arrived = p.arrived + 1 /\ on.playing
        /\ on.pending = <<>> /\ on.sources = sounding
    BY <1>2, <1>3, <1>a, <2>0 DEF Players
  <2>2. \A i \in DOMAIN on.sources : on.sources[i] = on.arrived - Len(on.sources) + i
    BY <1>a, <1>b, <2>1
  <2>3. Sound(on)
    BY <2>1, <2>2 DEF Sound, PlaysInOrder
  <2> QED  BY <1>3, <2>3 DEF ChunkPlayed, on, q, Sound
<1>4. CASE ~p.playing
  <2>0. held = [q EXCEPT !.pending = held_back] /\ held_back \in Seq(Nat)
    BY <1>2, <1>c DEF held_back
  <2> HIDE DEF held
  <2>1. /\ held \in Players /\ held.arrived = p.arrived + 1 /\ ~held.playing
        /\ held.timer = p.timer
        /\ held.sources = <<>> /\ held.pending = held_back
    BY <1>2, <1>4, <1>a, <2>0 DEF Players
  <2>2. \A i \in DOMAIN held.pending : held.pending[i] = held.arrived - Len(held.pending) + i
    BY <1>a, <1>c, <2>1
  <2>3. CASE p.timer
    <3>1. Sound(held)
      BY <2>1, <2>2, <2>3 DEF Sound, PlaysInOrder
    <3> QED  BY <1>4, <2>3, <3>1 DEF ChunkPlayed, held, q, Sound
  <2>4. CASE ~p.timer /\ Delay = 0
    <3>1. Sound(Started(held))
      BY <2>1, <2>2, StartedSound
    <3> QED  BY <1>4, <2>4, <3>1 DEF ChunkPlayed, held, q, Sound
  <2>5. CASE ~p.timer /\ Delay # 0
    <3>1. /\ armed \in Players /\ armed.arrived = held.arrived /\ ~armed.playing
          /\ armed.timer /\ armed.sources = <<>> /\ armed.pending = held.pending
      BY <2>1 DEF Players
    <3> HIDE DEF armed
    <3>2. Sound(armed)
      BY <2>2, <3>1 DEF Sound, PlaysInOrder
    <3> QED  BY <1>4, <2>5, <3>2 DEF ChunkPlayed, armed, held, q, Sound
  <2> QED  BY <1>1, <2>3, <2>4, <2>5 DEF Players
<1> QED  BY <1>1, <1>3, <1>4 DEF Players

LEMMA UntimedStartedSound ==
  ASSUME NEW p, Sound(p)
  PROVE  Sound(Started([p EXCEPT !.timer = FALSE]))
<1> DEFINE q == [p EXCEPT !.timer = FALSE]
<1>1. /\ q \in Players /\ q.playing = p.playing /\ q.pending = p.pending
      /\ q.sources = p.sources /\ q.arrived = p.arrived
  BY DEF Sound, Players
<1> HIDE DEF q
<1>2. Sound(Started(q))
  BY <1>1, StartedSound DEF Sound, PlaysInOrder
<1> QED  BY <1>2 DEF q

LEMMA DelayOverSound ==
  ASSUME NEW p, Sound(p)
  PROVE  Sound(DelayOver(p))
<1>1. CASE p.pending # <<>>
  BY <1>1, UntimedStartedSound DEF DelayOver, Sound, Players
<1>2. CASE p.pending = <<>>
  <2>1. Sound([p EXCEPT !.timer = FALSE])
    BY <1>2 DEF Sound, Players, PlaysInOrder
  <2> QED  BY <1>2, <2>1 DEF DelayOver, Sound, Players
<1> QED  BY <1>1, <1>2

LEMMA TurnEndedSound ==
  ASSUME NEW p, Sound(p)
  PROVE  Sound(TurnEnded(p))
<1> DEFINE q == IF ~p.playing /\ p.pending # <<>>
                THEN Started([p EXCEPT !.timer = FALSE]) ELSE p
<1>1. Sound(q)
  BY UntimedStartedSound
<1> HIDE DEF q
<1>2. Sound([q EXCEPT !.turn = FALSE])
  BY <1>1 DEF Sound, Players, PlaysInOrder
<1> QED  BY <1>2 DEF TurnEnded, q

LEMMA SourceOverSound ==
  ASSUME NEW p, Sound(p), p.sources # <<>>
  PROVE  Sound(SourceOver(p))
<1> DEFINE q == [p EXCEPT !.sources = Tail(@)]
<1>0. /\ p \in Players /\ p.sources \in Seq(Nat)
      /\ Tail(p.sources) \in Seq(Nat)
  BY DEF Sound, Players
<1>1. /\ q \in Players /\ q.playing = p.playing /\ q.pending = p.pending /\ q.timer = p.timer
      /\ q.sources = Tail(p.sources) /\ q.arrived = p.arrived
  BY <1>0 DEF Players
<1> HIDE DEF q
<1>2. p.playing
  BY DEF Sound, Players, PlaysInOrder
<1>3. /\ Len(q.sources) = Len(p.sources) - 1
      /\ \A i \in DOMAIN q.sources : i + 1 \in DOMAIN p.sources /\ q.sources[i] = p.sources[i + 1]
  BY <1>1 DEF Sound, Players
<1>4. \A i \in DOMAIN q.sources : q.sources[i] = q.arrived - Len(q.sources) + i
  BY <1>1, <1>3 DEF Sound, Players, PlaysInOrder
<1>5. Sound(q)
  BY <1>1, <1>2, <1>4 DEF Sound, PlaysInOrder
<1> QED  BY <1>5 DEF SourceOver, q

-----------------------------------------------------------------------------
(* The inductive invariant.                                                *)

PlayersSound == \A s \in Sessions : Sound(player[s])

(* A session that was never made or is over leaves nothing behind.         *)
Past(s) ==
  /\ at[s] \in {"none", "done"} /\ socket[s] = "null"
  /\ s \notin waiting /\ s \notin running
  /\ Quiet(player[s])

(* Where the page's own session stands, and what the page shows then.      *)
Connecting(s) ==
  /\ at[s] = "connect" /\ socket[s] = "connecting"
  /\ s \notin waiting /\ s \notin running
  /\ phase = "none" /\ ~canStop

Queueing(s) ==
  /\ at[s] = "await" /\ socket[s] \in {"open", "shut"}
  /\ s \in waiting /\ s \notin running
  /\ \/ phase = "none" /\ ~canStop
     \/ phase = "queuing" /\ canStop

Preparing(s) ==
  /\ at[s] \in {"await", "media"} /\ socket[s] \in {"open", "shut"}
  /\ s \notin waiting /\ s \notin running
  /\ phase = "assigned" /\ ~canStop

Running(s) ==
  /\ at[s] = "done" /\ socket[s] \in {"open", "shut"}
  /\ s \notin waiting /\ s \in running
  /\ canStop

Present(s) ==
  /\ Connecting(s) \/ Queueing(s) \/ Preparing(s) \/ Running(s)
  /\ socket[s] = "shut" => s \in deaf

AtRest == ~mic /\ canStart /\ ~canStop /\ phase = "none"

Owned ==
  ~struck =>
    /\ \A s \in Sessions : s # current => Past(s)
    /\ IF current = 0 THEN AtRest ELSE Present(current)

(* What holds of a session whoever has the page.                           *)
Aged ==
  \A s \in Sessions :
    /\ s > starts => at[s] = "none"
    /\ socket[s] = "connecting" => at[s] = "connect"
    /\ stops[s] > 0 \/ s \in running => at[s] = "done"
    /\ s \in waiting => at[s] = "await"

Inv == TypeOK /\ PlayersSound /\ Aged /\ Owned

LEMMA Bounds == MaxStarts \in Nat /\ MaxChunks \in Nat /\ MaxStops \in Nat
  BY ClientAssumption

LEMMA InitInv == Init => Inv
<1> SUFFICES ASSUME Init PROVE Inv
  OBVIOUS
<1>1. PlayersSound
  BY NewSound DEF Init, PlayersSound
<1>2. TypeOK
  <2>1. canStart \in BOOLEAN /\ canStop \in BOOLEAN /\ mic \in BOOLEAN /\ struck \in BOOLEAN
    BY DEF Init
  <2>2. current \in 0..MaxStarts /\ starts \in 0..MaxStarts
    BY Bounds DEF Init
  <2>3. phase \in {"none", "queuing", "assigned"}
    BY DEF Init
  <2>4. /\ at \in [Sessions -> {"none", "connect", "await", "media", "done"}]
        /\ socket \in [Sessions -> {"null", "connecting", "open", "shut"}]
    BY DEF Init
  <2>5. stops \in [Sessions -> 0..MaxStops]
    BY Bounds DEF Init
  <2>6. player \in [Sessions -> Players]
    BY NewSound DEF Init, Sound
  <2>7. waiting = {} /\ running = {} /\ forced = {} /\ deaf = {}
    BY DEF Init
  <2> QED  BY <2>1, <2>2, <2>3, <2>4, <2>5, <2>6, <2>7 DEF TypeOK
<1>3. Owned
  BY NewSound DEF Init, Owned, Past, AtRest
<1>4. Aged
  BY DEF Init, Aged
<1> QED  BY <1>1, <1>2, <1>3, <1>4 DEF Inv

-----------------------------------------------------------------------------
(* Players.                                                                *)

LEMMA OnePlayer ==
  ASSUME player \in [Sessions -> Players], PlayersSound,
         NEW s \in Sessions, NEW q, Sound(q),
         player' = [player EXCEPT ![s] = q]
  PROVE  player' \in [Sessions -> Players] /\ PlayersSound'
  BY DEF PlayersSound, Sound

LEMMA CleanupPlayers ==
  ASSUME player \in [Sessions -> Players], PlayersSound, NEW s \in Sessions, Cleanup(s)
  PROVE  player' \in [Sessions -> Players] /\ PlayersSound'
<1>1. Sound(Stopped(player[s]))
  BY StoppedSound DEF PlayersSound
<1>2. player' = [player EXCEPT ![s] = Stopped(player[s])]
  BY DEF Cleanup
<1> QED  BY <1>1, <1>2, OnePlayer

LEMMA StartFailsPlayers ==
  ASSUME player \in [Sessions -> Players], PlayersSound, NEW s \in Sessions, StartFails(s)
  PROVE  player' \in [Sessions -> Players] /\ PlayersSound'
<1>1. \A c \in Sessions : Sound(Stopped(player[c])) /\ Sound(player[c])
  BY StoppedSound DEF PlayersSound
<1>2. player' = [c \in Sessions |-> IF c = current THEN Stopped(player[c]) ELSE player[c]]
  BY DEF StartFails
<1>3. \A c \in Sessions : Sound(player'[c])
  BY <1>1, <1>2
<1> QED  BY <1>2, <1>3 DEF PlayersSound, Sound

LEMMA PlayersStep ==
  ASSUME TypeOK, PlayersSound, Next
  PROVE  player' \in [Sessions -> Players] /\ PlayersSound'
<1> USE Bounds
<1>0. /\ player \in [Sessions -> Players]
      /\ running \subseteq Sessions
      /\ current # 0 => current \in Sessions
  BY DEF TypeOK, Sessions
<1>1. CASE UNCHANGED player
  BY <1>0, <1>1 DEF PlayersSound
<1>2. CASE ForceToggle
  <2>1. /\ current \in Sessions
        /\ \/ player' = [player EXCEPT ![current] = TurnEnded(Hushed(player[current]))]
           \/ player' = [player EXCEPT ![current] = TurnEnded(player[current])]
    BY <1>0, <1>2 DEF ForceToggle
  <2>2. Sound(player[current])
    BY <2>1 DEF PlayersSound
  <2>3. Sound(TurnEnded(Hushed(player[current]))) /\ Sound(TurnEnded(player[current]))
    BY <2>2, HushedSound, TurnEndedSound
  <2> QED  BY <1>0, <2>1, <2>3, OnePlayer
<1>3. CASE StopClick
  BY <1>0, <1>3, CleanupPlayers DEF StopClick
<1>4. ASSUME NEW s \in Sessions,
             StartFails(s) \/ Cleanup(s)
      PROVE  player' \in [Sessions -> Players] /\ PlayersSound'
  BY <1>0, <1>4, CleanupPlayers, StartFailsPlayers
<1>5. ASSUME NEW s \in Sessions, MediaReady(s), ~StartFails(s)
      PROVE  player' \in [Sessions -> Players] /\ PlayersSound'
  <2>1. player' = [player EXCEPT ![s] = Prepared(player[s])]
    BY <1>5 DEF MediaReady
  <2>2. Sound(Prepared(player[s]))
    BY PreparedSound DEF PlayersSound
  <2> QED  BY <1>0, <2>1, <2>2, OnePlayer
<1>6. ASSUME NEW s \in Sessions, Listen(s)
      PROVE  player' \in [Sessions -> Players] /\ PlayersSound'
  <2>1. player' = [player EXCEPT ![s] = TurnEnded(player[s])]
    BY <1>6 DEF Listen
  <2>2. Sound(TurnEnded(player[s]))
    BY TurnEndedSound DEF PlayersSound
  <2> QED  BY <1>0, <2>1, <2>2, OnePlayer
<1>7. ASSUME NEW s \in Sessions, Speak(s)
      PROVE  player' \in [Sessions -> Players] /\ PlayersSound'
  <2>1. player' = [player EXCEPT ![s] = ChunkPlayed(TurnBegun(player[s]))]
    BY <1>7 DEF Speak
  <2>2. Sound(ChunkPlayed(TurnBegun(player[s])))
    BY TurnBegunSound, ChunkPlayedSound DEF PlayersSound
  <2> QED  BY <1>0, <2>1, <2>2, OnePlayer
<1>8. ASSUME NEW s \in Sessions, DelayEnds(s)
      PROVE  player' \in [Sessions -> Players] /\ PlayersSound'
  <2>1. player' = [player EXCEPT ![s] = DelayOver(player[s])]
    BY <1>8 DEF DelayEnds
  <2>2. Sound(DelayOver(player[s]))
    BY DelayOverSound DEF PlayersSound
  <2> QED  BY <1>0, <2>1, <2>2, OnePlayer
<1>9. ASSUME NEW s \in Sessions, ChunkEnds(s)
      PROVE  player' \in [Sessions -> Players] /\ PlayersSound'
  <2>1. player' = [player EXCEPT ![s] = SourceOver(player[s])]
    BY <1>9 DEF ChunkEnds
  <2>2. Sound(SourceOver(player[s]))
    BY <1>9, SourceOverSound DEF PlayersSound, ChunkEnds
  <2> QED  BY <1>0, <2>1, <2>2, OnePlayer
<1>10. ASSUME NEW s \in Sessions,
              \/ Opened(s) \/ Queued(s) \/ QueueDone(s) \/ Created(s) \/ ServerError(s)
              \/ MediaFails(s) \/ SocketCloses(s) \/ Closed(s) \/ StopOnLimit(s),
              ~StartFails(s), ~Cleanup(s)
       PROVE  UNCHANGED player
  BY <1>10 DEF Opened, Queued, QueueDone, Created, ServerError, MediaFails, SocketCloses,
               Closed, StopOnLimit
<1>11. CASE Start
  BY <1>1, <1>11 DEF Start
<1> QED
  BY <1>1, <1>2, <1>3, <1>4, <1>5, <1>6, <1>7, <1>8, <1>9, <1>10, <1>11 DEF Next

-----------------------------------------------------------------------------
(* Types.                                                                  *)

LEMMA PageOverTypes ==
  ASSUME TypeOK, NEW s \in Sessions, PageOver(s)
  PROVE  /\ current' \in 0..MaxStarts /\ phase' \in {"none", "queuing", "assigned"}
         /\ canStart' \in BOOLEAN /\ canStop' \in BOOLEAN /\ mic' \in BOOLEAN
         /\ struck' \in BOOLEAN
<1>1. current' \in 0..MaxStarts
  BY Bounds DEF PageOver
<1>2. phase' \in {"none", "queuing", "assigned"}
  BY DEF PageOver
<1>3. canStart' \in BOOLEAN /\ canStop' \in BOOLEAN /\ mic' \in BOOLEAN /\ struck' \in BOOLEAN
  BY DEF PageOver
<1> QED  BY <1>1, <1>2, <1>3

LEMMA CleanupTypes ==
  ASSUME TypeOK, NEW s \in Sessions, Cleanup(s), player' \in [Sessions -> Players],
         at' \in [Sessions -> {"none", "connect", "await", "media", "done"}],
         waiting' \subseteq Sessions, stops' \in [Sessions -> 0..MaxStops],
         UNCHANGED <<starts, deaf>>
  PROVE  TypeOK'
<1>1. /\ socket' \in [Sessions -> {"null", "connecting", "open", "shut"}]
      /\ running' \subseteq Sessions /\ forced' \subseteq Sessions
  BY DEF TypeOK, Cleanup
<1>2. PageOver(s)
  BY DEF Cleanup
<1> QED  BY <1>1, <1>2, PageOverTypes DEF TypeOK

LEMMA StartFailsTypes ==
  ASSUME TypeOK, NEW s \in Sessions, StartFails(s), player' \in [Sessions -> Players]
  PROVE  TypeOK'
<1>1. /\ socket' \in [Sessions -> {"null", "connecting", "open", "shut"}]
      /\ at' \in [Sessions -> {"none", "connect", "await", "media", "done"}]
      /\ running' \subseteq Sessions /\ forced' \subseteq Sessions /\ waiting' \subseteq Sessions
      /\ UNCHANGED <<starts, stops, deaf>>
  BY DEF TypeOK, StartFails
<1>2. UNCHANGED pageVars \/ PageOver(s)
  BY DEF StartFails
<1> QED  BY <1>1, <1>2, PageOverTypes DEF TypeOK, pageVars

LEMMA TypeStep ==
  ASSUME TypeOK, Next, player' \in [Sessions -> Players]
  PROVE  TypeOK'
<1> USE Bounds
<1>1. CASE Start
  BY <1>1 DEF Start, TypeOK, Sessions
<1>2. CASE ForceToggle
  BY <1>2 DEF ForceToggle, TypeOK, pageVars
<1>3. CASE StopClick
  <2>0. current \in Sessions
    BY <1>3, Bounds DEF StopClick, TypeOK, Sessions
  <2>1. /\ Cleanup(current)
        /\ at' \in [Sessions -> {"none", "connect", "await", "media", "done"}]
        /\ waiting' \subseteq Sessions /\ stops' \in [Sessions -> 0..MaxStops]
        /\ UNCHANGED <<starts, deaf>>
    BY <1>3 DEF StopClick, TypeOK
  <2> QED  BY <2>0, <2>1, CleanupTypes
<1>4. ASSUME NEW s \in Sessions, StartFails(s)
      PROVE  TypeOK'
  BY <1>4, StartFailsTypes
<1>5. ASSUME NEW s \in Sessions, Cleanup(s),
             Closed(s) \/ StopOnLimit(s) \/ SocketCloses(s)
      PROVE  TypeOK'
  <2>1. /\ at' \in [Sessions -> {"none", "connect", "await", "media", "done"}]
        /\ waiting' \subseteq Sessions /\ stops' \in [Sessions -> 0..MaxStops]
        /\ UNCHANGED <<starts, deaf>>
    <3>1. CASE Closed(s)
      BY <3>1 DEF Closed, TypeOK
    <3>2. CASE StopOnLimit(s)
      BY <3>2 DEF StopOnLimit, TypeOK
    <3>3. CASE SocketCloses(s)
      <4>1. socket'[s] = "null"
        BY <1>5 DEF Cleanup, TypeOK
      <4>2. ~(socket' = [socket EXCEPT ![s] = "shut"])
        BY <4>1 DEF TypeOK
      <4>3. CASE StartFails(s)
        BY <4>3 DEF StartFails, TypeOK
      <4> QED  BY <3>3, <4>2, <4>3 DEF SocketCloses, TypeOK
    <3> QED  BY <1>5, <3>1, <3>2, <3>3
  <2> QED  BY <1>5, <2>1, CleanupTypes
<1>6. ASSUME NEW s \in Sessions, ~StartFails(s),
             \/ Opened(s) \/ Queued(s) \/ QueueDone(s) \/ Created(s)
             \/ SocketCloses(s) /\ ~Cleanup(s)
      PROVE  TypeOK'
  BY <1>6 DEF Opened, Queued, QueueDone, Created, SocketCloses, TypeOK, pageVars
<1>7. ASSUME NEW s \in Sessions, MediaReady(s), ~StartFails(s)
      PROVE  TypeOK'
  BY <1>7 DEF MediaReady, TypeOK
<1>8. ASSUME NEW s \in Sessions, Listen(s) \/ Speak(s)
      PROVE  TypeOK'
  <2>1. stops' \in [Sessions -> 0..MaxStops]
    BY <1>8 DEF Listen, Speak, MayScheduleStop, TypeOK
  <2> QED  BY <1>8, <2>1 DEF Listen, Speak, TypeOK, pageVars
<1>9. ASSUME NEW s \in Sessions, DelayEnds(s) \/ ChunkEnds(s)
      PROVE  TypeOK'
  BY <1>9 DEF DelayEnds, ChunkEnds, TypeOK, pageVars
<1>10. ASSUME NEW s \in Sessions, ServerError(s) \/ MediaFails(s)
       PROVE  StartFails(s)
  BY <1>10 DEF ServerError, MediaFails
<1>11. ASSUME NEW s \in Sessions, Closed(s) \/ StopOnLimit(s)
       PROVE  Cleanup(s)
  BY <1>11 DEF Closed, StopOnLimit
<1> QED
  BY <1>1, <1>2, <1>3, <1>4, <1>5, <1>6, <1>7, <1>8, <1>9, <1>10, <1>11 DEF Next

-----------------------------------------------------------------------------
(* How far a session is.                                                   *)

LEMMA CleanupAged ==
  ASSUME TypeOK, Aged, NEW s \in Sessions, Cleanup(s), starts' = starts,
         \A c \in Sessions : at'[c] = at[c] \/ (at[c] = "await" /\ at'[c] = "done"),
         \A c \in Sessions : stops'[c] > 0 => stops[c] > 0,
         \A c \in Sessions : c \in waiting' => c \in waiting /\ at'[c] = at[c]
  PROVE  Aged'
  BY DEF Aged, Cleanup, TypeOK

LEMMA StartFailsAged ==
  ASSUME TypeOK, Aged, NEW s \in Sessions, StartFails(s), at[s] # "none"
  PROVE  Aged'
  BY DEF Aged, StartFails, TypeOK

LEMMA AgedStep ==
  ASSUME TypeOK, Aged, Next
  PROVE  Aged'
<1> USE Bounds
<1>1. CASE Start
  BY <1>1 DEF Start, TypeOK, Aged, Sessions
<1>2. CASE ForceToggle
  BY <1>2 DEF ForceToggle, TypeOK, Aged
<1>3. CASE StopClick
  <2>1. current \in Sessions /\ Cleanup(current) /\ starts' = starts /\ stops' = stops
    BY <1>3 DEF StopClick, TypeOK, Sessions
  <2>2. CASE UNCHANGED <<at, waiting>>
    BY <2>1, <2>2, CleanupAged
  <2>3. CASE /\ current \in waiting /\ waiting' = waiting \ {current}
             /\ at' = [at EXCEPT ![current] = "done"]
    BY <2>1, <2>3 DEF Aged, Cleanup, TypeOK
  <2> QED  BY <1>3, <2>2, <2>3 DEF StopClick
<1>4. ASSUME NEW s \in Sessions, StartFails(s), at[s] # "none"
      PROVE  Aged'
  BY <1>4, StartFailsAged
<1>5. ASSUME NEW s \in Sessions, Cleanup(s), UNCHANGED <<starts, at, waiting, stops>>
      PROVE  Aged'
  BY <1>5, CleanupAged
<1>6. ASSUME NEW s \in Sessions, StopOnLimit(s)
      PROVE  Aged'
  <2>1. \A c \in Sessions : stops'[c] > 0 => stops[c] > 0
    BY <1>6 DEF StopOnLimit, TypeOK
  <2> QED  BY <1>6, <2>1, CleanupAged DEF StopOnLimit
<1>7. ASSUME NEW s \in Sessions, Opened(s)
      PROVE  Aged'
  BY <1>7 DEF Opened, TypeOK, Aged
<1>8. ASSUME NEW s \in Sessions, Queued(s) \/ QueueDone(s)
      PROVE  Aged'
  BY <1>8 DEF Queued, QueueDone, TypeOK, Aged
<1>9. ASSUME NEW s \in Sessions, Created(s)
      PROVE  Aged'
  <2>1. at[s] = "await"
    BY <1>9 DEF Created
  <2>2. CASE StartFails(s)
    BY <2>1, <2>2, StartFailsAged
  <2>3. CASE ~StartFails(s)
    BY <1>9, <2>3 DEF Created, TypeOK, Aged
  <2> QED  BY <2>2, <2>3
<1>10. ASSUME NEW s \in Sessions, ServerError(s) \/ MediaFails(s)
       PROVE  Aged'
  BY <1>4, <1>10 DEF ServerError, MediaFails
<1>11. ASSUME NEW s \in Sessions, MediaReady(s)
       PROVE  Aged'
  <2>1. at[s] = "media"
    BY <1>11 DEF MediaReady
  <2>2. CASE StartFails(s)
    BY <2>1, <2>2, StartFailsAged
  <2>3. CASE ~StartFails(s)
    BY <1>11, <2>3 DEF MediaReady, TypeOK, Aged
  <2> QED  BY <2>2, <2>3
<1>12. ASSUME NEW s \in Sessions, SocketCloses(s)
       PROVE  Aged'
  <2>1. CASE socket[s] = "connecting" /\ StartFails(s)
    BY <2>1, StartFailsAged DEF Aged
  <2>2. CASE Cleanup(s) /\ UNCHANGED <<starts, at, waiting, stops>>
    BY <2>2, <1>5
  <2>3. CASE socket' = [socket EXCEPT ![s] = "shut"] 
                /\ UNCHANGED <<starts, at, waiting, running, stops>>
    BY <2>3 DEF TypeOK, Aged
  <2> QED  BY <1>12, <2>1, <2>2, <2>3 DEF SocketCloses
<1>13. ASSUME NEW s \in Sessions, Listen(s) \/ Speak(s)
       PROVE  Aged'
  BY <1>13 DEF Listen, Speak, MayScheduleStop, TypeOK, Aged
<1>14. ASSUME NEW s \in Sessions, Closed(s)
       PROVE  Aged'
  BY <1>5, <1>14 DEF Closed
<1>15. ASSUME NEW s \in Sessions, DelayEnds(s) \/ ChunkEnds(s)
       PROVE  Aged'
  BY <1>15 DEF DelayEnds, ChunkEnds, TypeOK, Aged
<1> QED
  BY <1>1, <1>2, <1>3, <1>6, <1>7, <1>8, <1>9, <1>10, <1>11, <1>12, <1>13, <1>14, <1>15 DEF Next

-----------------------------------------------------------------------------
(* Whose the page is.                                                      *)

LEMMA Mine ==
  ASSUME Owned, ~struck, NEW s \in Sessions, ~Past(s)
  PROVE  s = current /\ current # 0 /\ Present(s)
  BY Bounds DEF Owned, Sessions

(* An end that takes the page from no other session leaves it at rest and  *)
(* every session Past.                                                     *)
LEMMA CleanupOwned ==
  ASSUME TypeOK, PlayersSound, Owned, NEW s \in Sessions, Cleanup(s), ~struck',
         at'[s] \in {"none", "done"}, s \notin waiting',
         \A c \in Sessions : c # s => at'[c] = at[c] /\ (c \in waiting' => c \in waiting)
  PROVE  Owned'
<1>1. ~struck /\ current \in {0, s}
  BY DEF Cleanup, PageOver
<1>2. current' = 0 /\ AtRest'
  BY DEF Cleanup, PageOver, AtRest
<1>3. Past(s)'
  <2>1. Quiet(player'[s])
    BY StoppedSound DEF Cleanup, TypeOK, PlayersSound
  <2>2. socket'[s] = "null" /\ s \notin running'
    BY DEF Cleanup, TypeOK
  <2> QED  BY <2>1, <2>2 DEF Past
<1>4. ASSUME NEW c \in Sessions, c # s
      PROVE  Past(c)'
  <2>1. Past(c)
    BY <1>1, <1>4, Bounds DEF Owned, Sessions
  <2>2. player'[c] = player[c] /\ socket'[c] = socket[c] /\ (c \in running' => c \in running)
    BY <1>4 DEF Cleanup, TypeOK
  <2> QED  BY <1>4, <2>1, <2>2 DEF Past, Quiet
<1> QED  BY <1>2, <1>3, <1>4 DEF Owned

LEMMA StartFailsOwned ==
  ASSUME TypeOK, PlayersSound, Owned, NEW s \in Sessions, StartFails(s), ~struck', ~Past(s)
  PROVE  Owned'
<1>1. ~struck
  BY DEF StartFails, PageOver, pageVars
<1>2. s = current /\ current # 0
  BY <1>1, Mine
<1>3. current' = 0 /\ AtRest'
  BY <1>2 DEF StartFails, PageOver, AtRest
<1>4. Past(s)'
  <2>1. Quiet(player'[s])
    BY <1>2, StoppedSound DEF StartFails, PlayersSound
  <2>2. socket'[s] = "null" /\ s \notin running' /\ at'[s] = "done" /\ s \notin waiting'
    BY DEF StartFails, TypeOK
  <2> QED  BY <2>1, <2>2 DEF Past
<1>5. ASSUME NEW c \in Sessions, c # s
      PROVE  Past(c)'
  <2>1. Past(c)
    BY <1>1, <1>2, <1>5 DEF Owned
  <2>2. /\ player'[c] = player[c] /\ socket'[c] = socket[c] /\ at'[c] = at[c]
        /\ (c \in running' => c \in running) /\ (c \in waiting' => c \in waiting)
    BY <1>2, <1>5 DEF StartFails, TypeOK
  <2> QED  BY <2>1, <2>2 DEF Past, Quiet
<1> QED  BY <1>3, <1>4, <1>5 DEF Owned

(* A step of the page's own session that leaves it Present.                *)
LEMMA StaysOwned ==
  ASSUME TypeOK, Owned, ~struck, NEW s \in Sessions, s = current, current' = current,
         Present(s)',
         \A c \in Sessions : c # s =>
           /\ at'[c] = at[c] /\ socket'[c] = socket[c] /\ player'[c] = player[c]
           /\ (c \in waiting' => c \in waiting) /\ (c \in running' => c \in running)
  PROVE  Owned'
<1>1. current # 0
  BY Bounds DEF Sessions
<1>2. ASSUME NEW c \in Sessions, c # s
      PROVE  Past(c)'
  BY <1>1, <1>2 DEF Owned, Past, Quiet
<1>3. Present(current)'
  OBVIOUS
<1> QED  BY <1>1, <1>2, <1>3 DEF Owned

LEMMA OwnedStep ==
  ASSUME TypeOK, PlayersSound, Aged, Owned, Next
  PROVE  Owned'
<1> SUFFICES ASSUME ~struck' PROVE Owned'
  BY DEF Owned
<1>0. current # 0 => current \in Sessions
  BY Bounds DEF TypeOK, Sessions
<1>1. CASE Start
  <2>1. ~struck /\ current = 0 /\ AtRest /\ \A c \in Sessions : Past(c)
    BY <1>1, Bounds DEF Start, Owned, Sessions
  <2>2. /\ current' \in Sessions /\ current' # 0
        /\ at' = [at EXCEPT ![current'] = "connect"]
        /\ socket' = [socket EXCEPT ![current'] = "connecting"]
    BY <1>1, Bounds DEF Start, TypeOK, Sessions
  <2>3. Connecting(current)'
    BY <1>1, <2>1, <2>2 DEF Start, Connecting, AtRest, Past, TypeOK
  <2>4. socket'[current'] # "shut"
    BY <2>2 DEF TypeOK
  <2>5. ASSUME NEW c \in Sessions, c # current'
        PROVE  Past(c)'
    BY <1>1, <2>1, <2>2, <2>5 DEF Start, Past, TypeOK, Quiet
  <2> QED  BY <2>2, <2>3, <2>4, <2>5 DEF Owned, Present
<1>2. CASE ForceToggle
  <2>1. /\ ~struck /\ current \in Sessions /\ Present(current)
    BY <1>0, <1>2, Mine DEF ForceToggle, pageVars, TypeOK, Past
  <2>2. Present(current)'
    BY <1>2, <2>1 DEF ForceToggle, pageVars, Present, Connecting, Queueing, Preparing, Running
  <2>3. \A c \in Sessions : c # current => player'[c] = player[c]
    BY <1>2 DEF ForceToggle, TypeOK
  <2> QED  BY <1>2, <2>1, <2>2, <2>3, StaysOwned DEF ForceToggle, pageVars
<1>3. CASE StopClick
  <2>1. ~struck /\ current \in Sessions /\ current # 0
    BY <1>0, <1>3 DEF StopClick, Cleanup, PageOver
  <2>2. (Queueing(current) /\ phase = "queuing") \/ Running(current)
    BY <1>3, <2>1 DEF StopClick, Owned, Present, Connecting, Queueing, Preparing
  <2>3. /\ at'[current] \in {"none", "done"} /\ current \notin waiting'
        /\ \A c \in Sessions : c # current => at'[c] = at[c] /\ (c \in waiting' => c \in waiting)
    BY <1>3, <2>1, <2>2 DEF StopClick, Queueing, Running, TypeOK
  <2> QED  BY <1>3, <2>1, <2>3, CleanupOwned DEF StopClick
<1>4. ASSUME NEW s \in Sessions, ~struck, ~Past(s)
      PROVE  /\ s = current /\ Present(s)
  BY <1>4, Mine
<1>5. ASSUME NEW s \in Sessions, Opened(s)
      PROVE  Owned'
  <2>1. ~struck /\ ~Past(s)
    BY <1>5 DEF Opened, pageVars, Past
  <2>2. s = current /\ Connecting(s)
    BY <1>4, <1>5, <2>1 DEF Opened, Present, Queueing, Preparing, Running
  <2>3. Queueing(s)' /\ socket'[s] # "shut"
    BY <1>5, <2>2 DEF Opened, Connecting, Queueing, TypeOK, pageVars
  <2> QED
    BY <1>5, <2>1, <2>2, <2>3, StaysOwned DEF Opened, pageVars, TypeOK, Present
<1>6. ASSUME NEW s \in Sessions, Queued(s) \/ QueueDone(s)
      PROVE  Owned'
  <2>1. ~struck /\ ~Past(s)
    BY <1>6 DEF Queued, QueueDone, Past
  <2>2. s = current /\ Queueing(s)
    BY <1>4, <1>6, <2>1 DEF Queued, QueueDone, Present, Connecting, Preparing, Running
  <2>3. CASE Queued(s)
    <3>1. Queueing(s)' /\ socket'[s] # "shut"
      BY <2>2, <2>3 DEF Queued, Queueing
    <3> QED  BY <2>1, <2>2, <2>3, <3>1, StaysOwned DEF Queued, Present
  <2>4. CASE QueueDone(s)
    <3>1. Preparing(s)' /\ socket'[s] # "shut"
      BY <2>2, <2>4 DEF QueueDone, Queueing, Preparing
    <3> QED  BY <2>1, <2>2, <2>4, <3>1, StaysOwned DEF QueueDone, Present
  <2> QED  BY <1>6, <2>3, <2>4
<1>7. ASSUME NEW s \in Sessions, StartFails(s), ~Past(s)
      PROVE  Owned'
  BY <1>7, StartFailsOwned
<1>8. ASSUME NEW s \in Sessions, Created(s), ~StartFails(s)
      PROVE  Owned'
  <2>1. ~struck /\ ~Past(s)
    BY <1>8 DEF Created, pageVars, Past
  <2>2. s = current /\ Preparing(s)
    BY <1>4, <1>8, <2>1 DEF Created, Present, Connecting, Queueing, Running
  <2>3. Preparing(s)' /\ socket'[s] # "shut"
    BY <1>8, <2>2 DEF Created, Preparing, TypeOK, pageVars
  <2> QED
    BY <1>8, <2>1, <2>2, <2>3, StaysOwned DEF Created, pageVars, TypeOK, Present
<1>9. ASSUME NEW s \in Sessions, MediaReady(s), ~StartFails(s)
      PROVE  Owned'
  <2>1. ~struck /\ ~Past(s)
    BY <1>9 DEF MediaReady, Past
  <2>2. s = current /\ Present(s) /\ Preparing(s)
    BY <1>4, <1>9, <2>1 DEF MediaReady, Present, Connecting, Queueing, Running
  <2>3. socket[s] # "null"
    BY <2>2 DEF Preparing
  <2>4. Running(s)' /\ (socket'[s] = "shut" => s \in deaf')
    BY <1>9, <2>2, <2>3 DEF MediaReady, Preparing, Running, Present, TypeOK
  <2> QED
    BY <1>9, <2>1, <2>2, <2>3, <2>4, StaysOwned DEF MediaReady, TypeOK, Present
<1>10. ASSUME NEW s \in Sessions, SocketCloses(s)
       PROVE  Owned'
  <2>1. CASE socket[s] = "connecting" /\ StartFails(s)
    BY <1>7, <2>1 DEF Past
  <2>2. CASE /\ socket[s] = "open" /\ at[s] \in {"await", "media"}
             /\ socket' = [socket EXCEPT ![s] = "shut"]
             /\ deaf' = deaf \cup {s}
             /\ UNCHANGED <<pageVars, starts, at, waiting, running, forced, stops, player>>
    <3>1. ~struck /\ ~Past(s)
      BY <2>2 DEF pageVars, Past
    <3>2. s = current /\ Present(s)
      BY <1>4, <3>1
    <3>3. Queueing(s) \/ Preparing(s)
      BY <2>2, <3>2 DEF Present, Connecting, Running
    <3>4. /\ (Queueing(s) => Queueing(s)') /\ (Preparing(s) => Preparing(s)')
          /\ s \in deaf'
      BY <2>2 DEF Queueing, Preparing, TypeOK, pageVars
    <3> QED  BY <2>2, <3>1, <3>2, <3>3, <3>4, StaysOwned DEF pageVars, TypeOK, Present
  <2>3. CASE s \in running /\ Cleanup(s) /\ UNCHANGED <<starts, at, waiting, stops, deaf>>
    <3>1. at[s] = "done" /\ s \notin waiting
      BY <2>3 DEF Aged
    <3> QED  BY <2>3, <3>1, CleanupOwned
  <2> QED  BY <1>10, <2>1, <2>2, <2>3 DEF SocketCloses
<1>11. ASSUME NEW s \in Sessions, Closed(s) \/ StopOnLimit(s)
       PROVE  Owned'
  <2>1. Cleanup(s) /\ UNCHANGED <<at, waiting>>
    BY <1>11 DEF Closed, StopOnLimit
  <2>2. at[s] = "done" /\ s \notin waiting
    BY <1>11 DEF Closed, StopOnLimit, Aged
  <2> QED  BY <2>1, <2>2, CleanupOwned
<1>12. ASSUME NEW s \in Sessions, ~Past(s),
              UNCHANGED <<pageVars, starts, at, socket, waiting, running, forced, deaf>>,
              \A c \in Sessions : c # s => player'[c] = player[c]
       PROVE  Owned'
  <2>1. ~struck
    BY <1>12 DEF pageVars
  <2>2. s = current /\ Present(s)
    BY <1>4, <1>12, <2>1
  <2>3. Present(s)'
    BY <1>12, <2>2 DEF Present, Connecting, Queueing, Preparing, Running, pageVars
  <2> QED  BY <1>12, <2>1, <2>2, <2>3, StaysOwned DEF pageVars
<1>13. ASSUME NEW s \in Sessions, Listen(s) \/ Speak(s)
       PROVE  Owned'
  <2>1. ~Past(s)
    BY <1>13 DEF Listen, Speak, Past
  <2>2. /\ UNCHANGED <<pageVars, starts, at, socket, waiting, running, forced, deaf>>
        /\ \A c \in Sessions : c # s => player'[c] = player[c]
    BY <1>13 DEF Listen, Speak, TypeOK
  <2> QED  BY <1>12, <2>1, <2>2
<1>14. ASSUME NEW s \in Sessions, DelayEnds(s) \/ ChunkEnds(s)
       PROVE  Owned'
  <2>1. ~Past(s)
    BY <1>14 DEF DelayEnds, ChunkEnds, Past, Quiet
  <2>2. /\ UNCHANGED <<pageVars, starts, at, socket, waiting, running, forced, deaf>>
        /\ \A c \in Sessions : c # s => player'[c] = player[c]
    BY <1>14 DEF DelayEnds, ChunkEnds, TypeOK
  <2> QED  BY <1>12, <2>1, <2>2
<1>15. ASSUME NEW s \in Sessions,
              Created(s) \/ ServerError(s) \/ MediaFails(s) \/ MediaReady(s)
       PROVE  ~Past(s)
  BY <1>15 DEF Created, ServerError, MediaFails, MediaReady, Past
<1>16. ASSUME NEW s \in Sessions, ServerError(s) \/ MediaFails(s)
       PROVE  StartFails(s)
  BY <1>16 DEF ServerError, MediaFails
<1> QED
  BY <1>1, <1>2, <1>3, <1>5, <1>6, <1>7, <1>8, <1>9, <1>10, <1>11, <1>13, <1>14, <1>15, <1>16
  DEF Next

-----------------------------------------------------------------------------
(* The theorems.                                                           *)

LEMMA Inductive == Inv /\ [Next]_vars => Inv'
<1>1. ASSUME Inv, Next PROVE Inv'
  BY <1>1, PlayersStep, TypeStep, AgedStep, OwnedStep DEF Inv
<1>2. ASSUME Inv, UNCHANGED vars PROVE Inv'
  BY <1>2 DEF Inv, vars, pageVars, TypeOK, PlayersSound, Aged, Owned, Past, AtRest, Present,
              Connecting, Queueing, Preparing, Running, Quiet
<1> QED  BY <1>1, <1>2

LEMMA Invariance == Spec => []Inv
<1>1. Inv /\ [Next]_vars => Inv'
  BY Inductive
<1> QED  BY <1>1, InitInv, PTL DEF Spec

(* The state of page and library is of the declared types, the sequences   *)
(* and numbers of every player included.                                   *)
THEOREM Types == Spec => []TypeOK
<1>1. Inv => TypeOK
  BY DEF Inv
<1> QED  BY <1>1, Invariance, PTL

(* The chunks of the voice are played once and in order, and none waits    *)
(* without a timer, whatever the delay and however playback is cut.        *)
THEOREM VoicePlaysInOrder == Spec => []VoiceInOrder
<1>1. Inv => VoiceInOrder
  BY DEF Inv, PlayersSound, Sound, VoiceInOrder
<1> QED  BY <1>1, Invariance, PTL

(* A page without a session is as it was at the beginning, however and in  *)
(* whichever of its stages the last session ended.                         *)
THEOREM NothingOutlives == Spec => []OverIsOver
<1>1. Inv => OverIsOver
  <2> SUFFICES ASSUME Inv, current = 0, ~struck
               PROVE  /\ ~mic /\ canStart /\ ~canStop
                      /\ \A s \in Sessions : socket[s] = "null" /\ s \notin running /\ Silent(s)
    BY DEF OverIsOver
  <2>1. AtRest /\ \A s \in Sessions : Past(s)
    BY Bounds DEF Inv, Owned, Sessions
  <2> QED  BY <2>1 DEF AtRest, Past, Quiet, Silent
<1> QED  BY <1>1, Invariance, PTL

(* Stop is there in the queue and while a session runs, and a start that   *)
(* goes on without it stands on a live socket or on one shut behind it.    *)
THEOREM AlwaysAWayOut == Spec => []WayOut
<1>1. Inv => WayOut
  BY DEF Inv, Owned, WayOut, Present, Connecting, Queueing, Preparing, Running
<1> QED  BY <1>1, Invariance, PTL
=============================================================================
