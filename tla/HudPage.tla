------------------------------- MODULE HudPage -------------------------------
(***************************************************************************)
(* The page that runs a call at the booking desk (static/hud/hud-app.js)   *)
(* and the gateway's record of the request.  The page is one thread: an    *)
(* action is what runs between two awaits, or what one request does in the *)
(* gateway.  Three things go on at once: the customer's lines, heard by an *)
(* extractor one at a time; the operator's turns, judged by sigma while    *)
(* they last and when they end; and the silence after a line, judged if it *)
(* lasts.  Answers of the models are inputs.                               *)
(*                                                                         *)
(* Timers, caps and sigmaBusy, which restrict when sigma is asked, are     *)
(* left out: it may be asked whenever they could allow it.  So is what     *)
(* becomes of an answer on the page but its copy of the record (the        *)
(* screen, the forced turn), and the early decision at a pause, which only *)
(* starts the extractor's request sooner.                                  *)
(***************************************************************************)
EXTENDS HudLight, Sequences

CONSTANTS
  Calls,      \* verdicts of sigma that can be under way at once
  MaxWaiting, \* lines that wait for the extractor (2 in the code)
  MaxLines,   \* bound of the model: lines of the customer
  None

ASSUME HudPageAssumption ==
  /\ MaxWaiting \in Nat \ {0}
  /\ MaxLines \in Nat

VARIABLES
  fsm,       \* the gateway's record
  shown,     \* hud.fsm, the page's copy: what tells records apart
  spoken,    \* lines the customer has finished
  hand,      \* toolBusy: the line in hand, or 0
  pending,   \* pendingTurns
  open,      \* omniTurnOpen
  call,      \* the verdicts under way
  cut        \* cutVerdict: the record it saw, or None

lineVars == <<spoken, hand, pending>>
omniVars == <<open, call, cut>>
hudVars == <<fsm, shown, lineVars, omniVars>>

(* What the page keeps of a record.                                        *)
Seen(f) == [form |-> f.form, seq |-> f.seq, age |-> f.age, era |-> f.era]

HudInit ==
  /\ fsm = Fresh /\ shown = Seen(Fresh)
  /\ spoken = 0 /\ hand = 0 /\ pending = <<>>
  /\ open = FALSE /\ call = [c \in Calls |-> None] /\ cut = None

-----------------------------------------------------------------------------
(* The customer's lines.                                                   *)

(* Mutant: with as many lines pending as may, a new one is not queued      *)
LineEndsUnheard ==
  /\ spoken < MaxLines
  /\ spoken' = spoken + 1
  /\ IF hand = 0
     THEN hand' = spoken' /\ UNCHANGED pending
     ELSE /\ pending' = IF Len(pending) = MaxWaiting THEN pending ELSE Append(pending, spoken')
          /\ UNCHANGED hand
  /\ UNCHANGED <<fsm, shown, omniVars>>

(* onUserTurnEnd: a line that finds the extractor busy waits, and pushes   *)
(* the oldest out when there are too many.                                 *)
LineEnds ==
  /\ spoken < MaxLines
  /\ spoken' = spoken + 1
  /\ IF hand = 0
     THEN hand' = spoken' /\ UNCHANGED pending
     ELSE /\ pending' = IF Len(pending) = MaxWaiting THEN Append(Tail(pending), spoken')
                                                 ELSE Append(pending, spoken')
          /\ UNCHANGED hand
  /\ UNCHANGED <<fsm, shown, omniVars>>

(* The finally of onUserTurnEnd: the next line is taken up.                *)
NextLine ==
  IF pending = <<>>
  THEN hand' = 0 /\ UNCHANGED pending
  ELSE hand' = Head(pending) /\ pending' = Tail(pending)

(* The extractor found nothing in the line for the machine, or failed.     *)
LineDone ==
  /\ hand # 0
  /\ NextLine
  /\ UNCHANGED <<fsm, shown, spoken, omniVars>>

(* hud_fsm_event in the gateway, and fsmEvent with its answer if there is  *)
(* one: the late answers of the model are those to verdicts.               *)
LineServed ==
  /\ hand # 0
  /\ \E f \in Event(fsm) :
       /\ Fits(f)
       /\ fsm' = f
       /\ shown' \in {shown, Seen(f)}
  /\ NextLine
  /\ UNCHANGED <<spoken, omniVars>>

-----------------------------------------------------------------------------
(* The operator's turns and the verdicts of sigma: asked about a turn that *)
(* lasts ("mid"), one that ended, a silence, or given already about a turn *)
(* that was cut; rec is the record that was shown then, and the gateway's  *)
(* answer at the end.                                                      *)

Send(step, rec) ==
  \E c \in Calls :
    call[c] = None /\ call' = [call EXCEPT ![c] = [step |-> step, rec |-> rec]]

At(c, step) == call[c] # None /\ call[c].step = step

Forgotten(c) == [call EXCEPT ![c] = None]

(* onSpeakStart.                                                           *)
SpeakStarts ==
  /\ ~open
  /\ open' = TRUE
  /\ UNCHANGED <<fsm, shown, lineVars, call, cut>>

(* onSpeakEnd: a turn without text is not judged; one that was cut has its *)
(* verdict, which is posted with the seq of the record it saw.             *)
SpeakEnds ==
  /\ open
  /\ open' = FALSE
  /\ \/ UNCHANGED <<call, cut>>
     \/ cut = None /\ Send("end", shown) /\ UNCHANGED cut
     \/ cut # None /\ Send("cut", cut) /\ cut' = None
  /\ UNCHANGED <<fsm, shown, lineVars>>

(* midTurnCheck, up to its request.                                        *)
MidTurnCheck ==
  /\ open /\ cut = None
  /\ Send("mid", shown)
  /\ UNCHANGED <<fsm, shown, lineVars, open, cut>>

(* midTurnCheck, after it: an operator who is stuck, and whose turn has    *)
(* not closed by itself meanwhile, is cut.                                 *)
MidTurnJudged(c) ==
  /\ At(c, "mid")
  /\ call' = Forgotten(c)
  /\ UNCHANGED cut \/ (open /\ cut' = call[c].rec)
  /\ UNCHANGED <<fsm, shown, lineVars, open>>

(* The timer of armNoReplyCheck.                                           *)
NoReplyCheck ==
  /\ ~open
  /\ Send("silence", shown)
  /\ UNCHANGED <<fsm, shown, lineVars, open, cut>>

(* hud_fsm_omni_turn, for a verdict that fits the record; a turn that was  *)
(* cut is one that was stuck, and only a whole turn enters the request.    *)
TurnServed(c) ==
  /\ At(c, "end") \/ At(c, "silence") \/ At(c, "cut")
  /\ call[c].rec.seq = fsm.seq
  /\ \E v \in Verdicts : \E f \in JudgedBy(fsm, v, At(c, "end")) :
       /\ At(c, "cut") => v.stuck
       /\ Fits(f)
       /\ fsm' = f
       /\ call' = [call EXCEPT ![c] = [step |-> "answered", rec |-> Seen(f)]]
  /\ UNCHANGED <<shown, lineVars, open, cut>>

(* The answer reaches the page; or the verdict was stale, or one of the    *)
(* requests failed.                                                        *)
TurnDone(c) ==
  /\ call[c] # None /\ ~At(c, "mid")
  /\ \/ UNCHANGED shown
     \/ At(c, "answered") /\ shown' = call[c].rec
  /\ call' = Forgotten(c)
  /\ UNCHANGED <<fsm, lineVars, open, cut>>

-----------------------------------------------------------------------------
(* startSessionInner: the flags are cleared and the machine is reset; the  *)
(* lines and what is under way are not.  (The session waits for the reset, *)
(* and none of its turns can come before it.)                              *)
StartCall ==
  /\ Fits(Reset(fsm))
  /\ fsm' = Reset(fsm) /\ shown' = Seen(fsm')
  /\ open' = FALSE /\ cut' = None
  /\ UNCHANGED <<lineVars, call>>

-----------------------------------------------------------------------------
HudNext ==
  \/ LineEnds \/ LineDone \/ LineServed
  \/ SpeakStarts \/ SpeakEnds \/ MidTurnCheck \/ NoReplyCheck
  \/ \E c \in Calls : MidTurnJudged(c) \/ TurnServed(c) \/ TurnDone(c)
  \/ StartCall

HudSpec == HudInit /\ [][HudNext]_hudVars

-----------------------------------------------------------------------------
(* The step in which the gateway applies the verdict of call c.            *)
Applies(c) == call[c] # None /\ call'[c] # None /\ call[c].step # call'[c].step

(* A verdict is applied to the record it was asked about, or to one that   *)
(* has been reset since: within the life of a record seq tells every two   *)
(* of its states apart, whichever lines, verdicts, cuts and silences came  *)
(* in between (gateway.py, the check of fsm_seq).                          *)
VerdictFitsOrReset ==
  [][\A c \in Calls :
       Applies(c) => call[c].rec.age = fsm.age \/ call[c].rec.era # fsm.era]_hudVars

(* At most two helps while the request stays as it is, whatever the light  *)
(* shows in between and however the verdicts cross (gateway.py, the cap).  *)
HelpEnds == fsm.given <= 2

(* The lines that wait are the last ones spoken, and one is skipped only   *)
(* while as many newer ones wait as may (hud-app.js, pendingTurns).        *)
NewestWait ==
  /\ hand = 0 => pending = <<>>
  /\ \A i \in DOMAIN pending : pending[i] = spoken - Len(pending) + i
  /\ hand # 0 => \/ hand = spoken - Len(pending)
                 \/ hand < spoken - MaxWaiting /\ Len(pending) = MaxWaiting

=============================================================================
