---------------------------- MODULE AudioPlayer ----------------------------
(***************************************************************************)
(* The playback of the model's voice in the browser                        *)
(* (static/duplex/lib/audio-player.js): the chunks of a turn are collected *)
(* for a moment, against jitter, and from then on scheduled one behind the *)
(* other as they come.                                                     *)
(*                                                                         *)
(* A player is a record.  Chunks are numbered as they arrive.  Sound,      *)
(* clocks, gaps and their metrics are left out: a chunk is scheduled       *)
(* behind the one before, and what is scheduled ends in that order.        *)
(***************************************************************************)
EXTENDS Naturals, Sequences

CONSTANT Delay  \* getPlaybackDelayMs, in any unit

ASSUME DelayAssumption == Delay \in Nat

Players ==
  [ready : BOOLEAN,       \* _ctx is there
   turn : BOOLEAN,        \* _turnActive
   playing : BOOLEAN,     \* _playing
   pending : Seq(Nat),    \* _pendingChunks
   timer : BOOLEAN,       \* _delayTimer is armed
   sources : Seq(Nat),    \* _sources: scheduled and not ended
   arrived : Nat]         \* _enqueueCount

NewPlayer ==
  [ready |-> FALSE, turn |-> FALSE, playing |-> FALSE, pending |-> <<>>,
   timer |-> FALSE, sources |-> <<>>, arrived |-> 0]

(* Mutant: what is waiting survives a stop. *)
HushedHalf(p) == [p EXCEPT !.timer = FALSE, !.sources = <<>>, !.playing = FALSE]

(* _stopAllSources. *)
Hushed(p) ==
  [p EXCEPT !.timer = FALSE, !.sources = <<>>, !.playing = FALSE, !.pending = <<>>]

(* init. *)
Prepared(p) == [Hushed(p) EXCEPT !.ready = TRUE, !.turn = FALSE, !.arrived = 0]

(* beginTurn: what is left of the turn before is cut off. *)
TurnBegun(p) == IF p.turn THEN p ELSE [Hushed(p) EXCEPT !.turn = TRUE]

(* _startPlayback: what waits is scheduled. *)
Started(p) ==
  IF p.playing THEN p
  ELSE [p EXCEPT !.playing = TRUE, !.sources = @ \o p.pending, !.pending = <<>>]

(* playChunk. *)
ChunkPlayed(p) ==
  LET q == [p EXCEPT !.arrived = @ + 1]
      held == [q EXCEPT !.pending = Append(@, q.arrived)]
  IN  IF ~p.ready THEN p
      ELSE IF p.playing THEN [q EXCEPT !.sources = Append(@, q.arrived)]
      ELSE IF p.timer THEN held
      ELSE IF Delay = 0 THEN Started(held)
      ELSE [held EXCEPT !.timer = TRUE]

(* The callback of the timer. *)
DelayOver(p) ==
  LET q == [p EXCEPT !.timer = FALSE]
  IN  IF p.pending # <<>> THEN Started(q) ELSE q

(* endTurn: a turn too short to fill the delay is played all the same. *)
TurnEnded(p) ==
  LET q == IF ~p.playing /\ p.pending # <<>> THEN Started([p EXCEPT !.timer = FALSE]) ELSE p
  IN  IF p.turn THEN [q EXCEPT !.turn = FALSE] ELSE p

(* onended of the first source. *)
SourceOver(p) == [p EXCEPT !.sources = Tail(@)]

(* stop. *)
Stopped(p) == [Hushed(p) EXCEPT !.turn = FALSE]

(* Each chunk of a turn is played once and in its place: what is scheduled *)
(* or waits are the latest chunks, in order; nothing is scheduled while an *)
(* earlier chunk waits, nor begun anew over one that sounds; and what      *)
(* waits has a timer that will start it, however turns begin and end,      *)
(* playback is cut and timers run out.                                     *)
PlaysInOrder(p) ==
  /\ p.playing => p.pending = <<>>
  /\ ~p.playing => p.sources = <<>>
  /\ p.pending # <<>> => p.timer
  /\ \A i \in DOMAIN p.sources : p.sources[i] = p.arrived - Len(p.sources) + i
  /\ \A i \in DOMAIN p.pending : p.pending[i] = p.arrived - Len(p.pending) + i
=============================================================================
