------------------------------ MODULE MelStream ------------------------------
(***************************************************************************)
(* What a full-duplex session hears, on its way to the language model:     *)
(* the sound in whole frames (StreamingMelProcessorExact) and the cache of *)
(* the sound encoder (get_audio_embedding_streaming).                      *)
(*                                                                         *)
(* A frame is its number since the session began.  The processor keeps     *)
(* the last `len' frames of sound, the first of them being `base', and has *)
(* handed out those before `last'.  It computes the features of all it     *)
(* keeps with every second, and hands out those of one second with a       *)
(* margin on either side, which the encoder's convolutions look at and     *)
(* which is cut off again behind them.                                     *)
(***************************************************************************)
EXTENDS Integers

CONSTANTS
  ChunkFrames,   \* frames of a second: chunk_ms over hop_length
  FirstFrames,   \* frames the first call takes: first_chunk_ms, in whole frames
  Lookahead,     \* frames, the last of them included, that a stable one needs
  Redundancy,    \* frames of a margin: cnn_redundancy_frames
  Trigger,       \* frames kept at which the window slides
  Stride,        \* frames it slides by
  MinKeep,       \* frames it leaves in any case
  MaxPos         \* positions the encoder knows

ASSUME MelAssumption ==
  /\ {ChunkFrames, FirstFrames, Lookahead, Redundancy, Trigger, Stride, MinKeep, MaxPos}
       \subseteq Nat \ {0}
  /\ ChunkFrames % 2 = 0 /\ Redundancy % 2 = 0
  /\ FirstFrames >= ChunkFrames + Redundancy + Lookahead - 1
  /\ Trigger - Stride >= FirstFrames + Redundancy
  /\ ChunkFrames >= Redundancy /\ MaxPos >= ChunkFrames

(* The processor of a new session, and the encoder's cache: its length and *)
(* the sessions whose sound is in it.                                      *)
NewMel == [base |-> 0, len |-> 0, last |-> 0]
NewEncoder == [len |-> 0, of |-> {}]

Least(a, b) == IF a < b THEN a ELSE b
Most(a, b) == IF a > b THEN a ELSE b

(* get_chunk_size *)
Need(m) == IF m.len = 0 THEN FirstFrames ELSE ChunkFrames

(* Mutant: the window slides whenever the trigger is reached, down to what *)
(* it must keep.                                                           *)
SlideToLeast(m) ==
  IF m.len < Trigger THEN m
  ELSE [m EXCEPT !.base = @ + m.len - MinKeep, !.len = MinKeep]

(* _maybe_slide_buffer *)
Slide(m) ==
  LET drop == Least(Stride, Most(0, m.len - Least(MinKeep, m.len - Stride)))
  IN  IF m.len < Trigger THEN m
      ELSE [m EXCEPT !.base = @ + drop, !.len = @ - drop]

(* _stable_frames_count: the frames whose features no later sound changes. *)
Stable(m) == Most(0, m.len + 1 - Lookahead)

(* process: the sound is appended, the window slides, and the next second  *)
(* is handed out if its right margin is stable.                            *)
Pushed(m, frames) == Slide([m EXCEPT !.len = @ + frames])
Ready(m) == m.base + Stable(m) >= m.last + ChunkFrames + Redundancy
Window(m) == [from |-> Most(m.base, Most(0, m.last - Redundancy)),
              to |-> Least(m.base + m.len, m.last + ChunkFrames + Redundancy)]
Emitted(m) == [m EXCEPT !.last = @ + ChunkFrames]

(* The second convolution halves, rounding up. *)
Cnn(frames) == (frames + 1) \div 2
Extra(margin) == IF margin > 0 THEN (margin + 1) \div 2 ELSE 0

(* get_audio_embedding_streaming for `frames' frames of session s with the *)
(* margins that are told: the cache is dropped as a whole when the         *)
(* positions might run out, the margins included.                          *)
Encode(e, s, frames, prefix, suffix) ==
  LET kept == Cnn(frames) - Extra(prefix) - Extra(suffix)
      old == IF e.len + Cnn(frames) >= MaxPos THEN NewEncoder ELSE e
  IN  [encoder |-> [len |-> old.len + kept, of |-> old.of \cup {s}], kept |-> kept]
=============================================================================
