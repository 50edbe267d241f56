----------------------------- MODULE DuplexSound -----------------------------
(***************************************************************************)
(* The sound of a full-duplex session: what the client sends is cut into   *)
(* seconds and heard (streaming_prefill), and the tokens of the voice are  *)
(* made, kept back and turned into sound (the end of streaming_generate).  *)
(* DuplexUnit has the words between the two.                               *)
(*                                                                         *)
(* Sound is counted, in samples or frames.  A token of the voice is        *)
(* <<turn, n>>: the n-th of its session, made for that turn; n = 0 is the  *)
(* silence that every turn of the voice starts with.                       *)
(***************************************************************************)
EXTENDS MelStream, Sequences, SequencesExt

CONSTANTS
  Hop,           \* samples of a frame: hop_length
  FirstPad,      \* samples the first second is padded to: FIRST_CHUNK_MS
  Pieces,        \* the lengths of sound a client sends
  SpeechChunk,   \* tokens of a second of voice: CHUNK_SIZE
  PreLookahead,  \* tokens the vocoder needs to see beyond those it voices
  LeastMore,     \* tokens there must be beside them
  SilenceTokens, \* the silence a turn of the voice begins with
  MaxSessions, MaxHeard

ASSUME SoundAssumption ==
  /\ {Hop, FirstPad, SpeechChunk, PreLookahead, LeastMore, SilenceTokens} \subseteq Nat \ {0}
  /\ FirstPad >= FirstFrames * Hop
  /\ Pieces \subseteq Nat
  /\ MaxSessions \in Nat /\ MaxHeard \in Nat

VARIABLES
  phase,      \* "off", "idle", "heard" or "failed": what the next call may be
  session,    \* how many sessions there were
  audio,      \* audio_buffer: the samples that wait
  seconds,    \* audio_chunk_idx
  mel,        \* the processor's window
  encoder,    \* audio_past_key_values
  open,       \* ~current_turn_ended
  tts,        \* the turns in tts_past_key_values; {} with tts_text_start_pos = 0
  initialized,\* token2wav_initialized
  buffer,     \* token2wav_buffer
  \* history
  received, padded,  \* samples sent by the client, and put in front of them
  heard,             \* the last window handed out and what the encoder kept
  calls,             \* calls of streaming_prefill
  turn,              \* the number of the last turn
  loose,             \* turns whose end the voice was not told of since it was
                     \* last reset, and 0 for words of no turn
  made, settled      \* tokens made, and tokens voiced or dropped on purpose

ear == <<audio, seconds, mel, encoder, received, padded, heard, calls>>
mouth == <<open, tts, initialized, buffer, turn, loose, made, settled>>
vars == <<phase, session, ear, mouth>>

Silence == [i \in 1..SilenceTokens |-> <<0, 0>>]
Spoken(b) == FoldLeft(LAMBDA s, t : IF t[2] = 0 THEN s ELSE Append(s, t), <<>>, b)
NothingHeard == [from |-> 0, to |-> 0, kept |-> 0]

Init ==
  /\ phase = "off" /\ session = 0
  /\ audio = 0 /\ seconds = 0 /\ mel = NewMel /\ encoder = NewEncoder
  /\ open = FALSE /\ tts = {} /\ initialized = FALSE /\ buffer = <<>>
  /\ received = 0 /\ padded = 0 /\ heard = NothingHeard /\ calls = 0
  /\ turn = 0 /\ loose = {} /\ made = 0 /\ settled = 0

(* _reset_streaming_state, and the books of the next session. *)
Fresh ==
  /\ audio' = 0 /\ seconds' = 0
  /\ open' = FALSE /\ tts' = {}
  /\ received' = 0 /\ padded' = 0 /\ heard' = NothingHeard /\ calls' = 0
  /\ turn' = 0 /\ loose' = {} /\ made' = 0 /\ settled' = 0

(* prepare: with a voice to speak with, or without one.  The encoder's     *)
(* cache is cleanup's.                                                     *)
Prepare(voice) ==
  /\ phase = "off" /\ session < MaxSessions
  /\ session' = session + 1
  /\ phase' = "idle"
  /\ Fresh
  /\ mel' = NewMel
  /\ initialized' = voice
  /\ buffer' = IF voice THEN Silence ELSE <<>>
  /\ UNCHANGED encoder

(* cleanup, after a stop or a step that raised: the state of the session   *)
(* and, with reset_session, the model's.                                   *)
Cleanup ==
  /\ phase # "off"
  /\ phase' = "off"
  /\ Fresh
  /\ initialized' = FALSE /\ buffer' = <<>>
  /\ encoder' = NewEncoder
  /\ UNCHANGED <<session, mel>>
-----------------------------------------------------------------------------
(* streaming_prefill.                                                      *)

(* The samples at hand once n more have come: the first second is padded   *)
(* in front.                                                               *)
Padding(n) == IF seconds = 0 THEN Most(0, FirstPad - (audio + n)) ELSE 0
AtHand(n) == audio + n + Padding(n)
NeedSamples == Need(mel) * Hop

Sent(n) ==
  /\ phase = "idle" /\ calls < MaxHeard
  /\ calls' = calls + 1
  /\ received' = received + n
  /\ padded' = padded + Padding(n)
  /\ UNCHANGED <<session, mouth>>

(* Too little sound for a second: it waits. *)
TooLittle(n) ==
  /\ Sent(n)
  /\ AtHand(n) < NeedSamples
  /\ audio' = AtHand(n)
  /\ phase' = "failed"
  /\ UNCHANGED <<seconds, mel, encoder, heard>>

(* The processor takes a second, and if it hands one out it is heard and   *)
(* taken from the buffer.  Whatever is left over waits for the next call.  *)
Hear(n) ==
  LET pushed == Pushed(mel, Need(mel))
      window == Window(pushed)
      coded == Encode(encoder, session, window.to - window.from,
                      IF seconds = 0 THEN 0 ELSE Redundancy, Redundancy)
  IN
  /\ Sent(n)
  /\ AtHand(n) >= NeedSamples
  /\ IF Ready(pushed)
     THEN /\ mel' = Emitted(pushed)
          /\ encoder' = coded.encoder
          /\ heard' = [from |-> window.from, to |-> window.to, kept |-> coded.kept]
          /\ audio' = AtHand(n) - NeedSamples
          /\ seconds' = seconds + 1
          /\ phase' = "heard"
     ELSE /\ mel' = pushed
          /\ audio' = AtHand(n)
          /\ phase' = "failed"
          /\ UNCHANGED <<encoder, heard, seconds>>

(* streaming_generate after a prefill that gave it nothing to go by. *)
NothingToSay ==
  /\ phase = "failed"
  /\ phase' = "idle"
  /\ UNCHANGED <<session, ear, mouth>>
-----------------------------------------------------------------------------
(* streaming_generate: what its tokens come to for the voice.              *)

(* A unit that listens.  The client's override closes a turn that is open: *)
(* what was kept back of it is dropped and the vocoder starts afresh, but  *)
(* not the model of the voice.                                             *)
Listen(override) ==
  LET closes == override /\ open
  IN
  /\ phase = "heard"
  /\ override \/ ~open
  /\ phase' = "idle"
  /\ open' = FALSE
  /\ loose' = IF closes THEN loose \cup {turn} ELSE loose
  /\ buffer' = IF closes /\ initialized THEN Silence ELSE buffer
  /\ settled' = IF closes THEN made ELSE settled
  /\ UNCHANGED <<session, ear, tts, initialized, turn, made>>

(* A unit that ends the open turn, or one of its own words, and listens:   *)
(* the function returns before it comes to the voice.                      *)
EndsListening(opens) ==
  /\ phase = "heard"
  /\ open \/ opens
  /\ phase' = "idle"
  /\ open' = FALSE
  /\ turn' = IF opens THEN turn + 1 ELSE turn
  /\ loose' = loose \cup (IF open THEN {turn} ELSE {}) \cup {turn'}
  /\ UNCHANGED <<session, ear, tts, initialized, buffer, made, settled>>

(* How many tokens the model of the voice makes of a unit: a whole second, *)
(* or as few as it likes at the start of a turn and in its last unit.      *)
Amounts(ended) == IF ended \/ tts = {} THEN 0..SpeechChunk ELSE {SpeechChunk}

(* The tokens that stay in the buffer when enough of them are voiced:      *)
(* a second at a time, with what the vocoder must see beyond it.           *)
Left[n \in Nat] ==
  IF n < PreLookahead + LeastMore THEN n
  ELSE Left[n - Least(SpeechChunk, n - PreLookahead)]

(* _generate_waveform_from_tokens: what is left in the buffer. *)
Voiced(tokens, last) ==
  LET all == buffer \o tokens
  IN  IF last THEN <<>> ELSE SubSeq(all, Len(all) - Left[Len(all)] + 1, Len(all))

(* Mutant: the vocoder is reset before the last tokens of a turn are voiced. *)
SpeakResetFirst(n, ends, opens, reopens) ==
  LET owner == IF opens THEN turn + 1 ELSE IF open THEN turn ELSE 0
      tokens == [i \in 1..n |-> <<owner, made + i>>]
      left == Voiced(tokens, ends)
  IN
  /\ phase = "heard"
  /\ n \in Amounts(ends)
  /\ ends => open \/ opens
  /\ reopens => ends
  /\ phase' = "idle"
  /\ turn' = IF opens THEN turn + 1 ELSE turn
  /\ open' = IF ends THEN reopens ELSE open \/ opens
  /\ tts' = IF ends THEN {} ELSE tts \cup {owner}
  /\ loose' = IF ends THEN {}
              ELSE loose \cup (IF open /\ opens THEN {turn} ELSE {}) \cup ({owner} \cap {0})
  /\ IF initialized
     THEN /\ made' = made + n
          /\ buffer' = IF ends THEN Silence ELSE left
          /\ settled' = settled + (IF ends THEN n
                                 ELSE Len(Spoken(buffer \o tokens)) - Len(Spoken(left)))
     ELSE UNCHANGED <<made, buffer, settled>>
  /\ UNCHANGED <<session, ear, initialized>>

(* A unit that speaks: its words go to the turn that is open, to one they  *)
(* open (one that was open before has then ended in the middle of the      *)
(* unit, which only the tokens know), or to none, if the unit ends before  *)
(* any.  The last unit of a turn resets the model of the voice, voices     *)
(* what is left, and then resets the vocoder.  A rejected token behind the *)
(* end opens the turn again.  Without a vocoder the tokens are gone.       *)
Speak(n, ends, opens, reopens) ==
  LET owner == IF opens THEN turn + 1 ELSE IF open THEN turn ELSE 0
      tokens == [i \in 1..n |-> <<owner, made + i>>]
      left == Voiced(tokens, ends)
  IN
  /\ phase = "heard"
  /\ n \in Amounts(ends)
  /\ ends => open \/ opens
  /\ reopens => ends
  /\ phase' = "idle"
  /\ turn' = IF opens THEN turn + 1 ELSE turn
  /\ open' = IF ends THEN reopens ELSE open \/ opens
  /\ tts' = IF ends THEN {} ELSE tts \cup {owner}
  /\ loose' = IF ends THEN {}
              ELSE loose \cup (IF open /\ opens THEN {turn} ELSE {}) \cup ({owner} \cap {0})
  /\ IF initialized
     THEN /\ made' = made + n
          /\ buffer' = IF ends THEN Silence ELSE left
          /\ settled' = settled + Len(Spoken(buffer \o tokens)) - Len(Spoken(left))
     ELSE UNCHANGED <<made, buffer, settled>>
  /\ UNCHANGED <<session, ear, initialized>>

Next ==
  \/ \E voice \in BOOLEAN : Prepare(voice)
  \/ Cleanup
  \/ \E n \in Pieces : TooLittle(n) \/ Hear(n)
  \/ NothingToSay
  \/ \E b \in BOOLEAN : Listen(b) \/ EndsListening(b)
  \/ \E n \in 0..SpeechChunk, ends, opens, reopens \in BOOLEAN :
       Speak(n, ends, opens, reopens)

Spec == Init /\ [][Next]_vars
-----------------------------------------------------------------------------
(* No sample is lost, heard twice or heard across sessions: what was sent  *)
(* and padded has gone to the processor or waits; as many seconds were     *)
(* handed out as were counted; the last one had both margins (the first of *)
(* the session has none in front), of which the encoder kept exactly the   *)
(* second, within its positions and with sound of this session alone.      *)
EverySecondHeard ==
  phase # "off" =>
    /\ audio + (mel.base + mel.len) * Hop = received + padded
    /\ mel.last = seconds * ChunkFrames
    /\ encoder.len <= MaxPos
    /\ encoder.of \subseteq {session}
    /\ seconds > 0 =>
         /\ heard.from = Most(0, mel.last - ChunkFrames - Redundancy)
         /\ heard.to = mel.last + Redundancy
         /\ heard.kept = ChunkFrames \div 2

(* Every token of the voice is voiced once and in its turn: those in the   *)
(* buffer are the ones that are not settled, in their order, and neither   *)
(* they nor the model of the voice go back behind the last end of a turn   *)
(* that the voice was told of.                                             *)
SoundedInItsTurn ==
  LET waiting == Spoken(buffer)
  IN  /\ settled + Len(waiting) = made
      /\ \A i \in DOMAIN waiting : waiting[i][2] = settled + i
      /\ tts \cup {waiting[i][1] : i \in DOMAIN waiting} \subseteq loose \cup {turn}
=============================================================================
