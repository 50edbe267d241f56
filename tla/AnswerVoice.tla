---------------------------- MODULE AnswerVoice ----------------------------
(***************************************************************************)
(* One answer of a turn-based session, from the language model's tokens to *)
(* text and sound: streamed with its voice, streamed as text, or made as a *)
(* whole (modeling_minicpmo_unified.py, utils.py).  What the answer does   *)
(* to the session's cache is TurnSession's matter.                         *)
(*                                                                         *)
(* The language model's tokens are numbered, and so are those of the       *)
(* voice.  The words go to the model of the voice in chunks, each followed *)
(* by its own voice tokens; an entry of that model's cache is the chunk it *)
(* belongs to, its kind and its position.  The streamed answer is a chain  *)
(* of generators: when one of them yields, the ones behind it run at once. *)
(***************************************************************************)
EXTENDS Naturals, Sequences, SequencesExt, FiniteSets

CONSTANTS
  TextChunk,   \* generate_chunk_size
  MaxChunks,   \* num_chunks_decode
  VoiceChunk,  \* CHUNK_SIZE, audio_token_chunk_size
  Lookahead,   \* pre_lookahead
  Silence,     \* tokens of silence in front of a streamed answer
  MaxVoice,    \* max_new_token of a chunk
  TokenWindow, \* token_window_size
  Window, Recomputed  \* window_size, recomputed_chunks

ASSUME VoiceAssumption ==
  /\ {TextChunk, MaxChunks, VoiceChunk, Silence, MaxVoice, TokenWindow, Recomputed}
       \subseteq Nat \ {0}
  /\ Lookahead = Silence
  /\ Window \in Nat /\ Recomputed < Window

Attentions == {"full_attention", "sliding_window", "sliding_recompute", "reindex"}

VARIABLES
  path,     \* how the answer is made: "stream", "text" or "whole"
  phase,    \* "think", "voice", "done" or "failed"
  thought,  \* number of tokens the language model has generated
  words,    \* the chunks of words so far: which tokens, whose hidden states
  finished, \* the terminator has come
  split,    \* the last word handed on ends in the middle of a character
  tts,      \* the model of the voice: TTSStreamingGenerator, interleaved_generate
  made,     \* number of its tokens
  out       \* the buffers behind it, and what the client has: text, sound,
            \* and how often the vocoder was told that a call is the last

answerVars == <<path, phase, thought, words, finished, split, tts, made, out>>

Numbers(lo, hi) == [i \in 1..(hi + 1 - lo) |-> lo + i - 1]
Copies(n, x) == [i \in 1..n |-> x]
Most(a, b) == IF a > b THEN a ELSE b
Drop(s, n) == SubSeq(s, n + 1, Len(s))

AnswerInit ==
  /\ path \in {"stream", "text", "whole"}
  /\ phase = "think" /\ thought = 0 /\ words = <<>>
  /\ finished = FALSE /\ split = FALSE /\ made = 0
  /\ \E a \in Attentions :
       tts = [attention |-> a, told |-> <<>>, cache |-> <<>>, start |-> 0,
              condition |-> 0, prefill |-> 0, drawn |-> 0]
  /\ out = [rest |-> <<>>, wave |-> IF path = "stream" THEN Copies(Silence, 0) ELSE <<>>,
            sound |-> <<>>, lasts |-> 0, text |-> <<>>]

Streamed == path # "whole"
Handed == IF words = <<>> THEN 0 ELSE words[Len(words)].hi
LastChunk == finished \/ Len(words) = MaxChunks
-----------------------------------------------------------------------------
(* Mutant: the last token of an unfinished chunk is handed on with it. *)
GeneratedAll(k, fin) ==
  LET lo == thought + 1
  IN  [lo |-> lo, hi |-> thought + k, feltLo |-> IF words = <<>> THEN 1 ELSE thought,
       feltHi |-> IF fin THEN thought + k ELSE thought + k - 1]

(* What chunk_generate and the loop around it make of k new tokens: those  *)
(* that are handed on, and those whose hidden states were collected.  The  *)
(* first pass feeds the header, whose states are set aside; a later chunk  *)
(* feeds the token left over from the one before, and puts it in front.    *)
Generated(k, fin) ==
  LET leftover == IF words = <<>> THEN 0 ELSE 1
      passes == IF fin THEN k + 1 ELSE k
  IN  [lo |-> thought + 1 - leftover, hi |-> IF fin THEN thought + k ELSE thought + k - 1,
       feltLo |-> thought + 1 - leftover, feltHi |-> thought - 1 + passes]

(* The slices of _generate_speech_non_streaming.  The hidden states are    *)
(* cut by the same bounds as the tokens.                                   *)
Sliced(k) == [lo |-> thought + 1, hi |-> thought + k,
              feltLo |-> thought + 1, feltHi |-> thought + k]

(* How many tokens a chunk may have *)
ChunkSizes(fin) ==
  IF path = "whole" THEN IF fin THEN 1..TextChunk ELSE {TextChunk}
  ELSE IF words = <<>>
       THEN IF fin THEN 1..TextChunk ELSE {TextChunk + 1}
       ELSE IF fin THEN 0..(TextChunk - 1) ELSE {TextChunk}
-----------------------------------------------------------------------------
(* The cache of the voice's model *)
Words(c, n) == Copies(n, <<c, "text">>)
Sounds(c, n) == Copies(n, <<c, "audio">>)
Placed(items, at) ==
  [i \in DOMAIN items |-> [item |-> items[i], at |-> at + i - 1]]
Whole(t, c) == Words(c, t.told[c].condition) \o Sounds(c, t.told[c].audio)
Joined(t, lo, hi) ==
  FlattenSeq([i \in 1..(hi + 1 - lo) |-> Whole(t, lo + i - 1)])
Entries(chunk) == chunk.condition + chunk.audio

(* _truncate_kv_cache_sliding_window, after each forward pass *)
Truncated(t) ==
  IF t.attention = "sliding_window" /\ Streamed /\ Len(t.cache) > TokenWindow
  THEN [t EXCEPT !.cache = Drop(@, Len(@) - TokenWindow)] ELSE t

Fed(t, items, at) == Truncated([t EXCEPT !.cache = @ \o Placed(items, at)])

(* Mutant: the kept chunk stays at its old positions. *)
ReindexedInPlace(t) ==
  LET sink == Entries(t.told[1])
      last == Entries(t.told[Len(t.told)])
  IN  IF Len(t.told) < 2 \/ Len(t.cache) <= sink + last THEN t
      ELSE [t EXCEPT !.cache = SubSeq(@, 1, sink) \o Drop(@, Len(@) - last),
                     !.start = sink + last]

(* _reindex_kv_cache: the first chunk and the last stay, the last moves up *)
(* behind the first.                                                       *)
Reindexed(t) ==
  LET sink == Entries(t.told[1])
      last == Entries(t.told[Len(t.told)])
      by == Len(t.cache) - last - sink
      Moved(e) == [e EXCEPT !.at = @ - by]
      tail == Drop(t.cache, Len(t.cache) - last)
  IN  IF Len(t.told) < 2 \/ Len(t.cache) <= sink + last THEN t
      ELSE [t EXCEPT !.cache = SubSeq(@, 1, sink) \o [i \in DOMAIN tail |-> Moved(tail[i])],
                     !.start = sink + last]

(* generate_with_buffer up to its loop, with the first forward pass.       *)
(* _build_recompute_inputs puts the chunk before in front.                 *)
OpenStreamed(t, c) ==
  LET back == IF t.attention = "sliding_recompute" /\ c > 1 THEN Whole(t, c - 1) ELSE <<>>
      kept == IF c = 1 THEN t
              ELSE IF t.attention = "sliding_recompute"
                   THEN [t EXCEPT !.cache = <<>>, !.start = 0]
              ELSE IF t.attention = "reindex" THEN Reindexed(t) ELSE t
      input == back \o Words(c, t.condition)
  IN  [Fed(kept, input, kept.start) EXCEPT !.prefill = Len(input), !.drawn = 0]

(* One pass of the loop of interleaved_generate up to its first forward    *)
(* pass.  The code counts chunks from zero.                                *)
OpenInterleaved(t, c) ==
  LET again == /\ t.attention = "sliding_recompute" /\ c - 1 >= Window
               /\ (c - 1 - Recomputed) % (Window - Recomputed) = 0
      input == (IF again THEN Joined(t, c - Recomputed, c - 1) ELSE <<>>)
               \o Words(c, t.condition)
      kept == IF again THEN [t EXCEPT !.cache = <<>>, !.start = 0] ELSE t
  IN  [Fed(kept, input, kept.start) EXCEPT !.prefill = Len(input), !.drawn = 0]

(* The token drawn last is fed by the next forward pass. *)
FeedDrawn(t) ==
  IF t.drawn = 0 THEN t
  ELSE Fed(t, Sounds(Len(t.told) + 1, 1), t.start + t.prefill + t.drawn - 1)

(* The end of generate_with_buffer *)
Closed(t) ==
  [t EXCEPT !.told = Append(@, [condition |-> t.condition, audio |-> t.drawn]),
            !.start = @ + t.prefill + t.drawn]

(* The end of a pass of interleaved_generate: with a sliding window the    *)
(* cache loses the chunk before.                                           *)
ClosedInterleaved(t) ==
  LET c == Len(t.told) + 1
      old == IF t.attention = "sliding_window" /\ c > 1 THEN Entries(t.told[c - 1]) ELSE 0
  IN  [Closed(t) EXCEPT !.cache = Drop(@, old)]
-----------------------------------------------------------------------------
(* Token2Wav.stream: the last tokens of a call are only looked at, unless  *)
(* it is told to be the last one.                                          *)
Heard(call, last) == IF last THEN call ELSE SubSeq(call, 1, Len(call) - Lookahead)
Stream(o, call, last) ==
  [o EXCEPT !.sound = @ \o Heard(call, last), !.lasts = IF last THEN @ + 1 ELSE @]

(* New text, up to a token: beside a waveform up to the last character     *)
(* that is whole, at the end all there is                                  *)
Show(o, n) == [o EXCEPT !.text = @ \o Numbers(Len(@) + 1, n)]
Safe == IF split THEN Handed - 1 ELSE Handed

(* streaming_token_decoder, for an answer without a voice *)
Decoded(o, hi, splits, fin) == Show(o, IF splits /\ ~fin THEN hi - 1 ELSE hi)

(* An item of streaming_generate, passed on by HalfDuplexView.generate:    *)
(* a waveform and the text beside it                                       *)
Yielded(o, call, last, n) == Show(Stream(o, call, last), n)

(* Mutant: the tokens that were only looked at go, too. *)
HearAndForget(o, batch, last) ==
  LET full == o.wave \o batch
      n == VoiceChunk + Lookahead
  IN  IF Len(full) < n THEN [o EXCEPT !.wave = full]
      ELSE Yielded([o EXCEPT !.wave = Drop(full, n)], SubSeq(full, 1, n), last, Safe)

(* The loop of streaming_generate over the voice's batches *)
Hear(o, batch, last) ==
  LET full == o.wave \o batch
      n == VoiceChunk + Lookahead
  IN  IF Len(full) < n THEN [o EXCEPT !.wave = full]
      ELSE Yielded([o EXCEPT !.wave = Drop(full, VoiceChunk)], SubSeq(full, 1, n), last, Safe)

(* A token enters _token_buffer, and a full buffer is yielded. *)
Buffered(o, token) ==
  LET rest == Append(o.rest, token)
  IN  IF Len(rest) < VoiceChunk THEN [o EXCEPT !.rest = rest]
      ELSE Hear([o EXCEPT !.rest = Drop(rest, VoiceChunk)], SubSeq(rest, 1, VoiceChunk), FALSE)

(* What is left in the buffer is yielded as the last batch: behind the     *)
(* last words, or by audio_chunk_generator when it ends otherwise.         *)
Emptied(o) == Hear([o EXCEPT !.rest = <<>>], o.rest, TRUE)

(* streaming_generate behind its loop *)
Flushed(o) ==
  IF o.wave = <<>> THEN o
  ELSE Yielded([o EXCEPT !.wave = <<>>], o.wave, TRUE, Handed)

(* The vocoder's loop of _generate_speech_non_streaming.  The call that    *)
(* ends with the last token is told so, and what it looked at is flushed   *)
(* once more behind the loop.                                              *)
VocoderCalls(n) ==
  LET size == VoiceChunk + Lookahead
      loop == IF n < size THEN 0 ELSE (n - size) \div VoiceChunk + 1
      Call(i) == Numbers(VoiceChunk * (i - 1) + 1, VoiceChunk * (i - 1) + size)
  IN  [i \in 1..loop |-> [tokens |-> Call(i), last |-> VoiceChunk * (i - 1) + size >= n]]
      \o (IF VoiceChunk * loop >= n THEN <<>>
          ELSE <<[tokens |-> Numbers(VoiceChunk * loop + 1, n), last |-> TRUE]>>)

VocodedWhole(o, n) ==
  LET calls == VocoderCalls(n)
  IN  [o EXCEPT !.sound = FlattenSeq([i \in DOMAIN calls |->
                                        Heard(calls[i].tokens, calls[i].last)]),
                !.lasts = Cardinality({i \in DOMAIN calls : calls[i].last})]
-----------------------------------------------------------------------------
(* One pass of the loop over the language model's chunks.  The words go to *)
(* the voice, or, without one, are decoded as they are.                    *)
Think(k, fin, splits) ==
  LET chunk == IF Streamed THEN Generated(k, fin) ELSE Sliced(k)
      told == [tts EXCEPT !.condition = chunk.hi + 1 - chunk.lo + (IF fin THEN 2 ELSE 1)]
      c == Len(words) + 1
  IN  /\ phase = "think"
      /\ k \in ChunkSizes(fin)
      /\ path = "whole" /\ c = MaxChunks => fin
      /\ words' = Append(words, chunk)
      /\ thought' = thought + k /\ finished' = fin /\ split' = splits
      /\ IF path = "text"
         THEN /\ out' = Decoded(out, chunk.hi, splits, fin)
              /\ phase' = IF LastChunk' THEN "done" ELSE "think"
              /\ UNCHANGED tts
         ELSE /\ tts' = IF Streamed THEN OpenStreamed(told, c) ELSE OpenInterleaved(told, c)
              /\ phase' = "voice"
              /\ UNCHANGED out
      /\ UNCHANGED <<path, made>>

(* The terminator comes first: chunk_generate raises on the empty list of  *)
(* hidden states, _generate_speech_non_streaming on the empty list of      *)
(* slices.                                                                 *)
ThinkFails ==
  /\ phase = "think" /\ words = <<>>
  /\ phase' = "failed"
  /\ UNCHANGED <<path, thought, words, finished, split, tts, made, out>>

(* A voice token.  Of an answer made as a whole, a chunk that runs into    *)
(* the limit loses its last one (generate_chunk).                          *)
VoiceToken ==
  /\ phase = "voice"
  /\ tts.drawn < IF Streamed THEN MaxVoice ELSE MaxVoice - 1
  /\ tts' = [FeedDrawn(tts) EXCEPT !.drawn = @ + 1]
  /\ made' = made + 1
  /\ out' = IF Streamed THEN Buffered(out, made + 1) ELSE out
  /\ UNCHANGED <<path, phase, thought, words, finished, split>>

(* The chunk is over: the language model goes on, or the answer ends.      *)
Ended(closed, o) ==
  /\ phase = "voice"
  /\ tts' = closed
  /\ phase' = IF LastChunk THEN "done" ELSE "think"
  /\ out' = IF ~LastChunk THEN o
            ELSE IF Streamed THEN Flushed(IF o.rest = <<>> THEN o ELSE Emptied(o))
            ELSE Show(VocodedWhole(o, made), Handed)
  /\ UNCHANGED <<path, thought, words, finished, split, made>>

(* The end token of the voice.  It is drawn from a pass that feeds the     *)
(* token before it; as a whole, so is the token that is lost.              *)
VoiceEnds ==
  /\ Streamed => tts.drawn < MaxVoice
  /\ IF Streamed
     THEN Ended(Closed(FeedDrawn(tts)), IF finished THEN Emptied(out) ELSE out)
     ELSE Ended(ClosedInterleaved(FeedDrawn(tts)), out)

(* A streamed chunk runs into the limit; its last token is never fed.      *)
VoiceLimit ==
  /\ Streamed /\ tts.drawn = MaxVoice
  /\ Ended(Closed(tts), out)

AnswerNext ==
  \/ \E k \in 0..(TextChunk + 1), fin, splits \in BOOLEAN : Think(k, fin, splits)
  \/ ThinkFails
  \/ VoiceToken \/ VoiceEnds \/ VoiceLimit

AnswerSpec == AnswerInit /\ [][AnswerNext]_answerVars
-----------------------------------------------------------------------------
(* What the client hears: the voice tokens in order, each once, behind the *)
(* silence, and the vocoder is told once, by the last call, that it is the *)
(* last.  The exception is an answer made as a whole whose tokens fill the *)
(* last call of the loop: its end is heard twice.                          *)
Spoken == (IF path = "stream" THEN Copies(Silence, 0) ELSE <<>>) \o Numbers(1, made)
HeardTwice ==
  path = "whole" /\ made >= VoiceChunk + Lookahead
  /\ (made - VoiceChunk - Lookahead) % VoiceChunk = 0 /\ Lookahead > 0
SpokenOnce ==
  /\ phase # "done" => out.lasts = 0 /\ IsPrefix(out.sound, Spoken)
  /\ phase = "done" /\ path # "text" /\ Spoken # <<>> =>
       IF HeardTwice
       THEN out.lasts = 2 /\ out.sound = Spoken \o Drop(Spoken, Len(Spoken) - Lookahead)
       ELSE out.lasts = 1 /\ out.sound = Spoken

(* Every word goes to the voice once, in order and with its own hidden     *)
(* state, and to the client as text, in order; at the end the client has   *)
(* all of them, but for a character cut by the limit of an answer in text. *)
SaidAsThought ==
  /\ \A i \in DOMAIN words :
       LET w == words[i] IN
       /\ w.lo = w.feltLo /\ w.hi = w.feltHi /\ w.lo <= w.hi
       /\ w.lo = IF i = 1 THEN 1 ELSE words[i - 1].hi + 1
  /\ out.text = Numbers(1, Len(out.text)) /\ Len(out.text) <= Handed
  /\ phase = "done" =>
       Len(out.text) = IF path = "text" /\ ~finished THEN Safe ELSE Handed

(* The model of the voice speaks a chunk with whole chunks in view, in     *)
(* their order and without a gap in their positions: all of them, the one  *)
(* before, as many as the window allows, or the first and the last two.    *)
(* The exception is a streamed chunk that ran into its limit, whose last   *)
(* token is missing.                                                       *)
InView ==
  LET c == Len(tts.told) + 1
      fed == IF tts.drawn = 0 THEN 0 ELSE tts.drawn - 1
      From(lo) == Joined(tts, lo, c - 1) \o Words(c, tts.condition) \o Sounds(c, fed)
      Latest(s) == Drop(s, Most(0, Len(s) - TokenWindow))
  IN  IF tts.attention = "sliding_recompute"
      THEN IF Streamed THEN {From(Most(1, c - 1))}
           ELSE {From(lo) : lo \in Most(1, c + 1 - Window)..Most(1, c - Recomputed)}
      ELSE IF tts.attention = "sliding_window"
      THEN {IF Streamed THEN Latest(From(1)) ELSE From(Most(1, c - 1))}
      ELSE IF tts.attention = "reindex" /\ Streamed /\ c > 2
      THEN {Whole(tts, 1) \o From(c - 1)}
      ELSE {From(1)}
Capped == Streamed /\ \E i \in DOMAIN tts.told : tts.told[i].audio = MaxVoice
WholeChunksInView ==
  phase = "voice" /\ (Capped => tts.attention = "sliding_recompute") =>
    /\ [i \in DOMAIN tts.cache |-> tts.cache[i].item] \in InView
    /\ \A i \in DOMAIN tts.cache :
         tts.cache[i].at =
           i - 1 + (IF tts.attention = "sliding_window" THEN tts.cache[1].at ELSE 0)
=============================================================================
