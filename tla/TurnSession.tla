---------------------------- MODULE TurnSession ----------------------------
(***************************************************************************)
(* The turn-based sessions of one model object: half duplex, where every   *)
(* message is fed as it comes and the KV cache lives from turn to turn,    *)
(* and chat, where a request brings the whole conversation and starts from *)
(* an empty cache (MiniCPMO45/modeling_minicpmo_unified.py).               *)
(*                                                                         *)
(* The code keeps the books of the cache beside it: a history of chunks    *)
(* with their lengths and rounds, and the number of tokens to preserve.    *)
(* The window cuts by these lengths; the rollback point is a pair of       *)
(* lengths as well.  Here a token is <<round, kind>>, so that what a cut   *)
(* or a truncation takes away can be compared with what the books say.     *)
(*                                                                         *)
(* Left out: keys, values and their rotary positions (after a cut they are *)
(* those of the place in the cache), the audio encoder and the speech      *)
(* decoder.  All calls on the model come one after the other: one session  *)
(* holds it, under its operation lock (BackendSession).                    *)
(***************************************************************************)
EXTENDS Naturals, Sequences, SequencesExt, FiniteSetsExt

CONSTANTS
  High,        \* text_window_high_tokens
  Low,         \* text_window_low_tokens
  MaxInput,    \* max_inp_length of a chat request
  Bos,         \* tokens of the header that opens an answer
  ChunkSize,   \* generate_chunk_size
  MaxChunks,   \* num_chunks_decode
  Sizes,       \* lengths of a message of a half-duplex session
  SystemSize,  \* length of its system prompt
  Disciplined, \* the caller clears the rollback point after a turn
  NoSession, NoRound, NoSnapshot,
  ChatSession, \* the session id of a chat request
  MaxRound, MaxCache, MaxSessions  \* bounds of the instances

ASSUME TurnAssumption ==
  /\ {High, Low, MaxInput, Bos, ChunkSize, MaxChunks, SystemSize} \subseteq Nat \ {0}
  /\ Low <= High
  /\ Sizes \subseteq Nat \ {0}
  /\ Disciplined \in BOOLEAN
  /\ {MaxRound, MaxCache, MaxSessions} \subseteq Nat
  /\ NoRound \notin Nat

VARIABLES
  model,     \* the fields of MiniCPMO that a session changes
  snapshot,  \* _speculative_snapshot
  answer,    \* the generator of the answer under way
  before     \* the model when the snapshot was taken, while there is one; not in the code

vars == <<model, snapshot, answer, before>>

Tokens(round, kind, n) == [i \in 1..n |-> <<round, kind>>]

(* reset_session.  first says that audio_chunk_idx is zero: only that      *)
(* value is told apart from the others; reset_session leaves it alone.     *)
ResetSession(m) ==
  [m EXCEPT !.session = NoSession, !.cache = <<>>, !.history = <<>>,
            !.preserve = 0, !.nextRound = 0, !.pending = NoRound,
            !.newUser = TRUE, !.generated = FALSE]

(* set_mode, and set_half_duplex_mode, set_chat_mode and set_duplex_mode   *)
(* that call it: a change of mode resets the session.                      *)
SetMode(m, mode) ==
  IF m.mode = mode THEN m ELSE [ResetSession(m) EXCEPT !.mode = mode]

(* init_streaming_processor *)
InitStreaming(m) == [m EXCEPT !.first = TRUE]

Fed(m, tokens) == [m EXCEPT !.cache = @ \o tokens]

(* _register_chunk.  Of input_ids an entry keeps whether they open a       *)
(* user's turn.                                                            *)
RegisterChunk(m, n, kind, round, opens) ==
  IF n = 0 THEN m
  ELSE [m EXCEPT !.history = Append(@, [length |-> n, kind |-> kind,
                                        round |-> round, opens |-> opens]),
                 !.preserve = IF kind = "system" /\ n > @ THEN n ELSE @]

(* The entries of a round, their length, and the history without them. *)
Entries(m, round) == {i \in DOMAIN m.history : m.history[i].round = round}
RoundLength(m, round) ==
  FoldLeft(LAMBDA sum, e : IF e.round = round THEN sum + e.length ELSE sum, 0, m.history)
Without(history, round) ==
  FoldLeft(LAMBDA rest, e : IF e.round = round THEN rest ELSE Append(rest, e), <<>>, history)

(* Mutant: the cut starts at the front of the cache. *)
CutFromFront(m, n) == [m EXCEPT !.cache = SubSeq(@, n + 1, Len(@))]

(* _drop_tokens_from_cache and drop_tokens_from_cache: n tokens behind the *)
(* preserved ones, or none when there are fewer.                           *)
CanDrop(m, n) == n > 0 /\ Len(m.cache) > 0 /\ m.preserve + n <= Len(m.cache)
Cut(m, n) ==
  [m EXCEPT !.cache = SubSeq(@, 1, m.preserve)
                      \o SubSeq(@, m.preserve + n + 1, Len(@))]

(* _drop_next_round and _drop_round for one round *)
Droppable(m, round) ==
  /\ Entries(m, round) # {}
  /\ \A i \in Entries(m, round) : m.history[i].kind # "system"
  /\ CanDrop(m, RoundLength(m, round))

DropRound(m, round) ==
  [Cut(m, RoundLength(m, round))
     EXCEPT !.history = Without(@, round)]

(* _enforce_text_window.  The loop starts over at the oldest round every   *)
(* time; a round it had to skip is not droppable later either, since the   *)
(* cache only gets shorter, so that one pass over the history is the same. *)
EnforceTextWindow(m) ==
  IF Len(m.cache) <= High THEN m
  ELSE FoldLeft(LAMBDA d, e : IF Len(d.cache) > Low /\ Droppable(d, e.round)
                              THEN DropRound(d, e.round) ELSE d,
                m, m.history)

(* The end of both prefills: the tokens enter the cache between two looks  *)
(* at the window.                                                          *)
Prefilled(m, tokens, kind, opens) ==
  LET opened == EnforceTextWindow([m EXCEPT !.pending = m.nextRound])
  IN  EnforceTextWindow(
        RegisterChunk(Fed(opened, tokens), Len(tokens), kind, opened.pending, opens))

(* __init__ and init_unified, which ends in the streaming mode *)
Fresh ==
  [mode |-> "half", session |-> NoSession, cache |-> <<>>, history |-> <<>>,
   preserve |-> 0, nextRound |-> 0, pending |-> NoRound, newUser |-> TRUE,
   generated |-> FALSE, first |-> TRUE]

Init ==
  /\ model = Fresh
  /\ snapshot = NoSnapshot
  /\ answer = [phase |-> "none"]
  /\ before = Fresh

Idle == answer.phase = "none"

(* What the documentation asks of a caller: a snapshot is used or cleared  *)
(* before the session goes on.                                             *)
Cleared == Disciplined => snapshot = NoSnapshot

(* streaming_prefill of one message.  The first message of a session       *)
(* resets the model; a user's turn is opened by a marker, and its later    *)
(* segments are fed as they are.                                           *)
StreamingPrefill(model0, session, role, n, audio) ==
  LET isFirst == model0.session # session
      m == IF isFirst
           THEN [InitStreaming(ResetSession(model0)) EXCEPT !.session = session]
           ELSE [model0 EXCEPT !.newUser = @ \/ role # "user"]
      opens == role = "user" /\ m.newUser
      marker == IF opens THEN Tokens(m.nextRound, "turn", 1) ELSE <<>>
  IN  Prefilled([m EXCEPT !.newUser = @ /\ ~opens,
                          !.first = @ /\ ~(audio /\ role # "system")],
                marker \o Tokens(m.nextRound, role, n), role, opens)

(* HalfDuplexView.prefill.  A system prompt comes first in its session.    *)
Prefill(session, role, n, audio) ==
  /\ Idle /\ Cleared
  /\ LET m == SetMode(model, "half")
     IN  /\ role = "system" => m.session # session
         /\ m.session = session => Len(EnforceTextWindow(m).cache) < MaxCache
         /\ model' = StreamingPrefill(m, session, role, n, audio)
  /\ UNCHANGED <<snapshot, answer, before>>

(* non_streaming_prefill of all messages of a request.  The whole prompt   *)
(* is one chunk of kind "user", whatever it holds.                         *)
NonStreamingPrefill(m, n) ==
  LET started == [InitStreaming(ResetSession(m)) EXCEPT !.session = ChatSession]
  IN  Prefilled(started, Tokens(started.nextRound, "user", n), "user", TRUE)

(* ChatView.prefill *)
ChatPrefill(n) ==
  /\ Idle /\ Cleared
  /\ model' = NonStreamingPrefill(SetMode(model, "chat"), n)
  /\ UNCHANGED <<snapshot, answer, before>>

(* non_streaming_generate.  The header is registered, what is generated    *)
(* behind it is not; the last token is not fed.                            *)
NonStreamingGenerate(m, n) ==
  LET r == m.nextRound
      opened == RegisterChunk(Fed(m, Tokens(r, "header", Bos)), Bos, "assistant", r, FALSE)
  IN  [Fed(opened, Tokens(r, "assistant", n))
         EXCEPT !.pending = r, !.newUser = TRUE, !.generated = TRUE]

(* ChatView.generate *)
ChatGenerate(n) ==
  /\ Idle
  /\ model.mode = "chat" /\ model.session = ChatSession
  /\ Len(model.cache) + Bos + n <= MaxCache
  /\ model' = NonStreamingGenerate(model, n)
  /\ UNCHANGED <<snapshot, answer, before>>

(* Mutant: the snapshot is taken behind the resets of streaming_generate. *)
SaveSnapshotLate(m) ==
  [cache |-> Len(m.cache), history |-> Len(m.history), nextRound |-> m.nextRound,
   pending |-> m.pending, newUser |-> TRUE, generated |-> TRUE, first |-> TRUE]

(* _save_speculative_snapshot *)
SaveSnapshot(m) ==
  [cache |-> Len(m.cache), history |-> Len(m.history), nextRound |-> m.nextRound,
   pending |-> m.pending, newUser |-> m.newUser, generated |-> m.generated,
   first |-> m.first]

(* What streaming_generate does before its generator starts *)
StreamingGenerate(m) ==
  InitStreaming([m EXCEPT !.newUser = TRUE, !.generated = TRUE])

(* HalfDuplexView.generate and ChatView.streaming_generate, which takes no *)
(* snapshot, in the mode that has prefilled the session                    *)
Generate(speculative, audio) ==
  /\ Idle
  /\ model.session # NoSession /\ model.nextRound < MaxRound
  /\ Len(model.cache) < MaxCache
  /\ speculative => model.mode = "half"
  /\ IF speculative
     THEN snapshot' = SaveSnapshot(model) /\ before' = model
     ELSE UNCHANGED <<snapshot, before>>
  /\ model' = StreamingGenerate(model)
  /\ answer' = [phase |-> "answering", audio |-> audio, round |-> model.pending,
                chunks |-> 0, said |-> 0]

(* chunk_generate.  The first chunk feeds the header and up to ChunkSize   *)
(* tokens, a later one the token left over from the chunk before and those *)
(* it generates but the last; the terminator is not fed.                   *)
ChunkTokens(round, first, n) ==
  (IF first THEN Tokens(round, "header", Bos) ELSE <<>>)
  \o Tokens(round, "assistant", n)

(* One pass of the loop of audio_chunk_generator *)
AnswerChunk(n, finished) ==
  /\ answer.phase = "answering" /\ answer.chunks < MaxChunks
  /\ IF finished THEN n \in 1..ChunkSize ELSE n = ChunkSize
  /\ model' = Fed(model, ChunkTokens(model.nextRound, answer.chunks = 0, n))
  /\ answer' = [answer EXCEPT !.chunks = IF finished THEN MaxChunks ELSE @ + 1,
                              !.said = @ + n]
  /\ UNCHANGED <<snapshot, before>>

(* The terminator is the first token of the answer: the header is in the   *)
(* cache, and chunk_generate raises on the empty list of hidden states.    *)
AnswerRaises ==
  /\ answer.phase = "answering" /\ answer.chunks = 0
  /\ model' = Fed(model, ChunkTokens(model.nextRound, TRUE, 0))
  /\ answer' = [phase |-> "none"]
  /\ UNCHANGED <<snapshot, before>>

(* _finalize_round, with n the length of the answer's text encoded again   *)
Finalized(m, round, n) ==
  IF round = NoRound THEN [m EXCEPT !.pending = NoRound]
  ELSE [RegisterChunk(m, n, "assistant", round, FALSE)
          EXCEPT !.pending = NoRound, !.nextRound = @ + 1]

(* The end of audio_chunk_generator.  The text encoded again need not be   *)
(* as long as what was generated.  Without audio nothing is registered and *)
(* the round goes on.                                                      *)
FinalizeRound(n) ==
  /\ answer.phase = "answering" /\ answer.chunks = MaxChunks
  /\ n \in 1..answer.said
  /\ model' = IF answer.audio THEN Finalized(model, answer.round, n) ELSE model
  /\ answer' = [phase |-> "none"]
  /\ UNCHANGED <<snapshot, before>>

(* The consumer stops iterating. *)
Abandon ==
  /\ answer.phase = "answering"
  /\ answer' = [phase |-> "none"]
  /\ UNCHANGED <<model, snapshot, before>>

(* _truncate_llm_cache, and the cut of the history *)
Truncated(s, n) == IF Len(s) > n THEN SubSeq(s, 1, n) ELSE s
(* Mutants: the history, or the cache, keeps what the answer added. *)
RestoredBooks(m, s) ==
  [m EXCEPT !.cache = Truncated(@, s.cache),
            !.nextRound = s.nextRound, !.pending = s.pending,
            !.newUser = s.newUser, !.generated = s.generated, !.first = s.first]
RestoredCache(m, s) ==
  [m EXCEPT !.history = Truncated(@, s.history),
            !.nextRound = s.nextRound, !.pending = s.pending,
            !.newUser = s.newUser, !.generated = s.generated, !.first = s.first]
(* restore_speculative_snapshot *)
Restored(m, s) ==
  [m EXCEPT !.cache = Truncated(@, s.cache),
            !.history = Truncated(@, s.history),
            !.nextRound = s.nextRound, !.pending = s.pending,
            !.newUser = s.newUser, !.generated = s.generated, !.first = s.first]

(* HalfDuplexView.rollback.  It may come in the middle of the answer,      *)
(* whose generator is dropped then.                                        *)
Rollback ==
  /\ snapshot # NoSnapshot
  /\ model' = Restored(model, snapshot)
  /\ snapshot' = NoSnapshot
  /\ answer' = [phase |-> "none"]
  /\ before' = Fresh

(* clear_rollback_point *)
ClearRollbackPoint ==
  /\ Idle
  /\ snapshot # NoSnapshot
  /\ snapshot' = NoSnapshot
  /\ before' = Fresh
  /\ UNCHANGED <<model, answer>>

(* HalfDuplexView.reset_session and reset_half_duplex_session *)
Reset ==
  /\ Idle /\ Cleared
  /\ model.session # NoSession
  /\ model' = ResetSession(SetMode(model, "half"))
  /\ UNCHANGED <<snapshot, answer, before>>

(* A full-duplex session takes the model in between. *)
UseDuplex ==
  /\ Idle /\ Cleared
  /\ model.mode # "duplex"
  /\ model' = SetMode(model, "duplex")
  /\ UNCHANGED <<snapshot, answer, before>>

Next ==
  \/ \E session \in 1..MaxSessions, n \in Sizes, audio \in BOOLEAN :
       \/ Prefill(session, "user", n, audio)
       \/ Prefill(session, "assistant", n, FALSE)
  \/ \E session \in 1..MaxSessions : Prefill(session, "system", SystemSize, FALSE)
  \/ \E n \in 1..MaxInput : ChatPrefill(n)
  \/ \E n \in 1..ChunkSize : ChatGenerate(n)
  \/ \E speculative, audio \in BOOLEAN : Generate(speculative, audio)
  \/ \E n \in 1..ChunkSize, finished \in BOOLEAN : AnswerChunk(n, finished)
  \/ AnswerRaises
  \/ \E n \in 1..(MaxChunks * ChunkSize) : FinalizeRound(n)
  \/ Abandon
  \/ Rollback \/ ClearRollbackPoint
  \/ Reset \/ UseDuplex

Spec == Init /\ [][Next]_vars
-----------------------------------------------------------------------------
(* The system prompt stays in front: however many rounds the window has    *)
(* cut, the preserved tokens are those of the system prompt, all of them   *)
(* and no others (_register_chunk, drop_tokens_from_cache).                *)
SystemKept ==
  model.cache # <<>> =>
    /\ model.preserve \in {0, SystemSize}
    /\ \A i \in DOMAIN model.cache :
         model.cache[i][2] = "system" <=> i <= model.preserve

Booked(history) == FoldLeft(LAMBDA sum, e : sum + e.length, 0, history)

(* The books never claim more tokens than the cache holds, so that a drop  *)
(* takes what is there: abandoned, failed and finished answers, rollbacks  *)
(* and cuts leave the history at or below the cache.                       *)
BooksFit == Booked(model.history) <= Len(model.cache)

(* A segment that is fed without a marker continues an open turn of the    *)
(* user: as long as new_user_msg is off and the window has not dropped the *)
(* segment that opened the turn, the last marker in the cache is that of a *)
(* user's turn, also after a rollback, a failed answer and a cut.          *)
Markers == {i \in DOMAIN model.cache : model.cache[i][2] \in {"turn", "header"}}
OpenTurn ==
  /\ ~model.newUser
  /\ \E i \in DOMAIN model.history :
       model.history[i].opens /\ model.history[i].round = model.nextRound
  => Markers # {} /\ model.cache[Max(Markers)][2] = "turn"

(* A rollback leaves the model as it was before streaming_generate was     *)
(* called, whatever the answer has done in between.                        *)
RollbackRestores == [][Rollback => model' = before]_vars

=============================================================================
