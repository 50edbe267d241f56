----------------------------- MODULE DuplexUnit -----------------------------
(***************************************************************************)
(* A full-duplex session of the model (modeling_minicpmo_unified.py,       *)
(* DuplexCapability): prepare, then for every second of sound              *)
(* set_sticky_context, streaming_prefill, streaming_generate and           *)
(* finalize_unit.  streaming_generate decides token by token; here each    *)
(* token is a step, and a session may be stopped, cleaned up or begin anew *)
(* between any two of them.                                                *)
(*                                                                         *)
(* Embeddings, images and sampling are left out: the model may emit any    *)
(* token.  Text is the sequence of its word tokens, numbered as they come; *)
(* a word token has the width 1 (the code counts characters), a special    *)
(* token the width 0.                                                      *)
(***************************************************************************)
EXTENDS DuplexDecoder

CONSTANTS
  MaxSpeak,    \* max_new_speak_tokens_per_chunk
  GraceTokens, \* WORD_ALIGN_GRACE_TOKENS
  CharLimit,   \* CHUNK_CHAR_LIMIT
  GraceChars,  \* WORD_ALIGN_GRACE_CHARS
  ForceCount,  \* force_listen_count
  Texts,       \* the sticky texts, 0 clears
  NotPending,  \* _pending_finalize is None
  MaxSessions, \* bound on prepares
  MaxTries     \* bound on prefills

ASSUME UnitAssumption ==
  /\ {MaxSpeak, GraceTokens, CharLimit, GraceChars, ForceCount, MaxSessions,
      MaxTries} \subseteq Nat
  /\ Texts \subseteq Nat
  /\ NotPending \notin [listen : BOOLEAN, words : Seq(Nat)]

VARIABLES
  mode,     \* sliding_window_mode of the session
  dec,      \* the decoder
  phase,    \* off, idle, prefilled, decoding, generated
  stop,     \* session_stop_event
  open,     \* ~current_turn_ended
  logits,   \* pending_logits is not None
  pending,  \* _pending_finalize
  calls,    \* _streaming_generate_count, up to ForceCount
  voice,    \* tts_text_start_pos and tts_past_key_values: fresh or running
  force,    \* the override in effect: none, listen, speak
  j,        \* the index of the loop over tokens
  words,    \* the word tokens in total_ids_in_unit
  ended,    \* end_of_turn
  session,  \* prepares so far
  tries,    \* prefills so far, which number the units
  first,    \* history: tries when the session was prepared
  serial,   \* history: word tokens fed so far
  spoken,   \* history: the words of the session that were delivered
  short     \* history: a prefill of the session met too little sound

vars == <<mode, dec, phase, stop, open, logits, pending, calls, voice, force, j,
          words, ended, session, tries, first, serial, spoken, short>>

Modes == {"off", "basic", "context"}

(* listen; chunk_eos or chunk_tts_eos; turn_eos; a word token that begins  *)
(* a word or goes on with one; any other token, <|speak|> and <|tts_bos|>  *)
(* among them.                                                             *)
Kinds == {"listen", "chunk_eos", "turn_eos", "begin", "more", "special"}
Terminators == {"listen", "chunk_eos"}

Cap == MaxSpeak + GraceTokens

(* The state _reset_streaming_state leaves. *)
Fresh ==
  /\ open' = FALSE
  /\ logits' = FALSE
  /\ pending' = NotPending
  /\ calls' = 0
  /\ voice' = "fresh"
  /\ force' = "none"
  /\ j' = 0
  /\ words' = <<>>
  /\ ended' = FALSE

Init ==
  /\ mode = "off" /\ dec = Reset /\ phase = "off" /\ stop = FALSE
  /\ open = FALSE /\ logits = FALSE /\ pending = NotPending /\ calls = 0
  /\ voice = "fresh" /\ force = "none" /\ j = 0 /\ words = <<>> /\ ended = FALSE
  /\ session = 0 /\ tries = 0 /\ first = 0 /\ serial = 0 /\ spoken = <<>>
  /\ short = FALSE

(* set_sliding_window, then prepare, which clears what any former session  *)
(* left, however it ended.                                                 *)
Prepare(m) ==
  /\ session < MaxSessions
  /\ session' = session + 1
  /\ mode' = m
  /\ dec' = SystemPrompt(m)
  /\ phase' = "idle"
  /\ stop' = FALSE
  /\ Fresh
  /\ first' = tries
  /\ spoken' = <<>>
  /\ short' = FALSE
  /\ UNCHANGED <<tries, serial>>

(* set_session_stop, from the task that closes the session. *)
Stop ==
  /\ phase # "off" /\ ~stop
  /\ stop' = TRUE
  /\ UNCHANGED <<mode, dec, phase, open, logits, pending, calls, voice, force, j,
                 words, ended, session, tries, first, serial, spoken, short>>

(* cleanup, after a stop or a step that raised. *)
Cleanup ==
  /\ phase # "off"
  /\ phase' = "off"
  /\ dec' = Reset
  /\ Fresh
  /\ spoken' = <<>>
  /\ UNCHANGED <<mode, stop, session, tries, first, serial, short>>

SetContext(text) ==
  /\ phase = "idle"
  /\ pending = NotPending
  /\ dec' = SetSticky(dec, text)
  /\ dec' # dec
  /\ UNCHANGED <<mode, phase, stop, open, logits, pending, calls, voice, force, j,
                 words, ended, session, tries, first, serial, spoken, short>>

(* streaming_prefill.  A unit begins with <unit>; with too little sound    *)
(* in the buffer it goes no further, and its <unit> stays in the cache.    *)
(* With a unit that is not finalised it raises: Layout says that this      *)
(* never happens.                                                          *)
Prefill(enough) ==
  /\ phase = "idle"
  /\ ~stop
  /\ pending = NotPending
  /\ tries < MaxTries
  /\ tries' = tries + 1
  /\ phase' = "prefilled"
  /\ dec' = Feed(UnitStart(dec), Tokens("unit", tries + 1, IF enough THEN 2 ELSE 1))
  /\ logits' = enough
  /\ short' = (short \/ ~enough)
  /\ UNCHANGED <<mode, stop, open, pending, calls, voice, force, j, words, ended,
                 session, first, serial, spoken>>

-----------------------------------------------------------------------------
(* streaming_generate.                                                     *)

(* A stopped session and a failed prefill have nothing to generate from,   *)
(* and nothing to finalise.                                                *)
GenerateNothing ==
  /\ phase = "prefilled"
  /\ stop \/ ~logits
  /\ phase' = "idle"
  /\ UNCHANGED <<mode, dec, stop, open, logits, pending, calls, voice, force, j,
                 words, ended, session, tries, first, serial, spoken, short>>

(* Mutant: a forced listen does not close the turn that is open. *)
GenerateInto(override, inject) ==
  LET listen == calls < ForceCount \/ override = "listen"
      extra == IF inject /\ ~listen THEN 1 ELSE 0
  IN
  /\ phase = "prefilled"
  /\ ~stop /\ logits
  /\ logits' = FALSE
  /\ force' = IF listen THEN "listen" ELSE override
  /\ calls' = IF calls < ForceCount THEN calls + 1 ELSE calls
  /\ dec' = Feed(dec, Tokens("unit", tries, extra))
  /\ phase' = "decoding"
  /\ j' = 0 /\ words' = <<>> /\ ended' = FALSE
  /\ UNCHANGED <<mode, stop, open, pending, voice, session, tries, first, serial,
                 spoken, short>>

(* The overrides.  A forced listen closes a turn that is open with a       *)
(* turn_eos; a text is injected only where a turn could begin.             *)
Generate(override, inject) ==
  LET listen == calls < ForceCount \/ override = "listen"
      closes == override = "listen" /\ open
      extra == (IF closes THEN 1 ELSE 0) + (IF inject /\ ~open /\ ~listen THEN 1 ELSE 0)
  IN
  /\ phase = "prefilled"
  /\ ~stop /\ logits
  /\ logits' = FALSE
  /\ force' = IF listen THEN "listen" ELSE override
  /\ calls' = IF calls < ForceCount THEN calls + 1 ELSE calls
  /\ open' = (open /\ ~closes)
  /\ dec' = Feed(dec, Tokens("unit", tries, extra))
  /\ phase' = "decoding"
  /\ j' = 0 /\ words' = <<>> /\ ended' = FALSE
  /\ UNCHANGED <<mode, stop, pending, voice, session, tries, first, serial, spoken,
                 short>>

(* What becomes of a sampled token: no listen while a turn is open, and    *)
(* none at the start of a unit that is forced to speak.                    *)
Taken(t) ==
  CASE force = "listen" -> "listen"
    [] force # "listen" /\ t = "listen" /\ (open \/ (force = "speak" /\ j = 0)) -> "special"
    [] OTHER -> t

Wide(t) == t \in {"begin", "more"}

(* The budget: a word that would begin beyond it, or anything beyond the   *)
(* grace, is rejected.                                                     *)
OverBudget(t) ==
  LET width == Len(words) + (IF Wide(t) THEN 1 ELSE 0)
  IN  /\ j # 0
      /\ width >= CharLimit \/ j >= MaxSpeak - 1
      /\ t = "begin" \/ width >= CharLimit + GraceChars

(* The end of the loop: what is returned, the unit to finalise, and the    *)
(* state of the voice, which a unit that listened leaves alone.            *)
Generated(listen) ==
  /\ phase' = "generated"
  /\ pending' = [listen |-> listen, words |-> words]
  /\ spoken' = IF listen THEN spoken ELSE spoken \o words
  /\ voice' = IF listen THEN voice ELSE IF ended THEN "fresh" ELSE "running"
  /\ force' = "none"
  /\ UNCHANGED <<mode, dec, stop, logits, calls, j, words, ended, session, tries,
                 first, serial, short>>

HardCap ==
  /\ phase = "decoding"
  /\ j = Cap - 1
  /\ Generated(FALSE)
  /\ UNCHANGED open

Terminate(t) ==
  /\ phase = "decoding"
  /\ j < Cap - 1
  /\ Taken(t) \in Terminators
  /\ Generated(Taken(t) = "listen")
  /\ UNCHANGED open

(* The rejected token is not fed, but it has opened the turn. *)
Reject(t) ==
  /\ phase = "decoding"
  /\ j < Cap - 1
  /\ Taken(t) \notin Terminators
  /\ OverBudget(Taken(t))
  /\ Generated(FALSE)
  /\ open' = TRUE

(* A token is fed.  The first one of a unit is no part of its text. *)
Token(t) ==
  LET e == Taken(t)
      word == j # 0 /\ Wide(e)
  IN
  /\ phase = "decoding"
  /\ j < Cap - 1
  /\ e \notin Terminators
  /\ ~OverBudget(e)
  /\ dec' = Feed(dec, Tokens("unit", tries, 1))
  /\ open' = (e # "turn_eos")
  /\ ended' = (e = "turn_eos")
  /\ words' = IF word THEN Append(words, serial + 1) ELSE words
  /\ serial' = IF word THEN serial + 1 ELSE serial
  /\ j' = j + 1
  /\ UNCHANGED <<mode, phase, stop, logits, pending, calls, voice, force, session,
                 tries, first, spoken, short>>

(* finalize_unit: the terminator and </unit>, the history, the window. *)
FinalizeUnit ==
  /\ phase = "generated"
  /\ dec' = Enforce(mode, UnitEnd(Feed(dec, Tokens("unit", tries, 2)), tries,
                                  pending.listen, pending.words))
  /\ pending' = NotPending
  /\ phase' = "idle"
  /\ j' = 0 /\ words' = <<>> /\ ended' = FALSE
  /\ UNCHANGED <<mode, stop, open, logits, calls, voice, force, session, tries,
                 first, serial, spoken, short>>

Next ==
  \/ \E m \in Modes : Prepare(m)
  \/ Stop \/ Cleanup
  \/ \E text \in Texts : SetContext(text)
  \/ \E enough \in BOOLEAN : Prefill(enough)
  \/ GenerateNothing
  \/ \E override \in {"none", "listen", "speak"}, inject \in BOOLEAN :
       Generate(override, inject)
  \/ HardCap
  \/ \E t \in Kinds : Terminate(t) \/ Reject(t) \/ Token(t)
  \/ FinalizeUnit

Spec == Init /\ [][Next]_vars
-----------------------------------------------------------------------------
(* Between two units nothing waits to be finalised (the prefill would      *)
(* raise), the history is of this session alone, and the cache is the      *)
(* system prompt with its memory and its sticky text, then the units of    *)
(* the history in their order and nothing else, although every cut is made *)
(* by lengths alone; provided that no prefill of the session met too       *)
(* little sound.                                                           *)
Layout ==
  phase = "idle" =>
    LET system == Prefix \o Previous(dec) \o dec.sticky \o Suffix
    IN  /\ pending = NotPending
        /\ \A i \in DOMAIN dec.units : dec.units[i].no > first
        /\ ~short /\ ~stop =>
             /\ dec.preserve = Len(system)
             /\ dec.cache = system \o FlattenSeq([i \in DOMAIN dec.units |->
                              Tokens("unit", dec.units[i].no, dec.units[i].len)])

(* What the prompt remembers and what the units in the window said is what *)
(* the session delivered last, each word once and in order: the memory is  *)
(* full before a word is forgotten.                                        *)
MemoryIsLatestSpoken ==
  mode = "context" /\ phase = "idle" =>
    LET recent == FlattenSeq([i \in DOMAIN dec.units |-> Extract(dec.units[i])])
    IN  /\ IsSuffix(dec.said \o recent, spoken)
        /\ \/ Len(dec.said) = MaxPrev
           \/ dec.said \o recent = spoken

(* The model never goes over to listening in the middle of its turn: a     *)
(* unit that listened leaves no turn open, be it forced to listen by the   *)
(* client or in the first calls of the session.                            *)
ListensBetweenTurns ==
  pending # NotPending /\ pending.listen => ~open
=============================================================================
