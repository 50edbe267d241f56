# Verification of the omni gateway and its booking desk

TLA+ models, TLC runs and TLAPS proofs for the program in `src/`: a gateway that
shares a few GPU workers among browser sessions with a multimodal voice model, and a
booking desk (the "HUD") in which that model plays the operator while a state machine
in the gateway keeps the record of what is being booked.

* [The system](#the-system) - inventory of the components and how they interact
* [Modules](#modules) - which module models what, and how state and actions correspond
* [Runs](#runs) - what each run asks, with which bounds, and why they are enough
* [Where the code and its words differ](#where-the-code-and-its-words-differ)
* [Fairness](#fairness)
* [Proofs](#proofs)
* [What is not modelled](#what-is-not-modelled)
* [Plan](#plan)

Parse with SANY, check with `tlc -config <cfg> <module>`, prove with `tlapm <module>`.

## The system

```
browser ──ws──> gateway.py ──ws──> worker.py ──http/ws──> py_backend/server.py ──> model
   │               │  WorkerPool: queue, health loop, registration        DuplexCapability
   │               │  session recording ─> data/sessions <─ clean-up      StreamDecoder
   │               └─ reference audio, apps, static pages
   └─ hud page: speech recogniser, extractor, judge ──http──> gateway.py: booking desk
```

| component | state | operations | what is hard about it | what makes it correct |
|---|---|---|---|---|
| **Worker pool** (`gateway_modules/worker_pool.py`) | per worker: status, `_gateway_dispatched`; the ticket queue with a Future each | `enqueue`, `cancel`, `release_worker`, `register_worker`, health rounds, `_dispatch_next` | five places dispatch, between the awaits of many handlers; `/health` answers are applied after the world changed | a worker is used by one handler; nobody waits beside an idle worker; no worker is lost |
| **Realtime handler** (`gateway.py`, `_api_worker_passthrough_ws`) | local: ticket, worker, two relay tasks | queue and report position, connect to the worker, relay and record, clean up | every send and connect may fail while the ticket is being resolved; two tasks record | whatever ends the handler, its worker comes back and its recording is closed |
| **Worker** (`worker.py`, `worker_state.py`, `runtime/`) | one session, a status for `/health` | accept, init, relay, close | the check of `is_idle` and the setting of the status lie on two sides of an await; close takes up to 30 s after the gateway released | becomes idle again whatever fails |
| **Backend** (`py_backend/server.py`) | `active_session_id`, a session object, its finalisation task | init, push, close, fatal, drain | close over HTTP against a push in progress; model calls in threads that outlive their cancelled task; an exception between `closed = True` and `forget` | one session in the model; the slot is never lost |
| **Full-duplex session** (`MiniCPMO45/modeling_minicpmo_unified.py`, `DuplexCapability`) | turn, force flags, pending finalisation, TTS positions | prepare, prefill, generate token by token, finalise, stop, cleanup | a stop between any two tokens; overrides of the operator's page; tokens that are rejected | turns end, nothing of a session reaches the next |
| **Sliding window** (`MiniCPMO45/utils.py`, `StreamDecoder`) | cache, units as lengths, region of previous words, sticky text | register, cut in two modes, rebuild the prompt | only lengths are kept: a unit of the wrong length makes every later cut wrong | the cache is laid out as the lengths say; words dropped are the words remembered |
| **Turn-based sessions** (`modeling_minicpmo_unified.py`, half duplex and chat) | KV cache, history of chunks with lengths and rounds, tokens to preserve, rollback point | prefill, generate chunk by chunk, finalise a round, abandon, roll back, reset, change of mode | the books are kept beside the cache and cut it by lengths; an answer may fail, be abandoned or rolled back between any two chunks | the system prompt stays, the books never claim more than there is, a rollback is exact |
| **Sound of a session** (`processing_minicpmo.py`, `StreamingMelProcessorExact`; `streaming_prefill`; `get_audio_embedding_streaming`; the voice's end of `streaming_generate`) | samples that wait, window of frames, encoder's cache; the voice's buffer and model | push of sound, hand-out of a second with margins, slide, encoder reset; voice a unit, reset at a turn's end | margins, slides and cuts are arithmetic on counts; turns end in five ways, not all of which the voice is told of | every sample is heard once; every token of the voice is voiced once, in its turn |
| **Answers of a turn** (`utils.py`, `TTSStreamingGenerator`; `modeling_minicpmo_unified.py`) | chunks of words, the voice's cache, token and waveform buffers | think a chunk, draw voice tokens, stream, flush, or all at once | leftovers and lookahead at four borders; four ways to keep the voice's cache short | what is thought is said and heard, once and in order |
| **Booking desk** (`gateway.py` l. 750-1760) | the record of the machine (`_HUD_DB["fsm"]`), the bookings (`_HUD_DB["slots"]`), both saved to a file | customer events, operator turns, form bookings, resets | a request is filled from two voices in any order, corrected, proposed, refused, confirmed; the form changes the bookings behind the machine's back | only a yes to a question writes, and it writes what was asked, if it is still true |
| **HUD judge** (`hud_fsm_omni_turn`, `_hud_supervise`) | semaphore level, hint, `seq`, help counter | verdict on a turn of the operator | verdicts arrive late, on records that have changed | a stale verdict has no effect; no endless help |
| **HUD page** (`static/hud/hud-app.js`) | busy flags, pending lines, timers, force flags | end of a customer's or operator's turn, mid-turn checks, chunks | two kinds of verdicts in flight, three timers | the newest lines are heard, no stuck flag |
| **Session recording** (`gateway_modules/session_recording.py`) | frame counter, early frames, files, a pool of 4 threads | record, close | frames are numbered on the event loop but appended by a pool; the recorder is made late | every frame is recorded, in order |
| **Session cleanup** (`session_cleanup.py`) | session directories | expire, trim to a capacity | a thread beside recordings and comments; dates written in two formats; removals that fail half-way | oldest first, never a session in progress |
| **Browser client** (`static/duplex/lib`, `static/audio-duplex`) | connection phase, player, buttons, microphone | start, stop, every end of a session, audio chunks | three ends of a session in any stage of `start()`; timers of a session that is over | one page, one session; there is always a way out |
| Registries of reference audio and apps | files | add, remove, list | - | - |
| Tensors, VAD, speech recognition and language-model servers | tensors, caches | inference | numerical | outside the reach of model checking |

**How they interact.** A browser opens a WebSocket; its handler in the gateway takes a
ticket from the pool, waits on the ticket's future, and is given a worker. It greets the
browser, opens a second WebSocket to the worker, relays frames both ways, recording them,
and finally releases the worker, which dispatches the queue. A health loop asks every
worker every ten seconds and corrects the statuses; workers may be registered while all
this goes on. The gateway is one asyncio program, so shared state changes only between
awaits, and every await lets every other handler run.

The worker opens a third WebSocket to its backend, and closes the backend's session with
an HTTP request once the gateway has left, so that the next session may arrive while the
last one is still being torn down. The backend runs the model in threads: prepare, the
prefill and the generation of each second, its finalisation, stop and cleanup.

The booking desk is a second protocol over the same gateway. The page posts what the
customer said (as an operation chosen by an extractor model), and what a judge model
read in the operator's turns. The gateway applies one operation to the record, reads or
writes the bookings, and answers with what to show. The booking form and the resets are
posted independently of both.

## Modules

| module | kind | models |
|---|---|---|
| `WorkerPool` | detailed | the pool, the handlers, the health loop, registration, and the worker hosts as the pool sees them |
| `WorkerLeases` | abstract | a line of clients and a lease per worker |
| `BackendSession` | detailed | the backend server: its registry, its two tasks per session and the threads of the model |
| `BackendBridge` | composition | the worker's handlers on top of `BackendSession`, and the gateway's sockets |
| `DuplexDecoder` | functions | the cache of a full-duplex session and its two sliding windows |
| `DuplexUnit` | detailed | a full-duplex session, token by token, over `DuplexDecoder` |
| `MelStream` | functions | the processor's window of frames and the sound encoder's cache |
| `DuplexSound` | detailed | the sound a full-duplex session hears and makes, over `MelStream` |
| `TurnSession` | detailed | the cache and the books of the turn-based sessions |
| `AnswerVoice` | detailed | one answer of a turn-based session, from its tokens to text and sound |
| `SessionRecording` | detailed | the relay tasks, the recorder and its pool of threads |
| `SessionStore` | composition | the directories, the clean-up and the comments beside `SessionRecording` |
| `BookingFsm` | functions | the booking machine: record × bookings × call → record × bookings |
| `BookingDesk` | detailed | the machine, the bookings and the routes that change them |
| `BookingContract` | abstract | an open question and the bookings |
| `HudLight` | functions | what the gateway's judge does to the record |
| `HudPage` | detailed | the page of a call, over `HudLight` |
| `AudioPlayer` | functions | the playback of the model's voice |
| `RealtimeClient` | detailed | the audio page and the sessions it starts, over `AudioPlayer` |
| `WorkerPoolProofs`, `BackendProofs`, `DuplexProofs`, `SoundProofs`, `TurnProofs`, `BookingDeskProofs`, `BrowserProofs`, `SessionProofs` | proofs | theorems about `WorkerPool`, `BackendBridge`, `DuplexUnit`, `DuplexSound`, `TurnSession`, `BookingDesk`, both pages (`HudPage`, `RealtimeClient`), and the storage and the answers of a session (`SessionStore`, `AnswerVoice`) |
| `MCWorkerPool`, `MCBackend`, `MCDuplexUnit`, `MCDuplexSound`, `MCTurnSession`, `MCAnswerVoice`, `MCSessionStore`, `MCBookingDesk`, `MCHudPage`, `MCRealtimeClient` | instances | values for TLC |

Operators whose comment begins with *Mutant* are deliberate bugs that take the place of
the definition that follows them, to show that a property notices; nothing uses them.
Variables and record fields called *history* exist for the properties alone: no guard
reads them.

### WorkerPool

The variables are the fields of the program: `known` (keys of `workers`), `status` and
`dispatched` of each `WorkerConnection`, `queue` and `future` of `_queue`, the
`/health` requests in flight (`round`, `reply`), and where each handler is suspended
(`pc`) with its local variable `worker`. `host` is what runs at a worker's endpoint, the
one external part. `moved` and `orphans` are history: which workers were registered
under another endpoint and which handlers still talk to the former one.

One action is what runs between two awaits. `ArriveAssigned`/`ArriveQueued` are
`enqueue`; `Sent`, `SendFails`, `WaitTimeout` and `Wake` are the loop in which a queued
handler sends its position and waits three seconds on its future; `Greeted`, `Connected`
and `SessionEnds` its session; `Release` its `finally`. `RoundStarts`, `HostAnswers`,
`ReplyApplied`, `RoundEnds` are the health loop with its gather, `Register`,
`RegisterElsewhere` and `Registered` the two halves of `register_worker`. `Dispatch` is
`_dispatch_next`, part of each of the five actions that call it: it is stated as the
result of the loop (how many tickets are served, and by which workers).

Abstracted: request types (every worker supports all), the difference between chat and
duplex statuses, positions and waiting-time estimates, what is forwarded.

### BackendSession and BackendBridge

The backend is one event loop and a few threads. `active` and `sessions` are the registry
(`active_session_id`, the dictionary), `at[s]` where the two tasks of a session are
suspended: the handler of its WebSocket (`ws`: prepare, waiting for an input, a step, the
wait for the last finalisation, the stages of a close) and the HTTP route that closes it
(`http`). `closed`, `fin` and `told` are the flag, the finalisation task and whether the
closing event was sent; `orphans` are the sessions with a thread in the model whose
awaiting task was cancelled, which Python cannot stop. `admitted`, `overtaken` and `lost`
are history: which sessions were registered, which were forgotten while a call of their
own was running, and which ended in a tear-down that raised.

`BackendBridge` adds the worker: its `status`, the stage of its handler for each session
(`accept`, `first`, `init`, `live`, then `asking` or `closing`, `done`), and the gateway's
socket. The gateway sends one session at a time, since the pool's exclusivity says so,
but the next one as soon as the former socket is gone. Two sessions may still be in
front of the idle check at once: the check and the setting of the status lie on two
sides of `ws.accept()`.

A payload is nothing; a call of the model takes time and may raise; a turn-based session
differs from a full-duplex one by having no finalisation and by its step ending a turn.

### DuplexDecoder and DuplexUnit

The code keeps the *lengths* of units and trusts that they add up to the cache. Here a
token is `<<kind, n>>`, so that a cut in the wrong place shows: `Layout` compares the
cache with what the lengths claim. `Enforce` is the cut of either mode: `EnforceBasic`
drops the oldest units between a high and a low mark, `EnforceContext` also moves the words
they spoke to a region of the prompt, which is rebuilt (`Rebuild`). `SetSticky` writes a
sticky text behind it.

`DuplexUnit` follows one second of sound: `Prefill` (`streaming_prefill`), `Generate`
(entry of `streaming_generate`, with its forced cases), `Token` (one round of its loop, with
the limits and the overrides), `FinalizeUnit`, and `Stop`, `Cleanup` and `Prepare`
at any moment between two of them. Which token the model emits, and whether a
token is rejected, is free. A word is one character wide.

### MelStream and DuplexSound

Sound is counted. `MelStream` is the arithmetic of `StreamingMelProcessorExact` (a window
that grows by a second, slides by a stride, and hands out a second with a margin on either
side) and of the encoder, which cuts the margins off again and drops its cache when its
positions run out. `DuplexSound` is what the session does with it: `TooLittle` and `Hear`
are the two outcomes of `streaming_prefill`, `NothingToSay` the call of
`streaming_generate` behind a prefill that gave it nothing.

The other half are the tokens of the voice, `<<turn, n>>`: `Listen`, `EndsListening` and
`Speak` are what a unit comes to for it, by how its tokens ended and began turns. `Left`
is the loop of `_generate_waveform_from_tokens`, which voices a second at a time and
keeps back what the vocoder has to look at. `loose` is history: the turns that ended
without the voice being told, which is where tokens of two turns may meet.

### TurnSession

The fields of `MiniCPMO` that a session changes are one record, `model`, since every method
reads and writes several of them; an operator per method, and an action per call of a view
(`HalfDuplexView`, `ChatView`). A cache is a sequence of `<<round, kind>>`, so that what a
cut by lengths takes away can be compared with what the books say. An answer is a
generator: `Generate` makes it, `AnswerChunk` is one pass of its loop, `AnswerRaises` the
pass that fails at a terminator that comes first, `FinalizeRound` its end, `Abandon` a
consumer that stops. `Rollback` may come in between.

`Disciplined` says that a caller uses or clears the rollback point before it goes on, as the
documentation asks. `before` is history: the model a snapshot was taken of.

### AnswerVoice

One answer, made in one of three ways (`path`): streamed with its voice, streamed as text,
or as a whole. `Think` is one chunk of words, with the token an unfinished chunk leaves over
for the next and the hidden states collected beside them; `VoiceToken`, `VoiceEnds` and
`VoiceLimit` are the passes of the voice's model over a chunk. Its cache is modelled entry by
entry with positions, in the four ways of keeping it short (`attention`). Behind it are
the buffers: tokens until a batch is full, batches until the vocoder can look ahead, and what the
client has been sent. When a generator yields, those behind it run at once, so an action goes
through all of them.

### SessionRecording and SessionStore

The two relay tasks pass a frame on and then record it; between the two is an await.
Frames that come before the recorder exists wait in `buffer`. The recorder numbers a
frame on the event loop and hands lines and blobs to a pool of threads: `jobs` is the
pool's queue in order of submission, of which the first `Threads` run. A crash drops what
is in it.

`SessionStore` puts the clean-up beside it, a thread in the same process: it lists, reads
each `meta.json`, removes what has expired, and then the oldest until the rest fits, file
by file. A removal may fail at a file that appears or a directory that fills while it
runs (`unlink`, `rmdir`). Comments are written by a route to any directory.

### HudLight and HudPage

`HudLight` has the record as the judge sees it: its `form` (what the machine's fields come
to), `seq`, the light, and the form that was helped last with the number of helps.
`JudgedBy` is `hud_fsm_omni_turn`, applied if the verdict `Fits`: stale if `seq` differs, else the light goes up or down,
helps or asks for silence. What an event or a readback makes of the request is
`BookingFsm`'s matter: any other form.

In `HudPage` the page's one thread has lines (`spoken`, in `hand`, `pending`) and verdicts
under way (`call`, each with the record its question was about, `cut` for a judgement in
the middle of a turn). The page sends `seq` as its copy of the record shows it when the
question is asked, and the gateway compares it with the record when the answer is there.

### AudioPlayer and RealtimeClient

`AudioPlayer` is a record with one operator per method. `RealtimeClient` has the page (the
session it is about, its phase, its two buttons, the microphone) and for every session
it starts where `start()` is suspended, the socket, the promise of the queue, and the
timers that will stop it. What runs between two awaits, or in one event handler, is one
action: `Start`, `Opened`, `Queued`, `QueueDone`, `Created`, `MediaReady`, the chunks, and
every way for a session to end (`ServerError`, `SocketCloses`, `Closed`, `StopClick`, and
`StopOnLimit`, the stop a session has scheduled for itself two seconds earlier). `deaf` and `struck` are history and mark the two
defects told below.

### BookingFsm and BookingDesk

`BookingFsm` has no variables. `Apply` is `_hud_fsm_apply`: it takes the record `f`, the
bookings `b` and one call, and returns the new ones with the flag `changed`. Its parts
follow the branches of the function: `Heard` (the operator's readback or proposal),
`No`, `Yes`, `Set` (in the steps `Started`, `Widened`, `Stated`), and the common end
`Conclude`: either collect on (`Collect`) or execute (`Execute` with `ExecCheck`,
`ExecBook`, `ExecUnbook`). `SameRecord` is the idempotence test.

Values are what the normalisers make of words. A day is a number and a time a span of
hours; `Any`, `YouPick` and `Unclear` stand for the classes of words the machine tells
apart beside values. Python's in-order application of several values of one line is kept
(a number given for the month is routed to day or time before the line's own day and
time are set). `detail` is the set of the conflicting times where the screen names the
first of them.

`BookingDesk` adds the variables `fsm` and `booked` and the requests. Each route awaits
only its own body and then runs to the end, so one request is one action. The record and
the bookings are written to the file at every change and read at the start of the
process, so a restart of the gateway is not a step of its own. `YesFades` is the
eight-second window of a yes that answered nothing.

`BookingContract` knows one open question and the bookings. `Question` maps the record to
it: CONFIRM with an offered or pending slot that has a time is a question to book,
`pending_cancel` a question to cancel.

## Runs

| run | asks | bounds |
|---|---|---|
| `pool_safety` | exclusivity, work conservation, the one way to lose a worker; the pool implements `WorkerLeases` | 2 workers on one GPU, 3 clients, queue of 2, 1 crash; clients symmetric |
| `pool_liveness` | queued handlers are served or end | 1 worker that is registered again and moves to another endpoint, 2 clients, 1 crash, fair |
| `backend_slot` | steps wait for finalisations; who may be in the model; the slot and the worker come back | 1 full-duplex session with 2 inputs, 1 turn-based with 1; 1 fault; fair |
| `duplex_units` | the layout of the cache, with nothing in it of another session or waiting to be finalised; the memory of dropped words; the ends of turns | 2 sessions, 4 seconds, 1 unit kept, every limit at 1 to 3 tokens, either window mode |
| `duplex_sound` | every sample is heard once, with its margins; every token of the voice is voiced once and in its turn | a second of 4 frames of 2 samples and of 4 voice tokens; sound comes in 3, 8 or 17 samples; 2 sessions, 5 calls; the window slides at the third second, and the encoder's positions run out |
| `turn_window` | the system prompt stays, the books fit the cache, open turns go on, rollbacks are exact | marks of 7 and 5 tokens, messages of 2, a system prompt of 1, answers of 2 chunks of 1 token, 2 rounds beside the first, 1 session, a disciplined caller |
| `answer_voice` | tokens are heard once and in order, said as thought, and spoken with whole chunks in view | chunks of 2 words, at most 5; 3 voice tokens a batch with 1 of lookahead, at most 4 a chunk; windows of 7 tokens and of 3 chunks with 1 recomputed |
| `storage_beside` | the recording is whole, in order and left alone; oldest first; every line is written | 2 old directories and a live one, 2 frames up and 1 down, 2 threads, 1 pass, 3 days; fair |
| `desk_voice` | questions stay true, bookings made by voice never clash, no dead end, the operator never overrules, repeats are null | 1 month, 2 days, 2 hours and the span between them; every kind of line except "you choose", readbacks and proposals of the operator, and its claim that a slot is taken |
| `desk_form` | the desk implements `BookingContract`; only a yes writes; refused values do not come back | 2 days, 2 hours; lines that delegate, refuse, accept, cancel; the form books and frees an hour and a span between any two of them |
| `hud_call` | late verdicts, the cap on help, the newest lines wait | 1 form beside idle, 3 lines with 1 place to wait, 2 verdicts under way, 1 reset; verdicts symmetric |
| `client_session` | the voice plays in order, nothing outlives a session, there is a way out | 3 starts, 3 chunks and 1 scheduled stop each |

*Why the bounds suffice for the pool.* Three clients on two workers give a queue while
another ticket is being dispatched, which is what overtaking and lost wake-ups need; a
second crash only repeats the first. A queue of two is full with three clients only when
no worker is idle, which is when a client is refused. Symmetry in the clients is sound
since only the queue orders them, in both specifications: where exclusivity holds, the
refinement's choice of a lease holder has one candidate, so the mapping is symmetric too.
It is not used for liveness. Registration happens in `pool_liveness`.

*For the backend.* A session of each kind pass the check together, each may be refused or
evict; two inputs make the second meet the finalisation of the first; one fault puts an
exception or a timeout at every stage in turn. Three sessions would only repeat the pair.

*For the full-duplex session.* The prompt, the limits and the windows have the smallest
lengths at which a cut, a partial unit, an overrun and the loss of remembered words differ
(two tokens of prefix and one of suffix, a high mark of 14 and a low one of 8, two
remembered tokens). The second session follows every state in which the first can end.

*For the sound.* Every quantity is the smallest at which the cases differ: a first call that
is longer than a second and exactly as long as the assumptions allow, sound that is short
of a second, of one second and of more than two, a slide while a margin is still needed,
an encoder that runs out of positions, and a vocoder that keeps back a part of a second.
The real values (a second of 100 frames, a first call of 103, a margin of 2, slides of 1000
at 3000 frames, 1500 positions) satisfy the same assumptions, and the theorems are about all that do.

*For the turns.* One round that can be dropped (the one behind the first, which holds the
system prompt) with an answer in it, a window that is full after two messages, and answers
of more than one chunk: what a second session or a third round would add is that a reset
clears everything, and that cuts repeat, which the theorems cover.

*For the answers.* The real values are 10 words a chunk, 25 voice tokens a batch with 3 of
lookahead and of silence, 500 a chunk, windows of 300 tokens. The run keeps their order: a batch
is longer than the lookahead, a chunk's limit is no multiple of a batch, the token window
cuts in the middle of a chunk, and five chunks make each window slide twice.

*For the storage.* The two old directories give an order for "oldest first"; the code has
four threads, the run two, which is enough for two jobs to overtake each other.

*For the desk.* The machine compares a value with the bookings of one month and one day,
so a second day is needed (to propose another, to move) and a third is not. Two hours
give free, taken and the next free hour; one span gives the overlaps at both of its ends.
Calls are enumerated, not sampled. The form's slots in `desk_form` are an hour and a span
that meets the hours asked about. A form that makes whole-day bookings or spans that pass
midnight breaks `KeepsContract` and `NoClash` (see below), so it does neither here. In
`desk_voice` the form is not used, since its questions are about what is said;
`DeskReset` and `MachineReset` always are. The lists of lines leave out the combinations
of several values that come down to saying one value after the other.

*For the call.* The code has two places to wait, the run one, which three lines overflow;
two verdicts under way are what it takes for one to make the other late. One reset is
enough for `seq` to start again under a verdict.

*For the client.* Three sessions: one whose timers and frames are late, one that is over
and one that begins. One branch, the microphone that is ready for a session whose page
another one has taken and lost, needs five starts: the proofs cover it.

*Size of the expressions.* `BookingFsm` hands a value that is used several times to an
operator as a parameter instead of naming it with LET (`Answer`, `Finish`, `Accepted`):
each reads as one step of the function, and TLC's profile of the expressions stays small.

## Where the code and its words differ

No run is kept for these; the models show them, as exceptions named in a property, as
states of a run, or in what a definition says.

* *Pool.* `enqueue` hands an idle worker to a newcomer while others wait, after one reply
  of a health round made it idle and before the round's end dispatches (against
  `worker_pool.py:7`, first come first served). Registration under another endpoint clears
  the mark of a worker a handler is about to connect to, and a second handler gets it
  (`ExclusiveUnlessMoved` excepts it). A handler whose queue message fails calls `cancel`,
  which finds nothing if its ticket has just been resolved (`gateway.py:424`); the worker stays
  dispatched for good, although `chat.md:109` says that it is still released
  (`OnlyFailedSendLeaks` says that this is the one way).
* *Backend.* A close that raises leaves the slot taken; a retry of it answers "closed"
  since the flag is set, and nothing frees the slot until a restart (`lost`). A close
  answers success although a call of the session may still be in the model (`overtaken`).
* *Full-duplex session.* A forced listen resets `token2wav` but neither
  `tts_text_start_pos` nor `tts_past_key_values`. A turn-end token followed by a rejected
  one reopens the turn. A prefill with too little sound leaves a `<unit>` that no unit
  counts. The first two are states of the model; `Layout` says where the third is.
* *Sound.* A forced listen logs that it resets the caches of the voice, and resets the
  vocoder only. A unit that has words, ends its turn and listens loses those words and
  does not tell the voice (`EndsListening`); a `chunk_eos` that comes first, with no turn open,
  makes the voice speak for no turn; a turn that ends in the middle of a unit that goes on is
  not announced (`loose` collects all three). Sound that comes faster than a second per push piles up
  in `audio_buffer`. The encoder's cache is reset by `cleanup`, not by `prepare`.
* *Turns.* The header that opens an answer, and the tokens of an answer that failed or was
  abandoned, are in no book, so that the window lags behind its marks. Round 0 is the
  system prompt and the first turn, and is never dropped. Messages of the assistant and
  later system messages are fed without role markers (`modeling_minicpmo_unified.py:3497`). A
  terminator that comes first raises on an empty list (`utils.py:291-309`). A chat prompt between
  8,001 and 8,192 tokens is dropped as a whole (`modeling_minicpmo_unified.py:3223`, where
  `unified.py:177` says that all messages are prefilled). A rollback point survives a
  reset, later prefills and cuts (`modeling_minicpmo_unified.py:2862`; its docstring asks
  callers to clear it): with `Disciplined = FALSE` TLC finds `RollbackRestores` and
  `BooksFit` violated.
* *Answers.* An answer made as a whole whose tokens number 28 + 25k hears its last three
  twice, once by the call that is told to be the last and once by the flush behind the
  loop (`HeardTwice`). With more silence than lookahead (a comment speaks of 3-5 tokens) the end of a
  streamed answer would be heard twice, hence the assumption `Lookahead = Silence`. An answer
  cut by its limit loses its last token, and as text also a character held back. A
  streamed chunk that runs into its limit leaves its last token out of the voice's cache and a gap
  in the positions (`Capped`). The hidden states of `non_streaming_generate` are those of
  generated tokens, sliced by bounds that count the header (`modeling_minicpmo_unified.py:3300-3390`);
  whether that fails depends on a library and is not modelled.
* *Recording.* With four threads lines may be appended out of the order of their numbers;
  the comment at `session_recording.py:81` expects order. `RecordedInOrder` is about the
  numbers.
* *Storage.* The clean-up reads `created_at` with `fromisoformat` (`session_cleanup.py:45`),
  the recorder writes a float (`session_recording.py:89`): a recorded session is skipped by
  both rules, which `internals.md:267` does not say.
* *Desk.* A yes to an offered day keeps it marked as a proposal, and a later no to a time
  removes it. A proposal stays verified over a change of the month. "6 pm to 1" becomes
  18:00-01:00, which overlaps nothing (`gateway.py:880-913`). The yes to cancelling a whole-day
  booking looks for the single booking of the day again and removes whatever it finds
  (`gateway.py:1447`, `gateway.py:1367`, against the comments at `gateway.py:1049` and 1259). The operator's marks outlive their question.
  Customer events carry no `seq`: a yes is taken for whatever question is open when it
  arrives.
* *HUD.* `seq` starts again at a reset, so a verdict on the record before may be applied
  to the new one (`VerdictFitsOrReset` excepts it). The comment at `hud-app.js:560` says
  lines queue and are not dropped; beyond two the oldest is. A cut may hit the next turn.
  Lines and flags survive a restart of the session; the page ignores the record that a
  `stale` answer carries.
* *Client.* The phase stays `assigned` while a session runs, so Stop takes the path of the
  queue and `session.close` with `user_stop` is never sent. A socket that closes between
  its opening and `session.created` of a session that waited in the queue rejects a
  promise that is settled: `start()` hangs with both buttons off, or the page runs on a
  dead socket (`deaf`, the exception in `WayOut`; `overview.md:222` says to treat the
  session as ended). The stop a KV limit has scheduled for an old session ends the
  page's part in the next (`struck`). Sound that arrives while the microphone starts is
  dropped.

## Fairness

Safety runs use `Spec`, without fairness. `FairSpec` of the pool has weak fairness for
what the event loop and the timeouts guarantee: a send ends or fails, a resolved future
wakes its handler, a connect has an open timeout, the health loop never stops and its
requests time out, a host that is down is restarted (the deployment scripts do) and one
whose session is over becomes idle. Audio and video sessions are cut by the duration
watchdog; chat sessions have none, so for them `WF(SessionEnds)` is the assumption that
users leave. No client has to come and nobody has to cancel, register or crash.
`QueueDrains` is conditional on no worker being lost to a failed queue message.

`FairSpec` of the bridge has weak fairness of the backend's tasks and threads (a call of
the model returns or raises), of the worker's handler, and of the close it sends in its
`finally` once the client is gone. Timeouts, pushes and leaving are not fair: a session
may last for ever. `SlotComesBack` and `WorkerComesBack` speak of sessions that are left.

`FairSpec` of the storage has weak fairness of the pool's first job and of the clean-up.
The desk, the page of the call, the full-duplex session and the browser have no liveness
property: what comes next is up to people and the model.

## Proofs

All theorems hold for every value of the constants that satisfies the named assumptions of
the modules, and where a theorem has a hypothesis of its own it is told below, with what
happens in the code without it.

`WorkerPoolProofs` proves that `TypeOK`, `ExclusiveUnlessMoved`, `DispatchHasAuthority` and
`WaitersAreQueued` are invariants. The inductive invariant `IInv` is these four and
`HandlerHasWorker`: a handler has a worker exactly in its serving phases. Without it the
release of a handler could free a worker that some other handler holds. Exclusivity is
inductive only together with the authority of the mark (a worker that is granted was
idle, hence unmarked, hence nobody's) and with the agreement of queue and futures (a
resolved future belongs to a handler that is still waiting for it, so a ticket is not
resolved twice). Five actions dispatch, so what a dispatch keeps is proved once: `Sound`
states the invariant for a given pool, queue and handlers, and `DispatchKeeps` and
`DispatchIsSound` say that a dispatch started from a sound pool ends in one. Each action
then shows that what it hands to the dispatch is sound. Workers that moved to another
endpoint are excepted, and must be: the moved worker is given to a second handler.
`TypeOK`, `DispatchHasAuthority` and `WaitersAreQueued` are proved and in no run.

On top of `IInv`, `NoIdleWaste` proves `WorkConserving`. A health reply may make a worker
idle and dispatches nothing, so "nobody waits beside an idle worker" (`Settled`) is not
inductive; `Conserved` is: it holds unless a round of health checks is under way, whose end
dispatches. `LossesExplained` proves `OnlyFailedSendLeaks` action by action: of all the ways
for a handler to leave, only the failed queue message leaves a worker behind. `LeasesImplemented`
proves the refinement to `WorkerLeases`, with the map of leases told by the phases of the handlers.
Its hypothesis is that no worker moves to another endpoint (`MovableWorkers = {}`); with
one that does there are two handlers for one lease, and the refinement is false.

`BackendProofs` proves `TypeOK`, `RegistryAgrees`, `StepAfterFinalize`,
`TrespassersAreKnown` and `SlotIsOnItsWay`. `IInv` is `TypeOK`, `RegistryAgrees` and
`Local(s)` for every session, the conjunction of what is true of its two tasks, its flag,
its finalisation and its worker's handler (`Unopened`, `Asked`, `TearingDown`, `Leaving`,
`Gone`, `Finalising`, `Finished`). Actions of one session leave the others' variables
alone, except for the registry: so each action is checked against `Local` of its own
session, and one lemma says the others keep theirs. Only what is registered can be
active, so a refused session's own tear-down evicts nobody.

`DuplexProofs` proves the three properties of `DuplexUnit`. For `ListensBetweenTurns`, a unit that
listened leaves no turn open, `LoopInv` adds the types of the loop (`LoopTyped`) and what is
handed from one call to the next (`Handed`). `Layout` and `MemoryIsLatestSpoken` rest on
`UnitInv`, which is `LoopInv` and three more parts.

* `CountsInv`: units are numbered upwards, and the one under way is younger than the session.
* `WindowInv`: the preserved length is that of the prompt with its memory and sticky text, and the
  length noted for the region that is rebuilt is that region's (`DecOK`). Between two units the prompt and
  the units of the history fit into the cache (`Fit`); inside one they fit in front of the length at
  which it began (`FitBegun`). That much holds always, so that no cut reaches outside of the cache. They
  *are* the cache (`Laid`, `LaidBegun`) as long as no prefill met too little sound and the session was not
  stopped: either leaves tokens that belong to no unit.
* `MemoryInv`: the memory, the words of the history and those delivered but not yet finalised are
  the end of what was delivered (`Told`), and all of it while the memory is not full.

`Slides` says what a cut may do to a decoder, and `Recalls` to its memory. They are proved
of the basic cut (`BasicSlides`, with a proof that the number it chooses exists), of the context window
(`ContextSlides`) and of the sticky text (`StickySlides`); the last two go through `Rebuilt`, the rebuilding of the
prompt. `UnitBegins`, `UnitContinues` and `UnitCloses` do the same for the tokens of a unit.

`SoundProofs` proves both properties of `DuplexSound`. For `EverySecondHeard` the
invariant is `SoundInv`: what the processor keeps reaches from the second to come as far
forward as the first call put it and, unless nothing was dropped yet, at least a margin back
(`Reach`). That a slide keeps the margin (`SlideKeeps`), that a call always hands its second out and
that the encoder then keeps exactly half as many positions as the second has frames is
arithmetic from `MelAssumption`; the real values satisfy it, the first of its inequalities tightly
(103 = 100 + 2 + 2 - 1). For `SoundedInItsTurn` the invariant says what the buffer of the voice is:
some silence, then exactly the tokens that are not settled.

`TurnProofs` proves the four properties of `TurnSession` for a disciplined caller. `TurnInv` has
three parts. `Good` is about the model: the lengths in the history add up to no more than the
cache holds (`Core`), the preserved tokens are those of the system prompt with the entry
that says so, and an open turn is a tail of the history and as many tokens at the end of
the cache. `AnswerOK`: the tokens an answer has said are in the cache beside
those the books have, so that registering them cannot claim too much. `SnapshotOK`:
the model extends the one the snapshot was taken of, so that cutting to its lengths
restores it. A cut of one round then takes tokens between the system prompt and the open turn. Sums
over the history are folds: a lemma makes a fold a function that goes from one element to the
next (`FoldSteps`), and `Climb` (0 is in S, and with n also n + 1, hence all of `Nat`) goes along
it. Without discipline a rollback to a point behind a cut restores lengths of another
cache, and `RollbackRestores` and `BooksFit` are false.

`BookingDeskProofs` proves all eight properties of the desk's runs.
`OnlyYes` needs no invariant: from every record and any bookings, nothing but a plain yes
to a question of CONFIRM changes the bookings. The lemmas follow a request through the machine
and show that none of the steps on the way to the execution confirms it.
The others rest on `DeskInv`: the record is well formed (`FsmOK`: fields, marks, question and state
agree) and the bookings are slots.

* `OfferStands` (`QuestionsStayTrue`) adds `Truth`: what CONFIRM offers is free, what it asks to
  cancel is booked. A call either leaves question and bookings as they were or asks a true question. Its
  hypothesis is that the form is not in use: the form does falsify open questions, which is why the
  machine looks again at the yes.
* `NeverDoubleBooked` (`NoClash`) adds that no span passes midnight (`Forward`): the normaliser makes
  23:00-13:00 of "11 pm to 1 am", in which the look at the bookings finds no clash.
* `ContractKept` (`KeepsContract`) is the refinement to `BookingContract`, with the form in use. Its
  hypotheses are `Forward`, and that nobody books whole days but the machine (`Hourly`): the only booking of
  a day may otherwise be another one at the yes than at the question.
* `CustomersWordCounts` (`CustomerOverrules`), `NoMeansNo` (`RefusedStaysRefused`) and
  `TwiceIsOnce` (`RepeatIsNull`) compare the record before and after a call, and follow each field through
  the steps of `Apply`.
* `NoDeadEnd` (`CollectingAsks`) adds `AskOK`: the screen asks for something, for every gap.

The assumptions on the calls are what the normalisers guarantee (`gateway.py:816-985`,
`gateway.py:1260-1290`).

`BrowserProofs` is about both pages. Of the desk's it proves `HelpEnds`, `VerdictFitsOrReset` and `NewestWait`. `VerdictsInv` has
`Counted` (`seq` counts the changes of the record's life), `Behind` (a verdict under way
is about this record, an earlier one of the same life, or an earlier life) and `Later`;
with them equal numbers in one life mean the same record. `LinesInv` says that the waiting lines end
with the last one spoken and follow the one in hand.

Of the audio page it proves `VoiceInOrder`, `OverIsOver` and `WayOut`. `Inv` is `TypeOK`,
`PlayersSound` (per player: what waits and what sounds are consecutive chunks, and what
waits has a timer), `Aged` (sessions not yet made are untouched) and `Owned`: every session but
the page's own is `Past`, and the page's own is `Connecting`, `Queueing`, `Preparing` or
`Running`, each with the buttons and the microphone that belong to it.

`SessionProofs` proves the three invariants of `SessionStore` and the three of `AnswerVoice`.

* `RecordedInOrder` and `RecordingIsNotCut` rest on `StoreInv`. Its part `RecInv` says that the frames of one
  direction are numbered without a gap, in the log if there is a recorder and in the buffer if
  not (`Numbered`, up to `Settled`: what is in hand is on its way). Whichever relay task makes the
  recorder, it empties the buffer into it before its own frame. `KnowsTheOld`, that the
  cleanup has only ever listed directories from before the recording, keeps it from the live one.
* `OldestFirst` rests on `PassInv`, one conjunct per place of a pass: what expired is older than the
  cutoff, what is kept is not, and of what is kept the oldest leaves first. Failed removals and a
  session added in between are steps like any other.
* `SaidAsThought` and `SpokenOnce` rest on `SaidInv`. The words are chunks laid end to end
  (`WordsInv`), the text is a beginning of them (`TextInv`), and on the way to the client (`SpeechInv`) are, in
  this order, what it has heard, the lookahead in front of the vocoder, and less than one batch of tokens: joined
  they are the silence and all tokens made (`Flowing`). A whole answer is voiced in one step of
  any number of calls: the seconds they sound are joined by induction (`SecondsAre`), and the lemma
  `WholeIsVoiced` finds the one length (28 + 25k with the values of the code) at which the last call of
  the loop is already told to be the last.
* `WholeChunksInView` rests on `CacheInv`. `Hist` is what a run of chunks puts into the cache,
  `Base` what the chunk that is spoken may look at and `Kept` what it leaves to the next, for each of
  the four ways of keeping the cache short. `Remembers` says that between two chunks the cache is `Kept`, and
  `Speaks` that inside of one it is `Base` and what was fed so far, each entry at its position from some
  first one onwards. That first position is 0 but for the sliding window, which never
  renumbers. One lemma for each way of opening and closing a chunk goes from one to the other (`Reindexes` is the
  move of the last chunk up to the first). Like the property, `CacheInv` excepts a streamed answer with a
  chunk that ran into its limit (`Fit`): its last token is missing from the cache, which then
  has a gap. There is no bound on the chunks, their lengths or the windows.

The theorems of the library that prove by induction over numbers or sequences take an operator as a
parameter, which the provers at hand cannot instantiate. Where a proof needs induction it is
made over sets, from the well-foundedness of `<` (`Climb`): so are the sums (`FoldLeft`) and the joined
sequences (`FlattenSeq`) over a history of any length. Such lemmas, and those about folds and
sequences, are repeated in each module that needs them.

Every safety property a run checks has a theorem. Only model-checked is what is out of the
provers' reach, liveness: `QueueDrains`, `SlotComesBack`, `WorkerComesBack`, `EveryLineIsWritten`.

## What is not modelled

* Tensors, sampling, the sound itself and what computes on them: most of the 17,000 lines of
  `MiniCPMO45`, which is also why most lines of the repository are in no module. Slices of
  images come in as a length. `modeling_minicpmo.py` is an older copy that nothing on the live path
  loads. The snapshot of the sound processor and its last chunk are not used by a full-duplex
  session; a unit without sound does not occur, since the server asks for sound.
* VAD, speech recognition and language-model servers: numerical or external.
* Pool: shutdown, queue positions and estimated waiting times, the differences between
  request types (every worker supports all). Handler: the duration watchdog, of which
  only the end of a session is kept.
* Worker: the REST routes of the embedded runtime.
* `session_recorder.py`, which nothing on the live path uses.
* Desk: forced outcomes (`ok`, `no`, `err`) of its manual panel and the legacy `date`
  argument (no caller in `src/` sends them); texts, notes, labels, the month summary of
  the screen, and how words become values beyond the classes named above.
* Page of the call: the screen, the forced speech, the early decision at a pause.
* Browser: what is sent, pause, the file mode, recorders and mixers, the other pages.
* Registries of reference audio and apps, the switch of speech profiles, the run log:
  single synchronous writes.

## Plan

Every part between the browser's socket and the model's cache that has a protocol of its own
is modelled. What would add most next:

1. Composition of `WorkerPool` and `BackendBridge`: the early release against the slot.
2. Positions and waiting times of the queue, shutdown of the pool.
3. The recorders and the mixer of the browser, the video page.
