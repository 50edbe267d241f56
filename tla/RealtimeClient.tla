--------------------------- MODULE RealtimeClient ---------------------------
(***************************************************************************)
(* The browser's side of a session: the client library                     *)
(* (static/duplex/lib/realtime-session.js) and the page that drives it     *)
(* (static/audio-duplex/audio-duplex-app.js), which has one Start and one  *)
(* Stop button and makes a new RealtimeSession at every start.  What runs  *)
(* between two awaits, or in one event handler, is one action; the server, *)
(* the network and the user decide which event comes next.                 *)
(*                                                                         *)
(* Of the page only what the sessions share is kept: which session it is   *)
(* about, the phase of the queue, the buttons and the microphone.  What a  *)
(* session sends (session.init, input.append, session.close), pause, which *)
(* only holds input back, texts, metrics, recordings and the file mode are *)
(* left out.                                                               *)
(***************************************************************************)
EXTENDS AudioPlayer

CONSTANTS
  MaxStarts,  \* bound on the sessions a page starts
  MaxChunks,  \* bound on the chunks of a session
  MaxStops    \* bound on the stops a session has scheduled for itself

ASSUME ClientAssumption == {MaxStarts, MaxChunks, MaxStops} \subseteq Nat

VARIABLES
  current,   \* the page's `session`, 0 is null
  phase,     \* _queuePhase: none, queuing ("almost" too), assigned
  canStart,  \* btnStart is enabled
  canStop,   \* btnStop is enabled
  mic,       \* the microphone is on
  starts,    \* sessions made so far
  at,        \* where start() is: none, connect, await, media, done
  socket,    \* this.ws: null, connecting, open, shut (by the other side)
  waiting,   \* the sessions whose _queueReject is set
  running,   \* the sessions whose _started is set
  forced,    \* the sessions whose forceListenActive is set
  stops,     \* the timers of each session that will call stop()
  player,    \* the audioPlayer of each session
  deaf,      \* history: sessions whose socket was shut between open and _started
  struck     \* history: one session's end took the page away from another

pageVars == <<current, phase, canStart, canStop, mic, struck>>
vars == <<pageVars, starts, at, socket, waiting, running, forced, stops, player, deaf>>

Sessions == 1..MaxStarts

TypeOK ==
  /\ current \in 0..MaxStarts /\ starts \in 0..MaxStarts
  /\ phase \in {"none", "queuing", "assigned"}
  /\ canStart \in BOOLEAN /\ canStop \in BOOLEAN /\ mic \in BOOLEAN /\ struck \in BOOLEAN
  /\ at \in [Sessions -> {"none", "connect", "await", "media", "done"}]
  /\ socket \in [Sessions -> {"null", "connecting", "open", "shut"}]
  /\ waiting \subseteq Sessions /\ running \subseteq Sessions
  /\ forced \subseteq Sessions /\ deaf \subseteq Sessions
  /\ stops \in [Sessions -> 0..MaxStops]
  /\ player \in [Sessions -> Players]

Init ==
  /\ current = 0 /\ phase = "none"
  /\ canStart = TRUE /\ canStop = FALSE /\ mic = FALSE
  /\ starts = 0
  /\ at = [s \in Sessions |-> "none"]
  /\ socket = [s \in Sessions |-> "null"]
  /\ waiting = {} /\ running = {} /\ forced = {}
  /\ stops = [s \in Sessions |-> 0]
  /\ player = [s \in Sessions |-> NewPlayer]
  /\ deaf = {} /\ struck = FALSE

-----------------------------------------------------------------------------
(* The ends of a session.                                                  *)

(* Mutant: the microphone is left on. *)
PageOverMicOn(s) ==
  /\ current' = 0
  /\ phase' = "none"
  /\ UNCHANGED mic
  /\ canStart' = TRUE /\ canStop' = FALSE
  /\ struck' = (struck \/ current \notin {0, s})

(* Mutant: the page keeps the session. *)
PageOverKept(s) ==
  /\ UNCHANGED current
  /\ phase' = "none"
  /\ mic' = FALSE
  /\ canStart' = TRUE /\ canStop' = FALSE
  /\ struck' = (struck \/ current \notin {0, s})

(* What the page does in onCleanup, and onRunningChange(false): it does    *)
(* not ask which session is cleaned up.                                    *)
PageOver(s) ==
  /\ current' = 0
  /\ phase' = "none"
  /\ mic' = FALSE
  /\ canStart' = TRUE /\ canStop' = FALSE
  /\ struck' = (struck \/ current \notin {0, s})

(* cleanup. *)
Cleanup(s) ==
  /\ PageOver(s)
  /\ player' = [player EXCEPT ![s] = Stopped(@)]
  /\ socket' = [socket EXCEPT ![s] = "null"]
  /\ running' = running \ {s} /\ forced' = forced \ {s}

(* start() throws: its catch drops the socket, and the page's catch cleans *)
(* up the session the page is about, which may be none or another.         *)
StartFails(s) ==
  /\ at' = [at EXCEPT ![s] = "done"]
  /\ waiting' = waiting \ {s}
  /\ running' = running \ {s, current}
  /\ forced' = forced \ {current}
  /\ socket' = [c \in Sessions |-> IF c \in {s, current} THEN "null" ELSE socket[c]]
  /\ player' = [c \in Sessions |-> IF c = current THEN Stopped(player[c]) ELSE player[c]]
  /\ IF current = 0 THEN UNCHANGED pageVars ELSE PageOver(s)
  /\ UNCHANGED <<starts, stops, deaf>>

-----------------------------------------------------------------------------
(* start().                                                                *)

(* startSession of the page. *)
Start ==
  /\ canStart /\ current = 0
  /\ starts < MaxStarts
  /\ starts' = starts + 1
  /\ current' = starts'
  /\ at' = [at EXCEPT ![starts'] = "connect"]
  /\ socket' = [socket EXCEPT ![starts'] = "connecting"]
  /\ UNCHANGED <<phase, canStart, canStop, mic, struck, waiting, running, forced,
                 stops, player, deaf>>

Opened(s) ==
  /\ socket[s] = "connecting"
  /\ at' = [at EXCEPT ![s] = "await"]
  /\ socket' = [socket EXCEPT ![s] = "open"]
  /\ waiting' = waiting \cup {s}
  /\ UNCHANGED <<pageVars, starts, running, forced, stops, player, deaf>>

(* session.queued, session.queue_update. *)
Queued(s) ==
  /\ at[s] = "await" /\ socket[s] = "open" /\ s \in waiting
  /\ phase' = "queuing"
  /\ canStart' = FALSE /\ canStop' = TRUE
  /\ UNCHANGED <<current, mic, struck, starts, at, socket, waiting, running, forced,
                 stops, player, deaf>>

(* session.queue_done. *)
QueueDone(s) ==
  /\ at[s] = "await" /\ socket[s] = "open" /\ s \in waiting
  /\ waiting' = waiting \ {s}
  /\ phase' = "assigned"
  /\ canStart' = FALSE /\ canStop' = FALSE
  /\ UNCHANGED <<current, mic, struck, starts, at, socket, running, forced, stops,
                 player, deaf>>

(* session.created: the page's onPrepared needs the page's session. *)
Created(s) ==
  /\ at[s] = "await" /\ socket[s] = "open" /\ s \notin waiting
  /\ IF current = 0 THEN StartFails(s)
     ELSE /\ at' = [at EXCEPT ![s] = "media"]
          /\ UNCHANGED <<pageVars, starts, socket, waiting, running, forced, stops,
                         player, deaf>>

(* An error the server reports while start() waits for the session. *)
ServerError(s) == at[s] = "await" /\ socket[s] = "open" /\ StartFails(s)

(* startMediaFn returns: on a socket that cleanup took away, start() goes  *)
(* as far as the buttons and then throws.                                  *)
MediaReady(s) ==
  /\ at[s] = "media"
  /\ IF socket[s] # "null"
     THEN /\ at' = [at EXCEPT ![s] = "done"]
          /\ running' = running \cup {s}
          /\ mic' = TRUE /\ canStart' = FALSE /\ canStop' = TRUE
          /\ player' = [player EXCEPT ![s] = Prepared(@)]
          /\ UNCHANGED <<current, phase, struck, starts, socket, waiting, forced,
                         stops, deaf>>
     ELSE IF current # 0 THEN StartFails(s)
     ELSE /\ at' = [at EXCEPT ![s] = "done"]
          /\ mic' = TRUE /\ canStart' = FALSE /\ canStop' = TRUE
          /\ player' = [player EXCEPT ![s] = Prepared(@)]
          /\ UNCHANGED <<current, phase, struck, starts, socket, waiting, running,
                         forced, stops, deaf>>

(* The microphone is refused, or fails. *)
MediaFails(s) == at[s] = "media" /\ StartFails(s)

(* The socket closes or fails.  Until `_started` onclose rejects the       *)
(* promise of the connection, which is settled once the socket has opened. *)
SocketCloses(s) ==
  \/ socket[s] = "connecting" /\ StartFails(s)
  \/ /\ socket[s] = "open" /\ at[s] \in {"await", "media"}
     /\ socket' = [socket EXCEPT ![s] = "shut"]
     /\ deaf' = deaf \cup {s}
     /\ UNCHANGED <<pageVars, starts, at, waiting, running, forced, stops, player>>
  \/ /\ socket[s] = "open" /\ s \in running
     /\ Cleanup(s)
     /\ UNCHANGED <<starts, at, waiting, stops, deaf>>

-----------------------------------------------------------------------------
(* A running session.                                                      *)

(* _checkKvCache: a cache at its limit schedules a stop, at every message. *)
MayScheduleStop(s) ==
  \E n \in 0..1 : stops[s] + n <= MaxStops /\ stops' = [stops EXCEPT ![s] = @ + n]

(* A listen result. *)
Listen(s) ==
  /\ s \in running /\ socket[s] = "open"
  /\ MayScheduleStop(s)
  /\ player' = [player EXCEPT ![s] = TurnEnded(@)]
  /\ UNCHANGED <<pageVars, starts, at, socket, waiting, running, forced, deaf>>

(* A delta with audio. *)
Speak(s) ==
  /\ s \in running /\ socket[s] = "open"
  /\ player[s].arrived < MaxChunks
  /\ MayScheduleStop(s)
  /\ player' = [player EXCEPT ![s] = ChunkPlayed(TurnBegun(@))]
  /\ UNCHANGED <<pageVars, starts, at, socket, waiting, running, forced, deaf>>

(* session.closed. *)
Closed(s) ==
  /\ s \in running /\ socket[s] = "open"
  /\ Cleanup(s)
  /\ UNCHANGED <<starts, at, waiting, stops, deaf>>

(* The scheduled stop(): its session may be long over. *)
StopOnLimit(s) ==
  /\ stops[s] > 0
  /\ stops' = [stops EXCEPT ![s] = @ - 1]
  /\ Cleanup(s)
  /\ UNCHANGED <<starts, at, waiting, deaf>>

DelayEnds(s) ==
  /\ player[s].timer
  /\ player' = [player EXCEPT ![s] = DelayOver(@)]
  /\ UNCHANGED <<pageVars, starts, at, socket, waiting, running, forced, stops, deaf>>

ChunkEnds(s) ==
  /\ player[s].sources # <<>>
  /\ player' = [player EXCEPT ![s] = SourceOver(@)]
  /\ UNCHANGED <<pageVars, starts, at, socket, waiting, running, forced, stops, deaf>>

(* toggleForceListen, on and off. *)
ForceToggle ==
  /\ current \in running /\ socket[current] = "open"
  /\ \/ /\ current \notin forced
        /\ forced' = forced \cup {current}
        /\ player' = [player EXCEPT ![current] = TurnEnded(Hushed(@))]
     \/ /\ current \in forced
        /\ forced' = forced \ {current}
        /\ player' = [player EXCEPT ![current] = TurnEnded(@)]
  /\ UNCHANGED <<pageVars, starts, at, socket, waiting, running, stops, deaf>>

(* stopSession: cancelQueue, which makes start() throw if it is still in   *)
(* the queue, or, without a phase, stop.                                   *)
StopClick ==
  /\ canStop /\ current # 0
  /\ Cleanup(current)
  /\ IF phase # "none" /\ current \in waiting
     THEN /\ waiting' = waiting \ {current}
          /\ at' = [at EXCEPT ![current] = "done"]
     ELSE UNCHANGED <<waiting, at>>
  /\ UNCHANGED <<starts, stops, deaf>>

Next ==
  \/ Start \/ ForceToggle \/ StopClick
  \/ \E s \in Sessions :
       \/ Opened(s) \/ Queued(s) \/ QueueDone(s) \/ Created(s) \/ ServerError(s)
       \/ MediaReady(s) \/ MediaFails(s) \/ SocketCloses(s)
       \/ Listen(s) \/ Speak(s) \/ Closed(s) \/ StopOnLimit(s)
       \/ DelayEnds(s) \/ ChunkEnds(s)

Spec == Init /\ [][Next]_vars

-----------------------------------------------------------------------------
(* What the page may rely on.                                              *)

(* In every session, whatever comes and whatever is cut, the chunks of the *)
(* voice are played in order and none is left waiting without a timer.     *)
VoiceInOrder == \A s \in Sessions : PlaysInOrder(player[s])

Silent(s) == player[s].sources = <<>> /\ player[s].pending = <<>> /\ ~player[s].timer

(* A page without a session, however the last one ended, is as it was at   *)
(* the beginning: the microphone off, Start enabled and Stop not, and no   *)
(* session of the past has a socket, runs or sounds.                       *)
OverIsOver ==
  current = 0 /\ ~struck =>
    /\ ~mic /\ canStart /\ ~canStop
    /\ \A s \in Sessions : socket[s] = "null" /\ s \notin running /\ Silent(s)

(* A page with a session has a way out of it: in the queue and while it    *)
(* runs there is Stop; else start() is under way on a socket whose end     *)
(* ends it too, unless the socket was shut since it opened.                *)
WayOut ==
  current # 0 /\ ~struck =>
    \/ canStop
    \/ /\ phase # "queuing" /\ current \notin running
       /\ at[current] \in {"connect", "await", "media"}
       /\ socket[current] \in {"connecting", "open"} \/ current \in deaf
=============================================================================
