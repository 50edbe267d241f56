--------------------------- MODULE BackendSession ---------------------------
(***************************************************************************)
(* The backend server (py_backend/server.py): one process that holds the   *)
(* model, one session at a time.  A session is driven by the handler of    *)
(* its WebSocket (backend_ws: init, then one input after the other) and    *)
(* may be closed by a second task, the HTTP route close_session.  Both run *)
(* on one event loop: what happens between two awaits is one action.  The  *)
(* model runs in threads (asyncio.to_thread): a prepare, a step, the       *)
(* finalisation of a step, a stop and a cleanup last as long as the stage  *)
(* that awaits them, or longer, since a thread whose awaiting task is      *)
(* cancelled goes on.                                                      *)
(*                                                                         *)
(* Payloads, usage counters and metrics are left out.  What a model call   *)
(* does is in the modules of the model; here a call only takes time and    *)
(* may raise.                                                              *)
(***************************************************************************)
EXTENDS Naturals, FiniteSets

CONSTANTS
  Sessions,   \* one per WebSocket to /backend
  Duplex,     \* those of them with mode full_duplex; the others turn_based
  None,       \* active_session_id is None
  MaxPush,    \* bound on the inputs of each session
  MaxFaults   \* bound on model calls that raise and on timeouts

ASSUME SessionsAssumption == Duplex \subseteq Sessions /\ None \notin Sessions
ASSUME BackendBoundsAssumption == MaxPush \in [Sessions -> Nat] /\ MaxFaults \in Nat

VARIABLES
  active,     \* BackendServerState.active_session_id
  sessions,   \* the keys of BackendServerState.sessions
  at,         \* where the two tasks of a session are suspended
  closed,     \* the sessions whose `closed` is set
  fin,        \* _finalize_task: none, running, ok or failed
  orphans,    \* those with a thread in the model that nothing awaits any more
  ws,         \* the WebSocket: none, open, shut
  told,       \* the sessions whose session.closed was sent on an open socket
  pushes,     \* inputs read so far
  faults,     \* faults so far
  admitted,   \* history: the sessions that were registered
  overtaken,  \* history: those forgotten while a call of theirs was running
  lost        \* history: those one of whose tear-downs an exception ended

backendVars == <<active, sessions, at, closed, fin, orphans, ws, told, pushes,
                 faults, admitted, overtaken, lost>>

Tasks == {"ws", "http"}

(* Where a task can be.  The handler of the socket: register, prepare,     *)
(* receive, wait (for the former finalisation), step.  A close: drain,     *)
(* stop, drain2, clean, announce.  A fatal error: fstop, fdrain, fclean.   *)
(* Both end in forget.  A task that is over: done, ok, raised, missing.    *)
Stages == {"none", "register", "prepare", "receive", "wait", "step",
           "asked", "drain", "stop", "drain2", "clean", "announce",
           "fstop", "fdrain", "fclean", "forget",
           "done", "ok", "raised", "missing"}

Ended == {"done", "ok", "raised", "missing"}

TearDown == {"asked", "drain", "stop", "drain2", "clean", "announce", "fstop",
             "fdrain", "fclean", "forget"}

Draining == {"drain", "drain2", "fdrain"}

BackendInit ==
  /\ active = None
  /\ sessions = {}
  /\ at = [s \in Sessions |-> [a \in Tasks |-> "none"]]
  /\ closed = {}
  /\ fin = [s \in Sessions |-> "none"]
  /\ orphans = {}
  /\ ws = [s \in Sessions |-> "none"]
  /\ told = {}
  /\ pushes = [s \in Sessions |-> 0]
  /\ faults = 0
  /\ admitted = {}
  /\ overtaken = {}
  /\ lost = {}

Go(s, a, stage) == at' = [at EXCEPT ![s][a] = stage]

NoteRaised(s) ==
  lost' = IF \E a \in Tasks : at'[s][a] = "raised" THEN lost \cup {s} ELSE lost

Fault == faults < MaxFaults /\ faults' = faults + 1

(* The calls of s that are in the model now. *)
InModel(s) ==
  \/ at[s].ws \in {"prepare", "step"}
  \/ \E a \in Tasks : at[s][a] \in {"stop", "clean", "fstop", "fclean"}
  \/ fin[s] = "running"
  \/ s \in orphans

-----------------------------------------------------------------------------
(* Beginning and end of a tear-down.                                       *)

(* close() of a session that is not closed yet; on a closed one it returns *)
(* at once.                                                                *)
BeginClose(s, a) ==
  /\ closed' = closed \cup {s}
  /\ Go(s, a, IF s \notin closed THEN "drain" ELSE IF a = "http" THEN "ok" ELSE "done")
  /\ UNCHANGED <<ws, told>>

(* Mutant: fatal() without forget. *)
BeginFatalOnly(s) ==
  /\ closed' = closed \cup {s}
  /\ told' = IF ws[s] = "open" THEN told \cup {s} ELSE told
  /\ ws' = [ws EXCEPT ![s] = "shut"]
  /\ Go(s, "ws", IF s \in Duplex THEN "fstop" ELSE "done")

(* fatal(), which does not look whether the session is closed. *)
BeginFatal(s) ==
  /\ closed' = closed \cup {s}
  /\ told' = IF ws[s] = "open" THEN told \cup {s} ELSE told
  /\ ws' = [ws EXCEPT ![s] = "shut"]
  /\ Go(s, "ws", IF s \in Duplex THEN "fstop" ELSE "forget")

(* BackendServerState.forget, the last step of both. *)
Forget(s, a) ==
  /\ at[s][a] = "forget"
  /\ sessions' = sessions \ {s}
  /\ active' = IF active = s THEN None ELSE active
  /\ Go(s, a, IF a = "http" THEN "ok" ELSE "done")
  /\ overtaken' = IF /\ s \in sessions
                     /\ \/ fin[s] = "running" \/ s \in orphans
                        \/ \E b \in Tasks \ {a} :
                             at[s][b] \notin Ended \cup {"none", "asked", "receive"}
                  THEN overtaken \cup {s} ELSE overtaken
  /\ UNCHANGED <<closed, fin, orphans, ws, told, pushes, faults, admitted, lost>>

(* duplex_stop, whose errors are suppressed. *)
Stopped(s, a) ==
  /\ at[s][a] \in {"stop", "fstop"}
  /\ Go(s, a, IF at[s][a] = "stop" THEN "drain2" ELSE "fdrain")
  /\ UNCHANGED <<active, sessions, closed, fin, orphans, ws, told, pushes,
                 faults, admitted, overtaken, lost>>

(* Where a drain leads: on, or out if the finalisation raised.  In fatal() *)
(* an error skips the cleanup; in close() it leaves the method, and the    *)
(* session is not forgotten.                                               *)
Drained(s, stage) ==
  CASE stage = "drain"  -> IF s \in Duplex THEN "stop" ELSE "announce"
    [] stage = "drain2" -> "clean"
    [] stage = "fdrain" -> "fclean"

DrainRaised(stage) == IF stage = "fdrain" THEN "forget" ELSE "raised"

(* _drain_finalize when the task is absent or done. *)
Drain(s, a) ==
  /\ at[s][a] \in Draining
  /\ fin[s] # "running"
  /\ fin' = [fin EXCEPT ![s] = IF @ = "ok" THEN "none" ELSE @]
  /\ Go(s, a, IF fin[s] = "failed" THEN DrainRaised(at[s][a])
              ELSE Drained(s, at[s][a]))
  /\ NoteRaised(s)
  /\ UNCHANGED <<active, sessions, closed, orphans, ws, told, pushes, faults,
                 admitted, overtaken>>

(* A task that is in wait_for goes on with the outcome of the finalisation. *)
Woken(s, how) ==
  [a \in Tasks |-> IF at[s][a] \notin Draining THEN at[s][a]
                   ELSE IF how = "ok" THEN Drained(s, at[s][a])
                   ELSE DrainRaised(at[s][a])]

(* The thread of duplex_finalize returns; who drained takes the task away. *)
FinalizeEnds(s) ==
  /\ fin[s] = "running"
  /\ \/ /\ fin' = [fin EXCEPT ![s] = IF \E a \in Tasks : at[s][a] \in Draining
                                     THEN "none" ELSE "ok"]
        /\ at' = [at EXCEPT ![s] = Woken(s, "ok")]
        /\ UNCHANGED faults
     \/ /\ Fault
        /\ fin' = [fin EXCEPT ![s] = IF \E a \in Tasks : at[s][a] \in Draining
                                     THEN "none" ELSE "failed"]
        /\ at' = [at EXCEPT ![s] = Woken(s, "failed")]
  /\ NoteRaised(s)
  /\ UNCHANGED <<active, sessions, closed, orphans, ws, told, pushes, admitted,
                 overtaken>>

(* wait_for gives up after five seconds: the task is cancelled, which sets *)
(* _finalize_done, and the thread goes on.  Another task that waits is     *)
(* cancelled with it, which no suppress(Exception) holds back.             *)
DrainTimesOut(s, a) ==
  /\ at[s][a] \in Draining
  /\ fin[s] = "running"
  /\ Fault
  /\ fin' = [fin EXCEPT ![s] = "none"]
  /\ orphans' = orphans \cup {s}
  /\ at' = [at EXCEPT ![s] = [b \in Tasks |->
              IF b = a THEN DrainRaised(at[s][a])
              ELSE IF at[s][b] \in Draining THEN "raised" ELSE at[s][b]]]
  /\ NoteRaised(s)
  /\ UNCHANGED <<active, sessions, closed, ws, told, pushes, admitted, overtaken>>

OrphanEnds(s) ==
  /\ s \in orphans
  /\ orphans' = orphans \ {s}
  /\ UNCHANGED <<active, sessions, at, closed, fin, ws, told, pushes, faults,
                 admitted, overtaken, lost>>

(* duplex_cleanup; an error leaves close(), fatal() suppresses it. *)
Cleaned(s, a) ==
  /\ at[s][a] \in {"clean", "fclean"}
  /\ \/ /\ Go(s, a, IF at[s][a] = "clean" THEN "announce" ELSE "forget")
        /\ UNCHANGED faults
     \/ /\ Fault
        /\ Go(s, a, IF at[s][a] = "clean" THEN "raised" ELSE "forget")
  /\ NoteRaised(s)
  /\ UNCHANGED <<active, sessions, closed, fin, orphans, ws, told, pushes,
                 admitted, overtaken>>

(* Mutant: close() ends with the socket, without forget. *)
AnnounceOnly(s, a) ==
  /\ at[s][a] = "announce"
  /\ told' = IF a = "http" /\ ws[s] = "open" THEN told \cup {s} ELSE told
  /\ ws' = [ws EXCEPT ![s] = "shut"]
  /\ Go(s, a, IF a = "http" THEN "ok" ELSE "done")
  /\ UNCHANGED <<active, sessions, closed, fin, orphans, pushes, faults,
                 admitted, overtaken, lost>>

(* close() sends session.closed (not after a disconnect) and shuts the     *)
(* socket, errors suppressed.                                              *)
Announce(s, a) ==
  /\ at[s][a] = "announce"
  /\ told' = IF a = "http" /\ ws[s] = "open" THEN told \cup {s} ELSE told
  /\ ws' = [ws EXCEPT ![s] = "shut"]
  /\ Go(s, a, "forget")
  /\ UNCHANGED <<active, sessions, closed, fin, orphans, pushes, faults,
                 admitted, overtaken, lost>>

-----------------------------------------------------------------------------
(* The handler of the socket.                                              *)

(* register, which refuses a second session; the refusal ends in fatal().  *)
Register(s) ==
  /\ at[s].ws = "register"
  /\ \/ /\ active = None
        /\ active' = s
        /\ sessions' = sessions \cup {s}
        /\ admitted' = admitted \cup {s}
        /\ Go(s, "ws", IF s \in Duplex THEN "prepare" ELSE "receive")
        /\ UNCHANGED <<closed, ws, told>>
     \/ /\ active # None
        /\ BeginFatal(s)
        /\ UNCHANGED <<active, sessions, admitted>>
  /\ UNCHANGED <<fin, orphans, pushes, faults, overtaken, lost>>

(* duplex_prepare returns and session.created is sent, or it raises. *)
Prepared(s) ==
  /\ at[s].ws = "prepare"
  /\ \/ /\ Go(s, "ws", "receive")
        /\ UNCHANGED <<closed, ws, told, faults>>
     \/ Fault /\ BeginFatal(s)
  /\ UNCHANGED <<active, sessions, fin, orphans, pushes, admitted, overtaken, lost>>

(* input.append is read; an input that is on its way is read even if the   *)
(* session was closed meanwhile, and is then an error.                     *)
Push(s) ==
  /\ at[s].ws = "receive"
  /\ ws[s] = "open"
  /\ pushes[s] < MaxPush[s]
  /\ pushes' = [pushes EXCEPT ![s] = @ + 1]
  /\ \/ /\ s \in closed
        /\ BeginFatal(s)
     \/ /\ s \notin closed
        /\ Go(s, "ws", IF s \in Duplex THEN "wait" ELSE "step")
        /\ UNCHANGED <<closed, ws, told>>
  /\ UNCHANGED <<active, sessions, fin, orphans, faults, admitted, overtaken, lost>>

(* Mutant: no _wait_finalize. *)
ProceedAtOnce(s) ==
  /\ at[s].ws = "wait"
  /\ Go(s, "ws", "step")
  /\ UNCHANGED <<active, sessions, closed, fin, orphans, ws, told, pushes,
                 faults, admitted, overtaken, lost>>

(* _wait_finalize, then the step; `closed` is not looked at again. *)
Proceed(s) ==
  /\ at[s].ws = "wait"
  /\ fin[s] # "running"
  /\ \/ /\ fin[s] = "failed"
        /\ BeginFatal(s)
        /\ UNCHANGED fin
     \/ /\ fin[s] # "failed"
        /\ fin' = [fin EXCEPT ![s] = "none"]
        /\ Go(s, "ws", "step")
        /\ UNCHANGED <<closed, ws, told>>
  /\ UNCHANGED <<active, sessions, orphans, pushes, faults, admitted, overtaken, lost>>

(* The step is over and its results are sent; the finalisation begins.     *)
(* The loop goes on unless the session was closed meanwhile.               *)
Stepped(s) ==
  /\ at[s].ws = "step"
  /\ fin' = [fin EXCEPT ![s] = IF s \in Duplex THEN "running" ELSE @]
  /\ Go(s, "ws", IF s \in closed THEN "done" ELSE "receive")
  /\ UNCHANGED <<active, sessions, closed, orphans, ws, told, pushes, faults,
                 admitted, overtaken, lost>>

(* The step raises, or its results meet a socket that is gone.  A send on  *)
(* such a socket is reported as a disconnect or as an error, or not at all *)
(* (Stepped).  A turn-based answer is sent while it is generated: after    *)
(* five seconds its thread is left alone.                                  *)
StepFails(s) ==
  /\ at[s].ws = "step"
  /\ \/ Fault /\ BeginFatal(s) /\ UNCHANGED orphans
     \/ /\ ws[s] = "shut"
        /\ BeginFatal(s) \/ BeginClose(s, "ws")
        /\ orphans' \in {orphans, orphans \cup ({s} \ Duplex)}
        /\ UNCHANGED faults
  /\ UNCHANGED <<active, sessions, fin, pushes, admitted, overtaken, lost>>

(* Mutant: a disconnect is an error like any other. *)
DisconnectedFatal(s) ==
  /\ at[s].ws = "receive"
  /\ ws[s] = "shut"
  /\ BeginFatal(s)
  /\ UNCHANGED <<active, sessions, fin, orphans, pushes, faults, admitted,
                 overtaken, lost>>

(* The receive finds the socket gone. *)
Disconnected(s) ==
  /\ at[s].ws = "receive"
  /\ ws[s] = "shut"
  /\ BeginClose(s, "ws")
  /\ UNCHANGED <<active, sessions, fin, orphans, pushes, faults, admitted,
                 overtaken, lost>>

(* close_session: 404, or close(). *)
CloseRoute(s) ==
  /\ at[s].http = "asked"
  /\ \/ s \notin sessions /\ Go(s, "http", "missing") /\ UNCHANGED <<closed, ws, told>>
     \/ s \in sessions /\ BeginClose(s, "http")
  /\ UNCHANGED <<active, sessions, fin, orphans, pushes, faults, admitted,
                 overtaken, lost>>

(* What the server does by itself: its event loop and its threads. *)
ServerStep(s) ==
  \/ Register(s) \/ Prepared(s) \/ Proceed(s) \/ Stepped(s) \/ StepFails(s)
  \/ Disconnected(s) \/ CloseRoute(s) \/ FinalizeEnds(s) \/ OrphanEnds(s)
  \/ \E a \in Tasks : \/ Stopped(s, a) \/ Drain(s, a) \/ Cleaned(s, a)
                      \/ Announce(s, a) \/ Forget(s, a)

-----------------------------------------------------------------------------
BackendTypeOK ==
  /\ active \in Sessions \cup {None}
  /\ sessions \subseteq Sessions
  /\ at \in [Sessions -> [Tasks -> Stages]]
  /\ closed \subseteq Sessions
  /\ fin \in [Sessions -> {"none", "running", "ok", "failed"}]
  /\ orphans \subseteq Sessions
  /\ ws \in [Sessions -> {"none", "open", "shut"}]
  /\ told \subseteq Sessions
  /\ pushes \in [Sessions -> Nat]
  /\ \A s \in Sessions : pushes[s] <= MaxPush[s]
  /\ faults \in 0..MaxFaults
  /\ admitted \subseteq Sessions
  /\ overtaken \subseteq Sessions
  /\ lost \subseteq Sessions

(* The registry holds the active session and nothing else: a session that  *)
(* was refused and tears itself down (fatal, forget) does not evict the    *)
(* one that is served.                                                     *)
RegistryAgrees ==
  /\ sessions = {s \in Sessions : active = s}
  /\ sessions \subseteq admitted

(* A step never runs beside the finalisation of the step before it, which  *)
(* writes to the same cache, unless somebody gave up waiting for that      *)
(* finalisation (five seconds) while the input was waiting too.            *)
StepAfterFinalize ==
  \A s \in Sessions : at[s].ws = "step" => fin[s] # "running"

(* While a session is served, another one is in the model only in one of   *)
(* two ways: it was refused and tears down a model that is not its own, or *)
(* it was forgotten while a call of its own was running.  All others have  *)
(* left the model for good before the slot is given to the next.           *)
TrespassersAreKnown ==
  \A s \in Sessions :
    active \notin {s, None} /\ InModel(s) => s \notin admitted \/ s \in overtaken
=============================================================================
