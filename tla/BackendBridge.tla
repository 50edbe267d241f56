---------------------------- MODULE BackendBridge ----------------------------
(***************************************************************************)
(* The worker (worker.py, _handle_remote_backend_runtime_ws, over          *)
(* runtime/session.py and runtime/backend_client.py) between the gateway   *)
(* and the backend server.  The gateway sends a worker one session at a    *)
(* time, the next one once the socket of the former is gone.               *)
(***************************************************************************)
EXTENDS BackendSession

VARIABLES
  status,  \* worker.state.status: idle or busy
  host,    \* where the worker's handler of each session is suspended
  client   \* the gateway's socket: none, here, gone

vars == <<active, sessions, at, closed, fin, orphans, ws, told, pushes, faults,
          admitted, overtaken, lost, status, host, client>>

(* The handler is in ws.accept, in receive_text for the first message, in  *)
(* init of the backend session, in asyncio.wait, in the close the client   *)
(* asked for, in the close of the finally clause, or it has returned.      *)
HostStages == {"none", "accept", "first", "init", "live", "asking", "closing",
               "done"}

Init ==
  /\ BackendInit
  /\ status = "idle"
  /\ host = [s \in Sessions |-> "none"]
  /\ client = [s \in Sessions |-> "none"]

Host(s, stage) == host' = [host EXCEPT ![s] = stage]

(* The finally clause after a close that returned or raised. *)
HostDone(s) == Host(s, "done") /\ status' = "idle"

(* A new session comes from the gateway; a busy worker refuses it. *)
Arrive(s) ==
  /\ client[s] = "none"
  /\ \A t \in Sessions : client[t] # "here"
  /\ \/ /\ status = "idle"
        /\ client' = [client EXCEPT ![s] = "here"]
        /\ Host(s, "accept")
     \/ /\ status = "busy"
        /\ client' = [client EXCEPT ![s] = "gone"]
        /\ Host(s, "done")
  /\ UNCHANGED <<backendVars, status>>

(* The browser or the gateway ends the session. *)
Leave(s) ==
  /\ client[s] = "here"
  /\ client' = [client EXCEPT ![s] = "gone"]
  /\ UNCHANGED <<backendVars, status, host>>

(* The status is set after the accept, which was awaited. *)
Accept(s) ==
  /\ host[s] = "accept"
  /\ Host(s, "first")
  /\ status' = "busy"
  /\ UNCHANGED <<backendVars, client>>

(* The first message is passed on to a new backend session, or never came. *)
First(s) ==
  /\ host[s] = "first"
  /\ \/ /\ Host(s, "init")
        /\ ws' = [ws EXCEPT ![s] = "open"]
        /\ Go(s, "ws", "register")
        /\ UNCHANGED status
     \/ /\ client[s] = "gone"
        /\ HostDone(s)
        /\ UNCHANGED <<ws, at>>
  /\ UNCHANGED <<active, sessions, closed, fin, orphans, told, pushes, faults,
                 admitted, overtaken, lost, client>>

(* init reads session.created. *)
Created(s) ==
  /\ host[s] = "init"
  /\ s \in admitted /\ at[s].ws = "receive"
  /\ Host(s, "live")
  /\ UNCHANGED <<backendVars, status, client>>

(* The next input is passed on and read. *)
Input(s) ==
  /\ host[s] # "init"
  /\ Push(s)
  /\ UNCHANGED <<status, host, client>>

(* The client sends session.close, or its socket is gone. *)
AskClose(s) ==
  /\ host[s] = "live"
  /\ \/ client[s] = "here" /\ Host(s, "asking")
     \/ client[s] = "gone" /\ Host(s, "closing")
  /\ Go(s, "http", "asked")
  /\ UNCHANGED <<active, sessions, closed, fin, orphans, ws, told, pushes,
                 faults, admitted, overtaken, lost, status, client>>

(* session.closed arrives: in init it is an error, else the end of         *)
(* backend_to_client, which cancels the close the client asked for.        *)
HearClosed(s) ==
  /\ host[s] \in {"init", "live", "asking"}
  /\ s \in told
  /\ HostDone(s)
  /\ UNCHANGED <<backendVars, client>>

(* Mutant: a close that failed is tried again until it succeeds. *)
CloseRepliedAgain(s) ==
  /\ host[s] \in {"asking", "closing"}
  /\ at[s].http \in Ended
  /\ \/ /\ at[s].http = "ok"
        /\ HostDone(s)
        /\ ws' = [ws EXCEPT ![s] = "shut"]
        /\ UNCHANGED at
     \/ /\ at[s].http # "ok"
        /\ Host(s, "closing")
        /\ Go(s, "http", "asked")
        /\ UNCHANGED <<ws, status>>
  /\ UNCHANGED <<active, sessions, closed, fin, orphans, told, pushes, faults,
                 admitted, overtaken, lost, client>>

(* The close route answers.  Success shuts the data socket; an error       *)
(* leaves it, and one that the client's close met leads to a second call.  *)
CloseReplied(s) ==
  /\ host[s] \in {"asking", "closing"}
  /\ at[s].http \in Ended
  /\ \/ /\ at[s].http = "ok"
        /\ HostDone(s)
        /\ ws' = [ws EXCEPT ![s] = "shut"]
        /\ UNCHANGED at
     \/ /\ at[s].http # "ok" /\ host[s] = "closing"
        /\ HostDone(s)
        /\ UNCHANGED <<ws, at>>
     \/ /\ at[s].http # "ok" /\ host[s] = "asking"
        /\ Host(s, "closing")
        /\ Go(s, "http", "asked")
        /\ UNCHANGED <<ws, status>>
  /\ UNCHANGED <<active, sessions, closed, fin, orphans, told, pushes, faults,
                 admitted, overtaken, lost, client>>

(* The close route takes longer than close_timeout_s. *)
CloseTimesOut(s) ==
  /\ host[s] = "closing"
  /\ at[s].http \notin Ended
  /\ Fault
  /\ HostDone(s)
  /\ UNCHANGED <<active, sessions, at, closed, fin, orphans, ws, told, pushes,
                 admitted, overtaken, lost, client>>

Server(s) == ServerStep(s) /\ UNCHANGED <<status, host, client>>

GiveUp(s) ==
  /\ \E a \in Tasks : DrainTimesOut(s, a)
  /\ UNCHANGED <<status, host, client>>

HostStep(s) ==
  \/ Accept(s) \/ First(s) \/ Created(s) \/ HearClosed(s) \/ CloseReplied(s)

Next ==
  \E s \in Sessions :
    \/ Arrive(s) \/ Leave(s) \/ Input(s) \/ AskClose(s) \/ CloseTimesOut(s)
    \/ HostStep(s) \/ Server(s) \/ GiveUp(s)

Spec == Init /\ [][Next]_vars

(* The event loops go on, threads return, and the finally clause of a      *)
(* handler whose client is gone runs.                                      *)
FairSpec ==
  /\ Spec
  /\ \A s \in Sessions :
       /\ WF_vars(Server(s))
       /\ WF_vars(HostStep(s))
       /\ WF_vars(client[s] = "gone" /\ AskClose(s))
-----------------------------------------------------------------------------
TypeOK ==
  /\ BackendTypeOK
  /\ status \in {"idle", "busy"}
  /\ host \in [Sessions -> HostStages]
  /\ client \in [Sessions -> {"none", "here", "gone"}]

(* A session that its worker has finished with keeps the only slot of the   *)
(* backend no longer than a tear-down that is on its way, unless one raised *)
(* or left it for good; a close that answers success is no such end, since  *)
(* it may have met a close that raised.                                     *)
SlotIsOnItsWay ==
  \A s \in Sessions :
    active = s /\ host[s] = "done" =>
      s \in lost \/ \E a \in Tasks : at[s][a] \in TearDown

(* The slot of a session that its worker has finished with comes back,     *)
(* unless a close of it raised.                                            *)
SlotComesBack ==
  \A s \in Sessions :
    (active = s /\ host[s] = "done") ~> (active # s \/ s \in lost)

(* A worker whose client is gone ends its session, whatever the backend    *)
(* does.                                                                   *)
WorkerComesBack ==
  \A s \in Sessions :
    (client[s] = "gone" /\ host[s] # "none") ~> (host[s] = "done")
=============================================================================
