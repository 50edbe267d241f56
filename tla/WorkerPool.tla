----------------------------- MODULE WorkerPool -----------------------------
(***************************************************************************)
(* The gateway's worker pool (gateway_modules/worker_pool.py) together     *)
(* with the code that drives it: the realtime WebSocket handler that       *)
(* queues for a worker, uses it and gives it back                          *)
(* (_api_worker_passthrough_ws in gateway.py), the health loop, the admin  *)
(* cancel route, the worker registration route, and the worker host as the *)
(* pool sees it (its /health answer and whether it accepts a session).     *)
(*                                                                         *)
(* The gateway is one asyncio program: what runs between two awaits is one *)
(* action, and every await is a place where any other handler may run.     *)
(* A client stands for one browser connection and its handler task; the    *)
(* ticket of a connection is identified with the client, which may come    *)
(* back with a new ticket once the former handler has ended.               *)
(*                                                                         *)
(* Every worker supports every request type (worker.py always reports      *)
(* DEFAULT_WORKER_CAPABILITIES), so requests have no type here, and the    *)
(* pool's statuses are merged into the three the pool tells apart: idle,   *)
(* busy (chat or duplex, active or paused) and offline (LOADING, ERROR,    *)
(* OFFLINE).                                                               *)
(***************************************************************************)
EXTENDS Naturals, FiniteSets, SequencesExt

CONSTANTS
  Workers,        \* worker ids; their order is the order of worker_id
  StaticWorkers,  \* the workers named on the gateway's command line
  DynamicWorkers, \* the workers that are registered at run time
  MovableWorkers, \* those of them that may register another endpoint
  GpuGroup,       \* the GPU each worker shares
  Clients,        \* browser connections
  MaxQueue,       \* max_queue_size
  MaxCrashes,     \* bound on how often the worker hosts go down
  None,           \* no worker, no future, no request
  Pending,        \* a future without a result
  Cancelled       \* a cancelled future

ASSUME WorkersAssumption ==
  /\ Workers \subseteq Nat
  /\ StaticWorkers \subseteq Workers
  /\ DynamicWorkers \subseteq Workers
  /\ MovableWorkers \subseteq DynamicWorkers
  /\ DOMAIN GpuGroup = Workers

ASSUME NoneAssumption ==
  /\ None \notin Workers
  /\ None \notin {"asked", "idle", "active", "down"}
  /\ Pending \notin Workers \cup {None, Cancelled}
  /\ Cancelled \notin Workers \cup {None}

ASSUME ClientsAssumption == {None, Pending, Cancelled} \cap Clients = {}

ASSUME BoundsAssumption == MaxQueue \in Nat /\ MaxCrashes \in Nat

VARIABLES
  known,       \* the keys of WorkerPool.workers
  status,      \* WorkerConnection.status, merged as said above
  dispatched,  \* WorkerConnection._gateway_dispatched
  queue,       \* WorkerPool._queue, oldest ticket first
  future,      \* the Future of each client's ticket
  round,       \* a _refresh_all_status is awaiting its gather
  reply,       \* the /health request in flight for each worker, per caller
  pc,          \* where each client's handler is suspended
  worker,      \* the handler's local variable `worker`
  host,        \* what runs at the worker's endpoint
  crashes,     \* how often a host went down so far
  moved,       \* history: the workers whose endpoint was changed
  orphans      \* the handlers whose session is with a former endpoint

vars == <<known, status, dispatched, queue, future, round, reply, pc, worker,
          host, crashes, moved, orphans>>

poolVars    == <<known, status, dispatched>>
queueVars   == <<queue, future>>
handlerVars == <<pc, worker>>
healthVars  == <<round, reply>>
hostVars    == <<host, crashes>>
moveVars    == <<moved, orphans>>

(* Who awaits a /health answer: the health loop's round or a registration. *)
Callers == {"round", "register"}

(* The phases of a handler; all but the first and the last two hold a     *)
(* place in the queue or a worker:                                        *)
(*   away       not connected                                             *)
(*   sending    in send_json of session.queued or session.queue_update    *)
(*   waiting    in wait_for(shield(future))                               *)
(*   greeting   in send_json of session.queue_done                        *)
(*   connecting in websockets.connect to the worker                       *)
(*   running    in asyncio.wait on the forwarding tasks                   *)
(*   closing    in the error report or in worker_ws.close()               *)
Queued   == {"sending", "waiting"}
Serving  == {"greeting", "connecting", "running", "closing"}
Phases   == {"away"} \cup Queued \cup Serving

----------------------------------------------------------------------------
(* Choosing workers. *)

Idle(st) == {w \in Workers : st[w] = "idle"}

(* _gpu_busy_counts: how many workers of w's GPU are busy. *)
Load(st, w) ==
  Cardinality({v \in Workers : st[v] = "busy" /\ GpuGroup[v] = GpuGroup[w]})

(* _get_idle_worker: the idle worker of the least busy GPU, the smallest  *)
(* worker id among equals.                                                *)
IsBest(st, w) ==
  /\ w \in Idle(st)
  /\ \A v \in Idle(st) : \/ Load(st, w) < Load(st, v)
                         \/ Load(st, w) = Load(st, v) /\ w <= v

(* mark_busy on a set of workers. *)
Occupy(st, ws) == [w \in Workers |-> IF w \in ws THEN "busy" ELSE st[w]]

(* Mutant: the newest ticket is served first, as OrderedDict.popitem()    *)
(* would do.                                                               *)
DispatchNewest(st, ds, q, fut) ==
  LET last == Len(q)
  IN  \/ /\ last > 0
         /\ \E w \in Workers :
              /\ IsBest(st, w)
              /\ status' = Occupy(st, {w})
              /\ dispatched' = [ds EXCEPT ![w] = TRUE]
              /\ future' = [fut EXCEPT ![q[last]] = w]
         /\ queue' = SubSeq(q, 1, last - 1)
      \/ /\ last = 0 \/ Idle(st) = {}
         /\ status' = st /\ dispatched' = ds /\ queue' = q /\ future' = fut

(* _dispatch_next started from the pool st, ds and the queue q: as long as *)
(* somebody waits and a worker is idle, the oldest ticket gets the best    *)
(* worker, which is marked busy before the next one is looked at; a[i] is  *)
(* the worker of the i-th ticket. The branch that drops entries with a     *)
(* finished future has nothing to do: see WaitersAreQueued.                *)
Dispatch(st, ds, q, fut) ==
  \E n \in 0..Len(q) : \E a \in [1..n -> Workers] :
    LET Given(i) == {a[j] : j \in 1..i}
    IN  /\ \A i \in 1..n : IsBest(Occupy(st, Given(i - 1)), a[i])
        /\ n = Len(q) \/ Idle(Occupy(st, Given(n))) = {}
        /\ status' = Occupy(st, Given(n))
        /\ dispatched' = [w \in Workers |-> w \in Given(n) \/ ds[w]]
        /\ queue' = SubSeq(q, n + 1, Len(q))
        /\ future' = [c \in Clients |->
                        IF \E i \in 1..n : q[i] = c
                        THEN a[CHOOSE i \in 1..n : q[i] = c]
                        ELSE fut[c]]

(* cancel(ticket_id): nothing for a ticket that is not queued (any more); *)
(* otherwise the entry leaves the queue, its future becomes fut, and the  *)
(* queue is dispatched.                                                   *)
InQueue(c) == \E i \in 1..Len(queue) : queue[i] = c

Cancel(c, fut) ==
  \/ \E i \in 1..Len(queue) :
       /\ queue[i] = c
       /\ Dispatch(status, dispatched, RemoveAt(queue, i),
                   [future EXCEPT ![c] = fut])
  \/ /\ ~InQueue(c)
     /\ future' = [future EXCEPT ![c] = fut]
     /\ UNCHANGED <<status, dispatched, queue>>

----------------------------------------------------------------------------
(* The realtime handler. *)

(* enqueue with an idle worker at hand: the ticket never sees the queue,  *)
(* whoever waits in it, and the handler goes on to greet the client.      *)
ArriveAssigned(c) ==
  /\ pc[c] = "away"
  /\ \E w \in Workers :
       /\ IsBest(status, w)
       /\ status' = [status EXCEPT ![w] = "busy"]
       /\ dispatched' = [dispatched EXCEPT ![w] = TRUE]
       /\ worker' = [worker EXCEPT ![c] = w]
  /\ pc' = [pc EXCEPT ![c] = "greeting"]
  /\ UNCHANGED <<known, queueVars, healthVars, hostVars, moveVars>>

(* enqueue without one; a full queue refuses the client and changes       *)
(* nothing.                                                               *)
ArriveQueued(c) ==
  /\ pc[c] = "away"
  /\ Idle(status) = {}
  /\ Len(queue) < MaxQueue
  /\ queue' = Append(queue, c)
  /\ future' = [future EXCEPT ![c] = Pending]
  /\ pc' = [pc EXCEPT ![c] = "sending"]
  /\ UNCHANGED <<poolVars, worker, healthVars, hostVars, moveVars>>

(* The handler goes on with the worker of its resolved future. *)
TakeWorker(c) ==
  /\ future[c] \in Workers
  /\ worker' = [worker EXCEPT ![c] = future[c]]
  /\ future' = [future EXCEPT ![c] = None]
  /\ pc' = [pc EXCEPT ![c] = "greeting"]
  /\ UNCHANGED <<poolVars, queue, healthVars, hostVars, moveVars>>

(* The handler ends with CancelledError: an admin cancelled its ticket. *)
GiveUp(c) ==
  /\ future[c] = Cancelled
  /\ future' = [future EXCEPT ![c] = None]
  /\ pc' = [pc EXCEPT ![c] = "away"]
  /\ UNCHANGED <<poolVars, queue, worker, healthVars, hostVars, moveVars>>

(* The queue message went out: `while not future.done()`. *)
Sent(c) ==
  /\ pc[c] = "sending"
  /\ \/ /\ future[c] = Pending
        /\ pc' = [pc EXCEPT ![c] = "waiting"]
        /\ UNCHANGED <<poolVars, queueVars, worker, healthVars, hostVars, moveVars>>
     \/ TakeWorker(c)
     \/ GiveUp(c)

(* The queue message could not be sent, the client is gone: cancel and    *)
(* return. Nothing looks at the future, which may have been resolved      *)
(* while the handler was sending.                                         *)
SendFails(c) ==
  /\ pc[c] = "sending"
  /\ Cancel(c, None)
  /\ pc' = [pc EXCEPT ![c] = "away"]
  /\ UNCHANGED <<known, worker, healthVars, hostVars, moveVars>>

(* Three seconds without a worker: send the ticket's position. *)
WaitTimeout(c) ==
  /\ pc[c] = "waiting"
  /\ future[c] = Pending
  /\ pc' = [pc EXCEPT ![c] = "sending"]
  /\ UNCHANGED <<poolVars, queueVars, worker, healthVars, hostVars, moveVars>>

(* The future was resolved or cancelled while the handler waited on it. *)
Wake(c) ==
  /\ pc[c] = "waiting"
  /\ TakeWorker(c) \/ GiveUp(c)

(* session.queue_done went out: mark_busy once more, then connect. *)
Greeted(c) ==
  /\ pc[c] = "greeting"
  /\ status' = [status EXCEPT ![worker[c]] = "busy"]
  /\ dispatched' = [dispatched EXCEPT ![worker[c]] = TRUE]
  /\ pc' = [pc EXCEPT ![c] = "connecting"]
  /\ UNCHANGED <<known, queueVars, worker, healthVars, hostVars, moveVars>>

(* The worker host takes a session only when it is idle (worker.py). The  *)
(* address was read before the await: an orphan reaches the former host.  *)
Connected(c) ==
  /\ pc[c] = "connecting"
  /\ \/ c \in orphans /\ UNCHANGED host
     \/ /\ c \notin orphans
        /\ host[worker[c]] = "idle"
        /\ host' = [host EXCEPT ![worker[c]] = "active"]
  /\ pc' = [pc EXCEPT ![c] = "running"]
  /\ UNCHANGED <<poolVars, queueVars, worker, healthVars, crashes, moveVars>>

(* The greeting or the connect failed, or the session is over: closed by  *)
(* either side, cut by the duration watchdog or by an error.              *)
SessionEnds(c) ==
  /\ pc[c] \in {"greeting", "connecting", "running"}
  /\ pc' = [pc EXCEPT ![c] = "closing"]
  /\ UNCHANGED <<poolVars, queueVars, worker, healthVars, hostVars, moveVars>>

(* Mutant: release_worker does not dispatch. *)
ReleaseOnly(c) ==
  /\ pc[c] = "closing"
  /\ status' = [status EXCEPT ![worker[c]] = "idle"]
  /\ dispatched' = [dispatched EXCEPT ![worker[c]] = FALSE]
  /\ worker' = [worker EXCEPT ![c] = None]
  /\ pc' = [pc EXCEPT ![c] = "away"]
  /\ orphans' = orphans \ {c}
  /\ UNCHANGED <<known, queueVars, healthVars, hostVars, moved>>

(* Mutant: mark_idle leaves _gateway_dispatched set. *)
ReleaseMarked(c) ==
  /\ pc[c] = "closing"
  /\ Dispatch([status EXCEPT ![worker[c]] = "idle"], dispatched, queue, future)
  /\ worker' = [worker EXCEPT ![c] = None]
  /\ pc' = [pc EXCEPT ![c] = "away"]
  /\ orphans' = orphans \ {c}
  /\ UNCHANGED <<known, healthVars, hostVars, moved>>

(* The end of the handler's finally: release_worker, which marks the      *)
(* worker idle whatever it is and dispatches.                             *)
Release(c) ==
  /\ pc[c] = "closing"
  /\ LET w == worker[c]
     IN  Dispatch([status EXCEPT ![w] = "idle"],
                  [dispatched EXCEPT ![w] = FALSE], queue, future)
  /\ worker' = [worker EXCEPT ![c] = None]
  /\ pc' = [pc EXCEPT ![c] = "away"]
  /\ orphans' = orphans \ {c}
  /\ UNCHANGED <<known, healthVars, hostVars, moved>>

(* DELETE /api/queue/{ticket_id} for a queued ticket. *)
AdminCancel(c) ==
  /\ InQueue(c)
  /\ Cancel(c, Cancelled)
  /\ UNCHANGED <<known, handlerVars, healthVars, hostVars, moveVars>>

----------------------------------------------------------------------------
(* Health checks and registration. *)

(* Mutant: the round skips the workers that look busy. *)
RoundSkipsBusy ==
  /\ ~round
  /\ round' = TRUE
  /\ reply' = [p \in DOMAIN reply |->
                 IF p[1] = "round" /\ p[2] \in known /\ status[p[2]] # "busy"
                 THEN "asked" ELSE reply[p]]
  /\ UNCHANGED <<poolVars, queueVars, handlerVars, hostVars, moveVars>>

(* _refresh_all_status: ask every worker of the pool. *)
RoundStarts ==
  /\ ~round
  /\ round' = TRUE
  /\ reply' = [p \in DOMAIN reply |->
                 IF p[1] = "round" /\ p[2] \in known THEN "asked" ELSE reply[p]]
  /\ UNCHANGED <<poolVars, queueVars, handlerVars, hostVars, moveVars>>

(* The host answers GET /health with what it is now (down also stands for *)
(* a refused or timed out request); the answer is used later.             *)
HostAnswers(p) ==
  /\ reply[p] = "asked"
  /\ reply' = [reply EXCEPT ![p] = host[p[2]]]
  /\ UNCHANGED <<poolVars, queueVars, round, handlerVars, hostVars, moveVars>>

(* Mutant: an idle report is always believed. *)
RefreshedBlindly(w, answer) ==
  CASE answer = "idle"   -> "idle"
    [] answer = "active" -> "busy"
    [] answer = "down"   -> "offline"

(* _refresh_worker_status once the answer is in: an idle report does not  *)
(* undo a dispatch, anything else is taken over.                          *)
Refreshed(w, answer) ==
  CASE answer = "idle"   -> IF dispatched[w] THEN status[w] ELSE "idle"
    [] answer = "active" -> "busy"
    [] answer = "down"   -> "offline"

Answers == {"idle", "active", "down"}

(* One of the coroutines of the gather ends. *)
ReplyApplied(w) ==
  LET p == <<"round", w>>
  IN  /\ reply[p] \in Answers
      /\ status' = [status EXCEPT ![w] = Refreshed(w, reply[p])]
      /\ reply' = [reply EXCEPT ![p] = None]
      /\ UNCHANGED <<known, dispatched, queueVars, round, handlerVars,
                     hostVars, moveVars>>

(* All of them did: only now is the queue dispatched. *)
RoundEnds ==
  /\ round
  /\ \A w \in Workers : reply[<<"round", w>>] = None
  /\ round' = FALSE
  /\ Dispatch(status, dispatched, queue, future)
  /\ UNCHANGED <<known, reply, handlerVars, hostVars, moveVars>>

(* Mutant: every registration resets the connection. *)
RegisterResets(w) ==
  LET p == <<"register", w>>
  IN  /\ w \in DynamicWorkers
      /\ reply[p] = None
      /\ known' = known \cup {w}
      /\ status' = [status EXCEPT ![w] = "offline"]
      /\ dispatched' = [dispatched EXCEPT ![w] = FALSE]
      /\ reply' = [reply EXCEPT ![p] = "asked"]
      /\ UNCHANGED <<queueVars, round, handlerVars, hostVars, moveVars>>

(* register_worker up to its await: a worker that is new or comes back    *)
(* under the same endpoint ...                                            *)
Register(w) ==
  LET p == <<"register", w>>
  IN  /\ w \in DynamicWorkers
      /\ reply[p] = None
      /\ known' = known \cup {w}
      /\ reply' = [reply EXCEPT ![p] = "asked"]
      /\ UNCHANGED <<status, dispatched, queueVars, round, handlerVars,
                     hostVars, moveVars>>

(* ... or under another one: the connection forgets what it was doing.    *)
(* Another host answers from now on. A worker moves at most once here.    *)
RegisterElsewhere(w) ==
  LET p == <<"register", w>>
  IN  /\ w \in (known \cap MovableWorkers) \ moved
      /\ reply[p] = None
      /\ status' = [status EXCEPT ![w] = "offline"]
      /\ dispatched' = [dispatched EXCEPT ![w] = FALSE]
      /\ reply' = [reply EXCEPT ![p] = "asked"]
      /\ \E h \in {"down", "idle"} : host' = [host EXCEPT ![w] = h]
      /\ moved' = moved \cup {w}
      /\ orphans' = orphans \cup
           {c \in Clients : worker[c] = w /\ pc[c] \in Serving \ {"greeting"}}
      /\ UNCHANGED <<known, queueVars, round, handlerVars, crashes>>

(* Mutant: a registration does not dispatch. *)
RegisteredOnly(w) ==
  LET p == <<"register", w>>
  IN  /\ reply[p] \in Answers
      /\ reply' = [reply EXCEPT ![p] = None]
      /\ status' = [status EXCEPT ![w] = Refreshed(w, reply[p])]
      /\ UNCHANGED <<known, dispatched, queueVars, round, handlerVars, hostVars,
                     moveVars>>

(* register_worker after its await: refresh, then dispatch. *)
Registered(w) ==
  LET p == <<"register", w>>
  IN  /\ reply[p] \in Answers
      /\ reply' = [reply EXCEPT ![p] = None]
      /\ Dispatch([status EXCEPT ![w] = Refreshed(w, reply[p])],
                  dispatched, queue, future)
      /\ UNCHANGED <<known, round, handlerVars, hostVars, moveVars>>

----------------------------------------------------------------------------
(* Worker hosts: the process goes down (at most MaxCrashes times), comes  *)
(* up idle, and becomes idle again some time after its session, on its    *)
(* own account (the runtime's close may take up to 30 s) or by ending the *)
(* session itself.                                                        *)

HostCrashes(w) ==
  /\ host[w] # "down"
  /\ crashes < MaxCrashes
  /\ host' = [host EXCEPT ![w] = "down"]
  /\ crashes' = crashes + 1
  /\ UNCHANGED <<poolVars, queueVars, handlerVars, healthVars, moveVars>>

HostUp(w) ==
  /\ host[w] = "down"
  /\ host' = [host EXCEPT ![w] = "idle"]
  /\ UNCHANGED <<poolVars, queueVars, handlerVars, healthVars, crashes, moveVars>>

HostFinishes(w) ==
  /\ host[w] = "active"
  /\ host' = [host EXCEPT ![w] = "idle"]
  /\ UNCHANGED <<poolVars, queueVars, handlerVars, healthVars, crashes, moveVars>>

----------------------------------------------------------------------------
Init ==
  /\ known = StaticWorkers
  /\ status = [w \in Workers |-> "offline"]
  /\ dispatched = [w \in Workers |-> FALSE]
  /\ queue = <<>>
  /\ future = [c \in Clients |-> None]
  /\ round = FALSE
  /\ reply = [p \in Callers \X Workers |-> None]
  /\ pc = [c \in Clients |-> "away"]
  /\ worker = [c \in Clients |-> None]
  /\ host = [w \in Workers |-> "down"]
  /\ crashes = 0
  /\ moved = {}
  /\ orphans = {}

Handler(c) ==
  \/ ArriveAssigned(c) \/ ArriveQueued(c)
  \/ Sent(c) \/ SendFails(c) \/ WaitTimeout(c) \/ Wake(c)
  \/ Greeted(c) \/ Connected(c) \/ SessionEnds(c) \/ Release(c)

Health(w) ==
  \/ ReplyApplied(w)
  \/ Register(w) \/ RegisterElsewhere(w) \/ Registered(w)
  \/ HostCrashes(w) \/ HostUp(w) \/ HostFinishes(w)

Next ==
  \/ \E c \in Clients : Handler(c) \/ AdminCancel(c)
  \/ RoundStarts
  \/ \E p \in Callers \X Workers : HostAnswers(p)
  \/ RoundEnds
  \/ \E w \in Workers : Health(w)

Spec == Init /\ [][Next]_vars

(* The event loop runs every ready task; a send ends or fails; a connect  *)
(* has an open timeout; audio and video sessions have a duration watchdog *)
(* and the users of a chat leave it; a health request has a timeout and   *)
(* the health loop never stops; a host that is down is restarted and one  *)
(* that is done with its session becomes idle.                            *)
(* No client has to come, no admin has to cancel and no worker has to be  *)
(* registered or to crash.                                                *)
Fairness ==
  /\ \A c \in Clients :
       /\ WF_vars(Sent(c) \/ SendFails(c))
       /\ WF_vars(Wake(c))
       /\ WF_vars(SessionEnds(c))
       /\ WF_vars(Release(c))
  /\ WF_vars(RoundStarts)
  /\ WF_vars(RoundEnds)
  /\ \A p \in Callers \X Workers : WF_vars(HostAnswers(p))
  /\ \A w \in Workers :
       /\ WF_vars(ReplyApplied(w))
       /\ WF_vars(Registered(w))
       /\ WF_vars(HostUp(w))
       /\ WF_vars(HostFinishes(w))

FairSpec == Spec /\ Fairness

----------------------------------------------------------------------------
(* Properties. *)

TypeOK ==
  /\ known \subseteq Workers
  /\ status \in [Workers -> {"idle", "busy", "offline"}]
  /\ dispatched \in [Workers -> BOOLEAN]
  /\ queue \in Seq(Clients)
  /\ future \in [Clients -> Workers \cup {None, Pending, Cancelled}]
  /\ round \in BOOLEAN
  /\ reply \in [Callers \X Workers -> Answers \cup {None, "asked"}]
  /\ pc \in [Clients -> Phases]
  /\ worker \in [Clients -> Workers \cup {None}]
  /\ host \in [Workers -> Answers]
  /\ crashes \in 0..MaxCrashes
  /\ moved \subseteq Workers
  /\ orphans \subseteq Clients

(* c's handler has w, or will have it when it next runs. *)
Holds(c, w) == worker[c] = w \/ (future[c] = w /\ pc[c] \in Queued)

(* A worker that is marked dispatched for a handler that is no more.      *)
Leaked(w) == dispatched[w] /\ \A c \in Clients : ~Holds(c, w)

(* A worker is used exclusively: as long as it stays at its endpoint, no  *)
(* two handlers have it, whether one is queued with its future resolved,  *)
(* connecting, talking or cleaning up, and whatever the health checks     *)
(* report meanwhile.                                                      *)
ExclusiveUnlessMoved ==
  \A w \in Workers \ moved : \A c, d \in Clients :
    Holds(c, w) /\ Holds(d, w) => c = d

(* The dispatch mark outlives everything but the release: the worker of a *)
(* live handler stays marked, and a marked worker is never offered as     *)
(* idle, not even when its host, between two sessions or restarted, says  *)
(* it is idle.                                                            *)
DispatchHasAuthority ==
  /\ \A w \in Workers \ moved : \A c \in Clients : Holds(c, w) => dispatched[w]
  /\ \A w \in Workers : dispatched[w] => status[w] # "idle"

(* Queue and futures agree: a ticket waits in the queue exactly when its  *)
(* future is open, once, and only while its handler waits for it; so      *)
(* _dispatch_next never meets a finished future and no waiter is lost.    *)
WaitersAreQueued ==
  /\ \A c \in Clients : future[c] = Pending <=> InQueue(c)
  /\ \A c \in Clients : future[c] # None => pc[c] \in Queued
  /\ \A i, j \in 1..Len(queue) : queue[i] = queue[j] => i = j

(* No worker idles while somebody waits: every event that frees a worker  *)
(* dispatches the queue at once, except a health reply, whose round will. *)
WorkConserving == Idle(status) # {} /\ queue # <<>> => round

(* A worker is lost in one way only: its ticket was resolved while the    *)
(* queued handler was sending, and the message could not be sent. Every   *)
(* other end of a handler gives the worker back.                          *)
OnlyFailedSendLeaks ==
  [][\A w \in Workers : Leaked(w)' /\ ~Leaked(w) =>
       \E c \in Clients : /\ pc[c] = "sending" /\ pc'[c] = "away"
                          /\ future[c] = w]_vars

(* Every waiting handler gets a worker or ends, as long as no worker is   *)
(* lost: crashed hosts, stale health replies, cancelled neighbours and    *)
(* clients that overtake delay it but cannot keep it waiting forever.     *)
QueueDrains ==
  [](\A w \in Workers : ~Leaked(w)) =>
    \A c \in Clients : (pc[c] \in Queued) ~> (pc[c] \notin Queued)

(* The pool implements WorkerLeases while no endpoint moves: the line is  *)
(* the queue, and a worker is leased to the handler that holds it.  So    *)
(* those who wait are served in the order in which they came.             *)
LeaseOf(w) ==
  IF \E c \in Clients : Holds(c, w) THEN CHOOSE c \in Clients : Holds(c, w)
  ELSE IF dispatched[w] THEN Cancelled ELSE None

Leases == INSTANCE WorkerLeases
  WITH line <- queue, lease <- [w \in Workers |-> LeaseOf(w)],
       Free <- None, Lost <- Cancelled

ImplementsLeases == Leases!Spec

=============================================================================
