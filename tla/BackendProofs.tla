---------------------------- MODULE BackendProofs ----------------------------
(***************************************************************************)
(* Proofs about the worker and its backend server: the invariants of       *)
(* BackendBridge, for any number of sessions, inputs and faults.           *)
(*                                                                         *)
(* What the invariants need beside themselves is stated one session at a   *)
(* time (Local), since an action of one session leaves the variables of    *)
(* the others alone; only the slot (RegistryAgrees) is shared.             *)
(***************************************************************************)
EXTENDS BackendBridge, TLAPS

(* A handler that has not opened its backend socket has left no trace in   *)
(* the backend.                                                            *)
Unopened(s) ==
  /\ client[s] = "none" => host[s] = "none"
  /\ host[s] \in {"none", "accept", "first"} =>
       at[s]["ws"] = "none" /\ at[s]["http"] = "none"
  /\ at[s]["ws"] \in {"none", "register"} =>
       s \notin admitted /\ s \notin closed /\ s \notin told
  /\ at[s]["ws"] = "register" => host[s] = "init"

(* Who asked for a close, and with which answer.                           *)
Asked(s) ==
  /\ host[s] \in {"none", "accept", "first", "init", "live"} => at[s]["http"] = "none"
  /\ host[s] \in {"asking", "closing"} => at[s]["http"] # "none"
  /\ host[s] \in {"live", "asking", "closing"} => at[s]["ws"] \notin {"none", "register"}
  /\ at[s]["http"] \notin {"none", "asked", "missing"} => s \in closed
  /\ at[s]["http"] = "missing" => s \notin sessions
  /\ at[s]["http"] # "none" => at[s]["ws"] \notin {"none", "register"}

(* The stages of a tear-down that has begun.                               *)
Begun == TearDown \ {"asked"}

TearingDown(s) ==
  /\ s \in told => s \in closed
  /\ \A a \in Tasks : at[s][a] \in Begun => s \in closed
  /\ \A a \in Tasks : at[s][a] \in {"fstop", "fdrain", "fclean", "forget"} =>
                       ws[s] = "shut"
  /\ \A a \in Tasks : at[s][a] = "raised" => s \in lost

(* A closed session that still has the slot is being torn down.            *)
Leaving(s) ==
  s \in closed /\ s \in sessions => s \in lost \/ \E a \in Tasks : at[s][a] \in Begun

(* A session that was served and forgotten, with no call of its own        *)
(* running then, is idle for good.                                         *)
Gone(s) ==
  s \in admitted /\ s \notin sessions /\ s \notin overtaken =>
    /\ \A a \in Tasks : at[s][a] \in Ended \cup {"none", "asked", "receive"}
    /\ fin[s] # "running" /\ s \notin orphans
    /\ s \in closed /\ ws[s] = "shut"

Finalising(s) ==
  /\ s \notin Duplex => fin[s] = "none"
  /\ at[s]["ws"] = "step" => fin[s] # "running"

(* A worker that has finished with a session has closed it, or asked for   *)
(* it to be closed.                                                        *)
Finished(s) ==
  host[s] = "done" /\ s \in sessions => s \in closed \/ at[s]["http"] = "asked"

Local(s) ==
  /\ Unopened(s) /\ Asked(s) /\ TearingDown(s) /\ Leaving(s) /\ Gone(s)
  /\ Finalising(s) /\ Finished(s)

IInv == TypeOK /\ RegistryAgrees /\ \A s \in Sessions : Local(s)

-----------------------------------------------------------------------------
(* Types.                                                                  *)

LEMMA GoTyped ==
  ASSUME TypeOK, NEW s \in Sessions, NEW a \in Tasks, NEW stage \in Stages,
         Go(s, a, stage)
  PROVE  at' \in [Sessions -> [Tasks -> Stages]]
BY DEF TypeOK, BackendTypeOK, Go

LEMMA BeginFatalTyped ==
  ASSUME TypeOK, NEW s \in Sessions, BeginFatal(s)
  PROVE  /\ at' \in [Sessions -> [Tasks -> Stages]]
         /\ closed' \subseteq Sessions /\ told' \subseteq Sessions
         /\ ws' \in [Sessions -> {"none", "open", "shut"}]
<1>1. at' \in [Sessions -> [Tasks -> Stages]]
  <2>1. "ws" \in Tasks /\ (IF s \in Duplex THEN "fstop" ELSE "forget") \in Stages
    BY DEF Tasks, Stages
  <2> QED BY <2>1, GoTyped DEF BeginFatal
<1> QED BY <1>1 DEF TypeOK, BackendTypeOK, BeginFatal

LEMMA BeginCloseTyped ==
  ASSUME TypeOK, NEW s \in Sessions, NEW a \in Tasks, BeginClose(s, a)
  PROVE  /\ at' \in [Sessions -> [Tasks -> Stages]]
         /\ closed' \subseteq Sessions /\ told' \subseteq Sessions
         /\ ws' \in [Sessions -> {"none", "open", "shut"}]
<1>1. at' \in [Sessions -> [Tasks -> Stages]]
  <2>1. (IF s \notin closed THEN "drain" ELSE IF a = "http" THEN "ok" ELSE "done") \in Stages
    BY DEF Stages
  <2> QED BY <2>1, GoTyped DEF BeginClose
<1> QED BY <1>1 DEF TypeOK, BackendTypeOK, BeginClose

LEMMA LostTyped ==
  ASSUME TypeOK, NEW s \in Sessions, NoteRaised(s)
  PROVE  lost' \subseteq Sessions
BY DEF TypeOK, BackendTypeOK, NoteRaised

LEMMA DrainedTyped ==
  ASSUME NEW s \in Sessions, NEW stage \in Draining
  PROVE  Drained(s, stage) \in Stages /\ DrainRaised(stage) \in Stages
BY DEF Draining, Drained, DrainRaised, Stages

LEMMA WokenTyped ==
  ASSUME TypeOK, NEW s \in Sessions, NEW how
  PROVE  Woken(s, how) \in [Tasks -> Stages]
<1>1. ASSUME NEW a \in Tasks
      PROVE  (IF at[s][a] \notin Draining THEN at[s][a]
              ELSE IF how = "ok" THEN Drained(s, at[s][a])
              ELSE DrainRaised(at[s][a])) \in Stages
  BY DrainedTyped DEF TypeOK, BackendTypeOK
<1> QED BY <1>1 DEF Woken

LEMMA TypesKept ==
  ASSUME TypeOK, [Next]_vars
  PROVE  TypeOK'
<1>1. ASSUME NEW s \in Sessions, Arrive(s)
      PROVE  TypeOK'
  BY <1>1 DEF TypeOK, BackendTypeOK, HostStages, Host, Arrive, backendVars
<1>2. ASSUME NEW s \in Sessions, Leave(s)
      PROVE  TypeOK'
  BY <1>2 DEF TypeOK, BackendTypeOK, Leave, backendVars
<1>3. ASSUME NEW s \in Sessions, Input(s)
      PROVE  TypeOK'
  <2>1. at' \in [Sessions -> [Tasks -> Stages]]
    BY <1>3, GoTyped, BeginFatalTyped, BeginCloseTyped DEF Input, Push, Tasks,
       Stages
  <2>2. closed' \subseteq Sessions /\ told' \subseteq Sessions
        /\ ws' \in [Sessions -> {"none", "open", "shut"}]
    BY <1>3, BeginFatalTyped, BeginCloseTyped DEF Input, Push, Tasks, TypeOK,
       BackendTypeOK
  <2>3. pushes' = [pushes EXCEPT ![s] = @ + 1] /\ pushes[s] < MaxPush[s]
    BY <1>3 DEF Input, Push
  <2>4. pushes' \in [Sessions -> Nat]
    BY <1>3, <2>3 DEF TypeOK, BackendTypeOK
  <2>5. pushes[s] \in Nat /\ MaxPush[s] \in Nat
    BY <1>3, BackendBoundsAssumption DEF TypeOK, BackendTypeOK
  <2>6. ASSUME NEW t \in Sessions PROVE pushes'[t] <= MaxPush[t]
    BY <1>3, <2>3, <2>5 DEF TypeOK, BackendTypeOK
  <2> QED BY <1>3, <2>1, <2>2, <2>4, <2>6 DEF TypeOK, BackendTypeOK, Input,
     Push
<1>4. ASSUME NEW s \in Sessions, AskClose(s)
      PROVE  TypeOK'
  <2>1. at' \in [Sessions -> [Tasks -> Stages]]
    BY <1>4, GoTyped DEF AskClose, Tasks, Stages, TypeOK, BackendTypeOK
  <2> QED BY <1>4, <2>1 DEF TypeOK, BackendTypeOK, AskClose, HostStages, Host
<1>5. ASSUME NEW s \in Sessions, CloseTimesOut(s)
      PROVE  TypeOK'
  BY <1>5, BackendBoundsAssumption DEF TypeOK, BackendTypeOK, HostStages, Host,
     HostDone, Fault, CloseTimesOut
<1>6. ASSUME NEW s \in Sessions, Accept(s)
      PROVE  TypeOK'
  BY <1>6 DEF TypeOK, BackendTypeOK, HostStages, Host, Accept, backendVars
<1>7. ASSUME NEW s \in Sessions, First(s)
      PROVE  TypeOK'
  <2>1. at' \in [Sessions -> [Tasks -> Stages]]
    BY <1>7, GoTyped DEF First, Tasks, Stages, TypeOK, BackendTypeOK
  <2> QED BY <1>7, <2>1 DEF TypeOK, BackendTypeOK, First, HostStages, Host,
     HostDone
<1>8. ASSUME NEW s \in Sessions, Created(s)
      PROVE  TypeOK'
  BY <1>8 DEF TypeOK, BackendTypeOK, HostStages, Host, Created, backendVars
<1>9. ASSUME NEW s \in Sessions, HearClosed(s)
      PROVE  TypeOK'
  BY <1>9 DEF TypeOK, BackendTypeOK, HostStages, Host, HostDone, HearClosed,
     backendVars
<1>10. ASSUME NEW s \in Sessions, CloseReplied(s)
      PROVE  TypeOK'
  <2>1. at' \in [Sessions -> [Tasks -> Stages]]
    BY <1>10, GoTyped DEF CloseReplied, Tasks, Stages, TypeOK, BackendTypeOK
  <2> QED BY <1>10, <2>1 DEF TypeOK, BackendTypeOK, CloseReplied, HostStages,
     Host, HostDone
<1>11. ASSUME NEW s \in Sessions, Register(s),
             UNCHANGED <<status, host, client>>
      PROVE  TypeOK'
  <2>1. at' \in [Sessions -> [Tasks -> Stages]]
    BY <1>11, GoTyped, BeginFatalTyped, BeginCloseTyped DEF Register, Tasks,
       Stages
  <2>2. closed' \subseteq Sessions /\ told' \subseteq Sessions
        /\ ws' \in [Sessions -> {"none", "open", "shut"}]
    BY <1>11, BeginFatalTyped, BeginCloseTyped DEF Register, Tasks, TypeOK,
       BackendTypeOK
  <2> QED BY <1>11, <2>1, <2>2 DEF TypeOK, BackendTypeOK, Register
<1>12. ASSUME NEW s \in Sessions, Prepared(s),
             UNCHANGED <<status, host, client>>
      PROVE  TypeOK'
  <2>1. at' \in [Sessions -> [Tasks -> Stages]]
    BY <1>12, GoTyped, BeginFatalTyped, BeginCloseTyped DEF Prepared, Tasks,
       Stages
  <2>2. closed' \subseteq Sessions /\ told' \subseteq Sessions
        /\ ws' \in [Sessions -> {"none", "open", "shut"}]
    BY <1>12, BeginFatalTyped, BeginCloseTyped DEF Prepared, Tasks, TypeOK,
       BackendTypeOK
  <2>3. faults' \in 0..MaxFaults
    BY <1>12, BackendBoundsAssumption DEF Prepared, Fault, TypeOK,
       BackendTypeOK
  <2> QED BY <1>12, <2>1, <2>2, <2>3 DEF TypeOK, BackendTypeOK, Prepared
<1>13. ASSUME NEW s \in Sessions, Proceed(s),
             UNCHANGED <<status, host, client>>
      PROVE  TypeOK'
  <2>1. at' \in [Sessions -> [Tasks -> Stages]]
    BY <1>13, GoTyped, BeginFatalTyped, BeginCloseTyped DEF Proceed, Tasks,
       Stages
  <2>2. closed' \subseteq Sessions /\ told' \subseteq Sessions
        /\ ws' \in [Sessions -> {"none", "open", "shut"}]
    BY <1>13, BeginFatalTyped, BeginCloseTyped DEF Proceed, Tasks, TypeOK,
       BackendTypeOK
  <2> QED BY <1>13, <2>1, <2>2 DEF TypeOK, BackendTypeOK, Proceed
<1>14. ASSUME NEW s \in Sessions, Stepped(s),
             UNCHANGED <<status, host, client>>
      PROVE  TypeOK'
  <2>1. at' \in [Sessions -> [Tasks -> Stages]]
    BY <1>14, GoTyped DEF Stepped, Tasks, Stages, TypeOK, BackendTypeOK
  <2> QED BY <1>14, <2>1 DEF TypeOK, BackendTypeOK, Stepped
<1>15. ASSUME NEW s \in Sessions, StepFails(s),
             UNCHANGED <<status, host, client>>
      PROVE  TypeOK'
  <2>1. at' \in [Sessions -> [Tasks -> Stages]]
    BY <1>15, GoTyped, BeginFatalTyped, BeginCloseTyped DEF StepFails, Tasks,
       Stages
  <2>2. closed' \subseteq Sessions /\ told' \subseteq Sessions
        /\ ws' \in [Sessions -> {"none", "open", "shut"}]
    BY <1>15, BeginFatalTyped, BeginCloseTyped DEF StepFails, Tasks, TypeOK,
       BackendTypeOK
  <2>3. faults' \in 0..MaxFaults
    BY <1>15, BackendBoundsAssumption DEF StepFails, Fault, TypeOK,
       BackendTypeOK
  <2> QED BY <1>15, <2>1, <2>2, <2>3 DEF TypeOK, BackendTypeOK, StepFails
<1>16. ASSUME NEW s \in Sessions, Disconnected(s),
             UNCHANGED <<status, host, client>>
      PROVE  TypeOK'
  <2>1. at' \in [Sessions -> [Tasks -> Stages]]
    BY <1>16, GoTyped, BeginFatalTyped, BeginCloseTyped DEF Disconnected,
       Tasks, Stages
  <2>2. closed' \subseteq Sessions /\ told' \subseteq Sessions
        /\ ws' \in [Sessions -> {"none", "open", "shut"}]
    BY <1>16, BeginFatalTyped, BeginCloseTyped DEF Disconnected, Tasks, TypeOK,
       BackendTypeOK
  <2> QED BY <1>16, <2>1, <2>2 DEF TypeOK, BackendTypeOK, Disconnected
<1>17. ASSUME NEW s \in Sessions, CloseRoute(s),
             UNCHANGED <<status, host, client>>
      PROVE  TypeOK'
  <2>1. at' \in [Sessions -> [Tasks -> Stages]]
    BY <1>17, GoTyped, BeginFatalTyped, BeginCloseTyped DEF CloseRoute, Tasks,
       Stages
  <2>2. closed' \subseteq Sessions /\ told' \subseteq Sessions
        /\ ws' \in [Sessions -> {"none", "open", "shut"}]
    BY <1>17, BeginFatalTyped, BeginCloseTyped DEF CloseRoute, Tasks, TypeOK,
       BackendTypeOK
  <2> QED BY <1>17, <2>1, <2>2 DEF TypeOK, BackendTypeOK, CloseRoute
<1>18. ASSUME NEW s \in Sessions, FinalizeEnds(s),
             UNCHANGED <<status, host, client>>
      PROVE  TypeOK'
  <2>1. at' \in [Sessions -> [Tasks -> Stages]]
    BY <1>18, WokenTyped DEF FinalizeEnds, TypeOK, BackendTypeOK
  <2>2. faults' \in 0..MaxFaults
    BY <1>18, BackendBoundsAssumption DEF FinalizeEnds, Fault, TypeOK,
       BackendTypeOK
  <2>3. lost' \subseteq Sessions
    BY <1>18, LostTyped DEF FinalizeEnds
  <2> QED BY <1>18, <2>1, <2>2, <2>3 DEF TypeOK, BackendTypeOK, FinalizeEnds
<1>19. ASSUME NEW s \in Sessions, OrphanEnds(s),
             UNCHANGED <<status, host, client>>
      PROVE  TypeOK'
  BY <1>19 DEF TypeOK, BackendTypeOK, OrphanEnds
<1>20. ASSUME NEW s \in Sessions, NEW a \in Tasks, Stopped(s, a),
             UNCHANGED <<status, host, client>>
      PROVE  TypeOK'
  <2>1. at' \in [Sessions -> [Tasks -> Stages]]
    BY <1>20, GoTyped DEF Stopped, Stages
  <2> QED BY <1>20, <2>1 DEF TypeOK, BackendTypeOK, Stopped
<1>21. ASSUME NEW s \in Sessions, NEW a \in Tasks, Drain(s, a),
             UNCHANGED <<status, host, client>>
      PROVE  TypeOK'
  <2>1. at' \in [Sessions -> [Tasks -> Stages]]
    BY <1>21, GoTyped, DrainedTyped DEF Drain
  <2>2. lost' \subseteq Sessions
    BY <1>21, LostTyped DEF Drain
  <2> QED BY <1>21, <2>1, <2>2 DEF TypeOK, BackendTypeOK, Drain
<1>22. ASSUME NEW s \in Sessions, NEW a \in Tasks, Cleaned(s, a),
             UNCHANGED <<status, host, client>>
      PROVE  TypeOK'
  <2>1. at' \in [Sessions -> [Tasks -> Stages]]
    BY <1>22, GoTyped DEF Cleaned, Stages
  <2>2. faults' \in 0..MaxFaults
    BY <1>22, BackendBoundsAssumption DEF Cleaned, Fault, TypeOK, BackendTypeOK
  <2>3. lost' \subseteq Sessions
    BY <1>22, LostTyped DEF Cleaned
  <2> QED BY <1>22, <2>1, <2>2, <2>3 DEF TypeOK, BackendTypeOK, Cleaned
<1>23. ASSUME NEW s \in Sessions, NEW a \in Tasks, Announce(s, a),
             UNCHANGED <<status, host, client>>
      PROVE  TypeOK'
  <2>1. at' \in [Sessions -> [Tasks -> Stages]]
    BY <1>23, GoTyped DEF Announce, Stages
  <2> QED BY <1>23, <2>1 DEF TypeOK, BackendTypeOK, Announce
<1>24. ASSUME NEW s \in Sessions, NEW a \in Tasks, Forget(s, a),
             UNCHANGED <<status, host, client>>
      PROVE  TypeOK'
  <2>1. at' \in [Sessions -> [Tasks -> Stages]]
    BY <1>24, GoTyped DEF Forget, Stages
  <2> QED BY <1>24, <2>1 DEF TypeOK, BackendTypeOK, Forget
<1>25. ASSUME NEW s \in Sessions, NEW a \in Tasks, DrainTimesOut(s, a),
             UNCHANGED <<status, host, client>>
      PROVE  TypeOK'
  <2>1. \A b \in Tasks :
          (IF b = a THEN DrainRaised(at[s][a])
           ELSE IF at[s][b] \in Draining THEN "raised" ELSE at[s][b]) \in Stages
    BY <1>25, DrainedTyped DEF DrainTimesOut, Stages, TypeOK, BackendTypeOK
  <2>2. at' \in [Sessions -> [Tasks -> Stages]]
    BY <1>25, <2>1 DEF DrainTimesOut, TypeOK, BackendTypeOK
  <2>3. faults' \in 0..MaxFaults
    BY <1>25, BackendBoundsAssumption DEF DrainTimesOut, Fault, TypeOK,
       BackendTypeOK
  <2>4. lost' \subseteq Sessions
    BY <1>25, LostTyped DEF DrainTimesOut
  <2> QED BY <1>25, <2>1, <2>2, <2>3, <2>4 DEF TypeOK, BackendTypeOK,
     DrainTimesOut
<1>26. CASE UNCHANGED vars
  BY <1>26 DEF vars, TypeOK, BackendTypeOK
<1> QED
  BY <1>1, <1>2, <1>3, <1>4, <1>5, <1>6, <1>7, <1>8, <1>9, <1>10, <1>11, <1>12,
     <1>13, <1>14, <1>15, <1>16, <1>17, <1>18, <1>19, <1>20, <1>21, <1>22,
     <1>23, <1>24, <1>25, <1>26 DEF Next, HostStep, Server, ServerStep, GiveUp

-----------------------------------------------------------------------------
(* The registry: only registration and forget touch it.                    *)

LEMMA RegistryKept ==
  ASSUME TypeOK, RegistryAgrees, [Next]_vars
  PROVE  RegistryAgrees'
<1>1. ASSUME NEW s \in Sessions, Arrive(s)
      PROVE  RegistryAgrees'
  BY <1>1 DEF RegistryAgrees, Arrive, backendVars
<1>2. ASSUME NEW s \in Sessions, Leave(s)
      PROVE  RegistryAgrees'
  BY <1>2 DEF RegistryAgrees, Leave, backendVars
<1>3. ASSUME NEW s \in Sessions, Input(s)
      PROVE  RegistryAgrees'
  BY <1>3 DEF RegistryAgrees, Input, Push
<1>4. ASSUME NEW s \in Sessions, AskClose(s)
      PROVE  RegistryAgrees'
  BY <1>4 DEF RegistryAgrees, AskClose
<1>5. ASSUME NEW s \in Sessions, CloseTimesOut(s)
      PROVE  RegistryAgrees'
  BY <1>5 DEF RegistryAgrees, CloseTimesOut
<1>6. ASSUME NEW s \in Sessions, Accept(s)
      PROVE  RegistryAgrees'
  BY <1>6 DEF RegistryAgrees, Accept, backendVars
<1>7. ASSUME NEW s \in Sessions, First(s)
      PROVE  RegistryAgrees'
  BY <1>7 DEF RegistryAgrees, First
<1>8. ASSUME NEW s \in Sessions, Created(s)
      PROVE  RegistryAgrees'
  BY <1>8 DEF RegistryAgrees, Created, backendVars
<1>9. ASSUME NEW s \in Sessions, HearClosed(s)
      PROVE  RegistryAgrees'
  BY <1>9 DEF RegistryAgrees, HearClosed, backendVars
<1>10. ASSUME NEW s \in Sessions, CloseReplied(s)
      PROVE  RegistryAgrees'
  BY <1>10 DEF RegistryAgrees, CloseReplied
<1>11. ASSUME NEW s \in Sessions, Register(s),
             UNCHANGED <<status, host, client>>
      PROVE  RegistryAgrees'
  BY <1>11, SessionsAssumption DEF RegistryAgrees, Register, TypeOK,
     BackendTypeOK
<1>12. ASSUME NEW s \in Sessions, Prepared(s),
             UNCHANGED <<status, host, client>>
      PROVE  RegistryAgrees'
  BY <1>12 DEF RegistryAgrees, Prepared
<1>13. ASSUME NEW s \in Sessions, Proceed(s),
             UNCHANGED <<status, host, client>>
      PROVE  RegistryAgrees'
  BY <1>13 DEF RegistryAgrees, Proceed
<1>14. ASSUME NEW s \in Sessions, Stepped(s),
             UNCHANGED <<status, host, client>>
      PROVE  RegistryAgrees'
  BY <1>14 DEF RegistryAgrees, Stepped
<1>15. ASSUME NEW s \in Sessions, StepFails(s),
             UNCHANGED <<status, host, client>>
      PROVE  RegistryAgrees'
  BY <1>15 DEF RegistryAgrees, StepFails
<1>16. ASSUME NEW s \in Sessions, Disconnected(s),
             UNCHANGED <<status, host, client>>
      PROVE  RegistryAgrees'
  BY <1>16 DEF RegistryAgrees, Disconnected
<1>17. ASSUME NEW s \in Sessions, CloseRoute(s),
             UNCHANGED <<status, host, client>>
      PROVE  RegistryAgrees'
  BY <1>17 DEF RegistryAgrees, CloseRoute
<1>18. ASSUME NEW s \in Sessions, FinalizeEnds(s),
             UNCHANGED <<status, host, client>>
      PROVE  RegistryAgrees'
  BY <1>18 DEF RegistryAgrees, FinalizeEnds
<1>19. ASSUME NEW s \in Sessions, OrphanEnds(s),
             UNCHANGED <<status, host, client>>
      PROVE  RegistryAgrees'
  BY <1>19 DEF RegistryAgrees, OrphanEnds
<1>20. ASSUME NEW s \in Sessions, NEW a \in Tasks, Stopped(s, a),
             UNCHANGED <<status, host, client>>
      PROVE  RegistryAgrees'
  BY <1>20 DEF RegistryAgrees, Stopped
<1>21. ASSUME NEW s \in Sessions, NEW a \in Tasks, Drain(s, a),
             UNCHANGED <<status, host, client>>
      PROVE  RegistryAgrees'
  BY <1>21 DEF RegistryAgrees, Drain
<1>22. ASSUME NEW s \in Sessions, NEW a \in Tasks, Cleaned(s, a),
             UNCHANGED <<status, host, client>>
      PROVE  RegistryAgrees'
  BY <1>22 DEF RegistryAgrees, Cleaned
<1>23. ASSUME NEW s \in Sessions, NEW a \in Tasks, Announce(s, a),
             UNCHANGED <<status, host, client>>
      PROVE  RegistryAgrees'
  BY <1>23 DEF RegistryAgrees, Announce
<1>24. ASSUME NEW s \in Sessions, NEW a \in Tasks, Forget(s, a),
             UNCHANGED <<status, host, client>>
      PROVE  RegistryAgrees'
  BY <1>24, SessionsAssumption DEF RegistryAgrees, Forget, TypeOK,
     BackendTypeOK
<1>25. ASSUME NEW s \in Sessions, NEW a \in Tasks, DrainTimesOut(s, a),
             UNCHANGED <<status, host, client>>
      PROVE  RegistryAgrees'
  BY <1>25 DEF RegistryAgrees, DrainTimesOut
<1>26. CASE UNCHANGED vars
  BY <1>26 DEF vars, RegistryAgrees
<1> QED
  BY <1>1, <1>2, <1>3, <1>4, <1>5, <1>6, <1>7, <1>8, <1>9, <1>10, <1>11, <1>12,
     <1>13, <1>14, <1>15, <1>16, <1>17, <1>18, <1>19, <1>20, <1>21, <1>22,
     <1>23, <1>24, <1>25, <1>26 DEF Next, HostStep, Server, ServerStep, GiveUp

-----------------------------------------------------------------------------
(* One session.                                                            *)

(* Nothing of session t changes.                                           *)
Same(t) ==
  /\ at'[t] = at[t] /\ fin'[t] = fin[t] /\ ws'[t] = ws[t]
  /\ host'[t] = host[t] /\ client'[t] = client[t]
  /\ (t \in closed') <=> (t \in closed)
  /\ (t \in sessions') <=> (t \in sessions)
  /\ (t \in told') <=> (t \in told)
  /\ (t \in orphans') <=> (t \in orphans)
  /\ (t \in admitted') <=> (t \in admitted)
  /\ (t \in overtaken') <=> (t \in overtaken)
  /\ (t \in lost') <=> (t \in lost)

LEMMA SameKeeps ==
  ASSUME NEW t \in Sessions, Local(t), Same(t)
  PROVE  Local(t)'
BY DEF Same, Local, Unopened, Asked, TearingDown, Leaving, Gone, Finalising,
   Finished

LEMMA NotedRaised ==
  ASSUME NEW s \in Sessions, NoteRaised(s)
  PROVE  /\ \A a \in Tasks : at'[s][a] = "raised" => s \in lost'
         /\ s \in lost => s \in lost'
BY DEF NoteRaised

LEMMA LocalKept ==
  ASSUME IInv, [Next]_vars
  PROVE  \A t \in Sessions : Local(t)'
<1> USE DEF IInv
<1>1. ASSUME NEW s \in Sessions, Arrive(s),
             NEW t \in Sessions
      PROVE  Local(t)'
  <2>1. t # s => Same(t)
    BY <1>1 DEF Same, TypeOK, BackendTypeOK, Arrive, Host, backendVars
  <2>2. t = s => Local(t)'
    BY <1>1 DEF Arrive, Host, backendVars, Local, RegistryAgrees, Unopened,
       Asked, TearingDown, Leaving, Gone, Finalising, Finished, Begun,
       TearDown, Ended, Tasks, TypeOK, BackendTypeOK
  <2> QED BY <2>1, <2>2, SameKeeps
<1>2. ASSUME NEW s \in Sessions, Leave(s),
             NEW t \in Sessions
      PROVE  Local(t)'
  <2>1. t # s => Same(t)
    BY <1>2 DEF Same, TypeOK, BackendTypeOK, Leave, backendVars
  <2>2. t = s => Local(t)'
    BY <1>2 DEF Leave, backendVars, Local, RegistryAgrees, Unopened, Asked,
       TearingDown, Leaving, Gone, Finalising, Finished, Begun, TearDown,
       Ended, Tasks, TypeOK, BackendTypeOK
  <2> QED BY <2>1, <2>2, SameKeeps
<1>3. ASSUME NEW s \in Sessions, Input(s),
             NEW t \in Sessions
      PROVE  Local(t)'
  <2>1. t # s => Same(t)
    BY <1>3 DEF Same, TypeOK, BackendTypeOK, Input, Push, BeginFatal, Go
  <2>2. t = s => Local(t)'
    BY <1>3 DEF Input, Push, BeginFatal, Go, Local, RegistryAgrees, Unopened,
       Asked, TearingDown, Leaving, Gone, Finalising, Finished, Begun,
       TearDown, Ended, Tasks, TypeOK, BackendTypeOK
  <2> QED BY <2>1, <2>2, SameKeeps
<1>4. ASSUME NEW s \in Sessions, AskClose(s),
             NEW t \in Sessions
      PROVE  Local(t)'
  <2>1. t # s => Same(t)
    BY <1>4 DEF Same, TypeOK, BackendTypeOK, AskClose, Host, Go
  <2>2. t = s => Local(t)'
    <3> SUFFICES ASSUME t = s PROVE Local(t)'
      OBVIOUS
    <3> USE <1>4 DEF AskClose, Host, Go, Local, TypeOK, BackendTypeOK, Tasks
    <3>1. Unopened(t)'
      BY DEF Unopened
    <3>2. Asked(t)'
      BY DEF Unopened, Asked
    <3>3. TearingDown(t)'
      BY DEF Unopened, TearingDown, Begun, TearDown, Ended
    <3>4. Leaving(t)'
      BY DEF Unopened, Asked, TearingDown, Leaving, Begun, TearDown, Ended
    <3>5. Gone(t)'
      BY DEF Unopened, TearingDown, Gone, Begun, TearDown, Ended
    <3>6. Finalising(t)'
      BY DEF Finalising
    <3>7. Finished(t)'
      BY DEF Unopened, Asked, Finished, RegistryAgrees
    <3> QED
      BY <3>1, <3>2, <3>3, <3>4, <3>5, <3>6, <3>7
  <2> QED BY <2>1, <2>2, SameKeeps
<1>5. ASSUME NEW s \in Sessions, CloseTimesOut(s),
             NEW t \in Sessions
      PROVE  Local(t)'
  <2>1. t # s => Same(t)
    BY <1>5 DEF Same, TypeOK, BackendTypeOK, CloseTimesOut, Host, HostDone
  <2>2. t = s => Local(t)'
    BY <1>5 DEF CloseTimesOut, Host, HostDone, Local, RegistryAgrees, Unopened,
       Asked, TearingDown, Leaving, Gone, Finalising, Finished, Begun,
       TearDown, Ended, Tasks, TypeOK, BackendTypeOK
  <2> QED BY <2>1, <2>2, SameKeeps
<1>6. ASSUME NEW s \in Sessions, Accept(s),
             NEW t \in Sessions
      PROVE  Local(t)'
  <2>1. t # s => Same(t)
    BY <1>6 DEF Same, TypeOK, BackendTypeOK, Accept, Host, backendVars
  <2>2. t = s => Local(t)'
    BY <1>6 DEF Accept, Host, backendVars, Local, RegistryAgrees, Unopened,
       Asked, TearingDown, Leaving, Gone, Finalising, Finished, Begun,
       TearDown, Ended, Tasks, TypeOK, BackendTypeOK
  <2> QED BY <2>1, <2>2, SameKeeps
<1>7. ASSUME NEW s \in Sessions, First(s),
             NEW t \in Sessions
      PROVE  Local(t)'
  <2>1. t # s => Same(t)
    BY <1>7 DEF Same, TypeOK, BackendTypeOK, First, Host, HostDone, Go
  <2>2. t = s => Local(t)'
    <3> SUFFICES ASSUME t = s PROVE Local(t)'
      OBVIOUS
    <3> USE <1>7 DEF First, Host, HostDone, Go, Local, TypeOK, BackendTypeOK,
       Tasks
    <3>1. Unopened(t)'
      BY DEF Unopened
    <3>2. Asked(t)'
      BY DEF Unopened, Asked
    <3>3. TearingDown(t)'
      BY DEF Unopened, TearingDown, Begun, TearDown, Ended
    <3>4. Leaving(t)'
      BY DEF Unopened, Asked, TearingDown, Leaving, Begun, TearDown, Ended
    <3>5. Gone(t)'
      BY DEF Unopened, TearingDown, Gone, Begun, TearDown, Ended
    <3>6. Finalising(t)'
      BY DEF Finalising
    <3>7. Finished(t)'
      BY DEF Unopened, Asked, Finished, RegistryAgrees
    <3> QED
      BY <3>1, <3>2, <3>3, <3>4, <3>5, <3>6, <3>7
  <2> QED BY <2>1, <2>2, SameKeeps
<1>8. ASSUME NEW s \in Sessions, Created(s),
             NEW t \in Sessions
      PROVE  Local(t)'
  <2>1. t # s => Same(t)
    BY <1>8 DEF Same, TypeOK, BackendTypeOK, Created, Host, backendVars
  <2>2. t = s => Local(t)'
    BY <1>8 DEF Created, Host, backendVars, Local, RegistryAgrees, Unopened,
       Asked, TearingDown, Leaving, Gone, Finalising, Finished, Begun,
       TearDown, Ended, Tasks, TypeOK, BackendTypeOK
  <2> QED BY <2>1, <2>2, SameKeeps
<1>9. ASSUME NEW s \in Sessions, HearClosed(s),
             NEW t \in Sessions
      PROVE  Local(t)'
  <2>1. t # s => Same(t)
    BY <1>9 DEF Same, TypeOK, BackendTypeOK, HearClosed, Host, HostDone,
       backendVars
  <2>2. t = s => Local(t)'
    BY <1>9 DEF HearClosed, Host, HostDone, backendVars, Local, RegistryAgrees,
       Unopened, Asked, TearingDown, Leaving, Gone, Finalising, Finished,
       Begun, TearDown, Ended, Tasks, TypeOK, BackendTypeOK
  <2> QED BY <2>1, <2>2, SameKeeps
<1>10. ASSUME NEW s \in Sessions, CloseReplied(s),
             NEW t \in Sessions
      PROVE  Local(t)'
  <2>1. t # s => Same(t)
    BY <1>10 DEF Same, TypeOK, BackendTypeOK, CloseReplied, Host, HostDone, Go
  <2>2. t = s => Local(t)'
    <3> SUFFICES ASSUME t = s PROVE Local(t)'
      OBVIOUS
    <3> USE <1>10 DEF CloseReplied, Host, HostDone, Go, Local, TypeOK,
       BackendTypeOK, Tasks
    <3>1. Unopened(t)'
      BY DEF Unopened
    <3>2. Asked(t)'
      BY DEF Unopened, Asked
    <3>3. TearingDown(t)'
      BY DEF Unopened, TearingDown, Begun, TearDown, Ended
    <3>4. Leaving(t)'
      BY DEF Unopened, Asked, TearingDown, Leaving, Begun, TearDown, Ended
    <3>5. Gone(t)'
      BY DEF Unopened, TearingDown, Gone, Begun, TearDown, Ended
    <3>6. Finalising(t)'
      BY DEF Finalising
    <3>7. Finished(t)'
      BY DEF Unopened, Asked, Finished, RegistryAgrees
    <3> QED
      BY <3>1, <3>2, <3>3, <3>4, <3>5, <3>6, <3>7
  <2> QED BY <2>1, <2>2, SameKeeps
<1>11. ASSUME NEW s \in Sessions, Register(s),
             UNCHANGED <<status, host, client>>,
             NEW t \in Sessions
      PROVE  Local(t)'
  <2>1. t # s => Same(t)
    BY <1>11 DEF Same, TypeOK, BackendTypeOK, Register, BeginFatal, Go
  <2>2. t = s => Local(t)'
    <3> SUFFICES ASSUME t = s PROVE Local(t)'
      OBVIOUS
    <3> USE <1>11 DEF Register, BeginFatal, Go, Local, TypeOK, BackendTypeOK,
       Tasks
    <3>1. Unopened(t)'
      BY DEF Unopened
    <3>2. Asked(t)'
      BY DEF Unopened, Asked
    <3>3. TearingDown(t)'
      BY DEF Unopened, TearingDown, Begun, TearDown, Ended
    <3>4. Leaving(t)'
      BY DEF Unopened, Asked, TearingDown, Leaving, Begun, TearDown, Ended
    <3>5. Gone(t)'
      BY DEF Unopened, TearingDown, Gone, Begun, TearDown, Ended
    <3>6. Finalising(t)'
      BY DEF Finalising
    <3>7. Finished(t)'
      BY DEF Unopened, Asked, Finished, RegistryAgrees
    <3> QED
      BY <3>1, <3>2, <3>3, <3>4, <3>5, <3>6, <3>7
  <2> QED BY <2>1, <2>2, SameKeeps
<1>12. ASSUME NEW s \in Sessions, Prepared(s),
             UNCHANGED <<status, host, client>>,
             NEW t \in Sessions
      PROVE  Local(t)'
  <2>1. t # s => Same(t)
    BY <1>12 DEF Same, TypeOK, BackendTypeOK, Prepared, BeginFatal, Go
  <2>2. t = s => Local(t)'
    BY <1>12 DEF Prepared, BeginFatal, Go, Local, RegistryAgrees, Unopened,
       Asked, TearingDown, Leaving, Gone, Finalising, Finished, Begun,
       TearDown, Ended, Tasks, TypeOK, BackendTypeOK
  <2> QED BY <2>1, <2>2, SameKeeps
<1>13. ASSUME NEW s \in Sessions, Proceed(s),
             UNCHANGED <<status, host, client>>,
             NEW t \in Sessions
      PROVE  Local(t)'
  <2>1. t # s => Same(t)
    BY <1>13 DEF Same, TypeOK, BackendTypeOK, Proceed, BeginFatal, Go
  <2>2. t = s => Local(t)'
    BY <1>13 DEF Proceed, BeginFatal, Go, Local, RegistryAgrees, Unopened,
       Asked, TearingDown, Leaving, Gone, Finalising, Finished, Begun,
       TearDown, Ended, Tasks, TypeOK, BackendTypeOK
  <2> QED BY <2>1, <2>2, SameKeeps
<1>14. ASSUME NEW s \in Sessions, Stepped(s),
             UNCHANGED <<status, host, client>>,
             NEW t \in Sessions
      PROVE  Local(t)'
  <2>1. t # s => Same(t)
    BY <1>14 DEF Same, TypeOK, BackendTypeOK, Stepped, Go
  <2>2. t = s => Local(t)'
    BY <1>14 DEF Stepped, Go, Local, RegistryAgrees, Unopened, Asked,
       TearingDown, Leaving, Gone, Finalising, Finished, Begun, TearDown,
       Ended, Tasks, TypeOK, BackendTypeOK
  <2> QED BY <2>1, <2>2, SameKeeps
<1>15. ASSUME NEW s \in Sessions, StepFails(s),
             UNCHANGED <<status, host, client>>,
             NEW t \in Sessions
      PROVE  Local(t)'
  <2>1. t # s => Same(t)
    BY <1>15 DEF Same, TypeOK, BackendTypeOK, StepFails, BeginFatal,
       BeginClose, Go
  <2>2. t = s => Local(t)'
    BY <1>15 DEF StepFails, BeginFatal, BeginClose, Go, Fault, Local,
       RegistryAgrees, Unopened, Asked, TearingDown, Leaving, Gone, Finalising,
       Finished, Begun, TearDown, Ended, Tasks, TypeOK, BackendTypeOK
  <2> QED BY <2>1, <2>2, SameKeeps
<1>16. ASSUME NEW s \in Sessions, Disconnected(s),
             UNCHANGED <<status, host, client>>,
             NEW t \in Sessions
      PROVE  Local(t)'
  <2>1. t # s => Same(t)
    BY <1>16 DEF Same, TypeOK, BackendTypeOK, Disconnected, BeginClose, Go
  <2>2. t = s => Local(t)'
    BY <1>16 DEF Disconnected, BeginClose, Go, Local, RegistryAgrees, Unopened,
       Asked, TearingDown, Leaving, Gone, Finalising, Finished, Begun,
       TearDown, Ended, Tasks, TypeOK, BackendTypeOK
  <2> QED BY <2>1, <2>2, SameKeeps
<1>17. ASSUME NEW s \in Sessions, CloseRoute(s),
             UNCHANGED <<status, host, client>>,
             NEW t \in Sessions
      PROVE  Local(t)'
  <2>1. t # s => Same(t)
    BY <1>17 DEF Same, TypeOK, BackendTypeOK, CloseRoute, BeginClose, Go
  <2>2. t = s => Local(t)'
    BY <1>17 DEF CloseRoute, BeginClose, Go, Local, RegistryAgrees, Unopened,
       Asked, TearingDown, Leaving, Gone, Finalising, Finished, Begun,
       TearDown, Ended, Tasks, TypeOK, BackendTypeOK
  <2> QED BY <2>1, <2>2, SameKeeps
<1>18. ASSUME NEW s \in Sessions, FinalizeEnds(s),
             UNCHANGED <<status, host, client>>,
             NEW t \in Sessions
      PROVE  Local(t)'
  <2>1. t # s => Same(t)
    BY <1>18 DEF Same, TypeOK, BackendTypeOK, FinalizeEnds, NoteRaised
  <2>2. t = s => Local(t)'
    <3> SUFFICES ASSUME t = s PROVE Local(t)'
      OBVIOUS
    <3> USE <1>18 DEF FinalizeEnds, Woken, Draining, Drained, DrainRaised,
       Local, TypeOK, BackendTypeOK, Tasks
    <3>1. Unopened(t)'
      BY DEF Unopened
    <3>2. Asked(t)'
      BY DEF Unopened, Asked
    <3>3. TearingDown(t)'
      BY NotedRaised DEF Unopened, TearingDown, Begun, TearDown, Ended
    <3>4. Leaving(t)'
      BY NotedRaised DEF Unopened, Asked, TearingDown, Leaving, Begun,
         TearDown, Ended
    <3>5. Gone(t)'
      BY DEF Unopened, TearingDown, Gone, Begun, TearDown, Ended
    <3>6. Finalising(t)'
      BY DEF Finalising
    <3>7. Finished(t)'
      BY DEF Unopened, Asked, Finished, RegistryAgrees
    <3> QED
      BY <3>1, <3>2, <3>3, <3>4, <3>5, <3>6, <3>7
  <2> QED BY <2>1, <2>2, SameKeeps
<1>19. ASSUME NEW s \in Sessions, OrphanEnds(s),
             UNCHANGED <<status, host, client>>,
             NEW t \in Sessions
      PROVE  Local(t)'
  <2>1. t # s => Same(t)
    BY <1>19 DEF Same, TypeOK, BackendTypeOK, OrphanEnds
  <2>2. t = s => Local(t)'
    BY <1>19 DEF OrphanEnds, Local, RegistryAgrees, Unopened, Asked,
       TearingDown, Leaving, Gone, Finalising, Finished, Begun, TearDown,
       Ended, Tasks, TypeOK, BackendTypeOK
  <2> QED BY <2>1, <2>2, SameKeeps
<1>20. ASSUME NEW s \in Sessions, NEW a \in Tasks, Stopped(s, a),
             UNCHANGED <<status, host, client>>,
             NEW t \in Sessions
      PROVE  Local(t)'
  <2>1. t # s => Same(t)
    BY <1>20 DEF Same, TypeOK, BackendTypeOK, Stopped, Go
  <2>2. t = s => Local(t)'
    BY <1>20 DEF Stopped, Go, Local, RegistryAgrees, Unopened, Asked,
       TearingDown, Leaving, Gone, Finalising, Finished, Begun, TearDown,
       Ended, Tasks, TypeOK, BackendTypeOK
  <2> QED BY <2>1, <2>2, SameKeeps
<1>21. ASSUME NEW s \in Sessions, NEW a \in Tasks, Drain(s, a),
             UNCHANGED <<status, host, client>>,
             NEW t \in Sessions
      PROVE  Local(t)'
  <2>1. t # s => Same(t)
    BY <1>21 DEF Same, TypeOK, BackendTypeOK, Drain, Go, NoteRaised
  <2>2. t = s => Local(t)'
    <3> SUFFICES ASSUME t = s PROVE Local(t)'
      OBVIOUS
    <3> USE <1>21 DEF Drain, Go, Draining, Drained, DrainRaised, Local, TypeOK,
       BackendTypeOK, Tasks
    <3>1. Unopened(t)'
      BY DEF Unopened
    <3>2. Asked(t)'
      BY DEF Unopened, Asked
    <3>3. TearingDown(t)'
      BY NotedRaised DEF Unopened, TearingDown, Begun, TearDown, Ended
    <3>4. Leaving(t)'
      BY NotedRaised DEF Unopened, Asked, TearingDown, Leaving, Begun,
         TearDown, Ended
    <3>5. Gone(t)'
      BY DEF Unopened, TearingDown, Gone, Begun, TearDown, Ended
    <3>6. Finalising(t)'
      BY DEF Finalising
    <3>7. Finished(t)'
      BY DEF Unopened, Asked, Finished, RegistryAgrees
    <3> QED
      BY <3>1, <3>2, <3>3, <3>4, <3>5, <3>6, <3>7
  <2> QED BY <2>1, <2>2, SameKeeps
<1>22. ASSUME NEW s \in Sessions, NEW a \in Tasks, Cleaned(s, a),
             UNCHANGED <<status, host, client>>,
             NEW t \in Sessions
      PROVE  Local(t)'
  <2>1. t # s => Same(t)
    BY <1>22 DEF Same, TypeOK, BackendTypeOK, Cleaned, Go, NoteRaised
  <2>2. t = s => Local(t)'
    <3> SUFFICES ASSUME t = s PROVE Local(t)'
      OBVIOUS
    <3> USE <1>22 DEF Cleaned, Go, Local, TypeOK, BackendTypeOK, Tasks
    <3>1. Unopened(t)'
      BY DEF Unopened
    <3>2. Asked(t)'
      BY DEF Unopened, Asked
    <3>3. TearingDown(t)'
      BY NotedRaised DEF Unopened, TearingDown, Begun, TearDown, Ended
    <3>4. Leaving(t)'
      BY NotedRaised DEF Unopened, Asked, TearingDown, Leaving, Begun,
         TearDown, Ended
    <3>5. Gone(t)'
      BY DEF Unopened, TearingDown, Gone, Begun, TearDown, Ended
    <3>6. Finalising(t)'
      BY DEF Finalising
    <3>7. Finished(t)'
      BY DEF Unopened, Asked, Finished, RegistryAgrees
    <3> QED
      BY <3>1, <3>2, <3>3, <3>4, <3>5, <3>6, <3>7
  <2> QED BY <2>1, <2>2, SameKeeps
<1>23. ASSUME NEW s \in Sessions, NEW a \in Tasks, Announce(s, a),
             UNCHANGED <<status, host, client>>,
             NEW t \in Sessions
      PROVE  Local(t)'
  <2>1. t # s => Same(t)
    BY <1>23 DEF Same, TypeOK, BackendTypeOK, Announce, Go
  <2>2. t = s => Local(t)'
    BY <1>23 DEF Announce, Go, Local, RegistryAgrees, Unopened, Asked,
       TearingDown, Leaving, Gone, Finalising, Finished, Begun, TearDown,
       Ended, Tasks, TypeOK, BackendTypeOK
  <2> QED BY <2>1, <2>2, SameKeeps
<1>24. ASSUME NEW s \in Sessions, NEW a \in Tasks, Forget(s, a),
             UNCHANGED <<status, host, client>>,
             NEW t \in Sessions
      PROVE  Local(t)'
  <2>1. t # s => Same(t)
    BY <1>24 DEF Same, TypeOK, BackendTypeOK, Forget, Go
  <2>2. t = s => Local(t)'
    BY <1>24 DEF Forget, Go, Local, RegistryAgrees, Unopened, Asked,
       TearingDown, Leaving, Gone, Finalising, Finished, Begun, TearDown,
       Ended, Tasks, TypeOK, BackendTypeOK
  <2> QED BY <2>1, <2>2, SameKeeps
<1>25. ASSUME NEW s \in Sessions, NEW a \in Tasks, DrainTimesOut(s, a),
             UNCHANGED <<status, host, client>>,
             NEW t \in Sessions
      PROVE  Local(t)'
  <2>1. t # s => Same(t)
    BY <1>25 DEF Same, TypeOK, BackendTypeOK, DrainTimesOut, NoteRaised
  <2>2. t = s => Local(t)'
    <3> SUFFICES ASSUME t = s PROVE Local(t)'
      OBVIOUS
    <3> USE <1>25 DEF DrainTimesOut, Draining, DrainRaised, Local, TypeOK,
       BackendTypeOK, Tasks
    <3>1. Unopened(t)'
      BY DEF Unopened
    <3>2. Asked(t)'
      BY DEF Unopened, Asked
    <3>3. TearingDown(t)'
      BY NotedRaised DEF Unopened, TearingDown, Begun, TearDown, Ended
    <3>4. Leaving(t)'
      BY NotedRaised DEF Unopened, Asked, TearingDown, Leaving, Begun,
         TearDown, Ended
    <3>5. Gone(t)'
      BY DEF Unopened, TearingDown, Gone, Begun, TearDown, Ended
    <3>6. Finalising(t)'
      BY DEF Finalising
    <3>7. Finished(t)'
      BY DEF Unopened, Asked, Finished, RegistryAgrees
    <3> QED
      BY <3>1, <3>2, <3>3, <3>4, <3>5, <3>6, <3>7
  <2> QED BY <2>1, <2>2, SameKeeps
<1>26. CASE UNCHANGED vars
  BY <1>26, SameKeeps DEF vars, Same
<1> QED
  BY <1>1, <1>2, <1>3, <1>4, <1>5, <1>6, <1>7, <1>8, <1>9, <1>10, <1>11, <1>12,
     <1>13, <1>14, <1>15, <1>16, <1>17, <1>18, <1>19, <1>20, <1>21, <1>22,
     <1>23, <1>24, <1>25, <1>26 DEF Next, HostStep, Server, ServerStep, GiveUp

-----------------------------------------------------------------------------
(* The theorems.                                                           *)

LEMMA Initially == Init => IInv
<1> SUFFICES ASSUME Init PROVE IInv
  OBVIOUS
<1>1. TypeOK
  BY BackendBoundsAssumption DEF Init, BackendInit, TypeOK, BackendTypeOK,
     Stages, HostStages
<1>2. RegistryAgrees
  BY SessionsAssumption DEF Init, BackendInit, RegistryAgrees
<1>3. ASSUME NEW t \in Sessions PROVE Local(t)
  BY DEF Init, BackendInit, Local, Unopened, Asked, TearingDown, Leaving, Gone,
     Finalising, Finished, Begun, TearDown, Ended, Tasks
<1> QED BY <1>1, <1>2, <1>3 DEF IInv

LEMMA Inductive == Spec => []IInv
<1>1. IInv /\ [Next]_vars => IInv'
  BY TypesKept, RegistryKept, LocalKept DEF IInv
<1> QED BY <1>1, Initially, PTL DEF Spec

(* The variables keep their types. *)
THEOREM Types == Spec => []TypeOK
<1>1. IInv => TypeOK
  BY DEF IInv
<1> QED BY <1>1, Inductive, PTL

(* BackendServerState.sessions and active_session_id always agree: what is *)
(* registered is the active session, and a refused session evicts nobody.  *)
THEOREM Registry == Spec => []RegistryAgrees
<1>1. IInv => RegistryAgrees
  BY DEF IInv
<1> QED BY <1>1, Inductive, PTL

(* _wait_finalize: a step of the model does not begin before the task that *)
(* finalises the former one is over.                                       *)
THEOREM StepsWait == Spec => []StepAfterFinalize
<1>1. IInv => StepAfterFinalize
  BY DEF IInv, Local, Finalising, StepAfterFinalize
<1> QED BY <1>1, Inductive, PTL

(* Who is in the model beside the active session was either refused (and   *)
(* its fatal() tears down a model that is not its own) or forgotten in the *)
(* middle of a call.                                                       *)
THEOREM Trespassers == Spec => []TrespassersAreKnown
<1>1. IInv => TrespassersAreKnown
  BY DEF IInv, RegistryAgrees, Local, Gone, InModel, Ended, Tasks,
     TrespassersAreKnown
<1> QED BY <1>1, Inductive, PTL

(* The slot of a session that its worker has finished with is on its way   *)
(* back, or was lost in a tear-down that raised.                           *)
THEOREM SlotOnItsWay == Spec => []SlotIsOnItsWay
<1>1. IInv => SlotIsOnItsWay
  BY DEF IInv, RegistryAgrees, Local, Finished, Leaving, Begun, TearDown,
     Tasks, SlotIsOnItsWay
<1> QED BY <1>1, Inductive, PTL
=============================================================================
