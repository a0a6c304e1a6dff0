------------------------ MODULE SharedSessionProofs ------------------------
(***************************************************************************)
(* Proofs about SharedSession for every finite set of sessions and callers *)
(* and every set of processes.                                             *)
(***************************************************************************)
EXTENDS SharedSession, FiniteSetTheorems, TLAPS

---------------------------------------------------------------------------
(* Type correctness.                                                       *)

(* Records: the values the actions build, and their updates, are typed.    *)
LEMMA RecordValues ==
  /\ Untracked \in Session
  /\ NoStartup \in Startup
  /\ IdleCaller \in Caller
  BY DEF Untracked, Session, NoStartup, Startup, IdleCaller, Caller

LEMMA NewCallers ==
  ASSUME NEW s \in Sessions
  PROVE  /\ [op |-> "admit", pc |-> "lookup", s |-> s, holds |-> TRUE,
             res |-> "none"] \in Caller
         /\ [op |-> "request", pc |-> "gate", s |-> s, holds |-> TRUE,
             res |-> "none"] \in Caller
  BY DEF Caller

LEMMA SessionFields ==
  ASSUME NEW r \in Session
  PROVE  /\ r.pending \in Int /\ r.inFlight \in Int
         /\ r.tracked \in BOOLEAN /\ r.admitted \in BOOLEAN
         /\ r.expiring \in BOOLEAN
  BY DEF Session

LEMMA SessionUpdates ==
  ASSUME NEW r \in Session, NEW n \in Int, NEW b \in BOOLEAN
  PROVE  /\ [r EXCEPT !.tracked = b, !.pending = n] \in Session
         /\ [r EXCEPT !.pending = n, !.admitted = b] \in Session
         /\ [r EXCEPT !.inFlight = n] \in Session
         /\ [r EXCEPT !.expiring = b] \in Session
  <1>1. [r EXCEPT !.tracked = b, !.pending = n] \in Session
    BY DEF Session
  <1>2. [r EXCEPT !.pending = n, !.admitted = b] \in Session
    BY DEF Session
  <1>3. [r EXCEPT !.inFlight = n] \in Session
    BY DEF Session
  <1>4. [r EXCEPT !.expiring = b] \in Session
    BY DEF Session
  <1>5. QED
    BY <1>1, <1>2, <1>3, <1>4

(* A table updated at one id, by a record of the right type.               *)
LEMMA TableUpdate ==
  ASSUME NEW f \in [Sessions -> Session], NEW s, NEW r,
         s \in Sessions => r \in Session
  PROVE  [f EXCEPT ![s] = r] \in [Sessions -> Session]
  OBVIOUS

LEMMA CallerUpdates ==
  ASSUME NEW r \in Caller, NEW res \in {"none", "ok", "err"},
         NEW pc \in {"lookup", "wait", "returned", "gate", "dispatched"}
  PROVE  /\ r.res \in {"none", "ok", "err"}
         /\ [r EXCEPT !.holds = FALSE] \in Caller
         /\ [r EXCEPT !.res = res] \in Caller
         /\ [r EXCEPT !.pc = pc, !.res = res] \in Caller
  <1>1. r.res \in {"none", "ok", "err"}
    BY DEF Caller
  <1>2. [r EXCEPT !.holds = FALSE] \in Caller
    BY DEF Caller
  <1>3. [r EXCEPT !.res = res] \in Caller
    BY DEF Caller
  <1>4. [r EXCEPT !.pc = pc, !.res = res] \in Caller
    BY DEF Caller
  <1>5. QED
    BY <1>1, <1>2, <1>3, <1>4

LEMMA CallersUpdate ==
  ASSUME NEW f \in [Callers -> Caller], NEW c \in Callers, NEW r \in Caller
  PROVE  [f EXCEPT ![c] = r] \in [Callers -> Caller]
  OBVIOUS

LEMMA InitTypeOK == Init => TypeOK
  <1> SUFFICES ASSUME Init PROVE TypeOK
    OBVIOUS
  <1>1. sess \in [Sessions -> Session] /\ caller \in [Callers -> Caller]
        /\ startup \in Startup
    BY RecordValues DEF Init
  <1>2. failures \in 0 .. HealthThreshold - 1 /\ callbacks \in 0 .. MaxCallbacks
    BY ConstantsAssumption DEF Init
  <1>3. health \in [phase: {"idle", "probing", "waiting"}, ds: Procs \cup {None}]
    BY DEF Init
  <1>4. /\ spawnErr \in BOOLEAN /\ requestsDrained \in BOOLEAN
        /\ idleTimer \in {"nil", "armed", "fired"}
        /\ closer \in {"open", "cancelling", "killing", "waiting", "done"}
    BY DEF Init
  <1>5. /\ downstream \in Procs \cup {None} /\ closeDs \in Procs \cup {None}
        /\ live \subseteq Procs /\ refCount \in Int /\ activeRequests \in Int
    BY DEF Init
  <1>6. QED
    BY <1>1, <1>2, <1>3, <1>4, <1>5 DEF TypeOK

(* Removing the in-flight mark of a request, and forgetting the holders of *)
(* a record, keep the session table and the callers well typed.            *)
LEMMA HelperTypes ==
  ASSUME TypeOK, NEW c \in Callers, NEW S
  PROVE  /\ DropInFlight(c) \in [Sessions -> Session]
         /\ Forget(S) \in [Callers -> Caller]
  <1>1. Forget(S) \in [Callers -> Caller]
    <2>1. \A r \in Caller : [r EXCEPT !.holds = FALSE] \in Caller
      BY CallerUpdates
    <2>2. QED
      BY <2>1 DEF TypeOK, Forget
  <1>2. DropInFlight(c) \in [Sessions -> Session]
    <2> DEFINE s == caller[c].s
    <2>1. s \in Sessions => sess[s].inFlight - 1 \in Int
      BY SessionFields DEF TypeOK
    <2>2. s \in Sessions
            => [sess[s] EXCEPT !.inFlight = sess[s].inFlight - 1] \in Session
      BY <2>1, SessionUpdates DEF TypeOK
    <2>3. QED
      BY <2>2, TableUpdate DEF TypeOK, DropInFlight
  <1>3. QED
    BY <1>1, <1>2

(* A caller that moves on keeps its type.                                  *)
LEMMA CallerSteps ==
  ASSUME TypeOK, NEW c \in Callers,
         NEW pc \in {"lookup", "wait", "gate", "dispatched"},
         NEW res \in {"none", "ok", "err"},
         Goto(c, pc) \/ Return(c, res) \/ caller' = [caller EXCEPT ![c] = IdleCaller]
  PROVE  caller' \in [Callers -> Caller]
  <1>1. [caller[c] EXCEPT !.pc = pc, !.res = "none"] \in Caller
    BY CallerUpdates DEF TypeOK
  <1>2. [caller[c] EXCEPT !.pc = "returned", !.res = res] \in Caller
    BY CallerUpdates DEF TypeOK
  <1>3. CASE Goto(c, pc)
    BY <1>1, <1>3, CallersUpdate DEF Goto, TypeOK
  <1>4. CASE Return(c, res)
    BY <1>2, <1>4, CallersUpdate DEF Return, TypeOK
  <1>5. CASE caller' = [caller EXCEPT ![c] = IdleCaller]
    BY <1>5, RecordValues, CallersUpdate DEF TypeOK
  <1>6. QED
    BY <1>3, <1>4, <1>5

LEMMA StartDownstreamTypes ==
  ASSUME TypeOK, NEW drain \in BOOLEAN, StartDownstream(drain)
  PROVE  startup' \in Startup /\ failures' \in 0 .. HealthThreshold - 1
  <1>1. startup' \in Startup
    BY DEF StartDownstream, Startup, TypeOK
  <1>2. failures' \in 0 .. HealthThreshold - 1
    BY ConstantsAssumption DEF StartDownstream
  <1>3. QED
    BY <1>1, <1>2

LEMMA StartupUpdates ==
  ASSUME NEW r \in Startup, NEW p \in Procs \cup {None},
         NEW f \in {"connect", "publish", "finish"}
  PROVE  /\ [r EXCEPT !.phase = f] \in Startup
         /\ [r EXCEPT !.phase = f, !.ds = p] \in Startup
         /\ r.ds \in Procs \cup {None}
  <1>1. [r EXCEPT !.phase = f] \in Startup
    BY DEF Startup
  <1>2. [r EXCEPT !.phase = f, !.ds = p] \in Startup
    BY DEF Startup
  <1>3. r.ds \in Procs \cup {None}
    BY DEF Startup
  <1>4. QED
    BY <1>1, <1>2, <1>3

(* Every step keeps every variable in its type (TypeOK).                   *)
LEMMA StepTypeOK == TypeOK /\ [Next]_vars => TypeOK'
  <1> SUFFICES ASSUME TypeOK, [Next]_vars PROVE TypeOK'
    OBVIOUS
  <1> USE DEF TypeOK, muVars, sessionVars, requestVars, timerVars, closeVars
  <1>1. ASSUME NEW c \in Callers, NEW s \in Sessions, GetOrCreateSession(c, s)
        PROVE  TypeOK'
    <2>1. sess' \in [Sessions -> Session]
      <3>1. sess[s] \in Session /\ sess[s].pending + 1 \in Int
        BY SessionFields
      <3>2. [sess[s] EXCEPT !.tracked = TRUE, !.pending = sess[s].pending + 1]
              \in Session
        BY <3>1, SessionUpdates
      <3>3. QED
        BY <1>1, <3>2, TableUpdate DEF GetOrCreateSession
    <2>2. caller' \in [Callers -> Caller]
      BY <1>1, NewCallers, CallersUpdate DEF GetOrCreateSession
    <2>3. QED
      BY <1>1, <2>1, <2>2 DEF GetOrCreateSession
  <1>2. ASSUME NEW c \in Callers, NEW s \in Sessions, BeginRequest(c, s)
        PROVE  TypeOK'
    <2>1. sess' \in [Sessions -> Session]
      <3>1. sess[s] \in Session /\ sess[s].inFlight + 1 \in Int
        BY SessionFields
      <3>2. [sess[s] EXCEPT !.inFlight = sess[s].inFlight + 1] \in Session
        BY <3>1, SessionUpdates
      <3>3. QED
        BY <1>2, <3>2, TableUpdate DEF BeginRequest
    <2>2. caller' \in [Callers -> Caller]
      BY <1>2, NewCallers, CallersUpdate DEF BeginRequest
    <2>3. QED
      BY <1>2, <2>1, <2>2 DEF BeginRequest
  <1>3. ASSUME NEW c \in Callers, EnsureReady(c)
        PROVE  TypeOK'
    <2>1. caller' \in [Callers -> Caller]
      <3>1. [IdleCaller EXCEPT !.op = "ready", !.pc = "lookup"] \in Caller
        BY DEF IdleCaller, Caller
      <3>3. QED
        BY <1>3, <3>1, CallersUpdate DEF EnsureReady
    <2>2. QED
      BY <1>3, <2>1 DEF EnsureReady
  <1>4. ASSUME NEW c \in Callers, WaitCut(c)
        PROVE  TypeOK'
    <2>1. caller' \in [Callers -> Caller]
      BY <1>4, CallerSteps DEF WaitCut
    <2>2. QED
      BY <1>4, <2>1 DEF WaitCut
  <1>5. ASSUME NEW c \in Callers, RefuseRequest(c)
        PROVE  TypeOK'
    <2>1. sess' \in [Sessions -> Session]
      BY <1>5, HelperTypes DEF RefuseRequest
    <2>2. caller' \in [Callers -> Caller]
      BY <1>5, CallerSteps DEF RefuseRequest
    <2>3. QED
      BY <1>5, <2>1, <2>2 DEF RefuseRequest
  <1>6. ASSUME NEW c \in Callers, Lookup(c)
        PROVE  TypeOK'
    <2>1. caller' \in [Callers -> Caller]
      BY <1>6, CallerSteps DEF Lookup
    <2>2. failures' \in 0 .. HealthThreshold - 1 /\ startup' \in Startup
      BY <1>6, StartDownstreamTypes DEF Lookup
    <2>3. QED
      BY <1>6, <2>1, <2>2 DEF Lookup
  <1>7. ASSUME NEW c \in Callers, StartupDone(c)
        PROVE  TypeOK'
    <2>1. caller[c].res \in {"none", "ok", "err"}
      BY CallerUpdates
    <2>2. caller' \in [Callers -> Caller]
      BY <1>7, <2>1, CallerSteps DEF StartupDone
    <2>3. QED
      BY <1>7, <2>2 DEF StartupDone
  <1>8. ASSUME NEW c \in Callers, SettleAdmission(c)
        PROVE  TypeOK'
    <2>1. sess' \in [Sessions -> Session]
      <3> DEFINE s == caller[c].s
                 b == sess[s].admitted \/ caller[c].res = "ok"
      <3>1. s \in Sessions => sess[s] \in Session /\ sess[s].pending - 1 \in Int
        BY SessionFields
      <3>2. s \in Sessions
              => [sess[s] EXCEPT !.pending = sess[s].pending - 1, !.admitted = b]
                   \in Session
        BY <3>1, SessionUpdates
      <3>3. [sess EXCEPT ![s].pending = @ - 1, ![s].admitted = @ \/ caller[c].res = "ok"]
              \in [Sessions -> Session]
        BY <3>2, TableUpdate
      <3>4. [sess EXCEPT ![s] = Untracked] \in [Sessions -> Session]
        BY RecordValues, TableUpdate
      <3>5. QED
        BY <1>8, <3>3, <3>4 DEF SettleAdmission
    <2>2. caller' \in [Callers -> Caller]
      BY <1>8, HelperTypes, RecordValues, CallersUpdate DEF SettleAdmission
    <2>3. refCount' \in Int /\ idleTimer' \in {"nil", "armed", "fired"}
      BY <1>8 DEF SettleAdmission, ArmIdleTimer
    <2>4. QED
      BY <1>8, <2>1, <2>2, <2>3 DEF SettleAdmission
  <1>9. ASSUME NEW c \in Callers, EnsureReadyReturn(c)
        PROVE  TypeOK'
    <2>1. caller' \in [Callers -> Caller]
      BY <1>9, CallerSteps DEF EnsureReadyReturn
    <2>2. QED
      BY <1>9, <2>1 DEF EnsureReadyReturn
  <1>10. ASSUME NEW c \in Callers, RequestGate(c)
         PROVE  TypeOK'
    <2>1. CASE RefuseRequest(c)
      BY <2>1, <1>5
    <2>2. CASE ~RefuseRequest(c)
      <3>1. caller' \in [Callers -> Caller]
        BY <1>10, <2>2, CallerSteps DEF RequestGate
      <3>2. QED
        BY <1>10, <2>2, <3>1 DEF RequestGate
    <2>3. QED
      BY <2>1, <2>2
  <1>11. ASSUME NEW c \in Callers, RequestReturned(c)
         PROVE  TypeOK'
    <2>1. CASE RefuseRequest(c)
      BY <2>1, <1>5
    <2>2. CASE ~RefuseRequest(c)
      <3>1. caller' \in [Callers -> Caller]
        BY <1>11, <2>2, CallerSteps DEF RequestReturned
      <3>2. QED
        BY <1>11, <2>2, <3>1 DEF RequestReturned
    <2>3. QED
      BY <2>1, <2>2
  <1>12. ASSUME NEW c \in Callers, EndRequest(c)
         PROVE  TypeOK'
    <2>1. sess' \in [Sessions -> Session]
      BY <1>12, HelperTypes DEF EndRequest
    <2>2. caller' \in [Callers -> Caller]
      BY <1>12, CallerSteps DEF EndRequest
    <2>3. startup' \in Startup
      BY <1>12 DEF EndRequest, Startup
    <2>4. QED
      BY <1>12, <2>1, <2>2, <2>3 DEF EndRequest
  <1>13. CASE StartupDetach
    BY <1>13 DEF StartupDetach, Startup
  <1>14. CASE StartupCloseOld
    BY <1>14 DEF StartupCloseOld, Startup
  <1>15. CASE StartupSpawn
    <2>1. startup' \in Startup
      <3>1. [startup EXCEPT !.phase = "publish"] \in Startup
        BY DEF Startup
      <3>2. \A p \in Procs :
              [startup EXCEPT !.phase = "connect", !.ds = p] \in Startup
        BY StartupUpdates
      <3>3. QED
        BY <1>15, <3>1, <3>2 DEF StartupSpawn
    <2>2. live' \subseteq Procs
      BY <1>15 DEF StartupSpawn
    <2>3. QED
      BY <1>15, <2>1, <2>2 DEF StartupSpawn
  <1>16. CASE StartupConnect
    <2>1. startup' \in Startup
      <3>1. [startup EXCEPT !.phase = "publish"] \in Startup
        BY DEF Startup
      <3>2. [startup EXCEPT !.phase = "publish", !.ds = None] \in Startup
        BY StartupUpdates
      <3>3. QED
        BY <1>16, <3>1, <3>2 DEF StartupConnect
    <2>2. live' \subseteq Procs
      BY <1>16 DEF StartupConnect
    <2>3. QED
      BY <1>16, <2>1, <2>2 DEF StartupConnect
  <1>17. CASE StartupPublish
    <2>1. startup' \in Startup
      <3>1. [startup EXCEPT !.phase = "finish"] \in Startup
        BY StartupUpdates
      <3>2. [startup EXCEPT !.phase = "finish", !.ds = None] \in Startup
        BY StartupUpdates
      <3>3. QED
        BY <1>17, <3>1, <3>2 DEF StartupPublish
    <2>2. startup.ds \in Procs \cup {None}
      BY StartupUpdates
    <2>3. downstream' \in Procs \cup {None} /\ spawnErr' \in BOOLEAN
      BY <1>17, <2>2 DEF StartupPublish
    <2>4. live' \subseteq Procs
      BY <1>17 DEF StartupPublish
    <2>5. QED
      BY <1>17, <2>1, <2>3, <2>4 DEF StartupPublish
  <1>18. CASE StartupFinish
    <2>1. caller' \in [Callers -> Caller]
      <3>1. \A r \in Caller, res \in {"ok", "err"} : [r EXCEPT !.res = res] \in Caller
        BY CallerUpdates
      <3>2. QED
        BY <1>18, <3>1 DEF StartupFinish
    <2>2. idleTimer' \in {"nil", "armed", "fired"}
      BY <1>18 DEF StartupFinish, ArmIdleTimer
    <2>3. startup' \in Startup
      BY <1>18, RecordValues DEF StartupFinish
    <2>4. QED
      BY <1>18, <2>1, <2>2, <2>3 DEF StartupFinish
  <1>19. ASSUME NEW s \in Sessions, Remove(s)
         PROVE  TypeOK'
    <2>1. caller' \in [Callers -> Caller]
      <3>1. \A r \in Caller : [r EXCEPT !.holds = FALSE] \in Caller
        BY CallerUpdates
      <3>2. QED
        BY <1>19, <3>1 DEF Remove, Forget
    <2>2. sess' \in [Sessions -> Session]
      BY <1>19, RecordValues DEF Remove
    <2>3. idleTimer' \in {"nil", "armed", "fired"} /\ refCount' \in Int
      BY <1>19 DEF Remove, ArmIdleTimer
    <2>4. QED
      BY <1>19, <2>1, <2>2, <2>3 DEF Remove
  <1>20. ASSUME NEW S \in SUBSET Sessions, ReapExpiredSessions(S)
         PROVE  TypeOK'
    <2>1. \A r \in Session : [r EXCEPT !.expiring = TRUE] \in Session
      BY DEF Session
    <2>2. QED
      BY <1>20, <2>1 DEF ReapExpiredSessions
  <1>21. CASE IdleTimerFires
    BY <1>21, ConstantsAssumption DEF IdleTimerFires
  <1>22. CASE ReapDownstream
    <2>1. idleTimer' \in {"nil", "armed", "fired"}
      BY <1>22 DEF ReapDownstream, ArmIdleTimer
    <2>2. callbacks' \in 0 .. MaxCallbacks
      BY <1>22, ConstantsAssumption DEF ReapDownstream
    <2>3. downstream' \in Procs \cup {None} /\ spawnErr' \in BOOLEAN /\ live' \subseteq Procs
      BY <1>22 DEF ReapDownstream
    <2>4. QED
      BY <1>22, <2>1, <2>2, <2>3 DEF ReapDownstream
  <1>23. CASE HealthProbe
    BY <1>23 DEF HealthProbe
  <1>24. CASE HealthStale
    BY <1>24 DEF HealthStale, HealthDone
  <1>25. CASE HealthSuccess
    BY <1>25, ConstantsAssumption DEF HealthSuccess, HealthDone
  <1>26. CASE HealthFailure
    <2>1. startup' \in Startup
      BY <1>26, StartDownstreamTypes DEF HealthFailure
    <2>2. failures' \in 0 .. HealthThreshold - 1
      BY <1>26, ConstantsAssumption DEF HealthFailure, ThresholdReached, StartDownstream
    <2>3. requestsDrained' \in BOOLEAN
      BY <1>26 DEF HealthFailure
    <2>4. health' \in [phase: {"idle", "probing", "waiting"}, ds: Procs \cup {None}]
      BY <1>26 DEF HealthFailure, HealthDone
    <2>5. QED
      BY <1>26, <2>1, <2>2, <2>3, <2>4 DEF HealthFailure
  <1>27. CASE CloseAllCancel
    BY <1>27 DEF CloseAllCancel
  <1>28. CASE CloseAllClear
    <2>1. caller' \in [Callers -> Caller]
      <3>1. \A r \in Caller : [r EXCEPT !.holds = FALSE] \in Caller
        BY CallerUpdates
      <3>2. QED
        BY <1>28, <3>1 DEF CloseAllClear, Forget
    <2>2. sess' \in [Sessions -> Session]
      BY <1>28, RecordValues DEF CloseAllClear
    <2>3. /\ closer' \in {"open", "cancelling", "killing", "waiting", "done"}
          /\ refCount' \in Int
          /\ downstream' \in Procs \cup {None} /\ closeDs' \in Procs \cup {None}
      BY <1>28 DEF CloseAllClear
    <2>4. spawnErr' \in BOOLEAN /\ idleTimer' \in {"nil", "armed", "fired"}
      BY <1>28 DEF CloseAllClear
    <2>5. QED
      BY <1>28, <2>1, <2>2, <2>3, <2>4 DEF CloseAllClear
  <1>29. CASE CloseAllKill
    BY <1>29 DEF CloseAllKill
  <1>30. CASE CloseAllReturn
    BY <1>30 DEF CloseAllReturn
  <1>31. ASSUME NEW p \in Procs, ProcessExit(p)
         PROVE  TypeOK'
    BY <1>31 DEF ProcessExit
  <1>32. CASE UNCHANGED vars
    BY <1>32 DEF vars
  <1>33. QED
    BY <1>1, <1>2, <1>3, <1>4, <1>5, <1>6, <1>7, <1>8, <1>9, <1>10, <1>11,
       <1>12, <1>13, <1>14, <1>15, <1>16, <1>17, <1>18, <1>19, <1>20, <1>21,
       <1>22, <1>23, <1>24, <1>25, <1>26, <1>27, <1>28, <1>29, <1>30, <1>31,
       <1>32
    DEF Next, AdmissionStep, RequestStep, StartupStep, CloseAllStep, HealthStep,
        RemoveSession, RemoveExpired, RequestCancelled

(* Every variable of the shared manager keeps its type: in particular the  *)
(* health failure count never reaches the threshold that triggers recovery.*)
THEOREM TypeCorrect == Spec => []TypeOK
  <1>1. QED
    BY InitTypeOK, StepTypeOK, PTL DEF Spec
---------------------------------------------------------------------------
(* Ownership of the subprocess.                                            *)

ProcessInv == NoLeakedProcess /\ ProcessHolders

(* What ProcessInv is about; most steps leave it all alone.                *)
processVars == <<downstream, startup, live, closer, closeDs>>

LEMMA InitProcessInv == Init => ProcessInv
  BY DEF Init, ProcessInv, NoLeakedProcess, ProcessHolders, NoStartup, Closed

LEMMA IdleProcessInv ==
  ProcessInv /\ UNCHANGED processVars => ProcessInv'
  BY DEF ProcessInv, NoLeakedProcess, ProcessHolders, processVars, Closed

(* Reserving a replacement hands the published process to the goroutine.   *)
LEMMA ReserveProcessInv ==
  ASSUME ProcessInv, ~Closed, ~Starting, NEW drain \in BOOLEAN,
         StartDownstream(drain), UNCHANGED <<downstream, live, closeVars>>
  PROVE  ProcessInv'
  BY DEF ProcessInv, NoLeakedProcess, ProcessHolders, StartDownstream, Closed,
         Starting, closeVars

(* Every step keeps the process owned, and by one holder.                  *)
LEMMA StepProcessInv == TypeOK /\ ProcessInv /\ [Next]_vars => ProcessInv'
  <1> SUFFICES ASSUME TypeOK, ProcessInv, [Next]_vars PROVE ProcessInv'
    OBVIOUS
  <1> USE DEF muVars, sessionVars, requestVars, timerVars, closeVars
  <1>1. ASSUME NEW c \in Callers, NEW s \in Sessions,
               GetOrCreateSession(c, s) \/ BeginRequest(c, s)
        PROVE  ProcessInv'
    BY <1>1, IdleProcessInv DEF GetOrCreateSession, BeginRequest, processVars
  <1>2. ASSUME NEW c \in Callers,
               \/ EnsureReady(c) \/ WaitCut(c) \/ RequestCancelled(c)
               \/ StartupDone(c) \/ SettleAdmission(c) \/ EnsureReadyReturn(c)
               \/ RequestGate(c) \/ RequestReturned(c)
        PROVE  ProcessInv'
    <2>1. UNCHANGED processVars
      BY <1>2 DEF EnsureReady, WaitCut, RequestCancelled, StartupDone,
         SettleAdmission, EnsureReadyReturn, RequestGate, RequestReturned,
         RefuseRequest, processVars
    <2>2. QED
      BY <2>1, IdleProcessInv
  <1>3. ASSUME NEW c \in Callers, Lookup(c)
        PROVE  ProcessInv'
    <2>1. CASE UNCHANGED processVars
      BY <2>1, IdleProcessInv
    <2>2. CASE ~Closed /\ ~Starting /\ StartDownstream(FALSE)
      BY <1>3, <2>2, ReserveProcessInv DEF Lookup
    <2>3. QED
      BY <1>3, <2>1, <2>2 DEF Lookup, processVars
  <1>4. ASSUME NEW c \in Callers, EndRequest(c)
        PROVE  ProcessInv'
    BY <1>4 DEF EndRequest, ProcessInv, NoLeakedProcess, ProcessHolders, Closed,
                TypeOK, Startup
  <1>5. CASE StartupDetach
    BY <1>5 DEF StartupDetach, ProcessInv, NoLeakedProcess, ProcessHolders,
                Closed, TypeOK, Startup
  <1>6. CASE StartupCloseOld
    BY <1>6 DEF StartupCloseOld, ProcessInv, NoLeakedProcess, ProcessHolders,
                Closed, TypeOK, Startup
  <1>7. CASE StartupSpawn
    <2>1. CASE startup' = [startup EXCEPT !.phase = "publish"] /\ UNCHANGED live
      BY <1>7, <2>1
      DEF StartupSpawn, ProcessInv, NoLeakedProcess, ProcessHolders, Closed,
          TypeOK, Startup
    <2>2. ASSUME ~Cancelled, NEW p \in Procs, live' = live \cup {p},
                 startup' = [startup EXCEPT !.phase = "connect", !.ds = p]
          PROVE  ProcessInv'
      <3>1. closeDs = None /\ downstream = None /\ startup.old = None
            /\ startup.ds = None /\ closer = "open"
        BY <1>7, <2>2 DEF StartupSpawn, ProcessInv, ProcessHolders, Cancelled
      <3>2. startup'.ds = p /\ startup'.old = None /\ startup'.phase = "connect"
        BY <2>2, <3>1 DEF TypeOK, Startup
      <3>3. UNCHANGED <<closer, closeDs, downstream>>
        BY <1>7 DEF StartupSpawn
      <3>4. NoLeakedProcess'
        BY <2>2, <3>1, <3>2, <3>3 DEF ProcessInv, NoLeakedProcess
      <3>5. ProcessHolders'
        BY <3>1, <3>2, <3>3 DEF ProcessHolders, Closed
      <3>6. QED
        BY <3>4, <3>5 DEF ProcessInv
    <2>3. QED
      BY <1>7, <2>1, <2>2 DEF StartupSpawn
  <1>8. CASE StartupConnect
    BY <1>8 DEF StartupConnect, ProcessInv, NoLeakedProcess, ProcessHolders,
                Closed, TypeOK, Startup
  <1>9. CASE StartupPublish
    BY <1>9 DEF StartupPublish, ProcessInv, NoLeakedProcess, ProcessHolders,
                Closed, MuFree, TypeOK, Startup
  <1>10. CASE StartupFinish
    BY <1>10, ConstantsAssumption
    DEF StartupFinish, ProcessInv, NoLeakedProcess, ProcessHolders,
        Closed, NoStartup, TypeOK, Startup
  <1>11. ASSUME NEW s \in Sessions, Remove(s)
         PROVE  ProcessInv'
    BY <1>11, IdleProcessInv DEF Remove, processVars
  <1>12. ASSUME NEW S \in SUBSET Sessions, ReapExpiredSessions(S)
         PROVE  ProcessInv'
    BY <1>12, IdleProcessInv DEF ReapExpiredSessions, processVars
  <1>13. CASE IdleTimerFires \/ HealthProbe \/ HealthStale \/ HealthSuccess
    BY <1>13, IdleProcessInv
    DEF IdleTimerFires, HealthProbe, HealthStale, HealthSuccess, processVars
  <1>14. CASE ReapDownstream
    BY <1>14 DEF ReapDownstream, ProcessInv, NoLeakedProcess, ProcessHolders,
                 Closed, Starting
  <1>15. CASE HealthFailure
    <2>1. CASE UNCHANGED startup
      BY <1>15, <2>1, IdleProcessInv DEF HealthFailure, processVars
    <2>2. ASSUME NEW drain \in BOOLEAN, StartDownstream(drain)
          PROVE  ProcessInv'
      BY <1>15, <2>2, ReserveProcessInv DEF HealthFailure, Cancelled, Closed
    <2>3. QED
      BY <1>15, <2>1, <2>2 DEF HealthFailure
  <1>16. CASE CloseAllCancel
    BY <1>16 DEF CloseAllCancel, ProcessInv, NoLeakedProcess, ProcessHolders, Closed
  <1>17. CASE CloseAllClear
    BY <1>17 DEF CloseAllClear, ProcessInv, NoLeakedProcess, ProcessHolders, Closed
  <1>18. CASE CloseAllKill
    BY <1>18 DEF CloseAllKill, ProcessInv, NoLeakedProcess, ProcessHolders, Closed
  <1>19. CASE CloseAllReturn
    BY <1>19 DEF CloseAllReturn, ProcessInv, NoLeakedProcess, ProcessHolders,
                 Closed, Starting
  <1>20. ASSUME NEW p \in Procs, ProcessExit(p)
         PROVE  ProcessInv'
    BY <1>20 DEF ProcessExit, ProcessInv, NoLeakedProcess, ProcessHolders, Closed
  <1>21. CASE UNCHANGED vars
    BY <1>21, IdleProcessInv DEF vars, processVars
  <1>22. QED
    BY <1>1, <1>2, <1>3, <1>4, <1>5, <1>6, <1>7, <1>8, <1>9, <1>10, <1>11,
       <1>12, <1>13, <1>14, <1>15, <1>16, <1>17, <1>18, <1>19, <1>20, <1>21
    DEF Next, AdmissionStep, RequestStep, StartupStep, CloseAllStep, HealthStep,
        RemoveSession, RemoveExpired

LEMMA ProcessInvariant == Spec => []ProcessInv
  <1>1. QED
    BY InitProcessInv, StepProcessInv, TypeCorrect, PTL DEF Spec

(* Two subprocesses of one shared server never run at once.                *)
THEOREM SingleProcess == Spec => []AtMostOneProcess
  <1>1. TypeOK /\ ProcessInv => AtMostOneProcess
    BY ConstantsAssumption
    DEF TypeOK, Startup, ProcessInv, NoLeakedProcess, ProcessHolders,
        AtMostOneProcess, Closed
  <1>2. QED
    BY <1>1, ProcessInvariant, TypeCorrect, PTL

(* Every running subprocess has an owner that will close it.               *)
THEOREM EveryProcessOwned == Spec => []NoLeakedProcess
  <1>1. ProcessInv => NoLeakedProcess
    BY DEF ProcessInv
  <1>2. QED
    BY <1>1, ProcessInvariant, PTL

(* Nothing runs once CloseAll has returned, whatever startup it met.       *)
THEOREM CloseAllIsFinal == Spec => []NothingRunsAfterClose
  <1>1. TypeOK /\ ProcessInv => NothingRunsAfterClose
    BY ConstantsAssumption
    DEF TypeOK, ProcessInv, NoLeakedProcess, ProcessHolders,
        NothingRunsAfterClose, Closed
  <1>2. QED
    BY <1>1, ProcessInvariant, TypeCorrect, PTL

---------------------------------------------------------------------------
(* The reference count.                                                    *)

(* A call that holds a record holds one the table points to: RemoveSession,*)
(* CloseAll and a rolled back admission detach every other holder.         *)
HoldersTracked ==
  \A c \in Callers : caller[c].holds =>
    caller[c].s \in Sessions /\ sess[caller[c].s].tracked

RefInv == RefCountExact /\ HoldersTracked

LEMMA TrackedFinite ==
  /\ IsFiniteSet(Tracked) /\ Cardinality(Tracked) \in Nat
  /\ Tracked' \subseteq Sessions
  BY ConstantsAssumption, FS_Subset, FS_CardinalityType DEF Tracked

LEMMA InitRefInv == Init => RefInv
  <1> SUFFICES ASSUME Init PROVE RefInv
    OBVIOUS
  <1>1. Tracked = {}
    BY DEF Init, Tracked, Untracked
  <1>2. RefCountExact
    BY <1>1, FS_EmptySet, ConstantsAssumption DEF Init, RefCountExact
  <1>3. HoldersTracked
    BY DEF Init, HoldersTracked, IdleCaller
  <1>4. QED
    BY <1>2, <1>3 DEF RefInv

(* A step that keeps the tracked set, the count and what callers hold.     *)
LEMMA SameRefInv ==
  ASSUME RefInv, TypeOK, TypeOK', refCount' = refCount,
         \A s \in Sessions : sess'[s].tracked = sess[s].tracked,
         \A c \in Callers : caller'[c].holds =>
            \/ caller[c].holds /\ caller'[c].s = caller[c].s
            \/ caller'[c].s \in Sessions /\ sess[caller'[c].s].tracked
  PROVE  RefInv'
  <1>1. Tracked' = Tracked
    BY DEF Tracked
  <1>2. RefCountExact'
    BY <1>1 DEF RefInv, RefCountExact
  <1>3. HoldersTracked'
    BY DEF RefInv, HoldersTracked
  <1>4. QED
    BY <1>2, <1>3 DEF RefInv

(* Removing one tracked session: the count goes down with the set.         *)
LEMMA RemoveRefInv ==
  ASSUME RefInv, TypeOK, TypeOK', NEW s \in Sessions, sess[s].tracked,
         sess' = [sess EXCEPT ![s] = Untracked], refCount' = refCount - 1,
         \A c \in Callers : caller'[c].holds =>
            caller[c].holds /\ caller'[c].s = caller[c].s /\ caller[c].s # s
  PROVE  RefInv'
  <1>1. Tracked' = Tracked \ {s} /\ s \in Tracked
    BY DEF Tracked, TypeOK, Untracked
  <1>2. Cardinality(Tracked') = Cardinality(Tracked) - 1
    BY <1>1, TrackedFinite, FS_RemoveElement
  <1>3. RefCountExact'
    BY <1>2, TrackedFinite, ConstantsAssumption DEF RefInv, RefCountExact
  <1>4. HoldersTracked'
    BY DEF RefInv, HoldersTracked, TypeOK
  <1>5. QED
    BY <1>3, <1>4 DEF RefInv

LEMMA StepRefInv == TypeOK /\ TypeOK' /\ RefInv /\ [Next]_vars => RefInv'
  <1> SUFFICES ASSUME TypeOK, TypeOK', RefInv, [Next]_vars PROVE RefInv'
    OBVIOUS
  <1> USE DEF muVars, sessionVars, requestVars, timerVars, closeVars
  <1>0. \A s \in Sessions : sess[s] \in Session
    BY DEF TypeOK
  <1>1. ASSUME NEW c \in Callers, NEW s \in Sessions, GetOrCreateSession(c, s)
        PROVE  RefInv'
    <2>1. sess'[s].tracked
      BY <1>1, <1>0 DEF GetOrCreateSession, TypeOK, Session
    <2>2. \A t \in Sessions \ {s} : sess'[t] = sess[t]
      BY <1>1 DEF GetOrCreateSession, TypeOK
    <2>3. Tracked' = Tracked \cup {s}
      BY <2>1, <2>2 DEF Tracked
    <2>4. refCount' = Cardinality(Tracked')
      BY <1>1, <2>3, TrackedFinite, FS_AddElement
      DEF GetOrCreateSession, RefInv, RefCountExact, Tracked
    <2>5. MaxSessions > 0 => refCount' <= MaxSessions
      BY <1>1, TrackedFinite, ConstantsAssumption
      DEF GetOrCreateSession, RefInv, RefCountExact
    <2>6. HoldersTracked'
      BY <1>1, <2>1, <2>2
      DEF GetOrCreateSession, RefInv, HoldersTracked, TypeOK
    <2>7. QED
      BY <2>4, <2>5, <2>6 DEF RefInv, RefCountExact
  <1>2. ASSUME NEW c \in Callers, NEW s \in Sessions, BeginRequest(c, s)
        PROVE  RefInv'
    <2>1. \A t \in Sessions : sess'[t].tracked = sess[t].tracked
      BY <1>2, <1>0 DEF BeginRequest, TypeOK, Session
    <2>2. \A d \in Callers : caller'[d].holds =>
            \/ caller[d].holds /\ caller'[d].s = caller[d].s
            \/ caller'[d].s \in Sessions /\ sess[caller'[d].s].tracked
      BY <1>2 DEF BeginRequest, TypeOK
    <2>3. QED
      BY <1>2, <2>1, <2>2, SameRefInv DEF BeginRequest
  <1>3. ASSUME NEW c \in Callers, sess' = DropInFlight(c),
               caller' = [caller EXCEPT ![c] = IdleCaller], refCount' = refCount
        PROVE  RefInv'
    <2>1. \A t \in Sessions : sess'[t].tracked = sess[t].tracked
      BY <1>3, <1>0 DEF DropInFlight, TypeOK, Session
    <2>2. \A d \in Callers : caller'[d].holds =>
            caller[d].holds /\ caller'[d].s = caller[d].s
      BY <1>3 DEF IdleCaller, TypeOK
    <2>3. QED
      BY <1>3, <2>1, <2>2, SameRefInv
  <1>4. ASSUME UNCHANGED sessionVars,
               \A d \in Callers : caller'[d].holds =>
                 caller[d].holds /\ caller'[d].s = caller[d].s
        PROVE  RefInv'
    BY <1>4, SameRefInv
  <1>5. ASSUME NEW c \in Callers, NEW pc, NEW res, UNCHANGED sessionVars,
               \/ caller' = [caller EXCEPT ![c].pc = pc, ![c].res = res]
               \/ caller' = [caller EXCEPT ![c] = IdleCaller]
               \/ caller' = [caller EXCEPT ![c] = [IdleCaller EXCEPT !.op = "ready",
                                                                    !.pc = "lookup"]]
        PROVE  RefInv'
    <2>1. CASE caller' = [caller EXCEPT ![c].pc = pc, ![c].res = res]
      <3>1. \A d \in Callers : caller'[d].holds = caller[d].holds
                               /\ caller'[d].s = caller[d].s
        BY <2>1 DEF TypeOK, Caller
      <3>2. QED
        BY <1>5, <3>1, <1>4
    <2>2. CASE caller' = [caller EXCEPT ![c] = IdleCaller]
      <3>1. \A d \in Callers : caller'[d].holds =>
              caller[d].holds /\ caller'[d].s = caller[d].s
        BY <2>2 DEF IdleCaller, TypeOK
      <3>2. QED
        BY <1>5, <3>1, <1>4
    <2>3. CASE caller' = [caller EXCEPT ![c] = [IdleCaller EXCEPT !.op = "ready",
                                                                 !.pc = "lookup"]]
      <3>1. \A d \in Callers : caller'[d].holds =>
              caller[d].holds /\ caller'[d].s = caller[d].s
        BY <2>3 DEF IdleCaller, TypeOK
      <3>2. QED
        BY <1>5, <3>1, <1>4
    <2>4. QED
      BY <1>5, <2>1, <2>2, <2>3
  <1>6. ASSUME NEW c \in Callers,
               \/ EnsureReady(c) \/ WaitCut(c) \/ Lookup(c) \/ StartupDone(c)
               \/ EnsureReadyReturn(c)
        PROVE  RefInv'
    <2>1. CASE EnsureReady(c)
      BY <1>5, <2>1 DEF EnsureReady
    <2>2. CASE WaitCut(c)
      BY <1>5, <2>2 DEF WaitCut, Return
    <2>3. CASE Lookup(c)
      BY <1>5, <2>3 DEF Lookup, Return, Goto
    <2>4. CASE StartupDone(c)
      BY <1>5, <2>4 DEF StartupDone, Return
    <2>5. CASE EnsureReadyReturn(c)
      BY <1>5, <2>5 DEF EnsureReadyReturn
    <2>6. QED
      BY <1>6, <2>1, <2>2, <2>3, <2>4, <2>5
  <1>7. ASSUME NEW c \in Callers,
               \/ RequestCancelled(c) \/ RequestGate(c) \/ RequestReturned(c)
               \/ EndRequest(c)
        PROVE  RefInv'
    <2>1. CASE RefuseRequest(c) \/ EndRequest(c)
      BY <1>3, <2>1 DEF RefuseRequest, EndRequest
    <2>2. CASE ~(RefuseRequest(c) \/ EndRequest(c))
      BY <1>5, <1>7, <2>2 DEF RequestCancelled, RequestGate, RequestReturned, Goto
    <2>3. QED
      BY <2>1, <2>2
  <1>8. ASSUME NEW c \in Callers, SettleAdmission(c)
        PROVE  RefInv'
    <2> DEFINE s == caller[c].s
               rollback == /\ caller[c].holds /\ caller[c].res = "err"
                           /\ ~sess[s].admitted /\ sess[s].pending = 1
    <2>1. CASE rollback
      <3>1. s \in Sessions /\ sess[s].tracked
        BY <2>1 DEF RefInv, HoldersTracked
      <3>2. sess' = [sess EXCEPT ![s] = Untracked] /\ refCount' = refCount - 1
        BY <1>8, <2>1 DEF SettleAdmission
      <3>3. caller' = [Forget({s}) EXCEPT ![c] = IdleCaller]
        BY <1>8, <2>1 DEF SettleAdmission
      <3>4. \A d \in Callers : caller'[d].holds =>
              caller[d].holds /\ caller'[d].s = caller[d].s /\ caller[d].s # s
        BY <3>3 DEF Forget, IdleCaller, TypeOK, Caller
      <3>5. QED
        BY <3>1, <3>2, <3>4, RemoveRefInv
    <2>2. CASE ~rollback
      <3>1. refCount' = refCount /\ caller' = [caller EXCEPT ![c] = IdleCaller]
        BY <1>8, <2>2 DEF SettleAdmission
      <3>2. \/ sess' = sess
            \/ sess' = [sess EXCEPT ![s].pending = @ - 1,
                                    ![s].admitted = @ \/ caller[c].res = "ok"]
        BY <1>8, <2>2 DEF SettleAdmission
      <3>3. \A t \in Sessions : sess'[t].tracked = sess[t].tracked
        BY <3>2, <1>0 DEF TypeOK, Session
      <3>4. \A d \in Callers : caller'[d].holds =>
              caller[d].holds /\ caller'[d].s = caller[d].s
        BY <3>1 DEF IdleCaller, TypeOK
      <3>5. QED
        BY <3>1, <3>3, <3>4, SameRefInv
    <2>3. QED
      BY <2>1, <2>2
  <1>9. ASSUME NEW s \in Sessions, RemoveSession(s) \/ RemoveExpired(s)
        PROVE  RefInv'
    <2>1. \A d \in Callers : caller'[d].holds =>
            caller[d].holds /\ caller'[d].s = caller[d].s /\ caller[d].s # s
      BY <1>9 DEF RemoveSession, RemoveExpired, Remove, Forget, TypeOK, Caller
    <2>2. QED
      BY <1>9, <2>1, RemoveRefInv DEF RemoveSession, RemoveExpired, Remove
  <1>10. ASSUME NEW S \in SUBSET Sessions, ReapExpiredSessions(S)
         PROVE  RefInv'
    <2>1. \A t \in Sessions : sess'[t].tracked = sess[t].tracked
      BY <1>10, <1>0 DEF ReapExpiredSessions, Session
    <2>2. QED
      BY <1>10, <2>1, SameRefInv DEF ReapExpiredSessions
  <1>11. CASE StartupFinish
    <2>1. \A d \in Callers : caller'[d].holds =>
            caller[d].holds /\ caller'[d].s = caller[d].s
      BY <1>11 DEF StartupFinish, TypeOK, Caller
    <2>2. QED
      BY <1>11, <2>1, <1>4 DEF StartupFinish
  <1>12. CASE CloseAllClear
    <2>1. Tracked' = {}
      BY <1>12 DEF CloseAllClear, Tracked, Untracked
    <2>2. RefCountExact'
      BY <1>12, <2>1, FS_EmptySet, ConstantsAssumption DEF CloseAllClear, RefCountExact
    <2>3. HoldersTracked'
      BY <1>12, ConstantsAssumption
      DEF CloseAllClear, HoldersTracked, Forget, TypeOK, Caller, RefInv
    <2>4. QED
      BY <2>2, <2>3 DEF RefInv
  <1>13. ASSUME UNCHANGED <<sessionVars, caller>>
         PROVE  RefInv'
    BY <1>4, <1>13
  <1>14. CASE \/ StartupDetach \/ StartupCloseOld \/ StartupSpawn
              \/ StartupConnect \/ StartupPublish \/ IdleTimerFires
              \/ ReapDownstream \/ HealthStep \/ CloseAllCancel \/ CloseAllKill
              \/ CloseAllReturn \/ \E p \in Procs : ProcessExit(p)
    BY <1>13, <1>14
    DEF StartupDetach, StartupCloseOld, StartupSpawn, StartupConnect,
        StartupPublish, IdleTimerFires, ReapDownstream, HealthStep, HealthProbe,
        HealthStale, HealthSuccess, HealthFailure, CloseAllCancel, CloseAllKill,
        CloseAllReturn, ProcessExit
  <1>15. CASE UNCHANGED vars
    BY <1>13, <1>15 DEF vars
  <1>16. QED
    BY <1>1, <1>2, <1>6, <1>7, <1>8, <1>9, <1>10, <1>11, <1>12, <1>14, <1>15
    DEF Next, AdmissionStep, RequestStep, StartupStep, CloseAllStep

(* refCount is the number of tracked sessions, and max_sessions holds.     *)
THEOREM RefCount == Spec => []RefCountExact
  <1>1. RefInv => RefCountExact
    BY DEF RefInv
  <1>2. QED
    BY <1>1, InitRefInv, StepRefInv, TypeCorrect, PTL DEF Spec

---------------------------------------------------------------------------
(* Draining before recovery.                                               *)

(* While the manager is open, a startup goroutine that has stopped waiting *)
(* for the drain and whose old process still answers has no dispatched     *)
(* request left to cut.                                                    *)
DrainInv ==
  (/\ closer = "open" /\ startup.old \in live
   /\ startup.phase = "close" \/ (startup.phase = "drain" /\ ~startup.drain))
    => Dispatched = {}

RequestInv == ActiveRequestsExact /\ DrainInv

LEMMA DispatchedFinite ==
  IsFiniteSet(Dispatched) /\ Cardinality(Dispatched) \in Nat
  BY ConstantsAssumption, FS_Subset, FS_CardinalityType DEF Dispatched

LEMMA InitRequestInv == Init => RequestInv
  <1> SUFFICES ASSUME Init PROVE RequestInv
    OBVIOUS
  <1>1. Dispatched = {}
    BY DEF Init, Dispatched, IdleCaller
  <1>2. QED
    BY <1>1, FS_EmptySet DEF Init, RequestInv, ActiveRequestsExact, DrainInv

(* A step that neither dispatches nor ends a request, and that leaves the  *)
(* startup where it is, or moves it without a live process to close.       *)
LEMMA SameRequestInv ==
  ASSUME RequestInv, activeRequests' = activeRequests,
         \A d \in Callers : caller'[d].pc = "dispatched" <=> caller[d].pc = "dispatched",
         DrainInv'
  PROVE  RequestInv'
  <1>1. Dispatched' = Dispatched
    BY DEF Dispatched
  <1>2. QED
    BY <1>1 DEF RequestInv, ActiveRequestsExact

LEMMA SameDrainInv ==
  ASSUME DrainInv, startup' = startup, live' \subseteq live,
         closer' = closer \/ closer' # "open",
         \A d \in Callers : caller'[d].pc = "dispatched" => caller[d].pc = "dispatched"
  PROVE  DrainInv'
  BY DEF DrainInv, Dispatched

LEMMA QuietRequestInv ==
  ASSUME RequestInv, activeRequests' = activeRequests, startup' = startup,
         live' \subseteq live, closer' = closer \/ closer' # "open",
         \A d \in Callers : caller'[d].pc = "dispatched" <=> caller[d].pc = "dispatched"
  PROVE  RequestInv'
  BY SameRequestInv, SameDrainInv DEF RequestInv

LEMMA StepRequestInv == TypeOK /\ RequestInv /\ [Next]_vars => RequestInv'
  <1> SUFFICES ASSUME TypeOK, RequestInv, [Next]_vars PROVE RequestInv'
    OBVIOUS
  <1> USE DEF muVars, sessionVars, requestVars, timerVars, closeVars
  <1>1. ASSUME NEW c \in Callers, caller[c].pc # "dispatched",
               NEW r, caller' = [caller EXCEPT ![c] = r], r.pc # "dispatched",
               UNCHANGED <<activeRequests, startup, live, closer>>
        PROVE  RequestInv'
    <2>1. \A d \in Callers : caller'[d].pc = "dispatched" <=> caller[d].pc = "dispatched"
      BY <1>1 DEF TypeOK
    <2>2. QED
      BY <1>1, <2>1, QuietRequestInv
  <1>2. ASSUME NEW c \in Callers, NEW s \in Sessions,
               GetOrCreateSession(c, s) \/ BeginRequest(c, s)
        PROVE  RequestInv'
    BY <1>1, <1>2 DEF GetOrCreateSession, BeginRequest
  <1>3. ASSUME NEW c \in Callers, EnsureReady(c) \/ EnsureReadyReturn(c)
        PROVE  RequestInv'
    <2>1. CASE EnsureReady(c)
      <3>1. caller[c].pc # "dispatched"
            /\ UNCHANGED <<activeRequests, startup, live, closer>>
        BY <2>1 DEF EnsureReady
      <3>2. caller' = [caller EXCEPT ![c] =
                         [IdleCaller EXCEPT !.op = "ready", !.pc = "lookup"]]
        BY <2>1 DEF EnsureReady
      <3>3. [IdleCaller EXCEPT !.op = "ready", !.pc = "lookup"].pc # "dispatched"
        BY DEF IdleCaller
      <3>4. QED
        BY <1>1, <3>1, <3>2, <3>3
    <2>2. CASE EnsureReadyReturn(c)
      <3>1. caller[c].pc # "dispatched" /\ IdleCaller.pc # "dispatched"
        BY <2>2 DEF EnsureReadyReturn, At, IdleCaller
      <3>2. QED
        BY <1>1, <2>2, <3>1 DEF EnsureReadyReturn
    <2>3. QED
      BY <1>3, <2>1, <2>2
  <1>4. ASSUME NEW c \in Callers, caller[c].pc # "dispatched",
               NEW pc, NEW res, pc # "dispatched",
               caller' = [caller EXCEPT ![c].pc = pc, ![c].res = res],
               UNCHANGED <<activeRequests, startup, live, closer>>
        PROVE  RequestInv'
    <2>1. \A d \in Callers : caller'[d].pc = "dispatched" <=> caller[d].pc = "dispatched"
      BY <1>4 DEF TypeOK, Caller
    <2>2. QED
      BY <1>4, <2>1, QuietRequestInv
  <1>5. ASSUME NEW c \in Callers, WaitCut(c) \/ StartupDone(c)
        PROVE  RequestInv'
    BY <1>4, <1>5 DEF WaitCut, StartupDone, Return
  <1>6. ASSUME NEW c \in Callers, Lookup(c)
        PROVE  RequestInv'
    <2>1. CASE startup' = startup
      BY <1>4, <1>6, <2>1 DEF Lookup, Return, Goto
    <2>2. CASE downstream \notin live /\ StartDownstream(FALSE) /\ Goto(c, "wait")
      <3>1. startup'.old \notin live'
        BY <1>6, <2>2 DEF Lookup, StartDownstream
      <3>2. DrainInv'
        BY <3>1 DEF DrainInv
      <3>3. \A d \in Callers : caller'[d].pc = "dispatched" <=> caller[d].pc = "dispatched"
        BY <1>6, <2>2 DEF Lookup, Goto, TypeOK, Caller
      <3>4. QED
        BY <1>6, <3>2, <3>3, SameRequestInv DEF Lookup
    <2>3. QED
      BY <1>6, <2>1, <2>2 DEF Lookup
  <1>7. ASSUME NEW c \in Callers, caller[c].pc # "dispatched", RefuseRequest(c)
        PROVE  RequestInv'
    BY <1>1, <1>7 DEF RefuseRequest, IdleCaller
  <1>8. ASSUME NEW c \in Callers, RequestCancelled(c) \/ RequestReturned(c)
        PROVE  RequestInv'
    <2>1. caller[c].pc # "dispatched"
      BY <1>8 DEF RequestCancelled, RequestReturned, At
    <2>2. CASE RefuseRequest(c)
      BY <1>7, <2>1, <2>2
    <2>3. CASE Goto(c, "gate") /\ UNCHANGED <<activeRequests, startup, live, closer>>
      BY <1>4, <2>1, <2>3 DEF Goto
    <2>4. QED
      BY <1>8, <2>2, <2>3 DEF RequestCancelled, RequestReturned
  <1>9. ASSUME NEW c \in Callers, RequestGate(c)
        PROVE  RequestInv'
    <2>0. caller[c].pc # "dispatched"
      BY <1>9 DEF RequestGate
    <2>1. CASE RefuseRequest(c)
      BY <1>7, <2>0, <2>1
    <2>4. CASE /\ Goto(c, "wait") \/ Goto(c, "lookup")
               /\ UNCHANGED <<activeRequests, startup, live, closer>>
      BY <1>4, <2>0, <2>4 DEF Goto
    <2>2. CASE /\ ~Starting /\ activeRequests' = activeRequests + 1
               /\ Goto(c, "dispatched") /\ UNCHANGED <<startup, live, closer>>
      <3>1. Dispatched' = Dispatched \cup {c} /\ c \notin Dispatched
        BY <1>9, <2>2 DEF RequestGate, Goto, Dispatched, TypeOK, Caller
      <3>2. ActiveRequestsExact'
        BY <2>2, <3>1, DispatchedFinite, FS_AddElement DEF RequestInv, ActiveRequestsExact
      <3>3. DrainInv'
        BY <2>2 DEF DrainInv, Starting
      <3>4. QED
        BY <3>2, <3>3 DEF RequestInv
    <2>3. QED
      BY <1>9, <2>1, <2>2, <2>4 DEF RequestGate
  <1>10. ASSUME NEW c \in Callers, EndRequest(c)
         PROVE  RequestInv'
    <2>1. Dispatched' = Dispatched \ {c} /\ c \in Dispatched
      BY <1>10 DEF EndRequest, Dispatched, TypeOK, IdleCaller
    <2>2. Cardinality(Dispatched') = Cardinality(Dispatched) - 1
      BY <2>1, DispatchedFinite, FS_RemoveElement
    <2>3. ActiveRequestsExact'
      BY <1>10, <2>2 DEF EndRequest, RequestInv, ActiveRequestsExact
    <2>4. DrainInv'
      <3>1. CASE activeRequests = 1
        <4>1. Dispatched' = {}
          BY <2>1, <2>2, <3>1, DispatchedFinite, FS_EmptySet, FS_Subset
          DEF RequestInv, ActiveRequestsExact
        <4>2. QED
          BY <4>1 DEF DrainInv
      <3>2. CASE activeRequests # 1
        <4>1. startup' = startup /\ live' = live /\ closer' = closer
          BY <1>10, <3>2 DEF EndRequest
        <4>2. QED
          BY <2>1, <4>1 DEF DrainInv, RequestInv
      <3>3. QED
        BY <3>1, <3>2
    <2>5. QED
      BY <2>3, <2>4 DEF RequestInv
  <1>11. ASSUME NEW c \in Callers, SettleAdmission(c)
         PROVE  RequestInv'
    <2>1. \A d \in Callers : caller'[d].pc = "dispatched" <=> caller[d].pc = "dispatched"
      BY <1>11 DEF SettleAdmission, At, Forget, IdleCaller, TypeOK, Caller
    <2>2. QED
      BY <1>11, <2>1, QuietRequestInv DEF SettleAdmission
  <1>12. ASSUME NEW s \in Sessions, Remove(s)
         PROVE  RequestInv'
    <2>1. \A d \in Callers : caller'[d].pc = "dispatched" <=> caller[d].pc = "dispatched"
      BY <1>12 DEF Remove, Forget, TypeOK, Caller
    <2>2. QED
      BY <1>12, <2>1, QuietRequestInv DEF Remove
  <1>13. CASE CloseAllClear
    <2>1. \A d \in Callers : caller'[d].pc = "dispatched" <=> caller[d].pc = "dispatched"
      BY <1>13 DEF CloseAllClear, Forget, TypeOK, Caller
    <2>2. QED
      BY <1>13, <2>1, QuietRequestInv DEF CloseAllClear
  <1>14. CASE StartupFinish
    <2>1. \A d \in Callers : caller'[d].pc = "dispatched" <=> caller[d].pc = "dispatched"
      BY <1>14 DEF StartupFinish, TypeOK, Caller
    <2>2. DrainInv'
      BY <1>14 DEF StartupFinish, NoStartup, DrainInv
    <2>3. QED
      BY <1>14, <2>1, <2>2, SameRequestInv DEF StartupFinish
  <1>15. CASE StartupDetach
    <2>1. startup'.old = startup.old
      BY <1>15 DEF StartupDetach, TypeOK, Startup
    <2>2. DrainInv'
      BY <1>15, <2>1 DEF StartupDetach, DrainInv, RequestInv, Cancelled, Dispatched
    <2>3. QED
      BY <1>15, <2>2, SameRequestInv DEF StartupDetach
  <1>16. CASE StartupCloseOld \/ StartupSpawn \/ StartupConnect \/ StartupPublish
    <2>1. startup'.phase \in {"spawn", "connect", "publish", "finish"}
      BY <1>16 DEF StartupCloseOld, StartupSpawn, StartupConnect, StartupPublish,
                   TypeOK, Startup
    <2>2. DrainInv'
      BY <2>1 DEF DrainInv
    <2>3. QED
      BY <1>16, <2>2, SameRequestInv
      DEF StartupCloseOld, StartupSpawn, StartupConnect, StartupPublish
  <1>17. CASE HealthFailure
    <2>1. CASE startup' = startup
      BY <1>17, <2>1, QuietRequestInv DEF HealthFailure
    <2>2. CASE StartDownstream(downstream \in live /\ activeRequests # 0)
      <3>1. activeRequests = 0 => Dispatched = {}
        BY DispatchedFinite, FS_EmptySet DEF RequestInv, ActiveRequestsExact
      <3>2. Dispatched' = Dispatched /\ live' = live
        BY <1>17 DEF HealthFailure, Dispatched
      <3>3. /\ startup'.old = downstream
            /\ startup'.drain = (downstream \in live /\ activeRequests # 0)
            /\ startup'.phase = "drain"
        BY <2>2 DEF StartDownstream
      <3>4. DrainInv'
        BY <3>1, <3>2, <3>3 DEF DrainInv
      <3>5. QED
        BY <1>17, <3>4, SameRequestInv DEF HealthFailure
    <2>3. QED
      BY <1>17, <2>1, <2>2 DEF HealthFailure
  <1>18. CASE \/ IdleTimerFires \/ ReapDownstream \/ HealthProbe \/ HealthStale
              \/ HealthSuccess \/ CloseAllCancel \/ CloseAllKill \/ CloseAllReturn
              \/ \E p \in Procs : ProcessExit(p)
              \/ \E S \in SUBSET Sessions : ReapExpiredSessions(S)
    <2>1. UNCHANGED <<caller, activeRequests, startup>> /\ live' \subseteq live
      BY <1>18
      DEF IdleTimerFires, ReapDownstream, HealthProbe, HealthStale, HealthSuccess,
          CloseAllCancel, CloseAllKill, CloseAllReturn, ProcessExit,
          ReapExpiredSessions
    <2>2. closer' = closer \/ closer' # "open"
      BY <1>18
      DEF IdleTimerFires, ReapDownstream, HealthProbe, HealthStale, HealthSuccess,
          CloseAllCancel, CloseAllKill, CloseAllReturn, ProcessExit,
          ReapExpiredSessions
    <2>3. QED
      BY <2>1, <2>2, QuietRequestInv
  <1>19. CASE UNCHANGED vars
    BY <1>19, QuietRequestInv DEF vars
  <1>20. QED
    BY <1>2, <1>3, <1>5, <1>6, <1>8, <1>9, <1>10, <1>11, <1>12, <1>13, <1>14,
       <1>15, <1>16, <1>17, <1>18, <1>19
    DEF Next, AdmissionStep, RequestStep, StartupStep, CloseAllStep, HealthStep,
        RemoveSession, RemoveExpired

LEMMA RequestInvariant == Spec => []RequestInv
  <1>1. QED
    BY InitRequestInv, StepRequestInv, TypeCorrect, PTL DEF Spec

(* activeRequests counts the dispatched calls exactly.                     *)
THEOREM ActiveRequests == Spec => []ActiveRequestsExact
  <1>1. RequestInv => ActiveRequestsExact
    BY DEF RequestInv
  <1>2. QED
    BY <1>1, RequestInvariant, PTL

(* Recovery never closes an answering process under a dispatched request.  *)
THEOREM DrainBeforeRecovery == Spec => []RecoveryDrainsFirst
  <1>1. RequestInv => RecoveryDrainsFirst
    BY DEF RequestInv, DrainInv, RecoveryDrainsFirst
  <1>2. QED
    BY <1>1, RequestInvariant, PTL

---------------------------------------------------------------------------
(* Admitted sessions have a downstream.                                    *)

(* A manager that looks ready and has nothing to dispatch into.            *)
Bare == ~Closed /\ ~Starting /\ ~spawnErr /\ downstream = None

OnlyTracked == \A s \in Sessions : sess[s].admitted => sess[s].tracked

(* A startup that has published leaves a downstream or its error.          *)
Finished == startup.phase = "finish" /\ ~Closed => downstream # None \/ spawnErr

(* Bare is the state before the first startup and after an idle reap: no   *)
(* admission has succeeded, and no call that holds a record has been told  *)
(* that there is a downstream.                                             *)
Told(c) == caller[c].holds /\ caller[c].res = "ok"

BareIdle == Bare => /\ \A s \in Sessions : ~sess[s].admitted
                    /\ \A c \in Callers : ~Told(c)

AdmitInv == OnlyTracked /\ Finished /\ BareIdle

LEMMA InitAdmitInv == Init => AdmitInv
  <1> SUFFICES ASSUME Init PROVE AdmitInv
    OBVIOUS
  <1>1. OnlyTracked /\ Finished
    BY DEF Init, OnlyTracked, Finished, Untracked, NoStartup
  <1>2. BareIdle
    BY DEF Init, BareIdle, Told, Untracked, IdleCaller
  <1>3. QED
    BY <1>1, <1>2 DEF AdmitInv

(* A step under refMu that admits only what a caller was told, and one     *)
(* under mu that tells a caller only when there is a downstream.           *)
LEMMA SameAdmitInv ==
  ASSUME AdmitInv, Bare' => Bare, Finished',
         \A s \in Sessions : sess'[s].admitted =>
            /\ sess'[s].tracked
            /\ sess[s].admitted \/ \E c \in Callers : Told(c),
         \A c \in Callers : Told(c)' => Told(c) \/ downstream # None
  PROVE  AdmitInv'
  <1>1. OnlyTracked'
    BY DEF OnlyTracked
  <1>2. BareIdle'
    BY DEF AdmitInv, BareIdle, Bare
  <1>3. QED
    BY <1>1, <1>2 DEF AdmitInv

(* The pointer, the error and the startup stay, or a startup is reserved,  *)
(* or the manager closes.                                                  *)
LEMMA SameReadiness ==
  ASSUME AdmitInv, Closed => Closed',
         \/ Closed'
         \/ /\ downstream' = downstream /\ spawnErr' = spawnErr
            /\ startup'.phase \in {startup.phase, "drain"}
  PROVE  (Bare' => Bare) /\ Finished'
  BY DEF AdmitInv, Bare, Finished, Starting

(* What RefInv and OnlyTracked say when nothing is referenced.             *)
LEMMA NothingReferenced ==
  ASSUME RefInv, AdmitInv, refCount = 0
  PROVE  /\ \A s \in Sessions : ~sess[s].admitted
         /\ \A c \in Callers : ~Told(c)
  <1>1. Tracked = {}
    BY TrackedFinite, FS_EmptySet DEF RefInv, RefCountExact
  <1>2. QED
    BY <1>1 DEF Tracked, RefInv, HoldersTracked, AdmitInv, OnlyTracked, Told

(* The steps of the request goroutines.                                    *)
LEMMA CallerAdmitInv ==
  ASSUME TypeOK, RefInv, AdmitInv, NEW c \in Callers,
         \/ \E s \in Sessions : GetOrCreateSession(c, s) \/ BeginRequest(c, s)
         \/ EnsureReady(c) \/ WaitCut(c) \/ RequestCancelled(c)
         \/ AdmissionStep(c) \/ RequestStep(c)
  PROVE  AdmitInv'
  <1> USE DEF muVars, sessionVars, requestVars, timerVars, closeVars
  <1>0. /\ sess \in [Sessions -> Session] /\ caller \in [Callers -> Caller]
        /\ startup \in Startup
    BY DEF TypeOK
  <1>1. ASSUME NEW r \in Caller, caller' = [caller EXCEPT ![c] = r],
               r.holds /\ r.res = "ok" => Told(c) \/ downstream # None
        PROVE  \A d \in Callers : Told(d)' => Told(d) \/ downstream # None
    BY <1>0, <1>1 DEF Told
  <1>2. ASSUME UNCHANGED <<downstream, spawnErr, startup, closer>>
        PROVE  (Bare' => Bare) /\ Finished'
    BY <1>2, SameReadiness DEF Closed
  <1>3. ASSUME sess' = sess \/ sess' = DropInFlight(c)
        PROVE  \A t \in Sessions : sess'[t].admitted => sess'[t].tracked /\ sess[t].admitted
    <2>1. \A t \in Sessions : /\ sess'[t].admitted = sess[t].admitted
                              /\ sess'[t].tracked = sess[t].tracked
      BY <1>0, <1>3 DEF DropInFlight, Session
    <2>2. QED
      BY <2>1 DEF AdmitInv, OnlyTracked
  <1>4. IdleCaller \in Caller /\ ~IdleCaller.holds
    BY RecordValues DEF IdleCaller
  <1>5. ASSUME NEW pc, NEW res, caller' = [caller EXCEPT ![c].pc = pc, ![c].res = res],
               res = "ok" => caller[c].res = "ok" \/ downstream # None
        PROVE  \A d \in Callers : Told(d)' => Told(d) \/ downstream # None
    <2>1. /\ caller'[c].holds = caller[c].holds /\ caller'[c].res = res
          /\ \A d \in Callers \ {c} : caller'[d] = caller[d]
      BY <1>0, <1>5 DEF Caller
    <2>2. QED
      BY <1>5, <2>1 DEF Told
  <1>6. CASE RefuseRequest(c)
    BY <1>1, <1>2, <1>3, <1>4, <1>6, SameAdmitInv DEF RefuseRequest
  <1>7. CASE \E s \in Sessions : GetOrCreateSession(c, s)
    <2>1. PICK s \in Sessions : GetOrCreateSession(c, s)
      BY <1>7
    <2>2. /\ sess'[s].tracked /\ sess'[s].admitted = sess[s].admitted
          /\ \A t \in Sessions \ {s} : sess'[t] = sess[t]
      BY <1>0, <2>1 DEF GetOrCreateSession, Session
    <2>3. \A t \in Sessions : sess'[t].admitted => sess'[t].tracked /\ sess[t].admitted
      BY <2>2 DEF AdmitInv, OnlyTracked
    <2>4. \A d \in Callers : Told(d)' => Told(d) \/ downstream # None
      BY <1>0, <2>1 DEF GetOrCreateSession, Told
    <2>5. QED
      BY <1>2, <2>1, <2>3, <2>4, SameAdmitInv DEF GetOrCreateSession
  <1>8. CASE \E s \in Sessions : BeginRequest(c, s)
    <2>1. PICK s \in Sessions : BeginRequest(c, s)
      BY <1>8
    <2>2. \A t \in Sessions : /\ sess'[t].admitted = sess[t].admitted
                              /\ sess'[t].tracked = sess[t].tracked
      BY <1>0, <2>1 DEF BeginRequest, Session
    <2>3. \A t \in Sessions : sess'[t].admitted => sess'[t].tracked /\ sess[t].admitted
      BY <2>2 DEF AdmitInv, OnlyTracked
    <2>4. \A d \in Callers : Told(d)' => Told(d) \/ downstream # None
      BY <1>0, <2>1 DEF BeginRequest, Told
    <2>5. QED
      BY <1>2, <2>1, <2>3, <2>4, SameAdmitInv DEF BeginRequest
  <1>9. CASE EnsureReady(c) \/ EnsureReadyReturn(c)
    <2>1. \A d \in Callers : Told(d)' => Told(d) \/ downstream # None
      <3> DEFINE r == [IdleCaller EXCEPT !.op = "ready", !.pc = "lookup"]
      <3>1. caller' = [caller EXCEPT ![c] = r] \/ caller' = [caller EXCEPT ![c] = IdleCaller]
        BY <1>9 DEF EnsureReady, EnsureReadyReturn
      <3>2. r \in Caller /\ ~r.holds
        BY DEF IdleCaller, Caller
      <3> HIDE DEF r
      <3>3. QED
        BY <1>1, <1>4, <3>1, <3>2
    <2>2. UNCHANGED <<downstream, spawnErr, startup, closer, sess>>
      BY <1>9 DEF EnsureReady, EnsureReadyReturn
    <2>3. QED
      BY <1>2, <1>3, <2>1, <2>2, SameAdmitInv
  <1>10. CASE WaitCut(c) \/ StartupDone(c)
    <2>1. \A d \in Callers : Told(d)' => Told(d) \/ downstream # None
      BY <1>5, <1>10 DEF WaitCut, StartupDone, Return
    <2>2. UNCHANGED <<downstream, spawnErr, startup, closer, sess>>
      BY <1>10 DEF WaitCut, StartupDone
    <2>3. QED
      BY <1>2, <1>3, <2>1, <2>2, SameAdmitInv
  <1>11. CASE Lookup(c)
    <2>1. UNCHANGED <<downstream, spawnErr, closer, sess>>
          /\ (startup' = startup \/ startup'.phase = "drain")
      BY <1>11 DEF Lookup, StartDownstream
    <2>2. (Bare' => Bare) /\ Finished'
      BY <2>1, SameReadiness DEF Closed
    <2>3. downstream \in live => downstream # None
      BY ConstantsAssumption DEF TypeOK
    <2>4. \A d \in Callers : Told(d)' => Told(d) \/ downstream # None
      <3>1. CASE Goto(c, "wait")
        BY <1>5, <3>1 DEF Goto
      <3>2. CASE Return(c, "err")
        BY <1>5, <3>2 DEF Return
      <3>3. CASE Return(c, "ok") /\ downstream # None
        BY <1>5, <3>3 DEF Return
      <3>4. QED
        BY <1>11, <2>3, <3>1, <3>2, <3>3 DEF Lookup
    <2>5. QED
      BY <1>3, <2>1, <2>2, <2>4, SameAdmitInv
  <1>12. CASE SettleAdmission(c)
    <2> DEFINE s == caller[c].s
    <2>1. \A d \in Callers : Told(d)' => Told(d)
      BY <1>0, <1>12 DEF SettleAdmission, Forget, IdleCaller, Told, Caller
    <2>2. \/ sess' = sess
          \/ caller[c].holds /\ sess' = [sess EXCEPT ![s] = Untracked]
          \/ /\ caller[c].holds
             /\ sess' = [sess EXCEPT ![s].pending = @ - 1,
                                     ![s].admitted = @ \/ caller[c].res = "ok"]
      BY <1>12 DEF SettleAdmission
    <2>3. caller[c].holds => s \in Sessions /\ sess[s].tracked
      BY DEF RefInv, HoldersTracked
    <2>4. \A t \in Sessions : sess'[t].admitted =>
            sess'[t].tracked /\ (sess[t].admitted \/ Told(c))
      <3>1. CASE sess' = sess
        BY <3>1 DEF AdmitInv, OnlyTracked
      <3>2. CASE sess' = [sess EXCEPT ![s] = Untracked]
        BY <1>0, <3>2 DEF AdmitInv, OnlyTracked, Untracked
      <3>3. CASE /\ caller[c].holds
                 /\ sess' = [sess EXCEPT ![s].pending = @ - 1,
                                         ![s].admitted = @ \/ caller[c].res = "ok"]
        <4>1. /\ sess'[s].tracked
              /\ sess'[s].admitted => sess[s].admitted \/ Told(c)
              /\ \A t \in Sessions \ {s} : sess'[t] = sess[t]
          BY <1>0, <2>3, <3>3 DEF Session, Told
        <4>2. QED
          BY <4>1 DEF AdmitInv, OnlyTracked
      <3>4. QED
        BY <2>2, <3>1, <3>2, <3>3
    <2>5. QED
      BY <1>2, <1>12, <2>1, <2>4, SameAdmitInv DEF SettleAdmission
  <1>13. CASE RequestGate(c) /\ ~RefuseRequest(c)
    <2>1. \A d \in Callers : Told(d)' => Told(d) \/ downstream # None
      BY <1>5, <1>13 DEF RequestGate, Goto
    <2>2. UNCHANGED <<downstream, spawnErr, startup, closer, sess>>
      BY <1>13 DEF RequestGate
    <2>3. QED
      BY <1>2, <1>3, <2>1, <2>2, SameAdmitInv
  <1>14. CASE RequestReturned(c) /\ ~RefuseRequest(c)
    <2>1. \A d \in Callers : Told(d)' => Told(d) \/ downstream # None
      BY <1>5, <1>14 DEF RequestReturned, Goto
    <2>2. UNCHANGED <<downstream, spawnErr, startup, closer, sess>>
      BY <1>14 DEF RequestReturned
    <2>3. QED
      BY <1>2, <1>3, <2>1, <2>2, SameAdmitInv
  <1>15. CASE EndRequest(c)
    <2>1. UNCHANGED <<downstream, spawnErr, closer>> /\ startup'.phase = startup.phase
      BY <1>0, <1>15 DEF EndRequest, Startup
    <2>2. (Bare' => Bare) /\ Finished'
      BY <2>1, SameReadiness DEF Closed
    <2>3. \A d \in Callers : Told(d)' => Told(d) \/ downstream # None
      BY <1>1, <1>4, <1>15 DEF EndRequest
    <2>4. QED
      BY <1>3, <1>15, <2>2, <2>3, SameAdmitInv DEF EndRequest
  <1>16. QED
    BY <1>6, <1>7, <1>8, <1>9, <1>10, <1>11, <1>12, <1>13, <1>14, <1>15
    DEF AdmissionStep, RequestStep, RequestCancelled

LEMMA StepAdmitInv == TypeOK /\ RefInv /\ AdmitInv /\ [Next]_vars => AdmitInv'
  <1> SUFFICES ASSUME TypeOK, RefInv, AdmitInv, [Next]_vars PROVE AdmitInv'
    OBVIOUS
  <1> USE DEF muVars, sessionVars, requestVars, timerVars, closeVars
  <1>0. /\ sess \in [Sessions -> Session] /\ caller \in [Callers -> Caller]
        /\ startup \in Startup
    BY DEF TypeOK
  <1>1. ASSUME UNCHANGED <<sess, caller>>, Bare' => Bare, Finished'
        PROVE  AdmitInv'
    BY <1>1, SameAdmitInv DEF AdmitInv, OnlyTracked, Told
  <1>2. ASSUME NEW s \in Sessions, Remove(s)
        PROVE  AdmitInv'
    <2>1. \A t \in Sessions : sess'[t].admitted => sess'[t].tracked /\ sess[t].admitted
      BY <1>0, <1>2 DEF Remove, Untracked, AdmitInv, OnlyTracked
    <2>2. \A d \in Callers : Told(d)' => Told(d)
      BY <1>0, <1>2 DEF Remove, Forget, Told, Caller
    <2>3. (Bare' => Bare) /\ Finished'
      BY <1>2, SameReadiness DEF Remove, Closed
    <2>4. QED
      BY <2>1, <2>2, <2>3, SameAdmitInv
  <1>3. ASSUME NEW S \in SUBSET Sessions, ReapExpiredSessions(S)
        PROVE  AdmitInv'
    <2>1. \A t \in Sessions : /\ sess'[t].admitted = sess[t].admitted
                              /\ sess'[t].tracked = sess[t].tracked
      BY <1>0, <1>3 DEF ReapExpiredSessions, Session
    <2>2. (Bare' => Bare) /\ Finished'
      BY <1>3, SameReadiness DEF ReapExpiredSessions, Closed
    <2>3. QED
      BY <1>3, <2>1, <2>2, SameAdmitInv DEF ReapExpiredSessions, Told, AdmitInv, OnlyTracked
  <1>4. CASE StartupDetach \/ StartupCloseOld \/ StartupSpawn \/ StartupConnect
    <2>1. startup'.phase \in {"close", "spawn", "connect", "publish"}
      BY <1>0, <1>4
      DEF StartupDetach, StartupCloseOld, StartupSpawn, StartupConnect, Startup
    <2>2. (Bare' => Bare) /\ Finished'
      BY <2>1 DEF Bare, Finished, Starting
    <2>3. QED
      BY <1>1, <1>4, <2>2 DEF StartupDetach, StartupCloseOld, StartupSpawn, StartupConnect
  <1>5. CASE StartupPublish
    <2>1. startup'.phase = "finish" /\ closer' = closer
      BY <1>0, <1>5 DEF StartupPublish, Startup
    <2>2. ~Closed => downstream' # None \/ spawnErr'
      BY <1>5 DEF StartupPublish
    <2>3. (Bare' => Bare) /\ Finished'
      BY <2>1, <2>2 DEF Bare, Finished, Starting, Closed
    <2>4. QED
      BY <1>1, <1>5, <2>3 DEF StartupPublish
  <1>6. CASE StartupFinish
    <2>1. /\ ~Closed => downstream # None \/ spawnErr
          /\ startup'.phase = "none" /\ UNCHANGED <<downstream, spawnErr, closer, sess>>
      BY <1>6 DEF StartupFinish, AdmitInv, Finished, NoStartup
    <2>2. ~Bare' /\ Finished'
      BY <2>1 DEF Bare, Finished, Closed
    <2>3. OnlyTracked' /\ BareIdle'
      BY <2>1, <2>2 DEF AdmitInv, OnlyTracked, BareIdle
    <2>4. QED
      BY <2>2, <2>3 DEF AdmitInv
  <1>7. CASE ReapDownstream
    <2>1. CASE UNCHANGED <<downstream, spawnErr>>
      <3>1. (Bare' => Bare) /\ Finished'
        BY <1>7, <2>1, SameReadiness DEF ReapDownstream, Closed
      <3>2. QED
        BY <1>1, <1>7, <3>1 DEF ReapDownstream
    <2>2. CASE refCount = 0 /\ ~Starting
      <3>1. /\ \A s \in Sessions : ~sess[s].admitted
            /\ \A c \in Callers : ~Told(c)
        BY <2>2, NothingReferenced
      <3>2. UNCHANGED <<sess, caller, startup>>
        BY <1>7 DEF ReapDownstream
      <3>3. QED
        BY <2>2, <3>1, <3>2
        DEF AdmitInv, OnlyTracked, Finished, BareIdle, Told, Starting
    <2>3. QED
      BY <1>7, <2>1, <2>2 DEF ReapDownstream
  <1>8. CASE HealthFailure
    <2>1. startup'.phase \in {startup.phase, "drain"}
      BY <1>8 DEF HealthFailure, StartDownstream
    <2>2. (Bare' => Bare) /\ Finished'
      BY <1>8, <2>1, SameReadiness DEF HealthFailure, Closed
    <2>3. QED
      BY <1>1, <1>8, <2>2 DEF HealthFailure
  <1>9. CASE CloseAllClear
    <2>1. Closed' /\ \A s \in Sessions : ~sess'[s].admitted
      BY <1>9 DEF CloseAllClear, Closed, Untracked
    <2>2. QED
      BY <2>1 DEF AdmitInv, OnlyTracked, Finished, BareIdle, Bare
  <1>10. CASE \/ IdleTimerFires \/ HealthProbe \/ HealthStale \/ HealthSuccess
              \/ CloseAllCancel \/ CloseAllKill \/ CloseAllReturn
              \/ \E p \in Procs : ProcessExit(p)
              \/ UNCHANGED vars
    <2>1. UNCHANGED <<downstream, spawnErr, startup, sess, caller>> /\ (Closed <=> Closed')
      BY <1>10
      DEF IdleTimerFires, HealthProbe, HealthStale, HealthSuccess, CloseAllCancel,
          CloseAllKill, CloseAllReturn, ProcessExit, vars, Closed
    <2>2. (Bare' => Bare) /\ Finished'
      BY <2>1, SameReadiness
    <2>3. QED
      BY <1>1, <2>1, <2>2
  <1>11. QED
    BY <1>2, <1>3, <1>4, <1>5, <1>6, <1>7, <1>8, <1>9, <1>10, CallerAdmitInv
    DEF Next, StartupStep, CloseAllStep, HealthStep, RemoveSession, RemoveExpired

(* A session whose admission succeeded never meets a manager that looks    *)
(* ready and has no downstream, through every interleaving of startups,    *)
(* idle reaps, recoveries and CloseAll.                                    *)
THEOREM AdmittedHasDownstream == Spec => []AdmittedSessionHasDownstream
  <1>1. AdmitInv => AdmittedSessionHasDownstream
    BY DEF AdmitInv, BareIdle, Bare, AdmittedSessionHasDownstream
  <1>2. QED
    BY <1>1, InitAdmitInv, StepAdmitInv, InitRefInv, StepRefInv, TypeCorrect, PTL DEF Spec
=============================================================================
