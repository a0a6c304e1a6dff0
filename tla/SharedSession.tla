--------------------------- MODULE SharedSession ---------------------------
(***************************************************************************)
(* SharedSessionManager (src/internal/session/shared.go): one downstream   *)
(* subprocess shared by every upstream session of a stateless MCP server.  *)
(*                                                                         *)
(* The manager has two locks.  mu guards the downstream pointer and the    *)
(* single-flight startup; refMu guards the session table, the counters and *)
(* the idle timer.  One action is one critical section, so everything that *)
(* happens between two sections of the same goroutine is interleaved with  *)
(* every other goroutine: request handlers (Callers), the startup          *)
(* goroutine, the health probe, the expiry reaper, the idle timer and      *)
(* CloseAll.                                                               *)
(*                                                                         *)
(* A process is an element of Procs: it is in `live' from the moment the   *)
(* command is started until its transport is known to be closed, so        *)
(* channelClosed(downstreamDone) reads "downstream \notin live".  Time is  *)
(* abstracted: a deadline, a timer or an idle period may end at any step.  *)
(***************************************************************************)
EXTENDS Integers, FiniteSets

CONSTANTS
  Sessions,         \* upstream session ids
  Callers,          \* goroutines that run GetOrCreateSession, EnsureReady, BeginRequest
  Procs,            \* subprocess identities; one that nobody refers to is used again
  MaxSessions,      \* config.MaxSessions, 0 for no limit
  IdleReap,         \* idleTimeout > 0
  HealthThreshold,  \* maxConsecutiveHealthCheckTimeouts
  MaxCallbacks,     \* bound of the model: idle callbacks fired and not yet run
  None              \* nil

ASSUME ConstantsAssumption ==
  /\ IsFiniteSet(Sessions)
  /\ IsFiniteSet(Callers)
  /\ None \notin Procs \cup Sessions
  /\ MaxSessions \in Nat
  /\ IdleReap \in BOOLEAN
  /\ HealthThreshold \in Nat \ {0}
  /\ MaxCallbacks \in Nat \ {0}

VARIABLES
  \* guarded by mu
  downstream,       \* the published process, or None
  spawnErr,         \* the last startup failed
  failures,         \* healthCheckFailures
  startup,          \* the startup goroutine; phase "none" is starting = nil
  \* guarded by refMu
  sess,             \* upstreamSessions and sessions
  refCount,
  activeRequests,
  requestsDrained,  \* the drain channel exists and is open
  idleTimer,        \* "nil", "armed", or "fired": spent but still stored
  callbacks,        \* reapDownstream callbacks fired and not yet run
  \* goroutines and the outside world
  caller,           \* local state of each request goroutine
  health,           \* local state of the health probe
  closer,           \* progress of CloseAll
  closeDs,          \* the process CloseAll captured
  live              \* processes whose transport is open

muVars      == <<downstream, spawnErr, failures, startup>>
sessionVars == <<sess, refCount>>
requestVars == <<activeRequests, requestsDrained>>
timerVars   == <<idleTimer, callbacks>>
closeVars   == <<closer, closeDs>>
vars == <<muVars, sessionVars, requestVars, timerVars, caller, health,
          closeVars, live>>

---------------------------------------------------------------------------
Session == [tracked: BOOLEAN, pending: Int, inFlight: Int,
            expiring: BOOLEAN, admitted: BOOLEAN]
Untracked == [tracked |-> FALSE, pending |-> 0, inFlight |-> 0,
              expiring |-> FALSE, admitted |-> FALSE]

(* drain: the goroutine still has to wait for requestsDrained.             *)
Startup == [phase: {"none", "drain", "close", "spawn", "connect",
                    "publish", "finish"},
            old: Procs \cup {None}, ds: Procs \cup {None}, drain: BOOLEAN]
NoStartup == [phase |-> "none", old |-> None, ds |-> None, drain |-> FALSE]

(* holds: `tracked' is still the record sessions[s] points to.             *)
Caller == [op: {"none", "admit", "ready", "request"},
           pc: {"idle", "lookup", "wait", "returned", "gate", "dispatched"},
           s: Sessions \cup {None}, holds: BOOLEAN,
           res: {"none", "ok", "err"}]
IdleCaller == [op |-> "none", pc |-> "idle", s |-> None, holds |-> FALSE,
               res |-> "none"]

Closed     == closer \in {"killing", "waiting", "done"}
Cancelled  == closer # "open"           \* lifetimeCtx is done
MuToTheEnd == closer \notin {"cancelling", "killing", "waiting"}  \* mutant: CloseAll unlocks last
MuFree     == closer # "cancelling"     \* CloseAll keeps mu from cancel to clear
Starting   == startup.phase # "none"
TransportClosed == downstream # None /\ downstream \notin live
Tracked    == {s \in Sessions : sess[s].tracked}
Dispatched == {c \in Callers : caller[c].pc = "dispatched"}
Referenced == {downstream, startup.old, startup.ds, health.ds, closeDs}

Init ==
  /\ downstream = None /\ spawnErr = FALSE /\ failures = 0
  /\ startup = NoStartup
  /\ sess = [s \in Sessions |-> Untracked] /\ refCount = 0
  /\ activeRequests = 0 /\ requestsDrained = FALSE
  /\ idleTimer = "nil" /\ callbacks = 0
  /\ caller = [c \in Callers |-> IdleCaller]
  /\ health = [phase |-> "idle", ds |-> None]
  /\ closer = "open" /\ closeDs = None
  /\ live = {}

---------------------------------------------------------------------------
(* Helpers shared by the operations.                                       *)

(* Mutant: a timer that has fired is still stored, so it is not replaced.   *)
ArmIfNil(refs, timer) ==
  IF refs = 0 /\ IdleReap /\ ~Closed /\ timer = "nil" THEN "armed" ELSE timer

(* armIdleTimerLocked, evaluated on the values the section has written:    *)
(* refs and timer are the reference count and idle timer so far.           *)
ArmIdleTimer(refs, timer) ==
  IF refs = 0 /\ IdleReap /\ ~Closed THEN "armed" ELSE timer

(* Mutant: recovery does not wait for dispatched requests.                  *)
StartWithoutDrain(drain) ==
  /\ startup' = [phase |-> "drain", old |-> downstream, ds |-> None,
                 drain |-> FALSE]
  /\ failures' = 0

(* startDownstreamLocked: reserve the replacement; the goroutine is the    *)
(* Startup actions below.                                                  *)
StartDownstream(drain) ==
  /\ startup' = [phase |-> "drain", old |-> downstream, ds |-> None,
                 drain |-> drain]
  /\ failures' = 0

(* After a removal nobody's `tracked' is the record in the table.          *)
Forget(S) == [c \in Callers |->
                IF caller[c].s \in S THEN [caller[c] EXCEPT !.holds = FALSE]
                                     ELSE caller[c]]

At(c, op, pc) == caller[c].op = op /\ caller[c].pc = pc
Goto(c, pc)   == caller' = [caller EXCEPT ![c].pc = pc, ![c].res = "none"]
Return(c, r)  == caller' = [caller EXCEPT ![c].pc = "returned", ![c].res = r]

(* The release function of BeginRequest before the request is counted in   *)
(* activeRequests: its in-flight mark goes, on the record it was put on.   *)
DropInFlight(c) ==
  IF caller[c].holds
  THEN [sess EXCEPT ![caller[c].s].inFlight = @ - 1]
  ELSE sess

RefuseRequest(c) ==
  /\ sess' = DropInFlight(c)
  /\ caller' = [caller EXCEPT ![c] = IdleCaller]
  /\ UNCHANGED <<muVars, refCount, requestVars, timerVars, health, closeVars, live>>

---------------------------------------------------------------------------
(* GetOrCreateSession, EnsureReady and getOrCreateDownstream.              *)

(* First refMu section of GetOrCreateSession: admission check, tracking,   *)
(* idle timer cancelled.  A refused call changes nothing.  An id that is   *)
(* not tracked has the Untracked record, so marking it is creating it.     *)
GetOrCreateSession(c, s) ==
  /\ caller[c].pc = "idle" /\ ~Closed
  /\ sess[s].tracked \/ MaxSessions = 0 \/ refCount < MaxSessions
  /\ sess' = [sess EXCEPT ![s].tracked = TRUE, ![s].pending = @ + 1]
  /\ refCount' = IF sess[s].tracked THEN refCount ELSE refCount + 1
  /\ idleTimer' = "nil"
  /\ caller' = [caller EXCEPT ![c] = [op |-> "admit", pc |-> "lookup", s |-> s,
                                      holds |-> TRUE, res |-> "none"]]
  /\ UNCHANGED <<muVars, requestVars, callbacks, health, closeVars, live>>

EnsureReady(c) ==
  /\ caller[c].pc = "idle"
  /\ caller' = [caller EXCEPT ![c] = [IdleCaller EXCEPT !.op = "ready",
                                                        !.pc = "lookup"]]
  /\ UNCHANGED <<muVars, sessionVars, requestVars, timerVars, health, closeVars, live>>

(* The mu section of getOrCreateDownstream.                                *)
Lookup(c) ==
  /\ caller[c].pc = "lookup" /\ MuFree
  /\ \/ /\ Closed
        /\ Return(c, "err")
        /\ UNCHANGED muVars
     \/ /\ ~Closed /\ ~Starting /\ downstream \in live
        /\ Return(c, "ok")
        /\ UNCHANGED muVars
     \/ /\ ~Closed /\ ~Starting /\ downstream \notin live
        /\ StartDownstream(FALSE)
        /\ Goto(c, "wait")
        /\ UNCHANGED <<downstream, spawnErr>>
     \/ /\ ~Closed /\ Starting
        /\ Goto(c, "wait")
        /\ UNCHANGED muVars
  /\ UNCHANGED <<sessionVars, requestVars, timerVars, health, closeVars, live>>

(* waitForStartup: the startup is done, or the caller's context or the     *)
(* manager's lifetime ended first (select takes any ready case).           *)
StartupDoneOk(c) ==            \* mutant: only success is handed to waiters
  /\ caller[c].pc = "wait" /\ caller[c].res = "ok"
  /\ Return(c, caller[c].res)
  /\ UNCHANGED <<muVars, sessionVars, requestVars, timerVars, health, closeVars, live>>

StartupDone(c) ==
  /\ caller[c].pc = "wait" /\ caller[c].res # "none"
  /\ Return(c, caller[c].res)
  /\ UNCHANGED <<muVars, sessionVars, requestVars, timerVars, health, closeVars, live>>

WaitCut(c) ==
  /\ caller[c].pc = "wait"
  /\ Return(c, "err")
  /\ UNCHANGED <<muVars, sessionVars, requestVars, timerVars, health, closeVars, live>>

(* Second refMu section of GetOrCreateSession: settle the admission on the *)
(* record this call tracked, or roll it back when nobody else uses it.     *)
SettleAdmission(c) ==
  LET s == caller[c].s
      last == ~sess[s].admitted /\ sess[s].pending = 1
      rollback == caller[c].holds /\ caller[c].res = "err" /\ last
  IN
  /\ At(c, "admit", "returned")
  /\ sess' = IF ~caller[c].holds THEN sess
             ELSE IF rollback THEN [sess EXCEPT ![s] = Untracked]
             ELSE [sess EXCEPT ![s].pending = @ - 1,
                               ![s].admitted = @ \/ caller[c].res = "ok"]
  /\ refCount' = IF rollback THEN refCount - 1 ELSE refCount
  /\ idleTimer' = IF rollback THEN ArmIdleTimer(refCount', idleTimer) ELSE idleTimer
  /\ caller' = [(IF rollback THEN Forget({s}) ELSE caller) EXCEPT ![c] = IdleCaller]
  /\ UNCHANGED <<muVars, requestVars, callbacks, health, closeVars, live>>

EnsureReadyReturn(c) ==
  /\ At(c, "ready", "returned")
  /\ caller' = [caller EXCEPT ![c] = IdleCaller]
  /\ UNCHANGED <<muVars, sessionVars, requestVars, timerVars, health, closeVars, live>>

---------------------------------------------------------------------------
(* The startup goroutine of startDownstreamLocked.                         *)

(* Drain (drained, old transport closed, or lifetime over), then detach    *)
(* the old process under mu.                                               *)
StartupDetach ==
  /\ startup.phase = "drain" /\ MuFree
  /\ startup.drain => startup.old \notin live \/ Cancelled
  /\ downstream' = None
  /\ startup' = [startup EXCEPT !.phase = "close", !.drain = FALSE]
  /\ UNCHANGED <<spawnErr, failures, sessionVars, requestVars, timerVars,
                 caller, health, closeVars, live>>

StartupForgetOld ==            \* mutant: the old process is not closed
  /\ startup.phase = "close"
  /\ startup' = [startup EXCEPT !.phase = "spawn", !.old = None]
  /\ UNCHANGED <<downstream, spawnErr, failures, sessionVars, requestVars,
                 timerVars, caller, health, closeVars, live>>

StartupCloseOld ==
  /\ startup.phase = "close"
  /\ live' = live \ {startup.old}
  /\ startup' = [startup EXCEPT !.phase = "spawn", !.old = None]
  /\ UNCHANGED <<downstream, spawnErr, failures, sessionVars, requestVars,
                 timerVars, caller, health, closeVars>>

(* spawn: nothing is started once the lifetime is over or when the command *)
(* cannot be built; otherwise the process exists before Connect returns.   *)
StartupSpawn ==
  /\ startup.phase = "spawn"
  /\ \/ /\ startup' = [startup EXCEPT !.phase = "publish"]
        /\ UNCHANGED live
     \/ /\ ~Cancelled
        /\ \E p \in Procs \ (live \cup Referenced) :
             /\ live' = live \cup {p}
             /\ startup' = [startup EXCEPT !.phase = "connect", !.ds = p]
  /\ UNCHANGED <<downstream, spawnErr, failures, sessionVars, requestVars,
                 timerVars, caller, health, closeVars>>

(* client.Connect succeeds, or fails (handshake error, 15s deadline,       *)
(* lifetime) and takes the subprocess down with it.                        *)
StartupConnectLeaks ==         \* mutant: a failed handshake leaves the process
  /\ startup.phase = "connect"
  /\ \/ startup' = [startup EXCEPT !.phase = "publish"]
     \/ startup' = [startup EXCEPT !.phase = "publish", !.ds = None]
  /\ UNCHANGED <<downstream, spawnErr, failures, sessionVars, requestVars,
                 timerVars, caller, health, closeVars, live>>

StartupConnect ==
  /\ startup.phase = "connect"
  /\ \/ /\ startup' = [startup EXCEPT !.phase = "publish"]
        /\ UNCHANGED live
     \/ /\ startup' = [startup EXCEPT !.phase = "publish", !.ds = None]
        /\ live' = live \ {startup.ds}
  /\ UNCHANGED <<downstream, spawnErr, failures, sessionVars, requestVars,
                 timerVars, caller, health, closeVars>>

(* Publish under mu, unless CloseAll came first: then the new process is   *)
(* closed here, because CloseAll cannot know it.                           *)
StartupPublishQuiet ==         \* mutant: a failed spawn is not recorded
  /\ startup.phase = "publish" /\ MuFree
  /\ live' = IF Closed THEN live \ {startup.ds} ELSE live
  /\ downstream' = IF ~Closed /\ startup.ds # None THEN startup.ds ELSE downstream
  /\ startup' = [startup EXCEPT !.phase = "finish"]
  /\ UNCHANGED <<spawnErr, failures, sessionVars, requestVars, timerVars,
                 caller, health, closeVars>>

StartupPublish ==
  /\ startup.phase = "publish" /\ MuFree
  /\ \/ /\ Closed
        /\ live' = live \ {startup.ds}
        /\ startup' = [startup EXCEPT !.phase = "finish", !.ds = None]
        /\ UNCHANGED <<downstream, spawnErr>>
     \/ /\ ~Closed
        /\ downstream' = IF startup.ds # None THEN startup.ds ELSE downstream
        /\ spawnErr' = (startup.ds = None)
        /\ startup' = [startup EXCEPT !.phase = "finish"]
        /\ UNCHANGED live
  /\ UNCHANGED <<failures, sessionVars, requestVars, timerVars, caller,
                 health, closeVars>>

(* After the OnRespawn callbacks: hand the result to every waiter, clear   *)
(* starting and arm the idle timer in the same mu section.                 *)
StartupFinish ==
  LET ok == ~Closed /\ startup.ds # None IN
  /\ startup.phase = "finish" /\ MuFree
  /\ startup' = NoStartup
  /\ caller' = [c \in Callers |->
                  IF caller[c].pc = "wait" /\ caller[c].res = "none"
                  THEN [caller[c] EXCEPT !.res = IF ok THEN "ok" ELSE "err"]
                  ELSE caller[c]]
  /\ idleTimer' = ArmIdleTimer(refCount, idleTimer)
  /\ health' = IF health.phase = "waiting" THEN [phase |-> "idle", ds |-> None]
                                           ELSE health
  /\ UNCHANGED <<downstream, spawnErr, failures, sessionVars, requestVars,
                 callbacks, closeVars, live>>

---------------------------------------------------------------------------
(* BeginRequest and the release function it returns.                       *)

BeginRequest(c, s) ==
  /\ caller[c].pc = "idle" /\ ~Closed
  /\ sess[s].tracked /\ ~sess[s].expiring
  /\ sess' = [sess EXCEPT ![s].inFlight = @ + 1]
  /\ caller' = [caller EXCEPT ![c] = [op |-> "request", pc |-> "gate", s |-> s,
                                      holds |-> TRUE, res |-> "none"]]
  /\ UNCHANGED <<muVars, refCount, requestVars, timerVars, health, closeVars, live>>

(* One turn of the readiness loop, under mu.RLock: refused when closed,    *)
(* wait for a reserved startup, respawn a failed or closed downstream, or  *)
(* recheck the session under refMu and dispatch.                           *)
RequestGate(c) ==
  /\ caller[c].pc = "gate" /\ MuFree
  /\ LET ready == ~Closed /\ ~Starting /\ ~spawnErr /\ ~TransportClosed
         valid == caller[c].holds /\ ~sess[caller[c].s].expiring
     IN \/ /\ Closed \/ (ready /\ ~valid)
           /\ RefuseRequest(c)
        \/ /\ ~Closed /\ Starting
           /\ Goto(c, "wait")
           /\ UNCHANGED <<muVars, sessionVars, requestVars, timerVars, health, closeVars, live>>
        \/ /\ ~Closed /\ ~Starting
           /\ spawnErr \/ TransportClosed
           /\ Goto(c, "lookup")
           /\ UNCHANGED <<muVars, sessionVars, requestVars, timerVars, health, closeVars, live>>
        \/ /\ ready /\ valid
           /\ activeRequests' = activeRequests + 1
           /\ Goto(c, "dispatched")
           /\ UNCHANGED <<muVars, sessionVars, requestsDrained, timerVars,
                          health, closeVars, live>>

(* The request's context ended while it was queued.                        *)
CancelAnyRequest(c) ==         \* mutant: a dispatched request is not uncounted
  /\ caller[c].pc \in {"gate", "dispatched"}
  /\ RefuseRequest(c)

RequestCancelled(c) ==
  /\ caller[c].pc = "gate"
  /\ RefuseRequest(c)

RequestReturned(c) ==
  /\ At(c, "request", "returned")
  /\ \/ /\ caller[c].res = "err"
        /\ RefuseRequest(c)
     \/ /\ caller[c].res = "ok"
        /\ Goto(c, "gate")
        /\ UNCHANGED <<muVars, sessionVars, requestVars, timerVars, health, closeVars, live>>

(* release of a dispatched request; the last one closes requestsDrained,   *)
(* the channel a draining startup selects on.                              *)
EndRequest(c) ==
  LET drained == activeRequests = 1 /\ requestsDrained IN
  /\ caller[c].pc = "dispatched"
  /\ sess' = DropInFlight(c)
  /\ activeRequests' = activeRequests - 1
  /\ requestsDrained' = (requestsDrained /\ ~drained)
  /\ startup' = IF drained THEN [startup EXCEPT !.drain = FALSE] ELSE startup
  /\ caller' = [caller EXCEPT ![c] = IdleCaller]
  /\ UNCHANGED <<downstream, spawnErr, failures, refCount, timerVars, health,
                 closeVars, live>>

---------------------------------------------------------------------------
(* RemoveSession, the expiry reaper and the idle reap.                     *)

Remove(s) ==
  /\ sess' = [sess EXCEPT ![s] = Untracked]
  /\ refCount' = refCount - 1
  /\ idleTimer' = ArmIdleTimer(refCount', idleTimer)
  /\ caller' = Forget({s})
  /\ UNCHANGED <<muVars, requestVars, callbacks, health, closeVars, live>>

RemoveTwice(s)   == Remove(s)  \* mutant: an id that is already gone
RemoveSession(s) == sess[s].tracked /\ Remove(s)

(* reapExpiredSessions: sessions idle past session_timeout are marked in   *)
(* one refMu section; a session with a request in flight is never marked.  *)
ReapExpiredSessions(S) ==
  /\ S # {} /\ ~Closed
  /\ \A s \in S : /\ sess[s].tracked /\ ~sess[s].expiring
                  /\ sess[s].inFlight = 0
  /\ sess' = [s \in Sessions |-> IF s \in S THEN [sess[s] EXCEPT !.expiring = TRUE]
                                            ELSE sess[s]]
  /\ UNCHANGED <<muVars, refCount, requestVars, timerVars, caller, health, closeVars, live>>

(* The expiry callback ends every marked session with RemoveSession.       *)
RemoveExpired(s) == sess[s].tracked /\ sess[s].expiring /\ Remove(s)

IdleTimerFires ==
  /\ idleTimer = "armed" /\ callbacks < MaxCallbacks
  /\ idleTimer' = "fired"
  /\ callbacks' = callbacks + 1
  /\ UNCHANGED <<muVars, sessionVars, requestVars, caller, health, closeVars, live>>

(* reapDownstream, under both locks to the end of Close.                   *)
ReapDownstream ==
  /\ callbacks > 0 /\ MuFree
  /\ callbacks' = callbacks - 1
  /\ \/ /\ refCount # 0 \/ Closed
        /\ UNCHANGED <<downstream, spawnErr, idleTimer, live>>
     \/ /\ refCount = 0 /\ ~Closed
        /\ Starting \/ activeRequests # 0
        /\ idleTimer' = ArmIdleTimer(refCount, idleTimer)
        /\ UNCHANGED <<downstream, spawnErr, live>>
     \/ /\ refCount = 0 /\ ~Closed
        /\ ~Starting /\ activeRequests = 0
        /\ idleTimer' = "nil"
        /\ spawnErr' = FALSE
        /\ downstream' = None
        /\ live' = live \ {downstream}
  /\ UNCHANGED <<failures, startup, sessionVars, requestVars, caller, health, closeVars>>

---------------------------------------------------------------------------
(* healthCheck: one probe at a time (probeMu).                             *)

HealthProbe ==
  /\ health.phase = "idle" /\ ~Cancelled
  /\ downstream # None /\ ~Starting
  /\ health' = [phase |-> "probing", ds |-> downstream]
  /\ UNCHANGED <<muVars, sessionVars, requestVars, timerVars, caller, closeVars, live>>

ThresholdReached == failures + 1 >= HealthThreshold

HealthDone == health' = [phase |-> "idle", ds |-> None]

(* The answer is dropped when the manager is closing or the process it is  *)
(* about is no longer the published one.                                   *)
HealthStale ==
  /\ health.phase = "probing" /\ MuFree
  /\ Cancelled \/ downstream # health.ds \/ Starting
  /\ HealthDone
  /\ UNCHANGED <<muVars, sessionVars, requestVars, timerVars, caller, closeVars, live>>

HealthSuccess ==
  /\ health.phase = "probing" /\ ~Cancelled
  /\ downstream = health.ds /\ ~Starting
  /\ failures' = 0
  /\ HealthDone
  /\ UNCHANGED <<downstream, spawnErr, startup, sessionVars, requestVars,
                 timerVars, caller, closeVars, live>>

(* A failed probe recovers at once when the transport is closed; otherwise *)
(* at the threshold, after draining the dispatched requests.               *)
HealthFailure ==
  /\ health.phase = "probing" /\ ~Cancelled
  /\ downstream = health.ds /\ ~Starting
  /\ \/ /\ downstream \in live /\ ~ThresholdReached
        /\ failures' = failures + 1
        /\ HealthDone
        /\ UNCHANGED <<startup, requestsDrained>>
     \/ /\ downstream \notin live \/ ThresholdReached
        /\ LET drain == downstream \in live /\ activeRequests # 0 IN
             /\ StartDownstream(drain)
             /\ requestsDrained' = (requestsDrained \/ drain)
        /\ health' = [phase |-> "waiting", ds |-> None]
  /\ UNCHANGED <<downstream, spawnErr, activeRequests, sessionVars, timerVars,
                 caller, closeVars, live>>

---------------------------------------------------------------------------
(* CloseAll, in the order of the code: cancel the lifetime (mu is held     *)
(* until the tables are cleared), clear, close the captured process        *)
(* without a lock, wait for the captured startup.                          *)

CloseAllCancel ==
  /\ closer = "open"
  /\ closer' = "cancelling"
  /\ UNCHANGED <<muVars, sessionVars, requestVars, timerVars, caller, health,
                 closeDs, live>>

CloseAllClear ==
  /\ closer = "cancelling"
  /\ closer' = "killing" /\ closeDs' = downstream
  /\ idleTimer' = "nil"
  /\ sess' = [s \in Sessions |-> Untracked] /\ refCount' = 0
  /\ caller' = Forget(Sessions)
  /\ downstream' = None /\ spawnErr' = FALSE
  /\ UNCHANGED <<failures, startup, requestVars, callbacks, health, live>>

CloseAllKill ==
  /\ closer = "killing"
  /\ closer' = "waiting" /\ closeDs' = None
  /\ live' = live \ {closeDs}
  /\ UNCHANGED <<muVars, sessionVars, requestVars, timerVars, caller, health>>

CloseAllReturn ==
  /\ closer = "waiting" /\ ~Starting
  /\ closer' = "done"
  /\ UNCHANGED <<muVars, sessionVars, requestVars, timerVars, caller, health,
                 closeDs, live>>

(* The subprocess exits, or its transport breaks, on its own.              *)
ProcessExit(p) ==
  /\ p \in live
  /\ live' = live \ {p}
  /\ UNCHANGED <<muVars, sessionVars, requestVars, timerVars, caller, health, closeVars>>

---------------------------------------------------------------------------
AdmissionStep(c) == Lookup(c) \/ StartupDone(c) \/ SettleAdmission(c)
                    \/ EnsureReadyReturn(c)
RequestStep(c)   == RequestGate(c) \/ RequestReturned(c) \/ EndRequest(c)
StartupStep      == StartupDetach \/ StartupCloseOld \/ StartupSpawn
                    \/ StartupConnect \/ StartupPublish \/ StartupFinish
CloseAllStep     == CloseAllClear \/ CloseAllKill \/ CloseAllReturn
HealthStep       == HealthProbe \/ HealthStale \/ HealthSuccess \/ HealthFailure

Next ==
  \/ \E c \in Callers :
       \/ \E s \in Sessions : GetOrCreateSession(c, s) \/ BeginRequest(c, s)
       \/ EnsureReady(c) \/ WaitCut(c) \/ RequestCancelled(c)
       \/ AdmissionStep(c) \/ RequestStep(c)
  \/ StartupStep
  \/ \E s \in Sessions : RemoveSession(s) \/ RemoveExpired(s)
  \/ \E S \in SUBSET Sessions : ReapExpiredSessions(S)
  \/ IdleTimerFires \/ ReapDownstream
  \/ HealthStep
  \/ CloseAllCancel \/ CloseAllStep
  \/ \E p \in Procs : ProcessExit(p)

Spec == Init /\ [][Next]_vars

(* Goroutines that are runnable run, timers fire, and a dispatched request *)
(* ends (every tool call runs under a request deadline).  Nothing obliges  *)
(* clients to call, processes to exit or CloseAll to be called.            *)
Fairness ==
  /\ \A c \in Callers : /\ WF_vars(AdmissionStep(c))
                        /\ WF_vars(RequestStep(c))
  /\ WF_vars(StartupStep)
  /\ WF_vars(IdleTimerFires) /\ WF_vars(ReapDownstream)
  /\ WF_vars(CloseAllStep)

FairSpec == Spec /\ Fairness

---------------------------------------------------------------------------
(* The shape of every variable, with the bounds the code keeps: the        *)
(* failure count stays below the threshold that resets it.                 *)
TypeOK ==
  /\ downstream \in Procs \cup {None}
  /\ spawnErr \in BOOLEAN
  /\ failures \in 0 .. HealthThreshold - 1
  /\ startup \in Startup
  /\ sess \in [Sessions -> Session]
  /\ refCount \in Int
  /\ activeRequests \in Int
  /\ requestsDrained \in BOOLEAN
  /\ idleTimer \in {"nil", "armed", "fired"}
  /\ callbacks \in 0 .. MaxCallbacks
  /\ caller \in [Callers -> Caller]
  /\ health \in [phase: {"idle", "probing", "waiting"}, ds: Procs \cup {None}]
  /\ closer \in {"open", "cancelling", "killing", "waiting", "done"}
  /\ closeDs \in Procs \cup {None}
  /\ live \subseteq Procs

(* Whatever interleaving of lazy spawn, lookup respawn, health respawn,    *)
(* idle reap and CloseAll, two subprocesses of one server never run at     *)
(* once: a replacement is only started after the old one is closed.        *)
AtMostOneProcess == \A p, q \in live : p = q

(* Every running subprocess belongs to someone who will close it: it is    *)
(* published, or in the hands of the startup goroutine or of CloseAll.     *)
NoLeakedProcess ==
  live \subseteq {downstream, startup.old, startup.ds, closeDs}

(* Who holds a process at each point of a startup and of CloseAll.  This   *)
(* is the strengthening that makes the three properties around it          *)
(* inductive: whenever two holders name a process they name the same one,  *)
(* and nobody holds one when the startup goroutine starts another.         *)
ProcessHolders ==
  /\ startup.phase = "none" => startup.old = None /\ startup.ds = None
  /\ startup.phase = "drain" =>
       /\ startup.ds = None
       /\ IF Closed THEN closeDs \in {startup.old, None} ELSE downstream = startup.old
  /\ startup.phase = "close" =>
       startup.ds = None /\ downstream = None /\ closeDs \in {startup.old, None}
  /\ startup.phase \in {"spawn", "connect", "publish", "finish"} => startup.old = None
  /\ startup.phase = "spawn" => startup.ds = None
  /\ startup.phase \in {"spawn", "connect", "publish"} => downstream = None
  /\ startup.phase \in {"connect", "publish"} /\ startup.ds # None => closeDs = None
  /\ startup.phase = "finish" =>
       IF Closed THEN startup.ds \in live => closeDs = startup.ds
                 ELSE downstream = startup.ds
  /\ Closed => downstream = None
  /\ closer # "killing" => closeDs = None
  /\ closer = "done" => startup.phase = "none"

(* When CloseAll has returned nothing runs and nothing can start again.    *)
NothingRunsAfterClose == closer = "done" => live = {}

(* refCount is the number of tracked sessions, through admissions, rolled  *)
(* back admissions, removals and expiries of re-created ids, and never     *)
(* exceeds max_sessions.                                                   *)
RefCountExact ==
  /\ refCount = Cardinality(Tracked)
  /\ MaxSessions > 0 => refCount <= MaxSessions

(* activeRequests counts exactly the dispatched calls.                     *)
ActiveRequestsExact == activeRequests = Cardinality(Dispatched)

(* Recovery of a live transport waits for every dispatched call: while the *)
(* manager is open, the startup goroutine closes a process that still      *)
(* answers only when no request is running on it.                          *)
RecoveryDrainsFirst ==
  (startup.phase = "close" /\ startup.old \in live /\ closer = "open")
    => Dispatched = {}

(* A session whose admission succeeded never meets a manager that looks    *)
(* ready (no startup, no recorded error) and has no downstream: otherwise  *)
(* BeginRequest would dispatch into nothing.                               *)
AdmittedSessionHasDownstream ==
  (~Closed /\ ~Starting /\ ~spawnErr /\ \E s \in Sessions : sess[s].admitted)
    => downstream # None

(* Every admission and readiness call returns.                             *)
AdmissionReturns ==
  \A c \in Callers : (caller[c].op \in {"admit", "ready"}) ~> (caller[c].op = "none")

(* A downstream nobody references is reaped, unless it is referenced again *)
(* or the manager closes.                                                  *)
UnreferencedIsReaped ==
  (IdleReap /\ refCount = 0 /\ downstream # None)
    ~> (refCount > 0 \/ downstream = None)

(* CloseAll returns, whatever the startup goroutine was doing.             *)
CloseAllReturns == (closer = "cancelling") ~> (closer = "done")
=============================================================================
