--------------------------- MODULE ManagedBackend ---------------------------
(***************************************************************************)
(* The life of one managed-http backend process: BackendCoordinator        *)
(* (src/internal/supervisor/backend.go), the monitor and the recycle       *)
(* goroutines of the daemon (src/internal/daemon/daemon.go), and           *)
(* ManagedProcess.Serve under suture (src/internal/supervisor/process.go). *)
(*                                                                         *)
(* Four parties act on one word of state, the coordinator's: requests,     *)
(* which enter when it reads "ready"; the monitor, which sets it from the  *)
(* process's lifecycle; recycle goroutines, one at a time (recycleMu),     *)
(* which drain and restart after an ambiguous result; and the teardown of  *)
(* the listener, which cancels the last two.  One action is one critical   *)
(* section of the coordinator or of the process.                           *)
(*                                                                         *)
(* A request is an initialize: it ends by committing a lease, which is     *)
(* represented by the generation of the process that granted it.           *)
(***************************************************************************)
EXTENDS Integers, FiniteSets

CONSTANTS
  Requests,     \* handler goroutines
  Policy,       \* restart_policy
  CleanExit,    \* the backend may exit with status 0
  Crashes,      \* the backend may also exit by itself
  MaxStarts,    \* the first start and the restart limit; no attempt ages out of
                \* the restart window
  MaxRecycles   \* bound of the model: ambiguous results reported

ASSUME BackendAssumption ==
  /\ IsFiniteSet(Requests)
  /\ Policy \in {"never", "on-failure", "always"}
  /\ CleanExit \in BOOLEAN /\ Crashes \in BOOLEAN
  /\ MaxStarts \in Nat \ {0} /\ MaxRecycles \in Nat

VARIABLES
  state,       \* the coordinator's state
  inFlight,    \* its count of admitted requests
  req,         \* each request: pc, the generation it was sent to, its reservation;
               \* old: admitted before the last drain began (a history variable)
  leases,      \* generations of the committed sessions
  recycler,    \* the goroutine that holds recycleMu; closed: its zeroCh is closed
  recycles,    \* recycle goroutines waiting for recycleMu
  reported,    \* ambiguous results so far
  monitor,     \* pc, the generation of its last snapshot, attempted, active;
               \* why: what it marks the process lost for
  serve,       \* where ManagedProcess.Serve is
  starts,      \* Serve invocations that BeforeStart authorized
  pstate,      \* the process's published state
  generation,  \* the process's published generation, 0 before the first
  child,       \* generation of the running child, 0 when there is none
  term,        \* SIGTERM is pending for the child
  exit,        \* how the last child exited: "ok" or "error"
  event,       \* the one-slot lifecycle channel is full
  stopped      \* monitorCtx is cancelled

coordVars == <<state, inFlight>>
recVars   == <<recycler, recycles, reported>>
procVars  == <<serve, starts, pstate, generation, child, term, exit, event>>
backendVars == <<coordVars, req, leases, recVars, monitor, procVars, stopped>>

IdleReq == [pc |-> "idle", gen |-> 0, reserved |-> FALSE, old |-> FALSE]

BackendInit ==
  /\ state = "probing" /\ inFlight = 0
  /\ req = [r \in Requests |-> IdleReq]
  /\ leases = {}
  /\ recycler = [pc |-> "idle", closed |-> FALSE]
  /\ recycles = 0 /\ reported = 0
  /\ monitor = [pc |-> "look", gen |-> 0, attempted |-> 0, active |-> 0, why |-> "down"]
  /\ serve = "start" /\ starts = 0 /\ pstate = "stopped" /\ generation = 0
  /\ child = 0 /\ term = FALSE /\ exit = "error" /\ event = FALSE
  /\ stopped = FALSE

---------------------------------------------------------------------------
(* Requests.                                                               *)

(* Reserve and BeginRequest; the round trip starts on the present child.   *)
BeginRequest(r) ==
  /\ req[r].pc = "idle" /\ state = "ready"
  /\ inFlight' = inFlight + 1
  /\ req' = [req EXCEPT ![r] = [pc |-> "sent", gen |-> child, reserved |-> TRUE,
                                old |-> FALSE]]
  /\ UNCHANGED <<state, leases, recVars, monitor, procVars, stopped>>

Answered(r) ==
  /\ req[r].pc = "sent" /\ child # 0 /\ req[r].gen = child
  /\ req' = [req EXCEPT ![r].pc = "answered"]
  /\ UNCHANGED <<coordVars, leases, recVars, monitor, procVars, stopped>>

(* The release function: the last request closes zeroCh.                   *)
EndRequest(r) ==
  /\ inFlight' = inFlight - 1
  /\ recycler' = [recycler EXCEPT !.closed = @ \/ (inFlight = 1 /\ recycler.pc = "wait")]
  /\ req' = [req EXCEPT ![r] = IdleReq]

(* Commit; nothing is kept when the reservation was invalidated.           *)
Commit(r) ==
  /\ req[r].pc = "answered"
  /\ leases' = IF req[r].reserved THEN leases \cup {req[r].gen} ELSE leases
  /\ EndRequest(r)
  /\ UNCHANGED <<state, recycles, reported, monitor, procVars, stopped>>

(* The round trip fails: OnAmbiguousFailure starts a recycle goroutine,    *)
(* unless the bound of the model is reached.                               *)
RequestFails(r) ==
  /\ req[r].pc = "sent"
  /\ \/ /\ reported < MaxRecycles
        /\ reported' = reported + 1 /\ recycles' = recycles + 1
     \/ /\ req[r].gen # child \/ child = 0  \* the connection is gone
        /\ reported = MaxRecycles
        /\ UNCHANGED <<reported, recycles>>
  /\ EndRequest(r)
  /\ UNCHANGED <<state, leases, monitor, procVars, stopped>>

---------------------------------------------------------------------------
(* DrainAndRecycle.                                                        *)

RecycleStart ==
  /\ recycles > 0 /\ recycler.pc = "idle"
  /\ recycles' = recycles - 1
  /\ IF state = "ready"
     THEN /\ state' = "draining"
          /\ recycler' = [pc |-> "wait", closed |-> (inFlight = 0)]
          /\ req' = [r \in Requests |-> [req[r] EXCEPT !.old = req[r].pc # "idle"]]
     ELSE UNCHANGED <<state, recycler, req>>
  /\ UNCHANGED <<inFlight, leases, reported, monitor, procVars, stopped>>

DrainCancelled ==
  /\ recycler.pc = "wait" /\ stopped
  /\ state' = "restarting"
  /\ recycler' = [pc |-> "idle", closed |-> FALSE]
  /\ UNCHANGED <<inFlight, req, leases, recycles, reported, monitor, procVars, stopped>>

DrainNot ==                    \* mutant: the drain is not waited for
  /\ recycler.pc = "wait"
  /\ state' = "recycling"
  /\ recycler' = [pc |-> "recycle", closed |-> FALSE]
  /\ UNCHANGED <<inFlight, req, leases, recycles, reported, monitor, procVars, stopped>>

DrainEnds ==
  /\ recycler.pc = "wait" /\ recycler.closed
  /\ state' = "recycling"
  /\ recycler' = [pc |-> "recycle", closed |-> FALSE]
  /\ UNCHANGED <<inFlight, req, leases, recycles, reported, monitor, procVars, stopped>>

(* process.RequestRestart: SIGTERM to the child, if there is one.          *)
RequestRestart == term' = (child # 0)

Recycle ==
  /\ recycler.pc = "recycle"
  /\ RequestRestart
  /\ recycler' = [recycler EXCEPT !.pc = "finish"]
  /\ UNCHANGED <<coordVars, req, leases, recycles, reported, monitor,
                 serve, starts, pstate, generation, child, exit, event, stopped>>

RecycleFinish ==
  /\ recycler.pc = "finish"
  /\ state' = "probing"
  /\ recycler' = [pc |-> "idle", closed |-> FALSE]
  /\ UNCHANGED <<inFlight, req, leases, recycles, reported, monitor, procVars, stopped>>

---------------------------------------------------------------------------
(* monitorManagedHTTPBackend.                                              *)

(* LifecycleSnapshot, and which case of the loop it selects.               *)
MonitorLook ==
  /\ monitor.pc = "look"
  /\ LET fresh == pstate = "running" /\ generation \notin {0, monitor.attempted}
         again == fresh /\ monitor.active \notin {0, generation}
         down  == pstate \in {"crashed", "stopped", "failed"}
     IN monitor' = [monitor EXCEPT
          !.gen = generation,
          !.why = IF again THEN "replaced" ELSE IF down THEN "down" ELSE monitor.why,
          !.pc = IF again \/ down THEN "lost" ELSE IF fresh THEN "fresh" ELSE "select"]
  /\ UNCHANGED <<coordVars, req, leases, recVars, procVars, stopped>>

(* MarkProcessLost, then InvalidateAll: for a process that is down, for a  *)
(* new generation, or for a failed probe.                                  *)
MonitorLost ==
  /\ monitor.pc = "lost"
  /\ state' = "restarting"
  /\ monitor' = [monitor EXCEPT !.pc = "invalidate"]
  /\ UNCHANGED <<inFlight, req, leases, recVars, procVars, stopped>>

InvalidateLeases ==            \* mutant: pending reservations survive
  leases' = {} /\ req' = req

InvalidateAll ==
  /\ leases' = {}
  /\ req' = [r \in Requests |-> [req[r] EXCEPT !.reserved = FALSE]]

MonitorInvalidate ==
  /\ monitor.pc = "invalidate"
  /\ InvalidateAll
  /\ monitor' = [monitor EXCEPT
       !.active = IF monitor.why = "unready" THEN monitor.active ELSE 0,
       !.pc = CASE monitor.why = "down"     -> "select"
                [] monitor.why = "replaced" -> "fresh"
                [] monitor.why = "unready"  -> "restart"]
  /\ UNCHANGED <<coordVars, recVars, procVars, stopped>>

MonitorProbe ==
  /\ monitor.pc = "fresh"
  /\ state' = "probing"
  /\ monitor' = [monitor EXCEPT !.pc = "probing", !.attempted = monitor.gen]
  /\ UNCHANGED <<inFlight, req, leases, recVars, procVars, stopped>>

(* The probe reaches whatever process listens on the target now.           *)
MonitorReady ==
  /\ monitor.pc = "probing" /\ child # 0
  /\ state' = "ready"
  /\ monitor' = [monitor EXCEPT !.pc = "select", !.active = monitor.gen]
  /\ UNCHANGED <<inFlight, req, leases, recVars, procVars, stopped>>

(* Thirty seconds passed, the probe failed, or monitorCtx is cancelled.     *)
MonitorUnready ==
  /\ monitor.pc = "probing"
  /\ monitor' = [monitor EXCEPT !.pc = "lost", !.why = "unready"]
  /\ UNCHANGED <<coordVars, req, leases, recVars, procVars, stopped>>

MonitorRestart ==
  /\ monitor.pc = "restart"
  /\ RequestRestart
  /\ monitor' = [monitor EXCEPT !.pc = "select"]
  /\ UNCHANGED <<coordVars, req, leases, recVars, serve, starts, pstate,
                 generation, child, exit, event, stopped>>

MonitorWake ==
  /\ monitor.pc = "select" /\ event
  /\ event' = FALSE
  /\ monitor' = [monitor EXCEPT !.pc = "look"]
  /\ UNCHANGED <<coordVars, req, leases, recVars, serve, starts, pstate,
                 generation, child, term, exit, stopped>>

MonitorExit ==
  /\ monitor.pc = "select" /\ stopped
  /\ monitor' = [monitor EXCEPT !.pc = "exit"]
  /\ UNCHANGED <<coordVars, req, leases, recVars, procVars, stopped>>

---------------------------------------------------------------------------
(* ManagedProcess.Serve, called again by suture until it returns a         *)
(* terminal error.                                                         *)

(* BeforeStart: the restart limit, or state starting.                      *)
ServeStart ==
  /\ serve = "start"
  /\ IF starts < MaxStarts
     THEN serve' = "spawn" /\ pstate' = "starting" /\ starts' = starts + 1
     ELSE serve' = "over" /\ pstate' = "failed" /\ UNCHANGED starts
  /\ event' = TRUE
  /\ UNCHANGED <<coordVars, req, leases, recVars, monitor, generation, child,
                 term, exit, stopped>>

(* prepareOwnerToken, spawn and recordLease: the generation is published   *)
(* while the state is still starting.                                      *)
ServeSpawn ==
  /\ serve = "spawn"
  /\ generation' = generation + 1
  /\ child' = generation + 1 /\ term' = FALSE
  /\ serve' = "running"
  /\ UNCHANGED <<coordVars, req, leases, recVars, monitor, starts, pstate, exit,
                 event, stopped>>

(* restartDisposition.                                                     *)
Retried(how) == Policy = "always" \/ (Policy = "on-failure" /\ how = "error")

(* finishExit: the state, and whether suture calls Serve again.            *)
Finish(how) ==
  /\ pstate' = IF how = "ok" THEN "stopped"
                ELSE IF Retried(how) THEN "crashed" ELSE "failed"
  /\ serve' = IF Retried(how) THEN "start" ELSE "over"

(* One of the three failed, a child that was started has been killed.      *)
SpawnFails ==
  /\ serve = "spawn"
  /\ Finish("error")
  /\ event' = TRUE
  /\ UNCHANGED <<coordVars, req, leases, recVars, monitor, starts, generation,
                 child, term, exit, stopped>>

ServeRunningQuietly ==         \* mutant: the transition is not announced
  /\ serve = "running"
  /\ pstate' = "running" /\ serve' = "wait"
  /\ UNCHANGED <<coordVars, req, leases, recVars, monitor, starts, generation,
                 child, term, exit, event, stopped>>

ServeRunning ==
  /\ serve = "running"
  /\ pstate' = "running" /\ serve' = "wait"
  /\ event' = TRUE
  /\ UNCHANGED <<coordVars, req, leases, recVars, monitor, starts, generation,
                 child, term, exit, stopped>>

(* The child exits: on SIGTERM, or by itself.                              *)
ChildExits ==
  /\ child # 0 /\ (term \/ Crashes)
  /\ child' = 0 /\ term' = FALSE
  /\ exit' \in IF CleanExit THEN {"ok", "error"} ELSE {"error"}
  /\ UNCHANGED <<coordVars, req, leases, recVars, monitor, serve, starts, pstate,
                 generation, event, stopped>>

FinishExitQuietly ==           \* mutant: the exit is not announced
  /\ serve = "wait" /\ child = 0
  /\ Finish(exit)
  /\ UNCHANGED <<coordVars, req, leases, recVars, monitor, starts, generation,
                 child, term, exit, event, stopped>>

(* wait returns: the outcome is recorded and announced.                    *)
FinishExit ==
  /\ serve = "wait" /\ child = 0
  /\ Finish(exit)
  /\ event' = TRUE
  /\ UNCHANGED <<coordVars, req, leases, recVars, monitor, starts, generation,
                 child, term, exit, stopped>>

(* The listener is torn down: monitorCancel.                               *)
Teardown ==
  /\ ~stopped
  /\ stopped' = TRUE
  /\ UNCHANGED <<coordVars, req, leases, recVars, monitor, procVars>>

---------------------------------------------------------------------------
MonitorStep == MonitorLook \/ MonitorLost \/ MonitorInvalidate \/ MonitorProbe
               \/ MonitorReady \/ MonitorUnready \/ MonitorRestart \/ MonitorWake
               \/ MonitorExit
RecycleStep == RecycleStart \/ DrainCancelled \/ DrainEnds \/ Recycle \/ RecycleFinish
ServeStep   == ServeStart \/ ServeSpawn \/ SpawnFails \/ ServeRunning \/ FinishExit
RequestStep(r) == Answered(r) \/ Commit(r) \/ RequestFails(r)

BackendNext ==
  \/ \E r \in Requests : BeginRequest(r) \/ RequestStep(r)
  \/ RecycleStep \/ MonitorStep \/ ServeStep
  \/ ChildExits \/ Teardown

BackendSpec == BackendInit /\ [][BackendNext]_backendVars

(* Goroutines run, round trips end, a child that got SIGTERM exits.        *)
FairSpec ==
  /\ BackendSpec
  /\ WF_backendVars(MonitorStep) /\ WF_backendVars(RecycleStep) /\ WF_backendVars(ServeStep)
  /\ \A r \in Requests : WF_backendVars(RequestStep(r))
  /\ WF_backendVars(term /\ ChildExits)

---------------------------------------------------------------------------
BackendTypeOK ==
  /\ state \in {"probing", "ready", "draining", "recycling", "restarting"}
  /\ inFlight = Cardinality({r \in Requests : req[r].pc # "idle"})
  /\ req \in [Requests -> [pc: {"idle", "sent", "answered"}, gen: 0 .. MaxStarts,
                          reserved: BOOLEAN, old: BOOLEAN]]
  /\ leases \subseteq 1 .. MaxStarts
  /\ recycler \in [pc: {"idle", "wait", "recycle", "finish"}, closed: BOOLEAN]
  /\ reported \in 0 .. MaxRecycles /\ recycles \in 0 .. reported
  /\ monitor \in [pc: {"look", "lost", "invalidate", "fresh", "probing", "restart",
                       "select", "exit"},
                  why: {"down", "replaced", "unready"},
                  gen: 0 .. MaxStarts, attempted: 0 .. MaxStarts, active: 0 .. MaxStarts]
  /\ serve \in {"start", "spawn", "running", "wait", "over"}
  /\ pstate \in {"stopped", "starting", "running", "crashed", "failed"}
  /\ starts \in 0 .. MaxStarts /\ generation \in 0 .. starts
  /\ child \in {0, generation}
  /\ term \in BOOLEAN /\ exit \in {"ok", "error"} /\ event \in BOOLEAN
  /\ stopped \in BOOLEAN

(* Recycle is invoked only after every request that was admitted before    *)
(* the drain began has ended, also when the process dies meanwhile and the *)
(* monitor reopens the gateway in the middle of the drain.                 *)
DrainWaits == recycler.pc = "recycle" => \A r \in Requests : ~req[r].old

(* While the gateway is open, no session of a process older than the one   *)
(* the monitor last found ready is left: its ids, and the initializes that *)
(* were under way when it died, were invalidated before reopening.         *)
OldIdsInvalidated ==
  state = "ready" => /\ monitor.active # 0
                     /\ \A g \in leases : g >= monitor.active

(* A gateway that no ambiguous result has closed never stays closed: it    *)
(* opens, or suture calls Serve no more, or the listener is gone.  No      *)
(* transition of the process is missed by the monitor.                     *)
Settled == state = "ready" \/ serve = "over" \/ stopped
GatewayReopens == (state # "ready" /\ reported = 0) ~> (Settled \/ reported > 0)

(* The sessions of the process that a recycle terminated all go and never  *)
(* come back, whether or not the process is replaced: not by an initialize *)
(* that was answered before it died, nor because the exit was a clean one. *)
RecycledIdsGo ==
  \A g \in 1 .. MaxStarts :
    [](recycler.pc = "finish" /\ term /\ child = g => <>[](g \notin leases \/ stopped))

(* process.go:645, "Suture owns the subsequent restart": after a recycle a *)
(* new generation follows, unless the restart limit is reached.  A clean   *)
(* exit under on-failure refutes it (ManagedBackendCleanExit.cfg).         *)
RecycleReplaces ==
  \A g \in 1 .. MaxStarts :
    (recycler.pc = "finish" /\ term /\ child = g)
      ~> (generation > g \/ pstate = "failed" \/ stopped)

(* backend.go:106, "callers must complete readiness": after a recycle the  *)
(* gateway opens.  A replacement that is ready before the recycle goroutine *)
(* resumes refutes it (ManagedBackendLateFinish.cfg).                      *)
RecycleReopens == (recycler.pc = "finish") ~> (recycler.pc = "idle" /\ Settled)
=============================================================================
