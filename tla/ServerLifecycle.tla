-------------------------- MODULE ServerLifecycle --------------------------
(***************************************************************************)
(* The life of one configured server in the daemon: the Registry           *)
(* (src/internal/server/registry.go), the Supervisor's table of services   *)
(* (src/internal/supervisor/supervisor.go), the ordered event queue with   *)
(* its single drain goroutine, and what the daemon's event handler binds   *)
(* to the server: its listener in the PortManager and its probe worker     *)
(* (src/internal/daemon/daemon.go, src/internal/mcp/handler.go).           *)
(*                                                                         *)
(* Actors: the handlers of the admin tools (vision_restart,                *)
(* vision_remove), the signal goroutine (SIGHUP reloads, SIGTERM shuts     *)
(* down), Main, which runs Daemon.Start, and the drain goroutine with the  *)
(* event handler.  One action is one critical section of Registry.mu,      *)
(* Supervisor.mu or PortManager.mu, or one channel operation.              *)
(*                                                                         *)
(* Each Add makes a new ManagedServer object, numbered here; a pointer to  *)
(* one outlives its removal from the table.  A handler ends within its     *)
(* timeout (after which the code gives up its ordering).  A listener is an *)
(* entry of the PortManager; whether its socket could be bound is known    *)
(* later, in a goroutine that leaves the entry.                            *)
(*                                                                         *)
(* Nothing serializes the operations: tool calls, signals and Daemon.Start *)
(* overlap freely.  Signals are handled from before Daemon.Start, tools    *)
(* from the end of its StartAll.                                           *)
(***************************************************************************)
EXTENDS Integers, Sequences

CONSTANTS
  Admins,      \* goroutines of admin tool calls
  Signals,     \* the goroutine of SignalHandler
  Main,        \* the goroutine of Daemon.Start
  Handler,     \* the drain goroutine
  Managed,     \* transport managed-http, with a supervised process; else stdio
  StopFails,   \* stopping a process may time out
  MaxAdds,     \* bound of the model: ManagedServer objects
  QueueCap     \* eventQueueCapacity

ASSUME ConstantsAssumption ==
  /\ Managed \in BOOLEAN /\ StopFails \in BOOLEAN
  /\ MaxAdds \in Nat \ {0} /\ QueueCap \in Nat \ {0}
  /\ {Signals, Main, Handler} \cap Admins = {}
  /\ Signals # Main /\ Signals # Handler /\ Main # Handler

Operators == Admins \cup {Signals, Main}
Actors    == Operators \cup {Handler}
Objs      == 1 .. MaxAdds

VARIABLES
  daemon,      \* "running", "stopping", "stopped"
  reg,         \* the object in the registry's table, 0 for none
  added,       \* objects made so far
  srv,         \* State of each object, and whether its Process is set
  blocked,     \* startupBlocks has the name
  service,     \* the object whose process the supervisor runs, 0 for none
  queue,       \* eventQueue
  closed,      \* stopCh is closed
  listener,    \* the object the listener was set up for, 0 for none
  inProgress,  \* proxySetupInProgress has the name
  worker,      \* the object the probe worker was started for, 0 for none
  stopFailed,  \* history: some stop has timed out
  raced,       \* history: two operations were in the middle of it at once
  act          \* pc, kind of operation and object of each actor

regVars  == <<reg, added, srv, blocked, service, stopFailed>>
bindVars == <<listener, inProgress, worker>>
vars == <<daemon, regVars, queue, closed, bindVars, raced, act>>

Idle == [pc |-> "idle", kind |-> "none", obj |-> 0]

Init ==
  /\ daemon = "running" /\ reg = 1 /\ added = 1
  /\ blocked \in IF Managed THEN BOOLEAN ELSE {FALSE}
  /\ srv = [o \in Objs |->                \* BlockStartup
              [state |-> IF blocked /\ o = 1 THEN "failed" ELSE "stopped",
               proc  |-> FALSE]]
  /\ service = 0 /\ queue = <<>> /\ closed = FALSE
  /\ listener = 0 /\ inProgress = FALSE /\ worker = 0
  /\ stopFailed = FALSE /\ raced = FALSE
  /\ act = [a \in Actors |->              \* StartAll skips a blocked server
              IF a # Main THEN Idle
              ELSE [pc |-> IF blocked THEN "list" ELSE "start",
                    kind |-> "boot", obj |-> 0]]

Goto(a, pc)   == act' = [act EXCEPT ![a].pc = pc]
State(o)      == srv[o].state
SetState(o,s) == srv' = [srv EXCEPT ![o].state = s]
Up(o)         == State(o) \in {"running", "starting"}

---------------------------------------------------------------------------
(* The operations.                                                         *)
Begins(a) ==
  /\ act[a].pc = "idle" /\ daemon = "running"
  /\ UNCHANGED <<regVars, queue, closed, bindVars, raced>>

(* Daemon.Start starts the admin server after StartAll.                    *)
Serving == act[Main].pc \in {"list", "check", "look", "claim", "bind", "idle"}

Begin(a, kind, pc) == act' = [act EXCEPT ![a] = [pc |-> pc, kind |-> kind, obj |-> reg]]

ToolRestart(a) ==
  /\ Serving /\ Begins(a) /\ reg # 0
  /\ Begin(a, "restart", "stop")
  /\ UNCHANGED daemon

(* vision_remove stops a server that IsRunning.                            *)
ToolRemove(a) ==
  /\ Serving /\ Begins(a) /\ reg # 0
  /\ Begin(a, "remove", IF Up(reg) THEN "stop" ELSE "remove")
  /\ UNCHANGED daemon

(* Reload: the name is new, is gone, or has another configuration.         *)
Reload ==
  /\ Begins(Signals) /\ UNCHANGED daemon
  /\ \/ reg = 0 /\ added < MaxAdds /\ Begin(Signals, "add", "add")
     \/ reg # 0 /\ Begin(Signals, "drop", "stop")
     \/ reg # 0 /\ added < MaxAdds /\ Begin(Signals, "update", "stop")

(* Daemon.Stop; adminServer.Stop waits for the tool calls.                 *)
Shutdown ==
  /\ Begins(Signals)
  /\ \A a \in Admins : act[a].pc = "idle"
  /\ daemon' = "stopping"
  /\ Begin(Signals, "shutdown", "unlisten")

---------------------------------------------------------------------------
(* Between its first lock and its event a Start or a Stop holds no lock,   *)
(* nor does setupHTTPProxies between its look and its listener.  raced     *)
(* records that a Start or a Stop took effect in the middle of another's,  *)
(* or a Start during the shutdown.                                         *)
Midway == {"spawn", "startFailed", "publish", "fireStarted",
           "halt", "stopFailed", "halted", "fireStopped", "look", "claim", "bind"}

Crosses(a) == \E b \in Operators \ {a} : act[b].pc \in Midway

---------------------------------------------------------------------------
(* Registry.Start.                                                         *)

(* What follows a Start: Daemon.Start goes on to setupHTTPProxies, Reload  *)
(* takes back an added server that did not start.                          *)
StartReturns(a, ok) ==
  IF act[a].kind = "boot" THEN Goto(a, "list")
  ELSE IF act[a].kind = "add" /\ ~ok THEN Goto(a, "remove")
  ELSE act' = [act EXCEPT ![a] = Idle]

(* The first lock, and the lock taken again after the guard.               *)
StartLock(a) ==
  /\ act[a].pc \in {"start", "unblock"}
  /\ IF reg = 0 THEN StartReturns(a, FALSE) /\ UNCHANGED <<srv, blocked, raced>>
     ELSE IF Up(reg) THEN StartReturns(a, TRUE) /\ UNCHANGED <<srv, blocked, raced>>
     ELSE IF blocked /\ act[a].pc = "start"
          THEN Goto(a, "guard") /\ UNCHANGED <<srv, blocked, raced>>
     ELSE /\ blocked' = FALSE
          /\ raced' = (raced \/ Crosses(a) \/ daemon # "running")
          /\ SetState(reg, "starting")
          /\ act' = [act EXCEPT ![a].pc = "spawn", ![a].obj = reg]
  /\ UNCHANGED <<daemon, reg, added, service, stopFailed, queue, closed, bindVars>>

(* The startup guard reconciles the ownership lease again.                 *)
StartGuard(a) ==
  /\ act[a].pc = "guard"
  /\ Goto(a, "unblock") \/ StartReturns(a, FALSE)
  /\ UNCHANGED <<daemon, regVars, queue, closed, bindVars, raced>>

(* A stdio server has no process here; AddServer refuses a name it has.    *)
StartSpawn(a) ==
  /\ act[a].pc = "spawn"
  /\ IF Managed /\ service # 0
     THEN Goto(a, "startFailed") /\ UNCHANGED service
     ELSE Goto(a, "publish") /\ service' = IF Managed THEN act[a].obj ELSE service
  /\ UNCHANGED <<daemon, reg, added, srv, blocked, stopFailed, queue, closed, bindVars, raced>>

StartFailed(a) ==
  /\ act[a].pc = "startFailed"
  /\ SetState(act[a].obj, "failed")
  /\ StartReturns(a, FALSE)
  /\ UNCHANGED <<daemon, reg, added, blocked, service, stopFailed, queue, closed, bindVars, raced>>

StartPublish(a) ==
  /\ act[a].pc = "publish"
  /\ srv' = [srv EXCEPT ![act[a].obj] = [state |-> "running", proc |-> Managed]]
  /\ Goto(a, "fireStarted")
  /\ UNCHANGED <<daemon, reg, added, blocked, service, stopFailed, queue, closed, bindVars, raced>>

(* fireEvent: a full queue blocks the sender, a closed registry drops.     *)
FireDropping(a, type) ==       \* mutant: a full queue drops the event
  /\ queue' = IF Len(queue) < QueueCap
              THEN Append(queue, [type |-> type, obj |-> act[a].obj]) ELSE queue
  /\ UNCHANGED <<daemon, regVars, closed, bindVars, raced>>

Fire(a, type) ==
  LET sent == {Append(queue, [type |-> type, obj |-> act[a].obj])}
  IN /\ queue' \in (IF Len(queue) < QueueCap THEN sent ELSE {})
                    \cup (IF closed THEN {queue} ELSE {})
     /\ UNCHANGED <<daemon, regVars, closed, bindVars, raced>>

FireStarted(a) ==
  /\ act[a].pc = "fireStarted"
  /\ Fire(a, "started")
  /\ StartReturns(a, TRUE)

---------------------------------------------------------------------------
(* Registry.Stop.                                                          *)

(* What follows a Stop.  Reload removes a server it could not stop.        *)
StopReturns(a, ok) ==
  CASE act[a].kind = "shutdown" -> Goto(a, "close")
    [] act[a].kind = "drop" \/ (ok /\ act[a].kind \in {"remove", "update"}) -> Goto(a, "remove")
    [] ok /\ act[a].kind = "restart" -> Goto(a, "start")
    [] OTHER -> act' = [act EXCEPT ![a] = Idle]

StopLock(a) ==
  /\ act[a].pc = "stop"
  /\ IF reg = 0 THEN StopReturns(a, FALSE) /\ UNCHANGED <<srv, raced>>
     ELSE IF State(reg) = "stopped" THEN StopReturns(a, TRUE) /\ UNCHANGED <<srv, raced>>
     ELSE /\ raced' = (raced \/ Crosses(a))
          /\ SetState(reg, "stopping")
          /\ act' = [act EXCEPT ![a].pc = "halt", ![a].obj = reg]
  /\ UNCHANGED <<daemon, reg, added, blocked, service, stopFailed, queue, closed, bindVars>>

(* RemoveServerAndWait: the service is gone when it returns, unless it     *)
(* times out or the name is not registered.                                *)
StopHalt(a) ==
  /\ act[a].pc = "halt"
  /\ \/ /\ ~srv[act[a].obj].proc \/ service # 0
        /\ service' = IF srv[act[a].obj].proc THEN 0 ELSE service
        /\ Goto(a, "halted") /\ UNCHANGED stopFailed
     \/ /\ srv[act[a].obj].proc /\ (service = 0 \/ StopFails)
        /\ stopFailed' = TRUE
        /\ Goto(a, "stopFailed") /\ UNCHANGED service
  /\ UNCHANGED <<daemon, reg, added, srv, blocked, queue, closed, bindVars, raced>>

StopFailed(a) ==
  /\ act[a].pc = "stopFailed"
  /\ SetState(act[a].obj, "failed")
  /\ StopReturns(a, FALSE)
  /\ UNCHANGED <<daemon, reg, added, blocked, service, stopFailed, queue, closed, bindVars, raced>>

StopPublish(a) ==
  /\ act[a].pc = "halted"
  /\ srv' = [srv EXCEPT ![act[a].obj] = [state |-> "stopped", proc |-> FALSE]]
  /\ Goto(a, "fireStopped")
  /\ UNCHANGED <<daemon, reg, added, blocked, service, stopFailed, queue, closed, bindVars, raced>>

FireStopped(a) ==
  /\ act[a].pc = "fireStopped"
  /\ Fire(a, "stopped")
  /\ StopReturns(a, TRUE)

---------------------------------------------------------------------------
(* Registry.Remove and Registry.Add.  Reload starts what it added if it is *)
(* an autostart server or ran before.                                      *)
Remove(a) ==
  /\ act[a].pc = "remove"
  /\ IF reg = 0 \/ State(reg) \in {"running", "starting", "stopping"}
     THEN act' = [act EXCEPT ![a] = Idle] /\ UNCHANGED reg
     ELSE /\ reg' = 0
          /\ IF act[a].kind = "update" THEN Goto(a, "add")
             ELSE act' = [act EXCEPT ![a] = Idle]
  /\ UNCHANGED <<daemon, added, srv, blocked, service, stopFailed, queue, closed, bindVars, raced>>

Add(a) ==
  /\ act[a].pc = "add"
  /\ IF reg # 0 THEN act' = [act EXCEPT ![a] = Idle] /\ UNCHANGED <<reg, added>>
     ELSE /\ reg' = added + 1 /\ added' = added + 1
          /\ Goto(a, "start") \/ act' = [act EXCEPT ![a] = Idle]
  /\ UNCHANGED <<daemon, srv, blocked, service, stopFailed, queue, closed, bindVars, raced>>

---------------------------------------------------------------------------
(* drainEvents, deliverEvent and handleServerEvent.                        *)

DeliverUnordered ==            \* mutant: each event has its own goroutine
  /\ act[Handler].pc = "idle"
  /\ \E i \in DOMAIN queue :
       /\ act' = [act EXCEPT ![Handler] =
            [pc |-> IF queue[i].type = "started" THEN "check" ELSE "unwork",
             kind |-> "event", obj |-> queue[i].obj]]
       /\ queue' = SubSeq(queue, 1, i - 1) \o SubSeq(queue, i + 1, Len(queue))
  /\ UNCHANGED <<daemon, regVars, closed, bindVars, raced>>

Deliver ==
  /\ act[Handler].pc = "idle" /\ queue # <<>>
  /\ act' = [act EXCEPT ![Handler] =
       [pc |-> IF Head(queue).type = "started" THEN "check" ELSE "unwork",
        kind |-> "event", obj |-> Head(queue).obj]]
  /\ queue' = Tail(queue)
  /\ UNCHANGED <<daemon, regVars, closed, bindVars, raced>>

(* setupHTTPProxies lists the servers.                                     *)
SetupList ==
  /\ act[Main].pc = "list"
  /\ act' = [act EXCEPT ![Main] = IF reg = 0 THEN Idle
                                  ELSE [pc |-> "check", kind |-> "boot", obj |-> reg]]
  /\ UNCHANGED <<daemon, regVars, queue, closed, bindVars, raced>>

(* setupProxyForServer, by the handler and by setupHTTPProxies: the state  *)
(* and then the listener are looked at, the setup is claimed, the listener *)
(* is added unless it exists by now.                                       *)
SetupReturns(a) == IF a = Handler THEN Goto(a, "work") ELSE act' = [act EXCEPT ![a] = Idle]

SetupCheck(a) ==
  /\ act[a].pc = "check"
  /\ IF State(act[a].obj) # "running" THEN SetupReturns(a) ELSE Goto(a, "look")
  /\ UNCHANGED <<daemon, regVars, queue, closed, bindVars, raced>>

SetupLook(a) ==
  /\ act[a].pc = "look"
  /\ IF listener # 0 THEN SetupReturns(a) ELSE Goto(a, "claim")
  /\ UNCHANGED <<daemon, regVars, queue, closed, bindVars, raced>>

(* A managed server whose process is gone is given up again.               *)
SetupClaim(a) ==
  /\ act[a].pc = "claim"
  /\ IF inProgress \/ (Managed /\ ~srv[act[a].obj].proc)
     THEN SetupReturns(a) /\ UNCHANGED inProgress
     ELSE Goto(a, "bind") /\ inProgress' = TRUE
  /\ UNCHANGED <<daemon, regVars, queue, closed, listener, worker, raced>>

AddStreamable(a) ==
  /\ act[a].pc = "bind"
  /\ listener' = IF listener = 0 THEN act[a].obj ELSE listener
  /\ inProgress' = FALSE
  /\ SetupReturns(a)
  /\ UNCHANGED <<daemon, regVars, queue, closed, worker, raced>>

(* startProbeWorker replaces a worker and does not look at the state.      *)
StartProbeWorker ==
  /\ act[Handler].pc = "work"
  /\ worker' = act[Handler].obj
  /\ act' = [act EXCEPT ![Handler] = Idle]
  /\ UNCHANGED <<daemon, regVars, queue, closed, listener, inProgress, raced>>

RemoveProbeWorker ==
  /\ act[Handler].pc = "unwork"
  /\ worker' = 0
  /\ Goto(Handler, "teardown")
  /\ UNCHANGED <<daemon, regVars, queue, closed, listener, inProgress, raced>>

TeardownProxy ==
  /\ act[Handler].pc = "teardown"
  /\ listener' = 0
  /\ act' = [act EXCEPT ![Handler] = Idle]
  /\ UNCHANGED <<daemon, regVars, queue, closed, inProgress, worker, raced>>

---------------------------------------------------------------------------
(* Daemon.Stop: the listeners, the servers, the events, the probes.        *)
CloseListeners ==
  /\ act[Signals].pc = "unlisten"
  /\ listener' = 0
  /\ Goto(Signals, "stopAll")
  /\ UNCHANGED <<daemon, regVars, queue, closed, inProgress, worker, raced>>

StopAll ==
  /\ act[Signals].pc = "stopAll"
  /\ Goto(Signals, IF reg # 0 /\ (srv[reg].proc \/ Up(reg)) THEN "stop" ELSE "close")
  /\ UNCHANGED <<daemon, regVars, queue, closed, bindVars, raced>>

CloseRegistry ==
  /\ act[Signals].pc = "close"
  /\ closed' = TRUE
  /\ Goto(Signals, "drain")
  /\ UNCHANGED <<daemon, regVars, queue, bindVars, raced>>

DrainSkipped ==                \* mutant: Close does not wait for the queue
  /\ act[Signals].pc = "drain"
  /\ worker' = 0 /\ daemon' = "stopped"
  /\ act' = [act EXCEPT ![Signals] = Idle]
  /\ UNCHANGED <<regVars, queue, closed, listener, inProgress, raced>>

(* drainDone is closed; then probeManager.Close.                           *)
Drained ==
  /\ act[Signals].pc = "drain"
  /\ queue = <<>> /\ act[Handler].pc = "idle"
  /\ worker' = 0 /\ daemon' = "stopped"
  /\ act' = [act EXCEPT ![Signals] = Idle]
  /\ UNCHANGED <<regVars, queue, closed, listener, inProgress, raced>>

---------------------------------------------------------------------------
Next ==
  \/ \E a \in Admins : ToolRestart(a) \/ ToolRemove(a)
  \/ Reload \/ Shutdown
  \/ \E a \in Operators :
       \/ StartLock(a) \/ StartGuard(a) \/ StartSpawn(a) \/ StartFailed(a)
       \/ StartPublish(a) \/ FireStarted(a)
       \/ StopLock(a) \/ StopHalt(a) \/ StopFailed(a) \/ StopPublish(a) \/ FireStopped(a)
       \/ Remove(a) \/ Add(a)
  \/ Deliver \/ SetupList
  \/ \E a \in {Main, Handler} : SetupCheck(a) \/ SetupLook(a) \/ SetupClaim(a) \/ AddStreamable(a)
  \/ StartProbeWorker \/ RemoveProbeWorker \/ TeardownProxy
  \/ CloseListeners \/ StopAll \/ CloseRegistry \/ Drained

Spec == Init /\ [][Next]_vars

---------------------------------------------------------------------------
TypeOK ==
  /\ daemon \in {"running", "stopping", "stopped"}
  /\ reg \in 0 .. added /\ added \in Objs
  /\ srv \in [Objs -> [state: {"stopped", "starting", "running", "stopping", "failed"},
                       proc: BOOLEAN]]
  /\ blocked \in BOOLEAN /\ closed \in BOOLEAN /\ stopFailed \in BOOLEAN
  /\ inProgress \in BOOLEAN /\ raced \in BOOLEAN
  /\ service \in 0 .. added /\ listener \in 0 .. added /\ worker \in 0 .. added
  /\ Len(queue) <= QueueCap
  /\ queue \in Seq([type: {"started", "stopped"}, obj: Objs])
  /\ DOMAIN act = Actors

(* No operation is running and every event has been handled.               *)
Quiet == daemon = "running" /\ queue = <<>> /\ \A a \in Actors : act[a].pc = "idle"
Running == reg # 0 /\ State(reg) = "running"

(* A server that is reported running has its listener and its probe        *)
(* worker, and they were set up for the present configuration, once the    *)
(* events of the operations have been handled.  The comment of fireEvent   *)
(* names the opposite, Running with nothing bound, as the root cause of    *)
(* two outages that the ordered queue ended.  It did not end it for        *)
(* operations that raced, see EventsFollowStates.                          *)
RunningIsBound == Quiet /\ Running /\ ~raced => listener = reg /\ worker = reg

(* A server that does not run, or is gone from the table, leaves no        *)
(* listener, no worker and no process behind, unless a stop timed out or   *)
(* operations raced.                                                       *)
StoppedIsUnbound ==
  Quiet /\ ~Running /\ ~stopFailed /\ ~raced => listener = 0 /\ worker = 0 /\ service = 0

(* When Daemon.Stop has returned nothing is bound, whatever events were    *)
(* queued when it closed the listeners, with the same two exceptions.      *)
ShutdownIsClean ==
  daemon = "stopped" /\ ~stopFailed /\ ~raced
    => listener = 0 /\ worker = 0 /\ service = 0

(* What the comment of SetEventHandler says (registry.go:199-200): the     *)
(* handler receives events in the order the state changes occurred.  So    *)
(* when the operations have returned, the last event on its way is not the *)
(* stop of a server that runs.  The state changes under Registry.mu and    *)
(* the event is sent after it, so two operations may do so in opposite     *)
(* orders.                                                                 *)
EventsFollowStates ==
  (\A a \in Operators : act[a].pc = "idle") /\ queue # <<>>
    => LET last == queue[Len(queue)]
       IN last.type = "stopped" => State(last.obj) # "running"
=============================================================================
