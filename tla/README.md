# Formal models of the Vision MCP manager

Vision (`src/`) is a daemon, written in Go, that puts many MCP servers behind
one control plane. This directory holds TLA+ models of the parts of it that run
concurrently, the TLC configurations that check them, and TLAPS proofs about
them. `PROJECT.json` maps every definition to the source lines it
stands for.

## The system

| Component (source under `src/internal`) | State | Operations | What is hard |
|---|---|---|---|
| Shared session manager, `session/shared.go` | one subprocess for all upstream sessions of a stateless server; refcount, startup in progress, idle timer, session records | admit, remove, expire, begin/end a request, health probe, idle reap, CloseAll | single-flight startup against respawn, reap and close; two mutexes; timers that have fired already |
| Per-session manager, `session/manager.go` | one subprocess per upstream session of a stateful server | spawn, remove, reap, CloseAll | connects outside the lock |
| Proxy session, `mcp/proxy.go` | upstream session, downstream pointer, credit, closed flags | initialize, tools/call, respawn, close, health | four locks, respawn against close |
| Tool call path, `mcp/proxy.go`, `mcp/resilience.go` | circuit breaker, limiter, shared results in flight and cached | tools/call | late results, error paths, coalescing |
| Leases and managed gateway, `mcp/lease.go`, `mcp/managed_gateway.go` | reservations and leases of a managed HTTP backend | initialize, POST, GET stream, DELETE, prune, quarantine, invalidate | ambiguous results, capacity, cleanup against requests |
| Backend coordinator and supervised process, `supervisor/*.go` | gate state and in-flight count, process state and generation | begin/end, drain and recycle, serve, restart | crash during a drain, old session ids, restart policy |
| Registry, supervisor table, event queue, `server/registry.go`, `daemon/daemon.go`, `mcp/handler.go` | state per server, queue, listener, probe worker | start, stop, restart, remove, add, reload, shutdown | operations that overlap, events out of order |
| Slot multiplexer, `slots/multiplexer.go` | load and pending per slot, sticky routes | select, release, rebind, quarantine | pending credit on every path |
| Ownership, `ownership/*.go` | lease file per managed process group | record, reconcile, release | daemon crash between spawn and record |
| Reachability, `reachability/*.go` | evidence per depth and server | probe, record, classify | freshness, one worker per server |
| Disconnect tracker, `mcp/disconnect.go` | connections and grace timer per session | track, release, reap | timer against reconnect |
| Admin server, configuration, middleware, metrics, CLI, opencode plugin | mostly request-local | queries, parsing, filtering | little concurrency |

How they interact: an upstream HTTP request reaches a listener of the
PortManager. For a stdio server the listener holds a proxy handler, whose proxy
sessions use a session manager (shared or per session) and, for calls, the tool
call path. For a managed HTTP server it holds a managed gateway, which asks the
lease manager for admission and the backend coordinator for the gate, while a
monitor goroutine follows the supervised process and opens, closes and
invalidates. The registry starts and stops servers and sends events to one
drain goroutine; the daemon's handler binds and unbinds listeners and probe
workers. Admin tools and signals call the registry.

What correctness means for each part is the list of `hazards` in
`PROJECT.json`, each at its line, with the properties that would catch it.

## Modules

| Module | Models | Runs |
|---|---|---|
| `SharedSession` | `session/shared.go` | `SharedSession.cfg`, `SharedSessionLive.cfg` |
| `SharedSessionProofs` | theorems about it | TLAPS |
| `LeaseGateway` | `mcp/lease.go`, `mcp/managed_gateway.go` | `LeaseGateway.cfg`, `LeaseGatewayReuse.cfg` |
| `LeaseGatewayProofs` | theorems about it | TLAPS |
| `ManagedBackend` | `supervisor/backend.go`, `supervisor/process.go`, `restart_policy.go`, monitor and recycler of `daemon/daemon.go` | `ManagedBackend.cfg` |
| `ToolCall` | breaker, limiter, coordinator and `callDownstreamTool` | `ToolCall.cfg` |
| `ToolCallProofs` | theorems about it | TLAPS |
| `PerSessionManager` | `session/manager.go`; its steps are taken by `ProxySession` | |
| `ProxySession` | the stateful mode of `mcp/proxy.go`: proxy sessions, index, credit | `ProxySession.cfg` |
| `ProxySessionProofs` | theorems about it | TLAPS |
| `SharedProxy` | the shared mode of `mcp/proxy.go` with the lease of the shared manager, the SDK session and `mcp/disconnect.go` | `SharedProxy.cfg` |
| `SharedProxyProofs` | theorems about it | TLAPS |
| `SlotMultiplexer` | `slots/multiplexer.go` with the proxy sessions, managers and member restarts that drive it | `SlotMultiplexer.cfg`, `SlotMultiplexerDenied.cfg` |
| `SlotMultiplexerProofs` | theorems about it | TLAPS |
| `ServerLifecycle` | `server/registry.go`, `supervisor/supervisor.go`, `daemon/daemon.go`, `mcp/handler.go` for one server | `ServerLifecycle.cfg` |
| `DaemonProofs` | theorems about `ServerLifecycle` and `ManagedBackend` | TLAPS |
| `Custody` | what ownership leases promise, an abstract specification | a property of `Ownership.cfg` |
| `Ownership` | `ownership/*.go` with `Serve` of `supervisor/process.go` and the start and stop of a server | `Ownership.cfg` |
| `OwnershipProofs` | theorems about both | TLAPS |

Seven more configurations are not among the listed runs. Each shows a
disagreement between the code and its documentation, see "Where the code differs".

Each `MC` module only supplies instances for TLC. Everywhere one action is one
critical section, one channel operation or one remote round trip; where the
code releases a lock, the action ends. Goroutines are records with a `pc`.
Clocks are abstracted: a timer that is armed may fire, an idle session may be
expired, a timeout may end a wait, all at any moment. Operators marked `mutant`
are variants of the code that the properties reject; no specification uses them.

### SharedSession

`downstream`, `spawnErr`, `failures` and `startup` stand for the fields under
`sm.mu`; `sess`, `refCount`, `activeRequests`, `requestsDrained` and
`idleTimer` for those under `sm.refMu`. `startup.phase` is the position of the
goroutine of `startDownstreamLocked`; `caller[c]` is a goroutine in
`GetOrCreateSession`, `EnsureReady` or `BeginRequest`. `live` is the set of
processes that run in the world. A caller that took a session record keeps
`holds` until the record leaves the table, which models the pointer comparison
of the code.

`SharedSession.cfg`: 2 sessions, 2 callers, 3 processes, `max_sessions` 1. Two
callers are enough for an admission or a request to race another one; three
processes allow a first start, a respawn and one more after it. TLC visits every
reachable state, about 540 thousand under symmetry. `SharedSessionLive.cfg`:
one of each with two processes, for the liveness properties. Fairness: runnable goroutines run,
armed timers fire, a dispatched request ends (every call has a request
deadline). Clients are never obliged to call, processes never to exit, nobody
to call CloseAll.

### LeaseGateway

`lease` is the table of `leaseRecord`s by session id, `actor` the HTTP handlers
and the reaper, `orphans` the reservations left by ambiguous initializes,
`gauge` the active-sessions metric, `gate` the answer of the coordinator, which
moves freely here (ManagedBackend models it). The reaper and the handlers share
the actions of `pruneIdle`. `LeaseGateway.cfg` issues every session id once, as
a backend should, and checks capacity and exclusion. `LeaseGatewayReuse.cfg` lets the
backend issue an id again, which the identity checks of `BeginRequest` and
`FinalizeClose` are there for, and checks the liveness properties; its fairness
is that handlers whose round trip ends go on.

### ManagedBackend

`state`/`req` are the `BackendCoordinator`, `recycler` the goroutine of
`recycleManagedHTTPBackend`, `monitor` that of `monitorManagedHTTPBackend`,
`serve`/`pstate`/`generation`/`child` the `ManagedProcess` and its suture loop,
`event` the coalescing lifecycle channel. `MaxStarts` is the restart limit with
the first start counted, `MaxRecycles` bounds the ambiguous results. `Policy` is
the `restart_policy`, `never` included, and `CleanExit` lets the backend exit with
status 0, by itself or on SIGTERM; `ManagedBackend.cfg` has both under the default
policy `on-failure`, so a recycle may end with no process at all. `GatewayReopens`
then asks for nothing, and `RecycledIdsGo` still asks that the sessions of the old
process go and stay away. Fairness: goroutines run, round trips end, and a child
that got SIGTERM exits (`RequestRestart` does not escalate; that is listed as a
hazard).

### ToolCall

`breaker` per proxy session, `slots` the limiter's channel, `inflight` and
`cache` the coordinator. Two calls of one proxy session and one of another share
limiter and coordinator, with one shared key beside calls that are not shared.
`Acquire` is strongly fair because a Go channel serves its senders in order.

### PerSessionManager and ProxySession

`session` is the manager's table (a reserved id is the nil entry of the code),
`transport` the SDK connection and subprocess of an id, `removal` how far
`closeTrackedSession` has come with one: callbacks, the close of the proxy
session, the close of the connection. An id is a proxy session and a
generation; `respawnDownstream` makes the next one. `proxy` holds the fields of
`proxySession`, `byDownstream` and `byUpstream` the session index, `pc` the
threads of a proxy session, `probe` the health probe of each generation.

`closeDownstream` is one action, although its `closeMu` section ends with the
pointer and the index entries go right after it (`proxy.go:2246-2251`). Left out is
what a rekey does between the two: it may lose its `byUpstream` entry, which no
property looks at. `SpawnSession` is two: the reservation and the outcome, with
the handshake and the store in one step. A close of a connection runs on after
`RemoveSession` here, where the code lets its caller wait; that only adds
interleavings. Nothing is assumed of calls in flight at a DELETE.

`ProxySession.cfg`: one proxy session with three generations under
`max_sessions` 2. Proxy sessions share nothing but the admission count, so a
second one would only refuse spawns, which a failing spawn does already; three
generations let a step decided on one find the next and the one after it, and
two places make a respawn meet the limit while the old entry is still there.
TLC visits all of about 1.4 million states.

A subprocess may send list_changed as soon as it is connected, also before the
constructor has set the pointer, and the handler then respawns beside the
constructor (`proxy.go:1354`). `overtaken` is a history variable that records it.
`GateBeforeClose` speaks of all proxy sessions but those; what goes wrong in them
is `ProxySessionEarly.cfg` (below). A notification sent within
the spawn, before the manager has the entry of the session, is left out.

What the code does not promise, and the model shows it does not hold: a removal
or a health probe decided on one generation may close the next one; a spawn in
flight during `CloseAll` leaves its session in the table; the index may keep the
entry of an old generation. Each costs a respawn or waits for the reaper; the
properties say what stays true all the same.

### ServerLifecycle

One server in the registry. `srv` holds every `ManagedServer` object made for
it, because pointers to a removed one live on in events; `reg` is the one in the
table, `service` the one whose process the supervisor runs, `listener` and
`worker` the objects that are bound. `MaxAdds` and `QueueCap` are bounds of the
model (the code's queue is longer; a short one makes it fill). `listener` is the
entry in the `PortManager`: a socket that cannot be bound is reported by a goroutine
later (`handler.go:158-164`), which leaves the entry.

Nothing serializes the operations, neither in the code nor here. Signals are
handled from before `Daemon.Start` (`shutdown.go:103-106`), tool calls from the end
of its `StartAll` (`Serving`), and both go on while `setupHTTPProxies` lists the
servers and binds them. A shutdown may begin at any moment of it; it waits for the
tool calls (`adminServer.Stop`), and the servers started behind its back stay, as
`PortManager.Close` does not refuse a later listener either.

Start and Stop change the state under a lock, release it, and send the event
later. `raced` is a history variable: a Start or a Stop took effect while another
one was between its lock and its event, or while `Daemon.Start` was between its
look at a server and its listener, or a Start during the shutdown (`Midway`,
`Crosses`). The three properties hold until then and are silent afterwards, so
`ServerLifecycle.cfg` stops there (`UntilRaced`): operations may overlap in every
other way, wait for the guard, return early, remove and add under each other, and a
race is one step, not an assumption about callers. `ServerLifecycleRestarts.cfg`
shows the race itself (below). The run has one admin goroutine
beside the signals and `Daemon.Start`, three objects and a queue of two; about 1.3
million states.

Left out: a reload while `Daemon.Start` still loads the configuration and
reconciles, and the cancelled context of `d.cancel()`, which ends what the
supervisor still runs after the registry is closed.

### SharedProxy

A shared-mode proxy session has no subprocess of its own: it holds a lease of
the shared manager (`lease`, with `GetOrCreateSession` split into tracking,
outcome and roll-back), a downstream pointer that a respawn refreshes
(`subscribers`, `notifying` are the `OnRespawn` table and the callbacks of one
startup), entries in the session index, and the SDK's upstream session (`sdk`).
`proxy` holds the fields of `proxySession`, `once` whether `closeOnce` has run;
`conn` is the `DisconnectTracker`, with timer states `armed` and `fired`;
`streams` counts the connections that are really open. A client has one `pc`
per thread that may act for it: constructor, initialized handler, tool call,
DELETE, expiry callback, grace timer.

`closeDownstream` is one action, as in `ProxySession`. The process is a Boolean
(`SharedSession` has it in full) that dies and comes back at will.

`SharedProxy.cfg`: one client with two streams. Clients share the process only,
which moves freely, so a second one would multiply the states and add nothing;
two streams let one close while another is opened. Both values of `idleReap`
are initial states, since `LeaseEndsWithSession` needs a `session_timeout` and
`GoneClientIsReaped` must hold without one. Fairness: threads that have started
go on, timers fire, the reaper comes round, and the SDK ends a session whose
handlers have returned. Nothing is asked of clients or of the process.

### SlotMultiplexer

A manager and a `slotEntry` are named `<<slot, start of the member>>`. `slots`
and `entry` are `m.slots` and the objects in it, `byUpstream` the bindings under
the pending key and under the upstream session id, `chosen` the manager a client
was given, `hooked` the managers with the group's removal observer. The members
(`running`, `started`, `handled`, `listening`) restart, and the daemon's handler,
which takes one event at a time, closes their manager and replaces the entries.
`verdict` stands for reachability and the quarantine of two seconds: any set of
slots may be out of favour when a client is placed.

`SlotMultiplexer.cfg`: two slots with one place each and two clients, one of
which respawns its downstream. Initially any of the members may be without a
listener. `MaxManagers` 2 lets one member restart, or come up late, when the
group starts with one member; a group of two starts with no restart ahead. One
restart is enough for an entry to be replaced under a live reservation, two
clients for a race past the admission check. TLC visits all of about 950
thousand states; the theorems hold for any numbers.

### Custody and Ownership

`Custody` says what the lease file is for, in five actions without processes or
signals: every backend that runs is booked, is about to be booked, or was given
up in the open; the next one starts only when that is so; an entry is erased or
replaced only when its backend is gone or given up. `Ownership` implements it:
`ImplementsCustody` is `CustodySpec` under the refinement mapping in the module
(`live` are the tokens with a process, `booked` the lease file's token,
`pending` a spawn whose lease is being recorded, `givenUp` a history variable
that only `GroupLingers`, `RecordFails` and a death of the daemon between spawn
and record add to).

`group` is the operating system: per process group id the token of the backend
in it, whether its leader lives, and a child that may have inherited the token or
cleared its environment, and the strongest signal the daemon has sent it (`sig`). A
SIGTERM forces nothing, a SIGKILL ends what it hits. A free id may go to a foreign
group. `svc` is the
`ManagedProcess` and the position of its `Serve`, `ctl` the goroutine of the
daemon that reconciles, starts and stops the server, `lease` the file, which
survives `DaemonDies`. A verification sees a state and may always come out as
`unknown` (unreadable `/proc`); an edited configuration makes it a conflict.

`Ownership.cfg`: two group ids, so that an id is reused while another is in use,
and three spawns, so that a restart follows a failed cleanup. TLC visits about
800 thousand states. Fairness: `Serve` and the reconciler go on, since all their
waits have timeouts. Assumed: an id is not handed out again between the last
verification and the signal that follows it, nor before `Serve` has seen its
leader exit; a scan of `/proc` finds every member of a group (`ListMembers` reads
entry by entry, so one that forks and exits during the scan could be missed); and a
`Serve` in backoff ends at once when its server is stopped.

`Custody` is generous in one place: a group that outlives its leader and the
shutdown timeout counts as given up, since `Serve` then keeps the lease but the
next spawn records over it (`process.go:418`). The refinement shows that this is
the only way, with a failed record and a death of the daemon before the record, to
lose a backend; `OwnershipStop.cfg` shows what it costs.

## What the runs show

Every property of a passing run has a mutant in `PROJECT.json` that TLC refutes
under the same configuration. The comment above each property says what it
means for the code.

* Shared sessions (`SharedSession.cfg`, `SharedSessionLive.cfg`): one process at
  a time, none leaked, counters exact, a drain before every recovery; admissions
  and `CloseAll` return, an unreferenced process is reaped.
* Leases (`LeaseGateway.cfg`, `LeaseGatewayReuse.cfg`): capacity, exclusion of
  cleanup and requests, one owner of an expiry, exact books even if an id is
  issued twice; cleanups and initializes end.
* Managed backend (`ManagedBackend.cfg`): drains wait, old ids are invalidated
  before the gateway reopens, it reopens while suture restarts the process, and the
  sessions of a recycled process go for good, restarted or not.
* Tool calls (`ToolCall.cfg`): breaker, limiter and coordinator stay consistent
  on every error path and every call returns.
* Server lifecycle (`ServerLifecycle.cfg`): what runs is bound, what is stopped
  is not, and shutdown leaves nothing bound, until two operations race.
* Proxy sessions (`ProxySession.cfg`, `SharedProxy.cfg`): credit, pointer,
  index and manager entries agree through every order of close and respawn; in
  shared mode a closed session is forgotten by indexes, manager and SDK, also
  when it was closed during its construction or its publication, a lease it
  reacquired too late is taken back, and a client that dropped its last stream
  is closed.
* Slots (`SlotMultiplexer.cfg`): reservations are counted once and, for a session
  that was published alive, given back.
* Ownership (`Ownership.cfg`): the refinement of `Custody`; the reconciler sends
  SIGTERM and SIGKILL only to groups it has just verified, and SIGKILL only after
  SIGTERM; an orphan is gone before its server starts or blocks it, also when a
  blocked server is reconciled once more.

`TypeOK` of each module is stated there and is not part of the listed runs; it is
proved for every module, for `ToolCall` but for the type of its cache.

## Where the code differs

`SlotMultiplexerDenied.cfg` is a listed run that ends in a violation. The load
of a slot is the sessions of its manager plus its pending count, and the pending
count of a session is dropped only when it closes. So every session counts
twice, and a member with `max_sessions` 2 refuses its second client, where
`docs/CONFIGURATION.md` adds only initializations in flight to the sessions.

The configurations below also end in a violation; they are kept to reproduce
it, with `tlc -config <cfg> MC<module>`.

* `SlotMultiplexerReaped.cfg` (`DeniedOnlyWhenFull`): a session reaped after its
  spawn and before its initialized notification has no upstream id, so its close
  never releases the reservation (`proxy.go:2249`), although the comment above
  calls this the terminal cleanup that "runs on every close". The group then
  denies clients while its slots are empty.
* `OwnershipStop.cfg` (`StopEndsCleanup`): a child that outlives its leader past
  the shutdown timeout leaves the service in a terminal state with its lease.
  `RemoveServerAndWait` takes that state as cleaned up, the reference is cleared
  and the next start overwrites the lease; `supervisor.go:109-110` says callers
  must not clear it "before process-group cleanup ends".
* `ToolCallProbe.cfg` (`ProbeAllowedAfterRecovery`): a call that was let through
  as the half-open probe can return without recording a result (it ends in the
  limiter's queue, finds no downstream, or fails with an error that does not
  count). The probe flag stays set and the circuit never closes again, where
  `resilience_test.go:121` expects "a half-open probe after recovery timeout".
* `ManagedBackendCleanExit.cfg` (`RecycleReplaces`): recycling sends SIGTERM and
  leaves the rest to the restart policy. Under the default `on-failure` a backend
  that exits 0 is not started again, where `process.go:645-646` says suture "owns
  the subsequent restart".
* `ManagedBackendLateFinish.cfg` (`RecycleReopens`): `DrainAndRecycle` sets the
  gateway to probing after `recycle()` has returned (`backend.go:144`). If the
  replacement has been probed and opened before that, nobody opens it until the
  process changes again; the comment of `DrainAndRecycle` says callers "must complete readiness".
* `ProxySessionEarly.cfg` (`ClosedGainsNoPointer`): the handler of list_changed
  takes a pointer that is not set yet for a closed one and respawns while the
  constructor publishes the first generation. The rekey of that respawn drops the
  owner entry of the first generation, so a removal closes its connection without
  closing the proxy session, and the constructor stores the pointer. The comment
  above that line (`proxy.go:1091-1093`) says that "a closed generation must not
  gain a live downstream pointer".
* `ServerLifecycleRestarts.cfg` (`EventsFollowStates`): events are sent after the
  lock is released, so a Start and a Stop that overlap on one server may send them
  in the other order, where `registry.go:199-200` says that the handler "receives
  events in the order those state changes occurred". The server then runs, and the
  last thing the handler hears is that it stopped.

Two statements of the code's comments are defined in `SharedProxy` and do not
hold either; adding them to `SharedProxy.cfg` shows it. `ReconnectionStopsReap`:
`disconnect.go:17` says one mutex eliminates the race of check and use, but the
result of `Stop` is ignored and the reap does not look at the count again, so a
client that reconnects as its timer fires is closed. `NeverReacquired`:
`proxy.go:2210` says a session that was closed never reacquires its lease;
`getDownstream` may, and `LeaseEndsWithSession` says what comes of it.

Seen while modelling, with no property: a respawn of a group session goes to the
manager chosen at its start, which may be retired; a subscription made after an
expiry closed the session under construction stays when the tool listing then
fails; a failed record kills the group of the lease that is still active, not
that of the new child (`process.go:474`).

`CHECK_DEADLOCK` is off throughout: clients need not call again and a closed
manager, a stopped daemon or an exhausted restart limit really stops.

## What is proved

`SharedSessionProofs` proves eight theorems about `SharedSession!Spec` for
every set of sessions, callers and processes and every value of the other
constants (`ConstantsAssumption`): all the properties of `SharedSession.cfg`,
its `TypeOK`, and that nothing runs once `CloseAll` has returned.

* `TypeCorrect` is inductive by itself.
* `SingleProcess`, `EveryProcessOwned` and `CloseAllIsFinal` need
  `ProcessHolders`: at each position of the startup goroutine and of CloseAll it
  says which of `downstream`, `startup.old`, `startup.ds` and `closeDs` may name
  a process, and that two that do name the same. "At most one runs" alone is not
  inductive, because nothing in it says that the goroutine about to spawn is the
  only holder.
* `RefCount` and `ActiveRequests` relate a counter to the cardinality of a set
  of records or callers; the step lemmas add or remove one element.
* `DrainBeforeRecovery` strengthens with what the drain flag means while the
  startup waits.
* `AdmittedHasDownstream` follows the news of a success: `AdmitInv` adds that no
  call which holds a record has been told "ok" while the manager is bare, that a
  finished startup leaves a downstream or its error, and that only a tracked
  record is admitted. The idle reap is the step that needs it: a refcount of zero
  has to mean that nobody still believes in the process it closes.

`LeaseGatewayProofs` proves six about `LeaseGateway!Spec` for any finite sets of
handlers and ids and any `max_sessions`.

* `CapacityHolds` and `BooksHold` need what the record of a goroutine may hold at
  each of its positions (`Positions`) and that a request is counted on a record
  that is there (`HoldersLive`). They make no assumption about the backend: an id
  may be issued again while an old request still carries it.
* `NoRequestHolds`, `OneOwnerHolds` and `DeletedHolds` assume `UniqueIds`, that the
  backend issues an id once. TLC refutes each of them under the constants of
  `LeaseGatewayReuse.cfg`, where a prune that has decided to close an id may meet
  the new session under it. Their invariant `UInv` says that the ids two
  goroutines have to clean up are disjoint, that an expiring lease is among them,
  and that a lease whose DELETE was dispatched is either still in the hands of
  its goroutine or in quarantine.

`DaemonProofs` proves five theorems about `ServerLifecycle!Spec` for any set of
admin goroutines, any number of objects, any capacity of the queue, managed or
stdio, whether stops may time out or not, with no assumption on the operations.
`LifecycleTypes` comes first: an actor or an event only names objects that were
made, and the signal goroutine is the only one that makes them (`Named`).

`RunningHolds`, `StoppedHolds` and `ShutdownHolds` are the properties of
`ServerLifecycle.cfg`. They follow from `LifecycleSound`, `raced \/ IInv`: a step of
a behaviour that has not raced keeps `IInv` or is the race (`StepSound`), and a race
is remembered (`RaceStays`). `IInv` rests on two definitions. `Handled` is what the
handler was last told, the object that started or 0 for a stop, and `Last` what it
will have been told when the queue is empty.

* `Alone` says that one operation at most is between its first lock and its event
  (`Taking`). The others may wait, be about to take the lock, remove or add; the
  lemmas of the first group show that such steps change nothing of what `IInv` says
  of the one at work (`Passing`).
* `News` ties `Last` to the registry: a running server whose Started has been sent
  is the last thing the handler hears of, and what it hears of last is the server
  in the table or one whose stop timed out. This is what the order of the queue
  is for, and none of the properties speaks of it.
* `Alternate` says that a Started follows a Stopped in the queue, so that the
  teardown of the old object is over when the setup of the next one begins.
* `Owed` says that the listener is that of the object the handler works on or was
  last told of, or that the handler will hear of its stop, or of its start, which
  `Daemon.Start` did not wait for: it may bind a server between its lock and its
  event. `Boot` says that it only binds one that runs, which is where a race with
  its setup would break in.
* `Bound` is `RunningIsBound` at the end of the handler's setup, for the queue that
  is empty then. A setup leaves early when it finds another one under way; `Boot`
  says that this can only be that of `Daemon.Start` for the same object.
* `Objects` and `Processes` say which operation is responsible for a server that is
  starting or stopping and for a process without its server; `Shut` follows the
  shutdown, after whose last stop no operation is at work any more, so that no
  event is dropped.

`DaemonProofs` also proves three about `BackendSpec` of `ManagedBackend`, the process
behind a managed server, for any finite set of requests and every restart limit and
policy. `OldIdsHold` rests on what the monitor knows of the process: generations it has seen are never ahead of the
real one (`Generations`), and a lease, or an initialize that may still commit
one, is of the generation last found ready or a later one (`Admitted`); a lease
alone is not enough, since an initialize may be admitted by one process and
answered by the next. `DrainHolds` strengthens with when the drain's channel is
closed (`Drain`). `BackendTypes` includes that `inFlight` is the number of requests
on their way.

`ProxySessionProofs` proves four about `ProxySession!Spec` for any finite set of
proxy sessions, any number of generations and any `max_sessions`.

* `Sound(p)` is what one proxy session keeps: `closeOnce` is used up exactly while
  it is closed, a respawn works on a newer generation than the current one, and
  an entry of the manager is that of the current generation or of the respawn
  under way. `CreditHolds` and `EntriesHold` follow.
* `GateHolds` assumes nothing of the subprocess; its invariant is that a proxy
  session is `overtaken` or `Steady`. `Steady(p)` says that the constructor is
  alone until it is done, that what the manager holds is open, and that the
  connection the proxy dispatches to is open with its owner in the index, so that
  its removal still has to pass the gate. A respawn that overlaps the constructor
  would take that owner away.

`SharedProxyProofs` proves two about `SharedProxy!Spec` for any finite set of clients
and any number of streams. `ClosedHolds` is `ClosedIsFinal`. Its invariant says of a
client that a closed session has no pointer and no credit (`Detached`), that only
its publication puts it back into the index and then checks again (`Indexed`),
and that the handler of initialized, which re-arms `closeOnce`, makes good a close
that came before the subscription (`Subscribed`).

`ToolCallProofs` proves four about `ToolCall!Spec`, again for every value of
the constants (for `Threshold` any positive number, and with or without a
limiter).

* `CircuitConsistent`: a step changes at most one breaker, by one of four
  updates (`BreakerStep`), and each of them keeps one breaker consistent
  (`ConsistentUpdates`); so the order in which results arrive does not matter.
* `SingleFlight` strengthens `OneCallPerKey` with its converse, that a call on
  its way for a key is the one in the table (`LeadInv`). Without it a finishing
  call could take another call's entry away.
* `TablesTyped` is `TypeOK` without the cache: there are never more tokens than
  calls, and none at all without a limiter.
* `TokensExact` counts the calls between acquire and release; it rests on
  `LeadInv`, because the step that wakes the followers must not touch a call
  that holds a token.

`SlotMultiplexerProofs` proves every invariant of `SlotMultiplexer.cfg` and the
module's `TypeOK` for any finite sets of slots and clients, any `max_sessions`
and any bounds.

* The inductive invariant is `IInv == TypeOK /\ Counts /\ Stages /\ GensLeft`.
  `Counts` is `PendingExact` with `NeverCrowded`: a selection adds one key to the
  entry that is below its limit, a release takes one away, a rebind moves one,
  and the replacement of entries leaves them with their counts.
* `NoStrayReservation` is not inductive. `Stages` says at each position of a
  client's threads which of its two keys must be free; what makes it inductive is
  that an initialized handler between its credit and its recheck will close
  again, so the key it leaves behind is still going to be released.
* `GensLeft` keeps the id of a respawn under way within its bounds.

`OwnershipProofs` proves the safety of `Ownership!Spec` for any set of process
group ids, any number of spawns and every restart policy
(`OwnershipAssumption`; the model value `None` is not a lease,
`NoneAssumption`).

* `Implements`: the leases implement `Custody`. Spawn, record and release, every
  death of a process and a crash of the daemon between spawn and record are
  steps of it, all others stutter. `ReclaimSpares`: the reconciler only signals a
  group it has just verified, and kills none it has not sent a SIGTERM. `OwnershipTypes`: the variables keep their types.
* The inductive invariant `IInv` adds to the types that tokens and generations
  are never ahead of the spawns (`Fresh`, `Generations`), that a token lives in
  one group which the lease and Serve name rightly (`OneGroup`, `LeaseNames`,
  `ServeHolds`), that a backend nobody has given up is in the hands of Serve or
  in the lease of a server without Serve (`Custodian`), and that the reconciler
  works on the lease in place while no Serve exists (`ReconcilesAlone`). The
  step that needs them all is the spawn: nothing in its guard says that the
  backends before it are gone.

It also proves what follows for the abstract specification `Custody`, and so for
the leases: a running backend nobody gave up is in the book or about to be
(`AllAccounted`), and two of them never run side by side (`OnlyOneInCharge`).

So every safety property of a passing run is a theorem. Only model-checked:
liveness everywhere, whose runs use fairness; and the type of the cache of
`ToolCall`, which would take an induction over the sequence that `SelectSeq`
filters. What the code violates is shown by the runs only.

## Not modelled

Configuration parsing, middleware, metrics other than the gauge, the CLI and the
plugin: sequential or request-local code. Reachability evidence and the admin
status derived from it: a table written by one worker per server, whose verdict
the other modules take as open. JSON-RPC classification and the wording of
errors are abstracted to the outcomes the control flow tells apart. The
catalogue refresh of proxy sessions, sessions opened on a member's own endpoint
beside its group, several leases in one ownership directory, the file format of
leases and the parsing of `/proc` are left out. So is the timeout of the event
handler: after it the code itself gives up the order of events.

## Plan

1. Reachability evidence, its freshness and thresholds, and the slot verdict
   derived from it.
2. Sessions opened on a member's own endpoint, in `SlotMultiplexer`.
