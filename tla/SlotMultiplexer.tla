-------------------------- MODULE SlotMultiplexer --------------------------
(***************************************************************************)
(* The multiplexer of a slot group (src/internal/slots/multiplexer.go)     *)
(* with what drives it: the factory and the close path of the group's      *)
(* proxy sessions (src/internal/mcp/proxy.go), the session managers of the *)
(* member servers, and the event handler of the daemon, which replaces the *)
(* entries when a member restarts.  One action is one critical section of  *)
(* the multiplexer's, a manager's or a proxy session's lock.               *)
(*                                                                         *)
(* A member server gets a new manager at each start; a manager and the     *)
(* slotEntry objects are named <<slot, number>>.  A client is one upstream *)
(* session of the group; <<client, n>> is its n-th downstream session.     *)
(* ProxySession has the proxy session in full: here its credit is left     *)
(* out, and a lookup is one step with the close or the index change that   *)
(* follows.                                                                *)
(***************************************************************************)
EXTENDS Naturals, FiniteSets

CONSTANTS
  Slots,        \* slot indices
  Clients,
  MaxSessions,  \* max_sessions of each member, 0 for no limit
  Restarting,   \* bound of the model: members that stop and start
  MaxStarts,    \* bound of the model: starts of a member server
  MaxManagers,  \* bound of the model: managers of the group after which none restarts
  Respawning,   \* bound of the model: clients that outlive their downstream
  MaxGens       \* bound of the model: downstream sessions of such a client

ASSUME ConstantsAssumption ==
  /\ Slots \subseteq Nat \ {0} /\ IsFiniteSet(Slots) /\ IsFiniteSet(Clients)
  /\ Restarting \subseteq Slots /\ Respawning \subseteq Clients
  /\ MaxSessions \in Nat /\ MaxStarts \in Nat \ {0} /\ MaxGens \in Nat \ {0}
  /\ MaxManagers \in Nat

VARIABLES
  running,     \* whether the registry has the member running
  started,     \* starts of the member so far
  handled,     \* the newest start whose listener has been set up
  listening,   \* whether the member has a listener
  slots,       \* per slot the number of its entry in m.slots, 0 for none
  entry,       \* the slotEntry objects, see Entry
  byUpstream,  \* per key the entry it is bound to, or None
  hooked,      \* managers that carry the group's removal observer
  hooking,     \* managers that ReplaceEntries has still to look at
  chosen,      \* per client, the manager selected for it
  session,     \* entries of the managers' tables, as in PerSessionManager
  removal,     \* ids taken out whose callbacks have not run yet
  byDownstream, \* the group's index: ids with a removal owner
  proxy,       \* per client, fields of its proxySession, see Proxy
  pc           \* per client, where its threads are

memberVars == <<running, started, handled, listening>>
muxVars    == <<slots, entry, byUpstream, hooked, hooking>>
sessVars   == <<session, removal>>
proxyVars  == <<proxy, byDownstream>>
vars       == <<memberVars, muxVars, chosen, sessVars, proxyVars, pc>>

None     == <<0, 0>>
Objects  == Slots \X (1 .. MaxStarts)
Ids      == Clients \X (1 .. MaxGens)
Keys     == Clients \X {"pending", "upstream"}

Entry == [mgr: 1 .. MaxStarts, pending: Nat]
(* state tells a session that has no downstream yet, has one, or is closed *)
Proxy == [state: {"fresh", "live", "closed"}, gen: 1 .. MaxGens, upstream: BOOLEAN,
          listed: BOOLEAN]
Threads == [create: {"none", "select", "spawn", "connect", "list", "release",
                     "ready", "denied", "failed"},
            init: {"none", "credit", "publish", "publishDead", "recheck", "lost", "done",
                   "doneDead"},
            respawn: {"none", "spawn", "list", "drop", "retire"}]

Current(c) == <<c, proxy[c].gen>>
Newer(c)   == <<c, proxy[c].gen + 1>>

(* The group is set up once some of its members have a listener; the start *)
(* of the others failed, or they were stopped before.                      *)
InitWith(up) ==
  /\ running = [s \in Slots |-> s \in up] /\ started = [s \in Slots |-> 1]
  /\ handled = [s \in Slots |-> 1] /\ listening = [s \in Slots |-> s \in up]
  /\ slots = [s \in Slots |-> IF s \in up THEN 1 ELSE 0]
  /\ entry = [e \in Objects |-> [mgr |-> e[2], pending |-> 0]]
  /\ byUpstream = [k \in Keys |-> None]
  /\ hooked = {<<s, 1>> : s \in up} /\ hooking = {}
  /\ chosen = [c \in Clients |-> None]
  /\ session = [i \in Ids |-> "absent"] /\ removal = {} /\ byDownstream = {}
  /\ proxy = [c \in Clients |-> [state |-> "fresh", gen |-> 1, upstream |-> FALSE,
                                 listed |-> FALSE]]
  /\ pc = [c \in Clients |-> [create |-> "none", init |-> "none", respawn |-> "none"]]

Init == \E up \in (SUBSET Slots) \ {{}} : InitWith(up)

---------------------------------------------------------------------------
(* Load and admission.                                                     *)
Entries  == {<<s, slots[s]>> : s \in {t \in Slots : slots[t] # 0}}
MgrOf(e) == <<e[1], entry[e].mgr>>
SessionCount(m) == Cardinality({i \in Ids : chosen[i[1]] = m /\ session[i] # "absent"})
Load(e) == entry[e].pending + SessionCount(MgrOf(e))
AtCapacity(e)   == MaxSessions > 0 /\ Load(e) >= MaxSessions
GroupFull       == Entries # {} /\ \A e \in Entries : AtCapacity(e)
ManagerFull(m)  == MaxSessions > 0 /\ SessionCount(m) >= MaxSessions

(* verdict leaves out the members that the reachability store has as       *)
(* unhealthy, and those in quarantine after a failure that                 *)
(* ReportSpawnResult noted in the last two seconds.                        *)
Routable(verdict) ==
  {e \in Entries : running[e[1]] /\ e[1] \in verdict /\ ~AtCapacity(e)}

LeastLoaded(e, S) ==
  /\ e \in S
  /\ \A f \in S : Load(e) < Load(f) \/ (Load(e) = Load(f) /\ e[1] <= f[1])

(* Release is idempotent; the count never goes below zero.                 *)
Release(k) ==
  LET e == byUpstream[k]
  IN /\ byUpstream' = [byUpstream EXCEPT ![k] = None]
     /\ entry' = IF e = None THEN entry
                 ELSE [entry EXCEPT ![e].pending = IF @ > 0 THEN @ - 1 ELSE 0]
     /\ UNCHANGED <<slots, hooked, hooking>>

(* closeDownstream: what concerns the downstream goes with closeOnce, the  *)
(* tail with onClosed runs on every close of an initialized session.       *)
CloseWith(c, ids) ==
  /\ proxy' = [proxy EXCEPT ![c] =
       [proxy[c] EXCEPT !.state = "closed", !.listed = proxy[c].listed /\ ~proxy[c].upstream]]
  /\ byDownstream' = byDownstream \ ids
  /\ IF proxy[c].upstream THEN Release(<<c, "upstream">>) ELSE UNCHANGED muxVars

CloseDownstream(c) == CloseWith(c, {Current(c)})

---------------------------------------------------------------------------
(* An initialize request to the group's listener: the admission check,     *)
(* then the SDK calls the factory, which selects, spawns, lists the tools  *)
(* and reports how that went.                                              *)
Create(c, from, to) ==
  pc[c].create = from /\ pc' = [pc EXCEPT ![c].create = to]

Admit(c) ==
  /\ Create(c, "none", "select") /\ ~GroupFull
  /\ UNCHANGED <<memberVars, muxVars, chosen, sessVars, proxyVars>>

Deny(c) ==
  /\ Create(c, "none", "denied") /\ GroupFull
  /\ UNCHANGED <<memberVars, muxVars, chosen, sessVars, proxyVars>>

SelectUnreserved(c) ==         \* mutant: the load of a slot is its sessions alone
  \E verdict \in SUBSET Slots, e \in Entries :
    /\ LeastLoaded(e, Routable(verdict))
    /\ Create(c, "select", "spawn")
    /\ byUpstream' = [byUpstream EXCEPT ![<<c, "pending">>] = e]
    /\ chosen' = [chosen EXCEPT ![c] = MgrOf(e)]
    /\ UNCHANGED <<memberVars, slots, entry, hooked, hooking, sessVars, proxyVars>>

SelectForNewSession(c) ==
  \E verdict \in SUBSET Slots, e \in Entries :
    /\ LeastLoaded(e, Routable(verdict))
    /\ Create(c, "select", "spawn")
    /\ entry' = [entry EXCEPT ![e].pending = @ + 1]
    /\ byUpstream' = [byUpstream EXCEPT ![<<c, "pending">>] = e]
    /\ chosen' = [chosen EXCEPT ![c] = MgrOf(e)]
    /\ UNCHANGED <<memberVars, slots, hooked, hooking, sessVars, proxyVars>>

SelectsNone(c) ==
  /\ Create(c, "select", "denied")
  /\ \E verdict \in SUBSET Slots : Routable(verdict) = {}
  /\ UNCHANGED <<memberVars, muxVars, chosen, sessVars, proxyVars>>

Reserve(c) ==
  /\ Create(c, "spawn", "connect") /\ ~ManagerFull(chosen[c])
  /\ session' = [session EXCEPT ![<<c, 1>>] = "reserved"]
  /\ byDownstream' = byDownstream \cup {<<c, 1>>}
  /\ UNCHANGED <<memberVars, muxVars, chosen, removal, proxy>>

Refused(c) ==
  /\ Create(c, "spawn", "release") /\ ManagerFull(chosen[c])
  /\ UNCHANGED <<memberVars, muxVars, chosen, sessVars, proxyVars>>

(* The pointer is set at once: nothing can close the session before.       *)
Connected(c) ==
  /\ Create(c, "connect", "list")
  /\ session' = [session EXCEPT ![<<c, 1>>] = "held"]
  /\ proxy' = [proxy EXCEPT ![c].state = "live"]
  /\ UNCHANGED <<memberVars, muxVars, chosen, removal, byDownstream>>

ConnectFails(c) ==
  /\ Create(c, "connect", "release")
  /\ session' = [session EXCEPT ![<<c, 1>>] = "absent"]
  /\ byDownstream' = byDownstream \ {<<c, 1>>}
  /\ UNCHANGED <<memberVars, muxVars, chosen, removal, proxy>>

(* closeDownstream, without an upstream session yet, and RemoveSession.    *)
ListFails(c) ==
  /\ Create(c, "list", "release")
  /\ CloseDownstream(c)
  /\ session' = [session EXCEPT ![<<c, 1>>] = "absent"]
  /\ UNCHANGED <<memberVars, chosen, removal>>

Listed(c) ==
  /\ Create(c, "list", "ready")
  /\ UNCHANGED <<memberVars, muxVars, chosen, sessVars, proxyVars>>

ReleasePending(c) ==
  /\ Create(c, "release", "failed")
  /\ Release(<<c, "pending">>)
  /\ UNCHANGED <<memberVars, chosen, sessVars, proxyVars>>

---------------------------------------------------------------------------
(* The handler of notifications/initialized.  onInitialized rebinds the    *)
(* reservation and enters the session into the index.                      *)
InitStep(c, from, to) ==
  pc[c].init = from /\ pc' = [pc EXCEPT ![c].init = to]

Initialized(c) ==
  /\ pc[c].create = "ready" /\ InitStep(c, "none", "credit")
  /\ proxy' = [proxy EXCEPT ![c].upstream = TRUE]
  /\ UNCHANGED <<memberVars, muxVars, chosen, sessVars, byDownstream>>

Credit(c) ==
  /\ InitStep(c, "credit", IF proxy[c].state = "live" THEN "publish" ELSE "publishDead")
  /\ UNCHANGED <<memberVars, muxVars, chosen, sessVars, proxyVars>>

Rebind(c) ==
  /\ InitStep(c, "publish", "recheck") \/ InitStep(c, "publishDead", "doneDead")
  /\ byUpstream' = IF byUpstream[<<c, "pending">>] = None THEN byUpstream
                   ELSE [byUpstream EXCEPT ![<<c, "pending">>] = None,
                                           ![<<c, "upstream">>] = byUpstream[<<c, "pending">>]]
  /\ proxy' = [proxy EXCEPT ![c].listed = TRUE]
  /\ byDownstream' = byDownstream \cup {Current(c)}
  /\ UNCHANGED <<memberVars, slots, entry, hooked, hooking, chosen, sessVars>>

Recheck(c) ==
  /\ InitStep(c, "recheck", IF proxy[c].state = "live" THEN "done" ELSE "lost")
  /\ UNCHANGED <<memberVars, muxVars, chosen, sessVars, proxyVars>>

LostRaceIgnored(c) ==          \* mutant: the close that lost the race is not repeated
  /\ InitStep(c, "lost", "done")
  /\ UNCHANGED <<memberVars, muxVars, chosen, sessVars, proxyVars>>

LostRace(c) ==
  /\ InitStep(c, "lost", "done")
  /\ CloseDownstream(c)
  /\ UNCHANGED <<memberVars, chosen, sessVars>>

---------------------------------------------------------------------------
(* respawnDownstream, by a call that finds no live downstream: it goes to  *)
(* the manager selected at the start and takes no reservation of a slot.   *)
RespawnStep(c, from, to) ==
  pc[c].respawn = from /\ pc' = [pc EXCEPT ![c].respawn = to]

Respawn(c) ==
  /\ pc[c].create = "ready" /\ proxy[c].state # "live"
  /\ c \in Respawning /\ proxy[c].gen < MaxGens
  /\ session[Newer(c)] = "absent" /\ ~ManagerFull(chosen[c])
  /\ RespawnStep(c, "none", "spawn")
  /\ session' = [session EXCEPT ![Newer(c)] = "reserved"]
  /\ UNCHANGED <<memberVars, muxVars, chosen, removal, proxyVars>>

RespawnFails(c) ==
  /\ RespawnStep(c, "spawn", "none")
  /\ session' = [session EXCEPT ![Newer(c)] = "absent"]
  /\ UNCHANGED <<memberVars, muxVars, chosen, removal, proxyVars>>

Respawned(c) ==                \* with onRespawn
  /\ RespawnStep(c, "spawn", "list")
  /\ session' = [session EXCEPT ![Newer(c)] = "held"]
  /\ proxy' = [proxy EXCEPT ![c].listed = @ \/ proxy[c].upstream]
  /\ byDownstream' = (byDownstream \ {Current(c)}) \cup {Newer(c)}
  /\ UNCHANGED <<memberVars, muxVars, chosen, removal>>

RespawnListFails(c) ==
  /\ RespawnStep(c, "list", "drop")
  /\ session' = [session EXCEPT ![Newer(c)] = "absent"]
  /\ removal' = removal \cup {i \in {Newer(c)} : session[i] = "held"}
  /\ UNCHANGED <<memberVars, muxVars, chosen, proxyVars>>

DropRekeyed(c) ==
  /\ RespawnStep(c, "drop", "none")
  /\ byDownstream' = byDownstream \ {Newer(c)}
  /\ UNCHANGED <<memberVars, muxVars, chosen, sessVars, proxy>>

PublishRespawn(c) ==
  /\ pc[c].respawn = "list" /\ session[Newer(c)] = "held"
  /\ pc' = [pc EXCEPT ![c].respawn = "retire",
                      ![c].init = IF @ = "doneDead" THEN "done" ELSE @]
  /\ proxy' = [proxy EXCEPT ![c].state = "live", ![c].gen = @ + 1]
  /\ UNCHANGED <<memberVars, muxVars, chosen, sessVars, byDownstream>>

(* The previous session, which its probe closed, may still be in the       *)
(* table; no owner is left to be told.                                     *)
Retire(c) ==
  /\ RespawnStep(c, "retire", "none")
  /\ session' = [session EXCEPT ![<<c, proxy[c].gen - 1>>] = "absent"]
  /\ UNCHANGED <<memberVars, muxVars, chosen, removal, proxyVars>>

AbandonRespawn(c) ==
  /\ RespawnStep(c, "list", "none") /\ session[Newer(c)] # "held"
  /\ session' = [session EXCEPT ![Current(c)] = "absent"]
  /\ byDownstream' = byDownstream \ {Newer(c)}
  /\ UNCHANGED <<memberVars, muxVars, chosen, removal, proxy>>

---------------------------------------------------------------------------
(* The ends of a session: DELETE, which closes and then removes, with no   *)
(* owner left to be told; the health probe; and the removals of the        *)
(* manager, whose callbacks run after the entry has gone.                  *)
Delete(c) ==
  /\ proxy[c].listed
  /\ CloseDownstream(c)
  /\ session' = [session EXCEPT ![Current(c)] = IF @ = "held" THEN "absent" ELSE @]
  /\ UNCHANGED <<memberVars, chosen, removal, pc>>

ProbeCloses(c) ==
  /\ pc[c].create = "ready" /\ proxy[c].state = "live"
  /\ CloseDownstream(c)
  /\ UNCHANGED <<memberVars, chosen, sessVars, pc>>

Reap(i) ==
  /\ session[i] = "held"
  /\ session' = [session EXCEPT ![i] = "absent"]
  /\ removal' = removal \cup {i}
  /\ UNCHANGED <<memberVars, muxVars, chosen, proxyVars, pc>>

(* The observer of the group closes the proxy session that owns the id.    *)
Notify(i) ==
  /\ i \in removal
  /\ removal' = removal \ {i}
  /\ IF chosen[i[1]] \in hooked /\ i \in byDownstream
       THEN CloseWith(i[1], {i, Current(i[1])})
       ELSE UNCHANGED <<proxyVars, muxVars>>
  /\ UNCHANGED <<memberVars, chosen, session, pc>>

---------------------------------------------------------------------------
(* Member servers, and the daemon's handler of their events, which takes   *)
(* one event at a time.                                                    *)
Restarts(s) ==
  s \in Restarting /\ started[s] < MaxStarts /\ Cardinality(hooked) < MaxManagers

MemberStops(s) ==
  /\ running[s] /\ Restarts(s)
  /\ running' = [running EXCEPT ![s] = FALSE]
  /\ UNCHANGED <<started, handled, listening, muxVars, chosen, sessVars, proxyVars, pc>>

MemberStarts(s) ==
  /\ ~running[s] /\ Restarts(s)
  /\ running' = [running EXCEPT ![s] = TRUE]
  /\ started' = [started EXCEPT ![s] = @ + 1]
  /\ UNCHANGED <<handled, listening, muxVars, chosen, sessVars, proxyVars, pc>>

(* The listener goes, and CloseAll takes every entry of its manager.       *)
HandleStopped(s) ==
  /\ hooking = {} /\ listening[s] /\ (~running[s] \/ started[s] > handled[s])
  /\ listening' = [listening EXCEPT ![s] = FALSE]
  /\ LET gone == {i \in Ids : chosen[i[1]] = <<s, handled[s]>> /\ session[i] # "absent"}
     IN /\ session' = [i \in Ids |-> IF i \in gone THEN "absent" ELSE session[i]]
        /\ removal' = removal \cup {i \in gone : session[i] = "held"}
  /\ UNCHANGED <<running, started, handled, muxVars, chosen, proxyVars, pc>>

(* A new listener, and ReplaceEntries for the members that have one: an    *)
(* entry survives with its count, a slot that had none gets a fresh one.   *)
HandleStartedAfresh(s) ==      \* mutant: the entries are built anew
  /\ hooking = {} /\ running[s] /\ ~listening[s] /\ started[s] > handled[s]
  /\ listening' = [listening EXCEPT ![s] = TRUE]
  /\ handled' = [handled EXCEPT ![s] = started[s]]
  /\ slots' = [t \in Slots |-> IF ~listening'[t] THEN 0
                               ELSE IF slots[t] # 0 THEN slots[t] ELSE handled'[t]]
  /\ entry' = [e \in Objects |-> IF slots'[e[1]] = e[2]
                                   THEN [mgr |-> handled'[e[1]], pending |-> 0]
                                   ELSE entry[e]]
  /\ hooking' = {<<t, handled'[t]>> : t \in {u \in Slots : listening'[u]}}
  /\ UNCHANGED <<running, started, byUpstream, hooked, chosen, sessVars, proxyVars, pc>>

HandleStarted(s) ==
  /\ hooking = {} /\ running[s] /\ ~listening[s] /\ started[s] > handled[s]
  /\ listening' = [listening EXCEPT ![s] = TRUE]
  /\ handled' = [handled EXCEPT ![s] = started[s]]
  /\ slots' = [t \in Slots |-> IF ~listening'[t] THEN 0
                               ELSE IF slots[t] # 0 THEN slots[t] ELSE handled'[t]]
  /\ entry' = [e \in Objects |-> IF slots'[e[1]] = e[2]
                                   THEN [entry[e] EXCEPT !.mgr = handled'[e[1]]]
                                   ELSE entry[e]]
  /\ hooking' = {<<t, handled'[t]>> : t \in {u \in Slots : listening'[u]}}
  /\ UNCHANGED <<running, started, byUpstream, hooked, chosen, sessVars, proxyVars, pc>>

ApplyRemovalHook ==
  /\ hooking # {}
  /\ hooked' = hooked \cup hooking /\ hooking' = {}
  /\ UNCHANGED <<memberVars, slots, entry, byUpstream, chosen, sessVars, proxyVars, pc>>

---------------------------------------------------------------------------
ClientStep(c) ==
  \/ Admit(c) \/ Deny(c) \/ SelectForNewSession(c) \/ SelectsNone(c) \/ Reserve(c)
  \/ Refused(c) \/ Connected(c) \/ ConnectFails(c) \/ ListFails(c) \/ Listed(c)
  \/ ReleasePending(c)
  \/ Initialized(c) \/ Credit(c) \/ Rebind(c) \/ Recheck(c) \/ LostRace(c)
  \/ Respawn(c) \/ RespawnFails(c) \/ Respawned(c) \/ RespawnListFails(c)
  \/ DropRekeyed(c) \/ PublishRespawn(c) \/ Retire(c) \/ AbandonRespawn(c)
  \/ Delete(c) \/ ProbeCloses(c)

MemberStep(s) ==
  MemberStops(s) \/ MemberStarts(s) \/ HandleStopped(s) \/ HandleStarted(s)

Next ==
  \/ \E c \in Clients : ClientStep(c)
  \/ \E i \in Ids : Reap(i) \/ Notify(i)
  \/ \E s \in Slots : MemberStep(s)
  \/ ApplyRemovalHook

Spec == Init /\ [][Next]_vars

---------------------------------------------------------------------------
TypeOK ==
  /\ running \in [Slots -> BOOLEAN] /\ started \in [Slots -> 1 .. MaxStarts]
  /\ handled \in [Slots -> 1 .. MaxStarts] /\ listening \in [Slots -> BOOLEAN]
  /\ slots \in [Slots -> 0 .. MaxStarts]
  /\ entry \in [Objects -> Entry]
  /\ byUpstream \in [Keys -> Objects \cup {None}]
  /\ hooked \subseteq Objects /\ hooking \subseteq Objects
  /\ chosen \in [Clients -> Objects \cup {None}]
  /\ session \in [Ids -> {"absent", "reserved", "held"}]
  /\ removal \subseteq Ids /\ byDownstream \subseteq Ids
  /\ proxy \in [Clients -> Proxy]
  /\ pc \in [Clients -> Threads]

(* The reservations of an entry are exactly the keys bound to it, whatever *)
(* way the entry came through restarts of its member: a count that drifts  *)
(* up takes capacity from the group for good, one that drifts down lets    *)
(* the group overfill a member.                                            *)
Bound(e) == {k \in Keys : byUpstream[k] = e}

PendingExact == \A e \in Objects : entry[e].pending = Cardinality(Bound(e))

(* SelectForNewSession reserves before it gives up the lock, so requests   *)
(* that raced through the admission check never reserve more than          *)
(* max_sessions places of one member, not even while its managers are      *)
(* replaced.                                                               *)
NeverCrowded ==
  MaxSessions > 0 => \A e \in Objects : Cardinality(Bound(e)) <= MaxSessions

(* A client that was refused a session, or whose session was published     *)
(* alive and is closed, holds no reservation: not when the close raced the *)
(* initialization, and not when a respawn came between.  A session closed  *)
(* before its initialized notification, and published dead after it, keeps *)
(* its reservation until its DELETE or the close of a respawn.             *)
NoStrayReservation ==
  \A c \in Clients :
    \/ pc[c].create \in {"denied", "failed"}
    \/ pc[c].init = "done" /\ proxy[c].state = "closed"
    => \A k \in Keys : k[1] = c => byUpstream[k] = None

(* What docs/CONFIGURATION.md says of the group's capacity: a client is    *)
(* turned away only when every slot has reached its max_sessions, counting *)
(* sessions and initializations in flight.                                 *)
InUse(e) ==
  Cardinality({i \in Ids : chosen[i[1]] = MgrOf(e) /\ (session[i] # "absent" \/ i \in removal)})
  + Cardinality({c \in Clients : chosen[c] = MgrOf(e)
                                 /\ pc[c].create \in {"spawn", "release"}})

DeniedOnlyWhenFull ==
  [][\A c \in Clients : pc[c].create = "none" /\ pc'[c].create = "denied"
                        => \A e \in Entries : InUse(e) >= MaxSessions]_vars
=============================================================================
