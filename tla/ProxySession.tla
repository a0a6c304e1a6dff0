---------------------------- MODULE ProxySession ----------------------------
(***************************************************************************)
(* Proxy sessions of a stateful stdio server (src/internal/mcp/proxy.go):  *)
(* each has a downstream session of the PerSessionManager, which it may    *)
(* lose and replace by a new generation, and an upstream client.  One      *)
(* action is one critical section of closeMu, downstreamMu or the session  *)
(* index, or one round trip to the subprocess.                             *)
(*                                                                         *)
(* The threads of a proxy session are its constructor, the handler of      *)
(* notifications/initialized, the tool call or notification that respawns  *)
(* (respawnMu admits one), the handler of DELETE, and a health probe per   *)
(* generation.  Threads of the manager run its removals; that the caller   *)
(* of RemoveSession waits for the close is left out, which adds            *)
(* interleavings and takes none away.                                      *)
(***************************************************************************)
EXTENDS PerSessionManager

CONSTANTS
  Proxies,
  MaxGens     \* bound of the model: generations per proxy session

ASSUME ConstantsAssumption ==
  /\ Ids = Proxies \X (1 .. MaxGens)
  /\ IsFiniteSet(Proxies) /\ MaxGens \in Nat \ {0} /\ MaxSessions \in Nat

VARIABLES
  proxy,                     \* fields of proxySession, see Proxy
  byDownstream, byUpstream,  \* the index: ids and proxy sessions with an entry
  pc,                        \* per proxy session, where its threads are
  probe                      \* of each id, its health probe

indexVars == <<byDownstream, byUpstream>>
proxyVars == <<proxy, indexVars>>
vars      == <<managerVars, proxyVars, pc, probe>>

(* id is sessionID, gens the last id generated, old the oldSessionID of a  *)
(* respawn, ds the downstream pointer (0 for nil), once whether closeOnce  *)
(* is used up, counted the active-session credit, upstream whether there   *)
(* is an upstreamSessionID.  overtaken is history, read by properties      *)
(* only: a respawn began before the constructor had set the pointer.       *)
Proxy == [id: 1 .. MaxGens, gens: 1 .. MaxGens, old: 1 .. MaxGens,
          ds: 0 .. MaxGens, closed: BOOLEAN, once: BOOLEAN, counted: BOOLEAN,
          upstream: BOOLEAN, overtaken: BOOLEAN]
Threads == [create: {"none", "spawn", "attach", "list", "serving", "undo", "failed"},
            init: {"none", "credit", "publish", "publishDead", "recheck", "lost", "done"},
            respawn: {"none", "spawn", "rekey", "list", "drop", "abandon", "retire",
                      "retireOnly"},
            delete: {"none", "close", "remove"}]

First(p)   == <<p, 1>>
Current(p) == <<p, proxy[p].id>>
Newest(p)  == <<p, proxy[p].gens>>
Live(p)    == ~proxy[p].closed /\ proxy[p].ds # 0

Init ==
  /\ ManagerInit
  /\ proxy = [p \in Proxies |-> [id |-> 1, gens |-> 1, old |-> 1, ds |-> 0,
                                 closed |-> FALSE, once |-> FALSE, counted |-> FALSE,
                                 upstream |-> FALSE, overtaken |-> FALSE]]
  /\ byDownstream = {} /\ byUpstream = {}
  /\ pc = [p \in Proxies |-> [create |-> "none", init |-> "none", respawn |-> "none",
                              delete |-> "none"]]
  /\ probe = [i \in Ids |-> "off"]

---------------------------------------------------------------------------
(* closeDownstream.  The closeMu section ends with the pointer; the index  *)
(* entries go right after it, outside closeMu.  The two are one step here: *)
(* a Rekey that runs between them, and loses its entry of byUpstream, is   *)
(* left out.                                                               *)
CloseDownstream(p) ==
  /\ proxy' = [proxy EXCEPT ![p] =
       IF @.once THEN @
       ELSE [@ EXCEPT !.once = TRUE, !.counted = FALSE, !.closed = TRUE, !.ds = 0]]
  /\ byDownstream' = byDownstream \ {Current(p)}
  /\ byUpstream'   = IF proxy[p].upstream THEN byUpstream \ {p} ELSE byUpstream

---------------------------------------------------------------------------
(* newPerSessionServer, for an initialize request.  The removal owner is   *)
(* registered before the spawn; a refusal leaves nothing behind.           *)
Create(p, from, to) ==
  pc[p].create = from /\ pc' = [pc EXCEPT ![p].create = to]

Open(p) ==
  /\ Create(p, "none", "spawn")
  /\ byDownstream' = byDownstream \cup {First(p)}
  /\ Reserve(First(p))
  /\ UNCHANGED <<proxy, byUpstream, probe>>

OpenFails(p) ==
  /\ Create(p, "spawn", "failed")
  /\ SpawnFails(First(p))
  /\ byDownstream' = byDownstream \ {First(p)}
  /\ UNCHANGED <<proxy, byUpstream, probe>>

Opened(p) ==
  /\ Create(p, "spawn", "attach")
  /\ Spawned(First(p))
  /\ UNCHANGED <<proxyVars, probe>>

Attach(p) ==
  /\ Create(p, "attach", "list")
  /\ proxy' = [proxy EXCEPT ![p].ds = IF proxy[p].closed THEN @ ELSE 1]
  /\ UNCHANGED <<managerVars, indexVars, probe>>

Listed(p) ==
  /\ Create(p, "list", "serving")
  /\ probe' = [probe EXCEPT ![First(p)] = "on"]
  /\ UNCHANGED <<managerVars, proxyVars>>

ListFails(p) ==
  /\ Create(p, "list", "undo")
  /\ CloseDownstream(p)
  /\ UNCHANGED <<managerVars, probe>>

Undo(p) ==
  /\ Create(p, "undo", "failed")
  /\ RemoveSession(First(p))
  /\ UNCHANGED <<proxyVars, probe>>

---------------------------------------------------------------------------
(* The handler of notifications/initialized and publishInitialized.        *)
InitStep(p, from, to) ==
  pc[p].init = from /\ pc' = [pc EXCEPT ![p].init = to]

Initialized(p) ==
  /\ pc[p].create = "serving" /\ InitStep(p, "none", "credit")
  /\ proxy' = [proxy EXCEPT ![p].upstream = TRUE]
  /\ UNCHANGED <<managerVars, indexVars, probe>>

CreditAnyway(p) ==             \* mutant: a closed generation is credited
  /\ InitStep(p, "credit", IF Live(p) THEN "publish" ELSE "publishDead")
  /\ proxy' = [proxy EXCEPT ![p].counted = TRUE]
  /\ UNCHANGED <<managerVars, indexVars, probe>>

Credit(p) ==
  /\ InitStep(p, "credit", IF Live(p) THEN "publish" ELSE "publishDead")
  /\ proxy' = [proxy EXCEPT ![p].counted = @ \/ Live(p)]
  /\ UNCHANGED <<managerVars, indexVars, probe>>

(* Outside closeMu.                                                        *)
Publish(p) ==
  /\ InitStep(p, "publish", "recheck") \/ InitStep(p, "publishDead", "done")
  /\ byUpstream'   = byUpstream \cup {p}
  /\ byDownstream' = byDownstream \cup {Current(p)}
  /\ UNCHANGED <<managerVars, proxy, probe>>

Recheck(p) ==
  /\ InitStep(p, "recheck", IF Live(p) THEN "done" ELSE "lost")
  /\ UNCHANGED <<managerVars, proxyVars, probe>>

LostRace(p) ==
  /\ InitStep(p, "lost", "done")
  /\ CloseDownstream(p)
  /\ UNCHANGED <<managerVars, probe>>

---------------------------------------------------------------------------
(* respawnDownstream, by a call that found no live downstream, or by the   *)
(* handler of a list_changed notification, which a connected subprocess    *)
(* may send before the constructor has set the pointer.  (One sent before  *)
(* the manager has the session's entry, still within the spawn, is left    *)
(* out.)  The SDK lets calls in once it has seen notifications/initialized,*)
(* whose handler may still be about to run; nothing is assumed of the      *)
(* calls in flight at a DELETE.                                            *)
Requested(p) ==
  pc[p].create = "serving" \/ \E g \in 1 .. MaxGens : transport[<<p, g>>] = "open"

RespawnStep(p, from, to) ==
  pc[p].respawn = from /\ pc' = [pc EXCEPT ![p].respawn = to]

Respawn(p) ==
  /\ Requested(p) /\ ~Live(p) /\ proxy[p].gens < MaxGens
  /\ RespawnStep(p, "none", "spawn")
  /\ proxy' = [proxy EXCEPT ![p] =
       [@ EXCEPT !.gens = proxy[p].gens + 1,
                 !.overtaken = proxy[p].overtaken \/ pc[p].create = "attach"]]
  /\ Reserve(<<p, proxy[p].gens + 1>>)
  /\ UNCHANGED <<indexVars, probe>>

RespawnFails(p) ==
  /\ RespawnStep(p, "spawn", "none")
  /\ SpawnFails(Newest(p))
  /\ UNCHANGED <<proxyVars, probe>>

Respawned(p) ==
  /\ RespawnStep(p, "spawn", "rekey")
  /\ Spawned(Newest(p))
  /\ UNCHANGED <<proxyVars, probe>>

Rekey(p) ==
  /\ RespawnStep(p, "rekey", "list")
  /\ proxy' = [proxy EXCEPT ![p].old = proxy[p].id]
  /\ byDownstream' = (byDownstream \ {Current(p)}) \cup {Newest(p)}
  /\ byUpstream'   = IF proxy[p].upstream THEN byUpstream \cup {p} ELSE byUpstream
  /\ UNCHANGED <<managerVars, probe>>

RespawnForgets(p) ==           \* mutant: the half-built session stays with the manager
  /\ RespawnStep(p, "list", "drop")
  /\ UNCHANGED <<managerVars, proxyVars, probe>>

RespawnListFails(p) ==
  /\ RespawnStep(p, "list", "drop")
  /\ RemoveSession(Newest(p))
  /\ UNCHANGED <<proxyVars, probe>>

PublishUnchecked(p) ==         \* mutant: nobody asks the manager
  /\ RespawnStep(p, "list", "retire")
  /\ proxy' = [proxy EXCEPT ![p] =
       [@ EXCEPT !.once = FALSE, !.closed = FALSE, !.id = proxy[p].gens,
                 !.ds = proxy[p].gens,
                 !.counted = proxy[p].counted \/ proxy[p].upstream]]
  /\ UNCHANGED <<managerVars, indexVars, probe>>

(* The closeMu section that publishes the new generation, if the manager   *)
(* still holds it.                                                         *)
PublishRespawn(p) ==
  /\ RespawnStep(p, "list", "retire")
  /\ session[Newest(p)] = "held"
  /\ proxy' = [proxy EXCEPT ![p] =
       [@ EXCEPT !.once = FALSE, !.closed = FALSE, !.id = proxy[p].gens,
                 !.ds = proxy[p].gens,
                 !.counted = proxy[p].counted \/ proxy[p].upstream]]
  /\ UNCHANGED <<managerVars, indexVars, probe>>

AbandonRespawn(p) ==
  /\ RespawnStep(p, "list", "abandon")
  /\ session[Newest(p)] # "held"
  /\ UNCHANGED <<managerVars, proxyVars, probe>>

(* The rekeyed entry goes: a failed tools/list gives up, an abandoned      *)
(* respawn still retires the previous generation.                          *)
DropRekeyed(p) ==
  /\ RespawnStep(p, "drop", "none") \/ RespawnStep(p, "abandon", "retireOnly")
  /\ byDownstream' = byDownstream \ {Newest(p)}
  /\ UNCHANGED <<managerVars, proxy, byUpstream, probe>>

(* The manager may still hold the previous generation, when a health probe *)
(* closed it.                                                              *)
Retire(p) ==
  /\ \/ /\ RespawnStep(p, "retire", "none")
        /\ probe' = [probe EXCEPT ![Newest(p)] = "on"]
     \/ RespawnStep(p, "retireOnly", "none") /\ UNCHANGED probe
  /\ RemoveSession(<<p, proxy[p].old>>)
  /\ UNCHANGED proxyVars

---------------------------------------------------------------------------
(* The handler of DELETE, after the SDK's.                                 *)
DeleteStep(p, from, to) ==
  pc[p].delete = from /\ pc' = [pc EXCEPT ![p].delete = to]

Delete(p) ==
  /\ DeleteStep(p, "none", "close") /\ p \in byUpstream
  /\ UNCHANGED <<managerVars, proxyVars, probe>>

DeleteCloses(p) ==
  /\ DeleteStep(p, "close", "remove")
  /\ CloseDownstream(p)
  /\ UNCHANGED <<managerVars, probe>>

DeleteRemoves(p) ==
  /\ DeleteStep(p, "remove", "none")
  /\ RemoveSession(Current(p))
  /\ UNCHANGED <<proxyVars, probe>>

---------------------------------------------------------------------------
(* The health probe of an id: it reads the pointer, lists the tools, and   *)
(* after the last failure closes the proxy session.  A probe whose context *)
(* is cancelled may still take a tick before it sees that.                 *)
ProbeTrips(i) ==
  /\ probe[i] = "on" /\ proxy[i[1]].ds # 0
  /\ probe' = [probe EXCEPT ![i] = "tripped"]
  /\ UNCHANGED <<managerVars, proxyVars, pc>>

ProbeCloses(i) ==
  /\ probe[i] = "tripped"
  /\ probe' = [probe EXCEPT ![i] = "off"]
  /\ CloseDownstream(i[1])
  /\ UNCHANGED <<managerVars, pc>>

ProbeEnds(i) ==
  /\ probe[i] = "on" /\ proxy[i[1]].ds # i[2]
  /\ probe' = [probe EXCEPT ![i] = "off"]
  /\ UNCHANGED <<managerVars, proxyVars, pc>>

---------------------------------------------------------------------------
(* Removals: the reaper, the owner of the listener, and the tail of every  *)
(* RemoveSession.                                                          *)
Reap(i) == ReapExpiredSession(i) /\ UNCHANGED <<proxyVars, pc, probe>>

CloseListener ==
  /\ \E i \in Ids : session[i] # "absent"
  /\ CloseAll
  /\ UNCHANGED <<proxyVars, pc, probe>>

Notify(i) ==
  /\ Notified(i, IF i \in byDownstream THEN "gate" ELSE "close")
  /\ byDownstream' = byDownstream \ {i}
  /\ UNCHANGED <<proxy, byUpstream, pc, probe>>

Gate(i) == Gated(i) /\ CloseDownstream(i[1]) /\ UNCHANGED <<pc, probe>>

Shut(i) == CloseTransport(i) /\ UNCHANGED <<proxyVars, pc, probe>>

---------------------------------------------------------------------------
ProxyStep(p) ==
  \/ Open(p) \/ OpenFails(p) \/ Opened(p) \/ Attach(p) \/ Listed(p) \/ ListFails(p)
  \/ Undo(p)
  \/ Initialized(p) \/ Credit(p) \/ Publish(p) \/ Recheck(p) \/ LostRace(p)
  \/ Respawn(p) \/ RespawnFails(p) \/ Respawned(p) \/ Rekey(p) \/ RespawnListFails(p)
  \/ PublishRespawn(p) \/ AbandonRespawn(p) \/ DropRekeyed(p) \/ Retire(p)
  \/ Delete(p) \/ DeleteCloses(p) \/ DeleteRemoves(p)

IdStep(i) ==
  \/ ProbeTrips(i) \/ ProbeCloses(i) \/ ProbeEnds(i)
  \/ Reap(i) \/ Notify(i) \/ Gate(i) \/ Shut(i)

Next == (\E p \in Proxies : ProxyStep(p)) \/ (\E i \in Ids : IdStep(i)) \/ CloseListener

Spec == Init /\ [][Next]_vars

---------------------------------------------------------------------------
TypeOK ==
  /\ ManagerTypeOK
  /\ proxy \in [Proxies -> Proxy]
  /\ byDownstream \subseteq Ids /\ byUpstream \subseteq Proxies
  /\ pc \in [Proxies -> Threads]
  /\ probe \in [Ids -> {"off", "on", "tripped"}]
  /\ \A p \in Proxies : proxy[p].closed => proxy[p].once /\ proxy[p].ds = 0

(* The active-session credit follows the life of the downstream through    *)
(* every race of removal, initialization and respawn: it is never left on  *)
(* a closed generation, and a live one of an initialized client has it.    *)
CreditMatchesLife ==
  \A p \in Proxies :
    /\ proxy[p].counted => Live(p)
    /\ Live(p) /\ pc[p].init \notin {"none", "credit"} => proxy[p].counted

(* Calls are gated before the connection is torn down: no published        *)
(* pointer names a closed connection, not even of a generation that was    *)
(* removed while it was being set up or while it replaced another.  The    *)
(* one exception is a proxy session whose constructor stores its pointer   *)
(* over that of a respawn (proxy.go:1095 after 1354).                      *)
GateBeforeClose ==
  \A p \in Proxies :
    Live(p) /\ ~proxy[p].overtaken => transport[<<p, proxy[p].ds>>] = "open"

(* proxy.go:1092: "a closed generation must not gain a live downstream     *)
(* pointer".  The constructor checks whether the proxy session is closed;  *)
(* a respawn that overtook it has taken the owner entry through which the  *)
(* removal closes it, or has opened it again.                              *)
ClosedGainsNoPointer ==
  [][\A p \in Proxies :
       proxy'[p].ds \notin {0, proxy[p].ds}
         => transport[<<p, proxy'[p].ds>>] # "closed"]_vars

(* The admission count does not leak: whatever way respawns end, a proxy   *)
(* session occupies one place of the manager, and two only while it        *)
(* replaces its downstream.                                                *)
OneEntryPerSession ==
  \A p \in Proxies :
    LET entries == {i \in Ids : i[1] = p /\ session[i] # "absent"}
    IN Cardinality(entries) <= IF pc[p].respawn = "none" THEN 1 ELSE 2
=============================================================================
