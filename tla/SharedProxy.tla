---------------------------- MODULE SharedProxy ----------------------------
(***************************************************************************)
(* Proxy sessions of a shared server (src/internal/mcp/proxy.go) with the  *)
(* DisconnectTracker (src/internal/mcp/disconnect.go).  A proxy session    *)
(* holds a lease of the SharedSessionManager, which the manager's reaper   *)
(* may expire, and an upstream session of the SDK's HTTP handler.  One     *)
(* action is one critical section of closeMu, refMu, the index's or the    *)
(* tracker's lock.                                                         *)
(*                                                                         *)
(* A client is one upstream session: its name stands for the session ids   *)
(* on both sides.  SharedSession has the manager in full: here its         *)
(* downstream is up or not, a wait for its startup is one step, and a      *)
(* lease is the record of one id.                                          *)
(***************************************************************************)
EXTENDS Naturals, FiniteSets

CONSTANTS
  Clients,
  MaxStreams   \* bound of the model: open receive streams of a client

ASSUME ConstantsAssumption == IsFiniteSet(Clients) /\ MaxStreams \in Nat \ {0}

VARIABLES
  idleReap,      \* whether the server has a session_timeout; never changes
  up,            \* whether the manager has a live downstream
  lease,         \* per client, the manager's record of its id, see Lease
  subscribers,   \* ids with an entry in subscribers
  notifying,     \* ids whose OnRespawn has still to run
  byDownstream, byUpstream,  \* the index: ids with an entry
  proxy,         \* fields of proxySession, see Proxy
  sdk,           \* per client, its upstream session in the SDK's handler
  streams,       \* per client, its receive streams inside Wrap
  conn,          \* per client, its connTracker, see Conn
  pc             \* per client, where its threads are

managerVars == <<up, lease, subscribers, notifying>>
indexVars   == <<byDownstream, byUpstream>>
trackerVars == <<streams, conn>>
vars == <<idleReap, managerVars, indexVars, proxy, sdk, trackerVars, pc>>

(* admitted and pending are those of sharedSession, inFlight whether the   *)
(* client's request is counted on this record.                             *)
Lease == [state: {"none", "pending", "admitted"}, expiring: BOOLEAN, inFlight: BOOLEAN]
NoLease == [state |-> "none", expiring |-> FALSE, inFlight |-> FALSE]

(* ds is whether there is a downstream pointer, once whether closeOnce is  *)
(* used up, counted the active-session credit, upstream whether there is   *)
(* an upstreamSession.                                                     *)
Proxy == [ds: BOOLEAN, closed: BOOLEAN, once: BOOLEAN, counted: BOOLEAN, upstream: BOOLEAN]

Conn   == [known: BOOLEAN, refs: 0 .. MaxStreams, timer: {"nil", "armed", "fired"}]
NoConn == [known |-> FALSE, refs |-> 0, timer |-> "nil"]

Threads == [create: {"none", "admit", "attach", "subscribe", "list", "serving", "failed"},
            init: {"none", "credit", "dead", "publish", "recheck", "lost", "done"},
            call: {"none", "handle", "enter", "admit", "answer"},
            delete: {"none", "sdk", "untrack"},
            expiry: {"none", "callback", "close", "remove"},
            reap: {"none", "forget", "close"}]

Init ==
  /\ idleReap \in BOOLEAN
  /\ up \in BOOLEAN /\ lease = [c \in Clients |-> NoLease]
  /\ subscribers = {} /\ notifying = {}
  /\ byDownstream = {} /\ byUpstream = {}
  /\ proxy = [c \in Clients |-> [ds |-> FALSE, closed |-> FALSE, once |-> FALSE,
                                 counted |-> FALSE, upstream |-> FALSE]]
  /\ sdk = [c \in Clients |-> "none"]
  /\ streams = [c \in Clients |-> 0] /\ conn = [c \in Clients |-> NoConn]
  /\ pc = [c \in Clients |-> [create |-> "none", init |-> "none", call |-> "none",
                              delete |-> "none", expiry |-> "none", reap |-> "none"]]

At(c, thread, place)   == pc[c][thread] = place
Goto(c, thread, place) == pc' = [pc EXCEPT ![c][thread] = place]

---------------------------------------------------------------------------
(* The lease: GetOrCreateSession enters the record before the downstream   *)
(* is there, and takes it back if the startup fails and nobody else was    *)
(* admitted on it.  A record that RemoveSession took away is not settled.  *)
EnterLease(c) ==
  lease' = IF lease[c].state = "none" THEN [lease EXCEPT ![c].state = "pending"] ELSE lease

SettleLease(c) ==
  /\ up
  /\ lease' = IF lease[c].state = "none" THEN lease
              ELSE [lease EXCEPT ![c].state = "admitted"]

RollBackLease(c) ==
  lease' = IF lease[c].state = "pending" THEN [lease EXCEPT ![c] = NoLease] ELSE lease

RemoveSession(c) == lease' = [lease EXCEPT ![c] = NoLease]

(* closeDownstream holds closeMu throughout, and what it does to the       *)
(* manager, the pointer and the index is looked at one piece at a time.    *)
(* The upstream session is closed by a goroutine of its own.               *)
CloseDownstream(c) ==
  /\ proxy' = [proxy EXCEPT ![c] =
       IF @.once THEN @
       ELSE [@ EXCEPT !.once = TRUE, !.counted = FALSE, !.closed = TRUE, !.ds = FALSE]]
  /\ IF proxy[c].once THEN UNCHANGED <<lease, subscribers, sdk>>
     ELSE /\ RemoveSession(c)
          /\ subscribers' = subscribers \ {c}
          /\ sdk' = IF proxy[c].upstream /\ sdk[c] = "open"
                      THEN [sdk EXCEPT ![c] = "closing"] ELSE sdk
  /\ byDownstream' = byDownstream \ {c}
  /\ byUpstream' = IF proxy[c].upstream THEN byUpstream \ {c} ELSE byUpstream
  /\ UNCHANGED <<up, notifying>>

---------------------------------------------------------------------------
(* newSharedModeServer, for an initialize request.  The removal owner is   *)
(* registered before the lease exists.                                     *)
Create(c, from, to) == At(c, "create", from) /\ Goto(c, "create", to)

Open(c) ==
  /\ Create(c, "none", "admit")
  /\ byDownstream' = byDownstream \cup {c}
  /\ EnterLease(c)
  /\ UNCHANGED <<idleReap, up, subscribers, notifying, byUpstream, proxy, sdk, trackerVars>>

OpenFails(c) ==
  /\ Create(c, "admit", "failed")
  /\ RollBackLease(c)
  /\ byDownstream' = byDownstream \ {c}
  /\ UNCHANGED <<idleReap, up, subscribers, notifying, byUpstream, proxy, sdk, trackerVars>>

Opened(c) ==
  /\ Create(c, "admit", "attach")
  /\ SettleLease(c)
  /\ UNCHANGED <<idleReap, up, subscribers, notifying, indexVars, proxy, sdk, trackerVars>>

Attach(c) ==
  /\ Create(c, "attach", "subscribe")
  /\ proxy' = [proxy EXCEPT ![c].ds = ~proxy[c].closed]
  /\ UNCHANGED <<idleReap, managerVars, indexVars, sdk, trackerVars>>

Subscribe(c) ==
  /\ Create(c, "subscribe", "list")
  /\ subscribers' = subscribers \cup {c}
  /\ UNCHANGED <<idleReap, up, lease, notifying, indexVars, proxy, sdk, trackerVars>>

Listed(c) ==
  /\ Create(c, "list", "serving")
  /\ sdk' = [sdk EXCEPT ![c] = "open"]
  /\ UNCHANGED <<idleReap, managerVars, indexVars, proxy, trackerVars>>

ListFails(c) ==
  /\ Create(c, "list", "failed")
  /\ CloseDownstream(c)
  /\ UNCHANGED <<idleReap, trackerVars>>

---------------------------------------------------------------------------
(* The handler of notifications/initialized, publishInitialized.  A dead   *)
(* session re-arms closeOnce and closes again, now with an upstream.       *)
InitStep(c, from, to) == At(c, "init", from) /\ Goto(c, "init", to)

Initialized(c) ==
  /\ At(c, "create", "serving") /\ sdk[c] = "open"
  /\ InitStep(c, "none", "credit")
  /\ proxy' = [proxy EXCEPT ![c].upstream = TRUE]
  /\ UNCHANGED <<idleReap, managerVars, indexVars, sdk, trackerVars>>

CreditAnyway(c) ==             \* mutant: a dead session is not closed again
  /\ InitStep(c, "credit", "publish")
  /\ proxy' = [proxy EXCEPT ![c].counted = ~proxy[c].closed]
  /\ UNCHANGED <<idleReap, managerVars, indexVars, sdk, trackerVars>>

Credit(c) ==
  /\ \/ /\ ~proxy[c].closed /\ proxy[c].ds
        /\ InitStep(c, "credit", "publish")
        /\ proxy' = [proxy EXCEPT ![c].counted = TRUE]
     \/ /\ proxy[c].closed \/ ~proxy[c].ds
        /\ InitStep(c, "credit", "dead")
        /\ proxy' = [proxy EXCEPT ![c].once = FALSE]
  /\ UNCHANGED <<idleReap, managerVars, indexVars, sdk, trackerVars>>

CloseDead(c) ==
  /\ InitStep(c, "dead", "done") \/ InitStep(c, "lost", "done")
  /\ CloseDownstream(c)
  /\ UNCHANGED <<idleReap, trackerVars>>

Publish(c) ==
  /\ InitStep(c, "publish", "recheck")
  /\ byUpstream' = byUpstream \cup {c} /\ byDownstream' = byDownstream \cup {c}
  /\ UNCHANGED <<idleReap, managerVars, proxy, sdk, trackerVars>>

RecheckNever(c) ==             \* mutant: a close that came before the publication stands
  /\ InitStep(c, "recheck", "done")
  /\ UNCHANGED <<idleReap, managerVars, indexVars, proxy, sdk, trackerVars>>

Recheck(c) ==
  /\ InitStep(c, "recheck", IF ~proxy[c].closed /\ proxy[c].ds THEN "done" ELSE "lost")
  /\ UNCHANGED <<idleReap, managerVars, indexVars, proxy, sdk, trackerVars>>

---------------------------------------------------------------------------
(* A tool call.  The outer handler marks the request on the lease if the   *)
(* session is in the index; a session that is not yet published is served  *)
(* without.  getDownstream reads the manager's downstream and closed, and  *)
(* without a downstream goes through GetOrCreateSession again.             *)
CallStep(c, from, to) == At(c, "call", from) /\ Goto(c, "call", to)

CallArrives(c) ==
  /\ sdk[c] = "open" /\ CallStep(c, "none", "handle")
  /\ \/ /\ c \in byUpstream /\ up
        /\ lease[c].state # "none" /\ ~lease[c].expiring
        /\ lease' = [lease EXCEPT ![c].inFlight = TRUE]
     \/ c \notin byUpstream /\ UNCHANGED lease
  /\ UNCHANGED <<idleReap, up, subscribers, notifying, indexVars, proxy, sdk, trackerVars>>

GetDownstream(c) ==
  /\ CallStep(c, "handle", IF up \/ proxy[c].closed THEN "answer" ELSE "enter")
  /\ UNCHANGED <<idleReap, managerVars, indexVars, proxy, sdk, trackerVars>>

Reenter(c) ==
  /\ CallStep(c, "enter", "admit")
  /\ EnterLease(c)
  /\ UNCHANGED <<idleReap, up, subscribers, notifying, indexVars, proxy, sdk, trackerVars>>

Readmit(c) ==
  /\ CallStep(c, "admit", "answer")
  /\ SettleLease(c) \/ RollBackLease(c)
  /\ UNCHANGED <<idleReap, up, subscribers, notifying, indexVars, proxy, sdk, trackerVars>>

CallEnds(c) ==
  /\ CallStep(c, "answer", "none")
  /\ lease' = [lease EXCEPT ![c].inFlight = FALSE]
  /\ UNCHANGED <<idleReap, up, subscribers, notifying, indexVars, proxy, sdk, trackerVars>>

---------------------------------------------------------------------------
(* DELETE: the SDK ends the upstream session, which waits for the handlers *)
(* that run for it; then the session is looked up, closed, and taken from  *)
(* the tracker.                                                            *)
SdkCloses(c) ==
  /\ sdk[c] = "closing" /\ At(c, "call", "none")
  /\ At(c, "init", "none") \/ At(c, "init", "done")
  /\ sdk' = [sdk EXCEPT ![c] = "closed"]
  /\ UNCHANGED <<idleReap, managerVars, indexVars, proxy, trackerVars, pc>>

Delete(c) ==
  /\ At(c, "create", "serving") /\ At(c, "delete", "none") /\ Goto(c, "delete", "sdk")
  /\ sdk' = [sdk EXCEPT ![c] = IF @ = "open" THEN "closing" ELSE @]
  /\ UNCHANGED <<idleReap, managerVars, indexVars, proxy, trackerVars>>

DeleteCloses(c) ==
  /\ At(c, "delete", "sdk") /\ sdk[c] = "closed" /\ Goto(c, "delete", "untrack")
  /\ IF c \in byUpstream THEN CloseDownstream(c)
                          ELSE UNCHANGED <<managerVars, indexVars, proxy, sdk>>
  /\ UNCHANGED <<idleReap, trackerVars>>

HandleDelete(c) ==
  /\ At(c, "delete", "untrack") /\ Goto(c, "delete", "none")
  /\ conn' = [conn EXCEPT ![c] = NoConn]
  /\ UNCHANGED <<idleReap, managerVars, indexVars, proxy, sdk, streams>>

---------------------------------------------------------------------------
(* The manager's reaper, and its callback, which removes the lease         *)
(* whether or not the close it made did.                                   *)
Expire(c) ==
  /\ idleReap /\ lease[c].state # "none" /\ ~lease[c].expiring /\ ~lease[c].inFlight
  /\ At(c, "expiry", "none") /\ Goto(c, "expiry", "callback")
  /\ lease' = [lease EXCEPT ![c].expiring = TRUE]
  /\ UNCHANGED <<idleReap, up, subscribers, notifying, indexVars, proxy, sdk, trackerVars>>

Expired(c) ==
  /\ At(c, "expiry", "callback")
  /\ Goto(c, "expiry", IF c \in byDownstream THEN "close" ELSE "remove")
  /\ byDownstream' = byDownstream \ {c}
  /\ UNCHANGED <<idleReap, managerVars, byUpstream, proxy, sdk, trackerVars>>

ExpiryCloses(c) ==
  /\ At(c, "expiry", "close") /\ Goto(c, "expiry", "remove")
  /\ CloseDownstream(c)
  /\ UNCHANGED <<idleReap, trackerVars>>

ExpiryForgets(c) ==            \* mutant: without an owner the lease is left alone
  /\ At(c, "expiry", "remove") /\ Goto(c, "expiry", "none")
  /\ UNCHANGED <<idleReap, managerVars, indexVars, proxy, sdk, trackerVars>>

ExpiryRemoves(c) ==
  /\ At(c, "expiry", "remove") /\ Goto(c, "expiry", "none")
  /\ RemoveSession(c)
  /\ UNCHANGED <<idleReap, up, subscribers, notifying, indexVars, proxy, sdk, trackerVars>>

---------------------------------------------------------------------------
(* The shared process, and the OnRespawn callbacks of its startup.         *)
Dies ==
  /\ up /\ up' = FALSE
  /\ UNCHANGED <<idleReap, lease, subscribers, notifying, indexVars, proxy, sdk, trackerVars,
                 pc>>

Starts ==
  /\ ~up /\ notifying = {}
  /\ up' = TRUE /\ notifying' = subscribers
  /\ UNCHANGED <<idleReap, lease, subscribers, indexVars, proxy, sdk, trackerVars, pc>>

OnRespawn(c) ==
  /\ c \in notifying /\ notifying' = notifying \ {c}
  /\ proxy' = [proxy EXCEPT ![c].ds = @ \/ ~proxy[c].closed]
  /\ UNCHANGED <<idleReap, up, lease, subscribers, indexVars, sdk, trackerVars, pc>>

---------------------------------------------------------------------------
(* The disconnect tracker.  Stopping a timer that has fired does not take  *)
(* its callback back, and the callback does not look at the count again.   *)
TrackRequest(c) ==
  /\ At(c, "create", "serving") /\ streams[c] < MaxStreams
  /\ streams' = [streams EXCEPT ![c] = @ + 1]
  /\ conn' = [conn EXCEPT ![c] = [known |-> TRUE, refs |-> conn[c].refs + 1,
                                  timer |-> "nil"]]
  /\ UNCHANGED <<idleReap, managerVars, indexVars, proxy, sdk, pc>>

ReleaseConnection(c) ==
  /\ streams[c] > 0 /\ streams' = [streams EXCEPT ![c] = @ - 1]
  /\ conn' = IF ~conn[c].known THEN conn
             ELSE IF conn[c].refs > 1 THEN [conn EXCEPT ![c].refs = @ - 1]
             ELSE [conn EXCEPT ![c].refs = 0, ![c].timer = "armed"]
  /\ UNCHANGED <<idleReap, managerVars, indexVars, proxy, sdk, pc>>

GraceExpires(c) ==
  /\ conn[c].timer = "armed" /\ At(c, "reap", "none") /\ Goto(c, "reap", "forget")
  /\ conn' = [conn EXCEPT ![c].timer = "fired"]
  /\ UNCHANGED <<idleReap, managerVars, indexVars, proxy, sdk, streams>>

ReapForgets(c) ==
  /\ At(c, "reap", "forget") /\ Goto(c, "reap", "close")
  /\ conn' = [conn EXCEPT ![c] = NoConn]
  /\ UNCHANGED <<idleReap, managerVars, indexVars, proxy, sdk, streams>>

ReapSparesBusy(c) ==           \* mutant: a request in flight puts the reap off for ever
  /\ At(c, "reap", "close") /\ Goto(c, "reap", "none")
  /\ IF c \in byUpstream /\ ~lease[c].inFlight
       THEN CloseDownstream(c) ELSE UNCHANGED <<managerVars, indexVars, proxy, sdk>>
  /\ UNCHANGED <<idleReap, trackerVars>>

ReapCloses(c) ==
  /\ At(c, "reap", "close") /\ Goto(c, "reap", "none")
  /\ IF c \in byUpstream THEN CloseDownstream(c)
                          ELSE UNCHANGED <<managerVars, indexVars, proxy, sdk>>
  /\ UNCHANGED <<idleReap, trackerVars>>

---------------------------------------------------------------------------
CreateStep(c) ==
  OpenFails(c) \/ Opened(c) \/ Attach(c) \/ Subscribe(c) \/ Listed(c) \/ ListFails(c)

PublishStep(c) == Credit(c) \/ CloseDead(c) \/ Publish(c) \/ Recheck(c)

ServeStep(c) == GetDownstream(c) \/ Reenter(c) \/ Readmit(c) \/ CallEnds(c)

DeleteStep(c) == DeleteCloses(c) \/ HandleDelete(c)

ExpiryStep(c) == Expire(c) \/ Expired(c) \/ ExpiryCloses(c) \/ ExpiryRemoves(c)

ReapStep(c) == GraceExpires(c) \/ ReapForgets(c) \/ ReapCloses(c)

ClientStep(c) ==
  Open(c) \/ Initialized(c) \/ CallArrives(c) \/ Delete(c) \/ TrackRequest(c)
  \/ ReleaseConnection(c)

Next ==
  \/ \E c \in Clients : \/ ClientStep(c) \/ CreateStep(c) \/ PublishStep(c) \/ ServeStep(c)
                        \/ DeleteStep(c) \/ ExpiryStep(c) \/ ReapStep(c) \/ SdkCloses(c)
                        \/ OnRespawn(c)
  \/ Dies \/ Starts

Spec == Init /\ [][Next]_vars

(* A thread that has something to do goes on, timers fire, and the reaper  *)
(* comes round; what clients send and whether the process lives is open.   *)
FairSpec ==
  /\ Spec
  /\ \A c \in Clients : /\ WF_vars(PublishStep(c)) /\ WF_vars(ServeStep(c))
                        /\ WF_vars(ExpiryStep(c)) /\ WF_vars(ReapStep(c))
                        /\ WF_vars(SdkCloses(c))

---------------------------------------------------------------------------
TypeOK ==
  /\ idleReap \in BOOLEAN /\ up \in BOOLEAN
  /\ lease \in [Clients -> Lease]
  /\ subscribers \subseteq Clients /\ notifying \subseteq Clients
  /\ byDownstream \subseteq Clients /\ byUpstream \subseteq Clients
  /\ proxy \in [Clients -> Proxy]
  /\ sdk \in [Clients -> {"none", "open", "closing", "closed"}]
  /\ streams \in [Clients -> 0 .. MaxStreams] /\ conn \in [Clients -> Conn]
  /\ pc \in [Clients -> Threads]

(* A closed session whose handlers have returned is nowhere: no index      *)
(* entry leads to it, it holds no active-session credit, and if it had     *)
(* initialized no OnRespawn callback is left for it; not when an expiry    *)
(* ran during its construction or in between of its publication.           *)
ClosedIsForgotten ==
  \A c \in Clients :
    proxy[c].closed /\ pc[c].init \in {"none", "done"} /\ pc[c].create \in {"serving", "failed"}
    => /\ c \notin byUpstream \cup byDownstream
       /\ ~proxy[c].counted
       /\ pc[c].init = "done" => c \notin subscribers

(* A closed session never gets a downstream pointer again: not from the    *)
(* startup it waited for, nor from a respawn that read the subscribers     *)
(* before the close.                                                       *)
ClosedStaysDetached == \A c \in Clients : proxy[c].closed => ~proxy[c].ds

(* What a close settles stays settled.                                     *)
ClosedIsFinal == ClosedIsForgotten /\ ClosedStaysDetached

(* A closed session ends without a lease, though a call that read closed   *)
(* too early may have acquired it again: the reaper takes that one back,   *)
(* and no later call acquires another.                                     *)
LeaseEndsWithSession ==
  \A c \in Clients : idleReap /\ proxy[c].closed ~> [](lease[c].state = "none")

(* A session that is closed loses its upstream session too, whichever of   *)
(* the close and the initialization was first, so its id is answered 404.  *)
UpstreamEndsWithSession ==
  \A c \in Clients : proxy[c].closed /\ proxy[c].upstream ~> sdk[c] = "closed"

(* A published session whose last stream closed is closed when the grace   *)
(* period ends, unless a stream is opened again, also without a            *)
(* session_timeout.                                                        *)
GoneClientIsReaped ==
  \A c \in Clients :
    c \in byUpstream /\ conn[c].timer = "armed" ~> proxy[c].closed \/ streams[c] > 0

(* What the comments of the code say, and the code does not do: see the    *)
(* README.  The tracker's lock leaves no window between the check of a     *)
(* reconnection and the reap; a closed session never reacquires its lease. *)
ReconnectionStopsReap ==
  [][\A c \in Clients : ReapCloses(c) /\ ~proxy[c].closed /\ proxy'[c].closed
                        => streams[c] = 0]_vars

NeverReacquired ==
  [][\A c \in Clients : proxy[c].closed /\ lease[c].state = "none"
                        => lease'[c].state = "none"]_vars
=============================================================================
