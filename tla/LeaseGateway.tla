---------------------------- MODULE LeaseGateway ----------------------------
(***************************************************************************)
(* LeaseManager (src/internal/mcp/lease.go) under ManagedHTTPGateway       *)
(* (src/internal/mcp/managed_gateway.go): the admission and the lifecycle  *)
(* of the sessions of a native HTTP backend.                               *)
(*                                                                         *)
(* An actor is an HTTP handler goroutine, or the Reaper.  One action is    *)
(* one critical section of LeaseManager.mu or lifecycleMu, one answer of   *)
(* the backend gate, or one round trip to the backend; everything between  *)
(* two of them interleaves.  The gate (BackendCoordinator) opens and       *)
(* closes, and the leases are invalidated, at any step: ManagedBackend has *)
(* the protocol that decides when.  Time is abstracted: a deadline that is *)
(* set may have passed, an idle period may have elapsed, at any step.      *)
(***************************************************************************)
EXTENDS Integers, FiniteSets

CONSTANTS
  Handlers,     \* HTTP handler goroutines
  Reaper,       \* the goroutine of StartReaper
  Ids,          \* session ids the backend hands out
  MaxSessions,  \* 0 for no limit
  IdleTimeout,  \* idleTimeout > 0
  Grace,        \* disconnectGrace > 0
  UniqueIds,    \* the backend never hands out an id twice
  None

ASSUME ConstantsAssumption ==
  /\ IsFiniteSet(Handlers) /\ IsFiniteSet(Ids)
  /\ Reaper \notin Handlers /\ None \notin Ids
  /\ MaxSessions \in Nat
  /\ IdleTimeout \in BOOLEAN /\ Grace \in BOOLEAN /\ UniqueIds \in BOOLEAN

Actors == Handlers \cup {Reaper}

VARIABLES
  lease,    \* leases; the record of an absent id has state "none"
  actor,    \* local state of each goroutine
  orphans,  \* reservations kept after an ambiguous initialize
  gauge,    \* the active-sessions metric
  gate,     \* the coordinator is ready
  issued    \* ids the backend has handed out

vars == <<lease, actor, orphans, gauge, gate, issued>>

---------------------------------------------------------------------------
(* deadline: disconnectDeadline is set.  deleted: a DELETE for this record *)
(* was dispatched (a history variable, nothing reads it).                  *)
Lease == [state: {"none", "active", "expiring", "cleanup_uncertain"},
          inFlight: Int, sse: Int, everActive: BOOLEAN, deadline: BOOLEAN,
          deleted: BOOLEAN]
NoLease  == [state |-> "none", inFlight |-> 0, sse |-> 0, everActive |-> FALSE,
             deadline |-> FALSE, deleted |-> FALSE]
NewLease == [NoLease EXCEPT !.state = "active"]

(* holds: lease[id] is still the record the request was counted on.        *)
(* reserved: the actor's reservation is still in the table.  todo: leases  *)
(* it has to clean up.  owed: closed leases not yet taken off the gauge.   *)
Actor == [pc: {"idle", "gate", "sent", "stream", "sweep", "settle", "expire",
               "cleanup", "restore", "delete", "reserve"},
          kind: {"none", "init", "post", "sse", "del", "prune"},
          id: Ids \cup {None}, holds: BOOLEAN, reserved: BOOLEAN,
          todo: SUBSET Ids, owed: SUBSET Ids]
IdleActor == [pc |-> "idle", kind |-> "none", id |-> None, holds |-> FALSE,
              reserved |-> FALSE, todo |-> {}, owed |-> {}]

Live     == {i \in Ids : lease[i].state # "none"}
Reserved == {a \in Actors : actor[a].reserved}
CapacityUsed == Cardinality(Reserved) + orphans + Cardinality(Live)
Full == MaxSessions > 0 /\ CapacityUsed >= MaxSessions

Init ==
  /\ lease = [i \in Ids |-> NoLease]
  /\ actor = [a \in Actors |-> IdleActor]
  /\ orphans = 0 /\ gauge = 0 /\ gate = FALSE /\ issued = {}

At(a, kind, pc) == actor[a].kind = kind /\ actor[a].pc = pc
Finish(a)   == actor' = [actor EXCEPT ![a] = IdleActor]
Goto(a, pc) == actor' = [actor EXCEPT ![a].pc = pc]

(* Mutant: a completion guard finds its record by id.                      *)
HeldById(acts, S) == acts

(* When the records of S go, no request is counted on them any more.       *)
Dropped(acts, S) ==
  [a \in Actors |-> IF acts[a].id \in S THEN [acts[a] EXCEPT !.holds = FALSE]
                                        ELSE acts[a]]
Without(S) == [i \in Ids |-> IF i \in S THEN NoLease ELSE lease[i]]

---------------------------------------------------------------------------
(* POST initialize.                                                        *)

(* Reserve; a full table is pruned once before the second attempt.         *)
Initialize(a) ==
  /\ actor[a].pc = "idle"
  /\ actor' = [actor EXCEPT ![a] =
       IF Full THEN [IdleActor EXCEPT !.kind = "init", !.pc = "sweep"]
               ELSE [IdleActor EXCEPT !.kind = "init", !.pc = "gate", !.reserved = TRUE]]
  /\ UNCHANGED <<lease, orphans, gauge, gate, issued>>

ReserveBlindly(a) ==           \* mutant: room is assumed after a prune
  /\ At(a, "init", "reserve")
  /\ actor' = [actor EXCEPT ![a].pc = "gate", ![a].reserved = TRUE]
  /\ UNCHANGED <<lease, orphans, gauge, gate, issued>>

(* The second attempt: admitted, or answered 429.                          *)
ReserveAgain(a) ==
  /\ At(a, "init", "reserve")
  /\ IF Full THEN Finish(a)
     ELSE actor' = [actor EXCEPT ![a].pc = "gate", ![a].reserved = TRUE]
  /\ UNCHANGED <<lease, orphans, gauge, gate, issued>>

(* A closed gate releases the reservation, if InvalidateAll has not.       *)
InitializeGate(a) ==
  /\ At(a, "init", "gate")
  /\ IF gate THEN Goto(a, "sent") ELSE Finish(a)
  /\ UNCHANGED <<lease, orphans, gauge, gate, issued>>

(* The answer is a refusal: nothing was created.                           *)
InitializeRefused(a) ==
  /\ At(a, "init", "sent")
  /\ Finish(a)
  /\ UNCHANGED <<lease, orphans, gauge, gate, issued>>

(* No answer, or an unusable one: nobody knows whether a session exists,   *)
(* so the reservation stays until the backend is recycled.                 *)
InitializeAmbiguous(a) ==
  /\ At(a, "init", "sent")
  /\ orphans' = orphans + (IF actor[a].reserved THEN 1 ELSE 0)
  /\ Finish(a)
  /\ UNCHANGED <<lease, gauge, gate, issued>>

(* Commit: refused when the reservation has been invalidated, or when the  *)
(* id already has a lease (the reservation then stays).                    *)
Commit(a, i) ==
  /\ At(a, "init", "sent")
  /\ UniqueIds => i \notin issued
  /\ issued' = issued \cup {i}
  /\ IF actor[a].reserved /\ i \notin Live
     THEN /\ lease' = [lease EXCEPT ![i] = NewLease]
          /\ gauge' = gauge + 1
          /\ UNCHANGED orphans
     ELSE /\ orphans' = orphans + (IF actor[a].reserved THEN 1 ELSE 0)
          /\ UNCHANGED <<lease, gauge>>
  /\ Finish(a)
  /\ UNCHANGED gate

---------------------------------------------------------------------------
(* POST on a session, and GET for its event stream.                        *)

(* BeginRequest.  A deadline that is set stays set, later.                 *)
BeginRequest(a, i, activity) ==
  /\ actor[a].pc = "idle"
  /\ lease[i].state = "active"
  /\ lease' = [lease EXCEPT ![i].inFlight = @ + 1,
                            ![i].everActive = @ \/ activity]
  /\ actor' = [actor EXCEPT ![a] = [IdleActor EXCEPT !.kind = "post", !.pc = "gate",
                                                     !.id = i, !.holds = TRUE]]
  /\ UNCHANGED <<orphans, gauge, gate, issued>>

RequestGate(a) ==
  /\ At(a, "post", "gate") /\ gate
  /\ Goto(a, "sent")
  /\ UNCHANGED <<lease, orphans, gauge, gate, issued>>

(* The completion guard runs after a refusal, an answer or an error.       *)
CompleteRequest(a) ==
  /\ At(a, "post", "sent") \/ (At(a, "post", "gate") /\ ~gate)
  /\ lease' = IF actor[a].holds THEN [lease EXCEPT ![actor[a].id].inFlight = @ - 1]
                                ELSE lease
  /\ Finish(a)
  /\ UNCHANGED <<orphans, gauge, gate, issued>>

BeginSSE(a, i) ==
  /\ actor[a].pc = "idle"
  /\ lease[i].state = "active"
  /\ lease' = [lease EXCEPT ![i].sse = @ + 1, ![i].deadline = FALSE]
  /\ actor' = [actor EXCEPT ![a] = [IdleActor EXCEPT !.kind = "sse", !.pc = "gate",
                                                     !.id = i]]
  /\ UNCHANGED <<orphans, gauge, gate, issued>>

SSEGate(a) ==
  /\ At(a, "sse", "gate") /\ gate
  /\ Goto(a, "stream")
  /\ UNCHANGED <<lease, orphans, gauge, gate, issued>>

(* EndSSE looks the lease up by its id; the last stream arms the deadline. *)
EndSSE(a) ==
  /\ At(a, "sse", "stream") \/ (At(a, "sse", "gate") /\ ~gate)
  /\ LET i == actor[a].id IN
       lease' = IF lease[i].state # "none" /\ lease[i].sse > 0
                THEN [lease EXCEPT ![i].sse = @ - 1,
                                   ![i].deadline = @ \/ (lease[i].sse = 1 /\ Grace)]
                ELSE lease
  /\ Finish(a)
  /\ UNCHANGED <<orphans, gauge, gate, issued>>

---------------------------------------------------------------------------
(* DELETE by the client, and pruneIdle by the reaper or by an initialize   *)
(* that found the table full.  Both end in the same cleanup loop.          *)

TryBeginExpiryBusy(a, i) ==          \* mutant: inFlight is not looked at
  /\ actor[a].pc = "idle"
  /\ lease[i].state = "active"
  /\ lease' = [lease EXCEPT ![i].state = "expiring"]
  /\ actor' = [actor EXCEPT ![a] = [IdleActor EXCEPT !.kind = "del", !.pc = "cleanup",
                                                     !.todo = {i}]]
  /\ UNCHANGED <<orphans, gauge, gate, issued>>

TryBeginExpiry(a, i) ==
  /\ actor[a].pc = "idle"
  /\ lease[i].state = "active" /\ lease[i].inFlight = 0
  /\ lease' = [lease EXCEPT ![i].state = "expiring"]
  /\ actor' = [actor EXCEPT ![a] = [IdleActor EXCEPT !.kind = "del", !.pc = "cleanup",
                                                     !.todo = {i}]]
  /\ UNCHANGED <<orphans, gauge, gate, issued>>

ReaperTick ==
  /\ actor[Reaper].pc = "idle"
  /\ actor' = [actor EXCEPT ![Reaper] = [IdleActor EXCEPT !.kind = "prune",
                                                          !.pc = "sweep"]]
  /\ UNCHANGED <<lease, orphans, gauge, gate, issued>>

(* ExpireCleanupUncertain on the quarantines Q whose window has passed.    *)
ExpireCleanupUncertain(a, Q) ==
  /\ actor[a].pc = "sweep"
  /\ \A i \in Q : lease[i].state = "cleanup_uncertain"
  /\ lease' = Without(Q)
  /\ actor' = [Dropped(actor, Q) EXCEPT ![a].pc = "settle",
                                        ![a].owed = Q]
  /\ UNCHANGED <<orphans, gauge, gate, issued>>

(* The gauge follows after lifecycleMu is released.                        *)
SettleGauge(a) ==
  /\ actor[a].pc = "settle"
  /\ gauge' = gauge - Cardinality(actor[a].owed)
  /\ actor' = [actor EXCEPT ![a].pc = "expire", ![a].owed = {}]
  /\ UNCHANGED <<lease, orphans, gate, issued>>

(* client_disconnected, never_streamed (there is a bound for it when the   *)
(* idle timeout or the grace period is on) or idle_timeout.                *)
Eligible(i) ==
  /\ lease[i].state = "active" /\ lease[i].inFlight = 0
  /\ lease[i].deadline \/ IdleTimeout \/ (Grace /\ ~lease[i].everActive)

ExpireEligible(a, S) ==
  /\ actor[a].pc = "expire"
  /\ \A i \in S : Eligible(i)
  /\ lease' = [i \in Ids |-> IF i \in S THEN [lease[i] EXCEPT !.state = "expiring"]
                                        ELSE lease[i]]
  /\ actor' = [actor EXCEPT ![a].pc = "cleanup", ![a].todo = S]
  /\ UNCHANGED <<orphans, gauge, gate, issued>>

(* One lease of the loop: the gate refuses, or the DELETE is dispatched.   *)
CleanupGate(a, i) ==
  /\ actor[a].pc = "cleanup" /\ i \in actor[a].todo
  /\ IF gate
     THEN /\ actor' = [actor EXCEPT ![a].pc = "delete", ![a].id = i]
          /\ lease' = IF i \in Live THEN [lease EXCEPT ![i].deleted = TRUE] ELSE lease
     ELSE /\ actor' = [actor EXCEPT ![a].pc = "restore", ![a].id = i]
          /\ UNCHANGED lease
  /\ UNCHANGED <<orphans, gauge, gate, issued>>

CleanedUp(acts, a) ==
  [acts EXCEPT ![a].pc = "cleanup", ![a].id = None,
               ![a].todo = acts[a].todo \ {acts[a].id}]

RestoreNothing(a) ==                 \* mutant: a refused cleanup is forgotten
  /\ actor[a].pc = "restore"
  /\ actor' = CleanedUp(actor, a)
  /\ UNCHANGED <<lease, orphans, gauge, gate, issued>>

RestoreActive(a) ==
  /\ actor[a].pc = "restore"
  /\ LET i == actor[a].id IN
       lease' = IF lease[i].state = "expiring"
                THEN [lease EXCEPT ![i].state = "active"] ELSE lease
  /\ actor' = CleanedUp(actor, a)
  /\ UNCHANGED <<orphans, gauge, gate, issued>>

(* 2xx or 404: finalizeClose.                                              *)
FinalizeClose(a) ==
  /\ actor[a].pc = "delete"
  /\ LET i == actor[a].id IN
       /\ lease' = Without({i})
       /\ gauge' = IF i \in Live THEN gauge - 1 ELSE gauge
       /\ actor' = CleanedUp(Dropped(actor, {i}), a)
  /\ UNCHANGED <<orphans, gate, issued>>

CleanupRetried(a) ==                 \* mutant: a failed DELETE is undone
  /\ actor[a].pc = "delete"
  /\ LET i == actor[a].id IN
       lease' = IF i \in Live THEN [lease EXCEPT ![i].state = "active"] ELSE lease
  /\ actor' = CleanedUp(actor, a)
  /\ UNCHANGED <<orphans, gauge, gate, issued>>

(* No answer, or any other status: MarkCleanupUncertain.                   *)
MarkCleanupUncertain(a) ==
  /\ actor[a].pc = "delete"
  /\ LET i == actor[a].id IN
       lease' = IF i \in Live THEN [lease EXCEPT ![i].state = "cleanup_uncertain"]
                              ELSE lease
  /\ actor' = CleanedUp(actor, a)
  /\ UNCHANGED <<orphans, gauge, gate, issued>>

PruneUntilRoom(a) ==                 \* mutant: the prune is repeated
  /\ actor[a].pc = "cleanup" /\ actor[a].todo = {}
  /\ IF actor[a].kind = "init"
     THEN Goto(a, IF Full THEN "sweep" ELSE "reserve") ELSE Finish(a)
  /\ UNCHANGED <<lease, orphans, gauge, gate, issued>>

CleanupDone(a) ==
  /\ actor[a].pc = "cleanup" /\ actor[a].todo = {}
  /\ IF actor[a].kind = "init" THEN Goto(a, "reserve") ELSE Finish(a)
  /\ UNCHANGED <<lease, orphans, gauge, gate, issued>>

---------------------------------------------------------------------------
(* The coordinator, and the loss of the process or of the listener.        *)

GateMoves ==
  /\ gate' = ~gate
  /\ UNCHANGED <<lease, actor, orphans, gauge, issued>>

InvalidateAll ==
  /\ lease' = [i \in Ids |-> NoLease]
  /\ orphans' = 0
  /\ gauge' = gauge - Cardinality(Live)
  /\ actor' = [a \in Actors |-> [Dropped(actor, Ids)[a] EXCEPT !.reserved = FALSE]]
  /\ UNCHANGED <<gate, issued>>

---------------------------------------------------------------------------
(* What a goroutine does by itself once its next answer is there.          *)
Prune(a) ==
  \/ \E Q \in SUBSET Ids : ExpireCleanupUncertain(a, Q) \/ ExpireEligible(a, Q)
  \/ SettleGauge(a)
  \/ \E i \in Ids : CleanupGate(a, i)
  \/ RestoreActive(a) \/ FinalizeClose(a) \/ MarkCleanupUncertain(a)
  \/ CleanupDone(a)

Handle(a) ==
  \/ ReserveAgain(a) \/ InitializeGate(a)
  \/ InitializeRefused(a) \/ InitializeAmbiguous(a)
  \/ \E i \in Ids : Commit(a, i)
  \/ RequestGate(a) \/ CompleteRequest(a) \/ SSEGate(a)

Arrive(a) ==
  \/ Initialize(a)
  \/ \E i \in Ids : \/ \E activity \in BOOLEAN : BeginRequest(a, i, activity)
                    \/ BeginSSE(a, i) \/ TryBeginExpiry(a, i)

Next ==
  \/ \E a \in Handlers : Arrive(a) \/ Handle(a) \/ EndSSE(a)
  \/ ReaperTick
  \/ \E a \in Actors : Prune(a)
  \/ GateMoves \/ InvalidateAll

Spec == Init /\ [][Next]_vars

(* Round trips end: the transport has a ResponseHeaderTimeout.  The reaper *)
(* ticks for ever, and sooner or later one tick comes after the end of     *)
(* every quarantine.                                                       *)
FairSpec ==
  /\ Spec
  /\ \A a \in Actors : WF_vars(Prune(a))
  /\ \A a \in Handlers : WF_vars(Handle(a))
  /\ WF_vars(ReaperTick)
  /\ \A i \in Ids : SF_vars(\E Q \in SUBSET Ids :
                              i \in Q /\ ExpireCleanupUncertain(Reaper, Q))

---------------------------------------------------------------------------
TypeOK ==
  /\ lease \in [Ids -> Lease]
  /\ actor \in [Actors -> Actor]
  /\ orphans \in Nat
  /\ gauge \in Nat
  /\ gate \in BOOLEAN
  /\ issued \subseteq Ids

(* Reservations, quarantined reservations and leases together never exceed *)
(* max_sessions, whatever is admitted, pruned, refused or invalidated in   *)
(* between; this is what keeps the backend under its own session limit.    *)
CapacityBound == MaxSessions > 0 => CapacityUsed <= MaxSessions

(* The active-sessions gauge is the number of leases, up to the leases a   *)
(* prune has closed and not yet taken off it: no close is counted twice or *)
(* missed when DELETE, prune, quarantine end and invalidation race.        *)
GaugeExact ==
  gauge = Cardinality(Live)
          + Cardinality({x \in Actors \X Ids : x[2] \in actor[x[1]].owed})

(* inFlight of a lease is the number of requests running on this record,   *)
(* also when an id comes back after an invalidation: a late completion     *)
(* never lowers the count of the session that has the id now.              *)
InFlightExact ==
  \A i \in Live :
    lease[i].inFlight = Cardinality({a \in Actors : /\ actor[a].kind = "post"
                                                    /\ actor[a].id = i
                                                    /\ actor[a].holds})

(* Gauge and request counts, both exact.                                   *)
BooksExact == GaugeExact /\ InFlightExact

(* A lease on its way out has no request running: cleanup and requests     *)
(* exclude each other.                                                     *)
NoRequestUnderCleanup ==
  \A i \in Ids : lease[i].state \in {"expiring", "cleanup_uncertain"}
                   => lease[i].inFlight = 0

(* Exactly one goroutine is in charge of an expiring lease, so its DELETE  *)
(* is sent once and its capacity is not forgotten.                         *)
ExpiringHasOneOwner ==
  \A i \in Ids : lease[i].state = "expiring"
                   => Cardinality({a \in Actors : i \in actor[a].todo}) = 1

(* A session the backend was told to dispose of is never usable again: it  *)
(* does not go back to active and no second DELETE is owed for it.         *)
DeletedStaysClosed == \A i \in Ids : lease[i].deleted => lease[i].state # "active"

(* Every lease that starts to expire is closed, quarantined or restored,   *)
(* and every quarantine ends.                                              *)
CleanupEnds ==
  \A i \in Ids :
    (lease[i].state \in {"expiring", "cleanup_uncertain"})
      ~> (lease[i].state \in {"none", "active"})

(* No initialize waits for ever.                                           *)
InitializeReturns == \A a \in Handlers : (actor[a].kind = "init") ~> (actor[a].kind # "init")
=============================================================================
