------------------------- MODULE LeaseGatewayProofs -------------------------
(***************************************************************************)
(* Proofs about LeaseGateway for any finite sets of handlers and session   *)
(* ids and any max_sessions.  The first half makes no assumption on the    *)
(* ids the backend hands out: types, capacity and books hold also when it  *)
(* uses an id twice.  The second half, about the cleanup of a lease, is    *)
(* for a backend whose ids are unique.                                     *)
(***************************************************************************)
EXTENDS LeaseGateway, FiniteSetTheorems, TLAPS

(* What an actor's record may look like at each of its positions.          *)
Placed(r) ==
  /\ r.pc = "idle" <=> r.kind = "none"
  /\ r.holds => r.kind = "post"
  /\ r.kind = "post" => r.pc \in {"gate", "sent"} /\ r.id \in Ids
  /\ r.reserved => r.kind = "init" /\ r.pc \in {"gate", "sent"}
  /\ r.todo # {} => r.pc \in {"cleanup", "restore", "delete"}
  /\ r.pc \in {"restore", "delete"} => r.id \in r.todo
  /\ r.owed # {} => r.pc = "settle"
  /\ r.pc \in {"sweep", "settle", "expire", "cleanup", "restore", "delete", "reserve"}
       => r.kind \in {"init", "del", "prune"}
Positions == \A a \in Actors : Placed(actor[a])

(* A request is counted on a record that is still there.                   *)
HoldersLive == \A a \in Actors : actor[a].holds => actor[a].id \in Live

IInv == TypeOK /\ Positions /\ HoldersLive /\ CapacityBound /\ BooksExact

Holders(i) == {a \in Actors : /\ actor[a].kind = "post"
                              /\ actor[a].id = i
                              /\ actor[a].holds}
OwedPairs  == {x \in Actors \X Ids : x[2] \in actor[x[1]].owed}

---------------------------------------------------------------------------
LEMMA FiniteParts ==
  /\ IsFiniteSet(Actors) /\ IsFiniteSet(Ids) /\ IsFiniteSet(Actors \X Ids)
  /\ \A S : S \subseteq Actors \/ S \subseteq Ids \/ S \subseteq Actors \X Ids
              => IsFiniteSet(S) /\ Cardinality(S) \in Nat
  <1>1. IsFiniteSet(Actors) /\ IsFiniteSet(Ids)
    BY ConstantsAssumption, FS_AddElement DEF Actors
  <1>2. IsFiniteSet(Actors \X Ids)
    BY <1>1, FS_Product
  <1>3. QED
    BY <1>1, <1>2, FS_Subset, FS_CardinalityType

LEMMA Smaller ==
  ASSUME NEW S, NEW T, S \subseteq T, IsFiniteSet(T)
  PROVE  /\ IsFiniteSet(S) /\ Cardinality(S) \in Nat /\ Cardinality(T) \in Nat
         /\ Cardinality(S) <= Cardinality(T)
  BY FS_Subset, FS_CardinalityType

LEMMA Records ==
  /\ NoLease \in Lease /\ NewLease \in Lease
  /\ NoLease.state = "none" /\ NewLease.state = "active"
  /\ NoLease.inFlight = 0 /\ NewLease.inFlight = 0
  /\ NoLease.deleted = FALSE /\ NewLease.deleted = FALSE
  /\ IdleActor \in Actor /\ Placed(IdleActor)
  <1>1. NoLease \in Lease /\ NewLease \in Lease
    <2>1. NoLease \in Lease
      BY DEF NoLease, Lease
    <2>2. QED
      BY <2>1 DEF NewLease, Lease
  <1>2. IdleActor \in Actor /\ Placed(IdleActor)
    BY DEF IdleActor, Actor, Placed
  <1>3. QED
    BY <1>1, <1>2 DEF NoLease, NewLease

(* One goroutine moves.                                                    *)
LEMMA OneMoves ==
  ASSUME TypeOK, Positions, NEW a \in Actors, NEW r \in Actor, Placed(r),
         actor' = [actor EXCEPT ![a] = r]
  PROVE  /\ actor' \in [Actors -> Actor] /\ Positions'
         /\ actor'[a] = r /\ \A b \in Actors \ {a} : actor'[b] = actor[b]
  BY DEF TypeOK, Positions, Placed

(* The records of S go.                                                    *)
LEMMA DroppedFields ==
  ASSUME NEW acts \in [Actors -> Actor], NEW S, \A a \in Actors : Placed(acts[a])
  PROVE  /\ Dropped(acts, S) \in [Actors -> Actor]
         /\ \A a \in Actors :
              /\ Placed(Dropped(acts, S)[a])
              /\ acts[a].id \in S => ~Dropped(acts, S)[a].holds
              /\ acts[a].id \notin S => Dropped(acts, S)[a] = acts[a]
              /\ Dropped(acts, S)[a].holds => acts[a].holds
              /\ Dropped(acts, S)[a].pc = acts[a].pc
              /\ Dropped(acts, S)[a].kind = acts[a].kind
              /\ Dropped(acts, S)[a].id = acts[a].id
              /\ Dropped(acts, S)[a].reserved = acts[a].reserved
              /\ Dropped(acts, S)[a].todo = acts[a].todo
              /\ Dropped(acts, S)[a].owed = acts[a].owed
  <1> SUFFICES ASSUME NEW a \in Actors
               PROVE  LET r == Dropped(acts, S)[a] IN
                      /\ r \in Actor /\ Placed(r)
                      /\ acts[a].id \in S => ~r.holds
                      /\ acts[a].id \notin S => r = acts[a]
                      /\ r.holds => acts[a].holds
                      /\ r.pc = acts[a].pc /\ r.kind = acts[a].kind /\ r.id = acts[a].id
                      /\ r.reserved = acts[a].reserved
                      /\ r.todo = acts[a].todo /\ r.owed = acts[a].owed
    BY DEF Dropped
  <1>1. acts[a] \in Actor /\ Placed(acts[a])
    OBVIOUS
  <1>2. CASE acts[a].id \in S
    <2>1. Dropped(acts, S)[a] = [acts[a] EXCEPT !.holds = FALSE]
      BY <1>2 DEF Dropped
    <2>2. QED
      BY <1>1, <1>2, <2>1 DEF Actor, Placed
  <1>3. CASE acts[a].id \notin S
    BY <1>1, <1>3 DEF Dropped
  <1>4. QED
    BY <1>2, <1>3

---------------------------------------------------------------------------
(* What keeps the bound, the gauge and the request counts.                 *)
LEMMA CapacityKeeps ==
  ASSUME IInv, Reserved' \subseteq Reserved, Live' \subseteq Live,
         orphans' \in Nat, orphans' <= orphans
  PROVE  CapacityBound'
  <1>1. /\ Cardinality(Reserved') \in Nat /\ Cardinality(Reserved) \in Nat
        /\ Cardinality(Reserved') <= Cardinality(Reserved)
    BY Smaller, FiniteParts DEF Reserved
  <1>2. /\ Cardinality(Live') \in Nat /\ Cardinality(Live) \in Nat
        /\ Cardinality(Live') <= Cardinality(Live)
    BY Smaller, FiniteParts DEF Live
  <1>3. QED
    BY <1>1, <1>2, ConstantsAssumption DEF IInv, TypeOK, CapacityBound, CapacityUsed

LEMMA GaugeKeeps ==
  ASSUME IInv, Live' = Live, gauge' = gauge,
         \A a \in Actors : actor'[a].owed = actor[a].owed
  PROVE  GaugeExact'
  <1>1. OwedPairs' = OwedPairs
    BY DEF OwedPairs
  <1>2. QED
    BY <1>1 DEF IInv, BooksExact, GaugeExact, OwedPairs

LEMMA CountsKeep ==
  ASSUME IInv, Live' \subseteq Live,
         \A i \in Live' : lease'[i].inFlight = lease[i].inFlight,
         \A a \in Actors :
           /\ actor'[a].holds => /\ actor[a].holds /\ actor'[a].kind = actor[a].kind
                                 /\ actor'[a].id = actor[a].id /\ actor'[a].id \in Live'
           /\ actor[a].holds /\ actor[a].id \in Live'
                => /\ actor'[a].holds /\ actor'[a].kind = actor[a].kind
                   /\ actor'[a].id = actor[a].id
  PROVE  HoldersLive' /\ InFlightExact'
  <1>1. \A i \in Live' : Holders(i)' = Holders(i)
    BY DEF Holders
  <1>2. \A i \in Live' : lease'[i].inFlight = Cardinality(Holders(i)')
    BY <1>1 DEF IInv, BooksExact, InFlightExact, Holders
  <1>3. QED
    BY <1>2 DEF HoldersLive, InFlightExact, Holders

---------------------------------------------------------------------------
(* Steps of one goroutine that open or close no lease and count nothing.   *)
LEMMA BooksStay ==
  ASSUME IInv, NEW a \in Actors, NEW r \in Actor, Placed(r),
         actor' = [actor EXCEPT ![a] = r],
         \/ ~r.holds /\ ~actor[a].holds
         \/ r.holds = actor[a].holds /\ r.kind = actor[a].kind /\ r.id = actor[a].id,
         r.owed = actor[a].owed,
         \A i \in Ids : /\ lease'[i].state = "none" <=> lease[i].state = "none"
                        /\ lease'[i].inFlight = lease[i].inFlight,
         gauge' = gauge
  PROVE  /\ actor' \in [Actors -> Actor] /\ Positions'
         /\ actor'[a] = r /\ \A b \in Actors \ {a} : actor'[b] = actor[b]
         /\ Live' = Live /\ HoldersLive' /\ BooksExact'
  <1>1. /\ actor' \in [Actors -> Actor] /\ Positions'
        /\ actor'[a] = r /\ \A b \in Actors \ {a} : actor'[b] = actor[b]
    BY OneMoves DEF IInv
  <1>2. Live' = Live
    BY DEF Live
  <1>3. \A b \in Actors : actor'[b].owed = actor[b].owed
    BY <1>1
  <1>4. GaugeExact'
    BY <1>2, <1>3, GaugeKeeps
  <1>5. HoldersLive' /\ InFlightExact'
    <2>1. \A b \in Actors : actor[b].holds => actor[b].id \in Live
      BY DEF IInv, HoldersLive
    <2>2. ASSUME NEW b \in Actors
          PROVE  /\ actor'[b].holds => /\ actor[b].holds /\ actor'[b].kind = actor[b].kind
                                       /\ actor'[b].id = actor[b].id /\ actor'[b].id \in Live'
                 /\ actor[b].holds /\ actor[b].id \in Live'
                      => /\ actor'[b].holds /\ actor'[b].kind = actor[b].kind
                         /\ actor'[b].id = actor[b].id
      <3>1. CASE b = a
        BY <1>1, <1>2, <2>1, <3>1
      <3>2. CASE b # a
        BY <1>1, <1>2, <2>1, <3>2
      <3>3. QED
        BY <3>1, <3>2
    <2>3. \A i \in Live' : lease'[i].inFlight = lease[i].inFlight
      BY DEF Live
    <2>4. QED
      BY <1>2, <2>2, <2>3, CountsKeep
  <1>6. QED
    BY <1>1, <1>2, <1>4, <1>5 DEF BooksExact

LEMMA Quiet ==
  ASSUME IInv, NEW a \in Actors, NEW r \in Actor, Placed(r),
         actor' = [actor EXCEPT ![a] = r],
         \/ ~r.holds /\ ~actor[a].holds
         \/ r.holds = actor[a].holds /\ r.kind = actor[a].kind /\ r.id = actor[a].id,
         r.owed = actor[a].owed, r.reserved => actor[a].reserved,
         lease' \in [Ids -> Lease],
         \A i \in Ids : /\ lease'[i].state = "none" <=> lease[i].state = "none"
                        /\ lease'[i].inFlight = lease[i].inFlight,
         UNCHANGED <<orphans, gauge, gate, issued>>
  PROVE  IInv'
  <1>1. /\ actor' \in [Actors -> Actor] /\ Positions'
        /\ actor'[a] = r /\ \A b \in Actors \ {a} : actor'[b] = actor[b]
        /\ Live' = Live /\ HoldersLive' /\ BooksExact'
    BY BooksStay
  <1>2. Reserved' \subseteq Reserved
    BY <1>1 DEF Reserved
  <1>3. orphans \in Nat /\ gauge \in Nat
    BY DEF IInv, TypeOK
  <1>4. CapacityBound'
    BY <1>1, <1>2, <1>3, CapacityKeeps
  <1>5. TypeOK'
    BY <1>1, <1>3 DEF IInv, TypeOK
  <1>6. QED
    BY <1>1, <1>4, <1>5 DEF IInv

(* An actor whose record is overwritten keeps nothing it held.             *)
LEMMA AtPosition ==
  ASSUME IInv, NEW a \in Actors
  PROVE  /\ actor[a] \in Actor /\ Placed(actor[a])
         /\ actor[a].kind # "post" => ~actor[a].holds
         /\ actor[a].pc = "idle" => actor[a].kind = "none"
         /\ actor[a].pc # "settle" => actor[a].owed = {}
         /\ IdleActor.owed = {} /\ ~IdleActor.holds /\ ~IdleActor.reserved
         /\ lease \in [Ids -> Lease]
  BY DEF IInv, TypeOK, Positions, Placed, IdleActor

LEMMA HandleQuiet ==
  ASSUME IInv, NEW a \in Actors,
         \/ (Initialize(a) \/ ReserveAgain(a)) /\ Full
         \/ InitializeGate(a) \/ InitializeRefused(a) \/ RequestGate(a) \/ SSEGate(a)
  PROVE  IInv'
  <1>1. /\ actor[a] \in Actor /\ Placed(actor[a]) /\ lease \in [Ids -> Lease]
        /\ UNCHANGED <<lease, orphans, gauge, gate, issued>>
    BY AtPosition DEF Initialize, ReserveAgain, InitializeGate, InitializeRefused, RequestGate,
                      SSEGate
  <1>2. CASE Initialize(a) /\ Full
    <2> DEFINE r == [IdleActor EXCEPT !.kind = "init", !.pc = "sweep"]
    <2>1. r \in Actor /\ Placed(r) /\ ~r.holds /\ ~r.reserved /\ r.owed = {}
      BY DEF IdleActor, Actor, Placed
    <2>2. actor' = [actor EXCEPT ![a] = r]
      BY <1>2 DEF Initialize
    <2>3. ~actor[a].holds /\ actor[a].owed = {}
      BY <1>2, AtPosition DEF Initialize
    <2> HIDE DEF r
    <2>4. QED
      BY <1>1, <2>1, <2>2, <2>3, Quiet
  <1>3. CASE Finish(a) /\ actor[a].kind = "init" /\ actor[a].pc \in {"gate", "sent", "reserve"}
    BY <1>1, <1>3, Quiet, AtPosition, Records DEF Finish
  <1>4. ASSUME NEW pc \in {"gate", "sent", "stream"}, Goto(a, pc),
               actor[a].pc = "gate",
               \/ actor[a].kind = "init" /\ pc = "sent"
               \/ actor[a].kind = "post" /\ pc = "sent"
               \/ actor[a].kind = "sse" /\ pc = "stream"
        PROVE  IInv'
    <2> DEFINE r == [actor[a] EXCEPT !.pc = pc]
    <2>1. /\ r \in Actor /\ r.holds = actor[a].holds /\ r.kind = actor[a].kind
          /\ r.id = actor[a].id /\ r.reserved = actor[a].reserved
          /\ r.owed = actor[a].owed /\ r.todo = actor[a].todo /\ r.pc = pc
      BY <1>1 DEF Actor
    <2>2. Placed(r)
      BY <1>1, <1>4, <2>1 DEF Placed
    <2>3. actor' = [actor EXCEPT ![a] = r]
      BY <1>4 DEF Goto
    <2> HIDE DEF r
    <2>4. QED
      BY <1>1, <2>1, <2>2, <2>3, Quiet
  <1>5. QED
    BY <1>2, <1>3, <1>4
    DEF ReserveAgain, InitializeGate, InitializeRefused, RequestGate, SSEGate, At

(* The counters of a lease and its deadline may change.                    *)
LEMMA StreamFields ==
  ASSUME NEW l \in Lease, NEW b \in BOOLEAN
  PROVE  LET m == [l EXCEPT !.sse = l.sse + 1, !.deadline = b]
             n == [l EXCEPT !.sse = l.sse - 1, !.deadline = b]
         IN /\ l.deadline \in BOOLEAN
            /\ m \in Lease /\ m.state = l.state /\ m.inFlight = l.inFlight
            /\ n \in Lease /\ n.state = l.state /\ n.inFlight = l.inFlight
  <1>1. l.sse + 1 \in Int /\ l.sse - 1 \in Int
    BY DEF Lease
  <1>2. ASSUME NEW k \in Int
        PROVE  LET m == [l EXCEPT !.sse = k, !.deadline = b]
               IN m \in Lease /\ m.state = l.state /\ m.inFlight = l.inFlight
    BY DEF Lease
  <1>3. l.deadline \in BOOLEAN
    BY DEF Lease
  <1>4. QED
    BY <1>1, <1>2, <1>3

LEMMA StreamQuiet ==
  ASSUME IInv, NEW a \in Actors,
         (\E i \in Ids : BeginSSE(a, i)) \/ EndSSE(a)
  PROVE  IInv'
  <1>1. /\ actor[a] \in Actor /\ Placed(actor[a]) /\ lease \in [Ids -> Lease]
        /\ UNCHANGED <<orphans, gauge, gate, issued>>
    BY AtPosition DEF BeginSSE, EndSSE
  <1>2. ASSUME NEW i \in Ids, BeginSSE(a, i) PROVE IInv'
    <2> DEFINE r == [IdleActor EXCEPT !.kind = "sse", !.pc = "gate", !.id = i]
               l == [lease[i] EXCEPT !.sse = @ + 1, !.deadline = FALSE]
    <2>1. r \in Actor /\ Placed(r) /\ ~r.holds /\ ~r.reserved /\ r.owed = {}
      BY DEF IdleActor, Actor, Placed
    <2>2. l \in Lease /\ l.state = lease[i].state /\ l.inFlight = lease[i].inFlight
      <3>1. lease[i] \in Lease
        BY <1>1
      <3>2. QED
        BY <3>1, StreamFields
    <2>3. actor' = [actor EXCEPT ![a] = r] /\ lease' = [lease EXCEPT ![i] = l]
      BY <1>2 DEF BeginSSE
    <2>4. ~actor[a].holds /\ actor[a].owed = {}
      BY <1>2, AtPosition DEF BeginSSE
    <2> HIDE DEF r, l
    <2>5. QED
      BY <1>1, <2>1, <2>2, <2>3, <2>4, Quiet
  <1>3. CASE EndSSE(a)
    <2> DEFINE i == actor[a].id
    <2>1. /\ lease' \in [Ids -> Lease]
          /\ \A j \in Ids : lease'[j].state = lease[j].state
                           /\ lease'[j].inFlight = lease[j].inFlight
      <3>1. CASE lease' = lease
        BY <1>1, <3>1
      <3>2. CASE lease' = [lease EXCEPT ![i].sse = @ - 1,
                                        ![i].deadline = @ \/ (lease[i].sse = 1 /\ Grace)]
        <4>1. CASE i \in Ids
          <5> DEFINE b == lease[i].deadline \/ (lease[i].sse = 1 /\ Grace)
                     l == [lease[i] EXCEPT !.sse = @ - 1, !.deadline = b]
          <5>1. lease[i] \in Lease /\ b \in BOOLEAN
            BY <1>1, <4>1, StreamFields
          <5>2. l \in Lease /\ l.state = lease[i].state /\ l.inFlight = lease[i].inFlight
            BY <5>1, StreamFields
          <5>3. lease' = [lease EXCEPT ![i] = l]
            BY <3>2
          <5> HIDE DEF l
          <5>4. QED
            BY <1>1, <4>1, <5>2, <5>3
        <4>2. CASE i \notin Ids
          BY <1>1, <3>2, <4>2
        <4>3. QED
          BY <4>1, <4>2
      <3>3. QED
        BY <1>3, <3>1, <3>2 DEF EndSSE
    <2>2. actor' = [actor EXCEPT ![a] = IdleActor] /\ ~actor[a].holds /\ actor[a].owed = {}
      BY <1>3, AtPosition DEF EndSSE, At, Finish
    <2>3. QED
      BY <1>1, <2>1, <2>2, AtPosition, Records, Quiet
  <1>4. QED
    BY <1>2, <1>3

LEMMA CleanupQuiet ==
  ASSUME IInv, NEW a \in Actors,
         \/ \E i \in Ids : TryBeginExpiry(a, i) \/ CleanupGate(a, i)
         \/ \E S \in SUBSET Ids : ExpireEligible(a, S)
         \/ RestoreActive(a) \/ MarkCleanupUncertain(a) \/ CleanupDone(a)
         \/ a = Reaper /\ ReaperTick
  PROVE  IInv'
  <1>1. /\ actor[a] \in Actor /\ Placed(actor[a]) /\ lease \in [Ids -> Lease]
        /\ UNCHANGED <<orphans, gauge, gate, issued>>
    BY AtPosition
    DEF TryBeginExpiry, CleanupGate, ExpireEligible, RestoreActive, MarkCleanupUncertain,
        CleanupDone, ReaperTick
  <1>2. /\ lease' \in [Ids -> Lease]
        /\ \A i \in Ids : /\ lease'[i].state = "none" <=> lease[i].state = "none"
                          /\ lease'[i].inFlight = lease[i].inFlight
    <2> DEFINE Kept == /\ lease' \in [Ids -> Lease]
                       /\ \A j \in Ids : /\ lease'[j].state = "none" <=> lease[j].state = "none"
                                         /\ lease'[j].inFlight = lease[j].inFlight
    <2>1. ASSUME NEW i, lease[i].state # "none" \/ i \notin Ids,
                 NEW state \in {"active", "expiring", "cleanup_uncertain"},
                 lease' = [lease EXCEPT ![i].state = state]
          PROVE  Kept
      BY <1>1, <2>1 DEF Lease
    <2>2. CASE lease' = lease
      BY <1>1, <2>2
    <2>3. ASSUME NEW i \in Ids, TryBeginExpiry(a, i) PROVE Kept
      BY <2>1, <2>3 DEF TryBeginExpiry
    <2>4. ASSUME NEW i \in Ids, CleanupGate(a, i) PROVE Kept
      <3>1. CASE lease' = [lease EXCEPT ![i].deleted = TRUE]
        BY <1>1, <3>1 DEF Lease
      <3>2. QED
        BY <2>2, <2>4, <3>1 DEF CleanupGate
    <2>5. ASSUME NEW S \in SUBSET Ids, ExpireEligible(a, S) PROVE Kept
      <3>1. \A i \in S : lease[i].state = "active"
        BY <2>5 DEF ExpireEligible, Eligible
      <3>2. lease' = [i \in Ids |-> IF i \in S THEN [lease[i] EXCEPT !.state = "expiring"]
                                              ELSE lease[i]]
        BY <2>5 DEF ExpireEligible
      <3>3. QED
        BY <1>1, <3>1, <3>2 DEF Lease
    <2>6. CASE RestoreActive(a)
      <3>1. CASE lease' = [lease EXCEPT ![actor[a].id].state = "active"]
                   /\ lease[actor[a].id].state = "expiring"
        BY <2>1, <3>1
      <3>2. QED
        BY <2>2, <2>6, <3>1 DEF RestoreActive
    <2>7. CASE MarkCleanupUncertain(a)
      <3>1. CASE lease' = [lease EXCEPT ![actor[a].id].state = "cleanup_uncertain"]
                   /\ actor[a].id \in Live
        BY <2>1, <3>1 DEF Live
      <3>2. QED
        BY <2>2, <2>7, <3>1 DEF MarkCleanupUncertain
    <2>8. QED
      BY <2>2, <2>3, <2>4, <2>5, <2>6, <2>7 DEF CleanupDone, ReaperTick
  <1>3. \E r \in Actor : /\ Placed(r) /\ ~r.holds /\ ~actor[a].holds
                         /\ actor' = [actor EXCEPT ![a] = r]
                         /\ r.owed = actor[a].owed /\ ~r.reserved
    <2> DEFINE Moved == \E r \in Actor : /\ Placed(r) /\ ~r.holds /\ ~actor[a].holds
                                         /\ actor' = [actor EXCEPT ![a] = r]
                                         /\ r.owed = actor[a].owed /\ ~r.reserved
    <2>1. ASSUME NEW i \in Ids, TryBeginExpiry(a, i) PROVE Moved
      <3> DEFINE r == [IdleActor EXCEPT !.kind = "del", !.pc = "cleanup", !.todo = {i}]
      <3>1. r \in Actor /\ Placed(r) /\ ~r.holds /\ ~r.reserved /\ r.owed = {}
        BY DEF IdleActor, Actor, Placed
      <3>2. actor' = [actor EXCEPT ![a] = r] /\ ~actor[a].holds /\ actor[a].owed = {}
        BY <2>1, AtPosition DEF TryBeginExpiry
      <3> HIDE DEF r
      <3>3. QED
        BY <3>1, <3>2
    <2>2. CASE a = Reaper /\ ReaperTick
      <3> DEFINE r == [IdleActor EXCEPT !.kind = "prune", !.pc = "sweep"]
      <3>1. r \in Actor /\ Placed(r) /\ ~r.holds /\ ~r.reserved /\ r.owed = {}
        BY DEF IdleActor, Actor, Placed
      <3>2. actor' = [actor EXCEPT ![a] = r] /\ ~actor[a].holds /\ actor[a].owed = {}
        BY <2>2, AtPosition DEF ReaperTick
      <3> HIDE DEF r
      <3>3. QED
        BY <3>1, <3>2
    <2>3. ASSUME NEW r, actor' = [actor EXCEPT ![a] = r],
                 actor[a].pc \in {"expire", "cleanup", "restore", "delete"},
                 r \in Actor, Placed(r), r.kind = actor[a].kind, r.owed = actor[a].owed,
                 r.reserved = actor[a].reserved, r.holds = actor[a].holds
          PROVE  Moved
      BY <1>1, <2>3 DEF Placed
    <2>4. ASSUME NEW i \in Ids, CleanupGate(a, i) PROVE Moved
      <3>1. PICK pc \in {"delete", "restore"} :
              actor' = [actor EXCEPT ![a].pc = pc, ![a].id = i]
        BY <2>4 DEF CleanupGate
      <3> DEFINE r == [actor[a] EXCEPT !.pc = pc, !.id = i]
      <3>2. actor' = [actor EXCEPT ![a] = r]
        BY <3>1
      <3>3. /\ r \in Actor /\ r.kind = actor[a].kind /\ r.owed = actor[a].owed /\ r.pc = pc
            /\ r.reserved = actor[a].reserved /\ r.holds = actor[a].holds
            /\ r.id = i /\ r.todo = actor[a].todo
        BY <1>1 DEF Actor
      <3>4. actor[a].pc = "cleanup" /\ i \in actor[a].todo
        BY <2>4 DEF CleanupGate
      <3>5. Placed(r)
        BY <1>1, <3>3, <3>4 DEF Placed
      <3> HIDE DEF r
      <3>6. QED
        BY <2>3, <3>2, <3>3, <3>4, <3>5
    <2>5. ASSUME NEW S \in SUBSET Ids, ExpireEligible(a, S) PROVE Moved
      <3> DEFINE r == [actor[a] EXCEPT !.pc = "cleanup", !.todo = S]
      <3>1. actor' = [actor EXCEPT ![a] = r] /\ actor[a].pc = "expire"
        BY <2>5 DEF ExpireEligible
      <3>2. /\ r \in Actor /\ r.kind = actor[a].kind /\ r.owed = actor[a].owed
            /\ r.reserved = actor[a].reserved /\ r.holds = actor[a].holds
            /\ r.pc = "cleanup" /\ r.todo = S /\ r.id = actor[a].id
        BY <1>1 DEF Actor
      <3>3. Placed(r)
        BY <1>1, <3>1, <3>2 DEF Placed
      <3> HIDE DEF r
      <3>4. QED
        BY <2>3, <3>1, <3>2, <3>3
    <2>6. CASE RestoreActive(a) \/ MarkCleanupUncertain(a)
      <3> DEFINE r == [actor[a] EXCEPT !.pc = "cleanup", !.id = None,
                                       !.todo = actor[a].todo \ {actor[a].id}]
      <3>1. actor' = [actor EXCEPT ![a] = r] /\ actor[a].pc \in {"restore", "delete"}
        BY <2>6 DEF RestoreActive, MarkCleanupUncertain, CleanedUp
      <3>2. /\ r \in Actor /\ r.kind = actor[a].kind /\ r.owed = actor[a].owed
            /\ r.reserved = actor[a].reserved /\ r.holds = actor[a].holds
            /\ r.pc = "cleanup"
        BY <1>1 DEF Actor
      <3>3. Placed(r)
        BY <1>1, <3>1, <3>2 DEF Placed
      <3> HIDE DEF r
      <3>4. QED
        BY <2>3, <3>1, <3>2, <3>3
    <2>7. CASE CleanupDone(a) /\ Goto(a, "reserve") /\ actor[a].kind = "init"
      <3> DEFINE r == [actor[a] EXCEPT !.pc = "reserve"]
      <3>1. actor' = [actor EXCEPT ![a] = r] /\ actor[a].pc = "cleanup" /\ actor[a].todo = {}
        BY <2>7 DEF Goto, CleanupDone
      <3>2. /\ r \in Actor /\ r.kind = actor[a].kind /\ r.owed = actor[a].owed
            /\ r.reserved = actor[a].reserved /\ r.holds = actor[a].holds
            /\ r.pc = "reserve" /\ r.todo = actor[a].todo
        BY <1>1 DEF Actor
      <3>3. Placed(r)
        BY <1>1, <2>7, <3>1, <3>2 DEF Placed
      <3> HIDE DEF r
      <3>4. QED
        BY <2>3, <3>1, <3>2, <3>3
    <2>8. CASE CleanupDone(a) /\ Finish(a)
      <3>1. actor[a].pc = "cleanup" /\ actor' = [actor EXCEPT ![a] = IdleActor]
        BY <2>8 DEF CleanupDone, Finish
      <3>2. ~actor[a].holds /\ actor[a].owed = {}
        BY <1>1, <3>1 DEF Placed
      <3>3. QED
        BY <3>1, <3>2, Records, AtPosition
    <2>9. QED
      BY <2>1, <2>2, <2>4, <2>5, <2>6, <2>7, <2>8 DEF CleanupDone
  <1>4. QED
    BY <1>1, <1>2, <1>3, Quiet

---------------------------------------------------------------------------
(* Steps that move capacity.                                               *)
LEMMA AdmitKeeps ==
  ASSUME IInv, NEW a \in Actors, (Initialize(a) \/ ReserveAgain(a)) /\ ~Full
  PROVE  IInv'
  <1>1. /\ actor[a] \in Actor /\ Placed(actor[a])
        /\ UNCHANGED <<lease, orphans, gauge, gate, issued>>
    BY AtPosition DEF Initialize, ReserveAgain
  <1>2. PICK r \in Actor : /\ Placed(r) /\ ~r.holds /\ ~actor[a].holds
                           /\ r.owed = {} /\ actor[a].owed = {}
                           /\ r.reserved /\ ~actor[a].reserved
                           /\ actor' = [actor EXCEPT ![a] = r]
    <2>1. CASE Initialize(a)
      <3> DEFINE r == [IdleActor EXCEPT !.kind = "init", !.pc = "gate", !.reserved = TRUE]
      <3>1. r \in Actor /\ Placed(r) /\ ~r.holds /\ r.reserved /\ r.owed = {}
        BY DEF IdleActor, Actor, Placed
      <3>2. actor' = [actor EXCEPT ![a] = r] /\ actor[a].pc = "idle"
        BY <2>1 DEF Initialize
      <3>3. ~actor[a].holds /\ actor[a].owed = {} /\ ~actor[a].reserved
        BY <1>1, <3>2 DEF Placed
      <3> HIDE DEF r
      <3>4. QED
        BY <3>1, <3>2, <3>3
    <2>2. CASE ReserveAgain(a)
      <3> DEFINE r == [actor[a] EXCEPT !.pc = "gate", !.reserved = TRUE]
      <3>1. /\ actor' = [actor EXCEPT ![a] = r]
            /\ actor[a].pc = "reserve" /\ actor[a].kind = "init"
        BY <2>2 DEF ReserveAgain, At
      <3>2. ~actor[a].holds /\ actor[a].owed = {} /\ ~actor[a].reserved /\ actor[a].todo = {}
        BY <1>1, <3>1 DEF Placed
      <3>3. /\ r \in Actor /\ ~r.holds /\ r.reserved /\ r.owed = {} /\ r.todo = {}
            /\ r.kind = "init" /\ r.pc = "gate"
        BY <1>1, <3>1, <3>2 DEF Actor
      <3>4. Placed(r)
        BY <3>3 DEF Placed
      <3> HIDE DEF r
      <3>5. QED
        BY <3>1, <3>2, <3>3, <3>4
    <2>3. QED
      BY <2>1, <2>2
  <1>3. /\ actor' \in [Actors -> Actor] /\ Positions'
        /\ actor'[a] = r /\ \A b \in Actors \ {a} : actor'[b] = actor[b]
        /\ Live' = Live /\ HoldersLive' /\ BooksExact'
    BY <1>1, <1>2, BooksStay
  <1>4. Reserved' = Reserved \cup {a} /\ a \notin Reserved
    BY <1>2, <1>3 DEF Reserved
  <1>5. /\ Cardinality(Reserved) \in Nat /\ Cardinality(Live) \in Nat
        /\ Cardinality(Reserved') = Cardinality(Reserved) + 1
    BY <1>4, FiniteParts, FS_AddElement DEF Reserved, Live
  <1>6. CapacityBound'
    BY <1>1, <1>3, <1>5, ConstantsAssumption
    DEF IInv, TypeOK, CapacityBound, CapacityUsed, Full
  <1>7. TypeOK'
    BY <1>1, <1>3 DEF IInv, TypeOK
  <1>8. QED
    BY <1>3, <1>6, <1>7 DEF IInv

(* A reservation leaves the table with the goroutine that made it.         *)
LEMMA Unreserved ==
  ASSUME IInv, NEW a \in Actors, actor[a].kind = "init", Finish(a)
  PROVE  /\ \A b \in Actors \ {a} : actor'[b] = actor[b]
         /\ actor' \in [Actors -> Actor] /\ Positions' /\ actor'[a] = IdleActor
         /\ Reserved' = Reserved \ {a}
         /\ Cardinality(Reserved) \in Nat /\ Cardinality(Reserved') \in Nat
         /\ Cardinality(Reserved') = IF actor[a].reserved THEN Cardinality(Reserved) - 1
                                                          ELSE Cardinality(Reserved)
  <1>1. /\ \A b \in Actors \ {a} : actor'[b] = actor[b]
        /\ actor' \in [Actors -> Actor] /\ Positions' /\ actor'[a] = IdleActor
    BY OneMoves, Records DEF IInv, Finish
  <1>2. Reserved' = Reserved \ {a} /\ (a \in Reserved <=> actor[a].reserved)
    BY <1>1, AtPosition DEF Reserved
  <1>3. /\ IsFiniteSet(Reserved) /\ Cardinality(Reserved) \in Nat
        /\ Cardinality(Reserved') \in Nat
    BY FiniteParts DEF Reserved
  <1>4. CASE actor[a].reserved
    BY <1>1, <1>2, <1>3, <1>4, FS_RemoveElement
  <1>5. CASE ~actor[a].reserved
    <2>1. Reserved' = Reserved
      BY <1>2, <1>5
    <2>2. QED
      BY <1>1, <1>2, <1>3, <1>5, <2>1
  <1>6. QED
    BY <1>4, <1>5

LEMMA OrphanKeeps ==
  ASSUME IInv, NEW a \in Actors, actor[a].kind = "init", actor[a].pc = "sent", Finish(a),
         orphans' = orphans + (IF actor[a].reserved THEN 1 ELSE 0),
         UNCHANGED <<lease, gauge, gate>>, issued' \subseteq Ids
  PROVE  IInv'
  <1>1. Live' = Live /\ HoldersLive' /\ BooksExact'
    BY BooksStay, AtPosition, Records DEF Finish
  <1>2. Cardinality(Live) \in Nat /\ orphans \in Nat
    BY FiniteParts DEF Live, IInv, TypeOK
  <1>3. CapacityBound'
    BY <1>1, <1>2, Unreserved DEF IInv, CapacityBound, CapacityUsed
  <1>4. TypeOK'
    BY <1>2, Unreserved DEF IInv, TypeOK
  <1>5. QED
    BY <1>1, <1>3, <1>4, Unreserved DEF IInv

LEMMA CommitKeeps ==
  ASSUME IInv, NEW a \in Actors, NEW i \in Ids, Commit(a, i)
  PROVE  IInv'
  <1>1. /\ actor[a].kind = "init" /\ actor[a].pc = "sent" /\ Finish(a)
        /\ issued' \subseteq Ids /\ gate' = gate
    BY DEF Commit, At, IInv, TypeOK
  <1>2. CASE ~(actor[a].reserved /\ i \notin Live)
    BY <1>1, <1>2, OrphanKeeps DEF Commit
  <1>3. CASE actor[a].reserved /\ i \notin Live
    <2>1. /\ lease' = [lease EXCEPT ![i] = NewLease] /\ gauge' = gauge + 1
          /\ orphans' = orphans
      BY <1>3 DEF Commit
    <2>2. /\ lease \in [Ids -> Lease] /\ orphans \in Nat /\ gauge \in Nat
          /\ ~actor[a].holds /\ actor[a].owed = {}
      BY <1>1, AtPosition DEF IInv, TypeOK
    <2>3. lease' \in [Ids -> Lease] /\ Live' = Live \cup {i}
      BY <2>1, <2>2, Records DEF Live
    <2>4. /\ Cardinality(Live) \in Nat /\ Cardinality(Live') = Cardinality(Live) + 1
      BY <1>3, <2>3, FiniteParts, FS_AddElement DEF Live
    <2>5. CapacityBound'
      BY <1>1, <1>3, <2>1, <2>2, <2>4, Unreserved DEF IInv, CapacityBound, CapacityUsed
    <2>6. OwedPairs' = OwedPairs
      <3>1. \A b \in Actors : actor'[b].owed = actor[b].owed
        BY <1>1, <2>2, Unreserved, AtPosition
      <3>2. QED
        BY <3>1 DEF OwedPairs
    <2>7. GaugeExact'
      <3>1. Cardinality(OwedPairs) \in Nat
        BY FiniteParts DEF OwedPairs
      <3>2. gauge = Cardinality(Live) + Cardinality(OwedPairs)
        BY DEF IInv, BooksExact, GaugeExact, OwedPairs
      <3>3. gauge' = Cardinality(Live') + Cardinality(OwedPairs')
        BY <2>1, <2>4, <2>6, <3>1, <3>2
      <3>4. QED
        BY <3>3 DEF GaugeExact, OwedPairs
    <2>8. \A b \in Actors : /\ actor'[b].holds <=> actor[b].holds
                            /\ actor[b].holds => actor'[b] = actor[b]
      <3>1. ASSUME NEW b \in Actors, b # a PROVE actor'[b] = actor[b]
        BY <1>1, <3>1, Unreserved
      <3>2. ~actor'[a].holds /\ ~actor[a].holds
        BY <1>1, <2>2, Unreserved, AtPosition
      <3>3. ASSUME NEW b \in Actors
            PROVE  /\ actor'[b].holds <=> actor[b].holds
                   /\ actor[b].holds => actor'[b] = actor[b]
        <4>1. CASE b = a
          BY <3>2, <4>1
        <4>2. CASE b # a
          BY <3>1, <4>2
        <4>3. QED
          BY <4>1, <4>2
      <3>4. QED
        BY <3>3
    <2>9. HoldersLive'
      <3>1. \A b \in Actors : actor[b].holds => actor[b].id \in Live
        BY DEF IInv, HoldersLive
      <3>2. ASSUME NEW b \in Actors, actor'[b].holds PROVE actor'[b].id \in Live'
        <4>1. actor[b].holds
          BY <2>8, <3>2
        <4>2. actor'[b] = actor[b]
          BY <2>8, <4>1
        <4>3. actor[b].id \in Live
          BY <3>1, <4>1
        <4>4. QED
          BY <2>3, <4>2, <4>3
      <3>3. QED
        BY <3>2 DEF HoldersLive
    <2>10. InFlightExact'
      <3>1. \A j \in Ids : Holders(j)' = Holders(j)
        <4>1. ASSUME NEW b \in Actors, NEW j \in Ids
              PROVE  (actor'[b].kind = "post" /\ actor'[b].id = j /\ actor'[b].holds)
                       <=> (actor[b].kind = "post" /\ actor[b].id = j /\ actor[b].holds)
          <5>1. CASE actor[b].holds
            BY <2>8, <5>1
          <5>2. CASE ~actor[b].holds
            BY <2>8, <5>2
          <5>3. QED
            BY <5>1, <5>2
        <4>2. QED
          BY <4>1 DEF Holders
      <3>2. Holders(i) = {}
        BY <1>3 DEF Holders, IInv, HoldersLive
      <3>3. \A j \in Live' : lease'[j].inFlight = Cardinality(Holders(j)')
        <4>1. lease'[i].inFlight = 0
          BY <2>1, <2>2, Records
        <4>2. Cardinality(Holders(i)') = 0
          BY <3>1, <3>2, FS_EmptySet
        <4>3. ASSUME NEW j \in Live', j # i PROVE lease'[j].inFlight = Cardinality(Holders(j)')
          <5>1. j \in Live /\ j \in Ids /\ lease'[j] = lease[j]
            BY <2>1, <2>2, <2>3, <4>3 DEF Live
          <5>2. lease[j].inFlight = Cardinality(Holders(j))
            BY <5>1 DEF IInv, BooksExact, InFlightExact, Holders
          <5>3. QED
            BY <3>1, <5>1, <5>2
        <4>4. QED
          BY <4>1, <4>2, <4>3
      <3>4. QED
        BY <3>3 DEF InFlightExact, Holders
    <2>11. TypeOK'
      BY <1>1, <2>1, <2>2, <2>3, Unreserved DEF IInv, TypeOK
    <2>12. QED
      BY <1>1, <2>5, <2>7, <2>9, <2>10, <2>11, Unreserved DEF IInv, BooksExact
  <1>4. QED
    BY <1>2, <1>3

---------------------------------------------------------------------------
(* Steps that count a request.                                             *)
LEMMA RequestFields ==
  ASSUME NEW l \in Lease, NEW k \in Int, NEW b \in BOOLEAN
  PROVE  LET m == [l EXCEPT !.inFlight = k, !.everActive = b]
         IN m \in Lease /\ m.state = l.state /\ m.inFlight = k
  BY DEF Lease

LEMMA BeginKeeps ==
  ASSUME IInv, NEW a \in Actors, NEW i \in Ids, NEW activity \in BOOLEAN,
         BeginRequest(a, i, activity)
  PROVE  IInv'
  <1> DEFINE r == [IdleActor EXCEPT !.kind = "post", !.pc = "gate", !.id = i, !.holds = TRUE]
             l == [lease[i] EXCEPT !.inFlight = lease[i].inFlight + 1,
                                   !.everActive = lease[i].everActive \/ activity]
  <1>1. /\ r \in Actor /\ Placed(r) /\ r.holds /\ ~r.reserved /\ r.owed = {}
        /\ r.kind = "post" /\ r.id = i
    BY DEF IdleActor, Actor, Placed
  <1>2. /\ lease \in [Ids -> Lease] /\ lease[i] \in Lease
        /\ lease[i].inFlight \in Int /\ lease[i].everActive \in BOOLEAN
    BY AtPosition DEF Lease
  <1>3. l \in Lease /\ l.state = lease[i].state /\ l.inFlight = lease[i].inFlight + 1
    <2> DEFINE k == lease[i].inFlight + 1
               b == lease[i].everActive \/ activity
    <2>1. k \in Int /\ b \in BOOLEAN
      BY <1>2
    <2> HIDE DEF k, b
    <2>2. LET m == [lease[i] EXCEPT !.inFlight = k, !.everActive = b]
          IN m \in Lease /\ m.state = lease[i].state /\ m.inFlight = k
      BY <1>2, <2>1, RequestFields
    <2>3. QED
      BY <2>2 DEF k, b
  <1>4. /\ actor' = [actor EXCEPT ![a] = r] /\ lease' = [lease EXCEPT ![i] = l]
        /\ UNCHANGED <<orphans, gauge, gate, issued>>
        /\ actor[a].pc = "idle" /\ lease[i].state = "active"
    BY DEF BeginRequest
  <1>5. ~actor[a].holds /\ actor[a].owed = {}
    BY <1>4, AtPosition
  <1> HIDE DEF r, l
  <1>6. /\ actor' \in [Actors -> Actor] /\ Positions'
        /\ actor'[a] = r /\ \A b \in Actors \ {a} : actor'[b] = actor[b]
    BY <1>1, <1>4, OneMoves DEF IInv
  <1>7. Live' = Live /\ i \in Live /\ lease' \in [Ids -> Lease]
    BY <1>2, <1>3, <1>4 DEF Live
  <1>8. Reserved' \subseteq Reserved
    BY <1>1, <1>6 DEF Reserved
  <1>9. orphans \in Nat /\ gauge \in Nat
    BY DEF IInv, TypeOK
  <1>10. CapacityBound'
    BY <1>4, <1>7, <1>8, <1>9, CapacityKeeps
  <1>11. GaugeExact'
    <2>1. \A b \in Actors : actor'[b].owed = actor[b].owed
      BY <1>1, <1>5, <1>6
    <2>2. QED
      BY <1>4, <1>7, <2>1, GaugeKeeps
  <1>12. HoldersLive'
    <2>1. \A b \in Actors : actor[b].holds => actor[b].id \in Live
      BY DEF IInv, HoldersLive
    <2>2. \A b \in Actors : actor'[b].holds => actor'[b].id \in Live'
      BY <1>1, <1>6, <1>7, <2>1
    <2>3. QED
      BY <2>2 DEF HoldersLive
  <1>13. InFlightExact'
    <2>1. /\ Holders(i)' = Holders(i) \cup {a} /\ a \notin Holders(i)
          /\ \A j \in Ids \ {i} : Holders(j)' = Holders(j)
      BY <1>1, <1>5, <1>6 DEF Holders
    <2>2. \A j \in Live : lease[j].inFlight = Cardinality(Holders(j))
      BY DEF IInv, BooksExact, InFlightExact, Holders
    <2>3. Cardinality(Holders(i)') = Cardinality(Holders(i)) + 1
      BY <2>1, FiniteParts, FS_AddElement DEF Holders
    <2>4. ASSUME NEW j \in Live PROVE lease'[j].inFlight = Cardinality(Holders(j)')
      <3>1. CASE j = i
        BY <1>2, <1>3, <1>4, <1>7, <2>2, <2>3, <3>1
      <3>2. CASE j # i
        BY <1>2, <1>4, <2>1, <2>2, <3>2 DEF Live
      <3>3. QED
        BY <3>1, <3>2
    <2>5. QED
      BY <1>7, <2>4 DEF InFlightExact, Holders
  <1>14. TypeOK'
    BY <1>4, <1>6, <1>7, <1>9 DEF IInv, TypeOK
  <1>15. QED
    BY <1>6, <1>10, <1>11, <1>12, <1>13, <1>14 DEF IInv, BooksExact

LEMMA CompleteKeeps ==
  ASSUME IInv, NEW a \in Actors, CompleteRequest(a)
  PROVE  IInv'
  <1>0. PICK i \in Ids : i = actor[a].id
    BY AtPosition DEF CompleteRequest, At, Placed
  <1>1. /\ actor[a] \in Actor /\ Placed(actor[a]) /\ actor[a].kind = "post"
        /\ actor[a].owed = {} /\ lease \in [Ids -> Lease] /\ Finish(a)
        /\ UNCHANGED <<orphans, gauge, gate, issued>>
    BY AtPosition DEF CompleteRequest, At, Placed
  <1>2. CASE ~actor[a].holds
    BY <1>1, <1>2, Quiet, AtPosition, Records DEF CompleteRequest, Finish
  <1>3. CASE actor[a].holds
    <2> DEFINE l == [lease[i] EXCEPT !.inFlight = lease[i].inFlight - 1,
                                     !.everActive = lease[i].everActive]
    <2>1. /\ lease[i] \in Lease
          /\ lease[i].inFlight \in Int /\ lease[i].everActive \in BOOLEAN
      BY <1>1 DEF Lease
    <2>2. l \in Lease /\ l.state = lease[i].state /\ l.inFlight = lease[i].inFlight - 1
      <3> DEFINE k == lease[i].inFlight - 1
                 b == lease[i].everActive
      <3>1. k \in Int /\ b \in BOOLEAN
        BY <2>1
      <3> HIDE DEF k, b
      <3>2. LET m == [lease[i] EXCEPT !.inFlight = k, !.everActive = b]
            IN m \in Lease /\ m.state = lease[i].state /\ m.inFlight = k
        BY <2>1, <3>1, RequestFields
      <3>3. QED
        BY <3>2 DEF k, b
    <2>3. lease' = [lease EXCEPT ![i] = l]
      BY <1>0, <1>1, <1>3, <2>1 DEF CompleteRequest, Lease
    <2> HIDE DEF l
    <2>4. /\ actor' \in [Actors -> Actor] /\ Positions'
          /\ actor'[a] = IdleActor /\ \A b \in Actors \ {a} : actor'[b] = actor[b]
      BY <1>1, OneMoves, Records DEF IInv, Finish
    <2>5. Live' = Live /\ lease' \in [Ids -> Lease]
      BY <1>1, <2>2, <2>3 DEF Live
    <2>6. \A b \in Actors : actor[b].holds => actor[b].id \in Live
      BY DEF IInv, HoldersLive
    <2>7. Reserved' \subseteq Reserved
      BY <2>4, AtPosition DEF Reserved
    <2>8. orphans \in Nat /\ gauge \in Nat
      BY DEF IInv, TypeOK
    <2>9. CapacityBound'
      BY <1>1, <2>5, <2>7, <2>8, CapacityKeeps
    <2>10. GaugeExact'
      <3>1. \A b \in Actors : actor'[b].owed = actor[b].owed
        BY <1>1, <2>4, AtPosition
      <3>2. QED
        BY <1>1, <2>5, <3>1, GaugeKeeps
    <2>11. HoldersLive'
      <3>1. \A b \in Actors : actor'[b].holds => actor'[b].id \in Live'
        BY <2>4, <2>5, <2>6, AtPosition
      <3>2. QED
        BY <3>1 DEF HoldersLive
    <2>12. InFlightExact'
      <3>1. /\ Holders(i)' = Holders(i) \ {a} /\ a \in Holders(i)
            /\ \A j \in Ids \ {i} : Holders(j)' = Holders(j)
        <4>1. ~actor'[a].holds
          BY <2>4, AtPosition
        <4>2. a \in Holders(i) /\ \A j \in Ids \ {i} : a \notin Holders(j)
          BY <1>0, <1>1, <1>3 DEF Holders
        <4>3. ASSUME NEW j \in Ids PROVE Holders(j)' = Holders(j) \ {a}
          BY <2>4, <4>1 DEF Holders
        <4>4. QED
          BY <4>2, <4>3
      <3>2. \A j \in Live : lease[j].inFlight = Cardinality(Holders(j))
        BY DEF IInv, BooksExact, InFlightExact, Holders
      <3>3. Cardinality(Holders(i)') = Cardinality(Holders(i)) - 1
        <4>1. IsFiniteSet(Holders(i))
          BY FiniteParts DEF Holders
        <4>2. QED
          BY <3>1, <4>1, FS_RemoveElement
      <3>4. ASSUME NEW j \in Live PROVE lease'[j].inFlight = Cardinality(Holders(j)')
        <4>1. CASE j = i
          <5>1. lease'[i].inFlight = lease[i].inFlight - 1
            BY <1>1, <2>2, <2>3
          <5>2. lease[i].inFlight = Cardinality(Holders(i))
            BY <3>2, <4>1
          <5>3. QED
            BY <3>3, <4>1, <5>1, <5>2
        <4>2. CASE j # i
          BY <1>1, <2>3, <3>1, <3>2, <4>2 DEF Live
        <4>3. QED
          BY <4>1, <4>2
      <3>5. QED
        BY <2>5, <3>4 DEF InFlightExact, Holders
    <2>13. TypeOK'
      BY <1>1, <2>4, <2>5, <2>8 DEF IInv, TypeOK
    <2>14. QED
      BY <2>4, <2>9, <2>10, <2>11, <2>12, <2>13 DEF IInv, BooksExact
  <1>4. QED
    BY <1>2, <1>3

---------------------------------------------------------------------------
(* Steps that close leases.                                                *)

(* The records of S go, and the requests counted on them with them.        *)
LEMMA DropKeeps ==
  ASSUME IInv, NEW S \in SUBSET Ids, lease' = Without(S),
         \A b \in Actors :
           /\ actor'[b].holds <=> Dropped(actor, S)[b].holds
           /\ actor'[b].holds => actor'[b].kind = actor[b].kind /\ actor'[b].id = actor[b].id
  PROVE  /\ lease' \in [Ids -> Lease] /\ Live' = Live \ S
         /\ HoldersLive' /\ InFlightExact'
  <1>1. lease \in [Ids -> Lease] /\ actor \in [Actors -> Actor]
    BY DEF IInv, TypeOK
  <1>2. lease' \in [Ids -> Lease] /\ Live' = Live \ S
    BY <1>1, Records DEF Without, Live
  <1>3. \A i \in Live' : lease'[i].inFlight = lease[i].inFlight
    BY <1>1, <1>2 DEF Without, Live
  <1>4. \A b \in Actors : actor[b].holds => actor[b].id \in Live
    BY DEF IInv, HoldersLive
  <1>5. \A b \in Actors : /\ actor[b].id \in S => ~Dropped(actor, S)[b].holds
                          /\ actor[b].id \notin S => Dropped(actor, S)[b] = actor[b]
                          /\ Dropped(actor, S)[b].holds => actor[b].holds
    BY <1>1, DroppedFields DEF IInv, Positions
  <1>6. ASSUME NEW b \in Actors
        PROVE  /\ actor'[b].holds => /\ actor[b].holds /\ actor'[b].kind = actor[b].kind
                                     /\ actor'[b].id = actor[b].id /\ actor'[b].id \in Live'
               /\ actor[b].holds /\ actor[b].id \in Live'
                    => /\ actor'[b].holds /\ actor'[b].kind = actor[b].kind
                       /\ actor'[b].id = actor[b].id
    <2>1. CASE actor[b].id \in S
      BY <1>2, <1>5, <2>1
    <2>2. CASE actor[b].id \notin S
      <3>1. actor'[b].holds <=> actor[b].holds
        BY <1>5, <2>2
      <3>2. QED
        BY <1>2, <1>4, <2>2, <3>1
    <2>3. QED
      BY <2>1, <2>2
  <1>7. QED
    BY <1>2, <1>3, <1>6, CountsKeep

LEMMA QuarantineEndKeeps ==
  ASSUME IInv, NEW a \in Actors, NEW Q \in SUBSET Ids, ExpireCleanupUncertain(a, Q)
  PROVE  IInv'
  <1> DEFINE d == Dropped(actor, Q)
             r == [d[a] EXCEPT !.pc = "settle", !.owed = Q]
  <1>1. /\ actor[a] \in Actor /\ Placed(actor[a]) /\ actor[a].pc = "sweep"
        /\ lease' = Without(Q) /\ UNCHANGED <<orphans, gauge, gate, issued>>
        /\ Q \subseteq Live
    BY AtPosition DEF ExpireCleanupUncertain, Live
  <1>2. /\ d \in [Actors -> Actor]
        /\ \A b \in Actors :
             /\ Placed(d[b]) /\ (d[b].holds => actor[b].holds)
             /\ d[b].pc = actor[b].pc /\ d[b].kind = actor[b].kind /\ d[b].id = actor[b].id
             /\ d[b].reserved = actor[b].reserved /\ d[b].todo = actor[b].todo
             /\ d[b].owed = actor[b].owed
    BY DroppedFields DEF IInv, TypeOK, Positions
  <1>3. actor' = [d EXCEPT ![a] = r]
    BY <1>2 DEF ExpireCleanupUncertain
  <1> HIDE DEF d
  <1>4. /\ r \in Actor /\ r.pc = "settle" /\ r.owed = Q /\ r.kind = actor[a].kind
        /\ r.id = actor[a].id /\ r.todo = actor[a].todo /\ r.reserved = actor[a].reserved
        /\ r.holds = d[a].holds
    BY <1>2 DEF Actor
  <1> HIDE DEF r
  <1>5. ~actor[a].holds /\ ~actor[a].reserved /\ actor[a].todo = {} /\ actor[a].owed = {}
    BY <1>1 DEF Placed
  <1>6. ~d[a].holds
    BY <1>2, <1>5
  <1>7. Placed(r)
    BY <1>1, <1>4, <1>5, <1>6 DEF Placed
  <1>8. /\ actor' \in [Actors -> Actor] /\ Positions'
        /\ actor'[a] = r /\ \A b \in Actors \ {a} : actor'[b] = d[b]
    BY <1>2, <1>3, <1>4, <1>7 DEF Positions, Placed
  <1>9. /\ lease' \in [Ids -> Lease] /\ Live' = Live \ Q
        /\ HoldersLive' /\ InFlightExact'
    <2>1. ASSUME NEW b \in Actors
          PROVE  /\ actor'[b].holds <=> d[b].holds
                 /\ actor'[b].kind = actor[b].kind /\ actor'[b].id = actor[b].id
      <3>1. CASE b = a
        BY <1>4, <1>8, <3>1
      <3>2. CASE b # a
        BY <1>2, <1>8, <3>2
      <3>3. QED
        BY <3>1, <3>2
    <2>2. QED
      BY <1>1, <2>1, DropKeeps DEF d
  <1>10. Reserved' = Reserved
    <2>1. \A b \in Actors : actor'[b].reserved = actor[b].reserved
      BY <1>2, <1>4, <1>8
    <2>2. QED
      BY <2>1 DEF Reserved
  <1>11. orphans \in Nat /\ gauge \in Nat
    BY DEF IInv, TypeOK
  <1>12. CapacityBound'
    BY <1>1, <1>9, <1>10, <1>11, CapacityKeeps
  <1>13. GaugeExact'
    <2>1. /\ OwedPairs' = OwedPairs \cup ({a} \X Q)
          /\ OwedPairs \cap ({a} \X Q) = {}
      BY <1>2, <1>4, <1>5, <1>8 DEF OwedPairs
    <2>2. /\ IsFiniteSet(OwedPairs) /\ IsFiniteSet(Q) /\ IsFiniteSet({a})
          /\ Cardinality({a}) = 1 /\ Cardinality(Q) \in Nat /\ Cardinality(OwedPairs) \in Nat
      BY FiniteParts, FS_Singleton DEF OwedPairs
    <2>3. IsFiniteSet({a} \X Q) /\ Cardinality({a} \X Q) = Cardinality(Q)
      BY <2>2, FS_Product
    <2>4. Cardinality(OwedPairs') = Cardinality(OwedPairs) + Cardinality(Q)
      <3>1. Cardinality(OwedPairs \cup ({a} \X Q))
              = Cardinality(OwedPairs) + Cardinality({a} \X Q)
                - Cardinality(OwedPairs \cap ({a} \X Q))
        BY <2>2, <2>3, FS_Union
      <3>2. Cardinality(OwedPairs \cap ({a} \X Q)) = 0
        BY <2>1, FS_EmptySet
      <3>3. QED
        BY <2>1, <2>2, <2>3, <3>1, <3>2
    <2>5. Cardinality(Live') = Cardinality(Live) - Cardinality(Q) /\ Cardinality(Live) \in Nat
      <3>1. Live \cap Q = Q /\ IsFiniteSet(Live) /\ Cardinality(Live) \in Nat
        BY <1>1, FiniteParts DEF Live
      <3>2. QED
        BY <1>9, <3>1, FS_Difference
    <2>6. gauge = Cardinality(Live) + Cardinality(OwedPairs)
      BY DEF IInv, BooksExact, GaugeExact, OwedPairs
    <2>7. gauge' = Cardinality(Live') + Cardinality(OwedPairs')
      BY <1>1, <2>2, <2>4, <2>5, <2>6
    <2>8. QED
      BY <2>7 DEF GaugeExact, OwedPairs
  <1>14. TypeOK'
    BY <1>1, <1>8, <1>9, <1>11 DEF IInv, TypeOK
  <1>15. QED
    BY <1>8, <1>9, <1>12, <1>13, <1>14 DEF IInv, BooksExact

LEMMA SettleKeeps ==
  ASSUME IInv, NEW a \in Actors, SettleGauge(a)
  PROVE  IInv'
  <1> DEFINE r == [actor[a] EXCEPT !.pc = "expire", !.owed = {}]
  <1>1. /\ actor[a] \in Actor /\ Placed(actor[a]) /\ actor[a].pc = "settle"
        /\ actor' = [actor EXCEPT ![a] = r]
        /\ gauge' = gauge - Cardinality(actor[a].owed)
        /\ UNCHANGED <<lease, orphans, gate, issued>>
    BY AtPosition DEF SettleGauge
  <1>2. /\ r \in Actor /\ r.pc = "expire" /\ r.owed = {} /\ r.kind = actor[a].kind
        /\ r.id = actor[a].id /\ r.todo = actor[a].todo /\ r.reserved = actor[a].reserved
        /\ r.holds = actor[a].holds
    BY <1>1 DEF Actor
  <1> HIDE DEF r
  <1>3. Placed(r) /\ ~r.holds /\ ~actor[a].holds
    BY <1>1, <1>2 DEF Placed
  <1>4. /\ actor' \in [Actors -> Actor] /\ Positions'
        /\ actor'[a] = r /\ \A b \in Actors \ {a} : actor'[b] = actor[b]
    BY <1>1, <1>2, <1>3, OneMoves DEF IInv
  <1>5. Live' = Live
    BY <1>1 DEF Live
  <1>6. Reserved' = Reserved
    BY <1>2, <1>4 DEF Reserved
  <1>7. orphans \in Nat /\ gauge \in Nat /\ lease \in [Ids -> Lease]
    BY DEF IInv, TypeOK
  <1>8. CapacityBound'
    BY <1>1, <1>5, <1>6, <1>7, CapacityKeeps
  <1>9. HoldersLive' /\ InFlightExact'
    <2>1. \A b \in Actors : actor[b].holds => actor[b].id \in Live
      BY DEF IInv, HoldersLive
    <2>2. \A b \in Actors : /\ actor'[b].holds = actor[b].holds
                            /\ actor'[b].kind = actor[b].kind /\ actor'[b].id = actor[b].id
      BY <1>2, <1>4
    <2>3. QED
      BY <1>1, <1>5, <2>1, <2>2, CountsKeep
  <1>10. gauge' = Cardinality(Live') + Cardinality(OwedPairs')
    <2> DEFINE Q == actor[a].owed
    <2>1. Q \subseteq Ids
      BY <1>1 DEF Actor
    <2>2. OwedPairs' = OwedPairs \ ({a} \X Q) /\ OwedPairs \cap ({a} \X Q) = {a} \X Q
      BY <1>2, <1>4, <2>1 DEF OwedPairs
    <2>3. /\ IsFiniteSet(OwedPairs) /\ IsFiniteSet(Q) /\ IsFiniteSet({a})
          /\ Cardinality({a}) = 1 /\ Cardinality(Q) \in Nat /\ Cardinality(OwedPairs) \in Nat
          /\ Cardinality(Live) \in Nat
      BY <2>1, FiniteParts, FS_Singleton DEF OwedPairs, Live
    <2>4. Cardinality({a} \X Q) = Cardinality(Q)
      <3> HIDE DEF Q
      <3>1. QED
        BY <2>3, FS_Product
    <2>5. Cardinality(OwedPairs') = Cardinality(OwedPairs) - Cardinality(Q)
      <3>1. Cardinality(OwedPairs \ ({a} \X Q))
              = Cardinality(OwedPairs) - Cardinality(OwedPairs \cap ({a} \X Q))
        BY <2>3, FS_Difference
      <3>2. QED
        BY <2>2, <2>4, <3>1
    <2>6. gauge = Cardinality(Live) + Cardinality(OwedPairs)
      BY DEF IInv, BooksExact, GaugeExact, OwedPairs
    <2>7. QED
      BY <1>1, <1>5, <2>3, <2>5, <2>6
  <1>11. gauge' \in Nat
    <2>1. Cardinality(Live') \in Nat /\ Cardinality(OwedPairs') \in Nat
      BY FiniteParts DEF Live, OwedPairs
    <2>2. QED
      BY <1>10, <2>1
  <1>12. GaugeExact'
    BY <1>10 DEF GaugeExact, OwedPairs
  <1>13. TypeOK'
    BY <1>1, <1>4, <1>7, <1>11 DEF IInv, TypeOK
  <1>14. QED
    BY <1>4, <1>8, <1>9, <1>12, <1>13 DEF IInv, BooksExact

LEMMA FinalizeKeeps ==
  ASSUME IInv, NEW a \in Actors, FinalizeClose(a)
  PROVE  IInv'
  <1>0. PICK i \in Ids : i = actor[a].id
    BY AtPosition DEF FinalizeClose, Placed, Actor
  <1> DEFINE d == Dropped(actor, {i})
             r == [d[a] EXCEPT !.pc = "cleanup", !.id = None, !.todo = actor[a].todo \ {i}]
  <1>1. /\ actor[a] \in Actor /\ Placed(actor[a]) /\ actor[a].pc = "delete"
        /\ lease' = Without({i}) /\ gauge' = IF i \in Live THEN gauge - 1 ELSE gauge
        /\ UNCHANGED <<orphans, gate, issued>>
    BY <1>0, AtPosition DEF FinalizeClose
  <1>2. /\ d \in [Actors -> Actor]
        /\ \A b \in Actors :
             /\ Placed(d[b]) /\ (d[b].holds => actor[b].holds)
             /\ d[b].pc = actor[b].pc /\ d[b].kind = actor[b].kind /\ d[b].id = actor[b].id
             /\ d[b].reserved = actor[b].reserved /\ d[b].todo = actor[b].todo
             /\ d[b].owed = actor[b].owed
    BY DroppedFields DEF IInv, TypeOK, Positions
  <1>3. actor' = [d EXCEPT ![a] = r]
    BY <1>0, <1>2 DEF FinalizeClose, CleanedUp
  <1> HIDE DEF d
  <1>4. /\ r \in Actor /\ r.pc = "cleanup" /\ r.id = None /\ r.kind = actor[a].kind
        /\ r.owed = actor[a].owed /\ r.reserved = actor[a].reserved
        /\ r.holds = d[a].holds
    BY <1>1, <1>2 DEF Actor
  <1> HIDE DEF r
  <1>5. ~actor[a].holds /\ ~actor[a].reserved /\ actor[a].owed = {}
    BY <1>1 DEF Placed
  <1>6. ~d[a].holds
    BY <1>2, <1>5
  <1>7. Placed(r)
    BY <1>1, <1>4, <1>5, <1>6 DEF Placed
  <1>8. /\ actor' \in [Actors -> Actor] /\ Positions'
        /\ actor'[a] = r /\ \A b \in Actors \ {a} : actor'[b] = d[b]
    BY <1>2, <1>3, <1>4, <1>7 DEF Positions, Placed
  <1>9. /\ lease' \in [Ids -> Lease] /\ Live' = Live \ {i}
        /\ HoldersLive' /\ InFlightExact'
    <2>1. ASSUME NEW b \in Actors
          PROVE  /\ actor'[b].holds <=> d[b].holds
                 /\ actor'[b].holds => actor'[b].kind = actor[b].kind
                                       /\ actor'[b].id = actor[b].id
      <3>1. CASE b = a
        BY <1>4, <1>6, <1>8, <3>1
      <3>2. CASE b # a
        BY <1>2, <1>8, <3>2
      <3>3. QED
        BY <3>1, <3>2
    <2>2. QED
      BY <1>1, <2>1, DropKeeps DEF d
  <1>10. \A b \in Actors : actor'[b].reserved = actor[b].reserved
                           /\ actor'[b].owed = actor[b].owed
    BY <1>2, <1>4, <1>8
  <1>11. Reserved' = Reserved /\ OwedPairs' = OwedPairs
    BY <1>10 DEF Reserved, OwedPairs
  <1>12. orphans \in Nat /\ gauge \in Nat
    BY DEF IInv, TypeOK
  <1>13. CapacityBound'
    BY <1>1, <1>9, <1>11, <1>12, CapacityKeeps
  <1>14. gauge' = Cardinality(Live') + Cardinality(OwedPairs')
    <2>1. /\ IsFiniteSet(Live) /\ Cardinality(Live) \in Nat
          /\ Cardinality(OwedPairs) \in Nat
      BY FiniteParts DEF Live, OwedPairs
    <2>2. Cardinality(Live') = IF i \in Live THEN Cardinality(Live) - 1 ELSE Cardinality(Live)
      BY <1>9, <2>1, FS_RemoveElement
    <2>3. gauge = Cardinality(Live) + Cardinality(OwedPairs)
      BY DEF IInv, BooksExact, GaugeExact, OwedPairs
    <2>4. QED
      BY <1>1, <1>11, <2>1, <2>2, <2>3
  <1>15. gauge' \in Nat
    <2>1. Cardinality(Live') \in Nat /\ Cardinality(OwedPairs') \in Nat
      BY FiniteParts DEF Live, OwedPairs
    <2>2. QED
      BY <1>14, <2>1
  <1>16. GaugeExact'
    BY <1>14 DEF GaugeExact, OwedPairs
  <1>17. TypeOK'
    BY <1>1, <1>8, <1>9, <1>12, <1>15 DEF IInv, TypeOK
  <1>18. QED
    BY <1>8, <1>9, <1>13, <1>16, <1>17 DEF IInv, BooksExact

LEMMA InvalidateKeeps ==
  ASSUME IInv, InvalidateAll
  PROVE  IInv'
  <1> DEFINE d == Dropped(actor, Ids)
  <1>1. /\ d \in [Actors -> Actor]
        /\ \A b \in Actors :
             /\ Placed(d[b]) /\ (d[b].holds => actor[b].holds)
             /\ actor[b].id \in Ids => ~d[b].holds
             /\ d[b].pc = actor[b].pc /\ d[b].kind = actor[b].kind /\ d[b].id = actor[b].id
             /\ d[b].todo = actor[b].todo /\ d[b].owed = actor[b].owed
    BY DroppedFields DEF IInv, TypeOK, Positions
  <1>2. actor' = [b \in Actors |-> [d[b] EXCEPT !.reserved = FALSE]]
    BY DEF InvalidateAll
  <1> HIDE DEF d
  <1>3. ASSUME NEW b \in Actors
        PROVE  /\ actor'[b] \in Actor /\ Placed(actor'[b])
               /\ ~actor'[b].holds /\ ~actor'[b].reserved /\ actor'[b].owed = actor[b].owed
    <2>1. /\ actor'[b] \in Actor /\ actor'[b].reserved = FALSE
          /\ actor'[b].pc = d[b].pc /\ actor'[b].kind = d[b].kind /\ actor'[b].id = d[b].id
          /\ actor'[b].holds = d[b].holds
          /\ actor'[b].todo = d[b].todo /\ actor'[b].owed = d[b].owed
      <3>1. actor'[b] = [d[b] EXCEPT !.reserved = FALSE] /\ d[b] \in Actor
        BY <1>1, <1>2
      <3>2. QED
        BY <3>1 DEF Actor
    <2>2. Placed(d[b]) /\ ~d[b].holds
      <3>1. Placed(actor[b])
        BY DEF IInv, Positions
      <3>2. QED
        BY <1>1, <3>1 DEF Placed
    <2>3. Placed(actor'[b])
      BY <2>1, <2>2 DEF Placed
    <2>4. QED
      BY <1>1, <2>1, <2>2, <2>3
  <1>4. actor' \in [Actors -> Actor]
    <2>1. actor' = [b \in Actors |-> actor'[b]]
      BY <1>2
    <2>2. QED
      BY <1>3, <2>1
  <1>5. /\ lease' \in [Ids -> Lease] /\ Live' = {}
        /\ orphans' = 0 /\ gauge' = gauge - Cardinality(Live)
        /\ UNCHANGED <<gate, issued>>
    BY Records DEF InvalidateAll, Live
  <1>6. Reserved' = {} /\ OwedPairs' = OwedPairs
    BY <1>3 DEF Reserved, OwedPairs
  <1>7. CapacityBound'
    <2>1. CapacityUsed' = 0
      BY <1>5, <1>6, FS_EmptySet DEF CapacityUsed
    <2>2. QED
      BY <2>1, ConstantsAssumption DEF CapacityBound
  <1>8. gauge' = Cardinality(OwedPairs) /\ Cardinality(OwedPairs) \in Nat
    <2>1. Cardinality(OwedPairs) \in Nat /\ Cardinality(Live) \in Nat
      BY FiniteParts DEF OwedPairs, Live
    <2>2. gauge = Cardinality(Live) + Cardinality(OwedPairs)
      BY DEF IInv, BooksExact, GaugeExact, OwedPairs
    <2>3. QED
      BY <1>5, <2>1, <2>2
  <1>9. GaugeExact'
    <2>1. Cardinality(Live') = 0
      BY <1>5, FS_EmptySet
    <2>2. gauge' = Cardinality(Live') + Cardinality(OwedPairs')
      BY <1>6, <1>8, <2>1
    <2>3. QED
      BY <2>2 DEF GaugeExact, OwedPairs
  <1>10. HoldersLive' /\ InFlightExact'
    BY <1>3, <1>5 DEF HoldersLive, InFlightExact
  <1>11. TypeOK'
    BY <1>4, <1>5, <1>8 DEF IInv, TypeOK
  <1>12. Positions'
    BY <1>3 DEF Positions, Placed
  <1>13. QED
    BY <1>7, <1>9, <1>10, <1>11, <1>12 DEF IInv, BooksExact

LEMMA GateKeeps ==
  ASSUME IInv, GateMoves
  PROVE  IInv'
  BY DEF GateMoves, IInv, TypeOK, Positions, Placed, HoldersLive, CapacityBound, CapacityUsed,
         Reserved, Live, BooksExact, GaugeExact, InFlightExact

LEMMA StutterKeeps ==
  ASSUME IInv, UNCHANGED vars
  PROVE  IInv'
  BY DEF vars, IInv, TypeOK, Positions, Placed, HoldersLive, CapacityBound, CapacityUsed,
         Reserved, Live, BooksExact, GaugeExact, InFlightExact

---------------------------------------------------------------------------
LEMMA Initially == Init => IInv
  <1> SUFFICES ASSUME Init PROVE IInv
    OBVIOUS
  <1>1. TypeOK /\ Positions
    BY Records DEF Init, TypeOK, Positions
  <1>2. HoldersLive /\ Live = {} /\ Reserved = {} /\ OwedPairs = {}
    BY Records, ConstantsAssumption DEF Init, HoldersLive, Live, Reserved, OwedPairs, IdleActor
  <1>3. CapacityBound
    BY <1>2, ConstantsAssumption, FS_EmptySet DEF Init, CapacityBound, CapacityUsed
  <1>4. BooksExact
    BY <1>2, FS_EmptySet DEF Init, BooksExact, GaugeExact, InFlightExact, OwedPairs
  <1>5. QED
    BY <1>1, <1>2, <1>3, <1>4 DEF IInv

LEMMA Inductive == IInv /\ [Next]_vars => IInv'
  <1> SUFFICES ASSUME IInv, [Next]_vars PROVE IInv'
    OBVIOUS
  <1>1. ASSUME NEW a \in Handlers, Arrive(a) PROVE IInv'
    BY <1>1, HandleQuiet, AdmitKeeps, BeginKeeps, StreamQuiet, CleanupQuiet DEF Arrive, Actors
  <1>2. ASSUME NEW a \in Handlers, Handle(a) PROVE IInv'
    <2>1. CASE InitializeAmbiguous(a)
      BY <2>1, OrphanKeeps DEF InitializeAmbiguous, At, Actors, IInv, TypeOK
    <2>2. QED
      BY <1>2, <2>1, HandleQuiet, AdmitKeeps, CommitKeeps, CompleteKeeps DEF Handle, Actors
  <1>3. ASSUME NEW a \in Handlers, EndSSE(a) PROVE IInv'
    BY <1>3, StreamQuiet DEF Actors
  <1>4. CASE ReaperTick
    BY <1>4, CleanupQuiet DEF Actors
  <1>5. ASSUME NEW a \in Actors, Prune(a) PROVE IInv'
    BY <1>5, CleanupQuiet, QuarantineEndKeeps, SettleKeeps, FinalizeKeeps DEF Prune
  <1>6. QED
    BY <1>1, <1>2, <1>3, <1>4, <1>5, GateKeeps, InvalidateKeeps, StutterKeeps DEF Next

(* Every variable keeps its type in every reachable state; in particular   *)
(* the active-sessions gauge never goes below zero.                        *)
THEOREM TypesHold == Spec => []TypeOK
<1>1. IInv => TypeOK
  BY DEF IInv
<1>2. QED
  BY Initially, Inductive, <1>1, PTL DEF Spec

(* The manager never has more reservations, orphaned reservations and      *)
(* leases than max_sessions, whatever handlers, reaper and invalidation do *)
(* in between and however many of them run.                                *)
THEOREM CapacityHolds == Spec => []CapacityBound
<1>1. IInv => CapacityBound
  BY DEF IInv
<1>2. QED
  BY Initially, Inductive, <1>1, PTL DEF Spec

(* The gauge is the number of leases (and of closed ones a prune has yet   *)
(* to take off), and inFlight of each lease the number of requests running *)
(* on that very record, also for a backend that uses an id twice.          *)
THEOREM BooksHold == Spec => []BooksExact
<1>1. IInv => BooksExact
  BY DEF IInv
<1>2. QED
  BY Initially, Inductive, <1>1, PTL DEF Spec

---------------------------------------------------------------------------
(* The cleanup of a lease, for a backend that never uses an id twice.      *)

KnownIds == Live \subseteq issued /\ \A a \in Actors : actor[a].todo \subseteq issued
(* A lease somebody has to clean up is expiring, or gone by an             *)
(* invalidation; nobody else has to clean it up; and no expiring lease is  *)
(* forgotten.                                                              *)
TodoExpires  == \A a \in Actors : \A i \in actor[a].todo : lease[i].state \in {"expiring", "none"}
TodosDisjoint ==
  \A a, b \in Actors : \A i \in Ids : i \in actor[a].todo /\ i \in actor[b].todo => a = b
ExpiringOwned ==
  \A i \in Ids : lease[i].state = "expiring" => \E a \in Actors : i \in actor[a].todo
Deleting ==
  \A i \in Ids : lease[i].deleted =>
     \/ lease[i].state = "cleanup_uncertain"
     \/ /\ lease[i].state = "expiring"
        /\ \E a \in Actors : actor[a].pc = "delete" /\ actor[a].id = i

UInv == KnownIds /\ TodoExpires /\ TodosDisjoint /\ ExpiringOwned /\ Deleting
        /\ NoRequestUnderCleanup

(* Steps that neither begin nor end a cleanup.                             *)
LEMMA CleanupStays ==
  ASSUME IInv, UInv, issued' = issued,
         \A i \in Ids : /\ lease'[i].state = lease[i].state
                        /\ lease'[i].deleted = lease[i].deleted
                        /\ lease[i].state \in {"expiring", "cleanup_uncertain"}
                             => lease'[i].inFlight = 0,
         \A b \in Actors : /\ actor'[b].todo = actor[b].todo
                           /\ actor[b].pc = "delete"
                                => actor'[b].pc = "delete" /\ actor'[b].id = actor[b].id
  PROVE  UInv'
  <1>1. actor \in [Actors -> Actor] /\ \A b \in Actors : actor[b].todo \subseteq Ids
    BY DEF IInv, TypeOK, Actor
  <1>2. KnownIds'
    BY DEF UInv, KnownIds, Live
  <1>3. TodoExpires' /\ TodosDisjoint' /\ ExpiringOwned'
    BY <1>1 DEF UInv, TodoExpires, TodosDisjoint, ExpiringOwned
  <1>4. Deleting'
    BY DEF UInv, Deleting
  <1>5. NoRequestUnderCleanup'
    BY DEF UInv, NoRequestUnderCleanup
  <1>6. QED
    BY <1>2, <1>3, <1>4, <1>5 DEF UInv

(* One goroutine moves; it stays away from its cleanup work.               *)
LEMMA OtherWork ==
  ASSUME IInv, NEW a \in Actors, NEW r \in Actor, actor' = [actor EXCEPT ![a] = r],
         r.todo = actor[a].todo, actor[a].pc # "delete"
  PROVE  \A b \in Actors : /\ actor'[b].todo = actor[b].todo
                           /\ actor[b].pc = "delete"
                                => actor'[b].pc = "delete" /\ actor'[b].id = actor[b].id
  BY DEF IInv, TypeOK

(* An idle goroutine has nothing to clean up.                              *)
LEMMA IdleWork == IdleActor.todo = {}
  BY DEF IdleActor

LEMMA WorkAt ==
  ASSUME IInv, NEW a \in Actors
  PROVE  /\ actor[a] \in Actor /\ Placed(actor[a]) /\ actor[a].todo \subseteq Ids
         /\ actor[a].pc \notin {"cleanup", "restore", "delete"} => actor[a].todo = {}
         /\ actor[a].pc \in {"restore", "delete"} => actor[a].id \in actor[a].todo
  BY DEF IInv, TypeOK, Positions, Placed, Actor

LEMMA HandleWork ==
  ASSUME IInv, UInv, NEW a \in Actors,
         \/ Initialize(a) \/ ReserveAgain(a) \/ InitializeGate(a) \/ InitializeRefused(a)
         \/ InitializeAmbiguous(a) \/ RequestGate(a) \/ SSEGate(a)
         \/ SettleGauge(a) \/ CleanupDone(a)
         \/ a = Reaper /\ ReaperTick
  PROVE  UInv'
  <1>1. UNCHANGED <<lease, issued>>
    BY DEF Initialize, ReserveAgain, InitializeGate, InitializeRefused, InitializeAmbiguous,
           RequestGate, SSEGate, SettleGauge, CleanupDone, ReaperTick
  <1>2. actor[a] \in Actor /\ actor[a].pc # "delete" /\ actor[a].todo = {}
    BY WorkAt DEF Initialize, ReserveAgain, InitializeGate, InitializeRefused,
       InitializeAmbiguous, RequestGate, SSEGate, SettleGauge, CleanupDone, ReaperTick, At
  <1>3. \E r \in Actor : actor' = [actor EXCEPT ![a] = r] /\ r.todo = {}
    <2> DEFINE Moved == \E r \in Actor : actor' = [actor EXCEPT ![a] = r] /\ r.todo = {}
    <2>1. CASE Finish(a)
      BY <2>1, Records, IdleWork DEF Finish
    <2>2. ASSUME NEW pc \in {"sent", "stream", "reserve"}, Goto(a, pc) PROVE Moved
      <3>1. [actor[a] EXCEPT !.pc = pc] \in Actor /\ [actor[a] EXCEPT !.pc = pc].todo = {}
        BY <1>2 DEF Actor
      <3>2. QED
        BY <2>2, <3>1 DEF Goto
    <2>3. CASE Initialize(a)
      <3>1. [IdleActor EXCEPT !.kind = "init", !.pc = "sweep"] \in Actor
        BY DEF IdleActor, Actor
      <3>2. [IdleActor EXCEPT !.kind = "init", !.pc = "gate", !.reserved = TRUE] \in Actor
        BY DEF IdleActor, Actor
      <3>3. QED
        BY <2>3, <3>1, <3>2 DEF Initialize, IdleActor
    <2>4. CASE actor' = [actor EXCEPT ![a].pc = "gate", ![a].reserved = TRUE]
      <3> DEFINE r == [actor[a] EXCEPT !.pc = "gate", !.reserved = TRUE]
      <3>1. r \in Actor /\ r.todo = {} /\ actor' = [actor EXCEPT ![a] = r]
        BY <1>2, <2>4 DEF Actor
      <3> HIDE DEF r
      <3>2. QED
        BY <3>1
    <2>5. CASE actor' = [actor EXCEPT ![a].pc = "expire", ![a].owed = {}]
      <3> DEFINE r == [actor[a] EXCEPT !.pc = "expire", !.owed = {}]
      <3>1. r \in Actor /\ r.todo = {} /\ actor' = [actor EXCEPT ![a] = r]
        BY <1>2, <2>5 DEF Actor
      <3> HIDE DEF r
      <3>2. QED
        BY <3>1
    <2>6. CASE a = Reaper /\ ReaperTick
      <3>1. [IdleActor EXCEPT !.kind = "prune", !.pc = "sweep"] \in Actor
        BY DEF IdleActor, Actor
      <3>2. QED
        BY <2>6, <3>1 DEF ReaperTick, IdleActor
    <2>7. QED
      BY <2>1, <2>2, <2>3, <2>4, <2>5, <2>6
      DEF ReserveAgain, InitializeGate, InitializeRefused, InitializeAmbiguous, RequestGate,
          SSEGate, SettleGauge, CleanupDone
  <1>4. \A b \in Actors : /\ actor'[b].todo = actor[b].todo
                          /\ actor[b].pc = "delete"
                               => actor'[b].pc = "delete" /\ actor'[b].id = actor[b].id
    BY <1>2, <1>3, OtherWork
  <1>5. QED
    BY <1>1, <1>4, CleanupStays DEF UInv, NoRequestUnderCleanup

(* Requests and streams do not touch a lease under cleanup: none begins on *)
(* it, and none that could end is counted on it.                           *)
LEMMA RequestWork ==
  ASSUME IInv, UInv, NEW a \in Actors,
         \/ \E i \in Ids, activity \in BOOLEAN : BeginRequest(a, i, activity)
         \/ CompleteRequest(a)
         \/ \E i \in Ids : BeginSSE(a, i)
         \/ EndSSE(a)
  PROVE  UInv'
  <1>1. issued' = issued /\ actor[a].pc # "delete" /\ actor[a].todo = {}
    BY WorkAt DEF BeginRequest, CompleteRequest, BeginSSE, EndSSE, At
  <1>2. \E r \in Actor : actor' = [actor EXCEPT ![a] = r] /\ r.todo = {}
    <2>1. ASSUME NEW i \in Ids, NEW activity \in BOOLEAN, BeginRequest(a, i, activity)
          PROVE  \E r \in Actor : actor' = [actor EXCEPT ![a] = r] /\ r.todo = {}
      <3> DEFINE r == [IdleActor EXCEPT !.kind = "post", !.pc = "gate", !.id = i, !.holds = TRUE]
      <3>1. r \in Actor /\ r.todo = {} /\ actor' = [actor EXCEPT ![a] = r]
        BY <2>1 DEF BeginRequest, IdleActor, Actor
      <3> HIDE DEF r
      <3>2. QED
        BY <3>1
    <2>2. ASSUME NEW i \in Ids, BeginSSE(a, i)
          PROVE  \E r \in Actor : actor' = [actor EXCEPT ![a] = r] /\ r.todo = {}
      <3> DEFINE r == [IdleActor EXCEPT !.kind = "sse", !.pc = "gate", !.id = i]
      <3>1. r \in Actor /\ r.todo = {} /\ actor' = [actor EXCEPT ![a] = r]
        BY <2>2 DEF BeginSSE, IdleActor, Actor
      <3> HIDE DEF r
      <3>2. QED
        BY <3>1
    <2>3. CASE Finish(a)
      BY <2>3, Records, IdleWork DEF Finish
    <2>4. QED
      BY <2>1, <2>2, <2>3 DEF CompleteRequest, EndSSE
  <1>3. \A b \in Actors : /\ actor'[b].todo = actor[b].todo
                          /\ actor[b].pc = "delete"
                               => actor'[b].pc = "delete" /\ actor'[b].id = actor[b].id
    BY <1>1, <1>2, OtherWork
  <1>4. \A i \in Ids : /\ lease'[i].state = lease[i].state
                       /\ lease'[i].deleted = lease[i].deleted
                       /\ lease[i].state \in {"expiring", "cleanup_uncertain"}
                            => lease'[i].inFlight = lease[i].inFlight
    <2> DEFINE Untouched == \A i \in Ids :
                 /\ lease'[i].state = lease[i].state
                 /\ lease'[i].deleted = lease[i].deleted
                 /\ lease[i].state \in {"expiring", "cleanup_uncertain"}
                      => lease'[i].inFlight = lease[i].inFlight
    <2>1. lease \in [Ids -> Lease]
      BY AtPosition
    <2>2. CASE lease' = lease
      BY <2>2
    <2>3. ASSUME NEW i \in Ids, NEW activity \in BOOLEAN, BeginRequest(a, i, activity)
          PROVE  Untouched
      BY <2>1, <2>3 DEF BeginRequest, Lease
    <2>4. ASSUME NEW i \in Ids, BeginSSE(a, i) PROVE Untouched
      BY <2>1, <2>4 DEF BeginSSE, Lease
    <2>5. CASE EndSSE(a)
      <3>1. CASE lease' = [lease EXCEPT
                     ![actor[a].id].sse = @ - 1,
                     ![actor[a].id].deadline = @ \/ (lease[actor[a].id].sse = 1 /\ Grace)]
        BY <2>1, <3>1 DEF Lease
      <3>2. QED
        BY <2>2, <2>5, <3>1 DEF EndSSE
    <2>6. CASE CompleteRequest(a) /\ actor[a].holds
      <3>1. PICK i \in Ids : i = actor[a].id
        BY <2>6, WorkAt DEF Placed
      <3>2. i \in Live /\ actor[a].kind = "post"
        BY <2>6, <3>1, WorkAt DEF IInv, HoldersLive, Placed
      <3>3. Cardinality(Holders(i)) # 0
        <4>1. a \in Holders(i) /\ IsFiniteSet(Holders(i))
          BY <2>6, <3>1, <3>2, FiniteParts DEF Holders
        <4>2. QED
          BY <4>1, FS_EmptySet
      <3>4. lease[i].inFlight # 0
        BY <3>2, <3>3 DEF IInv, BooksExact, InFlightExact, Holders
      <3>5. lease[i].state \notin {"expiring", "cleanup_uncertain"}
        BY <3>4 DEF UInv, NoRequestUnderCleanup
      <3>6. lease' = [lease EXCEPT ![i].inFlight = @ - 1]
        BY <2>6, <3>1 DEF CompleteRequest
      <3>7. QED
        BY <2>1, <3>5, <3>6 DEF Lease
    <2>7. QED
      BY <2>2, <2>3, <2>4, <2>5, <2>6 DEF CompleteRequest
  <1>5. \A i \in Ids : lease[i].state \in {"expiring", "cleanup_uncertain"}
                         => lease'[i].inFlight = 0
    BY <1>4 DEF UInv, NoRequestUnderCleanup
  <1>6. QED
    BY <1>1, <1>3, <1>4, <1>5, CleanupStays

(* A new lease has a new id: nobody is charged with its cleanup.           *)
LEMMA CommitWork ==
  ASSUME UniqueIds, IInv, UInv, NEW a \in Actors, NEW i \in Ids, Commit(a, i)
  PROVE  UInv'
  <1>1. /\ i \notin issued /\ issued' = issued \cup {i} /\ Finish(a)
        /\ lease \in [Ids -> Lease] /\ actor[a].pc # "delete" /\ actor[a].todo = {}
    BY AtPosition, WorkAt DEF Commit, At
  <1>2. \A b \in Actors : /\ actor'[b].todo = actor[b].todo
                          /\ actor[b].pc = "delete"
                               => actor'[b].pc = "delete" /\ actor'[b].id = actor[b].id
    BY <1>1, OtherWork, Records, IdleWork DEF Finish
  <1>3. \A b \in Actors : i \notin actor[b].todo /\ actor[b].todo \subseteq issued
    BY <1>1 DEF UInv, KnownIds
  <1>4. i \notin Live /\ Live \subseteq issued /\ lease[i].state = "none"
    BY <1>1 DEF UInv, KnownIds, Live
  <1>5. \A j \in Ids \ {i} : lease'[j] = lease[j]
    BY <1>1 DEF Commit
  <1>6. \/ lease'[i].state = "active" /\ lease'[i].inFlight = 0 /\ ~lease'[i].deleted
        \/ lease'[i] = lease[i]
    BY <1>1, Records DEF Commit
  <1>7. KnownIds'
    <2>1. \A j \in Ids : lease'[j].state # "none" => j \in issued'
      BY <1>1, <1>4, <1>5 DEF Live
    <2>2. QED
      BY <1>1, <1>2, <1>3, <2>1 DEF KnownIds, Live
  <1>8. TodoExpires'
    <2>1. \A b \in Actors : actor[b].todo \subseteq Ids
      BY WorkAt
    <2>2. QED
      BY <1>2, <1>3, <1>5, <2>1 DEF UInv, TodoExpires
  <1>9. TodosDisjoint'
    BY <1>2 DEF UInv, TodosDisjoint
  <1>10. ExpiringOwned'
    BY <1>2, <1>4, <1>5, <1>6 DEF UInv, ExpiringOwned
  <1>11. Deleting'
    BY <1>2, <1>5, <1>6 DEF UInv, Deleting
  <1>12. NoRequestUnderCleanup'
    BY <1>4, <1>5, <1>6 DEF UInv, NoRequestUnderCleanup
  <1>13. QED
    BY <1>7, <1>8, <1>9, <1>10, <1>11, <1>12 DEF UInv

(* Idle active leases are handed to a goroutine that has none to clean up. *)
LEMMA BeginCleanup ==
  ASSUME IInv, UInv, NEW a \in Actors, NEW S \in SUBSET Ids,
         actor[a].todo = {}, actor[a].pc # "delete", issued' = issued,
         \A i \in S : lease[i].state = "active" /\ lease[i].inFlight = 0,
         lease' = [i \in Ids |-> IF i \in S THEN [lease[i] EXCEPT !.state = "expiring"]
                                           ELSE lease[i]],
         actor'[a].todo = S, \A b \in Actors \ {a} : actor'[b] = actor[b]
  PROVE  UInv'
  <1>1. \A i \in S : /\ lease'[i].state = "expiring" /\ lease'[i].inFlight = 0
                     /\ lease'[i].deleted = lease[i].deleted
    BY AtPosition DEF Lease
  <1>2. \A i \in Ids \ S : lease'[i] = lease[i]
    OBVIOUS
  <1>3. \A i \in S : /\ i \in issued /\ ~lease[i].deleted
                     /\ \A b \in Actors : i \notin actor[b].todo
    BY DEF UInv, KnownIds, Live, Deleting, TodoExpires
  <1>4. \A b \in Actors : actor[b].todo \subseteq Ids
    BY WorkAt
  <1>5. KnownIds'
    <2>1. \A i \in Ids : lease'[i].state # "none" => i \in issued
      BY <1>2, <1>3 DEF UInv, KnownIds, Live
    <2>2. QED
      BY <1>3, <2>1 DEF UInv, KnownIds, Live
  <1>6. TodoExpires'
    BY <1>1, <1>2, <1>3, <1>4 DEF UInv, TodoExpires
  <1>7. TodosDisjoint'
    BY <1>3 DEF UInv, TodosDisjoint
  <1>8. ExpiringOwned'
    <2>1. ASSUME NEW i \in Ids, lease'[i].state = "expiring"
          PROVE  \E b \in Actors : i \in actor'[b].todo
      <3>1. CASE i \in S
        BY <3>1
      <3>2. CASE i \notin S
        BY <1>2, <2>1, <3>2 DEF UInv, ExpiringOwned
      <3>3. QED
        BY <3>1, <3>2
    <2>2. QED
      BY <2>1 DEF ExpiringOwned
  <1>9. Deleting'
    BY <1>1, <1>2, <1>3 DEF UInv, Deleting
  <1>10. NoRequestUnderCleanup'
    BY <1>1, <1>2 DEF UInv, NoRequestUnderCleanup
  <1>11. QED
    BY <1>5, <1>6, <1>7, <1>8, <1>9, <1>10 DEF UInv

(* The goroutine in charge of i is done with it.                           *)
LEMMA EndCleanup ==
  ASSUME IInv, UInv, NEW a \in Actors, NEW i \in Ids, issued' = issued,
         i \in actor[a].todo, actor[a].id = i,
         actor'[a].todo = actor[a].todo \ {i},
         \A b \in Actors \ {a} : /\ actor'[b].todo = actor[b].todo
                                 /\ actor'[b].pc = actor[b].pc /\ actor'[b].id = actor[b].id,
         \A j \in Ids \ {i} : lease'[j] = lease[j],
         lease'[i].state \in {"none", "active", "cleanup_uncertain"},
         lease'[i].state # "none" => lease[i].state # "none",
         lease'[i].state = "cleanup_uncertain" => lease'[i].inFlight = 0,
         lease'[i].deleted => lease'[i].state = "cleanup_uncertain"
  PROVE  UInv'
  <1>1. \A b \in Actors : /\ actor[b].todo \subseteq Ids
                          /\ actor'[b].todo \subseteq actor[b].todo
    BY WorkAt
  <1>2. \A b \in Actors \ {a} : i \notin actor[b].todo
    BY DEF UInv, TodosDisjoint
  <1>3. \A b \in Actors : i \notin actor'[b].todo
    BY <1>2
  <1>4. KnownIds'
    <2>1. \A j \in Ids : lease'[j].state # "none" => lease[j].state # "none"
      OBVIOUS
    <2>2. Live' \subseteq Live
      BY <2>1 DEF Live
    <2>3. QED
      BY <1>1, <2>2 DEF UInv, KnownIds
  <1>5. TodoExpires'
    BY <1>1, <1>3 DEF UInv, TodoExpires
  <1>6. TodosDisjoint'
    BY <1>1 DEF UInv, TodosDisjoint
  <1>7. ExpiringOwned'
    <2>1. ASSUME NEW j \in Ids, lease'[j].state = "expiring"
          PROVE  \E b \in Actors : j \in actor'[b].todo
      <3>1. j # i /\ lease[j].state = "expiring"
        BY <2>1
      <3>2. PICK b \in Actors : j \in actor[b].todo
        BY <3>1 DEF UInv, ExpiringOwned
      <3>3. QED
        BY <3>1, <3>2
    <2>2. QED
      BY <2>1 DEF ExpiringOwned
  <1>8. Deleting'
    BY DEF UInv, Deleting
  <1>9. NoRequestUnderCleanup'
    BY DEF UInv, NoRequestUnderCleanup
  <1>10. QED
    BY <1>4, <1>5, <1>6, <1>7, <1>8, <1>9 DEF UInv

LEMMA ExpiryWork ==
  ASSUME IInv, UInv, NEW a \in Actors,
         \/ \E i \in Ids : TryBeginExpiry(a, i)
         \/ \E S \in SUBSET Ids : ExpireEligible(a, S)
  PROVE  UInv'
  <1>1. lease \in [Ids -> Lease] /\ actor \in [Actors -> Actor]
    BY DEF IInv, TypeOK
  <1>2. ASSUME NEW i \in Ids, TryBeginExpiry(a, i) PROVE UInv'
    <2>1. lease' = [j \in Ids |-> IF j \in {i} THEN [lease[j] EXCEPT !.state = "expiring"]
                                              ELSE lease[j]]
      BY <1>1, <1>2 DEF TryBeginExpiry
    <2>2. /\ actor[a].todo = {} /\ actor[a].pc # "delete" /\ issued' = issued
          /\ lease[i].state = "active" /\ lease[i].inFlight = 0
      BY <1>2, WorkAt DEF TryBeginExpiry
    <2>3. actor'[a].todo = {i} /\ \A b \in Actors \ {a} : actor'[b] = actor[b]
      BY <1>1, <1>2 DEF TryBeginExpiry, IdleActor
    <2>4. QED
      BY <2>1, <2>2, <2>3, BeginCleanup
  <1>3. ASSUME NEW S \in SUBSET Ids, ExpireEligible(a, S) PROVE UInv'
    <2>1. /\ actor[a].todo = {} /\ actor[a].pc # "delete" /\ issued' = issued
          /\ \A i \in S : lease[i].state = "active" /\ lease[i].inFlight = 0
      BY <1>3, WorkAt DEF ExpireEligible, Eligible
    <2>2. actor' = [actor EXCEPT ![a] = [actor[a] EXCEPT !.pc = "cleanup", !.todo = S]]
      BY <1>3 DEF ExpireEligible
    <2>3. actor'[a].todo = S /\ \A b \in Actors \ {a} : actor'[b] = actor[b]
      BY <1>1, <2>2 DEF Actor
    <2>4. QED
      BY <1>3, <2>1, <2>3, BeginCleanup DEF ExpireEligible
  <1>4. QED
    BY <1>2, <1>3

(* The DELETE of a lease is dispatched by the goroutine in charge of it.   *)
LEMMA CleanupGateWork ==
  ASSUME IInv, UInv, NEW a \in Actors, NEW i \in Ids, CleanupGate(a, i)
  PROVE  UInv'
  <1>1. /\ lease \in [Ids -> Lease] /\ actor \in [Actors -> Actor] /\ actor[a] \in Actor
        /\ actor[a].pc = "cleanup" /\ i \in actor[a].todo /\ issued' = issued
    BY DEF IInv, TypeOK, CleanupGate
  <1>2. PICK pc \in {"delete", "restore"} :
          actor' = [actor EXCEPT ![a] = [actor[a] EXCEPT !.pc = pc, !.id = i]]
    BY DEF CleanupGate
  <1> DEFINE r == [actor[a] EXCEPT !.pc = pc, !.id = i]
  <1>3. r \in Actor /\ r.todo = actor[a].todo /\ r.pc = pc /\ r.id = i
    BY <1>1 DEF Actor
  <1> HIDE DEF r
  <1>4. \A b \in Actors : /\ actor'[b].todo = actor[b].todo
                          /\ actor[b].pc = "delete"
                               => actor'[b].pc = "delete" /\ actor'[b].id = actor[b].id
    BY <1>1, <1>2, <1>3, OtherWork DEF r
  <1>5. CASE lease' = lease
    BY <1>1, <1>4, <1>5, CleanupStays DEF UInv, NoRequestUnderCleanup
  <1>6. CASE gate /\ i \in Live /\ lease' = [lease EXCEPT ![i].deleted = TRUE]
    <2>1. /\ lease'[i].state = lease[i].state /\ lease'[i].inFlight = lease[i].inFlight
          /\ \A j \in Ids \ {i} : lease'[j] = lease[j]
      BY <1>1, <1>6 DEF Lease
    <2>2. lease[i].state = "expiring"
      BY <1>1, <1>6 DEF UInv, TodoExpires, Live
    <2>3. actor'[a].pc = "delete" /\ actor'[a].id = i
      BY <1>1, <1>6 DEF CleanupGate, Actor
    <2>4. \A j \in Ids : lease'[j].state = lease[j].state /\ lease'[j].inFlight = lease[j].inFlight
      BY <2>1
    <2>5. Live' = Live
      BY <2>4 DEF Live
    <2>6. KnownIds'
      BY <1>1, <1>4, <2>5 DEF UInv, KnownIds
    <2>7. \A b \in Actors : actor[b].todo \subseteq Ids
      BY WorkAt
    <2>8. TodoExpires' /\ TodosDisjoint' /\ ExpiringOwned'
      BY <1>4, <2>4, <2>7 DEF UInv, TodoExpires, TodosDisjoint, ExpiringOwned
    <2>9. Deleting'
      <3>1. ASSUME NEW j \in Ids, lease'[j].deleted
            PROVE  \/ lease'[j].state = "cleanup_uncertain"
                   \/ /\ lease'[j].state = "expiring"
                      /\ \E b \in Actors : actor'[b].pc = "delete" /\ actor'[b].id = j
        <4>1. CASE j = i
          BY <2>2, <2>3, <2>4, <4>1
        <4>2. CASE j # i
          BY <1>4, <2>1, <3>1, <4>2 DEF UInv, Deleting
        <4>3. QED
          BY <4>1, <4>2
      <3>2. QED
        BY <3>1 DEF Deleting
    <2>10. NoRequestUnderCleanup'
      BY <2>4 DEF UInv, NoRequestUnderCleanup
    <2>11. QED
      BY <2>6, <2>8, <2>9, <2>10 DEF UInv
  <1>7. QED
    BY <1>5, <1>6 DEF CleanupGate

LEMMA OutcomeWork ==
  ASSUME IInv, UInv, NEW a \in Actors,
         RestoreActive(a) \/ MarkCleanupUncertain(a) \/ FinalizeClose(a)
  PROVE  UInv'
  <1>1. PICK i \in Ids : i = actor[a].id /\ i \in actor[a].todo
    BY WorkAt DEF RestoreActive, MarkCleanupUncertain, FinalizeClose
  <1>2. /\ lease \in [Ids -> Lease] /\ actor \in [Actors -> Actor] /\ issued' = issued
    BY DEF IInv, TypeOK, RestoreActive, MarkCleanupUncertain, FinalizeClose
  <1>3. /\ actor'[a].todo = actor[a].todo \ {i}
        /\ \A b \in Actors \ {a} : /\ actor'[b].todo = actor[b].todo
                                   /\ actor'[b].pc = actor[b].pc /\ actor'[b].id = actor[b].id
    <2>1. PICK acts \in [Actors -> Actor] :
             /\ actor' = [acts EXCEPT ![a].pc = "cleanup", ![a].id = None,
                                      ![a].todo = acts[a].todo \ {acts[a].id}]
             /\ \A b \in Actors : /\ acts[b].todo = actor[b].todo
                                  /\ acts[b].pc = actor[b].pc /\ acts[b].id = actor[b].id
      <3>1. CASE FinalizeClose(a)
        <4>1. /\ Dropped(actor, {i}) \in [Actors -> Actor]
              /\ \A b \in Actors : /\ Dropped(actor, {i})[b].todo = actor[b].todo
                                   /\ Dropped(actor, {i})[b].pc = actor[b].pc
                                   /\ Dropped(actor, {i})[b].id = actor[b].id
          BY <1>2, DroppedFields DEF IInv, Positions
        <4>2. actor' = CleanedUp(Dropped(actor, {i}), a)
          BY <1>1, <3>1 DEF FinalizeClose
        <4>3. QED
          BY <4>1, <4>2 DEF CleanedUp
      <3>2. QED
        BY <1>2, <3>1 DEF RestoreActive, MarkCleanupUncertain, CleanedUp
    <2> DEFINE r == [acts[a] EXCEPT !.pc = "cleanup", !.id = None,
                                    !.todo = acts[a].todo \ {acts[a].id}]
    <2>2. actor' = [acts EXCEPT ![a] = r]
      BY <2>1
    <2>3. r.todo = actor[a].todo \ {i}
      BY <1>1, <2>1 DEF Actor
    <2> HIDE DEF r
    <2>4. QED
      BY <2>1, <2>2, <2>3
  <1>4. /\ lease[i].state \in {"expiring", "none"}
        /\ lease[i].state = "none" => ~lease[i].deleted
    BY <1>1 DEF UInv, TodoExpires, Deleting
  <1>5. \A j \in Ids \ {i} : lease'[j] = lease[j]
    BY <1>1, <1>2 DEF RestoreActive, MarkCleanupUncertain, FinalizeClose, Without
  <1>6. /\ lease'[i].state \in {"none", "active", "cleanup_uncertain"}
        /\ lease'[i].state # "none" => lease[i].state # "none"
        /\ lease'[i].state = "cleanup_uncertain" => lease'[i].inFlight = 0
        /\ lease'[i].deleted => lease'[i].state = "cleanup_uncertain"
    <2>1. CASE RestoreActive(a)
      <3>1. CASE lease[i].state = "expiring"
        <4>1. ~lease[i].deleted
          <5>1. actor[a].pc = "restore"
            BY <2>1 DEF RestoreActive
          <5>2. ASSUME NEW b \in Actors, actor[b].pc = "delete", actor[b].id = i PROVE FALSE
            <6>1. i \in actor[b].todo
              BY <5>2, WorkAt
            <6>2. b = a
              BY <1>1, <6>1 DEF UInv, TodosDisjoint
            <6>3. QED
              BY <5>1, <5>2, <6>2
          <5>3. QED
            BY <3>1, <5>2 DEF UInv, Deleting
        <4>2. lease' = [lease EXCEPT ![i].state = "active"]
          BY <1>1, <2>1, <3>1 DEF RestoreActive
        <4>3. QED
          BY <1>2, <3>1, <4>1, <4>2 DEF Lease
      <3>2. CASE lease[i].state = "none"
        BY <1>1, <1>4, <2>1, <3>2 DEF RestoreActive
      <3>3. QED
        BY <1>4, <3>1, <3>2
    <2>2. CASE MarkCleanupUncertain(a)
      <3>1. CASE lease[i].state = "expiring"
        <4>1. lease' = [lease EXCEPT ![i].state = "cleanup_uncertain"]
          BY <1>1, <2>2, <3>1 DEF MarkCleanupUncertain, Live
        <4>2. lease[i].inFlight = 0
          BY <3>1 DEF UInv, NoRequestUnderCleanup
        <4>3. QED
          BY <1>2, <3>1, <4>1, <4>2 DEF Lease
      <3>2. CASE lease[i].state = "none"
        BY <1>1, <1>4, <2>2, <3>2 DEF MarkCleanupUncertain, Live
      <3>3. QED
        BY <1>4, <3>1, <3>2
    <2>3. CASE FinalizeClose(a)
      BY <1>1, <2>3, Records DEF FinalizeClose, Without
    <2>4. QED
      BY <2>1, <2>2, <2>3
  <1>7. QED
    BY <1>1, <1>2, <1>3, <1>5, <1>6, EndCleanup

(* Records disappear under whoever is cleaning them up.                    *)
LEMMA GoneWork ==
  ASSUME IInv, UInv, NEW S \in SUBSET Ids, issued' = issued, lease' = Without(S),
         \A i \in S : lease[i].state = "expiring" => \E b \in Actors : i \in actor[b].todo,
         \A b \in Actors : /\ actor'[b].todo = actor[b].todo
                           /\ actor[b].pc = "delete"
                                => actor'[b].pc = "delete" /\ actor'[b].id = actor[b].id
  PROVE  UInv'
  <1>1. /\ \A i \in S : lease'[i].state = "none" /\ ~lease'[i].deleted
        /\ \A i \in Ids \ S : lease'[i] = lease[i]
    BY Records DEF Without
  <1>2. \A b \in Actors : actor[b].todo \subseteq Ids
    BY WorkAt
  <1>3. Live' \subseteq Live
    BY <1>1 DEF Live
  <1>4. KnownIds'
    BY <1>3 DEF UInv, KnownIds
  <1>5. TodoExpires' /\ TodosDisjoint'
    BY <1>1, <1>2 DEF UInv, TodoExpires, TodosDisjoint
  <1>6. ExpiringOwned'
    BY <1>1 DEF UInv, ExpiringOwned
  <1>7. Deleting'
    BY <1>1 DEF UInv, Deleting
  <1>8. NoRequestUnderCleanup'
    BY <1>1 DEF UInv, NoRequestUnderCleanup
  <1>9. QED
    BY <1>4, <1>5, <1>6, <1>7, <1>8 DEF UInv

LEMMA LossWork ==
  ASSUME IInv, UInv,
         \/ \E a \in Actors, Q \in SUBSET Ids : ExpireCleanupUncertain(a, Q)
         \/ InvalidateAll
  PROVE  UInv'
  <1>1. /\ actor \in [Actors -> Actor] /\ issued' = issued
        /\ \A b \in Actors : Placed(actor[b])
    BY DEF IInv, TypeOK, Positions, ExpireCleanupUncertain, InvalidateAll
  <1>2. ASSUME NEW a \in Actors, NEW Q \in SUBSET Ids, ExpireCleanupUncertain(a, Q)
        PROVE  UInv'
    <2> DEFINE d == Dropped(actor, Q)
    <2>1. /\ d \in [Actors -> Actor]
          /\ \A b \in Actors : /\ d[b].pc = actor[b].pc /\ d[b].id = actor[b].id
                               /\ d[b].todo = actor[b].todo
      BY <1>1, DroppedFields
    <2>2. /\ actor' = [d EXCEPT ![a] = [d[a] EXCEPT !.pc = "settle", !.owed = Q]]
          /\ actor[a].pc = "sweep" /\ lease' = Without(Q)
      BY <1>2, <2>1 DEF ExpireCleanupUncertain
    <2> HIDE DEF d
    <2>3. actor'[a].todo = actor[a].todo /\ \A b \in Actors \ {a} : actor'[b] = d[b]
      BY <2>1, <2>2 DEF Actor
    <2>4. \A b \in Actors : /\ actor'[b].todo = actor[b].todo
                            /\ actor[b].pc = "delete"
                                 => actor'[b].pc = "delete" /\ actor'[b].id = actor[b].id
      BY <2>1, <2>2, <2>3
    <2>5. QED
      BY <1>1, <2>2, <2>4, GoneWork DEF UInv, ExpiringOwned
  <1>3. CASE InvalidateAll
    <2> DEFINE d == Dropped(actor, Ids)
    <2>1. /\ d \in [Actors -> Actor]
          /\ \A b \in Actors : /\ d[b].pc = actor[b].pc /\ d[b].id = actor[b].id
                               /\ d[b].todo = actor[b].todo
      BY <1>1, DroppedFields
    <2>2. lease' = Without(Ids) /\ actor' = [b \in Actors |-> [d[b] EXCEPT !.reserved = FALSE]]
      BY <1>3 DEF InvalidateAll, Without
    <2> HIDE DEF d
    <2>3. ASSUME NEW b \in Actors
          PROVE  actor'[b].todo = actor[b].todo /\ actor'[b].pc = actor[b].pc
                 /\ actor'[b].id = actor[b].id
      <3>1. actor'[b] = [d[b] EXCEPT !.reserved = FALSE] /\ d[b] \in Actor
        BY <2>1, <2>2
      <3>2. QED
        BY <2>1, <3>1 DEF Actor
    <2>4. \A b \in Actors : /\ actor'[b].todo = actor[b].todo
                            /\ actor[b].pc = "delete"
                                 => actor'[b].pc = "delete" /\ actor'[b].id = actor[b].id
      BY <2>3
    <2>5. QED
      BY <1>1, <2>2, <2>4, GoneWork DEF UInv, ExpiringOwned
  <1>4. QED
    BY <1>2, <1>3

LEMMA WorkInitially == Init => UInv
  <1> SUFFICES ASSUME Init PROVE UInv
    OBVIOUS
  <1>1. /\ \A i \in Ids : lease[i].state = "none" /\ ~lease[i].deleted
        /\ \A a \in Actors : actor[a].todo = {}
    BY Records, IdleWork DEF Init
  <1>2. Live = {}
    BY <1>1 DEF Live
  <1>3. QED
    BY <1>1, <1>2 DEF UInv, KnownIds, TodoExpires, TodosDisjoint, ExpiringOwned, Deleting,
                      NoRequestUnderCleanup

LEMMA WorkInductive ==
  ASSUME UniqueIds, IInv, UInv, [Next]_vars
  PROVE  UInv'
  <1>1. ASSUME NEW a \in Handlers, Arrive(a) PROVE UInv'
    BY <1>1, HandleWork, RequestWork, ExpiryWork DEF Arrive, Actors
  <1>2. ASSUME NEW a \in Handlers, Handle(a) PROVE UInv'
    BY <1>2, HandleWork, RequestWork, CommitWork DEF Handle, Actors
  <1>3. ASSUME NEW a \in Handlers, EndSSE(a) PROVE UInv'
    BY <1>3, RequestWork DEF Actors
  <1>4. CASE ReaperTick
    BY <1>4, HandleWork DEF Actors
  <1>5. ASSUME NEW a \in Actors, Prune(a) PROVE UInv'
    BY <1>5, LossWork, ExpiryWork, HandleWork, CleanupGateWork, OutcomeWork DEF Prune
  <1>6. CASE UNCHANGED <<lease, actor, issued>>
    BY <1>6, CleanupStays DEF UInv, NoRequestUnderCleanup
  <1>7. QED
    BY <1>1, <1>2, <1>3, <1>4, <1>5, <1>6, LossWork DEF Next, vars, GateMoves

LEMMA CleanupInvariant == ASSUME UniqueIds PROVE Spec => [](IInv /\ UInv)
<1>1. Init => IInv /\ UInv
  BY Initially, WorkInitially
<1>2. (IInv /\ UInv) /\ [Next]_vars => (IInv /\ UInv)'
  BY Inductive, WorkInductive
<1>3. QED
  BY <1>1, <1>2, PTL DEF Spec

(* Cleanup and requests exclude each other: no request is counted on a     *)
(* lease that is expiring or in quarantine, so a lease is never closed     *)
(* under a request that is running.                                        *)
THEOREM NoRequestHolds == ASSUME UniqueIds PROVE Spec => []NoRequestUnderCleanup
<1>1. IInv /\ UInv => NoRequestUnderCleanup
  BY DEF UInv
<1>2. QED
  BY CleanupInvariant, <1>1, PTL

(* Exactly one goroutine is in charge of an expiring lease: two prunes, or *)
(* a prune and a client's DELETE, never both close it, and none is left    *)
(* expiring with nobody to close it.                                       *)
THEOREM OneOwnerHolds == ASSUME UniqueIds PROVE Spec => []ExpiringHasOneOwner
<1>1. ASSUME IInv, UInv PROVE ExpiringHasOneOwner
  <2> SUFFICES ASSUME NEW i \in Ids, lease[i].state = "expiring"
               PROVE  Cardinality({a \in Actors : i \in actor[a].todo}) = 1
    BY DEF ExpiringHasOneOwner
  <2>1. PICK a \in Actors : i \in actor[a].todo
    BY <1>1 DEF UInv, ExpiringOwned
  <2>2. {b \in Actors : i \in actor[b].todo} = {a}
    BY <1>1, <2>1 DEF UInv, TodosDisjoint
  <2>3. QED
    BY <2>2, FS_Singleton
<1>2. QED
  BY CleanupInvariant, <1>1, PTL

(* Once a DELETE was dispatched for a session, its lease is never active   *)
(* again: a client cannot go on with a session the backend was told to     *)
(* dispose of.                                                             *)
THEOREM DeletedHolds == ASSUME UniqueIds PROVE Spec => []DeletedStaysClosed
<1>1. IInv /\ UInv => DeletedStaysClosed
  BY DEF UInv, Deleting, DeletedStaysClosed
<1>2. QED
  BY CleanupInvariant, <1>1, PTL
=============================================================================
